------------------------------ MODULE GrpcIdem ------------------------------
(***************************************************************************)
(* grpcidem/grpcidem.go: the unary server interceptor over the core, with  *)
(* the default policy.  A gRPC call is one Call of the lease protocol; its *)
(* store key is key[c], the hash of its method and request is fp[c].       *)
(*                                                                         *)
(* Unlike the HTTP middleware, the interceptor hands the response to the   *)
(* client only after Finish, and only a success has a message to store.    *)
(***************************************************************************)
EXTENDS IdemLease

CONSTANTS
    Message,            \* response messages, their type included
    Encodable,          \* those the policy stores and that can be marshaled
    Registered,         \* those whose type the proto registry finds
    Configs             \* combinations of the options of the interceptor

ASSUME GrpcAssumption ==
    /\ Encodable \subseteq Message /\ Registered \subseteq Message
    /\ Message \cap {None, "nil", "error"} = {}
    /\ Configs \subseteq SUBSET {"Require", "FailOpen"}

VARIABLES
    stage,      \* where each call is in intercept
    ret,        \* what its handler returned: a message, "nil" or "error"
    reply,      \* what its client gets: a status code and a message
    cfg         \* the options that are on, chosen once

grpcVars == <<stage, ret, reply, cfg>>
coreVars == vars
allVars == <<coreVars, grpcVars>>

NoAnswer == [code |-> "none", msg |-> None]

GrpcInit ==
    /\ Init
    /\ stage = [c \in Call |-> "arrived"]
    /\ ret = [c \in Call |-> None]
    /\ reply = [c \in Call |-> NoAnswer]
    /\ cfg \in Configs

goto(c, s) == stage' = [stage EXCEPT ![c] = s]

(* The client of c gets a status without a message. *)
status(c, code) ==
    /\ reply' = [reply EXCEPT ![c] = [code |-> code, msg |-> None]]
    /\ goto(c, "done")

-----------------------------------------------------------------------------
(* Before Begin *)

(* keyFromContext and KeyValidator: no entry, several entries, a malformed *)
(* or a rejected one.  A call without a key goes straight to the handler   *)
(* unless one is required.                                                 *)
KeyFromContext(c, entries) ==
    /\ stage[c] = "arrived"
    /\ \/ entries = "none" /\ "Require" \notin cfg /\ goto(c, "direct") /\ UNCHANGED reply
       \/ entries = "none" /\ "Require" \in cfg /\ status(c, "InvalidArgument")
       \/ entries \in {"several", "malformed", "invalid"}
          /\ status(c, "InvalidArgument")
    /\ UNCHANGED <<coreVars, ret, cfg>>

(* A request that is no proto message, or cannot be marshaled. *)
MarshalError(c) ==
    /\ stage[c] = "arrived"
    /\ status(c, "Internal")
    /\ UNCHANGED <<coreVars, ret, cfg>>

(* The fingerprint and the scoped key are at hand. *)
Guard(c) ==
    /\ stage[c] = "arrived"
    /\ goto(c, "begin")
    /\ UNCHANGED <<coreVars, ret, reply, cfg>>

-----------------------------------------------------------------------------
(* Begin and its outcomes *)

BeginRun(c) ==
    /\ stage[c] = "begin"
    /\ BeginStep(c) \/ ReserveError(c) \/ NewTokenError(c)
    /\ goto(c, IF pc'[c] = "running" THEN "handler" ELSE "begin")
    /\ UNCHANGED <<ret, reply, cfg>>

(* Mutant: FailOpen joins the guarded path. *)
StoreUnavailableGuarded(c) ==
    /\ stage[c] = "begin" /\ pc[c] = "failed"
    /\ goto(c, "handler")
    /\ UNCHANGED <<coreVars, ret, reply, cfg>>

StoreUnavailable(c) ==
    /\ stage[c] = "begin" /\ pc[c] = "failed"
    /\ \/ "FailOpen" \in cfg /\ goto(c, "direct") /\ UNCHANGED reply
       \/ "FailOpen" \notin cfg /\ status(c, "Unavailable")
    /\ UNCHANGED <<coreVars, ret, cfg>>

RejectInFlight(c) ==
    /\ stage[c] = "begin" /\ pc[c] = "answered"
    /\ outcome[c].action = "RejectInFlight"
    /\ status(c, "Aborted")
    /\ UNCHANGED <<coreVars, ret, cfg>>

RejectFingerprintMismatch(c) ==
    /\ stage[c] = "begin" /\ pc[c] = "answered"
    /\ outcome[c].action = "RejectFingerprintMismatch"
    /\ status(c, "FailedPrecondition")
    /\ UNCHANGED <<coreVars, ret, cfg>>

(* Mutant: the error of decodePayload is dropped. *)
replayUnchecked(c) ==
    /\ stage[c] = "begin" /\ pc[c] = "answered"
    /\ outcome[c].action = "Replay"
    /\ LET msg == ret[outcome[c].payload] IN
       reply' = [reply EXCEPT ![c] =
          [code |-> "OK", msg |-> IF msg \in Registered THEN msg ELSE None]]
    /\ goto(c, "done")
    /\ UNCHANGED <<coreVars, ret, cfg>>

(* The stored message, if this process knows its type.  The payload call p *)
(* hands to the Store is the message its handler returned.                 *)
replay(c) ==
    /\ stage[c] = "begin" /\ pc[c] = "answered"
    /\ outcome[c].action = "Replay"
    /\ LET msg == ret[outcome[c].payload] IN
         \/ msg \notin Registered /\ status(c, "Internal")
         \/ /\ msg \in Registered
            /\ reply' = [reply EXCEPT ![c] = [code |-> "OK", msg |-> msg]]
            /\ goto(c, "done")
    /\ UNCHANGED <<coreVars, ret, cfg>>

-----------------------------------------------------------------------------
(* The handler and Finish *)

RunDirect(c) ==
    /\ stage[c] = "direct"
    /\ goto(c, "done")
    /\ UNCHANGED <<coreVars, ret, reply, cfg>>

Handle(c, r) ==
    /\ stage[c] = "handler"
    /\ ret' = [ret EXCEPT ![c] = r]
    /\ goto(c, "returned")
    /\ UNCHANGED <<coreVars, reply, cfg>>

(* The deferred recover covers the handler and the policy after it. *)
Panic(c) ==
    /\ stage[c] \in {"handler", "returned"}
    /\ goto(c, "panicked")
    /\ UNCHANGED <<coreVars, ret, reply, cfg>>

(* A success whose message can be encoded. *)
payloadToPersist(r) == r \in Encodable

respond(c) ==
    reply' = [reply EXCEPT ![c] =
        IF ret[c] = "error" THEN [code |-> "error", msg |-> None]
                            ELSE [code |-> "OK", msg |-> ret[c]]]

(* Mutant: nothing is released when there is nothing to store. *)
runHandlerKept(c) ==
    /\ stage[c] = "returned"
    /\ \/ /\ payloadToPersist(ret[c])
          /\ Finish(c, "Persist") \/ FinishError(c, "Persist")
       \/ ~payloadToPersist(ret[c]) /\ UNCHANGED coreVars
    /\ \/ pc'[c] = "unsettled" /\ goto(c, "unsettled") /\ UNCHANGED reply
       \/ pc'[c] # "unsettled" /\ goto(c, "done") /\ respond(c)
    /\ UNCHANGED <<ret, cfg>>

(* After the handler: Persist or Discard, then the answer. *)
runHandler(c) ==
    /\ stage[c] = "returned"
    /\ LET d == IF payloadToPersist(ret[c]) THEN "Persist" ELSE "Discard"
       IN  Finish(c, d) \/ FinishError(c, d)
    /\ \/ pc'[c] = "unsettled" /\ goto(c, "unsettled") /\ UNCHANGED reply
       \/ pc'[c] # "unsettled" /\ goto(c, "done") /\ respond(c)
    /\ UNCHANGED <<ret, cfg>>

(* reportFinish: a failed Persist is followed by a best-effort Discard. *)
reportFinish(c) ==
    /\ stage[c] = "unsettled"
    /\ FinishAgain(c)
    /\ respond(c)
    /\ goto(c, "done")
    /\ UNCHANGED <<ret, cfg>>

(* The reservation of a call that panicked is released, and the panic      *)
(* goes on.                                                                *)
Repanic(c) ==
    /\ stage[c] = "panicked"
    /\ Finish(c, "Discard") \/ FinishError(c, "Discard")
    /\ goto(c, "aborted")
    /\ UNCHANGED <<ret, reply, cfg>>

(* The process dies. *)
Die(c) ==
    /\ stage[c] \in {"handler", "returned", "panicked", "unsettled"}
    /\ Crash(c)
    /\ goto(c, "dead")
    /\ UNCHANGED <<ret, reply, cfg>>

Entries == {"none", "several", "malformed", "invalid"}

Results == Message \cup {"nil", "error"}

Intercept(c) ==
    \/ \E e \in Entries : KeyFromContext(c, e)
    \/ MarshalError(c) \/ Guard(c)
    \/ BeginRun(c)
    \/ StoreUnavailable(c) \/ RejectInFlight(c) \/ RejectFingerprintMismatch(c)
    \/ replay(c)
    \/ RunDirect(c) \/ \E r \in Results : Handle(c, r)
    \/ Panic(c) \/ runHandler(c) \/ reportFinish(c) \/ Repanic(c)

Background ==
    /\ \/ \E o \in late : LateArrival(o)
       \/ \E k \in Key : Inspect(k)
       \/ Tick
    /\ UNCHANGED grpcVars

GrpcNext ==
    \/ \E c \in Call : Intercept(c) \/ Die(c)
    \/ Background

GrpcSpec == GrpcInit /\ [][GrpcNext]_allVars

(* The server runs the goroutine of a call, its handler returns, and its   *)
(* Store calls return or fail.                                             *)
Progress(c) ==
    \/ BeginRun(c)
    \/ StoreUnavailable(c) \/ RejectInFlight(c) \/ RejectFingerprintMismatch(c)
    \/ replay(c)
    \/ RunDirect(c) \/ \E r \in Results : Handle(c, r)
    \/ runHandler(c) \/ reportFinish(c) \/ Repanic(c)

GrpcFairSpec ==
    /\ GrpcSpec
    /\ \A c \in Call : WF_allVars(Progress(c))

-----------------------------------------------------------------------------
(* Properties *)

Stages == {"arrived", "begin", "direct", "handler", "returned", "panicked",
           "unsettled", "done", "aborted", "dead"}

Codes == {"none", "OK", "error", "InvalidArgument", "Internal", "Unavailable",
          "Aborted", "FailedPrecondition"}

(* The state of a call agrees with the state of its lease: the handler     *)
(* runs guarded only with a reservation, and Finish is reached from there. *)
GrpcTypeOK ==
    /\ TypeOK
    /\ stage \in [Call -> Stages]
    /\ ret \in [Call -> Results \cup {None}]
    /\ reply \in [Call -> [code : Codes, msg : Results \cup {None}]]
    /\ cfg \in Configs
    /\ \A c \in Call :
          /\ stage[c] \in {"handler", "returned", "panicked"} => pc[c] = "running"
          /\ stage[c] = "unsettled" => pc[c] = "unsettled"

(* "Only successful responses are stored and replayed", and replayed       *)
(* unchanged: what a retry gets from the Store is the very message the     *)
(* handler of an execution with the same key and request returned, whether *)
(* or not the client of that execution got it.                             *)
ReplaySame ==
    \A c \in Call :
        stage[c] = "done" /\ outcome[c].action = "Replay" =>
            LET p == outcome[c].payload IN
            /\ key[p] = key[c] /\ fp[p] = fp[c]
            /\ ret[p] \in Message
            /\ reply[c] = [code |-> "OK", msg |-> ret[p]]
               \/ (reply[c].code = "Internal" /\ ret[p] \notin Registered)
            /\ reply[p] \in {NoAnswer, [code |-> "OK", msg |-> ret[p]]}

(* "An errored call has nothing to replay and re-executes on retry": once  *)
(* the client knows that a call failed, or a panic has gone on, nothing of *)
(* it is left in the Store, not even its reservation, unless the Store     *)
(* failed to answer the release.                                           *)
ErrorLeavesNothing ==
    \A c \in Call :
        /\ reply[c].code = "error" \/ stage[c] = "aborted"
        /\ result[c] # "unknown"
        => \A k \in Key : recs[k].token # c

(* A handler is not run while an unexpired result for its key is stored,   *)
(* unless the Store is unavailable and the interceptor fails open.         *)
SuccessSealed ==
    [][\A c \in Call :
          stage[c] = "begin" /\ stage'[c] = "handler" =>
              ~(recs[key[c]].state = StateCompleted /\ now < recs[key[c]].expires)]_allVars

(* The inductive strengthening. *)

(* An absent key carries nobody's token. *)
ZeroInv == \A k \in Key : recs[k].state = 0 => recs[k].token = None

(* Where the interceptor is with a call, what it has told the client and   *)
(* what it has told the core go together.                                  *)
Agrees(c) ==
    /\ stage[c] = "arrived" => pc[c] = "begin"
    /\ stage[c] = "begin"
          => pc[c] \in {"begin", "reserve", "judge", "answered", "failed"}
    /\ stage[c] = "direct" => pc[c] \in {"begin", "failed"}
    /\ stage[c] # "done" => reply[c] = NoAnswer
    /\ outcome[c].action = "Replay"
          => pc[c] = "answered" /\ stage[c] \in {"begin", "done"}
    /\ decided[c] = "Persist" =>
          /\ ret[c] \in Encodable
          /\ reply[c] \in {NoAnswer, [code |-> "OK", msg |-> ret[c]]}
    /\ reply[c].code = "error" \/ stage[c] = "aborted"
          => decided[c] = "Discard" /\ result[c] # "none"

StageInv == \A c \in Call : Agrees(c)

(* The inductive invariant: the core's, and what ties the interceptor to   *)
(* it.                                                                     *)
GrpcInv == IInv /\ GrpcTypeOK /\ ZeroInv /\ StageInv /\ ReplaySame

(* Every guarded call comes to its end, whatever the Store does.           *)
CallEnds ==
    \A c \in Call :
        stage[c] = "begin" ~> stage[c] \in {"done", "aborted", "dead"}

=============================================================================
