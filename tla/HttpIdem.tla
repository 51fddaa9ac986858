------------------------------ MODULE HttpIdem ------------------------------
(***************************************************************************)
(* httpidem/httpidem.go: the net/http middleware, from the arrival of a    *)
(* request to the Finish of its reservation.  A request is one Call of the *)
(* lease protocol; the steps of Begin are those of IdemLease, the handler  *)
(* writes through the captureWriter of Recorder, and the payload a call    *)
(* hands to the Store is the StoredResponse kept in captured.              *)
(*                                                                         *)
(* The handler is the application's: it makes any calls, may panic at any  *)
(* time, and may settle its reservation itself (the transactional join of  *)
(* reservation.go), with or without the MarkFinished that should follow.   *)
(***************************************************************************)
EXTENDS IdemLease, Recorder, Policies

CONSTANTS
    Statuses,           \* the statuses handlers write
    MaxWrites,          \* bound: calls of one handler, SetError included
    HeaderBytes,        \* bytes one captured header adds to a payload
    MaxOverhead,        \* maxStoredResponseOverhead
    Second,             \* clock units in a second
    Require, BypassLargeBody, FailOpen,     \* options of the middleware
    Errtrail,           \* errtrailadapter.Options() are among them, too
    Errors              \* the errors handlers pass to SetError

ASSUME HttpAssumption ==
    /\ Statuses \subseteq Informational \cup 200 .. 999
    /\ MaxWrites \in Nat /\ HeaderBytes \in Nat /\ MaxOverhead \in Nat
    /\ Second \in Nat \ {0}
    /\ {Require, BypassLargeBody, FailOpen, Errtrail} \subseteq BOOLEAN
    /\ Errors \subseteq ErrorKinds

VARIABLES
    stage,      \* where each request is in ServeHTTP
    cw,         \* its captureWriter; the wire is what its client received
    writes,     \* calls its handler has made
    herr,       \* the error its handler last passed to SetError
    marked,     \* MarkFinished was called
    own,        \* how the handler's own completion ended
    captured,   \* the StoredResponse last handed to the Store
    retry       \* Retry-After of a 409, in seconds; 0 when absent

httpVars == <<stage, cw, writes, herr, marked, own, captured, retry>>
coreVars == vars
allVars == <<coreVars, httpVars>>

NoResponse == [status |-> 0, header |-> {}, body |-> 0]

Arrivals ==
    /\ Init
    /\ stage = [c \in Call |-> "arrived"]
    /\ herr = [c \in Call |-> "nil"]
    /\ writes = [c \in Call |-> 0]
    /\ marked = [c \in Call |-> FALSE]
    /\ own = [c \in Call |-> "none"]
    /\ captured = [c \in Call |-> NoResponse]
    /\ retry = [c \in Call |-> 0]

HttpInit == Arrivals /\ cw = [c \in Call |-> NewCapture]

goto(c, s) == stage' = [stage EXCEPT ![c] = s]

(* The client of c receives x. *)
send(c, x) == cw' = [cw EXCEPT ![c].wire = x]

(* ErrorWriter.WriteError: a status and a problem document. *)
problem(status) ==
    [status |-> status, header |-> {}, body |-> 1, hijacked |-> FALSE]

(* The errtrail writer derives the status from the code it maps err to.    *)
WriteError(c, status, err) ==
    /\ send(c, problem(IF Errtrail THEN httpStatus[classify(status, err)] ELSE status))
    /\ goto(c, "done")

-----------------------------------------------------------------------------
(* Before Begin *)

(* Requests the middleware does not guard go straight to the handler. *)
PassThrough(c, kind) ==
    /\ stage[c] = "arrived"
    /\ \/ kind = "otherMethod"
       \/ kind = "keyless" /\ ~Require
       \/ kind = "largeBody" /\ BypassLargeBody
    /\ goto(c, "direct")
    /\ UNCHANGED <<coreVars, cw, writes, herr, marked, own, captured, retry>>

RefuseRequest(c, kind) ==
    /\ stage[c] = "arrived"
    /\ \/ kind = "keyless" /\ Require /\ WriteError(c, 400, "ErrKeyMissing")
       \/ kind = "badKey" /\ WriteError(c, 400, "ErrKeyInvalid")
       \/ kind = "badBody" /\ WriteError(c, 400, "read")
       \/ kind = "largeBody" /\ ~BypassLargeBody /\ WriteError(c, 413, "ErrRequestBodyTooLarge")
    /\ UNCHANGED <<coreVars, writes, herr, marked, own, captured, retry>>

(* A guarded request: its body is read, its fingerprint and the scoped key *)
(* are the fp[c] and key[c] of the core.                                   *)
Guard(c) ==
    /\ stage[c] = "arrived"
    /\ goto(c, "begin")
    /\ UNCHANGED <<coreVars, cw, writes, herr, marked, own, captured, retry>>

-----------------------------------------------------------------------------
(* Begin and its outcomes *)

BeginRun(c) ==
    /\ stage[c] = "begin"
    /\ BeginStep(c) \/ ReserveError(c) \/ NewTokenError(c)
    /\ goto(c, IF pc'[c] = "running" THEN "handler" ELSE "begin")
    /\ UNCHANGED <<cw, writes, herr, marked, own, captured, retry>>

(* Mutant: the handler runs under capture without a reservation. *)
StoreUnavailableCaptured(c) ==
    /\ stage[c] = "begin" /\ pc[c] = "failed"
    /\ goto(c, "handler")
    /\ UNCHANGED <<coreVars, cw, writes, herr, marked, own, captured, retry>>

(* Begin failed: 503, or with FailOpen the handler without a reservation. *)
StoreUnavailable(c) ==
    /\ stage[c] = "begin" /\ pc[c] = "failed"
    /\ \/ FailOpen /\ goto(c, "direct") /\ UNCHANGED cw
       \/ ~FailOpen /\ WriteError(c, 503, "ErrStoreUnavailable")
    /\ UNCHANGED <<coreVars, writes, herr, marked, own, captured, retry>>

(* Mutant: rounded down. *)
retryAfterSecondsFloor(d) ==
    IF d \div Second < 1 THEN 1 ELSE d \div Second

(* Rounded up, a second at least. *)
retryAfterSeconds(d) ==
    LET secs == (d + Second - 1) \div Second
    IN  IF secs < 1 THEN 1 ELSE secs

RejectInFlight(c) ==
    /\ stage[c] = "begin" /\ pc[c] = "answered"
    /\ outcome[c].action = "RejectInFlight"
    /\ retry' = [retry EXCEPT ![c] = retryAfterSeconds(outcome[c].retryAfter)]
    /\ WriteError(c, 409, "ErrInFlight")
    /\ UNCHANGED <<coreVars, writes, herr, marked, own, captured>>

RejectFingerprintMismatch(c) ==
    /\ stage[c] = "begin" /\ pc[c] = "answered"
    /\ outcome[c].action = "RejectFingerprintMismatch"
    /\ WriteError(c, 422, "ErrFingerprintMismatch")
    /\ UNCHANGED <<coreVars, writes, herr, marked, own, captured, retry>>

(* MarshalBinary, as far as its length goes. *)
payloadBytes(sr) == HeaderBytes * Cardinality(sr.header) + sr.body

(* More than the capture path is taken to write. *)
oversized(sr) == payloadBytes(sr) > MaxResponseBody + MaxOverhead

(* writeReplay: a payload over the limits is refused, not replayed. *)
writeReplay(c) ==
    /\ stage[c] = "begin" /\ pc[c] = "answered"
    /\ outcome[c].action = "Replay"
    /\ LET sr == captured[outcome[c].payload] IN
         \/ /\ oversized(sr)
            /\ WriteError(c, 500, "corrupted")
         \/ /\ ~oversized(sr)
            /\ send(c, WriteStored(sr, {}))
            /\ goto(c, "done")
    /\ UNCHANGED <<coreVars, writes, herr, marked, own, captured, retry>>

-----------------------------------------------------------------------------
(* The handler *)

(* A handler without reservation writes to the client directly. *)
RunDirect(c) ==
    /\ stage[c] = "direct"
    /\ goto(c, "done")
    /\ UNCHANGED <<coreVars, cw, writes, herr, marked, own, captured, retry>>

HandlerCall(c, w) ==
    /\ stage[c] = "handler"
    /\ writes[c] < MaxWrites
    /\ cw' = [cw EXCEPT ![c] = w]
    /\ writes' = [writes EXCEPT ![c] = @ + 1]
    /\ UNCHANGED <<coreVars, stage, herr, marked, own, captured, retry>>

HandlerWrite(c) ==
    \/ \E h \in Header : HandlerCall(c, SetHeader(cw[c], h))
    \/ \E code \in Statuses : HandlerCall(c, WriteHeader(cw[c], code))
    \/ HandlerCall(c, Write(cw[c], 1))
    \/ HandlerCall(c, Flush(cw[c], "nil"))
    \/ HandlerCall(c, Hijack(cw[c], "nil"))

(* SetError: the last one counts. *)
SetError(c, err) ==
    /\ stage[c] = "handler"
    /\ writes[c] < MaxWrites
    /\ herr' = [herr EXCEPT ![c] = err]
    /\ writes' = [writes EXCEPT ![c] = @ + 1]
    /\ UNCHANGED <<coreVars, stage, cw, marked, own, captured, retry>>

(* The response a handler stores on its own. *)
ownResponse == [status |-> 201, header |-> allow, body |-> MaxResponseBody]

(* The transactional join: the handler completes its reservation before it *)
(* writes.  It commits (and may forget MarkFinished), learns that its      *)
(* lease is lost and answers 409, or gets an error and answers 500.        *)
Join(c) ==
    /\ stage[c] = "handler" /\ writes[c] = 0 /\ own[c] = "none"
    /\ captured' = [captured EXCEPT ![c] = ownResponse]
    /\ \/ LET r == settle(c, "Persist") IN
            /\ recs' = r.recs
            /\ UNCHANGED late
            /\ \/ /\ r.err = "nil"
                  /\ pc' = [pc EXCEPT ![c] = "finished"]
                  /\ decided' = [decided EXCEPT ![c] = "Persist"]
                  /\ result' = [result EXCEPT ![c] = "persisted"]
                  /\ own' = [own EXCEPT ![c] = "committed"]
                  /\ \E m \in BOOLEAN : marked' = [marked EXCEPT ![c] = m]
               \/ /\ leaseLost(r.err)
                  /\ own' = [own EXCEPT ![c] = "lost"]
                  /\ UNCHANGED <<pc, decided, result, marked>>
       \/ /\ fail(c, "Persist")
          /\ own' = [own EXCEPT ![c] = "failed"]
          /\ UNCHANGED <<recs, pc, decided, result, marked>>
    /\ writes' = [writes EXCEPT ![c] = MaxWrites]
    /\ UNCHANGED <<now, attempt, args, lease, existing, outcome, stage, herr, retry>>

CompleteItself(c) ==
    /\ Join(c)
    /\ cw' = [cw EXCEPT ![c] =
          CASE own'[c] = "lost" -> WriteHeader(@, 409)
            [] own'[c] = "failed" -> WriteHeader(@, 500)
            [] OTHER -> @]

(* A handler that committed ends with WriteStored of what it stored. *)
lastWrites(c) ==
    IF own[c] = "committed"
    THEN Write(WriteHeader(capture(cw[c].rec, cw[c].wrote, allow, cw[c].wire),
                           ownResponse.status),
               ownResponse.body)
    ELSE cw[c]

Return(c) ==
    /\ stage[c] = "handler"
    /\ cw' = [cw EXCEPT ![c] = Finalize(lastWrites(c))]
    /\ goto(c, "returned")
    /\ writes' = [writes EXCEPT ![c] = 0]
    /\ UNCHANGED <<coreVars, herr, marked, own, captured, retry>>

Panic(c) ==
    /\ stage[c] = "handler"
    /\ goto(c, "panicked")
    /\ writes' = [writes EXCEPT ![c] = 0]
    /\ UNCHANGED <<coreVars, cw, herr, marked, own, captured, retry>>

-----------------------------------------------------------------------------
(* After the handler *)

Decide(status, err) ==
    IF Errtrail THEN errtrailDecide(status, err) ELSE defaultDecide(status)

(* The policy's Persist is withdrawn for streams and oversized bodies. *)
decision(c) ==
    IF Decide(Status(cw[c].rec), herr[c]) = "Persist" /\ Storable(cw[c].rec)
    THEN "Persist" ELSE "Discard"

(* A panic goes on up the stack, past the middleware. *)
ended(c) == IF stage[c] = "panicked" THEN "aborted" ELSE "done"

(* A handler that called MarkFinished, returning or panicking, leaves      *)
(* nothing to finish.                                                      *)
SkipFinish(c) ==
    /\ stage[c] \in {"returned", "panicked"}
    /\ marked[c]
    /\ goto(c, ended(c))
    /\ UNCHANGED <<coreVars, cw, writes, herr, marked, own, captured, retry>>

(* Mutant: a panic passes by without a Discard. *)
FinishRunReturned(c) ==
    /\ stage[c] \in {"returned", "panicked"}
    /\ pc[c] = "running"
    /\ \/ /\ stage[c] = "panicked"
          /\ goto(c, "aborted")
          /\ UNCHANGED <<coreVars, captured>>
       \/ /\ stage[c] = "returned"
          /\ Finish(c, decision(c))
          /\ captured' = [captured EXCEPT ![c] = StoredResponse(cw[c].rec)]
          /\ goto(c, "done")
    /\ UNCHANGED <<cw, writes, herr, marked, own, retry>>

(* Finish as the core has it, for a reservation not settled yet; d is      *)
(* Discard after a panic, whose failure is only logged.                    *)
FinishRun(c) ==
    /\ stage[c] \in {"returned", "panicked"}
    /\ pc[c] = "running"
    /\ LET d == IF stage[c] = "panicked" THEN "Discard" ELSE decision(c) IN
         /\ Finish(c, d) \/ FinishError(c, d)
         /\ captured' = IF d = "Persist"
                        THEN [captured EXCEPT ![c] = StoredResponse(cw[c].rec)]
                        ELSE captured
         /\ goto(c, IF pc'[c] = "unsettled" THEN "unsettled" ELSE ended(c))
    /\ UNCHANGED <<cw, writes, herr, marked, own, retry>>

(* Finish after a completion the handler did not report: the Store turns   *)
(* it down or fails, the client has its response already.                  *)
FinishNoisily(c) ==
    /\ stage[c] \in {"returned", "panicked"}
    /\ pc[c] = "finished" /\ ~marked[c]
    /\ LET d == IF stage[c] = "panicked" THEN "Discard" ELSE decision(c) IN
         \/ /\ recs' = settle(c, d).recs
            /\ UNCHANGED late
            /\ goto(c, ended(c))
         \/ /\ fail(c, d)
            /\ UNCHANGED recs
            /\ goto(c, IF d = "Persist" THEN "unsettled" ELSE ended(c))
    /\ UNCHANGED <<now, pc, attempt, args, lease, existing, outcome, ending,
                   cw, writes, herr, marked, own, captured, retry>>

(* The best-effort Discard after such a Persist failed. *)
ReleaseNoisily(c) ==
    /\ stage[c] = "unsettled" /\ pc[c] = "finished"
    /\ \/ recs' = settle(c, "Discard").recs /\ UNCHANGED late
       \/ fail(c, "Discard") /\ UNCHANGED recs
    /\ goto(c, "done")
    /\ UNCHANGED <<now, pc, attempt, args, lease, existing, outcome, ending,
                   cw, writes, herr, marked, own, captured, retry>>

(* A failed Persist is followed by a best-effort Discard. *)
ReleaseUnsettled(c) ==
    /\ stage[c] = "unsettled"
    /\ FinishAgain(c)
    /\ goto(c, "done")
    /\ UNCHANGED <<cw, writes, herr, marked, own, captured, retry>>

(* The process dies: nothing more happens to the request. *)
Die(c) ==
    /\ stage[c] \in {"handler", "returned", "panicked", "unsettled"}
    /\ goto(c, "dead")
    /\ \/ Crash(c)
       \/ pc[c] = "finished" /\ UNCHANGED coreVars
    /\ UNCHANGED <<cw, writes, herr, marked, own, captured, retry>>

Kinds == {"otherMethod", "keyless", "badKey", "badBody", "largeBody"}

Receive(c) ==
    \/ \E kind \in Kinds : PassThrough(c, kind) \/ RefuseRequest(c, kind)
    \/ Guard(c)

Refuse(c) ==
    StoreUnavailable(c) \/ RejectInFlight(c) \/ RejectFingerprintMismatch(c)

Settle(c) ==
    \/ SkipFinish(c) \/ FinishRun(c) \/ ReleaseUnsettled(c)
    \/ FinishNoisily(c) \/ ReleaseNoisily(c)

(* Everything a request does on its own; each handler call is a step. *)
Serve(c) ==
    \/ Receive(c)
    \/ BeginRun(c) \/ Refuse(c) \/ writeReplay(c)
    \/ RunDirect(c) \/ HandlerWrite(c) \/ CompleteItself(c)
    \/ \E err \in Errors : SetError(c, err)
    \/ Return(c) \/ Panic(c) \/ Settle(c)

Background ==
    /\ \/ \E o \in late : LateArrival(o)
       \/ \E k \in Key : Inspect(k)
       \/ Tick
    /\ UNCHANGED httpVars

HttpNext ==
    \/ \E c \in Call : Serve(c) \/ Die(c)
    \/ Background

HttpSpec == HttpInit /\ [][HttpNext]_allVars

(* The server runs the goroutine of a request and its handler returns;     *)
(* nothing is assumed of a request that has not arrived.                   *)
Progress(c) ==
    \/ BeginRun(c) \/ Refuse(c) \/ writeReplay(c)
    \/ RunDirect(c) \/ Return(c) \/ Settle(c)

-----------------------------------------------------------------------------
(* Properties *)

Stages == {"arrived", "begin", "direct", "handler", "returned", "panicked",
           "unsettled", "done", "aborted", "dead"}

Responses == [status : {0} \cup 200 .. 999, header : SUBSET Header, body : Nat]

(* The state of a request agrees with the state of its call: the handler   *)
(* runs under capture only with a reservation, and Finish is reached only  *)
(* from there.                                                             *)
HttpTypeOK ==
    /\ TypeOK
    /\ stage \in [Call -> Stages]
    /\ writes \in [Call -> 0 .. MaxWrites]
    /\ herr \in [Call -> ErrorKinds]
    /\ marked \in [Call -> BOOLEAN]
    /\ own \in [Call -> {"none", "committed", "lost", "failed"}]
    /\ captured \in [Call -> Responses]
    /\ retry \in [Call -> Nat]
    /\ \A c \in Call :
          /\ stage[c] \in {"handler", "returned", "panicked"}
                => pc[c] = "running" \/ (pc[c] = "finished" /\ own[c] = "committed")
          /\ stage[c] = "arrived" => pc[c] = "begin"

(* c was answered with a stored response, not with a refusal of it. *)
Replayed(c) ==
    /\ stage[c] = "done" /\ outcome[c].action = "Replay"
    /\ ~oversized(captured[outcome[c].payload])

(* The client whose request is answered from the Store receives what the   *)
(* client of the execution received: the same status, body and allowlisted *)
(* headers.  Left out are executions whose client has no complete response *)
(* (a panic, or a header that Gin has yet to send) and those whose handler *)
(* reports a failed commit as a 500.                                       *)
ReplaySame ==
    \A c \in Call :
        Replayed(c) =>
            LET p == outcome[c].payload IN
            /\ stage[p] \in {"returned", "unsettled", "done"}
            /\ own[p] # "failed" /\ cw[p].wire.status # 0
            =>
                /\ cw[c].wire.status = cw[p].wire.status
                /\ cw[c].wire.header = cw[p].wire.header \cap allow
                /\ cw[c].wire.body = cw[p].wire.body

(* The handler reported an error that a retry may overcome or, without a   *)
(* code to tell, answered 429 or 5xx.                                      *)
Transient(p) ==
    IF Errtrail /\ herr[p] \in {"retryable", "permanent"}
    THEN herr[p] = "retryable"
    ELSE Status(cw[p].rec) = 429 \/ Status(cw[p].rec) >= 500

(* What must not be stored is never replayed: transient failures, streamed,*)
(* hijacked and oversized responses, and what a handler wrote before it    *)
(* panicked, unless it had stored its response on its own.                 *)
ReplayAllowed ==
    \A c \in Call :
        Replayed(c) =>
            LET p == outcome[c].payload IN
            \/ own[p] \in {"committed", "failed"}
            \/ /\ stage[p] \in {"unsettled", "done", "dead"}
               /\ Storable(cw[p].rec) /\ ~Transient(p)

(* A request that is over, by return or by panic, has left no reservation  *)
(* of its own that would turn retries away, unless the Store failed.       *)
Released ==
    \A c \in Call :
        /\ stage[c] \in {"done", "aborted"}
        /\ outcome[c].action = "Proceed"
        /\ result[c] # "unknown"
        => ~(recs[key[c]].state = StateReserved /\ recs[key[c]].token = c)

(* A client that waits for the Retry-After of its 409 comes back when the  *)
(* lease it was rejected for is over, and not a second later than that     *)
(* takes, whichever error writer produced the 409.                         *)
RetryAfterCovers ==
    \A c \in Call :
        retry[c] # 0 =>
            /\ cw[c].wire.status = 409
            /\ retry[c] * Second >= outcome[c].retryAfter
            /\ (retry[c] - 1) * Second < outcome[c].retryAfter

(* "Anything larger than MaxResponseBody plus this margin cannot have been *)
(* written by the capture path" (the comment on maxStoredResponseOverhead).*)
CaptureWithinLimits ==
    \A c \in Call : own[c] = "none" => ~oversized(captured[c])

(* The inductive strengthening.  It is not the core's: a handler's own     *)
(* Complete may fail with the request on its way, and Finish then runs for *)
(* a call that may be completed under it.                                  *)

(* The result of p may be in the Store. *)
Persisting(p) == decided[p] = "Persist" \/ own[p] = "failed"

(* r is a record some call of key k left in the Store. *)
Backed(r, k) ==
    r.state # 0 =>
        /\ r.token \in Call
        /\ key[r.token] = k /\ fp[r.token] = r.fp
        /\ r.state = StateCompleted => r.payload = r.token /\ Persisting(r.token)

(* Who reserved a key has not been told that this is over, and what is on  *)
(* its way belongs to a call that gave up or persists.                     *)
HttpStoreInv ==
    /\ \A k \in Key :
          /\ Backed(recs[k], k)
          /\ recs[k].state = StateReserved => result[recs[k].token] \in {"none", "unknown"}
    /\ \A o \in late :
          /\ o.op = "reserve" => pc[o.call] = "failed"
          /\ o.op = "Persist" => Persisting(o.call)

(* Where the middleware is with a request, and where the core is. *)
Phase(c) ==
    /\ stage[c] = "begin"
          => pc[c] \in {"begin", "reserve", "judge", "answered", "failed"}
    /\ stage[c] = "direct" => pc[c] \in {"begin", "failed"}
    /\ stage[c] = "unsettled"
          => pc[c] = "unsettled" \/ (pc[c] = "finished" /\ own[c] = "committed")
    /\ pc[c] \in {"running", "unsettled", "finished", "crashed"}
          <=> outcome[c].action = "Proceed"
    /\ outcome[c].action \in {"Replay", "RejectInFlight"} => pc[c] = "answered"
    /\ outcome[c].action = "RejectInFlight" => outcome[c].retryAfter > 0
    /\ pc[c] = "judge" => existing[c].state # 0 /\ Backed(existing[c], key[c])

(* What the handler did on its own, what was decided and what was answered.*)
Settled(c) ==
    /\ stage[c] = "handler" /\ own[c] # "none" => writes[c] = MaxWrites
    /\ own[c] # "none" => outcome[c].action = "Proceed"
    /\ marked[c] => own[c] = "committed"
    /\ own[c] = "committed" =>
          /\ pc[c] = "finished" /\ decided[c] = "Persist" /\ result[c] = "persisted"
          /\ captured[c] = ownResponse
    /\ pc[c] \notin {"unsettled", "finished", "crashed"}
          => decided[c] = "none" /\ result[c] = "none"
    /\ pc[c] = "unsettled" => decided[c] = "Persist" /\ result[c] = "unknown"
    /\ stage[c] \in {"done", "aborted"} /\ outcome[c].action = "Proceed"
          => result[c] # "none"
    /\ decided[c] = "Persist" /\ own[c] \notin {"committed", "failed"}
          => stage[c] \in {"unsettled", "done", "dead"}
    /\ Persisting(c) => captured[c].status # 0
    /\ retry[c] # 0 =>
          /\ stage[c] = "done" /\ outcome[c].action = "RejectInFlight"
          /\ retry[c] = retryAfterSeconds(outcome[c].retryAfter)
    /\ outcome[c].action = "Replay" =>
          LET p == outcome[c].payload
          IN  p \in Call /\ key[p] = key[c] /\ fp[p] = fp[c] /\ Persisting(p)

(* What holds whatever the writer of a request is. *)
MiddlewareInv ==
    /\ HttpTypeOK
    /\ DOMAIN cw = Call
    /\ HttpStoreInv
    /\ \A c \in Call : Phase(c) /\ Settled(c)

(* The handler of c has written nothing yet. *)
Untouched(c) ==
    \/ stage[c] \in {"arrived", "begin"}
    \/ stage[c] = "handler"
       /\ (own[c] = "committed" \/ (own[c] = "none" /\ writes[c] = 0))

(* The client of c has all of a response that was stored under its key. *)
Delivered(c) ==
    /\ decided[c] = "Persist" /\ own[c] # "failed"
    /\ stage[c] \in {"returned", "unsettled", "done"}

(* Only what the policy and the Recorder allow is persisted; c's client    *)
(* waits as it was told.                                                   *)
Judged(c) ==
    /\ decided[c] = "Persist" /\ own[c] \notin {"committed", "failed"}
          => Storable(cw[c].rec) /\ ~Transient(c)
    /\ retry[c] # 0 => cw[c].wire.status = 409

(* The capture of a request, and what its client has. *)
Captured(c) ==
    /\ Untouched(c) => cw[c] = NewCapture
    /\ outcome[c].action = "Proceed" => Good(cw[c])
    /\ stage[c] = "returned" => cw[c].wrote
    /\ Judged(c)
    /\ Delivered(c) => SameResponse(captured[c], cw[c].wire)
    /\ LET p == outcome[c].payload
       IN  Replayed(c) /\ own[p] # "failed" => cw[c].wire = WriteStored(captured[p], {})

(* The inductive invariant. *)
HttpInv == MiddlewareInv /\ \A c \in Call : Captured(c)

(* Every guarded request whose handler returns or panics gets to its end,  *)
(* whatever the Store does.                                                *)
RequestEnds ==
    \A c \in Call :
        stage[c] = "begin" ~> stage[c] \in {"done", "aborted", "dead"}

=============================================================================
