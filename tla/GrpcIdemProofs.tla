--------------------------- MODULE GrpcIdemProofs ---------------------------
(***************************************************************************)
(* Proofs about GrpcIdem, for every set of calls, keys, fingerprints and   *)
(* messages, all TTLs and every combination of options.  What the lease    *)
(* protocol guarantees is taken from IdemLeaseProofs: each step of the     *)
(* interceptor is a step of the core or leaves the core alone.             *)
(***************************************************************************)
EXTENDS GrpcIdem, IdemLeaseProofs

USE GrpcAssumption

-----------------------------------------------------------------------------
(* The interceptor drives the core *)

(* What a step of the interceptor does to the lease protocol, the protocol *)
(* itself allows.                                                          *)
LEMMA CoreStep == [GrpcNext]_allVars => [Next]_vars
  <1>. SUFFICES ASSUME [GrpcNext]_allVars PROVE [Next]_vars
    OBVIOUS
  <1>. USE DEF coreVars
  <1>1. ASSUME NEW c \in Call, Intercept(c) PROVE [Next]_vars
    <2>1. CASE BeginRun(c)
      BY <2>1 DEF BeginRun, Next, Step
    <2>2. CASE runHandler(c)
      BY <2>2 DEF runHandler, Next, Step
    <2>3. CASE reportFinish(c)
      BY <2>3 DEF reportFinish, Next, Step
    <2>4. CASE Repanic(c)
      BY <2>4 DEF Repanic, Next, Step
    <2>. QED
      BY <1>1, <2>1, <2>2, <2>3, <2>4 DEF Intercept, KeyFromContext,
         MarshalError,
         Guard, StoreUnavailable, RejectInFlight, RejectFingerprintMismatch,
         replay, RunDirect, Handle, Panic
  <1>2. ASSUME NEW c \in Call, Die(c) PROVE [Next]_vars
    BY <1>2 DEF Die, Next, Step
  <1>3. CASE Background
    BY <1>3 DEF Background, Next
  <1>4. CASE UNCHANGED allVars
    BY <1>4 DEF allVars
  <1>. QED  BY <1>1, <1>2, <1>3, <1>4 DEF GrpcNext

(* An absent key carries no token, whatever a step does to the Store: a    *)
(* record is removed whole, and a claim or a completion is never absent.   *)
LEMMA ZeroStep ==
  ASSUME TypeOK, ZeroInv, [Next]_vars
  PROVE  ZeroInv'
  <1>. USE DEF args, ending, store
  <1>1. ASSUME NEW c \in Call, recs' = Reserve(recs, key[c], reservation(c), now).recs
        PROVE  ZeroInv'
    <2>1. \A k \in Key : recs'[k] = recs[k] \/ recs'[k] = reservation(c)
      BY <1>1, ClaimEffect
    <2>. QED  BY <2>1 DEF ZeroInv, reservation, StateReserved
  <1>2. ASSUME NEW c \in Call, NEW d \in {"Persist", "Discard"}, recs' = settle(c, d).recs
        PROVE  ZeroInv'
    <2>1. \A k \in Key : \/ recs'[k] = recs[k] \/ recs'[k] = NoRecord
                         \/ recs'[k] = completion(recs[key[c]], c, now)
      BY <1>2, SettleEffect
    <2>. QED  BY <2>1 DEF ZeroInv, NoRecord, completion, StateCompleted
  <1>3. CASE UNCHANGED recs
    BY <1>3 DEF ZeroInv
  <1>4. ASSUME NEW c \in Call, Step(c) PROVE ZeroInv'
    <2>1. CASE ReserveCall(c)
      BY <1>1, <2>1 DEF ReserveCall
    <2>2. CASE \E d \in {"Persist", "Discard"} : Finish(c, d)
      BY <1>2, <2>2 DEF Finish
    <2>3. CASE FinishAgain(c)
      BY <1>2, <1>3, <2>3 DEF FinishAgain
    <2>. QED
      BY <1>3, <1>4, <2>1, <2>2, <2>3 DEF Step, BeginStep, NewTokenError,
         Stamp,
         ReserveError, JudgeExpired, JudgeLive, FinishError, Crash
  <1>5. ASSUME NEW o \in late, LateArrival(o) PROVE ZeroInv'
    BY <1>1, <1>2, <1>5 DEF LateArrival, TypeOK, Requests
  <1>6. ASSUME NEW j \in Key, Inspect(j) PROVE ZeroInv'
    <2>1. \A k \in Key : recs'[k] = recs[k] \/ recs'[k] = NoRecord
      BY <1>6 DEF Inspect, Get, lookup, TypeOK
    <2>. QED  BY <2>1 DEF ZeroInv, NoRecord
  <1>7. CASE Tick
    BY <1>3, <1>7 DEF Tick
  <1>8. CASE UNCHANGED vars
    BY <1>3, <1>8 DEF vars
  <1>. QED  BY <1>4, <1>5, <1>6, <1>7, <1>8 DEF Next

-----------------------------------------------------------------------------
(* The interceptor's own state *)

(* A step of the interceptor for call c moves that call on, and records at *)
(* most what its handler returned and what its client gets.                *)
LEMMA OwnShape ==
  ASSUME GrpcInv, NEW c \in Call, Intercept(c) \/ Die(c)
  PROVE  /\ UNCHANGED cfg
         /\ \E s \in Stages : stage' = [stage EXCEPT ![c] = s]
         /\ UNCHANGED ret \/ \E r \in Results : ret' = [ret EXCEPT ![c] = r]
         /\ \/ UNCHANGED reply
            \/ \E code \in Codes, m \in Results \cup {None} :
                  reply' = [reply EXCEPT ![c] = [code |-> code, msg |-> m]]
  <1>1. ret[c] \in Results \cup {None}
    BY DEF GrpcInv, GrpcTypeOK
  <1>2. Registered \subseteq Results
    BY DEF Results
  <1>. USE DEF goto, status, Stages, Codes
  <1>3. CASE \E e \in Entries : KeyFromContext(c, e)
    BY <1>3 DEF KeyFromContext
  <1>4. CASE MarshalError(c) \/ Guard(c) \/ RunDirect(c) \/ Panic(c)
    BY <1>4 DEF MarshalError, Guard, RunDirect, Panic
  <1>5. CASE BeginRun(c)
    BY <1>5 DEF BeginRun
  <1>6. CASE StoreUnavailable(c)
    BY <1>6 DEF StoreUnavailable
  <1>7. CASE RejectInFlight(c) \/ RejectFingerprintMismatch(c)
    BY <1>7 DEF RejectInFlight, RejectFingerprintMismatch
  <1>8. CASE replay(c)
    BY <1>2, <1>8 DEF replay
  <1>9. CASE \E r \in Results : Handle(c, r)
    BY <1>9 DEF Handle
  <1>10. respond(c) => \E code \in Codes, m \in Results \cup {None} :
                          reply' = [reply EXCEPT ![c] = [code |-> code, msg |-> m]]
    BY <1>1 DEF respond
  <1>11. CASE runHandler(c)
    BY <1>10, <1>11 DEF runHandler
  <1>12. CASE reportFinish(c)
    BY <1>10, <1>12 DEF reportFinish
  <1>13. CASE Repanic(c) \/ Die(c)
    BY <1>13 DEF Repanic, Die
  <1>. QED
    BY <1>3, <1>4, <1>5, <1>6, <1>7, <1>8, <1>9, <1>11, <1>12, <1>13 DEF
       Intercept

(* So it keeps the interceptor's variables in their types, and leaves the  *)
(* other calls where they are, in the interceptor and in the core.         *)
LEMMA OwnFrame ==
  ASSUME GrpcInv, NEW c \in Call, Intercept(c) \/ Die(c)
  PROVE  /\ stage' \in [Call -> Stages]
         /\ ret' \in [Call -> Results \cup {None}]
         /\ reply' \in [Call -> [code : Codes, msg : Results \cup {None}]]
         /\ cfg' \in Configs
         /\ \A e \in Call \ {c} : /\ stage'[e] = stage[e] /\ ret'[e] = ret[e]
                                  /\ reply'[e] = reply[e]
         /\ UNCHANGED <<key, fp>>
         /\ \A e \in Call \ {c} :
               /\ pc'[e] = pc[e] /\ outcome'[e] = outcome[e]
               /\ decided'[e] = decided[e] /\ result'[e] = result[e]
  <1>. DEFINE Answers == [code : Codes, msg : Results \cup {None}]
  <1>1. /\ stage \in [Call -> Stages] /\ ret \in [Call -> Results \cup {None}]
        /\ reply \in [Call -> Answers] /\ cfg \in Configs /\ TypeOK
    BY DEF GrpcInv, GrpcTypeOK
  <1>2. \A code \in Codes, m \in Results \cup {None} : [code |-> code, msg |-> m] \in Answers
    OBVIOUS
  <1>. HIDE DEF Answers
  <1>3. stage' \in [Call -> Stages] /\ \A e \in Call \ {c} : stage'[e] = stage[e]
    BY <1>1, OwnShape
  <1>4. /\ ret' \in [Call -> Results \cup {None}] /\ cfg' \in Configs
        /\ \A e \in Call \ {c} : ret'[e] = ret[e]
    BY <1>1, OwnShape
  <1>5. reply' \in [Call -> Answers] /\ \A e \in Call \ {c} : reply'[e] = reply[e]
    BY <1>1, <1>2, OwnShape
  <1>6. Step(c) \/ UNCHANGED vars
    <2>1. CASE BeginRun(c)
      BY <2>1 DEF BeginRun, Step
    <2>2. CASE runHandler(c)
      BY <2>2 DEF runHandler, Step
    <2>3. CASE reportFinish(c)
      BY <2>3 DEF reportFinish, Step
    <2>4. CASE Repanic(c)
      BY <2>4 DEF Repanic, Step
    <2>5. CASE Die(c)
      BY <2>5 DEF Die, Step
    <2>. QED
      BY <2>1, <2>2, <2>3, <2>4, <2>5 DEF Intercept, KeyFromContext,
         MarshalError,
         Guard, StoreUnavailable, RejectInFlight, RejectFingerprintMismatch,
         replay, RunDirect, Handle, Panic, coreVars
  <1>7. /\ UNCHANGED <<key, fp>>
        /\ \A e \in Call \ {c} :
              /\ pc'[e] = pc[e] /\ outcome'[e] = outcome[e]
              /\ decided'[e] = decided[e] /\ result'[e] = result[e]
    <2>1. CASE Step(c)
      BY <1>1, <2>1, StepFrame
    <2>2. CASE UNCHANGED vars
      BY <2>2 DEF vars
    <2>. QED  BY <1>6, <2>1, <2>2
  <1>. QED  BY <1>3, <1>4, <1>5, <1>7 DEF Answers

(* Guarded(c): the handler of c runs only with the reservation, and Finish *)
(* is reached from there.                                                  *)
Guarded(c) ==
    /\ stage[c] \in {"handler", "returned", "panicked"} => pc[c] = "running"
    /\ stage[c] = "unsettled" => pc[c] = "unsettled"

(* The steps of the interceptor that leave the core alone.                 *)
Quiet(c) ==
    \/ \E e \in Entries : KeyFromContext(c, e)
    \/ MarshalError(c) \/ Guard(c)
    \/ StoreUnavailable(c) \/ RejectInFlight(c) \/ RejectFingerprintMismatch(c)
    \/ replay(c)
    \/ RunDirect(c) \/ \E r \in Results : Handle(c, r)
    \/ Panic(c)

(* They keep a call in step with its lease: a status ends a call that the  *)
(* core has not let run, and the handler returns before the decision.      *)
LEMMA QuietAgrees ==
  ASSUME GrpcInv, NEW c \in Call, Quiet(c)
  PROVE  Agrees(c)' /\ Guarded(c)'
  <1>1. Agrees(c) /\ Guarded(c)
    BY DEF GrpcInv, GrpcTypeOK, StageInv, Guarded
  <1>2. /\ stage \in [Call -> Stages] /\ ret \in [Call -> Results \cup {None}]
        /\ DOMAIN reply = Call
    BY DEF GrpcInv, GrpcTypeOK
  <1>3. /\ pc'[c] = pc[c] /\ outcome'[c] = outcome[c] /\ decided'[c] = decided[c]
        /\ result'[c] = result[c]
    BY DEF Quiet, KeyFromContext, MarshalError, Guard, StoreUnavailable,
       RejectInFlight,
       RejectFingerprintMismatch, replay, RunDirect, Handle, Panic, coreVars, vars
  <1>4. pc[c] \notin {"unsettled", "finished", "crashed"} => decided[c] = "none"
    BY DEF GrpcInv, IInv, FinishInv
  <1>. USE DEF Agrees, Guarded, goto, status
  <1>5. CASE \E e \in Entries : KeyFromContext(c, e)
    BY <1>1, <1>2, <1>3, <1>4, <1>5 DEF KeyFromContext
  <1>6. CASE MarshalError(c) \/ Guard(c) \/ RunDirect(c) \/ Panic(c)
    BY <1>1, <1>2, <1>3, <1>4, <1>6 DEF MarshalError, Guard, RunDirect, Panic
  <1>7. CASE StoreUnavailable(c)
    BY <1>1, <1>2, <1>3, <1>4, <1>7 DEF StoreUnavailable
  <1>8. CASE RejectInFlight(c) \/ RejectFingerprintMismatch(c)
    BY <1>1, <1>2, <1>3, <1>4, <1>8 DEF RejectInFlight,
       RejectFingerprintMismatch
  <1>9. CASE replay(c)
    BY <1>1, <1>2, <1>3, <1>4, <1>9 DEF replay
  <1>10. CASE \E r \in Results : Handle(c, r)
    BY <1>1, <1>2, <1>3, <1>4, <1>10 DEF Handle
  <1>. QED
    BY <1>5, <1>6, <1>7, <1>8, <1>9, <1>10 DEF Quiet

(* Begin lets the handler run exactly when it has made the reservation.    *)
LEMMA BeginAgrees ==
  ASSUME GrpcInv, NEW c \in Call, BeginRun(c)
  PROVE  Agrees(c)' /\ Guarded(c)'
  <1>1. Agrees(c) /\ TypeOK /\ stage[c] = "begin" /\ DOMAIN stage = Call
    BY DEF GrpcInv, GrpcTypeOK, StageInv, BeginRun
  <1>2. /\ pc'[c] \in {"begin", "reserve", "judge", "answered", "failed", "running"}
        /\ outcome'[c].action = "Replay" => pc'[c] = "answered"
        /\ UNCHANGED <<decided, result>>
    BY <1>1, BeginEffect DEF BeginRun, Agrees
  <1>3. /\ stage'[c] = IF pc'[c] = "running" THEN "handler" ELSE "begin"
        /\ UNCHANGED <<ret, reply>>
    BY <1>1 DEF BeginRun, goto
  <1>. QED  BY <1>1, <1>2, <1>3 DEF Agrees, Guarded

(* What is stored is what the client gets: the decision to Persist is made *)
(* for a message that can be encoded, and an error is never stored.        *)
LEMMA FinishAgrees ==
  ASSUME GrpcInv, NEW c \in Call, runHandler(c)
  PROVE  Agrees(c)' /\ Guarded(c)'
  <1>1. /\ Agrees(c) /\ Guarded(c) /\ TypeOK /\ stage[c] = "returned"
        /\ DOMAIN stage = Call /\ DOMAIN reply = Call
    BY DEF GrpcInv, GrpcTypeOK, StageInv, runHandler, Guarded
  <1>. DEFINE d == IF payloadToPersist(ret[c]) THEN "Persist" ELSE "Discard"
  <1>2. d \in {"Persist", "Discard"} /\ (d = "Persist" <=> ret[c] \in Encodable)
    BY DEF payloadToPersist
  <1>3. Finish(c, d) \/ FinishError(c, d)
    BY DEF runHandler
  <1>. HIDE DEF d
  <1>4. /\ pc'[c] \in {"finished", "unsettled"} /\ decided'[c] = d
        /\ pc'[c] = "unsettled" => d = "Persist"
        /\ result'[c] # "none" /\ UNCHANGED outcome
    BY <1>1, <1>2, <1>3, FinishEffect
  <1>5. /\ UNCHANGED ret
        /\ \/ pc'[c] = "unsettled" /\ stage'[c] = "unsettled" /\ UNCHANGED reply
           \/ /\ pc'[c] # "unsettled" /\ stage'[c] = "done"
              /\ reply'[c] = IF ret[c] = "error" THEN [code |-> "error", msg |-> None]
                                                 ELSE [code |-> "OK", msg |-> ret[c]]
    BY <1>1 DEF runHandler, goto, respond
  <1>6. ret[c] \in Encodable => ret[c] # "error"
    OBVIOUS
  <1>7. /\ NoAnswer.code = "none"
        /\ ret[c] # "error" => /\ reply'[c] \in {NoAnswer, [code |-> "OK", msg |-> ret[c]]}
                                  \/ UNCHANGED reply
                               /\ stage'[c] = "done" => reply'[c].code = "OK"
    BY <1>5 DEF NoAnswer
  <1>8. d = "Discard" \/ d = "Persist"
    BY <1>2
  <1>. QED  BY <1>1, <1>2, <1>4, <1>5, <1>6, <1>7, <1>8 DEF Agrees, Guarded

(* The best-effort Discard after a failed Persist changes nothing of what  *)
(* was decided, and the client gets the message.                           *)
LEMMA ReportAgrees ==
  ASSUME GrpcInv, NEW c \in Call, reportFinish(c)
  PROVE  Agrees(c)' /\ Guarded(c)'
  <1>1. /\ Agrees(c) /\ Guarded(c) /\ TypeOK /\ stage[c] = "unsettled"
        /\ DOMAIN stage = Call /\ DOMAIN reply = Call /\ FinishInv
    BY DEF GrpcInv, GrpcTypeOK, StageInv, reportFinish, Guarded, IInv
  <1>2. pc[c] = "unsettled" /\ decided[c] = "Persist" /\ ret[c] \in Encodable
    BY <1>1 DEF Guarded, FinishInv, Agrees
  <1>3. pc'[c] = "finished" /\ UNCHANGED <<decided, outcome>>
    BY <1>1 DEF reportFinish, FinishAgain, TypeOK
  <1>4. /\ UNCHANGED ret /\ stage'[c] = "done" /\ ret[c] # "error"
        /\ reply'[c] = [code |-> "OK", msg |-> ret[c]]
    BY <1>1, <1>2 DEF reportFinish, respond, goto
  <1>. QED  BY <1>1, <1>2, <1>3, <1>4 DEF Agrees, Guarded

(* A panic goes on after its reservation was released, or with the release *)
(* on its way; a dead process answers nobody.                              *)
LEMMA EndAgrees ==
  ASSUME GrpcInv, NEW c \in Call, Repanic(c) \/ Die(c)
  PROVE  Agrees(c)' /\ Guarded(c)'
  <1>1. Agrees(c) /\ Guarded(c) /\ TypeOK /\ DOMAIN stage = Call
    BY DEF GrpcInv, GrpcTypeOK, StageInv, Guarded
  <1>2. CASE Repanic(c)
    <2>1. /\ pc'[c] \in {"finished", "unsettled"} /\ decided'[c] = "Discard"
          /\ result'[c] # "none" /\ UNCHANGED outcome
      BY <1>1, <1>2, FinishEffect DEF Repanic
    <2>2. /\ stage'[c] = "aborted" /\ UNCHANGED <<ret, reply>>
          /\ stage[c] = "panicked"
      BY <1>1, <1>2 DEF Repanic, goto
    <2>. QED  BY <1>1, <2>1, <2>2 DEF Agrees, Guarded
  <1>3. CASE Die(c)
    <2>1. UNCHANGED <<outcome, decided, result>>
      BY <1>3 DEF Die, Crash, ending
    <2>2. /\ stage'[c] = "dead" /\ UNCHANGED <<ret, reply>>
          /\ stage[c] \in {"handler", "returned", "panicked", "unsettled"}
      BY <1>1, <1>3 DEF Die, goto
    <2>. QED  BY <1>1, <2>1, <2>2 DEF Agrees, Guarded, NoAnswer
  <1>. QED  BY <1>2, <1>3

-----------------------------------------------------------------------------
(* The inductive invariant *)

(* The environment and the clock touch neither the interceptor nor what    *)
(* the protocol keeps of a call.                                           *)
LEMMA BackgroundFrame ==
  ASSUME Background \/ UNCHANGED allVars
  PROVE  UNCHANGED <<pc, key, fp, outcome, decided, result, stage, ret, reply, cfg>>
  <1>1. CASE Background
    BY <1>1 DEF Background, grpcVars, LateArrival, Inspect, Tick, args, ending
  <1>2. CASE UNCHANGED allVars
    BY <1>2 DEF allVars, coreVars, grpcVars, vars
  <1>. QED  BY <1>1, <1>2

(* The interceptor and the core stay in step.                              *)
LEMMA StageStep ==
  ASSUME GrpcInv, [GrpcNext]_allVars, TypeOK'
  PROVE  GrpcTypeOK' /\ StageInv'
  <1>1. \A c \in Call : Agrees(c) /\ Guarded(c)
    BY DEF GrpcInv, GrpcTypeOK, StageInv, Guarded
  <1>2. ASSUME NEW c \in Call, Intercept(c) \/ Die(c)
        PROVE  GrpcTypeOK' /\ StageInv'
    <2>1. Agrees(c)' /\ Guarded(c)'
      <3>1. Quiet(c) \/ BeginRun(c) \/ runHandler(c) \/ reportFinish(c)
               \/ (Repanic(c) \/ Die(c))
        BY <1>2 DEF Intercept, Quiet
      <3>. QED
        BY <3>1, QuietAgrees, BeginAgrees, FinishAgrees, ReportAgrees,
           EndAgrees
    <2>2. ASSUME NEW e \in Call \ {c} PROVE Agrees(e)' /\ Guarded(e)'
      <3>1. /\ pc'[e] = pc[e] /\ outcome'[e] = outcome[e] /\ decided'[e] = decided[e]
            /\ result'[e] = result[e] /\ stage'[e] = stage[e] /\ ret'[e] = ret[e]
            /\ reply'[e] = reply[e]
        BY <1>2, OwnFrame
      <3>. QED  BY <1>1, <3>1 DEF Agrees, Guarded
    <2>3. \A e \in Call : Agrees(e)' /\ Guarded(e)'
      BY <2>1, <2>2
    <2>4. /\ stage' \in [Call -> Stages]
          /\ ret' \in [Call -> Results \cup {None}]
          /\ reply' \in [Call -> [code : Codes, msg : Results \cup {None}]]
          /\ cfg' \in Configs
      BY <1>2, OwnFrame
    <2>. QED  BY <2>3, <2>4 DEF GrpcTypeOK, StageInv, Guarded
  <1>3. CASE Background \/ UNCHANGED allVars
    BY <1>1, <1>3, BackgroundFrame DEF GrpcInv, GrpcTypeOK, StageInv, Agrees
  <1>. QED  BY <1>2, <1>3 DEF GrpcNext

(* What a handler returned is fixed once its call has decided, and a call  *)
(* that has ended stays as it is.                                          *)
LEMMA Settled ==
  ASSUME GrpcInv, [GrpcNext]_allVars, NEW c \in Call
  PROVE  /\ decided[c] = "Persist" => ret'[c] = ret[c]
         /\ stage[c] = "done" => /\ stage'[c] = "done"
                                 /\ reply'[c] = reply[c] /\ outcome'[c] = outcome[c]
  <1>1. ASSUME NEW e \in Call \ {c}, Intercept(e) \/ Die(e)
        PROVE  /\ ret'[c] = ret[c] /\ stage'[c] = stage[c]
               /\ reply'[c] = reply[c] /\ outcome'[c] = outcome[c]
    BY <1>1, OwnFrame
  <1>2. ASSUME Intercept(c) \/ Die(c), stage[c] = "done" PROVE FALSE
    BY <1>2 DEF Intercept, Die, KeyFromContext, MarshalError, Guard, BeginRun,
       StoreUnavailable, RejectInFlight, RejectFingerprintMismatch, replay,
       RunDirect, Handle, Panic, runHandler, reportFinish, Repanic
  <1>3. ASSUME Intercept(c) \/ Die(c), decided[c] = "Persist"
        PROVE  ret'[c] = ret[c]
    <2>1. pc[c] # "running"
      BY <1>3 DEF GrpcInv, IInv, FinishInv
    <2>2. stage[c] # "handler"
      BY <2>1 DEF GrpcInv, GrpcTypeOK
    <2>. QED
      BY <1>3, <2>2 DEF Intercept, Die, KeyFromContext, MarshalError, Guard,
         BeginRun,
         StoreUnavailable, RejectInFlight, RejectFingerprintMismatch, replay,
         RunDirect, Handle, Panic, runHandler, reportFinish, Repanic
  <1>4. CASE Background \/ UNCHANGED allVars
    BY <1>4, BackgroundFrame
  <1>. QED  BY <1>1, <1>2, <1>3, <1>4 DEF GrpcNext

(* A call that has just ended with a replay got the stored message, or an  *)
(* error because its type is not registered.                               *)
LEMMA ReplayAnswers ==
  ASSUME GrpcInv, [GrpcNext]_allVars, StageInv', NEW c \in Call,
         stage[c] # "done", stage'[c] = "done", outcome'[c].action = "Replay"
  PROVE  /\ outcome'[c] = outcome[c] /\ outcome[c].action = "Replay"
         /\ UNCHANGED ret
         /\ \/ reply'[c] = [code |-> "OK", msg |-> ret[outcome[c].payload]]
            \/ /\ reply'[c].code = "Internal"
               /\ ret[outcome[c].payload] \notin Registered
  <1>1. /\ Agrees(c) /\ Agrees(c)' /\ TypeOK
        /\ DOMAIN stage = Call /\ DOMAIN reply = Call
    BY DEF GrpcInv, GrpcTypeOK, StageInv
  <1>2. pc'[c] = "answered"
    BY <1>1 DEF Agrees
  <1>3. Intercept(c) \/ Die(c)
    <2>1. ASSUME NEW e \in Call \ {c}, Intercept(e) \/ Die(e) PROVE FALSE
      BY <2>1, OwnFrame
    <2>2. CASE Background \/ UNCHANGED allVars
      BY <2>2, BackgroundFrame
    <2>. QED  BY <2>1, <2>2 DEF GrpcNext
  <1>4. ~(runHandler(c) \/ reportFinish(c) \/ Repanic(c) \/ Die(c) \/ BeginRun(c))
    <2>1. ~runHandler(c)
      <3>1. SUFFICES ASSUME runHandler(c) PROVE FALSE
        OBVIOUS
      <3>2. PICK d \in {"Persist", "Discard"} : Finish(c, d) \/ FinishError(c, d)
        BY <3>1 DEF runHandler
      <3>. QED  BY <1>1, <1>2, <3>2, FinishEffect
    <2>2. ~reportFinish(c)
      BY <1>1, <1>2 DEF reportFinish, FinishAgain, TypeOK
    <2>3. ~(Repanic(c) \/ Die(c) \/ BeginRun(c))
      BY <1>1 DEF Repanic, Die, BeginRun, goto
    <2>. QED  BY <2>1, <2>2, <2>3
  <1>5. Quiet(c) /\ UNCHANGED vars
    BY <1>3, <1>4 DEF Intercept, Quiet, KeyFromContext, MarshalError, Guard,
       StoreUnavailable, RejectInFlight, RejectFingerprintMismatch, replay,
       RunDirect, Handle, Panic, coreVars
  <1>6. /\ outcome' = outcome /\ pc[c] = "answered" /\ outcome[c].action = "Replay"
        /\ stage[c] = "begin"
    BY <1>1, <1>2, <1>5 DEF vars, Agrees
  <1>7. replay(c)
    BY <1>1, <1>5, <1>6 DEF Quiet, KeyFromContext, MarshalError, Guard,
       StoreUnavailable, RejectInFlight, RejectFingerprintMismatch,
       RunDirect, Handle, Panic
  <1>. QED  BY <1>1, <1>6, <1>7 DEF replay, status

(* A replay is the message of the execution it names, in the next state as *)
(* in this one.                                                            *)
LEMMA ReplayStep ==
  ASSUME GrpcInv, [GrpcNext]_allVars, IInv', StageInv'
  PROVE  ReplaySame'
  <1>. SUFFICES ASSUME NEW c \in Call, stage'[c] = "done", outcome'[c].action = "Replay",
                       NEW p, p = outcome'[c].payload
                PROVE  /\ key'[p] = key'[c] /\ fp'[p] = fp'[c]
                       /\ ret'[p] \in Message
                       /\ \/ reply'[c] = [code |-> "OK", msg |-> ret'[p]]
                          \/ reply'[c].code = "Internal" /\ ret'[p] \notin Registered
                       /\ reply'[p] \in {NoAnswer, [code |-> "OK", msg |-> ret'[p]]}
    BY DEF ReplaySame
  <1>1. p \in Call /\ decided'[p] = "Persist" /\ key'[p] = key'[c] /\ fp'[p] = fp'[c]
    BY DEF IInv, BeginInv, Completed
  <1>2. ret'[p] \in Message /\ reply'[p] \in {NoAnswer, [code |-> "OK", msg |-> ret'[p]]}
    BY <1>1 DEF StageInv, Agrees
  <1>3. CASE stage[c] # "done"
    BY <1>1, <1>2, <1>3, ReplayAnswers
  <1>4. CASE stage[c] = "done"
    <2>1. reply'[c] = reply[c] /\ outcome'[c] = outcome[c]
      BY <1>4, Settled
    <2>2. decided[p] = "Persist"
      BY <2>1 DEF GrpcInv, IInv, BeginInv, Completed
    <2>3. ret'[p] = ret[p]
      BY <1>1, <2>2, Settled
    <2>4. \/ reply[c] = [code |-> "OK", msg |-> ret[p]]
          \/ reply[c].code = "Internal" /\ ret[p] \notin Registered
      BY <1>4, <2>1 DEF GrpcInv, ReplaySame
    <2>. QED  BY <1>1, <1>2, <2>1, <2>3, <2>4
  <1>. QED  BY <1>3, <1>4

(* Before any call nothing is stored, returned or answered.                *)
LEMMA GrpcInitInv == GrpcInit => GrpcInv
  <1>. SUFFICES ASSUME GrpcInit PROVE GrpcInv
    OBVIOUS
  <1>1. IInv /\ TypeOK /\ Init
    BY InitInv DEF GrpcInit, IInv
  <1>2. ZeroInv
    BY <1>1 DEF Init, ZeroInv, New, NoRecord
  <1>3. /\ stage = [c \in Call |-> "arrived"] /\ ret = [c \in Call |-> None]
        /\ reply = [c \in Call |-> NoAnswer] /\ cfg \in Configs
    BY DEF GrpcInit
  <1>4. \A c \in Call : /\ pc[c] = "begin" /\ outcome[c].action = "pending"
                        /\ decided[c] = "none"
    BY <1>1 DEF Init, Pending
  <1>5. GrpcTypeOK
    BY <1>1, <1>3 DEF GrpcTypeOK, Stages, Codes, NoAnswer
  <1>6. StageInv
    BY <1>3, <1>4 DEF StageInv, Agrees, NoAnswer
  <1>7. ReplaySame
    BY <1>4 DEF ReplaySame
  <1>. QED  BY <1>1, <1>2, <1>5, <1>6, <1>7 DEF GrpcInv

(* Every step of the interceptor and of its environment keeps it.          *)
LEMMA GrpcStepInv == GrpcInv /\ [GrpcNext]_allVars => GrpcInv'
  <1>. SUFFICES ASSUME GrpcInv, [GrpcNext]_allVars PROVE GrpcInv'
    OBVIOUS
  <1>1. [Next]_vars
    BY CoreStep
  <1>2. IInv' /\ TypeOK'
    BY <1>1, StepInv DEF GrpcInv, IInv
  <1>3. ZeroInv'
    BY <1>1, ZeroStep DEF GrpcInv, IInv
  <1>4. GrpcTypeOK' /\ StageInv'
    BY <1>2, StageStep
  <1>5. ReplaySame'
    BY <1>2, <1>4, ReplayStep
  <1>. QED  BY <1>2, <1>3, <1>4, <1>5 DEF GrpcInv

-----------------------------------------------------------------------------
(* The results *)

(* The interceptor implements the lease protocol: whatever order its       *)
(* calls, their failures and the environment come in, what it does to the  *)
(* core is a behaviour of the core.                                        *)
THEOREM DrivesCore == GrpcSpec => Spec
  <1>1. GrpcInit => Init
    BY DEF GrpcInit
  <1>. QED  BY <1>1, CoreStep, PTL DEF GrpcSpec, Spec

(* So at most one guarded handler of a key runs under a valid lease, and a *)
(* replay comes from a persisted execution, behind the interceptor too.    *)
THEOREM GrpcExclusive == GrpcSpec => [](LeaseExclusive /\ ReplayFaithful)
  BY DrivesCore, Exclusive, Replays, PTL

(* The inductive invariant holds in every reachable state.                 *)
THEOREM GrpcInvariant == GrpcSpec => []GrpcInv
  BY GrpcInitInv, GrpcStepInv, PTL DEF GrpcSpec

(* The state of a call has its type and agrees with the state of its       *)
(* lease: the handler runs guarded only with a reservation.                *)
THEOREM GrpcTypeCorrect == GrpcSpec => []GrpcTypeOK
  <1>1. GrpcInv => GrpcTypeOK
    BY DEF GrpcInv
  <1>. QED  BY GrpcInvariant, <1>1, PTL

(* What a retry is answered from the Store is the message the handler of   *)
(* an execution with the same key and request returned.                    *)
THEOREM GrpcReplays == GrpcSpec => []ReplaySame
  <1>1. GrpcInv => ReplaySame
    BY DEF GrpcInv
  <1>. QED  BY GrpcInvariant, <1>1, PTL

(* A call known to have failed, or whose panic has gone on, has left       *)
(* nothing in the Store, unless the Store did not answer the release.      *)
THEOREM GrpcErrors == GrpcSpec => []ErrorLeavesNothing
  <1>1. GrpcInv => ErrorLeavesNothing
    <2>. SUFFICES ASSUME GrpcInv, NEW c \in Call,
                         reply[c].code = "error" \/ stage[c] = "aborted",
                         result[c] # "unknown",
                         NEW k \in Key, recs[k].token = c
                  PROVE  FALSE
      BY DEF ErrorLeavesNothing
    <2>1. decided[c] = "Discard" /\ result[c] # "none"
      BY DEF GrpcInv, StageInv, Agrees
    <2>2. recs[k].state \in {0, StateReserved, StateCompleted}
      BY RecordFields DEF GrpcInv, IInv, TypeOK
    <2>3. recs[k].state # 0
      BY NoneAssumption DEF GrpcInv, ZeroInv
    <2>4. recs[k].state # StateReserved
      BY <2>1, <2>3 DEF GrpcInv, IInv, StoreInv
    <2>5. recs[k].state # StateCompleted
      BY <2>1, <2>3 DEF GrpcInv, IInv, StoreInv, Genuine, Completed
    <2>. QED  BY <2>2, <2>3, <2>4, <2>5
  <1>. QED  BY GrpcInvariant, <1>1, PTL

(* A handler is let run only by a claim, and Reserve claims a key only     *)
(* when the record there has expired.                                      *)
LEMMA SealedStep ==
  ASSUME GrpcInv, [GrpcNext]_allVars, NEW c \in Call,
         stage[c] = "begin", stage'[c] = "handler"
  PROVE  Expired(recs[key[c]], now)
  <1>1. TypeOK /\ DOMAIN stage = Call
    BY DEF GrpcInv, GrpcTypeOK
  <1>2. Intercept(c) \/ Die(c)
    <2>1. ASSUME NEW e \in Call \ {c}, Intercept(e) \/ Die(e) PROVE FALSE
      BY <2>1, OwnFrame
    <2>2. CASE Background \/ UNCHANGED allVars
      BY <2>2, BackgroundFrame
    <2>. QED  BY <2>1, <2>2 DEF GrpcNext
  <1>3. BeginRun(c)
    BY <1>1, <1>2 DEF Intercept, Die, KeyFromContext, MarshalError, Guard,
       StoreUnavailable, RejectInFlight, RejectFingerprintMismatch, replay,
       RunDirect, Handle, Panic, runHandler, reportFinish, Repanic, goto, status
  <1>4. pc'[c] = "running"
    BY <1>1, <1>3 DEF BeginRun, goto
  <1>5. ReserveCall(c)
    BY <1>1, <1>3, <1>4 DEF BeginRun, BeginStep, NewTokenError, Stamp,
       ReserveError,
       JudgeExpired, JudgeLive, TypeOK
  <1>. DEFINE r == Reserve(recs, key[c], reservation(c), now)
  <1>6. r.err = "nil"
    BY <1>1, <1>4, <1>5 DEF ReserveCall, TypeOK
  <1>. QED  BY <1>1, <1>6, ClaimEffect

(* No handler starts behind a stored result that has not expired.          *)
THEOREM Sealed == GrpcSpec => SuccessSealed
  <1>1. GrpcInv /\ [GrpcNext]_allVars =>
          [\A c \in Call :
              stage[c] = "begin" /\ stage'[c] = "handler" =>
                ~(recs[key[c]].state = StateCompleted /\ now < recs[key[c]].expires)]_allVars
    <2>. SUFFICES ASSUME GrpcInv, [GrpcNext]_allVars, NEW c \in Call,
                         stage[c] = "begin", stage'[c] = "handler",
                         recs[key[c]].state = StateCompleted,
                         now < recs[key[c]].expires
                  PROVE  FALSE
      OBVIOUS
    <2>1. recs[key[c]].expires <= now
      BY SealedStep DEF Expired
    <2>2. now \in Nat /\ recs[key[c]].expires \in Nat
      BY RecordFields DEF GrpcInv, IInv, TypeOK
    <2>. QED  BY <2>1, <2>2
  <1>. QED  BY GrpcInvariant, <1>1, PTL DEF GrpcSpec, SuccessSealed

=============================================================================
