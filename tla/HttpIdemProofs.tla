--------------------------- MODULE HttpIdemProofs ---------------------------
(***************************************************************************)
(* Proofs about HttpIdem and GinIdem, for every set of requests, keys,     *)
(* fingerprints, headers and statuses, all TTLs, limits and options, and   *)
(* whichever of the requests Gin serves.                                   *)
(*                                                                         *)
(* The middlewares' steps are steps of the lease protocol, except where a  *)
(* handler completes its reservation itself: its Complete may fail with    *)
(* the request on its way while the call goes on.  The core's inductive    *)
(* invariant does not survive that, so the middlewares have their own,     *)
(* MiddlewareInv, which does not depend on the writer of a request; what   *)
(* each operation does to the Store is taken from IdemLeaseProofs.  On top *)
(* of it each kind of writer has an invariant of its captures, Captured    *)
(* and GinCaptured; what each operation does to those is taken from        *)
(* RecorderProofs.                                                         *)
(***************************************************************************)
EXTENDS GinIdem, IdemLeaseProofs, RecorderProofs

USE HttpAssumption

-----------------------------------------------------------------------------
(* The steps of a request *)

(* What a request may do, through net/http or through Gin.                 *)
Moves(c) == Serve(c) \/ GinServe(c) \/ Die(c)

AnyNext == (\E c \in Call : Moves(c)) \/ Background

(* The steps that leave the lease protocol alone.                          *)
Quiet(c) ==
    \/ Receive(c) \/ Refuse(c) \/ writeReplay(c) \/ ginWriteReplay(c)
    \/ RunDirect(c) \/ HandlerWrite(c) \/ GinHandlerWrite(c)
    \/ \E err \in Errors : SetError(c, err)
    \/ Return(c) \/ GinReturn(c) \/ Panic(c) \/ SkipFinish(c)
    \/ Recover(c) \/ EngineSend(c)

(* They leave every variable of the protocol as it is.                     *)
LEMMA QuietCore == ASSUME NEW c \in Call, Quiet(c) PROVE UNCHANGED vars
  <1>. USE DEF coreVars
  <1>1. CASE Receive(c)
    BY <1>1 DEF Receive, PassThrough, RefuseRequest, Guard
  <1>2. CASE Refuse(c)
    BY <1>2 DEF Refuse, StoreUnavailable, RejectInFlight,
       RejectFingerprintMismatch
  <1>3. CASE writeReplay(c) \/ RunDirect(c) \/ Return(c) \/ Panic(c) \/ SkipFinish(c)
    BY <1>3 DEF writeReplay, RunDirect, Return, Panic, SkipFinish
  <1>4. CASE HandlerWrite(c) \/ GinHandlerWrite(c)
    BY <1>4 DEF HandlerWrite, GinHandlerWrite, HandlerCall
  <1>5. CASE \E err \in Errors : SetError(c, err)
    BY <1>5 DEF SetError
  <1>6. CASE ginWriteReplay(c) \/ GinReturn(c) \/ Recover(c) \/ EngineSend(c)
    BY <1>6 DEF ginWriteReplay, GinReturn, Recover, EngineSend
  <1>. QED  BY <1>1, <1>2, <1>3, <1>4, <1>5, <1>6 DEF Quiet

(* The steps of the middleware that are steps of the core.                 *)
Driving(c) ==
    \/ BeginRun(c) \/ FinishRun(c) \/ ReleaseUnsettled(c)
    \/ Die(c) /\ Crash(c)

(* What follows a completion that the handler made and did not report.     *)
Noisy(c) == FinishNoisily(c) \/ ReleaseNoisily(c)

(* A decision is one of the two.                                           *)
LEMMA Decisions == ASSUME NEW c PROVE decision(c) \in {"Persist", "Discard"}
  BY DEF decision

(* What they do, the lease protocol allows.                                *)
LEMMA DrivingCore == ASSUME NEW c \in Call, Driving(c) PROVE Step(c)
  <1>1. CASE BeginRun(c)
    BY <1>1 DEF BeginRun, Step
  <1>2. CASE FinishRun(c)
    <2>1. PICK d \in {"Persist", "Discard"} : Finish(c, d) \/ FinishError(c, d)
      BY <1>2, Decisions DEF FinishRun
    <2>. QED  BY <2>1 DEF Step
  <1>3. CASE ReleaseUnsettled(c)
    BY <1>3 DEF ReleaseUnsettled, Step
  <1>4. CASE Crash(c)
    BY <1>4 DEF Step
  <1>. QED  BY <1>1, <1>2, <1>3, <1>4 DEF Driving

(* The rest: a handler's own completion, a Finish after it, and the death  *)
(* of a process that has nothing left to finish.                           *)
LEMMA StepKinds ==
  ASSUME NEW c \in Call, Moves(c)
  PROVE  \/ Quiet(c) \/ Driving(c) \/ Join(c) \/ Noisy(c)
         \/ Die(c) /\ UNCHANGED vars
  <1>1. CASE Serve(c)
    BY <1>1 DEF Serve, Settle, Quiet, Driving, Noisy, CompleteItself
  <1>2. CASE GinServe(c)
    BY <1>2 DEF GinServe, Settle, Quiet, Driving, Noisy, GinCompleteItself
  <1>3. CASE Die(c)
    BY <1>3 DEF Die, Driving, coreVars
  <1>. QED  BY <1>1, <1>2, <1>3 DEF Moves

(* A handler's own completion changes the protocol state of its own call   *)
(* only, and what it asks of the Store is a Complete.                      *)
LEMMA JoinEffect ==
  ASSUME TypeOK, NEW c \in Call, Join(c)
  PROVE  /\ TypeOK'
         /\ UNCHANGED <<now, key, fp, lease, existing, outcome>>
         /\ \A e \in Call \ {c} : /\ pc'[e] = pc[e] /\ decided'[e] = decided[e]
                                  /\ result'[e] = result[e]
         /\ \/ /\ recs' = settle(c, "Persist").recs /\ UNCHANGED late
               /\ \/ /\ ~leaseLost(settle(c, "Persist").err)
                     /\ pc'[c] = "finished" /\ decided'[c] = "Persist"
                     /\ result'[c] = "persisted" /\ own' = [own EXCEPT ![c] = "committed"]
                     /\ \E m \in BOOLEAN : marked' = [marked EXCEPT ![c] = m]
                  \/ /\ own' = [own EXCEPT ![c] = "lost"]
                     /\ UNCHANGED <<pc, decided, result, marked>>
            \/ /\ late' = late \cup {[op |-> "Persist", call |-> c]}
               /\ own' = [own EXCEPT ![c] = "failed"]
               /\ UNCHANGED <<recs, pc, decided, result, marked>>
  <1>1. settle(c, "Persist").recs \in [Key -> Records]
    BY SettleEffect
  <1>2. ~leaseLost("nil")
    BY DEF leaseLost
  <1>. HIDE DEF settle
  <1>. USE DEF Join, args
  <1>3. UNCHANGED <<now, key, fp, lease, existing, outcome, attempt>>
    OBVIOUS
  <1>4. CASE /\ recs' = settle(c, "Persist").recs /\ UNCHANGED late
             /\ settle(c, "Persist").err = "nil"
             /\ pc' = [pc EXCEPT ![c] = "finished"]
             /\ decided' = [decided EXCEPT ![c] = "Persist"]
             /\ result' = [result EXCEPT ![c] = "persisted"]
             /\ own' = [own EXCEPT ![c] = "committed"]
             /\ \E m \in BOOLEAN : marked' = [marked EXCEPT ![c] = m]
    <2>1. TypeOK'
      BY <1>1, <1>3, <1>4 DEF TypeOK, PCs
    <2>2. DOMAIN pc = Call /\ DOMAIN decided = Call /\ DOMAIN result = Call
      BY DEF TypeOK
    <2>3. /\ pc'[c] = "finished" /\ decided'[c] = "Persist" /\ result'[c] = "persisted"
          /\ \A e \in Call \ {c} : /\ pc'[e] = pc[e] /\ decided'[e] = decided[e]
                                   /\ result'[e] = result[e]
      BY <1>4, <2>2
    <2>4. ~leaseLost(settle(c, "Persist").err)
      BY <1>2, <1>4
    <2>. QED  BY <1>3, <1>4, <2>1, <2>3, <2>4
  <1>5. CASE /\ recs' = settle(c, "Persist").recs /\ UNCHANGED late
             /\ own' = [own EXCEPT ![c] = "lost"]
             /\ UNCHANGED <<pc, decided, result, marked>>
    <2>1. TypeOK'
      BY <1>1, <1>3, <1>5 DEF TypeOK
    <2>. QED  BY <1>3, <1>5, <2>1
  <1>6. CASE /\ late' = late \cup {[op |-> "Persist", call |-> c]}
             /\ own' = [own EXCEPT ![c] = "failed"]
             /\ UNCHANGED <<recs, pc, decided, result, marked>>
    <2>1. TypeOK'
      BY <1>3, <1>6 DEF TypeOK, Requests
    <2>. QED  BY <1>3, <1>6, <2>1
  <1>. QED  BY <1>4, <1>5, <1>6 DEF fail

(* A Finish that comes after the handler's own completion changes at most  *)
(* the Store, or is left on its way there.                                 *)
LEMMA NoisyEffect ==
  ASSUME TypeOK, NEW c \in Call, Noisy(c)
  PROVE  /\ TypeOK'
         /\ UNCHANGED <<now, pc, key, fp, lease, existing, outcome, decided, result>>
         /\ UNCHANGED <<cw, writes, herr, marked, own, captured, retry>>
         /\ \E d \in {"Persist", "Discard"} :
               \/ recs' = settle(c, d).recs /\ UNCHANGED late
               \/ UNCHANGED recs /\ late' = late \cup {[op |-> d, call |-> c]}
  <1>1. PICK d \in {"Persist", "Discard"} :
               \/ recs' = settle(c, d).recs /\ UNCHANGED late
               \/ UNCHANGED recs /\ late' = late \cup {[op |-> d, call |-> c]}
    <2>1. CASE FinishNoisily(c)
      BY <2>1, Decisions DEF FinishNoisily, fail
    <2>2. CASE ReleaseNoisily(c)
      BY <2>2 DEF ReleaseNoisily, fail
    <2>. QED  BY <2>1, <2>2 DEF Noisy
  <1>2. recs' \in [Key -> Records] /\ late' \in SUBSET Requests
    BY <1>1, SettleEffect DEF TypeOK, Requests
  <1>3. /\ UNCHANGED <<now, pc, attempt, key, fp, lease, existing, outcome, decided, result>>
        /\ UNCHANGED <<cw, writes, herr, marked, own, captured, retry>>
    BY DEF Noisy, FinishNoisily, ReleaseNoisily, args, ending
  <1>4. TypeOK'
    BY <1>2, <1>3 DEF TypeOK
  <1>. QED  BY <1>1, <1>3, <1>4

(* The types of the protocol's variables are kept behind the middleware.   *)
LEMMA HttpCoreType == TypeOK /\ [AnyNext]_allVars => TypeOK'
  <1>. SUFFICES ASSUME TypeOK, [AnyNext]_allVars PROVE TypeOK'
    OBVIOUS
  <1>1. [Next]_vars => TypeOK'
    BY TypeStep
  <1>2. ASSUME NEW c \in Call, Moves(c) PROVE TypeOK'
    <2>1. CASE Quiet(c)
      BY <1>1, <2>1, QuietCore
    <2>2. CASE Driving(c)
      BY <1>1, <2>2, DrivingCore DEF Next
    <2>3. CASE Join(c)
      BY <2>3, JoinEffect
    <2>4. CASE Noisy(c)
      BY <2>4, NoisyEffect
    <2>5. CASE UNCHANGED vars
      BY <1>1, <2>5
    <2>. QED  BY <1>2, <2>1, <2>2, <2>3, <2>4, <2>5, StepKinds
  <1>3. CASE Background
    BY <1>1, <1>3 DEF Background, Next
  <1>4. CASE UNCHANGED allVars
    BY <1>1, <1>4 DEF allVars, coreVars
  <1>. QED  BY <1>2, <1>3, <1>4 DEF AnyNext

(* What a capture stores has the shape of a response.                      *)
LEMMA ResponseTypes ==
  /\ \A v : Good(v) => StoredResponse(v.rec) \in Responses
  /\ ownResponse \in Responses /\ NoResponse \in Responses
  <1>. USE HeaderAssumption, MaxResponseBodyAssumption
  <1>1. allow \subseteq Header
    BY DEF allow
  <1>2. ASSUME NEW v, Good(v) PROVE StoredResponse(v.rec) \in Responses
    <2>1. /\ v.rec.status \in {0} \cup 200 .. 999 /\ v.rec.header \in SUBSET Header
          /\ v.rec.body \in Nat
      BY <1>1, <1>2, Parts DEF Good, StatusCodes
    <2>. QED  BY <2>1 DEF StoredResponse, Status, StatusOK, Responses
  <1>3. ownResponse \in Responses /\ NoResponse \in Responses
    BY <1>1 DEF ownResponse, NoResponse, Responses
  <1>. QED  BY <1>2, <1>3

(* Retry-After is a whole number of seconds.                               *)
LEMMA SecondsType == \A d \in Int : retryAfterSeconds(d) \in Nat \ {0}
  BY DEF retryAfterSeconds

(* A step of request c changes the middleware's state of c only, and       *)
(* within its types.                                                       *)
Own(c) ==
    /\ UNCHANGED stage \/ \E s \in Stages : stage' = [stage EXCEPT ![c] = s]
    /\ UNCHANGED cw \/ \E v : cw' = [cw EXCEPT ![c] = v]
    /\ UNCHANGED writes \/ \E n \in 0 .. MaxWrites : writes' = [writes EXCEPT ![c] = n]
    /\ UNCHANGED herr \/ \E err \in ErrorKinds : herr' = [herr EXCEPT ![c] = err]
    /\ UNCHANGED marked \/ \E m \in BOOLEAN : marked' = [marked EXCEPT ![c] = m]
    /\ UNCHANGED own \/ \E x \in {"committed", "lost", "failed"} : own' = [own EXCEPT ![c] = x]
    /\ UNCHANGED captured \/ \E sr : captured' = [captured EXCEPT ![c] = sr]
    /\ UNCHANGED retry \/ \E n \in Nat : retry' = [retry EXCEPT ![c] = n]

(* An error goes out as a status and a document.                           *)
LEMMA ErrorShape ==
  ASSUME NEW c \in Call, NEW status, NEW err, WriteError(c, status, err)
  PROVE  /\ \E v : cw' = [cw EXCEPT ![c] = v]
         /\ \E s \in Stages : stage' = [stage EXCEPT ![c] = s]
  BY ZenonT(30) DEF WriteError, send, goto, Stages

(* Every step of a request is of that form.                                *)
LEMMA HttpShape ==
  ASSUME MiddlewareInv, NEW c \in Call, Moves(c)
  PROVE  Own(c)
  <1>1. writes[c] \in 0 .. MaxWrites /\ MaxWrites \in 0 .. MaxWrites /\ 0 \in 0 .. MaxWrites
    BY DEF MiddlewareInv, HttpTypeOK
  <1>2. writes[c] < MaxWrites => writes[c] + 1 \in 0 .. MaxWrites
    BY <1>1
  <1>. USE DEF Own
  <1>3. CASE Receive(c)
    BY <1>3, ErrorShape DEF Receive, PassThrough, RefuseRequest, Guard, goto,
       Stages
  <1>4. CASE BeginRun(c)
    BY <1>4, ZenonT(30) DEF BeginRun, goto, Stages
  <1>5. CASE StoreUnavailable(c) \/ RejectFingerprintMismatch(c)
    BY <1>5, ErrorShape DEF StoreUnavailable, RejectFingerprintMismatch, goto,
       Stages
  <1>6. CASE RejectInFlight(c)
    <2>1. outcome[c].retryAfter \in Int
      BY DEF MiddlewareInv, HttpTypeOK, TypeOK
    <2>2. retryAfterSeconds(outcome[c].retryAfter) \in Nat
      BY <2>1, SecondsType
    <2>3. /\ retry' = [retry EXCEPT ![c] = retryAfterSeconds(outcome[c].retryAfter)]
          /\ WriteError(c, 409, "ErrInFlight")
          /\ UNCHANGED <<writes, herr, marked, own, captured>>
      BY <1>6 DEF RejectInFlight
    <2>4. \E n \in Nat : retry' = [retry EXCEPT ![c] = n]
      BY <2>2, <2>3, ZenonT(30)
    <2>5. /\ \E v : cw' = [cw EXCEPT ![c] = v]
          /\ \E s \in Stages : stage' = [stage EXCEPT ![c] = s]
      BY <2>3, ErrorShape
    <2>. QED  BY <2>3, <2>4, <2>5
  <1>7. CASE writeReplay(c) \/ ginWriteReplay(c)
    BY <1>7, ErrorShape DEF writeReplay, ginWriteReplay, send, goto, Stages
  <1>8. CASE RunDirect(c)
    BY <1>8 DEF RunDirect, goto, Stages
  <1>9. CASE HandlerWrite(c) \/ GinHandlerWrite(c)
    BY <1>2, <1>9 DEF HandlerWrite, GinHandlerWrite, HandlerCall
  <1>10. CASE \E err \in Errors : SetError(c, err)
    BY <1>2, <1>10, ZenonT(30) DEF SetError
  <1>11. CASE CompleteItself(c) \/ GinCompleteItself(c)
    <2>1. \E v : cw' = [cw EXCEPT ![c] = v]
      BY <1>11, ZenonT(30) DEF CompleteItself, GinCompleteItself
    <2>2. Join(c) /\ TypeOK
      BY <1>11 DEF CompleteItself, GinCompleteItself, MiddlewareInv, HttpTypeOK
    <2>3. /\ captured' = [captured EXCEPT ![c] = ownResponse]
          /\ writes' = [writes EXCEPT ![c] = MaxWrites]
          /\ UNCHANGED <<stage, herr, retry>>
      BY <2>2 DEF Join
    <2>4. /\ UNCHANGED marked \/ \E m \in BOOLEAN : marked' = [marked EXCEPT ![c] = m]
          /\ \E x \in {"committed", "lost", "failed"} : own' = [own EXCEPT ![c] = x]
      BY <2>2, JoinEffect
    <2>5. \E n \in 0 .. MaxWrites : writes' = [writes EXCEPT ![c] = n]
      BY <1>1, <2>3, ZenonT(30)
    <2>. QED  BY <2>1, <2>3, <2>4, <2>5, ZenonT(30)
  <1>12. CASE Return(c) \/ GinReturn(c) \/ Panic(c)
    BY <1>1, <1>12 DEF Return, GinReturn, Panic, goto, Stages
  <1>13. CASE SkipFinish(c) \/ Noisy(c)
    BY <1>13 DEF SkipFinish, Noisy, FinishNoisily, ReleaseNoisily, goto, ended, Stages
  <1>14. CASE FinishRun(c)
    <2>4. UNCHANGED captured \/ \E sr : captured' = [captured EXCEPT ![c] = sr]
      BY <1>14, ZenonT(30) DEF FinishRun
    <2>5. \E s \in Stages : stage' = [stage EXCEPT ![c] = s]
      BY <1>14, ZenonT(30) DEF FinishRun, goto, ended, Stages
    <2>6. UNCHANGED <<cw, writes, herr, marked, own, retry>>
      BY <1>14 DEF FinishRun
    <2>. QED  BY <2>4, <2>5, <2>6
  <1>15. CASE ReleaseUnsettled(c) \/ Die(c)
    BY <1>15 DEF ReleaseUnsettled, Die, goto, Stages
  <1>16. CASE Recover(c) \/ EngineSend(c)
    BY <1>16 DEF Recover, EngineSend
  <1>17. CASE Serve(c)
    BY <1>3, <1>4, <1>5, <1>6, <1>7, <1>8, <1>9, <1>10, <1>11, <1>12, <1>13,
       <1>14, <1>15, <1>17
       DEF Serve, Refuse, Settle, Noisy
  <1>18. CASE GinServe(c)
    BY <1>3, <1>4, <1>5, <1>6, <1>7, <1>8, <1>9, <1>10, <1>11, <1>12, <1>13,
       <1>14, <1>15, <1>16, <1>18
       DEF GinServe, Refuse, Settle, Noisy
  <1>. QED  BY <1>15, <1>17, <1>18 DEF Moves

(* So the types are kept, and other requests are left where they are, in   *)
(* the middleware and in the core.                                         *)
LEMMA HttpFrame ==
  ASSUME MiddlewareInv, NEW c \in Call, Moves(c)
  PROVE  /\ stage' \in [Call -> Stages] /\ writes' \in [Call -> 0 .. MaxWrites]
         /\ herr' \in [Call -> ErrorKinds] /\ marked' \in [Call -> BOOLEAN]
         /\ own' \in [Call -> {"none", "committed", "lost", "failed"}]
         /\ retry' \in [Call -> Nat]
         /\ DOMAIN captured' = Call /\ DOMAIN cw' = Call
         /\ \A e \in Call \ {c} :
               /\ stage'[e] = stage[e] /\ cw'[e] = cw[e] /\ writes'[e] = writes[e]
               /\ herr'[e] = herr[e] /\ marked'[e] = marked[e] /\ own'[e] = own[e]
               /\ captured'[e] = captured[e] /\ retry'[e] = retry[e]
         /\ UNCHANGED <<key, fp>>
         /\ \A e \in Call \ {c} :
               /\ pc'[e] = pc[e] /\ outcome'[e] = outcome[e] /\ existing'[e] = existing[e]
               /\ decided'[e] = decided[e] /\ result'[e] = result[e]
  <1>1. /\ stage \in [Call -> Stages] /\ writes \in [Call -> 0 .. MaxWrites]
        /\ herr \in [Call -> ErrorKinds] /\ marked \in [Call -> BOOLEAN]
        /\ own \in [Call -> {"none", "committed", "lost", "failed"}]
        /\ captured \in [Call -> Responses] /\ retry \in [Call -> Nat]
        /\ DOMAIN cw = Call /\ TypeOK
    BY DEF MiddlewareInv, HttpTypeOK
  <1>2. Own(c)
    BY HttpShape
  <1>3. stage' \in [Call -> Stages] /\ \A e \in Call \ {c} : stage'[e] = stage[e]
    BY <1>1, <1>2 DEF Own
  <1>4. DOMAIN cw' = Call /\ \A e \in Call \ {c} : cw'[e] = cw[e]
    BY <1>1, <1>2 DEF Own
  <1>5. /\ writes' \in [Call -> 0 .. MaxWrites]
        /\ \A e \in Call \ {c} : writes'[e] = writes[e]
    BY <1>1, <1>2 DEF Own
  <1>6. herr' \in [Call -> ErrorKinds] /\ \A e \in Call \ {c} : herr'[e] = herr[e]
    BY <1>1, <1>2 DEF Own
  <1>7. marked' \in [Call -> BOOLEAN] /\ \A e \in Call \ {c} : marked'[e] = marked[e]
    BY <1>1, <1>2 DEF Own
  <1>8. /\ own' \in [Call -> {"none", "committed", "lost", "failed"}]
        /\ \A e \in Call \ {c} : own'[e] = own[e]
    BY <1>1, <1>2 DEF Own
  <1>9. DOMAIN captured' = Call /\ \A e \in Call \ {c} : captured'[e] = captured[e]
    BY <1>1, <1>2 DEF Own
  <1>10. retry' \in [Call -> Nat] /\ \A e \in Call \ {c} : retry'[e] = retry[e]
    BY <1>1, <1>2 DEF Own
  <1>11. /\ UNCHANGED <<key, fp>>
         /\ \A e \in Call \ {c} :
               /\ pc'[e] = pc[e] /\ outcome'[e] = outcome[e] /\ existing'[e] = existing[e]
               /\ decided'[e] = decided[e] /\ result'[e] = result[e]
    <2>1. CASE UNCHANGED vars
      BY <2>1 DEF vars
    <2>2. CASE Driving(c)
      BY <1>1, <2>2, DrivingCore, StepFrame
    <2>3. CASE Join(c)
      BY <1>1, <2>3, JoinEffect
    <2>4. CASE Noisy(c)
      BY <1>1, <2>4, NoisyEffect
    <2>. QED  BY <2>1, <2>2, <2>3, <2>4, StepKinds, QuietCore
  <1>. QED  BY <1>1, <1>3, <1>4, <1>5, <1>6, <1>7, <1>8, <1>9, <1>10, <1>11

(* The environment and the clock touch neither the middleware nor what the *)
(* protocol keeps of a call.                                               *)
LEMMA BackgroundFrame ==
  ASSUME Background \/ UNCHANGED allVars
  PROVE  UNCHANGED <<pc, key, fp, outcome, existing, decided, result, httpVars>>
  <1>1. CASE Background
    BY <1>1 DEF Background, LateArrival, Inspect, Tick, args, ending
  <1>2. CASE UNCHANGED allVars
    BY <1>2 DEF allVars, coreVars, vars
  <1>. QED  BY <1>1, <1>2

(* Begin's arguments stay as they are.                                     *)
LEMMA ArgsKept == MiddlewareInv /\ [AnyNext]_allVars => UNCHANGED <<key, fp>>
  BY HttpFrame, BackgroundFrame DEF AnyNext

(* What has been decided stays decided: a result that may be in the Store  *)
(* is not overwritten in the middleware unless its handler's own Complete  *)
(* failed, and a Begin that failed is over.                                *)
LEMMA DecisionKept ==
  ASSUME MiddlewareInv, [AnyNext]_allVars, NEW p \in Call
  PROVE  /\ UNCHANGED <<key, fp>>
         /\ pc[p] = "failed" => pc'[p] = "failed"
         /\ Persisting(p) => /\ Persisting(p)' /\ own'[p] = own[p]
                             /\ own[p] # "failed" => captured'[p] = captured[p]
  <1>. USE DEF Persisting
  <1>1. CASE Background \/ UNCHANGED allVars
    BY <1>1, BackgroundFrame DEF httpVars
  <1>2. ASSUME NEW e \in Call \ {p}, Moves(e)
        PROVE  /\ UNCHANGED <<key, fp>>
               /\ pc'[p] = pc[p] /\ decided'[p] = decided[p] /\ own'[p] = own[p]
               /\ captured'[p] = captured[p]
    BY <1>2, HttpFrame
  <1>3. ASSUME Moves(p)
        PROVE  /\ pc[p] = "failed" => pc'[p] = "failed"
               /\ Persisting(p) => /\ Persisting(p)' /\ own'[p] = own[p]
                                   /\ own[p] # "failed" => captured'[p] = captured[p]
    <2>1. /\ TypeOK /\ DOMAIN own = Call /\ DOMAIN captured = Call /\ Settled(p)
          /\ stage[p] \in {"handler", "returned", "panicked"}
                => pc[p] = "running" \/ (pc[p] = "finished" /\ own[p] = "committed")
      BY DEF MiddlewareInv, HttpTypeOK
    <2>2. pc[p] = "running" => decided[p] = "none"
      BY <2>1 DEF Settled
    <2>3. CASE Quiet(p)
      <3>1. UNCHANGED vars
        BY <2>3, QuietCore
      <3>2. UNCHANGED <<own, captured>>
        BY <2>3 DEF Quiet, Receive, PassThrough, RefuseRequest, Guard, Refuse,
           StoreUnavailable, RejectInFlight, RejectFingerprintMismatch, writeReplay,
           RunDirect, HandlerWrite, HandlerCall, SetError, Return, Panic, SkipFinish,
           ginWriteReplay, GinHandlerWrite, GinReturn, Recover, EngineSend
      <3>. QED  BY <3>1, <3>2 DEF vars
    <2>4. CASE BeginRun(p)
      <3>1. UNCHANGED <<own, captured, decided>>
        BY <2>4 DEF BeginRun, BeginStep, Stamp, ReserveCall, JudgeExpired,
           JudgeLive,
           ReserveError, NewTokenError, ending
      <3>2. pc[p] # "failed"
        BY <2>4 DEF BeginRun, BeginStep, Stamp, ReserveCall, JudgeExpired,
           JudgeLive,
           ReserveError, NewTokenError
      <3>. QED  BY <3>1, <3>2
    <2>5. CASE FinishRun(p)
      BY <2>2, <2>5 DEF FinishRun
    <2>6. CASE ReleaseUnsettled(p)
      BY <2>6 DEF ReleaseUnsettled, FinishAgain
    <2>7. CASE Die(p)
      BY <2>7 DEF Die, Crash, ending, coreVars, vars
    <2>8. CASE Join(p)
      <3>1. stage[p] = "handler" /\ own[p] = "none"
        BY <2>8 DEF Join
      <3>. QED  BY <2>1, <2>2, <3>1
    <2>9. CASE Noisy(p)
      BY <2>1, <2>9, NoisyEffect
    <2>. QED
      BY <1>3, <2>3, <2>4, <2>5, <2>6, <2>7, <2>8, <2>9, StepKinds DEF Driving
  <1>4. ASSUME Moves(p) PROVE UNCHANGED <<key, fp>>
    BY <1>4, HttpFrame
  <1>. QED  BY <1>1, <1>2, <1>3, <1>4 DEF AnyNext

(* A completion that was not reported is persisted all the same.           *)
LEMMA NoisyPersists ==
  ASSUME MiddlewareInv, [AnyNext]_allVars, NEW c \in Call, Noisy(c)
  PROVE  Persisting(c)'
  <1>1. pc[c] = "finished" /\ stage[c] \in {"returned", "panicked", "unsettled"}
    BY DEF Noisy, FinishNoisily, ReleaseNoisily
  <1>2. own[c] = "committed"
    BY <1>1 DEF MiddlewareInv, HttpTypeOK, Phase
  <1>3. Persisting(c)
    BY <1>2 DEF MiddlewareInv, Settled, Persisting
  <1>. QED  BY <1>3, DecisionKept

(* So a record, or an answer of the Store, that a call backed stays backed.*)
LEMMA BackedKept ==
  ASSUME MiddlewareInv, [AnyNext]_allVars, NEW r, NEW k, Backed(r, k)
  PROVE  Backed(r, k)'
  BY DecisionKept DEF Backed

(* A request that does not take part in a step is where it was.            *)
LEMMA OthersKept ==
  ASSUME MiddlewareInv, [AnyNext]_allVars, NEW e \in Call,
         /\ pc'[e] = pc[e] /\ outcome'[e] = outcome[e] /\ existing'[e] = existing[e]
         /\ decided'[e] = decided[e] /\ result'[e] = result[e],
         /\ stage'[e] = stage[e] /\ writes'[e] = writes[e]
         /\ marked'[e] = marked[e] /\ own'[e] = own[e]
         /\ captured'[e] = captured[e] /\ retry'[e] = retry[e]
  PROVE  (Phase(e) /\ Settled(e))'
  <1>1. Phase(e) /\ Settled(e)
    BY DEF MiddlewareInv
  <1>2. UNCHANGED <<key, fp>>
    BY DecisionKept
  <1>3. Phase(e)'
    <2>1. PICK r, k : r = existing[e] /\ k = key[e]
      OBVIOUS
    <2>2. Backed(r, k) => Backed(r, k)'
      BY BackedKept
    <2>3. existing'[e] = r /\ key'[e] = k
      BY <1>2, <2>1
    <2>4. Backed(existing[e], key[e]) => Backed(existing[e], key[e])'
      BY <2>1, <2>2, <2>3 DEF Backed
    <2>. QED  BY <1>1, <2>4 DEF Phase
  <1>4. Settled(e)'
    BY <1>1, <1>2, DecisionKept DEF Settled, Persisting
  <1>. QED  BY <1>3, <1>4

-----------------------------------------------------------------------------
(* The Store *)

(* What a Complete or a Release may do to a record.                        *)
LEMMA SettleChange ==
  ASSUME TypeOK, NEW c \in Call, NEW d \in {"Persist", "Discard"},
         recs' = settle(c, d).recs, NEW k \in Key
  PROVE  \/ recs'[k] = recs[k]
         \/ recs'[k] = NoRecord
         \/ /\ key[c] = k /\ d = "Persist" /\ recs'[k] = completion(recs[k], c, now)
            /\ recs[k].state = StateReserved /\ recs[k].token = c
  BY SettleEffect

(* What one step may do to the record of a key: nothing, delete it, claim  *)
(* it for a call that has been told nothing yet, or complete the           *)
(* reservation of a call that persists.                                    *)
LEMMA RecordStep ==
  ASSUME MiddlewareInv, [AnyNext]_allVars, NEW k \in Key
  PROVE  \/ recs'[k] = recs[k]
         \/ recs'[k] = NoRecord
         \/ \E c \in Call : /\ key[c] = k /\ recs'[k] = reservation(c)
                           /\ result'[c] = "none"
         \/ \E c \in Call : /\ key[c] = k /\ recs'[k] = completion(recs[k], c, now)
                           /\ recs[k].state = StateReserved /\ recs[k].token = c
                           /\ Persisting(c)'
  <1>1. TypeOK /\ recs \in [Key -> Records]
    BY DEF MiddlewareInv, HttpTypeOK, TypeOK
  <1>2. ASSUME NEW c \in Call, pc[c] \in {"reserve", "failed"},
               recs' = Reserve(recs, key[c], reservation(c), now).recs,
               UNCHANGED result
        PROVE  recs'[k] = recs[k] \/ /\ key[c] = k /\ recs'[k] = reservation(c)
                                     /\ result'[c] = "none"
    <2>1. result[c] = "none"
      BY <1>2 DEF MiddlewareInv, Settled
    <2>. QED  BY <1>1, <1>2, <2>1, ClaimEffect
  <1>3. ASSUME NEW c \in Call, NEW d \in {"Persist", "Discard"},
               recs' = settle(c, d).recs, d = "Persist" => Persisting(c)'
        PROVE  \/ recs'[k] = recs[k] \/ recs'[k] = NoRecord
               \/ /\ key[c] = k /\ recs'[k] = completion(recs[k], c, now)
                  /\ recs[k].state = StateReserved /\ recs[k].token = c
                  /\ Persisting(c)'
    BY <1>1, <1>3, SettleChange
  <1>4. ASSUME NEW c \in Call, BeginRun(c)
        PROVE  UNCHANGED recs \/ /\ pc[c] = "reserve" /\ UNCHANGED result
                                 /\ recs' = Reserve(recs, key[c], reservation(c), now).recs
    BY <1>4 DEF BeginRun, BeginStep, Stamp, ReserveCall, JudgeExpired,
       JudgeLive,
       ReserveError, NewTokenError, store, ending
  <1>5. ASSUME NEW c \in Call, FinishRun(c)
        PROVE  \/ UNCHANGED recs
               \/ \E d \in {"Persist", "Discard"} :
                     recs' = settle(c, d).recs /\ (d = "Persist" => Persisting(c)')
    <2>1. PICK d \in {"Persist", "Discard"} : Finish(c, d) \/ FinishError(c, d)
      BY <1>5, Decisions DEF FinishRun
    <2>2. decided'[c] = d
      BY <1>1, <2>1, FinishEffect
    <2>3. UNCHANGED recs \/ recs' = settle(c, d).recs
      BY <2>1 DEF Finish, FinishError
    <2>. QED  BY <2>2, <2>3 DEF Persisting
  <1>6. ASSUME NEW c \in Call, ReleaseUnsettled(c)
        PROVE  UNCHANGED recs \/ recs' = settle(c, "Discard").recs
    BY <1>6 DEF ReleaseUnsettled, FinishAgain
  <1>7. ASSUME NEW c \in Call, Join(c)
        PROVE  \/ recs'[k] = recs[k]
               \/ recs'[k] = NoRecord
               \/ recs' = settle(c, "Persist").recs /\ Persisting(c)'
    <2>1. Join(c) /\ DOMAIN own = Call /\ DOMAIN decided = Call
      BY <1>1, <1>7 DEF MiddlewareInv, HttpTypeOK, TypeOK
    <2>. DEFINE r == settle(c, "Persist")
    <2>2. r.recs[k] = recs[k] \/ r.recs[k] = NoRecord \/ ~leaseLost(r.err)
      BY <1>1, SettleEffect
    <2>3. \/ UNCHANGED recs
          \/ recs' = r.recs /\ decided' = [decided EXCEPT ![c] = "Persist"]
          \/ recs' = r.recs /\ leaseLost(r.err)
      BY <2>1 DEF Join
    <2>4. decided' = [decided EXCEPT ![c] = "Persist"] => Persisting(c)'
      BY <2>1 DEF Persisting
    <2>5. CASE recs' = r.recs /\ leaseLost(r.err)
      <3>. HIDE DEF r
      <3>1. recs'[k] = recs[k] \/ recs'[k] = NoRecord
        BY <2>2, <2>5
      <3>. QED  BY <3>1
    <2>6. CASE recs' = r.recs /\ decided' = [decided EXCEPT ![c] = "Persist"]
      BY <2>4, <2>6
    <2>. QED  BY <2>3, <2>5, <2>6
  <1>8. ASSUME NEW c \in Call, Noisy(c)
        PROVE  \/ UNCHANGED recs
               \/ \E d \in {"Persist", "Discard"} :
                     recs' = settle(c, d).recs /\ (d = "Persist" => Persisting(c)')
    BY <1>1, <1>8, NoisyEffect, NoisyPersists
  <1>9. ASSUME NEW c \in Call, Quiet(c) \/ (Die(c) /\ UNCHANGED vars) \/ (Die(c) /\ Crash(c))
        PROVE  UNCHANGED recs
    BY <1>9, QuietCore DEF vars, Crash, store
  <1>10. CASE \E c \in Call : Moves(c)
    <2>1. PICK c \in Call : Moves(c)
      BY <1>10
    <2>. QED
      BY <1>2, <1>3, <1>4, <1>5, <1>6, <1>7, <1>8, <1>9, <2>1, StepKinds DEF
         Driving
  <1>11. CASE \E o \in late : LateArrival(o)
    <2>1. PICK o \in late : LateArrival(o)
      BY <1>11
    <2>2. o \in Requests /\ UNCHANGED <<pc, result>>
      BY <1>1, <2>1 DEF TypeOK, LateArrival, ending
    <2>3. /\ o.call \in Call /\ o.op \in {"reserve", "Persist", "Discard"}
          /\ o.op = "reserve" => pc[o.call] = "failed"
          /\ o.op = "Persist" => Persisting(o.call)
      BY <2>2 DEF Requests, MiddlewareInv, HttpStoreInv
    <2>4. o.op = "Persist" => Persisting(o.call)'
      BY <2>3, DecisionKept
    <2>5. CASE o.op = "reserve"
      BY <1>2, <2>1, <2>2, <2>3, <2>5 DEF LateArrival
    <2>6. CASE o.op # "reserve"
      BY <1>3, <2>1, <2>3, <2>4, <2>6 DEF LateArrival
    <2>. QED  BY <2>5, <2>6
  <1>12. CASE \E j \in Key : Inspect(j)
    BY <1>1, <1>12 DEF Inspect, Get, lookup
  <1>13. CASE Tick \/ UNCHANGED allVars
    BY <1>13 DEF Tick, allVars, coreVars, vars
  <1>. QED  BY <1>10, <1>11, <1>12, <1>13 DEF AnyNext, Background

(* Who reserved a key and still has it has not been told that it is over.  *)
LEMMA HolderWaits ==
  ASSUME MiddlewareInv, [AnyNext]_allVars, NEW c \in Call,
         recs[key[c]].state = StateReserved, recs[key[c]].token = c,
         recs'[key[c]] = recs[key[c]]
  PROVE  result'[c] \in {"none", "unknown"}
  <1>1. /\ TypeOK /\ recs \in [Key -> Records] /\ key[c] \in Key
        /\ DOMAIN result = Call
    BY DEF MiddlewareInv, HttpTypeOK, TypeOK
  <1>2. result[c] \in {"none", "unknown"}
    BY <1>1 DEF MiddlewareInv, HttpStoreInv
  <1>3. ASSUME NEW d \in {"Persist", "Discard"}, recs' = settle(c, d).recs
        PROVE  leaseLost(settle(c, d).err) /\ Expired(recs[key[c]], now) /\ FALSE
    <2>1. completion(recs[key[c]], c, now).state # StateReserved /\ NoRecord.state # StateReserved
      BY DEF completion, NoRecord, StateReserved, StateCompleted
    <2>. QED  BY <1>1, <1>3, <2>1, SettleEffect
  <1>4. CASE Moves(c)
    <2>1. CASE Quiet(c) \/ BeginRun(c) \/ Noisy(c) \/ Die(c)
      <3>1. UNCHANGED result
        BY <1>1, <2>1, QuietCore, NoisyEffect DEF vars, BeginRun, BeginStep, Stamp,
           ReserveCall, JudgeExpired, JudgeLive, ReserveError, NewTokenError,
           ending, Die, Crash, coreVars
      <3>. QED  BY <1>2, <3>1
    <2>2. CASE FinishRun(c)
      <3>1. PICK d \in {"Persist", "Discard"} : Finish(c, d) \/ FinishError(c, d)
        BY <2>2, Decisions DEF FinishRun
      <3>2. ~Finish(c, d)
        BY <1>3 DEF Finish
      <3>. QED  BY <1>1, <3>1, <3>2 DEF FinishError
    <2>3. CASE ReleaseUnsettled(c)
      <3>1. UNCHANGED result
        BY <1>3, <2>3 DEF ReleaseUnsettled, FinishAgain
      <3>. QED  BY <1>2, <3>1
    <2>4. CASE Join(c)
      <3>1. UNCHANGED result
        BY <1>1, <1>3, <2>4, JoinEffect
      <3>. QED  BY <1>2, <3>1
    <2>. QED  BY <1>4, <2>1, <2>2, <2>3, <2>4, StepKinds DEF Driving
  <1>5. CASE \E e \in Call \ {c} : Moves(e)
    BY <1>2, <1>5, HttpFrame
  <1>6. CASE Background \/ UNCHANGED allVars
    BY <1>2, <1>6, BackgroundFrame
  <1>. QED  BY <1>4, <1>5, <1>6 DEF AnyNext

(* What a step puts on its way belongs to a call that gave up or persists. *)
LEMMA LateStep ==
  ASSUME MiddlewareInv, [AnyNext]_allVars, NEW o \in late'
  PROVE  \/ o \in late
         \/ /\ o.call \in Call
            /\ o.op = "reserve" => pc'[o.call] = "failed"
            /\ o.op = "Persist" => Persisting(o.call)'
  <1>1. /\ TypeOK /\ DOMAIN pc = Call /\ DOMAIN decided = Call /\ DOMAIN own = Call
    BY DEF MiddlewareInv, HttpTypeOK, TypeOK
  <1>2. ASSUME NEW c \in Call, Moves(c) PROVE
           \/ UNCHANGED late
           \/ late' = late \cup {[op |-> "reserve", call |-> c]} /\ pc'[c] = "failed"
           \/ late' = late \cup {[op |-> "Persist", call |-> c]} /\ Persisting(c)'
           \/ late' = late \cup {[op |-> "Discard", call |-> c]}
    <2>1. CASE Quiet(c) \/ Die(c)
      BY <2>1, QuietCore DEF vars, Die, Crash, store, coreVars
    <2>2. CASE BeginRun(c)
      BY <1>1, <2>2 DEF BeginRun, BeginStep, Stamp, ReserveCall, JudgeExpired,
         JudgeLive,
         ReserveError, NewTokenError, store, fail
    <2>3. CASE FinishRun(c)
      <3>1. PICK d \in {"Persist", "Discard"} : Finish(c, d) \/ FinishError(c, d)
        BY <2>3, Decisions DEF FinishRun
      <3>2. decided'[c] = d
        BY <1>1, <3>1, FinishEffect
      <3>3. UNCHANGED late \/ late' = late \cup {[op |-> d, call |-> c]}
        BY <3>1 DEF Finish, FinishError, fail
      <3>. QED  BY <3>2, <3>3 DEF Persisting
    <2>4. CASE ReleaseUnsettled(c)
      BY <2>4 DEF ReleaseUnsettled, FinishAgain, fail
    <2>5. CASE Join(c)
      BY <1>1, <2>5, JoinEffect DEF Persisting
    <2>6. CASE Noisy(c)
      BY <1>1, <2>6, NoisyEffect, NoisyPersists
    <2>. QED  BY <1>2, <2>1, <2>2, <2>3, <2>4, <2>5, <2>6, StepKinds DEF Driving
  <1>3. CASE \E c \in Call : Moves(c)
    BY <1>2, <1>3
  <1>4. CASE Background \/ UNCHANGED allVars
    BY <1>4 DEF Background, LateArrival, Inspect, Tick, allVars, coreVars, vars
  <1>. QED  BY <1>3, <1>4 DEF AnyNext

(* Every step keeps what holds of the Store and of what is on its way.     *)
LEMMA StoreStep ==
  ASSUME MiddlewareInv, [AnyNext]_allVars
  PROVE  HttpStoreInv'
  <1>1. /\ TypeOK /\ TypeOK' /\ recs \in [Key -> Records] /\ recs' \in [Key -> Records]
        /\ HttpStoreInv
    BY HttpCoreType DEF MiddlewareInv, HttpTypeOK, TypeOK
  <1>2. ASSUME NEW k \in Key
        PROVE  (/\ Backed(recs[k], k)
                /\ recs[k].state = StateReserved
                      => result[recs[k].token] \in {"none", "unknown"})'
    <2>1. Backed(recs[k], k) /\ UNCHANGED <<key, fp>>
      BY <1>1, ArgsKept DEF HttpStoreInv
    <2>2. CASE recs'[k] = recs[k]
      <3>1. PICK r : r = recs[k]
        OBVIOUS
      <3>2. Backed(r, k)'
        BY <2>1, <3>1, BackedKept
      <3>3. Backed(recs[k], k)'
        BY <2>2, <3>1, <3>2
      <3>4. recs[k].state = StateReserved => recs[k].token \in Call /\ key[recs[k].token] = k
        BY <2>1 DEF Backed, StateReserved
      <3>5. recs[k].state = StateReserved => result'[recs[k].token] \in {"none", "unknown"}
        BY <2>2, <3>4, HolderWaits
      <3>. QED  BY <2>2, <3>3, <3>5
    <2>3. CASE recs'[k] = NoRecord
      BY <2>3 DEF NoRecord, Backed, StateReserved
    <2>4. CASE \E c \in Call : /\ key[c] = k /\ recs'[k] = reservation(c)
                             /\ result'[c] = "none"
      BY <2>1, <2>4 DEF reservation, Backed, StateReserved, StateCompleted
    <2>5. CASE \E c \in Call : /\ key[c] = k /\ recs'[k] = completion(recs[k], c, now)
                             /\ recs[k].state = StateReserved /\ recs[k].token = c
                             /\ Persisting(c)'
      BY <2>1, <2>5 DEF completion, Backed, StateReserved, StateCompleted
    <2>. QED  BY <2>2, <2>3, <2>4, <2>5, RecordStep
  <1>3. ASSUME NEW o \in late'
        PROVE  (/\ o.op = "reserve" => pc[o.call] = "failed"
                /\ o.op = "Persist" => Persisting(o.call))'
    <2>1. CASE o \in late
      <3>1. o.call \in Call
        BY <1>1, <2>1 DEF TypeOK, Requests
      <3>. QED  BY <1>1, <2>1, <3>1, DecisionKept DEF HttpStoreInv
    <2>. QED  BY <2>1, LateStep
  <1>. QED  BY <1>2, <1>3 DEF HttpStoreInv

-----------------------------------------------------------------------------
(* The request that takes the step *)

(* What HttpTypeOK says of where a request is.                             *)
Staged(c) ==
    /\ stage[c] \in {"handler", "returned", "panicked"}
          => pc[c] = "running" \/ (pc[c] = "finished" /\ own[c] = "committed")
    /\ stage[c] = "arrived" => pc[c] = "begin"

Local(c) == Staged(c) /\ Phase(c) /\ Settled(c)

(* The invariant holds of every request.                                   *)
LEMMA LocalNow ==
  ASSUME MiddlewareInv, NEW c \in Call
  PROVE  Local(c)
  BY DEF MiddlewareInv, HttpTypeOK, Local, Staged

(* A step that leaves the core alone leaves alone what only it changes.    *)
LEMMA QuietFrame ==
  ASSUME NEW c \in Call, Quiet(c)
  PROVE  UNCHANGED <<key, fp, pc, existing, outcome, decided, result, own, captured, marked>>
  <1>1. UNCHANGED vars
    BY QuietCore
  <1>2. UNCHANGED <<own, captured, marked>>
    BY DEF Quiet, Receive, PassThrough, RefuseRequest, Guard, Refuse,
       StoreUnavailable, RejectInFlight, RejectFingerprintMismatch, writeReplay,
       RunDirect, HandlerWrite, HandlerCall, SetError, Return, Panic, SkipFinish,
       ginWriteReplay, GinHandlerWrite, GinReturn, Recover, EngineSend
  <1>. QED  BY <1>1, <1>2 DEF vars

(* A request that has not proceeded has nothing to settle.                 *)
LEMMA NotProceeded ==
  ASSUME MiddlewareInv, NEW c \in Call,
         pc[c] \in {"begin", "reserve", "judge", "failed", "answered"}
  PROVE  /\ Local(c) /\ outcome[c].action # "Proceed" /\ own[c] = "none" /\ ~marked[c]
         /\ decided[c] = "none" /\ result[c] = "none" /\ ~Persisting(c)
  <1>1. Local(c)
    BY LocalNow
  <1>2. outcome[c].action # "Proceed"
    BY <1>1 DEF Local, Phase
  <1>. QED  BY <1>1, <1>2 DEF Local, Settled, Persisting

(* A request that is refused, passed on or answered without a reservation. *)
LEMMA GoesOn ==
  ASSUME MiddlewareInv, NEW c \in Call, Quiet(c), pc[c] \in {"begin", "failed", "answered"},
         \/ stage'[c] = "done"
         \/ stage'[c] = "direct" /\ pc[c] # "answered"
         \/ stage'[c] = "begin",
         \/ retry'[c] = 0
         \/ /\ stage'[c] = "done" /\ outcome[c].action = "RejectInFlight"
            /\ retry'[c] = retryAfterSeconds(outcome[c].retryAfter)
  PROVE  Local(c)'
  <1>1. /\ Local(c) /\ outcome[c].action # "Proceed" /\ own[c] = "none" /\ ~marked[c]
        /\ decided[c] = "none" /\ result[c] = "none"
    BY NotProceeded
  <1>. USE QuietFrame
  <1>2. Phase(c)'
    BY <1>1 DEF Local, Phase
  <1>3. Settled(c)'
    BY <1>1 DEF Local, Settled, Persisting
  <1>. QED  BY <1>2, <1>3 DEF Local, Staged

(* Retry-After is written with a 409 only.                                 *)
LEMMA NoRetryYet ==
  ASSUME MiddlewareInv, NEW c \in Call, stage[c] # "done" \/ outcome[c].action = "Proceed"
  PROVE  retry[c] = 0
  BY LocalNow DEF Local, Settled

(* An error goes out with its status, and the request is over.             *)
LEMMA ErrorSent ==
  ASSUME MiddlewareInv, NEW c \in Call, NEW status, NEW err, WriteError(c, status, err)
  PROVE  /\ stage'[c] = "done"
         /\ cw'[c].wire.status = IF Errtrail THEN httpStatus[classify(status, err)] ELSE status
  <1>1. DOMAIN stage = Call /\ DOMAIN cw = Call
    BY DEF MiddlewareInv, HttpTypeOK
  <1>. QED  BY <1>1 DEF WriteError, goto, send, problem

(* What happens to a request before or instead of its execution.           *)
Early(c) ==
    Receive(c) \/ Refuse(c) \/ RunDirect(c) \/ writeReplay(c) \/ ginWriteReplay(c)

(* Where such a step starts and where it leads.                            *)
LEMMA EarlySteps ==
  ASSUME MiddlewareInv, NEW c \in Call, Early(c)
  PROVE  /\ Quiet(c) /\ pc[c] \in {"begin", "failed", "answered"}
         /\ stage[c] \in {"arrived", "begin", "direct"}
         /\ \/ stage'[c] = "done"
            \/ stage'[c] = "direct" /\ pc[c] # "answered"
            \/ stage'[c] = "begin" /\ stage[c] = "arrived"
         /\ stage'[c] \in {"direct", "begin"} => UNCHANGED cw
         /\ \/ UNCHANGED retry /\ retry'[c] = 0
            \/ /\ stage'[c] = "done" /\ outcome[c].action = "RejectInFlight"
               /\ cw'[c].wire.status = 409
               /\ retry'[c] = retryAfterSeconds(outcome[c].retryAfter)
  <1>1. /\ Quiet(c) /\ DOMAIN stage = Call /\ DOMAIN retry = Call /\ Local(c)
        /\ (stage[c] # "done" => retry[c] = 0)
    BY LocalNow, NoRetryYet DEF Early, Quiet, MiddlewareInv, HttpTypeOK
  <1>2. /\ stage[c] = "arrived" => pc[c] = "begin"
        /\ stage[c] = "direct" => pc[c] \in {"begin", "failed"}
    BY <1>1 DEF Local, Staged, Phase
  <1>3. CASE \E kind \in Kinds : RefuseRequest(c, kind)
    <2>1. stage[c] = "arrived" /\ stage'[c] = "done" /\ UNCHANGED retry
      BY <1>3, ErrorSent DEF RefuseRequest
    <2>. QED  BY <1>1, <1>2, <2>1
  <1>4. CASE Guard(c) \/ \E kind \in Kinds : PassThrough(c, kind)
    <2>1. stage[c] = "arrived" /\ stage'[c] \in {"begin", "direct"} /\ UNCHANGED <<cw, retry>>
      BY <1>1, <1>4 DEF Guard, PassThrough, goto
    <2>. QED  BY <1>1, <1>2, <2>1
  <1>5. CASE RunDirect(c)
    <2>1. stage[c] = "direct" /\ stage'[c] = "done" /\ UNCHANGED retry
      BY <1>1, <1>5 DEF RunDirect, goto
    <2>. QED  BY <1>1, <1>2, <2>1
  <1>6. CASE StoreUnavailable(c)
    <2>1. /\ stage[c] = "begin" /\ pc[c] = "failed" /\ UNCHANGED retry
          /\ (stage'[c] = "direct" /\ UNCHANGED cw) \/ stage'[c] = "done"
      BY <1>1, <1>6, ErrorSent DEF StoreUnavailable, goto
    <2>. QED  BY <1>1, <2>1
  <1>7. CASE RejectFingerprintMismatch(c)
    <2>1. stage[c] = "begin" /\ pc[c] = "answered" /\ stage'[c] = "done" /\ UNCHANGED retry
      BY <1>7, ErrorSent DEF RejectFingerprintMismatch
    <2>. QED  BY <1>1, <2>1
  <1>8. CASE RejectInFlight(c)
    <2>1. /\ stage[c] = "begin" /\ stage'[c] = "done" /\ pc[c] = "answered"
          /\ outcome[c].action = "RejectInFlight"
          /\ retry'[c] = retryAfterSeconds(outcome[c].retryAfter)
      BY <1>1, <1>8, ErrorSent DEF RejectInFlight
    <2>2. httpStatus[classify(409, "ErrInFlight")] = 409
      BY DEF httpStatus, classify
    <2>3. cw'[c].wire.status = 409
      BY <1>8, <2>2, ErrorSent DEF RejectInFlight
    <2>. QED  BY <1>1, <2>1, <2>3
  <1>9. CASE writeReplay(c) \/ ginWriteReplay(c)
    <2>1. stage[c] = "begin" /\ pc[c] = "answered" /\ UNCHANGED retry
      BY <1>9 DEF writeReplay, ginWriteReplay
    <2>2. stage'[c] = "done"
      BY <1>1, <1>9, ErrorSent DEF writeReplay, ginWriteReplay, goto
    <2>. QED  BY <1>1, <2>1, <2>2
  <1>. QED
    BY <1>3, <1>4, <1>5, <1>6, <1>7, <1>8, <1>9 DEF Early, Receive, Refuse

(* They keep what holds of the request.                                    *)
LEMMA EarlyLocal ==
  ASSUME MiddlewareInv, NEW c \in Call, Early(c)
  PROVE  Local(c)'
  BY EarlySteps, GoesOn

(* A handler that has a reservation, before its Finish.                    *)
LEMMA HandlerNow ==
  ASSUME MiddlewareInv, NEW c \in Call, stage[c] \in {"handler", "returned", "panicked"}
  PROVE  /\ Local(c) /\ outcome[c].action = "Proceed" /\ retry[c] = 0
         /\ \/ /\ pc[c] = "running" /\ own[c] # "committed" /\ decided[c] = "none"
               /\ result[c] = "none"
            \/ /\ pc[c] = "finished" /\ own[c] = "committed" /\ decided[c] = "Persist"
               /\ result[c] = "persisted" /\ captured[c] = ownResponse
  <1>1. Local(c)
    BY LocalNow
  <1>2. pc[c] = "running" \/ (pc[c] = "finished" /\ own[c] = "committed")
    BY <1>1 DEF Local, Staged
  <1>3. outcome[c].action = "Proceed" /\ retry[c] = 0
    BY <1>1, <1>2 DEF Local, Phase, Settled
  <1>. QED  BY <1>1, <1>2, <1>3 DEF Local, Settled

(* Inside the handler, and while Gin sends what is left, the core is not   *)
(* asked anything.                                                         *)
LEMMA HandlerQuiet ==
  ASSUME MiddlewareInv, NEW c \in Call, Quiet(c), outcome[c].action = "Proceed",
         \/ /\ stage[c] = "handler"
            /\ \/ stage'[c] = "handler"
                  /\ (own[c] # "none" => writes'[c] = writes[c])
               \/ stage'[c] \in {"returned", "panicked"}
         \/ stage[c] \in {"done", "aborted"} /\ stage'[c] = stage[c],
         UNCHANGED retry
  PROVE  Local(c)'
  <1>1. Local(c) /\ retry[c] = 0
    BY LocalNow, NoRetryYet
  <1>. USE QuietFrame
  <1>2. Phase(c)'
    BY <1>1 DEF Local, Phase
  <1>3. Staged(c)'
    BY <1>1 DEF Local, Staged
  <1>4. Settled(c)'
    <2>1. CASE stage[c] = "handler"
      BY <1>1, <2>1, HandlerNow DEF Local, Settled, Persisting
    <2>2. CASE stage[c] \in {"done", "aborted"}
      BY <1>1, <2>2 DEF Local, Settled, Persisting
    <2>. QED  BY <2>1, <2>2
  <1>. QED  BY <1>2, <1>3, <1>4 DEF Local

(* A call of the handler finds it running and has one of its calls left.   *)
LEMMA HandlerSteps ==
  ASSUME MiddlewareInv, NEW c \in Call,
         \/ HandlerWrite(c) \/ GinHandlerWrite(c)
         \/ \E err \in Errors : SetError(c, err)
  PROVE  /\ Quiet(c) /\ stage[c] = "handler" /\ own[c] = "none" /\ decided[c] = "none"
         /\ outcome[c].action = "Proceed" /\ pc[c] = "running"
         /\ writes'[c] = writes[c] + 1 /\ writes'[c] # 0 /\ UNCHANGED <<stage, retry>>
  <1>1. /\ stage[c] = "handler" /\ writes[c] < MaxWrites /\ UNCHANGED <<stage, retry>>
        /\ writes' = [writes EXCEPT ![c] = @ + 1] /\ Quiet(c)
    BY DEF HandlerWrite, GinHandlerWrite, HandlerCall, SetError, Quiet
  <1>2. /\ DOMAIN writes = Call /\ writes[c] \in Nat /\ MaxWrites \in Nat
    BY DEF MiddlewareInv, HttpTypeOK
  <1>3. own[c] = "none"
    BY <1>1, <1>2, LocalNow DEF Local, Settled
  <1>. QED  BY <1>1, <1>2, <1>3, HandlerNow

(* What the handler writes and reports, its return or its panic, and what  *)
(* Gin sends for it.                                                       *)
LEMMA HandlerLocal ==
  ASSUME MiddlewareInv, NEW c \in Call,
         \/ HandlerWrite(c) \/ GinHandlerWrite(c)
         \/ \E err \in Errors : SetError(c, err)
         \/ Return(c) \/ GinReturn(c) \/ Panic(c) \/ Recover(c) \/ EngineSend(c)
  PROVE  Local(c)'
  <1>1. Quiet(c) /\ DOMAIN stage = Call /\ Local(c)
    BY LocalNow DEF Quiet, MiddlewareInv, HttpTypeOK
  <1>2. CASE \/ HandlerWrite(c) \/ GinHandlerWrite(c)
             \/ \E err \in Errors : SetError(c, err)
    BY <1>2, HandlerSteps, HandlerQuiet
  <1>3. CASE Return(c) \/ GinReturn(c) \/ Panic(c)
    <2>1. stage[c] = "handler" /\ stage'[c] \in {"returned", "panicked"} /\ UNCHANGED retry
      BY <1>1, <1>3 DEF Return, GinReturn, Panic, goto
    <2>. QED  BY <1>1, <2>1, HandlerNow, HandlerQuiet
  <1>4. CASE EngineSend(c)
    BY <1>1, <1>4, HandlerQuiet DEF EngineSend
  <1>5. CASE Recover(c)
    <2>1. stage[c] = "aborted" /\ UNCHANGED <<stage, retry, writes>>
      BY <1>5 DEF Recover
    <2>2. retry[c] = 0
      BY <2>1, NoRetryYet
    <2>. USE QuietFrame
    <2>3. Phase(c)' /\ Staged(c)'
      BY <1>1, <2>1 DEF Local, Phase, Staged, Backed, Persisting
    <2>4. Settled(c)'
      BY <1>1, <2>1, <2>2 DEF Local, Settled, Persisting
    <2>. QED  BY <2>3, <2>4 DEF Local
  <1>. QED  BY <1>2, <1>3, <1>4, <1>5

(* What the handler's own completion leaves to be known of a request.      *)
LEMMA CommittedNow ==
  ASSUME MiddlewareInv, NEW c \in Call, own[c] = "committed"
  PROVE  /\ Local(c) /\ outcome[c].action = "Proceed" /\ retry[c] = 0
         /\ pc[c] = "finished" /\ decided[c] = "Persist" /\ result[c] = "persisted"
  <1>1. Local(c)
    BY LocalNow
  <1>. QED  BY <1>1 DEF Local, Settled

(* What follows the handler's own completion ends the request, or leaves   *)
(* it to a best-effort Discard.                                            *)
LEMMA AfterOwn ==
  ASSUME MiddlewareInv, NEW c \in Call, own[c] = "committed",
         stage'[c] \in {"unsettled", "done", "aborted"},
         UNCHANGED <<key, fp, pc, existing, outcome, decided, result>>,
         UNCHANGED <<writes, marked, own, captured, retry>>
  PROVE  Local(c)'
  <1>1. /\ Local(c) /\ outcome[c].action = "Proceed" /\ retry[c] = 0
        /\ pc[c] = "finished" /\ decided[c] = "Persist" /\ result[c] = "persisted"
    BY CommittedNow
  <1>2. Phase(c)'
    BY <1>1 DEF Local, Phase
  <1>3. Settled(c)'
    BY <1>1 DEF Local, Settled, Persisting
  <1>. QED  BY <1>2, <1>3 DEF Local, Staged

(* Nothing is left to finish, or the Store turns the Finish down or fails. *)
LEMMA SkipSteps ==
  ASSUME MiddlewareInv, NEW c \in Call, SkipFinish(c) \/ Noisy(c)
  PROVE  /\ stage[c] \in {"returned", "panicked", "unsettled"}
         /\ stage'[c] \in {"unsettled", "done", "aborted"}
         /\ stage'[c] \in {"unsettled", "done"} => stage[c] \in {"returned", "unsettled"}
         /\ own[c] = "committed"
         /\ UNCHANGED <<key, fp, pc, existing, outcome, decided, result>>
         /\ UNCHANGED <<cw, writes, herr, marked, own, captured, retry>>
  <1>1. TypeOK /\ DOMAIN stage = Call /\ Local(c)
    BY LocalNow DEF MiddlewareInv, HttpTypeOK
  <1>2. CASE SkipFinish(c)
    <2>1. /\ stage[c] \in {"returned", "panicked"} /\ stage'[c] = ended(c)
          /\ UNCHANGED <<cw, writes, herr, marked, own, captured, retry>>
      BY <1>1, <1>2 DEF SkipFinish, goto
    <2>2. own[c] = "committed"
      BY <1>1, <1>2 DEF SkipFinish, Local, Settled
    <2>3. Quiet(c)
      BY <1>2 DEF Quiet
    <2>. QED  BY <2>1, <2>2, <2>3, QuietFrame DEF ended
  <1>3. CASE Noisy(c)
    <2>1. /\ pc[c] = "finished" /\ stage[c] \in {"returned", "panicked", "unsettled"}
          /\ stage'[c] \in {"unsettled", "done", "aborted"}
          /\ stage'[c] \in {"unsettled", "done"} => stage[c] \in {"returned", "unsettled"}
      <3>1. CASE FinishNoisily(c)
        BY <1>1, <3>1 DEF FinishNoisily, goto, ended
      <3>2. CASE ReleaseNoisily(c)
        BY <1>1, <3>2 DEF ReleaseNoisily, goto
      <3>. QED  BY <1>3, <3>1, <3>2 DEF Noisy
    <2>2. own[c] = "committed"
      BY <1>1, <2>1 DEF Local, Phase, Staged
    <2>. QED  BY <1>1, <1>3, <2>1, <2>2, NoisyEffect
  <1>. QED  BY <1>2, <1>3

(* A handler that marked its reservation leaves nothing to finish.         *)
LEMMA SkipLocal ==
  ASSUME MiddlewareInv, NEW c \in Call, SkipFinish(c) \/ Noisy(c)
  PROVE  Local(c)'
  BY SkipSteps, AfterOwn

(* Until Begin has let the handler run, nothing is captured or settled.    *)
LEMMA BeginKeepsRest ==
  ASSUME MiddlewareInv, NEW c \in Call, BeginRun(c), Phase(c)',
         outcome'[c].action = "Replay" =>
            /\ outcome'[c].payload \in Call /\ (Persisting(outcome[c].payload))'
            /\ key[outcome'[c].payload] = key[c] /\ fp[outcome'[c].payload] = fp[c]
  PROVE  Local(c)'
  <1>1. /\ TypeOK /\ DOMAIN stage = Call /\ stage[c] = "begin"
        /\ UNCHANGED <<cw, writes, herr, marked, own, captured, retry>>
        /\ stage'[c] = IF pc'[c] = "running" THEN "handler" ELSE "begin"
    BY DEF MiddlewareInv, HttpTypeOK, BeginRun, goto
  <1>2. pc[c] \in {"begin", "reserve", "judge", "answered", "failed"} /\ retry[c] = 0
    BY <1>1, LocalNow, NoRetryYet DEF Local, Phase
  <1>3. /\ own[c] = "none" /\ ~marked[c]
        /\ decided[c] = "none" /\ result[c] = "none"
    BY <1>2, NotProceeded
  <1>4. /\ pc'[c] \in {"begin", "reserve", "judge", "answered", "failed", "running"}
        /\ UNCHANGED <<decided, result>>
    BY <1>1, BeginEffect, LocalNow DEF BeginRun, Local, Phase
  <1>5. UNCHANGED <<key, fp>>
    BY <1>1, DrivingCore, StepFrame DEF Driving
  <1>6. Staged(c)'
    BY <1>1 DEF Staged
  <1>7. Settled(c)'
    BY <1>1, <1>2, <1>3, <1>4, <1>5 DEF Settled, Persisting
  <1>. QED  BY <1>6, <1>7 DEF Local

(* Begin: what it is told by the Store is backed by a call, and so is what *)
(* it answers.                                                             *)
LEMMA BeginLocal ==
  ASSUME MiddlewareInv, [AnyNext]_allVars, NEW c \in Call, BeginRun(c)
  PROVE  Local(c)'
  <1>1. /\ Local(c) /\ TypeOK /\ TypeOK' /\ DOMAIN stage = Call /\ stage[c] = "begin"
        /\ stage'[c] = IF pc'[c] = "running" THEN "handler" ELSE "begin"
        /\ DOMAIN pc = Call /\ DOMAIN outcome = Call /\ DOMAIN existing = Call
    BY LocalNow, HttpCoreType DEF MiddlewareInv, HttpTypeOK, TypeOK, BeginRun,
       goto
  <1>2. /\ pc[c] \in {"begin", "reserve", "judge", "answered", "failed"}
        /\ outcome[c].action # "Proceed"
        /\ outcome[c].action \in {"Replay", "RejectInFlight"} => pc[c] = "answered"
        /\ outcome[c] \in [action : Actions, payload : Call \cup {None}, retryAfter : Int]
    BY <1>1 DEF Local, Phase, TypeOK
  <1>3. CASE NewTokenError(c) \/ ReserveError(c)
    <2>1. pc[c] \in {"begin", "reserve"} /\ pc'[c] = "failed" /\ outcome'[c].action = "error"
      BY <1>1, <1>2, <1>3 DEF NewTokenError, ReserveError, answer
    <2>2. Phase(c)'
      BY <1>1, <2>1 DEF Phase
    <2>. QED  BY <2>1, <2>2, BeginKeepsRest
  <1>4. CASE Stamp(c)
    <2>1. pc[c] = "begin" /\ pc'[c] = "reserve" /\ UNCHANGED outcome
      BY <1>1, <1>4 DEF Stamp
    <2>2. Phase(c)'
      BY <1>1, <1>2, <2>1 DEF Phase
    <2>. QED  BY <1>2, <2>1, <2>2, BeginKeepsRest
  <1>5. CASE JudgeExpired(c)
    <2>1. /\ pc[c] = "judge" /\ pc'[c] \in {"begin", "failed"}
          /\ outcome'[c] = outcome[c] \/ outcome'[c].action = "error"
      BY <1>1, <1>2, <1>5 DEF JudgeExpired, answer
    <2>2. Phase(c)'
      BY <1>1, <1>2, <2>1 DEF Phase
    <2>. QED  BY <1>2, <2>1, <2>2, BeginKeepsRest
  <1>6. CASE ReserveCall(c)
    <2>1. PICK r : r = Reserve(recs, key[c], reservation(c), now)
      OBVIOUS
    <2>2. /\ pc[c] = "reserve" /\ existing'[c] = r.existing
          /\ \/ pc'[c] = "running" /\ outcome'[c].action = "Proceed"
             \/ r.err = "AlreadyExists" /\ pc'[c] = "judge" /\ UNCHANGED outcome
      BY <1>1, <1>2, <1>6, <2>1 DEF ReserveCall, answer
    <2>3. key[c] \in Key /\ recs[key[c]] \in Records /\ now \in Nat
      BY <1>1 DEF TypeOK
    <2>4. r.err = "AlreadyExists" => r.existing = recs[key[c]] /\ ~Expired(recs[key[c]], now)
      BY <1>1, <2>1, ClaimEffect
    <2>5. PICK k : k = key[c]
      OBVIOUS
    <2>6. r.err = "AlreadyExists" => r.existing.state # 0 /\ Backed(r.existing, k)
      BY <2>3, <2>4, <2>5, LiveState DEF MiddlewareInv, HttpStoreInv
    <2>7. PICK x : x = r.existing
      OBVIOUS
    <2>8. r.err = "AlreadyExists" => existing'[c].state # 0 /\ Backed(x, k)'
      BY <2>2, <2>6, <2>7, BackedKept
    <2>9. key'[c] = k
      BY <2>5, ArgsKept
    <2>10. Phase(c)'
      BY <1>1, <1>2, <2>2, <2>7, <2>8, <2>9 DEF Phase
    <2>. QED  BY <1>2, <2>2, <2>10, BeginKeepsRest
  <1>7. CASE JudgeLive(c)
    <2>1. PICK x, k : x = existing[c] /\ k = key[c]
      OBVIOUS
    <2>2. /\ pc[c] = "judge" /\ ~Expired(x, now) /\ pc'[c] = "answered"
          /\ \/ /\ x.state = StateReserved /\ outcome'[c].action = "RejectInFlight"
                /\ outcome'[c].retryAfter = x.lease - now
             \/ /\ x.state = StateCompleted /\ x.fp = fp[c]
                /\ outcome'[c].action = "Replay" /\ outcome'[c].payload = x.payload
             \/ outcome'[c].action = "RejectFingerprintMismatch"
      BY <1>1, <1>2, <1>7, <2>1 DEF JudgeLive, answer
    <2>3. x \in Records /\ x.lease \in Nat /\ now \in Nat
      BY <1>1, <2>1, RecordFields DEF TypeOK
    <2>4. outcome'[c].action = "RejectInFlight" => outcome'[c].retryAfter > 0
      BY <2>2, <2>3 DEF Expired, StateReserved, StateCompleted
    <2>5. Backed(x, k)
      BY <1>1, <2>1, <2>2 DEF Local, Phase
    <2>6. Backed(x, k)'
      BY <2>5, BackedKept
    <2>7. UNCHANGED <<key, fp>>
      BY ArgsKept
    <2>8. outcome'[c].action = "Replay" =>
            /\ outcome'[c].payload \in Call /\ (Persisting(outcome[c].payload))'
            /\ key[outcome'[c].payload] = key[c] /\ fp[outcome'[c].payload] = fp[c]
      BY <2>1, <2>2, <2>6, <2>7 DEF Backed, StateCompleted
    <2>9. Phase(c)'
      BY <1>1, <2>2, <2>4 DEF Phase
    <2>. QED  BY <2>8, <2>9, BeginKeepsRest
  <1>. QED  BY <1>3, <1>4, <1>5, <1>6, <1>7 DEF BeginRun, BeginStep

(* The first Finish of the middleware: where it leads, and what it stores. *)
LEMMA FinishSteps ==
  ASSUME MiddlewareInv, NEW c \in Call, FinishRun(c)
  PROVE  /\ stage[c] \in {"returned", "panicked"} /\ pc[c] = "running"
         /\ UNCHANGED <<cw, writes, herr, marked, own, retry, outcome>>
         /\ pc'[c] \in {"finished", "unsettled"} /\ result'[c] # "none"
         /\ stage'[c] \in {"unsettled", "done", "aborted"}
         /\ stage'[c] = "unsettled" <=> pc'[c] = "unsettled"
         /\ stage'[c] = "aborted" <=> stage[c] = "panicked"
         /\ pc'[c] = "unsettled" => decided'[c] = "Persist" /\ result'[c] = "unknown"
         /\ \/ decided'[c] = "Discard" /\ UNCHANGED captured
            \/ /\ decided'[c] = "Persist" /\ decision(c) = "Persist" /\ stage[c] = "returned"
               /\ captured' = [captured EXCEPT ![c] = StoredResponse(cw[c].rec)]
               /\ captured'[c] = StoredResponse(cw[c].rec) /\ captured'[c].status # 0
  <1>1. /\ stage[c] \in {"returned", "panicked"} /\ pc[c] = "running"
        /\ TypeOK /\ DOMAIN stage = Call /\ DOMAIN captured = Call
        /\ UNCHANGED <<cw, writes, herr, marked, own, retry>>
    BY DEF FinishRun, MiddlewareInv, HttpTypeOK
  <1>2. PICK d \in {"Persist", "Discard"} :
           /\ d = IF stage[c] = "panicked" THEN "Discard" ELSE decision(c)
           /\ Finish(c, d) \/ FinishError(c, d)
           /\ captured' = IF d = "Persist"
                          THEN [captured EXCEPT ![c] = StoredResponse(cw[c].rec)]
                          ELSE captured
           /\ stage'[c] = IF pc'[c] = "unsettled" THEN "unsettled" ELSE ended(c)
    BY <1>1, Decisions DEF FinishRun, goto
  <1>3. /\ pc'[c] \in {"finished", "unsettled"} /\ decided'[c] = d /\ result'[c] # "none"
        /\ pc'[c] = "unsettled" => d = "Persist" /\ result'[c] = "unknown"
        /\ UNCHANGED outcome
    <2>1. CASE Finish(c, d)
      BY <1>1, <1>2, <2>1, FinishEffect DEF Finish, TypeOK
    <2>2. CASE FinishError(c, d)
      BY <1>1, <1>2, <2>2, FinishEffect DEF FinishError, TypeOK
    <2>. QED  BY <1>2, <2>1, <2>2
  <1>4. /\ stage'[c] \in {"unsettled", "done", "aborted"}
        /\ stage'[c] = "unsettled" <=> pc'[c] = "unsettled"
        /\ stage'[c] = "aborted" <=> stage[c] = "panicked"
        /\ d = "Persist" => stage[c] = "returned" /\ decision(c) = "Persist"
    BY <1>1, <1>2, <1>3 DEF ended
  <1>5. d = "Persist" => captured'[c] = StoredResponse(cw[c].rec)
    BY <1>1, <1>2
  <1>6. StoredResponse(cw[c].rec).status # 0
    BY DEF StoredResponse, Status, StatusOK
  <1>. QED  BY <1>1, <1>2, <1>3, <1>4, <1>5, <1>6

(* It leaves the request settled, or on the way to a Discard.              *)
LEMMA FinishLocal ==
  ASSUME MiddlewareInv, NEW c \in Call, FinishRun(c)
  PROVE  Local(c)'
  <1>1. /\ stage[c] \in {"returned", "panicked"} /\ pc[c] = "running"
        /\ UNCHANGED <<writes, marked, own, retry, outcome>>
        /\ pc'[c] \in {"finished", "unsettled"} /\ result'[c] # "none"
        /\ stage'[c] \in {"unsettled", "done", "aborted"}
        /\ stage'[c] = "unsettled" <=> pc'[c] = "unsettled"
        /\ pc'[c] = "unsettled" => decided'[c] = "Persist" /\ result'[c] = "unknown"
        /\ decided'[c] = "Persist" => stage'[c] \in {"unsettled", "done"}
        /\ \/ decided'[c] = "Discard" /\ UNCHANGED captured
           \/ captured'[c].status # 0
    BY FinishSteps
  <1>2. Local(c) /\ outcome[c].action = "Proceed" /\ retry[c] = 0 /\ own[c] # "committed"
    BY <1>1, HandlerNow
  <1>3. Phase(c)'
    BY <1>1, <1>2 DEF Phase
  <1>4. Settled(c)'
    BY <1>1, <1>2 DEF Local, Settled, Persisting
  <1>. QED  BY <1>1, <1>3, <1>4 DEF Local, Staged

(* The Discard after a failed Persist, and the death of the process.       *)
LEMMA ReleaseSteps ==
  ASSUME MiddlewareInv, NEW c \in Call, ReleaseUnsettled(c) \/ Die(c)
  PROVE  /\ UNCHANGED <<cw, writes, herr, marked, own, captured, retry, outcome, decided>>
         /\ outcome[c].action = "Proceed" /\ retry[c] = 0
         /\ \/ /\ stage[c] = "unsettled" /\ stage'[c] = "done" /\ pc[c] = "unsettled"
               /\ pc'[c] = "finished" /\ result'[c] # "none"
            \/ /\ stage[c] \in {"handler", "returned", "panicked", "unsettled"}
               /\ stage'[c] = "dead" /\ UNCHANGED result
               /\ \/ pc[c] \in {"running", "unsettled"} /\ pc'[c] = "crashed"
                  \/ pc[c] = "finished" /\ pc'[c] = "finished"
  <1>1. /\ Local(c) /\ TypeOK /\ DOMAIN stage = Call /\ DOMAIN pc = Call /\ DOMAIN result = Call
        /\ UNCHANGED <<cw, writes, herr, marked, own, captured, retry>>
    BY LocalNow DEF MiddlewareInv, HttpTypeOK, TypeOK, ReleaseUnsettled, Die
  <1>2. UNCHANGED <<outcome, decided>>
    BY DEF ReleaseUnsettled, FinishAgain, Die, Crash, ending, coreVars, vars
  <1>3. CASE ReleaseUnsettled(c)
    <2>1. /\ stage[c] = "unsettled" /\ stage'[c] = "done" /\ pc[c] = "unsettled"
          /\ pc'[c] = "finished"
      BY <1>1, <1>3 DEF ReleaseUnsettled, FinishAgain, goto
    <2>2. result[c] = "unknown" /\ outcome[c].action = "Proceed" /\ retry[c] = 0
      BY <1>1, <2>1 DEF Local, Settled, Phase
    <2>3. result'[c] # "none"
      BY <1>1, <1>3, <2>2 DEF ReleaseUnsettled, FinishAgain
    <2>. QED  BY <1>1, <1>2, <2>1, <2>2, <2>3
  <1>4. CASE Die(c)
    <2>1. /\ stage[c] \in {"handler", "returned", "panicked", "unsettled"}
          /\ stage'[c] = "dead" /\ UNCHANGED result
          /\ \/ pc[c] \in {"running", "unsettled"} /\ pc'[c] = "crashed"
             \/ pc[c] = "finished" /\ pc'[c] = "finished"
      BY <1>1, <1>4 DEF Die, Crash, goto, ending, coreVars, vars
    <2>2. outcome[c].action = "Proceed" /\ retry[c] = 0
      BY <1>1, <2>1 DEF Local, Settled, Phase
    <2>. QED  BY <1>1, <1>2, <2>1, <2>2
  <1>. QED  BY <1>3, <1>4

(* Either way the request is over.                                         *)
LEMMA ReleaseLocal ==
  ASSUME MiddlewareInv, NEW c \in Call, ReleaseUnsettled(c) \/ Die(c)
  PROVE  Local(c)'
  <1>1. Local(c)
    BY LocalNow
  <1>2. Phase(c)'
    BY <1>1, ReleaseSteps DEF Local, Phase
  <1>3. Settled(c)'
    BY <1>1, ReleaseSteps DEF Local, Settled, Staged, Persisting
  <1>. QED  BY <1>1, <1>2, <1>3, ReleaseSteps DEF Local, Staged

(* The handler's own completion: it had written nothing.                   *)
LEMMA OwnSteps ==
  ASSUME MiddlewareInv, NEW c \in Call, Join(c)
  PROVE  /\ stage[c] = "handler" /\ writes[c] = 0 /\ own[c] = "none"
         /\ outcome[c].action = "Proceed" /\ retry[c] = 0 /\ pc[c] = "running"
         /\ decided[c] = "none" /\ result[c] = "none" /\ ~marked[c]
         /\ captured' = [captured EXCEPT ![c] = ownResponse]
         /\ captured'[c] = ownResponse /\ writes'[c] = MaxWrites
         /\ UNCHANGED <<stage, herr, retry, outcome, existing>>
         /\ \/ /\ pc'[c] = "finished" /\ decided'[c] = "Persist"
               /\ result'[c] = "persisted" /\ own'[c] = "committed"
            \/ own'[c] \in {"lost", "failed"} /\ UNCHANGED <<pc, decided, result, marked>>
  <1>1. /\ TypeOK /\ stage[c] = "handler" /\ writes[c] = 0 /\ own[c] = "none"
        /\ DOMAIN captured = Call /\ DOMAIN writes = Call /\ DOMAIN own = Call
        /\ captured' = [captured EXCEPT ![c] = ownResponse]
        /\ writes' = [writes EXCEPT ![c] = MaxWrites] /\ UNCHANGED <<stage, herr, retry>>
    BY DEF Join, MiddlewareInv, HttpTypeOK
  <1>2. /\ Local(c) /\ outcome[c].action = "Proceed" /\ retry[c] = 0 /\ pc[c] = "running"
        /\ decided[c] = "none" /\ result[c] = "none"
    BY <1>1, HandlerNow
  <1>3. ~marked[c]
    BY <1>1, <1>2 DEF Local, Settled
  <1>4. captured'[c] = ownResponse /\ writes'[c] = MaxWrites /\ UNCHANGED <<outcome, existing>>
    BY <1>1, JoinEffect
  <1>5. \/ /\ pc'[c] = "finished" /\ decided'[c] = "Persist"
           /\ result'[c] = "persisted" /\ own'[c] = "committed"
        \/ own'[c] \in {"lost", "failed"} /\ UNCHANGED <<pc, decided, result, marked>>
    BY <1>1, JoinEffect
  <1>. QED  BY <1>1, <1>2, <1>3, <1>4, <1>5

(* It leaves the request with its handler, settled or not.                 *)
LEMMA OwnLocal ==
  ASSUME MiddlewareInv, NEW c \in Call, Join(c)
  PROVE  Local(c)'
  <1>1. /\ stage[c] = "handler" /\ outcome[c].action = "Proceed" /\ retry[c] = 0
        /\ pc[c] = "running" /\ decided[c] = "none" /\ result[c] = "none" /\ ~marked[c]
        /\ captured'[c] = ownResponse /\ writes'[c] = MaxWrites
        /\ UNCHANGED <<stage, herr, retry, outcome, existing>>
        /\ \/ /\ pc'[c] = "finished" /\ decided'[c] = "Persist"
              /\ result'[c] = "persisted" /\ own'[c] = "committed"
           \/ own'[c] \in {"lost", "failed"} /\ UNCHANGED <<pc, decided, result, marked>>
    BY OwnSteps
  <1>2. Phase(c)'
    BY <1>1 DEF Phase
  <1>4. captured'[c].status # 0
    BY <1>1 DEF ownResponse
  <1>3. Settled(c)'
    <2>1. CASE own'[c] = "committed" /\ pc'[c] = "finished"
      BY <1>1, <1>4, <2>1 DEF Settled
    <2>2. CASE own'[c] \in {"lost", "failed"} /\ UNCHANGED <<pc, decided, result, marked>>
      BY <1>1, <1>4, <2>2 DEF Settled
    <2>. QED  BY <1>1, <2>1, <2>2
  <1>. QED  BY <1>1, <1>2, <1>3 DEF Local, Staged

(* Every step of a request keeps what holds of it.                         *)
LEMMA OwnStep ==
  ASSUME MiddlewareInv, [AnyNext]_allVars, NEW c \in Call, Moves(c)
  PROVE  Local(c)'
  <1>1. CASE Serve(c)
    BY <1>1, EarlyLocal, HandlerLocal, SkipLocal, BeginLocal, FinishLocal,
       ReleaseLocal, OwnLocal DEF Serve, Settle, Noisy, Early, CompleteItself
  <1>2. CASE GinServe(c)
    BY <1>2, EarlyLocal, HandlerLocal, SkipLocal, BeginLocal, FinishLocal,
       ReleaseLocal, OwnLocal DEF GinServe, Settle, Noisy, Early, GinCompleteItself
  <1>. QED  BY <1>1, <1>2, ReleaseLocal DEF Moves

(* What a request that returned has captured, the Store can hold.          *)
Recorded(c) == stage[c] = "returned" => StoredResponse(cw[c].rec) \in Responses

(* What is handed to the Store has the shape of a response.                *)
LEMMA CapturedTyped ==
  ASSUME MiddlewareInv, NEW c \in Call, Moves(c), Recorded(c)
  PROVE  captured' \in [Call -> Responses]
  <1>1. captured \in [Call -> Responses]
    BY DEF MiddlewareInv, HttpTypeOK
  <1>2. CASE Quiet(c) \/ Noisy(c) \/ BeginRun(c) \/ ReleaseUnsettled(c) \/ Die(c)
    <2>1. UNCHANGED captured
      BY <1>2, QuietFrame, SkipSteps DEF BeginRun, ReleaseUnsettled, Die
    <2>. QED  BY <1>1, <2>1
  <1>3. CASE FinishRun(c)
    <2>1. PICK sr : sr = StoredResponse(cw[c].rec)
      OBVIOUS
    <2>2. \/ UNCHANGED captured
          \/ sr \in Responses /\ captured' = [captured EXCEPT ![c] = sr]
      BY <1>3, <2>1, FinishSteps DEF Recorded
    <2>. QED  BY <1>1, <2>2
  <1>4. CASE Join(c)
    BY <1>1, <1>4, OwnSteps, ResponseTypes
  <1>. QED  BY <1>2, <1>3, <1>4, StepKinds DEF Driving

(* Every step of every request, of the environment and of the clock keeps  *)
(* what the two middlewares share.                                         *)
LEMMA MiddlewareStep ==
  ASSUME MiddlewareInv, [AnyNext]_allVars, \A c \in Call : Recorded(c)
  PROVE  MiddlewareInv'
  <1>1. TypeOK' /\ HttpStoreInv'
    BY HttpCoreType, StoreStep DEF MiddlewareInv, HttpTypeOK
  <1>2. /\ stage' \in [Call -> Stages] /\ writes' \in [Call -> 0 .. MaxWrites]
        /\ herr' \in [Call -> ErrorKinds] /\ marked' \in [Call -> BOOLEAN]
        /\ own' \in [Call -> {"none", "committed", "lost", "failed"}]
        /\ captured' \in [Call -> Responses] /\ retry' \in [Call -> Nat]
        /\ DOMAIN cw' = Call
    <2>1. CASE \E c \in Call : Moves(c)
      BY <2>1, HttpFrame, CapturedTyped
    <2>2. CASE Background \/ UNCHANGED allVars
      BY <2>2, BackgroundFrame DEF httpVars, MiddlewareInv, HttpTypeOK
    <2>. QED  BY <2>1, <2>2 DEF AnyNext
  <1>3. ASSUME NEW e \in Call,
               /\ pc'[e] = pc[e] /\ outcome'[e] = outcome[e] /\ existing'[e] = existing[e]
               /\ decided'[e] = decided[e] /\ result'[e] = result[e],
               /\ stage'[e] = stage[e] /\ writes'[e] = writes[e]
               /\ marked'[e] = marked[e] /\ own'[e] = own[e]
               /\ captured'[e] = captured[e] /\ retry'[e] = retry[e]
        PROVE  Local(e)'
    <2>1. Staged(e)
      BY LocalNow DEF Local
    <2>. QED  BY <1>3, <2>1, OthersKept DEF Local, Staged
  <1>4. \A e \in Call : Local(e)'
    <2>1. CASE \E c \in Call : Moves(c)
      <3>1. PICK c \in Call : Moves(c)
        BY <2>1
      <3>2. Local(c)'
        BY <3>1, OwnStep
      <3>3. ASSUME NEW e \in Call \ {c} PROVE Local(e)'
        BY <1>3, <3>1, HttpFrame
      <3>. QED  BY <3>2, <3>3
    <2>2. CASE Background \/ UNCHANGED allVars
      BY <1>3, <2>2, BackgroundFrame DEF httpVars
    <2>. QED  BY <2>1, <2>2 DEF AnyNext
  <1>5. HttpTypeOK'
    BY <1>1, <1>2, <1>4 DEF HttpTypeOK, Local, Staged
  <1>. QED  BY <1>1, <1>2, <1>4, <1>5 DEF MiddlewareInv, Local

-----------------------------------------------------------------------------
(* What a step means for a capture, whichever writer it is *)

(* A request that proceeded is not answered from the Store.                *)
LEMMA NoReplay == \A c : outcome[c].action = "Proceed" \/ stage[c] # "done" => ~Replayed(c)
  BY DEF Replayed

(* A request that is refused or passed on has no capture to account for.   *)
LEMMA EarlyKeeps ==
  ASSUME MiddlewareInv, NEW c \in Call, Early(c)
  PROVE  /\ UNCHANGED <<outcome, captured, own>> /\ outcome[c].action # "Proceed"
         /\ stage'[c] \in {"done", "direct", "begin"}
         /\ Judged(c)' /\ ~Delivered(c)'
         /\ Untouched(c)' => Untouched(c) /\ cw'[c] = cw[c]
         /\ Replayed(c)' => pc[c] = "answered" /\ outcome[c].action = "Replay"
                            /\ ~oversized(captured[outcome[c].payload])
  <1>1. /\ Quiet(c) /\ pc[c] \in {"begin", "failed", "answered"}
        /\ stage[c] \in {"arrived", "begin", "direct"}
        /\ stage'[c] \in {"done", "direct", "begin"}
        /\ stage'[c] = "begin" => UNCHANGED cw /\ stage[c] = "arrived"
        /\ retry'[c] = 0 \/ cw'[c].wire.status = 409
    BY EarlySteps
  <1>2. UNCHANGED <<outcome, decided, own, captured>>
    BY <1>1, QuietFrame
  <1>3. Local(c) /\ outcome[c].action # "Proceed" /\ decided[c] = "none" /\ own[c] = "none"
    BY <1>1, NotProceeded
  <1>4. Judged(c)' /\ ~Delivered(c)'
    BY <1>1, <1>2, <1>3 DEF Judged, Delivered
  <1>5. Untouched(c)' => Untouched(c) /\ cw'[c] = cw[c]
    BY <1>1, <1>3 DEF Untouched
  <1>6. Replayed(c)' => outcome[c].action = "Replay" /\ ~oversized(captured[outcome[c].payload])
    BY <1>2 DEF Replayed, oversized, payloadBytes
  <1>7. outcome[c].action = "Replay" => pc[c] = "answered"
    BY <1>3 DEF Local, Phase
  <1>. QED  BY <1>1, <1>2, <1>3, <1>4, <1>5, <1>6, <1>7

(* Begin leaves the capture alone.                                         *)
LEMMA BeginKeeps ==
  ASSUME MiddlewareInv, NEW c \in Call, BeginRun(c)
  PROVE  /\ UNCHANGED cw /\ Untouched(c) /\ stage'[c] \in {"begin", "handler"}
         /\ Judged(c)' /\ ~Delivered(c)' /\ ~Replayed(c)'
  <1>1. /\ TypeOK /\ DOMAIN stage = Call /\ stage[c] = "begin"
        /\ UNCHANGED <<cw, retry, own, herr>> /\ stage'[c] \in {"begin", "handler"}
    BY DEF MiddlewareInv, HttpTypeOK, BeginRun, goto
  <1>2. pc[c] \in {"begin", "reserve", "judge", "answered", "failed"} /\ retry[c] = 0
    BY <1>1, LocalNow, NoRetryYet DEF Local, Phase
  <1>3. decided[c] = "none"
    BY <1>2, NotProceeded
  <1>4. UNCHANGED decided
    BY <1>1, BeginEffect, LocalNow DEF BeginRun, Local, Phase
  <1>. QED
    BY <1>1, <1>2, <1>3, <1>4 DEF Untouched, Judged, Delivered, Replayed

(* A call of the handler.                                                  *)
LEMMA HandlerKeeps ==
  ASSUME MiddlewareInv, NEW c \in Call,
         \/ HandlerWrite(c) \/ GinHandlerWrite(c)
         \/ \E err \in Errors : SetError(c, err)
  PROVE  /\ stage[c] = "handler" /\ stage'[c] = "handler"
         /\ outcome[c].action = "Proceed" /\ outcome'[c].action = "Proceed"
         /\ ~Untouched(c)' /\ Judged(c)' /\ ~Delivered(c)' /\ ~Replayed(c)'
  <1>1. /\ Quiet(c) /\ stage[c] = "handler" /\ own[c] = "none" /\ decided[c] = "none"
        /\ outcome[c].action = "Proceed" /\ writes'[c] # 0 /\ UNCHANGED <<stage, retry>>
    BY HandlerSteps
  <1>2. UNCHANGED <<outcome, decided, own>> /\ retry[c] = 0
    BY <1>1, QuietFrame, NoRetryYet
  <1>. QED  BY <1>1, <1>2 DEF Untouched, Judged, Delivered, Replayed

(* The handler's own completion.                                           *)
LEMMA JoinKeeps ==
  ASSUME MiddlewareInv, NEW c \in Call, Join(c)
  PROVE  /\ stage[c] = "handler" /\ stage'[c] = "handler" /\ Untouched(c)
         /\ outcome[c].action = "Proceed" /\ outcome'[c].action = "Proceed"
         /\ own'[c] \in {"committed", "lost", "failed"}
         /\ Untouched(c)' => own'[c] = "committed"
         /\ Judged(c)' /\ ~Delivered(c)' /\ ~Replayed(c)'
  <1>1. /\ stage[c] = "handler" /\ writes[c] = 0 /\ own[c] = "none"
        /\ outcome[c].action = "Proceed" /\ retry[c] = 0 /\ decided[c] = "none"
        /\ UNCHANGED <<stage, retry, outcome>>
        /\ own'[c] = "committed" \/ (own'[c] \in {"lost", "failed"} /\ UNCHANGED decided)
    BY OwnSteps
  <1>. QED  BY <1>1 DEF Untouched, Judged, Delivered, Replayed

(* The handler returns.                                                    *)
LEMMA ReturnKeeps ==
  ASSUME MiddlewareInv, NEW c \in Call, Return(c) \/ GinReturn(c)
  PROVE  /\ stage[c] = "handler" /\ stage'[c] = "returned" /\ UNCHANGED <<own, captured>>
         /\ outcome[c].action = "Proceed" /\ outcome'[c].action = "Proceed"
         /\ own[c] = "committed" => Untouched(c) /\ captured[c] = ownResponse
         /\ ~Untouched(c)' /\ Judged(c)' /\ ~Replayed(c)'
         /\ Delivered(c)' => own[c] = "committed"
  <1>1. /\ Quiet(c) /\ stage[c] = "handler" /\ stage'[c] = "returned" /\ UNCHANGED retry
    BY DEF Return, GinReturn, Quiet, MiddlewareInv, HttpTypeOK, goto
  <1>2. UNCHANGED <<outcome, decided, own, captured>>
    BY <1>1, QuietFrame
  <1>3. /\ outcome[c].action = "Proceed" /\ retry[c] = 0
        /\ \/ own[c] # "committed" /\ decided[c] = "none"
           \/ own[c] = "committed" /\ decided[c] = "Persist" /\ captured[c] = ownResponse
    BY <1>1, HandlerNow
  <1>. QED  BY <1>1, <1>2, <1>3 DEF Untouched, Judged, Delivered, Replayed

(* The handler panics.                                                     *)
LEMMA PanicKeeps ==
  ASSUME MiddlewareInv, NEW c \in Call, Panic(c)
  PROVE  /\ stage[c] = "handler" /\ stage'[c] = "panicked" /\ UNCHANGED cw
         /\ outcome[c].action = "Proceed" /\ outcome'[c].action = "Proceed"
         /\ ~Untouched(c)' /\ Judged(c)' /\ ~Replayed(c)' /\ ~Delivered(c)'
  <1>1. /\ Quiet(c) /\ stage[c] = "handler" /\ stage'[c] = "panicked"
        /\ UNCHANGED <<cw, retry>>
    BY DEF Panic, Quiet, MiddlewareInv, HttpTypeOK, goto
  <1>2. UNCHANGED <<outcome, decided, own, captured>>
    BY <1>1, QuietFrame
  <1>3. /\ outcome[c].action = "Proceed" /\ retry[c] = 0
        /\ own[c] = "committed" \/ decided[c] = "none"
    BY <1>1, HandlerNow
  <1>. QED  BY <1>1, <1>2, <1>3 DEF Untouched, Judged, Delivered, Replayed

(* A policy that persists has seen no transient failure.                   *)
LEMMA PersistJudged ==
  ASSUME MiddlewareInv, NEW c \in Call, decision(c) = "Persist"
  PROVE  Storable(cw[c].rec) /\ ~Transient(c)
  <1>1. /\ Decide(Status(cw[c].rec), herr[c]) = "Persist" /\ Storable(cw[c].rec)
        /\ herr[c] \in ErrorKinds
    BY DEF decision, MiddlewareInv, HttpTypeOK
  <1>. QED
    BY <1>1 DEF Decide, Transient, errtrailDecide, defaultDecide, ErrorKinds

(* What the middleware does after the handler leaves the capture alone;    *)
(* what it stores anew is the capture of a handler that returned.          *)
LEMMA AfterKeeps ==
  ASSUME MiddlewareInv, NEW c \in Call, Settle(c) \/ Die(c), Judged(c)
  PROVE  /\ UNCHANGED cw
         /\ outcome[c].action = "Proceed" /\ outcome'[c].action = "Proceed"
         /\ stage[c] \in {"handler", "returned", "panicked", "unsettled"}
         /\ stage'[c] \in {"unsettled", "done", "aborted", "dead"}
         /\ stage'[c] \in {"unsettled", "done"} => stage[c] \in {"returned", "unsettled"}
         /\ ~Untouched(c)' /\ Judged(c)' /\ ~Replayed(c)'
         /\ Delivered(c)' =>
               \/ Delivered(c) /\ captured'[c] = captured[c]
               \/ /\ stage[c] = "returned" /\ Storable(cw[c].rec)
                  /\ captured'[c] = StoredResponse(cw[c].rec)
  <1>1. CASE SkipFinish(c) \/ Noisy(c)
    <2>1. /\ stage[c] \in {"returned", "panicked", "unsettled"} /\ own[c] = "committed"
          /\ stage'[c] \in {"unsettled", "done", "aborted"}
          /\ stage'[c] \in {"unsettled", "done"} => stage[c] \in {"returned", "unsettled"}
          /\ UNCHANGED <<outcome, decided, cw, herr, own, captured, retry>>
      BY <1>1, SkipSteps
    <2>2. outcome[c].action = "Proceed" /\ retry[c] = 0
      BY <2>1, CommittedNow
    <2>. QED  BY <2>1, <2>2 DEF Untouched, Judged, Delivered, Replayed
  <1>2. CASE FinishRun(c)
    <2>1. /\ stage[c] \in {"returned", "panicked"}
          /\ UNCHANGED <<cw, herr, own, retry, outcome>>
          /\ stage'[c] \in {"unsettled", "done", "aborted"}
          /\ stage'[c] = "aborted" <=> stage[c] = "panicked"
          /\ \/ decided'[c] = "Discard"
             \/ /\ decided'[c] = "Persist" /\ decision(c) = "Persist" /\ stage[c] = "returned"
                /\ captured'[c] = StoredResponse(cw[c].rec)
      BY <1>2, FinishSteps
    <2>2. outcome[c].action = "Proceed" /\ retry[c] = 0
      BY <2>1, HandlerNow
    <2>3. decided'[c] = "Persist" => Storable(cw[c].rec) /\ ~Transient(c)
      BY <2>1, PersistJudged
    <2>4. Judged(c)'
      BY <2>1, <2>2, <2>3 DEF Judged, Transient
    <2>. QED  BY <2>1, <2>2, <2>3, <2>4 DEF Untouched, Delivered, Replayed
  <1>3. CASE ReleaseUnsettled(c) \/ Die(c)
    <2>1. /\ UNCHANGED <<cw, herr, own, captured, retry, outcome, decided>>
          /\ outcome[c].action = "Proceed" /\ retry[c] = 0
          /\ stage[c] \in {"handler", "returned", "panicked", "unsettled"}
          /\ stage'[c] = "dead" \/ (stage[c] = "unsettled" /\ stage'[c] = "done")
      BY <1>3, ReleaseSteps
    <2>2. Judged(c)'
      BY <2>1 DEF Judged, Transient
    <2>. QED  BY <2>1, <2>2 DEF Untouched, Delivered, Replayed
  <1>. QED  BY <1>1, <1>2, <1>3 DEF Settle, Noisy

(* What a request was answered from the Store with stays what the Store    *)
(* was given.                                                              *)
LEMMA ReplayKept ==
  ASSUME MiddlewareInv, [AnyNext]_allVars, NEW e \in Call,
         outcome'[e] = outcome[e], stage'[e] = stage[e],
         NEW p, p = outcome[e].payload, Replayed(e)', own'[p] # "failed"
  PROVE  Replayed(e) /\ own[p] # "failed" /\ captured'[p] = captured[p]
  <1>1. outcome[e].action = "Replay" /\ stage[e] = "done"
    BY DEF Replayed
  <1>2. p \in Call /\ Persisting(p)
    BY <1>1, LocalNow DEF Local, Settled
  <1>3. own'[p] = own[p] /\ captured'[p] = captured[p]
    BY <1>2, DecisionKept
  <1>. QED  BY <1>1, <1>3 DEF Replayed, oversized, payloadBytes

(* The capture of a request that does not take part in a step.             *)
LEMMA CapturesKept ==
  ASSUME MiddlewareInv, [AnyNext]_allVars, NEW e \in Call,
         outcome'[e] = outcome[e], decided'[e] = decided[e],
         /\ stage'[e] = stage[e] /\ cw'[e] = cw[e] /\ writes'[e] = writes[e]
         /\ herr'[e] = herr[e] /\ own'[e] = own[e]
         /\ captured'[e] = captured[e] /\ retry'[e] = retry[e]
  PROVE  /\ Captured(e) => Captured(e)'
         /\ GinCaptured(e) => GinCaptured(e)'
  <1>1. PICK p : p = outcome[e].payload
    OBVIOUS
  <1>2. Replayed(e)' /\ own'[p] # "failed"
           => Replayed(e) /\ own[p] # "failed" /\ captured'[p] = captured[p]
    BY <1>1, ReplayKept
  <1>3. Untouched(e)' = Untouched(e) /\ Delivered(e)' = Delivered(e)
    BY DEF Untouched, Delivered
  <1>4. Judged(e) => Judged(e)'
    BY DEF Judged, Transient
  <1>5. Captured(e) => Captured(e)'
    BY <1>1, <1>2, <1>3, <1>4 DEF Captured
  <1>6. GinCaptured(e) => GinCaptured(e)'
    BY <1>1, <1>2, <1>3, <1>4 DEF GinCaptured
  <1>. QED  BY <1>5, <1>6

-----------------------------------------------------------------------------
(* Captures of net/http *)

(* A refusal or the replay of a stored response.                           *)
LEMMA EarlyCaptured ==
  ASSUME MiddlewareInv, NEW c \in Call, Captured(c),
         Receive(c) \/ Refuse(c) \/ RunDirect(c) \/ writeReplay(c)
  PROVE  Captured(c)'
  <1>1. /\ UNCHANGED <<outcome, captured, own>> /\ outcome[c].action # "Proceed"
        /\ stage'[c] \in {"done", "direct", "begin"}
        /\ Judged(c)' /\ ~Delivered(c)'
        /\ Untouched(c)' => Untouched(c) /\ cw'[c] = cw[c]
        /\ Replayed(c)' => pc[c] = "answered" /\ outcome[c].action = "Replay"
                           /\ ~oversized(captured[outcome[c].payload])
    BY EarlyKeeps DEF Early
  <1>2. Replayed(c)' => writeReplay(c)
    <2>1. Receive(c) \/ StoreUnavailable(c) \/ RunDirect(c) => pc[c] # "answered"
      BY LocalNow DEF Receive, PassThrough, RefuseRequest, Guard,
         StoreUnavailable, RunDirect, Local, Staged, Phase
    <2>2. RejectInFlight(c) \/ RejectFingerprintMismatch(c) => outcome[c].action # "Replay"
      BY DEF RejectInFlight, RejectFingerprintMismatch
    <2>. QED  BY <1>1, <2>1, <2>2 DEF Refuse
  <1>3. PICK x : x = WriteStored(captured[outcome[c].payload], {})
    OBVIOUS
  <1>4. Replayed(c)' => cw'[c].wire = x
    <2>1. SUFFICES ASSUME Replayed(c)' PROVE cw'[c].wire = x
      OBVIOUS
    <2>2. stage[c] = "begin" /\ cw' = [cw EXCEPT ![c].wire = x] /\ DOMAIN cw = Call
      BY <1>1, <1>2, <1>3, <2>1 DEF writeReplay, send, MiddlewareInv
    <2>3. cw[c] = NewCapture
      BY <2>2 DEF Captured, Untouched
    <2>. QED  BY <2>2, <2>3 DEF NewCapture
  <1>. QED  BY <1>1, <1>3, <1>4 DEF Captured

(* A call of the handler leaves its capture in order.                      *)
LEMMA HandlerGood ==
  ASSUME MiddlewareInv, NEW c \in Call, Good(cw[c]), HandlerWrite(c)
  PROVE  Good(cw'[c])
  <1>1. PICK v : /\ HandlerCall(c, v)
                 /\ \/ \E h \in Header : v = SetHeader(cw[c], h)
                    \/ \E code \in Statuses : v = WriteHeader(cw[c], code)
                    \/ v = Write(cw[c], 1) \/ v = Flush(cw[c], "nil")
                    \/ v = Hijack(cw[c], "nil")
    BY DEF HandlerWrite
  <1>2. cw'[c] = v
    BY <1>1 DEF HandlerCall, MiddlewareInv
  <1>3. PICK u : u = cw[c]
    OBVIOUS
  <1>4. Good(u) /\ u.header \in SUBSET Header
    BY <1>3, Parts DEF Good
  <1>5. \A h \in Header : Good(SetHeader(u, h))
    BY <1>4, HeaderGood DEF SetHeader
  <1>6. \A code \in Statuses : Good(WriteHeader(u, code))
    BY <1>4, WriteHeaderGood
  <1>7. Good(Write(u, 1)) /\ Good(Flush(u, "nil")) /\ Good(Hijack(u, "nil"))
    BY <1>4, WriteGood, FlushGood, HijackGood
  <1>. QED  BY <1>1, <1>2, <1>3, <1>5, <1>6, <1>7

(* So does an error the handler reports.                                   *)
LEMMA HandlerCaptured ==
  ASSUME MiddlewareInv, NEW c \in Call, Captured(c),
         HandlerWrite(c) \/ \E err \in Errors : SetError(c, err)
  PROVE  Captured(c)'
  <1>1. /\ stage'[c] = "handler" /\ outcome[c].action = "Proceed"
        /\ ~Untouched(c)' /\ Judged(c)' /\ ~Delivered(c)' /\ ~Replayed(c)'
    BY HandlerKeeps
  <1>2. Good(cw[c])
    BY <1>1 DEF Captured
  <1>3. Good(cw'[c])
    <2>1. CASE \E err \in Errors : SetError(c, err)
      BY <1>2, <2>1 DEF SetError
    <2>. QED  BY <1>2, <2>1, HandlerGood
  <1>. QED  BY <1>1, <1>3 DEF Captured

(* The handler's own completion, and the status it answers if that fails.  *)
LEMMA OwnCaptured ==
  ASSUME MiddlewareInv, NEW c \in Call, Captured(c), CompleteItself(c)
  PROVE  Captured(c)'
  <1>1. /\ Join(c) /\ DOMAIN cw = Call
        /\ cw' = [cw EXCEPT ![c] = CASE own'[c] = "lost" -> WriteHeader(@, 409)
                                     [] own'[c] = "failed" -> WriteHeader(@, 500)
                                     [] OTHER -> @]
    BY DEF CompleteItself, MiddlewareInv
  <1>2. /\ stage'[c] = "handler" /\ Untouched(c)
        /\ own'[c] \in {"committed", "lost", "failed"}
        /\ Untouched(c)' => own'[c] = "committed"
        /\ Judged(c)' /\ ~Delivered(c)' /\ ~Replayed(c)'
    BY <1>1, JoinKeeps
  <1>3. cw[c] = NewCapture
    BY <1>2 DEF Captured
  <1>4. Good(WriteHeader(NewCapture, 409)) /\ Good(WriteHeader(NewCapture, 500))
    BY NewGood, WriteHeaderGood
  <1>5. cw'[c] = CASE own'[c] = "lost" -> WriteHeader(NewCapture, 409)
                   [] own'[c] = "failed" -> WriteHeader(NewCapture, 500)
                   [] OTHER -> NewCapture
    BY <1>1, <1>3
  <1>6. own'[c] = "lost" => cw'[c] = WriteHeader(NewCapture, 409)
    BY <1>5
  <1>7. own'[c] = "failed" => cw'[c] = WriteHeader(NewCapture, 500)
    BY <1>5
  <1>8. own'[c] = "committed" => cw'[c] = NewCapture
    BY <1>5
  <1>9. Good(cw'[c])
    BY <1>2, <1>4, <1>6, <1>7, <1>8, NewGood
  <1>. QED  BY <1>2, <1>8, <1>9 DEF Captured

(* A handler that stored its response on its own sends what it stored.     *)
LEMMA OwnWrites ==
  ASSUME NEW u, u = capture(NewCapture.rec, NewCapture.wrote, allow, NewCapture.wire),
         NEW w, w = WriteHeader(u, 201),
         NEW v, v = Write(w, MaxResponseBody)
  PROVE  Good(v) /\ SameResponse(ownResponse, Finalize(v).wire)
  <1>. USE MaxResponseBodyAssumption
  <1>1. PICK x : x = [status |-> 201, header |-> allow, body |-> 0,
                      hijacked |-> NewWire.hijacked]
    BY ZenonT(30)
  <1>2. PICK y : y = [status |-> 201, header |-> allow, body |-> MaxResponseBody,
                      hijacked |-> NewWire.hijacked]
    BY ZenonT(30)
  <1>3. 201 \notin Informational /\ 201 \notin Bodyless /\ 201 \in 200 .. 999 /\ 201 >= 200
    BY DEF Informational, Bodyless
  <1>4. Good(u) /\ u.wire = NewWire /\ u.header = allow
    <2>1. allow \in SUBSET Header
      BY HeaderAssumption DEF allow
    <2>2. NewCapture.wire = NewWire
      BY DEF NewCapture
    <2>. QED  BY <2>1, <2>2, NewGood, HeaderGood DEF capture
  <1>5. Good(w) /\ w.wrote
    BY <1>3, <1>4, WriteHeaderGood
  <1>6. Good(v)
    BY <1>5, WriteGood
  <1>7. wireHeader(NewWire, 201, allow) = x
    BY <1>1, <1>3 DEF wireHeader, NewWire
  <1>8. /\ x.status = 201 /\ x.header = allow /\ x.body = 0 /\ ~x.hijacked
        /\ x.hijacked = NewWire.hijacked
    BY <1>1 DEF NewWire
  <1>9. y.status = 201 /\ y.header = allow /\ y.body = MaxResponseBody
    BY <1>2
  <1>10. wireHeader(x, StatusOK, allow) = x
    BY <1>8 DEF wireHeader
  <1>11. wireWrite(x, MaxResponseBody, allow) = y
    <2>1. 0 + MaxResponseBody = MaxResponseBody
      OBVIOUS
    <2>2. wireWrite(x, MaxResponseBody, allow)
            = [status |-> x.status, header |-> x.header, body |-> x.body + MaxResponseBody,
               hijacked |-> x.hijacked]
      BY <1>3, <1>8, <1>10 DEF wireWrite
    <2>. QED  BY <1>2, <1>8, <2>1, <2>2
  <1>12. w.wire = x /\ w.header = allow
    BY <1>4, <1>7 DEF WriteHeader, capture
  <1>13. v.wire = y
    BY <1>5, <1>11, <1>12 DEF Write, capture
  <1>14. Finalize(v).wire = y
    BY <1>9, <1>13 DEF Finalize, capture, wireHeader
  <1>15. WriteStored(ownResponse, {}) = y
    <2>1. {} \cup allow = allow
      OBVIOUS
    <2>2. /\ ownResponse.status = 201 /\ ownResponse.header = allow
          /\ ownResponse.body = MaxResponseBody
      BY DEF ownResponse
    <2>. QED  BY <1>7, <1>11, <2>1, <2>2 DEF WriteStored
  <1>16. allow \cap allow = allow
    OBVIOUS
  <1>. QED  BY <1>6, <1>9, <1>14, <1>15, <1>16 DEF SameResponse

(* The handler returns: what it did not send, Finalize sends.              *)
LEMMA ReturnCaptured ==
  ASSUME MiddlewareInv, NEW c \in Call, Captured(c), Return(c)
  PROVE  Captured(c)'
  <1>1. /\ stage'[c] = "returned" /\ UNCHANGED <<own, captured>>
        /\ outcome[c].action = "Proceed"
        /\ own[c] = "committed" => Untouched(c) /\ captured[c] = ownResponse
        /\ ~Untouched(c)' /\ Judged(c)' /\ ~Replayed(c)'
        /\ Delivered(c)' => own[c] = "committed"
    BY ReturnKeeps
  <1>2. PICK u : u = lastWrites(c)
    OBVIOUS
  <1>3. cw'[c] = Finalize(u)
    BY <1>2 DEF Return, MiddlewareInv
  <1>4. Good(cw[c]) /\ (own[c] # "committed" => u = cw[c])
    BY <1>1, <1>2 DEF lastWrites, Captured
  <1>5. own[c] = "committed" => Good(u) /\ SameResponse(ownResponse, Finalize(u).wire)
    <2>1. own[c] = "committed" => cw[c] = NewCapture
      BY <1>1 DEF Captured
    <2>2. ownResponse.status = 201 /\ ownResponse.body = MaxResponseBody
      BY DEF ownResponse
    <2>. QED  BY <1>2, <2>1, <2>2, OwnWrites DEF lastWrites
  <1>6. Good(Finalize(u)) /\ Finalize(u).wrote
    BY <1>4, <1>5, FinalizeGood
  <1>. QED  BY <1>1, <1>3, <1>5, <1>6 DEF Captured

(* After the handler: what is stored is what the client has.               *)
LEMMA AfterCaptured ==
  ASSUME MiddlewareInv, NEW c \in Call, Captured(c), Settle(c) \/ Die(c)
  PROVE  Captured(c)'
  <1>1. Judged(c)
    BY DEF Captured
  <1>2. /\ UNCHANGED cw /\ outcome[c].action = "Proceed"
        /\ stage'[c] \in {"unsettled", "done", "aborted", "dead"}
        /\ ~Untouched(c)' /\ Judged(c)' /\ ~Replayed(c)'
        /\ Delivered(c)' =>
              \/ Delivered(c) /\ captured'[c] = captured[c]
              \/ /\ stage[c] = "returned" /\ Storable(cw[c].rec)
                 /\ captured'[c] = StoredResponse(cw[c].rec)
    BY <1>1, AfterKeeps
  <1>3. PICK v : v = cw[c] /\ v = cw'[c]
    BY <1>2
  <1>4. Good(v) /\ (stage[c] = "returned" => v.wrote)
    BY <1>2, <1>3 DEF Captured
  <1>5. stage[c] = "returned" /\ Storable(v.rec)
           => SameResponse(StoredResponse(v.rec), v.wire)
    BY <1>4, ReplayGood
  <1>6. Delivered(c)' => SameResponse(captured'[c], v.wire)
    BY <1>2, <1>3, <1>5 DEF Captured
  <1>. QED  BY <1>2, <1>3, <1>4, <1>6 DEF Captured

(* Every step of a net/http request keeps its capture in order.            *)
LEMMA CapturedStep ==
  ASSUME MiddlewareInv, NEW c \in Call, Captured(c), Serve(c) \/ Die(c)
  PROVE  Captured(c)'
  <1>1. CASE BeginRun(c)
    <2>1. /\ UNCHANGED cw /\ Untouched(c) /\ stage'[c] \in {"begin", "handler"}
          /\ Judged(c)' /\ ~Delivered(c)' /\ ~Replayed(c)'
      BY <1>1, BeginKeeps
    <2>. QED  BY <2>1, NewGood DEF Captured
  <1>2. CASE Panic(c)
    BY <1>2, PanicKeeps DEF Captured
  <1>. QED
    BY <1>1, <1>2, EarlyCaptured, HandlerCaptured, OwnCaptured, ReturnCaptured,
       AfterCaptured DEF Serve

(* A capture in order can be stored.                                       *)
LEMMA CapturedRecorded ==
  ASSUME MiddlewareInv, NEW c \in Call, Captured(c)
  PROVE  Recorded(c)
  BY HandlerNow, ResponseTypes DEF Captured, Recorded

-----------------------------------------------------------------------------
(* What the invariants say *)

(* Only what was captured under the policy is replayed.                    *)
LEMMA AllowedNow ==
  ASSUME MiddlewareInv, \A c \in Call : Judged(c)
  PROVE  ReplayAllowed
  <1>. SUFFICES ASSUME NEW c \in Call, Replayed(c), NEW p, p = outcome[c].payload,
                       own[p] \notin {"committed", "failed"}
                PROVE  /\ stage[p] \in {"unsettled", "done", "dead"}
                       /\ Storable(cw[p].rec) /\ ~Transient(p)
    BY DEF ReplayAllowed
  <1>1. p \in Call /\ decided[p] = "Persist"
    BY LocalNow DEF Local, Settled, Replayed, Persisting
  <1>. QED  BY <1>1, LocalNow DEF Local, Settled, Judged

(* Who has been told that its request is over holds no key.                *)
LEMMA ReleasedNow ==
  ASSUME MiddlewareInv
  PROVE  Released
  <1>. SUFFICES ASSUME NEW c \in Call, stage[c] \in {"done", "aborted"},
                       outcome[c].action = "Proceed", result[c] # "unknown",
                       recs[key[c]].state = StateReserved, recs[key[c]].token = c
                PROVE  FALSE
    BY DEF Released
  <1>1. result[c] # "none"
    BY LocalNow DEF Local, Settled
  <1>2. key[c] \in Key
    BY DEF MiddlewareInv, HttpTypeOK, TypeOK
  <1>. QED  BY <1>1, <1>2 DEF MiddlewareInv, HttpStoreInv

(* What is left of a division is less than the divisor.                    *)
LEMMA DivBounds ==
  ASSUME NEW a \in Nat, NEW s \in Nat \ {0}, NEW q, q = a \div s
  PROVE  q \in Int /\ q * s <= a /\ a < q * s + s
  OBVIOUS

(* Retry-After rounds a positive wait up to whole seconds.                 *)
LEMMA RoundsUp ==
  ASSUME NEW d \in Nat \ {0}, NEW n, n = retryAfterSeconds(d)
  PROVE  n * Second >= d /\ (n - 1) * Second < d
  <1>1. PICK a, q : a = d + Second - 1 /\ q = a \div Second
    OBVIOUS
  <1>2. a \in Nat /\ Second \in Nat \ {0}
    BY <1>1
  <1>3. q \in Int /\ q * Second <= a /\ a < q * Second + Second
    BY <1>1, <1>2, DivBounds, ZenonT(30)
  <1>4. PICK m \in Int : m = q * Second
    BY <1>2, <1>3
  <1>5. m >= d /\ m - Second < d
    BY <1>1, <1>3, <1>4
  <1>6. q > 0
    <2>1. ASSUME q <= 0 PROVE FALSE
      <3>1. q * Second <= 0
        BY <1>2, <1>3, <2>1
      <3>. QED  BY <1>4, <1>5, <3>1
    <2>. QED  BY <1>3, <2>1
  <1>7. n = q
    BY <1>1, <1>3, <1>6 DEF retryAfterSeconds
  <1>8. (q - 1) * Second = q * Second - Second
    BY <1>2, <1>3
  <1>. QED  BY <1>4, <1>5, <1>7, <1>8

(* A 409 carries the rounded wait.                                         *)
LEMMA RetryNow ==
  ASSUME MiddlewareInv, \A c \in Call : Judged(c)
  PROVE  RetryAfterCovers
  <1>. SUFFICES ASSUME NEW c \in Call, retry[c] # 0
                PROVE  /\ cw[c].wire.status = 409
                       /\ retry[c] * Second >= outcome[c].retryAfter
                       /\ (retry[c] - 1) * Second < outcome[c].retryAfter
    BY DEF RetryAfterCovers
  <1>1. Local(c)
    BY LocalNow
  <1>2. PICK d, n : d = outcome[c].retryAfter /\ n = retry[c]
    OBVIOUS
  <1>3. n = retryAfterSeconds(d) /\ outcome[c].action = "RejectInFlight"
    BY <1>1, <1>2 DEF Local, Settled
  <1>4. d \in Int /\ d > 0
    BY <1>1, <1>2, <1>3 DEF Local, Phase, MiddlewareInv, HttpTypeOK, TypeOK
  <1>5. n * Second >= d /\ (n - 1) * Second < d
    BY <1>3, <1>4, RoundsUp
  <1>6. cw[c].wire.status = 409
    BY DEF Judged
  <1>. QED  BY <1>2, <1>5, <1>6

-----------------------------------------------------------------------------
(* The net/http middleware *)

(* Requests arrive before anything has been stored or captured.            *)
LEMMA ArrivalsInv ==
  ASSUME Arrivals, DOMAIN cw = Call
  PROVE  /\ MiddlewareInv
         /\ \A c \in Call : Judged(c) /\ ~Delivered(c) /\ ~Replayed(c)
         /\ \A c \in Call : /\ stage[c] = "arrived" /\ Untouched(c)
                            /\ outcome[c].action = "pending"
  <1>1. TypeOK /\ Init
    BY TypeInit DEF Arrivals
  <1>2. HttpTypeOK
    <2>1. /\ "arrived" \in Stages /\ "nil" \in ErrorKinds /\ 0 \in 0 .. MaxWrites
          /\ NoResponse \in Responses
      BY ResponseTypes DEF Stages, ErrorKinds
    <2>2. /\ stage \in [Call -> Stages] /\ writes \in [Call -> 0 .. MaxWrites]
          /\ herr \in [Call -> ErrorKinds] /\ marked \in [Call -> BOOLEAN]
          /\ own \in [Call -> {"none", "committed", "lost", "failed"}]
          /\ captured \in [Call -> Responses] /\ retry \in [Call -> Nat]
      BY <2>1 DEF Arrivals
    <2>. QED  BY <1>1, <2>2 DEF HttpTypeOK, Arrivals, Init
  <1>3. HttpStoreInv
    BY <1>1 DEF HttpStoreInv, Backed, Init, New, NoRecord, StateReserved
  <1>4. ASSUME NEW c \in Call
        PROVE  /\ Phase(c) /\ Settled(c) /\ Judged(c) /\ ~Delivered(c) /\ ~Replayed(c)
               /\ stage[c] = "arrived" /\ Untouched(c) /\ outcome[c].action = "pending"
    <2>1. /\ stage[c] = "arrived" /\ retry[c] = 0 /\ own[c] = "none"
          /\ marked[c] = FALSE
      BY DEF Arrivals
    <2>2. /\ pc[c] = "begin" /\ outcome[c].action = "pending" /\ decided[c] = "none"
          /\ result[c] = "none"
      BY <1>1 DEF Init, Pending
    <2>3. Phase(c) /\ Settled(c)
      BY <2>1, <2>2 DEF Phase, Settled, Persisting
    <2>. QED  BY <2>1, <2>2, <2>3 DEF Judged, Delivered, Replayed, Untouched
  <1>. QED  BY <1>2, <1>3, <1>4 DEF MiddlewareInv

(* The inductive invariant holds when requests arrive.                     *)
LEMMA HttpInitInv == HttpInit => HttpInv
  <1>. SUFFICES ASSUME HttpInit PROVE HttpInv
    OBVIOUS
  <1>1. Arrivals /\ DOMAIN cw = Call /\ \A c \in Call : cw[c] = NewCapture
    BY DEF HttpInit
  <1>2. ASSUME NEW c \in Call PROVE Captured(c)
    BY <1>1, ArrivalsInv DEF Captured
  <1>. QED  BY <1>1, <1>2, ArrivalsInv DEF HttpInv

(* What a step leaves alone of the requests that do not take it.           *)
LEMMA OtherCaptures ==
  ASSUME MiddlewareInv, [AnyNext]_allVars, NEW e \in Call,
         \/ \E c \in Call \ {e} : Moves(c)
         \/ Background \/ UNCHANGED allVars
  PROVE  /\ Captured(e) => Captured(e)'
         /\ GinCaptured(e) => GinCaptured(e)'
  <1>1. CASE \E c \in Call \ {e} : Moves(c)
    BY <1>1, HttpFrame, CapturesKept
  <1>2. CASE Background \/ UNCHANGED allVars
    BY <1>2, BackgroundFrame, CapturesKept DEF httpVars
  <1>. QED  BY <1>1, <1>2

(* Every step of every request, of the environment and of the clock keeps  *)
(* the inductive invariant.                                                *)
LEMMA HttpStepInv == HttpInv /\ [HttpNext]_allVars => HttpInv'
  <1>. SUFFICES ASSUME HttpInv, [HttpNext]_allVars PROVE HttpInv'
    OBVIOUS
  <1>1. MiddlewareInv /\ (\A c \in Call : Captured(c)) /\ [AnyNext]_allVars
    BY DEF HttpInv, HttpNext, AnyNext, Moves
  <1>2. MiddlewareInv'
    BY <1>1, CapturedRecorded, MiddlewareStep
  <1>3. ASSUME NEW e \in Call PROVE Captured(e)'
    <2>1. CASE Serve(e) \/ Die(e)
      BY <1>1, <2>1, CapturedStep
    <2>2. CASE \/ \E c \in Call \ {e} : Moves(c)
               \/ Background \/ UNCHANGED allVars
      BY <1>1, <2>2, OtherCaptures
    <2>. QED  BY <2>1, <2>2 DEF HttpNext, Moves
  <1>. QED  BY <1>2, <1>3 DEF HttpInv

(* The middleware keeps its inductive invariant: where a request is agrees *)
(* with where its call is in the core, every record in the Store was left  *)
(* there by a request of that key, and what is stored is what the client   *)
(* of the execution received.                                              *)
THEOREM HttpInvariant == HttpSpec => []HttpInv
  BY HttpInitInv, HttpStepInv, PTL DEF HttpSpec

(* The handler runs under capture only with a reservation, and Finish is   *)
(* reached only from there.                                                *)
THEOREM HttpTypeCorrect == HttpSpec => []HttpTypeOK
  <1>1. HttpInv => HttpTypeOK
    BY DEF HttpInv, MiddlewareInv
  <1>. QED  BY <1>1, HttpInvariant, PTL

(* A replay gives the second client what the first one received: the same  *)
(* status, body and allowlisted headers.                                   *)
THEOREM HttpReplays == HttpSpec => []ReplaySame
  <1>1. ASSUME HttpInv PROVE ReplaySame
    <2>. SUFFICES ASSUME NEW c \in Call, Replayed(c), NEW p, p = outcome[c].payload,
                         stage[p] \in {"returned", "unsettled", "done"},
                         own[p] # "failed"
                  PROVE  /\ cw[c].wire.status = cw[p].wire.status
                         /\ cw[c].wire.header = cw[p].wire.header \cap allow
                         /\ cw[c].wire.body = cw[p].wire.body
      BY DEF ReplaySame
    <2>1. Local(c) /\ Captured(c)
      BY <1>1, LocalNow DEF HttpInv
    <2>2. p \in Call /\ Persisting(p) /\ cw[c].wire = WriteStored(captured[p], {})
      BY <2>1 DEF Local, Settled, Captured, Replayed
    <2>3. Delivered(p)
      BY <2>2 DEF Persisting, Delivered
    <2>4. SameResponse(captured[p], cw[p].wire)
      BY <1>1, <2>2, <2>3 DEF HttpInv, Captured
    <2>. QED  BY <2>2, <2>4 DEF SameResponse
  <1>. QED  BY <1>1, HttpInvariant, PTL

(* Transient failures, streamed, hijacked and oversized responses, and     *)
(* what a handler wrote before it panicked, are never replayed.            *)
THEOREM HttpAllowed == HttpSpec => []ReplayAllowed
  <1>1. HttpInv => ReplayAllowed
    BY AllowedNow DEF HttpInv, Captured
  <1>. QED  BY <1>1, HttpInvariant, PTL

(* A request that is over leaves no reservation of its own behind, unless  *)
(* the Store failed.                                                       *)
THEOREM HttpReleased == HttpSpec => []Released
  <1>1. HttpInv => Released
    BY ReleasedNow DEF HttpInv
  <1>. QED  BY <1>1, HttpInvariant, PTL

(* The Retry-After of a 409 covers the lease the client was rejected for,  *)
(* and is not a second longer than that takes.                             *)
THEOREM HttpRetry == HttpSpec => []RetryAfterCovers
  <1>1. HttpInv => RetryAfterCovers
    BY RetryNow DEF HttpInv, Captured
  <1>. QED  BY <1>1, HttpInvariant, PTL


-----------------------------------------------------------------------------
(* Captures of Gin *)

(* Gin's status is a final one, if no handler writes a 1xx. *)
Final(v) == Statuses \cap Informational = {} => v.status \notin Informational

(* What a chunk does to a writer, whatever its state.                      *)
LEMMA GinWriteFields ==
  ASSUME NEW v \in GinWriters, NEW n \in Nat, NEW u, u = GinWrite(v, n)
  PROVE  /\ u.rec = RecordBody(snapshot(v).rec, n) /\ u.snapshotted
         /\ u.status = v.status
  <1>1. PICK s : s = snapshot(v)
    OBVIOUS
  <1>2. s \in GinWriters /\ s.status = v.status /\ s.rec \in Recs /\ s.snapshotted
    BY <1>1, SnapshotEffect, GinParts
  <1>3. PICK r : r = RecordBody(s.rec, n)
    BY ZenonT(30)
  <1>4. r \in Recs
    BY <1>2, <1>3, BodyEffect, ZenonT(30)
  <1>5. PICK a : a = [s EXCEPT !.rec = r]
    BY ZenonT(30)
  <1>6. a \in GinWriters /\ a.rec = r /\ a.status = v.status /\ a.snapshotted
    BY <1>2, <1>4, <1>5, PutRec
  <1>7. u = ginWrite(a, n)
    BY <1>1, <1>3, <1>5 DEF GinWrite
  <1>. QED  BY <1>1, <1>3, <1>6, <1>7, ginWriteEffect

(* What a status does to a writer.                                         *)
LEMMA GinWriteHeaderFields ==
  ASSUME NEW v \in GinWriters, NEW code \in Informational \cup 200 .. 999,
         NEW u, u = GinWriteHeader(v, code)
  PROVE  /\ u \in GinWriters
         /\ u.rec = v.rec /\ u.header = v.header /\ u.snapshotted = v.snapshotted
         /\ u.status = IF v.written THEN v.status ELSE code
         /\ u.pending = IF ~v.snapshotted /\ code >= 200 THEN code ELSE v.pending
  <1>1. PICK a : a = IF ~v.snapshotted /\ code >= 200 THEN [v EXCEPT !.pending = code]
                     ELSE v
    BY ZenonT(30)
  <1>2. code >= 200 => code \in StatusCodes
    BY DEF Informational, StatusCodes
  <1>3. /\ a \in GinWriters /\ a.rec = v.rec /\ a.header = v.header
        /\ a.snapshotted = v.snapshotted /\ a.written = v.written /\ a.status = v.status
        /\ a.pending = IF ~v.snapshotted /\ code >= 200 THEN code ELSE v.pending
    <2>1. CASE ~v.snapshotted /\ code >= 200
      BY <1>1, <1>2, <2>1, PutPending
    <2>2. CASE ~(~v.snapshotted /\ code >= 200)
      BY <1>1, <2>2
    <2>. QED  BY <2>1, <2>2
  <1>4. u = ginWriteHeader(a, code)
    BY <1>1 DEF GinWriteHeader
  <1>. QED  BY <1>3, <1>4, ginWriteHeaderEffect

(* Only WriteHeader changes the status Gin has noted.                      *)
LEMMA StatusKept ==
  ASSUME NEW v \in GinWriters
  PROVE  /\ \A h \in Header : GinSetHeader(v, h).status = v.status
         /\ \A code \in Informational \cup 200 .. 999 :
               GinWriteHeader(v, code).status \in {v.status, code}
         /\ \A n \in Nat : GinWrite(v, n).status = v.status
         /\ GinWriteHeaderNow(v).status = v.status
         /\ GinFlush(v).status = v.status
         /\ GinHijack(v).status = v.status
  <1>1. ASSUME NEW h \in Header PROVE GinSetHeader(v, h).status = v.status
    BY DEF GinSetHeader, GinWriters
  <1>2. ASSUME NEW code \in Informational \cup 200 .. 999
        PROVE  GinWriteHeader(v, code).status \in {v.status, code}
    BY GinWriteHeaderFields
  <1>3. PICK s : s = snapshot(v)
    OBVIOUS
  <1>4. s \in GinWriters /\ s.status = v.status
    BY <1>3, SnapshotEffect
  <1>5. ASSUME NEW n \in Nat PROVE GinWrite(v, n).status = v.status
    BY GinWriteFields
  <1>6. GinWriteHeaderNow(v).status = v.status
    <2>1. PICK u : u = ginWriteHeaderNow(s)
      OBVIOUS
    <2>2. u.status = v.status
      BY <1>4, <2>1, NowEffect
    <2>. QED  BY <1>3, <2>1, <2>2 DEF GinWriteHeaderNow
  <1>7. GinFlush(v).status = v.status
    <2>1. PICK r : r = Abandon(v.rec)
      BY ZenonT(30)
    <2>2. r \in Recs
      BY <2>1, GinParts, MaxResponseBodyAssumption DEF Abandon, Recs
    <2>3. PICK a : a = [v EXCEPT !.rec = r]
      BY ZenonT(30)
    <2>4. a \in GinWriters /\ a.status = v.status
      BY <2>2, <2>3, PutRec
    <2>5. PICK u : u = ginFlush(a)
      BY ZenonT(30)
    <2>6. u.status = v.status
      BY <2>4, <2>5, ginFlushEffect
    <2>. QED  BY <2>1, <2>3, <2>5, <2>6 DEF GinFlush
  <1>8. GinHijack(v).status = v.status
    BY DEF GinHijack, ginHijack, GinWriters
  <1>. QED  BY <1>1, <1>2, <1>5, <1>6, <1>7, <1>8

(* A request that is refused, or answered through Gin from the Store.      *)
LEMMA GinEarlyCaptured ==
  ASSUME MiddlewareInv, NEW c \in Call, GinCaptured(c),
         Receive(c) \/ Refuse(c) \/ RunDirect(c) \/ ginWriteReplay(c)
  PROVE  GinCaptured(c)'
  <1>1. /\ UNCHANGED <<outcome, captured, own>> /\ outcome[c].action # "Proceed"
        /\ stage'[c] \in {"done", "direct", "begin"}
        /\ Judged(c)' /\ ~Delivered(c)'
        /\ Untouched(c)' => Untouched(c) /\ cw'[c] = cw[c]
        /\ Replayed(c)' => pc[c] = "answered" /\ outcome[c].action = "Replay"
                           /\ ~oversized(captured[outcome[c].payload])
    BY EarlyKeeps DEF Early
  <1>2. Replayed(c)' => ginWriteReplay(c)
    <2>1. Receive(c) \/ StoreUnavailable(c) \/ RunDirect(c) => pc[c] # "answered"
      BY LocalNow DEF Receive, PassThrough, RefuseRequest, Guard,
         StoreUnavailable, RunDirect, Local, Staged, Phase
    <2>2. RejectInFlight(c) \/ RejectFingerprintMismatch(c) => outcome[c].action # "Replay"
      BY DEF RejectInFlight, RejectFingerprintMismatch
    <2>. QED  BY <1>1, <2>1, <2>2 DEF Refuse
  <1>3. PICK x : x = GinReplay(captured[outcome[c].payload])
    OBVIOUS
  <1>4. Replayed(c)' => cw'[c].wire = x
    <2>1. SUFFICES ASSUME Replayed(c)' PROVE cw'[c].wire = x
      OBVIOUS
    <2>2. stage[c] = "begin" /\ cw' = [cw EXCEPT ![c].wire = x] /\ DOMAIN cw = Call
      BY <1>1, <1>2, <1>3, <2>1 DEF ginWriteReplay, send, MiddlewareInv
    <2>3. cw[c] = NewGin(StatusOK)
      BY <2>2 DEF GinCaptured, Untouched
    <2>. QED  BY <2>2, <2>3 DEF NewGin
  <1>. QED  BY <1>1, <1>3, <1>4 DEF GinCaptured

(* A call of the handler leaves Gin and the Recorder in step.              *)
LEMMA GinHandlerGood ==
  ASSUME MiddlewareInv, NEW c \in Call, GinHandlerWrite(c),
         GinGood(cw[c], StatusOK), GinOpen(cw[c]), Final(cw[c])
  PROVE  GinGood(cw'[c], StatusOK) /\ GinOpen(cw'[c]) /\ Final(cw'[c])
  <1>1. PICK v : /\ HandlerCall(c, v)
                 /\ \/ \E h \in Header : v = GinSetHeader(cw[c], h)
                    \/ \E code \in Statuses : v = GinWriteHeader(cw[c], code)
                    \/ v = GinWrite(cw[c], 1) \/ v = GinWriteHeaderNow(cw[c])
                    \/ v = GinFlush(cw[c]) \/ v = GinHijack(cw[c])
    BY DEF GinHandlerWrite
  <1>2. cw'[c] = v
    BY <1>1 DEF HandlerCall, MiddlewareInv
  <1>3. PICK u : u = cw[c]
    OBVIOUS
  <1>4. /\ GinGood(u, StatusOK) /\ GinOpen(u) /\ Final(u) /\ u \in GinWriters
        /\ u.header \in SUBSET Header
    BY <1>3, GinParts DEF GinGood
  <1>5. Statuses \subseteq Informational \cup 200 .. 999
    BY HttpAssumption
  <1>6. CASE \E h \in Header : v = GinSetHeader(u, h)
    <2>1. PICK h \in Header : v = GinSetHeader(u, h)
      BY <1>6
    <2>2. PICK H : H = u.header \cup {h}
      BY ZenonT(30)
    <2>3. H \in SUBSET Header /\ v = [u EXCEPT !.header = H]
      BY <1>4, <2>1, <2>2 DEF GinSetHeader
    <2>4. v.status = u.status
      BY <1>4, <2>1, StatusKept
    <2>. QED  BY <1>2, <1>4, <2>3, <2>4, GinHeaderGood DEF Final
  <1>7. CASE \E code \in Statuses : v = GinWriteHeader(u, code)
    <2>1. PICK code \in Statuses : v = GinWriteHeader(u, code)
      BY <1>7
    <2>2. v.status \in {u.status, code}
      BY <1>4, <1>5, <2>1, StatusKept
    <2>. QED  BY <1>2, <1>4, <1>5, <2>1, <2>2, GinWriteHeaderGood DEF Final
  <1>8. CASE v = GinWrite(u, 1) \/ v = GinWriteHeaderNow(u) \/ v = GinFlush(u) \/ v = GinHijack(u)
    <2>1. GinGood(v, StatusOK) /\ GinOpen(v)
      BY <1>4, <1>8, GinWriteGood, GinWriteHeaderNowGood, GinFlushGood,
         GinHijackGood
    <2>2. v.status = u.status
      BY <1>4, <1>8, StatusKept
    <2>. QED  BY <1>2, <1>4, <2>1, <2>2 DEF Final
  <1>. QED  BY <1>1, <1>3, <1>6, <1>7, <1>8

(* So does an error the handler reports.                                   *)
LEMMA GinHandlerCaptured ==
  ASSUME MiddlewareInv, NEW c \in Call, GinCaptured(c),
         GinHandlerWrite(c) \/ \E err \in Errors : SetError(c, err)
  PROVE  GinCaptured(c)'
  <1>1. /\ stage[c] = "handler" /\ stage'[c] = "handler" /\ outcome[c].action = "Proceed"
        /\ ~Untouched(c)' /\ Judged(c)' /\ ~Delivered(c)' /\ ~Replayed(c)'
    BY HandlerKeeps
  <1>2. GinGood(cw[c], StatusOK) /\ GinOpen(cw[c]) /\ Final(cw[c])
    BY <1>1 DEF GinCaptured, Final
  <1>3. GinGood(cw'[c], StatusOK) /\ GinOpen(cw'[c]) /\ Final(cw'[c])
    <2>1. CASE \E err \in Errors : SetError(c, err)
      BY <1>2, <2>1 DEF SetError
    <2>. QED  BY <1>2, <2>1, GinHandlerGood
  <1>. QED  BY <1>1, <1>3 DEF GinCaptured, Final

(* A writer nobody called yet is in order.                                 *)
LEMMA NewGinHere ==
  /\ GinGood(NewGin(StatusOK), StatusOK) /\ GinOpen(NewGin(StatusOK))
  /\ Final(NewGin(StatusOK)) /\ NewGin(StatusOK) \in GinWriters
  <1>1. StatusOK \in 200 .. 999 /\ StatusOK \notin Informational
    BY DEF StatusOK, Informational
  <1>2. GinGood(NewGin(StatusOK), StatusOK) /\ GinOpen(NewGin(StatusOK))
    BY <1>1, NewGinGood, ZenonT(30)
  <1>3. NewGin(StatusOK).status = StatusOK
    BY DEF NewGin
  <1>. QED  BY <1>1, <1>2, <1>3 DEF Final, GinGood

(* The handler's own completion, answered through Gin if it fails.         *)
LEMMA GinOwnCaptured ==
  ASSUME MiddlewareInv, NEW c \in Call, GinCaptured(c), GinCompleteItself(c)
  PROVE  GinCaptured(c)'
  <1>1. /\ stage[c] = "handler" /\ stage'[c] = "handler" /\ Untouched(c)
        /\ outcome[c].action = "Proceed" /\ outcome'[c].action = "Proceed"
        /\ own'[c] \in {"committed", "lost", "failed"}
        /\ Untouched(c)' => own'[c] = "committed"
        /\ Judged(c)' /\ ~Delivered(c)' /\ ~Replayed(c)'
    BY JoinKeeps DEF GinCompleteItself
  <1>2. PICK u : u = NewGin(StatusOK)
    OBVIOUS
  <1>3. cw[c] = u /\ GinGood(u, StatusOK) /\ GinOpen(u) /\ Final(u) /\ u \in GinWriters
    BY <1>1, <1>2, NewGinHere DEF GinCaptured
  <1>4. \/ own'[c] = "committed" /\ cw'[c] = u
        \/ own'[c] # "committed" /\ cw'[c] = GinWriteHeader(u, 409)
        \/ own'[c] # "committed" /\ cw'[c] = GinWriteHeader(u, 500)
    BY <1>1, <1>3 DEF GinCompleteItself, MiddlewareInv
  <1>5. ASSUME NEW code \in {409, 500}
        PROVE  /\ GinGood(GinWriteHeader(u, code), StatusOK)
               /\ GinOpen(GinWriteHeader(u, code)) /\ Final(GinWriteHeader(u, code))
    <2>1. code \in Informational \cup 200 .. 999 /\ code \notin Informational
      BY DEF Informational
    <2>2. GinWriteHeader(u, code).status \in {u.status, code}
      BY <1>3, <2>1, StatusKept
    <2>. QED  BY <1>3, <2>1, <2>2, GinWriteHeaderGood DEF Final
  <1>6. GinGood(cw'[c], StatusOK) /\ GinOpen(cw'[c]) /\ Final(cw'[c])
    BY <1>3, <1>4, <1>5
  <1>7. Untouched(c)' => cw'[c] = u
    BY <1>1, <1>4
  <1>. QED  BY <1>1, <1>2, <1>6, <1>7 DEF GinCaptured, Final

(* An untouched writer that holds the headers a handler stored on its own. *)
OwnHeaders(a) ==
    /\ GinGood(a, StatusOK) /\ GinOpen(a) /\ a \in GinWriters /\ a.header = allow
    /\ a.rec = NewRecorder /\ ~a.snapshotted /\ ~a.written

(* A handler that committed starts from such a writer.                     *)
LEMMA GinOwnHeaders ==
  ASSUME NEW n, n = NewGin(StatusOK), NEW a, a = [n EXCEPT !.header = allow]
  PROVE  OwnHeaders(a)
  <1>1. allow \in SUBSET Header
    BY HeaderAssumption DEF allow
  <1>2. /\ GinGood(n, StatusOK) /\ GinOpen(n) /\ n \in GinWriters
        /\ n.rec = NewRecorder /\ ~n.snapshotted /\ ~n.written
    BY NewGinHere DEF NewGin
  <1>3. GinGood(a, StatusOK) /\ GinOpen(a)
    BY <1>1, <1>2, GinHeaderGood
  <1>4. a \in GinWriters /\ a.header = allow
    BY <1>1, <1>2, PutHeader
  <1>5. a.rec = NewRecorder /\ ~a.snapshotted /\ ~a.written
    BY <1>1, <1>2, PutHeader
  <1>. QED  BY <1>3, <1>4, <1>5, Zenon DEF OwnHeaders

(* It ends with a response like the stored one.                            *)
LEMMA GinOwnWrites ==
  ASSUME NEW a, OwnHeaders(a),
         NEW v, v = GinWrite(GinWriteHeader(a, 201), MaxResponseBody)
  PROVE  /\ GinGood(v, StatusOK) /\ Final(v) /\ v.snapshotted
         /\ Storable(v.rec) /\ StoredResponse(v.rec) = ownResponse
  <1>1. /\ 201 \in Informational \cup 200 .. 999 /\ 201 \notin Informational
        /\ 201 >= 200
    BY DEF Informational
  <1>2. PICK b : b = GinWriteHeader(a, 201)
    OBVIOUS
  <1>3. GinGood(b, StatusOK) /\ b \in GinWriters
    BY <1>1, <1>2, GinWriteHeaderGood DEF GinGood, OwnHeaders
  <1>4. /\ b.pending = 201 /\ b.status = 201 /\ b.rec = NewRecorder /\ b.header = allow
        /\ ~b.snapshotted
    BY <1>1, <1>2, GinWriteHeaderFields DEF OwnHeaders
  <1>5. PICK s : s = snapshot(b)
    OBVIOUS
  <1>6. /\ s.rec.status = 201 /\ s.rec.header = allow
         /\ s.rec.body = 0 /\ ~s.rec.overflowed /\ ~s.rec.abandoned
    <2>1. noted(b, StatusOK) = 201 /\ allow \cap allow = allow
      BY <1>4 DEF noted
    <2>2. /\ NewRecorder.status = 0 /\ NewRecorder.body = 0
          /\ ~NewRecorder.overflowed /\ ~NewRecorder.abandoned
      BY DEF NewRecorder
    <2>3. /\ s.rec.body = b.rec.body /\ s.rec.abandoned = b.rec.abandoned
          /\ s.rec.overflowed = b.rec.overflowed
          /\ ~b.snapshotted /\ b.rec.status = 0 =>
                s.rec.status = noted(b, StatusOK) /\ s.rec.header = b.header \cap allow
      BY <1>3, <1>5, SnapshotEffect
    <2>4. s.rec.body = 0 /\ ~s.rec.overflowed /\ ~s.rec.abandoned
      BY <1>4, <2>2, <2>3
    <2>5. s.rec.status = noted(b, StatusOK) /\ s.rec.header = allow \cap allow
      BY <1>4, <2>2, <2>3
    <2>. QED  BY <2>1, <2>4, <2>5
  <1>7. v = GinWrite(b, MaxResponseBody)
    BY <1>2
  <1>8. GinGood(v, StatusOK)
    BY <1>3, <1>7, MaxResponseBodyAssumption, GinWriteGood
  <1>9. v.rec = RecordBody(s.rec, MaxResponseBody) /\ v.snapshotted /\ v.status = 201
    BY <1>3, <1>4, <1>5, <1>7, MaxResponseBodyAssumption, GinWriteFields
  <1>10. PICK r : r = v.rec
    OBVIOUS
  <1>11. /\ r.status = 201 /\ r.header = allow /\ r.body = MaxResponseBody
         /\ ~r.overflowed /\ ~r.abandoned
    BY <1>6, <1>9, <1>10, MaxResponseBodyAssumption DEF RecordBody
  <1>12. StoredResponse(r) = ownResponse
    BY <1>11 DEF StoredResponse, Status, ownResponse
  <1>. QED  BY <1>1, <1>8, <1>9, <1>10, <1>11, <1>12 DEF Storable, Final

(* The handlers return: the snapshot is taken, though nothing may be sent. *)
LEMMA GinReturnCaptured ==
  ASSUME MiddlewareInv, NEW c \in Call, GinCaptured(c), GinReturn(c)
  PROVE  GinCaptured(c)'
  <1>1. /\ stage[c] = "handler" /\ stage'[c] = "returned" /\ UNCHANGED <<own, captured>>
        /\ outcome[c].action = "Proceed"
        /\ own[c] = "committed" => Untouched(c) /\ captured[c] = ownResponse
        /\ ~Untouched(c)' /\ Judged(c)' /\ ~Replayed(c)'
        /\ Delivered(c)' => own[c] = "committed"
    BY ReturnKeeps
  <1>2. PICK u : u = ginLastWrites(c)
    OBVIOUS
  <1>3. PICK v : v = snapshot(u)
    OBVIOUS
  <1>4. cw'[c] = v
    BY <1>2, <1>3 DEF GinReturn, GinFinalize, MiddlewareInv
  <1>5. own[c] = "committed" =>
          /\ GinGood(u, StatusOK) /\ Final(u) /\ u.snapshotted
          /\ Storable(u.rec) /\ StoredResponse(u.rec) = ownResponse
    <2>1. own[c] = "committed" => cw[c] = NewGin(StatusOK)
      BY <1>1 DEF GinCaptured
    <2>2. ownResponse.status = 201 /\ ownResponse.body = MaxResponseBody
      BY DEF ownResponse
    <2>3. PICK n, a : n = cw[c] /\ a = [n EXCEPT !.header = allow]
      OBVIOUS
    <2>4. own[c] = "committed" => u = GinWrite(GinWriteHeader(a, 201), MaxResponseBody)
      BY <1>2, <2>2, <2>3 DEF ginLastWrites
    <2>5. ASSUME own[c] = "committed"
          PROVE  /\ GinGood(u, StatusOK) /\ Final(u) /\ u.snapshotted
                 /\ Storable(u.rec) /\ StoredResponse(u.rec) = ownResponse
      <3>1. n = NewGin(StatusOK)
        BY <2>1, <2>3, <2>5
      <3>2. OwnHeaders(a)
        BY <2>3, <3>1, GinOwnHeaders, ZenonT(30)
      <3>. QED  BY <2>4, <2>5, <3>2, GinOwnWrites, ZenonT(30)
    <2>. QED  BY <2>5
  <1>6. own[c] # "committed" => GinGood(u, StatusOK) /\ Final(u)
    BY <1>1, <1>2 DEF ginLastWrites, GinCaptured, Final
  <1>7. GinGood(v, StatusOK) /\ v.snapshotted
    BY <1>3, <1>5, <1>6, SnapshotGood
  <1>8. Final(v) /\ (u.snapshotted => v.rec = u.rec)
    <2>1. u \in GinWriters
      BY <1>5, <1>6 DEF GinGood
    <2>2. v.status = u.status /\ (u.snapshotted => v.rec = u.rec)
      BY <1>3, <2>1, SnapshotEffect
    <2>. QED  BY <1>5, <1>6, <2>2 DEF Final
  <1>9. Delivered(c)' => Storable(v.rec) /\ captured'[c] = StoredResponse(v.rec)
    BY <1>1, <1>5, <1>8
  <1>. QED  BY <1>1, <1>4, <1>7, <1>8, <1>9 DEF GinCaptured, Final

(* After the handlers: what is stored is the snapshot.                     *)
LEMMA GinAfterCaptured ==
  ASSUME MiddlewareInv, NEW c \in Call, GinCaptured(c), Settle(c) \/ Die(c)
  PROVE  GinCaptured(c)'
  <1>1. Judged(c)
    BY DEF GinCaptured
  <1>2. /\ UNCHANGED cw /\ outcome[c].action = "Proceed"
        /\ stage[c] \in {"handler", "returned", "panicked", "unsettled"}
        /\ stage'[c] \in {"unsettled", "done", "aborted", "dead"}
        /\ stage'[c] \in {"unsettled", "done"} => stage[c] \in {"returned", "unsettled"}
        /\ ~Untouched(c)' /\ Judged(c)' /\ ~Replayed(c)'
        /\ Delivered(c)' =>
              \/ Delivered(c) /\ captured'[c] = captured[c]
              \/ /\ stage[c] = "returned" /\ Storable(cw[c].rec)
                 /\ captured'[c] = StoredResponse(cw[c].rec)
    BY <1>1, AfterKeeps
  <1>3. PICK v : v = cw[c] /\ v = cw'[c]
    BY <1>2
  <1>4. /\ GinGood(v, StatusOK) /\ Final(v)
        /\ stage[c] \in {"returned", "unsettled"} => v.snapshotted
        /\ Delivered(c) => Storable(v.rec) /\ captured[c] = StoredResponse(v.rec)
    BY <1>2, <1>3 DEF GinCaptured, Final
  <1>5. Delivered(c)' => Storable(v.rec) /\ captured'[c] = StoredResponse(v.rec)
    BY <1>2, <1>3, <1>4
  <1>6. stage'[c] # "returned" /\ stage'[c] # "handler"
    BY <1>2
  <1>. QED  BY <1>2, <1>3, <1>4, <1>5, <1>6 DEF GinCaptured, Final

(* The engine sends the header of a chain that has returned: only the wire *)
(* changes.                                                                *)
LEMMA EngineCaptured ==
  ASSUME MiddlewareInv, NEW c \in Call, GinCaptured(c), EngineSend(c)
  PROVE  GinCaptured(c)'
  <1>1. /\ stage[c] = "done" /\ outcome[c].action = "Proceed" /\ cw'[c] = ginServed(cw[c])
        /\ UNCHANGED <<stage, outcome, writes, herr, own, captured, retry, decided>>
    BY DEF EngineSend, MiddlewareInv, coreVars, vars, ending
  <1>2. PICK v, u : v = cw[c] /\ u = ginServed(v)
    OBVIOUS
  <1>3. GinGood(v, StatusOK) /\ Final(v) /\ v.snapshotted /\ v \in GinWriters /\ Judged(c)
    BY <1>1, <1>2 DEF GinCaptured, Final, GinGood
  <1>4. GinGood(u, StatusOK)
    BY <1>2, <1>3, GinServedGood
  <1>5. u.status = v.status /\ u.rec = v.rec /\ u.snapshotted
    BY <1>2, <1>3, ginFlushEffect DEF ginServed
  <1>6. retry[c] = 0
    BY <1>1, LocalNow DEF Local, Settled
  <1>7. Judged(c)'
    BY <1>1, <1>2, <1>3, <1>5, <1>6 DEF Judged, Transient
  <1>8. Delivered(c)' => Delivered(c)
    BY <1>1 DEF Delivered
  <1>9. ~Untouched(c)' /\ ~Replayed(c)'
    BY <1>1 DEF Untouched, Replayed
  <1>. QED  BY <1>1, <1>2, <1>3, <1>4, <1>5, <1>7, <1>8, <1>9 DEF GinCaptured,
     Final

(* Gin's Recovery writes through the capture of a request that is lost.    *)
LEMMA RecoverCaptured ==
  ASSUME MiddlewareInv, NEW c \in Call, GinCaptured(c), Recover(c)
  PROVE  GinCaptured(c)'
  <1>1. /\ stage[c] = "aborted"
        /\ UNCHANGED <<stage, outcome, writes, herr, own, captured, retry, decided>>
    BY DEF Recover, coreVars, vars, ending
  <1>2. Local(c)
    BY LocalNow
  <1>3. retry[c] = 0 /\ (decided[c] = "Persist" => own[c] \in {"committed", "failed"})
    BY <1>1, <1>2 DEF Local, Settled
  <1>4. Judged(c)'
    BY <1>1, <1>3 DEF Judged
  <1>. QED  BY <1>1, <1>4 DEF GinCaptured, Untouched, Delivered, Replayed

(* Every step of a request that Gin serves keeps its capture in order.     *)
LEMMA GinCapturedStep ==
  ASSUME MiddlewareInv, NEW c \in Call, GinCaptured(c), GinServe(c) \/ Die(c)
  PROVE  GinCaptured(c)'
  <1>1. CASE BeginRun(c)
    <2>1. /\ UNCHANGED cw /\ Untouched(c) /\ stage'[c] \in {"begin", "handler"}
          /\ Judged(c)' /\ ~Delivered(c)' /\ ~Replayed(c)'
      BY <1>1, BeginKeeps
    <2>2. cw'[c] = NewGin(StatusOK)
      BY <2>1 DEF GinCaptured
    <2>3. PICK u : u = NewGin(StatusOK)
      OBVIOUS
    <2>4. GinGood(u, StatusOK) /\ GinOpen(u) /\ Final(u) /\ cw'[c] = u
      BY <2>2, <2>3, NewGinHere
    <2>. QED  BY <2>1, <2>3, <2>4 DEF GinCaptured, Final
  <1>2. CASE Panic(c)
    BY <1>2, PanicKeeps DEF GinCaptured
  <1>. QED
    BY <1>1, <1>2, GinEarlyCaptured, GinHandlerCaptured, GinOwnCaptured,
       GinReturnCaptured,
       GinAfterCaptured, EngineCaptured, RecoverCaptured DEF GinServe

(* A capture in order can be stored.                                       *)
LEMMA GinRecorded ==
  ASSUME MiddlewareInv, NEW c \in Call, GinCaptured(c)
  PROVE  Recorded(c)
  <1>. SUFFICES ASSUME stage[c] = "returned" PROVE StoredResponse(cw[c].rec) \in Responses
    BY DEF Recorded
  <1>1. PICK v : v = cw[c]
    OBVIOUS
  <1>2. v \in GinWriters
    BY <1>1, HandlerNow DEF GinCaptured, GinGood
  <1>3. /\ v.rec.status \in StatusCodes /\ v.rec.header \in SUBSET Header
        /\ v.rec.body \in Nat
    BY <1>2, GinParts, MaxResponseBodyAssumption, HeaderAssumption DEF allow
  <1>4. Status(v.rec) \in {0} \cup 200 .. 999
    BY <1>3 DEF Status, StatusOK, StatusCodes
  <1>. QED  BY <1>1, <1>3, <1>4 DEF StoredResponse, Responses

-----------------------------------------------------------------------------
(* Gin beside net/http *)

(* What a replay through net/http puts on the wire: the same as one        *)
(* through Gin.                                                            *)
LEMMA StoredEffect ==
  ASSUME NEW sr, sr.status \in 200 .. 999, sr.header \in SUBSET Header, sr.body \in Nat
  PROVE  /\ WriteStored(sr, {}).status = sr.status /\ WriteStored(sr, {}).header = sr.header
         /\ WriteStored(sr, {}).body = IF sr.status \in Bodyless THEN 0 ELSE sr.body
  <1>1. PICK x : x = wireHeader(NewWire, sr.status, sr.header)
    OBVIOUS
  <1>2. /\ NewWire \in Wires /\ NewWire.status = 0 /\ NewWire.body = 0
        /\ NewWire.hijacked = FALSE
    BY DEF NewWire, Wires, StatusCodes
  <1>3. sr.status \notin Informational /\ sr.status # 0
    BY FinalCode
  <1>4. /\ x \in Wires /\ x.status = sr.status /\ x.header = sr.header /\ x.body = 0
        /\ x.hijacked = FALSE
    BY <1>1, <1>2, <1>3, HeaderEffect
  <1>5. WriteStored(sr, {}) = wireWrite(x, sr.body, sr.header)
    <2>1. {} \cup sr.header = sr.header
      OBVIOUS
    <2>. QED  BY <1>1, <2>1 DEF WriteStored
  <1>. QED  BY <1>3, <1>4, <1>5, ChunkEffect

(* What the client of a stored response of Gin has, once its header is out:*)
(* the snapshot.                                                           *)
LEMMA GinDelivered ==
  ASSUME NEW v, GinGood(v, StatusOK), v.snapshotted, Storable(v.rec),
         v.status \notin Informational, v.wire.status # 0,
         NEW sr, sr = StoredResponse(v.rec)
  PROVE  /\ v.wire.status = sr.status /\ v.wire.header \cap allow = sr.header
         /\ v.wire.body = IF sr.status \in Bodyless THEN 0 ELSE sr.body
  <1>1. v \in GinWriters /\ GinSynced(v, StatusOK) /\ ~v.rec.abandoned
    BY DEF GinGood, Storable
  <1>2. v.written
    BY <1>1, GinParts DEF GinSynced
  <1>3. /\ v.wire.status = v.status /\ v.rec.header = v.wire.header \cap allow
        /\ v.wire.body = IF v.status \in Bodyless THEN 0 ELSE v.rec.body
        /\ v.status = noted(v, StatusOK) /\ v.rec.status = noted(v, StatusOK)
        /\ v.rec.status # 0
    BY <1>1, <1>2 DEF GinSynced
  <1>4. sr.status = v.rec.status /\ sr.header = v.rec.header /\ sr.body = v.rec.body
    BY <1>3 DEF StoredResponse, Status
  <1>. QED  BY <1>3, <1>4

(* The inductive invariant holds when requests of both kinds arrive.       *)
LEMMA GinInitInv == GinInit => GinInv
  <1>. SUFFICES ASSUME GinInit PROVE GinInv
    OBVIOUS
  <1>1. /\ Arrivals /\ DOMAIN cw = Call
        /\ \A c \in GinCalls : c \in Call /\ cw[c] = NewGin(StatusOK)
        /\ \A c \in Call \ GinCalls : cw[c] = NewCapture
    <2>1. Arrivals /\ DOMAIN cw = Call
      BY DEF GinInit
    <2>2. \A c \in Call : cw[c] = IF c \in GinCalls THEN NewGin(StatusOK) ELSE NewCapture
      BY ZenonT(30) DEF GinInit
    <2>. QED  BY <2>1, <2>2, GinCallsAssumption
  <1>2. ASSUME NEW c \in Call
        PROVE  /\ Judged(c) /\ ~Delivered(c) /\ ~Replayed(c)
               /\ stage[c] = "arrived" /\ outcome[c].action = "pending"
    BY <1>1, ArrivalsInv
  <1>3. ASSUME NEW c \in GinCalls PROVE GinCaptured(c)
    BY <1>1, <1>2 DEF GinCaptured
  <1>4. ASSUME NEW c \in Call \ GinCalls PROVE Captured(c)
    BY <1>1, <1>2 DEF Captured
  <1>5. MiddlewareInv
    BY <1>1, ArrivalsInv
  <1>. QED  BY <1>3, <1>4, <1>5 DEF GinInv

(* Every step of a request of either kind, of the environment and of the   *)
(* clock keeps the inductive invariant.                                    *)
LEMMA GinStepInv == GinInv /\ [GinNext]_allVars => GinInv'
  <1>. SUFFICES ASSUME GinInv, [GinNext]_allVars PROVE GinInv'
    OBVIOUS
  <1>1. /\ MiddlewareInv /\ \A c \in GinCalls : c \in Call /\ GinCaptured(c)
        /\ \A c \in Call \ GinCalls : Captured(c)
    BY GinCallsAssumption DEF GinInv
  <1>2. \/ \E c \in GinCalls : GinServe(c) \/ Die(c)
        \/ \E c \in Call \ GinCalls : Serve(c) \/ Die(c)
        \/ Background \/ UNCHANGED allVars
    BY DEF GinNext
  <1>3. [AnyNext]_allVars
    BY <1>1, <1>2 DEF AnyNext, Moves
  <1>4. \A c \in Call : Recorded(c)
    BY <1>1, CapturedRecorded, GinRecorded
  <1>5. MiddlewareInv'
    BY <1>1, <1>3, <1>4, MiddlewareStep
  <1>6. ASSUME NEW e \in GinCalls PROVE GinCaptured(e)'
    <2>1. CASE GinServe(e) \/ Die(e)
      BY <1>1, <2>1, GinCapturedStep
    <2>2. CASE ~(GinServe(e) \/ Die(e))
      <3>1. \/ \E c \in Call \ {e} : Moves(c)
            \/ Background \/ UNCHANGED allVars
        BY <1>1, <1>2, <2>2 DEF Moves
      <3>. QED  BY <1>1, <1>3, <3>1, OtherCaptures
    <2>. QED  BY <2>1, <2>2
  <1>7. ASSUME NEW e \in Call \ GinCalls PROVE Captured(e)'
    <2>1. CASE Serve(e) \/ Die(e)
      BY <1>1, <2>1, CapturedStep
    <2>2. CASE ~(Serve(e) \/ Die(e))
      <3>1. \/ \E c \in Call \ {e} : Moves(c)
            \/ Background \/ UNCHANGED allVars
        BY <1>1, <1>2, <2>2 DEF Moves
      <3>. QED  BY <1>1, <1>3, <3>1, OtherCaptures
    <2>. QED  BY <2>1, <2>2
  <1>. QED  BY <1>5, <1>6, <1>7 DEF GinInv

(* With requests of Gin and of net/http over one Store, whichever requests *)
(* Gin serves, what the middlewares share and the capture of every request *)
(* stay in order: GinInv is an invariant.                                  *)
THEOREM GinInvariant == GinSpec => []GinInv
  BY GinInitInv, GinStepInv, PTL DEF GinSpec

(* Whatever its writer, a request is judged by the policy.                 *)
LEMMA GinJudged ==
  ASSUME GinInv
  PROVE  MiddlewareInv /\ \A c \in Call : Judged(c)
  BY DEF GinInv, GinCaptured, Captured

(* A response that Gin stored is replayed by net/http, and the other way   *)
(* round, with the status, the body and the allowlisted headers that its   *)
(* first client received, as long as no handler writes a 1xx: Gin lets a   *)
(* 1xx take the place of the status it has noted, the snapshot does not.   *)
THEOREM GinReplays ==
  ASSUME Statuses \cap Informational = {}
  PROVE  GinSpec => []ReplaySame
  <1>1. ASSUME GinInv PROVE ReplaySame
    <2>. SUFFICES ASSUME NEW c \in Call, Replayed(c), NEW p, p = outcome[c].payload,
                         stage[p] \in {"returned", "unsettled", "done"},
                         own[p] # "failed", cw[p].wire.status # 0
                  PROVE  /\ cw[c].wire.status = cw[p].wire.status
                         /\ cw[c].wire.header = cw[p].wire.header \cap allow
                         /\ cw[c].wire.body = cw[p].wire.body
      BY DEF ReplaySame
    <2>1. MiddlewareInv /\ Local(c)
      BY <1>1, LocalNow DEF GinInv
    <2>2. p \in Call /\ Persisting(p)
      BY <2>1 DEF Local, Settled, Replayed
    <2>3. Delivered(p) /\ Local(p)
      BY <2>1, <2>2, LocalNow DEF Persisting, Delivered
    <2>4. PICK sr, v, w : sr = captured[p] /\ v = cw[p] /\ w = cw[c].wire
      OBVIOUS
    <2>5. sr.status \in 200 .. 999 /\ sr.header \in SUBSET Header /\ sr.body \in Nat
      <3>1. captured \in [Call -> Responses]
        BY <2>1 DEF MiddlewareInv, HttpTypeOK
      <3>2. sr \in Responses /\ sr.status # 0
        BY <2>2, <2>3, <2>4, <3>1 DEF Local, Settled
      <3>. QED  BY <3>2 DEF Responses
    <2>6. /\ w.status = sr.status /\ w.header = sr.header
          /\ w.body = IF sr.status \in Bodyless THEN 0 ELSE sr.body
      <3>1. CASE c \in GinCalls
        <4>1. w = GinReplay(sr)
          BY <1>1, <2>4, <3>1 DEF GinInv, GinCaptured
        <4>. QED  BY <2>5, <4>1, GinReplayEffect
      <3>2. CASE c \notin GinCalls
        <4>1. w = WriteStored(sr, {})
          BY <1>1, <2>4, <3>2 DEF GinInv, Captured
        <4>. QED  BY <2>5, <4>1, StoredEffect
      <3>. QED  BY <3>1, <3>2
    <2>7. /\ v.wire.status = sr.status /\ v.wire.header \cap allow = sr.header
          /\ v.wire.body = IF sr.status \in Bodyless THEN 0 ELSE sr.body
      <3>1. CASE p \in GinCalls
        <4>1. GinCaptured(p) /\ outcome[p].action = "Proceed"
          BY <1>1, <2>2, <2>3, <3>1, NotProceeded DEF GinInv, Delivered, Local,
             Phase, Settled
        <4>2. /\ GinGood(v, StatusOK) /\ v.snapshotted /\ v.status \notin Informational
              /\ Storable(v.rec) /\ sr = StoredResponse(v.rec)
          BY <2>3, <2>4, <4>1 DEF GinCaptured
        <4>. QED  BY <2>4, <4>2, GinDelivered
      <3>2. CASE p \notin GinCalls
        <4>1. SameResponse(sr, v.wire)
          BY <1>1, <2>2, <2>3, <2>4, <3>2 DEF GinInv, Captured
        <4>. QED  BY <2>5, <4>1, StoredEffect DEF SameResponse
      <3>. QED  BY <3>1, <3>2
    <2>. QED  BY <2>4, <2>6, <2>7
  <1>. QED  BY <1>1, GinInvariant, PTL

(* Neither middleware replays what the other one must not have stored:     *)
(* transient failures, streamed, hijacked and oversized responses, and     *)
(* what a handler wrote before it panicked.                                *)
THEOREM GinAllowed == GinSpec => []ReplayAllowed
  <1>1. GinInv => ReplayAllowed
    BY GinJudged, AllowedNow
  <1>. QED  BY <1>1, GinInvariant, PTL

(* A request of either kind that is over, even by a panic that Recovery    *)
(* turned into a 500, leaves no reservation of its own behind, unless the  *)
(* Store failed.                                                           *)
THEOREM GinReleased == GinSpec => []Released
  <1>1. GinInv => Released
    BY ReleasedNow DEF GinInv
  <1>. QED  BY <1>1, GinInvariant, PTL

(* The Retry-After of a 409 written by either middleware covers the lease  *)
(* the client was rejected for.                                            *)
THEOREM GinRetry == GinSpec => []RetryAfterCovers
  <1>1. GinInv => RetryAfterCovers
    BY GinJudged, RetryNow
  <1>. QED  BY <1>1, GinInvariant, PTL
=============================================================================
