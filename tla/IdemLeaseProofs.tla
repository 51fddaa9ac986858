-------------------------- MODULE IdemLeaseProofs --------------------------
(***************************************************************************)
(* Proofs about IdemLease, for every set of calls, keys and fingerprints   *)
(* and all TTLs.                                                           *)
(***************************************************************************)
EXTENDS IdemLease, TLAPS

USE NoneAssumption, TTLAssumption, BoundAssumption

-----------------------------------------------------------------------------
(* The operators the model is built from *)

(* The effective TTLs are positive whatever Options says: a non-positive   *)
(* field is replaced by its default.                                       *)
LEMMA TTLPositive == leaseTTL \in Nat \ {0} /\ recordTTL \in Nat \ {0}
  BY DEF leaseTTL, recordTTL

(* The zero Record is a record, and is expired at every instant.           *)
LEMMA ZeroRecord == NoRecord \in Records /\ \A t \in Nat : Expired(NoRecord, t)
  BY DEF NoRecord, Records, Expired, StateReserved, StateCompleted

(* memstore's lookup finds nothing exactly when the record has expired.    *)
LEMMA LookupFinds ==
  ASSUME NEW R \in [Key -> Records], NEW k \in Key, NEW t \in Nat
  PROVE  lookup(R, k, t)[k] = NoRecord <=> Expired(R[k], t) \/ R[k] = NoRecord
  BY DEF lookup

(* A record of a call that may be in the Store.                            *)
LEMMA ReservationType ==
  ASSUME TypeOK, NEW c \in Call
  PROVE  reservation(c) \in Records
  BY DEF TypeOK, reservation, Records, StateReserved, StateCompleted

(* memstore's Reserve claims the key when the record there has expired,    *)
(* and otherwise returns the record and changes nothing.                   *)
LEMMA ReserveEffect ==
  ASSUME NEW R \in [Key -> Records], NEW k \in Key, NEW t \in Nat, NEW r
  PROVE  \/ /\ Expired(R[k], t)
            /\ Reserve(R, k, r, t) =
                 [err |-> "nil", existing |-> NoRecord,
                  recs |-> [R EXCEPT ![k] = r]]
         \/ /\ ~Expired(R[k], t)
            /\ Reserve(R, k, r, t) =
                 [err |-> "AlreadyExists", existing |-> R[k], recs |-> R]
  BY LookupFinds, ZeroRecord DEF Reserve

(* Complete and Release succeed exactly on a live reservation held under   *)
(* the caller's token; otherwise they report the lease as lost and at most *)
(* delete a record that had expired.                                       *)
LEMMA HolderEffect ==
  ASSUME NEW R \in [Key -> Records], NEW k \in Key, NEW c \in Call, NEW t \in Nat
  PROVE  \/ /\ ~Expired(R[k], t) /\ R[k].token = c /\ R[k].state = StateReserved
            /\ holderErr(R, k, c, t) = "nil"
         \/ /\ Expired(R[k], t) \/ R[k].token # c \/ R[k].state # StateReserved
            /\ leaseLost(holderErr(R, k, c, t))
            /\ holderErr(R, k, c, t) # "nil"
  BY LookupFinds, ZeroRecord DEF holderErr, leaseLost

(* A completed record is a record, and lives for the effective RecordTTL.  *)
LEMMA CompletionType ==
  ASSUME NEW r \in Records, NEW c \in Call, NEW t \in Nat
  PROVE  completion(r, c, t) \in Records /\ ~Expired(completion(r, c, t), t)
  <1>1. t + recordTTL \in Nat /\ ~(t + recordTTL <= t)
    BY TTLPositive
  <1>2. r.token \in Call \cup {None} /\ r.fp \in Fingerprint \cup {None} /\ r.lease \in Nat
    BY DEF Records
  <1>3. completion(r, c, t) \in Records
    BY <1>1, <1>2 DEF completion, Records
  <1>4. ~Expired(completion(r, c, t), t)
    BY <1>1 DEF completion, Expired, StateReserved, StateCompleted
  <1>. QED  BY <1>3, <1>4

(* The fields of a record have the types Records gives them.               *)
LEMMA RecordFields ==
  ASSUME NEW r \in Records
  PROVE  /\ r.state \in {0, StateReserved, StateCompleted}
         /\ r.token \in Call \cup {None} /\ r.payload \in Call \cup {None}
         /\ r.fp \in Fingerprint \cup {None}
         /\ r.lease \in Nat /\ r.expires \in Nat
  BY DEF Records

-----------------------------------------------------------------------------
(* Type correctness *)

(* Complete and Release touch the caller's key only, and there do one of   *)
(* three things: they succeed on a live reservation of the caller, they    *)
(* delete what has expired, or they change nothing.                        *)
LEMMA SettleEffect ==
  ASSUME TypeOK, NEW c \in Call, NEW d \in {"Persist", "Discard"}
  PROVE  /\ settle(c, d).recs \in [Key -> Records]
         /\ \A k \in Key \ {key[c]} : settle(c, d).recs[k] = recs[k]
         /\ \/ /\ ~Expired(recs[key[c]], now)
               /\ recs[key[c]].token = c /\ recs[key[c]].state = StateReserved
               /\ ~leaseLost(settle(c, d).err)
               /\ d = "Persist" => settle(c, d).recs[key[c]]
                                     = completion(recs[key[c]], c, now)
               /\ d = "Discard" => settle(c, d).recs[key[c]] = NoRecord
            \/ /\ Expired(recs[key[c]], now)
               /\ leaseLost(settle(c, d).err)
               /\ settle(c, d).recs[key[c]] = NoRecord
            \/ /\ ~Expired(recs[key[c]], now)
               /\ recs[key[c]].token # c \/ recs[key[c]].state # StateReserved
               /\ leaseLost(settle(c, d).err)
               /\ settle(c, d).recs[key[c]] = recs[key[c]]
  <1>1. recs \in [Key -> Records] /\ key[c] \in Key /\ now \in Nat
    BY DEF TypeOK
  <1>2. recs[key[c]] \in Records /\ completion(recs[key[c]], c, now) \in Records
    BY <1>1, CompletionType
  <1>3. ~leaseLost("nil")
    BY DEF leaseLost
  <1>4. CASE d = "Persist"
    BY <1>1, <1>2, <1>3, <1>4, HolderEffect, ZeroRecord DEF settle, Complete,
       lookup
  <1>5. CASE d = "Discard"
    BY <1>1, <1>2, <1>3, <1>5, HolderEffect, ZeroRecord DEF settle, Release,
       lookup
  <1>. QED  BY <1>4, <1>5

(* What Reserve leaves in the Store and returns from it are records.       *)
LEMMA ReserveType ==
  ASSUME TypeOK, NEW c \in Call
  PROVE  /\ Reserve(recs, key[c], reservation(c), now).recs \in [Key -> Records]
         /\ Reserve(recs, key[c], reservation(c), now).existing \in Records
  <1>1. recs \in [Key -> Records] /\ key[c] \in Key /\ now \in Nat
    BY DEF TypeOK
  <1>. QED  BY <1>1, ReservationType, ReserveEffect, ZeroRecord

(* The initial state has the type the code gives the variables.            *)
LEMMA TypeInit == Init => TypeOK
  BY ZeroRecord DEF Init, TypeOK, New, Pending, PCs, Actions, maxAttempts

(* Every step of a call, of the environment or of the clock keeps the      *)
(* variables in their types.                                               *)
LEMMA TypeStep == TypeOK /\ [Next]_vars => TypeOK'
  <1>. SUFFICES ASSUME TypeOK, [Next]_vars PROVE TypeOK'
    OBVIOUS
  <1>. USE DEF TypeOK, PCs, Actions, maxAttempts, store, args, ending
  <1>1. ASSUME NEW c \in Call, NewTokenError(c) PROVE TypeOK'
    BY <1>1 DEF NewTokenError, answer
  <1>2. ASSUME NEW c \in Call, Stamp(c) PROVE TypeOK'
    BY <1>2, TTLPositive DEF Stamp
  <1>3. ASSUME NEW c \in Call, ReserveCall(c) PROVE TypeOK'
    <2>. DEFINE r == Reserve(recs, key[c], reservation(c), now)
    <2>1. r.recs \in [Key -> Records] /\ r.existing \in Records
      BY ReserveType
    <2>2. CASE r.err = "nil"
      BY <1>3, <2>1, <2>2, SMTT(30) DEF ReserveCall, answer
    <2>3. CASE r.err # "nil"
      BY <1>3, <2>1, <2>3 DEF ReserveCall, answer
    <2>. QED  BY <2>2, <2>3
  <1>4. ASSUME NEW c \in Call, ReserveError(c) PROVE TypeOK'
    BY <1>4 DEF ReserveError, answer, fail, Requests
  <1>5. ASSUME NEW c \in Call, JudgeExpired(c) PROVE TypeOK'
    <2>1. CASE attempt[c] < maxAttempts
      BY <1>5, <2>1, ZeroRecord DEF JudgeExpired
    <2>2. CASE ~(attempt[c] < maxAttempts)
      BY <1>5, <2>2, ZeroRecord DEF JudgeExpired, answer
    <2>. QED  BY <2>1, <2>2
  <1>6. ASSUME NEW c \in Call, JudgeLive(c) PROVE TypeOK'
    BY <1>6, ZeroRecord, RecordFields, SMTT(30) DEF JudgeLive, answer
  <1>7. ASSUME NEW c \in Call, NEW d \in {"Persist", "Discard"}, Finish(c, d)
        PROVE  TypeOK'
    BY <1>7, SettleEffect DEF Finish
  <1>8. ASSUME NEW c \in Call, NEW d \in {"Persist", "Discard"}, FinishError(c, d)
        PROVE  TypeOK'
    BY <1>8 DEF FinishError, fail, Requests
  <1>9. ASSUME NEW c \in Call, FinishAgain(c) PROVE TypeOK'
    BY <1>9, SettleEffect, SMTT(30) DEF FinishAgain, fail, Requests
  <1>10. ASSUME NEW o \in late, LateArrival(o) PROVE TypeOK'
    BY <1>10, SettleEffect, ReserveType DEF LateArrival, Requests
  <1>11. ASSUME NEW k \in Key, Inspect(k) PROVE TypeOK'
    BY <1>11, ZeroRecord DEF Inspect, Get, lookup
  <1>12. ASSUME NEW c \in Call, Crash(c) PROVE TypeOK'
    BY <1>12 DEF Crash
  <1>13. CASE Tick
    BY <1>13 DEF Tick
  <1>14. CASE UNCHANGED vars
    BY <1>14 DEF vars
  <1>. QED
    BY <1>1, <1>2, <1>3, <1>4, <1>5, <1>6, <1>7, <1>8, <1>9, <1>10, <1>11,
       <1>12, <1>13, <1>14 DEF Next, Step, BeginStep

(* The type invariant holds of every reachable state of every instance.    *)
THEOREM TypeCorrect == Spec => []TypeOK
  BY TypeInit, TypeStep, PTL DEF Spec

-----------------------------------------------------------------------------
(* What an adapter sees of a step *)

(* A step of one call leaves the protocol state of the others alone.       *)
LEMMA StepFrame ==
  ASSUME TypeOK, NEW c \in Call, Step(c)
  PROVE  /\ UNCHANGED <<key, fp>>
         /\ \A e \in Call \ {c} :
               /\ pc'[e] = pc[e] /\ outcome'[e] = outcome[e]
               /\ decided'[e] = decided[e] /\ result'[e] = result[e]
               /\ existing'[e] = existing[e]
  <1>. USE DEF TypeOK, store, args, ending
  <1>1. CASE NewTokenError(c)
    BY <1>1 DEF NewTokenError, answer
  <1>2. CASE Stamp(c)
    BY <1>2 DEF Stamp
  <1>3. CASE ReserveCall(c)
    BY <1>3 DEF ReserveCall, answer
  <1>4. CASE ReserveError(c)
    BY <1>4 DEF ReserveError, answer
  <1>5. CASE JudgeExpired(c)
    BY <1>5 DEF JudgeExpired, answer
  <1>6. CASE JudgeLive(c)
    BY <1>6 DEF JudgeLive, answer
  <1>7. CASE \E d \in {"Persist", "Discard"} : Finish(c, d)
    BY <1>7 DEF Finish
  <1>8. CASE \E d \in {"Persist", "Discard"} : FinishError(c, d)
    BY <1>8 DEF FinishError
  <1>9. CASE FinishAgain(c)
    BY <1>9 DEF FinishAgain
  <1>10. CASE Crash(c)
    BY <1>10 DEF Crash
  <1>. QED
    BY <1>1, <1>2, <1>3, <1>4, <1>5, <1>6, <1>7, <1>8, <1>9, <1>10
       DEF Step, BeginStep

(* Begin goes on, answers, fails or lets the handler run, and decides      *)
(* nothing; an answer to replay ends it.                                   *)
LEMMA BeginEffect ==
  ASSUME TypeOK, NEW c \in Call,
         BeginStep(c) \/ ReserveError(c) \/ NewTokenError(c),
         outcome[c].action = "Replay" => pc[c] = "answered"
  PROVE  /\ pc'[c] \in {"begin", "reserve", "judge", "answered", "failed", "running"}
         /\ outcome'[c].action = "Replay" => pc'[c] = "answered"
         /\ UNCHANGED <<decided, result>>
  <1>. USE DEF TypeOK, store, args, ending
  <1>1. CASE NewTokenError(c)
    BY <1>1 DEF NewTokenError, answer
  <1>2. CASE Stamp(c)
    BY <1>2 DEF Stamp
  <1>3. CASE ReserveCall(c)
    BY <1>3 DEF ReserveCall, answer
  <1>4. CASE ReserveError(c)
    BY <1>4 DEF ReserveError, answer
  <1>5. CASE JudgeExpired(c)
    BY <1>5 DEF JudgeExpired, answer
  <1>6. CASE JudgeLive(c)
    BY <1>6 DEF JudgeLive, answer
  <1>. QED  BY <1>1, <1>2, <1>3, <1>4, <1>5, <1>6 DEF BeginStep

(* The first Finish of a call decides it, and its caller is told something.*)
LEMMA FinishEffect ==
  ASSUME TypeOK, NEW c \in Call, NEW d \in {"Persist", "Discard"},
         Finish(c, d) \/ FinishError(c, d)
  PROVE  /\ pc'[c] \in {"finished", "unsettled"}
         /\ pc'[c] = "unsettled" => d = "Persist"
         /\ decided'[c] = d /\ result'[c] # "none"
         /\ UNCHANGED outcome
  <1>1. CASE Finish(c, d)
    BY <1>1 DEF Finish, TypeOK
  <1>2. CASE FinishError(c, d)
    BY <1>2 DEF FinishError, TypeOK
  <1>. QED  BY <1>1, <1>2

-----------------------------------------------------------------------------
(* The inductive invariant *)

(* memstore's Reserve, seen key by key: it claims an expired key for the   *)
(* caller or returns a live record that it leaves alone.                   *)
LEMMA ClaimEffect ==
  ASSUME TypeOK, NEW c \in Call,
         NEW r, r = Reserve(recs, key[c], reservation(c), now)
  PROVE  /\ \A k \in Key \ {key[c]} : r.recs[k] = recs[k]
         /\ \/ /\ Expired(recs[key[c]], now)
               /\ r.err = "nil"
               /\ r.existing = NoRecord
               /\ r.recs[key[c]] = reservation(c)
            \/ /\ ~Expired(recs[key[c]], now)
               /\ r.err = "AlreadyExists"
               /\ r.existing = recs[key[c]]
               /\ r.recs[key[c]] = recs[key[c]]
  BY ReserveEffect DEF TypeOK

(* A live record is one a call put there.                                  *)
LEMMA LiveState ==
  ASSUME NEW r \in Records, NEW t \in Nat, ~Expired(r, t)
  PROVE  r.state # 0
  BY DEF Expired, StateReserved, StateCompleted

(* A call whose lease is valid finds a live record of its own.             *)
LEMMA HolderLive ==
  ASSUME IInv, NEW c \in Call, Holds(c)
  PROVE  /\ recs[key[c]] = reservation(c)
         /\ ~Expired(recs[key[c]], now)
  <1>1. recs[key[c]] = reservation(c)
    BY DEF IInv, HolderIntact
  <1>2. lease[c] \in Nat /\ now \in Nat /\ now < lease[c]
    BY DEF IInv, TypeOK, Holds
  <1>. QED  BY <1>1, <1>2 DEF reservation, Expired, StateReserved

(* Before any Begin the Store is empty and nobody holds a lease.           *)
LEMMA InitInv == Init => IInv
  <1>. SUFFICES ASSUME Init PROVE IInv
    OBVIOUS
  <1>1. TypeOK
    BY TypeInit
  <1>2. StoreInv
    BY DEF Init, StoreInv, New, NoRecord
  <1>3. BeginInv
    <2>1. \A c \in Call : lease[c] = 0
      BY DEF Init
    <2>2. now = 0 /\ 0 <= 0 + leaseTTL
      BY TTLPositive DEF Init
    <2>3. \A c \in Call : pc[c] # "judge" /\ outcome[c].action # "Replay"
      BY DEF Init, Pending
    <2>. QED  BY <2>1, <2>2, <2>3 DEF BeginInv
  <1>4. FinishInv
    BY DEF Init, FinishInv
  <1>5. HolderIntact
    BY DEF Init, HolderIntact, Holds
  <1>. QED  BY <1>1, <1>2, <1>3, <1>4, <1>5 DEF IInv

(* When only the Store and the ends of executions change, the records that *)
(* Begin calls have read stay genuine.                                     *)
LEMMA GenuineKept ==
  ASSUME IInv, TypeOK', UNCHANGED <<now, key, fp>>,
         \A c \in Call : pc'[c] \in {"begin", "reserve", "judge", "answered"}
                            => pc'[c] = pc[c],
         \A p \in Call : Completed(p) => Completed(p)'
  PROVE  \A r \in Records, k \in Key : Genuine(r, k) => Genuine(r, k)'
  BY DEF IInv, TypeOK, Genuine

(* A step that leaves the calls inside Begin alone keeps what is known of  *)
(* them.                                                                   *)
LEMMA BeginKept ==
  ASSUME IInv, TypeOK', UNCHANGED <<now, key, fp, lease>>,
         \A c \in Call : pc'[c] \in {"begin", "reserve", "judge", "answered"}
                            => pc'[c] = pc[c],
         \A c \in Call : pc'[c] = "judge" => existing'[c] = existing[c],
         \A c \in Call : outcome'[c].action = "Replay" => outcome'[c] = outcome[c],
         \A p \in Call : Completed(p) => Completed(p)'
  PROVE  BeginInv'
  <1>1. \A r \in Records, k \in Key : Genuine(r, k) => Genuine(r, k)'
    BY GenuineKept
  <1>2. ASSUME NEW c \in Call, outcome'[c].action = "Replay"
        PROVE  /\ Completed(outcome[c].payload)'
               /\ outcome'[c].payload # c
               /\ key'[outcome'[c].payload] = key[c] /\ fp'[outcome'[c].payload] = fp[c]
    <2>1. outcome'[c] = outcome[c] /\ outcome[c].action = "Replay"
      BY <1>2
    <2>2. Completed(outcome[c].payload) /\ outcome[c].payload \in Call
      BY <2>1 DEF IInv, BeginInv, Completed
    <2>3. Completed(outcome[c].payload)'
      BY <2>1, <2>2 DEF Completed
    <2>. QED  BY <2>1, <2>2, <2>3 DEF IInv, BeginInv
  <1>3. ASSUME NEW c \in Call, pc'[c] = "judge"
        PROVE  existing'[c].state # 0 /\ existing'[c].token # c /\ Genuine(existing[c], key[c])'
    <2>1. /\ pc[c] = "judge" /\ existing'[c] = existing[c]
          /\ existing[c] \in Records /\ key[c] \in Key
      BY <1>3 DEF IInv, TypeOK
    <2>2. Genuine(existing[c], key[c])
      BY <2>1 DEF IInv, BeginInv
    <2>3. Genuine(existing[c], key[c])'
      BY <1>1, <2>1, <2>2 DEF Genuine
    <2>. QED  BY <2>1, <2>3 DEF IInv, BeginInv
  <1>4. \A c \in Call : lease'[c] <= now' + leaseTTL
    BY DEF IInv, BeginInv
  <1>. QED  BY <1>2, <1>3, <1>4 DEF BeginInv

(* A Complete or Release of call c, on time or late, keeps what the Store  *)
(* holds in order and takes nothing from a call whose lease is valid.      *)
LEMMA SettleKeeps ==
  ASSUME IInv, TypeOK', NEW c \in Call, NEW d \in {"Persist", "Discard"},
         recs' = settle(c, d).recs,
         UNCHANGED <<now, key, fp, lease, existing, outcome>>,
         \A e \in Call \ {c} : /\ pc'[e] = pc[e] /\ decided'[e] = decided[e]
                               /\ result'[e] = result[e],
         pc[c] \in {"running", "unsettled", "finished", "crashed"},
         pc'[c] \in {"unsettled", "finished", "crashed"},
         Completed(c) => decided'[c] = decided[c] /\ result'[c] = result[c],
         d = "Persist" /\ ~leaseLost(settle(c, d).err)
            => decided'[c] = "Persist" /\ result'[c] \in {"persisted", "unknown"}
  PROVE  StoreInv' /\ BeginInv' /\ HolderIntact'
  <1>. DEFINE k == key[c]
  <1>1. /\ k \in Key /\ now \in Nat /\ recs[k] \in Records
        /\ \A e \in Call : key[e] \in Key
    BY DEF IInv, TypeOK
  <1>2. \A j \in Key \ {k} : recs'[j] = recs[j]
    BY SettleEffect DEF IInv
  <1>left. \/ recs'[k] = NoRecord
           \/ recs'[k] = recs[k] /\ (recs[k].token # c \/ recs[k].state # StateReserved)
           \/ /\ recs'[k] = completion(recs[k], c, now)
              /\ ~leaseLost(settle(c, d).err) /\ d = "Persist"
              /\ recs[k].state = StateReserved /\ recs[k].token = c
    BY SettleEffect DEF IInv
  <1>none. NoRecord.state # StateReserved /\ NoRecord.state = 0
    BY DEF NoRecord, StateReserved
  <1>done. completion(recs[k], c, now).state # StateReserved
    BY DEF completion, StateReserved, StateCompleted
  <1>3. ~(recs'[k].state = StateReserved /\ recs'[k].token = c)
    BY <1>left, <1>none, <1>done
  <1>4. \A e \in Call \ {c} :
            recs'[k].state = StateReserved /\ recs'[k].token = e => recs'[k] = recs[k]
    BY <1>left, <1>none, <1>done
  <1>5. ASSUME NEW p \in Call, Completed(p) PROVE Completed(p)'
    <2>1. CASE p = c
      BY <1>3, <1>5, <2>1 DEF Completed
    <2>2. CASE p # c
      <3>1. ~(recs'[key[p]].state = StateReserved /\ recs'[key[p]].token = p)
        BY <1>1, <1>2, <1>4, <1>5, <2>2 DEF Completed
      <3>. QED  BY <1>5, <2>2, <3>1 DEF Completed
    <2>. QED  BY <2>1, <2>2
  <1>6. \A r \in Records, j \in Key : Genuine(r, j) => Genuine(r, j)'
    BY <1>5, GenuineKept
  <1>7. BeginInv'
    BY <1>5, BeginKept
  <1>8. StoreInv'
    <2>. SUFFICES ASSUME NEW j \in Key, (recs[j].state # 0)'
                  PROVE  /\ Genuine(recs[j], j)'
                         /\ (recs[j].state = StateReserved =>
                               /\ recs[j] = reservation(recs[j].token)
                               /\ result[recs[j].token] \in {"none", "unknown"})'
      BY DEF StoreInv
    <2>1. recs[j] \in Records
      BY DEF IInv, TypeOK
    <2>2. CASE recs'[j] = recs[j]
      <3>1. Genuine(recs[j], j)
        BY <2>2 DEF IInv, StoreInv
      <3>2. recs[j].state = StateReserved => recs[j].token \in Call \ {c}
        BY <1>2, <1>3, <2>2, <3>1 DEF Genuine
      <3>3. Genuine(recs[j], j)'
        BY <1>6, <2>1, <2>2, <3>1 DEF Genuine
      <3>4. recs[j].state = StateReserved =>
               /\ recs[j] = reservation(recs[j].token)
               /\ result[recs[j].token] \in {"none", "unknown"}
        BY <2>2 DEF IInv, StoreInv
      <3>. QED  BY <2>2, <3>2, <3>3, <3>4 DEF reservation
    <2>3. CASE recs'[j] # recs[j]
      <3>1. /\ j = k /\ recs[k].state = StateReserved /\ recs[k].token = c
            /\ ~leaseLost(settle(c, d).err) /\ d = "Persist"
            /\ recs'[k] = completion(recs[k], c, now)
        BY <1>2, <2>3, <1>left, <1>none
      <3>2. Genuine(recs[k], k) /\ recs[k].lease <= now + leaseTTL
        BY <1>1, <3>1 DEF IInv, StoreInv, Genuine, StateReserved
      <3>3. Completed(c)'
        BY <1>3, <3>1 DEF Completed
      <3>4. /\ recs'[k].token = c /\ recs'[k].payload = c
            /\ recs'[k].fp = recs[k].fp /\ recs'[k].lease = recs[k].lease
        BY <3>1 DEF completion
      <3>5. Genuine(recs[k], k)'
        BY <3>1, <3>2, <3>3, <3>4 DEF Genuine
      <3>. QED  BY <1>done, <3>1, <3>5
    <2>. QED  BY <2>2, <2>3
  <1>9. HolderIntact'
    <2>. SUFFICES ASSUME NEW e \in Call, Holds(e)'
                  PROVE  recs'[key[e]] = reservation(e)
      BY DEF HolderIntact, reservation
    <2>1. e # c /\ Holds(e)
      BY DEF Holds
    <2>2. recs[key[e]] = reservation(e) /\ ~Expired(recs[key[e]], now)
      BY <2>1, HolderLive
    <2>3. recs[key[e]].token # c
      BY <2>1, <2>2 DEF reservation
    <2>4. recs'[key[e]] = recs[key[e]]
      BY <1>1, <1>2, <2>2, <2>3, SettleEffect DEF IInv
    <2>. QED  BY <2>2, <2>4
  <1>. QED  BY <1>7, <1>8, <1>9

(* A claim of call c, on time or late, takes a key whose record has        *)
(* expired and hence takes nothing from a call whose lease is valid.       *)
LEMMA ClaimKeeps ==
  ASSUME IInv, TypeOK', NEW c \in Call,
         Expired(recs[key[c]], now),
         recs'[key[c]] = reservation(c),
         \A k \in Key \ {key[c]} : recs'[k] = recs[k],
         UNCHANGED <<now, key, fp, lease, decided, result>>,
         \A e \in Call \ {c} : pc'[e] = pc[e],
         pc[c] \in {"reserve", "failed"},
         pc'[c] \in {"running", "failed"},
         \A e \in Call : pc'[e] = "judge" => existing'[e] = existing[e],
         \A e \in Call : outcome'[e].action = "Replay" => outcome'[e] = outcome[e]
  PROVE  StoreInv' /\ BeginInv' /\ HolderIntact'
  <1>. DEFINE k == key[c]
  <1>1. /\ k \in Key /\ now \in Nat
        /\ decided[c] = "none" /\ result[c] = "none" /\ lease[c] <= now + leaseTTL
    BY DEF IInv, TypeOK, FinishInv, BeginInv
  <1>2. ASSUME NEW p \in Call, Completed(p) PROVE Completed(p)'
    <2>1. p # c
      BY <1>1, <1>2 DEF Completed
    <2>. QED  BY <1>2, <2>1 DEF IInv, TypeOK, Completed, reservation
  <1>3. \A r \in Records, j \in Key : Genuine(r, j) => Genuine(r, j)'
    BY <1>2, GenuineKept
  <1>4. BeginInv'
    BY <1>2, BeginKept
  <1>5. StoreInv'
    <2>. SUFFICES ASSUME NEW j \in Key, (recs[j].state # 0)'
                  PROVE  /\ Genuine(recs[j], j)'
                         /\ (recs[j].state = StateReserved =>
                               /\ recs[j] = reservation(recs[j].token)
                               /\ result[recs[j].token] \in {"none", "unknown"})'
      BY DEF StoreInv
    <2>1. CASE j = k
      BY <1>1, <2>1 DEF Genuine, reservation, StateReserved, StateCompleted
    <2>2. CASE j # k
      <3>1. recs'[j] = recs[j] /\ recs[j] \in Records /\ Genuine(recs[j], j)
        BY <2>2 DEF IInv, TypeOK, StoreInv
      <3>2. Genuine(recs[j], j)'
        BY <1>3, <3>1 DEF Genuine
      <3>. QED  BY <3>1, <3>2 DEF IInv, StoreInv, reservation
    <2>. QED  BY <2>1, <2>2
  <1>6. HolderIntact'
    <2>. SUFFICES ASSUME NEW e \in Call, Holds(e)'
                  PROVE  recs'[key[e]] = reservation(e)
      BY DEF HolderIntact, reservation
    <2>1. CASE e = c
      BY <2>1
    <2>2. CASE e # c
      <3>1. recs[key[e]] = reservation(e) /\ ~Expired(recs[key[e]], now)
        BY <2>2, HolderLive DEF Holds
      <3>. QED  BY <3>1 DEF IInv, TypeOK
    <2>. QED  BY <2>1, <2>2
  <1>. QED  BY <1>4, <1>5, <1>6

(* A call that got no token never reaches the Store.                       *)
LEMMA NewTokenErrorKeeps ==
  ASSUME IInv, NEW c \in Call, NewTokenError(c), TypeOK'
  PROVE  IInv'
  <1>. USE DEF NewTokenError, answer, store, args, ending
  <1>1. StoreInv'
    BY DEF IInv, TypeOK, StoreInv, Genuine, Completed, reservation
  <1>2. BeginInv'
    BY DEF IInv, TypeOK, BeginInv, Genuine, Completed, reservation
  <1>3. FinishInv'
    BY DEF IInv, TypeOK, FinishInv, Requests
  <1>4. HolderIntact'
    BY DEF IInv, TypeOK, HolderIntact, Holds, reservation
  <1>. QED  BY <1>1, <1>2, <1>3, <1>4 DEF IInv

(* Stamping LeaseExpiresAt concerns a call that holds nothing yet.         *)
LEMMA StampKeeps ==
  ASSUME IInv, NEW c \in Call, Stamp(c), TypeOK'
  PROVE  IInv'
  <1>. USE DEF Stamp, store, args, ending
  <1>1. StoreInv'
    BY TTLPositive, RecordFields DEF IInv, TypeOK, StoreInv, Genuine,
       Completed, reservation
  <1>2. BeginInv'
    BY TTLPositive, RecordFields DEF IInv, TypeOK, BeginInv, Genuine,
       Completed, reservation
  <1>3. FinishInv'
    BY TTLPositive, RecordFields DEF IInv, TypeOK, FinishInv, Requests
  <1>4. HolderIntact'
    BY TTLPositive, RecordFields DEF IInv, TypeOK, HolderIntact, Holds,
       reservation
  <1>. QED  BY <1>1, <1>2, <1>3, <1>4 DEF IInv

(* A step of Begin that keeps c short of its Finish leaves alone what      *)
(* FinishInv says of the calls that gave up.                               *)
LEMMA FinishKept ==
  ASSUME TypeOK, FinishInv, NEW c \in Call,
         pc[c] = "reserve", pc'[c] \in {"judge", "running"},
         \A d \in Call \ {c} : pc'[d] = pc[d],
         UNCHANGED <<late, decided, result>>
  PROVE  FinishInv'
  <1>1. decided[c] = "none" /\ result[c] = "none"
    BY DEF FinishInv
  <1>2. \A d \in Call :
          /\ pc'[d] \notin {"unsettled", "finished", "crashed"}
                => decided'[d] = "none" /\ result'[d] = "none"
          /\ pc'[d] = "unsettled" => decided'[d] = "Persist" /\ result'[d] = "unknown"
    BY <1>1 DEF FinishInv
  <1>3. \A o \in late : o.call \in Call /\ o.call # c
    BY <1>1 DEF TypeOK, FinishInv, Requests
  <1>4. \A o \in late : pc'[o.call] = pc[o.call]
    BY <1>3
  <1>. QED  BY <1>2, <1>4 DEF FinishInv

(* Reserve gives the caller a lease nobody else holds, or a genuine record *)
(* to judge.                                                               *)
LEMMA ReserveCallKeeps ==
  ASSUME IInv, NEW c \in Call, ReserveCall(c), TypeOK'
  PROVE  IInv'
  <1>. DEFINE k == key[c]
              r == Reserve(recs, k, reservation(c), now)
  <1>1. k \in Key /\ now \in Nat /\ recs[k] \in Records /\ pc[c] = "reserve"
    BY DEF IInv, TypeOK, ReserveCall
  <1>2. /\ pc' \in [Call -> PCs] /\ \A d \in Call \ {c} : pc'[d] = pc[d]
        /\ \A d \in Call \ {c} : existing'[d] = existing[d] /\ outcome'[d] = outcome[d]
        /\ UNCHANGED <<now, late, attempt, key, fp, lease, decided, result>>
        /\ \A j \in Key \ {k} : recs'[j] = recs[j]
    BY ClaimEffect DEF IInv, TypeOK, ReserveCall, answer, args, ending
  <1>3. CASE Expired(recs[k], now)
    <2>1. /\ recs'[k] = reservation(c) /\ pc'[c] = "running"
          /\ outcome'[c].action = "Proceed"
      BY <1>3, ClaimEffect DEF IInv, TypeOK, ReserveCall, answer
    <2>2. StoreInv' /\ BeginInv' /\ HolderIntact'
      BY <1>1, <1>2, <1>3, <2>1, ClaimKeeps
    <2>3. FinishInv'
      BY <1>1, <1>2, <2>1, FinishKept DEF IInv
    <2>. QED  BY <2>2, <2>3 DEF IInv
  <1>4. CASE ~Expired(recs[k], now)
    <2>1. /\ recs' = recs /\ pc'[c] = "judge" /\ existing'[c] = recs[k]
          /\ outcome' = outcome
      BY <1>4, ReserveEffect DEF IInv, TypeOK, ReserveCall
    <2>2. StoreInv'
      BY <1>1, <1>2, <2>1 DEF IInv, TypeOK, StoreInv, Genuine, Completed,
         reservation
    <2>3. BeginInv'
      BY <1>1, <1>2, <1>4, <2>1, LiveState DEF IInv, TypeOK, StoreInv,
         BeginInv,
         Genuine, Completed
    <2>4. FinishInv'
      BY <1>1, <1>2, <2>1, FinishKept DEF IInv
    <2>5. HolderIntact'
      BY <1>1, <1>2, <2>1 DEF IInv, TypeOK, HolderIntact, Holds, reservation
    <2>. QED  BY <2>2, <2>3, <2>4, <2>5 DEF IInv
  <1>. QED  BY <1>3, <1>4

(* A Reserve without an answer leaves a request on its way, and no lease.  *)
LEMMA ReserveErrorKeeps ==
  ASSUME IInv, NEW c \in Call, ReserveError(c), TypeOK'
  PROVE  IInv'
  <1>. USE DEF ReserveError, answer, fail, args, ending
  <1>1. StoreInv'
    BY DEF IInv, TypeOK, StoreInv, Genuine, Completed, reservation
  <1>2. BeginInv'
    BY DEF IInv, TypeOK, BeginInv, Genuine, Completed, reservation
  <1>3. FinishInv'
    BY DEF IInv, TypeOK, FinishInv, Requests
  <1>4. HolderIntact'
    BY DEF IInv, TypeOK, HolderIntact, Holds, reservation
  <1>. QED  BY <1>1, <1>2, <1>3, <1>4 DEF IInv

(* Going round again, or giving up after maxAttempts, claims nothing.      *)
LEMMA JudgeExpiredKeeps ==
  ASSUME IInv, NEW c \in Call, JudgeExpired(c), TypeOK'
  PROVE  IInv'
  <1>. USE DEF JudgeExpired, answer, store, args, ending
  <1>1. StoreInv'
    BY DEF IInv, TypeOK, StoreInv, Genuine, Completed, reservation
  <1>2. BeginInv'
    BY DEF IInv, TypeOK, BeginInv, Genuine, Completed, reservation
  <1>3. FinishInv'
    BY DEF IInv, TypeOK, FinishInv, Requests
  <1>4. HolderIntact'
    BY DEF IInv, TypeOK, HolderIntact, Holds, reservation
  <1>. QED  BY <1>1, <1>2, <1>3, <1>4 DEF IInv

(* The verdict on a live record follows from a genuine one.                *)
LEMMA JudgeLiveKeeps ==
  ASSUME IInv, NEW c \in Call, JudgeLive(c), TypeOK'
  PROVE  IInv'
  <1>. USE DEF JudgeLive, answer, store, args, ending
  <1>1. StoreInv'
    BY RecordFields DEF IInv, TypeOK, StoreInv, Genuine, Completed, reservation
  <1>2. BeginInv'
    BY RecordFields DEF IInv, TypeOK, BeginInv, Genuine, Completed, reservation
  <1>3. FinishInv'
    BY RecordFields DEF IInv, TypeOK, FinishInv, Requests
  <1>4. HolderIntact'
    BY RecordFields DEF IInv, TypeOK, HolderIntact, Holds, reservation
  <1>. QED  BY <1>1, <1>2, <1>3, <1>4 DEF IInv

(* Finish settles the reservation of its own call and of no other.         *)
LEMMA FinishKeeps ==
  ASSUME IInv, NEW c \in Call, NEW d \in {"Persist", "Discard"}, Finish(c, d), TypeOK'
  PROVE  IInv'
  <1>1. /\ pc[c] = "running" /\ decided[c] = "none" /\ pc' = [pc EXCEPT ![c] = "finished"]
        /\ UNCHANGED <<now, key, fp, lease, existing, outcome, late>>
        /\ recs' = settle(c, d).recs
        /\ decided' = [decided EXCEPT ![c] = d]
        /\ \A e \in Call \ {c} : result'[e] = result[e]
        /\ ~leaseLost(settle(c, d).err) /\ d = "Persist" => result'[c] = "persisted"
    BY DEF IInv, TypeOK, FinishInv, Finish, args
  <1>2. ~Completed(c)
    BY <1>1 DEF Completed
  <1>3. StoreInv' /\ BeginInv' /\ HolderIntact'
    BY <1>1, <1>2, SettleKeeps DEF IInv, TypeOK
  <1>4. FinishInv'
    BY <1>1 DEF IInv, TypeOK, FinishInv, Requests
  <1>. QED  BY <1>3, <1>4 DEF IInv

(* A Finish without an answer leaves a request on its way.                 *)
LEMMA FinishErrorKeeps ==
  ASSUME IInv, NEW c \in Call, NEW d \in {"Persist", "Discard"}, FinishError(c, d), TypeOK'
  PROVE  IInv'
  <1>. USE DEF FinishError, fail, args
  <1>1. decided[c] = "none" /\ result[c] = "none" /\ pc[c] = "running"
    BY DEF IInv, FinishInv
  <1>2. ASSUME NEW p \in Call, Completed(p) PROVE Completed(p)'
    BY <1>1, <1>2 DEF IInv, TypeOK, Completed
  <1>3. BeginInv'
    BY <1>2, BeginKept DEF IInv, TypeOK
  <1>4. StoreInv'
    BY <1>1, <1>2 DEF IInv, TypeOK, StoreInv, Genuine, reservation, Completed
  <1>5. FinishInv'
    BY DEF IInv, TypeOK, FinishInv, Requests
  <1>6. HolderIntact'
    BY DEF IInv, TypeOK, HolderIntact, Holds, reservation
  <1>. QED  BY <1>3, <1>4, <1>5, <1>6 DEF IInv

(* The release after a failed Persist settles its own call only.           *)
LEMMA FinishAgainKeeps ==
  ASSUME IInv, NEW c \in Call, FinishAgain(c), TypeOK'
  PROVE  IInv'
  <1>1. /\ pc[c] = "unsettled" /\ pc' = [pc EXCEPT ![c] = "finished"]
        /\ decided[c] = "Persist" /\ result[c] = "unknown"
        /\ UNCHANGED <<now, key, fp, lease, existing, outcome, decided>>
    BY DEF IInv, FinishInv, FinishAgain, args
  <1>2. CASE /\ recs' = settle(c, "Discard").recs
             /\ result' = [result EXCEPT ![c] =
                   IF leaseLost(settle(c, "Discard").err) THEN @ ELSE "discarded"]
             /\ UNCHANGED late
    <2>1. Completed(c) => result'[c] = result[c]
      BY <1>2, SettleEffect DEF IInv, TypeOK, Completed
    <2>2. StoreInv' /\ BeginInv' /\ HolderIntact'
      BY <1>1, <1>2, <2>1, SettleKeeps DEF IInv, TypeOK
    <2>3. FinishInv'
      BY <1>1, <1>2 DEF IInv, TypeOK, FinishInv, Requests
    <2>. QED  BY <2>2, <2>3 DEF IInv
  <1>3. CASE fail(c, "Discard") /\ UNCHANGED <<recs, result>>
    <2>1. StoreInv'
      BY <1>1, <1>3 DEF IInv, TypeOK, StoreInv, Genuine, Completed, reservation
    <2>2. BeginInv'
      BY <1>1, <1>3 DEF IInv, TypeOK, BeginInv, Genuine, Completed, reservation
    <2>3. FinishInv'
      BY <1>1, <1>3 DEF IInv, TypeOK, FinishInv, Requests, fail
    <2>4. HolderIntact'
      BY <1>1, <1>3 DEF IInv, TypeOK, HolderIntact, Holds, reservation
    <2>. QED  BY <2>1, <2>2, <2>3, <2>4 DEF IInv
  <1>. QED  BY <1>2, <1>3 DEF FinishAgain

(* A request that arrives after its caller gave up takes nothing from a    *)
(* call whose lease is valid.                                              *)
LEMMA LateArrivalKeeps ==
  ASSUME IInv, NEW o \in late, LateArrival(o), TypeOK'
  PROVE  IInv'
  <1>1. /\ o \in Requests /\ late' = late \ {o}
        /\ UNCHANGED <<now, pc, key, fp, lease, existing, outcome, decided, result>>
    BY DEF IInv, TypeOK, LateArrival, args, ending
  <1>2. FinishInv'
    BY <1>1 DEF IInv, TypeOK, FinishInv, Requests
  <1>. DEFINE c == o.call
  <1>3. c \in Call /\ c \in DOMAIN pc
    BY <1>1 DEF Requests, IInv, TypeOK
  <1>4. CASE o.op = "reserve"
    <2>1. pc[c] = "failed" /\ recs' = Reserve(recs, key[c], reservation(c), now).recs
      BY <1>4 DEF IInv, FinishInv, LateArrival
    <2>2. CASE Expired(recs[key[c]], now)
      <3>1. recs'[key[c]] = reservation(c) /\ \A k \in Key \ {key[c]} : recs'[k] = recs[k]
        BY <1>3, <2>1, <2>2, ClaimEffect DEF IInv
      <3>. QED  BY <1>1, <1>2, <1>3, <2>1, <2>2, <3>1, ClaimKeeps DEF IInv
    <2>3. CASE ~Expired(recs[key[c]], now)
      <3>1. recs \in [Key -> Records] /\ recs' \in [Key -> Records]
        BY DEF IInv, TypeOK
      <3>2. \A k \in Key : recs'[k] = recs[k]
        BY <1>3, <2>1, <2>3, ClaimEffect DEF IInv
      <3>3. recs' = recs
        BY <3>1, <3>2
      <3>. QED
        BY <1>1, <1>2, <3>3 DEF IInv, StoreInv, BeginInv, HolderIntact, Holds,
           Genuine, Completed, reservation
    <2>. QED  BY <2>2, <2>3
  <1>5. CASE o.op # "reserve"
    <2>1. /\ o.op \in {"Persist", "Discard"}
          /\ recs' = settle(c, o.op).recs
      BY <1>1, <1>5 DEF Requests, LateArrival
    <2>2. /\ pc[c] \in {"unsettled", "finished", "crashed"}
          /\ o.op = "Persist" => /\ decided[c] = "Persist"
                                 /\ result[c] \in {"unknown", "discarded"}
      BY <2>1 DEF IInv, FinishInv
    <2>3. ~leaseLost(settle(c, o.op).err) => result[c] \in {"none", "unknown"}
      <3>1. SUFFICES ASSUME ~leaseLost(settle(c, o.op).err)
                     PROVE  result[c] \in {"none", "unknown"}
        OBVIOUS
      <3>2. recs[key[c]].state = StateReserved /\ recs[key[c]].token = c /\ key[c] \in Key
        BY <1>3, <2>1, <3>1, SettleEffect DEF IInv, TypeOK
      <3>. QED  BY <3>2 DEF IInv, StoreInv, StateReserved
    <2>4. StoreInv' /\ BeginInv' /\ HolderIntact'
      BY <1>1, <1>3, <2>1, <2>2, <2>3, SettleKeeps
    <2>. QED  BY <1>2, <2>4 DEF IInv
  <1>. QED  BY <1>4, <1>5

(* Get deletes at most a record that has expired.                          *)
LEMMA InspectKeeps ==
  ASSUME IInv, NEW k \in Key, Inspect(k), TypeOK'
  PROVE  IInv'
  <1>1. /\ UNCHANGED <<now, late, pc, key, fp, lease, existing, outcome, decided, result>>
        /\ \A j \in Key \ {k} : recs'[j] = recs[j]
        /\ \/ recs'[k] = recs[k]
           \/ recs'[k] = NoRecord /\ Expired(recs[k], now)
    BY DEF IInv, TypeOK, Inspect, Get, lookup, args, ending
  <1>2. \A j \in Key : recs'[j].state # 0 => recs'[j] = recs[j]
    BY <1>1 DEF NoRecord
  <1>3. ASSUME NEW p \in Call, Completed(p) PROVE Completed(p)'
    BY <1>1, <1>2, <1>3 DEF IInv, TypeOK, Completed, StateReserved
  <1>4. \A r \in Records, j \in Key : Genuine(r, j) => Genuine(r, j)'
    BY <1>1, <1>3, GenuineKept
  <1>5. BeginInv'
    BY <1>1, <1>3, BeginKept
  <1>6. StoreInv'
    <2>. SUFFICES ASSUME NEW j \in Key, (recs[j].state # 0)'
                  PROVE  /\ Genuine(recs[j], j)'
                         /\ (recs[j].state = StateReserved =>
                               /\ recs[j] = reservation(recs[j].token)
                               /\ result[recs[j].token] \in {"none", "unknown"})'
      BY DEF StoreInv
    <2>1. recs'[j] = recs[j] /\ recs[j] \in Records /\ Genuine(recs[j], j)
      BY <1>2 DEF IInv, TypeOK, StoreInv
    <2>2. Genuine(recs[j], j)'
      BY <1>4, <2>1 DEF Genuine
    <2>. QED  BY <1>1, <2>1, <2>2 DEF IInv, StoreInv, reservation
  <1>7. FinishInv'
    BY <1>1 DEF IInv, FinishInv
  <1>8. HolderIntact'
    <2>. SUFFICES ASSUME NEW e \in Call, Holds(e)'
                  PROVE  recs'[key[e]] = reservation(e)
      BY <1>1 DEF HolderIntact, reservation
    <2>1. recs[key[e]] = reservation(e) /\ ~Expired(recs[key[e]], now)
      BY <1>1, HolderLive DEF Holds
    <2>. QED  BY <1>1, <2>1 DEF IInv, TypeOK
  <1>. QED  BY <1>5, <1>6, <1>7, <1>8 DEF IInv

(* The death of a process changes nothing in the Store.                    *)
LEMMA CrashKeeps ==
  ASSUME IInv, NEW c \in Call, Crash(c), TypeOK'
  PROVE  IInv'
  <1>. USE DEF Crash, store, args, ending
  <1>1. StoreInv'
    BY DEF IInv, TypeOK, StoreInv, Genuine, Completed, reservation
  <1>2. BeginInv'
    BY DEF IInv, TypeOK, BeginInv, Genuine, Completed, reservation
  <1>3. FinishInv'
    BY DEF IInv, TypeOK, FinishInv, Requests
  <1>4. HolderIntact'
    BY DEF IInv, TypeOK, HolderIntact, Holds, reservation
  <1>. QED  BY <1>1, <1>2, <1>3, <1>4 DEF IInv

(* Time ends leases, and begins none.                                      *)
LEMMA TickKeeps ==
  ASSUME IInv, Tick, TypeOK'
  PROVE  IInv'
  <1>. USE DEF Tick, args, ending
  <1>1. StoreInv'
    BY RecordFields, TTLPositive DEF IInv, TypeOK, StoreInv, Genuine,
       Completed, reservation
  <1>2. BeginInv'
    BY RecordFields, TTLPositive DEF IInv, TypeOK, BeginInv, Genuine,
       Completed, reservation
  <1>3. FinishInv'
    BY RecordFields, TTLPositive DEF IInv, TypeOK, FinishInv, Requests
  <1>4. HolderIntact'
    BY RecordFields, TTLPositive DEF IInv, TypeOK, HolderIntact, Holds,
       reservation
  <1>. QED  BY <1>1, <1>2, <1>3, <1>4 DEF IInv

(* Every step of every call, of the environment and of the clock keeps the *)
(* inductive invariant.                                                    *)
LEMMA StepInv == IInv /\ [Next]_vars => IInv'
  <1>. SUFFICES ASSUME IInv, [Next]_vars PROVE IInv'
    OBVIOUS
  <1>1. TypeOK'
    BY TypeStep DEF IInv
  <1>2. ASSUME NEW c \in Call, Step(c) PROVE IInv'
    BY <1>1, <1>2, NewTokenErrorKeeps, StampKeeps, ReserveCallKeeps,
       ReserveErrorKeeps, JudgeExpiredKeeps, JudgeLiveKeeps, FinishKeeps,
       FinishErrorKeeps, FinishAgainKeeps, CrashKeeps DEF Step, BeginStep
  <1>3. ASSUME NEW o \in late, LateArrival(o) PROVE IInv'
    BY <1>1, <1>3, LateArrivalKeeps
  <1>4. ASSUME NEW k \in Key, Inspect(k) PROVE IInv'
    BY <1>1, <1>4, InspectKeeps
  <1>5. CASE Tick
    BY <1>1, <1>5, TickKeeps
  <1>6. CASE UNCHANGED vars
    BY <1>6 DEF vars, IInv, TypeOK, StoreInv, BeginInv, FinishInv,
       HolderIntact,
       Holds, Genuine, Completed, reservation
  <1>. QED  BY <1>2, <1>3, <1>4, <1>5, <1>6 DEF Next

(* The inductive invariant holds in every reachable state.                 *)
THEOREM Invariant == Spec => []IInv
  BY InitInv, StepInv, PTL DEF Spec

(* An executing call whose lease is valid still finds its reservation in   *)
(* the Store as Begin left it.                                             *)
THEOREM HolderIntactCorrect == Spec => []HolderIntact
  <1>1. IInv => HolderIntact
    BY DEF IInv
  <1>. QED  BY Invariant, <1>1, PTL

(* At most one execution of a key holds a valid lease at any time, for any *)
(* number of calls and keys, any TTLs and any requests that arrive late.   *)
THEOREM Exclusive == Spec => []LeaseExclusive
  <1>1. IInv => LeaseExclusive
    <2>. SUFFICES ASSUME IInv, NEW c \in Call, NEW d \in Call,
                         Holds(c), Holds(d), key[c] = key[d]
                  PROVE  c = d
      BY DEF LeaseExclusive
    <2>1. reservation(c) = reservation(d)
      BY HolderLive
    <2>. QED  BY <2>1 DEF reservation
  <1>. QED  BY Invariant, <1>1, PTL

(* A replayed payload is the persisted result of an execution of the same  *)
(* key and fingerprint that was not told that its lease was lost.          *)
THEOREM Replays == Spec => []ReplayFaithful
  <1>1. IInv => ReplayFaithful
    BY DEF IInv, BeginInv, ReplayFaithful, Completed
  <1>. QED  BY Invariant, <1>1, PTL

-----------------------------------------------------------------------------
(* Action properties *)

(* A completed record is not one that Complete or Release acts on, and a   *)
(* live one is not one that Reserve or Get removes: no step changes it.    *)
LEMMA StableStep ==
  ASSUME IInv, [Next]_vars, NEW k \in Key,
         recs[k].state = StateCompleted, ~Expired(recs[k], now)
  PROVE  recs'[k] = recs[k]
  <1>. USE DEF args, ending, store
  <1>1. TypeOK /\ StateCompleted # StateReserved
    BY DEF IInv, StateCompleted, StateReserved
  <1>2. ASSUME NEW c \in Call, recs' = Reserve(recs, key[c], reservation(c), now).recs
        PROVE  recs'[k] = recs[k]
    BY <1>1, <1>2, ClaimEffect
  <1>3. ASSUME NEW c \in Call, NEW d \in {"Persist", "Discard"}, recs' = settle(c, d).recs
        PROVE  recs'[k] = recs[k]
    BY <1>1, <1>3, SettleEffect
  <1>4. ASSUME NEW c \in Call, Step(c) PROVE recs'[k] = recs[k]
    <2>1. CASE recs' = recs
      BY <2>1
    <2>2. CASE ReserveCall(c)
      BY <1>2, <2>2 DEF ReserveCall
    <2>3. CASE \E d \in {"Persist", "Discard"} : Finish(c, d)
      BY <1>3, <2>3 DEF Finish
    <2>4. CASE FinishAgain(c)
      BY <1>3, <2>1, <2>4 DEF FinishAgain
    <2>. QED
      BY <1>4, <2>1, <2>2, <2>3, <2>4 DEF Step, BeginStep, NewTokenError,
         Stamp,
         ReserveError, JudgeExpired, JudgeLive, FinishError, Crash
  <1>5. ASSUME NEW o \in late, LateArrival(o) PROVE recs'[k] = recs[k]
    BY <1>1, <1>2, <1>3, <1>5 DEF LateArrival, TypeOK, Requests
  <1>6. ASSUME NEW j \in Key, Inspect(j) PROVE recs'[k] = recs[k]
    BY <1>1, <1>6 DEF Inspect, Get, lookup, TypeOK
  <1>7. CASE Tick
    BY <1>7 DEF Tick
  <1>8. CASE UNCHANGED vars
    BY <1>8 DEF vars
  <1>. QED  BY <1>4, <1>5, <1>6, <1>7, <1>8 DEF Next

(* A persisted result stays replayable, unchanged, until RecordExpiresAt.  *)
THEOREM Stable == Spec => CompletedStable
  <1>1. IInv /\ [Next]_vars =>
          [\A k \in Key : recs[k].state = StateCompleted /\ ~Expired(recs[k], now)
                             => recs'[k] = recs[k]]_vars
    BY StableStep
  <1>. QED  BY Invariant, <1>1, PTL DEF Spec, CompletedStable

(* Only JudgeLive rejects a call in flight, on a reservation of another    *)
(* call of the same key, with a wait within that call's lease.             *)
THEOREM Rejections == Spec => RejectionJustified
  <1>. DEFINE Justified ==
         \A c \in Call :
            outcome'[c] # outcome[c] /\ outcome'[c].action = "RejectInFlight" =>
              /\ existing[c].token \in Call \ {c}
              /\ key[existing[c].token] = key[c]
              /\ outcome'[c].retryAfter \in 1 .. leaseTTL
  <1>1. ASSUME IInv, [Next]_vars PROVE Justified
    <2>. SUFFICES ASSUME NEW c \in Call, outcome'[c] # outcome[c],
                         outcome'[c].action = "RejectInFlight"
                  PROVE  /\ existing[c].token \in Call \ {c}
                         /\ key[existing[c].token] = key[c]
                         /\ outcome'[c].retryAfter \in 1 .. leaseTTL
      OBVIOUS
    <2>1. JudgeLive(c)
      BY <1>1 DEF Next, Step, BeginStep, NewTokenError, Stamp, ReserveCall,
         ReserveError, JudgeExpired, JudgeLive, Finish, FinishError, FinishAgain,
         LateArrival, Inspect, Crash, Tick, answer, args, ending, store, vars,
         IInv, TypeOK
    <2>2. /\ existing[c].state = StateReserved /\ ~Expired(existing[c], now)
          /\ outcome'[c].retryAfter = existing[c].lease - now
      BY <1>1, <2>1 DEF JudgeLive, answer, IInv, TypeOK
    <2>3. /\ existing[c].token \in Call \ {c} /\ key[existing[c].token] = key[c]
          /\ existing[c].lease <= now + leaseTTL
      BY <1>1, <2>1 DEF JudgeLive, IInv, BeginInv, Genuine
    <2>4. now \in Nat /\ existing[c].lease \in Nat /\ now < existing[c].lease
      BY <1>1, <2>2, RecordFields DEF IInv, TypeOK, Expired, StateReserved,
         StateCompleted
    <2>. QED  BY <2>2, <2>3, <2>4, TTLPositive
  <1>2. IInv /\ [Next]_vars => [Justified]_vars
    BY <1>1
  <1>. QED  BY Invariant, <1>2, PTL DEF Spec, RejectionJustified

-----------------------------------------------------------------------------
(* Refinement of the contract *)

(* What has expired is free in the contract, at whatever instant.          *)
LEMMA FreeEntry ==
  /\ \A r, t : Expired(r, t) => entry(r, t) = Contract!Free
  /\ \A t \in Nat : entry(NoRecord, t) = Contract!Free
  BY ZeroRecord DEF entry, Contract!Free

(* The contract only sees a change at the key whose entry changes.         *)
LEMMA ViewChange ==
  ASSUME NEW k \in Key, UNCHANGED now,
         \A j \in Key \ {k} : recs'[j] = recs[j]
  PROVE  /\ view' = [view EXCEPT ![k] = entry(recs'[k], now)]
         /\ entry(recs'[k], now) = entry(recs[k], now) => UNCHANGED view
  BY DEF view

(* A claim is a Grant, or nothing if the lease it writes has run out on    *)
(* the way to the Store.                                                   *)
LEMMA ClaimRefines ==
  ASSUME IInv, NEW c \in Call, UNCHANGED now,
         recs' = Reserve(recs, key[c], reservation(c), now).recs
  PROVE  [Contract!ContractNext]_(Contract!contractVars)
  <1>. DEFINE k == key[c]
  <1>1. /\ TypeOK /\ k \in Key /\ now \in Nat /\ lease[c] \in Nat
        /\ lease[c] <= now + leaseTTL
    BY DEF IInv, TypeOK, BeginInv
  <1>2. \A j \in Key \ {k} : recs'[j] = recs[j]
    BY <1>1, ClaimEffect
  <1>3. CASE ~Expired(recs[k], now)
    <2>1. recs'[k] = recs[k]
      BY <1>1, <1>3, ClaimEffect
    <2>2. UNCHANGED view
      BY <1>1, <1>2, <2>1, ViewChange
    <2>. QED  BY <2>2 DEF Contract!contractVars
  <1>4. CASE Expired(recs[k], now) /\ lease[c] <= now
    <2>1. recs'[k] = reservation(c) /\ Expired(reservation(c), now)
      BY <1>1, <1>4, ClaimEffect DEF Expired, reservation, StateReserved,
         StateCompleted
    <2>2. UNCHANGED view
      BY <1>1, <1>2, <1>4, <2>1, ViewChange, FreeEntry
    <2>. QED  BY <2>2 DEF Contract!contractVars
  <1>5. CASE Expired(recs[k], now) /\ ~(lease[c] <= now)
    <2>1. /\ recs'[k] = reservation(c)
          /\ entry(reservation(c), now) = [kind |-> "leased", by |-> c, until |-> lease[c]]
      BY <1>1, <1>5, ClaimEffect DEF Expired, entry, reservation,
         StateReserved, StateCompleted
    <2>2. view[k] = Contract!Free
      BY <1>1, <1>5, FreeEntry DEF view
    <2>3. lease[c] \in (now + 1) .. (now + leaseTTL)
      BY <1>1, <1>5, TTLPositive
    <2>4. view' = [view EXCEPT ![k] = [kind |-> "leased", by |-> c, until |-> lease[c]]]
      BY <1>1, <1>2, <2>1, ViewChange
    <2>5. Contract!Grant(k, c, lease[c])
      BY <2>2, <2>4 DEF Contract!Grant
    <2>. QED  BY <1>1, <2>3, <2>5 DEF Contract!ContractNext
  <1>. QED  BY <1>3, <1>4, <1>5

(* A Complete is a Keep and a Release a GiveBack of the caller's own valid *)
(* lease; on a lost lease both are nothing at all.                         *)
LEMMA SettleRefines ==
  ASSUME IInv, NEW c \in Call, NEW d \in {"Persist", "Discard"}, UNCHANGED now,
         recs' = settle(c, d).recs
  PROVE  [Contract!ContractNext]_(Contract!contractVars)
  <1>. DEFINE k == key[c]
  <1>1. TypeOK /\ k \in Key /\ now \in Nat /\ recs[k] \in Records
    BY DEF IInv, TypeOK
  <1>2. \A j \in Key \ {k} : recs'[j] = recs[j]
    BY <1>1, SettleEffect
  <1>3. CASE \/ recs'[k] = recs[k]
             \/ Expired(recs[k], now) /\ recs'[k] = NoRecord
    <2>1. entry(recs'[k], now) = entry(recs[k], now)
      BY <1>1, <1>3, FreeEntry
    <2>2. UNCHANGED view
      BY <1>1, <1>2, <2>1, ViewChange
    <2>. QED  BY <2>2 DEF Contract!contractVars
  <1>4. CASE /\ ~Expired(recs[k], now) /\ recs[k].state = StateReserved
             /\ recs'[k] = NoRecord
    <2>1. view[k].kind = "leased"
      BY <1>1, <1>4 DEF view, entry
    <2>2. view' = [view EXCEPT ![k] = Contract!Free]
      BY <1>1, <1>2, <1>4, ViewChange, FreeEntry
    <2>3. Contract!GiveBack(k)
      BY <2>1, <2>2 DEF Contract!GiveBack
    <2>. QED  BY <1>1, <2>3 DEF Contract!ContractNext
  <1>5. CASE /\ ~Expired(recs[k], now) /\ recs[k].state = StateReserved
             /\ recs[k].token = c /\ recs'[k] = completion(recs[k], c, now)
    <2>. DEFINE u == now + recordTTL
    <2>1. view[k].kind = "leased" /\ view[k].by = c
      BY <1>1, <1>5 DEF view, entry
    <2>2. entry(recs'[k], now) = [kind |-> "stored", by |-> c, until |-> u]
      BY <1>1, <1>5, CompletionType DEF entry, completion, StateReserved,
         StateCompleted
    <2>3. u \in (now + 1) .. (now + recordTTL)
      BY <1>1, TTLPositive
    <2>4. view' = [view EXCEPT ![k] = [kind |-> "stored", by |-> c, until |-> u]]
      BY <1>1, <1>2, <2>2, ViewChange
    <2>5. Contract!Keep(k, u)
      BY <2>1, <2>4 DEF Contract!Keep
    <2>. QED  BY <1>1, <2>3, <2>5 DEF Contract!ContractNext
  <1>. QED  BY <1>1, <1>3, <1>4, <1>5, SettleEffect

(* A tick frees exactly what runs out at the new instant.                  *)
LEMMA TickRefines ==
  ASSUME IInv, Tick
  PROVE  Contract!Pass
  <1>1. now \in Nat /\ now' = now + 1 /\ recs' = recs
    BY DEF IInv, TypeOK, Tick
  <1>2. ASSUME NEW k \in Key
        PROVE  entry(recs[k], now + 1) =
                 IF view[k].until <= now + 1 THEN Contract!Free ELSE view[k]
    <2>1. recs[k] \in Records
      BY DEF IInv, TypeOK
    <2>2. view[k] = entry(recs[k], now)
      BY DEF view
    <2>3. CASE Expired(recs[k], now)
      <3>1. Expired(recs[k], now + 1)
        BY <1>1, <2>1, <2>3, RecordFields DEF Expired
      <3>2. view[k] = Contract!Free /\ entry(recs[k], now + 1) = Contract!Free
        BY <2>2, <2>3, <3>1, FreeEntry
      <3>. QED  BY <3>2
    <2>4. CASE ~Expired(recs[k], now)
      BY <1>1, <2>1, <2>2, <2>4, RecordFields
         DEF entry, Expired, StateReserved, StateCompleted, Contract!Free
    <2>. QED  BY <2>3, <2>4
  <1>. QED  BY <1>1, <1>2 DEF Contract!Pass, view

(* Begin and Finish over memstore, with lazy deletion, overwriting and     *)
(* late requests, implement the contract, in which expiry is immediate.    *)
THEOREM Refinement == Spec => Implements
  <1>1. Init => Contract!ContractInit
    BY FreeEntry DEF Init, New, view, Contract!ContractInit
  <1>2. IInv /\ [Next]_vars => [Contract!ContractNext]_(Contract!contractVars)
    <2>. SUFFICES ASSUME IInv, [Next]_vars
                  PROVE  [Contract!ContractNext]_(Contract!contractVars)
      OBVIOUS
    <2>. USE DEF args, ending, store
    <2>1. CASE UNCHANGED <<now, recs>>
      BY <2>1 DEF Contract!contractVars, view
    <2>2. ASSUME NEW c \in Call, Step(c)
          PROVE  [Contract!ContractNext]_(Contract!contractVars)
      <3>1. CASE ReserveCall(c)
        BY <3>1, ClaimRefines DEF ReserveCall
      <3>2. CASE \E d \in {"Persist", "Discard"} : Finish(c, d)
        BY <3>2, SettleRefines DEF Finish
      <3>3. CASE FinishAgain(c)
        BY <2>1, <3>3, SettleRefines DEF FinishAgain
      <3>. QED
        BY <2>1, <2>2, <3>1, <3>2, <3>3 DEF Step, BeginStep, NewTokenError,
           Stamp,
           ReserveError, JudgeExpired, JudgeLive, FinishError, Crash
    <2>3. ASSUME NEW o \in late, LateArrival(o)
          PROVE  [Contract!ContractNext]_(Contract!contractVars)
      BY <2>3, ClaimRefines, SettleRefines DEF LateArrival, IInv, TypeOK,
         Requests
    <2>4. ASSUME NEW k \in Key, Inspect(k)
          PROVE  [Contract!ContractNext]_(Contract!contractVars)
      <3>1. /\ \A j \in Key \ {k} : recs'[j] = recs[j] /\ UNCHANGED now /\ now \in Nat
            /\ \/ recs'[k] = recs[k]
               \/ recs'[k] = NoRecord /\ Expired(recs[k], now)
        BY <2>4 DEF IInv, TypeOK, Inspect, Get, lookup
      <3>2. UNCHANGED view
        BY <3>1, <2>4, ViewChange, FreeEntry DEF Inspect, IInv, TypeOK
      <3>. QED  BY <2>4, <3>2 DEF Inspect, Contract!contractVars
    <2>5. CASE Tick
      BY <2>5, TickRefines DEF Contract!ContractNext
    <2>. QED  BY <2>1, <2>2, <2>3, <2>4, <2>5 DEF Next, vars
  <1>. QED  BY Invariant, <1>1, <1>2, PTL DEF Spec, Implements,
     Contract!ContractSpec
=============================================================================
