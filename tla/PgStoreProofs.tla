---------------------------- MODULE PgStoreProofs ----------------------------
(***************************************************************************)
(* Proofs about PgStore, for every set of calls and keys, all TTLs and any *)
(* number of sweeps.                                                       *)
(***************************************************************************)
EXTENDS PgStore, TLAPS

USE NoneAssumption, TTLAssumption, BoundAssumption

-----------------------------------------------------------------------------
(* The operators the model is built from *)

(* The effective TTLs are positive whatever Options says.                  *)
LEMMA TTLPositive == leaseTTL \in Nat \ {0} /\ recordTTL \in Nat \ {0}
  BY DEF leaseTTL, recordTTL

(* The zero Record is a record; no predicate takes it for a row.           *)
LEMMA ZeroRecord ==
  /\ NoRecord \in Records /\ NoRecord.state = 0 /\ NoRecord.token = None
  BY DEF NoRecord, Records

(* The fields of a row have the types its columns give them.               *)
LEMMA RecordFields ==
  ASSUME NEW r \in Records
  PROVE  /\ r.state \in {0, StateReserved, StateCompleted}
         /\ r.token \in Call \cup {None} /\ r.payload \in Call \cup {None}
         /\ r.fp \in Fingerprint \cup {None}
         /\ r.lease \in Nat /\ r.expires \in Nat
  BY DEF Records

(* A row the clock still considers live is not expired for a statement     *)
(* whose now() is older, and a claim overwrites nothing else.              *)
LEMMA LiveNotExpired ==
  ASSUME NEW r \in Records, NEW t \in Nat, NEW u \in Nat, u <= t, live(r, t)
  PROVE  ~expired(r, u)
  BY RecordFields DEF live, expired, StateReserved, StateCompleted

(* leaseTTLMillis sends a positive TTL no longer than the lease.           *)
LEMMA ClaimTTL ==
  ASSUME TypeOK, TimeInv, NEW c \in Call
  PROVE  leaseTTLMillis(c) \in 1 .. leaseTTL
  BY TTLPositive DEF TypeOK, TimeInv, leaseTTLMillis

(* The row a claim writes and the row a completion writes are records of   *)
(* the call that wrote them.                                               *)
LEMMA RowTypes ==
  ASSUME TypeOK, NEW c \in Call
  PROVE  /\ claimed(c) \in Records
         /\ completed(c, ts[c]) \in Records
  <1>1. /\ ts[c] + ttl[c] \in Nat /\ ts[c] + recordTTL \in Nat
    BY TTLPositive DEF TypeOK
  <1>2. row[key[c]] \in Records /\ fp[c] \in Fingerprint
    BY DEF TypeOK
  <1>. QED
    BY <1>1, <1>2, RecordFields DEF claimed, completed, Records, StateReserved,
       StateCompleted

-----------------------------------------------------------------------------
(* The parts of the invariant, one lemma each, one step per action *)

(* Every action keeps the variables in their types.                        *)
LEMMA TypeStep == TypeOK /\ TimeInv /\ [Next]_vars => TypeOK'
  <1>. SUFFICES ASSUME TypeOK, TimeInv, [Next]_vars PROVE TypeOK'
    OBVIOUS
  <1>. USE DEF TypeOK, goto, over, table, gc, args, locals
  <1>1. ASSUME NEW c \in Call, BeginReserve(c) PROVE TypeOK'
    BY <1>1, TTLPositive DEF BeginReserve
  <1>2. ASSUME NEW c \in Call, IssueClaim(c) PROVE TypeOK'
    BY <1>2, ClaimTTL DEF IssueClaim
  <1>3. ASSUME NEW c \in Call, Claim(c) PROVE TypeOK'
    <2>1. CASE row' = [row EXCEPT ![key[c]] = claimed(c)] /\ return(c)
      <3>1. row' \in [Key -> Records] /\ lease' \in [Call -> Nat]
        BY <1>3, <2>1, RowTypes DEF Claim
      <3>2. attempt' \in [Call -> 0 .. 2] /\ stamp' \in [Call -> Nat]
        BY <2>1 DEF return
      <3>3. /\ ttl' \in [Call -> 0 .. leaseTTL]
            /\ \A e \in Call \ {c} : ttl'[e] = ttl[e] /\ pc'[e] = pc[e]
            /\ pc'[c] \notin {"issued", "claim"}
        BY <1>3, <2>1, TTLPositive DEF Claim, return
      <3>4. \A e \in Call : pc'[e] \in {"issued", "claim"} => ttl'[e] >= 1
        BY <3>3
      <3>5. /\ goto(c, "running") \/ goto(c, "failed") \/ goto(c, "read")
            /\ UNCHANGED <<now, lock, pend, sweep, seen, sweeps, key, fp, result, commits>>
            /\ over(c)
        BY <1>3 DEF Claim
      <3>. HIDE DEF table, gc, args, locals
      <3>. QED  BY <3>1, <3>2, <3>3, <3>4, <3>5
    <2>2. CASE UNCHANGED <<row, lease, locals>>
      BY <1>3, <2>2 DEF Claim
    <2>. QED  BY <1>3, <2>1, <2>2 DEF Claim
  <1>4. ASSUME NEW c \in Call, ReadExisting(c) PROVE TypeOK'
    BY <1>4, TTLPositive DEF ReadExisting, return
  <1>5. ASSUME NEW c \in Call, NEW s \in {"complete", "release"},
               IssueFinish(c, s)
        PROVE  TypeOK'
    BY <1>5 DEF IssueFinish
  <1>6. ASSUME NEW c \in Call, Complete(c) PROVE TypeOK'
    BY <1>6, RowTypes DEF Complete
  <1>7. ASSUME NEW c \in Call, Release(c) PROVE TypeOK'
    <2>1. /\ row' \in [Key -> Records] /\ seen' \in [Key -> Records]
          /\ sweep' \subseteq Key
      BY <1>7, ZeroRecord DEF Release, delete
    <2>. QED  BY <1>7, <2>1 DEF Release
  <1>8. ASSUME NEW c \in Call, ClassifyFailure(c) PROVE TypeOK'
    BY <1>8 DEF ClassifyFailure
  <1>9. ASSUME NEW c \in Call, StatementError(c) PROVE TypeOK'
    BY <1>9, TTLPositive DEF StatementError, return
  <1>10. ASSUME NEW c \in Call, BeginTx(c) PROVE TypeOK'
    BY <1>10 DEF BeginTx
  <1>11. ASSUME NEW c \in Call, CompleteTx(c) PROVE TypeOK'
    BY <1>11, RowTypes DEF CompleteTx
  <1>12. ASSUME NEW c \in Call, CompleteTxAgain(c) PROVE TypeOK'
    BY <1>12 DEF CompleteTxAgain
  <1>13. ASSUME NEW c \in Call, ClassifyTx(c) PROVE TypeOK'
    BY <1>13 DEF ClassifyTx
  <1>14. ASSUME NEW c \in Call, Commit(c) PROVE TypeOK'
    BY <1>14, ZeroRecord, RecordFields, SMTT(30) DEF Commit, unlock
  <1>15. ASSUME NEW c \in Call, Rollback(c) PROVE TypeOK'
    BY <1>15, ZeroRecord DEF Rollback, unlock
  <1>16. ASSUME NEW c \in Call, FinishAfterTx(c) PROVE TypeOK'
    BY <1>16 DEF FinishAfterTx
  <1>17. ASSUME NEW c \in Call, Crash(c) PROVE TypeOK'
    BY <1>17, ZeroRecord DEF Crash, unlock
  <1>18. ASSUME NEW S \in SUBSET Key, SweepSelect(S) PROVE TypeOK'
    <2>1. seen' \in [Key -> Records]
      BY <1>18, ZeroRecord DEF SweepSelect
    <2>. QED  BY <1>18, <2>1 DEF SweepSelect
  <1>19. ASSUME NEW k \in Key, SweepDelete(k) PROVE TypeOK'
    BY <1>19, ZeroRecord DEF SweepDelete, delete
  <1>20. ASSUME Tick PROVE TypeOK'
    BY <1>20 DEF Tick
  <1>21. ASSUME NEW c \in Call, StartClaim(c) PROVE TypeOK'
    BY <1>21 DEF StartClaim
  <1>22. CASE UNCHANGED vars
    BY <1>22 DEF vars
  <1>. QED
    BY <1>1, <1>2, <1>3, <1>4, <1>5, <1>6, <1>7, <1>8, <1>9, <1>10, <1>11,
       <1>12, <1>13, <1>14, <1>15, <1>16, <1>17, <1>18, <1>19, <1>20, <1>21,
       <1>22
    DEF Next, Step, ReserveStep, FinishStep, TxStep

(* now() of a statement stays behind the clock, a stamp within a lease of  *)
(* it.                                                                     *)
LEMMA TimeStep == TypeOK /\ TimeInv /\ [Next]_vars => TimeInv'
  <1>. SUFFICES ASSUME TypeOK, TimeInv, [Next]_vars PROVE TimeInv'
    OBVIOUS
  <1>. USE TTLPositive DEF TypeOK, TimeInv, goto, over, table, gc, args, locals
  <1>1. ASSUME NEW c \in Call, BeginReserve(c) PROVE TimeInv'
    BY <1>1 DEF BeginReserve
  <1>2. ASSUME NEW c \in Call, IssueClaim(c) PROVE TimeInv'
    BY <1>2 DEF IssueClaim
  <1>3. ASSUME NEW c \in Call, Claim(c) PROVE TimeInv'
    BY <1>3 DEF Claim, return
  <1>4. ASSUME NEW c \in Call, ReadExisting(c) PROVE TimeInv'
    BY <1>4 DEF ReadExisting, return
  <1>5. ASSUME NEW c \in Call, NEW s \in {"complete", "release"},
               IssueFinish(c, s)
        PROVE  TimeInv'
    BY <1>5 DEF IssueFinish
  <1>6. ASSUME NEW c \in Call, Complete(c) PROVE TimeInv'
    BY <1>6 DEF Complete
  <1>7. ASSUME NEW c \in Call, Release(c) PROVE TimeInv'
    BY <1>7 DEF Release
  <1>8. ASSUME NEW c \in Call, ClassifyFailure(c) PROVE TimeInv'
    BY <1>8 DEF ClassifyFailure
  <1>9. ASSUME NEW c \in Call, StatementError(c) PROVE TimeInv'
    BY <1>9 DEF StatementError, return
  <1>10. ASSUME NEW c \in Call, BeginTx(c) PROVE TimeInv'
    BY <1>10 DEF BeginTx
  <1>11. ASSUME NEW c \in Call, CompleteTx(c) PROVE TimeInv'
    BY <1>11 DEF CompleteTx
  <1>12. ASSUME NEW c \in Call, CompleteTxAgain(c) PROVE TimeInv'
    BY <1>12 DEF CompleteTxAgain
  <1>13. ASSUME NEW c \in Call, ClassifyTx(c) PROVE TimeInv'
    BY <1>13 DEF ClassifyTx
  <1>14. ASSUME NEW c \in Call, Commit(c) PROVE TimeInv'
    BY <1>14 DEF Commit
  <1>15. ASSUME NEW c \in Call, Rollback(c) PROVE TimeInv'
    BY <1>15 DEF Rollback
  <1>16. ASSUME NEW c \in Call, FinishAfterTx(c) PROVE TimeInv'
    BY <1>16 DEF FinishAfterTx
  <1>17. ASSUME NEW c \in Call, Crash(c) PROVE TimeInv'
    BY <1>17 DEF Crash
  <1>18. ASSUME NEW S \in SUBSET Key, SweepSelect(S) PROVE TimeInv'
    BY <1>18 DEF SweepSelect
  <1>19. ASSUME NEW k \in Key, SweepDelete(k) PROVE TimeInv'
    BY <1>19 DEF SweepDelete
  <1>20. ASSUME Tick PROVE TimeInv'
    BY <1>20 DEF Tick
  <1>21. ASSUME NEW c \in Call, StartClaim(c) PROVE TimeInv'
    BY <1>21 DEF StartClaim
  <1>22. CASE UNCHANGED vars
    BY <1>22 DEF vars
  <1>. QED
    BY <1>1, <1>2, <1>3, <1>4, <1>5, <1>6, <1>7, <1>8, <1>9, <1>10, <1>11,
       <1>12, <1>13, <1>14, <1>15, <1>16, <1>17, <1>18, <1>19, <1>20, <1>21,
       <1>22
    DEF Next, Step, ReserveStep, FinishStep, TxStep

(* A row lock is taken by CompleteTx on a reservation of its own, and only *)
(* Commit, Rollback and the end of the connection give it up; meanwhile no *)
(* statement of another call changes the row.                              *)
LEMMA LockStep == TypeOK /\ LockInv /\ [Next]_vars => LockInv'
  <1>. SUFFICES ASSUME TypeOK, LockInv, [Next]_vars PROVE LockInv'
    OBVIOUS
  <1>. USE DEF TypeOK, LockInv, LockProtects, goto, over, table, gc, args, locals
  <1>1. ASSUME NEW c \in Call, BeginReserve(c) PROVE LockInv'
    BY <1>1 DEF BeginReserve
  <1>2. ASSUME NEW c \in Call, IssueClaim(c) PROVE LockInv'
    BY <1>2 DEF IssueClaim
  <1>3. ASSUME NEW c \in Call, Claim(c) PROVE LockInv'
    BY <1>3 DEF Claim, claimed, return, expired
  <1>4. ASSUME NEW c \in Call, ReadExisting(c) PROVE LockInv'
    BY <1>4 DEF ReadExisting
  <1>5. ASSUME NEW c \in Call, NEW s \in {"complete", "release"},
               IssueFinish(c, s)
        PROVE  LockInv'
    BY <1>5 DEF IssueFinish
  <1>6. ASSUME NEW c \in Call, Complete(c) PROVE LockInv'
    BY <1>6 DEF Complete, cas, completed
  <1>7. ASSUME NEW c \in Call, Release(c) PROVE LockInv'
    BY <1>7 DEF Release, cas, delete
  <1>8. ASSUME NEW c \in Call, ClassifyFailure(c) PROVE LockInv'
    BY <1>8 DEF ClassifyFailure
  <1>9. ASSUME NEW c \in Call, StatementError(c) PROVE LockInv'
    BY <1>9 DEF StatementError, return
  <1>10. ASSUME NEW c \in Call, BeginTx(c) PROVE LockInv'
    BY <1>10 DEF BeginTx
  <1>11. ASSUME NEW c \in Call, CompleteTx(c) PROVE LockInv'
    BY <1>11 DEF CompleteTx, cas, completed
  <1>12. ASSUME NEW c \in Call, CompleteTxAgain(c) PROVE LockInv'
    BY <1>12 DEF CompleteTxAgain, live
  <1>13. ASSUME NEW c \in Call, ClassifyTx(c) PROVE LockInv'
    BY <1>13 DEF ClassifyTx, live
  <1>14. ASSUME NEW c \in Call, Commit(c) PROVE LockInv'
    BY <1>14 DEF Commit, unlock
  <1>15. ASSUME NEW c \in Call, Rollback(c) PROVE LockInv'
    BY <1>15 DEF Rollback, unlock
  <1>16. ASSUME NEW c \in Call, FinishAfterTx(c) PROVE LockInv'
    BY <1>16 DEF FinishAfterTx
  <1>17. ASSUME NEW c \in Call, Crash(c) PROVE LockInv'
    BY <1>17 DEF Crash, unlock
  <1>18. ASSUME NEW S \in SUBSET Key, SweepSelect(S) PROVE LockInv'
    BY <1>18 DEF SweepSelect, expired
  <1>19. ASSUME NEW k \in Key, SweepDelete(k) PROVE LockInv'
    BY <1>19 DEF SweepDelete, delete
  <1>20. ASSUME Tick PROVE LockInv'
    BY <1>20 DEF Tick
  <1>21. ASSUME NEW c \in Call, StartClaim(c) PROVE LockInv'
    BY <1>21 DEF StartClaim
  <1>22. CASE UNCHANGED vars
    BY <1>22 DEF vars
  <1>. QED
    BY <1>1, <1>2, <1>3, <1>4, <1>5, <1>6, <1>7, <1>8, <1>9, <1>10, <1>11,
       <1>12, <1>13, <1>14, <1>15, <1>16, <1>17, <1>18, <1>19, <1>20, <1>21,
       <1>22
    DEF Next, Step, ReserveStep, FinishStep, TxStep

(* Until Sweep runs, claims, completions, releases and commits touch       *)
(* neither the reservation of an execution under a valid lease nor the     *)
(* live record of a business commit.                                       *)
LEMMA UnsweptStep == IInv /\ [Next]_vars => UnsweptInv'
  <1>. SUFFICES ASSUME IInv, [Next]_vars PROVE UnsweptInv'
    OBVIOUS
  <1>. USE DEF IInv, TypeOK, TimeInv, LockInv, LockProtects, UnsweptInv, Holds,
     goto, over, table, gc, args, locals
  <1>1. ASSUME NEW c \in Call, BeginReserve(c) PROVE UnsweptInv'
    BY <1>1 DEF BeginReserve
  <1>2. ASSUME NEW c \in Call, IssueClaim(c) PROVE UnsweptInv'
    BY <1>2 DEF IssueClaim
  <1>3. ASSUME NEW c \in Call, Claim(c) PROVE UnsweptInv'
    <2>. DEFINE k == key[c]
    <2>. SUFFICES ASSUME sweeps = 0 PROVE UnsweptInv'
      BY <1>3 DEF Claim
    <2>1. CASE row[k] # NoRecord /\ ~expired(row[k], ts[c])
      BY <1>3, <2>1 DEF Claim
    <2>2. CASE row[k] = NoRecord \/ expired(row[k], ts[c])
      <3>1. /\ row' = [row EXCEPT ![k] = claimed(c)]
            /\ lease' = [lease EXCEPT ![c] = ts[c] + ttl[c]]
            /\ \/ pc' = [pc EXCEPT ![c] = "running"]
               \/ pc' = [pc EXCEPT ![c] = "failed"]
            /\ UNCHANGED <<now, key, sweep, sweeps, commits>>
        BY <1>3, <2>2 DEF Claim
      <3>2. /\ row[k].state = StateReserved => row[k].lease <= now
            /\ row[k].state = StateCompleted => row[k].expires <= now
        BY <2>2, ZeroRecord, RecordFields DEF expired, StateReserved,
           StateCompleted
      <3>3. /\ claimed(c).state = StateReserved /\ claimed(c).token = c
            /\ claimed(c).lease = ts[c] + ttl[c]
        BY DEF claimed
      <3>4. ASSUME NEW d \in Call, Holds(d)'
            PROVE  /\ row'[key[d]].state = StateReserved
                   /\ row'[key[d]].token = d /\ row'[key[d]].lease = lease'[d]
        <4>1. CASE d = c
          BY <3>1, <3>3, <4>1
        <4>2. CASE d # c
          <5>1. Holds(d)
            BY <3>1, <3>4, <4>2
          <5>2. key[d] # k
            BY <3>2, <5>1
          <5>. QED  BY <3>1, <4>2, <5>1, <5>2
        <4>. QED  BY <4>1, <4>2
      <3>5. ASSUME NEW a \in commits, ~(a.until <= now)
            PROVE  /\ row'[key[a.call]].state = StateCompleted
                   /\ row'[key[a.call]].expires = a.until
        BY <3>1, <3>2, <3>5
      <3>. QED  BY <3>1, <3>4, <3>5
    <2>. QED  BY <2>1, <2>2
  <1>4. ASSUME NEW c \in Call, ReadExisting(c) PROVE UnsweptInv'
    BY <1>4 DEF ReadExisting
  <1>5. ASSUME NEW c \in Call, NEW s \in {"complete", "release"},
               IssueFinish(c, s)
        PROVE  UnsweptInv'
    BY <1>5 DEF IssueFinish
  <1>6. ASSUME NEW c \in Call, Complete(c) PROVE UnsweptInv'
    BY <1>6 DEF StateReserved, StateCompleted, Complete, cas, completed
  <1>7. ASSUME NEW c \in Call, Release(c) PROVE UnsweptInv'
    BY <1>7 DEF StateReserved, StateCompleted, Release, cas, delete
  <1>8. ASSUME NEW c \in Call, ClassifyFailure(c) PROVE UnsweptInv'
    BY <1>8 DEF ClassifyFailure
  <1>9. ASSUME NEW c \in Call, StatementError(c) PROVE UnsweptInv'
    BY <1>9 DEF StatementError, return
  <1>10. ASSUME NEW c \in Call, BeginTx(c) PROVE UnsweptInv'
    BY <1>10 DEF BeginTx
  <1>11. ASSUME NEW c \in Call, CompleteTx(c) PROVE UnsweptInv'
    BY <1>11 DEF CompleteTx, cas, completed
  <1>12. ASSUME NEW c \in Call, CompleteTxAgain(c) PROVE UnsweptInv'
    BY <1>12 DEF CompleteTxAgain, live
  <1>13. ASSUME NEW c \in Call, ClassifyTx(c) PROVE UnsweptInv'
    BY <1>13 DEF ClassifyTx, live
  <1>14. ASSUME NEW c \in Call, Commit(c) PROVE UnsweptInv'
    BY <1>14 DEF Commit, unlock, StateReserved, StateCompleted
  <1>15. ASSUME NEW c \in Call, Rollback(c) PROVE UnsweptInv'
    BY <1>15 DEF Rollback, unlock
  <1>16. ASSUME NEW c \in Call, FinishAfterTx(c) PROVE UnsweptInv'
    BY <1>16 DEF FinishAfterTx
  <1>17. ASSUME NEW c \in Call, Crash(c) PROVE UnsweptInv'
    BY <1>17 DEF Crash, unlock
  <1>18. ASSUME NEW S \in SUBSET Key, SweepSelect(S) PROVE UnsweptInv'
    BY <1>18 DEF SweepSelect, expired
  <1>19. ASSUME NEW k \in Key, SweepDelete(k) PROVE UnsweptInv'
    BY <1>19 DEF SweepDelete, delete
  <1>20. ASSUME Tick PROVE UnsweptInv'
    BY <1>20 DEF Tick
  <1>21. ASSUME NEW c \in Call, StartClaim(c) PROVE UnsweptInv'
    BY <1>21 DEF StartClaim
  <1>22. CASE UNCHANGED vars
    BY <1>22 DEF vars
  <1>. QED
    BY <1>1, <1>2, <1>3, <1>4, <1>5, <1>6, <1>7, <1>8, <1>9, <1>10, <1>11,
       <1>12, <1>13, <1>14, <1>15, <1>16, <1>17, <1>18, <1>19, <1>20, <1>21,
       <1>22
    DEF Next, Step, ReserveStep, FinishStep, TxStep

(* A second business commit of a key comes when the first one's record is  *)
(* over.                                                                   *)
LEMMA CommitStep == IInv /\ [Next]_vars => OneCommit'
  <1>. SUFFICES ASSUME IInv, [Next]_vars PROVE OneCommit'
    OBVIOUS
  <1>. USE DEF IInv, OneCommit
  <1>1. ASSUME NEW c \in Call, Commit(c) PROVE OneCommit'
    BY <1>1 DEF Commit, args, gc, TypeOK, TimeInv, LockInv, LockProtects,
       UnsweptInv, StateReserved, StateCompleted
  <1>2. ASSUME NEW S \in SUBSET Key, SweepSelect(S) PROVE OneCommit'
    BY <1>2 DEF SweepSelect, args, gc, TypeOK
  <1>3. ASSUME NEW c \in Call, Step(c), ~Commit(c) PROVE OneCommit'
    <2>1. UNCHANGED <<commits, sweeps, key>>
      BY <1>3 DEF Step, ReserveStep, FinishStep, TxStep,
         BeginReserve, IssueClaim, StartClaim, Claim, ReadExisting, IssueFinish,
         Complete, Release,
         ClassifyFailure, StatementError, BeginTx, CompleteTx, CompleteTxAgain, ClassifyTx,
         Rollback, FinishAfterTx, Crash, args, gc
    <2>. QED  BY <2>1
  <1>4. ASSUME NEW k \in Key, SweepDelete(k) PROVE OneCommit'
    BY <1>4 DEF SweepDelete, args, gc
  <1>5. CASE Tick
    BY <1>5 DEF Tick, args, gc
  <1>6. CASE UNCHANGED vars
    BY <1>6 DEF vars
  <1>. QED  BY <1>1, <1>2, <1>3, <1>4, <1>5, <1>6 DEF Next

(* No step turns a compare-and-set that failed for good into one that      *)
(* would succeed: only the claim of a call writes its token into a         *)
(* reservation, and its now() only grows.                                  *)
LEMMA LostStep == IInv /\ [Next]_vars => LostInv'
  <1>. SUFFICES ASSUME IInv, [Next]_vars PROVE LostInv'
    OBVIOUS
  <1>. USE DEF IInv, TypeOK, TimeInv, LostInv, cas, goto, over, table, gc, args,
     locals
  <1>1. ASSUME NEW c \in Call, BeginReserve(c) PROVE LostInv'
    BY <1>1 DEF BeginReserve
  <1>2. ASSUME NEW c \in Call, IssueClaim(c) PROVE LostInv'
    BY <1>2 DEF IssueClaim
  <1>3. ASSUME NEW c \in Call, Claim(c) PROVE LostInv'
    BY <1>3 DEF Claim, claimed, return, expired
  <1>4. ASSUME NEW c \in Call, ReadExisting(c) PROVE LostInv'
    BY <1>4 DEF ReadExisting
  <1>5. ASSUME NEW c \in Call, NEW s \in {"complete", "release"},
               IssueFinish(c, s)
        PROVE  LostInv'
    BY <1>5 DEF IssueFinish
  <1>6. ASSUME NEW c \in Call, Complete(c) PROVE LostInv'
    BY <1>6 DEF Complete, cas, completed
  <1>7. ASSUME NEW c \in Call, Release(c) PROVE LostInv'
    BY <1>7, ZeroRecord DEF Release, cas, delete
  <1>8. ASSUME NEW c \in Call, ClassifyFailure(c) PROVE LostInv'
    BY <1>8 DEF ClassifyFailure
  <1>9. ASSUME NEW c \in Call, StatementError(c) PROVE LostInv'
    BY <1>9 DEF StatementError, return
  <1>10. ASSUME NEW c \in Call, BeginTx(c) PROVE LostInv'
    BY <1>10 DEF BeginTx
  <1>11. ASSUME NEW c \in Call, CompleteTx(c) PROVE LostInv'
    BY <1>11 DEF CompleteTx, cas, completed
  <1>12. ASSUME NEW c \in Call, CompleteTxAgain(c) PROVE LostInv'
    BY <1>12, TTLPositive, RecordFields DEF CompleteTxAgain, live, LockInv,
       LockProtects
  <1>13. ASSUME NEW c \in Call, ClassifyTx(c) PROVE LostInv'
    BY <1>13 DEF ClassifyTx, live
  <1>14. ASSUME NEW c \in Call, Commit(c) PROVE LostInv'
    BY <1>14 DEF Commit, unlock, LockInv, LockProtects, StateReserved,
       StateCompleted
  <1>15. ASSUME NEW c \in Call, Rollback(c) PROVE LostInv'
    BY <1>15 DEF Rollback, unlock
  <1>16. ASSUME NEW c \in Call, FinishAfterTx(c) PROVE LostInv'
    BY <1>16, RecordFields DEF FinishAfterTx
  <1>17. ASSUME NEW c \in Call, Crash(c) PROVE LostInv'
    BY <1>17 DEF Crash, unlock
  <1>18. ASSUME NEW S \in SUBSET Key, SweepSelect(S) PROVE LostInv'
    BY <1>18 DEF SweepSelect, expired
  <1>19. ASSUME NEW k \in Key, SweepDelete(k) PROVE LostInv'
    BY <1>19, ZeroRecord DEF SweepDelete, delete
  <1>20. ASSUME Tick PROVE LostInv'
    BY <1>20 DEF Tick
  <1>21. ASSUME NEW c \in Call, StartClaim(c) PROVE LostInv'
    BY <1>21 DEF StartClaim
  <1>22. CASE UNCHANGED vars
    BY <1>22 DEF vars
  <1>. QED
    BY <1>1, <1>2, <1>3, <1>4, <1>5, <1>6, <1>7, <1>8, <1>9, <1>10, <1>11,
       <1>12, <1>13, <1>14, <1>15, <1>16, <1>17, <1>18, <1>19, <1>20, <1>21,
       <1>22
    DEF Next, Step, ReserveStep, FinishStep, TxStep

(* A Sweep selects expired rows only, and time takes nothing back.         *)
LEMMA SweepStep == TypeOK /\ SweepInv /\ [Next]_vars => SweepInv'
  <1>. SUFFICES ASSUME TypeOK, SweepInv, [Next]_vars PROVE SweepInv'
    OBVIOUS
  <1>. USE DEF SweepInv
  <1>1. ASSUME NEW S \in SUBSET Key, SweepSelect(S) PROVE SweepInv'
    BY <1>1 DEF SweepSelect, expired
  <1>2. ASSUME Tick PROVE SweepInv'
    <2>1. sweep' = sweep /\ seen' = seen /\ now' = now + 1
      BY <1>2 DEF Tick, gc
    <2>2. ASSUME NEW k \in sweep PROVE expired(seen[k], now + 1)
      <3>1. seen[k] \in Records /\ now \in Nat /\ expired(seen[k], now)
        BY DEF TypeOK
      <3>. QED  BY <3>1, RecordFields DEF expired
    <2>. QED  BY <2>1, <2>2
  <1>3. ASSUME NEW k \in Key, delete(k), now' = now PROVE SweepInv'
    BY <1>3 DEF delete, TypeOK
  <1>4. ASSUME NEW c \in Call, Step(c), ~Release(c) PROVE SweepInv'
    <2>1. UNCHANGED <<now, sweep, seen>>
      BY <1>4 DEF Step, ReserveStep, FinishStep, TxStep,
         BeginReserve, IssueClaim, StartClaim, Claim, ReadExisting, IssueFinish,
         Complete, ClassifyFailure, StatementError, BeginTx, CompleteTx,
         CompleteTxAgain, ClassifyTx, Commit, Rollback, FinishAfterTx, Crash, gc
    <2>. QED  BY <2>1
  <1>5. ASSUME NEW k \in Key, SweepDelete(k) PROVE SweepInv'
    BY <1>3, <1>5 DEF SweepDelete
  <1>6. ASSUME NEW c \in Call, Release(c) PROVE SweepInv'
    BY <1>3, <1>6 DEF Release, TypeOK
  <1>7. CASE UNCHANGED vars
    BY <1>7 DEF vars
  <1>. QED  BY <1>1, <1>2, <1>4, <1>5, <1>6, <1>7 DEF Next

-----------------------------------------------------------------------------
(* The theorems *)

(* The invariant holds of an empty table.                                  *)
LEMMA InitInv == Init => IInv
  <1>. SUFFICES ASSUME Init PROVE IInv
    OBVIOUS
  <1>1. TypeOK
    BY ZeroRecord, TTLPositive DEF Init, TypeOK
  <1>2. TimeInv /\ LockInv
    BY TTLPositive DEF Init, TimeInv, LockInv, LockProtects
  <1>3. UnsweptInv /\ OneCommit /\ SweepInv /\ LostInv
    BY DEF Init, UnsweptInv, OneCommit, SweepInv, LostInv, Holds
  <1>. QED  BY <1>1, <1>2, <1>3 DEF IInv

(* Every step keeps the invariant.                                         *)
LEMMA InvStep == IInv /\ [Next]_vars => IInv'
  BY TypeStep, TimeStep, LockStep, UnsweptStep, CommitStep, SweepStep, LostStep
  DEF IInv

(* The inductive invariant holds in every reachable state, however claims, *)
(* transactions, lost answers, crashes and sweeps interleave.              *)
THEOREM Invariant == Spec => []IInv
  BY InitInv, InvStep, PTL DEF Spec

(* Every variable keeps the shape the code gives it; in particular the TTL *)
(* a claim carries is at most the lease and, thanks to the clamp of        *)
(* leaseTTLMillis, at least one unit.                                      *)
THEOREM TypeCorrect == Spec => []TypeOK
  <1>1. IInv => TypeOK
    BY DEF IInv
  <1>. QED  BY <1>1, Invariant, PTL

(* Between CompleteTx and Commit nobody overwrites or deletes the          *)
(* reservation: a claim, a sweep or a stale Finish of another call waits   *)
(* or misses, also long after the lease has run out.                       *)
THEOREM Locks == Spec => []LockProtects
  <1>1. IInv => LockProtects
    BY DEF IInv, LockInv
  <1>. QED  BY <1>1, Invariant, PTL

(* Until Sweep runs, no two executions hold a valid lease of one key.      *)
THEOREM Exclusive == Spec => []UnsweptExclusive
  <1>1. IInv => UnsweptExclusive
    BY DEF IInv, UnsweptInv, UnsweptExclusive, LeaseExclusive
  <1>. QED  BY <1>1, Invariant, PTL

(* Until Sweep runs, a key has at most one business commit per completed   *)
(* record.                                                                 *)
THEOREM BusinessOnce == Spec => []OneCommit
  <1>1. IInv => OneCommit
    BY DEF IInv
  <1>. QED  BY <1>1, Invariant, PTL

(* A row changes in five ways: a claim of a free or expired row, Complete  *)
(* and Release by the holder of a reservation, Commit, and a sweep of a    *)
(* key it had selected.                                                    *)
LEMMA RowWriters ==
  ASSUME TypeOK, [Next]_vars, NEW k \in Key, row'[k] # row[k]
  PROVE  \/ \E c \in Call : /\ key[c] = k
                            /\ row[k] = NoRecord \/ expired(row[k], ts[c])
                            /\ row'[k] = claimed(c)
         \/ \E c \in Call : /\ key[c] = k /\ pc[c] = "complete" /\ cas(c)
                            /\ row'[k] = completed(c, ts[c])
         \/ \E c \in Call : key[c] = k /\ cas(c) /\ row'[k] = NoRecord
         \/ \E c \in Call : /\ key[c] = k /\ pc[c] = "prepared"
                            /\ row'[k] = pend[k]
         \/ k \in sweep \ sweep' /\ row'[k] = NoRecord
  <1>. USE DEF TypeOK, table
  <1>1. ASSUME NEW c \in Call, Claim(c)
        PROVE  /\ key[c] = k
               /\ row[k] = NoRecord \/ expired(row[k], ts[c])
               /\ row'[k] = claimed(c)
    BY <1>1 DEF Claim
  <1>2. ASSUME NEW c \in Call, Complete(c)
        PROVE  /\ key[c] = k /\ pc[c] = "complete" /\ cas(c)
               /\ row'[k] = completed(c, ts[c])
    BY <1>2 DEF Complete
  <1>3. ASSUME NEW c \in Call, Release(c)
        PROVE  key[c] = k /\ cas(c) /\ row'[k] = NoRecord
    BY <1>3 DEF Release, delete
  <1>4. ASSUME NEW c \in Call, Commit(c)
        PROVE  key[c] = k /\ pc[c] = "prepared" /\ row'[k] = pend[k]
    BY <1>4 DEF Commit
  <1>5. ASSUME NEW j \in Key, SweepDelete(j)
        PROVE  k \in sweep \ sweep' /\ row'[k] = NoRecord
    BY <1>5 DEF SweepDelete, delete
  <1>6. ASSUME NEW c \in Call, Step(c)
        PROVE  Claim(c) \/ Complete(c) \/ Release(c) \/ Commit(c)
    BY <1>6 DEF Step, ReserveStep, FinishStep, TxStep, BeginReserve,
       IssueClaim, StartClaim,
       ReadExisting, IssueFinish, ClassifyFailure, StatementError, BeginTx,
       CompleteTx, CompleteTxAgain, ClassifyTx, Rollback, FinishAfterTx, Crash
  <1>7. (\E c \in Call : Step(c)) \/ (\E j \in Key : SweepDelete(j))
    BY DEF Next, SweepSelect, Tick, vars
  <1>. QED  BY <1>1, <1>2, <1>3, <1>4, <1>5, <1>6, <1>7

(* A completed row stays as it is until it expires: a claim judged by an   *)
(* old now(), a stale Finish, the Release after a lost commit answer and   *)
(* another transaction's Commit all leave it alone, and so does a Sweep,   *)
(* unless what it selected was an earlier, expired version of the row.     *)
THEOREM Stable == Spec => CompletedStable
  <1>. DEFINE Kept ==
         \A k \in Key : row[k].state = StateCompleted /\ live(row[k], now)
                => \/ row'[k] = row[k]
                   \/ k \in sweep \ sweep' /\ expired(seen[k], now)
  <1>1. ASSUME IInv, [Next]_vars PROVE Kept
    <2>. SUFFICES ASSUME NEW k \in Key, row[k].state = StateCompleted,
                         live(row[k], now), row'[k] # row[k]
                  PROVE  k \in sweep \ sweep' /\ expired(seen[k], now)
      OBVIOUS
    <2>1. TypeOK /\ TimeInv /\ LockInv /\ SweepInv
      BY <1>1 DEF IInv
    <2>2. row[k] \in Records /\ now \in Nat /\ row[k] # NoRecord
      BY <2>1, ZeroRecord DEF TypeOK, StateCompleted
    <2>3. ASSUME NEW c \in Call PROVE ~expired(row[k], ts[c])
      BY <2>1, <2>2, LiveNotExpired DEF TypeOK, TimeInv
    <2>4. ASSUME NEW c \in Call, key[c] = k PROVE ~cas(c) /\ pc[c] # "prepared"
      BY <2>1, <2>4 DEF cas, LockInv, LockProtects, StateReserved,
         StateCompleted
    <2>5. k \in sweep \ sweep'
      BY <1>1, <2>1, <2>2, <2>3, <2>4, RowWriters
    <2>. QED  BY <2>1, <2>5 DEF SweepInv
  <1>2. IInv /\ [Next]_vars => [Kept]_vars
    BY <1>1
  <1>. QED  BY Invariant, <1>2, PTL DEF Spec, CompletedStable

(* The 409 of a handler that CompleteTx told to roll back is never stored, *)
(* although the default policy asks the middleware to persist it.          *)
THEOREM ConflictLost == Spec => ConflictNeverStored
  <1>. DEFINE NotStored ==
         \A c \in Call :
            LET k == key[c] IN
            result[c] = "leaseLost" /\ row'[k] # row[k]
                => ~(row'[k].state = StateCompleted /\ row'[k].payload = c)
  <1>1. ASSUME IInv, [Next]_vars PROVE NotStored
    <2>. SUFFICES ASSUME NEW c \in Call, result[c] = "leaseLost",
                         row'[key[c]] # row[key[c]],
                         row'[key[c]].state = StateCompleted,
                         row'[key[c]].payload = c
                  PROVE  FALSE
      OBVIOUS
    <2>. DEFINE k == key[c]
    <2>1. TypeOK /\ LockInv /\ LostInv /\ k \in Key
      BY <1>1 DEF IInv, TypeOK
    <2>2. ASSUME NEW d \in Call PROVE row'[k] # claimed(d)
      BY DEF claimed, StateReserved, StateCompleted
    <2>3. row'[k] # NoRecord
      BY ZeroRecord DEF StateCompleted
    <2>4. ASSUME NEW d \in Call, key[d] = k, pc[d] = "complete", cas(d),
                 row'[k] = completed(d, ts[d])
          PROVE  FALSE
      <3>1. d = c
        BY <2>4 DEF completed
      <3>. QED  BY <2>1, <2>4, <3>1 DEF LostInv
    <2>5. ASSUME NEW d \in Call, key[d] = k, pc[d] = "prepared",
                 row'[k] = pend[k]
          PROVE  FALSE
      <3>1. d = c
        BY <2>1, <2>5 DEF LockInv
      <3>. QED  BY <2>1, <2>5, <3>1 DEF LostInv
    <2>. QED  BY <1>1, <2>1, <2>2, <2>3, <2>4, <2>5, RowWriters
  <1>2. IInv /\ [Next]_vars => [NotStored]_vars
    BY <1>1
  <1>. QED  BY Invariant, <1>2, PTL DEF Spec, ConflictNeverStored

=============================================================================
