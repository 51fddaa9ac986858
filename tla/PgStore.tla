------------------------------ MODULE PgStore ------------------------------
(***************************************************************************)
(* pgstore/pgstore.go: the Store kept in a PostgreSQL table, the           *)
(* transactional join (CompleteTx inside the handler's own transaction)    *)
(* and the sweeper.                                                        *)
(*                                                                         *)
(* PostgreSQL is modelled from how the statements of New use it, at READ   *)
(* COMMITTED: now() is the instant the transaction started, which for a    *)
(* statement of its own is the instant it was issued; an upsert that meets *)
(* a locked row waits and then judges the row's newest committed version;  *)
(* a DELETE that meets a newer version of a row it selected re-checks only *)
(* its own WHERE clause against it.                                        *)
(*                                                                         *)
(* A call reserves its key and executes.  Its handler either leaves the    *)
(* trailing transition to the middleware (Complete or Release) or joins    *)
(* its own transaction in the documented order: BeginTx, business writes,  *)
(* CompleteTx, Commit.                                                     *)
(***************************************************************************)
EXTENDS Record, FiniteSets

CONSTANTS MaxTime,      \* bound: the clock stops here
          MaxSweeps     \* bound: how many times Sweep runs

ASSUME BoundAssumption == MaxTime \in Nat /\ MaxSweeps \in Nat

VARIABLES
    now,        \* the database clock
    row,        \* the newest committed version of each key's row
    lock,       \* the call whose open transaction has updated the row
    pend,       \* the row version that transaction would commit
    sweep,      \* the running Sweep: rows it selected and not yet visited
    seen,       \* history: the versions that Sweep selected
    sweeps,     \* how many sweeps were started
    pc,
    attempt,    \* Reserve's loop counter
    key, fp,
    stamp,      \* Record.LeaseExpiresAt as Begin stamped it
    ttl,        \* leaseTTLMillis of the claim under way
    ts,         \* now() of the statement or transaction under way
    lease,      \* lease_expires_at the claim was granted
    result,     \* what Complete, Release or CompleteTx returned last
    commits     \* history: business transactions that committed

vars == <<now, row, lock, pend, sweep, seen, sweeps, pc, attempt, key, fp,
          stamp, ttl, ts, lease, result, commits>>

table == <<row, lock, pend>>
gc == <<sweep, seen, sweeps>>
args == <<key, fp>>
locals == <<attempt, stamp, ttl>>       \* of Reserve

Init ==
    /\ now = 0
    /\ row = [k \in Key |-> NoRecord]
    /\ lock = [k \in Key |-> None]
    /\ pend = [k \in Key |-> NoRecord]
    /\ sweep = {}
    /\ seen = [k \in Key |-> NoRecord]
    /\ sweeps = 0
    /\ pc = [c \in Call |-> "idle"]
    /\ attempt = [c \in Call |-> 0]
    /\ key \in [Call -> Key]
    /\ fp \in [Call -> Fingerprint]
    /\ stamp = [c \in Call |-> 0]
    /\ ttl = [c \in Call |-> 0]
    /\ ts = [c \in Call |-> 0]
    /\ lease = [c \in Call |-> 0]
    /\ result = [c \in Call |-> "none"]
    /\ commits = {}

goto(c, l) == pc' = [pc EXCEPT ![c] = l]

(* Reserve returns: its locals go out of scope. *)
return(c) ==
    /\ attempt' = [attempt EXCEPT ![c] = 0]
    /\ stamp' = [stamp EXCEPT ![c] = 0]
    /\ ttl' = [ttl EXCEPT ![c] = 0]

(* The statement or transaction of c is over, and so is its now(). *)
over(c) == ts' = [ts EXCEPT ![c] = 0]

(* The live and expired predicates every statement carries. *)
live(r, t) == \/ r.state = StateReserved /\ r.lease > t
              \/ r.state = StateCompleted /\ r.expires > t

expired(r, t) == \/ r.state = StateReserved /\ r.lease <= t
                 \/ r.state = StateCompleted /\ r.expires <= t

(* A row that is deleted is gone for a sweep that had selected it, too. *)
delete(k) ==
    /\ row' = [row EXCEPT ![k] = NoRecord]
    /\ sweep' = sweep \ {k}
    /\ seen' = [seen EXCEPT ![k] = NoRecord]

-----------------------------------------------------------------------------
(* Reserve *)

(* The record arrives with the deadline Begin stamped. *)
BeginReserve(c) ==
    /\ pc[c] = "idle"
    /\ stamp' = [stamp EXCEPT ![c] = now + leaseTTL]
    /\ goto(c, "reserve")
    /\ UNCHANGED <<now, table, gc, args, attempt, ttl, ts, lease, result, commits>>

(* Mutant: a deadline that has passed is not clamped. *)
leaseTTLMillisRaw(c) == stamp[c] - now

(* What is left of the lease, at least one unit of it. *)
leaseTTLMillis(c) == IF stamp[c] - now < 1 THEN 1 ELSE stamp[c] - now

(* qReserve is issued: the host fixes the TTL, what is left of the lease.  *)
IssueClaim(c) ==
    /\ pc[c] = "reserve"
    /\ ttl' = [ttl EXCEPT ![c] = leaseTTLMillis(c)]
    /\ goto(c, "issued")
    /\ UNCHANGED <<now, table, gc, args, attempt, stamp, ts, lease, result, commits>>

(* It reaches the server, which fixes now(); the TTL counts from here.     *)
StartClaim(c) ==
    /\ pc[c] = "issued"
    /\ ts' = [ts EXCEPT ![c] = now]
    /\ goto(c, "claim")
    /\ UNCHANGED <<now, table, gc, args, locals, lease, result, commits>>

claimed(c) ==
    [state |-> StateReserved, token |-> c, fp |-> fp[c],
     lease |-> ts[c] + ttl[c], expires |-> 0, payload |-> None]

(* Mutant: the upsert overwrites live rows, too. *)
ClaimAny(c) ==
    LET k == key[c] IN
    /\ pc[c] = "claim"
    /\ lock[k] = None
    /\ row' = [row EXCEPT ![k] = claimed(c)]
    /\ lease' = [lease EXCEPT ![c] = ts[c] + ttl[c]]
    /\ goto(c, "running")
    /\ return(c)
    /\ over(c)
    /\ UNCHANGED <<now, lock, pend, gc, args, result, commits>>

(* The upsert waits for the row lock, then inserts, or overwrites a row    *)
(* that is expired as of its own now(), or returns no row at all.  The     *)
(* answer to a claim may be lost.                                          *)
Claim(c) ==
    LET k == key[c] IN
    /\ pc[c] = "claim"
    /\ lock[k] = None
    /\ \/ /\ row[k] = NoRecord \/ expired(row[k], ts[c])
          /\ row' = [row EXCEPT ![k] = claimed(c)]
          /\ lease' = [lease EXCEPT ![c] = ts[c] + ttl[c]]
          /\ goto(c, "running") \/ goto(c, "failed")
          /\ return(c)
       \/ /\ row[k] # NoRecord /\ ~expired(row[k], ts[c])
          /\ goto(c, "read")
          /\ UNCHANGED <<row, lease, locals>>
    /\ over(c)
    /\ UNCHANGED <<now, lock, pend, gc, args, result, commits>>

(* Mutant: the read is repeated until it finds a row. *)
ReadExistingStuck(c) ==
    /\ pc[c] = "read"
    /\ live(row[key[c]], now)
    /\ goto(c, "exists")
    /\ return(c)
    /\ UNCHANGED <<now, table, gc, args, ts, lease, result, commits>>

(* qReserveExists: a statement of its own, which may find the blocking     *)
(* row gone; the claim is retried, twice at most.                          *)
ReadExisting(c) ==
    LET r == row[key[c]] IN
    /\ pc[c] = "read"
    /\ \/ /\ live(r, now)
          /\ goto(c, "exists")
          /\ return(c)
       \/ /\ ~live(r, now) /\ attempt[c] + 1 < 3
          /\ attempt' = [attempt EXCEPT ![c] = @ + 1]
          /\ goto(c, "reserve")
          /\ UNCHANGED <<stamp, ttl>>
       \/ /\ ~live(r, now) /\ attempt[c] + 1 >= 3
          /\ goto(c, "failed")
          /\ return(c)
    /\ UNCHANGED <<now, table, gc, args, ts, lease, result, commits>>

-----------------------------------------------------------------------------
(* Complete and Release, from the middleware's Finish *)

IssueFinish(c, stmt) ==
    /\ pc[c] = "running"
    /\ ts' = [ts EXCEPT ![c] = now]
    /\ goto(c, stmt)
    /\ UNCHANGED <<now, table, gc, args, locals, lease, result, commits>>

(* Mutants: the compare-and-set without the token, without the state, and  *)
(* with nothing but the key.                                               *)
casAnyToken(c) ==
    LET r == row[key[c]] IN r.state = StateReserved /\ r.lease > ts[c]

casAnyState(c) ==
    LET r == row[key[c]] IN r.token = c /\ r.lease > ts[c]

casByKey(c) == row[key[c]].state # 0

(* The compare-and-set both statements share.  A row another transaction   *)
(* holds locked carries that transaction's token, so it is not waited for. *)
cas(c) ==
    LET r == row[key[c]] IN
    r.token = c /\ r.state = StateReserved /\ r.lease > ts[c]

completed(c, t) ==
    LET r == row[key[c]] IN
    [state |-> StateCompleted, token |-> r.token, fp |-> r.fp,
     lease |-> r.lease, expires |-> t + recordTTL, payload |-> c]

(* Mutant: Complete completes whatever reservation it finds. *)
CompleteAnyToken(c) ==
    /\ pc[c] = "complete"
    /\ casAnyToken(c)
    /\ row' = [row EXCEPT ![key[c]] = completed(c, ts[c])]
    /\ result' = [result EXCEPT ![c] = "nil"]
    /\ goto(c, "done")
    /\ over(c)
    /\ UNCHANGED <<now, lock, pend, gc, args, locals, lease, commits>>

(* An answer that is lost is an error to the middleware, which then        *)
(* releases the key.                                                       *)
Complete(c) ==
    /\ pc[c] = "complete"
    /\ \/ /\ cas(c)
          /\ row' = [row EXCEPT ![key[c]] = completed(c, ts[c])]
          /\ \/ /\ result' = [result EXCEPT ![c] = "nil"]
                /\ goto(c, "done")
             \/ /\ goto(c, "discard")
                /\ UNCHANGED result
       \/ /\ ~cas(c)
          /\ goto(c, "classify")
          /\ UNCHANGED <<row, result>>
    /\ over(c)
    /\ UNCHANGED <<now, lock, pend, gc, args, locals, lease, commits>>

Release(c) ==
    /\ pc[c] = "release"
    /\ \/ /\ cas(c)
          /\ delete(key[c])
          /\ result' = [result EXCEPT ![c] = "nil"]
          /\ goto(c, "done")
       \/ /\ ~cas(c)
          /\ goto(c, "classify")
          /\ UNCHANGED <<row, sweep, seen, result>>
    /\ over(c)
    /\ UNCHANGED <<now, lock, pend, sweeps, args, locals, lease, commits>>

(* qClassify sees live reservations only. *)
ClassifyFailure(c) ==
    LET r == row[key[c]] IN
    /\ pc[c] = "classify"
    /\ result' = [result EXCEPT ![c] =
          IF r.state = StateReserved /\ r.lease > now /\ r.token # c
          THEN "TokenMismatch" ELSE "NotFound"]
    /\ goto(c, "done")
    /\ UNCHANGED <<now, table, gc, args, locals, lease, ts, commits>>

(* A statement fails without effect.  Reserve passes the error on; a       *)
(* failed Persist is followed by a Release, a failed Release by nothing; a *)
(* failed CompleteTx is a failed transaction.                              *)
StatementError(c) ==
    /\ \/ pc[c] \in {"issued", "claim", "read"} /\ goto(c, "failed") /\ return(c)
       \/ pc[c] \in {"complete", "classifyTx"} /\ goto(c, "discard")
                                             /\ UNCHANGED locals
       \/ pc[c] \in {"release", "classify"} /\ goto(c, "done") /\ UNCHANGED locals
    /\ over(c)
    /\ UNCHANGED <<now, table, gc, args, lease, result, commits>>

-----------------------------------------------------------------------------
(* The transactional join *)

(* BeginTx and the business writes: now() of the transaction is fixed. *)
BeginTx(c) ==
    /\ pc[c] = "running"
    /\ ts' = [ts EXCEPT ![c] = now]
    /\ goto(c, "tx")
    /\ UNCHANGED <<now, table, gc, args, locals, lease, result, commits>>

CompleteTx(c) ==
    /\ pc[c] = "tx"
    /\ \/ /\ cas(c)
          /\ lock' = [lock EXCEPT ![key[c]] = c]
          /\ pend' = [pend EXCEPT ![key[c]] = completed(c, ts[c])]
          /\ result' = [result EXCEPT ![c] = "nil"]
          /\ goto(c, "prepared")
       \/ /\ ~cas(c)
          /\ goto(c, "classifyTx")
          /\ UNCHANGED <<lock, pend, result>>
    /\ UNCHANGED <<now, row, gc, args, locals, lease, ts, commits>>

(* qClassifyTx reads the newest committed version; its live predicate      *)
(* still uses the transaction's now().                                     *)
ClassifyTx(c) ==
    LET r == row[key[c]] IN
    /\ pc[c] = "classifyTx"
    /\ result' = [result EXCEPT ![c] =
          IF live(r, ts[c]) /\ r.state = StateCompleted /\ r.token = c
          THEN "AlreadyCompleted" ELSE "leaseLost"]
    /\ goto(c, "rollback")
    /\ UNCHANGED <<now, table, gc, args, locals, lease, ts, commits>>

(* A second CompleteTx in the same transaction finds its own update. *)
CompleteTxAgain(c) ==
    LET r == pend[key[c]] IN
    /\ pc[c] = "prepared"
    /\ result' = [result EXCEPT ![c] =
          IF live(r, ts[c]) /\ r.state = StateCompleted /\ r.token = c
          THEN "AlreadyCompleted" ELSE "leaseLost"]
    /\ UNCHANGED <<now, table, gc, pc, args, locals, lease, ts, commits>>

unlock(c) ==
    /\ lock' = [lock EXCEPT ![key[c]] = None]
    /\ pend' = [pend EXCEPT ![key[c]] = NoRecord]

(* The handler's Commit.  Its answer may be lost, which the handler can    *)
(* only take for a failure.                                                *)
Commit(c) ==
    LET k == key[c] IN
    /\ pc[c] = "prepared"
    /\ row' = [row EXCEPT ![k] = pend[k]]
    /\ commits' = commits \cup {[call |-> c, at |-> now, until |-> pend[k].expires]}
    /\ unlock(c)
    /\ goto(c, "done") \/ goto(c, "discard")
    /\ over(c)
    /\ UNCHANGED <<now, gc, args, locals, lease, result>>

(* A business error, a lost lease, a failing CompleteTx or a failing       *)
(* Commit: the deferred Rollback.  The handler answers 409 on a lost lease *)
(* and 500 otherwise.                                                      *)
Rollback(c) ==
    /\ pc[c] \in {"tx", "rollback", "prepared"}
    /\ IF pc[c] = "prepared" THEN unlock(c) ELSE UNCHANGED <<lock, pend>>
    /\ goto(c, IF pc[c] = "rollback" /\ result[c] = "leaseLost"
               THEN "persist" ELSE "discard")
    /\ UNCHANGED <<now, row, gc, args, locals, lease, ts, result, commits>>

(* The middleware's Finish after a handler that did not mark it finished   *)
(* (the default policy persists a 409 and discards a 500), or the Release  *)
(* that follows a Complete it takes for failed.                            *)
FinishAfterTx(c) ==
    /\ pc[c] \in {"persist", "discard"}
    /\ ts' = [ts EXCEPT ![c] = now]
    /\ goto(c, IF pc[c] = "persist" THEN "complete" ELSE "release")
    /\ UNCHANGED <<now, table, gc, args, locals, lease, result, commits>>

-----------------------------------------------------------------------------
(* The sweeper and the environment *)

(* The subselect of qSweep picks expired rows as of the statement's        *)
(* snapshot; LIMIT may leave any of them out.                              *)
SweepSelect(S) ==
    /\ sweep = {} /\ sweeps < MaxSweeps
    /\ S # {}
    /\ \A k \in S : expired(row[k], now)
    /\ sweep' = S
    /\ seen' = [k \in Key |-> IF k \in S THEN row[k] ELSE NoRecord]
    /\ sweeps' = sweeps + 1
    /\ UNCHANGED <<now, table, pc, args, locals, lease, ts, result, commits>>

(* The outer DELETE reaches a selected row, waiting for its lock.  All it  *)
(* re-checks of a newer version is that the key is among the selected.     *)
SweepDelete(k) ==
    /\ k \in sweep
    /\ lock[k] = None
    /\ delete(k)
    /\ UNCHANGED <<now, lock, pend, sweeps, pc, args, locals, lease, ts, result, commits>>

(* The process dies; the server rolls its transaction back. *)
Crash(c) ==
    /\ pc[c] \in {"running", "tx", "prepared", "persist", "discard"}
    /\ IF pc[c] = "prepared" THEN unlock(c) ELSE UNCHANGED <<lock, pend>>
    /\ goto(c, "crashed")
    /\ over(c)
    /\ UNCHANGED <<now, row, gc, args, locals, lease, result, commits>>

Tick ==
    /\ now < MaxTime
    /\ now' = now + 1
    /\ UNCHANGED <<table, gc, pc, args, locals, lease, ts, result, commits>>

ReserveStep(c) ==
    IssueClaim(c) \/ StartClaim(c) \/ Claim(c) \/ ReadExisting(c)

FinishStep(c) == Complete(c) \/ Release(c) \/ ClassifyFailure(c)

TxStep(c) ==
    \/ CompleteTx(c) \/ CompleteTxAgain(c) \/ ClassifyTx(c)
    \/ Commit(c) \/ Rollback(c) \/ FinishAfterTx(c)

Step(c) ==
    \/ BeginReserve(c) \/ ReserveStep(c)
    \/ IssueFinish(c, "complete") \/ IssueFinish(c, "release") \/ FinishStep(c)
    \/ BeginTx(c) \/ TxStep(c)
    \/ StatementError(c) \/ Crash(c)

Next ==
    \/ \E c \in Call : Step(c)
    \/ \E S \in SUBSET Key : SweepSelect(S)
    \/ \E k \in Key : SweepDelete(k)
    \/ Tick

Spec == Init /\ [][Next]_vars

(* Statements return, an open transaction ends (the handler commits or     *)
(* rolls back, or the server does when the client is gone), time passes.   *)
Fairness ==
    /\ \A c \in Call : /\ WF_vars(ReserveStep(c))
                       /\ WF_vars(FinishStep(c))
                       /\ WF_vars(Commit(c) \/ Rollback(c))
    /\ WF_vars(Tick)

FairSpec == Spec /\ Fairness

-----------------------------------------------------------------------------
(* Properties *)

(* Every variable holds a value of the shape the code gives it; no claim   *)
(* carries a TTL of zero or less.                                          *)
TypeOK ==
    /\ now \in Nat
    /\ row \in [Key -> Records]
    /\ lock \in [Key -> Call \cup {None}]
    /\ pend \in [Key -> Records]
    /\ sweep \subseteq Key
    /\ seen \in [Key -> Records]
    /\ sweeps \in 0 .. MaxSweeps
    /\ pc \in [Call -> {"idle", "reserve", "issued", "claim", "read", "exists",
                        "failed", "running", "complete", "release", "classify", "done",
                        "tx", "classifyTx", "prepared", "rollback",
                        "persist", "discard", "crashed"}]
    /\ attempt \in [Call -> 0 .. 2]
    /\ key \in [Call -> Key]
    /\ fp \in [Call -> Fingerprint]
    /\ stamp \in [Call -> Nat] /\ ts \in [Call -> Nat] /\ lease \in [Call -> Nat]
    /\ ttl \in [Call -> 0 .. leaseTTL]
    /\ \A c \in Call : pc[c] \in {"issued", "claim"} => ttl[c] >= 1
    /\ result \in [Call -> {"none", "nil", "NotFound", "TokenMismatch",
                            "leaseLost", "AlreadyCompleted"}]
    /\ commits \subseteq [call : Call, at : Nat, until : Nat]

(* The handler of c runs under a lease the database still considers valid. *)
Holds(c) ==
    /\ pc[c] \in {"running", "tx", "classifyTx", "prepared", "rollback"}
    /\ now < lease[c]

(* "At most one execution holds a valid lease at any time" (README.md).    *)
LeaseExclusive ==
    \A c, d \in Call :
        Holds(c) /\ Holds(d) /\ key[c] = key[d] => c = d

(* The same of Reserve, Complete, Release and CompleteTx alone, with       *)
(* claims that wait for a row lock and judge the row by an old now(): as   *)
(* long as Sweep has not run, no two executions hold a lease of a key.     *)
UnsweptExclusive == sweeps = 0 => LeaseExclusive

(* A lock on a row is held by the call whose reservation the row's         *)
(* committed version still is: nobody overwrites or deletes a reservation  *)
(* while its completion waits for Commit, however long past its lease.     *)
LockProtects ==
    \A k \in Key : lock[k] # None =>
        /\ row[k].state = StateReserved
        /\ row[k].token = lock[k] /\ pend[k].token = lock[k]
        /\ pc[lock[k]] = "prepared" /\ key[lock[k]] = k

(* At most one business commit per completed record: a second business     *)
(* commit of the key happens only once the first one's record has expired, *)
(* as long as Sweep has not run.                                           *)
OneCommit ==
    sweeps = 0 => \A a, b \in commits :
        a.call # b.call /\ key[a.call] = key[b.call]
            => a.until <= b.at \/ b.until <= a.at

(* A handler that CompleteTx told to roll back answers 409, which the      *)
(* default policy wants to Persist; that Complete never takes effect, so   *)
(* the 409 is not replayed to clients that retry.                          *)
ConflictNeverStored ==
    [][\A c \in Call :
          LET k == key[c] IN
          result[c] = "leaseLost" /\ row'[k] # row[k]
              => ~(row'[k].state = StateCompleted /\ row'[k].payload = c)]_vars

(* A completed row stays as it is until it expires, also when a Commit     *)
(* whose answer was lost is followed by the middleware's Release.  Only a  *)
(* Sweep can remove it, one that selected an earlier, expired version: the *)
(* key was claimed again since, or completed since by a statement or a     *)
(* transaction that had started under the lease.                           *)
CompletedStable ==
    [][\A k \in Key : row[k].state = StateCompleted /\ live(row[k], now)
          => \/ row'[k] = row[k]
             \/ k \in sweep \ sweep' /\ expired(seen[k], now)]_vars

(* The inductive strengthening. *)

(* now() of a statement is no later than the clock, and a stamp no further *)
(* ahead of it than a lease is long.                                       *)
TimeInv == \A c \in Call : ts[c] <= now /\ stamp[c] <= now + leaseTTL

(* A transaction that has run CompleteTx holds the lock of its row, and    *)
(* what it would commit is the completed record of its own call.           *)
LockInv ==
    /\ LockProtects
    /\ \A c \in Call : pc[c] = "prepared" =>
          /\ lock[key[c]] = c
          /\ pend[key[c]].state = StateCompleted /\ pend[key[c]].payload = c
          /\ pend[key[c]].expires = ts[c] + recordTTL

(* Until Sweep runs, an execution under a valid lease finds its own        *)
(* reservation, and a business commit its record as long as that lives.    *)
UnsweptInv ==
    sweeps = 0 =>
        /\ sweep = {}
        /\ \A c \in Call : Holds(c) =>
              /\ row[key[c]].state = StateReserved
              /\ row[key[c]].token = c /\ row[key[c]].lease = lease[c]
        /\ \A a \in commits :
              \/ a.until <= now
              \/ /\ row[key[a.call]].state = StateCompleted
                 /\ row[key[a.call]].expires = a.until

(* What a running Sweep selected was expired, and stays so. *)
SweepInv == \A k \in sweep : expired(seen[k], now)

(* Once a compare-and-set of CompleteTx has failed, every later one of the *)
(* call fails as well.                                                     *)
LostInv ==
    \A c \in Call :
        /\ pc[c] \in {"classifyTx", "rollback", "persist"} => ~cas(c)
        /\ result[c] = "leaseLost" =>
              /\ pc[c] \in {"rollback", "persist", "complete", "classify",
                            "discard", "release", "done", "crashed"}
              /\ pc[c] = "complete" => ~cas(c)

(* The inductive invariant: clocks and locks are in order, and what a      *)
(* lease or a lost lease promises is to be found in the row.               *)
IInv ==
    TypeOK /\ TimeInv /\ LockInv /\ UnsweptInv /\ OneCommit /\ SweepInv /\ LostInv

(* A Reserve returns: it waits for a row lock only as long as a            *)
(* transaction is open, and gives up on rows that keep vanishing.          *)
ReserveReturns ==
    \A c \in Call :
        pc[c] \in {"reserve", "issued", "claim", "read"}
            ~> pc[c] \in {"running", "exists", "failed"}

=============================================================================
