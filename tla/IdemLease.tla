----------------------------- MODULE IdemLease -----------------------------
(***************************************************************************)
(* The lease protocol of idemlease.go: concurrent calls of Begin, the      *)
(* execution between Begin and Finish, and Finish, over a Store with the   *)
(* semantics of memstore.                                                  *)
(*                                                                         *)
(* The clock advances between any two steps, so the instant Begin stamps   *)
(* on its record, the instant the Store checks expiry and the instant      *)
(* Begin judges the record it got back are three different readings.       *)
(*                                                                         *)
(* The Store is an interface: for callers of a remote one a call can fail  *)
(* with the request still on its way.  Such a request is kept in late and  *)
(* may be applied at any later time or never; its answer is lost.          *)
(***************************************************************************)
EXTENDS MemStore, FiniteSets

CONSTANTS MaxTime,      \* bound: the clock stops here
          MaxLate       \* bound: requests on their way at the same time

ASSUME BoundAssumption == MaxTime \in Nat /\ MaxLate \in Nat

VARIABLES
    now,        \* the clock
    recs,       \* the Store's map
    late,       \* requests whose caller gave up, not applied yet
    pc,         \* where each call is
    attempt,    \* Begin's loop counter
    key, fp,    \* Begin's arguments
    lease,      \* LeaseExpiresAt stamped on the last record sent
    existing,   \* the record Reserve returned with ErrAlreadyExists
    outcome,    \* the Outcome of Begin
    decided,    \* the Decision passed to the first Finish
    result      \* what Finish told the caller

vars == <<now, recs, late, pc, attempt, key, fp, lease, existing, outcome,
          decided, result>>

store == <<now, recs, late>>
args == <<key, fp>>
ending == <<decided, result>>

maxAttempts == 3

Pending == [action |-> "pending", payload |-> None, retryAfter |-> 0]

Init ==
    /\ now = 0
    /\ recs = New
    /\ late = {}
    /\ pc = [c \in Call |-> "begin"]
    /\ attempt = [c \in Call |-> 1]
    /\ key \in [Call -> Key]
    /\ fp \in [Call -> Fingerprint]
    /\ lease = [c \in Call |-> 0]
    /\ existing = [c \in Call |-> NoRecord]
    /\ outcome = [c \in Call |-> Pending]
    /\ decided = [c \in Call |-> "none"]
    /\ result = [c \in Call |-> "none"]

-----------------------------------------------------------------------------
(* Begin *)

answer(c, action) ==
    outcome' = [outcome EXCEPT ![c].action = action]

(* A Store call fails with its request still on its way. *)
fail(c, op) ==
    /\ Cardinality(late) < MaxLate
    /\ late' = late \cup {[op |-> op, call |-> c]}

(* newToken fails: Begin returns before any request is made. *)
NewTokenError(c) ==
    /\ pc[c] = "begin" /\ attempt[c] = 1
    /\ pc' = [pc EXCEPT ![c] = "failed"]
    /\ answer(c, "error")
    /\ UNCHANGED <<store, attempt, args, lease, existing, ending>>

(* The head of Begin's loop, entered with a token drawn: the record is     *)
(* built, and its lease runs from here, not from the claim.                *)
Stamp(c) ==
    /\ pc[c] = "begin"
    /\ pc' = [pc EXCEPT ![c] = "reserve"]
    /\ lease' = [lease EXCEPT ![c] = now + leaseTTL]
    /\ UNCHANGED <<store, attempt, args, existing, outcome, ending>>

reservation(c) ==
    [state |-> StateReserved, token |-> c, fp |-> fp[c],
     lease |-> lease[c], expires |-> 0, payload |-> None]

ReserveCall(c) ==
    /\ pc[c] = "reserve"
    /\ LET r == Reserve(recs, key[c], reservation(c), now) IN
         /\ recs' = r.recs
         /\ existing' = [existing EXCEPT ![c] = r.existing]
         /\ \/ /\ r.err = "nil"
               /\ pc' = [pc EXCEPT ![c] = "running"]
               /\ answer(c, "Proceed")
            \/ /\ r.err = "AlreadyExists"
               /\ pc' = [pc EXCEPT ![c] = "judge"]
               /\ UNCHANGED outcome
    /\ UNCHANGED <<now, late, attempt, args, lease, ending>>

(* The Store call fails; whether the claim still lands is open. *)
ReserveError(c) ==
    /\ pc[c] = "reserve"
    /\ pc' = [pc EXCEPT ![c] = "failed"]
    /\ answer(c, "error")
    /\ fail(c, "reserve")
    /\ UNCHANGED <<now, recs, attempt, args, lease, existing, ending>>

(* Mutant: the expired record is judged again instead of claimed. *)
JudgeExpiredForever(c) ==
    /\ pc[c] = "judge"
    /\ Expired(existing[c], now)
    /\ UNCHANGED vars

(* The record expired between the Store's check and this reading. *)
JudgeExpired(c) ==
    /\ pc[c] = "judge"
    /\ Expired(existing[c], now)
    /\ \/ /\ attempt[c] < maxAttempts
          /\ attempt' = [attempt EXCEPT ![c] = @ + 1]
          /\ pc' = [pc EXCEPT ![c] = "begin"]
          /\ UNCHANGED outcome
       \/ /\ attempt[c] >= maxAttempts
          /\ pc' = [pc EXCEPT ![c] = "failed"]
          /\ answer(c, "error")
          /\ UNCHANGED attempt
    /\ existing' = [existing EXCEPT ![c] = NoRecord]
    /\ UNCHANGED <<store, args, lease, ending>>

(* Mutant: a record that has just expired is taken for live. *)
JudgeLiveUnchecked(c) ==
    /\ pc[c] = "judge"
    /\ existing[c].state = StateReserved
    /\ outcome' = [outcome EXCEPT ![c] =
                      [action |-> "RejectInFlight", payload |-> None,
                       retryAfter |-> existing[c].lease - now]]
    /\ pc' = [pc EXCEPT ![c] = "answered"]
    /\ existing' = [existing EXCEPT ![c] = NoRecord]
    /\ UNCHANGED <<store, attempt, args, lease, ending>>

(* Mutant: a live record is replayed whatever its state. *)
JudgeLiveAnyState(c) ==
    /\ pc[c] = "judge"
    /\ ~Expired(existing[c], now)
    /\ outcome' = [outcome EXCEPT ![c] =
                      [action |-> "Replay", payload |-> existing[c].payload,
                       retryAfter |-> 0]]
    /\ pc' = [pc EXCEPT ![c] = "answered"]
    /\ existing' = [existing EXCEPT ![c] = NoRecord]
    /\ UNCHANGED <<store, attempt, args, lease, ending>>

(* The record is live: a reservation rejects, a completed record is        *)
(* replayed or, for another fingerprint, rejects.                          *)
JudgeLive(c) ==
    /\ pc[c] = "judge"
    /\ ~Expired(existing[c], now)
    /\ \/ /\ existing[c].state = StateReserved
          /\ outcome' = [outcome EXCEPT ![c] =
                           [action |-> "RejectInFlight", payload |-> None,
                            retryAfter |-> existing[c].lease - now]]
       \/ /\ existing[c].state = StateCompleted
          /\ existing[c].fp = fp[c]
          /\ outcome' = [outcome EXCEPT ![c] =
                           [action |-> "Replay", payload |-> existing[c].payload,
                            retryAfter |-> 0]]
       \/ /\ existing[c].state = StateCompleted
          /\ existing[c].fp # fp[c]
          /\ answer(c, "RejectFingerprintMismatch")
    /\ pc' = [pc EXCEPT ![c] = "answered"]
    /\ existing' = [existing EXCEPT ![c] = NoRecord]
    /\ UNCHANGED <<store, attempt, args, lease, ending>>

-----------------------------------------------------------------------------
(* Finish *)

(* Persist is Store.Complete, Discard is Store.Release. *)
settle(c, d) ==
    IF d = "Persist" THEN Complete(recs, key[c], c, c, now)
                     ELSE Release(recs, key[c], c, now)

(* ErrTokenMismatch and ErrNotFound are normalised to leaseLost. *)
leaseLost(err) == err \in {"TokenMismatch", "NotFound"}

Finish(c, d) ==
    /\ pc[c] = "running"
    /\ decided' = [decided EXCEPT ![c] = d]
    /\ LET r == settle(c, d) IN
         /\ recs' = r.recs
         /\ result' = [result EXCEPT ![c] =
                IF leaseLost(r.err) THEN "leaseLost"
                ELSE IF d = "Persist" THEN "persisted" ELSE "discarded"]
    /\ pc' = [pc EXCEPT ![c] = "finished"]
    /\ UNCHANGED <<now, late, attempt, args, lease, existing, outcome>>

(* The Store call fails: the caller cannot know what became of it. *)
FinishError(c, d) ==
    /\ pc[c] = "running"
    /\ decided' = [decided EXCEPT ![c] = d]
    /\ result' = [result EXCEPT ![c] = "unknown"]
    /\ fail(c, d)
    /\ pc' = [pc EXCEPT ![c] = IF d = "Persist" THEN "unsettled" ELSE "finished"]
    /\ UNCHANGED <<now, recs, attempt, args, lease, existing, outcome>>

(* The adapters' last resort: a failed Persist is followed by a Discard,   *)
(* whose failure is final.                                                 *)
FinishAgain(c) ==
    /\ pc[c] = "unsettled"
    /\ pc' = [pc EXCEPT ![c] = "finished"]
    /\ \/ LET r == settle(c, "Discard") IN
            /\ recs' = r.recs
            /\ result' = [result EXCEPT ![c] =
                            IF leaseLost(r.err) THEN @ ELSE "discarded"]
            /\ UNCHANGED late
       \/ /\ fail(c, "Discard")
          /\ UNCHANGED <<recs, result>>
    /\ UNCHANGED <<now, attempt, args, lease, existing, outcome, decided>>

-----------------------------------------------------------------------------
(* The environment *)

(* A request nobody waits for reaches the Store after all. *)
LateArrival(o) ==
    /\ o \in late
    /\ late' = late \ {o}
    /\ recs' = IF o.op = "reserve"
               THEN Reserve(recs, key[o.call], reservation(o.call), now).recs
               ELSE settle(o.call, o.op).recs
    /\ UNCHANGED <<now, pc, attempt, args, lease, existing, outcome, ending>>

(* Store.Get, from operations or debugging. *)
Inspect(k) ==
    /\ recs' = Get(recs, k, now).recs
    /\ UNCHANGED <<now, late, pc, attempt, args, lease, existing, outcome, ending>>

(* The process of a call dies, or its caller never calls Finish; what it   *)
(* reserved stays behind.  Dying inside Begin leaves at most a request on  *)
(* its way, which is ReserveError.                                         *)
Crash(c) ==
    /\ pc[c] \in {"running", "unsettled"}
    /\ pc' = [pc EXCEPT ![c] = "crashed"]
    /\ UNCHANGED <<store, attempt, args, lease, existing, outcome, ending>>

Tick ==
    /\ now < MaxTime
    /\ now' = now + 1
    /\ UNCHANGED <<recs, late, pc, attempt, args, lease, existing, outcome, ending>>

BeginStep(c) == Stamp(c) \/ ReserveCall(c) \/ JudgeExpired(c) \/ JudgeLive(c)

Step(c) ==
    \/ NewTokenError(c)
    \/ BeginStep(c) \/ ReserveError(c)
    \/ \E d \in {"Persist", "Discard"} : Finish(c, d) \/ FinishError(c, d)
    \/ FinishAgain(c)
    \/ Crash(c)

Next ==
    \/ \E c \in Call : Step(c)
    \/ \E o \in late : LateArrival(o)
    \/ \E k \in Key : Inspect(k)
    \/ Tick

Spec == Init /\ [][Next]_vars

-----------------------------------------------------------------------------
(* Properties *)

PCs == {"begin", "reserve", "judge", "running", "unsettled",
        "answered", "finished", "failed", "crashed"}

Actions == {"pending", "Proceed", "Replay", "RejectInFlight",
            "RejectFingerprintMismatch", "error"}

Requests == [op : {"reserve", "Persist", "Discard"}, call : Call]

(* Every variable holds a value of the shape the code gives it; the Store  *)
(* never holds a record with a key, token or fingerprint of the wrong kind.*)
TypeOK ==
    /\ now \in Nat
    /\ recs \in [Key -> Records]
    /\ late \subseteq Requests
    /\ pc \in [Call -> PCs]
    /\ attempt \in [Call -> 1 .. maxAttempts]
    /\ key \in [Call -> Key]
    /\ fp \in [Call -> Fingerprint]
    /\ lease \in [Call -> Nat]
    /\ existing \in [Call -> Records]
    /\ outcome \in [Call -> [action : Actions, payload : Call \cup {None},
                             retryAfter : Int]]
    /\ decided \in [Call -> {"none", "Persist", "Discard"}]
    /\ result \in [Call -> {"none", "persisted", "discarded", "leaseLost",
                            "unknown"}]

(* A call executes under a lease that is still valid. *)
Holds(c) == pc[c] = "running" /\ now < lease[c]

(* At most one execution of a key holds a valid lease at any time: between *)
(* the Proceed of one Begin and its Finish no other Begin gets a Proceed   *)
(* before the first lease has run out, whatever requests arrive late.      *)
LeaseExclusive ==
    \A c, d \in Call :
        Holds(c) /\ Holds(d) /\ key[c] = key[d] => c = d

(* As long as its lease is valid, an executing call still finds its own    *)
(* reservation in the Store, untouched: Finish then cannot report the      *)
(* lease as lost.                                                          *)
HolderIntact ==
    \A c \in Call : Holds(c) => recs[key[c]] = reservation(c)

(* A replayed payload is the result of an earlier execution of the same    *)
(* key and fingerprint that decided to Persist, and that was not told that *)
(* its lease was lost or its reservation dropped.                          *)
ReplayFaithful ==
    \A c \in Call :
        outcome[c].action = "Replay" =>
            LET p == outcome[c].payload IN
            /\ p \in Call \ {c}
            /\ key[p] = key[c] /\ fp[p] = fp[c]
            /\ decided[p] = "Persist"
            /\ result[p] \in {"persisted", "unknown"}

(* A call is rejected in flight only because of another call's reservation *)
(* of the same key, and is told to come back within the lease of that one. *)
RejectionJustified ==
    [][\A c \in Call :
          outcome'[c] # outcome[c] /\ outcome'[c].action = "RejectInFlight" =>
              /\ existing[c].token \in Call \ {c}
              /\ key[existing[c].token] = key[c]
              /\ outcome'[c].retryAfter \in 1 .. leaseTTL]_vars

(* A result that was persisted stays as it is, replayable, until its       *)
(* RecordExpiresAt: no late claim, retry, stale Finish or Get removes or   *)
(* replaces it.                                                            *)
CompletedStable ==
    [][\A k \in Key :
          recs[k].state = StateCompleted /\ ~Expired(recs[k], now)
              => recs'[k] = recs[k]]_vars

(* The Store seen through Expired is the contract: what has expired is     *)
(* absent, whether or not it has been deleted.                             *)
entry(r, t) ==
    IF Expired(r, t)
    THEN [kind |-> "free", by |-> None, until |-> 0]
    ELSE IF r.state = StateReserved
    THEN [kind |-> "leased", by |-> r.token, until |-> r.lease]
    ELSE [kind |-> "stored", by |-> r.payload, until |-> r.expires]

view == [k \in Key |-> entry(recs[k], now)]

Contract == INSTANCE LeaseContract
    WITH clock <- now, held <- view,
         MaxLease <- leaseTTL, MaxRecord <- recordTTL

(* Lazy deletion, overwriting of expired records and late requests         *)
(* together still implement the contract, in which a key is free the       *)
(* instant its lease or record runs out.                                   *)
Implements == Contract!ContractSpec

(* The inductive strengthening. *)

(* p was completed, and no reservation is left that a Finish of p could    *)
(* still drop.                                                             *)
Completed(p) ==
    /\ p \in Call
    /\ decided[p] = "Persist"
    /\ result[p] \in {"persisted", "unknown"}
    /\ ~(recs[key[p]].state = StateReserved /\ recs[key[p]].token = p)

(* r is a record some call of key k left in the Store. *)
Genuine(r, k) ==
    /\ r.token \in Call
    /\ key[r.token] = k /\ fp[r.token] = r.fp
    /\ r.lease <= now + leaseTTL
    /\ pc[r.token] \notin {"begin", "reserve", "judge", "answered"}
    /\ r.state = StateCompleted => r.payload = r.token /\ Completed(r.payload)

StoreInv ==
    \A k \in Key : recs[k].state # 0 =>
        /\ Genuine(recs[k], k)
        /\ recs[k].state = StateReserved =>
              /\ recs[k] = reservation(recs[k].token)
              /\ result[recs[k].token] \in {"none", "unknown"}

BeginInv ==
    \A c \in Call :
        /\ lease[c] <= now + leaseTTL
        /\ pc[c] = "judge" => /\ existing[c].state # 0
                              /\ existing[c].token # c
                              /\ Genuine(existing[c], key[c])
        /\ outcome[c].action = "Replay" =>
              LET p == outcome[c].payload IN
              Completed(p) /\ p # c /\ key[p] = key[c] /\ fp[p] = fp[c]

FinishInv ==
    /\ \A c \in Call :
          /\ pc[c] \notin {"unsettled", "finished", "crashed"}
                => decided[c] = "none" /\ result[c] = "none"
          /\ pc[c] = "unsettled" => decided[c] = "Persist" /\ result[c] = "unknown"
    /\ \A o \in late :
          /\ o.op = "reserve" => pc[o.call] = "failed"
          /\ o.op = "Persist" =>
                /\ pc[o.call] \in {"unsettled", "finished", "crashed"}
                /\ decided[o.call] = "Persist"
                /\ result[o.call] \in {"unknown", "discarded"}
          /\ o.op = "Discard" =>
                /\ pc[o.call] = "finished"
                /\ result[o.call] = "unknown"

(* The inductive invariant: every record in the Store, and every record a  *)
(* Begin is judging, was put there by a call of that key that has gone     *)
(* past its claim; a completed one never turns back into a reservation;    *)
(* and what is still on its way belongs to a call that gave up.            *)
IInv == TypeOK /\ StoreInv /\ BeginInv /\ FinishInv /\ HolderIntact

=============================================================================
