--------------------------- MODULE LeaseContract ---------------------------
(***************************************************************************)
(* What the Store interface (store.go) promises its callers, with no       *)
(* mention of how records are kept: a key is free, leased to one call, or  *)
(* stores the result of one call, and it becomes free the very instant the *)
(* lease or the record runs out.  There is no expired record here, no lazy *)
(* deletion and no overwriting; the stores have to implement this.         *)
(***************************************************************************)
EXTENDS Integers

CONSTANTS Call, Key, None,
          MaxLease,             \* the longest lease a call asks for
          MaxRecord             \* the longest time a result is kept

VARIABLES clock, held

contractVars == <<clock, held>>

Free == [kind |-> "free", by |-> None, until |-> 0]

ContractInit == /\ clock = 0
                /\ held = [k \in Key |-> Free]

(* A free key is leased to one call until an instant in the future. *)
Grant(k, c, u) ==
    /\ held[k] = Free
    /\ held' = [held EXCEPT ![k] = [kind |-> "leased", by |-> c, until |-> u]]
    /\ UNCHANGED clock

(* Only the leased key's own call can turn the lease into a result. *)
Keep(k, u) ==
    /\ held[k].kind = "leased"
    /\ held' = [held EXCEPT ![k] =
                    [kind |-> "stored", by |-> held[k].by, until |-> u]]
    /\ UNCHANGED clock

(* A lease, and only a lease, can be given back early. *)
GiveBack(k) ==
    /\ held[k].kind = "leased"
    /\ held' = [held EXCEPT ![k] = Free]
    /\ UNCHANGED clock

(* Time passes; whatever runs out is free at once. *)
Pass ==
    /\ clock' = clock + 1
    /\ held' = [k \in Key |-> IF held[k].until <= clock' THEN Free ELSE held[k]]

ContractNext ==
    \/ \E k \in Key, c \in Call, u \in (clock + 1) .. (clock + MaxLease) :
           Grant(k, c, u)
    \/ \E k \in Key, u \in (clock + 1) .. (clock + MaxRecord) : Keep(k, u)
    \/ \E k \in Key : GiveBack(k)
    \/ Pass

ContractSpec == ContractInit /\ [][ContractNext]_contractVars

=============================================================================
