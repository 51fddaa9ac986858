------------------------------- MODULE Record -------------------------------
(***************************************************************************)
(* The unit a Store persists (record.go) and the TTLs of one Begin/Finish  *)
(* pair (Options in idemlease.go).                                         *)
(*                                                                         *)
(* A reservation token is 128 random bits drawn once per Begin, so the     *)
(* call itself stands for its token; the payload a call persists is the    *)
(* result of that call, so the call stands for its payload as well.        *)
(* Instants are natural numbers.                                           *)
(***************************************************************************)
EXTENDS Integers

CONSTANTS
    Call,               \* executions of Begin ... Finish
    Key,                \* idempotency keys
    Fingerprint,        \* request fingerprints
    None,               \* no token, no payload, no fingerprint
    LeaseTTL,           \* Options.LeaseTTL as configured, possibly <= 0
    RecordTTL,          \* Options.RecordTTL as configured, possibly <= 0
    DefaultLeaseTTL,
    DefaultRecordTTL

ASSUME NoneAssumption == None \notin Call \cup Fingerprint

ASSUME TTLAssumption ==
    /\ LeaseTTL \in Int /\ RecordTTL \in Int
    /\ DefaultLeaseTTL \in Nat \ {0} /\ DefaultRecordTTL \in Nat \ {0}

(* Options.Effective: non-positive TTLs are replaced by the defaults. *)
leaseTTL == IF LeaseTTL > 0 THEN LeaseTTL ELSE DefaultLeaseTTL

recordTTL == IF RecordTTL > 0 THEN RecordTTL ELSE DefaultRecordTTL

-----------------------------------------------------------------------------
StateReserved == 1

StateCompleted == 2

(* The zero State is invalid; the zero Record stands for an absent key. *)
Records ==
    [state : {0, StateReserved, StateCompleted},
     token : Call \cup {None},
     fp : Fingerprint \cup {None},
     lease : Nat,                       \* LeaseExpiresAt
     expires : Nat,                     \* RecordExpiresAt
     payload : Call \cup {None}]

NoRecord ==
    [state |-> 0, token |-> None, fp |-> None,
     lease |-> 0, expires |-> 0, payload |-> None]

(* Mutant: the boundary instant still counts as live. *)
ExpiredStrict(r, t) ==
    /\ r.state = StateReserved => r.lease < t
    /\ r.state = StateCompleted => r.expires < t

(* The boundary instant counts as expired, an unknown state always does. *)
Expired(r, t) ==
    /\ r.state = StateReserved => r.lease <= t
    /\ r.state = StateCompleted => r.expires <= t

=============================================================================
