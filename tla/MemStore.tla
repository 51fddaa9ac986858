------------------------------ MODULE MemStore ------------------------------
(***************************************************************************)
(* memstore/memstore.go: the Store kept in a map guarded by one mutex.     *)
(* Every method runs under the mutex from its first to its last line, so a *)
(* method is an operator from the map and the instant read under the mutex *)
(* to the error it returns and the map it leaves behind.  A key that is    *)
(* not in the map has NoRecord.                                            *)
(***************************************************************************)
EXTENDS Record

New == [k \in Key |-> NoRecord]

(* lookup: an expired record is deleted on access. *)
lookup(recs, k, t) ==
    IF Expired(recs[k], t) THEN [recs EXCEPT ![k] = NoRecord] ELSE recs

(* Mutant: the claim overwrites whatever is there. *)
ReserveBlind(recs, k, rec, t) ==
    [err |-> "nil", existing |-> NoRecord, recs |-> [recs EXCEPT ![k] = rec]]

(* Reserve: only a live record stops the claim, and it is returned. *)
Reserve(recs, k, rec, t) ==
    IF lookup(recs, k, t)[k] = NoRecord
    THEN [err |-> "nil", existing |-> NoRecord, recs |-> [recs EXCEPT ![k] = rec]]
    ELSE [err |-> "AlreadyExists", existing |-> recs[k], recs |-> recs]

(* Mutant: any reservation will do, whoever holds it. *)
holderErrAnyToken(recs, k, token, t) ==
    IF lookup(recs, k, t)[k] = NoRecord \/ recs[k].state # StateReserved
    THEN "NotFound" ELSE "nil"

(* Mutant: a completed record passes for a reservation. *)
holderErrAnyState(recs, k, token, t) ==
    IF lookup(recs, k, t)[k] = NoRecord THEN "NotFound"
    ELSE IF recs[k].token # token THEN "TokenMismatch"
    ELSE "nil"

(* The checks that Complete and Release share, in the code's order. *)
holderErr(recs, k, token, t) ==
    IF lookup(recs, k, t)[k] = NoRecord THEN "NotFound"
    ELSE IF recs[k].token # token THEN "TokenMismatch"
    ELSE IF recs[k].state # StateReserved THEN "NotFound"
    ELSE "nil"

(* The reservation r turned into a completed record at instant t. *)
completion(r, payload, t) ==
    [state |-> StateCompleted, token |-> r.token, fp |-> r.fp,
     lease |-> r.lease, expires |-> t + recordTTL, payload |-> payload]

Complete(recs, k, token, payload, t) ==
    LET err == holderErr(recs, k, token, t)
    IN  [err |-> err,
         recs |-> IF err = "nil"
                  THEN [recs EXCEPT ![k] = completion(recs[k], payload, t)]
                  ELSE lookup(recs, k, t)]

Release(recs, k, token, t) ==
    LET err == holderErr(recs, k, token, t)
    IN  [err |-> err,
         recs |-> IF err = "nil" THEN [recs EXCEPT ![k] = NoRecord]
                                 ELSE lookup(recs, k, t)]

(* Get changes the map too: the lookup behind it deletes what expired. *)
Get(recs, k, t) ==
    [existing |-> lookup(recs, k, t)[k], recs |-> lookup(recs, k, t)]

=============================================================================
