------------------------------ MODULE Policies ------------------------------
(***************************************************************************)
(* httpidem/policy.go and errtrailadapter/errtrailadapter.go: the policy   *)
(* that decides from the status, the one that decides from the error code  *)
(* a handler reported with SetError, and the error writer that renders a   *)
(* rejection through a code.                                               *)
(*                                                                         *)
(* An error is what the code can tell of it: "nil", "unknown" (it has no   *)
(* errtrail code), "retryable" or "permanent".                             *)
(***************************************************************************)
EXTENDS Integers

ErrorKinds == {"nil", "unknown", "retryable", "permanent"}

defaultDecide(status) ==
    IF status = 429 \/ status >= 500 THEN "Discard" ELSE "Persist"

(* Mutant: the error is asked only about responses the status would keep   *)
(* from being stored.                                                      *)
errtrailDecideLate(status, err) ==
    IF defaultDecide(status) = "Discard" /\ err # "permanent"
    THEN "Discard" ELSE "Persist"

(* errtrailadapter.Policy: a code of its own outranks the status. *)
errtrailDecide(status, err) ==
    CASE err \in {"nil", "unknown"} -> defaultDecide(status)
      [] err = "retryable" -> "Discard"
      [] err = "permanent" -> "Persist"

-----------------------------------------------------------------------------
(* The sentinels of httpidem/errors.go and the codes they are mapped to *)

Sentinels == {"ErrKeyMissing", "ErrKeyInvalid", "ErrInFlight",
              "ErrFingerprintMismatch", "ErrRequestBodyTooLarge",
              "ErrStoreUnavailable"}

(* Anything else (a body that cannot be read, a corrupted payload) gets a  *)
(* code from the class of its status.                                      *)
classify(status, err) ==
    CASE err = "ErrKeyMissing" -> "CodeKeyMissing"
      [] err = "ErrKeyInvalid" -> "CodeKeyInvalid"
      [] err = "ErrInFlight" -> "CodeInFlight"
      [] err = "ErrFingerprintMismatch" -> "CodePayloadMismatch"
      [] err = "ErrRequestBodyTooLarge" -> "CodeBodyTooLarge"
      [] err = "ErrStoreUnavailable" -> "Unavailable"
      [] OTHER -> IF status \in 400 .. 499 THEN "InvalidArgument" ELSE "Unknown"

(* The statuses registered for the codes, errtrail's own included. *)
httpStatus ==
    [CodeKeyMissing |-> 400, CodeKeyInvalid |-> 400, CodeInFlight |-> 409,
     CodePayloadMismatch |-> 422, CodeBodyTooLarge |-> 413,
     Unavailable |-> 503, InvalidArgument |-> 400, Unknown |-> 500]

=============================================================================
