------------------------------ MODULE Capture -------------------------------
(***************************************************************************)
(* One response under capture: the handler calls its ResponseWriter in any *)
(* order, then returns.                                                    *)
(***************************************************************************)
EXTENDS Recorder

CONSTANTS
    Statuses,           \* the statuses handlers write
    MaxCalls            \* bound: calls of one handler

ASSUME StatusesAssumption == Statuses \subseteq Informational \cup 200 .. 999

ASSUME MaxCallsAssumption == MaxCalls \in Nat

VARIABLES w,            \* the captureWriter
          calls,        \* calls made so far
          phase,        \* "running", and "returned" once finalize ran
          streamed      \* history: a Flush or a Hijack went through

vars == <<w, calls, phase, streamed>>

Init ==
    /\ w = NewCapture
    /\ calls = 0
    /\ phase = "running"
    /\ streamed = FALSE

(* A call of the handler; out says that the response leaves the hands of   *)
(* the Recorder by it.                                                     *)
Call(v, out) ==
    /\ phase = "running"
    /\ calls < MaxCalls
    /\ w' = v
    /\ calls' = calls + 1
    /\ streamed' = (streamed \/ out)
    /\ UNCHANGED phase

Return ==
    /\ phase = "running"
    /\ w' = Finalize(w)
    /\ phase' = "returned"
    /\ UNCHANGED <<calls, streamed>>

Next ==
    \/ \E h \in Header : Call(SetHeader(w, h), FALSE)
    \/ \E h \in Header : Call(DelHeader(w, h), FALSE)
    \/ \E code \in Statuses : Call(WriteHeader(w, code), FALSE)
    \/ \E n \in {1, MaxResponseBody} : Call(Write(w, n), FALSE)
    \/ \E err \in {"nil", "NotSupported", "failed"} :
          Call(Flush(w, err), err # "NotSupported")
    \/ \E err \in {"nil", "failed"} : Call(Hijack(w, err), err = "nil")
    \/ Return

Spec == Init /\ [][Next]_vars

-----------------------------------------------------------------------------
(* The capture and the wire have their shapes. *)
TypeOK ==
    /\ w \in Writers
    /\ calls \in 0 .. MaxCalls
    /\ phase \in {"running", "returned"}
    /\ streamed \in BOOLEAN

(* What a second client gets from the replay of a capture is what the      *)
(* first client got, except for headers outside the allowlist: implicit    *)
(* statuses, informational ones, repeated ones, headers set too late,      *)
(* bodies where none is allowed and bodies at the limit included.          *)
CaptureFaithful ==
    phase = "returned" /\ Storable(w.rec) =>
        SameResponse(StoredResponse(w.rec), w.wire)

(* The status the policy judges is the one the client got, also when the   *)
(* body is not kept; a response of which a Flush sent some, or may have    *)
(* sent some before it failed, or that a Hijack took over, is not storable *)
(* at any time after.                                                      *)
StatusJudged ==
    /\ phase = "returned" /\ ~w.rec.abandoned => Status(w.rec) = w.wire.status
    /\ streamed => ~Storable(w.rec)

(* An overflowed or abandoned capture stays so, whatever is written        *)
(* afterwards: a body cut short is never taken for a short body.           *)
CaptureVoid == [][~Storable(w.rec) => ~Storable(w'.rec)]_vars

(* The inductive strengthening: the Recorder and the wire agree, have a    *)
(* status once finalize ran, and what was streamed is never storable.      *)
Agree ==
    /\ Synced(w)
    /\ phase = "returned" => w.wrote
    /\ streamed => ~Storable(w.rec)

IInv == TypeOK /\ Agree

=============================================================================
