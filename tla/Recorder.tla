------------------------------ MODULE Recorder ------------------------------
(***************************************************************************)
(* httpidem/recorder.go: the Recorder that keeps the replayable part of a  *)
(* response, and the captureWriter that feeds it while it forwards every   *)
(* call to the ResponseWriter of the server.                               *)
(*                                                                         *)
(* A header map is the set of names that have a value.  Of the bytes of a  *)
(* body only their number is kept: what is written is appended in order    *)
(* on both sides, so the sides differ when their lengths do.               *)
(***************************************************************************)
EXTENDS Integers

CONSTANTS
    Header,             \* the header names handlers set
    StoreHeaders,       \* the configured allowlist
    AlwaysExcluded,     \* Set-Cookie, Authorization and hop-by-hop headers
    MaxResponseBody     \* bytes captured at most

ASSUME HeaderAssumption == StoreHeaders \subseteq Header

ASSUME MaxResponseBodyAssumption == MaxResponseBody \in Nat

Informational == 100 .. 199

StatusOK == 200

(* Excluded names are dropped from the allowlist even if listed. *)
allow == StoreHeaders \ AlwaysExcluded

NewRecorder ==
    [status |-> 0, header |-> {}, body |-> 0,
     overflowed |-> FALSE, abandoned |-> FALSE]

(* Mutant: every header is kept. *)
RecordStatusAllHeaders(rec, code, header) ==
    IF rec.status # 0 \/ code \in Informational
    THEN rec
    ELSE [status |-> code, header |-> header, body |-> rec.body,
          overflowed |-> rec.overflowed, abandoned |-> rec.abandoned]

(* Only the first final status counts, with the headers of that moment. *)
RecordStatus(rec, code, header) ==
    IF rec.status # 0 \/ code \in Informational
    THEN rec
    ELSE [status |-> code, header |-> header \cap allow, body |-> rec.body,
          overflowed |-> rec.overflowed, abandoned |-> rec.abandoned]

(* Mutant: a body over the limit is cut short. *)
RecordBodyCut(rec, n) ==
    IF rec.overflowed \/ rec.abandoned \/ rec.body + n > MaxResponseBody
    THEN rec
    ELSE [status |-> rec.status, header |-> rec.header, body |-> rec.body + n,
          overflowed |-> rec.overflowed, abandoned |-> rec.abandoned]

(* The chunk that does not fit voids the capture for good. *)
RecordBody(rec, n) ==
    IF rec.overflowed \/ rec.abandoned
    THEN rec
    ELSE IF rec.body + n > MaxResponseBody
    THEN [status |-> rec.status, header |-> rec.header, body |-> 0,
          overflowed |-> TRUE, abandoned |-> rec.abandoned]
    ELSE [status |-> rec.status, header |-> rec.header, body |-> rec.body + n,
          overflowed |-> rec.overflowed, abandoned |-> rec.abandoned]

Abandon(rec) ==
    [status |-> rec.status, header |-> rec.header, body |-> 0,
     overflowed |-> rec.overflowed, abandoned |-> TRUE]

Status(rec) == IF rec.status = 0 THEN StatusOK ELSE rec.status

(* StoredResponse's second result: the capture may be stored. *)
Storable(rec) == ~rec.overflowed /\ ~rec.abandoned

StoredResponse(rec) ==
    [status |-> Status(rec), header |-> rec.header, body |-> rec.body]

-----------------------------------------------------------------------------
(* The ResponseWriter of the server, as what it puts on the wire: the      *)
(* first final status with the headers of that moment, then the body.      *)

Bodyless == {204, 304}

NewWire == [status |-> 0, header |-> {}, body |-> 0, hijacked |-> FALSE]

wireHeader(x, code, header) ==
    IF x.status # 0 \/ x.hijacked \/ code \in Informational
    THEN x
    ELSE [status |-> code, header |-> header, body |-> x.body,
          hijacked |-> x.hijacked]

wireWrite(x, n, header) ==
    LET y == wireHeader(x, StatusOK, header) IN
    IF y.hijacked \/ y.status \in Bodyless
    THEN y
    ELSE [status |-> y.status, header |-> y.header, body |-> y.body + n,
          hijacked |-> y.hijacked]

wireHijack(x) ==
    [status |-> x.status, header |-> x.header, body |-> x.body,
     hijacked |-> TRUE]

(* WriteStored on an untouched ResponseWriter whose map holds header. *)
WriteStored(sr, header) ==
    wireWrite(wireHeader(NewWire, sr.status, header \cup sr.header),
              sr.body, header \cup sr.header)

-----------------------------------------------------------------------------
(* captureWriter: header is the map Header() returns, wrote is wroteHeader.*)

NewCapture ==
    [rec |-> NewRecorder, wrote |-> FALSE, header |-> {}, wire |-> NewWire]

capture(rec, wrote, header, wire) ==
    [rec |-> rec, wrote |-> wrote, header |-> header, wire |-> wire]

SetHeader(w, h) == capture(w.rec, w.wrote, w.header \cup {h}, w.wire)

DelHeader(w, h) == capture(w.rec, w.wrote, w.header \ {h}, w.wire)

(* What WriteHeader tells the Recorder. *)
noteHeader(w, code) ==
    IF w.wrote THEN w.rec ELSE RecordStatus(w.rec, code, w.header)

WriteHeader(w, code) ==
    capture(noteHeader(w, code), w.wrote \/ code >= 200, w.header,
            wireHeader(w.wire, code, w.header))

(* Write: the implicit 200 first, then the Recorder, then the wire. *)
Write(w, n) ==
    LET v == IF w.wrote THEN w ELSE WriteHeader(w, StatusOK) IN
    capture(RecordBody(v.rec, n), v.wrote, v.header,
            wireWrite(v.wire, n, v.header))

(* Mutant: a flushed capture stays usable. *)
FlushKept(w, err) ==
    IF err = "NotSupported"
    THEN w
    ELSE capture(w.rec, w.wrote, w.header,
                 wireHeader(w.wire, StatusOK, w.header))

(* Flush: only an unsupported one leaves the capture usable; the server    *)
(* sends the header it has, with an implicit 200.                          *)
Flush(w, err) ==
    IF err = "NotSupported"
    THEN w
    ELSE capture(Abandon(w.rec), w.wrote, w.header,
                 wireHeader(w.wire, StatusOK, w.header))

(* Hijack: the capture survives only a failed one. *)
Hijack(w, err) ==
    IF err = "nil"
    THEN capture(Abandon(w.rec), w.wrote, w.header, wireHijack(w.wire))
    ELSE w

(* finalize, and the implicit 200 of the server once the handler returned. *)
Finalize(w) ==
    capture(noteHeader(w, StatusOK), TRUE, w.header,
            wireHeader(w.wire, StatusOK, w.header))

-----------------------------------------------------------------------------
(* What holds of a captureWriter between two calls of its handler *)

StatusCodes == {0} \cup 200 .. 999

(* The Recorder holds a final status and allowlisted names only. *)
Recs == [status : StatusCodes, header : SUBSET allow,
         body : 0 .. MaxResponseBody,
         overflowed : BOOLEAN, abandoned : BOOLEAN]

Wires == [status : StatusCodes, header : SUBSET Header, body : Nat,
          hijacked : BOOLEAN]

Writers == [rec : Recs, wrote : BOOLEAN, header : SUBSET Header, wire : Wires]

(* As long as nothing was streamed the Recorder and the wire agree. *)
Synced(w) ==
    /\ w.wrote <=> w.rec.status # 0
    /\ ~w.wrote => w.rec.body = 0
    /\ ~w.rec.abandoned =>
          /\ ~w.wire.hijacked
          /\ w.rec.status = w.wire.status
          /\ w.rec.header = w.wire.header \cap allow
    /\ Storable(w.rec) =>
          w.wire.body = IF w.wire.status \in Bodyless THEN 0 ELSE w.rec.body

Good(w) == w \in Writers /\ Synced(w)

(* What a second client gets from the replay of sr is what the first one   *)
(* received as x, except for headers outside the allowlist.                *)
SameResponse(sr, x) ==
    LET replayed == WriteStored(sr, {}) IN
    /\ replayed.status = x.status
    /\ replayed.header = x.header \cap allow
    /\ replayed.body = x.body

=============================================================================
