----------------------------- MODULE GinWriter ------------------------------
(***************************************************************************)
(* ginadapter/ginadapter.go: the captureWriter of the Gin adapter, which   *)
(* feeds the same Recorder as net/http's but takes its snapshot when Gin   *)
(* sends the header, and a model of Gin's own writer below it.             *)
(*                                                                         *)
(* Gin's WriteHeader only notes the status; the header goes out with the   *)
(* first body byte, with WriteHeaderNow or Flush, or when the engine is    *)
(* done with the chain.  Until then anybody may change it.                 *)
(***************************************************************************)
EXTENDS Recorder

(* status is the one Gin has noted, written that its header is out. *)
NewGin(preset) ==
    [rec |-> NewRecorder, pending |-> 0, snapshotted |-> FALSE, header |-> {},
     status |-> preset, written |-> FALSE, wire |-> NewWire]

-----------------------------------------------------------------------------
(* Gin's responseWriter, from how the adapter relies on it *)

ginWriteHeader(w, code) ==
    IF w.written THEN w ELSE [w EXCEPT !.status = code]

ginWriteHeaderNow(w) ==
    IF w.written
    THEN w
    ELSE [w EXCEPT !.written = TRUE, !.wire = wireHeader(@, w.status, w.header)]

ginWrite(w, n) ==
    LET v == ginWriteHeaderNow(w)
    IN  [v EXCEPT !.wire = wireWrite(@, n, v.header)]

ginFlush(w) ==
    LET v == ginWriteHeaderNow(w)
    IN  [v EXCEPT !.wire = wireHeader(@, StatusOK, v.header)]

(* net/http lets a connection be taken over once. *)
ginHijack(w) == [w EXCEPT !.written = TRUE, !.wire = wireHijack(@)]

(* The engine sends the header, the server its implicit 200 after a chain  *)
(* that sent at most a 1xx.                                                *)
ginServed(w) == ginFlush(w)

-----------------------------------------------------------------------------
(* The adapter's captureWriter *)

GinSetHeader(w, h) == [w EXCEPT !.header = @ \cup {h}]

GinDelHeader(w, h) == [w EXCEPT !.header = @ \ {h}]

(* Mutant: like net/http's, the capture takes the status at once. *)
GinWriteHeaderAtOnce(w, code) ==
    ginWriteHeader(
        IF ~w.snapshotted /\ code >= 200
        THEN [w EXCEPT !.rec = RecordStatus(@, code, w.header),
                       !.snapshotted = TRUE]
        ELSE w, code)

GinWriteHeader(w, code) ==
    ginWriteHeader(
        IF ~w.snapshotted /\ code >= 200 THEN [w EXCEPT !.pending = code] ELSE w,
        code)

snapshot(w) ==
    IF w.snapshotted
    THEN w
    ELSE [w EXCEPT !.rec = RecordStatus(@, IF w.pending = 0 THEN StatusOK
                                           ELSE w.pending, w.header),
                   !.snapshotted = TRUE]

(* Write and WriteString *)
GinWrite(w, n) ==
    LET v == snapshot(w)
    IN  ginWrite([v EXCEPT !.rec = RecordBody(@, n)], n)

GinWriteHeaderNow(w) == ginWriteHeaderNow(snapshot(w))

GinFlush(w) == ginFlush([w EXCEPT !.rec = Abandon(@)])

(* The capture survives a failed Hijack. *)
GinHijack(w) ==
    IF w.wire.hijacked THEN w ELSE [ginHijack(w) EXCEPT !.rec = Abandon(@)]

GinFinalize(w) == snapshot(w)

(* writeReplay on an untouched writer. *)
GinReplay(sr) ==
    ginWrite(ginWriteHeader([NewGin(StatusOK) EXCEPT !.header = sr.header],
                            sr.status), sr.body).wire

-----------------------------------------------------------------------------
(* What holds of a Gin captureWriter between two calls *)

GinWriters ==
    [rec : Recs, pending : StatusCodes, snapshotted : BOOLEAN,
     header : SUBSET Header, status : Informational \cup 200 .. 999,
     written : BOOLEAN, wire : Wires]

(* The status the snapshot takes or took, if Gin started with 200. *)
noted(w, preset) == IF w.pending = 0 THEN preset ELSE w.pending

(* As long as nothing was streamed, Gin has the status that was noted or a *)
(* 1xx, and the Recorder agrees with the wire once the header is out.      *)
GinSynced(w, preset) ==
    /\ w.snapshotted <=> w.rec.status # 0
    /\ ~w.rec.abandoned =>
          /\ ~w.wire.hijacked
          /\ w.snapshotted => w.rec.status = noted(w, StatusOK)
          /\ w.status \in Informational \/ w.status = noted(w, preset)
          /\ ~w.written => w.wire.status = 0 /\ w.wire.body = 0 /\ w.rec.body = 0
          /\ ~w.written /\ w.snapshotted => w.rec.header = w.header \cap allow
          /\ w.written => w.snapshotted
          /\ w.written /\ w.status \notin Informational =>
                /\ w.wire.status = w.status
                /\ w.rec.header = w.wire.header \cap allow
                /\ Storable(w.rec) =>
                      w.wire.body = IF w.status \in Bodyless THEN 0 ELSE w.rec.body

GinGood(w, preset) == w \in GinWriters /\ GinSynced(w, preset)

(* The handlers are still running: a snapshot and the header go together. *)
GinOpen(w) == w.snapshotted /\ ~w.rec.abandoned => w.written

=============================================================================
