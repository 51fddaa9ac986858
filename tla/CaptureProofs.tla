---------------------------- MODULE CaptureProofs ---------------------------
(***************************************************************************)
(* Proofs about a response under capture, of net/http and of Gin, for      *)
(* every set of headers and statuses, every limit and any number of calls. *)
(***************************************************************************)
EXTENDS Capture, GinCapture, RecorderProofs

(* A request starts with nothing captured and nothing sent.                *)
LEMMA InitInv == Init => IInv
  <1> SUFFICES ASSUME Init PROVE IInv
    OBVIOUS
  <1>1. Good(w)
    BY NewGood DEF Init
  <1>2. streamed \in BOOLEAN /\ ~streamed
    BY Zenon DEF Init
  <1>3. calls \in 0 .. MaxCalls /\ phase = "running"
    BY MaxCallsAssumption DEF Init
  <1> QED
    BY <1>1, <1>2, <1>3 DEF IInv, TypeOK, Agree, Good

(* Every call keeps the two sides in step, if it leaves void what was      *)
(* streamed.                                                               *)
LEMMA CallKeeps ==
    ASSUME IInv, NEW v, NEW out \in BOOLEAN, Good(v), Call(v, out),
           streamed \/ out => ~Storable(v.rec)
    PROVE  IInv'
  BY MaxCallsAssumption DEF IInv, TypeOK, Agree, Good, Call

(* No call makes what was streamed storable again, and the ones that       *)
(* stream void the capture.                                                *)
LEMMA StreamedVoid ==
    ASSUME IInv
    PROVE  /\ streamed => /\ \A h : /\ ~Storable(SetHeader(w, h).rec)
                                   /\ ~Storable(DelHeader(w, h).rec)
                          /\ \A code : ~Storable(WriteHeader(w, code).rec)
                          /\ \A n : ~Storable(Write(w, n).rec)
                          /\ ~Storable(Finalize(w).rec)
           /\ \A err : streamed \/ err # "NotSupported" => ~Storable(Flush(w, err).rec)
           /\ \A err : streamed \/ err = "nil" => ~Storable(Hijack(w, err).rec)
  <1>1. w \in Writers /\ (streamed => ~Storable(w.rec))
    BY DEF IInv, TypeOK, Agree
  <1>2. ASSUME NEW h
        PROVE  SetHeader(w, h).rec = w.rec /\ DelHeader(w, h).rec = w.rec
    BY DEF SetHeader, DelHeader, capture
  <1>3. ~Storable(Abandon(w.rec))
    BY DEF Abandon, Storable
  <1>4. ASSUME NEW err, err # "NotSupported" PROVE ~Storable(Flush(w, err).rec)
    BY <1>3, <1>4 DEF Flush, capture
  <1>5. ASSUME NEW err, err = "nil" PROVE ~Storable(Hijack(w, err).rec)
    BY <1>3, <1>5 DEF Hijack, capture
  <1> QED
    BY <1>1, <1>2, <1>4, <1>5, VoidKept

(* Whatever the handler calls next keeps the two sides in step.            *)
LEMMA StepInv == IInv /\ [Next]_vars => IInv'
  <1> SUFFICES ASSUME IInv, [Next]_vars PROVE IInv'
    OBVIOUS
  <1>0. Good(w)
    BY DEF IInv, TypeOK, Agree, Good
  <1>1. ASSUME NEW h \in Header, Call(SetHeader(w, h), FALSE) PROVE IInv'
    <2>1. Good(SetHeader(w, h))
      BY <1>0, HeaderGood, Parts DEF SetHeader, Good
    <2> QED
      BY <1>1, <2>1, CallKeeps, StreamedVoid
  <1>2. ASSUME NEW h \in Header, Call(DelHeader(w, h), FALSE) PROVE IInv'
    <2>1. Good(DelHeader(w, h))
      BY <1>0, HeaderGood, Parts DEF DelHeader, Good
    <2> QED
      BY <1>2, <2>1, CallKeeps, StreamedVoid
  <1>3. ASSUME NEW code \in Statuses, Call(WriteHeader(w, code), FALSE) PROVE IInv'
    <2>1. Good(WriteHeader(w, code))
      BY <1>0, WriteHeaderGood, StatusesAssumption
    <2> QED
      BY <1>3, <2>1, CallKeeps, StreamedVoid
  <1>4. ASSUME NEW n \in {1, MaxResponseBody}, Call(Write(w, n), FALSE) PROVE IInv'
    <2>1. Good(Write(w, n))
      BY <1>0, WriteGood, MaxResponseBodyAssumption
    <2> QED
      BY <1>4, <2>1, CallKeeps, StreamedVoid
  <1>5. ASSUME NEW err, Call(Flush(w, err), err # "NotSupported") PROVE IInv'
    <2>1. Good(Flush(w, err)) /\ (err # "NotSupported") \in BOOLEAN
      BY <1>0, FlushGood
    <2>2. streamed \/ err # "NotSupported" => ~Storable(Flush(w, err).rec)
      BY StreamedVoid
    <2> QED
      BY <1>5, <2>1, <2>2, CallKeeps
  <1>6. ASSUME NEW err, Call(Hijack(w, err), err = "nil") PROVE IInv'
    <2>1. Good(Hijack(w, err)) /\ (err = "nil") \in BOOLEAN
      BY <1>0, HijackGood
    <2>2. streamed \/ err = "nil" => ~Storable(Hijack(w, err).rec)
      BY StreamedVoid
    <2> QED
      BY <1>6, <2>1, <2>2, CallKeeps
  <1>7. CASE Return
    BY <1>0, <1>7, FinalizeGood, StreamedVoid DEF Return, IInv, TypeOK, Agree, Good
  <1>8. CASE UNCHANGED vars
    BY <1>8 DEF vars, IInv, TypeOK, Agree, Good
  <1> QED
    BY <1>1, <1>2, <1>3, <1>4, <1>5, <1>6, <1>7, <1>8 DEF Next

(* In every reachable state the Recorder and the wire agree on all that    *)
(* has not been streamed, however the handler uses its ResponseWriter.     *)
THEOREM Invariant == Spec => []IInv
  BY InitInv, StepInv, PTL DEF Spec

(* The replay of a storable capture is the response the client received,   *)
(* less the headers outside the allowlist.                                 *)
THEOREM Faithful == Spec => []CaptureFaithful
  <1>1. IInv => CaptureFaithful
    BY ReplayGood DEF IInv, TypeOK, Agree, Good, CaptureFaithful
  <1> QED
    BY <1>1, Invariant, PTL

(* The policy judges the status the client received, and no response that  *)
(* was flushed or hijacked is storable.                                    *)
THEOREM Judged == Spec => []StatusJudged
  <1>1. IInv => StatusJudged
    <2> SUFFICES ASSUME IInv PROVE StatusJudged
      OBVIOUS
    <2>1. /\ w \in Writers /\ Synced(w) /\ (phase = "returned" => w.wrote)
          /\ streamed => ~Storable(w.rec)
      BY DEF IInv, TypeOK, Agree, Good
    <2> QED
      BY <2>1, Parts DEF StatusJudged, Synced, Status
  <1> QED
    BY <1>1, Invariant, PTL

(* No step turns a voided capture into one that can be stored. *)
THEOREM Void == Spec => CaptureVoid
  <1>1. IInv /\ [Next]_vars => [~Storable(w.rec) => ~Storable(w'.rec)]_vars
    <2> SUFFICES ASSUME IInv, Next, ~Storable(w.rec) PROVE ~Storable(w'.rec)
      OBVIOUS
    <2>1. w \in Writers
      BY DEF IInv, TypeOK, Agree, Good
    <2>2. ASSUME NEW H PROVE capture(w.rec, w.wrote, H, w.wire).rec = w.rec
      BY DEF capture
    <2>3. ASSUME NEW h, Call(SetHeader(w, h), FALSE) \/ Call(DelHeader(w, h), FALSE)
          PROVE  ~Storable(w'.rec)
      BY <2>2, <2>3 DEF Call, SetHeader, DelHeader
    <2> QED
      BY <2>1, <2>3, VoidKept DEF Next, Call, Return
  <1> QED
    BY <1>1, Invariant, PTL DEF Spec, CaptureVoid

-----------------------------------------------------------------------------
(* The Gin adapter *)

(* What the invariant says of a writer that no outer middleware touched. *)
LEMMA GinGoodNow == GinInv /\ ~outer => GinGood(g, preset)
  BY DEF GinInv, GinGood

(* Gin starts with its own status and nothing sent. *)
LEMMA GinInitInv == GinInit => GinInv
  <1> SUFFICES ASSUME GinInit PROVE GinInv
    OBVIOUS
  <1>1. preset \in 200 .. 999
    BY GinAssumption DEF GinInit
  <1>2. GinGood(g, preset) /\ GinOpen(g)
    BY <1>1, NewGinGood DEF GinInit
  <1>. QED  BY <1>1, <1>2 DEF GinInit, GinInv, GinGood

(* A call of a handler that keeps Gin and the Recorder in step. *)
LEMMA GinCallKeeps ==
    ASSUME GinInv, NEW v, GinGood(v, preset), GinOpen(v), GinCall(v)
    PROVE  GinInv'
  BY DEF GinInv, GinGood, GinCall

(* Every call of a handler behind the adapter. *)
LEMMA GinChainInv ==
    ASSUME GinInv,
           \/ \E h \in Header : GinCall(GinSetHeader(g, h)) \/ GinCall(GinDelHeader(g, h))
           \/ \E code \in GinStatuses : GinCall(GinWriteHeader(g, code))
           \/ \E n \in {1, MaxResponseBody} : GinCall(GinWrite(g, n))
           \/ GinCall(GinWriteHeaderNow(g))
           \/ GinCall(GinFlush(g))
           \/ GinCall(GinHijack(g))
    PROVE  GinInv'
  <1>1. gphase = "chain"
    BY DEF GinCall
  <1>2. GinGood(g, preset) /\ GinOpen(g)
    BY <1>1, GinGoodNow DEF GinInv
  <1>3. g.header \in SUBSET Header
    BY GinParts DEF GinInv
  <1>4. ASSUME NEW h \in Header, GinCall(GinSetHeader(g, h)) \/ GinCall(GinDelHeader(g, h))
        PROVE  GinInv'
    <2>1. PICK v : v = GinSetHeader(g, h)
      OBVIOUS
    <2>2. PICK u : u = GinDelHeader(g, h)
      OBVIOUS
    <2>3. v = [g EXCEPT !.header = g.header \cup {h}]
      BY <2>1 DEF GinSetHeader
    <2>4. u = [g EXCEPT !.header = g.header \ {h}]
      BY <2>2 DEF GinDelHeader
    <2>5. g.header \cup {h} \in SUBSET Header /\ g.header \ {h} \in SUBSET Header
      BY <1>3
    <2>6. GinGood(v, preset) /\ GinOpen(v)
      BY <1>2, <2>3, <2>5, GinHeaderGood
    <2>7. GinGood(u, preset) /\ GinOpen(u)
      BY <1>2, <2>4, <2>5, GinHeaderGood
    <2>. QED  BY <1>4, <2>1, <2>2, <2>6, <2>7, GinCallKeeps
  <1>5. ASSUME NEW code \in GinStatuses, GinCall(GinWriteHeader(g, code))
        PROVE  GinInv'
    <2>1. GinGood(GinWriteHeader(g, code), preset) /\ GinOpen(GinWriteHeader(g, code))
      BY <1>2, GinAssumption, GinWriteHeaderGood
    <2>. QED  BY <1>5, <2>1, GinCallKeeps
  <1>6. ASSUME NEW n \in {1, MaxResponseBody}, GinCall(GinWrite(g, n))
        PROVE  GinInv'
    <2>1. GinGood(GinWrite(g, n), preset) /\ GinOpen(GinWrite(g, n))
      BY <1>2, MaxResponseBodyAssumption, GinWriteGood
    <2>. QED  BY <1>6, <2>1, GinCallKeeps
  <1>7. CASE GinCall(GinWriteHeaderNow(g))
    BY <1>2, <1>7, GinWriteHeaderNowGood, GinCallKeeps
  <1>8. CASE GinCall(GinFlush(g))
    BY <1>2, <1>8, GinFlushGood, GinCallKeeps
  <1>9. CASE GinCall(GinHijack(g))
    BY <1>2, <1>9, GinHijackGood, GinCallKeeps
  <1>. QED  BY <1>4, <1>5, <1>6, <1>7, <1>8, <1>9

(* finalize takes the snapshot that nobody took. *)
LEMMA GinReturnInv ==
    ASSUME GinInv, GinReturn
    PROVE  GinInv'
  <1>1. GinGood(g, preset) /\ g \in GinWriters /\ g.written \in BOOLEAN
    BY GinGoodNow, GinParts DEF GinInv, GinReturn
  <1>2. GinGood(g', preset) /\ g'.snapshotted
    BY <1>1, SnapshotGood DEF GinReturn, GinFinalize
  <1>3. g'.written = g.written
    BY <1>1, SnapshotEffect DEF GinReturn, GinFinalize
  <1>. QED  BY <1>1, <1>2, <1>3 DEF GinInv, GinReturn, GinGood

(* A middleware outside the adapter changes nothing that was recorded, and *)
(* nothing that was sent before it.                                        *)
LEMMA OuterKeeps ==
    ASSUME GinInv, NEW v, OuterCall(v), v \in GinWriters,
           v.rec = g.rec, v.pending = g.pending, v.snapshotted = g.snapshotted,
           g.written => /\ v.written /\ v.status = g.status
                        /\ g.wire.status # 0 => /\ v.wire.status = g.wire.status
                                                /\ v.wire.header = g.wire.header
    PROVE  GinInv'
  <1>1. /\ g' = v /\ gphase = "outer" /\ gphase' = "outer" /\ outer' = TRUE
        /\ preset' = preset /\ early' = early
    BY DEF OuterCall
  <1>2. /\ preset \in 200 .. 999 /\ early \in BOOLEAN /\ outer \in BOOLEAN
        /\ g \in GinWriters /\ g.snapshotted /\ (early => g.written)
    BY <1>1 DEF GinInv
  <1>3. noted(v, StatusOK) = noted(g, StatusOK) /\ noted(v, preset) = noted(g, preset)
    BY DEF noted
  <1>4. ASSUME early, ~g.rec.abandoned
        PROVE  /\ g.rec.status = noted(g, StatusOK)
               /\ g.status \in Informational \/ g.status = noted(g, preset)
               /\ g.status \notin Informational =>
                     g.wire.status = g.status /\ g.rec.header = g.wire.header \cap allow
    <2>1. CASE outer
      BY <1>4, <2>1 DEF GinInv
    <2>2. CASE ~outer
      <3>1. GinSynced(g, preset)
        BY <2>2 DEF GinInv
      <3>. QED  BY <1>2, <1>4, <3>1 DEF GinSynced
    <2>. QED  BY <1>2, <2>1, <2>2
  <1>5. g.status \notin Informational => g.status # 0
    <2>1. g.status \in Informational \cup 200 .. 999
      BY <1>2, GinParts
    <2>. QED  BY <2>1
  <1>6. ASSUME early, ~v.rec.abandoned
        PROVE  /\ v.rec.status = noted(v, StatusOK)
               /\ v.status \in Informational \/ v.status = noted(v, preset)
               /\ v.status \notin Informational =>
                     v.wire.status = v.status /\ v.rec.header = v.wire.header \cap allow
    BY <1>2, <1>3, <1>4, <1>5, <1>6
  <1>. QED  BY <1>1, <1>2, <1>6 DEF GinInv

(* What a middleware outside the adapter does with Gin's own writer. *)
LEMMA GinOuterInv ==
    ASSUME GinInv,
           \/ \E h \in Header : OuterCall(GinSetHeader(g, h))
           \/ \E code \in GinStatuses : OuterCall(ginWriteHeader(g, code))
           \/ OuterCall(ginWrite(g, 1))
    PROVE  GinInv'
  <1>1. g \in GinWriters /\ g.header \in SUBSET Header
    BY GinParts DEF GinInv
  <1>2. ASSUME NEW h \in Header, OuterCall(GinSetHeader(g, h)) PROVE GinInv'
    <2>1. PICK v : v = GinSetHeader(g, h)
      OBVIOUS
    <2>2. v = [g EXCEPT !.header = g.header \cup {h}] /\ g.header \cup {h} \in SUBSET Header
      BY <1>1, <2>1 DEF GinSetHeader
    <2>3. /\ v \in GinWriters /\ v.rec = g.rec /\ v.pending = g.pending
          /\ v.snapshotted = g.snapshotted /\ v.status = g.status
          /\ v.written = g.written /\ v.wire = g.wire
      BY <1>1, <2>2, PutHeader
    <2>. QED  BY <1>2, <2>1, <2>3, OuterKeeps
  <1>3. ASSUME NEW code \in GinStatuses, OuterCall(ginWriteHeader(g, code))
        PROVE  GinInv'
    <2>1. PICK v : v = ginWriteHeader(g, code)
      OBVIOUS
    <2>2. code \in Informational \cup 200 .. 999
      BY GinAssumption
    <2>3. /\ v \in GinWriters /\ v.pending = g.pending /\ v.rec = g.rec
          /\ v.snapshotted = g.snapshotted /\ v.written = g.written /\ v.wire = g.wire
          /\ v.status = IF g.written THEN g.status ELSE code
      BY <1>1, <2>1, <2>2, ginWriteHeaderEffect
    <2>. QED  BY <1>3, <2>1, <2>3, OuterKeeps
  <1>4. CASE OuterCall(ginWrite(g, 1))
    <2>1. PICK v : v = ginWrite(g, 1)
      OBVIOUS
    <2>2. /\ v \in GinWriters /\ v.written
          /\ v.pending = g.pending /\ v.status = g.status /\ v.rec = g.rec
          /\ v.snapshotted = g.snapshotted
          /\ v.wire = wireWrite(ginWriteHeaderNow(g).wire, 1, g.header)
      BY <1>1, <2>1, ginWriteEffect
    <2>3. g.written /\ g.wire.status # 0 =>
            v.wire.status = g.wire.status /\ v.wire.header = g.wire.header
      BY <1>1, <2>2, GinParts, NowEffect, ChunkEffect
    <2>. QED  BY <1>4, <2>1, <2>2, <2>3, OuterKeeps
  <1>. QED  BY <1>2, <1>3, <1>4

(* The engine sends the header that nobody sent. *)
LEMMA GinSendInv ==
    ASSUME GinInv, GinSend
    PROVE  GinInv'
  <1>1. /\ g' = ginServed(g) /\ gphase = "outer" /\ gphase' = "sent"
        /\ preset' = preset /\ early' = early /\ outer' = outer
    BY DEF GinSend
  <1>2. /\ preset \in 200 .. 999 /\ early \in BOOLEAN /\ outer \in BOOLEAN
        /\ g \in GinWriters /\ g.snapshotted /\ (early => g.written)
    BY <1>1 DEF GinInv
  <1>3. PICK v : v = ginServed(g)
    OBVIOUS
  <1>4. g \in GinWriters
    BY <1>2
  <1>5. /\ v \in GinWriters /\ v.written
        /\ v.pending = g.pending /\ v.status = g.status /\ v.rec = g.rec
        /\ v.snapshotted = g.snapshotted
        /\ v.wire = wireHeader(ginWriteHeaderNow(g).wire, StatusOK, g.header)
    BY <1>3, <1>4, ginFlushEffect DEF ginServed
  <1>6. CASE ~outer
    <2>1. GinGood(v, preset)
      BY <1>2, <1>3, <1>6, GinGoodNow, GinServedGood
    <2>. QED  BY <1>1, <1>2, <1>3, <1>5, <1>6, <2>1 DEF GinInv, GinGood
  <1>7. CASE outer
    <2>1. noted(v, StatusOK) = noted(g, StatusOK) /\ noted(v, preset) = noted(g, preset)
      BY <1>5 DEF noted
    <2>2. g.status \notin Informational => g.status # 0
      <3>1. g.status \in Informational \cup 200 .. 999
        BY <1>4, GinParts
      <3>. QED  BY <3>1
    <2>3. g.written /\ g.wire.status # 0 => v.wire = g.wire
      BY <1>4, <1>5, GinParts, NowEffect, HeaderEffect DEF StatusOK
    <2>4. ASSUME early, ~v.rec.abandoned
          PROVE  /\ v.rec.status = noted(v, StatusOK)
                 /\ v.status \in Informational \/ v.status = noted(v, preset)
                 /\ v.status \notin Informational =>
                       v.wire.status = v.status /\ v.rec.header = v.wire.header \cap allow
      <3>1. /\ g.rec.status = noted(g, StatusOK)
            /\ g.status \in Informational \/ g.status = noted(g, preset)
            /\ g.status \notin Informational =>
                  g.wire.status = g.status /\ g.rec.header = g.wire.header \cap allow
        BY <1>5, <1>7, <2>4 DEF GinInv
      <3>. QED  BY <1>2, <1>5, <2>1, <2>2, <2>3, <2>4, <3>1
    <2>. QED  BY <1>1, <1>2, <1>3, <1>5, <1>7, <2>4 DEF GinInv
  <1>. QED  BY <1>2, <1>6, <1>7

LEMMA GinStepInv == GinInv /\ [GinNext]_ginVars => GinInv'
  <1> SUFFICES ASSUME GinInv, [GinNext]_ginVars PROVE GinInv'
    OBVIOUS
  <1>1. CASE UNCHANGED ginVars
    BY <1>1 DEF ginVars, GinInv
  <1>2. CASE GinNext
    BY <1>2, GinChainInv, GinReturnInv, GinOuterInv, GinSendInv DEF GinNext
  <1>. QED  BY <1>1, <1>2

(* In every reachable state Gin and the Recorder are in step, and what was *)
(* sent before an outer middleware wrote is what was recorded.             *)
THEOREM GinInvariant == GinSpec => []GinInv
  BY GinInitInv, GinStepInv, PTL DEF GinSpec

(* What is recorded once the header is out, in terms of what was sent. *)
LEMMA GinSent ==
    ASSUME GinInv, gphase = "sent", Storable(g.rec), g.status \notin Informational,
           g.pending # 0 \/ preset = StatusOK
    PROVE  /\ early \/ ~outer =>
                 g.rec.status = g.wire.status /\ g.rec.header = g.wire.header \cap allow
           /\ ~outer =>
                 g.wire.body = IF g.rec.status \in Bodyless THEN 0 ELSE g.rec.body
  <1>1. noted(g, preset) = noted(g, StatusOK)
    BY DEF noted
  <1>2. /\ ~g.rec.abandoned /\ g.snapshotted /\ g.written
        /\ early \in BOOLEAN /\ outer \in BOOLEAN
    BY DEF GinInv, Storable
  <1>3. CASE ~outer
    <2>1. GinSynced(g, preset)
      BY <1>3 DEF GinInv
    <2>. QED  BY <1>1, <1>2, <1>3, <2>1 DEF GinSynced
  <1>4. CASE outer
    BY <1>1, <1>2, <1>4 DEF GinInv
  <1>. QED  BY <1>2, <1>3, <1>4

(* The replay of a storable Gin response is the response the first client  *)
(* received: its status and allowed headers when the handlers sent them or *)
(* nobody touched them afterwards, its body when nobody added to it.       *)
THEOREM GinReplays == GinSpec => []GinFaithful
  <1>1. GinInv => GinFaithful
    <2> SUFFICES ASSUME GinInv, gphase = "sent", Storable(g.rec),
                        g.status \notin Informational, g.pending # 0 \/ preset = StatusOK
                 PROVE  /\ early \/ ~outer => sameHead
                        /\ ~outer => GinReplay(StoredResponse(g.rec)).body = g.wire.body
      BY DEF GinFaithful
    <2>1. /\ g.rec.status \in StatusCodes /\ g.rec.header \in SUBSET allow
          /\ g.rec.body \in 0 .. MaxResponseBody
      BY GinParts DEF GinInv
    <2>2. PICK sr : sr = StoredResponse(g.rec)
      OBVIOUS
    <2>3. CASE early \/ ~outer
      <3>1. /\ g.rec.status # 0
        <4>1. g.rec.status = noted(g, StatusOK)
          BY <2>3, GinGoodNow DEF GinInv, GinGood, GinSynced, Storable
        <4>. QED  BY <4>1 DEF noted, StatusOK
      <3>2. sr.status = g.rec.status /\ sr.header = g.rec.header /\ sr.body = g.rec.body
        BY <2>2, <3>1 DEF StoredResponse, Status
      <3>3. /\ sr.status \in 200 .. 999 /\ sr.header \in SUBSET Header /\ sr.body \in Nat
        BY <2>1, <3>1, <3>2, HeaderAssumption, MaxResponseBodyAssumption
        DEF StatusCodes, allow
      <3>4. /\ GinReplay(sr).status = sr.status /\ GinReplay(sr).header = sr.header
            /\ GinReplay(sr).body = IF sr.status \in Bodyless THEN 0 ELSE sr.body
        BY <3>3, GinReplayEffect
      <3>5. sameHead
        BY <2>2, <2>3, <3>2, <3>4, GinSent DEF sameHead
      <3>6. ~outer => GinReplay(sr).body = g.wire.body
        BY <3>2, <3>4, GinSent
      <3>. QED  BY <2>2, <3>5, <3>6
    <2>. QED  BY <2>3
  <1>. QED  BY <1>1, GinInvariant, PTL

=============================================================================
