--------------------------- MODULE RecorderProofs ---------------------------
(***************************************************************************)
(* Proofs about the captureWriters of net/http and of Gin: each of their   *)
(* methods keeps the Recorder and the wire in step, for every set of       *)
(* headers and every limit.                                                *)
(***************************************************************************)
EXTENDS GinWriter, TLAPS

(* What a well-typed writer is made of. *)
LEMMA Parts ==
    ASSUME NEW v \in Writers
    PROVE  /\ v.rec \in Recs /\ v.wire \in Wires
           /\ v.wrote \in BOOLEAN /\ v.header \in SUBSET Header
           /\ v.rec.status \in StatusCodes /\ v.rec.header \in SUBSET allow
           /\ v.rec.body \in 0 .. MaxResponseBody
           /\ v.rec.overflowed \in BOOLEAN /\ v.rec.abandoned \in BOOLEAN
           /\ v.wire.status \in StatusCodes /\ v.wire.header \in SUBSET Header
           /\ v.wire.body \in Nat /\ v.wire.hijacked \in BOOLEAN
  BY DEF Writers, Recs, Wires

(* A writer put together from well-typed parts. *)
LEMMA Whole ==
    ASSUME NEW rec \in Recs, NEW wrote \in BOOLEAN,
           NEW header \in SUBSET Header, NEW wire \in Wires
    PROVE  /\ capture(rec, wrote, header, wire) \in Writers
           /\ capture(rec, wrote, header, wire).rec = rec
           /\ capture(rec, wrote, header, wire).wrote = wrote
           /\ capture(rec, wrote, header, wire).header = header
           /\ capture(rec, wrote, header, wire).wire = wire
  BY DEF capture, Writers

(* A final status reaches the Recorder and the wire together, or neither. *)
LEMMA WriteHeaderGood ==
    ASSUME NEW v, Good(v), NEW code \in Informational \cup 200 .. 999
    PROVE  /\ Good(WriteHeader(v, code))
           /\ code >= 200 => WriteHeader(v, code).wrote
  <1> DEFINE r == noteHeader(v, code)
             x == wireHeader(v.wire, code, v.header)
             b == v.wrote \/ code >= 200
  <1>1. v \in Writers /\ Synced(v)
    BY DEF Good
  <1>2. r \in Recs
    <2>1. CASE v.wrote \/ v.rec.status # 0 \/ code \in Informational
      BY <1>1, <2>1, Parts DEF noteHeader, RecordStatus
    <2>2. CASE ~v.wrote /\ v.rec.status = 0 /\ code \notin Informational
      <3>1. code \in StatusCodes /\ v.header \cap allow \in SUBSET allow
        BY <2>2 DEF StatusCodes, Informational
      <3>2. r = [status |-> code, header |-> v.header \cap allow, body |-> v.rec.body,
                 overflowed |-> v.rec.overflowed, abandoned |-> v.rec.abandoned]
        BY <2>2 DEF noteHeader, RecordStatus
      <3>. QED  BY <1>1, <3>1, <3>2, Parts DEF Recs
    <2>. QED  BY <2>1, <2>2
  <1>3. x \in Wires
    BY <1>1, Parts DEF wireHeader, Wires, StatusCodes, Informational
  <1>4. /\ r.status = IF v.wrote \/ v.rec.status # 0 \/ code \in Informational
                      THEN v.rec.status ELSE code
        /\ r.header = IF v.wrote \/ v.rec.status # 0 \/ code \in Informational
                      THEN v.rec.header ELSE v.header \cap allow
        /\ r.body = v.rec.body /\ r.overflowed = v.rec.overflowed
        /\ r.abandoned = v.rec.abandoned
    BY <1>1, Parts DEF noteHeader, RecordStatus
  <1>5. /\ x.status = IF v.wire.status # 0 \/ v.wire.hijacked \/ code \in Informational
                      THEN v.wire.status ELSE code
        /\ x.header = IF v.wire.status # 0 \/ v.wire.hijacked \/ code \in Informational
                      THEN v.wire.header ELSE v.header
        /\ x.body = v.wire.body /\ x.hijacked = v.wire.hijacked
    BY <1>1, Parts DEF wireHeader
  <1>6. WriteHeader(v, code) = capture(r, b, v.header, x)
    BY DEF WriteHeader
  <1>13. b \in BOOLEAN
    BY <1>1, Parts
  <1>7. /\ capture(r, b, v.header, x) \in Writers
        /\ capture(r, b, v.header, x).rec = r
        /\ capture(r, b, v.header, x).wrote = b
        /\ capture(r, b, v.header, x).wire = x
    <2> HIDE DEF r, x, b
    <2> QED
      BY <1>1, <1>2, <1>3, <1>13, Parts, Whole
  <1> HIDE DEF r, x
  <1>8. b <=> r.status # 0
    BY <1>1, <1>4, Parts DEF Synced, Informational, StatusCodes
  <1>9. ~r.abandoned =>
          ~x.hijacked /\ r.status = x.status /\ r.header = x.header \cap allow
    BY <1>1, <1>4, <1>5, Parts DEF Synced
  <1>10. Storable(r) => x.body = IF x.status \in Bodyless THEN 0 ELSE r.body
    BY <1>1, <1>4, <1>5, Parts DEF Synced, Storable, StatusCodes, Bodyless
  <1>11. ~b => r.body = 0
    BY <1>1, <1>4 DEF Synced
  <1>12. Synced(capture(r, b, v.header, x))
    <2> DEFINE z == capture(r, b, v.header, x)
    <2>1. z.rec = r /\ z.wrote = b /\ z.wire = x
      BY <1>7
    <2> HIDE DEF z, b
    <2>2. z.wrote <=> z.rec.status # 0
      BY <2>1, <1>8
    <2>3. ~z.wrote => z.rec.body = 0
      BY <2>1, <1>11
    <2>4. ~z.rec.abandoned =>
            /\ ~z.wire.hijacked
            /\ z.rec.status = z.wire.status
            /\ z.rec.header = z.wire.header \cap allow
      BY <2>1, <1>9
    <2>5. Storable(z.rec) =>
            z.wire.body = IF z.wire.status \in Bodyless THEN 0 ELSE z.rec.body
      BY <2>1, <1>10
    <2>6. Synced(z)
      BY <2>2, <2>3, <2>4, <2>5, ZenonT(30) DEF Synced
    <2> QED
      BY <2>6 DEF z
  <1> QED
    BY <1>6, <1>7, <1>12, ZenonT(30) DEF Good

(* A chunk is appended on both sides, or voids the capture. *)
LEMMA AppendGood ==
    ASSUME NEW v, Good(v), v.rec.status # 0, NEW n \in Nat
    PROVE  Good(capture(RecordBody(v.rec, n), v.wrote, v.header,
                        wireWrite(v.wire, n, v.header)))
  <1> DEFINE r == RecordBody(v.rec, n)
             x == wireWrite(v.wire, n, v.header)
  <1>1. v \in Writers /\ Synced(v)
    BY DEF Good
  <1>2. /\ r \in Recs
        /\ r.status = v.rec.status /\ r.header = v.rec.header
        /\ r.abandoned = v.rec.abandoned
        /\ Storable(r) => Storable(v.rec) /\ r.body = v.rec.body + n
    BY <1>1, Parts, MaxResponseBodyAssumption DEF RecordBody, Recs, Storable
  <1>3. /\ x \in Wires
        /\ x.hijacked = v.wire.hijacked
        /\ v.wire.status # 0 => x.status = v.wire.status /\ x.header = v.wire.header
        /\ x.body = IF x.hijacked \/ x.status \in Bodyless
                    THEN v.wire.body ELSE v.wire.body + n
    <2>1. PICK y : y = wireHeader(v.wire, StatusOK, v.header)
      OBVIOUS
    <2>2. StatusOK \in StatusCodes
      BY DEF StatusOK, StatusCodes
    <2>3. /\ y \in Wires /\ y.hijacked = v.wire.hijacked /\ y.body = v.wire.body
          /\ v.wire.status # 0 => y = v.wire
      BY <1>1, <2>1, <2>2, Parts DEF wireHeader, Wires
    <2>4. /\ y.status \in StatusCodes /\ y.header \in SUBSET Header
          /\ y.body \in Nat /\ y.hijacked \in BOOLEAN
      BY <2>3 DEF Wires
    <2>5. x = IF y.hijacked \/ y.status \in Bodyless THEN y
              ELSE [status |-> y.status, header |-> y.header, body |-> y.body + n,
                    hijacked |-> y.hijacked]
      BY <2>1 DEF wireWrite
    <2> HIDE DEF x
    <2>6. CASE y.hijacked \/ y.status \in Bodyless
      BY <2>3, <2>5, <2>6
    <2>7. CASE ~(y.hijacked \/ y.status \in Bodyless)
      <3>1. x = [status |-> y.status, header |-> y.header, body |-> y.body + n,
                 hijacked |-> y.hijacked]
        BY <2>5, <2>7
      <3>2. /\ x.status = y.status /\ x.header = y.header /\ x.body = y.body + n
            /\ x.hijacked = y.hijacked
        BY <3>1
      <3>3. x \in Wires
        BY <2>4, <3>1 DEF Wires
      <3>. QED  BY <2>3, <2>7, <3>2, <3>3
    <2>. QED  BY <2>6, <2>7
  <1>4. /\ capture(r, v.wrote, v.header, x) \in Writers
        /\ capture(r, v.wrote, v.header, x).rec = r
        /\ capture(r, v.wrote, v.header, x).wrote = v.wrote
        /\ capture(r, v.wrote, v.header, x).wire = x
    <2>1. r \in Recs /\ x \in Wires /\ v.wrote \in BOOLEAN /\ v.header \in SUBSET Header
      BY <1>1, <1>2, <1>3, Parts
    <2> HIDE DEF r, x
    <2> QED
      BY <2>1, Whole
  <1> HIDE DEF r, x
  <1>5. ~r.abandoned =>
          ~x.hijacked /\ r.status = x.status /\ r.header = x.header \cap allow
    BY <1>1, <1>2, <1>3 DEF Synced
  <1>6. Storable(r) => x.body = IF x.status \in Bodyless THEN 0 ELSE r.body
    BY <1>1, <1>2, <1>3, Parts DEF Synced, Storable
  <1> DEFINE z == capture(r, v.wrote, v.header, x)
  <1>7. z \in Writers /\ z.rec = r /\ z.wrote = v.wrote /\ z.wire = x
    BY <1>4
  <1> HIDE DEF z
  <1>8. Good(z)
    BY <1>1, <1>2, <1>5, <1>6, <1>7 DEF Good, Synced
  <1> QED
    BY <1>8 DEF z, r, x

(* Write sends the status if there is none and then its chunk, on both     *)
(* sides.                                                                  *)
LEMMA WriteGood ==
    ASSUME NEW v, Good(v), NEW n \in Nat
    PROVE  Good(Write(v, n))
  <1>1. CASE v.wrote
    BY <1>1, AppendGood DEF Write, Good, Synced
  <1>2. CASE ~v.wrote
    <2> DEFINE u == WriteHeader(v, StatusOK)
    <2>1. Good(u) /\ u.wrote
      BY WriteHeaderGood DEF StatusOK
    <2>2. Write(v, n) = capture(RecordBody(u.rec, n), u.wrote, u.header,
                                wireWrite(u.wire, n, u.header))
      BY <1>2 DEF Write
    <2> HIDE DEF u
    <2>3. u.rec.status # 0
      BY <2>1 DEF Good, Synced
    <2>4. Good(capture(RecordBody(u.rec, n), u.wrote, u.header,
                       wireWrite(u.wire, n, u.header)))
      BY <2>1, <2>3, AppendGood
    <2> QED
      BY <2>2, <2>4
  <1> QED
    BY <1>1, <1>2

(* An abandoned capture owes the wire nothing. *)
LEMMA AbandonGood ==
    ASSUME NEW v, Good(v), NEW x \in Wires
    PROVE  /\ Good(capture(Abandon(v.rec), v.wrote, v.header, x))
           /\ ~Storable(Abandon(v.rec))
  <1> DEFINE r == Abandon(v.rec)
             z == capture(r, v.wrote, v.header, x)
  <1>1. v \in Writers /\ Synced(v)
    BY DEF Good
  <1>2. /\ r \in Recs /\ r.abandoned /\ ~Storable(r)
        /\ r.status = v.rec.status /\ r.body = 0
    BY <1>1, Parts, MaxResponseBodyAssumption DEF Abandon, Recs, Storable
  <1> HIDE DEF r
  <1>3. z \in Writers /\ z.rec = r /\ z.wrote = v.wrote /\ z.wire = x
    BY <1>1, <1>2, Parts, Whole
  <1> HIDE DEF z
  <1>4. Good(z)
    BY <1>1, <1>2, <1>3 DEF Good, Synced
  <1> QED
    BY <1>2, <1>4 DEF z, r

(* The server sends the header it has. *)
LEMMA WireTyped ==
    ASSUME NEW v \in Writers
    PROVE  /\ wireHeader(v.wire, StatusOK, v.header) \in Wires
           /\ wireHijack(v.wire) \in Wires
  BY Parts, SMTT(30) DEF wireHeader, wireHijack, Wires, StatusCodes, StatusOK

(* A flush that the server carries out voids the capture.                  *)
LEMMA FlushGood ==
    ASSUME NEW v, Good(v), NEW err
    PROVE  Good(Flush(v, err))
  BY AbandonGood, WireTyped DEF Flush, Good

(* A hijack that succeeds voids the capture.                               *)
LEMMA HijackGood ==
    ASSUME NEW v, Good(v), NEW err
    PROVE  Good(Hijack(v, err))
  BY AbandonGood, WireTyped DEF Hijack, Good

(* The header map matters only at the moment of the status. *)
LEMMA HeaderGood ==
    ASSUME NEW v, Good(v), NEW H \in SUBSET Header
    PROVE  Good(capture(v.rec, v.wrote, H, v.wire))
  <1> DEFINE z == capture(v.rec, v.wrote, H, v.wire)
  <1>1. z \in Writers /\ z.rec = v.rec /\ z.wrote = v.wrote /\ z.wire = v.wire
    BY Parts, Whole DEF Good
  <1> HIDE DEF z
  <1>2. Good(z)
    BY <1>1 DEF Good, Synced
  <1> QED
    BY <1>2 DEF z

(* finalize is WriteHeader(200) on both sides. *)
LEMMA FinalizeGood ==
    ASSUME NEW v, Good(v)
    PROVE  Good(Finalize(v)) /\ Finalize(v).wrote
  <1>1. (v.wrote \/ StatusOK >= 200) = TRUE
    BY DEF StatusOK
  <1>2. Finalize(v) = WriteHeader(v, StatusOK)
    BY <1>1, Zenon DEF Finalize, WriteHeader
  <1> QED
    BY <1>2, WriteHeaderGood DEF StatusOK

(* A writer nobody called yet. *)
LEMMA NewGood == Good(NewCapture)
  <1>1. NewRecorder \in Recs /\ NewWire \in Wires
    BY MaxResponseBodyAssumption
    DEF NewRecorder, NewWire, Recs, Wires, StatusCodes
  <1>2. /\ NewCapture \in Writers /\ NewCapture.rec = NewRecorder
        /\ NewCapture.wrote = FALSE /\ NewCapture.wire = NewWire
    BY <1>1 DEF NewCapture, Writers
  <1> QED
    BY <1>2 DEF Good, Synced, NewRecorder, NewWire, Bodyless

(* A recorded status is a final one. *)
LEMMA FinalCode == \A i \in 200 .. 999 : i \notin Informational
  <1> TAKE i \in 200 .. 999
  <1>1. i \in Int /\ i >= 200
    OBVIOUS
  <1>2. i \in Informational => i <= 199
    BY DEF Informational
  <1> QED
    BY <1>1, <1>2

(* The replay of a capture that has a status and may be stored is what the *)
(* client received, less the headers outside the allowlist.                *)
LEMMA ReplayGood ==
    ASSUME NEW v, Good(v), v.wrote, Storable(v.rec)
    PROVE  SameResponse(StoredResponse(v.rec), v.wire)
  <1> DEFINE sr == StoredResponse(v.rec)
             x == wireHeader(NewWire, sr.status, {} \cup sr.header)
  <1>1. v \in Writers /\ Synced(v)
    BY DEF Good
  <1>2. v.rec.status \in 200 .. 999
    BY <1>1, Parts DEF Synced, StatusCodes
  <1>3. /\ sr.status = v.rec.status /\ sr.header = v.rec.header
        /\ sr.body = v.rec.body
    <2>1. Status(v.rec) = v.rec.status
      BY <1>2, SMTT(30) DEF Status
    <2> QED
      BY <2>1 DEF StoredResponse
  <1> HIDE DEF sr
  <1>4. /\ x.status = v.rec.status /\ x.header = v.rec.header
        /\ x.body = 0 /\ x.hijacked = FALSE
    <2>1. sr.status \notin Informational
      BY <1>2, <1>3, FinalCode, SMTT(30)
    <2>2. x = [status |-> sr.status, header |-> sr.header, body |-> 0,
               hijacked |-> FALSE]
      BY <2>1 DEF wireHeader, NewWire
    <2> HIDE DEF x
    <2> QED
      BY <2>2, <1>3
  <1> HIDE DEF x
  <1>5. wireHeader(x, StatusOK, {} \cup sr.header) = x
    BY <1>2, <1>4, SMTT(30) DEF wireHeader
  <1> DEFINE y == wireWrite(x, sr.body, {} \cup sr.header)
  <1>6. /\ y.status = v.rec.status /\ y.header = v.rec.header
        /\ y.body = IF v.rec.status \in Bodyless THEN 0 ELSE v.rec.body
    BY <1>1, <1>3, <1>4, <1>5, Parts DEF wireWrite
  <1>7. WriteStored(sr, {}) = y
    BY DEF WriteStored, x
  <1> HIDE DEF y
  <1>8. v.rec.status = v.wire.status /\ v.rec.header = v.wire.header \cap allow
    BY <1>1 DEF Synced, Storable
  <1>9. v.wire.body = IF v.wire.status \in Bodyless THEN 0 ELSE v.rec.body
    BY <1>1 DEF Synced
  <1> QED
    BY <1>6, <1>7, <1>8, <1>9 DEF SameResponse, sr

(* A capture that was voided stays void. *)
LEMMA VoidKept ==
    ASSUME NEW v \in Writers, ~Storable(v.rec)
    PROVE  /\ \A code : ~Storable(WriteHeader(v, code).rec)
           /\ \A n : ~Storable(Write(v, n).rec)
           /\ \A err : ~Storable(Flush(v, err).rec) /\ ~Storable(Hijack(v, err).rec)
           /\ ~Storable(Finalize(v).rec)
  <1>1. ASSUME NEW code
        PROVE  /\ noteHeader(v, code).overflowed = v.rec.overflowed
               /\ noteHeader(v, code).abandoned = v.rec.abandoned
    BY Parts DEF noteHeader, RecordStatus
  <1>2. ASSUME NEW code PROVE ~Storable(WriteHeader(v, code).rec)
    BY <1>1 DEF WriteHeader, capture, Storable
  <1>3. ASSUME NEW r, ~Storable(r), NEW n PROVE RecordBody(r, n) = r
    BY <1>3 DEF RecordBody, Storable
  <1>4. ASSUME NEW n PROVE ~Storable(Write(v, n).rec)
    <2> DEFINE u == IF v.wrote THEN v ELSE WriteHeader(v, StatusOK)
    <2>1. ~Storable(u.rec)
      BY <1>2
    <2>2. Write(v, n).rec = RecordBody(u.rec, n)
      BY DEF Write, capture
    <2> HIDE DEF u
    <2> QED
      BY <1>3, <2>1, <2>2
  <1>5. ~Storable(Abandon(v.rec))
    BY DEF Abandon, Storable
  <1>6. ASSUME NEW err
        PROVE  ~Storable(Flush(v, err).rec) /\ ~Storable(Hijack(v, err).rec)
    BY <1>5 DEF Flush, Hijack, capture
  <1>7. ~Storable(Finalize(v).rec)
    BY <1>1 DEF Finalize, capture, Storable
  <1> QED
    BY <1>2, <1>4, <1>6, <1>7

-----------------------------------------------------------------------------
(* Gin's writer *)

(* What a well-typed writer of Gin is made of. *)
LEMMA GinParts ==
    ASSUME NEW v \in GinWriters
    PROVE  /\ v.rec \in Recs /\ v.wire \in Wires /\ v.header \in SUBSET Header
           /\ v.pending \in StatusCodes /\ v.status \in Informational \cup 200 .. 999
           /\ v.snapshotted \in BOOLEAN /\ v.written \in BOOLEAN
           /\ v.rec.status \in StatusCodes /\ v.rec.header \in SUBSET allow
           /\ v.rec.body \in 0 .. MaxResponseBody
           /\ v.rec.overflowed \in BOOLEAN /\ v.rec.abandoned \in BOOLEAN
           /\ v.wire.status \in StatusCodes /\ v.wire.header \in SUBSET Header
           /\ v.wire.body \in Nat /\ v.wire.hijacked \in BOOLEAN
  BY DEF GinWriters, Recs, Wires

(* The fields that an assignment to one of them leaves alone. *)
LEMMA PutHeader ==
    ASSUME NEW v \in GinWriters, NEW H \in SUBSET Header,
           NEW u, u = [v EXCEPT !.header = H]
    PROVE  /\ u \in GinWriters /\ u.header = H
           /\ u.rec = v.rec /\ u.pending = v.pending /\ u.snapshotted = v.snapshotted
           /\ u.status = v.status /\ u.written = v.written /\ u.wire = v.wire
  BY DEF GinWriters

LEMMA PutStatus ==
    ASSUME NEW v \in GinWriters, NEW s \in Informational \cup 200 .. 999,
           NEW u, u = [v EXCEPT !.status = s]
    PROVE  /\ u \in GinWriters /\ u.status = s
           /\ u.rec = v.rec /\ u.pending = v.pending /\ u.snapshotted = v.snapshotted
           /\ u.header = v.header /\ u.written = v.written /\ u.wire = v.wire
  BY DEF GinWriters

LEMMA PutPending ==
    ASSUME NEW v \in GinWriters, NEW s \in StatusCodes,
           NEW u, u = [v EXCEPT !.pending = s]
    PROVE  /\ u \in GinWriters /\ u.pending = s
           /\ u.rec = v.rec /\ u.status = v.status /\ u.snapshotted = v.snapshotted
           /\ u.header = v.header /\ u.written = v.written /\ u.wire = v.wire
  BY DEF GinWriters

LEMMA PutRec ==
    ASSUME NEW v \in GinWriters, NEW r \in Recs, NEW u, u = [v EXCEPT !.rec = r]
    PROVE  /\ u \in GinWriters /\ u.rec = r
           /\ u.pending = v.pending /\ u.status = v.status /\ u.snapshotted = v.snapshotted
           /\ u.header = v.header /\ u.written = v.written /\ u.wire = v.wire
  BY DEF GinWriters

LEMMA PutWire ==
    ASSUME NEW v \in GinWriters, NEW x \in Wires, NEW u, u = [v EXCEPT !.wire = x]
    PROVE  /\ u \in GinWriters /\ u.wire = x
           /\ u.pending = v.pending /\ u.status = v.status /\ u.snapshotted = v.snapshotted
           /\ u.header = v.header /\ u.written = v.written /\ u.rec = v.rec
  BY DEF GinWriters

LEMMA PutSnapshotted ==
    ASSUME NEW v \in GinWriters, NEW u, u = [v EXCEPT !.snapshotted = TRUE]
    PROVE  /\ u \in GinWriters /\ u.snapshotted
           /\ u.pending = v.pending /\ u.status = v.status /\ u.wire = v.wire
           /\ u.header = v.header /\ u.written = v.written /\ u.rec = v.rec
  <1>1. u.snapshotted
    BY DEF GinWriters
  <1>2. [v EXCEPT !.snapshotted = TRUE] \in GinWriters
    BY ZenonT(30) DEF GinWriters
  <1>3. /\ u.pending = v.pending /\ u.status = v.status /\ u.wire = v.wire
        /\ u.header = v.header /\ u.written = v.written /\ u.rec = v.rec
    BY DEF GinWriters
  <1>. QED  BY <1>1, <1>2, <1>3

LEMMA PutWritten ==
    ASSUME NEW v \in GinWriters, NEW u, u = [v EXCEPT !.written = TRUE]
    PROVE  /\ u \in GinWriters /\ u.written
           /\ u.pending = v.pending /\ u.status = v.status /\ u.wire = v.wire
           /\ u.header = v.header /\ u.snapshotted = v.snapshotted /\ u.rec = v.rec
  <1>1. u.written
    BY DEF GinWriters
  <1>2. [v EXCEPT !.written = TRUE] \in GinWriters
    BY ZenonT(30) DEF GinWriters
  <1>3. /\ u.pending = v.pending /\ u.status = v.status /\ u.wire = v.wire
        /\ u.header = v.header /\ u.snapshotted = v.snapshotted /\ u.rec = v.rec
    BY DEF GinWriters
  <1>. QED  BY <1>1, <1>2, <1>3

(* The status and the headers of the moment are recorded once. *)
LEMMA SnapshotEffect ==
    ASSUME NEW v \in GinWriters, NEW u, u = snapshot(v)
    PROVE  /\ u \in GinWriters /\ u.snapshotted
           /\ u.pending = v.pending /\ u.status = v.status /\ u.wire = v.wire
           /\ u.header = v.header /\ u.written = v.written
           /\ u.rec.body = v.rec.body /\ u.rec.abandoned = v.rec.abandoned
           /\ u.rec.overflowed = v.rec.overflowed
           /\ v.snapshotted => u.rec = v.rec
           /\ ~v.snapshotted /\ v.rec.status = 0 =>
                 /\ u.rec.status = noted(v, StatusOK)
                 /\ u.rec.header = v.header \cap allow
  <1>1. CASE v.snapshotted
    BY <1>1 DEF snapshot
  <1>2. CASE ~v.snapshotted
    <2>1. PICK code, r : code = noted(v, StatusOK) /\ r = RecordStatus(v.rec, code, v.header)
      OBVIOUS
    <2>2. code \in 200 .. 999
      BY <2>1, GinParts DEF noted, StatusOK, StatusCodes
    <2>3. code \notin Informational /\ code \in StatusCodes
      BY <2>2, FinalCode DEF StatusCodes
    <2>4. /\ r \in Recs /\ r.body = v.rec.body /\ r.abandoned = v.rec.abandoned
          /\ r.overflowed = v.rec.overflowed
          /\ v.rec.status = 0 => r.status = code /\ r.header = v.header \cap allow
      BY <2>1, <2>3, GinParts DEF RecordStatus, Recs
    <2>5. u = [v EXCEPT !.rec = r, !.snapshotted = TRUE]
      BY <1>2, <2>1 DEF snapshot, noted
    <2>6. /\ u \in GinWriters /\ u.rec = r /\ u.snapshotted
          /\ u.pending = v.pending /\ u.status = v.status /\ u.wire = v.wire
          /\ u.header = v.header /\ u.written = v.written
      <3>1. PICK a : a = [v EXCEPT !.rec = r]
        OBVIOUS
      <3>2. /\ a \in GinWriters /\ a.rec = r
            /\ a.pending = v.pending /\ a.status = v.status /\ a.wire = v.wire
            /\ a.header = v.header /\ a.written = v.written
        BY <2>4, <3>1, PutRec
      <3>3. u = [a EXCEPT !.snapshotted = TRUE]
        BY <2>5, <3>1 DEF GinWriters
      <3>. QED  BY <3>2, <3>3, PutSnapshotted
    <2>. QED  BY <1>2, <2>1, <2>4, <2>6
  <1>. QED  BY <1>1, <1>2

(* The snapshot keeps Gin and the Recorder in step. *)
LEMMA SnapshotGood ==
    ASSUME NEW v, NEW p, GinGood(v, p)
    PROVE  GinGood(snapshot(v), p) /\ snapshot(v).snapshotted
  <1>1. PICK u : u = snapshot(v)
    OBVIOUS
  <1>2. v \in GinWriters /\ v.snapshotted \in BOOLEAN /\ v.pending \in StatusCodes
    BY GinParts DEF GinGood
  <1>3. noted(v, StatusOK) # 0
    BY <1>2 DEF noted, StatusOK
  <1>4. /\ u \in GinWriters /\ u.snapshotted
        /\ u.pending = v.pending /\ u.status = v.status /\ u.wire = v.wire
        /\ u.header = v.header /\ u.written = v.written
        /\ u.rec.body = v.rec.body /\ u.rec.abandoned = v.rec.abandoned
        /\ u.rec.overflowed = v.rec.overflowed
        /\ v.snapshotted => u.rec = v.rec
        /\ ~v.snapshotted /\ v.rec.status = 0 =>
              /\ u.rec.status = noted(v, StatusOK)
              /\ u.rec.header = v.header \cap allow
    BY <1>1, <1>2, SnapshotEffect
  <1>5. noted(u, StatusOK) = noted(v, StatusOK) /\ noted(u, p) = noted(v, p)
    BY <1>4 DEF noted
  <1>6. GinSynced(v, p)
    BY DEF GinGood
  <1>7. GinSynced(u, p)
    <2>1. CASE v.snapshotted
      BY <1>4, <1>5, <1>6, <2>1 DEF GinSynced
    <2>2. CASE ~v.snapshotted
      BY <1>3, <1>4, <1>5, <1>6, <2>2 DEF GinSynced
    <2>. QED  BY <1>2, <2>1, <2>2
  <1>. QED  BY <1>1, <1>4, <1>7 DEF GinGood

(* What the server makes of a header and of a chunk. *)
LEMMA HeaderEffect ==
    ASSUME NEW x \in Wires, NEW H \in SUBSET Header,
           NEW code \in Informational \cup 200 .. 999
    PROVE  /\ wireHeader(x, code, H) \in Wires
           /\ wireHeader(x, code, H).hijacked = x.hijacked
           /\ wireHeader(x, code, H).body = x.body
           /\ x.status # 0 => wireHeader(x, code, H) = x
           /\ x.status = 0 /\ ~x.hijacked /\ code \notin Informational =>
                 wireHeader(x, code, H).status = code /\ wireHeader(x, code, H).header = H
  <1>1. /\ x.status \in StatusCodes /\ x.header \in SUBSET Header /\ x.body \in Nat
        /\ x.hijacked \in BOOLEAN
    BY DEF Wires
  <1>2. code \notin Informational => code \in StatusCodes
    BY DEF StatusCodes
  <1>. QED  BY <1>1, <1>2 DEF wireHeader, Wires

LEMMA ChunkEffect ==
    ASSUME NEW x \in Wires, NEW H \in SUBSET Header, NEW n \in Nat
    PROVE  /\ wireWrite(x, n, H) \in Wires
           /\ wireWrite(x, n, H).hijacked = x.hijacked
           /\ x.status # 0 =>
                 /\ wireWrite(x, n, H).status = x.status
                 /\ wireWrite(x, n, H).header = x.header
                 /\ ~x.hijacked => wireWrite(x, n, H).body
                                     = IF x.status \in Bodyless THEN x.body ELSE x.body + n
  <1>1. PICK y : y = wireHeader(x, StatusOK, H)
    OBVIOUS
  <1>2. StatusOK \in Informational \cup 200 .. 999
    BY DEF StatusOK
  <1>3. y \in Wires /\ y.hijacked = x.hijacked /\ y.body = x.body /\ (x.status # 0 => y = x)
    BY <1>1, <1>2, HeaderEffect
  <1>4. /\ wireWrite(x, n, H) \in Wires /\ wireWrite(x, n, H).hijacked = y.hijacked
        /\ wireWrite(x, n, H).status = y.status /\ wireWrite(x, n, H).header = y.header
        /\ ~y.hijacked => wireWrite(x, n, H).body
                            = IF y.status \in Bodyless THEN y.body ELSE y.body + n
    BY <1>1, <1>3 DEF wireWrite, Wires
  <1>. QED  BY <1>3, <1>4

(* The header goes out, if it has not. *)
LEMMA NowEffect ==
    ASSUME NEW v \in GinWriters, NEW u, u = ginWriteHeaderNow(v)
    PROVE  /\ u \in GinWriters /\ u.written
           /\ u.pending = v.pending /\ u.status = v.status /\ u.rec = v.rec
           /\ u.header = v.header /\ u.snapshotted = v.snapshotted
           /\ u.wire.hijacked = v.wire.hijacked
           /\ v.written => u = v
           /\ ~v.written => u.wire = wireHeader(v.wire, v.status, v.header)
  <1>1. CASE v.written
    BY <1>1 DEF ginWriteHeaderNow
  <1>2. CASE ~v.written
    <2>1. PICK x : x = wireHeader(v.wire, v.status, v.header)
      OBVIOUS
    <2>2. x \in Wires /\ x.hijacked = v.wire.hijacked
      BY <2>1, GinParts, HeaderEffect
    <2>3. u = [v EXCEPT !.written = TRUE, !.wire = x]
      BY <1>2, <2>1 DEF ginWriteHeaderNow
    <2>4. /\ u \in GinWriters /\ u.wire = x /\ u.written
          /\ u.pending = v.pending /\ u.status = v.status /\ u.rec = v.rec
          /\ u.header = v.header /\ u.snapshotted = v.snapshotted
      <3>1. PICK a : a = [v EXCEPT !.wire = x]
        OBVIOUS
      <3>2. /\ a \in GinWriters /\ a.wire = x
            /\ a.pending = v.pending /\ a.status = v.status /\ a.rec = v.rec
            /\ a.header = v.header /\ a.snapshotted = v.snapshotted
        BY <2>2, <3>1, PutWire
      <3>3. u = [a EXCEPT !.written = TRUE]
        BY <2>3, <3>1, ZenonT(30) DEF GinWriters
      <3>. QED  BY <3>2, <3>3, PutWritten
    <2>. QED  BY <1>2, <2>1, <2>2, <2>4
  <1>. QED  BY <1>1, <1>2

(* After the snapshot the header that goes out is the one recorded. *)
LEMMA NowGood ==
    ASSUME NEW v, NEW p, GinGood(v, p), v.snapshotted \/ v.rec.abandoned
    PROVE  GinGood(ginWriteHeaderNow(v), p) /\ ginWriteHeaderNow(v).written
  <1>1. PICK u : u = ginWriteHeaderNow(v)
    OBVIOUS
  <1>2. v \in GinWriters /\ GinSynced(v, p)
    BY DEF GinGood
  <1>3. /\ u \in GinWriters /\ u.written
        /\ u.pending = v.pending /\ u.status = v.status /\ u.rec = v.rec
        /\ u.header = v.header /\ u.snapshotted = v.snapshotted
        /\ u.wire.hijacked = v.wire.hijacked
        /\ v.written => u = v
        /\ ~v.written => u.wire = wireHeader(v.wire, v.status, v.header)
    BY <1>1, <1>2, NowEffect
  <1>4. noted(u, StatusOK) = noted(v, StatusOK) /\ noted(u, p) = noted(v, p)
    BY <1>3 DEF noted
  <1>5. CASE ~v.written
    <2>1. /\ v.wire \in Wires /\ v.header \in SUBSET Header
          /\ v.status \in Informational \cup 200 .. 999
      BY <1>2, GinParts
    <2>2. /\ u.wire.body = v.wire.body
          /\ v.wire.status = 0 /\ ~v.wire.hijacked /\ v.status \notin Informational
                => u.wire.status = v.status /\ u.wire.header = v.header
      BY <1>3, <1>5, <2>1, HeaderEffect
    <2>3. GinSynced(u, p)
      BY <1>2, <1>3, <1>4, <1>5, <2>2 DEF GinSynced
    <2>. QED  BY <1>1, <1>3, <2>3 DEF GinGood
  <1>6. CASE v.written
    BY <1>1, <1>3, <1>6
  <1>. QED  BY <1>5, <1>6

(* The chunk and the flush follow the header. *)
LEMMA ginWriteEffect ==
    ASSUME NEW v \in GinWriters, NEW n \in Nat, NEW u, u = ginWrite(v, n)
    PROVE  /\ u \in GinWriters /\ u.written
           /\ u.pending = v.pending /\ u.status = v.status /\ u.rec = v.rec
           /\ u.header = v.header /\ u.snapshotted = v.snapshotted
           /\ u.wire = wireWrite(ginWriteHeaderNow(v).wire, n, v.header)
  <1>1. PICK a : a = ginWriteHeaderNow(v)
    OBVIOUS
  <1>2. /\ a \in GinWriters /\ a.written
        /\ a.pending = v.pending /\ a.status = v.status /\ a.rec = v.rec
        /\ a.header = v.header /\ a.snapshotted = v.snapshotted
    BY <1>1, NowEffect
  <1>3. PICK x : x = wireWrite(a.wire, n, a.header)
    OBVIOUS
  <1>4. x \in Wires
    BY <1>2, <1>3, GinParts, ChunkEffect
  <1>5. u = [a EXCEPT !.wire = x]
    BY <1>1, <1>3 DEF ginWrite
  <1>. QED  BY <1>1, <1>2, <1>3, <1>4, <1>5, PutWire

LEMMA ginFlushEffect ==
    ASSUME NEW v \in GinWriters, NEW u, u = ginFlush(v)
    PROVE  /\ u \in GinWriters /\ u.written
           /\ u.pending = v.pending /\ u.status = v.status /\ u.rec = v.rec
           /\ u.header = v.header /\ u.snapshotted = v.snapshotted
           /\ u.wire = wireHeader(ginWriteHeaderNow(v).wire, StatusOK, v.header)
  <1>1. PICK a : a = ginWriteHeaderNow(v)
    OBVIOUS
  <1>2. /\ a \in GinWriters /\ a.written
        /\ a.pending = v.pending /\ a.status = v.status /\ a.rec = v.rec
        /\ a.header = v.header /\ a.snapshotted = v.snapshotted
    BY <1>1, NowEffect
  <1>3. PICK x : x = wireHeader(a.wire, StatusOK, a.header)
    OBVIOUS
  <1>4. x \in Wires
    BY <1>2, <1>3, GinParts, HeaderEffect DEF StatusOK
  <1>5. u = [a EXCEPT !.wire = x]
    BY <1>1, <1>3 DEF ginFlush
  <1>. QED  BY <1>1, <1>2, <1>3, <1>4, <1>5, PutWire

LEMMA ginWriteHeaderEffect ==
    ASSUME NEW v \in GinWriters, NEW code \in Informational \cup 200 .. 999,
           NEW u, u = ginWriteHeader(v, code)
    PROVE  /\ u \in GinWriters /\ u.pending = v.pending /\ u.rec = v.rec
           /\ u.header = v.header /\ u.snapshotted = v.snapshotted
           /\ u.written = v.written /\ u.wire = v.wire
           /\ u.status = IF v.written THEN v.status ELSE code
  <1>1. CASE v.written
    BY <1>1 DEF ginWriteHeader
  <1>2. CASE ~v.written
    <2>1. u = [v EXCEPT !.status = code]
      BY <1>2 DEF ginWriteHeader
    <2>. QED  BY <1>2, <2>1, PutStatus
  <1>. QED  BY <1>1, <1>2

(* A header that is set or deleted before the header goes out is not in    *)
(* the snapshot yet.                                                       *)
LEMMA GinHeaderGood ==
    ASSUME NEW v, NEW p, GinGood(v, p), GinOpen(v), NEW H \in SUBSET Header,
           NEW u, u = [v EXCEPT !.header = H]
    PROVE  GinGood(u, p) /\ GinOpen(u)
  <1>1. v \in GinWriters /\ GinSynced(v, p) /\ v.written \in BOOLEAN
    BY GinParts DEF GinGood
  <1>2. /\ u \in GinWriters /\ u.header = H
        /\ u.rec = v.rec /\ u.pending = v.pending /\ u.snapshotted = v.snapshotted
        /\ u.status = v.status /\ u.written = v.written /\ u.wire = v.wire
    BY <1>1, PutHeader
  <1>3. noted(u, StatusOK) = noted(v, StatusOK) /\ noted(u, p) = noted(v, p)
    BY <1>2 DEF noted
  <1>. QED  BY <1>1, <1>2, <1>3 DEF GinGood, GinSynced, GinOpen

(* A status that is noted before the header goes out replaces the one      *)
(* noted before it, for Gin and for the snapshot to come.                  *)
LEMMA GinWriteHeaderGood ==
    ASSUME NEW v, NEW p, GinGood(v, p), GinOpen(v),
           NEW code \in Informational \cup 200 .. 999
    PROVE  GinGood(GinWriteHeader(v, code), p) /\ GinOpen(GinWriteHeader(v, code))
  <1>1. /\ v \in GinWriters /\ GinSynced(v, p)
        /\ v.written \in BOOLEAN /\ v.snapshotted \in BOOLEAN
    BY GinParts DEF GinGood
  <1>2. code \in Informational \/ (code \in 200 .. 999 /\ code >= 200 /\ code # 0)
    OBVIOUS
  <1>3. code >= 200 => code \in StatusCodes /\ code # 0
    BY DEF Informational, StatusCodes
  <1>4. PICK a : a = IF ~v.snapshotted /\ code >= 200 THEN [v EXCEPT !.pending = code]
                     ELSE v
    BY ZenonT(30)
  <1>5. /\ a \in GinWriters
        /\ a.pending = (IF ~v.snapshotted /\ code >= 200 THEN code ELSE v.pending)
        /\ a.rec = v.rec /\ a.status = v.status /\ a.snapshotted = v.snapshotted
        /\ a.header = v.header /\ a.written = v.written /\ a.wire = v.wire
    <2>1. CASE ~v.snapshotted /\ code >= 200
      BY <1>1, <1>3, <1>4, <2>1, PutPending
    <2>2. CASE ~(~v.snapshotted /\ code >= 200)
      BY <1>1, <1>4, <2>2
    <2>. QED  BY <2>1, <2>2
  <1>6. PICK u : u = ginWriteHeader(a, code)
    OBVIOUS
  <1>7. /\ u \in GinWriters /\ u.pending = a.pending /\ u.rec = a.rec
        /\ u.header = a.header /\ u.snapshotted = a.snapshotted
        /\ u.written = a.written /\ u.wire = a.wire
        /\ u.status = IF a.written THEN a.status ELSE code
    BY <1>5, <1>6, ginWriteHeaderEffect
  <1>8. u = GinWriteHeader(v, code)
    BY <1>4, <1>6 DEF GinWriteHeader
  <1>9. GinOpen(u)
    BY <1>5, <1>7 DEF GinOpen
  <1>10. GinSynced(u, p)
    <2>1. CASE v.rec.abandoned
      BY <1>1, <1>5, <1>7, <2>1 DEF GinSynced
    <2>2. CASE ~v.rec.abandoned /\ v.snapshotted
      <3>1. v.written
        BY <2>2 DEF GinOpen
      <3>2. noted(u, StatusOK) = noted(v, StatusOK) /\ noted(u, p) = noted(v, p)
        BY <1>5, <1>7, <2>2 DEF noted
      <3>. QED  BY <1>1, <1>5, <1>7, <2>2, <3>1, <3>2 DEF GinSynced
    <2>3. CASE ~v.rec.abandoned /\ ~v.snapshotted
      <3>1. ~v.written
        BY <1>1, <2>3 DEF GinSynced
      <3>2. code \in Informational \/ code = noted(u, p)
        BY <1>2, <1>5, <1>7, <2>3 DEF noted
      <3>. QED  BY <1>1, <1>5, <1>7, <2>3, <3>1, <3>2 DEF GinSynced
    <2>. QED  BY <2>1, <2>2, <2>3
  <1>. QED  BY <1>7, <1>8, <1>9, <1>10 DEF GinGood

(* What the Recorder makes of a chunk. *)
LEMMA BodyEffect ==
    ASSUME NEW r \in Recs, NEW n \in Nat
    PROVE  /\ RecordBody(r, n) \in Recs
           /\ RecordBody(r, n).status = r.status /\ RecordBody(r, n).header = r.header
           /\ RecordBody(r, n).abandoned = r.abandoned
           /\ Storable(RecordBody(r, n)) => /\ Storable(r)
                                            /\ RecordBody(r, n).body = r.body + n
  <1>1. /\ r.status \in StatusCodes /\ r.header \in SUBSET allow
        /\ r.body \in 0 .. MaxResponseBody
        /\ r.overflowed \in BOOLEAN /\ r.abandoned \in BOOLEAN
    BY DEF Recs
  <1>. QED  BY <1>1, MaxResponseBodyAssumption DEF RecordBody, Recs, Storable

(* A chunk follows the snapshot and the header, and is appended on both    *)
(* sides or voids the capture.                                             *)
LEMMA GinWriteGood ==
    ASSUME NEW v, NEW p, GinGood(v, p), NEW n \in Nat
    PROVE  GinGood(GinWrite(v, n), p) /\ GinOpen(GinWrite(v, n))
  <1>1. PICK s : s = snapshot(v)
    OBVIOUS
  <1>2. GinGood(s, p) /\ s.snapshotted
    BY <1>1, SnapshotGood
  <1>0. s \in GinWriters
    BY <1>2 DEF GinGood
  <1>3. PICK c : c = ginWriteHeaderNow(s)
    OBVIOUS
  <1>4. GinGood(c, p) /\ c.written /\ c \in GinWriters /\ GinSynced(c, p)
    BY <1>2, <1>3, NowGood DEF GinGood
  <1>5. /\ c.pending = s.pending /\ c.status = s.status /\ c.rec = s.rec
        /\ c.header = s.header /\ c.snapshotted = s.snapshotted
        /\ s.written => c = s
        /\ ~s.written => c.wire = wireHeader(s.wire, s.status, s.header)
    BY <1>0, <1>3, NowEffect
  <1>6. PICK r : r = RecordBody(s.rec, n)
    OBVIOUS
  <1>7. /\ r \in Recs /\ r.status = s.rec.status /\ r.header = s.rec.header
        /\ r.abandoned = s.rec.abandoned
        /\ Storable(r) => Storable(s.rec) /\ r.body = s.rec.body + n
    <2>1. s.rec \in Recs
      BY <1>0, GinParts
    <2>. QED  BY <1>6, <2>1, BodyEffect, Zenon
  <1>8. PICK a : a = [s EXCEPT !.rec = r]
    OBVIOUS
  <1>9. /\ a \in GinWriters /\ a.rec = r
        /\ a.pending = s.pending /\ a.status = s.status /\ a.snapshotted = s.snapshotted
        /\ a.header = s.header /\ a.written = s.written /\ a.wire = s.wire
    BY <1>0, <1>7, <1>8, PutRec
  <1>10. ginWriteHeaderNow(a).wire = c.wire
    BY <1>0, <1>5, <1>9, GinParts, NowEffect
  <1>11. PICK u : u = ginWrite(a, n)
    OBVIOUS
  <1>12. /\ u \in GinWriters /\ u.written
         /\ u.pending = a.pending /\ u.status = a.status /\ u.rec = a.rec
         /\ u.header = a.header /\ u.snapshotted = a.snapshotted
         /\ u.wire = wireWrite(ginWriteHeaderNow(a).wire, n, a.header)
    BY <1>9, <1>11, ginWriteEffect
  <1>13. u = GinWrite(v, n)
    BY <1>1, <1>6, <1>8, <1>11 DEF GinWrite
  <1>14. /\ u.wire.hijacked = c.wire.hijacked
         /\ c.wire.status # 0 =>
               /\ u.wire.status = c.wire.status /\ u.wire.header = c.wire.header
               /\ ~c.wire.hijacked => u.wire.body
                     = IF c.wire.status \in Bodyless THEN c.wire.body ELSE c.wire.body + n
    BY <1>0, <1>4, <1>9, <1>10, <1>12, GinParts, ChunkEffect
  <1>15. noted(u, StatusOK) = noted(c, StatusOK) /\ noted(u, p) = noted(c, p)
    BY <1>5, <1>9, <1>12 DEF noted
  <1>16. GinSynced(u, p)
    <2>1. CASE c.rec.abandoned \/ c.status \in Informational
      BY <1>2, <1>4, <1>5, <1>7, <1>9, <1>12, <1>14, <1>15, <2>1 DEF GinSynced
    <2>2. CASE ~(c.rec.abandoned \/ c.status \in Informational)
      <3>1. c.status \in 200 .. 999 /\ c.status # 0
        BY <1>4, <2>2, GinParts
      <3>2. /\ ~c.wire.hijacked /\ c.wire.status = c.status
            /\ c.rec.header = c.wire.header \cap allow
            /\ Storable(c.rec) =>
                 c.wire.body = IF c.status \in Bodyless THEN 0 ELSE c.rec.body
        BY <1>4, <2>2 DEF GinSynced
      <3>3. u.wire.status = u.status /\ u.rec.header = u.wire.header \cap allow
        BY <1>5, <1>7, <1>9, <1>12, <1>14, <3>1, <3>2
      <3>4. Storable(u.rec) =>
              u.wire.body = IF u.status \in Bodyless THEN 0 ELSE u.rec.body
        BY <1>5, <1>7, <1>9, <1>12, <1>14, <3>1, <3>2
      <3>. QED
        BY <1>2, <1>4, <1>5, <1>7, <1>9, <1>12, <1>14, <1>15, <3>2, <3>3, <3>4
        DEF GinSynced
    <2>. QED  BY <2>1, <2>2
  <1>. QED  BY <1>12, <1>13, <1>16 DEF GinGood, GinOpen

(* WriteHeaderNow takes the snapshot of what it sends. *)
LEMMA GinWriteHeaderNowGood ==
    ASSUME NEW v, NEW p, GinGood(v, p)
    PROVE  GinGood(GinWriteHeaderNow(v), p) /\ GinOpen(GinWriteHeaderNow(v))
  <1>1. PICK s : s = snapshot(v)
    OBVIOUS
  <1>2. GinGood(s, p) /\ s.snapshotted
    BY <1>1, SnapshotGood
  <1>3. GinGood(ginWriteHeaderNow(s), p) /\ ginWriteHeaderNow(s).written
    BY <1>2, NowGood
  <1>. QED  BY <1>1, <1>3 DEF GinWriteHeaderNow, GinOpen

(* A flush voids the capture. *)
LEMMA GinFlushGood ==
    ASSUME NEW v, NEW p, GinGood(v, p)
    PROVE  GinGood(GinFlush(v), p) /\ GinOpen(GinFlush(v))
  <1>1. v \in GinWriters /\ GinSynced(v, p)
    BY DEF GinGood
  <1>2. PICK r : r = Abandon(v.rec)
    OBVIOUS
  <1>3. r \in Recs /\ r.abandoned /\ r.status = v.rec.status
    BY <1>1, <1>2, GinParts, MaxResponseBodyAssumption DEF Abandon, Recs
  <1>4. PICK a : a = [v EXCEPT !.rec = r]
    OBVIOUS
  <1>5. a \in GinWriters /\ a.rec = r /\ a.snapshotted = v.snapshotted
    BY <1>1, <1>3, <1>4, PutRec
  <1>6. PICK u : u = ginFlush(a)
    OBVIOUS
  <1>7. u \in GinWriters /\ u.rec = r /\ u.snapshotted = v.snapshotted
    BY <1>5, <1>6, ginFlushEffect
  <1>8. u = GinFlush(v)
    BY <1>2, <1>4, <1>6 DEF GinFlush
  <1>. QED  BY <1>1, <1>3, <1>7, <1>8 DEF GinGood, GinSynced, GinOpen

(* A hijack that succeeds voids the capture. *)
LEMMA GinHijackGood ==
    ASSUME NEW v, NEW p, GinGood(v, p), GinOpen(v)
    PROVE  GinGood(GinHijack(v), p) /\ GinOpen(GinHijack(v))
  <1>1. v \in GinWriters /\ GinSynced(v, p) /\ v.wire.hijacked \in BOOLEAN
    BY GinParts DEF GinGood
  <1>2. CASE v.wire.hijacked
    BY <1>2 DEF GinHijack
  <1>3. CASE ~v.wire.hijacked
    <2>1. PICK r, x : r = Abandon(v.rec) /\ x = wireHijack(v.wire)
      OBVIOUS
    <2>2. r \in Recs /\ r.abandoned /\ r.status = v.rec.status
      BY <1>1, <2>1, GinParts, MaxResponseBodyAssumption DEF Abandon, Recs
    <2>3. x \in Wires
      BY <1>1, <2>1, GinParts DEF wireHijack, Wires
    <2>4. PICK a : a = [v EXCEPT !.wire = x]
      OBVIOUS
    <2>5. a \in GinWriters /\ a.rec = v.rec /\ a.snapshotted = v.snapshotted
      BY <1>1, <2>3, <2>4, PutWire
    <2>6. PICK b : b = [a EXCEPT !.written = TRUE]
      OBVIOUS
    <2>7. b \in GinWriters /\ b.rec = v.rec /\ b.snapshotted = v.snapshotted
      BY <2>5, <2>6, PutWritten
    <2>8. b = ginHijack(v)
      BY <1>1, <2>1, <2>4, <2>6, ZenonT(30) DEF ginHijack, GinWriters
    <2>9. PICK u : u = [b EXCEPT !.rec = r]
      OBVIOUS
    <2>10. u \in GinWriters /\ u.rec = r /\ u.snapshotted = v.snapshotted
      BY <2>2, <2>7, <2>9, PutRec
    <2>11. u = GinHijack(v)
      BY <1>3, <2>1, <2>7, <2>8, <2>9 DEF GinHijack
    <2>. QED  BY <1>1, <2>2, <2>10, <2>11 DEF GinGood, GinSynced, GinOpen
  <1>. QED  BY <1>1, <1>2, <1>3

(* A writer nobody called yet. *)
LEMMA NewGinGood ==
    ASSUME NEW p \in 200 .. 999
    PROVE  GinGood(NewGin(p), p) /\ GinOpen(NewGin(p)) /\ ~NewGin(p).snapshotted
  <1>1. NewRecorder \in Recs /\ NewWire \in Wires
    BY MaxResponseBodyAssumption
    DEF NewRecorder, NewWire, Recs, Wires, StatusCodes
  <1>2. PICK u : u = NewGin(p)
    OBVIOUS
  <1>3. /\ u.rec = NewRecorder /\ u.wire = NewWire /\ u.pending = 0 /\ u.status = p
        /\ u.snapshotted = FALSE /\ u.written = FALSE
    BY <1>2 DEF NewGin
  <1>4. u \in GinWriters
    BY <1>1, <1>2 DEF NewGin, GinWriters, StatusCodes
  <1>5. /\ u.rec.status = 0 /\ u.rec.body = 0 /\ u.wire.status = 0 /\ u.wire.body = 0
        /\ u.wire.hijacked = FALSE
    BY <1>3 DEF NewRecorder, NewWire
  <1>6. noted(u, p) = p
    BY <1>3 DEF noted
  <1>. QED  BY <1>2, <1>3, <1>4, <1>5, <1>6 DEF GinGood, GinSynced, GinOpen

(* The engine sends the header that was noted, unless that is a 1xx. *)
LEMMA GinServedGood ==
    ASSUME NEW v, NEW p, GinGood(v, p), v.snapshotted \/ v.rec.abandoned
    PROVE  GinGood(ginServed(v), p)
  <1>1. v \in GinWriters
    BY DEF GinGood
  <1>2. PICK c : c = ginWriteHeaderNow(v)
    OBVIOUS
  <1>3. GinGood(c, p) /\ c \in GinWriters /\ GinSynced(c, p) /\ c.written
    BY <1>2, NowGood DEF GinGood
  <1>4. /\ c.pending = v.pending /\ c.status = v.status /\ c.rec = v.rec
        /\ c.header = v.header /\ c.snapshotted = v.snapshotted
    BY <1>1, <1>2, NowEffect
  <1>5. PICK u : u = ginServed(v)
    OBVIOUS
  <1>6. /\ u \in GinWriters /\ u.written
        /\ u.pending = v.pending /\ u.status = v.status /\ u.rec = v.rec
        /\ u.header = v.header /\ u.snapshotted = v.snapshotted
        /\ u.wire = wireHeader(c.wire, StatusOK, v.header)
    BY <1>1, <1>2, <1>5, ginFlushEffect DEF ginServed
  <1>7. /\ u.wire.hijacked = c.wire.hijacked
        /\ c.wire.status # 0 => u.wire = c.wire
    BY <1>1, <1>3, <1>6, GinParts, HeaderEffect DEF StatusOK
  <1>8. noted(u, StatusOK) = noted(c, StatusOK) /\ noted(u, p) = noted(c, p)
    BY <1>4, <1>6 DEF noted
  <1>9. c.status \notin Informational => c.status # 0
    <2>1. c.status \in Informational \cup 200 .. 999
      BY <1>3, GinParts
    <2>. QED  BY <2>1
  <1>10. GinSynced(u, p)
    BY <1>3, <1>4, <1>6, <1>7, <1>8, <1>9 DEF GinSynced
  <1>. QED  BY <1>5, <1>6, <1>10 DEF GinGood

(* What a replay through Gin puts on the wire. *)
LEMMA GinReplayEffect ==
    ASSUME NEW sr, sr.status \in 200 .. 999, sr.header \in SUBSET Header, sr.body \in Nat
    PROVE  /\ GinReplay(sr).status = sr.status /\ GinReplay(sr).header = sr.header
           /\ GinReplay(sr).body = IF sr.status \in Bodyless THEN 0 ELSE sr.body
  <1>1. PICK v : v = NewGin(StatusOK)
    OBVIOUS
  <1>2. v \in GinWriters
    <2>1. StatusOK \in 200 .. 999
      BY DEF StatusOK
    <2>2. GinGood(v, StatusOK)
      BY <1>1, <2>1, NewGinGood, ZenonT(30)
    <2>. QED  BY <2>2 DEF GinGood
  <1>3. v.written = FALSE /\ v.wire = NewWire
    BY <1>1 DEF NewGin
  <1>4. PICK a : a = [v EXCEPT !.header = sr.header]
    OBVIOUS
  <1>5. a \in GinWriters /\ a.header = sr.header /\ a.written = FALSE /\ a.wire = NewWire
    BY <1>2, <1>3, <1>4, PutHeader
  <1>6. PICK b : b = ginWriteHeader(a, sr.status)
    OBVIOUS
  <1>7. /\ b \in GinWriters /\ b.header = sr.header /\ b.written = FALSE /\ b.wire = NewWire
        /\ b.status = sr.status
    BY <1>5, <1>6, ginWriteHeaderEffect
  <1>8. PICK x : x = wireHeader(NewWire, sr.status, sr.header)
    OBVIOUS
  <1>9. /\ NewWire \in Wires /\ NewWire.status = 0 /\ NewWire.body = 0
        /\ NewWire.hijacked = FALSE
    BY DEF NewWire, Wires, StatusCodes
  <1>10. sr.status \notin Informational
    BY FinalCode
  <1>11. /\ x \in Wires /\ x.status = sr.status /\ x.header = sr.header /\ x.body = 0
         /\ x.hijacked = FALSE
    BY <1>8, <1>9, <1>10, HeaderEffect
  <1>12. ginWriteHeaderNow(b).wire = x
    BY <1>7, <1>8, NowEffect
  <1>13. PICK u : u = ginWrite(b, sr.body)
    OBVIOUS
  <1>14. u.wire = wireWrite(x, sr.body, sr.header)
    BY <1>7, <1>12, <1>13, ginWriteEffect
  <1>15. GinReplay(sr) = u.wire
    BY <1>1, <1>4, <1>6, <1>13 DEF GinReplay
  <1>16. x.status # 0
    BY <1>11
  <1>. QED  BY <1>11, <1>14, <1>15, <1>16, ChunkEffect

=============================================================================
