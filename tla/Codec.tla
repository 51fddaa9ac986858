------------------------------- MODULE Codec --------------------------------
(***************************************************************************)
(* The payloads kept in a Store: httpidem/storedresponse.go (the response  *)
(* of an HTTP handler) and the payload of grpcidem/grpcidem.go (a message  *)
(* with its type).  A payload is a sequence of bytes below 2 * Base, where *)
(* a byte of at least Base says that its varint goes on.                   *)
(*                                                                         *)
(* Of encoding/binary only the varints are used, modelled here (external). *)
(***************************************************************************)
EXTENDS Integers, SequencesExt

CONSTANTS
    Base,               \* 128 in the code
    MaxVarintLen,       \* 10 in the code
    maxHeaderNames, maxHeaderValues     \* 1024 in the code

(* A varint of two bytes holds the counts that the decoder refuses. *)
ASSUME CodecAssumption ==
    /\ Base \in Nat \ {0, 1} /\ MaxVarintLen \in Nat \ {0, 1}
    /\ maxHeaderNames \in Nat /\ maxHeaderValues \in Nat
    /\ maxHeaderValues + 1 < Base * Base

Version == 1

Refused == [ok |-> FALSE]

-----------------------------------------------------------------------------
(* Varints *)

(* v as the loop shifts it, from the whole of it down to 0. *)
shifts(v) ==
    LET f[i \in 0 .. MaxVarintLen] == IF i = 0 THEN v ELSE f[i - 1] \div Base
    IN  f

uvarintLen(v) == Min({n \in 1 .. MaxVarintLen : shifts(v)[n] = 0})

(* The bytes that an append adds to the buffer, here and below. *)
AppendUvarint(v) ==
    [i \in 1 .. uvarintLen(v) |->
        (shifts(v)[i - 1] % Base) + IF i < uvarintLen(v) THEN Base ELSE 0]

(* The bytes of the varint at the start of buf, 0 if there is none. *)
uvarintEnd(buf) ==
    LET last == {i \in DOMAIN buf : i <= MaxVarintLen /\ buf[i] < Base}
    IN  IF last = {} THEN 0 ELSE Min(last)

(* The value of the first n bytes of buf, the last of which counts most. *)
Uvarint(buf, n) ==
    LET f[i \in 0 .. n] ==
            IF i = 0 THEN 0 ELSE (f[i - 1] * Base) + (buf[n + 1 - i] % Base)
    IN  f[n]

-----------------------------------------------------------------------------
(* Encoding *)

appendString(s) == AppendUvarint(Len(s)) \o s

appendHeader(name, values) ==
    appendString(name) \o AppendUvarint(Len(values))
        \o FlattenSeq([i \in 1 .. Len(values) |-> appendString(values[i])])

(* Strings in the order of their bytes. *)
Before(a, b) ==
    \E k \in 1 .. Len(b) :
        /\ \A i \in 1 .. k - 1 : i <= Len(a) /\ a[i] = b[i]
        /\ k > Len(a) \/ a[k] < b[k]

Strings(N) ==
    CHOOSE q \in [1 .. Cardinality(N) -> N] :
        /\ \A n \in N : \E i \in DOMAIN q : q[i] = n
        /\ \A i, j \in DOMAIN q : i < j => Before(q[i], q[j])

(* Names are sorted, so that equal responses have equal payloads. *)
MarshalBinary(r) ==
    LET names == Strings(DOMAIN r.header)
    IN  <<Version>> \o AppendUvarint(r.status) \o AppendUvarint(Len(names))
          \o FlattenSeq([i \in 1 .. Len(names) |-> appendHeader(names[i], r.header[names[i]])])
          \o appendString(r.body)

encodePayload(m) == <<Version>> \o appendString(m.name) \o m.body

-----------------------------------------------------------------------------
(* Decoding: the decoder is what is left of the buffer and its first error;*)
(* a read returns it with the value v.                                     *)

uvarint(d) ==
    LET n == uvarintEnd(d.buf)
    IN  IF d.err \/ n = 0
        THEN [v |-> 0, buf |-> d.buf, err |-> TRUE]
        ELSE [v |-> Uvarint(d.buf, n), buf |-> SubSeq(d.buf, n + 1, Len(d.buf)),
              err |-> FALSE]

(* Mutant: a length that runs past the end of the buffer is cut to it. *)
bytesClipped(d) ==
    LET n == uvarint(d)
        k == Min({n.v, Len(n.buf)})
    IN  [v |-> SubSeq(n.buf, 1, k), buf |-> SubSeq(n.buf, k + 1, Len(n.buf)),
         err |-> n.err]

bytes(d) ==
    LET n == uvarint(d)
    IN  IF n.err \/ n.v > Len(n.buf)
        THEN [v |-> <<>>, buf |-> n.buf, err |-> TRUE]
        ELSE [v |-> SubSeq(n.buf, 1, n.v), buf |-> SubSeq(n.buf, n.v + 1, Len(n.buf)),
              err |-> FALSE]

(* d with the count just read, refused beyond the limit. *)
limited(d, limit) ==
    IF d.v > limit THEN [v |-> 0, buf |-> d.buf, err |-> TRUE] ELSE d

(* Mutant: the last value of a name is kept. *)
addLast(header, name, s) ==
    [n \in DOMAIN header \cup {name} |-> IF n # name THEN header[n] ELSE <<s>>]

add(header, name, s) ==
    [n \in DOMAIN header \cup {name} |->
        IF n # name THEN header[n]
        ELSE IF n \in DOMAIN header THEN Append(header[n], s) ELSE <<s>>]

(* One value of name; h is the decoder with the header read so far. *)
readValue(h, name) ==
    LET s == bytes(h)
    IN  [buf |-> s.buf, err |-> s.err,
         header |-> IF s.err THEN h.header ELSE add(h.header, name, s.v)]

readValues(h, name, n) ==
    LET f[i \in 0 .. n] == IF i = 0 THEN h ELSE readValue(f[i - 1], name)
    IN  f[n]

readName(h) ==
    LET name == bytes(h)
        n    == limited(uvarint(name), maxHeaderValues)
    IN  readValues([buf |-> n.buf, err |-> n.err, header |-> h.header], name.v, n.v)

readNames(h, n) ==
    LET f[i \in 0 .. n] == IF i = 0 THEN h ELSE readName(f[i - 1])
    IN  f[n]

UnmarshalBinary(data) ==
    IF data = <<>> \/ Head(data) # Version
    THEN Refused
    ELSE LET status == uvarint([buf |-> Tail(data), err |-> FALSE])
             n      == limited(uvarint(status), maxHeaderNames)
             h      == readNames([buf |-> n.buf, err |-> n.err, header |-> <<>>], n.v)
             body   == bytes(h)
         IN  IF body.err \/ body.buf # <<>>
             THEN Refused
             ELSE [ok |-> TRUE, status |-> status.v, header |-> h.header,
                   body |-> body.v]

(* The message types that the replaying process has registered. *)
RegisteredNames == {<<1>>, <<1, Base>>}

(* The message itself is proto's to decode. *)
decodePayload(data) ==
    IF data = <<>> \/ Head(data) # Version
    THEN Refused
    ELSE LET name == bytes([buf |-> Tail(data), err |-> FALSE])
         IN  IF name.err \/ name.v \notin RegisteredNames
             THEN Refused
             ELSE [ok |-> TRUE, name |-> name.v, body |-> name.buf]

-----------------------------------------------------------------------------
(* Every response and every message, one at a time. *)

HeaderName == {<<1>>, <<2>>, <<1, 1>>}

HeaderValue == {<<>>, <<1>>}

BodyBytes == {<<>>, [i \in 1 .. Base |-> 1]}

Headers == UNION {[N -> BoundedSeq(HeaderValue, maxHeaderValues + 1)] :
                     N \in SUBSET HeaderName}

StoredResponses == [status : {1, Base}, header : Headers, body : BodyBytes]

Messages == [name : BoundedSeq({1, Base}, 2), body : BodyBytes]

VARIABLES sr,           \* the response, as a sequence of at most one
          msg           \* the message, as a sequence of at most one

codecVars == <<sr, msg>>

CodecInit == sr = <<>> /\ msg = <<>>

CodecNext ==
    /\ sr = <<>> /\ msg = <<>>
    /\ \/ \E r \in StoredResponses : sr' = <<r>> /\ UNCHANGED msg
       \/ \E m \in Messages : msg' = <<m>> /\ UNCHANGED sr

CodecSpec == CodecInit /\ [][CodecNext]_codecVars

-----------------------------------------------------------------------------
(* Properties *)

withinLimits(r) ==
    /\ Cardinality(DOMAIN r.header) <= maxHeaderNames
    /\ \A n \in DOMAIN r.header : Len(r.header[n]) <= maxHeaderValues

(* The response without the names that have no value. *)
decoded(r) ==
    [ok |-> TRUE, status |-> r.status, body |-> r.body,
     header |-> [n \in {n \in DOMAIN r.header : r.header[n] # <<>>} |-> r.header[n]]]

(* A payload decodes to the response that was stored, with every value of  *)
(* every header in order and a body of any length, exactly when the        *)
(* response is within the decoder's limits, of which the encoder knows     *)
(* nothing; a gRPC payload when its type is known where it is replayed.    *)
RoundTrip ==
    /\ \A i \in DOMAIN sr :
          UnmarshalBinary(MarshalBinary(sr[i]))
              = IF withinLimits(sr[i]) THEN decoded(sr[i]) ELSE Refused
    /\ \A i \in DOMAIN msg :
          decodePayload(encodePayload(msg[i]))
              = IF msg[i].name \in RegisteredNames
                THEN [ok |-> TRUE, name |-> msg[i].name, body |-> msg[i].body]
                ELSE Refused

(* A payload that was cut short anywhere, that has something behind it or  *)
(* another version in front is refused as corrupted, never read as another *)
(* response; a gRPC payload that ends within its name or has another       *)
(* version is refused, too.                                                *)
CorruptRefused ==
    /\ \A i \in DOMAIN sr :
          LET p == MarshalBinary(sr[i]) IN
          /\ \A n \in 0 .. Len(p) - 1 : UnmarshalBinary(SubSeq(p, 1, n)) = Refused
          /\ \A b \in {0, Base} : UnmarshalBinary(Append(p, b)) = Refused
          /\ UnmarshalBinary([p EXCEPT ![1] = Version + 1]) = Refused
    /\ \A i \in DOMAIN msg :
          LET p == encodePayload(msg[i])
              n == Len(p) - Len(msg[i].body)
          IN  /\ \A j \in 0 .. n - 1 : decodePayload(SubSeq(p, 1, j)) = Refused
              /\ decodePayload([p EXCEPT ![1] = Version + 1]) = Refused

=============================================================================
