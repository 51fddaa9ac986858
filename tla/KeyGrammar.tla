----------------------------- MODULE KeyGrammar -----------------------------
(***************************************************************************)
(* What makes two requests the same: httpidem/key.go (the Idempotency-Key  *)
(* header), the store key of httpidem.go, ginadapter.go and grpcidem.go    *)
(* (the key within its scope), and httpidem/fingerprint.go.                *)
(*                                                                         *)
(* A byte is a member of Byte, one for each case the code distinguishes:   *)
(*   "a"     any printable ASCII character without a role                  *)
(*   "SP"    the space               "HT"    the tab, a control character  *)
(*   "DQ"    the double quote        "BS"    the backslash                 *)
(*   "NUL"   a control character that is the scope separator, too          *)
(*   "hi"    a byte above 0x7E that is no control character                *)
(* A digest stands for its preimage: SHA-256 is taken to be injective.     *)
(***************************************************************************)
EXTENDS Integers, SequencesExt

CONSTANTS
    MaxKey,             \* 255 in the code: bytes of a key
    MaxValue,           \* bound: bytes of a header value
    MaxPart             \* bound: bytes of a query and of a body

ASSUME KeyAssumption == MaxKey \in Nat \ {0} /\ MaxValue \in Nat /\ MaxPart \in Nat

Byte == {"a", "SP", "HT", "DQ", "BS", "NUL", "hi"}

OWS == {"SP", "HT"}

Control == {"NUL", "HT"}

Printable == {"a", "SP", "DQ", "BS"}

Invalid == [ok |-> FALSE, key |-> <<>>]

Valid(k) == [ok |-> TRUE, key |-> k]

-----------------------------------------------------------------------------
(* ParseKey *)

Trim(v) ==
    LET text == {i \in DOMAIN v : v[i] \notin OWS}
    IN  IF text = {} THEN <<>> ELSE SubSeq(v, Min(text), Max(text))

(* One byte after the opening quote; nothing may follow the closing one. *)
sfByte(s, b) ==
    CASE s.mode \in {"bad", "closed"} -> [mode |-> "bad", key |-> <<>>]
      [] s.mode = "escaped" ->
            IF b \in {"DQ", "BS"}
            THEN [mode |-> "open", key |-> Append(s.key, b)]
            ELSE [mode |-> "bad", key |-> <<>>]
      [] OTHER ->
            CASE b = "BS" -> [mode |-> "escaped", key |-> s.key]
              [] b = "DQ" -> [mode |-> "closed", key |-> s.key]
              [] b \notin Printable -> [mode |-> "bad", key |-> <<>>]
              [] OTHER -> [mode |-> "open", key |-> Append(s.key, b)]

(* The state of the loop after each byte. *)
sfStates(v) ==
    LET read[i \in 1 .. Len(v)] ==
            IF i = 1 THEN [mode |-> "open", key |-> <<>>] ELSE sfByte(read[i - 1], v[i])
    IN  read

(* Mutant: the closing quote may be missing. *)
parseSFStringUnclosed(v) ==
    LET s == sfStates(v)[Len(v)]
    IN  IF s.mode # "bad" THEN Valid(s.key) ELSE Invalid

parseSFString(v) ==
    LET s == sfStates(v)[Len(v)]
    IN  IF s.mode = "closed" THEN Valid(s.key) ELSE Invalid

(* Mutant: a raw key may hold control characters. *)
parseRawAny(v) == Valid(v)

parseRaw(v) == IF Control \cap ToSet(v) = {} THEN Valid(v) ELSE Invalid

ParseKey(value) ==
    LET v == Trim(value)
        parsed == IF v = <<>> THEN Invalid
                  ELSE IF v[1] = "DQ" THEN parseSFString(v) ELSE parseRaw(v)
    IN  IF parsed.ok /\ Len(parsed.key) \in 1 .. MaxKey THEN parsed ELSE Invalid

(* KeyFromHeader, for the sequence of header values. *)
KeyFromHeader(values) == IF Len(values) = 1 THEN ParseKey(values[1]) ELSE Invalid

(* validateKey of the gRPC interceptor: the raw form, not trimmed. *)
validateKey(k) ==
    IF Len(k) \in 1 .. MaxKey /\ Control \cap ToSet(k) = {} THEN Valid(k) ELSE Invalid

storeKey(scope, key) == IF scope = <<>> THEN key ELSE scope \o <<"NUL">> \o key

-----------------------------------------------------------------------------
(* Fingerprint.  A method is in either case; an escaped path holds neither *)
(* "?" nor a line feed, a raw query no line feed, a body anything.         *)

Method == {"POST", "post", "PATCH"}

Path == {<<>>, <<"a">>}

Query == BoundedSeq({"a", "?"}, MaxPart)

Body == BoundedSeq({"a", "?", "LF"}, MaxPart)

Request == [method : Method, path : Path, query : Query, body : Body]

ToUpper(m) == IF m = "post" THEN "POST" ELSE m

(* Mutant: no line feed between the query and the body. *)
FingerprintJoined(r) ==
    <<ToUpper(r.method), "LF">> \o r.path \o <<"?">> \o r.query \o r.body

Fingerprint(r) ==
    <<ToUpper(r.method), "LF">> \o r.path \o <<"?">> \o r.query \o <<"LF">> \o r.body

(* The gRPC fingerprint; a full method holds no line feed. *)
grpcFingerprint(fullMethod, reqBytes) == fullMethod \o <<"LF">> \o reqBytes

-----------------------------------------------------------------------------
(* Every Idempotency-Key header and every request, one at a time. *)

VARIABLES header,       \* the values of the header
          request       \* the request, as a sequence of at most one

keyVars == <<header, request>>

KeyInit == header = <<>> /\ request = <<>>

ReceiveHeader(values) ==
    /\ header' = values
    /\ UNCHANGED request

ReceiveRequest(r) ==
    /\ request' = <<r>>
    /\ UNCHANGED header

KeyNext ==
    /\ header = <<>> /\ request = <<>>
    /\ \/ \E v \in BoundedSeq(Byte, MaxValue) : ReceiveHeader(<<v>>)
       \/ \E v, u \in BoundedSeq(Byte, 1) : ReceiveHeader(<<v, u>>)
       \/ \E r \in Request : ReceiveRequest(r)

KeySpec == KeyInit /\ [][KeyNext]_keyVars

-----------------------------------------------------------------------------
(* Properties *)

escape(b) == IF b \in {"DQ", "BS"} THEN <<"BS", b>> ELSE <<b>>

(* RFC 8941, section 4.1.6: how a String is serialized. *)
serialize(k) == <<"DQ">> \o FlattenSeq([i \in DOMAIN k |-> escape(k[i])]) \o <<"DQ">>

(* A header names a key exactly when it has one value and that is the key, *)
(* in raw form or serialized as an RFC 8941 String: `"abc"` and `abc` are  *)
(* the same key, every legal key can be sent, no value is read as some     *)
(* other key, and what gRPC accepts is the same key over HTTP.             *)
KeyGrammatical ==
    \A i \in DOMAIN header :
        LET v == header[i]
            p == KeyFromHeader(header)
        IN  /\ p.ok => /\ Len(header) = 1
                       /\ \/ Trim(v) = p.key /\ p.key[1] # "DQ"
                          \/ /\ Trim(v) = serialize(p.key)
                             /\ ToSet(p.key) \subseteq Printable
            /\ Len(v) \in 1 .. MaxKey /\ ToSet(v) \subseteq Printable
                  => KeyFromHeader(<<serialize(v)>>) = Valid(v)
            /\ validateKey(v).ok /\ Trim(v) = v /\ v[1] # "DQ"
                  => KeyFromHeader(<<v>>) = Valid(v)

Scope == BoundedSeq({"a", "NUL"}, 2)

LastNul(s) == LET n == {i \in DOMAIN s : s[i] = "NUL"} IN IF n = {} THEN 0 ELSE Max(n)

(* "Scoped keys never collide with raw ones", nor with the keys of another *)
(* scope, over HTTP or gRPC, even if a scope holds the separator: scope    *)
(* and key can be read back from the store key.                            *)
ScopesApart ==
    \A i \in DOMAIN header, s \in Scope :
        \A p \in {KeyFromHeader(header), validateKey(header[i])} :
        LET k  == p.key
            sk == storeKey(s, k)
            n  == LastNul(sk)
        IN  p.ok =>
            /\ SubSeq(sk, n + 1, Len(sk)) = k
            /\ SubSeq(sk, 1, n) = IF s = <<>> THEN <<>> ELSE Append(s, "NUL")

(* Requests have the same fingerprint only when method, path, query and    *)
(* body are the same, wherever the line between two of them is drawn, and  *)
(* gRPC calls when full method and message are.                            *)
FingerprintTells ==
    \A i \in DOMAIN request, r \in Request :
        LET q == request[i] IN
        /\ Fingerprint(r) = Fingerprint(q) =>
              /\ ToUpper(r.method) = ToUpper(q.method)
              /\ r.path = q.path /\ r.query = q.query /\ r.body = q.body
        /\ grpcFingerprint(r.path, r.body) = grpcFingerprint(q.path, q.body) =>
              r.path = q.path /\ r.body = q.body

=============================================================================
