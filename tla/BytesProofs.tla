----------------------------- MODULE BytesProofs ----------------------------
(***************************************************************************)
(* Proofs about what the middlewares read and write byte by byte, of any   *)
(* length: the key, the store key and the fingerprint, and the payloads    *)
(* kept in a Store.                                                        *)
(*                                                                         *)
(* An induction over the bytes of a value is an argument by its first byte *)
(* that breaks the claim: the library's induction theorems take the claim  *)
(* as an operator, which the provers cannot instantiate, but the theorem   *)
(* that a set of natural numbers has a least member takes a set.           *)
(***************************************************************************)
EXTENDS KeyGrammar, Codec, SequenceTheorems, FiniteSetTheorems,
        WellFoundedInduction, TLAPS

(* A nonempty set of natural numbers has a least member, and one of        *)
(* bounded numbers a greatest.                                             *)
LEMMA Least ==
    ASSUME NEW T \in SUBSET Nat, T # {}
    PROVE  \E m \in T : \A k \in T : m <= k
  <1>1. IsWellFoundedOn(OpToRel(<, Nat), Nat)
    BY NatLessThanWellFounded
  <1>2. \E x \in T : \A y \in T : ~(<<y, x>> \in OpToRel(<, Nat))
    BY <1>1, WFMin
  <1>3. \E x \in T : \A y \in T : ~(<<y, x>> \in {ss \in Nat \X Nat : ss[1] < ss[2]})
    BY <1>2 DEF OpToRel
  <1>4. ASSUME NEW x \in Nat, NEW y \in Nat, y < x
        PROVE  <<y, x>> \in {ss \in Nat \X Nat : ss[1] < ss[2]}
    BY <1>4
  <1>5. PICK x \in T : \A y \in T : ~(<<y, x>> \in {ss \in Nat \X Nat : ss[1] < ss[2]})
    BY <1>3
  <1>6. \A y \in T : ~(y < x)
    BY <1>4, <1>5
  <1>. QED  BY <1>6

LEMMA Greatest ==
    ASSUME NEW n \in Nat, NEW T \in SUBSET (0 .. n), T # {}
    PROVE  \E m \in T : \A k \in T : k <= m
  <1>1. {n - i : i \in T} \in SUBSET Nat /\ {n - i : i \in T} # {}
    <2>1. \A i \in T : n - i \in Nat
      OBVIOUS
    <2>2. PICK i : i \in T
      OBVIOUS
    <2>3. n - i \in {n - j : j \in T}
      BY <2>2
    <2>. QED  BY <2>1, <2>3
  <1>2. PICK m \in {n - i : i \in T} : \A k \in {n - i : i \in T} : m <= k
    BY <1>1, Least
  <1>3. PICK i \in T : m = n - i
    BY <1>2
  <1>4. \A k \in T : n - i <= n - k
    BY <1>2, <1>3
  <1>. QED  BY <1>3, <1>4

-----------------------------------------------------------------------------
(* What comes before the first separator, and what after it *)

Free(s, x) == \A i \in 1 .. Len(s) : s[i] # x

LEMMA SplitLength ==
    ASSUME NEW S, NEW x \in S,
           NEW a \in Seq(S), NEW b \in Seq(S), NEW c \in Seq(S), NEW d \in Seq(S),
           Free(c, x), a \o <<x>> \o b = c \o <<x>> \o d
    PROVE  Len(c) <= Len(a)
  <1>1. /\ Len(a) \in Nat /\ Len(b) \in Nat /\ Len(c) \in Nat /\ Len(d) \in Nat
    BY LenProperties
  <1>2. <<x>> \in Seq(S) /\ Len(<<x>>) = 1 /\ <<x>>[1] = x
    OBVIOUS
  <1>3. /\ a \o <<x>> \in Seq(S) /\ Len(a \o <<x>>) = Len(a) + 1
        /\ (a \o <<x>>)[Len(a) + 1] = x
    BY <1>1, <1>2, ConcatProperties
  <1>4. (a \o <<x>> \o b)[Len(a) + 1] = x
    BY <1>1, <1>3, ConcatProperties
  <1>5. /\ c \o <<x>> \in Seq(S) /\ Len(c \o <<x>>) = Len(c) + 1
        /\ \A i \in 1 .. Len(c) : (c \o <<x>>)[i] = c[i]
    BY <1>1, <1>2, ConcatProperties
  <1>6. \A i \in 1 .. Len(c) : (c \o <<x>> \o d)[i] = c[i]
    BY <1>1, <1>5, ConcatProperties
  <1>7. SUFFICES ASSUME Len(a) < Len(c) PROVE FALSE
    BY <1>1
  <1>8. Len(a) + 1 \in 1 .. Len(c)
    BY <1>1, <1>7
  <1>. QED  BY <1>4, <1>6, <1>8 DEF Free

(* Sequences of the same length at the front of equal ones are equal, and  *)
(* so is what follows them.                                                *)
LEMMA SplitAt ==
    ASSUME NEW S, NEW a \in Seq(S), NEW b \in Seq(S), NEW c \in Seq(S), NEW d \in Seq(S),
           Len(a) = Len(c), a \o b = c \o d
    PROVE  a = c /\ b = d
  <1>1. /\ Len(a) \in Nat /\ Len(b) \in Nat /\ Len(c) \in Nat /\ Len(d) \in Nat
    BY LenProperties
  <1>2. /\ Len(a \o b) = Len(a) + Len(b) /\ Len(c \o d) = Len(c) + Len(d)
    BY ConcatProperties
  <1>3. Len(b) = Len(d)
    BY <1>1, <1>2
  <1>4. /\ \A i \in 1 .. Len(a) + Len(b) : (a \o b)[i] =
                     IF i <= Len(a) THEN a[i] ELSE b[i - Len(a)]
        /\ \A i \in 1 .. Len(c) + Len(d) : (c \o d)[i] =
                     IF i <= Len(c) THEN c[i] ELSE d[i - Len(c)]
    BY ConcatProperties
  <1>5. \A i \in 1 .. Len(a) : a[i] = c[i]
    BY <1>1, <1>3, <1>4
  <1>6. ASSUME NEW i \in 1 .. Len(b) PROVE b[i] = d[i]
    <2>1. i + Len(a) \in 1 .. Len(a) + Len(b) /\ ~(i + Len(a) <= Len(a))
          /\ (i + Len(a)) - Len(a) = i
      BY <1>1
    <2>. QED  BY <1>3, <1>4, <2>1
  <1>7. a = c
    BY <1>5, SeqEqual
  <1>8. b = d
    BY <1>3, <1>6, SeqEqual
  <1>. QED  BY <1>7, <1>8

LEMMA Split ==
    ASSUME NEW S, NEW x \in S,
           NEW a \in Seq(S), NEW b \in Seq(S), NEW c \in Seq(S), NEW d \in Seq(S),
           Free(a, x), Free(c, x), a \o <<x>> \o b = c \o <<x>> \o d
    PROVE  a = c /\ b = d
  <1>1. Len(a) \in Nat /\ Len(c) \in Nat
    BY LenProperties
  <1>2. Len(a) = Len(c)
    <2>1. Len(c) <= Len(a)
      BY SplitLength
    <2>2. Len(a) <= Len(c)
      BY SplitLength
    <2>. QED  BY <1>1, <2>1, <2>2
  <1>3. <<x>> \in Seq(S) /\ Len(<<x>>) = 1
    OBVIOUS
  <1>4. /\ a \o <<x>> \in Seq(S) /\ Len(a \o <<x>>) = Len(a) + 1
        /\ c \o <<x>> \in Seq(S) /\ Len(c \o <<x>>) = Len(c) + 1
    BY <1>3, ConcatProperties
  <1>5. a \o <<x>> = c \o <<x>> /\ b = d
    BY <1>2, <1>4, SplitAt
  <1>6. a = c
    BY <1>2, <1>3, <1>5, SplitAt
  <1>. QED  BY <1>5, <1>6

-----------------------------------------------------------------------------
(* The fingerprint *)

(* A sequence of bounded length is a sequence. *)
LEMMA Bounded ==
    ASSUME NEW S, NEW n \in Nat, NEW s \in BoundedSeq(S, n)
    PROVE  s \in Seq(S) /\ Len(s) \in 0 .. n
  <1>1. PICK m \in 0 .. n : s \in [1 .. m -> S]
    BY DEF BoundedSeq, SeqOf
  <1>2. s \in Seq(S)
    BY <1>1, SeqDef
  <1>. QED  BY <1>1, <1>2, LenProperties

(* Concatenation, for steps that need no more of it than the two facts     *)
(* below.                                                                  *)
Cat(a, b) == a \o b

LEMMA CatSeq ==
    ASSUME NEW S, NEW a \in Seq(S), NEW b \in Seq(S)
    PROVE  Cat(a, b) \in Seq(S)
  BY ConcatProperties DEF Cat

LEMMA CatAssociative ==
    ASSUME NEW S, NEW a \in Seq(S), NEW b \in Seq(S), NEW c \in Seq(S)
    PROVE  Cat(Cat(a, b), c) = Cat(a, Cat(b, c))
  BY ConcatAssociative DEF Cat

(* How the preimage is put together does not matter. *)
LEMMA Regroup ==
    ASSUME NEW S, NEW h \in Seq(S), NEW p \in Seq(S), NEW u \in Seq(S), NEW q \in Seq(S),
           NEW f \in Seq(S), NEW b \in Seq(S)
    PROVE  /\ Cat(Cat(Cat(Cat(Cat(h, p), u), q), f), b)
                = Cat(h, Cat(Cat(p, u), Cat(Cat(q, f), b)))
           /\ Cat(Cat(p, u), Cat(Cat(q, f), b)) \in Seq(S)
           /\ Cat(Cat(q, f), b) \in Seq(S)
  <1>1. PICK v, x : v = Cat(p, u) /\ x = Cat(q, f)
    OBVIOUS
  <1>2. PICK y, z : y = Cat(h, v) /\ z = Cat(x, b)
    OBVIOUS
  <1>3. v \in Seq(S) /\ x \in Seq(S)
    BY <1>1, CatSeq
  <1>4. y \in Seq(S) /\ z \in Seq(S) /\ Cat(v, z) \in Seq(S)
    BY <1>2, <1>3, CatSeq
  <1>5. Cat(Cat(h, p), u) = y
    BY <1>1, <1>2, CatAssociative
  <1>6. Cat(Cat(y, q), f) = Cat(y, x)
    BY <1>1, <1>4, CatAssociative
  <1>7. Cat(Cat(y, x), b) = Cat(y, z)
    BY <1>2, <1>3, <1>4, CatAssociative
  <1>8. Cat(y, z) = Cat(h, Cat(v, z))
    BY <1>2, <1>3, <1>4, CatAssociative
  <1>. QED  BY <1>1, <1>2, <1>4, <1>5, <1>6, <1>7, <1>8

(* The preimage of a request whose path is p, and so on. *)
preimage(m, p, q, b, lf, qm) ==
    Cat(Cat(Cat(Cat(Cat(<<m, lf>>, p), <<qm>>), q), <<lf>>), b)

afterPath(q, b, lf) == Cat(Cat(q, <<lf>>), b)

afterMethod(p, z, qm) == Cat(Cat(p, <<qm>>), z)

LEMMA Preimage ==
    ASSUME NEW S, NEW lf \in S, NEW qm \in S, NEW m \in S,
           NEW p \in Seq(S), NEW q \in Seq(S), NEW b \in Seq(S)
    PROVE  /\ preimage(m, p, q, b, lf, qm)
                = Cat(<<m, lf>>, afterMethod(p, afterPath(q, b, lf), qm))
           /\ afterPath(q, b, lf) \in Seq(S)
           /\ afterMethod(p, afterPath(q, b, lf), qm) \in Seq(S)
  <1>1. PICK u, f, h : u = <<qm>> /\ f = <<lf>> /\ h = <<m, lf>>
    OBVIOUS
  <1>2. u \in Seq(S) /\ f \in Seq(S) /\ h \in Seq(S)
    BY <1>1
  <1>3. /\ Cat(Cat(Cat(Cat(Cat(h, p), u), q), f), b)
             = Cat(h, Cat(Cat(p, u), Cat(Cat(q, f), b)))
        /\ Cat(Cat(p, u), Cat(Cat(q, f), b)) \in Seq(S)
        /\ Cat(Cat(q, f), b) \in Seq(S)
    BY <1>2, Regroup
  <1>. QED  BY <1>1, <1>3 DEF preimage, afterPath, afterMethod

(* Two preimages are the same only when their parts are: an escaped path   *)
(* ends at the first "?", a raw query at the first line feed.              *)
Separable(S, m, p, q, b, lf, qm) ==
    /\ lf \in S /\ qm \in S /\ m \in S
    /\ p \in Seq(S) /\ q \in Seq(S) /\ b \in Seq(S)
    /\ Free(p, qm) /\ Free(q, lf)

LEMMA PartsTold ==
    ASSUME NEW S, NEW lf, NEW qm, NEW m1, NEW p1, NEW q1, NEW b1,
           NEW m2, NEW p2, NEW q2, NEW b2,
           Separable(S, m1, p1, q1, b1, lf, qm), Separable(S, m2, p2, q2, b2, lf, qm),
           preimage(m1, p1, q1, b1, lf, qm) = preimage(m2, p2, q2, b2, lf, qm)
    PROVE  m1 = m2 /\ p1 = p2 /\ q1 = q2 /\ b1 = b2
  <1> USE DEF Separable
  <1>1. PICK z1, z2 : z1 = afterPath(q1, b1, lf) /\ z2 = afterPath(q2, b2, lf)
    OBVIOUS
  <1>2. PICK r1, r2 : r1 = afterMethod(p1, z1, qm) /\ r2 = afterMethod(p2, z2, qm)
    OBVIOUS
  <1>3. /\ preimage(m1, p1, q1, b1, lf, qm) = Cat(<<m1, lf>>, r1)
        /\ z1 \in Seq(S) /\ r1 \in Seq(S)
    BY <1>1, <1>2, Preimage
  <1>4. /\ preimage(m2, p2, q2, b2, lf, qm) = Cat(<<m2, lf>>, r2)
        /\ z2 \in Seq(S) /\ r2 \in Seq(S)
    BY <1>1, <1>2, Preimage
  <1>5. <<m1, lf>> = <<m2, lf>> /\ r1 = r2
    <2>1. PICK h1, h2 : h1 = <<m1, lf>> /\ h2 = <<m2, lf>>
      OBVIOUS
    <2>2. h1 \in Seq(S) /\ h2 \in Seq(S) /\ Len(h1) = Len(h2)
      BY <2>1
    <2>3. h1 \o r1 = h2 \o r2
      BY <1>3, <1>4, <2>1 DEF Cat
    <2>4. h1 = h2 /\ r1 = r2
      BY <1>3, <1>4, <2>2, <2>3, SplitAt
    <2>. QED  BY <2>1, <2>4
  <1>6. m1 = m2
    BY <1>5
  <1>7. p1 = p2 /\ z1 = z2
    <2>1. p1 \o <<qm>> \o z1 = p2 \o <<qm>> \o z2
      BY <1>2, <1>5, Zenon DEF afterMethod, Cat
    <2>. QED  BY <1>3, <1>4, <2>1, Split
  <1>8. q1 = q2 /\ b1 = b2
    <2>1. q1 \o <<lf>> \o b1 = q2 \o <<lf>> \o b2
      BY <1>1, <1>7, Zenon DEF afterPath, Cat
    <2>. QED  BY <2>1, Split
  <1>. QED  BY <1>6, <1>7, <1>8

Symbol == Method \cup {"a", "?", "LF"}

(* The parts of a request are sequences that do not hold what ends them. *)
LEMMA RequestParts ==
    ASSUME NEW r \in Request
    PROVE  /\ ToUpper(r.method) \in Symbol
           /\ r.path \in Seq(Symbol) /\ r.query \in Seq(Symbol) /\ r.body \in Seq(Symbol)
           /\ Free(r.path, "?") /\ Free(r.path, "LF") /\ Free(r.query, "LF")
  <1>1. /\ r.method \in Method /\ r.path \in Path
        /\ r.query \in BoundedSeq({"a", "?"}, MaxPart)
        /\ r.body \in BoundedSeq({"a", "?", "LF"}, MaxPart)
    BY DEF Request, Query, Body
  <1>2. ToUpper(r.method) \in Symbol
    BY <1>1 DEF ToUpper, Method, Symbol
  <1>3. r.query \in Seq({"a", "?"}) /\ r.body \in Seq({"a", "?", "LF"})
    BY <1>1, Bounded, KeyAssumption
  <1>4. r.query \in Seq(Symbol) /\ r.body \in Seq(Symbol)
    BY <1>3, SeqMonotonic DEF Symbol
  <1>5. Free(r.query, "LF")
    <2>1. \A i \in 1 .. Len(r.query) : r.query[i] \in {"a", "?"}
      BY <1>3, ElementOfSeq
    <2>. QED  BY <2>1 DEF Free
  <1>6. r.path \in Seq(Symbol) /\ Free(r.path, "?") /\ Free(r.path, "LF")
    <2>1. r.path = <<>> \/ r.path = <<"a">>
      BY <1>1 DEF Path
    <2>2. CASE r.path = <<>>
      BY <2>2 DEF Free
    <2>3. CASE r.path = <<"a">>
      <3>1. "a" \in Symbol
        BY DEF Symbol
      <3>2. r.path \in Seq(Symbol)
        BY <2>3, <3>1
      <3>3. Len(r.path) = 1 /\ r.path[1] = "a"
        BY <2>3
      <3>4. \A i \in 1 .. Len(r.path) : r.path[i] = "a"
        BY <3>3
      <3>. QED  BY <3>2, <3>4 DEF Free
    <2>. QED  BY <2>1, <2>2, <2>3
  <1>. QED  BY <1>2, <1>4, <1>5, <1>6

(* What is fingerprinted tells any two requests apart. *)
LEMMA RequestsTold ==
    ASSUME NEW r \in Request, NEW q \in Request
    PROVE  /\ Fingerprint(r) = Fingerprint(q) =>
                 /\ ToUpper(r.method) = ToUpper(q.method)
                 /\ r.path = q.path /\ r.query = q.query /\ r.body = q.body
           /\ grpcFingerprint(r.path, r.body) = grpcFingerprint(q.path, q.body) =>
                 r.path = q.path /\ r.body = q.body
  <1>1. /\ ToUpper(r.method) \in Symbol
        /\ r.path \in Seq(Symbol) /\ r.query \in Seq(Symbol) /\ r.body \in Seq(Symbol)
        /\ Free(r.path, "?") /\ Free(r.path, "LF") /\ Free(r.query, "LF")
    BY RequestParts
  <1>2. /\ ToUpper(q.method) \in Symbol
        /\ q.path \in Seq(Symbol) /\ q.query \in Seq(Symbol) /\ q.body \in Seq(Symbol)
        /\ Free(q.path, "?") /\ Free(q.path, "LF") /\ Free(q.query, "LF")
    BY RequestParts
  <1>3. "LF" \in Symbol /\ "?" \in Symbol
    BY DEF Symbol
  <1>4. ASSUME NEW x \in Request
        PROVE  Fingerprint(x)
                 = preimage(ToUpper(x.method), x.path, x.query, x.body, "LF", "?")
    BY Zenon DEF Fingerprint, preimage, Cat
  <1>5. ASSUME Fingerprint(r) = Fingerprint(q)
        PROVE  /\ ToUpper(r.method) = ToUpper(q.method)
               /\ r.path = q.path /\ r.query = q.query /\ r.body = q.body
    <2>1. preimage(ToUpper(r.method), r.path, r.query, r.body, "LF", "?")
            = preimage(ToUpper(q.method), q.path, q.query, q.body, "LF", "?")
      BY <1>4, <1>5
    <2>2. /\ Separable(Symbol, ToUpper(r.method), r.path, r.query, r.body, "LF", "?")
          /\ Separable(Symbol, ToUpper(q.method), q.path, q.query, q.body, "LF", "?")
      BY <1>1, <1>2, <1>3 DEF Separable
    <2>. QED  BY <2>1, <2>2, PartsTold
  <1>6. ASSUME grpcFingerprint(r.path, r.body) = grpcFingerprint(q.path, q.body)
        PROVE  r.path = q.path /\ r.body = q.body
    <2>1. r.path \o <<"LF">> \o r.body = q.path \o <<"LF">> \o q.body
      BY <1>6 DEF grpcFingerprint
    <2>. QED  BY <1>1, <1>2, <1>3, <2>1, Split, ZenonT(30)
  <1>. QED  BY <1>5, <1>6

-----------------------------------------------------------------------------
(* The bytes of a key *)

(* A value without blanks around it is a part of it. *)
LEMMA TrimSeq ==
    ASSUME NEW v \in Seq(Byte)
    PROVE  Trim(v) \in Seq(Byte)
  <1> DEFINE text == {i \in DOMAIN v : v[i] \notin OWS}
  <1>1. Len(v) \in Nat /\ DOMAIN v = 1 .. Len(v) /\ v \in [1 .. Len(v) -> Byte]
    BY LenProperties
  <1>2. CASE text = {}
    BY <1>2 DEF Trim
  <1>3. CASE text # {}
    <2>1. text \in SUBSET Nat /\ text \in SUBSET (0 .. Len(v)) /\ text \in SUBSET (1 .. Len(v))
      BY <1>1
    <2> HIDE DEF text
    <2>2. Min(text) \in text
      BY <1>3, <2>1, Least DEF Min
    <2>3. Max(text) \in text
      <3>1. \E m \in text : \A k \in text : k <= m
        BY <1>1, <1>3, <2>1, Greatest
      <3>2. \E m \in text : \A k \in text : m >= k
        BY <2>1, <3>1
      <3>. QED  BY <3>2 DEF Max
    <2>4. PICK lo, hi : lo = Min(text) /\ hi = Max(text)
      OBVIOUS
    <2>5. lo \in 1 .. Len(v) /\ hi \in 1 .. Len(v)
      BY <2>1, <2>2, <2>3, <2>4
    <2>6. \A i \in lo .. hi : v[i] \in Byte
      BY <1>1, <2>5
    <2>7. SubSeq(v, lo, hi) \in Seq(Byte)
      BY <1>1, <2>5, <2>6, SubSeqProperties
    <2>8. Trim(v) = SubSeq(v, lo, hi)
      BY <1>3, <2>4 DEF Trim, text
    <2>. QED  BY <2>7, <2>8
  <1>. QED  BY <1>2, <1>3

(* f is what the loop does on the first n bytes. *)
SFUpTo(v, n, f) ==
    f = [i \in 1 .. n |->
            IF i = 1 THEN [mode |-> "open", key |-> <<>>] ELSE sfByte(f[i - 1], v[i])]

LEMMA SFExtends ==
    ASSUME NEW v, NEW n \in Nat, NEW f, SFUpTo(v, n, f)
    PROVE  \E h : SFUpTo(v, n + 1, h)
  <1> DEFINE next == IF n = 0 THEN [mode |-> "open", key |-> <<>>] ELSE sfByte(f[n], v[n + 1])
             h == [i \in 1 .. n + 1 |-> IF i = n + 1 THEN next ELSE f[i]]
  <1>1. \A i \in 1 .. n : f[i] = IF i = 1 THEN [mode |-> "open", key |-> <<>>]
                                 ELSE sfByte(f[i - 1], v[i])
    BY DEF SFUpTo
  <1>2. ASSUME NEW i \in 1 .. n + 1
        PROVE  h[i] = IF i = 1 THEN [mode |-> "open", key |-> <<>>] ELSE sfByte(h[i - 1], v[i])
    <2>1. CASE i = n + 1
      BY <2>1
    <2>2. CASE i # n + 1
      <3>1. i \in 1 .. n /\ (i # 1 => i - 1 \in 1 .. n /\ i - 1 # n + 1)
        BY <2>2
      <3>. QED  BY <1>1, <3>1
    <2>. QED  BY <2>1, <2>2
  <1>3. SFUpTo(v, n + 1, h)
    <2>1. h = [i \in 1 .. n + 1 |-> h[i]]
      OBVIOUS
    <2> HIDE DEF h
    <2>. QED  BY <1>2, <2>1 DEF SFUpTo
  <1>. QED  BY <1>3

LEMMA SFExists ==
    ASSUME NEW v, NEW n \in Nat
    PROVE  \E f : SFUpTo(v, n, f)
  <1> DEFINE T == {k \in Nat : ~\E f : SFUpTo(v, k, f)}
  <1>1. SUFFICES ASSUME T # {} PROVE FALSE
    OBVIOUS
  <1>2. PICK m \in T : \A k \in T : m <= k
    BY <1>1, Least
  <1>3. m # 0
    <2>1. SFUpTo(v, 0, [i \in 1 .. 0 |-> i])
      BY DEF SFUpTo
    <2>. QED  BY <2>1
  <1>4. m - 1 \in Nat /\ m - 1 \notin T
    BY <1>2, <1>3
  <1>5. PICK f : SFUpTo(v, m - 1, f)
    BY <1>4
  <1>6. \E h : SFUpTo(v, m - 1 + 1, h)
    BY <1>4, <1>5, SFExtends
  <1>. QED  BY <1>2, <1>6

LEMMA SFUnfold ==
    ASSUME NEW v \in Seq(Byte)
    PROVE  SFUpTo(v, Len(v), sfStates(v))
  <1>1. PICK f : SFUpTo(v, Len(v), f)
    BY SFExists, LenProperties
  <1>. QED  BY <1>1 DEF SFUpTo, sfStates

(* A byte is kept only if it is printable. *)
LEMMA SFByteKeeps ==
    ASSUME NEW t, t.key \in Seq(Printable), NEW b
    PROVE  sfByte(t, b).key \in Seq(Printable)
  <1>1. <<>> \in Seq(Printable)
    OBVIOUS
  <1>2. \A c \in Printable : Append(t.key, c) \in Seq(Printable)
    OBVIOUS
  <1>3. "DQ" \in Printable /\ "BS" \in Printable
    BY DEF Printable
  <1>4. CASE t.mode \in {"bad", "closed"}
    BY <1>1, <1>4 DEF sfByte
  <1>5. CASE t.mode = "escaped"
    <2>1. CASE b \in {"DQ", "BS"}
      <3>1. sfByte(t, b) = [mode |-> "open", key |-> Append(t.key, b)]
        BY <1>5, <2>1 DEF sfByte
      <3>. QED  BY <1>2, <1>3, <2>1, <3>1
    <2>2. CASE b \notin {"DQ", "BS"}
      <3>1. sfByte(t, b) = [mode |-> "bad", key |-> <<>>]
        BY <1>5, <2>2 DEF sfByte
      <3>. QED  BY <1>1, <3>1
    <2>. QED  BY <2>1, <2>2
  <1>6. CASE t.mode \notin {"bad", "closed", "escaped"}
    <2>1. sfByte(t, b) = CASE b = "BS" -> [mode |-> "escaped", key |-> t.key]
                           [] b = "DQ" -> [mode |-> "closed", key |-> t.key]
                           [] b \notin Printable -> [mode |-> "bad", key |-> <<>>]
                           [] OTHER -> [mode |-> "open", key |-> Append(t.key, b)]
      BY <1>6 DEF sfByte
    <2>2. CASE b = "BS"
      BY <2>1, <2>2
    <2>3. CASE b = "DQ"
      BY <2>1, <2>3
    <2>4. CASE b \notin Printable
      <3>1. b # "BS" /\ b # "DQ"
        BY <1>3, <2>4
      <3>2. sfByte(t, b) = [mode |-> "bad", key |-> <<>>]
        BY <2>1, <2>4, <3>1
      <3>. QED  BY <1>1, <3>2
    <2>5. CASE b \in Printable /\ b # "BS" /\ b # "DQ"
      <3>1. sfByte(t, b) = [mode |-> "open", key |-> Append(t.key, b)]
        BY <2>1, <2>5
      <3>2. sfByte(t, b).key = Append(t.key, b)
        BY <3>1
      <3>. QED  BY <1>2, <2>5, <3>2
    <2>. QED  BY <2>2, <2>3, <2>4, <2>5
  <1>. QED  BY <1>4, <1>5, <1>6

(* So whatever the loop has read of a String is printable. *)
LEMMA SFPrintable ==
    ASSUME NEW v \in Seq(Byte), NEW n \in 1 .. Len(v)
    PROVE  sfStates(v)[n].key \in Seq(Printable)
  <1> DEFINE f == sfStates(v)
             T == {k \in Nat : k \in 1 .. Len(v) /\ f[k].key \notin Seq(Printable)}
  <1>1. Len(v) \in Nat
    BY LenProperties
  <1>2. \A i \in 1 .. Len(v) : f[i] = IF i = 1 THEN [mode |-> "open", key |-> <<>>]
                                      ELSE sfByte(f[i - 1], v[i])
    BY SFUnfold DEF SFUpTo
  <1>3. SUFFICES ASSUME T # {} PROVE FALSE
    BY <1>1
  <1>4. PICK m \in T : \A k \in T : m <= k
    BY <1>3, Least
  <1> HIDE DEF f
  <1>5. m # 1
    <2>1. SUFFICES ASSUME m = 1 PROVE FALSE
      OBVIOUS
    <2>2. f[1] = [mode |-> "open", key |-> <<>>]
      BY <1>2, <1>4, <2>1
    <2>3. f[1].key = <<>>
      BY <2>2
    <2>4. f[1].key \in Seq(Printable)
      BY <2>3, EmptySeq
    <2>. QED  BY <1>4, <2>1, <2>4
  <1>6. m - 1 \in 1 .. Len(v) /\ m - 1 \in Nat /\ m - 1 < m
    BY <1>1, <1>4, <1>5
  <1>7. f[m - 1].key \in Seq(Printable)
    BY <1>4, <1>6
  <1>8. f[m] = sfByte(f[m - 1], v[m])
    BY <1>2, <1>4, <1>5
  <1>. QED  BY <1>4, <1>7, <1>8, SFByteKeeps

(* A key that is accepted, in either form and over either transport, is    *)
(* not empty and holds no control character, the separator among them.     *)
GoodKey(k) == k \in Seq(Byte) /\ k # <<>> /\ Free(k, "NUL")

LEMMA RawGood ==
    ASSUME NEW v \in Seq(Byte), Control \cap ToSet(v) = {}
    PROVE  Free(v, "NUL")
  <1>1. DOMAIN v = 1 .. Len(v)
    BY LenProperties
  <1>2. "NUL" \notin ToSet(v)
    BY DEF Control
  <1>. QED  BY <1>1, <1>2 DEF ToSet, Free

LEMMA ParsedGood ==
    ASSUME NEW value \in Seq(Byte), ParseKey(value).ok
    PROVE  GoodKey(ParseKey(value).key)
  <1> DEFINE v == Trim(value)
             parsed == IF v = <<>> THEN Invalid
                       ELSE IF v[1] = "DQ" THEN parseSFString(v) ELSE parseRaw(v)
  <1>1. v \in Seq(Byte)
    BY TrimSeq
  <1>2. ~Invalid.ok
    BY DEF Invalid
  <1>3. parsed.ok /\ Len(parsed.key) \in 1 .. MaxKey /\ ParseKey(value) = parsed
    BY <1>2 DEF ParseKey
  <1>4. v # <<>>
    BY <1>2, <1>3
  <1>5. Len(v) \in 1 .. Len(v)
    BY <1>1, <1>4, EmptySeq
  <1> HIDE DEF v
  <1>6. CASE v[1] = "DQ"
    <2>1. parsed = parseSFString(v)
      BY <1>4, <1>6
    <2>2. parseSFString(v) = Valid(sfStates(v)[Len(v)].key)
      BY <1>2, <1>3, <2>1 DEF parseSFString
    <2>3. parsed.key = sfStates(v)[Len(v)].key
      BY <2>1, <2>2 DEF Valid
    <2>4. parsed.key \in Seq(Printable)
      BY <1>1, <1>5, <2>3, SFPrintable
    <2>5. \A i \in 1 .. Len(parsed.key) : parsed.key[i] \in Printable
      BY <2>4, ElementOfSeq
    <2>6. parsed.key \in Seq(Byte)
      BY <2>4, SeqMonotonic DEF Printable, Byte
    <2>7. Free(parsed.key, "NUL")
      BY <2>5 DEF Printable, Free
    <2> HIDE DEF parsed
    <2>8. parsed.key # <<>>
      BY <1>3
    <2>. QED  BY <1>3, <2>6, <2>7, <2>8 DEF GoodKey
  <1>7. CASE v[1] # "DQ"
    <2>1. parsed = parseRaw(v)
      BY <1>4, <1>7
    <2>2. Control \cap ToSet(v) = {} /\ parseRaw(v) = Valid(v)
      BY <1>2, <1>3, <2>1 DEF parseRaw
    <2>3. parsed.key = v
      BY <2>1, <2>2 DEF Valid
    <2>. QED  BY <1>1, <1>3, <1>4, <2>2, <2>3, RawGood DEF GoodKey
  <1>. QED  BY <1>6, <1>7

LEMMA ValidatedGood ==
    ASSUME NEW k \in Seq(Byte), validateKey(k).ok
    PROVE  GoodKey(validateKey(k).key)
  <1>1. Len(k) \in 1 .. MaxKey /\ Control \cap ToSet(k) = {} /\ validateKey(k) = Valid(k)
    BY DEF validateKey, Invalid
  <1>2. validateKey(k).key = k
    BY <1>1 DEF Valid
  <1>3. k # <<>>
    BY <1>1
  <1>. QED  BY <1>1, <1>2, <1>3, RawGood DEF GoodKey

-----------------------------------------------------------------------------
(* The store key *)

(* The greatest of a set is the one that is no less than the others. *)
LEMMA MaxIs ==
    ASSUME NEW T \in SUBSET Nat, NEW m \in T, \A k \in T : k <= m
    PROVE  Max(T) = m
  <1>1. \E x \in T : \A y \in T : x >= y
    OBVIOUS
  <1>2. Max(T) \in T /\ \A y \in T : Max(T) >= y
    BY <1>1 DEF Max
  <1>3. PICK x : x = Max(T)
    OBVIOUS
  <1>4. x \in Nat /\ m \in Nat /\ x >= m /\ x <= m
    BY <1>2, <1>3
  <1>. QED  BY <1>3, <1>4

(* Scope and key can be read back from the store key: the key is what      *)
(* follows the last separator.                                             *)
LEMMA ReadBack ==
    ASSUME NEW s \in Seq(Byte), NEW k, GoodKey(k)
    PROVE  LET sk == storeKey(s, k)
               n  == LastNul(sk)
           IN  /\ SubSeq(sk, n + 1, Len(sk)) = k
               /\ SubSeq(sk, 1, n) = IF s = <<>> THEN <<>> ELSE Append(s, "NUL")
  <1> DEFINE sk == storeKey(s, k)
             T == {i \in DOMAIN sk : sk[i] = "NUL"}
             n == LastNul(sk)
  <1>1. k \in Seq(Byte) /\ Len(k) \in Nat /\ Len(s) \in Nat /\ DOMAIN k = 1 .. Len(k)
    BY LenProperties DEF GoodKey
  <1>2. n = IF T = {} THEN 0 ELSE Max(T)
    BY DEF LastNul
  <1>3. CASE s = <<>>
    <2>1. sk = k
      BY <1>3 DEF storeKey
    <2> HIDE DEF sk
    <2>2. T = {}
      BY <1>1, <2>1 DEF GoodKey, Free
    <2>3. n = 0
      BY <1>2, <2>2
    <2> HIDE DEF n
    <2>4. SubSeq(sk, 1, Len(sk)) = k
      BY <1>1, <2>1, SubSeqFull
    <2>5. SubSeq(sk, 1, 0) = <<>>
      BY SubSeqEmpty
    <2>. QED  BY <1>3, <2>3, <2>4, <2>5 DEF n, sk
  <1>4. CASE s # <<>>
    <2>1. PICK a : a = Append(s, "NUL")
      OBVIOUS
    <2>2. "NUL" \in Byte
      BY DEF Byte
    <2>3. /\ a \in Seq(Byte) /\ Len(a) = Len(s) + 1 /\ a[Len(s) + 1] = "NUL"
          /\ a = s \o <<"NUL">>
      BY <1>1, <2>1, <2>2
    <2>4. sk = a \o k
      BY <1>4, <2>3 DEF storeKey
    <2> HIDE DEF sk
    <2>5. /\ sk \in Seq(Byte) /\ Len(sk) = Len(a) + Len(k)
          /\ \A i \in 1 .. Len(a) + Len(k) :
                sk[i] = IF i <= Len(a) THEN a[i] ELSE k[i - Len(a)]
      BY <1>1, <2>3, <2>4, ConcatProperties
    <2>6. DOMAIN sk = 1 .. Len(a) + Len(k) /\ Len(a) \in Nat
      BY <1>1, <2>3, <2>5, LenProperties
    <2>7. Len(a) \in T
      BY <1>1, <2>3, <2>5, <2>6
    <2>8. ASSUME NEW i \in T PROVE i <= Len(a)
      <3>1. SUFFICES ASSUME i > Len(a) PROVE FALSE
        BY <2>6
      <3>2. i \in 1 .. Len(a) + Len(k) /\ sk[i] = "NUL"
        BY <2>6
      <3>3. i - Len(a) \in 1 .. Len(k) /\ ~(i <= Len(a))
        BY <1>1, <2>6, <3>1, <3>2
      <3>4. k[i - Len(a)] = "NUL"
        BY <2>5, <3>2, <3>3
      <3>. QED  BY <3>3, <3>4 DEF GoodKey, Free
    <2>9. T \in SUBSET Nat
      BY <2>6
    <2>10. n = Len(a)
      <3> HIDE DEF T
      <3>1. Max(T) = Len(a)
        BY <2>7, <2>8, <2>9, MaxIs
      <3>. QED  BY <1>2, <2>7, <3>1
    <2> HIDE DEF T, n
    <2>11. PICK x : x = SubSeq(sk, Len(a) + 1, Len(sk))
      OBVIOUS
    <2>12. PICK y : y = SubSeq(sk, 1, Len(a))
      OBVIOUS
    <2>13. \A i \in 1 .. Len(sk) : sk[i] \in Byte
      BY <2>5, ElementOfSeq
    <2>14. /\ x \in Seq(Byte) /\ Len(x) = Len(k)
           /\ \A i \in 1 .. Len(k) : x[i] = sk[Len(a) + i]
      <3>1. \A i \in Len(a) + 1 .. Len(sk) : sk[i] \in Byte
        BY <2>6, <2>13
      <3>2. /\ Len(a) + 1 \in Int /\ Len(sk) \in Int
            /\ Len(sk) - (Len(a) + 1) + 1 = Len(k)
        BY <1>1, <2>5, <2>6
      <3>3. /\ x \in Seq(Byte)
            /\ Len(x) = (IF Len(a) + 1 <= Len(sk) THEN Len(sk) - (Len(a) + 1) + 1 ELSE 0)
            /\ \A i \in 1 .. Len(sk) - (Len(a) + 1) + 1 : x[i] = sk[Len(a) + 1 + i - 1]
        BY <2>11, <3>1, <3>2, SubSeqProperties
      <3>4. Len(x) = Len(k)
        BY <1>1, <2>5, <2>6, <3>3
      <3>5. ASSUME NEW i \in 1 .. Len(k) PROVE x[i] = sk[Len(a) + i]
        <4>1. Len(a) + 1 + i - 1 = Len(a) + i
          BY <2>6
        <4>. QED  BY <3>2, <3>3, <4>1
      <3>. QED  BY <3>3, <3>4, <3>5
    <2>15. x = k
      <3>1. ASSUME NEW i \in 1 .. Len(k) PROVE x[i] = k[i]
        <4>1. Len(a) + i \in 1 .. Len(a) + Len(k) /\ ~(Len(a) + i <= Len(a))
              /\ Len(a) + i - Len(a) = i
          BY <1>1, <2>6
        <4>. QED  BY <2>5, <2>14, <4>1
      <3>. QED  BY <1>1, <2>14, <3>1, SeqEqual
    <2>16. /\ y \in Seq(Byte) /\ Len(y) = Len(a)
           /\ \A i \in 1 .. Len(a) : y[i] = sk[i]
      <3>1. \A i \in 1 .. Len(a) : sk[i] \in Byte
        BY <1>1, <2>5, <2>6, <2>13
      <3>2. /\ y \in Seq(Byte)
            /\ Len(y) = (IF 1 <= Len(a) THEN Len(a) - 1 + 1 ELSE 0)
            /\ \A i \in 1 .. Len(a) - 1 + 1 : y[i] = sk[1 + i - 1]
        BY <2>6, <2>12, <3>1, SubSeqProperties
      <3>. QED  BY <2>6, <3>2
    <2>17. y = a
      <3>1. ASSUME NEW i \in 1 .. Len(a) PROVE y[i] = a[i]
        <4>1. i \in 1 .. Len(a) + Len(k) /\ i <= Len(a)
          BY <1>1, <2>6
        <4>. QED  BY <2>5, <2>16, <4>1
      <3>. QED  BY <2>3, <2>16, <3>1, SeqEqual
    <2>. QED  BY <1>4, <2>1, <2>10, <2>11, <2>12, <2>15, <2>17 DEF n, sk
  <1>. QED  BY <1>3, <1>4

LEMMA ReadBackFrom ==
    ASSUME NEW s \in Seq(Byte), NEW k, GoodKey(k), NEW sk, sk = storeKey(s, k)
    PROVE  /\ SubSeq(sk, LastNul(sk) + 1, Len(sk)) = k
           /\ SubSeq(sk, 1, LastNul(sk)) = IF s = <<>> THEN <<>> ELSE Append(s, "NUL")
  BY ReadBack

(* Two keys that are accepted share a store key only if they and their     *)
(* scopes are the same, whatever bytes the scopes hold: no client reaches  *)
(* the records of another scope.                                           *)
THEOREM StoreKeysApart ==
    ASSUME NEW s1 \in Seq(Byte), NEW k1, GoodKey(k1),
           NEW s2 \in Seq(Byte), NEW k2, GoodKey(k2),
           storeKey(s1, k1) = storeKey(s2, k2)
    PROVE  s1 = s2 /\ k1 = k2
  <1>1. PICK sk : sk = storeKey(s1, k1)
    OBVIOUS
  <1>2. /\ SubSeq(sk, LastNul(sk) + 1, Len(sk)) = k1
        /\ SubSeq(sk, 1, LastNul(sk)) = IF s1 = <<>> THEN <<>> ELSE Append(s1, "NUL")
    BY <1>1, ReadBackFrom
  <1>3. /\ SubSeq(sk, LastNul(sk) + 1, Len(sk)) = k2
        /\ SubSeq(sk, 1, LastNul(sk)) = IF s2 = <<>> THEN <<>> ELSE Append(s2, "NUL")
    BY <1>1, ReadBackFrom
  <1>4. "NUL" \in Byte
    BY DEF Byte
  <1>5. /\ Append(s1, "NUL") # <<>> /\ Append(s2, "NUL") # <<>>
        /\ Append(s1, "NUL") = Append(s2, "NUL") => s1 = s2
    <2>1. /\ Append(s1, "NUL") = s1 \o <<"NUL">> /\ Append(s2, "NUL") = s2 \o <<"NUL">>
          /\ Len(Append(s1, "NUL")) = Len(s1) + 1 /\ Len(Append(s2, "NUL")) = Len(s2) + 1
      BY <1>4
    <2>2. Len(s1) \in Nat /\ Len(s2) \in Nat /\ Len(<<>>) = 0 /\ <<"NUL">> \in Seq(Byte)
      BY <1>4, LenProperties
    <2>3. ASSUME Append(s1, "NUL") = Append(s2, "NUL") PROVE s1 = s2
      <3>1. Len(s1) = Len(s2) /\ s1 \o <<"NUL">> = s2 \o <<"NUL">>
        BY <2>1, <2>2, <2>3, SMTT(30)
      <3>. QED  BY <2>2, <3>1, SplitAt
    <2>4. Append(s1, "NUL") # <<>> /\ Append(s2, "NUL") # <<>>
      BY <2>1, <2>2
    <2>. QED  BY <2>3, <2>4
  <1>. QED  BY <1>2, <1>3, <1>5

-----------------------------------------------------------------------------
(* How a key is serialized *)

(* A sequence is its last member after the others. *)
LEMMA LastByte ==
    ASSUME NEW S, NEW l \in Seq(S), NEW n \in Nat, n # 0, Len(l) = n
    PROVE  /\ SubSeq(l, 1, n - 1) \in Seq(S) /\ Len(SubSeq(l, 1, n - 1)) = n - 1
           /\ l[n] \in S /\ l = Append(SubSeq(l, 1, n - 1), l[n])
           /\ n # 1 => SubSeq(l, 1, n - 1)[1] = l[1]
  <1>1. \A i \in 1 .. n : l[i] \in S
    BY ElementOfSeq
  <1>2. PICK u : u = SubSeq(l, 1, n - 1)
    OBVIOUS
  <1>3. /\ u \in Seq(S) /\ Len(u) = (IF 1 <= n - 1 THEN n - 1 - 1 + 1 ELSE 0)
        /\ \A i \in 1 .. n - 1 - 1 + 1 : u[i] = l[1 + i - 1]
    <2>1. \A i \in 1 .. n - 1 : l[i] \in S
      BY <1>1
    <2>. QED  BY <1>2, <2>1, SubSeqProperties
  <1>4. Len(u) = n - 1 /\ \A i \in 1 .. n - 1 : u[i] = l[i]
    BY <1>3
  <1>5. l[n] \in S
    BY <1>1
  <1>6. PICK v : v = Append(u, l[n])
    OBVIOUS
  <1>7. /\ v \in Seq(S) /\ Len(v) = n /\ v[n] = l[n] /\ \A i \in 1 .. n - 1 : v[i] = u[i]
    BY <1>3, <1>4, <1>5, <1>6
  <1>8. \A i \in 1 .. n : v[i] = l[i]
    BY <1>4, <1>7
  <1>9. v = l
    BY <1>7, <1>8, SeqEqual
  <1>. QED  BY <1>2, <1>3, <1>4, <1>5, <1>6, <1>9

(* f is what FlattenSeq makes of the first n of the sequences in s. *)
FlatUpTo(s, n, f) == f = [i \in 1 .. n |-> IF i = 1 THEN s[i] ELSE f[i - 1] \o s[i]]

LEMMA FlatExtends ==
    ASSUME NEW s, NEW n \in Nat, NEW f, FlatUpTo(s, n, f)
    PROVE  \E h : FlatUpTo(s, n + 1, h)
  <1> DEFINE next == IF n = 0 THEN s[1] ELSE f[n] \o s[n + 1]
             h == [i \in 1 .. n + 1 |-> IF i = n + 1 THEN next ELSE f[i]]
  <1>1. \A i \in 1 .. n : f[i] = IF i = 1 THEN s[i] ELSE f[i - 1] \o s[i]
    BY DEF FlatUpTo
  <1>2. ASSUME NEW i \in 1 .. n + 1
        PROVE  h[i] = IF i = 1 THEN s[i] ELSE h[i - 1] \o s[i]
    <2>1. CASE i = n + 1
      BY <2>1
    <2>2. CASE i # n + 1
      <3>1. i \in 1 .. n /\ (i # 1 => i - 1 \in 1 .. n /\ i - 1 # n + 1)
        BY <2>2
      <3>. QED  BY <1>1, <3>1
    <2>. QED  BY <2>1, <2>2
  <1>3. FlatUpTo(s, n + 1, h)
    <2>1. h = [i \in 1 .. n + 1 |-> h[i]]
      OBVIOUS
    <2> HIDE DEF h
    <2>. QED  BY <1>2, <2>1 DEF FlatUpTo
  <1>. QED  BY <1>3

LEMMA FlatExists ==
    ASSUME NEW s, NEW n \in Nat
    PROVE  \E f : FlatUpTo(s, n, f)
  <1> DEFINE T == {k \in Nat : ~\E f : FlatUpTo(s, k, f)}
  <1>1. SUFFICES ASSUME T # {} PROVE FALSE
    OBVIOUS
  <1>2. PICK m \in T : \A k \in T : m <= k
    BY <1>1, Least
  <1>3. m # 0
    <2>1. FlatUpTo(s, 0, [i \in 1 .. 0 |-> i])
      BY DEF FlatUpTo
    <2>. QED  BY <2>1
  <1>4. m - 1 \in Nat /\ m - 1 \notin T
    BY <1>2, <1>3
  <1>5. PICK f : FlatUpTo(s, m - 1, f)
    BY <1>4
  <1>6. \E h : FlatUpTo(s, m - 1 + 1, h)
    BY <1>4, <1>5, FlatExtends
  <1>. QED  BY <1>2, <1>6

LEMMA FlatUnfold ==
    ASSUME NEW s, Len(s) \in Nat \ {0}
    PROVE  \E f : FlatUpTo(s, Len(s), f) /\ FlattenSeq(s) = f[Len(s)]
  <1> DEFINE F == CHOOSE f : f = [i \in 1 .. Len(s) |-> IF i = 1 THEN s[i] ELSE f[i - 1] \o s[i]]
  <1>1. PICK f : FlatUpTo(s, Len(s), f)
    BY FlatExists
  <1>2. FlatUpTo(s, Len(s), F)
    BY <1>1 DEF FlatUpTo
  <1>3. FlattenSeq(s) = F[Len(s)]
    BY DEF FlattenSeq
  <1>. QED  BY <1>2, <1>3

(* The first sequences decide about the first results. *)
LEMMA FlatPrefix ==
    ASSUME NEW s, NEW t, NEW n \in Nat, NEW m \in Nat, n <= m,
           NEW f, FlatUpTo(s, n, f), NEW h, FlatUpTo(t, m, h),
           \A i \in 1 .. n : s[i] = t[i]
    PROVE  \A i \in 1 .. n : f[i] = h[i]
  <1> DEFINE T == {k \in Nat : k \in 1 .. n /\ f[k] # h[k]}
  <1>1. \A i \in 1 .. n : f[i] = IF i = 1 THEN s[i] ELSE f[i - 1] \o s[i]
    BY DEF FlatUpTo
  <1>2. \A i \in 1 .. m : h[i] = IF i = 1 THEN t[i] ELSE h[i - 1] \o t[i]
    BY DEF FlatUpTo
  <1>3. SUFFICES ASSUME T # {} PROVE FALSE
    OBVIOUS
  <1>4. PICK k \in T : \A j \in T : k <= j
    BY <1>3, Least
  <1>5. k \in 1 .. n /\ k \in 1 .. m /\ s[k] = t[k]
    BY <1>4
  <1>6. k # 1
    BY <1>1, <1>2, <1>4, <1>5
  <1>7. k - 1 \in 1 .. n /\ f[k - 1] = h[k - 1]
    BY <1>4, <1>5, <1>6
  <1>. QED  BY <1>1, <1>2, <1>4, <1>5, <1>6, <1>7

(* The escaped bytes of a key, and the key with its opening quote. *)
escaped(k) == [i \in DOMAIN k |-> escape(k[i])]

opened(k) == <<"DQ">> \o FlattenSeq(escaped(k))

LEMMA EscapeSeq ==
    ASSUME NEW b \in Printable
    PROVE  escape(b) \in Seq(Byte)
  <1>1. b \in Byte /\ "BS" \in Byte
    BY DEF Printable, Byte
  <1>2. <<b>> \in Seq(Byte) /\ <<"BS", b>> \in Seq(Byte)
    BY <1>1
  <1>. QED  BY <1>2 DEF escape

LEMMA EscapedSeq ==
    ASSUME NEW k \in Seq(Printable)
    PROVE  /\ escaped(k) \in Seq(Seq(Byte)) /\ Len(escaped(k)) = Len(k) /\ Len(k) \in Nat
           /\ \A i \in 1 .. Len(k) : escaped(k)[i] = escape(k[i])
  <1>1. Len(k) \in Nat /\ DOMAIN k = 1 .. Len(k)
    BY LenProperties
  <1>3. \A i \in 1 .. Len(k) : escape(k[i]) \in Seq(Byte)
    BY EscapeSeq, ElementOfSeq
  <1>4. escaped(k) \in [1 .. Len(k) -> Seq(Byte)]
    BY <1>1, <1>3 DEF escaped
  <1>5. escaped(k) \in Seq(Seq(Byte))
    BY <1>1, <1>4, SeqDef
  <1>6. Len(escaped(k)) = Len(k)
    BY <1>1, <1>4, <1>5
  <1>. QED  BY <1>1, <1>5, <1>6 DEF escaped

(* One more byte of the key is one escaped byte more. *)
LEMMA FlatAppend ==
    ASSUME NEW k \in Seq(Printable), NEW b \in Printable
    PROVE  FlattenSeq(escaped(Append(k, b))) = FlattenSeq(escaped(k)) \o escape(b)
  <1>1. PICK l : l = Append(k, b)
    OBVIOUS
  <1>2. /\ l \in Seq(Printable) /\ Len(l) = Len(k) + 1 /\ Len(k) \in Nat
        /\ l[Len(k) + 1] = b /\ \A i \in 1 .. Len(k) : l[i] = k[i]
    BY <1>1
  <1>3. PICK s, t : s = escaped(k) /\ t = escaped(l)
    OBVIOUS
  <1>4. Len(s) = Len(k) /\ \A i \in 1 .. Len(k) : s[i] = escape(k[i])
    BY <1>3, EscapedSeq
  <1>5. Len(t) = Len(k) + 1 /\ \A i \in 1 .. Len(k) + 1 : t[i] = escape(l[i])
    BY <1>2, <1>3, EscapedSeq
  <1>6. PICK h : FlatUpTo(t, Len(t), h) /\ FlattenSeq(t) = h[Len(t)]
    BY <1>2, <1>5, FlatUnfold
  <1>7. \A i \in 1 .. Len(t) : h[i] = IF i = 1 THEN t[i] ELSE h[i - 1] \o t[i]
    BY <1>6 DEF FlatUpTo
  <1>8. t[Len(k) + 1] = escape(b)
    BY <1>2, <1>5
  <1>9. CASE Len(k) = 0
    <2>1. FlattenSeq(s) = s /\ s = <<>>
      BY <1>3, <1>4, <1>9, EscapedSeq, EmptySeq DEF FlattenSeq
    <2>2. FlattenSeq(t) = escape(b)
      BY <1>5, <1>6, <1>7, <1>8, <1>9
    <2>3. escape(b) \in Seq(Byte)
      BY EscapeSeq
    <2>4. <<>> \o escape(b) = escape(b)
      BY <2>3, ConcatEmptySeq
    <2>. QED  BY <1>1, <1>3, <2>1, <2>2, <2>4
  <1>10. CASE Len(k) # 0
    <2>1. PICK f : FlatUpTo(s, Len(s), f) /\ FlattenSeq(s) = f[Len(s)]
      BY <1>2, <1>4, <1>10, FlatUnfold
    <2>2. \A i \in 1 .. Len(s) : s[i] = t[i]
      BY <1>2, <1>4, <1>5
    <2>3. f[Len(k)] = h[Len(k)]
      <3>1. Len(s) \in Nat /\ Len(t) \in Nat /\ Len(s) <= Len(t) /\ Len(k) \in 1 .. Len(s)
        BY <1>2, <1>4, <1>5, <1>10
      <3>2. \A i \in 1 .. Len(s) : f[i] = h[i]
        BY <1>6, <2>1, <2>2, <3>1, FlatPrefix
      <3>. QED  BY <3>1, <3>2
    <2>4. h[Len(k) + 1] = h[Len(k)] \o t[Len(k) + 1]
      <3>1. PICK n : n = Len(k) + 1
        OBVIOUS
      <3>2. n \in 1 .. Len(t) /\ n # 1 /\ n - 1 = Len(k)
        BY <1>2, <1>5, <1>10, <3>1
      <3>3. h[n] = h[n - 1] \o t[n]
        BY <1>7, <3>2
      <3>. QED  BY <3>1, <3>2, <3>3
    <2>. QED  BY <1>1, <1>3, <1>4, <1>5, <1>6, <1>8, <2>1, <2>3, <2>4
  <1>. QED  BY <1>9, <1>10

LEMMA FlatTyped ==
    ASSUME NEW k \in Seq(Printable)
    PROVE  FlattenSeq(escaped(k)) \in Seq(Byte)
  <1> DEFINE T == {n \in Nat : \E l \in Seq(Printable) :
                      Len(l) = n /\ FlattenSeq(escaped(l)) \notin Seq(Byte)}
  <1>1. SUFFICES ASSUME T # {} PROVE FALSE
    BY LenProperties
  <1>2. PICK n \in T : \A m \in T : n <= m
    BY <1>1, Least
  <1>3. PICK l \in Seq(Printable) : Len(l) = n /\ FlattenSeq(escaped(l)) \notin Seq(Byte)
    BY <1>2
  <1>4. n # 0
    <2>1. SUFFICES ASSUME n = 0 PROVE FALSE
      OBVIOUS
    <2>2. escaped(l) \in Seq(Seq(Byte)) /\ Len(escaped(l)) = 0
      BY <1>3, <2>1, EscapedSeq
    <2>3. escaped(l) = <<>>
      BY <2>2, EmptySeq
    <2>4. FlattenSeq(escaped(l)) = escaped(l)
      BY <2>2 DEF FlattenSeq
    <2>. QED  BY <1>3, <2>3, <2>4, EmptySeq
  <1>5. PICK u, b : u = SubSeq(l, 1, n - 1) /\ b = l[n]
    OBVIOUS
  <1>6. u \in Seq(Printable) /\ Len(u) = n - 1 /\ b \in Printable /\ l = Append(u, b)
    BY <1>2, <1>3, <1>4, <1>5, LastByte
  <1>7. n - 1 \in Nat /\ n - 1 \notin T
    BY <1>2, <1>4
  <1>8. FlattenSeq(escaped(u)) \in Seq(Byte)
    BY <1>6, <1>7
  <1>9. FlattenSeq(escaped(l)) = FlattenSeq(escaped(u)) \o escape(b)
    BY <1>6, FlatAppend
  <1>10. escape(b) \in Seq(Byte)
    BY <1>6, EscapeSeq
  <1>. QED  BY <1>3, <1>8, <1>9, <1>10, ConcatProperties

(* The serialized key, a byte at a time. *)
LEMMA OpenedEmpty == opened(<<>>) = <<"DQ">>
  <1>1. <<>> \in Seq(Printable) /\ Len(<<>>) = 0
    BY EmptySeq
  <1>2. escaped(<<>>) \in Seq(Seq(Byte)) /\ Len(escaped(<<>>)) = 0
    BY <1>1, EscapedSeq
  <1>3. escaped(<<>>) = <<>> /\ FlattenSeq(escaped(<<>>)) = escaped(<<>>)
    BY <1>2, EmptySeq DEF FlattenSeq
  <1>4. "DQ" \in Byte
    BY DEF Byte
  <1>5. <<"DQ">> \in Seq(Byte)
    BY <1>4
  <1>6. <<"DQ">> \o <<>> = <<"DQ">>
    BY <1>5, ConcatEmptySeq
  <1>. QED  BY <1>3, <1>6 DEF opened

LEMMA OpenedSeq ==
    ASSUME NEW k \in Seq(Printable)
    PROVE  opened(k) \in Seq(Byte) /\ opened(k) # <<>> /\ opened(k)[1] = "DQ"
  <1>1. PICK x, y : x = <<"DQ">> /\ y = FlattenSeq(escaped(k))
    OBVIOUS
  <1>2. "DQ" \in Byte
    BY DEF Byte
  <1>3. x \in Seq(Byte) /\ y \in Seq(Byte) /\ Len(x) = 1 /\ x[1] = "DQ" /\ Len(y) \in Nat
    BY <1>1, <1>2, FlatTyped, LenProperties
  <1>4. opened(k) = x \o y
    BY <1>1 DEF opened
  <1>5. /\ x \o y \in Seq(Byte) /\ Len(x \o y) = 1 + Len(y) /\ (x \o y)[1] = x[1]
    <2>1. /\ x \o y \in Seq(Byte) /\ Len(x \o y) = Len(x) + Len(y)
          /\ \A i \in 1 .. Len(x) + Len(y) :
                (x \o y)[i] = IF i <= Len(x) THEN x[i] ELSE y[i - Len(x)]
      BY <1>3, ConcatProperties
    <2>2. 1 \in 1 .. Len(x) + Len(y) /\ 1 <= Len(x)
      BY <1>3
    <2>. QED  BY <1>3, <2>1, <2>2
  <1>6. x \o y # <<>>
    BY <1>3, <1>5
  <1>. QED  BY <1>3, <1>4, <1>5, <1>6

LEMMA ConcatAppend ==
    ASSUME NEW S, NEW x \in Seq(S), NEW y \in Seq(S), NEW b \in S
    PROVE  x \o y \o <<b>> = Append(x \o y, b) /\ x \o (y \o <<b>>) = Append(x \o y, b)
  <1>1. x \o y \in Seq(S) /\ <<b>> \in Seq(S)
    BY ConcatProperties
  <1>2. (x \o y) \o <<b>> = Append(x \o y, b)
    BY <1>1
  <1>3. (x \o y) \o <<b>> = x \o (y \o <<b>>)
    BY <1>1, ConcatAssociative
  <1>. QED  BY <1>2, <1>3

(* A serialized key is the opened one and the closing quote, and one more  *)
(* byte of the key makes it one escaped byte longer.                       *)
LEMMA SerializeIs ==
    ASSUME NEW k \in Seq(Printable)
    PROVE  serialize(k) = Append(opened(k), "DQ")
  <1>1. PICK x, y : x = <<"DQ">> /\ y = FlattenSeq(escaped(k))
    OBVIOUS
  <1>2. "DQ" \in Byte
    BY DEF Byte
  <1>3. x \in Seq(Byte) /\ y \in Seq(Byte)
    BY <1>1, <1>2, FlatTyped
  <1>4. x \o y \o <<"DQ">> = Append(x \o y, "DQ")
    BY <1>2, <1>3, ConcatAppend
  <1>. QED  BY <1>1, <1>4 DEF serialize, opened, escaped

LEMMA OpenedAppend ==
    ASSUME NEW k \in Seq(Printable), NEW b \in Printable
    PROVE  opened(Append(k, b)) = IF b \in {"DQ", "BS"} THEN Append(Append(opened(k), "BS"), b)
                                  ELSE Append(opened(k), b)
  <1>1. PICK x, y, e : x = <<"DQ">> /\ y = FlattenSeq(escaped(k)) /\ e = escape(b)
    OBVIOUS
  <1>2. "DQ" \in Byte /\ "BS" \in Byte /\ b \in Byte
    BY DEF Byte, Printable
  <1>3. x \in Seq(Byte) /\ y \in Seq(Byte) /\ e \in Seq(Byte)
    BY <1>1, <1>2, FlatTyped, EscapeSeq
  <1>4. opened(Append(k, b)) = x \o (y \o e)
    BY <1>1, FlatAppend DEF opened
  <1>5. x \o (y \o e) = (x \o y) \o e
    BY <1>3, ConcatAssociative, SMTT(30)
  <1>6. PICK z : z = opened(k)
    OBVIOUS
  <1>7. z \in Seq(Byte) /\ z = x \o y
    BY <1>1, <1>6, OpenedSeq DEF opened
  <1>8. CASE b \in {"DQ", "BS"}
    <2>1. e = <<"BS", b>>
      BY <1>1, <1>8 DEF escape
    <2>2. <<"BS">> \in Seq(Byte) /\ <<b>> \in Seq(Byte) /\ <<"BS">> \o <<b>> = <<"BS", b>>
      <3>1. PICK c : c = <<"BS">>
        OBVIOUS
      <3>2. c \in Seq(Byte) /\ Len(c) = 1 /\ c[1] = "BS" /\ <<b>> \in Seq(Byte)
        BY <1>2, <3>1
      <3>3. PICK d, g : d = c \o <<b>> /\ g = <<"BS", b>>
        OBVIOUS
      <3>4. g \in Seq(Byte) /\ Len(g) = 2 /\ g[1] = "BS" /\ g[2] = b
        BY <1>2, <3>3
      <3>5. d = Append(c, b)
        BY <3>2, <3>3, AppendIsConcat
      <3>6. d \in Seq(Byte) /\ Len(d) = 2 /\ d[1] = "BS" /\ d[2] = b
        <4>1. /\ d \in Seq(Byte) /\ Len(d) = Len(c) + 1 /\ d[Len(c) + 1] = b
              /\ \A i \in 1 .. Len(c) : d[i] = c[i]
          <5>1. c \in Seq(Byte) /\ b \in Byte
            BY <1>2, <3>2
          <5>. QED  BY <3>5, <5>1, AppendProperties, ZenonT(30)
        <4>. QED  BY <3>2, <4>1
      <3>7. \A i \in 1 .. 2 : d[i] = g[i]
        BY <3>4, <3>6
      <3>8. d = g
        BY <3>4, <3>6, <3>7, SeqEqual
      <3>. QED  BY <3>1, <3>2, <3>3, <3>8
    <2>3. (z \o <<"BS">>) \o <<b>> = z \o (<<"BS">> \o <<b>>)
      BY <1>7, <2>2, ConcatAssociative
    <2>4. z \o <<"BS">> = Append(z, "BS") /\ Append(z, "BS") \in Seq(Byte)
      BY <1>2, <1>7
    <2>5. Append(z, "BS") \o <<b>> = Append(Append(z, "BS"), b)
      BY <1>2, <2>4
    <2>. QED  BY <1>4, <1>5, <1>6, <1>7, <1>8, <2>1, <2>2, <2>3, <2>4, <2>5
  <1>9. CASE b \notin {"DQ", "BS"}
    <2>1. e = <<b>>
      BY <1>1, <1>9 DEF escape
    <2>2. z \o <<b>> = Append(z, b)
      BY <1>2, <1>7
    <2>. QED  BY <1>4, <1>5, <1>6, <1>7, <1>9, <2>1, <2>2
  <1>. QED  BY <1>8, <1>9

-----------------------------------------------------------------------------
(* What parseSFString reads *)

(* The state of the loop when the value has been read. *)
after(v) == sfStates(v)[Len(v)]

(* A byte more is one more round of the loop. *)
LEMMA SFStep ==
    ASSUME NEW v \in Seq(Byte), v # <<>>, NEW b \in Byte
    PROVE  after(Append(v, b)) = sfByte(after(v), b)
  <1>1. PICK w : w = Append(v, b)
    OBVIOUS
  <1>2. PICK n : n = Len(v)
    OBVIOUS
  <1>3. /\ w \in Seq(Byte) /\ Len(w) = n + 1 /\ n \in Nat /\ n # 0
        /\ w[n + 1] = b /\ \A i \in 1 .. n : w[i] = v[i]
    BY <1>1, <1>2, EmptySeq
  <1>4. PICK f, h : f = sfStates(v) /\ h = sfStates(w)
    OBVIOUS
  <1>5. \A i \in 1 .. n : f[i] = IF i = 1 THEN [mode |-> "open", key |-> <<>>]
                                 ELSE sfByte(f[i - 1], v[i])
    BY <1>2, <1>4, SFUnfold DEF SFUpTo
  <1>6. \A i \in 1 .. n + 1 : h[i] = IF i = 1 THEN [mode |-> "open", key |-> <<>>]
                                     ELSE sfByte(h[i - 1], w[i])
    BY <1>3, <1>4, SFUnfold DEF SFUpTo
  <1>7. f[n] = h[n]
    <2> DEFINE T == {k \in Nat : k \in 1 .. n /\ f[k] # h[k]}
    <2>1. SUFFICES ASSUME T # {} PROVE FALSE
      BY <1>3
    <2>2. PICK k \in T : \A j \in T : k <= j
      BY <2>1, Least
    <2>3. k \in 1 .. n /\ k \in 1 .. n + 1 /\ w[k] = v[k]
      BY <1>3, <2>2
    <2>4. k # 1
      BY <1>5, <1>6, <2>2, <2>3
    <2>5. k - 1 \in 1 .. n /\ f[k - 1] = h[k - 1]
      BY <1>3, <2>2, <2>3, <2>4
    <2>. QED  BY <1>5, <1>6, <2>2, <2>3, <2>4, <2>5
  <1>8. h[n + 1] = sfByte(h[n], b)
    <2>1. PICK m : m = n + 1
      OBVIOUS
    <2>2. m \in 1 .. n + 1 /\ m # 1 /\ m - 1 = n
      BY <1>3, <2>1
    <2>3. h[m] = sfByte(h[m - 1], w[m])
      BY <1>6, <2>2
    <2>. QED  BY <1>3, <2>1, <2>2, <2>3
  <1>. QED  BY <1>1, <1>2, <1>3, <1>4, <1>7, <1>8 DEF after

LEMMA SFStart ==
    ASSUME NEW v \in Seq(Byte), Len(v) = 1
    PROVE  after(v) = [mode |-> "open", key |-> <<>>]
  <1>1. \A i \in 1 .. 1 : sfStates(v)[i] = IF i = 1 THEN [mode |-> "open", key |-> <<>>]
                                           ELSE sfByte(sfStates(v)[i - 1], v[i])
    BY SFUnfold DEF SFUpTo
  <1>. QED  BY <1>1 DEF after

(* One round, by the state it finds and the byte. *)
LEMMA SFByteIs ==
    ASSUME NEW t, NEW b
    PROVE  /\ t.mode \in {"bad", "closed"} => sfByte(t, b).mode = "bad"
           /\ t.mode = "escaped" /\ b \in {"DQ", "BS"} =>
                 sfByte(t, b) = [mode |-> "open", key |-> Append(t.key, b)]
           /\ t.mode = "escaped" /\ b \notin {"DQ", "BS"} => sfByte(t, b).mode = "bad"
           /\ t.mode = "open" /\ b = "BS" => sfByte(t, b) = [mode |-> "escaped", key |-> t.key]
           /\ t.mode = "open" /\ b = "DQ" => sfByte(t, b) = [mode |-> "closed", key |-> t.key]
           /\ t.mode = "open" /\ b \notin Printable => sfByte(t, b).mode = "bad"
           /\ t.mode = "open" /\ b \in Printable \ {"DQ", "BS"} =>
                 sfByte(t, b) = [mode |-> "open", key |-> Append(t.key, b)]
  <1>1. "DQ" \in Printable /\ "BS" \in Printable
    BY DEF Printable
  <1>2. t.mode \in {"bad", "closed"} => sfByte(t, b) = [mode |-> "bad", key |-> <<>>]
    BY DEF sfByte
  <1>3. t.mode = "escaped" => sfByte(t, b) = IF b \in {"DQ", "BS"}
                                             THEN [mode |-> "open", key |-> Append(t.key, b)]
                                             ELSE [mode |-> "bad", key |-> <<>>]
    BY DEF sfByte
  <1>4. t.mode = "open" =>
          sfByte(t, b) = CASE b = "BS" -> [mode |-> "escaped", key |-> t.key]
                           [] b = "DQ" -> [mode |-> "closed", key |-> t.key]
                           [] b \notin Printable -> [mode |-> "bad", key |-> <<>>]
                           [] OTHER -> [mode |-> "open", key |-> Append(t.key, b)]
    BY DEF sfByte
  <1>5. t.mode = "open" /\ b \notin Printable => sfByte(t, b) = [mode |-> "bad", key |-> <<>>]
    BY <1>1, <1>4
  <1>6. t.mode = "open" /\ b \in Printable \ {"DQ", "BS"} =>
          sfByte(t, b) = [mode |-> "open", key |-> Append(t.key, b)]
    BY <1>4
  <1>7. t.mode = "open" /\ b = "BS" => sfByte(t, b) = [mode |-> "escaped", key |-> t.key]
    BY <1>1, <1>4
  <1>8. t.mode = "open" /\ b = "DQ" => sfByte(t, b) = [mode |-> "closed", key |-> t.key]
    BY <1>1, <1>4
  <1>. QED  BY <1>2, <1>3, <1>5, <1>6, <1>7, <1>8

(* Every key can be sent: its serialization, without the closing quote, is *)
(* read as the key.                                                        *)
LEMMA SFOpened ==
    ASSUME NEW k \in Seq(Printable)
    PROVE  after(opened(k)) = [mode |-> "open", key |-> k]
  <1> DEFINE T == {n \in Nat : \E l \in Seq(Printable) :
                      Len(l) = n /\ after(opened(l)) # [mode |-> "open", key |-> l]}
  <1>1. SUFFICES ASSUME T # {} PROVE FALSE
    BY LenProperties
  <1>2. PICK n \in T : \A m \in T : n <= m
    BY <1>1, Least
  <1>3. PICK l \in Seq(Printable) :
            Len(l) = n /\ after(opened(l)) # [mode |-> "open", key |-> l]
    BY <1>2
  <1>4. "DQ" \in Byte /\ "BS" \in Byte /\ Printable \subseteq Byte
    BY DEF Byte, Printable
  <1>5. n # 0
    <2>1. SUFFICES ASSUME n = 0 PROVE FALSE
      OBVIOUS
    <2>2. l = <<>>
      BY <1>3, <2>1, EmptySeq
    <2>3. opened(l) = <<"DQ">> /\ <<"DQ">> \in Seq(Byte) /\ Len(<<"DQ">>) = 1
      BY <1>4, <2>2, OpenedEmpty
    <2>4. after(<<"DQ">>) = [mode |-> "open", key |-> <<>>]
      BY <2>3, SFStart
    <2>. QED  BY <1>3, <2>2, <2>3, <2>4
  <1>6. PICK u, b : u = SubSeq(l, 1, n - 1) /\ b = l[n]
    OBVIOUS
  <1>7. u \in Seq(Printable) /\ Len(u) = n - 1 /\ b \in Printable /\ l = Append(u, b)
    BY <1>2, <1>3, <1>5, <1>6, LastByte
  <1>8. n - 1 \in Nat /\ n - 1 \notin T
    BY <1>2, <1>5
  <1>9. PICK z, t : z = opened(u) /\ t = after(z)
    OBVIOUS
  <1>10. t = [mode |-> "open", key |-> u]
    BY <1>7, <1>8, <1>9
  <1>11. t.mode = "open" /\ t.key = u
    BY <1>10
  <1>12. z \in Seq(Byte) /\ z # <<>>
    BY <1>7, <1>9, OpenedSeq
  <1>13. CASE b \in {"DQ", "BS"}
    <2>1. opened(l) = Append(Append(z, "BS"), b)
      BY <1>7, <1>9, <1>13, OpenedAppend
    <2>2. PICK y : y = Append(z, "BS")
      OBVIOUS
    <2>3. y \in Seq(Byte) /\ y # <<>>
      BY <1>4, <1>12, <2>2
    <2>4. after(y) = sfByte(t, "BS")
      BY <1>4, <1>9, <1>12, <2>2, SFStep
    <2>5. after(y) = [mode |-> "escaped", key |-> u]
      BY <1>11, <2>4, SFByteIs
    <2>6. after(y).mode = "escaped" /\ after(y).key = u
      BY <2>5
    <2>7. after(opened(l)) = sfByte(after(y), b)
      BY <1>4, <1>7, <2>1, <2>2, <2>3, SFStep
    <2>8. sfByte(after(y), b) = [mode |-> "open", key |-> Append(u, b)]
      BY <1>13, <2>6, SFByteIs
    <2>. QED  BY <1>3, <1>7, <2>7, <2>8
  <1>14. CASE b \notin {"DQ", "BS"}
    <2>1. opened(l) = Append(z, b)
      BY <1>7, <1>9, <1>14, OpenedAppend
    <2>2. after(opened(l)) = sfByte(t, b)
      BY <1>4, <1>7, <1>9, <1>12, <2>1, SFStep
    <2>3. sfByte(t, b) = [mode |-> "open", key |-> Append(u, b)]
      BY <1>7, <1>11, <1>14, SFByteIs
    <2>. QED  BY <1>3, <1>7, <2>2, <2>3
  <1>. QED  BY <1>13, <1>14

(* No value is read as some other key: what has been read is what the key  *)
(* is serialized to.                                                       *)
Reads(v, t) ==
    /\ t.mode \in {"open", "escaped", "closed", "bad"}
    /\ t.mode = "open" => v = opened(t.key)
    /\ t.mode = "escaped" => v = Append(opened(t.key), "BS")
    /\ t.mode = "closed" => v = Append(opened(t.key), "DQ")

LEMMA ReadsStep ==
    ASSUME NEW u, NEW t, t.key \in Seq(Printable), Reads(u, t), NEW b \in Byte
    PROVE  Reads(Append(u, b), sfByte(t, b))
  <1>1. PICK r : r = sfByte(t, b)
    OBVIOUS
  <1>2. CASE t.mode \in {"bad", "closed"}
    <2>1. r.mode = "bad"
      BY <1>1, <1>2, SFByteIs
    <2>. QED  BY <1>1, <2>1 DEF Reads
  <1>3. CASE t.mode = "escaped"
    <2>1. CASE b \in {"DQ", "BS"}
      <3>1. r = [mode |-> "open", key |-> Append(t.key, b)]
        BY <1>1, <1>3, <2>1, SFByteIs
      <3>2. r.mode = "open" /\ r.key = Append(t.key, b)
        BY <3>1
      <3>3. b \in Printable
        BY <2>1 DEF Printable
      <3>4. opened(Append(t.key, b)) = Append(Append(opened(t.key), "BS"), b)
        BY <2>1, <3>3, OpenedAppend
      <3>5. u = Append(opened(t.key), "BS")
        BY <1>3 DEF Reads
      <3>. QED  BY <1>1, <3>2, <3>4, <3>5 DEF Reads
    <2>2. CASE b \notin {"DQ", "BS"}
      <3>1. r.mode = "bad"
        BY <1>1, <1>3, <2>2, SFByteIs
      <3>. QED  BY <1>1, <3>1 DEF Reads
    <2>. QED  BY <2>1, <2>2
  <1>4. CASE t.mode = "open"
    <2>1. u = opened(t.key)
      BY <1>4 DEF Reads
    <2>2. CASE b = "BS"
      <3>1. r = [mode |-> "escaped", key |-> t.key]
        BY <1>1, <1>4, <2>2, SFByteIs
      <3>2. r.mode = "escaped" /\ r.key = t.key
        BY <3>1
      <3>. QED  BY <1>1, <2>1, <2>2, <3>2 DEF Reads
    <2>3. CASE b = "DQ"
      <3>1. r = [mode |-> "closed", key |-> t.key]
        BY <1>1, <1>4, <2>3, SFByteIs
      <3>2. r.mode = "closed" /\ r.key = t.key
        BY <3>1
      <3>. QED  BY <1>1, <2>1, <2>3, <3>2 DEF Reads
    <2>4. CASE b \notin Printable
      <3>1. r.mode = "bad"
        BY <1>1, <1>4, <2>4, SFByteIs
      <3>. QED  BY <1>1, <3>1 DEF Reads
    <2>5. CASE b \in Printable \ {"DQ", "BS"}
      <3>1. r = [mode |-> "open", key |-> Append(t.key, b)]
        BY <1>1, <1>4, <2>5, SFByteIs
      <3>2. r.mode = "open" /\ r.key = Append(t.key, b)
        BY <3>1
      <3>3. opened(Append(t.key, b)) = Append(opened(t.key), b)
        BY <2>5, OpenedAppend
      <3>. QED  BY <1>1, <2>1, <3>2, <3>3 DEF Reads
    <2>. QED  BY <2>2, <2>3, <2>4, <2>5
  <1>. QED  BY <1>2, <1>3, <1>4 DEF Reads

LEMMA SFSound ==
    ASSUME NEW v \in Seq(Byte), v # <<>>, v[1] = "DQ"
    PROVE  Reads(v, after(v))
  <1> DEFINE T == {n \in Nat : \E l \in Seq(Byte) :
                      Len(l) = n /\ l # <<>> /\ l[1] = "DQ" /\ ~Reads(l, after(l))}
  <1>1. SUFFICES ASSUME T # {} PROVE FALSE
    BY LenProperties
  <1>2. PICK n \in T : \A m \in T : n <= m
    BY <1>1, Least
  <1>3. PICK l \in Seq(Byte) : Len(l) = n /\ l # <<>> /\ l[1] = "DQ" /\ ~Reads(l, after(l))
    BY <1>2
  <1>4. n \in Nat /\ n # 0
    BY <1>3, EmptySeq
  <1>5. n # 1
    <2>1. SUFFICES ASSUME n = 1 PROVE FALSE
      OBVIOUS
    <2>2. after(l) = [mode |-> "open", key |-> <<>>]
      BY <1>3, <2>1, SFStart
    <2>3. after(l).mode = "open" /\ after(l).key = <<>>
      BY <2>2
    <2>4. l = <<"DQ">>
      BY <1>3, <2>1
    <2>. QED  BY <1>3, <2>3, <2>4, OpenedEmpty DEF Reads
  <1>6. PICK u, b : u = SubSeq(l, 1, n - 1) /\ b = l[n]
    OBVIOUS
  <1>7. u \in Seq(Byte) /\ Len(u) = n - 1 /\ b \in Byte /\ l = Append(u, b) /\ u[1] = "DQ"
    BY <1>3, <1>4, <1>5, <1>6, LastByte, SMTT(30)
  <1>8. n - 1 \in Nat /\ n - 1 \notin T /\ u # <<>>
    BY <1>2, <1>4, <1>5, <1>7
  <1>9. Reads(u, after(u))
    BY <1>7, <1>8
  <1>10. after(l) = sfByte(after(u), b)
    BY <1>7, <1>8, SFStep
  <1>11. after(u).key \in Seq(Printable)
    <2>1. Len(u) \in 1 .. Len(u)
      BY <1>4, <1>5, <1>7
    <2>. QED  BY <1>7, <2>1, SFPrintable DEF after
  <1>12. Reads(Append(u, b), sfByte(after(u), b))
    BY <1>7, <1>9, <1>11, ReadsStep
  <1>. QED  BY <1>3, <1>7, <1>10, <1>12

(* A value with no blank at either end is not trimmed. *)
LEMMA TrimSelf ==
    ASSUME NEW v \in Seq(Byte), v # <<>>, v[1] \notin OWS, v[Len(v)] \notin OWS
    PROVE  Trim(v) = v
  <1> DEFINE text == {i \in DOMAIN v : v[i] \notin OWS}
  <1>1. Len(v) \in Nat /\ Len(v) # 0 /\ DOMAIN v = 1 .. Len(v)
    BY LenProperties, EmptySeq
  <1>2. text \in SUBSET (1 .. Len(v)) /\ 1 \in text /\ Len(v) \in text
    BY <1>1
  <1>3. Trim(v) = SubSeq(v, Min(text), Max(text))
    BY <1>2 DEF Trim
  <1> HIDE DEF text
  <1>4. Max(text) = Len(v)
    BY <1>1, <1>2, MaxIs
  <1>5. Min(text) = 1
    <2>1. \E x \in text : \A y \in text : x <= y
      BY <1>1, <1>2
    <2>2. Min(text) \in text /\ \A y \in text : Min(text) <= y
      BY <2>1 DEF Min
    <2>3. Min(text) \in 1 .. Len(v) /\ Min(text) <= 1
      BY <1>2, <2>2
    <2>. QED  BY <1>1, <2>3
  <1>. QED  BY <1>3, <1>4, <1>5, SubSeqFull

-----------------------------------------------------------------------------
(* The specification *)

KeyTyped == header \in Seq(Seq(Byte)) /\ request \in Seq(Request)

LEMMA KeyTypes == KeySpec => []KeyTyped
  <1>1. KeyInit => KeyTyped
    BY DEF KeyInit, KeyTyped
  <1>2. KeyTyped /\ [KeyNext]_keyVars => KeyTyped'
    <2> SUFFICES ASSUME KeyTyped, [KeyNext]_keyVars PROVE KeyTyped'
      OBVIOUS
    <2>1. ASSUME NEW v \in BoundedSeq(Byte, MaxValue), ReceiveHeader(<<v>>)
          PROVE  KeyTyped'
      <3>1. v \in Seq(Byte)
        BY <2>1, Bounded, KeyAssumption
      <3>2. <<v>> \in Seq(Seq(Byte))
        BY <3>1
      <3>. QED  BY <2>1, <3>2 DEF ReceiveHeader, KeyTyped
    <2>2. ASSUME NEW v \in BoundedSeq(Byte, 1), NEW u \in BoundedSeq(Byte, 1),
                 ReceiveHeader(<<v, u>>)
          PROVE  KeyTyped'
      <3>1. v \in Seq(Byte) /\ u \in Seq(Byte)
        BY <2>2, Bounded
      <3>2. <<v, u>> \in Seq(Seq(Byte))
        BY <3>1
      <3>. QED  BY <2>2, <3>2 DEF ReceiveHeader, KeyTyped
    <2>3. ASSUME NEW r \in Request, ReceiveRequest(r) PROVE KeyTyped'
      BY <2>3 DEF ReceiveRequest, KeyTyped
    <2>4. CASE UNCHANGED keyVars
      BY <2>4 DEF keyVars, KeyTyped
    <2>. QED  BY <2>1, <2>2, <2>3, <2>4 DEF KeyNext
  <1>. QED  BY <1>1, <1>2, PTL DEF KeySpec

(* Scope and key can be read back from the store key of every key that     *)
(* KeyFromHeader or validateKey accepts.                                   *)
THEOREM KeysApart == KeySpec => []ScopesApart
  <1>1. KeyTyped => ScopesApart
    <2> SUFFICES ASSUME KeyTyped, NEW i \in DOMAIN header, NEW s \in Scope,
                        NEW p \in {KeyFromHeader(header), validateKey(header[i])}, p.ok
                 PROVE  LET k  == p.key
                            sk == storeKey(s, k)
                            n  == LastNul(sk)
                        IN  /\ SubSeq(sk, n + 1, Len(sk)) = k
                            /\ SubSeq(sk, 1, n) = IF s = <<>> THEN <<>> ELSE Append(s, "NUL")
      BY DEF ScopesApart
    <2>1. header \in Seq(Seq(Byte)) /\ DOMAIN header = 1 .. Len(header)
      BY LenProperties DEF KeyTyped
    <2>2. \A j \in 1 .. Len(header) : header[j] \in Seq(Byte)
      BY <2>1, ElementOfSeq
    <2>3. GoodKey(p.key)
      <3>1. CASE p = KeyFromHeader(header)
        <4>1. Len(header) = 1 /\ p = ParseKey(header[1])
          BY <3>1 DEF KeyFromHeader, Invalid
        <4>2. header[1] \in Seq(Byte)
          BY <2>2, <4>1
        <4>. QED  BY <4>1, <4>2, ParsedGood
      <3>2. CASE p = validateKey(header[i])
        <4>1. header[i] \in Seq(Byte)
          BY <2>1, <2>2
        <4>. QED  BY <3>2, <4>1, ValidatedGood
      <3>. QED  BY <3>1, <3>2
    <2>4. s \in Seq(Byte)
      <3>1. s \in Seq({"a", "NUL"})
        BY Bounded DEF Scope
      <3>. QED  BY <3>1, SeqMonotonic DEF Byte
    <2>5. PICK k : k = p.key
      OBVIOUS
    <2>6. LET sk == storeKey(s, k)
              n  == LastNul(sk)
          IN  /\ SubSeq(sk, n + 1, Len(sk)) = k
              /\ SubSeq(sk, 1, n) = IF s = <<>> THEN <<>> ELSE Append(s, "NUL")
      BY <2>3, <2>4, <2>5, ReadBack
    <2>. QED  BY <2>5, <2>6
  <1>. QED  BY <1>1, KeyTypes, PTL

(* What ParseKey makes of a value that is not empty when it is trimmed. *)
LEMMA ParsedRead ==
    ASSUME NEW value \in Seq(Byte), ParseKey(value).ok
    PROVE  LET k == ParseKey(value).key
           IN  \/ Trim(value) = k /\ k[1] # "DQ"
               \/ Trim(value) = serialize(k) /\ ToSet(k) \subseteq Printable
  <1> DEFINE v == Trim(value)
             parsed == IF v = <<>> THEN Invalid
                       ELSE IF v[1] = "DQ" THEN parseSFString(v) ELSE parseRaw(v)
  <1>1. v \in Seq(Byte)
    BY TrimSeq
  <1>2. ~Invalid.ok
    BY DEF Invalid
  <1>3. parsed.ok /\ ParseKey(value) = parsed
    BY <1>2 DEF ParseKey
  <1>4. v # <<>>
    BY <1>2, <1>3
  <1>5. Len(v) \in 1 .. Len(v)
    BY <1>1, <1>4, EmptySeq
  <1> HIDE DEF v
  <1>6. CASE v[1] = "DQ"
    <2>1. parsed = parseSFString(v)
      BY <1>4, <1>6
    <2>2. after(v).mode = "closed" /\ parseSFString(v) = Valid(after(v).key)
      BY <1>2, <1>3, <2>1 DEF parseSFString, after
    <2>3. PICK k : k = after(v).key
      OBVIOUS
    <2>4. k \in Seq(Printable)
      BY <1>1, <1>5, <2>3, SFPrintable DEF after
    <2>5. v = Append(opened(k), "DQ")
      BY <1>1, <1>4, <1>6, <2>2, <2>3, SFSound DEF Reads
    <2>6. v = serialize(k)
      BY <2>4, <2>5, SerializeIs
    <2>7. ToSet(k) \subseteq Printable
      BY <2>4 DEF ToSet
    <2>8. ParseKey(value).key = k
      BY <1>3, <2>1, <2>2, <2>3 DEF Valid
    <2>. QED  BY <2>6, <2>7, <2>8 DEF v
  <1>7. CASE v[1] # "DQ"
    <2>1. parsed = parseRaw(v)
      BY <1>4, <1>7
    <2>2. parseRaw(v) = Valid(v)
      BY <1>2, <1>3, <2>1 DEF parseRaw
    <2>3. ParseKey(value).key = v
      BY <1>3, <2>1, <2>2 DEF Valid
    <2>. QED  BY <1>7, <2>3 DEF v
  <1>. QED  BY <1>6, <1>7

LEMMA SerializedRead ==
    ASSUME NEW k \in Seq(Byte), Len(k) \in 1 .. MaxKey, ToSet(k) \subseteq Printable
    PROVE  KeyFromHeader(<<serialize(k)>>) = Valid(k)
  <1>1. k \in Seq(Printable)
    <2>1. Len(k) \in Nat /\ DOMAIN k = 1 .. Len(k) /\ k \in [1 .. Len(k) -> Byte]
      BY LenProperties
    <2>2. \A i \in 1 .. Len(k) : k[i] \in Printable
      BY <2>1 DEF ToSet
    <2>3. k \in [1 .. Len(k) -> Printable]
      BY <2>1, <2>2
    <2>. QED  BY <2>1, <2>3, SeqDef
  <1>2. PICK z, v : z = opened(k) /\ v = Append(z, "DQ")
    OBVIOUS
  <1>3. "DQ" \in Byte /\ "DQ" \notin OWS
    BY DEF Byte, OWS
  <1>4. z \in Seq(Byte) /\ z # <<>> /\ z[1] = "DQ"
    BY <1>1, <1>2, OpenedSeq
  <1>5. /\ v \in Seq(Byte) /\ v # <<>> /\ v[1] = "DQ" /\ v[Len(v)] = "DQ"
        /\ v = serialize(k)
    <2>1. Len(z) \in Nat /\ Len(z) # 0
      BY <1>4, EmptySeq
    <2>2. /\ v \in Seq(Byte) /\ Len(v) = Len(z) + 1 /\ v[Len(z) + 1] = "DQ"
          /\ \A i \in 1 .. Len(z) : v[i] = z[i]
      BY <1>2, <1>3, <1>4
    <2>. QED  BY <1>1, <1>2, <1>4, <2>1, <2>2, SerializeIs
  <1>6. Trim(v) = v
    BY <1>3, <1>5, TrimSelf
  <1>7. after(z) = [mode |-> "open", key |-> k]
    BY <1>1, <1>2, SFOpened
  <1>8. after(z).mode = "open" /\ after(z).key = k
    BY <1>7
  <1>9. after(v) = [mode |-> "closed", key |-> k]
    BY <1>2, <1>3, <1>4, <1>8, SFByteIs, SFStep
  <1>10. parseSFString(v) = Valid(k)
    <2>1. after(v).mode = "closed" /\ after(v).key = k
      BY <1>9
    <2>. QED  BY <2>1 DEF parseSFString, after
  <1>11. Valid(k).ok /\ Valid(k).key = k
    BY DEF Valid
  <1>12. ParseKey(v) = Valid(k)
    BY <1>5, <1>6, <1>10, <1>11 DEF ParseKey
  <1>13. Len(<<v>>) = 1 /\ <<v>>[1] = v
    OBVIOUS
  <1>. QED  BY <1>5, <1>12, <1>13 DEF KeyFromHeader

LEMMA RawRead ==
    ASSUME NEW v \in Seq(Byte), validateKey(v).ok, Trim(v) = v, v[1] # "DQ"
    PROVE  KeyFromHeader(<<v>>) = Valid(v)
  <1>1. Len(v) \in 1 .. MaxKey /\ Control \cap ToSet(v) = {}
    BY DEF validateKey, Invalid
  <1>2. v # <<>>
    BY <1>1
  <1>3. parseRaw(v) = Valid(v) /\ Valid(v).ok /\ Valid(v).key = v
    BY <1>1 DEF parseRaw, Valid
  <1>4. ParseKey(v) = Valid(v)
    BY <1>1, <1>2, <1>3 DEF ParseKey
  <1>5. Len(<<v>>) = 1 /\ <<v>>[1] = v
    OBVIOUS
  <1>. QED  BY <1>4, <1>5 DEF KeyFromHeader

(* A header names a key exactly when it has one value and that is the key, *)
(* raw or serialized as an RFC 8941 String, for values of any length.      *)
THEOREM KeysRead == KeySpec => []KeyGrammatical
  <1>1. KeyTyped => KeyGrammatical
    <2> SUFFICES ASSUME KeyTyped, NEW i \in DOMAIN header
                 PROVE  LET v == header[i]
                            p == KeyFromHeader(header)
                        IN  /\ p.ok => /\ Len(header) = 1
                                       /\ \/ Trim(v) = p.key /\ p.key[1] # "DQ"
                                          \/ /\ Trim(v) = serialize(p.key)
                                             /\ ToSet(p.key) \subseteq Printable
                            /\ Len(v) \in 1 .. MaxKey /\ ToSet(v) \subseteq Printable
                                  => KeyFromHeader(<<serialize(v)>>) = Valid(v)
                            /\ validateKey(v).ok /\ Trim(v) = v /\ v[1] # "DQ"
                                  => KeyFromHeader(<<v>>) = Valid(v)
      BY DEF KeyGrammatical
    <2>1. header \in Seq(Seq(Byte)) /\ DOMAIN header = 1 .. Len(header)
      BY LenProperties DEF KeyTyped
    <2>2. PICK v, p : v = header[i] /\ p = KeyFromHeader(header)
      OBVIOUS
    <2>3. v \in Seq(Byte)
      BY <2>1, <2>2, ElementOfSeq
    <2>4. ASSUME p.ok
          PROVE  /\ Len(header) = 1
                 /\ \/ Trim(v) = p.key /\ p.key[1] # "DQ"
                    \/ /\ Trim(v) = serialize(p.key)
                       /\ ToSet(p.key) \subseteq Printable
      <3>1. Len(header) = 1 /\ p = ParseKey(header[1])
        BY <2>2, <2>4 DEF KeyFromHeader, Invalid
      <3>2. i = 1
        BY <2>1, <3>1
      <3>3. p = ParseKey(v) /\ ParseKey(v).ok
        BY <2>2, <2>4, <3>1, <3>2
      <3>. QED  BY <2>3, <3>1, <3>3, ParsedRead
    <2>. QED  BY <2>2, <2>3, <2>4, SerializedRead, RawRead
  <1>. QED  BY <1>1, KeyTypes, PTL

(* Requests with the same fingerprint are the same request, and so are     *)
(* gRPC calls.                                                             *)
THEOREM RequestsApart == KeySpec => []FingerprintTells
  <1>1. KeyTyped => FingerprintTells
    <2> SUFFICES ASSUME KeyTyped, NEW i \in DOMAIN request, NEW r \in Request
                 PROVE  LET q == request[i] IN
                        /\ Fingerprint(r) = Fingerprint(q) =>
                              /\ ToUpper(r.method) = ToUpper(q.method)
                              /\ r.path = q.path /\ r.query = q.query /\ r.body = q.body
                        /\ grpcFingerprint(r.path, r.body) = grpcFingerprint(q.path, q.body)
                              => r.path = q.path /\ r.body = q.body
      BY DEF FingerprintTells
    <2>1. DOMAIN request = 1 .. Len(request) /\ request \in Seq(Request)
      BY LenProperties DEF KeyTyped
    <2>2. request[i] \in Request
      BY <2>1, ElementOfSeq
    <2>. QED  BY <2>2, RequestsTold
  <1>. QED  BY <1>1, KeyTypes, PTL

-----------------------------------------------------------------------------
(* Loops *)

(* A claim that holds before a loop and that each round keeps holds after  *)
(* every round.                                                            *)
LEMMA Climb ==
    ASSUME NEW n \in Nat, NEW T, 0 \in T, \A i \in 0 .. n - 1 : i \in T => i + 1 \in T
    PROVE  \A i \in 0 .. n : i \in T
  <1> DEFINE U == {i \in Nat : i \in 0 .. n /\ i \notin T}
  <1>1. SUFFICES ASSUME U # {} PROVE FALSE
    OBVIOUS
  <1>2. PICK m \in U : \A k \in U : m <= k
    BY <1>1, Least
  <1>3. m # 0 /\ m - 1 \in 0 .. n - 1 /\ m - 1 + 1 = m
    BY <1>2
  <1>4. m - 1 \in T
    BY <1>2, <1>3
  <1>. QED  BY <1>2, <1>3, <1>4

(* A loop of n rounds that starts in s and whose round i takes x to        *)
(* F[i][x] has a value.                                                    *)
Loops(F, s, n, f) == f = [i \in 0 .. n |-> IF i = 0 THEN s ELSE F[i][f[i - 1]]]

LEMMA LoopExtends ==
    ASSUME NEW S, NEW F \in [Nat -> [S -> S]], NEW s \in S, NEW n \in Nat,
           NEW f \in [0 .. n -> S], Loops(F, s, n, f)
    PROVE  \E g \in [0 .. n + 1 -> S] : Loops(F, s, n + 1, g)
  <1> DEFINE next == F[n + 1][f[n]]
             g == [i \in 0 .. n + 1 |-> IF i = n + 1 THEN next ELSE f[i]]
  <1>1. \A i \in 0 .. n : f[i] = IF i = 0 THEN s ELSE F[i][f[i - 1]]
    BY DEF Loops
  <1>2. next \in S
    <2>1. n \in 0 .. n /\ n + 1 \in Nat
      OBVIOUS
    <2>2. f[n] \in S /\ F[n + 1] \in [S -> S]
      BY <2>1
    <2>. QED  BY <2>2
  <1> HIDE DEF next
  <1>3. g \in [0 .. n + 1 -> S]
    <2>1. \A i \in 0 .. n + 1 : i # n + 1 => i \in 0 .. n
      OBVIOUS
    <2>. QED  BY <1>2, <2>1
  <1>4. ASSUME NEW i \in 0 .. n + 1
        PROVE  g[i] = IF i = 0 THEN s ELSE F[i][g[i - 1]]
    <2>1. CASE i = n + 1
      <3>1. i # 0 /\ i - 1 = n /\ n \in 0 .. n + 1 /\ n # n + 1
        BY <2>1
      <3>2. g[i] = next /\ g[i - 1] = f[n]
        BY <2>1, <3>1
      <3>. QED  BY <2>1, <3>1, <3>2 DEF next
    <2>2. CASE i # n + 1
      <3>1. /\ i \in 0 .. n
            /\ i # 0 => i - 1 \in 0 .. n /\ i - 1 \in 0 .. n + 1 /\ i - 1 # n + 1
        BY <2>2
      <3>. QED  BY <1>1, <2>2, <3>1
    <2>. QED  BY <2>1, <2>2
  <1>5. Loops(F, s, n + 1, g)
    <2>1. g = [i \in 0 .. n + 1 |-> g[i]]
      OBVIOUS
    <2> HIDE DEF g
    <2>. QED  BY <1>4, <2>1 DEF Loops
  <1>. QED  BY <1>3, <1>5

(* By induction on the rounds, every such loop ends with a value. *)
LEMMA LoopExists ==
    ASSUME NEW S, NEW F \in [Nat -> [S -> S]], NEW s \in S, NEW n \in Nat
    PROVE  \E f \in [0 .. n -> S] : Loops(F, s, n, f)
  <1> DEFINE T == {k \in Nat : \E f \in [0 .. k -> S] : Loops(F, s, k, f)}
  <1>1. 0 \in T
    <2>1. PICK f : f = [i \in 0 .. 0 |-> s]
      OBVIOUS
    <2>2. f \in [0 .. 0 -> S] /\ Loops(F, s, 0, f)
      BY <2>1 DEF Loops
    <2>. QED  BY <2>2
  <1>2. \A i \in 0 .. n - 1 : i \in T => i + 1 \in T
    BY LoopExtends
  <1> HIDE DEF T
  <1>3. \A i \in 0 .. n : i \in T
    BY <1>1, <1>2, Climb
  <1>4. n \in 0 .. n
    OBVIOUS
  <1>. QED  BY <1>3, <1>4 DEF T

-----------------------------------------------------------------------------
(* Varints *)

LEMMA DivBounds ==
    ASSUME NEW a \in Nat
    PROVE  /\ a \div Base \in Nat /\ a % Base \in 0 .. Base - 1
           /\ a = ((a \div Base) * Base) + (a % Base)
  BY CodecAssumption

LEMMA ModByte ==
    ASSUME NEW m \in 0 .. Base - 1
    PROVE  m % Base = m /\ (m + Base) % Base = m
  BY CodecAssumption

(* The loop of binary.AppendUvarint divides by Base in each round. *)
LEMMA Shifts ==
    ASSUME NEW v \in Nat
    PROVE  /\ shifts(v) \in [0 .. MaxVarintLen -> Nat]
           /\ \A i \in 0 .. MaxVarintLen :
                 shifts(v)[i] = IF i = 0 THEN v ELSE shifts(v)[i - 1] \div Base
  <1> DEFINE F == [i \in Nat |-> [x \in Nat |-> x \div Base]]
  <1>1. F \in [Nat -> [Nat -> Nat]]
    BY DivBounds
  <1>2. MaxVarintLen \in Nat
    BY CodecAssumption
  <1>3. PICK f \in [0 .. MaxVarintLen -> Nat] : Loops(F, v, MaxVarintLen, f)
    <2> HIDE DEF F
    <2>. QED  BY <1>1, <1>2, LoopExists
  <1>4. f = [i \in 0 .. MaxVarintLen |-> IF i = 0 THEN v ELSE f[i - 1] \div Base]
    <2>1. ASSUME NEW i \in 0 .. MaxVarintLen, i # 0
          PROVE  F[i][f[i - 1]] = f[i - 1] \div Base
      <3>1. i \in Nat /\ i - 1 \in 0 .. MaxVarintLen
        BY <1>2, <2>1
      <3>2. f[i - 1] \in Nat
        BY <3>1
      <3>. QED  BY <3>1, <3>2
    <2>2. f = [i \in 0 .. MaxVarintLen |-> IF i = 0 THEN v ELSE F[i][f[i - 1]]]
      BY <1>3 DEF Loops
    <2> HIDE DEF F
    <2>. QED  BY <2>1, <2>2
  <1> DEFINE g == shifts(v)
  <1>5. g = [i \in 0 .. MaxVarintLen |-> IF i = 0 THEN v ELSE g[i - 1] \div Base]
    BY <1>4, Zenon DEF shifts
  <1> HIDE DEF g
  <1>6. DOMAIN g = 0 .. MaxVarintLen
    BY <1>5
  <1>7. \A i \in 0 .. MaxVarintLen : g[i] = IF i = 0 THEN v ELSE g[i - 1] \div Base
    BY <1>5
  <1> DEFINE T == {i \in 0 .. MaxVarintLen : g[i] \in Nat}
  <1>8. 0 \in T
    BY <1>2, <1>7
  <1>9. ASSUME NEW i \in 0 .. MaxVarintLen - 1, i \in T PROVE i + 1 \in T
    <2>1. i + 1 \in 0 .. MaxVarintLen /\ i + 1 # 0 /\ i + 1 - 1 = i
      BY <1>2
    <2>2. g[i + 1] = g[i] \div Base
      BY <1>7, <2>1
    <2>. QED  BY <1>9, <2>1, <2>2, DivBounds
  <1>10. \A i \in 0 .. MaxVarintLen : i \in T
    <2> HIDE DEF T
    <2>. QED  BY <1>2, <1>8, <1>9, Climb
  <1>11. g \in [0 .. MaxVarintLen -> Nat]
    BY <1>5, <1>6, <1>10
  <1>. QED  BY <1>7, <1>11 DEF g

(* The values that a varint can hold. *)
Fits(v) == v \in Nat /\ shifts(v)[MaxVarintLen] = 0

LEMMA MinIs ==
    ASSUME NEW T \in SUBSET Nat, NEW m \in T, \A k \in T : m <= k
    PROVE  Min(T) = m
  <1>1. Min(T) \in T /\ \A y \in T : Min(T) <= y
    BY DEF Min
  <1>2. PICK x : x = Min(T)
    OBVIOUS
  <1>3. x \in Nat /\ m \in Nat /\ x <= m /\ m <= x
    BY <1>1, <1>2
  <1>. QED  BY <1>2, <1>3

(* A value that fits is shifted down to 0 within MaxVarintLen rounds. *)
LEMMA VarintLength ==
    ASSUME NEW v, Fits(v)
    PROVE  /\ uvarintLen(v) \in 1 .. MaxVarintLen
           /\ shifts(v)[uvarintLen(v)] = 0
  <1> DEFINE T == {n \in 1 .. MaxVarintLen : shifts(v)[n] = 0}
  <1>1. MaxVarintLen \in T /\ T \in SUBSET Nat
    BY CodecAssumption DEF Fits
  <1> HIDE DEF T
  <1>2. PICK m \in T : \A k \in T : m <= k
    BY <1>1, Least
  <1>3. Min(T) = m
    BY <1>1, <1>2, MinIs
  <1>4. uvarintLen(v) = m
    BY <1>3 DEF uvarintLen, T
  <1>5. m \in 1 .. MaxVarintLen /\ shifts(v)[m] = 0
    BY <1>2 DEF T
  <1>. QED  BY <1>4, <1>5

(* A varint is read up to its last byte, and each byte but its mark is a   *)
(* digit of the value.                                                     *)
LEMMA VarintBytes ==
    ASSUME NEW v, Fits(v)
    PROVE  /\ AppendUvarint(v) \in Seq(Nat)
           /\ Len(AppendUvarint(v)) = uvarintLen(v)
           /\ \A i \in 1 .. uvarintLen(v) :
                 /\ AppendUvarint(v)[i] % Base = shifts(v)[i - 1] % Base
                 /\ (AppendUvarint(v)[i] < Base) <=> i = uvarintLen(v)
  <1>1. PICK n : n = uvarintLen(v)
    OBVIOUS
  <1>2. n \in 1 .. MaxVarintLen /\ MaxVarintLen \in Nat /\ Base \in Nat
    BY <1>1, VarintLength, CodecAssumption
  <1>3. PICK g : g = shifts(v)
    OBVIOUS
  <1>4. v \in Nat
    BY DEF Fits
  <1>5. ASSUME NEW i \in 1 .. n PROVE g[i - 1] % Base \in 0 .. Base - 1
    <2>1. i - 1 \in 0 .. MaxVarintLen
      BY <1>2
    <2>2. g[i - 1] \in Nat
      BY <1>3, <1>4, <2>1, Shifts
    <2>. QED  BY <2>2, DivBounds
  <1> DEFINE b == [i \in 1 .. n |-> (g[i - 1] % Base) + IF i < n THEN Base ELSE 0]
  <1>6. AppendUvarint(v) = b
    BY <1>1, <1>3 DEF AppendUvarint
  <1>7. \A i \in 1 .. n : b[i] \in Nat
    BY <1>2, <1>5
  <1>8. b \in [1 .. n -> Nat]
    BY <1>7
  <1>9. b \in Seq(Nat) /\ Len(b) = n
    BY <1>2, <1>8, LenProperties, SeqDef
  <1>10. ASSUME NEW i \in 1 .. n
         PROVE  b[i] % Base = g[i - 1] % Base /\ ((b[i] < Base) <=> i = n)
    <2>1. PICK m \in 0 .. Base - 1 : m = g[i - 1] % Base
      BY <1>5
    <2>2. m % Base = m /\ (m + Base) % Base = m
      BY ModByte
    <2>3. b[i] = m + IF i < n THEN Base ELSE 0
      BY <2>1
    <2>4. CASE i < n
      <3>1. b[i] = m + Base /\ ~(m + Base < Base) /\ i # n
        BY <1>2, <2>3, <2>4
      <3>. QED  BY <2>1, <2>2, <3>1
    <2>5. CASE ~(i < n)
      <3>1. b[i] = m /\ m < Base /\ i = n
        BY <1>2, <2>3, <2>5
      <3>. QED  BY <2>1, <2>2, <3>1
    <2>. QED  BY <2>4, <2>5
  <1> HIDE DEF b
  <1>. QED  BY <1>1, <1>3, <1>6, <1>9, <1>10

(* What the reader's loop computes. *)
Digits(b, n, f) ==
    /\ f \in [0 .. n -> Nat] /\ f[0] = 0
    /\ \A i \in 1 .. n : f[i] = (f[i - 1] * Base) + (b[n + 1 - i] % Base)

(* Uvarint adds up the bytes from the last to the first. *)
LEMMA Horner ==
    ASSUME NEW b \in Seq(Nat), NEW n \in 0 .. Len(b)
    PROVE  \E f : Digits(b, n, f) /\ Uvarint(b, n) = f[n]
  <1> DEFINE dig(i) == IF i \in 1 .. n THEN b[n + 1 - i] % Base ELSE 0
             F == [i \in Nat |-> [x \in Nat |-> (x * Base) + dig(i)]]
  <1>1. Len(b) \in Nat /\ n \in Nat /\ Base \in Nat
    BY LenProperties, CodecAssumption
  <1>2. \A i : dig(i) \in Nat
    <2>1. ASSUME NEW i \in 1 .. n PROVE b[n + 1 - i] % Base \in Nat
      <3>1. n + 1 - i \in 1 .. Len(b)
        BY <1>1
      <3>2. b[n + 1 - i] \in Nat
        BY <3>1, ElementOfSeq
      <3>3. PICK a \in Nat : a = b[n + 1 - i]
        BY <3>2
      <3>4. a % Base \in Nat
        BY <1>1, DivBounds
      <3>. QED  BY <3>3, <3>4
    <2>. QED  BY <2>1
  <1>3. F \in [Nat -> [Nat -> Nat]]
    <2> HIDE DEF dig
    <2>1. \A x \in Nat, i \in Nat : (x * Base) + dig(i) \in Nat
      BY <1>1, <1>2
    <2>. QED  BY <2>1
  <1>4. PICK f \in [0 .. n -> Nat] : Loops(F, 0, n, f)
    <2> HIDE DEF F
    <2>. QED  BY <1>1, <1>3, LoopExists
  <1>5. f = [i \in 0 .. n |-> IF i = 0 THEN 0 ELSE (f[i - 1] * Base) + (b[n + 1 - i] % Base)]
    <2>1. ASSUME NEW i \in 0 .. n, i # 0
          PROVE  F[i][f[i - 1]] = (f[i - 1] * Base) + (b[n + 1 - i] % Base)
      <3>1. i \in Nat /\ i - 1 \in 0 .. n /\ i \in 1 .. n
        BY <1>1, <2>1
      <3>2. f[i - 1] \in Nat /\ dig(i) = b[n + 1 - i] % Base
        BY <3>1
      <3> HIDE DEF dig
      <3>. QED  BY <3>1, <3>2
    <2>2. f = [i \in 0 .. n |-> IF i = 0 THEN 0 ELSE F[i][f[i - 1]]]
      BY <1>4 DEF Loops
    <2> HIDE DEF F
    <2>. QED  BY <2>1, <2>2
  <1>6. PICK g : /\ g = [i \in 0 .. n |->
                           IF i = 0 THEN 0 ELSE (g[i - 1] * Base) + (b[n + 1 - i] % Base)]
                 /\ Uvarint(b, n) = g[n]
    BY <1>5, Zenon DEF Uvarint
  <1>7. \A i \in 0 .. n : g[i] = IF i = 0 THEN 0 ELSE (g[i - 1] * Base) + (b[n + 1 - i] % Base)
    BY <1>6
  <1>8. DOMAIN g = 0 .. n
    BY <1>6
  <1>9. g[0] = 0
    BY <1>1, <1>7
  <1>10. \A i \in 1 .. n : g[i] = (g[i - 1] * Base) + (b[n + 1 - i] % Base)
    BY <1>1, <1>7
  <1> DEFINE T == {i \in 0 .. n : g[i] \in Nat}
  <1>11. 0 \in T
    BY <1>1, <1>9
  <1>12. ASSUME NEW i \in 0 .. n - 1, i \in T PROVE i + 1 \in T
    <2>1. i + 1 \in 1 .. n /\ i + 1 \in 0 .. n /\ i + 1 - 1 = i
      BY <1>1
    <2>2. dig(i + 1) = b[n + 1 - (i + 1)] % Base
      BY <2>1
    <2>3. g[i + 1] = (g[i] * Base) + dig(i + 1)
      BY <1>10, <2>1, <2>2
    <2>4. PICK x \in Nat, y \in Nat : x = g[i] /\ y = dig(i + 1)
      BY <1>2, <1>12
    <2>5. (x * Base) + y \in Nat
      BY <1>1
    <2>. QED  BY <2>1, <2>3, <2>4, <2>5
  <1>13. \A i \in 0 .. n : i \in T
    <2> HIDE DEF T
    <2>. QED  BY <1>1, <1>11, <1>12, Climb
  <1>14. g \in [0 .. n -> Nat]
    BY <1>6, <1>8, <1>13
  <1>. QED  BY <1>6, <1>9, <1>10, <1>14 DEF Digits

(* Any two runs of the loop over the same digits agree. *)
LEMMA SameDigits ==
    ASSUME NEW n \in Nat, NEW b, NEW c, NEW f, NEW g, Digits(b, n, f), Digits(c, n, g),
           \A i \in 1 .. n : b[i] % Base = c[i] % Base
    PROVE  f[n] = g[n]
  <1> DEFINE T == {i \in 0 .. n : f[i] = g[i]}
  <1>1. 0 \in T
    BY DEF Digits
  <1>2. ASSUME NEW i \in 0 .. n - 1, i \in T PROVE i + 1 \in T
    <2>1. i + 1 \in 1 .. n /\ i + 1 \in 0 .. n /\ i + 1 - 1 = i /\ n + 1 - (i + 1) \in 1 .. n
      OBVIOUS
    <2>2. /\ f[i + 1] = (f[i] * Base) + (b[n + 1 - (i + 1)] % Base)
          /\ g[i + 1] = (g[i] * Base) + (c[n + 1 - (i + 1)] % Base)
      BY <2>1 DEF Digits
    <2>. QED  BY <1>2, <2>1, <2>2
  <1>3. \A i \in 0 .. n : i \in T
    <2> HIDE DEF T
    <2>. QED  BY <1>1, <1>2, Climb
  <1>. QED  BY <1>3

-----------------------------------------------------------------------------
(* Reading from the front of a buffer *)

(* What was put in front can be cut off again. *)
LEMMA CutFront ==
    ASSUME NEW a \in Seq(Nat), NEW x \in Seq(Nat)
    PROVE  /\ SubSeq(a \o x, 1, Len(a)) = a
           /\ SubSeq(a \o x, Len(a) + 1, Len(a \o x)) = x
  <1>1. Len(a) \in Nat /\ Len(x) \in Nat
    BY LenProperties
  <1>2. PICK s : s = a \o x
    OBVIOUS
  <1>3. /\ s \in Seq(Nat) /\ Len(s) = Len(a) + Len(x)
        /\ \A i \in 1 .. Len(a) + Len(x) : s[i] = IF i <= Len(a) THEN a[i] ELSE x[i - Len(a)]
    BY <1>2, ConcatProperties
  <1>4. \A i \in 1 .. Len(s) : s[i] \in Nat
    BY <1>3, ElementOfSeq
  <1>5. SubSeq(s, 1, Len(a)) = a
    <2>1. PICK t : t = SubSeq(s, 1, Len(a))
      OBVIOUS
    <2>2. \A i \in 1 .. Len(a) : s[i] \in Nat
      BY <1>1, <1>3, <1>4
    <2>3. /\ t \in Seq(Nat) /\ Len(t) = (IF 1 <= Len(a) THEN Len(a) - 1 + 1 ELSE 0)
          /\ \A i \in 1 .. Len(a) - 1 + 1 : t[i] = s[1 + i - 1]
      BY <1>1, <2>1, <2>2, SubSeqProperties
    <2>4. Len(t) = Len(a)
      BY <1>1, <2>3
    <2>5. ASSUME NEW i \in 1 .. Len(a) PROVE t[i] = a[i]
      <3>1. i \in 1 .. Len(a) - 1 + 1 /\ 1 + i - 1 = i /\ i <= Len(a) /\ i \in 1 .. Len(a) + Len(x)
        BY <1>1
      <3>. QED  BY <1>3, <2>3, <3>1
    <2>6. t = a
      BY <2>3, <2>4, <2>5, SeqEqual
    <2>. QED  BY <2>1, <2>6
  <1>6. SubSeq(s, Len(a) + 1, Len(s)) = x
    <2>1. PICK t : t = SubSeq(s, Len(a) + 1, Len(s))
      OBVIOUS
    <2>2. \A i \in Len(a) + 1 .. Len(s) : s[i] \in Nat
      BY <1>1, <1>3, <1>4
    <2>3. /\ t \in Seq(Nat)
          /\ Len(t) = (IF Len(a) + 1 <= Len(s) THEN Len(s) - (Len(a) + 1) + 1 ELSE 0)
          /\ \A i \in 1 .. Len(s) - (Len(a) + 1) + 1 : t[i] = s[Len(a) + 1 + i - 1]
      BY <1>1, <1>3, <2>1, <2>2, SubSeqProperties
    <2>4. Len(t) = Len(x)
      BY <1>1, <1>3, <2>3
    <2>5. ASSUME NEW i \in 1 .. Len(x) PROVE t[i] = x[i]
      <3>1. /\ i \in 1 .. Len(s) - (Len(a) + 1) + 1 /\ Len(a) + 1 + i - 1 = Len(a) + i
            /\ ~(Len(a) + i <= Len(a)) /\ Len(a) + i \in 1 .. Len(a) + Len(x)
            /\ Len(a) + i - Len(a) = i
        BY <1>1, <1>3, SMTT(30)
      <3>2. t[i] = s[Len(a) + i]
        BY <2>3, <3>1
      <3>. QED  BY <1>3, <3>1, <3>2
    <2>6. t = x
      BY <2>3, <2>4, <2>5, SeqEqual
    <2>. QED  BY <2>1, <2>6
  <1>. QED  BY <1>2, <1>5, <1>6

(* A buffer is its first n bytes and the others. *)
LEMMA CutAt ==
    ASSUME NEW b \in Seq(Nat), NEW n \in 0 .. Len(b)
    PROVE  /\ SubSeq(b, 1, n) \in Seq(Nat) /\ Len(SubSeq(b, 1, n)) = n
           /\ SubSeq(b, n + 1, Len(b)) \in Seq(Nat)
           /\ Len(SubSeq(b, n + 1, Len(b))) = Len(b) - n
           /\ b = SubSeq(b, 1, n) \o SubSeq(b, n + 1, Len(b))
  <1>1. Len(b) \in Nat /\ n \in Nat
    BY LenProperties
  <1>2. \A i \in 1 .. Len(b) : b[i] \in Nat
    BY ElementOfSeq
  <1>3. (\A i \in 1 .. n : b[i] \in Nat) /\ (\A i \in n + 1 .. Len(b) : b[i] \in Nat)
    BY <1>1, <1>2
  <1>4. /\ SubSeq(b, 1, n) \in Seq(Nat)
        /\ Len(SubSeq(b, 1, n)) = IF 1 <= n THEN n - 1 + 1 ELSE 0
    BY <1>1, <1>3, SubSeqProperties
  <1>5. /\ SubSeq(b, n + 1, Len(b)) \in Seq(Nat)
        /\ Len(SubSeq(b, n + 1, Len(b)))
             = IF n + 1 <= Len(b) THEN Len(b) - (n + 1) + 1 ELSE 0
    BY <1>1, <1>3, SubSeqProperties
  <1>6. SubSeq(b, 1, n) \o SubSeq(b, n + 1, Len(b)) = SubSeq(b, 1, Len(b))
    <2>1. 1 \in 1 .. Len(b) + 1 /\ n \in 1 - 1 .. Len(b) /\ Len(b) \in n .. Len(b)
      BY <1>1
    <2>. QED  BY <2>1, ConcatAdjacentSubSeq
  <1>7. SubSeq(b, 1, Len(b)) = b
    BY SubSeqFull
  <1>8. Len(SubSeq(b, 1, n)) = n
    BY <1>1, <1>4
  <1>9. Len(SubSeq(b, n + 1, Len(b))) = Len(b) - n
    BY <1>1, <1>5
  <1>. QED  BY <1>4, <1>5, <1>6, <1>7, <1>8, <1>9

(* A longer buffer is cut at the same place. *)
LEMMA CutLonger ==
    ASSUME NEW b \in Seq(Nat), NEW y \in Seq(Nat), NEW n \in 0 .. Len(b)
    PROVE  /\ SubSeq(b \o y, 1, n) = SubSeq(b, 1, n)
           /\ SubSeq(b \o y, n + 1, Len(b \o y)) = SubSeq(b, n + 1, Len(b)) \o y
  <1>1. PICK a, c : a = SubSeq(b, 1, n) /\ c = SubSeq(b, n + 1, Len(b))
    OBVIOUS
  <1>2. a \in Seq(Nat) /\ Len(a) = n /\ c \in Seq(Nat) /\ b = a \o c
    BY <1>1, CutAt
  <1>3. b \o y = a \o (c \o y) /\ c \o y \in Seq(Nat)
    BY <1>2, ConcatAssociative, ConcatProperties
  <1>4. PICK z : z = c \o y
    OBVIOUS
  <1>5. PICK w : w = b \o y
    OBVIOUS
  <1>6. SubSeq(w, 1, n) = a /\ SubSeq(w, n + 1, Len(w)) = z
    <2>1. w = a \o z /\ z \in Seq(Nat)
      BY <1>3, <1>4, <1>5
    <2>2. SubSeq(a \o z, 1, Len(a)) = a /\ SubSeq(a \o z, Len(a) + 1, Len(a \o z)) = z
      BY <1>2, <2>1, CutFront
    <2>. QED  BY <1>2, <2>1, <2>2
  <1>. QED  BY <1>1, <1>4, <1>5, <1>6

(* The varint at the front of a buffer ends with its first byte without a  *)
(* mark.                                                                   *)
Ends(b, n) ==
    /\ n \in 1 .. Len(b) /\ n <= MaxVarintLen /\ b[n] < Base
    /\ \A i \in 1 .. n - 1 : ~(b[i] < Base)

(* uvarintEnd finds the first byte that ends a varint, and no other. *)
LEMMA EndFound ==
    ASSUME NEW b \in Seq(Nat)
    PROVE  /\ uvarintEnd(b) # 0 => Ends(b, uvarintEnd(b))
           /\ uvarintEnd(b) \in 0 .. Len(b)
           /\ \A n : Ends(b, n) => uvarintEnd(b) = n
  <1> DEFINE T == {i \in DOMAIN b : i <= MaxVarintLen /\ b[i] < Base}
  <1>1. Len(b) \in Nat /\ DOMAIN b = 1 .. Len(b) /\ MaxVarintLen \in Nat
    BY LenProperties, CodecAssumption
  <1>2. uvarintEnd(b) = IF T = {} THEN 0 ELSE Min(T)
    BY DEF uvarintEnd
  <1>3. T \in SUBSET Nat /\ T \in SUBSET (1 .. Len(b))
    BY <1>1
  <1>4. ASSUME NEW n, Ends(b, n) PROVE uvarintEnd(b) = n
    <2>1. n \in T
      BY <1>1, <1>4 DEF Ends
    <2>2. ASSUME NEW k \in T PROVE n <= k
      <3>1. SUFFICES ASSUME k < n PROVE FALSE
        BY <1>3, <2>1
      <3>2. k \in 1 .. n - 1 /\ b[k] < Base
        BY <1>1, <3>1, <1>3, <2>1
      <3>. QED  BY <1>4, <3>2 DEF Ends
    <2>3. Min(T) = n
      <3> HIDE DEF T
      <3>. QED  BY <1>3, <2>1, <2>2, MinIs
    <2>. QED  BY <1>2, <2>1, <2>3
  <1>5. ASSUME uvarintEnd(b) # 0
        PROVE  Ends(b, uvarintEnd(b)) /\ uvarintEnd(b) \in 1 .. Len(b)
    <2>1. T # {} /\ uvarintEnd(b) = Min(T)
      BY <1>2, <1>5
    <2>2. PICK m \in T : \A k \in T : m <= k
      <3> HIDE DEF T
      <3>. QED  BY <1>3, <2>1, Least
    <2>3. Min(T) = m
      <3> HIDE DEF T
      <3>. QED  BY <1>3, <2>2, MinIs
    <2>4. m \in 1 .. Len(b) /\ m <= MaxVarintLen /\ b[m] < Base
      BY <1>1, <2>2
    <2>5. ASSUME NEW i \in 1 .. m - 1 PROVE ~(b[i] < Base)
      <3>1. i \in DOMAIN b /\ i <= MaxVarintLen /\ ~(m <= i)
        BY <1>1, <2>4
      <3>. QED  BY <2>2, <3>1
    <2>6. Ends(b, m)
      BY <2>4, <2>5 DEF Ends
    <2>. QED  BY <2>1, <2>3, <2>4, <2>6
  <1>6. uvarintEnd(b) \in 0 .. Len(b)
    BY <1>1, <1>5
  <1>. QED  BY <1>4, <1>5, <1>6

(* A decoder: d itself may hold more than this. *)
Decoder(d) == d.buf \in Seq(Nat) /\ d.err \in BOOLEAN

(* A failed decoder stays failed. *)
LEMMA UvarintType ==
    ASSUME NEW d, Decoder(d)
    PROVE  /\ uvarint(d) \in [v : Nat, buf : Seq(Nat), err : BOOLEAN]
           /\ d.err => uvarint(d).err
  <1>1. PICK n : n = uvarintEnd(d.buf)
    OBVIOUS
  <1>2. d.buf \in Seq(Nat) /\ d.err \in BOOLEAN /\ n \in 0 .. Len(d.buf)
    BY <1>1, EndFound DEF Decoder
  <1>3. CASE d.err \/ n = 0
    <2>1. uvarint(d) = [v |-> 0, buf |-> d.buf, err |-> TRUE]
      BY <1>1, <1>3 DEF uvarint
    <2>. QED  BY <1>2, <2>1
  <1>4. CASE ~(d.err \/ n = 0)
    <2>1. uvarint(d) = [v |-> Uvarint(d.buf, n), buf |-> SubSeq(d.buf, n + 1, Len(d.buf)),
                        err |-> FALSE]
      BY <1>1, <1>4 DEF uvarint
    <2>2. PICK f : Digits(d.buf, n, f) /\ Uvarint(d.buf, n) = f[n]
      BY <1>2, Horner
    <2>3. Uvarint(d.buf, n) \in Nat
      BY <1>2, <2>2 DEF Digits
    <2>4. SubSeq(d.buf, n + 1, Len(d.buf)) \in Seq(Nat)
      BY <1>2, CutAt
    <2>. QED  BY <1>4, <2>1, <2>3, <2>4
  <1>. QED  BY <1>3, <1>4

(* A varint that was written is read back. *)
LEMMA UvarintWritten ==
    ASSUME NEW v, Fits(v), NEW x \in Seq(Nat), NEW d, d.err = FALSE,
           d.buf = AppendUvarint(v) \o x
    PROVE  uvarint(d) = [v |-> v, buf |-> x, err |-> FALSE]
  <1>1. PICK a : a = AppendUvarint(v)
    OBVIOUS
  <1>2. PICK n : n = uvarintLen(v)
    OBVIOUS
  <1>3. PICK g : g = shifts(v)
    OBVIOUS
  <1>4. v \in Nat /\ MaxVarintLen \in Nat /\ Base \in Nat
    BY CodecAssumption DEF Fits
  <1>5. n \in 1 .. MaxVarintLen /\ g[n] = 0
    BY <1>2, <1>3, VarintLength
  <1>6. /\ a \in Seq(Nat) /\ Len(a) = n
        /\ \A i \in 1 .. n : a[i] % Base = g[i - 1] % Base /\ ((a[i] < Base) <=> i = n)
    BY <1>1, <1>2, <1>3, VarintBytes
  <1>7. PICK b : b = d.buf
    OBVIOUS
  <1>8. /\ b = a \o x /\ b \in Seq(Nat) /\ Len(b) = n + Len(x) /\ Len(x) \in Nat
        /\ \A i \in 1 .. n + Len(x) : b[i] = IF i <= n THEN a[i] ELSE x[i - n]
    BY <1>1, <1>6, <1>7, ConcatProperties, LenProperties
  <1>9. \A i \in 1 .. n : b[i] = a[i]
    BY <1>4, <1>5, <1>8
  <1>10. Ends(b, n)
    <2>1. n \in 1 .. Len(b) /\ n <= MaxVarintLen /\ n \in 1 .. n
      BY <1>4, <1>5, <1>8
    <2>2. \A i \in 1 .. n - 1 : i \in 1 .. n /\ i # n
      BY <1>5
    <2>. QED  BY <1>6, <1>9, <2>1, <2>2 DEF Ends
  <1>11. uvarintEnd(b) = n
    BY <1>8, <1>10, EndFound
  <1>12. n # 0 /\ n \in 0 .. Len(b) /\ n \in Nat
    BY <1>4, <1>5, <1>8
  <1>13. PICK f : Digits(b, n, f) /\ Uvarint(b, n) = f[n]
    BY <1>8, <1>12, Horner
  <1> DEFINE T == {i \in 0 .. n : f[i] = g[n - i]}
  <1>14. 0 \in T
    <2>1. n - 0 = n /\ 0 \in 0 .. n
      BY <1>12
    <2>. QED  BY <1>5, <1>13, <2>1 DEF Digits
  <1>15. ASSUME NEW i \in 0 .. n - 1, i \in T PROVE i + 1 \in T
    <2>1. PICK k : k = n - i
      OBVIOUS
    <2>2. /\ k \in 1 .. n /\ k \in 0 .. MaxVarintLen /\ k - 1 \in 0 .. MaxVarintLen /\ k # 0
          /\ n + 1 - (i + 1) = k /\ n - (i + 1) = k - 1
          /\ i + 1 \in 1 .. n /\ i + 1 \in 0 .. n /\ i + 1 - 1 = i
      BY <1>4, <1>5, <2>1
    <2>3. f[i + 1] = (f[i] * Base) + (b[k] % Base)
      BY <1>13, <2>2 DEF Digits
    <2>4. g[k - 1] \in Nat /\ g[k] = g[k - 1] \div Base
      BY <1>3, <1>4, <2>2, Shifts
    <2>5. b[k] % Base = g[k - 1] % Base
      BY <1>6, <1>9, <2>2
    <2>6. PICK e \in Nat : e = g[k - 1]
      BY <2>4
    <2>7. e = ((e \div Base) * Base) + (e % Base)
      BY DivBounds
    <2>8. f[i] = e \div Base
      BY <1>15, <2>1, <2>4, <2>6
    <2>9. f[i + 1] = g[k - 1]
      BY <2>3, <2>5, <2>6, <2>7, <2>8
    <2>. QED  BY <2>2, <2>9
  <1>16. \A i \in 0 .. n : i \in T
    <2> HIDE DEF T
    <2>. QED  BY <1>12, <1>14, <1>15, Climb
  <1>17. f[n] = v
    <2>1. n \in 0 .. n /\ n - n = 0 /\ 0 \in 0 .. MaxVarintLen
      BY <1>4, <1>12
    <2>2. f[n] = g[0]
      BY <1>16, <2>1
    <2>3. g[0] = v
      BY <1>3, <1>4, <2>1, Shifts
    <2>. QED  BY <2>2, <2>3
  <1>18. SubSeq(b, n + 1, Len(b)) = x
    BY <1>6, <1>8, CutFront
  <1>. QED  BY <1>7, <1>11, <1>12, <1>13, <1>17, <1>18 DEF uvarint

(* What was read does not depend on what follows it. *)
LEMMA UvarintLonger ==
    ASSUME NEW d, Decoder(d), NEW y \in Seq(Nat), NEW e, e.err = FALSE, e.buf = d.buf \o y,
           ~uvarint(d).err
    PROVE  uvarint(e) = [v |-> uvarint(d).v, buf |-> uvarint(d).buf \o y, err |-> FALSE]
  <1>1. PICK b, c : b = d.buf /\ c = e.buf
    OBVIOUS
  <1>2. PICK n : n = uvarintEnd(b)
    OBVIOUS
  <1>3. /\ b \in Seq(Nat) /\ d.err \in BOOLEAN /\ n \in 0 .. Len(b)
        /\ Len(b) \in Nat /\ Len(y) \in Nat
    BY <1>1, <1>2, EndFound, LenProperties DEF Decoder
  <1>4. ~(d.err \/ n = 0)
    BY <1>1, <1>2 DEF uvarint
  <1>5. uvarint(d) = [v |-> Uvarint(b, n), buf |-> SubSeq(b, n + 1, Len(b)), err |-> FALSE]
    BY <1>1, <1>2, <1>4 DEF uvarint
  <1>6. /\ c = b \o y /\ c \in Seq(Nat) /\ Len(c) = Len(b) + Len(y)
        /\ \A i \in 1 .. Len(b) + Len(y) : c[i] = IF i <= Len(b) THEN b[i] ELSE y[i - Len(b)]
    BY <1>1, <1>3, ConcatProperties
  <1>7. \A i \in 1 .. Len(b) : c[i] = b[i]
    BY <1>3, <1>6
  <1>8. Ends(b, n)
    BY <1>2, <1>3, <1>4, EndFound
  <1>9. Ends(c, n)
    <2>1. \A i \in 1 .. n : i \in 1 .. Len(b) /\ i \in 1 .. Len(c)
      BY <1>3, <1>6
    <2>2. n \in 1 .. n /\ \A i \in 1 .. n - 1 : i \in 1 .. n
      BY <1>3, <1>4
    <2>. QED  BY <1>7, <1>8, <2>1, <2>2 DEF Ends
  <1>10. uvarintEnd(c) = n
    BY <1>6, <1>9, EndFound
  <1>11. PICK f : Digits(b, n, f) /\ Uvarint(b, n) = f[n]
    BY <1>3, Horner
  <1>12. n \in 0 .. Len(c) /\ n \in Nat
    BY <1>3, <1>6
  <1>13. PICK g : Digits(c, n, g) /\ Uvarint(c, n) = g[n]
    BY <1>6, <1>12, Horner
  <1>14. \A i \in 1 .. n : b[i] % Base = c[i] % Base
    <2>1. \A i \in 1 .. n : i \in 1 .. Len(b)
      BY <1>3
    <2>. QED  BY <1>7, <2>1
  <1>15. Uvarint(c, n) = Uvarint(b, n)
    BY <1>11, <1>12, <1>13, <1>14, SameDigits
  <1>16. SubSeq(c, n + 1, Len(c)) = SubSeq(b, n + 1, Len(b)) \o y
    BY <1>3, <1>6, CutLonger
  <1>17. uvarint(e) = [v |-> Uvarint(c, n), buf |-> SubSeq(c, n + 1, Len(c)), err |-> FALSE]
    BY <1>1, <1>4, <1>10 DEF uvarint
  <1>18. uvarint(d).v = Uvarint(b, n) /\ uvarint(d).buf = SubSeq(b, n + 1, Len(b))
    <2>1. PICK s, t : s = Uvarint(b, n) /\ t = SubSeq(b, n + 1, Len(b))
      OBVIOUS
    <2>2. uvarint(d) = [v |-> s, buf |-> t, err |-> FALSE]
      BY <1>5, <2>1, Zenon
    <2>3. uvarint(d).v = s /\ uvarint(d).buf = t
      BY <2>2
    <2>. QED  BY <2>1, <2>3, Zenon
  <1>. QED  BY <1>15, <1>16, <1>17, <1>18, Zenon

(* The same for a string. *)
LEMMA BytesType ==
    ASSUME NEW d, Decoder(d)
    PROVE  /\ bytes(d) \in [v : Seq(Nat), buf : Seq(Nat), err : BOOLEAN]
           /\ d.err => bytes(d).err
  <1>1. PICK n : n = uvarint(d)
    OBVIOUS
  <1>2. n \in [v : Nat, buf : Seq(Nat), err : BOOLEAN] /\ (d.err => n.err)
    BY <1>1, UvarintType
  <1>3. n.v \in Nat /\ n.buf \in Seq(Nat) /\ n.err \in BOOLEAN /\ Len(n.buf) \in Nat
    BY <1>2, LenProperties
  <1>4. CASE n.err \/ n.v > Len(n.buf)
    <2>1. bytes(d) = [v |-> <<>>, buf |-> n.buf, err |-> TRUE]
      BY <1>1, <1>4 DEF bytes
    <2>. QED  BY <1>3, <2>1, EmptySeq
  <1>5. CASE ~(n.err \/ n.v > Len(n.buf))
    <2>1. bytes(d) = [v |-> SubSeq(n.buf, 1, n.v), buf |-> SubSeq(n.buf, n.v + 1, Len(n.buf)),
                      err |-> FALSE]
      BY <1>1, <1>5 DEF bytes
    <2>2. n.v \in 0 .. Len(n.buf)
      BY <1>3, <1>5
    <2>3. SubSeq(n.buf, 1, n.v) \in Seq(Nat) /\ SubSeq(n.buf, n.v + 1, Len(n.buf)) \in Seq(Nat)
      BY <1>3, <2>2, CutAt
    <2>. QED  BY <1>2, <1>5, <2>1, <2>3
  <1>. QED  BY <1>4, <1>5

LEMMA StringType ==
    ASSUME NEW s \in Seq(Nat), Fits(Len(s))
    PROVE  appendString(s) \in Seq(Nat)
  BY VarintBytes, ConcatProperties DEF appendString

(* appendString and bytes are inverse to each other. *)
LEMMA BytesWritten ==
    ASSUME NEW s \in Seq(Nat), Fits(Len(s)), NEW x \in Seq(Nat), NEW d, d.err = FALSE,
           d.buf = appendString(s) \o x
    PROVE  bytes(d) = [v |-> s, buf |-> x, err |-> FALSE]
  <1>1. PICK a : a = AppendUvarint(Len(s))
    OBVIOUS
  <1>2. PICK z : z = s \o x
    OBVIOUS
  <1>3. a \in Seq(Nat) /\ z \in Seq(Nat) /\ Len(z) = Len(s) + Len(x)
    BY <1>1, <1>2, VarintBytes, ConcatProperties
  <1>4. appendString(s) = a \o s
    BY <1>1 DEF appendString
  <1>5. d.buf = a \o z
    BY <1>2, <1>3, <1>4, ConcatAssociative
  <1>6. uvarint(d) = [v |-> Len(s), buf |-> z, err |-> FALSE]
    BY <1>1, <1>3, <1>5, UvarintWritten
  <1>7. Len(s) \in Nat /\ Len(x) \in Nat /\ ~(Len(s) > Len(z))
    BY <1>3, LenProperties
  <1>8. SubSeq(z, 1, Len(s)) = s /\ SubSeq(z, Len(s) + 1, Len(z)) = x
    BY <1>2, CutFront
  <1>9. bytes(d) = [v |-> SubSeq(z, 1, Len(s)), buf |-> SubSeq(z, Len(s) + 1, Len(z)),
                    err |-> FALSE]
    <2>1. PICK k : k = Len(s)
      OBVIOUS
    <2>2. uvarint(d) = [v |-> k, buf |-> z, err |-> FALSE] /\ ~(k > Len(z))
      BY <1>6, <1>7, <2>1
    <2>. QED  BY <2>1, <2>2 DEF bytes
  <1>. QED  BY <1>8, <1>9, Zenon

(* What follows a string does not change how it is read. *)
LEMMA BytesLonger ==
    ASSUME NEW d, Decoder(d), NEW y \in Seq(Nat), NEW e, e.err = FALSE, e.buf = d.buf \o y,
           ~bytes(d).err
    PROVE  bytes(e) = [v |-> bytes(d).v, buf |-> bytes(d).buf \o y, err |-> FALSE]
  <1>1. PICK n : n = uvarint(d)
    OBVIOUS
  <1>2. n.v \in Nat /\ n.buf \in Seq(Nat) /\ n.err \in BOOLEAN /\ Len(n.buf) \in Nat
    BY <1>1, UvarintType, LenProperties
  <1>3. ~n.err /\ ~(n.v > Len(n.buf))
    BY <1>1 DEF bytes
  <1>4. bytes(d) = [v |-> SubSeq(n.buf, 1, n.v), buf |-> SubSeq(n.buf, n.v + 1, Len(n.buf)),
                    err |-> FALSE]
    BY <1>1, <1>3 DEF bytes
  <1>5. uvarint(e) = [v |-> n.v, buf |-> n.buf \o y, err |-> FALSE]
    BY <1>1, <1>3, UvarintLonger
  <1>6. PICK k, c, w : k = n.v /\ c = n.buf /\ w = n.buf \o y
    OBVIOUS
  <1>7. k \in 0 .. Len(c) /\ c \in Seq(Nat) /\ w = c \o y
    BY <1>2, <1>3, <1>6
  <1>8. Len(w) = Len(c) + Len(y) /\ Len(c) \in Nat /\ Len(y) \in Nat
    BY <1>7, ConcatProperties, LenProperties
  <1>9. ~(k > Len(w))
    BY <1>7, <1>8
  <1>10. /\ SubSeq(w, 1, k) = SubSeq(c, 1, k)
         /\ SubSeq(w, k + 1, Len(w)) = SubSeq(c, k + 1, Len(c)) \o y
    BY <1>7, CutLonger
  <1>11. bytes(e) = [v |-> SubSeq(w, 1, k), buf |-> SubSeq(w, k + 1, Len(w)), err |-> FALSE]
    BY <1>5, <1>6, <1>9 DEF bytes
  <1>12. bytes(d).v = SubSeq(c, 1, k) /\ bytes(d).buf = SubSeq(c, k + 1, Len(c))
    <2>1. PICK s, t : s = SubSeq(c, 1, k) /\ t = SubSeq(c, k + 1, Len(c))
      OBVIOUS
    <2>2. bytes(d) = [v |-> s, buf |-> t, err |-> FALSE]
      BY <1>4, <1>6, <2>1, Zenon
    <2>3. bytes(d).v = s /\ bytes(d).buf = t
      BY <2>2
    <2>. QED  BY <2>1, <2>3, Zenon
  <1>. QED  BY <1>10, <1>11, <1>12, Zenon

-----------------------------------------------------------------------------
(* Reading the header *)

HttpHeader == UNION {[N -> Seq(Seq(Nat))] : N \in SUBSET Seq(Nat)}

Reader == [buf : Seq(Nat), err : BOOLEAN, header : HttpHeader]

LEMMA NoHeader ==
    /\ <<>> \in HttpHeader /\ DOMAIN <<>> = {}
    /\ \A g : g = [n \in {} |-> g[n]] => g = <<>>
  <1>1. <<>> \in [{} -> Seq(Seq(Nat))]
    OBVIOUS
  <1>2. <<>> \in HttpHeader
    BY <1>1 DEF HttpHeader
  <1>3. DOMAIN <<>> = {}
    OBVIOUS
  <1>4. ASSUME NEW g, g = [n \in {} |-> g[n]] PROVE g = <<>>
    BY <1>4
  <1>. QED  BY <1>2, <1>3, <1>4

(* add keeps a header a map from names to lists of values. *)
LEMMA AddType ==
    ASSUME NEW hd \in HttpHeader, NEW name \in Seq(Nat), NEW s \in Seq(Nat)
    PROVE  add(hd, name, s) \in HttpHeader
  <1>1. PICK N \in SUBSET Seq(Nat) : hd \in [N -> Seq(Seq(Nat))]
    BY DEF HttpHeader
  <1>2. <<s>> \in Seq(Seq(Nat))
    OBVIOUS
  <1>3. \A n \in N : hd[n] \in Seq(Seq(Nat)) /\ Append(hd[n], s) \in Seq(Seq(Nat))
    BY <1>1, AppendProperties
  <1>4. DOMAIN hd = N
    BY <1>1
  <1> DEFINE g == [n \in N \cup {name} |->
                     IF n # name THEN hd[n]
                     ELSE IF n \in N THEN Append(hd[n], s) ELSE <<s>>]
  <1>5. \A n \in N \cup {name} : g[n] \in Seq(Seq(Nat))
    BY <1>2, <1>3
  <1>6. g \in [N \cup {name} -> Seq(Seq(Nat))]
    BY <1>5
  <1>7. add(hd, name, s) = g
    BY <1>4 DEF add
  <1> HIDE DEF g
  <1>8. N \cup {name} \in SUBSET Seq(Nat)
    BY <1>1
  <1>. QED  BY <1>6, <1>7, <1>8 DEF HttpHeader

LEMMA ReaderIsDecoder ==
    ASSUME NEW h \in Reader
    PROVE  /\ Decoder(h) /\ h.buf \in Seq(Nat) /\ h.err \in BOOLEAN /\ h.header \in HttpHeader
           /\ h = [buf |-> h.buf, err |-> h.err, header |-> h.header]
  BY DEF Reader, Decoder

(* A value is read by a decoder, with the header it has read so far. *)
LEMMA ReadValueType ==
    ASSUME NEW h \in Reader, NEW name \in Seq(Nat)
    PROVE  /\ readValue(h, name) \in Reader
           /\ h.err => readValue(h, name).err
  <1>1. PICK s : s = bytes(h)
    OBVIOUS
  <1>2. s.v \in Seq(Nat) /\ s.buf \in Seq(Nat) /\ s.err \in BOOLEAN /\ (h.err => s.err)
    BY <1>1, BytesType, ReaderIsDecoder
  <1>3. PICK g : g = IF s.err THEN h.header ELSE add(h.header, name, s.v)
    OBVIOUS
  <1>4. g \in HttpHeader
    BY <1>2, <1>3, AddType, ReaderIsDecoder
  <1>5. readValue(h, name) = [buf |-> s.buf, err |-> s.err, header |-> g]
    BY <1>1, <1>3 DEF readValue
  <1>. QED  BY <1>2, <1>4, <1>5 DEF Reader

(* f holds the reader after each round of the loop over the values. *)
ValueRounds(h, name, n, f) ==
    f = [i \in 0 .. n |-> IF i = 0 THEN h ELSE readValue(f[i - 1], name)]

LEMMA ValueRoundsSame ==
    ASSUME NEW h \in Reader, NEW name \in Seq(Nat), NEW n \in Nat, NEW m \in 0 .. n,
           NEW f, ValueRounds(h, name, n, f), NEW g, ValueRounds(h, name, m, g)
    PROVE  f[m] = g[m] /\ f[m] \in Reader
  <1> DEFINE T == {i \in 0 .. m : f[i] = g[i] /\ f[i] \in Reader}
  <1>1. \A i \in 0 .. n : f[i] = IF i = 0 THEN h ELSE readValue(f[i - 1], name)
    BY DEF ValueRounds
  <1>2. \A i \in 0 .. m : g[i] = IF i = 0 THEN h ELSE readValue(g[i - 1], name)
    BY DEF ValueRounds
  <1>3. 0 \in T
    BY <1>1, <1>2
  <1>4. ASSUME NEW i \in 0 .. m - 1, i \in T PROVE i + 1 \in T
    <2>1. i + 1 \in 0 .. n /\ i + 1 \in 0 .. m /\ i + 1 # 0 /\ i + 1 - 1 = i
      OBVIOUS
    <2>2. f[i + 1] = readValue(f[i], name) /\ g[i + 1] = readValue(g[i], name)
      BY <1>1, <1>2, <2>1
    <2>3. f[i] = g[i] /\ f[i] \in Reader
      BY <1>4
    <2>4. f[i + 1] \in Reader
      BY <2>2, <2>3, ReadValueType
    <2>. QED  BY <2>1, <2>2, <2>3, <2>4
  <1>5. \A i \in 0 .. m : i \in T
    <2>1. m \in Nat
      OBVIOUS
    <2> HIDE DEF T
    <2>. QED  BY <1>3, <1>4, <2>1, Climb
  <1>6. m \in 0 .. m
    OBVIOUS
  <1>. QED  BY <1>5, <1>6

LEMMA ValueRoundsExist ==
    ASSUME NEW h \in Reader, NEW name \in Seq(Nat), NEW n \in Nat
    PROVE  \E f : ValueRounds(h, name, n, f) /\ readValues(h, name, n) = f[n]
  <1> DEFINE F == [i \in Nat |-> [x \in Reader |-> readValue(x, name)]]
  <1>1. F \in [Nat -> [Reader -> Reader]]
    BY ReadValueType
  <1>2. PICK f \in [0 .. n -> Reader] : Loops(F, h, n, f)
    <2> HIDE DEF F
    <2>. QED  BY <1>1, LoopExists
  <1>3. f = [i \in 0 .. n |-> IF i = 0 THEN h ELSE readValue(f[i - 1], name)]
    <2>1. ASSUME NEW i \in 0 .. n, i # 0
          PROVE  F[i][f[i - 1]] = readValue(f[i - 1], name)
      <3>1. i \in Nat /\ i - 1 \in 0 .. n
        BY <2>1
      <3>2. f[i - 1] \in Reader
        BY <3>1
      <3>. QED  BY <3>1, <3>2
    <2>2. f = [i \in 0 .. n |-> IF i = 0 THEN h ELSE F[i][f[i - 1]]]
      BY <1>2 DEF Loops
    <2> HIDE DEF F
    <2>. QED  BY <2>1, <2>2
  <1>. QED  BY <1>3, Zenon DEF readValues, ValueRounds

(* readValues(h, name, n) is n rounds of readValue. *)
LEMMA ReadValuesSteps ==
    ASSUME NEW h \in Reader, NEW name \in Seq(Nat)
    PROVE  /\ readValues(h, name, 0) = h
           /\ \A n \in Nat : /\ readValues(h, name, n) \in Reader
                             /\ readValues(h, name, n + 1)
                                  = readValue(readValues(h, name, n), name)
  <1>1. readValues(h, name, 0) = h
    <2>1. PICK f : ValueRounds(h, name, 0, f) /\ readValues(h, name, 0) = f[0]
      BY ValueRoundsExist
    <2>. QED  BY <2>1 DEF ValueRounds
  <1>2. ASSUME NEW n \in Nat
        PROVE  /\ readValues(h, name, n) \in Reader
               /\ readValues(h, name, n + 1) = readValue(readValues(h, name, n), name)
    <2>1. n + 1 \in Nat /\ n \in 0 .. n + 1 /\ n + 1 \in 0 .. n + 1 /\ n + 1 # 0 /\ n + 1 - 1 = n
      OBVIOUS
    <2>2. PICK g : ValueRounds(h, name, n, g) /\ readValues(h, name, n) = g[n]
      BY ValueRoundsExist
    <2>3. PICK f : ValueRounds(h, name, n + 1, f) /\ readValues(h, name, n + 1) = f[n + 1]
      BY <2>1, ValueRoundsExist
    <2>4. f[n] = g[n] /\ f[n] \in Reader
      BY <2>1, <2>2, <2>3, ValueRoundsSame
    <2>5. f[n + 1] = readValue(f[n], name)
      BY <2>1, <2>3 DEF ValueRounds
    <2>. QED  BY <2>2, <2>3, <2>4, <2>5
  <1>. QED  BY <1>1, <1>2

(* A count beyond the limit fails the decoder and is read as 0. *)
LEMMA LimitedType ==
    ASSUME NEW d \in [v : Nat, buf : Seq(Nat), err : BOOLEAN], NEW limit \in Nat
    PROVE  /\ limited(d, limit) \in [v : Nat, buf : Seq(Nat), err : BOOLEAN]
           /\ d.err => limited(d, limit).err
           /\ d.v <= limit => limited(d, limit) = d
           /\ d.v > limit => limited(d, limit) = [v |-> 0, buf |-> d.buf, err |-> TRUE]
  <1>1. d.v \in Nat /\ d.buf \in Seq(Nat) /\ d.err \in BOOLEAN
    OBVIOUS
  <1>2. CASE d.v > limit
    <2>1. limited(d, limit) = [v |-> 0, buf |-> d.buf, err |-> TRUE]
      BY <1>2 DEF limited
    <2>. QED  BY <1>1, <1>2, <2>1
  <1>3. CASE ~(d.v > limit)
    BY <1>1, <1>3 DEF limited
  <1>. QED  BY <1>2, <1>3

(* The first error is kept to the end of the loop. *)
LEMMA ReadValuesLatch ==
    ASSUME NEW h \in Reader, NEW name \in Seq(Nat), NEW n \in Nat, h.err
    PROVE  readValues(h, name, n).err
  <1> DEFINE T == {i \in 0 .. n : readValues(h, name, i).err}
  <1>1. 0 \in T
    BY ReadValuesSteps
  <1>2. ASSUME NEW i \in 0 .. n - 1, i \in T PROVE i + 1 \in T
    <2>1. i \in Nat /\ i + 1 \in 0 .. n
      OBVIOUS
    <2>2. PICK r \in Reader : r = readValues(h, name, i)
      BY <2>1, ReadValuesSteps
    <2>3. readValues(h, name, i + 1) = readValue(r, name)
      BY <2>1, <2>2, ReadValuesSteps
    <2>4. readValue(r, name).err
      BY <1>2, <2>2, ReadValueType
    <2>. QED  BY <2>1, <2>3, <2>4
  <1>3. \A i \in 0 .. n : i \in T
    <2> HIDE DEF T
    <2>. QED  BY <1>1, <1>2, Climb
  <1>4. n \in 0 .. n
    OBVIOUS
  <1>. QED  BY <1>3, <1>4

(* The reader once the name and the number of its values are read. *)
nameRead(h) == bytes(h)

countRead(h) == limited(uvarint(nameRead(h)), maxHeaderValues)

afterCount(h) ==
    [buf |-> countRead(h).buf, err |-> countRead(h).err, header |-> h.header]

(* The three reads of one header: its name, how many values, the values. *)
LEMMA ReadNameParts ==
    ASSUME NEW h \in Reader
    PROVE  /\ nameRead(h) \in [v : Seq(Nat), buf : Seq(Nat), err : BOOLEAN]
           /\ uvarint(nameRead(h)) \in [v : Nat, buf : Seq(Nat), err : BOOLEAN]
           /\ countRead(h) \in [v : Nat, buf : Seq(Nat), err : BOOLEAN]
           /\ afterCount(h) \in Reader
           /\ nameRead(h).err => uvarint(nameRead(h)).err
           /\ uvarint(nameRead(h)).err => countRead(h).err
           /\ h.err => afterCount(h).err
           /\ readName(h) = readValues(afterCount(h), nameRead(h).v, countRead(h).v)
  <1>1. PICK s : s = nameRead(h)
    OBVIOUS
  <1>2. s \in [v : Seq(Nat), buf : Seq(Nat), err : BOOLEAN] /\ (h.err => s.err)
    BY <1>1, BytesType, ReaderIsDecoder DEF nameRead
  <1>3. Decoder(s)
    BY <1>2 DEF Decoder
  <1>4. PICK u : u = uvarint(s)
    OBVIOUS
  <1>5. u \in [v : Nat, buf : Seq(Nat), err : BOOLEAN] /\ (s.err => u.err)
    BY <1>3, <1>4, UvarintType
  <1>6. PICK c : c = limited(u, maxHeaderValues)
    OBVIOUS
  <1>7. c \in [v : Nat, buf : Seq(Nat), err : BOOLEAN] /\ (u.err => c.err)
    BY <1>5, <1>6, LimitedType, CodecAssumption
  <1>8. countRead(h) = c
    BY <1>1, <1>4, <1>6 DEF countRead
  <1>9. h.header \in HttpHeader
    BY ReaderIsDecoder
  <1>10. afterCount(h) = [buf |-> c.buf, err |-> c.err, header |-> h.header]
    BY <1>8 DEF afterCount
  <1>11. afterCount(h) \in Reader
    BY <1>7, <1>9, <1>10 DEF Reader
  <1>12. h.err => afterCount(h).err
    BY <1>2, <1>5, <1>7, <1>10
  <1>13. readName(h) = readValues(afterCount(h), nameRead(h).v, countRead(h).v)
    BY DEF readName, afterCount, countRead, nameRead
  <1>. QED  BY <1>1, <1>2, <1>4, <1>5, <1>7, <1>8, <1>11, <1>12, <1>13

LEMMA ReadNameType ==
    ASSUME NEW h \in Reader
    PROVE  readName(h) \in Reader /\ (h.err => readName(h).err)
  <1>1. PICK a, m, k : a = afterCount(h) /\ m = nameRead(h).v /\ k = countRead(h).v
    OBVIOUS
  <1>2. /\ a \in Reader /\ m \in Seq(Nat) /\ k \in Nat /\ (h.err => a.err)
        /\ readName(h) = readValues(a, m, k)
    BY <1>1, ReadNameParts
  <1>. QED  BY <1>2, ReadValuesSteps, ReadValuesLatch

(* f holds the reader after each round of the loop over the names. *)
NameRounds(h, n, f) ==
    f = [i \in 0 .. n |-> IF i = 0 THEN h ELSE readName(f[i - 1])]

LEMMA NameRoundsSame ==
    ASSUME NEW h \in Reader, NEW n \in Nat, NEW m \in 0 .. n,
           NEW f, NameRounds(h, n, f), NEW g, NameRounds(h, m, g)
    PROVE  f[m] = g[m] /\ f[m] \in Reader
  <1> DEFINE T == {i \in 0 .. m : f[i] = g[i] /\ f[i] \in Reader}
  <1>1. \A i \in 0 .. n : f[i] = IF i = 0 THEN h ELSE readName(f[i - 1])
    BY DEF NameRounds
  <1>2. \A i \in 0 .. m : g[i] = IF i = 0 THEN h ELSE readName(g[i - 1])
    BY DEF NameRounds
  <1>3. 0 \in T
    BY <1>1, <1>2
  <1>4. ASSUME NEW i \in 0 .. m - 1, i \in T PROVE i + 1 \in T
    <2>1. i + 1 \in 0 .. n /\ i + 1 \in 0 .. m /\ i + 1 # 0 /\ i + 1 - 1 = i
      OBVIOUS
    <2>2. f[i + 1] = readName(f[i]) /\ g[i + 1] = readName(g[i])
      BY <1>1, <1>2, <2>1
    <2>3. f[i] = g[i] /\ f[i] \in Reader
      BY <1>4
    <2>4. f[i + 1] \in Reader
      BY <2>2, <2>3, ReadNameType
    <2>. QED  BY <2>1, <2>2, <2>3, <2>4
  <1>5. \A i \in 0 .. m : i \in T
    <2>1. m \in Nat
      OBVIOUS
    <2> HIDE DEF T
    <2>. QED  BY <1>3, <1>4, <2>1, Climb
  <1>6. m \in 0 .. m
    OBVIOUS
  <1>. QED  BY <1>5, <1>6

LEMMA NameRoundsExist ==
    ASSUME NEW h \in Reader, NEW n \in Nat
    PROVE  \E f : NameRounds(h, n, f) /\ readNames(h, n) = f[n]
  <1> DEFINE F == [i \in Nat |-> [x \in Reader |-> readName(x)]]
  <1>1. F \in [Nat -> [Reader -> Reader]]
    BY ReadNameType
  <1>2. PICK f \in [0 .. n -> Reader] : Loops(F, h, n, f)
    <2> HIDE DEF F
    <2>. QED  BY <1>1, LoopExists
  <1>3. f = [i \in 0 .. n |-> IF i = 0 THEN h ELSE readName(f[i - 1])]
    <2>1. ASSUME NEW i \in 0 .. n, i # 0
          PROVE  F[i][f[i - 1]] = readName(f[i - 1])
      <3>1. i \in Nat /\ i - 1 \in 0 .. n
        BY <2>1
      <3>2. f[i - 1] \in Reader
        BY <3>1
      <3>. QED  BY <3>1, <3>2
    <2>2. f = [i \in 0 .. n |-> IF i = 0 THEN h ELSE F[i][f[i - 1]]]
      BY <1>2 DEF Loops
    <2> HIDE DEF F
    <2>. QED  BY <2>1, <2>2
  <1>. QED  BY <1>3, Zenon DEF readNames, NameRounds

(* readNames(h, n) is n rounds of readName. *)
LEMMA ReadNamesSteps ==
    ASSUME NEW h \in Reader
    PROVE  /\ readNames(h, 0) = h
           /\ \A n \in Nat : /\ readNames(h, n) \in Reader
                             /\ readNames(h, n + 1)
                                  = readName(readNames(h, n))
  <1>1. readNames(h, 0) = h
    <2>1. PICK f : NameRounds(h, 0, f) /\ readNames(h, 0) = f[0]
      BY NameRoundsExist
    <2>. QED  BY <2>1 DEF NameRounds
  <1>2. ASSUME NEW n \in Nat
        PROVE  /\ readNames(h, n) \in Reader
               /\ readNames(h, n + 1) = readName(readNames(h, n))
    <2>1. n + 1 \in Nat /\ n \in 0 .. n + 1 /\ n + 1 \in 0 .. n + 1 /\ n + 1 # 0 /\ n + 1 - 1 = n
      OBVIOUS
    <2>2. PICK g : NameRounds(h, n, g) /\ readNames(h, n) = g[n]
      BY NameRoundsExist
    <2>3. PICK f : NameRounds(h, n + 1, f) /\ readNames(h, n + 1) = f[n + 1]
      BY <2>1, NameRoundsExist
    <2>4. f[n] = g[n] /\ f[n] \in Reader
      BY <2>1, <2>2, <2>3, NameRoundsSame
    <2>5. f[n + 1] = readName(f[n])
      BY <2>1, <2>3 DEF NameRounds
    <2>. QED  BY <2>2, <2>3, <2>4, <2>5
  <1>. QED  BY <1>1, <1>2

(* The reader with y behind what it has left to read. *)
longer(h, y) == [buf |-> h.buf \o y, err |-> FALSE, header |-> h.header]

LEMMA LongerType ==
    ASSUME NEW h \in Reader, NEW y \in Seq(Nat)
    PROVE  /\ longer(h, y) \in Reader /\ longer(h, y).err = FALSE
           /\ longer(h, y).buf = h.buf \o y /\ longer(h, y).header = h.header
  <1>1. PICK b : b = h.buf \o y
    OBVIOUS
  <1>2. b \in Seq(Nat) /\ h.header \in HttpHeader
    BY <1>1, ReaderIsDecoder, ConcatProperties
  <1>3. longer(h, y) = [buf |-> b, err |-> FALSE, header |-> h.header]
    BY <1>1 DEF longer
  <1>. QED  BY <1>1, <1>2, <1>3 DEF Reader

(* Bytes behind what is read do not change what is read: for one value, for *)
(* the values of a name, for one name, for all names.                      *)
LEMMA ReadValueLonger ==
    ASSUME NEW h \in Reader, NEW name \in Seq(Nat), NEW y \in Seq(Nat),
           ~readValue(h, name).err
    PROVE  readValue(longer(h, y), name) = longer(readValue(h, name), y)
  <1>1. PICK s : s = bytes(h)
    OBVIOUS
  <1>2. readValue(h, name) = [buf |-> s.buf, err |-> s.err,
                              header |-> IF s.err THEN h.header ELSE add(h.header, name, s.v)]
    BY <1>1 DEF readValue
  <1>3. ~s.err
    BY <1>2
  <1>4. PICK g : g = add(h.header, name, s.v)
    OBVIOUS
  <1>5. readValue(h, name) = [buf |-> s.buf, err |-> s.err, header |-> g]
    BY <1>2, <1>3, <1>4
  <1>6. PICK e : e = longer(h, y)
    OBVIOUS
  <1>7. e.err = FALSE /\ e.buf = h.buf \o y /\ e.header = h.header
    BY <1>6, LongerType
  <1>8. bytes(e) = [v |-> s.v, buf |-> s.buf \o y, err |-> FALSE]
    BY <1>1, <1>3, <1>7, BytesLonger, ReaderIsDecoder
  <1>9. PICK b : b = s.buf \o y
    OBVIOUS
  <1>10. bytes(e).v = s.v /\ bytes(e).buf = b /\ bytes(e).err = FALSE
    BY <1>8, <1>9
  <1>11. readValue(e, name) = [buf |-> b, err |-> FALSE, header |-> g]
    BY <1>4, <1>7, <1>10 DEF readValue
  <1>12. longer(readValue(h, name), y) = [buf |-> b, err |-> FALSE, header |-> g]
    <2>1. readValue(h, name).buf = s.buf /\ readValue(h, name).header = g
      BY <1>5
    <2>. QED  BY <1>9, <2>1, Zenon DEF longer
  <1>. QED  BY <1>6, <1>11, <1>12

LEMMA ReadValuesLonger ==
    ASSUME NEW h \in Reader, NEW name \in Seq(Nat), NEW y \in Seq(Nat), NEW n \in Nat,
           ~h.err, ~readValues(h, name, n).err
    PROVE  readValues(longer(h, y), name, n) = longer(readValues(h, name, n), y)
  <1>1. PICK e : e = longer(h, y)
    OBVIOUS
  <1>2. e \in Reader
    BY <1>1, LongerType
  <1> DEFINE T == {i \in 0 .. n : ~readValues(h, name, i).err =>
                      readValues(e, name, i) = longer(readValues(h, name, i), y)}
  <1>3. 0 \in T
    <2>1. readValues(h, name, 0) = h /\ readValues(e, name, 0) = e
      BY <1>2, ReadValuesSteps
    <2>. QED  BY <1>1, <2>1
  <1>4. ASSUME NEW i \in 0 .. n - 1, i \in T PROVE i + 1 \in T
    <2>1. i \in Nat /\ i + 1 \in 0 .. n
      OBVIOUS
    <2>2. PICK r \in Reader : r = readValues(h, name, i)
      BY <2>1, ReadValuesSteps
    <2>3. readValues(h, name, i + 1) = readValue(r, name)
      BY <2>1, <2>2, ReadValuesSteps
    <2>4. readValues(e, name, i + 1) = readValue(readValues(e, name, i), name)
      BY <1>2, <2>1, ReadValuesSteps
    <2>5. SUFFICES ASSUME ~readValue(r, name).err
                   PROVE  readValues(e, name, i + 1) = longer(readValue(r, name), y)
      BY <2>1, <2>3
    <2>6. ~r.err
      BY <2>5, ReadValueType
    <2>7. readValues(e, name, i) = longer(r, y)
      BY <1>4, <2>2, <2>6
    <2>8. readValue(longer(r, y), name) = longer(readValue(r, name), y)
      BY <2>5, ReadValueLonger
    <2>. QED  BY <2>4, <2>7, <2>8
  <1>5. \A i \in 0 .. n : i \in T
    <2> HIDE DEF T
    <2>. QED  BY <1>3, <1>4, Climb
  <1>6. n \in 0 .. n
    OBVIOUS
  <1>. QED  BY <1>1, <1>5, <1>6

LEMMA ReadNameLonger ==
    ASSUME NEW h \in Reader, NEW y \in Seq(Nat), ~readName(h).err
    PROVE  readName(longer(h, y)) = longer(readName(h), y)
  <1>1. PICK s, u, c, a : s = nameRead(h) /\ u = uvarint(nameRead(h)) /\ c = countRead(h)
                          /\ a = afterCount(h)
    OBVIOUS
  <1>2. /\ s \in [v : Seq(Nat), buf : Seq(Nat), err : BOOLEAN]
        /\ u \in [v : Nat, buf : Seq(Nat), err : BOOLEAN]
        /\ c \in [v : Nat, buf : Seq(Nat), err : BOOLEAN]
        /\ a \in Reader /\ (s.err => u.err) /\ (u.err => c.err)
        /\ readName(h) = readValues(a, s.v, c.v)
    BY <1>1, ReadNameParts
  <1>3. a = [buf |-> c.buf, err |-> c.err, header |-> h.header]
    BY <1>1 DEF afterCount
  <1>4. ~a.err
    BY <1>2, ReadValuesLatch
  <1>5. ~c.err /\ ~u.err /\ ~s.err
    BY <1>2, <1>3, <1>4
  <1>6. c = u /\ u.v <= maxHeaderValues
    <2>1. c = limited(u, maxHeaderValues)
      BY <1>1 DEF countRead
    <2>2. /\ u.v <= maxHeaderValues => c = u
          /\ u.v > maxHeaderValues => c = [v |-> 0, buf |-> u.buf, err |-> TRUE]
      BY <1>2, <2>1, LimitedType, CodecAssumption
    <2>3. ~(u.v > maxHeaderValues)
      BY <1>5, <2>2
    <2>. QED  BY <1>2, <2>2, <2>3, CodecAssumption
  <1>7. PICK e : e = longer(h, y)
    OBVIOUS
  <1>8. e \in Reader /\ e.err = FALSE /\ e.buf = h.buf \o y /\ e.header = h.header
    BY <1>7, LongerType
  <1>9. PICK sb, ub : sb = s.buf \o y /\ ub = u.buf \o y
    OBVIOUS
  <1>10. nameRead(e) = [v |-> s.v, buf |-> sb, err |-> FALSE]
    <2>1. s = bytes(h) /\ nameRead(e) = bytes(e)
      BY <1>1 DEF nameRead
    <2>2. ~bytes(h).err
      BY <1>5, <2>1
    <2>3. bytes(e) = [v |-> bytes(h).v, buf |-> bytes(h).buf \o y, err |-> FALSE]
      BY <1>8, <2>2, BytesLonger, ReaderIsDecoder
    <2>. QED  BY <1>9, <2>1, <2>3, Zenon
  <1>11. uvarint(nameRead(e)) = [v |-> u.v, buf |-> ub, err |-> FALSE]
    <2>1. Decoder(s)
      BY <1>2 DEF Decoder
    <2>2. PICK z : z = nameRead(e)
      OBVIOUS
    <2>3. z.err = FALSE /\ z.buf = s.buf \o y
      BY <1>9, <1>10, <2>2
    <2>. QED  BY <1>1, <1>5, <1>9, <2>1, <2>2, <2>3, UvarintLonger
  <1>12. countRead(e) = [v |-> u.v, buf |-> ub, err |-> FALSE]
    <2>1. PICK z : z = uvarint(nameRead(e))
      OBVIOUS
    <2>2. z.v = u.v /\ ~(z.v > maxHeaderValues)
      BY <1>2, <1>6, <1>11, <2>1, CodecAssumption
    <2>. QED  BY <1>11, <2>1, <2>2 DEF countRead, limited
  <1>13. afterCount(e) = longer(a, y)
    <2>1. countRead(e).buf = ub /\ countRead(e).err = FALSE
      BY <1>12
    <2>2. a.buf = u.buf /\ a.header = h.header
      BY <1>3, <1>6
    <2>. QED  BY <1>8, <1>9, <2>1, <2>2, Zenon DEF afterCount, longer
  <1>14. readName(e) = readValues(longer(a, y), s.v, u.v)
    <2>1. nameRead(e).v = s.v /\ countRead(e).v = u.v
      BY <1>10, <1>12
    <2>2. readName(e) = readValues(afterCount(e), nameRead(e).v, countRead(e).v)
      BY <1>8, ReadNameParts
    <2>. QED  BY <1>13, <2>1, <2>2
  <1>15. readValues(longer(a, y), s.v, u.v) = longer(readValues(a, s.v, u.v), y)
    <2>1. s.v \in Seq(Nat) /\ u.v \in Nat
      BY <1>2
    <2>2. ~readValues(a, s.v, u.v).err
      BY <1>2, <1>6
    <2>. QED  BY <1>2, <1>4, <2>1, <2>2, ReadValuesLonger
  <1>. QED  BY <1>2, <1>6, <1>7, <1>14, <1>15

LEMMA ReadNamesLonger ==
    ASSUME NEW h \in Reader, NEW y \in Seq(Nat), NEW n \in Nat,
           ~h.err, ~readNames(h, n).err
    PROVE  readNames(longer(h, y), n) = longer(readNames(h, n), y)
  <1>1. PICK e : e = longer(h, y)
    OBVIOUS
  <1>2. e \in Reader
    BY <1>1, LongerType
  <1> DEFINE T == {i \in 0 .. n : ~readNames(h, i).err =>
                      readNames(e, i) = longer(readNames(h, i), y)}
  <1>3. 0 \in T
    <2>1. readNames(h, 0) = h /\ readNames(e, 0) = e
      BY <1>2, ReadNamesSteps
    <2>. QED  BY <1>1, <2>1
  <1>4. ASSUME NEW i \in 0 .. n - 1, i \in T PROVE i + 1 \in T
    <2>1. i \in Nat /\ i + 1 \in 0 .. n
      OBVIOUS
    <2>2. PICK r \in Reader : r = readNames(h, i)
      BY <2>1, ReadNamesSteps
    <2>3. readNames(h, i + 1) = readName(r)
      BY <2>1, <2>2, ReadNamesSteps
    <2>4. readNames(e, i + 1) = readName(readNames(e, i))
      BY <1>2, <2>1, ReadNamesSteps
    <2>5. SUFFICES ASSUME ~readName(r).err
                   PROVE  readNames(e, i + 1) = longer(readName(r), y)
      BY <2>1, <2>3
    <2>6. ~r.err
      BY <2>5, ReadNameType
    <2>7. readNames(e, i) = longer(r, y)
      BY <1>4, <2>2, <2>6
    <2>8. readName(longer(r, y)) = longer(readName(r), y)
      BY <2>5, ReadNameLonger
    <2>. QED  BY <2>4, <2>7, <2>8
  <1>5. \A i \in 0 .. n : i \in T
    <2> HIDE DEF T
    <2>. QED  BY <1>3, <1>4, Climb
  <1>6. n \in 0 .. n
    OBVIOUS
  <1>. QED  BY <1>1, <1>5, <1>6

-----------------------------------------------------------------------------
(* A header that was written is read back *)

(* What a loop over the pieces has appended after each round. *)
Appended(pieces, c) ==
    /\ c \in [0 .. Len(pieces) -> Seq(Nat)] /\ c[0] = <<>>
    /\ \A i \in 1 .. Len(pieces) : c[i] = c[i - 1] \o pieces[i]

(* FlattenSeq appends the pieces one by one. *)
LEMMA FlattenSteps ==
    ASSUME NEW pieces \in Seq(Seq(Nat))
    PROVE  \E c : Appended(pieces, c) /\ FlattenSeq(pieces) = c[Len(pieces)]
  <1>1. PICK n : n = Len(pieces)
    OBVIOUS
  <1>2. n \in Nat /\ \A i \in 1 .. n : pieces[i] \in Seq(Nat)
    BY <1>1, LenProperties, ElementOfSeq
  <1> DEFINE piece(i) == IF i \in 1 .. n THEN pieces[i] ELSE <<>>
             F == [i \in Nat |-> [x \in Seq(Nat) |-> x \o piece(i)]]
  <1>3. \A i : piece(i) \in Seq(Nat)
    BY <1>2, EmptySeq
  <1>4. F \in [Nat -> [Seq(Nat) -> Seq(Nat)]]
    <2> HIDE DEF piece
    <2>1. \A x \in Seq(Nat), i \in Nat : x \o piece(i) \in Seq(Nat)
      BY <1>3, ConcatProperties
    <2>. QED  BY <2>1
  <1>5. PICK c \in [0 .. n -> Seq(Nat)] : Loops(F, <<>>, n, c)
    <2> HIDE DEF F
    <2>1. <<>> \in Seq(Nat)
      BY EmptySeq
    <2>. QED  BY <1>2, <1>4, <2>1, LoopExists
  <1>6. \A i \in 0 .. n : c[i] = IF i = 0 THEN <<>> ELSE F[i][c[i - 1]]
    BY <1>5 DEF Loops
  <1>7. c[0] = <<>>
    <2> HIDE DEF F
    <2>1. 0 \in 0 .. n
      BY <1>2
    <2>. QED  BY <1>6, <2>1
  <1>8. ASSUME NEW i \in 1 .. n PROVE c[i] = c[i - 1] \o pieces[i]
    <2>1. i \in Nat /\ i - 1 \in 0 .. n /\ i # 0 /\ i \in 0 .. n
      BY <1>2
    <2>2. c[i - 1] \in Seq(Nat) /\ piece(i) = pieces[i]
      BY <2>1
    <2>3. F[i][c[i - 1]] = c[i - 1] \o piece(i)
      BY <2>1, <2>2
    <2>. QED  BY <1>6, <2>1, <2>2, <2>3
  <1>9. Appended(pieces, c)
    BY <1>1, <1>7, <1>8 DEF Appended
  <1>10. CASE n = 0
    <2>1. pieces = <<>>
      BY <1>1, <1>10, EmptySeq
    <2>2. FlattenSeq(pieces) = <<>>
      BY <1>1, <1>10, <2>1 DEF FlattenSeq
    <2>. QED  BY <1>1, <1>7, <1>9, <1>10, <2>2
  <1>11. CASE n # 0
    <2>1. Len(pieces) \in Nat \ {0}
      BY <1>1, <1>2, <1>11
    <2>2. PICK g : FlatUpTo(pieces, n, g) /\ FlattenSeq(pieces) = g[n]
      BY <1>1, <2>1, FlatUnfold
    <2>3. \A i \in 1 .. n : g[i] = IF i = 1 THEN pieces[i] ELSE g[i - 1] \o pieces[i]
      BY <2>2 DEF FlatUpTo
    <2> DEFINE T == {i \in 0 .. n : i # 0 => g[i] = c[i]}
    <2>4. 0 \in T
      BY <1>2
    <2>5. ASSUME NEW i \in 0 .. n - 1, i \in T PROVE i + 1 \in T
      <3>1. i + 1 \in 1 .. n /\ i + 1 \in 0 .. n /\ i + 1 - 1 = i
        BY <1>2
      <3>2. CASE i = 0
        <4>3. 1 \in 1 .. n /\ 1 - 1 = 0
          BY <3>1, <3>2
        <4>1. g[1] = pieces[1] /\ c[1] = c[0] \o pieces[1] /\ pieces[1] \in Seq(Nat)
          BY <1>2, <1>8, <2>3, <4>3, Zenon
        <4>2. <<>> \o pieces[1] = pieces[1]
          BY <4>1, ConcatEmptySeq
        <4>. QED  BY <1>7, <3>1, <3>2, <4>1, <4>2
      <3>3. CASE i # 0
        <4>1. PICK j \in 1 .. n : j = i + 1
          BY <3>1
        <4>2. j # 1 /\ j - 1 = i
          BY <1>2, <3>1, <3>3, <4>1
        <4>3. g[j] = g[j - 1] \o pieces[j]
          BY <2>3, <4>2, Zenon
        <4>4. c[j] = c[j - 1] \o pieces[j]
          BY <1>8
        <4>5. g[j - 1] = c[j - 1]
          BY <2>5, <3>3, <4>2
        <4>6. g[j] = c[j]
          BY <4>3, <4>4, <4>5, Zenon
        <4>. QED  BY <3>1, <4>1, <4>6
      <3>. QED  BY <3>2, <3>3
    <2>6. \A i \in 0 .. n : i \in T
      <3> HIDE DEF T
      <3>. QED  BY <1>2, <2>4, <2>5, Climb
    <2>7. g[n] = c[n]
      BY <1>2, <1>11, <2>6
    <2>. QED  BY <1>1, <1>9, <2>2, <2>7
  <1>. QED  BY <1>10, <1>11

(* The header with the values of one more name. *)
kept(hd, name, vs) ==
    IF vs = <<>> THEN hd
    ELSE [n \in DOMAIN hd \cup {name} |-> IF n # name THEN hd[n] ELSE vs]

(* add appends the next value to those of its name that are kept. *)
LEMMA AddKept ==
    ASSUME NEW hd \in HttpHeader, NEW name, name \notin DOMAIN hd, NEW vs \in Seq(Seq(Nat)),
           NEW s \in Seq(Nat)
    PROVE  add(kept(hd, name, vs), name, s) = kept(hd, name, Append(vs, s))
  <1>1. PICK D : D = DOMAIN hd
    OBVIOUS
  <1>2. PICK ws : ws = Append(vs, s)
    OBVIOUS
  <1>3. ws # <<>>
    BY <1>2, AppendProperties
  <1>4. kept(hd, name, ws) = [n \in D \cup {name} |-> IF n # name THEN hd[n] ELSE ws]
    BY <1>1, <1>3 DEF kept
  <1>5. CASE vs = <<>>
    <2>1. ws = <<s>>
      BY <1>2, <1>5
    <2>2. add(hd, name, s) = [n \in D \cup {name} |-> IF n # name THEN hd[n] ELSE <<s>>]
      BY <1>1 DEF add
    <2>3. kept(hd, name, vs) = hd
      BY <1>5 DEF kept
    <2>. QED  BY <1>2, <1>4, <2>1, <2>2, <2>3
  <1>6. CASE vs # <<>>
    <2>1. PICK g : g = kept(hd, name, vs)
      OBVIOUS
    <2>2. g = [n \in D \cup {name} |-> IF n # name THEN hd[n] ELSE vs]
      BY <1>1, <1>6, <2>1 DEF kept
    <2>3. DOMAIN g \cup {name} = D \cup {name} /\ name \in DOMAIN g
      BY <2>2
    <2>4. add(g, name, s) = [n \in D \cup {name} |-> IF n # name THEN g[n]
                               ELSE IF n \in DOMAIN g THEN Append(g[n], s) ELSE <<s>>]
      BY <2>3 DEF add
    <2>5. \A n \in D \cup {name} : n # name => g[n] = hd[n]
      BY <2>2
    <2>6. g[name] = vs
      BY <2>2
    <2>7. add(g, name, s) = [n \in D \cup {name} |-> IF n # name THEN hd[n] ELSE ws]
      BY <1>2, <2>3, <2>4, <2>5, <2>6
    <2>. QED  BY <1>2, <1>4, <2>1, <2>7
  <1>. QED  BY <1>5, <1>6

(* Values whose lengths a varint can hold. *)
Writable(vs) ==
    /\ vs \in Seq(Seq(Nat)) /\ Fits(Len(vs))
    /\ \A i \in 1 .. Len(vs) : Fits(Len(vs[i]))

valuePieces(vs) == [i \in 1 .. Len(vs) |-> appendString(vs[i])]

(* The values of a name as appendHeader writes them. *)
LEMMA ValuePieces ==
    ASSUME NEW vs, Writable(vs)
    PROVE  /\ valuePieces(vs) \in Seq(Seq(Nat)) /\ Len(valuePieces(vs)) = Len(vs)
           /\ \A i \in 1 .. Len(vs) : valuePieces(vs)[i] = appendString(vs[i])
           /\ FlattenSeq(valuePieces(vs)) \in Seq(Nat)
  <1>1. vs \in Seq(Seq(Nat)) /\ Len(vs) \in Nat
    BY LenProperties DEF Writable
  <1>2. \A i \in 1 .. Len(vs) : vs[i] \in Seq(Nat) /\ Fits(Len(vs[i]))
    BY <1>1, ElementOfSeq DEF Writable
  <1>3. \A i \in 1 .. Len(vs) : appendString(vs[i]) \in Seq(Nat)
    BY <1>2, StringType
  <1>4. valuePieces(vs) \in [1 .. Len(vs) -> Seq(Nat)]
    BY <1>3 DEF valuePieces
  <1>5. valuePieces(vs) \in Seq(Seq(Nat)) /\ Len(valuePieces(vs)) = Len(vs)
    <2>1. PICK b, m : b = valuePieces(vs) /\ m = Len(vs)
      OBVIOUS
    <2>2. m \in Nat /\ b \in [1 .. m -> Seq(Nat)]
      BY <1>1, <1>4, <2>1
    <2>3. b \in Seq(Seq(Nat)) /\ Len(b) = m
      BY <2>2, SeqDef, LenProperties
    <2>. QED  BY <2>1, <2>3
  <1>6. PICK c : Appended(valuePieces(vs), c)
                 /\ FlattenSeq(valuePieces(vs)) = c[Len(valuePieces(vs))]
    BY <1>5, FlattenSteps
  <1>7. FlattenSeq(valuePieces(vs)) \in Seq(Nat)
    BY <1>1, <1>5, <1>6 DEF Appended
  <1>. QED  BY <1>5, <1>7 DEF valuePieces

(* readValues reads them back, every one and in order. *)
LEMMA ValuesWritten ==
    ASSUME NEW vs, Writable(vs), NEW name \in Seq(Nat), NEW y \in Seq(Nat), NEW k \in Reader,
           k.err = FALSE, name \notin DOMAIN k.header,
           k.buf = FlattenSeq(valuePieces(vs)) \o y
    PROVE  readValues(k, name, Len(vs))
             = [buf |-> y, err |-> FALSE, header |-> kept(k.header, name, vs)]
  <1>1. PICK n : n = Len(vs)
    OBVIOUS
  <1>2. vs \in Seq(Seq(Nat)) /\ n \in Nat
    BY <1>1, LenProperties DEF Writable
  <1>3. PICK p : p = valuePieces(vs)
    OBVIOUS
  <1>4. p \in Seq(Seq(Nat)) /\ Len(p) = n /\ \A i \in 1 .. n : p[i] = appendString(vs[i])
    BY <1>1, <1>3, ValuePieces
  <1>5. PICK c : Appended(p, c) /\ FlattenSeq(p) = c[n]
    BY <1>4, FlattenSteps
  <1>6. /\ \A i \in 0 .. n : c[i] \in Seq(Nat)
        /\ c[0] = <<>> /\ \A i \in 1 .. n : c[i] = c[i - 1] \o p[i]
    BY <1>4, <1>5 DEF Appended
  <1> DEFINE First(i) == SubSeq(vs, 1, i)
             Done(i, x, h) ==
                [buf |-> x, err |-> FALSE, header |-> kept(h.header, name, First(i))]
             At(i, x, h) ==
                h.err = FALSE /\ name \notin DOMAIN h.header /\ h.buf = c[i] \o x
                  => readValues(h, name, i) = Done(i, x, h)
             T == {i \in 0 .. n : \A x \in Seq(Nat), h \in Reader : At(i, x, h)}
  <1>7. 0 \in T
    <2>1. SUFFICES ASSUME NEW x \in Seq(Nat), NEW h \in Reader, h.err = FALSE, h.buf = c[0] \o x
                   PROVE  readValues(h, name, 0) = Done(0, x, h)
      <3>1. \A x \in Seq(Nat), h \in Reader : At(0, x, h)
        BY <2>1, Zenon
      <3> HIDE DEF At
      <3>. QED  BY <1>2, <3>1
    <2>2. h.buf = x
      BY <1>6, <2>1, ConcatEmptySeq
    <2>3. First(0) = <<>>
      BY SubSeqEmpty
    <2> HIDE DEF First
    <2>4. kept(h.header, name, First(0)) = h.header
      BY <2>3 DEF kept
    <2>5. readValues(h, name, 0) = h
      BY ReadValuesSteps
    <2>6. h = [buf |-> h.buf, err |-> h.err, header |-> h.header]
      BY ReaderIsDecoder
    <2>. QED  BY <2>1, <2>2, <2>4, <2>5, <2>6
  <1>8. ASSUME NEW i \in 0 .. n - 1, i \in T PROVE i + 1 \in T
    <2>1. PICK j : j = i + 1
      OBVIOUS
    <2>2. j \in 1 .. n /\ j \in 0 .. n /\ j - 1 = i /\ i \in 0 .. n /\ i \in Nat
      BY <1>2, <2>1
    <2>3. SUFFICES ASSUME NEW x \in Seq(Nat), NEW h \in Reader, h.err = FALSE,
                          name \notin DOMAIN h.header, h.buf = c[j] \o x
                   PROVE  readValues(h, name, j) = Done(j, x, h)
      BY <2>1, <2>2
    <2>4. PICK s : s = vs[j]
      OBVIOUS
    <2>5. s \in Seq(Nat) /\ Fits(Len(s)) /\ p[j] = appendString(s)
      BY <1>1, <1>2, <1>4, <2>2, <2>4, ElementOfSeq DEF Writable
    <2>6. PICK a \in Seq(Nat) : a = appendString(s)
      BY <2>5, StringType
    <2>7. PICK z : z = a \o x
      OBVIOUS
    <2>8. z \in Seq(Nat)
      BY <2>7, ConcatProperties
    <2>9. PICK ci \in Seq(Nat) : ci = c[i]
      BY <1>6, <2>2
    <2>10. c[j] = ci \o a
      BY <1>6, <2>2, <2>5, <2>6, <2>9
    <2>11. h.buf = ci \o z
      <3>1. (ci \o a) \o x = ci \o (a \o x)
        BY ConcatAssociative, SMTT(30)
      <3>. QED  BY <2>3, <2>7, <2>10, <3>1, Zenon
    <2>12. readValues(h, name, i) = Done(i, z, h)
      BY <1>8, <2>3, <2>8, <2>9, <2>11
    <2>13. PICK r \in Reader : r = readValues(h, name, i)
      BY <2>2, ReadValuesSteps
    <2>14. readValues(h, name, j) = readValue(r, name)
      BY <2>1, <2>2, <2>13, ReadValuesSteps
    <2>15. First(i) \in Seq(Seq(Nat)) /\ Append(First(i), s) = First(j)
      <3>1. \A m \in 1 .. i : vs[m] \in Seq(Nat)
        BY <1>1, <1>2, <2>2, ElementOfSeq
      <3>2. First(i) \in Seq(Seq(Nat))
        BY <2>2, <3>1, SubSeqProperties
      <3>3. 1 \in 1 .. Len(vs) /\ j \in 1 .. Len(vs)
        BY <1>1, <1>2, <2>2
      <3>4. SubSeq(vs, 1, j) = SubSeq(vs, 1, j - 1) \o <<vs[j]>>
        BY <1>2, <3>3, SubSeqRecursiveSecond
      <3>5. SubSeq(vs, 1, j) = First(i) \o <<s>>
        BY <2>2, <2>4, <3>4
      <3>6. Append(First(i), s) = First(i) \o <<s>>
        BY <2>5, <3>2, AppendIsConcat
      <3>. QED  BY <3>2, <3>5, <3>6
    <2> HIDE DEF First
    <2>16. PICK g, fi : g = kept(h.header, name, First(i)) /\ fi = First(i)
      OBVIOUS
    <2>17. r = [buf |-> z, err |-> FALSE, header |-> g]
      BY <2>12, <2>13, <2>16
    <2>18. r.err = FALSE /\ r.buf = appendString(s) \o x /\ r.header = kept(h.header, name, fi)
      BY <2>6, <2>7, <2>16, <2>17
    <2>19. bytes(r) = [v |-> s, buf |-> x, err |-> FALSE]
      BY <2>5, <2>18, BytesWritten
    <2>20. PICK hd, fj : hd = h.header /\ fj = First(j)
      OBVIOUS
    <2>21. readValue(r, name) = [buf |-> x, err |-> FALSE, header |-> kept(hd, name, fj)]
      <3>1. /\ hd \in HttpHeader /\ name \notin DOMAIN hd /\ fi \in Seq(Seq(Nat))
            /\ fj = Append(fi, s) /\ r.header = kept(hd, name, fi)
        BY <2>3, <2>15, <2>16, <2>18, <2>20, ReaderIsDecoder
      <3>2. r \in Reader /\ s \in Seq(Nat)
        BY <2>5, <2>13
      <3>3. add(kept(hd, name, fi), name, s) = kept(hd, name, Append(fi, s))
        BY <3>1, <3>2, AddKept
      <3>4. PICK gj : gj = kept(hd, name, fj)
        OBVIOUS
      <3>5. add(r.header, name, s) = gj
        BY <3>1, <3>3, <3>4
      <3>6. readValue(r, name) = [buf |-> x, err |-> FALSE, header |-> gj]
        <4>1. bytes(r).v = s /\ bytes(r).buf = x /\ bytes(r).err = FALSE
          BY <2>19
        <4>2. readValue(r, name)
                = [buf |-> bytes(r).buf, err |-> bytes(r).err,
                   header |-> IF bytes(r).err THEN r.header
                              ELSE add(r.header, name, bytes(r).v)]
          BY Zenon DEF readValue
        <4>. QED  BY <3>5, <4>1, <4>2
      <3>. QED  BY <3>4, <3>6
    <2>. QED  BY <2>14, <2>20, <2>21
  <1>9. \A i \in 0 .. n : i \in T
    <2> HIDE DEF T
    <2>. QED  BY <1>2, <1>7, <1>8, Climb
  <1>10. n \in 0 .. n
    BY <1>2
  <1>11. readValues(k, name, n) = Done(n, y, k)
    BY <1>3, <1>5, <1>9, <1>10
  <1>12. First(n) = vs
    BY <1>1, <1>2, SubSeqFull
  <1>. QED  BY <1>1, <1>11, <1>12

LEMMA Regroup3 ==
    ASSUME NEW a \in Seq(Nat), NEW b \in Seq(Nat), NEW c \in Seq(Nat), NEW x \in Seq(Nat)
    PROVE  Cat(Cat(Cat(a, b), c), x) = Cat(a, Cat(b, Cat(c, x)))
  <1>1. PICK ab, cx : ab = Cat(a, b) /\ cx = Cat(c, x)
    OBVIOUS
  <1>2. ab \in Seq(Nat) /\ cx \in Seq(Nat)
    BY <1>1, CatSeq
  <1>3. Cat(Cat(ab, c), x) = Cat(ab, cx)
    BY <1>1, <1>2, CatAssociative
  <1>4. Cat(ab, cx) = Cat(a, Cat(b, cx))
    BY <1>1, <1>2, CatAssociative
  <1>. QED  BY <1>1, <1>3, <1>4, Zenon

(* What appendHeader writes, in the order in which readName reads it. *)
LEMMA HeaderParts ==
    ASSUME NEW name \in Seq(Nat), Fits(Len(name)), NEW vs, Writable(vs), NEW x \in Seq(Nat),
           NEW y, y = Cat(FlattenSeq(valuePieces(vs)), x),
           NEW z, z = Cat(AppendUvarint(Len(vs)), y)
    PROVE  /\ appendHeader(name, vs) \in Seq(Nat) /\ y \in Seq(Nat) /\ z \in Seq(Nat)
           /\ Cat(appendHeader(name, vs), x) = Cat(appendString(name), z)
  <1>1. PICK a, b, c : /\ a = appendString(name) /\ b = AppendUvarint(Len(vs))
                       /\ c = FlattenSeq(valuePieces(vs))
    OBVIOUS
  <1>2. a \in Seq(Nat) /\ b \in Seq(Nat) /\ c \in Seq(Nat)
    BY <1>1, StringType, VarintBytes, ValuePieces DEF Writable
  <1>3. appendHeader(name, vs) = (a \o b) \o c
    BY <1>1, Zenon DEF appendHeader, valuePieces
  <1>4. PICK ab : ab = Cat(a, b) /\ y = Cat(c, x)
    BY <1>1
  <1>5. ab \in Seq(Nat) /\ y \in Seq(Nat)
    BY <1>2, <1>4, CatSeq
  <1>6. PICK abc : abc = Cat(ab, c) /\ z = Cat(b, y)
    BY <1>1
  <1>7. abc \in Seq(Nat) /\ z \in Seq(Nat)
    BY <1>2, <1>5, <1>6, CatSeq
  <1>8. Cat(abc, x) = Cat(a, z)
    <2>1. Cat(Cat(Cat(a, b), c), x) = Cat(a, Cat(b, Cat(c, x)))
      BY <1>2, Regroup3
    <2>. QED  BY <1>4, <1>6, <2>1, Zenon
  <1>9. appendHeader(name, vs) = abc
    BY <1>3, <1>4, <1>6, Zenon DEF Cat
  <1>. QED  BY <1>1, <1>5, <1>7, <1>8, <1>9

(* readName reads one header back, or fails for too many values. *)
LEMMA NameWritten ==
    ASSUME NEW h \in Reader, h.err = FALSE, NEW name \in Seq(Nat), Fits(Len(name)),
           NEW vs, Writable(vs), name \notin DOMAIN h.header, NEW x \in Seq(Nat),
           h.buf = appendHeader(name, vs) \o x
    PROVE  IF Len(vs) <= maxHeaderValues
           THEN readName(h) = [buf |-> x, err |-> FALSE, header |-> kept(h.header, name, vs)]
           ELSE readName(h).err
  <1>1. PICK y : y = Cat(FlattenSeq(valuePieces(vs)), x)
    OBVIOUS
  <1>2. PICK z : z = Cat(AppendUvarint(Len(vs)), y)
    OBVIOUS
  <1>3. y \in Seq(Nat) /\ z \in Seq(Nat) /\ h.buf = appendString(name) \o z
    <2>1. /\ y \in Seq(Nat) /\ z \in Seq(Nat)
          /\ Cat(appendHeader(name, vs), x) = Cat(appendString(name), z)
      BY <1>1, <1>2, HeaderParts
    <2>. QED  BY <2>1, Zenon DEF Cat
  <1>4. nameRead(h) = [v |-> name, buf |-> z, err |-> FALSE]
    BY <1>3, BytesWritten DEF nameRead
  <1>5. Fits(Len(vs)) /\ Len(vs) \in Nat /\ maxHeaderValues \in Nat
    BY LenProperties, CodecAssumption DEF Writable
  <1>6. uvarint(nameRead(h)) = [v |-> Len(vs), buf |-> y, err |-> FALSE]
    <2>1. PICK s : s = nameRead(h)
      OBVIOUS
    <2>2. s.err = FALSE /\ s.buf = AppendUvarint(Len(vs)) \o y
      BY <1>2, <1>4, <2>1 DEF Cat
    <2>. QED  BY <1>3, <1>5, <2>1, <2>2, UvarintWritten
  <1>7. PICK a : a = afterCount(h)
    OBVIOUS
  <1>8. a \in Reader /\ readName(h) = readValues(a, name, countRead(h).v)
    BY <1>4, <1>7, ReadNameParts
  <1>9. PICK u : u = uvarint(nameRead(h))
    OBVIOUS
  <1>10. u.v = Len(vs) /\ u.buf = y /\ u.err = FALSE
    BY <1>6, <1>9
  <1>11. countRead(h) = IF u.v > maxHeaderValues
                        THEN [v |-> 0, buf |-> u.buf, err |-> TRUE] ELSE u
    BY <1>9 DEF countRead, limited
  <1>12. CASE Len(vs) <= maxHeaderValues
    <2>1. countRead(h) = u
      BY <1>5, <1>10, <1>11, <1>12
    <2>2. a = [buf |-> y, err |-> FALSE, header |-> h.header]
      BY <1>7, <1>10, <2>1 DEF afterCount
    <2>3. a.err = FALSE /\ a.buf = y /\ a.header = h.header
      BY <2>2
    <2>4. readValues(a, name, Len(vs))
            = [buf |-> x, err |-> FALSE, header |-> kept(a.header, name, vs)]
      <3>1. a.buf = FlattenSeq(valuePieces(vs)) \o x
        BY <1>1, <2>3, Zenon DEF Cat
      <3>2. a \in Reader /\ name \notin DOMAIN a.header
        BY <1>8, <2>3
      <3>. QED  BY <2>3, <3>1, <3>2, ValuesWritten, Zenon
    <2>. QED  BY <1>8, <1>10, <1>12, <2>1, <2>3, <2>4
  <1>13. CASE ~(Len(vs) <= maxHeaderValues)
    <2>1. countRead(h) = [v |-> 0, buf |-> y, err |-> TRUE]
      BY <1>5, <1>10, <1>11, <1>13
    <2>2. countRead(h).v = 0 /\ countRead(h).err = TRUE
      BY <2>1
    <2>3. a.err = TRUE
      BY <1>7, <2>2 DEF afterCount
    <2>4. readName(h) = a
      BY <1>8, <2>2, ReadValuesSteps
    <2>. QED  BY <1>13, <2>3, <2>4
  <1>. QED  BY <1>12, <1>13

(* The header once the first k names of q are read. *)
upTo(q, hd, k) ==
    [n \in {q[i] : i \in {j \in 1 .. k : hd[q[j]] # <<>>}} |-> hd[n]]

WritableNames(q, hd) ==
    /\ q \in Seq(Seq(Nat)) /\ \A i, j \in 1 .. Len(q) : q[i] = q[j] => i = j
    /\ \A i \in 1 .. Len(q) : Fits(Len(q[i])) /\ Writable(hd[q[i]])

(* Names are different, so that the next one is new to the header. *)
LEMMA UpToNext ==
    ASSUME NEW q, NEW hd, WritableNames(q, hd), NEW k \in 1 .. Len(q)
    PROVE  /\ q[k] \notin DOMAIN upTo(q, hd, k - 1)
           /\ kept(upTo(q, hd, k - 1), q[k], hd[q[k]]) = upTo(q, hd, k)
  <1>1. PICK n : n = Len(q)
    OBVIOUS
  <1>2. n \in Nat /\ k \in 1 .. n /\ \A i, j \in 1 .. n : q[i] = q[j] => i = j
    BY <1>1, LenProperties DEF WritableNames
  <1> DEFINE D(m) == {q[i] : i \in {j \in 1 .. m : hd[q[j]] # <<>>}}
  <1>3. q[k] \notin D(k - 1)
    <2>1. \A i \in 1 .. k - 1 : i \in 1 .. n /\ i # k
      BY <1>2
    <2>. QED  BY <1>2, <2>1
  <1>4. DOMAIN upTo(q, hd, k - 1) = D(k - 1)
    BY DEF upTo
  <1>5. CASE hd[q[k]] = <<>>
    <2>1. {j \in 1 .. k : hd[q[j]] # <<>>} = {j \in 1 .. k - 1 : hd[q[j]] # <<>>}
      <3>1. \A j \in 1 .. k : j = k \/ j \in 1 .. k - 1
        BY <1>2
      <3>2. \A j \in 1 .. k - 1 : j \in 1 .. k
        BY <1>2
      <3>. QED  BY <1>5, <3>1, <3>2
    <2>2. D(k) = D(k - 1)
      BY <2>1
    <2>3. upTo(q, hd, k) = upTo(q, hd, k - 1)
      BY <2>2 DEF upTo
    <2>. QED  BY <1>3, <1>4, <1>5, <2>3 DEF kept
  <1>6. CASE hd[q[k]] # <<>>
    <2>1. D(k) = D(k - 1) \cup {q[k]}
      <3>1. \A j \in 1 .. k : j = k \/ j \in 1 .. k - 1
        BY <1>2
      <3>2. k \in 1 .. k /\ \A j \in 1 .. k - 1 : j \in 1 .. k
        BY <1>2
      <3>. QED  BY <1>6, <3>1, <3>2
    <2>2. PICK g : g = upTo(q, hd, k - 1)
      OBVIOUS
    <2>3. PICK E, m : E = D(k - 1) /\ m = q[k]
      OBVIOUS
    <2>4. g = [x \in E |-> hd[x]]
      BY <2>2, <2>3 DEF upTo
    <2>5. kept(g, m, hd[m]) = [x \in E \cup {m} |-> IF x # m THEN g[x] ELSE hd[m]]
      BY <1>6, <2>3, <2>4 DEF kept
    <2>6. upTo(q, hd, k) = [x \in E \cup {m} |-> hd[x]]
      BY <2>1, <2>3 DEF upTo
    <2> HIDE DEF D
    <2>7. [x \in E \cup {m} |-> IF x # m THEN g[x] ELSE hd[m]] = [x \in E \cup {m} |-> hd[x]]
      BY <2>4
    <2>. QED  BY <1>3, <1>4, <2>2, <2>3, <2>5, <2>6, <2>7
  <1>. QED  BY <1>5, <1>6

namePieces(q, hd) == [i \in 1 .. Len(q) |-> appendHeader(q[i], hd[q[i]])]

(* The header as MarshalBinary writes it. *)
LEMMA NamePieces ==
    ASSUME NEW q, NEW hd, WritableNames(q, hd)
    PROVE  /\ namePieces(q, hd) \in Seq(Seq(Nat)) /\ Len(namePieces(q, hd)) = Len(q)
           /\ \A i \in 1 .. Len(q) : namePieces(q, hd)[i] = appendHeader(q[i], hd[q[i]])
           /\ FlattenSeq(namePieces(q, hd)) \in Seq(Nat)
  <1>1. q \in Seq(Seq(Nat)) /\ Len(q) \in Nat
    BY LenProperties DEF WritableNames
  <1>2. \A i \in 1 .. Len(q) : q[i] \in Seq(Nat) /\ Fits(Len(q[i])) /\ Writable(hd[q[i]])
    BY <1>1, ElementOfSeq DEF WritableNames
  <1>3. <<>> \in Seq(Nat)
    BY EmptySeq
  <1>4. ASSUME NEW i \in 1 .. Len(q)
        PROVE  appendHeader(q[i], hd[q[i]]) \in Seq(Nat)
    <2>1. PICK y : y = Cat(FlattenSeq(valuePieces(hd[q[i]])), <<>>)
      OBVIOUS
    <2>2. PICK z : z = Cat(AppendUvarint(Len(hd[q[i]])), y)
      OBVIOUS
    <2>3. PICK a, vs, e : a = q[i] /\ vs = hd[q[i]] /\ e = <<>>
      OBVIOUS
    <2>4. a \in Seq(Nat) /\ Fits(Len(a)) /\ Writable(vs) /\ e \in Seq(Nat)
      BY <1>2, <1>3, <2>3
    <2>5. y = Cat(FlattenSeq(valuePieces(vs)), e) /\ z = Cat(AppendUvarint(Len(vs)), y)
      BY <2>1, <2>2, <2>3
    <2>6. appendHeader(a, vs) \in Seq(Nat)
      BY <2>4, <2>5, HeaderParts
    <2>. QED  BY <2>3, <2>6
  <1>5. PICK b, m : b = namePieces(q, hd) /\ m = Len(q)
    OBVIOUS
  <1>6. m \in Nat /\ b \in [1 .. m -> Seq(Nat)]
    BY <1>1, <1>4, <1>5 DEF namePieces
  <1>7. b \in Seq(Seq(Nat)) /\ Len(b) = m
    BY <1>6, SeqDef, LenProperties
  <1>8. PICK c : Appended(b, c) /\ FlattenSeq(b) = c[Len(b)]
    BY <1>7, FlattenSteps
  <1>9. FlattenSeq(b) \in Seq(Nat)
    BY <1>6, <1>7, <1>8 DEF Appended
  <1>. QED  BY <1>5, <1>7, <1>9 DEF namePieces

LEMMA UpToNone ==
    ASSUME NEW q, NEW hd
    PROVE  upTo(q, hd, 0) = <<>>
  <1>1. PICK g : g = upTo(q, hd, 0)
    OBVIOUS
  <1>2. {q[i] : i \in {j \in 1 .. 0 : hd[q[j]] # <<>>}} = {}
    OBVIOUS
  <1>3. g = [n \in {} |-> hd[n]]
    BY <1>1, <1>2 DEF upTo
  <1>4. g = [n \in {} |-> g[n]]
    BY <1>3
  <1>. QED  BY <1>1, <1>4, NoHeader

(* readNames reads it back, or fails for a name with too many values. *)
LEMMA NamesWritten ==
    ASSUME NEW q, NEW hd, WritableNames(q, hd), NEW y \in Seq(Nat), NEW k \in Reader,
           k.err = FALSE, k.header = <<>>, k.buf = Cat(FlattenSeq(namePieces(q, hd)), y)
    PROVE  IF \A i \in 1 .. Len(q) : Len(hd[q[i]]) <= maxHeaderValues
           THEN readNames(k, Len(q))
                  = [buf |-> y, err |-> FALSE, header |-> upTo(q, hd, Len(q))]
           ELSE readNames(k, Len(q)).err
  <1>1. PICK n : n = Len(q)
    OBVIOUS
  <1>2. /\ q \in Seq(Seq(Nat)) /\ n \in Nat
        /\ \A i \in 1 .. n : q[i] \in Seq(Nat) /\ Fits(Len(q[i])) /\ Writable(hd[q[i]])
    BY <1>1, LenProperties, ElementOfSeq DEF WritableNames
  <1>3. PICK p : p = namePieces(q, hd)
    OBVIOUS
  <1>4. /\ p \in Seq(Seq(Nat)) /\ Len(p) = n
        /\ \A i \in 1 .. n : p[i] = appendHeader(q[i], hd[q[i]])
    BY <1>1, <1>3, NamePieces
  <1>5. PICK c : Appended(p, c) /\ FlattenSeq(p) = c[n]
    BY <1>4, FlattenSteps
  <1>6. /\ \A i \in 0 .. n : c[i] \in Seq(Nat)
        /\ c[0] = <<>> /\ \A i \in 1 .. n : c[i] = c[i - 1] \o p[i]
    BY <1>4, <1>5 DEF Appended
  <1> DEFINE Short(i) == \A j \in 1 .. i : Len(hd[q[j]]) <= maxHeaderValues
             Done(i, x) == [buf |-> x, err |-> FALSE, header |-> upTo(q, hd, i)]
             At(i, x, h) ==
                h.err = FALSE /\ h.header = <<>> /\ h.buf = Cat(c[i], x)
                  => IF Short(i) THEN readNames(h, i) = Done(i, x) ELSE readNames(h, i).err
             T == {i \in 0 .. n : \A x \in Seq(Nat), h \in Reader : At(i, x, h)}
  <1>7. 0 \in T
    <2>1. ASSUME NEW x \in Seq(Nat), NEW h \in Reader, h.err = FALSE, h.header = <<>>,
                 h.buf = Cat(c[0], x)
          PROVE  Short(0) /\ readNames(h, 0) = Done(0, x)
      <3>1. h.buf = x
        BY <1>6, <2>1, ConcatEmptySeq DEF Cat
      <3>2. Short(0)
        OBVIOUS
      <3>3. upTo(q, hd, 0) = h.header
        BY <2>1, UpToNone
      <3>4. readNames(h, 0) = h
        BY ReadNamesSteps
      <3>5. h = [buf |-> h.buf, err |-> h.err, header |-> h.header]
        BY ReaderIsDecoder
      <3>. QED  BY <2>1, <3>1, <3>2, <3>3, <3>4, <3>5
    <2>2. \A x \in Seq(Nat), h \in Reader : At(0, x, h)
      <3> HIDE DEF Done, Short
      <3>. QED  BY <2>1
    <2> HIDE DEF At
    <2>. QED  BY <1>2, <2>2
  <1>8. ASSUME NEW i \in 0 .. n - 1, i \in T PROVE i + 1 \in T
    <2>1. PICK j : j = i + 1
      OBVIOUS
    <2>2. j \in 1 .. n /\ j \in 0 .. n /\ j - 1 = i /\ i \in 0 .. n /\ i \in Nat
      BY <1>2, <2>1
    <2>3. \A x \in Seq(Nat), h \in Reader : At(i, x, h)
      BY <1>8
    <2>4. ASSUME NEW x \in Seq(Nat), NEW h \in Reader, h.err = FALSE, h.header = <<>>,
                 h.buf = Cat(c[j], x)
          PROVE  IF Short(j) THEN readNames(h, j) = Done(j, x) ELSE readNames(h, j).err
      <3>1. PICK nm, vs : nm = q[j] /\ vs = hd[q[j]]
        OBVIOUS
      <3>2. nm \in Seq(Nat) /\ Fits(Len(nm)) /\ Writable(vs) /\ p[j] = appendHeader(nm, vs)
        BY <1>2, <1>4, <2>2, <3>1
      <3>3. PICK a : a = appendHeader(nm, vs)
        OBVIOUS
      <3>4. a \in Seq(Nat)
        BY <1>4, <2>2, <3>2, <3>3, ElementOfSeq
      <3>5. PICK z : z = Cat(a, x)
        OBVIOUS
      <3>6. z \in Seq(Nat)
        BY <3>4, <3>5, CatSeq
      <3>7. PICK ci : ci = c[i]
        OBVIOUS
      <3>8. ci \in Seq(Nat)
        BY <1>6, <2>2, <3>7
      <3>9. c[j] = Cat(ci, a)
        BY <1>6, <2>2, <3>2, <3>3, <3>7, Zenon DEF Cat
      <3>10. h.buf = Cat(ci, z)
        <4>1. Cat(Cat(ci, a), x) = Cat(ci, Cat(a, x))
          BY <3>4, <3>8, CatAssociative
        <4>. QED  BY <2>4, <3>5, <3>9, <4>1, Zenon
      <3>11. IF Short(i) THEN readNames(h, i) = Done(i, z) ELSE readNames(h, i).err
        <4>1. At(i, z, h)
          BY <2>3, <3>6
        <4>. QED  BY <2>4, <3>7, <3>10, <4>1
      <3>12. PICK r \in Reader : r = readNames(h, i)
        BY <2>2, ReadNamesSteps
      <3>13. readNames(h, j) = readName(r)
        BY <2>1, <2>2, <3>12, ReadNamesSteps
      <3>14. Short(j) <=> Short(i) /\ Len(vs) <= maxHeaderValues
        <4>1. \A m \in 1 .. j : m = j \/ m \in 1 .. i
          BY <2>2
        <4>2. j \in 1 .. j /\ \A m \in 1 .. i : m \in 1 .. j
          BY <2>2
        <4>. QED  BY <3>1, <4>1, <4>2
      <3> HIDE DEF Short, At, T
      <3>15. CASE ~Short(i)
        <4>1. r.err
          BY <3>11, <3>12, <3>15
        <4>2. readName(r).err
          BY <3>12, <4>1, ReadNameType
        <4>. QED  BY <3>13, <3>14, <3>15, <4>2
      <3>16. CASE Short(i)
        <4>1. r = [buf |-> z, err |-> FALSE, header |-> upTo(q, hd, i)]
          BY <3>11, <3>12, <3>16
        <4>2. PICK g : g = upTo(q, hd, i)
          OBVIOUS
        <4>3. r.buf = z /\ r.err = FALSE /\ r.header = g
          BY <4>1, <4>2
        <4>4. nm \notin DOMAIN g /\ kept(g, nm, vs) = upTo(q, hd, j)
          BY <1>1, <2>2, <3>1, <4>2, UpToNext
        <4>5. IF Len(vs) <= maxHeaderValues
              THEN readName(r) = [buf |-> x, err |-> FALSE, header |-> kept(g, nm, vs)]
              ELSE readName(r).err
          <5>1. r.buf = appendHeader(nm, vs) \o x
            BY <3>3, <3>5, <4>3, Zenon DEF Cat
          <5>2. r \in Reader /\ nm \notin DOMAIN r.header
            BY <3>12, <4>3, <4>4
          <5>3. IF Len(vs) <= maxHeaderValues
                THEN readName(r) = [buf |-> x, err |-> FALSE, header |-> kept(r.header, nm, vs)]
                ELSE readName(r).err
            BY <3>2, <4>3, <5>1, <5>2, NameWritten
          <5>. QED  BY <4>3, <5>3
        <4>6. CASE Len(vs) <= maxHeaderValues
          BY <3>13, <3>14, <3>16, <4>4, <4>5, <4>6
        <4>7. CASE ~(Len(vs) <= maxHeaderValues)
          BY <3>13, <3>14, <3>16, <4>5, <4>7
        <4>. QED  BY <4>6, <4>7
      <3>. QED  BY <3>15, <3>16
    <2>5. \A x \in Seq(Nat), h \in Reader : At(j, x, h)
      <3> HIDE DEF Done, Short
      <3>. QED  BY <2>4
    <2> HIDE DEF At
    <2>. QED  BY <2>1, <2>2, <2>5
  <1>9. \A i \in 0 .. n : i \in T
    <2> HIDE DEF T
    <2>. QED  BY <1>2, <1>7, <1>8, Climb
  <1>10. At(n, y, k)
    <2> HIDE DEF At
    <2>1. n \in 0 .. n
      BY <1>2
    <2>. QED  BY <1>9, <2>1
  <1>11. k.buf = Cat(c[n], y)
    BY <1>3, <1>5
  <1>. QED  BY <1>1, <1>10, <1>11

-----------------------------------------------------------------------------
(* The names in order *)

(* The order of the bytes is a total order of the names. *)
LEMMA BeforeTotal ==
    ASSUME NEW a \in Seq(Nat), NEW b \in Seq(Nat), a # b
    PROVE  Before(a, b) \/ Before(b, a)
  <1> DEFINE D == {i \in Nat : /\ i >= 1 /\ (i <= Len(a) \/ i <= Len(b))
                               /\ (i <= Len(a) /\ i <= Len(b)) => a[i] # b[i]}
  <1>1. /\ Len(a) \in Nat /\ Len(b) \in Nat
        /\ \A i \in 1 .. Len(a) : a[i] \in Nat
        /\ \A i \in 1 .. Len(b) : b[i] \in Nat
    BY LenProperties, ElementOfSeq
  <1>2. D # {}
    <2>1. SUFFICES ASSUME D = {} PROVE a = b
      OBVIOUS
    <2>2. Len(a) = Len(b)
      <3>1. Len(a) + 1 \in Nat /\ Len(a) + 1 \notin D /\ Len(b) + 1 \in Nat /\ Len(b) + 1 \notin D
        BY <1>1, <2>1
      <3>2. ~(Len(a) + 1 <= Len(b))
        BY <1>1, <3>1
      <3>3. ~(Len(b) + 1 <= Len(a))
        BY <1>1, <3>1
      <3>. QED  BY <1>1, <3>2, <3>3
    <2>3. \A i \in 1 .. Len(a) : a[i] = b[i]
      <3>1. SUFFICES ASSUME NEW i \in 1 .. Len(a), a[i] # b[i] PROVE FALSE
        OBVIOUS
      <3>2. i \in Nat /\ i >= 1 /\ i <= Len(a)
        BY <1>1
      <3>3. i \in D
        BY <3>1, <3>2
      <3>. QED  BY <2>1, <3>3
    <2>. QED  BY <2>2, <2>3, SeqEqual
  <1>3. D \in SUBSET Nat
    OBVIOUS
  <1>4. PICK k \in D : \A i \in D : k <= i
    <2> HIDE DEF D
    <2>. QED  BY <1>2, <1>3, Least
  <1>5. k \in Nat /\ k >= 1 /\ (k <= Len(a) \/ k <= Len(b))
        /\ (k <= Len(a) /\ k <= Len(b) => a[k] # b[k])
    <2>1. k \in D
      BY <1>4
    <2>. QED  BY <2>1
  <1>6. ASSUME NEW i \in 1 .. k - 1
        PROVE  i <= Len(a) /\ i <= Len(b) /\ a[i] = b[i]
    <2>1. i \in Nat /\ i >= 1 /\ ~(k <= i) /\ (i <= Len(a) \/ i <= Len(b))
      BY <1>1, <1>5
    <2>2. i \notin D
      BY <1>4, <2>1
    <2>. QED  BY <2>1, <2>2
  <1> HIDE DEF D
  <1>7. CASE k > Len(a)
    <2>1. k \in 1 .. Len(b)
      BY <1>1, <1>5, <1>7
    <2>. QED  BY <1>6, <1>7, <2>1 DEF Before
  <1>8. CASE k > Len(b)
    <2>1. k \in 1 .. Len(a)
      BY <1>1, <1>5, <1>8
    <2>. QED  BY <1>6, <1>8, <2>1 DEF Before
  <1>9. CASE ~(k > Len(a)) /\ ~(k > Len(b))
    <2>1. k \in 1 .. Len(a) /\ k \in 1 .. Len(b) /\ a[k] # b[k]
      BY <1>1, <1>5, <1>9
    <2>2. a[k] < b[k] \/ b[k] < a[k]
      BY <1>1, <2>1
    <2>. QED  BY <1>6, <2>1, <2>2 DEF Before
  <1>. QED  BY <1>7, <1>8, <1>9

LEMMA BeforeIrreflexive ==
    ASSUME NEW a \in Seq(Nat)
    PROVE  ~Before(a, a)
  <1>1. Len(a) \in Nat /\ \A i \in 1 .. Len(a) : a[i] \in Nat
    BY LenProperties, ElementOfSeq
  <1>2. \A k \in 1 .. Len(a) : ~(k > Len(a)) /\ ~(a[k] < a[k])
    BY <1>1
  <1>. QED  BY <1>2 DEF Before

LEMMA BeforeTransitive ==
    ASSUME NEW a \in Seq(Nat), NEW b \in Seq(Nat), NEW c \in Seq(Nat),
           Before(a, b), Before(b, c)
    PROVE  Before(a, c)
  <1>1. /\ Len(a) \in Nat /\ Len(b) \in Nat /\ Len(c) \in Nat
        /\ \A i \in 1 .. Len(a) : a[i] \in Nat
        /\ \A i \in 1 .. Len(b) : b[i] \in Nat
        /\ \A i \in 1 .. Len(c) : c[i] \in Nat
    BY LenProperties, ElementOfSeq
  <1>2. PICK k \in 1 .. Len(b) : /\ \A i \in 1 .. k - 1 : i <= Len(a) /\ a[i] = b[i]
                                 /\ k > Len(a) \/ a[k] < b[k]
    BY DEF Before
  <1>3. PICK m \in 1 .. Len(c) : /\ \A i \in 1 .. m - 1 : i <= Len(b) /\ b[i] = c[i]
                                 /\ m > Len(b) \/ b[m] < c[m]
    BY DEF Before
  <1>4. PICK n \in 1 .. Len(c) : n <= k /\ n <= m /\ (n = k \/ n = m)
    BY <1>1, <1>2, <1>3
  <1>5. \A i \in 1 .. n - 1 : i <= Len(a) /\ a[i] = c[i]
    <2>1. \A i \in 1 .. n - 1 : i \in 1 .. k - 1 /\ i \in 1 .. m - 1
      BY <1>1, <1>2, <1>3, <1>4
    <2>. QED  BY <1>2, <1>3, <2>1
  <1>6. n > Len(a) \/ a[n] < c[n]
    <2>1. CASE n = k /\ n < m
      <3>1. k \in 1 .. m - 1
        BY <1>1, <1>2, <2>1
      <3>. QED  BY <1>2, <1>3, <2>1, <3>1
    <2>2. CASE n = m /\ n < k
      <3>1. m \in 1 .. k - 1 /\ m \in 1 .. Len(b) /\ ~(m > Len(b))
        BY <1>1, <1>2, <1>3, <2>2
      <3>. QED  BY <1>2, <1>3, <2>2, <3>1
    <2>3. CASE n = k /\ n = m
      <3>1. b[n] < c[n] /\ n \in 1 .. Len(b) /\ n \in 1 .. Len(c)
        BY <1>1, <1>2, <1>3, <2>3
      <3>2. SUFFICES ASSUME ~(n > Len(a)) PROVE a[n] < c[n]
        OBVIOUS
      <3>3. n \in 1 .. Len(a) /\ a[n] < b[n]
        BY <1>1, <1>2, <2>3, <3>1, <3>2
      <3>4. PICK s \in Nat, t \in Nat, u \in Nat : s = a[n] /\ t = b[n] /\ u = c[n]
        BY <1>1, <3>1, <3>3
      <3>5. s < t /\ t < u
        BY <3>1, <3>3, <3>4
      <3>6. s < u
        BY <3>5
      <3>. QED  BY <3>4, <3>6
    <2>4. (n = k /\ n < m) \/ (n = m /\ n < k) \/ (n = k /\ n = m)
      BY <1>1, <1>2, <1>3, <1>4, SMTT(30)
    <2>. QED  BY <2>1, <2>2, <2>3, <2>4
  <1>. QED  BY <1>4, <1>5, <1>6 DEF Before

(* Any finite set of names has a last one. *)
LEMMA LastName ==
    ASSUME NEW N \in SUBSET Seq(Nat), IsFiniteSet(N), N # {}
    PROVE  \E m \in N : \A n \in N \ {m} : Before(n, m)
  <1> DEFINE HasLast(M) == \E m \in M : \A n \in M \ {m} : Before(n, m)
             T == {i \in Nat : \A M \in SUBSET Seq(Nat) :
                      IsFiniteSet(M) /\ Cardinality(M) = i /\ M # {} => HasLast(M)}
  <1>1. 0 \in T
    BY FS_EmptySet
  <1>2. PICK k : k = Cardinality(N)
    OBVIOUS
  <1>3. k \in Nat
    BY <1>2, FS_CardinalityType
  <1>4. ASSUME NEW i \in 0 .. k - 1, i \in T PROVE i + 1 \in T
    <2>1. \A M \in SUBSET Seq(Nat) : IsFiniteSet(M) /\ Cardinality(M) = i /\ M # {} => HasLast(M)
      BY <1>4
    <2>2. ASSUME NEW M \in SUBSET Seq(Nat), IsFiniteSet(M), Cardinality(M) = i + 1, M # {}
          PROVE  HasLast(M)
      <3>1. PICK x : x \in M
        BY <2>2
      <3>2. PICK L : L = M \ {x}
        OBVIOUS
      <3>3. IsFiniteSet(L) /\ Cardinality(L) = Cardinality(M) - 1 /\ L \in SUBSET Seq(Nat)
        BY <2>2, <3>1, <3>2, FS_RemoveElement
      <3>4. Cardinality(L) = i
        BY <1>3, <2>2, <3>3
      <3>5. CASE L = {}
        BY <3>1, <3>2, <3>5
      <3>6. CASE L # {}
        <4>1. PICK m \in L : \A n \in L \ {m} : Before(n, m)
          BY <2>1, <3>3, <3>4, <3>6
        <4>2. m \in Seq(Nat) /\ x \in Seq(Nat) /\ m # x /\ m \in M
          BY <3>1, <3>2, <3>3, <4>1
        <4>3. CASE Before(x, m)
          <5>1. \A n \in M \ {m} : Before(n, m)
            BY <3>2, <4>1, <4>3
          <5>. QED  BY <4>2, <5>1
        <4>4. CASE ~Before(x, m)
          <5>1. Before(m, x)
            BY <4>2, <4>4, BeforeTotal
          <5>2. ASSUME NEW n \in M \ {x} PROVE Before(n, x)
            <6>1. n \in L /\ n \in Seq(Nat)
              BY <3>2, <3>3
            <6>2. CASE n = m
              BY <5>1, <6>2
            <6>3. CASE n # m
              <7>1. Before(n, m)
                BY <4>1, <6>1, <6>3
              <7>. QED  BY <4>2, <5>1, <6>1, <7>1, BeforeTransitive
            <6>. QED  BY <6>2, <6>3
          <5>. QED  BY <3>1, <5>2
        <4>. QED  BY <4>3, <4>4
      <3>. QED  BY <3>5, <3>6
    <2> HIDE DEF HasLast
    <2>. QED  BY <2>2
  <1> HIDE DEF T
  <1>5. \A i \in 0 .. k : i \in T
    BY <1>1, <1>3, <1>4, Climb
  <1>6. k \in 0 .. k
    BY <1>3
  <1>. QED  BY <1>2, <1>5, <1>6 DEF T

Sorted(N, q) ==
    /\ q \in [1 .. Cardinality(N) -> N]
    /\ \A n \in N : \E i \in DOMAIN q : q[i] = n
    /\ \A i, j \in DOMAIN q : i < j => Before(q[i], q[j])

(* So every finite set of names can be sorted. *)
LEMMA SortedExists ==
    ASSUME NEW N \in SUBSET Seq(Nat), IsFiniteSet(N)
    PROVE  \E q : Sorted(N, q)
  <1> DEFINE T == {i \in Nat : \A M \in SUBSET Seq(Nat) :
                      IsFiniteSet(M) /\ Cardinality(M) = i => \E q : Sorted(M, q)}
  <1>1. 0 \in T
    <2>1. ASSUME NEW M \in SUBSET Seq(Nat), IsFiniteSet(M), Cardinality(M) = 0
          PROVE  \E q : Sorted(M, q)
      <3>1. M = {}
        BY <2>1, FS_EmptySet
      <3>2. PICK q : q = [i \in 1 .. 0 |-> i]
        OBVIOUS
      <3>3. Sorted(M, q)
        BY <2>1, <3>1, <3>2 DEF Sorted
      <3>. QED  BY <3>3
    <2>. QED  BY <2>1
  <1>2. PICK k : k = Cardinality(N)
    OBVIOUS
  <1>3. k \in Nat
    BY <1>2, FS_CardinalityType
  <1>4. ASSUME NEW i \in 0 .. k - 1, i \in T PROVE i + 1 \in T
    <2>1. ASSUME NEW M \in SUBSET Seq(Nat), IsFiniteSet(M), Cardinality(M) = i + 1
          PROVE  \E q : Sorted(M, q)
      <3>1. M # {}
        BY <1>3, <2>1, FS_EmptySet
      <3>2. PICK m \in M : \A n \in M \ {m} : Before(n, m)
        BY <2>1, <3>1, LastName
      <3>3. PICK L : L = M \ {m}
        OBVIOUS
      <3>4. IsFiniteSet(L) /\ Cardinality(L) = Cardinality(M) - 1 /\ L \in SUBSET Seq(Nat)
        BY <2>1, <3>2, <3>3, FS_RemoveElement
      <3>5. Cardinality(L) = i /\ i \in Nat
        BY <1>3, <2>1, <3>4
      <3>6. PICK p : Sorted(L, p)
        BY <1>4, <3>4, <3>5
      <3>7. /\ p \in [1 .. i -> L]
            /\ \A n \in L : \E j \in 1 .. i : p[j] = n
            /\ \A j, l \in 1 .. i : j < l => Before(p[j], p[l])
        BY <3>5, <3>6 DEF Sorted
      <3> DEFINE q == [j \in 1 .. i + 1 |-> IF j = i + 1 THEN m ELSE p[j]]
      <3>8. \A j \in 1 .. i + 1 : j # i + 1 => j \in 1 .. i
        BY <3>5
      <3>9. i + 1 \in 1 .. i + 1 /\ \A j \in 1 .. i : j \in 1 .. i + 1 /\ j # i + 1
        BY <3>5
      <3>10. q[i + 1] = m /\ \A j \in 1 .. i : q[j] = p[j]
        BY <3>9
      <3>11. q \in [1 .. i + 1 -> M] /\ DOMAIN q = 1 .. i + 1
        BY <3>2, <3>3, <3>7, <3>8
      <3> HIDE DEF q
      <3>12. \A n \in M : \E j \in 1 .. i + 1 : q[j] = n
        BY <3>3, <3>7, <3>9, <3>10
      <3>13. ASSUME NEW j \in 1 .. i + 1, NEW l \in 1 .. i + 1, j < l
             PROVE  Before(q[j], q[l])
        <4>1. j \in 1 .. i
          BY <3>5, <3>13
        <4>2. CASE l = i + 1
          <5>1. q[j] \in M \ {m}
            BY <3>3, <3>7, <3>10, <4>1
          <5>. QED  BY <3>2, <3>10, <4>2, <5>1
        <4>3. CASE l # i + 1
          <5>1. l \in 1 .. i
            BY <3>8, <4>3
          <5>. QED  BY <3>7, <3>10, <3>13, <4>1, <5>1
        <4>. QED  BY <4>2, <4>3
      <3>14. Sorted(M, q)
        BY <2>1, <3>11, <3>12, <3>13 DEF Sorted
      <3>. QED  BY <3>14
    <2>. QED  BY <2>1
  <1> HIDE DEF T
  <1>5. \A i \in 0 .. k : i \in T
    BY <1>1, <1>3, <1>4, Climb
  <1>6. k \in 0 .. k
    BY <1>3
  <1>. QED  BY <1>2, <1>5, <1>6 DEF T

(* So the names are written in order, each of them once. *)
LEMMA StringsSorted ==
    ASSUME NEW N \in SUBSET Seq(Nat), IsFiniteSet(N)
    PROVE  /\ Strings(N) \in Seq(Seq(Nat)) /\ Len(Strings(N)) = Cardinality(N)
           /\ \A i \in 1 .. Len(Strings(N)) : Strings(N)[i] \in N
           /\ \A n \in N : \E i \in 1 .. Len(Strings(N)) : Strings(N)[i] = n
           /\ \A i, j \in 1 .. Len(Strings(N)) : Strings(N)[i] = Strings(N)[j] => i = j
  <1>1. PICK k : k = Cardinality(N)
    OBVIOUS
  <1>2. k \in Nat
    BY <1>1, FS_CardinalityType
  <1>3. PICK q : q = Strings(N)
    OBVIOUS
  <1>4. Sorted(N, q)
    <2>1. \E p \in [1 .. Cardinality(N) -> N] :
             /\ \A n \in N : \E i \in DOMAIN p : p[i] = n
             /\ \A i, j \in DOMAIN p : i < j => Before(p[i], p[j])
      BY SortedExists DEF Sorted
    <2>. QED  BY <1>3, <2>1, Zenon DEF Strings, Sorted
  <1>5. /\ q \in [1 .. k -> N] /\ DOMAIN q = 1 .. k
        /\ \A n \in N : \E i \in 1 .. k : q[i] = n
        /\ \A i, j \in 1 .. k : i < j => Before(q[i], q[j])
    BY <1>1, <1>4 DEF Sorted
  <1>6. q \in [1 .. k -> Seq(Nat)]
    BY <1>5
  <1>7. q \in Seq(Seq(Nat)) /\ Len(q) = k
    BY <1>2, <1>6, SeqDef, LenProperties
  <1>8. ASSUME NEW i \in 1 .. k, NEW j \in 1 .. k, q[i] = q[j] PROVE i = j
    <2>1. q[i] \in Seq(Nat)
      BY <1>6
    <2>2. ~Before(q[i], q[i])
      BY <2>1, BeforeIrreflexive
    <2>3. ~(i < j) /\ ~(j < i)
      BY <1>5, <1>8, <2>2
    <2>. QED  BY <1>2, <2>3
  <1>. QED  BY <1>1, <1>3, <1>5, <1>7, <1>8

(* The first error is kept to the end of this loop, too. *)
LEMMA ReadNamesLatch ==
    ASSUME NEW h \in Reader, NEW n \in Nat, h.err
    PROVE  readNames(h, n).err
  <1> DEFINE T == {i \in Nat : readNames(h, i).err}
  <1>1. 0 \in T
    BY ReadNamesSteps
  <1>2. ASSUME NEW i \in 0 .. n - 1, i \in T PROVE i + 1 \in T
    <2>1. i \in Nat /\ i + 1 \in Nat /\ readNames(h, i).err
      BY <1>2
    <2>2. readNames(h, i) \in Reader /\ readNames(h, i + 1) = readName(readNames(h, i))
      BY <2>1, ReadNamesSteps
    <2>. QED  BY <2>1, <2>2, ReadNameType
  <1> HIDE DEF T
  <1>3. \A i \in 0 .. n : i \in T
    BY <1>1, <1>2, Climb
  <1>4. n \in 0 .. n
    OBVIOUS
  <1>. QED  BY <1>3, <1>4 DEF T

(* A payload is its version and the rest. *)
LEMMA VersionFront ==
    ASSUME NEW b \in Seq(Nat), NEW v \in Nat
    PROVE  /\ Cat(<<v>>, b) # <<>> /\ Head(Cat(<<v>>, b)) = v /\ Tail(Cat(<<v>>, b)) = b
           /\ Cat(<<v>>, b) \in Seq(Nat) /\ Len(Cat(<<v>>, b)) = Len(b) + 1
           /\ Cat(<<v>>, b)[1] = v /\ \A i \in 2 .. Len(b) + 1 : Cat(<<v>>, b)[i] = b[i - 1]
  <1>1. PICK a : a = <<v>>
    OBVIOUS
  <1>2. a \in Seq(Nat) /\ Len(a) = 1 /\ a[1] = v
    BY <1>1
  <1>3. PICK p : p = a \o b
    OBVIOUS
  <1>4. /\ p \in Seq(Nat) /\ Len(p) = 1 + Len(b) /\ Len(b) \in Nat /\ p[1] = v
        /\ \A i \in 2 .. Len(p) : p[i] = b[i - 1]
    <2>1. Len(b) \in Nat
      BY LenProperties
    <2>2. /\ p \in Seq(Nat) /\ Len(p) = Len(a) + Len(b)
          /\ \A i \in 1 .. Len(a) + Len(b) : p[i] = IF i <= Len(a) THEN a[i] ELSE b[i - Len(a)]
      BY <1>2, <1>3, ConcatProperties
    <2>. QED  BY <1>2, <2>1, <2>2
  <1>5. p # <<>>
    BY <1>4, EmptySeq
  <1>6. Head(p) = v
    BY <1>4, <1>5, HeadTailProperties
  <1>7. PICK t : t = Tail(p)
    OBVIOUS
  <1>8. t \in Seq(Nat) /\ Len(t) = Len(b) /\ \A i \in 1 .. Len(t) : t[i] = p[i + 1]
    BY <1>4, <1>5, <1>7, HeadTailProperties
  <1>9. \A i \in 1 .. Len(t) : t[i] = b[i]
    <2>1. \A i \in 1 .. Len(t) : i + 1 \in 2 .. Len(p) /\ (i + 1) - 1 = i
      BY <1>4, <1>8
    <2>. QED  BY <1>4, <1>8, <2>1
  <1>10. t = b
    BY <1>8, <1>9, SeqEqual
  <1>. QED  BY <1>1, <1>3, <1>4, <1>5, <1>6, <1>7, <1>10 DEF Cat

-----------------------------------------------------------------------------
(* A whole response *)

Encodable(r) ==
    /\ Fits(r.status) /\ r.header \in HttpHeader
    /\ IsFiniteSet(DOMAIN r.header) /\ Fits(Cardinality(DOMAIN r.header))
    /\ \A n \in DOMAIN r.header : Fits(Len(n)) /\ Writable(r.header[n])
    /\ r.body \in Seq(Nat) /\ Fits(Len(r.body))

(* The decoder after each part of the response. *)
statusRead(b) == uvarint([buf |-> b, err |-> FALSE])

namesCount(b) == limited(uvarint(statusRead(b)), maxHeaderNames)

beforeNames(b) ==
    [buf |-> namesCount(b).buf, err |-> namesCount(b).err, header |-> <<>>]

headerRead(b) == readNames(beforeNames(b), namesCount(b).v)

bodyRead(b) == bytes(headerRead(b))

(* Each part hands its error on to the next. *)
LEMMA PartsType ==
    ASSUME NEW b \in Seq(Nat)
    PROVE  /\ Decoder([buf |-> b, err |-> FALSE])
           /\ statusRead(b) \in [v : Nat, buf : Seq(Nat), err : BOOLEAN]
           /\ Decoder(statusRead(b))
           /\ uvarint(statusRead(b)) \in [v : Nat, buf : Seq(Nat), err : BOOLEAN]
           /\ namesCount(b) \in [v : Nat, buf : Seq(Nat), err : BOOLEAN]
           /\ beforeNames(b) \in Reader /\ headerRead(b) \in Reader
           /\ bodyRead(b) \in [v : Seq(Nat), buf : Seq(Nat), err : BOOLEAN]
           /\ statusRead(b).err => uvarint(statusRead(b)).err
           /\ uvarint(statusRead(b)).err => namesCount(b).err
           /\ namesCount(b).err => headerRead(b).err
           /\ headerRead(b).err => bodyRead(b).err
  <1>1. Decoder([buf |-> b, err |-> FALSE])
    BY DEF Decoder
  <1>2. statusRead(b) \in [v : Nat, buf : Seq(Nat), err : BOOLEAN]
    BY <1>1, UvarintType DEF statusRead
  <1>3. Decoder(statusRead(b))
    BY <1>2 DEF Decoder
  <1>4. /\ uvarint(statusRead(b)) \in [v : Nat, buf : Seq(Nat), err : BOOLEAN]
        /\ statusRead(b).err => uvarint(statusRead(b)).err
    BY <1>3, UvarintType
  <1>5. /\ namesCount(b) \in [v : Nat, buf : Seq(Nat), err : BOOLEAN]
        /\ uvarint(statusRead(b)).err => namesCount(b).err
    BY <1>4, LimitedType, CodecAssumption DEF namesCount
  <1>6. beforeNames(b) \in Reader
    BY <1>5, NoHeader DEF beforeNames, Reader
  <1>7. headerRead(b) \in Reader
    BY <1>5, <1>6, ReadNamesSteps DEF headerRead
  <1>8. /\ bodyRead(b) \in [v : Seq(Nat), buf : Seq(Nat), err : BOOLEAN]
        /\ headerRead(b).err => bodyRead(b).err
    BY <1>7, ReaderIsDecoder, BytesType DEF bodyRead
  <1>9. ASSUME namesCount(b).err PROVE headerRead(b).err
    <2>1. beforeNames(b).err
      BY <1>9 DEF beforeNames
    <2>2. namesCount(b).v \in Nat
      BY <1>5
    <2>. QED  BY <1>6, <2>1, <2>2, ReadNamesLatch DEF headerRead
  <1>. QED  BY <1>1, <1>2, <1>3, <1>4, <1>5, <1>6, <1>7, <1>8, <1>9

(* UnmarshalBinary reads the parts one after another. *)
LEMMA UnmarshalParts ==
    ASSUME NEW b \in Seq(Nat)
    PROVE  UnmarshalBinary(Cat(<<Version>>, b))
             = IF bodyRead(b).err \/ bodyRead(b).buf # <<>>
               THEN Refused
               ELSE [ok |-> TRUE, status |-> statusRead(b).v, header |-> headerRead(b).header,
                     body |-> bodyRead(b).v]
  <1>1. PICK p : p = Cat(<<Version>>, b)
    OBVIOUS
  <1>2. p # <<>> /\ Head(p) = Version /\ Tail(p) = b
    BY <1>1, VersionFront DEF Version
  <1>. QED
    BY <1>1, <1>2, Zenon DEF UnmarshalBinary, statusRead, namesCount,
       beforeNames, headerRead, bodyRead

(* What MarshalBinary writes behind the version. *)
content(r) ==
    Cat(AppendUvarint(r.status),
        Cat(AppendUvarint(Len(Strings(DOMAIN r.header))),
            Cat(FlattenSeq(namePieces(Strings(DOMAIN r.header), r.header)),
                appendString(r.body))))

(* The names of a response, sorted. *)
LEMMA EncodableNames ==
    ASSUME NEW r, Encodable(r), NEW q, q = Strings(DOMAIN r.header)
    PROVE  /\ WritableNames(q, r.header) /\ Len(q) = Cardinality(DOMAIN r.header)
           /\ Fits(Len(q)) /\ Len(q) \in Nat
           /\ \A i \in 1 .. Len(q) : q[i] \in DOMAIN r.header
           /\ \A n \in DOMAIN r.header : \E i \in 1 .. Len(q) : q[i] = n
  <1>1. PICK N : N = DOMAIN r.header
    OBVIOUS
  <1>2. N \in SUBSET Seq(Nat) /\ IsFiniteSet(N)
    <2>1. PICK M \in SUBSET Seq(Nat) : r.header \in [M -> Seq(Seq(Nat))]
      BY DEF Encodable, HttpHeader
    <2>2. DOMAIN r.header = M
      BY <2>1
    <2>. QED  BY <1>1, <2>1, <2>2 DEF Encodable
  <1>3. /\ q \in Seq(Seq(Nat)) /\ Len(q) = Cardinality(N)
        /\ \A i \in 1 .. Len(q) : q[i] \in N
        /\ \A n \in N : \E i \in 1 .. Len(q) : q[i] = n
        /\ \A i, j \in 1 .. Len(q) : q[i] = q[j] => i = j
    BY <1>1, <1>2, StringsSorted
  <1>4. /\ Fits(Cardinality(N))
        /\ \A n \in N : Fits(Len(n)) /\ Writable(r.header[n])
    BY <1>1 DEF Encodable
  <1>5. WritableNames(q, r.header)
    BY <1>3, <1>4 DEF WritableNames
  <1>6. Len(q) \in Nat
    BY <1>3, LenProperties
  <1>. QED  BY <1>1, <1>3, <1>4, <1>5, <1>6

LEMMA Regroup4 ==
    ASSUME NEW w \in Seq(Nat), NEW a \in Seq(Nat), NEW b \in Seq(Nat), NEW c \in Seq(Nat),
           NEW x \in Seq(Nat)
    PROVE  /\ Cat(Cat(Cat(Cat(w, a), b), c), x) = Cat(w, Cat(a, Cat(b, Cat(c, x))))
           /\ Cat(a, Cat(b, Cat(c, x))) \in Seq(Nat)
  <1>1. PICK wa : wa = Cat(w, a)
    OBVIOUS
  <1>2. PICK y : y = Cat(b, Cat(c, x))
    OBVIOUS
  <1>3. wa \in Seq(Nat)
    BY <1>1, CatSeq
  <1>4. PICK cx : cx = Cat(c, x)
    OBVIOUS
  <1>5. cx \in Seq(Nat)
    BY <1>4, CatSeq
  <1>6. y \in Seq(Nat)
    BY <1>2, <1>4, <1>5, CatSeq
  <1>7. Cat(Cat(Cat(wa, b), c), x) = Cat(wa, y)
    BY <1>2, <1>3, Regroup3
  <1>8. Cat(wa, y) = Cat(w, Cat(a, y))
    BY <1>1, <1>6, CatAssociative
  <1>9. Cat(a, y) \in Seq(Nat)
    BY <1>6, CatSeq
  <1>. QED  BY <1>1, <1>2, <1>7, <1>8, <1>9, Zenon

(* MarshalBinary writes the version and the content. *)
LEMMA MarshalContent ==
    ASSUME NEW r, Encodable(r)
    PROVE  content(r) \in Seq(Nat) /\ MarshalBinary(r) = Cat(<<Version>>, content(r))
  <1>1. PICK q : q = Strings(DOMAIN r.header)
    OBVIOUS
  <1>2. WritableNames(q, r.header) /\ Fits(Len(q))
    BY <1>1, EncodableNames
  <1>3. PICK a, b, f, s : /\ a = AppendUvarint(r.status) /\ b = AppendUvarint(Len(q))
                          /\ f = FlattenSeq(namePieces(q, r.header))
                          /\ s = appendString(r.body)
    OBVIOUS
  <1>4. a \in Seq(Nat) /\ b \in Seq(Nat) /\ f \in Seq(Nat) /\ s \in Seq(Nat)
    <2>1. Fits(r.status) /\ r.body \in Seq(Nat) /\ Fits(Len(r.body))
      BY DEF Encodable
    <2>. QED  BY <1>2, <1>3, <2>1, VarintBytes, NamePieces, StringType
  <1>5. PICK w : w = <<Version>>
    OBVIOUS
  <1>6. w \in Seq(Nat)
    BY <1>5 DEF Version
  <1>7. content(r) = Cat(a, Cat(b, Cat(f, s)))
    BY <1>1, <1>3, Zenon DEF content
  <1>8. MarshalBinary(r) = Cat(Cat(Cat(Cat(w, a), b), f), s)
    <2>1. MarshalBinary(r)
            = <<Version>> \o AppendUvarint(r.status) \o AppendUvarint(Len(q))
                \o FlattenSeq(namePieces(q, r.header)) \o appendString(r.body)
      BY <1>1 DEF MarshalBinary, namePieces
    <2>2. MarshalBinary(r) = w \o a \o b \o f \o s
      BY <1>3, <1>5, <2>1, Zenon
    <2>. QED  BY <2>2, Zenon DEF Cat
  <1>9. /\ Cat(Cat(Cat(Cat(w, a), b), f), s) = Cat(w, Cat(a, Cat(b, Cat(f, s))))
        /\ Cat(a, Cat(b, Cat(f, s))) \in Seq(Nat)
    BY <1>4, <1>6, Regroup4
  <1>. QED  BY <1>5, <1>7, <1>8, <1>9, Zenon

(* All names are among the sorted ones, so the header that is read is the  *)
(* one that was stored, without the names that have no value.              *)
LEMMA HeaderWhole ==
    ASSUME NEW r, Encodable(r), NEW q, q = Strings(DOMAIN r.header)
    PROVE  /\ upTo(q, r.header, Len(q)) = decoded(r).header
           /\ withinLimits(r) <=> /\ Len(q) <= maxHeaderNames
                                  /\ \A i \in 1 .. Len(q) : Len(r.header[q[i]]) <= maxHeaderValues
  <1>1. /\ Len(q) = Cardinality(DOMAIN r.header)
        /\ \A i \in 1 .. Len(q) : q[i] \in DOMAIN r.header
        /\ \A n \in DOMAIN r.header : \E i \in 1 .. Len(q) : q[i] = n
    BY EncodableNames, SMTT(30)
  <1>2. {q[i] : i \in {j \in 1 .. Len(q) : r.header[q[j]] # <<>>}}
          = {n \in DOMAIN r.header : r.header[n] # <<>>}
    BY <1>1
  <1>3. decoded(r).header = [n \in {n \in DOMAIN r.header : r.header[n] # <<>>} |-> r.header[n]]
    BY DEF decoded
  <1>4. upTo(q, r.header, Len(q)) = decoded(r).header
    BY <1>2, <1>3, Zenon DEF upTo
  <1>5. withinLimits(r) <=> /\ Len(q) <= maxHeaderNames
                            /\ \A i \in 1 .. Len(q) : Len(r.header[q[i]]) <= maxHeaderValues
    BY <1>1 DEF withinLimits
  <1>. QED  BY <1>4, <1>5

(* The content reads back part by part, with x left over, or fails for the *)
(* limits.                                                                 *)
LEMMA ContentRead ==
    ASSUME NEW r, Encodable(r), NEW x \in Seq(Nat), NEW b, b = Cat(content(r), x)
    PROVE  IF withinLimits(r)
           THEN /\ statusRead(b).v = r.status /\ headerRead(b).header = decoded(r).header
                /\ bodyRead(b) = [v |-> r.body, buf |-> x, err |-> FALSE]
           ELSE bodyRead(b).err
  <1>1. PICK q, hd : q = Strings(DOMAIN r.header) /\ hd = r.header
    OBVIOUS
  <1>2. WritableNames(q, hd) /\ Fits(Len(q)) /\ Len(q) \in Nat
    BY <1>1, EncodableNames
  <1>3. PICK a, c, f, s : /\ a = AppendUvarint(r.status) /\ c = AppendUvarint(Len(q))
                          /\ f = FlattenSeq(namePieces(q, hd)) /\ s = appendString(r.body)
    OBVIOUS
  <1>4. Fits(r.status) /\ r.body \in Seq(Nat) /\ Fits(Len(r.body))
    BY DEF Encodable
  <1>5. a \in Seq(Nat) /\ c \in Seq(Nat) /\ f \in Seq(Nat) /\ s \in Seq(Nat)
    BY <1>2, <1>3, <1>4, VarintBytes, NamePieces, StringType
  <1>6. PICK x3 \in Seq(Nat) : x3 = Cat(s, x)
    BY <1>5, CatSeq
  <1>7. PICK x2 \in Seq(Nat) : x2 = Cat(f, x3)
    BY <1>5, <1>6, CatSeq
  <1>8. PICK x1 \in Seq(Nat) : x1 = Cat(c, x2)
    BY <1>5, <1>7, CatSeq
  <1>9. b = Cat(a, x1)
    <2>1. PICK fs \in Seq(Nat) : fs = Cat(f, s)
      BY <1>5, CatSeq
    <2>2. PICK cfs \in Seq(Nat) : cfs = Cat(c, fs)
      BY <1>5, <2>1, CatSeq
    <2>3. b = Cat(Cat(a, cfs), x)
      BY <1>1, <1>3, <2>1, <2>2, Zenon DEF content
    <2>4. Cat(Cat(a, cfs), x) = Cat(a, Cat(cfs, x))
      BY <1>5, <2>2, CatAssociative
    <2>5. Cat(Cat(c, fs), x) = Cat(c, Cat(fs, x))
      BY <1>5, <2>1, CatAssociative
    <2>6. Cat(Cat(f, s), x) = Cat(f, Cat(s, x))
      BY <1>5, CatAssociative
    <2>. QED  BY <1>6, <1>7, <1>8, <2>1, <2>2, <2>3, <2>4, <2>5, <2>6, Zenon
  <1>10. b \in Seq(Nat)
    BY <1>5, <1>8, <1>9, CatSeq
  <1>11. statusRead(b) = [v |-> r.status, buf |-> x1, err |-> FALSE]
    <2>1. PICK d : d = [buf |-> b, err |-> FALSE]
      OBVIOUS
    <2>2. d.err = FALSE /\ d.buf = AppendUvarint(r.status) \o x1
      BY <1>3, <1>9, <2>1 DEF Cat
    <2>3. uvarint(d) = [v |-> r.status, buf |-> x1, err |-> FALSE]
      BY <1>4, <1>8, <2>2, UvarintWritten
    <2>. QED  BY <2>1, <2>3, Zenon DEF statusRead
  <1>12. uvarint(statusRead(b)) = [v |-> Len(q), buf |-> x2, err |-> FALSE]
    <2>1. PICK d : d = statusRead(b)
      OBVIOUS
    <2>2. d.err = FALSE /\ d.buf = x1
      BY <1>11, <2>1
    <2>3. d.buf = AppendUvarint(Len(q)) \o x2
      BY <1>3, <1>8, <2>2, Zenon DEF Cat
    <2>4. uvarint(d) = [v |-> Len(q), buf |-> x2, err |-> FALSE]
      BY <1>2, <1>7, <2>2, <2>3, UvarintWritten
    <2>. QED  BY <2>1, <2>4, Zenon
  <1>13. PICK k : k = [v |-> Len(q), buf |-> x2, err |-> FALSE]
    OBVIOUS
  <1>14. /\ k \in [v : Nat, buf : Seq(Nat), err : BOOLEAN] /\ k.v = Len(q)
         /\ k.buf = x2 /\ k.err = FALSE
    BY <1>2, <1>7, <1>13
  <1>15. namesCount(b) = limited(k, maxHeaderNames)
    BY <1>12, <1>13, Zenon DEF namesCount
  <1>16. maxHeaderNames \in Nat
    BY CodecAssumption
  <1>17. CASE ~(Len(q) <= maxHeaderNames)
    <2>1. k.v > maxHeaderNames
      BY <1>2, <1>14, <1>16, <1>17
    <2>2. namesCount(b) = [v |-> 0, buf |-> k.buf, err |-> TRUE]
      BY <1>14, <1>15, <1>16, <2>1, LimitedType
    <2>3. namesCount(b).err
      BY <2>2
    <2>4. bodyRead(b).err
      BY <1>10, <2>3, PartsType
    <2>5. ~withinLimits(r)
      BY <1>1, <1>17, HeaderWhole
    <2>. QED  BY <2>4, <2>5
  <1>18. CASE Len(q) <= maxHeaderNames
    <2>1. namesCount(b) = k
      BY <1>14, <1>15, <1>16, <1>18, LimitedType
    <2>2. PICK h : h = beforeNames(b)
      OBVIOUS
    <2>3. h \in Reader
      BY <1>10, <2>2, PartsType
    <2>4. h.err = FALSE /\ h.header = <<>> /\ h.buf = x2
      BY <1>14, <2>1, <2>2 DEF beforeNames
    <2>5. headerRead(b) = readNames(h, Len(q))
      BY <1>14, <2>1, <2>2, Zenon DEF headerRead
    <2>6. h.buf = Cat(FlattenSeq(namePieces(q, hd)), x3)
      BY <1>3, <1>7, <2>4, Zenon
    <2>7. IF \A i \in 1 .. Len(q) : Len(hd[q[i]]) <= maxHeaderValues
          THEN readNames(h, Len(q)) = [buf |-> x3, err |-> FALSE, header |-> upTo(q, hd, Len(q))]
          ELSE readNames(h, Len(q)).err
      BY <1>2, <1>6, <2>3, <2>4, <2>6, NamesWritten
    <2>8. CASE ~(\A i \in 1 .. Len(q) : Len(hd[q[i]]) <= maxHeaderValues)
      <3>1. headerRead(b).err
        BY <2>5, <2>7, <2>8
      <3>2. bodyRead(b).err
        BY <1>10, <3>1, PartsType
      <3>3. ~withinLimits(r)
        BY <1>1, <2>8, HeaderWhole
      <3>. QED  BY <3>2, <3>3
    <2>9. CASE \A i \in 1 .. Len(q) : Len(hd[q[i]]) <= maxHeaderValues
      <3>1. PICK g, u : g = headerRead(b) /\ u = upTo(q, hd, Len(q))
        OBVIOUS
      <3>2. g = [buf |-> x3, err |-> FALSE, header |-> u]
        BY <2>5, <2>7, <2>9, <3>1, Zenon
      <3>3. g.err = FALSE /\ g.buf = x3 /\ g.header = u
        BY <3>2
      <3>4. g.buf = appendString(r.body) \o x
        BY <1>3, <1>6, <3>3, Zenon DEF Cat
      <3>5. bytes(g) = [v |-> r.body, buf |-> x, err |-> FALSE]
        BY <1>4, <3>3, <3>4, BytesWritten
      <3>6. bodyRead(b) = [v |-> r.body, buf |-> x, err |-> FALSE]
        BY <3>1, <3>5, Zenon DEF bodyRead
      <3>7. headerRead(b).header = decoded(r).header
        BY <1>1, <3>1, <3>3, HeaderWhole
      <3>8. statusRead(b).v = r.status
        BY <1>11
      <3>9. withinLimits(r)
        BY <1>1, <1>18, <2>9, HeaderWhole
      <3>. QED  BY <3>6, <3>7, <3>8, <3>9
    <2>. QED  BY <2>8, <2>9
  <1>. QED  BY <1>17, <1>18

(* Bytes behind a response that can be read are left over by the reading.  *)
LEMMA BodyLonger ==
    ASSUME NEW b \in Seq(Nat), NEW y \in Seq(Nat), NEW c, c = Cat(b, y), ~bodyRead(b).err
    PROVE  bodyRead(c) = [v |-> bodyRead(b).v, buf |-> Cat(bodyRead(b).buf, y), err |-> FALSE]
  <1>1. c \in Seq(Nat)
    BY CatSeq
  <1>2. /\ ~headerRead(b).err /\ ~namesCount(b).err
        /\ ~uvarint(statusRead(b)).err /\ ~statusRead(b).err
    BY PartsType
  <1>3. PICK s : s = statusRead(b)
    OBVIOUS
  <1>4. /\ s \in [v : Nat, buf : Seq(Nat), err : BOOLEAN] /\ Decoder(s)
        /\ s.buf \in Seq(Nat) /\ ~s.err
    BY <1>2, <1>3, PartsType
  <1>5. statusRead(c) = [v |-> s.v, buf |-> s.buf \o y, err |-> FALSE]
    <2>1. PICK d, e : d = [buf |-> b, err |-> FALSE] /\ e = [buf |-> c, err |-> FALSE]
      OBVIOUS
    <2>2. d.buf = b /\ e.buf = c /\ e.err = FALSE
      BY <2>1
    <2>3. s = uvarint(d) /\ statusRead(c) = uvarint(e)
      BY <1>3, <2>1, Zenon DEF statusRead
    <2>4. Decoder(d)
      BY <2>1, PartsType
    <2>5. e.buf = d.buf \o y /\ ~uvarint(d).err
      BY <1>4, <2>2, <2>3, Zenon DEF Cat
    <2>6. uvarint(e) = [v |-> uvarint(d).v, buf |-> uvarint(d).buf \o y, err |-> FALSE]
      BY <2>2, <2>4, <2>5, UvarintLonger
    <2>. QED  BY <2>3, <2>6, Zenon
  <1>6. PICK n : n = uvarint(s)
    OBVIOUS
  <1>7. n \in [v : Nat, buf : Seq(Nat), err : BOOLEAN] /\ ~n.err
    BY <1>2, <1>3, <1>6, PartsType
  <1>8. uvarint(statusRead(c)) = [v |-> n.v, buf |-> n.buf \o y, err |-> FALSE]
    <2>1. PICK e, z : e = statusRead(c) /\ z = s.buf \o y
      OBVIOUS
    <2>2. e = [v |-> s.v, buf |-> z, err |-> FALSE]
      BY <1>5, <2>1, Zenon
    <2>3. e.buf = z /\ e.err = FALSE
      BY <2>2
    <2>4. e.buf = s.buf \o y /\ ~uvarint(s).err
      BY <1>6, <1>7, <2>1, <2>3, Zenon
    <2>5. uvarint(e) = [v |-> uvarint(s).v, buf |-> uvarint(s).buf \o y, err |-> FALSE]
      BY <1>4, <2>3, <2>4, UvarintLonger
    <2>. QED  BY <1>6, <2>1, <2>5, Zenon
  <1>9. PICK m, z : m = uvarint(statusRead(c)) /\ z = n.buf \o y
    OBVIOUS
  <1>10. m = [v |-> n.v, buf |-> z, err |-> FALSE]
    BY <1>8, <1>9, Zenon
  <1>11. /\ m.v = n.v /\ m.buf = z /\ m.err = FALSE
         /\ m \in [v : Nat, buf : Seq(Nat), err : BOOLEAN]
    <2>1. m \in [v : Nat, buf : Seq(Nat), err : BOOLEAN]
      BY <1>1, <1>9, PartsType
    <2>. QED  BY <1>10, <2>1
  <1>12. namesCount(b) = n /\ namesCount(c) = m
    <2>1. namesCount(b) = limited(n, maxHeaderNames) /\ namesCount(c) = limited(m, maxHeaderNames)
      BY <1>3, <1>6, <1>9, Zenon DEF namesCount
    <2>2. maxHeaderNames \in Nat /\ n.v \in Nat
      BY <1>7, CodecAssumption
    <2>3. n.v <= maxHeaderNames
      <3>1. SUFFICES ASSUME n.v > maxHeaderNames PROVE FALSE
        BY <2>2
      <3>2. limited(n, maxHeaderNames) = [v |-> 0, buf |-> n.buf, err |-> TRUE]
        BY <1>7, <2>2, <3>1, LimitedType
      <3>3. limited(n, maxHeaderNames).err
        BY <3>2
      <3>. QED  BY <1>2, <2>1, <3>3
    <2>. QED  BY <1>7, <1>11, <2>1, <2>2, <2>3, LimitedType
  <1>13. PICK g, h : g = beforeNames(b) /\ h = beforeNames(c)
    OBVIOUS
  <1>14. g \in Reader /\ ~g.err /\ g.buf = n.buf /\ g.header = <<>>
    BY <1>7, <1>12, <1>13, PartsType DEF beforeNames
  <1>15. h = longer(g, y)
    <2>1. h = [buf |-> z, err |-> FALSE, header |-> <<>>]
      BY <1>11, <1>12, <1>13, Zenon DEF beforeNames
    <2>2. longer(g, y) = [buf |-> n.buf \o y, err |-> FALSE, header |-> <<>>]
      BY <1>14, Zenon DEF longer
    <2>. QED  BY <1>9, <2>1, <2>2, Zenon
  <1>16. PICK i \in Nat : i = n.v
    BY <1>7
  <1>17. headerRead(b) = readNames(g, i) /\ headerRead(c) = readNames(h, i)
    BY <1>11, <1>12, <1>13, <1>16, Zenon DEF headerRead
  <1>18. PICK k : k = headerRead(b)
    OBVIOUS
  <1>19. k \in Reader /\ ~k.err
    BY <1>2, <1>18, PartsType
  <1>20. headerRead(c) = longer(k, y)
    <2>1. ~readNames(g, i).err
      BY <1>17, <1>18, <1>19
    <2>2. readNames(longer(g, y), i) = longer(readNames(g, i), y)
      BY <1>14, <2>1, ReadNamesLonger
    <2>. QED  BY <1>15, <1>17, <1>18, <2>2, Zenon
  <1>21. PICK e : e = longer(k, y)
    OBVIOUS
  <1>22. e.err = FALSE /\ e.buf = k.buf \o y
    BY <1>19, <1>21, LongerType
  <1>23. Decoder(k) /\ ~bytes(k).err
    BY <1>18, <1>19, ReaderIsDecoder DEF bodyRead
  <1>24. bytes(e) = [v |-> bytes(k).v, buf |-> bytes(k).buf \o y, err |-> FALSE]
    BY <1>22, <1>23, BytesLonger
  <1>. QED  BY <1>18, <1>20, <1>21, <1>24, Zenon DEF bodyRead, Cat

(* The version decides first. *)
LEMMA OtherVersion ==
    ASSUME NEW b \in Seq(Nat), NEW v \in Nat, v # Version
    PROVE  /\ UnmarshalBinary(Cat(<<v>>, b)) = Refused
           /\ decodePayload(Cat(<<v>>, b)) = Refused
  <1>1. PICK p : p = Cat(<<v>>, b)
    OBVIOUS
  <1>2. p # <<>> /\ Head(p) = v
    BY <1>1, VersionFront
  <1>3. UnmarshalBinary(p) = Refused
    BY <1>2, Zenon DEF UnmarshalBinary
  <1>4. decodePayload(p) = Refused
    BY <1>2, Zenon DEF decodePayload
  <1>. QED  BY <1>1, <1>3, <1>4

LEMMA NothingStored ==
    UnmarshalBinary(<<>>) = Refused /\ decodePayload(<<>>) = Refused
  BY DEF UnmarshalBinary, decodePayload

(* The payload starts with its version, whatever is done to the rest. *)
LEMMA PayloadEdits ==
    ASSUME NEW c \in Seq(Nat), NEW p, p = Cat(<<Version>>, c)
    PROVE  /\ p \in Seq(Nat) /\ Len(p) = Len(c) + 1 /\ Len(c) \in Nat
           /\ \A n \in 1 .. Len(p) : \E b \in Seq(Nat), y \in Seq(Nat) :
                 /\ SubSeq(p, 1, n) = Cat(<<Version>>, b) /\ c = Cat(b, y)
                 /\ Len(b) = n - 1 /\ Len(c) = Len(b) + Len(y)
           /\ \A x \in Nat : Append(p, x) = Cat(<<Version>>, Cat(c, <<x>>))
           /\ [p EXCEPT ![1] = Version + 1] = Cat(<<Version + 1>>, c)
  <1>1. PICK w : w = <<Version>>
    OBVIOUS
  <1>2. w \in Seq(Nat) /\ Len(w) = 1 /\ w[1] = Version /\ Version \in Nat
    BY <1>1 DEF Version
  <1>3. p \in Seq(Nat) /\ Len(p) = Len(c) + 1 /\ Len(c) \in Nat
    BY <1>1, <1>2, VersionFront, LenProperties
  <1>4. ASSUME NEW n \in 1 .. Len(p)
        PROVE  \E b \in Seq(Nat), y \in Seq(Nat) :
                  /\ SubSeq(p, 1, n) = Cat(w, b) /\ c = Cat(b, y)
                  /\ Len(b) = n - 1 /\ Len(c) = Len(b) + Len(y)
    <2>1. n - 1 \in 0 .. Len(c) /\ n \in 0 .. Len(p) /\ n \in Nat
      BY <1>3
    <2>2. PICK b, y : b = SubSeq(c, 1, n - 1) /\ y = SubSeq(c, (n - 1) + 1, Len(c))
      OBVIOUS
    <2>3. /\ b \in Seq(Nat) /\ Len(b) = n - 1 /\ y \in Seq(Nat) /\ c = Cat(b, y)
          /\ Len(y) = Len(c) - (n - 1)
      BY <2>1, <2>2, CutAt DEF Cat
    <2>4. PICK wb : wb = Cat(w, b)
      OBVIOUS
    <2>5. wb \in Seq(Nat) /\ Len(wb) = n
      BY <1>1, <1>2, <2>1, <2>3, <2>4, VersionFront
    <2>6. p = Cat(wb, y)
      <3>1. Cat(Cat(w, b), y) = Cat(w, Cat(b, y))
        BY <1>2, <2>3, CatAssociative
      <3>. QED  BY <1>1, <2>3, <2>4, <3>1, Zenon
    <2>7. SubSeq(p, 1, n) = wb
      BY <2>3, <2>5, <2>6, CutFront DEF Cat
    <2>8. Len(c) = Len(b) + Len(y)
      BY <1>3, <2>1, <2>3
    <2>9. SubSeq(p, 1, n) = Cat(w, b)
      BY <2>4, <2>7, Zenon
    <2>. QED  BY <2>3, <2>8, <2>9, Zenon
  <1>5. ASSUME NEW x \in Nat PROVE Append(p, x) = Cat(w, Cat(c, <<x>>))
    <2>1. PICK a : a = <<x>>
      OBVIOUS
    <2>2. a \in Seq(Nat)
      BY <2>1
    <2>3. Append(p, x) = Cat(p, a)
      BY <1>3, <2>1, AppendIsConcat DEF Cat
    <2>4. Cat(Cat(w, c), a) = Cat(w, Cat(c, a))
      BY <1>2, <2>2, CatAssociative
    <2>. QED  BY <1>1, <2>1, <2>3, <2>4, Zenon
  <1>6. [p EXCEPT ![1] = Version + 1] = Cat(<<Version + 1>>, c)
    <2>1. PICK q : q = [p EXCEPT ![1] = Version + 1]
      OBVIOUS
    <2>2. /\ q \in Seq(Nat) /\ Len(q) = Len(p) /\ q[1] = Version + 1
          /\ \A i \in 2 .. Len(p) : q[i] = p[i]
      <3>1. q \in Seq(Nat) /\ Len(q) = Len(p)
        BY <1>2, <1>3, <2>1, ExceptSeq
      <3>2. DOMAIN p = 1 .. Len(p) /\ 1 \in DOMAIN p
        BY <1>3, LenProperties
      <3>. QED  BY <1>3, <2>1, <3>1, <3>2
    <2>3. PICK u : u = Cat(<<Version + 1>>, c)
      OBVIOUS
    <2>4. /\ u \in Seq(Nat) /\ Len(u) = Len(p) /\ u[1] = Version + 1
          /\ \A i \in 2 .. Len(p) : u[i] = c[i - 1]
      <3>1. PICK v \in Nat : v = Version + 1
        BY <1>2
      <3>2. u = Cat(<<v>>, c)
        BY <2>3, <3>1
      <3>3. /\ u \in Seq(Nat) /\ Len(u) = Len(c) + 1 /\ u[1] = v
            /\ \A i \in 2 .. Len(c) + 1 : u[i] = c[i - 1]
        BY <3>2, VersionFront
      <3>. QED  BY <1>3, <3>1, <3>3
    <2>5. \A i \in 2 .. Len(p) : p[i] = c[i - 1]
      <3>1. \A i \in 2 .. Len(c) + 1 : Cat(<<Version>>, c)[i] = c[i - 1]
        BY <1>2, VersionFront, Zenon
      <3>. QED  BY <1>3, <3>1
    <2>6. \A i \in 1 .. Len(q) : q[i] = u[i]
      <3>1. \A i \in 1 .. Len(p) : i = 1 \/ i \in 2 .. Len(p)
        BY <1>3
      <3>. QED  BY <2>2, <2>4, <2>5, <3>1
    <2>7. q = u
      BY <2>2, <2>4, <2>6, SeqEqual
    <2>. QED  BY <2>1, <2>3, <2>7, Zenon
  <1>. QED  BY <1>1, <1>3, <1>4, <1>5, <1>6

(* MarshalBinary and UnmarshalBinary of httpidem/storedresponse.go, for    *)
(* any response whose lengths fit into a varint: the payload decodes to    *)
(* the response, less the names without a value, exactly when the response *)
(* is within the decoder's limits.                                         *)
THEOREM ResponseReads ==
    ASSUME NEW r, Encodable(r)
    PROVE  UnmarshalBinary(MarshalBinary(r)) = IF withinLimits(r) THEN decoded(r) ELSE Refused
  <1>1. PICK c : c = content(r)
    OBVIOUS
  <1>2. c \in Seq(Nat) /\ MarshalBinary(r) = Cat(<<Version>>, c)
    BY <1>1, MarshalContent
  <1>3. PICK x \in Seq(Nat) : x = <<>>
    BY EmptySeq
  <1>4. c = Cat(content(r), x)
    BY <1>1, <1>2, <1>3, ConcatEmptySeq DEF Cat
  <1>5. IF withinLimits(r)
        THEN /\ statusRead(c).v = r.status /\ headerRead(c).header = decoded(r).header
             /\ bodyRead(c) = [v |-> r.body, buf |-> x, err |-> FALSE]
        ELSE bodyRead(c).err
    BY <1>4, ContentRead
  <1>6. UnmarshalBinary(MarshalBinary(r))
          = IF bodyRead(c).err \/ bodyRead(c).buf # <<>>
            THEN Refused
            ELSE [ok |-> TRUE, status |-> statusRead(c).v, header |-> headerRead(c).header,
                  body |-> bodyRead(c).v]
    <2>1. PICK p : p = Cat(<<Version>>, c)
      OBVIOUS
    <2>2. UnmarshalBinary(p)
            = IF bodyRead(c).err \/ bodyRead(c).buf # <<>>
              THEN Refused
              ELSE [ok |-> TRUE, status |-> statusRead(c).v, header |-> headerRead(c).header,
                    body |-> bodyRead(c).v]
      BY <1>2, <2>1, UnmarshalParts
    <2>. QED  BY <1>2, <2>1, <2>2, Zenon
  <1>7. CASE ~withinLimits(r)
    BY <1>5, <1>6, <1>7
  <1>8. CASE withinLimits(r)
    <2>1. bodyRead(c).v = r.body /\ bodyRead(c).buf = <<>> /\ ~bodyRead(c).err
      BY <1>3, <1>5, <1>8
    <2>2. UnmarshalBinary(MarshalBinary(r))
            = [ok |-> TRUE, status |-> r.status, header |-> decoded(r).header, body |-> r.body]
      BY <1>5, <1>6, <1>8, <2>1
    <2>3. decoded(r)
            = [ok |-> TRUE, status |-> r.status, header |-> decoded(r).header, body |-> r.body]
      <3>1. PICK g : g = [n \in {n \in DOMAIN r.header : r.header[n] # <<>>} |-> r.header[n]]
        OBVIOUS
      <3>2. decoded(r) = [ok |-> TRUE, status |-> r.status, body |-> r.body, header |-> g]
        BY <3>1 DEF decoded
      <3>3. decoded(r).header = g
        BY <3>2
      <3>. QED  BY <3>2, <3>3
    <2>. QED  BY <1>8, <2>2, <2>3
  <1>. QED  BY <1>7, <1>8

(* UnmarshalBinary refuses what is left of a payload that was cut short    *)
(* anywhere, a payload with one more byte, and one of another version.     *)
THEOREM ResponseDamaged ==
    ASSUME NEW r, Encodable(r), NEW p, p = MarshalBinary(r)
    PROVE  /\ \A n \in 0 .. Len(p) - 1 : UnmarshalBinary(SubSeq(p, 1, n)) = Refused
           /\ \A x \in Nat : UnmarshalBinary(Append(p, x)) = Refused
           /\ UnmarshalBinary([p EXCEPT ![1] = Version + 1]) = Refused
  <1>1. PICK c : c = content(r)
    OBVIOUS
  <1>2. c \in Seq(Nat) /\ p = Cat(<<Version>>, c)
    BY <1>1, MarshalContent
  <1>3. /\ p \in Seq(Nat) /\ Len(p) = Len(c) + 1 /\ Len(c) \in Nat
        /\ \A n \in 1 .. Len(p) : \E b \in Seq(Nat), y \in Seq(Nat) :
              /\ SubSeq(p, 1, n) = Cat(<<Version>>, b) /\ c = Cat(b, y)
              /\ Len(b) = n - 1 /\ Len(c) = Len(b) + Len(y)
        /\ \A x \in Nat : Append(p, x) = Cat(<<Version>>, Cat(c, <<x>>))
        /\ [p EXCEPT ![1] = Version + 1] = Cat(<<Version + 1>>, c)
    BY <1>2, PayloadEdits
  <1>4. ASSUME NEW b \in Seq(Nat), bodyRead(b).err \/ bodyRead(b).buf # <<>>
        PROVE  UnmarshalBinary(Cat(<<Version>>, b)) = Refused
    BY <1>4, UnmarshalParts
  <1>5. bodyRead(c).err \/ bodyRead(c).buf = <<>>
    <2>1. PICK x \in Seq(Nat) : x = <<>>
      BY EmptySeq
    <2>2. c = Cat(content(r), x)
      BY <1>1, <1>2, <2>1, ConcatEmptySeq DEF Cat
    <2>3. IF withinLimits(r)
          THEN bodyRead(c) = [v |-> r.body, buf |-> x, err |-> FALSE]
          ELSE bodyRead(c).err
      BY <2>2, ContentRead
    <2>. QED  BY <2>1, <2>3
  <1>6. ASSUME NEW n \in 0 .. Len(p) - 1
        PROVE  UnmarshalBinary(SubSeq(p, 1, n)) = Refused
    <2>1. CASE n = 0
      <3>1. SubSeq(p, 1, n) = <<>>
        BY <1>3, <2>1, SubSeqProperties, EmptySeq
      <3>. QED  BY <3>1, NothingStored
    <2>2. CASE n # 0
      <3>1. n \in 1 .. Len(p) /\ n - 1 < Len(c) /\ n \in Nat
        <4>1. Len(p) = Len(c) + 1 /\ Len(c) \in Nat
          BY <1>3
        <4>. QED  BY <2>2, <4>1
      <3>2. PICK b \in Seq(Nat), y \in Seq(Nat) :
               /\ SubSeq(p, 1, n) = Cat(<<Version>>, b) /\ c = Cat(b, y)
               /\ Len(b) = n - 1 /\ Len(c) = Len(b) + Len(y)
        BY <1>3, <3>1
      <3>3. bodyRead(b).err \/ bodyRead(b).buf # <<>>
        <4>1. SUFFICES ASSUME ~bodyRead(b).err, bodyRead(b).buf = <<>> PROVE FALSE
          OBVIOUS
        <4>2. bodyRead(c) = [v |-> bodyRead(b).v, buf |-> Cat(bodyRead(b).buf, y), err |-> FALSE]
          BY <3>2, <4>1, BodyLonger
        <4>3. Cat(bodyRead(b).buf, y) = y
          BY <4>1, ConcatEmptySeq DEF Cat
        <4>4. ~bodyRead(c).err /\ bodyRead(c).buf = y
          BY <4>2, <4>3
        <4>5. Len(y) # 0
          BY <1>3, <3>1, <3>2, LenProperties
        <4>. QED  BY <1>5, <4>4, <4>5, EmptySeq
      <3>. QED  BY <1>4, <3>2, <3>3
    <2>. QED  BY <2>1, <2>2
  <1>7. ASSUME NEW x \in Nat PROVE UnmarshalBinary(Append(p, x)) = Refused
    <2>1. PICK a : a = <<x>>
      OBVIOUS
    <2>2. a \in Seq(Nat) /\ a # <<>>
      BY <2>1
    <2>3. PICK b : b = Cat(c, a)
      OBVIOUS
    <2>4. b \in Seq(Nat) /\ b = Cat(content(r), a)
      BY <1>1, <1>2, <2>2, <2>3, CatSeq
    <2>5. bodyRead(b).err \/ bodyRead(b).buf = a
      BY <2>2, <2>4, ContentRead
    <2>6. UnmarshalBinary(Cat(<<Version>>, b)) = Refused
      BY <1>4, <2>2, <2>4, <2>5
    <2>. QED  BY <1>3, <2>1, <2>3, <2>6
  <1>8. UnmarshalBinary([p EXCEPT ![1] = Version + 1]) = Refused
    <2>1. PICK v \in Nat : v = Version + 1 /\ v # Version
      BY DEF Version
    <2>2. UnmarshalBinary(Cat(<<v>>, c)) = Refused
      BY <1>2, <2>1, OtherVersion
    <2>. QED  BY <1>3, <2>1, <2>2
  <1>. QED  BY <1>6, <1>7, <1>8

(* The payload of a gRPC message. *)
Sendable(m) == m.name \in Seq(Nat) /\ Fits(Len(m.name)) /\ m.body \in Seq(Nat)

(* encodePayload writes the version, the name and the message. *)
LEMMA PayloadName ==
    ASSUME NEW m, Sendable(m), NEW s, s = appendString(m.name), NEW c, c = Cat(s, m.body)
    PROVE  /\ s \in Seq(Nat) /\ c \in Seq(Nat) /\ Len(c) = Len(s) + Len(m.body)
           /\ encodePayload(m) = Cat(<<Version>>, c)
           /\ bytes([buf |-> c, err |-> FALSE]) = [v |-> m.name, buf |-> m.body, err |-> FALSE]
  <1>1. m.name \in Seq(Nat) /\ Fits(Len(m.name)) /\ m.body \in Seq(Nat)
    BY DEF Sendable
  <1>2. s \in Seq(Nat) /\ c \in Seq(Nat) /\ Len(c) = Len(s) + Len(m.body)
    BY <1>1, StringType, ConcatProperties DEF Cat
  <1>3. encodePayload(m) = Cat(<<Version>>, c)
    <2>1. PICK w : w = <<Version>>
      OBVIOUS
    <2>2. w \in Seq(Nat)
      BY <2>1 DEF Version
    <2>3. encodePayload(m) = Cat(Cat(w, s), m.body)
      BY <2>1, Zenon DEF encodePayload, Cat
    <2>4. Cat(Cat(w, s), m.body) = Cat(w, Cat(s, m.body))
      BY <1>1, <1>2, <2>2, CatAssociative
    <2>. QED  BY <2>1, <2>3, <2>4, Zenon
  <1>4. bytes([buf |-> c, err |-> FALSE]) = [v |-> m.name, buf |-> m.body, err |-> FALSE]
    <2>1. PICK d : d = [buf |-> c, err |-> FALSE]
      OBVIOUS
    <2>2. d.err = FALSE /\ d.buf = c
      BY <2>1
    <2>3. d.buf = appendString(m.name) \o m.body
      BY <2>2, Zenon DEF Cat
    <2>4. bytes(d) = [v |-> m.name, buf |-> m.body, err |-> FALSE]
      BY <1>1, <2>2, <2>3, BytesWritten
    <2>. QED  BY <2>1, <2>4, Zenon
  <1>. QED  BY <1>2, <1>3, <1>4

(* decodePayload reads the name; the message is what is left. *)
LEMMA DecodeName ==
    ASSUME NEW b \in Seq(Nat), NEW d, d = bytes([buf |-> b, err |-> FALSE])
    PROVE  decodePayload(Cat(<<Version>>, b))
             = IF d.err \/ d.v \notin RegisteredNames
               THEN Refused
               ELSE [ok |-> TRUE, name |-> d.v, body |-> d.buf]
  <1>1. PICK p : p = Cat(<<Version>>, b)
    OBVIOUS
  <1>2. p # <<>> /\ Head(p) = Version /\ Tail(p) = b
    BY <1>1, VersionFront DEF Version
  <1>. QED  BY <1>1, <1>2, Zenon DEF decodePayload

(* encodePayload and decodePayload of grpcidem/grpcidem.go: a message      *)
(* comes back with its type and its bytes when the replaying process has   *)
(* registered the type; what ends within the name is refused, and so is    *)
(* another version.                                                        *)
THEOREM MessageReads ==
    ASSUME NEW m, Sendable(m), NEW p, p = encodePayload(m)
    PROVE  /\ decodePayload(p)
                = IF m.name \in RegisteredNames
                  THEN [ok |-> TRUE, name |-> m.name, body |-> m.body]
                  ELSE Refused
           /\ \A j \in 0 .. Len(p) - Len(m.body) - 1 : decodePayload(SubSeq(p, 1, j)) = Refused
           /\ decodePayload([p EXCEPT ![1] = Version + 1]) = Refused
  <1>1. PICK s : s = appendString(m.name)
    OBVIOUS
  <1>2. PICK c : c = Cat(s, m.body)
    OBVIOUS
  <1>3. /\ s \in Seq(Nat) /\ c \in Seq(Nat) /\ Len(c) = Len(s) + Len(m.body)
        /\ p = Cat(<<Version>>, c)
        /\ bytes([buf |-> c, err |-> FALSE]) = [v |-> m.name, buf |-> m.body, err |-> FALSE]
    BY <1>1, <1>2, PayloadName
  <1>4. /\ p \in Seq(Nat) /\ Len(p) = Len(c) + 1 /\ Len(c) \in Nat
        /\ \A n \in 1 .. Len(p) : \E b \in Seq(Nat), y \in Seq(Nat) :
              /\ SubSeq(p, 1, n) = Cat(<<Version>>, b) /\ c = Cat(b, y)
              /\ Len(b) = n - 1 /\ Len(c) = Len(b) + Len(y)
        /\ [p EXCEPT ![1] = Version + 1] = Cat(<<Version + 1>>, c)
    <2>1. c \in Seq(Nat) /\ p = Cat(<<Version>>, c)
      BY <1>3
    <2>2. /\ p \in Seq(Nat) /\ Len(p) = Len(c) + 1 /\ Len(c) \in Nat
          /\ \A n \in 1 .. Len(p) : \E b \in Seq(Nat), y \in Seq(Nat) :
                /\ SubSeq(p, 1, n) = Cat(<<Version>>, b) /\ c = Cat(b, y)
                /\ Len(b) = n - 1 /\ Len(c) = Len(b) + Len(y)
          /\ \A x \in Nat : Append(p, x) = Cat(<<Version>>, Cat(c, <<x>>))
          /\ [p EXCEPT ![1] = Version + 1] = Cat(<<Version + 1>>, c)
      BY <2>1, PayloadEdits
    <2>. QED  BY <2>2
  <1>5. m.body \in Seq(Nat) /\ Len(m.body) \in Nat /\ Len(s) \in Nat
    BY <1>3, LenProperties DEF Sendable
  <1>6. decodePayload(p)
          = IF m.name \in RegisteredNames
            THEN [ok |-> TRUE, name |-> m.name, body |-> m.body]
            ELSE Refused
    <2>1. PICK d : d = bytes([buf |-> c, err |-> FALSE])
      OBVIOUS
    <2>2. d.err = FALSE /\ d.v = m.name /\ d.buf = m.body
      BY <1>3, <2>1
    <2>3. decodePayload(Cat(<<Version>>, c))
            = IF d.err \/ d.v \notin RegisteredNames
              THEN Refused
              ELSE [ok |-> TRUE, name |-> d.v, body |-> d.buf]
      BY <1>3, <2>1, DecodeName
    <2>. QED  BY <1>3, <2>2, <2>3
  <1>7. ASSUME NEW j \in 0 .. Len(p) - Len(m.body) - 1
        PROVE  decodePayload(SubSeq(p, 1, j)) = Refused
    <2>1. CASE j = 0
      <3>1. SubSeq(p, 1, j) = <<>>
        BY <1>4, <2>1, SubSeqProperties, EmptySeq
      <3>. QED  BY <3>1, NothingStored
    <2>2. CASE j # 0
      <3>1. j \in 1 .. Len(p) /\ j - 1 < Len(s) /\ j \in Nat
        <4>1. /\ Len(p) = Len(c) + 1 /\ Len(c) \in Nat
              /\ Len(c) = Len(s) + Len(m.body)
          BY <1>3, <1>4
        <4>. QED  BY <1>5, <2>2, <4>1
      <3>2. PICK b \in Seq(Nat), y \in Seq(Nat) :
               /\ SubSeq(p, 1, j) = Cat(<<Version>>, b) /\ c = Cat(b, y)
               /\ Len(b) = j - 1 /\ Len(c) = Len(b) + Len(y)
        BY <1>4, <3>1
      <3>3. PICK f, g : f = [buf |-> b, err |-> FALSE] /\ g = [buf |-> c, err |-> FALSE]
        OBVIOUS
      <3>4. Decoder(f) /\ f.buf = b /\ g.err = FALSE /\ g.buf = c
        BY <3>2, <3>3 DEF Decoder
      <3>5. PICK d : d = bytes(f)
        OBVIOUS
      <3>6. d \in [v : Seq(Nat), buf : Seq(Nat), err : BOOLEAN]
        BY <3>4, <3>5, BytesType
      <3>7. d.err
        <4>1. SUFFICES ASSUME ~d.err PROVE FALSE
          OBVIOUS
        <4>2. g.buf = f.buf \o y
          BY <3>2, <3>4, Zenon DEF Cat
        <4>3. bytes(g) = [v |-> d.v, buf |-> d.buf \o y, err |-> FALSE]
          BY <3>2, <3>4, <3>5, <4>1, <4>2, BytesLonger
        <4>4. bytes(g) = [v |-> m.name, buf |-> m.body, err |-> FALSE]
          BY <1>3, <3>3, Zenon
        <4>5. PICK t : t = d.buf \o y
          OBVIOUS
        <4>6. bytes(g).buf = t
          BY <4>3, <4>5
        <4>7. bytes(g).buf = m.body
          BY <4>4
        <4>8. /\ d.buf \in Seq(Nat) /\ Len(t) = Len(d.buf) + Len(y)
              /\ Len(d.buf) \in Nat /\ Len(y) \in Nat /\ Len(b) \in Nat
          BY <3>2, <3>6, <4>5, ConcatProperties, LenProperties
        <4>9. Len(t) = Len(m.body)
          BY <4>6, <4>7
        <4>10. /\ Len(c) = Len(s) + Len(m.body) /\ Len(c) = Len(b) + Len(y)
               /\ Len(b) = j - 1
          BY <1>3, <3>2
        <4>. QED  BY <1>5, <3>1, <4>8, <4>9, <4>10
      <3>8. decodePayload(Cat(<<Version>>, b)) = Refused
        <4>1. d = bytes([buf |-> b, err |-> FALSE])
          BY <3>3, <3>5, Zenon
        <4>. QED  BY <3>2, <3>7, <4>1, DecodeName
      <3>. QED  BY <3>2, <3>8
    <2>. QED  BY <2>1, <2>2
  <1>8. decodePayload([p EXCEPT ![1] = Version + 1]) = Refused
    <2>1. PICK v \in Nat : v = Version + 1 /\ v # Version
      BY DEF Version
    <2>2. decodePayload(Cat(<<v>>, c)) = Refused
      BY <1>3, <2>1, OtherVersion
    <2>. QED  BY <1>4, <2>1, <2>2
  <1>. QED  BY <1>6, <1>7, <1>8

-----------------------------------------------------------------------------
(* The responses and messages of the specification *)

(* Two bytes of a varint are enough for anything below Base * Base. *)
LEMMA SmallFits ==
    ASSUME NEW v \in Nat, v < Base * Base
    PROVE  Fits(v)
  <1> DEFINE s == shifts(v)
  <1>1. Base \in Nat /\ Base >= 2 /\ MaxVarintLen \in Nat /\ MaxVarintLen >= 2
    BY CodecAssumption
  <1>2. \A i \in 0 .. MaxVarintLen : s[i] \in Nat
    BY Shifts
  <1>3. s[0] = v /\ \A i \in 1 .. MaxVarintLen : s[i] = s[i - 1] \div Base
    <2>1. \A i \in 0 .. MaxVarintLen : s[i] = IF i = 0 THEN v ELSE s[i - 1] \div Base
      BY Shifts
    <2>2. 0 \in 0 .. MaxVarintLen /\ \A i \in 1 .. MaxVarintLen : i \in 0 .. MaxVarintLen /\ i # 0
      BY <1>1
    <2> HIDE DEF s
    <2>. QED  BY <2>1, <2>2
  <1>4. ASSUME NEW a \in Nat, a < Base PROVE a \div Base = 0
    <2>1. PICK t, m : t = a \div Base /\ m = a % Base
      OBVIOUS
    <2>2. t \in Nat /\ m \in Nat /\ a = (t * Base) + m
      BY <1>1, <2>1, DivBounds
    <2>3. t >= 1 => t * Base >= Base
      BY <1>1, <2>2
    <2>. QED  BY <1>1, <1>4, <2>1, <2>2, <2>3
  <1>5. s[1] < Base
    <2>1. PICK t, m : t = v \div Base /\ m = v % Base
      OBVIOUS
    <2>2. t \in Nat /\ m \in Nat /\ v = (t * Base) + m
      BY <1>1, <2>1, DivBounds
    <2>3. t >= Base => t * Base >= Base * Base
      BY <1>1, <2>2
    <2>4. t * Base \in Nat /\ Base * Base \in Nat
      BY <1>1, <2>2
    <2>5. s[1] = t
      BY <1>1, <1>3, <2>1
    <2>. QED  BY <1>1, <2>2, <2>3, <2>4, <2>5
  <1>6. s[2] = 0
    <2>1. s[1] \in Nat /\ s[2] = s[1] \div Base
      BY <1>1, <1>2, <1>3
    <2>. QED  BY <1>4, <1>5, <2>1
  <1> DEFINE T == {i \in 0 .. MaxVarintLen : i >= 2 => s[i] = 0}
  <1>7. 0 \in T
    BY <1>1
  <1>8. ASSUME NEW i \in 0 .. MaxVarintLen - 1, i \in T PROVE i + 1 \in T
    <2>1. i \in Nat /\ i + 1 \in 0 .. MaxVarintLen /\ i + 1 \in 1 .. MaxVarintLen
      BY <1>1
    <2>2. CASE i < 1
      BY <1>6, <2>1, <2>2
    <2>3. CASE i = 1
      BY <1>6, <2>1, <2>3
    <2>4. CASE i >= 2
      <3>1. s[i] = 0
        BY <1>8, <2>4
      <3>2. s[i + 1] = s[i] \div Base
        BY <1>3, <2>1
      <3>3. 0 \div Base = 0
        BY <1>1, <1>4
      <3>. QED  BY <2>1, <3>1, <3>2, <3>3
    <2>. QED  BY <2>1, <2>2, <2>3, <2>4
  <1> HIDE DEF T
  <1>9. \A i \in 0 .. MaxVarintLen : i \in T
    BY <1>1, <1>7, <1>8, Climb
  <1>10. MaxVarintLen \in T /\ MaxVarintLen >= 2
    BY <1>1, <1>9
  <1>. QED  BY <1>10 DEF T, Fits

(* The counts and the lengths of the specification fit. *)
LEMMA SmallNumbers ==
    /\ Fits(1) /\ Fits(Base) /\ Fits(0) /\ Fits(2) /\ Fits(3)
    /\ \A n \in 0 .. maxHeaderValues + 1 : Fits(n)
  <1>1. Base \in Nat /\ Base >= 2 /\ maxHeaderValues \in Nat /\ maxHeaderValues + 1 < Base * Base
    BY CodecAssumption
  <1>2. PICK b : b = Base * Base
    OBVIOUS
  <1>3. b \in Nat /\ b >= 4 /\ Base < b
    <2>1. Base * Base >= 2 * Base
      BY <1>1
    <2>. QED  BY <1>1, <1>2, <2>1
  <1>4. \A n \in Nat : n < b => Fits(n)
    BY <1>2, SmallFits
  <1>5. \A n \in 0 .. maxHeaderValues + 1 : n \in Nat /\ n < b
    BY <1>1, <1>2, <1>3
  <1>. QED  BY <1>1, <1>3, <1>4, <1>5

LEMMA BodyFits ==
    ASSUME NEW s \in BodyBytes
    PROVE  s \in Seq(Nat) /\ Fits(Len(s))
  <1>1. CASE s = <<>>
    <2>1. s \in Seq(Nat) /\ Len(s) = 0
      BY <1>1, EmptySeq
    <2>. QED  BY <2>1, SmallNumbers
  <1>2. CASE s = [i \in 1 .. Base |-> 1]
    <2>1. Base \in Nat
      BY CodecAssumption
    <2>2. s \in Seq(Nat) /\ Len(s) = Base
      BY <1>2, <2>1
    <2>. QED  BY <2>2, SmallNumbers
  <1>. QED  BY <1>1, <1>2 DEF BodyBytes

LEMMA NamesFit ==
    /\ HeaderName \in SUBSET Seq(Nat) /\ IsFiniteSet(HeaderName)
    /\ \A n \in HeaderName : Fits(Len(n))
    /\ \A N \in SUBSET HeaderName : IsFiniteSet(N) /\ Fits(Cardinality(N))
  <1>1. PICK a, b, c : a = <<1>> /\ b = <<2>> /\ c = <<1, 1>>
    OBVIOUS
  <1>2. HeaderName = {a, b, c}
    BY <1>1 DEF HeaderName
  <1>3. /\ a \in Seq(Nat) /\ b \in Seq(Nat) /\ c \in Seq(Nat)
        /\ Len(a) = 1 /\ Len(b) = 1 /\ Len(c) = 2
    BY <1>1
  <1>4. \A n \in HeaderName : n \in Seq(Nat) /\ Fits(Len(n))
    BY <1>2, <1>3, SmallNumbers
  <1>5. IsFiniteSet(HeaderName) /\ Cardinality(HeaderName) <= 3 /\ Cardinality(HeaderName) \in Nat
    <2>1. IsFiniteSet({}) /\ Cardinality({}) = 0
      BY FS_EmptySet
    <2>2. IsFiniteSet({a}) /\ Cardinality({a}) = 1
      BY FS_Singleton
    <2>3. PICK ab : ab = {a} \cup {b}
      OBVIOUS
    <2>4. IsFiniteSet(ab) /\ (Cardinality(ab) = 1 \/ Cardinality(ab) = 2)
      BY <2>2, <2>3, FS_AddElement
    <2>5. IsFiniteSet(ab \cup {c}) /\ (Cardinality(ab \cup {c}) = Cardinality(ab)
                                        \/ Cardinality(ab \cup {c}) = Cardinality(ab) + 1)
      BY <2>4, FS_AddElement
    <2>6. HeaderName = ab \cup {c}
      BY <1>2, <2>3
    <2>. QED  BY <2>4, <2>5, <2>6
  <1>6. ASSUME NEW N \in SUBSET HeaderName
        PROVE  IsFiniteSet(N) /\ Fits(Cardinality(N))
    <2>1. IsFiniteSet(N) /\ Cardinality(N) <= Cardinality(HeaderName)
      BY <1>5, FS_Subset
    <2>2. Cardinality(N) \in Nat
      BY <2>1, FS_CardinalityType
    <2>3. Cardinality(N) \in {0, 1, 2, 3}
      BY <1>5, <2>1, <2>2
    <2>. QED  BY <2>1, <2>3, SmallNumbers
  <1>. QED  BY <1>4, <1>5, <1>6

(* So the theorems above are about every response of the specification, and *)
(* about every message.                                                    *)
LEMMA ResponsesEncodable ==
    ASSUME NEW r \in StoredResponses
    PROVE  Encodable(r)
  <1>1. r.status \in {1, Base} /\ r.header \in Headers /\ r.body \in BodyBytes
    BY DEF StoredResponses
  <1>2. PICK hd : hd = r.header
    OBVIOUS
  <1>3. PICK N \in SUBSET HeaderName :
           hd \in [N -> BoundedSeq(HeaderValue, maxHeaderValues + 1)]
    BY <1>1, <1>2 DEF Headers
  <1>4. DOMAIN hd = N
    BY <1>3
  <1>5. ASSUME NEW n \in N PROVE Writable(hd[n]) /\ hd[n] \in Seq(Seq(Nat))
    <2>1. PICK vs : vs = hd[n]
      OBVIOUS
    <2>2. vs \in BoundedSeq(HeaderValue, maxHeaderValues + 1)
      BY <1>3, <2>1
    <2>3. maxHeaderValues + 1 \in Nat
      BY CodecAssumption
    <2>4. vs \in Seq(HeaderValue) /\ Len(vs) \in 0 .. maxHeaderValues + 1
      BY <2>2, <2>3, Bounded
    <2>5. \A s \in HeaderValue : s \in Seq(Nat) /\ Fits(Len(s))
      <3>1. PICK a, b : a = <<>> /\ b = <<1>>
        OBVIOUS
      <3>2. a \in Seq(Nat) /\ b \in Seq(Nat) /\ Len(a) = 0 /\ Len(b) = 1
        BY <3>1
      <3>. QED  BY <3>1, <3>2, SmallNumbers DEF HeaderValue
    <2>6. Fits(Len(vs))
      BY <2>4, SmallNumbers
    <2>7. \A i \in 1 .. Len(vs) : vs[i] \in HeaderValue
      BY <2>4, ElementOfSeq
    <2>8. vs \in Seq(Seq(Nat))
      <3>1. HeaderValue \in SUBSET Seq(Nat)
        BY <2>5
      <3>. QED  BY <2>4, <2>7, <3>1, SeqDef
    <2>9. Writable(vs)
      BY <2>5, <2>6, <2>7, <2>8 DEF Writable
    <2>. QED  BY <2>1, <2>8, <2>9
  <1>6. hd \in HttpHeader
    <2>1. N \in SUBSET Seq(Nat)
      BY <1>3, NamesFit
    <2>2. hd \in [N -> Seq(Seq(Nat))]
      BY <1>3, <1>5
    <2>. QED  BY <2>1, <2>2 DEF HttpHeader
  <1>7. IsFiniteSet(N) /\ Fits(Cardinality(N)) /\ \A n \in N : Fits(Len(n))
    BY <1>3, NamesFit
  <1>8. Fits(r.status)
    BY <1>1, SmallNumbers
  <1>9. r.body \in Seq(Nat) /\ Fits(Len(r.body))
    BY <1>1, BodyFits
  <1>. QED  BY <1>2, <1>4, <1>5, <1>6, <1>7, <1>8, <1>9 DEF Encodable

LEMMA MessagesSendable ==
    ASSUME NEW m \in Messages
    PROVE  Sendable(m)
  <1>1. m.name \in BoundedSeq({1, Base}, 2) /\ m.body \in BodyBytes
    BY DEF Messages
  <1>2. m.name \in Seq({1, Base}) /\ Len(m.name) \in 0 .. 2
    BY <1>1, Bounded
  <1>3. m.name \in Seq(Nat)
    <2>1. Base \in Nat
      BY CodecAssumption
    <2>. QED  BY <1>2, <2>1
  <1>4. Len(m.name) \in {0, 1, 2}
    BY <1>2
  <1>5. Fits(Len(m.name))
    BY <1>4, SmallNumbers
  <1>6. m.body \in Seq(Nat)
    BY <1>1, BodyFits
  <1>. QED  BY <1>3, <1>5, <1>6 DEF Sendable

(* What the variables hold. *)
CodecInv ==
    /\ sr = <<>> \/ \E r \in StoredResponses : sr = <<r>>
    /\ msg = <<>> \/ \E m \in Messages : msg = <<m>>

(* Nothing else is ever held. *)
LEMMA CodecHolds == CodecSpec => []CodecInv
  <1>1. CodecInit => CodecInv
    BY DEF CodecInit, CodecInv
  <1>2. CodecInv /\ [CodecNext]_codecVars => CodecInv'
    BY DEF CodecInv, CodecNext, codecVars
  <1>. QED  BY <1>1, <1>2, PTL DEF CodecSpec

LEMMA HeldAreWritten ==
    ASSUME CodecInv
    PROVE  /\ \A i \in DOMAIN sr : Encodable(sr[i])
           /\ \A i \in DOMAIN msg : Sendable(msg[i])
  <1>1. ASSUME NEW i \in DOMAIN sr PROVE sr[i] \in StoredResponses
    BY <1>1 DEF CodecInv
  <1>2. ASSUME NEW i \in DOMAIN msg PROVE msg[i] \in Messages
    BY <1>2 DEF CodecInv
  <1>. QED  BY <1>1, <1>2, ResponsesEncodable, MessagesSendable

(* Every payload that a store may hold decodes to what was stored, or is   *)
(* refused for the decoder's limits or an unknown type (UnmarshalBinary,   *)
(* decodePayload), for every value of the limits.                          *)
THEOREM PayloadsRead == CodecSpec => []RoundTrip
  <1>1. CodecInv => RoundTrip
    <2>1. SUFFICES ASSUME CodecInv PROVE RoundTrip
      OBVIOUS
    <2>2. /\ \A i \in DOMAIN sr : Encodable(sr[i])
          /\ \A i \in DOMAIN msg : Sendable(msg[i])
      BY <2>1, HeldAreWritten
    <2>. QED  BY <2>2, ResponseReads, MessageReads DEF RoundTrip
  <1>. QED  BY <1>1, CodecHolds, PTL

(* A damaged payload is refused, never read as another response. *)
THEOREM DamageFound == CodecSpec => []CorruptRefused
  <1>1. CodecInv => CorruptRefused
    <2>1. SUFFICES ASSUME CodecInv PROVE CorruptRefused
      OBVIOUS
    <2>2. /\ \A i \in DOMAIN sr : Encodable(sr[i])
          /\ \A i \in DOMAIN msg : Sendable(msg[i])
      BY <2>1, HeldAreWritten
    <2>3. 0 \in Nat /\ Base \in Nat
      BY CodecAssumption
    <2>. QED  BY <2>2, <2>3, ResponseDamaged, MessageReads DEF CorruptRefused
  <1>. QED  BY <1>1, CodecHolds, PTL

=============================================================================
