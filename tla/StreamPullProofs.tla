-------------------------- MODULE StreamPullProofs --------------------------
(***************************************************************************)
(* Proofs about a pull from a directory of parts, for every set of pushes  *)
(* and downloads, every block, pipe, buffer and record size, and every     *)
(* budget of mishaps: nothing is dropped between the decryptor and the     *)
(* output, a part is only removed once it was read and the whole push was  *)
(* checked, no placeholder is left, Done means restored, and a sound pull  *)
(* only fails when the disk or tarfile refuses.                            *)
(***************************************************************************)
EXTENDS StreamPull, SequenceTheorems, FiniteSetTheorems, WellFoundedInduction, TLAPS

-----------------------------------------------------------------------------
(* Sequences.                                                              *)

\* A sequence taken apart after its n-th element.
LEMMA TakenApart ==
  ASSUME NEW S, NEW s \in Seq(S), NEW n \in 0..Len(s)
  PROVE  /\ SubSeq(s, 1, n) \in Seq(S)
         /\ Len(SubSeq(s, 1, n)) = n
         /\ \A j \in 1..n : SubSeq(s, 1, n)[j] = s[j]
         /\ SubSeq(s, n + 1, Len(s)) \in Seq(S)
         /\ Len(SubSeq(s, n + 1, Len(s))) = Len(s) - n
         /\ \A j \in 1..(Len(s) - n) : SubSeq(s, n + 1, Len(s))[j] = s[n + j]
<1>1. Len(s) \in Nat /\ \A j \in 1..Len(s) : s[j] \in S
  BY LenProperties, ElementOfSeq
<1>2. \A j \in 1..n : s[j] \in S
  BY <1>1
<1>3. /\ SubSeq(s, 1, n) \in Seq(S)
      /\ Len(SubSeq(s, 1, n)) = IF 1 <= n THEN n - 1 + 1 ELSE 0
      /\ \A j \in 1..(n - 1 + 1) : SubSeq(s, 1, n)[j] = s[1 + j - 1]
  BY <1>1, <1>2, SubSeqProperties
<1>4. \A j \in (n + 1)..Len(s) : s[j] \in S
  BY <1>1
<1>5. /\ SubSeq(s, n + 1, Len(s)) \in Seq(S)
      /\ Len(SubSeq(s, n + 1, Len(s))) =
           IF n + 1 <= Len(s) THEN Len(s) - (n + 1) + 1 ELSE 0
      /\ \A j \in 1..(Len(s) - (n + 1) + 1) :
           SubSeq(s, n + 1, Len(s))[j] = s[(n + 1) + j - 1]
  BY <1>1, <1>4, SubSeqProperties
<1> QED
  BY <1>1, <1>3, <1>5

\* A sequence that goes on with r after p.
LEMMA GoesOn ==
  ASSUME NEW S, NEW p \in Seq(S), NEW r \in Seq(S), NEW q \in Seq(S),
         Len(q) = Len(p) + Len(r),
         \A k \in 1..Len(p) : q[k] = p[k],
         \A k \in 1..Len(r) : q[Len(p) + k] = r[k]
  PROVE  q = p \o r
<1>1. /\ p \o r \in Seq(S) /\ Len(p \o r) = Len(p) + Len(r)
      /\ \A k \in 1..(Len(p) + Len(r)) :
           (p \o r)[k] = IF k <= Len(p) THEN p[k] ELSE r[k - Len(p)]
  BY ConcatProperties
<1>2. Len(p) \in Nat /\ Len(r) \in Nat
  BY LenProperties
<1>3. \A k \in 1..(Len(p) + Len(r)) : (p \o r)[k] = q[k]
  <2> TAKE k \in 1..(Len(p) + Len(r))
  <2>1. k \in Nat /\ (k <= Len(p) \/ k > Len(p))
    BY <1>2
  <2>2. CASE k <= Len(p)
    BY <1>1, <1>2, <2>1, <2>2
  <2>3. CASE k > Len(p)
    <3>1. k - Len(p) \in 1..Len(r) /\ Len(p) + (k - Len(p)) = k
      BY <1>2, <2>1, <2>3
    <3>2. q[Len(p) + (k - Len(p))] = r[k - Len(p)]
      BY <3>1
    <3>3. (p \o r)[k] = r[k - Len(p)]
      BY <1>1, <1>2, <2>1, <2>3
    <3> QED
      BY <3>1, <3>2, <3>3
  <2> QED
    BY <2>1, <2>2, <2>3, Zenon
<1> QED
  BY <1>1, <1>3, SeqEqual

\* Taken apart and put together again, whatever comes before.
LEMMA PutBack ==
  ASSUME NEW S, NEW r \in Seq(S), NEW s \in Seq(S), NEW n \in 0..Len(s)
  PROVE  (r \o SubSeq(s, 1, n)) \o SubSeq(s, n + 1, Len(s)) = r \o s
<1> DEFINE front == SubSeq(s, 1, n)
           back == SubSeq(s, n + 1, Len(s))
<1>1. /\ front \in Seq(S) /\ Len(front) = n /\ \A j \in 1..n : front[j] = s[j]
      /\ back \in Seq(S) /\ Len(back) = Len(s) - n
      /\ \A j \in 1..(Len(s) - n) : back[j] = s[n + j]
  BY TakenApart
<1>2. Len(s) \in Nat
  BY LenProperties
<1> HIDE DEF front, back
<1>3. Len(s) = Len(front) + Len(back)
  BY <1>1, <1>2
<1>4. \A k \in 1..Len(front) : s[k] = front[k]
  BY <1>1
<1>5. \A k \in 1..Len(back) : s[Len(front) + k] = back[k]
  BY <1>1
<1>6. s = front \o back
  BY <1>1, <1>3, <1>4, <1>5, GoesOn
<1>7. (r \o front) \o back = r \o (front \o back)
  BY <1>1, ConcatAssociative
<1> QED
  BY <1>6, <1>7 DEF front, back

\* A finite set of numbers that holds with a number all below it is an interval.
LEMMA DownwardClosed ==
  ASSUME NEW I \in SUBSET Nat, IsFiniteSet(I), \A i \in I : 0..i \subseteq I
  PROVE  Cardinality(I) \in Nat /\ I = 0..(Cardinality(I) - 1)
<1> DEFINE n == Cardinality(I)
<1>1. n \in Nat
  BY FS_CardinalityType
<1>2. \A i \in I : i <= n - 1
  <2> TAKE i \in I
  <2>1. i \in Nat /\ 0 \in Int /\ i \in Int
    OBVIOUS
  <2>2. Cardinality(0..i) = i + 1
    BY <2>1, FS_Interval
  <2>3. 0..i \in SUBSET I
    OBVIOUS
  <2>4. Cardinality(0..i) <= n
    BY <2>3, FS_Subset
  <2> QED
    BY <1>1, <2>1, <2>2, <2>4
<1>3. I \in SUBSET (0..(n - 1))
  BY <1>1, <1>2
<1>4. IsFiniteSet(0..(n - 1)) /\ Cardinality(0..(n - 1)) = n
  <2>1. 0 \in Int /\ n - 1 \in Int
    BY <1>1
  <2>2. IsFiniteSet(0..(n - 1)) /\
        Cardinality(0..(n - 1)) = IF 0 > n - 1 THEN 0 ELSE n - 1 - 0 + 1
    BY <2>1, FS_Interval
  <2> HIDE DEF n
  <2> QED
    BY <1>1, <2>2
<1>5. I = 0..(n - 1)
  BY <1>3, <1>4, FS_Subset
<1> QED
  BY <1>1, <1>5

-----------------------------------------------------------------------------
(* The decryptor.                                                          *)

\* A decryptor fed with bytes of S: nothing is passed on, nor held back, before
\* the header is complete.
Decryptor(S) ==
  {d \in [head : Seq(S), passed : Seq(S), tail : Seq(S)] :
     /\ Len(d.head) <= HeaderSize
     /\ Len(d.head) < HeaderSize => Len(d.passed) = 0 /\ Len(d.tail) = 0}

\* A character of the output.
Letter == {b[4][1] : b \in Byte} \cup {Garbage}

LEMMA Regrouped ==
  ASSUME NEW r \in Seq(Letter), NEW s \in Seq(Letter), NEW t \in Seq(Letter)
  PROVE  r \o (s \o t) = (r \o s) \o t
BY ConcatAssociative

LEMMA NewTyped ==
  ASSUME NEW S
  PROVE  /\ NewDecryptor \in Decryptor(S)
         /\ Len(NewDecryptor.passed) = 0
<1>1. PICK e \in Seq(S) : e = << >> /\ Len(e) = 0
  BY EmptySeq, Zenon
<1>2. NewDecryptor = [head |-> e, passed |-> e, tail |-> e]
  BY <1>1, Zenon DEF NewDecryptor
<1>3. HeaderSize \in Nat
  BY CipherAssumption
<1> QED
  BY <1>1, <1>2, <1>3 DEF Decryptor

LEMMA MakesDecryptor ==
  ASSUME NEW S, NEW h \in Seq(S), NEW p \in Seq(S), NEW t \in Seq(S),
         Len(h) <= HeaderSize,
         Len(h) < HeaderSize => Len(p) = 0 /\ Len(t) = 0
  PROVE  [head |-> h, passed |-> p, tail |-> t] \in Decryptor(S)
BY DEF Decryptor

LEMMA ShorterFacts ==
  ASSUME NEW a \in Int, NEW b \in Int
  PROVE  /\ Shorter(a, b) \in Int
         /\ Shorter(a, b) <= a /\ Shorter(a, b) <= b
         /\ Shorter(a, b) = a \/ Shorter(a, b) = b
BY DEF Shorter

\* update() of a block: the header grows, then what was held back and the rest
\* of the block, but for the bytes it holds back now, is passed on.
LEMMA UpdateFacts ==
  ASSUME NEW S, NEW d \in Decryptor(S), NEW block \in Seq(S)
  PROVE  /\ Update(d, block) \in Decryptor(S)
         /\ Len(Update(d, block).passed) \in Nat
         /\ Len(d.passed) \in Nat
         /\ Len(Update(d, block).passed) >= Len(d.passed)
         /\ \A k \in 1..Len(d.passed) : Update(d, block).passed[k] = d.passed[k]
         /\ Len(d.passed) > 0 => Update(d, block).head = d.head
<1> DEFINE t == Shorter(HeaderSize - Len(d.head), Len(block))
           b1 == SubSeq(block, 1, t)
           b2 == SubSeq(block, t + 1, Len(block))
           buf == d.tail \o b2
           held == Shorter(TagSize, Len(buf))
           n == Len(buf) - held
           out == SubSeq(buf, 1, n)
           rest == SubSeq(buf, n + 1, Len(buf))
<1>1. /\ d.head \in Seq(S) /\ d.passed \in Seq(S) /\ d.tail \in Seq(S)
      /\ Len(d.head) <= HeaderSize
      /\ Len(d.head) < HeaderSize => Len(d.passed) = 0 /\ Len(d.tail) = 0
  BY DEF Decryptor
<1>2. /\ Len(d.head) \in Nat /\ Len(d.passed) \in Nat /\ Len(d.tail) \in Nat
      /\ Len(block) \in Nat
      /\ HeaderSize \in Nat \ {0} /\ TagSize \in Nat \ {0}
  BY <1>1, LenProperties, CipherAssumption
<1>3. /\ t \in 0..Len(block)
      /\ t <= HeaderSize - Len(d.head)
      /\ t < HeaderSize - Len(d.head) => t = Len(block)
  <2>1. HeaderSize - Len(d.head) \in Int /\ Len(block) \in Int
        /\ HeaderSize - Len(d.head) >= 0
    BY <1>1, <1>2
  <2>2. t <= HeaderSize - Len(d.head) /\ t <= Len(block) /\ t \in Int
        /\ (t = HeaderSize - Len(d.head) \/ t = Len(block))
    BY <2>1, ShorterFacts
  <2> HIDE DEF t
  <2> QED
    BY <1>2, <2>1, <2>2
<1> HIDE DEF t
<1>4. /\ b1 \in Seq(S) /\ Len(b1) = t
      /\ b2 \in Seq(S) /\ Len(b2) = Len(block) - t
  BY <1>3, TakenApart
<1> HIDE DEF b1, b2
<1>5. buf \in Seq(S) /\ Len(buf) = Len(d.tail) + Len(b2)
  BY <1>1, <1>4, ConcatProperties
<1>6. Len(buf) \in Nat
  BY <1>5, LenProperties
<1> HIDE DEF buf
<1>7. held \in 0..Len(buf)
  BY <1>2, <1>6 DEF Shorter
<1> HIDE DEF held
<1>8. n \in 0..Len(buf) /\ n <= Len(buf)
  BY <1>6, <1>7
<1> HIDE DEF n
<1>9. /\ out \in Seq(S) /\ Len(out) = n
      /\ rest \in Seq(S) /\ Len(rest) = Len(buf) - n
  BY <1>5, <1>8, TakenApart
<1> HIDE DEF out, rest
<1>10. /\ d.head \o b1 \in Seq(S)
       /\ Len(d.head \o b1) = Len(d.head) + t
  BY <1>1, <1>4, ConcatProperties
<1>11. /\ d.passed \o out \in Seq(S)
       /\ Len(d.passed \o out) = Len(d.passed) + n
       /\ \A k \in 1..(Len(d.passed) + n) :
            (d.passed \o out)[k] = IF k <= Len(d.passed) THEN d.passed[k]
                                   ELSE out[k - Len(d.passed)]
  BY <1>1, <1>9, ConcatProperties
<1>12. Update(d, block) = [head |-> d.head \o b1, passed |-> d.passed \o out, tail |-> rest]
  BY Zenon DEF Update, t, b1, b2, buf, held, n, out, rest
<1>13. Len(d.head \o b1) <= HeaderSize
  BY <1>2, <1>3, <1>10
<1>14. Len(d.head \o b1) < HeaderSize => Len(d.passed \o out) = 0 /\ Len(rest) = 0
  <2> SUFFICES ASSUME Len(d.head \o b1) < HeaderSize
               PROVE  Len(d.passed \o out) = 0 /\ Len(rest) = 0
    OBVIOUS
  <2>1. t < HeaderSize - Len(d.head) /\ Len(d.head) < HeaderSize
    BY <1>2, <1>3, <1>10
  <2>2. Len(b2) = 0 /\ Len(d.tail) = 0 /\ Len(d.passed) = 0
    BY <1>1, <1>2, <1>3, <1>4, <2>1
  <2>3. n = 0 /\ Len(buf) = 0
    BY <1>5, <1>8, <2>2
  <2> QED
    BY <1>9, <1>11, <2>2, <2>3
<1>15. Update(d, block) \in Decryptor(S)
  <2>1. [head |-> d.head \o b1, passed |-> d.passed \o out, tail |-> rest] \in Decryptor(S)
    BY <1>9, <1>10, <1>11, <1>13, <1>14, MakesDecryptor
  <2> QED
    BY <1>12, <2>1
<1>16. Len(d.passed) > 0 => d.head \o b1 = d.head
  <2> SUFFICES ASSUME Len(d.passed) > 0 PROVE d.head \o b1 = d.head
    OBVIOUS
  <2>1. Len(d.head) = HeaderSize
    BY <1>1, <1>2
  <2>2. t = 0
    BY <1>2, <1>3, <2>1
  <2>3. b1 = << >>
    BY <1>4, <2>2, EmptySeq, Zenon
  <2> QED
    BY <1>1, <2>3, ConcatEmptySeq, Zenon
<1> QED
  BY <1>2, <1>8, <1>11, <1>12, <1>15, <1>16

\* What comes out of a decryptor is as long as what was passed on.
LEMMA PlainFacts ==
  ASSUME NEW d \in Decryptor(Byte), NEW right \in BOOLEAN
  PROVE  /\ Plain(d, right) \in Seq(Letter)
         /\ Len(Plain(d, right)) = Len(d.passed)
         /\ Len(d.passed) \in Nat
<1>1. d.passed \in Seq(Byte)
  BY DEF Decryptor
<1>2. Len(d.passed) \in Nat /\ \A k \in 1..Len(d.passed) : d.passed[k] \in Byte
  BY <1>1, LenProperties, ElementOfSeq
<1>3. \A k \in 1..Len(d.passed) : d.passed[k][4][1] \in Letter
  BY <1>2, Zenon DEF Letter
<1>4. Garbage \in Letter
  BY DEF Letter
<1>5. Plain(d, right) \in [1..Len(d.passed) -> Letter]
  BY <1>3, <1>4 DEF Plain
<1>6. Plain(d, right) \in Seq(Letter)
  BY <1>2, <1>5, SeqDef
<1>7. DOMAIN Plain(d, right) = 1..Len(Plain(d, right)) /\ Len(Plain(d, right)) \in Nat
  BY <1>6, LenProperties
<1> QED
  BY <1>2, <1>5, <1>6, <1>7

\* update() returns exactly what the plaintext grew by.
LEMMA ReleasedFacts ==
  ASSUME NEW d \in Decryptor(Byte), NEW block \in Seq(Byte), NEW right \in BOOLEAN
  PROVE  /\ Released(d, block, right) \in Seq(Letter)
         /\ Plain(Update(d, block), right) = Plain(d, right) \o Released(d, block, right)
<1> DEFINE u == Update(d, block)
           m == Len(d.passed)
           n == Len(u.passed)
           p == Plain(d, right)
           q == Plain(u, right)
           r == Released(d, block, right)
<1>1. /\ u \in Decryptor(Byte)
      /\ n \in Nat /\ m \in Nat /\ n >= m
      /\ \A k \in 1..m : u.passed[k] = d.passed[k]
      /\ m > 0 => u.head = d.head
  BY UpdateFacts
<1> HIDE DEF u
<1>2. p \in Seq(Letter) /\ Len(p) = m
  BY PlainFacts
<1>3. q \in Seq(Letter) /\ Len(q) = n
  BY <1>1, PlainFacts
<1>4. r = SubSeq(q, m + 1, Len(q))
  BY <1>3 DEF Released, u
<1>5. /\ r \in Seq(Letter) /\ Len(r) = n - m
      /\ \A j \in 1..(n - m) : r[j] = q[m + j]
  <2> HIDE DEF q, r, m, n
  <2>1. m \in 0..Len(q)
    BY <1>1, <1>3
  <2> QED
    BY <1>3, <1>4, <2>1, TakenApart
<1>6. \A k \in 1..m : q[k] = p[k]
  <2> TAKE k \in 1..m
  <2>1. u.passed[k] = d.passed[k] /\ u.head = d.head /\ k \in 1..n
    BY <1>1
  <2> QED
    BY <2>1, Zenon DEF Plain
<1> HIDE DEF p, q, r, m, n
<1>7. Len(q) = Len(p) + Len(r)
  BY <1>1, <1>2, <1>3, <1>5
<1>8. (\A k \in 1..Len(p) : q[k] = p[k]) /\ (\A k \in 1..Len(r) : q[Len(p) + k] = r[k])
  BY <1>2, <1>5, <1>6
<1>9. q = p \o r
  BY <1>2, <1>3, <1>5, <1>7, <1>8, GoesOn
<1> QED
  BY <1>5, <1>9 DEF p, q, r, u

-----------------------------------------------------------------------------
(* The bytes of a push and its parts.                                      *)

\* A function on 1..n is a sequence.
LEMMA FunctionAsSequence ==
  ASSUME NEW S, NEW n \in Nat, NEW f \in [1..n -> S]
  PROVE  f \in Seq(S) /\ Len(f) = n
<1>1. f \in Seq(S)
  BY SeqDef
<1>2. Len(f) \in Nat /\ DOMAIN f = 1..Len(f)
  BY <1>1, LenProperties
<1> QED
  BY <1>1, <1>2

LEMMA OneByte ==
  ASSUME NEW S, NEW c \in S
  PROVE  <<c>> \in Seq(S)
<1>1. << >> \in Seq(S)
  BY EmptySeq
<1>2. Append(<< >>, c) \in Seq(S)
  BY <1>1, AppendProperties
<1> QED
  BY <1>2

LEMMA ByteIsByte ==
  ASSUME NEW w \in {"header", "body", "tag"}, NEW s \in Nat, NEW j \in Nat, NEW t \in Seq(STRING)
  PROVE  <<w, s, j, t>> \in Byte
BY DEF Byte

LEMMA HeaderBytes ==
  ASSUME NEW s \in Nat
  PROVE  /\ Header(s) \in Seq(Byte)
         /\ Len(Header(s)) = HeaderSize
         /\ \A j \in 1..HeaderSize : Header(s)[j] = <<"header", s, j, << >> >>
<1>1. PICK e \in Seq(STRING) : e = << >>
  BY EmptySeq, Zenon
<1>2. \A j \in 1..HeaderSize : <<"header", s, j, e>> \in Byte
  BY CipherAssumption, ByteIsByte
<1>3. \A j \in 1..HeaderSize : <<"header", s, j, << >> >> \in Byte
  BY <1>1, <1>2, Zenon
<1>4. Header(s) \in [1..HeaderSize -> Byte]
  BY <1>3 DEF Header
<1>5. HeaderSize \in Nat
  BY CipherAssumption
<1> QED
  BY <1>4, <1>5, FunctionAsSequence DEF Header

LEMMA BodyBytes ==
  ASSUME NEW s \in Nat, NEW t \in Seq(STRING)
  PROVE  /\ Body(s, t) \in Seq(Byte)
         /\ Len(Body(s, t)) = Len(t)
         /\ \A j \in 1..Len(t) : Body(s, t)[j] = <<"body", s, j, <<t[j]>> >>
<1>1. Len(t) \in Nat /\ \A j \in 1..Len(t) : t[j] \in STRING
  BY LenProperties, ElementOfSeq
<1>2. \A c \in STRING : <<c>> \in Seq(STRING)
  BY OneByte
<1>3. \A j \in 1..Len(t) : <<"body", s, j, <<t[j]>> >> \in Byte
  <2> TAKE j \in 1..Len(t)
  <2>1. j \in Nat /\ <<t[j]>> \in Seq(STRING)
    BY <1>1, <1>2
  <2> QED
    BY <2>1, ByteIsByte
<1>4. Body(s, t) \in [1..Len(t) -> Byte]
  BY <1>3 DEF Body
<1> QED
  BY <1>1, <1>4, FunctionAsSequence DEF Body

LEMMA TagBytes ==
  ASSUME NEW s \in Nat, NEW t \in Seq(STRING)
  PROVE  /\ Tag(s, t) \in Seq(Byte)
         /\ Len(Tag(s, t)) = TagSize
         /\ \A j \in 1..TagSize : Tag(s, t)[j] = <<"tag", s, j, t>>
<1>1. \A j \in 1..TagSize : <<"tag", s, j, t>> \in Byte
  BY CipherAssumption, ByteIsByte
<1>2. Tag(s, t) \in [1..TagSize -> Byte]
  BY <1>1 DEF Tag
<1>3. TagSize \in Nat
  BY CipherAssumption
<1> QED
  BY <1>2, <1>3, FunctionAsSequence DEF Tag

LEMMA PushTyped ==
  ASSUME NEW p \in Pushes
  PROVE  /\ p.salt \in Nat /\ p.text \in Seq(STRING) /\ p.size \in Nat \ {0}
         /\ p.label \in STRING /\ p.label # Anything
BY PullAssumption

\* The ciphertext of a push, and of which kinds its bytes are.
LEMMA PushBytes ==
  ASSUME NEW p \in Pushes
  PROVE  /\ Bytes(p) \in Seq(Byte)
         /\ Len(Bytes(p)) \in Nat
         /\ \A j \in 1..Len(Bytes(p)) :
              \/ \E k \in 1..HeaderSize : Bytes(p)[j] = Header(p.salt)[k]
              \/ \E k \in 1..Len(p.text) : Bytes(p)[j] = Body(p.salt, p.text)[k]
              \/ \E k \in 1..TagSize : Bytes(p)[j] = Tag(p.salt, p.text)[k]
<1> DEFINE h == Header(p.salt)
           m == Body(p.salt, p.text)
           t == Tag(p.salt, p.text)
<1>1. /\ h \in Seq(Byte) /\ Len(h) = HeaderSize
      /\ m \in Seq(Byte) /\ Len(m) = Len(p.text)
      /\ t \in Seq(Byte) /\ Len(t) = TagSize
  BY PushTyped, HeaderBytes, BodyBytes, TagBytes
<1>2. Bytes(p) = (h \o m) \o t
  BY DEF Bytes, Ciphertext
<1> HIDE DEF h, m, t
<1>3. /\ Len(h) \in Nat /\ Len(m) \in Nat /\ Len(t) \in Nat
  BY <1>1, LenProperties
<1>4. /\ h \o m \in Seq(Byte) /\ Len(h \o m) = Len(h) + Len(m)
      /\ \A i \in 1..(Len(h) + Len(m)) :
           (h \o m)[i] = IF i <= Len(h) THEN h[i] ELSE m[i - Len(h)]
  BY <1>1, ConcatProperties
<1> DEFINE hm == h \o m
<1> HIDE DEF hm
<1>5. hm \in Seq(Byte) /\ Len(hm) = Len(h) + Len(m)
      /\ \A i \in 1..(Len(h) + Len(m)) : hm[i] = IF i <= Len(h) THEN h[i] ELSE m[i - Len(h)]
  BY <1>4 DEF hm
<1> HIDE DEF hm
<1>6. /\ hm \o t \in Seq(Byte) /\ Len(hm \o t) = Len(hm) + Len(t)
      /\ \A i \in 1..(Len(hm) + Len(t)) :
           (hm \o t)[i] = IF i <= Len(hm) THEN hm[i] ELSE t[i - Len(hm)]
  <2>1. hm \in Seq(Byte) /\ t \in Seq(Byte)
    BY <1>1, <1>5
  <2> HIDE DEF Byte
  <2> QED
    BY <2>1, ConcatProperties
<1>7. \A j \in 1..(Len(hm) + Len(t)) :
        \/ \E k \in 1..Len(h) : (hm \o t)[j] = h[k]
        \/ \E k \in 1..Len(m) : (hm \o t)[j] = m[k]
        \/ \E k \in 1..Len(t) : (hm \o t)[j] = t[k]
  <2> TAKE j \in 1..(Len(hm) + Len(t))
  <2>1. j \in Nat /\ (j <= Len(h) \/ (j > Len(h) /\ j <= Len(hm)) \/ j > Len(hm))
    BY <1>3, <1>5
  <2>2. CASE j <= Len(h)
    <3>1. j \in 1..Len(h) /\ (hm \o t)[j] = h[j]
      BY <1>3, <1>5, <1>6, <2>1, <2>2
    <3> QED
      BY <3>1
  <2>3. CASE j > Len(h) /\ j <= Len(hm)
    <3>1. j - Len(h) \in 1..Len(m) /\ (hm \o t)[j] = m[j - Len(h)]
      BY <1>3, <1>5, <1>6, <2>1, <2>3
    <3> QED
      BY <3>1
  <2>4. CASE j > Len(hm)
    <3>1. j - Len(hm) \in 1..Len(t) /\ (hm \o t)[j] = t[j - Len(hm)]
      BY <1>3, <1>5, <1>6, <2>1, <2>4
    <3> QED
      BY <3>1
  <2> QED
    BY <2>1, <2>2, <2>3, <2>4, Zenon
<1>8. Bytes(p) = hm \o t
  BY <1>2 DEF hm
<1>9. Len(hm \o t) = Len(hm) + Len(t) /\ Len(hm \o t) \in Nat
  BY <1>3, <1>5, <1>6
<1>10. \A j \in 1..Len(Bytes(p)) :
         \/ \E k \in 1..HeaderSize : Bytes(p)[j] = h[k]
         \/ \E k \in 1..Len(p.text) : Bytes(p)[j] = m[k]
         \/ \E k \in 1..TagSize : Bytes(p)[j] = t[k]
  BY <1>1, <1>7, <1>8, <1>9, Zenon
<1> QED
  BY <1>6, <1>8, <1>9, <1>10, Zenon DEF h, m, t

\* The names of a push's parts, and the parts themselves.
LEMMA NameFacts ==
  ASSUME NEW p \in Pushes, NEW n \in DOMAIN PartFiles(p)
  PROVE  /\ n = [label |-> p.label, index |-> n.index]
         /\ n.label = p.label /\ n.index \in Nat
         /\ n.index < PartCount(Bytes(p), p.size)
         /\ PartCount(Bytes(p), p.size) \in Nat
<1>1. PartCount(Bytes(p), p.size) \in Nat
  <2>1. Len(Bytes(p)) \in Nat /\ p.size \in Nat \ {0}
    BY PushBytes, PushTyped
  <2> DEFINE l == Len(Bytes(p))
             z == p.size
  <2>2. l \in Nat /\ z \in Nat /\ z > 0
    BY <2>1
  <2> HIDE DEF l, z
  <2>3. (l + z - 1) \div z \in Nat
    BY <2>2
  <2> QED
    BY <2>3 DEF PartCount, l, z
<1>2. PICK i \in 0..(PartCount(Bytes(p), p.size) - 1) : n = PartName(p, i)
  BY DEF PartFiles
<1> QED
  BY <1>1, <1>2 DEF PartName

LEMMA PartTyped ==
  ASSUME NEW p \in Pushes, NEW n \in DOMAIN PartFiles(p)
  PROVE  /\ PartFiles(p)[n] \in Seq(Byte)
         /\ \A k \in 1..Len(PartFiles(p)[n]) :
              \E j \in 1..Len(Bytes(p)) : PartFiles(p)[n][k] = Bytes(p)[j]
<1> DEFINE b == Bytes(p)
           i == n.index
           lo == i * p.size + 1
           hi == IF (i + 1) * p.size < Len(b) THEN (i + 1) * p.size ELSE Len(b)
<1>1. PartFiles(p)[n] = SubSeq(b, lo, hi)
  BY DEF PartFiles, PartOf
<1>2. b \in Seq(Byte) /\ Len(b) \in Nat /\ i \in Nat /\ p.size \in Nat
  BY PushBytes, NameFacts, PushTyped
<1>3. i * p.size \in Nat /\ (i + 1) * p.size \in Nat
  BY <1>2
<1>4. lo \in Int /\ hi \in Int /\ lo >= 1 /\ hi <= Len(b)
  BY <1>2, <1>3
<1>5. \A j \in 1..Len(b) : b[j] \in Byte
  BY <1>2, ElementOfSeq
<1> HIDE DEF b, i, lo, hi
<1>6. \A j \in lo..hi : b[j] \in Byte
  BY <1>2, <1>4, <1>5
<1>7. /\ SubSeq(b, lo, hi) \in Seq(Byte)
      /\ Len(SubSeq(b, lo, hi)) = IF lo <= hi THEN hi - lo + 1 ELSE 0
      /\ \A k \in 1..(hi - lo + 1) : SubSeq(b, lo, hi)[k] = b[lo + k - 1]
  BY <1>4, <1>6, SubSeqProperties
<1>8. \A k \in 1..Len(SubSeq(b, lo, hi)) : \E j \in 1..Len(b) : SubSeq(b, lo, hi)[k] = b[j]
  <2> TAKE k \in 1..Len(SubSeq(b, lo, hi))
  <2>1. k \in 1..(hi - lo + 1) /\ lo + k - 1 \in 1..Len(b)
    BY <1>2, <1>4, <1>7
  <2> QED
    BY <1>7, <2>1
<1> QED
  BY <1>1, <1>7, <1>8 DEF b

\* find_parts' answer: the parts of one push in the order of their indices, when
\* none is missing below another.
LEMMA InOrder ==
  ASSUME NEW p \in Pushes, NEW F \in SUBSET DOMAIN PartFiles(p),
         \A n \in F : \A i \in 0..n.index : \E m \in F : m.index = i
  PROVE  LET N == Cardinality(F)
             s == CHOOSE s \in [1..N -> F] :
                    \A j, k \in 1..N : j < k => s[j].index < s[k].index
         IN /\ N \in Nat
            /\ N = 0 => F = {}
            /\ s \in [1..N -> F]
            /\ \A j \in 1..N : s[j].index = j - 1
<1> DEFINE I == {n.index : n \in F}
           N == Cardinality(F)
           c == PartCount(Bytes(p), p.size)
<1>1. \A n \in F : /\ n = [label |-> p.label, index |-> n.index]
                   /\ n.index \in Nat /\ n.index < c /\ c \in Nat
  BY NameFacts
<1>2. I \in SUBSET Nat
  BY <1>1
<1>3. IsFiniteSet(I)
  <2>1. CASE F = {}
    BY <2>1, FS_EmptySet
  <2>2. CASE F # {}
    <3>1. c \in Nat /\ \A i \in I : i <= c
      BY <1>1, <2>2
    <3> QED
      BY <1>2, <3>1, FS_BoundedSetOfNaturals
  <2> QED
    BY <2>1, <2>2
<1>4. \A i \in I : 0..i \subseteq I
  OBVIOUS
<1> DEFINE g == [i \in I |-> [label |-> p.label, index |-> i]]
<1>5. g \in Bijection(I, F)
  <2>1. \A i \in I : g[i] \in F /\ g[i].index = i
    BY <1>1
  <2>2. g \in [I -> F]
    BY <2>1
  <2>3. \A n \in F : n.index \in I /\ g[n.index] = n
    BY <1>1
  <2>4. \A i, j \in I : g[i] = g[j] => i = j
    BY <2>1
  <2> HIDE DEF g, I
  <2> QED
    BY <2>2, <2>3, <2>4 DEF Bijection, Injection, IsInjective, Surjection
<1>6. IsFiniteSet(F) /\ Cardinality(F) = Cardinality(I)
  <2>1. ExistsBijection(I, F)
    BY <1>5 DEF ExistsBijection
  <2> QED
    BY <1>3, <2>1, FS_Bijection
<1>7. N \in Nat /\ I = 0..(N - 1)
  BY <1>2, <1>3, <1>4, <1>6, DownwardClosed
<1> DEFINE Sorted(s) == \A j, k \in 1..N : j < k => s[j].index < s[k].index
<1>8. \E s \in [1..N -> F] : Sorted(s)
  <2> DEFINE s == [j \in 1..N |-> [label |-> p.label, index |-> j - 1]]
  <2>1. \A j \in 1..N : j - 1 \in I
    BY <1>7
  <2>2. \A j \in 1..N : s[j] \in F /\ s[j].index = j - 1
    BY <1>1, <2>1
  <2>3. s \in [1..N -> F]
    BY <2>2
  <2>4. Sorted(s)
    BY <2>2, <1>7
  <2> HIDE DEF s
  <2> QED
    BY <2>3, <2>4
<1> DEFINE s == CHOOSE s \in [1..N -> F] : Sorted(s)
<1>9. s \in [1..N -> F] /\ Sorted(s)
  BY <1>8
<1> HIDE DEF s
<1>10. \A j \in 1..N : s[j].index \in Nat /\ s[j].index <= N - 1
  <2> TAKE j \in 1..N
  <2>1. s[j] \in F
    BY <1>9
  <2>2. s[j].index \in I
    BY <2>1
  <2> HIDE DEF I
  <2> QED
    BY <1>7, <2>2
<1>11. ASSUME NEW j \in 1..N
       PROVE  s[j].index = j - 1
  <2> DEFINE x == s[j].index
             below == [i \in 1..j |-> s[i].index]
             above == [i \in j..N |-> s[i].index]
  <2>1. x \in Nat /\ x <= N - 1 /\ j \in Int /\ j >= 1 /\ j <= N
    BY <1>7, <1>10
  <2>2. \A i \in 1..j : below[i] \in 0..x
    BY <1>7, <1>9, <1>10
  <2>3. \A i \in j..N : above[i] \in x..(N - 1)
    BY <1>7, <1>9, <1>10
  <2>4. below \in Injection(1..j, 0..x)
    <3>1. below \in [1..j -> 0..x]
      BY <2>2
    <3>2. \A i, k \in 1..j : below[i] = below[k] => i = k
      <4> TAKE i \in 1..j, k \in 1..j
      <4>1. i \in 1..N /\ k \in 1..N /\ (i < k \/ k < i \/ i = k)
        BY <1>7
      <4>2. i < k => s[i].index < s[k].index
        BY <1>9, <4>1
      <4>3. k < i => s[k].index < s[i].index
        BY <1>9, <4>1
      <4> QED
        BY <1>10, <4>1, <4>2, <4>3
    <3> HIDE DEF below
    <3> QED
      BY <3>1, <3>2 DEF Injection, IsInjective
  <2>5. above \in Injection(j..N, x..(N - 1))
    <3>1. above \in [j..N -> x..(N - 1)]
      BY <2>3
    <3>2. \A i, k \in j..N : above[i] = above[k] => i = k
      <4> TAKE i \in j..N, k \in j..N
      <4>1. i \in 1..N /\ k \in 1..N /\ (i < k \/ k < i \/ i = k)
        BY <1>7
      <4>2. i < k => s[i].index < s[k].index
        BY <1>9, <4>1
      <4>3. k < i => s[k].index < s[i].index
        BY <1>9, <4>1
      <4> QED
        BY <1>10, <4>1, <4>2, <4>3
    <3> HIDE DEF above
    <3> QED
      BY <3>1, <3>2 DEF Injection, IsInjective
  <2> HIDE DEF x, below, above
  <2>6. j <= x + 1
    <3>1. IsFiniteSet(0..x) /\ Cardinality(0..x) = x + 1
      BY <2>1, FS_Interval
    <3>2. Cardinality(1..j) = j
      BY <2>1, FS_Interval
    <3> QED
      BY <2>4, <3>1, <3>2, FS_Injection
  <2>7. N - j + 1 <= N - x
    <3>1. IsFiniteSet(x..(N - 1)) /\ Cardinality(x..(N - 1)) = N - x
      <4> HIDE DEF N
      <4>1. N - 1 \in Int /\ x \in Int
        BY <1>7, <2>1
      <4>2. IsFiniteSet(x..(N - 1)) /\
            Cardinality(x..(N - 1)) = IF x > N - 1 THEN 0 ELSE N - 1 - x + 1
        BY <4>1, FS_Interval
      <4> QED
        BY <1>7, <2>1, <4>2
    <3>2. Cardinality(j..N) = N - j + 1
      <4> HIDE DEF N
      <4>1. N \in Int
        BY <1>7
      <4> QED
        BY <2>1, <4>1, FS_Interval
    <3> QED
      BY <2>5, <3>1, <3>2, FS_Injection
  <2> HIDE DEF N
  <2>8. x = j - 1
    BY <1>7, <2>1, <2>6, <2>7
  <2> QED
    BY <2>8 DEF x
<1>12. N = 0 => F = {}
  BY <1>6, FS_EmptySet
<1> QED
  BY <1>7, <1>9, <1>11, <1>12, Zenon DEF s

-----------------------------------------------------------------------------
(* Types.                                                                  *)

Name == UNION {DOMAIN PartFiles(p) : p \in Pushes}

Files == \A n \in DOMAIN dir : n \in Name /\ dir[n] \in Seq(Byte)

\* The parts of one push in order; those still to be read are there.
Listed ==
  /\ parts \in Seq(Name)
  /\ \A k \in 1..Len(parts) : parts[k].index = k - 1 /\ parts[k].label = parts[1].label
  /\ at \in 1..(Len(parts) + 1)
  /\ offset \in Nat
  /\ ~AtRest => \A k \in at..Len(parts) : parts[k] \in DOMAIN dir

Texts ==
  /\ dec \in Decryptor(Byte)
  /\ blob \in Seq(Letter) /\ pend \in Seq(Letter)
  /\ pipe \in Seq(Letter) /\ Len(pipe) <= PipeSize
  /\ taken \in Seq(Letter) /\ Len(taken) <= goal
  /\ goal \in Nat

\* Where the two threads can be.
Modes ==
  /\ opt \in Options
  /\ pc \in {"idle", "plain", "finalize", "extract", "leave", "join", "done", "failed"}
  /\ feeder \in {"off", "feeding", "closing", "raising", "ended", "failed"}
  /\ pc \in {"plain", "finalize"} => ~opt.extract
  /\ pc \in {"extract", "leave", "join"} => opt.extract
  /\ feeder \in {"feeding", "closing", "raising"} => pc \in {"extract", "leave", "join"}
  /\ feeder = "ended" => Len(pend) = 0

Flags == placed \in BOOLEAN /\ bailed \in BOOLEAN /\ met \in [Mishaps -> Nat]

Types == Files /\ Listed /\ Texts /\ Modes /\ Flags

LEMMA NamesOfOne ==
  ASSUME NEW n \in Name, NEW p \in Pushes, n.label = p.label
  PROVE  n \in DOMAIN PartFiles(p)
<1>1. PICK q \in Pushes : n \in DOMAIN PartFiles(q)
  BY DEF Name
<1>2. q.label = p.label
  BY <1>1, NameFacts
<1>3. q = p
  BY <1>2, PullAssumption
<1> QED
  BY <1>1, <1>3

\* Every part that is found belongs to one push.
LEMMA FoundOfOne ==
  ASSUME Files, NEW o \in Options, Joinable(Found(o))
  PROVE  \E p \in Pushes : Found(o) \in SUBSET DOMAIN PartFiles(p)
<1>1. \A n \in Found(o) : n \in Name
  BY DEF Files, Found
<1>2. PICK n \in Found(o) : TRUE
  BY DEF Joinable
<1>3. PICK p \in Pushes : n \in DOMAIN PartFiles(p)
  BY <1>1, <1>2 DEF Name
<1>4. \A m \in Found(o) : m.label = p.label
  BY <1>2, <1>3, NameFacts DEF Joinable
<1>5. \A m \in Found(o) : m \in DOMAIN PartFiles(p)
  BY <1>1, <1>4, NamesOfOne
<1> QED
  BY <1>5

\* What find_parts hands to iter_plaintext.
LEMMA BeginFacts ==
  ASSUME Files, Begin
  PROVE  /\ opt' \in Options /\ Joinable(Found(opt')) /\ Matches(Found(opt'))
         /\ parts' \in Seq(Name) /\ Len(parts') \in Nat \ {0}
         /\ \A k \in 1..Len(parts') :
              /\ parts'[k] \in Found(opt') /\ parts'[k].index = k - 1
              /\ parts'[k].label = parts'[1].label
<1>1. PICK o \in Options :
        /\ Joinable(Found(o)) /\ Matches(Found(o)) /\ opt' = o
        /\ parts' = CHOOSE s \in [1..Cardinality(Found(o)) -> Found(o)] :
                      \A j, k \in 1..Cardinality(Found(o)) :
                        j < k => s[j].index < s[k].index
  BY Zenon DEF Begin
<1> DEFINE F == Found(o)
           N == Cardinality(F)
<1>2. PICK p \in Pushes : F \in SUBSET DOMAIN PartFiles(p)
  BY <1>1, FoundOfOne
<1>3. \A n \in F : \A i \in 0..n.index : \E m \in F : m.index = i
  BY <1>1 DEF Joinable
<1>4. N \in Nat /\ (N = 0 => F = {}) /\ parts' \in [1..N -> F] /\ \A j \in 1..N : parts'[j].index = j - 1
  <2> HIDE DEF F
  <2> DEFINE s == CHOOSE s \in [1..Cardinality(F) -> F] :
                    \A j, k \in 1..Cardinality(F) : j < k => s[j].index < s[k].index
  <2>1. /\ Cardinality(F) \in Nat /\ (Cardinality(F) = 0 => F = {}) /\ s \in [1..Cardinality(F) -> F]
        /\ \A j \in 1..Cardinality(F) : s[j].index = j - 1
    BY <1>2, <1>3, InOrder
  <2>2. parts' = s
    BY <1>1, Zenon DEF F
  <2> QED
    BY <2>1, <2>2, Zenon
<1>5. F # {} /\ \A m, n \in F : m.label = n.label
  BY <1>1 DEF Joinable
<1>6. \A n \in F : n \in Name
  BY DEF Files, Found
<1> HIDE DEF F
<1>7. N # 0
  BY <1>4, <1>5
<1> HIDE DEF N
<1>8. parts' \in [1..N -> Name]
  BY <1>4, <1>6
<1>9. parts' \in Seq(Name) /\ Len(parts') = N
  BY <1>4, <1>8, FunctionAsSequence
<1>10. \A k \in 1..N : parts'[k] \in F /\ parts'[1] \in F
  BY <1>4
<1> QED
  BY <1>1, <1>4, <1>5, <1>7, <1>9, <1>10 DEF F

LEMMA FilesStep ==
  ASSUME Files, [Next]_vars
  PROVE  Files'
<1>1. CASE FinishPart
  <2>1. \A n \in DOMAIN dir' : n \in DOMAIN dir /\ dir'[n] = dir[n]
    BY <1>1 DEF FinishPart, Without
  <2> QED
    BY <2>1 DEF Files
<1>2. CASE Download
  <2>0. PICK p \in Pushes :
          \E n \in DOMAIN PartFiles(p) :
            dir' = [m \in DOMAIN dir \cup {n} |-> IF m = n THEN PartFiles(p)[n] ELSE dir[m]]
    BY <1>2 DEF Download
  <2>1. PICK n \in DOMAIN PartFiles(p) :
          dir' = [m \in DOMAIN dir \cup {n} |-> IF m = n THEN PartFiles(p)[n] ELSE dir[m]]
    BY <2>0
  <2>2. PartFiles(p)[n] \in Seq(Byte) /\ n \in Name
    BY PartTyped DEF Name
  <2>3. /\ DOMAIN dir' = DOMAIN dir \cup {n}
        /\ \A m \in DOMAIN dir' : dir'[m] = IF m = n THEN PartFiles(p)[n] ELSE dir[m]
    BY <2>1
  <2> QED
    BY <2>2, <2>3 DEF Files
<1>3. CASE ~(FinishPart \/ Download)
  <2>1. dir' = dir
    BY <1>3 DEF Next, Main, Feeder, Environment, Iterate, FeedBlock, FinishReading,
       MoveOutput, Take, Look, CloseReader, Join, Pour, BrokenPipe, CloseWriter,
       Refuse, Begin, WriteFails, MoveFails, ExtractFails, Crash, vars
  <2> QED
    BY <2>1 DEF Files
<1> QED
  BY <1>1, <1>2, <1>3

LEMMA ModesStep ==
  ASSUME Modes, Texts, [Next]_vars
  PROVE  Modes'
<1> USE DEF Modes
<1>1. CASE Refuse
  BY <1>1 DEF Refuse, AtRest, extracting
<1>2. CASE Begin
  <2>1. pend' = << >> /\ opt' \in Options
    BY <1>2 DEF Begin
  <2>2. Len(pend') = 0
    BY <2>1, EmptySeq, Zenon
  <2> QED
    BY <1>2, <2>1, <2>2 DEF Begin
<1>3. CASE FeedBlock
  <2>1. feeder # "ended" \/ pend' = pend
    BY <1>3 DEF FeedBlock, Iterating
  <2> QED
    BY <1>3, <2>1 DEF FeedBlock
<1>4. CASE FinishPart
  BY <1>4 DEF FinishPart, extracting
<1>5. CASE FinishReading
  BY <1>5 DEF FinishReading, Iterating
<1>6. CASE WriteFails \/ MoveFails
  BY <1>6 DEF WriteFails, MoveFails, extracting
<1>7. CASE MoveOutput
  BY <1>7 DEF MoveOutput, extracting
<1>8. CASE Pour
  BY <1>8 DEF Pour, Writing
<1>9. CASE BrokenPipe
  BY <1>9 DEF BrokenPipe, Writing
<1>10. CASE CloseWriter
  <2>1. Len(pend) = 0
    BY <1>10, EmptySeq, Zenon DEF CloseWriter
  <2> QED
    BY <1>10, <2>1 DEF CloseWriter
<1>11. CASE Take \/ ExtractFails \/ CloseReader
  BY <1>11 DEF Take, ExtractFails, CloseReader
<1>12. CASE Look
  BY <1>12 DEF Look
<1>13. CASE Join
  BY <1>13 DEF Join, extracting
<1>14. CASE Crash
  BY <1>14 DEF Crash
<1>15. CASE Download
  BY <1>15 DEF Download, extracting
<1>16. CASE UNCHANGED vars
  BY <1>16 DEF vars
<1> QED
  BY <1>1, <1>2, <1>3, <1>4, <1>5, <1>6, <1>7, <1>8, <1>9, <1>10, <1>11, <1>12, <1>13,
     <1>14, <1>15, <1>16 DEF Next, Main, Feeder, Environment, Iterate

LEMMA ListedStep ==
  ASSUME Files, Listed, Modes, [Next]_vars
  PROVE  Listed'
<1>0. /\ Len(parts) \in Nat
      /\ \A k \in 1..Len(parts) : parts[k] \in Name /\ parts[k].index = k - 1
  BY LenProperties, ElementOfSeq DEF Listed
<1>1. CASE Refuse
  <2>1. parts' = << >> /\ at' = 1 /\ offset' = 0 /\ pc' = "failed"
    BY <1>1 DEF Refuse
  <2>2. parts' \in Seq(Name) /\ Len(parts') = 0
    BY <2>1, EmptySeq, Zenon
  <2> QED
    BY <2>1, <2>2 DEF Listed, AtRest
<1>2. CASE Begin
  <2>1. /\ parts' \in Seq(Name) /\ Len(parts') \in Nat \ {0}
        /\ \A k \in 1..Len(parts') :
             /\ parts'[k] \in Found(opt') /\ parts'[k].index = k - 1
             /\ parts'[k].label = parts'[1].label
    BY <1>2, BeginFacts
  <2>2. at' = 1 /\ offset' = 0 /\ dir' = dir
    BY <1>2 DEF Begin
  <2>3. \A k \in 1..Len(parts') : parts'[k] \in DOMAIN dir'
    BY <2>1, <2>2 DEF Found
  <2> QED
    BY <2>1, <2>2, <2>3 DEF Listed
<1>3. CASE FeedBlock
  <2>1. UNCHANGED <<parts, at, dir, pc>> /\ offset' = Shorter(offset + BlockSize, Len(PartBytes))
    BY <1>3 DEF FeedBlock
  <2>2. offset' \in Nat
    <3>1. at \in 1..Len(parts) /\ ~AtRest
      BY <1>0, <1>3 DEF FeedBlock, Iterating, Listed, Modes, AtRest
    <3>2. PartBytes \in Seq(Byte)
      BY <3>1 DEF Listed, Files, PartBytes
    <3>3. Len(PartBytes) \in Nat /\ offset \in Nat /\ BlockSize \in Nat
      BY <3>2, LenProperties, PullAssumption DEF Listed
    <3> QED
      BY <2>1, <3>3 DEF Shorter
  <2> QED
    BY <2>1, <2>2 DEF Listed, AtRest
<1>4. CASE FinishPart
  <2>1. /\ at \in 1..Len(parts) /\ at' = at + 1 /\ offset' = 0
        /\ UNCHANGED <<parts, pc>>
        /\ dir' = dir \/ dir' = Without(parts[at])
    BY <1>0, <1>4 DEF FinishPart, Listed
  <2>2. ~AtRest' => \A k \in (at + 1)..Len(parts) : parts[k] \in DOMAIN dir'
    <3> SUFFICES ASSUME ~AtRest', NEW k \in (at + 1)..Len(parts) PROVE parts[k] \in DOMAIN dir'
      OBVIOUS
    <3>1. parts[k] \in DOMAIN dir
      BY <1>0, <2>1 DEF Listed, AtRest
    <3>2. parts[k] # parts[at]
      BY <1>0, <2>1
    <3> QED
      BY <2>1, <3>1, <3>2 DEF Without
  <2>3. at + 1 \in 1..(Len(parts) + 1)
    BY <1>0, <2>1
  <2> QED
    BY <2>1, <2>2, <2>3 DEF Listed
<1>5. CASE Download
  <2>1. PICK n : DOMAIN dir' = DOMAIN dir \cup {n}
    BY <1>5 DEF Download
  <2>2. UNCHANGED <<parts, at, offset, pc>>
    BY <1>5 DEF Download, reading
  <2> QED
    BY <2>1, <2>2 DEF Listed, AtRest
<1>6. CASE ~(Refuse \/ Begin \/ FeedBlock \/ FinishPart \/ Download)
  <2>1. UNCHANGED <<parts, at, offset, dir>> /\ (AtRest => AtRest')
    BY <1>6 DEF Next, Main, Feeder, Environment, Iterate, FinishReading, Iterating, Modes,
       MoveOutput, Take, Look, CloseReader, Join, Pour, BrokenPipe, CloseWriter,
       WriteFails, MoveFails, ExtractFails, Crash, vars, reading, AtRest
  <2> QED
    BY <2>1 DEF Listed
<1> QED
  BY <1>1, <1>2, <1>3, <1>4, <1>5, <1>6

\* The block that is read is made of the part's bytes.
LEMMA BlockTyped ==
  ASSUME NEW S, NEW b \in Seq(S), NEW o \in Nat
  PROVE  SubSeq(b, o + 1, Shorter(o + BlockSize, Len(b))) \in Seq(S)
<1>1. Len(b) \in Nat /\ \A j \in 1..Len(b) : b[j] \in S
  BY LenProperties, ElementOfSeq
<1>2. BlockSize \in Nat
  BY PullAssumption
<1> DEFINE e == Shorter(o + BlockSize, Len(b))
<1>3. e \in Int /\ e <= Len(b)
  <2>1. o + BlockSize \in Int /\ Len(b) \in Int
    BY <1>1, <1>2
  <2> QED
    BY <2>1, ShorterFacts, Zenon
<1> HIDE DEF e
<1>4. o + 1 \in Int /\ \A j \in (o + 1)..e : b[j] \in S
  BY <1>1, <1>3
<1>5. SubSeq(b, o + 1, e) \in Seq(S)
  BY <1>3, <1>4, SubSeqProperties
<1> QED
  BY <1>5 DEF e

\* One turn of iter_plaintext: a block goes in, and what it releases comes out.
LEMMA FeedFacts ==
  ASSUME Types, FeedBlock
  PROVE  LET b == dir[parts[at]]
             block == SubSeq(b, offset + 1, Shorter(offset + BlockSize, Len(b)))
             out == Released(dec, block, opt.right)
         IN /\ at \in 1..Len(parts) /\ ~AtRest /\ parts[at] \in DOMAIN dir
            /\ block \in Seq(Byte)
            /\ dec' = Update(dec, block) /\ dec' \in Decryptor(Byte)
            /\ out \in Seq(Letter)
            /\ Plain(dec', opt.right) = Plain(dec, opt.right) \o out
            /\ IF opt.extract
                 THEN pend' = pend \o out /\ UNCHANGED blob
                 ELSE blob' = blob \o out /\ UNCHANGED pend
<1> DEFINE b == dir[parts[at]]
           block == SubSeq(b, offset + 1, Shorter(offset + BlockSize, Len(b)))
           out == Released(dec, block, opt.right)
<1>1. Len(parts) \in Nat
  BY LenProperties DEF Types, Listed
<1>2. at \in 1..Len(parts) /\ ~AtRest
  BY <1>1 DEF FeedBlock, Iterating, Types, Listed, Modes, AtRest
<1>3. parts[at] \in DOMAIN dir
  BY <1>1, <1>2 DEF Types, Listed
<1>4. b \in Seq(Byte) /\ offset \in Nat
  BY <1>3 DEF Types, Listed, Files
<1>5. block \in Seq(Byte)
  BY <1>4, BlockTyped
<1>6. /\ dec' = Update(dec, block)
      /\ IF opt.extract
           THEN pend' = pend \o out /\ UNCHANGED blob
           ELSE blob' = blob \o out /\ UNCHANGED pend
  BY Zenon DEF FeedBlock, PartBytes
<1>7. dec \in Decryptor(Byte) /\ opt.right \in BOOLEAN
  BY DEF Types, Texts, Modes, Options
<1> HIDE DEF block
<1>8. /\ Update(dec, block) \in Decryptor(Byte)
      /\ out \in Seq(Letter)
      /\ Plain(Update(dec, block), opt.right) = Plain(dec, opt.right) \o out
  BY <1>5, <1>7, UpdateFacts, ReleasedFacts
<1> HIDE DEF out
<1> QED
  BY <1>2, <1>3, <1>5, <1>6, <1>8, Zenon DEF out, block

LEMMA TextsStep ==
  ASSUME Types, [Next]_vars
  PROVE  Texts'
<1>0. /\ dec \in Decryptor(Byte)
      /\ blob \in Seq(Letter) /\ pend \in Seq(Letter)
      /\ pipe \in Seq(Letter) /\ Len(pipe) <= PipeSize
      /\ taken \in Seq(Letter) /\ Len(taken) <= goal /\ goal \in Nat
  BY DEF Types, Texts
<1>1. /\ Len(pend) \in Nat /\ Len(pipe) \in Nat /\ Len(taken) \in Nat
      /\ PipeSize \in Nat /\ Record \in Nat
  BY <1>0, LenProperties, PullAssumption
<1>2. PICK e \in Seq(Letter) : e = << >> /\ Len(e) = 0
  BY EmptySeq, Zenon
<1>3. CASE Refuse
  <2>1. dec' = NewDecryptor /\ UNCHANGED <<blob, pend, pipe, taken, goal>>
    BY <1>3 DEF Refuse, extracting
  <2> QED
    BY <1>0, <2>1, NewTyped DEF Texts
<1>4. CASE Begin
  <2>1. /\ dec' = NewDecryptor /\ goal' = 1
        /\ blob' = << >> /\ pend' = << >> /\ pipe' = << >> /\ taken' = << >>
    BY <1>4 DEF Begin
  <2>2. blob' = e /\ pend' = e /\ pipe' = e /\ taken' = e
    BY <1>2, <2>1, Zenon
  <2>3. dec' \in Decryptor(Byte)
    BY <2>1, NewTyped
  <2>4. goal' = 1
    BY <2>1
  <2> QED
    BY <1>1, <1>2, <2>2, <2>3, <2>4 DEF Texts
<1>5. CASE FeedBlock
  <2> DEFINE b == dir[parts[at]]
             out == Released(dec, SubSeq(b, offset + 1, Shorter(offset + BlockSize, Len(b))),
                             opt.right)
  <2>1. /\ dec' \in Decryptor(Byte) /\ out \in Seq(Letter)
        /\ IF opt.extract
             THEN pend' = pend \o out /\ UNCHANGED blob
             ELSE blob' = blob \o out /\ UNCHANGED pend
    BY <1>5, FeedFacts, Zenon
  <2> HIDE DEF out
  <2>2. pend \o out \in Seq(Letter) /\ blob \o out \in Seq(Letter)
    BY <1>0, <2>1, ConcatProperties
  <2>3. UNCHANGED <<pipe, taken, goal>>
    BY <1>5 DEF FeedBlock
  <2>4. pend' \in Seq(Letter) /\ blob' \in Seq(Letter)
    BY <1>0, <2>1, <2>2, Zenon
  <2> QED
    BY <1>0, <2>1, <2>3, <2>4 DEF Texts
<1>6. CASE Pour
  <2> DEFINE n == Shorter(Len(pend), PipeSize - Len(pipe))
             front == SubSeq(pend, 1, n)
  <2>1. /\ pipe' = pipe \o front /\ pend' = SubSeq(pend, n + 1, Len(pend))
        /\ UNCHANGED <<dec, blob, taken, goal>> /\ Len(pipe) < PipeSize
    BY <1>6 DEF Pour, reading
  <2>2. n \in 0..Len(pend) /\ n <= PipeSize - Len(pipe)
    BY <1>1, <2>1 DEF Shorter
  <2> HIDE DEF n
  <2>3. front \in Seq(Letter) /\ Len(front) = n /\ pend' \in Seq(Letter)
    BY <1>0, <2>1, <2>2, TakenApart
  <2> HIDE DEF front
  <2>4. pipe \o front \in Seq(Letter) /\ Len(pipe \o front) = Len(pipe) + n
    BY <1>0, <2>3, ConcatProperties
  <2>5. Len(pipe') <= PipeSize /\ pipe' \in Seq(Letter)
    BY <1>1, <2>1, <2>2, <2>4
  <2> QED
    BY <1>0, <2>1, <2>3, <2>5 DEF Texts
<1>7. CASE BrokenPipe
  <2>1. pend' = << >> /\ UNCHANGED <<dec, blob, pipe, taken, goal>>
    BY <1>7 DEF BrokenPipe, reading
  <2>2. pend' = e
    BY <1>2, <2>1, Zenon
  <2>3. UNCHANGED <<dec, blob, pipe, taken, goal>>
    BY <2>1
  <2> QED
    BY <1>0, <1>2, <2>2, <2>3 DEF Texts
<1>8. CASE Take
  <2> DEFINE n == Shorter(Len(pipe), goal - Len(taken))
             front == SubSeq(pipe, 1, n)
  <2>1. /\ taken' = taken \o front /\ pipe' = SubSeq(pipe, n + 1, Len(pipe))
        /\ UNCHANGED <<dec, blob, pend, goal>> /\ Len(taken) < goal
    BY <1>8 DEF Take, reading
  <2>2. n \in 0..Len(pipe) /\ n <= goal - Len(taken)
    BY <1>0, <1>1, <2>1 DEF Shorter
  <2> HIDE DEF n
  <2>3. /\ front \in Seq(Letter) /\ Len(front) = n
        /\ pipe' \in Seq(Letter) /\ Len(pipe') = Len(pipe) - n
    BY <1>0, <2>1, <2>2, TakenApart
  <2> HIDE DEF front
  <2>4. taken \o front \in Seq(Letter) /\ Len(taken \o front) = Len(taken) + n
    BY <1>0, <2>3, ConcatProperties
  <2>5. Len(taken') <= goal /\ taken' \in Seq(Letter) /\ Len(pipe') <= PipeSize
    BY <1>0, <1>1, <2>1, <2>2, <2>3, <2>4
  <2> QED
    BY <1>0, <2>1, <2>3, <2>5 DEF Texts
<1>9. CASE Look
  <2>1. UNCHANGED <<dec, blob, pend, pipe, taken>> /\ goal' \in {goal, goal + Record}
    BY <1>9 DEF Look, reading
  <2>2. goal' \in Nat /\ Len(taken') <= goal'
    BY <1>0, <1>1, <2>1
  <2> QED
    BY <1>0, <2>1, <2>2 DEF Texts
<1>10. CASE CloseReader
  <2>1. pipe' = << >> /\ UNCHANGED <<dec, blob, pend, taken, goal>>
    BY <1>10 DEF CloseReader, reading
  <2>2. pipe' = e
    BY <1>2, <2>1, Zenon
  <2>3. UNCHANGED <<dec, blob, pend, taken, goal>>
    BY <2>1
  <2> QED
    BY <1>0, <1>1, <1>2, <2>2, <2>3 DEF Texts
<1>11. CASE ~(Refuse \/ Begin \/ FeedBlock \/ Pour \/ BrokenPipe \/ Take \/ Look \/ CloseReader)
  <2>1. UNCHANGED <<dec, blob, pend, pipe, taken, goal>>
    BY <1>11 DEF Next, Main, Feeder, Environment, Iterate, FinishPart, FinishReading,
       MoveOutput, Join, CloseWriter, WriteFails, MoveFails, ExtractFails, Crash, Download,
       vars, reading, extracting
  <2> QED
    BY <1>0, <2>1 DEF Texts
<1> QED
  BY <1>3, <1>4, <1>5, <1>6, <1>7, <1>8, <1>9, <1>10, <1>11

LEMMA FlagsStep ==
  ASSUME Types, [Next]_vars
  PROVE  Flags'
<1>1. \A kind \in Mishaps : Meet(kind) => met' \in [Mishaps -> Nat]
  BY DEF Meet, Types, Flags
<1>2. met' \in [Mishaps -> Nat]
  <2>1. CASE WriteFails \/ MoveFails \/ ExtractFails \/ Crash \/ Download
    BY <1>1, <2>1 DEF WriteFails, MoveFails, ExtractFails, Crash, Download, Mishaps
  <2>2. CASE ~(WriteFails \/ MoveFails \/ ExtractFails \/ Crash \/ Download)
    <3>1. met' = met
      BY <2>2 DEF Next, Main, Feeder, Environment, Iterate, FeedBlock, FinishPart,
         FinishReading, MoveOutput, Take, Look, CloseReader, Join, Pour, BrokenPipe,
         CloseWriter, Refuse, Begin, vars
    <3> QED
      BY <3>1 DEF Types, Flags
  <2> QED
    BY <2>1, <2>2
<1>3. placed' \in BOOLEAN /\ bailed' \in BOOLEAN
  <2>1. placed \in BOOLEAN /\ bailed \in BOOLEAN
    BY DEF Types, Flags
  <2> QED
    BY <2>1 DEF Next, Main, Feeder, Environment, Iterate, FeedBlock, FinishPart,
       FinishReading, MoveOutput, Take, Look, CloseReader, Join, Pour, BrokenPipe,
       CloseWriter, Refuse, Begin, WriteFails, MoveFails, ExtractFails, Crash, Download,
       vars, extracting
<1> QED
  BY <1>2, <1>3 DEF Flags

LEMMA TypesStep ==
  ASSUME Types, [Next]_vars
  PROVE  Types'
BY FilesStep, ListedStep, TextsStep, ModesStep, FlagsStep DEF Types

LEMMA TypesInit == Init => Types
<1> SUFFICES ASSUME Init PROVE Types
  OBVIOUS
<1>1. Files
  BY DownloadAssumption DEF Init, Files, Name
<1>2. Listed
  <2>1. parts = << >> /\ at = 1 /\ offset = 0 /\ pc = "idle"
    BY DEF Init
  <2>2. parts \in Seq(Name) /\ Len(parts) = 0
    BY <2>1, EmptySeq, Zenon
  <2> QED
    BY <2>1, <2>2 DEF Listed, AtRest
<1>3. Texts
  <2>1. /\ dec = NewDecryptor /\ goal = 1
        /\ blob = << >> /\ pend = << >> /\ pipe = << >> /\ taken = << >>
    BY DEF Init
  <2>2. PICK e \in Seq(Letter) : e = << >> /\ Len(e) = 0
    BY EmptySeq, Zenon
  <2>3. blob = e /\ pend = e /\ pipe = e /\ taken = e
    BY <2>1, <2>2, Zenon
  <2>4. dec \in Decryptor(Byte) /\ goal = 1 /\ PipeSize \in Nat
    BY <2>1, NewTyped, PullAssumption
  <2> QED
    BY <2>2, <2>3, <2>4 DEF Texts
<1>4. Modes
  BY DEF Init, Modes, Options
<1>5. Flags
  BY DEF Init, Flags
<1> QED
  BY <1>1, <1>2, <1>3, <1>4, <1>5 DEF Types

\* The variables of a pull keep their types: what it reads are the parts of one
\* push in the order of their indices, and neither pipe nor tarfile's read is
\* filled beyond its size.
THEOREM PullTypes == Spec => []TypeOK
<1>1. Types => TypeOK
  <2> SUFFICES ASSUME Types PROVE TypeOK
    OBVIOUS
  <2>1. DOMAIN parts = 1..Len(parts)
    BY LenProperties DEF Types, Listed
  <2>2. DOMAIN dir \subseteq UNION {DOMAIN PartFiles(p) : p \in Pushes}
    BY DEF Types, Files, Name
  <2> QED
    BY <2>1, <2>2 DEF Types, Listed, Texts, Modes, Flags, TypeOK
<1> QED
  BY <1>1, TypesInit, TypesStep, PTL DEF Spec

-----------------------------------------------------------------------------
(* No placeholder is left.                                                 *)

Tidy == pc \in {"done", "failed"} /\ parts # << >> /\ ~opt.extract => ~placed

\* A run to a file that ends, well or with an error, leaves no .innout-incoming
\* in the output directory, whatever runs and crashes there were before it.
THEOREM CleansUp == Spec => []NoPlaceholderLeft
<1>1. Init => Types /\ Tidy
  BY TypesInit DEF Init, Tidy
<1>2. Types /\ Tidy /\ [Next]_vars => (Types /\ Tidy)'
  <2> SUFFICES ASSUME Types, Tidy, [Next]_vars PROVE Tidy'
    BY TypesStep
  <2>1. Modes
    BY DEF Types
  <2>2. parts' = parts \/ Refuse \/ Begin
    BY DEF Next, Main, Feeder, Environment, Iterate, FeedBlock, FinishPart,
       FinishReading, MoveOutput, Take, Look, CloseReader, Join, Pour, BrokenPipe,
       CloseWriter, WriteFails, MoveFails, ExtractFails, Crash, Download, vars, reading
  <2>3. CASE Refuse \/ Begin
    BY <2>3 DEF Refuse, Begin, Tidy
  <2>4. CASE ~(Refuse \/ Begin)
    BY <2>1, <2>2, <2>4 DEF Tidy, Modes, Next, Main, Feeder, Environment, Iterate, FeedBlock,
       FinishPart, Iterating,
       FinishReading, MoveOutput, Take, Look, CloseReader, Join, Pour, BrokenPipe,
       CloseWriter, WriteFails, MoveFails, ExtractFails, Crash, Download, vars, extracting
  <2> QED
    BY <2>3, <2>4
<1>3. Tidy => NoPlaceholderLeft
  BY DEF Tidy, NoPlaceholderLeft
<1> QED
  BY <1>1, <1>2, <1>3, PTL DEF Spec

-----------------------------------------------------------------------------
(* From the decryptor to the output.                                       *)

Flow ==
  /\ pc = "plain" => blob = Plain(dec, opt.right)
  /\ pc = "extract" /\ feeder # "failed" =>
       (taken \o pipe) \o pend = Plain(dec, opt.right)

LEMMA PlainOfNew ==
  ASSUME NEW right \in BOOLEAN
  PROVE  Plain(NewDecryptor, right) = << >>
<1>1. NewDecryptor \in Decryptor(Byte) /\ Len(NewDecryptor.passed) = 0
  BY NewTyped
<1>2. Plain(NewDecryptor, right) \in Seq(Letter) /\ Len(Plain(NewDecryptor, right)) = 0
  BY <1>1, PlainFacts
<1> QED
  BY <1>2, EmptySeq

LEMMA FlowStep ==
  ASSUME Types, Flow, [Next]_vars
  PROVE  Flow'
<1>0. /\ dec \in Decryptor(Byte) /\ opt.right \in BOOLEAN /\ opt \in Options
      /\ blob \in Seq(Letter) /\ pend \in Seq(Letter)
      /\ pipe \in Seq(Letter) /\ taken \in Seq(Letter) /\ Modes
  BY DEF Types, Texts, Modes, Options
<1>1. CASE Begin
  <2>1. /\ dec' = NewDecryptor /\ blob' = << >>
        /\ taken' = << >> /\ pipe' = << >> /\ pend' = << >>
    BY <1>1 DEF Begin
  <2>2. opt'.right \in BOOLEAN
    BY <1>1 DEF Begin, Options
  <2>3. Plain(dec', opt'.right) = << >>
    BY <2>1, <2>2, PlainOfNew
  <2>4. << >> \in Seq(Letter)
    BY EmptySeq
  <2>5. << >> \o << >> = << >>
    BY <2>4, ConcatEmptySeq, Zenon
  <2>6. (taken' \o pipe') \o pend' = << >>
    BY <2>1, <2>5, Zenon
  <2> QED
    BY <2>1, <2>3, <2>6, Zenon DEF Flow
<1>2. CASE Refuse
  BY <1>2 DEF Refuse, Flow
<1>3. CASE FeedBlock
  <2> DEFINE b == dir[parts[at]]
             out == Released(dec, SubSeq(b, offset + 1, Shorter(offset + BlockSize, Len(b))),
                             opt.right)
  <2>1. /\ out \in Seq(Letter)
        /\ Plain(dec', opt.right) = Plain(dec, opt.right) \o out
        /\ IF opt.extract
             THEN pend' = pend \o out /\ UNCHANGED blob
             ELSE blob' = blob \o out /\ UNCHANGED pend
    BY <1>3, FeedFacts, Zenon
  <2> HIDE DEF out
  <2>2. UNCHANGED <<opt, pc, feeder, pipe, taken>>
    BY <1>3 DEF FeedBlock
  <2>3. taken \o pipe \in Seq(Letter)
    BY <1>0, ConcatProperties
  <2>4. (taken \o pipe) \o (pend \o out) = ((taken \o pipe) \o pend) \o out
    <3>1. pend \in Seq(Letter) /\ out \in Seq(Letter)
      BY <1>0, <2>1
    <3> QED
      BY <2>3, <3>1, Regrouped, Zenon
  <2>5. pc' = "plain" => blob' = Plain(dec', opt'.right)
    BY <1>0, <2>1, <2>2, Zenon DEF Flow, Modes
  <2>6. pc' = "extract" /\ feeder' # "failed" =>
          (taken' \o pipe') \o pend' = Plain(dec', opt'.right)
    BY <1>0, <2>1, <2>2, <2>4, Zenon DEF Flow, Modes
  <2> QED
    BY <2>5, <2>6 DEF Flow
<1>4. CASE Pour
  <2> DEFINE n == Shorter(Len(pend), PipeSize - Len(pipe))
             front == SubSeq(pend, 1, n)
             rest == SubSeq(pend, n + 1, Len(pend))
  <2>1. /\ pipe' = pipe \o front /\ pend' = rest /\ Len(pipe) < PipeSize
        /\ UNCHANGED <<dec, blob, taken, pc, opt, feeder>>
    BY <1>4 DEF Pour, reading
  <2>2. n \in 0..Len(pend)
    BY <1>0, <2>1, LenProperties, PullAssumption DEF Shorter
  <2> HIDE DEF n
  <2>3. front \in Seq(Letter)
    BY <1>0, <2>2, TakenApart
  <2>4. taken \o pipe \in Seq(Letter)
    BY <1>0, ConcatProperties
  <2>5. ((taken \o pipe) \o front) \o rest = (taken \o pipe) \o pend
    BY <1>0, <2>2, <2>4, PutBack
  <2> HIDE DEF front, rest
  <2>6. taken \o (pipe \o front) = (taken \o pipe) \o front
    BY <1>0, <2>3, Regrouped, Zenon
  <2> QED
    BY <2>1, <2>5, <2>6, Zenon DEF Flow
<1>5. CASE Take
  <2> DEFINE n == Shorter(Len(pipe), goal - Len(taken))
             front == SubSeq(pipe, 1, n)
             rest == SubSeq(pipe, n + 1, Len(pipe))
  <2>1. /\ taken' = taken \o front /\ pipe' = rest /\ Len(taken) < goal
        /\ UNCHANGED <<dec, blob, pend, pc, opt, feeder>>
    BY <1>5 DEF Take, reading
  <2>2. n \in 0..Len(pipe)
    <3>1. Len(pipe) \in Nat /\ Len(taken) \in Nat /\ goal \in Nat
      BY <1>0, LenProperties DEF Types, Texts
    <3> QED
      BY <2>1, <3>1 DEF Shorter
  <2> HIDE DEF n
  <2>3. (taken \o front) \o rest = taken \o pipe
    BY <1>0, <2>2, PutBack
  <2> HIDE DEF front, rest
  <2> QED
    BY <2>1, <2>3, Zenon DEF Flow
<1>6. CASE ~(Begin \/ Refuse \/ FeedBlock \/ Pour \/ Take)
  <2>1. /\ dec' = dec /\ opt' = opt
        /\ pc' = "plain" => pc = "plain" /\ blob' = blob
        /\ pc' = "extract" /\ feeder' # "failed" =>
             /\ pc = "extract" /\ feeder # "failed"
             /\ UNCHANGED <<taken, pipe, pend>>
    BY <1>0, <1>6 DEF Modes, Next, Main, Feeder, Environment, Iterate, FinishPart, Iterating,
       FinishReading, MoveOutput, Look, CloseReader, Join, BrokenPipe, CloseWriter,
       Writing, ReaderOpen,
       WriteFails, MoveFails, ExtractFails, Crash, Download, vars, reading, extracting
  <2> QED
    BY <2>1, Zenon DEF Flow
<1> QED
  BY <1>1, <1>2, <1>3, <1>4, <1>5, <1>6

LEMMA FlowInit == Init => Flow
BY DEF Init, Flow

\* Between the decryptor and the output no plaintext is lost, repeated or put out
\* of order, wherever blocks, parts, the writer's buffer, the pipe and tarfile's
\* reads end.
THEOREM NothingIsDropped == Spec => []NothingDropped
<1>1. Init => Types /\ Flow
  BY TypesInit, FlowInit
<1>2. Types /\ Flow /\ [Next]_vars => (Types /\ Flow)'
  BY TypesStep, FlowStep
<1>3. Flow => NothingDropped
  BY Zenon DEF Flow, NothingDropped
<1> QED
  BY <1>1, <1>2, <1>3, PTL DEF Spec

-----------------------------------------------------------------------------
(* What --delete-consumed removes.                                         *)

\* While a run reads, the files of its push that are there are as the manifest
\* says.
Checked ==
  ~AtRest /\ manifest # << >> =>
    \A m \in DOMAIN dir :
      m.label = parts[1].label => m \in DOMAIN manifest /\ dir[m] = manifest[m]

LEMMA CheckedStep ==
  ASSUME Types, Checked, [Next]_vars
  PROVE  Checked'
<1>1. CASE Begin
  <2>1. /\ Matches(Found(opt')) /\ Len(parts') \in Nat \ {0}
        /\ \A k \in 1..Len(parts') : parts'[k] \in Found(opt')
    BY <1>1, BeginFacts DEF Types
  <2>2. parts'[1] \in Found(opt')
    BY <2>1
  <2>3. \A m \in DOMAIN dir : m.label = parts'[1].label => m \in Found(opt')
    BY <2>2 DEF Found
  <2>4. UNCHANGED <<dir, manifest>>
    BY <1>1 DEF Begin
  <2>5. manifest # << >> => \A n \in Found(opt') : n \in DOMAIN manifest /\ dir[n] = manifest[n]
    BY <2>1, Zenon DEF Matches
  <2> QED
    BY <2>3, <2>4, <2>5, Zenon DEF Checked
<1>2. CASE Refuse \/ Download
  BY <1>2 DEF Refuse, Download, Checked, AtRest
<1>3. CASE FinishPart
  <2>1. /\ \A n \in DOMAIN dir' : n \in DOMAIN dir /\ dir'[n] = dir[n]
        /\ UNCHANGED <<pc, parts, manifest>>
    BY <1>3 DEF FinishPart, Without
  <2> QED
    BY <2>1, Zenon DEF Checked, AtRest
<1>4. CASE ~(Begin \/ Refuse \/ Download \/ FinishPart)
  <2>1. UNCHANGED <<dir, manifest, parts>> /\ (AtRest => AtRest')
    BY <1>4 DEF Types, Next, Main, Feeder, Environment, Iterate, FeedBlock, FinishReading,
       Iterating, Modes,
       MoveOutput, Take, Look, CloseReader, Join, Pour, BrokenPipe, CloseWriter,
       WriteFails, MoveFails, ExtractFails, Crash, vars, reading, AtRest
  <2> QED
    BY <2>1, Zenon DEF Checked
<1> QED
  BY <1>1, <1>2, <1>3, <1>4

\* A part only goes in a run of --delete-consumed, once the decryptor has had all
\* of it, and while every part of its push that is there agrees with the manifest.
THEOREM OnlyReadPartsGo == Spec => RemovesOnlyRead
<1>1. Init => Types /\ Checked
  BY TypesInit DEF Init, Checked, AtRest
<1>2. Types /\ Checked /\ [Next]_vars => (Types /\ Checked)'
  BY TypesStep, CheckedStep
<1> DEFINE Removal ==
      \A n \in DOMAIN dir \ DOMAIN dir' :
        /\ opt.delete
        /\ \E k \in 1..Len(parts) : parts[k] = n /\ k < at'
        /\ manifest # << >> =>
             \A m \in DOMAIN dir :
               m.label = n.label => m \in DOMAIN manifest /\ dir[m] = manifest[m]
<1>3. Types /\ Checked /\ [Next]_vars => [Removal]_dir
  <2> SUFFICES ASSUME Types, Checked, [Next]_vars, dir' # dir, NEW n \in DOMAIN dir \ DOMAIN dir'
               PROVE  /\ opt.delete
                      /\ \E k \in 1..Len(parts) : parts[k] = n /\ k < at'
                      /\ manifest # << >> =>
                           \A m \in DOMAIN dir :
                             m.label = n.label => m \in DOMAIN manifest /\ dir[m] = manifest[m]
    OBVIOUS
  <2>1. ~Download
    BY DEF Download
  <2>2. FinishPart
    BY <2>1 DEF Next, Main, Feeder, Environment, Iterate, FeedBlock, FinishReading,
       MoveOutput, Take, Look, CloseReader, Join, Pour, BrokenPipe, CloseWriter,
       Refuse, Begin, WriteFails, MoveFails, ExtractFails, Crash, vars
  <2>3. opt.delete /\ n = parts[at] /\ at' = at + 1 /\ at <= Len(parts) /\ ~AtRest
    BY <2>2 DEF FinishPart, Without, Iterating, Types, Modes, AtRest
  <2>4. at \in 1..Len(parts) /\ Len(parts) \in Nat
    BY <2>3, LenProperties DEF Types, Listed
  <2>5. n.label = parts[1].label
    BY <2>3, <2>4 DEF Types, Listed
  <2>6. \E k \in 1..Len(parts) : parts[k] = n /\ k < at'
    BY <2>3, <2>4
  <2> QED
    BY <2>3, <2>5, <2>6, Zenon DEF Checked
<1>4. Spec => [][Removal]_dir
  BY <1>1, <1>2, <1>3, PTL DEF Spec
<1> QED
  BY <1>4 DEF RemovesOnlyRead

-----------------------------------------------------------------------------
(* Done means restored.                                                    *)

\* The files named as parts of a push hold bytes of that push, or damaged ones:
\* nobody can make bytes that pass for them without the passphrase.
Unforged ==
  \A d \in Downloads : \A n \in DOMAIN d.files : \A k \in 1..Len(d.files[n]) :
    d.files[n][k][1] # "bad" =>
      \E p \in Pushes : p.label = n.label /\ \E j \in 1..Len(Bytes(p)) : d.files[n][k] = Bytes(p)[j]

Known(l) ==
  {b \in Byte : b[1] # "bad" =>
     \E p \in Pushes : p.label = l /\ \E j \in 1..Len(Bytes(p)) : b = Bytes(p)[j]}

LEMMA Retyped ==
  ASSUME NEW S, NEW T, NEW s \in Seq(S), \A k \in 1..Len(s) : s[k] \in T
  PROVE  s \in Seq(T)
<1>1. Len(s) \in Nat /\ s \in [1..Len(s) -> S]
  BY LenProperties
<1>2. s \in [1..Len(s) -> T]
  BY <1>1
<1> QED
  BY <1>1, <1>2, FunctionAsSequence

\* The three kinds of bytes a push has.
LEMMA KindOf ==
  ASSUME NEW p \in Pushes, NEW j \in 1..Len(Bytes(p))
  PROVE  LET b == Bytes(p)[j]
         IN \/ b[1] = "header" /\ b[2] = p.salt
            \/ b[1] = "body" /\ b[2] = p.salt /\
                 \E k \in 1..Len(p.text) : b[3] = k /\ b = Body(p.salt, p.text)[k]
            \/ b[1] = "tag" /\ b[2] = p.salt /\ b[4] = p.text
<1> DEFINE b == Bytes(p)[j]
<1>1. p.salt \in Nat /\ p.text \in Seq(STRING)
  BY PushTyped
<1>2. \/ \E k \in 1..HeaderSize : b = Header(p.salt)[k]
      \/ \E k \in 1..Len(p.text) : b = Body(p.salt, p.text)[k]
      \/ \E k \in 1..TagSize : b = Tag(p.salt, p.text)[k]
  BY PushBytes
<1> HIDE DEF b
<1>3. CASE \E k \in 1..HeaderSize : b = Header(p.salt)[k]
  <2>1. PICK k \in 1..HeaderSize : b = <<"header", p.salt, k, << >> >>
    BY <1>1, <1>3, HeaderBytes, Zenon
  <2>2. PICK e \in Seq(STRING) : e = << >>
    BY EmptySeq, Zenon
  <2>3. b = <<"header", p.salt, k, e>>
    BY <2>1, <2>2, Zenon
  <2>4. b[1] = "header" /\ b[2] = p.salt
    BY <2>3
  <2> QED
    BY <2>4 DEF b
<1>4. CASE \E k \in 1..Len(p.text) : b = Body(p.salt, p.text)[k]
  <2>1. PICK k \in 1..Len(p.text) : b = Body(p.salt, p.text)[k]
    BY <1>4
  <2>2. b = <<"body", p.salt, k, <<p.text[k]>> >>
    BY <1>1, <2>1, BodyBytes, Zenon
  <2>3. b[1] = "body" /\ b[2] = p.salt /\ b[3] = k
    BY <2>2
  <2> QED
    BY <2>1, <2>3 DEF b
<1>5. CASE \E k \in 1..TagSize : b = Tag(p.salt, p.text)[k]
  <2>1. PICK k \in 1..TagSize : b = <<"tag", p.salt, k, p.text>>
    BY <1>1, <1>5, TagBytes, Zenon
  <2>2. b[1] = "tag" /\ b[2] = p.salt /\ b[4] = p.text
    BY <2>1
  <2> QED
    BY <2>2 DEF b
<1> QED
  BY <1>2, <1>3, <1>4, <1>5, Zenon

\* If the tag verifies, what was decrypted is a push from its first byte to its
\* last: the tag names the whole text, and every body byte its place in it.
LEMMA Authentic ==
  ASSUME NEW p \in Pushes, NEW d \in Decryptor(Known(p.label)), NEW right \in BOOLEAN,
         Verifies(d, right)
  PROVE  Fed(d) = Bytes(p) /\ Plain(d, right) = p.text
<1> DEFINE s == SaltOf(d)
<1>1. /\ d.head = Header(s) /\ d.tail = Tag(s, Plain(d, right))
      /\ Len(d.tail) = TagSize
  BY DEF Verifies
<1> HIDE DEF s
<1>2. d.tail \in Seq(Known(p.label)) /\ d.passed \in Seq(Known(p.label))
  BY DEF Decryptor
<1>3. \A b \in Known(p.label) : b[1] # "bad" => \E j \in 1..Len(Bytes(p)) : b = Bytes(p)[j]
  BY PullAssumption DEF Known
<1>4. s = p.salt /\ Plain(d, right) = p.text
  <2>1. 1 \in 1..TagSize
    BY CipherAssumption
  <2>2. d.tail[1] \in Known(p.label)
    BY <1>1, <1>2, <2>1, ElementOfSeq
  <2>3. d.tail[1] = <<"tag", s, 1, Plain(d, right)>>
    BY <1>1, <2>1 DEF Tag
  <2>4. d.tail[1][1] = "tag" /\ d.tail[1][2] = s /\ d.tail[1][4] = Plain(d, right)
    BY <2>3
  <2>5. PICK j \in 1..Len(Bytes(p)) : d.tail[1] = Bytes(p)[j]
    BY <1>3, <2>2, <2>4
  <2>6. d.tail[1][2] = p.salt /\ d.tail[1][4] = p.text
    BY <2>4, <2>5, KindOf
  <2> QED
    BY <2>4, <2>6
<1>5. d.passed \in Seq(Byte) /\ Len(d.passed) \in Nat
  <2>1. Known(p.label) \subseteq Byte
    BY DEF Known
  <2> QED
    BY <1>2, <2>1, SeqMonotonic, LenProperties
<1>6. p.text \in Seq(STRING) /\ p.salt \in Nat /\ \A k \in 1..Len(p.text) : p.text[k] # Garbage
  BY PushTyped, PullAssumption
<1>7. Len(d.passed) = Len(p.text)
  <2>1. DOMAIN Plain(d, right) = 1..Len(d.passed)
    BY DEF Plain
  <2>2. DOMAIN p.text = 1..Len(p.text) /\ Len(p.text) \in Nat
    BY <1>6, LenProperties
  <2> QED
    BY <1>4, <1>5, <2>1, <2>2
<1>8. /\ Body(p.salt, p.text) \in Seq(Byte)
      /\ Len(Body(p.salt, p.text)) = Len(p.text)
      /\ \A j \in 1..Len(p.text) :
           Body(p.salt, p.text)[j] = <<"body", p.salt, j, <<p.text[j]>> >>
  BY <1>6, BodyBytes
<1>9. \A k \in 1..Len(d.passed) : d.passed[k] = Body(p.salt, p.text)[k]
  <2> TAKE k \in 1..Len(d.passed)
  <2>1. Plain(d, right)[k] # Garbage
    BY <1>4, <1>6, <1>7
  <2>2. d.passed[k][1] = "body" /\ d.passed[k][3] = k
    BY <2>1, Zenon DEF Plain
  <2>3. d.passed[k] \in Known(p.label)
    BY <1>2, ElementOfSeq
  <2>4. PICK j \in 1..Len(Bytes(p)) : d.passed[k] = Bytes(p)[j]
    BY <1>3, <2>2, <2>3
  <2>5. \E i \in 1..Len(p.text) :
          d.passed[k][3] = i /\ d.passed[k] = Body(p.salt, p.text)[i]
    BY <2>2, <2>4, KindOf
  <2> QED
    BY <2>2, <2>5
<1>10. d.passed = Body(p.salt, p.text)
  BY <1>5, <1>7, <1>8, <1>9, SeqEqual
<1> QED
  BY <1>1, <1>4, <1>10, Zenon DEF Fed, Bytes, Ciphertext

\* Files and decryptor hold bytes of the push their name, or the run's parts, name.
Sources ==
  /\ \A n \in DOMAIN dir : dir[n] \in Seq(Known(n.label))
  /\ dec \in Decryptor(Known(parts[1].label))

LEMMA SourcesInit ==
  ASSUME Unforged, Init
  PROVE  Sources
<1>1. ASSUME NEW n \in DOMAIN dir
      PROVE  dir[n] \in Seq(Known(n.label))
  <2>1. PICK d \in Downloads : dir = d.files
    BY DEF Init
  <2>2. dir[n] \in Seq(Byte)
    BY <1>1, <2>1, DownloadAssumption
  <2>3. \A k \in 1..Len(dir[n]) : dir[n][k] \in Byte
    BY <2>2, ElementOfSeq
  <2>4. \A k \in 1..Len(dir[n]) : dir[n][k] \in Known(n.label)
    BY <1>1, <2>1, <2>3, Zenon DEF Known, Unforged
  <2> QED
    BY <2>2, <2>4, Retyped
<1> QED
  BY <1>1, NewTyped DEF Init, Sources

LEMMA SourcesStep ==
  ASSUME Types, Sources, [Next]_vars
  PROVE  Sources'
<1>1. CASE Begin \/ Refuse
  BY <1>1, NewTyped DEF Begin, Refuse, Sources
<1>2. CASE FeedBlock
  <2> DEFINE b == dir[parts[at]]
             l == parts[1].label
             block == SubSeq(b, offset + 1, Shorter(offset + BlockSize, Len(b)))
  <2>1. /\ at \in 1..Len(parts) /\ parts[at] \in DOMAIN dir
        /\ dec' = Update(dec, block)
    BY <1>2, FeedFacts
  <2>2. parts[at].label = l /\ offset \in Nat
    BY <2>1 DEF Types, Listed
  <2>3. b \in Seq(Known(l))
    BY <2>1, <2>2 DEF Sources
  <2>4. block \in Seq(Known(l))
    BY <2>2, <2>3, BlockTyped
  <2>5. UNCHANGED <<dir, parts>>
    BY <1>2 DEF FeedBlock
  <2>6. dec \in Decryptor(Known(l))
    BY DEF Sources
  <2> HIDE DEF block, l
  <2>7. Update(dec, block) \in Decryptor(Known(l))
    BY <2>4, <2>6, UpdateFacts
  <2> QED
    BY <2>1, <2>5, <2>7 DEF Sources, l
<1>3. CASE FinishPart
  <2>1. /\ \A n \in DOMAIN dir' : n \in DOMAIN dir /\ dir'[n] = dir[n]
        /\ UNCHANGED <<dec, parts>>
    BY <1>3 DEF FinishPart, Without
  <2> QED
    BY <2>1 DEF Sources
<1>4. CASE Download
  <2>1. PICK p \in Pushes :
          \E n \in DOMAIN PartFiles(p) :
            dir' = [m \in DOMAIN dir \cup {n} |-> IF m = n THEN PartFiles(p)[n] ELSE dir[m]]
    BY <1>4 DEF Download
  <2>2. PICK n \in DOMAIN PartFiles(p) :
          dir' = [m \in DOMAIN dir \cup {n} |-> IF m = n THEN PartFiles(p)[n] ELSE dir[m]]
    BY <2>1
  <2> DEFINE f == PartFiles(p)[n]
  <2>3. f \in Seq(Byte) /\ n.label = p.label
        /\ \A k \in 1..Len(f) : \E j \in 1..Len(Bytes(p)) : f[k] = Bytes(p)[j]
    BY PartTyped, NameFacts
  <2> HIDE DEF f
  <2>4. \A k \in 1..Len(f) : f[k] \in Byte
    BY <2>3, ElementOfSeq
  <2>5. \A k \in 1..Len(f) : f[k] \in Known(n.label)
    BY <2>3, <2>4, Zenon DEF Known
  <2>6. f \in Seq(Known(n.label))
    BY <2>3, <2>5, Retyped
  <2>7. /\ DOMAIN dir' = DOMAIN dir \cup {n}
        /\ \A m \in DOMAIN dir' : dir'[m] = IF m = n THEN f ELSE dir[m]
    BY <2>2 DEF f
  <2>8. UNCHANGED <<dec, parts>>
    BY <1>4 DEF Download, reading
  <2> QED
    BY <2>6, <2>7, <2>8 DEF Sources
<1>5. CASE ~(Begin \/ Refuse \/ FeedBlock \/ FinishPart \/ Download)
  <2>1. UNCHANGED <<dir, dec, parts>>
    BY <1>5 DEF Next, Main, Feeder, Environment, Iterate, FinishReading,
       MoveOutput, Take, Look, CloseReader, Join, Pour, BrokenPipe, CloseWriter,
       WriteFails, MoveFails, ExtractFails, Crash, vars, reading
  <2> QED
    BY <2>1 DEF Sources
<1> QED
  BY <1>1, <1>2, <1>3, <1>4, <1>5

Prefix(t, text) == \E rest \in Seq(Letter) : t \o rest = text

\* Why tarfile stopped, if nothing was raised: it saw a zero block, or had all
\* there is, or met something that is no header.
Stopped(t, ended, text) ==
  SeesEnd(t) \/ (ended /\ t = text) \/ \E k \in DOMAIN t : t[k] = Garbage

\* What a run has checked on its way to Done.
ToFile ==
  (pc = "finalize" \/ (pc = "done" /\ ~opt.extract)) =>
    Verifies(dec, opt.right) /\ blob = Plain(dec, opt.right)

Extracted ==
  pc \in {"leave", "join", "done"} /\ opt.extract /\ feeder # "failed" =>
    /\ Prefix(taken, Plain(dec, opt.right))
    /\ ~bailed => Stopped(taken, feeder = "ended", Plain(dec, opt.right))

Tagged ==
  /\ pc \in {"extract", "leave", "join", "done"} /\ opt.extract
       /\ feeder \in {"closing", "ended"} => Verifies(dec, opt.right)
  /\ pc = "done" /\ opt.extract => feeder = "ended" /\ ~bailed
  /\ ~AtRest \/ pc = "done" => Len(parts) > 0

LEMMA TaggedStep ==
  ASSUME Types, Tagged, [Next]_vars
  PROVE  Tagged'
<1>0. Modes
  BY DEF Types
<1>1. CASE Begin
  <2>1. Len(parts') > 0
    BY <1>1, BeginFacts DEF Types
  <2>2. pc' # "done" /\ feeder' \notin {"closing", "ended"}
    BY <1>1 DEF Begin
  <2> QED
    BY <2>1, <2>2 DEF Tagged
<1>2. CASE Refuse
  BY <1>2 DEF Refuse, Tagged, AtRest
<1>3. CASE FinishReading
  BY <1>0, <1>3 DEF FinishReading, Iterating, Tagged, Modes, AtRest, reading
<1>4. CASE FeedBlock
  <2>1. (pc = "plain" /\ ~opt.extract) \/ feeder = "feeding"
    BY <1>0, <1>4 DEF FeedBlock, Iterating, Modes
  <2>2. UNCHANGED <<pc, opt, feeder, bailed, parts>>
    BY <1>4 DEF FeedBlock
  <2> QED
    BY <2>1, <2>2 DEF Tagged, AtRest
<1>5. CASE ~(Begin \/ Refuse \/ FinishReading \/ FeedBlock)
  <2>1. UNCHANGED <<dec, opt, parts>>
    BY <1>5 DEF Next, Main, Feeder, Environment, Iterate, FinishPart,
       MoveOutput, Take, Look, CloseReader, Join, Pour, BrokenPipe, CloseWriter,
       WriteFails, MoveFails, ExtractFails, Crash, Download, vars, reading
  <2>2. /\ pc' \in {"extract", "leave", "join", "done"} /\ opt.extract
             /\ feeder' \in {"closing", "ended"} =>
             pc \in {"extract", "leave", "join", "done"} /\ feeder \in {"closing", "ended"}
        /\ pc' = "done" /\ opt.extract =>
             (pc = "done" /\ feeder' = feeder /\ bailed' = bailed)
             \/ (feeder' = "ended" /\ ~bailed')
        /\ (~AtRest' \/ pc' = "done") => (~AtRest \/ pc = "done")
    BY <1>0, <1>5 DEF Modes, Next, Main, Feeder, Environment, Iterate, FinishPart,
       MoveOutput, Take, Look, CloseReader, Join, Pour, BrokenPipe, CloseWriter,
       WriteFails, MoveFails, ExtractFails, Crash, Download, vars, extracting, AtRest,
       Writing
  <2> QED
    BY <2>1, <2>2 DEF Tagged
<1> QED
  BY <1>1, <1>2, <1>3, <1>4, <1>5

LEMMA ToFileStep ==
  ASSUME Types, Flow, ToFile, [Next]_vars
  PROVE  ToFile'
<1>0. Modes
  BY DEF Types
<1>1. CASE FinishReading
  <2>1. /\ UNCHANGED <<dec, opt, blob>>
        /\ pc' = "finalize" => pc = "plain" /\ Verifies(dec, opt.right)
        /\ pc' # "done"
    BY <1>0, <1>1 DEF FinishReading, Iterating, Modes, reading
  <2> QED
    BY <2>1, Zenon DEF Flow, ToFile
<1>2. CASE Begin \/ Refuse
  BY <1>2 DEF Begin, Refuse, ToFile
<1>3. CASE ~(Begin \/ Refuse \/ FinishReading)
  <2>1. (pc' = "finalize" \/ (pc' = "done" /\ ~opt'.extract)) =>
          /\ pc = "finalize" \/ (pc = "done" /\ ~opt.extract)
          /\ UNCHANGED <<dec, opt, blob>>
    BY <1>0, <1>3 DEF Modes, Next, Main, Feeder, Environment, Iterate, FeedBlock, FinishPart,
       Iterating, MoveOutput, Take, Look, CloseReader, Join, Pour, BrokenPipe, CloseWriter,
       WriteFails, MoveFails, ExtractFails, Crash, Download, vars, reading, extracting
  <2> QED
    BY <2>1, Zenon DEF ToFile
<1> QED
  BY <1>1, <1>2, <1>3

\* What tarfile has read is the front of what was decrypted.
LEMMA ReadIsFront ==
  ASSUME Types, Flow, pc = "extract", feeder # "failed"
  PROVE  /\ Prefix(taken, Plain(dec, opt.right))
         /\ AtEof => feeder = "ended" /\ taken = Plain(dec, opt.right)
<1>1. pend \in Seq(Letter) /\ pipe \in Seq(Letter) /\ taken \in Seq(Letter)
  BY DEF Types, Texts
<1>2. (taken \o pipe) \o pend = Plain(dec, opt.right)
  BY Zenon DEF Flow
<1>3. pipe \o pend \in Seq(Letter) /\ (taken \o pipe) \o pend = taken \o (pipe \o pend)
  BY <1>1, ConcatProperties, ConcatAssociative
<1>4. Prefix(taken, Plain(dec, opt.right))
  BY <1>2, <1>3, Zenon DEF Prefix
<1>5. ASSUME AtEof
      PROVE  feeder = "ended" /\ taken = Plain(dec, opt.right)
  <2>1. pipe = << >> /\ feeder = "ended"
    BY <1>5 DEF AtEof
  <2>2. Len(pend) = 0
    BY <2>1 DEF Types, Modes
  <2>3. pend = << >>
    BY <1>1, <2>2, EmptySeq
  <2>4. taken \o << >> = taken
    BY <1>1, ConcatEmptySeq
  <2> QED
    BY <1>2, <2>1, <2>3, <2>4, Zenon
<1> QED
  BY <1>4, <1>5

LEMMA PrefixGrows ==
  ASSUME NEW t \in Seq(Letter), NEW text, NEW out \in Seq(Letter), Prefix(t, text)
  PROVE  Prefix(t, text \o out)
<1>1. PICK rest \in Seq(Letter) : t \o rest = text
  BY DEF Prefix
<1>2. rest \o out \in Seq(Letter)
  BY <1>1, ConcatProperties
<1>3. (t \o rest) \o out = t \o (rest \o out)
  BY ConcatAssociative
<1>4. t \o (rest \o out) = text \o out
  BY <1>1, <1>3
<1> QED
  BY <1>2, <1>4, Zenon DEF Prefix

LEMMA ExtractedStep ==
  ASSUME Types, Flow, Extracted, [Next]_vars
  PROVE  Extracted'
<1>0. Modes
  BY DEF Types
<1>1. CASE Look
  <2>1. /\ pc = "extract" /\ UNCHANGED <<dec, opt, feeder, taken>>
        /\ pc' = "leave" \/ pc' = "extract"
        /\ pc' = "leave" => SeesEnd(taken) \/ AtEof \/ \E k \in DOMAIN taken : taken[k] = Garbage
    BY <1>1 DEF Look, reading
  <2>2. feeder # "failed" =>
          /\ Prefix(taken, Plain(dec, opt.right))
          /\ AtEof => feeder = "ended" /\ taken = Plain(dec, opt.right)
    BY <2>1, ReadIsFront
  <2>3. pc' = "leave" /\ feeder # "failed" =>
          Stopped(taken, feeder = "ended", Plain(dec, opt.right))
    BY <2>1, <2>2, Zenon DEF Stopped
  <2>4. pc' \in {"leave", "join", "done"} => pc' = "leave"
    BY <2>1
  <2> QED
    BY <2>1, <2>2, <2>3, <2>4, Zenon DEF Extracted
<1>2. CASE ExtractFails
  <2>1. /\ pc = "extract" /\ bailed' = TRUE /\ UNCHANGED <<dec, opt, feeder, taken>>
    BY <1>2 DEF ExtractFails, reading
  <2>2. feeder # "failed" => Prefix(taken, Plain(dec, opt.right))
    BY <2>1, ReadIsFront
  <2> QED
    BY <2>1, <2>2, Zenon DEF Extracted
<1>3. CASE FeedBlock
  <2> DEFINE b == dir[parts[at]]
             out == Released(dec, SubSeq(b, offset + 1, Shorter(offset + BlockSize, Len(b))),
                             opt.right)
             text == Plain(dec, opt.right)
  <2>1. /\ out \in Seq(Letter)
        /\ Plain(dec', opt.right) = text \o out
    BY <1>3, FeedFacts, Zenon
  <2>2. /\ UNCHANGED <<opt, pc, feeder, taken, bailed>>
        /\ pc = "plain" \/ feeder = "feeding"
    BY <1>3 DEF FeedBlock, Iterating
  <2> HIDE DEF out, text
  <2>3. Prefix(taken, text) => Prefix(taken, text \o out)
    <3>1. taken \in Seq(Letter) /\ out \in Seq(Letter)
      BY <2>1 DEF Types, Texts
    <3> QED
      BY <3>1, PrefixGrows, Zenon
  <2>4. feeder # "ended" /\ Stopped(taken, feeder = "ended", text) =>
          Stopped(taken, feeder = "ended", text \o out)
    BY Zenon DEF Stopped
  <2>5. pc = "plain" => pc \notin {"leave", "join", "done"}
    OBVIOUS
  <2>6. feeder = "feeding" => feeder # "ended"
    OBVIOUS
  <2> QED
    BY <2>1, <2>2, <2>3, <2>4, <2>5, <2>6, Zenon DEF Extracted, text
<1>4. CASE FinishReading \/ CloseWriter
  <2>1. /\ UNCHANGED <<dec, opt, taken, bailed>>
        /\ pc' \in {"leave", "join", "done"} => pc \in {"leave", "join", "done"}
        /\ feeder' # "failed" => feeder # "failed"
        /\ feeder # "ended" \/ feeder' = feeder
    BY <1>0, <1>4 DEF FinishReading, Iterating, CloseWriter, Modes, reading
  <2>2. \A text : Stopped(taken, FALSE, text) => Stopped(taken, feeder' = "ended", text)
    BY DEF Stopped
  <2>3. \A text : Stopped(taken, feeder = "ended", text) =>
                    Stopped(taken, feeder' = "ended", text)
    BY <2>1 DEF Stopped
  <2> QED
    BY <2>1, <2>3, Zenon DEF Extracted
<1>5. CASE Begin \/ Refuse \/ Crash
  BY <1>5 DEF Begin, Refuse, Crash, Extracted
<1>6. CASE ~(Look \/ ExtractFails \/ FeedBlock \/ FinishReading \/ CloseWriter \/ Begin
               \/ Refuse \/ Crash)
  <2>1. pc' \in {"leave", "join", "done"} /\ opt'.extract /\ feeder' # "failed" =>
          /\ pc \in {"leave", "join", "done"} /\ opt.extract /\ feeder # "failed"
          /\ UNCHANGED <<dec, opt, feeder, taken, bailed>>
    BY <1>0, <1>6 DEF Modes, Next, Main, Feeder, Environment, Iterate, FinishPart,
       Iterating, MoveOutput, Take, CloseReader, Join, Pour, BrokenPipe,
       WriteFails, MoveFails, Download, vars, reading, extracting
  <2> QED
    BY <2>1, Zenon DEF Extracted
<1> QED
  BY <1>1, <1>2, <1>3, <1>4, <1>5, <1>6

\* The members of an archive depend on what comes before its first zero block
\* only.
LEMMA ContentOfFront ==
  ASSUME NEW t \in Seq(Letter), NEW text \in Seq(Letter), Prefix(t, text), SeesEnd(t)
  PROVE  Content(t) = Content(text)
<1>1. Len(t) \in Nat /\ Len(text) \in Nat /\ Len(t) <= Len(text)
      /\ \A k \in 1..Len(t) : text[k] = t[k]
  <2>1. PICK rest \in Seq(Letter) : t \o rest = text
    BY DEF Prefix
  <2>2. /\ Len(t \o rest) = Len(t) + Len(rest)
        /\ \A k \in 1..(Len(t) + Len(rest)) :
             (t \o rest)[k] = IF k <= Len(t) THEN t[k] ELSE rest[k - Len(t)]
    BY <2>1, ConcatProperties
  <2>3. Len(t) \in Nat /\ Len(rest) \in Nat
    BY <2>1, LenProperties
  <2> QED
    BY <2>1, <2>2, <2>3
<1>2. PICK z \in 1..Len(t) : t[z] = Zero
  BY LenProperties DEF SeesEnd
<1> DEFINE First(s, n) == /\ n < Len(s) => s[n + 1] = Zero
                          /\ \A j \in 1..n : s[j] # Zero
           C == {n \in 0..Len(t) : \A j \in 1..n : t[j] # Zero}
           m == Cardinality(C) - 1
<1>3. C \in SUBSET Nat /\ IsFiniteSet(C) /\ \A i \in C : 0..i \subseteq C
  <2>1. IsFiniteSet(0..Len(t))
    BY <1>1, FS_Interval
  <2>2. C \in SUBSET (0..Len(t))
    OBVIOUS
  <2>3. IsFiniteSet(C)
    BY <2>1, <2>2, FS_Subset
  <2>4. \A i \in C : 0..i \subseteq C
    BY <1>1
  <2> QED
    BY <2>2, <2>3, <2>4
<1>4. Cardinality(C) \in Nat /\ C = 0..m
  BY <1>3, DownwardClosed
<1>5. m \in C /\ m + 1 \notin C
  <2>1. 0 \in C
    BY <1>1
  <2> HIDE DEF C
  <2> QED
    BY <1>4, <2>1
<1> HIDE DEF m
<1>6. m \in 0..Len(t) /\ (\A j \in 1..m : t[j] # Zero) /\ m < z
  BY <1>1, <1>2, <1>5
<1>7. m < Len(t) /\ t[m + 1] = Zero
  <2>1. m < Len(t)
    BY <1>1, <1>2, <1>6
  <2>2. m + 1 \in 0..Len(t)
    BY <1>1, <1>6, <2>1
  <2>3. PICK j \in 1..(m + 1) : t[j] = Zero
    BY <1>5, <2>2
  <2>4. j = m + 1
    BY <1>1, <1>6, <2>3
  <2> QED
    BY <2>1, <2>3, <2>4
<1> HIDE DEF C
<1>8. (CHOOSE n \in 0..Len(t) : First(t, n)) = m
  <2>1. m \in 0..Len(t) /\ First(t, m)
    BY <1>6, <1>7
  <2>2. \A n \in 0..Len(t) : First(t, n) => n = m
    <3> TAKE n \in 0..Len(t)
    <3>1. n < m => n + 1 \in 1..m /\ n < Len(t)
      BY <1>1, <1>6
    <3>2. n > m => m + 1 \in 1..n
      BY <1>1, <1>6
    <3>3. n < m \/ n > m \/ n = m
      BY <1>1, <1>6
    <3> QED
      BY <1>6, <1>7, <3>1, <3>2, <3>3
  <2> HIDE DEF First
  <2> QED
    BY <2>1, <2>2
<1>9. (CHOOSE n \in 0..Len(text) : First(text, n)) = m
  <2>1. /\ m \in 0..Len(text) /\ m < Len(text) /\ text[m + 1] = Zero
        /\ \A j \in 1..m : text[j] # Zero
    <3>1. m + 1 \in 1..Len(t) /\ \A j \in 1..m : j \in 1..Len(t)
      BY <1>1, <1>6, <1>7
    <3> QED
      BY <1>1, <1>6, <1>7, <3>1
  <2>2. \A n \in 0..Len(text) : First(text, n) => n = m
    <3> TAKE n \in 0..Len(text)
    <3>1. n < m => n + 1 \in 1..m /\ n < Len(text)
      BY <1>1, <2>1
    <3>2. n > m => m + 1 \in 1..n
      BY <1>1, <2>1
    <3>3. n < m \/ n > m \/ n = m
      BY <1>1, <2>1
    <3> QED
      BY <2>1, <3>1, <3>2, <3>3
  <2>3. First(text, m)
    BY <2>1
  <2> HIDE DEF First
  <2> QED
    BY <2>1, <2>2, <2>3
<1>10. Content(t) = SubSeq(t, 1, m) /\ Content(text) = SubSeq(text, 1, m)
  BY <1>8, <1>9, Zenon DEF Content
<1>11. SubSeq(t, 1, m) = SubSeq(text, 1, m)
  <2>1. m \in 0..Len(t) /\ m \in 0..Len(text)
    BY <1>1, <1>6
  <2>2. /\ SubSeq(t, 1, m) \in Seq(Letter) /\ Len(SubSeq(t, 1, m)) = m
        /\ \A j \in 1..m : SubSeq(t, 1, m)[j] = t[j]
    BY <2>1, TakenApart
  <2>3. /\ SubSeq(text, 1, m) \in Seq(Letter) /\ Len(SubSeq(text, 1, m)) = m
        /\ \A j \in 1..m : SubSeq(text, 1, m)[j] = text[j]
    BY <2>1, TakenApart
  <2>4. \A j \in 1..m : SubSeq(t, 1, m)[j] = SubSeq(text, 1, m)[j]
    BY <1>1, <2>1, <2>2, <2>3
  <2> QED
    BY <2>2, <2>3, <2>4, SeqEqual
<1> QED
  BY <1>10, <1>11

RestoreInv == Flow /\ Sources /\ ToFile /\ Extracted /\ Tagged

LEMMA RestoreStep ==
  ASSUME Types, RestoreInv, [Next]_vars
  PROVE  RestoreInv'
BY FlowStep, SourcesStep, ToFileStep, ExtractedStep, TaggedStep DEF RestoreInv

LEMMA RestoreDone ==
  ASSUME Types, RestoreInv
  PROVE  DoneMeansRestored
<1> SUFFICES ASSUME pc = "done"
             PROVE  /\ Fed(dec) = Bytes(Wanted)
                    /\ IF opt.extract
                         THEN Content(taken) = Content(Wanted.text)
                         ELSE blob = Wanted.text
  BY Zenon DEF DoneMeansRestored
<1> DEFINE text == Plain(dec, opt.right)
<1>1. Len(parts) \in Nat /\ Len(parts) > 0
  BY LenProperties DEF RestoreInv, Tagged, Types, Listed
<1>2. PICK p \in Pushes : parts[1] \in DOMAIN PartFiles(p)
  <2>1. parts[1] \in Name
    BY <1>1, ElementOfSeq DEF Types, Listed
  <2> QED
    BY <2>1 DEF Name
<1>3. parts[1].label = p.label
  BY <1>2, NameFacts
<1>4. Wanted = p
  BY <1>3, PullAssumption DEF Wanted, PushOf
<1>5. dec \in Decryptor(Known(p.label)) /\ opt.right \in BOOLEAN
  BY <1>3 DEF RestoreInv, Sources, Types, Modes, Options
<1>6. Verifies(dec, opt.right)
  BY Zenon DEF RestoreInv, ToFile, Tagged
<1>7. Fed(dec) = Bytes(p) /\ text = p.text
  BY <1>5, <1>6, Authentic
<1>8. CASE ~opt.extract
  BY <1>4, <1>7, <1>8, Zenon DEF RestoreInv, ToFile
<1>9. CASE opt.extract
  <2>1. feeder = "ended" /\ ~bailed
    BY <1>9, Zenon DEF RestoreInv, Tagged
  <2>2. Prefix(taken, text) /\ Stopped(taken, feeder = "ended", text)
    <3>1. feeder # "failed"
      BY <2>1
    <3> QED
      BY <1>9, <2>1, <3>1, Zenon DEF RestoreInv, Extracted
  <2>3. taken \in Seq(Letter) /\ text \in Seq(Letter)
    <3>1. dec \in Decryptor(Byte)
      BY DEF Types, Texts
    <3> QED
      BY <1>5, <3>1, PlainFacts DEF Types, Texts
  <2> HIDE DEF text
  <2>4. ASSUME SeesEnd(taken) PROVE Content(taken) = Content(text)
    BY <2>2, <2>3, <2>4, ContentOfFront, Zenon
  <2>5. ~\E k \in DOMAIN taken : taken[k] = Garbage
    <3>1. PICK rest \in Seq(Letter) : taken \o rest = text
      BY <2>2 DEF Prefix
    <3>2. /\ Len(text) = Len(taken) + Len(rest)
          /\ \A k \in 1..(Len(taken) + Len(rest)) :
               text[k] = IF k <= Len(taken) THEN taken[k] ELSE rest[k - Len(taken)]
      BY <2>3, <3>1, ConcatProperties
    <3>3. Len(taken) \in Nat /\ Len(rest) \in Nat /\ DOMAIN taken = 1..Len(taken)
      BY <2>3, LenProperties
    <3>4. \A k \in 1..Len(text) : text[k] # Garbage
      BY <1>7, PullAssumption
    <3> QED
      BY <3>2, <3>3, <3>4
  <2>6. Content(taken) = Content(text)
    <3>1. SeesEnd(taken) \/ taken = text
      BY <2>2, <2>5, Zenon DEF Stopped
    <3> QED
      BY <2>4, <3>1, Zenon
  <2> QED
    BY <1>4, <1>7, <1>9, <2>6, Zenon
<1> QED
  BY <1>4, <1>7, <1>8, <1>9, Zenon

\* As long as nobody forges bytes of a push, a pull that says Done has checked the
\* tag over every byte of the push its parts are named after and has restored all
\* of it, whatever was damaged, missing, removed or downloaded again before.
THEOREM DoneIsRestored == Unforged => (Spec => []DoneMeansRestored)
<1> SUFFICES ASSUME Unforged PROVE Spec => []DoneMeansRestored
  OBVIOUS
<1>1. Init => Types /\ RestoreInv
  BY TypesInit, FlowInit, SourcesInit
     DEF Init, RestoreInv, ToFile, Extracted, Tagged, AtRest
<1>2. Types /\ RestoreInv /\ [Next]_vars => (Types /\ RestoreInv)'
  BY TypesStep, RestoreStep
<1>3. Types /\ RestoreInv => DoneMeansRestored
  BY RestoreDone
<1> QED
  BY <1>1, <1>2, <1>3, PTL DEF Spec

-----------------------------------------------------------------------------
(* What was fed.                                                           *)

\* The decryptor holds back the last TagSize bytes, once it has passed any on.
Held(d) ==
  /\ Len(d.tail) <= TagSize
  /\ Len(d.passed) > 0 => Len(d.tail) = TagSize

\* Two sequences joined, and where their elements are.
JoinOf(S, r, s, rs) ==
  /\ rs \in Seq(S) /\ rs = r \o s /\ Len(rs) = Len(r) + Len(s)
  /\ \A i \in 1..(Len(r) + Len(s)) : rs[i] = IF i <= Len(r) THEN r[i] ELSE s[i - Len(r)]

LEMMA Joined ==
  ASSUME NEW S, NEW r \in Seq(S), NEW s \in Seq(S)
  PROVE  \E rs : JoinOf(S, r, s, rs)
<1>1. PICK rs : rs = r \o s
  OBVIOUS
<1>2. /\ rs \in Seq(S) /\ Len(rs) = Len(r) + Len(s)
      /\ \A i \in 1..(Len(r) + Len(s)) :
           rs[i] = IF i <= Len(r) THEN r[i] ELSE s[i - Len(r)]
  BY <1>1, ConcatProperties
<1> QED
  BY <1>1, <1>2, Zenon DEF JoinOf

\* Among the sequences of a set T: two make a third, whatever comes before; one
\* adds nothing; joining may be regrouped, and stays among them.
Makes(T, s, w, all) == \A r \in T : (r \o s) \o w = r \o all
AddsNothing(T, s) == \A r \in T : r \o s = r
Regroups(T) == \A r, s, w \in T : (r \o s) \o w = r \o (s \o w)
Closed(T) == \A r, s \in T : r \o s \in T

\* What update() does with the fields of a decryptor: a block is cut in two, and
\* what is in the tail with the second piece is cut in two.
Updates(T, h, p, u, b1, b2, block, out, rest) ==
  /\ h \in T /\ p \in T /\ u \in T
  /\ b1 \in T /\ b2 \in T /\ block \in T /\ out \in T /\ rest \in T
  /\ Regroups(T) /\ Closed(T)
  /\ Makes(T, b1, b2, block) /\ Makes(T, out, rest, u \o b2)
  /\ AddsNothing(T, b1) \/ (AddsNothing(T, p) /\ AddsNothing(T, u))

Fits(h, p, u, b1, block, out, rest) ==
  ((h \o b1) \o (p \o out)) \o rest = ((h \o p) \o u) \o block

LEMMA Rejoined ==
  ASSUME NEW T, NEW h, NEW p, NEW u, NEW b1, NEW b2, NEW block, NEW out, NEW rest,
         Updates(T, h, p, u, b1, b2, block, out, rest)
  PROVE  Fits(h, p, u, b1, block, out, rest)
<1>1. /\ h \in T /\ p \in T /\ u \in T
      /\ b1 \in T /\ b2 \in T /\ out \in T
      /\ AddsNothing(T, b1) \/ (AddsNothing(T, p) /\ AddsNothing(T, u))
  BY DEF Updates
<1>2. Regroups(T) /\ Closed(T) /\ Makes(T, b1, b2, block) /\ Makes(T, out, rest, u \o b2)
  BY DEF Updates
<1>3. PICK hb, hp : hb = h \o b1 /\ hp = h \o p
  OBVIOUS
<1>4. hb \in T /\ hp \in T
  BY <1>1, <1>2, <1>3, Zenon DEF Closed
<1>5. PICK hbp, hpu : hbp = hb \o p /\ hpu = hp \o u
  OBVIOUS
<1>6. hbp \in T /\ hpu \in T
  BY <1>1, <1>2, <1>4, <1>5, Zenon DEF Closed
<1>7. (hb \o p) \o out = hb \o (p \o out)
  <2>1. Regroups(T) /\ hb \in T /\ p \in T /\ out \in T
    BY <1>1, <1>2, <1>4
  <2> QED
    BY <2>1 DEF Regroups
<1>8. (hbp \o out) \o rest = hbp \o (u \o b2)
  BY <1>2, <1>6, Zenon DEF Makes
<1>9. (hbp \o u) \o b2 = hbp \o (u \o b2)
  <2>1. Regroups(T) /\ hbp \in T /\ u \in T /\ b2 \in T
    BY <1>1, <1>2, <1>6
  <2> QED
    BY <2>1 DEF Regroups
<1>10. hbp \o u = hpu \o b1
  <2>1. CASE AddsNothing(T, b1)
    <3>1. hb = h /\ hpu \o b1 = hpu
      BY <1>1, <1>3, <1>6, <2>1, Zenon DEF AddsNothing
    <3> QED
      BY <1>3, <1>5, <3>1, Zenon
  <2>2. CASE AddsNothing(T, p) /\ AddsNothing(T, u)
    <3>1. hbp = hb /\ hb \o u = hb /\ hp = h /\ hp \o u = hp
      BY <1>1, <1>3, <1>4, <1>5, <2>2, Zenon DEF AddsNothing
    <3> QED
      BY <1>3, <1>5, <3>1, Zenon
  <2> QED
    BY <1>1, <2>1, <2>2
<1>11. (hpu \o b1) \o b2 = hpu \o block
  BY <1>2, <1>6, Zenon DEF Makes
<1>12. (hb \o (p \o out)) \o rest = hpu \o block
  BY <1>5, <1>7, <1>8, <1>9, <1>10, <1>11, Zenon
<1> QED
  BY <1>3, <1>5, <1>12, Zenon DEF Fits

LEMMA SequencesRegroup ==
  ASSUME NEW S
  PROVE  /\ Regroups(Seq(S)) /\ Closed(Seq(S))
         /\ \A s \in Seq(S) : Len(s) = 0 => AddsNothing(Seq(S), s)
<1>1. Regroups(Seq(S)) /\ Closed(Seq(S))
  <2>1. ASSUME NEW r \in Seq(S), NEW s \in Seq(S), NEW w \in Seq(S)
        PROVE  (r \o s) \o w = r \o (s \o w)
    BY ConcatAssociative
  <2>2. ASSUME NEW r \in Seq(S), NEW s \in Seq(S)
        PROVE  r \o s \in Seq(S)
    BY ConcatProperties
  <2> QED
    BY <2>1, <2>2, Zenon DEF Regroups, Closed
<1>2. ASSUME NEW s \in Seq(S), Len(s) = 0, NEW r \in Seq(S)
      PROVE  r \o s = r
  BY <1>2, EmptySeq, ConcatEmptySeq
<1> QED
  BY <1>1, <1>2, Zenon DEF AddsNothing

\* update() keeps every byte it is given, in order, and the right number of them
\* back.
LEMMA FedGrows ==
  ASSUME NEW S, NEW d \in Decryptor(S), NEW block \in Seq(S), Held(d)
  PROVE  /\ Fed(Update(d, block)) = Fed(d) \o block
         /\ Held(Update(d, block))
<1> DEFINE t == Shorter(HeaderSize - Len(d.head), Len(block))
           b1 == SubSeq(block, 1, t)
           b2 == SubSeq(block, t + 1, Len(block))
           buf == d.tail \o b2
           held == Shorter(TagSize, Len(buf))
           n == Len(buf) - held
           out == SubSeq(buf, 1, n)
           rest == SubSeq(buf, n + 1, Len(buf))
<1>0. Update(d, block) = [head |-> d.head \o b1, passed |-> d.passed \o out, tail |-> rest]
  BY Zenon DEF Update
<1>1. /\ d.head \in Seq(S) /\ d.passed \in Seq(S) /\ d.tail \in Seq(S)
      /\ Len(d.head) <= HeaderSize
      /\ Len(d.head) < HeaderSize => Len(d.passed) = 0 /\ Len(d.tail) = 0
  BY DEF Decryptor
<1>2. /\ Len(d.head) \in Nat /\ Len(d.passed) \in Nat /\ Len(d.tail) \in Nat
      /\ Len(block) \in Nat
      /\ HeaderSize \in Nat \ {0} /\ TagSize \in Nat \ {0}
  BY <1>1, LenProperties, CipherAssumption
<1>3. t \in 0..Len(block) /\ (Len(d.head) = HeaderSize => t = 0)
  <2>1. HeaderSize - Len(d.head) \in Int /\ Len(block) \in Int
        /\ HeaderSize - Len(d.head) >= 0
    BY <1>1, <1>2
  <2>2. t <= HeaderSize - Len(d.head) /\ t <= Len(block) /\ t \in Int
        /\ (t = HeaderSize - Len(d.head) \/ t = Len(block))
    BY <2>1, ShorterFacts
  <2> HIDE DEF t
  <2> QED
    BY <1>2, <2>1, <2>2
<1> HIDE DEF t
<1>4. /\ b1 \in Seq(S) /\ Len(b1) = t
      /\ b2 \in Seq(S) /\ Len(b2) = Len(block) - t
  BY <1>3, TakenApart
<1>5. \A r \in Seq(S) : (r \o b1) \o b2 = r \o block
  BY <1>3, PutBack
<1> HIDE DEF b1, b2
<1>6. buf \in Seq(S) /\ Len(buf) = Len(d.tail) + Len(b2)
  BY <1>1, <1>4, ConcatProperties
<1>7. Len(buf) \in Nat
  BY <1>6, LenProperties
<1>8. buf = d.tail \o b2
  OBVIOUS
<1> HIDE DEF buf
<1>9. /\ held \in 0..Len(buf) /\ held <= TagSize
      /\ held = TagSize \/ held = Len(buf)
  BY <1>2, <1>7 DEF Shorter
<1> HIDE DEF held
<1>10. n \in 0..Len(buf) /\ Len(buf) - n = held
  BY <1>7, <1>9
<1> HIDE DEF n
<1>11. /\ out \in Seq(S) /\ Len(out) = n
       /\ rest \in Seq(S) /\ Len(rest) = held
  BY <1>6, <1>10, TakenApart
<1>12. \A r \in Seq(S) : (r \o out) \o rest = r \o buf
  BY <1>6, <1>10, PutBack
<1> HIDE DEF out, rest
<1>13. Held(Update(d, block))
  <2>1. Len(d.passed \o out) = Len(d.passed) + n
    BY <1>1, <1>11, ConcatProperties
  <2>2. Len(d.passed) > 0 => Len(d.tail) = TagSize
    BY DEF Held
  <2>3. ASSUME Len(d.passed \o out) > 0 PROVE Len(rest) = TagSize
    <3>1. CASE Len(d.passed) > 0
      <4>1. Len(buf) >= TagSize
        BY <1>2, <1>3, <1>4, <1>6, <2>2, <3>1
      <4> QED
        BY <1>2, <1>7, <1>9, <1>11, <4>1
    <3>2. CASE n > 0
      BY <1>2, <1>7, <1>9, <1>10, <1>11, <3>2
    <3> QED
      BY <1>2, <1>10, <2>1, <2>3, <3>1, <3>2
  <2>4. Len(rest) <= TagSize
    BY <1>9, <1>11
  <2> QED
    BY <1>0, <2>3, <2>4 DEF Held
<1>14. ((d.head \o b1) \o (d.passed \o out)) \o rest = ((d.head \o d.passed) \o d.tail) \o block
  <2>1. Len(b1) = 0 \/ (Len(d.passed) = 0 /\ Len(d.tail) = 0)
    BY <1>1, <1>2, <1>3, <1>4
  <2>2. PICK h, p, u \in Seq(S) : h = d.head /\ p = d.passed /\ u = d.tail
    BY <1>1
  <2>3. ((h \o b1) \o (p \o out)) \o rest = ((h \o p) \o u) \o block
    <3>1. PICK T : T = Seq(S)
      OBVIOUS
    <3>2. PICK c1, c2, o, e, w : c1 = b1 /\ c2 = b2 /\ o = out /\ e = rest /\ w = block
      OBVIOUS
    <3>3. /\ h \in T /\ p \in T /\ u \in T /\ w \in T
          /\ c1 \in T /\ c2 \in T /\ o \in T /\ e \in T
      BY <1>4, <1>11, <2>2, <3>1, <3>2
    <3>4. /\ Makes(T, c1, c2, w) /\ Makes(T, o, e, u \o c2)
      BY <1>5, <1>8, <1>12, <2>2, <3>1, <3>2, Zenon DEF Makes
    <3>5. Regroups(T) /\ Closed(T)
      BY <3>1, SequencesRegroup, Zenon
    <3>6. AddsNothing(T, c1) \/ (AddsNothing(T, p) /\ AddsNothing(T, u))
      <4>1. \A s \in T : Len(s) = 0 => AddsNothing(T, s)
        BY <3>1, SequencesRegroup, Zenon
      <4>2. Len(c1) = 0 \/ (Len(p) = 0 /\ Len(u) = 0)
        BY <2>1, <2>2, <3>2, Zenon
      <4> QED
        BY <3>3, <4>1, <4>2, Zenon
    <3>7. ((h \o c1) \o (p \o o)) \o e = ((h \o p) \o u) \o w
      <4>1. Updates(T, h, p, u, c1, c2, w, o, e)
        BY <3>3, <3>4, <3>5, <3>6 DEF Updates
      <4>2. Fits(h, p, u, c1, w, o, e)
        BY <4>1, Rejoined, Zenon
      <4> QED
        BY <4>2, Zenon DEF Fits
    <3> QED
      BY <3>2, <3>7, Zenon
  <2> QED
    BY <2>2, <2>3, Zenon
<1>15. Fed(Update(d, block)) = ((d.head \o b1) \o (d.passed \o out)) \o rest
  <2>1. /\ Update(d, block).head = d.head \o b1
        /\ Update(d, block).passed = d.passed \o out
        /\ Update(d, block).tail = rest
    BY <1>0
  <2> QED
    BY <2>1, Zenon DEF Fed
<1> QED
  BY <1>13, <1>14, <1>15, Zenon DEF Fed

\* Where the header, the body and the tag of a push are.
LEMMA BytesByPlace ==
  ASSUME NEW p \in Pushes
  PROVE  /\ Len(p.text) \in Nat /\ Len(Bytes(p)) = HeaderSize + Len(p.text) + TagSize
         /\ \A k \in 1..HeaderSize : Bytes(p)[k] = Header(p.salt)[k]
         /\ \A k \in 1..Len(p.text) : Bytes(p)[HeaderSize + k] = Body(p.salt, p.text)[k]
         /\ \A k \in 1..TagSize :
              Bytes(p)[HeaderSize + Len(p.text) + k] = Tag(p.salt, p.text)[k]
<1>1. PICK h, m, t : h = Header(p.salt) /\ m = Body(p.salt, p.text) /\ t = Tag(p.salt, p.text)
  OBVIOUS
<1>2. /\ h \in Seq(Byte) /\ Len(h) = HeaderSize
      /\ m \in Seq(Byte) /\ Len(m) = Len(p.text)
      /\ t \in Seq(Byte) /\ Len(t) = TagSize
  BY <1>1, PushTyped, HeaderBytes, BodyBytes, TagBytes
<1>3. PICK B : B = Byte
  OBVIOUS
<1>4. Bytes(p) = (h \o m) \o t
  BY <1>1 DEF Bytes, Ciphertext
<1>5. h \in Seq(B) /\ m \in Seq(B) /\ t \in Seq(B)
  BY <1>2, <1>3
<1>6. Len(h) \in Nat /\ Len(m) \in Nat /\ Len(t) \in Nat
  BY <1>5, LenProperties
<1>7. PICK hm : JoinOf(B, h, m, hm)
  BY <1>5, Joined, Zenon
<1>7a. hm \in Seq(B)
  BY <1>7 DEF JoinOf
<1>8. PICK all : JoinOf(B, hm, t, all)
  BY <1>5, <1>7a, Joined, Zenon
<1>9. all = Bytes(p)
  BY <1>4, <1>7, <1>8 DEF JoinOf
<1>10. Len(all) = Len(h) + Len(m) + Len(t)
  BY <1>6, <1>7, <1>8 DEF JoinOf
<1>11. \A k \in 1..Len(h) : all[k] = h[k]
  BY <1>6, <1>7, <1>8 DEF JoinOf
<1>12. \A k \in 1..Len(m) : all[Len(h) + k] = m[k]
  <2> TAKE k \in 1..Len(m)
  <2>1. PICK i \in Nat : i = Len(h) + k
    BY <1>6
  <2>2. i \in 1..Len(hm) /\ ~(i <= Len(h)) /\ i - Len(h) = k
    BY <1>6, <1>7, <2>1 DEF JoinOf
  <2>3. hm[i] = m[k] /\ all[i] = hm[i]
    BY <1>6, <1>7, <1>8, <2>2 DEF JoinOf
  <2> QED
    BY <2>1, <2>3
<1>13. \A k \in 1..Len(t) : all[Len(h) + Len(m) + k] = t[k]
  <2> TAKE k \in 1..Len(t)
  <2>1. PICK i \in Nat : i = Len(h) + Len(m) + k
    BY <1>6
  <2>2. i \in 1..(Len(hm) + Len(t)) /\ ~(i <= Len(hm)) /\ i - Len(hm) = k
    BY <1>6, <1>7, <2>1 DEF JoinOf
  <2>3. all[i] = t[k]
    BY <1>8, <2>2 DEF JoinOf
  <2> QED
    BY <2>1, <2>3
<1> QED
  BY <1>1, <1>2, <1>6, <1>9, <1>10, <1>11, <1>12, <1>13

\* What was fed is the front of the push, and rest is missing.
Lacks(d, p, rest) == Fed(d) \o rest = Bytes(p)
FrontOf(d, p) == \E rest \in Seq(Byte) : Lacks(d, p, rest)

\* Where the decryptor has the bytes of a push it was fed the front of.
LEMMA FrontByPlace ==
  ASSUME NEW p \in Pushes, NEW d \in Decryptor(Byte), NEW rest \in Seq(Byte),
         Lacks(d, p, rest)
  PROVE  /\ Len(d.head) + Len(d.passed) + Len(d.tail) + Len(rest) = Len(Bytes(p))
         /\ \A k \in 1..Len(d.head) : d.head[k] = Bytes(p)[k]
         /\ \A k \in 1..Len(d.passed) : d.passed[k] = Bytes(p)[Len(d.head) + k]
         /\ \A k \in 1..Len(d.tail) :
              d.tail[k] = Bytes(p)[Len(d.head) + Len(d.passed) + k]
<1>1. PICK B : B = Byte
  OBVIOUS
<1>2. PICK h, q, u \in Seq(B) : h = d.head /\ q = d.passed /\ u = d.tail
  BY <1>1 DEF Decryptor
<1>2a. h \in Seq(B) /\ q \in Seq(B) /\ u \in Seq(B)
  BY <1>1, <1>2
<1>3. Len(h) \in Nat /\ Len(q) \in Nat /\ Len(u) \in Nat /\ Len(rest) \in Nat
  BY <1>2, LenProperties
<1>4. PICK hq : JoinOf(B, h, q, hq)
  BY <1>2a, Joined, Zenon
<1>4a. hq \in Seq(B)
  BY <1>4 DEF JoinOf
<1>5. PICK fed : JoinOf(B, hq, u, fed)
  BY <1>2a, <1>4a, Joined, Zenon
<1>5a. fed \in Seq(B)
  BY <1>5 DEF JoinOf
<1>5b. PICK w \in Seq(B) : w = rest
  BY <1>1
<1>5c. w \in Seq(B)
  BY <1>5b
<1>6. PICK all : JoinOf(B, fed, w, all)
  BY <1>5a, <1>5c, Joined, Zenon
<1>7. all = Bytes(p)
  <2>1. Fed(d) = fed
    BY <1>2, <1>4, <1>5 DEF Fed, JoinOf
  <2> QED
    BY <1>5b, <1>6, <2>1 DEF Lacks, JoinOf
<1>8. \A i \in 1..Len(fed) : all[i] = fed[i]
  BY <1>3, <1>4, <1>5, <1>5b, <1>6 DEF JoinOf
<1>9. Len(h) + Len(q) + Len(u) + Len(rest) = Len(all)
  BY <1>3, <1>4, <1>5, <1>5b, <1>6 DEF JoinOf
<1>10. \A k \in 1..Len(h) : h[k] = all[k]
  BY <1>3, <1>4, <1>5, <1>8 DEF JoinOf
<1>11. \A k \in 1..Len(q) : q[k] = all[Len(h) + k]
  <2> TAKE k \in 1..Len(q)
  <2>1. PICK i \in Nat : i = Len(h) + k
    BY <1>3
  <2>2. i \in 1..Len(hq) /\ i \in 1..Len(fed) /\ ~(i <= Len(h)) /\ i - Len(h) = k
    BY <1>3, <1>4, <1>5, <2>1 DEF JoinOf
  <2>3. hq[i] = q[k] /\ fed[i] = hq[i]
    BY <1>3, <1>4, <1>5, <2>2 DEF JoinOf
  <2> QED
    BY <1>8, <2>1, <2>2, <2>3
<1>12. \A k \in 1..Len(u) : u[k] = all[Len(h) + Len(q) + k]
  <2> TAKE k \in 1..Len(u)
  <2>1. PICK i \in Nat : i = Len(h) + Len(q) + k
    BY <1>3
  <2>2. i \in 1..Len(fed) /\ ~(i <= Len(hq)) /\ i - Len(hq) = k
    BY <1>3, <1>4, <1>5, <2>1 DEF JoinOf
  <2>3. fed[i] = u[k]
    BY <1>3, <1>4, <1>5, <2>2 DEF JoinOf
  <2> QED
    BY <1>8, <2>1, <2>2, <2>3
<1> QED
  BY <1>2, <1>7, <1>9, <1>10, <1>11, <1>12

\* What comes of the front of a push is the front of its archive, and what comes
\* of all of it is all of it, under a tag that verifies.
LEMMA FrontPlain ==
  ASSUME NEW p \in Pushes, NEW d \in Decryptor(Byte), Held(d), FrontOf(d, p)
  PROVE  /\ Len(d.passed) <= Len(p.text)
         /\ \A k \in 1..Len(d.passed) : Plain(d, TRUE)[k] = p.text[k]
         /\ Fed(d) = Bytes(p) => Verifies(d, TRUE) /\ Plain(d, TRUE) = p.text
<1>1. PICK rest \in Seq(Byte) :
        Lacks(d, p, rest) /\ (Fed(d) = Bytes(p) => Len(rest) = 0)
  <2>1. CASE Fed(d) = Bytes(p)
    <3>1. Fed(d) \in Seq(Byte)
      BY <2>1, PushBytes
    <3>2. Fed(d) \o << >> = Fed(d) /\ << >> \in Seq(Byte) /\ Len(<< >>) = 0
      BY <3>1, ConcatEmptySeq, EmptySeq
    <3> QED
      BY <2>1, <3>2, Zenon DEF Lacks
  <2>2. CASE Fed(d) # Bytes(p)
    BY <2>2, Zenon DEF FrontOf
  <2> QED
    BY <2>1, <2>2
<1>2. /\ Len(d.head) + Len(d.passed) + Len(d.tail) + Len(rest) = Len(Bytes(p))
      /\ \A k \in 1..Len(d.head) : d.head[k] = Bytes(p)[k]
      /\ \A k \in 1..Len(d.passed) : d.passed[k] = Bytes(p)[Len(d.head) + k]
      /\ \A k \in 1..Len(d.tail) : d.tail[k] = Bytes(p)[Len(d.head) + Len(d.passed) + k]
  BY <1>1, FrontByPlace
<1>3. /\ Len(p.text) \in Nat /\ Len(Bytes(p)) = HeaderSize + Len(p.text) + TagSize
      /\ \A k \in 1..HeaderSize : Bytes(p)[k] = Header(p.salt)[k]
      /\ \A k \in 1..Len(p.text) : Bytes(p)[HeaderSize + k] = Body(p.salt, p.text)[k]
      /\ \A k \in 1..TagSize :
           Bytes(p)[HeaderSize + Len(p.text) + k] = Tag(p.salt, p.text)[k]
  BY BytesByPlace
<1>4. /\ d.head \in Seq(Byte) /\ d.passed \in Seq(Byte) /\ d.tail \in Seq(Byte)
      /\ Len(d.head) <= HeaderSize
      /\ Len(d.head) < HeaderSize => Len(d.passed) = 0 /\ Len(d.tail) = 0
      /\ Len(d.tail) <= TagSize
      /\ Len(d.passed) > 0 => Len(d.tail) = TagSize
  BY DEF Decryptor, Held
<1>5. /\ Len(d.head) \in Nat /\ Len(d.passed) \in Nat /\ Len(d.tail) \in Nat
      /\ Len(rest) \in Nat /\ HeaderSize \in Nat \ {0} /\ TagSize \in Nat \ {0}
  BY <1>4, LenProperties, CipherAssumption
<1>6. p.salt \in Nat /\ p.text \in Seq(STRING) /\ p.text # << >>
  BY PushTyped, PullAssumption
<1>7. Len(p.text) > 0
  BY <1>3, <1>6, EmptySeq
<1>8. /\ Header(p.salt) \in Seq(Byte) /\ Len(Header(p.salt)) = HeaderSize
      /\ \A j \in 1..HeaderSize : Header(p.salt)[j] = <<"header", p.salt, j, << >> >>
      /\ \A j \in 1..Len(p.text) :
           Body(p.salt, p.text)[j] = <<"body", p.salt, j, <<p.text[j]>> >>
      /\ Tag(p.salt, p.text) \in Seq(Byte) /\ Len(Tag(p.salt, p.text)) = TagSize
  BY <1>6, HeaderBytes, BodyBytes, TagBytes
<1>9. PICK a, b, c, r, n, hs, ts \in Nat :
        /\ a = Len(d.head) /\ b = Len(d.passed) /\ c = Len(d.tail) /\ r = Len(rest)
        /\ n = Len(p.text) /\ hs = HeaderSize /\ ts = TagSize
  BY <1>3, <1>5
<1>9a. a + b + c + r = hs + n + ts /\ n > 0 /\ hs > 0 /\ ts > 0
  <2>1. Len(d.head) + Len(d.passed) + Len(d.tail) + Len(rest) =
          HeaderSize + Len(p.text) + TagSize
    BY <1>2, <1>3, Zenon
  <2>2. a + b + c + r = hs + n + ts
    BY <1>9, <2>1, Zenon
  <2>3. hs # 0 /\ ts # 0 /\ n > 0
    BY <1>5, <1>7, <1>9
  <2> QED
    BY <2>2, <2>3
<1>9b. /\ a <= hs /\ (a < hs => b = 0 /\ c = 0) /\ c <= ts /\ (b > 0 => c = ts)
       /\ (Fed(d) = Bytes(p) => r = 0)
  BY <1>1, <1>4, <1>9
<1>9c. b <= n /\ (b > 0 => a = hs)
  BY <1>9a, <1>9b
<1>10. Len(d.head) = HeaderSize => d.head = Header(p.salt)
  <2> SUFFICES ASSUME Len(d.head) = HeaderSize PROVE d.head = Header(p.salt)
    OBVIOUS
  <2>1. \A k \in 1..HeaderSize : d.head[k] = Header(p.salt)[k]
    BY <1>2, <1>3
  <2> QED
    BY <1>4, <1>8, <2>1, SeqEqual
<1>11. \A k \in 1..Len(d.passed) : Plain(d, TRUE)[k] = p.text[k]
  <2> TAKE k \in 1..Len(d.passed)
  <2>1. Len(d.head) = HeaderSize /\ k \in 1..Len(p.text)
    BY <1>9, <1>9c
  <2>2. d.passed[k] = <<"body", p.salt, k, <<p.text[k]>> >>
    BY <1>2, <1>3, <1>8, <2>1
  <2>3. PICK w : w = <<p.text[k]>>
    OBVIOUS
  <2>4. /\ d.passed[k][1] = "body" /\ d.passed[k][2] = p.salt /\ d.passed[k][3] = k
        /\ d.passed[k][4][1] = p.text[k]
    <3>1. d.passed[k] = <<"body", p.salt, k, w>>
      BY <2>2, <2>3
    <3>2. d.passed[k][1] = "body" /\ d.passed[k][2] = p.salt /\ d.passed[k][3] = k
          /\ d.passed[k][4] = w
      BY <3>1
    <3>3. w[1] = p.text[k]
      BY <2>3
    <3> QED
      BY <3>2, <3>3
  <2>5. d.head = Header(d.passed[k][2])
    BY <1>10, <2>1, <2>4
  <2> QED
    BY <2>4, <2>5, Zenon DEF Plain
<1>12. ASSUME Fed(d) = Bytes(p)
       PROVE  Verifies(d, TRUE) /\ Plain(d, TRUE) = p.text
  <2>1. a = hs
    BY <1>9a, <1>9b, <1>12
  <2>2. Len(d.head) = HeaderSize
    BY <1>9, <2>1
  <2>3. Len(d.passed) = Len(p.text) /\ Len(d.tail) = TagSize
    <3>1. b = n /\ c = ts
      BY <1>9a, <1>9b, <1>12, <2>1
    <3> QED
      BY <1>9, <3>1
  <2>4. Plain(d, TRUE) = p.text
    <3>1. /\ Plain(d, TRUE) \in Seq(Letter) /\ Len(Plain(d, TRUE)) = Len(p.text)
      BY <2>3, PlainFacts
    <3>2. \A k \in 1..Len(p.text) : Plain(d, TRUE)[k] = p.text[k]
      BY <1>11, <2>3
    <3>3. p.text \in Seq(Letter \cup STRING) /\ Plain(d, TRUE) \in Seq(Letter \cup STRING)
      BY <1>6, <3>1, SeqMonotonic
    <3> QED
      BY <3>1, <3>2, <3>3, SeqEqual
  <2>5. d.tail = Tag(p.salt, p.text)
    <3>1. \A k \in 1..TagSize : d.tail[k] = Tag(p.salt, p.text)[k]
      BY <1>2, <1>3, <2>2, <2>3
    <3> QED
      BY <1>4, <1>8, <2>3, <3>1, SeqEqual
  <2>6. d.head = Header(p.salt)
    BY <1>10, <2>2
  <2>7. SaltOf(d) = p.salt
    <3>1. 1 \in 1..HeaderSize
      BY <1>5
    <3>2. d.head[1] = <<"header", p.salt, 1, << >> >>
      BY <1>8, <2>6, <3>1
    <3> QED
      BY <3>2 DEF SaltOf
  <2> QED
    BY <2>2, <2>3, <2>4, <2>5, <2>6, <2>7 DEF Verifies
<1> QED
  BY <1>9, <1>9c, <1>11, <1>12

-----------------------------------------------------------------------------
(* A sound pull.                                                           *)

\* tarfile only meets the end of an archive in its last read: pull_early_end shows
\* what happens otherwise.
SeenInLastRead ==
  \A p \in Pushes :
    /\ SeesEnd(p.text)
    /\ \A j \in Nat :
         (\E k \in 1..Len(p.text) : k <= 1 + j * Record /\ p.text[k] = Zero)
           => Len(p.text) <= 1 + j * Record

\* tarfile asks for one block and then for records.
Goals == \E j \in Nat : goal = 1 + j * Record

\* A run that failed has left the parts it had still to read.
StillThere == pc = "failed" => \A k \in at..Len(parts) : parts[k] \in DOMAIN dir

Steady == Held(dec) /\ Goals /\ StillThere

LEMMA WantedFacts ==
  ASSUME Types, Len(parts) > 0
  PROVE  Wanted \in Pushes
<1>1. parts[1] \in Name
  BY LenProperties, ElementOfSeq DEF Types, Listed
<1>2. PICK p \in Pushes : parts[1] \in DOMAIN PartFiles(p)
  BY <1>1 DEF Name
<1>3. parts[1].label = p.label
  BY <1>2, NameFacts
<1> QED
  BY <1>3, PullAssumption DEF Wanted, PushOf

LEMMA SteadyInit == Init => Steady
<1> SUFFICES ASSUME Init PROVE Steady
  OBVIOUS
<1>1. Held(dec)
  BY EmptySeq, CipherAssumption DEF Init, Held, NewDecryptor
<1>2. Goals
  <2>1. 1 = 1 + 0 * Record
    BY PullAssumption
  <2> QED
    BY <2>1 DEF Init, Goals
<1>3. StillThere
  BY DEF Init, StillThere
<1> QED
  BY <1>1, <1>2, <1>3 DEF Steady

LEMMA HeldStep ==
  ASSUME Types, Held(dec), [Next]_vars
  PROVE  Held(dec)'
<1>1. CASE FeedBlock
  <2>1. PICK block \in Seq(Byte) : dec' = Update(dec, block)
    BY <1>1, FeedFacts, Zenon
  <2>2. dec \in Decryptor(Byte)
    BY DEF Types, Texts
  <2>3. Held(Update(dec, block))
    BY <2>2, FedGrows
  <2>4. Held(dec')
    BY <2>1, <2>3
  <2> QED
    BY <2>4 DEF Held
<1>2. CASE Begin \/ Refuse
  <2>1. dec' = NewDecryptor
    BY <1>2 DEF Begin, Refuse
  <2> QED
    BY <2>1, EmptySeq, CipherAssumption DEF Held, NewDecryptor
<1>3. CASE ~(FeedBlock \/ Begin \/ Refuse)
  <2>1. dec' = dec
    BY <1>3 DEF Next, Main, Feeder, Environment, Iterate, FinishPart, FinishReading,
       MoveOutput, Take, Look, CloseReader, Join, Pour, BrokenPipe, CloseWriter,
       WriteFails, MoveFails, ExtractFails, Crash, Download, vars, reading
  <2> QED
    BY <2>1 DEF Held
<1> QED
  BY <1>1, <1>2, <1>3

LEMMA GoalsStep ==
  ASSUME Goals, [Next]_vars
  PROVE  Goals'
<1>1. PICK j \in Nat : goal = 1 + j * Record
  BY DEF Goals
<1>2. goal' \in {goal, goal + Record, 1}
  BY DEF Next, Main, Feeder, Environment, Iterate, FeedBlock, FinishPart, FinishReading,
     Begin, Refuse, MoveOutput, Take, Look, CloseReader, Join, Pour, BrokenPipe, CloseWriter,
     WriteFails, MoveFails, ExtractFails, Crash, Download, vars, extracting
<1>3. goal + Record = 1 + (j + 1) * Record /\ 1 = 1 + 0 * Record /\ j + 1 \in Nat
  <2>1. PICK r \in Nat : r = Record
    BY PullAssumption
  <2>2. (1 + j * r) + r = 1 + (j + 1) * r /\ 1 = 1 + 0 * r
    OBVIOUS
  <2> QED
    BY <1>1, <2>1, <2>2
<1> QED
  BY <1>1, <1>2, <1>3 DEF Goals

LEMMA StillThereStep ==
  ASSUME Types, StillThere, [Next]_vars
  PROVE  StillThere'
<1>0. Modes /\ Listed
  BY DEF Types
<1>1. CASE Refuse
  <2>1. Len(parts') = 0 /\ at' = 1
    BY <1>1, EmptySeq DEF Refuse
  <2> QED
    BY <2>1 DEF StillThere
<1>2. CASE Download
  <2>1. PICK n : DOMAIN dir' = DOMAIN dir \cup {n}
    BY <1>2 DEF Download
  <2>2. UNCHANGED <<parts, at, pc>>
    BY <1>2 DEF Download, reading
  <2> QED
    BY <2>1, <2>2 DEF StillThere
<1>3. CASE ~(Refuse \/ Download)
  <2>1. pc' = "failed" => (pc = "failed" \/ ~AtRest) /\ UNCHANGED <<parts, at, dir>>
    BY <1>0, <1>3 DEF Modes, Next, Main, Feeder, Environment, Iterate, FeedBlock, FinishPart,
       FinishReading, Iterating, Begin, MoveOutput, Take, Look, CloseReader, Join, Pour,
       BrokenPipe, CloseWriter, WriteFails, MoveFails, ExtractFails, Crash, vars, reading,
       AtRest
  <2> QED
    BY <1>0, <2>1 DEF StillThere, Listed
<1> QED
  BY <1>1, <1>2, <1>3

LEMMA SteadyStep ==
  ASSUME Types, Steady, [Next]_vars
  PROVE  Steady'
BY HeldStep, GoalsStep, StillThereStep DEF Steady

\* What was read is not the front of the push, or not all of it although nothing is
\* left to read.
Astray ==
  \/ ~FrontOf(dec, Wanted)
  \/ at > Len(parts) /\ Fed(dec) # Bytes(Wanted)

\* A run the program has no reason to fail: it sees the push so far.
Untroubled == opt.right /\ met["refusal"] = 0 /\ Len(parts) > 0 /\ ~Astray

\* What then holds until it is done: the feeder gets to the end without an error,
\* and tarfile leaves only when everything has been decrypted and handed over.
GoesWell ==
  /\ pc # "failed"
  /\ pc \in {"extract", "leave", "join"} =>
       /\ feeder \in {"feeding", "closing", "ended"}
       /\ feeder # "feeding" => at > Len(parts)
       /\ ~bailed
  /\ pc \in {"leave", "join"} => Len(pend) = 0 /\ Plain(dec, TRUE) = Wanted.text

Healthy == Untroubled => GoesWell

\* A run does not come back from what it should not have read.
LEMMA StaysAstray ==
  ASSUME Types, Held(dec), FeedBlock, FrontOf(dec, Wanted)'
  PROVE  FrontOf(dec, Wanted)
<1>1. PICK block \in Seq(Byte) : dec' = Update(dec, block)
  BY FeedFacts, Zenon
<1>2. Wanted' = Wanted
  BY DEF FeedBlock, Wanted
<1>3. PICK rest \in Seq(Byte) : Lacks(dec', Wanted, rest)
  BY <1>2 DEF FrontOf, Lacks
<1>4. Fed(Update(dec, block)) = Fed(dec) \o block
  BY FedGrows DEF Types, Texts
<1>5. PICK B, f, all : B = Byte /\ f = Fed(dec) /\ all = Bytes(Wanted)
  OBVIOUS
<1>6. f \in Seq(B)
  <2>1. dec.head \in Seq(B) /\ dec.passed \in Seq(B) /\ dec.tail \in Seq(B)
    BY <1>5 DEF Types, Texts, Decryptor
  <2>2. dec.head \o dec.passed \in Seq(B)
    BY <2>1, ConcatProperties
  <2>3. (dec.head \o dec.passed) \o dec.tail \in Seq(B)
    BY <2>1, <2>2, ConcatProperties
  <2> QED
    BY <1>5, <2>3 DEF Fed
<1>7. (f \o block) \o rest = all
  BY <1>1, <1>3, <1>4, <1>5, Zenon DEF Lacks
<1>8. block \in Seq(B) /\ rest \in Seq(B)
  BY <1>1, <1>3, <1>5
<1>9. block \o rest \in Seq(B) /\ (f \o block) \o rest = f \o (block \o rest)
  BY <1>6, <1>8, ConcatProperties, ConcatAssociative
<1>10. f \o (block \o rest) = all
  BY <1>7, <1>9, Zenon
<1> QED
  BY <1>5, <1>9, <1>10, Zenon DEF FrontOf, Lacks

\* What a run that sees the push so far has decrypted.
LEMMA DecryptedSoFar ==
  ASSUME Types, Held(dec), opt.right, Len(parts) > 0, ~Astray
  PROVE  /\ Wanted \in Pushes /\ Wanted.text \in Seq(STRING)
         /\ Plain(dec, TRUE) \in Seq(Letter)
         /\ Len(Plain(dec, TRUE)) <= Len(Wanted.text)
         /\ \A k \in 1..Len(Plain(dec, TRUE)) : Plain(dec, TRUE)[k] = Wanted.text[k]
         /\ at > Len(parts) => Verifies(dec, TRUE) /\ Plain(dec, TRUE) = Wanted.text
<1>1. Wanted \in Pushes /\ dec \in Decryptor(Byte)
  BY WantedFacts DEF Types, Texts
<1>2. FrontOf(dec, Wanted) /\ (at > Len(parts) => Fed(dec) = Bytes(Wanted))
  BY DEF Astray
<1>3. PICK p \in Pushes : p = Wanted
  BY <1>1
<1>4. /\ Len(dec.passed) <= Len(p.text)
      /\ \A k \in 1..Len(dec.passed) : Plain(dec, TRUE)[k] = p.text[k]
      /\ Fed(dec) = Bytes(p) => Verifies(dec, TRUE) /\ Plain(dec, TRUE) = p.text
  <2>1. FrontOf(dec, p)
    BY <1>2, <1>3
  <2> QED
    BY <1>1, <2>1, FrontPlain
<1>5. Plain(dec, TRUE) \in Seq(Letter) /\ Len(Plain(dec, TRUE)) = Len(dec.passed)
  BY <1>1, PlainFacts
<1> QED
  BY <1>1, <1>2, <1>3, <1>4, <1>5, PushTyped

\* When tarfile stops reading an archive that goes well, it has been fed all of it.
LEMMA LeavesAtEnd ==
  ASSUME SeenInLastRead, Types, Flow, Steady, Untroubled, GoesWell, Look, pc' = "leave"
  PROVE  Len(pend) = 0 /\ Plain(dec, TRUE) = Wanted.text /\ ~bailed'
<1>1. PICK text, all : text = Plain(dec, TRUE) /\ all = Wanted.text
  OBVIOUS
<1>2. opt.right = TRUE /\ Len(parts) > 0 /\ ~Astray /\ Held(dec)
  BY DEF Untroubled, Steady, Types, Modes, Options
<1>3. /\ Wanted \in Pushes /\ all \in Seq(STRING) /\ text \in Seq(Letter)
      /\ Len(text) <= Len(all) /\ \A k \in 1..Len(text) : text[k] = all[k]
      /\ at > Len(parts) => text = all
  BY <1>1, <1>2, DecryptedSoFar
<1>4. /\ pc = "extract" /\ feeder \in {"feeding", "closing", "ended"}
      /\ feeder # "feeding" => at > Len(parts)
      /\ ~bailed
  BY DEF Look, GoesWell
<1>5. PICK rest \in Seq(Letter) : taken \o rest = text /\ rest = pipe \o pend
  <2>1. feeder # "failed"
    BY <1>4
  <2>2. (taken \o pipe) \o pend = text
    BY <1>1, <1>2, <1>4, <2>1, Zenon DEF Flow
  <2>3. taken \in Seq(Letter) /\ pipe \in Seq(Letter) /\ pend \in Seq(Letter)
    BY DEF Types, Texts
  <2>4. pipe \o pend \in Seq(Letter) /\ (taken \o pipe) \o pend = taken \o (pipe \o pend)
    BY <2>3, ConcatProperties, ConcatAssociative
  <2> QED
    BY <2>2, <2>4, Zenon
<1>6. AtEof => Len(pend) = 0 /\ text = all /\ taken = text
  <2> SUFFICES ASSUME AtEof PROVE Len(pend) = 0 /\ text = all /\ taken = text
    OBVIOUS
  <2>1. feeder = "ended"
    BY <1>4 DEF AtEof
  <2>2. Len(pend) = 0 /\ at > Len(parts)
    BY <1>4, <2>1 DEF Types, Modes
  <2>3. feeder # "failed" /\ pc = "extract"
    BY <1>4, <2>1
  <2>4. taken = Plain(dec, opt.right)
    BY <2>3, ReadIsFront
  <2> QED
    BY <1>1, <1>2, <1>3, <2>2, <2>4
<1>7. /\ taken \in Seq(Letter) /\ Len(taken) \in Nat /\ Len(rest) \in Nat
      /\ Len(text) = Len(taken) + Len(rest) /\ DOMAIN taken = 1..Len(taken)
      /\ \A k \in 1..Len(taken) : text[k] = taken[k]
  <2>1. taken \in Seq(Letter) /\ rest \in Seq(Letter)
    BY <1>5 DEF Types, Texts
  <2>2. PICK tr : JoinOf(Letter, taken, rest, tr)
    BY <2>1, Joined, Zenon
  <2>3. tr = text
    BY <1>5, <2>2 DEF JoinOf
  <2>4. Len(taken) \in Nat /\ Len(rest) \in Nat /\ DOMAIN taken = 1..Len(taken)
    BY <2>1, LenProperties
  <2> QED
    BY <2>1, <2>2, <2>3, <2>4 DEF JoinOf
<1>8. Len(text) \in Nat /\ Len(all) \in Nat
  BY <1>3, LenProperties
<1>9. \A k \in 1..Len(taken) : k \in 1..Len(all) /\ taken[k] = all[k]
  BY <1>3, <1>7, <1>8
<1>10. SeesEnd(taken)
  <2>1. SeesEnd(taken) \/ AtEof \/ \E k \in DOMAIN taken : taken[k] = Garbage
    BY <1>4 DEF Look
  <2>2. \A k \in 1..Len(all) : all[k] # Garbage
    BY <1>1, <1>3, PullAssumption
  <2>3. AtEof => SeesEnd(taken)
    <3>1. SeesEnd(all)
      BY <1>1, <1>3 DEF SeenInLastRead
    <3> QED
      BY <1>6, <3>1
  <2> QED
    BY <1>7, <1>9, <2>1, <2>2, <2>3
<1>11. ~bailed'
  BY <1>4, <1>10 DEF Look
<1>12. CASE Len(taken) = goal
  <2>1. PICK j \in Nat : goal = 1 + j * Record
    BY DEF Steady, Goals
  <2>2. PICK k \in 1..Len(taken) : taken[k] = Zero
    BY <1>7, <1>10 DEF SeesEnd
  <2>3. k \in 1..Len(all) /\ all[k] = Zero /\ k <= 1 + j * Record
    <3>1. k <= goal
      BY <1>7, <1>12, <2>2
    <3> QED
      BY <1>9, <2>1, <2>2, <3>1
  <2>4. Len(all) <= 1 + j * Record
    BY <1>1, <1>3, <2>1, <2>3 DEF SeenInLastRead
  <2>5. Len(all) <= Len(taken)
    BY <1>12, <2>1, <2>4
  <2>6. Len(text) = Len(all) /\ Len(rest) = 0
    BY <1>3, <1>7, <1>8, <2>5
  <2>7. text = all
    <3>1. text \in Seq(Letter \cup STRING) /\ all \in Seq(Letter \cup STRING)
      BY <1>3, SeqMonotonic
    <3> QED
      BY <1>3, <2>6, <3>1, SeqEqual
  <2>8. Len(pend) = 0
    <3>1. pipe \in Seq(Letter) /\ pend \in Seq(Letter)
      BY DEF Types, Texts
    <3>2. Len(rest) = Len(pipe) + Len(pend) /\ Len(pipe) \in Nat /\ Len(pend) \in Nat
      BY <1>5, <3>1, ConcatProperties, LenProperties
    <3>3. PICK m, n \in Nat : m = Len(pipe) /\ n = Len(pend) /\ m + n = 0
      BY <2>6, <3>2
    <3> QED
      BY <3>3
  <2> QED
    BY <1>1, <1>11, <2>7, <2>8
<1>13. CASE AtEof
  BY <1>1, <1>6, <1>11, <1>13
<1> QED
  BY <1>12, <1>13 DEF Look

LEMMA HealthyStep ==
  ASSUME SeenInLastRead, Types, Flow, Steady, Healthy, [Next]_vars, Types'
  PROVE  Healthy'
<1> SUFFICES ASSUME Untroubled' PROVE GoesWell'
  BY DEF Healthy
<1>0. Modes /\ Listed /\ Len(parts) \in Nat
  BY LenProperties DEF Types, Listed
<1>1. CASE Begin
  BY <1>1 DEF Begin, GoesWell
<1>2. CASE Refuse
  BY <1>2, EmptySeq DEF Refuse, Untroubled
<1>3. CASE WriteFails \/ MoveFails \/ ExtractFails
  <2>1. met["refusal"] \in Nat
    BY DEF Types, Flags, Mishaps
  <2>2. met' = [met EXCEPT !["refusal"] = @ + 1]
    BY <1>3 DEF WriteFails, MoveFails, ExtractFails, Meet
  <2>3. met'["refusal"] = met["refusal"] + 1
    BY <2>2 DEF Types, Flags, Mishaps
  <2> QED
    BY <2>1, <2>3 DEF Untroubled
<1>4. CASE FeedBlock
  <2>1. /\ UNCHANGED <<opt, pc, parts, at, feeder, bailed, met>>
        /\ at \in 1..Len(parts) /\ ~(at > Len(parts))
    BY <1>0, <1>4, FeedFacts DEF FeedBlock
  <2>2. FrontOf(dec, Wanted)' /\ opt.right /\ Len(parts) > 0 /\ met["refusal"] = 0
    BY <2>1 DEF Untroubled, Astray
  <2>3. FrontOf(dec, Wanted)
    BY <1>4, <2>2, StaysAstray DEF Steady
  <2>4. GoesWell
    BY <2>1, <2>2, <2>3 DEF Healthy, Untroubled, Astray
  <2>5. pc' \in {"leave", "join"} => Len(pend') = 0 /\ Plain(dec', TRUE) = Wanted'.text
    <3> SUFFICES ASSUME pc \in {"leave", "join"}
                 PROVE  Len(pend') = 0 /\ Plain(dec', TRUE) = Wanted'.text
      BY <2>1
    <3>1. PICK out \in Seq(Letter) :
            /\ Plain(dec', opt.right) = Plain(dec, opt.right) \o out
            /\ IF opt.extract
                 THEN pend' = pend \o out /\ UNCHANGED blob
                 ELSE blob' = blob \o out /\ UNCHANGED pend
      BY <1>4, FeedFacts, Zenon
    <3>2. opt.right = TRUE /\ opt.extract
      BY <1>0, <2>2 DEF Modes, Options
    <3>3. Len(pend) = 0 /\ Plain(dec, TRUE) = Wanted.text
      BY <2>4 DEF GoesWell
    <3>4. Len(Plain(dec', TRUE)) <= Len(Wanted'.text)
      <4>1. dec' \in Decryptor(Byte) /\ Held(dec)'
        BY HeldStep DEF Types, Texts, Steady
      <4>2. Wanted' = Wanted /\ Wanted \in Pushes
        BY <2>1, <2>2, WantedFacts DEF Wanted
      <4>3. PICK d, p : d = dec' /\ p = Wanted
        OBVIOUS
      <4>4. d \in Decryptor(Byte) /\ p \in Pushes /\ Held(d) /\ FrontOf(d, p)
        BY <2>2, <4>1, <4>2, <4>3 DEF Held, FrontOf, Lacks
      <4>5. Len(d.passed) <= Len(p.text)
        BY <4>4, FrontPlain
      <4>6. Len(Plain(d, TRUE)) = Len(d.passed)
        BY <4>4, PlainFacts
      <4> QED
        BY <4>2, <4>3, <4>5, <4>6
    <3>5. Wanted'.text = Wanted.text /\ Wanted.text \in Seq(Letter)
      <4>1. Wanted' = Wanted /\ Plain(dec, TRUE) \in Seq(Letter)
        BY <2>1, PlainFacts DEF Wanted, Types, Texts
      <4> QED
        BY <3>3, <4>1
    <3>6. PICK text \in Seq(Letter) : text = Wanted.text
      BY <3>5
    <3>7. Plain(dec', TRUE) = text \o out
      BY <3>1, <3>2, <3>3, <3>6
    <3>8. Len(out) = 0
      <4>1. Len(text \o out) <= Len(text)
        BY <3>4, <3>5, <3>6, <3>7
      <4>2. Len(text \o out) = Len(text) + Len(out) /\ Len(text) \in Nat /\ Len(out) \in Nat
        BY <3>1, <3>6, ConcatProperties, LenProperties
      <4> QED
        BY <4>1, <4>2
    <3>9. out = << >>
      BY <3>1, <3>8, EmptySeq
    <3>10. text \o << >> = text /\ pend \o << >> = pend
      BY <3>6, ConcatEmptySeq DEF Types, Texts
    <3> QED
      BY <3>1, <3>2, <3>3, <3>5, <3>6, <3>7, <3>9, <3>10, Zenon
  <2> QED
    BY <2>1, <2>4, <2>5, Zenon DEF GoesWell
<1>5. CASE FinishPart
  <2>1. /\ UNCHANGED <<opt, pc, parts, dec, feeder, pend, bailed, met>>
        /\ at <= Len(parts) /\ at' = at + 1
    BY <1>5 DEF FinishPart, extracting
  <2>2. Untroubled
    <3>1. Wanted' = Wanted
      BY <2>1 DEF Wanted
    <3>2. ~(at > Len(parts))
      BY <1>0, <2>1 DEF Listed
    <3>3. FrontOf(dec, Wanted)' => FrontOf(dec, Wanted)
      BY <2>1, <3>1 DEF FrontOf, Lacks
    <3> QED
      BY <2>1, <3>2, <3>3 DEF Untroubled, Astray
  <2>3. at > Len(parts) => at' > Len(parts)
    BY <1>0, <2>1 DEF Listed
  <2> QED
    BY <2>1, <2>2, <2>3 DEF Healthy, GoesWell, Wanted
<1>6. CASE ~(Begin \/ Refuse \/ WriteFails \/ MoveFails \/ ExtractFails \/ FeedBlock
               \/ FinishPart)
  <2>1. UNCHANGED <<opt, parts, at, dec, met["refusal"]>>
    BY <1>6 DEF Next, Main, Feeder, Environment, Iterate, FinishReading,
       MoveOutput, Take, Look, CloseReader, Join, Pour, BrokenPipe, CloseWriter,
       Crash, Download, Meet, vars, reading, Types, Flags, Mishaps
  <2>2. Untroubled /\ Wanted' = Wanted
    BY <2>1 DEF Untroubled, Astray, FrontOf, Lacks, Wanted
  <2>3. GoesWell
    BY <2>2 DEF Healthy
  <2>4. opt.right = TRUE
    BY <1>0, <2>2 DEF Untroubled, Modes, Options
  <2>4a. Plain(dec', TRUE) = Plain(dec, TRUE) /\ Wanted'.text = Wanted.text
    BY <2>1, <2>2
  <2>5. CASE FinishReading
    <3>1. Verifies(dec, opt.right)
      <4>1. at > Len(parts)
        BY <2>5 DEF FinishReading
      <4> QED
        BY <2>2, <2>4, <4>1, DecryptedSoFar DEF Untroubled, Steady
    <3>2. at > Len(parts)
      BY <2>5 DEF FinishReading
    <3>3. UNCHANGED <<pend, bailed>> /\ pc' \in {pc, "finalize"} /\ (pc' = pc => feeder' = "closing" \/ feeder' = feeder)
      BY <2>5, <3>1 DEF FinishReading
    <3> QED
      BY <2>1, <2>2, <2>3, <3>2, <3>3 DEF GoesWell
  <2>6. CASE Look
    <3>1. pc = "extract" /\ pc' \in {"extract", "leave"} /\ UNCHANGED <<feeder, pend>>
          /\ (pc' = "extract" => bailed' = bailed)
      BY <2>6 DEF Look
    <3>2. pc' = "leave" => Len(pend) = 0 /\ Plain(dec, TRUE) = Wanted.text /\ ~bailed'
      BY <2>2, <2>3, <2>6, LeavesAtEnd
    <3>3. pc' \in {"leave", "join"} => Len(pend') = 0 /\ Plain(dec', TRUE) = Wanted'.text
      BY <2>4a, <3>1, <3>2
    <3>4. pc' \in {"extract", "leave", "join"} =>
            /\ feeder' \in {"feeding", "closing", "ended"}
            /\ feeder' # "feeding" => at' > Len(parts')
            /\ ~bailed'
      BY <2>1, <2>3, <3>1, <3>2 DEF GoesWell
    <3> QED
      BY <3>1, <3>3, <3>4 DEF GoesWell
  <2>7. CASE Pour
    <3>1. pc = "extract" /\ UNCHANGED <<pc, feeder, bailed>>
      <4>1. pend # << >> /\ pc \in {"extract", "leave"} /\ UNCHANGED <<pc, feeder, bailed>>
        BY <2>7 DEF Pour, ReaderOpen
      <4>2. Len(pend) # 0
        BY <4>1, EmptySeq DEF Types, Texts
      <4> QED
        BY <2>3, <4>1, <4>2 DEF GoesWell
    <3> QED
      BY <2>1, <2>2, <2>3, <3>1 DEF GoesWell
  <2>8. CASE BrokenPipe
    <3>1. pend # << >> /\ pc = "join"
      BY <1>0, <2>8 DEF BrokenPipe, ReaderOpen, Writing, Modes
    <3>2. Len(pend) # 0
      BY <3>1, EmptySeq DEF Types, Texts
    <3> QED
      BY <2>3, <3>1, <3>2 DEF GoesWell
  <2>9. CASE CloseWriter
    BY <2>1, <2>2, <2>3, <2>9, <1>0 DEF CloseWriter, GoesWell, Modes
  <2>10. CASE Take \/ CloseReader \/ Join \/ MoveOutput \/ Crash \/ Download \/ UNCHANGED vars
    <3>1. pc' \in {"extract", "leave", "join"} =>
            /\ UNCHANGED <<feeder, bailed, pend>>
            /\ \/ pc' = "extract" /\ pc = "extract"
               \/ pc' # "extract" /\ pc \in {"leave", "join"}
      BY <2>10 DEF Take, CloseReader, Join, MoveOutput, Crash, Download, vars,
         extracting, AtRest
    <3>2. pc' # "failed"
      BY <2>3, <2>10 DEF Take, CloseReader, Join, MoveOutput, Crash, Download, vars,
         GoesWell
    <3>3. pc' \in {"leave", "join"} => Len(pend') = 0 /\ Plain(dec', TRUE) = Wanted'.text
      BY <2>3, <2>4a, <3>1 DEF GoesWell
    <3>4. pc' \in {"extract", "leave", "join"} =>
            /\ feeder' \in {"feeding", "closing", "ended"}
            /\ feeder' # "feeding" => at' > Len(parts')
            /\ ~bailed'
      BY <2>1, <2>3, <3>1 DEF GoesWell
    <3> QED
      BY <3>2, <3>3, <3>4 DEF GoesWell
  <2> QED
    BY <1>6, <2>5, <2>6, <2>7, <2>8, <2>9, <2>10
       DEF Next, Main, Feeder, Environment, Iterate
<1> QED
  BY <1>1, <1>2, <1>3, <1>4, <1>5, <1>6

NatLess == {p \in Nat \X Nat : p[1] < p[2]}

\* A set of naturals has a least element.
LEMMA LeastNatural ==
  ASSUME NEW S \in SUBSET Nat, S # {}
  PROVE  \E x \in S : \A y \in S : x <= y
<1>1. OpToRel(<, Nat) = NatLess
  BY Zenon DEF OpToRel, NatLess
<1>2. IsWellFoundedOn(NatLess, Nat)
  BY <1>1, NatLessThanWellFounded, Zenon
<1>3. PICK x \in S : \A y \in S : ~(<<y, x>> \in NatLess)
  BY <1>2, WFMin
<1>4. \A y \in S : ~(y < x)
  BY <1>3 DEF NatLess
<1> QED
  BY <1>3, <1>4

\* A function that says at each argument up to n how it goes on at the next, and
\* is empty beyond, is there, so Unread's recursive definition defines something.
LEMMA RunsDown ==
  ASSUME NEW u, NEW n \in Nat
  PROVE  \E f : f = [k \in Nat |-> IF k > n THEN << >> ELSE u[k] \o f[k + 1]]
<1> DEFINE Step(f, k) == IF k > n THEN << >> ELSE u[k] \o f[k + 1]
           Runs(f, m) == \A k \in Nat : k + m > n => f[k] = Step(f, k)
           bad == {m \in Nat : m <= n + 1 /\ ~\E f : Runs(f, m)}
<1>1. bad = {}
  <2> SUFFICES ASSUME bad # {} PROVE FALSE
    OBVIOUS
  <2>1. PICK m \in bad : \A y \in bad : m <= y
    <3>1. bad \in SUBSET Nat
      OBVIOUS
    <3> HIDE DEF bad
    <3> QED
      BY <3>1, LeastNatural
  <2>2. m \in Nat /\ m <= n + 1 /\ ~\E f : Runs(f, m)
    BY <2>1
  <2>3. m # 0
    <3> DEFINE f == [k \in Nat |-> << >>]
    <3>1. Runs(f, 0)
      OBVIOUS
    <3> HIDE DEF f, Runs
    <3> QED
      BY <2>2, <3>1
  <2>4. m - 1 \in Nat /\ m - 1 \notin bad
    <3> HIDE DEF bad
    <3>1. m - 1 \in Nat /\ ~(m <= m - 1)
      BY <2>2, <2>3
    <3> QED
      BY <2>1, <3>1
  <2>5. PICK f : Runs(f, m - 1)
    BY <2>2, <2>4
  <2>6. PICK z \in Nat : z = n + 1 - m
    BY <2>2
  <2> DEFINE last == u[z] \o f[z + 1]
             g == [k \in Nat |-> IF k = z THEN last ELSE f[k]]
  <2>7. ASSUME NEW k \in Nat, k + m > n
        PROVE  g[k] = Step(g, k)
    <3>1. k + 1 \in Nat /\ k + 1 # z /\ k >= z /\ z <= n
      BY <2>2, <2>3, <2>6, <2>7
    <3>2. g[k + 1] = f[k + 1]
      BY <3>1
    <3>3. CASE k = z
      <4>1. g[k] = last
        BY <3>3
      <4>1a. ~(k > n)
        BY <3>1, <3>3
      <4> HIDE DEF g
      <4>2. u[z] \o f[z + 1] = u[k] \o g[k + 1]
        BY <3>2, <3>3, Zenon
      <4>3. g[k] = u[k] \o g[k + 1]
        BY <4>1, <4>2, Zenon
      <4> QED
        BY <4>1a, <4>3
    <3>4. CASE k # z
      <4>1. g[k] = f[k]
        BY <3>4
      <4>2. k + (m - 1) > n
        BY <2>2, <2>6, <3>1, <3>4
      <4>3. f[k] = Step(f, k)
        BY <2>5, <4>2
      <4> HIDE DEF g
      <4> QED
        BY <3>2, <4>1, <4>3
    <3> QED
      BY <3>3, <3>4
  <2>8. Runs(g, m)
    <3> HIDE DEF g
    <3> QED
      BY <2>7
  <2> QED
    BY <2>2, <2>8
<1>2. PICK f : Runs(f, n + 1)
  <2>1. n + 1 \in Nat /\ n + 1 <= n + 1 /\ n + 1 \notin bad
    <3> HIDE DEF bad
    <3> QED
      BY <1>1
  <2> HIDE DEF Runs
  <2> QED
    BY <2>1
<1> DEFINE g == [k \in Nat |-> f[k]]
<1>3. \A k \in Nat : g[k] = Step(g, k)
  <2> TAKE k \in Nat
  <2>1. f[k] = Step(f, k)
    <3>1. k + (n + 1) > n
      OBVIOUS
    <3> QED
      BY <1>2, <3>1
  <2>2. g[k] = f[k] /\ g[k + 1] = f[k + 1]
    OBVIOUS
  <2> HIDE DEF g
  <2> QED
    BY <2>1, <2>2
<1>4. g = [k \in Nat |-> Step(g, k)]
  <2>1. g = [k \in Nat |-> g[k]]
    OBVIOUS
  <2> HIDE DEF g
  <2> QED
    BY <1>3, <2>1
<1> HIDE DEF g
<1> QED
  BY <1>4

\* What is left to read of a part.
Left(k) ==
  SubSeq(dir[parts[k]], IF k = at THEN offset + 1 ELSE 1, Len(dir[parts[k]]))

LEMMA UnreadSteps ==
  ASSUME Len(parts) \in Nat
  PROVE  \A k \in Nat : Unread[k] = IF k > Len(parts) THEN << >> ELSE Left(k) \o Unread[k + 1]
<1> DEFINE Next1(f) == f = [k \in Nat |-> IF k > Len(parts) THEN << >> ELSE Left(k) \o f[k + 1]]
           u == [k \in Nat |-> Left(k)]
<1>1. \E f : Next1(f)
  <2>1. PICK f : f = [k \in Nat |-> IF k > Len(parts) THEN << >> ELSE u[k] \o f[k + 1]]
    BY RunsDown
  <2>2. \A k \in Nat : u[k] = Left(k)
    OBVIOUS
  <2> HIDE DEF u
  <2>3. Next1(f)
    BY <2>1, <2>2
  <2> QED
    BY <2>3
<1>2. Unread = CHOOSE f : Next1(f)
  BY Zenon DEF Unread, Left
<1>3. Next1(Unread)
  <2> HIDE DEF Next1
  <2> QED
    BY <1>1, <1>2
<1> QED
  BY <1>3

LEMMA UnreadType ==
  ASSUME Types, \A k \in at..Len(parts) : parts[k] \in DOMAIN dir
  PROVE  Unread[at] \in Seq(Byte) /\ (at > Len(parts) => Unread[at] = << >>)
<1>1. Len(parts) \in Nat /\ at \in Nat /\ at <= Len(parts) + 1 /\ at > 0 /\ offset \in Nat
  BY LenProperties DEF Types, Listed
<1>2. \A k \in Nat : Unread[k] = IF k > Len(parts) THEN << >> ELSE Left(k) \o Unread[k + 1]
  BY <1>1, UnreadSteps
<1>3. ASSUME NEW k \in at..Len(parts)
      PROVE  Left(k) \in Seq(Byte)
  <2>1. PICK b \in Seq(Byte) : b = dir[parts[k]]
    BY DEF Types, Files
  <2>2. PICK o \in Nat : o = IF k = at THEN offset ELSE 0
    BY <1>1
  <2>3. Len(b) \in Nat /\ \A j \in 1..Len(b) : b[j] \in Byte
    BY <2>1, LenProperties, ElementOfSeq
  <2>4. o + 1 \in Int /\ Len(b) \in Int /\ \A j \in (o + 1)..Len(b) : b[j] \in Byte
    BY <2>2, <2>3
  <2>5. SubSeq(b, o + 1, Len(b)) \in Seq(Byte)
    BY <2>4, SubSeqProperties
  <2>6. o + 1 = IF k = at THEN offset + 1 ELSE 1
    BY <2>2
  <2> QED
    BY <2>1, <2>5, <2>6, Zenon DEF Left
<1>4. PICK n \in Nat : n = Len(parts)
  BY <1>1
<1> DEFINE bad == {m \in Nat : m <= n + 1 - at /\ Unread[n + 1 - m] \notin Seq(Byte)}
<1>5. bad = {}
  <2> SUFFICES ASSUME bad # {} PROVE FALSE
    OBVIOUS
  <2>1. PICK m \in bad : \A y \in bad : m <= y
    <3>1. bad \in SUBSET Nat
      OBVIOUS
    <3> HIDE DEF bad
    <3> QED
      BY <3>1, LeastNatural
  <2>2. m \in Nat /\ m <= n + 1 - at /\ Unread[n + 1 - m] \notin Seq(Byte)
    BY <2>1
  <2>3. PICK k \in Nat : k = n + 1 - m
    BY <1>1, <1>4, <2>2
  <2>4. k <= n
    <3>1. k > n => Unread[k] = << >>
      BY <1>2, <1>4
    <3>2. << >> \in Seq(Byte)
      BY EmptySeq
    <3>3. ~(k > n)
      BY <2>2, <2>3, <3>1, <3>2
    <3> QED
      BY <3>3
  <2>5. m - 1 \in Nat /\ m - 1 <= n + 1 - at /\ n + 1 - (m - 1) = k + 1 /\ m - 1 \notin bad
    <3>1. m - 1 \in Nat /\ m - 1 <= n + 1 - at /\ n + 1 - (m - 1) = k + 1 /\ ~(m <= m - 1)
      BY <1>1, <2>2, <2>3, <2>4
    <3> HIDE DEF bad
    <3> QED
      BY <2>1, <3>1
  <2>6. Unread[k + 1] \in Seq(Byte)
    BY <2>5
  <2>7. Left(k) \in Seq(Byte)
    BY <1>1, <1>3, <1>4, <2>2, <2>3, <2>4
  <2>8. Unread[k] = Left(k) \o Unread[k + 1]
    <3>1. ~(k > Len(parts))
      BY <1>4, <2>4
    <3> QED
      BY <1>2, <3>1
  <2>9. Unread[k] \in Seq(Byte)
    BY <2>6, <2>7, <2>8, ConcatProperties
  <2> QED
    BY <2>2, <2>3, <2>9
<1>6. PICK m \in Nat : m = n + 1 - at
  BY <1>1, <1>4
<1>7. n + 1 - m = at /\ m <= n + 1 - at /\ m \notin bad
  <2>1. n + 1 - m = at /\ m <= n + 1 - at
    BY <1>1, <1>6
  <2> HIDE DEF bad
  <2> QED
    BY <1>5, <2>1
<1>8. Unread[at] \in Seq(Byte)
  BY <1>7
<1> QED
  BY <1>1, <1>2, <1>8

SoundInv == Flow /\ Steady /\ Healthy

\* A run that failed without a cause outside of it was not given what was pushed.
LEMMA SoundDone ==
  ASSUME Types, SoundInv
  PROVE  SoundPullSucceeds
<1> SUFFICES ASSUME pc = "failed", parts # << >>, opt.right, met["refusal"] = 0,
                    Fed(dec) \o Unread[at] = Bytes(Wanted)
             PROVE  FALSE
  BY Zenon DEF SoundPullSucceeds
<1>1. parts \in Seq(Name) /\ Len(parts) \in Nat
  BY LenProperties DEF Types, Listed
<1>2. Len(parts) > 0
  BY <1>1, EmptySeq
<1>3. Unread[at] \in Seq(Byte) /\ (at > Len(parts) => Unread[at] = << >>)
  BY UnreadType DEF SoundInv, Steady, StillThere
<1>4. FrontOf(dec, Wanted)
  BY <1>3, Zenon DEF FrontOf, Lacks
<1>5. at > Len(parts) => Fed(dec) = Bytes(Wanted)
  <2> SUFFICES ASSUME at > Len(parts) PROVE Fed(dec) = Bytes(Wanted)
    OBVIOUS
  <2>1. Fed(dec) \in Seq(Byte)
    <3>1. PICK B : B = Byte
      OBVIOUS
    <3>2. dec.head \in Seq(B) /\ dec.passed \in Seq(B) /\ dec.tail \in Seq(B)
      BY <3>1 DEF Types, Texts, Decryptor
    <3>3. dec.head \o dec.passed \in Seq(B)
      BY <3>2, ConcatProperties
    <3>4. (dec.head \o dec.passed) \o dec.tail \in Seq(B)
      BY <3>2, <3>3, ConcatProperties
    <3> QED
      BY <3>1, <3>4 DEF Fed
  <2>2. Fed(dec) \o << >> = Fed(dec)
    BY <2>1, ConcatEmptySeq
  <2> QED
    BY <1>3, <2>2, Zenon
<1>6. GoesWell
  BY <1>2, <1>4, <1>5 DEF SoundInv, Healthy, Untroubled, Astray
<1> QED
  BY <1>6 DEF GoesWell

\* If tarfile only meets the end of an archive in its last read, a pull with the
\* right passphrase that neither the disk nor tarfile refused fails only because
\* the files are not those of the push: no cut of parts, blocks, buffers and
\* records, and no order of the two threads' steps, makes a sound pull fail.
THEOREM SoundSucceeds == SeenInLastRead => (Spec => []SoundPullSucceeds)
<1> SUFFICES ASSUME SeenInLastRead PROVE Spec => []SoundPullSucceeds
  OBVIOUS
<1>1. Init => Types /\ SoundInv
  <2>1. Init => Len(parts) = 0
    BY EmptySeq DEF Init
  <2>2. Init => Healthy
    BY <2>1 DEF Healthy, Untroubled
  <2> QED
    BY <2>2, TypesInit, FlowInit, SteadyInit DEF SoundInv
<1>2. Types /\ SoundInv /\ [Next]_vars => (Types /\ SoundInv)'
  BY TypesStep, FlowStep, SteadyStep, HealthyStep DEF SoundInv
<1>3. Types /\ SoundInv => SoundPullSucceeds
  BY SoundDone
<1> QED
  BY <1>1, <1>2, <1>3, PTL DEF Spec

=============================================================================
