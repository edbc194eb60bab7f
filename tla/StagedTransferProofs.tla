------------------------ MODULE StagedTransferProofs ------------------------
(***************************************************************************)
(* Proofs about StagedTransfer, for any pushes, chunk sizes, pulls and     *)
(* mishaps.                                                                *)
(***************************************************************************)
EXTENDS StagedTransfer, FiniteSetTheorems, SequenceTheorems, WellFoundedInduction, TLAPS

-----------------------------------------------------------------------------
(* Numbers.                                                                *)

NatLess == {p \in Nat \X Nat : p[1] < p[2]}

LEMMA NatLessWellFounded == IsWellFoundedOn(NatLess, Nat)
<1>1. OpToRel(<, Nat) = NatLess
  BY Zenon DEF OpToRel, NatLess
<1> QED
  BY <1>1, NatLessThanWellFounded, Zenon

\* A set of naturals has a least element.
LEMMA LeastNatural ==
  ASSUME NEW S \in SUBSET Nat, S # {}
  PROVE  Min(S) \in S /\ \A y \in S : Min(S) <= y
<1>1. PICK x \in S : \A y \in S : ~(<<y, x>> \in NatLess)
  BY NatLessWellFounded, WFMin
<1>2. \A y \in S : ~(y < x)
  BY <1>1 DEF NatLess
<1>3. x \in S /\ \A y \in S : x <= y
  BY <1>2
<1> QED
  BY <1>3 DEF Min

LEMMA Divided ==
  ASSUME NEW a \in Nat, NEW b \in Nat, b # 0
  PROVE  /\ a \div b \in Nat /\ a % b \in Nat
         /\ a = b * (a \div b) + (a % b)
         /\ (a \div b) * b <= a /\ a < (a \div b) * b + b
OBVIOUS

LEMMA Distributes ==
  ASSUME NEW a \in Nat, NEW b \in Nat, NEW c \in Nat
  PROVE  (a + b) * c = (a * c) + (b * c) /\ 1 * c = c
OBVIOUS

-----------------------------------------------------------------------------
(* Joining sequences.                                                      *)

\* A function that continues with each argument what it was before is there, so
\* FlattenSeq's recursive definition defines something.
LEMMA JoinsExist ==
  ASSUME NEW s, NEW n \in Nat
  PROVE  \E f : f = [i \in 1..n |-> IF i = 1 THEN s[i] ELSE f[i - 1] \o s[i]]
<1> DEFINE Joins(f, m) == f = [i \in 1..m |-> IF i = 1 THEN s[i] ELSE f[i - 1] \o s[i]]
           bad == {m \in Nat : ~\E f : Joins(f, m)}
<1>1. SUFFICES ASSUME n \in bad PROVE FALSE
  OBVIOUS
<1>2. PICK m \in bad : \A y \in bad : m <= y
  BY <1>1, LeastNatural
<1>3. m \in Nat /\ ~\E f : Joins(f, m)
  BY <1>2
<1>4. CASE m = 0
  <2>1. Joins([i \in 1..0 |-> 0], 0)
    OBVIOUS
  <2> QED
    BY <1>3, <1>4, <2>1
<1>5. CASE m # 0
  <2>1. m - 1 \in Nat /\ m - 1 \notin bad
    <3> HIDE DEF bad
    <3>1. m - 1 \in Nat /\ ~(m <= m - 1)
      BY <1>3, <1>5
    <3> QED
      BY <1>2, <3>1
  <2>2. PICK f : Joins(f, m - 1)
    BY <2>1
  <2> DEFINE last == IF m = 1 THEN s[m] ELSE f[m - 1] \o s[m]
             g == [i \in 1..m |-> IF i = m THEN last ELSE f[i]]
  <2>3. ASSUME NEW i \in 1..m
        PROVE  g[i] = IF i = 1 THEN s[i] ELSE g[i - 1] \o s[i]
    <3>1. CASE i = m
      <4>1. g[i] = last
        BY <3>1
      <4>2. m # 1 => m - 1 \in 1..m /\ m - 1 # m
        BY <1>3, <1>5
      <4>3. m # 1 => g[m - 1] = f[m - 1]
        BY <4>2
      <4> HIDE DEF g
      <4> QED
        BY <3>1, <4>1, <4>3
    <3>2. CASE i # m
      <4>1. i \in 1..(m - 1)
        BY <1>3, <3>2
      <4>2. g[i] = f[i]
        BY <3>2
      <4>3. f[i] = IF i = 1 THEN s[i] ELSE f[i - 1] \o s[i]
        BY <2>2, <4>1
      <4>4. i # 1 => i - 1 \in 1..m /\ i - 1 # m
        BY <1>3, <4>1
      <4>5. i # 1 => g[i - 1] = f[i - 1]
        BY <4>4
      <4> HIDE DEF g
      <4> QED
        BY <4>2, <4>3, <4>5
    <3> QED
      BY <3>1, <3>2
  <2>4. Joins(g, m)
    <3>1. g = [i \in 1..m |-> g[i]]
      OBVIOUS
    <3> HIDE DEF g
    <3> QED
      BY <2>3, <3>1
  <2> QED
    BY <1>3, <2>4
<1> QED
  BY <1>4, <1>5

\* FlattenSeq joins one sequence after the other.
LEMMA FlattenSteps ==
  ASSUME NEW s, Len(s) \in Nat \ {0}
  PROVE  \E f : /\ FlattenSeq(s) = f[Len(s)]
                /\ f[1] = s[1]
                /\ \A i \in 2..Len(s) : f[i] = f[i - 1] \o s[i]
<1> DEFINE n == Len(s)
           Joins(f) == f = [i \in 1..n |-> IF i = 1 THEN s[i] ELSE f[i - 1] \o s[i]]
           f == CHOOSE x : Joins(x)
<1>1. FlattenSeq(s) = f[n]
  BY Zenon DEF FlattenSeq
<1>2. Joins(f)
  <2>1. \E x : Joins(x)
    BY JoinsExist
  <2> HIDE DEF Joins
  <2> QED
    BY <2>1
<1> HIDE DEF f
<1>3. 1 \in 1..n /\ \A i \in 2..n : i \in 1..n /\ i # 1
  OBVIOUS
<1>4. f[1] = s[1] /\ \A i \in 2..n : f[i] = f[i - 1] \o s[i]
  BY <1>2, <1>3
<1> QED
  BY <1>1, <1>4

\* Joining sequences of bytes gives a sequence of bytes.
LEMMA FlattenType ==
  ASSUME NEW S, NEW s \in Seq(Seq(S))
  PROVE  FlattenSeq(s) \in Seq(S)
<1> DEFINE T == Seq(S)
<1>1. Len(s) \in Nat /\ \A k \in 1..Len(s) : s[k] \in T
  <2> HIDE DEF T
  <2>1. s \in Seq(T)
    BY DEF T
  <2> QED
    BY <2>1
<1>2. CASE Len(s) = 0
  <2>1. s = << >>
    <3>1. s \in Seq(T)
      OBVIOUS
    <3> HIDE DEF T
    <3> QED
      BY <1>2, <3>1, EmptySeq
  <2> QED
    BY <1>2, <2>1 DEF FlattenSeq
<1>3. CASE Len(s) # 0
  <2>1. PICK f : /\ FlattenSeq(s) = f[Len(s)] /\ f[1] = s[1]
                 /\ \A i \in 2..Len(s) : f[i] = f[i - 1] \o s[i]
    BY <1>1, <1>3, FlattenSteps
  <2> DEFINE bad == {i \in Nat : i \in 1..Len(s) /\ f[i] \notin T}
  <2>2. SUFFICES ASSUME bad # {} PROVE FALSE
    BY <1>1, <1>3, <2>1
  <2>3. PICK m \in bad : \A y \in bad : m <= y
    BY <2>2, LeastNatural
  <2>4. m # 1
    BY <1>1, <2>1, <2>3
  <2>5. m - 1 \in 1..Len(s) /\ m \in 2..Len(s) /\ m - 1 \notin bad
    BY <1>1, <2>3, <2>4
  <2>6. f[m - 1] \in T /\ s[m] \in T
    BY <1>1, <2>5
  <2>7. f[m - 1] \o s[m] \in T
    BY <2>6
  <2> QED
    BY <2>1, <2>3, <2>5, <2>7
<1> QED
  BY <1>1, <1>2, <1>3

-----------------------------------------------------------------------------
(* The order of a listing.                                                 *)

\* What the order of names and copies is about.
Sortable(f) == f.session \in Nat /\ f.index \in Nat /\ f.copy \in Nat

\* The three numbers two names are compared by.
LEMMA KeyType ==
  ASSUME NEW f, Sortable(f)
  PROVE  \E x, y, z \in Int : NameKey(f) = <<x, y, z>>
<1>1. Base \in Nat /\ Base # 0 /\ Limit \in Nat
  BY StagedAssumption
<1>2. f.session \in Int /\ f.index \in Int /\ -1 \in Int
  BY DEF Sortable
<1>3. f.index \div Base \in Int /\ f.index % Base \in Int
  BY <1>1, Divided DEF Sortable
<1> QED
  BY <1>2, <1>3 DEF NameKey

LEMMA KeyOrder ==
  ASSUME NEW a1 \in Int, NEW a2 \in Int, NEW a3 \in Int,
         NEW b1 \in Int, NEW b2 \in Int, NEW b3 \in Int
  PROVE  KeyBefore(<<a1, a2, a3>>, <<b1, b2, b3>>) <=>
           \/ a1 < b1
           \/ a1 = b1 /\ a2 < b2
           \/ a1 = b1 /\ a2 = b2 /\ a3 < b3
<1> DEFINE a == <<a1, a2, a3>>
           b == <<b1, b2, b3>>
           P(k) == a[k] < b[k] /\ \A j \in 1..(k - 1) : a[j] = b[j]
<1>1. a[1] = a1 /\ a[2] = a2 /\ a[3] = a3 /\ b[1] = b1 /\ b[2] = b2 /\ b[3] = b3
  OBVIOUS
<1>2. KeyBefore(a, b) <=> P(1) \/ P(2) \/ P(3)
  <2>1. 1..3 = {1, 2, 3}
    OBVIOUS
  <2> QED
    BY <2>1 DEF KeyBefore
<1>3. 1..(1 - 1) = {} /\ 1..(2 - 1) = {1} /\ 1..(3 - 1) = {1, 2}
  OBVIOUS
<1> HIDE DEF a, b
<1>4. /\ P(1) <=> a1 < b1
      /\ P(2) <=> a1 = b1 /\ a2 < b2
      /\ P(3) <=> a1 = b1 /\ a2 = b2 /\ a3 < b3
  BY <1>1, <1>3
<1> QED
  BY <1>2, <1>4 DEF a, b

\* Before orders files strictly, and leaves only copies of one copy apart.
LEMMA BeforeIsOrder ==
  ASSUME NEW f, NEW g, NEW h, Sortable(f), Sortable(g), Sortable(h)
  PROVE  /\ ~Before(f, f)
         /\ Before(f, g) /\ Before(g, h) => Before(f, h)
         /\ Before(f, g) \/ Before(g, f) \/ (NameKey(f) = NameKey(g) /\ f.copy = g.copy)
<1>1. PICK x1, y1, z1 \in Int : NameKey(f) = <<x1, y1, z1>>
  BY KeyType
<1>2. PICK x2, y2, z2 \in Int : NameKey(g) = <<x2, y2, z2>>
  BY KeyType
<1>3. PICK x3, y3, z3 \in Int : NameKey(h) = <<x3, y3, z3>>
  BY KeyType
<1>4. /\ f.copy \in Nat /\ g.copy \in Nat /\ h.copy \in Nat
  BY DEF Sortable
<1> DEFINE Less(a1, a2, a3, b1, b2, b3) ==
             \/ a1 < b1
             \/ a1 = b1 /\ a2 < b2
             \/ a1 = b1 /\ a2 = b2 /\ a3 < b3
<1>5. /\ KeyBefore(NameKey(f), NameKey(f)) <=> Less(x1, y1, z1, x1, y1, z1)
      /\ KeyBefore(NameKey(f), NameKey(g)) <=> Less(x1, y1, z1, x2, y2, z2)
      /\ KeyBefore(NameKey(g), NameKey(f)) <=> Less(x2, y2, z2, x1, y1, z1)
      /\ KeyBefore(NameKey(g), NameKey(h)) <=> Less(x2, y2, z2, x3, y3, z3)
      /\ KeyBefore(NameKey(f), NameKey(h)) <=> Less(x1, y1, z1, x3, y3, z3)
  BY <1>1, <1>2, <1>3, KeyOrder
<1>6. /\ NameKey(f) = NameKey(g) <=> x1 = x2 /\ y1 = y2 /\ z1 = z2
      /\ NameKey(g) = NameKey(f) <=> x1 = x2 /\ y1 = y2 /\ z1 = z2
      /\ NameKey(g) = NameKey(h) <=> x2 = x3 /\ y2 = y3 /\ z2 = z3
      /\ NameKey(f) = NameKey(h) <=> x1 = x3 /\ y1 = y3 /\ z1 = z3
  BY <1>1, <1>2, <1>3
<1>7. ~Before(f, f)
  BY <1>4, <1>5 DEF Before
<1>8. Before(f, g) /\ Before(g, h) => Before(f, h)
  BY <1>4, <1>5, <1>6 DEF Before
<1>9. Before(f, g) \/ Before(g, f) \/ (NameKey(f) = NameKey(g) /\ f.copy = g.copy)
  BY <1>4, <1>5, <1>6 DEF Before
<1> QED
  BY <1>7, <1>8, <1>9

\* Files that can be listed: finitely many, no two of one key and copy.
Listable(files) ==
  /\ IsFiniteSet(files)
  /\ \A f \in files : Sortable(f)
  /\ \A f, g \in files : NameKey(f) = NameKey(g) /\ f.copy = g.copy => f = g

\* Every place of the listing is taken by a file.
LEMMA PlaceTaken ==
  ASSUME NEW files, Listable(files)
  PROVE  /\ \A f \in files : Place(files, f) \in 0..(Cardinality(files) - 1)
         /\ \A f, g \in files : Place(files, f) = Place(files, g) => f = g
         /\ \A f, g \in files : Before(f, g) => Place(files, f) < Place(files, g)
         /\ \A k \in 1..Cardinality(files) : \E f \in files : Place(files, f) = k - 1
<1> DEFINE earlier(f) == {g \in files : Before(g, f)}
           n == Cardinality(files)
<1>1. IsFiniteSet(files) /\ n \in Nat
  BY FS_CardinalityType DEF Listable
<1>2. \A f \in files : IsFiniteSet(earlier(f)) /\ Cardinality(earlier(f)) \in Nat
  <2> TAKE f \in files
  <2>1. earlier(f) \in SUBSET files
    OBVIOUS
  <2>2. IsFiniteSet(earlier(f))
    BY <1>1, <2>1, FS_Subset
  <2> QED
    BY <2>2, FS_CardinalityType
<1>3. ASSUME NEW f \in files
      PROVE  Place(files, f) \in 0..(n - 1)
  <2>1. earlier(f) \in SUBSET files /\ f \notin earlier(f)
    BY BeforeIsOrder DEF Listable
  <2>2. Cardinality(earlier(f)) <= n /\ Cardinality(earlier(f)) # n
    BY <1>1, <2>1, FS_Subset
  <2> QED
    BY <1>1, <1>2, <2>2 DEF Place
<1>4. ASSUME NEW f \in files, NEW g \in files, Before(f, g)
      PROVE  Place(files, f) < Place(files, g)
  <2>1. earlier(f) \in SUBSET earlier(g)
    BY <1>4, BeforeIsOrder DEF Listable
  <2>2. f \in earlier(g) /\ f \notin earlier(f)
    BY <1>4, BeforeIsOrder DEF Listable
  <2>3. Cardinality(earlier(f)) <= Cardinality(earlier(g))
        /\ Cardinality(earlier(f)) # Cardinality(earlier(g))
    BY <1>2, <2>1, <2>2, FS_Subset
  <2> QED
    BY <1>2, <2>3 DEF Place
<1>5. ASSUME NEW f \in files, NEW g \in files, Place(files, f) = Place(files, g)
      PROVE  f = g
  <2>1. ~Before(f, g) /\ ~Before(g, f)
    BY <1>3, <1>4, <1>5, <1>1
  <2> QED
    BY <2>1, BeforeIsOrder DEF Listable
<1>6. \A k \in 1..n : \E f \in files : Place(files, f) = k - 1
  <2> DEFINE place == [f \in files |-> Place(files, f)]
  <2>1. place \in Injection(files, 0..(n - 1))
    BY <1>3, <1>5 DEF Injection, IsInjective
  <2>2. IsFiniteSet(0..(n - 1)) /\ Cardinality(0..(n - 1)) = n
    BY <1>1, FS_Interval
  <2>3. place \in Surjection(files, 0..(n - 1))
    BY <2>1, <2>2, FS_Injection
  <2>4. \A j \in 0..(n - 1) : \E f \in files : place[f] = j
    BY <2>3 DEF Surjection
  <2>5. \A k \in 1..n : k - 1 \in 0..(n - 1)
    BY <1>1
  <2> QED
    BY <2>4, <2>5
<1> QED
  BY <1>3, <1>4, <1>5, <1>6

\* What a listing is: of each place, the name of the file that has it.
LEMMA SortedType ==
  ASSUME NEW files, Listable(files)
  PROVE  /\ Len(Sorted(files)) = Cardinality(files) /\ Cardinality(files) \in Nat
         /\ DOMAIN Sorted(files) = 1..Cardinality(files)
         /\ Sorted(files) \in Seq({NameOf(f) : f \in files})
         /\ \A k \in 1..Cardinality(files) :
              \E f \in files : Place(files, f) = k - 1 /\ Sorted(files)[k] = NameOf(f)
<1> DEFINE n == Cardinality(files)
           file(k) == CHOOSE f \in files : Place(files, f) = k - 1
<1>1. n \in Nat
  BY FS_CardinalityType DEF Listable
<1>2. \A k \in 1..n : file(k) \in files /\ Place(files, file(k)) = k - 1
  BY PlaceTaken
<1>3. Sorted(files) = [k \in 1..n |-> NameOf(file(k))]
  BY DEF Sorted
<1> HIDE DEF file
<1>4. Sorted(files) \in [1..n -> {NameOf(f) : f \in files}]
  BY <1>2, <1>3
<1>5. Len(Sorted(files)) = n /\ Sorted(files) \in Seq({NameOf(f) : f \in files})
  BY <1>1, <1>4
<1> QED
  BY <1>1, <1>2, <1>3, <1>5

-----------------------------------------------------------------------------
(* What is pushed.                                                         *)

LEMMA JobType ==
  /\ Sessions = 1..Len(Jobs) /\ Len(Jobs) \in Nat /\ None \notin Sessions
  /\ \A s \in Sessions :
       s \in Nat /\ Jobs[s].text \in Seq(STRING) /\ Jobs[s].size \in Nat \ {0}
<1> DEFINE job == [text: Seq(STRING), size: Nat \ {0}]
<1>1. Jobs \in Seq(job)
  BY StagedAssumption
<1>4. \A x \in job : x.text \in Seq(STRING) /\ x.size \in Nat \ {0}
  OBVIOUS
<1> HIDE DEF job
<1>2. Sessions = 1..Len(Jobs) /\ Len(Jobs) \in Nat
  BY <1>1 DEF Sessions
<1>3. \A s \in Sessions : Jobs[s] \in job
  BY <1>1, <1>2
<1> QED
  BY <1>2, <1>3, <1>4 DEF None

\* The bytes of the push of session s, and those a pull can be given when it
\* asked for that session, or for none.
HeaderBytes(s) == {<<"header", s, k, << >> >> : k \in 1..HeaderSize}
BodyBytes(s) == {<<"body", s, k, <<Jobs[s].text[k]>> >> : k \in 1..Len(Jobs[s].text)}
TagBytes(s) == {<<"tag", s, k, Jobs[s].text>> : k \in 1..TagSize}
BytesOf(s) == (HeaderBytes(s) \cup BodyBytes(s)) \cup TagBytes(s)
Alien == <<"manifest", None, 1, << >> >>
AllBytes == (UNION {BytesOf(s) : s \in Sessions}) \cup {Alien}
BytesFor(session) == IF session = None THEN AllBytes ELSE BytesOf(session)

LEMMA FunctionIsSequence ==
  ASSUME NEW S, NEW n \in Nat, NEW f \in [1..n -> S]
  PROVE  f \in Seq(S) /\ Len(f) = n
OBVIOUS

LEMMA EncryptedType ==
  ASSUME NEW s \in Sessions
  PROVE  /\ Encrypted(s) \in Seq(BytesOf(s))
         /\ Len(Encrypted(s)) = HeaderSize + Len(Jobs[s].text) + TagSize
         /\ Len(Encrypted(s)) \in Nat \ {0}
<1> DEFINE text == Jobs[s].text
           all == BytesOf(s)
           h == Header(s)
           b == Body(s, text)
           t == Tag(s, text)
<1>1. /\ HeaderSize \in Nat \ {0} /\ TagSize \in Nat \ {0} /\ Len(text) \in Nat
  BY CipherAssumption, JobType
<1>2. h \in [1..HeaderSize -> all]
  <2>1. \A k \in 1..HeaderSize : <<"header", s, k, << >> >> \in all
    BY DEF BytesOf, HeaderBytes
  <2> HIDE DEF all
  <2> QED
    BY <2>1 DEF Header
<1>3. b \in [1..Len(text) -> all]
  <2>1. \A k \in 1..Len(text) : <<"body", s, k, <<text[k]>> >> \in all
    BY DEF BytesOf, BodyBytes
  <2> HIDE DEF all, text
  <2> QED
    BY <2>1 DEF Body
<1>4. t \in [1..TagSize -> all]
  <2>1. \A k \in 1..TagSize : <<"tag", s, k, text>> \in all
    BY DEF BytesOf, TagBytes
  <2> HIDE DEF all, text
  <2> QED
    BY <2>1 DEF Tag
<1>5. Encrypted(s) = (h \o b) \o t
  BY DEF Encrypted, Ciphertext
<1> HIDE DEF all, h, b, t, text
<1>6. /\ h \in Seq(all) /\ Len(h) = HeaderSize
      /\ b \in Seq(all) /\ Len(b) = Len(text)
      /\ t \in Seq(all) /\ Len(t) = TagSize
  BY <1>1, <1>2, <1>3, <1>4, FunctionIsSequence
<1>7. h \o b \in Seq(all) /\ Len(h \o b) = HeaderSize + Len(text)
  BY <1>1, <1>6
<1>8. (h \o b) \o t \in Seq(all) /\ Len((h \o b) \o t) = HeaderSize + Len(text) + TagSize
  BY <1>1, <1>6, <1>7
<1> QED
  BY <1>1, <1>5, <1>8 DEF all, text

\* How many chunks there are, and what lies in each.
LEMMA ChunkType ==
  ASSUME NEW s \in Sessions
  PROVE  /\ ChunkCount(s) \in Nat \ {0}
         /\ \A i \in Nat :
              PartOf(Encrypted(s), Jobs[s].size, i) \in Seq(BytesOf(s))
<1>1. PICK z \in Nat : z = Jobs[s].size /\ z # 0
  BY JobType
<1>2. PICK n \in Nat : n = Len(Encrypted(s)) /\ n # 0
  BY EncryptedType
<1>3. PICK m \in Nat : m = n + z - 1
  BY <1>1, <1>2
<1>4. ChunkCount(s) = m \div z
  BY <1>1, <1>2, <1>3 DEF ChunkCount, PartCount
<1>5. m \div z \in Nat /\ m < (m \div z) * z + z
  BY <1>1, Divided
<1>6. m \div z # 0
  BY <1>1, <1>2, <1>3, <1>5
<1>7. ASSUME NEW i \in Nat
      PROVE  PartOf(Encrypted(s), z, i) \in Seq(BytesOf(s))
  <2>1. i * z \in Nat /\ (i + 1) * z \in Nat
    BY <1>1
  <2>2. PICK from \in Nat : from = i * z
    BY <2>1
  <2>3. PICK to \in Nat : to = IF (i + 1) * z < n THEN (i + 1) * z ELSE n
    BY <2>1
  <2>4. to <= n
    BY <2>1, <2>3
  <2>5. PartOf(Encrypted(s), z, i) = SubSeq(Encrypted(s), from + 1, to)
    BY <1>2, <2>2, <2>3 DEF PartOf
  <2>6. SubSeq(Encrypted(s), from + 1, to) \in Seq(BytesOf(s))
    <3> DEFINE all == BytesOf(s)
               e == Encrypted(s)
    <3>1. e \in Seq(all) /\ Len(e) = n
      BY <1>2, EncryptedType
    <3> HIDE DEF all, e
    <3>2. SubSeq(e, from + 1, to) \in Seq(all)
      BY <3>1, <2>4
    <3> QED
      BY <3>2 DEF all, e
  <2> QED
    BY <2>5, <2>6
<1> QED
  BY <1>1, <1>4, <1>5, <1>6, <1>7

\* A file a push or an earlier streaming push left in the folder.
Stored(f) ==
  /\ f.session \in Sessions \cup {None} /\ f.index \in Nat
  /\ f.session # None => f.index < ChunkCount(f.session)

\* What is downloaded is the bytes of a push, of the one asked for.
LEMMA DataType ==
  ASSUME NEW name, Stored(name), NEW session,
         session \in {name.session, None}
  PROVE  DataOf(name) \in Seq(BytesFor(session))
<1>1. CASE name.session = None
  <2>1. DataOf(name) = <<Alien>>
    BY <1>1 DEF DataOf, Alien
  <2>2. session = None /\ Alien \in BytesFor(session)
    BY <1>1 DEF BytesFor, AllBytes
  <2> HIDE DEF Alien
  <2> QED
    BY <2>1, <2>2
<1>2. CASE name.session # None
  <2>1. name.session \in Sessions
    BY <1>2 DEF Stored
  <2>2. DataOf(name) \in Seq(BytesOf(name.session))
    BY <1>2, <2>1, ChunkType DEF DataOf, Stored
  <2>3. BytesOf(name.session) \subseteq BytesFor(session)
    <3>1. CASE session = None
      <4>1. BytesOf(name.session) \in {BytesOf(s) : s \in Sessions}
        BY <2>1
      <4> QED
        BY <3>1, <4>1, Zenon DEF BytesFor, AllBytes
    <3>2. CASE session # None
      BY <3>2 DEF BytesFor
    <3> QED
      BY <3>1, <3>2
  <2> HIDE DEF DataOf
  <2>4. PICK few, many : few = BytesOf(name.session) /\ many = BytesFor(session)
    OBVIOUS
  <2>5. PICK data : data = DataOf(name)
    OBVIOUS
  <2>6. data \in Seq(few) /\ few \subseteq many
    BY <2>2, <2>3, <2>4, <2>5
  <2>7. data \in Seq(many)
    BY <2>6
  <2> QED
    BY <2>4, <2>5, <2>7
<1> QED
  BY <1>1, <1>2

-----------------------------------------------------------------------------
(* Decryption.                                                             *)

\* What is held back for the tag is of the bytes that were read.
LEMMA HeldBack ==
  ASSUME NEW S, NEW block \in Seq(S)
  PROVE  Update(NewDecryptor, block).tail \in Seq(S)
<1> DEFINE taken == Shorter(HeaderSize - Len(NewDecryptor.head), Len(block))
           rest == SubSeq(block, taken + 1, Len(block))
           buf == NewDecryptor.tail \o rest
           held == Shorter(TagSize, Len(buf))
<1>1. NewDecryptor.head = << >> /\ NewDecryptor.tail = << >> /\ Len(<< >>) = 0
  BY DEF NewDecryptor
<1>2. taken \in Nat
  <2>1. Len(NewDecryptor.head) = 0
    BY <1>1
  <2> QED
    BY <2>1, CipherAssumption DEF Shorter
<1> HIDE DEF taken
<1>3. rest \in Seq(S)
  BY <1>2
<1> HIDE DEF rest
<1>4. buf \in Seq(S)
  BY <1>1, <1>3
<1>5. Update(NewDecryptor, block).tail = SubSeq(buf, Len(buf) - held + 1, Len(buf))
  BY DEF Update, taken, rest
<1> HIDE DEF buf
<1>6. Len(buf) \in Nat /\ held \in Nat /\ held <= Len(buf)
  BY <1>4, CipherAssumption DEF Shorter
<1> HIDE DEF held
<1>7. PICK first \in Nat : first = Len(buf) - held + 1 /\ first > 0
  BY <1>6
<1>8. SubSeq(buf, first, Len(buf)) \in Seq(S)
  BY <1>4, <1>6, <1>7
<1> QED
  BY <1>5, <1>7, <1>8

\* A tag is of one push and covers its text: of the bytes a pull can be given,
\* only those of the pushes it asked for make one.
LEMMA TagOfPush ==
  ASSUME NEW session \in Sessions \cup {None}, NEW salt, NEW k, NEW text,
         <<"tag", salt, k, text>> \in BytesFor(session)
  PROVE  \E s \in Sessions : session \in {s, None} /\ text = Jobs[s].text
<1> DEFINE byte == <<"tag", salt, k, text>>
<1>1. byte[1] = "tag" /\ byte[4] = text
  OBVIOUS
<1>2. Alien[1] = "manifest"
  BY DEF Alien
<1>3. \A s \in Sessions : \A b \in BytesOf(s) :
        b[1] = "tag" => b[4] = Jobs[s].text
  <2> TAKE s \in Sessions
  <2>1. \A b \in HeaderBytes(s) : b[1] = "header"
    BY DEF HeaderBytes
  <2>2. \A b \in BodyBytes(s) : b[1] = "body"
    BY DEF BodyBytes
  <2>3. \A b \in TagBytes(s) : b[4] = Jobs[s].text
    BY DEF TagBytes
  <2> QED
    BY <2>1, <2>2, <2>3 DEF BytesOf
<1> HIDE DEF byte
<1>4. byte \in BytesFor(session)
  BY DEF byte
<1>5. CASE session = None
  <2>1. byte # Alien
    BY <1>1, <1>2
  <2>2. PICK s \in Sessions : byte \in BytesOf(s)
    <3>1. byte \in UNION {BytesOf(s) : s \in Sessions}
      BY <1>4, <1>5, <2>1 DEF BytesFor, AllBytes
    <3> QED
      BY <3>1, Zenon
  <2> QED
    BY <1>1, <1>3, <1>5, <2>2
<1>6. CASE session # None
  <2>1. session \in Sessions /\ byte \in BytesOf(session)
    BY <1>4, <1>6 DEF BytesFor
  <2> QED
    BY <1>1, <1>3, <2>1
<1> QED
  BY <1>5, <1>6

\* What verifies is the text of a push, of the one that was asked for.
LEMMA AuthenticMeansPushed ==
  ASSUME NEW q, NEW session \in Sessions \cup {None}, Authentic(q),
         pull[q].local \in Seq(Seq(BytesFor(session)))
  PROVE  \E s \in Sessions :
           session \in {s, None} /\ Plain(Decrypted(q), pull[q].right) = Jobs[s].text
<1> DEFINE S == BytesFor(session)
           d == Decrypted(q)
           text == Plain(d, pull[q].right)
<1>1. d.tail \in Seq(S)
  <2> HIDE DEF S
  <2>1. FlattenSeq(pull[q].local) \in Seq(S)
    BY FlattenType DEF S
  <2> QED
    BY <2>1, HeldBack DEF Decrypted
<1>2. Len(d.tail) = TagSize /\ d.tail = Tag(SaltOf(d), text)
  BY DEF Authentic, Verifies
<1> HIDE DEF S, d, text
<1>3. 1 \in 1..TagSize
  BY CipherAssumption
<1>4. d.tail[1] \in S
  BY <1>1, <1>2, <1>3
<1>5. d.tail[1] = <<"tag", SaltOf(d), 1, text>>
  BY <1>2, <1>3 DEF Tag
<1>6. <<"tag", SaltOf(d), 1, text>> \in BytesFor(session)
  BY <1>4, <1>5 DEF S
<1> QED
  BY <1>6, TagOfPush DEF d, text

-----------------------------------------------------------------------------
(* The pushes and the folders.                                             *)

Twins(files, s, i) == {f \in files : f.session = s /\ f.index = i}

\* The files of the folders: no two are one copy of one name.
FolderInv ==
  /\ folders \subseteq FolderIds
  /\ IsFiniteSet(folders) /\ IsFiniteSet(drive)
  /\ \A f \in drive :
       /\ f.folder \in folders /\ Stored(f) /\ f.copy \in Nat
       /\ f.copy < Cardinality(Twins(drive, f.session, f.index))
  /\ \A f, g \in drive :
       f.session = g.session /\ f.index = g.index /\ f.copy = g.copy => f = g

PushPlaces == {"start", "create", "upload", "done", "stopped"}

\* A push that has uploaded something has left a file in one of the folders.
PushesInv ==
  /\ push \in [Sessions -> [at: PushPlaces, folder: FolderIds \cup {None}, next: Nat]]
  /\ \A s \in Sessions :
       /\ push[s].folder \in folders \cup {None}
       /\ push[s].next <= ChunkCount(s)
       /\ PushAt(s, "start") \/ PushAt(s, "create") => push[s].next = 0
       /\ PushAt(s, "upload") => push[s].folder \in folders /\ push[s].next < ChunkCount(s)
       /\ PushAt(s, "done") => push[s].next > 0
       /\ push[s].next > 0 => \E f \in drive : f.session = s

LeftType == left \in [Mishaps -> Nat]

LEMMA SpendType ==
  ASSUME LeftType, NEW kind \in Mishaps, Spend(kind)
  PROVE  LeftType'
BY DEF Spend, LeftType

LEMMA FolderInit == Init => FolderInv /\ PushesInv /\ LeftType
<1> SUFFICES ASSUME Init PROVE FolderInv /\ PushesInv /\ LeftType
  OBVIOUS
<1>1. LeftType
  BY StagedAssumption DEF Init, LeftType
<1>2. FolderInv
  <2>1. CASE folders = {} /\ drive = {}
    BY <2>1, FS_EmptySet DEF FolderInv
  <2>2. ASSUME NEW x \in FolderIds, folders = {x}, drive = ResidueIn(x)
        PROVE  FolderInv
    <3> DEFINE m == [folder |-> x, session |-> None, index |-> 0, copy |-> 0]
    <3>1. m.folder = x /\ m.session = None /\ m.index = 0 /\ m.copy = 0
      OBVIOUS
    <3>2. drive = {} \/ drive = {m}
      BY <2>2 DEF ResidueIn
    <3> HIDE DEF m
    <3>3. IsFiniteSet(folders) /\ IsFiniteSet({m}) /\ Cardinality({m}) = 1
      BY <2>2, FS_Singleton
    <3>4. CASE drive = {}
      BY <2>2, <3>3, <3>4, FS_EmptySet DEF FolderInv
    <3>5. CASE drive = {m}
      <4>1. Twins(drive, m.session, m.index) = {m}
        BY <3>5 DEF Twins
      <4>2. Stored(m)
        BY <3>1 DEF Stored
      <4>3. m.copy < Cardinality(Twins(drive, m.session, m.index))
        BY <3>1, <3>3, <4>1
      <4> QED
        BY <2>2, <3>1, <3>3, <3>5, <4>2, <4>3 DEF FolderInv
    <3> QED
      BY <3>2, <3>4, <3>5
  <2> QED
    BY <2>1, <2>2 DEF Init
<1>3. PushesInv
  <2>1. push = [s \in Sessions |-> NewPush]
    BY DEF Init
  <2>2. NewPush \in [at: PushPlaces, folder: FolderIds \cup {None}, next: Nat]
    BY DEF NewPush, PushPlaces
  <2>3. NewPush.at = "start" /\ NewPush.folder = None /\ NewPush.next = 0
    BY DEF NewPush
  <2>4. \A s \in Sessions : 0 <= ChunkCount(s)
    BY ChunkType
  <2> QED
    BY <2>1, <2>2, <2>3, <2>4 DEF PushesInv, PushAt
<1> QED
  BY <1>1, <1>2, <1>3

\* A chunk is added: another copy than those that are there.
LEMMA FolderGrows ==
  ASSUME FolderInv, PushesInv, NEW s \in Sessions, PushAt(s, "upload"),
         drive' = drive \cup {Chunk(s)}, UNCHANGED folders
  PROVE  /\ FolderInv'
         /\ drive \subseteq drive' /\ \E f \in drive' : f.session = s
<1> DEFINE i == push[s].next
           c == Chunk(s)
<1>1. /\ c.folder = push[s].folder /\ c.session = s /\ c.index = i
      /\ c.copy = Cardinality(Twins(drive, s, i))
  BY DEF Chunk, Twins
<1>2. push[s].folder \in folders /\ i < ChunkCount(s) /\ i \in Nat
  BY DEF PushesInv
<1> HIDE DEF i, c
<1>3. drive' = drive \cup {c}
  BY DEF c
<1>4. Stored(c)
  BY <1>1, <1>2 DEF Stored
<1>5. \A t, j : IsFiniteSet(Twins(drive, t, j)) /\ Cardinality(Twins(drive, t, j)) \in Nat
  <2> TAKE t, j
  <2>1. Twins(drive, t, j) \in SUBSET drive
    BY DEF Twins
  <2>2. IsFiniteSet(Twins(drive, t, j))
    BY <2>1, FS_Subset DEF FolderInv
  <2> QED
    BY <2>2, FS_CardinalityType
<1>6. c.copy \in Nat
  BY <1>1, <1>5
<1>7. \A f \in drive : f.session = s /\ f.index = i => f.copy < c.copy
  BY <1>1 DEF FolderInv
<1>8. c \notin drive
  BY <1>1, <1>6, <1>7
<1>9. Twins(drive', s, i) = Twins(drive, s, i) \cup {c}
      /\ \A t, j : ~(t = s /\ j = i) => Twins(drive', t, j) = Twins(drive, t, j)
  BY <1>1, <1>3 DEF Twins
<1>10. Cardinality(Twins(drive', s, i)) = c.copy + 1
  <2>1. c \notin Twins(drive, s, i)
    BY <1>8 DEF Twins
  <2> QED
    BY <1>1, <1>5, <1>9, <2>1, FS_AddElement
<1>11. ASSUME NEW f \in drive'
       PROVE  /\ f.folder \in folders /\ Stored(f) /\ f.copy \in Nat
              /\ f.copy < Cardinality(Twins(drive', f.session, f.index))
  <2>1. CASE f = c
    BY <1>1, <1>2, <1>4, <1>6, <1>10, <2>1
  <2>2. CASE f \in drive
    <3>1. f.folder \in folders /\ Stored(f) /\ f.copy \in Nat
          /\ f.copy < Cardinality(Twins(drive, f.session, f.index))
      BY <2>2 DEF FolderInv
    <3>2. CASE f.session = s /\ f.index = i
      BY <3>1, <3>2, <1>1, <1>6, <1>10
    <3>3. CASE ~(f.session = s /\ f.index = i)
      BY <3>1, <3>3, <1>9
    <3> QED
      BY <3>1, <3>2, <3>3
  <2> QED
    BY <1>3, <2>1, <2>2
<1>12. ASSUME NEW f \in drive', NEW g \in drive',
              f.session = g.session /\ f.index = g.index /\ f.copy = g.copy
       PROVE  f = g
  <2>1. \A x \in drive : x.session = c.session /\ x.index = c.index => x.copy # c.copy
    BY <1>1, <1>6, <1>7 DEF FolderInv
  <2> QED
    BY <1>3, <1>12, <2>1 DEF FolderInv
<1>13. IsFiniteSet(drive')
  BY <1>3, FS_AddElement DEF FolderInv
<1>14. FolderInv'
  BY <1>11, <1>12, <1>13 DEF FolderInv
<1> QED
  BY <1>1, <1>3, <1>14

\* Another folder of the path is made.
LEMMA FoldersGrow ==
  ASSUME FolderInv, NEW x \in FolderIds, folders' = folders \cup {x}, UNCHANGED drive
  PROVE  FolderInv'
<1>1. IsFiniteSet(folders')
  BY FS_AddElement DEF FolderInv
<1> QED
  BY <1>1 DEF FolderInv

PushRecords == [at: PushPlaces, folder: FolderIds \cup {None}, next: Nat]

\* One push goes on to another place, with what that place demands.
LEMMA PushMoves ==
  ASSUME PushesInv, NEW s \in Sessions,
         push' \in [Sessions -> PushRecords], \A t \in Sessions : t # s => push'[t] = push[t],
         folders \subseteq folders', drive \subseteq drive',
         push'[s].folder \in folders' \cup {None},
         push'[s].next <= ChunkCount(s),
         push'[s].at \in {"start", "create"} => push'[s].next = 0,
         push'[s].at = "upload" => push'[s].folder \in folders' /\ push'[s].next < ChunkCount(s),
         push'[s].at = "done" => push'[s].next > 0,
         push'[s].next > 0 => \E f \in drive' : f.session = s
  PROVE  PushesInv'
<1>1. ASSUME NEW t \in Sessions
      PROVE  /\ push'[t].folder \in folders' \cup {None}
             /\ push'[t].next <= ChunkCount(t)
             /\ push'[t].at \in {"start", "create"} => push'[t].next = 0
             /\ push'[t].at = "upload" =>
                  push'[t].folder \in folders' /\ push'[t].next < ChunkCount(t)
             /\ push'[t].at = "done" => push'[t].next > 0
             /\ push'[t].next > 0 => \E f \in drive' : f.session = t
  <2>1. CASE t = s
    BY <2>1
  <2>2. CASE t # s
    BY <2>2 DEF PushesInv, PushAt
  <2> QED
    BY <2>1, <2>2
<1> QED
  BY <1>1 DEF PushesInv, PushAt, PushRecords

LEMMA PushStepKeeps ==
  ASSUME FolderInv, PushesInv, LeftType, NEW s \in Sessions, PushStep(s)
  PROVE  /\ FolderInv' /\ PushesInv' /\ LeftType'
         /\ folders \subseteq folders' /\ UNCHANGED <<pull, output>>
<1> DEFINE old == push[s]
           new == push'[s]
           Others == \A t \in Sessions : t # s => push'[t] = push[t]
<1>1. push \in [Sessions -> PushRecords]
  BY DEF PushesInv, PushRecords
<1>2. /\ old.next <= ChunkCount(s) /\ old.next \in Nat
      /\ old.folder \in folders \cup {None}
      /\ old.next > 0 => \E f \in drive : f.session = s
      /\ ChunkCount(s) \in Nat \ {0}
  BY <1>1, ChunkType DEF PushesInv, PushRecords
<1>3. folders \subseteq FolderIds
  BY DEF FolderInv
<1>4. CASE FindFolder(s)
  <2>1. old.at = "start" /\ old.next = 0 /\ UNCHANGED <<folders, drive, pull, output, left>>
    BY <1>4 DEF FindFolder, PushesInv, PushAt
  <2>2. CASE folders = {}
    <3>1. push' = [push EXCEPT ![s].at = "create"]
      BY <1>4, <2>2 DEF FindFolder
    <3>2. /\ push' \in [Sessions -> PushRecords] /\ Others
          /\ new.at = "create" /\ new.folder = old.folder /\ new.next = old.next
      BY <3>1, <1>1 DEF PushPlaces, PushRecords
    <3>3. PushesInv'
      BY <3>2, <1>2, <2>1, PushMoves
    <3> QED
      BY <2>1, <3>3 DEF FolderInv, LeftType
  <2>3. CASE folders # {}
    <3>1. PICK x \in folders : push' = [push EXCEPT ![s].at = "upload", ![s].folder = x]
      BY <1>4, <2>3 DEF FindFolder
    <3>2. /\ push' \in [Sessions -> PushRecords] /\ Others
          /\ new.at = "upload" /\ new.folder = x /\ new.next = old.next
      BY <3>1, <1>1, <1>3 DEF PushPlaces, PushRecords
    <3>3. PushesInv'
      BY <3>2, <1>2, <2>1, PushMoves
    <3> QED
      BY <2>1, <3>3 DEF FolderInv, LeftType
  <2> QED
    BY <2>2, <2>3
<1>5. CASE CreateFolder(s)
  <2>1. old.at = "create" /\ old.next = 0 /\ UNCHANGED <<drive, pull, output, left>>
    BY <1>5 DEF CreateFolder, PushesInv, PushAt
  <2>2. PICK x \in FolderIds :
          /\ folders' = folders \cup {x}
          /\ push' = [push EXCEPT ![s].at = "upload", ![s].folder = x]
    BY <1>5 DEF CreateFolder
  <2>3. FolderInv' /\ folders \subseteq folders' /\ x \in folders'
    BY <2>1, <2>2, FoldersGrow
  <2>4. /\ push' \in [Sessions -> PushRecords] /\ Others
        /\ new.at = "upload" /\ new.folder = x /\ new.next = old.next
    BY <2>2, <1>1 DEF PushPlaces, PushRecords
  <2>5. PushesInv'
    BY <2>1, <2>3, <2>4, <1>2, PushMoves
  <2> QED
    BY <2>1, <2>3, <2>5 DEF LeftType
<1>6. CASE Upload(s)
  <2>1. /\ PushAt(s, "upload") /\ drive' = drive \cup {Chunk(s)}
        /\ UNCHANGED <<folders, pull, output, left>>
    BY <1>6 DEF Upload
  <2>2. old.folder \in folders /\ old.next < ChunkCount(s)
    BY <2>1 DEF PushesInv
  <2>3. FolderInv' /\ drive \subseteq drive' /\ \E f \in drive' : f.session = s
    BY <2>1, FolderGrows
  <2>4. PICK at \in {"upload", "done"} :
          at = IF old.next + 1 < ChunkCount(s) THEN "upload" ELSE "done"
    OBVIOUS
  <2>5. push' = [push EXCEPT ![s].next = @ + 1, ![s].at = at]
    BY <1>6, <2>4 DEF Upload
  <2>6. /\ push' \in [Sessions -> PushRecords] /\ Others
        /\ new.at = at /\ new.folder = old.folder /\ new.next = old.next + 1
    <3>1. /\ old.at \in PushPlaces /\ old.folder \in FolderIds \cup {None}
          /\ old.next \in Nat /\ old.next + 1 \in Nat
      BY <1>1 DEF PushRecords
    <3>2. PICK next \in Nat : next = old.next + 1
      BY <3>1
    <3>3. push' = [push EXCEPT ![s] = [old EXCEPT !.next = next, !.at = at]]
      BY <2>5, <3>2
    <3>4. [old EXCEPT !.next = next, !.at = at] \in PushRecords
      BY <1>1, <2>4, <3>2 DEF PushPlaces, PushRecords
    <3> QED
      BY <1>1, <3>2, <3>3, <3>4 DEF PushRecords
  <2>7. /\ new.next <= ChunkCount(s) /\ new.next > 0
        /\ new.at = "upload" => new.folder \in folders' /\ new.next < ChunkCount(s)
        /\ new.at \notin {"start", "create"}
        /\ new.folder \in folders' \cup {None}
    <3>1. PICK n, c \in Nat : n = old.next /\ c = ChunkCount(s)
      BY <1>2
    <3>2. n < c /\ new.next = n + 1
      BY <2>2, <2>6, <3>1
    <3>3. new.next <= c /\ new.next > 0
      BY <3>1, <3>2
    <3>4. at = "upload" => n + 1 < c
      BY <2>4, <3>1
    <3>5. new.folder \in folders'
      BY <2>1, <2>2, <2>6
    <3>6. new.at \notin {"start", "create"}
      BY <2>6
    <3> QED
      BY <2>6, <3>1, <3>2, <3>3, <3>4, <3>5, <3>6
  <2>8. folders \subseteq folders'
    BY <2>1
  <2>9. PushesInv'
    BY <2>3, <2>6, <2>7, <2>8, PushMoves
  <2> QED
    BY <2>1, <2>3, <2>9 DEF LeftType
<1>7. CASE UploadUnanswered(s)
  <2>1. /\ PushAt(s, "upload") /\ Spend("unanswered") /\ drive' = drive \cup {Chunk(s)}
        /\ UNCHANGED <<folders, push, pull, output>>
    BY <1>7 DEF UploadUnanswered
  <2>2. FolderInv' /\ drive \subseteq drive'
    BY <2>1, FolderGrows
  <2>3. PushesInv'
    BY <2>1, <2>2 DEF PushesInv, PushAt
  <2>4. LeftType'
    BY <2>1, SpendType DEF Mishaps
  <2> QED
    BY <2>1, <2>2, <2>3, <2>4
<1>8. CASE StopPush(s)
  <2>1. /\ push' = [push EXCEPT ![s].at = "stopped"] /\ Spend("stop")
        /\ UNCHANGED <<drive, pull, output>>
    BY <1>8 DEF StopPush
  <2>2. \/ UNCHANGED folders
        \/ \E f \in FolderIds : folders' = folders \cup {f}
    BY <1>8 DEF StopPush
  <2>3. FolderInv'
    <3>1. CASE UNCHANGED folders
      BY <2>1, <3>1 DEF FolderInv
    <3>2. CASE \E f \in FolderIds : folders' = folders \cup {f}
      BY <2>1, <3>2, FoldersGrow
    <3> QED
      BY <2>2, <3>1, <3>2
  <2>4. LeftType'
    BY <2>1, SpendType DEF Mishaps
  <2>5. folders \subseteq folders'
    BY <2>2
  <2>6. /\ push' \in [Sessions -> PushRecords] /\ Others
        /\ new.at = "stopped" /\ new.folder = old.folder /\ new.next = old.next
    BY <2>1, <1>1 DEF PushPlaces, PushRecords
  <2>7. PushesInv'
    BY <2>1, <2>5, <2>6, <1>2, PushMoves
  <2> QED
    BY <2>1, <2>3, <2>4, <2>5, <2>7
<1> QED
  BY <1>4, <1>5, <1>6, <1>7, <1>8 DEF PushStep
-----------------------------------------------------------------------------
(* The pulls.                                                              *)

PullPlaces == {"idle", "list", "fetch", "finalize", "move", "copy", "done",
               "unfound", "invalid", "stopped"}
Names == [session: Sessions \cup {None}, index: Nat]
Listings == Seq(Names)
Blocks == Seq(AllBytes)
Texts == {<< >>} \cup {Jobs[s].text : s \in Sessions}
OutputNames == [stem: {"", "result", "result.tar", "top.tar"}, n: Nat]

PullRecords ==
  [at: PullPlaces, session: Sessions \cup {None}, right: BOOLEAN,
   folder: FolderIds \cup {None}, items: Listings, local: Seq(Blocks),
   partial: Blocks, blob: Texts, wrapped: BOOLEAN, name: OutputNames,
   raced: BOOLEAN]

\* What List selects for a pull that asked for a session, or for none: names of
\* files that are there, of that session, as they sort.
GoodListing(items, session) ==
  /\ \A k \in 1..Len(items) :
       Stored(items[k]) /\ session \in {items[k].session, None}
  /\ \A j, k \in 1..Len(items) :
       j < k => ~KeyBefore(NameKey(items[k]), NameKey(items[j]))

\* What a pull has, wherever it is; its blob, once there is one, is a file that
\* was pushed, under the session it asked for.
PullGood(p, there) ==
  /\ Len(p.local) <= Len(p.items)
  /\ p.at \in {"idle", "list"} => p.local = << >>
  /\ p.at = "list" => p.folder \in there
  /\ p.at = "fetch" =>
       /\ GoodListing(p.items, p.session)
       /\ \A k \in 1..Len(p.local) : p.local[k] = DataOf(p.items[k])
  /\ p.at \in {"finalize", "move", "copy", "done"} =>
       \E s \in Sessions : p.session \in {s, None} /\ p.blob = Jobs[s].text
  /\ p.at \in {"idle", "list", "fetch", "finalize"} => ~p.raced

PullsInv ==
  /\ pull \in [Pulls -> PullRecords]
  /\ \A q \in Pulls : PullGood(pull[q], folders)

\* The output directory.  A pull that has picked a name and not used it yet
\* finds the name free unless another raced it; what one has written under a
\* name nobody raced for is what it has decrypted.
Named(p) == p.at \in {"move", "copy", "done"}
Written(p, whole, by) ==
  [text |-> p.blob, wrapped |-> p.wrapped, whole |-> whole, by |-> by]
RacedAmong(all, n) == \E q \in Pulls : all[q].name = n /\ all[q].raced

OutputGood(all, dir) ==
  /\ IsFiniteSet(DOMAIN dir) /\ OldName \in DOMAIN dir
  /\ \A q \in Pulls :
       /\ all[q].at \in {"copy", "done"} => all[q].name \in DOMAIN dir
       /\ all[q].at = "move" /\ all[q].name \in DOMAIN dir => all[q].raced
       /\ all[q].at = "copy" /\ ~RacedAmong(all, all[q].name) =>
            dir[all[q].name] = Written(all[q], FALSE, q)
       /\ all[q].at = "done" /\ ~RacedAmong(all, all[q].name) =>
            dir[all[q].name] = Written(all[q], TRUE, q)
  /\ \A q, r \in Pulls :
       q # r /\ all[q].name = all[r].name /\ Named(all[q]) /\ Named(all[r]) =>
         /\ all[q].raced \/ all[r].raced
         /\ all[q].at = "move" /\ all[r].at = "move" => all[q].raced

OutputInv == OutputGood(pull, output)

LEMMA PullInit == Init => PullsInv /\ OutputInv
<1> SUFFICES ASSUME Init PROVE PullsInv /\ OutputInv
  OBVIOUS
<1>1. /\ pull = [q \in Pulls |-> NewPull]
      /\ output = [n \in {OldName} |-> OldFile]
  BY DEF Init
<1>2. NewPull \in PullRecords
  <2>1. << >> \in Listings /\ << >> \in Seq(Blocks) /\ << >> \in Blocks /\ << >> \in Texts
    BY EmptySeq DEF Listings, Blocks, Texts
  <2> HIDE DEF Listings, Blocks, Texts
  <2>2. PICK many : many = Seq(Blocks)
    OBVIOUS
  <2>3. [stem |-> "", n |-> 0] \in OutputNames
    BY DEF OutputNames
  <2> QED
    BY <2>1, <2>2, <2>3 DEF NewPull, PullRecords, PullPlaces
<1>3. NewPull.at = "idle" /\ NewPull.local = << >> /\ NewPull.items = << >>
      /\ NewPull.raced = FALSE
  BY DEF NewPull
<1>4. Len(NewPull.local) <= Len(NewPull.items)
  BY <1>3
<1>5. \A q \in Pulls : pull[q] = NewPull
  BY <1>1
<1>6. PullGood(NewPull, folders)
  BY <1>3, <1>4 DEF PullGood
<1>7. PullsInv
  BY <1>1, <1>2, <1>5, <1>6 DEF PullsInv
<1>8. DOMAIN output = {OldName}
  BY <1>1
<1>9. OutputInv
  BY <1>3, <1>5, <1>8, FS_Singleton DEF OutputInv, OutputGood, Named
<1> QED
  BY <1>7, <1>9

\* What a pull has does not depend on which other folders there are.
LEMMA PullGoodGrows ==
  ASSUME NEW p, NEW there, NEW more, there \subseteq more, PullGood(p, there)
  PROVE  PullGood(p, more)
BY DEF PullGood

\* A name and its number are told by the key it sorts by.
LEMMA KeyTellsName ==
  ASSUME NEW f, NEW g, Sortable(f), Sortable(g), NameKey(f) = NameKey(g)
  PROVE  f.session = g.session /\ f.index = g.index
<1>1. PICK b, l \in Nat : b = Base /\ l = Limit /\ b # 0
  BY StagedAssumption
<1>2. PICK i, j \in Nat : i = f.index /\ j = g.index
  BY DEF Sortable
<1>3. /\ i \div b \in Nat /\ i % b \in Nat /\ i = b * (i \div b) + (i % b)
      /\ j \div b \in Nat /\ j % b \in Nat /\ j = b * (j \div b) + (j % b)
  BY <1>1, <1>2, Divided
<1>4. PICK di, mi, dj, mj \in Nat :
        di = i \div b /\ mi = i % b /\ dj = j \div b /\ mj = j % b
  BY <1>3
<1>5. /\ i < l => NameKey(f) = <<f.session, i, -1>>
      /\ ~(i < l) => NameKey(f) = <<f.session, di, mi>>
      /\ j < l => NameKey(g) = <<g.session, j, -1>>
      /\ ~(j < l) => NameKey(g) = <<g.session, dj, mj>>
  BY <1>1, <1>2, <1>4 DEF NameKey
<1>6. /\ NameKey(f)[1] = f.session /\ NameKey(g)[1] = g.session
      /\ i < l => NameKey(f)[2] = i /\ NameKey(f)[3] = -1
      /\ ~(i < l) => NameKey(f)[2] = di /\ NameKey(f)[3] = mi
      /\ j < l => NameKey(g)[2] = j /\ NameKey(g)[3] = -1
      /\ ~(j < l) => NameKey(g)[2] = dj /\ NameKey(g)[3] = mj
  BY <1>5
<1>7. i = j
  <2>1. PICK x, y : x = NameKey(f) /\ y = NameKey(g) /\ x[2] = y[2] /\ x[3] = y[3]
    OBVIOUS
  <2>2. (i < l /\ j < l) \/ (~(i < l) /\ ~(j < l))
    BY <1>6, <2>1
  <2>3. CASE i < l
    BY <1>6, <2>1, <2>2, <2>3
  <2>4. CASE ~(i < l)
    <3>1. di = dj /\ mi = mj
      BY <1>6, <2>1, <2>2, <2>4
    <3>2. b * di = b * dj
      BY <3>1
    <3> QED
      BY <1>3, <1>4, <3>1, <3>2
  <2> QED
    BY <2>3, <2>4
<1> QED
  BY <1>2, <1>6, <1>7

\* A listing of files of a folder.
LEMMA ListingType ==
  ASSUME FolderInv, NEW files \in SUBSET drive
  PROVE  /\ Listable(files)
         /\ Sorted(files) \in Listings
         /\ \A session : (\A f \in files : session \in {f.session, None})
              => GoodListing(Sorted(files), session)
<1>1. \A f \in files : /\ f.session \in Sessions \cup {None} /\ f.index \in Nat
                       /\ f.copy \in Nat /\ Stored(f) /\ Sortable(f)
  BY JobType DEF FolderInv, Stored, Sortable, None
<1>2. IsFiniteSet(files)
  BY FS_Subset DEF FolderInv
<1>3. \A f, g \in files : NameKey(f) = NameKey(g) /\ f.copy = g.copy => f = g
  BY <1>1, KeyTellsName DEF FolderInv
<1>4. Listable(files)
  BY <1>1, <1>2, <1>3 DEF Listable
<1> DEFINE items == Sorted(files)
           n == Cardinality(files)
<1>5. /\ Len(items) = n /\ n \in Nat
      /\ items \in Seq({NameOf(f) : f \in files})
      /\ \A k \in 1..n : \E f \in files : Place(files, f) = k - 1 /\ items[k] = NameOf(f)
  BY <1>4, SortedType
<1>6. {NameOf(f) : f \in files} \subseteq Names
  BY <1>1 DEF NameOf, Names
<1> HIDE DEF items, n
<1>7. items \in Listings
  <2>1. PICK few, many : few = {NameOf(f) : f \in files} /\ many = Names
    OBVIOUS
  <2>2. few \subseteq many /\ items \in Seq(few)
    BY <1>5, <1>6, <2>1
  <2>3. items \in Seq(many)
    BY <2>2, SeqMonotonic
  <2> QED
    BY <2>1, <2>3 DEF Listings
<1>8. ASSUME NEW session, \A f \in files : session \in {f.session, None}
      PROVE  GoodListing(items, session)
  <2>1. ASSUME NEW k \in 1..n
        PROVE  Stored(items[k]) /\ session \in {items[k].session, None}
    <3>1. PICK f \in files : items[k] = NameOf(f)
      BY <1>5
    <3>2. items[k].session = f.session /\ items[k].index = f.index
      BY <3>1 DEF NameOf
    <3> QED
      BY <1>1, <1>8, <3>2 DEF Stored
  <2>2. ASSUME NEW j \in 1..n, NEW k \in 1..n, j < k
        PROVE  ~KeyBefore(NameKey(items[k]), NameKey(items[j]))
    <3>1. PICK f \in files : Place(files, f) = j - 1 /\ items[j] = NameOf(f)
      BY <1>5
    <3>2. PICK g \in files : Place(files, g) = k - 1 /\ items[k] = NameOf(g)
      BY <1>5
    <3>3. ~(Place(files, g) < Place(files, f))
      BY <1>5, <2>2, <3>1, <3>2
    <3>4. ~Before(g, f)
      BY <1>4, <3>3, PlaceTaken
    <3>5. NameKey(items[j]) = NameKey(f) /\ NameKey(items[k]) = NameKey(g)
      BY <3>1, <3>2 DEF NameOf, NameKey
    <3> QED
      BY <3>4, <3>5 DEF Before
  <2> QED
    BY <1>5, <2>1, <2>2 DEF GoodListing
<1> QED
  BY <1>4, <1>7, <1>8 DEF items
\* What an output directory has to be does not depend on pulls without a name.
LEMMA OutputFrame ==
  ASSUME NEW all, NEW more, NEW dir, OutputGood(all, dir),
         \A r \in Pulls : more[r].name = all[r].name /\ more[r].raced = all[r].raced,
         \A r \in Pulls : Named(more[r]) => more[r] = all[r]
  PROVE  OutputGood(more, dir)
<1>1. \A n : RacedAmong(more, n) <=> RacedAmong(all, n)
  BY DEF RacedAmong
<1>2. \A r \in Pulls : more[r].at \in {"move", "copy", "done"} => more[r] = all[r]
  BY DEF Named
<1>3. ASSUME NEW r \in Pulls
      PROVE  /\ more[r].at \in {"copy", "done"} => more[r].name \in DOMAIN dir
             /\ more[r].at = "move" /\ more[r].name \in DOMAIN dir => more[r].raced
             /\ more[r].at = "copy" /\ ~RacedAmong(more, more[r].name) =>
                  dir[more[r].name] = Written(more[r], FALSE, r)
             /\ more[r].at = "done" /\ ~RacedAmong(more, more[r].name) =>
                  dir[more[r].name] = Written(more[r], TRUE, r)
  <2>1. CASE more[r] = all[r]
    BY <1>1, <2>1 DEF OutputGood
  <2>2. CASE more[r] # all[r]
    BY <1>2, <2>2
  <2> QED
    BY <2>1, <2>2
<1>4. ASSUME NEW q \in Pulls, NEW r \in Pulls, q # r, more[q].name = more[r].name,
             Named(more[q]), Named(more[r])
      PROVE  /\ more[q].raced \/ more[r].raced
             /\ more[q].at = "move" /\ more[r].at = "move" => more[q].raced
  <2>1. more[q] = all[q] /\ more[r] = all[r]
    BY <1>4
  <2> QED
    BY <1>4, <2>1 DEF OutputGood
<1>5. IsFiniteSet(DOMAIN dir) /\ OldName \in DOMAIN dir
  BY DEF OutputGood
<1> QED
  BY <1>3, <1>4, <1>5 DEF OutputGood

\* One pull goes on, towards a name or to rest, and nothing else happens.
LEMMA OnePullMoves ==
  ASSUME PullsInv, OutputInv, NEW q \in Pulls, NEW new \in PullRecords,
         pull' = [pull EXCEPT ![q] = new], PullGood(new, folders),
         UNCHANGED <<folders, output>>,
         new.name = pull[q].name, new.raced = pull[q].raced, ~Named(new)
  PROVE  PullsInv' /\ OutputInv'
<1>1. pull \in [Pulls -> PullRecords] /\ \A r \in Pulls : PullGood(pull[r], folders)
  BY DEF PullsInv
<1>2. pull'[q] = new /\ \A r \in Pulls : r # q => pull'[r] = pull[r]
  BY <1>1
<1>3. PullsInv'
  <2>1. pull' \in [Pulls -> PullRecords]
    BY <1>1
  <2>2. \A r \in Pulls : PullGood(pull'[r], folders)
    BY <1>1, <1>2
  <2>3. folders' = folders
    OBVIOUS
  <2> QED
    BY <2>1, <2>2, <2>3 DEF PullsInv
<1>4. \A r \in Pulls : pull'[r].name = pull[r].name /\ pull'[r].raced = pull[r].raced
  BY <1>2
<1>5. \A r \in Pulls : Named(pull'[r]) => pull'[r] = pull[r]
  <2> TAKE r \in Pulls
  <2>1. CASE r = q
    <3>1. pull'[r] = new
      BY <1>2, <2>1
    <3> QED
      BY <3>1 DEF Named
  <2>2. CASE r # q
    BY <1>2, <2>2
  <2> QED
    BY <2>1, <2>2
<1>6. OutputInv'
  <2>1. OutputGood(pull, output)
    BY DEF OutputInv
  <2>2. OutputGood(pull', output)
    <3>1. PICK all, more, dir : all = pull /\ more = pull' /\ dir = output
      OBVIOUS
    <3>2. /\ OutputGood(all, dir)
          /\ \A r \in Pulls : more[r].name = all[r].name /\ more[r].raced = all[r].raced
          /\ \A r \in Pulls : Named(more[r]) => more[r] = all[r]
      BY <1>4, <1>5, <2>1, <3>1
    <3>3. OutputGood(more, dir)
      BY <3>2, OutputFrame
    <3> QED
      BY <3>1, <3>3
  <2>3. output' = output
    OBVIOUS
  <2> QED
    BY <2>2, <2>3 DEF OutputInv
<1> QED
  BY <1>3, <1>6

\* finalize_output finds a name that is free.
LEMMA UnclaimedFree ==
  ASSUME IsFiniteSet(DOMAIN output), NEW stem
  PROVE  /\ Unclaimed(stem) \notin DOMAIN output
         /\ \E k \in Nat : Unclaimed(stem) = [stem |-> stem, n |-> k]
<1> DEFINE c == Cardinality(DOMAIN output)
           name(n) == [stem |-> stem, n |-> n]
           free == {n \in 0..c : name(n) \notin DOMAIN output}
<1>1. c \in Nat
  BY FS_CardinalityType
<1>2. free # {}
  <2>1. SUFFICES ASSUME \A n \in 0..c : name(n) \in DOMAIN output
                 PROVE  FALSE
    OBVIOUS
  <2> DEFINE f == [n \in 0..c |-> name(n)]
  <2>2. f \in [0..c -> DOMAIN output]
    BY <2>1
  <2>3. \A m, n \in 0..c : f[m] = f[n] => m = n
    <3> TAKE m, n \in 0..c
    <3>1. name(m).n = m /\ name(n).n = n
      OBVIOUS
    <3> QED
      BY <3>1
  <2>4. f \in Injection(0..c, DOMAIN output)
    BY <2>2, <2>3 DEF Injection, IsInjective
  <2> HIDE DEF f, c
  <2>5. IsFiniteSet(0..c) /\ Cardinality(0..c) = c + 1
    BY <1>1, FS_Interval
  <2>6. c + 1 <= Cardinality(DOMAIN output)
    BY <2>4, <2>5, FS_Injection
  <2> QED
    BY <1>1, <2>6 DEF c
<1>3. free \in SUBSET Nat
  BY <1>1
<1> HIDE DEF free
<1>4. Min(free) \in free
  BY <1>2, <1>3, LeastNatural
<1>5. Min(free) \in Nat /\ name(Min(free)) \notin DOMAIN output
  BY <1>1, <1>4 DEF free
<1>6. Unclaimed(stem) = name(Min(free))
  BY DEF Unclaimed, free
<1> QED
  BY <1>5, <1>6
\* The steps of a pull up to its blob, and its failures.
LEMMA FetchingKeeps ==
  ASSUME FolderInv, PullsInv, OutputInv, LeftType, NEW q \in Pulls,
         BeginPull(q) \/ List(q) \/ Fetch(q) \/ FetchBreaks(q) \/ JoinAndDecrypt(q)
           \/ StopPull(q)
  PROVE  PullsInv' /\ OutputInv' /\ LeftType' /\ UNCHANGED <<folders, drive, push>>
<1> DEFINE old == pull[q]
           Moves(new) == /\ new \in PullRecords /\ PullGood(new, folders)
                         /\ pull' = [pull EXCEPT ![q] = new]
                         /\ new.name = old.name /\ new.raced = old.raced
                         /\ ~Named(new) /\ UNCHANGED <<folders, output>>
<1>1. pull \in [Pulls -> PullRecords] /\ old \in PullRecords /\ PullGood(old, folders)
  BY DEF PullsInv
<1>2. /\ old.session \in Sessions \cup {None} /\ old.right \in BOOLEAN
      /\ old.items \in Listings /\ old.local \in Seq(Blocks) /\ old.partial \in Blocks
      /\ old.blob \in Texts
  BY <1>1 DEF PullRecords
<1>3. Len(old.local) \in Nat /\ Len(old.items) \in Nat
  BY <1>2 DEF Listings
<1>4. << >> \in Listings /\ << >> \in Seq(Blocks) /\ << >> \in Blocks /\ << >> \in Texts
      /\ Len(<< >>) = 0
  BY EmptySeq DEF Listings, Blocks, Texts
<1>5. ASSUME NEW new, Moves(new)
      PROVE  PullsInv' /\ OutputInv'
  BY <1>5, OnePullMoves
<1>6. CASE BeginPull(q)
  <2>1. PICK s \in Sessions \cup {None}, right \in BOOLEAN :
          IF folders = {}
            THEN pull' = [pull EXCEPT ![q].at = "unfound", ![q].session = s,
                                      ![q].right = right]
            ELSE \E f \in folders :
                   pull' = [pull EXCEPT ![q].at = "list", ![q].session = s,
                                        ![q].right = right, ![q].folder = f]
    BY <1>6 DEF BeginPull
  <2>2. old.at = "idle" /\ UNCHANGED <<folders, drive, push, output, left>>
    BY <1>6 DEF BeginPull, PullAt
  <2>3. old.local = << >> /\ Len(old.local) <= Len(old.items) /\ ~old.raced
    BY <1>1, <2>2 DEF PullGood
  <2>4. CASE folders = {}
    <3> DEFINE new == [old EXCEPT !.at = "unfound", !.session = s, !.right = right]
    <3>1. pull' = [pull EXCEPT ![q] = new]
      BY <2>1, <2>4
    <3>2. new \in PullRecords
      BY <1>1 DEF PullRecords, PullPlaces
    <3>3. /\ new.at = "unfound" /\ new.local = old.local /\ new.items = old.items
          /\ new.name = old.name /\ new.raced = old.raced
      BY <1>1 DEF PullRecords
    <3> HIDE DEF new
    <3>4. PullGood(new, folders) /\ ~Named(new)
      BY <2>3, <3>3 DEF PullGood, Named
    <3> QED
      BY <1>5, <2>2, <3>1, <3>2, <3>3, <3>4 DEF LeftType
  <2>5. CASE folders # {}
    <3>1. PICK f \in folders :
            pull' = [pull EXCEPT ![q].at = "list", ![q].session = s,
                                 ![q].right = right, ![q].folder = f]
      BY <2>1, <2>5
    <3> DEFINE new == [old EXCEPT !.at = "list", !.session = s, !.right = right,
                                  !.folder = f]
    <3>2. pull' = [pull EXCEPT ![q] = new]
      BY <3>1
    <3>3. new \in PullRecords
      <4>1. f \in FolderIds \cup {None}
        BY DEF FolderInv
      <4> QED
        BY <1>1, <4>1 DEF PullRecords, PullPlaces
    <3>4. /\ new.at = "list" /\ new.local = old.local /\ new.items = old.items
          /\ new.name = old.name /\ new.raced = old.raced /\ new.folder = f
      BY <1>1 DEF PullRecords
    <3> HIDE DEF new
    <3>5. PullGood(new, folders) /\ ~Named(new)
      BY <2>3, <3>4 DEF PullGood, Named
    <3> QED
      BY <1>5, <2>2, <3>2, <3>3, <3>4, <3>5 DEF LeftType
  <2> QED
    BY <2>4, <2>5
<1>7. CASE List(q)
  <2> DEFINE files == Selected(q)
  <2>1. old.at = "list" /\ UNCHANGED <<folders, drive, push, output, left>>
    BY <1>7 DEF List, PullAt
  <2>2. files \in SUBSET drive /\ \A f \in files : old.session \in {f.session, None}
    BY DEF Selected, Listed
  <2>3. PICK items : items = Sorted(files)
    OBVIOUS
  <2>4. items \in Listings /\ GoodListing(items, old.session)
    BY <2>2, <2>3, ListingType
  <2>5. PICK at \in {"unfound", "fetch"} :
          at = IF files = {} THEN "unfound" ELSE "fetch"
    OBVIOUS
  <2> DEFINE new == [old EXCEPT !.at = at, !.items = items]
  <2>6. pull' = [pull EXCEPT ![q] = new]
    BY <1>7, <2>3, <2>5 DEF List
  <2>7. new \in PullRecords
    BY <1>1, <2>4 DEF PullRecords, PullPlaces
  <2>8. /\ new.at = at /\ new.local = old.local /\ new.items = items
        /\ new.session = old.session
        /\ new.name = old.name /\ new.raced = old.raced
    BY <1>1 DEF PullRecords
  <2>9. old.local = << >> /\ ~old.raced
    BY <1>1, <2>1 DEF PullGood
  <2>10. Len(items) \in Nat
    BY <2>4 DEF Listings
  <2> HIDE DEF new
  <2>11. PullGood(new, folders) /\ ~Named(new)
    <3>1. Len(new.local) = 0 /\ Len(new.local) <= Len(new.items)
      BY <1>4, <2>8, <2>9, <2>10
    <3>2. new.at = "unfound" \/ new.at = "fetch"
      BY <2>5, <2>8
    <3>3. GoodListing(new.items, new.session)
      BY <2>4, <2>8
    <3>4. 1..Len(new.local) = {}
      BY <3>1
    <3> QED
      BY <2>8, <2>9, <3>1, <3>2, <3>3, <3>4 DEF PullGood, Named
  <2> QED
    BY <1>5, <2>1, <2>6, <2>7, <2>8, <2>11 DEF LeftType
<1>8. Fetching(q) =>
        /\ old.at = "fetch" /\ GoodListing(old.items, old.session) /\ ~old.raced
        /\ \A k \in 1..Len(old.local) : old.local[k] = DataOf(old.items[k])
        /\ Len(old.local) + 1 \in 1..Len(old.items)
        /\ Wanted(q) = DataOf(old.items[Len(old.local) + 1])
        /\ Wanted(q) \in Blocks
  <2> SUFFICES ASSUME Fetching(q)
               PROVE  /\ old.at = "fetch" /\ GoodListing(old.items, old.session)
                      /\ ~old.raced
                      /\ \A k \in 1..Len(old.local) : old.local[k] = DataOf(old.items[k])
                      /\ Len(old.local) + 1 \in 1..Len(old.items)
                      /\ Wanted(q) = DataOf(old.items[Len(old.local) + 1])
                      /\ Wanted(q) \in Blocks
    OBVIOUS
  <2>1. old.at = "fetch" /\ Len(old.local) < Len(old.items)
    BY DEF Fetching, PullAt
  <2>2. /\ GoodListing(old.items, old.session) /\ ~old.raced
        /\ \A k \in 1..Len(old.local) : old.local[k] = DataOf(old.items[k])
    BY <1>1, <2>1 DEF PullGood
  <2>3. PICK k \in Nat : k = Len(old.local) + 1 /\ k \in 1..Len(old.items)
    BY <1>3, <2>1
  <2>4. Wanted(q) = DataOf(old.items[k])
    BY <2>3 DEF Wanted
  <2>5. Stored(old.items[k])
    BY <2>2, <2>3 DEF GoodListing
  <2>6. DataOf(old.items[k]) \in Seq(BytesFor(None))
    BY <2>5, DataType
  <2>7. BytesFor(None) = AllBytes
    BY DEF BytesFor
  <2> QED
    BY <2>1, <2>2, <2>3, <2>4, <2>6, <2>7 DEF Blocks
<1>9. CASE Fetch(q)
  <2>1. Fetching(q) /\ UNCHANGED <<folders, drive, push, output, left>>
    BY <1>9 DEF Fetch
  <2>2. PICK data \in Blocks : data = Wanted(q)
    BY <1>8, <2>1
  <2>3. PICK local : local = Append(old.local, data)
    OBVIOUS
  <2> DEFINE new == [old EXCEPT !.local = local, !.partial = << >>]
  <2>4. pull' = [pull EXCEPT ![q] = new]
    BY <1>9, <2>2, <2>3 DEF Fetch
  <2>5. /\ local \in Seq(Blocks) /\ Len(local) = Len(old.local) + 1
        /\ local[Len(old.local) + 1] = data
        /\ \A k \in 1..Len(old.local) : local[k] = old.local[k]
    <3>1. PICK blocks : blocks = Blocks
      OBVIOUS
    <3>2. old.local \in Seq(blocks) /\ data \in blocks
      BY <1>2, <2>2, <3>1
    <3>3. /\ local \in Seq(blocks) /\ Len(local) = Len(old.local) + 1
          /\ local[Len(old.local) + 1] = data
          /\ \A k \in 1..Len(old.local) : local[k] = old.local[k]
      BY <2>3, <3>2
    <3> QED
      BY <3>1, <3>3
  <2>6. new \in PullRecords
    BY <1>1, <1>4, <2>5 DEF PullRecords
  <2>7. /\ new.at = old.at /\ new.local = local /\ new.items = old.items
        /\ new.session = old.session /\ new.name = old.name /\ new.raced = old.raced
    BY <1>1 DEF PullRecords
  <2> HIDE DEF new
  <2>8. \A k \in 1..Len(local) : local[k] = DataOf(old.items[k])
    <3> TAKE k \in 1..Len(local)
    <3>1. CASE k = Len(old.local) + 1
      BY <1>8, <2>1, <2>2, <2>5, <3>1
    <3>2. CASE k # Len(old.local) + 1
      <4>1. k \in 1..Len(old.local)
        BY <1>3, <2>5, <3>2
      <4> QED
        BY <1>8, <2>1, <2>5, <4>1
    <3> QED
      BY <3>1, <3>2
  <2>9. Len(local) <= Len(old.items)
    BY <1>3, <1>8, <2>1, <2>5
  <2>10. PullGood(new, folders) /\ ~Named(new)
    BY <1>8, <2>1, <2>7, <2>8, <2>9 DEF PullGood, Named
  <2> QED
    BY <1>5, <2>1, <2>4, <2>6, <2>7, <2>10 DEF LeftType
<1>10. CASE FetchBreaks(q)
  <2>1. Fetching(q) /\ UNCHANGED <<folders, drive, push, output>> /\ LeftType'
    BY <1>10, SpendType DEF FetchBreaks, Mishaps
  <2>2. PICK data \in Blocks : data = Wanted(q)
    BY <1>8, <2>1
  <2>3. PICK n \in 0..Len(data) : pull' = [pull EXCEPT ![q].partial = SubSeq(data, 1, n)]
    BY <1>10, <2>2 DEF FetchBreaks
  <2>4. PICK partial \in Blocks : partial = SubSeq(data, 1, n)
    <3>1. PICK bytes : bytes = AllBytes
      OBVIOUS
    <3>2. data \in Seq(bytes) /\ n \in 0..Len(data)
      BY <2>2, <2>3, <3>1 DEF Blocks
    <3>3. SubSeq(data, 1, n) \in Seq(bytes)
      BY <3>2
    <3> QED
      BY <3>1, <3>3 DEF Blocks
  <2> DEFINE new == [old EXCEPT !.partial = partial]
  <2>5. pull' = [pull EXCEPT ![q] = new]
    BY <2>3, <2>4
  <2>6. new \in PullRecords
    BY <1>1, <2>4 DEF PullRecords
  <2>7. /\ new.at = old.at /\ new.local = old.local /\ new.items = old.items
        /\ new.session = old.session /\ new.name = old.name /\ new.raced = old.raced
    BY <1>1 DEF PullRecords
  <2> HIDE DEF new
  <2>8. PullGood(new, folders) /\ ~Named(new)
    BY <1>1, <1>8, <2>1, <2>7 DEF PullGood, Named
  <2> QED
    BY <1>5, <2>1, <2>5, <2>6, <2>7, <2>8
<1>11. CASE JoinAndDecrypt(q)
  <2>1. /\ old.at = "fetch" /\ Len(old.local) = Len(old.items)
        /\ UNCHANGED <<folders, drive, push, output, left>>
    BY <1>11 DEF JoinAndDecrypt, PullAt
  <2>2. /\ GoodListing(old.items, old.session) /\ ~old.raced
        /\ \A k \in 1..Len(old.local) : old.local[k] = DataOf(old.items[k])
    BY <1>1, <2>1 DEF PullGood
  <2>3. PICK at, blob :
          /\ at = IF Authentic(q) THEN "finalize" ELSE "invalid"
          /\ blob = IF Authentic(q) THEN Plain(Decrypted(q), old.right) ELSE << >>
    OBVIOUS
  <2> DEFINE new == [old EXCEPT !.at = at, !.blob = blob, !.local = << >>]
  <2>4. pull' = [pull EXCEPT ![q] = new]
    BY <1>11, <2>3 DEF JoinAndDecrypt
  <2>5. at = "finalize" =>
          \E s \in Sessions : old.session \in {s, None} /\ blob = Jobs[s].text
    <3>1. CASE Authentic(q)
      <4>1. old.local \in Seq(Seq(BytesFor(old.session)))
        <5>1. PICK some : some = Seq(BytesFor(old.session))
          OBVIOUS
        <5>2. \A k \in 1..Len(old.local) : old.local[k] \in some
          BY <2>1, <2>2, <5>1, DataType DEF GoodListing
        <5>3. old.local \in [1..Len(old.local) -> some]
          <6>1. PICK blocks : blocks = Blocks
            OBVIOUS
          <6>2. old.local \in Seq(blocks)
            BY <1>2, <6>1
          <6> QED
            BY <5>2, <6>2
        <5>4. old.local \in Seq(some)
          BY <1>3, <5>3, FunctionIsSequence
        <5> QED
          BY <5>1, <5>4
      <4> QED
        BY <1>2, <2>3, <3>1, <4>1, AuthenticMeansPushed
    <3>2. CASE ~Authentic(q)
      BY <2>3, <3>2
    <3> QED
      BY <3>1, <3>2
  <2>6. (at = "finalize" \/ at = "invalid") /\ blob \in Texts
    <3>1. at = "finalize" \/ (at = "invalid" /\ blob = << >>)
      BY <2>3
    <3> QED
      BY <1>4, <2>5, <3>1 DEF Texts
  <2>7. new \in PullRecords
    BY <1>1, <1>4, <2>6 DEF PullRecords, PullPlaces
  <2>8. /\ new.at = at /\ new.local = << >> /\ new.items = old.items /\ new.blob = blob
        /\ new.session = old.session /\ new.name = old.name /\ new.raced = old.raced
    BY <1>1 DEF PullRecords
  <2> HIDE DEF new
  <2>9. PullGood(new, folders) /\ ~Named(new)
    <3>1. Len(new.local) <= Len(new.items)
      BY <1>3, <1>4, <2>8
    <3>2. new.at = "finalize" \/ new.at = "invalid"
      BY <2>6, <2>8
    <3> QED
      BY <2>2, <2>5, <2>8, <3>1, <3>2 DEF PullGood, Named
  <2> QED
    BY <1>5, <2>1, <2>4, <2>7, <2>8, <2>9 DEF LeftType
<1>12. CASE StopPull(q)
  <2>1. UNCHANGED <<folders, drive, push, output>> /\ LeftType'
    BY <1>12, SpendType DEF StopPull, Mishaps
  <2> DEFINE new == [old EXCEPT !.at = "stopped"]
  <2>2. pull' = [pull EXCEPT ![q] = new]
    BY <1>12 DEF StopPull
  <2>3. new \in PullRecords
    BY <1>1 DEF PullRecords, PullPlaces
  <2>4. /\ new.at = "stopped" /\ new.local = old.local /\ new.items = old.items
        /\ new.name = old.name /\ new.raced = old.raced
    BY <1>1 DEF PullRecords
  <2> HIDE DEF new
  <2>5. PullGood(new, folders) /\ ~Named(new)
    BY <1>1, <2>4 DEF PullGood, Named
  <2> QED
    BY <1>5, <2>1, <2>2, <2>3, <2>4, <2>5
<1> QED
  BY <1>6, <1>7, <1>9, <1>10, <1>11, <1>12
\* A pull has picked a name that is free; those that had picked it have raced it.
LEMMA NamePicked ==
  ASSUME NEW all, NEW more, NEW dir, OutputGood(all, dir),
         NEW q \in Pulls, NEW name, name \notin DOMAIN dir,
         all[q].at = "finalize", ~all[q].raced,
         more[q].at = "move", more[q].name = name,
         \A r \in Pulls \ {q} :
           /\ more[r].at = all[r].at /\ more[r].name = all[r].name
           /\ more[r].blob = all[r].blob /\ more[r].wrapped = all[r].wrapped
           /\ all[r].raced => more[r].raced
           /\ all[r].at = "move" /\ all[r].name = name => more[r].raced /\ more[q].raced
  PROVE  OutputGood(more, dir)
<1>1. \A n : RacedAmong(all, n) => RacedAmong(more, n)
  BY DEF RacedAmong
<1>2. ASSUME NEW r \in Pulls
      PROVE  /\ more[r].at \in {"copy", "done"} => more[r].name \in DOMAIN dir
             /\ more[r].at = "move" /\ more[r].name \in DOMAIN dir => more[r].raced
             /\ more[r].at = "copy" /\ ~RacedAmong(more, more[r].name) =>
                  dir[more[r].name] = Written(more[r], FALSE, r)
             /\ more[r].at = "done" /\ ~RacedAmong(more, more[r].name) =>
                  dir[more[r].name] = Written(more[r], TRUE, r)
  <2>1. CASE r = q
    BY <2>1
  <2>2. CASE r # q
    <3>1. /\ more[r].at = all[r].at /\ more[r].name = all[r].name
          /\ more[r].blob = all[r].blob /\ more[r].wrapped = all[r].wrapped
          /\ all[r].raced => more[r].raced
      BY <2>2
    <3>2. \A whole : Written(more[r], whole, r) = Written(all[r], whole, r)
      BY <3>1 DEF Written
    <3>3. /\ all[r].at \in {"copy", "done"} => all[r].name \in DOMAIN dir
          /\ all[r].at = "move" /\ all[r].name \in DOMAIN dir => all[r].raced
          /\ all[r].at = "copy" /\ ~RacedAmong(all, all[r].name) =>
               dir[all[r].name] = Written(all[r], FALSE, r)
          /\ all[r].at = "done" /\ ~RacedAmong(all, all[r].name) =>
               dir[all[r].name] = Written(all[r], TRUE, r)
      BY DEF OutputGood
    <3> QED
      BY <1>1, <3>1, <3>2, <3>3
  <2> QED
    BY <2>1, <2>2
<1>3. ASSUME NEW p \in Pulls, NEW r \in Pulls, p # r, more[p].name = more[r].name,
             Named(more[p]), Named(more[r])
      PROVE  /\ more[p].raced \/ more[r].raced
             /\ more[p].at = "move" /\ more[r].at = "move" => more[p].raced
  <2>1. ASSUME NEW t \in Pulls, t # q, Named(more[t]), more[t].name = name
        PROVE  all[t].at = "move" /\ more[t].raced /\ more[q].raced
    <3>1. all[t].at \in {"copy", "done"} => all[t].name \in DOMAIN dir
      BY DEF OutputGood
    <3>2. more[t].at = all[t].at /\ more[t].name = all[t].name
      BY <2>1
    <3> QED
      BY <2>1, <3>1, <3>2 DEF Named
  <2>2. CASE p = q
    BY <1>3, <2>1, <2>2
  <2>3. CASE r = q
    BY <1>3, <2>1, <2>3
  <2>4. CASE p # q /\ r # q
    <3>1. /\ more[p].at = all[p].at /\ more[p].name = all[p].name
          /\ more[r].at = all[r].at /\ more[r].name = all[r].name
          /\ all[p].raced => more[p].raced
          /\ all[r].raced => more[r].raced
      BY <2>4
    <3>2. Named(all[p]) /\ Named(all[r]) /\ all[p].name = all[r].name
      BY <1>3, <3>1 DEF Named
    <3>3. /\ all[p].raced \/ all[r].raced
          /\ all[p].at = "move" /\ all[r].at = "move" => all[p].raced
      BY <1>3, <3>2 DEF OutputGood
    <3> QED
      BY <3>1, <3>3
  <2> QED
    BY <2>2, <2>3, <2>4
<1>4. IsFiniteSet(DOMAIN dir) /\ OldName \in DOMAIN dir
  BY DEF OutputGood
<1> QED
  BY <1>2, <1>3, <1>4 DEF OutputGood

\* A pull writes what it has, in whole or in part, under its name.
Writes(q, all, more, dir, now, whole) ==
  LET name == all[q].name IN
  /\ all[q].at \in {"move", "copy"} /\ more[q].at \in {"copy", "done"}
  /\ more[q].name = name /\ more[q].blob = all[q].blob
  /\ more[q].wrapped = all[q].wrapped /\ more[q].raced = all[q].raced
  /\ \A r \in Pulls \ {q} : more[r] = all[r]
  /\ DOMAIN now = DOMAIN dir \cup {name}
  /\ now[name] = Written(all[q], whole, q)
  /\ \A n \in DOMAIN dir \ {name} : now[n] = dir[n]
  /\ ~RacedAmong(all, name) =>
       /\ more[q].at = "copy" => whole = FALSE
       /\ more[q].at = "done" => whole = TRUE

LEMMA FileWritten ==
  ASSUME NEW all, NEW more, NEW dir, NEW now, OutputGood(all, dir),
         NEW q \in Pulls, NEW whole, Writes(q, all, more, dir, now, whole)
  PROVE  OutputGood(more, now)
<1>0. PICK name : name = all[q].name
  OBVIOUS
<1> USE <1>0 DEF Writes
<1>1. \A n : RacedAmong(more, n) <=> RacedAmong(all, n)
  <2>1. \A r \in Pulls : more[r].name = all[r].name /\ more[r].raced = all[r].raced
    OBVIOUS
  <2> QED
    BY <2>1 DEF RacedAmong
<1>2. Named(all[q])
  BY DEF Named
<1>3. ASSUME NEW r \in Pulls
      PROVE  /\ more[r].at \in {"copy", "done"} => more[r].name \in DOMAIN now
             /\ more[r].at = "move" /\ more[r].name \in DOMAIN now => more[r].raced
             /\ more[r].at = "copy" /\ ~RacedAmong(more, more[r].name) =>
                  now[more[r].name] = Written(more[r], FALSE, r)
             /\ more[r].at = "done" /\ ~RacedAmong(more, more[r].name) =>
                  now[more[r].name] = Written(more[r], TRUE, r)
  <2>1. CASE r = q
    <3>1. \A w : Written(more[q], w, q) = Written(all[q], w, q)
      BY DEF Written
    <3> QED
      BY <1>1, <2>1, <3>1
  <2>2. CASE r # q
    <3>1. more[r] = all[r]
      BY <2>2
    <3>2. /\ all[r].at \in {"copy", "done"} => all[r].name \in DOMAIN dir
          /\ all[r].at = "move" /\ all[r].name \in DOMAIN dir => all[r].raced
          /\ all[r].at = "copy" /\ ~RacedAmong(all, all[r].name) =>
               dir[all[r].name] = Written(all[r], FALSE, r)
          /\ all[r].at = "done" /\ ~RacedAmong(all, all[r].name) =>
               dir[all[r].name] = Written(all[r], TRUE, r)
      BY DEF OutputGood
    <3>3. CASE all[r].name # name
      BY <1>1, <3>1, <3>2, <3>3
    <3>4. CASE all[r].name = name /\ Named(all[r])
      <4>1. /\ all[r].raced \/ all[q].raced
            /\ all[r].at = "move" /\ all[q].at = "move" => all[r].raced
        BY <1>2, <2>2, <3>4 DEF OutputGood
      <4>2. RacedAmong(all, name)
        BY <3>4, <4>1 DEF RacedAmong
      <4>3. all[r].at = "move" /\ all[q].at = "copy" => all[r].raced
        <5>1. all[q].at = "copy" => name \in DOMAIN dir
          BY DEF OutputGood
        <5> QED
          BY <3>2, <3>4, <5>1
      <4> QED
        BY <1>1, <3>1, <3>2, <3>4, <4>1, <4>2, <4>3
    <3>5. CASE ~Named(all[r])
      BY <3>1, <3>5 DEF Named
    <3> QED
      BY <3>3, <3>4, <3>5
  <2> QED
    BY <2>1, <2>2
<1>4. ASSUME NEW p \in Pulls, NEW r \in Pulls, p # r, more[p].name = more[r].name,
             Named(more[p]), Named(more[r])
      PROVE  /\ more[p].raced \/ more[r].raced
             /\ more[p].at = "move" /\ more[r].at = "move" => more[p].raced
  <2>1. \A t \in Pulls : /\ more[t].name = all[t].name /\ more[t].raced = all[t].raced
                         /\ Named(more[t]) => Named(all[t])
                         /\ more[t].at = "move" => all[t].at = "move"
    <3> TAKE t \in Pulls
    <3>1. CASE t = q
      BY <1>2, <3>1
    <3>2. CASE t # q
      BY <3>2
    <3> QED
      BY <3>1, <3>2
  <2>2. all[p].name = all[r].name /\ Named(all[p]) /\ Named(all[r])
    BY <1>4, <2>1
  <2>3. /\ all[p].raced \/ all[r].raced
        /\ all[p].at = "move" /\ all[r].at = "move" => all[p].raced
    BY <1>4, <2>2 DEF OutputGood
  <2> QED
    BY <2>1, <2>3
<1>5. IsFiniteSet(DOMAIN now) /\ OldName \in DOMAIN now
  <2>1. IsFiniteSet(DOMAIN dir \cup {name})
    BY FS_AddElement DEF OutputGood
  <2> QED
    BY <2>1 DEF OutputGood
<1> QED
  BY <1>3, <1>4, <1>5 DEF OutputGood
\* The choice of a name.
LEMMA PickKeeps ==
  ASSUME PullsInv, OutputInv, NEW q \in Pulls, PullAt(q, "finalize"),
         NEW wrapped \in BOOLEAN, Pick(q, wrapped), UNCHANGED <<folders, output>>
  PROVE  PullsInv' /\ OutputInv'
<1>1. /\ pull \in [Pulls -> PullRecords] /\ pull[q] \in PullRecords
      /\ \A r \in Pulls : PullGood(pull[r], folders)
  BY DEF PullsInv
<1>2. pull[q].at = "finalize" /\ ~pull[q].raced
  BY <1>1 DEF PullAt, PullGood
<1>3. PICK stem : stem = Stem(pull[q].blob, wrapped)
  OBVIOUS
<1>4. stem \in {"result", "result.tar", "top.tar"}
  BY <1>3 DEF Stem
<1>5. PICK name : name = Unclaimed(stem)
  OBVIOUS
<1>6. name \notin DOMAIN output /\ name \in OutputNames
  <2>1. IsFiniteSet(DOMAIN output)
    BY DEF OutputInv, OutputGood
  <2>2. name \notin DOMAIN output /\ \E k \in Nat : name = [stem |-> stem, n |-> k]
    BY <1>5, <2>1, UnclaimedFree
  <2>3. PICK k \in Nat : name = [stem |-> stem, n |-> k]
    BY <2>2
  <2>4. stem \in {"", "result", "result.tar", "top.tar"}
    BY <1>4
  <2>5. [stem |-> stem, n |-> k] \in OutputNames
    BY <2>4 DEF OutputNames
  <2> QED
    BY <2>2, <2>3, <2>5
<1> DEFINE rivals == {r \in Pulls \ {q} : pull[r].at = "move" /\ pull[r].name = name}
           new == [pull[q] EXCEPT !.at = "move", !.name = name,
                                  !.wrapped = wrapped, !.raced = rivals # {}]
<1>7. pull' = [r \in Pulls |->
                 IF r = q THEN new
                 ELSE IF r \in rivals THEN [pull[r] EXCEPT !.raced = TRUE] ELSE pull[r]]
  BY <1>3, <1>5 DEF Pick
<1>8. PICK race \in BOOLEAN : race = (rivals # {})
  BY Zenon
<1>9. new = [pull[q] EXCEPT !.at = "move", !.name = name,
                            !.wrapped = wrapped, !.raced = race]
  BY <1>8
<1>10. rivals # {} => race
  BY <1>8
<1> HIDE DEF new
<1>11. /\ new \in PullRecords /\ new.at = "move" /\ new.name = name
       /\ new.raced = race /\ new.local = pull[q].local /\ new.items = pull[q].items
       /\ new.session = pull[q].session /\ new.blob = pull[q].blob
  BY <1>1, <1>6, <1>9 DEF PullRecords, PullPlaces
<1>12. \A r \in Pulls \ {q} :
         /\ pull'[r] \in PullRecords
         /\ pull'[r].at = pull[r].at /\ pull'[r].name = pull[r].name
         /\ pull'[r].blob = pull[r].blob /\ pull'[r].wrapped = pull[r].wrapped
         /\ pull'[r].local = pull[r].local /\ pull'[r].items = pull[r].items
         /\ pull'[r].session = pull[r].session /\ pull'[r].folder = pull[r].folder
         /\ pull[r].raced => pull'[r].raced
         /\ r \in rivals => pull'[r].raced
         /\ pull[r].at # "move" => pull'[r].raced = pull[r].raced
  <2> TAKE r \in Pulls \ {q}
  <2>1. pull[r] \in PullRecords
    BY <1>1
  <2>2. CASE r \in rivals
    <3>1. pull'[r] = [pull[r] EXCEPT !.raced = TRUE]
      BY <1>7, <2>2
    <3>2. pull[r].at = "move"
      BY <2>2
    <3> QED
      BY <2>1, <3>1, <3>2 DEF PullRecords
  <2>3. CASE r \notin rivals
    <3>1. pull'[r] = pull[r]
      BY <1>7, <2>3
    <3> QED
      BY <2>1, <2>3, <3>1
  <2> QED
    BY <2>2, <2>3
<1>13. pull'[q] = new /\ DOMAIN pull' = Pulls
  BY <1>7
<1>14. pull' \in [Pulls -> PullRecords]
  <2>1. \A r \in Pulls : pull'[r] \in PullRecords
    BY <1>11, <1>12, <1>13
  <2>2. pull' = [r \in Pulls |-> pull'[r]]
    BY <1>7
  <2> QED
    BY <2>1, <2>2
<1>15. PullsInv'
  <2>1. PullGood(pull'[q], folders)
    <3>1. PullGood(pull[q], folders)
      BY <1>1
    <3> QED
      BY <1>2, <1>11, <1>13, <3>1 DEF PullGood
  <2>2. \A r \in Pulls \ {q} : PullGood(pull'[r], folders)
    <3> TAKE r \in Pulls \ {q}
    <3>1. PICK p, n : p = pull[r] /\ n = pull'[r]
      OBVIOUS
    <3>2. PullGood(p, folders)
      BY <1>1, <3>1
    <3>3. /\ n.at = p.at /\ n.blob = p.blob /\ n.local = p.local /\ n.items = p.items
          /\ n.session = p.session /\ n.folder = p.folder
          /\ p.at # "move" => n.raced = p.raced
      BY <1>12, <3>1
    <3>4. PullGood(n, folders)
      BY <3>2, <3>3 DEF PullGood
    <3> QED
      BY <3>1, <3>4
  <2>3. \A r \in Pulls : PullGood(pull'[r], folders)
    BY <2>1, <2>2
  <2>4. folders' = folders
    OBVIOUS
  <2> QED
    BY <1>14, <2>3, <2>4 DEF PullsInv
<1>16. OutputInv'
  <2>1. PICK all, more, dir : all = pull /\ more = pull' /\ dir = output
    OBVIOUS
  <2>2. OutputGood(all, dir) /\ name \notin DOMAIN dir
    BY <1>6, <2>1 DEF OutputInv
  <2>3. /\ all[q].at = "finalize" /\ ~all[q].raced
        /\ more[q].at = "move" /\ more[q].name = name
    BY <1>2, <1>11, <1>13, <2>1
  <2>4. \A r \in Pulls \ {q} :
          /\ more[r].at = all[r].at /\ more[r].name = all[r].name
          /\ more[r].blob = all[r].blob /\ more[r].wrapped = all[r].wrapped
          /\ all[r].raced => more[r].raced
          /\ all[r].at = "move" /\ all[r].name = name => more[r].raced /\ more[q].raced
    <3> TAKE r \in Pulls \ {q}
    <3>1. pull[r].at = "move" /\ pull[r].name = name => r \in rivals /\ pull'[q].raced
      BY <1>10, <1>11, <1>13
    <3> QED
      BY <1>12, <2>1, <3>1
  <2>5. OutputGood(more, dir)
    BY <2>2, <2>3, <2>4, NamePicked
  <2>6. output' = output
    OBVIOUS
  <2> QED
    BY <2>1, <2>5, <2>6 DEF OutputInv
<1> QED
  BY <1>15, <1>16
\* The file under the name: moved in one step, or copied in two.
LEMMA WriteKeeps ==
  ASSUME PullsInv, OutputInv, NEW q \in Pulls, NEW whole, NEW at \in {"copy", "done"},
         pull[q].at \in {"move", "copy"}, WritesOutput(q, whole),
         pull' = [pull EXCEPT ![q].at = at], UNCHANGED folders,
         ~Raced(pull[q].name) =>
           (at = "copy" => whole = FALSE) /\ (at = "done" => whole = TRUE)
  PROVE  PullsInv' /\ OutputInv'
<1> DEFINE new == [pull[q] EXCEPT !.at = at]
<1>1. /\ pull \in [Pulls -> PullRecords] /\ pull[q] \in PullRecords
      /\ \A r \in Pulls : PullGood(pull[r], folders)
  BY DEF PullsInv
<1>2. new \in PullRecords
  BY <1>1 DEF PullRecords, PullPlaces
<1>3. /\ new.at = at /\ new.name = pull[q].name /\ new.raced = pull[q].raced
      /\ new.local = pull[q].local /\ new.items = pull[q].items
      /\ new.session = pull[q].session /\ new.blob = pull[q].blob
      /\ new.wrapped = pull[q].wrapped
  BY <1>1 DEF PullRecords
<1>4. pull' = [pull EXCEPT ![q] = new]
  OBVIOUS
<1> HIDE DEF new
<1>5. /\ pull'[q] = new /\ \A r \in Pulls \ {q} : pull'[r] = pull[r]
      /\ pull' \in [Pulls -> PullRecords]
  BY <1>1, <1>2, <1>4
<1>6. PullsInv'
  <2>1. PullGood(pull[q], folders)
    BY <1>1
  <2>2. PullGood(new, folders)
    BY <1>3, <2>1 DEF PullGood
  <2>3. \A r \in Pulls : PullGood(pull'[r], folders)
    BY <1>1, <1>5, <2>2
  <2>4. folders' = folders
    OBVIOUS
  <2> QED
    BY <1>5, <2>3, <2>4 DEF PullsInv
<1>7. OutputInv'
  <2>1. PICK all, more, dir, now, name :
          /\ all = pull /\ more = pull' /\ dir = output /\ now = output'
          /\ name = pull[q].name
    OBVIOUS
  <2>2. OutputGood(all, dir)
    BY <2>1 DEF OutputInv
  <2>3. /\ name = all[q].name /\ all[q].at \in {"move", "copy"}
        /\ more[q].at = at /\ more[q].at \in {"copy", "done"}
        /\ more[q].name = name /\ more[q].blob = all[q].blob
        /\ more[q].wrapped = all[q].wrapped /\ more[q].raced = all[q].raced
        /\ \A r \in Pulls \ {q} : more[r] = all[r]
    BY <1>3, <1>5, <2>1
  <2>4. /\ DOMAIN now = DOMAIN dir \cup {name}
        /\ now[name] = Written(all[q], whole, q)
        /\ \A n \in DOMAIN dir \ {name} : now[n] = dir[n]
    BY <2>1 DEF WritesOutput, Written
  <2>5. ~RacedAmong(all, name) =>
          (more[q].at = "copy" => whole = FALSE) /\ (more[q].at = "done" => whole = TRUE)
    BY <2>1, <2>3 DEF Raced, RacedAmong
  <2>6. OutputGood(more, now)
    <3>1. Writes(q, all, more, dir, now, whole)
      BY <2>3, <2>4, <2>5 DEF Writes
    <3> QED
      BY <2>2, <3>1, FileWritten
  <2> QED
    BY <2>1, <2>6 DEF OutputInv
<1> QED
  BY <1>6, <1>7

\* The steps of a pull from its blob to its file.
LEMMA NamingKeeps ==
  ASSUME PullsInv, OutputInv, LeftType, NEW q \in Pulls,
         PickName(q) \/ PickNameWrapped(q) \/ Move(q) \/ StartCopy(q) \/ EndCopy(q)
  PROVE  PullsInv' /\ OutputInv' /\ LeftType' /\ UNCHANGED <<folders, drive, push>>
<1>1. CASE PickName(q)
  BY <1>1, PickKeeps DEF PickName, LeftType
<1>2. CASE PickNameWrapped(q)
  BY <1>2, PickKeeps, SpendType DEF PickNameWrapped, Mishaps
<1>3. CASE Move(q)
  BY <1>3, WriteKeeps DEF Move, PullAt, LeftType
<1>4. CASE StartCopy(q)
  BY <1>4, WriteKeeps DEF StartCopy, PullAt, LeftType
<1>5. CASE EndCopy(q)
  <2> DEFINE n == pull[q].name
             whole == /\ output[n].by = q
                      /\ \A r \in Pulls \ {q} : PullAt(r, "copy") => pull[r].name # n
  <2>1. /\ pull[q].at = "copy" /\ WritesOutput(q, whole)
        /\ pull' = [pull EXCEPT ![q].at = "done"] /\ UNCHANGED <<folders, drive, push, left>>
    BY <1>5 DEF EndCopy, PullAt
  <2>2. ~Raced(n) => whole
    <3> SUFFICES ASSUME ~Raced(n) PROVE whole
      OBVIOUS
    <3>1. ~RacedAmong(pull, n)
      BY DEF Raced, RacedAmong
    <3>2. output[n] = Written(pull[q], FALSE, q)
      BY <2>1, <3>1 DEF OutputInv, OutputGood
    <3>3. output[n].by = q
      BY <3>2 DEF Written
    <3>4. ASSUME NEW r \in Pulls \ {q}, PullAt(r, "copy"), pull[r].name = n
          PROVE  FALSE
      <4>1. Named(pull[q]) /\ Named(pull[r])
        BY <2>1, <3>4 DEF Named, PullAt
      <4>2. pull[q].raced \/ pull[r].raced
        BY <3>4, <4>1 DEF OutputInv, OutputGood
      <4> QED
        BY <3>1, <3>4, <4>2 DEF RacedAmong
    <3> QED
      BY <3>3, <3>4
  <2>3. PICK w : w = whole
    OBVIOUS
  <2>4. ~Raced(n) => w = TRUE
    BY <2>2, <2>3
  <2>5. WritesOutput(q, w)
    BY <2>1, <2>3
  <2> HIDE DEF whole
  <2>6. PullsInv' /\ OutputInv'
    BY <2>1, <2>4, <2>5, WriteKeeps
  <2> QED
    BY <2>1, <2>6 DEF LeftType
<1> QED
  BY <1>1, <1>2, <1>3, <1>4, <1>5
-----------------------------------------------------------------------------
(* The invariant.                                                          *)

StagedInv == FolderInv /\ PushesInv /\ LeftType /\ PullsInv /\ OutputInv

LEMMA StagedInit == Init => StagedInv
BY FolderInit, PullInit DEF StagedInv

LEMMA StagedStep == StagedInv /\ [Next]_vars => StagedInv'
<1> SUFFICES ASSUME StagedInv, [Next]_vars PROVE StagedInv'
  OBVIOUS
<1> USE DEF StagedInv
<1>1. ASSUME NEW s \in Sessions, PushStep(s)
      PROVE  StagedInv'
  <2>1. /\ FolderInv' /\ PushesInv' /\ LeftType'
        /\ folders \subseteq folders' /\ UNCHANGED <<pull, output>>
    BY <1>1, PushStepKeeps
  <2>2. PICK more : more = folders'
    OBVIOUS
  <2>3. \A q \in Pulls : PullGood(pull[q], more)
    BY <2>1, <2>2, PullGoodGrows DEF PullsInv
  <2>4. PullsInv' /\ OutputInv'
    BY <2>1, <2>2, <2>3 DEF PullsInv, OutputInv
  <2> QED
    BY <2>1, <2>4
<1>2. ASSUME NEW q \in Pulls, PullStep(q)
      PROVE  StagedInv'
  <2>1. /\ PullsInv' /\ OutputInv' /\ LeftType' /\ UNCHANGED <<folders, drive, push>>
    BY <1>2, FetchingKeeps, NamingKeeps DEF PullStep
  <2>2. FolderInv' /\ PushesInv'
    BY <2>1 DEF FolderInv, PushesInv, PushAt
  <2> QED
    BY <2>1, <2>2
<1>3. CASE UNCHANGED vars
  BY <1>3 DEF vars, FolderInv, PushesInv, PushAt, LeftType, PullsInv, OutputInv
<1> QED
  BY <1>1, <1>2, <1>3 DEF Next

LEMMA StagedAlways == Spec => []StagedInv
<1>1. Init => StagedInv
  BY StagedInit
<1>2. StagedInv /\ [Next]_vars => StagedInv'
  BY StagedStep
<1> QED
  BY <1>1, <1>2, PTL DEF Spec

\* TypeOK: what the pushes, the pulls, the folders and the output directory are
\* at any time, for any pushes and chunk sizes.
THEOREM StagedTypes == Spec => []TypeOK
<1>1. StagedInv => TypeOK
  <2> SUFFICES ASSUME StagedInv PROVE TypeOK
    OBVIOUS
  <2> USE DEF StagedInv
  <2>1. \A f \in drive : /\ f.folder \in folders /\ f.copy \in Nat
                         /\ f.session = None \/ NameOf(f) \in ChunkNames(f.session)
    <3> TAKE f \in drive
    <3>1. f.folder \in folders /\ f.copy \in Nat /\ Stored(f)
      BY DEF FolderInv
    <3>2. CASE f.session # None
      <4>1. f.session \in Sessions /\ f.index \in Nat /\ f.index < ChunkCount(f.session)
        BY <3>1, <3>2 DEF Stored
      <4>2. f.index \in 0..(ChunkCount(f.session) - 1)
        BY <4>1, ChunkType
      <4> QED
        BY <3>1, <4>2 DEF NameOf, ChunkNames
    <3> QED
      BY <3>1, <3>2
  <2>2. \A s \in Sessions : /\ push[s].at \in PushPlaces
                            /\ push[s].folder \in folders \cup {None}
                            /\ push[s].next \in 0..ChunkCount(s)
    BY ChunkType DEF PushesInv
  <2>3. \A q \in Pulls : pull[q].at \in PullPlaces /\ pull[q].session \in Sessions \cup {None}
    BY DEF PullsInv, PullRecords
  <2>4. \A q \in Pulls : Len(pull[q].local) <= Len(pull[q].items)
    BY DEF PullsInv, PullGood
  <2>5. /\ OldName \in DOMAIN output
        /\ \A q \in Pulls : pull[q].at = "done" => pull[q].name \in DOMAIN output
    BY DEF OutputInv, OutputGood
  <2>6. folders \subseteq FolderIds /\ left \in [Mishaps -> Nat]
    BY DEF FolderInv, LeftType
  <2> QED
    BY <2>1, <2>2, <2>3, <2>4, <2>5, <2>6 DEF TypeOK, PushPlaces, PullPlaces
<1> QED
  BY <1>1, StagedAlways, PTL

\* DoneMeansRestored: a pull that says "Done" has put the whole of a file that
\* was pushed into the output directory, under the session asked for, whatever
\* else was in the folder and however far the pushes were.
THEOREM DoneIsRestored == Spec => []DoneMeansRestored
<1>1. StagedInv => DoneMeansRestored
  <2> SUFFICES ASSUME StagedInv, NEW q \in Pulls, PullAt(q, "done"),
                      ~Raced(pull[q].name)
               PROVE  \E s \in Sessions :
                        /\ pull[q].session \in {s, None}
                        /\ output[pull[q].name] =
                             [text |-> Jobs[s].text, wrapped |-> pull[q].wrapped,
                              whole |-> TRUE, by |-> q]
    BY DEF DoneMeansRestored
  <2>1. pull[q].at = "done" /\ ~RacedAmong(pull, pull[q].name)
    BY DEF PullAt, Raced, RacedAmong
  <2>2. output[pull[q].name] = Written(pull[q], TRUE, q)
    BY <2>1 DEF StagedInv, OutputInv, OutputGood
  <2>3. PullGood(pull[q], folders)
    BY DEF StagedInv, PullsInv
  <2>4. PICK s \in Sessions : pull[q].session \in {s, None} /\ pull[q].blob = Jobs[s].text
    BY <2>1, <2>3 DEF PullGood
  <2> QED
    BY <2>2, <2>4 DEF Written
<1> QED
  BY <1>1, StagedAlways, PTL

\* A pull that picks a name may race others, and leaves them where they are.
LEMMA PickOthers ==
  ASSUME NEW r \in Pulls, NEW wrapped, Pick(r, wrapped), NEW q \in Pulls, q # r
  PROVE  pull'[q] = [pull[q] EXCEPT !.raced = TRUE] \/ pull'[q] = pull[q]
<1> DEFINE name == Unclaimed(Stem(pull[r].blob, wrapped))
           rivals == {x \in Pulls \ {r} : pull[x].at = "move" /\ pull[x].name = name}
           new == [pull[r] EXCEPT !.at = "move", !.name = name,
                                  !.wrapped = wrapped, !.raced = rivals # {}]
<1>1. pull' = [x \in Pulls |->
                 IF x = r THEN new
                 ELSE IF x \in rivals THEN [pull[x] EXCEPT !.raced = TRUE] ELSE pull[x]]
  BY DEF Pick
<1> HIDE DEF new, rivals
<1> QED
  BY <1>1

LEMMA OthersStay ==
  ASSUME StagedInv, NEW r \in Pulls, PullStep(r), NEW q \in Pulls, q # r
  PROVE  pull'[q] = [pull[q] EXCEPT !.raced = TRUE] \/ pull'[q] = pull[q]
<1>1. pull \in [Pulls -> PullRecords]
  BY DEF StagedInv, PullsInv
<1>2. CASE PickName(r) \/ PickNameWrapped(r)
  <2>1. PICK wrapped : Pick(r, wrapped)
    BY <1>2 DEF PickName, PickNameWrapped
  <2> QED
    BY <2>1, PickOthers
<1>3. CASE ~(PickName(r) \/ PickNameWrapped(r))
  BY <1>1, <1>3
     DEF PullStep, BeginPull, List, Fetch, FetchBreaks, JoinAndDecrypt, Move,
         StartCopy, EndCopy, StopPull
<1> QED
  BY <1>2, <1>3

\* FoundWhenPushed: what was pushed to the end is found by its session id.
THEOREM PushedIsFound == Spec => FoundWhenPushed
<1> DEFINE Lost(q, s) == /\ PullAt(q, "list") /\ pull[q].session = s
                         /\ PushAt(s, "done") /\ Cardinality(folders) = 1
                         /\ pull'[q].at = "unfound"
<1>1. ASSUME StagedInv, [Next]_vars, NEW q \in Pulls, NEW s \in Sessions, Lost(q, s)
      PROVE  FALSE
  <2> USE DEF StagedInv
  <2>1. pull[q].at = "list" /\ pull[q].session = s /\ pull'[q].at = "unfound"
    BY <1>1 DEF PullAt
  <2>2. /\ pull \in [Pulls -> PullRecords] /\ pull[q].folder \in folders
    BY <1>1, <2>1 DEF PullsInv, PullGood
  <2>3. PICK f \in drive : f.session = s
    <3>1. push[s].next > 0
      BY <1>1 DEF PushesInv
    <3> QED
      BY <1>1, <3>1 DEF PushesInv
  <2>4. f.folder = pull[q].folder
    <3>1. IsFiniteSet(folders) /\ f.folder \in folders
      BY <1>1 DEF FolderInv
    <3>2. PICK x : folders = {x}
      BY <1>1, <3>1, FS_Singleton
    <3> QED
      BY <2>2, <3>1, <3>2
  <2>5. f \in Selected(q) /\ Selected(q) # {}
    <3>1. s # None
      BY JobType
    <3> QED
      BY <2>1, <2>3, <2>4, <3>1 DEF Selected, Listed
  <2>6. ~List(q)
    <3>1. List(q) => pull'[q].at = "fetch"
      <4> SUFFICES ASSUME List(q) PROVE pull'[q].at = "fetch"
        OBVIOUS
      <4>1. PICK items : pull' = [pull EXCEPT ![q].at = "fetch", ![q].items = items]
        BY <2>5 DEF List
      <4> QED
        BY <2>2, <4>1 DEF PullRecords
    <3> QED
      BY <2>1, <3>1
  <2>7. CASE PullStep(q)
    BY <2>1, <2>2, <2>6, <2>7
       DEF PullStep, BeginPull, Fetch, FetchBreaks, Fetching, JoinAndDecrypt, PickName,
           PickNameWrapped, Move, StartCopy, EndCopy, StopPull, PullAt, PullRecords
  <2>8. ASSUME NEW r \in Pulls, r # q, PullStep(r)
        PROVE  FALSE
    <3>1. pull'[q] = [pull[q] EXCEPT !.raced = TRUE] \/ pull'[q] = pull[q]
      BY <1>1, <2>8, OthersStay
    <3>2. pull'[q].at = pull[q].at
      BY <2>2, <3>1 DEF PullRecords
    <3> QED
      BY <2>1, <3>2
  <2>9. ASSUME NEW t \in Sessions, PushStep(t)
        PROVE  FALSE
    <3>1. UNCHANGED pull
      BY <1>1, <2>9, PushStepKeeps
    <3> QED
      BY <2>1, <3>1
  <2>10. CASE UNCHANGED vars
    BY <2>1, <2>10 DEF vars
  <2> QED
    BY <1>1, <2>7, <2>8, <2>9, <2>10 DEF Next
<1>2. StagedInv /\ [Next]_vars =>
        [\A q \in Pulls, s \in Sessions :
           /\ PullAt(q, "list") /\ pull[q].session = s
           /\ PushAt(s, "done") /\ Cardinality(folders) = 1
           /\ pull'[q].at = "unfound"
           => FALSE]_vars
  BY <1>1
<1> QED
  BY <1>2, StagedAlways, PTL DEF Spec, FoundWhenPushed

\* ExistingKept: whatever a pull does, and wherever it is stopped, a whole file of
\* the output directory stays what it is, unless two pulls raced for its name.
THEOREM ExistingFilesKept == Spec => ExistingKept
<1> DEFINE Kept == \A n \in DOMAIN output :
                     output[n].whole => (output'[n] = output[n] \/ Raced(n))
<1>1. ASSUME StagedInv, [Next]_vars
      PROVE  Kept
  <2> USE <1>1 DEF StagedInv
  <2>1. ASSUME NEW q \in Pulls, Move(q) \/ StartCopy(q) \/ EndCopy(q)
        PROVE  Kept
    <3> SUFFICES ASSUME NEW n \in DOMAIN output, output[n].whole, ~Raced(n)
                 PROVE  output'[n] = output[n]
      OBVIOUS
    <3>1. \E whole : WritesOutput(q, whole)
      BY <2>1 DEF Move, StartCopy, EndCopy
    <3>2. pull[q].at = "move" \/ pull[q].at = "copy"
      BY <2>1 DEF Move, StartCopy, EndCopy, PullAt
    <3>3. ~RacedAmong(pull, n)
      BY DEF Raced, RacedAmong
    <3>4. pull[q].name # n
      <4>1. SUFFICES ASSUME pull[q].name = n PROVE FALSE
        OBVIOUS
      <4>2. CASE pull[q].at = "move"
        <5>1. pull[q].raced
          BY <4>1, <4>2 DEF OutputInv, OutputGood
        <5> QED
          BY <3>3, <4>1, <5>1 DEF RacedAmong
      <4>3. CASE pull[q].at = "copy"
        <5>1. output[n] = Written(pull[q], FALSE, q)
          BY <3>3, <4>1, <4>3 DEF OutputInv, OutputGood
        <5> QED
          BY <5>1 DEF Written
      <4> QED
        BY <3>2, <4>2, <4>3
    <3> QED
      BY <3>1, <3>4 DEF WritesOutput
  <2>2. ASSUME UNCHANGED output
        PROVE  Kept
    BY <2>2
  <2>3. ASSUME NEW s \in Sessions, PushStep(s)
        PROVE  UNCHANGED output
    BY <2>3, PushStepKeeps
  <2>4. ASSUME NEW q \in Pulls, PullStep(q), ~(Move(q) \/ StartCopy(q) \/ EndCopy(q))
        PROVE  UNCHANGED output
    BY <2>4 DEF PullStep, BeginPull, List, Fetch, FetchBreaks, JoinAndDecrypt, PickName,
                PickNameWrapped, StopPull
  <2>5. UNCHANGED vars => UNCHANGED output
    BY DEF vars
  <2> QED
    BY <2>1, <2>2, <2>3, <2>4, <2>5 DEF Next
<1>2. StagedInv /\ [Next]_vars =>
        [\A n \in DOMAIN output :
           output[n].whole => (output'[n] = output[n] \/ Raced(n))]_vars
  BY <1>1
<1> QED
  BY <1>2, StagedAlways, PTL DEF Spec, ExistingKept
-----------------------------------------------------------------------------
(* A whole listing.                                                        *)

\* No push makes so many chunks that their numbers get a digit more.
NumbersOfOneWidth == \A s \in Sessions : ChunkCount(s) <= Limit

\* Then the chunks of a push sort as they were cut.
LEMMA WholeInOrder ==
  ASSUME NumbersOfOneWidth, NEW s \in Sessions, NEW items \in Listings, NEW session,
         GoodListing(items, session),
         ToSet(items) = ChunkNames(s), Len(items) = ChunkCount(s)
  PROVE  \A k \in 1..Len(items) : items[k].session = s /\ items[k].index = k - 1
<1>1. PICK n \in Nat : n = ChunkCount(s) /\ n = Len(items) /\ n <= Limit
  BY ChunkType DEF NumbersOfOneWidth
<1>2. Limit \in Nat
  BY StagedAssumption
<1> DEFINE index(k) == items[k].index
<1>3. DOMAIN items = 1..n
  BY <1>1 DEF Listings
<1>4. \A k \in 1..n : items[k].session = s /\ index(k) \in 0..(n - 1)
  <2> TAKE k \in 1..n
  <2>1. items[k] \in ChunkNames(s)
    BY <1>3 DEF ToSet
  <2>2. PICK i \in 0..(ChunkCount(s) - 1) : items[k] = [session |-> s, index |-> i]
    BY <2>1 DEF ChunkNames
  <2> QED
    BY <1>1, <2>2
<1>5. \A i \in 0..(n - 1) : \E k \in 1..n : index(k) = i
  <2> TAKE i \in 0..(n - 1)
  <2>1. [session |-> s, index |-> i] \in ToSet(items)
    BY <1>1 DEF ChunkNames
  <2>2. PICK k \in 1..n : items[k] = [session |-> s, index |-> i]
    BY <1>3, <2>1 DEF ToSet
  <2> QED
    BY <2>2
<1>6. \A j, k \in 1..n : index(j) = index(k) => j = k
  <2> DEFINE f == [k \in 1..n |-> index(k)]
  <2>1. f \in Surjection(1..n, 0..(n - 1))
    BY <1>4, <1>5 DEF Surjection
  <2>2. /\ IsFiniteSet(1..n) /\ Cardinality(1..n) = n
        /\ IsFiniteSet(0..(n - 1)) /\ Cardinality(0..(n - 1)) = n
    <3>1. PICK m \in Int : m = n - 1
      OBVIOUS
    <3>2. IsFiniteSet(1..n) /\ Cardinality(1..n) = n
      BY FS_Interval
    <3>3. IsFiniteSet(0..m) /\ Cardinality(0..m) = IF 0 > m THEN 0 ELSE m - 0 + 1
      BY FS_Interval
    <3>4. Cardinality(0..m) = n
      BY <3>1, <3>3
    <3> QED
      BY <3>1, <3>2, <3>3, <3>4
  <2>3. f \in Injection(1..n, 0..(n - 1))
    <3> HIDE DEF f
    <3> QED
      BY <2>1, <2>2, FS_Surjection
  <2>4. \A j, k \in 1..n : f[j] = f[k] => j = k
    <3> HIDE DEF f
    <3> QED
      BY <2>3 DEF Injection, IsInjective
  <2> QED
    BY <2>4
<1>7. \A j, k \in 1..n : j < k => index(j) <= index(k)
  <2> TAKE j, k \in 1..n
  <2> HAVE j < k
  <2>1. ~KeyBefore(NameKey(items[k]), NameKey(items[j]))
    BY <1>1 DEF GoodListing
  <2>2. PICK a, b \in Nat : a = index(j) /\ b = index(k) /\ a < Limit /\ b < Limit
    BY <1>1, <1>2, <1>4
  <2>3. s \in Int /\ a \in Int /\ b \in Int /\ -1 \in Int
    BY JobType
  <2>4. NameKey(items[j]) = <<s, a, -1>> /\ NameKey(items[k]) = <<s, b, -1>>
    BY <1>4, <2>2 DEF NameKey
  <2>5. KeyBefore(<<s, b, -1>>, <<s, a, -1>>) <=>
          (s < s \/ (s = s /\ b < a) \/ (s = s /\ b = a /\ -1 < -1))
    BY <2>3, KeyOrder
  <2>6. ~(b < a)
    BY <2>1, <2>4, <2>5
  <2> QED
    BY <2>2, <2>6
<1> HIDE DEF index
<1>8. \A k \in 1..n : index(k) = k - 1
  <2> DEFINE bad == {k \in Nat : k \in 1..n /\ index(k) # k - 1}
  <2>1. SUFFICES ASSUME bad # {} PROVE FALSE
    OBVIOUS
  <2>2. PICK m \in bad : \A y \in bad : m <= y
    BY <2>1, LeastNatural
  <2>3. m \in Nat /\ m \in 1..n /\ index(m) # m - 1
    BY <2>2
  <2>4. \A j \in 1..n : j < m => index(j) = j - 1
    <3> TAKE j \in 1..n
    <3> HAVE j < m
    <3>1. ~(m <= j) /\ j \in Nat
      BY <2>3
    <3>2. j \notin bad
      BY <2>2, <3>1
    <3> QED
      BY <3>1, <3>2
  <2>5. PICK k \in 1..n : index(k) = m - 1
    BY <1>5, <2>3
  <2>6. m < k
    BY <2>3, <2>4, <2>5
  <2>7. index(m) < m - 1
    BY <1>4, <1>7, <2>3, <2>5, <2>6
  <2>8. PICK j \in 1..n : j = index(m) + 1 /\ j < m
    BY <1>4, <2>3, <2>7
  <2>9. index(j) = index(m)
    BY <1>4, <2>3, <2>4, <2>8
  <2> QED
    BY <1>6, <2>3, <2>8, <2>9
<1> QED
  BY <1>1, <1>4, <1>8 DEF index

\* The chunks joined in that order are what was encrypted.
LEMMA JoinedWhole ==
  ASSUME NEW s \in Sessions, NEW local, Len(local) = ChunkCount(s),
         \A k \in 1..Len(local) : local[k] = PartOf(Encrypted(s), Jobs[s].size, k - 1)
  PROVE  FlattenSeq(local) = Encrypted(s)
<1>1. PICK z \in Nat : z = Jobs[s].size /\ z # 0
  BY JobType
<1>2. PICK S, bytes : S = BytesOf(s) /\ bytes = Encrypted(s)
  OBVIOUS
<1>3. bytes \in Seq(S) /\ Len(bytes) \in Nat \ {0}
  BY <1>2, EncryptedType
<1>4. PICK l \in Nat : l = Len(bytes) /\ l # 0
  BY <1>3
<1>5. PICK n \in Nat : n = ChunkCount(s) /\ n # 0
  BY ChunkType
<1>6. n * z < l + z /\ l <= n * z
  <2>1. PICK m \in Nat : m = l + z - 1
    BY <1>1
  <2>2. n = m \div z
    BY <1>1, <1>2, <1>4, <1>5, <2>1 DEF ChunkCount, PartCount
  <2>3. (m \div z) * z <= m /\ m < (m \div z) * z + z
    BY <1>1, Divided
  <2>4. n * z <= m /\ m < n * z + z
    BY <2>2, <2>3
  <2>5. PICK p \in Nat : p = n * z
    BY <1>1
  <2>6. p <= m /\ m < p + z
    BY <2>4, <2>5
  <2>7. p < l + z /\ l <= p
    BY <2>1, <2>6
  <2> QED
    BY <2>5, <2>7
<1> DEFINE cut(i) == IF i * z < l THEN i * z ELSE l
<1>7. \A i \in 1..n : local[i] = SubSeq(bytes, (i - 1) * z + 1, cut(i))
  <2> TAKE i \in 1..n
  <2>1. local[i] = PartOf(bytes, z, i - 1)
    BY <1>1, <1>2, <1>5
  <2>2. (i - 1) + 1 = i
    OBVIOUS
  <2> QED
    BY <1>4, <2>1, <2>2 DEF PartOf
<1>8. \A i \in 2..n : \E a, b \in Nat :
        (i - 1) * z = a /\ i * z = b /\ a < l /\ a <= b
  <2> TAKE i \in 2..n
  <2>1. PICK j, d \in Nat : j = i - 1 /\ n = i + d
    BY <1>5
  <2>2. PICK p, q \in Nat : p = j * z /\ q = d * z
    BY <1>1
  <2>3. PICK k \in Nat : k = j + 1 /\ k = i /\ n = k + d
    BY <2>1
  <2>4. k * z = p + z
    BY <2>2, <2>3, Distributes
  <2>5. n * z = (p + z) + q
    BY <2>2, <2>3, <2>4, Distributes
  <2>6. p < l
    <3>1. (p + z) + q < l + z
      BY <1>6, <2>5
    <3> QED
      BY <3>1
  <2>7. (i - 1) * z = p /\ i * z = p + z
    BY <2>1, <2>2, <2>3, <2>4
  <2>8. PICK r \in Nat : r = p + z
    OBVIOUS
  <2>9. i * z = r /\ p <= r
    BY <2>7, <2>8
  <2> QED
    BY <2>6, <2>7, <2>9
<1>9. PICK f : /\ FlattenSeq(local) = f[n] /\ f[1] = local[1]
               /\ \A i \in 2..n : f[i] = f[i - 1] \o local[i]
  <2>1. Len(local) = n /\ Len(local) \in Nat \ {0}
    BY <1>5
  <2>2. \E f : /\ FlattenSeq(local) = f[Len(local)] /\ f[1] = local[1]
               /\ \A i \in 2..Len(local) : f[i] = f[i - 1] \o local[i]
    BY <2>1, FlattenSteps, Zenon
  <2> QED
    BY <2>1, <2>2
<1>10. f[1] = SubSeq(bytes, 1, cut(1))
  <2>1. local[1] = SubSeq(bytes, (1 - 1) * z + 1, cut(1))
    BY <1>5, <1>7
  <2>2. (1 - 1) * z + 1 = 1
    BY <1>1
  <2> QED
    BY <1>9, <2>1, <2>2
<1>11. \A i \in 2..n : f[i - 1] = SubSeq(bytes, 1, cut(i - 1))
                         => f[i] = SubSeq(bytes, 1, cut(i))
  <2> TAKE i \in 2..n
  <2> HAVE f[i - 1] = SubSeq(bytes, 1, cut(i - 1))
  <2>1. PICK a, c \in Nat : (i - 1) * z = a /\ i * z = c /\ a < l /\ a <= c
    BY <1>8
  <2>2. PICK b \in Nat : b = cut(i) /\ a <= b /\ b <= l
    BY <2>1
  <2>3. cut(i - 1) = a
    BY <2>1
  <2>4. f[i] = SubSeq(bytes, 1, a) \o SubSeq(bytes, a + 1, b)
    <3>1. i \in 1..n
      OBVIOUS
    <3>2. local[i] = SubSeq(bytes, a + 1, b)
      BY <1>7, <2>1, <2>2, <3>1
    <3> QED
      BY <1>9, <2>3, <3>2
  <2>5. SubSeq(bytes, 1, a) \o SubSeq(bytes, a + 1, b) = SubSeq(bytes, 1, b)
    <3>1. 1 \in 1..(Len(bytes) + 1) /\ a \in (1 - 1)..Len(bytes) /\ b \in a..Len(bytes)
      BY <1>4, <2>1, <2>2
    <3> QED
      BY <1>3, <3>1, ConcatAdjacentSubSeq
  <2> QED
    BY <2>2, <2>4, <2>5
<1> HIDE DEF cut
<1>12. f[n] = SubSeq(bytes, 1, cut(n))
  <2> DEFINE bad == {i \in Nat : i \in 1..n /\ f[i] # SubSeq(bytes, 1, cut(i))}
  <2>1. SUFFICES ASSUME bad # {} PROVE FALSE
    BY <1>5
  <2>2. PICK m \in bad : \A y \in bad : m <= y
    BY <2>1, LeastNatural
  <2>3. m \in 1..n /\ f[m] # SubSeq(bytes, 1, cut(m)) /\ m # 1
    BY <1>10, <2>2
  <2>4. m - 1 \in 1..n /\ ~(m <= m - 1) /\ m \in 2..n
    BY <2>3
  <2>5. m - 1 \notin bad
    BY <2>2, <2>4
  <2>6. f[m - 1] = SubSeq(bytes, 1, cut(m - 1))
    BY <2>4, <2>5
  <2> QED
    BY <1>11, <2>3, <2>4, <2>6
<1>13. cut(n) = l
  BY <1>1, <1>6, <1>4 DEF cut
<1>14. SubSeq(bytes, 1, Len(bytes)) = bytes
  BY <1>3, SubSeqFull
<1> QED
  BY <1>2, <1>4, <1>9, <1>12, <1>13, <1>14
\* e begins with h and goes on with rest, which is b and t.
Apart(S, h, b, t, e, rest) ==
  /\ e \in Seq(S) /\ Len(e) = Len(h) + Len(b) + Len(t)
  /\ SubSeq(e, 1, Len(h)) = h
  /\ Len(rest) = Len(b) + Len(t)
  /\ SubSeq(rest, 1, Len(b)) = b
  /\ SubSeq(rest, Len(b) + 1, Len(b) + Len(t)) = t
  /\ << >> \o rest = rest

\* Three pieces of one sequence, cut where they were joined.
LEMMA CutWhereJoined ==
  ASSUME NEW S, NEW h \in Seq(S), NEW b \in Seq(S), NEW t \in Seq(S), NEW e, NEW rest
  PROVE  e = (h \o b) \o t /\ rest = SubSeq(e, Len(h) + 1, Len(e)) =>
           Apart(S, h, b, t, e, rest)
<1>0. SUFFICES ASSUME e = (h \o b) \o t, rest = SubSeq(e, Len(h) + 1, Len(e))
               PROVE  Apart(S, h, b, t, e, rest)
  OBVIOUS
<1>1. PICK i, j, k \in Nat : i = Len(h) /\ j = Len(b) /\ k = Len(t)
  OBVIOUS
<1>2. h \o b \in Seq(S) /\ Len(h \o b) = i + j
  BY <1>1
<1>3. e \in Seq(S) /\ Len(e) = i + j + k
  BY <1>0, <1>1, <1>2
<1>4. \A x \in 1..(i + j + k) :
        /\ x <= i => e[x] = h[x]
        /\ i < x /\ x <= i + j => e[x] = b[x - i]
        /\ i + j < x => e[x] = t[x - (i + j)]
  <2> TAKE x \in 1..(i + j + k)
  <2>1. PICK c : c = h \o b /\ c \in Seq(S) /\ Len(c) = i + j
    BY <1>2
  <2>2. /\ x <= i => c[x] = h[x]
        /\ i < x /\ x <= i + j => c[x] = b[x - i]
    BY <1>1, <2>1
  <2>3. /\ x <= i + j => e[x] = c[x]
        /\ i + j < x => e[x] = t[x - (i + j)]
    <3>1. e = c \o t
      BY <1>0, <2>1
    <3>2. x \in 1..(Len(c) + Len(t))
      BY <1>1, <2>1
    <3>3. (c \o t)[x] = IF x <= Len(c) THEN c[x] ELSE t[x - Len(c)]
      BY <2>1, <3>2, ConcatProperties
    <3>4. CASE x <= i + j
      BY <2>1, <3>1, <3>3, <3>4
    <3>5. CASE i + j < x
      <4>1. ~(x <= Len(c))
        BY <2>1, <3>5
      <4> QED
        BY <2>1, <3>1, <3>3, <3>5, <4>1
    <3> QED
      BY <3>4, <3>5
  <2>4. x <= i => x <= i + j
    OBVIOUS
  <2> QED
    BY <2>2, <2>3, <2>4
<1>5. SubSeq(e, 1, i) = h
  <2>1. SubSeq(e, 1, i) \in Seq(S) /\ Len(SubSeq(e, 1, i)) = i
    BY <1>3
  <2>2. \A x \in 1..i : SubSeq(e, 1, i)[x] = h[x]
    BY <1>3, <1>4
  <2> QED
    BY <1>1, <2>1, <2>2, SeqEqual
<1>6. /\ rest \in Seq(S) /\ Len(rest) = j + k
      /\ \A x \in 1..(j + k) : rest[x] = e[i + x]
  <2>1. rest = SubSeq(e, i + 1, i + j + k)
    BY <1>0, <1>1, <1>3
  <2>2. SubSeq(e, i + 1, i + j + k) \in Seq(S) /\ Len(SubSeq(e, i + 1, i + j + k)) = j + k
    BY <1>3
  <2>3. \A x \in 1..(j + k) : SubSeq(e, i + 1, i + j + k)[x] = e[i + x]
    BY <1>3
  <2> QED
    BY <2>1, <2>2, <2>3
<1>7. SubSeq(rest, 1, j) = b
  <2>1. SubSeq(rest, 1, j) \in Seq(S) /\ Len(SubSeq(rest, 1, j)) = j
    BY <1>6
  <2>2. \A x \in 1..j : SubSeq(rest, 1, j)[x] = b[x]
    <3> TAKE x \in 1..j
    <3>1. SubSeq(rest, 1, j)[x] = rest[x]
      BY <1>6
    <3>2. x \in 1..(j + k) /\ i + x \in 1..(i + j + k)
      OBVIOUS
    <3>3. e[i + x] = b[x]
      <4>1. i < i + x /\ i + x <= i + j /\ (i + x) - i = x
        OBVIOUS
      <4> QED
        BY <1>4, <3>2, <4>1
    <3> QED
      BY <1>6, <3>1, <3>2, <3>3
  <2> QED
    BY <1>1, <2>1, <2>2, SeqEqual
<1>8. SubSeq(rest, j + 1, j + k) = t
  <2>1. /\ SubSeq(rest, j + 1, j + k) \in Seq(S)
        /\ Len(SubSeq(rest, j + 1, j + k)) = k
    BY <1>6
  <2>2. \A x \in 1..k : SubSeq(rest, j + 1, j + k)[x] = t[x]
    <3> TAKE x \in 1..k
    <3>1. SubSeq(rest, j + 1, j + k)[x] = rest[j + x]
      BY <1>6
    <3>2. j + x \in 1..(j + k) /\ i + (j + x) \in 1..(i + j + k)
      OBVIOUS
    <3>3. e[i + (j + x)] = t[x]
      <4>1. i + j < i + (j + x) /\ (i + (j + x)) - (i + j) = x
        OBVIOUS
      <4> QED
        BY <1>4, <3>2, <4>1
    <3> QED
      BY <1>6, <3>1, <3>2, <3>3
  <2> QED
    BY <1>1, <2>1, <2>2, SeqEqual
<1>9. << >> \o rest = rest
  BY <1>6, ConcatEmptySeq
<1> QED
  BY <1>1, <1>3, <1>5, <1>6, <1>7, <1>8, <1>9 DEF Apart

\* The decryptor takes a ciphertext apart as it was put together, and verifies it.
LEMMA WholeVerifies ==
  ASSUME NEW s \in Sessions
  PROVE  Verifies(Update(NewDecryptor, Encrypted(s)), TRUE)
<1> DEFINE text == Jobs[s].text
           h == Header(s)
           b == Body(s, text)
           t == Tag(s, text)
           e == Encrypted(s)
           d == Update(NewDecryptor, e)
<1>1. PICK H, T, L \in Nat : /\ H = HeaderSize /\ T = TagSize /\ L = Len(text)
                             /\ H # 0 /\ T # 0
  <2>1. text \in Seq(STRING)
    BY JobType
  <2>2. Len(text) \in Nat
    BY <2>1
  <2> QED
    BY <2>2, CipherAssumption
<1>2. PICK S : S = BytesOf(s)
  OBVIOUS
<1>3. /\ h \in [1..H -> S] /\ b \in [1..L -> S] /\ t \in [1..T -> S]
  <2>1. \A k \in 1..H : <<"header", s, k, << >> >> \in S
    BY <1>1, <1>2 DEF BytesOf, HeaderBytes
  <2>2. \A k \in 1..L : <<"body", s, k, <<text[k]>> >> \in S
    BY <1>1, <1>2 DEF BytesOf, BodyBytes
  <2>3. \A k \in 1..T : <<"tag", s, k, text>> \in S
    BY <1>1, <1>2 DEF BytesOf, TagBytes
  <2> HIDE DEF text
  <2>4. h \in [1..H -> S]
    BY <1>1, <2>1 DEF Header
  <2>5. b \in [1..L -> S]
    BY <1>1, <2>2 DEF Body
  <2>6. t \in [1..T -> S]
    BY <1>1, <2>3 DEF Tag
  <2> QED
    BY <2>4, <2>5, <2>6
<1>4. /\ \A k \in 1..L : b[k] = <<"body", s, k, <<text[k]>> >>
      /\ h[1][2] = s
  BY <1>1 DEF Body, Header
<1>5. e = (h \o b) \o t
  BY DEF Encrypted, Ciphertext
<1>6. text \in Seq(STRING)
  BY JobType
<1> HIDE DEF h, b, t, text
<1>7. /\ h \in Seq(S) /\ Len(h) = H /\ b \in Seq(S) /\ Len(b) = L
      /\ t \in Seq(S) /\ Len(t) = T
  BY <1>3, FunctionIsSequence
<1> HIDE DEF e
<1> DEFINE rest == SubSeq(e, H + 1, H + L + T)
<1>8. /\ e \in Seq(S) /\ Len(e) = H + L + T
      /\ SubSeq(e, 1, H) = h /\ Len(rest) = L + T
      /\ SubSeq(rest, 1, L) = b /\ SubSeq(rest, L + 1, L + T) = t
      /\ << >> \o rest = rest
  <2>1. PICK join, after : join = (h \o b) \o t /\ after = SubSeq(join, Len(h) + 1, Len(join))
    OBVIOUS
  <2>2. Apart(S, h, b, t, join, after)
    BY <1>7, <2>1, CutWhereJoined
  <2>3. e = join /\ rest = after
    BY <1>5, <1>7, <2>1, <2>2 DEF Apart
  <2> HIDE DEF rest
  <2> QED
    BY <1>7, <2>2, <2>3 DEF Apart
<1> HIDE DEF rest
<1>9. d.head = h /\ d.passed = b /\ d.tail = t
  <2>1. NewDecryptor.head = << >> /\ NewDecryptor.tail = << >> /\ NewDecryptor.passed = << >>
        /\ Len(<< >>) = 0
    BY DEF NewDecryptor
  <2> DEFINE taken == Shorter(HeaderSize - Len(NewDecryptor.head), Len(e))
             buf == NewDecryptor.tail \o SubSeq(e, taken + 1, Len(e))
             held == Shorter(TagSize, Len(buf))
  <2>2. taken = H
    BY <1>1, <1>8, <2>1 DEF Shorter
  <2>3. buf = rest
    BY <1>8, <2>1, <2>2 DEF rest
  <2>4. held = T
    <3> HIDE DEF buf
    <3>1. PICK len \in Nat : len = L + T /\ len = Len(buf)
      BY <1>8, <2>3
    <3>2. held = Shorter(T, len)
      BY <1>1, <3>1
    <3> QED
      BY <3>1, <3>2 DEF Shorter
  <2>5. d = [head   |-> NewDecryptor.head \o SubSeq(e, 1, taken),
             passed |-> NewDecryptor.passed \o SubSeq(buf, 1, Len(buf) - held),
             tail   |-> SubSeq(buf, Len(buf) - held + 1, Len(buf))]
    BY DEF Update
  <2> HIDE DEF taken, buf, held, d
  <2>6. Len(buf) - held = L /\ Len(buf) = L + T
    BY <1>8, <2>3, <2>4
  <2>7. << >> \o h = h /\ << >> \o b = b
    BY <1>7, ConcatEmptySeq
  <2> QED
    BY <1>8, <2>1, <2>2, <2>3, <2>5, <2>6, <2>7
<1> HIDE DEF d
<1>10. SaltOf(d) = s
  BY <1>4, <1>9 DEF SaltOf
<1>11. Plain(d, TRUE) = text
  <2> DEFINE p(k) == IF TRUE /\ d.passed[k][1] = "body" /\ d.head = Header(d.passed[k][2])
                        /\ d.passed[k][3] = k
                       THEN d.passed[k][4][1] ELSE Garbage
  <2>1. Plain(d, TRUE) = [k \in 1..L |-> p(k)]
    BY <1>7, <1>9 DEF Plain
  <2>2. ASSUME NEW k \in 1..L
        PROVE  p(k) = text[k]
    <3>1. d.passed[k] = <<"body", s, k, <<text[k]>> >>
      BY <1>4, <1>9
    <3>2. d.passed[k][1] = "body" /\ d.passed[k][2] = s /\ d.passed[k][3] = k
          /\ d.passed[k][4][1] = text[k]
      BY <3>1
    <3>3. d.head = Header(s)
      BY <1>9 DEF h
    <3> QED
      BY <3>2, <3>3
  <2> HIDE DEF p
  <2>3. text = [k \in 1..L |-> text[k]]
    BY <1>1, <1>6
  <2> QED
    BY <2>1, <2>2, <2>3
<1>12. Len(d.head) = HeaderSize /\ Len(d.tail) = TagSize
  BY <1>1, <1>7, <1>9
<1> QED
  BY <1>9, <1>10, <1>11, <1>12 DEF Verifies, h, t, d, e
WholeItems(items) ==
  \E s \in Sessions : ToSet(items) = ChunkNames(s) /\ Len(items) = ChunkCount(s)

\* A pull that has fetched a whole listing decrypts it.
LEMMA WholeIsAuthentic ==
  ASSUME NumbersOfOneWidth, PullsInv, NEW q \in Pulls, pull[q].at = "fetch",
         Len(pull[q].local) = Len(pull[q].items), WholeItems(pull[q].items),
         pull[q].right = TRUE
  PROVE  Authentic(q)
<1>1. PICK items, local, session :
        items = pull[q].items /\ local = pull[q].local /\ session = pull[q].session
  OBVIOUS
<1>2. PICK s \in Sessions : ToSet(items) = ChunkNames(s) /\ Len(items) = ChunkCount(s)
  BY <1>1 DEF WholeItems
<1>3. items \in Listings
  BY <1>1 DEF PullsInv, PullRecords
<1>4. /\ GoodListing(items, session) /\ Len(local) = Len(items)
      /\ \A k \in 1..Len(local) : local[k] = DataOf(items[k])
  <2>1. PullGood(pull[q], folders)
    BY DEF PullsInv
  <2> QED
    BY <1>1, <2>1 DEF PullGood
<1>5. \A k \in 1..Len(items) : items[k].session = s /\ items[k].index = k - 1
  BY <1>2, <1>3, <1>4, WholeInOrder
<1>6. \A k \in 1..Len(local) : local[k] = PartOf(Encrypted(s), Jobs[s].size, k - 1)
  BY <1>4, <1>5, JobType DEF DataOf
<1>7. FlattenSeq(local) = Encrypted(s)
  BY <1>2, <1>4, <1>6, JoinedWhole
<1>8. Decrypted(q) = Update(NewDecryptor, Encrypted(s))
  BY <1>1, <1>7 DEF Decrypted
<1> QED
  BY <1>8, WholeVerifies DEF Authentic

\* A pull that fails at the tag has just joined and decrypted its chunks.
LEMMA HowInvalid ==
  ASSUME StagedInv, [Next]_vars, NEW q \in Pulls, pull'[q].at = "invalid"
  PROVE  \/ /\ pull[q].at = "invalid" /\ pull'[q].items = pull[q].items
            /\ pull'[q].right = pull[q].right
         \/ /\ JoinAndDecrypt(q) /\ ~Authentic(q) /\ pull'[q].items = pull[q].items
            /\ pull'[q].right = pull[q].right
<1> USE DEF StagedInv
<1>1. pull \in [Pulls -> PullRecords] /\ pull[q] \in PullRecords
  BY DEF PullsInv
<1>2. CASE pull'[q] = pull[q]
  BY <1>2
<1>3. CASE JoinAndDecrypt(q)
  <2>1. PICK at, blob :
          /\ pull' = [pull EXCEPT ![q].at = at, ![q].blob = blob, ![q].local = << >>]
          /\ at = IF Authentic(q) THEN "finalize" ELSE "invalid"
    BY <1>3 DEF JoinAndDecrypt
  <2>2. /\ pull'[q].at = at /\ pull'[q].items = pull[q].items
        /\ pull'[q].right = pull[q].right
    BY <1>1, <2>1 DEF PullRecords
  <2> QED
    BY <1>3, <2>1, <2>2
<1>4. CASE PullStep(q) /\ ~JoinAndDecrypt(q)
  <2>1. CASE BeginPull(q) \/ List(q) \/ StopPull(q)
    <3>1. CASE BeginPull(q)
      BY <1>1, <3>1 DEF BeginPull, PullRecords
    <3>2. CASE List(q)
      <4>1. PICK at, items : /\ pull' = [pull EXCEPT ![q].at = at, ![q].items = items]
                             /\ at = IF Selected(q) = {} THEN "unfound" ELSE "fetch"
        BY <3>2 DEF List
      <4>2. pull'[q].at = at
        BY <1>1, <4>1 DEF PullRecords
      <4> QED
        BY <4>1, <4>2
    <3>3. CASE StopPull(q)
      BY <1>1, <3>3 DEF StopPull, PullRecords
    <3> QED
      BY <2>1, <3>1, <3>2, <3>3
  <2>2. CASE Fetch(q) \/ FetchBreaks(q)
    <3>1. pull[q].at = "fetch"
      BY <2>2 DEF Fetch, FetchBreaks, Fetching, PullAt
    <3>2. pull'[q].at = pull[q].at
      <4>1. CASE Fetch(q)
        <5>1. PICK local : pull' = [pull EXCEPT ![q].local = local, ![q].partial = << >>]
          BY <4>1 DEF Fetch
        <5> QED
          BY <1>1, <5>1 DEF PullRecords
      <4>2. CASE FetchBreaks(q)
        <5>1. PICK partial : pull' = [pull EXCEPT ![q].partial = partial]
          BY <4>2 DEF FetchBreaks
        <5> QED
          BY <1>1, <5>1 DEF PullRecords
      <4> QED
        BY <2>2, <4>1, <4>2
    <3> QED
      BY <3>1, <3>2
  <2>3. CASE PickName(q) \/ PickNameWrapped(q)
    <3>1. PICK wrapped : Pick(q, wrapped)
      BY <2>3 DEF PickName, PickNameWrapped
    <3> DEFINE name == Unclaimed(Stem(pull[q].blob, wrapped))
               rivals == {r \in Pulls \ {q} : pull[r].at = "move" /\ pull[r].name = name}
    <3>2. pull'[q] = [pull[q] EXCEPT !.at = "move", !.name = name,
                                     !.wrapped = wrapped, !.raced = rivals # {}]
      BY <3>1 DEF Pick
    <3>3. PICK race : race = (rivals # {})
      OBVIOUS
    <3> HIDE DEF name, rivals
    <3>4. pull'[q] = [pull[q] EXCEPT !.at = "move", !.name = name,
                                     !.wrapped = wrapped, !.raced = race]
      BY <3>2, <3>3
    <3>5. pull'[q].at = "move"
      BY <1>1, <3>4 DEF PullRecords
    <3> QED
      BY <3>5
  <2>4. CASE Move(q) \/ StartCopy(q) \/ EndCopy(q)
    <3>1. PICK at \in {"done", "copy"} : pull' = [pull EXCEPT ![q].at = at]
      BY <2>4 DEF Move, StartCopy, EndCopy
    <3> QED
      BY <1>1, <3>1 DEF PullRecords
  <2> QED
    BY <1>4, <2>1, <2>2, <2>3, <2>4 DEF PullStep
<1>5. ASSUME NEW r \in Pulls, r # q, PullStep(r)
      PROVE  /\ pull'[q].at = pull[q].at /\ pull'[q].items = pull[q].items
             /\ pull'[q].right = pull[q].right
  <2>1. pull'[q] = [pull[q] EXCEPT !.raced = TRUE] \/ pull'[q] = pull[q]
    BY <1>5, OthersStay
  <2> QED
    BY <1>1, <2>1 DEF PullRecords
<1>6. ASSUME NEW s \in Sessions, PushStep(s)
      PROVE  pull'[q] = pull[q]
  <2>1. UNCHANGED pull
    BY <1>6, PushStepKeeps
  <2> QED
    BY <2>1
<1>7. CASE UNCHANGED vars
  BY <1>2, <1>7 DEF vars
<1> QED
  BY <1>2, <1>3, <1>4, <1>5, <1>6, <1>7 DEF Next

\* WholeListingDecrypts: what lists whole decrypts, as long as the chunk numbers
\* keep their width: then names sort as the chunks were cut.
THEOREM WholeDecrypts == NumbersOfOneWidth => (Spec => []WholeListingDecrypts)
<1> SUFFICES ASSUME NumbersOfOneWidth PROVE Spec => []WholeListingDecrypts
  OBVIOUS
<1>1. Init => WholeListingDecrypts
  <2> SUFFICES ASSUME Init, NEW q \in Pulls PROVE pull[q].at # "invalid"
    BY DEF WholeListingDecrypts, PullAt
  <2>1. pull[q] = NewPull
    BY DEF Init
  <2>2. NewPull.at = "idle"
    BY DEF NewPull
  <2> QED
    BY <2>1, <2>2
<1>2. StagedInv /\ WholeListingDecrypts /\ [Next]_vars => WholeListingDecrypts'
  <2> SUFFICES ASSUME StagedInv, WholeListingDecrypts, [Next]_vars, NEW q \in Pulls,
                      pull'[q].at = "invalid", WholeItems(pull'[q].items), pull'[q].right
               PROVE  FALSE
    BY DEF WholeListingDecrypts, WholeListing, WholeItems, PullAt
  <2>1. CASE /\ pull[q].at = "invalid" /\ pull'[q].items = pull[q].items
             /\ pull'[q].right = pull[q].right
    BY <2>1 DEF WholeListingDecrypts, WholeListing, WholeItems, PullAt
  <2>2. CASE /\ JoinAndDecrypt(q) /\ ~Authentic(q) /\ pull'[q].items = pull[q].items
             /\ pull'[q].right = pull[q].right
    <3>1. pull[q].right \in BOOLEAN
      BY DEF StagedInv, PullsInv, PullRecords
    <3>2. pull[q].at = "fetch" /\ Len(pull[q].local) = Len(pull[q].items)
      BY <2>2 DEF JoinAndDecrypt, PullAt
    <3>3. WholeItems(pull[q].items) /\ pull[q].right = TRUE
      BY <2>2, <3>1
    <3> QED
      BY <2>2, <3>2, <3>3, WholeIsAuthentic DEF StagedInv
  <2> QED
    BY <2>1, <2>2, HowInvalid
<1> QED
  BY <1>1, <1>2, StagedAlways, PTL DEF Spec
=============================================================================
