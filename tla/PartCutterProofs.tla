-------------------------- MODULE PartCutterProofs --------------------------
(***************************************************************************)
(* Proofs about the pipeline behind a streaming push, for every archive,   *)
(* part size, block size, pipe and budget: the parts it cuts, what it      *)
(* hands to on_part, what it leaves on the disk, and when it succeeds.     *)
(***************************************************************************)
EXTENDS PartCutter, SequenceTheorems, FiniteSetTheorems, TLAPS

-----------------------------------------------------------------------------
(* Sequences and bytes.                                                    *)

Byte == {"header", "body", "tag"} \X {Salt} \X Nat \X Seq(STRING)

\* A sequence taken apart after its n-th element.
LEMMA TakenApart ==
  ASSUME NEW S, NEW s \in Seq(S), NEW n \in 0..Len(s)
  PROVE  /\ SubSeq(s, 1, n) \in Seq(S)
         /\ Len(SubSeq(s, 1, n)) = n
         /\ \A j \in 1..n : SubSeq(s, 1, n)[j] = s[j]
         /\ SubSeq(s, n + 1, Len(s)) \in Seq(S)
         /\ Len(SubSeq(s, n + 1, Len(s))) = Len(s) - n
         /\ \A j \in 1..(Len(s) - n) : SubSeq(s, n + 1, Len(s))[j] = s[n + j]
<1>1. Len(s) \in Nat /\ \A j \in 1..Len(s) : s[j] \in S
  BY LenProperties, ElementOfSeq
<1>2. \A j \in 1..n : s[j] \in S
  BY <1>1
<1>3. /\ SubSeq(s, 1, n) \in Seq(S)
      /\ Len(SubSeq(s, 1, n)) = IF 1 <= n THEN n - 1 + 1 ELSE 0
      /\ \A j \in 1..(n - 1 + 1) : SubSeq(s, 1, n)[j] = s[1 + j - 1]
  BY <1>1, <1>2, SubSeqProperties
<1>4. \A j \in (n + 1)..Len(s) : s[j] \in S
  BY <1>1
<1>5. /\ SubSeq(s, n + 1, Len(s)) \in Seq(S)
      /\ Len(SubSeq(s, n + 1, Len(s))) =
           IF n + 1 <= Len(s) THEN Len(s) - (n + 1) + 1 ELSE 0
      /\ \A j \in 1..(Len(s) - (n + 1) + 1) :
           SubSeq(s, n + 1, Len(s))[j] = s[(n + 1) + j - 1]
  BY <1>1, <1>4, SubSeqProperties
<1> QED
  BY <1>1, <1>3, <1>5

\* A function on 1..n is a sequence.
LEMMA FunctionAsSequence ==
  ASSUME NEW S, NEW n \in Nat, NEW f \in [1..n -> S]
  PROVE  f \in Seq(S) /\ Len(f) = n
<1>1. f \in Seq(S)
  BY SeqDef
<1>2. Len(f) \in Nat /\ DOMAIN f = 1..Len(f)
  BY <1>1, LenProperties
<1> QED
  BY <1>1, <1>2

LEMMA OneByte ==
  ASSUME NEW S, NEW c \in S
  PROVE  <<c>> \in Seq(S)
<1>1. << >> \in Seq(S)
  BY EmptySeq
<1>2. Append(<< >>, c) \in Seq(S)
  BY <1>1, AppendProperties
<1> QED
  BY <1>2

LEMMA ByteIsByte ==
  ASSUME NEW w \in {"header", "body", "tag"}, NEW j \in Nat, NEW t \in Seq(STRING)
  PROVE  <<w, Salt, j, t>> \in Byte
BY DEF Byte

LEMMA HeaderBytes ==
  /\ Header(Salt) \in Seq(Byte)
  /\ Len(Header(Salt)) = HeaderSize
  /\ \A j \in 1..HeaderSize : Header(Salt)[j] = <<"header", Salt, j, << >> >>
<1>1. << >> \in Seq(STRING)
  BY EmptySeq
<1>2. \A j \in 1..HeaderSize : <<"header", Salt, j, << >> >> \in Byte
  <2>1. PICK e \in Seq(STRING) : e = << >>
    BY <1>1, Zenon
  <2>2. \A j \in 1..HeaderSize : <<"header", Salt, j, e>> \in Byte
    BY CipherAssumption, ByteIsByte
  <2> QED
    BY <2>1, <2>2, Zenon
<1>3. Header(Salt) \in [1..HeaderSize -> Byte]
  BY <1>2 DEF Header
<1>4. HeaderSize \in Nat
  BY CipherAssumption
<1> QED
  BY <1>3, <1>4, FunctionAsSequence DEF Header

LEMMA BodyBytes ==
  ASSUME NEW t \in Seq(STRING)
  PROVE  /\ Body(Salt, t) \in Seq(Byte)
         /\ Len(Body(Salt, t)) = Len(t)
         /\ \A j \in 1..Len(t) : Body(Salt, t)[j] = <<"body", Salt, j, <<t[j]>> >>
<1>1. Len(t) \in Nat /\ \A j \in 1..Len(t) : t[j] \in STRING
  BY LenProperties, ElementOfSeq
<1>2. \A c \in STRING : <<c>> \in Seq(STRING)
  BY OneByte
<1>3. \A j \in 1..Len(t) : <<"body", Salt, j, <<t[j]>> >> \in Byte
  <2> TAKE j \in 1..Len(t)
  <2>1. j \in Nat /\ <<t[j]>> \in Seq(STRING)
    BY <1>1, <1>2
  <2> QED
    BY <2>1, ByteIsByte
<1>4. Body(Salt, t) \in [1..Len(t) -> Byte]
  BY <1>3 DEF Body
<1> QED
  BY <1>1, <1>4, FunctionAsSequence DEF Body

LEMMA TagBytes ==
  ASSUME NEW t \in Seq(STRING)
  PROVE  /\ Tag(Salt, t) \in Seq(Byte)
         /\ Len(Tag(Salt, t)) = TagSize
         /\ \A j \in 1..TagSize : Tag(Salt, t)[j] = <<"tag", Salt, j, t>>
<1>1. \A j \in 1..TagSize : <<"tag", Salt, j, t>> \in Byte
  <2> TAKE j \in 1..TagSize
  <2>1. j \in Nat
    BY CipherAssumption
  <2> QED
    BY <2>1, ByteIsByte
<1>2. Tag(Salt, t) \in [1..TagSize -> Byte]
  BY <1>1 DEF Tag
<1>3. TagSize \in Nat
  BY CipherAssumption
<1> QED
  BY <1>2, <1>3, FunctionAsSequence DEF Tag

\* The byte at position j of the stream of a plaintext t.
ByteAt(t, j) ==
  IF j <= HeaderSize THEN <<"header", Salt, j, << >> >>
  ELSE IF j <= HeaderSize + Len(t)
    THEN <<"body", Salt, j - HeaderSize, <<t[j - HeaderSize]>> >>
  ELSE <<"tag", Salt, j - HeaderSize - Len(t), t>>

LEMMA StreamBytes ==
  ASSUME text \in Seq(STRING)
  PROVE  /\ Bytes \in Seq(Byte)
         /\ Len(Bytes) = HeaderSize + Len(text) + TagSize
         /\ \A j \in 1..Len(Bytes) : Bytes[j] = ByteAt(text, j)
<1> DEFINE h == Header(Salt)
           b == Body(Salt, text)
           t == Tag(Salt, text)
<1>1. /\ h \in Seq(Byte) /\ Len(h) = HeaderSize
      /\ \A j \in 1..HeaderSize : h[j] = <<"header", Salt, j, << >> >>
  BY HeaderBytes
<1>2. /\ b \in Seq(Byte) /\ Len(b) = Len(text)
      /\ \A j \in 1..Len(text) : b[j] = <<"body", Salt, j, <<text[j]>> >>
  BY BodyBytes
<1>3. /\ t \in Seq(Byte) /\ Len(t) = TagSize
      /\ \A j \in 1..TagSize : t[j] = <<"tag", Salt, j, text>>
  BY TagBytes
<1>4. Bytes = (h \o b) \o t
  BY DEF Bytes, Ciphertext
<1>5. HeaderSize \in Nat /\ TagSize \in Nat /\ Len(text) \in Nat
  BY CipherAssumption, LenProperties
<1> HIDE DEF h, b, t
<1>6. /\ h \o b \in Seq(Byte)
      /\ Len(h \o b) = Len(h) + Len(b)
      /\ \A i \in 1..(Len(h) + Len(b)) :
           (h \o b)[i] = IF i <= Len(h) THEN h[i] ELSE b[i - Len(h)]
  BY <1>1, <1>2, ConcatProperties
<1>7. /\ (h \o b) \o t \in Seq(Byte)
      /\ Len((h \o b) \o t) = Len(h \o b) + Len(t)
      /\ \A i \in 1..(Len(h \o b) + Len(t)) :
           ((h \o b) \o t)[i] =
             IF i <= Len(h \o b) THEN (h \o b)[i] ELSE t[i - Len(h \o b)]
  BY <1>3, <1>6, ConcatProperties
<1>8. Len(Bytes) = HeaderSize + Len(text) + TagSize
  BY <1>1, <1>2, <1>3, <1>4, <1>6, <1>7
<1>9. ASSUME NEW j \in 1..Len(Bytes) PROVE Bytes[j] = ByteAt(text, j)
  <2>1. CASE j <= HeaderSize
    BY <2>1, <1>1, <1>2, <1>3, <1>4, <1>5, <1>6, <1>7, <1>8, <1>9 DEF ByteAt
  <2>2. CASE j > HeaderSize /\ j <= HeaderSize + Len(text)
    <3>1. Bytes[j] = b[j - HeaderSize]
      BY <2>2, <1>1, <1>2, <1>3, <1>4, <1>5, <1>6, <1>7, <1>8, <1>9
    <3>2. j - HeaderSize \in 1..Len(text)
      BY <2>2, <1>5, <1>8, <1>9
    <3>3. ByteAt(text, j) = <<"body", Salt, j - HeaderSize, <<text[j - HeaderSize]>> >>
      BY <2>2, <1>5, <1>8, <1>9 DEF ByteAt
    <3> QED
      BY <3>1, <3>2, <3>3, <1>2
  <2>3. CASE j > HeaderSize + Len(text)
    <3>1. Bytes[j] = t[j - HeaderSize - Len(text)]
      BY <2>3, <1>1, <1>2, <1>3, <1>4, <1>5, <1>6, <1>7, <1>8, <1>9
    <3>2. j - HeaderSize - Len(text) \in 1..TagSize
      BY <2>3, <1>5, <1>8, <1>9
    <3>3. ByteAt(text, j) = <<"tag", Salt, j - HeaderSize - Len(text), text>>
      BY <2>3, <1>5, <1>8, <1>9 DEF ByteAt
    <3> QED
      BY <3>1, <3>2, <3>3, <1>3
  <2> QED
    BY <2>1, <2>2, <2>3, <1>5, <1>8
<1> QED
  BY <1>4, <1>7, <1>8, <1>9

-----------------------------------------------------------------------------
(* Types.                                                                  *)

Types ==
  /\ archive \in Seq(STRING) /\ size \in Nat \ {0}
  /\ pc \in {"idle", "emit", "close", "unlink", "leave", "join", "done", "failed"}
  /\ builder \in {"off", "building", "ended", "failed"}
  /\ stage \in {"header", "body", "tag"}
  /\ raised \in BOOLEAN
  /\ sent \in 0..Len(archive)
  /\ pipe \in Seq(STRING) /\ Len(pipe) <= PipeSize
  /\ text \in Seq(STRING)
  /\ view \in Seq(Byte)
  /\ digest \in Seq(Byte) /\ Len(digest) <= size
  /\ parts \in Seq(Seq(Byte))
  /\ index \in Nat
  /\ left \in [Mishaps -> Nat]

LEMMA TypesInit == Init => Types
<1> SUFFICES ASSUME Init PROVE Types
  OBVIOUS
<1>1. archive \in Seq(STRING) /\ size \in Nat \ {0}
  BY CutterAssumption DEF Init
<1>2. Len(archive) \in Nat
  BY <1>1, LenProperties
<1>3. /\ << >> \in Seq(STRING) /\ << >> \in Seq(Byte) /\ << >> \in Seq(Seq(Byte))
      /\ Len(<< >>) = 0
  BY EmptySeq
<1>4. /\ pipe \in Seq(STRING) /\ text \in Seq(STRING) /\ view \in Seq(Byte)
      /\ digest \in Seq(Byte) /\ parts \in Seq(Seq(Byte))
      /\ Len(pipe) = 0 /\ Len(digest) = 0
  BY <1>3, Zenon DEF Init
<1>5. /\ pc = "idle" /\ builder = "off" /\ stage = "header" /\ raised = FALSE
      /\ sent = 0 /\ index = 0 /\ left = Budget
  BY DEF Init
<1>6. sent \in 0..Len(archive) /\ Len(pipe) <= PipeSize /\ Len(digest) <= size
  BY <1>1, <1>2, <1>4, <1>5, CutterAssumption
<1> QED
  BY <1>1, <1>4, <1>5, <1>6, CutterAssumption DEF Types

\* What a mishap costs leaves the budget a budget.
LEMMA SpendType ==
  ASSUME left \in [Mishaps -> Nat], NEW kind \in Mishaps, Spend(kind)
  PROVE  /\ left' \in [Mishaps -> Nat]
         /\ left'[kind] = left[kind] - 1
         /\ \A k \in Mishaps : k # kind => left'[k] = left[k]
BY DEF Spend

\* A round of _emit moves the first n bytes of the view into the part.
LEMMA EmitSplit ==
  ASSUME Types, Emit
  PROVE  \E n \in 0..Len(view) :
           /\ digest' = digest \o SubSeq(view, 1, n)
           /\ digest' \in Seq(Byte) /\ Len(digest') = Len(digest) + n
           /\ \A j \in 1..(Len(digest) + n) :
                digest'[j] = IF j <= Len(digest) THEN digest[j] ELSE view[j - Len(digest)]
           /\ view' \in Seq(Byte) /\ Len(view') = Len(view) - n
           /\ \A j \in 1..(Len(view) - n) : view'[j] = view[n + j]
           /\ files' = IF Wanted(index)
                         THEN [files EXCEPT ![index] = @ \o SubSeq(view, 1, n)]
                         ELSE files
           /\ Len(digest') <= size
<1> DEFINE n == Shorter(size - Len(digest), Len(view))
<1>1. Len(view) \in Nat /\ Len(digest) \in Nat
  BY LenProperties DEF Types
<1>2. n \in 0..Len(view) /\ n <= size - Len(digest)
  BY <1>1 DEF Types, Shorter
<1>3. /\ digest' = digest \o SubSeq(view, 1, n)
      /\ files' = IF Wanted(index)
                    THEN [files EXCEPT ![index] = @ \o SubSeq(view, 1, n)] ELSE files
      /\ view' = SubSeq(view, n + 1, Len(view))
  BY DEF Emit
<1> HIDE DEF n
<1>4. /\ SubSeq(view, 1, n) \in Seq(Byte)
      /\ Len(SubSeq(view, 1, n)) = n
      /\ \A j \in 1..n : SubSeq(view, 1, n)[j] = view[j]
      /\ view' \in Seq(Byte)
      /\ Len(view') = Len(view) - n
      /\ \A j \in 1..(Len(view) - n) : view'[j] = view[n + j]
  BY <1>2, <1>3, TakenApart DEF Types
<1>5. /\ digest' \in Seq(Byte)
      /\ Len(digest') = Len(digest) + Len(SubSeq(view, 1, n))
      /\ \A j \in 1..(Len(digest) + Len(SubSeq(view, 1, n))) :
           digest'[j] = IF j <= Len(digest) THEN digest[j]
                        ELSE SubSeq(view, 1, n)[j - Len(digest)]
  BY <1>3, <1>4, ConcatProperties DEF Types
<1>6. Len(digest') = Len(digest) + n /\ Len(digest') <= size
  BY <1>1, <1>2, <1>4, <1>5 DEF Types
<1>7. \A j \in 1..(Len(digest) + n) :
        digest'[j] = IF j <= Len(digest) THEN digest[j] ELSE view[j - Len(digest)]
  BY <1>1, <1>2, <1>4, <1>5
<1> QED
  BY <1>2, <1>3, <1>4, <1>5, <1>6, <1>7

\* src.read takes the first n bytes from the pipe and makes them ciphertext.
LEMMA ReadSplit ==
  ASSUME Types, Read
  PROVE  \E n \in 1..Len(pipe) :
           /\ text' \in Seq(STRING) /\ Len(text') = Len(text) + n
           /\ \A j \in 1..(Len(text) + n) :
                text'[j] = IF j <= Len(text) THEN text[j] ELSE pipe[j - Len(text)]
           /\ pipe' \in Seq(STRING) /\ Len(pipe') = Len(pipe) - n
           /\ \A j \in 1..(Len(pipe) - n) : pipe'[j] = pipe[n + j]
           /\ view' \in Seq(Byte) /\ Len(view') = n
           /\ \A j \in 1..n : view'[j] =
                <<"body", Salt, Len(text) + j, <<text'[Len(text) + j]>> >>
<1>1. /\ Len(pipe) \in Nat /\ Len(text) \in Nat
      /\ pipe \in Seq(STRING) /\ text \in Seq(STRING)
  BY LenProperties DEF Types
<1>2. BlockSize \in Nat \ {0}
  BY CutterAssumption
<1>3. PICK n \in 1..Shorter(BlockSize, Len(pipe)) :
        /\ text' = text \o SubSeq(pipe, 1, n)
        /\ pipe' = SubSeq(pipe, n + 1, Len(pipe))
        /\ view' = SubSeq(Body(Salt, text \o SubSeq(pipe, 1, n)), Len(text) + 1,
                          Len(text \o SubSeq(pipe, 1, n)))
  BY DEF Read
<1>4. n \in 1..Len(pipe) /\ n \in 0..Len(pipe)
  BY <1>1, <1>2 DEF Shorter
<1>5. /\ SubSeq(pipe, 1, n) \in Seq(STRING)
      /\ Len(SubSeq(pipe, 1, n)) = n
      /\ \A j \in 1..n : SubSeq(pipe, 1, n)[j] = pipe[j]
      /\ pipe' \in Seq(STRING)
      /\ Len(pipe') = Len(pipe) - n
      /\ \A j \in 1..(Len(pipe) - n) : pipe'[j] = pipe[n + j]
  BY <1>1, <1>3, <1>4, TakenApart
<1>6. /\ text' \in Seq(STRING)
      /\ Len(text') = Len(text) + Len(SubSeq(pipe, 1, n))
      /\ \A j \in 1..(Len(text) + Len(SubSeq(pipe, 1, n))) :
           text'[j] = IF j <= Len(text) THEN text[j]
                      ELSE SubSeq(pipe, 1, n)[j - Len(text)]
  BY <1>1, <1>3, <1>5, ConcatProperties
<1>7. Len(text') = Len(text) + n
  BY <1>5, <1>6
<1>8. \A j \in 1..(Len(text) + n) :
        text'[j] = IF j <= Len(text) THEN text[j] ELSE pipe[j - Len(text)]
  BY <1>1, <1>4, <1>5, <1>6
<1>9. PICK t \in Seq(STRING) : t = text'
  BY <1>6
<1>10. /\ Body(Salt, t) \in Seq(Byte)
       /\ Len(Body(Salt, t)) = Len(t)
       /\ \A j \in 1..Len(t) : Body(Salt, t)[j] = <<"body", Salt, j, <<t[j]>> >>
  BY BodyBytes
<1>11. /\ view' = SubSeq(Body(Salt, t), Len(text) + 1, Len(Body(Salt, t)))
       /\ Len(text) \in 0..Len(Body(Salt, t))
  BY <1>1, <1>3, <1>4, <1>7, <1>9, <1>10
<1>12. /\ view' \in Seq(Byte)
       /\ Len(view') = Len(Body(Salt, t)) - Len(text)
       /\ \A j \in 1..(Len(Body(Salt, t)) - Len(text)) :
            view'[j] = Body(Salt, t)[Len(text) + j]
  BY <1>10, <1>11, TakenApart
<1>13. Len(view') = n
  BY <1>1, <1>4, <1>7, <1>9, <1>10, <1>12
<1>14. ASSUME NEW j \in 1..n
       PROVE  view'[j] = <<"body", Salt, Len(text) + j, <<text'[Len(text) + j]>> >>
  <2>1. Len(text) + j \in 1..Len(t) /\ j \in 1..(Len(Body(Salt, t)) - Len(text))
    BY <1>1, <1>4, <1>7, <1>9, <1>10
  <2> QED
    BY <2>1, <1>9, <1>10, <1>12
<1> QED
  BY <1>4, <1>5, <1>6, <1>7, <1>8, <1>12, <1>13, <1>14

LEMMA TypesStep ==
  ASSUME Types, [Next]_vars
  PROVE  Types'
<1> USE DEF Types
<1>0. /\ << >> \in Seq(STRING) /\ << >> \in Seq(Byte) /\ << >> \in Seq(Seq(Byte))
      /\ Len(<< >>) = 0
      /\ Len(archive) \in Nat /\ Len(pipe) \in Nat
      /\ PipeSize \in Nat \ {0}
  BY EmptySeq, LenProperties, CutterAssumption
<1>1. CASE Emit
  <2>1. digest' \in Seq(Byte) /\ view' \in Seq(Byte) /\ Len(digest') <= size
    BY <1>1, EmitSplit
  <2> QED
    BY <2>1, <1>1 DEF Emit, inputs, threads
<1>2. CASE Read
  <2>1. PICK n \in 1..Len(pipe) :
          /\ text' \in Seq(STRING) /\ view' \in Seq(Byte)
          /\ pipe' \in Seq(STRING) /\ Len(pipe') = Len(pipe) - n
    BY <1>2, ReadSplit
  <2>2. Len(pipe') <= PipeSize
    BY <2>1, <1>0
  <2> QED
    BY <2>1, <2>2, <1>2 DEF Read, inputs
<1>3. CASE ReadEof
  BY <1>3, TagBytes DEF ReadEof, inputs, threads
<1>4. CASE Finish
  BY <1>4 DEF Finish, inputs, threads
<1>5. CASE Close
  <2>1. parts' \in Seq(Seq(Byte))
    BY <1>5, AppendProperties DEF Close
  <2> QED
    BY <2>1, <1>5 DEF Close, inputs, threads
<1>6. CASE CloseFails
  <2>1. parts' \in Seq(Seq(Byte))
    BY <1>6, AppendProperties DEF CloseFails
  <2>2. left' \in [Mishaps -> Nat]
    BY <1>6, SpendType DEF CloseFails, Mishaps
  <2> QED
    BY <2>1, <2>2, <1>6 DEF CloseFails, inputs, threads
<1>7. CASE Unlink
  <2>1. digest' \in Seq(Byte) /\ Len(digest') = 0
    BY <1>7, <1>0, Zenon DEF Unlink
  <2>2. UNCHANGED <<archive, size, builder, stage, sent, pipe, text, view, parts, left>>
    BY <1>7 DEF Unlink, inputs, threads
  <2>3. index' \in Nat
    BY <1>7 DEF Unlink
  <2>4. pc' \in {"leave", "emit"}
    BY <1>7, Zenon DEF Unlink
  <2>5. raised' \in BOOLEAN
    BY <1>7, Zenon DEF Unlink
  <2> QED
    BY <2>1, <2>2, <2>3, <2>4, <2>5
<1>8. CASE Leave
  BY <1>8, <1>0 DEF Leave, inputs
<1>9. CASE Join
  BY <1>9 DEF Join, inputs, threads
<1>10. CASE Build
  <2>1. sent + 1 \in 1..Len(archive) /\ sent' = sent + 1
    BY <1>10, <1>0 DEF Build
  <2>2. archive[sent + 1] \in STRING
    BY <2>1, ElementOfSeq
  <2>3. pipe' \in Seq(STRING) /\ Len(pipe') = Len(pipe) + 1
    BY <2>2, <1>10, AppendProperties DEF Build
  <2> QED
    BY <2>1, <2>3, <1>0, <1>10 DEF Build, inputs
<1>11. CASE BuilderEnds
  BY <1>11 DEF BuilderEnds, inputs
<1>12. CASE BuilderBreaks
  <2>1. left' \in [Mishaps -> Nat]
    BY <1>12, SpendType DEF BuilderBreaks, Mishaps
  <2> QED
    BY <2>1, <1>12 DEF BuilderBreaks, inputs
<1>13. CASE Start
  <2>1. /\ pipe' \in Seq(STRING) /\ Len(pipe') = 0
        /\ text' \in Seq(STRING)
        /\ digest' \in Seq(Byte) /\ Len(digest') = 0
        /\ parts' \in Seq(Seq(Byte))
    BY <1>13, <1>0, Zenon DEF Start
  <2>2. view' \in Seq(Byte)
    BY <1>13, HeaderBytes DEF Start
  <2>3. /\ pc' = "emit" /\ builder' = "building" /\ stage' = "header"
        /\ raised' = FALSE /\ sent' = 0 /\ index' = 0
        /\ UNCHANGED <<archive, size, left>>
    BY <1>13 DEF Start
  <2>4. sent' \in 0..Len(archive') /\ Len(pipe') <= PipeSize /\ Len(digest') <= size
    BY <2>1, <2>3, <1>0
  <2> QED
    BY <2>1, <2>2, <2>3, <2>4
<1>14. CASE Crash
  <2>1. left' \in [Mishaps -> Nat]
    BY <1>14, SpendType DEF Crash, Mishaps
  <2> QED
    BY <2>1, <1>14 DEF Crash, inputs
<1>15. CASE UNCHANGED vars
  BY <1>15 DEF vars
<1> QED
  BY <1>1, <1>2, <1>3, <1>4, <1>5, <1>6, <1>7, <1>8, <1>9, <1>10, <1>11, <1>12, <1>13,
     <1>14, <1>15 DEF Next, Main, Builder, Environment

\* Every value of the system has its type, in every reachable state: however the
\* threads interleave, no part grows past --part-size (stream.py:213-241).
THEOREM CutterTypes == Spec => []TypeOK
<1>1. Init => Types
  BY TypesInit
<1>2. Types /\ [Next]_vars => Types'
  BY TypesStep
<1>3. Types => TypeOK
  BY DEF Types, TypeOK
<1> QED
  BY <1>1, <1>2, <1>3, PTL DEF Spec

-----------------------------------------------------------------------------
(* The plaintext: what has been read, followed by what is in the pipe, is  *)
(* what the builder has written of the archive.                            *)

Running == pc \in {"emit", "close", "unlink", "leave", "join"}

Prefix == Len(text) <= sent /\ \A j \in 1..Len(text) : text[j] = archive[j]

Flow ==
  pc \in {"emit", "close", "unlink"} =>
    /\ Len(text) + Len(pipe) = sent
    /\ \A j \in 1..Len(pipe) : pipe[j] = archive[Len(text) + j]

AtEnd == (Running /\ stage = "tag") => Len(text) = sent /\ builder \in {"ended", "failed"}

Through == (pc \in {"leave", "join"} /\ ~raised) => stage = "tag"

ArchiveInv ==
  /\ builder = "ended" => sent = Len(archive)
  /\ Prefix /\ Flow /\ AtEnd /\ Through
  /\ DoneMeansWhole

LEMMA ArchiveInit == Init => ArchiveInv
<1> SUFFICES ASSUME Init PROVE ArchiveInv
  OBVIOUS
<1>1. pc = "idle" /\ builder = "off"
  BY DEF Init
<1>2. sent = 0 /\ Len(text) = 0
  BY EmptySeq, Zenon DEF Init
<1> QED
  BY <1>1, <1>2 DEF ArchiveInv, Prefix, Flow, AtEnd, Running, Through, DoneMeansWhole

LEMMA ArchiveStep ==
  ASSUME Types, ArchiveInv, [Next]_vars
  PROVE  ArchiveInv'
<1>0. /\ Len(archive) \in Nat /\ Len(pipe) \in Nat /\ Len(text) \in Nat /\ sent \in Nat
      /\ archive \in Seq(STRING) /\ text \in Seq(STRING) /\ pipe \in Seq(STRING)
  BY LenProperties DEF Types
<1> USE DEF ArchiveInv, Prefix, Flow, AtEnd, Running, Through, DoneMeansWhole
<1>1. CASE Emit
  BY <1>1, Zenon DEF Emit, inputs, threads
<1>2. CASE Read
  <2>1. PICK n \in 1..Len(pipe) :
          /\ text' \in Seq(STRING) /\ Len(text') = Len(text) + n
          /\ \A j \in 1..(Len(text) + n) :
               text'[j] = IF j <= Len(text) THEN text[j] ELSE pipe[j - Len(text)]
          /\ pipe' \in Seq(STRING) /\ Len(pipe') = Len(pipe) - n
          /\ \A j \in 1..(Len(pipe) - n) : pipe'[j] = pipe[n + j]
    BY <1>2, ReadSplit
  <2>2. /\ pc = "emit" /\ stage' = "body"
        /\ UNCHANGED <<archive, sent, pc, builder, raised>>
    BY <1>2 DEF Read, inputs
  <2>3. Len(text) + Len(pipe) = sent
    BY <2>2
  <2>4. Len(text') + Len(pipe') = sent' /\ Len(text') <= sent'
    <3> HIDE DEF ArchiveInv, Prefix, Flow, AtEnd, Running, Through, DoneMeansWhole
    <3>1. n \in Nat /\ n <= Len(pipe)
      BY <1>0
    <3>2. Len(text') = Len(text) + n /\ Len(pipe') = Len(pipe) - n /\ sent' = sent
      BY <2>1, <2>2
    <3> QED
      BY <3>1, <3>2, <2>3, <1>0
  <2>5. ASSUME NEW j \in 1..Len(text') PROVE text'[j] = archive'[j]
    <3>1. CASE j <= Len(text)
      BY <3>1, <2>1, <2>2, <2>5, <1>0
    <3>2. CASE j > Len(text)
      <4>1. j - Len(text) \in 1..Len(pipe) /\ j \in 1..(Len(text) + n)
        BY <3>2, <2>1, <1>0
      <4>2. text'[j] = pipe[j - Len(text)]
        BY <4>1, <3>2, <2>1, <1>0
      <4>3. pipe[j - Len(text)] = archive[Len(text) + (j - Len(text))]
        BY <4>1, <2>2
      <4>4. Len(text) + (j - Len(text)) = j
        BY <4>1, <1>0
      <4> QED
        BY <4>2, <4>3, <4>4, <2>2
    <3> QED
      BY <3>1, <3>2, <2>1, <1>0
  <2>6. ASSUME NEW j \in 1..Len(pipe') PROVE pipe'[j] = archive'[Len(text') + j]
    <3>1. j \in 1..(Len(pipe) - n) /\ n + j \in 1..Len(pipe)
      BY <2>1, <1>0
    <3>2. pipe'[j] = archive[Len(text) + (n + j)]
      BY <3>1, <2>1, <2>2
    <3>3. Len(text) + (n + j) = Len(text') + j
      BY <3>1, <2>1, <1>0
    <3> QED
      BY <3>2, <3>3, <2>2
  <2> QED
    BY <2>2, <2>4, <2>5, <2>6
<1>3. CASE ReadEof
  <2>1. Len(pipe) = 0
    BY <1>3, EmptySeq, Zenon DEF ReadEof
  <2>2. /\ pc = "emit" /\ builder \in {"ended", "failed"}
        /\ UNCHANGED <<archive, sent, pc, builder, raised, text, pipe>>
    BY <1>3 DEF ReadEof, inputs, threads
  <2> QED
    BY <2>1, <2>2, <1>0
<1>4. CASE Finish
  <2>1. /\ pc = "emit" /\ pc' \in {"close", "leave"} /\ stage = "tag" /\ stage' = stage
        /\ UNCHANGED <<archive, sent, builder, raised, text, pipe>>
    BY <1>4, Zenon DEF Finish, inputs, threads
  <2> QED
    BY <2>1
<1>5. CASE Close
  BY <1>5 DEF Close, inputs, threads
<1>6. CASE CloseFails
  BY <1>6 DEF CloseFails, inputs, threads
<1>7. CASE Unlink
  <2>1. pc = "unlink" /\ UNCHANGED <<archive, sent, builder, text, pipe, stage>>
    BY <1>7 DEF Unlink, inputs, threads
  <2>2. \/ pc' = "leave" /\ stage = "tag"
        \/ pc' = "leave" /\ raised'
        \/ pc' = "emit"
    BY <1>7, Zenon DEF Unlink, Over
  <2> QED
    BY <2>1, <2>2
<1>8. CASE Leave
  <2>1. /\ pc = "leave" /\ pc' = "join"
        /\ UNCHANGED <<archive, sent, builder, text, stage, raised>>
    BY <1>8 DEF Leave, inputs
  <2> QED
    BY <2>1
<1>9. CASE Join
  <2>1. /\ pc = "join" /\ UNCHANGED <<archive, sent, builder, text, stage, raised, pipe>>
        /\ pc' \in {"done", "failed"}
    BY <1>9, Zenon DEF Join, inputs, threads
  <2>2. pc' = "done" => ~raised /\ builder = "ended"
    BY <1>9, Zenon DEF Join, inputs, threads
  <2>3. pc' = "done" => text = archive
    <3> HAVE pc' = "done"
    <3>1. Len(text) = Len(archive) /\ \A j \in 1..Len(text) : text[j] = archive[j]
      BY <2>1, <2>2
    <3> QED
      BY <3>1, <1>0, SeqEqual
  <2> QED
    BY <2>1, <2>3
<1>10. CASE Build
  <2>1. /\ builder = "building" /\ sent < Len(archive) /\ sent' = sent + 1
        /\ pipe' = Append(pipe, archive[sent + 1])
        /\ pc \in {"emit", "close", "unlink", "leave"}
        /\ UNCHANGED <<archive, pc, builder, text, stage, raised>>
    BY <1>10 DEF Build, inputs, ReaderOpen
  <2>2. archive[sent + 1] \in STRING
    BY <2>1, <1>0, ElementOfSeq
  <2>3. /\ Len(pipe') = Len(pipe) + 1 /\ pipe'[Len(pipe) + 1] = archive[sent + 1]
        /\ \A j \in 1..Len(pipe) : pipe'[j] = pipe[j]
    BY <2>1, <2>2, <1>0, AppendProperties
  <2>4. Prefix'
    BY <2>1, <1>0
  <2>5. ASSUME pc \in {"emit", "close", "unlink"}
        PROVE  /\ Len(text) + Len(pipe') = sent'
               /\ \A j \in 1..Len(pipe') : pipe'[j] = archive[Len(text) + j]
    <3>1. /\ Len(text) + Len(pipe) = sent
          /\ \A j \in 1..Len(pipe) : pipe[j] = archive[Len(text) + j]
      BY <2>5
    <3> HIDE DEF ArchiveInv, Prefix, Flow, AtEnd, Running, Through, DoneMeansWhole
    <3>2. ASSUME NEW j \in 1..Len(pipe') PROVE pipe'[j] = archive[Len(text) + j]
      <4>1. CASE j = Len(pipe) + 1
        <5>1. Len(text) + j = sent + 1
          BY <4>1, <3>1, <1>0
        <5> QED
          BY <5>1, <4>1, <2>3
      <4>2. CASE j # Len(pipe) + 1
        <5>1. j \in 1..Len(pipe)
          BY <4>2, <2>3, <3>2, <1>0
        <5> QED
          BY <5>1, <2>3, <3>1
      <4> QED
        BY <4>1, <4>2
    <3>3. Len(text) + Len(pipe') = sent'
      BY <3>1, <2>1, <2>3, <1>0
    <3> QED
      BY <3>2, <3>3
  <2>6. Flow'
    BY <2>1, <2>5
  <2> QED
    BY <2>1, <2>4, <2>6, <1>0
<1>11. CASE BuilderEnds
  <2>1. /\ builder = "building" /\ builder' \in {"ended", "failed"}
        /\ builder' = "ended" => sent = Len(archive)
        /\ UNCHANGED <<archive, pc, sent, pipe, text, stage, raised>>
    BY <1>11 DEF BuilderEnds, inputs
  <2> QED
    BY <2>1
<1>12. CASE BuilderBreaks
  BY <1>12 DEF BuilderBreaks, inputs
<1>13. CASE Start
  <2>1. /\ Len(text') = 0 /\ Len(pipe') = 0
    BY <1>13, EmptySeq, Zenon DEF Start
  <2>2. /\ sent' = 0 /\ pc' = "emit" /\ builder' = "building" /\ stage' = "header"
        /\ raised' = FALSE /\ archive' = archive
    BY <1>13 DEF Start
  <2> QED
    BY <2>1, <2>2
<1>14. CASE Crash
  BY <1>14 DEF Crash, inputs
<1>15. CASE UNCHANGED vars
  BY <1>15, Zenon DEF vars
<1> QED
  BY <1>1, <1>2, <1>3, <1>4, <1>5, <1>6, <1>7, <1>8, <1>9, <1>10, <1>11, <1>12, <1>13,
     <1>14, <1>15 DEF Next, Main, Builder, Environment

\* A run that succeeds has read the archive to its end: a builder that breaks
\* makes the pipe end early, and that is never taken for the end of the archive
\* (stream.py:126-140).
THEOREM SucceedsOnlyWhole == Spec => []DoneMeansWhole
<1>1. Init => Types /\ ArchiveInv
  BY TypesInit, ArchiveInit
<1>2. Types /\ ArchiveInv /\ [Next]_vars => (Types /\ ArchiveInv)'
  BY TypesStep, ArchiveStep
<1>3. ArchiveInv => DoneMeansWhole
  BY DEF ArchiveInv
<1> QED
  BY <1>1, <1>2, <1>3, PTL DEF Spec

-----------------------------------------------------------------------------
(* The part files: those of parts not yet uploaded are at most one, that   *)
(* of the first part still missing; those of uploaded parts are what runs  *)
(* killed before the unlink have left.                                     *)

\* A part that every earlier part has landed before.
Foremost(i) == \A j \in Nat : j < i => j \in landed

Landing ==
  /\ landed \subseteq Nat /\ skip \subseteq landed
  /\ \A i \in landed : Foremost(i)

\* Where a run is: behind it everything has landed, before it nothing that had
\* not landed when it began.
Position ==
  /\ pc \in {"emit", "close"} => Foremost(index) /\ \A i \in landed \ skip : i < index
  /\ pc = "unlink" => /\ Foremost(index) /\ index \in landed
                      /\ \A i \in landed \ skip : i <= index

InHand ==
  (pc \in {"emit", "close"} /\ Wanted(index)) =>
    index \in DOMAIN files /\ files[index] = digest

Waiting ==
  /\ DOMAIN files \subseteq Nat
  /\ \A a \in DOMAIN files \ landed : Foremost(a)
  /\ (pc = "unlink" /\ Wanted(index)) => DOMAIN files \subseteq landed

\* The files of uploaded parts that no run is about to remove.
Kept == (DOMAIN files \cap landed) \ (IF pc = "unlink" THEN {index} \ skip ELSE {})

FewKept ==
  /\ IsFiniteSet(Kept)
  /\ Cardinality(Kept) <= Budget["crash"] - left["crash"]

DiskInv == Landing /\ Position /\ InHand /\ Waiting /\ FewKept

LEMMA OpenedFiles ==
  ASSUME NEW dir, NEW i, NEW skipped
  PROVE  /\ DOMAIN Opened(dir, i, skipped) =
              IF i \in skipped THEN DOMAIN dir ELSE DOMAIN dir \cup {i}
         /\ i \notin skipped => Opened(dir, i, skipped)[i] = << >>
BY DEF Opened

LEMMA RemovedFiles == DOMAIN Removed = DOMAIN files \ ({index} \ skip)
BY DEF Removed

\* Only a part that had not landed when the run began has a file, and it is the
\* first that has not landed.
LEMMA OnlyFile ==
  ASSUME Types, Landing, Position, Waiting, pc \in {"emit", "close"}, Wanted(index)
  PROVE  /\ index \notin landed
         /\ \A a \in DOMAIN files \ landed : a = index
<1>1. index \in Nat
  BY DEF Types
<1>2. index \notin landed
  BY <1>1 DEF Position, Wanted
<1>3. ASSUME NEW a \in DOMAIN files \ landed PROVE a = index
  <2>1. a \in Nat /\ Foremost(a) /\ Foremost(index)
    BY DEF Waiting, Position
  <2> QED
    BY <2>1, <1>1, <1>2 DEF Foremost
<1> QED
  BY <1>2, <1>3

LEMMA KeptShrinks ==
  ASSUME Types, FewKept, Kept' \subseteq Kept, left'["crash"] = left["crash"]
  PROVE  FewKept'
<1>1. IsFiniteSet(Kept') /\ Cardinality(Kept') <= Cardinality(Kept)
  BY FS_Subset DEF FewKept
<1>2. Cardinality(Kept) \in Nat /\ Cardinality(Kept') \in Nat
  BY <1>1, FS_CardinalityType DEF FewKept
<1>3. left["crash"] \in Nat /\ Budget["crash"] \in Nat
  BY CutterAssumption DEF Types, Mishaps
<1> QED
  BY <1>1, <1>2, <1>3 DEF FewKept

LEMMA DiskInit == Init => DiskInv
<1> SUFFICES ASSUME Init PROVE DiskInv
  OBVIOUS
<1>1. pc = "idle" /\ landed = {} /\ skip = {} /\ left = Budget
  BY DEF Init
<1>2. DOMAIN files = {}
  BY DEF Init
<1>3. Kept = {}
  BY <1>1 DEF Kept
<1>4. Budget["crash"] \in Nat
  BY CutterAssumption DEF Mishaps
<1>5. FewKept
  BY <1>1, <1>3, <1>4, FS_EmptySet DEF FewKept
<1> QED
  BY <1>1, <1>2, <1>5 DEF DiskInv, Landing, Position, InHand, Waiting

LEMMA DiskStep ==
  ASSUME Types, DiskInv, [Next]_vars
  PROVE  DiskInv'
<1>0. Landing /\ Position /\ InHand /\ Waiting /\ FewKept
  BY DEF DiskInv
<1>1. CASE Emit
  <2>1. PICK n \in 0..Len(view) :
          /\ digest' = digest \o SubSeq(view, 1, n)
          /\ files' = IF Wanted(index)
                        THEN [files EXCEPT ![index] = @ \o SubSeq(view, 1, n)] ELSE files
    BY <1>1, EmitSplit
  <2>2. pc = "emit" /\ pc' \in {"emit", "close"} /\ UNCHANGED <<landed, skip, index, left>>
    BY <1>1, Zenon DEF Emit, inputs
  <2>3. DOMAIN files' = DOMAIN files
    BY <2>1
  <2>4. InHand'
    BY <2>1, <2>2, <1>0 DEF InHand, Wanted
  <2>5. Kept' = Kept
    BY <2>2, <2>3 DEF Kept
  <2>6. FewKept'
    BY <2>2, <2>5, <1>0, KeptShrinks
  <2> QED
    BY <2>2, <2>3, <2>4, <2>6, <1>0 DEF DiskInv, Landing, Position, Waiting, Foremost
<1>2. CASE Read
  BY <1>2, <1>0 DEF Read, inputs, DiskInv, Landing, Position, InHand, Waiting, FewKept, Kept,
     Foremost, Wanted
<1>3. CASE ReadEof
  BY <1>3, <1>0 DEF ReadEof, inputs, threads, DiskInv, Landing, Position, InHand, Waiting,
     FewKept, Kept, Foremost, Wanted
<1>4. CASE Finish
  <2>1. /\ pc = "emit" /\ UNCHANGED <<landed, skip, index, left, digest>>
        /\ \/ pc' = "close" /\ files' = files
           \/ pc' = "leave" /\ files' = Removed
    BY <1>4, Zenon DEF Finish, inputs
  <2>2. DOMAIN files' \subseteq DOMAIN files
    BY <2>1, RemovedFiles
  <2>3. Kept' \subseteq Kept
    BY <2>1, <2>2 DEF Kept
  <2>4. FewKept'
    BY <2>1, <2>3, <1>0, KeptShrinks
  <2> QED
    BY <2>1, <2>2, <2>4, <1>0 DEF DiskInv, Landing, Position, InHand, Waiting, Foremost,
       Wanted
<1>5. CASE Close
  <2>1. /\ pc = "close" /\ pc' = "unlink" /\ landed' = landed \cup {index}
        /\ UNCHANGED <<skip, index, left, digest, files>>
    BY <1>5 DEF Close, inputs
  <2>2. index \in Nat
    BY DEF Types
  <2>3. Foremost(index) /\ Foremost(index)'
    BY <2>1, <1>0 DEF Position, Foremost
  <2>4. Landing' /\ Position'
    BY <2>1, <2>2, <2>3, <1>0 DEF Landing, Position, Foremost
  <2>5. Waiting'
    BY <2>1, <2>2, <1>0, OnlyFile DEF Waiting, Foremost, Wanted
  <2>6. Kept' \subseteq Kept
    BY <2>1, <1>0 DEF Kept, Landing
  <2>7. FewKept'
    BY <2>1, <2>6, <1>0, KeptShrinks
  <2> QED
    BY <2>1, <2>4, <2>5, <2>7 DEF DiskInv, InHand
<1>6. CASE CloseFails
  <2>1. /\ pc = "close" /\ pc' = "leave"
        /\ UNCHANGED <<skip, landed, index, files>>
    BY <1>6 DEF CloseFails, inputs
  <2>2. left'["crash"] = left["crash"]
    BY <1>6 DEF CloseFails, Types, Spend, Mishaps
  <2>3. Kept' \subseteq Kept
    BY <2>1 DEF Kept
  <2>4. FewKept'
    BY <2>2, <2>3, <1>0, KeptShrinks
  <2> QED
    BY <2>1, <2>4, <1>0 DEF DiskInv, Landing, Position, InHand, Waiting, Foremost
<1>7. CASE Unlink
  <2>1. /\ pc = "unlink" /\ index' = index + 1 /\ digest' = << >>
        /\ UNCHANGED <<skip, landed, left>>
    BY <1>7 DEF Unlink, inputs
  <2>2. \/ pc' = "leave" /\ files' = Removed
        \/ pc' = "emit" /\ files' = Opened(Removed, index', skip)
    BY <1>7, Zenon DEF Unlink
  <2>3. index \in Nat /\ index + 1 \in Nat
    BY DEF Types
  <2>4. Landing'
    BY <2>1, <1>0 DEF Landing, Foremost
  <2>5. Foremost(index + 1) /\ \A i \in landed \ skip : i < index + 1
    BY <2>1, <2>3, <1>0 DEF Position, Landing, Foremost
  <2>6. Position'
    BY <2>1, <2>2, <2>5 DEF Position, Foremost
  <2>7. index + 1 \notin skip => index + 1 \notin landed
    BY <2>3, <2>5
  <2>8. /\ DOMAIN Removed = DOMAIN files \ ({index} \ skip)
        /\ DOMAIN Opened(Removed, index', skip) =
             IF index + 1 \in skip THEN DOMAIN Removed ELSE DOMAIN Removed \cup {index + 1}
        /\ index + 1 \notin skip => Opened(Removed, index', skip)[index + 1] = << >>
    BY <2>1, RemovedFiles, OpenedFiles
  <2>9. InHand'
    BY <2>1, <2>2, <2>8 DEF InHand, Wanted
  <2>10. \A a \in DOMAIN files' : a \in DOMAIN files \/ (a = index + 1 /\ a \notin landed)
    BY <2>2, <2>7, <2>8
  <2>11. Waiting'
    BY <2>1, <2>2, <2>3, <2>5, <2>10, <1>0 DEF Waiting, Foremost
  <2>12. Kept' \subseteq Kept
    <3>1. pc' # "unlink" /\ ~(index \in landed' /\ index \in DOMAIN files' /\ index \notin skip)
      BY <2>1, <2>2, <2>3, <2>8
    <3> QED
      BY <3>1, <2>1, <2>10 DEF Kept
  <2>13. FewKept'
    BY <2>1, <2>12, <1>0, KeptShrinks
  <2> QED
    BY <2>4, <2>6, <2>9, <2>11, <2>13 DEF DiskInv
<1>8. CASE Leave
  BY <1>8, <1>0 DEF Leave, inputs, DiskInv, Landing, Position, InHand, Waiting, FewKept, Kept,
     Foremost, Wanted
<1>9. CASE Join
  <2>1. pc = "join" /\ pc' \in {"done", "failed"} /\ UNCHANGED <<skip, landed, left, files>>
    BY <1>9, Zenon DEF Join, inputs
  <2> QED
    BY <2>1, <1>0 DEF DiskInv, Landing, Position, InHand, Waiting, FewKept, Kept, Foremost
<1>10. CASE Build
  BY <1>10, <1>0 DEF Build, inputs, DiskInv, Landing, Position, InHand, Waiting, FewKept,
     Kept, Foremost, Wanted
<1>11. CASE BuilderEnds
  BY <1>11, <1>0 DEF BuilderEnds, inputs, DiskInv, Landing, Position, InHand, Waiting,
     FewKept, Kept, Foremost, Wanted
<1>12. CASE BuilderBreaks
  <2>1. UNCHANGED <<pc, skip, landed, files, index, digest>>
    BY <1>12 DEF BuilderBreaks, inputs
  <2>2. left'["crash"] = left["crash"]
    BY <1>12 DEF BuilderBreaks, Types, Spend, Mishaps
  <2>3. FewKept'
    BY <2>1, <2>2, <1>0 DEF FewKept, Kept
  <2> QED
    BY <2>1, <2>3, <1>0 DEF DiskInv, Landing, Position, InHand, Waiting, Foremost, Wanted
<1>13. CASE Start
  <2>1. /\ pc \in {"idle", "done", "failed"} /\ pc' = "emit" /\ index' = 0
        /\ digest' = << >> /\ skip' = landed /\ landed' = landed /\ left' = left
        /\ files' = Opened(files, 0, landed)
    BY <1>13 DEF Start, AtRest
  <2>2. /\ DOMAIN files' = IF 0 \in landed THEN DOMAIN files ELSE DOMAIN files \cup {0}
        /\ 0 \notin landed => files'[0] = << >>
    BY <2>1, OpenedFiles
  <2>3. InHand'
    BY <2>1, <2>2 DEF InHand, Wanted
  <2>4. Kept' \subseteq Kept
    BY <2>1, <2>2 DEF Kept
  <2>5. FewKept'
    BY <2>1, <2>4, <1>0, KeptShrinks
  <2>6. Landing' /\ Position'
    BY <2>1, <1>0 DEF Landing, Position, Foremost
  <2>7. Waiting'
    BY <2>1, <2>2, <1>0 DEF Waiting, Foremost
  <2> QED
    BY <2>3, <2>5, <2>6, <2>7 DEF DiskInv
<1>14. CASE Crash
  <2>1. pc' = "idle" /\ UNCHANGED <<skip, landed, files, index, digest>>
    BY <1>14 DEF Crash, inputs
  <2>2. /\ left["crash"] \in Nat /\ left'["crash"] = left["crash"] - 1
        /\ Budget["crash"] \in Nat
    BY <1>14, CutterAssumption DEF Crash, Types, Spend, Mishaps
  <2>3. Kept' \subseteq Kept \cup {index}
    BY <2>1 DEF Kept
  <2>4. /\ IsFiniteSet(Kept \cup {index})
        /\ Cardinality(Kept \cup {index}) <= Cardinality(Kept) + 1
    <3>1. IsFiniteSet(Kept) /\ Cardinality(Kept) \in Nat
      BY <1>0, FS_CardinalityType DEF FewKept
    <3> QED
      BY <3>1, FS_AddElement
  <2>5. IsFiniteSet(Kept') /\ Cardinality(Kept') <= Cardinality(Kept \cup {index})
    BY <2>3, <2>4, FS_Subset
  <2>6. /\ Cardinality(Kept) \in Nat /\ Cardinality(Kept') \in Nat
        /\ Cardinality(Kept \cup {index}) \in Nat
    BY <1>0, <2>4, <2>5, FS_CardinalityType DEF FewKept
  <2>7. FewKept'
    BY <2>2, <2>4, <2>5, <2>6, <1>0 DEF FewKept
  <2> QED
    BY <2>1, <2>7, <1>0 DEF DiskInv, Landing, Position, InHand, Waiting, Foremost
<1>15. CASE UNCHANGED vars
  BY <1>15, <1>0 DEF vars, DiskInv, Landing, Position, InHand, Waiting, FewKept, Kept,
     Foremost, Wanted
<1> QED
  BY <1>1, <1>2, <1>3, <1>4, <1>5, <1>6, <1>7, <1>8, <1>9, <1>10, <1>11, <1>12, <1>13,
     <1>14, <1>15 DEF Next, Main, Builder, Environment

LEMMA DiskOnePart ==
  ASSUME Types, DiskInv
  PROVE  OnePartOnDisk
<1>1. /\ IsFiniteSet(Kept) /\ Cardinality(Kept) \in Nat
      /\ Cardinality(Kept) <= Budget["crash"] - left["crash"]
      /\ Budget["crash"] \in Nat /\ left["crash"] \in Nat
  BY CutterAssumption, FS_CardinalityType DEF DiskInv, FewKept, Mishaps, Types
<1>2. \E x : DOMAIN files \subseteq Kept \cup {x}
  <2>1. CASE pc = "unlink" /\ Wanted(index)
    BY <2>1 DEF DiskInv, Waiting, Kept
  <2>2. CASE ~(pc = "unlink" /\ Wanted(index))
    <3>1. Kept = DOMAIN files \cap landed
      BY <2>2 DEF Kept, Wanted
    <3>2. \A a, b \in DOMAIN files \ landed : a = b
      <4> TAKE a, b \in DOMAIN files \ landed
      <4>1. a \in Nat /\ b \in Nat /\ Foremost(a) /\ Foremost(b)
        BY DEF DiskInv, Waiting
      <4> QED
        BY <4>1 DEF Foremost
    <3> QED
      BY <3>1, <3>2
  <2> QED
    BY <2>1, <2>2
<1>3. PICK x : DOMAIN files \subseteq Kept \cup {x}
  BY <1>2
<1>4. /\ IsFiniteSet(Kept \cup {x})
      /\ Cardinality(Kept \cup {x}) <= Cardinality(Kept) + 1
  BY <1>1, FS_AddElement
<1>5. IsFiniteSet(DOMAIN files) /\ Cardinality(DOMAIN files) <= Cardinality(Kept \cup {x})
  BY <1>3, <1>4, FS_Subset
<1>6. Cardinality(DOMAIN files) \in Nat /\ Cardinality(Kept \cup {x}) \in Nat
  BY <1>4, <1>5, FS_CardinalityType
<1> QED
  BY <1>1, <1>4, <1>5, <1>6 DEF OnePartOnDisk

\* However many parts the stream has and however often it is pushed again, the
\* work directory holds one part file and those the killed runs left
\* (stream.py:6-7, 184-186).
THEOREM OnePartFile == Spec => []OnePartOnDisk
<1>1. Init => Types /\ DiskInv
  BY TypesInit, DiskInit
<1>2. Types /\ DiskInv /\ [Next]_vars => (Types /\ DiskInv)'
  BY TypesStep, DiskStep
<1>3. Types /\ DiskInv => OnePartOnDisk
  BY DiskOnePart
<1> QED
  BY <1>1, <1>2, <1>3, PTL DEF Spec

-----------------------------------------------------------------------------
(* The parts: each holds its stretch of the stream, and together they hold *)
(* all of it.                                                              *)

\* The bytes before part i, of parts of s bytes.
Before(i, s) == i * s

\* The bytes b are those that follow the first n of the stream of a plaintext t.
Stretch(b, t, n) == \A j \in 1..Len(b) : b[j] = ByteAt(t, n + j)

\* How much of the stream has been made so far, and how much there will be of it.
Ready == IF stage = "tag" THEN HeaderSize + Len(text) + TagSize ELSE HeaderSize + Len(text)
Total == HeaderSize + Len(text) + TagSize

FullParts ==
  \A k \in 1..index :
    Len(parts[k]) = size /\ Stretch(parts[k], text, Before(k - 1, size))

\* In the middle of the stream: full parts, then the part in hand, then the view.
Cutting ==
  /\ Before(index, size) + Len(digest) + Len(view) = Ready
  /\ Stretch(view, text, Before(index, size) + Len(digest))
  /\ Stretch(digest, text, Before(index, size))
  /\ FullParts
  /\ pc \in {"emit", "close"} => Len(parts) = index
  /\ pc = "unlink" => Len(parts) = index + 1 /\ parts[index + 1] = digest
  /\ pc = "emit" => Len(digest) < size
  /\ pc \in {"close", "unlink"} => Len(digest) >= 1 /\ (Len(digest) = size \/ Over)

\* At its end: the last part may be short, and is not empty.
CutWhole ==
  /\ Len(parts) >= 1
  /\ Before(Len(parts) - 1, size) < Total /\ Total <= Before(Len(parts), size)
  /\ \A k \in 1..Len(parts) :
       /\ Len(parts[k]) = IF k < Len(parts) THEN size ELSE Total - Before(k - 1, size)
       /\ Stretch(parts[k], text, Before(k - 1, size))

StreamInv ==
  /\ pc \in {"emit", "close", "unlink"} => Cutting
  /\ (pc \in {"leave", "join", "done"} /\ ~raised) => CutWhole

LEMMA BeforeNext ==
  ASSUME NEW s \in Nat, NEW i \in Nat
  PROVE  /\ Before(i, s) \in Nat
         /\ Before(i + 1, s) = Before(i, s) + s
         /\ Before(0, s) = 0
BY DEF Before

LEMMA BeforeMonotone ==
  ASSUME NEW s \in Nat, NEW i \in Nat, NEW k \in Nat, i <= k
  PROVE  Before(i, s) <= Before(k, s)
<1>1. k - i \in Nat /\ (k - i) * s \in Nat
  OBVIOUS
<1>2. k * s = i * s + (k - i) * s
  OBVIOUS
<1> QED
  BY <1>1, <1>2 DEF Before

LEMMA Quotient ==
  ASSUME NEW a \in Nat, NEW s \in Nat \ {0}, NEW q \in Nat,
         q * s <= a, a < q * s + s
  PROVE  a \div s = q
OBVIOUS

LEMMA BodyAt ==
  ASSUME NEW t \in Seq(STRING), NEW j \in 1..Len(t)
  PROVE  ByteAt(t, HeaderSize + j) = <<"body", Salt, j, <<t[j]>> >>
<1>1. PICK k \in Nat : k = HeaderSize + j
  BY CipherAssumption, LenProperties
<1>2. ~(k <= HeaderSize) /\ k <= HeaderSize + Len(t) /\ k - HeaderSize = j
  BY <1>1, CipherAssumption, LenProperties
<1>3. ByteAt(t, k) = <<"body", Salt, k - HeaderSize, <<t[k - HeaderSize]>> >>
  BY <1>2, Zenon DEF ByteAt
<1> QED
  BY <1>1, <1>2, <1>3

LEMMA TagAt ==
  ASSUME NEW t \in Seq(STRING), NEW j \in 1..TagSize
  PROVE  ByteAt(t, HeaderSize + Len(t) + j) = <<"tag", Salt, j, t>>
<1>1. PICK k \in Nat : k = HeaderSize + Len(t) + j
  BY CipherAssumption, LenProperties
<1>2. ~(k <= HeaderSize) /\ ~(k <= HeaderSize + Len(t)) /\ k - HeaderSize - Len(t) = j
  BY <1>1, CipherAssumption, LenProperties
<1>3. ByteAt(t, k) = <<"tag", Salt, k - HeaderSize - Len(t), t>>
  BY <1>2, Zenon DEF ByteAt
<1> QED
  BY <1>1, <1>2, <1>3

\* Reading on does not change the bytes already made.
LEMMA EarlierBytes ==
  ASSUME NEW t \in Seq(STRING), NEW u \in Seq(STRING),
         Len(t) <= Len(u), \A j \in 1..Len(t) : u[j] = t[j],
         NEW j \in 1..(HeaderSize + Len(t))
  PROVE  ByteAt(u, j) = ByteAt(t, j)
<1>1. HeaderSize \in Nat /\ Len(t) \in Nat /\ Len(u) \in Nat
  BY CipherAssumption, LenProperties
<1>2. CASE j <= HeaderSize
  BY <1>2 DEF ByteAt
<1>3. CASE j > HeaderSize
  <2>1. /\ j - HeaderSize \in 1..Len(t) /\ ~(j <= HeaderSize)
        /\ j <= HeaderSize + Len(t) /\ j <= HeaderSize + Len(u)
    BY <1>1, <1>3
  <2>2. u[j - HeaderSize] = t[j - HeaderSize]
    BY <2>1
  <2> QED
    BY <2>1, <2>2, Zenon DEF ByteAt
<1> QED
  BY <1>1, <1>2, <1>3

LEMMA StreamInit == Init => StreamInv
BY DEF Init, StreamInv

\* The quantities of the invariant are numbers.
LEMMA StreamNumbers ==
  ASSUME Types
  PROVE  /\ HeaderSize \in Nat \ {0} /\ TagSize \in Nat \ {0}
         /\ size \in Nat \ {0} /\ index \in Nat
         /\ Len(text) \in Nat /\ Len(view) \in Nat /\ Len(digest) \in Nat
         /\ Len(parts) \in Nat
         /\ Before(index, size) \in Nat
         /\ Before(index + 1, size) = Before(index, size) + size
<1>1. size \in Nat /\ index \in Nat
  BY DEF Types
<1>2. /\ Before(index, size) \in Nat
      /\ Before(index + 1, size) = Before(index, size) + size
  BY <1>1, BeforeNext
<1> QED
  BY <1>2, CipherAssumption, LenProperties DEF Types

\* The steps of which the bytes made so far depend on nothing they change.
LEMMA StreamSame ==
  ASSUME StreamInv,
         UNCHANGED <<text, view, stage, index, digest, parts, size, raised>>,
         pc' = pc
  PROVE  StreamInv'
BY DEF StreamInv, Cutting, CutWhole, FullParts, Stretch, Ready, Total, Over

LEMMA StreamEmit ==
  ASSUME Types, Cutting, Emit
  PROVE  Cutting' /\ pc' \in {"emit", "close"}
<1>0. /\ size \in Nat \ {0} /\ Len(view) \in Nat /\ Len(digest) \in Nat
      /\ Before(index, size) \in Nat
  BY StreamNumbers
<1>1. PICK n \in 0..Len(view) :
        /\ Len(digest') = Len(digest) + n
        /\ \A j \in 1..(Len(digest) + n) :
             digest'[j] = IF j <= Len(digest) THEN digest[j] ELSE view[j - Len(digest)]
        /\ Len(view') = Len(view) - n
        /\ \A j \in 1..(Len(view) - n) : view'[j] = view[n + j]
        /\ Len(digest') <= size
  BY EmitSplit
<1>2. /\ pc = "emit" /\ pc' = IF Len(digest') = size THEN "close" ELSE "emit"
      /\ UNCHANGED <<text, stage, index, parts, size>>
  BY DEF Emit, inputs, threads
<1>3. n \in Nat /\ n <= Len(view)
  BY <1>0
<1>4. /\ Before(index, size) + Len(digest) + Len(view) = Ready
      /\ Stretch(view, text, Before(index, size) + Len(digest))
      /\ Stretch(digest, text, Before(index, size))
      /\ FullParts /\ Len(parts) = index
  BY <1>2 DEF Cutting
<1>5. Before(index, size) + Len(digest') + Len(view') = Ready
  BY <1>0, <1>1, <1>3, <1>4
<1>6. Stretch(digest', text, Before(index, size))
  <2> SUFFICES ASSUME NEW j \in 1..Len(digest')
               PROVE  digest'[j] = ByteAt(text, Before(index, size) + j)
    BY DEF Stretch
  <2>1. CASE j <= Len(digest)
    BY <2>1, <1>0, <1>1, <1>3, <1>4 DEF Stretch
  <2>2. CASE j > Len(digest)
    <3>1. j - Len(digest) \in 1..Len(view) /\ digest'[j] = view[j - Len(digest)]
      BY <2>2, <1>0, <1>1, <1>3
    <3>2. view[j - Len(digest)] =
            ByteAt(text, Before(index, size) + Len(digest) + (j - Len(digest)))
      BY <3>1, <1>4 DEF Stretch
    <3>3. Before(index, size) + Len(digest) + (j - Len(digest)) = Before(index, size) + j
      BY <3>1, <1>0
    <3> QED
      BY <3>1, <3>2, <3>3
  <2> QED
    BY <2>1, <2>2, <1>0, <1>1, <1>3
<1>7. Stretch(view', text, Before(index, size) + Len(digest'))
  <2> SUFFICES ASSUME NEW j \in 1..Len(view')
               PROVE  view'[j] = ByteAt(text, Before(index, size) + Len(digest') + j)
    BY DEF Stretch
  <2>1. n + j \in 1..Len(view) /\ j \in 1..(Len(view) - n)
    BY <1>0, <1>1, <1>3
  <2>2. view'[j] = ByteAt(text, Before(index, size) + Len(digest) + (n + j))
    BY <2>1, <1>1, <1>4 DEF Stretch
  <2>3. Before(index, size) + Len(digest) + (n + j) =
          Before(index, size) + Len(digest') + j
    BY <2>1, <1>0, <1>1, <1>3
  <2> QED
    BY <2>2, <2>3
<1>8. FullParts' /\ Ready' = Ready
  BY <1>2, <1>4 DEF FullParts, Ready
<1>9. /\ pc' \in {"emit", "close"}
      /\ pc' = "emit" => Len(digest') < size
      /\ pc' = "close" => Len(digest') = size /\ Len(digest') >= 1
  BY <1>0, <1>1, <1>2, <1>3
<1> QED
  BY <1>2, <1>4, <1>5, <1>6, <1>7, <1>8, <1>9 DEF Cutting

LEMMA StreamRead ==
  ASSUME Types, Cutting, Read
  PROVE  Cutting' /\ pc' = "emit"
<1>0. /\ HeaderSize \in Nat /\ size \in Nat \ {0} /\ index \in Nat
      /\ Len(text) \in Nat /\ Len(digest) \in Nat /\ Before(index, size) \in Nat
      /\ text \in Seq(STRING)
  BY StreamNumbers DEF Types
<1>1. PICK n \in 1..Len(pipe) :
        /\ text' \in Seq(STRING) /\ Len(text') = Len(text) + n
        /\ \A j \in 1..(Len(text) + n) :
             text'[j] = IF j <= Len(text) THEN text[j] ELSE pipe[j - Len(text)]
        /\ Len(view') = n
        /\ \A j \in 1..n : view'[j] =
             <<"body", Salt, Len(text) + j, <<text'[Len(text) + j]>> >>
  BY ReadSplit
<1>2. Len(view) = 0
  BY EmptySeq, Zenon DEF Read
<1>3. /\ pc = "emit" /\ pc' = "emit" /\ stage # "tag" /\ stage' = "body"
      /\ UNCHANGED <<index, digest, parts, size>>
  BY DEF Read, inputs
<1>4. /\ Before(index, size) + Len(digest) + Len(view) = Ready
      /\ Stretch(digest, text, Before(index, size))
      /\ FullParts /\ Len(parts) = index /\ Len(digest) < size
  BY <1>3 DEF Cutting
<1>5. Before(index, size) + Len(digest) = HeaderSize + Len(text)
  BY <1>0, <1>2, <1>3, <1>4 DEF Ready
<1>6. n \in Nat \ {0}
  BY LenProperties DEF Types
<1>7. \A j \in 1..(HeaderSize + Len(text)) : ByteAt(text', j) = ByteAt(text, j)
  <2>1. Len(text) <= Len(text') /\ \A j \in 1..Len(text) : text'[j] = text[j]
    BY <1>0, <1>1, <1>6
  <2> QED
    BY <2>1, <1>0, <1>1, EarlierBytes
<1>8. Stretch(digest', text', Before(index, size))
  <2> SUFFICES ASSUME NEW j \in 1..Len(digest)
               PROVE  digest[j] = ByteAt(text', Before(index, size) + j)
    BY <1>3 DEF Stretch
  <2>1. Before(index, size) + j \in 1..(HeaderSize + Len(text))
    BY <1>0, <1>5
  <2> QED
    BY <2>1, <1>4, <1>7 DEF Stretch
<1>9. FullParts'
  <2> SUFFICES ASSUME NEW k \in 1..index
               PROVE  Len(parts[k]) = size /\ Stretch(parts[k], text', Before(k - 1, size))
    BY <1>3 DEF FullParts
  <2>1. Len(parts[k]) = size /\ Stretch(parts[k], text, Before(k - 1, size))
    BY <1>4 DEF FullParts
  <2>2. k - 1 \in Nat /\ k \in Nat /\ (k - 1) + 1 = k /\ k <= index
    BY <1>0
  <2>3. /\ Before(k - 1, size) \in Nat
        /\ Before(k, size) = Before(k - 1, size) + size
        /\ Before(k, size) <= Before(index, size)
    BY <2>2, <1>0, BeforeNext, BeforeMonotone
  <2>4. ASSUME NEW j \in 1..Len(parts[k])
        PROVE  parts[k][j] = ByteAt(text', Before(k - 1, size) + j)
    <3>1. Before(k - 1, size) + j \in 1..(HeaderSize + Len(text))
      BY <2>1, <2>3, <1>0, <1>5
    <3> QED
      BY <3>1, <2>1, <1>7 DEF Stretch
  <2> QED
    BY <2>1, <2>4 DEF Stretch
<1>10. Stretch(view', text', Before(index, size) + Len(digest))
  <2> SUFFICES ASSUME NEW j \in 1..n
               PROVE  view'[j] = ByteAt(text', Before(index, size) + Len(digest) + j)
    BY <1>1 DEF Stretch
  <2>1. /\ Before(index, size) + Len(digest) + j = HeaderSize + (Len(text) + j)
        /\ Len(text) + j \in 1..Len(text')
    BY <1>0, <1>1, <1>5, <1>6
  <2>2. ByteAt(text', HeaderSize + (Len(text) + j)) =
          <<"body", Salt, Len(text) + j, <<text'[Len(text) + j]>> >>
    BY <2>1, <1>1, BodyAt
  <2> QED
    BY <2>1, <2>2, <1>1
<1>11. Before(index, size) + Len(digest) + Len(view') = HeaderSize + Len(text')
  BY <1>0, <1>1, <1>5, <1>6
<1>12. Ready' = HeaderSize + Len(text')
  BY <1>3 DEF Ready
<1> QED
  BY <1>3, <1>4, <1>8, <1>9, <1>10, <1>11, <1>12 DEF Cutting

LEMMA StreamReadEof ==
  ASSUME Types, Cutting, ReadEof
  PROVE  Cutting' /\ pc' = "emit"
<1>0. /\ HeaderSize \in Nat /\ TagSize \in Nat /\ Len(text) \in Nat
      /\ Len(digest) \in Nat /\ Before(index, size) \in Nat
  BY StreamNumbers
<1>1. /\ Len(view') = TagSize
      /\ \A j \in 1..TagSize : view'[j] = <<"tag", Salt, j, text>>
  BY TagBytes DEF ReadEof, Types
<1>2. Len(view) = 0
  BY EmptySeq, Zenon DEF ReadEof
<1>3. /\ pc = "emit" /\ pc' = "emit" /\ stage # "tag" /\ stage' = "tag"
      /\ UNCHANGED <<text, index, digest, parts, size>>
  BY DEF ReadEof, inputs, threads
<1>4. /\ Before(index, size) + Len(digest) + Len(view) = Ready
      /\ Stretch(digest, text, Before(index, size))
      /\ FullParts /\ Len(parts) = index /\ Len(digest) < size
  BY <1>3 DEF Cutting
<1>5. Before(index, size) + Len(digest) = HeaderSize + Len(text)
  BY <1>0, <1>2, <1>3, <1>4 DEF Ready
<1>6. Stretch(view', text, Before(index, size) + Len(digest))
  <2> SUFFICES ASSUME NEW j \in 1..TagSize
               PROVE  view'[j] = ByteAt(text, Before(index, size) + Len(digest) + j)
    BY <1>1 DEF Stretch
  <2>1. Before(index, size) + Len(digest) + j = HeaderSize + Len(text) + j
    BY <1>0, <1>5
  <2>2. ByteAt(text, HeaderSize + Len(text) + j) = <<"tag", Salt, j, text>>
    BY TagAt DEF Types
  <2> QED
    BY <2>1, <2>2, <1>1
<1>7. FullParts' /\ Stretch(digest', text', Before(index', size'))
  BY <1>3, <1>4 DEF FullParts
<1>8. Ready' = HeaderSize + Len(text) + TagSize
  BY <1>3 DEF Ready
<1>9. Before(index, size) + Len(digest) + Len(view') = Ready'
  BY <1>0, <1>1, <1>5, <1>8
<1> QED
  BY <1>3, <1>4, <1>6, <1>7, <1>9 DEF Cutting

LEMMA StreamFinish ==
  ASSUME Types, Cutting, Finish
  PROVE  \/ pc' = "close" /\ Cutting'
         \/ pc' = "leave" /\ CutWhole'
<1>0. /\ HeaderSize \in Nat \ {0} /\ TagSize \in Nat /\ Len(text) \in Nat
      /\ Len(digest) \in Nat /\ Len(parts) \in Nat /\ index \in Nat /\ size \in Nat \ {0}
  BY StreamNumbers
<1>1. /\ pc = "emit" /\ stage = "tag" /\ view = << >>
      /\ UNCHANGED <<text, view, stage, index, digest, parts, size>>
  BY DEF Finish, inputs, threads
<1>2. Len(view) = 0
  BY EmptySeq, <1>1, Zenon
<1>3. /\ Before(index, size) + Len(digest) + Len(view) = Ready
      /\ FullParts /\ Len(parts) = index
  BY <1>1 DEF Cutting
<1>4. Before(index, size) + Len(digest) = Total
  <2>1. Before(index, size) \in Nat
    BY StreamNumbers
  <2> QED
    BY <2>1, <1>0, <1>1, <1>2, <1>3 DEF Ready, Total
<1>5. CASE digest # << >> \/ parts = << >>
  <2>1. Len(digest) >= 1
    <3>1. CASE digest # << >>
      BY <3>1, EmptySeq DEF Types
    <3>2. CASE parts = << >>
      <4>1. Len(parts) = 0
        BY <3>2, EmptySeq, Zenon
      <4>2. Before(index, size) = 0
        BY <4>1, <1>0, <1>3, BeforeNext
      <4> QED
        BY <4>2, <1>0, <1>4 DEF Total
    <3> QED
      BY <3>1, <3>2, <1>5
  <2>2. pc' = "close"
    BY <1>5, Zenon DEF Finish
  <2>3. Over'
    BY <1>1 DEF Over
  <2>4. Cutting'
    BY <2>1, <2>2, <2>3, <1>1 DEF Cutting, FullParts, Ready
  <2> QED
    BY <2>2, <2>4
<1>6. CASE ~(digest # << >> \/ parts = << >>)
  <2>1. pc' = "leave"
    BY <1>6, Zenon DEF Finish
  <2>2. Len(digest) = 0 /\ Len(parts) >= 1
    <3>1. Len(digest) = 0
      BY <1>6, EmptySeq, Zenon
    <3>2. Len(parts) # 0
      BY <1>6, EmptySeq DEF Types
    <3> QED
      BY <3>1, <3>2, <1>0
  <2>3. PICK m \in Nat : index = m + 1
    <3>1. index - 1 \in Nat /\ index = (index - 1) + 1
      BY <2>2, <1>0, <1>3
    <3> QED
      BY <3>1
  <2>4. /\ Before(m, size) \in Nat /\ Before(m + 1, size) = Before(m, size) + size
    BY <2>3, <1>0, BeforeNext
  <2>5. Before(index, size) = Total /\ Total = Before(m, size) + size
    BY <2>2, <2>3, <2>4, <1>0, <1>4
  <2>6. CutWhole
    <3>1. Len(parts) = m + 1 /\ Len(parts) - 1 = m
      BY <2>3, <1>3
    <3>2. Before(Len(parts) - 1, size) < Total /\ Total <= Before(Len(parts), size)
      BY <3>1, <2>3, <2>4, <2>5, <1>0
    <3>3. ASSUME NEW k \in 1..Len(parts)
          PROVE  /\ Len(parts[k]) =
                      IF k < Len(parts) THEN size ELSE Total - Before(k - 1, size)
                 /\ Stretch(parts[k], text, Before(k - 1, size))
      <4>1. Len(parts[k]) = size /\ Stretch(parts[k], text, Before(k - 1, size))
        BY <1>3 DEF FullParts
      <4>2. CASE k < Len(parts)
        BY <4>1, <4>2
      <4>3. CASE ~(k < Len(parts))
        <5>1. k - 1 = m
          BY <4>3, <3>1, <2>3
        <5> QED
          BY <5>1, <4>1, <4>3, <2>4, <2>5, <1>0
      <4> QED
        BY <4>2, <4>3
    <3> QED
      BY <3>2, <3>3, <2>2 DEF CutWhole
  <2>7. CutWhole'
    BY <2>6, <1>1 DEF CutWhole, Total
  <2> QED
    BY <2>1, <2>7
<1> QED
  BY <1>5, <1>6

LEMMA StreamClose ==
  ASSUME Types, Cutting, Close
  PROVE  Cutting' /\ pc' = "unlink"
<1>1. /\ pc = "close" /\ pc' = "unlink" /\ parts' = Append(parts, digest)
      /\ UNCHANGED <<text, view, stage, index, digest, size>>
  BY DEF Close, inputs, threads
<1>2. /\ index \in Nat /\ Len(parts) = index
  BY <1>1 DEF Types, Cutting
<1>3. /\ Len(parts') = Len(parts) + 1
      /\ \A k \in 1..Len(parts) : parts'[k] = parts[k]
      /\ parts'[Len(parts) + 1] = digest
  BY <1>1, AppendProperties DEF Types
<1>4. FullParts'
  BY <1>1, <1>2, <1>3 DEF FullParts, Cutting
<1>5. Ready' = Ready /\ Over' = Over
  BY <1>1 DEF Ready, Over
<1> QED
  BY <1>1, <1>2, <1>3, <1>4, <1>5 DEF Cutting

LEMMA StreamUnlink ==
  ASSUME Types, Cutting, Unlink
  PROVE  \/ pc' = "emit" /\ Cutting'
         \/ pc' = "leave" /\ raised'
         \/ pc' = "leave" /\ CutWhole'
<1>0. /\ HeaderSize \in Nat \ {0} /\ TagSize \in Nat /\ Len(text) \in Nat
      /\ Len(digest) \in Nat /\ Len(parts) \in Nat /\ Len(view) \in Nat
      /\ index \in Nat /\ size \in Nat \ {0}
      /\ Before(index, size) \in Nat
      /\ Before(index + 1, size) = Before(index, size) + size
  BY StreamNumbers
<1>1. /\ pc = "unlink" /\ index' = index + 1 /\ digest' = << >>
      /\ UNCHANGED <<text, view, stage, parts, size>>
  BY DEF Unlink, inputs, threads
<1>2. /\ Before(index, size) + Len(digest) + Len(view) = Ready
      /\ Stretch(view, text, Before(index, size) + Len(digest))
      /\ Stretch(digest, text, Before(index, size))
      /\ FullParts /\ Len(parts) = index + 1 /\ parts[index + 1] = digest
      /\ Len(digest) >= 1 /\ (Len(digest) = size \/ Over)
      /\ Len(digest) <= size
  BY <1>1 DEF Cutting, Types
<1>3. CASE Over /\ Len(digest) < size
  <2>1. pc' = "leave"
    BY <1>3, Zenon DEF Unlink
  <2>2. Len(view) = 0 /\ stage = "tag"
    BY <1>3, EmptySeq, Zenon DEF Over
  <2>3. Before(index, size) + Len(digest) = Total
    BY <2>2, <1>0, <1>2 DEF Ready, Total
  <2>4. Len(parts) - 1 = index /\ Len(parts) >= 1
    BY <1>0, <1>2
  <2>5. Before(Len(parts) - 1, size) < Total /\ Total <= Before(Len(parts), size)
    BY <2>3, <2>4, <1>0, <1>2
  <2>6. ASSUME NEW k \in 1..Len(parts)
        PROVE  /\ Len(parts[k]) =
                    IF k < Len(parts) THEN size ELSE Total - Before(k - 1, size)
               /\ Stretch(parts[k], text, Before(k - 1, size))
    <3>1. CASE k < Len(parts)
      <4>1. k \in 1..index
        BY <3>1, <1>0, <1>2
      <4> QED
        BY <3>1, <4>1, <1>2 DEF FullParts
    <3>2. CASE ~(k < Len(parts))
      <4>1. k = index + 1 /\ k - 1 = index
        BY <3>2, <1>0, <1>2
      <4>2. Total - Before(k - 1, size) = Len(digest)
        BY <4>1, <2>3, <1>0
      <4> QED
        BY <3>2, <4>1, <4>2, <1>2
    <3> QED
      BY <3>1, <3>2
  <2>7. CutWhole
    BY <2>4, <2>5, <2>6 DEF CutWhole
  <2>8. CutWhole'
    BY <2>7, <1>1 DEF CutWhole, Total
  <2> QED
    BY <2>1, <2>8
<1>4. CASE ~(Over /\ Len(digest) < size)
  <2>1. Len(digest) = size
    BY <1>0, <1>2, <1>4
  <2>2. \/ pc' = "leave" /\ raised'
        \/ pc' = "emit"
    BY <1>4, Zenon DEF Unlink
  <2>3. ASSUME pc' = "emit" PROVE Cutting'
    <3>1. Len(digest') = 0
      BY <1>1, EmptySeq, Zenon
    <3>2. Before(index', size') = Before(index, size) + Len(digest)
      BY <2>1, <1>0, <1>1
    <3>3. Ready' = Ready
      BY <1>1 DEF Ready
    <3>4. Before(index', size') + Len(digest') + Len(view') = Ready'
      BY <3>1, <3>2, <3>3, <1>0, <1>1, <1>2
    <3>5. Before(index', size') + Len(digest') = Before(index, size) + Len(digest)
      BY <3>1, <3>2, <1>0
    <3>6. /\ Stretch(view', text', Before(index', size') + Len(digest'))
          /\ Stretch(digest', text', Before(index', size'))
      <4>1. Stretch(view', text', Before(index', size') + Len(digest'))
        BY <3>5, <1>1, <1>2
      <4>2. Stretch(digest', text', Before(index', size'))
        BY <3>1 DEF Stretch
      <4> QED
        BY <4>1, <4>2
    <3>7. FullParts'
      <4> SUFFICES ASSUME NEW k \in 1..(index + 1)
                   PROVE  /\ Len(parts[k]) = size
                          /\ Stretch(parts[k], text, Before(k - 1, size))
        BY <1>1 DEF FullParts
      <4>1. CASE k = index + 1
        <5>1. k - 1 = index
          BY <4>1, <1>0
        <5> QED
          BY <5>1, <4>1, <2>1, <1>2
      <4>2. CASE k # index + 1
        <5>1. k \in 1..index
          BY <4>2, <1>0
        <5> QED
          BY <5>1, <1>2 DEF FullParts
      <4> QED
        BY <4>1, <4>2
    <3>8. Len(parts') = index' /\ Len(digest') < size'
      BY <3>1, <1>0, <1>1, <1>2
    <3> QED
      BY <2>3, <3>4, <3>6, <3>7, <3>8 DEF Cutting
  <2> QED
    BY <2>2, <2>3
<1> QED
  BY <1>3, <1>4

LEMMA StreamStart ==
  ASSUME Types, Start
  PROVE  Cutting' /\ pc' = "emit"
<1>1. /\ pc' = "emit" /\ stage' = "header" /\ view' = Header(Salt) /\ index' = 0
      /\ size' = size /\ size \in Nat \ {0}
  BY DEF Start, Types
<1>2. /\ text' \in Seq(STRING)
      /\ Len(text') = 0 /\ Len(digest') = 0 /\ Len(parts') = 0
  BY EmptySeq, Zenon DEF Start
<1>3. /\ Len(view') = HeaderSize
      /\ \A j \in 1..HeaderSize : view'[j] = <<"header", Salt, j, << >> >>
  BY <1>1, HeaderBytes
<1>4. Before(index', size') = 0
  BY <1>1, BeforeNext
<1>5. HeaderSize \in Nat \ {0} /\ Ready' = HeaderSize
  BY <1>1, <1>2, CipherAssumption DEF Ready
<1>6. Stretch(view', text', 0)
  <2> SUFFICES ASSUME NEW j \in 1..HeaderSize PROVE view'[j] = ByteAt(text', 0 + j)
    BY <1>3 DEF Stretch
  <2>1. 0 + j = j /\ j <= HeaderSize
    BY <1>5
  <2>2. ByteAt(text', j) = <<"header", Salt, j, << >> >>
    BY <2>1, Zenon DEF ByteAt
  <2>3. view'[j] = <<"header", Salt, j, << >> >>
    BY <1>3, Zenon
  <2>4. view'[j] = ByteAt(text', j)
    BY <2>2, <2>3, Zenon
  <2> QED
    BY <2>1, <2>4
<1>7. Stretch(digest', text', 0)
  BY <1>2 DEF Stretch
<1>8. FullParts'
  BY <1>1 DEF FullParts
<1>9. /\ Before(index', size') + Len(digest') = 0
      /\ Before(index', size') + Len(digest') + Len(view') = Ready'
      /\ Len(digest') < size' /\ Len(parts') = index'
  BY <1>1, <1>2, <1>3, <1>4, <1>5
<1>10. /\ Stretch(view', text', Before(index', size') + Len(digest'))
       /\ Stretch(digest', text', Before(index', size'))
  BY <1>4, <1>6, <1>7, <1>9
<1> QED
  BY <1>1, <1>8, <1>9, <1>10 DEF Cutting

LEMMA StreamStep ==
  ASSUME Types, StreamInv, [Next]_vars
  PROVE  StreamInv'
<1> USE DEF StreamInv
<1>1. CASE Emit
  <2>1. Cutting
    BY <1>1 DEF Emit
  <2> QED
    BY <2>1, <1>1, StreamEmit
<1>2. CASE Read
  <2>1. Cutting
    BY <1>2 DEF Read
  <2> QED
    BY <2>1, <1>2, StreamRead
<1>3. CASE ReadEof
  <2>1. Cutting
    BY <1>3 DEF ReadEof
  <2> QED
    BY <2>1, <1>3, StreamReadEof
<1>4. CASE Finish
  <2>1. Cutting
    BY <1>4 DEF Finish
  <2> QED
    BY <2>1, <1>4, StreamFinish
<1>5. CASE Close
  <2>1. Cutting
    BY <1>5 DEF Close
  <2> QED
    BY <2>1, <1>5, StreamClose
<1>6. CASE CloseFails
  <2>1. pc' = "leave" /\ raised'
    BY <1>6, Zenon DEF CloseFails
  <2> QED
    BY <2>1
<1>7. CASE Unlink
  <2>1. Cutting
    BY <1>7 DEF Unlink
  <2> QED
    BY <2>1, <1>7, StreamUnlink
<1>8. CASE Leave
  <2>1. /\ pc = "leave" /\ pc' = "join" /\ UNCHANGED <<text, parts, size, raised>>
    BY <1>8 DEF Leave, inputs
  <2> QED
    BY <2>1 DEF CutWhole, Total
<1>9. CASE Join
  <2>1. /\ pc = "join" /\ pc' \in {"done", "failed"}
        /\ UNCHANGED <<text, parts, size, raised>>
    BY <1>9, Zenon DEF Join, inputs
  <2> QED
    BY <2>1 DEF CutWhole, Total
<1>10. CASE Build
  BY <1>10, StreamSame DEF Build, inputs
<1>11. CASE BuilderEnds
  BY <1>11, StreamSame DEF BuilderEnds, inputs
<1>12. CASE BuilderBreaks
  BY <1>12, StreamSame DEF BuilderBreaks, inputs
<1>13. CASE Start
  BY <1>13, StreamStart
<1>14. CASE Crash
  BY <1>14 DEF Crash
<1>15. CASE UNCHANGED vars
  BY <1>15, StreamSame DEF vars
<1> QED
  BY <1>1, <1>2, <1>3, <1>4, <1>5, <1>6, <1>7, <1>8, <1>9, <1>10, <1>11, <1>12, <1>13,
     <1>14, <1>15 DEF Next, Main, Builder, Environment

\* Parts that account for the whole stream are those CipherStream defines.
LEMMA WholeIsExact ==
  ASSUME Types, CutWhole
  PROVE  /\ Len(parts) = PartCount(Bytes, size)
         /\ \A k \in DOMAIN parts : parts[k] = PartOf(Bytes, size, k - 1)
<1> DEFINE n == Len(parts)
           L == Len(Bytes)
<1>1. /\ size \in Nat \ {0} /\ size \in Nat /\ n \in Nat /\ DOMAIN parts = 1..n
      /\ parts \in Seq(Seq(Byte))
      /\ HeaderSize \in Nat \ {0} /\ TagSize \in Nat /\ Len(text) \in Nat
  BY StreamNumbers, LenProperties DEF Types
<1>2. /\ Bytes \in Seq(Byte) /\ L = Total
      /\ \A j \in 1..L : Bytes[j] = ByteAt(text, j)
  BY StreamBytes DEF Types, Total
<1>3. L \in Nat \ {0}
  BY <1>1, <1>2 DEF Total
<1> HIDE DEF L, n
<1>4. /\ n >= 1 /\ Before(n - 1, size) < L /\ L <= Before(n, size)
      /\ \A k \in 1..n :
           /\ Len(parts[k]) = IF k < n THEN size ELSE L - Before(k - 1, size)
           /\ Stretch(parts[k], text, Before(k - 1, size))
  BY <1>2 DEF CutWhole, n
<1>5. PICK m \in Nat : n = m + 1 /\ n - 1 = m
  <2>1. n - 1 \in Nat /\ n = (n - 1) + 1
    BY <1>1, <1>4
  <2> QED
    BY <2>1
<1>6. Before(m, size) \in Nat /\ Before(n, size) = Before(m, size) + size
  BY <1>1, <1>5, BeforeNext
<1>7. n = PartCount(Bytes, size)
  <2>1. Before(n, size) <= L + size - 1 /\ L + size - 1 < Before(n, size) + size
        /\ L + size - 1 \in Nat
    BY <1>1, <1>3, <1>4, <1>5, <1>6
  <2>2. (L + size - 1) \div size = n
    BY <2>1, <1>1, Quotient DEF Before
  <2> QED
    BY <2>2 DEF PartCount, L
<1>8. ASSUME NEW k \in 1..n PROVE parts[k] = PartOf(Bytes, size, k - 1)
  <2>1. PICK i \in Nat : k = i + 1 /\ k - 1 = i
    <3>1. k - 1 \in Nat /\ k = (k - 1) + 1
      BY <1>1
    <3> QED
      BY <3>1
  <2>2. Before(i, size) \in Nat /\ Before(k, size) = Before(i, size) + size
    BY <1>1, <2>1, BeforeNext
  <2>3. PICK to \in Nat : to = IF Before(k, size) < L THEN Before(k, size) ELSE L
    BY <1>1, <1>3, <2>2
  <2>4. PartOf(Bytes, size, k - 1) = SubSeq(Bytes, Before(i, size) + 1, to)
    BY <2>1, <2>3, Zenon DEF PartOf, Before, L
  <2>5. /\ Len(parts[k]) = to - Before(i, size)
        /\ Before(i, size) <= to /\ to <= L
    <3>1. CASE k < n
      <4>0. k \in Nat /\ k <= m
        BY <3>1, <1>1, <1>5
      <4>1. Before(k, size) <= Before(m, size)
        BY <4>0, <1>1, BeforeMonotone
      <4>2. Before(m, size) < L /\ Before(k, size) \in Nat
        BY <2>1, <2>2, <1>1, <1>4, <1>5
      <4>3. Before(k, size) < L
        BY <4>1, <4>2, <1>3, <1>6
      <4>4. to = Before(k, size)
        BY <4>3, <2>3
      <4> QED
        BY <4>3, <4>4, <3>1, <2>2, <1>1, <1>3, <1>4
    <3>2. CASE ~(k < n)
      <4>1. k = n /\ i = m
        BY <3>2, <2>1, <1>1, <1>5
      <4>2. to = L
        BY <4>1, <2>2, <2>3, <1>3, <1>4
      <4> QED
        BY <4>1, <4>2, <3>2, <2>1, <2>2, <1>3, <1>4, <1>5
    <3> QED
      BY <3>1, <3>2
  <2>6. \A j \in (Before(i, size) + 1)..to : Bytes[j] \in Byte
    <3>1. \A j \in 1..L : Bytes[j] \in Byte
      BY <1>2, ElementOfSeq DEF L
    <3> QED
      BY <3>1, <2>2, <2>5, <1>3
  <2> DEFINE from == Before(i, size) + 1
             cut == SubSeq(Bytes, from, to)
  <2>7. from \in Int /\ to \in Int /\ \A j \in from..to : Bytes[j] \in Byte
    BY <2>2, <2>6
  <2> HIDE DEF from
  <2>8. /\ cut \in Seq(Byte)
        /\ Len(cut) = IF from <= to THEN to - from + 1 ELSE 0
        /\ \A j \in 1..(to - from + 1) : cut[j] = Bytes[from + j - 1]
    BY <2>7, SubSeqProperties
  <2> HIDE DEF cut
  <2>9. to - from + 1 = to - Before(i, size)
    BY <2>2 DEF from
  <2>10. Len(cut) = Len(parts[k])
    BY <2>2, <2>5, <2>8, <2>9 DEF from
  <2>11. ASSUME NEW j \in 1..Len(parts[k]) PROVE parts[k][j] = cut[j]
    <3>1. j \in 1..(to - from + 1)
      BY <2>5, <2>9
    <3>2. from + j - 1 = Before(i, size) + j /\ Before(i, size) + j \in 1..L
      BY <3>1, <2>2, <2>5, <2>9, <1>3 DEF from
    <3>3. cut[j] = ByteAt(text, Before(i, size) + j)
      BY <3>1, <3>2, <2>8, <1>2
    <3>4. parts[k][j] = ByteAt(text, Before(i, size) + j)
      BY <1>4, <2>1 DEF Stretch
    <3> QED
      BY <3>3, <3>4
  <2>12. parts[k] \in Seq(Byte)
    BY <1>1
  <2>13. parts[k] = cut
    BY <2>8, <2>10, <2>11, <2>12, SeqEqual
  <2> QED
    BY <2>4, <2>13 DEF cut, from
<1> QED
  BY <1>1, <1>7, <1>8 DEF n

\* Whatever the blocks, the part size and the length of the archive, a run that
\* cut the stream to its end has cut exactly the parts CipherStream defines, which
\* are the ones a pull joins (stream.py:246-273).
THEOREM ExactlyTheParts == Spec => []CutsTheStream
<1>1. Init => Types /\ StreamInv
  BY TypesInit, StreamInit
<1>2. Types /\ StreamInv /\ [Next]_vars => (Types /\ StreamInv)'
  BY TypesStep, StreamStep
<1>3. Types /\ StreamInv => CutsTheStream
  BY WholeIsExact, Zenon DEF StreamInv, CutsTheStream
<1> QED
  BY <1>1, <1>2, <1>3, PTL DEF Spec

\* What on_part is given is the file the part's size and sha256 were taken from,
\* whatever an earlier run has left under its name (stream.py:213-241).
THEOREM HashedIsHanded == Spec => []HandsOverWhatItHashed
<1>1. Init => Types /\ StreamInv /\ DiskInv
  BY TypesInit, StreamInit, DiskInit
<1>2. Types /\ StreamInv /\ DiskInv /\ [Next]_vars => (Types /\ StreamInv /\ DiskInv)'
  BY TypesStep, StreamStep, DiskStep
<1>3. StreamInv /\ DiskInv => HandsOverWhatItHashed
  BY DEF StreamInv, Cutting, DiskInv, InHand, HandsOverWhatItHashed
<1> QED
  BY <1>1, <1>2, <1>3, PTL DEF Spec
=============================================================================
