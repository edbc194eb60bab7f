------------------------ MODULE StreamPushInvariants ------------------------
(***************************************************************************)
(* Proofs about StreamPush that need no hypothesis: the types, how many    *)
(* second files of a name its mishaps may leave in the folder, and that    *)
(* the salt of what is there is in the state file.                         *)
(***************************************************************************)
EXTENDS StreamPush, FiniteSetTheorems, SequenceTheorems, TLAPS

-----------------------------------------------------------------------------
(* Streams and their parts.                                                *)

\* A function on 1..n is a sequence.
LEMMA FunctionIsSeq ==
  ASSUME NEW S, NEW n \in Nat, NEW f \in [1..n -> S]
  PROVE  f \in Seq(S)
  OBVIOUS

\* A ciphertext is a sequence, as long as its three pieces together.
LEMMA CiphertextType ==
  ASSUME NEW salt, NEW text \in Seq(STRING)
  PROVE  \E Any : Ciphertext(salt, text) \in Seq(Any)
<1> DEFINE head == {Header(salt)[k] : k \in 1..HeaderSize}
           body == {Body(salt, text)[k] : k \in 1..Len(text)}
           tag  == {Tag(salt, text)[k] : k \in 1..TagSize}
           any  == head \cup body \cup tag
<1>1. HeaderSize \in Nat /\ TagSize \in Nat /\ Len(text) \in Nat
  BY CipherAssumption
<1>2. Header(salt) \in [1..HeaderSize -> any]
  BY DEF Header
<1>3. Body(salt, text) \in [1..Len(text) -> any]
  BY DEF Body
<1>4. Tag(salt, text) \in [1..TagSize -> any]
  BY DEF Tag
<1> HIDE DEF any
<1>5. Header(salt) \in Seq(any)
  BY <1>1, <1>2, FunctionIsSeq
<1>6. Body(salt, text) \in Seq(any)
  BY <1>1, <1>3, FunctionIsSeq
<1>7. Tag(salt, text) \in Seq(any)
  BY <1>1, <1>4, FunctionIsSeq
<1>8. Ciphertext(salt, text) \in Seq(any)
  BY <1>5, <1>6, <1>7 DEF Ciphertext
<1> QED
  BY <1>8

LEMMA ReadableType ==
  /\ Readable \subseteq Seq(STRING)
  /\ Sources \subseteq Readable
<1>1. ASSUME NEW text \in Sources, NEW n \in 0..Len(text)
      PROVE  SubSeq(text, 1, n) \in Seq(STRING)
  <2>1. text \in Seq(STRING)
    BY PushAssumption
  <2> QED
    BY <2>1
<1>2. ASSUME NEW text \in Sources
      PROVE  text \in Readable
  <2>1. text \in Seq(STRING) /\ Len(text) \in Nat
    BY PushAssumption
  <2>2. SubSeq(text, 1, Len(text)) = text
    BY <2>1
  <2>3. Len(text) \in 0..Len(text)
    BY <2>1
  <2>4. text \in {SubSeq(text, 1, n) : n \in 0..Len(text)}
    BY <2>2, <2>3
  <2> QED
    BY <2>4, Zenon DEF Readable
<1>3. ASSUME NEW front \in Readable
      PROVE  front \in Seq(STRING)
  <2>1. PICK text \in Sources : front \in {SubSeq(text, 1, n) : n \in 0..Len(text)}
    BY Zenon DEF Readable
  <2> QED
    BY <1>1, <2>1
<1> QED
  BY <1>2, <1>3

\* A stream has a number of parts, and every part a length.
LEMMA PartType ==
  ASSUME NEW s \in Streams
  PROVE  /\ Total(s) \in Nat
         /\ \A i \in Nat : Len(PartData(s, i)) \in Nat
<1>1. PICK o \in Options, text \in Readable : s.size = o.size /\ s.text = text
  BY DEF Streams, StreamOf
<1>2. s.size \in Nat \ {0} /\ s.text \in Seq(STRING)
  BY <1>1, PushAssumption, ReadableType
<1>3. PICK Any : Bytes(s) \in Seq(Any)
  BY <1>2, CiphertextType DEF Bytes
<1> DEFINE n == Len(Bytes(s))
<1>4. n \in Nat
  BY <1>3
<1>5. Total(s) \in Nat
  <2>1. Total(s) = (n + s.size - 1) \div s.size
    BY DEF Total, PartCount
  <2> HIDE DEF n
  <2> QED
    BY <1>2, <1>4, <2>1
<1>6. ASSUME NEW i \in Nat
      PROVE  Len(PartData(s, i)) \in Nat
  <2>1. i * s.size \in Nat /\ (i + 1) * s.size \in Nat
    BY <1>2
  <2>2. PICK last \in Nat : PartData(s, i) = SubSeq(Bytes(s), i * s.size + 1, last)
    BY <1>4, <2>1 DEF PartData, PartOf
  <2> QED
    BY <1>3, <2>1, <2>2
<1> QED
  BY <1>5, <1>6

\* A stream has bytes, and every one of them is encrypted under its salt.
LEMMA BytesSalt ==
  ASSUME NEW s \in Streams
  PROVE  /\ \E Any : Bytes(s) \in Seq(Any)
         /\ Len(Bytes(s)) \in Nat \ {0}
         /\ \A k \in 1..Len(Bytes(s)) : Bytes(s)[k][2] = s.salt
<1> DEFINE h == HeaderSize
           b == Len(s.text)
           t == TagSize
<1>1. h \in Nat \ {0} /\ t \in Nat \ {0} /\ b \in Nat
  <2>1. s.text \in Seq(STRING)
    BY PushAssumption, ReadableType DEF Streams, StreamOf
  <2> QED
    BY <2>1, CipherAssumption
<1>2. PICK head : head = Header(s.salt)
  OBVIOUS
<1>3. PICK body : body = Body(s.salt, s.text)
  OBVIOUS
<1>4. PICK tag : tag = Tag(s.salt, s.text)
  OBVIOUS
<1>5. /\ DOMAIN head = 1..h /\ \A k \in 1..h : head[k][2] = s.salt
      /\ head = [k \in 1..h |-> head[k]]
  BY <1>2 DEF Header
<1>6. /\ DOMAIN body = 1..b /\ \A k \in 1..b : body[k][2] = s.salt
      /\ body = [k \in 1..b |-> body[k]]
  BY <1>3 DEF Body
<1>7. /\ DOMAIN tag = 1..t /\ \A k \in 1..t : tag[k][2] = s.salt
      /\ tag = [k \in 1..t |-> tag[k]]
  BY <1>4 DEF Tag
<1>8. PICK All : /\ \A k \in 1..h : head[k] \in All
                 /\ \A k \in 1..b : body[k] \in All
                 /\ \A k \in 1..t : tag[k] \in All
  <2> DEFINE all == {head[k] : k \in 1..h} \cup {body[k] : k \in 1..b}
                      \cup {tag[k] : k \in 1..t}
  <2>1. /\ \A k \in 1..h : head[k] \in all
        /\ \A k \in 1..b : body[k] \in all
        /\ \A k \in 1..t : tag[k] \in all
    OBVIOUS
  <2> QED
    BY <2>1
<1> HIDE DEF h, b, t
<1>9. /\ head \in Seq(All) /\ Len(head) = h
      /\ body \in Seq(All) /\ Len(body) = b
      /\ tag \in Seq(All) /\ Len(tag) = t
  <2>1. head \in [1..h -> All] /\ body \in [1..b -> All] /\ tag \in [1..t -> All]
    BY <1>5, <1>6, <1>7, <1>8
  <2>2. head \in Seq(All) /\ body \in Seq(All) /\ tag \in Seq(All)
    BY <2>1, <1>1, FunctionIsSeq
  <2> QED
    BY <2>2, <1>1, <1>5, <1>6, <1>7
<1>10. Bytes(s) = (head \o body) \o tag
  BY <1>2, <1>3, <1>4 DEF Bytes, Ciphertext
<1>11. PICK front \in Seq(All) : front = head \o body
  BY <1>9, ConcatProperties
<1>12. Len(front) = h + b /\ \A k \in 1..(h + b) : front[k][2] = s.salt
  <2>1. Len(front) = h + b
    BY <1>9, <1>11, ConcatProperties
  <2>2. ASSUME NEW k \in 1..(h + b)
        PROVE  front[k][2] = s.salt
    <3>1. front[k] = IF k <= h THEN head[k] ELSE body[k - h]
      BY <1>9, <1>11, ConcatProperties
    <3> QED
      BY <3>1, <1>1, <1>5, <1>6
  <2> QED
    BY <2>1, <2>2
<1>13. PICK n \in Nat \ {0} : n = h + b + t
  BY <1>1
<1>15. Bytes(s) \in Seq(All) /\ Len(Bytes(s)) = n
  BY <1>9, <1>10, <1>11, <1>12, <1>13, ConcatProperties
<1>14. ASSUME NEW k \in 1..n
       PROVE  Bytes(s)[k][2] = s.salt
  <2>1. (front \o tag)[k] =
          IF k <= Len(front) THEN front[k] ELSE tag[k - Len(front)]
    BY <1>1, <1>9, <1>12, <1>13, ConcatProperties
  <2>2. Bytes(s)[k] = IF k <= h + b THEN front[k] ELSE tag[k - (h + b)]
    BY <2>1, <1>10, <1>11, <1>12
  <2> QED
    BY <2>2, <1>1, <1>7, <1>12, <1>13
<1> QED
  BY <1>1, <1>13, <1>14, <1>15

\* So is every byte of a part.
LEMMA PartSalt ==
  ASSUME NEW s \in Streams, NEW i \in Nat, NEW k \in DOMAIN PartData(s, i)
  PROVE  PartData(s, i)[k][2] = s.salt
<1>1. PICK Any : Bytes(s) \in Seq(Any)
  BY BytesSalt
<1>2. PICK n \in Nat : n = Len(Bytes(s))
  BY BytesSalt
<1>3. PICK z \in Nat \ {0} : z = s.size
  BY PushAssumption DEF Streams, StreamOf
<1>4. PICK from \in Nat : from = i * z
  BY <1>3
<1>5. PICK last \in Nat : last = (i + 1) * z
  BY <1>3
<1>6. PICK to \in Nat : to <= n /\ PartData(s, i) = SubSeq(Bytes(s), from + 1, to)
  <2>1. PICK to \in Nat : to = IF last < n THEN last ELSE n
    OBVIOUS
  <2>2. PartData(s, i) = SubSeq(Bytes(s), from + 1, to)
    BY <1>2, <1>3, <1>4, <1>5, <2>1, Zenon DEF PartData, PartOf
  <2>3. to <= n
    BY <2>1
  <2> QED
    BY <2>2, <2>3
<1>7. /\ k \in 1..(to - from)
      /\ SubSeq(Bytes(s), from + 1, to)[k] = Bytes(s)[from + k]
  BY <1>1, <1>2, <1>4, <1>6
<1>8. from + k \in 1..n
  BY <1>4, <1>6, <1>7
<1> QED
  BY <1>2, <1>6, <1>7, <1>8, BytesSalt

\* The salts of what a file holds: its stream's, if any.
LEMMA FileSalts ==
  ASSUME NEW f, NEW s \in Streams, [name |-> f.name, data |-> f.data] \in Files(s),
         NEW salt \in SaltsIn(f)
  PROVE  salt = s.salt
<1>1. PICK k \in DOMAIN f.data.bytes : salt = f.data.bytes[k][2]
  BY DEF SaltsIn
<1>2. CASE f.data = ManifestFile(s)
  <2>1. f.data.bytes = << >>
    BY <1>2 DEF ManifestFile
  <2>2. DOMAIN f.data.bytes = {}
    BY <2>1
  <2> QED
    BY <1>1, <2>2
<1>3. CASE \E i \in 0..(Total(s) - 1) : f.data = PartFile(s, i)
  <2>1. PICK i \in 0..(Total(s) - 1) : f.data = PartFile(s, i)
    BY <1>3
  <2>2. i \in Nat /\ f.data.bytes = PartData(s, i)
    BY <2>1, PartType DEF PartFile
  <2> QED
    BY <1>1, <2>2, PartSalt
<1> QED
  BY <1>2, <1>3 DEF Files

-----------------------------------------------------------------------------
(* The inductive invariant: the types, and that from its save on a run has *)
(* a state file of its own stream.                                         *)

\* The types of the folder, of the state file and of the run's own variables.
FolderType ==
  \A f \in drive :
    /\ f.id \in FileIds
    /\ \E s \in Streams : [name |-> f.name, data |-> f.data] \in Files(s)

StateType ==
  /\ \/ state = NoState
     \/ /\ DOMAIN state = {"salt", "size", "label", "parts"}
        /\ state.salt \in Salts
        /\ [size |-> state.size, label |-> state.label] \in Options
        /\ \A i \in DOMAIN state.parts : i \in Nat /\ state.parts[i].size \in Nat
  /\ lastSalt \in 0..MaxStreams

ListedType ==
  /\ \A n \in DOMAIN remote : remote[n].id \in FileIds /\ remote[n].size \in Nat
  /\ skip \subseteq Nat

WhereType ==
  /\ pc \in {"idle", "save", "list", "send", "replace", "record", "done"}
  /\ stream \in Streams \cup {NoStream}
  /\ (stream = NoStream) <=> ~Running
  /\ index \in IF Running THEN 0..Total(stream) ELSE {0}
  /\ failing \in BOOLEAN
  /\ attempt \in 1..MaxAttempts

LeftType == left \in [Mishaps -> Nat]

Begun == pc \in {"list", "send", "replace", "record", "done"}

OwnState == Begun => Resumes(state, stream) /\ state.salt = stream.salt

TypeInv ==
  FolderType /\ StateType /\ ListedType /\ WhereType /\ LeftType /\ OwnState

LEMMA TypeInvTypeOK == TypeInv => TypeOK
BY DEF TypeInv, TypeOK, FolderType, StateType, ListedType, WhereType, LeftType

LEMMA TypeInit == Init => TypeInv
<1> SUFFICES ASSUME Init PROVE TypeInv
  OBVIOUS
<1>1. ~Running /\ ~Begun
  BY DEF Init, Running, Begun
<1>2. LeftType /\ FolderType
  BY PushAssumption DEF Init, LeftType, FolderType
<1>3. StateType
  BY PushAssumption DEF Init, StateType
<1>4. ListedType
  BY DEF Init, ListedType
<1>5. WhereType
  <2>1. 1 \in 1..MaxAttempts
    BY PushAssumption
  <2> QED
    BY <1>1, <2>1 DEF Init, WhereType
<1> QED
  BY <1>1, <1>2, <1>3, <1>4, <1>5 DEF TypeInv, OwnState

LEMMA SpendType ==
  ASSUME LeftType, NEW kind \in Mishaps, Spend(kind)
  PROVE  LeftType'
BY DEF Spend, LeftType

LEMMA MishapKinds ==
  /\ "fault" \in Mishaps /\ "crash" \in Mishaps /\ "loss" \in Mishaps
  /\ "removal" \in Mishaps /\ "meddling" \in Mishaps /\ "break" \in Mishaps
BY DEF Mishaps

\* Once a run has saved, what it remembers is what the state file says.
LEMMA OwnParts ==
  ASSUME OwnState, Begun
  PROVE  state # NoState /\ RecordedParts = state.parts
BY DEF OwnState, Resumes, RecordedParts

\* What _save writes is a state file of the run's stream.
LEMMA SavedType ==
  ASSUME stream \in Streams, NEW parts, state' = SavedState(parts)
  PROVE  /\ DOMAIN state' = {"salt", "size", "label", "parts"}
         /\ state'.salt = stream.salt /\ state'.size = stream.size
         /\ state'.label = stream.label /\ state'.parts = parts
         /\ state' # NoState
         /\ stream.salt \in Salts
         /\ [size |-> stream.size, label |-> stream.label] \in Options
<1>1. /\ DOMAIN state' = {"salt", "size", "label", "parts"}
      /\ state'.salt = stream.salt /\ state'.size = stream.size
      /\ state'.label = stream.label /\ state'.parts = parts
  BY DEF SavedState
<1>2. state' # NoState
  <2>1. "parts" \notin DOMAIN NoState
    BY DEF NoState
  <2> QED
    BY <1>1, <2>1
<1>3. PICK salt \in Salts, o \in Options :
        stream.salt = salt /\ stream.size = o.size /\ stream.label = o.label
  BY DEF Streams, StreamOf
<1>4. [size |-> o.size, label |-> o.label] \in Options
  BY PushAssumption
<1> QED
  BY <1>1, <1>2, <1>3, <1>4

\* What the run is sending is a file of its stream.
LEMMA ItemType ==
  ASSUME TypeInv, Running
  PROVE  /\ stream \in Streams
         /\ index \in Nat
         /\ ~AtManifest => index + 1 \in 0..Total(stream)
         /\ [name |-> ItemName, data |-> ItemData] \in Files(stream)
         /\ Len(ItemData.bytes) \in Nat
<1>1. stream \in Streams /\ index \in 0..Total(stream)
  BY DEF TypeInv, WhereType
<1>2. Total(stream) \in Nat /\ \A i \in Nat : Len(PartData(stream, i)) \in Nat
  BY <1>1, PartType
<1>3. CASE AtManifest
  BY <1>1, <1>2, <1>3 DEF ItemName, ItemData, ManifestFile, Files
<1>4. CASE ~AtManifest
  <2>1. index \in 0..(Total(stream) - 1) /\ index \in Nat
    BY <1>1, <1>2, <1>4 DEF AtManifest
  <2>2. ItemName = PartName(stream, index) /\ ItemData = PartFile(stream, index)
    BY <1>4 DEF ItemName, ItemData
  <2>3. Len(ItemData.bytes) \in Nat
    BY <1>2, <2>1, <2>2 DEF PartFile
  <2>4. [name |-> ItemName, data |-> ItemData] \in Files(stream)
    BY <2>1, <2>2 DEF Files
  <2> QED
    BY <1>1, <1>2, <2>1, <2>3, <2>4
<1> QED
  BY <1>3, <1>4

LEMMA LandsType ==
  ASSUME TypeInv, Running, Lands
  PROVE  FolderType'
<1> DEFINE free == FileIds \ (IdsOnDrive \cup IdsListed)
           d == CHOOSE x \in free : TRUE
           new == [id |-> d, name |-> ItemName, data |-> ItemData]
<1>1. free # {} /\ drive' = drive \cup {new}
  BY DEF Lands
<1>2. d \in FileIds
  BY <1>1
<1>3. new.id = d /\ new.name = ItemName /\ new.data = ItemData
  OBVIOUS
<1> HIDE DEF d, new
<1>4. \E s \in Streams : [name |-> new.name, data |-> new.data] \in Files(s)
  BY <1>3, ItemType
<1>5. FolderType
  BY DEF TypeInv
<1> QED
  BY <1>1, <1>2, <1>3, <1>4, <1>5 DEF FolderType

\* A folder that only loses files keeps its type.
LEMMA FewerFiles ==
  ASSUME FolderType, drive' \subseteq drive
  PROVE  FolderType'
BY DEF FolderType

\* What a file of the folder holds is a sequence.
LEMMA ListedSize ==
  ASSUME FolderType, NEW f \in drive
  PROVE  f.id \in FileIds /\ Len(f.data.bytes) \in Nat
<1>1. PICK s \in Streams : [name |-> f.name, data |-> f.data] \in Files(s)
  BY DEF FolderType
<1>2. Total(s) \in Nat /\ \A i \in Nat : Len(PartData(s, i)) \in Nat
  BY <1>1, PartType
<1>3. ASSUME f.data = ManifestFile(s)
      PROVE  Len(f.data.bytes) \in Nat
  <2>1. f.data.bytes = << >>
    BY <1>3 DEF ManifestFile
  <2> QED
    BY <2>1
<1>4. ASSUME NEW i \in 0..(Total(s) - 1), f.data = PartFile(s, i)
      PROVE  Len(f.data.bytes) \in Nat
  <2>1. f.data.bytes = PartData(s, i) /\ i \in Nat
    BY <1>2, <1>4 DEF PartFile
  <2> QED
    BY <1>2, <2>1
<1>5. \/ f.data = ManifestFile(s)
      \/ \E i \in 0..(Total(s) - 1) : f.data = PartFile(s, i)
  BY <1>1 DEF Files
<1>6. f.id \in FileIds
  BY DEF FolderType
<1> QED
  BY <1>3, <1>4, <1>5, <1>6

-----------------------------------------------------------------------------
(* One lemma for each group of actions.                                    *)

\* A run that ends keeps the types, whatever it did to the folder.
LEMMA TypeExit ==
  ASSUME TypeInv, Exit, UNCHANGED <<state, lastSalt>>, FolderType', LeftType'
  PROVE  TypeInv'
<1>1. ~Running' /\ ~Begun'
  BY DEF Exit, Running, Begun
<1>2. StateType'
  BY DEF TypeInv, StateType, Salts
<1>3. ListedType'
  BY DEF Exit, ListedType
<1>4. WhereType'
  <2>1. 1 \in 1..MaxAttempts
    BY PushAssumption
  <2> QED
    BY <1>1, <2>1 DEF Exit, WhereType
<1> QED
  BY <1>1, <1>2, <1>3, <1>4 DEF TypeInv, OwnState

\* A step within a run, that neither begins nor ends it nor saves the state.
LEMMA TypeWithin ==
  ASSUME TypeInv, Begun, pc' \in {"send", "replace", "record", "done"},
         UNCHANGED <<state, stream, failing, lastSalt>>,
         index' \in 0..Total(stream), attempt' \in 1..MaxAttempts,
         ListedType', FolderType', LeftType'
  PROVE  TypeInv'
<1>1. Running /\ Running' /\ Total(stream)' = Total(stream)
  BY DEF Begun, Running
<1>2. StateType'
  BY DEF TypeInv, StateType, Salts
<1>3. WhereType'
  BY <1>1 DEF TypeInv, WhereType
<1>4. OwnState'
  BY DEF TypeInv, OwnState, Resumes
<1> QED
  BY <1>2, <1>3, <1>4 DEF TypeInv

\* A call that failed for now: the run is where it was, or over.
LEMMA TypeRetry ==
  ASSUME TypeInv, pc \in {"send", "replace"}, RetryOrGiveUp,
         UNCHANGED <<state, lastSalt>>, FolderType', LeftType'
  PROVE  TypeInv'
<1>1. CASE attempt < MaxAttempts
  <2>1. attempt' \in 1..MaxAttempts
    BY <1>1, PushAssumption DEF RetryOrGiveUp, TypeInv, WhereType
  <2>2. Begun /\ index' \in 0..Total(stream)
    BY <1>1 DEF RetryOrGiveUp, Begun, Running, TypeInv, WhereType
  <2>3. ListedType'
    BY <1>1 DEF RetryOrGiveUp, TypeInv, ListedType
  <2> QED
    BY <1>1, <2>1, <2>2, <2>3, TypeWithin DEF RetryOrGiveUp
<1>2. CASE ~(attempt < MaxAttempts)
  BY <1>2, TypeExit DEF RetryOrGiveUp
<1> QED
  BY <1>1, <1>2

\* Beginning a run, on the stream of the state file or on a fresh one.
LEMMA TypeLoad ==
  ASSUME TypeInv, NEW o \in Options, NEW text \in Readable,
         NEW loaded, loaded = state \/ loaded = NoState,
         LoadState(loaded, o, text), failing' \in BOOLEAN, LeftType'
  PROVE  TypeInv'
<1>1. pc' = "save" /\ Running' /\ ~Begun' /\ FolderType'
  BY DEF LoadState, Running, Begun, TypeInv, FolderType
<1>2. ListedType' /\ attempt' \in 1..MaxAttempts
  BY PushAssumption DEF LoadState, ListedType
<1>3. lastSalt' \in 0..MaxStreams /\ \E salt \in Salts : stream' = StreamOf(salt, o, text)
  <2>1. CASE Resumes(loaded, o)
    <3>1. /\ state # NoState /\ lastSalt' = lastSalt
          /\ stream' = StreamOf(state.salt, o, text)
      BY <2>1 DEF Resumes, LoadState
    <3>2. state.salt \in Salts
      BY <3>1 DEF TypeInv, StateType
    <3> QED
      BY <3>1, <3>2 DEF TypeInv, StateType
  <2>2. CASE ~Resumes(loaded, o)
    <3>1. /\ lastSalt < MaxStreams /\ lastSalt' = lastSalt + 1
          /\ stream' = StreamOf(lastSalt', o, text)
      BY <2>2 DEF LoadState
    <3>2. lastSalt' \in Salts /\ lastSalt' \in 0..MaxStreams
      BY <3>1, PushAssumption DEF TypeInv, StateType, Salts
    <3> QED
      BY <3>1, <3>2
  <2> QED
    BY <2>1, <2>2
<1>4. stream' \in Streams /\ stream' # NoStream
  BY <1>3, PushAssumption DEF Streams, StreamOf, Salts, NoStream
<1>5. StateType'
  BY <1>3 DEF LoadState, TypeInv, StateType, Salts
<1>6. WhereType'
  <2>1. Total(stream') \in Nat
    BY <1>4, PartType
  <2>2. index' \in 0..Total(stream') /\ Total(stream') = Total(stream)'
    BY <2>1 DEF LoadState
  <2> QED
    BY <1>1, <1>2, <1>4, <2>2 DEF WhereType
<1> QED
  BY <1>1, <1>2, <1>5, <1>6 DEF TypeInv, OwnState

LEMMA TypeStart ==
  ASSUME TypeInv, Start \/ StartAfresh \/ StartBreaking
  PROVE  TypeInv'
<1>1. CASE Start
  <2>1. PICK o \in Options, text \in Sources :
          LoadState(state, o, text) /\ failing' = FALSE /\ UNCHANGED left
    BY <1>1 DEF Start
  <2>2. text \in Readable /\ LeftType'
    BY <2>1, ReadableType DEF TypeInv, LeftType
  <2> QED
    BY <2>1, <2>2, TypeLoad
<1>2. CASE StartAfresh
  <2>1. PICK o \in Options, text \in Sources :
          LoadState(NoState, o, text) /\ failing' = FALSE
    BY <1>2 DEF StartAfresh
  <2>2. text \in Readable /\ LeftType'
    BY <1>2, <2>1, ReadableType, SpendType, MishapKinds DEF TypeInv, StartAfresh
  <2> QED
    BY <2>1, <2>2, TypeLoad
<1>3. CASE StartBreaking
  <2>1. PICK o \in Options, text \in Sources : \E n \in 0..(Len(text) - 1) :
          LoadState(state, o, SubSeq(text, 1, n)) /\ failing' = TRUE
    BY <1>3 DEF StartBreaking
  <2>6. PICK n \in 0..(Len(text) - 1) :
          LoadState(state, o, SubSeq(text, 1, n)) /\ failing' = TRUE
    BY <2>1
  <2>2. n \in 0..Len(text)
    BY <2>6, PushAssumption
  <2>3. SubSeq(text, 1, n) \in {SubSeq(text, 1, m) : m \in 0..Len(text)}
    BY <2>2
  <2>4. SubSeq(text, 1, n) \in Readable
    BY <2>3, Zenon DEF Readable
  <2>5. LeftType'
    BY <1>3, SpendType, MishapKinds DEF TypeInv, StartBreaking
  <2> QED
    BY <2>6, <2>4, <2>5, TypeLoad
<1> QED
  BY <1>1, <1>2, <1>3

\* A save that keeps the run's stream, and notes parts of the right kind.
LEMMA TypeSaves ==
  ASSUME TypeInv, Running, UNCHANGED <<stream, lastSalt>>,
         NEW parts, \A i \in DOMAIN parts : i \in Nat /\ parts[i].size \in Nat,
         state' = SavedState(parts)
  PROVE  StateType' /\ OwnState'
<1>1. stream \in Streams
  BY DEF TypeInv, WhereType
<1>2. /\ DOMAIN state' = {"salt", "size", "label", "parts"}
      /\ state'.salt = stream.salt /\ state'.size = stream.size
      /\ state'.label = stream.label /\ state'.parts = parts
      /\ state' # NoState
      /\ stream.salt \in Salts
      /\ [size |-> stream.size, label |-> stream.label] \in Options
  BY <1>1, SavedType
<1>3. StateType'
  BY <1>2 DEF TypeInv, StateType, Salts
<1>4. OwnState'
  BY <1>2 DEF OwnState, Resumes
<1> QED
  BY <1>3, <1>4

LEMMA TypeSave ==
  ASSUME TypeInv, Save
  PROVE  TypeInv'
<1>1. /\ pc = "save" /\ pc' = "list" /\ state' = SavedState(RecordedParts)
      /\ UNCHANGED <<drive, stream, failing, remote, skip, index, attempt, lastSalt, left>>
  BY DEF Save
<1>2. Running /\ Running'
  BY <1>1 DEF Running
<1>3. \A i \in DOMAIN RecordedParts : i \in Nat /\ RecordedParts[i].size \in Nat
  <2>1. CASE Resumes(state, stream)
    BY <2>1 DEF RecordedParts, Resumes, TypeInv, StateType
  <2>2. CASE ~Resumes(state, stream)
    <3>1. RecordedParts = << >>
      BY <2>2 DEF RecordedParts
    <3> QED
      BY <3>1
  <2> QED
    BY <2>1, <2>2
<1>4. StateType' /\ OwnState'
  BY <1>1, <1>2, <1>3, TypeSaves
<1>5. FolderType' /\ LeftType' /\ ListedType'
  BY <1>1 DEF TypeInv, FolderType, LeftType, ListedType
<1>6. WhereType'
  BY <1>1, <1>2 DEF TypeInv, WhereType, Total, Bytes
<1> QED
  BY <1>4, <1>5, <1>6 DEF TypeInv

LEMMA TypeList ==
  ASSUME TypeInv, List
  PROVE  TypeInv'
<1>1. PICK pick \in [NamesIn(drive) -> drive] :
        remote' = [n \in NamesIn(drive) |->
                     [id |-> pick[n].id, size |-> Len(pick[n].data.bytes)]]
  BY DEF List
<1>2. \A n \in DOMAIN remote' : remote'[n].id \in FileIds /\ remote'[n].size \in Nat
  BY <1>1, ListedSize DEF TypeInv
<1>3. Running /\ Begun
  BY DEF List, Running, Begun
<1>4. DOMAIN RecordedParts \subseteq Nat
  BY <1>3, OwnParts DEF TypeInv, StateType
<1>5. ListedType'
  BY <1>2, <1>4 DEF List, ListedType
<1>6. FolderType' /\ LeftType' /\ index' \in 0..Total(stream)
  BY <1>3 DEF List, TypeInv, FolderType, LeftType, WhereType
<1> QED
  BY <1>3, <1>5, <1>6, TypeWithin DEF List, TypeInv, WhereType

LEMMA TypeSkipPart ==
  ASSUME TypeInv, SkipPart
  PROVE  TypeInv'
<1>1. Running /\ Begun
  BY DEF SkipPart, Running, Begun
<1>2. FolderType' /\ LeftType' /\ ListedType' /\ index' \in 0..Total(stream)
  BY <1>1, ItemType DEF SkipPart, TypeInv, FolderType, LeftType, ListedType
<1> QED
  BY <1>1, <1>2, TypeWithin DEF SkipPart, TypeInv, WhereType

\* Creating the new file, and deleting the one it replaces.
LEMMA TypeCall ==
  ASSUME TypeInv,
         \/ Create \/ CreateUnanswered \/ CreateLost
         \/ Delete \/ DeleteUnanswered \/ DeleteLost
  PROVE  TypeInv'
<1>1. Running /\ Begun /\ pc \in {"send", "replace"}
  BY DEF Create, CreateUnanswered, CreateLost, Delete, DeleteUnanswered, DeleteLost,
         Sending, Running, Begun
<1>2. FolderType'
  <2>1. CASE Create \/ CreateUnanswered
    BY <1>1, <2>1, LandsType DEF Create, CreateUnanswered
  <2>2. CASE CreateLost \/ Delete \/ DeleteUnanswered \/ DeleteLost
    <3>1. drive' \subseteq drive
      BY <2>2 DEF CreateLost, Delete, DeleteUnanswered, DeleteLost, Deletes
    <3> QED
      BY <3>1, FewerFiles DEF TypeInv
  <2> QED
    BY <2>1, <2>2
<1>3. CASE Create \/ Delete
  <2>1. /\ pc' \in {"send", "replace", "record", "done"} /\ attempt' \in 1..MaxAttempts
        /\ UNCHANGED <<state, stream, failing, remote, skip, index, lastSalt, left>>
    BY <1>3, PushAssumption DEF Create, Delete
  <2>2. LeftType' /\ ListedType' /\ index' \in 0..Total(stream)
    BY <1>1, <2>1 DEF TypeInv, LeftType, ListedType, WhereType
  <2> QED
    BY <1>1, <1>2, <2>1, <2>2, TypeWithin
<1>4. CASE CreateUnanswered \/ CreateLost \/ DeleteUnanswered \/ DeleteLost
  <2>1. Spend("fault") /\ RetryOrGiveUp /\ UNCHANGED <<state, lastSalt>>
    BY <1>4 DEF CreateUnanswered, CreateLost, DeleteUnanswered, DeleteLost
  <2>2. LeftType'
    BY <2>1, SpendType, MishapKinds DEF TypeInv
  <2> QED
    BY <1>1, <1>2, <2>1, <2>2, TypeRetry
<1> QED
  BY <1>3, <1>4

LEMMA TypeRecord ==
  ASSUME TypeInv, Record
  PROVE  TypeInv'
<1>1. Running /\ Begun /\ state # NoState /\ RecordedParts = state.parts
  BY OwnParts DEF Record, Running, Begun, TypeInv
<1>2. stream \in Streams /\ index \in Nat /\ Len(ItemData.bytes) \in Nat
      /\ index + 1 \in 0..Total(stream)
  BY <1>1, ItemType DEF Record
<1> DEFINE noted == [i \in DOMAIN RecordedParts \cup {index} |->
                       IF i = index
                         THEN [size |-> Len(ItemData.bytes), sha256 |-> ItemData.bytes]
                         ELSE RecordedParts[i]]
<1>3. state' = SavedState(noted)
  BY DEF Record
<1>4. \A i \in DOMAIN noted : i \in Nat /\ noted[i].size \in Nat
  BY <1>1, <1>2 DEF TypeInv, StateType
<1> HIDE DEF noted
<1>5. StateType' /\ OwnState'
  BY <1>1, <1>3, <1>4, TypeSaves DEF Record
<1>6. FolderType' /\ LeftType' /\ ListedType'
  BY DEF Record, TypeInv, FolderType, LeftType, ListedType
<1>7. WhereType'
  <2>1. Running' /\ Total(stream)' = Total(stream)
    BY DEF Record, Running
  <2>2. stream' = stream /\ stream # NoStream /\ index' \in 0..Total(stream)
    BY <1>1, <1>2 DEF Record, TypeInv, WhereType
  <2> QED
    BY <1>2, <2>1, <2>2 DEF Record, TypeInv, WhereType
<1> QED
  BY <1>5, <1>6, <1>7 DEF TypeInv

LEMMA TypeFinish ==
  ASSUME TypeInv, Finish
  PROVE  TypeInv'
<1>1. Running /\ Begun
  BY DEF Finish, Running, Begun
<1>2. FolderType' /\ LeftType' /\ ListedType' /\ index' \in 0..Total(stream)
  BY <1>1 DEF Finish, TypeInv, FolderType, LeftType, ListedType, WhereType
<1> QED
  BY <1>1, <1>2, TypeWithin DEF Finish, TypeInv, WhereType

\* The ways a run ends early, and a file that disappears between runs.
LEMMA TypeEnd ==
  ASSUME TypeInv,
         BuilderError \/ DeleteNotFound \/ Refused \/ Crash \/ RemoveRemote
  PROVE  TypeInv'
<1>1. Exit /\ UNCHANGED <<state, lastSalt>> /\ drive' \subseteq drive
  BY DEF BuilderError, DeleteNotFound, Refused, Crash, RemoveRemote
<1>2. LeftType'
  <2>1. CASE BuilderError \/ DeleteNotFound
    BY <2>1 DEF BuilderError, DeleteNotFound, TypeInv, LeftType
  <2>2. CASE Refused \/ Crash \/ RemoveRemote
    BY <2>2, SpendType, MishapKinds DEF Refused, Crash, RemoveRemote, TypeInv
  <2> QED
    BY <2>1, <2>2
<1>3. FolderType'
  BY <1>1, FewerFiles DEF TypeInv
<1> QED
  BY <1>1, <1>2, <1>3, TypeExit

\* A file that disappears during a run is all that changes.
LEMMA TypeRemoved ==
  ASSUME TypeInv, RemoveDuringRun
  PROVE  TypeInv'
<1>1. /\ drive' \subseteq drive /\ Spend("meddling")
      /\ UNCHANGED <<state, pc, stream, failing, remote, skip, index, attempt, lastSalt>>
  BY DEF RemoveDuringRun
<1>2. FolderType' /\ LeftType'
  BY <1>1, FewerFiles, SpendType, MishapKinds DEF TypeInv
<1>3. StateType' /\ ListedType' /\ WhereType' /\ OwnState'
  BY <1>1 DEF TypeInv, StateType, ListedType, WhereType, OwnState, Begun, Resumes, Running,
              Salts, Total, Bytes
<1> QED
  BY <1>2, <1>3 DEF TypeInv

LEMMA TypeNext == TypeInv /\ [Next]_vars => TypeInv'
<1> SUFFICES ASSUME TypeInv, [Next]_vars PROVE TypeInv'
  OBVIOUS
<1>1. CASE Start \/ StartAfresh \/ StartBreaking
  BY <1>1, TypeStart
<1>2. CASE Save \/ List
  BY <1>2, TypeSave, TypeList
<1>3. CASE SkipPart
  BY <1>3, TypeSkipPart
<1>4. CASE \/ Create \/ CreateUnanswered \/ CreateLost
           \/ Delete \/ DeleteUnanswered \/ DeleteLost
  BY <1>4, TypeCall
<1>5. CASE Record
  BY <1>5, TypeRecord
<1>6. CASE Finish
  BY <1>6, TypeFinish
<1>7. CASE BuilderError \/ DeleteNotFound \/ Refused \/ Crash \/ RemoveRemote
  BY <1>7, TypeEnd
<1>8. CASE RemoveDuringRun
  BY <1>8, TypeRemoved
<1>9. CASE UNCHANGED vars
  BY <1>9 DEF vars, TypeInv, FolderType, StateType, ListedType, WhereType, LeftType,
              OwnState, Begun, Resumes, Running, Salts
<1> QED
  BY <1>1, <1>2, <1>3, <1>4, <1>5, <1>6, <1>7, <1>8, <1>9 DEF Next, Run

-----------------------------------------------------------------------------
\* The variables of a push keep their types, in every run, over every failure:
\* what Drive holds is a part or a manifest of a stream some run produced, the
\* state file of a running push is there, and the part a run is at lies within
\* its stream (cli.cmd_stream_push).
THEOREM TypeCorrect == Spec => []TypeOK
<1>1. Spec => []TypeInv
  BY TypeInit, TypeNext, PTL DEF Spec
<1> QED
  BY <1>1, TypeInvTypeOK, PTL
-----------------------------------------------------------------------------
(* Counting second files.                                                  *)

LEMMA NamesFinite ==
  ASSUME NEW files, IsFiniteSet(files)
  PROVE  /\ IsFiniteSet(NamesIn(files))
         /\ Cardinality(files) \in Nat /\ Cardinality(NamesIn(files)) \in Nat
         /\ Cardinality(NamesIn(files)) <= Cardinality(files)
<1> DEFINE names == [f \in files |-> f.name]
<1>1. names \in Surjection(files, NamesIn(files))
  BY DEF NamesIn, Surjection
<1>2. IsFiniteSet(NamesIn(files)) /\ Cardinality(NamesIn(files)) <= Cardinality(files)
  BY <1>1, FS_Surjection
<1> QED
  BY <1>2, FS_CardinalityType

\* Of two finite sets, the one that has all of the other but one element is at
\* most one smaller.
LEMMA AllButOne ==
  ASSUME NEW S, IsFiniteSet(S), NEW T, IsFiniteSet(T), NEW x, T \ {x} \subseteq S
  PROVE  /\ Cardinality(S) \in Nat /\ Cardinality(T) \in Nat
         /\ Cardinality(T) <= Cardinality(S) + 1
<1>1. IsFiniteSet(T \ {x}) /\ Cardinality(T \ {x}) <= Cardinality(S)
  BY FS_Subset
<1>2. Cardinality(T \ {x}) = IF x \in T THEN Cardinality(T) - 1 ELSE Cardinality(T)
  BY FS_RemoveElement
<1>3. Cardinality(S) \in Nat /\ Cardinality(T) \in Nat
  BY FS_CardinalityType
<1> QED
  BY <1>1, <1>2, <1>3

LEMMA OneMore ==
  ASSUME NEW S, IsFiniteSet(S), NEW x, x \notin S, NEW T, IsFiniteSet(T),
         S \cup {x} \subseteq T
  PROVE  /\ Cardinality(S) \in Nat /\ Cardinality(T) \in Nat
         /\ Cardinality(S) + 1 <= Cardinality(T)
<1>1. IsFiniteSet(S \cup {x}) /\ Cardinality(S \cup {x}) = Cardinality(S) + 1
  BY FS_AddElement
<1>2. Cardinality(S \cup {x}) <= Cardinality(T)
  BY FS_Subset
<1> QED
  BY <1>1, <1>2, FS_CardinalityType

-----------------------------------------------------------------------------
(* The invariant: of every name whose file the run listed and found still  *)
(* there, or uploaded itself, one file does not count as a second one.     *)

\* The mishaps that may leave a second file.
Spent == (Budget["fault"] - left["fault"]) + (Budget["crash"] - left["crash"])

Working == pc \in {"send", "replace", "record"}

\* A part the run is past.
Past(n) == \E i \in Nat : i < index /\ n = PartName(stream, i)

\* The file the run listed under a name is still there.
StillListed(n) == n \in DOMAIN remote /\ \E f \in drive : f.name = n /\ f.id = remote[n].id

\* The names of which one file is no second file. A name the run has yet to
\* upload, without the file the run will replace, is not among them: the upload
\* adds a file that nothing will be deleted for.
Settled ==
  IF Working
    THEN {n \in NamesIn(drive) :
            StillListed(n) \/ Past(n) \/ (n = ItemName /\ pc # "send")}
    ELSE NamesIn(drive)

\* A run has one file too many between an upload and the delete.
Replacing ==
  /\ pc = "replace"
  /\ ReplacedId \in IdsOnDrive
  /\ \E f \in drive : f.name = ItemName /\ f.id # ReplacedId

Allowed == IF Replacing THEN Spent + 1 ELSE Spent

ExtraInv == IsFiniteSet(drive) /\ Cardinality(drive) <= Cardinality(Settled) + Allowed

LEMMA SpentType ==
  ASSUME LeftType
  PROVE  /\ Spent \in Int
         /\ left["fault"] \in Nat /\ left["crash"] \in Nat
         /\ Budget["fault"] \in Nat /\ Budget["crash"] \in Nat
BY PushAssumption DEF LeftType, Spent, Mishaps

\* A fault or a kill allows one more second file; other mishaps do not.
LEMMA SpentStep ==
  ASSUME LeftType
  PROVE  /\ Spend("fault") => Spent' = Spent + 1
         /\ Spend("crash") => Spent' = Spent + 1
         /\ Spend("loss") => Spent' = Spent
         /\ Spend("break") => Spent' = Spent
         /\ Spend("removal") => Spent' = Spent
         /\ Spend("meddling") => Spent' = Spent
BY PushAssumption DEF LeftType, Spent, Mishaps, Spend

\* The numbers the invariant compares.
LEMMA ExtraType ==
  ASSUME TypeInv, ExtraInv
  PROVE  /\ Spent \in Int /\ IsFiniteSet(Settled) /\ Settled \subseteq NamesIn(drive)
         /\ Cardinality(drive) \in Nat /\ Cardinality(Settled) \in Nat
<1>1. Settled \subseteq NamesIn(drive)
  BY DEF Settled
<1>2. IsFiniteSet(NamesIn(drive)) /\ Cardinality(drive) \in Nat
  BY NamesFinite DEF ExtraInv
<1>3. IsFiniteSet(Settled)
  BY <1>1, <1>2, FS_Subset
<1> QED
  BY <1>1, <1>2, <1>3, FS_CardinalityType, SpentType DEF TypeInv

LEMMA ExtraInit == Init => ExtraInv
<1> SUFFICES ASSUME Init PROVE ExtraInv
  OBVIOUS
<1>1. pc = "idle" /\ drive = {} /\ left = Budget
  BY DEF Init
<1>2. NamesIn(drive) = {} /\ Settled = NamesIn(drive) /\ ~Replacing
  BY <1>1 DEF NamesIn, Settled, Working, Replacing
<1>3. IsFiniteSet(drive) /\ Cardinality(drive) = 0
  BY <1>1, FS_EmptySet
<1>4. Spent = 0
  BY <1>1, PushAssumption DEF Spent, Mishaps
<1> QED
  BY <1>1, <1>2, <1>3, <1>4 DEF ExtraInv, Allowed

-----------------------------------------------------------------------------
(* What each kind of step does to the count.                               *)

\* No file is added and every settled name stays settled: enough for every step
\* that leaves the folder alone.
LEMMA NoNewFile ==
  ASSUME TypeInv, ExtraInv, drive' = drive, Settled \subseteq Settled',
         Spent' \in Int, Allowed <= Allowed'
  PROVE  ExtraInv'
<1>1. IsFiniteSet(drive') /\ Settled' \subseteq NamesIn(drive')
  BY DEF ExtraInv, Settled
<1>2. IsFiniteSet(Settled')
  BY <1>1, NamesFinite, FS_Subset
<1>3. Cardinality(Settled) <= Cardinality(Settled') /\ Cardinality(Settled') \in Nat
  BY <1>2, FS_Subset, FS_CardinalityType
<1>4. Allowed \in Int /\ Allowed' \in Int
  BY ExtraType DEF Allowed
<1> QED
  BY <1>1, <1>3, <1>4, ExtraType DEF ExtraInv

\* Outside of a run's work every name is settled.
LEMMA AllSettled ==
  ASSUME pc' \notin {"send", "replace", "record"}
  PROVE  Settled' = NamesIn(drive)' /\ ~Replacing'
BY DEF Settled, Working, Replacing

\* A run that ends without touching the folder: whoever ends it between an upload
\* and the delete is a mishap.
LEMMA ExtraExit ==
  ASSUME TypeInv, ExtraInv, Exit, drive' = drive,
         \/ Spend("fault") \/ Spend("crash")
         \/ left' = left /\ ~Replacing
  PROVE  ExtraInv'
<1>1. Settled' = NamesIn(drive)' /\ ~Replacing'
  BY AllSettled DEF Exit
<1>2. Settled \subseteq Settled'
  BY <1>1, ExtraType DEF NamesIn
<1>3. Spent' \in Int /\ Allowed <= Allowed'
  <2>1. Spent \in Int
    BY ExtraType
  <2>2. CASE Spend("fault") \/ Spend("crash")
    BY <1>1, <2>1, <2>2, SpentStep DEF TypeInv, Allowed
  <2>3. CASE left' = left /\ ~Replacing
    BY <1>1, <2>1, <2>3 DEF Allowed, Spent
  <2> QED
    BY <2>2, <2>3
<1> QED
  BY <1>2, <1>3, NoNewFile

\* A step before the run knows the folder, or after it is done with it.
LEMMA ExtraResting ==
  ASSUME TypeInv, ExtraInv, pc' \notin {"send", "replace", "record"}, pc # "replace",
         drive' = drive, Spent' = Spent
  PROVE  ExtraInv'
<1>1. Settled' = NamesIn(drive)' /\ ~Replacing' /\ ~Replacing
  BY AllSettled DEF Replacing
<1>2. Settled \subseteq Settled' /\ Spent \in Int
  BY <1>1, ExtraType DEF NamesIn
<1> QED
  BY <1>1, <1>2, NoNewFile DEF Allowed

LEMMA ExtraStart ==
  ASSUME TypeInv, ExtraInv, Start \/ StartAfresh \/ StartBreaking
  PROVE  ExtraInv'
<1>1. AtRest /\ UNCHANGED drive /\ pc' = "save"
  BY DEF Start, StartAfresh, StartBreaking, LoadState
<1>2. left' = left \/ Spend("loss") \/ Spend("break")
  BY DEF Start, StartAfresh, StartBreaking
<1>3. Spent' = Spent
  BY <1>2, SpentStep DEF TypeInv, Spent
<1> QED
  BY <1>1, <1>3, ExtraResting DEF AtRest

LEMMA ExtraSaveFinish ==
  ASSUME TypeInv, ExtraInv, Save \/ Finish
  PROVE  ExtraInv'
<1>1. /\ pc \in {"save", "record"} /\ pc' \in {"list", "done"}
      /\ UNCHANGED <<drive, left>>
  BY DEF Save, Finish
<1> QED
  BY <1>1, ExtraResting DEF Spent

LEMMA ExtraList ==
  ASSUME TypeInv, ExtraInv, List
  PROVE  ExtraInv'
<1>1. PICK pick \in [NamesIn(drive) -> drive] :
        /\ \A n \in NamesIn(drive) : pick[n].name = n
        /\ remote' = [n \in NamesIn(drive) |->
                        [id |-> pick[n].id, size |-> Len(pick[n].data.bytes)]]
  BY DEF List
<1>2. pc = "list" /\ pc' = "send" /\ drive' = drive /\ left' = left
  BY DEF List
<1>3. ASSUME NEW n \in NamesIn(drive)
      PROVE  StillListed(n)'
  <2>1. pick[n] \in drive /\ pick[n].name = n /\ remote'[n].id = pick[n].id
        /\ n \in DOMAIN remote'
    BY <1>1, <1>3
  <2> QED
    BY <2>1, <1>2 DEF StillListed
<1>4. Settled' = NamesIn(drive)
  BY <1>2, <1>3 DEF Settled, Working
<1>5. Settled \subseteq Settled' /\ Spent \in Int
  BY <1>4, ExtraType
<1>6. ~Replacing /\ ~Replacing'
  BY <1>2 DEF Replacing
<1> QED
  BY <1>2, <1>5, <1>6, NoNewFile DEF Allowed, Spent

\* What a run sends has a name it is not past, and goes on to another.
LEMMA ItemIsNew ==
  ASSUME TypeInv, Running
  PROVE  /\ index \in Nat /\ ~Past(ItemName)
         /\ ~AtManifest => ItemName = PartName(stream, index)
<1>1. index \in Nat
  BY ItemType
<1>2. \A i \in Nat : i < index => PartName(stream, i) # ItemName
  <2> TAKE i \in Nat
  <2> HAVE i < index
  <2>1. PartName(stream, i).index = i /\ PartName(stream, i).kind = "part"
    BY DEF PartName
  <2>2. PartName(stream, index).index = index /\ ManifestName(stream).kind = "manifest"
    BY DEF PartName, ManifestName
  <2>3. PartName(stream, i) # PartName(stream, index)
    BY <2>1, <2>2, <1>1
  <2>4. PartName(stream, i) # ManifestName(stream)
    BY <2>1, <2>2
  <2> QED
    BY <2>3, <2>4 DEF ItemName
<1> QED
  BY <1>1, <1>2 DEF ItemName, Past

\* A landed file is new, and not the one it replaces.
LEMMA LandsNew ==
  ASSUME Lands, IsFiniteSet(drive)
  PROVE  \E f : /\ f \notin drive /\ drive' = drive \cup {f}
                /\ f.name = ItemName
                /\ Replaces => f.id # ReplacedId
                /\ IsFiniteSet(drive') /\ Cardinality(drive') = Cardinality(drive) + 1
<1> DEFINE free == FileIds \ (IdsOnDrive \cup IdsListed)
           d == CHOOSE x \in free : TRUE
           new == [id |-> d, name |-> ItemName, data |-> ItemData]
<1>1. d \in free /\ drive' = drive \cup {new}
  BY DEF Lands
<1>2. new.id = d /\ new.name = ItemName
  OBVIOUS
<1> HIDE DEF d, new
<1>3. new \notin drive
  BY <1>1, <1>2 DEF IdsOnDrive
<1>4. Replaces => new.id # ReplacedId
  BY <1>1, <1>2 DEF IdsListed, ReplacedId
<1> HIDE DEF free
<1>5. /\ IsFiniteSet(drive \cup {new})
      /\ Cardinality(drive \cup {new}) = Cardinality(drive) + 1
  BY <1>3, FS_AddElement
<1> QED
  BY <1>1, <1>2, <1>3, <1>4, <1>5

\* The run goes on with the same file, or is over.
LEMMA RetryKeeps ==
  ASSUME RetryOrGiveUp
  PROVE  Exit \/ UNCHANGED <<pc, stream, failing, remote, skip, index>>
BY DEF RetryOrGiveUp

\* An upload unsettles no name, and settles its own once it is answered.
LEMMA LandsSettled ==
  ASSUME TypeInv, ExtraInv, pc = "send", Lands,
         \/ pc' = "idle"
         \/ pc' \in {"send", "replace", "record"} /\ UNCHANGED <<stream, remote, index>>
  PROVE  /\ IsFiniteSet(Settled') /\ Settled \subseteq Settled'
         /\ pc' # "send" => ItemName \in Settled'
<1>1. PICK f : /\ drive' = drive \cup {f} /\ f.name = ItemName /\ IsFiniteSet(drive')
  BY LandsNew DEF ExtraInv
<1>2. NamesIn(drive') = NamesIn(drive) \cup {ItemName}
  BY <1>1 DEF NamesIn
<1>3. IsFiniteSet(NamesIn(drive'))
  BY <1>1, NamesFinite
<1>4. CASE pc' = "idle"
  <2>1. Settled' = NamesIn(drive')
    BY <1>4, AllSettled
  <2> QED
    BY <2>1, <1>2, <1>3, ExtraType
<1>5. CASE pc' \in {"send", "replace", "record"} /\ UNCHANGED <<stream, remote, index>>
  <2>1. ItemName' = ItemName /\ \A n : Past(n)' <=> Past(n)
    BY <1>5 DEF ItemName, Past, AtManifest
  <2>2. \A n : StillListed(n) => StillListed(n)'
    BY <1>1, <1>5 DEF StillListed
  <2>3. /\ Settled = {n \in NamesIn(drive) : StillListed(n) \/ Past(n)}
        /\ Settled' = {n \in NamesIn(drive') :
                         StillListed(n)' \/ Past(n)' \/ (n = ItemName' /\ pc' # "send")}
    BY <1>5 DEF Settled, Working
  <2>4. Settled \subseteq Settled' /\ (pc' # "send" => ItemName \in Settled')
    BY <1>2, <2>1, <2>2, <2>3
  <2>5. Settled' \subseteq NamesIn(drive')
    BY <2>3
  <2> QED
    BY <1>3, <2>4, <2>5, FS_Subset
<1> QED
  BY <1>4, <1>5

LEMMA ExtraCreate ==
  ASSUME TypeInv, ExtraInv, Create
  PROVE  ExtraInv'
<1>1. /\ pc = "send" /\ Lands /\ pc' = IF Replaces THEN "replace" ELSE "record"
      /\ UNCHANGED <<stream, remote, index, left>>
  BY DEF Create, Sending
<1>2. PICK f : /\ f \notin drive /\ drive' = drive \cup {f} /\ f.name = ItemName
               /\ Replaces => f.id # ReplacedId
               /\ IsFiniteSet(drive') /\ Cardinality(drive') = Cardinality(drive) + 1
  BY <1>1, LandsNew DEF ExtraInv
<1>3. IsFiniteSet(Settled') /\ Settled \subseteq Settled' /\ ItemName \in Settled'
  BY <1>1, LandsSettled
<1>4. /\ Cardinality(drive) \in Nat /\ Spent \in Int /\ Spent' = Spent
      /\ IsFiniteSet(Settled) /\ Cardinality(Settled) \in Nat
      /\ Cardinality(drive) <= Cardinality(Settled) + Spent
  BY <1>1, ExtraType DEF ExtraInv, Allowed, Replacing, Spent
<1>5. CASE ItemName \in Settled
  <2>1. StillListed(ItemName)
    BY <1>1, <1>5, ItemIsNew DEF Settled, Working, Running
  <2>2. Replaces /\ ReplacedId \in IdsOnDrive
    BY <2>1 DEF StillListed, Replaces, ReplacedId, IdsOnDrive
  <2>3. ItemName' = ItemName /\ ReplacedId' = ReplacedId /\ pc' = "replace"
    BY <1>1, <2>2 DEF ItemName, AtManifest, ReplacedId
  <2>4. Replacing'
    BY <1>2, <2>2, <2>3 DEF Replacing, IdsOnDrive
  <2>5. Cardinality(Settled) <= Cardinality(Settled') /\ Cardinality(Settled') \in Nat
    BY <1>3, FS_Subset, FS_CardinalityType
  <2> QED
    BY <1>2, <1>4, <2>4, <2>5 DEF ExtraInv, Allowed
<1>6. CASE ItemName \notin Settled
  <2>1. Cardinality(Settled) + 1 <= Cardinality(Settled') /\ Cardinality(Settled') \in Nat
    BY <1>3, <1>4, <1>6, OneMore
  <2> QED
    BY <1>2, <1>4, <2>1 DEF ExtraInv, Allowed
<1> QED
  BY <1>5, <1>6

LEMMA ExtraCreateUnanswered ==
  ASSUME TypeInv, ExtraInv, CreateUnanswered
  PROVE  ExtraInv'
<1>1. pc = "send" /\ Lands /\ RetryOrGiveUp /\ Spend("fault")
  BY DEF CreateUnanswered, Sending
<1>2. IsFiniteSet(drive') /\ Cardinality(drive') = Cardinality(drive) + 1
  BY <1>1, LandsNew DEF ExtraInv
<1>3. pc' = "idle" \/ (pc' = "send" /\ UNCHANGED <<stream, remote, index>>)
  BY <1>1, RetryKeeps DEF Exit
<1>4. IsFiniteSet(Settled') /\ Settled \subseteq Settled'
  BY <1>1, <1>3, LandsSettled
<1>5. Cardinality(Settled) <= Cardinality(Settled') /\ Cardinality(Settled') \in Nat
  BY <1>4, FS_Subset, FS_CardinalityType
<1>6. /\ Cardinality(drive) \in Nat /\ Spent \in Int /\ Spent' = Spent + 1
      /\ Cardinality(Settled) \in Nat
      /\ Cardinality(drive) <= Cardinality(Settled) + Spent
  BY <1>1, ExtraType, SpentStep DEF TypeInv, ExtraInv, Allowed, Replacing
<1>7. ~Replacing'
  BY <1>3 DEF Replacing
<1> QED
  BY <1>2, <1>5, <1>6, <1>7 DEF ExtraInv, Allowed

\* A call that did nothing: the run is where it was, or over.
LEMMA ExtraLost ==
  ASSUME TypeInv, ExtraInv, CreateLost \/ DeleteLost
  PROVE  ExtraInv'
<1>1. RetryOrGiveUp /\ Spend("fault") /\ UNCHANGED drive
  BY DEF CreateLost, DeleteLost
<1>2. CASE Exit
  BY <1>1, <1>2, ExtraExit
<1>3. CASE UNCHANGED <<pc, stream, failing, remote, skip, index>>
  <2>1. Settled' = Settled /\ (Replacing' <=> Replacing)
    BY <1>1, <1>3 DEF Settled, Working, StillListed, Past, NamesIn, ItemName, AtManifest,
       Replacing, ReplacedId, IdsOnDrive
  <2>2. Spent' = Spent + 1 /\ Spent \in Int
    BY <1>1, SpentStep, ExtraType DEF TypeInv
  <2> QED
    BY <1>1, <2>1, <2>2, NoNewFile DEF Allowed
<1> QED
  BY <1>1, <1>2, <1>3, RetryKeeps

\* A delete takes files of one name: either another is left of it, or it was
\* not the second file of that name.
LEMMA DeletesOne ==
  ASSUME TypeInv, ExtraInv, pc = "replace", ReplacedId \in IdsOnDrive, Deletes,
         \/ pc' = "idle"
         \/ pc' \in {"replace", "record"} /\ UNCHANGED <<stream, remote, index>>
  PROVE  /\ IsFiniteSet(drive') /\ ~Replacing'
         /\ Cardinality(drive') <= Cardinality(Settled') + Spent
<1>1. drive' = {f \in drive : f.name = ItemName => f.id # ReplacedId}
  BY DEF Deletes
<1>2. PICK h \in drive : h.name = ItemName /\ h.id = ReplacedId
  BY DEF IdsOnDrive
<1>3. drive' \subseteq drive /\ h \notin drive' /\ IsFiniteSet(drive)
  BY <1>1, <1>2 DEF ExtraInv
<1>4. IsFiniteSet(drive')
  BY <1>3, FS_Subset
<1>5. drive' \cup {h} \subseteq drive
  BY <1>2, <1>3
<1>13. Cardinality(drive') + 1 <= Cardinality(drive) /\ Cardinality(drive') \in Nat
  BY <1>3, <1>4, <1>5, OneMore
<1>6. NamesIn(drive) \ {ItemName} \subseteq NamesIn(drive')
  BY <1>1 DEF NamesIn
<1>7. Settled' \subseteq NamesIn(drive') /\ IsFiniteSet(NamesIn(drive'))
  BY <1>4, NamesFinite DEF Settled
<1>8. IsFiniteSet(Settled')
  BY <1>7, FS_Subset
<1>9. /\ Settled \ {ItemName} \subseteq Settled'
      /\ ItemName \in NamesIn(drive') => ItemName \in Settled'
      /\ ~Replacing'
  <2>1. CASE pc' = "idle"
    <3>1. Settled' = NamesIn(drive)' /\ ~Replacing'
      BY <2>1, AllSettled
    <3> QED
      BY <3>1, <1>6, ExtraType
  <2>2. CASE pc' \in {"replace", "record"} /\ UNCHANGED <<stream, remote, index>>
    <3>1. ItemName' = ItemName /\ ReplacedId' = ReplacedId /\ \A n : Past(n)' <=> Past(n)
      BY <2>2 DEF ItemName, Past, AtManifest, ReplacedId
    <3>2. \A n : n # ItemName /\ StillListed(n) => StillListed(n)'
      BY <1>1, <2>2 DEF StillListed
    <3>3. /\ Settled = {n \in NamesIn(drive) : StillListed(n) \/ Past(n) \/ n = ItemName}
          /\ Settled' = {n \in NamesIn(drive') :
                           StillListed(n)' \/ Past(n)' \/ n = ItemName'}
      BY <2>2 DEF Settled, Working
    <3>4. ~Replacing'
      BY <1>1, <3>1 DEF Replacing, IdsOnDrive
    <3> QED
      BY <1>6, <3>1, <3>2, <3>3, <3>4
  <2> QED
    BY <2>1, <2>2
<1>10. /\ Cardinality(drive) \in Nat /\ Spent \in Int
       /\ IsFiniteSet(Settled) /\ Cardinality(Settled) \in Nat
       /\ Cardinality(drive) <= Cardinality(Settled) + Allowed
  BY ExtraType DEF ExtraInv
<1>11. CASE Replacing
  <2>1. PICK g \in drive : g.name = ItemName /\ g.id # ReplacedId
    BY <1>11 DEF Replacing
  <2>2. ItemName \in NamesIn(drive')
    BY <2>1, <1>1 DEF NamesIn
  <2>3. Settled \subseteq Settled'
    BY <2>2, <1>9
  <2>4. Cardinality(Settled) <= Cardinality(Settled') /\ Cardinality(Settled') \in Nat
    BY <2>3, <1>8, FS_Subset, FS_CardinalityType
  <2> QED
    BY <1>4, <1>13, <1>9, <1>10, <1>11, <2>4 DEF Allowed
<1>12. CASE ~Replacing
  <2>1. Cardinality(Settled) <= Cardinality(Settled') + 1 /\ Cardinality(Settled') \in Nat
    BY <1>8, <1>9, <1>10, AllButOne
  <2> QED
    BY <1>4, <1>13, <1>9, <1>10, <1>12, <2>1 DEF Allowed
<1> QED
  BY <1>11, <1>12

LEMMA ExtraDelete ==
  ASSUME TypeInv, ExtraInv, Delete \/ DeleteUnanswered
  PROVE  ExtraInv'
<1>1. pc = "replace" /\ ReplacedId \in IdsOnDrive /\ Deletes
  BY DEF Delete, DeleteUnanswered
<1>2. \/ pc' = "idle"
      \/ pc' \in {"replace", "record"} /\ UNCHANGED <<stream, remote, index>>
  BY RetryKeeps DEF Delete, DeleteUnanswered, Exit
<1>3. /\ IsFiniteSet(drive') /\ ~Replacing'
      /\ Cardinality(drive') <= Cardinality(Settled') + Spent
  BY <1>1, <1>2, DeletesOne
<1>4. Settled' \subseteq NamesIn(drive') /\ IsFiniteSet(NamesIn(drive'))
  BY <1>3, NamesFinite DEF Settled
<1>5. IsFiniteSet(Settled')
  BY <1>4, FS_Subset
<1>6. Cardinality(drive') \in Nat /\ Cardinality(Settled') \in Nat
  BY <1>3, <1>5, FS_CardinalityType
<1>7. Spent \in Int /\ (Spent' = Spent \/ Spent' = Spent + 1)
  BY ExtraType, SpentStep DEF Delete, DeleteUnanswered, TypeInv, Spent
<1> QED
  BY <1>3, <1>6, <1>7 DEF ExtraInv, Allowed

\* Going on to the next file: the name of the one before it is settled.
LEMMA ExtraGoesOn ==
  ASSUME TypeInv, ExtraInv, SkipPart \/ Record
  PROVE  ExtraInv'
<1>1. /\ pc \in {"send", "record"} /\ pc' = "send" /\ ~AtManifest /\ index' = index + 1
      /\ UNCHANGED <<drive, stream, remote, left>>
  BY DEF SkipPart, Record
<1>2. index \in Nat /\ ItemName = PartName(stream, index)
  BY <1>1, ItemIsNew DEF Running
<1>3. \A n : Past(n) \/ n = ItemName => Past(n)'
  <2> TAKE n
  <2>1. index \in Nat /\ index < index + 1 /\ \A i \in Nat : i < index => i < index + 1
    BY <1>2
  <2> QED
    BY <2>1, <1>1, <1>2 DEF Past
<1>4. \A n : StillListed(n)' <=> StillListed(n)
  BY <1>1 DEF StillListed
<1>5. Settled \subseteq Settled'
  BY <1>1, <1>3, <1>4 DEF Settled, Working
<1>6. ~Replacing /\ ~Replacing' /\ Spent \in Int
  BY <1>1, ExtraType DEF Replacing
<1> QED
  BY <1>1, <1>5, <1>6, NoNewFile DEF Allowed, Spent

\* The run is over before its time, and the folder is as it was.
LEMMA ExtraStops ==
  ASSUME TypeInv, ExtraInv, BuilderError \/ DeleteNotFound \/ Refused \/ Crash
  PROVE  ExtraInv'
<1>1. Exit /\ drive' = drive
  BY DEF BuilderError, DeleteNotFound, Refused, Crash
<1>2. Refused \/ Crash => Spend("fault") \/ Spend("crash")
  BY DEF Refused, Crash
<1>3. BuilderError \/ DeleteNotFound => left' = left /\ ~Replacing
  BY DEF BuilderError, DeleteNotFound, Replacing
<1> QED
  BY <1>1, <1>2, <1>3, ExtraExit

\* A file somebody takes away settles nothing, and unsettles at most its name.
LEMMA ExtraTaken ==
  ASSUME TypeInv, ExtraInv, RemoveRemote \/ RemoveDuringRun
  PROVE  ExtraInv'
<1>1. PICK f \in drive : drive' = drive \ {f}
  BY DEF RemoveRemote, RemoveDuringRun
<1>2. /\ IsFiniteSet(drive') /\ Cardinality(drive') = Cardinality(drive) - 1
      /\ Cardinality(drive') \in Nat
  BY <1>1, FS_RemoveElement, FS_CardinalityType DEF ExtraInv
<1>3. NamesIn(drive) \ {f.name} \subseteq NamesIn(drive')
  BY <1>1 DEF NamesIn
<1>4. Settled' \subseteq NamesIn(drive') /\ IsFiniteSet(NamesIn(drive'))
  BY <1>2, NamesFinite DEF Settled
<1>5. IsFiniteSet(Settled')
  BY <1>4, FS_Subset
<1>6. /\ Cardinality(drive) \in Nat /\ Spent \in Int /\ Spent' = Spent
      /\ IsFiniteSet(Settled) /\ Cardinality(Settled) \in Nat
      /\ Cardinality(drive) <= Cardinality(Settled) + Allowed
  <2>1. Spend("removal") \/ Spend("meddling")
    BY DEF RemoveRemote, RemoveDuringRun
  <2> QED
    BY <2>1, ExtraType, SpentStep DEF TypeInv, ExtraInv
<1>7. CASE RemoveRemote
  <2>1. pc # "replace" /\ Settled' = NamesIn(drive')
    BY <1>7, AllSettled DEF RemoveRemote, AtRest, Exit
  <2>2. Settled \ {f.name} \subseteq Settled' /\ ~Replacing /\ ~Replacing'
    BY <1>3, <2>1, <1>7, ExtraType DEF Replacing, RemoveRemote, Exit
  <2>3. Cardinality(Settled) <= Cardinality(Settled') + 1 /\ Cardinality(Settled') \in Nat
    BY <1>5, <1>6, <2>2, AllButOne
  <2> QED
    BY <1>2, <1>6, <2>2, <2>3 DEF ExtraInv, Allowed
<1>8. CASE RemoveDuringRun
  <2>1. UNCHANGED <<pc, stream, remote, index>>
    BY <1>8 DEF RemoveDuringRun
  <2>2. /\ ItemName' = ItemName /\ ReplacedId' = ReplacedId
        /\ \A n : Past(n)' <=> Past(n)
    BY <2>1 DEF ItemName, AtManifest, ReplacedId, Past
  <2>3. \A n : n # f.name /\ StillListed(n) => StillListed(n)'
    BY <1>1, <2>1 DEF StillListed
  <2>4. Settled \ {f.name} \subseteq Settled'
    BY <1>3, <2>1, <2>2, <2>3 DEF Settled, Working
  <2>5. CASE Replacing' \/ ~Replacing
    <3>1. Cardinality(Settled) <= Cardinality(Settled') + 1 /\ Cardinality(Settled') \in Nat
      BY <1>5, <1>6, <2>4, AllButOne
    <3> QED
      BY <1>2, <1>6, <2>5, <3>1 DEF ExtraInv, Allowed
  <2>6. CASE Replacing /\ ~Replacing'
    <3>1. PICK g \in drive, h \in drive : /\ g.name = ItemName /\ g.id # ReplacedId
                                          /\ h.name = ItemName /\ h.id = ReplacedId
      BY <2>6 DEF Replacing, IdsOnDrive
    <3>2. ~(g \in drive' /\ h \in drive')
      BY <2>1, <2>2, <2>6, <3>1 DEF Replacing, IdsOnDrive
    <3>3. f.name = ItemName /\ ItemName \in NamesIn(drive')
      BY <1>1, <3>1, <3>2 DEF NamesIn
    <3>4. ItemName \in Settled'
      BY <2>1, <2>2, <2>6, <3>3 DEF Settled, Working, Replacing
    <3>5. Settled \subseteq Settled'
      BY <2>4, <3>3, <3>4
    <3>6. Cardinality(Settled) <= Cardinality(Settled') /\ Cardinality(Settled') \in Nat
      BY <1>5, <3>5, FS_Subset, FS_CardinalityType
    <3> QED
      BY <1>2, <1>6, <2>6, <3>6 DEF ExtraInv, Allowed
  <2> QED
    BY <2>5, <2>6
<1> QED
  BY <1>7, <1>8

LEMMA ExtraNext ==
  ASSUME TypeInv, ExtraInv, [Next]_vars
  PROVE  ExtraInv'
<1>1. CASE UNCHANGED vars
  <2>1. Settled' = Settled /\ (Replacing' <=> Replacing) /\ Spent' = Spent /\ drive' = drive
    BY <1>1 DEF vars, Settled, Working, StillListed, Past, NamesIn, ItemName, AtManifest,
       Replacing, ReplacedId, IdsOnDrive, Spent
  <2> QED
    BY <2>1, ExtraType, NoNewFile DEF Allowed
<1> QED
  BY <1>1, ExtraStart, ExtraSaveFinish, ExtraList, ExtraCreate, ExtraCreateUnanswered,
     ExtraLost, ExtraDelete, ExtraGoesOn, ExtraStops, ExtraTaken DEF Next, Run

\* Whatever the archives, options, retries and mishaps: between runs there are no
\* more second files in the folder than there were lost answers and kills, however
\* often the command was run (drive.upload_one, cli.cmd_stream_push).
THEOREM DuplicatesAreTraces == Spec => []DuplicatesFromMishaps
<1>1. Init => TypeInv /\ ExtraInv
  BY TypeInit, ExtraInit
<1>2. TypeInv /\ ExtraInv /\ [Next]_vars => (TypeInv /\ ExtraInv)'
  BY TypeNext, ExtraNext
<1>3. TypeInv /\ ExtraInv => DuplicatesFromMishaps
  <2> SUFFICES ASSUME TypeInv, ExtraInv, AtRest PROVE DuplicatesFromMishaps
    BY DEF DuplicatesFromMishaps
  <2>1. Settled = NamesIn(drive) /\ ~Replacing
    BY DEF AtRest, Settled, Working, Replacing
  <2> QED
    BY <2>1, ExtraType DEF ExtraInv, Allowed, DuplicatesFromMishaps, Spent
<1> QED
  BY <1>1, <1>2, <1>3, PTL DEF Spec

-----------------------------------------------------------------------------
(* What is left of the mishaps only falls.                                 *)

\* No kind of mishap has more left than there was.
Unspent == \A kind \in Mishaps : left[kind] <= Budget[kind]

LEMMA UnspentInit == Init => Unspent
BY PushAssumption DEF Init, Unspent

\* A mishap that was met stays met.
LEMMA MetStays ==
  ASSUME TypeInv, Unspent, [Next]_vars
  PROVE  /\ Unspent'
         /\ \A kind \in Mishaps : /\ Met(kind) => Met(kind)'
                                  /\ Spend(kind) => Met(kind)'
<1>1. /\ left \in [Mishaps -> Nat] /\ Budget \in [Mishaps -> Nat]
  BY PushAssumption DEF TypeInv, LeftType
<1>2. left' = left \/ \E kind \in Mishaps : Spend(kind)
  BY MishapKinds DEF Next, Run, Start, StartAfresh, StartBreaking, Save, List, SkipPart,
     BuilderError, Create, CreateUnanswered, CreateLost, Delete, DeleteUnanswered,
     DeleteLost, DeleteNotFound, Refused, Record, Finish, Crash, RemoveRemote,
     RemoveDuringRun, vars
<1>3. \A kind \in Mishaps : left'[kind] <= left[kind]
  BY <1>1, <1>2 DEF Spend
<1>4. left' \in [Mishaps -> Nat]
  BY <1>1, <1>2 DEF Spend
<1>5. Unspent'
  BY <1>1, <1>3, <1>4 DEF Unspent
<1>6. \A kind \in Mishaps : Met(kind) => Met(kind)'
  BY <1>1, <1>3, <1>4 DEF Met
<1>7. ASSUME NEW kind \in Mishaps, Spend(kind)
      PROVE  Met(kind)'
  BY <1>1, <1>7 DEF Spend, Met, Unspent
<1> QED
  BY <1>5, <1>6, <1>7

-----------------------------------------------------------------------------
(* The salt: between its draw and its save it is the run's alone, and none *)
(* of its bytes are in the folder.                                         *)

SaltsWithin(S) == \A f \in drive : \A salt \in SaltsIn(f) : salt \in S

\* Salts are drawn in order, and the one a run has yet to save is the latest.
Drawn ==
  /\ state.salt <= lastSalt
  /\ SaltsWithin(1..lastSalt)
  /\ pc = "save" =>
       IF Resumes(state, stream)
         THEN stream.salt = state.salt
         ELSE /\ stream.salt = lastSalt
              /\ state.salt < lastSalt
              /\ SaltsWithin(1..(lastSalt - 1))

SaltInv == Drawn /\ SaltSavedFirst

LEMMA SaltInit == Init => SaltInv
<1> SUFFICES ASSUME Init PROVE SaltInv
  OBVIOUS
<1>1. drive = {} /\ state.salt = 0 /\ lastSalt = 0 /\ pc = "idle"
  BY DEF Init, NoState
<1> QED
  BY <1>1 DEF SaltInv, Drawn, SaltsWithin, SaltSavedFirst

\* The salt of the state file is a number, none being there counting as 0.
LEMMA StateSalt ==
  ASSUME TypeInv
  PROVE  /\ lastSalt \in Nat /\ state.salt \in Nat
         /\ state = NoState => state.salt = 0
<1>1. lastSalt \in Nat
  BY PushAssumption DEF TypeInv, StateType
<1>2. state = NoState => state.salt = 0
  BY DEF NoState
<1>3. state # NoState => state.salt \in Nat
  BY PushAssumption DEF TypeInv, StateType, Salts
<1> QED
  BY <1>1, <1>2, <1>3

\* A step that keeps the state file and brings no file keeps what the folder
\* has to do with it.
LEMMA SavedFirstKept ==
  ASSUME TypeInv, Unspent, [Next]_vars, SaltSavedFirst, state' = state, drive' \subseteq drive
  PROVE  SaltSavedFirst'
<1>1. Met("loss") => Met("loss")'
  BY MetStays, MishapKinds
<1>2. \A f : SaltsIn(f)' = SaltsIn(f)
  BY DEF SaltsIn
<1> QED
  BY <1>1, <1>2 DEF SaltSavedFirst, OneOption

\* A run begins, and has saved nothing yet.
LEMMA SaltLoad ==
  ASSUME TypeInv, SaltInv, NEW o \in Options, NEW text,
         NEW loaded, loaded = state \/ loaded = NoState, LoadState(loaded, o, text)
  PROVE  Drawn'
<1>1. /\ state' = loaded /\ drive' = drive /\ pc' = "save"
      /\ stream'.size = o.size /\ stream'.label = o.label
  BY DEF LoadState, StreamOf
<1>2. Resumes(state, stream)' <=> Resumes(loaded, o)
  BY <1>1 DEF Resumes
<1>3. lastSalt \in Nat /\ state.salt \in Nat /\ state.salt <= lastSalt
  BY StateSalt DEF SaltInv, Drawn
<1>4. \A S : SaltsWithin(S)' <=> SaltsWithin(S)
  BY <1>1 DEF SaltsWithin, SaltsIn
<1>5. SaltsWithin(1..lastSalt)
  BY DEF SaltInv, Drawn
<1>6. CASE Resumes(loaded, o)
  <2>1. loaded = state /\ stream'.salt = state.salt /\ lastSalt' = lastSalt
    BY <1>6 DEF Resumes, LoadState, StreamOf
  <2>2. SaltsWithin(1..lastSalt)'
    BY <2>1, <1>1, <1>5 DEF SaltsWithin, SaltsIn
  <2> QED
    BY <2>1, <2>2, <1>1, <1>2, <1>3, <1>6 DEF Drawn
<1>7. CASE ~Resumes(loaded, o)
  <2>1. lastSalt' = lastSalt + 1 /\ stream'.salt = lastSalt'
    BY <1>7 DEF LoadState, StreamOf
  <2>2. loaded.salt \in Nat /\ loaded.salt <= lastSalt
    BY <1>3 DEF NoState
  <2>3. 1..lastSalt \subseteq 1..lastSalt' /\ 1..(lastSalt' - 1) = 1..lastSalt
    BY <2>1, <1>3
  <2>4. SaltsWithin(1..lastSalt)' /\ SaltsWithin(1..(lastSalt - 1))'
    BY <2>3, <1>1, <1>5 DEF SaltsWithin, SaltsIn
  <2>5. state'.salt < lastSalt' /\ state'.salt <= lastSalt'
    BY <2>1, <2>2, <1>1, <1>3
  <2> QED
    BY <2>1, <2>4, <2>5, <1>1, <1>2, <1>7 DEF Drawn
<1> QED
  BY <1>6, <1>7

LEMMA SaltStart ==
  ASSUME TypeInv, Unspent, SaltInv, Start \/ StartAfresh \/ StartBreaking
  PROVE  SaltInv'
<1>1. \E o \in Options, loaded \in {state, NoState} : \E text : LoadState(loaded, o, text)
  <2>1. CASE Start
    BY <2>1 DEF Start
  <2>2. CASE StartAfresh
    BY <2>2 DEF StartAfresh
  <2>3. CASE StartBreaking
    BY <2>3 DEF StartBreaking
  <2> QED
    BY <2>1, <2>2, <2>3
<1>2. Drawn'
  BY <1>1, SaltLoad
<1>3. [Next]_vars
  BY DEF Next
<1>4. drive' = drive
  BY <1>1 DEF LoadState
<1>5. CASE StartAfresh
  <2>1. state' = NoState /\ Met("loss")'
    BY <1>3, <1>5, MetStays, MishapKinds DEF StartAfresh, LoadState
  <2> QED
    BY <2>1, <1>2 DEF SaltInv, SaltSavedFirst
<1>6. CASE Start \/ StartBreaking
  <2>1. state' = state
    BY <1>6 DEF Start, StartBreaking, LoadState
  <2> QED
    BY <2>1, <1>2, <1>3, <1>4, SavedFirstKept DEF SaltInv
<1> QED
  BY <1>5, <1>6

\* With one option a state file there is fits it.
LEMMA OneOptionResumes ==
  ASSUME TypeInv, OneOption, Running, state # NoState
  PROVE  Resumes(state, stream)
<1>1. stream \in Streams
  BY DEF TypeInv, WhereType
<1>2. PICK o \in Options : stream.size = o.size /\ stream.label = o.label
  BY <1>1 DEF Streams, StreamOf
<1>3. [size |-> state.size, label |-> state.label] \in Options
  BY DEF TypeInv, StateType
<1>4. o = [size |-> state.size, label |-> state.label]
  BY <1>2, <1>3 DEF OneOption
<1> QED
  BY <1>2, <1>4 DEF Resumes

\* The save: from here on the next run would continue with this salt.
LEMMA SaltSave ==
  ASSUME TypeInv, Unspent, SaltInv, Save
  PROVE  SaltInv'
<1>1. /\ pc = "save" /\ pc' = "list" /\ Running
      /\ UNCHANGED <<drive, stream, lastSalt, left>>
  BY DEF Save, Running
<1>2. state'.salt = stream.salt /\ state' # NoState
  <2>1. stream \in Streams
    BY <1>1 DEF TypeInv, WhereType
  <2> QED
    BY <2>1, SavedType DEF Save
<1>3. lastSalt \in Nat /\ state.salt \in Nat /\ (state = NoState => state.salt = 0)
  BY StateSalt
<1>4. SaltsWithin(1..lastSalt)' /\ (Met("loss")' <=> Met("loss"))
  BY <1>1 DEF SaltInv, Drawn, SaltsWithin, SaltsIn, Met
<1>5. state.salt <= lastSalt /\ stream.salt <= lastSalt
  BY <1>1, <1>3 DEF SaltInv, Drawn
<1>6. Drawn'
  BY <1>1, <1>2, <1>3, <1>4, <1>5 DEF Drawn
<1>7. ASSUME NEW f \in drive', NEW salt \in SaltsIn(f)'
      PROVE  /\ salt <= state'.salt
             /\ OneOption /\ ~Met("loss")' => salt = state'.salt
  <2>1. /\ f \in drive /\ salt \in SaltsIn(f) /\ salt \in 1..lastSalt
    BY <1>1, <1>7 DEF SaltsIn, SaltInv, Drawn, SaltsWithin
  <2>2. /\ salt <= state.salt \/ (state = NoState /\ Met("loss"))
        /\ OneOption /\ ~Met("loss") => salt = state.salt
    BY <2>1 DEF SaltInv, SaltSavedFirst
  <2>3. CASE Resumes(state, stream)
    <3>1. stream.salt = state.salt /\ state # NoState
      BY <1>1, <2>3 DEF SaltInv, Drawn, Resumes
    <3> QED
      BY <3>1, <2>2, <1>2, <1>4
  <2>4. CASE ~Resumes(state, stream)
    <3>1. stream.salt = lastSalt
      BY <1>1, <2>4 DEF SaltInv, Drawn
    <3>2. OneOption => state = NoState
      BY <1>1, <2>4, OneOptionResumes
    <3> QED
      BY <3>1, <3>2, <2>1, <2>2, <1>2, <1>3, <1>4
  <2> QED
    BY <2>3, <2>4
<1>8. SaltSavedFirst'
  BY <1>7 DEF SaltSavedFirst, OneOption
<1> QED
  BY <1>6, <1>8 DEF SaltInv

\* An upload brings bytes of the stream the state file names.
LEMMA SaltCreate ==
  ASSUME TypeInv, Unspent, SaltInv, Create \/ CreateUnanswered
  PROVE  SaltInv'
<1>1. /\ pc = "send" /\ pc' # "save" /\ Lands /\ Running
      /\ UNCHANGED <<state, lastSalt>>
  BY DEF Create, CreateUnanswered, Sending, Running, RetryOrGiveUp, Exit
<1>2. /\ stream \in Streams /\ [name |-> ItemName, data |-> ItemData] \in Files(stream)
  BY <1>1, ItemType
<1>3. state # NoState /\ stream.salt = state.salt
  BY <1>1 DEF TypeInv, OwnState, Begun, Resumes
<1> DEFINE free == FileIds \ (IdsOnDrive \cup IdsListed)
           new == [id |-> CHOOSE d \in free : TRUE, name |-> ItemName, data |-> ItemData]
<1>4. drive' = drive \cup {new}
  BY <1>1 DEF Lands
<1>5. new.name = ItemName /\ new.data = ItemData
  OBVIOUS
<1> HIDE DEF new
<1>6. \A salt \in SaltsIn(new) : salt = state.salt
  BY <1>2, <1>3, <1>5, FileSalts
<1>7. lastSalt \in Nat /\ state.salt \in 1..lastSalt
  BY <1>3, StateSalt DEF TypeInv, StateType, Salts, SaltInv, Drawn
<1>8. \A f : SaltsIn(f)' = SaltsIn(f)
  BY DEF SaltsIn
<1>9. SaltsWithin(1..lastSalt)'
  BY <1>1, <1>4, <1>6, <1>7, <1>8 DEF SaltInv, Drawn, SaltsWithin
<1>10. Drawn'
  BY <1>1, <1>9 DEF SaltInv, Drawn
<1>11. Met("loss") => Met("loss")'
  <2>1. [Next]_vars
    BY DEF Next, Run
  <2> QED
    BY <2>1, MetStays, MishapKinds
<1>12. ASSUME NEW f \in drive', NEW salt \in SaltsIn(f)'
       PROVE  /\ salt <= state'.salt \/ (state' = NoState /\ Met("loss")')
              /\ OneOption /\ ~Met("loss")' => salt = state'.salt
  <2>1. CASE f \in drive
    BY <1>1, <1>8, <1>11, <2>1 DEF SaltInv, SaltSavedFirst
  <2>2. CASE f = new
    BY <1>1, <1>6, <1>7, <1>8, <2>2
  <2> QED
    BY <1>4, <2>1, <2>2
<1>13. SaltSavedFirst'
  BY <1>12 DEF SaltSavedFirst, OneOption
<1> QED
  BY <1>10, <1>13 DEF SaltInv

\* Every other step brings no file, and keeps the salt of the state file.
LEMMA SaltWaits ==
  ASSUME TypeInv, Unspent, SaltInv, [Next]_vars, drive' \subseteq drive, lastSalt' = lastSalt,
         pc' # "save" \/ UNCHANGED <<pc, stream>>, state' = state
  PROVE  SaltInv'
<1>1. SaltSavedFirst'
  BY SavedFirstKept DEF SaltInv
<1>2. \A S : SaltsWithin(S) => \A f \in drive' : \A salt \in SaltsIn(f)' : salt \in S
  BY DEF SaltsWithin, SaltsIn
<1>3. SaltsWithin(1..lastSalt)'
  BY <1>2 DEF SaltInv, Drawn, SaltsWithin
<1>4. Drawn'
  <2>1. CASE pc' # "save"
    BY <1>3, <2>1 DEF SaltInv, Drawn
  <2>2. CASE UNCHANGED <<pc, stream>>
    BY <1>2, <1>3, <2>2 DEF SaltInv, Drawn, SaltsWithin, Resumes
  <2> QED
    BY <2>1, <2>2
<1> QED
  BY <1>1, <1>4 DEF SaltInv

LEMMA SaltRecord ==
  ASSUME TypeInv, Unspent, SaltInv, Record
  PROVE  SaltInv'
<1>1. /\ pc = "record" /\ pc' = "send" /\ Running
      /\ UNCHANGED <<drive, lastSalt, left>>
  BY DEF Record, Running
<1>2. state'.salt = state.salt /\ state' # NoState /\ state # NoState
  <2>1. stream \in Streams /\ state # NoState /\ state.salt = stream.salt
    BY <1>1 DEF TypeInv, WhereType, OwnState, Begun, Resumes
  <2> QED
    BY <2>1, SavedType DEF Record
<1>3. SaltSavedFirst'
  BY <1>1, <1>2 DEF SaltInv, SaltSavedFirst, SaltsIn, OneOption, Met
<1>4. Drawn'
  BY <1>1, <1>2 DEF SaltInv, Drawn, SaltsWithin, SaltsIn
<1> QED
  BY <1>3, <1>4 DEF SaltInv

LEMMA SaltNext ==
  ASSUME TypeInv, Unspent, SaltInv, [Next]_vars
  PROVE  SaltInv'
<1>1. CASE Start \/ StartAfresh \/ StartBreaking
  BY <1>1, SaltStart
<1>2. CASE Save \/ Create \/ CreateUnanswered \/ Record
  BY <1>2, SaltSave, SaltCreate, SaltRecord
<1>3. CASE \/ List \/ SkipPart \/ BuilderError \/ CreateLost \/ Delete \/ DeleteUnanswered
           \/ DeleteLost \/ DeleteNotFound \/ Refused \/ Finish
           \/ Crash \/ RemoveRemote \/ RemoveDuringRun \/ UNCHANGED vars
  <2>1. drive' \subseteq drive /\ state' = state /\ lastSalt' = lastSalt
    BY <1>3 DEF List, SkipPart, BuilderError, CreateLost, Delete, DeleteUnanswered, Deletes,
       DeleteLost, DeleteNotFound, Refused, Finish, Crash, RemoveRemote, RemoveDuringRun, vars
  <2>2. pc' # "save" \/ UNCHANGED <<pc, stream>>
    BY <1>3 DEF List, SkipPart, BuilderError, CreateLost, Delete, DeleteUnanswered,
       DeleteLost, DeleteNotFound, Refused, Finish, Crash, RemoveRemote, RemoveDuringRun,
       RetryOrGiveUp, Exit, vars
  <2> QED
    BY <2>1, <2>2, SaltWaits
<1> QED
  BY <1>1, <1>2, <1>3 DEF Next, Run

\* Wherever a run is killed, between the draw of a salt and its save too: no byte in
\* the folder is of a newer stream than the state file's, unless the work directory
\* was lost; and as long as it is kept and the options stay the same, every byte is
\* of the stream the next run will continue (cli.cmd_stream_push's first save_state).
THEOREM SaltBeforeBytes == Spec => []SaltSavedFirst
<1>1. Init => TypeInv /\ Unspent /\ SaltInv
  BY TypeInit, UnspentInit, SaltInit
<1>2. TypeInv /\ Unspent /\ SaltInv /\ [Next]_vars => (TypeInv /\ Unspent /\ SaltInv)'
  BY TypeNext, MetStays, SaltNext
<1>3. SaltInv => SaltSavedFirst
  BY DEF SaltInv
<1> QED
  BY <1>1, <1>2, <1>3, PTL DEF Spec
=============================================================================
