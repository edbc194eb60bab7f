-------------------------- MODULE StreamPushProofs --------------------------
(***************************************************************************)
(* Proofs about StreamPush, for every part size, archive, number of        *)
(* attempts, calls that fail and crashes.                                  *)
(***************************************************************************)
EXTENDS StreamPushInvariants

-----------------------------------------------------------------------------
(* The hypothesis and the inductive invariant.                             *)

\* What cmd_stream_push takes for granted when it resumes: every run reads the
\* same archive.
OneArchive == \A t, u \in Sources : t = u

\* The part i of the stream the state file describes is in the folder.
There(i) == OnDrive(PartName(CurrentStream, i), PartFile(CurrentStream, i))

\* A run pushes the stream of its state file; before it saves, the stream the
\* state file will describe.
Follows ==
  /\ Running => index \in Nat
  /\ Begun => state # NoState /\ stream = CurrentStream
  /\ pc = "save" =>
       /\ index = 0 /\ skip = {}
       /\ stream = StreamOf(stream.salt, stream, CHOOSE text \in Sources : TRUE)
       /\ Resumes(state, stream) => stream.salt = state.salt

\* A recorded part that is not gone altogether is in the folder as that stream
\* has it: a listing that shows its name does not lie.
Recorded ==
  state # NoState =>
    \A i \in DOMAIN state.parts :
      PartName(CurrentStream, i) \in NamesIn(drive) => There(i)

\* The parts a run is past are in the folder, and those it means to skip.
Passed == Running => \A i \in (0..(index - 1)) \cup skip : There(i)

\* The new file is up before the old one is deleted, and when it is recorded.
Sent ==
  /\ pc = "replace" =>
       /\ Replaces
       /\ \E f \in drive : /\ f.name = ItemName
                           /\ f.data = ItemData
                           /\ f.id # ReplacedId
  /\ pc = "record" => OnDrive(ItemName, ItemData)
  /\ pc = "done" => AtManifest /\ OnDrive(ItemName, ItemData)

IntactInv ==
  Follows /\ Recorded /\ Passed /\ Sent

-----------------------------------------------------------------------------
(* One lemma for each group of actions.                                    *)

LEMMA IntactInit == Init => IntactInv
<1> SUFFICES ASSUME Init PROVE IntactInv
  OBVIOUS
<1>1. pc = "idle" /\ state = NoState
  BY DEF Init
<1> QED
  BY <1>1 DEF IntactInv, Follows, Recorded, Passed, Sent, Running, Begun

\* What a step that keeps the state file keeps.
LEMMA SameStream ==
  ASSUME UNCHANGED state
  PROVE  CurrentStream' = CurrentStream
BY DEF CurrentStream

\* While the state file stays and no name is new, a folder that still has the
\* parts it had has nothing to contradict the records.
LEMMA RecordedKept ==
  ASSUME Recorded, UNCHANGED state, NamesIn(drive') \subseteq NamesIn(drive),
         \A i : There(i) => There(i)'
  PROVE  Recorded'
BY SameStream DEF Recorded

LEMMA ThereKept ==
  ASSUME UNCHANGED state, drive \subseteq drive'
  PROVE  \A i : There(i) => There(i)'
BY SameStream DEF There, OnDrive

\* Nothing happens to the state file or to the folder.
LEMMA RecordedSame ==
  ASSUME Recorded, UNCHANGED <<state, drive>>
  PROVE  Recorded'
BY RecordedKept, ThereKept DEF NamesIn

\* A run that ends keeps the state file, and has nothing else to keep.
LEMMA IntactExit ==
  ASSUME Exit, Recorded'
  PROVE  IntactInv'
BY DEF Exit, IntactInv, Follows, Passed, Sent, Running, Begun

\* Beginning a run, on the stream of the state file or on a fresh one.
LEMMA IntactLoad ==
  ASSUME OneArchive, IntactInv, NEW o \in Options, NEW text \in Sources,
         NEW loaded, loaded = state \/ loaded = NoState, LoadState(loaded, o, text)
  PROVE  IntactInv'
<1>1. /\ drive' = drive /\ pc' = "save" /\ index' = 0 /\ skip' = {} /\ state' = loaded
      /\ \E salt : stream' = StreamOf(salt, o, text)
  BY DEF LoadState
<1>2. stream' = StreamOf(stream'.salt, stream', CHOOSE t \in Sources : TRUE)
  BY <1>1 DEF OneArchive, StreamOf
<1>3. Resumes(state, stream)' => stream'.salt = state'.salt
  BY <1>1 DEF LoadState, Resumes, StreamOf
<1>4. Recorded'
  <2>1. CASE loaded = state
    BY <1>1, <2>1, RecordedSame DEF IntactInv
  <2>2. CASE loaded = NoState
    BY <1>1, <2>2 DEF Recorded
  <2> QED
    BY <2>1, <2>2
<1> QED
  BY <1>1, <1>2, <1>3, <1>4 DEF IntactInv, Follows, Passed, Sent, Running, Begun

LEMMA IntactStart ==
  ASSUME OneArchive, IntactInv, Start \/ StartAfresh
  PROVE  IntactInv'
<1>1. PICK o \in Options, text \in Sources, loaded \in {state, NoState} :
        LoadState(loaded, o, text)
  BY DEF Start, StartAfresh
<1> QED
  BY <1>1, IntactLoad

\* The save: the state file is of the run's stream, and keeps the records only if
\* it was before.
LEMMA IntactSave ==
  ASSUME TypeInv, IntactInv, Save
  PROVE  IntactInv'
<1>1. /\ pc = "save" /\ pc' = "list" /\ state' = SavedState(RecordedParts)
      /\ UNCHANGED <<drive, stream, skip, index>>
  BY DEF Save
<1>2. /\ state'.salt = stream.salt /\ state'.size = stream.size
      /\ state'.label = stream.label /\ state'.parts = RecordedParts /\ state' # NoState
  <2>1. stream \in Streams
    BY <1>1 DEF TypeInv, WhereType, Running
  <2> QED
    BY <1>1, <2>1, SavedType
<1>3. /\ stream = StreamOf(stream.salt, stream, CHOOSE text \in Sources : TRUE)
      /\ index = 0 /\ skip = {}
      /\ Resumes(state, stream) => stream.salt = state.salt
  BY <1>1 DEF IntactInv, Follows
<1>4. CurrentStream' = stream
  BY <1>2, <1>3 DEF CurrentStream, StreamOf
<1>5. Recorded'
  <2>1. CASE Resumes(state, stream)
    <3>1. state # NoState /\ state'.parts = state.parts /\ CurrentStream = stream
      BY <1>2, <1>3, <2>1 DEF RecordedParts, Resumes, CurrentStream, StreamOf
    <3>2. \A i : There(i) => There(i)'
      BY <1>1, <1>4, <3>1 DEF There, OnDrive
    <3> QED
      BY <1>1, <1>4, <3>1, <3>2 DEF IntactInv, Recorded
  <2>2. CASE ~Resumes(state, stream)
    <3>1. state'.parts = << >>
      BY <1>2, <2>2 DEF RecordedParts
    <3>2. DOMAIN state'.parts = {}
      BY <3>1
    <3> QED
      BY <3>2 DEF Recorded
  <2> QED
    BY <2>1, <2>2
<1> QED
  BY <1>1, <1>2, <1>3, <1>4, <1>5 DEF IntactInv, Follows, Passed, Sent, Running, Begun

\* What is listed with the recorded size is there: a name that is listed is a
\* name in the folder.
LEMMA IntactList ==
  ASSUME TypeInv, IntactInv, List
  PROVE  IntactInv'
<1>1. /\ pc = "list" /\ pc' = "send" /\ drive' = drive /\ state' = state
      /\ stream' = stream /\ index' = index
  BY DEF List
<1>2. Recorded'
  BY <1>1, RecordedSame DEF IntactInv
<1>3. Follows'
  BY <1>1, SameStream DEF IntactInv, Follows, Running, Begun
<1>4. \A i \in skip' : There(i)
  <2>1. DOMAIN remote' = NamesIn(drive) /\ RecordedParts = state.parts /\ state # NoState
    BY <1>1, OwnParts DEF List, TypeInv, Begun
  <2>2. \A i \in skip' : i \in DOMAIN state.parts /\ PartName(stream, i) \in NamesIn(drive)
    BY <2>1 DEF List
  <2> QED
    BY <1>1, <2>1, <2>2 DEF IntactInv, Recorded, Follows, Begun
<1>5. Passed'
  <2>1. \A i \in 0..(index - 1) : There(i)
    BY <1>1 DEF IntactInv, Passed, Running
  <2>2. \A i : There(i) => There(i)'
    BY <1>1, ThereKept
  <2> QED
    BY <1>1, <1>4, <2>1, <2>2 DEF Passed
<1>6. Sent'
  BY <1>1 DEF Sent
<1> QED
  BY <1>2, <1>3, <1>5, <1>6 DEF IntactInv

LEMMA IntactSkip ==
  ASSUME IntactInv, SkipPart
  PROVE  IntactInv'
<1>1. /\ pc = "send" /\ pc' = pc /\ drive' = drive /\ state' = state
      /\ stream' = stream /\ index' = index + 1
      /\ skip' = skip /\ index \in skip
  BY DEF SkipPart
<1>2. Recorded'
  BY <1>1, RecordedSame DEF IntactInv
<1>3. Follows'
  BY <1>1, SameStream DEF IntactInv, Follows, Running, Begun
<1>4. \A i \in 0..(index' - 1) : i \in 0..(index - 1) \/ i = index
  BY <1>1 DEF IntactInv, Follows, Running
<1>5. Passed'
  BY <1>1, <1>4, ThereKept DEF IntactInv, Passed, Running
<1>6. Sent'
  BY <1>1 DEF Sent
<1> QED
  BY <1>2, <1>3, <1>5, <1>6 DEF IntactInv

\* The file an upload adds has an id of its own, and nothing else changes.
LEMMA LandsAdds ==
  ASSUME Lands
  PROVE  /\ drive \subseteq drive'
         /\ NamesIn(drive') \subseteq NamesIn(drive) \cup {ItemName}
         /\ \E f \in drive' : /\ f.name = ItemName
                              /\ f.data = ItemData
                              /\ Replaces => f.id # ReplacedId
<1> DEFINE free == FileIds \ (IdsOnDrive \cup IdsListed)
           d == CHOOSE x \in free : TRUE
           new == [id |-> d, name |-> ItemName, data |-> ItemData]
<1>1. free # {} /\ drive' = drive \cup {new}
  BY DEF Lands
<1>2. d \in free
  BY <1>1
<1>3. Replaces => d # ReplacedId
  BY <1>2 DEF IdsListed, ReplacedId
<1>4. new \in drive' /\ new.name = ItemName /\ new.data = ItemData /\ new.id = d
  BY <1>1
<1>5. drive \subseteq drive'
  BY <1>1
<1> HIDE DEF new, d
<1>6. NamesIn(drive') \subseteq NamesIn(drive) \cup {ItemName}
  BY <1>1, <1>4 DEF NamesIn
<1> QED
  BY <1>3, <1>4, <1>5, <1>6

\* Two parts of one stream have different names, and neither is the manifest's.
LEMMA ItemOfPart ==
  ASSUME NEW i, stream = CurrentStream, PartName(CurrentStream, i) = ItemName
  PROVE  PartFile(CurrentStream, i) = ItemData
<1>1. ~AtManifest
  <2> SUFFICES ASSUME AtManifest PROVE FALSE
    OBVIOUS
  <2>1. ItemName.kind = "manifest" /\ PartName(CurrentStream, i).kind = "part"
    BY DEF ItemName, ManifestName, PartName
  <2> QED
    BY <2>1
<1>2. PartName(CurrentStream, i).index = i /\ ItemName.index = index
  BY <1>1 DEF ItemName, PartName
<1> QED
  BY <1>1, <1>2 DEF ItemData

\* The only name an upload may add is the one whose bytes it brings.
LEMMA RecordedLands ==
  ASSUME IntactInv, pc = "send", Lands, UNCHANGED state
  PROVE  Recorded' /\ \A i : There(i) => There(i)'
<1>1. /\ drive \subseteq drive'
      /\ NamesIn(drive') \subseteq NamesIn(drive) \cup {ItemName}
      /\ \E f \in drive' : f.name = ItemName /\ f.data = ItemData
  BY LandsAdds
<1>2. \A i : There(i) => There(i)'
  BY <1>1, ThereKept
<1>3. stream = CurrentStream /\ CurrentStream' = CurrentStream
  BY SameStream DEF IntactInv, Follows, Begun
<1>4. ASSUME state # NoState, NEW i \in DOMAIN state.parts,
             PartName(CurrentStream, i) \in NamesIn(drive')
      PROVE  There(i)'
  <2>1. CASE PartName(CurrentStream, i) = ItemName
    <3>1. PartFile(CurrentStream, i) = ItemData
      BY <1>3, <2>1, ItemOfPart
    <3> QED
      BY <1>1, <1>3, <2>1, <3>1 DEF There, OnDrive
  <2>2. CASE PartName(CurrentStream, i) # ItemName
    BY <1>1, <1>2, <1>4, <2>2 DEF IntactInv, Recorded
  <2> QED
    BY <2>1, <2>2
<1>5. Recorded'
  BY <1>3, <1>4 DEF Recorded
<1> QED
  BY <1>2, <1>5

\* A transient failure of a call leaves the run where it was, or ends it.
LEMMA IntactRetry ==
  ASSUME IntactInv, pc = "send", RetryOrGiveUp, UNCHANGED state,
         Recorded', \A i : There(i) => There(i)'
  PROVE  IntactInv'
<1>1. CASE Exit
  BY <1>1, IntactExit
<1>2. CASE UNCHANGED <<pc, stream, failing, remote, skip, index>>
  <2>1. Sent'
    BY <1>2 DEF IntactInv, Sent
  <2>2. Follows' /\ Passed'
    BY <1>2, SameStream DEF IntactInv, Follows, Passed, Running, Begun
  <2> QED
    BY <2>1, <2>2 DEF IntactInv
<1> QED
  BY <1>1, <1>2 DEF RetryOrGiveUp

LEMMA IntactUnansweredCreate ==
  ASSUME IntactInv, CreateUnanswered \/ CreateLost
  PROVE  IntactInv'
<1>1. /\ pc = "send" /\ RetryOrGiveUp /\ UNCHANGED state
      /\ Lands \/ drive' = drive
  BY DEF CreateUnanswered, CreateLost, Sending
<1>2. Recorded' /\ \A i : There(i) => There(i)'
  <2>1. CASE Lands
    BY <1>1, <2>1, RecordedLands
  <2>2. CASE drive' = drive
    BY <1>1, <2>2, RecordedSame, ThereKept DEF IntactInv
  <2> QED
    BY <1>1, <2>1, <2>2
<1> QED
  BY <1>1, <1>2, IntactRetry

LEMMA IntactCreate ==
  ASSUME IntactInv, Create
  PROVE  IntactInv'
<1>1. /\ pc = "send" /\ pc' = IF Replaces THEN "replace" ELSE "record"
      /\ UNCHANGED <<state, stream, remote, skip, index>>
      /\ Lands
  BY DEF Create, Sending
<1> Lands
  BY <1>1
<1>3. PICK f \in drive' : /\ f.name = ItemName
                          /\ f.data = ItemData
                          /\ Replaces => f.id # ReplacedId
  BY LandsAdds
<1>4. Recorded' /\ \A i : There(i) => There(i)'
  BY <1>1, RecordedLands
<1>5. Follows' /\ Passed'
  BY <1>1, <1>4, SameStream DEF IntactInv, Follows, Passed, Running, Begun
<1>6. Sent'
  <2>1. /\ ItemName' = ItemName /\ ItemData' = ItemData
        /\ Replaces' = Replaces /\ ReplacedId' = ReplacedId
    BY <1>1 DEF ItemName, ItemData, AtManifest, Replaces, ReplacedId
  <2> QED
    BY <1>1, <1>3, <2>1 DEF Sent, OnDrive
<1> QED
  BY <1>4, <1>5, <1>6 DEF IntactInv

\* A delete takes away one file, and the run has put another like it there.
LEMMA IntactDeletes ==
  ASSUME IntactInv, pc = "replace", Deletes, UNCHANGED state
  PROVE  /\ Recorded'
         /\ \A i : There(i) => There(i)'
         /\ \E f \in drive' : /\ f.name = ItemName
                              /\ f.data = ItemData
<1>1. PICK new \in drive : /\ new.name = ItemName
                           /\ new.data = ItemData
                           /\ new.id # ReplacedId
  BY DEF IntactInv, Sent
<1>2. new \in drive'
  BY <1>1 DEF Deletes
<1>3. stream = CurrentStream /\ CurrentStream' = CurrentStream
  BY SameStream DEF IntactInv, Follows, Begun
<1>4. ASSUME NEW i, There(i)
      PROVE  There(i)'
  <2>1. CASE PartName(CurrentStream, i) = ItemName
    <3>1. PartFile(CurrentStream, i) = ItemData
      BY <1>3, <2>1, ItemOfPart
    <3> QED
      BY <1>1, <1>2, <1>3, <2>1, <3>1 DEF There, OnDrive
  <2>2. CASE PartName(CurrentStream, i) # ItemName
    <3>1. PICK f \in drive : /\ f.name = PartName(CurrentStream, i)
                             /\ f.data = PartFile(CurrentStream, i)
      BY <1>4 DEF There, OnDrive
    <3>2. f \in drive'
      BY <2>2, <3>1 DEF Deletes
    <3> QED
      BY <1>3, <3>1, <3>2 DEF There, OnDrive
  <2> QED
    BY <2>1, <2>2
<1>5. NamesIn(drive') \subseteq NamesIn(drive)
  BY DEF NamesIn, Deletes
<1>6. Recorded'
  BY <1>4, <1>5, RecordedKept DEF IntactInv
<1> QED
  BY <1>1, <1>2, <1>4, <1>6

LEMMA IntactDelete ==
  ASSUME IntactInv, Delete
  PROVE  IntactInv'
<1>1. /\ pc = "replace" /\ pc' = "record"
      /\ UNCHANGED <<state, stream, remote, skip, index>>
      /\ Deletes
  BY DEF Delete
<1> pc = "replace" /\ Deletes /\ UNCHANGED state
  BY <1>1
<1>3. Recorded' /\ \A i : There(i) => There(i)'
  BY IntactDeletes
<1>4. Follows' /\ Passed'
  BY <1>1, <1>3, SameStream DEF IntactInv, Follows, Passed, Running, Begun
<1>5. Sent'
  <2>1. ItemName' = ItemName /\ ItemData' = ItemData
    BY <1>1 DEF ItemName, ItemData, AtManifest
  <2> QED
    BY <1>1, <2>1, IntactDeletes DEF Sent, OnDrive
<1> QED
  BY <1>3, <1>4, <1>5 DEF IntactInv

\* A delete that failed, whether or not it took effect: what it took away did
\* not matter, and the new file is still there for the next attempt.
LEMMA IntactDeleteFails ==
  ASSUME IntactInv, DeleteUnanswered \/ DeleteLost
  PROVE  IntactInv'
<1> /\ pc = "replace" /\ UNCHANGED state /\ RetryOrGiveUp
    /\ Deletes \/ drive' = drive
  BY DEF DeleteUnanswered, DeleteLost
<1>1. Recorded' /\ \A i : There(i) => There(i)'
  <2>1. CASE Deletes
    BY <2>1, IntactDeletes
  <2>2. CASE drive' = drive
    BY <2>2, RecordedSame, ThereKept DEF IntactInv
  <2> QED
    BY <2>1, <2>2
<1>2. CASE Exit
  BY <1>1, <1>2, IntactExit
<1>3. CASE UNCHANGED <<pc, stream, failing, remote, skip, index>>
  <2>2. Follows' /\ Passed'
    BY <1>1, <1>3, SameStream DEF IntactInv, Follows, Passed, Running, Begun
  <2>3. /\ ItemName' = ItemName /\ ItemData' = ItemData
        /\ Replaces' = Replaces /\ ReplacedId' = ReplacedId
    BY <1>3 DEF ItemName, ItemData, AtManifest, Replaces, ReplacedId
  <2>4. PICK f \in drive : /\ f.name = ItemName
                           /\ f.data = ItemData
                           /\ f.id # ReplacedId
    BY DEF IntactInv, Sent
  <2>5. f \in drive' /\ Replaces
    BY <2>4 DEF Deletes, IntactInv, Sent
  <2>6. Sent'
    BY <1>3, <2>3, <2>4, <2>5 DEF Sent
  <2> QED
    BY <1>1, <2>2, <2>6 DEF IntactInv
<1> QED
  BY <1>2, <1>3 DEF RetryOrGiveUp

\* The record is saved: the part it names is up, and it is the next one.
LEMMA IntactRecord ==
  ASSUME TypeInv, IntactInv, Record
  PROVE  IntactInv'
<1> DEFINE entry == [size |-> Len(ItemData.bytes), sha256 |-> ItemData.bytes]
           parts == [i \in DOMAIN RecordedParts \cup {index} |->
                       IF i = index THEN entry ELSE RecordedParts[i]]
<1>1. /\ pc = "record" /\ ~AtManifest /\ pc' = "send" /\ index' = index + 1
      /\ UNCHANGED <<drive, stream, skip>>
      /\ state' = SavedState(parts)
  BY DEF Record
<1>2. /\ state # NoState /\ stream = CurrentStream /\ index \in Nat
      /\ RecordedParts = state.parts
  BY <1>1, OwnParts DEF IntactInv, Follows, Running, Begun, TypeInv
<1> HIDE DEF entry, parts
<1>3. stream \in Streams
  BY <1>1 DEF TypeInv, WhereType, Running
<1>4. /\ state'.salt = stream.salt /\ state'.size = stream.size
      /\ state'.label = stream.label /\ state'.parts = parts /\ state' # NoState
  BY <1>1, <1>3, SavedType
<1>5. DOMAIN state'.parts = DOMAIN state.parts \cup {index}
  BY <1>2, <1>4 DEF parts
<1>6. CurrentStream' = CurrentStream
  BY <1>2, <1>4 DEF CurrentStream, StreamOf
<1>9. There(index) /\ \A i : There(i) => There(i)'
  <2>1. ItemName = PartName(CurrentStream, index) /\ ItemData = PartFile(CurrentStream, index)
    BY <1>1, <1>2 DEF ItemName, ItemData
  <2>2. OnDrive(ItemName, ItemData)
    BY <1>1 DEF IntactInv, Sent
  <2> QED
    BY <1>1, <1>6, <2>1, <2>2 DEF There, OnDrive
<1>10. Recorded'
  <2>1. NamesIn(drive') = NamesIn(drive)
    BY <1>1 DEF NamesIn
  <2> QED
    BY <1>2, <1>5, <1>6, <1>9, <2>1 DEF IntactInv, Recorded
<1>11. Follows'
  BY <1>1, <1>2, <1>4, <1>6 DEF Follows, Begun
<1>12. Passed'
  <2>1. \A i \in 0..(index' - 1) : i \in 0..(index - 1) \/ i = index
    BY <1>1, <1>2
  <2> QED
    BY <1>1, <1>9, <2>1 DEF IntactInv, Passed, Running
<1>13. Sent'
  BY <1>1 DEF Sent
<1> QED
  BY <1>10, <1>11, <1>12, <1>13 DEF IntactInv

LEMMA IntactFinish ==
  ASSUME IntactInv, Finish
  PROVE  IntactInv'
<1>1. /\ pc = "record" /\ AtManifest /\ pc' = "done"
      /\ UNCHANGED <<state, drive, stream, remote, skip, index>>
  BY DEF Finish
<1>2. Recorded'
  BY <1>1, RecordedSame DEF IntactInv
<1>3. Follows' /\ Passed'
  BY <1>1, SameStream, ThereKept DEF IntactInv, Follows, Passed, Running, Begun
<1>4. ItemName' = ItemName /\ ItemData' = ItemData /\ AtManifest'
  BY <1>1 DEF ItemName, ItemData, AtManifest
<1>5. Sent'
  BY <1>1, <1>4 DEF IntactInv, Sent, OnDrive
<1> QED
  BY <1>2, <1>3, <1>5 DEF IntactInv

\* Every other way a run ends: a refused call, a 404, a kill.
LEMMA IntactStops ==
  ASSUME IntactInv, BuilderError \/ DeleteNotFound \/ Refused \/ Crash
  PROVE  IntactInv'
<1>1. Exit /\ UNCHANGED <<state, drive>>
  BY DEF BuilderError, DeleteNotFound, Refused, Crash
<1>2. Recorded'
  BY <1>1, RecordedSame DEF IntactInv
<1> QED
  BY <1>1, <1>2, IntactExit

-----------------------------------------------------------------------------
(* What may be done to the folder behind the program's back.               *)

\* When nothing was spent on faults and kills, no name has two files between runs.
LEMMA NoTwins ==
  ASSUME TypeInv, ExtraInv, Unspent, AtRest, ~Met("fault"), ~Met("crash"),
         NEW f \in drive, NEW g \in drive, f.name = g.name
  PROVE  f = g
<1>1. Spent = 0
  BY SpentType, MishapKinds DEF Met, Unspent, Spent, TypeInv
<1>2. Settled = NamesIn(drive) /\ ~Replacing
  BY DEF AtRest, Settled, Working, Replacing
<1>3. IsFiniteSet(drive) /\ Cardinality(drive) <= Cardinality(NamesIn(drive))
  BY <1>1, <1>2, ExtraType DEF ExtraInv, Allowed
<1> SUFFICES ASSUME f # g PROVE FALSE
  OBVIOUS
<1>4. NamesIn(drive \ {f}) = NamesIn(drive)
  BY DEF NamesIn
<1>5. IsFiniteSet(drive \ {f}) /\ Cardinality(drive \ {f}) = Cardinality(drive) - 1
  BY <1>3, FS_RemoveElement
<1>6. /\ Cardinality(NamesIn(drive)) <= Cardinality(drive \ {f})
      /\ Cardinality(drive) \in Nat /\ Cardinality(NamesIn(drive)) \in Nat
  BY <1>3, <1>4, <1>5, NamesFinite
<1> QED
  BY <1>3, <1>5, <1>6

\* A file deleted from a folder with one file for each name leaves none of its
\* name: what is still listed is as it was.
LEMMA IntactRemoval ==
  ASSUME TypeInv, ExtraInv, Unspent, IntactInv, RemoveRemote, Undamaged'
  PROVE  IntactInv'
<1>1. /\ AtRest /\ Exit /\ UNCHANGED <<state, lastSalt>> /\ Spend("removal")
      /\ \E f \in drive : drive' = drive \ {f}
  BY DEF RemoveRemote
<1>2. PICK gone \in drive : drive' = drive \ {gone}
  BY <1>1
<1>3. ~Met("fault") /\ ~Met("crash")
  <2>1. /\ left["removal"] \in Nat /\ Budget["removal"] \in Nat
        /\ left["removal"] <= Budget["removal"]
    BY MishapKinds, PushAssumption DEF TypeInv, LeftType, Unspent
  <2>2. left["removal"]' = left["removal"] - 1 /\ left["fault"]' = left["fault"]
        /\ left["crash"]' = left["crash"]
    BY <1>1, MishapKinds DEF TypeInv, LeftType, Spend
  <2>3. Met("removal")'
    BY <2>1, <2>2 DEF Met
  <2> QED
    BY <2>2, <2>3 DEF Undamaged, Met
<1>4. CurrentStream' = CurrentStream
  BY <1>1, SameStream
<1>5. ASSUME state # NoState, NEW i \in DOMAIN state.parts,
             PartName(CurrentStream, i) \in NamesIn(drive')
      PROVE  There(i)'
  <2>1. PICK kept \in drive' : kept.name = PartName(CurrentStream, i)
    BY <1>5 DEF NamesIn
  <2>2. kept \in drive /\ kept # gone
    BY <1>2
  <2>3. PartName(CurrentStream, i) \in NamesIn(drive)
    BY <2>1, <2>2 DEF NamesIn
  <2>4. PICK right \in drive : /\ right.name = PartName(CurrentStream, i)
                               /\ right.data = PartFile(CurrentStream, i)
    BY <1>5, <2>3 DEF IntactInv, Recorded, There, OnDrive
  <2>5. right = kept
    BY <1>1, <1>3, <2>1, <2>2, <2>4, NoTwins
  <2> QED
    BY <1>4, <2>4, <2>5 DEF There, OnDrive
<1>6. Recorded'
  BY <1>1, <1>4, <1>5 DEF Recorded
<1> QED
  BY <1>1, <1>6, IntactExit

\* No step mends what earlier ones damaged.
LEMMA DamageStays ==
  ASSUME TypeInv, Unspent, [Next]_vars
  PROVE  Unspent' /\ (Undamaged' => Undamaged)
BY MetStays, MishapKinds DEF Undamaged

PushInv == TypeInv /\ ExtraInv /\ Unspent /\ (Undamaged => IntactInv)

LEMMA PushInit == Init => PushInv
BY TypeInit, UnspentInit, ExtraInit, IntactInit DEF PushInv

LEMMA PushNext ==
  ASSUME OneArchive, PushInv, [Next]_vars
  PROVE  PushInv'
<1>1. TypeInv' /\ ExtraInv' /\ Unspent' /\ (Undamaged' => Undamaged)
  BY TypeNext, ExtraNext, DamageStays DEF PushInv
<1> SUFFICES ASSUME Undamaged' PROVE IntactInv'
  BY <1>1 DEF PushInv
<1>2. TypeInv /\ ExtraInv /\ Unspent /\ IntactInv
  BY <1>1 DEF PushInv
<1>3. CASE Start \/ StartAfresh
  BY <1>2, <1>3, IntactStart
<1>4. CASE StartBreaking \/ RemoveDuringRun
  <2>1. Met("break")' \/ Met("meddling")'
    BY <1>2, <1>4, MetStays, MishapKinds DEF StartBreaking, RemoveDuringRun, Next
  <2> QED
    BY <2>1 DEF Undamaged
<1>5. CASE Save \/ List \/ SkipPart \/ Create \/ CreateUnanswered \/ CreateLost
  BY <1>2, <1>5, IntactSave, IntactList, IntactSkip, IntactCreate, IntactUnansweredCreate
<1>6. CASE Delete \/ DeleteUnanswered \/ DeleteLost
  BY <1>2, <1>6, IntactDelete, IntactDeleteFails
<1>7. CASE Record \/ Finish \/ BuilderError \/ DeleteNotFound \/ Refused \/ Crash
  BY <1>2, <1>7, IntactRecord, IntactFinish, IntactStops
<1>8. CASE RemoveRemote
  BY <1>2, <1>8, IntactRemoval
<1>9. CASE UNCHANGED vars
  <2>1. UNCHANGED <<state, drive, pc, stream, remote, skip, index>>
    BY <1>9 DEF vars
  <2>2. /\ ItemName' = ItemName /\ ItemData' = ItemData /\ AtManifest' = AtManifest
        /\ Replaces' = Replaces /\ ReplacedId' = ReplacedId
    BY <2>1 DEF ItemName, ItemData, AtManifest, Replaces, ReplacedId
  <2>3. Recorded'
    BY <1>2, <2>1, RecordedSame DEF IntactInv
  <2>4. Follows' /\ Passed'
    BY <1>2, <2>1, SameStream, ThereKept
       DEF IntactInv, Follows, Passed, Running, Begun, Resumes
  <2>5. Sent'
    BY <1>2, <2>1, <2>2 DEF IntactInv, Sent, OnDrive
  <2> QED
    BY <2>3, <2>4, <2>5 DEF IntactInv
<1> QED
  BY <1>3, <1>4, <1>5, <1>6, <1>7, <1>8, <1>9 DEF Next, Run

LEMMA IntactPublished == IntactInv => PublishedIntact
<1> SUFFICES ASSUME IntactInv, pc = "done" PROVE PublishedIntact
  BY DEF PublishedIntact
<1>1. /\ state # NoState /\ stream = CurrentStream /\ index = Total(stream)
      /\ OnDrive(ItemName, ItemData)
  BY DEF IntactInv, Follows, Begun, Sent, AtManifest
<1>2. ItemName = ManifestName(stream) /\ ItemData = ManifestFile(stream)
  BY <1>1 DEF ItemName, ItemData, AtManifest
<1>3. \A i \in 0..(Total(stream) - 1) :
        OnDrive(PartName(stream, i), PartFile(stream, i))
  BY <1>1 DEF IntactInv, Passed, Running, There
<1> QED
  BY <1>1, <1>2, <1>3 DEF PublishedIntact

\* When every run reads the same archive: whatever calls fail, wherever runs die,
\* and also after the work directory was lost, a run that reports Done leaves an
\* intact push in the folder, as long as no builder broke and no files were deleted
\* under a run. Between runs they may have been, unless an interrupted run can have
\* left a second file of one name (cli.cmd_stream_push, drive.folder_contents).
THEOREM DoneUnlessDamaged == OneArchive => (Spec => []PublishedUnlessDamaged)
<1> SUFFICES ASSUME OneArchive PROVE Spec => []PublishedUnlessDamaged
  OBVIOUS
<1>1. Init => PushInv
  BY PushInit
<1>2. PushInv /\ [Next]_vars => PushInv'
  BY PushNext
<1>3. PushInv => PublishedUnlessDamaged
  BY IntactPublished DEF PushInv, PublishedUnlessDamaged
<1> QED
  BY <1>1, <1>2, <1>3, PTL DEF Spec

\* With nobody deleting files and no failing builder, nothing is ever damaged.
Stable ==
  /\ OneArchive
  /\ Budget["break"] = 0
  /\ Budget["removal"] = 0
  /\ Budget["meddling"] = 0

LEMMA StableUndamaged ==
  ASSUME Stable, PushInv
  PROVE  /\ Undamaged /\ IntactInv
         /\ left["break"] = 0 /\ left["removal"] = 0 /\ left["meddling"] = 0
<1>1. \A kind \in {"break", "removal", "meddling"} :
        left[kind] \in Nat /\ left[kind] <= 0
  BY MishapKinds DEF Stable, PushInv, TypeInv, LeftType, Unspent
<1>2. left["break"] = 0 /\ left["removal"] = 0 /\ left["meddling"] = 0
  BY <1>1
<1>3. Undamaged
  BY <1>2 DEF Stable, Undamaged, Met
<1> QED
  BY <1>2, <1>3 DEF PushInv

\* With a stable source, no failing builder and nobody deleting files, a run
\* that reports Done leaves an intact push on Drive, whatever calls failed and
\* whenever earlier runs died (cli.cmd_stream_push).
THEOREM DoneMeansIntact == Stable => (Spec => []PublishedIntact)
<1> SUFFICES ASSUME Stable PROVE Spec => []PublishedIntact
  OBVIOUS
<1>1. Init => PushInv
  BY PushInit
<1>2. PushInv /\ [Next]_vars => PushInv'
  BY PushNext DEF Stable
<1>3. PushInv => PublishedIntact
  BY StableUndamaged, IntactPublished
<1> QED
  BY <1>1, <1>2, <1>3, PTL DEF Spec

-----------------------------------------------------------------------------
(* upload_one's promise.                                                   *)

\* When the old file is to be deleted, another file of its name is there, unless
\* somebody took it away.
Replaced ==
  pc = "replace" /\ ~Met("meddling") => \E f \in drive : f.name = ItemName /\ f.id # ReplacedId

LEMMA ReplacedNext ==
  ASSUME TypeInv, Unspent, Replaced, [Next]_vars
  PROVE  Replaced'
<1> SUFFICES ASSUME pc' = "replace", ~Met("meddling")'
             PROVE  \E f \in drive' : f.name = ItemName' /\ f.id # ReplacedId'
  BY DEF Replaced
<1>1. ~Met("meddling") /\ ~RemoveDuringRun
  BY MetStays, MishapKinds DEF RemoveDuringRun
<1>2. CASE Create
  <2>1. Lands /\ Replaces /\ UNCHANGED <<stream, remote, index>>
    BY <1>2 DEF Create
  <2>2. ItemName' = ItemName /\ ReplacedId' = ReplacedId
    BY <2>1 DEF ItemName, AtManifest, ReplacedId
  <2> QED
    BY <2>1, <2>2, LandsAdds
<1>3. CASE DeleteUnanswered \/ DeleteLost \/ UNCHANGED vars
  <2>1. /\ pc = "replace" /\ (Deletes \/ drive' = drive)
        /\ UNCHANGED <<stream, remote, index>>
    BY <1>3 DEF DeleteUnanswered, DeleteLost, RetryOrGiveUp, Exit, vars
  <2>2. ItemName' = ItemName /\ ReplacedId' = ReplacedId
    BY <2>1 DEF ItemName, AtManifest, ReplacedId
  <2>3. PICK f \in drive : f.name = ItemName /\ f.id # ReplacedId
    BY <1>1, <2>1 DEF Replaced
  <2>4. f \in drive'
    BY <2>1, <2>3 DEF Deletes
  <2> QED
    BY <2>2, <2>3, <2>4
<1>4. CASE CreateUnanswered \/ CreateLost
  BY <1>4 DEF CreateUnanswered, CreateLost, Sending, RetryOrGiveUp, Exit
<1>5. CASE Start \/ StartAfresh \/ StartBreaking
  BY <1>5 DEF Start, StartAfresh, StartBreaking, LoadState
<1>6. CASE Save \/ List \/ SkipPart \/ Delete \/ Record \/ Finish
  BY <1>6 DEF Save, List, SkipPart, Delete, Record, Finish
<1>7. CASE BuilderError \/ DeleteNotFound \/ Refused \/ Crash \/ RemoveRemote
  BY <1>7 DEF BuilderError, DeleteNotFound, Refused, Crash, RemoveRemote, Exit
<1> QED
  BY <1>1, <1>2, <1>3, <1>4, <1>5, <1>6, <1>7 DEF Next, Run

\* No step of the program takes the last file of a name away: a replaced file
\* is deleted only while another of its name is on Drive.
LEMMA NamesKept ==
  ASSUME TypeInv, Unspent, Replaced, [Next]_vars
  PROVE  NamesIn(drive) \subseteq NamesIn(drive') \/ RemoveRemote \/ Met("meddling")'
<1> SUFFICES ASSUME ~Met("meddling")'
             PROVE  NamesIn(drive) \subseteq NamesIn(drive') \/ RemoveRemote
  OBVIOUS
<1>5. ~Met("meddling") /\ ~RemoveDuringRun
  BY MetStays, MishapKinds DEF RemoveDuringRun
<1>1. CASE Delete \/ DeleteUnanswered
  <2>1. pc = "replace" /\ Deletes
    BY <1>1 DEF Delete, DeleteUnanswered
  <2>2. PICK new \in drive : new.name = ItemName /\ new.id # ReplacedId
    BY <1>5, <2>1 DEF Replaced
  <2>3. ASSUME NEW f \in drive
        PROVE  \E g \in drive' : g.name = f.name
    <3>1. new \in drive'
      BY <2>1, <2>2 DEF Deletes
    <3>2. f.name # ItemName => f \in drive'
      BY <2>1 DEF Deletes
    <3> QED
      BY <2>2, <3>1, <3>2
  <2> QED
    BY <2>3 DEF NamesIn
<1>2. CASE Create \/ CreateUnanswered
  <2>1. Lands
    BY <1>2 DEF Create, CreateUnanswered
  <2> QED
    BY <2>1, LandsAdds DEF NamesIn
<1>3. CASE drive' = drive \/ RemoveRemote
  BY <1>3 DEF NamesIn
<1>4. Next => \/ drive' = drive \/ RemoveRemote \/ RemoveDuringRun
              \/ Create \/ CreateUnanswered \/ Delete \/ DeleteUnanswered
  BY DEF Next, Run, Start, StartAfresh, StartBreaking, LoadState, Save, List,
         SkipPart, BuilderError, CreateLost, DeleteLost, DeleteNotFound,
         Refused, Record, Finish, Crash
<1> QED
  BY <1>1, <1>2, <1>3, <1>4, <1>5 DEF vars

\* A failure between upload_one's two calls never leaves Drive with neither copy:
\* every name the folder held it still holds after any step of a run, unless
\* somebody took the new file away before the old one was deleted.
THEOREM UploadBeforeDelete == Spec => NeverNeither
<1>1. Init => TypeInv /\ Unspent /\ Replaced
  BY TypeInit, UnspentInit DEF Init, Replaced
<1>2. TypeInv /\ Unspent /\ Replaced /\ [Next]_vars => (TypeInv /\ Unspent /\ Replaced)'
  BY TypeNext, MetStays, ReplacedNext
<1>3. TypeInv /\ Unspent /\ Replaced /\ [Next]_vars =>
        [\/ NamesIn(drive) \subseteq NamesIn(drive')
         \/ RemoveRemote \/ Met("meddling")']_vars
  BY NamesKept
<1> QED
  BY <1>1, <1>2, <1>3, PTL DEF Spec, NeverNeither

-----------------------------------------------------------------------------
(* The push implements ResumableUpload.                                    *)

UploadInv == PushInv /\ TypeInv /\ IntactInv /\ SaltInv

\* The part i of the stream being pushed is in the folder.
Arrived(i) == OnDrive(PartName(state, i), PartFile(CurrentStream, i))

LEMMA UploadInit == Init => UploadInv
<1> SUFFICES ASSUME Init PROVE UploadInv
  OBVIOUS
<1>1. PushInv /\ TypeInv /\ IntactInv /\ SaltInv
  BY PushInit, TypeInit, IntactInit, SaltInit
<1> QED
  BY <1>1 DEF UploadInv

LEMMA UploadStep ==
  ASSUME Stable, UploadInv, [Next]_vars
  PROVE  UploadInv'
<1>1. PushInv' /\ TypeInv' /\ SaltInv'
  BY PushNext, TypeNext, SaltNext DEF UploadInv, PushInv, Stable
<1>2. \A kind \in {"break", "removal", "meddling"} :
        left'[kind] \in Nat /\ left'[kind] <= 0
  BY <1>1, MishapKinds DEF Stable, TypeInv, LeftType, PushInv, Unspent
<1>3. Undamaged'
  BY <1>2 DEF Stable, Undamaged, Met
<1> QED
  BY <1>1, <1>3 DEF UploadInv, PushInv

\* A stream has at least one part, no part is empty, and a part begins with a
\* byte encrypted under the stream's salt.
LEMMA PartBegins ==
  ASSUME NEW s \in Streams
  PROVE  /\ Total(s) \in Nat \ {0}
         /\ \A i \in 0..(Total(s) - 1) :
              1 \in DOMAIN PartData(s, i) /\ PartData(s, i)[1][2] = s.salt
<1>1. PICK o \in Options, text \in Readable :
        s.size = o.size /\ s.text = text /\ s.salt \in Salts
  BY DEF Streams, StreamOf
<1>2. s.size \in Nat \ {0} /\ s.text \in Seq(STRING)
  BY <1>1, PushAssumption, ReadableType
<1>3. PICK z \in Nat : z = s.size /\ z # 0
  BY <1>2
<1>4. PICK Any : Bytes(s) \in Seq(Any)
  BY BytesSalt
<1>5. PICK n \in Nat : n = Len(Bytes(s))
  BY <1>4
<1>6. n > 0 /\ \A k \in 1..n : Bytes(s)[k][2] = s.salt
  BY <1>5, BytesSalt
<1>7. PICK m \in Nat : m = (n + z - 1) \div z /\ m = Total(s)
  BY <1>2, <1>3, <1>5, PartType DEF Total, PartCount
<1>8. m * z <= n + z - 1 /\ n + z - 1 < m * z + z
  BY <1>3, <1>6, <1>7
<1>9. m # 0
  BY <1>3, <1>6, <1>8
<1>10. ASSUME NEW i \in 0..(m - 1)
       PROVE  1 \in DOMAIN PartData(s, i) /\ PartData(s, i)[1][2] = s.salt
  <2>1. PICK from \in Nat : from = i * z
    BY <1>3
  <2>2. (i + 1) * z = from + z /\ from + z <= m * z
    BY <1>3, <2>1
  <2>3. from + 1 \in 1..n
    BY <2>1, <2>2, <1>3, <1>8
  <2>4. PICK to \in Nat : to = IF from + z < n THEN from + z ELSE n
    BY <1>3, <2>1
  <2>5. PartData(s, i) = SubSeq(Bytes(s), from + 1, to)
    BY <1>3, <1>5, <2>1, <2>2, <2>4 DEF PartData, PartOf
  <2>6. from + 1 <= to /\ to <= n
    BY <1>3, <2>3, <2>4
  <2>7. Len(SubSeq(Bytes(s), from + 1, to)) >= 1
        /\ SubSeq(Bytes(s), from + 1, to)[1] = Bytes(s)[from + 1]
        /\ SubSeq(Bytes(s), from + 1, to) \in Seq(Any)
    BY <1>4, <1>5, <2>1, <2>3, <2>6
  <2> QED
    BY <2>3, <2>5, <2>7, <1>6
<1> QED
  BY <1>7, <1>9, <1>10

LEMMA InStreams ==
  ASSUME NEW salt \in Salts, NEW opt \in Options, NEW text \in Readable
  PROVE  StreamOf(salt, opt, text) \in Streams
<1>1. PICK now : now = StreamOf(salt, opt, text)
  OBVIOUS
<1>2. now \in Streams
  BY <1>1, PushAssumption DEF Streams, StreamOf, Salts
<1> QED
  BY <1>1, <1>2

\* The stream of a state file that is well formed is one of the streams runs push.
LEMMA StateStream ==
  ASSUME NEW st, st.salt \in Salts, [size |-> st.size, label |-> st.label] \in Options,
         NEW now, now = StreamOf(st.salt, st, CHOOSE text \in Sources : TRUE)
  PROVE  now \in Streams /\ now.salt = st.salt /\ Total(now) \in Nat \ {0}
<1>1. PICK opt \in Options : st.size = opt.size /\ st.label = opt.label
  OBVIOUS
<1>2. PICK archive \in Sources : archive = CHOOSE text \in Sources : TRUE
  BY PushAssumption
<1>3. archive \in Readable
  BY <1>2, ReadableType
<1>4. now = StreamOf(st.salt, opt, archive)
  BY <1>1, <1>2 DEF StreamOf
<1>5. now \in Streams
  BY <1>3, <1>4, InStreams
<1>6. now.salt = st.salt
  BY <1>4 DEF StreamOf
<1> QED
  BY <1>5, <1>6, PartBegins

\* What the refinement calls the stream is one of them, before a step and after.
LEMMA CurrentType ==
  ASSUME UploadInv, state # NoState
  PROVE  /\ CurrentStream \in Streams /\ CurrentStream.salt = state.salt
         /\ Total(CurrentStream) \in Nat \ {0}
BY StateStream DEF UploadInv, TypeInv, StateType, CurrentStream

LEMMA CurrentTypeNext ==
  ASSUME UploadInv', state' # NoState
  PROVE  /\ CurrentStream' \in Streams /\ CurrentStream'.salt = state'.salt
         /\ Total(CurrentStream)' \in Nat \ {0}
BY StateStream DEF UploadInv, TypeInv, StateType, CurrentStream

\* A step that keeps the folder and the stream, and neither announces nor takes
\* an announcement back, is no step of the upload.
LEMMA SameUpload ==
  ASSUME state'.salt = state.salt, state' = NoState <=> state = NoState,
         CurrentStream' = CurrentStream,
         \A i : PartName(state, i)' = PartName(state, i),
         \A i \in Wanted : Arrived(i)' <=> Arrived(i),
         (pc' = "done") <=> (pc = "done")
  PROVE  UNCHANGED Upload!vars
<1>1. Wanted' = Wanted
  BY DEF Wanted
<1>2. {i \in Wanted : Arrived(i)}' = {i \in Wanted : Arrived(i)}
  BY <1>1
<1> QED
  BY <1>1, <1>2 DEF Upload!vars, Arrived

\* No file of the folder passes for a part of a stream under a fresh salt.
LEMMA FreshSalt ==
  ASSUME UploadInv, pc = "save", ~Resumes(state, stream),
         NEW s \in Streams, s.salt = stream.salt,
         NEW i \in 0..(Total(s) - 1), NEW f \in drive,
         f.data = PartFile(s, i)
  PROVE  FALSE
<1>1. /\ 1 \in DOMAIN PartData(s, i) /\ PartData(s, i)[1][2] = s.salt
      /\ f.data.bytes = PartData(s, i)
  BY PartBegins DEF PartFile
<1>2. s.salt \in SaltsIn(f)
  BY <1>1 DEF SaltsIn
<1>3. stream.salt = lastSalt /\ s.salt \in 1..(lastSalt - 1) /\ lastSalt \in Nat
  BY <1>2, StateSalt DEF UploadInv, SaltInv, Drawn, SaltsWithin
<1> QED
  BY <1>3

\* A run begins on the stream of the run before, or the record of it is lost.
LEMMA UploadStart ==
  ASSUME UploadInv, AtRest, NEW o, NEW text,
         NEW loaded, loaded = state \/ loaded = NoState, LoadState(loaded, o, text)
  PROVE  [Upload!Next]_(Upload!vars)
<1>1. drive' = drive /\ pc' = "save" /\ state' = loaded
  BY DEF LoadState
<1>2. CASE loaded = state
  <2>1. /\ CurrentStream' = CurrentStream /\ Wanted' = Wanted
        /\ \A i : PartName(state, i)' = PartName(state, i)
        /\ \A i : Arrived(i)' <=> Arrived(i)
    BY <1>1, <1>2 DEF CurrentStream, Wanted, Arrived, OnDrive
  <2>2. CASE pc = "done"
    <3>1. {i \in Wanted : Arrived(i)}' = {i \in Wanted : Arrived(i)}
      BY <2>1
    <3> QED
      BY <1>1, <1>2, <2>1, <2>2, <3>1 DEF Upload!Next, Upload!Rerun, Arrived
  <2>3. CASE pc # "done"
    BY <1>1, <1>2, <2>1, <2>3, SameUpload
  <2> QED
    BY <2>2, <2>3
<1>3. CASE loaded = NoState /\ state # NoState
  <2>1. Wanted' = {} /\ {i \in Wanted : Arrived(i)}' = {}
    BY <1>1, <1>3 DEF Wanted
  <2>2. state'.salt = 0 /\ state.salt \in Nat \ {0} /\ 0 \in 0..MaxStreams
    BY <1>1, <1>3, PushAssumption DEF NoState, UploadInv, TypeInv, StateType, Salts
  <2> QED
    BY <1>1, <2>1, <2>2 DEF Upload!Next, Upload!Begin, Arrived
<1> QED
  BY <1>2, <1>3

\* The save: the push goes on, or begins again as a stream of which nothing has
\* arrived.
LEMMA UploadSave ==
  ASSUME UploadInv, UploadInv', Save
  PROVE  [Upload!Next]_(Upload!vars)
<1>1. /\ pc = "save" /\ pc' = "list" /\ UNCHANGED <<drive, stream>>
      /\ stream \in Streams
      /\ stream = StreamOf(stream.salt, stream, CHOOSE text \in Sources : TRUE)
      /\ Resumes(state, stream) => stream.salt = state.salt
  BY DEF Save, UploadInv, TypeInv, WhereType, Running, IntactInv, Follows
<1>2. /\ state'.salt = stream.salt /\ state'.size = stream.size
      /\ state'.label = stream.label /\ state' # NoState
  BY <1>1, SavedType DEF Save
<1>3. CurrentStream' = stream
  BY <1>1, <1>2 DEF CurrentStream, StreamOf
<1>4. CASE Resumes(state, stream)
  <2>1. /\ state # NoState /\ state'.salt = state.salt /\ CurrentStream' = CurrentStream
        /\ \A i : PartName(state, i)' = PartName(state, i)
    BY <1>1, <1>2, <1>3, <1>4 DEF Resumes, CurrentStream, StreamOf, PartName
  <2>2. \A i : Arrived(i)' <=> Arrived(i)
    BY <1>1, <2>1 DEF Arrived, OnDrive
  <2> QED
    BY <1>1, <1>2, <2>1, <2>2, SameUpload
<1>5. CASE ~Resumes(state, stream)
  <2>1. /\ state.salt \in Nat /\ state.salt < stream.salt
        /\ stream.salt \in Nat /\ stream.salt <= MaxStreams
    BY <1>1, <1>5, StateSalt, PushAssumption
       DEF UploadInv, SaltInv, Drawn, TypeInv, StateType
  <2>2. state'.salt \in (0..MaxStreams) \ {state.salt}
    BY <1>2, <2>1, PushAssumption
  <2>3. Total(stream) \in Nat \ {0} /\ Total(CurrentStream)' = Total(stream)
    BY <1>1, <1>3, PartBegins DEF Total, Bytes
  <2>4. Wanted' = 0..(Total(stream) - 1)
    BY <1>2, <2>3, Zenon DEF Wanted
  <2>5. Wanted' \in SUBSET Nat
    BY <2>3, <2>4
  <2>6. {i \in Wanted : Arrived(i)}' = {}
    <3> SUFFICES ASSUME NEW i \in Wanted', Arrived(i)'
                 PROVE  FALSE
      OBVIOUS
    <3>1. PICK f \in drive : f.data = PartFile(stream, i)
      BY <1>1, <1>3 DEF Arrived, OnDrive, PartFile, PartData, Bytes
    <3> QED
      BY <1>1, <1>5, <2>4, <3>1, FreshSalt
  <2> QED
    BY <1>1, <2>2, <2>5, <2>6 DEF Upload!Next, Upload!Begin, Arrived
<1> QED
  BY <1>4, <1>5

\* A file lands: a part that was missing, one that was there, or the manifest.
LEMMA UploadLands ==
  ASSUME UploadInv, pc = "send", pc' # "done", Lands, state' = state
  PROVE  [Upload!Next]_(Upload!vars)
<1>1. /\ state # NoState /\ stream = CurrentStream /\ stream \in Streams
      /\ index \in 0..Total(stream)
  BY DEF UploadInv, TypeInv, WhereType, IntactInv, Follows, Running, Begun
<1>2. /\ CurrentStream' = CurrentStream /\ Wanted' = Wanted
      /\ Wanted = 0..(Total(stream) - 1)
      /\ \A i : PartName(state, i)' = PartName(state, i)
  BY <1>1 DEF CurrentStream, Wanted
<1>3. \A i : PartName(state, i) = PartName(stream, i)
  BY <1>1 DEF CurrentStream, StreamOf, PartName
<1>4. \A i : Arrived(i) => Arrived(i)'
  BY <1>2, LandsAdds DEF Arrived, OnDrive
<1>5. ASSUME NEW i, Arrived(i)', ~Arrived(i)
      PROVE  ~AtManifest /\ i = index
  <2> DEFINE free == FileIds \ (IdsOnDrive \cup IdsListed)
             new == [id |-> CHOOSE d \in free : TRUE, name |-> ItemName, data |-> ItemData]
  <2>1. drive' = drive \cup {new}
    BY DEF Lands
  <2>2. new.name = ItemName
    OBVIOUS
  <2> HIDE DEF new
  <2>3. ItemName = PartName(stream, i)
    BY <1>2, <1>3, <1>5, <2>1, <2>2 DEF Arrived, OnDrive
  <2>4. ItemName.kind = "part" /\ ItemName.index = i
    BY <2>3 DEF PartName
  <2>5. ~AtManifest
    BY <2>4 DEF ItemName, ManifestName
  <2> QED
    BY <2>4, <2>5 DEF ItemName, PartName
<1>6. CASE \A i \in Wanted : Arrived(i)' <=> Arrived(i)
  BY <1>2, <1>6, SameUpload
<1>7. CASE \E i \in Wanted : ~(Arrived(i)' <=> Arrived(i))
  <2>1. PICK j \in Wanted : Arrived(j)' /\ ~Arrived(j)
    BY <1>4, <1>7
  <2>2. {i \in Wanted : Arrived(i)}' = {i \in Wanted : Arrived(i)} \cup {j}
    <3>1. \A i : Arrived(i)' => Arrived(i) \/ i = j
      BY <1>5, <2>1
    <3> QED
      BY <1>2, <1>4, <2>1, <3>1
  <2>3. j \in Wanted \ {i \in Wanted : Arrived(i)}
    BY <2>1
  <2>4. ~(pc = "done") /\ ~(pc' = "done")
    OBVIOUS
  <2> QED
    BY <1>2, <2>2, <2>3, <2>4 DEF Upload!Next, Upload!Land, Arrived
<1> QED
  BY <1>6, <1>7

\* The file that goes is not the last copy of a part that has arrived.
LEMMA UploadDeletes ==
  ASSUME UploadInv, pc = "replace", pc' # "done", Deletes, state' = state
  PROVE  UNCHANGED Upload!vars
<1>1. /\ state # NoState /\ stream = CurrentStream
  BY DEF UploadInv, IntactInv, Follows, Begun
<1>2. CurrentStream' = CurrentStream /\ \A i : PartName(state, i)' = PartName(state, i)
  BY DEF CurrentStream
<1>3. \A i : PartName(state, i) = PartName(CurrentStream, i)
  BY <1>1 DEF CurrentStream, StreamOf, PartName
<1>4. \A i : Arrived(i)' => Arrived(i)
  BY <1>2 DEF Arrived, OnDrive, Deletes
<1>5. PICK kept \in drive : kept.name = ItemName /\ kept.data = ItemData /\ kept.id # ReplacedId
  BY DEF UploadInv, IntactInv, Sent
<1>6. kept \in drive'
  BY <1>5 DEF Deletes
<1>7. ASSUME NEW i, Arrived(i)
      PROVE  Arrived(i)'
  <2>1. PICK f \in drive : /\ f.name = PartName(CurrentStream, i)
                           /\ f.data = PartFile(CurrentStream, i)
    BY <1>3, <1>7 DEF Arrived, OnDrive
  <2>2. CASE f \in drive'
    BY <2>1, <2>2, <1>2, <1>3 DEF Arrived, OnDrive
  <2>3. CASE f \notin drive'
    <3>1. PartName(CurrentStream, i) = ItemName
      BY <2>1, <2>3 DEF Deletes
    <3>2. PartFile(CurrentStream, i) = ItemData
      BY <3>1, <1>1, ItemOfPart
    <3> QED
      BY <3>1, <3>2, <1>2, <1>3, <1>5, <1>6 DEF Arrived, OnDrive
  <2> QED
    BY <2>2, <2>3
<1> QED
  BY <1>2, <1>4, <1>7, SameUpload

\* Nothing is recorded, uploaded or deleted, or a part that has arrived is recorded.
LEMMA UploadWaits ==
  ASSUME UploadInv, drive' = drive, (pc' = "done") <=> (pc = "done"),
         state' = state \/ Record
  PROVE  UNCHANGED Upload!vars
<1>1. /\ state'.salt = state.salt /\ (state' = NoState <=> state = NoState)
      /\ state'.size = state.size /\ state'.label = state.label
  <2>1. CASE state' = state
    BY <2>1
  <2>2. CASE Record
    <3>1. /\ stream \in Streams /\ state # NoState /\ state.salt = stream.salt
          /\ state.size = stream.size /\ state.label = stream.label
      BY <2>2 DEF Record, UploadInv, TypeInv, WhereType, Running, OwnState, Begun, Resumes
    <3> QED
      BY <3>1, <2>2, SavedType DEF Record
  <2> QED
    BY <2>1, <2>2
<1>2. CurrentStream' = CurrentStream
  BY <1>1 DEF CurrentStream, StreamOf
<1>3. \A i : PartName(state, i)' = PartName(state, i)
  BY <1>1 DEF PartName
<1>4. \A i : Arrived(i)' <=> Arrived(i)
  BY <1>2, <1>3 DEF Arrived, OnDrive
<1> QED
  BY <1>1, <1>2, <1>3, <1>4, SameUpload

\* Done is reported with every part in the folder.
LEMMA UploadFinish ==
  ASSUME UploadInv, UploadInv', Finish
  PROVE  [Upload!Next]_(Upload!vars)
<1>1. /\ pc = "record" /\ pc' = "done" /\ index = Total(stream)
      /\ state' = state /\ drive' = drive
  BY DEF Finish, AtManifest
<1>2. /\ state # NoState /\ stream = CurrentStream
      /\ \A i \in 0..(index - 1) : There(i)
  BY <1>1 DEF UploadInv, IntactInv, Follows, Passed, Running, Begun
<1>3. Total(CurrentStream) \in Nat \ {0} /\ Wanted = 0..(Total(CurrentStream) - 1)
  BY <1>2, CurrentType DEF Wanted
<1>4. \A i : PartName(state, i) = PartName(CurrentStream, i)
  BY DEF CurrentStream, StreamOf, PartName
<1>5. \A i \in Wanted : Arrived(i)
  BY <1>1, <1>2, <1>3, <1>4 DEF Arrived, There
<1>6. 0 \in Wanted
  BY <1>3
<1>7. /\ CurrentStream' = CurrentStream /\ Wanted' = Wanted
      /\ \A i : PartName(state, i)' = PartName(state, i)
      /\ \A i : Arrived(i)' <=> Arrived(i)
  BY <1>1 DEF CurrentStream, Wanted, Arrived, OnDrive
<1>8. {i \in Wanted : Arrived(i)} = Wanted /\ {i \in Wanted : Arrived(i)}' = Wanted
  BY <1>5, <1>7
<1> QED
  BY <1>1, <1>6, <1>7, <1>8 DEF Upload!Next, Upload!Announce, Arrived

LEMMA UploadNext ==
  ASSUME Stable, UploadInv, [Next]_vars
  PROVE  [Upload!Next]_(Upload!vars)
<1>1. UploadInv'
  BY UploadStep
<1>2. CASE Start \/ StartAfresh
  <2>1. PICK o \in Options, text \in Sources, loaded \in {state, NoState} :
          AtRest /\ LoadState(loaded, o, text)
    BY <1>2 DEF Start, StartAfresh
  <2> QED
    BY <2>1, UploadStart
<1>3. CASE StartBreaking \/ RemoveRemote \/ RemoveDuringRun
  BY <1>3, StableUndamaged
     DEF StartBreaking, RemoveRemote, RemoveDuringRun, Spend, UploadInv
<1>8. CASE Save
  BY <1>1, <1>8, UploadSave
<1>4. CASE Create \/ CreateUnanswered
  BY <1>4, UploadLands DEF Create, CreateUnanswered, Sending, RetryOrGiveUp, Exit
<1>5. CASE Delete \/ DeleteUnanswered
  BY <1>5, UploadDeletes DEF Delete, DeleteUnanswered, RetryOrGiveUp, Exit
<1>6. CASE Finish
  BY <1>1, <1>6, UploadFinish
<1>7. CASE \/ List \/ SkipPart \/ BuilderError \/ CreateLost \/ DeleteLost
           \/ DeleteNotFound \/ Refused \/ Record \/ Crash \/ UNCHANGED vars
  <2>1. /\ drive' = drive /\ (pc' = "done" <=> pc = "done")
        /\ state' = state \/ Record
    BY <1>7 DEF List, SkipPart, BuilderError, CreateLost, DeleteLost, DeleteNotFound,
       Refused, Record, Crash, Sending, RetryOrGiveUp, Exit, AtRest, vars
  <2> QED
    BY <2>1, UploadWaits
<1> QED
  BY <1>2, <1>3, <1>4, <1>5, <1>6, <1>7, <1>8 DEF Next, Run

\* With a stable source, no failing builder and nobody deleting files, the push is
\* a resumable upload, whatever calls fail and whenever runs die: parts arrive one at
\* a time and stay, and "Done" is said when all of a stream's are there.
THEOREM PushIsResumable == Stable => (Spec => ImplementsUpload)
<1> SUFFICES ASSUME Stable PROVE Spec => ImplementsUpload
  OBVIOUS
<1>1. Init => UploadInv
  BY UploadInit
<1>2. UploadInv /\ [Next]_vars => UploadInv'
  BY UploadStep
<1>3. Init => Upload!Init
  <2> SUFFICES ASSUME Init PROVE Upload!Init
    OBVIOUS
  <2>1. state = NoState /\ state.salt = 0 /\ pc = "idle" /\ Wanted = {}
    BY DEF Init, NoState, Wanted
  <2>2. 0 \in 0..MaxStreams
    BY PushAssumption
  <2> QED
    BY <2>1, <2>2 DEF Upload!Init
<1>4. UploadInv /\ [Next]_vars => [Upload!Next]_(Upload!vars)
  BY UploadNext
<1> QED
  BY <1>1, <1>2, <1>3, <1>4, PTL DEF Spec, ImplementsUpload, Upload!Spec
=============================================================================
