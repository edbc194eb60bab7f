------------------------- MODULE StreamPushRecorded -------------------------
(***************************************************************************)
(* Proof that the state file of a push never claims more than Drive holds, *)
(* for every source, even one that changes between runs, every builder     *)
(* that fails, every call that fails and every crash.                      *)
(***************************************************************************)
EXTENDS StreamPush, TLAPS

-----------------------------------------------------------------------------
(* The hypothesis and the inductive invariant.                             *)

\* Nobody but the program deletes files from the folder.
Undisturbed == Budget["removal"] = 0 /\ Budget["meddling"] = 0

Spared(budget) ==
  /\ budget \in [Mishaps -> Nat]
  /\ budget["removal"] = 0
  /\ budget["meddling"] = 0

\* It stays so, and the state file is what save_state writes.
Saved ==
  /\ Spared(left)
  /\ pc \in {"idle", "save", "list", "send", "replace", "record", "done"}
  /\ state # NoState =>
       /\ DOMAIN state.parts \subseteq Nat
       /\ \A i \in DOMAIN state.parts :
            state.parts[i].size = Len(state.parts[i].sha256)

\* Once it has saved its salt, a run is the one the state file speaks of.
Named ==
  /\ Running => index \in Nat
  /\ Running /\ pc # "save" => Resumes(state, stream)

\* An id belongs to one file of a name.
OneFilePerId ==
  \A f, g \in drive : f.name = g.name /\ f.id = g.id => f = g

\* A recorded part that the run will upload again replaces a file of another
\* size: not the one that was recorded.
ReplacesOthers ==
  pc \in {"send", "replace", "record"} =>
    \A i \in DOMAIN state.parts \ skip :
      i >= index =>
        \A f \in drive :
          (/\ f.name = PartName(stream, i)
           /\ f.name \in DOMAIN remote
           /\ f.id = remote[f.name].id)
          => Len(f.data.bytes) # state.parts[i].size

\* What is being sent is not skipped, and is there once the upload returned.
Landed ==
  pc \in {"replace", "record"} =>
    /\ AtManifest \/ index \notin skip
    /\ \E f \in drive : /\ f.name = ItemName
                        /\ f.data = ItemData
                        /\ pc = "replace" => f.id # ReplacedId
    /\ pc = "replace" => Replaces

RecordedInv ==
  Saved /\ Named /\ OneFilePerId /\ ReplacesOthers /\ Landed /\ RecordedOnDrive

-----------------------------------------------------------------------------
(* One lemma for each group of actions.                                    *)

LEMMA RecordedInit == Undisturbed => (Init => RecordedInv)
<1> SUFFICES ASSUME Undisturbed, Init PROVE RecordedInv
  OBVIOUS
<1>1. Saved
  BY PushAssumption DEF Init, Saved, Spared, Undisturbed
<1>2. Named /\ OneFilePerId /\ ReplacesOthers /\ Landed /\ RecordedOnDrive
  BY DEF Init, Named, Running, OneFilePerId, ReplacesOthers, Landed, RecordedOnDrive
<1> QED
  BY <1>1, <1>2 DEF RecordedInv

\* Spending a mishap of another kind leaves none of these two to spend.
LEMMA SpendElsewhere ==
  ASSUME Saved, NEW kind \in {"fault", "crash", "loss", "break"}, Spend(kind)
  PROVE  Spared(left)'
BY DEF Saved, Spared, Spend, Mishaps

\* A run that ends forgets all but the state file and Drive.
LEMMA RecordedExit ==
  ASSUME RecordedInv, Exit, UNCHANGED state, Spared(left)',
         OneFilePerId', RecordedOnDrive'
  PROVE  RecordedInv'
<1>1. Saved'
  BY DEF RecordedInv, Saved, Exit
<1>2. Named' /\ ReplacesOthers' /\ Landed'
  BY DEF Exit, Named, Running, ReplacesOthers, Landed
<1> QED
  BY <1>1, <1>2 DEF RecordedInv

\* What the folder holds and what the state file says of it stay the same.
LEMMA FolderKept ==
  ASSUME RecordedInv, UNCHANGED <<state, drive>>
  PROVE  OneFilePerId' /\ RecordedOnDrive'
BY DEF RecordedInv, OneFilePerId, RecordedOnDrive, OnDrive

\* Beginning a run, on the state file or on none.
LEMMA RecordedLoad ==
  ASSUME RecordedInv, NEW o, NEW text,
         NEW loaded, loaded = state \/ loaded = NoState,
         LoadState(loaded, o, text), Spared(left)'
  PROVE  RecordedInv'
<1>1. /\ drive' = drive /\ pc' = "save" /\ index' = 0 /\ skip' = {}
      /\ state' = state \/ state' = NoState
  BY DEF LoadState
<1>2. OneFilePerId' /\ ReplacesOthers' /\ Landed'
  BY <1>1 DEF RecordedInv, OneFilePerId, ReplacesOthers, Landed
<1>3. Saved' /\ Named'
  BY <1>1 DEF RecordedInv, Saved, Named
<1>4. RecordedOnDrive'
  BY <1>1, FolderKept DEF RecordedInv, RecordedOnDrive
<1> QED
  BY <1>2, <1>3, <1>4 DEF RecordedInv

LEMMA RecordedStart ==
  ASSUME RecordedInv, Start \/ StartAfresh \/ StartBreaking
  PROVE  RecordedInv'
<1>1. Spared(left)'
  BY SpendElsewhere DEF Start, StartAfresh, StartBreaking, RecordedInv, Saved
<1>2. PICK loaded \in {state, NoState}, o \in Options :
        \E text : LoadState(loaded, o, text)
  BY DEF Start, StartAfresh, StartBreaking
<1>3. PICK text : LoadState(loaded, o, text)
  BY <1>2
<1> QED
  BY <1>1, <1>3, RecordedLoad

\* The state file begun anew under the run's options, its parts kept if they are
\* the same.
LEMMA RecordedSave ==
  ASSUME RecordedInv, Save
  PROVE  RecordedInv'
<1>1. /\ pc = "save" /\ pc' = "list" /\ state' = SavedState(RecordedParts)
      /\ UNCHANGED <<drive, stream, failing, remote, skip, index, left>>
  BY DEF Save
<1>2. /\ state'.size = stream.size /\ state'.label = stream.label
      /\ state'.parts = RecordedParts
  BY <1>1 DEF SavedState
<1>3. state' # NoState
  BY <1>1 DEF SavedState, NoState
<1>4. /\ RecordedParts # << >> => /\ state # NoState /\ RecordedParts = state.parts
                                  /\ state'.label = state.label
      /\ RecordedParts = << >> => DOMAIN state'.parts = {}
  BY <1>2 DEF RecordedParts, Resumes
<1>5. Saved'
  BY <1>1, <1>2, <1>4 DEF RecordedInv, Saved
<1>6. Named'
  BY <1>1, <1>2, <1>3 DEF RecordedInv, Named, Running, Resumes
<1>7. OneFilePerId' /\ ReplacesOthers' /\ Landed'
  BY <1>1 DEF RecordedInv, OneFilePerId, ReplacesOthers, Landed
<1>8. RecordedOnDrive'
  <2>1. CASE RecordedParts = << >>
    BY <1>4, <2>1 DEF RecordedOnDrive
  <2>2. CASE RecordedParts # << >>
    BY <1>1, <1>2, <1>4, <2>2 DEF RecordedInv, RecordedOnDrive, OnDrive, PartName
  <2> QED
    BY <2>1, <2>2
<1> QED
  BY <1>5, <1>6, <1>7, <1>8 DEF RecordedInv

\* The listing: a part that is not skipped was listed with another size.
LEMMA RecordedList ==
  ASSUME RecordedInv, List
  PROVE  RecordedInv'
<1>1. /\ pc = "list" /\ pc' = "send"
      /\ UNCHANGED <<state, drive, stream, failing, index, attempt, lastSalt, left>>
  BY DEF List
<1>2. Saved' /\ Named' /\ Landed'
  BY <1>1 DEF RecordedInv, Saved, Named, Running, Resumes, Landed
<1>3. OneFilePerId' /\ RecordedOnDrive'
  BY <1>1, FolderKept
<1>4. ReplacesOthers'
  <2> SUFFICES ASSUME NEW i \in DOMAIN state.parts, i \notin skip',
                      NEW f \in drive, f.name = PartName(stream, i),
                      f.name \in DOMAIN remote', f.id = remote'[f.name].id
               PROVE  Len(f.data.bytes) # state.parts[i].size
    BY <1>1 DEF ReplacesOthers
  <2>1. PICK pick \in [NamesIn(drive) -> drive] :
          /\ \A n \in NamesIn(drive) : pick[n].name = n
          /\ remote' = [n \in NamesIn(drive) |->
                          [id |-> pick[n].id, size |-> Len(pick[n].data.bytes)]]
    BY DEF List
  <2>2. f.name \in NamesIn(drive) /\ pick[f.name] \in drive
    BY <2>1 DEF NamesIn
  <2>3. pick[f.name] = f
    BY <2>1, <2>2 DEF RecordedInv, OneFilePerId
  <2>4. remote'[PartName(stream, i)].size = Len(f.data.bytes)
    BY <2>1, <2>2, <2>3
  <2>5. remote'[PartName(stream, i)].size # state.parts[i].size
    <3>1. RecordedParts = state.parts
      BY <1>1 DEF RecordedInv, Named, Running, RecordedParts
    <3>2. skip' = {k \in DOMAIN state.parts :
                    /\ PartName(stream, k) \in DOMAIN remote'
                    /\ remote'[PartName(stream, k)].size = state.parts[k].size}
      BY <3>1 DEF List
    <3> QED
      BY <2>2, <3>2
  <2> QED
    BY <2>4, <2>5
<1> QED
  BY <1>2, <1>3, <1>4 DEF RecordedInv

\* A part that is skipped: one part fewer to come.
LEMMA RecordedSkip ==
  ASSUME RecordedInv, SkipPart
  PROVE  RecordedInv'
<1>1. /\ pc = "send" /\ pc' = pc /\ index' = index + 1
      /\ UNCHANGED <<state, drive, stream, failing, remote, skip, left>>
  BY DEF SkipPart
<1>2. index \in Nat
  BY <1>1 DEF RecordedInv, Named, Running
<1>3. Saved' /\ Named' /\ Landed'
  BY <1>1, <1>2 DEF RecordedInv, Saved, Named, Running, Resumes, Landed
<1>4. OneFilePerId' /\ RecordedOnDrive'
  BY <1>1, FolderKept
<1>5. ReplacesOthers'
  <2>1. \A i \in DOMAIN state.parts : i >= index + 1 => i >= index
    <3>1. DOMAIN state.parts \subseteq Nat
      BY <1>1 DEF RecordedInv, Saved, Named, Running, Resumes
    <3> QED
      BY <1>2, <3>1
  <2> QED
    BY <1>1, <2>1 DEF RecordedInv, ReplacesOthers
<1> QED
  BY <1>3, <1>4, <1>5 DEF RecordedInv

\* The file an upload adds: under a name and an id no other file has, and not
\* the id of the file it replaces.
LEMMA LandsAnew ==
  ASSUME RecordedInv, Lands
  PROVE  \E new : /\ drive' = drive \cup {new}
                  /\ new.name = ItemName
                  /\ new.data = ItemData
                  /\ Replaces => new.id # ReplacedId
                  /\ OneFilePerId'
<1> DEFINE free == FileIds \ (IdsOnDrive \cup IdsListed)
           d == CHOOSE x \in free : TRUE
           new == [id |-> d, name |-> ItemName, data |-> ItemData]
<1>1. free # {} /\ drive' = drive \cup {new}
  BY DEF Lands
<1>2. d \in free
  BY <1>1
<1>3. Replaces => d # ReplacedId
  BY <1>2 DEF IdsListed, ReplacedId
<1>4. new.name = ItemName /\ new.data = ItemData /\ new.id = d
  OBVIOUS
<1>5. \A f \in drive : f.name = ItemName => f.id # d
  BY <1>2 DEF IdsOnDrive
<1> HIDE DEF new, d
<1>6. OneFilePerId'
  BY <1>1, <1>4, <1>5 DEF RecordedInv, OneFilePerId
<1> QED
  BY <1>1, <1>3, <1>4, <1>6

\* More files, and the same state file: what was recorded is still there.
LEMMA RecordedGrows ==
  ASSUME RecordedOnDrive, UNCHANGED state, drive \subseteq drive'
  PROVE  RecordedOnDrive'
BY DEF RecordedOnDrive, OnDrive

\* The new file is not the one a later part replaces: it has another id.
LEMMA OthersKept ==
  ASSUME RecordedInv, Sending, Lands, pc' \in {"send", "replace", "record"},
         UNCHANGED <<state, stream, remote, skip, index>>
  PROVE  ReplacesOthers'
<1>1. PICK new : /\ drive' = drive \cup {new}
                 /\ new.name = ItemName
                 /\ Replaces => new.id # ReplacedId
  BY LandsAnew
<1>2. pc = "send"
  BY DEF Sending
<1>3. ASSUME NEW i \in DOMAIN state.parts \ skip, i >= index, NEW f \in drive',
             f.name = PartName(stream, i), f.name \in DOMAIN remote,
             f.id = remote[f.name].id
      PROVE  Len(f.data.bytes) # state.parts[i].size
  <2>1. CASE f \in drive
    BY <1>2, <1>3, <2>1 DEF RecordedInv, ReplacesOthers
  <2>2. CASE f = new
    BY <1>1, <1>3, <2>2 DEF Replaces, ReplacedId
  <2> QED
    BY <1>1, <2>1, <2>2
<1> QED
  BY <1>3 DEF ReplacesOthers

LEMMA RecordedCreate ==
  ASSUME RecordedInv, Create
  PROVE  RecordedInv'
<1>1. /\ Sending /\ Lands
      /\ pc = "send" /\ pc' = IF Replaces THEN "replace" ELSE "record"
      /\ UNCHANGED <<state, stream, failing, remote, skip, index, lastSalt, left>>
  BY DEF Create, Sending
<1>2. PICK new : /\ drive' = drive \cup {new}
                 /\ new.name = ItemName
                 /\ new.data = ItemData
                 /\ Replaces => new.id # ReplacedId
                 /\ OneFilePerId'
  BY <1>1, LandsAnew
<1>3. Saved' /\ Named'
  BY <1>1 DEF RecordedInv, Saved, Named, Running, Resumes
<1>4. RecordedOnDrive'
  BY <1>1, <1>2, RecordedGrows DEF RecordedInv
<1>5. ReplacesOthers'
  BY <1>1, OthersKept
<1>6. Landed'
  <2>1. /\ ItemName' = ItemName /\ ItemData' = ItemData /\ AtManifest' = AtManifest
        /\ Replaces' = Replaces /\ ReplacedId' = ReplacedId
    BY <1>1 DEF ItemName, ItemData, AtManifest, Replaces, ReplacedId
  <2>2. AtManifest \/ index \notin skip
    BY <1>1 DEF Sending
  <2>3. new \in drive'
    BY <1>2
  <2>4. pc' = "replace" => Replaces
    BY <1>1
  <2> QED
    BY <1>1, <1>2, <2>1, <2>2, <2>3, <2>4 DEF Landed
<1> QED
  BY <1>2, <1>3, <1>4, <1>5, <1>6 DEF RecordedInv

\* An upload that fails, whether or not the file is there after all.
LEMMA RecordedCreateFails ==
  ASSUME RecordedInv, CreateUnanswered \/ CreateLost
  PROVE  RecordedInv'
<1>1. /\ Sending /\ pc = "send" /\ RetryOrGiveUp /\ UNCHANGED state
      /\ Spend("fault")
      /\ Lands \/ drive' = drive
  BY DEF CreateUnanswered, CreateLost, Sending
<1>2. Spared(left)'
  BY <1>1, SpendElsewhere DEF RecordedInv
<1>3. OneFilePerId' /\ RecordedOnDrive'
  <2>1. CASE Lands
    BY <1>1, <2>1, LandsAnew, RecordedGrows DEF RecordedInv
  <2>2. CASE drive' = drive
    BY <1>1, <2>2, FolderKept
  <2> QED
    BY <1>1, <2>1, <2>2
<1>4. CASE Exit
  BY <1>1, <1>2, <1>3, <1>4, RecordedExit
<1>5. CASE UNCHANGED <<pc, stream, failing, remote, skip, index>>
  <2>1. Saved' /\ Named' /\ Landed'
    BY <1>1, <1>2, <1>5 DEF RecordedInv, Saved, Named, Running, Resumes, Landed
  <2>2. ReplacesOthers'
    <3>1. CASE Lands
      BY <1>1, <1>5, <3>1, OthersKept
    <3>2. CASE drive' = drive
      BY <1>1, <1>5, <3>2 DEF RecordedInv, ReplacesOthers
    <3> QED
      BY <1>1, <3>1, <3>2
  <2> QED
    BY <1>3, <2>1, <2>2 DEF RecordedInv
<1> QED
  BY <1>1, <1>4, <1>5 DEF RetryOrGiveUp

\* Two parts have the same name only if they have the same number, and the
\* manifest's name is no part's.
LEMMA ItemIsPart ==
  ASSUME NEW i, PartName(stream, i) = ItemName
  PROVE  ~AtManifest /\ i = index
<1>1. PartName(stream, i).kind = "part" /\ PartName(stream, i).index = i
  BY DEF PartName
<1>2. ~AtManifest
  BY <1>1 DEF ItemName, ManifestName
<1>3. ItemName.index = index
  BY <1>2 DEF ItemName, PartName
<1> QED
  BY <1>1, <1>2, <1>3

\* A delete takes no file away that the state file speaks of: the one of that
\* name and id was listed with another size than the recorded part's.
LEMMA DeletesOthers ==
  ASSUME RecordedInv, pc = "replace", Deletes, UNCHANGED state
  PROVE  OneFilePerId' /\ RecordedOnDrive' /\ drive' \subseteq drive
<1>1. drive' \subseteq drive
  BY DEF Deletes
<1>2. OneFilePerId'
  BY <1>1 DEF RecordedInv, OneFilePerId
<1>3. state # NoState /\ stream.label = state.label /\ index \in Nat
  BY DEF RecordedInv, Named, Running, Resumes
<1>4. ASSUME NEW i \in DOMAIN state.parts
      PROVE  \E f \in drive' :
               /\ f.name = PartName(state, i)
               /\ f.data = [bytes |-> state.parts[i].sha256, lines |-> << >>]
  <2>1. PICK f \in drive :
          /\ f.name = PartName(state, i)
          /\ f.data = [bytes |-> state.parts[i].sha256, lines |-> << >>]
    BY <1>3 DEF RecordedInv, RecordedOnDrive, OnDrive
  <2>2. f.name = PartName(stream, i)
    BY <1>3, <2>1 DEF PartName
  <2>3. Len(f.data.bytes) = state.parts[i].size
    BY <1>3, <2>1 DEF RecordedInv, Saved
  <2>4. CASE f.name = ItemName
    <3>1. ~AtManifest /\ i = index
      BY <2>2, <2>4, ItemIsPart
    <3>2. i \notin skip /\ Replaces
      BY <3>1 DEF RecordedInv, Landed
    <3>3. i \in DOMAIN state.parts \ skip /\ i >= index
      BY <1>3, <3>1, <3>2
    <3>4. f.name \in DOMAIN remote /\ remote[f.name].id = ReplacedId
      BY <2>4, <3>2 DEF Replaces, ReplacedId
    <3>5. f.id = remote[f.name].id => Len(f.data.bytes) # state.parts[i].size
      BY <2>1, <2>2, <3>3, <3>4 DEF RecordedInv, ReplacesOthers
    <3>6. f.id # ReplacedId
      BY <2>3, <3>4, <3>5
    <3> QED
      BY <2>1, <3>6 DEF Deletes
  <2>5. CASE f.name # ItemName
    BY <2>1, <2>5 DEF Deletes
  <2> QED
    BY <2>4, <2>5
<1>5. RecordedOnDrive'
  BY <1>4 DEF RecordedOnDrive, OnDrive
<1> QED
  BY <1>1, <1>2, <1>5

\* The delete done, in vain or unanswered, as long as the run goes on.
LEMMA RecordedReplace ==
  ASSUME RecordedInv, pc = "replace", pc' \in {"replace", "record"},
         UNCHANGED <<state, stream, failing, remote, skip, index>>,
         Spared(left)',
         Deletes \/ (drive' = drive /\ pc' = pc)
  PROVE  RecordedInv'
<1>1. OneFilePerId' /\ RecordedOnDrive' /\ drive' \subseteq drive
  BY DeletesOthers, FolderKept
<1>2. Saved' /\ Named'
  BY DEF RecordedInv, Saved, Named, Running, Resumes
<1>3. ReplacesOthers'
  BY <1>1 DEF RecordedInv, ReplacesOthers
<1>4. Landed'
  <2>1. /\ ItemName' = ItemName /\ ItemData' = ItemData /\ AtManifest' = AtManifest
        /\ Replaces' = Replaces /\ ReplacedId' = ReplacedId
    BY DEF ItemName, ItemData, AtManifest, Replaces, ReplacedId
  <2>2. PICK f \in drive : /\ f.name = ItemName
                           /\ f.data = ItemData
                           /\ f.id # ReplacedId
    BY DEF RecordedInv, Landed
  <2>3. f \in drive'
    BY <2>2 DEF Deletes
  <2>4. /\ AtManifest \/ index \notin skip
        /\ Replaces
    BY DEF RecordedInv, Landed
  <2> QED
    BY <2>1, <2>2, <2>3, <2>4 DEF Landed
<1> QED
  BY <1>1, <1>2, <1>3, <1>4 DEF RecordedInv

LEMMA RecordedDelete ==
  ASSUME RecordedInv, Delete \/ DeleteUnanswered \/ DeleteLost
  PROVE  RecordedInv'
<1>1. pc = "replace" /\ UNCHANGED state /\ (Deletes \/ drive' = drive)
  BY DEF Delete, DeleteUnanswered, DeleteLost
<1>2. Spared(left)'
  BY SpendElsewhere DEF Delete, DeleteUnanswered, DeleteLost, RecordedInv, Saved
<1>3. CASE Delete
  BY <1>1, <1>2, <1>3, RecordedReplace DEF Delete
<1>4. CASE RetryOrGiveUp
  <2>1. CASE Exit
    <3>1. OneFilePerId' /\ RecordedOnDrive'
      <4>1. CASE drive' = drive
        BY <1>1, <4>1, FolderKept
      <4>2. CASE Deletes
        BY <1>1, <4>2, DeletesOthers
      <4> QED
        BY <1>1, <4>1, <4>2
    <3> QED
      BY <1>1, <1>2, <2>1, <3>1, RecordedExit
  <2>2. CASE UNCHANGED <<pc, stream, failing, remote, skip, index>>
    BY <1>1, <1>2, <2>2, RecordedReplace
  <2> QED
    BY <1>4, <2>1, <2>2 DEF RetryOrGiveUp
<1> QED
  BY <1>3, <1>4 DEF DeleteUnanswered, DeleteLost

\* The record: the part it names landed, and every other one keeps its own.
LEMMA RecordedRecord ==
  ASSUME RecordedInv, Record
  PROVE  RecordedInv'
<1> DEFINE entry == [size |-> Len(ItemData.bytes), sha256 |-> ItemData.bytes]
           parts == [i \in DOMAIN state.parts \cup {index} |->
                       IF i = index THEN entry ELSE state.parts[i]]
<1>1. /\ pc = "record" /\ ~AtManifest /\ pc' = "send" /\ index' = index + 1
      /\ UNCHANGED <<drive, stream, failing, remote, skip, lastSalt, left>>
  BY DEF Record
<1>2. /\ state # NoState /\ stream.label = state.label /\ index \in Nat
      /\ RecordedParts = state.parts
  BY <1>1 DEF RecordedInv, Named, Running, Resumes, RecordedParts
<1>3. /\ DOMAIN state.parts \subseteq Nat
      /\ \A i \in DOMAIN state.parts :
           state.parts[i].size = Len(state.parts[i].sha256)
  BY <1>2 DEF RecordedInv, Saved
<1>4. entry.size = Len(entry.sha256) /\ entry.sha256 = ItemData.bytes
  OBVIOUS
<1>5. /\ state' = SavedState(parts)
      /\ state'.size = stream.size /\ state'.label = stream.label
      /\ state'.parts = parts
  <2>1. state' = SavedState(parts)
    BY <1>2 DEF Record
  <2> HIDE DEF parts
  <2> QED
    BY <2>1 DEF SavedState
<1> HIDE DEF entry
<1>6. /\ DOMAIN state'.parts = DOMAIN state.parts \cup {index}
      /\ state'.parts[index] = entry
      /\ \A i \in DOMAIN state.parts \ {index} : state'.parts[i] = state.parts[i]
  BY <1>5
<1>7. state' # NoState
  <2> SUFFICES ASSUME state' = NoState PROVE FALSE
    OBVIOUS
  <2> QED
    BY <1>5 DEF SavedState, NoState
<1>8. Saved'
  <2>1. \A i \in DOMAIN state'.parts :
          state'.parts[i].size = Len(state'.parts[i].sha256)
    BY <1>3, <1>4, <1>6
  <2> HIDE DEF parts
  <2> QED
    BY <1>1, <1>2, <1>3, <1>6, <2>1 DEF RecordedInv, Saved
<1>9. Named'
  BY <1>1, <1>2, <1>5, <1>7 DEF Named, Resumes
<1>10. OneFilePerId'
  BY <1>1 DEF RecordedInv, OneFilePerId
<1>11. ReplacesOthers'
  <2>1. ASSUME NEW i \in DOMAIN state'.parts \ skip, i >= index + 1
        PROVE  /\ i \in DOMAIN state.parts \ skip /\ i >= index
               /\ state'.parts[i] = state.parts[i]
    BY <1>2, <1>3, <1>6, <2>1
  <2> QED
    BY <1>1, <2>1 DEF RecordedInv, ReplacesOthers
<1>12. Landed'
  BY <1>1 DEF Landed
<1>13. RecordedOnDrive'
  <2>1. ASSUME NEW i \in DOMAIN state'.parts
        PROVE  \E f \in drive :
                 /\ f.name = PartName(state', i)
                 /\ f.data = [bytes |-> state'.parts[i].sha256, lines |-> << >>]
    <3>1. PartName(state', i) = PartName(state, i)
          /\ PartName(state, i) = PartName(stream, i)
      BY <1>2, <1>5 DEF PartName
    <3>2. CASE i = index
      <4>1. ItemName = PartName(stream, i) /\ ItemData = PartFile(stream, i)
        BY <1>1, <3>2 DEF ItemName, ItemData
      <4>2. ItemData = [bytes |-> entry.sha256, lines |-> << >>]
        BY <1>4, <4>1 DEF PartFile
      <4>3. PICK f \in drive : f.name = ItemName /\ f.data = ItemData
        BY <1>1 DEF RecordedInv, Landed
      <4> QED
        BY <1>6, <3>1, <3>2, <4>1, <4>2, <4>3
    <3>3. CASE i # index
      BY <1>2, <1>6, <3>1, <3>3 DEF RecordedInv, RecordedOnDrive, OnDrive
    <3> QED
      BY <3>2, <3>3
  <2> QED
    BY <1>1, <2>1 DEF RecordedOnDrive, OnDrive
<1> QED
  BY <1>8, <1>9, <1>10, <1>11, <1>12, <1>13 DEF RecordedInv

LEMMA RecordedFinish ==
  ASSUME RecordedInv, Finish
  PROVE  RecordedInv'
<1>1. /\ pc = "record" /\ pc' = "done"
      /\ UNCHANGED <<state, drive, stream, failing, remote, skip, index, left>>
  BY DEF Finish
<1>2. Saved' /\ Named' /\ ReplacesOthers' /\ Landed'
  BY <1>1 DEF RecordedInv, Saved, Named, Running, Resumes, ReplacesOthers, Landed
<1> QED
  BY <1>1, <1>2, FolderKept DEF RecordedInv

\* Every other way a run ends: the builder's error, a refused call, a 404, a kill.
LEMMA RecordedStops ==
  ASSUME RecordedInv, BuilderError \/ DeleteNotFound \/ Refused \/ Crash
  PROVE  RecordedInv'
<1>1. Exit /\ UNCHANGED <<state, drive>>
  BY DEF BuilderError, DeleteNotFound, Refused, Crash
<1>2. left' = left \/ Spend("fault") \/ Spend("crash")
  BY DEF BuilderError, DeleteNotFound, Refused, Crash
<1>3. Spared(left)'
  BY <1>2, SpendElsewhere DEF RecordedInv, Saved
<1> QED
  BY <1>1, <1>3, FolderKept, RecordedExit

LEMMA RecordedNext ==
  ASSUME RecordedInv, [Next]_vars
  PROVE  RecordedInv'
<1>1. CASE Start \/ StartAfresh \/ StartBreaking
  BY <1>1, RecordedStart
<1>2. CASE Save
  BY <1>2, RecordedSave
<1>3. CASE List
  BY <1>3, RecordedList
<1>4. CASE SkipPart
  BY <1>4, RecordedSkip
<1>5. CASE Create
  BY <1>5, RecordedCreate
<1>6. CASE CreateUnanswered \/ CreateLost
  BY <1>6, RecordedCreateFails
<1>7. CASE Delete \/ DeleteUnanswered \/ DeleteLost
  BY <1>7, RecordedDelete
<1>8. CASE Record
  BY <1>8, RecordedRecord
<1>9. CASE Finish
  BY <1>9, RecordedFinish
<1>10. CASE BuilderError \/ DeleteNotFound \/ Refused \/ Crash
  BY <1>10, RecordedStops
<1>11. CASE RemoveRemote \/ RemoveDuringRun
  BY <1>11 DEF RemoveRemote, RemoveDuringRun, Spend, RecordedInv, Saved, Spared
<1>12. CASE UNCHANGED vars
  BY <1>12 DEF vars, RecordedInv, Saved, Named, Running, Resumes, OneFilePerId, ReplacesOthers,
               Landed, ItemName, ItemData, AtManifest, Replaces, ReplacedId,
               RecordedOnDrive, OnDrive
<1> QED
  BY <1>1, <1>2, <1>3, <1>4, <1>5, <1>6, <1>7, <1>8, <1>9, <1>10, <1>11, <1>12 DEF Next, Run

-----------------------------------------------------------------------------

\* As long as only the program deletes files from the folder, every part the
\* state file records is on Drive with the bytes it records: whatever the source
\* does between runs, whichever calls and builders fail and whenever a run is
\* killed (cli.cmd_stream_push.on_part, drive.upload_one).
THEOREM StateNeverOverstates == Undisturbed => (Spec => []RecordedOnDrive)
<1> SUFFICES ASSUME Undisturbed PROVE Spec => []RecordedOnDrive
  OBVIOUS
<1>1. Init => RecordedInv
  BY RecordedInit
<1>2. RecordedInv /\ [Next]_vars => RecordedInv'
  BY RecordedNext
<1>3. RecordedInv => RecordedOnDrive
  BY DEF RecordedInv
<1> QED
  BY <1>1, <1>2, <1>3, PTL DEF Spec
=============================================================================
