----------------------------- MODULE StreamPush -----------------------------
(***************************************************************************)
(* innout push of a directory to Drive (cli.cmd_stream_push): the source   *)
(* is tarred, encrypted and cut into parts, each part is uploaded as it is *)
(* completed, and a manifest of digests is uploaded last.  A run may fail  *)
(* or be killed anywhere; the operator runs the command again, and it      *)
(* resumes from the state file in the work directory and from what Drive   *)
(* holds.                                                                  *)
(*                                                                         *)
(* One run is a sequence of Drive calls.  Every call may be answered,      *)
(* lost before or after it took effect, or refused; drive._with_retry      *)
(* repeats it.  The Drive service itself is modelled from those calls.     *)
(***************************************************************************)
EXTENDS CipherStream, FiniteSets

CONSTANTS
  Options,      \* what the command line fixes: records [size, label], the part
                \* size and the --part-suffix; the prefix, which names the state
                \* file too, is the same for all
  Sources,      \* the archives (sequences of plaintext bytes) runs may read
  MaxAttempts,  \* drive._MAX_ATTEMPTS
  FileIds,      \* tells the files of one name apart (a Drive file id is a name
                \* and one of these): bounds how many files a name may have
  MaxStreams,   \* bound: how many salts are ever drawn
  Budget        \* bounds: how often each kind of mishap happens

Mishaps == {"fault",    \* a Drive call that does not succeed
            "crash",    \* the process is killed
            "loss",     \* the work directory is gone (it is a mkdtemp by default)
            "removal",  \* between runs somebody deletes a file of the Drive folder
            "meddling", \* the same during a run
            "break"}    \* the thread that builds the tar fails

ASSUME PushAssumption ==
  /\ Options \subseteq [size: Nat \ {0}, label: STRING] /\ Options # {}
  /\ Sources # {} /\ \A text \in Sources : text \in Seq(STRING)
  /\ MaxAttempts \in Nat \ {0}
  /\ MaxStreams \in Nat \ {0}
  /\ FileIds \subseteq Nat
  /\ Budget \in [Mishaps -> Nat]

VARIABLES
  state,      \* <prefix>.push-state.json: NoState, or salt, option and parts
  drive,      \* the Drive folder: a set of files [id, name, data]
  pc,         \* where the run is; "idle" when no run is under way
  stream,     \* the run's salt and options, and the plaintext its reader yields
  failing,    \* the run's tar builder fails after that plaintext
  remote,     \* folder_contents when the run began: name -> [id, size]
  skip,       \* the parts this run will not upload
  index,      \* the part being produced; PartTotal when it is the manifest
  attempt,    \* attempts made at the current Drive call, this one included
  lastSalt,   \* the latest salt drawn
  left        \* what is left of Budget

vars == <<state, drive, pc, stream, failing, remote, skip, index, attempt,
          lastSalt, left>>

-----------------------------------------------------------------------------
(* Names, streams and parts.                                               *)

NoState == [salt |-> 0]
NoStream == [salt |-> 0]

PartName(o, i) == [label |-> o.label, kind |-> "part", index |-> i]
ManifestName(o) == [label |-> o.label, kind |-> "manifest", index |-> 0]

\* The stream a run produces from the plaintext it reads.
StreamOf(salt, o, text) ==
  [salt |-> salt, size |-> o.size, label |-> o.label, text |-> text]

Bytes(s) == Ciphertext(s.salt, s.text)
Total(s) == PartCount(Bytes(s), s.size)
PartData(s, i) == PartOf(Bytes(s), s.size, i)

\* What a file holds: the bytes of a part, or the lines of a manifest
\* (write_manifest: one per part, in the order of the parts).
PartFile(s, i) == [bytes |-> PartData(s, i), lines |-> << >>]
ManifestFile(s) ==
  [bytes |-> << >>,
   lines |-> [k \in 1..Total(s) |->
                [name |-> PartName(s, k - 1), sha256 |-> PartData(s, k - 1)]]]

\* The file the run is producing or sending: part index, or the manifest.
AtManifest == index = Total(stream)
ItemName == IF AtManifest THEN ManifestName(stream) ELSE PartName(stream, index)
ItemData == IF AtManifest THEN ManifestFile(stream) ELSE PartFile(stream, index)

\* remote.get(name): the file this upload replaces.
Replaces == ItemName \in DOMAIN remote

NamesIn(files) == {f.name : f \in files}

\* The ids of the item's name that are taken.
IdsOnDrive == {f.id : f \in {g \in drive : g.name = ItemName}}
IdsListed == IF Replaces THEN {remote[ItemName].id} ELSE {}

Spend(kind) == left[kind] > 0 /\ left' = [left EXCEPT ![kind] = @ - 1]

\* The process ends: everything but the state file and Drive is forgotten.
Exit ==
  /\ pc' = "idle"
  /\ stream' = NoStream
  /\ failing' = FALSE
  /\ remote' = << >>
  /\ skip' = {}
  /\ index' = 0
  /\ attempt' = 1

-----------------------------------------------------------------------------
(* The run.                                                                *)

Init ==
  /\ state = NoState
  /\ drive = {}
  /\ pc = "idle"
  /\ stream = NoStream
  /\ failing = FALSE
  /\ remote = << >>
  /\ skip = {}
  /\ index = 0
  /\ attempt = 1
  /\ lastSalt = 0
  /\ left = Budget

\* Mutant of Resumes: a changed part size is not noticed.
ResumesAnySize(loaded, o) == loaded # NoState /\ loaded.label = o.label

\* load_state's answer fits this run's options.
Resumes(loaded, o) ==
  /\ loaded # NoState
  /\ loaded.size = o.size
  /\ loaded.label = o.label

\* What a run remembers of earlier ones: the parts of a state file that is its own.
RecordedParts == IF Resumes(state, stream) THEN state.parts ELSE << >>

\* What _save writes.
SavedState(parts) ==
  [salt |-> stream.salt, size |-> stream.size, label |-> stream.label, parts |-> parts]

\* Load the state file, and take its salt or draw a fresh one.
LoadState(loaded, o, text) ==
  /\ IF Resumes(loaded, o)
       THEN /\ stream' = StreamOf(loaded.salt, o, text)
            /\ UNCHANGED lastSalt
       ELSE /\ lastSalt < MaxStreams
            /\ lastSalt' = lastSalt + 1
            /\ stream' = StreamOf(lastSalt', o, text)
  /\ state' = loaded
  /\ pc' = "save"
  /\ remote' = << >>
  /\ skip' = {}
  /\ index' = 0
  /\ attempt' = 1
  /\ UNCHANGED drive

AtRest == pc \in {"idle", "done"}

\* The command is run on a work directory that is still there.
Start ==
  /\ AtRest
  /\ \E o \in Options, text \in Sources :
       /\ LoadState(state, o, text)
       /\ failing' = FALSE
       /\ UNCHANGED left

\* The command is run on an empty work directory (or an unreadable state file).
StartAfresh ==
  /\ AtRest
  /\ state # NoState
  /\ Spend("loss")
  /\ \E o \in Options, text \in Sources :
       LoadState(NoState, o, text) /\ failing' = FALSE

\* A run whose tar builder fails: the pipe ends early, and the reader of the
\* pipe cannot tell that from the end of the archive.
StartBreaking ==
  /\ AtRest
  /\ Spend("break")
  /\ \E o \in Options, text \in Sources : \E n \in 0..(Len(text) - 1) :
       LoadState(state, o, SubSeq(text, 1, n)) /\ failing' = TRUE

\* Mutant of Save: the state file is written with the first part only.
SaveLater ==
  /\ pc = "save"
  /\ pc' = "list"
  /\ UNCHANGED <<state, drive, stream, failing, remote, skip, index, attempt,
                 lastSalt, left>>

\* The salt is saved before Drive is called for the first time.
Save ==
  /\ pc = "save"
  /\ state' = SavedState(RecordedParts)
  /\ pc' = "list"
  /\ UNCHANGED <<drive, stream, failing, remote, skip, index, attempt, lastSalt, left>>

\* Mutant of List: what to skip is read from the state file alone.
ListTrustingState ==
  /\ pc = "list"
  /\ \E pick \in [NamesIn(drive) -> drive] :
       /\ \A n \in NamesIn(drive) : pick[n].name = n
       /\ remote' = [n \in NamesIn(drive) |->
                       [id |-> pick[n].id, size |-> Len(pick[n].data.bytes)]]
  /\ skip' = DOMAIN RecordedParts
  /\ pc' = "send"
  /\ UNCHANGED <<state, drive, stream, failing, index, attempt, lastSalt, left>>

\* open_folder and folder_contents: of several files of one name the dict
\* keeps the one listed last, which may be any of them.
List ==
  /\ pc = "list"
  /\ \E pick \in [NamesIn(drive) -> drive] :
       /\ \A n \in NamesIn(drive) : pick[n].name = n
       /\ remote' = [n \in NamesIn(drive) |->
                       [id |-> pick[n].id, size |-> Len(pick[n].data.bytes)]]
  /\ skip' = {i \in DOMAIN RecordedParts :
                /\ PartName(stream, i) \in DOMAIN remote'
                /\ remote'[PartName(stream, i)].size = RecordedParts[i].size}
  /\ pc' = "send"
  /\ UNCHANGED <<state, drive, stream, failing, index, attempt, lastSalt, left>>

\* A part on_part returns from at once: it was hashed but not written.
SkipPart ==
  /\ pc = "send"
  /\ ~AtManifest
  /\ index \in skip
  /\ index' = index + 1
  /\ UNCHANGED <<state, drive, pc, stream, failing, remote, skip, attempt,
                 lastSalt, left>>

\* The reader is closed and the builder's error surfaces: no manifest.
BuilderError ==
  /\ pc = "send"
  /\ AtManifest
  /\ failing
  /\ Exit
  /\ UNCHANGED <<state, drive, lastSalt, left>>

-----------------------------------------------------------------------------
(* drive.upload_one: create the file, then delete the one it replaces.     *)

Sending ==
  /\ pc = "send"
  /\ IF AtManifest THEN ~failing ELSE index \notin skip

\* Drive takes the file, beside any other of its name, under an id of its own.
Lands ==
  LET free == FileIds \ (IdsOnDrive \cup IdsListed) IN
  /\ free # {}
  /\ drive' = drive \cup {[id |-> CHOOSE d \in free : TRUE,
                           name |-> ItemName, data |-> ItemData]}

\* Mutant of RetryOrGiveUp: one attempt too many.
RetryOnceMore ==
  IF attempt <= MaxAttempts
    THEN /\ attempt' = attempt + 1
         /\ UNCHANGED <<pc, stream, failing, remote, skip, index>>
    ELSE Exit

\* Mutant of RetryOrGiveUp: the last failure is swallowed.
RetryOrGoOn ==
  /\ IF attempt < MaxAttempts
       THEN attempt' = attempt + 1 /\ UNCHANGED pc
       ELSE attempt' = 1 /\ pc' = "record"
  /\ UNCHANGED <<stream, failing, remote, skip, index>>

\* _with_retry after a transient failure: again, or give up on the last attempt.
RetryOrGiveUp ==
  IF attempt < MaxAttempts
    THEN /\ attempt' = attempt + 1
         /\ UNCHANGED <<pc, stream, failing, remote, skip, index>>
    ELSE Exit

\* Mutant of Create: the file it replaces is forgotten.
CreateBeside ==
  /\ Sending
  /\ Lands
  /\ pc' = "record"
  /\ attempt' = 1
  /\ UNCHANGED <<state, stream, failing, remote, skip, index, lastSalt, left>>

Create ==
  /\ Sending
  /\ Lands
  /\ pc' = IF Replaces THEN "replace" ELSE "record"
  /\ attempt' = 1
  /\ UNCHANGED <<state, stream, failing, remote, skip, index, lastSalt, left>>

\* The file is there but the answer never came: the retry makes another one.
CreateUnanswered ==
  /\ Sending
  /\ Spend("fault")
  /\ Lands
  /\ RetryOrGiveUp
  /\ UNCHANGED <<state, lastSalt>>

CreateLost ==
  /\ Sending
  /\ Spend("fault")
  /\ RetryOrGiveUp
  /\ UNCHANGED <<state, drive, lastSalt>>

\* The id the folder listing gave for the name being replaced.
ReplacedId == remote[ItemName].id

\* Mutant of Deletes: whatever has the name goes.
DeletesByName == drive' = {f \in drive : f.name # ItemName}

Deletes == drive' = {f \in drive : f.name = ItemName => f.id # ReplacedId}

Delete ==
  /\ pc = "replace"
  /\ ReplacedId \in IdsOnDrive
  /\ Deletes
  /\ pc' = "record"
  /\ attempt' = 1
  /\ UNCHANGED <<state, stream, failing, remote, skip, index, lastSalt, left>>

DeleteUnanswered ==
  /\ pc = "replace"
  /\ ReplacedId \in IdsOnDrive
  /\ Spend("fault")
  /\ Deletes
  /\ RetryOrGiveUp
  /\ UNCHANGED <<state, lastSalt>>

DeleteLost ==
  /\ pc = "replace"
  /\ Spend("fault")
  /\ RetryOrGiveUp
  /\ UNCHANGED <<state, drive, lastSalt>>

\* Mutant of DeleteNotFound: a 404 is retried like a transient failure, for ever.
DeleteInsists ==
  pc = "replace" /\ ReplacedId \notin IdsOnDrive /\ UNCHANGED vars

\* An earlier attempt did delete it: the 404 is not transient, so it surfaces.
DeleteNotFound ==
  /\ pc = "replace"
  /\ ReplacedId \notin IdsOnDrive
  /\ Exit
  /\ UNCHANGED <<state, drive, lastSalt, left>>

\* A call of the run is answered with a failure _with_retry does not repeat.
Refused ==
  /\ pc \in {"list", "replace"} \/ Sending
  /\ Spend("fault")
  /\ Exit
  /\ UNCHANGED <<state, drive, lastSalt>>

\* The upload returned: note the part in the state file and go on.
Record ==
  /\ pc = "record"
  /\ ~AtManifest
  /\ state' = SavedState(
                 [i \in DOMAIN RecordedParts \cup {index} |->
                    IF i = index
                      THEN [size |-> Len(ItemData.bytes), sha256 |-> ItemData.bytes]
                      ELSE RecordedParts[i]])
  /\ index' = index + 1
  /\ pc' = "send"
  /\ UNCHANGED <<drive, stream, failing, remote, skip, attempt, lastSalt, left>>

\* The manifest is up: the run reports "Done".
Finish ==
  /\ pc = "record"
  /\ AtManifest
  /\ pc' = "done"
  /\ UNCHANGED <<state, drive, stream, failing, remote, skip, index, attempt,
                 lastSalt, left>>

-----------------------------------------------------------------------------
(* The environment.                                                        *)

\* The process is killed: save_state replaces the state file atomically, so
\* what it holds is the last saved state.
Crash ==
  /\ ~AtRest
  /\ Spend("crash")
  /\ Exit
  /\ UNCHANGED <<state, drive, lastSalt>>

\* Between runs somebody deletes a file of the folder: what the run before it
\* reported is no longer what the folder holds.
RemoveRemote ==
  /\ AtRest
  /\ Spend("removal")
  /\ \E f \in drive : drive' = drive \ {f}
  /\ Exit
  /\ UNCHANGED <<state, lastSalt>>

\* The same while a run goes on, which does not look at the folder again.
RemoveDuringRun ==
  /\ ~AtRest
  /\ Spend("meddling")
  /\ \E f \in drive : drive' = drive \ {f}
  /\ UNCHANGED <<state, pc, stream, failing, remote, skip, index, attempt, lastSalt>>

Run ==
  \/ Save \/ List \/ SkipPart \/ BuilderError
  \/ Create \/ CreateUnanswered \/ CreateLost
  \/ Delete \/ DeleteUnanswered \/ DeleteLost \/ DeleteNotFound \/ Refused
  \/ Record \/ Finish

Next ==
  \/ Start \/ StartAfresh \/ StartBreaking
  \/ Run
  \/ Crash \/ RemoveRemote \/ RemoveDuringRun

Spec == Init /\ [][Next]_vars

\* The process runs on while nothing stops it, and an operator whose run did
\* not finish runs the command again.
FairSpec ==
  /\ Spec
  /\ WF_vars(Run)
  /\ WF_vars(pc = "idle" /\ Start)

-----------------------------------------------------------------------------
(* What must hold.                                                         *)

Running == pc \notin {"idle"}

Salts == 1..MaxStreams

\* Every plaintext a run may read: an archive, or the front of one.
Readable == UNION {{SubSeq(t, 1, n) : n \in 0..Len(t)} : t \in Sources}

Streams == {StreamOf(s, o, t) : s \in Salts, o \in Options, t \in Readable}

Files(s) ==
  {[name |-> PartName(s, i), data |-> PartFile(s, i)] : i \in 0..(Total(s) - 1)}
    \cup {[name |-> ManifestName(s), data |-> ManifestFile(s)]}

\* The values the variables may take: what Drive holds is a part or a manifest
\* of some stream, and what the state file records is parts.
TypeOK ==
  /\ \/ state = NoState
     \/ /\ DOMAIN state = {"salt", "size", "label", "parts"}
        /\ state.salt \in Salts
        /\ [size |-> state.size, label |-> state.label] \in Options
        /\ \A i \in DOMAIN state.parts : i \in Nat /\ state.parts[i].size \in Nat
  /\ \A f \in drive :
       /\ f.id \in FileIds
       /\ \E s \in Streams : [name |-> f.name, data |-> f.data] \in Files(s)
  /\ pc \in {"idle", "save", "list", "send", "replace", "record", "done"}
  /\ stream \in Streams \cup {NoStream}
  /\ (stream = NoStream) <=> ~Running
  /\ failing \in BOOLEAN
  /\ \A n \in DOMAIN remote : remote[n].id \in FileIds /\ remote[n].size \in Nat
  /\ skip \subseteq Nat
  /\ index \in IF Running THEN 0..Total(stream) ELSE {0}
  /\ attempt \in 1..MaxAttempts
  /\ lastSalt \in 0..MaxStreams
  /\ left \in [Mishaps -> Nat]

\* A file with this name and these bytes is on Drive.
OnDrive(name, data) == \E f \in drive : f.name = name /\ f.data = data

\* A run that says "Done" leaves on Drive a manifest of the run's stream and,
\* for every line of it, a file of that name with that digest: what the pull
\* side will demand (cli.cmd_stream_push, whatever failed in earlier runs).
PublishedIntact ==
  pc = "done" =>
    /\ OnDrive(ManifestName(stream), ManifestFile(stream))
    /\ \A i \in 0..(Total(stream) - 1) :
         OnDrive(PartName(stream, i), PartFile(stream, i))

Met(kind) == left[kind] < Budget[kind]

\* What has happened so far leaves the state file and the folder in agreement:
\* no builder broke, no run had files deleted under it, and between runs files
\* were only deleted from a folder in which no interrupted run can have left a
\* second file of one name.
Undamaged ==
  /\ ~Met("break") /\ ~Met("meddling")
  /\ Met("removal") => ~Met("fault") /\ ~Met("crash")

\* Because a resumed run asks Drive what it holds, and skips a part only when
\* it is listed with the recorded size, "Done" means an intact push as well
\* after files were deleted from the folder or the work directory was lost.
PublishedUnlessDamaged == Undamaged => PublishedIntact

\* The state file never claims more than Drive has: a part it records was on
\* Drive, with those bytes, before the record was saved, and no later
\* replacement of a file takes the last such copy away.
RecordedOnDrive ==
  state # NoState =>
    \A i \in DOMAIN state.parts :
      OnDrive(PartName(state, i), [bytes |-> state.parts[i].sha256, lines |-> << >>])

SaltsIn(f) == {f.data.bytes[k][2] : k \in DOMAIN f.data.bytes}

OneOption == \A o, p \in Options : o = p

\* Wherever a run is killed, between its draw of a salt and its save too: no file
\* on Drive is of a newer stream than the state file's, and as long as the options
\* stay the same and the work directory is kept, all of them are of that stream,
\* which the next run will continue.
SaltSavedFirst ==
  \A f \in drive : \A salt \in SaltsIn(f) :
    /\ salt <= state.salt \/ (state = NoState /\ Met("loss"))
    /\ OneOption /\ ~Met("loss") => salt = state.salt

\* upload_one deletes the old file only after the new one landed: no step of
\* the program leaves a name that Drive held without any file, unless somebody
\* took the new one away in between.
NeverNeither ==
  [][\/ NamesIn(drive) \subseteq NamesIn(drive')
     \/ RemoveRemote \/ Met("meddling")']_vars

\* Every second file of a name between runs is the trace of a mishap: a lost
\* answer, or a run that died between an upload and its delete.  Runs that
\* meet no mishap leave one file per name, however often they are repeated.
DuplicatesFromMishaps ==
  AtRest =>
    Cardinality(drive) - Cardinality(NamesIn(drive)) <=
      (Budget["fault"] - left["fault"]) + (Budget["crash"] - left["crash"])

\* An operator who reruns the command until it succeeds gets there: no mishap
\* leaves the state file or Drive in a condition that stops every later run.
EventuallyDone == []<>(pc = "done")

-----------------------------------------------------------------------------
(* The push as one resumable upload, when every run reads the same archive. *)

CurrentStream ==
  StreamOf(state.salt, state, CHOOSE text \in Sources : TRUE)

Wanted == IF state = NoState THEN {} ELSE 0..(Total(CurrentStream) - 1)

Upload == INSTANCE ResumableUpload WITH
  Id <- 0..MaxStreams,
  id <- state.salt,
  wanted <- Wanted,
  landed <- {i \in Wanted :
               OnDrive(PartName(state, i), PartFile(CurrentStream, i))},
  announced <- pc = "done"

\* Across crashes, retries and reruns the push is a resumable upload: a part
\* that is on Drive stays there until a fresh stream is begun, and "Done" is
\* said only when every part is.
ImplementsUpload == Upload!Spec
=============================================================================
