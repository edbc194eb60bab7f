--------------------------- MODULE StagedTransfer ---------------------------
(***************************************************************************)
(* Single files through a Drive folder, staged on disk.  innout push       *)
(* (cli.cmd_push) encrypts a file, splits it into chunks named after a     *)
(* session id, and uploads them; innout pull --drive (cli.cmd_pull) lists  *)
(* the folder, downloads, joins and decrypts the chunks of one session,    *)
(* and moves the result into the output directory.                         *)
(*                                                                         *)
(* Pushes and pulls are processes that meet only in the folder and in the  *)
(* output directory; any of them may run at the same time.  A transient    *)
(* failure of a Drive call without effect is retried and changes nothing;  *)
(* the last of drive._MAX_ATTEMPTS, or one that is not transient, stops    *)
(* the process, as a kill does.                                            *)
(***************************************************************************)
EXTENDS StreamDecryptor, FiniteSets, FiniteSetsExt, SequencesExt

CONSTANTS
  Jobs,       \* the pushes, the session id being the place in the sequence:
              \* [text, size], the file's bytes and --chunk-size
  Pulls,      \* the pulls, all into one output directory
  FolderIds,  \* bound: the folders of the path ever made
  Residue,    \* 0 or 1: files of the folder without ".part" in their name, such
              \* as the manifest of a streaming push
  Limit,      \* chunk numbers have one digit more from here on (1000)
  Base,       \* and this is the base of the digits (10)
  Budgets     \* bounds: the mishaps a behaviour may draw on, one record each

Mishaps == {"unanswered",  \* a create that Drive carried out and that is repeated
            "broken",      \* a download that breaks off in a file
            "stop"}        \* a process fails for good, or is killed

ASSUME StagedAssumption ==
  /\ Jobs \in Seq([text: Seq(STRING), size: Nat \ {0}])
  /\ Residue \in {0, 1}
  /\ Limit \in Nat /\ Base \in Nat \ {0, 1} /\ Limit >= Base
  /\ Budgets \subseteq [Mishaps -> Nat] /\ Budgets # {}

VARIABLES
  folders,  \* the folders that have the path
  drive,    \* the files in them: [folder, session, index, copy]
  push,     \* session -> [at, folder, next]
  pull,     \* pull -> where it is and what it has fetched
  output,   \* the output directory: name -> [text, wrapped, whole, by]
  left      \* what is left of the budget

vars == <<folders, drive, push, pull, output, left>>

Sessions == DOMAIN Jobs
None == 0

-----------------------------------------------------------------------------
(* Chunks.                                                                 *)

\* encrypt_stream, and the files split_file cuts it into.
Encrypted(s) == Ciphertext(s, Jobs[s].text)
ChunkCount(s) == PartCount(Encrypted(s), Jobs[s].size)

\* A name is a session and a chunk number; None stands for a name without ".part".
NameOf(f) == [session |-> f.session, index |-> f.index]
ChunkNames(s) == {[session |-> s, index |-> i] : i \in 0..(ChunkCount(s) - 1)}

DataOf(name) ==
  IF name.session = None
    THEN << <<"manifest", None, 1, << >> >> >>
    ELSE PartOf(Encrypted(name.session), Jobs[name.session].size, name.index)

\* Names compare as strings, and a number of one digit more as its front: with
\* three digits and then four, 1000 comes between 100 and 101.
NameKey(name) ==
  IF name.index < Limit THEN <<name.session, name.index, -1>>
  ELSE <<name.session, name.index \div Base, name.index % Base>>

KeyBefore(a, b) ==
  \E k \in 1..3 : a[k] < b[k] /\ \A j \in 1..(k - 1) : a[j] = b[j]

\* The order of the listing; two files of one name come in either.
Before(f, g) ==
  \/ KeyBefore(NameKey(f), NameKey(g))
  \/ NameKey(f) = NameKey(g) /\ f.copy < g.copy

Place(files, f) == Cardinality({g \in files : Before(g, f)})

\* download_from_drive's answer: the names of the files, in their order.  One
\* that is there twice is listed twice, and was downloaded into one local file.
Sorted(files) ==
  [k \in 1..Cardinality(files) |->
     NameOf(CHOOSE f \in files : Place(files, f) = k - 1)]

-----------------------------------------------------------------------------
(* What finalize_output makes of a blob: its first byte stands for what     *)
(* _is_gzip and tarfile find in it.                                         *)

Kind(text) == IF text = << >> THEN "data" ELSE text[1]
IsGzip(text) == Kind(text) \in {"gzip", "tgz"}

\* A compressed tar is a tar to is_tarfile, but _safe_top_name opens it as an
\* uncompressed one and finds no name in it.
Stem(text, wrapped) ==
  IF Kind(text) \notin {"tar", "tgz"} THEN "result"
  ELSE IF wrapped THEN "result.tar" ELSE "top.tar"

\* Mutant of Unclaimed: what is there already is not looked at.
UnclaimedAnyway(stem) == [stem |-> stem, n |-> 0]

\* _unclaimed: the first of result, result-1, result-2, ... that is free.
Unclaimed(stem) ==
  [stem |-> stem,
   n |-> Min({n \in 0..Cardinality(DOMAIN output) :
                [stem |-> stem, n |-> n] \notin DOMAIN output})]

-----------------------------------------------------------------------------

Spend(kind) == left[kind] > 0 /\ left' = [left EXCEPT ![kind] = @ - 1]

NewPush == [at |-> "start", folder |-> None, next |-> 0]

\* raced is history: another pull had picked the same name and not used it yet.
NewPull ==
  [at |-> "idle", session |-> None, right |-> TRUE, folder |-> None,
   items |-> << >>, local |-> << >>, partial |-> << >>,
   blob |-> << >>, wrapped |-> FALSE, name |-> [stem |-> "", n |-> 0],
   raced |-> FALSE]

OldName == [stem |-> "result", n |-> 0]
OldFile == [text |-> <<"old">>, wrapped |-> FALSE, whole |-> TRUE, by |-> None]

ResidueIn(f) ==
  IF Residue = 0 THEN {}
  ELSE {[folder |-> f, session |-> None, index |-> 0, copy |-> 0]}

\* The folder is new, or an earlier push has made it; a file called result is
\* in the output directory.
Init ==
  /\ \/ folders = {} /\ drive = {}
     \/ \E f \in FolderIds : folders = {f} /\ drive = ResidueIn(f)
  /\ push = [s \in Sessions |-> NewPush]
  /\ pull = [q \in Pulls |-> NewPull]
  /\ output = [n \in {OldName} |-> OldFile]
  /\ left \in Budgets

-----------------------------------------------------------------------------
(* innout push, for session s.                                             *)

PushAt(s, where) == push[s].at = where

\* _find_child_folder: the first the listing gives, of several any.
FindFolder(s) ==
  /\ PushAt(s, "start")
  /\ IF folders = {}
       THEN push' = [push EXCEPT ![s].at = "create"]
       ELSE \E f \in folders :
              push' = [push EXCEPT ![s].at = "upload", ![s].folder = f]
  /\ UNCHANGED <<folders, drive, pull, output, left>>

\* _get_or_create_folder has found none, and makes one.
CreateFolder(s) ==
  /\ PushAt(s, "create")
  /\ \E f \in FolderIds \ folders :
       /\ folders' = folders \cup {f}
       /\ push' = [push EXCEPT ![s].at = "upload", ![s].folder = f]
  /\ UNCHANGED <<drive, pull, output, left>>

Chunk(s) ==
  LET same == {f \in drive : f.session = s /\ f.index = push[s].next} IN
  [folder |-> push[s].folder, session |-> s, index |-> push[s].next,
   copy |-> Cardinality(same)]

\* Mutant of Upload: one chunk too many is asked for.
UploadBeyond(s) ==
  /\ PushAt(s, "upload")
  /\ drive' = drive \cup {Chunk(s)}
  /\ push' = [push EXCEPT ![s].next = @ + 1,
                          ![s].at = IF push[s].next < ChunkCount(s)
                                      THEN "upload" ELSE "done"]
  /\ UNCHANGED <<folders, pull, output, left>>

\* One chunk after the other; "Done" after the last.
Upload(s) ==
  /\ PushAt(s, "upload")
  /\ drive' = drive \cup {Chunk(s)}
  /\ push' = [push EXCEPT ![s].next = @ + 1,
                          ![s].at = IF push[s].next + 1 < ChunkCount(s)
                                      THEN "upload" ELSE "done"]
  /\ UNCHANGED <<folders, pull, output, left>>

\* The chunk is there but its answer never came: it is sent again.
UploadUnanswered(s) ==
  /\ PushAt(s, "upload")
  /\ Spend("unanswered")
  /\ drive' = drive \cup {Chunk(s)}
  /\ UNCHANGED <<folders, push, pull, output>>

\* The push fails or is killed: what it has uploaded stays.  A creation of the
\* folder may have been carried out: it is not retried (drive.py:223).
StopPush(s) ==
  /\ push[s].at \in {"start", "create", "upload"}
  /\ Spend("stop")
  /\ push' = [push EXCEPT ![s].at = "stopped"]
  /\ \/ UNCHANGED folders
     \/ PushAt(s, "create") /\ \E f \in FolderIds : folders' = folders \cup {f}
  /\ UNCHANGED <<drive, pull, output>>

PushStep(s) ==
  FindFolder(s) \/ CreateFolder(s) \/ Upload(s) \/ UploadUnanswered(s) \/ StopPush(s)

-----------------------------------------------------------------------------
(* innout pull --drive, for the pull q.                                    *)

PullAt(q, where) == pull[q].at = where

\* The command line gives a session id or none, and a passphrase; the folder is
\* resolved, and must exist.
BeginPull(q) ==
  /\ PullAt(q, "idle")
  /\ \E s \in Sessions \cup {None}, right \in BOOLEAN :
       IF folders = {}
         THEN pull' = [pull EXCEPT ![q].at = "unfound", ![q].session = s,
                                   ![q].right = right]
         ELSE \E f \in folders :
                pull' = [pull EXCEPT ![q].at = "list", ![q].session = s,
                                     ![q].right = right, ![q].folder = f]
  /\ UNCHANGED <<folders, drive, push, output, left>>

Listed(q) == {f \in drive : f.folder = pull[q].folder}
SessionsIn(files) == {f.session : f \in files} \ {None}

\* Mutant of Selected: a folder of several pushes is refused in any case.
SelectedStrictly(q) ==
  IF Cardinality(SessionsIn(Listed(q))) > 1 THEN {}
  ELSE {f \in Listed(q) : pull[q].session \in {f.session, None}}

\* The files of the session asked for, or all files when they are of one push.
Selected(q) ==
  IF pull[q].session # None
    THEN {f \in Listed(q) : f.session = pull[q].session}
    ELSE IF Cardinality(SessionsIn(Listed(q))) > 1 THEN {} ELSE Listed(q)

\* The folder's files are listed; it is an error if nothing is selected, or if
\* the folder holds several pushes and none was asked for.
List(q) ==
  /\ PullAt(q, "list")
  /\ pull' = [pull EXCEPT ![q].at = IF Selected(q) = {} THEN "unfound" ELSE "fetch",
                          ![q].items = Sorted(Selected(q))]
  /\ UNCHANGED <<folders, drive, push, output, left>>

\* The file being downloaded.
Wanted(q) == DataOf(pull[q].items[Len(pull[q].local) + 1])
Fetching(q) == PullAt(q, "fetch") /\ Len(pull[q].local) < Len(pull[q].items)

\* Mutant of Fetch: a retry goes on in the file the last attempt has left.
FetchOnward(q) ==
  /\ Fetching(q)
  /\ pull' = [pull EXCEPT ![q].local = Append(@, pull[q].partial \o Wanted(q)),
                          ![q].partial = << >>]
  /\ UNCHANGED <<folders, drive, push, output, left>>

\* _download opens the file anew, which empties it, and writes all of it.
Fetch(q) ==
  /\ Fetching(q)
  /\ pull' = [pull EXCEPT ![q].local = Append(@, Wanted(q)), ![q].partial = << >>]
  /\ UNCHANGED <<folders, drive, push, output, left>>

\* The connection breaks off, and _with_retry calls _download again.
FetchBreaks(q) ==
  /\ Fetching(q)
  /\ Spend("broken")
  /\ \E n \in 0..Len(Wanted(q)) :
       pull' = [pull EXCEPT ![q].partial = SubSeq(Wanted(q), 1, n)]
  /\ UNCHANGED <<folders, drive, push, output>>

\* What decrypt_stream has read when it comes to the tag.
Decrypted(q) == Update(NewDecryptor, FlattenSeq(pull[q].local))

\* Mutant of Authentic: finalize() is not called.
AuthenticUnasked(q) == pull[q].right /\ Len(Decrypted(q).head) = HeaderSize

Authentic(q) == Verifies(Decrypted(q), pull[q].right)

\* join_files and decrypt_stream: the blob is kept only if its tag verifies.
JoinAndDecrypt(q) ==
  /\ PullAt(q, "fetch")
  /\ Len(pull[q].local) = Len(pull[q].items)
  /\ pull' = [pull EXCEPT
       ![q].at = IF Authentic(q) THEN "finalize" ELSE "invalid",
       ![q].blob = IF Authentic(q) THEN Plain(Decrypted(q), pull[q].right) ELSE << >>,
       ![q].local = << >>]
  /\ UNCHANGED <<folders, drive, push, output, left>>

\* finalize_output picks a name for the blob, gzip data unwrapped or not.
Pick(q, wrapped) ==
  LET name == Unclaimed(Stem(pull[q].blob, wrapped))
      rivals == {r \in Pulls \ {q} : pull[r].at = "move" /\ pull[r].name = name}
  IN pull' = [r \in Pulls |->
       IF r = q THEN [pull[q] EXCEPT !.at = "move", !.name = name,
                                     !.wrapped = wrapped, !.raced = rivals # {}]
       ELSE IF r \in rivals THEN [pull[r] EXCEPT !.raced = TRUE] ELSE pull[r]]

PickName(q) ==
  /\ PullAt(q, "finalize")
  /\ Pick(q, FALSE)
  /\ UNCHANGED <<folders, drive, push, output, left>>

\* gzip.open raises an OSError, which a full disk is too: the blob stays as it is.
PickNameWrapped(q) ==
  /\ PullAt(q, "finalize")
  /\ IsGzip(pull[q].blob)
  /\ Spend("stop")
  /\ Pick(q, TRUE)
  /\ UNCHANGED <<folders, drive, push, output>>

WritesOutput(q, whole) ==
  output' = [n \in DOMAIN output \cup {pull[q].name} |->
    IF n = pull[q].name
      THEN [text |-> pull[q].blob, wrapped |-> pull[q].wrapped,
            whole |-> whole, by |-> q]
      ELSE output[n]]

\* shutil.move within a file system: one rename, over whatever has the name.
Move(q) ==
  /\ PullAt(q, "move")
  /\ WritesOutput(q, TRUE)
  /\ pull' = [pull EXCEPT ![q].at = "done"]
  /\ UNCHANGED <<folders, drive, push, left>>

\* shutil.move into another file system: a copy, under the final name.
StartCopy(q) ==
  /\ PullAt(q, "move")
  /\ WritesOutput(q, FALSE)
  /\ pull' = [pull EXCEPT ![q].at = "copy"]
  /\ UNCHANGED <<folders, drive, push, left>>

\* Two pulls that copy into one file leave a mixture.
EndCopy(q) ==
  /\ PullAt(q, "copy")
  /\ LET n == pull[q].name IN
     WritesOutput(q, /\ output[n].by = q
                     /\ \A r \in Pulls \ {q} : PullAt(r, "copy") => pull[r].name # n)
  /\ pull' = [pull EXCEPT ![q].at = "done"]
  /\ UNCHANGED <<folders, drive, push, left>>

\* The pull fails or is killed; a copy under way stays where it is.
StopPull(q) ==
  /\ pull[q].at \in {"list", "fetch", "finalize", "move", "copy"}
  /\ Spend("stop")
  /\ pull' = [pull EXCEPT ![q].at = "stopped"]
  /\ UNCHANGED <<folders, drive, push, output>>

PullStep(q) ==
  \/ BeginPull(q) \/ List(q) \/ Fetch(q) \/ FetchBreaks(q) \/ JoinAndDecrypt(q)
  \/ PickName(q) \/ PickNameWrapped(q) \/ Move(q) \/ StartCopy(q) \/ EndCopy(q)
  \/ StopPull(q)

Next == (\E s \in Sessions : PushStep(s)) \/ (\E q \in Pulls : PullStep(q))

Spec == Init /\ [][Next]_vars

-----------------------------------------------------------------------------
(* What must hold.                                                         *)

TypeOK ==
  /\ folders \subseteq FolderIds
  /\ \A f \in drive :
       /\ f.folder \in folders
       /\ f.session = None \/ NameOf(f) \in ChunkNames(f.session)
       /\ f.copy \in Nat
  /\ \A s \in Sessions :
       /\ push[s].at \in {"start", "create", "upload", "done", "stopped"}
       /\ push[s].folder \in folders \cup {None}
       /\ push[s].next \in 0..ChunkCount(s)
  /\ \A q \in Pulls :
       /\ pull[q].at \in {"idle", "list", "fetch", "finalize", "move", "copy",
                          "done", "unfound", "invalid", "stopped"}
       /\ pull[q].session \in Sessions \cup {None}
       /\ Len(pull[q].local) <= Len(pull[q].items)
       /\ pull[q].at = "done" => pull[q].name \in DOMAIN output
  /\ OldName \in DOMAIN output
  /\ left \in [Mishaps -> Nat]

\* Two pulls picked one name for their outputs at the same time.
Raced(n) == \E q \in Pulls : pull[q].name = n /\ pull[q].raced

\* A pull that says "Done" has put into the output directory the whole of a file
\* that was pushed, under the session asked for, whatever else is in the folder,
\* and however far the pushes and the downloads were when it listed them
\* (cli.cmd_pull).  Pulls that raced for one output name are excepted.
DoneMeansRestored ==
  \A q \in Pulls : PullAt(q, "done") /\ ~Raced(pull[q].name) =>
    \E s \in Sessions :
      /\ pull[q].session \in {s, None}
      /\ output[pull[q].name] = [text |-> Jobs[s].text, wrapped |-> pull[q].wrapped,
                                 whole |-> TRUE, by |-> q]

\* The pull was given each chunk of one push, once.
WholeListing(q) ==
  \E s \in Sessions :
    /\ ToSet(pull[q].items) = ChunkNames(s)
    /\ Len(pull[q].items) = ChunkCount(s)

\* What lists whole decrypts: a pull of every chunk of one push, with its
\* passphrase, is never turned down at the tag, so the order the names sort in
\* is the order the chunks were cut in (download_from_drive's docstring:
\* "sorted by name (preserves chunk order)").
WholeListingDecrypts ==
  \A q \in Pulls : PullAt(q, "invalid") => ~(WholeListing(q) /\ pull[q].right)

\* A push that said "Done" is found by its session id, whatever other pushes and
\* stopped ones left in the folder, unless two pushes each made the folder.
FoundWhenPushed ==
  [][\A q \in Pulls, s \in Sessions :
       /\ PullAt(q, "list") /\ pull[q].session = s
       /\ PushAt(s, "done") /\ Cardinality(folders) = 1
       /\ pull'[q].at = "unfound"
       => FALSE]_vars

\* "Existing files are never overwritten" (finalize_output): a whole file of the
\* output directory never changes, unless two pulls raced for its name.
ExistingKept ==
  [][\A n \in DOMAIN output :
       output[n].whole => (output'[n] = output[n] \/ Raced(n))]_vars
=============================================================================
