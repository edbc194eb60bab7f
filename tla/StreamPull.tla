------------------------------ MODULE StreamPull ------------------------------
(***************************************************************************)
(* innout pull --from-dir (cli._pull_from_dir): the parts somebody         *)
(* downloaded by hand are checked against the manifest, decrypted in       *)
(* order, and either written to a file (.innout-incoming, which            *)
(* unpack.finalize_output then names) or, with --extract, pushed by a      *)
(* feeder thread through a pipe to tarfile (stream.plaintext_stream).      *)
(*                                                                         *)
(* Plaintext is counted in tar blocks: an archive is its content followed  *)
(* by zero blocks up to a whole number of records.  Its content holds no   *)
(* Zero.  A digest in the manifest is modelled by the bytes it digests.    *)
(***************************************************************************)
EXTENDS StreamDecryptor, FiniteSets

CONSTANTS
  Pushes,       \* pushes: records [label, salt, text, size]; label is the
                \* prefix and suffix of the part names
  Downloads,    \* what the directory may hold at first: records [files, manifest]
  Anything,     \* the value of --part-prefix and --part-suffix when not given
  BlockSize,    \* stream.BLOCK_SIZE
  WriteBuffer,  \* what the pipe's buffered writer may keep back
  PipeSize,     \* what the pipe holds
  Record,       \* tarfile.RECORDSIZE
  Budgets       \* bounds: the mishaps a behaviour may meet, one record each

Zero == "0"

Mishaps == {"refusal",   \* the disk is full, or tarfile rejects a member
            "crash",     \* the process is killed
            "download"}  \* somebody downloads a part (again) between runs

ASSUME PullAssumption ==
  /\ Pushes \subseteq [label: STRING, salt: Nat \ {0}, text: Seq(STRING),
                       size: Nat \ {0}]
  /\ \A p, q \in Pushes : p.label = q.label => p = q
  /\ \A p \in Pushes :
       /\ p.label # Anything /\ p.text # << >>
       /\ \A k \in 1..Len(p.text) : p.text[k] # Garbage
  /\ BlockSize \in Nat \ {0} /\ PipeSize \in Nat \ {0} /\ Record \in Nat \ {0}
  /\ WriteBuffer \in Nat
  /\ Budgets \subseteq [Mishaps -> Nat] /\ Budgets # {}

VARIABLES
  dir,       \* the part files of from_dir: name -> bytes
  manifest,  \* the digests of the manifest found there: name -> bytes; or empty
  opt,       \* the run's options: [only, extract, delete, right]
  pc,        \* the main thread
  parts,     \* find_parts' answer: the names, in join order
  at,        \* iter_plaintext: which of them is being read,
  offset,    \*   and how much of it has been
  dec,       \* its StreamDecryptor
  blob,      \* what has been written to .innout-incoming
  placed,    \* whether output_dir has a .innout-incoming
  feeder,    \* the feeder thread
  pend,      \* plaintext its buffered writer has not put into the pipe
  pipe,      \* plaintext in the pipe
  taken,     \* plaintext tarfile has read from it
  goal,      \* how much it wants before it looks at what it has
  bailed,    \* tarfile, or the disk, raised
  met        \* the mishaps met so far: kind -> how often

vars == <<dir, manifest, opt, pc, parts, at, offset, dec, blob, placed, feeder,
          pend, pipe, taken, goal, bailed, met>>
reading == <<parts, at, offset, dec>>
extracting == <<feeder, pend, pipe, taken, goal, bailed>>

-----------------------------------------------------------------------------
(* Names, parts and archives.                                              *)

Bytes(p) == Ciphertext(p.salt, p.text)
PartName(p, i) == [label |-> p.label, index |-> i]

\* What encrypt_to_parts made of a push; also what its manifest says.
PartFiles(p) ==
  [n \in {PartName(p, i) : i \in 0..(PartCount(Bytes(p), p.size) - 1)} |->
     PartOf(Bytes(p), p.size, n.index)]

\* What the directory holds are files of bytes, named as parts of the pushes; a
\* byte may be damaged.
Byte == {"header", "body", "tag", "bad"} \X Nat \X Nat \X Seq(STRING)

ASSUME DownloadAssumption ==
  \A d \in Downloads : \A n \in DOMAIN d.files :
    /\ \E p \in Pushes : n \in DOMAIN PartFiles(p)
    /\ d.files[n] \in Seq(Byte)

PushOf(label) == CHOOSE p \in Pushes : p.label = label

SeesEnd(text) == \E k \in DOMAIN text : text[k] = Zero

\* What tarfile has of an archive it has read this much of: all up to the
\* first zero block.
Content(text) ==
  SubSeq(text, 1, CHOOSE n \in 0..Len(text) :
                    /\ n < Len(text) => text[n + 1] = Zero
                    /\ \A j \in 1..n : text[j] # Zero)

Options == [only: {Anything} \cup {p.label : p \in Pushes},
            extract: BOOLEAN, delete: BOOLEAN, right: BOOLEAN]

Meet(kind) ==
  /\ met' = [met EXCEPT ![kind] = @ + 1]
  /\ \E b \in Budgets : \A k \in Mishaps : met'[k] <= b[k]

Init ==
  /\ \E d \in Downloads : dir = d.files /\ manifest = d.manifest
  /\ opt = [only |-> Anything, extract |-> FALSE, delete |-> FALSE, right |-> TRUE]
  /\ pc = "idle"
  /\ parts = << >> /\ at = 1 /\ offset = 0 /\ dec = NewDecryptor
  /\ blob = << >> /\ placed = FALSE
  /\ feeder = "off" /\ pend = << >> /\ pipe = << >>
  /\ taken = << >> /\ goal = 1 /\ bailed = FALSE
  /\ met = [kind \in Mishaps |-> 0]

AtRest == pc \in {"idle", "done", "failed"}

-----------------------------------------------------------------------------
(* Which parts, and whether they are the ones pushed.                      *)

Found(o) == {n \in DOMAIN dir : o.only \in {Anything, n.label}}

\* Mutant of Joinable: a part missing from the middle is not noticed.
JoinableWithGaps(found) ==
  /\ found # {}
  /\ \A m, n \in found : m.label = n.label

\* find_parts: one push, and every index up to the highest.
Joinable(found) ==
  /\ found # {}
  /\ \A m, n \in found : m.label = n.label
  /\ \A n \in found : \A i \in 0..n.index : \E m \in found : m.index = i

\* verify_parts, when there is a manifest.
Matches(found) ==
  manifest # << >> =>
    /\ found = DOMAIN manifest
    /\ \A n \in found : dir[n] = manifest[n]

\* find_parts or verify_parts raises.
Refuse ==
  /\ AtRest
  /\ \E o \in Options :
       /\ ~(Joinable(Found(o)) /\ Matches(Found(o)))
       /\ opt' = o
  /\ pc' = "failed"
  /\ parts' = << >> /\ at' = 1 /\ offset' = 0 /\ dec' = NewDecryptor
  /\ UNCHANGED <<dir, manifest, blob, placed, extracting, met>>

\* The run starts to read: the blob is opened, or the feeder thread started.
Begin ==
  /\ AtRest
  /\ \E o \in Options :
       LET found == Found(o) IN
       /\ Joinable(found) /\ Matches(found)
       /\ opt' = o
       /\ parts' = CHOOSE s \in [1..Cardinality(found) -> found] :
                     \A j, k \in 1..Cardinality(found) :
                       j < k => s[j].index < s[k].index
       /\ IF o.extract
            THEN pc' = "extract" /\ feeder' = "feeding" /\ UNCHANGED placed
            ELSE pc' = "plain" /\ feeder' = "off" /\ placed' = TRUE
  /\ at' = 1 /\ offset' = 0 /\ dec' = NewDecryptor
  /\ blob' = << >> /\ pend' = << >> /\ pipe' = << >>
  /\ taken' = << >> /\ goal' = 1 /\ bailed' = FALSE
  /\ UNCHANGED <<dir, manifest, met>>

-----------------------------------------------------------------------------
(* iter_plaintext, which the main thread runs or the feeder thread.        *)

\* The writer takes another block once all but its buffer is in the pipe.
Iterating ==
  \/ pc = "plain"
  \/ feeder = "feeding" /\ Len(pend) <= WriteBuffer

PartBytes == dir[parts[at]]

FeedBlock ==
  /\ Iterating
  /\ at <= Len(parts)
  /\ offset < Len(PartBytes)
  /\ LET end == Shorter(offset + BlockSize, Len(PartBytes))
         block == SubSeq(PartBytes, offset + 1, end)
         out == Released(dec, block, opt.right)
     IN /\ dec' = Update(dec, block)
        /\ offset' = end
        /\ IF opt.extract
             THEN pend' = pend \o out /\ UNCHANGED blob
             ELSE blob' = blob \o out /\ UNCHANGED pend
  /\ UNCHANGED <<dir, manifest, opt, pc, parts, at, placed, feeder, pipe, taken,
                 goal, bailed, met>>

Without(n) == [m \in DOMAIN dir \ {n} |-> dir[m]]

\* Mutant of FinishPart: the next part is removed along with this one.
FinishPartEagerly ==
  /\ Iterating
  /\ at <= Len(parts)
  /\ offset = Len(PartBytes)
  /\ at' = at + 1
  /\ offset' = 0
  /\ dir' = IF opt.delete
              THEN [m \in DOMAIN dir \ {parts[k] : k \in at..Shorter(at + 1, Len(parts))}
                      |-> dir[m]]
              ELSE dir
  /\ UNCHANGED <<manifest, opt, pc, parts, dec, blob, placed, extracting, met>>

\* on_part, and the part goes if --delete-consumed.
FinishPart ==
  /\ Iterating
  /\ at <= Len(parts)
  /\ offset = Len(PartBytes)
  /\ at' = at + 1
  /\ offset' = 0
  /\ dir' = IF opt.delete THEN Without(parts[at]) ELSE dir
  /\ UNCHANGED <<manifest, opt, pc, parts, dec, blob, placed, extracting, met>>

\* dec.finalize(): the tag verifies or the generator raises.  An error removes
\* the blob; the feeder keeps its error and closes the pipe.
FinishReading ==
  /\ Iterating
  /\ at > Len(parts)
  /\ IF opt.extract
       THEN /\ feeder' = IF Verifies(dec, opt.right) THEN "closing" ELSE "raising"
            /\ UNCHANGED <<pc, placed>>
       ELSE /\ IF Verifies(dec, opt.right)
                 THEN pc' = "finalize" /\ UNCHANGED placed
                 ELSE pc' = "failed" /\ placed' = FALSE
            /\ UNCHANGED feeder
  /\ UNCHANGED <<dir, manifest, opt, reading, blob, pend, pipe, taken, goal,
                 bailed, met>>

\* Mutant of WriteFails: the blob stays.
WriteFailsLeaving ==
  /\ pc = "plain"
  /\ Meet("refusal")
  /\ pc' = "failed"
  /\ UNCHANGED <<dir, manifest, opt, reading, blob, placed, extracting>>

\* Writing the blob fails.
WriteFails ==
  /\ pc = "plain"
  /\ Meet("refusal")
  /\ pc' = "failed"
  /\ placed' = FALSE
  /\ UNCHANGED <<dir, manifest, opt, reading, blob, extracting>>

-----------------------------------------------------------------------------
(* unpack.finalize_output.                                                 *)

\* The blob is moved to its final name.
MoveOutput ==
  /\ pc = "finalize"
  /\ pc' = "done"
  /\ placed' = FALSE
  /\ UNCHANGED <<dir, manifest, opt, reading, blob, extracting, met>>

\* It cannot be named or moved: the handler removes it.
MoveFails ==
  /\ pc = "finalize"
  /\ Meet("refusal")
  /\ pc' = "failed"
  /\ placed' = FALSE
  /\ UNCHANGED <<dir, manifest, opt, reading, blob, extracting>>

-----------------------------------------------------------------------------
(* plaintext_stream: the feeder's end of the pipe.                         *)

Writing == feeder \in {"feeding", "closing", "raising"}
ReaderOpen == pc = "extract" \/ pc = "leave"

\* Mutant of Pour: what a short write leaves over is forgotten.
PourOnce ==
  /\ Writing /\ ReaderOpen
  /\ pend # << >> /\ Len(pipe) < PipeSize
  /\ pipe' = pipe \o SubSeq(pend, 1, Shorter(Len(pend), PipeSize - Len(pipe)))
  /\ pend' = << >>
  /\ UNCHANGED <<dir, manifest, opt, pc, reading, blob, placed, feeder, taken, goal,
                 bailed, met>>

Pour ==
  /\ Writing /\ ReaderOpen
  /\ pend # << >> /\ Len(pipe) < PipeSize
  /\ LET n == Shorter(Len(pend), PipeSize - Len(pipe))
     IN /\ pipe' = pipe \o SubSeq(pend, 1, n)
        /\ pend' = SubSeq(pend, n + 1, Len(pend))
  /\ UNCHANGED <<dir, manifest, opt, pc, reading, blob, placed, feeder, taken, goal,
                 bailed, met>>

\* Mutant of BrokenPipe: the feeder goes on writing.
BrokenPipeRetried ==
  /\ Writing /\ ~ReaderOpen
  /\ pend # << >>
  /\ UNCHANGED vars

\* EPIPE, in write() or in the writer's close().
BrokenPipe ==
  /\ Writing /\ ~ReaderOpen
  /\ pend # << >>
  /\ feeder' = "failed"
  /\ pend' = << >>
  /\ UNCHANGED <<dir, manifest, opt, pc, reading, blob, placed, pipe, taken, goal,
                 bailed, met>>

CloseWriter ==
  /\ feeder \in {"closing", "raising"}
  /\ pend = << >>
  /\ feeder' = IF feeder = "closing" THEN "ended" ELSE "failed"
  /\ UNCHANGED <<dir, manifest, opt, pc, reading, blob, placed, pend, pipe, taken,
                 goal, bailed, met>>

-----------------------------------------------------------------------------
(* The reader's end: tarfile in mode "r|*", then the context manager.      *)

\* tarfile reads one block to tell the compression, and then whole records.
Take ==
  /\ pc = "extract"
  /\ pipe # << >> /\ Len(taken) < goal
  /\ LET n == Shorter(Len(pipe), goal - Len(taken))
     IN /\ taken' = taken \o SubSeq(pipe, 1, n)
        /\ pipe' = SubSeq(pipe, n + 1, Len(pipe))
  /\ UNCHANGED <<dir, manifest, opt, pc, reading, blob, placed, feeder, pend, goal,
                 bailed, met>>

AtEof == pipe = << >> /\ feeder \in {"ended", "failed"}

\* The first zero block ends the archive, whatever may follow it.  An archive
\* that stops without one, or a header that is not one, raises or ends it too.
Look ==
  /\ pc = "extract"
  /\ Len(taken) = goal \/ AtEof
  /\ \/ /\ SeesEnd(taken)
        /\ pc' = "leave"
        /\ UNCHANGED <<goal, bailed>>
     \/ /\ ~SeesEnd(taken) /\ Len(taken) = goal
        /\ goal' = goal + Record
        /\ UNCHANGED <<pc, bailed>>
     \/ /\ AtEof \/ \E k \in DOMAIN taken : taken[k] = Garbage
        /\ ~SeesEnd(taken)
        /\ pc' = "leave"
        /\ bailed' \in BOOLEAN
        /\ UNCHANGED goal
  /\ UNCHANGED <<dir, manifest, opt, reading, blob, placed, feeder, pend, pipe,
                 taken, met>>

\* extractall raises: a member is refused, or the disk is full.
ExtractFails ==
  /\ pc = "extract"
  /\ Meet("refusal")
  /\ pc' = "leave"
  /\ bailed' = TRUE
  /\ UNCHANGED <<dir, manifest, opt, reading, blob, placed, feeder, pend, pipe,
                 taken, goal>>

CloseReader ==
  /\ pc = "leave"
  /\ pc' = "join"
  /\ pipe' = << >>
  /\ UNCHANGED <<dir, manifest, opt, reading, blob, placed, feeder, pend, taken,
                 goal, bailed, met>>

\* Mutant of Join: what happened to the feeder is not looked at.
JoinQuietly ==
  /\ pc = "join"
  /\ feeder \in {"ended", "failed"}
  /\ pc' = IF bailed THEN "failed" ELSE "done"
  /\ UNCHANGED <<dir, manifest, opt, reading, blob, placed, extracting, met>>

\* The feeder's error, if any, is raised here.
Join ==
  /\ pc = "join"
  /\ feeder \in {"ended", "failed"}
  /\ pc' = IF bailed \/ feeder = "failed" THEN "failed" ELSE "done"
  /\ UNCHANGED <<dir, manifest, opt, reading, blob, placed, extracting, met>>

-----------------------------------------------------------------------------
(* The world around a run.                                                 *)

Crash ==
  /\ ~AtRest
  /\ Meet("crash")
  /\ pc' = "idle"
  /\ feeder' = "off"
  /\ UNCHANGED <<dir, manifest, opt, reading, blob, placed, pend, pipe, taken, goal,
                 bailed>>

\* A part is downloaded again.
Download ==
  /\ AtRest
  /\ Meet("download")
  /\ \E p \in Pushes : \E n \in DOMAIN PartFiles(p) :
       /\ n \in DOMAIN dir => dir[n] # PartFiles(p)[n]
       /\ dir' = [m \in DOMAIN dir \cup {n} |->
                    IF m = n THEN PartFiles(p)[n] ELSE dir[m]]
  /\ UNCHANGED <<manifest, opt, pc, reading, blob, placed, extracting>>

Iterate == FeedBlock \/ FinishPart \/ FinishReading
Main ==
  \/ ~opt.extract /\ Iterate
  \/ MoveOutput
  \/ Take \/ Look \/ CloseReader \/ Join
Feeder ==
  \/ opt.extract /\ Iterate
  \/ Pour \/ BrokenPipe \/ CloseWriter
Environment == Refuse \/ Begin \/ WriteFails \/ MoveFails \/ ExtractFails \/ Crash
                 \/ Download

Next == Main \/ Feeder \/ Environment

Spec == Init /\ [][Next]_vars

\* The two threads of a run are scheduled; nobody has to start one.
FairSpec == Spec /\ WF_vars(Main) /\ WF_vars(Feeder)

-----------------------------------------------------------------------------
(* Properties.                                                             *)

TypeOK ==
  /\ DOMAIN dir \subseteq UNION {DOMAIN PartFiles(p) : p \in Pushes}
  /\ opt \in Options
  /\ pc \in {"idle", "plain", "finalize", "extract", "leave", "join", "done", "failed"}
  /\ \A k \in DOMAIN parts : parts[k].index = k - 1 /\ parts[k].label = parts[1].label
  /\ at \in 1..(Len(parts) + 1)
  /\ offset \in Nat
  /\ placed \in BOOLEAN
  /\ feeder \in {"off", "feeding", "closing", "raising", "ended", "failed"}
  /\ Len(pipe) <= PipeSize
  /\ Len(taken) <= goal
  /\ bailed \in BOOLEAN
  /\ met \in [Mishaps -> Nat]

\* The push the run restores.
Wanted == PushOf(parts[1].label)

\* A pull that says Done has restored what was pushed, all of it, and has
\* checked the tag over every byte of it (cli.py:320-328, 337-348): not the
\* parts of another push, not a part that was cut short, and not an archive
\* tarfile was content with before the last part was read.
DoneMeansRestored ==
  pc = "done" =>
    /\ Fed(dec) = Bytes(Wanted)
    /\ IF opt.extract
         THEN Content(taken) = Content(Wanted.text)
         ELSE blob = Wanted.text

\* Between the decryptor and the output no plaintext is lost, repeated or put
\* out of order, wherever the pipe, the writer's buffer and a part removed by
\* --delete-consumed stand (stream.py:434-448, 468-475).
NothingDropped ==
  /\ pc = "plain" => blob = Plain(dec, opt.right)
  /\ pc = "extract" /\ feeder # "failed" =>
       taken \o pipe \o pend = Plain(dec, opt.right)

\* A part is only removed by a run of --delete-consumed, once the decryptor has
\* had all of it, and never while any part of its push that is there differs from
\* the manifest: the whole of the push is checked before anything is decrypted
\* (cli.py:295-300, stream.py:399-416, 446).
RemovesOnlyRead ==
  [][\A n \in DOMAIN dir \ DOMAIN dir' :
       /\ opt.delete
       /\ \E k \in 1..Len(parts) : parts[k] = n /\ k < at'
       /\ manifest # << >> =>
            \A m \in DOMAIN dir :
              m.label = n.label => m \in DOMAIN manifest /\ dir[m] = manifest[m]
     ]_dir

\* Whatever else happened before, a run to a file that ends, well or with an
\* error, leaves no half-written .innout-incoming behind (cli.py:337-347).
NoPlaceholderLeft ==
  (pc \in {"done", "failed"} /\ parts # << >> /\ ~opt.extract) => ~placed

\* What is left to read from the k-th part on.
Unread[k \in Nat] ==
  IF k > Len(parts) THEN << >>
  ELSE SubSeq(dir[parts[k]], IF k = at THEN offset + 1 ELSE 1, Len(dir[parts[k]]))
         \o Unread[k + 1]

\* A pull of the parts as they were pushed, with the right passphrase, succeeds
\* unless the disk or tarfile refuses.
SoundPullSucceeds ==
  (pc = "failed" /\ parts # << >> /\ opt.right /\ met["refusal"] = 0)
    => Fed(dec) \o Unread[at] # Bytes(Wanted)

\* A run always comes to an end, whether tarfile stops early with the feeder
\* blocked on a full pipe or the feeder fails (stream.py:484-488).
Ends == (~AtRest) ~> AtRest
=============================================================================
