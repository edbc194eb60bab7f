------------------------------ MODULE PartCutter ------------------------------
(***************************************************************************)
(* The pipeline behind a streaming push: a builder thread writes a tar     *)
(* into a pipe (stream.tar_stream), the main thread reads it, encrypts it  *)
(* and cuts it into part files (stream.encrypt_to_parts), and each file is *)
(* handed to on_part, which uploads it, and then removed.                  *)
(*                                                                         *)
(* A run that fails or is killed is followed by others on the same work    *)
(* directory: they regenerate the same stream and skip the parts that      *)
(* landed.  CipherStream says what the parts of a stream are; this is how  *)
(* they come about.                                                        *)
(***************************************************************************)
EXTENDS CipherStream, FiniteSets

CONSTANTS
  Archives,    \* the archives (sequences of plaintext bytes) to choose from
  PartSizes,   \* the values of --part-size to choose from
  BlockSize,   \* stream.BLOCK_SIZE
  PipeSize,    \* what the pipe holds
  MaxParts,    \* stream.MAX_PARTS
  Budget       \* bounds: how often each kind of mishap happens

Mishaps == {"break",    \* the builder cannot read a file of the source
            "refusal",  \* an upload fails for good
            "crash"}    \* the process is killed

ASSUME CutterAssumption ==
  /\ \A text \in Archives : text \in Seq(STRING)
  /\ PartSizes \subseteq Nat \ {0}
  /\ BlockSize \in Nat \ {0} /\ PipeSize \in Nat \ {0} /\ MaxParts \in Nat \ {0}
  /\ Budget \in [Mishaps -> Nat]

VARIABLES
  archive,   \* the archive the source makes, the same for every run
  size,      \* the part size, the same for every run
  files,     \* work_dir/parts: index -> bytes
  landed,    \* the parts uploaded and recorded, by whatever run
  skip,      \* those that had landed when this run began
  pc,        \* the main thread
  builder,   \* the builder thread
  sent,      \* how much of the archive it has written
  pipe,      \* plaintext in the pipe
  text,      \* plaintext read from it
  view,      \* ciphertext _emit has not dealt with yet
  stage,     \* what that came from: "header", "body" or "tag"
  index,     \* the part being cut,
  digest,    \*   and the bytes of it so far
  parts,     \* result.parts: the bytes (size and sha256) of each part
  raised,    \* the main thread has raised
  left       \* what is left of Budget

vars == <<archive, size, files, landed, skip, pc, builder, sent, pipe, text, view, stage,
          index, digest, parts, raised, left>>
threads == <<builder, sent, pipe>>
inputs == <<archive, size, skip>>

Salt == 1

Shorter(a, b) == IF a < b THEN a ELSE b
Spend(kind) == left[kind] > 0 /\ left' = [left EXCEPT ![kind] = @ - 1]

AtRest == pc \in {"idle", "done", "failed"}

\* _wanted, for skip_indices.
Wanted(i) == i \notin skip

\* Mutant of Opened: what a failed run left in the file is kept.
OpenedAppending(dir, i, skipped) ==
  IF i \notin skipped /\ i \notin DOMAIN dir
    THEN [k \in DOMAIN dir \cup {i} |-> IF k = i THEN << >> ELSE dir[k]]
    ELSE dir

\* _open: an empty file for a part that is not skipped.
Opened(dir, i, skipped) ==
  IF i \notin skipped
    THEN [k \in DOMAIN dir \cup {i} |-> IF k = i THEN << >> ELSE dir[k]]
    ELSE dir

\* The part's file is removed, if the part had one.
Removed == [k \in DOMAIN files \ ({index} \ skip) |-> files[k]]

Init ==
  /\ archive \in Archives /\ size \in PartSizes
  /\ files = << >> /\ landed = {} /\ skip = {}
  /\ pc = "idle"
  /\ builder = "off" /\ sent = 0 /\ pipe = << >>
  /\ text = << >> /\ view = << >> /\ stage = "header"
  /\ index = 0 /\ digest = << >> /\ parts = << >>
  /\ raised = FALSE
  /\ left = Budget

-----------------------------------------------------------------------------
(* encrypt_to_parts.                                                       *)

\* The builder thread starts, the first part is opened, the header is next.
Start ==
  /\ AtRest
  /\ builder' = "building" /\ sent' = 0 /\ pipe' = << >>
  /\ pc' = "emit"
  /\ skip' = landed
  /\ files' = Opened(files, 0, landed)
  /\ view' = Header(Salt) /\ stage' = "header"
  /\ text' = << >> /\ index' = 0 /\ digest' = << >> /\ parts' = << >>
  /\ raised' = FALSE
  /\ UNCHANGED <<archive, size, landed, left>>

\* Mutant of Emit: a part is only full once it is more than full.
EmitBeyond ==
  /\ pc = "emit"
  /\ view # << >>
  /\ LET n == Shorter(size + 1 - Len(digest), Len(view))
         take == SubSeq(view, 1, n)
     IN /\ digest' = digest \o take
        /\ files' = IF Wanted(index) THEN [files EXCEPT ![index] = @ \o take] ELSE files
        /\ view' = SubSeq(view, n + 1, Len(view))
        /\ pc' = IF Len(digest') > size THEN "close" ELSE "emit"
  /\ UNCHANGED <<inputs, landed, threads, text, stage, index, parts, raised, left>>

\* _emit, one round of its loop: what fits in the part goes into it.
Emit ==
  /\ pc = "emit"
  /\ view # << >>
  /\ LET n == Shorter(size - Len(digest), Len(view))
         take == SubSeq(view, 1, n)
     IN /\ digest' = digest \o take
        /\ files' = IF Wanted(index) THEN [files EXCEPT ![index] = @ \o take] ELSE files
        /\ view' = SubSeq(view, n + 1, Len(view))
        /\ pc' = IF Len(digest') = size THEN "close" ELSE "emit"
  /\ UNCHANGED <<inputs, landed, threads, text, stage, index, parts, raised, left>>

\* src.read(block_size): some plaintext, however much of a block has come.
Read ==
  /\ pc = "emit"
  /\ view = << >> /\ stage # "tag"
  /\ pipe # << >>
  /\ \E n \in 1..Shorter(BlockSize, Len(pipe)) :
       LET more == text \o SubSeq(pipe, 1, n) IN
       /\ text' = more
       /\ pipe' = SubSeq(pipe, n + 1, Len(pipe))
       /\ view' = SubSeq(Body(Salt, more), Len(text) + 1, Len(more))
  /\ stage' = "body"
  /\ UNCHANGED <<inputs, files, landed, pc, builder, sent, index, digest, parts,
                 raised, left>>

\* The pipe is at its end, for whatever reason the builder closed it.
ReadEof ==
  /\ pc = "emit"
  /\ view = << >> /\ stage # "tag"
  /\ pipe = << >> /\ builder \in {"ended", "failed"}
  /\ view' = Tag(Salt, text)
  /\ stage' = "tag"
  /\ UNCHANGED <<inputs, files, landed, pc, threads, text, index, digest, parts,
                 raised, left>>

\* Mutant of Finish: the last part is closed even if nothing is in it.
FinishAnyway ==
  /\ pc = "emit"
  /\ view = << >> /\ stage = "tag"
  /\ pc' = "close"
  /\ UNCHANGED <<inputs, files, landed, threads, text, view, stage, index, digest,
                 parts, raised, left>>

\* Everything is emitted: close the last part, or drop the empty file an exactly
\* full last part has left open.
Finish ==
  /\ pc = "emit"
  /\ view = << >> /\ stage = "tag"
  /\ IF digest # << >> \/ parts = << >>
       THEN pc' = "close" /\ UNCHANGED files
       ELSE pc' = "leave" /\ files' = Removed
  /\ UNCHANGED <<inputs, landed, threads, text, view, stage, index, digest, parts,
                 raised, left>>

\* _close: the part is complete, and on_part uploads it unless it is skipped.
Close ==
  /\ pc = "close"
  /\ parts' = Append(parts, digest)
  /\ landed' = landed \cup {index}
  /\ pc' = "unlink"
  /\ UNCHANGED <<inputs, files, threads, text, view, stage, index, digest, raised,
                 left>>

\* on_part raises: the part's file stays where it is.
CloseFails ==
  /\ pc = "close"
  /\ Wanted(index)
  /\ Spend("refusal")
  /\ parts' = Append(parts, digest)
  /\ raised' = TRUE
  /\ pc' = "leave"
  /\ UNCHANGED <<inputs, files, landed, threads, text, view, stage, index, digest>>

\* The stream is over once the last _close is.
Over == stage = "tag" /\ view = << >>

\* Mutant of Unlink: the file is left for later.
UnlinkLater ==
  /\ pc = "unlink"
  /\ index' = index + 1
  /\ digest' = << >>
  /\ IF Over /\ Len(digest) < size
       THEN pc' = "leave" /\ UNCHANGED <<raised, files>>
     ELSE IF index' >= MaxParts
       THEN pc' = "leave" /\ raised' = TRUE /\ UNCHANGED files
     ELSE pc' = "emit" /\ UNCHANGED raised /\ files' = Opened(files, index', skip)
  /\ UNCHANGED <<inputs, landed, threads, text, view, stage, parts, left>>

\* The rest of _close, and after a full part _open for the next one, whose name
\* part_name refuses to make beyond MAX_PARTS.
Unlink ==
  /\ pc = "unlink"
  /\ index' = index + 1
  /\ digest' = << >>
  /\ IF Over /\ Len(digest) < size
       THEN pc' = "leave" /\ UNCHANGED raised /\ files' = Removed
     ELSE IF index' >= MaxParts
       THEN pc' = "leave" /\ raised' = TRUE /\ files' = Removed
     ELSE /\ pc' = "emit" /\ UNCHANGED raised
          /\ files' = Opened(Removed, index', skip)
  /\ UNCHANGED <<inputs, landed, threads, text, view, stage, parts, left>>

-----------------------------------------------------------------------------
(* tar_stream: the builder thread, and the end of the context manager.     *)

ReaderOpen == pc \in {"emit", "close", "unlink", "leave"}

Build ==
  /\ builder = "building"
  /\ ReaderOpen
  /\ sent < Len(archive) /\ Len(pipe) < PipeSize
  /\ pipe' = Append(pipe, archive[sent + 1])
  /\ sent' = sent + 1
  /\ UNCHANGED <<inputs, files, landed, pc, builder, text, view, stage, index, digest,
                 parts, raised, left>>

\* The archive is complete, or nobody reads any more (EPIPE).
BuilderEnds ==
  /\ builder = "building"
  /\ sent = Len(archive) \/ ~ReaderOpen
  /\ builder' = IF sent = Len(archive) THEN "ended" ELSE "failed"
  /\ UNCHANGED <<inputs, files, landed, pc, sent, pipe, text, view, stage, index,
                 digest, parts, raised, left>>

\* tar.add raises: the pipe is closed where it is.
BuilderBreaks ==
  /\ builder = "building"
  /\ sent < Len(archive)
  /\ Spend("break")
  /\ builder' = "failed"
  /\ UNCHANGED <<inputs, files, landed, pc, sent, pipe, text, view, stage, index,
                 digest, parts, raised>>

Leave ==
  /\ pc = "leave"
  /\ pc' = "join"
  /\ pipe' = << >>
  /\ UNCHANGED <<inputs, files, landed, builder, sent, text, view, stage, index,
                 digest, parts, raised, left>>

\* Mutant of Join: the builder's error is not raised.
JoinQuietly ==
  /\ pc = "join"
  /\ builder \in {"ended", "failed"}
  /\ pc' = IF raised THEN "failed" ELSE "done"
  /\ UNCHANGED <<inputs, files, landed, threads, text, view, stage, index, digest,
                 parts, raised, left>>

\* Mutant of Join: it waits for a builder that ended well.
JoinEnded ==
  /\ pc = "join"
  /\ IF builder = "ended"
       THEN pc' = (IF raised THEN "failed" ELSE "done")
       ELSE UNCHANGED pc
  /\ UNCHANGED <<inputs, files, landed, threads, text, view, stage, index, digest,
                 parts, raised, left>>

\* thread.join(); an error of the builder is raised unless one is under way.
Join ==
  /\ pc = "join"
  /\ builder \in {"ended", "failed"}
  /\ pc' = IF raised \/ builder = "failed" THEN "failed" ELSE "done"
  /\ UNCHANGED <<inputs, files, landed, threads, text, view, stage, index, digest,
                 parts, raised, left>>

Crash ==
  /\ ~AtRest
  /\ Spend("crash")
  /\ pc' = "idle"
  /\ builder' = "off"
  /\ UNCHANGED <<inputs, files, landed, sent, pipe, text, view, stage, index, digest,
                 parts, raised>>

Main == Emit \/ Read \/ ReadEof \/ Finish \/ Close \/ Unlink \/ Leave \/ Join
Builder == Build \/ BuilderEnds
Environment == Start \/ CloseFails \/ BuilderBreaks \/ Crash

Next == Main \/ Builder \/ Environment

Spec == Init /\ [][Next]_vars

\* The two threads of a run are scheduled; nobody has to start one.
FairSpec == Spec /\ WF_vars(Main) /\ WF_vars(Builder)

-----------------------------------------------------------------------------
(* Properties.                                                             *)

TypeOK ==
  /\ pc \in {"idle", "emit", "close", "unlink", "leave", "join", "done", "failed"}
  /\ builder \in {"off", "building", "ended", "failed"}
  /\ sent \in 0..Len(archive)
  /\ Len(pipe) <= PipeSize
  /\ stage \in {"header", "body", "tag"}
  /\ index \in Nat
  /\ Len(digest) <= size
  /\ raised \in BOOLEAN
  /\ left \in [Mishaps -> Nat]

\* The stream of the plaintext read so far.
Bytes == Ciphertext(Salt, text)

\* However the blocks of plaintext fall on the parts, whichever parts are skipped
\* and wherever the pipe ended: a stream that was cut to its end was cut into
\* exactly the parts CipherStream defines, none of them empty or missing
\* (stream.py:246-273).
CutsTheStream ==
  (pc \in {"join", "done"} /\ ~raised) =>
    /\ Len(parts) = PartCount(Bytes, size)
    /\ \A k \in DOMAIN parts : parts[k] = PartOf(Bytes, size, k - 1)

\* The file handed to on_part holds the very bytes its size and sha256 were taken
\* from, and follows on from the parts before it (stream.py:213-241).
HandsOverWhatItHashed ==
  (pc = "close" /\ Wanted(index)) =>
    /\ index = Len(parts)
    /\ files[index] = digest
    /\ Len(digest) = size \/ Over

\* A run only succeeds if the builder got to the end of the archive: a tar cut
\* short by an unreadable file is an error even though the pipe just ends
\* (stream.py:126-140).
DoneMeansWhole == pc = "done" => text = archive

\* Only one part file exists at a time (stream.py:6-7, 184-186), whatever fails:
\* only a process killed before it removed its part's file leaves one behind, and
\* of all the runs that follow none leaves another.
OnePartOnDisk ==
  Cardinality(DOMAIN files) <= 1 + (Budget["crash"] - left["crash"])

\* A run always comes to an end: an upload that raises with the builder blocked
\* on a full pipe does not hang it (stream.py:134-138).
Ends == (~AtRest) ~> AtRest
=============================================================================
