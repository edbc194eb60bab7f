---------------------------- MODULE MCStreamPull ----------------------------
(* Instances of StreamPull small enough for TLC. *)
EXTENDS StreamPull

\* With records of three blocks: four blocks of content and the zero blocks that
\* end an archive, so that tarfile finds the first of these in its last read.
MCArchive == <<"w", "x", "y", "z", Zero, Zero>>
\* Content that fills a record: tarfile has seen a zero block one read earlier.
MCAligned == <<"x", "y", "z", Zero, Zero, Zero>>

MCVideo == [label |-> "a", salt |-> 1, text |-> MCArchive, size |-> 3]
MCOther == [label |-> "b", salt |-> 2, text |-> <<"q", Zero, Zero>>, size |-> 9]
MCAlignedPush == [label |-> "a", salt |-> 1, text |-> MCAligned, size |-> 3]

MCTwoPushes == {MCVideo, MCOther}
MCOneAligned == {MCAlignedPush}

\* A byte changed on the way, and a download that stopped early.
Spoiled(bytes) == [bytes EXCEPT ![1] = <<"bad", 0, 0, <<Zero>> >>]
CutShort(bytes) == SubSeq(bytes, 1, Len(bytes) - 1)

\* One part of the push may be damaged, or missing; a part of the other push may
\* lie beside them; the manifest may be missing.
MCDamaged(p, others) ==
  LET files == PartFiles(p)
      lacking == {[n \in DOMAIN files \ {m} |-> files[n]] : m \in DOMAIN files}
      spoiled == UNION {{[files EXCEPT ![n] = Spoiled(@)], [files EXCEPT ![n] = CutShort(@)]}
                          : n \in DOMAIN files}
  IN {[files |-> [n \in DOMAIN d \cup DOMAIN o |->
                    IF n \in DOMAIN d THEN d[n] ELSE o[n]],
       manifest |-> m]
        : d \in {files} \cup lacking \cup spoiled, o \in others, m \in {<< >>, files}}

MCMixed == MCDamaged(MCVideo, {<< >>, PartFiles(MCOther)})
MCAsPushed == {[files |-> PartFiles(p), manifest |-> << >>] : p \in Pushes}

\* The disk or tarfile refuses and a process dies; or a part is downloaded
\* again after the first run.
MCMishaps ==
  {[refusal |-> 1, crash |-> 1, download |-> 0],
   [refusal |-> 0, crash |-> 0, download |-> 1]}
MCNoMishap == {[refusal |-> 0, crash |-> 0, download |-> 0]}
=============================================================================
