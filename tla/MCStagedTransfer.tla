-------------------------- MODULE MCStagedTransfer --------------------------
(* Instances of StagedTransfer small enough for TLC. *)
EXTENDS StagedTransfer

\* A plain file in two chunks that do not divide it evenly, and a compressed tar
\* in one chunk.
MCJobs == <<[text |-> <<"x", "y", "x">>, size |-> 3],
            [text |-> <<"tgz">>, size |-> 3]>>
CONSTANTS q1, q2
MCPulls == {q1, q2}
MCSymmetry == Permutations(MCPulls)
MCFolderIds == {1, 2}

\* One mishap of one kind.
MCMishaps ==
  {[unanswered |-> 1, broken |-> 0, stop |-> 0],
   [unanswered |-> 0, broken |-> 1, stop |-> 0],
   [unanswered |-> 0, broken |-> 0, stop |-> 1]}

\* Five chunks, numbered in two digits up to 3 and in three from 4 on.
MCManyChunks == <<[text |-> <<"x", "y", "z">>, size |-> 1]>>
MCOnePull == {q1}
MCNoMishap == {[unanswered |-> 0, broken |-> 0, stop |-> 0]}
=============================================================================
