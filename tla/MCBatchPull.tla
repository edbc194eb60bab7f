---------------------------- MODULE MCBatchPull -----------------------------
(* Instances of BatchPull small enough for TLC. *)
EXTENDS BatchPull

MCOrder == <<"a", "b">>
MCBundle == {"b"}
MCTwoPieces == {2}

\* Two mishaps of any kind, of the push or of the pull.
MCTwo ==
  {[unanswered |-> 0, refused |-> 2, crash |-> 0],
   [unanswered |-> 1, refused |-> 1, crash |-> 0],
   [unanswered |-> 1, refused |-> 0, crash |-> 1],
   [unanswered |-> 0, refused |-> 1, crash |-> 1]}
=============================================================================
