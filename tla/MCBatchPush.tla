----------------------------- MODULE MCBatchPush -----------------------------
(* Instances of BatchPush in which one thing goes wrong. *)
EXTENDS BatchPush

MCOrder == <<"a", "b">>
MCNoBundle == {}
MCBundle == {"b"}
MCTwoPieces == {2}

MCRefused == {[unanswered |-> 0, refused |-> 1, crash |-> 0]}
MCUnanswered == {[unanswered |-> 1, refused |-> 0, crash |-> 0]}
=============================================================================
