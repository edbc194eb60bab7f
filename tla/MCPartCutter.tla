---------------------------- MODULE MCPartCutter ----------------------------
(* Instances of PartCutter small enough for TLC. *)
EXTENDS PartCutter

\* With a header and a tag of one byte the streams have two to six bytes, which
\* parts of one to four bytes divide exactly, or not, or hold whole.
MCLetters == <<"a", "b", "c", "d">>
MCArchives == {SubSeq(MCLetters, 1, n) : n \in 0..4}
MCPartSizes == 1..4

MCMishaps == [break |-> 1, refusal |-> 1, crash |-> 1]
=============================================================================
