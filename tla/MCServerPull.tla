---------------------------- MODULE MCServerPull ----------------------------
(* Instances of ServerPull small enough for TLC. *)
EXTENDS ServerPull

MCWorkers == {"w1", "w2"}

\* A session the server has names for, and one with a part too many.
MCPartCounts == {2, 3}

\* Requests are given up or lost, but no worker is killed; or workers are
\* killed, but no request is given up.
MCEither ==
  {[timeout |-> 2, lost |-> 1, kill |-> 0, limit |-> 1],
   [timeout |-> 0, lost |-> 1, kill |-> 2, limit |-> 1]}
=============================================================================
