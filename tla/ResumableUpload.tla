--------------------------- MODULE ResumableUpload ---------------------------
(***************************************************************************)
(* What a resumable push promises, without files, calls or failures: a     *)
(* stream of numbered parts arrives one part at a time; what has arrived   *)
(* stays; and the push is announced only when all of it is there.          *)
(***************************************************************************)
EXTENDS Integers

CONSTANT Id        \* what tells one stream from another

VARIABLES
  id,         \* the stream being pushed
  wanted,     \* its parts
  landed,     \* those of them that have arrived
  announced   \* the push has been reported as done

vars == <<id, wanted, landed, announced>>

Init ==
  /\ id \in Id
  /\ wanted = {}
  /\ landed = {}
  /\ announced = FALSE

\* The push begins again as another stream, of which nothing has arrived; when the
\* record of it is lost it is a push of nothing, until the next one begins.
Begin ==
  /\ id' \in Id \ {id}
  /\ wanted' \in SUBSET Nat
  /\ landed' = {}
  /\ announced' = FALSE

\* The push is run once more on the stream it was pushing.
Rerun ==
  /\ announced
  /\ announced' = FALSE
  /\ UNCHANGED <<id, wanted, landed>>

Land ==
  /\ ~announced
  /\ \E i \in wanted \ landed : landed' = landed \cup {i}
  /\ UNCHANGED <<id, wanted, announced>>

Announce ==
  /\ ~announced
  /\ wanted # {}
  /\ landed = wanted
  /\ announced' = TRUE
  /\ UNCHANGED <<id, wanted, landed>>

Next == Begin \/ Rerun \/ Land \/ Announce

Spec == Init /\ [][Next]_vars
=============================================================================
