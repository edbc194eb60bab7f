---------------------------- MODULE MCStreamPush ----------------------------
(* Instances of StreamPush small enough for TLC. *)
EXTENDS StreamPush

MCSmall == [size |-> 2, label |-> "a"]
MCLarge == [size |-> 3, label |-> "a"]

MCOneOption == {MCSmall}
MCTwoOptions == {MCSmall, MCLarge}
\* One byte of header, two of plaintext and one of tag.
MCSources == {<<"x", "y">>}
\* One byte less: the last part is shorter than the first.
MCShort == {<<"x">>}

MCFileIds == 1..6

\* Drive calls fail and processes die.
MCMishaps == [fault |-> 2, crash |-> 1, loss |-> 0, removal |-> 0, meddling |-> 0,
              break |-> 0]
\* One mishap of every kind.
MCAnything == [fault |-> 1, crash |-> 1, loss |-> 1, removal |-> 1, meddling |-> 1,
               break |-> 1]
\* The tar builder fails once.
MCBreak == [fault |-> 0, crash |-> 0, loss |-> 0, removal |-> 0, meddling |-> 0,
            break |-> 1]
=============================================================================
