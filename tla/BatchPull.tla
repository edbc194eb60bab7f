----------------------------- MODULE BatchPull ------------------------------
(***************************************************************************)
(* innout-batch pull (batch.cmd_pull) beside the push of the same ledger:  *)
(* each target the ledger lists is downloaded piece by piece, joined,      *)
(* decrypted and compared with the recorded digests, and moved to its name *)
(* in the output directory.  A target that fails is noted and the pull     *)
(* goes on; a file that is there already is skipped unless --force.        *)
(***************************************************************************)
EXTENDS BatchPush, FiniteSetsExt

CONSTANT MaxPulls   \* bound: how often the pull is run

ASSUME PullAssumption == MaxPulls \in Nat

VARIABLES
  recovered,  \* the output directory: name -> [build, whole]
  at,         \* where the pull is; "idle" before the first and after a kill
  listed,     \* the ledger's entries as the pull has loaded them
  chosen,     \* the targets of this pull: all, or those of --only
  force,      \* --force
  turn,       \* the place in Order of the target it is at, or one beyond the
              \* last
  joined,     \* the pieces of the current one decrypted so far
  bad,        \* failures: the targets that failed
  got,        \* those it has moved into the output directory
  pulls       \* how many pulls were begun

pullState == <<recovered, at, listed, chosen, force, turn, joined, bad, got, pulls>>
allVars == <<vars, pullState>>

PullInit ==
  /\ recovered = << >>
  /\ at = "idle"
  /\ listed = << >> /\ chosen = {} /\ force = FALSE
  /\ turn = 0 /\ joined = << >>
  /\ bad = {} /\ got = {}
  /\ pulls = 0

Current == Order[turn]
AtCurrent == turn \in DOMAIN Order
Pieces == listed[Current].pieces

\* A file keeps its path in the repository; a bundle's archive is named by
\* finalize_output, which takes a name that is free.
OutputName(t) ==
  [target |-> t,
   n |-> IF t \in Bundles
           THEN Min({n \in 0..MaxPulls : [target |-> t, n |-> n] \notin DOMAIN recovered})
           ELSE 0]
PlainName(t) == [target |-> t, n |-> 0]

\* The wanted targets in the order of the ledger: after target i the next of them.
NextWanted(i, wanted) ==
  \E k \in (i + 1)..(Len(Order) + 1) :
    /\ \A j \in (i + 1)..(k - 1) : Order[j] \notin wanted
    /\ k \in DOMAIN Order => Order[k] \in wanted
    /\ turn' = k

\* The current target is done with.
NextTarget ==
  /\ NextWanted(turn, chosen)
  /\ joined' = << >>
  /\ at' = "target"

\* Load the ledger, and choose what to pull: at least one target of it.
StartPull ==
  /\ at \in {"idle", "done", "failed"}
  /\ pulls < MaxPulls
  /\ \E only \in SUBSET Targets : chosen' = only \cap DOMAIN entries
  /\ chosen' # {}
  /\ NextWanted(0, chosen')
  /\ force' \in BOOLEAN
  /\ listed' = entries
  /\ at' = "target"
  /\ joined' = << >> /\ bad' = {} /\ got' = {}
  /\ pulls' = pulls + 1
  /\ UNCHANGED <<vars, recovered>>

\* dest.exists(): the file is not looked into.
Present(t) == t \notin Bundles /\ PlainName(t) \in DOMAIN recovered

SkipPresent ==
  /\ at = "target"
  /\ AtCurrent
  /\ Present(Current) /\ ~force
  /\ NextTarget
  /\ UNCHANGED <<vars, recovered, listed, chosen, force, bad, got, pulls>>

TakeUp ==
  /\ at = "target"
  /\ AtCurrent
  /\ ~(Present(Current) /\ ~force)
  /\ at' = "piece"
  /\ UNCHANGED <<vars, recovered, listed, chosen, force, turn, joined, bad, got, pulls>>

\* Mutant of Fails: the failure is printed but not kept.
FailsSilently ==
  /\ NextTarget
  /\ UNCHANGED <<recovered, listed, chosen, force, bad, got, pulls>>

\* One bad file must not end the pull.
Fails ==
  /\ bad' = bad \cup {Current}
  /\ NextTarget
  /\ UNCHANGED <<recovered, listed, chosen, force, got, pulls>>

\* Download, join, decrypt and compare one piece, and append it to the whole.
PullPiece ==
  /\ at = "piece"
  /\ Len(joined) < Len(Pieces)
  /\ PieceRestores(Pieces[Len(joined) + 1])
  /\ joined' = Append(joined, Pieces[Len(joined) + 1].data)
  /\ UNCHANGED <<vars, recovered, at, listed, chosen, force, turn, bad, got, pulls>>

PieceUnreadable ==
  /\ at = "piece"
  /\ Len(joined) < Len(Pieces)
  /\ ~PieceRestores(Pieces[Len(joined) + 1])
  /\ Fails
  /\ UNCHANGED vars

\* A Drive call is refused, or no longer answered.
PullRefused ==
  /\ at = "piece"
  /\ Spend("refused")
  /\ Fails
  /\ UNCHANGED <<ledger, drive, pc, run, lastId>>

\* The joined pieces have the digest the entry records.
DigestFits ==
  \A p \in DOMAIN joined :
    joined[p] = PieceData(listed[Current].build, Len(Pieces), p)

Mismatch ==
  /\ at = "piece"
  /\ Len(joined) = Len(Pieces)
  /\ ~DigestFits
  /\ Fails
  /\ UNCHANGED vars

Decoded == at = "piece" /\ Len(joined) = Len(Pieces) /\ DigestFits

Writes(name, whole) ==
  recovered' = With(recovered, name,
                    [build |-> joined[1].build, whole |-> whole])

\* shutil.move or finalize_output within a file system: a rename.
MoveOut ==
  /\ Decoded
  /\ Writes(OutputName(Current), TRUE)
  /\ got' = got \cup {Current}
  /\ NextTarget
  /\ UNCHANGED <<vars, listed, chosen, force, bad, pulls>>

\* Into another file system: a copy, under the final name.
StartCopy ==
  /\ Decoded
  /\ Writes(OutputName(Current), FALSE)
  /\ at' = "copy"
  /\ UNCHANGED <<vars, listed, chosen, force, turn, joined, bad, got, pulls>>

\* The name StartCopy took is the latest of the target.
Copied ==
  LET names == {n \in DOMAIN recovered : n.target = Current} IN
  CHOOSE n \in names : \A m \in names : m.n <= n.n

EndCopy ==
  /\ at = "copy"
  /\ Writes(Copied, TRUE)
  /\ got' = got \cup {Current}
  /\ NextTarget
  /\ UNCHANGED <<vars, listed, chosen, force, bad, pulls>>

\* The copy fails, on a full disk for one: what is written stays.
CopyFails ==
  /\ at = "copy"
  /\ Spend("refused")
  /\ Fails
  /\ UNCHANGED <<ledger, drive, pc, run, lastId>>

\* "Done", or an exit status that is not zero and the list of failures.
EndPull ==
  /\ at = "target"
  /\ ~AtCurrent
  /\ at' = IF bad = {} THEN "done" ELSE "failed"
  /\ UNCHANGED <<vars, recovered, listed, chosen, force, turn, joined, bad, got, pulls>>

\* The pull is killed or interrupted; a copy under way stays.
PullKilled ==
  /\ at \in {"target", "piece", "copy"}
  /\ Spend("crash")
  /\ at' = "idle"
  /\ listed' = << >> /\ chosen' = {} /\ force' = FALSE
  /\ turn' = 0 /\ joined' = << >> /\ bad' = {} /\ got' = {}
  /\ UNCHANGED <<ledger, drive, pc, run, lastId, recovered, pulls>>

PullStep ==
  \/ StartPull \/ SkipPresent \/ TakeUp \/ PullPiece \/ PieceUnreadable
  \/ PullRefused \/ Mismatch \/ MoveOut \/ StartCopy \/ EndCopy \/ CopyFails
  \/ EndPull \/ PullKilled

PushAndPullInit == Init /\ PullInit
PushAndPullNext == (Next /\ UNCHANGED pullState) \/ PullStep

PushAndPull == PushAndPullInit /\ [][PushAndPullNext]_allVars

\* A push goes on by itself, and the operator re-runs the same command as long as
\* it exits with targets still to do.  Nobody has to pull.
FairPushAndPull == PushAndPull /\ WF_vars(StartRun) /\ WF_vars(Step)

-----------------------------------------------------------------------------
(* What must hold.                                                         *)

PullTypeOK ==
  /\ TypeOK
  /\ \A n \in DOMAIN recovered :
       /\ n.target \in Targets /\ n.n \in 0..MaxPulls
       /\ n.n > 0 => n.target \in Bundles
       /\ recovered[n].build \in Ids /\ recovered[n].whole \in BOOLEAN
  /\ at \in {"idle", "target", "piece", "copy", "done", "failed"}
  /\ DOMAIN listed \subseteq Targets
  /\ chosen \subseteq DOMAIN listed
  /\ force \in BOOLEAN
  /\ turn \in 0..(Len(Order) + 1)
  /\ at \in {"piece", "copy"} => /\ AtCurrent /\ Current \in chosen
                                /\ Len(joined) <= Len(Pieces)
  /\ bad \cup got \subseteq chosen
  /\ pulls \in 0..MaxPulls

\* What a pull has fetched is in the output directory, whole, and the file of the
\* build that the ledger lists.
Fetched(t) ==
  \E n \in DOMAIN recovered :
    n.target = t /\ recovered[n] = [build |-> listed[t].build, whole |-> TRUE]

\* A pull accounts for every target it was asked for: it is there as the ledger
\* records it, or was there before and is skipped, or is among the failures; and
\* the exit status is zero exactly when there are none (README.md:379).  One bad
\* target costs that target, whatever else fails, and whatever a push adds to
\* the ledger meanwhile.
PullAccounts ==
  at \in {"done", "failed"} =>
    /\ \A t \in chosen :
         \/ t \in got /\ Fetched(t)
         \/ t \in bad
         \/ Present(t) /\ ~force
    /\ at = "done" <=> bad = {}
=============================================================================
