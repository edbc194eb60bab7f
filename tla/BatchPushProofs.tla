--------------------------- MODULE BatchPushProofs ---------------------------
(***************************************************************************)
(* Proofs about innout-batch push with a pull beside it: the types, what   *)
(* the ledger says of the targets, and that the pieces it records stay     *)
(* whole on Drive, for any targets, pieces, chunks and mishaps.            *)
(***************************************************************************)
EXTENDS BatchPull, TLAPS, FiniteSetTheorems, WellFoundedInduction

-----------------------------------------------------------------------------
(* What a step of the pull leaves alone.                                   *)

\* Mishaps are counted, nothing else, for the push.
Counted == UNCHANGED spent \/ \E kind \in Mishaps : spent' = [spent EXCEPT ![kind] = @ + 1]

LEMMA PullLeaves ==
  PullStep => Counted /\ UNCHANGED <<ledger, drive, pc, run, lastId>>
<1> USE DEF Counted, vars, ledger, run
<1>1. ASSUME NEW kind \in Mishaps, Spend(kind) PROVE Counted
  BY <1>1 DEF Spend
<1>2. PullRefused \/ CopyFails => Counted
  BY <1>1 DEF PullRefused, CopyFails, Mishaps
<1>3. PullKilled => Counted
  BY <1>1 DEF PullKilled, Mishaps
<1>4. PullRefused \/ CopyFails \/ PullKilled => UNCHANGED <<ledger, drive, pc, run, lastId>>
  BY DEF PullRefused, CopyFails, PullKilled
<1>5. StartPull \/ SkipPresent \/ TakeUp \/ PullPiece \/ PieceUnreadable \/ Mismatch
        \/ MoveOut \/ StartCopy \/ EndCopy \/ EndPull => UNCHANGED vars
  BY DEF StartPull, SkipPresent, TakeUp, PullPiece, PieceUnreadable, Mismatch,
         MoveOut, StartCopy, EndCopy, EndPull
<1> QED
  BY <1>2, <1>3, <1>4, <1>5 DEF PullStep

\* Every step of the push counts mishaps in the same way.
LEMMA PushCounts == Next => Counted
<1> USE DEF Counted, vars, ledger, run
<1>1. ASSUME NEW kind \in Mishaps, Spend(kind) PROVE Counted
  BY <1>1 DEF Spend
<1>2. FetchFails \/ UploadUnanswered \/ UploadFails \/ CleanUpFails \/ Crash => Counted
  BY <1>1 DEF FetchFails, UploadUnanswered, UploadFails, CleanUpFails, Crash, Mishaps
<1>3. StartRun \/ Fetch \/ SkipPiece \/ BeginPiece \/ UploadChunk \/ CleanUp \/ CleanedUp
        \/ Remember \/ RecordEntry \/ EndRun => UNCHANGED spent
  BY DEF StartRun, Fetch, SkipPiece, BeginPiece, UploadChunk, CleanUp, CleanedUp,
         Remember, RecordEntry, EndRun
<1> QED
  BY <1>2, <1>3 DEF Next, Step

-----------------------------------------------------------------------------
(* Where a run is.                                                         *)

AtWork == pc \in {"piece", "upload", "remember", "cleanup"}
AtPiece == pc \in {"upload", "remember", "cleanup"}

RunType ==
  /\ pc \in {"idle", "fetch", "piece", "upload", "remember", "cleanup"}
  /\ place \in 0..(Len(Order) + 1)
  /\ cut \in Cuts \cup {0}
  /\ pc # "idle" => cut \in Cuts /\ place # 0
  /\ build \in 0..MaxSessions
  /\ AtWork => AtTarget /\ build \in Ids
  /\ session \in 0..lastId
  /\ AtPiece => session \in Ids
  /\ chunk \in 0..Chunks
  /\ pc = "upload" => chunk \in 1..Chunks
  /\ lastId \in 0..MaxSessions
  /\ spent \in [Mishaps -> Nat]

LEMMA Places ==
  /\ Len(Order) \in Nat
  /\ DOMAIN Order = 1..Len(Order)
  /\ \A i \in DOMAIN Order : Order[i] \in Targets
BY BatchAssumption DEF Targets

LEMMA RunTypeInit == Init => RunType
BY BatchAssumption, Places DEF Init, RunType, AtWork, AtPiece, Mishaps

LEMMA NextPlace ==
  ASSUME place \in 0..(Len(Order) + 1), NEW i \in Nat, NextPending(i)
  PROVE  place' \in 1..(Len(Order) + 1)
BY Places DEF NextPending

LEMMA RunTypeNext == RunType /\ (Next \/ PullStep) => RunType'
<1> SUFFICES ASSUME RunType, Next \/ PullStep PROVE RunType'
  OBVIOUS
<1> USE BatchAssumption, Places DEF RunType, AtWork, AtPiece, ledger, run, Ids
<1>1. (spent \in [Mishaps -> Nat])'
  BY PushCounts, PullLeaves DEF Counted
<1>2. CASE StartRun
  BY <1>1, <1>2, NextPlace DEF StartRun
<1>3. CASE Fetch
  <2>1. build' \in Ids /\ lastId' \in 0..MaxSessions /\ lastId' >= lastId
    BY <1>3 DEF Fetch
  <2> QED
    BY <1>1, <1>3, <2>1 DEF Fetch, AtTarget
<1>4. ASSUME FailTarget, cut' = cut, lastId' = lastId, pc # "idle" PROVE RunType'
  BY <1>1, <1>4, NextPlace DEF FailTarget, DropTarget
<1>5. CASE FetchFails \/ CleanedUp \/ CleanUpFails
  BY <1>4, <1>5 DEF FetchFails, CleanedUp, CleanUpFails
<1>6. CASE SkipPiece
  BY <1>1, <1>6 DEF SkipPiece, AtTarget
<1>7. CASE BeginPiece
  BY <1>1, <1>7 DEF BeginPiece, AtTarget
<1>8. CASE UploadChunk \/ UploadUnanswered
  BY <1>1, <1>8 DEF UploadChunk, UploadUnanswered, AtTarget
<1>9. CASE UploadFails \/ CleanUp
  BY <1>1, <1>9 DEF UploadFails, CleanUp, AtTarget
<1>10. CASE Remember
  BY <1>1, <1>10 DEF Remember, AtTarget
<1>11. CASE RecordEntry
  BY <1>1, <1>11, NextPlace DEF RecordEntry, DropTarget
<1>12. CASE EndRun
  BY <1>1, <1>12 DEF EndRun
<1>13. CASE Crash
  BY <1>1, <1>13 DEF Crash, DropTarget
<1>14. CASE PullStep
  BY <1>1, <1>14, PullLeaves DEF AtTarget
<1> QED
  BY <1>2, <1>3, <1>5, <1>6, <1>7, <1>8, <1>9, <1>10, <1>11, <1>12, <1>13, <1>14
  DEF Next, Step

-----------------------------------------------------------------------------
(* The ledger and the targets.                                             *)

\* Every target the run is past is pushed or noted as failed.
Walked ==
  pc # "idle" =>
    \A j \in 1..(place - 1) : Order[j] \in DOMAIN entries \cup failures

WalkInv == RunType /\ LedgerConsistent /\ Walked

\* The target a run goes on to is not in the ledger, and is not the last one.
LEMMA NextIsPending ==
  ASSUME RunType, NextPending(place), place # 0
  PROVE  /\ AtTarget' => Target' \notin DOMAIN entries
         /\ AtTarget /\ AtTarget' => Target' # Target
         /\ \A j \in 1..(place' - 1) : j < place \/ j = place \/ Order[j] \in DOMAIN entries
BY BatchAssumption, Places DEF RunType, NextPending, AtTarget, Target

LEMMA WalkFailTarget ==
  ASSUME WalkInv, FailTarget, AtTarget, pc # "idle", UNCHANGED <<entries, partials>>
  PROVE  LedgerConsistent' /\ Walked'
<1> USE DEF WalkInv, FailTarget
<1>1. place \in Nat \ {0}
  BY DEF RunType
<1>2. LedgerConsistent'
  BY <1>1, NextIsPending DEF LedgerConsistent
<1>3. Walked'
  BY <1>1, NextIsPending DEF Walked, Target
<1> QED
  BY <1>2, <1>3

LEMMA WalkRecordEntry ==
  ASSUME WalkInv, RecordEntry
  PROVE  LedgerConsistent' /\ Walked'
<1> USE DEF WalkInv, RecordEntry
<1>1. place \in Nat \ {0} /\ AtTarget
  BY DEF RunType, AtWork
<1>2. DOMAIN entries' = DOMAIN entries \cup {Target}
  BY DEF With
<1>3. DOMAIN partials' = DOMAIN partials \ {Target} /\ failures' = failures \ {Target}
  BY DEF Without
<1>4. LedgerConsistent'
  BY <1>1, <1>2, <1>3, NextIsPending DEF LedgerConsistent
<1>5. Walked'
  BY <1>1, <1>2, <1>3, NextIsPending DEF Walked, Target
<1> QED
  BY <1>4, <1>5

LEMMA WalkNext == WalkInv /\ (Next \/ PullStep) => WalkInv'
<1> SUFFICES ASSUME WalkInv, Next \/ PullStep PROVE LedgerConsistent' /\ Walked'
  BY RunTypeNext DEF WalkInv
<1> USE DEF WalkInv, ledger, run
<1>1. AtWork => AtTarget
  BY DEF RunType
<1>2. ASSUME UNCHANGED <<ledger, place>>, pc # "idle" PROVE LedgerConsistent' /\ Walked'
  BY <1>2 DEF LedgerConsistent, Walked, AtTarget, Target
<1>3. CASE StartRun
  <2>1. UNCHANGED ledger /\ NextPending(0) /\ place' \in 1..(Len(Order) + 1)
    BY <1>3, Places DEF StartRun, NextPending
  <2>2. LedgerConsistent'
    BY <2>1 DEF LedgerConsistent, AtTarget, Target, NextPending
  <2>3. Walked'
    BY <2>1, Places DEF Walked, NextPending
  <2> QED
    BY <2>2, <2>3
<1>4. CASE Fetch \/ SkipPiece \/ BeginPiece \/ UploadChunk \/ UploadUnanswered
             \/ UploadFails \/ CleanUp
  BY <1>2, <1>4 DEF Fetch, SkipPiece, BeginPiece, UploadChunk, UploadUnanswered,
                    UploadFails, CleanUp
<1>5. CASE FetchFails \/ CleanedUp \/ CleanUpFails
  BY <1>1, <1>5, WalkFailTarget DEF FetchFails, CleanedUp, CleanUpFails, AtWork
<1>6. CASE Remember
  <2>1. AtTarget /\ DOMAIN partials' = DOMAIN partials \cup {Target}
    BY <1>1, <1>6 DEF Remember, With, AtWork
  <2> QED
    BY <1>6, <2>1 DEF Remember, LedgerConsistent, Walked, AtTarget, Target
<1>7. CASE RecordEntry
  BY <1>7, WalkRecordEntry
<1>8. CASE EndRun \/ Crash
  <2>1. UNCHANGED ledger /\ pc' = "idle" /\ ~AtTarget'
    BY <1>8, Places DEF EndRun, Crash, AtTarget
  <2> QED
    BY <2>1 DEF LedgerConsistent, Walked
<1>9. CASE PullStep
  BY <1>9, PullLeaves DEF LedgerConsistent, Walked, AtTarget, Target
<1> QED
  BY <1>3, <1>4, <1>5, <1>6, <1>7, <1>8, <1>9 DEF Next, Step

LEMMA WalkInit == Init => WalkInv
BY RunTypeInit DEF Init, WalkInv, LedgerConsistent, Walked

LEMMA WalkUnchanged == WalkInv /\ UNCHANGED allVars => WalkInv'
BY DEF allVars, vars, ledger, run, WalkInv, RunType, LedgerConsistent, Walked,
       AtWork, AtPiece, AtTarget, Target

LEMMA WalkAlways == PushAndPull => []WalkInv
<1>1. WalkInv /\ [PushAndPullNext]_allVars => WalkInv'
  <2> SUFFICES ASSUME WalkInv, [PushAndPullNext]_allVars PROVE WalkInv'
    OBVIOUS
  <2>1. CASE UNCHANGED allVars
    BY <2>1, WalkUnchanged
  <2>2. CASE PushAndPullNext
    BY <2>2, WalkNext DEF PushAndPullNext
  <2> QED
    BY <2>1, <2>2
<1> QED
  BY <1>1, WalkInit, PTL DEF PushAndPull, PushAndPullInit

\* The ledger never contradicts itself, whatever fails or is killed and in whatever
\* order: what is pushed is not also failed or half done, nor taken up again.
THEOREM LedgerNeverContradicts == PushAndPull => []LedgerConsistent
<1>1. WalkInv => LedgerConsistent
  BY DEF WalkInv
<1> QED
  BY <1>1, WalkAlways, PTL

\* A run that gets to its end has pushed, or noted as failed, every target.
THEOREM NoneForgotten == PushAndPull => []NoTargetForgotten
<1>1. WalkInv => NoTargetForgotten
  BY Places DEF WalkInv, RunType, Walked, NoTargetForgotten, AtTarget, Targets
<1> QED
  BY <1>1, WalkAlways, PTL

-----------------------------------------------------------------------------
(* The records of pieces, in the ledger and in hand.                       *)

\* A plain file has one build, the file itself.
BuildsOf(t) == IF t \in Bundles THEN Ids ELSE {1}

PieceOf(t, p) ==
  [target: {t}, piece: {p}, session: Ids,
   data: [build: BuildsOf(t), cut: Cuts, piece: {p}]]

\* Some number of consecutive pieces of t, from the first.
PiecesOf(t, pieces) ==
  /\ pieces \in [1..Len(pieces) -> UNION {PieceOf(t, p) : p \in Nat}]
  /\ Len(pieces) \in Nat
  /\ \A p \in DOMAIN pieces : pieces[p] \in PieceOf(t, p)

EntriesType ==
  \A t \in DOMAIN entries :
    /\ t \in Targets
    /\ entries[t].build \in BuildsOf(t)
    /\ Len(entries[t].pieces) \in Cuts
    /\ PiecesOf(t, entries[t].pieces)

PartialsType ==
  \A t \in DOMAIN partials :
    /\ t \in Targets
    /\ \A p \in DOMAIN partials[t] : partials[t][p] \in PieceOf(t, p)

InHandType ==
  /\ AtWork => build \in BuildsOf(Target)
  /\ PiecesOf(Target, records)
  /\ Len(records) <= cut
  /\ AtPiece => Len(records) < cut
  /\ \A p \in DOMAIN already : already[p] \in PieceOf(Target, p)
  /\ ~AtWork => records = << >> /\ already = << >>

PieceInv == RunType /\ EntriesType /\ PartialsType /\ InHandType

LEMMA BuildsAreIds == \A t : BuildsOf(t) \subseteq Ids
BY BatchAssumption DEF BuildsOf, Ids

LEMMA CutsArePositive == \A c \in Cuts : c \in Nat \ {0}
BY BatchAssumption

\* One more record of the next piece.
LEMMA AppendPiece ==
  ASSUME NEW t, NEW pieces, PiecesOf(t, pieces), NEW r \in PieceOf(t, Len(pieces) + 1)
  PROVE  /\ PiecesOf(t, Append(pieces, r))
         /\ Len(Append(pieces, r)) = Len(pieces) + 1
         /\ \A p \in DOMAIN Append(pieces, r) :
              \/ p \in DOMAIN pieces /\ Append(pieces, r)[p] = pieces[p]
              \/ p = Len(pieces) + 1 /\ Append(pieces, r)[p] = r
<1> DEFINE Any == UNION {PieceOf(t, p) : p \in Nat}
           more == Append(pieces, r)
<1>1. Len(pieces) \in Nat /\ pieces \in [1..Len(pieces) -> Any]
  BY DEF PiecesOf
<1>2. r \in Any
  BY <1>1
<1> HIDE DEF Any
<1>3. pieces \in Seq(Any)
  BY <1>1
<1>4. more \in Seq(Any) /\ Len(more) = Len(pieces) + 1 /\ DOMAIN more = 1..(Len(pieces) + 1)
  BY <1>1, <1>2, <1>3
<1>5. \A p \in DOMAIN more :
        \/ p \in DOMAIN pieces /\ more[p] = pieces[p]
        \/ p = Len(pieces) + 1 /\ more[p] = r
  <2>1. more[Len(pieces) + 1] = r
    BY <1>1, <1>2, <1>3
  <2>2. \A p \in 1..Len(pieces) : more[p] = pieces[p]
    BY <1>1, <1>2, <1>3
  <2>3. DOMAIN pieces = 1..Len(pieces)
    BY <1>1
  <2> HIDE DEF more
  <2> QED
    BY <1>1, <1>4, <2>1, <2>2, <2>3
<1>6. \A p \in DOMAIN more : more[p] \in PieceOf(t, p)
  BY <1>1, <1>5 DEF PiecesOf
<1>7. more \in [1..Len(more) -> Any]
  <2> HIDE DEF more
  <2> QED
    BY <1>4
<1> QED
  BY <1>1, <1>4, <1>5, <1>6, <1>7 DEF PiecesOf, Any

LEMMA NoPieces == \A t : PiecesOf(t, << >>) /\ Len(<< >>) = 0
BY DEF PiecesOf

LEMMA PieceInit == Init => PieceInv
BY RunTypeInit, NoPieces, CutsArePositive
DEF Init, PieceInv, EntriesType, PartialsType, InHandType, AtWork, AtPiece

LEMMA RecordType ==
  ASSUME RunType, InHandType, AtPiece
  PROVE  Record \in PieceOf(Target, Piece) /\ Piece \in Nat \ {0}
<1>1. build \in BuildsOf(Target) /\ session \in Ids /\ cut \in Cuts /\ Len(records) \in Nat
  BY DEF RunType, InHandType, AtPiece, AtWork, PiecesOf
<1> QED
  BY <1>1 DEF Record, PieceOf, PieceData, Piece

LEMMA PieceDropped ==
  ASSUME PieceInv, RunType', DropTarget, pc' \in {"fetch", "idle"}
  PROVE  InHandType'
<1>1. records' = << >> /\ already' = << >> /\ cut' \in Nat /\ ~AtWork' /\ ~AtPiece'
  BY CutsArePositive DEF DropTarget, RunType, AtWork, AtPiece
<1> QED
  BY <1>1, NoPieces DEF InHandType

LEMMA PieceNext == PieceInv /\ (Next \/ PullStep) => PieceInv'
<1> SUFFICES ASSUME PieceInv, Next \/ PullStep
             PROVE  EntriesType' /\ PartialsType' /\ InHandType'
  BY RunTypeNext DEF PieceInv
<1> USE DEF PieceInv, ledger, run
<1>0. RunType'
  BY RunTypeNext
<1>1. UNCHANGED <<entries, partials>> => EntriesType' /\ PartialsType'
  BY DEF EntriesType, PartialsType
<1>2. CASE StartRun
  <2>1. records = << >> /\ already = << >> /\ Len(<< >>) = 0 /\ cut' \in Nat
    BY <1>2, CutsArePositive, NoPieces DEF StartRun, InHandType, AtWork
  <2> QED
    BY <1>1, <1>2, <2>1, NoPieces DEF StartRun, InHandType, AtWork, AtPiece
<1>3. CASE Fetch
  <2>1. Target \in Targets /\ build' \in BuildsOf(Target)
    BY <1>0, <1>3, Places DEF Fetch, BuildsOf, RunType, AtTarget, Target, AtWork
  <2>2. \A p \in DOMAIN PartialsOf(Target) : PartialsOf(Target)[p] \in PieceOf(Target, p)
    BY DEF PartialsType, PartialsOf
  <2>3. records = << >> /\ Len(<< >>) = 0 /\ cut \in Nat
    BY <1>3, CutsArePositive, NoPieces DEF Fetch, InHandType, AtWork, RunType
  <2> QED
    BY <1>1, <1>3, <2>1, <2>2, <2>3, NoPieces
    DEF Fetch, InHandType, AtWork, AtPiece, Target
<1>4. CASE FetchFails \/ CleanedUp \/ CleanUpFails
  BY <1>0, <1>1, <1>4, PieceDropped DEF FetchFails, CleanedUp, CleanUpFails, FailTarget
<1>5. CASE SkipPiece
  <2>1. already[Piece] \in PieceOf(Target, Len(records) + 1)
    BY <1>5 DEF SkipPiece, InHandType, Piece
  <2>2. Len(records) + 1 <= cut
    BY <1>5 DEF SkipPiece, Piece
  <2> QED
    BY <1>1, <1>5, <2>1, <2>2, AppendPiece
    DEF SkipPiece, InHandType, AtWork, AtPiece, Target
<1>6. CASE BeginPiece
  <2>1. Len(records) < cut
    BY <1>6, CutsArePositive DEF BeginPiece, InHandType, Piece, PiecesOf, RunType
  <2> QED
    BY <1>1, <1>6, <2>1 DEF BeginPiece, InHandType, AtWork, AtPiece, Target
<1>7. CASE UploadChunk \/ UploadUnanswered \/ UploadFails \/ CleanUp
  BY <1>1, <1>7
  DEF UploadChunk, UploadUnanswered, UploadFails, CleanUp, InHandType, AtWork, AtPiece, Target
<1>8. CASE Remember
  <2>1. Record \in PieceOf(Target, Len(records) + 1) /\ Piece \in Nat
    BY <1>8, RecordType DEF Remember, AtPiece, Piece
  <2>2. Target \in Targets
    BY <1>8, Places DEF Remember, RunType, AtWork, AtTarget, Target
  <2>3. \A p \in DOMAIN PartialsOf(Target) : PartialsOf(Target)[p] \in PieceOf(Target, p)
    BY DEF PartialsType, PartialsOf
  <2>4. PartialsType'
    BY <1>8, <2>1, <2>2, <2>3 DEF Remember, PartialsType, With, Piece
  <2>5. EntriesType'
    BY <1>8 DEF Remember, EntriesType
  <2>6. Len(records) < cut /\ cut \in Nat /\ Len(records) \in Nat
    BY <1>8, CutsArePositive DEF Remember, InHandType, AtPiece, RunType, PiecesOf
  <2>7. InHandType'
    BY <1>8, <2>1, <2>6, AppendPiece DEF Remember, InHandType, AtWork, AtPiece, Target
  <2> QED
    BY <2>4, <2>5, <2>7
<1>9. CASE RecordEntry
  <2>1. Len(records) = cut /\ cut \in Cuts
    BY <1>9, CutsArePositive DEF RecordEntry, InHandType, Piece, PiecesOf, RunType
  <2>2. Target \in Targets /\ build \in BuildsOf(Target) /\ PiecesOf(Target, records)
    BY <1>9, Places DEF RecordEntry, RunType, InHandType, AtWork, AtTarget, Target
  <2>3. EntriesType'
    BY <1>9, <2>1, <2>2 DEF RecordEntry, EntriesType, With
  <2>4. PartialsType'
    BY <1>9 DEF RecordEntry, PartialsType, Without
  <2> QED
    BY <1>0, <1>9, <2>3, <2>4, PieceDropped DEF RecordEntry
<1>10. CASE EndRun
  <2>1. InHandType'
    BY <1>10, NoPieces DEF EndRun, InHandType, AtWork, AtPiece
  <2> QED
    BY <1>1, <1>10, <2>1 DEF EndRun
<1>11. CASE Crash
  BY <1>0, <1>1, <1>11, PieceDropped DEF Crash
<1>12. CASE PullStep
  BY <1>1, <1>12, PullLeaves DEF InHandType, AtWork, AtPiece, Target
<1> QED
  BY <1>2, <1>3, <1>4, <1>5, <1>6, <1>7, <1>8, <1>9, <1>10, <1>11, <1>12 DEF Next, Step

LEMMA PieceUnchanged == PieceInv /\ UNCHANGED allVars => PieceInv'
BY DEF allVars, vars, ledger, run, PieceInv, RunType, EntriesType, PartialsType,
       InHandType, AtWork, AtPiece, AtTarget, Target

-----------------------------------------------------------------------------
(* What the records stand for on Drive.                                    *)

\* r is a record of an entry, of a partial, or in hand.
Noted(r) ==
  \/ \E t \in DOMAIN entries : \E p \in DOMAIN entries[t].pieces : r = entries[t].pieces[p]
  \/ \E t \in DOMAIN partials : \E p \in DOMAIN partials[t] : r = partials[t][p]
  \/ \E p \in DOMAIN already : r = already[p]
  \/ \E p \in DOMAIN records : r = records[p]

LEMMA NotedNext ==
  ASSUME PieceInv, Next \/ PullStep, NEW r, Noted(r)'
  PROVE  Noted(r) \/ (Remember /\ r = Record)
<1> USE DEF PieceInv, ledger, run
<1>1. UNCHANGED <<entries, partials, already, records>> => Noted(r)
  BY DEF Noted
<1>2. UNCHANGED <<entries, partials>> /\ DropTarget => Noted(r)
  BY DEF Noted, DropTarget
<1>3. CASE Fetch
  <2>1. UNCHANGED <<entries, partials, records>> /\ already' = PartialsOf(Target)
    BY <1>3 DEF Fetch
  <2> QED
    BY <2>1 DEF Noted, PartialsOf
<1>4. CASE SkipPiece
  <2>1. UNCHANGED <<entries, partials, already>>
    BY <1>4 DEF SkipPiece
  <2>2. already[Piece] \in PieceOf(Target, Len(records) + 1) /\ Piece \in DOMAIN already
    BY <1>4 DEF SkipPiece, InHandType, Piece
  <2>3. \A p \in DOMAIN records' :
          \/ p \in DOMAIN records /\ records'[p] = records[p]
          \/ records'[p] = already[Piece]
    BY <1>4, <2>2, AppendPiece DEF SkipPiece, InHandType
  <2> QED
    BY <2>1, <2>2, <2>3 DEF Noted
<1>5. CASE Remember
  <2>1. UNCHANGED <<entries, already>>
    BY <1>5 DEF Remember
  <2>2. \A p \in DOMAIN records' :
          \/ p \in DOMAIN records /\ records'[p] = records[p]
          \/ records'[p] = Record
    BY <1>5, RecordType, AppendPiece DEF Remember, InHandType, AtPiece, Piece
  <2>3. \A t \in DOMAIN partials' : \A p \in DOMAIN partials'[t] :
          \/ /\ t \in DOMAIN partials /\ p \in DOMAIN partials[t]
             /\ partials'[t][p] = partials[t][p]
          \/ partials'[t][p] = Record
    BY <1>5 DEF Remember, With, PartialsOf
  <2> HIDE DEF PieceInv
  <2> QED
    BY <1>5, <2>1, <2>2, <2>3 DEF Noted
<1>6. CASE RecordEntry
  <2>1. \A t \in DOMAIN entries' :
          \/ t \in DOMAIN entries /\ entries'[t] = entries[t]
          \/ entries'[t].pieces = records
    BY <1>6 DEF RecordEntry, With
  <2>2. \A t \in DOMAIN partials' : t \in DOMAIN partials /\ partials'[t] = partials[t]
    BY <1>6 DEF RecordEntry, Without
  <2>3. already' = << >> /\ records' = << >>
    BY <1>6 DEF RecordEntry, DropTarget
  <2> HIDE DEF PieceInv
  <2> QED
    BY <2>1, <2>2, <2>3 DEF Noted
<1>7. CASE FetchFails \/ CleanedUp \/ CleanUpFails \/ Crash
  BY <1>2, <1>7 DEF FetchFails, CleanedUp, CleanUpFails, FailTarget, Crash
<1>8. CASE StartRun \/ BeginPiece \/ UploadChunk \/ UploadUnanswered \/ UploadFails
             \/ CleanUp \/ EndRun \/ PullStep
  BY <1>1, <1>8, PullLeaves
  DEF StartRun, BeginPiece, UploadChunk, UploadUnanswered, UploadFails, CleanUp, EndRun
<1> QED
  BY <1>3, <1>4, <1>5, <1>6, <1>7, <1>8 DEF Next, Step

\* Sessions are never used twice: the one in hand is in no record, and a cleanup
\* only ever deletes files of it.
SessionInv ==
  /\ \A f \in drive : f.session \in 1..lastId
  /\ \A r : Noted(r) => r.session \in 1..lastId
  /\ AtPiece => session # 0 /\ \A r : Noted(r) => r.session # session
  /\ \A f \in doomed : pc = "cleanup" /\ f.session = session

\* An upload adds a file of the session in hand.
LEMMA UploadsOne ==
  ASSUME Uploads
  PROVE  \E f : /\ drive' = drive \cup {f}
                /\ f.session = session /\ f.chunk = chunk
                /\ f.target = Target /\ f.piece = Piece /\ f.data = PieceData(build, cut, Piece)
<1>1. PICK n : drive' = drive \cup {ChunkFile(n)}
  BY DEF Uploads
<1> DEFINE new == ChunkFile(n)
<1>2. /\ new.session = session /\ new.chunk = chunk
      /\ new.target = Target /\ new.piece = Piece /\ new.data = PieceData(build, cut, Piece)
  BY DEF ChunkFile
<1>3. drive' = drive \cup {new}
  BY <1>1
<1> HIDE DEF new
<1> QED
  BY <1>2, <1>3

\* Only files of the session in hand come or go.
LEMMA DriveNext ==
  ASSUME SessionInv, Next \/ PullStep
  PROVE  \/ UNCHANGED drive
         \/ AtPiece /\ \A f : f.session # session => (f \in drive <=> f \in drive')
<1> USE DEF SessionInv, AtPiece, ledger, run
<1>1. CASE UploadChunk \/ UploadUnanswered
  BY <1>1, UploadsOne DEF UploadChunk, UploadUnanswered
<1>2. CASE CleanUp
  BY <1>2 DEF CleanUp
<1>3. CASE ~(UploadChunk \/ UploadUnanswered \/ CleanUp)
  BY <1>3, PullLeaves
  DEF Next, Step, StartRun, Fetch, FetchFails, SkipPiece, BeginPiece, UploadFails, CleanedUp,
      CleanUpFails, Remember, RecordEntry, EndRun, Crash
<1> QED
  BY <1>1, <1>2, <1>3

LEMMA SessionNext ==
  ASSUME PieceInv, SessionInv, Next \/ PullStep
  PROVE  SessionInv'
<1> USE DEF SessionInv, AtPiece, ledger, run
<1>1. lastId' \in Nat /\ lastId \in Nat /\ lastId' >= lastId
  BY RunTypeNext, PullLeaves, BatchAssumption
  DEF PieceInv, RunType, Next, Step, StartRun, Fetch, FetchFails, SkipPiece, BeginPiece,
      UploadChunk, UploadUnanswered, UploadFails, CleanUp, CleanedUp, CleanUpFails, Remember,
      RecordEntry, EndRun, Crash
<1>2. AtPiece => session \in 1..lastId
  BY DEF PieceInv, RunType
<1>3. \A f \in drive' : f.session \in 1..lastId'
  <2>1. CASE UploadChunk \/ UploadUnanswered
    BY <1>1, <1>2, <2>1, UploadsOne DEF UploadChunk, UploadUnanswered
  <2>2. UploadChunk \/ UploadUnanswered \/ drive' \subseteq drive
    BY PullLeaves
    DEF Next, Step, StartRun, Fetch, FetchFails, SkipPiece, BeginPiece, UploadFails, CleanUp,
        CleanedUp, CleanUpFails, Remember, RecordEntry, EndRun, Crash
  <2> QED
    BY <1>1, <2>1, <2>2
<1>4. ASSUME NEW r, Noted(r)' PROVE r.session \in 1..lastId'
  <2>1. CASE Remember /\ r = Record
    BY <1>1, <1>2, <2>1 DEF Remember, Record
  <2> QED
    BY <1>1, <1>4, <2>1, NotedNext
<1>5. ASSUME AtPiece', NEW r, Noted(r)' PROVE session' # 0 /\ r.session # session'
  <2>1. ~Remember
    BY <1>5 DEF Remember
  <2>2. Noted(r)
    BY <1>5, <2>1, NotedNext
  <2>3. CASE BeginPiece
    BY <1>1, <2>2, <2>3 DEF BeginPiece
  <2>4. CASE ~BeginPiece
    <3>1. AtPiece /\ session' = session
      BY <1>5, <2>1, <2>4, PullLeaves
      DEF Next, Step, StartRun, Fetch, FetchFails, SkipPiece, UploadChunk, UploadUnanswered,
          UploadFails, CleanUp, CleanedUp, CleanUpFails, FailTarget, RecordEntry, EndRun, Crash
    <3> QED
      BY <2>2, <3>1
  <2> QED
    BY <2>3, <2>4
<1>6. AtPiece' => session' # 0
  BY <1>1, PullLeaves
  DEF Next, Step, StartRun, Fetch, FetchFails, SkipPiece, BeginPiece, UploadChunk,
      UploadUnanswered, UploadFails, CleanUp, CleanedUp, CleanUpFails, FailTarget, Remember,
      RecordEntry, EndRun, Crash
<1>7. \A f \in doomed' : pc' = "cleanup" /\ f.session = session'
  <2>1. CASE UploadFails \/ CleanUp
    BY <2>1 DEF UploadFails, CleanUp
  <2>2. CASE ~(UploadFails \/ CleanUp)
    BY <2>2, PullLeaves
    DEF Next, Step, StartRun, Fetch, FetchFails, SkipPiece, BeginPiece, UploadChunk,
        UploadUnanswered, CleanedUp, CleanUpFails, FailTarget, DropTarget, Remember,
        RecordEntry, EndRun, Crash
  <2> QED
    BY <2>1, <2>2
<1> QED
  BY <1>3, <1>4, <1>5, <1>6, <1>7

-----------------------------------------------------------------------------
(* Every recorded piece is on Drive.                                       *)

OnDrive(sess, c, data) ==
  \E f \in drive : f.session = sess /\ f.chunk = c /\ f.data = data

\* The chunks the piece in hand has uploaded.
IsUp(c) == pc = "remember" \/ (pc = "upload" /\ c < chunk)

StoredInv ==
  /\ \A r : Noted(r) => \A c \in 1..Chunks : OnDrive(r.session, c, r.data)
  /\ \A c \in 1..Chunks : IsUp(c) => OnDrive(session, c, PieceData(build, cut, Piece))

\* An upload puts the current chunk on Drive; an answered one goes on to the next.
LEMMA UpNext ==
  ASSUME RunType, Next \/ PullStep, NEW c \in 1..Chunks, IsUp(c)'
  PROVE  \/ /\ IsUp(c)
            /\ UNCHANGED <<session, build, cut, Piece, Target>>
            /\ drive \subseteq drive'
         \/ /\ UploadChunk /\ c = chunk
            /\ UNCHANGED <<session, build, cut, Piece, Target>>
<1> USE DEF IsUp, ledger, run, Piece, Target
<1>1. CASE UploadChunk
  <2>1. drive \subseteq drive'
    BY <1>1 DEF UploadChunk, Uploads
  <2>2. chunk \in 1..Chunks /\ Chunks \in Nat
    BY <1>1, BatchAssumption DEF UploadChunk, RunType
  <2> QED
    BY <1>1, <2>1, <2>2 DEF UploadChunk
<1>2. CASE UploadUnanswered
  BY <1>2 DEF UploadUnanswered, Uploads
<1>3. CASE BeginPiece
  BY <1>3 DEF BeginPiece
<1>4. CASE PullStep
  BY <1>4, PullLeaves
<1>5. CASE ~(UploadChunk \/ UploadUnanswered \/ BeginPiece \/ PullStep)
  BY <1>5
  DEF Next, Step, StartRun, Fetch, FetchFails, SkipPiece, UploadFails, CleanUp, CleanedUp,
      CleanUpFails, FailTarget, Remember, RecordEntry, EndRun, Crash
<1> QED
  BY <1>1, <1>2, <1>3, <1>4, <1>5

LEMMA StoredNext ==
  ASSUME PieceInv, SessionInv, StoredInv, Next \/ PullStep
  PROVE  StoredInv'
<1>1. ASSUME NEW r, Noted(r)', NEW c \in 1..Chunks PROVE OnDrive(r.session, c, r.data)'
  <2>1. CASE Remember /\ r = Record
    <3>1. IsUp(c) /\ UNCHANGED drive
      BY <2>1 DEF Remember, IsUp
    <3>2. r.session = session /\ r.data = PieceData(build, cut, Piece)
      BY <2>1 DEF Record
    <3> QED
      BY <3>1, <3>2 DEF StoredInv, OnDrive
  <2>2. CASE Noted(r)
    <3>1. PICK f \in drive : f.session = r.session /\ f.chunk = c /\ f.data = r.data
      BY <2>2 DEF StoredInv, OnDrive
    <3>2. f \in drive'
      BY <2>2, <3>1, DriveNext DEF SessionInv
    <3> QED
      BY <3>1, <3>2 DEF OnDrive
  <2> QED
    BY <1>1, <2>1, <2>2, NotedNext
<1>2. ASSUME NEW c \in 1..Chunks, IsUp(c)'
      PROVE  OnDrive(session, c, PieceData(build, cut, Piece))'
  <2>1. CASE IsUp(c) /\ UNCHANGED <<session, build, cut, Piece, Target>> /\ drive \subseteq drive'
    BY <2>1 DEF StoredInv, OnDrive, PieceData
  <2>2. CASE UploadChunk /\ c = chunk /\ UNCHANGED <<session, build, cut, Piece, Target>>
    <3>1. PICK f : drive' = drive \cup {f} /\ f.session = session /\ f.chunk = chunk
                     /\ f.data = PieceData(build, cut, Piece)
      BY <2>2, UploadsOne DEF UploadChunk
    <3> QED
      BY <2>2, <3>1 DEF OnDrive, PieceData
  <2> QED
    BY <1>2, <2>1, <2>2, UpNext DEF PieceInv
<1> QED
  BY <1>1, <1>2 DEF StoredInv

FinishedInv == PieceInv /\ SessionInv /\ StoredInv

LEMMA FinishedInit == Init => FinishedInv
BY PieceInit
DEF Init, FinishedInv, SessionInv, StoredInv, Noted, IsUp, AtPiece

LEMMA FinishedAlways == PushAndPull => []FinishedInv
<1>1. FinishedInv /\ [PushAndPullNext]_allVars => FinishedInv'
  <2> SUFFICES ASSUME FinishedInv, [PushAndPullNext]_allVars PROVE FinishedInv'
    OBVIOUS
  <2>1. CASE UNCHANGED allVars
    <3>1. PieceInv'
      BY <2>1, PieceUnchanged DEF FinishedInv
    <3> QED
      BY <2>1, <3>1
      DEF FinishedInv, allVars, vars, ledger, run, SessionInv, StoredInv, Noted, AtPiece,
          OnDrive, IsUp, Piece, PieceData
  <2>2. CASE Next \/ PullStep
    BY <2>2, PieceNext, SessionNext, StoredNext DEF FinishedInv
  <2> QED
    BY <2>1, <2>2 DEF PushAndPullNext
<1> QED
  BY <1>1, FinishedInit, PTL DEF PushAndPull, PushAndPullInit

\* The chunks of a piece the ledger notes as finished are on Drive, whatever cleanups
\* and other runs have deleted since.
THEOREM FinishedStay == PushAndPull => []FinishedPiecesStay
<1>1. FinishedInv => FinishedPiecesStay
  BY DEF FinishedInv, StoredInv, FinishedPiecesStay, Noted, OnDrive
<1> QED
  BY <1>1, FinishedAlways, PTL

-----------------------------------------------------------------------------
(* Nothing is sent twice.                                                  *)

\* The pieces noted of the current target were noted before it was taken up, or
\* are those in hand; the piece being sent is neither.
UnsentInv ==
  /\ AtWork => \A p \in DOMAIN PartialsOf(Target) : p \in DOMAIN already \/ p \in 1..Len(records)
  /\ AtPiece => Piece \notin DOMAIN already

LEMMA UnsentNext ==
  ASSUME PieceInv, UnsentInv, Next \/ PullStep
  PROVE  UnsentInv'
<1> USE DEF AtWork, AtPiece, ledger, run
<1>1. CASE ~AtWork'
  BY <1>1 DEF UnsentInv
<1>2. CASE Fetch
  BY <1>2 DEF Fetch, UnsentInv, PartialsOf, Target
<1>3. CASE SkipPiece
  <2>1. already[Piece] \in PieceOf(Target, Len(records) + 1) /\ Len(records) \in Nat
    BY <1>3 DEF PieceInv, SkipPiece, InHandType, Piece, PiecesOf
  <2>2. Len(records') = Len(records) + 1
    BY <1>3, <2>1, AppendPiece DEF PieceInv, SkipPiece, InHandType
  <2> QED
    BY <1>3, <2>1, <2>2 DEF SkipPiece, UnsentInv, PartialsOf, Target
<1>4. CASE Remember
  <2>1. Record \in PieceOf(Target, Len(records) + 1) /\ Len(records) \in Nat
    BY <1>4, RecordType DEF PieceInv, Remember, InHandType, Piece, PiecesOf
  <2>2. Len(records') = Len(records) + 1
    BY <1>4, <2>1, AppendPiece DEF PieceInv, Remember, InHandType
  <2>3. DOMAIN PartialsOf(Target)' = DOMAIN PartialsOf(Target) \cup {Piece}
    BY <1>4 DEF Remember, With, PartialsOf, Target
  <2> QED
    BY <1>4, <2>1, <2>2, <2>3 DEF Remember, UnsentInv, Piece, Target
<1>5. CASE BeginPiece
  BY <1>5 DEF BeginPiece, UnsentInv, PartialsOf, Target, Piece
<1>6. CASE UploadChunk \/ UploadUnanswered \/ UploadFails \/ CleanUp
  BY <1>6
  DEF UploadChunk, UploadUnanswered, UploadFails, CleanUp, UnsentInv, PartialsOf, Target, Piece
<1>7. CASE PullStep
  BY <1>7, PullLeaves DEF UnsentInv, PartialsOf, Target, Piece
<1>8. CASE StartRun \/ FetchFails \/ CleanedUp \/ CleanUpFails \/ RecordEntry \/ EndRun \/ Crash
  <2>1. ~AtWork'
    BY <1>8 DEF StartRun, FetchFails, CleanedUp, CleanUpFails, FailTarget, RecordEntry, EndRun,
                Crash
  <2> QED
    BY <1>1, <2>1
<1> QED
  BY <1>2, <1>3, <1>4, <1>5, <1>6, <1>7, <1>8 DEF Next, Step

\* What a step puts on Drive belongs to a target that is not pushed, and to a piece
\* that is not noted as finished.
LEMMA UploadIsNew ==
  ASSUME WalkInv, PieceInv, UnsentInv, Next \/ PullStep, NEW f \in drive' \ drive
  PROVE  f.target \notin DOMAIN entries /\ f.piece \notin DOMAIN PartialsOf(f.target)
<1>1. UploadChunk \/ UploadUnanswered
  BY PullLeaves
  DEF ledger, run, Next, Step, StartRun, Fetch, FetchFails, SkipPiece, BeginPiece, UploadFails,
      CleanUp, CleanedUp, CleanUpFails, Remember, RecordEntry, EndRun, Crash
<1>2. f.target = Target /\ f.piece = Piece /\ AtPiece /\ AtWork
  BY <1>1, UploadsOne DEF UploadChunk, UploadUnanswered, AtPiece, AtWork
<1>3. Target \notin DOMAIN entries
  BY <1>2 DEF WalkInv, RunType, LedgerConsistent
<1>4. Piece \notin 1..Len(records)
  BY DEF Piece, PieceInv, InHandType, PiecesOf
<1> QED
  BY <1>2, <1>3, <1>4 DEF UnsentInv

\* A resumed run sends only what is missing: nothing of a pushed target or of a
\* finished piece is uploaded again, by any number of runs that fail or are killed.
THEOREM SentOnce == PushAndPull => NothingSentTwice
<1> DEFINE Inv == WalkInv /\ PieceInv /\ UnsentInv
<1>1. PushAndPullInit => Inv
  BY WalkInit, PieceInit DEF PushAndPullInit, Init, UnsentInv, AtWork, AtPiece
<1>2. Inv /\ [PushAndPullNext]_allVars => Inv'
  <2> SUFFICES ASSUME Inv, [PushAndPullNext]_allVars PROVE Inv'
    OBVIOUS
  <2>1. CASE UNCHANGED allVars
    <3>1. PieceInv'
      BY <2>1, PieceUnchanged
    <3>2. WalkInv'
      BY <2>1, WalkUnchanged
    <3>3. UnsentInv'
      BY <2>1 DEF allVars, vars, ledger, run, UnsentInv, AtWork, AtPiece, PartialsOf, Target, Piece
    <3> QED
      BY <3>1, <3>2, <3>3
  <2>2. CASE Next \/ PullStep
    BY <2>2, WalkNext, PieceNext, UnsentNext
  <2> QED
    BY <2>1, <2>2 DEF PushAndPullNext
<1>3. Inv /\ [PushAndPullNext]_allVars =>
        [\A f \in drive' \ drive :
           /\ f.target \notin DOMAIN entries
           /\ f.piece \notin DOMAIN PartialsOf(f.target)]_vars
  <2> SUFFICES ASSUME Inv, PushAndPullNext
               PROVE  \A f \in drive' \ drive :
                        /\ f.target \notin DOMAIN entries
                        /\ f.piece \notin DOMAIN PartialsOf(f.target)
    BY DEF allVars
  <2> QED
    BY UploadIsNew DEF PushAndPullNext
<1> QED
  BY <1>1, <1>2, <1>3, PTL DEF PushAndPull, NothingSentTwice

-----------------------------------------------------------------------------
(* What the ledger lists of plain files restores.                          *)

NoAnswerLost == spent["unanswered"] = 0

\* The files a download of the chunk would fetch.
Copies(sess, c) == {g \in drive : g.session = sess /\ g.chunk = c}

\* The chunk of the piece in hand is there once, with its data.
UpOnce(c) ==
  \E f \in drive : /\ Copies(session, c) = {f}
                   /\ f.target = Target
                   /\ f.piece = Piece
                   /\ f.data = PieceData(build, cut, Piece)

ExactInv ==
  NoAnswerLost =>
    /\ \A r : Noted(r) => PieceRestores(r)
    /\ \A c \in 1..Chunks : IsUp(c) => UpOnce(c)
    /\ pc = "upload" => \A c \in 1..Chunks : c >= chunk => Copies(session, c) = {}

LEMMA NoneLostBefore ==
  ASSUME RunType, Next \/ PullStep, NoAnswerLost'
  PROVE  NoAnswerLost /\ ~UploadUnanswered
<1>1. spent["unanswered"] \in Nat /\ DOMAIN spent = Mishaps /\ "unanswered" \in Mishaps
  BY DEF RunType, Mishaps
<1>2. NoAnswerLost
  BY <1>1, PushCounts, PullLeaves DEF Counted, NoAnswerLost
<1>3. ~UploadUnanswered
  BY <1>1 DEF UploadUnanswered, Spend, NoAnswerLost
<1> QED
  BY <1>2, <1>3

\* What is not of the session in hand stays as it is.
LEMMA CopiesStay ==
  ASSUME SessionInv, Next \/ PullStep, NEW s, NEW c, AtPiece => s # session
  PROVE  Copies(s, c)' = Copies(s, c)
BY DriveNext DEF Copies

LEMMA ExactNext ==
  ASSUME PieceInv, SessionInv, ExactInv, Next \/ PullStep
  PROVE  ExactInv'
<1> SUFFICES ASSUME NoAnswerLost'
             PROVE  /\ \A r : Noted(r)' => PieceRestores(r)'
                    /\ \A c \in 1..Chunks : IsUp(c)' => UpOnce(c)'
                    /\ pc' = "upload" =>
                         \A c \in 1..Chunks : c >= chunk' => Copies(session, c)' = {}
  BY DEF ExactInv
<1>1. NoAnswerLost /\ ~UploadUnanswered
  BY NoneLostBefore DEF PieceInv
<1>2. chunk \in Nat /\ Chunks \in Nat
  BY BatchAssumption DEF PieceInv, RunType
<1>3. ASSUME NEW r, Noted(r)' PROVE PieceRestores(r)'
  <2>1. CASE Remember /\ r = Record
    <3>1. UNCHANGED drive /\ \A c \in 1..Chunks : UpOnce(c)
      BY <1>1, <2>1 DEF Remember, IsUp, ExactInv
    <3>2. /\ r.session = session /\ r.data = PieceData(build, cut, Piece)
          /\ r.target = Target /\ r.piece = Piece
      BY <2>1 DEF Record
    <3> QED
      BY <3>1, <3>2 DEF PieceRestores, UpOnce, Copies
  <2>2. CASE Noted(r)
    <3>1. PieceRestores(r) /\ (AtPiece => r.session # session)
      BY <1>1, <2>2 DEF ExactInv, SessionInv
    <3>2. \A c \in 1..Chunks : Copies(r.session, c)' = Copies(r.session, c)
      BY <3>1, CopiesStay
    <3>3. ASSUME NEW c \in 1..Chunks
          PROVE  \E f \in drive' : /\ {g \in drive' : g.session = r.session /\ g.chunk = c} = {f}
                                   /\ f.target = r.target
                                   /\ f.piece = r.piece
                                   /\ f.data = r.data
      <4>1. PICK f \in drive : /\ Copies(r.session, c) = {f}
                               /\ f.target = r.target
                               /\ f.piece = r.piece
                               /\ f.data = r.data
        BY <3>1 DEF PieceRestores, Copies
      <4>2. Copies(r.session, c)' = {f}
        BY <3>2, <4>1
      <4>3. f \in drive'
        BY <4>2 DEF Copies
      <4> QED
        BY <4>1, <4>2, <4>3 DEF Copies
    <3> QED
      BY <3>3 DEF PieceRestores
  <2> QED
    BY <1>3, <2>1, <2>2, NotedNext
<1>4. CASE UploadChunk
  <2>1. PICK f : /\ drive' = drive \cup {f}
                 /\ f.session = session /\ f.chunk = chunk
                 /\ f.target = Target /\ f.piece = Piece /\ f.data = PieceData(build, cut, Piece)
    BY <1>4, UploadsOne DEF UploadChunk
  <2>2. UNCHANGED <<session, build, cut, Piece, Target>> /\ pc = "upload" /\ chunk \in 1..Chunks
    BY <1>4 DEF UploadChunk, Piece, Target, PieceInv, RunType
  <2>0. PICK m : m = chunk /\ m \in 1..Chunks
    BY <2>2
  <2>3. Copies(session, m)' = {f}
    <3>1. Copies(session, m) = {}
      BY <1>1, <1>2, <2>0, <2>2 DEF ExactInv
    <3> QED
      BY <2>0, <2>1, <2>2, <3>1 DEF Copies
  <2>4. \A c \in 1..Chunks : c # m => Copies(session, c)' = Copies(session, c)
    BY <2>0, <2>1, <2>2 DEF Copies
  <2>5. pc' = "upload" => chunk' = chunk + 1
    BY <1>4 DEF UploadChunk
  <2>6. pc' = "remember" => chunk = Chunks
    BY <1>2, <1>4, <2>2 DEF UploadChunk
  <2>7. UpOnce(m)'
    BY <2>1, <2>2, <2>3 DEF UpOnce, PieceData
  <2>8. ASSUME NEW c \in 1..Chunks, c < m PROVE UpOnce(c)'
    <3>1. UpOnce(c) /\ Copies(session, c)' = Copies(session, c)
      BY <1>1, <2>0, <2>2, <2>4, <2>8 DEF ExactInv, IsUp
    <3>2. drive \subseteq drive'
      BY <2>1
    <3> QED
      BY <2>2, <3>1, <3>2 DEF UpOnce, PieceData
  <2>9. \A c \in 1..Chunks : IsUp(c)' => c <= m
    BY <1>2, <2>0, <2>2, <2>5, <2>6 DEF IsUp
  <2>10. \A c \in 1..Chunks : IsUp(c)' => UpOnce(c)'
    BY <1>2, <2>0, <2>7, <2>8, <2>9
  <2>11. pc' = "upload" => \A c \in 1..Chunks : c >= chunk' => Copies(session, c)' = {}
    BY <1>1, <1>2, <2>0, <2>2, <2>4, <2>5 DEF ExactInv
  <2> QED
    BY <1>3, <2>10, <2>11
<1>5. CASE BeginPiece
  <2>1. pc' = "upload" /\ chunk' = 1 /\ session' = lastId + 1 /\ UNCHANGED drive
    BY <1>5 DEF BeginPiece
  <2>2. \A f \in drive : f.session # session'
    BY <2>1 DEF SessionInv, PieceInv, RunType
  <2>3. \A c \in 1..Chunks : Copies(session, c)' = {} /\ ~IsUp(c)'
    BY <2>1, <2>2 DEF Copies, IsUp
  <2> QED
    BY <1>3, <2>3
<1>6. CASE PullStep
  <2>1. UNCHANGED <<drive, pc, session, chunk, build, cut, place, records>>
    BY <1>6, PullLeaves DEF run
  <2> QED
    BY <1>1, <1>3, <2>1 DEF ExactInv, IsUp, UpOnce, Copies, Piece, Target, PieceData
<1>7. CASE ~(UploadChunk \/ BeginPiece \/ PullStep)
  <2>1. pc' \notin {"upload", "remember"}
    BY <1>1, <1>7
    DEF Next, Step, StartRun, Fetch, FetchFails, SkipPiece, UploadFails, CleanUp, CleanedUp,
        CleanUpFails, FailTarget, Remember, RecordEntry, EndRun, Crash
  <2> QED
    BY <1>3, <2>1 DEF IsUp
<1> QED
  BY <1>4, <1>5, <1>6, <1>7

\* All runs cut a file into the same number of pieces.
OneCut == \A c, d \in Cuts : c = d

\* Whatever calls fail for good and however often the process is killed, what the
\* ledger lists as pushed can be pulled, if it is no bundle, --max-piece-size stays
\* the same and no answer of a create was lost.
THEOREM PlainFilesRestore == OneCut => (PushAndPull => []PlainEntriesRestore)
<1> SUFFICES ASSUME OneCut PROVE PushAndPull => []PlainEntriesRestore
  OBVIOUS
<1> DEFINE Inv == PieceInv /\ SessionInv /\ ExactInv
<1>1. PushAndPullInit => Inv
  <2> SUFFICES ASSUME Init PROVE Inv
    BY DEF PushAndPullInit
  <2>1. \A r : ~Noted(r)
    BY DEF Init, Noted
  <2>2. \A c : ~IsUp(c)
    BY DEF Init, IsUp
  <2> QED
    BY <2>1, <2>2, FinishedInit DEF FinishedInv, ExactInv, Init
<1>2. Inv /\ [PushAndPullNext]_allVars => Inv'
  <2> SUFFICES ASSUME Inv, [PushAndPullNext]_allVars PROVE Inv'
    OBVIOUS
  <2>1. CASE UNCHANGED allVars
    <3>1. PieceInv'
      BY <2>1, PieceUnchanged
    <3>2. SessionInv'
      BY <2>1 DEF allVars, vars, ledger, run, SessionInv, Noted, AtPiece
    <3>3. ExactInv'
      BY <2>1
      DEF allVars, vars, ledger, run, ExactInv, NoAnswerLost, Noted, PieceRestores, IsUp,
          UpOnce, Copies, Target, Piece, PieceData
    <3> QED
      BY <3>1, <3>2, <3>3
  <2>2. CASE Next \/ PullStep
    BY <2>2, PieceNext, SessionNext, ExactNext
  <2> QED
    BY <2>1, <2>2 DEF PushAndPullNext
<1>3. Inv => PlainEntriesRestore
  <2> SUFFICES ASSUME Inv, NoAnswerLost, NEW t \in DOMAIN entries \ Bundles PROVE Restores(t)
    BY DEF PlainEntriesRestore, NoAnswerLost
  <2> DEFINE pieces == entries[t].pieces
  <2>1. entries[t].build = 1 /\ Len(pieces) \in Cuts
        /\ \A p \in DOMAIN pieces : pieces[p] \in PieceOf(t, p)
    BY DEF PieceInv, EntriesType, PiecesOf, BuildsOf
  <2>2. ASSUME NEW p \in DOMAIN pieces
        PROVE  PieceRestores(pieces[p]) /\ pieces[p].data = PieceData(entries[t].build, Len(pieces), p)
    <3>1. Noted(pieces[p])
      BY DEF Noted
    <3>2. PieceRestores(pieces[p])
      BY <3>1 DEF ExactInv
    <3>3. pieces[p].data \in [build: {1}, cut: Cuts, piece: {p}]
      BY <2>1 DEF PieceOf, BuildsOf
    <3>4. pieces[p].data = [build |-> 1, cut |-> Len(pieces), piece |-> p]
      BY <2>1, <3>3 DEF OneCut
    <3> QED
      BY <2>1, <3>2, <3>4 DEF PieceData
  <2> QED
    BY <2>2 DEF Restores
<1> QED
  BY <1>1, <1>2, <1>3, PTL DEF PushAndPull

-----------------------------------------------------------------------------
(* A pull beside the push: where it is, and what it has loaded.            *)

Pulling == at \in {"target", "piece", "copy"}

\* The digests recorded for the pieces of a target, and what a pull joins of them.
Joinable == [build: Ids, cut: Cuts, piece: Nat]

PullWhere ==
  /\ at \in {"idle", "target", "piece", "copy", "done", "failed"}
  /\ turn \in 0..(Len(Order) + 1)
  /\ pulls \in 0..MaxPulls
  /\ force \in BOOLEAN
  /\ Pulling => turn # 0 /\ pulls # 0
  /\ Pulling /\ AtCurrent => Current \in chosen
  /\ at \in {"piece", "copy"} => AtCurrent
  /\ at \in {"done", "failed"} => ~AtCurrent /\ turn # 0
  /\ bad \cup got \subseteq chosen
  /\ at = "done" => bad = {}
  /\ at = "failed" => bad # {}

ListedType ==
  /\ chosen \subseteq DOMAIN listed
  /\ \A t \in DOMAIN listed :
       /\ t \in Targets
       /\ listed[t].build \in Ids
       /\ Len(listed[t].pieces) \in Cuts
       /\ DOMAIN listed[t].pieces = 1..Len(listed[t].pieces)
       /\ \A p \in DOMAIN listed[t].pieces : listed[t].pieces[p].data \in Joinable

JoinedType ==
  /\ joined \in Seq(Joinable)
  /\ at \notin {"piece", "copy"} => joined = << >>
  /\ at \in {"piece", "copy"} => Len(joined) <= Len(Pieces)
  /\ at = "copy" => joined # << >> /\ joined[1].build = listed[Current].build

LoadedInv == PullWhere /\ ListedType /\ JoinedType

-----------------------------------------------------------------------------
(* The output directory.                                                   *)

\* The pull has still to name an output of t.
Ahead(t) ==
  \E j \in DOMAIN Order :
    /\ Order[j] = t
    /\ Pulling
    /\ j >= turn /\ (j = turn => at # "copy")

\* The outputs of a bundle are numbered without a gap, at most one for each pull.
NamesInv ==
  \A n \in DOMAIN recovered :
    /\ n.target \in Targets /\ n.n \in Nat
    /\ n = [target |-> n.target, n |-> n.n]
    /\ n.target \notin Bundles => n.n = 0
    /\ n.n < pulls
    /\ n.target \in Bundles /\ Ahead(n.target) => n.n + 1 < pulls
    /\ \A m \in 0..n.n : [target |-> n.target, n |-> m] \in DOMAIN recovered
    /\ recovered[n].build \in Ids /\ recovered[n].whole \in BOOLEAN

LatestInv ==
  at = "copy" =>
    \E n \in DOMAIN recovered :
      /\ n.target = Current
      /\ \A m \in DOMAIN recovered : m.target = Current => m.n <= n.n

\* What is known of a target the pull is past.
Accounted(t) ==
  \/ t \in got /\ Fetched(t)
  \/ t \in bad
  \/ Present(t) /\ ~force

AccountsInv ==
  at # "idle" => \A j \in 1..(turn - 1) : Order[j] \in chosen => Accounted(Order[j])

PullInv == LoadedInv /\ NamesInv /\ LatestInv /\ AccountsInv

-----------------------------------------------------------------------------
(* A pull keeps to what it has loaded.                                     *)

LEMMA PullUnchanged == PullInv /\ UNCHANGED pullState => PullInv'
BY DEF pullState, PullInv, LoadedInv, PullWhere, ListedType, JoinedType, NamesInv, LatestInv,
       AccountsInv, Pulling, AtCurrent, Current, Pieces, Ahead, Accounted, Fetched, Present

LEMMA PullInvInit == PushAndPullInit => PullInv
<1> SUFFICES ASSUME PullInit PROVE PullInv
  BY DEF PushAndPullInit
<1> USE PullAssumption, Places DEF PullInit
<1>1. PullWhere
  <2>1. at = "idle" /\ turn = 0 /\ ~AtCurrent
    BY DEF AtCurrent
  <2>2. bad \cup got \subseteq chosen
    OBVIOUS
  <2>3. force \in BOOLEAN
    BY Zenon
  <2> QED
    BY <2>1, <2>2, <2>3 DEF PullWhere, Pulling
<1>2. ListedType /\ JoinedType
  BY DEF ListedType, JoinedType
<1>3. NamesInv /\ LatestInv /\ AccountsInv
  BY DEF NamesInv, LatestInv, AccountsInv
<1> QED
  BY <1>1, <1>2, <1>3 DEF PullInv, LoadedInv

\* The entries of the ledger have what a pull needs of them.
LEMMA EntriesListed ==
  ASSUME PieceInv, NEW t \in DOMAIN entries
  PROVE  /\ t \in Targets
         /\ entries[t].build \in Ids
         /\ Len(entries[t].pieces) \in Cuts
         /\ DOMAIN entries[t].pieces = 1..Len(entries[t].pieces)
         /\ \A p \in DOMAIN entries[t].pieces : entries[t].pieces[p].data \in Joinable
<1> DEFINE pieces == entries[t].pieces
<1>1. /\ t \in Targets /\ entries[t].build \in Ids /\ Len(pieces) \in Cuts
      /\ PiecesOf(t, pieces)
  BY BuildsAreIds DEF PieceInv, EntriesType
<1>2. DOMAIN pieces = 1..Len(pieces) /\ Len(pieces) \in Nat
  BY <1>1 DEF PiecesOf
<1>3. ASSUME NEW p \in DOMAIN pieces PROVE pieces[p].data \in Joinable
  <2>1. pieces[p] \in PieceOf(t, p) /\ p \in Nat
    BY <1>1, <1>2 DEF PiecesOf
  <2>2. pieces[p].data \in [build: BuildsOf(t), cut: Cuts, piece: {p}]
    BY <2>1 DEF PieceOf
  <2> QED
    BY <2>1, <2>2, BuildsAreIds DEF Joinable
<1> QED
  BY <1>1, <1>2, <1>3

\* Going on to the next target of those wanted.
LEMMA NextOfWanted ==
  ASSUME NEW i \in 0..Len(Order), NEW wanted, NextWanted(i, wanted)
  PROVE  /\ turn' \in (i + 1)..(Len(Order) + 1)
         /\ turn' \in DOMAIN Order => Order[turn'] \in wanted
         /\ \A j \in (i + 1)..(turn' - 1) : Order[j] \notin wanted
BY Places DEF NextWanted

LEMMA AtPlace == ASSUME PullWhere, AtCurrent PROVE turn \in 1..Len(Order) /\ Current \in Targets
BY Places DEF PullWhere, AtCurrent, Current

\* What a step that is done with the current target leaves to show.
LEMMA LoadedNextTarget ==
  ASSUME LoadedInv, AtCurrent, Pulling, NextTarget, UNCHANGED <<listed, chosen, force, pulls>>,
         bad' \cup got' \subseteq bad \cup got \cup {Current}
  PROVE  LoadedInv'
<1> USE DEF LoadedInv, NextTarget
<1>1. /\ turn' \in 1..(Len(Order) + 1)
      /\ turn' \in DOMAIN Order => Order[turn'] \in chosen
  BY AtPlace, NextOfWanted
<1>2. Current \in chosen
  BY DEF PullWhere
<1>3. PullWhere'
  BY <1>1, <1>2 DEF PullWhere, Pulling, AtCurrent, Current
<1>4. ListedType'
  BY DEF ListedType
<1>5. JoinedType'
  BY DEF JoinedType
<1> QED
  BY <1>3, <1>4, <1>5

LEMMA LoadedStart == PieceInv /\ LoadedInv /\ StartPull => LoadedInv'
<1> SUFFICES ASSUME PieceInv, LoadedInv, StartPull PROVE LoadedInv'
  OBVIOUS
<1> USE DEF StartPull
<1>1. /\ turn' \in 1..(Len(Order) + 1)
      /\ turn' \in DOMAIN Order => Order[turn'] \in chosen'
  BY NextOfWanted, Places
<1>2. pulls' \in 0..MaxPulls /\ pulls' # 0
  BY PullAssumption DEF LoadedInv, PullWhere
<1>3. PullWhere'
  BY <1>1, <1>2 DEF PullWhere, Pulling, AtCurrent, Current
<1>4. ListedType'
  BY EntriesListed DEF ListedType
<1>5. JoinedType'
  BY DEF JoinedType
<1> QED
  BY <1>3, <1>4, <1>5 DEF LoadedInv

LEMMA LoadedPiece == LoadedInv /\ PullPiece => LoadedInv'
<1> SUFFICES ASSUME LoadedInv, PullPiece PROVE LoadedInv'
  OBVIOUS
<1> USE DEF LoadedInv, PullPiece
<1>1. PullWhere' /\ ListedType'
  BY DEF PullWhere, ListedType, Pulling, AtCurrent, Current
<1>2. Current \in DOMAIN listed
  BY DEF PullWhere, Pulling, ListedType
<1> DEFINE d == Pieces[Len(joined) + 1].data
<1>3. Len(Pieces) \in Nat /\ DOMAIN Pieces = 1..Len(Pieces)
  BY <1>2, CutsArePositive DEF ListedType, Pieces
<1>4. joined \in Seq(Joinable) /\ Len(joined) \in Nat
  BY DEF JoinedType
<1>5. d \in Joinable
  BY <1>2, <1>3, <1>4 DEF ListedType, Pieces
<1>6. joined' = Append(joined, d)
  OBVIOUS
<1> HIDE DEF d
<1>7. joined' \in Seq(Joinable) /\ Len(joined') = Len(joined) + 1
  BY <1>4, <1>5, <1>6
<1>8. Len(joined') <= Len(Pieces) /\ Pieces' = Pieces
  BY <1>3, <1>4, <1>7 DEF Pieces, Current
<1> QED
  BY <1>1, <1>7, <1>8 DEF JoinedType

\* The joined pieces, once they have the digest of the entry.
LEMMA DecodedBuild ==
  ASSUME LoadedInv, Decoded
  PROVE  joined # << >> /\ joined[1].build = listed[Current].build /\ listed[Current].build \in Ids
<1>1. Current \in DOMAIN listed
  BY DEF LoadedInv, PullWhere, Pulling, ListedType, Decoded
<1>2. Len(Pieces) \in Nat \ {0} /\ listed[Current].build \in Ids
  BY <1>1, CutsArePositive DEF LoadedInv, ListedType, Pieces
<1>3. joined \in Seq(Joinable) /\ Len(joined) = Len(Pieces)
  BY DEF LoadedInv, JoinedType, Decoded
<1>4. 1 \in DOMAIN joined
  BY <1>2, <1>3
<1>5. joined[1] = PieceData(listed[Current].build, Len(Pieces), 1)
  BY <1>4 DEF Decoded, DigestFits
<1> QED
  BY <1>2, <1>4, <1>5 DEF PieceData

LEMMA LoadedNext == PieceInv /\ LoadedInv /\ PullStep => LoadedInv'
<1> SUFFICES ASSUME PieceInv, LoadedInv, PullStep PROVE LoadedInv'
  OBVIOUS
<1>1. CASE StartPull
  BY <1>1, LoadedStart
<1>2. CASE SkipPresent
  BY <1>2, LoadedNextTarget DEF SkipPresent, Pulling
<1>3. CASE TakeUp
  <2>1. PullWhere'
    BY <1>3 DEF TakeUp, LoadedInv, PullWhere, Pulling, AtCurrent, Current
  <2>2. ListedType'
    BY <1>3 DEF TakeUp, LoadedInv, ListedType
  <2>3. Current \in DOMAIN listed
    BY <1>3 DEF TakeUp, LoadedInv, PullWhere, Pulling, ListedType
  <2>4. Len(Pieces) \in Nat
    BY <2>3, CutsArePositive DEF LoadedInv, ListedType, Pieces
  <2>5. joined = << >> /\ joined' = joined /\ at' = "piece" /\ Pieces' = Pieces
    BY <1>3 DEF TakeUp, LoadedInv, JoinedType, Pieces, Current
  <2>6. JoinedType'
    BY <2>4, <2>5 DEF JoinedType
  <2> QED
    BY <2>1, <2>2, <2>6 DEF LoadedInv
<1>4. CASE PullPiece
  BY <1>4, LoadedPiece
<1>5. CASE PieceUnreadable \/ PullRefused \/ Mismatch \/ CopyFails
  <2>1. AtCurrent /\ Pulling /\ Fails
    BY <1>5 DEF PieceUnreadable, PullRefused, Mismatch, CopyFails, Pulling, LoadedInv, PullWhere
  <2> QED
    BY <2>1, LoadedNextTarget DEF Fails
<1>6. CASE MoveOut \/ EndCopy
  <2>1. /\ AtCurrent /\ Pulling /\ NextTarget /\ got' = got \cup {Current}
        /\ UNCHANGED <<listed, chosen, force, bad, pulls>>
    BY <1>6 DEF MoveOut, EndCopy, Decoded, Pulling, LoadedInv, PullWhere
  <2> QED
    BY <2>1, LoadedNextTarget
<1>7. CASE StartCopy
  <2>1. PullWhere'
    BY <1>7 DEF StartCopy, Decoded, LoadedInv, PullWhere, Pulling, AtCurrent, Current
  <2>2. ListedType'
    BY <1>7 DEF StartCopy, LoadedInv, ListedType
  <2>3. JoinedType'
    BY <1>7, DecodedBuild DEF StartCopy, Decoded, LoadedInv, JoinedType, Pieces, Current
  <2> QED
    BY <2>1, <2>2, <2>3 DEF LoadedInv
<1>8. CASE EndPull
  BY <1>8 DEF EndPull, LoadedInv, PullWhere, ListedType, JoinedType, Pulling, AtCurrent, Current
<1>9. CASE PullKilled
  <2>1. at' = "idle" /\ turn' = 0 /\ ~AtCurrent' /\ pulls' = pulls
    BY <1>9, Places DEF PullKilled, AtCurrent
  <2>5. force' \in BOOLEAN
    BY <1>9, Zenon DEF PullKilled
  <2>2. bad' \cup got' \subseteq chosen'
    BY <1>9 DEF PullKilled
  <2>3. PullWhere'
    BY <2>1, <2>2, <2>5, Places DEF LoadedInv, PullWhere, Pulling
  <2>4. ListedType' /\ JoinedType'
    BY <1>9 DEF PullKilled, ListedType, JoinedType
  <2> QED
    BY <2>3, <2>4 DEF LoadedInv
<1> QED
  BY <1>1, <1>2, <1>3, <1>4, <1>5, <1>6, <1>7, <1>8, <1>9 DEF PullStep

-----------------------------------------------------------------------------
(* Names in the output directory.                                          *)

\* A set of natural numbers that is not empty has a least one.
NatLess == {ss \in Nat \X Nat : ss[1] < ss[2]}

LEMMA NatLessWellFounded == IsWellFoundedOn(NatLess, Nat)
<1>1. OpToRel(<, Nat) = NatLess
  BY Zenon DEF OpToRel, NatLess
<1> QED
  BY <1>1, NatLessThanWellFounded, Zenon

LEMMA LeastOf ==
  ASSUME NEW S \in SUBSET Nat, S # {}
  PROVE  Min(S) \in S /\ \A y \in S : Min(S) <= y
<1>1. PICK x \in S : \A y \in S : ~(<<y, x>> \in NatLess)
  BY NatLessWellFounded, WFMin
<1>2. \A y \in S : ~(y < x)
  BY <1>1 DEF NatLess
<1>3. x \in S /\ \A y \in S : x <= y
  BY <1>2
<1> QED
  BY <1>3 DEF Min

\* What a name has to be for the pull to write under it.
Writable(o) ==
  /\ o = [target |-> Current, n |-> o.n]
  /\ o.target = Current /\ o.n \in Nat /\ o.n < pulls
  /\ Current \notin Bundles => o.n = 0
  /\ \A k \in 0..o.n : k # o.n => [target |-> Current, n |-> k] \in DOMAIN recovered
  /\ \A m \in DOMAIN recovered : m.target = Current => m.n <= o.n

LEMMA FreeNameWritable ==
  ASSUME LoadedInv, NamesInv, at = "piece"
  PROVE  Writable(OutputName(Current))
<1> DEFINE o == OutputName(Current)
<1>0. AtCurrent /\ Current \in Targets /\ turn \in DOMAIN Order /\ Order[turn] = Current
  BY AtPlace DEF LoadedInv, PullWhere, AtCurrent, Current
<1>1. pulls \in 1..MaxPulls /\ MaxPulls \in Nat
  BY PullAssumption DEF LoadedInv, PullWhere, Pulling
<1>2. o.target = Current /\ o = [target |-> Current, n |-> o.n]
  BY DEF OutputName
<1>3. CASE Current \notin Bundles
  <2>1. o.n = 0
    BY <1>3 DEF OutputName
  <2>2. \A m \in DOMAIN recovered : m.target = Current => m.n <= o.n
    BY <1>3, <2>1 DEF NamesInv
  <2> QED
    BY <1>1, <1>2, <1>3, <2>1, <2>2 DEF Writable
<1>4. CASE Current \in Bundles
  <2> DEFINE S == {n \in 0..MaxPulls : [target |-> Current, n |-> n] \notin DOMAIN recovered}
  <2>1. Ahead(Current)
    BY <1>0 DEF Ahead, Pulling, LoadedInv, PullWhere
  <2>2. ASSUME NEW n \in 0..MaxPulls, [target |-> Current, n |-> n] \in DOMAIN recovered
        PROVE  n + 1 < pulls
    <3> DEFINE r == [target |-> Current, n |-> n]
    <3>1. r \in DOMAIN recovered /\ r.target = Current /\ r.n = n
      BY <2>2
    <3> HIDE DEF r
    <3> QED
      BY <1>4, <2>1, <3>1 DEF NamesInv
  <2>3. pulls - 1 \in S /\ S \in SUBSET Nat
    BY <1>1, <2>2
  <2>4. o.n = Min(S)
    BY <1>4 DEF OutputName
  <2> DEFINE m == o.n
  <2>5. m \in S /\ \A y \in S : m <= y
    BY <2>3, <2>4, LeastOf
  <2> HIDE DEF o, m, S
  <2>6. m \in Nat /\ m <= pulls - 1
    BY <2>3, <2>5
  <2>7. \A k \in 0..m : k # m => [target |-> Current, n |-> k] \in DOMAIN recovered
    <3> SUFFICES ASSUME NEW k \in 0..m, k # m
                 PROVE  [target |-> Current, n |-> k] \in DOMAIN recovered
      OBVIOUS
    <3>1. k \notin S /\ k \in 0..MaxPulls
      BY <1>1, <2>5, <2>6
    <3> QED
      BY <3>1 DEF S
  <2>8. ASSUME NEW r \in DOMAIN recovered, r.target = Current PROVE r.n <= m
    <3>1. r.n \in Nat /\ \A k \in 0..r.n : [target |-> Current, n |-> k] \in DOMAIN recovered
      BY <2>8 DEF NamesInv
    <3>2. [target |-> Current, n |-> m] \notin DOMAIN recovered
      BY <2>5 DEF S
    <3>3. m \notin 0..r.n
      BY <3>1, <3>2
    <3> QED
      BY <2>6, <3>1, <3>3
  <2> QED
    BY <1>1, <1>2, <1>4, <2>6, <2>7, <2>8 DEF Writable, m, o
<1> QED
  BY <1>3, <1>4

\* The name a copy is written under is the one it was begun under.
LEMMA CopiedWritable ==
  ASSUME NamesInv, LatestInv, at = "copy"
  PROVE  Writable(Copied) /\ Copied \in DOMAIN recovered
<1> DEFINE names == {n \in DOMAIN recovered : n.target = Current}
           c == Copied
<1>1. \E n \in names : \A m \in names : m.n <= n.n
  BY DEF LatestInv
<1>2. c \in names /\ \A m \in names : m.n <= c.n
  BY <1>1 DEF Copied
<1> HIDE DEF c
<1> QED
  BY <1>2 DEF Writable, NamesInv, c

LEMMA WriteKeepsNames ==
  ASSUME NamesInv, NEW o, Writable(o), NEW b \in Ids, NEW w \in BOOLEAN, Current \in Targets,
         recovered' = With(recovered, o, [build |-> b, whole |-> w]), pulls' = pulls,
         \A t : Ahead(t)' => Ahead(t) /\ t # Current,
         pulls \in Nat
  PROVE  NamesInv'
<1> DEFINE v == [build |-> b, whole |-> w]
<1>0. recovered' = With(recovered, o, v)
  OBVIOUS
<1>2. v.build \in Ids /\ v.whole \in BOOLEAN
  OBVIOUS
<1> HIDE DEF v
<1>1. /\ DOMAIN recovered' = DOMAIN recovered \cup {o}
      /\ recovered'[o] = v
      /\ \A x \in DOMAIN recovered : x # o => recovered'[x] = recovered[x]
  BY <1>0 DEF With
<1>3. /\ o.target \in Targets /\ o.n \in Nat
      /\ o = [target |-> o.target, n |-> o.n]
      /\ o.target \notin Bundles => o.n = 0
      /\ o.n < pulls
      /\ o.target \in Bundles /\ Ahead(o.target)' => o.n + 1 < pulls
      /\ \A m \in 0..o.n : [target |-> o.target, n |-> m] \in DOMAIN recovered'
  BY <1>1 DEF Writable
<1>4. ASSUME NEW n \in DOMAIN recovered, n # o
      PROVE  /\ n.target \in Targets /\ n.n \in Nat
             /\ n = [target |-> n.target, n |-> n.n]
             /\ n.target \notin Bundles => n.n = 0
             /\ n.n < pulls
             /\ n.target \in Bundles /\ Ahead(n.target)' => n.n + 1 < pulls
             /\ \A m \in 0..n.n : [target |-> n.target, n |-> m] \in DOMAIN recovered'
             /\ recovered'[n].build \in Ids /\ recovered'[n].whole \in BOOLEAN
  BY <1>1, <1>4 DEF NamesInv
<1> QED
  BY <1>1, <1>2, <1>3, <1>4 DEF NamesInv

LEMMA TargetsApart ==
  ASSUME NEW i \in DOMAIN Order, NEW j \in DOMAIN Order, Order[i] = Order[j]
  PROVE  i = j
BY BatchAssumption

\* Going on leaves fewer names to take.
LEMMA FewerAhead ==
  ASSUME LoadedInv, AtCurrent, Pulling, turn' \in Nat, turn' > turn \/ (turn' = turn /\ at' = "copy")
  PROVE  \A t : Ahead(t)' => Ahead(t) /\ t # Current
<1>1. turn \in DOMAIN Order /\ turn \in Nat
  BY Places DEF AtCurrent
<1> SUFFICES ASSUME NEW t, NEW j \in DOMAIN Order, Order[j] = t, j >= turn',
                    j = turn' => at' # "copy"
             PROVE  Ahead(t) /\ t # Current
  BY DEF Ahead
<1>2. j > turn
  BY <1>1, Places
<1> QED
  BY <1>1, <1>2, TargetsApart, Places DEF Ahead, Current

-----------------------------------------------------------------------------
(* A pull accounts for what it was asked for.                              *)

\* The three ways to write an output, and what each writes.
LEMMA WriteSteps ==
  ASSUME LoadedInv, NamesInv, LatestInv, MoveOut \/ StartCopy \/ EndCopy
  PROVE  /\ AtCurrent /\ Pulling /\ Current \in Targets
         /\ listed[Current].build \in Ids
         /\ \E o : /\ Writable(o)
                   /\ recovered' = With(recovered, o, [build |-> listed[Current].build,
                                                      whole |-> at' # "copy"])
                   /\ at' # "copy" => NextTarget /\ got' = got \cup {Current}
<1>1. AtCurrent /\ Pulling
  BY DEF MoveOut, StartCopy, EndCopy, Decoded, Pulling, LoadedInv, PullWhere
<1>2. Current \in Targets /\ listed[Current].build \in Ids
  BY <1>1, AtPlace DEF LoadedInv, PullWhere, ListedType
<1>3. CASE MoveOut \/ StartCopy
  <2>1. at = "piece" /\ Decoded
    BY <1>3 DEF MoveOut, StartCopy, Decoded
  <2>2. joined[1].build = listed[Current].build
    BY <2>1, DecodedBuild
  <2>3. Writable(OutputName(Current))
    BY <2>1, FreeNameWritable
  <2>4. Writes(OutputName(Current), at' # "copy")
    BY <1>3 DEF MoveOut, StartCopy, NextTarget
  <2>5. at' # "copy" => NextTarget /\ got' = got \cup {Current}
    BY <1>3 DEF MoveOut, StartCopy
  <2> QED
    BY <1>1, <1>2, <2>2, <2>3, <2>4, <2>5 DEF Writes
<1>4. CASE EndCopy
  <2>1. at = "copy" /\ at' = "target"
    BY <1>4 DEF EndCopy, NextTarget
  <2>2. joined[1].build = listed[Current].build
    BY <2>1 DEF LoadedInv, JoinedType
  <2>3. Writes(Copied, at' # "copy")
    BY <1>4, <2>1 DEF EndCopy
  <2> QED
    BY <1>1, <1>2, <1>4, <2>1, <2>2, <2>3, CopiedWritable DEF Writes, EndCopy
<1> QED
  BY <1>3, <1>4

LEMMA WriteTurn ==
  ASSUME LoadedInv, MoveOut \/ StartCopy \/ EndCopy
  PROVE  turn' \in Nat /\ (turn' > turn \/ (turn' = turn /\ at' = "copy"))
<1>1. AtCurrent /\ turn \in 1..Len(Order)
  BY AtPlace DEF MoveOut, StartCopy, EndCopy, Decoded, LoadedInv, PullWhere
<1>2. CASE StartCopy
  BY <1>1, <1>2 DEF StartCopy
<1>3. CASE MoveOut \/ EndCopy
  <2>1. NextWanted(turn, chosen)
    BY <1>3 DEF MoveOut, EndCopy, NextTarget
  <2>2. turn' \in (turn + 1)..(Len(Order) + 1)
    BY <1>1, <2>1, Places, NextOfWanted
  <2> QED
    BY <1>1, <2>2, Places
<1> QED
  BY <1>2, <1>3

\* A target that is accounted for stays so, whatever is written for another.
LEMMA AccountedStays ==
  ASSUME NEW t, Accounted(t), listed' = listed, force' = force, got \subseteq got',
         bad \subseteq bad',
         \A n \in DOMAIN recovered :
           n \in DOMAIN recovered' /\ (n.target = t => recovered'[n] = recovered[n])
  PROVE  Accounted(t)'
BY DEF Accounted, Fetched, Present

\* What is left to show of a step that goes on to the next target.
LEMMA AccountsNextTarget ==
  ASSUME LoadedInv, AccountsInv, AtCurrent, Pulling, NextTarget,
         UNCHANGED <<listed, chosen, force>>, got \subseteq got', bad \subseteq bad',
         NEW c, c = Current, Accounted(c)',
         \A n \in DOMAIN recovered :
           n \in DOMAIN recovered' /\ (n.target # c => recovered'[n] = recovered[n])
  PROVE  AccountsInv'
<1>1. turn \in 1..Len(Order) /\ Len(Order) \in Nat
  BY AtPlace, Places DEF LoadedInv
<1>2. turn' \in (turn + 1)..(Len(Order) + 1)
      /\ \A j \in (turn + 1)..(turn' - 1) : Order[j] \notin chosen
  BY <1>1, NextOfWanted DEF NextTarget
<1>3. PICK i : i = turn /\ i \in DOMAIN Order
  BY <1>1, Places
<1>8. PICK k : k = turn'
  OBVIOUS
<1>9. /\ k \in Nat /\ k <= Len(Order) + 1
      /\ \A l \in (i + 1)..(k - 1) : Order[l] \notin chosen
  <2>1. turn' \in Nat /\ turn' <= Len(Order) + 1
    BY <1>1, <1>2
  <2>2. \A l \in (i + 1)..(k - 1) : Order[l] \notin chosen
    BY <1>2, <1>3, <1>8
  <2> QED
    BY <1>8, <2>1, <2>2
<1> SUFFICES ASSUME NEW j \in 1..(k - 1), Order[j] \in chosen PROVE Accounted(Order[j])'
  BY <1>8 DEF AccountsInv
<1>4. c = Order[i] /\ i \in Nat
  BY <1>3, Places DEF Current
<1>5. j \in DOMAIN Order /\ j \in Nat
  <2>1. j \in 1..Len(Order)
    BY <1>1, <1>9
  <2> QED
    BY <2>1, Places
<1>6. CASE j = i
  BY <1>4, <1>6
<1>7. CASE j # i
  <2>1. Order[j] # c
    BY <1>3, <1>4, <1>5, <1>7, TargetsApart
  <2>6. j \in 1..(i - 1)
    BY <1>4, <1>5, <1>7, <1>9
  <2>2. Accounted(Order[j])
    BY <1>3, <2>6 DEF AccountsInv, Pulling
  <2>3. \A n \in DOMAIN recovered :
          n \in DOMAIN recovered' /\ (n.target = Order[j] => recovered'[n] = recovered[n])
    BY <2>1
  <2> QED
    BY <2>2, <2>3, AccountedStays
<1> QED
  BY <1>6, <1>7

LEMMA OutputsWrite ==
  ASSUME PullInv, MoveOut \/ StartCopy \/ EndCopy
  PROVE  NamesInv' /\ LatestInv' /\ AccountsInv'
<1> USE DEF PullInv
<1>1. PICK o : /\ Writable(o)
               /\ recovered' = With(recovered, o, [build |-> listed[Current].build,
                                                  whole |-> at' # "copy"])
               /\ at' # "copy" => NextTarget /\ got' = got \cup {Current}
  BY WriteSteps
<1>2. AtCurrent /\ Pulling /\ Current \in Targets /\ listed[Current].build \in Ids
  BY WriteSteps
<1>3. UNCHANGED <<listed, chosen, force, bad, pulls>>
  BY DEF MoveOut, StartCopy, EndCopy
<1>4. \A t : Ahead(t)' => Ahead(t) /\ t # Current
  BY <1>2, WriteTurn, FewerAhead
<1> DEFINE v == [build |-> listed[Current].build, whole |-> at' # "copy"]
<1>5. /\ DOMAIN recovered' = DOMAIN recovered \cup {o}
      /\ recovered'[o] = v
      /\ \A x \in DOMAIN recovered : x # o => recovered'[x] = recovered[x]
  <2>1. recovered' = With(recovered, o, v)
    BY <1>1
  <2> HIDE DEF v
  <2> QED
    BY <2>1 DEF With
<1>6. NamesInv'
  <2>1. pulls \in Nat
    BY PullAssumption DEF LoadedInv, PullWhere
  <2>2. (at' # "copy") \in BOOLEAN
    OBVIOUS
  <2> QED
    BY <1>1, <1>2, <1>3, <1>4, <2>1, <2>2, WriteKeepsNames
<1>7. PICK c : c = Current
  OBVIOUS
<1>8. o.target = c /\ \A m \in DOMAIN recovered : m.target = c => m.n <= o.n
  BY <1>1, <1>7 DEF Writable
<1>9. CASE StartCopy
  <2>1. Current' = c /\ turn' = turn /\ UNCHANGED got /\ at' = "copy" /\ at # "idle"
    BY <1>7, <1>9 DEF StartCopy, Current, Decoded
  <2>2. o.n <= o.n
    BY <1>1 DEF Writable
  <2>3. LatestInv'
    BY <1>5, <1>8, <2>1, <2>2 DEF LatestInv
  <2>4. ASSUME NEW j \in 1..(turn - 1), Order[j] \in chosen PROVE Accounted(Order[j])'
    <3>1. Accounted(Order[j])
      BY <2>1, <2>4 DEF AccountsInv
    <3>2. turn \in 1..Len(Order) /\ Len(Order) \in Nat /\ turn \in DOMAIN Order /\ j \in DOMAIN Order
      BY <1>2, AtPlace, Places DEF LoadedInv
    <3>3. Order[j] # c
      BY <1>7, <3>2, TargetsApart DEF Current
    <3>4. \A n \in DOMAIN recovered :
            n \in DOMAIN recovered' /\ (n.target = Order[j] => recovered'[n] = recovered[n])
      BY <1>5, <1>8, <3>3
    <3> QED
      BY <1>3, <2>1, <3>1, <3>4, AccountedStays
  <2>5. AccountsInv'
    BY <1>3, <2>1, <2>4 DEF AccountsInv
  <2> QED
    BY <1>6, <2>3, <2>5
<1>10. CASE MoveOut \/ EndCopy
  <2>1. NextTarget /\ got' = got \cup {c} /\ at' = "target"
    BY <1>1, <1>7, <1>10 DEF MoveOut, EndCopy, NextTarget
  <2>2. LatestInv'
    BY <2>1 DEF LatestInv
  <2>3. Accounted(c)'
    BY <1>3, <1>5, <1>7, <1>8, <2>1 DEF Accounted, Fetched
  <2>4. \A n \in DOMAIN recovered :
          n \in DOMAIN recovered' /\ (n.target # c => recovered'[n] = recovered[n])
    BY <1>5, <1>8
  <2>5. AccountsInv'
    BY <1>2, <1>3, <1>7, <2>1, <2>3, <2>4, AccountsNextTarget
  <2> QED
    BY <1>6, <2>2, <2>5
<1> QED
  BY <1>9, <1>10

LEMMA PullInvNext == PieceInv /\ PullInv /\ PullStep => PullInv'
<1> SUFFICES ASSUME PieceInv, PullInv, PullStep PROVE NamesInv' /\ LatestInv' /\ AccountsInv'
  BY LoadedNext DEF PullInv
<1> USE DEF PullInv
<1>1. CASE StartPull
  <2>1. pulls' = pulls + 1 /\ pulls \in Nat /\ recovered' = recovered
    BY <1>1, PullAssumption DEF StartPull, LoadedInv, PullWhere
  <2>2. NamesInv'
    BY <2>1 DEF NamesInv
  <2>3. LatestInv'
    BY <1>1 DEF StartPull, LatestInv
  <2>4. \A j \in 1..(turn' - 1) : Order[j] \notin chosen'
    BY <1>1, NextOfWanted, Places DEF StartPull
  <2>5. AccountsInv'
    BY <2>4 DEF AccountsInv
  <2> QED
    BY <2>2, <2>3, <2>5
<1>2. ASSUME AtCurrent, Pulling, NextTarget, UNCHANGED <<recovered, listed, chosen, force, got, pulls>>,
             bad \subseteq bad', Current \in bad' \/ (Present(Current) /\ ~force)
      PROVE  NamesInv' /\ LatestInv' /\ AccountsInv'
  <2>1. turn' \in Nat /\ turn' > turn
    <3>1. turn \in 1..Len(Order)
      BY <1>2, AtPlace DEF LoadedInv
    <3> QED
      BY <1>2, <3>1, NextOfWanted DEF NextTarget
  <2>2. \A t : Ahead(t)' => Ahead(t)
    BY <1>2, <2>1, FewerAhead
  <2>3. NamesInv'
    BY <1>2, <2>2 DEF NamesInv
  <2>4. LatestInv'
    BY <1>2 DEF NextTarget, LatestInv
  <2>5. PICK c : c = Current
    OBVIOUS
  <2>6. Accounted(c)'
    BY <1>2, <2>5 DEF Accounted, Present
  <2>7. AccountsInv'
    BY <1>2, <2>5, <2>6, AccountsNextTarget
  <2> QED
    BY <2>3, <2>4, <2>7
<1>3. CASE SkipPresent
  BY <1>2, <1>3 DEF SkipPresent, Pulling
<1>4. CASE PieceUnreadable \/ PullRefused \/ Mismatch \/ CopyFails
  <2>1. AtCurrent /\ Pulling /\ Fails
    BY <1>4 DEF PieceUnreadable, PullRefused, Mismatch, CopyFails, Pulling, LoadedInv, PullWhere
  <2> QED
    BY <1>2, <2>1 DEF Fails
<1>5. CASE MoveOut \/ StartCopy \/ EndCopy
  BY <1>5, OutputsWrite
<1>6. CASE TakeUp \/ PullPiece
  <2>1. UNCHANGED <<recovered, listed, chosen, force, turn, bad, got, pulls>>
        /\ at \in {"target", "piece"} /\ at' = "piece"
    BY <1>6 DEF TakeUp, PullPiece
  <2>2. \A t : Ahead(t)' => Ahead(t)
    BY <2>1 DEF Ahead, Pulling
  <2>3. NamesInv'
    BY <2>1, <2>2 DEF NamesInv
  <2> QED
    BY <2>1, <2>3 DEF LatestInv, AccountsInv, Accounted, Fetched, Present
<1>7. CASE EndPull
  <2>1. UNCHANGED <<recovered, listed, chosen, force, turn, bad, got, pulls>>
        /\ at = "target" /\ at' \in {"done", "failed"}
    BY <1>7 DEF EndPull
  <2>2. \A t : ~Ahead(t)'
    BY <2>1 DEF Ahead, Pulling
  <2>3. NamesInv'
    BY <2>1, <2>2 DEF NamesInv
  <2> QED
    BY <2>1, <2>3 DEF LatestInv, AccountsInv, Accounted, Fetched, Present
<1>8. CASE PullKilled
  <2>1. at' = "idle" /\ UNCHANGED <<recovered, pulls>>
    BY <1>8 DEF PullKilled
  <2>2. \A t : ~Ahead(t)'
    BY <2>1 DEF Ahead, Pulling
  <2> QED
    BY <2>1, <2>2 DEF NamesInv, LatestInv, AccountsInv
<1> QED
  BY <1>1, <1>3, <1>4, <1>5, <1>6, <1>7, <1>8 DEF PullStep

LEMMA PullAlways == PushAndPull => [](PieceInv /\ PullInv)
<1>1. PushAndPullInit => PieceInv /\ PullInv
  BY PieceInit, PullInvInit DEF PushAndPullInit
<1>2. PieceInv /\ PullInv /\ [PushAndPullNext]_allVars => PieceInv' /\ PullInv'
  <2> SUFFICES ASSUME PieceInv, PullInv, [PushAndPullNext]_allVars PROVE PieceInv' /\ PullInv'
    OBVIOUS
  <2>1. CASE UNCHANGED allVars
    BY <2>1, PieceUnchanged, PullUnchanged DEF allVars
  <2>2. CASE Next /\ UNCHANGED pullState
    BY <2>2, PieceNext, PullUnchanged
  <2>3. CASE PullStep
    BY <2>3, PieceNext, PullInvNext
  <2> QED
    BY <2>1, <2>2, <2>3 DEF PushAndPullNext
<1> QED
  BY <1>1, <1>2, PTL DEF PushAndPull

\* A pull that comes to its end accounts for every target it was asked for, whatever
\* fails, whatever a push adds meanwhile and whatever earlier pulls, finished or killed,
\* left in the output directory (cmd_pull).
THEOREM PullsAccount == PushAndPull => []PullAccounts
<1>1. PullInv => PullAccounts
  <2> SUFFICES ASSUME PullInv, at \in {"done", "failed"}
               PROVE  /\ \A t \in chosen : Accounted(t)
                      /\ at = "done" <=> bad = {}
    BY DEF PullAccounts, Accounted
  <2>1. at = "done" <=> bad = {}
    BY DEF PullInv, LoadedInv, PullWhere
  <2>2. turn = Len(Order) + 1
    BY Places DEF PullInv, LoadedInv, PullWhere, AtCurrent
  <2>3. ASSUME NEW t \in chosen PROVE Accounted(t)
    <3>1. t \in Targets
      BY DEF PullInv, LoadedInv, ListedType
    <3>2. PICK j \in DOMAIN Order : Order[j] = t
      BY <3>1 DEF Targets
    <3>3. j \in 1..(turn - 1)
      BY <2>2, <3>2, Places
    <3> QED
      BY <3>2, <3>3 DEF PullInv, AccountsInv
  <2> QED
    BY <2>1, <2>3
<1> QED
  BY <1>1, PullAlways, PTL

-----------------------------------------------------------------------------
(* The types of push and pull together.                                    *)

\* Drive holds finitely many chunk files, and a cleanup deletes only what is there.
StoreType ==
  /\ IsFiniteSet(drive)
  /\ \A f \in drive : f.session \in Ids /\ f.chunk \in 1..Chunks /\ f.copy \in Nat
  /\ doomed \subseteq drive
  /\ failures \subseteq Targets

LEMMA StoreTypeInit == Init => StoreType
BY FS_EmptySet DEF Init, StoreType

LEMMA StoreTypeUpload ==
  ASSUME RunType, StoreType, pc = "upload", Uploads, UNCHANGED <<doomed, failures>>
  PROVE  StoreType'
<1> DEFINE same == {f \in drive : f.session = session /\ f.chunk = chunk}
           new == ChunkFile(Cardinality(same))
<1>1. IsFiniteSet(same) /\ Cardinality(same) \in Nat
  BY FS_Subset, FS_CardinalityType DEF StoreType
<1>2. session \in Ids /\ chunk \in 1..Chunks
  BY DEF RunType, AtPiece
<1>3. new.session \in Ids /\ new.chunk \in 1..Chunks /\ new.copy \in Nat
  BY <1>1, <1>2 DEF ChunkFile
<1>4. drive' = drive \cup {new}
  BY DEF Uploads
<1> HIDE DEF new
<1>5. IsFiniteSet(drive')
  BY <1>4, FS_AddElement DEF StoreType
<1> QED
  BY <1>3, <1>4, <1>5 DEF StoreType

LEMMA StoreTypeNext == RunType /\ StoreType /\ (Next \/ PullStep) => StoreType'
<1> SUFFICES ASSUME RunType, StoreType, Next \/ PullStep PROVE StoreType'
  OBVIOUS
<1> USE DEF ledger, run
<1>1. CASE UploadChunk \/ UploadUnanswered
  BY <1>1, StoreTypeUpload DEF UploadChunk, UploadUnanswered
<1>2. CASE CleanUp
  <2>1. PICK f \in doomed : drive' = drive \ {f} /\ doomed' = doomed \ {f}
    BY <1>2 DEF CleanUp
  <2>2. drive' \subseteq drive /\ doomed' \subseteq drive' /\ failures' = failures
    BY <1>2, <2>1 DEF CleanUp, StoreType
  <2>3. IsFiniteSet(drive')
    BY <2>2, FS_Subset DEF StoreType
  <2> QED
    BY <2>2, <2>3 DEF StoreType
<1>3. CASE UploadFails
  BY <1>3 DEF UploadFails, StoreType
<1>4. CASE FetchFails \/ CleanedUp \/ CleanUpFails
  <2>1. Target \in Targets
    BY <1>4, Places DEF FetchFails, CleanedUp, CleanUpFails, RunType, AtWork, AtTarget, Target
  <2>2. drive' = drive /\ doomed' = {} /\ failures' = failures \cup {Target}
    BY <1>4 DEF FetchFails, CleanedUp, CleanUpFails, FailTarget, DropTarget
  <2> QED
    BY <2>1, <2>2 DEF StoreType
<1>5. CASE ~(UploadChunk \/ UploadUnanswered \/ CleanUp \/ UploadFails
               \/ FetchFails \/ CleanedUp \/ CleanUpFails)
  <2>1. drive' = drive /\ doomed' \subseteq doomed /\ failures' \subseteq failures
    BY <1>5, PullLeaves
    DEF Next, Step, StartRun, Fetch, SkipPiece, BeginPiece, Remember, RecordEntry, DropTarget,
        EndRun, Crash
  <2> QED
    BY <2>1 DEF StoreType
<1> QED
  BY <1>1, <1>2, <1>3, <1>4, <1>5

LEMMA PieceIsRecord ==
  ASSUME NEW t, NEW p, NEW r \in PieceOf(t, p)
  PROVE  r \in RecordOf(t, p)
BY BuildsAreIds DEF PieceOf, RecordOf

LEMMA TypesOK == PieceInv /\ StoreType => TypeOK
<1> SUFFICES ASSUME PieceInv, StoreType PROVE TypeOK
  OBVIOUS
<1>1. \A t \in DOMAIN entries :
        /\ t \in Targets
        /\ entries[t].build \in Ids
        /\ \A p \in DOMAIN entries[t].pieces : entries[t].pieces[p] \in RecordOf(t, p)
  BY BuildsAreIds, PieceIsRecord DEF PieceInv, EntriesType, PiecesOf
<1>2. \A t \in DOMAIN partials :
        t \in Targets /\ \A p \in DOMAIN partials[t] : partials[t][p] \in RecordOf(t, p)
  BY PieceIsRecord DEF PieceInv, PartialsType
<1>3. /\ Len(records) <= cut
      /\ \A p \in DOMAIN records : records[p] \in RecordOf(Target, p)
  BY PieceIsRecord DEF PieceInv, InHandType, PiecesOf
<1>4. MaxSessions \in Nat /\ lastId \in 0..MaxSessions /\ session \in 0..MaxSessions
  BY BatchAssumption DEF PieceInv, RunType
<1> QED
  BY <1>1, <1>2, <1>3, <1>4 DEF TypeOK, StoreType, PieceInv, RunType

\* The types of the ledger, of Drive, of the run under way and of the pull beside it.
THEOREM PushAndPullTypes == PushAndPull => []PullTypeOK
<1>1. PushAndPullInit => StoreType
  BY StoreTypeInit DEF PushAndPullInit
<1>2. PieceInv /\ StoreType /\ [PushAndPullNext]_allVars => StoreType'
  <2> SUFFICES ASSUME PieceInv, StoreType, [PushAndPullNext]_allVars PROVE StoreType'
    OBVIOUS
  <2>1. CASE UNCHANGED allVars
    BY <2>1 DEF allVars, vars, ledger, run, StoreType
  <2>2. CASE Next \/ PullStep
    BY <2>2, StoreTypeNext DEF PieceInv
  <2> QED
    BY <2>1, <2>2 DEF PushAndPullNext
<1>3. PieceInv /\ PullInv /\ StoreType => PullTypeOK
  <2> SUFFICES ASSUME PieceInv, PullInv, StoreType PROVE PullTypeOK
    OBVIOUS
  <2>1. TypeOK
    BY TypesOK
  <2>2. \A n \in DOMAIN recovered :
          /\ n.target \in Targets /\ n.n \in 0..MaxPulls
          /\ n.n > 0 => n.target \in Bundles
          /\ recovered[n].build \in Ids /\ recovered[n].whole \in BOOLEAN
    <3>1. pulls \in 0..MaxPulls
      BY DEF PullInv, LoadedInv, PullWhere
    <3> SUFFICES ASSUME NEW n \in DOMAIN recovered
                 PROVE  /\ n.target \in Targets /\ n.n \in 0..MaxPulls
                        /\ n.n > 0 => n.target \in Bundles
                        /\ recovered[n].build \in Ids /\ recovered[n].whole \in BOOLEAN
      OBVIOUS
    <3>2. n.target \in Targets /\ n.n \in Nat /\ n.n < pulls /\ (n.target \notin Bundles => n.n = 0)
      BY DEF PullInv, NamesInv
    <3>3. recovered[n].build \in Ids /\ recovered[n].whole \in BOOLEAN
      BY DEF PullInv, NamesInv
    <3> QED
      BY <3>1, <3>2, <3>3, PullAssumption
  <2>3. DOMAIN listed \subseteq Targets /\ chosen \subseteq DOMAIN listed
    BY DEF PullInv, LoadedInv, ListedType
  <2>4. at \in {"piece", "copy"} => AtCurrent /\ Current \in chosen /\ Len(joined) <= Len(Pieces)
    BY DEF PullInv, LoadedInv, PullWhere, Pulling, JoinedType
  <2> QED
    BY <2>1, <2>2, <2>3, <2>4 DEF PullTypeOK, PullInv, LoadedInv, PullWhere
<1> QED
  BY <1>1, <1>2, <1>3, PullAlways, PTL DEF PushAndPull

-----------------------------------------------------------------------------
(* Sessions the ledger does not know.                                      *)

\* What is noted of the current target is in hand, or will be taken over.
KeptInv ==
  AtWork =>
    \A p \in DOMAIN PartialsOf(Target) :
      \/ p \in DOMAIN records /\ records[p] = PartialsOf(Target)[p]
      \/ /\ p \notin DOMAIN records
         /\ p \in DOMAIN already /\ already[p] = PartialsOf(Target)[p]

\* No piece is noted beyond those a file is cut into.
NumbersInv ==
  \A t \in DOMAIN partials : \A p \in DOMAIN partials[t] : \A c \in Cuts : p \in 1..c

LEMMA KeptNext ==
  ASSUME PieceInv, KeptInv, Next \/ PullStep
  PROVE  KeptInv'
<1> USE DEF AtWork, ledger, run
<1>1. CASE ~AtWork'
  BY <1>1 DEF KeptInv
<1>2. CASE Fetch
  <2>1. records = << >> /\ DOMAIN << >> = {}
    BY <1>2 DEF Fetch, PieceInv, InHandType
  <2> QED
    BY <1>2, <2>1 DEF Fetch, KeptInv, PartialsOf, Target
<1>3. CASE SkipPiece
  <2>1. already[Piece] \in PieceOf(Target, Len(records) + 1) /\ Piece = Len(records) + 1
    BY <1>3 DEF PieceInv, SkipPiece, InHandType, Piece
  <2>2. /\ DOMAIN records = 1..Len(records) /\ Len(records) \in Nat
        /\ DOMAIN records' = 1..(Len(records) + 1)
        /\ \A p \in DOMAIN records' :
             \/ p \in DOMAIN records /\ records'[p] = records[p]
             \/ p = Piece /\ records'[p] = already[Piece]
    BY <1>3, <2>1, AppendPiece DEF PieceInv, SkipPiece, InHandType, PiecesOf
  <2>3. UNCHANGED <<partials, already, Target>>
    BY <1>3 DEF SkipPiece, Target
  <2> QED
    BY <1>3, <2>1, <2>2, <2>3 DEF SkipPiece, KeptInv, PartialsOf
<1>4. CASE Remember
  <2>1. Record \in PieceOf(Target, Len(records) + 1) /\ Piece = Len(records) + 1
    BY <1>4, RecordType DEF PieceInv, Remember, InHandType, Piece, AtPiece
  <2>2. /\ DOMAIN records = 1..Len(records) /\ Len(records) \in Nat
        /\ DOMAIN records' = 1..(Len(records) + 1)
        /\ \A p \in DOMAIN records' :
             \/ p \in DOMAIN records /\ records'[p] = records[p]
             \/ p = Piece /\ records'[p] = Record
    BY <1>4, <2>1, AppendPiece DEF PieceInv, Remember, InHandType, PiecesOf
  <2>3. UNCHANGED <<already, Target>>
    BY <1>4 DEF Remember, Target
  <2>4. PartialsOf(Target)' = With(PartialsOf(Target), Piece, Record)
    BY <1>4, <2>3 DEF Remember, With, PartialsOf
  <2>5. /\ DOMAIN PartialsOf(Target)' = DOMAIN PartialsOf(Target) \cup {Piece}
        /\ PartialsOf(Target)'[Piece] = Record
        /\ \A p \in DOMAIN PartialsOf(Target) :
             p # Piece => PartialsOf(Target)'[p] = PartialsOf(Target)[p]
    BY <2>4 DEF With
  <2> QED
    BY <1>4, <2>1, <2>2, <2>3, <2>5 DEF Remember, KeptInv
<1>5. CASE BeginPiece \/ UploadChunk \/ UploadUnanswered \/ UploadFails \/ CleanUp
  BY <1>5
  DEF BeginPiece, UploadChunk, UploadUnanswered, UploadFails, CleanUp, KeptInv, PartialsOf, Target
<1>6. CASE PullStep
  BY <1>6, PullLeaves DEF KeptInv, PartialsOf, Target
<1>7. CASE StartRun \/ FetchFails \/ CleanedUp \/ CleanUpFails \/ RecordEntry \/ EndRun \/ Crash
  <2>1. ~AtWork'
    BY <1>7 DEF StartRun, FetchFails, CleanedUp, CleanUpFails, FailTarget, RecordEntry, EndRun,
                Crash
  <2> QED
    BY <1>1, <2>1
<1> QED
  BY <1>2, <1>3, <1>4, <1>5, <1>6, <1>7 DEF Next, Step

LEMMA NumbersNext ==
  ASSUME OneCut, PieceInv, NumbersInv, Next \/ PullStep
  PROVE  NumbersInv'
<1> USE DEF ledger, run
<1>1. CASE Remember
  <2>1. Len(records) < cut /\ cut \in Cuts /\ Len(records) \in Nat
    BY <1>1 DEF Remember, PieceInv, InHandType, RunType, AtPiece, AtWork, PiecesOf
  <2>2. \A c \in Cuts : Piece \in 1..c
    BY <2>1, CutsArePositive DEF OneCut, Piece
  <2>3. \A t \in DOMAIN partials' : \A p \in DOMAIN partials'[t] :
          p = Piece \/ (t \in DOMAIN partials /\ p \in DOMAIN partials[t])
    BY <1>1 DEF Remember, With, PartialsOf
  <2> QED
    BY <2>2, <2>3 DEF NumbersInv
<1>2. CASE RecordEntry
  BY <1>2 DEF RecordEntry, NumbersInv, Without
<1>3. CASE ~(Remember \/ RecordEntry)
  <2>1. partials' = partials
    BY <1>3, PullLeaves
    DEF Next, Step, StartRun, Fetch, FetchFails, SkipPiece, BeginPiece, UploadChunk,
        UploadUnanswered, UploadFails, CleanUp, CleanedUp, CleanUpFails, EndRun, Crash
  <2> QED
    BY <2>1 DEF NumbersInv
<1> QED
  BY <1>1, <1>2, <1>3

\* The records of the ledger itself, those in hand left out.
InLedger(r) ==
  \/ \E t \in DOMAIN entries : \E p \in DOMAIN entries[t].pieces : r = entries[t].pieces[p]
  \/ \E t \in DOMAIN partials : \E p \in DOMAIN partials[t] : r = partials[t][p]

LEMMA ReferencedIs == \A s : s \in Referenced <=> \E r : InLedger(r) /\ s = r.session
<1> SUFFICES ASSUME NEW s PROVE s \in Referenced <=> \E r : InLedger(r) /\ s = r.session
  OBVIOUS
<1>1. s \in Referenced <=>
        \/ \E t \in DOMAIN entries : \E p \in DOMAIN entries[t].pieces :
             s = entries[t].pieces[p].session
        \/ \E t \in DOMAIN partials : \E p \in DOMAIN partials[t] : s = partials[t][p].session
  BY DEF Referenced
<1>2. s \in Referenced => \E r : InLedger(r) /\ s = r.session
  BY <1>1 DEF InLedger
<1>3. ASSUME NEW r, InLedger(r), s = r.session PROVE s \in Referenced
  BY <1>1, <1>3 DEF InLedger
<1> QED
  BY <1>2, <1>3

\* The ledger forgets no record, as long as files are cut the same way in all runs.
LEMMA RecordsStay ==
  ASSUME OneCut, WalkInv, PieceInv, UnsentInv, KeptInv, NumbersInv, Next \/ PullStep,
         NEW r, InLedger(r)
  PROVE  InLedger(r)'
<1> USE DEF ledger, run
<1>1. CASE Remember
  <2>1. entries' = entries
    BY <1>1 DEF Remember
  <2>2. Piece \notin DOMAIN PartialsOf(Target)
    BY <1>1 DEF Remember, UnsentInv, PieceInv, InHandType, PiecesOf, Piece, AtWork, AtPiece
  <2>3. \A t \in DOMAIN partials : \A p \in DOMAIN partials[t] :
          t \in DOMAIN partials' /\ p \in DOMAIN partials'[t] /\ partials'[t][p] = partials[t][p]
    BY <1>1, <2>2 DEF Remember, With, PartialsOf
  <2> QED
    BY <2>1, <2>3 DEF InLedger
<1>2. CASE RecordEntry
  <2>1. AtTarget /\ Target \notin DOMAIN entries
    BY <1>2 DEF RecordEntry, WalkInv, RunType, LedgerConsistent, AtWork
  <2>2. \A t \in DOMAIN entries : t \in DOMAIN entries' /\ entries'[t] = entries[t]
    BY <1>2, <2>1 DEF RecordEntry, With
  <2>3. Target \in DOMAIN entries' /\ entries'[Target].pieces = records
    BY <1>2 DEF RecordEntry, With
  <2>4. \A t \in DOMAIN partials : t # Target => t \in DOMAIN partials' /\ partials'[t] = partials[t]
    BY <1>2 DEF RecordEntry, Without
  <2>5. ASSUME Target \in DOMAIN partials, NEW p \in DOMAIN partials[Target]
        PROVE  p \in DOMAIN records /\ records[p] = partials[Target][p]
    <3>1. DOMAIN records = 1..cut
      BY <1>2, CutsArePositive DEF RecordEntry, PieceInv, InHandType, Piece, PiecesOf, RunType
    <3>2. p \in 1..cut
      BY <1>2, <2>5 DEF RecordEntry, NumbersInv, PieceInv, RunType
    <3> QED
      BY <1>2, <2>5, <3>1, <3>2 DEF RecordEntry, KeptInv, AtWork, PartialsOf
  <2>6. PICK goal : goal = Target
    OBVIOUS
  <2>7. CASE \E t \in DOMAIN entries : \E p \in DOMAIN entries[t].pieces : r = entries[t].pieces[p]
    BY <2>2, <2>7 DEF InLedger
  <2>8. CASE \E p \in DOMAIN records : r = records[p]
    BY <2>3, <2>6, <2>8 DEF InLedger
  <2>9. CASE \E t \in DOMAIN partials : t # Target /\ \E p \in DOMAIN partials[t] : r = partials[t][p]
    BY <2>4, <2>9 DEF InLedger
  <2> QED
    BY <2>5, <2>7, <2>8, <2>9 DEF InLedger
<1>3. CASE ~(Remember \/ RecordEntry)
  <2>1. UNCHANGED <<entries, partials>>
    BY <1>3, PullLeaves
    DEF Next, Step, StartRun, Fetch, FetchFails, SkipPiece, BeginPiece, UploadChunk,
        UploadUnanswered, UploadFails, CleanUp, CleanedUp, CleanUpFails, EndRun, Crash
  <2> QED
    BY <2>1 DEF InLedger
<1> QED
  BY <1>1, <1>2, <1>3

\* Sessions on Drive that the ledger does not know and that are not in hand.
Loose == Orphans \ (IF AtPiece THEN {session} ELSE {})

\* Each of them is paid for by a kill or by two refusals: the one that failed the piece,
\* already met in the cleanup, and the one that failed the cleanup.
OrphanInv ==
  /\ 2 * Cardinality(Loose) + (IF pc = "cleanup" THEN 1 ELSE 0)
       <= 2 * spent["crash"] + spent["refused"]
  /\ pc = "cleanup" => \A f \in drive : f.session = session => f \in doomed

SessionsOnDrive == {f.session : f \in drive}

IsLoose(s) ==
  s \in Loose <=> /\ s \in SessionsOnDrive /\ s \notin Referenced
                  /\ AtPiece => s # session

LEMMA LooseIs == \A s : IsLoose(s)
<1>1. Orphans = SessionsOnDrive \ Referenced
  BY DEF Orphans, SessionsOnDrive
<1>2. AtPiece => Loose = Orphans \ {session}
  BY DEF Loose
<1>3. ~AtPiece => Loose = Orphans
  BY DEF Loose
<1> QED
  BY <1>1, <1>2, <1>3 DEF IsLoose

LEMMA LooseIsNext == (\A s : IsLoose(s))'
BY LooseIs, PTL

IsReferenced(s) == s \in Referenced <=> \E r : InLedger(r) /\ s = r.session

LEMMA ReferencedIsNext == (\A s : IsReferenced(s))'
<1>1. \A s : IsReferenced(s)
  BY ReferencedIs DEF IsReferenced
<1> QED
  BY <1>1, PTL

LEMMA LooseFinite ==
  ASSUME RunType, SessionInv
  PROVE  IsFiniteSet(Loose) /\ Cardinality(Loose) \in Nat
<1>1. lastId \in Nat
  BY BatchAssumption DEF RunType
<1>2. Loose \subseteq 1..lastId
  BY LooseIs DEF IsLoose, SessionsOnDrive, SessionInv
<1>3. IsFiniteSet(1..lastId)
  BY <1>1, FS_Interval
<1>4. IsFiniteSet(Loose)
  BY <1>2, <1>3, FS_Subset
<1> QED
  BY <1>4, FS_CardinalityType

\* The count of a set that grows by at most the one given.
LEMMA GrowsByOne ==
  ASSUME NEW A, NEW B, NEW x, IsFiniteSet(A), B \subseteq A \cup {x}
  PROVE  /\ IsFiniteSet(B) /\ Cardinality(B) \in Nat /\ Cardinality(A) \in Nat
         /\ Cardinality(B) <= Cardinality(A) + 1
<1>1. IsFiniteSet(A \cup {x}) /\ Cardinality(A \cup {x}) <= Cardinality(A) + 1
      /\ Cardinality(A) \in Nat
  BY FS_AddElement, FS_CardinalityType
<1>2. IsFiniteSet(B) /\ Cardinality(B) <= Cardinality(A \cup {x})
  BY <1>1, FS_Subset
<1> QED
  BY <1>1, <1>2, FS_CardinalityType

\* How often each mishap has happened only grows.
LEMMA SpentGrows ==
  ASSUME RunType, Next \/ PullStep
  PROVE  /\ spent["crash"] \in Nat /\ spent["refused"] \in Nat
         /\ spent'["crash"] \in Nat /\ spent'["refused"] \in Nat
         /\ spent'["crash"] >= spent["crash"] /\ spent'["refused"] >= spent["refused"]
<1>1. spent \in [Mishaps -> Nat] /\ "crash" \in Mishaps /\ "refused" \in Mishaps
  BY DEF RunType, Mishaps
<1> QED
  BY <1>1, PushCounts, PullLeaves DEF Counted

LEMMA LooseNext ==
  ASSUME OneCut, WalkInv, PieceInv, UnsentInv, KeptInv, NumbersInv, SessionInv, OrphanInv,
         Next \/ PullStep, NEW s, s \in Loose'
  PROVE  s \in Loose \/ (AtPiece /\ s = session /\ ~AtPiece' /\ (Crash \/ CleanUpFails))
<1> USE DEF ledger, run
<1>1. s \notin Referenced
  <2>1. s \in Referenced => s \in Referenced'
    BY ReferencedIs, ReferencedIsNext, RecordsStay DEF IsReferenced
  <2> QED
    BY <2>1, LooseIsNext DEF IsLoose
<1>2. s \in SessionsOnDrive \/ (AtPiece /\ s = session)
  <2>1. s \in SessionsOnDrive'
    BY LooseIsNext DEF IsLoose
  <2> QED
    BY <2>1, DriveNext DEF SessionsOnDrive
<1>3. CASE ~(AtPiece /\ s = session)
  BY <1>1, <1>2, <1>3, LooseIs DEF IsLoose
<1>4. CASE AtPiece /\ s = session
  <2>1. ~(AtPiece' /\ session' = session)
    BY <1>4, LooseIsNext DEF IsLoose
  <2>2. CASE Remember
    <3>1. Target \in DOMAIN partials' /\ Piece \in DOMAIN partials'[Target]
          /\ partials'[Target][Piece] = Record
      BY <2>2 DEF Remember, With
    <3>2. PICK t, p : t = Target /\ p = Piece
      OBVIOUS
    <3>5. Record.session = session
      BY DEF Record
    <3>3. PICK r : r = Record /\ r.session = session
      BY <3>5
    <3>4. InLedger(r)'
      BY <3>1, <3>2, <3>3 DEF InLedger
    <3>6. s \in Referenced'
      BY <1>4, <3>3, <3>4, ReferencedIsNext DEF IsReferenced
    <3> QED
      BY <3>6, LooseIsNext DEF IsLoose
  <2>3. CASE CleanedUp
    <3>1. \A f \in drive : f.session # session
      BY <2>3 DEF CleanedUp, OrphanInv
    <3>2. s \in SessionsOnDrive' /\ drive' = drive
      BY <2>3, LooseIsNext DEF CleanedUp, IsLoose
    <3> QED
      BY <1>4, <3>1, <3>2 DEF SessionsOnDrive
  <2>4. CASE Crash \/ CleanUpFails
    BY <1>4, <2>4 DEF Crash, CleanUpFails, FailTarget, AtPiece
  <2>5. CASE ~(Remember \/ CleanedUp \/ Crash \/ CleanUpFails)
    <3>1. AtPiece' /\ session' = session
      BY <1>4, <2>5, PullLeaves
      DEF AtPiece, Next, Step, StartRun, Fetch, FetchFails, SkipPiece, BeginPiece, UploadChunk,
          UploadUnanswered, UploadFails, CleanUp, RecordEntry, EndRun
    <3> QED
      BY <2>1, <3>1
  <2> QED
    BY <2>2, <2>3, <2>4, <2>5
<1> QED
  BY <1>3, <1>4

LEMMA OrphanNext ==
  ASSUME OneCut, WalkInv, PieceInv, UnsentInv, KeptInv, NumbersInv, SessionInv, OrphanInv,
         Next \/ PullStep
  PROVE  OrphanInv'
<1> USE DEF ledger, run
<1>0. RunType
  BY DEF PieceInv
<1> DEFINE n == Cardinality(Loose)
           m == Cardinality(Loose')
<1>1. IsFiniteSet(Loose) /\ n \in Nat
  BY <1>0, LooseFinite
<1>2. CASE Crash \/ CleanUpFails
  <2>1. Loose' \subseteq Loose \cup {session}
    BY LooseNext
  <2>2. m \in Nat /\ m <= n + 1
    BY <1>1, <2>1, GrowsByOne
  <2>3. spent \in [Mishaps -> Nat] /\ "crash" \in Mishaps /\ "refused" \in Mishaps
    BY <1>0 DEF RunType, Mishaps
  <2>4. \/ spent'["crash"] = spent["crash"] + 1 /\ spent'["refused"] = spent["refused"]
        \/ /\ spent'["refused"] = spent["refused"] + 1 /\ spent'["crash"] = spent["crash"]
           /\ pc = "cleanup"
    BY <1>2, <2>3 DEF Crash, CleanUpFails, Spend
  <2>5. pc' # "cleanup"
    BY <1>2 DEF Crash, CleanUpFails, FailTarget
  <2> HIDE DEF n, m
  <2>6. 2 * n + (IF pc = "cleanup" THEN 1 ELSE 0) <= 2 * spent["crash"] + spent["refused"]
    BY DEF OrphanInv, n
  <2>7. 2 * m <= 2 * spent'["crash"] + spent'["refused"]
    BY <1>1, <2>2, <2>3, <2>4, <2>6
  <2> QED
    BY <2>2, <2>5, <2>7 DEF OrphanInv, m
<1>3. CASE ~(Crash \/ CleanUpFails)
  <2>1. Loose' \subseteq Loose
    BY <1>3, LooseNext
  <2>2. m \in Nat /\ m <= n
    BY <1>1, <2>1, FS_Subset, FS_CardinalityType
  <2>3. \/ UploadFails /\ spent'["refused"] = spent["refused"] + 1
        \/ pc' = "cleanup" /\ pc = "cleanup"
        \/ pc' # "cleanup"
    <3>1. spent \in [Mishaps -> Nat] /\ "refused" \in Mishaps
      BY <1>0 DEF RunType, Mishaps
    <3>2. CASE UploadFails
      BY <3>1, <3>2 DEF UploadFails, Spend
    <3>3. CASE ~UploadFails
      BY <1>3, <3>3, PullLeaves
      DEF Next, Step, StartRun, Fetch, FetchFails, SkipPiece, BeginPiece, UploadChunk,
          UploadUnanswered, CleanUp, CleanedUp, FailTarget, Remember, RecordEntry, EndRun
    <3> QED
      BY <3>2, <3>3
  <2>4. pc' = "cleanup" => \A f \in drive' : f.session = session' => f \in doomed'
    <3>1. CASE UploadFails
      BY <3>1 DEF UploadFails
    <3>2. CASE CleanUp
      BY <3>2 DEF CleanUp, OrphanInv
    <3>3. CASE PullStep
      BY <3>3, PullLeaves DEF OrphanInv
    <3>4. CASE ~(UploadFails \/ CleanUp \/ PullStep)
      BY <1>3, <3>4
      DEF Next, Step, StartRun, Fetch, FetchFails, SkipPiece, BeginPiece, UploadChunk,
          UploadUnanswered, CleanedUp, FailTarget, Remember, RecordEntry, EndRun
    <3> QED
      BY <3>1, <3>2, <3>3, <3>4
  <2>5. /\ spent["crash"] \in Nat /\ spent["refused"] \in Nat
        /\ spent'["crash"] \in Nat /\ spent'["refused"] \in Nat
        /\ spent'["crash"] >= spent["crash"] /\ spent'["refused"] >= spent["refused"]
    BY <1>0, SpentGrows
  <2>6. UploadFails => pc # "cleanup"
    BY DEF UploadFails
  <2> HIDE DEF n, m
  <2>7. 2 * n + (IF pc = "cleanup" THEN 1 ELSE 0) <= 2 * spent["crash"] + spent["refused"]
    BY DEF OrphanInv, n
  <2>8. 2 * m + (IF pc' = "cleanup" THEN 1 ELSE 0) <= 2 * spent'["crash"] + spent'["refused"]
    BY <1>1, <2>2, <2>3, <2>5, <2>6, <2>7
  <2> QED
    BY <2>4, <2>8 DEF OrphanInv, m
<1> QED
  BY <1>2, <1>3

\* When all runs cut files into the same number of pieces, a session that the ledger
\* does not know is on Drive between runs only because a run was killed, or because a
\* piece and then its cleanup failed: every such session has its own mishaps.
THEOREM OrphansArePaidFor == OneCut => (PushAndPull => []OrphansFromMishaps)
<1> SUFFICES ASSUME OneCut PROVE PushAndPull => []OrphansFromMishaps
  OBVIOUS
<1> DEFINE Inv == /\ WalkInv /\ PieceInv /\ UnsentInv /\ KeptInv /\ NumbersInv /\ SessionInv
                  /\ OrphanInv
<1>1. PushAndPullInit => Inv
  <2> SUFFICES ASSUME Init PROVE Inv
    BY DEF PushAndPullInit
  <2>1. UnsentInv /\ KeptInv /\ NumbersInv
    BY DEF Init, UnsentInv, KeptInv, NumbersInv, AtWork, AtPiece
  <2>2. Loose = {}
    BY LooseIs DEF Init, IsLoose, SessionsOnDrive
  <2>3. Cardinality(Loose) = 0
    BY <2>2, FS_EmptySet
  <2>4. spent["crash"] = 0 /\ spent["refused"] = 0
    BY DEF Init, Mishaps
  <2>5. OrphanInv
    BY <2>3, <2>4 DEF Init, OrphanInv
  <2> QED
    BY <2>1, <2>5, WalkInit, FinishedInit DEF FinishedInv
<1>2. Inv /\ [PushAndPullNext]_allVars => Inv'
  <2> SUFFICES ASSUME Inv, [PushAndPullNext]_allVars PROVE Inv'
    OBVIOUS
  <2>1. CASE UNCHANGED allVars
    <3>1. PieceInv' /\ WalkInv'
      BY <2>1, PieceUnchanged, WalkUnchanged
    <3>2. UnsentInv' /\ KeptInv' /\ NumbersInv'
      BY <2>1
      DEF allVars, vars, ledger, run, UnsentInv, KeptInv, NumbersInv, AtWork, AtPiece,
          PartialsOf, Target, Piece
    <3>3. SessionInv' /\ OrphanInv'
      BY <2>1
      DEF allVars, vars, ledger, run, SessionInv, Noted, OrphanInv, Loose, Orphans, Referenced,
          AtPiece
    <3> QED
      BY <3>1, <3>2, <3>3
  <2>2. CASE Next \/ PullStep
    BY <2>2, WalkNext, PieceNext, UnsentNext, KeptNext, NumbersNext, SessionNext, OrphanNext
  <2> QED
    BY <2>1, <2>2 DEF PushAndPullNext
<1>3. Inv => OrphansFromMishaps
  <2> SUFFICES ASSUME Inv, pc = "idle"
               PROVE  2 * Cardinality(Orphans) <= 2 * spent["crash"] + spent["refused"]
    BY DEF OrphansFromMishaps
  <2>1. Loose = Orphans
    BY DEF Loose, AtPiece
  <2>2. Cardinality(Loose) \in Nat
    BY LooseFinite DEF PieceInv
  <2> QED
    BY <2>1, <2>2 DEF OrphanInv
<1> QED
  BY <1>1, <1>2, <1>3, PTL DEF PushAndPull
=============================================================================
