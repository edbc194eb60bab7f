------------------------------ MODULE BatchPush ------------------------------
(***************************************************************************)
(* innout-batch push (batch.cmd_push, push_pieces, push_one_file over      *)
(* drive.upload_to_drive and delete_session_files), and what innout-batch  *)
(* pull can make of the result; the pull itself is in BatchPull.           *)
(*                                                                         *)
(* A run walks the targets its ledger does not list yet: fetch the target, *)
(* cut it into pieces, upload every piece's chunks under a session id of   *)
(* its own, note each finished piece and then the whole target in the      *)
(* ledger.  A piece that fails is cleaned up and fails its target; the run *)
(* goes on with the next.  A transient failure of a Drive call that took   *)
(* no effect is retried and changes nothing, so it is not a step here.     *)
(***************************************************************************)
EXTENDS Integers, Sequences, FiniteSets

CONSTANTS
  Order,        \* the targets, in the order sorted() gives them
  Bundles,      \* those of them that are a tar.gz built afresh at every fetch
  Cuts,         \* how many pieces --max-piece-size may cut a target into
  Chunks,       \* chunks per piece
  MaxSessions,  \* bound: sessions (uuids) and builds ever made
  Budgets       \* bounds: how often each kind of mishap may happen together, in
                \* any of these

Mishaps == {"unanswered",  \* a create that Drive carried out and _with_retry repeats
            "refused",     \* a call that fails for good
            "crash"}       \* the process is killed or interrupted

Targets == {Order[k] : k \in DOMAIN Order}

ASSUME BatchAssumption ==
  /\ Order \in Seq(STRING) /\ Bundles \subseteq Targets
  /\ \A i, j \in DOMAIN Order : Order[i] = Order[j] => i = j
  /\ Cuts \subseteq Nat \ {0} /\ Cuts # {}
  /\ Chunks \in Nat \ {0} /\ MaxSessions \in Nat \ {0}
  /\ Budgets \subseteq [Mishaps -> Nat]

VARIABLES
  entries,    \* ledger "entries": target -> [build, pieces], pieces in order
  partials,   \* ledger "partials": target -> (piece number -> record)
  failures,   \* ledger "failures": the targets that failed last
  drive,      \* the chunk files: [target, piece, session, chunk, data, copy]
  pc,
  place,      \* the place in Order of the target this run is at, or one beyond
              \* the last
  cut,        \* --max-piece-size of this run, as the number of pieces
  build,      \* which build of the current target was fetched
  already,    \* the partials of the current target when it was taken up
  records,    \* the records of its pieces so far
  session,    \* session id of the piece being uploaded
  chunk,      \* its chunk being uploaded
  doomed,     \* the files the cleanup still has to delete
  lastId,     \* the latest session id or build number handed out
  spent       \* how often each kind of mishap has happened

ledger == <<entries, partials, failures>>
run == <<place, cut, build, already, records, session, chunk, doomed>>
vars == <<ledger, drive, pc, run, lastId, spent>>

-----------------------------------------------------------------------------

Spend(kind) ==
  /\ spent' = [spent EXCEPT ![kind] = @ + 1]
  /\ \E b \in Budgets : \A k \in Mishaps : spent'[k] <= b[k]

Target == Order[place]
AtTarget == place \in DOMAIN Order
Piece == Len(records) + 1

\* What the bytes of a piece depend on.
PieceData(b, c, p) == [build |-> b, cut |-> c, piece |-> p]

PartialsOf(t) == IF t \in DOMAIN partials THEN partials[t] ELSE << >>

\* dict(d, key=value), and d.pop(key, None).
With(d, key, value) == [k \in DOMAIN d \cup {key} |-> IF k = key THEN value ELSE d[k]]
Without(d, key) == [k \in DOMAIN d \ {key} |-> d[k]]

Init ==
  /\ entries = << >> /\ partials = << >> /\ failures = {}
  /\ drive = {}
  /\ pc = "idle"
  /\ place = 0 /\ cut = 0 /\ build = 0
  /\ already = << >> /\ records = << >>
  /\ session = 0 /\ chunk = 0 /\ doomed = {}
  /\ lastId = 0
  /\ spent = [k \in Mishaps |-> 0]

\* Done with a target, or with everything: its temporary state is dropped.
DropTarget ==
  /\ build' = 0 /\ already' = << >> /\ records' = << >>
  /\ session' = 0 /\ chunk' = 0 /\ doomed' = {}

\* pending_entries, in order: after target i the next that the ledger does not list.
NextPending(i) ==
  \E k \in (i + 1)..(Len(Order) + 1) :
    /\ \A j \in (i + 1)..(k - 1) : Order[j] \in DOMAIN entries
    /\ k \in DOMAIN Order => Order[k] \notin DOMAIN entries
    /\ place' = k

\* Mutant of StartRun: a target that failed once is not taken up again.
StartRunWithoutFailed ==
  /\ pc = "idle"
  /\ NextPending(0)
  /\ place' \in DOMAIN Order
  /\ Order[place'] \notin failures
  /\ cut' \in Cuts
  /\ pc' = "fetch"
  /\ UNCHANGED <<ledger, drive, build, already, records, session, chunk,
                 doomed, lastId, spent>>

\* cmd_push: load the ledger and list what it does not have.
StartRun ==
  /\ pc = "idle"
  /\ NextPending(0)
  /\ place' \in DOMAIN Order
  /\ cut' \in Cuts
  /\ pc' = "fetch"
  /\ UNCHANGED <<ledger, drive, build, already, records, session, chunk,
                 doomed, lastId, spent>>

\* Mutant of Fetch: the pieces of an earlier run are not looked up.
FetchAnew ==
  /\ pc = "fetch"
  /\ AtTarget
  /\ already' = << >>
  /\ IF Target \in Bundles
       THEN lastId < MaxSessions /\ lastId' = lastId + 1 /\ build' = lastId'
       ELSE build' = 1 /\ UNCHANGED lastId
  /\ pc' = "piece"
  /\ UNCHANGED <<ledger, drive, place, cut, records, session, chunk, doomed, spent>>

\* The target is downloaded, or its bundle is built, and cut into pieces.
Fetch ==
  /\ pc = "fetch"
  /\ AtTarget
  /\ already' = PartialsOf(Target)
  /\ IF Target \in Bundles
       THEN lastId < MaxSessions /\ lastId' = lastId + 1 /\ build' = lastId'
       ELSE build' = 1 /\ UNCHANGED lastId
  /\ pc' = "piece"
  /\ UNCHANGED <<ledger, drive, place, cut, records, session, chunk, doomed, spent>>

\* Mutant of FailTarget: the first failure ends the run.
FailRun ==
  /\ failures' = failures \cup {Target}
  /\ place' = Len(Order) + 1
  /\ pc' = "fetch"
  /\ DropTarget

\* The target fails: noted with the run going on to the next one.
FailTarget ==
  /\ failures' = failures \cup {Target}
  /\ NextPending(place)
  /\ pc' = "fetch"
  /\ DropTarget

FetchFails ==
  /\ pc = "fetch"
  /\ AtTarget
  /\ Spend("refused")
  /\ FailTarget
  /\ UNCHANGED <<entries, partials, drive, cut, lastId>>

\* A piece an earlier run got through is taken over as it is recorded.
SkipPiece ==
  /\ pc = "piece"
  /\ Piece <= cut
  /\ Piece \in DOMAIN already
  /\ records' = Append(records, already[Piece])
  /\ UNCHANGED <<ledger, drive, pc, place, cut, build, already, session, chunk,
                 doomed, lastId, spent>>

\* Any other piece is encrypted and split under a new session id.
BeginPiece ==
  /\ pc = "piece"
  /\ Piece <= cut
  /\ Piece \notin DOMAIN already
  /\ lastId < MaxSessions
  /\ lastId' = lastId + 1
  /\ session' = lastId'
  /\ chunk' = 1
  /\ pc' = "upload"
  /\ UNCHANGED <<ledger, drive, place, cut, build, already, records, doomed, spent>>

ChunkFile(n) ==
  [target |-> Target, piece |-> Piece, session |-> session, chunk |-> chunk,
   data |-> PieceData(build, cut, Piece), copy |-> n]

\* files().create: another file beside any that has the name already.
Uploads ==
  drive' = drive \cup
    {ChunkFile(Cardinality({f \in drive : f.session = session /\ f.chunk = chunk}))}

\* Mutant of UploadChunk: one chunk too many is asked for.
UploadChunkBeyond ==
  /\ pc = "upload"
  /\ Uploads
  /\ IF chunk <= Chunks THEN chunk' = chunk + 1 /\ UNCHANGED pc
                        ELSE pc' = "remember" /\ UNCHANGED chunk
  /\ UNCHANGED <<ledger, place, cut, build, already, records, session, doomed,
                 lastId, spent>>

UploadChunk ==
  /\ pc = "upload"
  /\ Uploads
  /\ IF chunk < Chunks THEN chunk' = chunk + 1 /\ UNCHANGED pc
                       ELSE pc' = "remember" /\ UNCHANGED chunk
  /\ UNCHANGED <<ledger, place, cut, build, already, records, session, doomed,
                 lastId, spent>>

\* The chunk arrives but its answer does not: it will be uploaded again.
UploadUnanswered ==
  /\ pc = "upload"
  /\ Spend("unanswered")
  /\ Uploads
  /\ UNCHANGED <<ledger, pc, run, lastId>>

\* Mutant of UploadFails: the cleanup takes everything in the target's folder.
UploadFailsForAll ==
  /\ pc = "upload"
  /\ Spend("refused")
  /\ doomed' = {f \in drive : f.target = Target}
  /\ pc' = "cleanup"
  /\ UNCHANGED <<ledger, drive, place, cut, build, already, records, session,
                 chunk, lastId>>

\* Mutant of UploadFails: the cleanup is left out.
UploadFailsUncleaned ==
  /\ pc = "upload"
  /\ Spend("refused")
  /\ doomed' = {}
  /\ pc' = "cleanup"
  /\ UNCHANGED <<ledger, drive, place, cut, build, already, records, session,
                 chunk, lastId>>

\* The piece fails; delete_session_files lists what it left behind.
UploadFails ==
  /\ pc = "upload"
  /\ Spend("refused")
  /\ doomed' = {f \in drive : f.session = session}
  /\ pc' = "cleanup"
  /\ UNCHANGED <<ledger, drive, place, cut, build, already, records, session,
                 chunk, lastId>>

CleanUp ==
  /\ pc = "cleanup"
  /\ \E f \in doomed :
       /\ drive' = drive \ {f}
       /\ doomed' = doomed \ {f}
  /\ UNCHANGED <<ledger, pc, place, cut, build, already, records, session, chunk,
                 lastId, spent>>

CleanedUp ==
  /\ pc = "cleanup"
  /\ doomed = {}
  /\ FailTarget
  /\ UNCHANGED <<entries, partials, drive, cut, lastId, spent>>

\* The cleanup fails: a warning, and what is left stays on Drive.
CleanUpFails ==
  /\ pc = "cleanup"
  /\ Spend("refused")
  /\ FailTarget
  /\ UNCHANGED <<entries, partials, drive, cut, lastId>>

Record ==
  [target |-> Target, piece |-> Piece, session |-> session,
   data |-> PieceData(build, cut, Piece)]

\* on_piece (_remember): the finished piece is saved in the ledger.
Remember ==
  /\ pc = "remember"
  /\ records' = Append(records, Record)
  /\ partials' = With(partials, Target, With(PartialsOf(Target), Piece, Record))
  /\ session' = 0
  /\ chunk' = 0
  /\ pc' = "piece"
  /\ UNCHANGED <<entries, failures, drive, place, cut, build, already, doomed,
                 lastId, spent>>

\* Mutant of RecordEntry: the target counts as pushed one piece early.
RecordEntryEarly ==
  /\ pc = "piece"
  /\ Piece >= cut
  /\ entries' = With(entries, Target, [build |-> build, pieces |-> records])
  /\ failures' = failures \ {Target}
  /\ partials' = Without(partials, Target)
  /\ NextPending(place)
  /\ pc' = "fetch"
  /\ DropTarget
  /\ UNCHANGED <<drive, cut, lastId, spent>>

\* Mutant of RecordEntry: an earlier failure stays noted.
RecordEntryOnly ==
  /\ pc = "piece"
  /\ Piece > cut
  /\ entries' = With(entries, Target, [build |-> build, pieces |-> records])
  /\ partials' = Without(partials, Target)
  /\ NextPending(place)
  /\ pc' = "fetch"
  /\ DropTarget
  /\ UNCHANGED <<failures, drive, cut, lastId, spent>>

\* All pieces are up: the target is pushed.
RecordEntry ==
  /\ pc = "piece"
  /\ Piece > cut
  /\ entries' = With(entries, Target, [build |-> build, pieces |-> records])
  /\ failures' = failures \ {Target}
  /\ partials' = Without(partials, Target)
  /\ NextPending(place)
  /\ pc' = "fetch"
  /\ DropTarget
  /\ UNCHANGED <<drive, cut, lastId, spent>>

\* The run is over; it exits non-zero when a target failed.
EndRun ==
  /\ pc = "fetch"
  /\ ~AtTarget
  /\ pc' = "idle"
  /\ place' = 0
  /\ cut' = 0
  /\ UNCHANGED <<ledger, drive, build, already, records, session, chunk,
                 doomed, lastId, spent>>

\* The process is killed, or interrupted from the keyboard: no cleanup.
Crash ==
  /\ pc # "idle"
  /\ Spend("crash")
  /\ pc' = "idle"
  /\ place' = 0
  /\ cut' = 0
  /\ DropTarget
  /\ UNCHANGED <<ledger, drive, lastId>>

Step ==
  \/ Fetch \/ FetchFails \/ SkipPiece \/ BeginPiece
  \/ UploadChunk \/ UploadUnanswered \/ UploadFails
  \/ CleanUp \/ CleanedUp \/ CleanUpFails
  \/ Remember \/ RecordEntry \/ EndRun

Next == StartRun \/ Step \/ Crash

Spec == Init /\ [][Next]_vars

-----------------------------------------------------------------------------
(* What must hold.                                                         *)

Ids == 1..MaxSessions
RecordOf(t, p) ==
  [target: {t}, piece: {p}, session: Ids,
   data: [build: Ids, cut: Cuts, piece: {p}]]

TypeOK ==
  /\ DOMAIN entries \subseteq Targets
  /\ \A t \in DOMAIN entries :
       /\ entries[t].build \in Ids
       /\ \A p \in DOMAIN entries[t].pieces : entries[t].pieces[p] \in RecordOf(t, p)
  /\ DOMAIN partials \subseteq Targets
  /\ \A t \in DOMAIN partials : \A p \in DOMAIN partials[t] :
       partials[t][p] \in RecordOf(t, p)
  /\ failures \subseteq Targets
  /\ \A f \in drive : /\ f.session \in Ids
                      /\ f.chunk \in 1..Chunks
                      /\ f.copy \in Nat
  /\ pc \in {"idle", "fetch", "piece", "upload", "remember", "cleanup"}
  /\ place \in 0..(Len(Order) + 1)
  /\ cut \in Cuts \cup {0}
  /\ build \in 0..MaxSessions
  /\ Len(records) <= cut
  /\ \A p \in DOMAIN records : records[p] \in RecordOf(Target, p)
  /\ session \in 0..MaxSessions
  /\ chunk \in 0..Chunks
  /\ doomed \subseteq drive
  /\ lastId \in 0..MaxSessions
  /\ spent \in [Mishaps -> Nat]

\* download_from_drive and join_files on one session: every file of the folder
\* with the session's prefix is fetched, and one that is there twice is joined
\* twice, so the piece decrypts exactly when each chunk is there once.
PieceRestores(r) ==
  \A c \in 1..Chunks :
    \E f \in drive : /\ {g \in drive : g.session = r.session /\ g.chunk = c} = {f}
                     /\ f.target = r.target
                     /\ f.piece = r.piece
                     /\ f.data = r.data

\* innout-batch pull of a target: its pieces decrypt, and one after the other
\* they are the file whose digest the entry records.
Restores(t) ==
  LET pieces == entries[t].pieces IN
  \A p \in DOMAIN pieces :
    /\ PieceRestores(pieces[p])
    /\ pieces[p].data = PieceData(entries[t].build, Len(pieces), p)

\* The ledger tells the truth: every target it lists as pushed can be pulled,
\* whatever failed or was interrupted while it was pushed (cmd_push).
EntriesRestore == \A t \in DOMAIN entries : Restores(t)

\* It does for every file that is no bundle, as long as no answer was lost: no
\* refusal and no kill, of this target or another, breaks what is recorded.
PlainEntriesRestore ==
  spent["unanswered"] = 0 =>
    \A t \in DOMAIN entries \ Bundles : Restores(t)

\* A piece noted as finished stays whole on Drive: cleaning up after a later
\* piece, or after another target, never takes a chunk of it (push_pieces).
FinishedPiecesStay ==
  \A t \in DOMAIN partials : \A p \in DOMAIN partials[t] : \A c \in 1..Chunks :
    \E f \in drive : /\ f.session = partials[t][p].session
                     /\ f.chunk = c
                     /\ f.data = partials[t][p].data

\* A resumed run sends only what is missing: no chunk of a pushed target or of
\* a finished piece is ever uploaded again.
NothingSentTwice ==
  [][\A f \in drive' \ drive :
       /\ f.target \notin DOMAIN entries
       /\ f.piece \notin DOMAIN PartialsOf(f.target)]_vars

\* The ledger does not contradict itself: a pushed target is not also listed
\* as failed or as half done, and no run takes it up again.
LedgerConsistent ==
  \A t \in DOMAIN entries :
    /\ t \notin failures
    /\ t \notin DOMAIN partials
    /\ AtTarget => Target # t

\* One bad target costs that target: a run that gets to its end has pushed or
\* noted as failed every target there is.
NoTargetForgotten ==
  pc = "fetch" /\ ~AtTarget =>
    \A t \in Targets : t \in DOMAIN entries \cup failures

Referenced ==
  (UNION {{entries[t].pieces[p].session : p \in DOMAIN entries[t].pieces} :
            t \in DOMAIN entries})
  \cup (UNION {{partials[t][p].session : p \in DOMAIN partials[t]} :
                 t \in DOMAIN partials})

Orphans == {f.session : f \in drive} \ Referenced

\* Half-uploaded chunks do not linger: a session that the ledger does not know
\* is left behind only by a crash, or by a failure whose cleanup failed too.
OrphansFromMishaps ==
  pc = "idle" =>
    2 * Cardinality(Orphans) <=
      2 * spent["crash"] + spent["refused"]

\* An operator who re-runs the command while it reports targets to do gets
\* every target into the ledger.
AllPushed == <>[](DOMAIN entries = Targets)
=============================================================================
