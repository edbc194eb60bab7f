--------------------------- MODULE ServerTransfer ---------------------------
(***************************************************************************)
(* One session pushed to innout-server: uploader.upload_chunks posts its   *)
(* parts one after the other, server.upload handles each request in one of *)
(* several gunicorn worker processes, which share nothing but the session  *)
(* directory.                                                              *)
(*                                                                         *)
(* The client may stop waiting for an answer and post the part again while *)
(* the first request is still being handled.  The body of a request has    *)
(* arrived in full before its handler runs; the handler copies it into the *)
(* part's file block by block.                                             *)
(***************************************************************************)
EXTENDS Integers, FiniteSets

CONSTANTS
  PartCounts,  \* how many parts a session may have
  MaxParts,    \* parts the server has names for (1000: _PART_RE)
  Blocks,      \* blocks in which a part is written
  Workers,     \* the gunicorn workers (innout-server --workers)
  MaxRetries,  \* uploader._MAX_RETRIES
  Budgets      \* bounds: the mishaps a behaviour may draw on, one record each

Mishaps == {"timeout",  \* the client gives up waiting for an answer
            "lost",     \* the request does not reach the server
            "kill",     \* a worker is killed while it handles a request
            "limit"}    \* the rate limiter turns a request away

None == "none"

ASSUME ServerAssumption ==
  /\ PartCounts \subseteq Nat \ {0} /\ PartCounts # {} /\ MaxParts \in Nat
  /\ Blocks \in Nat \ {0} /\ MaxRetries \in Nat \ {0} /\ None \notin Workers
  /\ Budgets \subseteq [Mishaps -> Nat] /\ Budgets # {}

VARIABLES
  count,     \* total_parts of the session; its parts are 1..count
  client,    \* "post", "wait", "done" or "failed"
  part,      \* the part the client is sending
  attempt,   \* its attempt at it
  awaited,   \* the worker whose answer the client waits for, or None
  worker,    \* worker -> [at, part, block]: where its handler is
  total,     \* total_parts.txt: "absent", "empty" or "written"
  files,     \* the parts whose file exists
  blocks,    \* part -> the blocks of it that its file holds
  left       \* what is left of the budget

vars == <<count, client, part, attempt, awaited, worker, total, files, blocks, left>>

Idle == [at |-> "idle", part |-> 0, block |-> 0]
PartIds == 1..count
BlockIds == 1..Blocks
Whole(p) == p \in files /\ blocks[p] = BlockIds

Spend(kind) == left[kind] > 0 /\ left' = [left EXCEPT ![kind] = @ - 1]

Init ==
  /\ count \in PartCounts
  /\ client = "post" /\ part = 1 /\ attempt = 1 /\ awaited = None
  /\ worker = [w \in Workers |-> Idle]
  /\ total = "absent"
  /\ files = {}
  /\ blocks = [p \in PartIds |-> {}]
  /\ left \in Budgets

-----------------------------------------------------------------------------
(* The client.                                                             *)

\* A RequestException: post the part again, or give up after the last attempt.
RetryOrFail ==
  /\ awaited' = None
  /\ IF attempt < MaxRetries
       THEN client' = "post" /\ attempt' = attempt + 1
       ELSE client' = "failed" /\ UNCHANGED attempt
  /\ UNCHANGED part

\* A response that is not ok raises a RuntimeError, which nothing retries.
NotOk ==
  /\ awaited' = None
  /\ client' = "failed"
  /\ UNCHANGED <<part, attempt>>

\* The request is taken up by a worker that is free.
Post ==
  /\ client = "post"
  /\ part <= MaxParts
  /\ \E w \in Workers :
       /\ worker[w] = Idle
       /\ worker' = [worker EXCEPT ![w] = [at |-> "check", part |-> part, block |-> 1]]
       /\ awaited' = w
  /\ client' = "wait"
  /\ UNCHANGED <<count, part, attempt, total, files, blocks, left>>

PostLost ==
  /\ client = "post"
  /\ Spend("lost")
  /\ RetryOrFail
  /\ UNCHANGED <<count, worker, total, files, blocks>>

\* A request over the limit is answered 429 before the handler runs.
PostLimited ==
  /\ client = "post"
  /\ Spend("limit")
  /\ NotOk
  /\ UNCHANGED <<count, worker, total, files, blocks>>

\* The number of the part has a digit too many (_validate_part): 400, when all the
\* parts before it are stored.
PostUnnamed ==
  /\ client = "post"
  /\ part > MaxParts
  /\ NotOk
  /\ UNCHANGED <<count, worker, total, files, blocks, left>>

\* The client stops waiting; the worker knows nothing of it.
Timeout ==
  /\ client = "wait"
  /\ Spend("timeout")
  /\ RetryOrFail
  /\ UNCHANGED <<count, worker, total, files, blocks>>

\* The part was stored: send the next one, or be done.
Ok ==
  /\ awaited' = None
  /\ attempt' = 1
  /\ IF part < count THEN client' = "post" /\ part' = part + 1
                     ELSE client' = "done" /\ UNCHANGED part

Ignored == UNCHANGED <<client, part, attempt, awaited>>

-----------------------------------------------------------------------------
(* The handler of one request, in worker w.                                *)

At(w, where) == worker[w].at = where
Goto(w, where) == worker' = [worker EXCEPT ![w].at = where]
Free(w) == worker' = [worker EXCEPT ![w] = Idle]

\* total_parts_file.exists(), and on from there.
CheckTotal(w) ==
  /\ At(w, "check")
  /\ Goto(w, IF total = "absent" THEN "create" ELSE "read")
  /\ UNCHANGED <<count, client, part, attempt, awaited, total, files, blocks, left>>

\* int(read_text()) of what is there.  The number is this session's, so it
\* never mismatches.
ReadTotal(w) ==
  /\ At(w, "read")
  /\ total # "empty"
  /\ Goto(w, "open")
  /\ UNCHANGED <<count, client, part, attempt, awaited, total, files, blocks, left>>

\* Mutant of ReadEmptyTotal: wait until somebody has written the number.
ReadEmptyTotalAgain(w) == At(w, "read") /\ total = "empty" /\ UNCHANGED vars

\* An empty file is no number: 500.
ReadEmptyTotal(w) ==
  /\ At(w, "read")
  /\ total = "empty"
  /\ Free(w)
  /\ IF awaited = w THEN NotOk ELSE Ignored
  /\ UNCHANGED <<count, total, files, blocks, left>>

\* write_text opens the file, which empties it, and then writes it.
CreateTotal(w) ==
  /\ At(w, "create")
  /\ total' = "empty"
  /\ Goto(w, "fill")
  /\ UNCHANGED <<count, client, part, attempt, awaited, files, blocks, left>>

FillTotal(w) ==
  /\ At(w, "fill")
  /\ total' = "written"
  /\ Goto(w, "open")
  /\ UNCHANGED <<count, client, part, attempt, awaited, files, blocks, left>>

\* Mutant of OpenPart: a part whose file exists counts as stored.
OpenPartOnce(w) ==
  /\ At(w, "open")
  /\ files' = files \cup {worker[w].part}
  /\ Goto(w, IF worker[w].part \in files THEN "reply" ELSE "write")
  /\ UNCHANGED <<count, client, part, attempt, awaited, total, blocks, left>>

\* save() opens the part's file, which empties it ...
OpenPart(w) ==
  /\ At(w, "open")
  /\ files' = files \cup {worker[w].part}
  /\ blocks' = [blocks EXCEPT ![worker[w].part] = {}]
  /\ Goto(w, "write")
  /\ UNCHANGED <<count, client, part, attempt, awaited, total, left>>

\* Mutant of WriteBlock: one block too many.
WriteBlockBeyond(w) ==
  /\ At(w, "write")
  /\ blocks' = [blocks EXCEPT ![worker[w].part] = @ \cup {worker[w].block}]
  /\ worker' = [worker EXCEPT ![w].block = @ + 1,
                              ![w].at = IF worker[w].block <= Blocks THEN "write"
                                                                     ELSE "reply"]
  /\ UNCHANGED <<count, client, part, attempt, awaited, total, files, left>>

\* ... and copies the body into it.
WriteBlock(w) ==
  /\ At(w, "write")
  /\ blocks' = [blocks EXCEPT ![worker[w].part] = @ \cup {worker[w].block}]
  /\ worker' = [worker EXCEPT ![w].block = @ + 1,
                              ![w].at = IF worker[w].block < Blocks THEN "write"
                                                                    ELSE "reply"]
  /\ UNCHANGED <<count, client, part, attempt, awaited, total, files, left>>

Reply(w) ==
  /\ At(w, "reply")
  /\ Free(w)
  /\ IF awaited = w THEN Ok ELSE Ignored
  /\ UNCHANGED <<count, total, files, blocks, left>>

\* gunicorn replaces a killed worker; its connection is reset.
Kill(w) ==
  /\ worker[w] # Idle
  /\ Spend("kill")
  /\ Free(w)
  /\ IF awaited = w THEN RetryOrFail ELSE Ignored
  /\ UNCHANGED <<count, total, files, blocks>>

Handle(w) ==
  \/ CheckTotal(w) \/ ReadTotal(w) \/ ReadEmptyTotal(w)
  \/ CreateTotal(w) \/ FillTotal(w)
  \/ OpenPart(w) \/ WriteBlock(w) \/ Reply(w)

Next ==
  \/ Post \/ PostLost \/ PostLimited \/ PostUnnamed \/ Timeout
  \/ \E w \in Workers : Handle(w) \/ Kill(w)

Spec == Init /\ [][Next]_vars

-----------------------------------------------------------------------------
(* What must hold.                                                         *)

TypeOK ==
  /\ count \in PartCounts
  /\ client \in {"post", "wait", "done", "failed"}
  /\ part \in PartIds
  /\ attempt \in 1..MaxRetries
  /\ awaited \in Workers \cup {None}
  /\ \A w \in Workers :
       /\ worker[w].at \in {"idle", "check", "read", "create", "fill", "open",
                            "write", "reply"}
       /\ worker[w].part \in PartIds \cup {0}
       /\ worker[w].block \in 0..(Blocks + 1)
  /\ total \in {"absent", "empty", "written"}
  /\ files \subseteq PartIds
  /\ blocks \in [PartIds -> SUBSET BlockIds]
  /\ left \in [Mishaps -> Nat]

\* A request for part p is still being handled.
InHand(p) == \E w \in Workers : worker[w] # Idle /\ worker[w].part = p

\* Acknowledged parts: those the client went past.
Acked(p) == p < part \/ client = "done"

\* Once no request for it is in hand, an acknowledged part is whole: workers
\* that save the same part at once, one of them for a request the client had
\* given up, leave the same file as one alone (server.upload).
SettledWhole == \A p \in PartIds : Acked(p) /\ ~InHand(p) => Whole(p)
=============================================================================
