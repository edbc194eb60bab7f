-------------------------- MODULE ServerPullProofs --------------------------
(***************************************************************************)
(* Proofs about the push of a session to innout-server and a pull beside   *)
(* it: the types, that acknowledged parts end up whole, and that a pull of *)
(* a push that reported success decrypts.                                  *)
(***************************************************************************)
EXTENDS ServerPull, TLAPS

-----------------------------------------------------------------------------
(* Types, and where a request in hand has to be.                           *)

Places == {"idle", "check", "read", "create", "fill", "open", "write", "reply"}

ClientTypes ==
  /\ count \in PartCounts
  /\ client \in {"post", "wait", "done", "failed"}
  /\ part \in PartIds
  /\ attempt \in 1..MaxRetries
  /\ awaited \in Workers \cup {None}

WorkerTypes ==
  worker \in [Workers -> [at: Places, part: PartIds \cup {0}, block: 0..(Blocks + 1)]]

FileTypes ==
  /\ total \in {"absent", "empty", "written"}
  /\ files \subseteq PartIds
  /\ blocks \in [PartIds -> SUBSET BlockIds]
  /\ left \in [Mishaps -> Nat]

Opened(w) == worker[w].at \in {"write", "reply"}

\* A request in hand is for a part, writes one of its blocks, starting with the
\* first, and has a file once it writes.
Requests ==
  \A w \in Workers :
    /\ worker[w].at = "idle" => worker[w] = Idle
    /\ worker[w].at # "idle" => worker[w].part \in PartIds
    /\ worker[w].at \notin {"idle", "write", "reply"} => worker[w].block = 1
    /\ worker[w].at = "write" => worker[w].block \in BlockIds
    /\ Opened(w) => worker[w].part \in files

\* The client waits for a worker that has its request for the current part.
Waits ==
  /\ client # "wait" => awaited = None
  /\ client = "wait" => /\ awaited \in Workers
                        /\ worker[awaited].at # "idle"
                        /\ worker[awaited].part = part

AckedStored == \A p \in PartIds : Acked(p) => p \in files

PushInv == ClientTypes /\ WorkerTypes /\ FileTypes /\ Requests /\ Waits /\ AckedStored

LEMMA PartsAndBlocks ==
  ClientTypes => count \in Nat /\ 1 \in PartIds /\ 1 \in BlockIds
BY ServerAssumption DEF ClientTypes, PartIds, BlockIds

LEMMA PushInvInit == Init => PushInv
<1> SUFFICES ASSUME Init PROVE PushInv
  OBVIOUS
<1> USE ServerAssumption DEF Init
<1>1. count \in Nat \ {0} /\ PartIds = 1..count
  BY DEF PartIds
<1>2. ClientTypes
  BY <1>1 DEF ClientTypes
<1>3. WorkerTypes
  BY <1>1 DEF WorkerTypes, Idle, Places
<1>4. FileTypes
  BY <1>1 DEF FileTypes
<1>5. Requests
  BY DEF Requests, Idle, Opened
<1>6. Waits /\ AckedStored
  BY <1>1 DEF Waits, AckedStored, Acked
<1> QED
  BY <1>2, <1>3, <1>4, <1>5, <1>6 DEF PushInv

\* What a mishap costs leaves the budget a budget.
LEMMA SpendType ==
  ASSUME left \in [Mishaps -> Nat], NEW kind \in Mishaps, Spend(kind)
  PROVE  /\ left' \in [Mishaps -> Nat]
         /\ left[kind] > 0
         /\ \A k \in Mishaps : left'[k] <= left[k]
BY DEF Spend

\* A worker that goes to another place keeps its type.
LEMMA GotoType ==
  ASSUME WorkerTypes, NEW w \in Workers, NEW where \in Places, Goto(w, where),
         UNCHANGED count
  PROVE  WorkerTypes'
<1>1. worker[w] \in [at: Places, part: PartIds \cup {0}, block: 0..(Blocks + 1)]
  BY DEF WorkerTypes
<1>2. [worker[w] EXCEPT !.at = where]
        \in [at: Places, part: PartIds \cup {0}, block: 0..(Blocks + 1)]
  BY <1>1
<1> QED
  BY <1>2 DEF WorkerTypes, Goto, PartIds

LEMMA PushInvNext == PushInv /\ [Next]_vars => PushInv'
<1> SUFFICES ASSUME PushInv, [Next]_vars PROVE PushInv'
  OBVIOUS
<1>0. count \in Nat /\ 1 \in PartIds /\ 1 \in BlockIds /\ PartIds = 1..count
      /\ Blocks \in Nat /\ MaxRetries \in Nat \ {0} /\ None \notin Workers
  BY PartsAndBlocks, ServerAssumption DEF PushInv, PartIds
<1> USE <1>0 DEF PushInv
<1>1. CASE Post
  <2>1. PICK w \in Workers :
          /\ worker[w] = Idle
          /\ worker' = [worker EXCEPT ![w] = [at |-> "check", part |-> part, block |-> 1]]
          /\ awaited' = w
    BY <1>1 DEF Post
  <2> USE <1>1, <2>1 DEF Post
  <2>2. ClientTypes' /\ WorkerTypes' /\ FileTypes'
    BY DEF ClientTypes, WorkerTypes, FileTypes, PartIds, Places, BlockIds
  <2>3. Requests' /\ Waits' /\ AckedStored'
    BY DEF ClientTypes, WorkerTypes, Requests, Waits, AckedStored, Acked, Opened, PartIds, Idle, BlockIds
  <2> QED
    BY <2>2, <2>3
<1>2. CASE PostLost
  <2>1. left' \in [Mishaps -> Nat]
    BY <1>2, SpendType DEF FileTypes, PostLost, Mishaps
  <2> USE <1>2, <2>1 DEF PostLost, RetryOrFail
  <2>8. ClientTypes' /\ WorkerTypes' /\ FileTypes'
    BY DEF ClientTypes, WorkerTypes, FileTypes, PartIds, BlockIds, Places
  <2>9. Requests' /\ Waits' /\ AckedStored'
    BY DEF ClientTypes, WorkerTypes, FileTypes, Requests, Waits, AckedStored, Acked, Opened, PartIds, BlockIds, Idle
  <2> QED
    BY <2>8, <2>9
<1>3. CASE PostLimited
  <2>1. left' \in [Mishaps -> Nat]
    BY <1>3, SpendType DEF FileTypes, PostLimited, Mishaps
  <2> USE <1>3, <2>1 DEF PostLimited, NotOk
  <2>8. ClientTypes' /\ WorkerTypes' /\ FileTypes'
    BY DEF ClientTypes, WorkerTypes, FileTypes, PartIds, BlockIds, Places
  <2>9. Requests' /\ Waits' /\ AckedStored'
    BY DEF ClientTypes, WorkerTypes, FileTypes, Requests, Waits, AckedStored, Acked, Opened, PartIds, BlockIds, Idle
  <2> QED
    BY <2>8, <2>9
<1>4. CASE PostUnnamed
  <2> USE <1>4 DEF PostUnnamed, NotOk
  <2>8. ClientTypes' /\ WorkerTypes' /\ FileTypes'
    BY DEF ClientTypes, WorkerTypes, FileTypes, PartIds, BlockIds, Places
  <2>9. Requests' /\ Waits' /\ AckedStored'
    BY DEF ClientTypes, WorkerTypes, FileTypes, Requests, Waits, AckedStored, Acked, Opened, PartIds, BlockIds, Idle
  <2> QED
    BY <2>8, <2>9
<1>5. CASE Timeout
  <2>1. left' \in [Mishaps -> Nat]
    BY <1>5, SpendType DEF FileTypes, Timeout, Mishaps
  <2> USE <1>5, <2>1 DEF Timeout, RetryOrFail
  <2>8. ClientTypes' /\ WorkerTypes' /\ FileTypes'
    BY DEF ClientTypes, WorkerTypes, FileTypes, PartIds, BlockIds, Places
  <2>9. Requests' /\ Waits' /\ AckedStored'
    BY DEF ClientTypes, WorkerTypes, FileTypes, Requests, Waits, AckedStored, Acked, Opened, PartIds, BlockIds, Idle
  <2> QED
    BY <2>8, <2>9
<1>6. ASSUME NEW w \in Workers, Handle(w) PROVE PushInv'
  <2>1. CASE CheckTotal(w)
    <3> USE <2>1 DEF CheckTotal
    <3>1. ClientTypes' /\ WorkerTypes' /\ FileTypes'
      <4>1. WorkerTypes'
        BY GotoType DEF Places
      <4>2. ClientTypes' /\ FileTypes'
        BY DEF ClientTypes, FileTypes, PartIds, BlockIds
      <4> QED
        BY <4>1, <4>2
    <3>2. Requests' /\ Waits' /\ AckedStored'
      BY DEF ClientTypes, WorkerTypes, FileTypes, Requests, Waits, AckedStored, Acked, Opened, PartIds, BlockIds, Idle, Places, Goto, At
    <3> QED
      BY <3>1, <3>2
  <2>2. CASE ReadTotal(w)
    <3> USE <2>2 DEF ReadTotal, Goto, At
    <3>1. ClientTypes' /\ WorkerTypes' /\ FileTypes'
      BY DEF ClientTypes, WorkerTypes, FileTypes, PartIds, BlockIds, Places, Requests, Idle
    <3>2. Requests' /\ Waits' /\ AckedStored'
      BY DEF ClientTypes, WorkerTypes, FileTypes, Requests, Waits, AckedStored, Acked, Opened, PartIds, BlockIds, Idle, Places
    <3> QED
      BY <3>1, <3>2
  <2>3. CASE ReadEmptyTotal(w)
    <3> USE <2>3 DEF ReadEmptyTotal, Free, NotOk, Ignored, At
    <3>1. ClientTypes' /\ WorkerTypes' /\ FileTypes'
      BY DEF ClientTypes, WorkerTypes, FileTypes, PartIds, BlockIds, Places, Requests, Idle
    <3>2. Requests' /\ Waits' /\ AckedStored'
      BY DEF ClientTypes, WorkerTypes, FileTypes, Requests, Waits, AckedStored, Acked, Opened, PartIds, BlockIds, Idle, Places
    <3> QED
      BY <3>1, <3>2
  <2>4. CASE CreateTotal(w)
    <3> USE <2>4 DEF CreateTotal, Goto, At
    <3>1. ClientTypes' /\ WorkerTypes' /\ FileTypes'
      BY DEF ClientTypes, WorkerTypes, FileTypes, PartIds, BlockIds, Places, Requests, Idle
    <3>2. Requests' /\ Waits' /\ AckedStored'
      BY DEF ClientTypes, WorkerTypes, FileTypes, Requests, Waits, AckedStored, Acked, Opened, PartIds, BlockIds, Idle, Places
    <3> QED
      BY <3>1, <3>2
  <2>5. CASE FillTotal(w)
    <3> USE <2>5 DEF FillTotal, Goto, At
    <3>1. ClientTypes' /\ WorkerTypes' /\ FileTypes'
      BY DEF ClientTypes, WorkerTypes, FileTypes, PartIds, BlockIds, Places, Requests, Idle
    <3>2. Requests' /\ Waits' /\ AckedStored'
      BY DEF ClientTypes, WorkerTypes, FileTypes, Requests, Waits, AckedStored, Acked, Opened, PartIds, BlockIds, Idle, Places
    <3> QED
      BY <3>1, <3>2
  <2>6. CASE OpenPart(w)
    <3> USE <2>6 DEF OpenPart, Goto, At
    <3>1. ClientTypes' /\ WorkerTypes' /\ FileTypes'
      BY DEF ClientTypes, WorkerTypes, FileTypes, PartIds, BlockIds, Places, Requests, Idle
    <3>2. Requests' /\ Waits' /\ AckedStored'
      BY DEF ClientTypes, WorkerTypes, FileTypes, Requests, Waits, AckedStored, Acked, Opened, PartIds, BlockIds, Idle, Places
    <3> QED
      BY <3>1, <3>2
  <2>7. CASE WriteBlock(w)
    <3> USE <2>7 DEF WriteBlock, At
    <3>1. ClientTypes' /\ WorkerTypes' /\ FileTypes'
      <4>1. worker[w].block + 1 \in 0..(Blocks + 1)
        BY DEF Requests, BlockIds
      <4>2. WorkerTypes'
        BY <4>1 DEF WorkerTypes, PartIds, Places
      <4>3. ClientTypes'
        BY DEF ClientTypes, PartIds
      <4>4. worker[w].part \in PartIds /\ worker[w].block \in BlockIds
        BY DEF Requests
      <4>5. FileTypes'
        BY <4>4 DEF FileTypes, PartIds, BlockIds
      <4> QED
        BY <4>2, <4>3, <4>5
    <3>2. Requests' /\ Waits' /\ AckedStored'
      BY DEF ClientTypes, WorkerTypes, FileTypes, Requests, Waits, AckedStored, Acked, Opened, PartIds, BlockIds, Idle, Places
    <3> QED
      BY <3>1, <3>2
  <2>8. CASE Reply(w)
    <3> USE <2>8 DEF Reply, Free, Ok, Ignored, At
    <3>1. ClientTypes' /\ WorkerTypes' /\ FileTypes'
      BY DEF ClientTypes, WorkerTypes, FileTypes, PartIds, BlockIds, Places, Requests, Idle
    <3>2. Requests' /\ Waits' /\ AckedStored'
      BY DEF ClientTypes, WorkerTypes, FileTypes, Requests, Waits, AckedStored, Acked, Opened, PartIds, BlockIds, Idle, Places
    <3> QED
      BY <3>1, <3>2
  <2> QED
    BY <1>6, <2>1, <2>2, <2>3, <2>4, <2>5, <2>6, <2>7, <2>8 DEF Handle
<1>7. ASSUME NEW w \in Workers, Kill(w) PROVE PushInv'
  <2>1. left' \in [Mishaps -> Nat]
    BY <1>7, SpendType DEF FileTypes, Kill, Mishaps
  <2> USE <1>7, <2>1 DEF Kill, Free, RetryOrFail, Ignored
  <2>8. ClientTypes' /\ WorkerTypes' /\ FileTypes'
    BY DEF ClientTypes, WorkerTypes, FileTypes, PartIds, BlockIds, Places, Idle
  <2>9. Requests' /\ Waits' /\ AckedStored'
    BY DEF ClientTypes, WorkerTypes, FileTypes, Requests, Waits, AckedStored, Acked, Opened, PartIds, BlockIds, Idle
  <2> QED
    BY <2>8, <2>9
<1>8. CASE UNCHANGED vars
  BY <1>8 DEF vars, ClientTypes, WorkerTypes, FileTypes, Requests, Waits, AckedStored, Acked, Opened, PartIds, BlockIds
<1> QED
  BY <1>1, <1>2, <1>3, <1>4, <1>5, <1>6, <1>7, <1>8 DEF Next

-----------------------------------------------------------------------------
(* Acknowledged parts end up whole.  If no worker is ever killed, whoever   *)
(* opened a part's file last writes all of it.  If no request is ever given *)
(* up, nobody but the worker the client waits for touches a file.           *)

\* Worker w writes part p, and all it is past is there.
Covers(w, p) ==
  /\ worker[w].at = "write"
  /\ worker[w].part = p
  /\ \A b \in BlockIds : b < worker[w].block => b \in blocks[p]

Covered == \A p \in files : Whole(p) \/ \E w \in Workers : Covers(w, p)

NoneKilled == left["kill"] = 0 /\ Covered

Alone ==
  /\ \A w \in Workers : worker[w].at # "idle" => awaited = w
  /\ \A p \in PartIds : Acked(p) => Whole(p)
  /\ \A w \in Workers : worker[w].at = "write" => Covers(w, worker[w].part)
  /\ \A w \in Workers : worker[w].at = "reply" => Whole(worker[w].part)

NoneGivenUp == left["timeout"] = 0 /\ Alone

\* No behaviour has both a worker killed and a request given up: a worker killed
\* while it writes again what was acknowledged would leave the part cut short.
Apart == \A b \in Budgets : b["kill"] = 0 \/ b["timeout"] = 0

SettleInv == PushInv /\ (NoneKilled \/ NoneGivenUp)

LEMMA SettleInit == ASSUME Apart, Init PROVE NoneKilled \/ NoneGivenUp
<1>1. left["kill"] = 0 \/ left["timeout"] = 0
  BY DEF Apart, Init
<1>2. Covered
  BY DEF Init, Covered
<1>3. Alone
  BY ServerAssumption DEF Init, Alone, Acked, Idle, PartIds
<1> QED
  BY <1>1, <1>2, <1>3 DEF NoneKilled, NoneGivenUp

\* Nothing but a write to a part's file, or the loss of a writer, takes the cover
\* of a part away.
LEMMA CoveredKept ==
  ASSUME Covered, UNCHANGED <<count, files, blocks>>,
         \A w \in Workers : worker[w].at = "write" => worker'[w] = worker[w]
  PROVE  Covered'
BY DEF Covered, Covers, Whole, BlockIds

LEMMA NoneKilledNext == PushInv /\ NoneKilled /\ [Next]_vars => NoneKilled'
<1> SUFFICES ASSUME PushInv, NoneKilled, [Next]_vars PROVE NoneKilled'
  OBVIOUS
<1> USE DEF PushInv, NoneKilled
<1>0. WorkerTypes /\ Requests /\ FileTypes /\ Covered /\ Blocks \in Nat \ {0}
  BY ServerAssumption
<1>1. CASE Post
  <2>1. PICK v \in Workers :
          /\ worker[v] = Idle
          /\ worker' = [worker EXCEPT ![v] = [at |-> "check", part |-> part, block |-> 1]]
    BY <1>1 DEF Post
  <2>2. \A w \in Workers : worker[w].at = "write" => worker'[w] = worker[w]
    BY <1>0, <2>1 DEF WorkerTypes, Idle
  <2>3. Covered'
    BY <1>0, <1>1, <2>2, CoveredKept DEF Post
  <2> QED
    BY <1>1, <2>3 DEF Post
<1>2. CASE PostLost \/ PostLimited \/ PostUnnamed \/ Timeout
  <2>1. UNCHANGED <<count, files, blocks, worker>>
    BY <1>2 DEF PostLost, PostLimited, PostUnnamed, Timeout
  <2>2. left'["kill"] = 0
    BY <1>0, <1>2 DEF PostLost, PostLimited, PostUnnamed, Timeout, Spend, FileTypes, Mishaps
  <2> QED
    BY <1>0, <2>1, <2>2, CoveredKept
<1>3. ASSUME NEW v \in Workers, Handle(v) PROVE NoneKilled'
  <2>1. CASE \/ CheckTotal(v) \/ ReadTotal(v) \/ ReadEmptyTotal(v)
             \/ CreateTotal(v) \/ FillTotal(v) \/ Reply(v)
    <3>1. UNCHANGED <<count, files, blocks, left>>
      BY <2>1 DEF CheckTotal, ReadTotal, ReadEmptyTotal, CreateTotal, FillTotal, Reply
    <3>2. worker[v].at # "write" /\ \A w \in Workers \ {v} : worker'[w] = worker[w]
      BY <1>0, <2>1 DEF CheckTotal, ReadTotal, ReadEmptyTotal, CreateTotal, FillTotal,
                        Reply, At, Goto, Free, WorkerTypes
    <3> QED
      BY <1>0, <3>1, <3>2, CoveredKept
  <2>2. CASE OpenPart(v)
    <3> DEFINE p == worker[v].part
    <3>1. /\ worker' = [worker EXCEPT ![v].at = "write"]
          /\ files' = files \cup {p}
          /\ blocks' = [blocks EXCEPT ![p] = {}]
          /\ worker[v].at = "open"
          /\ UNCHANGED <<count, left>>
      BY <2>2 DEF OpenPart, Goto, At
    <3>2. worker[v].block = 1 /\ p \in PartIds
      BY <1>0, <3>1 DEF Requests
    <3>3. Covers(v, p)'
      BY <1>0, <3>1, <3>2 DEF Covers, WorkerTypes, BlockIds
    <3>4. ASSUME NEW q \in files, q # p
          PROVE  Whole(q)' \/ \E w \in Workers : Covers(w, q)'
      <4>1. blocks'[q] = blocks[q]
        BY <1>0, <3>1, <3>4 DEF FileTypes
      <4>2. CASE Whole(q)
        BY <3>1, <4>1, <4>2 DEF Whole, BlockIds
      <4>3. ASSUME NEW w \in Workers, Covers(w, q) PROVE Covers(w, q)'
        <5>1. w # v
          BY <3>1, <4>3 DEF Covers
        <5>2. worker'[w] = worker[w]
          BY <1>0, <3>1, <5>1 DEF WorkerTypes
        <5> QED
          BY <4>1, <4>3, <5>2 DEF Covers, BlockIds
      <4> QED
        BY <1>0, <4>2, <4>3 DEF Covered
    <3> QED
      BY <3>1, <3>3, <3>4 DEF Covered
  <2>3. CASE WriteBlock(v)
    <3> DEFINE p == worker[v].part
               b == worker[v].block
    <3>1. /\ worker[v].at = "write"
          /\ blocks' = [blocks EXCEPT ![p] = @ \cup {b}]
          /\ worker' = [worker EXCEPT ![v].block = @ + 1,
                                      ![v].at = IF b < Blocks THEN "write" ELSE "reply"]
          /\ UNCHANGED <<count, files, left>>
      BY <2>3 DEF WriteBlock, At
    <3>2. p \in PartIds /\ b \in BlockIds
      BY <1>0, <3>1 DEF Requests
    <3>3. \A q \in files : blocks[q] \subseteq blocks'[q] /\ blocks'[q] \subseteq BlockIds
      BY <1>0, <3>1, <3>2 DEF FileTypes
    <3>4. ASSUME NEW q \in files
          PROVE  Whole(q)' \/ \E w \in Workers : Covers(w, q)'
      <4>1. CASE Whole(q)
        BY <3>1, <3>3, <4>1 DEF Whole, BlockIds
      <4>2. ASSUME NEW w \in Workers \ {v}, Covers(w, q) PROVE Covers(w, q)'
        <5>1. worker'[w] = worker[w]
          BY <1>0, <3>1 DEF WorkerTypes
        <5> QED
          BY <3>3, <4>2, <5>1 DEF Covers, BlockIds
      <4>3. CASE Covers(v, q)
        <5>1. q = p /\ \A c \in BlockIds : c <= b => c \in blocks'[q]
          BY <1>0, <3>1, <3>2, <3>3, <4>3 DEF Covers, BlockIds, FileTypes
        <5>2. CASE b < Blocks
          <6>1. worker'[v].at = "write" /\ worker'[v].part = p /\ worker'[v].block = b + 1
            BY <1>0, <3>1, <5>2 DEF WorkerTypes
          <6>2. Covers(v, q)'
            BY <3>2, <5>1, <6>1 DEF Covers, BlockIds
          <6> QED
            BY <6>2
        <5>3. CASE ~(b < Blocks)
          <6>1. \A c \in BlockIds : c \in blocks'[q]
            BY <1>0, <3>2, <5>1, <5>3 DEF BlockIds
          <6>2. Whole(q)'
            BY <3>1, <3>3, <6>1 DEF Whole, BlockIds
          <6> QED
            BY <6>2
        <5> QED
          BY <5>2, <5>3
      <4> QED
        BY <1>0, <4>1, <4>2, <4>3 DEF Covered
    <3> QED
      BY <3>1, <3>4 DEF Covered
  <2> QED
    BY <1>3, <2>1, <2>2, <2>3 DEF Handle
<1>4. ASSUME NEW v \in Workers, Kill(v) PROVE FALSE
  BY <1>4 DEF Kill, Spend
<1>5. CASE UNCHANGED vars
  BY <1>0, <1>5, CoveredKept DEF vars
<1> QED
  BY <1>1, <1>2, <1>3, <1>4, <1>5 DEF Next

LEMMA NoneGivenUpNext == PushInv /\ NoneGivenUp /\ [Next]_vars => NoneGivenUp'
<1> SUFFICES ASSUME PushInv, NoneGivenUp, [Next]_vars PROVE NoneGivenUp'
  OBVIOUS
<1>0. /\ ClientTypes /\ WorkerTypes /\ FileTypes /\ Requests /\ Waits
      /\ Alone /\ left["timeout"] = 0
      /\ count \in Nat /\ PartIds = 1..count /\ part \in 1..count
      /\ Blocks \in Nat \ {0} /\ None \notin Workers
  BY ServerAssumption, PartsAndBlocks DEF PushInv, NoneGivenUp, PartIds, ClientTypes
<1>1. CASE Post
  <2>1. PICK v \in Workers :
          /\ worker[v] = Idle
          /\ worker' = [worker EXCEPT ![v] = [at |-> "check", part |-> part, block |-> 1]]
          /\ awaited' = v
    BY <1>1 DEF Post
  <2>2. \A w \in Workers : worker[w].at = "idle"
    BY <1>0, <1>1 DEF Post, Alone, Waits
  <2>3. \A w \in Workers : worker'[w].at \in {"idle", "check"} /\ (w # v => worker'[w].at = "idle")
    BY <1>0, <2>1, <2>2 DEF WorkerTypes
  <2>4. UNCHANGED <<count, part, files, blocks, left>> /\ client = "post" /\ client' = "wait"
    BY <1>1 DEF Post
  <2>5. Alone'
    BY <1>0, <2>1, <2>3, <2>4 DEF Alone, Acked, Whole, PartIds, BlockIds
  <2> QED
    BY <1>0, <2>4, <2>5 DEF NoneGivenUp
<1>2. CASE PostLost \/ PostLimited \/ PostUnnamed
  <2>1. UNCHANGED <<count, files, blocks, worker, part>>
        /\ client = "post" /\ client' \in {"post", "failed"} /\ awaited' = None
    BY <1>2 DEF PostLost, PostLimited, PostUnnamed, RetryOrFail, NotOk
  <2>2. \A w \in Workers : worker[w].at = "idle"
    BY <1>0, <2>1 DEF Alone, Waits
  <2>3. left'["timeout"] = 0
    BY <1>0, <1>2 DEF PostLost, PostLimited, PostUnnamed, Spend, FileTypes, Mishaps
  <2>4. Alone'
    BY <1>0, <2>1, <2>2 DEF Alone, Acked, Whole, PartIds, BlockIds
  <2> QED
    BY <2>3, <2>4 DEF NoneGivenUp
<1>3. CASE Timeout
  BY <1>0, <1>3 DEF Timeout, Spend
<1>4. ASSUME NEW v \in Workers, Handle(v) PROVE NoneGivenUp'
  <2> DEFINE p == worker[v].part
             b == worker[v].block
  <2>0. /\ worker[v].at # "idle" /\ awaited = v /\ client = "wait" /\ p = part
        /\ p \in PartIds
        /\ \A w \in Workers \ {v} : worker[w].at = "idle"
    <3>1. worker[v].at # "idle"
      BY <1>4 DEF Handle, CheckTotal, ReadTotal, ReadEmptyTotal, CreateTotal, FillTotal,
                  OpenPart, WriteBlock, Reply, At
    <3> QED
      BY <1>0, <3>1 DEF Alone, Waits, Requests
  <2>1. CASE CheckTotal(v) \/ ReadTotal(v) \/ CreateTotal(v) \/ FillTotal(v)
    <3>1. UNCHANGED <<count, client, part, awaited, files, blocks, left>>
      BY <2>1 DEF CheckTotal, ReadTotal, CreateTotal, FillTotal
    <3>2. /\ worker'[v].at \notin {"write", "reply"}
          /\ \A w \in Workers \ {v} : worker'[w] = worker[w]
      BY <1>0, <2>1 DEF CheckTotal, ReadTotal, CreateTotal, FillTotal, Goto, WorkerTypes
    <3>3. Alone'
      BY <1>0, <2>0, <3>1, <3>2 DEF Alone, Acked, Whole, PartIds, BlockIds
    <3> QED
      BY <1>0, <3>1, <3>3 DEF NoneGivenUp
  <2>2. CASE ReadEmptyTotal(v)
    <3>1. UNCHANGED <<count, part, files, blocks, left>> /\ awaited' = None /\ client' = "failed"
      BY <2>0, <2>2 DEF ReadEmptyTotal, NotOk
    <3>2. \A w \in Workers : worker'[w].at = "idle"
      BY <1>0, <2>0, <2>2 DEF ReadEmptyTotal, Free, Idle, WorkerTypes
    <3>3. Alone'
      BY <1>0, <2>0, <3>1, <3>2 DEF Alone, Acked, Whole, PartIds, BlockIds
    <3> QED
      BY <1>0, <3>1, <3>3 DEF NoneGivenUp
  <2>3. CASE OpenPart(v)
    <3>1. /\ UNCHANGED <<count, client, part, attempt, awaited, left>>
          /\ files' = files \cup {p}
          /\ blocks' = [blocks EXCEPT ![p] = {}]
          /\ worker' = [worker EXCEPT ![v].at = "write"]
          /\ worker[v].at = "open" /\ b = 1
      BY <1>0, <2>3 DEF OpenPart, Goto, At, Requests
    <3>2. /\ \A w \in Workers \ {v} : worker'[w] = worker[w]
          /\ worker'[v].at = "write" /\ worker'[v].part = p /\ worker'[v].block = 1
      BY <1>0, <3>1 DEF WorkerTypes
    <3>3. \A q \in PartIds : Acked(q) => q # p
      BY <1>0, <2>0 DEF Acked
    <3>4. \A q \in PartIds : Acked(q)' => Whole(q)'
      BY <1>0, <2>0, <3>1, <3>3 DEF Alone, Acked, Whole, PartIds, BlockIds, FileTypes
    <3>5. Covers(v, p)'
      BY <1>0, <3>1, <3>2 DEF Covers, BlockIds
    <3>6. Alone'
      BY <1>0, <2>0, <3>1, <3>2, <3>4, <3>5 DEF Alone, PartIds
    <3> QED
      BY <1>0, <3>1, <3>6 DEF NoneGivenUp
  <2>4. CASE WriteBlock(v)
    <3>1. /\ worker[v].at = "write"
          /\ blocks' = [blocks EXCEPT ![p] = @ \cup {b}]
          /\ worker' = [worker EXCEPT ![v].block = @ + 1,
                                      ![v].at = IF b < Blocks THEN "write" ELSE "reply"]
          /\ UNCHANGED <<count, client, part, attempt, awaited, files, left>>
      BY <2>4 DEF WriteBlock, At
    <3>2. b \in BlockIds /\ p \in files /\ Covers(v, p)
      BY <1>0, <3>1 DEF Requests, Opened, Alone
    <3>3. blocks'[p] = blocks[p] \cup {b} /\ \A q \in PartIds \ {p} : blocks'[q] = blocks[q]
      BY <1>0, <2>0, <3>1 DEF FileTypes
    <3>4. \A w \in Workers \ {v} : worker'[w] = worker[w]
      BY <1>0, <3>1 DEF WorkerTypes
    <3>5. worker'[v].part = p /\ worker'[v].block = b + 1
          /\ worker'[v].at = IF b < Blocks THEN "write" ELSE "reply"
      BY <1>0, <3>1 DEF WorkerTypes
    <3>6. \A q \in PartIds : Acked(q)' => Whole(q)'
      BY <1>0, <2>0, <3>1, <3>3 DEF Alone, Acked, Whole, PartIds, BlockIds
    <3>7. \A c \in BlockIds : c <= b => c \in blocks'[p]
      BY <1>0, <3>2, <3>3 DEF Covers, BlockIds
    <3>8. b < Blocks => Covers(v, p)'
      BY <1>0, <3>2, <3>5, <3>7 DEF Covers, BlockIds
    <3>9. ~(b < Blocks) => Whole(p)'
      <4>1. blocks[p] \subseteq BlockIds
        BY <1>0, <2>0 DEF FileTypes
      <4>2. ~(b < Blocks) => blocks'[p] = BlockIds
        BY <1>0, <3>2, <3>3, <3>7, <4>1 DEF BlockIds
      <4>3. worker'[v].part \in files'
        BY <3>1, <3>2, <3>5
      <4>4. ~(b < Blocks) => blocks'[worker'[v].part] = BlockIds
        BY <3>5, <4>2
      <4> QED
        BY <4>3, <4>4 DEF Whole, BlockIds
    <3>10. Alone'
      <4>1. \A w \in Workers : worker'[w].at # "idle" => awaited' = w
        BY <1>0, <2>0, <3>1, <3>4
      <4>2. \A w \in Workers : worker'[w].at = "write" => Covers(w, worker[w].part)'
        BY <1>0, <2>0, <3>4, <3>5, <3>8
      <4>3. \A w \in Workers : worker'[w].at = "reply" => Whole(worker[w].part)'
        BY <1>0, <2>0, <3>4, <3>5, <3>9
      <4> QED
        BY <3>1, <3>6, <4>1, <4>2, <4>3 DEF Alone, PartIds
    <3> QED
      BY <1>0, <3>1, <3>10 DEF NoneGivenUp
  <2>5. CASE Reply(v)
    <3>1. /\ UNCHANGED <<count, files, blocks, left>> /\ awaited' = None
          /\ worker[v].at = "reply" /\ worker' = [worker EXCEPT ![v] = Idle]
          /\ \/ part < count /\ client' = "post" /\ part' = part + 1
             \/ ~(part < count) /\ client' = "done" /\ part' = part
      BY <2>0, <2>5 DEF Reply, Ok, Free, At
    <3>2. \A w \in Workers : worker'[w].at = "idle"
      BY <1>0, <2>0, <3>1 DEF Idle, WorkerTypes
    <3>3. Whole(part)
      BY <1>0, <2>0, <3>1 DEF Alone
    <3>4. \A q \in PartIds : Acked(q)' => q <= part
      BY <1>0, <3>1 DEF Acked
    <3>5. \A q \in PartIds : q <= part => Whole(q)
      BY <1>0, <3>3 DEF Alone, Acked
    <3>6. \A q \in PartIds : Acked(q)' => Whole(q)'
      BY <3>1, <3>4, <3>5 DEF Whole, BlockIds
    <3>7. Alone'
      BY <1>0, <3>1, <3>2, <3>6 DEF Alone, PartIds
    <3> QED
      BY <1>0, <3>1, <3>7 DEF NoneGivenUp
  <2> QED
    BY <1>4, <2>1, <2>2, <2>3, <2>4, <2>5 DEF Handle
<1>5. ASSUME NEW v \in Workers, Kill(v) PROVE NoneGivenUp'
  <2>1. worker[v].at # "idle"
    BY <1>0, <1>5 DEF Kill, Requests
  <2>2. awaited = v /\ client = "wait" /\ \A w \in Workers \ {v} : worker[w].at = "idle"
    BY <1>0, <2>1 DEF Alone, Waits
  <2>3. UNCHANGED <<count, part, files, blocks>> /\ awaited' = None /\ client' \in {"post", "failed"}
    BY <1>5, <2>2 DEF Kill, RetryOrFail
  <2>4. \A w \in Workers : worker'[w].at = "idle"
    BY <1>0, <1>5, <2>2 DEF Kill, Free, Idle, WorkerTypes
  <2>5. left'["timeout"] = 0
    BY <1>0, <1>5 DEF Kill, Spend, FileTypes, Mishaps
  <2>6. Alone'
    BY <1>0, <2>2, <2>3, <2>4 DEF Alone, Acked, Whole, PartIds, BlockIds
  <2> QED
    BY <2>5, <2>6 DEF NoneGivenUp
<1>6. CASE UNCHANGED vars
  BY <1>0, <1>6 DEF vars, Alone, NoneGivenUp, Acked, Whole, Covers, PartIds, BlockIds
<1> QED
  BY <1>1, <1>2, <1>3, <1>4, <1>5, <1>6 DEF Next

\* A request in hand keeps its part from being settled.
LEMMA SettledFromInv == SettleInv => SettledWhole
<1> SUFFICES ASSUME SettleInv, NEW p \in PartIds, Acked(p), ~InHand(p)
             PROVE  Whole(p)
  BY DEF SettledWhole
<1>1. p \in files
  BY DEF SettleInv, PushInv, AckedStored
<1>2. CASE NoneKilled
  <2>1. Whole(p) \/ \E w \in Workers : Covers(w, p)
    BY <1>1, <1>2 DEF NoneKilled, Covered
  <2>2. ASSUME NEW w \in Workers, Covers(w, p) PROVE FALSE
    BY <2>2 DEF Covers, InHand, Idle
  <2> QED
    BY <2>1, <2>2
<1>3. CASE NoneGivenUp
  BY <1>3 DEF NoneGivenUp, Alone
<1> QED
  BY <1>2, <1>3 DEF SettleInv

-----------------------------------------------------------------------------
(* The pull.                                                               *)

Pulls ==
  [at: {"ask", "get", "read", "done", "invalid", "failed"},
   listed: SUBSET PartIds, part: PartIds, attempt: 1..MaxRetries,
   block: 1..(Blocks + 1), settled: BOOLEAN]

PullTypes ==
  /\ pull \in Pulls
  /\ local \in [got: Seq(0..Blocks), whole: BOOLEAN]

\* A pull whose manifest was sent when the push was over and settled finds every
\* part listed and whole, and none is written any more: what it reads of a part is
\* the front of it.
SettledPull ==
  pull.settled =>
    /\ client = "done" /\ \A w \in Workers : worker[w].at = "idle"
    /\ \A p \in PartIds : Whole(p)
    /\ pull.listed = PartIds
    /\ pull.at \in {"get", "read", "done", "failed"}
    /\ local.whole
    /\ pull.at = "read" => local.got = [b \in 1..(pull.block - 1) |-> b]

NotAsked == PullAt("ask") => local.whole /\ ~pull.settled

\* No push takes a step any more once it is over and settled.
LEMMA OverIsOver ==
  ASSUME PushInv, client = "done", \A w \in Workers : worker[w].at = "idle", [Next]_vars
  PROVE  UNCHANGED vars
<1>1. \A w \in Workers : worker[w] = Idle
  BY DEF PushInv, Requests
<1>2. ASSUME NEW w \in Workers PROVE ~Handle(w) /\ ~Kill(w)
  BY <1>1 DEF Handle, CheckTotal, ReadTotal, ReadEmptyTotal, CreateTotal, FillTotal,
              OpenPart, WriteBlock, Reply, At, Kill
<1>3. ~Post /\ ~PostLost /\ ~PostLimited /\ ~PostUnnamed /\ ~Timeout
  BY DEF Post, PostLost, PostLimited, PostUnnamed, Timeout
<1> QED
  BY <1>2, <1>3 DEF Next

\* How many parts a session has never changes.
LEMMA CountKept == [Next]_vars => UNCHANGED count
BY DEF Next, vars, Post, PostLost, PostLimited, PostUnnamed, Timeout, Handle, Kill,
       CheckTotal, ReadTotal, ReadEmptyTotal, CreateTotal, FillTotal, OpenPart,
       WriteBlock, Reply

\* A pull changes nothing of the push but what is left of the mishaps, and neither
\* kills a worker nor gives a request up.
LEMMA PullLeavesPush ==
  ASSUME FileTypes, PullStep
  PROVE  /\ UNCHANGED <<count, client, part, attempt, awaited, worker, total, files, blocks>>
         /\ left' \in [Mishaps -> Nat]
         /\ left'["kill"] = left["kill"] /\ left'["timeout"] = left["timeout"]
<1>1. CASE GetManifest \/ OpenDownload \/ ReadBlock \/ EndOfPart \/ EndsShort
  <2>1. UNCHANGED vars
    BY <1>1 DEF GetManifest, OpenDownload, ReadBlock, EndOfPart, EndsShort
  <2> QED
    BY <2>1 DEF vars, FileTypes
<1>2. CASE ManifestFails \/ PullLimited \/ ReadBreaks
  <2>1. Spend("lost") \/ Spend("limit")
    BY <1>2 DEF ManifestFails, PullLimited, ReadBreaks
  <2>2. left' \in [Mishaps -> Nat]
    BY <2>1, SpendType DEF FileTypes, Mishaps
  <2>3. left'["kill"] = left["kill"] /\ left'["timeout"] = left["timeout"]
    BY <2>1 DEF Spend, FileTypes, Mishaps
  <2>4. UNCHANGED <<count, client, part, attempt, awaited, worker, total, files, blocks>>
    BY <1>2 DEF ManifestFails, PullLimited, ReadBreaks
  <2> QED
    BY <2>2, <2>3, <2>4
<1> QED
  BY <1>1, <1>2 DEF PullStep

LEMMA PushInvPull == PushInv /\ PullStep => PushInv'
<1> SUFFICES ASSUME PushInv, PullStep PROVE PushInv'
  OBVIOUS
<1>1. FileTypes
  BY DEF PushInv
<1> QED
  BY <1>1, PullLeavesPush
  DEF PushInv, ClientTypes, WorkerTypes, FileTypes, Requests, Waits, AckedStored,
      Acked, Opened, PartIds, BlockIds

LEMMA SettleInvPull == SettleInv /\ PullStep => SettleInv'
<1> SUFFICES ASSUME SettleInv, PullStep PROVE SettleInv'
  OBVIOUS
<1>1. PushInv' /\ FileTypes
  BY PushInvPull DEF SettleInv, PushInv
<1>2. NoneKilled => NoneKilled'
  BY <1>1, PullLeavesPush DEF NoneKilled, Covered, Covers, Whole, BlockIds
<1>3. NoneGivenUp => NoneGivenUp'
  BY <1>1, PullLeavesPush DEF NoneGivenUp, Alone, Covers, Acked, Whole, PartIds, BlockIds
<1> QED
  BY <1>1, <1>2, <1>3 DEF SettleInv

LEMMA PullTypesStep == PushInv /\ PullTypes /\ PullStep => PullTypes'
<1> SUFFICES ASSUME PushInv, PullTypes, PullStep PROVE PullTypes'
  OBVIOUS
<1>0. /\ FileTypes /\ UNCHANGED count /\ Blocks \in Nat \ {0} /\ MaxRetries \in Nat \ {0}
      /\ PartIds' = PartIds /\ 1 \in 1..MaxRetries /\ 1 \in 1..(Blocks + 1)
  BY PullLeavesPush, ServerAssumption DEF PushInv, PartIds
<1> USE DEF PullTypes
<1>1. Pulls' = Pulls
  BY <1>0 DEF Pulls
<1>2. ASSUME FailPull, UNCHANGED local PROVE PullTypes'
  <2>1. [pull EXCEPT !.at = "failed"] \in Pulls
    BY DEF Pulls
  <2> QED
    BY <1>1, <1>2, <2>1 DEF FailPull
<1>3. CASE GetManifest
  <2>1. [pull EXCEPT !.at = "get", !.listed = files, !.settled = Settled] \in Pulls
    BY <1>0 DEF Pulls, FileTypes, Settled
  <2> QED
    BY <1>1, <1>2, <1>3, <2>1 DEF GetManifest
<1>4. CASE ManifestFails \/ PullLimited
  BY <1>2, <1>4 DEF ManifestFails, PullLimited
<1>5. CASE OpenDownload
  <2>1. [pull EXCEPT !.at = "read", !.block = 1] \in Pulls
    BY <1>0 DEF Pulls
  <2>2. local' \in [got: Seq(0..Blocks), whole: BOOLEAN]
    <3>1. ASSUME NEW S, << >> \in S, local \in [got: S, whole: BOOLEAN]
          PROVE  [local EXCEPT !.got = << >>] \in [got: S, whole: BOOLEAN]
      BY <3>1
    <3>2. << >> \in Seq(0..Blocks)
      OBVIOUS
    <3> QED
      BY <1>5, <3>1, <3>2 DEF OpenDownload
  <2> QED
    BY <1>1, <1>5, <2>1, <2>2 DEF OpenDownload
<1>6. CASE ReadBlock
  <2>1. PICK b \in blocks[pull.part] : b >= pull.block
    BY <1>6 DEF ReadBlock, MoreToRead
  <2>2. pull.part \in PartIds /\ pull.block \in 1..(Blocks + 1)
    BY DEF Pulls
  <2>3. b \in 1..Blocks
    BY <1>0, <2>1, <2>2 DEF FileTypes, BlockIds
  <2>4. pull.block \in 1..Blocks
    BY <1>0, <2>1, <2>2, <2>3
  <2>5. pull' = [pull EXCEPT !.block = @ + 1]
        /\ local' = [local EXCEPT !.got =
             Append(@, IF pull.block \in blocks[pull.part] THEN pull.block ELSE 0)]
    BY <1>6 DEF ReadBlock
  <2>6. pull.block + 1 \in 1..(Blocks + 1)
    BY <1>0, <2>4
  <2>7. Append(local.got, IF pull.block \in blocks[pull.part] THEN pull.block ELSE 0)
          \in Seq(0..Blocks)
    BY <1>0, <2>4 DEF PullTypes
  <2>8. (local \in [got: Seq(0..Blocks), whole: BOOLEAN])'
    BY <2>5, <2>7 DEF PullTypes
  <2>9. pull' \in Pulls
    <3>1. [pull EXCEPT !.block = pull.block + 1] \in Pulls
      BY <2>6 DEF Pulls
    <3>2. pull' = [pull EXCEPT !.block = pull.block + 1]
      BY <2>5
    <3> QED
      BY <3>1, <3>2
  <2> QED
    BY <1>1, <2>8, <2>9 DEF PullTypes
<1>7. CASE EndOfPart
  <2>1. local' = [got |-> << >>, whole |-> local.whole /\ WholePart]
    BY <1>7 DEF EndOfPart
  <2>2. (local \in [got: Seq(0..Blocks), whole: BOOLEAN])'
    BY <2>1
  <2>3. \/ /\ pull' = [pull EXCEPT !.at = "get", !.part = @ + 1, !.attempt = 1]
           /\ pull.part + 1 \in pull.listed
        \/ \E at \in {"done", "invalid"} : pull' = [pull EXCEPT !.at = at]
    BY <1>7 DEF EndOfPart
  <2>4. pull' \in Pulls
    <3>1. ASSUME NEW p \in PartIds PROVE [pull EXCEPT !.at = "get", !.part = p, !.attempt = 1] \in Pulls
      BY <1>0 DEF Pulls
    <3>2. ASSUME NEW at \in {"done", "invalid"} PROVE [pull EXCEPT !.at = at] \in Pulls
      BY DEF Pulls
    <3>3. pull.listed \subseteq PartIds
      BY DEF Pulls
    <3>4. CASE /\ pull' = [pull EXCEPT !.at = "get", !.part = pull.part + 1, !.attempt = 1]
               /\ pull.part + 1 \in pull.listed
      <4>1. pull.part + 1 \in PartIds
        BY <3>3, <3>4
      <4> QED
        BY <3>1, <3>4, <4>1
    <3>5. CASE \E at \in {"done", "invalid"} : pull' = [pull EXCEPT !.at = at]
      BY <3>2, <3>5
    <3> QED
      BY <2>3, <3>4, <3>5
  <2> QED
    BY <1>1, <2>2, <2>4 DEF PullTypes
<1>8. CASE EndsShort \/ ReadBreaks
  <2>1. RetryPart /\ UNCHANGED local
    BY <1>8 DEF EndsShort, ReadBreaks
  <2>2. CASE pull.attempt < MaxRetries
    <3>1. pull.attempt + 1 \in 1..MaxRetries
      BY <1>0, <2>2 DEF Pulls
    <3>2. [pull EXCEPT !.at = "get", !.attempt = pull.attempt + 1] \in Pulls
      BY <3>1 DEF Pulls
    <3> QED
      BY <1>1, <2>1, <2>2, <3>2 DEF RetryPart
  <2>3. CASE ~(pull.attempt < MaxRetries)
    BY <1>2, <2>1, <2>3 DEF RetryPart
  <2> QED
    BY <2>2, <2>3
<1> QED
  BY <1>3, <1>4, <1>5, <1>6, <1>7, <1>8 DEF PullStep

PullInv == PushInv /\ PullTypes

LEMMA PullInvInit == PushAndPullInit => PullInv
<1> SUFFICES ASSUME PushAndPullInit PROVE PullInv
  OBVIOUS
<1>1. PushInv
  BY PushInvInit DEF PushAndPullInit
<1>2. 1 \in PartIds
  BY <1>1, PartsAndBlocks DEF PushInv
<1>3. PullTypes
  BY <1>2, ServerAssumption DEF PushAndPullInit, PullInit, NewPull, PullTypes, Pulls
<1> QED
  BY <1>1, <1>3 DEF PullInv

LEMMA PullInvNext == PullInv /\ [PushAndPullNext]_allVars => PullInv'
<1> SUFFICES ASSUME PullInv, [PushAndPullNext]_allVars PROVE PullInv'
  OBVIOUS
<1>1. CASE [Next]_vars /\ UNCHANGED pullVars
  <2>1. PushInv' /\ UNCHANGED count
    BY <1>1, PushInvNext, CountKept DEF PullInv
  <2>2. PullTypes'
    BY <1>1, <2>1 DEF PullInv, PullTypes, Pulls, pullVars, PartIds
  <2> QED
    BY <2>1, <2>2 DEF PullInv
<1>2. CASE PullStep
  BY <1>2, PushInvPull, PullTypesStep DEF PullInv
<1> QED
  BY <1>1, <1>2 DEF PushAndPullNext, allVars

\* The variables of the push and the pull keep their types, whatever fails: a part
\* and a block that is read or written is one the session has.
THEOREM PullTypeCorrect == PushAndPull => []PullTypeOK
<1>1. PullInv => PullTypeOK
  <2> SUFFICES ASSUME PullInv PROVE PullTypeOK
    OBVIOUS
  <2>1. TypeOK
    BY DEF PullInv, PushInv, TypeOK, ClientTypes, WorkerTypes, FileTypes, Places
  <2> QED
    BY <2>1 DEF PullInv, PullTypes, Pulls, PullTypeOK
<1> QED
  BY <1>1, PullInvInit, PullInvNext, PTL DEF PushAndPull

-----------------------------------------------------------------------------
(* Acknowledged parts end up whole, and what is settled can be pulled.      *)

DecryptInv == PullInv /\ SettleInv /\ SettledPull /\ NotAsked

LEMMA SettleNext == SettleInv /\ [PushAndPullNext]_allVars => SettleInv'
<1> SUFFICES ASSUME SettleInv, [PushAndPullNext]_allVars PROVE SettleInv'
  OBVIOUS
<1>1. CASE [Next]_vars
  BY <1>1, PushInvNext, NoneKilledNext, NoneGivenUpNext DEF SettleInv
<1>2. CASE PullStep
  BY <1>2, SettleInvPull
<1> QED
  BY <1>1, <1>2 DEF PushAndPullNext, allVars

LEMMA SettleInvInit == ASSUME Apart, Init PROVE SettleInv
BY PushInvInit, SettleInit DEF SettleInv

\* As long as no behaviour has both a killed worker and a request given up, a part
\* the client went past is whole in the end, however many workers saved it at once,
\* and whatever a pull does meanwhile.
THEOREM AckedEndWhole == Apart => (PushAndPull => []SettledWhole)
<1> SUFFICES ASSUME Apart PROVE PushAndPull => []SettledWhole
  OBVIOUS
<1>1. PushAndPullInit => SettleInv
  BY SettleInvInit DEF PushAndPullInit
<1> QED
  BY <1>1, SettleNext, SettledFromInv, PTL DEF PushAndPull

\* The next number after 1, 2, ..., n.
LEMMA AppendNext ==
  ASSUME NEW n \in Nat
  PROVE  Append([b \in 1..n |-> b], n + 1) = [b \in 1..(n + 1) |-> b]
<1> DEFINE s == [b \in 1..n |-> b]
           t == [b \in 1..(n + 1) |-> b]
<1>1. s \in Seq(Nat) /\ Len(s) = n
  OBVIOUS
<1>2. t \in Seq(Nat) /\ Len(t) = n + 1
  OBVIOUS
<1>3. Append(s, n + 1) \in Seq(Nat) /\ Len(Append(s, n + 1)) = n + 1
  BY <1>1
<1>4. ASSUME NEW i \in 1..(n + 1) PROVE Append(s, n + 1)[i] = t[i]
  <2>1. CASE i = n + 1
    BY <1>1, <2>1
  <2>2. CASE i # n + 1
    <3>1. i \in 1..n
      BY <2>2
    <3> QED
      BY <1>1, <3>1
  <2> QED
    BY <2>1, <2>2
<1> HIDE DEF s, t
<1>5. Append(s, n + 1) = t
  BY <1>2, <1>3, <1>4
<1> QED
  BY <1>5 DEF s, t

LEMMA DecryptPull ==
  ASSUME DecryptInv, PullStep
  PROVE  SettledPull' /\ NotAsked'
<1>0. /\ ClientTypes /\ FileTypes /\ pull \in Pulls /\ Blocks \in Nat \ {0}
      /\ UNCHANGED <<count, client, worker, files, blocks>>
      /\ PartIds' = PartIds /\ BlockIds = 1..Blocks
  BY PullLeavesPush, ServerAssumption
  DEF DecryptInv, PullInv, PullTypes, SettleInv, PushInv, PartIds, BlockIds
<1> USE DEF DecryptInv
<1>1. CASE GetManifest
  <2>1. PullAt("ask") /\ UNCHANGED local
    BY <1>1 DEF GetManifest
  <2>2. CASE FailPull
    BY <1>0, <2>1, <2>2 DEF FailPull, SettledPull, NotAsked, PullAt, Pulls
  <2>3. CASE pull' = [pull EXCEPT !.at = "get", !.listed = files, !.settled = Settled]
    <3>1. pull'.at = "get" /\ pull'.listed = files /\ pull'.settled = Settled
      BY <1>0, <2>3 DEF Pulls
    <3>2. ASSUME Settled PROVE \A p \in PartIds : Whole(p)
      <4>1. SettledWhole
        BY SettledFromInv
      <4>2. \A p \in PartIds : Acked(p) /\ ~InHand(p)
        BY <3>2 DEF Settled, Acked, InHand
      <4> QED
        BY <4>1, <4>2 DEF SettledWhole
    <3>3. Settled => files = PartIds
      BY <1>0, <3>2 DEF Whole, FileTypes
    <3>4. Settled => client = "done" /\ \A w \in Workers : worker[w].at = "idle"
      BY DEF Settled, Idle
    <3>5. local.whole
      BY <2>1 DEF NotAsked
    <3>6. Settled => (\A p \in PartIds : Whole(p))'
      BY <1>0, <3>2 DEF Whole, BlockIds
    <3>7. SettledPull'
      BY <1>0, <2>1, <3>1, <3>3, <3>4, <3>5, <3>6 DEF SettledPull
    <3>8. NotAsked'
      BY <3>1 DEF NotAsked, PullAt
    <3> QED
      BY <3>7, <3>8
  <2> QED
    BY <1>1, <2>2, <2>3 DEF GetManifest
<1>2. ASSUME FailPull, UNCHANGED local PROVE SettledPull' /\ NotAsked'
  <2>1. pull'.at = "failed" /\ pull'.settled = pull.settled /\ pull'.listed = pull.listed
    BY <1>0, <1>2 DEF FailPull, Pulls
  <2> QED
    BY <1>0, <1>2, <2>1 DEF SettledPull, NotAsked, PullAt, Whole, BlockIds
<1>3. CASE ManifestFails \/ PullLimited
  BY <1>2, <1>3 DEF ManifestFails, PullLimited
<1>4. CASE OpenDownload
  <2>1. /\ pull'.at = "read" /\ pull'.block = 1
        /\ pull'.settled = pull.settled /\ pull'.listed = pull.listed
    BY <1>0, <1>4 DEF OpenDownload, Pulls
  <2>2. local'.got = << >> /\ local'.whole = local.whole
    BY <1>4 DEF OpenDownload, PullInv, PullTypes
  <2>3. [b \in 1..(1 - 1) |-> b] = << >>
    OBVIOUS
  <2> QED
    BY <1>0, <2>1, <2>2, <2>3 DEF SettledPull, NotAsked, PullAt, Whole, BlockIds
<1>5. CASE ReadBlock
  <2>1. pull.at = "read" /\ pull'.at = "read" /\ pull'.block = pull.block + 1
        /\ pull'.settled = pull.settled /\ pull'.listed = pull.listed
    BY <1>0, <1>5 DEF ReadBlock, PullAt, Pulls
  <2>2. /\ local'.got = Append(local.got, IF pull.block \in blocks[pull.part] THEN pull.block ELSE 0)
        /\ local'.whole = local.whole
    BY <1>5 DEF ReadBlock, PullInv, PullTypes
  <2>3. PICK c \in blocks[pull.part] : c >= pull.block
    BY <1>5 DEF ReadBlock, MoreToRead
  <2>4. pull.part \in PartIds /\ pull.block \in 1..(Blocks + 1)
    BY <1>0 DEF Pulls
  <2>5. pull.block \in BlockIds
    BY <1>0, <2>3, <2>4 DEF FileTypes
  <2>6. ASSUME pull.settled
        PROVE  local'.got = [b \in 1..(pull'.block - 1) |-> b]
    <3>1. local.got = [b \in 1..(pull.block - 1) |-> b]
      BY <2>1, <2>6 DEF SettledPull
    <3>2. pull.block \in blocks[pull.part]
      BY <2>4, <2>5, <2>6 DEF SettledPull, Whole
    <3>3. pull.block - 1 \in Nat /\ pull'.block - 1 = pull.block
      BY <1>0, <2>1, <2>5
    <3>4. Append([b \in 1..(pull.block - 1) |-> b], (pull.block - 1) + 1)
            = [b \in 1..((pull.block - 1) + 1) |-> b]
      BY <3>3, AppendNext
    <3>5. (pull.block - 1) + 1 = pull.block
      BY <1>0, <2>4
    <3> QED
      BY <2>2, <3>1, <3>2, <3>3, <3>4, <3>5
  <2> QED
    BY <1>0, <2>1, <2>2, <2>6 DEF SettledPull, NotAsked, PullAt, Whole, BlockIds
<1>6. ASSUME pull.settled, pull.at = "read", ~MoreToRead PROVE WholePart
  <2>1. pull.part \in PartIds /\ pull.block \in 1..(Blocks + 1)
    BY <1>0 DEF Pulls
  <2>2. blocks[pull.part] = BlockIds
    BY <1>6, <2>1 DEF SettledPull, Whole
  <2>3. pull.block - 1 = Blocks
    BY <1>0, <1>6, <2>1, <2>2 DEF MoreToRead
  <2>4. local.got = [b \in 1..Blocks |-> b]
    BY <1>6, <2>3 DEF SettledPull
  <2> QED
    BY <1>0, <2>4 DEF WholePart
<1>7. CASE EndOfPart
  <2>1. /\ pull.at = "read" /\ ~MoreToRead
        /\ local'.whole = (local.whole /\ WholePart)
    BY <1>7 DEF EndOfPart, PullAt
  <2>2. \/ pull' = [pull EXCEPT !.at = "get", !.part = @ + 1, !.attempt = 1]
        \/ pull' = [pull EXCEPT !.at = IF local'.whole /\ pull.listed = PartIds
                                         THEN "done" ELSE "invalid"]
    BY <1>7 DEF EndOfPart
  <2>3. /\ pull'.settled = pull.settled /\ pull'.listed = pull.listed
        /\ \/ pull'.at = "get"
           \/ pull'.at = IF local'.whole /\ pull.listed = PartIds THEN "done" ELSE "invalid"
    BY <1>0, <2>2 DEF Pulls
  <2>4. pull.settled => local'.whole
    BY <1>6, <2>1 DEF SettledPull
  <2>5. pull.settled => pull'.at \in {"get", "done"}
    BY <2>3, <2>4 DEF SettledPull
  <2>6. pull'.at # "ask"
    BY <2>3
  <2> QED
    BY <1>0, <2>3, <2>4, <2>5, <2>6 DEF SettledPull, NotAsked, PullAt, Whole, BlockIds
<1>8. CASE EndsShort \/ ReadBreaks
  <2>1. RetryPart /\ UNCHANGED local
    BY <1>8 DEF EndsShort, ReadBreaks
  <2>2. CASE pull' = [pull EXCEPT !.at = "get", !.attempt = @ + 1]
    <3>1. pull'.at = "get" /\ pull'.settled = pull.settled /\ pull'.listed = pull.listed
      BY <1>0, <2>2 DEF Pulls
    <3> QED
      BY <1>0, <2>1, <3>1 DEF SettledPull, NotAsked, PullAt, Whole, BlockIds
  <2> QED
    BY <1>2, <2>1, <2>2 DEF RetryPart
<1> QED
  BY <1>1, <1>3, <1>4, <1>5, <1>7, <1>8 DEF PullStep

LEMMA DecryptInvNext == DecryptInv /\ [PushAndPullNext]_allVars => DecryptInv'
<1> SUFFICES ASSUME DecryptInv, [PushAndPullNext]_allVars PROVE DecryptInv'
  OBVIOUS
<1>1. PullInv' /\ SettleInv'
  BY PullInvNext, SettleNext DEF DecryptInv
<1>2. CASE [Next]_vars /\ UNCHANGED pullVars
  <2>1. NotAsked'
    BY <1>2 DEF DecryptInv, NotAsked, PullAt, pullVars
  <2>2. SettledPull'
    <3> SUFFICES ASSUME pull.settled PROVE SettledPull'
      BY <1>2 DEF SettledPull, pullVars
    <3>1. client = "done" /\ \A w \in Workers : worker[w].at = "idle"
      BY DEF DecryptInv, SettledPull
    <3>2. UNCHANGED vars
      BY <1>2, <3>1, OverIsOver DEF DecryptInv, PullInv
    <3> QED
      BY <1>2, <3>2 DEF DecryptInv, SettledPull, vars, pullVars, Whole, PartIds, BlockIds
  <2> QED
    BY <1>1, <2>1, <2>2 DEF DecryptInv
<1>3. CASE PullStep
  BY <1>1, <1>3, DecryptPull DEF DecryptInv
<1> QED
  BY <1>2, <1>3 DEF PushAndPullNext, allVars

\* A push that reported success and is settled can be pulled: no manifest sent then
\* leads to parts that do not decrypt, however often either side had to retry.
THEOREM PushedCanBePulled == Apart => (PushAndPull => []SettledPullDecrypts)
<1> SUFFICES ASSUME Apart PROVE PushAndPull => []SettledPullDecrypts
  OBVIOUS
<1>1. PushAndPullInit => DecryptInv
  BY PullInvInit, SettleInvInit
  DEF PushAndPullInit, PullInit, NewPull, DecryptInv, SettledPull, NotAsked
<1>2. DecryptInv => SettledPullDecrypts
  BY DEF DecryptInv, SettledPull, SettledPullDecrypts, PullAt
<1> QED
  BY <1>1, <1>2, DecryptInvNext, PTL DEF PushAndPull
=============================================================================
