----------------------------- MODULE ServerPull -----------------------------
(***************************************************************************)
(* innout pull --server beside the push of the same session:               *)
(* uploader.download_chunks asks for the manifest and downloads the parts  *)
(* it lists one after the other, while the push of ServerTransfer, or      *)
(* requests it gave up on, may still be writing them.                      *)
(*                                                                         *)
(* A body that ends before its Content-Length is an error to some versions *)
(* of requests and the whole part to others, so either may happen.         *)
(***************************************************************************)
EXTENDS ServerTransfer, Sequences

VARIABLES
  pull,      \* [at, listed, part, attempt, block, settled], see NewPull
  local      \* the part's local file, and whether all before it came whole

pullVars == <<pull, local>>
allVars == <<vars, pullVars>>

\* at is where the pull is, listed the parts of the manifest, block the next
\* block of the part.  settled is history: the push had ended, and none of its
\* requests was in hand, when the manifest was sent.
NewPull ==
  [at |-> "ask", listed |-> {}, part |-> 1, attempt |-> 1, block |-> 1,
   settled |-> FALSE]

PullInit ==
  /\ pull = NewPull
  /\ local = [got |-> << >>, whole |-> TRUE]

PullAt(where) == pull.at = where

\* RuntimeError, which nothing retries.
FailPull == pull' = [pull EXCEPT !.at = "failed"]

\* A RequestException while a part is downloaded.
RetryPart ==
  IF pull.attempt < MaxRetries
    THEN pull' = [pull EXCEPT !.at = "get", !.attempt = @ + 1]
    ELSE FailPull

Settled == client = "done" /\ \A w \in Workers : worker[w] = Idle

\* GET /manifest: the parts whose file is there.  A session that is unknown is
\* answered 404, and one without parts joins to nothing, which does not decrypt.
GetManifest ==
  /\ PullAt("ask")
  /\ IF files = {} THEN FailPull
     ELSE pull' = [pull EXCEPT !.at = "get", !.listed = files, !.settled = Settled]
  /\ UNCHANGED <<vars, local>>

\* The request for the manifest is not retried.
ManifestFails ==
  /\ PullAt("ask")
  /\ Spend("lost")
  /\ FailPull
  /\ UNCHANGED <<count, client, part, attempt, awaited, worker, total, files,
                 blocks, local>>

\* 429 for the manifest or a part: the default limit of the server.
PullLimited ==
  /\ pull.at \in {"ask", "get"}
  /\ Spend("limit")
  /\ FailPull
  /\ UNCHANGED <<count, client, part, attempt, awaited, worker, total, files,
                 blocks, local>>

\* Mutant of OpenDownload: the local file is opened to append.
OpenDownloadAppending ==
  /\ PullAt("get")
  /\ pull' = [pull EXCEPT !.at = "read", !.block = 1]
  /\ UNCHANGED <<vars, local>>

\* GET /download is answered, and the part's local file is opened anew.
OpenDownload ==
  /\ PullAt("get")
  /\ pull' = [pull EXCEPT !.at = "read", !.block = 1]
  /\ local' = [local EXCEPT !.got = << >>]
  /\ UNCHANGED vars

\* The file on the server has something at this block or behind it.
MoreToRead == \E b \in blocks[pull.part] : b >= pull.block

\* A block comes; where a slower writer has left a hole it is zeros.
ReadBlock ==
  /\ PullAt("read")
  /\ MoreToRead
  /\ local' = [local EXCEPT !.got =
       Append(@, IF pull.block \in blocks[pull.part] THEN pull.block ELSE 0)]
  /\ pull' = [pull EXCEPT !.block = @ + 1]
  /\ UNCHANGED vars

WholePart == local.got = [b \in BlockIds |-> b]

\* The file ends, for the last part or another.  All parts joined decrypt exactly
\* when every part of the session is there and came whole.
EndOfPart ==
  /\ PullAt("read")
  /\ ~MoreToRead
  /\ local' = [got |-> << >>, whole |-> local.whole /\ WholePart]
  /\ IF pull.part + 1 \in pull.listed
       THEN pull' = [pull EXCEPT !.at = "get", !.part = @ + 1, !.attempt = 1]
       ELSE pull' = [pull EXCEPT !.at = IF local'.whole /\ pull.listed = PartIds
                                          THEN "done" ELSE "invalid"]
  /\ UNCHANGED vars

\* The file ends early, and that is noticed.
EndsShort ==
  /\ PullAt("read")
  /\ ~MoreToRead
  /\ ~WholePart
  /\ RetryPart
  /\ UNCHANGED <<vars, local>>

\* The connection breaks off before or in the answer.
ReadBreaks ==
  /\ pull.at \in {"get", "read"}
  /\ Spend("lost")
  /\ RetryPart
  /\ UNCHANGED <<count, client, part, attempt, awaited, worker, total, files,
                 blocks, local>>

PullStep ==
  \/ GetManifest \/ ManifestFails \/ PullLimited
  \/ OpenDownload \/ ReadBlock \/ EndOfPart \/ EndsShort \/ ReadBreaks

PushAndPullInit == Init /\ PullInit
PushAndPullNext == (Next /\ UNCHANGED pullVars) \/ PullStep

PushAndPull == PushAndPullInit /\ [][PushAndPullNext]_allVars

\* A worker with a request goes on handling it, the client posts as soon as a
\* worker is free, and a pull that has its manifest runs on.
FairPushAndPull ==
  /\ PushAndPull
  /\ WF_vars(Post \/ PostUnnamed)
  /\ \A w \in Workers : WF_vars(Handle(w))
  /\ WF_allVars(PullStep /\ ~PullAt("ask"))

-----------------------------------------------------------------------------
(* What must hold.                                                         *)

PullTypeOK ==
  /\ TypeOK
  /\ pull.at \in {"ask", "get", "read", "done", "invalid", "failed"}
  /\ pull.listed \subseteq PartIds
  /\ pull.part \in PartIds
  /\ pull.attempt \in 1..MaxRetries
  /\ pull.block \in 1..(Blocks + 1)
  /\ local.got \in Seq(0..Blocks)
  /\ local.whole \in BOOLEAN

\* A push that reported success can be pulled: once the last of its requests is
\* handled, a manifest lists every part, and what is downloaded decrypts, however
\* many attempts each side needed (upload_chunks, server.upload, download_chunks).
SettledPullDecrypts == PullAt("invalid") => ~pull.settled

\* Handlers do not wait for one another, nor a pull for a push: whatever was given
\* up, killed or retried, both come to an end and no worker stays busy for ever.
BothEnd ==
  <>[](/\ client \in {"done", "failed"}
       /\ \A w \in Workers : worker[w] = Idle
       /\ pull.at \in {"ask", "done", "invalid", "failed"})
=============================================================================
