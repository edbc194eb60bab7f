# in-n-out in TLA+

in-n-out moves large data through narrow channels: it archives a directory,
encrypts it, cuts the ciphertext into parts and uploads them to a Google Drive
folder or to a small HTTP server; a pull puts everything together again. These
modules model the parts of the program where time, failure and interleaving
matter, check them with TLC on small instances, and prove the main results with
TLAPS for all instances. Line numbers are those of the
repository; `PROJECT.json` maps every definition that models code to its lines.

## The system

| component | state it keeps | operations | what makes it correct |
|---|---|---|---|
| streaming push, `cli.cmd_stream_push` | `<prefix>.push-state.json` (salt, part size, suffix, parts), the Drive folder | start or resume, list the folder, upload, replace and record each part, upload the manifest | "Done" means that Drive holds a whole push under its manifest; a rerun always gets there; replacing a file never leaves it missing |
| tar, encrypt and cut, `stream.tar_stream`, `stream.encrypt_to_parts`, `crypto.StreamEncryptor` | builder thread and OS pipe, encryptor, the part file, `result.parts` | build, read a block, cut, hand a part over, remove it, finish, join | the parts are the stream cut every `part_size` bytes; a failed builder is never a success; no run hangs; one part on disk |
| pull from a directory, `cli._pull_from_dir`, `stream.find_parts`, `verify_parts`, `iter_plaintext`, `plaintext_stream`, `crypto.StreamDecryptor` | part files, manifest, `.innout-incoming`, feeder thread and pipe | find and verify, decrypt block by block, write the blob or feed tarfile, verify the tag, remove consumed parts, move the output | "Done" means restored and authenticated; nothing dropped at block, buffer or part boundaries; a part is only removed once consumed and checked; no hang |
| batch push and pull, `batch.cmd_push`, `push_pieces`, `push_one_file`, `cmd_pull` | ledger (`entries`, `partials`, `failures`), chunks on Drive | fetch a target, cut it, upload each piece under a session id of its own, clean up after a failed piece, record, go on; load the ledger, pull each target, skip what is there | everything in the ledger can be pulled; what is finished stays and is not sent again; no target is forgotten, by a push or a pull |
| HTTP transfer, `uploader.upload_chunks`, `download_chunks`, `server.create_app` | the part and attempt of each client; per session a directory of part files and `total_parts.txt` | post, time out, retry; check, create and fill `total_parts.txt`, open and write a part, answer; `/manifest`, `/download` | acknowledged parts end up whole, a push that reported success can be pulled, every push and pull ends |
| Drive client, `drive.py` | none of its own | `_with_retry`, `upload_one`, `delete_file`, `folder_contents`, `upload_to_drive`, `delete_session_files`, folder lookup, listing, download | modelled where it is called |
| staged push and pull, `cli.cmd_push`, `cmd_pull`, `splitter`, `unpack.finalize_output` | a temporary directory, the folder's files, the output directory | find or make the folder, encrypt, split, upload; list, download, join, decrypt, unwrap, pick a name, move | what was pushed and is listed whole decrypts; "Done" means a whole pushed file; nothing in the output directory is overwritten |
| sources, parsing, formatting | none | download, glob, parse | not modelled: I/O and text without state |

How they interact: `cmd_stream_push` drives `encrypt_to_parts` over the reading end of
`tar_stream`'s pipe, and is called back with each completed part, which it
uploads through `drive.upload_one` and records in the state file. A pull runs
`iter_plaintext` either in the main thread or in a feeder thread that writes into
a pipe `tarfile` reads. `batch.cmd_push` calls `push_pieces`, which calls
`drive.upload_to_drive` and, on failure, `drive.delete_session_files`. Clients and
servers meet only in HTTP requests, and the server's workers only in the file
system. Staged pushes and pulls meet in the Drive folder, pulls also in the output
directory; a batch pull and a batch push share the ledger and the folder.

What is hard: a Drive call may take effect and not be answered, and is then
repeated; a process may die between any two calls, and what it leaves is taken
over by the next run; two threads share a pipe and have to stop each other; a
request outlives the client that gave it up. `hazards` in `PROJECT.json` lists the
places, with the properties that watch over them, or a note for those no
property covers.

## The modules

`CipherStream` says what bytes are: a header, a body byte per plaintext byte, a
tag. A byte is a tuple that names everything its value depends on, so bytes are
equal exactly when the real ones are bound to be; a digest is the bytes it
digests. Its operators are shared by the modules below it.

    CipherStream <- StreamPush <- MCStreamPush, StreamPushRecorded
                               <- StreamPushInvariants <- StreamPushProofs
                 <- PartCutter <- MCPartCutter, PartCutterProofs
                 <- StreamDecryptor <- StreamPull <- MCStreamPull, StreamPullProofs
                                    <- StagedTransfer <- MCStagedTransfer, StagedTransferProofs
    ResumableUpload   (instantiated by StreamPush)
    BatchPush <- MCBatchPush
              <- BatchPull <- MCBatchPull, BatchPushProofs
    ServerTransfer <- ServerPull <- MCServerPull, ServerPullProofs

**StreamPush** is `cmd_stream_push` as a sequence of Drive calls. `Start` is the
beginning of a run: load the state, and take its salt if part size and suffix agree, or draw
one. `Save` writes the state file; a run killed before it (`Crash`) has drawn a salt nobody will know of. `List` is `folder_contents` and the decision which
parts to skip, `SkipPart` a part that is not uploaded, `Create` and `Delete` the two
calls of `upload_one`, `Record` the save of the state file, `Finish` the end after
the manifest. Each call has its failures: `...Unanswered` took effect and is
repeated, `...Lost` did not, `Refused` is not transient, `DeleteNotFound` is the 404 of a
delete that is repeated. `StartAfresh` is a run whose work directory is gone,
`StartBreaking` one whose builder will fail after some of the archive, `BuilderError` that
error when the context manager raises it. `Crash` may come anywhere; `RemoveRemote` and
`RemoveDuringRun` are a user of the folder. Parts are cut by the operators of `CipherStream`: that
`encrypt_to_parts` really cuts them so is what `PartCutter` checks
(`CutsTheStream`).

**ResumableUpload** is what StreamPush promises, without files, calls or failures:
parts of a numbered stream arrive one at a time, stay, and the push is announced
when all are there; it may begin again as another stream, and as none while the record of it is lost. StreamPush implements it (`ImplementsUpload`).

**PartCutter** is the pipeline under it: the builder thread (`Build`, `BuilderEnds`,
`BuilderBreaks`) writing into a bounded pipe, and the main thread reading blocks
(`Read`, `ReadEof`), cutting them (`Emit`), handing a part over (`Close`, or `CloseFails`),
removing its file and opening the next (`Unlink`), appending the tag (`Finish`), and
leaving the context manager (`Leave`, `Join`). Part files survive a `Crash`, and the
next run is given the parts that landed as `skip_indices`.

**StreamDecryptor** is `crypto.StreamDecryptor` as operators on a record: it takes
blocks cut anywhere and holds the last `TagSize` bytes back. **StreamPull** is a
pull with it: `Refuse` and `Begin` are `find_parts` and `verify_parts`, `FeedBlock`,
`FinishPart` and `FinishReading` are `iter_plaintext`, in the main thread or in the feeder,
`Pour`, `BrokenPipe` and `CloseWriter` are the feeder's writes, `Take` and `Look` are tarfile's reads
(one block to tell the compression, then records; it stops at the first zero
block), `CloseReader` and `Join` the end of `plaintext_stream`, `MoveOutput` and `MoveFails` the end
of `finalize_output`.

**BatchPush** is `batch.cmd_push` and what it calls, one action per call to Drive or
to the ledger. `Restores` is what a pull of a ledger entry would make of the
chunks on Drive: the join takes every file whose name carries the session.
**BatchPull** runs `batch.cmd_pull` beside it: it loads the ledger, chooses targets
(`--only`), skips those whose file is there (`SkipPresent`, unless `--force`), downloads piece
by piece (`PullPiece`, `PieceUnreadable`), compares the digest (`Mismatch`), and renames
(`MoveOut`) or copies (`StartCopy`, `EndCopy`) the result to its name. A push may add to the
ledger and delete chunks at any step of it. Its next-state relation is a step of
BatchPush or a step of the pull. Both walk over the targets in their order, the push by `place`, the pull by `turn`.

**ServerTransfer** is one session: the client of `upload_chunks`, and workers that
each handle one request in steps as fine as the file system sees them, since
they are processes that share only the directory. **ServerPull** adds `download_chunks`:
the manifest is the parts whose files exist at that moment (`GetManifest`), a download reads
the file block by block while a worker may be writing it (`ReadBlock`), and a
body that ends early is noticed or not (`EndsShort`, `EndOfPart`).

**StagedTransfer** is `innout push` and `innout pull --drive` of single files, several of each at
once. A push finds or makes the folder in two calls (`FindFolder`, `CreateFolder`), and
uploads its chunks (`Upload`, `UploadUnanswered`). A pull resolves the folder once
(`BeginPull`), lists it once and selects what it takes (`List`), downloads file by file (`Fetch`;
`FetchBreaks` leaves the local file half-written for the retry), joins the files in the order of their
names and decrypts them with the operators of `StreamDecryptor` (`JoinAndDecrypt`), picks a name
that is free (`PickName`, or `PickNameWrapped` if gzip data could not be unwrapped) and moves the
blob there (`Move`, or `StartCopy` and `EndCopy` across file systems). A file's place in the sorted listing is the
number of files before it (`Sorted`, `Place`, `Before`), and names compare as `NameKey` says: a number with one digit more than
the padding comes right after its own front.

## The runs

| run | what it shows |
|---|---|
| `push_faults` | two part sizes, two faults of Drive calls, a crash: Done means an intact push; the state file never overstates Drive; duplicates come only from mishaps; no name is lost; the refinement of `ResumableUpload` |
| `push_anything` | a failing call, a crash, a lost work directory, a failing builder, a file removed from the folder between runs and one during a run: an operator who goes on rerunning gets to Done; a salt is saved before its bytes appear, although a run may be killed between the draw and the save; and unless a builder failed, or files were removed during a run or after an interrupted one, Done means an intact push |
| `cut_mishaps` | archives of zero to four bytes in parts of one to four, so that streams divide evenly, unevenly, or fit in one part, and reach the limit of parts; a failing builder, a failing upload, a crash |
| `pull_mishaps` | a push of three parts of which one may be altered, cut short or missing, parts of another push beside it, with a manifest or without, all options, right and wrong passphrase; a refusal and a crash, or a new download |
| `batch` | a file and a bundle of two pieces of two chunks, two mishaps of any kind, and two pulls beside the push: what is finished stays and is sent once, every target gets into the ledger, and every pull accounts for each target it was asked for |
| `server` | two or three parts of two blocks, of which the server has names for two; two workers, three attempts, two timeouts, or two killed workers, beside a lost request and a rate limit, and a pull at any moment: acknowledged parts end up whole, what is pulled after a push that reported success decrypts, and everything ends |
| `staged` | a plain file in two chunks and a compressed tar in one, two pushes and two pulls, a manifest in the folder, and a lost answer, a broken download or a stopped process |

and five runs that end in a violation, each of what the repository itself says:

| run | what goes wrong |
|---|---|
| `push_broken_builder` | when the tar builder fails, the truncated last part is uploaded and recorded before the error is raised. The next run skips that index because its size is the recorded one (`cli.py:129-132`) although it now holds other bytes, and reports Done under a manifest that Drive contradicts |
| `batch_rebuilt_bundle` | a bundle is archived anew at every attempt, and pieces of the old archive are taken over by name: the entry is listed as pushed and does not restore |
| `batch_repeated_chunk` | a create that is repeated after a lost answer leaves a chunk twice, and the pull joins it twice |
| `pull_early_end` | if the archive's content fills its last record, tarfile stops one record early; a feeder that has not written that record yet gets `BrokenPipeError` and the pull fails with everything extracted |
| `staged_order` | chunk numbers are padded to three digits, so with more than 1000 chunks `part1000` sorts before `part101`: the chunks are joined in another order than they were cut in and do not decrypt. The run has five chunks and a padding that ends at 4 |

**Bounds.** Streams are of two to eight bytes with a header and a tag of one byte:
enough for a header, a body and a tag that each start or end a part, for parts
that are full, short and single, and for parts beyond the first. A block is as
long as the pipe, which is cut in other places because it is filled and emptied
a few bytes at a time; parts and records do not divide evenly into blocks, so
that their boundaries fall inside one another. `push_anything`, which has the most kinds of mishap, has a stream of
one byte less, so that its second part is short. Each mishap happens once or
twice, which is enough for one to hit the recovery from another. `MaxStreams`,
`MaxSessions`, `FileIds` and `FolderIds` only bound how many names can be drawn, and are large enough that
the mishaps are used up first, except that `push_faults` changes its part size once only. Two pulls and two pushes are enough for one to come between any two steps of
another; the budget of `staged` is one mishap of one kind, because the races need none. `MaxParts` and `Limit` bring the
three-digit numbers of parts down to where TLC gets to them.

**Fairness.** A step of a run, of a worker or of a thread that can be taken is
taken eventually: processes are scheduled, and the calls they make come back
with an answer or an error. In `push_anything` and `batch` the operator runs the command again,
which is what the resume is for (`cli.py:93-104`; "records progress so an interrupted run resumes", line 303 of the repository's README); mishaps are bounded
because each is outside the program. No fairness is asked of a mishap, of a new
push or of a pull: in `server` a pull is only fair once it has its manifest. In `PartCutter` and `StreamPull` only the threads of a run are fair, and
`Ends` speaks of runs that have begun. `StagedTransfer` has safety properties only.

**Deadlock** is checked in `StreamPush`, `PartCutter` and `StreamPull`. The batch, server and staged models do stop: when
all targets are pushed and the pulls are used up, the session and its pull are over, or
every push and pull has ended.

## The proofs

Eight modules hold proofs, each for every value of the constants its assumption admits. Together they
state every invariant and every action property of the runs that pass; what is left to TLC is liveness.

### The streaming push

Three of them are about StreamPush, for every part size, set of options, archive,
number of attempts and budget of mishaps:

- `TypeCorrect` (`StreamPushInvariants`): `Spec => []TypeOK`. Besides the ranges of the variables it says that what
  Drive holds is always a part or a manifest of a stream some run produced. `TypeInv` splits the
  type invariant by what it speaks of (the folder, the state file, the listing,
  the place in the run), so that each action has to keep only what it touches, and adds that a
  run that has saved goes by its own state file (`OwnState`): without it the type of `skip`, which comes from the
  state, does not follow.
- `DuplicatesAreTraces` (`StreamPushInvariants`): `Spec => []DuplicatesFromMishaps`, whatever is removed from the folder meanwhile. `ExtraInv` counts
  the files of the folder against the names that are settled (`Settled`), the failed calls and the kills. A name is settled when the run is past it, or when
  the file the run listed under it is still there (`StillListed`): of a name it has yet to upload and whose listed file somebody took
  away, every file that is left is counted as one too many, since the delete will be in vain. Between `Create` and `Delete` one file more is allowed
  (`Replacing`), so that a run without mishaps removes the second file it makes.
- `SaltBeforeBytes` (`StreamPushInvariants`): `Spec => []SaltSavedFirst`. A run draws its salt in `Start` and saves it in `Save`, and `Crash` may come between the two. `Drawn`
  says that what is on Drive has salts drawn before, the one in hand excepted as long as it is not saved, and that
  the state file's is one of them. That a run under way which has saved has the state file's salt is part of `TypeInv` (`OwnState`).
- `StateNeverOverstates` (`StreamPushRecorded`): `Undisturbed => (Spec => []RecordedOnDrive)`. `Undisturbed` is only
  that nobody but the program deletes files, between runs or during one; sources may differ from run to run and
  builders may fail. The delicate step is `Delete`: it must not take the file a
  record stands for. `ReplacesOthers` carries the argument: a part is uploaded again only if
  the listed file of its name had another size than the recorded one, so the
  file the upload replaces is never the recorded copy. `OneFilePerId` says that an id names
  that file only, `Landed` that the new copy is there when it is recorded.
- `DoneUnlessDamaged` (`StreamPushProofs`): `OneArchive => (Spec => []PublishedUnlessDamaged)`, which also speaks of histories with a lost
  work directory, failing builders and deleted files. `OneArchive` is what resuming takes
  for granted: every run reads the same archive. The property is not inductive: at Done one has to know that each part
  the run did not upload is there. A part that the state file records may have been deleted from the
  folder, so the invariant `IntactInv` says less of it: if the folder shows its name, it is there with its bytes
  (`Recorded`: a run compares names and sizes, and what it sees does not lie). What the run is past, and what it
  skips, is there (`Passed`, `There`), it pushes the state file's stream (`Follows`), and between the two calls of `upload_one` the new
  file is there beside the one that is to go (`Sent`). `PushInv` keeps it as long as `Undamaged` holds, and with it what the mishaps
  have cost so far (`Unspent`). The delicate actions are `Delete`, which may not take the
  only copy of a part; `Save`, where the stream may change and nothing is recorded any
  more; and a removal from outside, where `DuplicatesAreTraces` is needed: without faults and
  kills no name has two files (`NoTwins`), so taking one away cannot uncover an older copy of the same size.
- `DoneMeansIntact` (`StreamPushProofs`): `Stable => (Spec => []PublishedIntact)`, the case of that in which no builder fails and nobody deletes
  files (`Stable`). The runs `push_broken_builder` and `push_anything` show what happens outside of it.
- `UploadBeforeDelete` (`StreamPushProofs`): `Spec => NeverNeither`, without any hypothesis; the property excepts only histories in
  which somebody took files away during a run. The invariant `Replaced` says that
  at the moment of the delete another file of the same name is in the folder.
- `PushIsResumable` (`StreamPushProofs`): `Stable => (Spec => ImplementsUpload)`, the refinement of `ResumableUpload`. On top
  of `IntactInv` and the types it needs `SaltInv`. When the state file is lost, or other options begin a fresh stream at `Save`, the upload
  begins again, with nothing landed (`FreshSalt`: no part is empty, its bytes name the salt, and no file has a salt not yet saved); a
  `Create` lands one part or none (`UploadLands`); a `Delete` takes no part back,
  because the copy `Sent` speaks of stays (`UploadDeletes`); and at `Finish` every part has
  been recorded, and what is recorded is there.

### The pipeline under it

`PartCutterProofs` is about PartCutter, for every archive, part size, block and pipe, and every
interleaving of builder and reader:

- `CutterTypes`: `Spec => []TypeOK`.
- `SucceedsOnlyWhole`: `Spec => []DoneMeansWhole`. `ArchiveInv` says that what was read is the front of the archive, the pipe the
  stretch after it, and that a builder that ended has sent everything; the reader
  only sees the end of the pipe when it is empty and the builder is gone.
- `ExactlyTheParts` and `HashedIsHanded`: `Spec => []CutsTheStream` and `Spec => []HandsOverWhatItHashed`. `StreamInv` places the part in hand and
  the block being cut in the one stream of the plaintext read so far: part `k` is the
  stretch from `Before(k, size)`, the part in hand follows the full ones, the view follows it. At the
  end the parts are cut at the places `PartOf` cuts (`CutWhole`), and that `PartCount` is their number is
  a fact about one division.
- `OnePartFile`: `Spec => []OnePartOnDisk`. `DiskInv` says that a part lands only after all before it (`Landing`, `Position`), so that files
  that have not landed all belong to one index (`Waiting`), and counts those of landed parts against the kills
  (`FewKept`).

### The pull from a directory

`StreamPullProofs` is about StreamPull, for every set of pushes and downloads, every block, pipe,
buffer and record size:

- `PullTypes`: `Spec => []TypeOK`. That the parts of a run are those of one push in the order of their indices needs that `find_parts`
  found every index up to the highest; the lemmas `InOrder` and `DownwardClosed` get from that, by counting,
  that part `k` of the list has index `k - 1`.
- `NothingIsDropped`: `Spec => []NothingDropped`. `Flow` is the equation itself, kept by every read and write of the two
  threads; what feeding a block releases is a lemma about `StreamDecryptor` (`UpdateFacts`, `ReleasedFacts`): the block goes behind
  what was fed, and all but the last `TagSize` bytes are passed on.
- `OnlyReadPartsGo`: `Spec => RemovesOnlyRead`. `Checked` says that while a run reads, what is there of its push agrees with the
  manifest, and a removal only takes a file away.
- `CleansUp`: `Spec => []NoPlaceholderLeft`.
- `DoneIsRestored`: `Unforged => (Spec => []DoneMeansRestored)`. `Unforged` is what the cipher gives: a file that is named as a part of a push
  holds bytes of that push, in any order and number, or damaged ones; nobody makes bytes that
  pass for the push's without its passphrase. So parts may be spliced, cut short, exchanged
  and damaged. `Sources` carries it from the files to the decryptor; `Authentic` says that a tag that
  verifies names the whole text, hence what was fed is the push's stream from
  beginning to end; `Flow` takes it to the output, and `ContentOfFront` says that what tarfile extracts is settled
  at the first zero block, however much of the padding it never reads.
- `SoundSucceeds`: `SeenInLastRead => (Spec => []SoundPullSucceeds)`. `SeenInLastRead` says that every archive ends in a zero block and
  that none is within the reads before the last; the run `pull_early_end` is a pull of an archive that is
  otherwise. The property speaks of the moment of the failure; the invariant `Healthy` says from the beginning on that a
  run which has read the front of the push so far, and all of it if nothing is left to read (`~Astray`),
  goes well: its feeder has met no error, and tarfile has only left once everything is decrypted and handed
  over, so that nobody writes into a pipe without a reader. It rests on `FedGrows` (the decryptor keeps every byte in order, however it is fed), `FrontPlain`
  (the front of a push decrypts to the front of its archive, and all of it verifies) and `LeavesAtEnd` (a read that
  shows the end of the archive was the last one). `UnreadType` says what is left on disk is a sequence of bytes.

### The batch push and pull

`BatchPushProofs` is about BatchPull, that is a batch push with a pull at any step of it, for any
targets, pieces, chunks and mishaps:

- `PushAndPullTypes`: `PushAndPull => []PullTypeOK`, with the type invariant of the push (`StoreType`, `RunType`, `PieceInv`).
- `LedgerNeverContradicts`, `NoneForgotten`: `LedgerConsistent` and `NoTargetForgotten`, from `WalkInv`: every target the run is past is pushed or
  noted as failed.
- `FinishedStay`: `FinishedPiecesStay`. `SessionInv` says that a session id is never used twice, so the one a cleanup deletes is in
  no record; `StoredInv` that the chunks of every record, and those of the piece in hand so far,
  are on Drive.
- `SentOnce`: `NothingSentTwice`, from `UnsentInv`: the piece being sent is none of those noted.
- `PlainFilesRestore`: `OneCut => (PushAndPull => []PlainEntriesRestore)`. `OneCut` says that the runs cut files alike. `ExactInv` says that, as long as no answer of a
  create was lost, every chunk of a record is on Drive exactly once; the runs `batch_repeated_chunk` and
  `batch_rebuilt_bundle` show what happens otherwise.
- `PullsAccount`: `PushAndPull => []PullAccounts`. `AccountsInv` says it of every target the pull is past; for one that was
  fetched it needs that the names of a bundle's outputs have no gap (`NamesInv`), so that a free name is
  always found, and that a copy under way is to the last of them (`LatestInv`); the set of free names has a least element (`LeastOf`).
- `OrphansArePaidFor`: `OneCut => (PushAndPull => []OrphansFromMishaps)`. `OrphanInv` counts the sessions on Drive that nothing refers to
  (`Loose`) against kills, and against refusals twice over: one failed the piece, another the cleanup. Without `OneCut` it is false, as TLC shows with two
  values of `Cuts`: a run that cuts a target into fewer pieces than an earlier one finishes it without the
  pieces that are beyond its last, and nothing refers to their sessions any more.

### The server

`ServerPullProofs` is about ServerPull, a push and a pull of one session, for any number of parts,
blocks, workers and attempts:

- `PullTypeCorrect`: `PushAndPull => []PullTypeOK`. `PushInv` adds where a request in hand has to be, that the client waits for a
  worker that has its request, and that what is acknowledged has a file.
- `AckedEndWhole`: `Apart => (PushAndPull => []SettledWhole)`. If no worker is killed, a file is whole or some worker that writes it has all
  blocks behind it (`Covered`), so that the last one to finish leaves it whole. If no request
  is given up, the client's is the only one in hand (`Alone`). `Apart` says that no history has both: a worker
  killed while it writes again, for a request given up, what was acknowledged cuts it short.
- `PushedCanBePulled`: `Apart => (PushAndPull => []SettledPullDecrypts)`, from `SettledPull`: once the push is over and settled nobody writes, so every read is
  of a whole file.

### The staged push and pull

`StagedTransferProofs` is about StagedTransfer, for any number of pushes and pulls at once, any files, chunks,
sessions and mishaps. All of it is one invariant, `StagedInv`, in parts: the files of the folder are copies of chunks that were pushed
(`FolderInv`), a push that has sent something has left a file (`PushesInv`), a pull has listed chunks in their
order and holds what they say (`PullsInv`), and what is in the output directory under a name that was not raced
for is what one pull has decrypted (`OutputInv`).

- `StagedTypes`: `Spec => []TypeOK`.
- `DoneIsRestored`: `Spec => []DoneMeansRestored`, without any hypothesis: the pull may list the folder at any moment of any push, with
  doubled chunks, stopped pushes and other sessions' files in it. `AuthenticMeansPushed` carries it: the tag names the whole
  text it was made over, so whatever verifies is a whole file that was pushed, and nothing need be known of
  how the chunks were put together.
- `PushedIsFound`: `Spec => FoundWhenPushed`. In the one folder there is, a push that is done has a file (`PushesInv`).
- `ExistingFilesKept`: `Spec => ExistingKept`. A name that was picked is free until it is used, or another pull picked it too (`OutputInv`).
- `WholeDecrypts`: `NumbersOfOneWidth => (Spec => []WholeListingDecrypts)`. `NumbersOfOneWidth` says that no push has more chunks than the
  padding has numbers: the run `staged_order` is one that has. Then names sort as their numbers do (`BeforeIsOrder`,
  `PlaceTaken`, `WholeInOrder`), the listing joins to what was cut (`JoinedWhole`, `CutWhereJoined`), and that verifies (`WholeVerifies`).

### What they rest on

The assumptions are those the modules name (`CipherAssumption`, `PushAssumption`, `CutterAssumption`, `PullAssumption`, `DownloadAssumption`,
`BatchAssumption`, `PullAssumption` of BatchPull, `ServerAssumption`, `StagedAssumption`); TLC evaluates them in every run of the module. The hypotheses `OneArchive`, `Stable`, `Undisturbed`, `Unforged`,
`SeenInLastRead`, `OneCut`, `Apart` and `NumbersOfOneWidth` stand in the theorems. `OneArchive`, `Stable` and `Undisturbed` are about the operator's
surroundings, a source that stays and a folder nobody else deletes from; why `SeenInLastRead`, `NumbersOfOneWidth` and `OneCut` are there, the runs and the
counterexample named with their theorems show. `Apart` excludes histories in which a worker killed while it still writes for a
request given up truncates an acknowledged part (see below); `Unforged` is the promise of the cipher.

Only model-checked: liveness (`EventuallyDone`, `AllPushed`, `BothEnd`, and `Ends` twice), whose proof would need ENABLED.

Induction over data is done by least counterexamples: the set of naturals at which a claim fails has a least
element (`LeastNatural`, `LeastOf`). In this way the recursive functions `Unread` and that of `FlattenSeq` are shown to
exist (`RunsDown`, `JoinsExist`) and to return sequences of the right kind. The order of a listing is stated by
`Place` and not by a sort of the library for that reason: the library's are defined by operators that the provers cannot look into.

## What is left out

- The source is the same for every run, except that a builder may stop early. A push
  resumed over a changed source has mixed parts by design (`stream.py:102-105`); `RecordedOnDrive` alone is proved
  for sources that change.
- `StreamPush`: one prefix; the check of the total (`cli.py:170-175`) is left out because it cannot fail. Folder
  lookup and creation are in StagedTransfer, `MAX_PARTS` is in `PartCutter`. The pages of a listing are one:
  the loop over them has no effect but their concatenation.
- `PartCutter`: `skip_before` and `delete_after=False`, which nothing in `innout/` uses; `--exclude`.
- `StreamPull`: how the lines of a manifest are parsed, and what `finalize_output` does to the blob, which is in StagedTransfer.
- `BatchPush`: plan and status, which only read; the naming of folders and the layouts; a save of the ledger
  that fails; two pushes that share a ledger, which the program does not guard against. A
  transient failure without effect is retried and changes nothing, so it is no step.
- `ServerTransfer`: the validation of fields, the API key, the limit on a request's size and the counting of requests
  for the rate limit, which is a mishap. Sessions share nothing, so one is modelled.
- `StagedTransfer`: pushes and pulls over `--server`, whose steps are those of ServerTransfer and ServerPull.
- Not modelled: `sources.py`. It downloads and archives; what it leaves from one run to the next is a
  partial clone that a later run takes for a whole one (`sources.py:213`). Parsing of the command line and formatting have no state.
- Randomness: salts, nonces and session ids are fresh numbers, and never collide.

Disagreements met while modelling that have no run of their own:

- A push repeated with a larger part size leaves the surplus parts of the first on
  Drive, where `verify_parts` then refuses the folder; line 157 of the repository's README speaks of "a flat set of
  files and nothing else".
- Manifests are named by suffix alone (`cli.py:179`), so pushes with different prefixes in one folder
  overwrite each other's.
- A run killed between recording a part and removing its file leaves the file in
  the work directory for good, because later runs skip the part (`stream.py:5-7` promises one part at a
  time). `OnePartOnDisk` counts one file per kill.
- A stream of exactly `MAX_PARTS` full parts is refused after its last part was uploaded,
  because `_emit` opens the next part at once (`stream.py:253-258`).
- If a run died between the two calls of `upload_one` and somebody deletes the newer of
  the two files, a resumed run takes the older for the recorded part.
- `upload_chunks` retries only `requests.RequestException`; any response that is not ok ends the push, and a request
  that overlaps its retry can make the server answer 500, when `total_parts.txt` exists and is still
  empty (`server.py:150-159`). `uploader.py:58` says "Retries each chunk up to 3 times on HTTP error before raising."
- A worker killed while it still writes for a request the client has given up
  truncates a part that was acknowledged; `server` has timeouts or kills, not both, for
  that reason.
- A delete that took effect and is repeated gets 404, which is not transient, and ends
  the run although nothing is wrong (the next run goes on); lookups of folders are
  not retried at all, although line 231 of the repository's README says that every Drive call is.
- `pull --drive` of a folder written by a streaming push downloads the manifest
  as one more chunk when its name has no `.part`.
- Two pulls that finish at the same time can choose one name for their output, since it is
  chosen before the move (`unpack.py:63`), and the second then replaces the first's;
  line 254 of the repository's README says that existing files are never overwritten. `ExistingKept` therefore excepts
  a name two pulls raced for.
- A batch pull killed while it copies its output across file systems leaves a torn file under the
  final name, which the next pull skips as present (`batch.py:642`) and reports as good; line 379 of the repository's README says that a
  pull verifies each file's sha256.
- Two pushes that both find a folder missing make it twice (`drive.py:199-224`); later runs use one of the two, and
  what went to the other is not found.
- `download_chunks` asks for the manifest once: only the parts are retried.
- A push of more than 1000 parts to the server is refused only when it gets to the first part whose number has
  four digits, after all parts before it were stored.
- A pull whose blob is gzip data that cannot be unwrapped is kept as it is.

## What comes next

1. A refinement for the pull, as `ResumableUpload` is for the push: what is handed out is the front of the archive, and all of it at Done.
2. The layouts of the batch push, two pushes with one ledger, and a second prefix sharing the streaming push's folder.
3. `Apart` without its restriction: what a killed worker of a request given up can still cut short, as history.
