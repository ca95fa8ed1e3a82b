# Verification of fxv-storage-server

TLA+ models of the S3-compatible file server in `src/`, TLC runs that check
them on small instances, and TLAPS proofs of the properties that matter most
for every instance. Every definition that stands for code is mapped to its
lines in `PROJECT.json`; this page says what the parts are, what is checked,
and what is left.

## The system

The server keeps a directory of files and serves them as objects. All state is
in one process; handlers run concurrently on tokio.

| Component | State | Operations | Hard about it |
|---|---|---|---|
| **File index** (`store.rs`) | `FileStore.entries`: key → size, mtime, ETag, headers, behind one `tokio::sync::RwLock` | build at startup (`walk_dir`), `get`, `upsert`, `remove` | must agree with the files, which no lock protects from a crash |
| **Object handlers** (`handlers/put_object.rs`, `get_object.rs`, `delete_object.rs`) | local: key, conditions, entry, temporary file | PUT (early check, body to a temporary file, check again, rename, save record, upsert), GET (lookup, conditions, range, open, stream), DELETE (conditions, unlink, remove record, remove entry) | every `await` is a place where others run, where the client may be gone or the process may end |
| **Metadata cache** (`metadata_cache.rs`) | one JSON file per key, written in place | save, remove, load at startup if its time matches | stale or torn records, one-second resolution |
| **Conditional requests** (`conditional.rs`) | none | `evaluate`, `evaluate_write`, `evaluate_delete`, readers of headers | precedence, unreadable or repeated headers, dates without fractions |
| **Byte ranges** (`range.rs`) | none | `parse_range`, `len` | unsigned arithmetic at the edges |
| **Keys** (`sanitize_key`, `object_key`) | none | path of a request → key of the index | two readings of one spelling: the index's and the file system's |
| **Body pipeline** (`write_body_to_temp`) | bounded channel of 8 frames, writer on a thread of the blocking pool, temporary file | receive, write, hash, finish | either side may fail first; a stalled client keeps a thread |
| **Paths** (`create_dir_all`, `cache_path`) | directories among the objects and among the cache records | made on demand, never removed | a key that is a directory on the way to another one |
| **Multipart uploads** (`handlers/multipart.rs`, `multipart_state.rs`, `upload_part`) | table of uploads behind a second `RwLock`; part files with fixed names | Create, UploadPart, Complete, Abort | parts and uploads that change while they are in use |
| **Restart** (`server.rs`, `store.rs`) | none | index first, then requests | what a crash leaves behind |
| **Embedded test server** (`test_server.rs`) | thread, startup channel, shutdown notice | start with timeout, `add_custom_header`, drop | timeout racing a late success |
| **Shell** (`main.rs`, `config.rs`, `errors.rs`, `s3_xml_compat.rs`) | none | command line, errors, XML | formatting only |

Interaction: the dispatchers in `lib.rs` call the handlers; handlers share the
index through its lock, the files through the file system, and the cache files
through the rule that only the holder of the write lock writes them.

What makes them correct:

* Index: it has exactly the files there are, with their size, time and ETag;
  it changes only under the write lock, for the writer's own key, on conditions
  that hold at that moment.
* Handlers: together they implement one atomic store; a GET never mixes two
  versions; a failing file operation looks like a request that never was;
  every request is answered.
* Cache and restart: what was served before a crash is served after it.
* Body pipeline: the file gets the frames of the body in their order, success
  means all of them, and nobody touches the file once the handler has been told.
* Paths: a request fails only because of a key that is in its way.
* Embedded server: start and drop return, and then nobody is at work any more.
* Conditions and ranges: a request goes through exactly when its conditions
  hold; a range sends exactly what was asked.
* Multipart: the object completed consists of the parts named, with their
  ETags; a listed part has its file; an upload ends on purpose only, and leaves
  nothing but parts that were still on their way.

## Modules

| Module | Stands for |
|---|---|
| `Option` | the absent case of every `Option` |
| `ObjectKeys` | `sanitize_key`, `object_key` |
| `Conditional` | `conditional.rs` |
| `ByteRange` | `range.rs` |
| `Objects` | requests, entries, records, answers, and the sequential part of the handlers: which answer a request gets from one state of its object |
| `AtomicStore` | the promise: a map of objects on which each request takes effect at one instant, or fails without effect |
| `ObjectStore` | the handlers running concurrently; refines `AtomicStore` |
| `Recovery` | `ObjectStore` with crashes and restarts |
| `Disconnects` | `ObjectStore` with clients that go away |
| `Multipart` | `multipart.rs`, `multipart_state.rs` and `upload_part`, on top of `ObjectStore` |
| `BodyTransfer` | what a handler relies on when it has a body written to a file |
| `BodyPipeline` | `write_body_to_temp`: channel, writer, blocking pool; refines `BodyTransfer` |
| `PathTree` | `ObjectStore` with the directories that keys and cache records need |
| `TestServer` | `test_server.rs`: the thread that serves, and its owner, around `ObjectStore` |
| `Requests` | one request against one object, for the pure parts |
| `MC...` | instances for TLC |
| `ObjectsProofs`, `ObjectStoreProofs`, `BodyPipelineProofs`, `MultipartProofs`, `PathTreeProofs`, `RequestsProofs`, `TestServerProofs` | theorems about the module of that name |
| `InterruptionProofs` | theorems about `Recovery` and `Disconnects` |

A name with an underscore in it, such as `TakeRead_Dropped`, is a mutant: the
definition after it as a plausible bug would have it. No specification uses a
mutant; each is there to show that a property notices it (`PROJECT.json` pairs
them).

### ObjectStore and the code

State: `index` is `FileStore.entries`, `disk` the files by key, `cache` the
records, `litter` temporary files nobody will remove; `queue`, `readers` and
`writer` are the RwLock, which tokio grants in order of arrival; per slot (a
connection with one request at a time) `pc`, `req`, `entry` and `temp` are the
handler's position and locals, and `resp` is its answer from the moment that
is settled.

An action is what a handler does between two awaits, so each lies between two
values of `pc`:

| PUT | | DELETE | | GET | |
|---|---|---|---|---|---|
| `start` → `resolve` | ask for the lock | `start` → `evaluate` | read headers and key | `start` → `lookup` | read the key |
| `PutResolve` | serve directory, key, headers (53-74) | `DeleteEvaluate` | write lock, If-Match (57-65) | `GetLookup` | read lock, entry, conditions, range (30-96) |
| `PutEarlyCheck` | early conditions (80-88) | `DeleteUnlink`, `...Fails` | `remove_file` (67-74) | `GetOpen`, `...Fails` | open, then stream from the handle (98-150) |
| `PutCreate` | directories, temporary file | `DeleteForget` | cache record, index (76-81) | | |
| `PutReceive`, `PutBreak`, `PutReceived` | body, or its failure | | | | |
| `PutCommit` | write lock, conditions again (138-148) | | | | |
| `PutRename`, `...Fails` | rename (151-155) | | | | |
| `Publish` | record and upsert (160-174) | | | | |
| `PutDiscard` | remove the temporary file (111, 146, 153) | | | | |

A fourth kind of request comes from the embedding program: `add_custom_header`
(`test_server.rs`) waits for the write lock at `annotate`, where `AddHeader`
takes the entry of that moment and adds the header, and goes on to `Publish`,
which saves and upserts what is in `entry` for both.

`Publish` and `DeleteForget` take two awaits as one step (the cache file, then the
index): the write lock is held, so nobody reads either in between. `Recovery`
and `Disconnects`, where somebody does look in between, say what the cache may
hold then.

Abstractions: frames are opaque and one byte long; MD5 has no collisions
(`Md5` is injective); a key is the sequence of its components; an HTTP date is
a whole second, `TicksPerSecond` ticks long; header names are in lower case,
and headers do not override the ones the server sets itself (`apply_custom_headers`
would let them). A key that is a directory on the way to another one makes
file operations fail: `Fault` allows that here, `PathTree` says when. Nobody
else changes the serve directory, and keys do not begin with the names of the
server's own directories in it.

### Multipart and the code

`Multipart` extends `ObjectStore`: the same slots, one request each, either a
plain one (as before) or a multipart one. `uploads` is the table, `part` the
part files by (upload, number), `holder` the request that keeps the table's
lock across an await, `at`, `progress`, `linked`, `picked` and `cleaning` the
locals of the handlers.

| UploadPart | | Complete | | Abort | |
|---|---|---|---|---|---|
| `PartCheck` | number, upload, key (184-207) | `CompletePick` | upload, key, parts and their order (119-141) | `AbortRemove` | out of the table (327-347) |
| `PartOpen`, `PartBreak` | create or truncate the file, or fail to (209-215) | steps of PUT | key, headers, early check, temporary file (143-178) | `Clean` | remove the files, one await each (331-333) |
| `PartWrite`, `PartBreak`, `PartWritten` | body, or its failure | `CompleteAppend`, `CompleteMissing`, `CompleteAssembled` | the parts into the temporary file (179-187) | | |
| `PartRecord` | into the table (225-243) | steps of PUT | lock, check again, rename, record, upsert (204-233) | | |
| `PartReplace` | the previous file (230-232) | `CompleteForget`, `Clean` | out of the table, the files (235-243) | | |

`complete_multipart_upload` repeats the steps of `put_object` but for the body;
the module says so by turning the Complete into the PUT `AsPut` whose steps on
the body (`PutReceive`, `PutReceived`, `PutBreak`) it replaces by its own. What
is proved and checked of the commit thus speaks of Completes, too.

A file that is removed while open lives on for its handle (`linked`), one that
is opened again is truncated under the handle (`WriteAt` fills the gap with
`Hole`). Abstractions: a part is read in one step; the order in which the
table's lock is granted is open; `UploadPart`'s glance at the store for the
serve directory, which never changes, is left out; in `CompleteMissing` a debug
build's `debug_assert_eq!` on the size of a part is one of the outcomes.

`CompleteMalformed` answers for a body that cannot be read or parsed (101-117).

### BodyPipeline and the code

Per transfer: `recv` is where the handler's task stands in
`write_body_to_temp`, `taken` the frames it has read, `received` its
`recv_result`, `channel` the `mpsc` channel, `thread` the writer, `file` the
temporary file, `result` what the function returned. `pool` is the line for a
thread of tokio's blocking pool, which the transfers share.

| Handler's task | | Writer | |
|---|---|---|---|
| `Begin` | channel, `spawn_blocking` (276-279) | `Start` | a thread, `File::create` (279-281) |
| `TakeFrame`, `EndOfBody`, `ReceiveError` | `body.frame()` (296-297) | `Write` | `blocking_recv`, `write_all` (284-288) |
| `Send`, `SendFails` | `tx.send` (299-301) | `WriterFails` | an error of `write_all` or `flush` |
| `Join` | `drop(tx)`, await the writer, which error counts (311-322) | `WriterEnds` | the end of the channel, `flush` (289-291) |
| `Abandon` | the handler is dropped at an await | `Stat` | `metadata`, on the pool, too (324) |

`BodyTransfer` is what `PutCreate`, `PutReceive`, `PutReceived` and `PutBreak`
of `ObjectStore` take for granted: those four know only a file that grows
frame by frame and an outcome.

### PathTree and the code

`dirs` and `recordDirs` are the directories made so far, `placed` the keys that
have had a temporary file. Each action is one of `ObjectStore`'s, with its
outcome decided: `CreateInTree` by whether the parents could be made,
`RenameInTree` and `UnlinkInTree` by whether the name is a directory,
`SaveInTree` by whether the record's place `a.json` can be reached and is no
directory.

### TestServer and the code

`thread` is the server's thread (139-167), `report` the startup channel,
`notice` the permit of the `Notify`, `owner` the program that holds the handle:
`starting` in `recv_timeout` (169), then `running`, or on its way to `failed`
through a join (`giving_up` after the timeout, `reporting` after an error or a
panic), or `dropping` (198-204) and `gone`. Requests are taken while the thread
is `serving`, headers are added while the owner is `running`; a thread that is
`draining` takes no requests and ends when none is in progress.

## Runs

| Run | Shows | Bounds |
|---|---|---|
| `races` | `TypeOK`, `LockDiscipline`, `IndexMatchesDisk`, `CacheMatchesIndex`, `TruthfulGet`, `ReadsAndDeletesDoNotFail`, `NoLostUpdate`, and that `ObjectStore` implements `AtomicStore` | 3 slots, 1 key in 2 spellings, 7 kinds of request, slots reused for ever |
| `faults` | `LockDiscipline`, `IndexMatchesDisk` and the implementation of `AtomicStore` under failing file operations and a moving clock | 2 slots, 2 keys, 10 kinds of request, 6 kinds of failure, 2 instants |
| `liveness` | `TypeOKE`, `StoppedMeansQuiet`, `CallsReturn` and `EveryRequestIsAnswered` under the fairness of `SpecE` | 2 slots, 1 key, 4 kinds of request, 3 kinds of failure, one life of the server, no symmetry |
| `requests` | conditions and ranges, all combinations | bodies of 0, 1 and 3 bytes, 4 file times in 2 seconds, numbers up to `MaxU64` + 1 |
| `recovery` | `WholeObjects`, `RestartKeepsObjects` | 2 slots, 3 requests, 1 crash at any point, 2 instants |
| `disconnects` | `LockDiscipline`, `NoLostUpdate` | 2 slots, any number of disconnects |
| `multipart` | `TypeOKM`, `ListedPartsAreThere`, `CompletedFromItsParts`, `SizesAreTrue`, `OnlyLatePartsAreLeft`, `UploadsEndOnPurpose`, `NoLostUpdate` | 2 slots, 1 upload, 2 parts of 1 and 2 frames, 10 kinds of multipart request and the plain PUT of an empty object, files that cannot be created |
| `pipeline` | `TypeOK`, `NothingLost`, `ClosedOnReturn`, `AllTransfersEnd`, and that `BodyPipeline` implements `BodyTransfer` | 2 transfers, channels of 1 frame, 1 pool thread, 4 kinds of failure |
| `tree` | `TreesOnDisk`, `RecordsAreOfTheObjects`, `FailuresAreConflicts` | 2 slots, 3 keys in each other's way, empty bodies |

Why that is enough to be of use: the lock is the only thing handlers meet at,
and two writers with a reader between them (three slots) already give every
order of lookup, open, commit, rename and publish; a key never influences
another one (only `K(s)` is read or written), and the proofs below hold for
any number of slots and keys anyway. Bodies have two different bytes where a mixture of
versions must show. One crash suffices since a restart leaves a state like the
initial one but for records of another age, and the single crash already
produces those. Symmetry is over slots, which are interchangeable, and only in
runs without liveness. A channel of one frame and a pool of one thread are the
tightest there are: everyone who can wait for room or for a thread does, and
the proofs hold for any size. In `tree`, `a` is a directory for `a/b/c`, two
levels up, and the record of `a` a directory for that of `a.json/d`. A run
stops on deadlock except `requests`, `pipeline` and `liveness`, whose
behaviours end with the answer, the transfers and the server.

Fairness. `SpecE`: weak fairness of `HandleE(s)`, what a handler does by
itself, of the server's thread and of what the owner waits for. tokio polls
every ready task, the RwLock is first come first served, file operations come
back with a result or an error, and startup ends one way or another. Nothing
is assumed of clients, who may never end a body (`PutReceive`, `PutBreak`) or
never read an answer (`Return`), nor of the owner, who may keep the handle. So
`EveryRequestIsAnswered` starts once the body is there, and `CallsReturn` says
that start and drop return unless from some time on a client is in their way.
`BodyPipeline.FairSpec`: the handler's task and the pool proceed where they
can; `AllTransfersEnd` starts once all clients have sent their bodies or gone.

### Where the code departs from what it says

Three runs are expected to fail; each checks what a comment or the server's
README states.

| Run | The statement | What happens |
|---|---|---|
| `recovery_etag` | the ETag is the content MD5 (`src/README.md:20`) | a crash between rename and save within one second keeps the old record valid |
| `disconnects_commit` | the commit is a single atomic unit (`put_object.rs:128`) | a client that closes its connection during the rename leaves file and index apart |
| `multipart_again` | the previous file of a part is removed (`put_object.rs:229`) | a part uploaded twice is acknowledged and listed, and its file is the one removed: every Complete that names it answers 500 |

`multipart` leaves parts that were uploaded more than once out of
`ListedPartsAreThere` and `CompletedFromItsParts` (the history `resent`): of
those, as `multipart_again` shows, nothing good can be said. It is also why a
broken second upload costs the part its file, and why a Complete that reads a
part while it is sent again may assemble other bytes than its ETag stands for.

Things the models show without a run of their own:

* Under the key `a/` a DELETE finds the entry of `a` (`object_key` drops the
  slash) and cannot unlink its file (the path keeps it), so it answers 500 and
  changes nothing.
* If-Unmodified-Since is compared to the nanosecond (`conditional.rs:71`): with
  the object's own Last-Modified, a whole second, it may answer 412
  (`Conditional!FailsPrecondition`), against "full support" in
  `src/README.md:22`.
* After a crash `walk_dir` indexes temporary files like any other
  (`Recovery!litter`), against "partial files are never served" in
  `src/README.md:21`.
* A DELETE of a key that is a directory, or has a file on its way, answers 500
  (`PathTree!UnlinkBlocked`), where `delete_object.rs:45` says that missing
  objects get 204; and once `a/b` has been stored `a` cannot be, even after
  `a/b` is deleted, since directories stay.
* If a PUT carries one `x-amz-meta-` name twice, `add_custom_header` replaces
  the first and a GET serves the last (`Objects!Upserted`, `Objects!Applied`):
  the header that was added is not the one that is served.
* If serving failed after a startup that came too late for its owner,
  `startup_tx.send(Err(..))` (`test_server.rs:164`) would wait for ever on a
  channel that is full and that nobody reads, and the owner for the thread.
  `axum::serve` does not fail once it has begun, so `TestServer` has no such
  step.

## Proofs

For any `Slot`, `Request`, `Content`, `Fault`, `MaxTime`, `TicksPerSecond` and
`MaxU64` that satisfy the named assumptions (well-formed requests, keys that
are sequences of strings, `None` is none of the values, some tick in a second):

* `ObjectsProofs`: an accepted range is within the file, not empty, and
  exactly what the header asks for; a refused one is unreadable or empty.
* `ObjectStoreProofs`: `TypeCorrect`, `LockExcludes`, `IndexIsTrue`,
  `UpdatesAreNotLost` and `GetsAreTruthful`, each `Spec => []...`, whatever
  fails; `StoreIsAtomic`, the refinement of `AtomicStore`; and where only some
  operations fail, `CacheIsTrue` (saving and removing records does not) and
  `ReadsAndDeletesSucceed` (opening and unlinking does not, and no key ends in
  a slash).
* `InterruptionProofs`, for crashes at any step: `TypeCorrectR`,
  `ObjectsAreWhole`, and, where saving a record does not fail,
  `RestartsKeepObjects`; for clients that go away at any step:
  `LockSurvivesClients` and `ClientsLoseNoUpdates`.
* `MultipartProofs`, for any uploads, requests, part numbers and failures:
  `TypeCorrectM`, `UploadsEndOnlyOnPurpose`, `PartsAreThere`,
  `NothingElseIsLeft`, `CompletesAreOfTheirParts`, `SizesAreAlwaysTrue` and
  `UpdatesAreNotLostM`.
* `BodyPipelineProofs`, for any bodies, channel size, number of threads and of
  transfers: `PipelineTypeCorrect`, `FramesAreNotLost`, `FileIsClosed` and
  `PipelineTransfers`, the refinement of `BodyTransfer`.
* `TestServerProofs`: `EmbeddingIsTransparent` (`SpecE => Spec`), with which
  every theorem about the store holds of the embedded one;
  `EmbeddedTypeCorrect`, `StoppingIsFinal` (nothing goes on after the owner's
  call has returned) and `HandleMeansServing`.
* `PathTreeProofs`, for any set of keys: `TreeIsAnObjectStore`
  (`SpecT => Spec`), `TreesRemain`, `FailuresAreExplained` (where opening does
  not fail) and `RecordsAreTrueOnATree` (where removing a record does not).
* `RequestsProofs`, for any body, headers, times and object:
  `WritesAreConditional`, `DeletesAreConditional`, `NotModifiedIsTrue`,
  `ValidatorsComeBack` and `RangesAreServed`.

The argument. None of the invariants of the store is inductive. `TypeOK` needs
to know that a handler runs its own operation and has the entry it is going to
publish (`HandlersOnTrack`); both together are `Typed`. `LockDiscipline` is
inductive on top of that: nine lemmas say what each way to use the lock does to
it (asked for, glanced at, taken, kept, given back), and every action is one of
them; the queue's part rests on two lemmas about sequences without
repetitions. The properties of the data need to know that what a handler found
or did under the lock is still so at its next step: the conditions it checked
hold of the same entry, and the entry a GET cloned is the one in the index
(`ConditionsHold`); the index describes the files, and a writer's entry the
file it has written (`IndexDescribes` and `WritersDescribe`, over a set of
ETags that a content may have, so that `Multipart` can use them as well; here
the set is `ContentMd5`). That is where exclusion comes in: only a writer
changes `disk` or `index`, and while it writes nobody else is between two steps
on them. So `Typed /\ LockDiscipline /\ Consistent`, with `Consistent` for these
three, is the inductive invariant (`AlwaysConsistent`); `IndexMatchesDisk`
follows from it (`ConsistentMeans`), `NoLostUpdate` step by step
(`UpdateStep`), and `TruthfulGet` with a lemma about the sequential `GetDone`.

For the refinement of `AtomicStore` a temporary file has to be as much of the
body as has arrived, and all of it from `commit` on (`Admitted`); with that,
`Sound` is what every step may start from. One lemma for each step of the
atomic store says what it takes for a step to be that one (`AtomicPut`,
`AtomicGet`, ...), `ViewIsKept` and the two `...IsInvisible` that all others
leave the atomic store as it is, and `AtomicStep` goes through the actions.
`CacheMatchesIndex` is inductive where records can be written, and
`ReadsAndDeletesDoNotFail` needs that a GET that is about to open its file
finds one, which is `ConditionsHold` and `IndexDescribes` again.

`Recovery`: the index describes the files up to the crash and again after the
scan (`Described`), and every file is a whole body of a request for its key,
since only a temporary file that is `Admitted` is renamed. `RecordsTrue` says
that the record of an object that is served is that of its entry and that,
while the server is down, files and records still say what was served, but for
keys that were torn; the scan then reads the same entry again
(`SameEntryAgain`). `Disconnects`: a handler that is dropped gives up
its place in the queue (`QueueLeft`), its share of the lock, and nothing else;
no file operation that lands later touches the index. So `LockDiscipline` and
`ConditionsHold` remain, and `NoLostUpdate` needs no more: what is lost,
`IndexDescribes`, is what `disconnects_commit` shows.

`Multipart`: `TypedM` adds to the store's types where each call is
(`CallsOnTrack`), and the store's lemmas are used again for its own steps;
`ConsistentM` is `Consistent` with any ETag for a content, which gives
`SizesAreTrue` and `NoLostUpdate` even where parts change under a Complete. For
the files, `FilesAreAccountedFor` says that each is listed, on its way, to be
cleaned up or late; and `SendsAreKnown`, part by part, what is known of a part
that was sent once: one request writes it, it is neither listed, chosen nor
cleaned up before it is whole, and it is what its digest says until it is
gone. A step either does not touch a part (`Undisturbed`) or is one of its
UploadPart, its entry or its removal. `AssembledSoFar` then says what a
Complete has in its temporary file, and at the end that the ETag is of it
(`TrueEtag`). `resent` is where this stops, as it must: see `multipart_again`.

For `BodyPipeline` the invariant (`AlwaysInv`) is the types, `NothingLost` and
`ClosedOnReturn` together with `OnTrack`: where the handler's task can stand
given what its writer has done. What is in the file is then the body as far as
the frames in the channel and in hand do not account for it; a writer that ended
well has seen an empty channel and no sender, so a handler that returns "ok"
has taken all of the body and the file has it. `PipelineTransfers` goes
through the actions: each is a `Create`, a `Grow`, a `Settle`, a `Succeed` or
leaves file and outcome alone.

For `Requests` the handlers are operators: `Handled` unfolds the answer of each
operation, and the theorems go by cases on which headers there are and can be
read.

For `TestServer` and `PathTree` every step is one of `ObjectStore` or none, by
their definitions, and types and exclusion come from the store's theorems. What
is added: `InStep`, how far the two threads can be from one another (requests
are in progress only in a server that has started and has not ended; only an
owner that stops waiting gives notice), and `StillTrees`: since directories are
never removed, those a PUT made for its temporary file are still there at its
rename (`TempReachable`), so the renamed file has its parents. A failure is explained
because every file that is there, or about to be, has had its key placed
(`EverythingIsPlaced`).

Every invariant, action property and refinement of the passing runs is thus
proved, for the instance of the run and all others; the theorems that need
some operation not to fail say so as a hypothesis on `Fault`, as do the runs.
Only model-checked: `EveryRequestIsAnswered`, `CallsReturn` and
`AllTransfersEnd`, since liveness under fairness is beyond the prover. The queue
of `Disconnects` gives up a place by `RemoveAt` and not by a filter for the
same reason: what a recursive definition computes cannot be proved here.

## Not modelled

* The shell: command line, logging, TCP, XML and messages are formatting and
  I/O without state of their own. What HTTP adds below a handler (chunking,
  connection reuse) is taken as axum and hyper have it.
* A startup scan that fails as a whole (the server does not start) and files
  that cannot be read then (they are skipped).
* Of multipart uploads: XML that cannot be written, a part file that cannot be
  removed, clients that go away after the body, and a restart, which loses the
  table and keeps the files.
* Keys that begin with the names of the server's own directories, and in
  `PathTree` keys that end in a slash (`ObjectStore` has them).
* Of the embedded server: which port it binds, a client that stalls in the
  middle of its request's head, and a second life on the same directory
  (`Recovery` has restarts).
* Other work on the blocking pool than the body pipeline's: in `ObjectStore`
  every file operation comes back.

## Plan

Done: `ObjectKeys`, `Conditional`, `ByteRange`, `Objects`, `AtomicStore`,
`ObjectStore`, `Recovery`, `Disconnects`, `Requests`, `Multipart`,
`BodyPipeline`, `PathTree`, `TestServer` and the proofs above, in that order:
the concurrent handlers are the heart of the server and came first.

Proved, in the order in which the theorems rest on each other: the store's
types, lock and index; updates and answers; the refinement of `AtomicStore`;
the cache; then restarts, disconnects, paths, the embedded server and multipart
uploads on top of these; conditions and ranges by themselves.

Next, proofs: that `Multipart` without uploads in progress implements
`ObjectStore`'s promise for plain requests (a Complete as an atomic PUT of the
assembled body), that `ConsistentM` holds across restarts, and what
`Disconnects` still promises of the index (an entry without a file, or a file
without an entry, only under a key whose handler was dropped).
