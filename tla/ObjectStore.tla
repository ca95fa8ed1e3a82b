----------------------------- MODULE ObjectStore -----------------------------
(***************************************************************************)
(* The handlers of PUT, GET and DELETE of an object and the embedding      *)
(* program's add_custom_header running concurrently over the index in      *)
(* memory, the files of the serve directory and the metadata cache         *)
(* (put_object.rs, get_object.rs, delete_object.rs, test_server.rs,        *)
(* store.rs, metadata_cache.rs).                                           *)
(*                                                                         *)
(* An action is what one handler does between two awaits.  The store's     *)
(* tokio RwLock is fair: requests for it are granted in the order of       *)
(* `queue`.  A file is written only under its temporary name, which is     *)
(* unique, and reaches the name of its key by a rename; an open handle     *)
(* keeps the file it was opened on.  Operations of the file system named   *)
(* in Fault may fail, for reasons of their own or because a key is a       *)
(* directory on the way to another one (PathTree says when).               *)
(***************************************************************************)
EXTENDS Objects

CONSTANTS
  Slot,      \* requests in progress at the same time
  Content,   \* bodies of the files found at startup
  Fault,     \* file operations that may fail
  MaxTime    \* the clock stops here

ASSUME StoreAssumption ==
  /\ None \notin Slot
  /\ MaxTime \in Nat
  /\ Content \subseteq Seq(Frame)
  /\ Fault \subseteq {"create", "rename", "save", "open", "unlink", "uncache", "discard"}

VARIABLES
  now,       \* the clock that file times are taken from
  disk,      \* the file under each key, or None
  cache,     \* the metadata cache's record of each key; None if missing or unreadable
  litter,    \* temporary files nobody will remove
  index,     \* FileStore.entries
  queue,     \* requests waiting for the store's lock, first come first
  readers,   \* requests holding the read lock across an await
  writer,    \* the request holding the write lock, or None
  pc,        \* where each slot's handler stands
  req,       \* the slot's request, or None
  resp,      \* its answer once it is settled, or None
  entry,     \* the FileEntry the handler holds, or None
  temp       \* the temporary file it is writing, or None

time == now
files == <<disk, cache, litter>>
lock == <<queue, readers, writer>>
local == <<pc, req, resp, entry, temp>>
vars == <<time, files, index, lock, local>>

File(data, mtime) == [data |-> data, mtime |-> mtime]

K(s) == KeyOf(req[s])

Init ==
  /\ now = 0
  /\ disk \in [Key -> {None} \cup {File(data, 0) : data \in Content}]
  /\ index = [k \in Key |-> IF disk[k] = None THEN None ELSE EntryOf(disk[k].data, 0, << >>)]
  /\ cache = [k \in Key |-> IF index[k] = None THEN None ELSE CacheRecord(index[k])]
  /\ litter = {}
  /\ queue = << >> /\ readers = {} /\ writer = None
  /\ pc = [s \in Slot |-> "idle"]
  /\ req = [s \in Slot |-> None]
  /\ resp = [s \in Slot |-> None]
  /\ entry = [s \in Slot |-> None]
  /\ temp = [s \in Slot |-> None]

-----------------------------------------------------------------------------
(* The handler's own state. *)

Goto(s, label) == pc' = [pc EXCEPT ![s] = label]

Settle(s, answer) == resp' = [resp EXCEPT ![s] = answer]

Finish(s, answer) ==
  /\ Goto(s, "done")
  /\ Settle(s, answer)

(* tokio::sync::RwLock: nobody overtakes the head of the queue.            *)
ReadGranted(s) == queue # << >> /\ Head(queue) = s /\ writer = None
WriteGranted(s) == queue # << >> /\ Head(queue) = s /\ writer = None /\ readers = {}

Await(s, label) ==
  /\ Goto(s, label)
  /\ queue' = Append(queue, s)
  /\ UNCHANGED <<readers, writer>>

(* The lock is taken and given back before the next await.                 *)
Glance == queue' = Tail(queue) /\ UNCHANGED <<readers, writer>>

GlanceAndAwait(s) == queue' = Append(Tail(queue), s) /\ UNCHANGED <<readers, writer>>

TakeWrite(s) == queue' = Tail(queue) /\ writer' = s /\ UNCHANGED readers
TakeRead_Dropped(s) == Glance
TakeRead(s) == queue' = Tail(queue) /\ readers' = readers \cup {s} /\ UNCHANGED writer
DropWrite == writer' = None /\ UNCHANGED <<queue, readers>>
DropRead(s) == readers' = readers \ {s} /\ UNCHANGED <<queue, writer>>

-----------------------------------------------------------------------------
(* The client, and the dispatch of its request. *)

Receive(s, r) ==
  /\ pc[s] = "idle"
  /\ Goto(s, "start")
  /\ req' = [req EXCEPT ![s] = r]
  /\ UNCHANGED <<time, files, index, lock, resp, entry, temp>>

(* All but a PUT are looked at before they ask for the lock; a PUT asks    *)
(* for it first, to learn the serve directory.                             *)
Invalid(r) ==
  First(RefuseIf(r.op = "delete", DeleteInvalid(r)),
        First(RefuseIf(r.op = "get", GetInvalid(r)),
              RefuseIf(r.op = "add_header", AddHeaderInvalid(r))))

Reject(s) ==
  /\ pc[s] = "start"
  /\ Invalid(req[s]) # None
  /\ Finish(s, Invalid(req[s]))
  /\ UNCHANGED <<time, files, index, lock, req, entry, temp>>

Dispatch(s, op, label) ==
  /\ pc[s] = "start"
  /\ req[s].op = op
  /\ Invalid(req[s]) = None
  /\ Await(s, label)
  /\ UNCHANGED <<time, files, index, req, resp, entry, temp>>

Return(s) ==
  /\ pc[s] = "done"
  /\ Goto(s, "idle")
  /\ req' = [req EXCEPT ![s] = None]
  /\ resp' = [resp EXCEPT ![s] = None]
  /\ entry' = [entry EXCEPT ![s] = None]
  /\ UNCHANGED <<time, files, index, lock, temp>>

-----------------------------------------------------------------------------
(* PUT: the serve directory and the request itself, an early check of the  *)
(* conditions, the body into a temporary file, then under the write lock   *)
(* the check that counts, the rename, the cache record and the index.      *)

PutResolve(s) ==
  /\ pc[s] = "resolve"
  /\ ReadGranted(s)
  /\ \/ /\ PutInvalid(req[s]) # None
        /\ Finish(s, PutInvalid(req[s]))
        /\ Glance
     \/ /\ PutInvalid(req[s]) = None
        /\ Goto(s, "check") /\ UNCHANGED resp
        /\ GlanceAndAwait(s)
  /\ UNCHANGED <<time, files, index, req, entry, temp>>

EarlyRefusal(s) == PutRefused(req[s], index[K(s)])

PutEarlyCheck(s) ==
  /\ pc[s] = "check"
  /\ ReadGranted(s)
  /\ Glance
  /\ IF EarlyRefusal(s) # None
       THEN Finish(s, EarlyRefusal(s))
       ELSE Goto(s, "create") /\ UNCHANGED resp
  /\ UNCHANGED <<time, files, index, req, entry, temp>>

PutCreate(s) ==
  /\ pc[s] = "create"
  /\ \/ /\ temp' = [temp EXCEPT ![s] = File(<< >>, now)]
        /\ Goto(s, "body") /\ UNCHANGED resp
     \/ /\ "create" \in Fault
        /\ Finish(s, InternalError) /\ UNCHANGED temp
  /\ UNCHANGED <<time, files, index, lock, req, entry>>

Received(s) == temp[s].data
MoreToReceive(s) == Len(Received(s)) < Len(req[s].body)

PutReceive(s) ==
  /\ pc[s] = "body"
  /\ MoreToReceive(s)
  /\ temp' = [temp EXCEPT ![s] =
       File(Append(Received(s), req[s].body[Len(Received(s)) + 1]), now)]
  /\ UNCHANGED <<time, files, index, lock, pc, req, resp, entry>>

(* The client breaks off (after the last frame too, if the end of the body *)
(* was still to come), or a write to the temporary file fails.             *)
PutBreak_Accepted(s) ==
  /\ pc[s] = "body"
  /\ entry' = [entry EXCEPT ![s] = EntryOf(Received(s), temp[s].mtime, req[s].headers)]
  /\ Await(s, "commit")
  /\ UNCHANGED <<time, files, index, req, resp, temp>>
PutBreak(s) ==
  /\ pc[s] = "body"
  /\ Goto(s, "discard")
  /\ Settle(s, InternalError)
  /\ UNCHANGED <<time, files, index, lock, req, entry, temp>>

EntryWritten_Clock(s) == EntryOf(temp[s].data, now, req[s].headers)
EntryWritten(s) == EntryOf(temp[s].data, temp[s].mtime, req[s].headers)

PutReceived(s) ==
  /\ pc[s] = "body"
  /\ ~MoreToReceive(s)
  /\ entry' = [entry EXCEPT ![s] = EntryWritten(s)]
  /\ Await(s, "commit")
  /\ UNCHANGED <<time, files, index, req, resp, temp>>

FinalRefusal_Skipped(s) == None
FinalRefusal(s) == PutRefused(req[s], index[K(s)])

PutCommit(s) ==
  /\ pc[s] = "commit"
  /\ WriteGranted(s)
  /\ TakeWrite(s)
  /\ IF FinalRefusal(s) # None
       THEN Goto(s, "discard") /\ Settle(s, FinalRefusal(s))
       ELSE Goto(s, "rename") /\ UNCHANGED resp
  /\ UNCHANGED <<time, files, index, req, entry, temp>>

RenameCanSucceed(s) == ~NamesDirectory(SanitizeKey(req[s].key))

PutRename(s) ==
  /\ pc[s] = "rename"
  /\ RenameCanSucceed(s)
  /\ disk' = [disk EXCEPT ![K(s)] = temp[s]]
  /\ temp' = [temp EXCEPT ![s] = None]
  /\ Goto(s, "save")
  /\ Settle(s, PutDone(entry[s]))
  /\ UNCHANGED <<time, cache, litter, index, lock, req, entry>>

PutRenameFails_Ignored(s) ==
  /\ pc[s] = "rename"
  /\ Goto(s, "save")
  /\ Settle(s, PutDone(entry[s]))
  /\ UNCHANGED <<time, files, index, lock, req, entry, temp>>
PutRenameFails(s) ==
  /\ pc[s] = "rename"
  /\ ~RenameCanSucceed(s) \/ "rename" \in Fault
  /\ Goto(s, "discard")
  /\ Settle(s, InternalError)
  /\ UNCHANGED <<time, files, index, lock, req, entry, temp>>

(* A failed save leaves the old record, or a truncated file.               *)
SaveOutcomes(s) ==
  {CacheRecord(entry[s])} \cup (IF "save" \in Fault THEN {cache[K(s)], None} ELSE {})

Publish(s) ==
  /\ pc[s] = "save"
  /\ \E record \in SaveOutcomes(s) : cache' = [cache EXCEPT ![K(s)] = record]
  /\ index' = [index EXCEPT ![K(s)] = entry[s]]
  /\ DropWrite
  /\ Goto(s, "done")
  /\ UNCHANGED <<time, disk, litter, req, resp, entry, temp>>

(* Every failed or refused PUT removes its temporary file before it        *)
(* answers, under the write lock if it holds it.                           *)
ReleaseIfWriter_Forgotten(s) == UNCHANGED lock
ReleaseIfWriter(s) ==
  /\ writer' = IF writer = s THEN None ELSE writer
  /\ UNCHANGED <<queue, readers>>

PutDiscard_KeepsTemp(s) ==
  /\ pc[s] = "discard"
  /\ ReleaseIfWriter(s)
  /\ Goto(s, "done")
  /\ UNCHANGED <<time, files, index, req, resp, entry, temp>>
PutDiscard(s) ==
  /\ pc[s] = "discard"
  /\ \/ UNCHANGED litter
     \/ "discard" \in Fault /\ litter' = litter \cup {temp[s]}
  /\ temp' = [temp EXCEPT ![s] = None]
  /\ ReleaseIfWriter(s)
  /\ Goto(s, "done")
  /\ UNCHANGED <<time, disk, cache, index, req, resp, entry>>

-----------------------------------------------------------------------------
(* DELETE: conditions, unlink, cache and index under one write lock.       *)

DeleteRefusedNow(s) == DeleteRefused(req[s], index[K(s)])

DeleteEvaluate(s) ==
  /\ pc[s] = "evaluate"
  /\ WriteGranted(s)
  /\ IF DeleteRefusedNow(s) # None
       THEN Glance /\ Finish(s, DeleteRefusedNow(s))
       ELSE TakeWrite(s) /\ Goto(s, "unlink") /\ UNCHANGED resp
  /\ UNCHANGED <<time, files, index, req, entry, temp>>

(* A file that is not there is no error, whatever the spelling.            *)
UnlinkCanSucceed(s) == disk[K(s)] = None \/ ~NamesDirectory(SanitizeKey(req[s].key))

DeleteUnlink(s) ==
  /\ pc[s] = "unlink"
  /\ UnlinkCanSucceed(s)
  /\ disk' = [disk EXCEPT ![K(s)] = None]
  /\ Goto(s, "uncache")
  /\ Settle(s, DeleteDone)
  /\ UNCHANGED <<time, cache, litter, index, lock, req, entry, temp>>

DeleteUnlinkFails_KeepsLock(s) ==
  /\ pc[s] = "unlink"
  /\ Finish(s, InternalError)
  /\ UNCHANGED <<time, files, index, lock, req, entry, temp>>
DeleteUnlinkFails(s) ==
  /\ pc[s] = "unlink"
  /\ ~UnlinkCanSucceed(s) \/ "unlink" \in Fault
  /\ DropWrite
  /\ Finish(s, InternalError)
  /\ UNCHANGED <<time, files, index, req, entry, temp>>

RemoveRecord_Forgotten(s) == UNCHANGED cache
RemoveRecord(s) ==
  \/ cache' = [cache EXCEPT ![K(s)] = None]
  \/ "uncache" \in Fault /\ UNCHANGED cache

RemoveEntry_Forgotten(s) == UNCHANGED index
RemoveEntry(s) == index' = [index EXCEPT ![K(s)] = None]

DeleteForget(s) ==
  /\ pc[s] = "uncache"
  /\ RemoveRecord(s)
  /\ RemoveEntry(s)
  /\ DropWrite
  /\ Goto(s, "done")
  /\ UNCHANGED <<time, disk, litter, req, resp, entry, temp>>

-----------------------------------------------------------------------------
(* GET: the read lock is held from the lookup until the file is open.      *)

GetRefusedNow(s) == GetRefused(req[s], index[K(s)])

GetLookup(s) ==
  /\ pc[s] = "lookup"
  /\ ReadGranted(s)
  /\ IF GetRefusedNow(s) # None
       THEN Glance /\ Finish(s, GetRefusedNow(s)) /\ UNCHANGED entry
       ELSE /\ TakeRead(s)
            /\ entry' = [entry EXCEPT ![s] = index[K(s)]]
            /\ Goto(s, "open") /\ UNCHANGED resp
  /\ UNCHANGED <<time, files, index, req, temp>>

GetOpen(s) ==
  /\ pc[s] = "open"
  /\ disk[K(s)] # None
  /\ DropRead(s)
  /\ Finish(s, GetDone(req[s], entry[s], disk[K(s)].data))
  /\ UNCHANGED <<time, files, index, req, entry, temp>>

GetOpenFails(s) ==
  /\ pc[s] = "open"
  /\ disk[K(s)] = None \/ "open" \in Fault
  /\ DropRead(s)
  /\ Finish(s, InternalError)
  /\ UNCHANGED <<time, files, index, req, entry, temp>>

-----------------------------------------------------------------------------
(* add_custom_header: the entry of the moment with one header more, to the *)
(* record and the index under one write lock.                              *)

AddHeaderRefusedNow(s) == AddHeaderRefused(req[s], index[K(s)])

AddHeader(s) ==
  /\ pc[s] = "annotate"
  /\ WriteGranted(s)
  /\ IF AddHeaderRefusedNow(s) # None
       THEN Glance /\ Finish(s, AddHeaderRefusedNow(s)) /\ UNCHANGED entry
       ELSE /\ TakeWrite(s)
            /\ entry' = [entry EXCEPT ![s] = HeaderAdded(req[s], index[K(s)])]
            /\ Goto(s, "save") /\ Settle(s, HeaderDone)
  /\ UNCHANGED <<time, files, index, req, temp>>

-----------------------------------------------------------------------------
Tick ==
  /\ now < MaxTime
  /\ now' = now + 1
  /\ UNCHANGED <<files, index, lock, local>>

(* What a handler does by itself, without waiting for its client.          *)
Handle(s) ==
  \/ Reject(s)
  \/ Dispatch(s, "put", "resolve")
  \/ Dispatch(s, "delete", "evaluate")
  \/ Dispatch(s, "get", "lookup")
  \/ Dispatch(s, "add_header", "annotate")
  \/ PutResolve(s) \/ PutEarlyCheck(s) \/ PutCreate(s)
  \/ PutReceived(s) \/ PutCommit(s) \/ PutRename(s) \/ PutRenameFails(s)
  \/ Publish(s) \/ PutDiscard(s)
  \/ DeleteEvaluate(s) \/ DeleteUnlink(s) \/ DeleteUnlinkFails(s) \/ DeleteForget(s)
  \/ GetLookup(s) \/ GetOpen(s) \/ GetOpenFails(s)
  \/ AddHeader(s)

SlotStep(s) ==
  \/ \E r \in Request : Receive(s, r)
  \/ PutReceive(s) \/ PutBreak(s)
  \/ Handle(s)
  \/ Return(s)

Next == Tick \/ \E s \in Slot : SlotStep(s)

Spec == Init /\ [][Next]_vars

-----------------------------------------------------------------------------
(* Properties. *)

Waiting == {"resolve", "check", "commit", "evaluate", "lookup", "annotate"}
Writing == {"rename", "save", "unlink", "uncache"}
Label == Waiting \cup Writing
           \cup {"idle", "start", "create", "body", "discard", "open", "done"}

FileSet == [data : Seq(Frame), mtime : 0 .. MaxTime]

(* The state's type; a handler holds a temporary file exactly from its     *)
(* creation to its rename or removal, none once it is done, and knows its  *)
(* answer exactly once the outcome cannot change any more.                 *)
TypeOK ==
  /\ now \in 0 .. MaxTime
  /\ disk \in [Key -> FileSet \cup {None}]
  /\ cache \in [Key -> Records \cup {None}]
  /\ litter \subseteq FileSet
  /\ index \in [Key -> Entries \cup {None}]
  /\ queue \in Seq(Slot) /\ readers \subseteq Slot /\ writer \in Slot \cup {None}
  /\ pc \in [Slot -> Label]
  /\ req \in [Slot -> Request \cup {None}]
  /\ resp \in [Slot -> Answers \cup {None}]
  /\ entry \in [Slot -> Entries \cup {None}]
  /\ temp \in [Slot -> FileSet \cup {None}]
  /\ \A s \in Slot :
       /\ req[s] = None <=> pc[s] = "idle"
       /\ temp[s] # None <=> pc[s] \in {"body", "commit", "rename", "discard"}
       /\ resp[s] # None <=> pc[s] \in {"save", "uncache", "discard", "done"}

(* The lock excludes: a writer is alone, holds it exactly while it changes *)
(* files (or removes its temporary file after a refusal), GETs hold it     *)
(* from lookup to open, and every request that waits is queued once.       *)
LockDiscipline ==
  /\ writer # None => readers = {} /\ pc[writer] \in Writing \cup {"discard"}
  /\ \A s \in Slot : pc[s] \in Writing => writer = s
  /\ readers = {s \in Slot : pc[s] = "open"}
  /\ {queue[i] : i \in DOMAIN queue} = {s \in Slot : pc[s] \in Waiting}
  /\ \A i, j \in DOMAIN queue : queue[i] = queue[j] => i = j

(* Between its rename (unlink) and its last step a writer's key is ahead   *)
(* of the index.                                                           *)
Ahead(k) == writer # None /\ pc[writer] \in {"save", "uncache"} /\ K(writer) = k

(* The index tells the truth about the files: same keys, size, time and    *)
(* ETag, except where the holder of the write lock is in between.          *)
IndexMatchesDisk ==
  \A k \in Key :
    ~Ahead(k) =>
      IF disk[k] = None
        THEN index[k] = None
        ELSE index[k] # None
             /\ index[k] = EntryOf(disk[k].data, disk[k].mtime, index[k].headers)

(* What a restart would read is what is served: without failures of the    *)
(* cache's own files its records are those of the index.                   *)
CacheMatchesIndex ==
  \A k \in Key :
    ~Ahead(k) => cache[k] = IF index[k] = None THEN None ELSE CacheRecord(index[k])

(* A GET never pairs one object's headers with another one's bytes, and    *)
(* sends as many bytes as it announced.                                    *)
TruthfulGet ==
  \A s \in Slot :
    resp[s] # None /\ req[s].op = "get" =>
      /\ resp[s].code \in {"Ok", "PartialContent"} => Len(resp[s].data) = resp[s].length
      /\ resp[s].code = "Ok" => resp[s].etag = Md5(resp[s].data)

(* Without failing file operations, and with keys that do not end in "/",  *)
(* a GET or DELETE never answers 500, whatever it races with: the file it  *)
(* found in the index is still there.                                      *)
ReadsAndDeletesDoNotFail ==
  \A s \in Slot :
    resp[s] # None /\ req[s].op \in {"get", "delete"} => resp[s].code # "InternalError"

(* No lost update: an object is replaced or removed only by a request      *)
(* whose conditions hold of the very object that goes away, and a header   *)
(* is added to the very object that is there.                              *)
NoLostUpdate ==
  [][\A k \in Key : index'[k] # index[k] =>
       /\ writer # None /\ K(writer) = k
       /\ req[writer].op = "put" => PutRefused(req[writer], index[k]) = None
       /\ req[writer].op = "delete" => DeleteRefused(req[writer], index[k]) = None
       /\ req[writer].op = "add_header" =>
            index[k] # None /\ index'[k] = HeaderAdded(req[writer], index[k])]_vars

(* Every request is answered once its body has arrived, whoever else comes *)
(* and goes, and whether the server is being shut down or not.             *)
EveryRequestIsAnswered ==
  \A s \in Slot :
    pc[s] \notin {"idle", "body", "done"} ~> pc[s] \in {"body", "done"}

-----------------------------------------------------------------------------
(* What makes these invariants inductive.                                  *)

PutLabel == {"resolve", "check", "create", "body", "commit", "rename", "discard"}
DeleteLabel == {"evaluate", "unlink", "uncache"}
GetLabel == {"lookup", "open"}

(* A handler runs its own operation, on a valid key once it has looked at  *)
(* it, and holds an entry while it is about to publish or to serve one.    *)
HandlersOnTrack ==
  \A s \in Slot :
    /\ pc[s] \in PutLabel => req[s].op = "put"
    /\ pc[s] \in DeleteLabel => req[s].op = "delete"
    /\ pc[s] \in GetLabel => req[s].op = "get"
    /\ pc[s] = "annotate" => req[s].op = "add_header"
    /\ pc[s] = "save" => req[s].op \in {"put", "add_header"}
    /\ pc[s] \notin {"idle", "start", "resolve", "done"} => K(s) \in Key
    /\ pc[s] \in {"commit", "rename"} => entry[s] # None /\ entry[s].headers = req[s].headers
    /\ pc[s] = "save" => entry[s] # None
    /\ pc[s] = "open" => entry[s] # None /\ GetRefused(req[s], entry[s]) = None

(* What the holder of the lock has found in the index is still so.         *)
ConditionsHold ==
  \A s \in Slot :
    /\ pc[s] = "rename" => PutRefused(req[s], index[K(s)]) = None
    /\ pc[s] = "save" /\ req[s].op = "put" => PutRefused(req[s], index[K(s)]) = None
    /\ pc[s] = "save" /\ req[s].op = "add_header" =>
         index[K(s)] # None /\ entry[s] = HeaderAdded(req[s], index[K(s)])
    /\ pc[s] \in {"unlink", "uncache"} => DeleteRefused(req[s], index[K(s)]) = None
    /\ pc[s] = "open" => entry[s] = index[K(s)]

(* An entry describes a file if it has its size and time, and an ETag that *)
(* files of that content may have.                                         *)
Describes(e, file, etagged) ==
  e.size = Len(file.data) /\ e.modified = file.mtime /\ <<e.etag, file.data>> \in etagged

(* The index describes the files, apart from one that it is behind of, and *)
(* a writer's entry describes the file it has written or found.            *)
IndexDescribes(etagged) ==
  \A k \in Key : ~Ahead(k) =>
    IF disk[k] = None
      THEN index[k] = None
      ELSE index[k] # None /\ Describes(index[k], disk[k], etagged)

WritersDescribe(etagged) ==
  \A s \in Slot :
    /\ pc[s] \in {"commit", "rename"} => Describes(entry[s], temp[s], etagged)
    /\ pc[s] = "save" => disk[K(s)] # None /\ Describes(entry[s], disk[K(s)], etagged)
    /\ pc[s] = "uncache" => disk[K(s)] = None

-----------------------------------------------------------------------------
(* The atomic store this implements: a PUT takes effect at its rename, a   *)
(* DELETE at its unlink, a GET when it opens the file, an add_header when  *)
(* it has got the lock.                                                    *)

HeadersServed(k) == IF Ahead(k) THEN entry[writer].headers ELSE index[k].headers

Stored(k) ==
  IF disk[k] = None
    THEN None
    ELSE [data |-> disk[k].data, mtime |-> disk[k].mtime, headers |-> HeadersServed(k)]

Atomic == INSTANCE AtomicStore
            WITH objects <- [k \in Key |-> Stored(k)], asked <- req, answered <- resp

ImplementsAtomicStore == Atomic!AtomicSpec
=============================================================================
