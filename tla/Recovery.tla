------------------------------ MODULE Recovery ------------------------------
(***************************************************************************)
(* ObjectStore with crashes and restarts.  A crash loses the index, the    *)
(* lock and every request; the serve directory stays as it is, temporary   *)
(* files included.  A restart builds the index from the directory before   *)
(* it accepts requests: `FileStore::build` and `walk_dir` (store.rs),      *)
(* `get_or_compute_metadata` (metadata_cache.rs).                          *)
(***************************************************************************)
EXTENDS ObjectStore

CONSTANT MaxCrashes   \* crashes in one behaviour

ASSUME MaxCrashesAssumption == MaxCrashes \in Nat

VARIABLES
  up,        \* the server is running
  crashes,   \* crashes so far
  before,    \* the index lost in the last crash (history)
  torn       \* keys whose commit the last crash cut in two (history)

recovery == <<up, crashes, before, torn>>

InitR ==
  /\ Init
  /\ up = TRUE
  /\ crashes = 0
  /\ before = index
  /\ torn = {}

-----------------------------------------------------------------------------
(* A record that was being written may be old, there, or cut short; one    *)
(* that was being removed may be there or not.                             *)
RecordsAfterCrash(k) ==
  CASE ~Ahead(k) -> {cache[k]}
    [] Ahead(k)  -> IF pc[writer] = "save"
                      THEN {cache[k], None, CacheRecord(entry[writer])}
                      ELSE {cache[k], None}

Crash ==
  /\ up
  /\ crashes < MaxCrashes
  /\ up' = FALSE
  /\ crashes' = crashes + 1
  /\ before' = index
  /\ torn' = {k \in Key : Ahead(k)}
  /\ litter' = litter \cup ({temp[s] : s \in Slot} \ {None})
  /\ cache' \in {c \in [Key -> UNION {RecordsAfterCrash(k) : k \in Key}] :
                   \A k \in Key : c[k] \in RecordsAfterCrash(k)}
  /\ index' = [k \in Key |-> None]
  /\ queue' = << >> /\ readers' = {} /\ writer' = None
  /\ pc' = [s \in Slot |-> "idle"]
  /\ req' = [s \in Slot |-> None]
  /\ resp' = [s \in Slot |-> None]
  /\ entry' = [s \in Slot |-> None]
  /\ temp' = [s \in Slot |-> None]
  /\ UNCHANGED <<time, disk>>

-----------------------------------------------------------------------------
(* Startup.  A cached record is taken if its time is that of the file, in  *)
(* whole seconds; otherwise the file is hashed, and its headers are lost.  *)
(* Temporary files that were left behind are indexed like any other file,  *)
(* under names of their own, which are no keys here.                       *)

CacheHit_Never(k) == FALSE
CacheHit(k) == cache[k] # None /\ cache[k].secs = Secs(disk[k].mtime)

Computed(file) == EntryOf(file.data, file.mtime, << >>)

EntryFromDisk(k) ==
  IF CacheHit(k)
    THEN [Computed(disk[k]) EXCEPT !.etag = cache[k].etag, !.headers = cache[k].headers]
    ELSE Computed(disk[k])

IndexFromDisk == [k \in Key |-> IF disk[k] = None THEN None ELSE EntryFromDisk(k)]

(* A fresh record is saved for every file that had no valid one.           *)
RecordsAfterScan(k) ==
  IF disk[k] = None \/ CacheHit(k)
    THEN {cache[k]}
    ELSE {CacheRecord(EntryFromDisk(k))} \cup (IF "save" \in Fault THEN {cache[k], None} ELSE {})

Restart ==
  /\ ~up
  /\ up' = TRUE
  /\ index' = IndexFromDisk
  /\ cache' \in {c \in [Key -> UNION {RecordsAfterScan(k) : k \in Key}] :
                   \A k \in Key : c[k] \in RecordsAfterScan(k)}
  /\ UNCHANGED <<time, disk, litter, lock, local, crashes, before, torn>>

NextR ==
  \/ up /\ Next /\ UNCHANGED recovery
  \/ Crash
  \/ Restart

SpecR == InitR /\ [][NextR]_<<vars, recovery>>

-----------------------------------------------------------------------------
(* Properties. *)

TypeOKR ==
  /\ TypeOK
  /\ up \in BOOLEAN /\ crashes \in 0 .. MaxCrashes
  /\ torn \subseteq Key
  /\ ~up => \A s \in Slot : pc[s] = "idle"

(* A restart serves what was served before the crash: content, ETag, time  *)
(* and user metadata of every object that was not being committed.         *)
RestartKeepsObjects ==
  [][~up /\ up' => \A k \in Key \ torn : index'[k] = before[k]]_<<vars, recovery>>

(* Whatever is cut off, an object is one whole body that was there at the  *)
(* start or was sent in a PUT of its key, and its size and time are the    *)
(* file's.                                                                 *)
Bodies(k) == Content \cup {r.body : r \in {q \in Request : q.op = "put" /\ KeyOf(q) = k}}

WholeObjects ==
  up => \A k \in Key : index[k] # None /\ ~Ahead(k) =>
          /\ disk[k] # None /\ disk[k].data \in Bodies(k)
          /\ index[k].size = Len(disk[k].data)
          /\ index[k].modified = disk[k].mtime

(* README: the ETag of an object uploaded in one part is its content MD5.  *)
EtagIsContentMd5 ==
  \A k \in Key : index[k] # None /\ ~Ahead(k) => index[k].etag = Md5(disk[k].data)
=============================================================================
