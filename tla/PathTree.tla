------------------------------ MODULE PathTree ------------------------------
(***************************************************************************)
(* ObjectStore over the tree that its flat keys become on disk: the key    *)
(* a/b is a file b in a directory a, and its cache record a file b.json in *)
(* a directory a of the cache's own tree.  Which creations, renames,       *)
(* unlinks and saves fail is decided here by what else is in the two       *)
(* trees; Fault has to allow them.  Directories are made on demand and     *)
(* never removed.                                                          *)
(*                                                                         *)
(* Keys do not begin with the names of the server's own directories, nor   *)
(* do requests spell them with a slash at the end.  The serve directory is *)
(* empty at the start.                                                     *)
(***************************************************************************)
EXTENDS ObjectStore

ASSUME TreeAssumption ==
  /\ Content = {}
  /\ {"create", "rename", "unlink", "save"} \subseteq Fault
  /\ Key \subseteq Seq(STRING)

VARIABLES
  dirs,        \* directories among the objects
  recordDirs,  \* directories in the metadata cache
  placed       \* keys that have ever had a temporary file (history)

tree == <<dirs, recordDirs, placed>>

InitT == Init /\ dirs = {} /\ recordDirs = {} /\ placed = {}

Front(path) == SubSeq(path, 1, Len(path) - 1)

Ancestors(path) == {SubSeq(path, 1, n) : n \in 1 .. Len(path) - 1}

RecordPath(k) == Append(Front(k), k[Len(k)] \o ".json")

ObjectFiles == {k \in Key : disk[k] # None}
RecordFiles == {RecordPath(k) : k \in {l \in Key : cache[l] # None}}

(* create_dir_all makes all the missing directories, or none if one of     *)
(* them is a file.                                                         *)
Made_LastOnly(path, present) ==
  {d \in Ancestors(path) : d = Front(path) /\ Ancestors(d) \subseteq present}
Made(path, present) == Ancestors(path)

CanReach(path, regular, directories) ==
  Ancestors(path) \cap regular = {} /\ Ancestors(path) \subseteq directories

WithParents(path, regular, directories) ==
  IF Ancestors(path) \cap regular = {} THEN directories \cup Made(path, directories) ELSE directories

-----------------------------------------------------------------------------
(* The parents of the object, then its temporary file beside it.           *)
CreateInTree(s) ==
  /\ PutCreate(s)
  /\ dirs' = WithParents(K(s), ObjectFiles, dirs)
  /\ pc'[s] = "body" <=> CanReach(K(s), ObjectFiles, dirs')
  /\ placed' = IF pc'[s] = "body" THEN placed \cup {K(s)} ELSE placed
  /\ UNCHANGED recordDirs

(* A file is not renamed onto a directory.                                 *)
RenameInTree(s) ==
  /\ pc[s] = "rename"
  /\ IF K(s) \in dirs THEN PutRenameFails(s) ELSE PutRename(s)
  /\ UNCHANGED tree

(* The parents of the record, then the record, if nothing is in the way.   *)
SaveInTree(s) ==
  LET path == RecordPath(K(s)) IN
  /\ Publish(s)
  /\ recordDirs' = WithParents(path, RecordFiles, recordDirs)
  /\ cache'[K(s)] = IF CanReach(path, RecordFiles, recordDirs') /\ path \notin recordDirs
                      THEN CacheRecord(entry[s])
                      ELSE cache[K(s)]
  /\ UNCHANGED <<dirs, placed>>

(* "Not found" is no error, "is a directory" and "not a directory" are.    *)
UnlinkBlocked(s) == K(s) \in dirs \/ Ancestors(K(s)) \cap ObjectFiles # {}

UnlinkInTree_Prunes(s) ==
  /\ pc[s] = "unlink"
  /\ IF UnlinkBlocked(s) THEN DeleteUnlinkFails(s) ELSE DeleteUnlink(s)
  /\ dirs' = IF UnlinkBlocked(s) THEN dirs ELSE dirs \ Ancestors(K(s))
  /\ UNCHANGED <<recordDirs, placed>>
UnlinkInTree(s) ==
  /\ pc[s] = "unlink"
  /\ IF UnlinkBlocked(s) THEN DeleteUnlinkFails(s) ELSE DeleteUnlink(s)
  /\ UNCHANGED tree

NextT ==
  \E s \in Slot :
    \/ CreateInTree(s) \/ RenameInTree(s) \/ SaveInTree(s) \/ UnlinkInTree(s)
    \/ /\ pc[s] \notin {"create", "rename", "save", "unlink"}
       /\ SlotStep(s)
       /\ UNCHANGED tree

SpecT == InitT /\ [][NextT]_<<vars, tree>>

-----------------------------------------------------------------------------
(* Properties. *)

(* Both are trees: what is there is reached through directories, and       *)
(* nothing is a file and a directory at once.                              *)
IsTree(regular, directories) ==
  /\ regular \cap directories = {}
  /\ \A path \in regular \cup directories : Ancestors(path) \subseteq directories

TreesOnDisk == IsTree(ObjectFiles, dirs) /\ IsTree(RecordFiles, recordDirs)

InTheWay(p, q) == p \in Ancestors(q) \/ q \in Ancestors(p)

(* Requests for keys that are in nobody's way never fail: a 500 (but for a *)
(* body that breaks off) is explained by another key that is a directory   *)
(* of this one, or has this one for a directory, and has been written to.  *)
FailuresAreConflicts ==
  [][\A s \in Slot :
       resp'[s] = InternalError /\ resp[s] = None /\ pc[s] # "body" =>
         \E l \in placed : InTheWay(K(s), l)]_<<vars, tree>>

(* A record that is there is that of the object as it is, and one that is  *)
(* not was kept out by another key whose record is in its way.             *)
RecordsAreOfTheObjects ==
  \A k \in Key :
    ~Ahead(k) =>
      IF cache[k] = None
        THEN index[k] # None => \E l \in placed : InTheWay(RecordPath(k), RecordPath(l))
        ELSE index[k] # None /\ cache[k] = CacheRecord(index[k])
=============================================================================
