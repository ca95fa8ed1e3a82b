--------------------------- MODULE PathTreeProofs ---------------------------
(***************************************************************************)
(* Theorems about PathTree, for any keys, requests and number of requests  *)
(* in progress, with their proofs: on a real tree the store does nothing   *)
(* it would not do with failures that come for no reason, the objects and  *)
(* the cache records remain trees of files and directories, requests fail  *)
(* only because of other keys, and records are those of the objects.       *)
(***************************************************************************)
EXTENDS PathTree, ObjectStoreProofs, SequenceTheorems

(* A step on the trees is one of the store, whose Fault allows it.         *)
LEMMA TreeStep ==
  ASSUME [NextT]_<<vars, tree>>
  PROVE  [Next]_vars
<1>1. CASE UNCHANGED <<vars, tree>>
  BY <1>1
<1>2. ASSUME NEW s \in Slot,
             CreateInTree(s) \/ RenameInTree(s) \/ SaveInTree(s) \/ UnlinkInTree(s)
      PROVE  Next
  <2>1. PutCreate(s) \/ PutRename(s) \/ PutRenameFails(s) \/ Publish(s)
          \/ DeleteUnlink(s) \/ DeleteUnlinkFails(s)
    BY <1>2 DEF CreateInTree, RenameInTree, SaveInTree, UnlinkInTree
  <2>2. QED
    BY <2>1 DEF Next, SlotStep, Handle
<1>3. ASSUME NEW s \in Slot, SlotStep(s) PROVE Next
  BY <1>3 DEF Next
<1>4. QED
  BY <1>1, <1>2, <1>3 DEF NextT

(* What is proved of the store with failures holds of the store on a tree. *)
THEOREM TreeIsAnObjectStore == SpecT => Spec
<1>1. InitT => Init
  BY DEF InitT
<1>2. [NextT]_<<vars, tree>> => [Next]_vars
  BY TreeStep
<1>3. QED
  BY <1>1, <1>2, PTL DEF SpecT, Spec

-----------------------------------------------------------------------------
(* Trees. *)

(* The directories on the way to a directory are on the way to what is in  *)
(* it, and nothing is on the way to itself.                                *)
LEMMA AncestorsOfAncestors ==
  ASSUME NEW S, NEW path \in Seq(S)
  PROVE  /\ path \notin Ancestors(path)
         /\ \A d \in Ancestors(path) : Ancestors(d) \subseteq Ancestors(path)
<1>1. ASSUME NEW n \in 1 .. Len(path) - 1
      PROVE  /\ SubSeq(path, 1, n) \in Seq(S)
             /\ Len(SubSeq(path, 1, n)) = n
  BY SubSeqProperties
<1>2. path \notin Ancestors(path)
  BY <1>1 DEF Ancestors
<1>3. ASSUME NEW n \in 1 .. Len(path) - 1, NEW a \in Ancestors(SubSeq(path, 1, n))
      PROVE  a \in Ancestors(path)
  <2>1. PICK m \in 1 .. n - 1 : a = SubSeq(SubSeq(path, 1, n), 1, m)
    BY <1>1, <1>3 DEF Ancestors
  <2>2. SubSeq(SubSeq(path, 1, n), 1, m) = SubSeq(path, 1, m)
    BY SubSeqOfSubSeq
  <2>3. QED
    BY <2>1, <2>2 DEF Ancestors
<1>4. QED
  BY <1>2, <1>3 DEF Ancestors

(* create_dir_all keeps a tree, and reaches what it can reach.             *)
LEMMA ParentsKeepTree ==
  ASSUME NEW S, NEW path \in Seq(S), NEW regular, NEW directories, IsTree(regular, directories)
  PROVE  IsTree(regular, WithParents(path, regular, directories))
<1>1. CASE Ancestors(path) \cap regular # {}
  BY <1>1 DEF WithParents
<1>2. CASE Ancestors(path) \cap regular = {}
  BY <1>2, AncestorsOfAncestors DEF WithParents, Made, IsTree
<1>3. QED
  BY <1>1, <1>2

(* A file is added to a directory, or files are removed.                   *)
LEMMA FilesKeepTree ==
  ASSUME NEW path, NEW regular, NEW more, NEW directories, IsTree(regular, directories),
         \/ more \subseteq regular
         \/ /\ more \subseteq regular \cup {path}
            /\ Ancestors(path) \subseteq directories /\ path \notin directories
  PROVE  IsTree(more, directories)
BY DEF IsTree

-----------------------------------------------------------------------------
(* Directories are never removed, so those a PUT has made for its          *)
(* temporary file are still there when it renames it.                      *)
TempReachable ==
  \A s \in Slot : pc[s] \in {"body", "commit", "rename"} => Ancestors(K(s)) \subseteq dirs

StillTrees == TreesOnDisk /\ TempReachable

OthersReach(s) == \A t \in Slot \ {s} : pc'[t] = pc[t] /\ req'[t] = req[t]

LEMMA ReachableKept ==
  ASSUME TempReachable, NEW s \in Slot, OthersReach(s), dirs \subseteq dirs',
         pc'[s] \in {"body", "commit", "rename"} => Ancestors(K(s)') \subseteq dirs'
  PROVE  TempReachable'
BY DEF TempReachable, OthersReach, K

(* All but the four operations on the trees only remove records.           *)
LEMMA OtherStep ==
  ASSUME Typed, NEW s \in Slot, SlotStep(s), pc[s] \notin {"create", "rename", "save", "unlink"}
  PROVE  /\ UNCHANGED disk
         /\ cache' = cache \/ cache' = [cache EXCEPT ![K(s)] = None]
         /\ RecordFiles' \subseteq RecordFiles
         /\ OthersReach(s)
         /\ pc'[s] \in {"body", "commit", "rename"} =>
              pc[s] \in {"body", "commit"} /\ UNCHANGED req
<1> USE DEF Typed, TypeOK, Goto, OthersReach, files, Finish
<1>1. /\ UNCHANGED disk
      /\ OthersReach(s)
      /\ pc'[s] \in {"body", "commit", "rename"} =>
           pc[s] \in {"body", "commit"} /\ UNCHANGED req
  <2>1. CASE \E r \in Request : Receive(s, r)
    BY <2>1 DEF Receive
  <2>2. CASE PutReceive(s)
    BY <2>2 DEF PutReceive
  <2>3. CASE PutBreak(s)
    BY <2>3 DEF PutBreak
  <2>4. CASE Reject(s)
    BY <2>4 DEF Reject
  <2>5. CASE \/ Dispatch(s, "put", "resolve") \/ Dispatch(s, "delete", "evaluate")
             \/ Dispatch(s, "get", "lookup") \/ Dispatch(s, "add_header", "annotate")
    BY <2>5 DEF Dispatch, Await
  <2>6. CASE PutResolve(s)
    BY <2>6 DEF PutResolve
  <2>7. CASE PutEarlyCheck(s)
    BY <2>7 DEF PutEarlyCheck
  <2>8. CASE PutReceived(s)
    BY <2>8 DEF PutReceived, Await
  <2>9. CASE PutCommit(s)
    BY <2>9 DEF PutCommit
  <2>10. CASE PutDiscard(s)
    BY <2>10 DEF PutDiscard
  <2>11. CASE DeleteEvaluate(s)
    BY <2>11 DEF DeleteEvaluate
  <2>12. CASE DeleteForget(s)
    BY <2>12 DEF DeleteForget
  <2>13. CASE GetLookup(s)
    BY <2>13 DEF GetLookup
  <2>14. CASE GetOpen(s) \/ GetOpenFails(s)
    BY <2>14 DEF GetOpen, GetOpenFails
  <2>15. CASE AddHeader(s)
    BY <2>15 DEF AddHeader
  <2>16. CASE Return(s)
    BY <2>16 DEF Return
  <2>17. CASE PutCreate(s) \/ PutRename(s) \/ PutRenameFails(s) \/ Publish(s)
                \/ DeleteUnlink(s) \/ DeleteUnlinkFails(s)
    BY <2>17 DEF PutCreate, PutRename, PutRenameFails, Publish, DeleteUnlink, DeleteUnlinkFails
  <2>18. QED
    BY <2>1, <2>2, <2>3, <2>4, <2>5, <2>6, <2>7, <2>8, <2>9, <2>10, <2>11, <2>12, <2>13,
       <2>14, <2>15, <2>16, <2>17 DEF SlotStep, Handle
<1>2. cache' = cache \/ cache' = [cache EXCEPT ![K(s)] = None]
  BY DEF SlotStep, Handle, Receive, PutReceive, PutBreak, Return, Reject, Dispatch, PutResolve,
         PutEarlyCheck, PutCreate, PutReceived, PutCommit, PutRename, PutRenameFails, Publish,
         PutDiscard, DeleteEvaluate, DeleteUnlink, DeleteUnlinkFails, DeleteForget, RemoveRecord,
         GetLookup, GetOpen, GetOpenFails, AddHeader
<1>3. RecordFiles' \subseteq RecordFiles
  BY <1>2 DEF RecordFiles
<1>4. QED
  BY <1>1, <1>2, <1>3

LEMMA CreateKeepsTrees ==
  ASSUME Typed, StillTrees, NEW s \in Slot, CreateInTree(s)
  PROVE  StillTrees'
<1> USE DEF Typed, TypeOK, StillTrees, TreesOnDisk
<1>1. /\ UNCHANGED <<ObjectFiles, RecordFiles, recordDirs>> /\ OthersReach(s) /\ UNCHANGED req
      /\ K(s) \in Seq(STRING)
      /\ pc'[s] = "body" \/ pc'[s] = "done"
  BY TreeAssumption DEF CreateInTree, PutCreate, files, ObjectFiles, RecordFiles, OthersReach,
       Goto, Finish, HandlersOnTrack
<1>2. dirs' = WithParents(K(s), ObjectFiles, dirs)
  BY DEF CreateInTree
<1>3. TreesOnDisk'
  BY <1>1, <1>2, ParentsKeepTree
<1>4. dirs \subseteq dirs'
  BY <1>2 DEF WithParents
<1>5. pc'[s] = "body" => Ancestors(K(s)') \subseteq dirs'
  BY <1>1 DEF CreateInTree, CanReach, K
<1>6. TempReachable'
  BY <1>1, <1>4, <1>5, ReachableKept
<1>7. QED
  BY <1>3, <1>6

(* The temporary file's parents are still there, and the object's own name *)
(* is no directory: the renamed file belongs to the tree.                  *)
LEMMA RenameKeepsTrees ==
  ASSUME Typed, StillTrees, NEW s \in Slot, RenameInTree(s)
  PROVE  StillTrees'
<1> USE DEF Typed, TypeOK, StillTrees, TreesOnDisk
<1>1. /\ UNCHANGED <<RecordFiles, dirs, recordDirs>> /\ OthersReach(s)
      /\ pc'[s] \in {"save", "discard"}
      /\ pc[s] = "rename"
  BY DEF RenameInTree, PutRename, PutRenameFails, files, RecordFiles, OthersReach, Goto, tree
<1>2. \/ ObjectFiles' \subseteq ObjectFiles
      \/ ObjectFiles' \subseteq ObjectFiles \cup {K(s)} /\ K(s) \notin dirs
  BY DEF RenameInTree, PutRename, PutRenameFails, files, ObjectFiles
<1>3. Ancestors(K(s)) \subseteq dirs
  BY <1>1 DEF TempReachable
<1>4. IsTree(ObjectFiles', dirs)
  BY <1>2, <1>3, FilesKeepTree
<1>5. TempReachable'
  BY <1>1, ReachableKept
<1>6. QED
  BY <1>1, <1>4, <1>5

LEMMA SaveKeepsTrees ==
  ASSUME Typed, StillTrees, NEW s \in Slot, SaveInTree(s)
  PROVE  StillTrees'
<1> USE DEF Typed, TypeOK, StillTrees, TreesOnDisk
<1> DEFINE path == RecordPath(K(s))
<1>1. /\ UNCHANGED <<ObjectFiles, dirs>> /\ OthersReach(s)
      /\ pc'[s] = "done" /\ K(s) \in Seq(STRING)
      /\ recordDirs' = WithParents(path, RecordFiles, recordDirs)
  BY TreeAssumption DEF SaveInTree, Publish, ObjectFiles, OthersReach, Goto, HandlersOnTrack
<1>2. PICK S : path \in Seq(S)
  <2>1. Front(K(s)) \in Seq(STRING)
    BY <1>1, SubSeqProperties DEF Front
  <2>2. Append(Front(K(s)), K(s)[Len(K(s))] \o ".json")
          \in Seq(STRING \cup {K(s)[Len(K(s))] \o ".json"})
    BY <2>1
  <2>3. QED
    BY <2>2 DEF RecordPath
<1>3. IsTree(RecordFiles, recordDirs')
  BY <1>1, <1>2, ParentsKeepTree
<1>4. \/ RecordFiles' = RecordFiles
      \/ /\ RecordFiles' \subseteq RecordFiles \cup {path}
         /\ CanReach(path, RecordFiles, recordDirs') /\ path \notin recordDirs
  BY DEF SaveInTree, Publish, RecordFiles
<1>5. path \notin recordDirs => path \notin recordDirs'
  BY <1>1, <1>2, AncestorsOfAncestors DEF WithParents, Made
<1>6. IsTree(RecordFiles', recordDirs')
  BY <1>3, <1>4, <1>5, FilesKeepTree DEF CanReach
<1>7. TempReachable'
  BY <1>1, ReachableKept
<1>8. QED
  BY <1>1, <1>6, <1>7

LEMMA UnlinkKeepsTrees ==
  ASSUME Typed, StillTrees, NEW s \in Slot, UnlinkInTree(s)
  PROVE  StillTrees'
<1> USE DEF Typed, TypeOK, StillTrees, TreesOnDisk
<1>1. /\ UNCHANGED <<RecordFiles, dirs, recordDirs>> /\ OthersReach(s)
      /\ pc'[s] \in {"uncache", "done"}
      /\ ObjectFiles' \subseteq ObjectFiles
  BY DEF UnlinkInTree, DeleteUnlink, DeleteUnlinkFails, files, ObjectFiles, RecordFiles,
         OthersReach, Goto, Finish, tree
<1>2. IsTree(ObjectFiles', dirs)
  BY <1>1, FilesKeepTree
<1>3. TempReachable'
  BY <1>1, ReachableKept
<1>4. QED
  BY <1>1, <1>2, <1>3

LEMMA TreesStep ==
  ASSUME Typed, StillTrees, [NextT]_<<vars, tree>>
  PROVE  StillTrees'
<1>1. CASE UNCHANGED <<vars, tree>>
  BY <1>1 DEF StillTrees, TreesOnDisk, TempReachable, ObjectFiles, RecordFiles, K, vars, files,
              local, tree
<1>2. ASSUME NEW s \in Slot, SlotStep(s), UNCHANGED tree,
             pc[s] \notin {"create", "rename", "save", "unlink"}
      PROVE  StillTrees'
  <2>1. UNCHANGED <<dirs, recordDirs, ObjectFiles>> /\ RecordFiles' \subseteq RecordFiles
    BY <1>2, OtherStep DEF tree, ObjectFiles
  <2>2. TreesOnDisk'
    BY <2>1, FilesKeepTree DEF StillTrees, TreesOnDisk
  <2>3. TempReachable'
    BY <1>2, <2>1, OtherStep, ReachableKept DEF StillTrees, TempReachable, K
  <2>4. QED
    BY <2>2, <2>3 DEF StillTrees
<1>3. QED
  BY <1>1, <1>2, CreateKeepsTrees, RenameKeepsTrees, SaveKeepsTrees, UnlinkKeepsTrees DEF NextT

(* The serve directory is empty at the start.                              *)
LEMMA NothingAtFirst ==
  ASSUME InitT
  PROVE  \A k \in Key : disk[k] = None /\ cache[k] = None /\ index[k] = None
<1>1. disk \in [Key -> {None}]
  BY TreeAssumption DEF InitT, Init
<1>2. index = [k \in Key |-> IF disk[k] = None THEN None ELSE EntryOf(disk[k].data, 0, << >>)]
  BY DEF InitT, Init
<1>3. cache = [k \in Key |-> IF index[k] = None THEN None ELSE CacheRecord(index[k])]
  BY DEF InitT, Init
<1>4. QED
  BY <1>1, <1>2, <1>3

LEMMA TreesInit ==
  ASSUME InitT
  PROVE  StillTrees
<1>1. ObjectFiles = {} /\ RecordFiles = {}
  BY NothingAtFirst DEF ObjectFiles, RecordFiles
<1>2. TreesOnDisk
  BY <1>1 DEF InitT, TreesOnDisk, IsTree
<1>3. TempReachable
  BY DEF InitT, Init, TempReachable
<1>4. QED
  BY <1>2, <1>3 DEF StillTrees

(* Objects and cache records remain trees: nothing is ever a file and a    *)
(* directory at once or below a file, whatever keys are put and deleted at *)
(* the same time, though the index knows nothing of directories.           *)
THEOREM TreesRemain == SpecT => []TreesOnDisk
<1>1. InitT => StillTrees
  BY TreesInit
<1>2. Typed /\ StillTrees /\ [NextT]_<<vars, tree>> => StillTrees'
  BY TreesStep
<1>3. StillTrees => TreesOnDisk
  BY DEF StillTrees
<1>4. QED
  BY <1>1, <1>2, <1>3, AlwaysConsistent, TreeIsAnObjectStore, PTL DEF SpecT

-----------------------------------------------------------------------------
(* What is on disk has to do with keys that have been written to: files    *)
(* and records are theirs, directories are on the way to theirs.           *)
FilesArePlaced ==
  /\ \A k \in Key : disk[k] # None \/ cache[k] # None => k \in placed
  /\ \A d \in dirs : \E l \in placed : d \in Ancestors(l)
  /\ \A d \in recordDirs : \E l \in placed : d \in Ancestors(RecordPath(l))

WriterIsPlaced(s) == pc[s] \in {"body", "commit", "rename"} => K(s) \in placed

EverythingIsPlaced == FilesArePlaced /\ \A s \in Slot : WriterIsPlaced(s)

(* A step leaves the other writers where their keys were placed.           *)
LEMMA OthersPlaced ==
  ASSUME EverythingIsPlaced, NEW s \in Slot, OthersReach(s), placed \subseteq placed',
         WriterIsPlaced(s)'
  PROVE  \A t \in Slot : WriterIsPlaced(t)'
BY DEF EverythingIsPlaced, WriterIsPlaced, OthersReach, K

(* The directories a PUT has made are on the way to the key it places.     *)
LEMMA CreatePlaced ==
  ASSUME Typed, EverythingIsPlaced, NEW s \in Slot, CreateInTree(s)
  PROVE  EverythingIsPlaced'
<1> USE DEF Typed, TypeOK
<1>1. /\ UNCHANGED <<disk, cache, req, recordDirs>> /\ OthersReach(s)
      /\ dirs' = WithParents(K(s), ObjectFiles, dirs)
      /\ pc'[s] = "body" \/ (pc'[s] = "done" /\ placed' = placed)
      /\ pc'[s] = "body" => placed' = placed \cup {K(s)}
      /\ placed \subseteq placed'
      /\ pc'[s] = "body" <=> CanReach(K(s), ObjectFiles, dirs')
  <2>1. UNCHANGED <<disk, cache, req>> /\ OthersReach(s) /\ pc'[s] \in {"body", "done"}
    BY DEF CreateInTree, PutCreate, files, OthersReach, Goto, Finish
  <2> HIDE DEF Typed, TypeOK
  <2>2. /\ UNCHANGED recordDirs
        /\ dirs' = WithParents(K(s), ObjectFiles, dirs)
        /\ pc'[s] = "body" <=> CanReach(K(s), ObjectFiles, dirs')
        /\ placed' = IF pc'[s] = "body" THEN placed \cup {K(s)} ELSE placed
    BY DEF CreateInTree
  <2>3. QED
    BY <2>1, <2>2
<1>2. ASSUME NEW d \in dirs' PROVE \E l \in placed' : d \in Ancestors(l)
  <2>1. CASE d \in dirs
    BY <1>1, <2>1 DEF EverythingIsPlaced, FilesArePlaced
  <2>2. CASE d \notin dirs
    <3>1. Ancestors(K(s)) \cap ObjectFiles = {} /\ d \in Ancestors(K(s))
      BY <1>1, <2>2 DEF WithParents, Made
    <3>2. CanReach(K(s), ObjectFiles, dirs')
      BY <1>1, <3>1 DEF WithParents, Made, CanReach
    <3>3. QED
      BY <1>1, <3>1, <3>2
  <2>3. QED
    BY <2>1, <2>2
<1>3. FilesArePlaced'
  BY <1>1, <1>2 DEF EverythingIsPlaced, FilesArePlaced
<1>4. WriterIsPlaced(s)'
  BY <1>1 DEF WriterIsPlaced, K
<1>5. QED
  BY <1>1, <1>3, <1>4, OthersPlaced DEF EverythingIsPlaced

(* An object appears under a key that its temporary file has placed.       *)
LEMMA RenamePlaced ==
  ASSUME Typed, EverythingIsPlaced, NEW s \in Slot, RenameInTree(s)
  PROVE  EverythingIsPlaced'
<1> USE DEF Typed, TypeOK
<1>1. /\ pc[s] = "rename" /\ K(s) \in Key /\ UNCHANGED <<cache, dirs, recordDirs, placed>>
      /\ OthersReach(s) /\ pc'[s] \in {"save", "discard"}
      /\ disk' = disk \/ disk' = [disk EXCEPT ![K(s)] = temp[s]]
  BY DEF RenameInTree, PutRename, PutRenameFails, files, tree, OthersReach, Goto, HandlersOnTrack
<1>2. K(s) \in placed
  BY <1>1 DEF EverythingIsPlaced, WriterIsPlaced
<1>3. FilesArePlaced'
  BY <1>1, <1>2 DEF EverythingIsPlaced, FilesArePlaced
<1>4. WriterIsPlaced(s)'
  BY <1>1 DEF WriterIsPlaced
<1>5. QED
  BY <1>1, <1>3, <1>4, OthersPlaced DEF EverythingIsPlaced

(* An object whose record is being saved has a file, so has been written.  *)
LEMMA SavePlaced ==
  ASSUME Typed, Consistent, EverythingIsPlaced, NEW s \in Slot, SaveInTree(s)
  PROVE  EverythingIsPlaced' /\ K(s) \in placed
<1> USE DEF Typed, TypeOK
<1>1. /\ pc[s] = "save" /\ K(s) \in Key /\ UNCHANGED <<disk, dirs, placed>>
      /\ recordDirs' = WithParents(RecordPath(K(s)), RecordFiles, recordDirs)
      /\ \A k \in Key \ {K(s)} : cache'[k] = cache[k]
      /\ OthersReach(s) /\ pc'[s] = "done"
  BY DEF SaveInTree, Publish, OthersReach, Goto, HandlersOnTrack
<1>2. K(s) \in placed
  BY <1>1 DEF Consistent, WritersDescribe, EverythingIsPlaced, FilesArePlaced
<1>3. FilesArePlaced'
  BY <1>1, <1>2 DEF EverythingIsPlaced, FilesArePlaced, WithParents, Made
<1>4. WriterIsPlaced(s)'
  BY <1>1 DEF WriterIsPlaced
<1>5. QED
  BY <1>1, <1>2, <1>3, <1>4, OthersPlaced DEF EverythingIsPlaced

(* Files that are removed leave what is placed as it is.                   *)
LEMMA UnlinkPlaced ==
  ASSUME Typed, EverythingIsPlaced, NEW s \in Slot, UnlinkInTree(s)
  PROVE  EverythingIsPlaced'
<1> USE DEF Typed, TypeOK
<1>1. /\ K(s) \in Key /\ UNCHANGED <<cache, dirs, recordDirs, placed>>
      /\ OthersReach(s) /\ pc'[s] \in {"uncache", "done"}
      /\ disk' = disk \/ disk' = [disk EXCEPT ![K(s)] = None]
  BY DEF UnlinkInTree, DeleteUnlink, DeleteUnlinkFails, files, tree, OthersReach, Goto, Finish, HandlersOnTrack
<1>2. FilesArePlaced'
  BY <1>1 DEF EverythingIsPlaced, FilesArePlaced
<1>3. WriterIsPlaced(s)'
  BY <1>1 DEF WriterIsPlaced
<1>4. QED
  BY <1>1, <1>2, <1>3, OthersPlaced DEF EverythingIsPlaced

(* So does every other step.                                               *)
LEMMA PlacedStep ==
  ASSUME Typed, Consistent, EverythingIsPlaced, [NextT]_<<vars, tree>>
  PROVE  EverythingIsPlaced'
<1>1. CASE UNCHANGED <<vars, tree>>
  BY <1>1 DEF EverythingIsPlaced, FilesArePlaced, WriterIsPlaced, K, vars, files, local, tree
<1>2. ASSUME NEW s \in Slot, SlotStep(s), UNCHANGED tree,
             pc[s] \notin {"create", "rename", "save", "unlink"}
      PROVE  EverythingIsPlaced'
  <2>1. UNCHANGED <<dirs, recordDirs, placed, disk>> /\ OthersReach(s)
    BY <1>2, OtherStep DEF tree
  <2>2. cache' = cache \/ cache' = [cache EXCEPT ![K(s)] = None]
    BY <1>2, OtherStep
  <2>3. FilesArePlaced'
    BY <2>1, <2>2 DEF EverythingIsPlaced, FilesArePlaced, Typed, TypeOK
  <2>4. WriterIsPlaced(s)'
    BY <1>2, <2>1, OtherStep DEF EverythingIsPlaced, WriterIsPlaced, K
  <2>5. QED
    BY <2>1, <2>3, <2>4, OthersPlaced DEF EverythingIsPlaced
<1>3. QED
  BY <1>1, <1>2, CreatePlaced, RenamePlaced, SavePlaced, UnlinkPlaced DEF NextT

(* Whatever is on disk is there because of a key that was written to.      *)
LEMMA AlwaysPlaced == SpecT => []EverythingIsPlaced
<1>1. InitT => EverythingIsPlaced
  BY TreeAssumption DEF InitT, Init, EverythingIsPlaced, FilesArePlaced, WriterIsPlaced
<1>2. Typed /\ Consistent /\ EverythingIsPlaced /\ [NextT]_<<vars, tree>> => EverythingIsPlaced'
  BY PlacedStep
<1>3. QED
  BY <1>1, <1>2, AlwaysConsistent, TreeIsAnObjectStore, PTL DEF SpecT

-----------------------------------------------------------------------------
(* A handler that is not at one of the four operations on the trees, nor   *)
(* receiving a body, does not fail.                                        *)
LEMMA OthersDoNotFail ==
  ASSUME "open" \notin Fault, Typed, LockDiscipline, Consistent, NEW s \in Slot, SlotStep(s),
         pc[s] \notin {"create", "body", "rename", "save", "unlink"}, resp[s] = None
  PROVE  resp'[s] # InternalError
<1>1. InternalError.code = "InternalError" /\ InternalError # None
  BY DoneType, NoneIsNone DEF InternalError, Refusal, Answer
<1>2. ASSUME req[s] \in Request
      PROVE  \A e \in Entries \cup {None} :
        /\ GetInvalid(req[s]) # InternalError /\ DeleteInvalid(req[s]) # InternalError
        /\ PutInvalid(req[s]) # InternalError /\ AddHeaderInvalid(req[s]) # InternalError
        /\ GetRefused(req[s], e) # InternalError /\ DeleteRefused(req[s], e) # InternalError
        /\ PutRefused(req[s], e) # InternalError /\ AddHeaderRefused(req[s], e) # InternalError
        /\ HeaderDone # InternalError /\ \A data : GetDone(req[s], e, data) # InternalError
  <2>1. TAKE e \in Entries \cup {None}
  <2>2. QED
    BY <1>1, <1>2, OnlyFailuresAre500
<1> USE DEF Typed, TypeOK, Goto, Settle, Finish, Await
<1>3. pc[s] # "idle" => req[s] \in Request
  OBVIOUS
<1>4. K(s) \in Key => index[K(s)] \in Entries \cup {None}
  OBVIOUS
<1>5. CASE (\E r \in Request : Receive(s, r)) \/ Return(s) \/ PutDiscard(s)
  BY <1>1, <1>5 DEF Receive, Return, PutDiscard
<1>6. CASE \/ Dispatch(s, "put", "resolve") \/ Dispatch(s, "delete", "evaluate")
           \/ Dispatch(s, "get", "lookup") \/ Dispatch(s, "add_header", "annotate")
  BY <1>1, <1>6 DEF Dispatch
<1>7. CASE Reject(s)
  BY <1>1, <1>2, <1>3, <1>7 DEF Reject, Invalid, First, RefuseIf
<1>8. CASE PutResolve(s)
  BY <1>1, <1>2, <1>3, <1>8 DEF PutResolve
<1>9. CASE PutEarlyCheck(s) \/ PutCommit(s)
  <2>1. K(s) \in Key
    BY <1>9 DEF PutEarlyCheck, PutCommit, HandlersOnTrack
  <2>2. PutRefused(req[s], index[K(s)]) # InternalError
    BY <1>2, <1>3, <1>4, <1>9, <2>1 DEF PutEarlyCheck, PutCommit
  <2>3. QED
    BY <1>1, <1>9, <2>2 DEF PutEarlyCheck, PutCommit, EarlyRefusal, FinalRefusal
<1>10. CASE DeleteEvaluate(s)
  <2>1. K(s) \in Key
    BY <1>10 DEF DeleteEvaluate, HandlersOnTrack
  <2>2. DeleteRefused(req[s], index[K(s)]) # InternalError
    BY <1>2, <1>3, <1>4, <1>10, <2>1 DEF DeleteEvaluate
  <2>3. QED
    BY <1>1, <1>10, <2>2 DEF DeleteEvaluate, DeleteRefusedNow
<1>11. CASE GetLookup(s)
  <2>1. K(s) \in Key
    BY <1>11 DEF GetLookup, HandlersOnTrack
  <2>2. GetRefused(req[s], index[K(s)]) # InternalError
    BY <1>2, <1>3, <1>4, <1>11, <2>1 DEF GetLookup
  <2>3. QED
    BY <1>1, <1>11, <2>2 DEF GetLookup, GetRefusedNow
<1>12. CASE GetOpen(s)
  BY <1>2, <1>3, <1>12 DEF GetOpen
<1>13. CASE GetOpenFails(s)
  <2>1. /\ pc[s] = "open" /\ disk[K(s)] = None /\ K(s) \in Key /\ entry[s] # None
        /\ entry[s] = index[K(s)] /\ writer = None
    BY <1>13 DEF GetOpenFails, HandlersOnTrack, Consistent, ConditionsHold, LockDiscipline
  <2>2. index[K(s)] = None
    BY <2>1 DEF Consistent, IndexDescribes, Ahead
  <2>3. QED
    BY <2>1, <2>2
<1>14. CASE AddHeader(s)
  <2>1. K(s) \in Key
    BY <1>14 DEF AddHeader, HandlersOnTrack
  <2>2. AddHeaderRefused(req[s], index[K(s)]) # InternalError /\ HeaderDone # InternalError
    BY <1>2, <1>3, <1>4, <1>14, <2>1 DEF AddHeader
  <2>3. QED
    BY <1>14, <2>2 DEF AddHeader, AddHeaderRefusedNow
<1>15. CASE DeleteForget(s)
  BY <1>1, <1>15 DEF DeleteForget
<1>16. CASE PutCreate(s) \/ PutReceive(s) \/ PutBreak(s) \/ PutReceived(s) \/ PutRename(s)
             \/ PutRenameFails(s) \/ Publish(s) \/ DeleteUnlink(s) \/ DeleteUnlinkFails(s)
  BY <1>16 DEF PutCreate, PutReceive, PutBreak, PutReceived, PutRename, PutRenameFails, Publish,
               DeleteUnlink, DeleteUnlinkFails
<1>17. QED
  BY <1>5, <1>6, <1>7, <1>8, <1>9, <1>10, <1>11, <1>12, <1>13, <1>14, <1>15, <1>16
     DEF SlotStep, Handle

(* Each failure has such a key in the way of its own.                      *)
LEMMA FailureStep ==
  ASSUME "open" \notin Fault, Typed, LockDiscipline, Consistent, EverythingIsPlaced,
         [NextT]_<<vars, tree>>, NEW s \in Slot,
         resp'[s] = InternalError, resp[s] = None, pc[s] # "body"
  PROVE  \E l \in placed : InTheWay(K(s), l)
<1>1. InternalError \in Answers /\ InternalError # None
  BY DoneType, NoneIsNone
<1>2. PICK t \in Slot :
        \/ CreateInTree(t) \/ RenameInTree(t) \/ SaveInTree(t) \/ UnlinkInTree(t)
        \/ /\ pc[t] \notin {"create", "rename", "save", "unlink"}
           /\ SlotStep(t)
  <2>1. resp' # resp
    BY <1>1
  <2>2. QED
    BY <2>1 DEF NextT, vars, local
<1>3. t = s
  <2>1. SlotStep(t)
    BY <1>2 DEF CreateInTree, RenameInTree, SaveInTree, UnlinkInTree, SlotStep, Handle
  <2>2. QED
    BY <1>1, <2>1, OnlyOneMoves DEF OthersStay, StayPut
<1> USE DEF Typed, TypeOK
<1>4. CASE CreateInTree(s)
  <2>1. pc'[s] # "body" /\ dirs' = WithParents(K(s), ObjectFiles, dirs)
    BY <1>1, <1>4 DEF CreateInTree, PutCreate, Goto, Finish
  <2>2. ~CanReach(K(s), ObjectFiles, dirs')
    BY <1>4, <2>1 DEF CreateInTree
  <2>3. PICK l \in ObjectFiles : l \in Ancestors(K(s))
    BY <2>1, <2>2 DEF WithParents, Made, CanReach
  <2>4. l \in placed
    BY <2>3 DEF ObjectFiles, EverythingIsPlaced, FilesArePlaced
  <2>5. QED
    BY <2>3, <2>4 DEF InTheWay
<1>5. CASE RenameInTree(s)
  <2>1. K(s) \in dirs
    <3>1. ASSUME PutRename(s) PROVE FALSE
      <4>1. resp'[s] = PutDone(entry[s])
        BY <3>1 DEF PutRename, Settle
      <4>2. PutDone(entry[s]).code = "Ok" /\ InternalError.code = "InternalError"
        BY DEF PutDone, InternalError, Refusal, Answer
      <4>3. QED
        BY <4>1, <4>2
    <3>2. QED
      BY <1>5, <3>1 DEF RenameInTree
  <2>2. QED
    BY <2>1 DEF EverythingIsPlaced, FilesArePlaced, InTheWay
<1>6. CASE SaveInTree(s)
  BY <1>1, <1>6 DEF SaveInTree, Publish
<1>7. CASE UnlinkInTree(s)
  <2>1. UnlinkBlocked(s)
    <3>1. ASSUME DeleteUnlink(s) PROVE FALSE
      <4>1. resp'[s] = DeleteDone
        BY <3>1 DEF DeleteUnlink, Settle
      <4>2. DeleteDone.code = "NoContent" /\ InternalError.code = "InternalError"
        BY DEF DeleteDone, InternalError, Refusal, Answer
      <4>3. QED
        BY <4>1, <4>2
    <3>2. QED
      BY <1>7, <3>1 DEF UnlinkInTree
  <2>2. CASE K(s) \in dirs
    BY <2>2 DEF EverythingIsPlaced, FilesArePlaced, InTheWay
  <2>3. CASE Ancestors(K(s)) \cap ObjectFiles # {}
    <3>1. PICK l \in ObjectFiles : l \in Ancestors(K(s))
      BY <2>3
    <3>2. l \in placed
      BY <3>1 DEF ObjectFiles, EverythingIsPlaced, FilesArePlaced
    <3>3. QED
      BY <3>1, <3>2 DEF InTheWay
  <2>4. QED
    BY <2>1, <2>2, <2>3 DEF UnlinkBlocked
<1>8. CASE pc[s] \notin {"create", "rename", "save", "unlink"} /\ SlotStep(s)
  BY <1>8, OthersDoNotFail
<1>9. QED
  BY <1>2, <1>3, <1>4, <1>5, <1>6, <1>7, <1>8

(* On a tree whose files can be opened, a request fails only because of    *)
(* another key that has been written to and is a directory of this one, or *)
(* has this one for a directory.                                           *)
THEOREM FailuresAreExplained ==
  ASSUME "open" \notin Fault
  PROVE  SpecT => FailuresAreConflicts
<1> DEFINE Explained ==
      \A s \in Slot :
        resp'[s] = InternalError /\ resp[s] = None /\ pc[s] # "body" =>
          \E l \in placed : InTheWay(K(s), l)
<1>1. Typed /\ LockDiscipline /\ Consistent /\ EverythingIsPlaced /\ [NextT]_<<vars, tree>>
        => [Explained]_<<vars, tree>>
  BY FailureStep
<1> HIDE DEF Explained
<1>2. SpecT => [][Explained]_<<vars, tree>>
  BY <1>1, AlwaysConsistent, AlwaysPlaced, TreeIsAnObjectStore, PTL DEF SpecT
<1>3. QED
  BY <1>2 DEF Explained, FailuresAreConflicts

-----------------------------------------------------------------------------
(* Records whose objects nobody is replacing are true, or kept out.        *)
LEMMA SaveKeepsRecords ==
  ASSUME Typed, LockDiscipline, StillTrees, EverythingIsPlaced, RecordsAreOfTheObjects,
         NEW s \in Slot, SaveInTree(s)
  PROVE  RecordsAreOfTheObjects'
<1> DEFINE path == RecordPath(K(s))
           Kept == CanReach(path, RecordFiles, recordDirs') /\ path \notin recordDirs
<1>1. /\ pc[s] = "save" /\ K(s) \in Key /\ entry[s] # None /\ placed' = placed
      /\ index' = [index EXCEPT ![K(s)] = entry[s]]
      /\ \A k \in Key \ {K(s)} : cache'[k] = cache[k]
      /\ cache'[K(s)] = IF Kept THEN CacheRecord(entry[s]) ELSE cache[K(s)]
      /\ recordDirs' = WithParents(path, RecordFiles, recordDirs)
  BY DEF SaveInTree, Publish, Typed, TypeOK, HandlersOnTrack
<1>2. writer = s /\ s # None
  BY <1>1, WriterIsAlone, StoreAssumption DEF Writing
<1>3. \A k \in Key \ {K(s)} : ~Ahead(k)
  BY <1>2 DEF Ahead
<1>4. index'[K(s)] = entry[s] /\ \A k \in Key \ {K(s)} : index'[k] = index[k]
  BY <1>1 DEF Typed, TypeOK
<1>5. CASE Kept
  <2>1. CacheRecord(entry[s]) # None
    BY <1>1, CacheRecordType, NoneIsNone DEF Typed, TypeOK
  <2>2. QED
    BY <1>1, <1>3, <1>4, <1>5, <2>1 DEF RecordsAreOfTheObjects
<1>6. CASE ~Kept
  <2>1. PICK l \in placed : InTheWay(path, RecordPath(l))
    <3>1. CASE path \in recordDirs
      BY <3>1 DEF EverythingIsPlaced, FilesArePlaced, InTheWay
    <3>2. CASE path \notin recordDirs
      <4>1. PICK file \in RecordFiles : file \in Ancestors(path)
        BY <1>1, <1>6, <3>2 DEF CanReach, WithParents, Made
      <4>2. PICK l \in Key : cache[l] # None /\ file = RecordPath(l)
        BY <4>1 DEF RecordFiles
      <4>3. QED
        BY <4>1, <4>2 DEF EverythingIsPlaced, FilesArePlaced, InTheWay
    <3>3. QED
      BY <3>1, <3>2
  <2>2. cache[K(s)] = None
    <3>1. ASSUME cache[K(s)] # None PROVE FALSE
      <4>1. path \in RecordFiles
        BY <1>1, <3>1 DEF RecordFiles
      <4>2. /\ Ancestors(path) \subseteq recordDirs /\ path \notin recordDirs
            /\ Ancestors(path) \cap RecordFiles = {}
        BY <4>1 DEF StillTrees, TreesOnDisk, IsTree
      <4>3. QED
        BY <1>1, <1>6, <4>2 DEF CanReach, WithParents, Made
    <3>2. QED
      BY <3>1
  <2>3. QED
    BY <1>1, <1>3, <1>4, <1>6, <2>1, <2>2 DEF RecordsAreOfTheObjects
<1>7. QED
  BY <1>5, <1>6

(* A DELETE whose record can be removed leaves neither record nor entry.   *)
LEMMA ForgetKeepsRecords ==
  ASSUME "uncache" \notin Fault, Typed, LockDiscipline, RecordsAreOfTheObjects,
         NEW s \in Slot, DeleteForget(s), UNCHANGED tree
  PROVE  RecordsAreOfTheObjects'
<1>1. /\ pc[s] = "uncache" /\ K(s) \in Key /\ placed' = placed
      /\ index' = [index EXCEPT ![K(s)] = None] /\ cache' = [cache EXCEPT ![K(s)] = None]
  BY DEF DeleteForget, RemoveRecord, RemoveEntry, Typed, HandlersOnTrack, tree
<1>2. writer = s /\ s # None
  BY <1>1, WriterIsAlone, StoreAssumption DEF Writing
<1>3. \A k \in Key \ {K(s)} : ~Ahead(k)
  BY <1>2 DEF Ahead
<1>4. QED
  BY <1>1, <1>3 DEF RecordsAreOfTheObjects, Typed, TypeOK

(* The other steps change no record, entry or key that is ahead.           *)
LEMMA RecordsStep ==
  ASSUME "uncache" \notin Fault, Typed, LockDiscipline, Typed', LockDiscipline', StillTrees,
         EverythingIsPlaced, RecordsAreOfTheObjects, [NextT]_<<vars, tree>>
  PROVE  RecordsAreOfTheObjects'
<1>1. CASE UNCHANGED <<vars, tree>>
  BY <1>1 DEF RecordsAreOfTheObjects, Ahead, K, vars, files, lock, local, tree
<1>2. ASSUME NEW s \in Slot, SlotStep(s), ~Publish(s), ~DeleteForget(s), placed \subseteq placed'
      PROVE  RecordsAreOfTheObjects'
  <2>1. pc[s] \notin Between /\ cache' = cache /\ index' = index /\ OthersStay(s)
    BY <1>2, OnlyWritersPublish, OnlyOneMoves DEF StayPut, OthersStay
  <2>2. \A k \in Key : Ahead(k) => Ahead(k)'
    BY <2>1, AheadStays
  <2>3. QED
    BY <1>2, <2>1, <2>2 DEF RecordsAreOfTheObjects
<1>3. ASSUME NEW s \in Slot, CreateInTree(s) \/ RenameInTree(s) \/ UnlinkInTree(s)
      PROVE  SlotStep(s) /\ ~Publish(s) /\ ~DeleteForget(s) /\ placed \subseteq placed'
  <2>1. /\ PutCreate(s) \/ PutRename(s) \/ PutRenameFails(s) \/ DeleteUnlink(s) \/ DeleteUnlinkFails(s)
        /\ placed \subseteq placed'
    BY <1>3 DEF CreateInTree, RenameInTree, UnlinkInTree, tree
  <2>2. pc[s] \in {"create", "rename", "unlink"}
    BY <2>1 DEF PutCreate, PutRename, PutRenameFails, DeleteUnlink, DeleteUnlinkFails
  <2>3. QED
    BY <2>1, <2>2 DEF SlotStep, Handle, Publish, DeleteForget
<1>4. ASSUME NEW s \in Slot, SlotStep(s), UNCHANGED tree, pc[s] # "save"
      PROVE  RecordsAreOfTheObjects'
  <2>1. ~Publish(s) /\ placed \subseteq placed'
    BY <1>4 DEF Publish, tree
  <2>2. QED
    BY <1>2, <1>4, <2>1, ForgetKeepsRecords
<1>5. QED
  BY <1>1, <1>2, <1>3, <1>4, SaveKeepsRecords DEF NextT

(* While records can be removed, what a restart would read of an object    *)
(* nobody is replacing is the object as it is; only another object whose   *)
(* record is in the way keeps a record out.                                *)
THEOREM RecordsAreTrueOnATree ==
  ASSUME "uncache" \notin Fault
  PROVE  SpecT => []RecordsAreOfTheObjects
<1>1. InitT => StillTrees /\ RecordsAreOfTheObjects
  BY TreesInit, NothingAtFirst DEF InitT, Init, RecordsAreOfTheObjects
<1>2. Typed /\ StillTrees /\ [NextT]_<<vars, tree>> => StillTrees'
  BY TreesStep
<1>3. Typed /\ LockDiscipline /\ (Typed /\ LockDiscipline)' /\ StillTrees /\ EverythingIsPlaced
        /\ RecordsAreOfTheObjects /\ [NextT]_<<vars, tree>> => RecordsAreOfTheObjects'
  BY RecordsStep
<1>4. QED
  BY <1>1, <1>2, <1>3, AlwaysConsistent, AlwaysPlaced, TreeIsAnObjectStore, PTL DEF SpecT
=============================================================================
