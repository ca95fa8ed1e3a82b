------------------------- MODULE InterruptionProofs -------------------------
(***************************************************************************)
(* Proofs about handlers that are cut short, at any step of any number of  *)
(* requests: by crashes (Recovery), any number of them, and by their       *)
(* clients, who go away (Disconnects).                                     *)
(***************************************************************************)
EXTENDS Recovery, Disconnects, ObjectStoreProofs

-----------------------------------------------------------------------------
(* Crashes. *)

varsR == <<vars, recovery>>

(* Types, the lock and the handlers' own state, up or down.                *)
TypedR ==
  /\ Typed /\ LockDiscipline /\ Admitted
  /\ up \in BOOLEAN /\ crashes \in 0 .. MaxCrashes
  /\ torn \subseteq Key
  /\ before \in [Key -> Entries \cup {None}]
  /\ ~up => \A s \in Slot : pc[s] = "idle"

(* After a crash nobody is between two steps.                              *)
LEMMA AllIsIdle ==
  ASSUME \A s \in Slot : pc[s] = "idle", TypedR
  PROVE  \A k \in Key : ~Ahead(k)
BY DEF TypedR, Typed, TypeOK, Ahead

(* What the scan of the directory finds are entries and records.           *)
LEMMA ScannedType ==
  ASSUME Typed, NEW k \in Key, disk[k] # None
  PROVE  /\ EntryFromDisk(k) \in Entries
         /\ EntryFromDisk(k).size = Len(disk[k].data)
         /\ EntryFromDisk(k).modified = disk[k].mtime
         /\ CacheHit(k) => /\ EntryFromDisk(k).etag = cache[k].etag
                           /\ EntryFromDisk(k).headers = cache[k].headers
<1>1. disk[k].data \in Seq(Frame) /\ disk[k].mtime \in Nat
  BY StoreAssumption DEF Typed, TypeOK, FileSet
<1>2. Computed(disk[k]) \in Entries
  BY <1>1, EntryOfType, HeadersType DEF Computed
<1>3. Computed(disk[k]).size = Len(disk[k].data) /\ Computed(disk[k]).modified = disk[k].mtime
  BY DEF Computed, EntryOf
<1>4. CacheHit(k) => cache[k] \in Records
  BY DEF CacheHit, Typed, TypeOK
<1>5. QED
  BY <1>2, <1>3, <1>4 DEF EntryFromDisk, Entries, Records

LEMMA CrashTyped ==
  ASSUME TypedR, Crash
  PROVE  TypedR'
<1> USE DEF TypedR, Typed, TypeOK, Crash
<1>1. cache' \in [Key -> Records \cup {None}]
  <2>1. ASSUME NEW k \in Key PROVE RecordsAfterCrash(k) \subseteq Records \cup {None}
    <3>1. Ahead(k) /\ pc[writer] = "save" => entry[writer] \in Entries
      BY DEF Ahead, HandlersOnTrack
    <3>2. QED
      BY <3>1, CacheRecordType DEF RecordsAfterCrash
  <2>2. QED
    BY <2>1
<1>2. litter' \subseteq FileSet
  OBVIOUS
<1>3. crashes' \in 0 .. MaxCrashes /\ up' = FALSE /\ torn' \subseteq Key
  BY MaxCrashesAssumption
<1>4. \A s \in Slot : pc'[s] = "idle" /\ req'[s] = None /\ resp'[s] = None /\ temp'[s] = None
  OBVIOUS
<1>5. TypeOK'
  BY <1>1, <1>2, <1>4 DEF time, Label
<1>6. HandlersOnTrack'
  BY <1>4 DEF HandlersOnTrack, PutLabel, DeleteLabel, GetLabel
<1>7. LockDiscipline'
  BY <1>4 DEF LockDiscipline, Waiting, Writing
<1>8. Admitted'
  BY <1>4 DEF Admitted, AdmittedHere
<1>9. before' \in [Key -> Entries \cup {None}]
  OBVIOUS
<1>10. QED
  BY <1>3, <1>4, <1>5, <1>6, <1>7, <1>8, <1>9

LEMMA RestartTyped ==
  ASSUME TypedR, Restart
  PROVE  TypedR'
<1>1. index' \in [Key -> Entries \cup {None}]
  BY ScannedType DEF Restart, IndexFromDisk, TypedR
<1>2. cache' \in [Key -> Records \cup {None}]
  <2>1. ASSUME NEW k \in Key PROVE RecordsAfterScan(k) \subseteq Records \cup {None}
    BY ScannedType, CacheRecordType DEF RecordsAfterScan, TypedR, Typed, TypeOK
  <2>2. QED
    BY <2>1 DEF Restart
<1>3. TypeOK'
  BY <1>1, <1>2 DEF Restart, TypedR, Typed, TypeOK, time, lock, local
<1>4. HandlersOnTrack' /\ LockDiscipline' /\ Admitted'
  BY DEF Restart, TypedR, Typed, HandlersOnTrack, LockDiscipline, Admitted, AdmittedHere,
         SoFar, Whole, K, EntryWritten, local, lock
<1>5. QED
  BY <1>3, <1>4 DEF Restart, TypedR, Typed

LEMMA HandlersTyped ==
  ASSUME TypedR, (up /\ Next) \/ UNCHANGED vars, UNCHANGED recovery
  PROVE  TypedR'
<1>1. Typed' /\ LockDiscipline'
  BY TypedStep, LockStep DEF TypedR
<1>2. Admitted'
  BY AdmittedStep DEF TypedR
<1>3. UNCHANGED vars => pc' = pc
  BY DEF vars, local
<1>4. QED
  BY <1>1, <1>2, <1>3 DEF TypedR, recovery

LEMMA AlwaysTypedR == SpecR => []TypedR
<1>1. InitR => TypedR
  <2> SUFFICES ASSUME InitR PROVE TypedR
    OBVIOUS
  <2>1. Typed /\ LockDiscipline
    BY TypedInit, LockInit DEF InitR
  <2>2. Admitted
    BY DEF InitR, Init, Admitted, AdmittedHere
  <2>3. QED
    BY <2>1, <2>2, MaxCrashesAssumption DEF InitR, TypedR, Typed, TypeOK
<1>2. TypedR /\ [NextR]_varsR => TypedR'
  <2> SUFFICES ASSUME TypedR, [NextR]_varsR PROVE TypedR'
    OBVIOUS
  <2>1. CASE up /\ Next /\ UNCHANGED recovery
    BY <2>1, HandlersTyped
  <2>2. CASE UNCHANGED varsR
    BY <2>2, HandlersTyped DEF varsR
  <2>3. QED
    BY <2>1, <2>2, CrashTyped, RestartTyped DEF NextR
<1>3. QED
  BY <1>1, <1>2, PTL DEF SpecR, varsR

(* Crashes and restarts leave a well-typed state and a free lock, whatever *)
(* step of whatever handlers they cut off.                                 *)
THEOREM TypeCorrectR == SpecR => []TypeOKR
<1>1. TypedR => TypeOKR
  BY DEF TypedR, Typed, TypeOKR
<1>2. QED
  BY <1>1, AlwaysTypedR, PTL

-----------------------------------------------------------------------------
(* An ETag may be the MD5 of a file's content, of its parts, or, after a    *)
(* restart, what the record of an earlier file of that second says.        *)
AnyEtag == Etags \X Seq(Frame)

DescribedBy(e, k) == disk[k] # None /\ Describes(e, disk[k], AnyEtag)

(* Every file is one whole body; the index, and the entry of a writer whose *)
(* rename is done, have its size and time.                                 *)
FilesAreWhole == \A k \in Key : disk[k] # None => disk[k].data \in Bodies(k)

Described ==
  /\ FilesAreWhole
  /\ up => IndexDescribes(AnyEtag)
  /\ WritersDescribe(AnyEtag)

LEMMA Md5IsAnEtag == \A data \in Seq(Frame) : <<Md5(data), data>> \in AnyEtag
BY DEF AnyEtag, Md5, Etags

(* What is renamed into place is one whole body.                           *)
LEMMA FilesWholeStep ==
  ASSUME TypedR, FilesAreWhole, NEW s \in Slot, SlotStep(s)
  PROVE  FilesAreWhole'
<1> USE DEF TypedR
<1>1. CASE AddHeader(s) /\ AddHeaderRefusedNow(s) = None
  BY <1>1 DEF AddHeader, files, FilesAreWhole, Bodies
<1>2. CASE PutRename(s)
  <2>1. /\ pc[s] = "rename" /\ K(s) \in Key /\ temp[s] # None
        /\ req[s] \in Request /\ req[s].op = "put"
        /\ disk' = [disk EXCEPT ![K(s)] = temp[s]]
    BY <1>2 DEF PutRename, Typed, TypeOK, HandlersOnTrack, PutLabel
  <2>2. temp[s].data \in Bodies(K(s))
    BY <2>1 DEF Admitted, AdmittedHere, Whole, Bodies, K
  <2>3. QED
    BY <2>1, <2>2 DEF FilesAreWhole, Bodies, Typed, TypeOK
<1>3. CASE DeleteUnlink(s)
  BY <1>3 DEF DeleteUnlink, FilesAreWhole, Bodies, Typed, TypeOK
<1>4. CASE ~PutRename(s) /\ ~DeleteUnlink(s) /\ ~(AddHeader(s) /\ AddHeaderRefusedNow(s) = None)
  BY <1>4, OnlyWritersMoveFiles DEF FilesAreWhole, Bodies
<1>5. QED
  BY <1>1, <1>2, <1>3, <1>4

LEMMA RestartDescribed ==
  ASSUME TypedR, Described, Restart
  PROVE  Described'
<1>1. /\ disk' = disk /\ index' = IndexFromDisk /\ writer' = writer /\ pc' = pc /\ req' = req
      /\ \A s \in Slot : pc[s] = "idle"
  BY DEF Restart, lock, local, TypedR
<1>2. IndexDescribes(AnyEtag)'
  <2>1. ASSUME NEW k \in Key, disk[k] # None
        PROVE  IndexFromDisk[k] # None /\ Describes(IndexFromDisk[k], disk[k], AnyEtag)
    <3>1. /\ IndexFromDisk[k] = EntryFromDisk(k) /\ EntryFromDisk(k) \in Entries
          /\ EntryFromDisk(k).size = Len(disk[k].data)
          /\ EntryFromDisk(k).modified = disk[k].mtime
      BY <2>1, ScannedType DEF IndexFromDisk, TypedR
    <3>2. EntryFromDisk(k).etag \in Etags
      BY <3>1 DEF Entries
    <3>3. disk[k].data \in Seq(Frame)
      BY <2>1 DEF TypedR, Typed, TypeOK, FileSet
    <3>4. QED
      BY <3>1, <3>2, <3>3, NoneIsNone DEF Describes, AnyEtag
  <2>2. \A k \in Key : disk[k] = None => IndexFromDisk[k] = None
    BY DEF IndexFromDisk
  <2>3. QED
    BY <1>1, <2>1, <2>2 DEF IndexDescribes
<1>3. WritersDescribe(AnyEtag)'
  BY <1>1 DEF WritersDescribe
<1>4. QED
  BY <1>1, <1>2, <1>3 DEF Described, FilesAreWhole, Bodies

LEMMA AlwaysDescribed == SpecR => []Described
<1>1. InitR => Described
  <2> SUFFICES ASSUME InitR PROVE Described
    OBVIOUS
  <2>1. FilesAreWhole
    BY DEF InitR, Init, FilesAreWhole, Bodies, File
  <2>2. QED
    BY <2>1, Md5IsAnEtag, DescribedInit DEF InitR, Described
<1>2. TypedR /\ TypedR' /\ Described /\ [NextR]_varsR => Described'
  <2> SUFFICES ASSUME TypedR, TypedR', Described, [NextR]_varsR PROVE Described'
    OBVIOUS
  <2>1. CASE UNCHANGED varsR
    BY <2>1 DEF varsR, vars, recovery, files, lock, local, Described, FilesAreWhole, Bodies,
                IndexDescribes, WritersDescribe, Ahead, K
  <2>2. CASE up /\ Tick /\ UNCHANGED recovery
    BY <2>2 DEF Tick, recovery, files, lock, local, Described, FilesAreWhole, Bodies,
                IndexDescribes, WritersDescribe, Ahead, K
  <2>3. ASSUME up, UNCHANGED recovery, NEW s \in Slot, SlotStep(s) PROVE Described'
    <3>1. FilesAreWhole'
      BY <2>3, FilesWholeStep DEF Described
    <3>2. IndexDescribes(AnyEtag)' /\ WritersDescribe(AnyEtag)'
      BY <2>3, Md5IsAnEtag, DescribedStep DEF Described, TypedR
    <3>3. QED
      BY <3>1, <3>2 DEF Described
  <2>4. CASE Crash
    BY <2>4 DEF Crash, Described, FilesAreWhole, Bodies, WritersDescribe
  <2>5. QED
    BY <2>1, <2>2, <2>3, <2>4, RestartDescribed DEF NextR, Next
<1>3. QED
  BY <1>1, <1>2, AlwaysTypedR, PTL DEF SpecR, varsR

(* Crashes or not: an object is one whole body that was there or was sent  *)
(* under its key, never part of one or two mixed, and its size and time    *)
(* are the file's.                                                         *)
THEOREM ObjectsAreWhole == SpecR => []WholeObjects
<1>1. Described => WholeObjects
  BY DEF Described, FilesAreWhole, IndexDescribes, Describes, WholeObjects
<1>2. QED
  BY <1>1, AlwaysDescribed, PTL

-----------------------------------------------------------------------------
(* While the server is up, the record of an object is that of its entry;   *)
(* while it is down, what was served is what file and record still say.    *)
RecordsTrue ==
  /\ up => \A k \in Key : ~Ahead(k) /\ index[k] # None => cache[k] = CacheRecord(index[k])
  /\ ~up => \A k \in Key \ torn :
       IF disk[k] = None
         THEN before[k] = None
         ELSE before[k] # None /\ DescribedBy(before[k], k) /\ cache[k] = CacheRecord(before[k])

LEMMA RecordsStep ==
  ASSUME "save" \notin Fault, TypedR, TypedR', RecordsTrue, up, up', NEW s \in Slot, SlotStep(s)
  PROVE  RecordsTrue'
<1> USE DEF TypedR
<1>1. OthersStay(s)
  BY OnlyOneMoves
<1>2. CASE ~Publish(s) /\ ~DeleteForget(s)
  BY <1>1, <1>2, OnlyWritersPublish, AheadStays DEF RecordsTrue
<1>3. CASE Publish(s) \/ DeleteForget(s)
  <2>1. /\ pc[s] \in Between /\ K(s) \in Key
        /\ \/ /\ index' = [index EXCEPT ![K(s)] = entry[s]]
              /\ cache' = [cache EXCEPT ![K(s)] = CacheRecord(entry[s])]
           \/ /\ index' = [index EXCEPT ![K(s)] = None]
              /\ \/ cache' = [cache EXCEPT ![K(s)] = None]
                 \/ cache' = cache
    BY <1>3 DEF Publish, SaveOutcomes, DeleteForget, RemoveRecord, RemoveEntry, Typed, TypeOK,
                HandlersOnTrack, Between
  <2>2. writer = s
    BY <2>1 DEF LockDiscipline, Writing, Between
  <2>3. \A k \in Key \ {K(s)} : ~Ahead(k)
    BY <2>2, OthersAreNotBetween
  <2>4. QED
    BY <2>1, <2>3 DEF RecordsTrue, Typed, TypeOK
<1>4. QED
  BY <1>2, <1>3

(* An object whose file and record are those of an entry is served with    *)
(* that entry after a restart.                                             *)
LEMMA SameEntryAgain ==
  ASSUME Typed, NEW k \in Key, NEW e \in Entries, DescribedBy(e, k), cache[k] = CacheRecord(e)
  PROVE  EntryFromDisk(k) = e
<1>1. cache[k] \in Records /\ cache[k] # None
  BY CacheRecordType, NoneIsNone
<1>2. cache[k].secs = Secs(disk[k].mtime) /\ cache[k].etag = e.etag /\ cache[k].headers = e.headers
  BY DEF CacheRecord, DescribedBy, Describes
<1>3. CacheHit(k)
  BY <1>1, <1>2 DEF CacheHit
<1>4. /\ EntryFromDisk(k) \in Entries
      /\ EntryFromDisk(k).size = e.size /\ EntryFromDisk(k).modified = e.modified
      /\ EntryFromDisk(k).etag = e.etag /\ EntryFromDisk(k).headers = e.headers
  BY <1>2, <1>3, ScannedType DEF DescribedBy, Describes
<1>5. QED
  BY <1>4 DEF Entries

(* Whether a record was valid or is fresh, it is that of the entry served. *)
LEMMA RestartRecordsTrue ==
  ASSUME "save" \notin Fault, TypedR, Restart
  PROVE  RecordsTrue'
<1>1. ASSUME NEW k \in Key, index'[k] # None PROVE cache'[k] = CacheRecord(index'[k])
  <2>1. disk[k] # None /\ index'[k] = EntryFromDisk(k) /\ cache'[k] \in RecordsAfterScan(k)
    BY <1>1 DEF Restart, IndexFromDisk
  <2>2. CASE ~CacheHit(k)
    BY <2>1, <2>2 DEF RecordsAfterScan
  <2>3. CASE CacheHit(k)
    <3>1. cache'[k] = cache[k] /\ cache[k] \in Records /\ cache[k].secs = Secs(disk[k].mtime)
      BY <2>1, <2>3 DEF RecordsAfterScan, CacheHit, TypedR, Typed, TypeOK
    <3>2. /\ EntryFromDisk(k).modified = disk[k].mtime
          /\ EntryFromDisk(k).etag = cache[k].etag /\ EntryFromDisk(k).headers = cache[k].headers
      BY <2>1, <2>3, ScannedType DEF TypedR
    <3>3. QED
      BY <2>1, <3>1, <3>2 DEF CacheRecord, Records
  <2>4. QED
    BY <2>2, <2>3
<1>2. up'
  BY DEF Restart
<1>3. QED
  BY <1>1, <1>2 DEF RecordsTrue

LEMMA CrashRecordsTrue ==
  ASSUME TypedR, Described, RecordsTrue, Crash
  PROVE  RecordsTrue'
<1>1. /\ ~up' /\ up /\ before' = index /\ disk' = disk
      /\ \A k \in Key : k \in torn' <=> Ahead(k)
      /\ \A k \in Key : cache'[k] \in RecordsAfterCrash(k)
  BY DEF Crash
<1>2. \A k \in Key : ~Ahead(k) => cache'[k] = cache[k]
  BY <1>1 DEF RecordsAfterCrash
<1>3. QED
  BY <1>1, <1>2 DEF RecordsTrue, Described, IndexDescribes, DescribedBy

LEMMA AlwaysRecordsTrue ==
  ASSUME "save" \notin Fault
  PROVE  SpecR => []RecordsTrue
<1>1. InitR => RecordsTrue
  BY DEF InitR, Init, RecordsTrue
<1>2. TypedR /\ TypedR' /\ Described /\ RecordsTrue /\ [NextR]_varsR => RecordsTrue'
  <2> SUFFICES ASSUME TypedR, TypedR', Described, RecordsTrue, [NextR]_varsR PROVE RecordsTrue'
    OBVIOUS
  <2>1. CASE UNCHANGED varsR
    BY <2>1 DEF varsR, vars, recovery, files, lock, local, RecordsTrue, DescribedBy, Ahead, K
  <2>2. CASE up /\ Tick /\ UNCHANGED recovery
    BY <2>2 DEF Tick, recovery, files, lock, local, RecordsTrue, DescribedBy, Ahead, K
  <2>3. ASSUME up, UNCHANGED recovery, NEW s \in Slot, SlotStep(s) PROVE RecordsTrue'
    BY <2>3, RecordsStep DEF recovery
  <2>4. QED
    BY <2>1, <2>2, <2>3, CrashRecordsTrue, RestartRecordsTrue DEF NextR, Next
<1>3. QED
  BY <1>1, <1>2, AlwaysTypedR, AlwaysDescribed, PTL DEF SpecR, varsR

(* While saves to the metadata cache succeed, every object that was not    *)
(* being committed in the crash is served after the restart with the       *)
(* entry it had: content, ETag, time and user metadata.                    *)
THEOREM RestartsKeepObjects ==
  ASSUME "save" \notin Fault
  PROVE  SpecR => RestartKeepsObjects
<1> DEFINE Kept == ~up /\ up' => \A k \in Key \ torn : index'[k] = before[k]
<1>1. TypedR /\ RecordsTrue /\ [NextR]_varsR => Kept
  <2> SUFFICES ASSUME TypedR, RecordsTrue, [NextR]_varsR, ~up, up', NEW k \in Key \ torn
               PROVE  index'[k] = before[k]
    OBVIOUS
  <2>1. Restart
    BY DEF NextR, Crash, varsR, recovery
  <2>2. index'[k] = IF disk[k] = None THEN None ELSE EntryFromDisk(k)
    BY <2>1 DEF Restart, IndexFromDisk
  <2>3. CASE disk[k] = None
    BY <2>2, <2>3 DEF RecordsTrue
  <2>4. CASE disk[k] # None
    <3>1. before[k] \in Entries /\ DescribedBy(before[k], k) /\ cache[k] = CacheRecord(before[k])
      BY <2>4 DEF RecordsTrue, TypedR
    <3>2. QED
      BY <2>2, <2>4, <3>1, SameEntryAgain DEF TypedR
  <2>5. QED
    BY <2>3, <2>4
<1>2. TypedR /\ RecordsTrue /\ [NextR]_varsR => [Kept]_varsR
  BY <1>1
<1> HIDE DEF Kept
<1>3. SpecR => [][Kept]_varsR
  BY <1>2, AlwaysTypedR, AlwaysRecordsTrue, PTL DEF SpecR, varsR
<1>4. QED
  BY <1>3 DEF Kept, RestartKeepsObjects, varsR

-----------------------------------------------------------------------------
(* Clients that go away, at any step of any number of requests.            *)

(* Giving up a place in the queue takes nobody else's.                     *)
LEMMA QueueLeft ==
  ASSUME NEW q \in Seq(Slot), Once(q), NEW i \in DOMAIN q
  PROVE  /\ RemoveAt(q, i) \in Seq(Slot)
         /\ Once(RemoveAt(q, i))
         /\ Queued(RemoveAt(q, i)) = Queued(q) \ {q[i]}
<1> DEFINE front == SubSeq(q, 1, i - 1)
           back == SubSeq(q, i + 1, Len(q))
           p == RemoveAt(q, i)
<1>1. /\ Len(q) \in Nat /\ DOMAIN q = 1 .. Len(q) /\ i \in 1 .. Len(q)
      /\ \A j \in 1 .. Len(q) : q[j] \in Slot
  OBVIOUS
<1>2. /\ front \in Seq(Slot) /\ Len(front) = i - 1
      /\ \A j \in 1 .. i - 1 : front[j] = q[j]
  <2>1. \A j \in 1 .. i - 1 : q[j] \in Slot
    BY <1>1
  <2>2. QED
    BY <1>1, <2>1, SubSeqProperties
<1>3. /\ back \in Seq(Slot) /\ Len(back) = Len(q) - i
      /\ \A j \in 1 .. Len(q) - i : back[j] = q[i + j]
  <2>1. \A j \in i + 1 .. Len(q) : q[j] \in Slot
    BY <1>1
  <2>2. /\ back \in Seq(Slot) /\ Len(back) = IF i + 1 <= Len(q) THEN Len(q) - (i + 1) + 1 ELSE 0
        /\ \A j \in 1 .. Len(q) - (i + 1) + 1 : back[j] = q[(i + 1) + j - 1]
    BY <1>1, <2>1, SubSeqProperties
  <2> HIDE DEF back
  <2>3. Len(back) = Len(q) - i
    BY <1>1, <2>2
  <2>4. ASSUME NEW j \in 1 .. Len(q) - i PROVE back[j] = q[i + j]
    <3>1. (i + 1) + j - 1 = i + j /\ j \in 1 .. Len(q) - (i + 1) + 1
      BY <1>1
    <3>2. QED
      BY <2>2, <3>1
  <2>5. QED
    BY <2>2, <2>3, <2>4
<1> HIDE DEF front, back
<1>4. /\ p \in Seq(Slot) /\ Len(p) = Len(q) - 1 /\ DOMAIN p = 1 .. Len(q) - 1
      /\ \A j \in 1 .. Len(q) - 1 : p[j] = IF j < i THEN q[j] ELSE q[j + 1]
  <2>0. p = front \o back
    BY DEF RemoveAt, front, back
  <2> HIDE DEF p
  <2>1. /\ p \in Seq(Slot) /\ Len(p) = Len(front) + Len(back)
        /\ \A j \in 1 .. Len(front) + Len(back) :
             p[j] = IF j <= Len(front) THEN front[j] ELSE back[j - Len(front)]
    BY <1>2, <1>3, <2>0, ConcatProperties
  <2>2. DOMAIN p = 1 .. Len(p) /\ Len(p) = Len(q) - 1
    BY <1>1, <1>2, <1>3, <2>1
  <2>3. ASSUME NEW j \in 1 .. Len(q) - 1 PROVE p[j] = IF j < i THEN q[j] ELSE q[j + 1]
    <3>1. CASE j < i
      BY <1>1, <1>2, <2>1, <2>2, <3>1
    <3>2. CASE ~(j < i)
      <4>1. j - (i - 1) \in 1 .. Len(q) - i /\ i + (j - (i - 1)) = j + 1 /\ ~(j <= i - 1)
        BY <1>1, <3>2
      <4>2. p[j] = back[j - (i - 1)]
        <5>1. Len(front) + Len(back) = Len(q) - 1
          BY <1>1, <1>2, <1>3
        <5>2. QED
          BY <1>2, <2>1, <4>1, <5>1
      <4>3. QED
        BY <1>3, <3>2, <4>1, <4>2
    <3>3. QED
      BY <3>1, <3>2
  <2>4. QED
    BY <2>1, <2>2, <2>3
<1> HIDE DEF p
<1>5. Once(p)
  <2>1. ASSUME NEW j \in DOMAIN p, NEW k \in DOMAIN p, p[j] = p[k] PROVE j = k
    <3> DEFINE at(n) == IF n < i THEN n ELSE n + 1
    <3>1. /\ at(j) \in DOMAIN q /\ at(k) \in DOMAIN q
          /\ p[j] = q[at(j)] /\ p[k] = q[at(k)]
      BY <1>1, <1>4
    <3>2. at(j) = at(k)
      BY <2>1, <3>1 DEF Once
    <3>3. QED
      BY <1>1, <1>4, <3>2
  <2>2. QED
    BY <2>1 DEF Once
<1>6. ASSUME NEW x \in Queued(p) PROVE x \in Queued(q) \ {q[i]}
  <2>1. PICK j \in 1 .. Len(q) - 1 : p[j] = x
    BY <1>4, <1>6 DEF Queued
  <2>2. PICK n \in 1 .. Len(q) : q[n] = x /\ n # i
    <3>1. CASE j < i
      BY <1>1, <1>4, <2>1, <3>1
    <3>2. CASE ~(j < i)
      <4>1. j + 1 \in 1 .. Len(q) /\ j + 1 # i /\ q[j + 1] = x
        BY <1>1, <1>4, <2>1, <3>2
      <4>2. QED
        BY <4>1
    <3>3. QED
      BY <3>1, <3>2
  <2>3. QED
    BY <1>1, <2>2 DEF Once, Queued
<1>7. ASSUME NEW x \in Queued(q), x # q[i] PROVE x \in Queued(p)
  <2>1. PICK j \in 1 .. Len(q) : q[j] = x
    BY <1>1, <1>7 DEF Queued
  <2>2. CASE j < i
    <3>1. j \in DOMAIN p /\ p[j] = x
      BY <1>1, <1>4, <2>1, <2>2
    <3>2. QED
      BY <3>1 DEF Queued
  <2>3. CASE j > i
    <3>1. j - 1 \in DOMAIN p /\ p[j - 1] = x
      BY <1>1, <1>4, <2>1, <2>3
    <3>2. QED
      BY <3>1 DEF Queued
  <2>4. QED
    BY <1>1, <1>7, <2>1, <2>2, <2>3
<1>8. QED
  BY <1>4, <1>5, <1>6, <1>7 DEF p

(* The file operations that go on by themselves are well typed, too.       *)
OrphanType ==
  \A o \in orphans :
    /\ o.key \in Key
    /\ IF o.op = "save" THEN o.value \in Records \cup {None} ELSE o.value \in FileSet \cup {None}

TypedD == Typed /\ LockDiscipline /\ OrphanType

(* What goes on and what is left behind when a handler is dropped.         *)
LEMMA WhatRemains ==
  ASSUME TypedD, NEW s \in Slot, Watched(s)
  PROVE  /\ \A running \in RunsOn(s) : \A o \in running :
              /\ o.key \in Key
              /\ IF o.op = "save" THEN o.value \in Records \cup {None}
                                  ELSE o.value \in FileSet \cup {None}
         /\ \A left \in Leftovers(s) : left \subseteq FileSet
<1> USE DEF TypedD, Typed, TypeOK, HandlersOnTrack
<1>1. pc[s] \in {"rename", "save", "unlink", "uncache"} => K(s) \in Key
  OBVIOUS
<1>2. pc[s] = "rename" => temp[s] \in FileSet
  OBVIOUS
<1>3. pc[s] = "save" => CacheRecord(entry[s]) \in Records
  BY CacheRecordType
<1>4. \A running \in RunsOn(s) : \A o \in running :
        /\ o.key \in Key
        /\ IF o.op = "save" THEN o.value \in Records \cup {None}
                            ELSE o.value \in FileSet \cup {None}
  BY <1>1, <1>2, <1>3 DEF RunsOn, Rename, Unlink, Save, Uncache
<1>5. File(<< >>, now) \in FileSet
  <2>1. << >> \in Seq(Frame) /\ now \in 0 .. MaxTime
    OBVIOUS
  <2>2. QED
    BY <2>1, FileType
<1>6. pc[s] \in {"commit", "rename", "discard"} => temp[s] \in FileSet
  OBVIOUS
<1>7. \A left \in Leftovers(s) : left \subseteq FileSet
  BY <1>5, <1>6 DEF Leftovers
<1>8. QED
  BY <1>4, <1>7

(* A handler that is dropped gives back all it has of the lock, and only   *)
(* that.                                                                   *)
LEMMA LockAbandoned ==
  ASSUME Typed, LockDiscipline, NEW s \in Slot, Disconnect(s)
  PROVE  /\ queue' \in Seq(Slot) /\ readers' \subseteq Slot /\ writer' \in Slot \cup {None}
         /\ LockDiscipline'
<1>1. /\ queue \in Seq(Slot) /\ Once(queue) /\ Queued(queue) = {t \in Slot : pc[t] \in Waiting}
      /\ pc' = [pc EXCEPT ![s] = "idle"] /\ pc \in [Slot -> Label]
      /\ readers' = readers \ {s} /\ writer' = IF writer = s THEN None ELSE writer
  BY DEF Disconnect, GiveUpWrite, LockDiscipline, Typed, TypeOK, Once, Queued
<1>2. queue' \in Seq(Slot) /\ Once(queue') /\ Queued(queue') = Queued(queue) \ {s}
  <2>1. CASE \E i \in DOMAIN queue : queue[i] = s /\ queue' = RemoveAt(queue, i)
    BY <1>1, <2>1, QueueLeft
  <2>2. CASE s \notin Range(queue) /\ UNCHANGED queue
    BY <1>1, <2>2 DEF Range, Queued
  <2>3. QED
    BY <2>1, <2>2 DEF Disconnect, GiveUpPlace
<1>3. Queued(queue') = {t \in Slot : pc'[t] \in Waiting}
  BY <1>1, <1>2 DEF Waiting
<1>4. readers' = {t \in Slot : pc'[t] = "open"}
  BY <1>1 DEF LockDiscipline
<1>5. /\ writer' # None => readers' = {} /\ pc'[writer'] \in Writing \cup {"discard"}
      /\ \A t \in Slot : pc'[t] \in Writing => writer' = t
  BY <1>1 DEF LockDiscipline, Writing, Typed, TypeOK
<1>6. LockDiscipline'
  BY <1>2, <1>3, <1>4, <1>5 DEF LockDiscipline, Once, Queued
<1>7. QED
  BY <1>1, <1>2, <1>6 DEF Typed, TypeOK

LEMMA TypedAbandoned ==
  ASSUME TypedD, NEW s \in Slot, Disconnect(s)
  PROVE  TypedD'
<1>1. LockDiscipline' /\ queue' \in Seq(Slot) /\ readers' \subseteq Slot /\ writer' \in Slot \cup {None}
  BY LockAbandoned DEF TypedD
<1>2. Watched(s) /\ litter' \subseteq FileSet
  BY WhatRemains DEF Disconnect, TypedD, Typed, TypeOK
<1>3. OrphanType'
  BY <1>2, WhatRemains DEF Disconnect, TypedD, OrphanType
<1>4. /\ pc' = [pc EXCEPT ![s] = "idle"] /\ req' = [req EXCEPT ![s] = None]
      /\ resp' = [resp EXCEPT ![s] = None] /\ entry' = [entry EXCEPT ![s] = None]
      /\ temp' = [temp EXCEPT ![s] = None]
      /\ UNCHANGED <<time, disk, cache, index>>
  BY DEF Disconnect
<1>5. TypeOK'
  BY <1>1, <1>2, <1>4 DEF TypedD, Typed, TypeOK, Label, time
<1>6. HandlersOnTrack'
  BY <1>4 DEF TypedD, Typed, TypeOK, HandlersOnTrack, K, PutLabel, DeleteLabel, GetLabel
<1>7. QED
  BY <1>1, <1>3, <1>5, <1>6 DEF TypedD, Typed

LEMMA TypedLanded ==
  ASSUME TypedD, NEW o \in orphans, Land(o)
  PROVE  TypedD'
<1>1. /\ orphans' = orphans \ {o} /\ o.key \in Key
      /\ UNCHANGED <<time, litter, index, lock, local>>
  BY DEF Land, TypedD, OrphanType
<1>2. disk' \in [Key -> FileSet \cup {None}] /\ cache' \in [Key -> Records \cup {None}]
  BY DEF Land, TypedD, OrphanType, Typed, TypeOK
<1>3. TypeOK'
  BY <1>1, <1>2 DEF TypedD, Typed, TypeOK, time, lock, local
<1>4. HandlersOnTrack' /\ LockDiscipline'
  BY <1>1 DEF TypedD, Typed, HandlersOnTrack, LockDiscipline, K, lock, local
<1>5. QED
  BY <1>1, <1>3, <1>4 DEF TypedD, Typed, OrphanType

(* What a handler has found in the index is so for as long as it is there: *)
(* neither a client that goes away nor an operation that lands touches the *)
(* index.                                                                  *)
LEMMA ConditionsAbandoned ==
  ASSUME TypedD, ConditionsHold,
         (\E s \in Slot : Disconnect(s)) \/ (\E o \in orphans : Land(o))
  PROVE  ConditionsHold' /\ index' = index
<1>1. ASSUME NEW s \in Slot, Disconnect(s) PROVE ConditionsHold' /\ index' = index
  BY <1>1 DEF Disconnect, ConditionsHold, K, TypedD, Typed, TypeOK
<1>2. ASSUME NEW o \in orphans, Land(o) PROVE ConditionsHold' /\ index' = index
  BY <1>2 DEF Land, ConditionsHold, K, local
<1>3. QED
  BY <1>1, <1>2

LEMMA AbandonedStep ==
  ASSUME TypedD, ConditionsHold, [NextD]_vars_d
  PROVE  TypedD' /\ ConditionsHold'
<1>1. CASE [Next]_vars /\ UNCHANGED orphans
  <2>1. Typed' /\ LockDiscipline'
    BY <1>1, TypedStep, LockStep DEF TypedD
  <2>2. OrphanType'
    BY <1>1 DEF TypedD, OrphanType
  <2>3. ConditionsHold'
    <3>1. CASE UNCHANGED vars \/ Tick
      BY <3>1 DEF Tick, vars, files, lock, local, ConditionsHold, K
    <3>2. CASE \E s \in Slot : SlotStep(s)
      BY <3>2, ConditionsStep DEF TypedD
    <3>3. QED
      BY <1>1, <3>1, <3>2 DEF Next
  <2>4. QED
    BY <2>1, <2>2, <2>3 DEF TypedD
<1>2. CASE \E s \in Slot : Disconnect(s)
  BY <1>2, TypedAbandoned, ConditionsAbandoned
<1>3. CASE \E o \in orphans : Land(o)
  BY <1>3, TypedLanded, ConditionsAbandoned
<1>4. QED
  BY <1>1, <1>2, <1>3 DEF NextD, vars_d

LEMMA AlwaysTypedD == SpecD => [](TypedD /\ ConditionsHold)
<1>1. InitD => TypedD /\ ConditionsHold
  <2> SUFFICES ASSUME InitD PROVE TypedD /\ ConditionsHold
    OBVIOUS
  <2>1. Typed /\ LockDiscipline /\ OrphanType
    BY TypedInit, LockInit DEF InitD, OrphanType
  <2>2. ConditionsHold
    BY DEF InitD, Init, ConditionsHold
  <2>3. QED
    BY <2>1, <2>2 DEF TypedD
<1>2. TypedD /\ ConditionsHold /\ [NextD]_vars_d => (TypedD /\ ConditionsHold)'
  BY AbandonedStep
<1>3. QED
  BY <1>1, <1>2, PTL DEF SpecD

(* A client that goes away never takes the lock along, nor lets two        *)
(* handlers have it.                                                       *)
THEOREM LockSurvivesClients == SpecD => []LockDiscipline
<1>1. TypedD => LockDiscipline
  BY DEF TypedD
<1>2. QED
  BY <1>1, AlwaysTypedD, PTL

(* Nor does it lose an update: whatever is left half done, the index       *)
(* changes only by a writer whose conditions hold of the entry it changes. *)
THEOREM ClientsLoseNoUpdates == SpecD => NoLostUpdate
<1> DEFINE Update ==
      \A k \in Key : index'[k] # index[k] =>
        /\ writer # None /\ K(writer) = k
        /\ req[writer].op = "put" => PutRefused(req[writer], index[k]) = None
        /\ req[writer].op = "delete" => DeleteRefused(req[writer], index[k]) = None
        /\ req[writer].op = "add_header" =>
             index[k] # None /\ index'[k] = HeaderAdded(req[writer], index[k])
<1>1. ASSUME TypedD, ConditionsHold, [NextD]_vars_d PROVE [Update]_vars
  <2>1. CASE [Next]_vars
    BY <1>1, <2>1, UpdateStep DEF TypedD
  <2>2. CASE (\E s \in Slot : Disconnect(s)) \/ (\E o \in orphans : Land(o))
    BY <1>1, <2>2, ConditionsAbandoned
  <2>3. QED
    BY <1>1, <2>1, <2>2 DEF NextD, vars_d
<1>2. TypedD /\ ConditionsHold /\ [NextD]_vars_d => [Update]_vars
  BY <1>1
<1> HIDE DEF Update
<1>3. SpecD => [][Update]_vars
  BY <1>2, AlwaysTypedD, PTL DEF SpecD
<1>4. QED
  BY <1>3 DEF Update, NoLostUpdate
=============================================================================
