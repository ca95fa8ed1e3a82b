-------------------------- MODULE ObjectStoreProofs --------------------------
(***************************************************************************)
(* Proofs about ObjectStore for any number of requests in progress, any    *)
(* requests, bodies, failures and times.                                   *)
(***************************************************************************)
EXTENDS ObjectStore, ObjectsProofs

Typed == TypeOK /\ HandlersOnTrack

(* Every initial state is well typed: the files found at startup have      *)
(* entries and cache records of the right types.                           *)
LEMMA TypedInit ==
  ASSUME Init
  PROVE  Typed
<1>1. \A data \in Content : File(data, 0) \in FileSet
  BY StoreAssumption DEF File, FileSet
<1>2. \A file \in FileSet : EntryOf(file.data, 0, << >>) \in Entries
  BY EntryOfType, HeadersType DEF FileSet
<1>3. disk \in [Key -> FileSet \cup {None}]
  BY <1>1 DEF Init
<1>4. index \in [Key -> Entries \cup {None}]
  BY <1>2, <1>3 DEF Init
<1>5. cache \in [Key -> Records \cup {None}]
  BY <1>4, CacheRecordType DEF Init
<1>6. TypeOK
  BY <1>3, <1>4, <1>5, StoreAssumption DEF Init, TypeOK, Label
<1>7. HandlersOnTrack
  BY DEF Init, HandlersOnTrack, PutLabel, DeleteLabel, GetLabel
<1>8. QED
  BY <1>6, <1>7 DEF Typed

(* Whoever is granted the lock leaves it well typed.                       *)
LEMMA LockType ==
  ASSUME queue \in Seq(Slot), readers \subseteq Slot, writer \in Slot \cup {None},
         NEW s \in Slot, ReadGranted(s) \/ WriteGranted(s),
         Glance \/ GlanceAndAwait(s) \/ TakeWrite(s) \/ TakeRead(s)
  PROVE  queue' \in Seq(Slot) /\ readers' \subseteq Slot /\ writer' \in Slot \cup {None}
<1>1. Tail(queue) \in Seq(Slot)
  BY DEF ReadGranted, WriteGranted
<1>2. Append(Tail(queue), s) \in Seq(Slot)
  BY <1>1
<1>3. QED
  BY <1>1, <1>2 DEF Glance, GlanceAndAwait, TakeWrite, TakeRead

(* What a handler writes to a file is a file, never None.                  *)
LEMMA FileType ==
  ASSUME NEW data \in Seq(Frame), NEW mtime \in 0 .. MaxTime
  PROVE  File(data, mtime) \in FileSet /\ File(data, mtime) # None
BY StoreAssumption, NoneIsNone DEF File, FileSet, Files

(* A request other than PUT that is not rejected at once has a valid key.  *)
LEMMA FirstInvalidType ==
  ASSUME NEW r \in Request
  PROVE  /\ Invalid(r) \in Answers \cup {None}
         /\ Invalid(r) = None /\ r.op # "put" => KeyOf(r) \in Key
<1>1. /\ DeleteInvalid(r) \in Answers \cup {None}
      /\ GetInvalid(r) \in Answers \cup {None}
      /\ AddHeaderInvalid(r) \in Answers \cup {None}
      /\ \/ DeleteInvalid(r) = None \/ GetInvalid(r) = None \/ AddHeaderInvalid(r) = None
         => KeyOf(r) \in Key
  BY InvalidType
<1>2. QED
  BY <1>1, NoneIsNone, RequestAssumption DEF Invalid, RefuseIf, First

(* No step of any handler leaves the types, nor its own operation.         *)
LEMMA TypedStep ==
  ASSUME Typed, [Next]_vars
  PROVE  Typed'
<1> USE DEF Typed, TypeOK, HandlersOnTrack, K, EntryWritten, Goto, Settle, Finish,
            Label, Waiting, Writing, PutLabel, DeleteLabel, GetLabel
<1>1. CASE UNCHANGED vars
  BY <1>1 DEF vars, time, files, lock, local
<1>2. CASE Tick
  BY <1>2, StoreAssumption DEF Tick, files, lock, local
<1>3. ASSUME NEW s \in Slot, NEW r \in Request, Receive(s, r) PROVE Typed'
  BY <1>3, RequestAssumption DEF Receive, time, files, lock
<1>4. ASSUME NEW s \in Slot, Reject(s) PROVE Typed'
  BY <1>4, FirstInvalidType, NoneIsNone DEF Reject, time, files, lock
<1>5. ASSUME NEW s \in Slot, Dispatch(s, "put", "resolve") PROVE Typed'
  BY <1>5 DEF Dispatch, Await, time, files
<1>6. ASSUME NEW s \in Slot, Dispatch(s, "delete", "evaluate") PROVE Typed'
  BY <1>6, FirstInvalidType DEF Dispatch, Await, time, files
<1>7. ASSUME NEW s \in Slot, Dispatch(s, "get", "lookup") PROVE Typed'
  BY <1>7, FirstInvalidType DEF Dispatch, Await, time, files
<1>8. ASSUME NEW s \in Slot, Return(s) PROVE Typed'
  BY <1>8 DEF Return, time, files, lock
<1>9. ASSUME NEW s \in Slot, PutResolve(s) PROVE Typed'
  <2>1. req[s] \in Request /\ req[s].op = "put"
    BY <1>9 DEF PutResolve
  <2>2. /\ PutInvalid(req[s]) \in Answers \cup {None}
        /\ PutInvalid(req[s]) = None => K(s) \in Key
    BY <2>1, InvalidType
  <2>3. queue' \in Seq(Slot) /\ readers' \subseteq Slot /\ writer' \in Slot \cup {None}
    BY <1>9, LockType DEF PutResolve
  <2>4. CASE PutInvalid(req[s]) # None
    <3>1. /\ pc' = [pc EXCEPT ![s] = "done"]
          /\ resp' = [resp EXCEPT ![s] = PutInvalid(req[s])]
          /\ UNCHANGED <<time, files, index, req, entry, temp>>
      BY <1>9, <2>4 DEF PutResolve
    <3>2. PutInvalid(req[s]) \in Answers /\ PutInvalid(req[s]) # None
      BY <2>2, <2>4
    <3>3. pc[s] = "resolve"
      BY <1>9 DEF PutResolve
    <3>4. TypeOK'
      BY <2>3, <3>1, <3>2, <3>3 DEF time, files
    <3>5. HandlersOnTrack'
      BY <3>1, <3>3 DEF time, files
    <3>6. QED
      BY <3>4, <3>5
  <2>5. CASE PutInvalid(req[s]) = None
    <3>1. /\ pc' = [pc EXCEPT ![s] = "check"]
          /\ UNCHANGED <<time, files, index, req, resp, entry, temp>>
      BY <1>9, <2>5 DEF PutResolve
    <3>2. pc[s] = "resolve" /\ K(s) \in Key
      BY <1>9, <2>2, <2>5 DEF PutResolve
    <3>3. TypeOK'
      BY <2>3, <3>1, <3>2, NoneIsNone DEF time, files
    <3>4. HandlersOnTrack'
      BY <2>1, <3>1, <3>2 DEF time, files
    <3>5. QED
      BY <3>3, <3>4
  <2>6. QED
    BY <2>4, <2>5
<1>10. ASSUME NEW s \in Slot, PutEarlyCheck(s) PROVE Typed'
  <2>1. req[s] \in Request /\ K(s) \in Key
    BY <1>10 DEF PutEarlyCheck
  <2>2. EarlyRefusal(s) \in Answers \cup {None}
    BY <2>1, RefusedType DEF EarlyRefusal
  <2>3. queue' \in Seq(Slot) /\ readers' \subseteq Slot /\ writer' \in Slot \cup {None}
    BY <1>10, LockType DEF PutEarlyCheck
  <2>4. CASE EarlyRefusal(s) # None
    <3>1. /\ pc' = [pc EXCEPT ![s] = "done"]
          /\ resp' = [resp EXCEPT ![s] = EarlyRefusal(s)]
          /\ UNCHANGED <<time, files, index, req, entry, temp>>
      BY <1>10, <2>4 DEF PutEarlyCheck
    <3>2. EarlyRefusal(s) \in Answers /\ EarlyRefusal(s) # None
      BY <2>2, <2>4
    <3>3. QED
      BY <1>10, <2>1, <2>3, <3>1, <3>2 DEF PutEarlyCheck, time, files
  <2>5. CASE EarlyRefusal(s) = None
    <3>0. /\ pc[s] = "check" /\ pc' = [pc EXCEPT ![s] = "create"]
          /\ UNCHANGED <<time, files, index, req, resp, entry, temp>>
      BY <1>10, <2>5 DEF PutEarlyCheck
    <3>1. TypeOK'
      BY <2>1, <2>3, <3>0 DEF time, files
    <3>2. HandlersOnTrack'
      BY <2>1, <2>3, <3>0 DEF time, files
    <3>3. QED
      BY <3>1, <3>2
  <2>6. QED
    BY <2>4, <2>5
<1>11. ASSUME NEW s \in Slot, PutCreate(s) PROVE Typed'
  <2>1. now \in 0 .. MaxTime /\ << >> \in Seq(Frame)
    OBVIOUS
  <2>2. File(<< >>, now) \in FileSet /\ File(<< >>, now) # None
    BY <2>1, FileType
  <2>3. pc[s] = "create" /\ resp[s] = None /\ UNCHANGED <<time, files, index, lock, req, entry>>
    BY <1>11 DEF PutCreate
  <2>4. CASE /\ pc' = [pc EXCEPT ![s] = "body"]
             /\ temp' = [temp EXCEPT ![s] = File(<< >>, now)] /\ UNCHANGED resp
    <3>1. TypeOK'
      BY <2>2, <2>3, <2>4 DEF time, files, lock
    <3>2. HandlersOnTrack'
      BY <2>3, <2>4 DEF time, files, lock
    <3>3. QED
      BY <3>1, <3>2
  <2>5. CASE /\ pc' = [pc EXCEPT ![s] = "done"]
             /\ resp' = [resp EXCEPT ![s] = InternalError] /\ UNCHANGED temp
    <3>1. TypeOK'
      BY <2>3, <2>5, DoneType, NoneIsNone DEF time, files, lock
    <3>2. HandlersOnTrack'
      BY <2>3, <2>5 DEF time, files, lock
    <3>3. QED
      BY <3>1, <3>2
  <2>6. QED
    BY <1>11, <2>4, <2>5 DEF PutCreate
<1>12. ASSUME NEW s \in Slot, PutReceive(s) PROVE Typed'
  <2>1. req[s].body \in Seq(Frame) /\ temp[s] \in FileSet
    BY <1>12, RequestAssumption DEF PutReceive
  <2> DEFINE frame == req[s].body[Len(Received(s)) + 1]
             longer == File(Append(Received(s), frame), now)
  <2>2. Received(s) \in Seq(Frame) /\ frame \in Frame
    BY <1>12, <2>1 DEF PutReceive, MoreToReceive, Received, FileSet
  <2>3. longer \in FileSet /\ longer # None
    <3>1. Append(Received(s), frame) \in Seq(Frame) /\ now \in 0 .. MaxTime
      BY <2>2
    <3>2. QED
      BY <3>1, FileType
  <2> HIDE DEF longer
  <2>4. temp' = [temp EXCEPT ![s] = longer]
    BY <1>12 DEF PutReceive, longer
  <2>5. QED
    BY <1>12, <2>3, <2>4 DEF PutReceive, time, files, lock
<1>13. ASSUME NEW s \in Slot, PutBreak(s) PROVE Typed'
  BY <1>13, DoneType, NoneIsNone DEF PutBreak, time, files, lock
<1>14. ASSUME NEW s \in Slot, PutReceived(s) PROVE Typed'
  <2>1. /\ pc[s] = "body" /\ pc' = [pc EXCEPT ![s] = "commit"]
        /\ entry' = [entry EXCEPT ![s] = EntryWritten(s)]
        /\ queue' = Append(queue, s) /\ UNCHANGED <<readers, writer>>
        /\ UNCHANGED <<time, files, index, req, resp, temp>>
    BY <1>14 DEF PutReceived, Await
  <2>2. temp[s].data \in Seq(Frame) /\ temp[s].mtime \in Nat /\ req[s].headers \in Headers
    BY <2>1, StoreAssumption, HeadersType DEF FileSet
  <2>3. EntryWritten(s) \in Entries /\ EntryWritten(s).headers = req[s].headers
    BY <2>2, EntryOfType DEF EntryOf
  <2>4. TypeOK'
    BY <2>1, <2>3 DEF time, files
  <2>5. HandlersOnTrack'
    BY <2>1, <2>3, NoneIsNone DEF time, files
  <2>6. QED
    BY <2>4, <2>5
<1>15. ASSUME NEW s \in Slot, PutCommit(s) PROVE Typed'
  <2>1. req[s] \in Request /\ K(s) \in Key
    BY <1>15 DEF PutCommit
  <2>2. FinalRefusal(s) \in Answers \cup {None}
    BY <2>1, RefusedType DEF FinalRefusal
  <2>3. queue' \in Seq(Slot) /\ readers' \subseteq Slot /\ writer' \in Slot \cup {None}
    BY <1>15, LockType DEF PutCommit
  <2>4. CASE FinalRefusal(s) # None
    <3>1. /\ pc' = [pc EXCEPT ![s] = "discard"]
          /\ resp' = [resp EXCEPT ![s] = FinalRefusal(s)]
          /\ UNCHANGED <<time, files, index, req, entry, temp>>
      BY <1>15, <2>4 DEF PutCommit
    <3>2. FinalRefusal(s) \in Answers /\ FinalRefusal(s) # None
      BY <2>2, <2>4
    <3>3. QED
      BY <1>15, <2>1, <2>3, <3>1, <3>2 DEF PutCommit, time, files
  <2>5. CASE FinalRefusal(s) = None
    <3>1. TypeOK'
      BY <1>15, <2>1, <2>2, <2>3, <2>5, NoneIsNone DEF PutCommit, time, files
    <3>2. HandlersOnTrack'
      BY <1>15, <2>1, <2>2, <2>3, <2>5, NoneIsNone DEF PutCommit, time, files
    <3>3. QED
      BY <3>1, <3>2
  <2>6. QED
    BY <2>4, <2>5
<1>16. ASSUME NEW s \in Slot, PutRename(s) PROVE Typed'
  <2>1. temp[s] \in FileSet /\ req[s] \in Request
    BY <1>16 DEF PutRename
  <2>4. entry[s] \in Entries
    BY <1>16 DEF PutRename
  <2>5. PutDone(entry[s]) \in Answers
    BY <2>4, DoneType
  <2>6. /\ pc[s] = "rename" /\ K(s) \in Key /\ PutDone(entry[s]) # None
        /\ disk' = [disk EXCEPT ![K(s)] = temp[s]]
        /\ temp' = [temp EXCEPT ![s] = None]
        /\ pc' = [pc EXCEPT ![s] = "save"]
        /\ resp' = [resp EXCEPT ![s] = PutDone(entry[s])]
        /\ UNCHANGED <<time, cache, litter, index, lock, req, entry>>
    BY <1>16, <2>5, NoneIsNone DEF PutRename
  <2>7. TypeOK'
    BY <2>1, <2>5, <2>6 DEF time, lock
  <2>8. HandlersOnTrack'
    BY <2>6
  <2>9. QED
    BY <2>7, <2>8
<1>17. ASSUME NEW s \in Slot, PutRenameFails(s) PROVE Typed'
  BY <1>17, DoneType, NoneIsNone DEF PutRenameFails, time, files, lock
<1>18. ASSUME NEW s \in Slot, Publish(s) PROVE Typed'
  BY <1>18, CacheRecordType, NoneIsNone DEF Publish, SaveOutcomes, DropWrite, time
<1>19. ASSUME NEW s \in Slot, PutDiscard(s) PROVE Typed'
  BY <1>19 DEF PutDiscard, ReleaseIfWriter, time
<1>20. ASSUME NEW s \in Slot, DeleteEvaluate(s) PROVE Typed'
  <2>1. req[s] \in Request /\ K(s) \in Key
    BY <1>20 DEF DeleteEvaluate
  <2>2. DeleteRefusedNow(s) \in Answers \cup {None}
    BY <2>1, RefusedType DEF DeleteRefusedNow
  <2>3. queue' \in Seq(Slot) /\ readers' \subseteq Slot /\ writer' \in Slot \cup {None}
    BY <1>20, LockType DEF DeleteEvaluate
  <2>4. CASE DeleteRefusedNow(s) # None
    <3>1. /\ pc[s] = "evaluate" /\ pc' = [pc EXCEPT ![s] = "done"]
          /\ resp' = [resp EXCEPT ![s] = DeleteRefusedNow(s)]
          /\ UNCHANGED <<time, files, index, req, entry, temp>>
      BY <1>20, <2>4 DEF DeleteEvaluate
    <3>2. DeleteRefusedNow(s) \in Answers /\ DeleteRefusedNow(s) # None
      BY <2>2, <2>4
    <3>3. QED
      BY <2>1, <2>3, <3>1, <3>2 DEF time, files
  <2>5. CASE DeleteRefusedNow(s) = None
    <3>1. /\ pc[s] = "evaluate" /\ pc' = [pc EXCEPT ![s] = "unlink"]
          /\ UNCHANGED <<time, files, index, req, resp, entry, temp>>
      BY <1>20, <2>5 DEF DeleteEvaluate
    <3>2. TypeOK'
      BY <2>1, <2>3, <3>1 DEF time, files
    <3>3. HandlersOnTrack'
      BY <2>1, <3>1 DEF time, files
    <3>4. QED
      BY <3>2, <3>3
  <2>6. QED
    BY <2>4, <2>5
<1>21. ASSUME NEW s \in Slot, DeleteUnlink(s) PROVE Typed'
  BY <1>21, DoneType, NoneIsNone DEF DeleteUnlink, time, lock
<1>22. ASSUME NEW s \in Slot, DeleteUnlinkFails(s) PROVE Typed'
  BY <1>22, DoneType, NoneIsNone DEF DeleteUnlinkFails, DropWrite, time, files
<1>23. ASSUME NEW s \in Slot, DeleteForget(s) PROVE Typed'
  BY <1>23 DEF DeleteForget, RemoveRecord, RemoveEntry, DropWrite, time
<1>24. ASSUME NEW s \in Slot, GetLookup(s) PROVE Typed'
  <2>1. req[s] \in Request /\ K(s) \in Key
    BY <1>24 DEF GetLookup
  <2>2. /\ GetRefusedNow(s) \in Answers \cup {None}
        /\ GetRefusedNow(s) = None => index[K(s)] \in Entries
    BY <2>1, RefusedType DEF GetRefusedNow
  <2>3. queue' \in Seq(Slot) /\ readers' \subseteq Slot /\ writer' \in Slot \cup {None}
    BY <1>24, LockType DEF GetLookup
  <2>4. CASE GetRefusedNow(s) # None
    <3>1. /\ pc' = [pc EXCEPT ![s] = "done"]
          /\ resp' = [resp EXCEPT ![s] = GetRefusedNow(s)]
          /\ UNCHANGED <<time, files, index, req, entry, temp>>
      BY <1>24, <2>4 DEF GetLookup
    <3>2. GetRefusedNow(s) \in Answers /\ GetRefusedNow(s) # None
      BY <2>2, <2>4
    <3>3. QED
      BY <1>24, <2>1, <2>3, <3>1, <3>2 DEF GetLookup, time, files
  <2>5. CASE GetRefusedNow(s) = None
    <3>1. /\ pc[s] = "lookup"
          /\ pc' = [pc EXCEPT ![s] = "open"]
          /\ entry' = [entry EXCEPT ![s] = index[K(s)]]
          /\ UNCHANGED <<time, files, index, req, resp, temp>>
      BY <1>24, <2>5 DEF GetLookup
    <3>2. /\ index[K(s)] \in Entries /\ index[K(s)] # None
          /\ GetRefused(req[s], index[K(s)]) = None
      BY <2>2, <2>5, NoneIsNone DEF GetRefusedNow
    <3>3. QED
      BY <2>1, <2>3, <3>1, <3>2 DEF time, files
  <2>6. QED
    BY <2>4, <2>5
<1>25. ASSUME NEW s \in Slot, GetOpen(s) PROVE Typed'
  BY <1>25, GetDoneType, NoneIsNone DEF GetOpen, DropRead, FileSet, time, files
<1>26. ASSUME NEW s \in Slot, GetOpenFails(s) PROVE Typed'
  BY <1>26, DoneType, NoneIsNone DEF GetOpenFails, DropRead, time, files
<1>27. ASSUME NEW s \in Slot, Dispatch(s, "add_header", "annotate") PROVE Typed'
  BY <1>27, FirstInvalidType DEF Dispatch, Await, time, files
<1>28. ASSUME NEW s \in Slot, AddHeader(s) PROVE Typed'
  <2>1. req[s] \in Request /\ req[s].op = "add_header" /\ K(s) \in Key /\ pc[s] = "annotate"
    BY <1>28 DEF AddHeader
  <2>2. index[K(s)] \in Entries \cup {None}
    BY <2>1
  <2>3. /\ AddHeaderRefusedNow(s) \in Answers \cup {None}
        /\ AddHeaderRefusedNow(s) = None => HeaderAdded(req[s], index[K(s)]) \in Entries
    BY <2>1, <2>2, AddHeaderType DEF AddHeaderRefusedNow
  <2>4. queue' \in Seq(Slot) /\ readers' \subseteq Slot /\ writer' \in Slot \cup {None}
    BY <1>28, LockType DEF AddHeader
  <2>5. CASE AddHeaderRefusedNow(s) # None
    <3>1. /\ pc' = [pc EXCEPT ![s] = "done"]
          /\ resp' = [resp EXCEPT ![s] = AddHeaderRefusedNow(s)]
          /\ UNCHANGED <<time, files, index, req, entry, temp>>
      BY <1>28, <2>5 DEF AddHeader
    <3>2. AddHeaderRefusedNow(s) \in Answers /\ AddHeaderRefusedNow(s) # None
      BY <2>3, <2>5
    <3>3. QED
      BY <2>1, <2>4, <3>1, <3>2 DEF time, files
  <2>6. CASE AddHeaderRefusedNow(s) = None
    <3> DEFINE new == HeaderAdded(req[s], index[K(s)])
    <3>1. /\ pc' = [pc EXCEPT ![s] = "save"]
          /\ resp' = [resp EXCEPT ![s] = HeaderDone]
          /\ entry' = [entry EXCEPT ![s] = new]
          /\ UNCHANGED <<time, files, index, req, temp>>
      BY <1>28, <2>6 DEF AddHeader
    <3>2. new \in Entries /\ new # None /\ HeaderDone \in Answers /\ HeaderDone # None
      BY <2>3, <2>6, DoneType, NoneIsNone
    <3> HIDE DEF new
    <3>3. QED
      BY <2>1, <2>4, <3>1, <3>2 DEF time, files
  <2>7. QED
    BY <2>5, <2>6
<1>29. QED
  BY <1>1, <1>2, <1>3, <1>4, <1>5, <1>6, <1>7, <1>8, <1>9, <1>10, <1>11, <1>12, <1>13, <1>14, <1>15, <1>16, <1>17, <1>18, <1>19, <1>20, <1>21, <1>22, <1>23, <1>24, <1>25, <1>26, <1>27, <1>28 DEF Next, SlotStep, Handle

(* The state's types, and every handler on its track, in every state.      *)
THEOREM TypeCorrect == Spec => []TypeOK
<1>1. Init => Typed
  BY TypedInit
<1>2. Typed /\ [Next]_vars => Typed'
  BY TypedStep
<1>3. Typed => TypeOK
  BY DEF Typed
<1>4. QED
  BY <1>1, <1>2, <1>3, PTL DEF Spec

-----------------------------------------------------------------------------
(* The queue of the lock. *)

Queued(q) == {q[i] : i \in DOMAIN q}
Once(q) == \A i, j \in DOMAIN q : q[i] = q[j] => i = j

(* Taking the head off the queue leaves everybody else queued, still once. *)
LEMMA QueueTail ==
  ASSUME NEW q \in Seq(Slot), q # << >>, Once(q)
  PROVE  Once(Tail(q)) /\ Queued(Tail(q)) = Queued(q) \ {Head(q)}
<1>1. /\ Tail(q) \in Seq(Slot) /\ Len(Tail(q)) = Len(q) - 1
      /\ \A i \in 1 .. Len(Tail(q)) : Tail(q)[i] = q[i + 1]
      /\ DOMAIN q = 1 .. Len(q) /\ DOMAIN Tail(q) = 1 .. Len(q) - 1
      /\ Len(q) \in Nat /\ Len(q) # 0 /\ Head(q) = q[1]
  BY HeadTailProperties
<1>2. Once(Tail(q))
  BY <1>1 DEF Once
<1>3. ASSUME NEW x \in Queued(Tail(q)) PROVE x \in Queued(q) \ {Head(q)}
  BY <1>1, <1>3 DEF Once, Queued
<1>4. ASSUME NEW x \in Queued(q), x # Head(q) PROVE x \in Queued(Tail(q))
  <2>1. PICK i \in 1 .. Len(q) : q[i] = x
    BY <1>1 DEF Queued
  <2>2. i - 1 \in 1 .. Len(Tail(q)) /\ Tail(q)[i - 1] = x
    BY <1>1, <1>4, <2>1
  <2>3. QED
    BY <1>1, <2>2 DEF Queued
<1>5. QED
  BY <1>2, <1>3, <1>4

(* Somebody who is not queued can be appended and is then queued once.     *)
LEMMA QueueAppend ==
  ASSUME NEW q \in Seq(Slot), Once(q), NEW s \in Slot, s \notin Queued(q)
  PROVE  Once(Append(q, s)) /\ Queued(Append(q, s)) = Queued(q) \cup {s}
<1> DEFINE p == Append(q, s)
<1>1. /\ p \in Seq(Slot) /\ Len(p) = Len(q) + 1 /\ Len(q) \in Nat
      /\ \A i \in 1 .. Len(q) : p[i] = q[i]
      /\ p[Len(q) + 1] = s
      /\ DOMAIN q = 1 .. Len(q) /\ DOMAIN p = 1 .. Len(q) + 1
  BY AppendProperties
<1> HIDE DEF p
<1>2. Once(p)
  BY <1>1 DEF Once, Queued
<1>3. Queued(p) = Queued(q) \cup {s}
  <2>1. ASSUME NEW x \in Queued(p) PROVE x \in Queued(q) \cup {s}
    BY <1>1, <2>1 DEF Queued
  <2>2. ASSUME NEW x \in Queued(q) PROVE x \in Queued(p)
    BY <1>1, <2>2 DEF Queued
  <2>3. s \in Queued(p)
    BY <1>1 DEF Queued
  <2>4. QED
    BY <2>1, <2>2, <2>3
<1>4. QED
  BY <1>2, <1>3 DEF p

-----------------------------------------------------------------------------
(* The ways a handler moves with respect to the lock.                      *)

LockFree == {"idle", "start", "create", "body", "discard", "done"}

(* A handler that asks for the lock keeps the discipline.                  *)
LEMMA LockAwaited ==
  ASSUME Typed, LockDiscipline, NEW s \in Slot, NEW label \in Waiting,
         pc[s] \in LockFree, writer # s, Await(s, label)
  PROVE  LockDiscipline'
<1> USE DEF Typed, TypeOK, LockFree, Label, Waiting, Writing
<1>1. Once(queue) /\ Queued(queue) = {t \in Slot : pc[t] \in Waiting}
  BY DEF LockDiscipline, Once, Queued
<1>2. queue' = Append(queue, s) /\ pc' = [pc EXCEPT ![s] = label] /\ UNCHANGED <<readers, writer>>
  BY DEF Await, Goto
<1>3. s \notin Queued(queue)
  BY <1>1
<1>4. Once(queue') /\ Queued(queue') = Queued(queue) \cup {s}
  BY <1>1, <1>2, <1>3, QueueAppend
<1>5. Queued(queue') = {t \in Slot : pc'[t] \in Waiting}
  BY <1>1, <1>2, <1>4
<1>6. QED
  BY <1>2, <1>4, <1>5 DEF LockDiscipline, Once, Queued

(* So does one that takes the lock and gives it back at once,              *)
LEMMA LockGlanced ==
  ASSUME Typed, LockDiscipline, NEW s \in Slot, NEW label \in LockFree,
         ReadGranted(s) \/ WriteGranted(s), Glance, pc' = [pc EXCEPT ![s] = label]
  PROVE  LockDiscipline'
<1> USE DEF Typed, TypeOK, LockFree, Label, Waiting, Writing
<1>1. Once(queue) /\ Queued(queue) = {t \in Slot : pc[t] \in Waiting}
  BY DEF LockDiscipline, Once, Queued
<1>2. queue # << >> /\ Head(queue) = s /\ queue' = Tail(queue) /\ UNCHANGED <<readers, writer>>
  BY DEF ReadGranted, WriteGranted, Glance
<1>3. pc[s] \in Waiting
  BY <1>1, <1>2 DEF Queued
<1>4. Once(queue') /\ Queued(queue') = Queued(queue) \ {s}
  BY <1>1, <1>2, QueueTail
<1>5. Queued(queue') = {t \in Slot : pc'[t] \in Waiting}
  BY <1>1, <1>4
<1>6. QED
  BY <1>2, <1>3, <1>4, <1>5 DEF LockDiscipline, Once, Queued

(* one that does so only to ask again,                                     *)
LEMMA LockRequeued ==
  ASSUME Typed, LockDiscipline, NEW s \in Slot, NEW label \in Waiting,
         ReadGranted(s), GlanceAndAwait(s), pc' = [pc EXCEPT ![s] = label]
  PROVE  LockDiscipline'
<1> USE DEF Typed, TypeOK, Label, Waiting, Writing
<1>1. Once(queue) /\ Queued(queue) = {t \in Slot : pc[t] \in Waiting}
  BY DEF LockDiscipline, Once, Queued
<1>2. /\ queue # << >> /\ Head(queue) = s /\ queue' = Append(Tail(queue), s)
      /\ UNCHANGED <<readers, writer>>
  BY DEF ReadGranted, GlanceAndAwait
<1>3. pc[s] \in Waiting
  BY <1>1, <1>2 DEF Queued
<1>4. Once(Tail(queue)) /\ Queued(Tail(queue)) = Queued(queue) \ {s} /\ Tail(queue) \in Seq(Slot)
  BY <1>1, <1>2, QueueTail
<1>5. Once(queue') /\ Queued(queue') = (Queued(queue) \ {s}) \cup {s}
  <2>1. s \notin Queued(Tail(queue))
    BY <1>4
  <2>2. /\ Once(Append(Tail(queue), s))
        /\ Queued(Append(Tail(queue), s)) = Queued(Tail(queue)) \cup {s}
    BY <1>4, <2>1, QueueAppend
  <2>3. QED
    BY <1>2, <1>4, <2>2
<1>6. Queued(queue') = {t \in Slot : pc'[t] \in Waiting}
  BY <1>1, <1>3, <1>5
<1>7. QED
  BY <1>2, <1>3, <1>5, <1>6 DEF LockDiscipline, Once, Queued

(* one that is granted the write lock and keeps it over an await,          *)
LEMMA WriteLockTaken ==
  ASSUME Typed, LockDiscipline, NEW s \in Slot, NEW label \in Writing \cup {"discard"},
         WriteGranted(s), TakeWrite(s), pc' = [pc EXCEPT ![s] = label]
  PROVE  LockDiscipline'
<1> USE DEF Typed, TypeOK, Label, Waiting, Writing
<1>1. Once(queue) /\ Queued(queue) = {t \in Slot : pc[t] \in Waiting}
  BY DEF LockDiscipline, Once, Queued
<1>2. /\ queue # << >> /\ Head(queue) = s /\ queue' = Tail(queue)
      /\ writer = None /\ writer' = s /\ readers = {} /\ readers' = {}
  BY DEF WriteGranted, TakeWrite
<1>3. pc[s] \in Waiting
  BY <1>1, <1>2 DEF Queued
<1>4. Once(queue') /\ Queued(queue') = Queued(queue) \ {s}
  BY <1>1, <1>2, QueueTail
<1>5. Queued(queue') = {t \in Slot : pc'[t] \in Waiting}
  BY <1>1, <1>4
<1>6. \A t \in Slot : pc[t] \notin Writing /\ pc[t] # "open"
  BY <1>2, StoreAssumption DEF LockDiscipline
<1>7. QED
  BY <1>2, <1>3, <1>4, <1>5, <1>6 DEF LockDiscipline, Once, Queued

(* one that is granted the read lock and keeps it over an await,           *)
LEMMA ReadLockTaken ==
  ASSUME Typed, LockDiscipline, NEW s \in Slot,
         ReadGranted(s), TakeRead(s), pc' = [pc EXCEPT ![s] = "open"]
  PROVE  LockDiscipline'
<1> USE DEF Typed, TypeOK, Label, Waiting, Writing
<1>1. Once(queue) /\ Queued(queue) = {t \in Slot : pc[t] \in Waiting}
  BY DEF LockDiscipline, Once, Queued
<1>2. /\ queue # << >> /\ Head(queue) = s /\ queue' = Tail(queue)
      /\ writer = None /\ writer' = None /\ readers' = readers \cup {s}
  BY DEF ReadGranted, TakeRead
<1>3. pc[s] \in Waiting
  BY <1>1, <1>2 DEF Queued
<1>4. Once(queue') /\ Queued(queue') = Queued(queue) \ {s}
  BY <1>1, <1>2, QueueTail
<1>5. Queued(queue') = {t \in Slot : pc'[t] \in Waiting}
  BY <1>1, <1>4
<1>6. readers' = {t \in Slot : pc'[t] = "open"}
  BY <1>2 DEF LockDiscipline
<1>7. \A t \in Slot : pc'[t] \notin Writing
  BY <1>2, StoreAssumption DEF LockDiscipline
<1>8. QED
  BY <1>2, <1>4, <1>5, <1>6, <1>7 DEF LockDiscipline, Once, Queued

(* one that has nothing to do with the lock,                               *)
LEMMA LockUntouched ==
  ASSUME Typed, LockDiscipline, NEW s \in Slot, NEW label \in LockFree,
         UNCHANGED lock, pc[s] \in LockFree, writer # s, pc' = [pc EXCEPT ![s] = label]
  PROVE  LockDiscipline'
<1> USE DEF Typed, TypeOK, LockFree, Label, Waiting, Writing
<1>1. queue' = queue /\ readers' = readers /\ writer' = writer
  BY DEF lock
<1>2. {t \in Slot : pc'[t] \in Waiting} = {t \in Slot : pc[t] \in Waiting}
  OBVIOUS
<1>3. {t \in Slot : pc'[t] = "open"} = {t \in Slot : pc[t] = "open"}
  OBVIOUS
<1>4. /\ writer' # None => pc'[writer'] \in Writing \cup {"discard"}
      /\ \A t \in Slot : pc'[t] \in Writing => writer' = t
  BY <1>1 DEF LockDiscipline
<1>5. QED
  BY <1>1, <1>2, <1>3, <1>4 DEF LockDiscipline

(* one that goes on under the write lock,                                  *)
LEMMA WriteLockKept ==
  ASSUME Typed, LockDiscipline, NEW s \in Slot, NEW label \in Writing \cup {"discard"},
         UNCHANGED lock, pc[s] \in Writing, pc' = [pc EXCEPT ![s] = label]
  PROVE  LockDiscipline'
<1> USE DEF Typed, TypeOK, Label, Waiting, Writing
<1>1. queue' = queue /\ readers' = readers /\ writer' = writer
  BY DEF lock
<1>2. {t \in Slot : pc'[t] \in Waiting} = {t \in Slot : pc[t] \in Waiting}
  OBVIOUS
<1>3. {t \in Slot : pc'[t] = "open"} = {t \in Slot : pc[t] = "open"}
  OBVIOUS
<1>4. /\ writer' # None => pc'[writer'] \in Writing \cup {"discard"}
      /\ \A t \in Slot : pc'[t] \in Writing => writer' = t
  BY <1>1 DEF LockDiscipline
<1>5. QED
  BY <1>1, <1>2, <1>3, <1>4 DEF LockDiscipline

(* one that gives the write lock back,                                     *)
LEMMA WriteLockDropped ==
  ASSUME Typed, LockDiscipline, NEW s \in Slot, NEW label \in LockFree,
         writer = s, writer' = None, UNCHANGED <<queue, readers>>, pc' = [pc EXCEPT ![s] = label]
  PROVE  LockDiscipline'
<1> USE DEF Typed, TypeOK, LockFree, Label, Waiting, Writing
<1>1. pc[s] \in Writing \cup {"discard"} /\ writer # None
  BY StoreAssumption DEF LockDiscipline
<1>2. {t \in Slot : pc'[t] \in Waiting} = {t \in Slot : pc[t] \in Waiting}
  BY <1>1
<1>3. {t \in Slot : pc'[t] = "open"} = {t \in Slot : pc[t] = "open"}
  BY <1>1
<1>4. \A t \in Slot : pc'[t] \notin Writing
  BY DEF LockDiscipline
<1>5. QED
  BY <1>2, <1>3, <1>4 DEF LockDiscipline

(* and one that gives the read lock back.                                  *)
LEMMA ReadLockDropped ==
  ASSUME Typed, LockDiscipline, NEW s \in Slot, NEW label \in LockFree,
         pc[s] = "open", DropRead(s), pc' = [pc EXCEPT ![s] = label]
  PROVE  LockDiscipline'
<1> USE DEF Typed, TypeOK, LockFree, Label, Waiting, Writing
<1>1. readers' = readers \ {s} /\ UNCHANGED <<queue, writer>>
  BY DEF DropRead
<1>2. {t \in Slot : pc'[t] \in Waiting} = {t \in Slot : pc[t] \in Waiting}
  OBVIOUS
<1>3. readers' = {t \in Slot : pc'[t] = "open"}
  BY <1>1 DEF LockDiscipline
<1>4. /\ writer' # None => readers' = {} /\ pc'[writer'] \in Writing \cup {"discard"}
      /\ \A t \in Slot : pc'[t] \in Writing => writer' = t
  BY <1>1 DEF LockDiscipline
<1>5. QED
  BY <1>1, <1>2, <1>3, <1>4 DEF LockDiscipline

(* Every step of the server is one of these, so all keep the discipline.   *)
LEMMA LockStep ==
  ASSUME Typed, LockDiscipline, [Next]_vars
  PROVE  LockDiscipline'
<1> USE DEF LockFree, Waiting, Writing
<1>1. CASE UNCHANGED vars
  BY <1>1 DEF vars, lock, local, LockDiscipline
<1>2. CASE Tick
  BY <1>2 DEF Tick, lock, local, LockDiscipline
<1>3. \A s \in Slot : /\ pc[s] \in LockFree \ {"discard"} => writer # s
                      /\ pc[s] \in Writing => writer = s
  BY StoreAssumption DEF LockDiscipline
<1>4. ASSUME NEW s \in Slot, NEW r \in Request, Receive(s, r) PROVE LockDiscipline'
  <2>1. pc[s] = "idle" /\ pc' = [pc EXCEPT ![s] = "start"] /\ UNCHANGED lock
    BY <1>4 DEF Receive, Goto
  <2>2. writer # s
    BY <1>3, <2>1
  <2>3. QED
    BY <2>1, <2>2, LockUntouched
<1>5. ASSUME NEW s \in Slot, Reject(s) PROVE LockDiscipline'
  <2>1. pc[s] = "start" /\ pc' = [pc EXCEPT ![s] = "done"] /\ UNCHANGED lock
    BY <1>5 DEF Reject, Finish, Goto
  <2>2. writer # s
    BY <1>3, <2>1
  <2>3. QED
    BY <2>1, <2>2, LockUntouched
<1>6. ASSUME NEW s \in Slot, Dispatch(s, "put", "resolve") PROVE LockDiscipline'
  <2>1. pc[s] = "start" /\ Await(s, "resolve")
    BY <1>6 DEF Dispatch
  <2>2. writer # s
    BY <1>3, <2>1
  <2>3. QED
    BY <2>1, <2>2, LockAwaited
<1>7. ASSUME NEW s \in Slot, Dispatch(s, "delete", "evaluate") PROVE LockDiscipline'
  <2>1. pc[s] = "start" /\ Await(s, "evaluate")
    BY <1>7 DEF Dispatch
  <2>2. writer # s
    BY <1>3, <2>1
  <2>3. QED
    BY <2>1, <2>2, LockAwaited
<1>8. ASSUME NEW s \in Slot, Dispatch(s, "get", "lookup") PROVE LockDiscipline'
  <2>1. pc[s] = "start" /\ Await(s, "lookup")
    BY <1>8 DEF Dispatch
  <2>2. writer # s
    BY <1>3, <2>1
  <2>3. QED
    BY <2>1, <2>2, LockAwaited
<1>9. ASSUME NEW s \in Slot, Return(s) PROVE LockDiscipline'
  <2>1. pc[s] = "done" /\ pc' = [pc EXCEPT ![s] = "idle"] /\ UNCHANGED lock
    BY <1>9 DEF Return, Goto
  <2>2. writer # s
    BY <1>3, <2>1
  <2>3. QED
    BY <2>1, <2>2, LockUntouched
<1>10. ASSUME NEW s \in Slot, PutResolve(s) PROVE LockDiscipline'
  <2>1. CASE PutInvalid(req[s]) # None
    <3>1. pc' = [pc EXCEPT ![s] = "done"] /\ ReadGranted(s) /\ Glance
      BY <1>10, <2>1 DEF PutResolve, Finish, Goto
    <3>2. QED
      BY <1>3, <3>1, LockGlanced
  <2>2. CASE PutInvalid(req[s]) = None
    <3>1. pc' = [pc EXCEPT ![s] = "check"] /\ ReadGranted(s) /\ GlanceAndAwait(s)
      BY <1>10, <2>2 DEF PutResolve, Finish, Goto
    <3>2. QED
      BY <1>3, <3>1, LockRequeued
  <2>3. QED
    BY <2>1, <2>2
<1>11. ASSUME NEW s \in Slot, PutEarlyCheck(s) PROVE LockDiscipline'
  <2>1. CASE EarlyRefusal(s) # None
    <3>1. pc' = [pc EXCEPT ![s] = "done"] /\ ReadGranted(s) /\ Glance
      BY <1>11, <2>1 DEF PutEarlyCheck, Finish, Goto
    <3>2. QED
      BY <1>3, <3>1, LockGlanced
  <2>2. CASE EarlyRefusal(s) = None
    <3>1. pc' = [pc EXCEPT ![s] = "create"] /\ ReadGranted(s) /\ Glance
      BY <1>11, <2>2 DEF PutEarlyCheck, Finish, Goto
    <3>2. QED
      BY <1>3, <3>1, LockGlanced
  <2>3. QED
    BY <2>1, <2>2
<1>12. ASSUME NEW s \in Slot, PutCreate(s) PROVE LockDiscipline'
  <2>1. pc[s] = "create" /\ UNCHANGED lock
    BY <1>12 DEF PutCreate
  <2>2. writer # s
    BY <1>3, <2>1
  <2>3. CASE pc' = [pc EXCEPT ![s] = "body"]
    BY <2>1, <2>2, <2>3, LockUntouched
  <2>4. CASE pc' = [pc EXCEPT ![s] = "done"]
    BY <2>1, <2>2, <2>4, LockUntouched
  <2>5. QED
    BY <1>12, <2>3, <2>4 DEF PutCreate, Finish, Goto
<1>13. ASSUME NEW s \in Slot, PutReceive(s) PROVE LockDiscipline'
  BY <1>13 DEF PutReceive, lock, LockDiscipline
<1>14. ASSUME NEW s \in Slot, PutBreak(s) PROVE LockDiscipline'
  <2>1. pc[s] = "body" /\ pc' = [pc EXCEPT ![s] = "discard"] /\ UNCHANGED lock
    BY <1>14 DEF PutBreak, Goto
  <2>2. writer # s
    BY <1>3, <2>1
  <2>3. QED
    BY <2>1, <2>2, LockUntouched
<1>15. ASSUME NEW s \in Slot, PutReceived(s) PROVE LockDiscipline'
  <2>1. pc[s] = "body" /\ Await(s, "commit")
    BY <1>15 DEF PutReceived
  <2>2. writer # s
    BY <1>3, <2>1
  <2>3. QED
    BY <2>1, <2>2, LockAwaited
<1>16. ASSUME NEW s \in Slot, PutCommit(s) PROVE LockDiscipline'
  <2>1. CASE FinalRefusal(s) # None
    <3>1. pc' = [pc EXCEPT ![s] = "discard"] /\ WriteGranted(s) /\ TakeWrite(s)
      BY <1>16, <2>1 DEF PutCommit, Goto
    <3>2. QED
      BY <1>3, <3>1, WriteLockTaken
  <2>2. CASE FinalRefusal(s) = None
    <3>1. pc' = [pc EXCEPT ![s] = "rename"] /\ WriteGranted(s) /\ TakeWrite(s)
      BY <1>16, <2>2 DEF PutCommit, Goto
    <3>2. QED
      BY <1>3, <3>1, WriteLockTaken
  <2>3. QED
    BY <2>1, <2>2
<1>17. ASSUME NEW s \in Slot, PutRename(s) PROVE LockDiscipline'
  <2>1. pc[s] = "rename" /\ pc' = [pc EXCEPT ![s] = "save"] /\ UNCHANGED lock
    BY <1>17 DEF PutRename, Goto
  <2>2. QED
    BY <1>3, <2>1, WriteLockKept
<1>18. ASSUME NEW s \in Slot, PutRenameFails(s) PROVE LockDiscipline'
  <2>1. pc[s] = "rename" /\ pc' = [pc EXCEPT ![s] = "discard"] /\ UNCHANGED lock
    BY <1>18 DEF PutRenameFails, Goto
  <2>2. QED
    BY <1>3, <2>1, WriteLockKept
<1>19. ASSUME NEW s \in Slot, Publish(s) PROVE LockDiscipline'
  <2>1. pc[s] = "save" /\ pc' = [pc EXCEPT ![s] = "done"] /\ writer' = None /\ UNCHANGED <<queue, readers>>
    BY <1>19 DEF Publish, DropWrite, Goto
  <2>2. QED
    BY <1>3, <2>1, WriteLockDropped
<1>20. ASSUME NEW s \in Slot, PutDiscard(s) PROVE LockDiscipline'
  <2>1. pc[s] = "discard" /\ pc' = [pc EXCEPT ![s] = "done"] /\ ReleaseIfWriter(s)
    BY <1>20 DEF PutDiscard, Goto
  <2>2. CASE writer = s
    BY <2>1, <2>2, WriteLockDropped DEF ReleaseIfWriter
  <2>3. CASE writer # s
    BY <2>1, <2>3, LockUntouched DEF ReleaseIfWriter, lock
  <2>4. QED
    BY <2>2, <2>3
<1>21. ASSUME NEW s \in Slot, DeleteEvaluate(s) PROVE LockDiscipline'
  <2>1. CASE DeleteRefusedNow(s) # None
    <3>1. pc' = [pc EXCEPT ![s] = "done"] /\ WriteGranted(s) /\ Glance
      BY <1>21, <2>1 DEF DeleteEvaluate, Finish, Goto
    <3>2. QED
      BY <1>3, <3>1, LockGlanced
  <2>2. CASE DeleteRefusedNow(s) = None
    <3>1. pc' = [pc EXCEPT ![s] = "unlink"] /\ WriteGranted(s) /\ TakeWrite(s)
      BY <1>21, <2>2 DEF DeleteEvaluate, Finish, Goto
    <3>2. QED
      BY <1>3, <3>1, WriteLockTaken
  <2>3. QED
    BY <2>1, <2>2
<1>22. ASSUME NEW s \in Slot, DeleteUnlink(s) PROVE LockDiscipline'
  <2>1. pc[s] = "unlink" /\ pc' = [pc EXCEPT ![s] = "uncache"] /\ UNCHANGED lock
    BY <1>22 DEF DeleteUnlink, Goto
  <2>2. QED
    BY <1>3, <2>1, WriteLockKept
<1>23. ASSUME NEW s \in Slot, DeleteUnlinkFails(s) PROVE LockDiscipline'
  <2>1. pc[s] = "unlink" /\ pc' = [pc EXCEPT ![s] = "done"] /\ writer' = None /\ UNCHANGED <<queue, readers>>
    BY <1>23 DEF DeleteUnlinkFails, DropWrite, Finish, Goto
  <2>2. QED
    BY <1>3, <2>1, WriteLockDropped
<1>24. ASSUME NEW s \in Slot, DeleteForget(s) PROVE LockDiscipline'
  <2>1. pc[s] = "uncache" /\ pc' = [pc EXCEPT ![s] = "done"] /\ writer' = None /\ UNCHANGED <<queue, readers>>
    BY <1>24 DEF DeleteForget, DropWrite, Goto
  <2>2. QED
    BY <1>3, <2>1, WriteLockDropped
<1>25. ASSUME NEW s \in Slot, GetLookup(s) PROVE LockDiscipline'
  <2>1. CASE GetRefusedNow(s) # None
    <3>1. pc' = [pc EXCEPT ![s] = "done"] /\ ReadGranted(s) /\ Glance
      BY <1>25, <2>1 DEF GetLookup, Finish, Goto
    <3>2. QED
      BY <1>3, <3>1, LockGlanced
  <2>2. CASE GetRefusedNow(s) = None
    <3>1. pc' = [pc EXCEPT ![s] = "open"] /\ ReadGranted(s) /\ TakeRead(s)
      BY <1>25, <2>2 DEF GetLookup, Finish, Goto
    <3>2. QED
      BY <1>3, <3>1, ReadLockTaken
  <2>3. QED
    BY <2>1, <2>2
<1>26. ASSUME NEW s \in Slot, GetOpen(s) PROVE LockDiscipline'
  <2>1. pc[s] = "open" /\ pc' = [pc EXCEPT ![s] = "done"] /\ DropRead(s)
    BY <1>26 DEF GetOpen, Finish, Goto
  <2>2. QED
    BY <1>3, <2>1, ReadLockDropped
<1>27. ASSUME NEW s \in Slot, GetOpenFails(s) PROVE LockDiscipline'
  <2>1. pc[s] = "open" /\ pc' = [pc EXCEPT ![s] = "done"] /\ DropRead(s)
    BY <1>27 DEF GetOpenFails, Finish, Goto
  <2>2. QED
    BY <1>3, <2>1, ReadLockDropped
<1>28. ASSUME NEW s \in Slot, Dispatch(s, "add_header", "annotate") PROVE LockDiscipline'
  <2>1. pc[s] = "start" /\ Await(s, "annotate")
    BY <1>28 DEF Dispatch
  <2>2. writer # s
    BY <1>3, <2>1
  <2>3. QED
    BY <2>1, <2>2, LockAwaited
<1>29. ASSUME NEW s \in Slot, AddHeader(s) PROVE LockDiscipline'
  <2>1. CASE AddHeaderRefusedNow(s) # None
    <3>1. pc' = [pc EXCEPT ![s] = "done"] /\ WriteGranted(s) /\ Glance
      BY <1>29, <2>1 DEF AddHeader, Finish, Goto
    <3>2. QED
      BY <1>3, <3>1, LockGlanced
  <2>2. CASE AddHeaderRefusedNow(s) = None
    <3>1. pc' = [pc EXCEPT ![s] = "save"] /\ WriteGranted(s) /\ TakeWrite(s)
      BY <1>29, <2>2 DEF AddHeader, Goto
    <3>2. QED
      BY <1>3, <3>1, WriteLockTaken
  <2>3. QED
    BY <2>1, <2>2
<1>30. QED
  BY <1>28, <1>29, <1>1, <1>2, <1>4, <1>5, <1>6, <1>7, <1>8, <1>9, <1>10, <1>11, <1>12, <1>13, <1>14, <1>15, <1>16, <1>17, <1>18, <1>19, <1>20, <1>21, <1>22, <1>23, <1>24, <1>25, <1>26, <1>27 DEF Next, SlotStep, Handle

(* Nobody holds or awaits the lock at the start.                           *)
LEMMA LockInit ==
  ASSUME Init
  PROVE  LockDiscipline
BY StoreAssumption DEF Init, LockDiscipline, Waiting, Writing

(* The lock excludes, whatever the requests, failures and their timing.    *)
THEOREM LockExcludes == Spec => []LockDiscipline
<1>1. Init => Typed /\ LockDiscipline
  BY TypedInit, LockInit
<1>2. Typed /\ LockDiscipline /\ [Next]_vars => (Typed /\ LockDiscipline)'
  BY TypedStep, LockStep
<1>3. QED
  BY <1>1, <1>2, PTL DEF Spec

-----------------------------------------------------------------------------
(* What a step of a handler leaves alone. *)

(* It is its own: no other handler's state changes.                        *)
StayPut(t) ==
  /\ pc'[t] = pc[t] /\ req'[t] = req[t] /\ resp'[t] = resp[t]
  /\ entry'[t] = entry[t] /\ temp'[t] = temp[t]

OthersStay(s) == \A t \in Slot \ {s} : StayPut(t)

LEMMA OnlyOneMoves ==
  ASSUME Typed, NEW s \in Slot, SlotStep(s)
  PROVE  OthersStay(s)
<1> USE DEF Typed, TypeOK, OthersStay, StayPut, Goto, Settle, Finish, Await
<1>1. CASE \E r \in Request : Receive(s, r)
  BY <1>1 DEF Receive
<1>2. CASE PutReceive(s) \/ PutBreak(s) \/ Return(s)
  BY <1>2 DEF PutReceive, PutBreak, Return
<1>3. CASE \/ Reject(s) \/ Dispatch(s, "put", "resolve") \/ Dispatch(s, "delete", "evaluate")
           \/ Dispatch(s, "get", "lookup") \/ Dispatch(s, "add_header", "annotate")
  BY <1>3 DEF Reject, Dispatch
<1>4. CASE PutResolve(s) \/ PutEarlyCheck(s) \/ PutCreate(s)
  BY <1>4 DEF PutResolve, PutEarlyCheck, PutCreate
<1>5. CASE PutReceived(s) \/ PutCommit(s) \/ PutRename(s) \/ PutRenameFails(s)
  BY <1>5 DEF PutReceived, PutCommit, PutRename, PutRenameFails
<1>6. CASE Publish(s) \/ PutDiscard(s)
  BY <1>6 DEF Publish, PutDiscard
<1>7. CASE DeleteEvaluate(s) \/ DeleteUnlink(s) \/ DeleteUnlinkFails(s) \/ DeleteForget(s)
  BY <1>7 DEF DeleteEvaluate, DeleteUnlink, DeleteUnlinkFails, DeleteForget
<1>8. CASE GetLookup(s) \/ GetOpen(s) \/ GetOpenFails(s) \/ AddHeader(s)
  BY <1>8 DEF GetLookup, GetOpen, GetOpenFails, AddHeader
<1>9. QED
  BY <1>1, <1>2, <1>3, <1>4, <1>5, <1>6, <1>7, <1>8 DEF SlotStep, Handle

(* Between a change of the files and that of the index.                    *)
Between == {"save", "uncache"}

(* Files change by a rename or an unlink, and nobody starts to lead the    *)
(* index otherwise than by these or by adding a header.                    *)
LEMMA OnlyWritersMoveFiles ==
  ASSUME Typed, NEW s \in Slot, SlotStep(s), ~PutRename(s), ~DeleteUnlink(s),
         ~(AddHeader(s) /\ AddHeaderRefusedNow(s) = None)
  PROVE  pc'[s] \notin Between /\ disk' = disk
<1> USE DEF Between, files, Typed, TypeOK, Goto, Finish, Await
<1>1. CASE \E r \in Request : Receive(s, r)
  BY <1>1 DEF Receive
<1>2. CASE PutReceive(s) \/ PutBreak(s) \/ Return(s)
  BY <1>2 DEF PutReceive, PutBreak, Return
<1>3. CASE \/ Reject(s) \/ Dispatch(s, "put", "resolve") \/ Dispatch(s, "delete", "evaluate")
           \/ Dispatch(s, "get", "lookup") \/ Dispatch(s, "add_header", "annotate")
  BY <1>3 DEF Reject, Dispatch
<1>4. CASE PutResolve(s) \/ PutEarlyCheck(s) \/ PutCreate(s)
  BY <1>4 DEF PutResolve, PutEarlyCheck, PutCreate
<1>5. CASE PutReceived(s) \/ PutCommit(s) \/ PutRenameFails(s) \/ PutDiscard(s) \/ Publish(s)
  BY <1>5 DEF PutReceived, PutCommit, PutRenameFails, PutDiscard, Publish
<1>6. CASE DeleteEvaluate(s) \/ DeleteForget(s) \/ DeleteUnlinkFails(s)
  BY <1>6 DEF DeleteEvaluate, DeleteForget, DeleteUnlinkFails
<1>7. CASE GetLookup(s) \/ GetOpen(s) \/ GetOpenFails(s)
  BY <1>7 DEF GetLookup, GetOpen, GetOpenFails
<1>8. CASE AddHeader(s) /\ AddHeaderRefusedNow(s) # None
  BY <1>8 DEF AddHeader
<1>9. QED
  BY <1>1, <1>2, <1>3, <1>4, <1>5, <1>6, <1>7, <1>8 DEF SlotStep, Handle

(* Only a writer's last step touches the records and the index.            *)
LEMMA OnlyWritersPublish ==
  ASSUME Typed, NEW s \in Slot, SlotStep(s), ~Publish(s), ~DeleteForget(s)
  PROVE  pc[s] \notin Between /\ cache' = cache /\ index' = index
<1> USE DEF Between, files
<1>1. CASE \E r \in Request : Receive(s, r)
  BY <1>1 DEF Receive
<1>2. CASE PutReceive(s) \/ PutBreak(s) \/ Return(s)
  BY <1>2 DEF PutReceive, PutBreak, Return
<1>3. CASE \/ Reject(s) \/ Dispatch(s, "put", "resolve") \/ Dispatch(s, "delete", "evaluate")
           \/ Dispatch(s, "get", "lookup") \/ Dispatch(s, "add_header", "annotate")
  BY <1>3 DEF Reject, Dispatch
<1>4. CASE PutResolve(s) \/ PutEarlyCheck(s) \/ PutCreate(s)
  BY <1>4 DEF PutResolve, PutEarlyCheck, PutCreate
<1>5. CASE PutReceived(s) \/ PutCommit(s) \/ PutRename(s) \/ PutRenameFails(s) \/ PutDiscard(s)
  BY <1>5 DEF PutReceived, PutCommit, PutRename, PutRenameFails, PutDiscard
<1>6. CASE DeleteEvaluate(s) \/ DeleteUnlink(s) \/ DeleteUnlinkFails(s)
  BY <1>6 DEF DeleteEvaluate, DeleteUnlink, DeleteUnlinkFails
<1>7. CASE GetLookup(s) \/ GetOpen(s) \/ GetOpenFails(s) \/ AddHeader(s)
  BY <1>7 DEF GetLookup, GetOpen, GetOpenFails, AddHeader
<1>8. QED
  BY <1>1, <1>2, <1>3, <1>4, <1>5, <1>6, <1>7 DEF SlotStep, Handle

(* A handler waits to commit only once it has received the body.           *)
LEMMA OnlyPutsAwaitTheirCommit ==
  ASSUME Typed, NEW s \in Slot, SlotStep(s), pc'[s] = "commit"
  PROVE  PutReceived(s)
<1> USE DEF Typed, TypeOK, Goto, Finish, Await
<1>1. CASE \E r \in Request : Receive(s, r)
  BY <1>1 DEF Receive
<1>2. CASE PutReceive(s) \/ PutBreak(s) \/ Return(s)
  BY <1>2 DEF PutReceive, PutBreak, Return
<1>3. CASE \/ Reject(s) \/ Dispatch(s, "put", "resolve") \/ Dispatch(s, "delete", "evaluate")
           \/ Dispatch(s, "get", "lookup") \/ Dispatch(s, "add_header", "annotate")
  BY <1>3 DEF Reject, Dispatch
<1>4. CASE PutResolve(s) \/ PutEarlyCheck(s) \/ PutCreate(s)
  BY <1>4 DEF PutResolve, PutEarlyCheck, PutCreate
<1>5. CASE PutCommit(s) \/ PutRename(s) \/ PutRenameFails(s) \/ PutDiscard(s) \/ Publish(s)
  BY <1>5 DEF PutCommit, PutRename, PutRenameFails, PutDiscard, Publish
<1>6. CASE DeleteEvaluate(s) \/ DeleteUnlink(s) \/ DeleteForget(s) \/ DeleteUnlinkFails(s)
  BY <1>6 DEF DeleteEvaluate, DeleteUnlink, DeleteForget, DeleteUnlinkFails
<1>7. CASE GetLookup(s) \/ GetOpen(s) \/ GetOpenFails(s) \/ AddHeader(s)
  BY <1>7 DEF GetLookup, GetOpen, GetOpenFails, AddHeader
<1>8. QED
  BY <1>1, <1>2, <1>3, <1>4, <1>5, <1>6, <1>7 DEF SlotStep, Handle

(* Who has the lock and something to remember about the index.             *)
Busy == {"rename", "save", "unlink", "uncache", "open"}

LEMMA OnlyTheseAreBusy ==
  ASSUME Typed, NEW s \in Slot, SlotStep(s), pc'[s] \in Busy
  PROVE  \/ PutCommit(s) /\ FinalRefusal(s) = None
         \/ DeleteEvaluate(s) /\ DeleteRefusedNow(s) = None
         \/ GetLookup(s) /\ GetRefusedNow(s) = None
         \/ AddHeader(s) /\ AddHeaderRefusedNow(s) = None
         \/ PutRename(s) \/ DeleteUnlink(s)
<1> USE DEF Busy, Typed, TypeOK, Goto, Finish, Await
<1>1. CASE \E r \in Request : Receive(s, r)
  BY <1>1 DEF Receive
<1>2. CASE PutReceive(s) \/ PutBreak(s) \/ Return(s)
  BY <1>2 DEF PutReceive, PutBreak, Return
<1>3. CASE \/ Reject(s) \/ Dispatch(s, "put", "resolve") \/ Dispatch(s, "delete", "evaluate")
           \/ Dispatch(s, "get", "lookup") \/ Dispatch(s, "add_header", "annotate")
  BY <1>3 DEF Reject, Dispatch
<1>4. CASE PutResolve(s) \/ PutEarlyCheck(s) \/ PutCreate(s)
  BY <1>4 DEF PutResolve, PutEarlyCheck, PutCreate
<1>5. CASE PutReceived(s) \/ PutCommit(s) \/ PutRenameFails(s) \/ PutDiscard(s) \/ Publish(s)
  BY <1>5 DEF PutReceived, PutCommit, PutRenameFails, PutDiscard, Publish
<1>6. CASE DeleteEvaluate(s) \/ DeleteForget(s) \/ DeleteUnlinkFails(s)
  BY <1>6 DEF DeleteEvaluate, DeleteForget, DeleteUnlinkFails
<1>7. CASE GetLookup(s) \/ GetOpen(s) \/ GetOpenFails(s)
  BY <1>7 DEF GetLookup, GetOpen, GetOpenFails
<1>8. CASE AddHeader(s)
  BY <1>8 DEF AddHeader
<1>9. QED
  BY <1>1, <1>2, <1>3, <1>4, <1>5, <1>6, <1>7, <1>8 DEF SlotStep, Handle

(* While a handler is writing, no other one is busy with the files.        *)
LEMMA WriterIsAlone ==
  ASSUME Typed, LockDiscipline, NEW s \in Slot, pc[s] \in Writing
  PROVE  /\ writer = s
         /\ \A t \in Slot \ {s} : pc[t] \notin Busy
BY StoreAssumption DEF Typed, TypeOK, LockDiscipline, Writing, Busy

(* A key that is ahead of the index is the one its writer is at.           *)
LEMMA AheadIsWriting ==
  ASSUME Typed, LockDiscipline, NEW k \in Key
  PROVE  Ahead(k) <=> \E s \in Slot : pc[s] \in {"save", "uncache"} /\ K(s) = k
BY StoreAssumption DEF Typed, TypeOK, LockDiscipline, Ahead, Writing

LEMMA OthersAreNotBetween ==
  ASSUME LockDiscipline, NEW s \in Slot, writer = s
  PROVE  /\ \A t \in Slot \ {s} : pc[t] \notin Between
         /\ \A k \in Key : Ahead(k) <=> pc[s] \in Between /\ k = K(s)
BY StoreAssumption DEF LockDiscipline, Writing, Between, Ahead

(* A key stays ahead of the index until its writer's last step.            *)
LEMMA AheadStays ==
  ASSUME Typed, LockDiscipline, Typed', LockDiscipline', NEW s \in Slot, OthersStay(s),
         pc[s] \notin Between, NEW k \in Key, Ahead(k)
  PROVE  Ahead(k)'
<1>1. PICK t \in Slot : pc[t] \in Between /\ K(t) = k
  BY AheadIsWriting DEF Between
<1>2. pc'[t] \in Between /\ K(t)' = k
  BY <1>1 DEF OthersStay, StayPut, K
<1>3. writer' = t /\ t # None
  BY <1>2, StoreAssumption DEF LockDiscipline, Writing, Between
<1>4. QED
  BY <1>2, <1>3 DEF Ahead, Between

-----------------------------------------------------------------------------
(* What a handler has found in the index is so until it changes it: only   *)
(* a writer's last step changes an entry, and then nobody else is busy.    *)
LEMMA ConditionsStep ==
  ASSUME Typed, LockDiscipline, ConditionsHold, NEW s \in Slot, SlotStep(s)
  PROVE  ConditionsHold'
<1>1. OthersStay(s)
  BY OnlyOneMoves
<1>2. CASE Publish(s) \/ DeleteForget(s)
  <2>1. pc[s] \in {"save", "uncache"} /\ pc'[s] = "done"
    BY <1>2 DEF Publish, DeleteForget, Goto, Typed, TypeOK
  <2>2. \A t \in Slot \ {s} : pc[t] \notin Busy
    BY <2>1, WriterIsAlone DEF Writing
  <2>3. QED
    BY <1>1, <2>1, <2>2 DEF ConditionsHold, OthersStay, StayPut, Busy
<1>3. CASE ~Publish(s) /\ ~DeleteForget(s)
  <2> DEFINE Mine ==
        /\ pc'[s] = "rename" => PutRefused(req'[s], index[K(s)']) = None
        /\ pc'[s] = "save" /\ req'[s].op = "put" => PutRefused(req'[s], index[K(s)']) = None
        /\ pc'[s] = "save" /\ req'[s].op = "add_header" =>
             index[K(s)'] # None /\ entry'[s] = HeaderAdded(req'[s], index[K(s)'])
        /\ pc'[s] \in {"unlink", "uncache"} => DeleteRefused(req'[s], index[K(s)']) = None
        /\ pc'[s] = "open" => entry'[s] = index[K(s)']
  <2>1. index' = index
    BY <1>3, OnlyWritersPublish
  <2>2. ASSUME pc'[s] \notin Busy PROVE Mine
    BY <2>2 DEF Busy
  <2>3. ASSUME PutCommit(s) /\ FinalRefusal(s) = None PROVE Mine
    BY <2>3 DEF PutCommit, FinalRefusal, Goto, K, Typed, TypeOK
  <2>4. ASSUME DeleteEvaluate(s) /\ DeleteRefusedNow(s) = None PROVE Mine
    BY <2>4 DEF DeleteEvaluate, DeleteRefusedNow, Goto, K, Typed, TypeOK
  <2>5. ASSUME GetLookup(s) /\ GetRefusedNow(s) = None PROVE Mine
    BY <2>5 DEF GetLookup, GetRefusedNow, Goto, K, Typed, TypeOK
  <2>6. ASSUME AddHeader(s) /\ AddHeaderRefusedNow(s) = None PROVE Mine
    <3>1. /\ pc[s] = "annotate" /\ req' = req /\ req[s].op = "add_header" /\ req[s] \in Request
          /\ pc'[s] = "save" /\ entry'[s] = HeaderAdded(req[s], index[K(s)])
      BY <2>6 DEF AddHeader, AddHeaderRefusedNow, Goto, Typed, TypeOK, HandlersOnTrack
    <3>2. index[K(s)] # None
      BY <2>6, <3>1, AddHeaderType DEF AddHeaderRefusedNow, Typed, TypeOK, HandlersOnTrack
    <3>3. QED
      BY <3>1, <3>2 DEF K
  <2>7. ASSUME PutRename(s) PROVE Mine
    BY <2>7 DEF PutRename, Goto, K, Typed, TypeOK, HandlersOnTrack, PutLabel, ConditionsHold
  <2>8. ASSUME DeleteUnlink(s) PROVE Mine
    BY <2>8 DEF DeleteUnlink, Goto, K, Typed, TypeOK, ConditionsHold
  <2>9. Mine
    BY <2>2, <2>3, <2>4, <2>5, <2>6, <2>7, <2>8, OnlyTheseAreBusy
  <2>10. QED
    BY <1>1, <2>1, <2>9 DEF ConditionsHold, OthersStay, StayPut, K
<1>4. QED
  BY <1>2, <1>3

-----------------------------------------------------------------------------
(* The files and the index, for every set of ETags that the files may have.*)

(* A step that is none of the five on files and index.                     *)
LEMMA DescribedElsewhere ==
  ASSUME Typed, LockDiscipline, Typed', LockDiscipline', NEW etagged,
         IndexDescribes(etagged), WritersDescribe(etagged),
         NEW s \in Slot, OthersStay(s), disk' = disk, index' = index,
         pc[s] \notin Between, pc'[s] \notin Between,
         pc'[s] \in {"commit", "rename"} => Describes(entry'[s], temp'[s], etagged)
  PROVE  IndexDescribes(etagged)' /\ WritersDescribe(etagged)'
<1>1. IndexDescribes(etagged)'
  BY AheadStays DEF IndexDescribes
<1>2. WritersDescribe(etagged)'
  BY DEF WritersDescribe, OthersStay, StayPut, Between, K
<1>3. QED
  BY <1>1, <1>2

(* No step of a handler breaks the agreement of index and files.           *)
LEMMA DescribedStep ==
  ASSUME Typed, LockDiscipline, Typed', LockDiscipline', NEW etagged,
         \A data \in Seq(Frame) : <<Md5(data), data>> \in etagged,
         IndexDescribes(etagged), WritersDescribe(etagged),
         NEW s \in Slot, SlotStep(s)
  PROVE  IndexDescribes(etagged)' /\ WritersDescribe(etagged)'
<1>1. OthersStay(s)
  BY OnlyOneMoves
<1>2. CASE /\ ~PutRename(s) /\ ~DeleteUnlink(s) /\ ~(AddHeader(s) /\ AddHeaderRefusedNow(s) = None)
           /\ ~Publish(s) /\ ~DeleteForget(s)
  <2>1. pc[s] \notin Between /\ pc'[s] \notin Between /\ disk' = disk /\ index' = index
    BY <1>2, OnlyWritersMoveFiles, OnlyWritersPublish
  <2>2. ASSUME pc'[s] = "rename" PROVE Describes(entry'[s], temp'[s], etagged)
    <3>1. PutCommit(s)
      BY <1>2, <2>2, OnlyTheseAreBusy DEF Busy, DeleteEvaluate, GetLookup, Goto, Typed, TypeOK
    <3>2. QED
      BY <3>1 DEF PutCommit, WritersDescribe
  <2>3. ASSUME pc'[s] = "commit" PROVE Describes(entry'[s], temp'[s], etagged)
    <3>1. PutReceived(s)
      BY <2>3, OnlyPutsAwaitTheirCommit
    <3>2. /\ entry'[s] = EntryWritten(s) /\ temp' = temp
          /\ temp[s].data \in Seq(Frame)
      BY <3>1 DEF PutReceived, Typed, TypeOK, FileSet
    <3>3. QED
      BY <3>2 DEF EntryWritten, EntryOf, Describes
  <2>4. QED
    BY <1>1, <2>1, <2>2, <2>3, DescribedElsewhere
<1>3. CASE PutRename(s)
  <2>1. /\ pc[s] = "rename" /\ K(s) \in Key /\ temp[s] # None
        /\ disk' = [disk EXCEPT ![K(s)] = temp[s]] /\ pc'[s] = "save"
        /\ UNCHANGED <<index, req, entry, writer>>
    BY <1>3 DEF PutRename, Typed, TypeOK, HandlersOnTrack, Goto, lock
  <2>2. writer = s
    BY <2>1 DEF LockDiscipline, Writing
  <2>3. \A k \in Key : /\ ~Ahead(k)
                       /\ ~Ahead(k)' => k # K(s)
    BY <2>1, <2>2, StoreAssumption DEF Ahead, K
  <2>4. IndexDescribes(etagged)'
    BY <2>1, <2>3 DEF IndexDescribes, Typed, TypeOK
  <2>5. /\ disk'[K(s)'] = temp[s]
        /\ Describes(entry[s], temp[s], etagged)
    BY <2>1 DEF WritersDescribe, K, Typed, TypeOK
  <2>6. WritersDescribe(etagged)'
    BY <1>1, <2>1, <2>2, <2>5, WriterIsAlone DEF WritersDescribe, OthersStay, StayPut, Writing, Busy, K
  <2>7. QED
    BY <2>4, <2>6
<1>4. CASE DeleteUnlink(s)
  <2>1. /\ pc[s] = "unlink" /\ K(s) \in Key
        /\ disk' = [disk EXCEPT ![K(s)] = None] /\ pc'[s] = "uncache"
        /\ UNCHANGED <<index, req, entry, temp, writer>>
    BY <1>4 DEF DeleteUnlink, Typed, TypeOK, HandlersOnTrack, Goto, lock
  <2>2. writer = s
    BY <2>1 DEF LockDiscipline, Writing
  <2>3. \A k \in Key : /\ ~Ahead(k)
                       /\ ~Ahead(k)' => k # K(s)
    BY <2>1, <2>2, StoreAssumption DEF Ahead, K
  <2>4. IndexDescribes(etagged)'
    BY <2>1, <2>3 DEF IndexDescribes, Typed, TypeOK
  <2>5. disk'[K(s)'] = None
    BY <2>1 DEF K, Typed, TypeOK
  <2>6. WritersDescribe(etagged)'
    BY <1>1, <2>1, <2>2, <2>5, OthersAreNotBetween DEF WritersDescribe, OthersStay, StayPut, Between, K
  <2>7. QED
    BY <2>4, <2>6
<1>5. CASE AddHeader(s) /\ AddHeaderRefusedNow(s) = None
  <2>1. /\ pc[s] = "annotate" /\ K(s) \in Key /\ req[s] \in Request /\ req[s].op = "add_header"
        /\ WriteGranted(s) /\ writer' = s /\ pc'[s] = "save"
        /\ entry'[s] = HeaderAdded(req[s], index[K(s)])
        /\ UNCHANGED <<disk, index, req, temp>>
    BY <1>5 DEF AddHeader, TakeWrite, Typed, TypeOK, HandlersOnTrack, Goto, files
  <2>2. writer = None /\ \A k \in Key : ~Ahead(k)
    BY <2>1 DEF WriteGranted, Ahead
  <2>3. index[K(s)] # None /\ index[K(s)] \in Entries
    BY <1>5, <2>1, AddHeaderType DEF AddHeaderRefusedNow, Typed, TypeOK
  <2>4. disk[K(s)] # None /\ Describes(index[K(s)], disk[K(s)], etagged)
    BY <2>1, <2>2, <2>3 DEF IndexDescribes
  <2>5. /\ entry'[s].size = index[K(s)].size /\ entry'[s].modified = index[K(s)].modified
        /\ entry'[s].etag = index[K(s)].etag
    BY <2>1, <2>3 DEF HeaderAdded, Entries
  <2>6. Describes(entry'[s], disk[K(s)], etagged)
    BY <2>4, <2>5 DEF Describes
  <2>7. \A t \in Slot \ {s} : pc'[t] \notin Between
    BY <2>1, OthersAreNotBetween DEF LockDiscipline, Writing, Between
  <2>8. WritersDescribe(etagged)'
    BY <1>1, <2>1, <2>4, <2>6, <2>7 DEF WritersDescribe, OthersStay, StayPut, Between, K
  <2>9. IndexDescribes(etagged)'
    BY <2>1, <2>2 DEF IndexDescribes
  <2>10. QED
    BY <2>8, <2>9
<1>6. CASE Publish(s) \/ DeleteForget(s)
  <2> DEFINE new == IF pc[s] = "save" THEN entry[s] ELSE None
  <2>1. /\ pc[s] \in Between /\ K(s) \in Key
        /\ pc[s] = "save" => entry[s] # None
        /\ index' = [index EXCEPT ![K(s)] = new]
        /\ pc'[s] = "done" /\ UNCHANGED disk
    BY <1>6 DEF Publish, DeleteForget, RemoveEntry, Typed, TypeOK, HandlersOnTrack, Between, Goto
  <2>2. writer = s
    BY <2>1 DEF LockDiscipline, Writing, Between
  <2>3. IF disk[K(s)] = None THEN new = None
                             ELSE new # None /\ Describes(new, disk[K(s)], etagged)
    BY <2>1 DEF WritersDescribe, Between
  <2> HIDE DEF new
  <2>4. \A k \in Key \ {K(s)} : ~Ahead(k)
    BY <2>2, OthersAreNotBetween
  <2>5. IndexDescribes(etagged)'
    BY <2>1, <2>3, <2>4 DEF IndexDescribes, Typed, TypeOK
  <2>6. WritersDescribe(etagged)'
    BY <1>1, <2>1, <2>2, WriterIsAlone, OthersAreNotBetween
       DEF WritersDescribe, OthersStay, StayPut, Between, K
  <2>7. QED
    BY <2>5, <2>6
<1>7. QED
  BY <1>2, <1>3, <1>4, <1>5, <1>6

-----------------------------------------------------------------------------
(* Without multipart uploads and restarts an ETag is the content's MD5.    *)
ContentMd5 == {<<Md5(data), data>> : data \in Seq(Frame)}

Consistent ==
  ConditionsHold /\ IndexDescribes(ContentMd5) /\ WritersDescribe(ContentMd5)

(* An entry that describes a file under its MD5 is the file's entry.       *)
LEMMA DescribedIsEntryOf ==
  ASSUME NEW e \in Entries, NEW file, Describes(e, file, ContentMd5)
  PROVE  e = EntryOf(file.data, file.mtime, e.headers)
<1>1. e.etag = Md5(file.data)
  BY DEF Describes, ContentMd5
<1>2. e = [size |-> e.size, modified |-> e.modified, etag |-> e.etag, headers |-> e.headers]
  BY DEF Entries
<1>3. QED
  BY <1>1, <1>2 DEF Describes, EntryOf

LEMMA ConsistentMeans ==
  ASSUME Typed, Consistent
  PROVE  /\ IndexMatchesDisk
         /\ \A s \in Slot : pc[s] \in {"commit", "rename"} => entry[s] = EntryWritten(s)
<1>1. ASSUME NEW k \in Key, ~Ahead(k), disk[k] # None
      PROVE  index[k] # None /\ index[k] = EntryOf(disk[k].data, disk[k].mtime, index[k].headers)
  <2>1. index[k] # None /\ Describes(index[k], disk[k], ContentMd5)
    BY <1>1 DEF Consistent, IndexDescribes
  <2>2. index[k] \in Entries
    BY <2>1 DEF Typed, TypeOK
  <2>3. QED
    BY <2>1, <2>2, DescribedIsEntryOf
<1>2. ASSUME NEW s \in Slot, pc[s] \in {"commit", "rename"}
      PROVE  entry[s] = EntryWritten(s)
  <2>1. Describes(entry[s], temp[s], ContentMd5)
    BY <1>2 DEF Consistent, WritersDescribe
  <2>2. entry[s] \in Entries /\ entry[s].headers = req[s].headers
    BY <1>2 DEF Typed, TypeOK, HandlersOnTrack
  <2>3. QED
    BY <2>1, <2>2, DescribedIsEntryOf DEF EntryWritten
<1>3. QED
  BY <1>1, <1>2 DEF IndexMatchesDisk, Consistent, IndexDescribes

(* No step breaks the agreement of index, files and handlers.              *)
LEMMA ConsistentStep ==
  ASSUME Typed, LockDiscipline, Typed', LockDiscipline', Consistent, [Next]_vars
  PROVE  Consistent'
<1>1. CASE UNCHANGED vars \/ Tick
  BY <1>1 DEF Tick, vars, files, lock, local, Consistent, ConditionsHold, IndexDescribes,
              WritersDescribe, Ahead, K
<1>2. ASSUME NEW s \in Slot, SlotStep(s) PROVE Consistent'
  <2>1. ConditionsHold'
    BY <1>2, ConditionsStep DEF Consistent
  <2>2. \A data \in Seq(Frame) : <<Md5(data), data>> \in ContentMd5
    BY DEF ContentMd5
  <2>3. IndexDescribes(ContentMd5)' /\ WritersDescribe(ContentMd5)'
    BY <1>2, <2>2, DescribedStep DEF Consistent
  <2>4. QED
    BY <2>1, <2>3 DEF Consistent
<1>3. QED
  BY <1>1, <1>2 DEF Next

LEMMA DescribedInit ==
  ASSUME Init, NEW etagged, \A data \in Seq(Frame) : <<Md5(data), data>> \in etagged
  PROVE  IndexDescribes(etagged) /\ WritersDescribe(etagged)
<1>1. ASSUME NEW k \in Key, disk[k] # None
      PROVE  index[k] # None /\ Describes(index[k], disk[k], etagged)
  <2>1. /\ index[k] = EntryOf(disk[k].data, 0, << >>)
        /\ \E data \in Content : disk[k] = File(data, 0)
    BY <1>1 DEF Init
  <2>2. disk[k].mtime = 0 /\ disk[k].data \in Seq(Frame)
    BY <2>1, StoreAssumption DEF File
  <2>3. index[k] \in Entries
    BY <2>1, <2>2, EntryOfType, HeadersType
  <2>4. QED
    BY <2>1, <2>2, <2>3, NoneIsNone DEF Describes, EntryOf
<1>2. \A k \in Key : disk[k] = None => index[k] = None
  BY DEF Init
<1>3. IndexDescribes(etagged)
  BY <1>1, <1>2 DEF IndexDescribes
<1>4. WritersDescribe(etagged)
  BY DEF Init, WritersDescribe
<1>5. QED
  BY <1>3, <1>4

(* The inductive invariant of everything below.                            *)
LEMMA AlwaysConsistent == Spec => [](Typed /\ LockDiscipline /\ Consistent)
<1>1. Init => Consistent
  <2> SUFFICES ASSUME Init PROVE Consistent
    OBVIOUS
  <2>1. IndexDescribes(ContentMd5) /\ WritersDescribe(ContentMd5)
    BY DescribedInit DEF ContentMd5
  <2>2. ConditionsHold
    BY DEF Init, ConditionsHold
  <2>3. QED
    BY <2>1, <2>2 DEF Consistent
<1>2. Init => Typed /\ LockDiscipline
  BY TypedInit, LockInit
<1>3. Typed /\ LockDiscipline /\ [Next]_vars => (Typed /\ LockDiscipline)'
  BY TypedStep, LockStep
<1>4. Typed /\ LockDiscipline /\ (Typed /\ LockDiscipline)' /\ Consistent /\ [Next]_vars => Consistent'
  BY ConsistentStep
<1>5. QED
  BY <1>1, <1>2, <1>3, <1>4, PTL DEF Spec

(* The index tells the truth about the files, whatever fails.              *)
THEOREM IndexIsTrue == Spec => []IndexMatchesDisk
<1>1. Typed /\ Consistent => IndexMatchesDisk
  BY ConsistentMeans
<1>2. QED
  BY <1>1, AlwaysConsistent, PTL

-----------------------------------------------------------------------------
(* No lost update: an entry changes only in the last step of a writer,     *)
(* whose conditions still hold of it.                                      *)
LEMMA UpdateStep ==
  ASSUME Typed, LockDiscipline, ConditionsHold, [Next]_vars,
         NEW k \in Key, index'[k] # index[k]
  PROVE  /\ writer # None /\ K(writer) = k
         /\ req[writer].op = "put" => PutRefused(req[writer], index[k]) = None
         /\ req[writer].op = "delete" => DeleteRefused(req[writer], index[k]) = None
         /\ req[writer].op = "add_header" =>
              index[k] # None /\ index'[k] = HeaderAdded(req[writer], index[k])
<1>1. PICK s \in Slot : Publish(s) \/ DeleteForget(s)
  <2>1. index' # index
    OBVIOUS
  <2>2. ~UNCHANGED vars /\ ~Tick
    BY <2>1 DEF vars, Tick
  <2>3. ASSUME NEW s \in Slot, NEW r \in Request PROVE ~Receive(s, r)
    BY <2>1 DEF Receive
  <2>4. ASSUME NEW s \in Slot, PutReceive(s) \/ PutBreak(s) \/ Return(s) PROVE FALSE
    BY <2>1, <2>4 DEF PutReceive, PutBreak, Return
  <2>5. ASSUME NEW s \in Slot, Handle(s) PROVE Publish(s) \/ DeleteForget(s)
    BY <2>1, <2>5
       DEF Handle, Reject, Dispatch, PutResolve, PutEarlyCheck, PutCreate, PutReceived, PutCommit,
           PutRename, PutRenameFails, PutDiscard, DeleteEvaluate, DeleteUnlink,
           DeleteUnlinkFails, GetLookup, GetOpen, GetOpenFails, AddHeader
  <2>6. QED
    BY <2>2, <2>3, <2>4, <2>5 DEF Next, SlotStep
<1>2. pc[s] \in {"save", "uncache"} /\ K(s) \in Key /\ K(s) = k
  <2>1. pc[s] \in {"save", "uncache"} /\ \E new : index' = [index EXCEPT ![K(s)] = new]
    BY <1>1 DEF Publish, DeleteForget, RemoveEntry
  <2>2. K(s) \in Key
    BY <2>1 DEF Typed, HandlersOnTrack
  <2>3. QED
    BY <2>1, <2>2 DEF Typed, TypeOK
<1>3. writer = s /\ s # None
  BY <1>2, WriterIsAlone, StoreAssumption DEF Writing
<1>4. pc[s] = "save" =>
        /\ req[s].op \in {"put", "add_header"}
        /\ req[s].op = "put" => PutRefused(req[s], index[k]) = None
        /\ req[s].op = "add_header" => index[k] # None /\ index'[k] = HeaderAdded(req[s], index[k])
  <2>1. pc[s] = "save" => index' = [index EXCEPT ![K(s)] = entry[s]]
    BY <1>1 DEF Publish, DeleteForget
  <2>2. pc[s] = "save" => index'[k] = entry[s]
    BY <1>2, <2>1 DEF Typed, TypeOK
  <2>3. QED
    BY <1>2, <2>2 DEF Typed, HandlersOnTrack, ConditionsHold
<1>5. pc[s] = "uncache" => req[s].op = "delete" /\ DeleteRefused(req[s], index[k]) = None
  BY <1>2 DEF Typed, HandlersOnTrack, DeleteLabel, ConditionsHold
<1>6. QED
  BY <1>2, <1>3, <1>4, <1>5

(* An object changes only by a request whose conditions hold of the object *)
(* that goes away: the early check may be stale, the second one is not.    *)
THEOREM UpdatesAreNotLost == Spec => NoLostUpdate
<1> DEFINE Update ==
      \A k \in Key : index'[k] # index[k] =>
        /\ writer # None /\ K(writer) = k
        /\ req[writer].op = "put" => PutRefused(req[writer], index[k]) = None
        /\ req[writer].op = "delete" => DeleteRefused(req[writer], index[k]) = None
        /\ req[writer].op = "add_header" =>
             index[k] # None /\ index'[k] = HeaderAdded(req[writer], index[k])
<1>1. Typed /\ LockDiscipline /\ Consistent /\ [Next]_vars => [Update]_vars
  BY UpdateStep DEF Consistent
<1>2. QED
  BY <1>1, AlwaysConsistent, PTL DEF Spec, NoLostUpdate

-----------------------------------------------------------------------------
(* GETs tell the truth. *)

Truthful(answer) ==
  /\ answer.code \in {"Ok", "PartialContent"} => Len(answer.data) = answer.length
  /\ answer.code = "Ok" => answer.etag = Md5(answer.data)

OtherAnswersStay(s) ==
  \A t \in Slot \ {s} : req'[t] = req[t] /\ resp'[t] = resp[t]

(* An answer stays true as long as its request and itself stay.            *)
LEMMA TruthKept ==
  ASSUME TruthfulGet, NEW s \in Slot, OtherAnswersStay(s),
         resp'[s] # None /\ req'[s].op = "get" => Truthful(resp'[s])
  PROVE  TruthfulGet'
BY DEF TruthfulGet, Truthful, OtherAnswersStay

(* Writers settle answers too, but not to a GET.                           *)
LEMMA WritersDoNotGet ==
  ASSUME Typed, NEW s \in Slot,
         \/ PutResolve(s) \/ PutEarlyCheck(s) \/ PutCreate(s) \/ PutReceive(s) \/ PutBreak(s)
         \/ PutReceived(s) \/ PutCommit(s) \/ PutRename(s) \/ PutRenameFails(s)
         \/ Publish(s) \/ PutDiscard(s)
         \/ DeleteEvaluate(s) \/ DeleteUnlink(s) \/ DeleteUnlinkFails(s) \/ DeleteForget(s)
         \/ AddHeader(s)
  PROVE  OtherAnswersStay(s) /\ req'[s].op # "get"
<1>1. /\ pc[s] \in PutLabel \cup DeleteLabel \cup {"annotate", "save"}
      /\ req' = req
      /\ resp' = resp \/ \E answer : resp' = [resp EXCEPT ![s] = answer]
  BY DEF PutLabel, DeleteLabel, Finish, Settle, Await,
         PutResolve, PutEarlyCheck, PutCreate, PutReceive, PutBreak, PutReceived, PutCommit,
         PutRename, PutRenameFails, Publish, PutDiscard,
         DeleteEvaluate, DeleteUnlink, DeleteUnlinkFails, DeleteForget, AddHeader
<1>2. req[s].op # "get"
  BY <1>1 DEF Typed, HandlersOnTrack
<1>3. QED
  BY <1>1, <1>2 DEF OtherAnswersStay, Typed, TypeOK

(* The only step that settles a 200 or 206 of a GET opens the file the     *)
(* entry in hand describes.                                                *)
LEMMA TruthfulStep ==
  ASSUME Typed, LockDiscipline, Consistent, TruthfulGet, [Next]_vars
  PROVE  TruthfulGet'
<1>1. CASE UNCHANGED vars
  BY <1>1 DEF vars, local, TruthfulGet
<1>2. CASE Tick
  BY <1>2 DEF Tick, local, TruthfulGet
<1>3. ASSUME NEW s \in Slot, NEW r \in Request, Receive(s, r) PROVE TruthfulGet'
  <2>1. OtherAnswersStay(s) /\ resp'[s] = None
    BY <1>3 DEF Receive, OtherAnswersStay, Typed, TypeOK
  <2>2. QED
    BY <2>1, TruthKept
<1>4. ASSUME NEW s \in Slot, Return(s) PROVE TruthfulGet'
  <2>1. OtherAnswersStay(s) /\ resp'[s] = None
    BY <1>4 DEF Return, OtherAnswersStay, Typed, TypeOK
  <2>2. QED
    BY <2>1, TruthKept
<1>5. ASSUME NEW s \in Slot, NEW op, NEW label, Dispatch(s, op, label) PROVE TruthfulGet'
  BY <1>5 DEF Dispatch, TruthfulGet
<1>6. ASSUME NEW s \in Slot,
             \/ PutResolve(s) \/ PutEarlyCheck(s) \/ PutCreate(s) \/ PutReceive(s) \/ PutBreak(s)
             \/ PutReceived(s) \/ PutCommit(s) \/ PutRename(s) \/ PutRenameFails(s)
             \/ Publish(s) \/ PutDiscard(s)
             \/ DeleteEvaluate(s) \/ DeleteUnlink(s) \/ DeleteUnlinkFails(s) \/ DeleteForget(s)
             \/ AddHeader(s)
      PROVE  TruthfulGet'
  BY <1>6, WritersDoNotGet, TruthKept
<1>7. ASSUME NEW s \in Slot, Reject(s) PROVE TruthfulGet'
  <2>1. req[s] \in Request
    BY <1>7 DEF Reject, Typed, TypeOK
  <2>2. OtherAnswersStay(s) /\ req'[s] = req[s] /\ resp'[s] = Invalid(req[s]) /\ Invalid(req[s]) # None
    BY <1>7 DEF Reject, Finish, Settle, OtherAnswersStay, Typed, TypeOK
  <2>3. req[s].op = "get" => Invalid(req[s]) = GetInvalid(req[s])
    BY DEF Invalid, First, RefuseIf
  <2>4. GetInvalid(req[s]) # None => GetInvalid(req[s]).code \notin {"Ok", "PartialContent"}
    BY <2>1, RefusedCode
  <2>5. QED
    BY <2>2, <2>3, <2>4, TruthKept DEF Truthful
<1>8. ASSUME NEW s \in Slot, GetLookup(s) PROVE TruthfulGet'
  <2>1. req[s] \in Request /\ index[K(s)] \in Entries \cup {None} /\ resp[s] = None
    BY <1>8 DEF GetLookup, Typed, TypeOK, HandlersOnTrack
  <2>2. OtherAnswersStay(s)
    BY <1>8 DEF GetLookup, Finish, Settle, OtherAnswersStay, Typed, TypeOK
  <2>3. CASE GetRefusedNow(s) # None
    <3>1. resp'[s] = GetRefusedNow(s)
      BY <1>8, <2>3 DEF GetLookup, Finish, Settle, Typed, TypeOK
    <3>2. GetRefusedNow(s).code \notin {"Ok", "PartialContent"}
      BY <2>1, <2>3, RefusedCode DEF GetRefusedNow
    <3>3. QED
      BY <2>2, <3>1, <3>2, TruthKept DEF Truthful
  <2>4. CASE GetRefusedNow(s) = None
    <3>1. resp'[s] = None
      BY <1>8, <2>1, <2>4 DEF GetLookup
    <3>2. QED
      BY <2>2, <3>1, TruthKept
  <2>5. QED
    BY <2>3, <2>4
<1>9. ASSUME NEW s \in Slot, GetOpen(s) PROVE TruthfulGet'
  <2> DEFINE data == disk[K(s)].data
             answer == GetDone(req[s], entry[s], data)
  <2>1. pc[s] = "open" /\ K(s) \in Key /\ disk[K(s)] # None
    BY <1>9 DEF GetOpen, Typed, HandlersOnTrack
  <2>2. /\ req[s] \in Request /\ data \in Seq(Frame) /\ entry[s] \in Entries
        /\ GetRefused(req[s], entry[s]) = None
    BY <2>1 DEF Typed, TypeOK, HandlersOnTrack, FileSet
  <2>3. ~Ahead(K(s))
    BY <2>1 DEF LockDiscipline, Ahead
  <2>4. entry[s] = EntryOf(data, disk[K(s)].mtime, index[K(s)].headers)
    BY <2>1, <2>3, ConsistentMeans DEF IndexMatchesDisk, Consistent, ConditionsHold
  <2>5. Truthful(answer)
    BY <2>2, <2>4, GetDoneTruthful DEF Truthful
  <2>6. OtherAnswersStay(s) /\ resp'[s] = answer
    BY <1>9 DEF GetOpen, Finish, Settle, OtherAnswersStay, Typed, TypeOK
  <2>7. QED
    BY <2>5, <2>6, TruthKept
<1>10. ASSUME NEW s \in Slot, GetOpenFails(s) PROVE TruthfulGet'
  <2>1. OtherAnswersStay(s) /\ resp'[s] = InternalError /\ req[s] \in Request
    BY <1>10 DEF GetOpenFails, Finish, Settle, OtherAnswersStay, Typed, TypeOK
  <2>2. InternalError.code \notin {"Ok", "PartialContent"}
    BY <2>1, RefusedCode
  <2>3. QED
    BY <2>1, <2>2, TruthKept DEF Truthful
<1>11. QED
  BY <1>1, <1>2, <1>3, <1>4, <1>5, <1>6, <1>7, <1>8, <1>9, <1>10 DEF Next, SlotStep, Handle

(* No GET pairs the headers of one object with the bytes of another, or    *)
(* sends more or fewer bytes than it announced.                            *)
THEOREM GetsAreTruthful == Spec => []TruthfulGet
<1>1. Init => TruthfulGet
  BY DEF Init, TruthfulGet
<1>2. Typed /\ LockDiscipline /\ Consistent /\ TruthfulGet /\ [Next]_vars => TruthfulGet'
  BY TruthfulStep
<1>3. QED
  BY <1>1, <1>2, AlwaysConsistent, PTL DEF Spec

-----------------------------------------------------------------------------
(* Sequences with the same elements are the same.                          *)
LEMMA SameSequence ==
  ASSUME NEW S, NEW a \in Seq(S), NEW b \in Seq(S), Len(a) = Len(b),
         \A i \in 1 .. Len(a) : a[i] = b[i]
  PROVE  a = b
  OBVIOUS

(* A handler that has begun has a request it need not refuse unseen, and a *)
(* PUT about to commit has the whole body in its temporary file.           *)
Whole(s) == temp[s].data = req[s].body

SoFar(s) ==
  /\ Len(temp[s].data) <= Len(req[s].body)
  /\ \A i \in 1 .. Len(temp[s].data) : temp[s].data[i] = req[s].body[i]

AdmittedHere(s) ==
  /\ pc[s] \in {"check", "create", "body", "commit", "rename"} => PutInvalid(req[s]) = None
  /\ pc[s] \in {"evaluate", "unlink"} => DeleteInvalid(req[s]) = None
  /\ pc[s] \in {"lookup", "open"} => GetInvalid(req[s]) = None
  /\ pc[s] = "annotate" => AddHeaderInvalid(req[s]) = None
  /\ pc[s] = "body" => SoFar(s)
  /\ pc[s] \in {"commit", "rename"} => Whole(s)

Admitted == \A s \in Slot : AdmittedHere(s)

(* A step of a handler keeps it so: a frame received is the next one of the*)
(* body, and a handler goes on only with a request it has not refused.     *)
LEMMA AdmittedMoves ==
  ASSUME Typed, NEW s \in Slot, AdmittedHere(s), SlotStep(s)
  PROVE  AdmittedHere(s)'
<1> USE DEF Typed, TypeOK, HandlersOnTrack, PutLabel, DeleteLabel, GetLabel,
            AdmittedHere, SoFar, Whole, Goto, Settle, Finish, Await
<1>1. CASE \E r \in Request : Receive(s, r)
  BY <1>1 DEF Receive
<1>2. CASE PutReceive(s)
  <2> DEFINE old == temp[s].data
             body == req[s].body
             next == body[Len(old) + 1]
  <2>1. /\ pc[s] = "body" /\ pc' = pc /\ req' = req
        /\ temp' = [temp EXCEPT ![s] = File(Append(old, next), now)]
        /\ Len(old) < Len(body)
    BY <1>2 DEF PutReceive, MoreToReceive, Received
  <2>2. old \in Seq(Frame) /\ body \in Seq(Frame)
    BY <2>1, RequestAssumption DEF FileSet
  <2>3. temp'[s].data = Append(old, next)
    BY <2>1 DEF File
  <2>4. /\ Len(Append(old, next)) = Len(old) + 1 /\ Len(old) + 1 <= Len(body)
        /\ \A i \in 1 .. Len(old) + 1 : Append(old, next)[i] = body[i]
    BY <2>1, <2>2
  <2> HIDE DEF old, body, next
  <2>5. SoFar(s)'
    <3>1. Len(temp'[s].data) <= Len(req'[s].body)
      BY <2>1, <2>3, <2>4 DEF body
    <3>2. \A i \in 1 .. Len(temp'[s].data) : temp'[s].data[i] = req'[s].body[i]
      <4>1. Len(temp'[s].data) = Len(old) + 1 /\ req'[s].body = body
        BY <2>1, <2>3, <2>4 DEF body
      <4>2. QED
        BY <2>3, <2>4, <4>1
    <3>3. QED
      BY <3>1, <3>2
  <2>6. QED
    BY <2>1, <2>5
<1>3. CASE PutBreak(s) \/ Return(s)
  BY <1>3 DEF PutBreak, Return
<1>4. CASE Reject(s)
  BY <1>4 DEF Reject
<1>5. CASE \/ Dispatch(s, "put", "resolve") \/ Dispatch(s, "delete", "evaluate")
           \/ Dispatch(s, "get", "lookup") \/ Dispatch(s, "add_header", "annotate")
  BY <1>5 DEF Dispatch, Invalid, First, RefuseIf
<1>6. CASE PutResolve(s)
  BY <1>6 DEF PutResolve
<1>7. CASE PutEarlyCheck(s)
  BY <1>7 DEF PutEarlyCheck
<1>8. CASE PutCreate(s)
  BY <1>8 DEF PutCreate, File
<1>9. CASE PutReceived(s)
  <2>1. /\ pc[s] = "body" /\ pc'[s] = "commit" /\ UNCHANGED <<req, temp>>
        /\ ~(Len(temp[s].data) < Len(req[s].body))
    BY <1>9 DEF PutReceived, MoreToReceive, Received
  <2>2. temp[s].data \in Seq(Frame) /\ req[s].body \in Seq(Frame)
    BY <2>1, RequestAssumption DEF FileSet
  <2>3. temp[s].data = req[s].body
    <3>1. Len(temp[s].data) = Len(req[s].body)
      BY <2>1, <2>2
    <3>2. QED
      BY <2>1, <2>2, <3>1, SameSequence
  <2>4. QED
    BY <2>1, <2>3
<1>10. CASE PutCommit(s)
  BY <1>10 DEF PutCommit
<1>11. CASE PutRename(s) \/ PutRenameFails(s) \/ Publish(s) \/ PutDiscard(s)
  BY <1>11 DEF PutRename, PutRenameFails, Publish, PutDiscard
<1>12. CASE DeleteEvaluate(s)
  BY <1>12 DEF DeleteEvaluate
<1>13. CASE DeleteUnlink(s) \/ DeleteUnlinkFails(s) \/ DeleteForget(s)
  BY <1>13 DEF DeleteUnlink, DeleteUnlinkFails, DeleteForget
<1>14. CASE GetLookup(s)
  BY <1>14 DEF GetLookup
<1>15. CASE GetOpen(s) \/ GetOpenFails(s) \/ AddHeader(s)
  BY <1>15 DEF GetOpen, GetOpenFails, AddHeader
<1>16. QED
  BY <1>1, <1>2, <1>3, <1>4, <1>5, <1>6, <1>7, <1>8, <1>9, <1>10, <1>11, <1>12, <1>13,
     <1>14, <1>15 DEF SlotStep, Handle

(* Every handler is admitted all the time.                                 *)
LEMMA AdmittedStep ==
  ASSUME Typed, Admitted, [Next]_vars
  PROVE  Admitted'
<1>1. ASSUME UNCHANGED local PROVE Admitted'
  BY <1>1 DEF Admitted, AdmittedHere, SoFar, Whole, local
<1>2. ASSUME NEW s \in Slot, SlotStep(s) PROVE Admitted'
  <2>1. OthersStay(s) /\ AdmittedHere(s)'
    BY <1>2, AdmittedMoves, OnlyOneMoves DEF Admitted
  <2>2. ASSUME NEW t \in Slot \ {s} PROVE AdmittedHere(t)'
    <3>1. AdmittedHere(t) /\ pc'[t] = pc[t] /\ req'[t] = req[t] /\ temp'[t] = temp[t]
      BY <2>1 DEF Admitted, OthersStay, StayPut
    <3>2. QED
      BY <3>1 DEF AdmittedHere, SoFar, Whole
  <2>3. QED
    BY <2>1, <2>2 DEF Admitted
<1>3. QED
  BY <1>1, <1>2 DEF Next, Tick, vars

LEMMA AlwaysAdmitted == Spec => []Admitted
<1>1. Init => Admitted
  BY DEF Init, Admitted, AdmittedHere
<1>2. Typed /\ Admitted /\ [Next]_vars => Admitted'
  BY AdmittedStep
<1>3. QED
  BY <1>1, <1>2, AlwaysConsistent, PTL DEF Spec

-----------------------------------------------------------------------------
(* What the refinement rests on: all that is known of the state.           *)
Sound == Typed /\ LockDiscipline /\ Consistent /\ Admitted

(* What clients see in the store stays as it is.                           *)
ViewKept == \A k \in Key : Stored(k)' = Stored(k)

(* A handler that is not between its two steps on the files changes nothing*)
(* that clients see, unless it changes the files or the index itself.      *)
LEMMA StoredStays ==
  ASSUME Typed, LockDiscipline, Typed', LockDiscipline', NEW s \in Slot, OthersStay(s),
         disk' = disk, index' = index,
         pc[s] \notin {"save", "uncache"}, pc'[s] \notin {"save", "uncache"}
  PROVE  ViewKept
<1> SUFFICES ASSUME NEW k \in Key PROVE Stored(k)' = Stored(k)
  BY DEF ViewKept
<1>1. \A t \in Slot : pc'[t] \in {"save", "uncache"} => writer' = t
  BY DEF LockDiscipline, Writing
<1>2. Ahead(k)' <=> \E t \in Slot : pc'[t] \in {"save", "uncache"} /\ K(t)' = k
  BY <1>1, StoreAssumption DEF Typed, TypeOK, Ahead
<1>3. \A t \in Slot \ {s} : pc'[t] = pc[t] /\ K(t)' = K(t) /\ entry'[t] = entry[t]
  BY DEF OthersStay, StayPut, K
<1>4. Ahead(k)' <=> Ahead(k)
  BY <1>2, <1>3, AheadIsWriting
<1>5. Ahead(k) => writer' = writer /\ entry'[writer] = entry[writer]
  BY <1>1, <1>3 DEF Ahead, Typed, TypeOK
<1>6. QED
  BY <1>4, <1>5 DEF Stored, HeadersServed

(* What the atomic specification says of keys, entries and answers is what *)
(* the handlers compute: its operators are the same, one level at a time.  *)
LEMMA SameOperators ==
  /\ Atomic!Key = Key
  /\ \A r : Atomic!KeyOf(r) = KeyOf(r)
  /\ \A d, m, h : Atomic!EntryOf(d, m, h) = EntryOf(d, m, h)
  /\ Atomic!InternalError = InternalError
  /\ \A r : Atomic!PutInvalid(r) = PutInvalid(r)
  /\ \A r : Atomic!DeleteInvalid(r) = DeleteInvalid(r)
  /\ \A r : Atomic!GetInvalid(r) = GetInvalid(r)
  /\ \A r : Atomic!AddHeaderInvalid(r) = AddHeaderInvalid(r)
  /\ \A r, e : Atomic!PutRefused(r, e) = PutRefused(r, e)
  /\ \A r, e : Atomic!DeleteRefused(r, e) = DeleteRefused(r, e)
  /\ \A r, e : Atomic!AddHeaderRefused(r, e) = AddHeaderRefused(r, e)
  /\ \A r, e : Atomic!HeaderAdded(r, e) = HeaderAdded(r, e)
  /\ \A r, e : Atomic!GetRefused(r, e) = GetRefused(r, e)
  /\ \A r, e, d : Atomic!GetDone(r, e, d) = GetDone(r, e, d)
  /\ \A e : Atomic!PutDone(e) = PutDone(e)
  /\ Atomic!DeleteDone = DeleteDone
  /\ Atomic!HeaderDone = HeaderDone
<1>1. \A t : Atomic!Secs(t) = Secs(t)
  BY DEF Atomic!Secs, Secs
<1>2. \A t : Atomic!HttpDate(t) = HttpDate(t)
  BY <1>1 DEF Atomic!HttpDate, HttpDate
<1>3. \A e, v : Atomic!EtagMatches(e, v) <=> EtagMatches(e, v)
  BY DEF Atomic!EtagMatches, EtagMatches
<1>4. Atomic!Star = Star
  BY DEF Atomic!Star, Star
<1>5. \A v : Atomic!FirstHeader(v) = FirstHeader(v)
  BY DEF Atomic!FirstHeader, FirstHeader
<1>6. \A v : Atomic!SingleHeaderError(v) = SingleHeaderError(v)
  BY DEF Atomic!SingleHeaderError, SingleHeaderError
<1>7. \A v : Atomic!SingleHeader(v) = SingleHeader(v)
  BY DEF Atomic!SingleHeader, SingleHeader
<1>8. \A v, w : Atomic!WriteHeadersError(v, w) = WriteHeadersError(v, w)
  BY <1>6 DEF Atomic!WriteHeadersError, WriteHeadersError
<1>9. \A m, t : Atomic!IsModifiedSince(m, t) <=> IsModifiedSince(m, t)
  BY <1>1 DEF Atomic!IsModifiedSince, IsModifiedSince
<1>10. \A e, m, v, t : Atomic!FailsPrecondition(e, m, v, t) <=> FailsPrecondition(e, m, v, t)
  BY <1>3 DEF Atomic!FailsPrecondition, FailsPrecondition
<1>11. \A e, m, v, t : Atomic!IsUnchanged(e, m, v, t) <=> IsUnchanged(e, m, v, t)
  BY <1>3, <1>9 DEF Atomic!IsUnchanged, IsUnchanged
<1>12. \A e, m, v, w, t, u : Atomic!Evaluate(e, m, v, w, t, u) = Evaluate(e, m, v, w, t, u)
  BY <1>10, <1>11 DEF Atomic!Evaluate, Evaluate
<1>13. \A e, v, w : Atomic!EvaluateWrite(e, v, w) = EvaluateWrite(e, v, w)
  BY <1>3, <1>4 DEF Atomic!EvaluateWrite, EvaluateWrite
<1>14. \A e, v : Atomic!EvaluateDelete(e, v) = EvaluateDelete(e, v)
  BY <1>3 DEF Atomic!EvaluateDelete, EvaluateDelete
<1>15. \A m, n : Atomic!SaturatingSub(m, n) = SaturatingSub(m, n)
  BY DEF Atomic!SaturatingSub, SaturatingSub
<1>16. \A m, n : Atomic!Lesser(m, n) = Lesser(m, n)
  BY DEF Atomic!Lesser, Lesser
<1>17. \A h : Atomic!WellFormed(h) <=> WellFormed(h)
  BY DEF Atomic!WellFormed, WellFormed
<1>18. \A h, n : Atomic!RangeStart(h, n) = RangeStart(h, n)
  BY <1>15 DEF Atomic!RangeStart, RangeStart
<1>19. \A h, n : Atomic!RangeEnd(h, n) = RangeEnd(h, n)
  BY <1>15, <1>16 DEF Atomic!RangeEnd, RangeEnd
<1>20. \A h, n : Atomic!Satisfiable(h, n) <=> Satisfiable(h, n)
  BY <1>18 DEF Atomic!Satisfiable, Satisfiable
<1>21. \A h, n : Atomic!ParseRange(h, n) = ParseRange(h, n)
  BY <1>17, <1>20, <1>18, <1>19 DEF Atomic!ParseRange, ParseRange
<1>22. \A g : Atomic!RangeLen(g) = RangeLen(g)
  BY DEF Atomic!RangeLen, RangeLen
<1>23. \A k : Atomic!IsBlank(k) <=> IsBlank(k)
  BY DEF Atomic!IsBlank, IsBlank
<1>24. \A k : Atomic!TrimLeadingSlashes(k) = TrimLeadingSlashes(k)
  <2>1. TAKE k
  <2>2. QED
    BY DEF Atomic!TrimLeadingSlashes, TrimLeadingSlashes, Atomic!IsBlank, IsBlank
<1>25. \A k : Atomic!SanitizeKey(k) = SanitizeKey(k)
  BY <1>24 DEF Atomic!SanitizeKey, SanitizeKey
<1>26. \A k : Atomic!ObjectKey(k) = ObjectKey(k)
  <2>1. TAKE k
  <2>2. QED
    BY Zenon DEF Atomic!ObjectKey, ObjectKey
<1>27. \A d : Atomic!Md5(d) = Md5(d)
  BY DEF Atomic!Md5, Md5
<1>28. \A d, m, h : Atomic!EntryOf(d, m, h) = EntryOf(d, m, h)
  BY <1>27 DEF Atomic!EntryOf, EntryOf
<1>29. \A e : Atomic!EtagOf(e) = EtagOf(e)
  BY DEF Atomic!EtagOf, EtagOf
<1>30. \A h : Atomic!Applied(h) = Applied(h)
  BY DEF Atomic!Applied, Applied
<1>31. \A h, n : Atomic!Positions(h, n) = Positions(h, n)
  BY DEF Atomic!Positions, Positions
<1>32. \A h, n : Atomic!FirstPosition(h, n) = FirstPosition(h, n)
  BY <1>31 DEF Atomic!FirstPosition, FirstPosition
<1>33. \A h, x : Atomic!Upserted(h, x) = Upserted(h, x)
  BY <1>31, <1>32 DEF Atomic!Upserted, Upserted
<1>34. \A r : Atomic!KeyOf(r) = KeyOf(r)
  BY <1>25, <1>26 DEF Atomic!KeyOf, KeyOf
<1>35. Atomic!Key = Key
  BY <1>34 DEF Atomic!Key, Key
<1>36. \A c, e, n, d : Atomic!Answer(c, e, n, d) = Answer(c, e, n, d)
  BY <1>29, <1>2, <1>30 DEF Atomic!Answer, Answer
<1>37. \A c : Atomic!Refusal(c) = Refusal(c)
  BY <1>36 DEF Atomic!Refusal, Refusal
<1>38. Atomic!InternalError = InternalError
  BY <1>37 DEF Atomic!InternalError, InternalError
<1>39. \A e : Atomic!PutDone(e) = PutDone(e)
  BY <1>37 DEF Atomic!PutDone, PutDone
<1>40. Atomic!DeleteDone = DeleteDone
  BY <1>37 DEF Atomic!DeleteDone, DeleteDone
<1>41. Atomic!HeaderDone = HeaderDone
  BY <1>37 DEF Atomic!HeaderDone, HeaderDone
<1>42. \A c, a : Atomic!RefuseIf(c, a) = RefuseIf(c, a)
  BY DEF Atomic!RefuseIf, RefuseIf
<1>43. \A a, b : Atomic!First(a, b) = First(a, b)
  BY DEF Atomic!First, First
<1>44. \A e : Atomic!HeaderRefusal(e) = HeaderRefusal(e)
  BY <1>42, <1>37 DEF Atomic!HeaderRefusal, HeaderRefusal
<1>45. \A r, c : Atomic!KeyRefusal(r, c) = KeyRefusal(r, c)
  BY <1>42, <1>34, <1>37 DEF Atomic!KeyRefusal, KeyRefusal
<1>46. \A r : Atomic!PutInvalid(r) = PutInvalid(r)
  BY <1>43, <1>45, <1>44, <1>8 DEF Atomic!PutInvalid, PutInvalid
<1>47. \A r : Atomic!DeleteInvalid(r) = DeleteInvalid(r)
  BY <1>43, <1>45, <1>44, <1>6 DEF Atomic!DeleteInvalid, DeleteInvalid
<1>48. \A r : Atomic!GetInvalid(r) = GetInvalid(r)
  BY <1>45 DEF Atomic!GetInvalid, GetInvalid
<1>49. \A r : Atomic!AddHeaderInvalid(r) = AddHeaderInvalid(r)
  BY <1>45 DEF Atomic!AddHeaderInvalid, AddHeaderInvalid
<1>50. \A r, e : Atomic!PutRefused(r, e) = PutRefused(r, e)
  BY <1>42, <1>13, <1>29, <1>7, <1>37 DEF Atomic!PutRefused, PutRefused
<1>51. \A r, e : Atomic!DeleteVerdict(r, e) = DeleteVerdict(r, e)
  BY <1>14, <1>29, <1>7 DEF Atomic!DeleteVerdict, DeleteVerdict
<1>52. \A r, e : Atomic!DeleteRefused(r, e) = DeleteRefused(r, e)
  BY <1>43, <1>42, <1>51, <1>37 DEF Atomic!DeleteRefused, DeleteRefused
<1>53. \A r, e : Atomic!AddHeaderRefused(r, e) = AddHeaderRefused(r, e)
  BY <1>43, <1>42, <1>37 DEF Atomic!AddHeaderRefused, AddHeaderRefused
<1>54. \A r, e : Atomic!HeaderAdded(r, e) = HeaderAdded(r, e)
  BY <1>33 DEF Atomic!HeaderAdded, HeaderAdded
<1>55. \A r, e : Atomic!GetVerdict(r, e) = GetVerdict(r, e)
  BY <1>12, <1>5 DEF Atomic!GetVerdict, GetVerdict
<1>56. \A r, n : Atomic!RangeRefusal(r, n) = RangeRefusal(r, n)
  BY <1>42, <1>21, <1>36 DEF Atomic!RangeRefusal, RangeRefusal
<1>57. \A r, e : Atomic!GetRefused(r, e) = GetRefused(r, e)
  BY <1>43, <1>42, <1>37, <1>55, <1>36, <1>56 DEF Atomic!GetRefused, GetRefused
<1>58. \A r, e, d : Atomic!GetDone(r, e, d) = GetDone(r, e, d)
  BY <1>21, <1>36, <1>22, <1>16 DEF Atomic!GetDone, GetDone
<1>59. QED
  BY <1>35, <1>34, <1>28, <1>38, <1>46, <1>47, <1>48, <1>49, <1>50, <1>52, <1>53, <1>54, <1>57, <1>58, <1>39, <1>40, <1>41

(* The refinement mapping is a function of what is stored.                 *)
LEMMA ViewIsKept ==
  ASSUME ViewKept
  PROVE  [k \in Key |-> Stored(k)]' = [k \in Key |-> Stored(k)]
BY DEF ViewKept

(* Where the index is not behind, it has the entry of what is stored: a    *)
(* condition evaluated against the index is evaluated against the object.  *)
LEMMA EntrySeen ==
  ASSUME Typed, Consistent, NEW k \in Key, ~Ahead(k)
  PROVE  Atomic!ObjectEntry(Stored(k)) = index[k]
<1>1. CASE disk[k] = None
  BY <1>1, ConsistentMeans DEF IndexMatchesDisk, Stored, Atomic!ObjectEntry
<1>2. CASE disk[k] # None
  <2>1. /\ index[k] # None /\ index[k] \in Entries /\ disk[k] \in FileSet
        /\ index[k] = EntryOf(disk[k].data, disk[k].mtime, index[k].headers)
    BY <1>2, ConsistentMeans DEF IndexMatchesDisk, Typed, TypeOK
  <2>2. Stored(k) = [data |-> disk[k].data, mtime |-> disk[k].mtime, headers |-> index[k].headers]
    BY <1>2 DEF Stored, HeadersServed
  <2>3. Stored(k) \in StoredObjects
    BY <2>1, <2>2, StoreAssumption DEF StoredObjects, FileSet, Entries
  <2>4. QED
    BY <2>1, <2>2, <2>3, NoneAssumption, SameOperators DEF Atomic!ObjectEntry
<1>3. QED
  BY <1>1, <1>2

(* The key of a handler that has the lock, the index being up to date.     *)
NotAhead(s) == K(s) \in Key /\ ~Ahead(K(s))

(* A request that is still to be answered.                                 *)
OpenRequest(s, op) == req[s] \in Request /\ req[s].op = op /\ resp[s] = None /\ req' = req

(* A refusal computed from the index is one the atomic store could give, of*)
(* a PUT, a DELETE, a GET (which may also succeed) or an add_header.       *)
LEMMA AtomicRefusePut ==
  ASSUME Typed, Consistent, NEW s \in Slot, OpenRequest(s, "put"), ViewKept,
         \/ PutInvalid(req[s]) # None /\ resp' = [resp EXCEPT ![s] = PutInvalid(req[s])]
         \/ /\ PutInvalid(req[s]) = None /\ NotAhead(s)
            /\ PutRefused(req[s], index[K(s)]) # None
            /\ resp' = [resp EXCEPT ![s] = PutRefused(req[s], index[K(s)])]
  PROVE  Atomic!RefusePut(s)
<1>1. Atomic!Pending(s, "put")
  BY RequestAssumption DEF OpenRequest, Atomic!Pending
<1>2. NotAhead(s) => Atomic!ObjectEntry([k \in Key |-> Stored(k)][KeyOf(req[s])]) = index[K(s)]
  BY EntrySeen DEF NotAhead, K
<1>3. QED
  BY <1>1, <1>2, ViewIsKept, SameOperators DEF OpenRequest, Atomic!RefusePut, Atomic!Settle

LEMMA AtomicRefuseDelete ==
  ASSUME Typed, Consistent, NEW s \in Slot, OpenRequest(s, "delete"), ViewKept,
         \/ DeleteInvalid(req[s]) # None /\ resp' = [resp EXCEPT ![s] = DeleteInvalid(req[s])]
         \/ /\ DeleteInvalid(req[s]) = None /\ NotAhead(s)
            /\ DeleteRefused(req[s], index[K(s)]) # None
            /\ resp' = [resp EXCEPT ![s] = DeleteRefused(req[s], index[K(s)])]
  PROVE  Atomic!RefuseDelete(s)
<1>1. Atomic!Pending(s, "delete")
  BY RequestAssumption DEF OpenRequest, Atomic!Pending
<1>2. NotAhead(s) => Atomic!ObjectEntry([k \in Key |-> Stored(k)][KeyOf(req[s])]) = index[K(s)]
  BY EntrySeen DEF NotAhead, K
<1>3. QED
  BY <1>1, <1>2, ViewIsKept, SameOperators DEF OpenRequest, Atomic!RefuseDelete, Atomic!Settle

LEMMA AtomicGet ==
  ASSUME Typed, Consistent, NEW s \in Slot, OpenRequest(s, "get"), ViewKept,
         \/ GetInvalid(req[s]) # None /\ resp' = [resp EXCEPT ![s] = GetInvalid(req[s])]
         \/ /\ GetInvalid(req[s]) = None /\ NotAhead(s)
            /\ \/ /\ GetRefused(req[s], index[K(s)]) # None
                  /\ resp' = [resp EXCEPT ![s] = GetRefused(req[s], index[K(s)])]
               \/ /\ GetRefused(req[s], index[K(s)]) = None
                  /\ disk[K(s)] # None
                  /\ resp' = [resp EXCEPT ![s] = GetDone(req[s], index[K(s)], disk[K(s)].data)]
  PROVE  Atomic!Get(s)
<1>1. Atomic!Pending(s, "get")
  BY RequestAssumption DEF OpenRequest, Atomic!Pending
<1>2. NotAhead(s) => /\ Atomic!ObjectEntry([k \in Key |-> Stored(k)][KeyOf(req[s])]) = index[K(s)]
                     /\ disk[K(s)] # None => [k \in Key |-> Stored(k)][KeyOf(req[s])].data = disk[K(s)].data
  BY EntrySeen DEF NotAhead, K, Stored
<1>3. QED
  BY <1>1, <1>2, ViewIsKept, SameOperators DEF OpenRequest, Atomic!Get, Atomic!Settle

LEMMA AtomicRefuseAddHeader ==
  ASSUME Typed, Consistent, NEW s \in Slot, OpenRequest(s, "add_header"), ViewKept,
         \/ AddHeaderInvalid(req[s]) # None /\ resp' = [resp EXCEPT ![s] = AddHeaderInvalid(req[s])]
         \/ /\ AddHeaderInvalid(req[s]) = None /\ NotAhead(s)
            /\ AddHeaderRefused(req[s], index[K(s)]) # None
            /\ resp' = [resp EXCEPT ![s] = AddHeaderRefused(req[s], index[K(s)])]
  PROVE  Atomic!AddHeader(s)
<1>1. Atomic!Pending(s, "add_header")
  BY RequestAssumption DEF OpenRequest, Atomic!Pending
<1>2. NotAhead(s) => Atomic!ObjectEntry([k \in Key |-> Stored(k)][KeyOf(req[s])]) = index[K(s)]
  BY EntrySeen DEF NotAhead, K
<1>3. QED
  BY <1>1, <1>2, ViewIsKept, SameOperators DEF OpenRequest, Atomic!AddHeader, Atomic!Settle

(* A failed file operation is a request that fails without any effect.     *)
LEMMA AtomicFail ==
  ASSUME NEW s \in Slot, req[s] \in Request, resp[s] = None, ViewKept, req' = req,
         resp' = [resp EXCEPT ![s] = InternalError]
  PROVE  Atomic!Fail(s)
BY ViewIsKept, SameOperators, RequestAssumption DEF Atomic!Fail, Atomic!Settle

(* The three steps that change what is stored, each under the write lock.  *)
OnlyStored(k, object) ==
  \A other \in Key : Stored(other)' = IF other = k THEN object ELSE Stored(other)

(* The rename is the PUT: the object becomes the request's whole body with *)
(* its headers, and the answer is that object's ETag.                      *)
LEMMA AtomicPut ==
  ASSUME Typed, LockDiscipline, Consistent, Admitted, NEW s \in Slot, PutRename(s)
  PROVE  Atomic!Put(s)
<1> USE DEF Typed, TypeOK
<1>1. /\ pc[s] = "rename" /\ K(s) \in Key /\ temp[s] \in FileSet /\ entry[s] = EntryWritten(s)
      /\ req[s] \in Request /\ req[s].op = "put" /\ resp[s] = None
      /\ disk' = [disk EXCEPT ![K(s)] = temp[s]] /\ pc' = [pc EXCEPT ![s] = "save"]
      /\ resp' = [resp EXCEPT ![s] = PutDone(entry[s])]
      /\ UNCHANGED <<index, req, entry, writer>>
  BY ConsistentMeans DEF PutRename, HandlersOnTrack, PutLabel, Goto, Settle, lock
<1>2. writer = s /\ s # None
  BY <1>1, WriterIsAlone, StoreAssumption DEF Writing
<1>3. \A k \in Key : /\ ~Ahead(k)
                     /\ Ahead(k)' <=> k = K(s)
  BY <1>1, <1>2 DEF Ahead, K
<1>4. PutInvalid(req[s]) = None /\ temp[s].data = req[s].body
      /\ PutRefused(req[s], index[K(s)]) = None
  BY <1>1 DEF Admitted, AdmittedHere, Whole, Consistent, ConditionsHold
<1> DEFINE object == [data |-> req[s].body, mtime |-> temp[s].mtime, headers |-> req[s].headers]
<1>5. OnlyStored(K(s), object)
  <2>1. ASSUME NEW k \in Key, k = K(s) PROVE Stored(k)' = object
    <3>1. disk'[k] = temp[s] /\ temp[s] # None
      BY <1>1, <2>1
    <3>2. HeadersServed(k)' = req[s].headers
      BY <1>1, <1>2, <1>3, <2>1 DEF HeadersServed, EntryWritten, EntryOf
    <3>3. QED
      BY <1>1, <1>4, <3>1, <3>2 DEF Stored
  <2>2. ASSUME NEW other \in Key \ {K(s)} PROVE Stored(other)' = Stored(other)
    BY <1>1, <1>3 DEF Stored, HeadersServed
  <2>3. QED
    BY <2>1, <2>2 DEF OnlyStored
<1>6. Atomic!ObjectEntry(object) = entry[s]
  <2>1. req[s].headers \in Headers /\ req[s].body \in Seq(Frame) /\ temp[s].mtime \in Nat
    BY <1>1, RequestAssumption, StoreAssumption DEF FileSet
  <2>2. object # None
    BY <2>1, NoneAssumption DEF StoredObjects
  <2>3. QED
    BY <1>1, <1>4, <2>2, SameOperators DEF Atomic!ObjectEntry, EntryWritten
<1>7. Atomic!ObjectEntry([k \in Key |-> Stored(k)][KeyOf(req[s])]) = index[K(s)]
  BY <1>1, <1>3, EntrySeen DEF K
<1>8. [k \in Key |-> Stored(k)]' = [[k \in Key |-> Stored(k)] EXCEPT ![KeyOf(req[s])] = object]
  BY <1>1, <1>5 DEF OnlyStored, K
<1>9. Atomic!Pending(s, "put") /\ temp[s].mtime \in 0 .. MaxTime
  BY <1>1, RequestAssumption DEF Atomic!Pending, FileSet
<1>10. Atomic!Object(req[s].body, temp[s].mtime, req[s].headers) = object
  BY DEF Atomic!Object
<1>11. K(s) = KeyOf(req[s])
  BY DEF K
<1> HIDE DEF object
<1>12. QED
  BY <1>1, <1>4, <1>6, <1>7, <1>8, <1>9, <1>10, <1>11, SameOperators DEF Atomic!Put, Atomic!Settle

(* The unlink is the DELETE of the object its conditions were checked on.  *)
LEMMA AtomicDelete ==
  ASSUME Typed, LockDiscipline, Consistent, Admitted, NEW s \in Slot, DeleteUnlink(s)
  PROVE  Atomic!Delete(s)
<1> USE DEF Typed, TypeOK
<1>1. /\ pc[s] = "unlink" /\ K(s) \in Key
      /\ req[s] \in Request /\ req[s].op = "delete" /\ resp[s] = None
      /\ disk' = [disk EXCEPT ![K(s)] = None] /\ pc' = [pc EXCEPT ![s] = "uncache"]
      /\ resp' = [resp EXCEPT ![s] = DeleteDone]
      /\ UNCHANGED <<index, req, entry, writer>>
  BY DEF DeleteUnlink, HandlersOnTrack, DeleteLabel, Goto, Settle, lock
<1>2. writer = s /\ s # None
  BY <1>1, WriterIsAlone, StoreAssumption DEF Writing
<1>3. \A k \in Key : /\ ~Ahead(k)
                     /\ Ahead(k)' <=> k = K(s)
  BY <1>1, <1>2 DEF Ahead, K
<1>4. DeleteInvalid(req[s]) = None /\ DeleteRefused(req[s], index[K(s)]) = None
  BY <1>1 DEF Admitted, AdmittedHere, Consistent, ConditionsHold
<1>5. OnlyStored(K(s), None)
  BY <1>1, <1>3 DEF OnlyStored, Stored, HeadersServed
<1>6. Atomic!ObjectEntry([k \in Key |-> Stored(k)][KeyOf(req[s])]) = index[K(s)]
  BY <1>1, <1>3, EntrySeen DEF K
<1>7. [k \in Key |-> Stored(k)]' = [[k \in Key |-> Stored(k)] EXCEPT ![KeyOf(req[s])] = None]
  BY <1>1, <1>5 DEF OnlyStored, K
<1>8. Atomic!Pending(s, "delete")
  BY <1>1, RequestAssumption DEF Atomic!Pending
<1>9. QED
  BY <1>1, <1>4, <1>6, <1>7, <1>8, SameOperators DEF Atomic!Delete, Atomic!Settle, K

(* Taking the write lock is the add_header: from then on the object has the*)
(* headers that the handler holds, whichever file is read.                 *)
LEMMA AtomicAddHeader ==
  ASSUME Typed, LockDiscipline, Consistent, Admitted, NEW s \in Slot, AddHeader(s),
         AddHeaderRefusedNow(s) = None
  PROVE  Atomic!AddHeader(s)
<1> USE DEF Typed, TypeOK
<1>1. /\ pc[s] = "annotate" /\ K(s) \in Key /\ req[s].op = "add_header" /\ req[s] \in Request
      /\ resp[s] = None /\ resp' = [resp EXCEPT ![s] = HeaderDone]
      /\ entry' = [entry EXCEPT ![s] = HeaderAdded(req[s], index[K(s)])]
      /\ pc' = [pc EXCEPT ![s] = "save"] /\ WriteGranted(s) /\ writer' = s
      /\ UNCHANGED <<disk, index, req>>
  BY DEF AddHeader, HandlersOnTrack, Goto, Settle, TakeWrite, files
<1>2. writer = None /\ s # None
  BY <1>1, StoreAssumption DEF WriteGranted
<1>3. \A k \in Key : /\ ~Ahead(k)
                     /\ Ahead(k)' <=> k = K(s)
  BY <1>1, <1>2 DEF Ahead, K
<1>4. /\ index[K(s)] # None /\ index[K(s)] \in Entries
      /\ disk[K(s)] # None
      /\ AddHeaderInvalid(req[s]) = None
  BY <1>1, <1>3, AddHeaderType, ConsistentMeans
     DEF IndexMatchesDisk, AddHeaderRefusedNow, Admitted, AdmittedHere
<1> DEFINE old == Stored(K(s))
           added == HeaderAdded(req[s], index[K(s)])
<1>5. OnlyStored(K(s), [old EXCEPT !.headers = added.headers])
  <2>1. old = [data |-> disk[K(s)].data, mtime |-> disk[K(s)].mtime, headers |-> index[K(s)].headers]
    BY <1>1, <1>3, <1>4 DEF Stored, HeadersServed
  <2>2. ASSUME NEW k \in Key, k = K(s) PROVE HeadersServed(k)' = added.headers
    BY <1>1, <1>2, <1>3, <2>2 DEF HeadersServed
  <2>3. ASSUME NEW k \in Key, k = K(s)
        PROVE  Stored(k)' = [data |-> disk[k].data, mtime |-> disk[k].mtime, headers |-> added.headers]
    BY <1>1, <1>4, <2>2, <2>3 DEF Stored
  <2>4. ASSUME NEW other \in Key \ {K(s)} PROVE Stored(other)' = Stored(other)
    BY <1>1, <1>3 DEF Stored, HeadersServed
  <2> HIDE DEF old, added
  <2>5. ASSUME NEW k \in Key, k = K(s) PROVE Stored(k)' = [old EXCEPT !.headers = added.headers]
    BY <2>1, <2>3, <2>5
  <2>6. QED
    BY <2>4, <2>5 DEF OnlyStored
<1>6. Atomic!ObjectEntry([k \in Key |-> Stored(k)][KeyOf(req[s])]) = index[K(s)]
  BY <1>1, <1>3, EntrySeen DEF K
<1>7. [k \in Key |-> Stored(k)]' =
        [[k \in Key |-> Stored(k)] EXCEPT ![KeyOf(req[s])].headers = added.headers]
  BY <1>1, <1>5 DEF OnlyStored, K
<1>8. Atomic!Pending(s, "add_header")
  BY <1>1, RequestAssumption DEF Atomic!Pending
<1>9. QED
  BY <1>1, <1>4, <1>6, <1>7, <1>8, SameOperators
     DEF Atomic!AddHeader, Atomic!Settle, AddHeaderRefusedNow, K

(* The index catches up with what clients have been promised already.      *)
LEMMA PublishIsInvisible ==
  ASSUME Typed, LockDiscipline, Consistent, NEW s \in Slot, Publish(s)
  PROVE  ViewKept
<1> USE DEF Typed, TypeOK
<1>1. /\ pc[s] = "save" /\ K(s) \in Key /\ writer' = None
      /\ index' = [index EXCEPT ![K(s)] = entry[s]] /\ UNCHANGED disk
  BY DEF Publish, HandlersOnTrack, DropWrite
<1>2. writer = s /\ s # None
  BY <1>1, WriterIsAlone, StoreAssumption DEF Writing
<1>3. \A k \in Key : /\ Ahead(k) <=> k = K(s)
                     /\ ~Ahead(k)'
  BY <1>1, <1>2 DEF Ahead
<1>4. QED
  BY <1>1, <1>2, <1>3 DEF ViewKept, Stored, HeadersServed

LEMMA ForgetIsInvisible ==
  ASSUME Typed, LockDiscipline, Consistent, NEW s \in Slot, DeleteForget(s)
  PROVE  ViewKept
<1> USE DEF Typed, TypeOK
<1>1. /\ pc[s] = "uncache" /\ K(s) \in Key /\ writer' = None /\ disk[K(s)] = None
      /\ index' = [index EXCEPT ![K(s)] = None] /\ UNCHANGED disk
  BY DEF DeleteForget, RemoveEntry, HandlersOnTrack, DropWrite, Consistent, WritersDescribe
<1>2. writer = s /\ s # None
  BY <1>1, WriterIsAlone, StoreAssumption DEF Writing
<1>3. \A k \in Key : /\ Ahead(k) <=> k = K(s)
                     /\ ~Ahead(k)'
  BY <1>1, <1>2 DEF Ahead
<1>4. QED
  BY <1>1, <1>2, <1>3 DEF ViewKept, Stored, HeadersServed

(* A PUT or an add_header that has not come to an answer is still open.    *)
LEMMA StillOpen ==
  ASSUME Typed, NEW s \in Slot, req' = req
  PROVE  /\ pc[s] \in {"resolve", "check", "create", "body", "commit", "rename"} => OpenRequest(s, "put")
         /\ pc[s] = "annotate" => OpenRequest(s, "add_header")
<1>1. /\ req[s] \in Request \cup {None} /\ (req[s] = None <=> pc[s] = "idle")
      /\ resp[s] # None <=> pc[s] \in {"save", "uncache", "discard", "done"}
  BY DEF Typed, TypeOK
<1>2. /\ pc[s] \in {"resolve", "check", "create", "body", "commit", "rename"} => req[s].op = "put"
      /\ pc[s] = "annotate" => req[s].op = "add_header"
  BY DEF Typed, HandlersOnTrack, PutLabel
<1>3. QED
  BY <1>1, <1>2 DEF OpenRequest

(* Every step of a handler is one of the atomic store, or invisible.       *)
LEMMA AtomicStep ==
  ASSUME Sound, Typed', LockDiscipline', NEW s \in Slot, SlotStep(s)
  PROVE  Atomic!AtomicNext \/ UNCHANGED Atomic!atomicVars
<1>0. ASSUME K(s) \in Key, writer = None PROVE NotAhead(s)
  BY <1>0 DEF NotAhead, Ahead
<1>a. /\ OpenRequest(s, "delete") /\ ViewKept /\ DeleteInvalid(req[s]) # None
         /\ resp' = [resp EXCEPT ![s] = DeleteInvalid(req[s])] => Atomic!RefuseDelete(s)
      /\ OpenRequest(s, "get") /\ ViewKept /\ GetInvalid(req[s]) # None
         /\ resp' = [resp EXCEPT ![s] = GetInvalid(req[s])] => Atomic!Get(s)
      /\ OpenRequest(s, "add_header") /\ ViewKept /\ AddHeaderInvalid(req[s]) # None
         /\ resp' = [resp EXCEPT ![s] = AddHeaderInvalid(req[s])] => Atomic!AddHeader(s)
  BY AtomicRefuseDelete, AtomicGet, AtomicRefuseAddHeader DEF Sound
<1> USE DEF Sound, Typed, TypeOK, Goto, Settle, Finish
<1>1. OthersStay(s)
  BY OnlyOneMoves
<1>2. ASSUME disk' = disk, index' = index, pc[s] \notin Between, pc'[s] \notin Between PROVE ViewKept
  BY <1>1, <1>2, StoredStays DEF Between
<1>3. ASSUME ViewKept, req' = req, resp' = resp PROVE UNCHANGED Atomic!atomicVars
  BY <1>3, ViewIsKept DEF Atomic!atomicVars
<1>4. ASSUME Atomic!Fail(s) \/ Atomic!RefusePut(s) \/ Atomic!RefuseDelete(s) \/ Atomic!Get(s)
               \/ Atomic!Put(s) \/ Atomic!Delete(s) \/ Atomic!AddHeader(s) \/ Atomic!Reply(s)
      PROVE  Atomic!AtomicNext
  BY <1>4 DEF Atomic!AtomicNext
<1>5. CASE \E r \in Request : Receive(s, r)
  <2>1. PICK r \in Request : Receive(s, r)
    BY <1>5
  <2>2. ViewKept
    BY <1>2, <2>1 DEF Receive, Between, files
  <2>3. Atomic!Ask(s, r)
    BY <2>1, <2>2, ViewIsKept DEF Receive, Atomic!Ask
  <2>4. QED
    BY <2>3 DEF Atomic!AtomicNext
<1>6. CASE PutReceive(s) \/ PutReceived(s)
  BY <1>2, <1>3, <1>6 DEF PutReceive, PutReceived, Await, Between, files
<1>7. CASE PutBreak(s)
  <2>1. /\ pc[s] = "body" /\ pc'[s] = "discard" /\ UNCHANGED <<disk, index, req>>
        /\ req[s] \in Request /\ resp[s] = None /\ resp' = [resp EXCEPT ![s] = InternalError]
    BY <1>7 DEF PutBreak, files
  <2>2. ViewKept
    BY <1>2, <2>1 DEF Between
  <2>3. QED
    BY <1>4, <2>1, <2>2, AtomicFail
<1>8. CASE Return(s)
  <2>1. ViewKept
    BY <1>2, <1>8 DEF Return, Between, files
  <2>2. Atomic!Reply(s)
    BY <1>8, <2>1, ViewIsKept DEF Return, Atomic!Reply
  <2>3. QED
    BY <1>4, <2>2
<1>9. CASE \/ Dispatch(s, "put", "resolve") \/ Dispatch(s, "delete", "evaluate")
           \/ Dispatch(s, "get", "lookup") \/ Dispatch(s, "add_header", "annotate")
  BY <1>2, <1>3, <1>9 DEF Dispatch, Await, Between, files
<1>10. CASE PutResolve(s)
  <2>1. /\ pc[s] = "resolve" /\ OpenRequest(s, "put")
        /\ UNCHANGED <<disk, index>> /\ pc'[s] \in {"check", "done"}
    BY <1>10 DEF PutResolve, OpenRequest, HandlersOnTrack, PutLabel, files
  <2>2. ViewKept
    BY <1>2, <2>1 DEF Between
  <2>3. CASE PutInvalid(req[s]) # None
    BY <1>4, <1>10, <2>1, <2>2, <2>3, AtomicRefusePut DEF PutResolve
  <2>4. CASE PutInvalid(req[s]) = None
    BY <1>3, <1>10, <2>1, <2>2, <2>4 DEF PutResolve
  <2>5. QED
    BY <2>3, <2>4
<1>11. CASE PutEarlyCheck(s)
  <2>1. /\ pc[s] = "check" /\ OpenRequest(s, "put") /\ PutInvalid(req[s]) = None
        /\ UNCHANGED <<disk, index>> /\ pc'[s] \in {"create", "done"}
    <3>1. pc[s] = "check" /\ req' = req /\ UNCHANGED <<disk, index>> /\ pc'[s] \in {"create", "done"}
      BY <1>11 DEF PutEarlyCheck, files
    <3>2. OpenRequest(s, "put")
      BY <3>1, StillOpen
    <3>3. PutInvalid(req[s]) = None
      BY <3>1 DEF Admitted, AdmittedHere
    <3>4. QED
      BY <3>1, <3>2, <3>3
  <2>2. ViewKept
    BY <1>2, <2>1 DEF Between
  <2>3. NotAhead(s)
    <3>1. K(s) \in Key /\ writer = None
      BY <1>11, <2>1 DEF PutEarlyCheck, ReadGranted, HandlersOnTrack
    <3>2. QED
      BY <1>0, <3>1
  <2>4. CASE EarlyRefusal(s) # None
    BY <1>4, <1>11, <2>1, <2>2, <2>3, <2>4, AtomicRefusePut DEF PutEarlyCheck, EarlyRefusal
  <2>5. CASE EarlyRefusal(s) = None
    BY <1>3, <1>11, <2>1, <2>2, <2>5 DEF PutEarlyCheck, OpenRequest
  <2>6. QED
    BY <2>4, <2>5
<1>12. CASE PutCreate(s)
  <2>1. /\ pc[s] = "create" /\ OpenRequest(s, "put")
        /\ UNCHANGED <<disk, index>> /\ pc'[s] \in {"body", "done"}
        /\ resp' = resp \/ resp' = [resp EXCEPT ![s] = InternalError]
    <3>1. /\ pc[s] = "create" /\ req' = req /\ UNCHANGED <<disk, index>> /\ pc'[s] \in {"body", "done"}
          /\ resp' = resp \/ resp' = [resp EXCEPT ![s] = InternalError]
      BY <1>12 DEF PutCreate, files
    <3>2. OpenRequest(s, "put")
      BY <3>1, StillOpen
    <3>3. QED
      BY <3>1, <3>2
  <2>2. ViewKept
    BY <1>2, <2>1 DEF Between
  <2>3. QED
    BY <1>3, <1>4, <2>1, <2>2, AtomicFail DEF OpenRequest
<1>13. CASE PutCommit(s)
  <2>1. /\ pc[s] = "commit" /\ OpenRequest(s, "put") /\ PutInvalid(req[s]) = None
        /\ UNCHANGED <<disk, index>> /\ pc'[s] \in {"discard", "rename"}
    <3>1. pc[s] = "commit" /\ req' = req /\ UNCHANGED <<disk, index>> /\ pc'[s] \in {"discard", "rename"}
      BY <1>13 DEF PutCommit, files
    <3>2. OpenRequest(s, "put")
      BY <3>1, StillOpen
    <3>3. PutInvalid(req[s]) = None
      BY <3>1 DEF Admitted, AdmittedHere
    <3>4. QED
      BY <3>1, <3>2, <3>3
  <2>2. ViewKept
    BY <1>2, <2>1 DEF Between
  <2>3. NotAhead(s)
    <3>1. K(s) \in Key /\ writer = None
      BY <1>13, <2>1 DEF PutCommit, WriteGranted, HandlersOnTrack
    <3>2. QED
      BY <1>0, <3>1
  <2>4. CASE FinalRefusal(s) # None
    BY <1>4, <1>13, <2>1, <2>2, <2>3, <2>4, AtomicRefusePut DEF PutCommit, FinalRefusal
  <2>5. CASE FinalRefusal(s) = None
    BY <1>3, <1>13, <2>1, <2>2, <2>5 DEF PutCommit, OpenRequest
  <2>6. QED
    BY <2>4, <2>5
<1>14. CASE PutRename(s)
  BY <1>4, <1>14, AtomicPut
<1>15. CASE PutRenameFails(s) \/ DeleteUnlinkFails(s) \/ GetOpenFails(s)
  BY <1>2, <1>4, <1>15, AtomicFail
     DEF PutRenameFails, DeleteUnlinkFails, GetOpenFails, Between, files
<1>16. CASE Publish(s)
  BY <1>3, <1>16, PublishIsInvisible DEF Publish
<1>17. CASE PutDiscard(s)
  BY <1>2, <1>3, <1>17 DEF PutDiscard, Between
<1>18. CASE DeleteEvaluate(s)
  <2>1. /\ pc[s] = "evaluate" /\ OpenRequest(s, "delete") /\ DeleteInvalid(req[s]) = None
        /\ UNCHANGED <<disk, index>> /\ pc'[s] \in {"done", "unlink"}
    BY <1>18 DEF DeleteEvaluate, OpenRequest, HandlersOnTrack, DeleteLabel, files, Admitted, AdmittedHere
  <2>2. ViewKept
    BY <1>2, <2>1 DEF Between
  <2>3. NotAhead(s)
    <3>1. K(s) \in Key /\ writer = None
      BY <1>18, <2>1 DEF DeleteEvaluate, WriteGranted, HandlersOnTrack
    <3>2. QED
      BY <1>0, <3>1
  <2>4. CASE DeleteRefusedNow(s) # None
    BY <1>4, <1>18, <2>1, <2>2, <2>3, <2>4, AtomicRefuseDelete DEF DeleteEvaluate, DeleteRefusedNow
  <2>5. CASE DeleteRefusedNow(s) = None
    BY <1>3, <1>18, <2>1, <2>2, <2>5 DEF DeleteEvaluate, OpenRequest
  <2>6. QED
    BY <2>4, <2>5
<1>19. CASE DeleteUnlink(s)
  BY <1>4, <1>19, AtomicDelete
<1>20. CASE DeleteForget(s)
  BY <1>3, <1>20, ForgetIsInvisible DEF DeleteForget
<1>21. CASE GetLookup(s)
  <2>1. /\ pc[s] = "lookup" /\ OpenRequest(s, "get") /\ GetInvalid(req[s]) = None
        /\ UNCHANGED <<disk, index>> /\ pc'[s] \in {"done", "open"}
    BY <1>21 DEF GetLookup, OpenRequest, HandlersOnTrack, GetLabel, files, Admitted, AdmittedHere
  <2>2. ViewKept
    BY <1>2, <2>1 DEF Between
  <2>3. NotAhead(s)
    <3>1. K(s) \in Key /\ writer = None
      BY <1>21, <2>1 DEF GetLookup, ReadGranted, HandlersOnTrack
    <3>2. QED
      BY <1>0, <3>1
  <2>4. CASE GetRefusedNow(s) # None
    BY <1>4, <1>21, <2>1, <2>2, <2>3, <2>4, AtomicGet DEF GetLookup, GetRefusedNow
  <2>5. CASE GetRefusedNow(s) = None
    BY <1>3, <1>21, <2>1, <2>2, <2>5 DEF GetLookup, OpenRequest
  <2>6. QED
    BY <2>4, <2>5
<1>22. CASE GetOpen(s)
  <2>1. /\ pc[s] = "open" /\ OpenRequest(s, "get") /\ GetInvalid(req[s]) = None
        /\ UNCHANGED <<disk, index>> /\ pc'[s] = "done" /\ disk[K(s)] # None
        /\ entry[s] = index[K(s)] /\ GetRefused(req[s], entry[s]) = None
    BY <1>22 DEF GetOpen, OpenRequest, HandlersOnTrack, GetLabel, files, Admitted, AdmittedHere,
                 Consistent, ConditionsHold
  <2>2. ViewKept
    BY <1>2, <2>1 DEF Between
  <2>3. writer = None
    BY <2>1 DEF LockDiscipline
  <2>4. NotAhead(s)
    <3>1. K(s) \in Key
      BY <2>1 DEF HandlersOnTrack
    <3>2. QED
      BY <1>0, <2>3, <3>1
  <2>5. QED
    BY <1>4, <1>22, <2>1, <2>2, <2>4, AtomicGet DEF GetOpen
<1>23. CASE AddHeader(s)
  <2>1. CASE AddHeaderRefusedNow(s) = None
    BY <1>4, <1>23, <2>1, AtomicAddHeader
  <2>2. CASE AddHeaderRefusedNow(s) # None
    <3>1. /\ pc[s] = "annotate" /\ OpenRequest(s, "add_header") /\ AddHeaderInvalid(req[s]) = None
          /\ UNCHANGED <<disk, index>> /\ pc'[s] = "done"
          /\ resp' = [resp EXCEPT ![s] = AddHeaderRefusedNow(s)]
      <4>1. /\ pc[s] = "annotate" /\ req' = req /\ UNCHANGED <<disk, index>> /\ pc'[s] = "done"
            /\ resp' = [resp EXCEPT ![s] = AddHeaderRefusedNow(s)]
        BY <1>23, <2>2 DEF AddHeader, files
      <4>2. OpenRequest(s, "add_header")
        BY <4>1, StillOpen
      <4>3. AddHeaderInvalid(req[s]) = None
        BY <4>1 DEF Admitted, AdmittedHere
      <4>4. QED
        BY <4>1, <4>2, <4>3
    <3>2. ViewKept
      BY <1>2, <3>1 DEF Between
    <3>3. NotAhead(s)
      <4>1. K(s) \in Key /\ writer = None
        BY <1>23, <3>1 DEF AddHeader, WriteGranted, HandlersOnTrack
      <4>2. QED
        BY <1>0, <4>1
    <3>4. QED
      BY <1>4, <2>2, <3>1, <3>2, <3>3, AtomicRefuseAddHeader DEF AddHeaderRefusedNow
  <2>3. QED
    BY <2>1, <2>2
<1>24. CASE Reject(s)
  <2>1. /\ pc[s] = "start" /\ req[s] \in Request /\ OpenRequest(s, req[s].op) /\ Invalid(req[s]) # None
        /\ UNCHANGED <<disk, index>> /\ pc'[s] = "done"
        /\ resp' = [resp EXCEPT ![s] = Invalid(req[s])]
    BY <1>24 DEF Reject, OpenRequest, files
  <2>2. ViewKept
    BY <1>2, <2>1 DEF Between
  <2>3. \/ req[s].op = "delete" /\ Invalid(req[s]) = DeleteInvalid(req[s])
        \/ req[s].op = "get" /\ Invalid(req[s]) = GetInvalid(req[s])
        \/ req[s].op = "add_header" /\ Invalid(req[s]) = AddHeaderInvalid(req[s])
    BY <2>1, RequestAssumption DEF Invalid, First, RefuseIf
  <2>4. QED
    BY <1>4, <1>a, <2>1, <2>2, <2>3
<1>25. QED
  BY <1>5, <1>6, <1>7, <1>8, <1>9, <1>10, <1>11, <1>12, <1>13, <1>14, <1>15, <1>16, <1>17,
     <1>18, <1>19, <1>20, <1>21, <1>22, <1>23, <1>24 DEF SlotStep, Handle

(* The handlers implement the atomic store: each request takes effect, and *)
(* gets its answer, at one instant between being received and answered, as *)
(* if it were alone, whatever the others do and whichever operations fail. *)
THEOREM StoreIsAtomic == Spec => ImplementsAtomicStore
<1>1. Init => Atomic!AtomicInit
  <2> SUFFICES ASSUME Init PROVE Atomic!AtomicInit
    OBVIOUS
  <2>1. ASSUME NEW k \in Key
        PROVE  Stored(k) \in {None} \cup {Atomic!Object(data, 0, << >>) : data \in Content}
    <3>1. ~Ahead(k)
      BY DEF Init, Ahead
    <3>2. CASE disk[k] = None
      BY <3>2 DEF Stored
    <3>3. CASE disk[k] # None
      <4>1. PICK data \in Content : disk[k] = File(data, 0)
        BY <3>3 DEF Init
      <4>2. index[k].headers = << >>
        BY <3>3 DEF Init, EntryOf
      <4>3. Stored(k) = Atomic!Object(data, 0, << >>)
        BY <3>1, <3>3, <4>1, <4>2 DEF Stored, HeadersServed, File, Atomic!Object
      <4>4. QED
        BY <4>3
    <3>4. QED
      BY <3>2, <3>3
  <2>2. QED
    BY <2>1, SameOperators DEF Init, Atomic!AtomicInit
<1>2. Sound /\ (Typed /\ LockDiscipline)' /\ [Next]_vars => [Atomic!AtomicNext]_Atomic!atomicVars
  <2> SUFFICES ASSUME Sound, Typed', LockDiscipline', [Next]_vars
               PROVE  Atomic!AtomicNext \/ UNCHANGED Atomic!atomicVars
    OBVIOUS
  <2>1. CASE Tick \/ UNCHANGED vars
    <3>1. UNCHANGED <<disk, index, writer, pc, entry, req, resp>>
      BY <2>1 DEF Tick, vars, files, lock, local
    <3>2. ViewKept
      BY <3>1 DEF ViewKept, Stored, HeadersServed, Ahead, K
    <3>3. QED
      BY <3>1, <3>2, ViewIsKept DEF Atomic!atomicVars
  <2>2. ASSUME NEW s \in Slot, SlotStep(s)
        PROVE  Atomic!AtomicNext \/ UNCHANGED Atomic!atomicVars
    BY <2>2, AtomicStep
  <2>3. QED
    BY <2>1, <2>2 DEF Next
<1>3. Spec => []Sound
  BY AlwaysConsistent, AlwaysAdmitted, PTL DEF Sound
<1>4. QED
  BY <1>1, <1>2, <1>3, AlwaysConsistent, AlwaysAdmitted, PTL DEF Spec, Sound, ImplementsAtomicStore, Atomic!AtomicSpec

-----------------------------------------------------------------------------
(* The records follow the index step by step.                              *)
LEMMA CacheStep ==
  ASSUME Typed, LockDiscipline, Typed', LockDiscipline', CacheMatchesIndex,
         "save" \notin Fault, "uncache" \notin Fault, NEW s \in Slot, SlotStep(s)
  PROVE  CacheMatchesIndex'
<1>1. OthersStay(s)
  BY OnlyOneMoves
<1>2. CASE ~Publish(s) /\ ~DeleteForget(s)
  BY <1>1, <1>2, OnlyWritersPublish, AheadStays DEF CacheMatchesIndex
<1>3. CASE Publish(s) \/ DeleteForget(s)
  <2> DEFINE new == IF pc[s] = "save" THEN entry[s] ELSE None
  <2>1. /\ pc[s] \in Between /\ K(s) \in Key
        /\ pc[s] = "save" => entry[s] # None
        /\ index' = [index EXCEPT ![K(s)] = new]
        /\ cache' = [cache EXCEPT ![K(s)] = IF new = None THEN None ELSE CacheRecord(new)]
    BY <1>3 DEF Publish, SaveOutcomes, DeleteForget, RemoveRecord, RemoveEntry, Typed, HandlersOnTrack, Between
  <2>2. writer = s /\ s # None
    BY <2>1, WriterIsAlone, StoreAssumption DEF Writing, Between
  <2>3. \A k \in Key \ {K(s)} : ~Ahead(k)
    BY <2>2 DEF Ahead
  <2>4. cache \in [Key -> Records \cup {None}] /\ index \in [Key -> Entries \cup {None}]
    BY DEF Typed, TypeOK
  <2> HIDE DEF new
  <2>5. QED
    BY <2>1, <2>3, <2>4 DEF CacheMatchesIndex
<1>4. QED
  BY <1>2, <1>3

(* While writes to the metadata cache succeed, what a restart would read is*)
(* what is served, after every step of whatever requests.                  *)
THEOREM CacheIsTrue ==
  ASSUME "save" \notin Fault, "uncache" \notin Fault
  PROVE  Spec => []CacheMatchesIndex
<1>1. Init => CacheMatchesIndex
  BY DEF Init, CacheMatchesIndex
<1>2. Typed /\ LockDiscipline /\ (Typed /\ LockDiscipline)' /\ CacheMatchesIndex /\ [Next]_vars
        => CacheMatchesIndex'
  <2> SUFFICES ASSUME Typed, LockDiscipline, Typed', LockDiscipline', CacheMatchesIndex, [Next]_vars
               PROVE  CacheMatchesIndex'
    OBVIOUS
  <2>1. CASE Tick \/ UNCHANGED vars
    BY <2>1 DEF Tick, vars, files, lock, local, CacheMatchesIndex, Ahead, K
  <2>2. ASSUME NEW s \in Slot, SlotStep(s) PROVE CacheMatchesIndex'
    BY <2>2, CacheStep
  <2>3. QED
    BY <2>1, <2>2 DEF Next
<1>3. QED
  BY <1>1, <1>2, AlwaysConsistent, PTL DEF Spec

-----------------------------------------------------------------------------
(* No 500 for a GET or DELETE.                                             *)

Served(s) ==
  resp[s] # None /\ req[s].op \in {"get", "delete"} => resp[s].code # "InternalError"

(* No read or removal fails by itself, and no key of a DELETE ends in "/". *)
FilesCanBeRead ==
  /\ "open" \notin Fault /\ "unlink" \notin Fault
  /\ \A r \in Request : r.op = "delete" /\ KeyOf(r) # None => ~NamesDirectory(SanitizeKey(r.key))

(* The file a GET found in the index is there until the GET has opened it. *)
LEMMA ServedStep ==
  ASSUME FilesCanBeRead, Typed, LockDiscipline, Consistent,
         NEW s \in Slot, Served(s), SlotStep(s)
  PROVE  Served(s)'
<1> USE DEF Typed, TypeOK, HandlersOnTrack, PutLabel, DeleteLabel, GetLabel, Served,
            Goto, Settle, Finish, Await
<1>1. CASE (\E r \in Request : Receive(s, r)) \/ Return(s)
  BY <1>1 DEF Receive, Return
<1>2. CASE \/ Dispatch(s, "put", "resolve") \/ Dispatch(s, "delete", "evaluate")
           \/ Dispatch(s, "get", "lookup") \/ Dispatch(s, "add_header", "annotate")
  BY <1>2 DEF Dispatch
<1>3. CASE \/ PutResolve(s) \/ PutEarlyCheck(s) \/ PutCreate(s) \/ PutReceive(s) \/ PutBreak(s)
           \/ PutReceived(s) \/ PutCommit(s) \/ PutRename(s) \/ PutRenameFails(s)
           \/ Publish(s) \/ PutDiscard(s) \/ AddHeader(s)
  <2>1. req'[s] = req[s] /\ (req[s].op \notin {"get", "delete"} \/ resp'[s] = resp[s])
    BY <1>3 DEF PutResolve, PutEarlyCheck, PutCreate, PutReceive, PutBreak, PutReceived, PutCommit,
         PutRename, PutRenameFails, Publish, PutDiscard, AddHeader
  <2>2. QED
    BY <2>1
<1>4. CASE Reject(s)
  <2>1. req[s] \in Request /\ req'[s] = req[s] /\ resp'[s] = Invalid(req[s]) /\ Invalid(req[s]) # None
    BY <1>4 DEF Reject
  <2>2. req[s].op \in {"get", "delete"} => Invalid(req[s]) \in {GetInvalid(req[s]), DeleteInvalid(req[s])}
    BY <2>1 DEF Invalid, First, RefuseIf
  <2>3. /\ GetInvalid(req[s]) # None => GetInvalid(req[s]).code # "InternalError"
        /\ DeleteInvalid(req[s]) # None => DeleteInvalid(req[s]).code # "InternalError"
    BY <2>1, OnlyFailuresAre500
  <2> HIDE DEF Typed, TypeOK, HandlersOnTrack
  <2>4. QED
    BY <2>1, <2>2, <2>3
<1>5. CASE DeleteEvaluate(s)
  BY <1>5, OnlyFailuresAre500 DEF DeleteEvaluate, DeleteRefusedNow
<1>6. CASE DeleteUnlink(s)
  BY <1>6, OnlyFailuresAre500 DEF DeleteUnlink
<1>7. CASE DeleteUnlinkFails(s)
  <2>1. pc[s] = "unlink" /\ ~UnlinkCanSucceed(s) /\ req[s] \in Request /\ req[s].op = "delete" /\ K(s) \in Key
    BY <1>7 DEF DeleteUnlinkFails, FilesCanBeRead
  <2>2. QED
    BY <2>1 DEF UnlinkCanSucceed, FilesCanBeRead, K, Key
<1>8. CASE DeleteForget(s)
  BY <1>8 DEF DeleteForget
<1>9. CASE GetLookup(s)
  BY <1>9, OnlyFailuresAre500 DEF GetLookup, GetRefusedNow
<1>10. CASE GetOpen(s)
  BY <1>10, OnlyFailuresAre500 DEF GetOpen
<1>11. CASE GetOpenFails(s)
  <2>1. /\ pc[s] = "open" /\ disk[K(s)] = None /\ K(s) \in Key /\ entry[s] # None
        /\ entry[s] = index[K(s)] /\ writer = None
    BY <1>11 DEF GetOpenFails, FilesCanBeRead, Consistent, ConditionsHold, LockDiscipline
  <2>2. index[K(s)] = None
    BY <2>1 DEF Consistent, IndexDescribes, Ahead
  <2>3. QED
    BY <2>1, <2>2
<1>12. QED
  BY <1>1, <1>2, <1>3, <1>4, <1>5, <1>6, <1>7, <1>8, <1>9, <1>10, <1>11 DEF SlotStep, Handle

(* Whatever it races with, a GET or DELETE never answers 500 when the file *)
(* system does its part.                                                   *)
THEOREM ReadsAndDeletesSucceed ==
  ASSUME FilesCanBeRead
  PROVE  Spec => []ReadsAndDeletesDoNotFail
<1>1. Init => ReadsAndDeletesDoNotFail
  BY DEF Init, ReadsAndDeletesDoNotFail
<1>2. Sound /\ ReadsAndDeletesDoNotFail /\ [Next]_vars => ReadsAndDeletesDoNotFail'
  <2> SUFFICES ASSUME Sound, ReadsAndDeletesDoNotFail, [Next]_vars
               PROVE  ReadsAndDeletesDoNotFail'
    OBVIOUS
  <2>1. CASE Tick \/ UNCHANGED vars
    BY <2>1 DEF Tick, vars, local, ReadsAndDeletesDoNotFail
  <2>2. ASSUME NEW s \in Slot, SlotStep(s) PROVE ReadsAndDeletesDoNotFail'
    <3>1. Served(s)'
      BY <2>2, ServedStep DEF Sound, ReadsAndDeletesDoNotFail, Served
    <3>2. \A t \in Slot \ {s} : StayPut(t)
      BY <2>2, OnlyOneMoves DEF Sound, OthersStay
    <3>3. QED
      BY <3>1, <3>2 DEF ReadsAndDeletesDoNotFail, Served, StayPut
  <2>3. QED
    BY <2>1, <2>2 DEF Next
<1>3. QED
  BY <1>1, <1>2, AlwaysConsistent, AlwaysAdmitted, PTL DEF Spec, Sound
=============================================================================
