------------------------------ MODULE Multipart ------------------------------
(***************************************************************************)
(* Multipart uploads beside the handlers of ObjectStore (multipart.rs,     *)
(* multipart_state.rs, `upload_part` of put_object.rs): the table of       *)
(* uploads behind a lock of its own, and the part files, whose names are   *)
(* made of the upload's id and the part's number.                          *)
(*                                                                         *)
(* Once its parts are chosen a Complete does what a PUT does, with a body  *)
(* read from the part files: it takes the steps of PUT in ObjectStore but  *)
(* for those on the body.  The lock of the table is held across an await   *)
(* only while part files are removed; the order in which it is granted is  *)
(* left open, and so is when UploadPart learns the serve directory, for    *)
(* which it looks at the store's lock.                                     *)
(***************************************************************************)
EXTENDS ObjectStore, SequencesExt

CONSTANTS
  Upload,    \* the ids that Create may give out and requests may name
  Call,      \* the multipart requests clients may send
  MaxPart,   \* the highest part number
  Hole       \* what is read where nothing was written

VARIABLES
  uploads,   \* the table: the entry of each upload, or None
  given,     \* ids given out so far
  part,      \* what the file of each part holds, None if there is none
  holder,    \* the request holding the lock of the table across an await, or None
  call,      \* the multipart request in each slot, or None
  at,        \* where its handler stands
  progress,  \* frames written by an UploadPart, parts read by a Complete
  linked,    \* an UploadPart's open file is still the one under the part's name
  picked,    \* the parts a Complete has chosen
  cleaning,  \* the part files still to be removed
  resent,    \* parts whose upload was begun more than once (history)
  sent,      \* parts whose upload was begun (history)
  late       \* uploads that ended while one of their parts was on its way (history)

table == <<uploads, given, holder>>
partial == <<progress, linked, picked, cleaning>>
history == <<resent, sent, late>>
multipart == <<table, part, call, at, partial, history>>

PartName == {<<c.upload, c.n>> : c \in {d \in Call : d.op = "part"}}

(* The PUT that a Complete goes on as. *)
AsPut(c, headers) ==
  [op |-> "put", key |-> c.key, if_match |-> c.if_match, if_none_match |-> c.if_none_match,
   if_modified_since |-> None, if_unmodified_since |-> None,
   range |-> NoRange, body |-> << >>, headers |-> headers]

(* An upload's entry in the table, and a part as a Complete names and as   *)
(* it chooses it.                                                          *)
Created == {c \in Call : c.op = "create"}
PartNumbers == {name[2] : name \in PartName}
PartEntries == [size : Nat, etag : Etags]
UploadEntries(numbers) ==
  [key : {c.key : c \in Created}, headers : {c.headers : c \in Created},
   parts : [numbers -> PartEntries]]
NamedParts == [n : Nat, etag : Etags]
ChosenParts == [n : Nat, size : Nat, etag : Etags]

ASSUME CallAssumption ==
  /\ None \notin Call /\ None \notin Seq(Frame) /\ Hole \in Frame /\ MaxPart \in Nat
  /\ \A numbers \in SUBSET PartNumbers : None \notin UploadEntries(numbers)
  /\ \A c \in Call :
       /\ c.op \in {"create", "part", "complete", "abort"}
       /\ c.op # "create" => c.upload \in Upload
       /\ c.op = "part" => c.n \in Nat /\ c.body \in Seq(Frame)
       /\ c.op = "complete" =>
            /\ c.list # None => c.list \in Seq(NamedParts)
            /\ \A d \in Created : AsPut(c, d.headers) \in Request

InitM ==
  /\ Init
  /\ uploads = [u \in Upload |-> None]
  /\ given = {} /\ holder = None
  /\ part = [name \in PartName |-> None]
  /\ call = [s \in Slot |-> None]
  /\ at = [s \in Slot |-> "free"]
  /\ progress = [s \in Slot |-> 0]
  /\ linked = [s \in Slot |-> FALSE]
  /\ picked = [s \in Slot |-> << >>]
  /\ cleaning = [s \in Slot |-> {}]
  /\ resent = {} /\ sent = {} /\ late = {}

-----------------------------------------------------------------------------
(* What the handlers share. *)

Step(s, label) == at' = [at EXCEPT ![s] = label]

U(s) == call[s].upload
Name(s) == <<U(s), call[s].n>>

TableFree == holder = None

(* The upload a request names is there and is that of its key, or why not. *)
UploadFound(c) == uploads[c.upload] # None /\ uploads[c.upload].key = c.key

UploadRefusal(c) == IF uploads[c.upload] = None THEN "NoSuchUpload" ELSE "InvalidArgument"

(* A file that is removed lives on under the handles that are open.        *)
Unlinked(name) ==
  /\ part' = [part EXCEPT ![name] = None]
  /\ linked' = [s \in Slot |-> linked[s] /\ Name(s) # name]

Arriving(u) ==
  \E s \in Slot : call[s] # None /\ U(s) = u /\ at[s] \in {"part_open", "part_body", "part_record"}

(* The upload leaves the table, then its files go, one await each.         *)
EndUpload(s, code) ==
  LET names == {<<U(s), n>> : n \in DOMAIN uploads[U(s)].parts} IN
  /\ uploads' = [uploads EXCEPT ![U(s)] = None]
  /\ late' = IF Arriving(U(s)) THEN late \cup {U(s)} ELSE late
  /\ cleaning' = [cleaning EXCEPT ![s] = names]
  /\ IF names = {}
       THEN Step(s, code) /\ UNCHANGED holder
       ELSE Step(s, "clean") /\ holder' = s
  /\ UNCHANGED <<given, progress, linked, picked, resent, sent>>

Clean_Forgets(s) ==
  /\ at[s] = "clean"
  /\ cleaning' = [cleaning EXCEPT ![s] = {}]
  /\ Step(s, "Ok")
  /\ holder' = None
  /\ UNCHANGED <<vars, uploads, given, part, call, progress, linked, picked, history>>
Clean(s) ==
  /\ at[s] = "clean"
  /\ \E name \in cleaning[s] :
       /\ Unlinked(name)
       /\ cleaning' = [cleaning EXCEPT ![s] = @ \ {name}]
       /\ IF cleaning[s] = {name}
            THEN Step(s, IF call[s].op = "abort" THEN "NoContent" ELSE "Ok") /\ holder' = None
            ELSE UNCHANGED <<at, holder>>
  /\ UNCHANGED <<vars, uploads, given, call, progress, picked, history>>

-----------------------------------------------------------------------------
(* A client's call, and its end.  CreateMultipartUpload does not look at   *)
(* the key, and gives out an id nobody has.                                *)

Create(u, c) ==
  /\ c.op = "create"
  /\ u \notin given
  /\ TableFree
  /\ given' = given \cup {u}
  /\ uploads' = [uploads EXCEPT ![u] = [key |-> c.key, headers |-> c.headers, parts |-> << >>]]
  /\ UNCHANGED <<vars, holder, part, call, at, partial, history>>

FirstStep == [part |-> "part_check", complete |-> "complete_pick", abort |-> "abort_remove"]

Begin(s, c) ==
  /\ c.op # "create"
  /\ pc[s] = "idle" /\ call[s] = None
  /\ call' = [call EXCEPT ![s] = c]
  /\ Step(s, FirstStep[c.op])
  /\ UNCHANGED <<vars, table, part, partial, history>>

Told == {"Ok", "NoContent", "MalformedXML", "NoSuchUpload", "InvalidPart", "InvalidArgument",
         "NotImplemented", "PreconditionFailed", "InternalError"}

End(s) ==
  /\ at[s] \in Told
  /\ call' = [call EXCEPT ![s] = None]
  /\ Step(s, "free")
  /\ progress' = [progress EXCEPT ![s] = 0]
  /\ linked' = [linked EXCEPT ![s] = FALSE]
  /\ picked' = [picked EXCEPT ![s] = << >>]
  /\ UNCHANGED <<vars, table, part, cleaning, history>>

-----------------------------------------------------------------------------
(* UploadPart: into a file named for the part, then into the table.        *)

PartCheck(s) ==
  /\ at[s] = "part_check"
  /\ \/ call[s].n \notin 1 .. MaxPart /\ Step(s, "InvalidArgument")
     \/ /\ call[s].n \in 1 .. MaxPart
        /\ TableFree
        /\ Step(s, IF UploadFound(call[s]) THEN "part_open" ELSE UploadRefusal(call[s]))
  /\ UNCHANGED <<vars, table, part, call, partial, history>>

Begun(s) ==
  /\ sent' = sent \cup {Name(s)}
  /\ resent' = resent \cup ({Name(s)} \cap sent)

(* An existing file is truncated and shared with whoever has it open.      *)
PartOpen(s) ==
  /\ at[s] = "part_open"
  /\ part' = [part EXCEPT ![Name(s)] = << >>]
  /\ linked' = [linked EXCEPT ![s] = TRUE]
  /\ Step(s, "part_body")
  /\ Begun(s)
  /\ UNCHANGED <<vars, table, call, progress, picked, cleaning, late>>

WriteAt(data, i, frame) ==
  [j \in 1 .. (IF i > Len(data) THEN i ELSE Len(data)) |->
     IF j = i THEN frame ELSE IF j <= Len(data) THEN data[j] ELSE Hole]

PartWrite(s) ==
  /\ at[s] = "part_body"
  /\ progress[s] < Len(call[s].body)
  /\ progress' = [progress EXCEPT ![s] = @ + 1]
  /\ part' = IF linked[s]
               THEN [part EXCEPT ![Name(s)] = WriteAt(@, progress'[s], call[s].body[progress'[s]])]
               ELSE part
  /\ UNCHANGED <<vars, table, call, at, linked, picked, cleaning, history>>

(* The file cannot be made or written, or the client breaks off: the file  *)
(* of that name is removed.                                                *)
PartBreak(s) ==
  /\ \/ at[s] = "part_open" /\ "create" \in Fault /\ Begun(s)
     \/ at[s] = "part_body" /\ UNCHANGED <<sent, resent>>
  /\ Unlinked(Name(s))
  /\ Step(s, "InternalError")
  /\ UNCHANGED <<vars, table, call, progress, picked, cleaning, late>>

(* The digest is that of the bytes received; the file's time is asked for  *)
(* by name, which fails if somebody has removed the file.                  *)
PartWritten(s) ==
  /\ at[s] = "part_body"
  /\ progress[s] = Len(call[s].body)
  /\ part[Name(s)] # None
  /\ Step(s, "part_record")
  /\ UNCHANGED <<vars, table, part, call, partial, history>>

PartEntry(body) == [size |-> Len(body), etag |-> Md5(body)]

Listed(u, n, body) ==
  [uploads EXCEPT ![u].parts = [m \in DOMAIN @ \cup {n} |-> IF m = n THEN PartEntry(body) ELSE @[m]]]

PartRecord_Unchecked(s) ==
  /\ at[s] \in {"part_open", "part_body"}
  /\ TableFree
  /\ uploads[U(s)] # None
  /\ uploads' = Listed(U(s), call[s].n, call[s].body)
  /\ Step(s, "Ok")
  /\ UNCHANGED <<vars, given, holder, part, call, partial, history>>
PartRecord(s) ==
  /\ at[s] = "part_record"
  /\ TableFree
  /\ \/ /\ uploads[U(s)] = None
        /\ Step(s, "Ok") /\ UNCHANGED <<uploads, holder>>
     \/ /\ uploads[U(s)] # None /\ call[s].n \notin DOMAIN uploads[U(s)].parts
        /\ uploads' = Listed(U(s), call[s].n, call[s].body)
        /\ Step(s, "Ok") /\ UNCHANGED holder
     \/ /\ uploads[U(s)] # None /\ call[s].n \in DOMAIN uploads[U(s)].parts
        /\ holder' = s
        /\ Step(s, "part_replace") /\ UNCHANGED uploads
  /\ UNCHANGED <<vars, given, part, call, partial, history>>

(* "Remove any previous temp file for this part number".                   *)
PartReplace_KeepsLock(s) ==
  /\ at[s] = "part_replace"
  /\ Unlinked(Name(s))
  /\ uploads' = Listed(U(s), call[s].n, call[s].body)
  /\ Step(s, "Ok")
  /\ UNCHANGED <<vars, given, holder, call, progress, picked, cleaning, history>>
PartReplace(s) ==
  /\ at[s] = "part_replace"
  /\ Unlinked(Name(s))
  /\ uploads' = Listed(U(s), call[s].n, call[s].body)
  /\ holder' = None
  /\ Step(s, "Ok")
  /\ UNCHANGED <<vars, given, call, progress, picked, cleaning, history>>

-----------------------------------------------------------------------------
(* AbortMultipartUpload. *)

AbortRemove(s) ==
  /\ at[s] = "abort_remove"
  /\ TableFree
  /\ IF UploadFound(call[s])
       THEN EndUpload(s, "NoContent")
       ELSE Step(s, UploadRefusal(call[s])) /\ UNCHANGED <<table, partial, history>>
  /\ UNCHANGED <<vars, part, call>>

-----------------------------------------------------------------------------
(* CompleteMultipartUpload: the parts are chosen from a copy of the entry, *)
(* in the order of their numbers; they may be none, or one twice.          *)

PartsMatch(c) ==
  \A i \in DOMAIN c.list :
    LET parts == uploads[c.upload].parts IN
    c.list[i].n \in DOMAIN parts /\ parts[c.list[i].n].etag = c.list[i].etag

(* A stable sort: a part's place is the number of those that come no later.*)
Place(list, i) ==
  Cardinality({j \in DOMAIN list :
    list[j].n < list[i].n \/ (list[j].n = list[i].n /\ j <= i)})

SortedByNumber(list) ==
  [place \in DOMAIN list |-> list[CHOOSE i \in DOMAIN list : Place(list, i) = place]]

Chosen(c) ==
  LET sorted == SortedByNumber(c.list)
  IN  [i \in DOMAIN sorted |-> [n |-> sorted[i].n, size |-> uploads[c.upload].parts[sorted[i].n].size,
                                etag |-> sorted[i].etag]]

(* No list could be read from the body, which is looked at first.          *)
CompleteMalformed(s) ==
  /\ at[s] = "complete_pick"
  /\ call[s].list = None
  /\ Step(s, "MalformedXML")
  /\ UNCHANGED <<vars, table, part, call, partial, history>>

CompletePick(s) ==
  /\ at[s] = "complete_pick"
  /\ call[s].list # None
  /\ TableFree
  /\ LET c == call[s] IN
       \/ /\ ~UploadFound(c)
          /\ Step(s, UploadRefusal(c))
          /\ UNCHANGED <<vars, picked>>
       \/ /\ UploadFound(c) /\ ~PartsMatch(c)
          /\ Step(s, "InvalidPart")
          /\ UNCHANGED <<vars, picked>>
       \/ /\ UploadFound(c) /\ PartsMatch(c)
          /\ picked' = [picked EXCEPT ![s] = Chosen(c)]
          /\ Step(s, "storing")
          /\ req' = [req EXCEPT ![s] = AsPut(c, uploads[c.upload].headers)]
          /\ Await(s, "resolve")
          /\ UNCHANGED <<time, files, index, resp, entry, temp>>
  /\ UNCHANGED <<table, part, call, progress, linked, cleaning, history>>

(* The steps of ObjectStore; a Complete takes those between the body and   *)
(* the ends.                                                               *)
StoreStep ==
  /\ \/ Tick
     \/ \E s \in Slot : /\ call[s] = None \/ pc[s] \notin {"idle", "body", "done"}
                        /\ SlotStep(s)
  /\ UNCHANGED multipart

Assembling(s) == at[s] = "storing" /\ pc[s] = "body"
Next1(s) == picked[s][progress[s] + 1]
Source(s) == <<U(s), Next1(s).n>>

CompleteAppend(s) ==
  /\ Assembling(s)
  /\ progress[s] < Len(picked[s])
  /\ part[Source(s)] # None
  /\ temp' = [temp EXCEPT ![s] = File(temp[s].data \o part[Source(s)], now)]
  /\ progress' = [progress EXCEPT ![s] = @ + 1]
  /\ UNCHANGED <<time, files, index, lock, pc, req, resp, entry>>
  /\ UNCHANGED <<table, part, call, at, linked, picked, cleaning, history>>

(* A debug build also gives up at a part that has changed its size.        *)
CompleteMissing_Skipped(s) ==
  /\ Assembling(s)
  /\ progress[s] < Len(picked[s])
  /\ part[Source(s)] = None
  /\ progress' = [progress EXCEPT ![s] = @ + 1]
  /\ UNCHANGED <<vars, table, part, call, at, linked, picked, cleaning, history>>
CompleteMissing(s) ==
  /\ Assembling(s)
  /\ progress[s] < Len(picked[s])
  /\ \/ part[Source(s)] = None
     \/ part[Source(s)] # None /\ Len(part[Source(s)]) # Next1(s).size
     \/ "open" \in Fault
  /\ PutBreak(s)
  /\ UNCHANGED multipart

(* The digest of the parts' digests: it tells the digests apart, and where *)
(* one ends and the next begins.                                           *)
MultipartEtag(parts) ==
  [md5 |-> FlattenSeq([i \in DOMAIN parts |-> parts[i].etag.md5]),
   parts |-> [i \in DOMAIN parts |-> parts[i].size]]

(* The size is counted while the parts are copied.                         *)
AssembledEntry_ListedSizes(s) ==
  [EntryWritten(s) EXCEPT !.etag = MultipartEtag(picked[s]),
                          !.size = FoldFunction(+, 0, [i \in DOMAIN picked[s] |-> picked[s][i].size])]
AssembledEntry(s) == [EntryWritten(s) EXCEPT !.etag = MultipartEtag(picked[s])]

CompleteAssembled(s) ==
  /\ Assembling(s)
  /\ progress[s] = Len(picked[s])
  /\ entry' = [entry EXCEPT ![s] = AssembledEntry(s)]
  /\ Await(s, "commit")
  /\ UNCHANGED <<time, files, index, req, resp, temp>>
  /\ UNCHANGED multipart

(* A Complete that was refused or failed keeps the upload.                 *)
ToBeForgotten_Always(s) == TRUE
ToBeForgotten(s) == resp[s].code = "Ok"

CompleteForget(s) ==
  /\ at[s] = "storing" /\ pc[s] = "done"
  /\ Return(s)
  /\ \/ /\ ~ToBeForgotten(s)
        /\ Step(s, resp[s].code)
        /\ UNCHANGED <<table, partial, history>>
     \/ /\ ToBeForgotten(s) /\ TableFree
        /\ IF uploads[U(s)] = None
             THEN Step(s, "Ok") /\ UNCHANGED <<table, partial, history>>
             ELSE EndUpload(s, "Ok")
  /\ UNCHANGED <<part, call>>

-----------------------------------------------------------------------------
NextM ==
  \/ StoreStep
  \/ \E u \in Upload, c \in Call : Create(u, c)
  \/ \E s \in Slot :
       \/ \E c \in Call : Begin(s, c)
       \/ PartCheck(s) \/ PartOpen(s) \/ PartWrite(s) \/ PartBreak(s)
       \/ PartWritten(s) \/ PartRecord(s) \/ PartReplace(s)
       \/ AbortRemove(s)
       \/ CompleteMalformed(s) \/ CompletePick(s) \/ CompleteAppend(s) \/ CompleteMissing(s)
       \/ CompleteAssembled(s) \/ CompleteForget(s)
       \/ Clean(s)
       \/ End(s)

SpecM == InitM /\ [][NextM]_<<vars, multipart>>

-----------------------------------------------------------------------------
(* Properties. *)

Steps == {"free", "part_check", "part_open", "part_body", "part_record", "part_replace",
          "abort_remove", "complete_pick", "storing", "clean"} \cup Told

UploadsTyped ==
  /\ uploads = [u \in Upload |-> uploads[u]] /\ given \subseteq Upload
  /\ \A u \in Upload : uploads[u] # None =>
       /\ u \in given
       /\ uploads[u] \in UploadEntries(DOMAIN uploads[u].parts)
       /\ \A n \in DOMAIN uploads[u].parts : <<u, n>> \in PartName

CallTyped(s) ==
  /\ call[s] = None <=> at[s] = "free"
  /\ at[s] \in {"part_replace", "clean"} <=> holder = s
  /\ cleaning[s] # {} <=> at[s] = "clean"
  /\ call[s] # None /\ at[s] # "storing" => pc[s] = "idle"

(* The types; the lock of the table is held across awaits exactly while    *)
(* part files are removed under it, by one request at a time.              *)
TypeOKM ==
  /\ TypeOK /\ UploadsTyped
  /\ part \in [PartName -> Seq(Frame) \cup {None}]
  /\ holder \in Slot \cup {None}
  /\ call \in [Slot -> Call \cup {None}] /\ at \in [Slot -> Steps]
  /\ progress \in [Slot -> Nat] /\ linked \in [Slot -> BOOLEAN]
  /\ picked \in [Slot -> Seq(ChosenParts)] /\ cleaning \in [Slot -> SUBSET PartName]
  /\ \A s \in Slot : CallTyped(s)

(* multipart.rs: a refused Complete keeps the upload.  An upload leaves    *)
(* the table by an Abort of its own key, or by a Complete whose object is  *)
(* committed; and its parts leave it with it or never.                     *)
UploadsEndOnPurpose ==
  [][\A u \in Upload : uploads[u] # None =>
       \/ uploads'[u] # None /\ DOMAIN uploads[u].parts \subseteq DOMAIN uploads'[u].parts
       \/ \E s \in Slot :
            /\ call[s] # None /\ U(s) = u /\ call[s].key = uploads[u].key
            /\ \/ call[s].op = "abort"
               \/ call[s].op = "complete" /\ resp[s] # None /\ resp[s].code = "Ok"]_<<vars, multipart>>

(* A part that is in the table and was uploaded once is in its file, whole *)
(* and under the digest it was acknowledged with.                          *)
ListedPartsAreThere ==
  \A u \in Upload : uploads[u] # None =>
    \A n \in DOMAIN uploads[u].parts : <<u, n>> \notin resent =>
      /\ part[<<u, n>>] # None
      /\ PartEntry(part[<<u, n>>]) = uploads[u].parts[n]

(* The object of a Complete is made of the parts its ETag was made of, if  *)
(* no part was uploaded twice: whatever is aborted, completed or failing   *)
(* at the same time.                                                       *)
CompletedFromItsParts ==
  resent = {} =>
    \A k \in Key : disk[k] # None /\ index[k] # None /\ ~Ahead(k) /\ index[k].etag.parts # None =>
      disk[k].data = index[k].etag.md5

(* Whatever becomes of the parts while they are assembled, the entry of    *)
(* the object has the size and the time of its file: a part may have       *)
(* changed since the Complete looked it up in its copy of the upload.      *)
SizesAreTrue ==
  \A k \in Key : ~Ahead(k) =>
    /\ disk[k] = None <=> index[k] = None
    /\ disk[k] # None =>
         index[k].size = Len(disk[k].data) /\ index[k].modified = disk[k].mtime

(* No part file outlives its upload, but for parts that were on their way  *)
(* when it ended.                                                          *)
OnlyLatePartsAreLeft ==
  \A name \in PartName : part[name] # None =>
    \/ uploads[name[1]] # None
    \/ name[1] \in late
    \/ \E s \in Slot : name \in cleaning[s]

(* put_object.rs: what is removed when a part comes again is the previous  *)
(* file.  So a part that is in the table when its upload is acknowledged,  *)
(* with no other request around, has a file.                               *)
OnlyPreviousFilesAreRemoved ==
  \A s \in Slot :
    call[s] # None /\ call[s].op = "part" /\ at[s] = "Ok" /\ uploads[U(s)] # None =>
      part[Name(s)] # None

-----------------------------------------------------------------------------
(* What makes these invariants inductive.                                  *)

PartSteps == {"part_check", "part_open", "part_body", "part_record", "part_replace"}

(* A handler runs its own operation; one that has found its upload does so *)
(* on that upload, if it is still there; one that holds the lock of the    *)
(* table keeps it there; an open file that has a name is in the table of   *)
(* files.                                                                  *)
CallOnTrack(s) ==
  /\ at[s] \in PartSteps => call[s].op = "part"
  /\ at[s] = "abort_remove" => call[s].op = "abort"
  /\ at[s] \in {"complete_pick", "storing"} => call[s].op = "complete"
  /\ call[s] # None => call[s].op # "create"
  /\ at[s] = "part_replace" => uploads[U(s)] # None
  /\ at[s] = "storing" =>
       /\ pc[s] \in PutLabel \cup {"save", "done"}
       /\ resp[s] # None => resp[s].code \in Told
       /\ U(s) \in given
       /\ uploads[U(s)] # None => uploads[U(s)].key = call[s].key
       /\ \A i \in DOMAIN picked[s] : <<U(s), picked[s][i].n>> \in PartName
  /\ at[s] \in {"free", "part_check", "part_open", "complete_pick"} => progress[s] = 0
  /\ at[s] = "storing" /\ pc[s] \in {"resolve", "check", "create"} => progress[s] = 0
  /\ linked[s] => call[s] # None /\ call[s].op = "part" /\ part[Name(s)] # None

CallsOnTrack == \A s \in Slot : CallOnTrack(s)

(* A part on its way is that of an upload that is there or was ended under *)
(* its feet; a file whose upload is there is listed or on its way; what is *)
(* still to be cleaned up belongs to uploads that are gone for good.       *)
OnItsWay(s) == at[s] \in {"part_open", "part_body", "part_record"}

FilesAreAccountedFor ==
  /\ late \subseteq given
  /\ \A s \in Slot : OnItsWay(s) => uploads[U(s)] # None \/ U(s) \in late
  /\ \A name \in PartName : part[name] # None /\ uploads[name[1]] # None =>
       \/ name[2] \in DOMAIN uploads[name[1]].parts
       \/ \E s \in Slot : OnItsWay(s) /\ Name(s) = name
  /\ \A s \in Slot : \A name \in cleaning[s] :
       name[1] \in given /\ uploads[name[1]] = None

(* What is known of a part whose upload was begun once: one request writes *)
(* the file, it is neither listed, cleaned up nor chosen before it is      *)
(* whole, and it is what its digest says until it is gone.                 *)
InFlight(s) == at[s] \in {"part_body", "part_record", "part_replace"}

Quiet(name) == name \in sent /\ \A s \in Slot : InFlight(s) => Name(s) # name

Entered(name) == uploads[name[1]] # None /\ name[2] \in DOMAIN uploads[name[1]].parts

SentOnce(name) ==
  /\ \A s \in Slot : InFlight(s) /\ Name(s) = name =>
       /\ name \in sent /\ \A t \in Slot \ {s} : InFlight(t) => Name(t) # name
       /\ linked[s] /\ part[name] = SubSeq(call[s].body, 1, progress[s])
       /\ at[s] # "part_replace"
       /\ at[s] = "part_record" => progress[s] = Len(call[s].body)
  /\ Entered(name) =>
       /\ Quiet(name) /\ part[name] # None
       /\ PartEntry(part[name]) = uploads[name[1]].parts[name[2]]
  /\ \A s \in Slot : name \in cleaning[s] => Quiet(name)
  /\ \A s \in Slot : at[s] = "storing" =>
       \A i \in DOMAIN picked[s] : name = <<U(s), picked[s][i].n>> =>
         Quiet(name) /\ (part[name] # None => Md5(part[name]) = picked[s][i].etag)

SendsAreKnown == resent \subseteq sent /\ \A name \in PartName \ resent : SentOnce(name)

Digests(parts) == [i \in DOMAIN parts |-> parts[i].etag.md5]

AssembledSoFar ==
  resent = {} =>
    \A s \in Slot : Assembling(s) =>
      /\ progress[s] <= Len(picked[s])
      /\ temp[s].data = FlattenSeq(SubSeq(Digests(picked[s]), 1, progress[s]))
=============================================================================
