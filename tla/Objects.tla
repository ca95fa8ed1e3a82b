------------------------------- MODULE Objects -------------------------------
(***************************************************************************)
(* What the handlers pass around: requests, the entries of the index,      *)
(* files, cache records, answers, and which answer a request gets from one *)
(* state of the object it names.  The sequential part of the handlers,     *)
(* shared by the atomic specification (AtomicStore) and the concurrent one *)
(* (ObjectStore).                                                          *)
(***************************************************************************)
EXTENDS Conditional, ByteRange, ObjectKeys

CONSTANTS
  Request,   \* the requests clients may send
  Frame      \* frames that bodies are made of

(* A body is the sequence of its frames, each one byte long for the model. *)
(* MD5 has no collisions here: the digest of a body is the body.           *)
(* In the ETag of a multipart object `parts` has the size of each part.    *)
Md5(data) == [md5 |-> data, parts |-> None]

EntryOf(data, mtime, headers) ==
  [size |-> Len(data), modified |-> mtime, etag |-> Md5(data), headers |-> headers]

(* The record of the metadata cache: the time in whole seconds, no size.   *)
CacheRecord(entry) ==
  [secs |-> Secs(entry.modified), etag |-> entry.etag, headers |-> entry.headers]

EtagOf(entry) == IF entry = None THEN None ELSE entry.etag

(* Custom headers: those of a PUT whose names begin with x-amz-meta-, in    *)
(* their order and as often as they came, and the one an add_header adds.  *)
(* Names are in lower case; None is a name or value HTTP does not allow.   *)
HeaderEntry == UNION {{r.headers[i] : i \in DOMAIN r.headers} : r \in Request}

Headers == Seq(HeaderEntry)

(* A response has each name once, with the value that came last.           *)
Applied(headers) ==
  {headers[i] : i \in {j \in DOMAIN headers :
     \A later \in DOMAIN headers : later > j => headers[later].name # headers[j].name}}

(* An update replaces the first header of that name.                       *)
Positions(headers, name) == {i \in DOMAIN headers : headers[i].name = name}

FirstPosition(headers, name) ==
  CHOOSE i \in Positions(headers, name) : \A j \in Positions(headers, name) : i <= j

Upserted(headers, header) ==
  IF Positions(headers, header.name) = {}
    THEN Append(headers, header)
    ELSE [headers EXCEPT ![FirstPosition(headers, header.name)] = header]

KeyOf(r) == IF SanitizeKey(r.key) = None THEN None ELSE ObjectKey(SanitizeKey(r.key))

Key == {KeyOf(r) : r \in Request} \ {None}

ASSUME RequestAssumption ==
  /\ None \notin Request
  /\ \A r \in Request :
       /\ r.op \in {"put", "get", "delete", "add_header"}
       /\ r.body \in Seq(Frame)
       /\ r.headers \in Headers
       /\ r.op = "add_header" => Len(r.headers) = 1
       /\ r.range \in RangeHeader

-----------------------------------------------------------------------------
(* Answers. *)

Answer(code, entry, length, data) ==
  [code     |-> code,
   etag     |-> EtagOf(entry),
   modified |-> IF entry = None THEN None ELSE HttpDate(entry.modified),
   headers  |-> IF entry = None THEN {} ELSE Applied(entry.headers),
   length   |-> length,
   data     |-> data]

Refusal(code) == Answer(code, None, 0, << >>)

InternalError == Refusal("InternalError")

PutDone(entry) == [Refusal("Ok") EXCEPT !.etag = entry.etag]
DeleteDone == Refusal("NoContent")
HeaderDone == Refusal("Ok")

-----------------------------------------------------------------------------
(* Early returns: a handler refuses for the first reason it comes to.      *)

RefuseIf(condition, refusal) == IF condition THEN refusal ELSE None

First(refusal, otherwise) == IF refusal # None THEN refusal ELSE otherwise

HeaderRefusal(error) ==
  RefuseIf(error # None,
           Refusal(IF error = "UnsupportedIfNoneMatch" THEN "NotImplemented" ELSE "InvalidArgument"))

KeyRefusal(r, code) == RefuseIf(KeyOf(r) = None, Refusal(code))

(* Why the request is refused before any condition is evaluated, or None.  *)
PutInvalid(r) ==
  First(KeyRefusal(r, "InvalidArgument"),
        HeaderRefusal(WriteHeadersError(r.if_match, r.if_none_match)))

DeleteInvalid(r) ==
  First(HeaderRefusal(SingleHeaderError(r.if_match)),
        KeyRefusal(r, "InvalidArgument"))

GetInvalid(r) == KeyRefusal(r, "NoSuchKey")

AddHeaderInvalid(r) == KeyRefusal(r, "InvalidInput")

(* Why a valid request is refused by the object's entry (None: no object). *)
PutRefused(r, entry) ==
  RefuseIf(EvaluateWrite(EtagOf(entry), SingleHeader(r.if_match), SingleHeader(r.if_none_match))
             = "PreconditionFailed",
           Refusal("PreconditionFailed"))

DeleteVerdict(r, entry) == EvaluateDelete(EtagOf(entry), SingleHeader(r.if_match))

DeleteRefused(r, entry) ==
  First(RefuseIf(DeleteVerdict(r, entry) = "NotFound", Refusal("NoSuchKey")),
        RefuseIf(DeleteVerdict(r, entry) = "PreconditionFailed", Refusal("PreconditionFailed")))

AddHeaderRefused(r, entry) ==
  First(RefuseIf(entry = None, Refusal("NotFound")),
        RefuseIf(None \in {r.headers[1].name, r.headers[1].value}, Refusal("InvalidInput")))

HeaderAdded(r, entry) == [entry EXCEPT !.headers = Upserted(entry.headers, r.headers[1])]

GetVerdict(r, entry) ==
  Evaluate(entry.etag, entry.modified, FirstHeader(r.if_match), FirstHeader(r.if_none_match),
           r.if_modified_since, r.if_unmodified_since)

RangeRefusal(r, size) ==
  RefuseIf(ParseRange(r.range, size).kind = "invalid",
           Answer("InvalidRange", None, size, << >>))

GetRefused(r, entry) ==
  IF entry = None
    THEN Refusal("NoSuchKey")
    ELSE First(RefuseIf(GetVerdict(r, entry) = "NotModified", Answer("NotModified", entry, 0, << >>)),
         First(RefuseIf(GetVerdict(r, entry) = "PreconditionFailed", Refusal("PreconditionFailed")),
               RangeRefusal(r, entry.size)))

(* The body is read from the open file, the headers come from the entry:   *)
(* Content-Length is promised before a byte is read.                       *)
GetDone(r, entry, data) ==
  LET range == ParseRange(r.range, entry.size)
  IN  IF range.kind = "whole"
        THEN Answer("Ok", entry, entry.size, data)
        ELSE Answer("PartialContent", entry, RangeLen(range),
                    SubSeq(data, range.start + 1, Lesser(range.start + RangeLen(range), Len(data))))

-----------------------------------------------------------------------------
(* The types of all these. *)

Codes == {"Ok", "NoContent", "PartialContent", "NotModified", "InternalError",
          "InvalidArgument", "NotImplemented", "NoSuchKey", "PreconditionFailed", "InvalidRange",
          "InvalidInput", "NotFound"}

Etags == [md5 : Seq(Frame), parts : Seq(Nat) \cup {None}]

Files == [data : Seq(Frame), mtime : Nat]

StoredObjects == [data : Seq(Frame), mtime : Nat, headers : Headers]

Entries == [size : Nat, modified : Nat, etag : Etags, headers : Headers]

Records == [secs : Nat, etag : Etags, headers : Headers]

Answers == [code : Codes, etag : Etags \cup {None}, modified : Nat \cup {None},
            headers : SUBSET HeaderEntry, length : Nat, data : Seq(Frame)]

ASSUME NoneAssumption == None \notin Files \cup StoredObjects \cup Entries \cup Records \cup Answers
=============================================================================
