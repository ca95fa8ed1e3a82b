---------------------------- MODULE ObjectsProofs ----------------------------
(***************************************************************************)
(* Which ranges are accepted, and the types of the answers and entries the *)
(* handlers compute, for all requests and objects.                         *)
(***************************************************************************)
EXTENDS Objects, SequenceTheorems, TLAPS

(* A range that is accepted lies inside the file, is not empty and covers  *)
(* exactly the bytes the header asks for; so the subtraction in            *)
(* `ByteRange::len` never underflows and the 206 sends what was asked.     *)
THEOREM AcceptedRangeIsWhatWasAsked ==
  ASSUME NEW header \in RangeHeader, NEW size \in Nat,
         ParseRange(header, size).kind = "part"
  PROVE  LET range == ParseRange(header, size) IN
         /\ range.start \in Nat /\ range.end \in Nat
         /\ range.start <= range.end /\ range.end < size
         /\ RangeLen(range) \in 1 .. size
         /\ \A i \in 0 .. size - 1 :
              range.start <= i /\ i <= range.end <=> Asks(header, size, i)
<1>1. header.shape \in {"from_to", "from", "suffix"} /\ header.a \in Nat /\ header.b \in Nat
  BY DEF RangeHeader, RangeShape, ParseRange, WellFormed
<1>2. WellFormed(header) /\ Satisfiable(header, size)
  BY <1>1 DEF ParseRange
<1>3. ParseRange(header, size) =
        [kind |-> "part", start |-> RangeStart(header, size), end |-> RangeEnd(header, size)]
  BY <1>1, <1>2 DEF ParseRange
<1>4. CASE header.shape = "from_to"
  BY <1>1, <1>2, <1>3, <1>4
     DEF WellFormed, Satisfiable, RangeStart, RangeEnd, RangeLen, SaturatingSub, Lesser, Asks
<1>5. CASE header.shape = "from"
  BY <1>1, <1>2, <1>3, <1>5
     DEF WellFormed, Satisfiable, RangeStart, RangeEnd, RangeLen, SaturatingSub, Lesser, Asks
<1>6. CASE header.shape = "suffix"
  BY <1>1, <1>2, <1>3, <1>6
     DEF WellFormed, Satisfiable, RangeStart, RangeEnd, RangeLen, SaturatingSub, Lesser, Asks
<1>7. QED
  BY <1>1, <1>4, <1>5, <1>6

(* A header is refused only if its numbers cannot be read as u64s in       *)
(* order, or the file has none of the bytes it asks for.                   *)
THEOREM RefusedRangeHasNothing ==
  ASSUME NEW header \in RangeHeader, NEW size \in Nat,
         ParseRange(header, size).kind = "invalid", Readable(header)
  PROVE  \A i \in 0 .. size - 1 : ~Asks(header, size, i)
<1>1. header.shape \in {"from_to", "from", "suffix"} /\ header.a \in Nat /\ header.b \in Nat
  BY DEF RangeHeader, RangeShape, Readable
<1>2. WellFormed(header)
  BY <1>1, MaxU64Assumption DEF WellFormed, Readable
<1>3. ~Satisfiable(header, size)
  BY <1>1, <1>2 DEF ParseRange
<1>4. QED
  BY <1>1, <1>3 DEF Satisfiable, RangeStart, SaturatingSub, Asks

-----------------------------------------------------------------------------
(* Seconds and HTTP dates are natural numbers.                             *)
LEMMA SecsType ==
  ASSUME NEW time \in Nat
  PROVE  Secs(time) \in Nat /\ HttpDate(time) \in Nat
<1>1. Secs(time) \in Nat
  BY TicksPerSecondAssumption DEF Secs
<1>2. QED
  BY <1>1, TicksPerSecondAssumption DEF HttpDate

(* Headers of an object are sequences, those of an answer a set.           *)
LEMMA HeadersType ==
  /\ << >> \in Headers
  /\ \A r \in Request : r.headers \in Headers
  /\ \A headers \in Headers : Applied(headers) \in SUBSET HeaderEntry
<1>1. ASSUME NEW headers \in Headers PROVE Applied(headers) \in SUBSET HeaderEntry
  <2>1. headers \in Seq(HeaderEntry)
    BY DEF Headers
  <2>2. \A i \in DOMAIN headers : headers[i] \in HeaderEntry
    BY <2>1
  <2>3. QED
    BY <2>2 DEF Applied
<1>2. << >> \in Headers
  BY DEF Headers
<1>3. QED
  BY <1>1, <1>2, RequestAssumption

(* Putting a header among those of an object leaves a sequence of headers. *)
LEMMA UpsertedType ==
  ASSUME NEW headers \in Headers, NEW header \in HeaderEntry
  PROVE  Upserted(headers, header) \in Headers
<1>1. headers \in Seq(HeaderEntry)
  BY DEF Headers
<1>2. Append(headers, header) \in Seq(HeaderEntry)
  BY <1>1
<1>3. ASSUME NEW i PROVE [headers EXCEPT ![i] = header] \in Seq(HeaderEntry)
  <2>1. headers \in [1 .. Len(headers) -> HeaderEntry] /\ Len(headers) \in Nat
    BY <1>1
  <2>2. [headers EXCEPT ![i] = header] \in [1 .. Len(headers) -> HeaderEntry]
    BY <2>1
  <2>3. QED
    BY <2>1, <2>2, SeqDef
<1>4. QED
  BY <1>2, <1>3 DEF Upserted, Headers

(* The entry of a file is an entry.                                        *)
LEMMA EntryOfType ==
  ASSUME NEW data \in Seq(Frame), NEW mtime \in Nat, NEW headers \in Headers
  PROVE  EntryOf(data, mtime, headers) \in Entries
<1>1. Md5(data) \in Etags /\ Len(data) \in Nat
  BY DEF Md5, Etags
<1>2. QED
  BY <1>1 DEF EntryOf, Entries

(* The cache record of an entry is a record.                               *)
LEMMA CacheRecordType ==
  ASSUME NEW entry \in Entries
  PROVE  CacheRecord(entry) \in Records
<1>1. entry.modified \in Nat /\ entry.etag \in Etags /\ entry.headers \in Headers
  BY DEF Entries
<1>2. QED
  BY <1>1, SecsType DEF CacheRecord, Records

(* The answers built from an entry or from none are answers.               *)
LEMMA AnswerType ==
  ASSUME NEW code \in Codes, NEW entry \in Entries \cup {None},
         NEW length \in Nat, NEW data \in Seq(Frame)
  PROVE  Answer(code, entry, length, data) \in Answers
<1>1. CASE entry = None
  BY <1>1 DEF Answer, EtagOf, Answers
<1>2. CASE entry # None
  <2>1. entry.modified \in Nat /\ entry.etag \in Etags /\ entry.headers \in Headers
    BY <1>2 DEF Entries
  <2>2. HttpDate(entry.modified) \in Nat
    BY <2>1, SecsType
  <2>3. Applied(entry.headers) \in SUBSET HeaderEntry
    BY <2>1, HeadersType
  <2>4. QED
    BY <1>2, <2>1, <2>2, <2>3 DEF Answer, EtagOf, Answers
<1>3. QED
  BY <1>1, <1>2

(* So are those without a body,                                            *)
LEMMA EmptyAnswerType ==
  ASSUME NEW code \in Codes, NEW entry \in Entries \cup {None}, NEW length \in Nat
  PROVE  Answer(code, entry, length, << >>) \in Answers
<1>1. << >> \in Seq(Frame)
  OBVIOUS
<1>2. QED
  BY <1>1, AnswerType

(* those that refuse,                                                      *)
LEMMA RefusalType ==
  ASSUME NEW code \in Codes
  PROVE  Refusal(code) \in Answers
BY EmptyAnswerType DEF Refusal

(* and those of a request that went through.                               *)
LEMMA DoneType ==
  /\ InternalError \in Answers /\ DeleteDone \in Answers /\ HeaderDone \in Answers
  /\ \A entry \in Entries : PutDone(entry) \in Answers
<1>1. InternalError \in Answers /\ DeleteDone \in Answers /\ HeaderDone \in Answers
  BY RefusalType DEF InternalError, DeleteDone, HeaderDone, Codes
<1>2. ASSUME NEW entry \in Entries PROVE PutDone(entry) \in Answers
  <2>1. Refusal("Ok") \in Answers
    BY RefusalType DEF Codes
  <2>2. entry.etag \in Etags
    BY DEF Entries
  <2>3. QED
    BY <2>1, <2>2 DEF PutDone, Answers
<1>3. QED
  BY <1>1, <1>2

(* None is no file, entry, record or answer.                               *)
LEMMA NoneIsNone ==
  None \notin Files /\ None \notin Entries /\ None \notin Records /\ None \notin Answers
BY NoneAssumption

(* Refusals are answers, and None only where there is none.                *)
LEMMA InvalidType ==
  ASSUME NEW r \in Request
  PROVE  /\ PutInvalid(r) \in Answers \cup {None}
         /\ DeleteInvalid(r) \in Answers \cup {None}
         /\ GetInvalid(r) \in Answers \cup {None}
         /\ AddHeaderInvalid(r) \in Answers \cup {None}
         /\ \/ PutInvalid(r) = None \/ DeleteInvalid(r) = None
            \/ GetInvalid(r) = None \/ AddHeaderInvalid(r) = None
            => KeyOf(r) \in Key
<1>1. \A error : HeaderRefusal(error) \in Answers \cup {None}
  BY RefusalType DEF HeaderRefusal, RefuseIf, Codes
<1>2. \A code \in {"InvalidArgument", "NoSuchKey", "InvalidInput"} :
        /\ KeyRefusal(r, code) \in Answers \cup {None}
        /\ KeyRefusal(r, code) = None => KeyOf(r) # None
  BY RefusalType, NoneIsNone DEF KeyRefusal, RefuseIf, Codes
<1>3. KeyOf(r) # None => KeyOf(r) \in Key
  BY DEF Key
<1>4. QED
  BY <1>1, <1>2, <1>3 DEF PutInvalid, DeleteInvalid, GetInvalid, AddHeaderInvalid, First

(* What a request is refused with, by the object it names, is an answer.   *)
LEMMA RefusedType ==
  ASSUME NEW r \in Request, NEW entry \in Entries \cup {None}
  PROVE  /\ PutRefused(r, entry) \in Answers \cup {None}
         /\ DeleteRefused(r, entry) \in Answers \cup {None}
         /\ GetRefused(r, entry) \in Answers \cup {None}
         /\ GetRefused(r, entry) = None => entry \in Entries
<1>1. PutRefused(r, entry) \in Answers \cup {None}
  BY RefusalType DEF PutRefused, RefuseIf, Codes
<1>2. DeleteRefused(r, entry) \in Answers \cup {None}
  BY RefusalType DEF DeleteRefused, RefuseIf, First, Codes
<1>3. CASE entry = None
  BY <1>1, <1>2, <1>3, RefusalType, NoneIsNone DEF GetRefused, Codes
<1>4. CASE entry \in Entries
  <2>1. entry # None /\ entry.size \in Nat
    BY <1>4, NoneIsNone DEF Entries
  <2>2. Answer("NotModified", entry, 0, << >>) \in Answers
    BY <1>4, EmptyAnswerType DEF Codes
  <2>3. Refusal("PreconditionFailed") \in Answers
    BY RefusalType DEF Codes
  <2>4. RangeRefusal(r, entry.size) \in Answers \cup {None}
    BY <2>1, EmptyAnswerType DEF RangeRefusal, RefuseIf, Codes
  <2>5. GetRefused(r, entry) \in Answers \cup {None}
    BY <2>1, <2>2, <2>3, <2>4 DEF GetRefused, RefuseIf, First
  <2>6. QED
    BY <1>1, <1>2, <1>4, <2>5
<1>5. QED
  BY <1>3, <1>4

(* An add_header that goes through finds an entry and makes another one.   *)
LEMMA AddHeaderType ==
  ASSUME NEW r \in Request, r.op = "add_header", NEW entry \in Entries \cup {None}
  PROVE  /\ AddHeaderRefused(r, entry) \in Answers \cup {None}
         /\ AddHeaderRefused(r, entry) = None =>
              entry # None /\ entry \in Entries /\ HeaderAdded(r, entry) \in Entries
<1>1. /\ Refusal("NotFound") \in Answers /\ Refusal("InvalidInput") \in Answers
      /\ Refusal("NotFound") # None
  BY RefusalType, NoneIsNone DEF Codes
<1>2. /\ AddHeaderRefused(r, entry) \in Answers \cup {None}
      /\ AddHeaderRefused(r, entry) = None => entry # None
  BY <1>1 DEF AddHeaderRefused, RefuseIf, First
<1>3. ASSUME entry \in Entries PROVE HeaderAdded(r, entry) \in Entries
  <2>1. r.headers \in Seq(HeaderEntry) /\ Len(r.headers) = 1
    BY RequestAssumption DEF Headers
  <2>2. r.headers[1] \in HeaderEntry
    BY <2>1
  <2>3. entry.headers \in Headers
    BY <1>3 DEF Entries
  <2>4. Upserted(entry.headers, r.headers[1]) \in Headers
    BY <2>2, <2>3, UpsertedType
  <2>5. QED
    BY <1>3, <2>4 DEF HeaderAdded, Entries
<1>4. QED
  BY <1>2, <1>3

(* A GET that goes through has a range inside the object; its length never *)
(* underflows and its body is made of the object's bytes.                  *)
LEMMA GetDoneType ==
  ASSUME NEW r \in Request, NEW entry \in Entries, NEW data \in Seq(Frame),
         GetRefused(r, entry) = None
  PROVE  GetDone(r, entry, data) \in Answers
<1> DEFINE range == ParseRange(r.range, entry.size)
<1>1. entry.size \in Nat /\ r.range \in RangeHeader
  BY RequestAssumption DEF Entries
<1>2. range.kind # "invalid"
  <2>1. entry # None
    BY NoneIsNone
  <2>2. RangeRefusal(r, entry.size) = None
    BY <2>1 DEF GetRefused, First
  <2>3. Answer("InvalidRange", None, entry.size, << >>) \in Answers
    BY <1>1, EmptyAnswerType DEF Codes
  <2>4. QED
    BY <2>2, <2>3, NoneIsNone DEF RangeRefusal, RefuseIf
<1>3. CASE range.kind = "whole"
  BY <1>1, <1>3, AnswerType DEF GetDone, Codes
<1>4. CASE range.kind = "part"
  <2>1. range.start \in Nat /\ RangeLen(range) \in Nat
    BY <1>1, <1>4, AcceptedRangeIsWhatWasAsked
  <2> DEFINE last == Lesser(range.start + RangeLen(range), Len(data))
  <2>2. last \in Int /\ last <= Len(data)
    BY <2>1 DEF Lesser
  <2>3. \A i \in range.start + 1 .. last : data[i] \in Frame
    BY <2>1, <2>2
  <2>4. SubSeq(data, range.start + 1, last) \in Seq(Frame)
    BY <2>1, <2>2, <2>3, SubSeqProperties
  <2>5. QED
    BY <1>4, <2>1, <2>4, AnswerType DEF GetDone, Codes
<1>5. QED
  BY <1>2, <1>3, <1>4 DEF ParseRange

(* What a GET is refused with is no 200 and no 206.                        *)
LEMMA RefusedCode ==
  ASSUME NEW r \in Request, NEW entry \in Entries \cup {None}
  PROVE  /\ GetRefused(r, entry) # None => GetRefused(r, entry).code \notin {"Ok", "PartialContent"}
         /\ GetInvalid(r) # None => GetInvalid(r).code \notin {"Ok", "PartialContent"}
         /\ InternalError.code \notin {"Ok", "PartialContent"}
<1>1. \A code, e, length, data : Answer(code, e, length, data).code = code
  BY DEF Answer
<1>2. \A code : Refusal(code).code = code
  BY <1>1 DEF Refusal
<1>3. GetInvalid(r) # None => GetInvalid(r).code = "NoSuchKey"
  BY <1>2 DEF GetInvalid, KeyRefusal, RefuseIf
<1>4. InternalError.code = "InternalError"
  BY <1>2 DEF InternalError
<1>5. \A size : RangeRefusal(r, size) # None => RangeRefusal(r, size).code = "InvalidRange"
  BY <1>1 DEF RangeRefusal, RefuseIf
<1>6. GetRefused(r, entry) # None =>
        GetRefused(r, entry).code \in {"NoSuchKey", "NotModified", "PreconditionFailed", "InvalidRange"}
  BY <1>1, <1>2, <1>5 DEF GetRefused, RefuseIf, First
<1>7. QED
  BY <1>3, <1>4, <1>6

(* A GET of a file that its entry describes sends as many bytes as it      *)
(* announces, all of them under the MD5 that is their ETag.                *)
LEMMA GetDoneTruthful ==
  ASSUME NEW r \in Request, NEW data \in Seq(Frame), NEW mtime, NEW headers,
         NEW entry \in Entries, entry = EntryOf(data, mtime, headers),
         GetRefused(r, entry) = None
  PROVE  /\ Len(GetDone(r, entry, data).data) = GetDone(r, entry, data).length
         /\ GetDone(r, entry, data).code = "Ok"
              => GetDone(r, entry, data).etag = Md5(GetDone(r, entry, data).data)
<1> DEFINE range == ParseRange(r.range, entry.size)
<1>1. entry.size = Len(data) /\ entry.etag = Md5(data) /\ Len(data) \in Nat
  BY DEF EntryOf
<1>2. entry # None /\ r.range \in RangeHeader
  BY NoneIsNone, RequestAssumption
<1>3. CASE range.kind = "whole"
  BY <1>1, <1>2, <1>3 DEF GetDone, Answer, EtagOf
<1>4. CASE range.kind = "part"
  <2> DEFINE first == range.start + 1
             last == Lesser(range.start + RangeLen(range), Len(data))
  <2>1. /\ range.start \in Nat /\ range.end \in Nat
        /\ range.start <= range.end /\ range.end < Len(data)
    BY <1>1, <1>2, <1>4, AcceptedRangeIsWhatWasAsked
  <2>2. RangeLen(range) = range.end - range.start + 1
    BY DEF RangeLen
  <2>3. last = range.end + 1 /\ first \in Int
    BY <1>1, <2>1, <2>2 DEF Lesser
  <2>4. \A i \in first .. last : data[i] \in Frame
    BY <1>1, <2>1, <2>3
  <2>5. Len(SubSeq(data, first, last)) = RangeLen(range)
    BY <2>1, <2>2, <2>3, <2>4, SubSeqProperties
  <2>6. GetDone(r, entry, data) =
          Answer("PartialContent", entry, RangeLen(range), SubSeq(data, first, last))
    BY <1>4 DEF GetDone
  <2> DEFINE answer == Answer("PartialContent", entry, RangeLen(range), SubSeq(data, first, last))
  <2>7. /\ answer.code = "PartialContent"
        /\ answer.length = RangeLen(range)
        /\ answer.data = SubSeq(data, first, last)
    BY DEF Answer
  <2>8. GetDone(r, entry, data) = answer
    BY <2>6
  <2> HIDE DEF answer, first, last, range
  <2>9. QED
    BY <2>5, <2>7, <2>8
<1>5. range.kind # "invalid"
  <2>1. RangeRefusal(r, entry.size) = None
    BY <1>2 DEF GetRefused, First
  <2>2. Answer("InvalidRange", None, entry.size, << >>) \in Answers
    BY <1>1, EmptyAnswerType DEF Codes
  <2>3. QED
    BY <2>1, <2>2, NoneIsNone DEF RangeRefusal, RefuseIf
<1>6. QED
  BY <1>3, <1>4, <1>5 DEF ParseRange

(* Only a failed operation answers 500: no refusal does, nor a success of  *)
(* a GET, a DELETE or an add_header.                                       *)
LEMMA OnlyFailuresAre500 ==
  ASSUME NEW r \in Request, NEW entry \in Entries \cup {None}
  PROVE  /\ GetInvalid(r) # None => GetInvalid(r).code # "InternalError"
         /\ DeleteInvalid(r) # None => DeleteInvalid(r).code # "InternalError"
         /\ GetRefused(r, entry) # None => GetRefused(r, entry).code # "InternalError"
         /\ DeleteRefused(r, entry) # None => DeleteRefused(r, entry).code # "InternalError"
         /\ PutInvalid(r) # None => PutInvalid(r).code # "InternalError"
         /\ PutRefused(r, entry) # None => PutRefused(r, entry).code # "InternalError"
         /\ AddHeaderInvalid(r) # None => AddHeaderInvalid(r).code # "InternalError"
         /\ AddHeaderRefused(r, entry) # None => AddHeaderRefused(r, entry).code # "InternalError"
         /\ DeleteDone.code # "InternalError" /\ HeaderDone.code # "InternalError"
         /\ \A data : GetDone(r, entry, data).code # "InternalError"
<1>1. \A code, e, length, data : Answer(code, e, length, data).code = code
  BY DEF Answer
<1>2. \A code : Refusal(code).code = code
  BY <1>1 DEF Refusal
<1>3. \A code : KeyRefusal(r, code) # None => KeyRefusal(r, code).code = code
  BY <1>2 DEF KeyRefusal, RefuseIf
<1>4. \A error : HeaderRefusal(error) # None =>
                   HeaderRefusal(error).code \in {"NotImplemented", "InvalidArgument"}
  BY <1>2 DEF HeaderRefusal, RefuseIf
<1>5. GetInvalid(r) # None => GetInvalid(r).code # "InternalError"
  BY <1>3 DEF GetInvalid
<1>6. DeleteInvalid(r) # None => DeleteInvalid(r).code # "InternalError"
  BY <1>3, <1>4 DEF DeleteInvalid, First
<1>7. \A size : RangeRefusal(r, size) # None => RangeRefusal(r, size).code = "InvalidRange"
  BY <1>1 DEF RangeRefusal, RefuseIf
<1>8. GetRefused(r, entry) # None => GetRefused(r, entry).code # "InternalError"
  BY <1>1, <1>2, <1>7 DEF GetRefused, RefuseIf, First
<1>9. DeleteRefused(r, entry) # None => DeleteRefused(r, entry).code # "InternalError"
  BY <1>2 DEF DeleteRefused, RefuseIf, First
<1>10. DeleteDone.code # "InternalError" /\ HeaderDone.code # "InternalError"
  BY <1>2 DEF DeleteDone, HeaderDone
<1>11. \A data : GetDone(r, entry, data).code # "InternalError"
  BY <1>1 DEF GetDone
<1>12. PutInvalid(r) # None => PutInvalid(r).code # "InternalError"
  BY <1>3, <1>4 DEF PutInvalid, First
<1>13. PutRefused(r, entry) # None => PutRefused(r, entry).code # "InternalError"
  BY <1>2 DEF PutRefused, RefuseIf
<1>14. AddHeaderInvalid(r) # None => AddHeaderInvalid(r).code # "InternalError"
  BY <1>3 DEF AddHeaderInvalid
<1>15. AddHeaderRefused(r, entry) # None => AddHeaderRefused(r, entry).code # "InternalError"
  BY <1>2 DEF AddHeaderRefused, RefuseIf, First
<1>16. QED
  BY <1>5, <1>6, <1>8, <1>9, <1>10, <1>11, <1>12, <1>13, <1>14, <1>15
=============================================================================
