--------------------------- MODULE RequestsProofs ---------------------------
(***************************************************************************)
(* Theorems about Requests, for all requests and objects: what conditional *)
(* headers and ranges make of a request, whatever values they carry.       *)
(***************************************************************************)
EXTENDS Requests, ObjectsProofs, FiniteSetTheorems

(* The answer, once given, is that of the request's handler.               *)
Handled ==
  /\ data \in Bodies \cup {None} /\ mtime \in Nat /\ request \in Request
  /\ answer # None =>
       \/ /\ request.op = "put"
          /\ answer = First(PutInvalid(request), First(PutRefused(request, Entry), Refusal("Ok")))
       \/ /\ request.op = "delete"
          /\ answer = First(DeleteInvalid(request), First(DeleteRefused(request, Entry), DeleteDone))
       \/ /\ request.op = "get"
          /\ answer = First(GetInvalid(request),
                            IF GetRefused(request, Entry) # None
                              THEN GetRefused(request, Entry)
                              ELSE GetDone(request, Entry, data))

(* Every answer is the one its handler makes of the request.               *)
LEMMA AlwaysHandled == Spec => []Handled
<1>1. Init => Handled
  BY RequestsAssumption DEF Init, Handled
<1>2. Handled /\ [Next]_vars => Handled'
  BY DEF Handled, Next, AnswerPut, AnswerDelete, AnswerGet, Entry, vars
<1>3. QED
  BY <1>1, <1>2, PTL DEF Spec

-----------------------------------------------------------------------------
(* The values of a header. *)

(* A value matches the ETag of an object if it is `*` or that ETag.        *)
LEMMA Matching ==
  ASSUME NEW v \in HeaderValue
  PROVE  /\ v # None
         /\ v.form = "star" <=> v = Star
         /\ v.form = "unreadable" <=> v = Unreadable
         /\ \A etag : EtagMatches(etag, v) <=> v \in {Star, Quoted(etag), Bare(etag)}
<1>1. v # None
  BY RequestsAssumption
<1>2. CASE v \in [form : {"quoted", "bare"}, tag : Etags]
  BY <1>1, <1>2 DEF Star, Unreadable, Quoted, Bare, EtagMatches
<1>3. CASE v \in [form : {"star", "other", "unreadable"}, tag : {None}]
  BY <1>1, <1>3 DEF Star, Unreadable, Quoted, Bare, EtagMatches
<1>4. QED
  BY <1>2, <1>3 DEF HeaderValue

(* A write reads a header that is absent or has one readable value.        *)
LEMMA Reading ==
  ASSUME NEW values \in Seq(HeaderValue)
  PROVE  /\ SingleHeaderError(values) = None <=>
              values = << >> \/ (Len(values) = 1 /\ values[1] # Unreadable)
         /\ values # << >> => values[1] \in HeaderValue
         /\ values = <<Star>> <=> Len(values) = 1 /\ values[1] = Star
<1>1. PICK n \in Nat : n = Len(values) /\ (values = << >> <=> n = 0)
  BY EmptySeq
<1>2. values # << >> => values[1] \in HeaderValue
  BY <1>1
<1>3. "Repeated" # None /\ "Unreadable" # None
  BY RequestsAssumption DEF HeaderErrors
<1>4. SingleHeaderError(values) = None <=>
        values = << >> \/ (Len(values) = 1 /\ values[1] # Unreadable)
  <2>1. CASE n > 1
    BY <1>1, <1>3, <2>1 DEF SingleHeaderError
  <2>2. CASE n = 1
    BY <1>1, <1>2, <1>3, <2>2, Matching DEF SingleHeaderError
  <2>3. CASE n = 0
    BY <1>1, <2>3 DEF SingleHeaderError
  <2>4. QED
    BY <1>1, <2>1, <2>2, <2>3
<1>5. values = <<Star>> <=> Len(values) = 1 /\ values[1] = Star
  BY <1>1
<1>6. QED
  BY <1>2, <1>4, <1>5

(* The object has an entry, whose ETag is the digest of its content.       *)
LEMMA EntryThere ==
  ASSUME Handled
  PROVE  /\ data = None => Entry = None
         /\ data # None => /\ data \in Seq(Frame) /\ Entry \in Entries /\ Entry # None
                           /\ Entry.etag = Md5(data) /\ Md5(data) # None
                           /\ Entry.modified = mtime /\ Entry.size = Len(data)
<1>1. CASE data = None
  BY <1>1 DEF Entry
<1>2. CASE data # None
  <2>1. data \in Seq(Frame) /\ Entry = EntryOf(data, mtime, << >>)
    BY <1>2, RequestsAssumption DEF Handled, Entry
  <2>2. Entry \in Entries /\ Md5(data) \in Etags
    BY <2>1, EntryOfType, HeadersType DEF Handled, Md5, Etags
  <2>3. QED
    BY <1>2, <2>1, <2>2, NoneIsNone, RequestsAssumption DEF EntryOf
<1>3. QED
  BY <1>1, <1>2

(* What the conditions of a write say, as it evaluates them.               *)
LEMMA WriteConditions ==
  ASSUME Handled, NEW im, NEW inm, im = request.if_match, inm = request.if_none_match
  PROVE  /\ im \in Seq(HeaderValue) /\ inm \in Seq(HeaderValue)
         /\ SingleHeaderError(im) = None =>
              (IfMatchHolds <=> im = << >> \/ (data # None /\ EtagMatches(Md5(data), im[1])))
         /\ SingleHeaderError(im) # None => ~IfMatchHolds
         /\ SingleHeaderError(inm) # None => ~IfNoneMatchHolds
         /\ SingleHeaderError(inm) = None =>
              (IfNoneMatchHolds <=>
                 inm = << >> \/ (inm[1].form = "star" /\ inm[1] = Star /\ data = None))
<1>1. im \in Seq(HeaderValue) /\ inm \in Seq(HeaderValue)
  BY RequestsAssumption DEF Handled
<1>2. Unreadable \notin {Star, Quoted(Md5(data)), Bare(Md5(data))}
  BY DEF Unreadable, Star, Quoted, Bare
<1>3. IfMatchHolds <=> im = << >> \/ (Len(im) = 1 /\ data # None /\ EtagMatches(Md5(data), im[1]))
  <2>1. im # << >> => (EtagMatches(Md5(data), im[1]) <=> im[1] \in {Star, Quoted(Md5(data)), Bare(Md5(data))})
    BY <1>1, Reading, Matching
  <2>2. QED
    BY <2>1, <1>1, EmptySeq DEF IfMatchHolds, NamesThisVersion
<1>4. im # << >> /\ EtagMatches(Md5(data), im[1]) => im[1] # Unreadable
  BY <1>1, <1>2, Reading, Matching
<1>5. IfNoneMatchHolds <=> inm = << >> \/ (Len(inm) = 1 /\ inm[1] = Star /\ data = None)
  BY <1>1, Reading DEF IfNoneMatchHolds
<1>6. inm # << >> => (inm[1].form = "star" <=> inm[1] = Star) /\ (inm[1] = Star => inm[1] # Unreadable)
  BY <1>1, <1>2, Reading, Matching
<1>7. \A values \in {im, inm} :
        SingleHeaderError(values) = None <=>
          values = << >> \/ (Len(values) = 1 /\ values[1] # Unreadable)
  BY <1>1, Reading
<1>8. QED
  BY <1>1, <1>3, <1>4, <1>5, <1>6, <1>7

-----------------------------------------------------------------------------
(* The handler of a PUT asks all of them, and no other.                    *)
LEMMA Writes ==
  ASSUME Handled
  PROVE  WritesProceedIffConditionsHold
<1> SUFFICES ASSUME Answered("put"), KeyOf(request) # None
             PROVE  answer.code = "Ok" <=> IfMatchHolds /\ IfNoneMatchHolds
  BY DEF WritesProceedIffConditionsHold
<1> DEFINE im == request.if_match
           inm == request.if_none_match
           error == WriteHeadersError(im, inm)
           verdict == EvaluateWrite(EtagOf(Entry), SingleHeader(im), SingleHeader(inm))
<1>1. answer = First(PutInvalid(request), First(PutRefused(request, Entry), Refusal("Ok")))
  BY DEF Answered, Handled
<1>2. \A code : Refusal(code).code = code
  BY DEF Refusal, Answer
<1>3. \A code \in Codes : Refusal(code) # None
  BY RefusalType, NoneIsNone
<1>4. /\ PutInvalid(request) = HeaderRefusal(error)
      /\ error = None => HeaderRefusal(error) = None
      /\ error # None => HeaderRefusal(error) # None /\ HeaderRefusal(error).code # "Ok"
  BY <1>2, <1>3 DEF PutInvalid, KeyRefusal, RefuseIf, First, HeaderRefusal, Codes
<1>5. PutRefused(request, Entry) =
        IF verdict = "PreconditionFailed" THEN Refusal("PreconditionFailed") ELSE None
  BY DEF PutRefused, RefuseIf
<1>6. answer.code = "Ok" <=> error = None /\ verdict # "PreconditionFailed"
  BY <1>1, <1>2, <1>3, <1>4, <1>5 DEF First, Codes
<1>7. error = None <=> /\ SingleHeaderError(im) = None /\ SingleHeaderError(inm) = None
                       /\ inm = << >> \/ inm[1].form = "star"
  BY RequestsAssumption DEF HeaderErrors, WriteHeadersError
<1>8. EtagOf(Entry) = IF data = None THEN None ELSE Md5(data)
  BY EntryThere DEF EtagOf
<1>9. im \in Seq(HeaderValue) /\ inm \in Seq(HeaderValue)
  BY WriteConditions
<1>10. /\ SingleHeader(im) = None <=> im = << >>
       /\ im # << >> => SingleHeader(im) = im[1]
       /\ SingleHeader(inm) = Star <=> inm # << >> /\ inm[1] = Star
  <2>1. Star \in HeaderValue
    BY DEF Star, HeaderValue
  <2>2. Star # None /\ (im # << >> => im[1] # None)
    BY <1>9, <2>1, Reading, Matching
  <2>3. QED
    BY <2>2 DEF SingleHeader
<1>11. verdict # "PreconditionFailed" <=>
         /\ ~(data # None /\ inm # << >> /\ inm[1] = Star)
         /\ im = << >> \/ (data # None /\ EtagMatches(Md5(data), im[1]))
  BY <1>8, <1>10, EntryThere DEF EvaluateWrite
<1>12. CASE SingleHeaderError(im) = None /\ SingleHeaderError(inm) = None
  <2>1. /\ IfMatchHolds <=> im = << >> \/ (data # None /\ EtagMatches(Md5(data), im[1]))
        /\ IfNoneMatchHolds <=>
             inm = << >> \/ (inm[1].form = "star" /\ inm[1] = Star /\ data = None)
    BY <1>12, WriteConditions
  <2>2. inm # << >> => (inm[1].form = "star" <=> inm[1] = Star)
    BY <1>9, Reading, Matching
  <2> HIDE DEF im, inm, error, verdict
  <2>3. QED
    BY <1>6, <1>7, <1>11, <1>12, <2>1, <2>2
<1>13. CASE SingleHeaderError(im) # None \/ SingleHeaderError(inm) # None
  BY <1>6, <1>7, <1>13, WriteConditions
<1>14. QED
  BY <1>12, <1>13

(* That of a DELETE reads If-Match alone.                                  *)
LEMMA Deletes ==
  ASSUME Handled
  PROVE  DeletesProceedIffConditionsHold
<1> SUFFICES ASSUME Answered("delete"), KeyOf(request) # None
             PROVE  answer.code = "NoContent" <=> IfMatchHolds
  BY DEF DeletesProceedIffConditionsHold
<1> DEFINE im == request.if_match
           verdict == EvaluateDelete(EtagOf(Entry), SingleHeader(im))
<1>1. answer = First(DeleteInvalid(request), First(DeleteRefused(request, Entry), DeleteDone))
  BY DEF Answered, Handled
<1>2. \A code : Refusal(code).code = code
  BY DEF Refusal, Answer
<1>3. \A code \in Codes : Refusal(code) # None
  BY RefusalType, NoneIsNone
<1>4. /\ SingleHeaderError(im) = None => DeleteInvalid(request) = None
      /\ SingleHeaderError(im) # None =>
           DeleteInvalid(request) # None /\ DeleteInvalid(request).code # "NoContent"
  BY <1>2, <1>3 DEF DeleteInvalid, KeyRefusal, RefuseIf, First, HeaderRefusal, Codes
<1>5. /\ verdict \in {"NotFound", "PreconditionFailed"} =>
           DeleteRefused(request, Entry) # None /\ DeleteRefused(request, Entry).code # "NoContent"
      /\ verdict \notin {"NotFound", "PreconditionFailed"} => DeleteRefused(request, Entry) = None
  BY <1>2, <1>3 DEF DeleteRefused, DeleteVerdict, RefuseIf, First, Codes
<1>6. DeleteDone.code = "NoContent"
  BY <1>2 DEF DeleteDone
<1>7. answer.code = "NoContent" <=>
        SingleHeaderError(im) = None /\ verdict \notin {"NotFound", "PreconditionFailed"}
  BY <1>1, <1>4, <1>5, <1>6 DEF First
<1>8. EtagOf(Entry) = IF data = None THEN None ELSE Md5(data)
  BY EntryThere DEF EtagOf
<1>9. /\ SingleHeader(im) = None <=> im = << >>
      /\ im # << >> => SingleHeader(im) = im[1]
  <2>1. im # << >> => im[1] # None
    BY WriteConditions, Reading, Matching
  <2>2. QED
    BY <2>1 DEF SingleHeader
<1>10. verdict \notin {"NotFound", "PreconditionFailed"} <=>
         im = << >> \/ (data # None /\ EtagMatches(Md5(data), im[1]))
  BY <1>8, <1>9, EntryThere DEF EvaluateDelete
<1>11. QED
  BY <1>7, <1>10, WriteConditions

-----------------------------------------------------------------------------
(* A GET. *)

Verdict == GetVerdict(request, Entry)

(* What the answer's code says about a GET of a key.                       *)
LEMMA GetCodes ==
  ASSUME Handled, Answered("get")
  PROVE  /\ answer.code = "NotModified" <=>
              KeyOf(request) # None /\ data # None /\ Verdict = "NotModified"
         /\ answer.code = "PreconditionFailed" <=>
              KeyOf(request) # None /\ data # None /\ Verdict = "PreconditionFailed"
<1>1. answer = First(GetInvalid(request),
                     IF GetRefused(request, Entry) # None
                       THEN GetRefused(request, Entry)
                       ELSE GetDone(request, Entry, data))
  BY DEF Answered, Handled
<1>2. \A code, e, length, bytes : Answer(code, e, length, bytes).code = code
  BY DEF Answer
<1>3. \A code : Refusal(code).code = code
  BY <1>2 DEF Refusal
<1>4. \A code \in Codes : Refusal(code) # None
  BY RefusalType, NoneIsNone
<1>5. GetDone(request, Entry, data).code \notin {"NotModified", "PreconditionFailed"}
  BY <1>2 DEF GetDone
<1>6. CASE KeyOf(request) = None
  BY <1>1, <1>3, <1>4, <1>6 DEF GetInvalid, KeyRefusal, RefuseIf, First, Codes
<1>7. CASE KeyOf(request) # None /\ data = None
  BY <1>1, <1>3, <1>4, <1>7, EntryThere DEF GetInvalid, KeyRefusal, RefuseIf, First, GetRefused, Codes
<1>8. CASE KeyOf(request) # None /\ data # None
  <2>1. answer = IF GetRefused(request, Entry) # None
                   THEN GetRefused(request, Entry)
                   ELSE GetDone(request, Entry, data)
    BY <1>1, <1>8 DEF GetInvalid, KeyRefusal, RefuseIf, First
  <2>2. Entry # None /\ Answer("NotModified", Entry, 0, << >>) # None
    BY <1>8, EntryThere, EmptyAnswerType, NoneIsNone DEF Codes
  <2>3. /\ RangeRefusal(request, Entry.size) # None =>
             RangeRefusal(request, Entry.size).code = "InvalidRange"
        /\ Refusal("PreconditionFailed") # None
    BY <1>2, <1>4 DEF RangeRefusal, RefuseIf, Codes
  <2>4. GetRefused(request, Entry) =
          CASE Verdict = "NotModified" -> Answer("NotModified", Entry, 0, << >>)
            [] Verdict = "PreconditionFailed" -> Refusal("PreconditionFailed")
            [] OTHER -> RangeRefusal(request, Entry.size)
    BY <2>2, <2>3 DEF GetRefused, RefuseIf, First, Verdict
  <2>5. QED
    BY <1>2, <1>3, <1>5, <1>8, <2>1, <2>2, <2>3, <2>4
<1>9. QED
  BY <1>6, <1>7, <1>8

(* The first value of a header that can be read, if there is one.          *)
LEMMA FirstReading ==
  ASSUME NEW values \in Seq(HeaderValue)
  PROVE  /\ Given(values) => FirstHeader(values) = values[1] /\ values[1] # None
                            /\ values[1] \in HeaderValue
         /\ ~Given(values) => FirstHeader(values) = None
BY Reading, Matching DEF Given, FirstHeader

(* What the verdict on a GET of an object says.                            *)
LEMMA GetVerdicts ==
  ASSUME Handled, data # None
  PROVE  LET inm == request.if_none_match
             ims == request.if_modified_since
             im  == request.if_match
         IN  /\ Verdict = "NotModified" =>
                  IF Given(inm) THEN NamesThisVersion(inm[1])
                                ELSE ims # None /\ Secs(mtime) <= Secs(ims)
             /\ request.if_unmodified_since = None /\ im \in {<< >>, <<Quoted(Md5(data))>>} =>
                  /\ Verdict # "PreconditionFailed"
                  /\ inm = <<Quoted(Md5(data))>> => Verdict = "NotModified"
                  /\ inm = << >> => (Verdict = "NotModified" <=>
                                       ims # None /\ Secs(mtime) <= Secs(ims))
<1> DEFINE inm == request.if_none_match
           ims == request.if_modified_since
           ius == request.if_unmodified_since
           im  == request.if_match
           own == Quoted(Md5(data))
<1>1. /\ im \in Seq(HeaderValue) /\ inm \in Seq(HeaderValue)
      /\ ims \in Nat \cup {None} /\ mtime \in Nat
  BY RequestsAssumption DEF Handled
<1>2. Verdict = Evaluate(Md5(data), mtime, FirstHeader(im), FirstHeader(inm), ims, ius)
  BY EntryThere DEF Verdict, GetVerdict
<1>3. ims # None => (~IsModifiedSince(mtime, ims) <=> Secs(mtime) <= Secs(ims))
  <2>1. ims # None => Secs(mtime) \in Nat /\ Secs(ims) \in Nat
    BY <1>1, SecsType
  <2>2. QED
    BY <2>1 DEF IsModifiedSince
<1>4. Verdict = "NotModified" =>
        IF Given(inm) THEN NamesThisVersion(inm[1]) ELSE ims # None /\ Secs(mtime) <= Secs(ims)
  <2> SUFFICES ASSUME Verdict = "NotModified"
               PROVE  IF Given(inm) THEN NamesThisVersion(inm[1])
                                    ELSE ims # None /\ Secs(mtime) <= Secs(ims)
    OBVIOUS
  <2>1. IsUnchanged(Md5(data), mtime, FirstHeader(inm), ims)
    BY <1>2 DEF Evaluate
  <2>2. CASE Given(inm)
    <3>1. inm[1] \in HeaderValue /\ EtagMatches(Md5(data), inm[1])
      BY <1>1, <2>1, <2>2, FirstReading DEF IsUnchanged
    <3>2. QED
      BY <2>2, <3>1, Matching DEF NamesThisVersion
  <2>3. CASE ~Given(inm)
    BY <1>1, <1>3, <2>1, <2>3, FirstReading DEF IsUnchanged
  <2>4. QED
    BY <2>2, <2>3
<1>5. /\ own # None /\ own # Unreadable /\ EtagMatches(Md5(data), own)
      /\ Given(<<own>>) /\ ~Given(<< >>)
      /\ FirstHeader(<<own>>) = own /\ FirstHeader(<< >>) = None
  <2>1. own \in HeaderValue
    BY EntryThere DEF Quoted, HeaderValue, Md5, Etags
  <2>2. own # None /\ own # Unreadable /\ EtagMatches(Md5(data), own)
    BY <2>1, Matching DEF Quoted, Unreadable, EtagMatches
  <2>3. Given(<<own>>) /\ ~Given(<< >>)
    BY <2>2 DEF Given
  <2>4. own.form # "unreadable"
    BY DEF Quoted
  <2>5. QED
    BY <2>2, <2>3, <2>4 DEF FirstHeader
<1>6. ASSUME ius = None, im \in {<< >>, <<own>>}
      PROVE  /\ Verdict # "PreconditionFailed"
             /\ inm = <<own>> => Verdict = "NotModified"
             /\ inm = << >> => (Verdict = "NotModified" <=> ims # None /\ Secs(mtime) <= Secs(ims))
  <2>1. ~FailsPrecondition(Md5(data), mtime, FirstHeader(im), ius)
    BY <1>5, <1>6 DEF FailsPrecondition
  <2>2. Verdict = IF IsUnchanged(Md5(data), mtime, FirstHeader(inm), ims) THEN "NotModified" ELSE "Proceed"
    BY <1>2, <2>1 DEF Evaluate
  <2>3. inm = <<own>> => IsUnchanged(Md5(data), mtime, FirstHeader(inm), ims)
    BY <1>5 DEF IsUnchanged
  <2>4. inm = << >> => (IsUnchanged(Md5(data), mtime, FirstHeader(inm), ims) <=>
                          ims # None /\ Secs(mtime) <= Secs(ims))
    BY <1>3, <1>5 DEF IsUnchanged
  <2>5. QED
    BY <2>2, <2>3, <2>4
<1>7. QED
  BY <1>4, <1>6

(* Comparing seconds is comparing with the date on the wire.               *)
LEMMA WholeSeconds ==
  ASSUME NEW since \in Nat, NEW time \in Nat
  PROVE  Secs(time) <= Secs(since) <=> since >= HttpDate(time)
<1> DEFINE T == TicksPerSecond
<1>1. T \in Nat /\ T > 0
  BY TicksPerSecondAssumption
<1>2. PICK q \in Nat, r \in Nat : since = q * T + r /\ r < T /\ q = Secs(since)
  <2> DEFINE q == since \div T
             r == since % T
  <2>1. since = T * q + r /\ r \in 0 .. T - 1 /\ q \in Int
    BY <1>1
  <2>2. q \in Nat
    <3>1. q < 0 => q + 1 <= 0
      BY <2>1
    <3>2. q + 1 <= 0 => T * (q + 1) <= 0
      BY <1>1, <2>1
    <3>3. T * (q + 1) = T * q + T
      BY <1>1, <2>1
    <3>4. QED
      BY <1>1, <2>1, <3>1, <3>2, <3>3
  <2>3. q = Secs(since) /\ T * q = q * T
    BY <1>1, <2>1 DEF Secs
  <2>4. QED
    BY <1>1, <2>1, <2>2, <2>3
<1>3. PICK p \in Nat : p = Secs(time) /\ HttpDate(time) = p * T
  BY SecsType DEF HttpDate
<1>4. CASE p <= q
  <2>1. PICK d \in Nat : q = p + d
    <3>1. q - p \in Nat /\ q = p + (q - p)
      BY <1>4
    <3>2. QED
      BY <3>1
  <2>2. q * T = p * T + d * T /\ d * T \in Nat /\ p * T \in Nat
    BY <1>1, <2>1
  <2> HIDE DEF T
  <2>3. since >= p * T
    BY <1>2, <2>2
  <2>4. QED
    BY <1>2, <1>3, <1>4, <2>3
<1>5. CASE q < p
  <2>1. PICK d \in Nat : p = q + 1 + d
    <3>1. p - q - 1 \in Nat /\ p = q + 1 + (p - q - 1)
      BY <1>5
    <3>2. QED
      BY <3>1
  <2>2. p * T = q * T + T + d * T /\ d * T \in Nat /\ q * T \in Nat
    BY <1>1, <2>1
  <2> HIDE DEF T
  <2>3. since < p * T
    BY <1>1, <1>2, <2>2
  <2>4. since \in Nat /\ p * T \in Nat
    BY <1>1, <1>3, <2>2
  <2>5. QED
    BY <1>2, <1>3, <1>5, <2>3, <2>4
<1>6. QED
  BY <1>4, <1>5

(* A GET says 304 by the verdict on its validators.                        *)
LEMMA Revalidations ==
  ASSUME Handled
  PROVE  RevalidationIsSound /\ OwnValidatorsAgree
<1>1. RevalidationIsSound
  BY GetCodes, GetVerdicts DEF RevalidationIsSound
<1>2. ASSUME Answered("get"), KeyOf(request) # None, data # None,
             request.if_unmodified_since = None,
             request.if_match \in {<< >>, <<Quoted(Md5(data))>>}
      PROVE  /\ answer.code # "PreconditionFailed"
             /\ request.if_none_match = <<Quoted(Md5(data))>> => answer.code = "NotModified"
             /\ request.if_none_match = << >> =>
                  (answer.code = "NotModified" <=>
                     request.if_modified_since # None /\ request.if_modified_since >= HttpDate(mtime))
  <2> DEFINE since == request.if_modified_since
  <2>1. since \in Nat \cup {None} /\ mtime \in Nat
    BY RequestsAssumption DEF Handled
  <2>2. since # None => (Secs(mtime) <= Secs(since) <=> since >= HttpDate(mtime))
    BY <2>1, WholeSeconds
  <2>3. /\ answer.code = "NotModified" <=> Verdict = "NotModified"
        /\ answer.code = "PreconditionFailed" <=> Verdict = "PreconditionFailed"
    BY <1>2, GetCodes
  <2>4. /\ Verdict # "PreconditionFailed"
        /\ request.if_none_match = <<Quoted(Md5(data))>> => Verdict = "NotModified"
        /\ request.if_none_match = << >> =>
             (Verdict = "NotModified" <=> since # None /\ Secs(mtime) <= Secs(since))
    BY <1>2, GetVerdicts
  <2> HIDE DEF since
  <2>5. /\ answer.code # "PreconditionFailed"
        /\ request.if_none_match = <<Quoted(Md5(data))>> => answer.code = "NotModified"
        /\ request.if_none_match = << >> =>
             (answer.code = "NotModified" <=> since # None /\ since >= HttpDate(mtime))
    BY <2>2, <2>3, <2>4
  <2>6. QED
    BY <2>5 DEF since
<1>3. OwnValidatorsAgree
  BY <1>2 DEF OwnValidatorsAgree
<1>4. QED
  BY <1>1, <1>3

-----------------------------------------------------------------------------
(* Ranges. *)

(* The bytes asked for are those of an interval of the file; their ranks   *)
(* in it are their positions in the answer.                                *)
LEMMA AskedInterval ==
  ASSUME NEW start \in Nat, NEW end \in Nat, NEW S, S = start .. end, start <= end
  PROVE  /\ Cardinality(S) = end - start + 1
         /\ \A i \in S : Cardinality({h \in S : h <= i}) = i - start + 1
<1>1. Cardinality(S) = end - start + 1
  BY FS_Interval
<1>2. ASSUME NEW i \in S PROVE Cardinality({h \in S : h <= i}) = i - start + 1
  <2>1. {h \in S : h <= i} = start .. i /\ i \in Int /\ start <= i
    OBVIOUS
  <2>2. Cardinality(start .. i) = i - start + 1
    BY <2>1, FS_Interval
  <2>3. QED
    BY <2>1, <2>2
<1>3. QED
  BY <1>1, <1>2

(* and 206 or 416 by what its range asks of the file.                      *)
LEMMA RangesAnswered ==
  ASSUME Handled
  PROVE  RangeIsWhatWasAsked
<1> SUFFICES ASSUME Answered("get"), data # None, request.range # NoRange
             PROVE  /\ answer.code = "PartialContent" =>
                         /\ answer.length = Cardinality(AskedBytes) /\ Len(answer.data) = answer.length
                         /\ \A j \in DOMAIN answer.data :
                              \E i \in AskedBytes :
                                 /\ answer.data[j] = data[i + 1]
                                 /\ j = Cardinality({h \in AskedBytes : h <= i})
                    /\ answer.code = "InvalidRange" => ~Readable(request.range) \/ AskedBytes = {}
  BY DEF RangeIsWhatWasAsked
<1> DEFINE size  == Len(data)
           range == ParseRange(request.range, size)
<1>1. /\ data \in Seq(Frame) /\ size \in Nat /\ Entry # None /\ Entry.size = size
      /\ request.range \in RangeHeader
  BY EntryThere, RequestAssumption DEF Handled
<1>2. answer = First(GetInvalid(request),
                     IF GetRefused(request, Entry) # None
                       THEN GetRefused(request, Entry)
                       ELSE GetDone(request, Entry, data))
  BY DEF Answered, Handled
<1>3. \A code, e, length, bytes : /\ Answer(code, e, length, bytes).code = code
                                  /\ Answer(code, e, length, bytes).length = length
                                  /\ Answer(code, e, length, bytes).data = bytes
  BY DEF Answer
<1>4. \A code : Refusal(code).code = code
  BY <1>3 DEF Refusal
<1>5. GetInvalid(request) # None => GetInvalid(request).code = "NoSuchKey"
  BY <1>4 DEF GetInvalid, KeyRefusal, RefuseIf
<1>6. range.kind = "invalid" => Answer("InvalidRange", None, size, << >>) # None
  BY <1>1, EmptyAnswerType, NoneIsNone DEF Codes
<1>7. GetRefused(request, Entry) # None =>
        /\ GetRefused(request, Entry).code # "PartialContent"
        /\ GetRefused(request, Entry).code = "InvalidRange" => range.kind = "invalid"
  BY <1>1, <1>3, <1>4 DEF GetRefused, RangeRefusal, RefuseIf, First
<1>8. GetRefused(request, Entry) = None => range.kind # "invalid"
  BY <1>1, <1>6 DEF GetRefused, RangeRefusal, RefuseIf, First
<1>9. answer.code = "InvalidRange" => ~Readable(request.range) \/ AskedBytes = {}
  <2> SUFFICES ASSUME answer.code = "InvalidRange", Readable(request.range)
               PROVE  AskedBytes = {}
    OBVIOUS
  <2>1. GetDone(request, Entry, data).code # "InvalidRange"
    BY <1>3 DEF GetDone
  <2>2. range.kind = "invalid"
    BY <1>2, <1>5, <1>7, <2>1 DEF First
  <2>3. QED
    BY <1>1, <2>2, RefusedRangeHasNothing DEF AskedBytes
<1>10. ASSUME answer.code = "PartialContent"
       PROVE  /\ answer.length = Cardinality(AskedBytes) /\ Len(answer.data) = answer.length
              /\ \A j \in DOMAIN answer.data :
                   \E i \in AskedBytes :
                      /\ answer.data[j] = data[i + 1]
                      /\ j = Cardinality({h \in AskedBytes : h <= i})
  <2>1. answer = GetDone(request, Entry, data) /\ range.kind # "invalid"
    BY <1>2, <1>5, <1>7, <1>8, <1>10 DEF First
  <2>2. /\ range.kind # "whole"
        /\ answer.length = RangeLen(range)
        /\ answer.data = SubSeq(data, range.start + 1,
                                Lesser(range.start + RangeLen(range), size))
    <3>1. GetDone(request, Entry, data) =
            IF range.kind = "whole"
              THEN Answer("Ok", Entry, size, data)
              ELSE Answer("PartialContent", Entry, RangeLen(range),
                          SubSeq(data, range.start + 1, Lesser(range.start + RangeLen(range), size)))
      BY <1>1 DEF GetDone
    <3> HIDE DEF range
    <3>2. range.kind # "whole"
      BY <1>3, <1>10, <2>1, <3>1
    <3>3. answer = Answer("PartialContent", Entry, RangeLen(range),
                          SubSeq(data, range.start + 1, Lesser(range.start + RangeLen(range), size)))
      BY <2>1, <3>1, <3>2
    <3>4. \A length, bytes : answer = Answer("PartialContent", Entry, length, bytes) =>
                             answer.length = length /\ answer.data = bytes
      BY <1>3
    <3>5. QED
      BY <3>2, <3>3, <3>4, Zenon
  <2>3. range.kind = "part"
    BY <2>1, <2>2 DEF ParseRange
  <2>4. /\ range.start \in Nat /\ range.end \in Nat
        /\ range.start <= range.end /\ range.end < size
        /\ \A i \in 0 .. size - 1 :
             range.start <= i /\ i <= range.end <=> Asks(request.range, size, i)
    BY <1>1, <2>3, AcceptedRangeIsWhatWasAsked
  <2> HIDE DEF range
  <2>5. AskedBytes = range.start .. range.end
    BY <1>1, <2>4 DEF AskedBytes
  <2>6. RangeLen(range) = range.end - range.start + 1
    BY DEF RangeLen
  <2>7. Lesser(range.start + RangeLen(range), size) = range.end + 1
    BY <1>1, <2>4, <2>6 DEF Lesser
  <2> DEFINE start == range.start
             end   == range.end
  <2> HIDE DEF start, end
  <2>8. /\ start \in Nat /\ end \in Nat /\ start <= end /\ end < size
        /\ AskedBytes = start .. end
        /\ answer.data = SubSeq(data, start + 1, end + 1) /\ answer.length = end - start + 1
    BY <2>2, <2>4, <2>5, <2>6, <2>7 DEF start, end
  <2>9. /\ Len(answer.data) = end - start + 1
        /\ \A j \in 1 .. end - start + 1 : answer.data[j] = data[start + j]
    <3>1. \A i \in start + 1 .. end + 1 : data[i] \in Frame
      BY <1>1, <2>8
    <3>2. start + 1 \in Int /\ end + 1 \in Int /\ start + 1 <= end + 1
      BY <2>8
    <3>3. /\ Len(SubSeq(data, start + 1, end + 1)) = (end + 1) - (start + 1) + 1
          /\ \A j \in 1 .. (end + 1) - (start + 1) + 1 :
               SubSeq(data, start + 1, end + 1)[j] = data[(start + 1) + j - 1]
      BY <3>1, <3>2, SubSeqProperties
    <3>4. (end + 1) - (start + 1) + 1 = end - start + 1
      BY <2>8
    <3>5. \A j \in 1 .. end - start + 1 : (start + 1) + j - 1 = start + j
      BY <2>8
    <3>6. QED
      BY <2>8, <3>3, <3>4, <3>5
  <2>10. ASSUME NEW j \in DOMAIN answer.data
         PROVE  \E i \in AskedBytes : /\ answer.data[j] = data[i + 1]
                                      /\ j = Cardinality({h \in AskedBytes : h <= i})
    <3>1. j \in 1 .. end - start + 1
      BY <2>8, <2>9
    <3>2. PICK i \in AskedBytes : i = start + j - 1 /\ i \in Nat
      BY <2>8, <3>1
    <3>3. \A k \in AskedBytes : Cardinality({h \in AskedBytes : h <= k}) = k - start + 1
      <4>1. \A S : S = start .. end =>
              \A k \in S : Cardinality({h \in S : h <= k}) = k - start + 1
        BY <2>8, AskedInterval
      <4>2. QED
        BY <2>8, <4>1, Zenon
    <3>4. i - start + 1 = j /\ start + j = i + 1
      BY <2>8, <3>1, <3>2
    <3>5. Cardinality({h \in AskedBytes : h <= i}) = j
      BY <3>3, <3>4
    <3>6. answer.data[j] = data[i + 1]
      BY <2>9, <3>1, <3>4
    <3>7. QED
      BY <3>5, <3>6
  <2>11. Cardinality(AskedBytes) = end - start + 1
    BY <2>8, AskedInterval
  <2>12. QED
    BY <2>8, <2>9, <2>10, <2>11
<1>11. QED
  BY <1>9, <1>10

-----------------------------------------------------------------------------
(* A write of a valid key goes through exactly when all the conditions it  *)
(* carries can be read and hold, whatever else its headers say.            *)
THEOREM WritesAreConditional == Spec => []WritesProceedIffConditionsHold
BY AlwaysHandled, Writes, PTL

(* So does a delete.                                                       *)
THEOREM DeletesAreConditional == Spec => []DeletesProceedIffConditionsHold
BY AlwaysHandled, Deletes, PTL

(* A 304 is told only to a client that has this version.                   *)
THEOREM NotModifiedIsTrue == Spec => []RevalidationIsSound
<1>1. Handled => RevalidationIsSound
  BY Revalidations
<1>2. QED
  BY <1>1, AlwaysHandled, PTL

(* A client that sends back the ETag or the Last-Modified it was given is  *)
(* understood, though the date on the wire has lost the fraction.          *)
THEOREM ValidatorsComeBack == Spec => []OwnValidatorsAgree
<1>1. Handled => OwnValidatorsAgree
  BY Revalidations
<1>2. QED
  BY <1>1, AlwaysHandled, PTL

(* A 206 has the bytes asked for, in order, and a 416 is sent only when    *)
(* there are none or the numbers are no u64s.                              *)
THEOREM RangesAreServed == Spec => []RangeIsWhatWasAsked
BY AlwaysHandled, RangesAnswered, PTL
=============================================================================
