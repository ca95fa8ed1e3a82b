------------------------------ MODULE Requests ------------------------------
(***************************************************************************)
(* One request against one object: what the conditional headers and the    *)
(* range of a request, in every combination, make of it.  The answer is    *)
(* computed by the operators the handlers are modelled with.               *)
(***************************************************************************)
EXTENDS Objects, FiniteSets

CONSTANTS
  Bodies,    \* contents the object may have
  MaxTime    \* its latest modification time

(* The values of If-Match and If-None-Match: only an ETag has a tag.       *)
HeaderValue ==
  [form : {"quoted", "bare"}, tag : Etags]
    \cup [form : {"star", "other", "unreadable"}, tag : {None}]

HeaderErrors == {"Repeated", "Unreadable", "UnsupportedIfNoneMatch"}

ASSUME RequestsAssumption ==
  /\ Bodies \subseteq Seq(Frame)
  /\ MaxTime \in Nat
  /\ None \notin Bodies \cup HeaderValue \cup Etags \cup HeaderErrors
  /\ \A r \in Request :
       /\ {r.if_match, r.if_none_match} \subseteq Seq(HeaderValue)
       /\ {r.if_modified_since, r.if_unmodified_since} \subseteq Nat \cup {None}

VARIABLES
  data,      \* the object's content, or None
  mtime,     \* its modification time
  request,
  answer     \* None until the request is answered

vars == <<data, mtime, request, answer>>

Init ==
  /\ data \in Bodies \cup {None}
  /\ mtime \in 0 .. MaxTime
  /\ request \in Request
  /\ answer = None

Entry == IF data = None THEN None ELSE EntryOf(data, mtime, << >>)

AnswerPut ==
  /\ request.op = "put"
  /\ answer' = First(PutInvalid(request),
                     First(PutRefused(request, Entry), Refusal("Ok")))

AnswerDelete ==
  /\ request.op = "delete"
  /\ answer' = First(DeleteInvalid(request),
                     First(DeleteRefused(request, Entry), DeleteDone))

AnswerGet ==
  /\ request.op = "get"
  /\ answer' = First(GetInvalid(request),
                     IF GetRefused(request, Entry) # None
                       THEN GetRefused(request, Entry)
                       ELSE GetDone(request, Entry, data))

Next ==
  /\ answer = None
  /\ AnswerPut \/ AnswerDelete \/ AnswerGet
  /\ UNCHANGED <<data, mtime, request>>

Spec == Init /\ [][Next]_vars

Answered(op) == answer # None /\ request.op = op

-----------------------------------------------------------------------------
(* Properties. *)

(* The value names the object that is there: `*` or its ETag, quoted or    *)
(* not, and nothing else.                                                  *)
NamesThisVersion(value) ==
  data # None /\ value \in {Star, Quoted(Md5(data)), Bare(Md5(data))}

IfMatchHolds ==
  \/ request.if_match = << >>
  \/ Len(request.if_match) = 1 /\ NamesThisVersion(request.if_match[1])

IfNoneMatchHolds ==
  \/ request.if_none_match = << >>
  \/ request.if_none_match = <<Star>> /\ data = None

(* conditional.rs: a condition that cannot be evaluated is refused, never  *)
(* treated as no condition.  A write or delete of a valid key goes through *)
(* exactly when all the conditions it carries can be read and hold.        *)
WritesProceedIffConditionsHold ==
  Answered("put") /\ KeyOf(request) # None =>
    (answer.code = "Ok" <=> IfMatchHolds /\ IfNoneMatchHolds)

DeletesProceedIffConditionsHold ==
  Answered("delete") /\ KeyOf(request) # None =>
    (answer.code = "NoContent" <=> IfMatchHolds)

(* A 304 is told only to a client that has this version, by its ETag or,   *)
(* as far as whole seconds tell, by its date; and a client that sends back *)
(* the ETag or the Last-Modified it was given gets one, or gets the object *)
(* if it asks for that version.                                            *)
Given(values) == values # << >> /\ values[1] # Unreadable

RevalidationIsSound ==
  (Answered("get") /\ answer.code = "NotModified") =>
    IF Given(request.if_none_match)
      THEN NamesThisVersion(request.if_none_match[1])
      ELSE request.if_modified_since # None
           /\ Secs(mtime) <= Secs(request.if_modified_since)

OwnValidatorsAgree ==
  Answered("get") /\ KeyOf(request) # None /\ data # None /\ request.if_unmodified_since = None =>
    /\ request.if_match \in {<< >>, <<Quoted(Md5(data))>>} =>
         /\ request.if_none_match = <<Quoted(Md5(data))>> => answer.code = "NotModified"
         /\ request.if_none_match = << >> =>
              (answer.code = "NotModified" <=>
                 request.if_modified_since # None /\ request.if_modified_since >= HttpDate(mtime))
    /\ request.if_match = <<Quoted(Md5(data))>> => answer.code # "PreconditionFailed"

(* A range answers with exactly the bytes of the file it asks for, in      *)
(* order, and is refused when there is none or its numbers are no u64s.    *)
AskedBytes == {i \in 0 .. Len(data) - 1 : Asks(request.range, Len(data), i)}

RangeIsWhatWasAsked ==
  Answered("get") /\ data # None /\ request.range # NoRange =>
    /\ answer.code = "PartialContent" =>
         /\ answer.length = Cardinality(AskedBytes) /\ Len(answer.data) = answer.length
         /\ \A j \in DOMAIN answer.data :
              \E i \in AskedBytes : /\ answer.data[j] = data[i + 1]
                                    /\ j = Cardinality({h \in AskedBytes : h <= i})
    /\ answer.code = "InvalidRange" => ~Readable(request.range) \/ AskedBytes = {}
=============================================================================
