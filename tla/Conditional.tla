----------------------------- MODULE Conditional -----------------------------
(***************************************************************************)
(* Conditional requests (src/src/conditional.rs): how the values of        *)
(* If-Match, If-None-Match, If-Modified-Since and If-Unmodified-Since are  *)
(* read from a request and what they decide for a GET, a write and a       *)
(* delete.                                                                 *)
(*                                                                         *)
(* A header of a request is the sequence of the values given for it, empty *)
(* when the header is absent.  A value keeps what the comparisons tell     *)
(* apart: `*`, one ETag (quoted or not), any other readable text (a weak   *)
(* ETag, a list, a quoted `*`), or bytes that are not visible ASCII.       *)
(* Times are counted in ticks, TicksPerSecond of them to a second: a file  *)
(* time has ticks, an HTTP date only whole seconds.                        *)
(***************************************************************************)
EXTENDS Naturals, Sequences, Option

CONSTANT TicksPerSecond

ASSUME TicksPerSecondAssumption == TicksPerSecond \in Nat \ {0}

Secs(time) == time \div TicksPerSecond

(* What a client reads from Last-Modified and may send back in a date      *)
(* header: the whole second, the fraction is not on the wire.              *)
HttpDate(time) == Secs(time) * TicksPerSecond

Star         == [form |-> "star",       tag |-> None]
Quoted(etag) == [form |-> "quoted",     tag |-> etag]
Bare(etag)   == [form |-> "bare",       tag |-> etag]
Other        == [form |-> "other",      tag |-> None]
Unreadable   == [form |-> "unreadable", tag |-> None]

EtagMatches(etag, value) ==
  \/ value.form = "star"
  \/ value.form \in {"quoted", "bare"} /\ value.tag = etag

-----------------------------------------------------------------------------
(* Reading the headers.  A GET takes the first value and ignores one it    *)
(* cannot read; a write or delete refuses both that and a repeated header. *)

FirstHeader(values) ==
  IF values = << >> \/ values[1].form = "unreadable" THEN None ELSE values[1]

SingleHeaderError_FirstOnly(values) ==
  IF Len(values) > 0 /\ values[1].form = "unreadable" THEN "Unreadable" ELSE None
SingleHeaderError(values) ==
  CASE Len(values) > 1                                    -> "Repeated"
    [] Len(values) = 1 /\ values[1].form = "unreadable"   -> "Unreadable"
    [] OTHER                                              -> None

SingleHeader(values) == IF values = << >> THEN None ELSE values[1]

(* The first error decides: If-Match's, If-None-Match's, and last an       *)
(* If-None-Match other than `*`.                                           *)
WriteHeadersError(if_match, if_none_match) ==
  CASE SingleHeaderError(if_match) # None       -> SingleHeaderError(if_match)
    [] SingleHeaderError(if_none_match) # None  -> SingleHeaderError(if_none_match)
    [] OTHER -> IF if_none_match # << >> /\ if_none_match[1].form # "star"
                  THEN "UnsupportedIfNoneMatch"
                  ELSE None

-----------------------------------------------------------------------------
(* The three evaluations.  `etag` is None when there is no object; the     *)
(* header values are None when not given.                                  *)

IsModifiedSince_ExactTime(modified, since) == modified > since
IsModifiedSince(modified, since) == Secs(modified) > Secs(since)

FailsPrecondition(etag, modified, if_match, if_unmodified_since) ==
  IF if_match # None
    THEN ~EtagMatches(etag, if_match)
    ELSE if_unmodified_since # None /\ modified > if_unmodified_since

IsUnchanged_DateToo(etag, modified, if_none_match, if_modified_since) ==
  \/ if_none_match # None /\ EtagMatches(etag, if_none_match)
  \/ if_modified_since # None /\ ~IsModifiedSince(modified, if_modified_since)
IsUnchanged(etag, modified, if_none_match, if_modified_since) ==
  IF if_none_match # None
    THEN EtagMatches(etag, if_none_match)
    ELSE if_modified_since # None /\ ~IsModifiedSince(modified, if_modified_since)

Evaluate(etag, modified, if_match, if_none_match, if_modified_since, if_unmodified_since) ==
  CASE FailsPrecondition(etag, modified, if_match, if_unmodified_since) -> "PreconditionFailed"
    [] OTHER -> IF IsUnchanged(etag, modified, if_none_match, if_modified_since)
                  THEN "NotModified"
                  ELSE "Proceed"

EvaluateWrite(etag, if_match, if_none_match) ==
  IF \/ etag # None /\ if_none_match = Star
     \/ etag # None /\ if_match # None /\ ~EtagMatches(etag, if_match)
     \/ etag = None /\ if_match # None
    THEN "PreconditionFailed"
    ELSE "Proceed"

EvaluateDelete_MissingIsGone(etag, if_match) ==
  IF if_match = None \/ etag = None \/ EtagMatches(etag, if_match)
    THEN "Proceed"
    ELSE "PreconditionFailed"
EvaluateDelete(etag, if_match) ==
  CASE if_match = None -> "Proceed"
    [] if_match # None /\ etag = None -> "NotFound"
    [] OTHER -> IF EtagMatches(etag, if_match) THEN "Proceed" ELSE "PreconditionFailed"
=============================================================================
