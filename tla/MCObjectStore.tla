---------------------------- MODULE MCObjectStore ----------------------------
(***************************************************************************)
(* Small instances of ObjectStore for TLC.                                 *)
(***************************************************************************)
EXTENDS ObjectStore, TLC

X == <<"x">>
YZ == <<"y", "z">>
Y == <<"y">>

FromSecondByte == [shape |-> "from", a |-> 1, b |-> 0]

Owner(value) == [name |-> "x-amz-meta-owner", value |-> value]

Blank == [op |-> "get", key |-> <<"a">>, if_match |-> << >>, if_none_match |-> << >>,
          if_modified_since |-> None, if_unmodified_since |-> None,
          range |-> NoRange, body |-> << >>, headers |-> << >>]

Put(key, body) == [Blank EXCEPT !.op = "put", !.key = key, !.body = body]
Delete(key) == [Blank EXCEPT !.op = "delete", !.key = key]
Get(key) == [Blank EXCEPT !.key = key]

Annotate(key, header) == [Blank EXCEPT !.op = "add_header", !.key = key, !.headers = <<header>>]

IfMatch(r, value) == [r EXCEPT !.if_match = <<value>>]
IfNoneMatch(r, value) == [r EXCEPT !.if_none_match = <<value>>]

(* Everything races for one object, spelled in two ways.                   *)
RaceRequests == {
  IfNoneMatch(Put(<<"a">>, X), Star),
  IfMatch(Put(<<"", "a">>, YZ), Quoted(Md5(X))),
  IfMatch(Delete(<<"a">>), Bare(Md5(YZ))),
  Delete(<<"", "a">>),
  [Get(<<"", "a">>) EXCEPT !.range = FromSecondByte],
  Get(<<"a">>),
  Annotate(<<"a">>, Owner("bob")) }

RaceFrames == {"x", "y", "z"}
RaceContent == {X}
NoFault == {}
SlotSymmetry == Permutations(Slot)

(* Two objects, every file operation may fail, time passes between frames. *)
(* Refused requests: a key with "..", a repeated header, a list for        *)
(* If-None-Match, a date, a header that HTTP does not allow; "b/" names    *)
(* object b but no file.                                                   *)
FaultRequests == {
  Annotate(<<"a">>, Owner("bob")),
  Annotate(<<"b", "">>, Owner(None)),
  [Put(<<"a">>, Y) EXCEPT !.headers = <<Owner("alice")>>],
  Put(<<"b", "">>, << >>),
  IfNoneMatch(Put(<<"a">>, X), Other),
  [Delete(<<"a">>) EXCEPT !.if_match = <<Star, Star>>],
  IfMatch(Delete(<<"a">>), Star),
  Delete(<<"b", "">>),
  Get(<<"..", "a">>),
  [Get(<<"a">>) EXCEPT !.if_modified_since = 0] }

FileFaults == {"create", "rename", "save", "open", "unlink", "uncache"}
FaultContent == {X}
=============================================================================
