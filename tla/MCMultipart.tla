---------------------------- MODULE MCMultipart ----------------------------
(***************************************************************************)
(* Small instances of Multipart for TLC.                                   *)
(***************************************************************************)
EXTENDS Multipart, TLC

Owner(value) == [name |-> "x-amz-meta-owner", value |-> value]

Blank == [op |-> "abort", upload |-> "u", key |-> <<"a">>, headers |-> << >>,
          n |-> 0, body |-> << >>, list |-> << >>, if_match |-> << >>, if_none_match |-> << >>]

SendPart(n, body) == [Blank EXCEPT !.op = "part", !.n = n, !.body = body]
Named(n, body) == [n |-> n, etag |-> Md5(body)]
Complete(list) == [Blank EXCEPT !.op = "complete", !.list = list]

X == <<"x">>
YZ == <<"y", "z">>
Bytes == {"x", "y", "z", "hole"}

(* One upload with two parts, completed in full, out of order, or with its *)
(* first part only and only if there is no object; part 1 also under a key *)
(* that is not the upload's, a number that is out of bounds, a Complete    *)
(* that cannot be parsed, an abort of either key.                          *)
Calls == {
  [Blank EXCEPT !.op = "create", !.headers = <<Owner("alice")>>],
  SendPart(1, X),
  SendPart(2, YZ),
  [SendPart(1, X) EXCEPT !.key = <<"b">>],
  SendPart(3, X),
  Complete(<<Named(2, YZ), Named(1, X)>>),
  Complete(None),
  [Complete(<<Named(1, X)>>) EXCEPT !.if_none_match = <<Star>>],
  Blank,
  [Blank EXCEPT !.key = <<"b">>] }

Requests == {AsPut(c, <<Owner("alice")>>) : c \in {d \in Calls : d.op = "complete"}}

NoContent == {}
Faults == {"create"}
Uploads == {"u"}
SlotSymmetry == Permutations(Slot)
=============================================================================
