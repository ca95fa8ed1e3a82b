----------------------------- MODULE MCRecovery ------------------------------
(***************************************************************************)
(* Small instances of Recovery for TLC.                                    *)
(***************************************************************************)
EXTENDS Recovery, TLC

Owner(value) == [name |-> "x-amz-meta-owner", value |-> value]

Blank == [op |-> "delete", key |-> <<"a">>, if_match |-> << >>, if_none_match |-> << >>,
          if_modified_since |-> None, if_unmodified_since |-> None,
          range |-> NoRange, body |-> << >>, headers |-> << >>]

Put(key, body) == [Blank EXCEPT !.op = "put", !.key = key, !.body = body]

(* Two writers and a delete of one object, with and without user metadata. *)
Requests == {
  [Put(<<"a">>, <<"x">>) EXCEPT !.headers = <<Owner("alice")>>],
  Put(<<"a">>, <<"y">>),
  Blank }

Bytes == {"x", "y", "z"}
OldContent == {<<"z">>}
NoFault == {}
SlotSymmetry == Permutations(Slot)
=============================================================================
