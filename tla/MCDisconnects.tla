---------------------------- MODULE MCDisconnects ----------------------------
(***************************************************************************)
(* Small instances of Disconnects for TLC.                                 *)
(***************************************************************************)
EXTENDS Disconnects, TLC

Owner(value) == [name |-> "x-amz-meta-owner", value |-> value]

Blank == [op |-> "get", key |-> <<"a">>, if_match |-> << >>, if_none_match |-> << >>,
          if_modified_since |-> None, if_unmodified_since |-> None,
          range |-> NoRange, body |-> << >>, headers |-> << >>]

(* A create and a replacement (with no body: then the connection is        *)
(* watched all along), a delete and a read of one object.                  *)
Requests == {
  [Blank EXCEPT !.op = "put", !.headers = <<Owner("alice")>>],
  [Blank EXCEPT !.op = "put", !.if_none_match = <<Star>>],
  [Blank EXCEPT !.op = "delete"],
  Blank }

Bytes == {"x"}
NoContent == {}
DiscardFault == {"discard"}
SlotSymmetry == Permutations(Slot)
=============================================================================
