----------------------------- MODULE MCPathTree -----------------------------
(***************************************************************************)
(* A small instance of PathTree for TLC: a is a directory for a/b/c, and   *)
(* the record of a is a directory for the record of a.json/d.              *)
(***************************************************************************)
EXTENDS PathTree, TLC

Keys == {<<"a">>, <<"a", "b", "c">>, <<"a.json", "d">>}

Put(key) == [op |-> "put", key |-> key, if_match |-> << >>, if_none_match |-> << >>,
             if_modified_since |-> None, if_unmodified_since |-> None,
             range |-> NoRange, body |-> << >>, headers |-> << >>]
Delete(key) == [Put(key) EXCEPT !.op = "delete"]

TreeRequests == {Put(key) : key \in Keys} \cup {Delete(key) : key \in Keys}

NoContent == {}
TreeFaults == {"create", "rename", "unlink", "save"}
SlotSymmetry == Permutations(Slot)
=============================================================================
