---------------------------- MODULE MCTestServer ----------------------------
(***************************************************************************)
(* A small instance of TestServer for TLC.                                 *)
(***************************************************************************)
EXTENDS TestServer

Blank == [op |-> "get", key |-> <<"a">>, if_match |-> << >>, if_none_match |-> << >>,
          if_modified_since |-> None, if_unmodified_since |-> None,
          range |-> NoRange, body |-> << >>, headers |-> << >>]

(* A write that may be refused, one that may fail, a read, and a header.   *)
LiveRequests == {
  [Blank EXCEPT !.op = "put", !.body = <<"x">>, !.if_none_match = <<Star>>],
  [Blank EXCEPT !.op = "delete", !.if_match = <<Star>>],
  Blank,
  [Blank EXCEPT !.op = "add_header",
                !.headers = <<[name |-> "x-amz-meta-owner", value |-> "bob"]>>] }

LiveFrames == {"x"}
LiveContent == {<<"x">>}
LiveFaults == {"rename", "unlink", "open"}
=============================================================================
