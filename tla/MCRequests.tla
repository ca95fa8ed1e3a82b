----------------------------- MODULE MCRequests -----------------------------
(***************************************************************************)
(* All small requests: every combination of conditional headers, dates and *)
(* ranges against objects of up to three bytes.                            *)
(***************************************************************************)
EXTENDS Requests

Blank == [op |-> "get", key |-> <<"a">>, if_match |-> << >>, if_none_match |-> << >>,
          if_modified_since |-> None, if_unmodified_since |-> None,
          range |-> NoRange, body |-> << >>, headers |-> << >>]

XYZ == <<"x", "y", "z">>
Bytes == {"x", "y", "z", "q"}
SmallBodies == {<< >>, <<"x">>, XYZ}

Values == {Star, Quoted(Md5(XYZ)), Bare(Md5(XYZ)), Quoted(Md5(<<"q">>)), Other, Unreadable}
Lines == {<< >>} \cup {<<v>> : v \in Values} \cup {<<Star, Star>>, <<Quoted(Md5(XYZ)), Other>>}

(* HTTP dates are whole seconds of two ticks. *)
Dates == {None, 0, 2, 4}

Ranges == [shape : {"from_to", "from", "suffix"}, a : 0 .. 5, b : 0 .. 5]
            \cup {[NoRange EXCEPT !.shape = "malformed"]}

Keys == {<<"a">>, <<"", "", "a">>, <<"a", ".", "">>, <<"..", "a">>, <<"", "">>, <<".", "a">>}

AllRequests ==
  {[Blank EXCEPT !.op = op, !.if_match = im, !.if_none_match = inm] :
     op \in {"put", "delete"}, im \in Lines, inm \in Lines}
  \cup
  {[Blank EXCEPT !.if_match = im, !.if_none_match = inm,
                 !.if_modified_since = ims, !.if_unmodified_since = ius] :
     im \in Lines, inm \in Lines, ims \in Dates, ius \in Dates}
  \cup {[Blank EXCEPT !.range = range] : range \in Ranges}
  \cup {[Blank EXCEPT !.op = op, !.key = key] : op \in {"put", "get", "delete"}, key \in Keys}
=============================================================================
