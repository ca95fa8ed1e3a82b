--------------------------- MODULE MCBodyPipeline ---------------------------
(* Two transfers, a body longer than the channel and a short one.          *)
EXTENDS BodyPipeline

CONSTANTS s1, s2

Frames == {"a", "b", "c"}
Bodies == [s \in {s1, s2} |-> IF s = s1 THEN <<"a", "b", "c">> ELSE <<"a">>]
AllFaults == {"create", "write", "flush", "stat"}
=============================================================================
