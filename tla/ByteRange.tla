------------------------------ MODULE ByteRange ------------------------------
(***************************************************************************)
(* The Range header of a GET (src/src/range.rs).  A header is reduced to   *)
(* its shape: absent, `a-b`, `a-`, `-a`, or text that parses as none of    *)
(* these (no `bytes=`, a list, no `-`, no digits).  Numbers are u64: a     *)
(* larger one fails to parse.                                              *)
(***************************************************************************)
EXTENDS Integers, Option

CONSTANT MaxU64

ASSUME MaxU64Assumption == MaxU64 \in Nat

RangeShape == {"absent", "from_to", "from", "suffix", "malformed"}
RangeHeader == [shape : RangeShape, a : Nat, b : Nat]

NoRange == [shape |-> "absent", a |-> 0, b |-> 0]

SaturatingSub(m, n) == IF m >= n THEN m - n ELSE 0
Lesser(m, n) == IF m <= n THEN m ELSE n

(* Which numbers of the header are parsed, and the check they must pass.   *)
WellFormed(header) ==
  /\ header.shape # "malformed"
  /\ header.shape \in {"from_to", "from", "suffix"} => header.a <= MaxU64
  /\ header.shape = "from_to" => header.b <= MaxU64 /\ header.a <= header.b

RangeStart(header, size) ==
  IF header.shape = "suffix" THEN SaturatingSub(size, header.a) ELSE header.a

RangeEnd_PastTheEnd(header, size) ==
  IF header.shape = "from_to" THEN Lesser(header.b, size) ELSE SaturatingSub(size, 1)
RangeEnd(header, size) ==
  IF header.shape = "from_to"
    THEN Lesser(header.b, SaturatingSub(size, 1))
    ELSE SaturatingSub(size, 1)

Satisfiable(header, size) == size # 0 /\ RangeStart(header, size) < size

(* Ok(None), Err(InvalidRange) or Ok(Some(start..=end)).                   *)
ParseRange(header, size) ==
  IF header.shape = "absent"
    THEN [kind |-> "whole", start |-> 0, end |-> 0]
    ELSE IF WellFormed(header) /\ Satisfiable(header, size)
           THEN [kind |-> "part", start |-> RangeStart(header, size), end |-> RangeEnd(header, size)]
           ELSE [kind |-> "invalid", start |-> 0, end |-> 0]

RangeLen(range) == range.end - range.start + 1

-----------------------------------------------------------------------------
(* What a range means: the positions of a file of that size it asks for,   *)
(* and which headers have numbers that can be read.                        *)
Asks(header, size, i) ==
  \/ header.shape = "from_to" /\ header.a <= i /\ i <= header.b
  \/ header.shape = "from"    /\ header.a <= i
  \/ header.shape = "suffix"  /\ size - header.a <= i

Readable(header) ==
  /\ header.shape \in {"from_to", "from", "suffix"}
  /\ header.a <= MaxU64
  /\ header.shape = "from_to" => header.a <= header.b /\ header.b <= MaxU64
=============================================================================
