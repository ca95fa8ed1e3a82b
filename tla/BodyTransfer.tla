---------------------------- MODULE BodyTransfer ----------------------------
(***************************************************************************)
(* What a handler relies on when it has a body written to a temporary      *)
(* file: the file grows by the frames of the body in their order, success  *)
(* means the whole body is in it, and once the handler has been told the   *)
(* outcome the file is closed: nobody writes to it any more, or creates it *)
(* after all.  Only a handler that is itself dropped has no such promise.  *)
(***************************************************************************)
EXTENDS Option, Sequences, Naturals

CONSTANTS
  Slot,    \* transfers in progress at the same time
  Body     \* the frames each client sends

VARIABLES
  file,    \* the temporary file of each transfer, or None
  outcome  \* what its handler has been told

transferVars == <<file, outcome>>

TransferInit ==
  /\ file = [s \in Slot |-> None]
  /\ outcome = [s \in Slot |-> "open"]

Growing(s) == outcome[s] \in {"open", "abandoned"}

Create(s) ==
  /\ Growing(s)
  /\ file[s] = None
  /\ file' = [file EXCEPT ![s] = << >>]
  /\ UNCHANGED outcome

Grow(s) ==
  /\ Growing(s)
  /\ file[s] # None
  /\ Len(file[s]) < Len(Body[s])
  /\ file' = [file EXCEPT ![s] = Append(file[s], Body[s][Len(file[s]) + 1])]
  /\ UNCHANGED outcome

Settle(s, how) ==
  /\ outcome[s] = "open"
  /\ outcome' = [outcome EXCEPT ![s] = how]
  /\ UNCHANGED file

Succeed(s) == file[s] = Body[s] /\ Settle(s, "ok")

TransferNext ==
  \E s \in Slot :
    \/ Create(s) \/ Grow(s)
    \/ Succeed(s) \/ Settle(s, "failed") \/ Settle(s, "abandoned")

TransferSpec == TransferInit /\ [][TransferNext]_transferVars
=============================================================================
