-------------------------- MODULE TestServerProofs --------------------------
(***************************************************************************)
(* Theorems about TestServer, for every number of requests, with their     *)
(* proofs.  Embedding adds no behaviour to the object store, so what is    *)
(* proved of the store holds of the embedded one; and when the owner's     *)
(* call has returned the store is at rest.                                 *)
(***************************************************************************)
EXTENDS TestServer, ObjectStoreProofs

(* A step of the two threads, or of their requests, is one of the store,   *)
(* or none.                                                                *)
LEMMA EmbeddedStep ==
  ASSUME [NextE]_allVars
  PROVE  [Next]_vars
<1>1. CASE UNCHANGED allVars
  BY <1>1 DEF allVars
<1>2. CASE Thread
  BY <1>2 DEF Thread, ThreadStarts, ThreadFails, ThreadPanics, ThreadIsTold, ThreadEnds
<1>3. CASE OwnerWaits
  BY <1>3 DEF OwnerWaits, OwnerHears, OwnerGivesUp, OwnerIsCutOff, OwnerFails, OwnerReturns
<1>4. CASE OwnerDrops
  BY <1>4 DEF OwnerDrops
<1>5. ASSUME NEW s \in Slot, Serve(s) PROVE Next
  BY <1>5 DEF Serve, Next, SlotStep
<1>6. ASSUME NEW s \in Slot, HandleE(s) PROVE Next
  BY <1>6 DEF HandleE, Next, SlotStep
<1>7. QED
  BY <1>1, <1>2, <1>3, <1>4, <1>5, <1>6 DEF NextE

(* The embedded server's object store is the object store: whatever the    *)
(* owner's thread and the server's do, and whenever the shutdown comes.    *)
THEOREM EmbeddingIsTransparent == SpecE => Spec
<1>1. InitE => Init
  BY DEF InitE
<1>2. [NextE]_allVars => [Next]_vars
  BY EmbeddedStep
<1>3. QED
  BY <1>1, <1>2, PTL DEF SpecE, Spec

-----------------------------------------------------------------------------
(* How far the two threads have come, seen from one another.  The notice   *)
(* is given only by an owner that stops waiting, so that a server whose    *)
(* owner has not is serving; requests are in progress only in a server     *)
(* that has started and has not ended.                                     *)
InStep ==
  /\ notice \/ thread = "draining" => owner \notin {"starting", "running"}
  /\ owner = "starting" /\ report = "ok" => thread = "serving"
  /\ owner = "running" => thread = "serving"
  /\ thread \notin {"serving", "draining"} => Drained
  /\ owner \in {"failed", "gone"} => thread \in {"ended", "panicked"}

LEMMA InStepInit ==
  ASSUME InitE
  PROVE  TypeOKE /\ InStep
<1>1. TypeOK
  BY TypedInit DEF InitE, Typed
<1>2. Drained
  BY DEF InitE, Init, Drained
<1>3. QED
  BY <1>1, <1>2, ReportAssumption DEF InitE, TypeOKE, InStep

(* A slot's step starts from a request in progress, or begins one the      *)
(* server accepts; either way the server is serving or draining.           *)
LEMMA OnlyServersWork ==
  ASSUME TypeOKE, InStep, NEW s \in Slot, Serve(s) \/ HandleE(s)
  PROVE  thread \in {"serving", "draining"} /\ UNCHANGED server
<1>1. UNCHANGED server
  BY DEF Serve, HandleE
<1>2. pc[s] # "idle" => thread \in {"serving", "draining"}
  BY DEF InStep, Drained
<1>3. ASSUME NEW r \in Request, Accepts(r) PROVE thread = "serving"
  BY <1>3 DEF Accepts, InStep
<1>4. ASSUME Handle(s) PROVE pc[s] # "idle"
  BY <1>4 DEF Handle, Reject, Dispatch, PutResolve, PutEarlyCheck, PutCreate, PutReceived,
              PutCommit, PutRename, PutRenameFails, Publish, PutDiscard,
              DeleteEvaluate, DeleteUnlink, DeleteUnlinkFails, DeleteForget,
              GetLookup, GetOpen, GetOpenFails, AddHeader
<1>5. ASSUME PutReceive(s) \/ PutBreak(s) \/ Return(s) PROVE pc[s] # "idle"
  BY <1>5 DEF PutReceive, PutBreak, Return
<1>6. QED
  BY <1>1, <1>2, <1>3, <1>4, <1>5 DEF Serve, HandleE

LEMMA InStepStep ==
  ASSUME TypeOKE, InStep, TypeOK', [NextE]_allVars
  PROVE  (TypeOKE /\ InStep)'
<1> USE DEF InStep, TypeOKE
<1>1. CASE UNCHANGED allVars
  BY <1>1 DEF allVars, server, vars, local, Drained
<1>2. ASSUME UNCHANGED vars PROVE Drained' <=> Drained
  BY <1>2 DEF vars, local, Drained
<1>3. CASE ThreadStarts
  BY <1>2, <1>3 DEF ThreadStarts
<1>4. CASE ThreadFails
  BY <1>2, <1>4 DEF ThreadFails
<1>5. CASE ThreadPanics
  BY <1>2, <1>5 DEF ThreadPanics
<1>6. CASE ThreadIsTold
  BY <1>2, <1>6 DEF ThreadIsTold
<1>7. CASE ThreadEnds
  BY <1>2, <1>7 DEF ThreadEnds
<1>8. CASE OwnerHears
  BY <1>2, <1>8 DEF OwnerHears
<1>9. CASE OwnerGivesUp
  BY <1>2, <1>9 DEF OwnerGivesUp, Notify
<1>10. CASE OwnerIsCutOff
  BY <1>2, <1>10 DEF OwnerIsCutOff
<1>11. CASE OwnerFails
  BY <1>2, <1>11 DEF OwnerFails
<1>12. CASE OwnerDrops
  BY <1>2, <1>12 DEF OwnerDrops, Notify
<1>13. CASE OwnerReturns
  BY <1>2, <1>13 DEF OwnerReturns
<1>14. CASE \E s \in Slot : Serve(s) \/ HandleE(s)
  BY <1>14, OnlyServersWork DEF server
<1>15. QED
  BY <1>1, <1>3, <1>4, <1>5, <1>6, <1>7, <1>8, <1>9, <1>10, <1>11, <1>12, <1>13, <1>14
     DEF NextE, Thread, OwnerWaits

LEMMA AlwaysInStep == SpecE => [](TypeOKE /\ InStep)
<1>1. InitE => TypeOKE /\ InStep
  BY InStepInit
<1>2. TypeOKE /\ InStep /\ TypeOK' /\ [NextE]_allVars => (TypeOKE /\ InStep)'
  BY InStepStep
<1>3. QED
  BY <1>1, <1>2, EmbeddingIsTransparent, TypeCorrect, PTL DEF SpecE

(* The embedded server's state is well typed.                              *)
THEOREM EmbeddedTypeCorrect == SpecE => []TypeOKE
BY AlwaysInStep, PTL

(* When start has failed or drop has returned, no request is in progress   *)
(* and no lock is held: nobody works on the serve directory any more.      *)
THEOREM StoppingIsFinal == SpecE => []StoppedMeansQuiet
<1>1. TypeOKE /\ InStep /\ LockDiscipline => StoppedMeansQuiet
  BY DEF TypeOKE, TypeOK, InStep, LockDiscipline, StoppedMeansQuiet, Drained, Writing
<1>2. QED
  BY <1>1, AlwaysInStep, EmbeddingIsTransparent, LockExcludes, PTL

(* A program that has the handle finds the server serving whenever it      *)
(* looks: its headers go to a store whose index is true of its files.      *)
THEOREM HandleMeansServing ==
  SpecE => [](owner = "running" => thread = "serving" /\ ~notice)
<1>1. InStep => (owner = "running" => thread = "serving" /\ ~notice)
  BY DEF InStep
<1>2. QED
  BY <1>1, AlwaysInStep, PTL
=============================================================================
