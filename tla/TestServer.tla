----------------------------- MODULE TestServer -----------------------------
(***************************************************************************)
(* The server embedded in another program (test_server.rs): a thread of    *)
(* its own serves the object store, and the program that owns the handle   *)
(* waits for it to start, adds headers to objects through the store they   *)
(* share, and waits for it to end when it drops the handle.                *)
(*                                                                         *)
(* The two talk over a channel for one message, on which the thread says   *)
(* how its startup went, and a tokio Notify, which keeps one notice until  *)
(* somebody asks for it.  Told to shut down, axum takes no new requests    *)
(* and ends when those in progress are answered.                           *)
(***************************************************************************)
EXTENDS ObjectStore

ASSUME ReportAssumption == None \notin {"ok", "error"}

VARIABLES
  thread,   \* where the server's thread stands
  report,   \* the message in the startup channel, or None
  notice,   \* TRUE if the Notify holds a notice nobody has seen
  owner     \* where the owner stands

server == <<thread, report, notice, owner>>

InitE ==
  /\ Init
  /\ thread = "starting"
  /\ report = None
  /\ notice = FALSE
  /\ owner = "starting"

-----------------------------------------------------------------------------
(* The server's thread. *)

(* Runtime, listener, index; then the report and the first connections.    *)
(* The channel has room, and may have lost its reader by then.             *)
ThreadStarts ==
  /\ thread = "starting"
  /\ thread' = "serving"
  /\ report' = "ok"
  /\ UNCHANGED <<vars, notice, owner>>

ThreadFails ==
  /\ thread = "starting"
  /\ thread' = "ended"
  /\ report' = "error"
  /\ UNCHANGED <<vars, notice, owner>>

(* The runtime panics if it gets no threads; nothing is reported then.     *)
ThreadPanics ==
  /\ thread = "starting"
  /\ thread' = "panicked"
  /\ UNCHANGED <<vars, report, notice, owner>>

ThreadIsTold ==
  /\ thread = "serving"
  /\ notice
  /\ notice' = FALSE
  /\ thread' = "draining"
  /\ UNCHANGED <<vars, report, owner>>

Drained_AtOnce == TRUE
Drained == \A s \in Slot : pc[s] = "idle"

ThreadEnds ==
  /\ thread = "draining"
  /\ Drained
  /\ thread' = "ended"
  /\ UNCHANGED <<vars, report, notice, owner>>

Thread == ThreadStarts \/ ThreadFails \/ ThreadPanics \/ ThreadIsTold \/ ThreadEnds

-----------------------------------------------------------------------------
(* The owner. *)

Notify_Waiters == notice' = (thread = "serving")
Notify == notice' = TRUE

OwnerHears ==
  /\ owner = "starting"
  /\ report # None
  /\ owner' = IF report = "ok" THEN "running" ELSE "reporting"
  /\ report' = None
  /\ UNCHANGED <<vars, thread, notice>>

(* Five seconds have passed and there is nothing in the channel.           *)
OwnerGivesUp ==
  /\ owner = "starting"
  /\ report = None /\ thread # "panicked"
  /\ owner' = "giving_up"
  /\ Notify
  /\ UNCHANGED <<vars, thread, report>>

OwnerIsCutOff ==
  /\ owner = "starting"
  /\ report = None /\ thread = "panicked"
  /\ owner' = "reporting"
  /\ UNCHANGED <<vars, thread, report, notice>>

(* start returns an error once the thread is over.                         *)
OwnerFails ==
  /\ owner \in {"giving_up", "reporting"}
  /\ thread \in {"ended", "panicked"}
  /\ owner' = "failed"
  /\ UNCHANGED <<vars, thread, report, notice>>

(* The handle cannot be dropped while one of its methods runs.             *)
OwnerDrops ==
  /\ owner = "running"
  /\ \A s \in Slot : pc[s] # "idle" => req[s].op # "add_header"
  /\ owner' = "dropping"
  /\ Notify
  /\ UNCHANGED <<vars, thread, report>>

OwnerReturns ==
  /\ owner = "dropping"
  /\ thread \in {"ended", "panicked"}
  /\ owner' = "gone"
  /\ UNCHANGED <<vars, thread, report, notice>>

(* All but dropping the handle, which is the program's own choice.         *)
OwnerWaits == OwnerHears \/ OwnerGivesUp \/ OwnerIsCutOff \/ OwnerFails \/ OwnerReturns

-----------------------------------------------------------------------------
(* Requests come from clients of the listener, headers from the owner.     *)
Accepts(r) == IF r.op = "add_header" THEN owner = "running" ELSE thread = "serving"

Serve(s) ==
  /\ \/ \E r \in Request : Accepts(r) /\ Receive(s, r)
     \/ PutReceive(s) \/ PutBreak(s) \/ Return(s)
  /\ UNCHANGED server

HandleE(s) == Handle(s) /\ UNCHANGED server

NextE == Thread \/ OwnerWaits \/ OwnerDrops \/ \E s \in Slot : Serve(s) \/ HandleE(s)

allVars == <<vars, server>>

(* Startup ends one way or another, the two threads are scheduled, and     *)
(* handlers run until they are done; clients and the owner may never act.  *)
SpecE ==
  /\ InitE /\ [][NextE]_allVars
  /\ WF_allVars(Thread) /\ WF_allVars(OwnerWaits)
  /\ \A s \in Slot : WF_allVars(HandleE(s))

-----------------------------------------------------------------------------
(* Properties. *)

TypeOKE ==
  /\ TypeOK
  /\ thread \in {"starting", "serving", "draining", "ended", "panicked"}
  /\ report \in {None, "ok", "error"}
  /\ notice \in BOOLEAN
  /\ owner \in {"starting", "running", "giving_up", "reporting", "failed", "dropping", "gone"}

(* When start has failed or drop has returned nobody works on the serve    *)
(* directory any more: no request is in progress and no file half written. *)
StoppedMeansQuiet ==
  owner \in {"failed", "gone"} =>
    /\ thread \in {"ended", "panicked"}
    /\ Drained
    /\ writer = None /\ readers = {}

(* start and drop return, whenever the notice comes and whatever requests  *)
(* are in progress, unless a client neither sends nor reads any more.      *)
Blocked == {"starting", "giving_up", "reporting", "dropping"}

CallsReturn ==
  <>[](owner \in Blocked) => <>[](\E s \in Slot : pc[s] \in {"body", "done"})
=============================================================================
