---------------------------- MODULE BodyPipeline ----------------------------
(***************************************************************************)
(* How the body of a PUT or of a part gets into its temporary file         *)
(* (write_body_to_temp in put_object.rs): the handler's task takes frames  *)
(* from the connection and sends them through a bounded channel to a       *)
(* writer on a thread of tokio's blocking pool.  The pool is shared by all *)
(* transfers; a task that finds no thread waits in line.                   *)
(*                                                                         *)
(* One step of ObjectStore's PutCreate, PutReceive, PutReceived and        *)
(* PutBreak stands for several steps here.  Frames without data (trailers) *)
(* are read and dropped by the code; bodies have none here.                *)
(***************************************************************************)
EXTENDS Option, Sequences, FiniteSets, Naturals

CONSTANTS
  Slot,      \* transfers in progress at the same time
  Frame,     \* frames that bodies are made of
  Body,      \* the frames each client sends
  Capacity,  \* frames the channel holds (8 in the code)
  Threads,   \* threads of the blocking pool (512 unless configured)
  Fault      \* file operations that may fail

ASSUME PipelineAssumption ==
  /\ IsFiniteSet(Slot)
  /\ Body \in [Slot -> Seq(Frame)]
  /\ None \notin Seq(Frame)
  /\ Capacity \in Nat \ {0}
  /\ Threads \in Nat \ {0}
  /\ Fault \subseteq {"create", "write", "flush", "stat"}

VARIABLES
  client,    \* "sending", "complete" (all of the body is sent) or "broken"
  recv,      \* where the handler's task stands
  taken,     \* frames it has taken from the connection
  received,  \* recv_result: "open" until the body has ended or failed
  channel,   \* frames sent and not yet taken out by the writer
  thread,    \* the writer: "none", "queued", "running", "ok" or "failed"
  pool,      \* tasks waiting for a thread of the pool, first come first
  file,      \* the temporary file, or None
  result     \* what write_body_to_temp has returned, "open" until it has

handler == <<recv, taken, received, result>>
writing == <<thread, file>>
vars == <<client, handler, channel, writing, pool>>

Init ==
  /\ client = [s \in Slot |-> "sending"]
  /\ recv = [s \in Slot |-> "idle"]
  /\ taken = [s \in Slot |-> 0]
  /\ received = [s \in Slot |-> "open"]
  /\ channel = [s \in Slot |-> << >>]
  /\ thread = [s \in Slot |-> "none"]
  /\ pool = << >>
  /\ file = [s \in Slot |-> None]
  /\ result = [s \in Slot |-> "open"]

Goto(s, label) == recv' = [recv EXCEPT ![s] = label]

(* The sender lives as long as the receive loop, the receiver as long as   *)
(* the writer: dropping either closes the channel.                         *)
SenderDropped_OnReturn(s) == recv[s] = "over"
SenderDropped(s) == recv[s] \in {"join", "stat", "over"}
ReceiverDropped(s) == thread[s] \in {"ok", "failed"}

-----------------------------------------------------------------------------
(* The client. *)

Complete(s) ==
  /\ recv[s] # "idle" /\ client[s] = "sending"
  /\ client' = [client EXCEPT ![s] = "complete"]
  /\ UNCHANGED <<handler, channel, writing, pool>>

Break(s) ==
  /\ recv[s] \in {"frame", "send"} /\ client[s] # "broken"
  /\ client' = [client EXCEPT ![s] = "broken"]
  /\ UNCHANGED <<handler, channel, writing, pool>>

-----------------------------------------------------------------------------
(* The handler's task. *)

Begin(s) ==
  /\ recv[s] = "idle"
  /\ Goto(s, "frame")
  /\ thread' = [thread EXCEPT ![s] = "queued"]
  /\ pool' = Append(pool, s)
  /\ UNCHANGED <<client, taken, received, result, channel, file>>

TakeFrame(s) ==
  /\ recv[s] = "frame"
  /\ client[s] # "broken"
  /\ taken[s] < Len(Body[s])
  /\ taken' = [taken EXCEPT ![s] = taken[s] + 1]
  /\ Goto(s, "send")
  /\ UNCHANGED <<client, received, result, channel, writing, pool>>

InHand(s) == Body[s][taken[s]]

EndReceive(s, how) ==
  /\ received' = [received EXCEPT ![s] = how]
  /\ Goto(s, "join")

EndOfBody(s) ==
  /\ recv[s] = "frame"
  /\ client[s] = "complete"
  /\ taken[s] = Len(Body[s])
  /\ EndReceive(s, "ok")
  /\ UNCHANGED <<client, taken, result, channel, writing, pool>>

ReceiveError(s) ==
  /\ recv[s] = "frame"
  /\ client[s] = "broken"
  /\ EndReceive(s, "failed")
  /\ UNCHANGED <<client, taken, result, channel, writing, pool>>

(* Waits while the channel is full.                                        *)
HasRoom_OneMore(s) == Len(channel[s]) <= Capacity
HasRoom(s) == Len(channel[s]) < Capacity

Send(s) ==
  /\ recv[s] = "send"
  /\ ~ReceiverDropped(s)
  /\ HasRoom(s)
  /\ channel' = [channel EXCEPT ![s] = Append(channel[s], InHand(s))]
  /\ Goto(s, "frame")
  /\ UNCHANGED <<client, taken, received, result, writing, pool>>

SendFails(s) ==
  /\ recv[s] = "send"
  /\ ReceiverDropped(s)
  /\ EndReceive(s, "failed")
  /\ UNCHANGED <<client, taken, result, channel, writing, pool>>

Return(s, how) ==
  /\ Goto(s, "over")
  /\ result' = [result EXCEPT ![s] = how]

(* An error of the writer comes first, then one of the receive loop.       *)
JoinFailed_WriterOnly(s) == thread[s] = "failed"
JoinFailed(s) == thread[s] = "failed" \/ received[s] = "failed"

Joined_AtOnce(s) == TRUE
Joined(s) == thread[s] \in {"ok", "failed"}

Join(s) ==
  /\ recv[s] = "join"
  /\ Joined(s)
  /\ \/ /\ JoinFailed(s)
        /\ Return(s, "failed")
        /\ UNCHANGED pool
     \/ /\ ~JoinFailed(s)
        /\ Goto(s, "stat") /\ UNCHANGED result
        /\ pool' = Append(pool, s)
  /\ UNCHANGED <<client, taken, received, channel, writing>>

(* The connection is closed and the handler dropped where it waits; what   *)
(* it has handed to the pool stays there.                                  *)
Abandon(s) ==
  /\ recv[s] \notin {"idle", "over"}
  /\ client' = [client EXCEPT ![s] = "broken"]
  /\ Return(s, "abandoned")
  /\ UNCHANGED <<taken, received, channel, writing, pool>>

-----------------------------------------------------------------------------
(* The blocking pool: writers, and the metadata of the finished file.      *)

Running == {s \in Slot : thread[s] = "running"}

ThreadFor_Unbounded(s) == pool # << >> /\ Head(pool) = s
ThreadFor(s) == pool # << >> /\ Head(pool) = s /\ Cardinality(Running) < Threads

EndThread(s, how) == thread' = [thread EXCEPT ![s] = how]

Start(s) ==
  /\ thread[s] = "queued"
  /\ ThreadFor(s)
  /\ pool' = Tail(pool)
  /\ \/ /\ file' = [file EXCEPT ![s] = << >>]
        /\ EndThread(s, "running")
        /\ UNCHANGED channel
     \/ /\ "create" \in Fault
        /\ EndThread(s, "failed")
        /\ channel' = [channel EXCEPT ![s] = << >>]
        /\ UNCHANGED file
  /\ UNCHANGED <<client, handler>>

Write(s) ==
  /\ thread[s] = "running"
  /\ channel[s] # << >>
  /\ file' = [file EXCEPT ![s] = Append(file[s], Head(channel[s]))]
  /\ channel' = [channel EXCEPT ![s] = Tail(channel[s])]
  /\ UNCHANGED <<client, handler, thread, pool>>

(* A write that fails, or the flush after the last one: frames still in    *)
(* the channel are dropped with it.                                        *)
WriterFails(s) ==
  /\ thread[s] = "running"
  /\ \/ "write" \in Fault /\ channel[s] # << >>
     \/ "flush" \in Fault /\ channel[s] = << >> /\ SenderDropped(s)
  /\ EndThread(s, "failed")
  /\ channel' = [channel EXCEPT ![s] = << >>]
  /\ UNCHANGED <<client, handler, file, pool>>

WriterSeesEnd(s) == channel[s] = << >> /\ SenderDropped(s)

WriterEnds(s) ==
  /\ thread[s] = "running"
  /\ WriterSeesEnd(s)
  /\ EndThread(s, "ok")
  /\ UNCHANGED <<client, handler, channel, file, pool>>

Stat(s) ==
  /\ recv[s] \in {"stat", "over"} /\ ReceiverDropped(s)
  /\ ThreadFor(s)
  /\ pool' = Tail(pool)
  /\ IF recv[s] = "over"
       THEN UNCHANGED handler
       ELSE /\ \/ Return(s, "ok")
               \/ "stat" \in Fault /\ Return(s, "failed")
            /\ UNCHANGED <<taken, received>>
  /\ UNCHANGED <<client, channel, writing>>

-----------------------------------------------------------------------------
(* What the program does by itself; what is yet to come from a client that *)
(* is still sending it only waits for.                                     *)
Proceed(s) ==
  \/ client[s] = "complete" /\ TakeFrame(s)
  \/ EndOfBody(s) \/ ReceiveError(s) \/ Send(s) \/ SendFails(s) \/ Join(s)

Work(s) == Start(s) \/ Write(s) \/ WriterFails(s) \/ WriterEnds(s) \/ Stat(s)

Next ==
  \E s \in Slot :
    \/ Complete(s) \/ Break(s) \/ Begin(s)
    \/ TakeFrame(s) \/ Abandon(s)
    \/ Proceed(s) \/ Work(s)

Spec == Init /\ [][Next]_vars

FairSpec == Spec /\ \A s \in Slot : WF_vars(Proceed(s)) /\ WF_vars(Work(s))

-----------------------------------------------------------------------------
(* Properties. *)

(* The state's type, and how many threads there are.                       *)
TypeOK ==
  /\ client \in [Slot -> {"sending", "complete", "broken"}]
  /\ recv \in [Slot -> {"idle", "frame", "send", "join", "stat", "over"}]
  /\ taken \in [Slot -> Nat] /\ \A s \in Slot : taken[s] <= Len(Body[s])
  /\ received \in [Slot -> {"open", "ok", "failed"}]
  /\ channel \in [Slot -> Seq(Frame)]
  /\ thread \in [Slot -> {"none", "queued", "running", "ok", "failed"}]
  /\ pool \in Seq(Slot) /\ Cardinality(Running) <= Threads
  /\ file \in [Slot -> Seq(Frame) \cup {None}]
  /\ result \in [Slot -> {"open", "ok", "failed", "abandoned"}]

Written(s) == IF file[s] = None THEN << >> ELSE file[s]
Held(s) == IF recv[s] = "send" THEN 1 ELSE 0

(* No frame is lost, doubled or out of order between the connection and    *)
(* the file, and memory holds no more than the channel and one frame.      *)
NothingLost ==
  \A s \in Slot :
    /\ \A i \in 1 .. Len(Written(s)) : Written(s)[i] = Body[s][i]
    /\ Len(channel[s]) <= Capacity
    /\ thread[s] # "failed" /\ result[s] # "abandoned" =>
         Len(Written(s)) + Len(channel[s]) + Held(s) = taken[s]
    /\ \A i \in 1 .. Len(channel[s]) :
         /\ Len(Written(s)) + i <= Len(Body[s])
         /\ channel[s][i] = Body[s][Len(Written(s)) + i]

(* "the temp file is fully closed before the caller unlinks or renames it" *)
(* (put_object.rs:308): the writer is done when the handler goes on, also  *)
(* after an error.                                                         *)
ClosedOnReturn == \A s \in Slot : result[s] \in {"ok", "failed"} => ReceiverDropped(s)

Transfer == INSTANCE BodyTransfer WITH outcome <- result

ImplementsBodyTransfer == Transfer!TransferSpec

(* Nobody waits for nobody: once every client has sent its body or gone    *)
(* away, all transfers come to an end and all threads are free again,      *)
(* however few there are.                                                  *)
AllTransfersEnd ==
  (\A s \in Slot : client[s] # "sending")
    ~> (\A s \in Slot : recv[s] = "over" /\ ReceiverDropped(s))
=============================================================================
