------------------------- MODULE BodyPipelineProofs -------------------------
(***************************************************************************)
(* For any bodies, number of transfers, capacity of the channel, number of *)
(* threads and failures: the pipeline keeps its types, loses nothing,      *)
(* closes the file before it returns, and implements BodyTransfer.         *)
(***************************************************************************)
EXTENDS BodyPipeline, FiniteSetTheorems, SequenceTheorems, TLAPS

(* The steps of one transfer.                                              *)
Step(s) ==
  \/ Complete(s) \/ Break(s) \/ Begin(s)
  \/ TakeFrame(s) \/ Abandon(s)
  \/ EndOfBody(s) \/ ReceiveError(s) \/ Send(s) \/ SendFails(s) \/ Join(s)
  \/ Start(s) \/ Write(s) \/ WriterFails(s) \/ WriterEnds(s) \/ Stat(s)

(* The types alone, without the number of threads.                         *)
Types ==
  /\ client \in [Slot -> {"sending", "complete", "broken"}]
  /\ recv \in [Slot -> {"idle", "frame", "send", "join", "stat", "over"}]
  /\ taken \in [Slot -> Nat] /\ \A s \in Slot : taken[s] <= Len(Body[s])
  /\ received \in [Slot -> {"open", "ok", "failed"}]
  /\ channel \in [Slot -> Seq(Frame)]
  /\ thread \in [Slot -> {"none", "queued", "running", "ok", "failed"}]
  /\ pool \in Seq(Slot)
  /\ file \in [Slot -> Seq(Frame) \cup {None}]
  /\ result \in [Slot -> {"open", "ok", "failed", "abandoned"}]

(* What a writer has and has not when it stands where it stands, and what  *)
(* the handler knows when it stands where it stands.                       *)
WriterOnTrack(s) ==
  /\ thread[s] \in {"none", "queued"} => file[s] = None
  /\ thread[s] \in {"running", "ok"} => file[s] # None
  /\ thread[s] \in {"ok", "failed"} => channel[s] = << >>
  /\ thread[s] = "ok" => SenderDropped(s)

HandlerOnTrack(s) ==
  /\ recv[s] = "idle" <=> thread[s] = "none"
  /\ recv[s] = "over" <=> result[s] # "open"
  /\ recv[s] = "send" => taken[s] > 0
  /\ recv[s] = "join" => received[s] # "open"
  /\ recv[s] = "stat" => thread[s] = "ok" /\ received[s] = "ok"
  /\ received[s] = "ok" => taken[s] = Len(Body[s])

OnTrack == \A s \in Slot : WriterOnTrack(s) /\ HandlerOnTrack(s)

(* NothingLost, of one transfer.                                           *)
InOrder(s) ==
  /\ \A i \in 1 .. Len(Written(s)) : Written(s)[i] = Body[s][i]
  /\ Len(channel[s]) <= Capacity
  /\ thread[s] # "failed" /\ result[s] # "abandoned" =>
       Len(Written(s)) + Len(channel[s]) + Held(s) = taken[s]
  /\ \A i \in 1 .. Len(channel[s]) :
       /\ Len(Written(s)) + i <= Len(Body[s])
       /\ channel[s][i] = Body[s][Len(Written(s)) + i]

Inv == Types /\ OnTrack /\ NothingLost /\ ClosedOnReturn

LEMMA NextIsAStep == Next <=> \E s \in Slot : Step(s)
BY DEF Next, Step, Proceed, Work

LEMMA NothingLostIsInOrder == NothingLost <=> \A s \in Slot : InOrder(s)
BY DEF NothingLost, InOrder

LEMMA BodyType == \A s \in Slot : Body[s] \in Seq(Frame)
BY PipelineAssumption

(* Everything is in order at the start.                                    *)
LEMMA InvInit == Init => Inv
<1> SUFFICES ASSUME Init PROVE Inv
  OBVIOUS
<1>1. Types
  BY BodyType DEF Init, Types
<1>2. OnTrack
  <2>1. \A s \in Slot : Len(Body[s]) \in Nat
    BY BodyType
  <2>2. QED
    BY <2>1 DEF Init, OnTrack, WriterOnTrack, HandlerOnTrack
<1>3. NothingLost
  BY BodyType, PipelineAssumption DEF Init, NothingLost, Written, Held
<1>4. ClosedOnReturn
  BY DEF Init, ClosedOnReturn
<1>5. QED
  BY <1>1, <1>2, <1>3, <1>4 DEF Inv

LEMMA TypesStep ==
  ASSUME Types, NEW s \in Slot, WriterOnTrack(s), HandlerOnTrack(s), Step(s)
  PROVE  Types'
<1> USE DEF Types, handler, writing, Goto, EndReceive, Return, EndThread
<1>1. Append(pool, s) \in Seq(Slot) /\ << >> \in Seq(Frame) /\ Body[s] \in Seq(Frame)
  BY BodyType
<1>2. CASE Complete(s) \/ Break(s)
  BY <1>2 DEF Complete, Break
<1>3. CASE Begin(s)
  BY <1>1, <1>3 DEF Begin
<1>4. CASE TakeFrame(s)
  BY <1>1, <1>4 DEF TakeFrame
<1>5. CASE Abandon(s)
  BY <1>5 DEF Abandon
<1>6. CASE EndOfBody(s) \/ ReceiveError(s) \/ SendFails(s)
  BY <1>6 DEF EndOfBody, ReceiveError, SendFails
<1>7. CASE Send(s)
  <2>1. InHand(s) \in Frame
    BY <1>1, <1>7 DEF Send, InHand, HandlerOnTrack
  <2>2. Append(channel[s], InHand(s)) \in Seq(Frame)
    BY <2>1
  <2>3. QED
    BY <1>7, <2>2 DEF Send
<1>8. CASE Join(s)
  <2>1. pool' \in Seq(Slot)
    BY <1>1, <1>8 DEF Join
  <2>2. CASE JoinFailed(s)
    BY <1>8, <2>1, <2>2 DEF Join
  <2>3. CASE ~JoinFailed(s)
    BY <1>8, <2>1, <2>3 DEF Join
  <2>4. QED
    BY <2>2, <2>3
<1>9. CASE Start(s)
  <2>1. pool' \in Seq(Slot) /\ UNCHANGED <<client, handler>>
    BY <1>9 DEF Start, ThreadFor
  <2>2. /\ thread' \in [Slot -> {"none", "queued", "running", "ok", "failed"}]
        /\ channel' \in [Slot -> Seq(Frame)]
    <3>1. /\ thread' = [thread EXCEPT ![s] = "running"] \/ thread' = [thread EXCEPT ![s] = "failed"]
          /\ channel' = [channel EXCEPT ![s] = << >>] \/ UNCHANGED channel
      BY <1>9 DEF Start
    <3>2. QED
      BY <1>1, <3>1
  <2>3. file' \in [Slot -> Seq(Frame) \cup {None}]
    <3>1. file' = [file EXCEPT ![s] = << >>] \/ UNCHANGED file
      BY <1>9 DEF Start
    <3>2. QED
      BY <1>1, <3>1
  <2>4. QED
    BY <2>1, <2>2, <2>3
<1>10. CASE Write(s)
  <2>1. file[s] \in Seq(Frame) /\ channel[s] \in Seq(Frame) /\ channel[s] # << >>
    BY <1>10 DEF Write, WriterOnTrack
  <2>2. Append(file[s], Head(channel[s])) \in Seq(Frame) /\ Tail(channel[s]) \in Seq(Frame)
    BY <2>1
  <2>3. QED
    BY <1>10, <2>2 DEF Write
<1>11. CASE WriterFails(s) \/ WriterEnds(s)
  <2>1. /\ thread' \in [Slot -> {"none", "queued", "running", "ok", "failed"}]
        /\ channel' \in [Slot -> Seq(Frame)]
        /\ UNCHANGED <<client, handler, file, pool>>
    BY <1>1, <1>11 DEF WriterFails, WriterEnds
  <2>2. QED
    BY <2>1
<1>12. CASE Stat(s)
  <2>1. pool' \in Seq(Slot) /\ UNCHANGED <<client, channel, writing, taken, received>>
    BY <1>12 DEF Stat, ThreadFor
  <2>2. /\ recv' \in [Slot -> {"idle", "frame", "send", "join", "stat", "over"}]
        /\ result' \in [Slot -> {"open", "ok", "failed", "abandoned"}]
    BY <1>12 DEF Stat
  <2>3. QED
    BY <2>1, <2>2
<1>13. QED
  BY <1>2, <1>3, <1>4, <1>5, <1>6, <1>7, <1>8, <1>9, <1>10, <1>11, <1>12 DEF Step

(* Whatever a step does, it does to one transfer.                          *)
LEMMA OneAtATime ==
  ASSUME Types, NEW s \in Slot, NEW t \in Slot \ {s}, Step(s)
  PROVE  /\ recv'[t] = recv[t] /\ taken'[t] = taken[t] /\ received'[t] = received[t]
         /\ channel'[t] = channel[t] /\ thread'[t] = thread[t]
         /\ file'[t] = file[t] /\ result'[t] = result[t]
<1> USE DEF Types, handler, writing, Goto, EndReceive, Return, EndThread
<1>1. CASE Complete(s) \/ Break(s) \/ Begin(s) \/ TakeFrame(s) \/ Abandon(s)
  BY <1>1 DEF Complete, Break, Begin, TakeFrame, Abandon
<1>2. CASE EndOfBody(s) \/ ReceiveError(s) \/ SendFails(s) \/ Send(s) \/ Join(s)
  BY <1>2 DEF EndOfBody, ReceiveError, SendFails, Send, Join
<1>3. CASE Start(s) \/ Write(s)
  BY <1>3 DEF Start, Write
<1>4. CASE WriterFails(s) \/ WriterEnds(s) \/ Stat(s)
  BY <1>4 DEF WriterFails, WriterEnds, Stat
<1>5. QED
  BY <1>1, <1>2, <1>3, <1>4 DEF Step

(* A transfer's writer and handler stay on track.                          *)
LEMMA OnTrackStep ==
  ASSUME Types, NEW s \in Slot, WriterOnTrack(s), HandlerOnTrack(s), ClosedOnReturn, Step(s)
  PROVE  WriterOnTrack(s)' /\ HandlerOnTrack(s)'
<1> USE DEF Types, handler, writing, Goto, EndReceive, Return, EndThread,
            SenderDropped, ReceiverDropped, WriterOnTrack, HandlerOnTrack
<1>1. CASE Complete(s) \/ Break(s)
  BY <1>1 DEF Complete, Break
<1>2. CASE Begin(s)
  BY <1>2 DEF Begin
<1>3. CASE TakeFrame(s)
  <2>1. taken[s] \in Nat /\ taken'[s] = taken[s] + 1 /\ taken[s] < Len(Body[s])
    BY <1>3 DEF TakeFrame
  <2>2. received[s] # "ok"
    BY <2>1
  <2>3. QED
    BY <1>3, <2>1, <2>2 DEF TakeFrame
<1>4. CASE Abandon(s)
  BY <1>4 DEF Abandon
<1>5. CASE EndOfBody(s) \/ ReceiveError(s) \/ SendFails(s)
  BY <1>5 DEF EndOfBody, ReceiveError, SendFails
<1>6. CASE Send(s)
  BY <1>6 DEF Send
<1>7. CASE Join(s)
  <2>1. CASE JoinFailed(s)
    BY <1>7, <2>1 DEF Join
  <2>2. CASE ~JoinFailed(s)
    BY <1>7, <2>2 DEF Join, Joined, JoinFailed
  <2>3. QED
    BY <2>1, <2>2
<1>8. CASE Start(s)
  <2>1. << >> \in Seq(Frame) /\ None \notin Seq(Frame)
    BY PipelineAssumption
  <2>2. thread[s] = "queued" /\ recv[s] # "idle" /\ recv[s] # "stat"
    BY <1>8 DEF Start
  <2>3. CASE /\ file' = [file EXCEPT ![s] = << >>]
             /\ thread' = [thread EXCEPT ![s] = "running"] /\ UNCHANGED <<handler, channel>>
    BY <2>1, <2>2, <2>3
  <2>4. CASE /\ thread' = [thread EXCEPT ![s] = "failed"]
             /\ channel' = [channel EXCEPT ![s] = << >>] /\ UNCHANGED <<handler, file>>
    BY <2>2, <2>4
  <2>5. QED
    BY <1>8, <2>3, <2>4 DEF Start
<1>9. CASE Write(s)
  <2>1. file'[s] # None
    <3>1. file[s] \in Seq(Frame) /\ channel[s] \in Seq(Frame) /\ channel[s] # << >>
      BY <1>9 DEF Write
    <3>2. Append(file[s], Head(channel[s])) \in Seq(Frame)
      BY <3>1
    <3>3. QED
      BY <1>9, <3>2, PipelineAssumption DEF Write
  <2>2. thread[s] = "running" /\ UNCHANGED <<handler, thread>>
    BY <1>9 DEF Write
  <2>3. QED
    BY <2>1, <2>2
<1>10. CASE WriterFails(s) \/ WriterEnds(s)
  BY <1>10 DEF WriterFails, WriterEnds, WriterSeesEnd
<1>11. CASE Stat(s)
  <2>1. recv[s] \in {"stat", "over"} /\ UNCHANGED <<channel, writing, taken, received>>
    BY <1>11 DEF Stat
  <2>2. CASE recv[s] = "over"
    BY <1>11, <2>1, <2>2 DEF Stat
  <2>3. CASE recv[s] = "stat"
    <3>1. recv'[s] = "over" /\ result'[s] # "open"
      BY <1>11, <2>3 DEF Stat
    <3>2. QED
      BY <2>1, <2>3, <3>1
  <2>4. QED
    BY <2>1, <2>2, <2>3
<1>12. QED
  BY <1>1, <1>2, <1>3, <1>4, <1>5, <1>6, <1>7, <1>8, <1>9, <1>10, <1>11 DEF Step

(* The handler is told the outcome when it has joined the writer.          *)
LEMMA ClosedStep ==
  ASSUME Types, NEW s \in Slot, WriterOnTrack(s), HandlerOnTrack(s), ClosedOnReturn, Step(s)
  PROVE  result'[s] \in {"ok", "failed"} => ReceiverDropped(s)'
<1> USE DEF Types, handler, writing, Goto, EndReceive, Return, EndThread,
            ReceiverDropped, HandlerOnTrack, ClosedOnReturn
<1>1. CASE Complete(s) \/ Break(s) \/ Begin(s) \/ TakeFrame(s) \/ Abandon(s)
  BY <1>1 DEF Complete, Break, Begin, TakeFrame, Abandon
<1>2. CASE EndOfBody(s) \/ ReceiveError(s) \/ SendFails(s) \/ Send(s)
  BY <1>2 DEF EndOfBody, ReceiveError, SendFails, Send
<1>3. CASE Join(s)
  BY <1>3 DEF Join, Joined
<1>4. CASE Start(s) \/ Write(s)
  BY <1>4 DEF Start, Write
<1>5. CASE WriterFails(s) \/ WriterEnds(s) \/ Stat(s)
  BY <1>5 DEF WriterFails, WriterEnds, Stat
<1>6. QED
  BY <1>1, <1>2, <1>3, <1>4, <1>5 DEF Step

(* Frames move from the connection to the hand, the channel and the file   *)
(* in their order.                                                         *)
LEMMA InOrderStep ==
  ASSUME Types, NEW s \in Slot, WriterOnTrack(s), HandlerOnTrack(s), ClosedOnReturn,
         InOrder(s), Step(s)
  PROVE  InOrder(s)'
<1> USE DEF Types, handler, writing, Goto, EndReceive, Return, EndThread
<1>1. /\ Body[s] \in Seq(Frame) /\ channel[s] \in Seq(Frame) /\ taken[s] \in Nat
      /\ Written(s) \in Seq(Frame) /\ Capacity \in Nat /\ taken[s] <= Len(Body[s])
  BY BodyType, PipelineAssumption DEF Written
(* The frames are where they were: only who is to deal with them changes.  *)
<1>2. CASE /\ UNCHANGED <<channel, file>> /\ taken'[s] = taken[s]
           /\ result'[s] # "abandoned" => Held(s)' = Held(s) /\ result[s] # "abandoned"
           /\ thread[s] = "failed" => thread'[s] = "failed"
  <2>1. Written(s)' = Written(s) /\ channel'[s] = channel[s]
    BY <1>2 DEF Written
  <2>2. QED
    BY <1>2, <2>1 DEF InOrder
<1>3. CASE TakeFrame(s)
  <2>1. /\ Held(s) = 0 /\ Held(s)' = 1 /\ taken'[s] = taken[s] + 1
        /\ Written(s)' = Written(s) /\ channel'[s] = channel[s]
        /\ thread'[s] = thread[s] /\ result'[s] = result[s]
    BY <1>3 DEF TakeFrame, Held, Written
  <2> HIDE DEF Types
  <2>2. QED
    BY <1>1, <2>1 DEF InOrder
<1>4. CASE Send(s)
  <2> DEFINE longer == Append(channel[s], InHand(s))
  <2>1. /\ Held(s) = 1 /\ Held(s)' = 0 /\ taken'[s] = taken[s] /\ Written(s)' = Written(s)
        /\ channel'[s] = longer /\ Len(channel[s]) < Capacity
        /\ thread'[s] = thread[s] /\ result'[s] = result[s]
        /\ thread[s] # "failed" /\ result[s] # "abandoned"
    BY <1>4 DEF Send, HasRoom, Held, Written, ReceiverDropped, HandlerOnTrack
  <2>2. InHand(s) = Body[s][taken[s]] /\ InHand(s) \in Frame
    BY <1>1, <1>4 DEF Send, InHand, HandlerOnTrack
  <2>3. /\ Len(longer) = Len(channel[s]) + 1 /\ longer[Len(channel[s]) + 1] = InHand(s)
        /\ \A i \in 1 .. Len(channel[s]) : longer[i] = channel[s][i]
    BY <1>1, <2>2, AppendProperties
  <2>4. Len(Written(s)) + Len(channel[s]) + 1 = taken[s]
    BY <2>1 DEF InOrder
  <2> HIDE DEF longer
  <2>5. ASSUME NEW i \in 1 .. Len(longer)
        PROVE  Len(Written(s)) + i <= Len(Body[s]) /\ longer[i] = Body[s][Len(Written(s)) + i]
    <3>1. CASE i \in 1 .. Len(channel[s])
      BY <2>3, <3>1 DEF InOrder
    <3>2. CASE i = Len(channel[s]) + 1
      BY <1>1, <2>2, <2>3, <2>4, <3>2
    <3>3. QED
      BY <1>1, <2>3, <3>1, <3>2
  <2>6. Len(longer) <= Capacity /\ Len(Written(s)) + Len(longer) = taken[s]
    BY <1>1, <2>1, <2>3, <2>4
  <2> HIDE DEF Types
  <2>7. QED
    BY <2>1, <2>5, <2>6 DEF InOrder
<1>5. CASE Write(s)
  <2> DEFINE first == Head(channel[s])
             longer == Append(file[s], first)
             rest == Tail(channel[s])
  <2>1. /\ file[s] \in Seq(Frame) /\ file[s] # None /\ Written(s) = file[s]
        /\ channel[s] # << >> /\ taken'[s] = taken[s] /\ Held(s)' = Held(s)
        /\ thread'[s] = thread[s] /\ result'[s] = result[s]
        /\ file'[s] = longer /\ channel'[s] = rest
    BY <1>5 DEF Write, WriterOnTrack, Written, Held
  <2>2. /\ first \in Frame /\ first = channel[s][1] /\ rest \in Seq(Frame)
        /\ Len(rest) = Len(channel[s]) - 1 /\ Len(channel[s]) \in Nat \ {0}
        /\ \A i \in 1 .. Len(rest) : rest[i] = channel[s][i + 1]
    BY <1>1, <2>1, HeadTailProperties
  <2>3. /\ longer \in Seq(Frame) /\ Len(longer) = Len(file[s]) + 1
        /\ longer[Len(file[s]) + 1] = first
        /\ \A i \in 1 .. Len(file[s]) : longer[i] = file[s][i]
    BY <2>1, <2>2, AppendProperties
  <2> HIDE DEF first, longer, rest
  <2>4. Written(s)' = longer
    BY <2>1, <2>3, PipelineAssumption DEF Written
  <2>5. ASSUME NEW i \in 1 .. Len(longer) PROVE longer[i] = Body[s][i]
    <3>1. /\ \A j \in 1 .. Len(file[s]) : file[s][j] = Body[s][j]
          /\ first = Body[s][Len(file[s]) + 1]
      BY <2>1, <2>2 DEF InOrder
    <3>2. CASE i \in 1 .. Len(file[s])
      BY <2>3, <3>1, <3>2
    <3>3. CASE i = Len(file[s]) + 1
      BY <2>3, <3>1, <3>3
    <3>4. QED
      BY <2>1, <2>3, <3>2, <3>3
  <2>6. ASSUME NEW i \in 1 .. Len(rest)
        PROVE  Len(longer) + i <= Len(Body[s]) /\ rest[i] = Body[s][Len(longer) + i]
    <3>1. i + 1 \in 1 .. Len(channel[s]) /\ Len(longer) + i = Len(Written(s)) + (i + 1)
      BY <2>1, <2>2, <2>3
    <3>2. QED
      BY <2>2, <3>1 DEF InOrder
  <2>7. Len(rest) <= Capacity /\ Len(longer) + Len(rest) = Len(Written(s)) + Len(channel[s])
    BY <1>1, <2>1, <2>2, <2>3 DEF InOrder
  <2>8. QED
    BY <2>1, <2>4, <2>5, <2>6, <2>7 DEF InOrder
<1>6. CASE Start(s)
  <2>1. /\ taken'[s] = taken[s] /\ result'[s] = result[s] /\ Held(s)' = Held(s)
        /\ file[s] = None /\ Written(s) = << >> /\ Written(s)' = << >>
        /\ thread[s] = "queued"
    BY <1>6 DEF Start, WriterOnTrack, Written, Held
  <2>2. CASE thread'[s] = "running" /\ channel'[s] = channel[s]
    BY <2>1, <2>2 DEF InOrder
  <2>3. CASE thread'[s] = "failed" /\ channel'[s] = << >>
    BY <1>1, <2>1, <2>3 DEF InOrder
  <2>4. QED
    BY <1>6, <2>2, <2>3 DEF Start
<1>7. CASE WriterFails(s)
  <2>1. Written(s)' = Written(s) /\ thread'[s] = "failed" /\ channel'[s] = << >>
    BY <1>7 DEF WriterFails, Written
  <2>2. QED
    BY <1>1, <2>1 DEF InOrder
<1>8. CASE Complete(s) \/ Break(s) \/ Begin(s)
  BY <1>2, <1>8 DEF Complete, Break, Begin, Held, HandlerOnTrack
<1>9. CASE EndOfBody(s) \/ ReceiveError(s)
  BY <1>2, <1>9 DEF EndOfBody, ReceiveError, Held
<1>10. CASE SendFails(s)
  <2>1. thread[s] = "failed" /\ thread'[s] = "failed" /\ UNCHANGED <<channel, file>>
    BY <1>10 DEF SendFails, ReceiverDropped, WriterOnTrack, SenderDropped
  <2>2. Written(s)' = Written(s) /\ channel'[s] = channel[s]
    BY <2>1 DEF Written
  <2> HIDE DEF Types
  <2>3. QED
    BY <2>1, <2>2 DEF InOrder
<1>11. CASE Join(s)
  <2>1. CASE JoinFailed(s)
    BY <1>2, <1>11, <2>1 DEF Join, Held, HandlerOnTrack
  <2>2. CASE ~JoinFailed(s)
    BY <1>2, <1>11, <2>2 DEF Join, Held
  <2>3. QED
    BY <2>1, <2>2
<1>12. CASE Abandon(s)
  BY <1>2, <1>12 DEF Abandon
<1>13. CASE WriterEnds(s)
  BY <1>2, <1>13 DEF WriterEnds, Held
<1>14. CASE Stat(s)
  <2>1. /\ UNCHANGED <<channel, file, thread>> /\ taken'[s] = taken[s]
        /\ recv[s] \in {"stat", "over"} /\ recv'[s] = "over"
    BY <1>14 DEF Stat
  <2>2. Held(s) = 0 /\ Held(s)' = 0
    BY <2>1 DEF Held
  <2>3. result'[s] # "abandoned" => result[s] # "abandoned"
    BY <1>14 DEF Stat, HandlerOnTrack
  <2>4. QED
    BY <1>2, <2>1, <2>2, <2>3
<1>15. QED
  BY <1>3, <1>4, <1>5, <1>6, <1>7, <1>8, <1>9, <1>10, <1>11, <1>12, <1>13, <1>14 DEF Step

LEMMA InvStep ==
  ASSUME Inv, [Next]_vars
  PROVE  Inv'
<1>1. CASE UNCHANGED vars
  <2> USE <1>1 DEF vars, handler, writing, Inv
  <2>1. Types'
    BY DEF Types
  <2>2. OnTrack'
    BY DEF OnTrack, WriterOnTrack, HandlerOnTrack, SenderDropped
  <2>3. NothingLost'
    <3>1. ASSUME NEW t \in Slot PROVE InOrder(t)'
      <4>1. Written(t)' = Written(t) /\ Held(t)' = Held(t)
        BY DEF Written, Held
      <4>2. UNCHANGED <<thread, result, taken, channel>>
        OBVIOUS
      <4>3. InOrder(t)
        BY NothingLostIsInOrder
      <4>4. QED
        BY <4>1, <4>2, <4>3 DEF InOrder
    <3>2. QED
      BY <3>1 DEF NothingLost, InOrder
  <2>4. ClosedOnReturn'
    BY DEF ClosedOnReturn, ReceiverDropped
  <2>5. QED
    BY <2>1, <2>2, <2>3, <2>4
<1>2. ASSUME NEW s \in Slot, Step(s) PROVE Inv'
  <2>1. Types /\ ClosedOnReturn /\ \A t \in Slot : WriterOnTrack(t) /\ HandlerOnTrack(t) /\ InOrder(t)
    BY NothingLostIsInOrder DEF Inv, OnTrack
  <2>2. Types'
    BY <1>2, <2>1, TypesStep
  <2>3. /\ WriterOnTrack(s)' /\ HandlerOnTrack(s)' /\ InOrder(s)'
        /\ result'[s] \in {"ok", "failed"} => ReceiverDropped(s)'
    BY <1>2, <2>1, OnTrackStep, InOrderStep, ClosedStep
  <2>4. ASSUME NEW t \in Slot \ {s}
        PROVE  /\ WriterOnTrack(t)' /\ HandlerOnTrack(t)' /\ InOrder(t)'
               /\ result'[t] \in {"ok", "failed"} => ReceiverDropped(t)'
    <3>1. /\ recv'[t] = recv[t] /\ taken'[t] = taken[t] /\ received'[t] = received[t]
          /\ channel'[t] = channel[t] /\ thread'[t] = thread[t]
          /\ file'[t] = file[t] /\ result'[t] = result[t]
      BY <1>2, <2>1, OneAtATime
    <3>2. WriterOnTrack(t)' /\ HandlerOnTrack(t)'
      BY <2>1, <3>1 DEF WriterOnTrack, HandlerOnTrack, SenderDropped
    <3>3. Written(t)' = Written(t) /\ Held(t)' = Held(t)
      BY <3>1 DEF Written, Held
    <3>4. InOrder(t)'
      BY <2>1, <3>1, <3>3 DEF InOrder
    <3>5. result'[t] \in {"ok", "failed"} => ReceiverDropped(t)'
      BY <2>1, <3>1 DEF ClosedOnReturn, ReceiverDropped
    <3>6. QED
      BY <3>2, <3>4, <3>5
  <2>5. OnTrack'
    BY <2>3, <2>4 DEF OnTrack
  <2>6. (\A t \in Slot : InOrder(t))'
    BY <2>3, <2>4
  <2>7. NothingLost'
    BY <2>6 DEF NothingLost, InOrder
  <2>8. ClosedOnReturn'
    BY <2>3, <2>4 DEF ClosedOnReturn
  <2>9. QED
    BY <2>2, <2>5, <2>7, <2>8 DEF Inv
<1>3. QED
  BY <1>1, <1>2, NextIsAStep

THEOREM AlwaysInv == Spec => []Inv
<1>1. Inv /\ [Next]_vars => Inv'
  BY InvStep
<1>2. QED
  BY <1>1, InvInit, PTL DEF Spec

(* No frame is lost, doubled or out of order between the connection and    *)
(* the file, and no more is buffered than the channel holds.               *)
THEOREM FramesAreNotLost == Spec => []NothingLost
<1>1. Inv => NothingLost
  BY DEF Inv
<1>2. QED
  BY <1>1, AlwaysInv, PTL

(* The file is closed before the caller is told to unlink or rename it.    *)
THEOREM FileIsClosed == Spec => []ClosedOnReturn
<1>1. Inv => ClosedOnReturn
  BY DEF Inv
<1>2. QED
  BY <1>1, AlwaysInv, PTL

-----------------------------------------------------------------------------
(* Threads are taken one by one and only while there is one.               *)

LEMMA RunningStep ==
  ASSUME Inv, Cardinality(Running) <= Threads, [Next]_vars
  PROVE  Cardinality(Running') <= Threads
<1>1. IsFiniteSet(Running) /\ Cardinality(Running) \in Nat /\ Threads \in Nat
  BY PipelineAssumption, FS_Subset, FS_CardinalityType DEF Running
<1>2. CASE Running' \subseteq Running
  BY <1>1, <1>2, FS_Subset, FS_CardinalityType
<1>3. CASE \E s \in Slot : Running' = Running \cup {s} /\ Cardinality(Running) < Threads
  <2>1. PICK s \in Slot : Running' = Running \cup {s} /\ Cardinality(Running) < Threads
    BY <1>3
  <2>2. Cardinality(Running \cup {s}) =
          IF s \in Running THEN Cardinality(Running) ELSE Cardinality(Running) + 1
    BY <1>1, FS_AddElement, Zenon
  <2>3. Cardinality(Running) + 1 <= Threads
    BY <1>1, <2>1
  <2>4. Cardinality(Running \cup {s}) <= Threads
    BY <1>1, <2>1, <2>2, <2>3
  <2>5. QED
    BY <2>1, <2>4
<1>4. CASE UNCHANGED vars
  BY <1>2, <1>4 DEF vars, writing, Running
<1>5. ASSUME NEW s \in Slot, Step(s) PROVE Cardinality(Running') <= Threads
  <2>1. Types
    BY DEF Inv
  <2>2. CASE Start(s)
    <3>1. CASE thread' = [thread EXCEPT ![s] = "running"]
      <4>1. Running' = Running \cup {s}
        BY <2>1, <3>1 DEF Running, Types
      <4>2. QED
        BY <1>3, <2>2, <4>1 DEF Start, ThreadFor
    <3>2. CASE thread' = [thread EXCEPT ![s] = "failed"]
      BY <1>2, <2>1, <3>2 DEF Running, Types
    <3>3. QED
      BY <2>2, <3>1, <3>2 DEF Start, EndThread
  <2>3. CASE UNCHANGED thread
    BY <1>2, <2>3 DEF Running
  <2>4. CASE \E label \in {"queued", "ok", "failed"} : thread' = [thread EXCEPT ![s] = label]
    BY <1>2, <2>1, <2>4 DEF Running, Types
  <2>5. QED
    BY <1>5, <2>2, <2>3, <2>4
       DEF Step, writing, EndThread, Complete, Break, Begin, TakeFrame, Abandon, EndOfBody,
           ReceiveError, Send, SendFails, Join, Write, WriterFails, WriterEnds, Stat
<1>6. QED
  BY <1>4, <1>5, NextIsAStep

(* The types hold, and no more writers run than there are threads.         *)
THEOREM PipelineTypeCorrect == Spec => []TypeOK
<1>1. Init => Cardinality(Running) <= Threads
  <2>1. Init => Running = {}
    BY DEF Init, Running
  <2>2. Cardinality({}) = 0
    BY FS_EmptySet
  <2>3. 0 <= Threads
    BY PipelineAssumption
  <2>4. QED
    BY <2>1, <2>2, <2>3
<1>2. Inv /\ Cardinality(Running) <= Threads /\ [Next]_vars => (Cardinality(Running) <= Threads)'
  BY RunningStep
<1>3. Inv /\ Cardinality(Running) <= Threads => TypeOK
  BY DEF Inv, Types, TypeOK
<1>4. QED
  BY <1>1, <1>2, <1>3, AlwaysInv, PTL DEF Spec

-----------------------------------------------------------------------------
(* Each step is one of the abstract transfer's, or invisible to it.        *)

LEMMA TransferStep ==
  ASSUME Inv, NEW s \in Slot, Step(s)
  PROVE  Transfer!TransferNext \/ UNCHANGED Transfer!transferVars
<1> USE DEF handler, writing, Goto, EndReceive, EndThread, Transfer!transferVars
<1>1. /\ Types /\ ClosedOnReturn /\ WriterOnTrack(s) /\ HandlerOnTrack(s) /\ InOrder(s)
      /\ Body[s] \in Seq(Frame)
  BY NothingLostIsInOrder, BodyType DEF Inv, OnTrack
<1>2. ~ReceiverDropped(s) => Transfer!Growing(s)
  BY <1>1 DEF ClosedOnReturn, Types, Transfer!Growing
<1>3. CASE UNCHANGED <<file, result>>
  BY <1>3
<1>4. CASE Start(s)
  <2>1. CASE file' = [file EXCEPT ![s] = << >>] /\ UNCHANGED result
    <3>1. Transfer!Create(s)
      BY <1>1, <1>2, <1>4, <2>1 DEF Transfer!Create, Start, WriterOnTrack, ReceiverDropped
    <3>2. QED
      BY <3>1 DEF Transfer!TransferNext
  <2>2. QED
    BY <1>3, <1>4, <2>1 DEF Start
<1>5. CASE Write(s)
  <2>1. /\ file[s] \in Seq(Frame) /\ file[s] # None /\ Written(s) = file[s]
        /\ channel[s] \in Seq(Frame) /\ channel[s] # << >>
    BY <1>1, <1>5 DEF Write, WriterOnTrack, Written, Types
  <2>2. 1 \in 1 .. Len(channel[s]) /\ Head(channel[s]) = channel[s][1]
    BY <2>1
  <2>3. /\ Len(file[s]) + 1 <= Len(Body[s])
        /\ Head(channel[s]) = Body[s][Len(file[s]) + 1]
    BY <1>1, <2>1, <2>2 DEF InOrder
  <2>4. Len(file[s]) < Len(Body[s])
    BY <1>1, <2>1, <2>3
  <2>5. /\ file' = [file EXCEPT ![s] = Append(file[s], Head(channel[s]))]
        /\ UNCHANGED result /\ Transfer!Growing(s)
    BY <1>2, <1>5 DEF Write, ReceiverDropped
  <2>6. Transfer!Grow(s)
    BY <2>1, <2>3, <2>4, <2>5 DEF Transfer!Grow
  <2>7. QED
    BY <2>6 DEF Transfer!TransferNext
<1>6. CASE Abandon(s)
  <2>1. Transfer!Settle(s, "abandoned")
    BY <1>1, <1>6 DEF Transfer!Settle, Abandon, Return, HandlerOnTrack
  <2>2. QED
    BY <2>1 DEF Transfer!TransferNext
<1>7. CASE Join(s)
  <2>1. CASE JoinFailed(s)
    <3>1. Transfer!Settle(s, "failed")
      BY <1>1, <1>7, <2>1 DEF Transfer!Settle, Join, Return, HandlerOnTrack
    <3>2. QED
      BY <3>1 DEF Transfer!TransferNext
  <2>2. QED
    BY <1>3, <1>7, <2>1 DEF Join
<1>8. CASE Stat(s)
  <2>1. CASE recv[s] = "over"
    BY <1>3, <1>8, <2>1 DEF Stat
  <2>2. CASE recv[s] # "over"
    <3>1. /\ recv[s] = "stat" /\ result[s] = "open" /\ UNCHANGED file
          /\ thread[s] = "ok" /\ received[s] = "ok"
      BY <1>1, <1>8, <2>2 DEF Stat, HandlerOnTrack, Types
    <3>2. /\ file[s] \in Seq(Frame) /\ Written(s) = file[s] /\ channel[s] = << >>
          /\ taken[s] = Len(Body[s]) /\ Held(s) = 0
      BY <1>1, <3>1 DEF WriterOnTrack, HandlerOnTrack, Types, Written, Held
    <3>3. Len(file[s]) = Len(Body[s]) /\ \A i \in 1 .. Len(file[s]) : file[s][i] = Body[s][i]
      BY <1>1, <3>1, <3>2 DEF InOrder
    <3>4. file[s] = Body[s]
      BY <1>1, <3>2, <3>3
    <3>5. CASE result' = [result EXCEPT ![s] = "ok"]
      BY <3>1, <3>4, <3>5 DEF Transfer!Succeed, Transfer!Settle, Transfer!TransferNext
    <3>6. CASE result' = [result EXCEPT ![s] = "failed"]
      BY <3>1, <3>6 DEF Transfer!Settle, Transfer!TransferNext
    <3>7. QED
      BY <1>8, <2>2, <3>5, <3>6 DEF Stat, Return
  <2>3. QED
    BY <2>1, <2>2
<1>9. QED
  BY <1>3, <1>4, <1>5, <1>6, <1>7, <1>8
     DEF Step, Complete, Break, Begin, TakeFrame, EndOfBody, ReceiveError, Send, SendFails,
         WriterFails, WriterEnds

(* The pipeline is the transfer the handlers rely on.                      *)
THEOREM PipelineTransfers == Spec => ImplementsBodyTransfer
<1>1. Init => Transfer!TransferInit
  BY DEF Init, Transfer!TransferInit
<1>2. Inv /\ [Next]_vars => [Transfer!TransferNext]_Transfer!transferVars
  <2>1. CASE UNCHANGED vars
    BY <2>1 DEF vars, handler, writing, Transfer!transferVars
  <2>2. CASE Inv /\ Next
    BY <2>2, NextIsAStep, TransferStep
  <2>3. QED
    BY <2>1, <2>2
<1>3. QED
  BY <1>1, <1>2, AlwaysInv, PTL DEF Spec, ImplementsBodyTransfer, Transfer!TransferSpec
=============================================================================
