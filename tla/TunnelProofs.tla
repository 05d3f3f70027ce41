---------------------------- MODULE TunnelProofs ----------------------------
(***************************************************************************)
(* Proofs about Tunnel, for any number of streams and chunks and any       *)
(* capacity of the relay.                                                  *)
(***************************************************************************)
EXTENDS Tunnel, SequenceTheorems, TLAPS

-----------------------------------------------------------------------------
(***************************************************************************)
(* The parts of the inductive invariant, besides the types.                *)
(***************************************************************************)

\* How far the two goroutines of a stream are, and what follows for the other one:
\* each waits for a message the other has sent.
ConnectorPhases == {"idle", "track", "open", "wait"} \cup PumpPhases
ListenerPhases  == {"idle", "dial", "refuse", "attach", "drain"} \cup PumpPhases
Asked(s)    == pc["connector"][s] \in {"wait"} \cup PumpPhases
Answered(s) == pc["listener"][s] \in PumpPhases

PhaseInv ==
    \A s \in Streams :
        /\ pc["connector"][s] \in ConnectorPhases
        /\ pc["listener"][s] \in ListenerPhases
        /\ pc["listener"][s] # "idle" => Asked(s)
        /\ \/ pc["connector"][s] \in PumpPhases \ {"done"}
           \/ sent["connector"][s] > 0
           \/ ackCh[s] = "yes"
           => Answered(s)
        /\ sent["listener"][s] > 0 => pc["listener"][s] # "idle"
        /\ \A X \in Sides : pc[X][s] = "send" => sent[X][s] < MaxChunks[X]
        /\ buf[s] = <<>>

\* What a message to side X says of the side that sent it.
Truthful(X, m) ==
    /\ m.type # "Disconnect" => m.stream \in Streams
    /\ m.type = "OpenStream" => X = "listener" /\ Asked(m.stream)
    /\ m.type = "OpenStreamAck" => X = "connector" /\ Answered(m.stream)
    /\ m.type = "OpenStreamNack" => X = "connector"
    /\ m.type = "Data" => m.chunk \in 1..sent[Peer(X)][m.stream]

MessageInv ==
    \A X \in Sides :
        /\ \A i \in 1..Len(queue[X]) : Truthful(X, queue[X][i])
        /\ current[X] # NoMessage => Truthful(X, current[X])
        /\ handler[X] \in {"dispatch", "write"} <=> current[X] # NoMessage
        /\ handler[X] = "write" => current[X].type = "Data"

\* A stream is pending until its answer is in ackCh.
PendingInv ==
    \A s \in Streams :
        /\ s \in pendingStreams => pc["connector"][s] \in {"open", "wait"}
        /\ ackCh[s] # "empty" => /\ s \notin pendingStreams
                                 /\ pc["connector"][s] \in {"open", "wait", "done"}

\* brokerConn is closed before the sweep; what the connector tracks after it has
\* not been told the listener yet, and never will.
SweepInv ==
    /\ \A X \in Sides : link[X] = "down" <=> closing[X] \in {"sweep", "closed"}
    /\ closing["connector"] = "closed" =>
           \A s \in streams["connector"] : pc["connector"][s] = "open"

\* An open connection is in the map, or in the hands of a goroutine that is about
\* to put it there or to close it.
ConnInv ==
    \A X \in Sides, s \in Streams : conn[X][s] = "open" =>
        /\ \/ s \in streams[X] /\ pc[X][s] \notin {"idle", "dial", "refuse"}
           \/ pc[X][s] \in {"track", "attach"}
        /\ pc[X][s] = "done" => Closing(X)

(***************************************************************************)
(* The chunks of stream s on their way to side X: the one handleMessages   *)
(* has in hand, then those in the queue.  As long as the stream can still  *)
(* get into the map or is in it, they go on without a gap where the last   *)
(* write ended; and as long as nothing is lost, up to the last one sent.   *)
(***************************************************************************)
IsData(m, s) == m.type = "Data" /\ m.stream = s
DataIn(q, s) == {i \in 1..Len(q) : IsData(q[i], s)}

\* The chunks of stream s in q go on from chunk n without a gap.
Flows(q, s, n) ==
    /\ \A j \in DataIn(q, s) :
          (\A i \in DataIn(q, s) : j <= i) => q[j].chunk = n + 1
    /\ \A i, j \in DataIn(q, s) :
          i < j /\ (\A k \in DataIn(q, s) : k <= i \/ j <= k) => q[j].chunk = q[i].chunk + 1

\* After them, the stream has come from chunk n to chunk last.
Reaches(q, s, n, last) ==
    /\ DataIn(q, s) = {} => n = last
    /\ \A j \in DataIn(q, s) :
          (\A i \in DataIn(q, s) : i <= j) => q[j].chunk = last

Live(X, s)   == s \in streams[X] \/ pc[X][s] \in {"idle", "track"}
InHand(X, s) == IF IsData(current[X], s) THEN current[X].chunk ELSE Len(out[X][s])

WrittenInv(X, s) ==
    /\ Len(out[X][s]) <= sent[Peer(X)][s]
    /\ \A i \in 1..Len(out[X][s]) : out[X][s][i] = i
    /\ handler[X] = "write" /\ current[X].stream = s =>
           current[X].chunk = Len(out[X][s]) + 1

FlowInv(X, s) ==
    /\ IsData(current[X], s) => current[X].chunk = Len(out[X][s]) + 1
    /\ Flows(queue[X], s, InHand(X, s))

ReachInv(X, s) == Reaches(queue[X], s, InHand(X, s), sent[Peer(X)][s])

OrderInv ==
    \A X \in Sides, s \in Streams :
        /\ WrittenInv(X, s)
        /\ Live(X, s) => FlowInv(X, s)
        /\ Live(X, s) /\ relay /\ link[X] = "up" => ReachInv(X, s)

IInv ==
    /\ TypeOK
    /\ PhaseInv
    /\ MessageInv
    /\ PendingInv
    /\ SweepInv
    /\ ConnInv
    /\ OrderInv

-----------------------------------------------------------------------------
(***************************************************************************)
(* Frames: which actions change what.                                      *)
(***************************************************************************)

\* There are two sides, and each is the peer of the other.
LEMMA SideFacts ==
    /\ "connector" \in Sides /\ "listener" \in Sides
    /\ Peer("connector") = "listener" /\ Peer("listener") = "connector"
    /\ \A X \in Sides : Peer(X) \in Sides /\ Peer(X) # X /\ Peer(Peer(X)) = X
    /\ \A X, Y \in Sides : X = Y \/ X = Peer(Y)
BY DEF Sides, Peer

\* The messages that are sent.
LEMMA MessageFacts ==
    /\ NoMessage \notin Messages
    /\ NoMessage.type = "none"
    /\ Disconnect \in Messages
    /\ \A s \in Streams :
          /\ \A type \in {"OpenStream", "OpenStreamAck", "OpenStreamNack", "CloseStream"} :
                Message(type, s, 0) \in Messages
          /\ \A n \in Nat : Message("Data", s, n) \in Messages
BY MaxStreamsAssumption DEF NoMessage, Messages, Message, Disconnect, Streams

\* How the queue to a side changes: Receive takes its head, brokerConn.Close drops
\* it, and a Send of the other side appends a message, if anybody relays it.
Appends(X, m) ==
    /\ relay /\ link[X] = "up" /\ Len(queue[X]) < QueueCap
    /\ queue' = [queue EXCEPT ![X] = Append(queue[X], m)]
    /\ UNCHANGED <<relay, link>>

\* A Send whose error is ignored changes nothing or appends its message.
LEMMA SendFrame ==
    ASSUME NEW X \in Sides, NEW m, BestEffortSend(X, m)
    PROVE  UNCHANGED relayVars \/ Appends(Peer(X), m)
BY DEF BestEffortSend, SendOK, SendError, Appends, relayVars

\* The steps of a stream's goroutine that send nothing.
Silent(s) ==
    \/ TrackStream(s) \/ OpenStreamFails(s) \/ StreamAccepted(s) \/ StreamRefused(s)
    \/ AckTimeout(s) \/ WaitInterrupted(s) \/ DialOK(s) \/ DialFails(s) \/ Attach(s)
    \/ AttachTooLate(s) \/ DrainWrite(s) \/ DrainFails(s)
    \/ \E X \in Sides : PumpCheck(X, s) \/ PumpRead(X, s) \/ PumpSendFails(X, s)
                        \/ RemoveStream(X, s)

\* The steps of a stream's goroutine that send something.
Sends(s) ==
    \/ SendOpenStream(s) \/ SendOpenStreamNack(s) \/ SendOpenStreamAck(s)
    \/ \E X \in Sides : PumpSend(X, s) \/ PumpEnd(X, s)

\* Every step is one of these.
LEMMA StepCases ==
    ASSUME [Next]_vars
    PROVE  \/ UNCHANGED vars
           \/ AcceptLocal
           \/ \E s \in Streams : Silent(s) \/ Sends(s)
           \/ \E X \in Sides : HandlerRuns(X) \/ ApplicationTakes(X)
           \/ \E X \in Sides : CloseBegins(X) \/ CloseRuns(X)
           \/ BrokerEnds
BY DEF Next, StreamRuns, ApplicationActs, Silent, Sends, Terminated

-----------------------------------------------------------------------------
(***************************************************************************)
(* One lemma for each part: every step preserves it.                       *)
(***************************************************************************)

\* TypeOK, one part for each group of variables.
RelayTypes ==
    /\ relay \in BOOLEAN
    /\ link \in [Sides -> {"up", "down"}]
    /\ queue \in [Sides -> Seq(Messages)]
    /\ \A X \in Sides : Len(queue[X]) <= QueueCap
HandleTypes ==
    /\ handler \in [Sides -> {"check", "receive", "dispatch", "write", "close", "done"}]
    /\ current \in [Sides -> Messages \cup {NoMessage}]
ClosingTypes == closing \in [Sides -> ClosePhases]
MapTypes ==
    /\ streams \in [Sides -> SUBSET Streams]
    /\ conn \in [Sides -> [Streams -> {"none", "open", "left", "closed"}]]
PcTypes == pc \in [Sides -> [Streams -> OpenPhases \cup PumpPhases]]
BufTypes == buf \in [Streams -> Seq(Nat)]
OpenTypes ==
    /\ nextStreamID \in 0..MaxStreams
    /\ pendingStreams \in SUBSET Streams
    /\ ackCh \in [Streams -> {"empty", "yes", "no"}]
DataTypes ==
    /\ sent \in [Sides -> [Streams -> Nat]]
    /\ \A X \in Sides, s \in Streams : sent[X][s] <= MaxChunks[X]
    /\ out \in [Sides -> [Streams -> Seq(Nat)]]

\* The type invariant by groups of variables.
LEMMA TypeParts ==
    TypeOK <=> /\ RelayTypes /\ HandleTypes /\ ClosingTypes /\ MapTypes /\ PcTypes
               /\ BufTypes /\ OpenTypes /\ DataTypes
BY DEF TypeOK, RelayTypes, HandleTypes, ClosingTypes, MapTypes, PcTypes, BufTypes, OpenTypes,
       DataTypes

\* The same of the next state.
LEMMA TypePartsNext ==
    TypeOK' <=> /\ RelayTypes' /\ HandleTypes' /\ ClosingTypes' /\ MapTypes' /\ PcTypes'
                /\ BufTypes' /\ OpenTypes' /\ DataTypes'
BY DEF TypeOK, RelayTypes, HandleTypes, ClosingTypes, MapTypes, PcTypes, BufTypes, OpenTypes,
       DataTypes

\* What does not change keeps its type.
LEMMA TypesKept ==
    ASSUME TypeOK
    PROVE  /\ UNCHANGED relayVars => RelayTypes'
           /\ UNCHANGED <<relay, link, queue>> => RelayTypes'
           /\ UNCHANGED handleVars => HandleTypes'
           /\ UNCHANGED closing => ClosingTypes'
           /\ UNCHANGED <<streams, conn>> => MapTypes'
           /\ UNCHANGED pc => PcTypes'
           /\ UNCHANGED buf => BufTypes'
           /\ UNCHANGED localVars => MapTypes' /\ PcTypes' /\ BufTypes'
           /\ UNCHANGED openVars => OpenTypes'
           /\ UNCHANGED dataVars => DataTypes'
BY DEF TypeOK, RelayTypes, HandleTypes, ClosingTypes, MapTypes, PcTypes, BufTypes, OpenTypes,
       DataTypes, relayVars, handleVars, localVars, openVars, dataVars

\* The updates of the maps and of the program counters keep the types.
LEMMA UpdateTypes ==
    ASSUME TypeOK, NEW X \in Sides, NEW s \in Streams
    PROVE  /\ \A from, to \in OpenPhases \cup PumpPhases : Goto(X, s, from, to) => PcTypes'
           /\ \A v \in {"none", "open", "left", "closed"} :
                 conn' = [conn EXCEPT ![X][s] = v] =>
                     conn' \in [Sides -> [Streams -> {"none", "open", "left", "closed"}]]
           /\ CloseStream(X, s) => MapTypes'
           /\ CloseLocal(X, s) => MapTypes'
<1> USE DEF TypeOK
<1>1. \A from, to \in OpenPhases \cup PumpPhases : Goto(X, s, from, to) => PcTypes'
  BY DEF Goto, PcTypes
<1>2. \A v \in {"none", "open", "left", "closed"} :
          conn' = [conn EXCEPT ![X][s] = v] =>
              conn' \in [Sides -> [Streams -> {"none", "open", "left", "closed"}]]
  OBVIOUS
<1>3. [streams EXCEPT ![X] = @ \ {s}] \in [Sides -> SUBSET Streams]
  OBVIOUS
<1> QED
  BY <1>1, <1>2, <1>3 DEF CloseStream, CloseLocal, MapTypes

\* A Send keeps the bound of the queue.
LEMMA SendTypes ==
    ASSUME TypeOK, NEW X \in Sides, NEW m \in Messages, BestEffortSend(X, m)
    PROVE  RelayTypes'
<1> USE DEF TypeOK, RelayTypes
<1>1. CASE UNCHANGED relayVars
  BY <1>1 DEF relayVars
<1>2. CASE Appends(Peer(X), m)
  <2>1. PICK Y \in Sides : Y = Peer(X)
    BY SideFacts
  <2>2. /\ Append(queue[Y], m) \in Seq(Messages)
        /\ Len(Append(queue[Y], m)) = Len(queue[Y]) + 1
        /\ Len(queue[Y]) \in Nat
    BY AppendProperties, LenProperties
  <2> QED
    BY <1>2, <2>1, <2>2, QueueCapAssumption DEF Appends
<1> QED
  BY <1>1, <1>2, SendFrame

\* Every step keeps the types; in particular nobody writes to a full queue.
LEMMA TypeOKStep ==
    ASSUME TypeOK, PhaseInv, MessageInv, [Next]_vars
    PROVE  TypeOK'
<1> USE SideFacts, TypeParts, TypePartsNext, TypesKept
<1> DEFINE Phases == OpenPhases \cup PumpPhases
<1>p. /\ {"idle", "track", "open", "wait", "dial", "refuse", "attach", "drain"} \subseteq Phases
      /\ {"check", "read", "send", "remove", "done"} \subseteq Phases
  BY DEF OpenPhases, PumpPhases
<1>1. CASE UNCHANGED vars
  BY <1>1 DEF vars
<1>2. CASE AcceptLocal
  <2>1. nextStreamID' \in 1..MaxStreams
    BY <1>2, MaxStreamsAssumption DEF AcceptLocal, OpenTypes
  <2>2. nextStreamID' \in Streams
    BY <2>1 DEF Streams
  <2>3. PcTypes' /\ MapTypes'
    BY <1>2, <1>p, <2>2, UpdateTypes DEF AcceptLocal, MapTypes
  <2>4. OpenTypes'
    BY <1>2, <2>1, MaxStreamsAssumption DEF AcceptLocal, OpenTypes
  <2> QED
    BY <1>2, <2>3, <2>4 DEF AcceptLocal
<1>3. ASSUME NEW s \in Streams, Silent(s)
      PROVE  TypeOK'
  <2>1. CASE TrackStream(s)
    <3>1. PcTypes'
      BY <1>p, <2>1, UpdateTypes DEF TrackStream
    <3>2. MapTypes' /\ OpenTypes'
      BY <2>1 DEF TrackStream, MapTypes, OpenTypes
    <3> QED
      BY <2>1, <3>1, <3>2 DEF TrackStream
  <2>2. CASE OpenStreamFails(s)
    <3>1. PcTypes' /\ MapTypes'
      BY <1>p, <2>2, UpdateTypes DEF OpenStreamFails, GiveUp
    <3>2. OpenTypes'
      BY <2>2 DEF OpenStreamFails, GiveUp, OpenTypes
    <3> QED
      BY <2>2, <3>1, <3>2 DEF OpenStreamFails, SendError, GiveUp
  <2>3. CASE StreamAccepted(s)
    <3>1. PcTypes'
      BY <1>p, <2>3, UpdateTypes DEF StreamAccepted
    <3>2. OpenTypes'
      BY <2>3 DEF StreamAccepted, OpenTypes
    <3> QED
      BY <2>3, <3>1, <3>2 DEF StreamAccepted
  <2>4. CASE StreamRefused(s)
    <3>1. PcTypes' /\ MapTypes'
      BY <1>p, <2>4, UpdateTypes DEF StreamRefused
    <3>2. OpenTypes'
      BY <2>4 DEF StreamRefused, OpenTypes
    <3> QED
      BY <2>4, <3>1, <3>2 DEF StreamRefused
  <2>5. CASE AckTimeout(s) \/ WaitInterrupted(s)
    <3>1. PcTypes' /\ MapTypes'
      BY <1>p, <2>5, UpdateTypes DEF AckTimeout, WaitInterrupted, GiveUp
    <3>2. OpenTypes'
      BY <2>5 DEF AckTimeout, WaitInterrupted, GiveUp, OpenTypes
    <3> QED
      BY <2>5, <3>1, <3>2 DEF AckTimeout, WaitInterrupted, GiveUp
  <2>6. CASE DialOK(s) \/ DialFails(s) \/ Attach(s) \/ AttachTooLate(s)
    <3>1. PcTypes'
      BY <1>p, <2>6, UpdateTypes DEF DialOK, DialFails, Attach, AttachTooLate
    <3>2. MapTypes'
      BY <2>6, UpdateTypes DEF DialOK, DialFails, Attach, AttachTooLate, MapTypes
    <3> QED
      BY <2>6, <3>1, <3>2 DEF DialOK, DialFails, Attach, AttachTooLate
  <2>7. CASE DrainWrite(s) \/ DrainFails(s)
    BY <2>7 DEF DrainWrite, DrainFails, PhaseInv
  <2>8. ASSUME NEW X \in Sides, PumpCheck(X, s) \/ PumpRead(X, s)
        PROVE  TypeOK'
    <3>1. PcTypes'
      BY <1>p, <2>8, UpdateTypes DEF PumpCheck, PumpRead
    <3> QED
      BY <2>8, <3>1 DEF PumpCheck, PumpRead
  <2>9. ASSUME NEW X \in Sides, PumpSendFails(X, s)
        PROVE  TypeOK'
    <3>1. PcTypes' /\ MapTypes'
      BY <1>p, <2>9, UpdateTypes DEF PumpSendFails
    <3> QED
      BY <2>9, <3>1 DEF PumpSendFails, SendError
  <2>10. ASSUME NEW X \in Sides, RemoveStream(X, s)
         PROVE  TypeOK'
    <3>1. PcTypes'
      BY <1>p, <2>10, UpdateTypes DEF RemoveStream
    <3>2. MapTypes'
      BY <2>10 DEF RemoveStream, MapTypes
    <3> QED
      BY <2>10, <3>1, <3>2 DEF RemoveStream
  <2> QED
    BY <1>3, <2>1, <2>2, <2>3, <2>4, <2>5, <2>6, <2>7, <2>8, <2>9, <2>10 DEF Silent
<1>4. ASSUME NEW s \in Streams, Sends(s)
      PROVE  TypeOK'
  <2> USE MessageFacts, UpdateTypes
  <2>1. CASE SendOpenStream(s)
    <3>1. RelayTypes'
      BY <2>1, SendTypes DEF SendOpenStream, BestEffortSend
    <3> QED
      BY <1>p, <2>1, <3>1 DEF SendOpenStream
  <2>2. CASE SendOpenStreamNack(s)
    <3>1. RelayTypes'
      BY <2>2, SendTypes DEF SendOpenStreamNack
    <3> QED
      BY <1>p, <2>2, <3>1 DEF SendOpenStreamNack
  <2>3. CASE SendOpenStreamAck(s)
    <3>1. RelayTypes'
      BY <2>3, SendTypes DEF SendOpenStreamAck
    <3> QED
      BY <1>p, <2>3, <3>1 DEF SendOpenStreamAck
  <2>4. ASSUME NEW X \in Sides, PumpSend(X, s)
        PROVE  TypeOK'
    <3>1. PICK n \in Nat : n = sent[X][s] + 1
      BY SMTT(30) DEF DataTypes
    <3>2. RelayTypes'
      BY <2>4, <3>1, SendTypes DEF PumpSend, BestEffortSend
    <3>3. n <= MaxChunks[X]
      <4>1. pc[X][s] = "send"
        BY <2>4 DEF PumpSend, Goto
      <4>2. sent[X][s] < MaxChunks[X]
        BY <4>1 DEF PhaseInv
      <4>3. sent[X][s] \in Nat /\ MaxChunks[X] \in Nat
        BY MaxChunksAssumption DEF DataTypes
      <4> QED
        BY <3>1, <4>2, <4>3
    <3>4. DataTypes'
      <4>1. sent' = [sent EXCEPT ![X][s] = n] /\ out' = out
        BY <2>4, <3>1 DEF PumpSend
      <4>2. sent \in [Sides -> [Streams -> Nat]]
        BY DEF DataTypes
      <4>3. sent' \in [Sides -> [Streams -> Nat]]
        BY <4>1, <4>2
      <4>4. \A Y \in Sides, r \in Streams :
               sent'[Y][r] = IF Y = X /\ r = s THEN n ELSE sent[Y][r]
        BY <4>1, <4>2
      <4> QED
        BY <3>3, <4>1, <4>3, <4>4, ZenonT(60) DEF DataTypes
    <3> QED
      BY <1>p, <2>4, <3>2, <3>4 DEF PumpSend
  <2>5. ASSUME NEW X \in Sides, PumpEnd(X, s)
        PROVE  TypeOK'
    <3>1. RelayTypes'
      BY <2>5, SendTypes DEF PumpEnd
    <3> QED
      BY <1>p, <2>5, <3>1 DEF PumpEnd
  <2> QED
    BY <1>4, <2>1, <2>2, <2>3, <2>4, <2>5 DEF Sends
<1>5. ASSUME NEW X \in Sides, HandlerRuns(X) \/ ApplicationTakes(X)
      PROVE  TypeOK'
  <2>1. CASE HandlerCheck(X) \/ ReceiveFails(X) \/ HandlerExit(X)
    <3>1. HandleTypes'
      BY <2>1 DEF HandlerCheck, ReceiveFails, HandlerExit, HandleTypes
    <3> QED
      BY <2>1, <3>1 DEF HandlerCheck, ReceiveFails, HandlerExit
  <2>2. CASE Receive(X)
    <3>1. queue[X] \in Seq(Messages) /\ queue[X] # <<>> /\ Len(queue[X]) <= QueueCap
      BY <2>2 DEF Receive, RelayTypes
    <3>2. /\ Head(queue[X]) \in Messages
          /\ Tail(queue[X]) \in Seq(Messages)
          /\ Len(Tail(queue[X])) <= QueueCap
      BY <3>1, HeadTailProperties, LenProperties, QueueCapAssumption
    <3>3. RelayTypes' /\ HandleTypes'
      BY <2>2, <3>2 DEF Receive, RelayTypes, HandleTypes
    <3> QED
      BY <2>2, <3>3 DEF Receive
  <2>3. ASSUME NEW type, NEW to \in {"check", "write", "close"}, Handles(X, type, to)
        PROVE  RelayTypes' /\ HandleTypes' /\ ClosingTypes'
    BY <2>3 DEF Handles, HandleTypes
  <2>4. ASSUME current[X].type \notin {"Disconnect", "none"}, current[X] # NoMessage
        PROVE  current[X].stream \in Streams
    BY <2>4 DEF MessageInv, Truthful
  <2>5. CASE HandleOpenStream(X)
    <3>1. PICK s \in Streams : s = current[X].stream
      BY <2>4, <2>5 DEF HandleOpenStream, Handles, MessageInv
    <3>2. PcTypes'
      BY <1>p, <2>5, <3>1, UpdateTypes DEF HandleOpenStream
    <3>3. MapTypes' /\ BufTypes'
      BY <2>5, <3>1 DEF HandleOpenStream, MapTypes, BufTypes
    <3> QED
      BY <2>3, <2>5, <3>2, <3>3 DEF HandleOpenStream
  <2>6. CASE HandleOpenStreamAck(X)
    <3>1. PICK s \in Streams : s = current[X].stream
      BY <2>4, <2>6 DEF HandleOpenStreamAck, Handles, MessageInv
    <3>2. OpenTypes'
      BY <2>6, <3>1 DEF HandleOpenStreamAck, OpenTypes
    <3> QED
      BY <2>3, <2>6, <3>2 DEF HandleOpenStreamAck
  <2>7. CASE HandleData(X)
    <3>1. PICK s \in Streams : s = current[X].stream
      BY <2>4, <2>7 DEF HandleData, Handles, MessageInv
    <3>2. current[X].chunk \in Nat
      BY <2>7, MessageFacts DEF HandleData, Handles, HandleTypes, MessageInv, Messages
    <3>3. BufTypes'
      BY <2>7, <3>1, <3>2, AppendProperties DEF HandleData, BufTypes
    <3> QED
      BY <2>3, <2>7, <3>3 DEF HandleData
  <2>8. CASE WriteFails(X) \/ WriteData(X)
    <3>1. current[X] # NoMessage /\ current[X].type = "Data"
      BY <2>8 DEF WriteFails, WriteData, InWrite, MessageInv
    <3>2. PICK s \in Streams : s = current[X].stream
      BY <2>4, <3>1
    <3>3. current[X].chunk \in Nat
      BY <3>1 DEF HandleTypes, Messages
    <3>4. HandleTypes'
      BY <2>8 DEF WriteFails, WriteData, HandleTypes
    <3>5. CASE WriteFails(X)
      BY <3>2, <3>4, <3>5, UpdateTypes DEF WriteFails
    <3>6. CASE WriteData(X)
      <4>1. DataTypes'
        BY <3>2, <3>3, <3>6, AppendProperties DEF WriteData, WriteLocal, DataTypes
      <4> QED
        BY <3>4, <3>6, <4>1 DEF WriteData
    <3> QED
      BY <2>8, <3>5, <3>6
  <2>9. CASE HandleCloseStream(X)
    <3>1. PICK s \in Streams : s = current[X].stream
      BY <2>4, <2>9 DEF HandleCloseStream, Handles, MessageInv
    <3>2. MapTypes'
      BY <2>9, <3>1, UpdateTypes DEF HandleCloseStream
    <3> QED
      BY <2>3, <2>9, <3>2 DEF HandleCloseStream
  <2>10. CASE HandleDisconnect(X)
    BY <2>3, <2>10 DEF HandleDisconnect
  <2> QED
    BY <1>5, <2>1, <2>2, <2>5, <2>6, <2>7, <2>8, <2>9, <2>10 DEF HandlerRuns,
       ApplicationTakes
<1>6. ASSUME NEW X \in Sides, CloseBegins(X) \/ CloseRuns(X)
      PROVE  TypeOK'
  <2>1. ClosingTypes'
    BY <1>6 DEF CloseBegins, CloseRuns, CloseDisconnect, CloseHangUp, CloseSweep, CloseStage,
                ClosingTypes, ClosePhases
  <2>2. CASE CloseBegins(X)
    BY <2>1, <2>2 DEF CloseBegins
  <2>3. CASE CloseDisconnect(X)
    <3>1. RelayTypes'
      BY <2>3, SendTypes, MessageFacts DEF CloseDisconnect
    <3> QED
      BY <2>1, <2>3, <3>1 DEF CloseDisconnect
  <2>4. CASE CloseSweep(X)
    <3>1. MapTypes'
      BY <2>4 DEF CloseSweep, MapTypes
    <3> QED
      BY <2>1, <2>4, <3>1 DEF CloseSweep
  <2>5. CASE CloseHangUp(X)
    <3>1. <<>> \in Seq(Messages) /\ Len(<<>>) = 0
      BY EmptySeq
    <3>2. RelayTypes'
      BY <2>5, <3>1, QueueCapAssumption DEF CloseHangUp, RelayTypes
    <3> QED
      BY <2>1, <2>5, <3>2 DEF CloseHangUp
  <2> QED
    BY <1>6, <2>2, <2>3, <2>4, <2>5 DEF CloseRuns
<1>7. CASE BrokerEnds
  <2>1. RelayTypes'
    BY <1>7 DEF BrokerEnds, RelayTypes
  <2> QED
    BY <1>7, <2>1 DEF BrokerEnds
<1> QED
  BY <1>1, <1>2, <1>3, <1>4, <1>5, <1>6, <1>7, StepCases

-----------------------------------------------------------------------------
(***************************************************************************)
(* How a stream's goroutines, and what they share, move on.                *)
(***************************************************************************)

\* The operations of the goroutine of a stream, in their order.
Moves(X) ==
    {<<"check", "read">>, <<"check", "done">>, <<"read", "send">>, <<"send", "check">>,
     <<"send", "done">>, <<"read", "remove">>, <<"remove", "done">>}
    \cup IF X = "connector"
         THEN {<<"idle", "track">>, <<"track", "open">>, <<"open", "wait">>,
               <<"open", "done">>, <<"wait", "check">>, <<"wait", "done">>}
         ELSE {<<"idle", "dial">>, <<"dial", "attach">>, <<"dial", "refuse">>,
               <<"refuse", "done">>, <<"attach", "drain">>, <<"attach", "done">>,
               <<"drain", "check">>}

\* A goroutine that goes on leaves all the others where they are.
LEMMA GotoEffect ==
    ASSUME TypeOK, NEW Y \in Sides, NEW r \in Streams, NEW from, NEW to,
           Goto(Y, r, from, to), NEW X \in Sides, NEW s \in Streams
    PROVE  /\ pc'[X][s] = IF X = Y /\ s = r THEN to ELSE pc[X][s]
           /\ X = Y /\ s = r => pc[X][s] = from
BY DEF TypeOK, Goto

\* A message in hand is about a stream, and comes from the other side.
LEMMA HandlesFacts ==
    ASSUME TypeOK, MessageInv, NEW X \in Sides, NEW type, NEW to,
           Handles(X, type, to)
    PROVE  /\ current[X] # NoMessage /\ current[X].type = type
           /\ Truthful(X, current[X])
           /\ type # "Disconnect" => current[X].stream \in Streams
<1>1. current[X] # NoMessage /\ current[X].type = type
  BY DEF Handles, MessageInv
<1> QED
  BY <1>1 DEF MessageInv, Truthful

\* Every step leaves the goroutine of a stream where it is, or is one of the Moves.
\* It starts the pump only when the listener has agreed, dials only when it was
\* asked to, and sends only what it has read.
LEMMA PcFrame ==
    ASSUME TypeOK, PhaseInv, MessageInv, [Next]_vars, NEW X \in Sides, NEW s \in Streams
    PROVE  /\ \/ pc'[X][s] = pc[X][s]
              \/ <<pc[X][s], pc'[X][s]>> \in Moves(X)
           /\ pc[X][s] = "wait" /\ pc'[X][s] = "check" => ackCh[s] = "yes"
           /\ pc[X][s] = "idle" /\ pc'[X][s] = "dial" => Asked(s)
           /\ pc[X][s] = "read" /\ pc'[X][s] = "send" =>
                  sent[X][s] < MaxChunks[X] /\ sent' = sent
<1> DEFINE Goal == /\ \/ pc'[X][s] = pc[X][s]
                      \/ <<pc[X][s], pc'[X][s]>> \in Moves(X)
                   /\ pc[X][s] = "wait" /\ pc'[X][s] = "check" => ackCh[s] = "yes"
                   /\ pc[X][s] = "idle" /\ pc'[X][s] = "dial" => Asked(s)
                   /\ pc[X][s] = "read" /\ pc'[X][s] = "send" =>
                          sent[X][s] < MaxChunks[X] /\ sent' = sent
<1>p. ASSUME pc' = pc
      PROVE  Goal
  BY <1>p
<1>1. CASE UNCHANGED vars \/ BrokerEnds
  BY <1>p, <1>1 DEF vars, localVars, BrokerEnds
<1>2. CASE AcceptLocal
  <2>1. PICK r \in Streams : r = nextStreamID'
    BY <1>2, MaxStreamsAssumption DEF AcceptLocal, TypeOK, Streams
  <2>2. Goto("connector", r, "idle", "track")
    BY <1>2, <2>1 DEF AcceptLocal
  <2> QED
    BY <2>2, GotoEffect, SideFacts DEF Moves
<1>3. ASSUME NEW r \in Streams, Silent(r)
      PROVE  Goal
  <2>1. CASE \/ TrackStream(r) \/ OpenStreamFails(r) \/ StreamAccepted(r)
             \/ StreamRefused(r) \/ AckTimeout(r) \/ WaitInterrupted(r)
    <3>1. \/ Goto("connector", r, "track", "open")
          \/ Goto("connector", r, "open", "done")
          \/ Goto("connector", r, "wait", "check") /\ ackCh[r] = "yes"
          \/ Goto("connector", r, "wait", "done")
      BY <2>1 DEF TrackStream, OpenStreamFails, StreamAccepted, StreamRefused, AckTimeout,
                  WaitInterrupted
    <3> QED
      BY <3>1, GotoEffect, SideFacts DEF Moves
  <2>2. CASE DialOK(r) \/ DialFails(r) \/ Attach(r) \/ AttachTooLate(r)
    <3>1. \/ Goto("listener", r, "dial", "attach")
          \/ Goto("listener", r, "dial", "refuse")
          \/ Goto("listener", r, "attach", "drain")
          \/ Goto("listener", r, "attach", "done")
      BY <2>2 DEF DialOK, DialFails, Attach, AttachTooLate
    <3> QED
      BY <3>1, GotoEffect, SideFacts DEF Moves
  <2>3. CASE DrainWrite(r) \/ DrainFails(r)
    BY <2>3 DEF DrainWrite, DrainFails, PhaseInv
  <2>4. ASSUME NEW Y \in Sides,
               PumpCheck(Y, r) \/ PumpRead(Y, r) \/ PumpSendFails(Y, r) \/ RemoveStream(Y, r)
        PROVE  Goal
    <3>1. \/ Goto(Y, r, "check", "done")
          \/ Goto(Y, r, "check", "read")
          \/ Goto(Y, r, "read", "send") /\ sent[Y][r] < MaxChunks[Y] /\ sent' = sent
          \/ Goto(Y, r, "send", "done")
          \/ Goto(Y, r, "remove", "done")
      BY <2>4 DEF PumpCheck, PumpRead, PumpSendFails, RemoveStream, dataVars
    <3> QED
      BY <3>1, GotoEffect DEF Moves
  <2> QED
    BY <1>3, <2>1, <2>2, <2>3, <2>4 DEF Silent
<1>4. ASSUME NEW r \in Streams, Sends(r)
      PROVE  Goal
  <2>1. \/ Goto("connector", r, "open", "wait")
        \/ Goto("listener", r, "refuse", "done")
        \/ Goto("listener", r, "drain", "check")
        \/ \E Y \in Sides : Goto(Y, r, "send", "check") \/ Goto(Y, r, "read", "remove")
    BY <1>4 DEF Sends, SendOpenStream, SendOpenStreamNack, SendOpenStreamAck, PumpSend, PumpEnd
  <2> QED
    BY <2>1, GotoEffect, SideFacts DEF Moves
<1>5. ASSUME NEW Y \in Sides, HandlerRuns(Y) \/ ApplicationTakes(Y)
      PROVE  Goal
  <2>1. CASE HandleOpenStream(Y)
    <3>1. PICK r \in Streams : r = current[Y].stream
      BY <2>1, HandlesFacts DEF HandleOpenStream
    <3>2. Y = "listener" /\ Asked(r) /\ Goto(Y, r, "idle", "dial")
      BY <2>1, <3>1, HandlesFacts DEF HandleOpenStream, Truthful
    <3> QED
      BY <3>2, GotoEffect DEF Moves
  <2> QED
    BY <1>p, <1>5, <2>1 DEF HandlerRuns, ApplicationTakes, HandlerCheck, Receive, ReceiveFails,
       HandleOpenStreamAck, HandleData, WriteFails, WriteData, HandleCloseStream,
       HandleDisconnect, HandlerExit, localVars
<1>6. ASSUME NEW Y \in Sides, CloseBegins(Y) \/ CloseRuns(Y)
      PROVE  Goal
  BY <1>p, <1>6 DEF CloseBegins, CloseRuns, CloseDisconnect, CloseHangUp, CloseSweep, localVars
<1> QED
  BY <1>1, <1>2, <1>3, <1>4, <1>5, <1>6, StepCases

\* Only the pump counts what it sends.
LEMMA SentFrame ==
    ASSUME TypeOK, [Next]_vars, NEW X \in Sides, NEW s \in Streams
    PROVE  \/ sent'[X][s] = sent[X][s]
           \/ PumpSend(X, s) /\ sent'[X][s] = sent[X][s] + 1
<1>1. ASSUME NEW Y \in Sides, NEW r \in Streams, PumpSend(Y, r)
      PROVE  \/ sent'[X][s] = sent[X][s]
             \/ PumpSend(X, s) /\ sent'[X][s] = sent[X][s] + 1
  BY <1>1 DEF PumpSend, TypeOK
<1>2. \/ sent' = sent
      \/ \E Y \in Sides, r \in Streams : PumpSend(Y, r)
  BY StepCases, ZenonT(60) DEF Silent, Sends, vars, dataVars, AcceptLocal, TrackStream, OpenStreamFails,
     GiveUp, StreamAccepted, StreamRefused, AckTimeout, WaitInterrupted, DialOK, DialFails,
     Attach, AttachTooLate, DrainWrite, DrainFails, PumpCheck, PumpRead, PumpSendFails,
     RemoveStream, SendOpenStream, SendOpenStreamNack, SendOpenStreamAck, PumpEnd, HandlerRuns,
     ApplicationTakes, HandlerCheck, Receive, ReceiveFails, HandleOpenStream,
     HandleOpenStreamAck, HandleData, WriteFails, WriteData, HandleCloseStream,
     HandleDisconnect, HandlerExit, CloseBegins, CloseRuns, CloseDisconnect, CloseHangUp,
     CloseSweep, BrokerEnds
<1> QED
  BY <1>1, <1>2

\* An answer is put into ackCh by handleOpenStreamAck, for a pending stream only.
LEMMA AckFrame ==
    ASSUME TypeOK, MessageInv, [Next]_vars, NEW s \in Streams
    PROVE  \/ ackCh'[s] \in {ackCh[s], "empty"}
           \/ /\ HandleOpenStreamAck("connector")
              /\ s = current["connector"].stream /\ s \in pendingStreams
              /\ ackCh'[s] = "yes" => current["connector"].type = "OpenStreamAck"
<1>1. ASSUME NEW X \in Sides, HandleOpenStreamAck(X)
      PROVE  \/ ackCh'[s] = ackCh[s]
             \/ /\ X = "connector" /\ s = current[X].stream /\ s \in pendingStreams
                /\ ackCh'[s] = "yes" => current[X].type = "OpenStreamAck"
  <2>1. X = "connector" /\ current[X].stream \in Streams
    BY <1>1, HandlesFacts DEF HandleOpenStreamAck, Truthful
  <2> QED
    BY <1>1, <2>1 DEF HandleOpenStreamAck, TypeOK
<1>2. ASSUME NEW r \in Streams, StreamAccepted(r) \/ StreamRefused(r)
      PROVE  ackCh'[s] \in {ackCh[s], "empty"}
  BY <1>2 DEF StreamAccepted, StreamRefused, TypeOK
<1>3. \/ ackCh' = ackCh
      \/ \E r \in Streams : StreamAccepted(r) \/ StreamRefused(r)
      \/ \E X \in Sides : HandleOpenStreamAck(X)
  BY StepCases, ZenonT(60) DEF Silent, Sends, vars, openVars, AcceptLocal, TrackStream, OpenStreamFails,
     GiveUp, AckTimeout, WaitInterrupted, DialOK, DialFails, Attach, AttachTooLate, DrainWrite,
     DrainFails, PumpCheck, PumpRead, PumpSend, PumpSendFails, RemoveStream, SendOpenStream,
     SendOpenStreamNack, SendOpenStreamAck, PumpEnd, HandlerRuns, ApplicationTakes,
     HandlerCheck, Receive, ReceiveFails, HandleOpenStream, HandleData, WriteFails, WriteData,
     HandleCloseStream, HandleDisconnect, HandlerExit, CloseBegins, CloseRuns, CloseDisconnect,
     CloseHangUp, CloseSweep, BrokerEnds
<1> QED
  BY <1>1, <1>2, <1>3

\* What has been asked, answered or sent remains so, and a stream that cannot get
\* into the map any more never does.
LEMMA ProgressFrame ==
    ASSUME TypeOK, PhaseInv, MessageInv, [Next]_vars, NEW s \in Streams
    PROVE  /\ Asked(s) => Asked(s)'
           /\ Answered(s) => Answered(s)'
           /\ \A X \in Sides : sent[X][s] <= sent'[X][s]
           /\ \A X \in Sides : pc[X][s] \notin {"idle", "track"} =>
                                   pc'[X][s] \notin {"idle", "track"}
<1> USE SideFacts
<1>1. Asked(s) => Asked(s)'
  BY PcFrame DEF Asked, Moves, PumpPhases
<1>2. Answered(s) => Answered(s)'
  BY PcFrame DEF Answered, Moves, PumpPhases
<1>3. ASSUME NEW X \in Sides
      PROVE  sent[X][s] <= sent'[X][s]
  <2>1. sent[X][s] \in Nat
    BY DEF TypeOK
  <2> QED
    BY <2>1, SentFrame
<1>4. \A X \in Sides : pc[X][s] \notin {"idle", "track"} =>
                           pc'[X][s] \notin {"idle", "track"}
  BY PcFrame, ZenonT(60) DEF Moves
<1> QED
  BY <1>1, <1>2, <1>3, <1>4

\* A chunk on its way to side X belongs to a stream that is past the opening there.
LEMMA DataFacts ==
    ASSUME TypeOK, PhaseInv, NEW X \in Sides, NEW m, Truthful(X, m), m.type = "Data"
    PROVE  /\ m.stream \in Streams
           /\ sent[Peer(X)][m.stream] > 0
           /\ pc[X][m.stream] \in {"wait"} \cup PumpPhases
<1>1. PICK s \in Streams : s = m.stream
  BY DEF Truthful
<1>2. sent[Peer(X)][s] > 0
  <2>1. sent[Peer(X)][s] \in Nat
    BY SideFacts DEF TypeOK
  <2>2. m.chunk \in 1..sent[Peer(X)][s]
    BY <1>1 DEF Truthful
  <2> QED
    BY <2>1, <2>2
<1>3. CASE X = "listener"
  BY <1>1, <1>2, <1>3, SideFacts DEF PhaseInv, Answered
<1>4. CASE X = "connector"
  BY <1>1, <1>2, <1>4, SideFacts DEF PhaseInv, Asked
<1> QED
  BY <1>1, <1>2, <1>3, <1>4 DEF Sides

\* Nothing is ever buffered: no chunk arrives while the listener is dialling.
LEMMA NothingBuffered ==
    ASSUME TypeOK, PhaseInv, MessageInv, [Next]_vars, NEW s \in Streams
    PROVE  buf'[s] = <<>>
<1>1. ASSUME NEW X \in Sides, HandleData(X)
      PROVE  buf' = buf
  <2>1. /\ Truthful(X, current[X]) /\ current[X].type = "Data"
    BY <1>1, HandlesFacts DEF HandleData
  <2>2. pc[X][current[X].stream] \in {"wait"} \cup PumpPhases
    BY <2>1, DataFacts
  <2> QED
    BY <1>1, <2>2 DEF HandleData, Attached, PumpPhases
<1>2. ASSUME NEW X \in Sides, HandleOpenStream(X)
      PROVE  buf'[s] = <<>>
  BY <1>2 DEF HandleOpenStream, PhaseInv, TypeOK
<1>3. ASSUME NEW r \in Streams, DrainWrite(r)
      PROVE  FALSE
  BY <1>3 DEF DrainWrite, PhaseInv
<1>4. \/ buf' = buf
      \/ \E X \in Sides : HandleOpenStream(X)
  BY <1>1, <1>3, StepCases DEF Silent, Sends, vars, localVars, AcceptLocal, TrackStream,
     OpenStreamFails, GiveUp, StreamAccepted, StreamRefused, AckTimeout, WaitInterrupted,
     DialOK, DialFails, Attach, AttachTooLate, DrainFails, PumpCheck, PumpRead, PumpSend,
     PumpSendFails, RemoveStream, SendOpenStream, SendOpenStreamNack, SendOpenStreamAck,
     PumpEnd, HandlerRuns, ApplicationTakes, HandlerCheck, Receive, ReceiveFails,
     HandleOpenStreamAck, WriteFails, WriteData, HandleCloseStream, HandleDisconnect,
     HandlerExit, CloseBegins, CloseRuns, CloseDisconnect, CloseHangUp, CloseSweep, BrokerEnds
<1> QED
  BY <1>2, <1>4 DEF PhaseInv

\* Every step keeps the two goroutines of a stream in step.
LEMMA PhaseInvStep ==
    ASSUME TypeOK, PhaseInv, MessageInv, [Next]_vars
    PROVE  PhaseInv'
<1> SUFFICES ASSUME NEW s \in Streams
             PROVE  /\ pc'["connector"][s] \in ConnectorPhases
                    /\ pc'["listener"][s] \in ListenerPhases
                    /\ pc'["listener"][s] # "idle" => Asked(s)'
                    /\ \/ pc'["connector"][s] \in PumpPhases \ {"done"}
                       \/ sent'["connector"][s] > 0
                       \/ ackCh'[s] = "yes"
                       => Answered(s)'
                    /\ sent'["listener"][s] > 0 => pc'["listener"][s] # "idle"
                    /\ \A X \in Sides : pc'[X][s] = "send" => sent'[X][s] < MaxChunks[X]
                    /\ buf'[s] = <<>>
  BY DEF PhaseInv
<1> USE SideFacts
<1>1. /\ pc'["connector"][s] \in ConnectorPhases
      /\ pc'["listener"][s] \in ListenerPhases
  BY PcFrame DEF PhaseInv, Moves, ConnectorPhases, ListenerPhases, PumpPhases
<1>2. pc'["listener"][s] # "idle" => Asked(s)'
  <2>1. pc'["listener"][s] # "idle" => Asked(s)
    BY PcFrame DEF PhaseInv, Moves
  <2> QED
    BY <2>1, ProgressFrame
<1>3. pc'["connector"][s] \in PumpPhases \ {"done"} => Answered(s)
  <2>1. \/ pc["connector"][s] \in PumpPhases \ {"done"}
        \/ pc'["connector"][s] \notin PumpPhases \ {"done"}
        \/ ackCh[s] = "yes"
    BY PcFrame DEF Moves, PumpPhases
  <2> QED
    BY <2>1 DEF PhaseInv
<1>4. sent'["connector"][s] > 0 => Answered(s)
  <2>1. CASE sent'["connector"][s] = sent["connector"][s]
    BY <2>1 DEF PhaseInv
  <2>2. CASE PumpSend("connector", s)
    BY <2>2 DEF PumpSend, Goto, PhaseInv, PumpPhases
  <2> QED
    BY <2>1, <2>2, SentFrame
<1>5. ackCh'[s] = "yes" => Answered(s)
  <2>1. CASE ackCh'[s] = ackCh[s]
    BY <2>1 DEF PhaseInv
  <2>2. CASE /\ HandleOpenStreamAck("connector")
             /\ s = current["connector"].stream
             /\ current["connector"].type = "OpenStreamAck"
    BY <2>2, HandlesFacts DEF HandleOpenStreamAck, Truthful
  <2> QED
    BY <2>1, <2>2, AckFrame
<1>6. sent'["listener"][s] > 0 => pc'["listener"][s] # "idle"
  <2>1. sent'["listener"][s] > 0 => pc["listener"][s] # "idle"
    BY SentFrame DEF PhaseInv, PumpSend, Goto
  <2>2. pc["listener"][s] # "idle" => pc'["listener"][s] # "idle"
    BY PcFrame DEF Moves
  <2> QED
    BY <2>1, <2>2
<1>7. ASSUME NEW X \in Sides, pc'[X][s] = "send"
      PROVE  sent'[X][s] < MaxChunks[X]
  <2>1. CASE pc[X][s] = "send"
    <3>1. ~PumpSend(X, s)
      BY <1>7, GotoEffect DEF PumpSend
    <3> QED
      BY <2>1, <3>1, SentFrame DEF PhaseInv
  <2>2. CASE pc[X][s] # "send"
    BY <1>7, <2>2, PcFrame DEF Moves
  <2> QED
    BY <2>1, <2>2
<1> QED
  BY <1>1, <1>2, <1>3, <1>4, <1>5, <1>6, <1>7, NothingBuffered, ProgressFrame

\* The steps that send nothing to side X leave its queue alone, take its head or
\* drop it; the others append a message that is true of the sender, and a chunk of
\* data comes from the pump of its stream.
LEMMA QueueFrame ==
    ASSUME TypeOK, PhaseInv, MessageInv, [Next]_vars, NEW X \in Sides
    PROVE  \/ queue'[X] = queue[X]
           \/ Receive(X)
           \/ CloseHangUp(X)
           \/ \E m \in Messages :
                 /\ Appends(X, m) /\ m # NoMessage
                 /\ Truthful(X, m)'
                 /\ m.type = "Data" => /\ PumpSend(Peer(X), m.stream)
                                       /\ m.chunk = sent[Peer(X)][m.stream] + 1
<1> DEFINE Appended == \E m \in Messages :
                 /\ Appends(X, m) /\ m # NoMessage
                 /\ Truthful(X, m)'
                 /\ m.type = "Data" => /\ PumpSend(Peer(X), m.stream)
                                       /\ m.chunk = sent[Peer(X)][m.stream] + 1
           Goal == \/ queue'[X] = queue[X]
                   \/ Receive(X)
                   \/ CloseHangUp(X)
                   \/ Appended
<1> USE SideFacts, MessageFacts
<1>1. ASSUME UNCHANGED relayVars \/ (queue' = queue)
      PROVE  Goal
  BY <1>1 DEF relayVars
<1>2. ASSUME NEW Y \in Sides, NEW m \in Messages, UNCHANGED relayVars \/ Appends(Peer(Y), m),
             Truthful(Peer(Y), m)',
             m.type = "Data" => /\ PumpSend(Y, m.stream)
                                /\ m.chunk = sent[Y][m.stream] + 1
      PROVE  Goal
  <2>1. CASE UNCHANGED relayVars
    BY <1>1, <2>1
  <2>2. CASE Appends(Peer(Y), m) /\ X = Peer(Y)
    <3>1. Appended
      BY <1>2, <2>2
    <3> QED
      BY <3>1
  <2>3. CASE Appends(Peer(Y), m) /\ X # Peer(Y)
    BY <2>3 DEF Appends, TypeOK
  <2> QED
    BY <1>2, <2>1, <2>2, <2>3
<1> HIDE DEF Goal
<1>3. ASSUME NEW s \in Streams, Sends(s)
      PROVE  Goal
  <2>1. CASE SendOpenStream(s)
    <3>1. PICK m \in Messages : m = Message("OpenStream", s, 0)
      OBVIOUS
    <3>2. m.type = "OpenStream" /\ m.stream = s
      BY <3>1 DEF Message
    <3>3. pc'["connector"][s] = "wait"
      BY <2>1, GotoEffect DEF SendOpenStream
    <3>4. UNCHANGED relayVars \/ Appends(Peer("connector"), m)
      BY <2>1, <3>1, SendFrame DEF SendOpenStream, BestEffortSend
    <3>5. Truthful(Peer("connector"), m)'
      BY <3>2, <3>3 DEF Truthful, Asked
    <3> QED
      BY <1>2, <3>2, <3>4, <3>5
  <2>2. CASE SendOpenStreamNack(s)
    <3>1. PICK m \in Messages : m = Message("OpenStreamNack", s, 0)
      OBVIOUS
    <3>2. m.type = "OpenStreamNack" /\ m.stream = s
      BY <3>1 DEF Message
    <3>3. UNCHANGED relayVars \/ Appends(Peer("listener"), m)
      BY <2>2, <3>1, SendFrame DEF SendOpenStreamNack
    <3>4. Truthful(Peer("listener"), m)'
      BY <3>2 DEF Truthful
    <3> QED
      BY <1>2, <3>2, <3>3, <3>4
  <2>3. CASE SendOpenStreamAck(s)
    <3>1. PICK m \in Messages : m = Message("OpenStreamAck", s, 0)
      OBVIOUS
    <3>2. m.type = "OpenStreamAck" /\ m.stream = s
      BY <3>1 DEF Message
    <3>3. pc'["listener"][s] = "check"
      BY <2>3, GotoEffect DEF SendOpenStreamAck
    <3>4. UNCHANGED relayVars \/ Appends(Peer("listener"), m)
      BY <2>3, <3>1, SendFrame DEF SendOpenStreamAck
    <3>5. Truthful(Peer("listener"), m)'
      BY <3>2, <3>3 DEF Truthful, Answered, PumpPhases
    <3> QED
      BY <1>2, <3>2, <3>4, <3>5
  <2>4. ASSUME NEW Y \in Sides, PumpSend(Y, s)
        PROVE  Goal
    <3>1. PICK n \in Nat : n = sent[Y][s] + 1 /\ n > 0
      BY DEF TypeOK
    <3>2. PICK m \in Messages : m = Message("Data", s, n)
      OBVIOUS
    <3>3. m.type = "Data" /\ m.stream = s /\ m.chunk = n
      BY <3>2 DEF Message
    <3>4. UNCHANGED relayVars \/ Appends(Peer(Y), m)
      BY <2>4, <3>1, <3>2, SendFrame DEF PumpSend, BestEffortSend
    <3>5. sent'[Y][s] = n
      BY <2>4, <3>1 DEF PumpSend, TypeOK
    <3>6. n \in 1..n
      BY <3>1
    <3>7. Truthful(Peer(Y), m)'
      BY <3>3, <3>5, <3>6 DEF Truthful
    <3> QED
      BY <1>2, <2>4, <3>1, <3>3, <3>4, <3>7
  <2>5. ASSUME NEW Y \in Sides, PumpEnd(Y, s)
        PROVE  Goal
    <3>1. PICK m \in Messages : m = Message("CloseStream", s, 0)
      OBVIOUS
    <3>2. m.type = "CloseStream" /\ m.stream = s
      BY <3>1 DEF Message
    <3>3. UNCHANGED relayVars \/ Appends(Peer(Y), m)
      BY <2>5, <3>1, SendFrame DEF PumpEnd
    <3>4. Truthful(Peer(Y), m)'
      BY <3>2 DEF Truthful
    <3> QED
      BY <1>2, <3>2, <3>3, <3>4
  <2> QED
    BY <1>3, <2>1, <2>2, <2>3, <2>4, <2>5 DEF Sends
<1>4. ASSUME NEW Y \in Sides, CloseDisconnect(Y)
      PROVE  Goal
  <2>1. PICK m \in Messages : m = Disconnect
    OBVIOUS
  <2>2. m.type = "Disconnect"
    BY <2>1 DEF Disconnect, Message
  <2>3. UNCHANGED relayVars \/ Appends(Peer(Y), m)
    BY <1>4, <2>1, SendFrame DEF CloseDisconnect
  <2>4. Truthful(Peer(Y), m)'
    BY <2>2 DEF Truthful
  <2> QED
    BY <1>2, <2>2, <2>3, <2>4
<1>5. ASSUME NEW Y \in Sides, Receive(Y) \/ CloseHangUp(Y)
      PROVE  Goal
  BY <1>5 DEF Receive, CloseHangUp, TypeOK, Goal
<1>6. \/ UNCHANGED relayVars \/ queue' = queue
      \/ \E s \in Streams : Sends(s)
      \/ \E Y \in Sides : Receive(Y) \/ CloseHangUp(Y) \/ CloseDisconnect(Y)
  BY StepCases, ZenonT(60) DEF Silent, vars, relayVars, AcceptLocal, TrackStream, OpenStreamFails, GiveUp,
     StreamAccepted, StreamRefused, AckTimeout, WaitInterrupted, DialOK, DialFails, Attach,
     AttachTooLate, DrainWrite, DrainFails, PumpCheck, PumpRead, PumpSendFails, RemoveStream,
     SendError, HandlerRuns, ApplicationTakes, HandlerCheck, ReceiveFails, HandleOpenStream,
     HandleOpenStreamAck, HandleData, WriteFails, WriteData, HandleCloseStream,
     HandleDisconnect, HandlerExit, Handles, CloseBegins, CloseRuns, CloseSweep, BrokerEnds
<1> QED
  BY <1>1, <1>3, <1>4, <1>5, <1>6 DEF Goal

\* handleMessages has a message in hand from Receive to the end of its handling.
LEMMA HandlerFrame ==
    ASSUME TypeOK, [Next]_vars, NEW X \in Sides
    PROVE  /\ \/ handler'[X] = handler[X] /\ current'[X] = current[X]
              \/ Receive(X)
              \/ /\ handler[X] \in {"check", "receive", "close"}
                 /\ handler'[X] \in {"receive", "close", "done"}
                 /\ current'[X] = current[X]
              \/ /\ HandleData(X) /\ Attached(X, current[X].stream)
                 /\ handler'[X] = "write" /\ current'[X] = current[X]
              \/ /\ handler[X] \in {"dispatch", "write"}
                 /\ handler'[X] \in {"check", "close"}
                 /\ current'[X] = NoMessage
           /\ \/ handler'[X] = handler[X] /\ current'[X] = current[X]
              \/ HandlerRuns(X) \/ ApplicationTakes(X)
<1> DEFINE Goal(Y) ==
           \/ Receive(Y)
           \/ /\ handler[Y] \in {"check", "receive", "close"}
              /\ handler'[Y] \in {"receive", "close", "done"}
              /\ current'[Y] = current[Y]
           \/ /\ HandleData(Y) /\ Attached(Y, current[Y].stream)
              /\ handler'[Y] = "write" /\ current'[Y] = current[Y]
           \/ /\ handler[Y] \in {"dispatch", "write"}
              /\ handler'[Y] \in {"check", "close"}
              /\ current'[Y] = NoMessage
           Alone(Y) == \A Z \in Sides \ {Y} : handler'[Z] = handler[Z] /\ current'[Z] = current[Z]
<1>1. ASSUME NEW Y \in Sides, HandlerRuns(Y) \/ ApplicationTakes(Y)
      PROVE  Goal(Y) /\ Alone(Y)
  <2> USE DEF TypeOK
  <2>1. CASE HandlerCheck(Y) \/ ReceiveFails(Y) \/ HandlerExit(Y)
    BY <2>1 DEF HandlerCheck, ReceiveFails, HandlerExit
  <2>2. CASE Receive(Y)
    BY <2>2 DEF Receive
  <2>3. ASSUME NEW type, NEW to \in {"check", "close"}, Handles(Y, type, to)
        PROVE  Goal(Y) /\ Alone(Y)
    BY <2>3 DEF Handles
  <2>4. CASE HandleData(Y)
    <3>1. CASE Attached(Y, current[Y].stream)
      BY <2>4, <3>1 DEF HandleData, Handles
    <3>2. CASE ~Attached(Y, current[Y].stream)
      BY <2>3, <2>4, <3>2 DEF HandleData
    <3> QED
      BY <3>1, <3>2
  <2>5. CASE WriteFails(Y) \/ WriteData(Y)
    BY <2>5 DEF WriteFails, WriteData, InWrite
  <2> HIDE DEF Goal, Alone
  <2>6. CASE HandleOpenStream(Y) \/ HandleOpenStreamAck(Y) \/ HandleCloseStream(Y)
             \/ HandleDisconnect(Y)
    BY <2>3, <2>6 DEF HandleOpenStream, HandleOpenStreamAck, HandleCloseStream,
                      HandleDisconnect
  <2> QED
    BY <1>1, <2>1, <2>2, <2>4, <2>5, <2>6 DEF HandlerRuns, ApplicationTakes
<1>2. \/ handler' = handler /\ current' = current
      \/ \E Y \in Sides : HandlerRuns(Y) \/ ApplicationTakes(Y)
  BY StepCases, ZenonT(60) DEF Silent, Sends, vars, handleVars, AcceptLocal, TrackStream, OpenStreamFails,
     GiveUp, StreamAccepted, StreamRefused, AckTimeout, WaitInterrupted, DialOK, DialFails,
     Attach, AttachTooLate, DrainWrite, DrainFails, PumpCheck, PumpRead, PumpSend,
     PumpSendFails, RemoveStream, SendOpenStream, SendOpenStreamNack, SendOpenStreamAck,
     PumpEnd, CloseBegins, CloseRuns, CloseDisconnect, CloseHangUp, CloseSweep, BrokerEnds
<1> QED
  BY <1>1, <1>2

\* What a message says stays true.
LEMMA TruthfulFrame ==
    ASSUME TypeOK, PhaseInv, MessageInv, [Next]_vars, NEW X \in Sides, NEW m, Truthful(X, m)
    PROVE  Truthful(X, m)'
<1>1. CASE m.type = "Data"
  <2>1. PICK s \in Streams, Y \in Sides : s = m.stream /\ Y = Peer(X)
    BY <1>1, SideFacts DEF Truthful
  <2>2. sent[Y][s] \in Nat /\ sent[Y][s] <= sent'[Y][s] /\ sent'[Y][s] \in Nat
    <3>1. TypeOK'
      BY TypeOKStep
    <3>2. sent[Y][s] \in Nat /\ sent'[Y][s] \in Nat
      BY <3>1 DEF TypeOK
    <3>3. sent[Y][s] <= sent'[Y][s]
      BY ProgressFrame
    <3> QED
      BY <3>2, <3>3
  <2>3. m.chunk \in 1..sent'[Y][s]
    BY <1>1, <2>1, <2>2 DEF Truthful
  <2> QED
    BY <1>1, <2>1, <2>3 DEF Truthful
<1>2. CASE m.type # "Data"
  BY <1>2, ProgressFrame DEF Truthful
<1> QED
  BY <1>1, <1>2

\* Every step keeps messages truthful.
LEMMA MessageInvStep ==
    ASSUME TypeOK, PhaseInv, MessageInv, [Next]_vars
    PROVE  MessageInv'
<1> SUFFICES ASSUME NEW X \in Sides
             PROVE  /\ \A i \in 1..Len(queue'[X]), m \in Messages :
                          m = queue'[X][i] => Truthful(X, m)'
                    /\ \A m \in Messages : m = current'[X] => Truthful(X, m)'
                    /\ handler'[X] \in {"dispatch", "write"} <=> current'[X] # NoMessage
                    /\ handler'[X] = "write" => current'[X].type = "Data"
  <2>1. TypeOK'
    BY TypeOKStep
  <2>2. \A X \in Sides : /\ current'[X] # NoMessage => current'[X] \in Messages
                         /\ queue'[X] \in Seq(Messages)
    BY <2>1 DEF TypeOK
  <2>3. \A X \in Sides : \A i \in 1..Len(queue'[X]) : queue'[X][i] \in Messages
    BY <2>2, ElementOfSeq
  <2> QED
    BY <2>2, <2>3 DEF MessageInv
<1>1. queue[X] \in Seq(Messages) /\ Len(queue[X]) \in Nat
  BY LenProperties DEF TypeOK
<1>2. ASSUME NEW i \in 1..Len(queue[X]), NEW m \in Messages, m = queue[X][i]
      PROVE  Truthful(X, m)'
  BY <1>2, TruthfulFrame DEF MessageInv
<1>3. ASSUME NEW i \in 1..Len(queue'[X]), NEW m \in Messages, m = queue'[X][i]
      PROVE  Truthful(X, m)'
  <2>1. CASE queue'[X] = queue[X]
    BY <1>2, <1>3, <2>1
  <2>2. CASE Receive(X)
    <3>1. queue[X] # <<>> /\ queue'[X] = Tail(queue[X])
      BY <2>2 DEF Receive, TypeOK
    <3>2. /\ Len(Tail(queue[X])) = Len(queue[X]) - 1
          /\ \A k \in 1..Len(Tail(queue[X])) : Tail(queue[X])[k] = queue[X][k + 1]
      BY <1>1, <3>1, HeadTailProperties
    <3>3. i + 1 \in 1..Len(queue[X]) /\ m = queue[X][i + 1]
      BY <1>1, <1>3, <3>1, <3>2
    <3> QED
      BY <1>2, <3>3
  <2>3. CASE CloseHangUp(X)
    <3>1. queue'[X] = <<>>
      BY <2>3 DEF CloseHangUp, TypeOK
    <3> QED
      BY <1>3, <3>1
  <2>4. ASSUME NEW n \in Messages, Appends(X, n), Truthful(X, n)'
        PROVE  Truthful(X, m)'
    <3>1. queue'[X] = Append(queue[X], n)
      BY <2>4 DEF Appends, TypeOK
    <3>2. /\ Len(Append(queue[X], n)) = Len(queue[X]) + 1
          /\ \A k \in 1..Len(queue[X]) : Append(queue[X], n)[k] = queue[X][k]
          /\ Append(queue[X], n)[Len(queue[X]) + 1] = n
      BY <1>1, AppendProperties
    <3>3. \/ i \in 1..Len(queue[X]) /\ m = queue[X][i]
          \/ m = n
      BY <1>1, <1>3, <3>1, <3>2
    <3> QED
      BY <1>2, <2>4, <3>3
  <2> QED
    BY <2>1, <2>2, <2>3, <2>4, QueueFrame
<1>4. /\ \A m \in Messages : m = current'[X] => Truthful(X, m)'
      /\ handler'[X] \in {"dispatch", "write"} <=> current'[X] # NoMessage
      /\ handler'[X] = "write" => current'[X].type = "Data"
  <2>1. ASSUME NEW m \in Messages, m = current[X]
        PROVE  Truthful(X, m)'
    BY <2>1, TruthfulFrame, MessageFacts DEF MessageInv
  <2>2. CASE Receive(X)
    <3>1. queue[X] # <<>> /\ current'[X] = Head(queue[X]) /\ handler'[X] = "dispatch"
      BY <2>2 DEF Receive, TypeOK
    <3>2. Head(queue[X]) = queue[X][1] /\ Head(queue[X]) \in Messages
      BY <1>1, <3>1, HeadTailProperties
    <3>3. 1 \in 1..Len(queue[X])
      BY <1>1, <3>1, EmptySeq
    <3> QED
      BY <1>2, <3>1, <3>2, <3>3, MessageFacts
  <2>3. CASE HandleData(X) /\ handler'[X] = "write" /\ current'[X] = current[X]
    <3>1. current[X] # NoMessage /\ current[X].type = "Data"
      BY <2>3, HandlesFacts DEF HandleData
    <3> QED
      BY <2>1, <2>3, <3>1
  <2>4. ASSUME current'[X] = NoMessage
        PROVE  \A m \in Messages : m = current'[X] => Truthful(X, m)'
    BY <2>4, MessageFacts
  <2> QED
    BY <2>1, <2>2, <2>3, <2>4, HandlerFrame DEF MessageInv
<1> QED
  BY <1>3, <1>4

\* The two ways to drop a stream leave all the others alone.
LEMMA DropEffect ==
    ASSUME TypeOK, NEW Y \in Sides, NEW r \in Streams, NEW X \in Sides, NEW s \in Streams
    PROVE  /\ CloseStream(Y, r) =>
                 /\ conn'[X][s] = IF X = Y /\ s = r /\ Attached(Y, r) THEN "closed" ELSE conn[X][s]
                 /\ s \in streams'[X] <=> s \in streams[X] /\ ~(X = Y /\ s = r)
           /\ CloseLocal(Y, r) =>
                 /\ conn'[X][s] = IF X = Y /\ s = r THEN "closed" ELSE conn[X][s]
                 /\ s \in streams'[X] <=> s \in streams[X] /\ ~(X = Y /\ s = r)
BY DEF TypeOK, CloseStream, CloseLocal

\* A Send does not change the links.
LEMMA SendKeepsLinks ==
    /\ \A X, m : SendOK(X, m) => UNCHANGED <<relay, link>>
    /\ \A X, m : BestEffortSend(X, m) => UNCHANGED <<relay, link>>
BY DEF BestEffortSend, SendOK, SendError, relayVars

\* The progress of Close at side X, and what it does to the link.
LEMMA ClosingFrame ==
    ASSUME TypeOK, [Next]_vars, NEW X \in Sides
    PROVE  /\ Closing(X) => Closing(X)'
           /\ relay' => relay
           /\ \/ closing'[X] = closing[X] /\ link'[X] = link[X]
              \/ closing[X] = "open" /\ closing'[X] = "disconnect" /\ link'[X] = link[X]
              \/ closing[X] = "disconnect" /\ closing'[X] = "hangup" /\ link'[X] = link[X]
              \/ closing[X] = "hangup" /\ closing'[X] = "sweep" /\ link'[X] = "down"
              \/ CloseSweep(X) /\ closing[X] = "sweep" /\ closing'[X] = "closed"
                 /\ link'[X] = link[X]
<1> DEFINE Goal ==
              \/ closing'[X] = closing[X] /\ link'[X] = link[X]
              \/ closing[X] = "open" /\ closing'[X] = "disconnect" /\ link'[X] = link[X]
              \/ closing[X] = "disconnect" /\ closing'[X] = "hangup" /\ link'[X] = link[X]
              \/ closing[X] = "hangup" /\ closing'[X] = "sweep" /\ link'[X] = "down"
              \/ CloseSweep(X) /\ closing[X] = "sweep" /\ closing'[X] = "closed"
                 /\ link'[X] = link[X]
<1>1. ASSUME NEW Y \in Sides, CloseBegins(Y) \/ CloseRuns(Y)
      PROVE  Goal /\ relay' = relay
  <2>1. CASE CloseBegins(Y)
    BY <2>1 DEF CloseBegins, CloseStage, relayVars, TypeOK
  <2>2. CASE CloseDisconnect(Y)
    <3>1. UNCHANGED <<relay, link>>
      BY <2>2, SendKeepsLinks DEF CloseDisconnect
    <3> QED
      BY <2>2, <3>1 DEF CloseDisconnect, CloseStage, TypeOK
  <2>3. CASE CloseHangUp(Y)
    BY <2>3 DEF CloseHangUp, CloseStage, TypeOK
  <2>4. CASE CloseSweep(Y)
    <3>1. /\ closing' = [closing EXCEPT ![Y] = "closed"] /\ closing[Y] = "sweep"
          /\ UNCHANGED <<relay, link>>
      BY <2>4 DEF CloseSweep, CloseStage, relayVars
    <3> QED
      BY <2>4, <3>1 DEF TypeOK
  <2> QED
    BY <1>1, <2>1, <2>2, <2>3, <2>4 DEF CloseRuns
<1>2. \/ closing' = closing /\ link' = link /\ (relay' => relay)
      \/ \E Y \in Sides : CloseBegins(Y) \/ CloseRuns(Y)
  <2> DEFINE Kept == closing' = closing /\ link' = link /\ (relay' => relay)
  <2>1. ASSUME NEW s \in Streams, Silent(s)
        PROVE  Kept
    BY <2>1 DEF Silent, relayVars, TrackStream, OpenStreamFails, SendError, GiveUp,
       StreamAccepted, StreamRefused, AckTimeout, WaitInterrupted, DialOK, DialFails, Attach,
       AttachTooLate, DrainWrite, DrainFails, PumpCheck, PumpRead, PumpSendFails, RemoveStream
  <2>2. ASSUME NEW s \in Streams, Sends(s)
        PROVE  Kept
    BY <2>2, SendKeepsLinks DEF Sends, SendOpenStream, SendOpenStreamNack, SendOpenStreamAck,
       PumpSend, PumpEnd
  <2>3. ASSUME NEW Y \in Sides, HandlerRuns(Y) \/ ApplicationTakes(Y)
        PROVE  Kept
    BY <2>3 DEF HandlerRuns, ApplicationTakes, relayVars, HandlerCheck, Receive, ReceiveFails,
       HandleOpenStream, HandleOpenStreamAck, HandleData, WriteFails, WriteData,
       HandleCloseStream, HandleDisconnect, HandlerExit, Handles
  <2>4. ASSUME UNCHANGED vars \/ AcceptLocal \/ BrokerEnds
        PROVE  Kept
    BY <2>4 DEF vars, relayVars, AcceptLocal, BrokerEnds
  <2> QED
    BY <2>1, <2>2, <2>3, <2>4, StepCases
<1>3. Goal /\ (relay' => relay)
  BY <1>1, <1>2
<1> QED
  BY <1>3 DEF Closing

\* A stream gets into the map when the connector tracks it and when the listener is
\* asked for it.
LEMMA MapFrame ==
    ASSUME TypeOK, PhaseInv, MessageInv, [Next]_vars, NEW X \in Sides, NEW s \in Streams,
           s \in streams'[X], s \notin streams[X]
    PROVE  \/ X = "connector" /\ pc[X][s] = "track" /\ pc'[X][s] = "open"
           \/ X = "listener" /\ pc[X][s] = "idle" /\ pc'[X][s] = "dial"
<1> DEFINE Goal == \/ X = "connector" /\ pc[X][s] = "track" /\ pc'[X][s] = "open"
                   \/ X = "listener" /\ pc[X][s] = "idle" /\ pc'[X][s] = "dial"
<1>1. ASSUME NEW r \in Streams, TrackStream(r)
      PROVE  Goal
  <2>1. X = "connector" /\ s = r
    BY <1>1, SideFacts DEF TrackStream, TypeOK
  <2> QED
    BY <1>1, <2>1, GotoEffect DEF TrackStream
<1>2. ASSUME NEW Y \in Sides, HandleOpenStream(Y)
      PROVE  Goal
  <2>1. PICK r \in Streams : r = current[Y].stream
    BY <1>2, HandlesFacts DEF HandleOpenStream
  <2>2. Y = "listener" /\ Goto(Y, r, "idle", "dial")
    BY <1>2, <2>1, HandlesFacts DEF HandleOpenStream, Truthful
  <2>3. X = Y /\ s = r
    BY <1>2, <2>1 DEF HandleOpenStream, TypeOK
  <2> QED
    BY <2>2, <2>3, GotoEffect
<1>3. \/ \A Y \in Sides : streams'[Y] \subseteq streams[Y]
      \/ \E r \in Streams : TrackStream(r)
      \/ \E Y \in Sides : HandleOpenStream(Y)
  <2>1. ASSUME \E Y \in Sides : \E r : CloseStream(Y, r) \/ CloseLocal(Y, r)
        PROVE  \A Y \in Sides : streams'[Y] \subseteq streams[Y]
    <3>1. PICK Z \in Sides : \E r : streams' = [streams EXCEPT ![Z] = @ \ {r}]
      BY <2>1 DEF CloseStream, CloseLocal
    <3> QED
      BY <3>1 DEF TypeOK
  <2>2. ASSUME \/ \E r \in Streams, Y \in Sides : DialFails(r) \/ RemoveStream(Y, r)
               \/ \E Y \in Sides : CloseSweep(Y)
        PROVE  \A Y \in Sides : streams'[Y] \subseteq streams[Y]
    <3>1. PICK Z \in Sides : \E S : streams' = [streams EXCEPT ![Z] = @ \ S]
      <4>1. ASSUME NEW Z \in Sides, CloseSweep(Z)
            PROVE  streams' = [streams EXCEPT ![Z] = @ \ Streams]
        BY <4>1 DEF CloseSweep, TypeOK
      <4> QED
        BY <2>2, <4>1, SideFacts DEF DialFails, RemoveStream
    <3> QED
      BY <3>1 DEF TypeOK
  <2>3. \/ streams' = streams
        \/ \E Y \in Sides : \E r : CloseStream(Y, r) \/ CloseLocal(Y, r)
        \/ \E r \in Streams, Y \in Sides : DialFails(r) \/ RemoveStream(Y, r)
        \/ \E Y \in Sides : CloseSweep(Y)
        \/ \E r \in Streams : TrackStream(r)
        \/ \E Y \in Sides : HandleOpenStream(Y)
    BY StepCases, SideFacts DEF Silent, Sends, vars, localVars, AcceptLocal, OpenStreamFails,
       GiveUp, StreamAccepted, StreamRefused, AckTimeout, WaitInterrupted, DialOK, Attach,
       AttachTooLate, DrainWrite, DrainFails, PumpCheck, PumpRead, PumpSend, PumpSendFails,
       SendOpenStream, SendOpenStreamNack, SendOpenStreamAck, PumpEnd, HandlerRuns,
       ApplicationTakes, HandlerCheck, Receive, ReceiveFails, HandleOpenStreamAck, HandleData,
       WriteFails, WriteData, HandleCloseStream, HandleDisconnect, HandlerExit, CloseBegins,
       CloseRuns, CloseDisconnect, CloseHangUp, BrokerEnds
  <2> QED
    BY <2>1, <2>2, <2>3
<1> QED
  BY <1>1, <1>2, <1>3

\* Every step keeps pending streams waiting.
LEMMA PendingInvStep ==
    ASSUME TypeOK, PhaseInv, MessageInv, PendingInv, [Next]_vars
    PROVE  PendingInv'
<1> SUFFICES ASSUME NEW s \in Streams
             PROVE  /\ s \in pendingStreams' => pc'["connector"][s] \in {"open", "wait"}
                    /\ ackCh'[s] # "empty" =>
                           /\ s \notin pendingStreams'
                           /\ pc'["connector"][s] \in {"open", "wait", "done"}
  BY DEF PendingInv
<1> DEFINE p == pc["connector"][s]
           q == pc'["connector"][s]
           Goal == /\ s \in pendingStreams' => q \in {"open", "wait"}
                   /\ ackCh'[s] # "empty" => s \notin pendingStreams' /\ q \in {"open", "wait", "done"}
<1> SUFFICES Goal
  OBVIOUS
<1> USE SideFacts
<1>1. p = q \/ <<p, q>> \in Moves("connector")
  BY PcFrame
<1>2. /\ s \in pendingStreams => p \in {"open", "wait"}
      /\ ackCh[s] # "empty" => s \notin pendingStreams /\ p \in {"open", "wait", "done"}
  BY DEF PendingInv
<1>3. ASSUME NEW r \in Streams, TrackStream(r)
      PROVE  Goal
  <2>1. /\ pendingStreams' = pendingStreams \cup {r} /\ ackCh' = ackCh
        /\ q = IF s = r THEN "open" ELSE p
        /\ s = r => p = "track"
    BY <1>3, GotoEffect DEF TrackStream
  <2> QED
    BY <1>2, <2>1
<1>4. ASSUME NEW r \in Streams, OpenStreamFails(r) \/ AckTimeout(r) \/ WaitInterrupted(r)
      PROVE  Goal
  <2>1. /\ pendingStreams' = pendingStreams \ {r} /\ ackCh' = ackCh
        /\ q = IF s = r THEN "done" ELSE p
    BY <1>4, GotoEffect DEF OpenStreamFails, AckTimeout, WaitInterrupted, GiveUp
  <2> QED
    BY <1>2, <2>1
<1>5. ASSUME NEW r \in Streams, StreamAccepted(r) \/ StreamRefused(r)
      PROVE  Goal
  <2>1. /\ pendingStreams' = pendingStreams
        /\ ackCh[r] # "empty"
        /\ ackCh'[s] = IF s = r THEN "empty" ELSE ackCh[s]
        /\ s # r => q = p
    BY <1>5, GotoEffect, SMTT(30) DEF StreamAccepted, StreamRefused, TypeOK
  <2> QED
    BY <1>2, <2>1
<1>6. ASSUME NEW X \in Sides, HandleOpenStreamAck(X)
      PROVE  Goal
  <2>1. q = p /\ pendingStreams' = pendingStreams \ {current[X].stream}
    BY <1>6 DEF HandleOpenStreamAck, localVars
  <2>2. \/ ackCh'[s] \in {ackCh[s], "empty"}
        \/ s \notin pendingStreams' /\ s \in pendingStreams
    BY <2>1, AckFrame, <1>6 DEF HandleOpenStreamAck, TypeOK
  <2> QED
    BY <1>2, <2>1, <2>2
<1>7. ASSUME pendingStreams' = pendingStreams, ackCh' = ackCh,
             p = q \/ p \notin {"wait", "open"} \/ q \in {"wait", "open"}
      PROVE  Goal
  BY <1>1, <1>2, <1>7 DEF Moves
<1>8. ASSUME UNCHANGED openVars \/ UNCHANGED <<pendingStreams, ackCh>>
      PROVE  pendingStreams' = pendingStreams /\ ackCh' = ackCh
  BY <1>8 DEF openVars
<1>9. ASSUME NEW r \in Streams, SendOpenStream(r)
      PROVE  Goal
  <2>1. q = IF s = r THEN "wait" ELSE p
    BY <1>9, GotoEffect DEF SendOpenStream
  <2> QED
    BY <1>7, <1>8, <1>9, <2>1 DEF SendOpenStream
<1>10. ASSUME NEW r \in Streams, NEW X \in Sides,
              PumpCheck(X, r) \/ PumpRead(X, r) \/ PumpSend(X, r) \/ PumpSendFails(X, r)
              \/ PumpEnd(X, r) \/ RemoveStream(X, r)
       PROVE  Goal
  <2>1. q = p \/ p \in PumpPhases
    BY <1>10, GotoEffect DEF PumpCheck, PumpRead, PumpSend, PumpSendFails, PumpEnd,
       RemoveStream, PumpPhases
  <2> QED
    BY <1>7, <1>8, <1>10, <2>1 DEF PumpCheck, PumpRead, PumpSend, PumpSendFails, PumpEnd,
       RemoveStream, PumpPhases
<1>11. ASSUME NEW r \in Streams,
              DialOK(r) \/ DialFails(r) \/ Attach(r) \/ AttachTooLate(r) \/ DrainWrite(r)
              \/ DrainFails(r) \/ SendOpenStreamNack(r) \/ SendOpenStreamAck(r)
       PROVE  Goal
  <2>1. q = p
    BY <1>11, GotoEffect DEF DialOK, DialFails, Attach, AttachTooLate, DrainWrite, DrainFails,
       SendOpenStreamNack, SendOpenStreamAck
  <2> QED
    BY <1>7, <1>8, <1>11, <2>1 DEF DialOK, DialFails, Attach, AttachTooLate, DrainWrite,
       DrainFails, SendOpenStreamNack, SendOpenStreamAck
<1>12. CASE AcceptLocal
  <2>1. q = p \/ p = "idle"
    <3>1. PICK r \in Streams : r = nextStreamID'
      BY <1>12, MaxStreamsAssumption DEF AcceptLocal, TypeOK, Streams
    <3> QED
      BY <1>12, <3>1, GotoEffect DEF AcceptLocal
  <2> QED
    BY <1>7, <1>8, <1>12, <2>1 DEF AcceptLocal
<1>13. ASSUME NEW X \in Sides, HandleOpenStream(X)
       PROVE  Goal
  <2>1. q = p \/ p = "idle"
    <3>1. PICK r \in Streams : r = current[X].stream
      BY <1>13, HandlesFacts DEF HandleOpenStream
    <3> QED
      BY <1>13, <3>1, GotoEffect DEF HandleOpenStream
  <2> QED
    BY <1>7, <1>8, <1>13, <2>1 DEF HandleOpenStream
<1>14. ASSUME pc' = pc, pendingStreams' = pendingStreams, ackCh' = ackCh
       PROVE  Goal
  BY <1>7, <1>14
<1> HIDE DEF Goal
<1>15. ASSUME NEW X \in Sides, HandlerRuns(X) \/ ApplicationTakes(X)
       PROVE  Goal
  BY <1>6, <1>8, <1>13, <1>14, <1>15 DEF HandlerRuns, ApplicationTakes, HandlerCheck, Receive,
     ReceiveFails, HandleData, WriteFails, WriteData, HandleCloseStream, HandleDisconnect,
     HandlerExit, localVars
<1>16. CASE UNCHANGED vars \/ BrokerEnds \/ \E X \in Sides : CloseBegins(X) \/ CloseRuns(X)
  <2>1. pc' = pc /\ UNCHANGED openVars
    BY <1>16 DEF vars, localVars, BrokerEnds, CloseBegins, CloseRuns, CloseDisconnect,
       CloseHangUp, CloseSweep
  <2> QED
    BY <1>8, <1>14, <2>1
<1> QED
  BY <1>3, <1>4, <1>5, <1>9, <1>10, <1>11, <1>12, <1>15, <1>16, StepCases DEF Silent, Sends

\* A goroutine that is about to send OpenStream does so, or gives the stream up.
LEMMA OpenGoesToWait ==
    ASSUME TypeOK, PhaseInv, MessageInv, [Next]_vars, NEW s \in Streams,
           pc["connector"][s] = "open"
    PROVE  /\ pc'["connector"][s] = "wait" => SendOpenStream(s)
           /\ pc'["connector"][s] = "done" => OpenStreamFails(s)
<1> DEFINE Goal == /\ pc'["connector"][s] = "wait" => SendOpenStream(s)
                   /\ pc'["connector"][s] = "done" => OpenStreamFails(s)
<1> SUFFICES Goal
  OBVIOUS
<1> USE SideFacts
<1>1. ASSUME pc'["connector"][s] = pc["connector"][s]
      PROVE  Goal
  BY <1>1
<1>2. ASSUME NEW X \in Sides, NEW r \in Streams, NEW from, NEW to, Goto(X, r, from, to),
             from # "open"
      PROVE  Goal
  BY <1>1, <1>2, GotoEffect
<1>3. ASSUME NEW r \in Streams, SendOpenStream(r) \/ OpenStreamFails(r)
      PROVE  Goal
  <2>1. CASE r = s
    BY <1>3, <2>1, GotoEffect DEF SendOpenStream, OpenStreamFails
  <2>2. CASE r # s
    BY <1>1, <1>3, <2>2, GotoEffect DEF SendOpenStream, OpenStreamFails
  <2> QED
    BY <2>1, <2>2
<1> HIDE DEF Goal
<1>4. ASSUME NEW r \in Streams, Silent(r) \/ Sends(r)
      PROVE  Goal
  <2>1. \/ SendOpenStream(r) \/ OpenStreamFails(r)
        \/ pc' = pc
        \/ \E X \in Sides : \E from, to : Goto(X, r, from, to) /\ from # "open"
    BY <1>4 DEF Silent, Sends, TrackStream, StreamAccepted, StreamRefused, AckTimeout,
       WaitInterrupted, DialOK, DialFails, Attach, AttachTooLate, DrainWrite, DrainFails,
       PumpCheck, PumpRead, PumpSend, PumpSendFails, RemoveStream, SendOpenStreamNack,
       SendOpenStreamAck, PumpEnd
  <2> QED
    BY <1>1, <1>2, <1>3, <2>1
<1>5. CASE AcceptLocal
  <2>1. PICK r \in Streams : r = nextStreamID'
    BY <1>5, MaxStreamsAssumption DEF AcceptLocal, TypeOK, Streams
  <2> QED
    BY <1>2, <1>5, <2>1 DEF AcceptLocal
<1>6. ASSUME NEW X \in Sides, HandlerRuns(X) \/ ApplicationTakes(X)
      PROVE  Goal
  <2>1. CASE HandleOpenStream(X)
    <3>1. current[X].stream \in Streams
      BY <2>1, HandlesFacts DEF HandleOpenStream
    <3> QED
      BY <1>2, <2>1, <3>1 DEF HandleOpenStream
  <2> QED
    BY <1>1, <1>6, <2>1 DEF HandlerRuns, ApplicationTakes, HandlerCheck, Receive, ReceiveFails,
       HandleOpenStreamAck, HandleData, WriteFails, WriteData, HandleCloseStream,
       HandleDisconnect, HandlerExit, localVars
<1>7. CASE UNCHANGED vars \/ BrokerEnds \/ \E X \in Sides : CloseBegins(X) \/ CloseRuns(X)
  BY <1>1, <1>7 DEF vars, localVars, BrokerEnds, CloseBegins, CloseRuns, CloseDisconnect,
     CloseHangUp, CloseSweep
<1> QED
  BY <1>4, <1>5, <1>6, <1>7, StepCases

\* Every step keeps the order of Close, and what is tracked after the sweep.
LEMMA SweepInvStep ==
    ASSUME TypeOK, PhaseInv, MessageInv, SweepInv, [Next]_vars
    PROVE  SweepInv'
<1> USE SideFacts
<1>1. \A X \in Sides : link'[X] = "down" <=> closing'[X] \in {"sweep", "closed"}
  BY ClosingFrame DEF SweepInv, TypeOK
<1>2. ASSUME closing'["connector"] = "closed", NEW s \in streams'["connector"]
      PROVE  pc'["connector"][s] = "open"
  <2>1. s \in Streams
    BY <1>2, TypeOKStep DEF TypeOK
  <2>2. CASE CloseSweep("connector")
    BY <1>2, <2>2 DEF CloseSweep, TypeOK
  <2>3. CASE s \notin streams["connector"]
    BY <1>2, <2>1, <2>3, MapFrame
  <2>4. CASE closing["connector"] = "closed" /\ s \in streams["connector"]
    <3>1. pc["connector"][s] = "open" /\ link["connector"] = "down"
      BY <2>4 DEF SweepInv
    <3>2. CASE pc'["connector"][s] = "wait"
      <4>1. SendOpenStream(s)
        BY <2>1, <3>1, <3>2, OpenGoesToWait
      <4> QED
        BY <3>1, <4>1 DEF SendOpenStream, SendOK
    <3>3. CASE pc'["connector"][s] = "done"
      <4>1. OpenStreamFails(s)
        BY <2>1, <3>1, <3>3, OpenGoesToWait
      <4> QED
        BY <1>2, <2>1, <4>1, DropEffect DEF OpenStreamFails, GiveUp
    <3> QED
      BY <2>1, <3>1, <3>2, <3>3, PcFrame DEF Moves
  <2> QED
    BY <1>2, <2>2, <2>3, <2>4, ClosingFrame
<1> QED
  BY <1>1, <1>2 DEF SweepInv

\* Every step keeps open connections in the map or in good hands.
LEMMA ConnInvStep ==
    ASSUME TypeOK, PhaseInv, MessageInv, ConnInv, [Next]_vars
    PROVE  ConnInv'
<1> SUFFICES ASSUME NEW X \in Sides, NEW s \in Streams
             PROVE  conn'[X][s] = "open" =>
                        /\ \/ s \in streams'[X] /\ pc'[X][s] \notin {"idle", "dial", "refuse"}
                           \/ pc'[X][s] \in {"track", "attach"}
                        /\ pc'[X][s] = "done" => Closing(X)'
  BY DEF ConnInv
<1> DEFINE Goal ==
             conn'[X][s] = "open" =>
                        /\ \/ s \in streams'[X] /\ pc'[X][s] \notin {"idle", "dial", "refuse"}
                           \/ pc'[X][s] \in {"track", "attach"}
                        /\ pc'[X][s] = "done" => Closing(X)'
           Kept == conn'[X][s] = conn[X][s] /\ (s \in streams'[X] <=> s \in streams[X])
<1> SUFFICES Goal
  OBVIOUS
<1> USE SideFacts
<1>h. /\ conn[X][s] = "open" =>
            /\ \/ s \in streams[X] /\ pc[X][s] \notin {"idle", "dial", "refuse"}
               \/ pc[X][s] \in {"track", "attach"}
            /\ pc[X][s] = "done" => Closing(X)
      /\ Closing(X) => Closing(X)'
  BY ClosingFrame DEF ConnInv
<1>u. ASSUME Kept, pc'[X][s] = pc[X][s]
      PROVE  Goal
  BY <1>h, <1>u
<1>1. CASE AcceptLocal
  <2>1. PICK r \in Streams : r = nextStreamID'
    BY <1>1, MaxStreamsAssumption DEF AcceptLocal, TypeOK, Streams
  <2>2. /\ conn'[X][s] = IF X = "connector" /\ s = r THEN "open" ELSE conn[X][s]
        /\ streams' = streams
    <3>1. conn' = [conn EXCEPT !["connector"][r] = "open"] /\ streams' = streams
      BY <1>1, <2>1 DEF AcceptLocal
    <3>2. DOMAIN conn = Sides /\ DOMAIN conn[X] = Streams
      BY DEF TypeOK
    <3> QED
      BY <3>1, <3>2
  <2>3. Goto("connector", r, "idle", "track")
    BY <1>1, <2>1 DEF AcceptLocal
  <2>4. pc'[X][s] = IF X = "connector" /\ s = r THEN "track" ELSE pc[X][s]
    BY <2>3, GotoEffect
  <2> QED
    BY <1>u, <2>2, <2>4
<1>2. ASSUME NEW r \in Streams, TrackStream(r)
      PROVE  Goal
  <2>1. /\ conn' = conn
        /\ s \in streams'[X] <=> s \in streams[X] \/ (X = "connector" /\ s = r)
    BY <1>2, SMTT(30) DEF TrackStream, TypeOK
  <2>2. Goto("connector", r, "track", "open")
    BY <1>2 DEF TrackStream
  <2>3. pc'[X][s] = IF X = "connector" /\ s = r THEN "open" ELSE pc[X][s]
    BY <2>2, GotoEffect
  <2> QED
    BY <1>u, <2>1, <2>3
<1>3. ASSUME NEW r \in Streams,
             OpenStreamFails(r) \/ StreamRefused(r) \/ AckTimeout(r) \/ WaitInterrupted(r)
      PROVE  Goal
  <2>1. CloseLocal("connector", r)
    BY <1>3 DEF OpenStreamFails, StreamRefused, AckTimeout, WaitInterrupted, GiveUp
  <2>2. X # "connector" \/ s # r => pc'[X][s] = pc[X][s]
    <3>1. \E from \in {"open", "wait"} : Goto("connector", r, from, "done")
      BY <1>3 DEF OpenStreamFails, StreamRefused, AckTimeout, WaitInterrupted
    <3> QED
      BY <3>1, GotoEffect
  <2>3. /\ conn'[X][s] = IF X = "connector" /\ s = r THEN "closed" ELSE conn[X][s]
        /\ s \in streams'[X] <=> s \in streams[X] /\ ~(X = "connector" /\ s = r)
    BY <2>1, DropEffect
  <2> QED
    BY <1>u, <2>2, <2>3
<1>4. ASSUME UNCHANGED <<streams, conn>>,
             NEW Y \in Sides, NEW r \in Streams, NEW from, NEW to, Goto(Y, r, from, to),
             \/ from \notin {"idle", "dial", "refuse", "track", "attach", "done"}
                /\ to \notin {"idle", "dial", "refuse", "done"}
             \/ from \in {"idle", "refuse"}
      PROVE  Goal
  <2>1. /\ pc'[X][s] = IF X = Y /\ s = r THEN to ELSE pc[X][s]
        /\ X = Y /\ s = r => pc[X][s] = from
    BY <1>4, GotoEffect
  <2> QED
    BY <1>4, <1>h, <2>1
<1>5. ASSUME NEW r \in Streams,
             StreamAccepted(r) \/ SendOpenStream(r) \/ SendOpenStreamNack(r) \/ SendOpenStreamAck(r)
      PROVE  Goal
  BY <1>4, <1>5 DEF StreamAccepted, SendOpenStream, SendOpenStreamNack, SendOpenStreamAck
<1>6. ASSUME NEW r \in Streams, NEW Y \in Sides,
             PumpRead(Y, r) \/ PumpSend(Y, r) \/ PumpEnd(Y, r)
      PROVE  Goal
  BY <1>4, <1>6 DEF PumpRead, PumpSend, PumpEnd
<1>7. ASSUME NEW r \in Streams, DialOK(r) \/ AttachTooLate(r)
      PROVE  Goal
  <2>1. /\ \/ /\ conn'[X][s] = IF X = "listener" /\ s = r THEN "open" ELSE conn[X][s]
              /\ pc'[X][s] = IF X = "listener" /\ s = r THEN "attach" ELSE pc[X][s]
           \/ /\ conn'[X][s] = IF X = "listener" /\ s = r THEN "closed" ELSE conn[X][s]
              /\ pc'[X][s] = IF X = "listener" /\ s = r THEN "done" ELSE pc[X][s]
        /\ streams' = streams
    <3>1. CASE DialOK(r)
      <4>1. conn'[X][s] = IF X = "listener" /\ s = r THEN "open" ELSE conn[X][s]
        BY <3>1, SMTT(30) DEF DialOK, TypeOK
      <4>2. Goto("listener", r, "dial", "attach") /\ streams' = streams
        BY <3>1 DEF DialOK
      <4> QED
        BY <4>1, <4>2, GotoEffect
    <3>2. CASE AttachTooLate(r)
      <4>1. conn'[X][s] = IF X = "listener" /\ s = r THEN "closed" ELSE conn[X][s]
        BY <3>2, SMTT(30) DEF AttachTooLate, TypeOK
      <4>2. Goto("listener", r, "attach", "done") /\ streams' = streams
        BY <3>2 DEF AttachTooLate
      <4> QED
        BY <4>1, <4>2, GotoEffect
    <3> QED
      BY <1>7, <3>1, <3>2
  <2> QED
    BY <1>u, <2>1
<1>8. ASSUME NEW r \in Streams, DialFails(r) \/ Attach(r)
      PROVE  Goal
  <2>1. conn' = conn
    BY <1>8 DEF DialFails, Attach
  <2>2. CASE X = "listener" /\ s = r
    <3>1. \/ pc[X][s] = "dial"
          \/ pc'[X][s] = "drain" /\ s \in streams'[X]
      BY <1>8, <2>2, GotoEffect DEF DialFails, Attach
    <3> QED
      BY <1>h, <2>1, <3>1
  <2>3. CASE ~(X = "listener" /\ s = r)
    <3>1. s \in streams'[X] <=> s \in streams[X]
      BY <1>8, <2>3, SMTT(30) DEF DialFails, Attach, TypeOK
    <3>2. Goto("listener", r, "dial", "refuse") \/ Goto("listener", r, "attach", "drain")
      BY <1>8 DEF DialFails, Attach
    <3>3. pc'[X][s] = pc[X][s]
      BY <2>3, <3>2, GotoEffect
    <3> QED
      BY <1>u, <2>1, <3>1, <3>3
  <2> QED
    BY <2>2, <2>3
<1>9. ASSUME NEW r \in Streams, DrainWrite(r) \/ DrainFails(r)
      PROVE  Goal
  BY <1>9 DEF DrainWrite, DrainFails, PhaseInv
<1>10. ASSUME NEW r \in Streams, NEW Y \in Sides, PumpCheck(Y, r)
       PROVE  Goal
  <2>1. /\ UNCHANGED <<streams, conn>>
        /\ pc'[X][s] = IF X = Y /\ s = r THEN (IF Closing(Y) THEN "done" ELSE "read")
                       ELSE pc[X][s]
        /\ X = Y /\ s = r => pc[X][s] = "check"
    <3>1. PICK to : Goto(Y, r, "check", to) /\ to = IF Closing(Y) THEN "done" ELSE "read"
      BY <1>10 DEF PumpCheck
    <3>2. UNCHANGED <<streams, conn>>
      BY <1>10 DEF PumpCheck
    <3> QED
      BY <3>1, <3>2, GotoEffect
  <2> QED
    BY <1>h, <2>1
<1>11. ASSUME NEW Y \in Sides, NEW r \in Streams, CloseStream(Y, r),
              \/ pc' = pc
              \/ Goto(Y, r, "send", "done")
       PROVE  Goal
  <2>1. /\ conn'[X][s] = IF X = Y /\ s = r /\ Attached(Y, r) THEN "closed" ELSE conn[X][s]
        /\ s \in streams'[X] <=> s \in streams[X] /\ ~(X = Y /\ s = r)
    BY <1>11, DropEffect
  <2>2. CASE ~(X = Y /\ s = r)
    BY <1>u, <1>11, <2>1, <2>2, GotoEffect
  <2>3. CASE X = Y /\ s = r
    <3>1. Attached(X, s) \/ s \notin streams[X] \/ pc[X][s] \in {"dial", "refuse", "attach"}
      BY DEF Attached
    <3>2. pc'[X][s] = pc[X][s] \/ pc[X][s] = "send"
      BY <1>11, <2>3, GotoEffect
    <3> QED
      BY <1>h, <2>1, <2>3, <3>1, <3>2
  <2> QED
    BY <2>2, <2>3
<1>12. ASSUME NEW r \in Streams, NEW Y \in Sides, PumpSendFails(Y, r)
       PROVE  Goal
  BY <1>11, <1>12 DEF PumpSendFails
<1>13. ASSUME NEW r \in Streams, NEW Y \in Sides, RemoveStream(Y, r)
       PROVE  Goal
  <2>1. CASE ~(X = Y /\ s = r)
    <3>1. conn'[X][s] = conn[X][s]
      BY <1>13, <2>1 DEF RemoveStream, TypeOK
    <3>2. s \in streams'[X] <=> s \in streams[X]
      BY <1>13, <2>1, SMTT(30) DEF RemoveStream, TypeOK
    <3>3. Goto(Y, r, "remove", "done")
      BY <1>13 DEF RemoveStream
    <3>4. pc'[X][s] = pc[X][s]
      BY <2>1, <3>3, GotoEffect
    <3> QED
      BY <1>u, <3>1, <3>2, <3>4
  <2>2. CASE X = Y /\ s = r
    BY <1>13, <2>2 DEF RemoveStream, TypeOK
  <2> QED
    BY <2>1, <2>2
<1>14. ASSUME NEW Y \in Sides, HandlerRuns(Y) \/ ApplicationTakes(Y)
       PROVE  Goal
  <2>1. CASE HandleOpenStream(Y)
    <3>1. PICK r \in Streams : r = current[Y].stream
      BY <2>1, HandlesFacts DEF HandleOpenStream
    <3>2. /\ conn' = conn
          /\ s \in streams'[X] <=> s \in streams[X] \/ (X = Y /\ s = r)
      <4>1. conn' = conn /\ streams' = [streams EXCEPT ![Y] = @ \cup {r}]
        BY <2>1, <3>1 DEF HandleOpenStream
      <4>2. DOMAIN streams = Sides
        BY DEF TypeOK
      <4> QED
        BY <4>1, <4>2
    <3>3. Goto(Y, r, "idle", "dial")
      BY <2>1, <3>1 DEF HandleOpenStream
    <3>4. /\ X = Y /\ s = r => pc[X][s] = "idle"
          /\ ~(X = Y /\ s = r) => pc'[X][s] = pc[X][s]
      BY <3>3, GotoEffect
    <3> QED
      BY <1>h, <1>u, <3>2, <3>4
  <2>2. CASE HandleCloseStream(Y) \/ WriteFails(Y)
    <3>1. current[Y].stream \in Streams
      BY <2>2, HandlesFacts DEF HandleCloseStream, WriteFails, MessageInv, Truthful
    <3> QED
      BY <1>11, <2>2, <3>1 DEF HandleCloseStream, WriteFails
  <2>3. ASSUME UNCHANGED localVars \/ UNCHANGED <<streams, conn, pc>>
        PROVE  Goal
    BY <1>u, <2>3 DEF localVars
  <2> HIDE DEF Goal
  <2> QED
    BY <1>14, <2>1, <2>2, <2>3 DEF HandlerRuns, ApplicationTakes, HandlerCheck, Receive,
       ReceiveFails, HandleOpenStreamAck, HandleData, WriteData, HandleDisconnect, HandlerExit
<1>15. ASSUME NEW Y \in Sides, CloseBegins(Y) \/ CloseRuns(Y)
       PROVE  Goal
  <2>1. CASE CloseSweep(Y) /\ X = Y
    <3>1. /\ conn'[X][s] = IF Attached(X, s) THEN "closed" ELSE conn[X][s]
          /\ pc' = pc
      BY <2>1 DEF CloseSweep, TypeOK
    <3> QED
      BY <1>h, <3>1 DEF Attached
  <2>2. CASE CloseSweep(Y) /\ X # Y
    BY <1>u, <2>2 DEF CloseSweep, TypeOK
  <2>3. CASE ~CloseSweep(Y)
    BY <1>u, <1>15, <2>3 DEF CloseBegins, CloseRuns, CloseDisconnect, CloseHangUp, localVars
  <2> QED
    BY <2>1, <2>2, <2>3
<1>16. CASE UNCHANGED vars \/ BrokerEnds
  BY <1>u, <1>16 DEF vars, localVars, BrokerEnds
<1> HIDE DEF Goal
<1> QED
  BY <1>1, <1>2, <1>3, <1>5, <1>6, <1>7, <1>8, <1>9, <1>10, <1>12, <1>13, <1>14, <1>15, <1>16,
     StepCases DEF Silent, Sends
-----------------------------------------------------------------------------
(***************************************************************************)
(* The order of the chunks: first about queues, then about the steps.      *)
(***************************************************************************)

\* An empty queue holds no chunk.
LEMMA FlowEmpty ==
    ASSUME NEW s, NEW n
    PROVE  Flows(<<>>, s, n) /\ Reaches(<<>>, s, n, n)
<1>1. DataIn(<<>>, s) = {}
  BY EmptySeq DEF DataIn
<1> QED
  BY <1>1 DEF Flows, Reaches

\* A message leaves the queue: the rest goes on from it.
LEMMA FlowTail ==
    ASSUME NEW q \in Seq(Messages), q # <<>>, NEW s, NEW n \in Nat, NEW last \in Nat,
           NEW next \in Nat, next = IF IsData(Head(q), s) THEN Head(q).chunk ELSE n,
           Flows(q, s, n)
    PROVE  /\ IsData(Head(q), s) => Head(q).chunk = n + 1
           /\ Flows(Tail(q), s, next)
           /\ Reaches(q, s, n, last) => Reaches(Tail(q), s, next, last)
<1>1. /\ Head(q) = q[1] /\ Len(q) \in Nat /\ Len(q) > 0
      /\ Len(Tail(q)) = Len(q) - 1
      /\ \A i \in 1..Len(Tail(q)) : Tail(q)[i] = q[i + 1]
  BY HeadTailProperties, LenProperties, EmptySeq
<1>2. \A i \in DataIn(q, s) : i \in Nat /\ 1 <= i /\ i <= Len(q)
  BY <1>1 DEF DataIn
<1>3. \A i \in DataIn(Tail(q), s) :
          i \in Nat /\ 1 <= i /\ i + 1 \in DataIn(q, s) /\ Tail(q)[i] = q[i + 1]
  BY <1>1 DEF DataIn
<1>4. \A i \in DataIn(q, s) : i # 1 => i - 1 \in DataIn(Tail(q), s)
  BY <1>1 DEF DataIn
<1>5. 1 \in DataIn(q, s) <=> IsData(Head(q), s)
  BY <1>1 DEF DataIn
<1>6. IsData(Head(q), s) => Head(q).chunk = n + 1
  BY <1>1, <1>2, <1>5 DEF Flows
<1>7. ASSUME NEW j \in DataIn(Tail(q), s), \A i \in DataIn(Tail(q), s) : j <= i
      PROVE  Tail(q)[j].chunk = next + 1
  <2>1. ASSUME NEW i \in DataIn(q, s)
        PROVE  i = 1 \/ j + 1 <= i
    <3>1. i \in Nat /\ j \in Nat
      BY <1>2, <1>3
    <3>2. i = 1 \/ j <= i - 1
      BY <1>4, <1>7
    <3> QED
      BY <3>1, <3>2
  <2>2. CASE IsData(Head(q), s)
    <3>1. 1 \in DataIn(q, s) /\ j + 1 \in DataIn(q, s) /\ 1 < j + 1
      BY <1>3, <1>5, <2>2
    <3>2. \A k \in DataIn(q, s) : k <= 1 \/ j + 1 <= k
      BY <1>2, <2>1
    <3>3. q[j + 1].chunk = q[1].chunk + 1
      BY <3>1, <3>2 DEF Flows
    <3> QED
      BY <1>1, <1>3, <2>2, <3>3
  <2>3. CASE ~IsData(Head(q), s)
    <3>1. \A i \in DataIn(q, s) : j + 1 <= i
      BY <1>5, <2>1, <2>3
    <3>2. q[j + 1].chunk = n + 1
      BY <1>3, <3>1 DEF Flows
    <3> QED
      BY <1>3, <2>3, <3>2
  <2> QED
    BY <2>2, <2>3
<1>8. ASSUME NEW i \in DataIn(Tail(q), s), NEW j \in DataIn(Tail(q), s), i < j,
             \A k \in DataIn(Tail(q), s) : k <= i \/ j <= k
      PROVE  Tail(q)[j].chunk = Tail(q)[i].chunk + 1
  <2>1. /\ i + 1 \in DataIn(q, s) /\ j + 1 \in DataIn(q, s) /\ i + 1 < j + 1
        /\ Tail(q)[i] = q[i + 1] /\ Tail(q)[j] = q[j + 1]
    <3>1. i \in Nat /\ j \in Nat
      BY <1>3
    <3>2. i + 1 < j + 1
      BY <1>8, <3>1
    <3>3. /\ i + 1 \in DataIn(q, s) /\ Tail(q)[i] = q[i + 1]
          /\ j + 1 \in DataIn(q, s) /\ Tail(q)[j] = q[j + 1]
      BY <1>3
    <3> QED
      BY <3>2, <3>3
  <2>2. ASSUME NEW k \in DataIn(q, s)
        PROVE  k <= i + 1 \/ j + 1 <= k
    <3>1. CASE k = 1
      BY <1>3, <3>1
    <3>2. CASE k # 1
      <4>1. k \in Nat /\ i \in Nat /\ j \in Nat
        BY <1>2, <1>3
      <4>2. k - 1 <= i \/ j <= k - 1
        BY <1>4, <1>8, <3>2
      <4> QED
        BY <4>1, <4>2
    <3> QED
      BY <3>1, <3>2
  <2>3. q[j + 1].chunk = q[i + 1].chunk + 1
    BY <2>1, <2>2 DEF Flows
  <2> QED
    BY <2>1, <2>3
<1>9. ASSUME Reaches(q, s, n, last)
      PROVE  Reaches(Tail(q), s, next, last)
  <2>1. ASSUME DataIn(Tail(q), s) = {}
        PROVE  next = last
    <3>1. \A i \in DataIn(q, s) : i = 1
      BY <1>4, <2>1
    <3>2. CASE IsData(Head(q), s)
      BY <1>1, <1>5, <1>9, <3>1, <3>2 DEF Reaches
    <3>3. CASE ~IsData(Head(q), s)
      <4>1. DataIn(q, s) = {}
        BY <1>5, <3>1, <3>3
      <4> QED
        BY <1>9, <3>3, <4>1 DEF Reaches
    <3> QED
      BY <3>2, <3>3
  <2>2. ASSUME NEW j \in DataIn(Tail(q), s), \A i \in DataIn(Tail(q), s) : i <= j
        PROVE  Tail(q)[j].chunk = last
    <3>1. j + 1 \in DataIn(q, s) /\ Tail(q)[j] = q[j + 1]
      BY <1>3
    <3>2. ASSUME NEW i \in DataIn(q, s)
          PROVE  i <= j + 1
      <4>1. i \in Nat /\ j \in Nat /\ 1 <= j
        BY <1>2, <1>3
      <4>2. i = 1 \/ i - 1 <= j
        BY <1>4, <2>2
      <4> QED
        BY <4>1, <4>2
    <3> QED
      BY <1>9, <3>1, <3>2 DEF Reaches
  <2> QED
    BY <2>1, <2>2 DEF Reaches
<1> QED
  BY <1>6, <1>7, <1>8, <1>9 DEF Flows

\* A message is appended to a queue from which nothing was lost: if it is the next
\* chunk, the stream reaches it.
LEMMA FlowAppend ==
    ASSUME NEW q \in Seq(Messages), NEW m \in Messages, NEW s, NEW n \in Nat,
           NEW last \in Nat, NEW next \in Nat,
           next = IF IsData(m, s) THEN last + 1 ELSE last,
           IsData(m, s) => m.chunk = next,
           Flows(q, s, n), Reaches(q, s, n, last)
    PROVE  Flows(Append(q, m), s, n) /\ Reaches(Append(q, m), s, n, next)
<1> DEFINE r == Append(q, m)
           e == Len(q) + 1
<1>1. /\ Len(q) \in Nat /\ e \in Nat /\ Len(r) = e
      /\ r[e] = m
      /\ \A i \in 1..Len(q) : r[i] = q[i]
  BY AppendProperties, LenProperties
<1>2. \A i \in DataIn(q, s) : i \in Nat /\ i < e /\ i \in DataIn(r, s) /\ r[i] = q[i]
  BY <1>1 DEF DataIn
<1>3. \A i \in DataIn(r, s) : i \in DataIn(q, s) \/ (i = e /\ IsData(m, s))
  BY <1>1 DEF DataIn
<1>4. IsData(m, s) => e \in DataIn(r, s)
  BY <1>1 DEF DataIn
<1> HIDE DEF r, e
<1>5. ASSUME NEW j \in DataIn(r, s), \A i \in DataIn(r, s) : j <= i
      PROVE  r[j].chunk = n + 1
  <2>1. CASE j \in DataIn(q, s)
    BY <1>2, <1>5, <2>1 DEF Flows
  <2>2. CASE j = e /\ IsData(m, s)
    <3>1. ASSUME NEW i \in DataIn(q, s)
          PROVE  FALSE
      <4>1. i \in Nat /\ e \in Nat /\ i < e /\ e <= i
        BY <1>1, <1>2, <1>5, <2>2
      <4> QED
        BY <4>1
    <3>2. n = last
      BY <3>1 DEF Reaches
    <3> QED
      BY <1>1, <2>2, <3>2
  <2> QED
    BY <1>3, <2>1, <2>2
<1>6. ASSUME NEW i \in DataIn(r, s), NEW j \in DataIn(r, s), i < j,
             \A k \in DataIn(r, s) : k <= i \/ j <= k
      PROVE  r[j].chunk = r[i].chunk + 1
  <2>1. i \in DataIn(q, s) /\ r[i] = q[i]
    BY <1>1, <1>2, <1>3, <1>6
  <2>2. CASE j \in DataIn(q, s)
    <3>1. \A k \in DataIn(q, s) : k <= i \/ j <= k
      BY <1>2, <1>6
    <3> QED
      BY <1>2, <1>6, <2>1, <2>2, <3>1 DEF Flows
  <2>3. CASE j = e /\ IsData(m, s)
    <3>1. \A k \in DataIn(q, s) : k <= i
      BY <1>1, <1>2, <1>6, <2>3
    <3>2. q[i].chunk = last
      BY <2>1, <3>1 DEF Reaches
    <3> QED
      BY <1>1, <2>1, <2>3, <3>2
  <2> QED
    BY <1>3, <2>2, <2>3
<1>7. ASSUME DataIn(r, s) = {}
      PROVE  n = next
  BY <1>2, <1>4, <1>7 DEF Reaches
<1>8. ASSUME NEW j \in DataIn(r, s), \A i \in DataIn(r, s) : i <= j
      PROVE  r[j].chunk = next
  <2>1. CASE IsData(m, s)
    <3>1. j = e
      BY <1>1, <1>2, <1>3, <1>4, <1>8, <2>1
    <3> QED
      BY <1>1, <2>1, <3>1
  <2>2. CASE ~IsData(m, s)
    <3>1. j \in DataIn(q, s) /\ \A i \in DataIn(q, s) : i <= j
      BY <1>2, <1>3, <1>8, <2>2
    <3> QED
      BY <1>2, <2>2, <3>1 DEF Reaches
  <2> QED
    BY <2>1, <2>2
<1> QED
  BY <1>5, <1>6, <1>7, <1>8 DEF Flows, Reaches, r

\* Only handleData writes to a local connection: the drain has nothing to write.
LEMMA OutFrame ==
    ASSUME TypeOK, PhaseInv, MessageInv, [Next]_vars, NEW X \in Sides, NEW s \in Streams
    PROVE  \/ out'[X][s] = out[X][s]
           \/ /\ WriteData(X) /\ current[X].stream = s
              /\ out'[X][s] = Append(out[X][s], current[X].chunk)
<1>1. ASSUME NEW Y \in Sides, WriteData(Y)
      PROVE  \/ out'[X][s] = out[X][s]
             \/ /\ WriteData(X) /\ current[X].stream = s
                /\ out'[X][s] = Append(out[X][s], current[X].chunk)
  <2>1. current[Y].stream \in Streams
    BY <1>1 DEF WriteData, InWrite, MessageInv, Truthful
  <2> QED
    BY <1>1, <2>1 DEF WriteData, WriteLocal, TypeOK
<1>2. ASSUME NEW r \in Streams, DrainWrite(r)
      PROVE  FALSE
  BY <1>2 DEF DrainWrite, PhaseInv
<1>3. \/ out' = out
      \/ \E Y \in Sides : WriteData(Y)
  BY <1>2, StepCases, ZenonT(60) DEF Silent, Sends, vars, dataVars, AcceptLocal, TrackStream,
     OpenStreamFails, GiveUp, StreamAccepted, StreamRefused, AckTimeout, WaitInterrupted,
     DialOK, DialFails, Attach, AttachTooLate, DrainFails, PumpCheck, PumpRead, PumpSend,
     PumpSendFails, RemoveStream, SendOpenStream, SendOpenStreamNack, SendOpenStreamAck,
     PumpEnd, HandlerRuns, ApplicationTakes, HandlerCheck, Receive, ReceiveFails,
     HandleOpenStream, HandleOpenStreamAck, HandleData, WriteFails, HandleCloseStream,
     HandleDisconnect, HandlerExit, CloseBegins, CloseRuns, CloseDisconnect, CloseHangUp,
     CloseSweep, BrokerEnds
<1> QED
  BY <1>1, <1>3

\* A stream that can neither get into the map nor is in it stays so.
LEMMA LiveFrame ==
    ASSUME TypeOK, PhaseInv, MessageInv, [Next]_vars, NEW X \in Sides, NEW s \in Streams,
           Live(X, s)'
    PROVE  Live(X, s)
<1>1. CASE pc'[X][s] \in {"idle", "track"}
  BY <1>1, ProgressFrame DEF Live
<1>2. CASE s \in streams'[X]
  BY <1>2, MapFrame DEF Live
<1> QED
  BY <1>1, <1>2 DEF Live

\* What becomes of the message handleMessages has in hand.  A chunk is written, or
\* dropped because its stream is not in the map any more.
LEMMA HandFrame ==
    ASSUME TypeOK, PhaseInv, MessageInv, [Next]_vars, NEW X \in Sides, NEW s \in Streams
    PROVE  \/ /\ current'[X] = current[X] /\ out'[X][s] = out[X][s]
              /\ \/ handler'[X] = handler[X]
                 \/ handler'[X] # "write"
                 \/ HandleData(X) /\ Attached(X, current[X].stream)
           \/ Receive(X) /\ out'[X][s] = out[X][s]
           \/ /\ UNCHANGED relayVars /\ current'[X] = NoMessage /\ sent' = sent
              /\ \/ /\ handler[X] = "write" /\ current[X].stream = s
                    /\ out'[X][s] = Append(out[X][s], current[X].chunk)
                 \/ ~IsData(current[X], s) /\ out'[X][s] = out[X][s]
                 \/ ~Live(X, s)' /\ out'[X][s] = out[X][s]
<1> DEFINE Goal ==
           \/ /\ current'[X] = current[X] /\ out'[X][s] = out[X][s]
              /\ \/ handler'[X] = handler[X]
                 \/ handler'[X] # "write"
                 \/ HandleData(X) /\ Attached(X, current[X].stream)
           \/ Receive(X) /\ out'[X][s] = out[X][s]
           \/ /\ UNCHANGED relayVars /\ current'[X] = NoMessage /\ sent' = sent
              /\ \/ /\ handler[X] = "write" /\ current[X].stream = s
                    /\ out'[X][s] = Append(out[X][s], current[X].chunk)
                 \/ ~IsData(current[X], s) /\ out'[X][s] = out[X][s]
                 \/ ~Live(X, s)' /\ out'[X][s] = out[X][s]
<1> SUFFICES Goal
  OBVIOUS
<1>1. CASE WriteData(X)
  <2>1. /\ UNCHANGED relayVars /\ sent' = sent /\ handler[X] = "write"
        /\ current'[X] = NoMessage
    BY <1>1 DEF WriteData, InWrite, TypeOK
  <2>2. current[X].stream \in Streams
    BY <2>1 DEF MessageInv, Truthful
  <2>3. out'[X][s] = IF current[X].stream = s THEN Append(out[X][s], current[X].chunk)
                     ELSE out[X][s]
    BY <1>1, <2>2 DEF WriteData, WriteLocal, TypeOK
  <2> QED
    BY <2>1, <2>3 DEF IsData
<1>2. CASE ~WriteData(X)
  <2>0. out'[X][s] = out[X][s]
    BY <1>2, OutFrame
  <2>1. CASE handler'[X] = handler[X] /\ current'[X] = current[X]
    BY <2>0, <2>1
  <2>2. CASE HandlerCheck(X) \/ ReceiveFails(X) \/ HandlerExit(X)
    <3>1. current' = current /\ handler'[X] # "write"
      BY <2>2 DEF HandlerCheck, ReceiveFails, HandlerExit, TypeOK
    <3> QED
      BY <2>0, <3>1
  <2>3. ASSUME NEW type \in {"OpenStream", "OpenStreamAck", "OpenStreamNack", "CloseStream",
                             "Disconnect"},
               NEW to \in {"check", "close"}, Handles(X, type, to), sent' = sent
        PROVE  Goal
    <3>1. UNCHANGED relayVars /\ current'[X] = NoMessage /\ current[X].type = type
      BY <2>3 DEF Handles, TypeOK
    <3> QED
      BY <2>0, <2>3, <3>1 DEF IsData
  <2>4. CASE HandleOpenStream(X) \/ HandleOpenStreamAck(X) \/ HandleCloseStream(X)
             \/ HandleDisconnect(X)
    <3>1. sent' = sent
      BY <2>4 DEF HandleOpenStream, HandleOpenStreamAck, HandleCloseStream, HandleDisconnect,
                  dataVars
    <3> HIDE DEF Goal
    <3> QED
      BY <2>3, <2>4, <3>1 DEF HandleOpenStream, HandleOpenStreamAck, HandleCloseStream,
                              HandleDisconnect
  <2>5. ASSUME NEW r \in Streams, r = current[X].stream, current[X] # NoMessage,
               current[X].type = "Data", r \notin streams'[X], pc' = pc,
               UNCHANGED relayVars, current'[X] = NoMessage, sent' = sent
        PROVE  Goal
    <3>1. CASE r = s
      <4>1. pc[X][s] \in {"wait"} \cup PumpPhases
        BY <2>5, <3>1, DataFacts DEF MessageInv
      <4>2. ~Live(X, s)'
        BY <2>5, <3>1, <4>1 DEF Live, PumpPhases
      <4> QED
        BY <2>0, <2>5, <4>2
    <3>2. CASE r # s
      BY <2>0, <2>5, <3>2 DEF IsData
    <3> QED
      BY <3>1, <3>2
  <2>6. CASE HandleData(X)
    <3>1. CASE Attached(X, current[X].stream)
      <4>1. current'[X] = current[X]
        BY <2>6, <3>1 DEF HandleData, Handles, TypeOK
      <4> QED
        BY <2>0, <2>6, <3>1, <4>1
    <3>2. CASE ~Attached(X, current[X].stream)
      <4>1. /\ Handles(X, "Data", "check")
            /\ UNCHANGED <<streams, pc, sent>>
        BY <2>6, <3>2 DEF HandleData, dataVars
      <4>2. /\ current[X] # NoMessage /\ current[X].type = "Data"
            /\ Truthful(X, current[X]) /\ current[X].stream \in Streams
        BY <4>1, HandlesFacts
      <4>3. pc[X][current[X].stream] \in {"wait"} \cup PumpPhases
        BY <4>2, DataFacts
      <4>4. current[X].stream \notin streams[X]
        BY <3>2, <4>3 DEF Attached, PumpPhases
      <4>5. UNCHANGED relayVars /\ current'[X] = NoMessage
        BY <4>1 DEF Handles, TypeOK
      <4> HIDE DEF Goal
      <4> QED
        BY <2>5, <4>1, <4>2, <4>4, <4>5
    <3> QED
      BY <3>1, <3>2
  <2>7. CASE WriteFails(X)
    <3>1. /\ CloseStream(X, current[X].stream) /\ handler[X] = "write"
          /\ UNCHANGED <<relayVars, pc, sent>>
      BY <2>7 DEF WriteFails, dataVars
    <3>2. /\ current[X] # NoMessage /\ current[X].type = "Data"
          /\ current[X].stream \in Streams
      BY <3>1 DEF MessageInv, Truthful
    <3>3. current'[X] = NoMessage
      BY <2>7 DEF WriteFails, TypeOK
    <3>4. current[X].stream \notin streams'[X]
      BY <3>1, <3>2, DropEffect
    <3> HIDE DEF Goal
    <3> QED
      BY <2>5, <3>1, <3>2, <3>3, <3>4
  <2>8. CASE Receive(X)
    BY <2>0, <2>8
  <2> HIDE DEF Goal
  <2> QED
    BY <1>2, <2>1, <2>2, <2>4, <2>6, <2>7, <2>8, HandlerFrame DEF HandlerRuns, ApplicationTakes
<1> QED
  BY <1>1, <1>2

\* A chunk is counted when it is sent, and lost only when nobody relays it.
LEMMA PumpSendEffect ==
    ASSUME TypeOK, NEW X \in Sides, NEW s \in Streams, PumpSend(Peer(X), s)
    PROVE  /\ sent'[Peer(X)][s] = sent[Peer(X)][s] + 1
           /\ \/ Appends(X, Message("Data", s, sent[Peer(X)][s] + 1))
              \/ ~(relay /\ link[X] = "up") /\ UNCHANGED relayVars
<1>1. PICK Y \in Sides : Y = Peer(X) /\ Peer(Y) = X
  BY SideFacts
<1>2. sent'[Y][s] = sent[Y][s] + 1
  BY <1>1 DEF PumpSend, TypeOK
<1>3. SendOK(Y, Message("Data", s, sent[Y][s] + 1))
  BY <1>1 DEF PumpSend
<1> QED
  BY <1>1, <1>2, <1>3 DEF SendOK, Appends, relayVars

\* Every step writes the chunks of a stream in order, and loses none in between.
LEMMA OrderInvStep ==
    ASSUME TypeOK, PhaseInv, MessageInv, OrderInv, [Next]_vars
    PROVE  OrderInv'
<1>t. TypeOK' /\ MessageInv'
  BY TypeOKStep, MessageInvStep
<1> SUFFICES ASSUME NEW X \in Sides, NEW s \in Streams
             PROVE  /\ WrittenInv(X, s)'
                    /\ Live(X, s)' => FlowInv(X, s)'
                    /\ Live(X, s)' /\ relay' /\ link'[X] = "up" => ReachInv(X, s)'
  BY DEF OrderInv
<1>p. PICK P \in Sides : P = Peer(X) /\ Peer(P) = X
  BY SideFacts
<1>n. /\ out[X][s] \in Seq(Nat) /\ Len(out[X][s]) \in Nat /\ sent[P][s] \in Nat
      /\ queue[X] \in Seq(Messages) /\ Len(queue[X]) \in Nat
      /\ Len(out'[X][s]) \in Nat /\ sent'[P][s] \in Nat
      /\ sent[P][s] <= sent'[P][s]
  <2>1. /\ out[X][s] \in Seq(Nat) /\ sent[P][s] \in Nat /\ queue[X] \in Seq(Messages)
    BY DEF TypeOK
  <2>2. out'[X][s] \in Seq(Nat) /\ sent'[P][s] \in Nat
    BY <1>t DEF TypeOK
  <2> QED
    BY <2>1, <2>2, LenProperties, ProgressFrame
<1>h. /\ WrittenInv(X, s)
      /\ Live(X, s)' => FlowInv(X, s)
      /\ Live(X, s)' /\ relay /\ link[X] = "up" => ReachInv(X, s)
  BY LiveFrame DEF OrderInv
<1>i. InHand(X, s) \in Nat
  <2>1. IsData(current[X], s) => current[X].chunk \in Nat
    BY MessageFacts DEF TypeOK, IsData, Messages, NoMessage, Message
  <2> QED
    BY <1>n, <2>1 DEF InHand
<1>l. relay' /\ link'[X] = "up" => relay /\ link[X] = "up"
  BY ClosingFrame DEF TypeOK
\* What is written.
<1>1. WrittenInv(X, s)'
  <2>1. CASE out'[X][s] = out[X][s] /\ current'[X] = current[X]
             /\ (handler'[X] = handler[X] \/ handler'[X] # "write")
    BY <1>h, <1>n, <1>p, <2>1 DEF WrittenInv
  <2>2. CASE out'[X][s] = out[X][s] /\ current'[X] = current[X]
             /\ HandleData(X) /\ Attached(X, current[X].stream)
    <3>1. current[X].stream = s => Live(X, s) /\ IsData(current[X], s)
      BY <2>2, HandlesFacts DEF HandleData, Attached, Live, IsData
    <3>2. current[X].stream = s => current[X].chunk = Len(out[X][s]) + 1
      BY <3>1 DEF OrderInv, FlowInv
    <3> QED
      BY <1>h, <1>n, <1>p, <2>2, <3>2 DEF WrittenInv
  <2>3. CASE Receive(X) /\ out'[X][s] = out[X][s]
    <3>1. handler'[X] = "dispatch"
      BY <2>3 DEF Receive, TypeOK
    <3> QED
      BY <1>h, <1>n, <1>p, <2>3, <3>1 DEF WrittenInv
  <2>4. CASE current'[X] = NoMessage /\ out'[X][s] = out[X][s]
    <3>1. handler'[X] # "write"
      BY <1>t, <2>4, MessageFacts DEF MessageInv
    <3> QED
      BY <1>h, <1>n, <1>p, <2>4, <3>1 DEF WrittenInv
  <2>5. CASE /\ current'[X] = NoMessage /\ sent' = sent
             /\ handler[X] = "write" /\ current[X].stream = s
             /\ out'[X][s] = Append(out[X][s], current[X].chunk)
    <3>1. handler'[X] # "write"
      BY <1>t, <2>5, MessageFacts DEF MessageInv
    <3>2. current[X].chunk = Len(out[X][s]) + 1
      BY <1>h, <2>5 DEF WrittenInv
    <3>3. current[X].chunk \in 1..sent[P][s]
      BY <1>p, <2>5 DEF MessageInv, Truthful
    <3>4. current[X].chunk \in Nat
      BY <1>n, <3>2
    <3>5. /\ Len(out'[X][s]) = Len(out[X][s]) + 1
          /\ \A i \in 1..Len(out[X][s]) : out'[X][s][i] = out[X][s][i]
          /\ out'[X][s][Len(out[X][s]) + 1] = current[X].chunk
      BY <1>n, <2>5, <3>4, AppendProperties
    <3>6. Len(out'[X][s]) <= sent'[P][s]
      BY <1>n, <2>5, <3>2, <3>3, <3>5
    <3>7. ASSUME NEW i \in 1..Len(out'[X][s])
          PROVE  out'[X][s][i] = i
      <4>1. i \in 1..Len(out[X][s]) \/ i = Len(out[X][s]) + 1
        BY <1>n, <3>5
      <4>2. \A j \in 1..Len(out[X][s]) : out[X][s][j] = j
        BY <1>h DEF WrittenInv
      <4> QED
        BY <3>2, <3>5, <4>1, <4>2
    <3> QED
      BY <1>p, <3>1, <3>6, <3>7 DEF WrittenInv
  <2> QED
    BY <2>1, <2>2, <2>3, <2>4, <2>5, HandFrame
\* What is on its way.
<1> SUFFICES ASSUME Live(X, s)'
             PROVE  FlowInv(X, s)' /\ (relay' /\ link'[X] = "up" => ReachInv(X, s)')
  BY <1>1
<1>f. /\ IsData(current[X], s) => current[X].chunk = Len(out[X][s]) + 1
      /\ Flows(queue[X], s, InHand(X, s))
      /\ relay /\ link[X] = "up" => Reaches(queue[X], s, InHand(X, s), sent[P][s])
  BY <1>h, <1>p DEF FlowInv, ReachInv
<1>g. ASSUME /\ IsData(current'[X], s) => current'[X].chunk = Len(out'[X][s]) + 1
             /\ Flows(queue'[X], s, InHand(X, s)')
             /\ relay' /\ link'[X] = "up" => Reaches(queue'[X], s, InHand(X, s)', sent'[P][s])
      PROVE  FlowInv(X, s)' /\ (relay' /\ link'[X] = "up" => ReachInv(X, s)')
  BY <1>g, <1>p DEF FlowInv, ReachInv
<1>2. CASE Receive(X)
  <2>1. /\ queue[X] # <<>> /\ current'[X] = Head(queue[X]) /\ queue'[X] = Tail(queue[X])
        /\ UNCHANGED <<relay, link, sent, out>> /\ handler[X] = "receive"
    BY <1>2 DEF Receive, TypeOK, dataVars
  <2>2. ~IsData(current[X], s)
    BY <2>1, MessageFacts DEF MessageInv, IsData
  <2>3. InHand(X, s) = Len(out[X][s])
    BY <2>2 DEF InHand
  <2>4. Head(queue[X]) \in Messages
    BY <1>n, <2>1, HeadTailProperties
  <2>5. InHand(X, s)' = IF IsData(Head(queue[X]), s) THEN Head(queue[X]).chunk
                        ELSE InHand(X, s)
    BY <2>1, <2>3 DEF InHand
  <2>6. InHand(X, s)' \in Nat
    BY <1>i, <2>4, <2>5 DEF Messages
  <2>7. /\ IsData(Head(queue[X]), s) => Head(queue[X]).chunk = InHand(X, s) + 1
        /\ Flows(Tail(queue[X]), s, InHand(X, s)')
        /\ Reaches(queue[X], s, InHand(X, s), sent[P][s]) =>
               Reaches(Tail(queue[X]), s, InHand(X, s)', sent[P][s])
    <3>1. PICK n \in Nat : n = InHand(X, s)
      BY <1>i
    <3>2. PICK next \in Nat : next = InHand(X, s)'
      BY <2>6
    <3> QED
      BY <1>f, <1>n, <2>1, <2>5, <3>1, <3>2, FlowTail
  <2> QED
    BY <1>f, <1>g, <2>1, <2>3, <2>7
<1>3. CASE CloseHangUp(X)
  <2>1. /\ queue'[X] = <<>> /\ link'[X] = "down"
        /\ UNCHANGED <<current, out>>
    BY <1>3 DEF CloseHangUp, TypeOK, handleVars, dataVars
  <2>2. Flows(queue'[X], s, InHand(X, s)')
    BY <2>1, FlowEmpty
  <2> QED
    BY <1>f, <1>g, <2>1, <2>2
<1>4. ASSUME NEW m \in Messages, Appends(X, m),
             m.type = "Data" => /\ PumpSend(Peer(X), m.stream)
                                /\ m.chunk = sent[Peer(X)][m.stream] + 1
      PROVE  FlowInv(X, s)' /\ (relay' /\ link'[X] = "up" => ReachInv(X, s)')
  <2>1. queue'[X] = Append(queue[X], m) /\ relay /\ link[X] = "up"
    BY <1>4 DEF Appends, TypeOK
  <2>2. Len(queue'[X]) = Len(queue[X]) + 1 /\ queue'[X][Len(queue[X]) + 1] = m
    BY <1>n, <2>1, AppendProperties
  <2>3. ~Receive(X)
    <3>1. SUFFICES ASSUME Receive(X) PROVE FALSE
      OBVIOUS
    <3>2. queue'[X] = Tail(queue[X]) /\ queue[X] # <<>>
      BY <3>1 DEF Receive, TypeOK
    <3>3. Len(queue'[X]) = Len(queue[X]) - 1
      BY <1>n, <3>2, HeadTailProperties
    <3> QED
      BY <1>n, <2>2, <3>3
  <2>4. current'[X] = current[X] /\ out'[X][s] = out[X][s]
    <3>1. ~UNCHANGED relayVars
      BY <1>n, <2>2 DEF relayVars
    <3> QED
      BY <2>3, <3>1, HandFrame
  <2>5. CASE IsData(m, s)
    <3>1. sent'[P][s] = sent[P][s] + 1 /\ m.chunk = sent[P][s] + 1
      BY <1>4, <1>p, <2>5, PumpSendEffect DEF IsData
    <3>2. /\ Flows(Append(queue[X], m), s, InHand(X, s))
          /\ Reaches(Append(queue[X], m), s, InHand(X, s), sent'[P][s])
      BY <1>f, <1>i, <1>n, <2>1, <2>5, <3>1, FlowAppend
    <3>3. InHand(X, s)' = InHand(X, s)
      BY <2>4 DEF InHand
    <3> QED
      BY <1>f, <1>g, <2>1, <2>4, <3>2, <3>3
  <2>6. CASE ~IsData(m, s)
    <3>1. sent'[P][s] = sent[P][s]
      <4>1. SUFFICES ASSUME PumpSend(P, s) PROVE FALSE
        BY SentFrame
      <4>2. PICK c : /\ c = Message("Data", s, sent[P][s] + 1)
                     /\ Appends(X, c) \/ ~(relay /\ link[X] = "up")
        BY <1>p, <4>1, PumpSendEffect
      <4>3. c \in Messages
        BY <1>n, <4>2, MessageFacts
      <4>c. IsData(c, s)
        BY <4>2 DEF IsData, Message
      <4>4. queue'[X] = Append(queue[X], c)
        BY <2>1, <4>2 DEF Appends, TypeOK
      <4>5. queue'[X][Len(queue[X]) + 1] = c
        BY <1>n, <4>3, <4>4, AppendProperties
      <4> QED
        BY <2>2, <2>6, <4>c, <4>5
    <3>2. /\ Flows(Append(queue[X], m), s, InHand(X, s))
          /\ Reaches(Append(queue[X], m), s, InHand(X, s), sent'[P][s])
      BY <1>f, <1>i, <1>n, <2>1, <2>6, <3>1, FlowAppend
    <3>3. InHand(X, s)' = InHand(X, s)
      BY <2>4 DEF InHand
    <3> QED
      BY <1>f, <1>g, <2>1, <2>4, <3>2, <3>3
  <2> QED
    BY <2>5, <2>6
<1>5. CASE queue'[X] = queue[X] /\ ~Receive(X)
  <2>1. relay /\ link[X] = "up" => sent'[P][s] = sent[P][s]
    <3>1. SUFFICES ASSUME relay /\ link[X] = "up", PumpSend(P, s) PROVE FALSE
      BY SentFrame
    <3>2. PICK c : /\ c = Message("Data", s, sent[P][s] + 1)
                   /\ Appends(X, c)
      BY <1>p, <3>1, PumpSendEffect
    <3>3. c \in Messages
      BY <1>n, <3>2, MessageFacts
    <3>4. queue'[X] = Append(queue[X], c)
      BY <3>2 DEF Appends, TypeOK
    <3>5. Len(queue'[X]) = Len(queue[X]) + 1
      BY <1>n, <3>3, <3>4, AppendProperties
    <3> QED
      BY <1>5, <1>n, <3>5
  <2>2. ASSUME InHand(X, s)' = InHand(X, s),
               IsData(current'[X], s) => current'[X].chunk = Len(out'[X][s]) + 1
        PROVE  FlowInv(X, s)' /\ (relay' /\ link'[X] = "up" => ReachInv(X, s)')
    BY <1>5, <1>f, <1>g, <1>l, <2>1, <2>2
  <2>3. CASE current'[X] = current[X] /\ out'[X][s] = out[X][s]
    <3>1. InHand(X, s)' = InHand(X, s)
      BY <2>3 DEF InHand
    <3> QED
      BY <1>f, <2>2, <2>3, <3>1
  <2>4. CASE current'[X] = NoMessage /\ ~IsData(current[X], s) /\ out'[X][s] = out[X][s]
    <3>1. ~IsData(current'[X], s)
      BY <2>4, MessageFacts DEF IsData
    <3>2. InHand(X, s)' = InHand(X, s)
      BY <2>4, <3>1 DEF InHand
    <3> QED
      BY <2>2, <3>1, <3>2
  <2>5. CASE /\ current'[X] = NoMessage
             /\ handler[X] = "write" /\ current[X].stream = s
             /\ out'[X][s] = Append(out[X][s], current[X].chunk)
    <3>1. ~IsData(current'[X], s)
      BY <2>5, MessageFacts DEF IsData
    <3>2. IsData(current[X], s)
      BY <2>5 DEF MessageInv, IsData
    <3>3. current[X].chunk = Len(out[X][s]) + 1 /\ current[X].chunk \in Nat
      BY <1>f, <1>n, <3>2
    <3>4. Len(out'[X][s]) = Len(out[X][s]) + 1
      BY <1>n, <2>5, <3>3, AppendProperties
    <3>5. InHand(X, s)' = InHand(X, s)
      BY <3>1, <3>2, <3>3, <3>4 DEF InHand
    <3> QED
      BY <2>2, <3>1, <3>5
  <2> QED
    BY <1>5, <2>3, <2>4, <2>5, HandFrame
<1> QED
  BY <1>2, <1>3, <1>4, <1>5, QueueFrame

-----------------------------------------------------------------------------
(***************************************************************************)
(* The inductive invariant, and what follows from it.                      *)
(***************************************************************************)

\* The linked tunnel starts in IInv.
LEMMA InitIInv == Init => IInv
<1> SUFFICES ASSUME Init PROVE IInv
  OBVIOUS
<1> USE SideFacts, EmptySeq DEF Init
<1>1. TypeOK
  <2>1. 0 \in 0..MaxStreams
    BY MaxStreamsAssumption
  <2>2. \A X \in Sides : Len(queue[X]) <= QueueCap
    BY QueueCapAssumption
  <2>3. \A X \in Sides, s \in Streams : sent[X][s] <= MaxChunks[X]
    BY MaxChunksAssumption
  <2> QED
    BY <2>1, <2>2, <2>3 DEF TypeOK, ClosePhases, OpenPhases
<1>2. PhaseInv
  BY DEF PhaseInv, ConnectorPhases, ListenerPhases, PumpPhases
<1>3. MessageInv
  BY DEF MessageInv
<1>4. PendingInv /\ SweepInv /\ ConnInv
  BY DEF PendingInv, SweepInv, ConnInv
<1>5. OrderInv
  <2> SUFFICES ASSUME NEW X \in Sides, NEW s \in Streams
               PROVE  WrittenInv(X, s) /\ FlowInv(X, s) /\ ReachInv(X, s)
    BY DEF OrderInv
  <2>1. /\ out[X][s] = <<>> /\ queue[X] = <<>> /\ current[X] = NoMessage
        /\ handler[X] = "check" /\ sent[Peer(X)][s] = 0
    OBVIOUS
  <2>2. InHand(X, s) = 0 /\ ~IsData(current[X], s)
    BY <2>1, MessageFacts DEF InHand, IsData
  <2> QED
    BY <2>1, <2>2, FlowEmpty DEF WrittenInv, FlowInv, ReachInv
<1> QED
  BY <1>1, <1>2, <1>3, <1>4, <1>5 DEF IInv

\* Every step preserves IInv.
LEMMA IInvStep == IInv /\ [Next]_vars => IInv'
BY TypeOKStep, PhaseInvStep, MessageInvStep, PendingInvStep, SweepInvStep, ConnInvStep,
   OrderInvStep DEF IInv

\* IInv holds in every reachable state.
LEMMA Invariance == Spec => []IInv
BY InitIInv, IInvStep, PTL DEF Spec

\* Every variable keeps its type: in particular no Send writes to a queue of the
\* relay that is full.
THEOREM TunnelTypes == Spec => []TypeOK
<1>1. IInv => TypeOK
  BY DEF IInv
<1> QED
  BY <1>1, Invariance, PTL

\* The data a local application is given is a prefix of what the other application
\* wrote (pumpLocalToRemote and handleData), for any number of streams, chunks and
\* messages under way, whichever side closes or fails and whenever.
THEOREM StreamsInOrder == Spec => []InOrder
<1>1. IInv => InOrder
  BY DEF IInv, OrderInv, WrittenInv, InOrder
<1> QED
  BY <1>1, Invariance, PTL

\* The handshake of OpenStream and OpenStreamAck keeps the two goroutines of a
\* stream in step, and streamState.buf is never used.
THEOREM PumpsAreMatched == Spec => []PumpsMatched
<1>1. IInv => PumpsMatched
  BY DEF IInv, PhaseInv, PumpsMatched, Asked, Answered
<1> QED
  BY <1>1, Invariance, PTL

\* A connector that has ended has nothing left in its maps (Close and
\* handleLocalConnection), whatever was being opened when Close came.
THEOREM ConnectorIsCleared == Spec => []ConnectorCleared
<1>1. IInv => ConnectorCleared
  <2> SUFFICES ASSUME IInv, Over("connector")
               PROVE  streams["connector"] = {} /\ pendingStreams = {}
    BY DEF ConnectorCleared
  <2>1. /\ closing["connector"] = "closed"
        /\ \A s \in Streams : pc["connector"][s] \in {"idle", "done"}
    BY DEF Over, StreamOver
  <2>2. streams["connector"] \subseteq Streams /\ pendingStreams \subseteq Streams
    BY SideFacts DEF IInv, TypeOK
  <2> QED
    BY <2>1, <2>2 DEF IInv, SweepInv, PendingInv
<1> QED
  BY <1>1, Invariance, PTL

\* No goroutine ends without closing its local connection, unless Close has begun
\* and finds the connection in the map (handleOpenStream, pumpLocalToRemote).
THEOREM NothingIsForgotten == Spec => []NothingForgotten
<1>1. IInv => NothingForgotten
  <2> SUFFICES ASSUME IInv, NEW X \in Sides, NEW s \in Streams,
                      pc[X][s] = "done", conn[X][s] = "open"
               PROVE  /\ s \in streams[X]
                      /\ \/ closing[X] \in {"disconnect", "hangup", "sweep"}
                         \/ X = "listener" /\ Closing(X)
    BY DEF NothingForgotten
  <2>1. s \in streams[X] /\ Closing(X)
    BY DEF IInv, ConnInv
  <2>2. X = "connector" => closing[X] # "closed"
    BY <2>1 DEF IInv, SweepInv
  <2>3. closing[X] \in ClosePhases
    BY DEF IInv, TypeOK
  <2> QED
    BY <2>1, <2>2, <2>3 DEF Closing, ClosePhases, Sides
<1> QED
  BY <1>1, Invariance, PTL


=============================================================================
