------------------------------- MODULE Tunnel -------------------------------
(***************************************************************************)
(* One tunnel: the connector (src/pkg/tunnel/connector.go) and the         *)
(* listener (src/pkg/tunnel/listener.go), linked by a broker.  Every TCP   *)
(* connection accepted by the connector becomes a stream; the listener     *)
(* dials the local service for it, and two pumps copy data, one from each  *)
(* local connection to the other side.                                     *)
(*                                                                         *)
(* Both sides share the code of handleMessages, pumpLocalToRemote,         *)
(* closeStream, removeStream and Close, up to names; they are one action   *)
(* here with the side X as parameter.  A goroutine is interrupted between  *)
(* any two of: a lock section of streamsMu or pendingMu, a Send, a read or *)
(* a write of a local connection.                                          *)
(*                                                                         *)
(* The broker is external: an in-order link in each direction that holds   *)
(* QueueCap messages before a Send blocks, and that ends for both sides    *)
(* when one side hangs up or the broker fails.  Heartbeats, which both     *)
(* sides just answer, are left out (module Heartbeat has them).  Local     *)
(* applications read and write as they like, or not at all; a chunk of     *)
(* data is its number in the stream.                                       *)
(***************************************************************************)
EXTENDS Naturals, Sequences, FiniteSets

CONSTANTS
    MaxStreams,     \* bound: streams the connector opens
    MaxChunks,      \* bound: side -> chunks its application writes to a stream
    QueueCap,       \* messages a direction of the relay holds
    BrokerMayFail   \* whether the broker may end by itself

Sides   == {"connector", "listener"}
Streams == 1..MaxStreams
Peer(X) == IF X = "connector" THEN "listener" ELSE "connector"

ASSUME MaxStreamsAssumption == MaxStreams \in Nat \ {0}
ASSUME MaxChunksAssumption == MaxChunks \in [Sides -> Nat]
ASSUME QueueCapAssumption == QueueCap \in Nat \ {0}
ASSUME BrokerAssumption == BrokerMayFail \in BOOLEAN

VARIABLES
    relay,          \* the broker relays between the two sides
    link,           \* side -> its brokerConn: "up", or "down" after its Close
    queue,          \* side -> the messages on their way to it
    handler,        \* side -> the next operation of handleMessages
    current,        \* side -> the message handleMessages is working on
    closing,        \* side -> the progress of Close; closeCh is closed exactly
                    \* when it is not "open"
    streams,        \* side -> the IDs in its streams map
    conn,           \* side -> stream -> the local connection; "left" when it
                    \* was dropped from the map without being closed
    pc,             \* side -> stream -> the next operation of the goroutine of
                    \* the stream (handleLocalConnection or handleOpenStream,
                    \* then pumpLocalToRemote)
    buf,            \* stream -> streamState.buf at the listener; after the
                    \* dial, the local variable buffered
    nextStreamID,   \* the connector's counter
    pendingStreams, \* the IDs in the connector's pendingStreams
    ackCh,          \* stream -> the content of its ackCh
    sent,           \* side -> stream -> number of chunks its pump has sent
    out             \* side -> stream -> the chunks written to its local
                    \* connection, in order

relayVars  == <<relay, link, queue>>
handleVars == <<handler, current>>
localVars  == <<streams, conn, pc, buf>>
openVars   == <<nextStreamID, pendingStreams, ackCh>>
dataVars   == <<sent, out>>
vars == <<relayVars, handleVars, closing, localVars, openVars, dataVars>>

Message(type, s, n) == [type |-> type, stream |-> s, chunk |-> n]
Disconnect == Message("Disconnect", 0, 0)
NoMessage  == Message("none", 0, 0)

Messages ==
    [type : {"OpenStream", "OpenStreamAck", "OpenStreamNack", "Data",
             "CloseStream", "Disconnect"},
     stream : 0..MaxStreams, chunk : Nat]

ClosePhases == {"open", "disconnect", "hangup", "sweep", "closed"}
OpenPhases  == {"idle", "track", "open", "wait",              \* connector
                "dial", "refuse", "attach", "drain"}          \* listener
PumpPhases  == {"check", "read", "send", "remove", "done"}

TypeOK ==
    /\ relay \in BOOLEAN
    /\ link \in [Sides -> {"up", "down"}]
    /\ queue \in [Sides -> Seq(Messages)]
    /\ \A X \in Sides : Len(queue[X]) <= QueueCap
    /\ handler \in [Sides -> {"check", "receive", "dispatch", "write", "close", "done"}]
    /\ current \in [Sides -> Messages \cup {NoMessage}]
    /\ closing \in [Sides -> ClosePhases]
    /\ streams \in [Sides -> SUBSET Streams]
    /\ conn \in [Sides -> [Streams -> {"none", "open", "left", "closed"}]]
    /\ pc \in [Sides -> [Streams -> OpenPhases \cup PumpPhases]]
    /\ buf \in [Streams -> Seq(Nat)]
    /\ nextStreamID \in 0..MaxStreams
    /\ pendingStreams \in SUBSET Streams
    /\ ackCh \in [Streams -> {"empty", "yes", "no"}]
    /\ sent \in [Sides -> [Streams -> Nat]]
    /\ \A X \in Sides, s \in Streams : sent[X][s] <= MaxChunks[X]
    /\ out \in [Sides -> [Streams -> Seq(Nat)]]

\* Both Starts have succeeded: the tunnel is linked.
Init ==
    /\ relay = TRUE
    /\ link = [X \in Sides |-> "up"]
    /\ queue = [X \in Sides |-> <<>>]
    /\ handler = [X \in Sides |-> "check"]
    /\ current = [X \in Sides |-> NoMessage]
    /\ closing = [X \in Sides |-> "open"]
    /\ streams = [X \in Sides |-> {}]
    /\ conn = [X \in Sides |-> [s \in Streams |-> "none"]]
    /\ pc = [X \in Sides |-> [s \in Streams |-> "idle"]]
    /\ buf = [s \in Streams |-> <<>>]
    /\ nextStreamID = 0
    /\ pendingStreams = {}
    /\ ackCh = [s \in Streams |-> "empty"]
    /\ sent = [X \in Sides |-> [s \in Streams |-> 0]]
    /\ out = [X \in Sides |-> [s \in Streams |-> <<>>]]

\* closeCh of side X is closed.
Closing(X) == closing[X] # "open"

-----------------------------------------------------------------------------
(***************************************************************************)
(* session.Send, and the shared helpers of both sides.                     *)
(***************************************************************************)

\* Mutant: a write never waits.
SendOKUnbounded(X, m) ==
    /\ link[X] = "up"
    /\ queue' = [queue EXCEPT ![Peer(X)] = Append(@, m)]
    /\ UNCHANGED <<relay, link>>

\* Without a broker or a peer what is written is lost.
SendOK(X, m) ==
    /\ link[X] = "up"
    /\ IF relay /\ link[Peer(X)] = "up"
       THEN /\ Len(queue[Peer(X)]) < QueueCap
            /\ queue' = [queue EXCEPT ![Peer(X)] = Append(@, m)]
       ELSE UNCHANGED queue
    /\ UNCHANGED <<relay, link>>

SendError(X) ==
    /\ link[X] = "down" \/ ~relay
    /\ UNCHANGED relayVars

\* A call whose error is dropped (_ = session.Send(...)).
BestEffortSend(X, m) == SendOK(X, m) \/ SendError(X)

\* The goroutine of stream s on side X goes from one operation to another.
Goto(X, s, from, to) ==
    /\ pc[X][s] = from
    /\ pc' = [pc EXCEPT ![X][s] = to]

\* streamState.conn is set once the listener has attached the connection; the
\* connector's map holds connections only.
Attached(X, s) ==
    s \in streams[X] /\ pc[X][s] \notin {"dial", "refuse", "attach"}

\* closeStream: a stream in the map is removed, and its connection closed if
\* it has one.
CloseStream(X, s) ==
    /\ streams' = [streams EXCEPT ![X] = @ \ {s}]
    /\ conn' = IF Attached(X, s) THEN [conn EXCEPT ![X][s] = "closed"] ELSE conn

\* localConn.Close() and removeStream.
CloseLocal(X, s) ==
    /\ conn' = [conn EXCEPT ![X][s] = "closed"]
    /\ streams' = [streams EXCEPT ![X] = @ \ {s}]

WriteLocal(X, s, n) == out' = [out EXCEPT ![X][s] = Append(@, n)]

-----------------------------------------------------------------------------
(***************************************************************************)
(* Connector: acceptLoop and handleLocalConnection.                        *)
(***************************************************************************)

\* The local listener accepts until Close has closed it.
AcceptLocal ==
    /\ closing["connector"] \in {"open", "disconnect", "hangup"}
    /\ nextStreamID < MaxStreams
    /\ nextStreamID' = nextStreamID + 1
    /\ conn' = [conn EXCEPT !["connector"][nextStreamID'] = "open"]
    /\ Goto("connector", nextStreamID', "idle", "track")
    /\ UNCHANGED <<relayVars, handleVars, closing, streams, buf, pendingStreams,
                   ackCh, dataVars>>

TrackStream(s) ==
    /\ Goto("connector", s, "track", "open")
    /\ pendingStreams' = pendingStreams \cup {s}
    /\ streams' = [streams EXCEPT !["connector"] = @ \cup {s}]
    /\ UNCHANGED <<relayVars, handleVars, closing, conn, buf, nextStreamID, ackCh,
                   dataVars>>

\* Mutant: the pump does not wait for the OpenStreamAck.
SendOpenStreamNoWait(s) ==
    /\ Goto("connector", s, "open", "check")
    /\ SendOK("connector", Message("OpenStream", s, 0))
    /\ UNCHANGED <<handleVars, closing, streams, conn, buf, openVars, dataVars>>

SendOpenStream(s) ==
    /\ Goto("connector", s, "open", "wait")
    /\ SendOK("connector", Message("OpenStream", s, 0))
    /\ UNCHANGED <<handleVars, closing, streams, conn, buf, openVars, dataVars>>

\* The local connection is closed and the stream leaves both maps.
GiveUp(s) ==
    /\ CloseLocal("connector", s)
    /\ pendingStreams' = pendingStreams \ {s}
    /\ UNCHANGED <<handleVars, closing, buf, nextStreamID, ackCh, dataVars>>

\* Mutant: only the pending entry is removed.
OpenStreamFailsTracked(s) ==
    /\ Goto("connector", s, "open", "done")
    /\ SendError("connector")
    /\ conn' = [conn EXCEPT !["connector"][s] = "closed"]
    /\ pendingStreams' = pendingStreams \ {s}
    /\ UNCHANGED <<handleVars, closing, streams, buf, nextStreamID, ackCh, dataVars>>

OpenStreamFails(s) ==
    /\ Goto("connector", s, "open", "done")
    /\ SendError("connector")
    /\ GiveUp(s)

\* The select: whatever is ready may be chosen.
StreamAccepted(s) ==
    /\ ackCh[s] = "yes"
    /\ Goto("connector", s, "wait", "check")
    /\ ackCh' = [ackCh EXCEPT ![s] = "empty"]
    /\ UNCHANGED <<relayVars, handleVars, closing, streams, conn, buf, nextStreamID,
                   pendingStreams, dataVars>>

StreamRefused(s) ==
    /\ ackCh[s] = "no"
    /\ Goto("connector", s, "wait", "done")
    /\ ackCh' = [ackCh EXCEPT ![s] = "empty"]
    /\ CloseLocal("connector", s)
    /\ UNCHANGED <<relayVars, handleVars, closing, buf, nextStreamID, pendingStreams,
                   dataVars>>

\* OpenStreamAckTimeout.  The listener is not told.
AckTimeout(s) ==
    /\ Goto("connector", s, "wait", "done")
    /\ GiveUp(s)
    /\ UNCHANGED relayVars

WaitInterrupted(s) ==
    /\ Closing("connector")
    /\ Goto("connector", s, "wait", "done")
    /\ GiveUp(s)
    /\ UNCHANGED relayVars

-----------------------------------------------------------------------------
(***************************************************************************)
(* Listener: handleOpenStream.                                             *)
(***************************************************************************)

DialOK(s) ==
    /\ Goto("listener", s, "dial", "attach")
    /\ conn' = [conn EXCEPT !["listener"][s] = "open"]
    /\ UNCHANGED <<relayVars, handleVars, closing, streams, buf, openVars, dataVars>>

DialFails(s) ==
    /\ Goto("listener", s, "dial", "refuse")
    /\ streams' = [streams EXCEPT !["listener"] = @ \ {s}]
    /\ UNCHANGED <<relayVars, handleVars, closing, conn, buf, openVars, dataVars>>

SendOpenStreamNack(s) ==
    /\ Goto("listener", s, "refuse", "done")
    /\ BestEffortSend("listener", Message("OpenStreamNack", s, 0))
    /\ UNCHANGED <<handleVars, closing, streams, conn, buf, openVars, dataVars>>

\* The connection is set on the stream state, and what was buffered is taken.
Attach(s) ==
    /\ s \in streams["listener"]
    /\ Goto("listener", s, "attach", "drain")
    /\ UNCHANGED <<relayVars, handleVars, closing, streams, conn, buf, openVars,
                   dataVars>>

\* The stream was removed while the dial was in progress.
AttachTooLate(s) ==
    /\ s \notin streams["listener"]
    /\ Goto("listener", s, "attach", "done")
    /\ conn' = [conn EXCEPT !["listener"][s] = "closed"]
    /\ UNCHANGED <<relayVars, handleVars, closing, streams, buf, openVars, dataVars>>

DrainWrite(s) ==
    /\ pc["listener"][s] = "drain"
    /\ buf[s] # <<>>
    /\ conn["listener"][s] = "open"
    /\ WriteLocal("listener", s, Head(buf[s]))
    /\ buf' = [buf EXCEPT ![s] = Tail(@)]
    /\ UNCHANGED <<relayVars, handleVars, closing, streams, conn, pc, openVars, sent>>

DrainFails(s) ==
    /\ buf[s] # <<>>
    /\ Goto("listener", s, "drain", "done")
    /\ CloseStream("listener", s)
    /\ UNCHANGED <<relayVars, handleVars, closing, buf, openVars, dataVars>>

\* The acknowledgement, its error dropped; then the pump is started.
SendOpenStreamAck(s) ==
    /\ buf[s] = <<>>
    /\ Goto("listener", s, "drain", "check")
    /\ BestEffortSend("listener", Message("OpenStreamAck", s, 0))
    /\ UNCHANGED <<handleVars, closing, streams, conn, buf, openVars, dataVars>>

-----------------------------------------------------------------------------
(***************************************************************************)
(* pumpLocalToRemote, on both sides.                                       *)
(***************************************************************************)

\* The loop ends when closeCh is closed, and leaves the connection to Close.
PumpCheck(X, s) ==
    /\ Goto(X, s, "check", IF Closing(X) THEN "done" ELSE "read")
    /\ UNCHANGED <<relayVars, handleVars, closing, streams, conn, buf, openVars,
                   dataVars>>

PumpRead(X, s) ==
    /\ conn[X][s] = "open"
    /\ sent[X][s] < MaxChunks[X]
    /\ Goto(X, s, "read", "send")
    /\ UNCHANGED <<relayVars, handleVars, closing, streams, conn, buf, openVars,
                   dataVars>>

PumpSend(X, s) ==
    /\ Goto(X, s, "send", "check")
    /\ SendOK(X, Message("Data", s, sent[X][s] + 1))
    /\ sent' = [sent EXCEPT ![X][s] = @ + 1]
    /\ UNCHANGED <<handleVars, closing, streams, conn, buf, openVars, out>>

PumpSendFails(X, s) ==
    /\ Goto(X, s, "send", "done")
    /\ SendError(X)
    /\ CloseStream(X, s)
    /\ UNCHANGED <<handleVars, closing, buf, openVars, dataVars>>

\* Mutant: the other side is not told.
PumpEndSilent(X, s) ==
    /\ Goto(X, s, "read", "remove")
    /\ UNCHANGED <<relayVars, handleVars, closing, streams, conn, buf, openVars, dataVars>>

\* End of file, or an error, which a closed connection gives at once.
PumpEnd(X, s) ==
    /\ Goto(X, s, "read", "remove")
    /\ BestEffortSend(X, Message("CloseStream", s, 0))
    /\ UNCHANGED <<handleVars, closing, streams, conn, buf, openVars, dataVars>>

\* removeStream: when it was the application that ended the stream, nobody closes
\* the connection any more.
RemoveStream(X, s) ==
    /\ Goto(X, s, "remove", "done")
    /\ streams' = [streams EXCEPT ![X] = @ \ {s}]
    /\ conn' = [conn EXCEPT ![X][s] = IF @ = "open" THEN "left" ELSE @]
    /\ UNCHANGED <<relayVars, handleVars, closing, buf, openVars, dataVars>>

-----------------------------------------------------------------------------
(***************************************************************************)
(* handleMessages, on both sides.                                          *)
(***************************************************************************)

HandlerCheck(X) ==
    /\ handler[X] = "check"
    /\ handler' = [handler EXCEPT ![X] = IF Closing(X) THEN "close" ELSE "receive"]
    /\ UNCHANGED <<relayVars, current, closing, localVars, openVars, dataVars>>

Receive(X) ==
    /\ handler[X] = "receive"
    /\ link[X] = "up"
    /\ queue[X] # <<>>
    /\ current' = [current EXCEPT ![X] = Head(queue[X])]
    /\ queue' = [queue EXCEPT ![X] = Tail(@)]
    /\ handler' = [handler EXCEPT ![X] = "dispatch"]
    /\ UNCHANGED <<relay, link, closing, localVars, openVars, dataVars>>

\* Messages of a connection that is reset may be lost.
ReceiveFails(X) ==
    /\ handler[X] = "receive"
    /\ link[X] = "down" \/ ~relay
    /\ handler' = [handler EXCEPT ![X] = "close"]
    /\ UNCHANGED <<relayVars, current, closing, localVars, openVars, dataVars>>

\* The handler looks at a message of the given type and goes on to the
\* operation named.
Handles(X, type, to) ==
    /\ handler[X] = "dispatch"
    /\ current[X].type = type
    /\ handler' = [handler EXCEPT ![X] = to]
    /\ current' = [current EXCEPT ![X] = IF to = "write" THEN @ ELSE NoMessage]
    /\ UNCHANGED <<relayVars, closing>>

\* The state is registered before the dial starts, so that data is buffered.
HandleOpenStream(X) ==
    LET s == current[X].stream
    IN  /\ Handles(X, "OpenStream", "check")
        /\ streams' = [streams EXCEPT ![X] = @ \cup {s}]
        /\ buf' = [buf EXCEPT ![s] = <<>>]
        /\ Goto(X, s, "idle", "dial")
        /\ UNCHANGED <<conn, openVars, dataVars>>

HandleOpenStreamAck(X) ==
    LET s == current[X].stream
    IN  /\ \/ Handles(X, "OpenStreamAck", "check")
           \/ Handles(X, "OpenStreamNack", "check")
        /\ ackCh' = IF s \in pendingStreams
                    THEN [ackCh EXCEPT ![s] = IF current[X].type = "OpenStreamAck"
                                              THEN "yes" ELSE "no"]
                    ELSE ackCh
        /\ pendingStreams' = pendingStreams \ {s}
        /\ UNCHANGED <<localVars, nextStreamID, dataVars>>

\* handleData: the connection is looked up under the lock and written to
\* outside it.  While the dial is in progress the data is buffered, without a
\* stream it is dropped.
HandleData(X) ==
    LET s == current[X].stream
        dialling == s \in streams[X] /\ ~Attached(X, s)
    IN  /\ Handles(X, "Data", IF Attached(X, s) THEN "write" ELSE "check")
        /\ buf' = IF dialling THEN [buf EXCEPT ![s] = Append(@, current[X].chunk)] ELSE buf
        /\ UNCHANGED <<streams, conn, pc, openVars, dataVars>>

\* handleData is in a Write that only the application's reading completes.
InWrite(X) == handler[X] = "write" /\ conn[X][current[X].stream] \in {"open", "left"}

WriteData(X) ==
    /\ InWrite(X)
    /\ WriteLocal(X, current[X].stream, current[X].chunk)
    /\ handler' = [handler EXCEPT ![X] = "check"]
    /\ current' = [current EXCEPT ![X] = NoMessage]
    /\ UNCHANGED <<relayVars, closing, localVars, openVars, sent>>

WriteFails(X) ==
    /\ handler[X] = "write"
    /\ CloseStream(X, current[X].stream)
    /\ handler' = [handler EXCEPT ![X] = "check"]
    /\ current' = [current EXCEPT ![X] = NoMessage]
    /\ UNCHANGED <<relayVars, closing, pc, buf, openVars, dataVars>>

HandleCloseStream(X) ==
    /\ Handles(X, "CloseStream", "check")
    /\ CloseStream(X, current[X].stream)
    /\ UNCHANGED <<pc, buf, openVars, dataVars>>

HandleDisconnect(X) ==
    /\ Handles(X, "Disconnect", "close")
    /\ UNCHANGED <<localVars, openVars, dataVars>>

\* The deferred Close returns: whoever runs it has finished.
HandlerExit(X) ==
    /\ handler[X] = "close"
    /\ closing[X] = "closed"
    /\ handler' = [handler EXCEPT ![X] = "done"]
    /\ UNCHANGED <<relayVars, current, closing, localVars, openVars, dataVars>>

-----------------------------------------------------------------------------
(***************************************************************************)
(* Close.  It is called by handleMessages when it ends and by the commands *)
(* (on a signal, and to clean up before a new attempt); closeOnce lets one *)
(* caller through.                                                         *)
(***************************************************************************)

CloseStage(X, from, to) ==
    /\ closing[X] = from
    /\ closing' = [closing EXCEPT ![X] = to]

CloseBegins(X) ==
    /\ CloseStage(X, "open", "disconnect")
    /\ UNCHANGED <<relayVars, handleVars, localVars, openVars, dataVars>>

CloseDisconnect(X) ==
    /\ CloseStage(X, "disconnect", "hangup")
    /\ BestEffortSend(X, Disconnect)
    /\ UNCHANGED <<handleVars, localVars, openVars, dataVars>>

\* brokerConn.Close(), and the connector's localListener.Close().
CloseHangUp(X) ==
    /\ CloseStage(X, "hangup", "sweep")
    /\ link' = [link EXCEPT ![X] = "down"]
    /\ queue' = [queue EXCEPT ![X] = <<>>]
    /\ UNCHANGED <<relay, handleVars, localVars, openVars, dataVars>>

\* Mutant: the map is emptied, the connections stay open.
CloseSweepMapOnly(X) ==
    /\ CloseStage(X, "sweep", "closed")
    /\ streams' = [streams EXCEPT ![X] = {}]
    /\ UNCHANGED <<relayVars, handleVars, conn, pc, buf, openVars, dataVars>>

CloseSweep(X) ==
    /\ CloseStage(X, "sweep", "closed")
    /\ conn' = [conn EXCEPT ![X] =
                   [s \in Streams |-> IF Attached(X, s) THEN "closed" ELSE @[s]]]
    /\ streams' = [streams EXCEPT ![X] = {}]
    /\ UNCHANGED <<relayVars, handleVars, pc, buf, openVars, dataVars>>

-----------------------------------------------------------------------------
(***************************************************************************)
(* The broker (external): it closes both connections when one side has     *)
(* hung up, or when it ends itself.                                        *)
(***************************************************************************)

BrokerEnds ==
    /\ relay
    /\ BrokerMayFail \/ "down" \in {link[X] : X \in Sides}
    /\ relay' = FALSE
    /\ UNCHANGED <<link, queue, handleVars, closing, localVars, openVars, dataVars>>

BrokerNoticesHangUp == "down" \in {link[X] : X \in Sides} /\ BrokerEnds

-----------------------------------------------------------------------------

\* Steps that a goroutine of a stream takes by itself.
StreamRuns(X, s) ==
    \/ X = "connector" /\ \/ TrackStream(s)
                          \/ SendOpenStream(s)
                          \/ OpenStreamFails(s)
                          \/ StreamAccepted(s)
                          \/ StreamRefused(s)
                          \/ AckTimeout(s)
                          \/ WaitInterrupted(s)
    \/ X = "listener" /\ \/ DialOK(s)
                         \/ DialFails(s)
                         \/ SendOpenStreamNack(s)
                         \/ Attach(s)
                         \/ AttachTooLate(s)
                         \/ DrainWrite(s)
                         \/ DrainFails(s)
                         \/ SendOpenStreamAck(s)
    \/ PumpCheck(X, s)
    \/ PumpSend(X, s)
    \/ PumpSendFails(X, s)
    \/ conn[X][s] = "closed" /\ PumpEnd(X, s)
    \/ RemoveStream(X, s)

\* What a local application does, if it likes: write, end the stream, read, reset
\* the connection.
ApplicationActs(X, s) == PumpRead(X, s) \/ (conn[X][s] = "open" /\ PumpEnd(X, s))
ApplicationTakes(X) == WriteData(X) \/ (InWrite(X) /\ WriteFails(X))

HandlerRuns(X) ==
    \/ HandlerCheck(X)
    \/ Receive(X)
    \/ ReceiveFails(X)
    \/ HandleOpenStream(X)
    \/ HandleOpenStreamAck(X)
    \/ HandleData(X)
    \/ ~InWrite(X) /\ WriteFails(X)
    \/ HandleCloseStream(X)
    \/ HandleDisconnect(X)
    \/ HandlerExit(X)

CloseRuns(X) == CloseDisconnect(X) \/ CloseHangUp(X) \/ CloseSweep(X)

\* All goroutines of stream s on side X have ended or were never started.
StreamOver(X, s) == pc[X][s] \in {"idle", "done"}

\* Close has run and the goroutines of side X are gone.
Over(X) ==
    /\ closing[X] = "closed"
    /\ handler[X] = "done"
    /\ \A s \in Streams : StreamOver(X, s)

Terminated == ~relay /\ (\A X \in Sides : Over(X)) /\ UNCHANGED vars

Next ==
    \/ AcceptLocal
    \/ \E X \in Sides, s \in Streams : StreamRuns(X, s) \/ ApplicationActs(X, s)
    \/ \E X \in Sides : \/ HandlerRuns(X)
                        \/ ApplicationTakes(X)
                        \/ CloseBegins(X)
                        \/ CloseRuns(X)
    \/ BrokerEnds
    \/ Terminated

Spec == Init /\ [][Next]_vars

(***************************************************************************)
(* Fairness: goroutines that can run do run, and the broker notices a      *)
(* connection that is closed.  Nothing is assumed of the applications: one *)
(* that does not read keeps handleMessages in a Write.  Nobody need call   *)
(* Close except handleMessages when it ends.  A Send that waits for room   *)
(* again and again gets its turn in the end (TurnsTaken); where a          *)
(* direction of the relay has room for everything, nothing rests on that.  *)
(***************************************************************************)
Fairness ==
    /\ \A X \in Sides :
          /\ WF_vars(HandlerRuns(X) \/ (handler[X] = "close" /\ CloseBegins(X)))
          /\ WF_vars(CloseRuns(X))
          /\ \A s \in Streams : WF_vars(StreamRuns(X, s))
    /\ WF_vars(BrokerNoticesHangUp)

TurnsTaken ==
    \A X \in Sides :
        /\ SF_vars(CloseRuns(X))
        /\ \A s \in Streams : SF_vars(StreamRuns(X, s))

FairSpec == Spec /\ Fairness
TurnsFairSpec == FairSpec /\ TurnsTaken

-----------------------------------------------------------------------------
(***************************************************************************)
(* Safety.                                                                 *)
(***************************************************************************)

\* A stream is a pipe: what a local application is given is exactly the first
\* chunks the other side sent on this stream, without gap, duplicate or change of
\* order, although the listener writes from two goroutines (the drain of
\* handleOpenStream and handleData) and writes outside streamsMu.
InOrder ==
    \A X \in Sides, s \in Streams :
        /\ Len(out[X][s]) <= sent[Peer(X)][s]
        /\ \A i \in 1..Len(out[X][s]) : out[X][s][i] = i

\* A pump runs only on a stream the other side knows: the connector's only after
\* the listener has attached its connection (connector.go, "only then starts
\* pumping data"), so that streamState.buf is a precaution that is not needed;
\* the listener's only on a stream the connector has opened.
PumpsMatched ==
    \A s \in Streams :
        /\ pc["connector"][s] \in PumpPhases \ {"done"} =>
               pc["listener"][s] \in PumpPhases
        /\ pc["listener"][s] # "idle" =>
               pc["connector"][s] \in {"wait"} \cup PumpPhases
        /\ buf[s] = <<>>

\* Once the connector is closed and its goroutines have ended, nothing is left
\* in its maps (connector.go, Close and handleLocalConnection): a connection
\* accepted while Close runs is undone by its own goroutine.
ConnectorCleared ==
    Over("connector") =>
        streams["connector"] = {} /\ pendingStreams = {}

\* A goroutine that has ended leaves no open connection behind that nobody will
\* close: the connection is still in the map, and Close has begun and will sweep
\* it; only the listener's sweep can come too early (see ListenerCleared).  What
\* removeStream drops after an end of file ("left") is the other exception.
NothingForgotten ==
    \A X \in Sides, s \in Streams :
        pc[X][s] = "done" /\ conn[X][s] = "open" =>
            /\ s \in streams[X]
            /\ closing[X] \in {"disconnect", "hangup", "sweep"} \/ (X = "listener" /\ Closing(X))

\* Close closes all stream connections of the listener.  It does not hold: see
\* the run that violates it.
ListenerCleared == Over("listener") => streams["listener"] = {}

-----------------------------------------------------------------------------
(***************************************************************************)
(* Liveness, under Fairness.                                               *)
(***************************************************************************)

\* An application that does not read holds handleMessages, and nobody is about to
\* close its connection: the side is not being closed, or the stream has left the
\* map that Close goes through.
Held ==
    \E X \in Sides :
        InWrite(X) /\ (~Closing(X) \/ conn[X][current[X].stream] = "left")

(***************************************************************************)
(* The left-hand sides below stay true once they are, so that what they    *)
(* lead to holds again and again: in the end for good, unless handlers are *)
(* held again and again, which for finitely many chunks means for ever.    *)
(***************************************************************************)

\* When one side closes, for whatever reason, the other side closes as well and
\* every goroutine of the tunnel ends: none stays blocked in a Read, a Send or
\* the wait for an OpenStreamAck (Close, "to unblock any pending reads"), nor in
\* a Write, unless an application holds the handler.
TunnelEnds ==
    (\E X \in Sides : Closing(X)) ~> (Held \/ \A X \in Sides : Over(X))

\* A Close that has begun comes to its end.  It does not: see the run that
\* violates it.
CloseTerminates == \A X \in Sides : Closing(X) ~> closing[X] = "closed"

\* A stream has ended at one side.  A connector that gave a stream up before the
\* pump was started tells nobody.
Ended(s) ==
    conn["connector"][s] = "left" \/ conn["listener"][s] \in {"left", "closed"}

\* When a stream has ended at one side, both sides drop it and no connection of it
\* stays open (pumpLocalToRemote, "Notify remote side that the stream is closed"),
\* except the one that removeStream has left, and unless an application holds the
\* handler.
EndReachesPeer ==
    \A s \in Streams :
        Ended(s) ~>
            (Held \/ \A X \in Sides : s \notin streams[X] /\ conn[X][s] # "open")

=============================================================================
