------------------------------- MODULE Broker -------------------------------
(***************************************************************************)
(* The broker (src/pkg/broker/server.go): the accept loop, one handler     *)
(* goroutine and one heartbeat goroutine per client, and Stop.  A client   *)
(* is admitted, does the handshake, authenticates, registers a connection  *)
(* ID as listener or asks to be linked to one as connector, and is then    *)
(* relayed to its peer until one of the two is closed.                     *)
(*                                                                         *)
(* Goroutines interleave between any two operations on shared state: the   *)
(* router's methods, the set of tracked clients (clientMu), a write to a   *)
(* connection, the steps of Close (module ClientConn).  hpc[c] says which  *)
(* such operation the handler of c performs next; when it calls Close, hpc *)
(* already names what it does afterwards, and it waits for closePc to be   *)
(* "idle" again.                                                           *)
(*                                                                         *)
(* Messages are abstracted to what the broker distinguishes: the handshake *)
(* and the Authenticate message succeed or not, the first message is a     *)
(* Register(id), a ConnectRequest(id) or something else, a later one is a  *)
(* heartbeat (consumed, no change of state), something to relay, or an     *)
(* error.  Time is abstracted too: every tick may find the client stale.   *)
(***************************************************************************)
EXTENDS ClientConn, FiniteSets

CONSTANTS
    NoID,           \* the empty connection ID of a client without a role
    MaxConnections  \* the capacity of connSem

ASSUME NoIDAssumption == NoID \notin IDs
ASSUME MaxConnectionsAssumption == MaxConnections \in Nat \ {0}

VARIABLES
    hpc,        \* client -> the next operation of its handler goroutine
    bpc,        \* client -> the same for its heartbeat goroutine
    role,       \* client -> what its first message asked for
    connID,     \* client -> ClientConn.connectionID
    fwd,        \* client -> the local variable peer of relayMessages
    linked,     \* the clients LinkConnector has ever linked (a history
                \* variable, read by properties only)
    clients,    \* Server.clients, the tracked clients
    slots,      \* the number of tokens in connSem
    accPc,      \* the accept loop: "accept", "admit", "exited"
    accConn,    \* the connection the accept loop is holding
    spc,        \* Stop: "running" before the call, "sweep" (holding clientMu),
                \* "wait" (in wg.Wait), "stopped"
    todo        \* the tracked clients the sweep has not reached

roleVars    == <<role, connID, linked>>
handlerVars == <<hpc, bpc, fwd, roleVars>>
acceptVars  == <<accPc, accConn>>
stopVars    == <<spc, todo>>
serverVars  == <<clients, slots, acceptVars, stopVars>>
vars == <<routerVars, connVars, closeVars, handlerVars, serverVars>>

\* Before RegisterListener or LinkConnector has succeeded.
EarlyPhases   == {"none", "handshake", "track", "auth", "first",
                  "register", "link", "error", "nack"}
RelayPhases   == {"ack", "recv", "getpeer", "forward"}
LeavingPhases == {"untrack", "release", "done"}
Roles         == {"none", "listener", "connector"}

TypeOK ==
    /\ RouterTypeOK
    /\ ClientConnTypeOK
    /\ hpc \in [Clients -> EarlyPhases \cup RelayPhases \cup LeavingPhases]
    /\ bpc \in [Clients -> {"off", "wait", "send", "done"}]
    /\ role \in [Clients -> Roles]
    /\ connID \in [Clients -> IDs \cup {NoID}]
    /\ fwd \in [Clients -> Clients \cup {NoClient}]
    /\ linked \in SUBSET Clients
    /\ clients \in SUBSET Clients
    /\ slots \in 0..MaxConnections
    /\ accPc \in {"accept", "admit", "exited"}
    /\ accConn \in Clients \cup {NoClient}
    /\ spc \in {"running", "sweep", "wait", "stopped"}
    /\ todo \in SUBSET Clients

Init ==
    /\ NewRouter
    /\ NewClientConns
    /\ hpc = [c \in Clients |-> "none"]
    /\ bpc = [c \in Clients |-> "off"]
    /\ role = [c \in Clients |-> "none"]
    /\ connID = [c \in Clients |-> NoID]
    /\ fwd = [c \in Clients |-> NoClient]
    /\ linked = {}
    /\ clients = {}
    /\ slots = 0
    /\ accPc = "accept"
    /\ accConn = NoClient
    /\ spc = "running"
    /\ todo = {}

\* closeCh of the server is closed.
Stopping == spc # "running"

\* Nobody else holds clientMu.
ClientMuFree == spc # "sweep"

\* The goroutine t is not inside a call of Close.
Returned(t) == closePc[t] = "idle"

-----------------------------------------------------------------------------
(***************************************************************************)
(* The accept loop.  Between Accept and the admission of a connection Stop *)
(* may run.                                                                *)
(***************************************************************************)

Accept(c) ==
    /\ accPc = "accept"
    /\ ~Stopping
    /\ conn[c] = "none"
    /\ conn' = [conn EXCEPT ![c] = "open"]
    /\ accPc' = "admit"
    /\ accConn' = c
    /\ UNCHANGED <<routerVars, unread, closeVars, handlerVars, clients, slots,
                   stopVars>>

\* The IPsum or the geo filter blocks the address, or every slot is taken.
Reject ==
    /\ accPc = "admit"
    /\ CloseConn(accConn)
    /\ accPc' = "accept"
    /\ accConn' = NoClient
    /\ UNCHANGED <<routerVars, closeVars, handlerVars, clients, slots, stopVars>>

\* A free slot is taken and the handler goroutine starts.
Admit ==
    /\ accPc = "admit"
    /\ slots < MaxConnections
    /\ slots' = slots + 1
    /\ hpc' = [hpc EXCEPT ![accConn] = "handshake"]
    /\ accPc' = "accept"
    /\ accConn' = NoClient
    /\ UNCHANGED <<routerVars, connVars, closeVars, bpc, fwd, roleVars,
                   clients, stopVars>>

\* Stop has closed the TCP listener.
AcceptExit ==
    /\ accPc = "accept"
    /\ Stopping
    /\ accPc' = "exited"
    /\ UNCHANGED <<routerVars, connVars, closeVars, handlerVars, clients, slots,
                   accConn, stopVars>>

-----------------------------------------------------------------------------
(***************************************************************************)
(* handleClient up to the role of the client.                              *)
(***************************************************************************)

\* A step of the handler that only changes its own program counter.
Goto(c, from, to) ==
    /\ hpc[c] = from
    /\ Returned(Handler(c))
    /\ hpc' = [hpc EXCEPT ![c] = to]
    /\ UNCHANGED <<routerVars, bpc, fwd, roleVars, serverVars>>

HandshakeDone(c) ==
    /\ Goto(c, "handshake", "track")
    /\ conn[c] = "open"
    /\ UNCHANGED <<connVars, closeVars>>

\* Mutant: the slot is not given back on this path.
HandshakeFailsLeaking(c) ==
    /\ Goto(c, "handshake", "done")
    /\ CloseConn(c)
    /\ UNCHANGED closeVars

\* Mutant: the slot is given back twice on this path.
HandshakeFailsReleasing(c) ==
    /\ hpc[c] = "handshake"
    /\ hpc' = [hpc EXCEPT ![c] = "release"]
    /\ slots' = slots - 1
    /\ CloseConn(c)
    /\ UNCHANGED <<routerVars, closeVars, bpc, fwd, roleVars, clients, acceptVars,
                   stopVars>>

\* No deadline bounds the handshake, and the client is not tracked yet.
HandshakeFails(c) ==
    /\ Goto(c, "handshake", "release")
    /\ CloseConn(c)
    /\ UNCHANGED closeVars

TrackClient(c) ==
    /\ hpc[c] = "track"
    /\ ClientMuFree
    /\ clients' = clients \cup {c}
    /\ hpc' = [hpc EXCEPT ![c] = "auth"]
    /\ UNCHANGED <<routerVars, connVars, closeVars, bpc, fwd, roleVars,
                   slots, acceptVars, stopVars>>

AuthenticateOK(c) ==
    /\ Goto(c, "auth", "first")
    /\ conn[c] = "open"
    /\ UNCHANGED <<connVars, closeVars>>

\* A read error, the deadline, another message or a wrong passphrase: the
\* connection is closed directly, without ClientConn.Close.
AuthenticateFails(c) ==
    /\ Goto(c, "auth", "untrack")
    /\ CloseConn(c)
    /\ UNCHANGED closeVars

FirstMessage(c, r, id) ==
    /\ hpc[c] = "first"
    /\ conn[c] = "open"
    /\ role' = [role EXCEPT ![c] = r]
    /\ connID' = [connID EXCEPT ![c] = id]
    /\ hpc' = [hpc EXCEPT ![c] = IF r = "listener" THEN "register" ELSE "link"]
    /\ UNCHANGED <<routerVars, connVars, closeVars, bpc, fwd, linked, serverVars>>

UnexpectedFirstMessage(c) ==
    /\ Goto(c, "first", "error")
    /\ conn[c] = "open"
    /\ UNCHANGED <<connVars, closeVars>>

FirstMessageFails(c) ==
    /\ Goto(c, "first", "untrack")
    /\ CallClose(Handler(c), c)
    /\ UNCHANGED connVars

-----------------------------------------------------------------------------
(***************************************************************************)
(* handleListener and handleConnector.                                     *)
(***************************************************************************)

HandleRegister(c) ==
    /\ hpc[c] = "register"
    /\ RegisterListener(connID[c], c)
    /\ hpc' = [hpc EXCEPT ![c] = "ack"]
    /\ UNCHANGED <<connVars, closeVars, bpc, fwd, roleVars, serverVars>>

HandleLink(c) ==
    /\ hpc[c] = "link"
    /\ LinkConnector(connID[c], c)
    /\ linked' = linked \cup {c, listeners[connID[c]]}
    /\ hpc' = [hpc EXCEPT ![c] = "ack"]
    /\ UNCHANGED <<connVars, closeVars, bpc, role, connID, fwd, serverVars>>

\* The router refuses.
Refused(c) ==
    /\ \/ Goto(c, "register", "nack") /\ ~CanRegister(connID[c])
       \/ Goto(c, "link", "nack") /\ ~CanLink(connID[c])
    /\ UNCHANGED <<connVars, closeVars>>

\* The acknowledgement; its error is dropped.  Then StartHeartbeat.
SendAck(c) ==
    /\ hpc[c] = "ack"
    /\ BestEffortSend(c)
    /\ hpc' = [hpc EXCEPT ![c] = "recv"]
    /\ bpc' = [bpc EXCEPT ![c] = "wait"]
    /\ UNCHANGED <<routerVars, conn, closeVars, fwd, roleVars, serverVars>>

\* A negative acknowledgement or the ErrorMsg, then Close.
SendRefusal(c) ==
    /\ \E from \in {"nack", "error"} : Goto(c, from, "untrack")
    /\ BestEffortSend(c)
    /\ CallClose(Handler(c), c)
    /\ UNCHANGED conn

-----------------------------------------------------------------------------
(***************************************************************************)
(* relayMessages.  A heartbeat message leaves the handler where it is.     *)
(***************************************************************************)

Receive(c) ==
    /\ Goto(c, "recv", "getpeer")
    /\ conn[c] = "open"
    /\ UNCHANGED <<connVars, closeVars>>

\* The connection is closed or reset, or what arrives is no valid frame.
ReceiveFails(c) ==
    /\ Goto(c, "recv", "untrack")
    /\ CallClose(Handler(c), c)
    /\ UNCHANGED connVars

RelayGetPeer(c) ==
    /\ hpc[c] = "getpeer"
    /\ GetPeer(c) # NoClient
    /\ fwd' = [fwd EXCEPT ![c] = GetPeer(c)]
    /\ hpc' = [hpc EXCEPT ![c] = "forward"]
    /\ UNCHANGED <<routerVars, connVars, closeVars, bpc, roleVars, serverVars>>

RelayNoPeer(c) ==
    /\ GetPeer(c) = NoClient
    /\ Goto(c, "getpeer", "untrack")
    /\ CallClose(Handler(c), c)
    /\ UNCHANGED connVars

\* peer.Send(env): the peer is the one looked up before.
Forward(c) ==
    /\ hpc[c] = "forward"
    /\ SendSucceeds(fwd[c])
    /\ fwd' = [fwd EXCEPT ![c] = NoClient]
    /\ hpc' = [hpc EXCEPT ![c] = "recv"]
    /\ UNCHANGED <<routerVars, conn, closeVars, bpc, roleVars, serverVars>>

ForwardFails(c) ==
    /\ hpc[c] = "forward"
    /\ SendFails(fwd[c])
    /\ fwd' = [fwd EXCEPT ![c] = NoClient]
    /\ hpc' = [hpc EXCEPT ![c] = "untrack"]
    /\ CallClose(Handler(c), c)
    /\ UNCHANGED <<routerVars, conn, bpc, roleVars, serverVars>>

-----------------------------------------------------------------------------
(***************************************************************************)
(* The deferred calls of handleClient and of the goroutine around it.      *)
(***************************************************************************)

UntrackClient(c) ==
    /\ hpc[c] = "untrack"
    /\ Returned(Handler(c))
    /\ ClientMuFree
    /\ clients' = clients \ {c}
    /\ hpc' = [hpc EXCEPT ![c] = "release"]
    /\ UNCHANGED <<routerVars, connVars, closeVars, bpc, fwd, roleVars,
                   slots, acceptVars, stopVars>>

\* Mutant: connSem <- struct{}{} where <-connSem is meant.
ReleaseSlotWrongWay(c) ==
    /\ hpc[c] = "release"
    /\ slots < MaxConnections
    /\ slots' = slots + 1
    /\ hpc' = [hpc EXCEPT ![c] = "done"]
    /\ UNCHANGED <<routerVars, connVars, closeVars, bpc, fwd, roleVars,
                   clients, acceptVars, stopVars>>

ReleaseSlot(c) ==
    /\ hpc[c] = "release"
    /\ slots' = slots - 1
    /\ hpc' = [hpc EXCEPT ![c] = "done"]
    /\ UNCHANGED <<routerVars, connVars, closeVars, bpc, fwd, roleVars,
                   clients, acceptVars, stopVars>>

-----------------------------------------------------------------------------
(***************************************************************************)
(* The goroutine of StartHeartbeat.  Nothing waits for it.                 *)
(***************************************************************************)

HeartbeatOnly(c, from, to) ==
    /\ bpc[c] = from
    /\ bpc' = [bpc EXCEPT ![c] = to]
    /\ UNCHANGED <<routerVars, hpc, fwd, roleVars, serverVars>>

HeartbeatExit(c) ==
    /\ once[c] # "new"
    /\ HeartbeatOnly(c, "wait", "done")
    /\ UNCHANGED <<connVars, closeVars>>

HeartbeatTick(c) ==
    /\ HeartbeatOnly(c, "wait", "send")
    /\ UNCHANGED <<connVars, closeVars>>

HeartbeatStale(c) ==
    /\ HeartbeatOnly(c, "wait", "done")
    /\ CallClose(HeartbeatOf(c), c)
    /\ UNCHANGED connVars

\* The write blocks while the client does not read.
HeartbeatSend(c) ==
    /\ HeartbeatOnly(c, "send", "wait")
    /\ BestEffortSend(c)
    /\ UNCHANGED <<conn, closeVars>>

-----------------------------------------------------------------------------
(***************************************************************************)
(* Stop.  The listener is closed, then every tracked client, under         *)
(* clientMu; then Stop waits for the accept loop and the handlers.         *)
(***************************************************************************)

Stop ==
    /\ spc = "running"
    /\ spc' = "sweep"
    /\ todo' = clients
    /\ UNCHANGED <<routerVars, connVars, closeVars, handlerVars, clients, slots,
                   acceptVars>>

StopClose(c) ==
    /\ spc = "sweep"
    /\ Returned(Stopper)
    /\ c \in todo
    /\ todo' = todo \ {c}
    /\ CallClose(Stopper, c)
    /\ UNCHANGED <<routerVars, connVars, handlerVars, clients, slots, acceptVars, spc>>

StopUnlock ==
    /\ spc = "sweep"
    /\ Returned(Stopper)
    /\ todo = {}
    /\ spc' = "wait"
    /\ UNCHANGED <<routerVars, connVars, closeVars, handlerVars, clients, slots,
                   acceptVars, todo>>

\* wg.Wait returns.
StopReturns ==
    /\ spc = "wait"
    /\ accPc = "exited"
    /\ \A c \in Clients : hpc[c] \in {"none", "done"}
    /\ spc' = "stopped"
    /\ UNCHANGED <<routerVars, connVars, closeVars, handlerVars, clients, slots,
                   acceptVars, todo>>

-----------------------------------------------------------------------------

AcceptLoop == (\E c \in Clients : Accept(c)) \/ Reject \/ Admit \/ AcceptExit

\* What depends on the client: it may never do it.
ClientActs(c) ==
    \/ HandshakeDone(c)
    \/ HandshakeFails(c)
    \/ \E id \in IDs, r \in {"listener", "connector"} : FirstMessage(c, r, id)
    \/ UnexpectedFirstMessage(c)
    \/ FirstMessageFails(c)
    \/ Receive(c)
    \/ ReceiveFails(c)
    \/ HeartbeatStale(c)
    \/ ClientGone(c) /\ UNCHANGED <<handlerVars, serverVars>>

\* What the handler of c does by itself.
HandlerRuns(c) ==
    \/ TrackClient(c)
    \/ AuthenticateOK(c)
    \/ AuthenticateFails(c)
    \/ HandleRegister(c)
    \/ HandleLink(c)
    \/ Refused(c)
    \/ SendAck(c)
    \/ SendRefusal(c)
    \/ RelayGetPeer(c)
    \/ RelayNoPeer(c)
    \/ Forward(c)
    \/ ForwardFails(c)
    \/ UntrackClient(c)
    \/ ReleaseSlot(c)

HeartbeatRuns(c) == HeartbeatExit(c) \/ HeartbeatTick(c) \/ HeartbeatSend(c)

StopRuns == (\E c \in Clients : StopClose(c)) \/ StopUnlock \/ StopReturns

\* A goroutine inside Close.
Closes(t) == CloseStep(t) /\ UNCHANGED <<handlerVars, serverVars>>

ClientDrains(c) == ClientReads(c) /\ UNCHANGED <<handlerVars, serverVars>>

\* After Stop has returned the process ends.
Terminated == spc = "stopped" /\ UNCHANGED vars

Next ==
    \/ AcceptLoop
    \/ \E c \in Clients : \/ ClientActs(c)
                          \/ HandlerRuns(c)
                          \/ HeartbeatRuns(c)
                          \/ ClientDrains(c)
    \/ \E t \in Threads : Closes(t)
    \/ Stop
    \/ StopRuns
    \/ Terminated

Spec == Init /\ [][Next]_vars

(***************************************************************************)
(* Fairness.  The Go scheduler runs every goroutine that can run, and      *)
(* sync.Mutex hands sendMu to every waiting writer in the end: hence       *)
(* strong fairness for the goroutines that write.  A read of a broken      *)
(* connection fails at once.  Clients owe nothing, except that one that is *)
(* connected goes on reading from its socket.                              *)
(***************************************************************************)
BrokenConnNoticed(c) ==
    /\ conn[c] # "open"
    /\ HandshakeFails(c) \/ FirstMessageFails(c) \/ ReceiveFails(c)

HandlerGoroutine(c) ==
    HandlerRuns(c) \/ BrokenConnNoticed(c) \/ Closes(Handler(c))
HeartbeatGoroutine(c) == HeartbeatRuns(c) \/ Closes(HeartbeatOf(c))

Fairness ==
    /\ WF_vars(Reject \/ Admit \/ AcceptExit)
    /\ SF_vars(StopRuns \/ Closes(Stopper))
    /\ \A c \in Clients : /\ SF_vars(HandlerGoroutine(c))
                          /\ SF_vars(HeartbeatGoroutine(c))
                          /\ WF_vars(ClientDrains(c))

FairSpec == Spec /\ Fairness

-----------------------------------------------------------------------------
(***************************************************************************)
(* Safety.                                                                 *)
(***************************************************************************)

Registered(c) == \E id \in IDs : listeners[id] = c
InRouter(c)   == Registered(c) \/ peers[c] # NoClient

\* Links come in pairs (router.go, LinkConnector and Remove): whoever a client
\* is relayed to is relayed back to it, one of the two is a listener that is
\* still registered under the connection ID both asked for, the other is a
\* connector.  A registered client is a listener under its own ID.
LinksPaired ==
    /\ \A id \in IDs, l \in Clients : listeners[id] = l =>
           role[l] = "listener" /\ connID[l] = id
    /\ \A c, p \in Clients : peers[c] = p =>
           /\ peers[p] = c
           /\ connID[c] \in IDs /\ connID[p] = connID[c]
           /\ \/ role[c] = "listener" /\ role[p] = "connector" /\ listeners[connID[c]] = c
              \/ role[c] = "connector" /\ role[p] = "listener" /\ listeners[connID[c]] = p

\* No ghosts (client_conn.go, Close): once the first Close of a client has
\* returned from its Once, the client is in neither map of the router and no
\* other goroutine puts it back.  Only a Stop that overtakes a handler that is
\* still registering can leave one behind.
NoGhosts ==
    \A c \in Clients : once[c] = "done" /\ InRouter(c) => Stopping

\* The relay never crosses connection IDs (server.go, relayMessages): the peer
\* looked up before a blocking write still is the other role of the same ID
\* when the write happens, and it is out of date only when one of the two is
\* being closed.  The client that a Close is about to notify and close is the
\* other role of the same ID, too.
RelayIsolation ==
    /\ \A c \in Clients : fwd[c] # NoClient =>
           /\ connID[c] = connID[fwd[c]]
           /\ role[c] # role[fwd[c]]
           /\ peers[c] # fwd[c] => once[c] # "new" \/ once[fwd[c]] # "new"
    /\ \A t \in Threads : closePc[t] = "notify" =>
           /\ connID[target[t]] = connID[toNotify[t]]
           /\ role[target[t]] # role[toNotify[t]]

\* A listener that loses its connector is closed as well, so that it registers
\* anew (client_conn.go, Close, step 5): there is no state with a listener that
\* was linked, is not any more, and that nobody is about to close.
Orphaned(c) == c \in linked /\ peers[c] = NoClient /\ ~Doomed(c)

NoOrphanedListener ==
    \A c \in Clients : role[c] = "listener" /\ Orphaned(c) => Stopping

\* The same for a connector that was told it is connected.  It does not hold:
\* see the run that violates it.
NoOrphanedConnector ==
    \A c \in Clients : role[c] = "connector" /\ Orphaned(c) => Stopping

\* connSem counts exactly the handlers that run (server.go, acceptLoop), and
\* every tracked client is the client of one of them.
SlotsMatchHandlers ==
    /\ slots = Cardinality({c \in Clients : hpc[c] \notin {"none", "done"}})
    /\ \A c \in clients :
           hpc[c] \notin {"none", "handshake", "track", "release", "done"}

\* Whoever is inside a Once is not waiting for anybody (client_conn.go, Close:
\* the peer is notified and closed outside the Once): it is about to take the
\* router's lock.  So closers of two peers cannot wait for each other.
OnceHolderRuns ==
    \A c \in Clients : once[c] = "running" =>
        \E t \in Threads : target[t] = c /\ closePc[t] \in {"getPeer", "remove"}

-----------------------------------------------------------------------------
(***************************************************************************)
(* Action properties.                                                      *)
(***************************************************************************)

\* How the router's maps change (router.go).  A link is only made between two
\* unlinked clients, and only broken, on both sides at once, by the Close of one
\* of the two.  A connection ID changes hands only through nobody, and its
\* holder loses it only in its own Close.
LinkChange(c) ==
    \/ /\ peers[c] = NoClient
       /\ peers'[peers'[c]] = c
       /\ once[c] = "done" => Stopping
    \/ /\ peers'[c] = NoClient
       /\ peers'[peers[c]] = NoClient
       /\ "running" \in {once[c], once[peers[c]]}

IDChange(id) ==
    \/ listeners[id] = NoClient
    \/ listeners'[id] = NoClient /\ once[listeners[id]] = "running"

RouterChange ==
    /\ \A c \in Clients : peers'[c] # peers[c] => LinkChange(c)
    /\ \A id \in IDs : listeners'[id] # listeners[id] => IDChange(id)

RouterLifecycle == [][RouterChange]_vars

\* A listener gets its RegisterAck before anything its connector sends
\* (listener.go expects the RegisterAck as the first message).  It does not
\* hold: see the run that violates it.
AckBeforeRelay ==
    [][\A c \in Clients :
          hpc[c] = "forward" /\ hpc'[c] = "recv" => hpc[fwd[c]] # "ack"]_vars

-----------------------------------------------------------------------------
(***************************************************************************)
(* The broker implements Rendezvous.  A room's host is the registered      *)
(* listener and its guest the listener's entry in peers; a client is gone  *)
(* when it is in neither map and its handler is past the two calls that    *)
(* could put it there.                                                     *)
(***************************************************************************)

Rooms == INSTANCE Rendezvous WITH
    host   <- listeners,
    guest  <- [id \in IDs |-> IF listeners[id] = NoClient THEN NoClient
                              ELSE peers[listeners[id]]],
    gone   <- {c \in Clients : ~InRouter(c) /\ hpc[c] \notin EarlyPhases},
    saying <- fwd

\* Two maps, two program counters per client and Close in five steps behave like
\* rooms that are entered and left in one (router.go, client_conn.go, server.go).
RoomsSpec == Rooms!Spec

-----------------------------------------------------------------------------
(***************************************************************************)
(* Liveness, under Fairness.                                               *)
(***************************************************************************)

(***************************************************************************)
(* Being closed is for ever, and each goroutine calls Close finitely       *)
(* often.  "Infinitely often, no x with P(x) lacks Q(x)" therefore says    *)
(* that each x with P(x) leads to Q(x), for all x in one formula.          *)
(***************************************************************************)

\* Every call of Close returns, however many goroutines close the two peers at
\* the same time.
CloseReturns == []<>(\A t \in Threads : Returned(t))

\* A client that was closed, or whose connection is lost, gives its slot back:
\* its handler leaves whatever it was blocked in.
SlotReturned ==
    []<>(\A c \in Clients : once[c] # "new" \/ conn[c] \in {"reset", "closed"} =>
            hpc[c] \in {"none", "done"})

\* Stop terminates.  It does not: see the run that violates it.
StopTerminates == Stopping ~> spc = "stopped"

=============================================================================
