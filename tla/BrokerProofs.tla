---------------------------- MODULE BrokerProofs ----------------------------
(***************************************************************************)
(* Proofs about Broker, for any number of clients, connection IDs and      *)
(* slots, and any capacity of the sockets.                                 *)
(***************************************************************************)
EXTENDS Broker, FiniteSetTheorems, TLAPS

-----------------------------------------------------------------------------
(***************************************************************************)
(* The parts of the inductive invariant, besides the properties.           *)
(***************************************************************************)

\* The handlers that hold a slot.
Active == {c \in Clients : hpc[c] \notin {"none", "done"}}

\* connSem counts them.
SlotInv ==
    /\ IsFiniteSet(Active)
    /\ slots = Cardinality(Active)

\* A tracked client has a handler between trackClient and untrackClient.
TrackInv ==
    \A c \in clients : hpc[c] \notin {"none", "handshake", "track", "release", "done"}

\* A connection is accepted, then admitted, once.
AcceptInv ==
    /\ \A c \in Clients : hpc[c] # "none" => conn[c] # "none"
    /\ accPc = "admit" => /\ accConn \in Clients
                          /\ hpc[accConn] = "none"
                          /\ conn[accConn] # "none"

\* Who executes a Once, and what the local variables of Close hold.
InsideOnce(t) == closePc[t] \in {"getPeer", "remove"}

CloseInv ==
    /\ \A t \in Threads :
          /\ closePc[t] # "idle" => target[t] \in Clients
          /\ InsideOnce(t) => once[target[t]] = "running"
          /\ closePc[t] = "notify" => toNotify[t] # NoClient
          /\ toNotify[t] # NoClient => closePc[t] \in {"remove", "notify"}
    /\ \A t, u \in Threads :
          InsideOnce(t) /\ InsideOnce(u) /\ target[t] = target[u] => t = u
    /\ OnceHolderRuns

\* A goroutine that calls Close is at the end of its work.
CallInv ==
    \A c \in Clients :
        /\ closePc[Handler(c)] # "idle" => hpc[c] = "untrack"
        /\ closePc[HeartbeatOf(c)] # "idle" => bpc[c] = "done"

\* The role decides the way through the handler.  Before its handler has put it
\* into the router, a client is not in it and was never linked.
RoleInv ==
    \A c \in Clients :
        /\ hpc[c] = "register" => role[c] = "listener" /\ connID[c] \in IDs
        /\ hpc[c] = "link" => role[c] = "connector" /\ connID[c] \in IDs
        /\ hpc[c] \in EarlyPhases => /\ \A id \in IDs : listeners[id] # c
                                     /\ peers[c] = NoClient
                                     /\ c \notin linked
        /\ hpc[c] \in EarlyPhases \cup {"ack"} => bpc[c] = "off"

\* The peer a Close took from the router has its role for good, and so has the
\* client the Close is about.
NotifyInv ==
    \A t \in Threads : toNotify[t] # NoClient =>
        /\ hpc[target[t]] \notin EarlyPhases
        /\ hpc[toNotify[t]] \notin EarlyPhases
        /\ connID[target[t]] = connID[toNotify[t]]
        /\ role[target[t]] # role[toNotify[t]]

\* The same for the peer the relay is writing to.
ForwardInv ==
    \A c \in Clients : fwd[c] # NoClient =>
        /\ hpc[c] = "forward"
        /\ hpc[fwd[c]] \notin EarlyPhases
        /\ connID[c] = connID[fwd[c]]
        /\ role[c] # role[fwd[c]]
        /\ peers[c] # fwd[c] => once[c] # "new" \/ once[fwd[c]] # "new"

\* As long as the server runs nobody closes a client that is not in the router
\* yet, and a Close that is going to unlink a listener knows that listener.
RunningInv ==
    ~Stopping =>
        /\ closePc[Stopper] = "idle"
        /\ \A c \in Clients : hpc[c] \in EarlyPhases => once[c] = "new"
        /\ \A t \in Threads : closePc[t] # "idle" => hpc[target[t]] \notin EarlyPhases
        /\ \A t \in Threads, l \in Clients :
              closePc[t] = "remove" /\ peers[target[t]] = l /\ role[l] = "listener"
                  => toNotify[t] = l

-----------------------------------------------------------------------------
(***************************************************************************)
(* Frames: which actions change what.                                      *)
(***************************************************************************)

\* The goroutines are different from each other.
LEMMA ThreadFacts ==
    /\ Stopper \in Threads
    /\ \A c \in Clients : Handler(c) \in Threads /\ HeartbeatOf(c) \in Threads
    /\ \A c, d \in Clients : /\ Handler(c) # HeartbeatOf(d)
                             /\ Handler(c) # Stopper
                             /\ HeartbeatOf(c) # Stopper
                             /\ Handler(c) = Handler(d) => c = d
                             /\ HeartbeatOf(c) = HeartbeatOf(d) => c = d
    /\ \A t \in Threads : \/ t = Stopper
                          \/ \E c \in Clients : t = Handler(c) \/ t = HeartbeatOf(c)
BY NoClientAssumption DEF Threads, Stopper, Handler, HeartbeatOf

\* The router's maps change in three kinds of steps (RegisterListener,
\* LinkConnector, Remove), and only LinkConnector links.
LEMMA RouterFrame ==
    ASSUME [Next]_vars
    PROVE  \/ UNCHANGED <<listeners, peers, linked>>
           \/ \E c \in Clients : HandleRegister(c) \/ HandleLink(c)
           \/ \E t \in Threads : CloseRemove(t) /\ UNCHANGED <<handlerVars, serverVars>>
BY DEF Next, vars, routerVars, handlerVars, roleVars,
       AcceptLoop, Accept, Reject, Admit, AcceptExit, ClientActs,
       HandshakeDone, HandshakeFails, FirstMessage, UnexpectedFirstMessage,
       FirstMessageFails, Receive, ReceiveFails, HeartbeatStale, ClientGone, Goto,
       HeartbeatOnly, HandlerRuns, TrackClient, AuthenticateOK, AuthenticateFails,
       Refused, SendAck, SendRefusal, RelayGetPeer, RelayNoPeer, Forward,
       ForwardFails, UntrackClient, ReleaseSlot, HeartbeatRuns, HeartbeatExit,
       HeartbeatTick, HeartbeatSend, ClientDrains, ClientReads, Closes, CloseStep,
       CloseEnter, CloseAgain, CloseGetPeer, CloseNotify, Stop, StopRuns, StopClose,
       StopUnlock, StopReturns, Terminated

\* closeVars change when a goroutine that is not inside Close calls it, and when
\* one that is takes its next step.  While the server runs, the client that is
\* closed by a call has been through the router.
LEMMA CloseFrame ==
    ASSUME TypeOK, CallInv, RoleInv, [Next]_vars
    PROVE  \/ UNCHANGED closeVars
           \/ \E t \in Threads : CloseStep(t) /\ UNCHANGED <<handlerVars, serverVars>>
           \/ \E t \in Threads, c \in Clients :
                 /\ closePc[t] = "idle"
                 /\ CallClose(t, c)
                 /\ Stopping \/ (t # Stopper /\ hpc'[c] \notin EarlyPhases)
<1> DEFINE Calls(c) ==
             \E t \in Threads :
                 /\ closePc[t] = "idle"
                 /\ CallClose(t, c)
                 /\ Stopping \/ (t # Stopper /\ hpc'[c] \notin EarlyPhases)
<1>1. CASE UNCHANGED vars \/ AcceptLoop \/ Stop \/ Terminated
  BY <1>1 DEF AcceptLoop, Accept, Reject, Admit, AcceptExit, Stop, Terminated, vars
<1>2. ASSUME NEW c \in Clients, ClientActs(c)
      PROVE  UNCHANGED closeVars \/ Calls(c)
  <2>1. CASE FirstMessageFails(c) \/ ReceiveFails(c)
    <3>1. closePc[Handler(c)] = "idle" /\ CallClose(Handler(c), c)
      BY <2>1 DEF FirstMessageFails, ReceiveFails, Goto, Returned
    <3>2. hpc'[c] = "untrack"
      BY <2>1 DEF FirstMessageFails, ReceiveFails, Goto, TypeOK
    <3> QED
      BY <3>1, <3>2, ThreadFacts DEF EarlyPhases
  <2>2. CASE HeartbeatStale(c)
    <3>1. closePc[HeartbeatOf(c)] = "idle" /\ CallClose(HeartbeatOf(c), c)
      BY <2>2 DEF HeartbeatStale, HeartbeatOnly, CallInv
    <3>2. hpc'[c] \notin EarlyPhases
      BY <2>2 DEF HeartbeatStale, HeartbeatOnly, RoleInv
    <3> QED
      BY <3>1, <3>2, ThreadFacts
  <2> QED
    BY <1>2, <2>1, <2>2 DEF ClientActs, HandshakeDone, HandshakeFails, FirstMessage,
              UnexpectedFirstMessage, Receive, ClientGone
<1>3. ASSUME NEW c \in Clients, HandlerRuns(c)
      PROVE  UNCHANGED closeVars \/ Calls(c)
  <2>1. CASE SendRefusal(c) \/ RelayNoPeer(c)
    <3>1. closePc[Handler(c)] = "idle" /\ CallClose(Handler(c), c)
      BY <2>1 DEF SendRefusal, RelayNoPeer, Goto, Returned
    <3>2. hpc'[c] = "untrack"
      BY <2>1 DEF SendRefusal, RelayNoPeer, Goto, TypeOK
    <3> QED
      BY <3>1, <3>2, ThreadFacts DEF EarlyPhases
  <2>2. CASE ForwardFails(c)
    <3>1. closePc[Handler(c)] = "idle" /\ CallClose(Handler(c), c)
      BY <2>2 DEF ForwardFails, CallInv
    <3>2. hpc'[c] = "untrack"
      BY <2>2 DEF ForwardFails, TypeOK
    <3> QED
      BY <3>1, <3>2, ThreadFacts DEF EarlyPhases
  <2> QED
    BY <1>3, <2>1, <2>2 DEF HandlerRuns, TrackClient, AuthenticateOK, AuthenticateFails,
              HandleRegister, HandleLink, Refused, SendAck, RelayGetPeer, Forward,
              UntrackClient, ReleaseSlot
<1>4. ASSUME NEW c \in Clients, HeartbeatRuns(c) \/ ClientDrains(c)
      PROVE  UNCHANGED closeVars
  BY <1>4 DEF HeartbeatRuns, HeartbeatExit, HeartbeatTick, HeartbeatSend, ClientDrains,
              ClientReads
<1>5. CASE StopRuns
  <2>1. ASSUME NEW c \in Clients, StopClose(c)
        PROVE  Calls(c)
    BY <2>1, ThreadFacts DEF StopClose, Returned, Stopping
  <2> QED
    BY <1>5, <2>1 DEF StopRuns, StopUnlock, StopReturns
<1> QED
  BY <1>1, <1>2, <1>3, <1>4, <1>5 DEF Next, Closes

\* A client that has got a role and an answer from the router keeps its role and
\* its connection ID, and does not go back.
LEMMA RoleFrame ==
    ASSUME TypeOK, AcceptInv, [Next]_vars, NEW c \in Clients, hpc[c] \notin EarlyPhases
    PROVE  /\ hpc'[c] \notin EarlyPhases
           /\ role'[c] = role[c]
           /\ connID'[c] = connID[c]
<1> USE DEF EarlyPhases, TypeOK, vars, handlerVars, roleVars
<1>1. CASE UNCHANGED <<hpc, role, connID>>
  BY <1>1
<1>2. CASE Admit
  BY <1>2 DEF Admit, AcceptInv
<1>3. ASSUME NEW d \in Clients, ClientActs(d) \/ HandlerRuns(d)
      PROVE  /\ hpc'[c] \notin EarlyPhases
             /\ role'[c] = role[c]
             /\ connID'[c] = connID[c]
  BY <1>3 DEF ClientActs, HandshakeDone, HandshakeFails, FirstMessage,
              UnexpectedFirstMessage, FirstMessageFails, Receive, ReceiveFails,
              HeartbeatStale, HeartbeatOnly, ClientGone, Goto, HandlerRuns,
              TrackClient, AuthenticateOK, AuthenticateFails, HandleRegister,
              HandleLink, Refused, SendAck, SendRefusal, RelayGetPeer, RelayNoPeer,
              Forward, ForwardFails, UntrackClient, ReleaseSlot
<1> QED
  BY <1>1, <1>2, <1>3 DEF Next, AcceptLoop, Accept, Reject, AcceptExit, HeartbeatRuns,
              HeartbeatExit, HeartbeatTick, HeartbeatSend, HeartbeatOnly, ClientDrains,
              Closes, Stop, StopRuns, StopClose, StopUnlock, StopReturns, Terminated

\* The relay's local variable peer lives from GetPeer to the end of the write.
LEMMA ForwardFrame ==
    ASSUME TypeOK, AcceptInv, ForwardInv, [Next]_vars, NEW c \in Clients, fwd'[c] # NoClient
    PROVE  \/ fwd'[c] = fwd[c] /\ hpc'[c] = "forward"
           \/ RelayGetPeer(c)
<1> USE DEF TypeOK, ForwardInv, vars, handlerVars
<1>1. CASE UNCHANGED <<hpc, fwd>>
  BY <1>1
<1>2. CASE Admit
  BY <1>2 DEF Admit, AcceptInv
<1>3. ASSUME NEW d \in Clients, ClientActs(d) \/ HandlerRuns(d)
      PROVE  \/ fwd'[c] = fwd[c] /\ hpc'[c] = "forward"
             \/ RelayGetPeer(c)
  BY <1>3 DEF ClientActs, HandshakeDone, HandshakeFails, FirstMessage,
              UnexpectedFirstMessage, FirstMessageFails, Receive, ReceiveFails,
              HeartbeatStale, HeartbeatOnly, ClientGone, Goto, HandlerRuns,
              TrackClient, AuthenticateOK, AuthenticateFails, HandleRegister,
              HandleLink, Refused, SendAck, SendRefusal, RelayGetPeer, RelayNoPeer,
              Forward, ForwardFails, UntrackClient, ReleaseSlot
<1> QED
  BY <1>1, <1>2, <1>3 DEF Next, AcceptLoop, Accept, Reject, AcceptExit, HeartbeatRuns,
              HeartbeatExit, HeartbeatTick, HeartbeatSend, HeartbeatOnly, ClientDrains,
              Closes, Stop, StopRuns, StopClose, StopUnlock, StopReturns, Terminated

\* closeOnce is never reset, and done stays done.
LEMMA OnceFrame ==
    ASSUME TypeOK, CallInv, RoleInv, CloseInv, [Next]_vars, NEW c \in Clients
    PROVE  /\ once[c] # "new" => once'[c] # "new"
           /\ once[c] = "done" => once'[c] = "done"
<1> USE DEF TypeOK, ClientConnTypeOK
<1>1. ASSUME NEW t \in Threads, CloseStep(t)
      PROVE  /\ once[c] # "new" => once'[c] # "new"
             /\ once[c] = "done" => once'[c] = "done"
  BY <1>1 DEF CloseStep, CloseEnter, CloseAgain, CloseGetPeer, CloseRemove, CloseNotify
<1> QED
  BY <1>1, CloseFrame DEF closeVars, CallClose

-----------------------------------------------------------------------------
(***************************************************************************)
(* One lemma for each part: every step preserves it.                       *)
(***************************************************************************)

\* Every step keeps the types.  A slot is given back only by a handler that holds
\* one, so the counter does not become negative.
LEMMA TypeOKStep ==
    ASSUME TypeOK, SlotInv, CloseInv, RoleInv, [Next]_vars
    PROVE  TypeOK'
<1> USE NoClientAssumption, WireCapAssumption, NoIDAssumption,
        MaxConnectionsAssumption
<1> USE DEF TypeOK, RouterTypeOK, ClientConnTypeOK, EarlyPhases, RelayPhases,
            LeavingPhases, Roles, ConnStates, ClosePhases,
            vars, routerVars, connVars, closeVars, handlerVars, roleVars,
            serverVars, acceptVars, stopVars
<1>1. CASE UNCHANGED vars
  BY <1>1
<1>2. CASE AcceptLoop
  BY <1>2 DEF AcceptLoop, Accept, Reject, Admit, AcceptExit, CloseConn
<1>3. ASSUME NEW c \in Clients, ClientActs(c)
      PROVE  TypeOK'
  BY <1>3 DEF ClientActs, HandshakeDone, HandshakeFails, FirstMessage,
              UnexpectedFirstMessage, FirstMessageFails, Receive, ReceiveFails,
              HeartbeatStale, ClientGone, Goto, CloseConn, CallClose, HeartbeatOnly
<1>4. ASSUME NEW c \in Clients, HandlerRuns(c)
      PROVE  TypeOK'
  <2>1. CASE ReleaseSlot(c)
    <3>1. c \in Active
      BY <2>1 DEF ReleaseSlot, Active
    <3>2. slots # 0
      BY <3>1, FS_EmptySet DEF SlotInv
    <3> QED
      BY <2>1, <3>2 DEF ReleaseSlot
  <2>2. CASE HandleRegister(c) \/ HandleLink(c)
    BY <2>2 DEF HandleRegister, HandleLink, RegisterListener, LinkConnector, CanLink,
                RoleInv
  <2>3. CASE \/ TrackClient(c) \/ AuthenticateOK(c) \/ AuthenticateFails(c)
             \/ Refused(c) \/ RelayGetPeer(c) \/ RelayNoPeer(c) \/ UntrackClient(c)
    BY <2>3 DEF TrackClient, AuthenticateOK, AuthenticateFails, Refused, RelayGetPeer,
                RelayNoPeer, UntrackClient, GetPeer, Goto, CloseConn, CallClose
  <2>4. CASE SendAck(c) \/ SendRefusal(c) \/ Forward(c) \/ ForwardFails(c)
    BY <2>4 DEF SendAck, SendRefusal, Forward, ForwardFails, BestEffortSend,
                SendSucceeds, SendFails, Goto, CallClose
  <2> QED
    BY <1>4, <2>1, <2>2, <2>3, <2>4 DEF HandlerRuns
<1>5. ASSUME NEW c \in Clients, HeartbeatRuns(c) \/ ClientDrains(c)
      PROVE  TypeOK'
  BY <1>5 DEF HeartbeatRuns, HeartbeatExit, HeartbeatTick, HeartbeatSend, HeartbeatOnly,
              ClientDrains, ClientReads, BestEffortSend, SendSucceeds, SendFails
<1>6. ASSUME NEW t \in Threads, Closes(t)
      PROVE  TypeOK'
  <2>1. CASE CloseRemove(t)
    <3>1. RouterTypeOK'
      BY <2>1 DEF CloseRemove, Remove, Unregister, Unlink
    <3> QED
      BY <2>1, <1>6, <3>1, ZenonT(60) DEF Closes, CloseRemove
  <2>2. CASE CloseGetPeer(t)
    BY <1>6, <2>2 DEF Closes, CloseGetPeer, GetPeer, CloseInv
  <2> QED
    BY <1>6, <2>1, <2>2 DEF Closes, CloseStep, CloseEnter, CloseAgain, CloseNotify,
                CloseConn, BestEffortSend, SendSucceeds, SendFails
<1>7. CASE Stop \/ StopRuns \/ Terminated
  BY <1>7 DEF Stop, StopRuns, StopClose, StopUnlock, StopReturns, Terminated, CallClose
<1> QED
  BY <1>1, <1>2, <1>3, <1>4, <1>5, <1>6, <1>7 DEF Next

\* Every step keeps the order of Accept, admission and handler: the accept loop
\* holds at most one connection, which has no handler yet.
LEMMA AcceptInvStep ==
    ASSUME TypeOK, AcceptInv, [Next]_vars
    PROVE  AcceptInv'
<1> USE DEF TypeOK, ClientConnTypeOK, AcceptInv, vars, connVars, handlerVars, serverVars,
            acceptVars
<1>1. CASE UNCHANGED vars \/ AcceptLoop
  BY <1>1 DEF AcceptLoop, Accept, Reject, Admit, AcceptExit, CloseConn
<1>2. ASSUME NEW c \in Clients, ClientActs(c)
      PROVE  AcceptInv'
  BY <1>2 DEF ClientActs, HandshakeDone, HandshakeFails, FirstMessage,
              UnexpectedFirstMessage, FirstMessageFails, Receive, ReceiveFails,
              HeartbeatStale, ClientGone, Goto, CloseConn, HeartbeatOnly
<1>3. ASSUME NEW c \in Clients, HandlerRuns(c)
      PROVE  AcceptInv'
  BY <1>3 DEF HandlerRuns, TrackClient, AuthenticateOK, AuthenticateFails, HandleRegister,
              HandleLink, Refused, SendAck, SendRefusal, RelayGetPeer, RelayNoPeer, Forward,
              ForwardFails, UntrackClient, ReleaseSlot, Goto, CloseConn
<1>4. ASSUME NEW c \in Clients, HeartbeatRuns(c) \/ ClientDrains(c)
      PROVE  AcceptInv'
  BY <1>4 DEF HeartbeatRuns, HeartbeatExit, HeartbeatTick, HeartbeatSend, HeartbeatOnly,
              ClientDrains, ClientReads
<1>5. ASSUME NEW t \in Threads, Closes(t)
      PROVE  AcceptInv'
  BY <1>5 DEF Closes, CloseStep, CloseEnter, CloseAgain, CloseGetPeer, CloseRemove,
              CloseNotify, CloseConn
<1>6. CASE Stop \/ StopRuns \/ Terminated
  BY <1>6 DEF Stop, StopRuns, StopClose, StopUnlock, StopReturns, Terminated
<1> QED
  BY <1>1, <1>2, <1>3, <1>4, <1>5, <1>6 DEF Next

\* Every step keeps the number of tokens in connSem equal to the number of
\* handlers: Admit adds one to both, ReleaseSlot takes one from both.
LEMMA SlotInvStep ==
    ASSUME TypeOK, AcceptInv, SlotInv, [Next]_vars
    PROVE  SlotInv'
<1> USE DEF TypeOK, SlotInv
<1>1. CASE Active' = Active /\ slots' = slots
  BY <1>1
<1>2. CASE Admit
  <2>1. accConn \in Clients /\ accConn \notin Active /\ Active' = Active \cup {accConn}
    BY <1>2 DEF Admit, Active, AcceptInv
  <2>2. IsFiniteSet(Active') /\ Cardinality(Active') = Cardinality(Active) + 1
    BY <2>1, FS_AddElement
  <2> QED
    BY <1>2, <2>2 DEF Admit
<1>3. ASSUME NEW c \in Clients, ReleaseSlot(c)
      PROVE  SlotInv'
  <2>1. c \in Active /\ Active' = Active \ {c}
    BY <1>3 DEF ReleaseSlot, Active
  <2>2. IsFiniteSet(Active') /\ Cardinality(Active') = Cardinality(Active) - 1
    BY <2>1, FS_RemoveElement
  <2> QED
    BY <1>3, <2>2 DEF ReleaseSlot
<1> USE DEF Active, vars, handlerVars, serverVars
<1>4. CASE UNCHANGED vars \/ AcceptLoop
  BY <1>1, <1>2, <1>4 DEF AcceptLoop, Accept, Reject, AcceptExit
<1>5. ASSUME NEW c \in Clients, ClientActs(c)
      PROVE  SlotInv'
  BY <1>1, <1>5 DEF ClientActs, HandshakeDone, HandshakeFails, FirstMessage,
              UnexpectedFirstMessage, FirstMessageFails, Receive, ReceiveFails,
              HeartbeatStale, ClientGone, Goto, HeartbeatOnly
<1>6. ASSUME NEW c \in Clients, HandlerRuns(c)
      PROVE  SlotInv'
  BY <1>1, <1>3, <1>6 DEF HandlerRuns, TrackClient, AuthenticateOK, AuthenticateFails,
              HandleRegister, HandleLink, Refused, SendAck, SendRefusal, RelayGetPeer,
              RelayNoPeer, Forward, ForwardFails, UntrackClient, Goto
<1>7. ASSUME NEW c \in Clients, HeartbeatRuns(c) \/ ClientDrains(c)
      PROVE  SlotInv'
  BY <1>1, <1>7 DEF HeartbeatRuns, HeartbeatExit, HeartbeatTick, HeartbeatSend,
              HeartbeatOnly, ClientDrains
<1>8. CASE (\E t \in Threads : Closes(t)) \/ Stop \/ StopRuns \/ Terminated
  BY <1>1, <1>8 DEF Closes, Stop, StopRuns, StopClose, StopUnlock, StopReturns, Terminated
<1> QED
  BY <1>4, <1>5, <1>6, <1>7, <1>8 DEF Next

\* Every step keeps Server.clients within the handlers that are between
\* trackClient and untrackClient.
LEMMA TrackInvStep ==
    ASSUME TypeOK, AcceptInv, TrackInv, [Next]_vars
    PROVE  TrackInv'
<1> USE DEF TypeOK, TrackInv, vars, handlerVars, serverVars
<1>1. CASE UNCHANGED vars \/ AcceptLoop
  BY <1>1 DEF AcceptLoop, Accept, Reject, Admit, AcceptExit, AcceptInv
<1>2. ASSUME NEW c \in Clients, ClientActs(c)
      PROVE  TrackInv'
  BY <1>2 DEF ClientActs, HandshakeDone, HandshakeFails, FirstMessage,
              UnexpectedFirstMessage, FirstMessageFails, Receive, ReceiveFails,
              HeartbeatStale, ClientGone, Goto, HeartbeatOnly
<1>3. ASSUME NEW c \in Clients, HandlerRuns(c)
      PROVE  TrackInv'
  BY <1>3 DEF HandlerRuns, TrackClient, AuthenticateOK, AuthenticateFails,
              HandleRegister, HandleLink, Refused, SendAck, SendRefusal, RelayGetPeer,
              RelayNoPeer, Forward, ForwardFails, UntrackClient, ReleaseSlot, Goto
<1>4. ASSUME NEW c \in Clients, HeartbeatRuns(c) \/ ClientDrains(c)
      PROVE  TrackInv'
  BY <1>4 DEF HeartbeatRuns, HeartbeatExit, HeartbeatTick, HeartbeatSend, HeartbeatOnly,
              ClientDrains
<1>5. CASE (\E t \in Threads : Closes(t)) \/ Stop \/ StopRuns \/ Terminated
  BY <1>5 DEF Closes, Stop, StopRuns, StopClose, StopUnlock, StopReturns, Terminated
<1> QED
  BY <1>1, <1>2, <1>3, <1>4, <1>5 DEF Next

\* Every step keeps at most one goroutine inside each closeOnce, and the local
\* variables of Close meaningful.
LEMMA CloseInvStep ==
    ASSUME TypeOK, CallInv, RoleInv, CloseInv, [Next]_vars
    PROVE  CloseInv'
<1> USE NoClientAssumption
<1> USE DEF TypeOK, ClientConnTypeOK, CloseInv, OnceHolderRuns, InsideOnce
<1>1. CASE UNCHANGED closeVars
  BY <1>1 DEF closeVars
<1>2. ASSUME NEW t \in Threads, NEW c \in Clients, closePc[t] = "idle", CallClose(t, c)
      PROVE  CloseInv'
  BY <1>2 DEF CallClose
<1>3. ASSUME NEW t \in Threads, CloseStep(t)
      PROVE  CloseInv'
  <2>1. CASE CloseEnter(t)
    BY <2>1 DEF CloseEnter
  <2>2. CASE CloseAgain(t)
    BY <2>2 DEF CloseAgain
  <2>3. CASE CloseGetPeer(t)
    BY <2>3 DEF CloseGetPeer
  <2>4. CASE CloseRemove(t)
    BY <2>4, SMTT(30) DEF CloseRemove
  <2>5. CASE CloseNotify(t)
    BY <2>5 DEF CloseNotify
  <2> QED
    BY <1>3, <2>1, <2>2, <2>3, <2>4, <2>5 DEF CloseStep
<1> QED
  BY <1>1, <1>2, <1>3, CloseFrame

\* Every step keeps the callers of Close at the end of their work: the handler
\* before its untrackClient, the heartbeat goroutine before its return.
LEMMA CallInvStep ==
    ASSUME TypeOK, AcceptInv, CallInv, RoleInv, [Next]_vars
    PROVE  CallInv'
<1> USE ThreadFacts DEF TypeOK, ClientConnTypeOK, CallInv, vars, closeVars, handlerVars
<1>1. CASE UNCHANGED vars \/ AcceptLoop \/ Stop \/ Terminated
  BY <1>1 DEF AcceptLoop, Accept, Reject, Admit, AcceptExit, Stop, Terminated, AcceptInv
<1>2. ASSUME NEW c \in Clients, ClientActs(c)
      PROVE  CallInv'
  BY <1>2 DEF ClientActs, HandshakeDone, HandshakeFails, FirstMessage,
              UnexpectedFirstMessage, FirstMessageFails, Receive, ReceiveFails,
              HeartbeatStale, ClientGone, Goto, HeartbeatOnly, CallClose, Returned
<1>3. ASSUME NEW c \in Clients, HandlerRuns(c)
      PROVE  CallInv'
  <2>1. CASE \/ TrackClient(c) \/ AuthenticateOK(c) \/ AuthenticateFails(c)
             \/ HandleRegister(c) \/ HandleLink(c) \/ Refused(c) \/ RelayGetPeer(c)
             \/ Forward(c) \/ UntrackClient(c) \/ ReleaseSlot(c)
    BY <2>1 DEF TrackClient, AuthenticateOK, AuthenticateFails, HandleRegister,
              HandleLink, Refused, RelayGetPeer, Forward, UntrackClient, ReleaseSlot,
              Goto, Returned
  <2>2. CASE SendAck(c)
    BY <2>2 DEF SendAck, RoleInv, EarlyPhases
  <2>3. CASE SendRefusal(c) \/ RelayNoPeer(c) \/ ForwardFails(c)
    BY <2>3 DEF SendRefusal, RelayNoPeer, ForwardFails, CallClose, Goto
  <2> QED
    BY <1>3, <2>1, <2>2, <2>3 DEF HandlerRuns
<1>4. ASSUME NEW c \in Clients, HeartbeatRuns(c) \/ ClientDrains(c)
      PROVE  CallInv'
  BY <1>4 DEF HeartbeatRuns, HeartbeatExit, HeartbeatTick, HeartbeatSend, HeartbeatOnly,
              ClientDrains, ClientReads
<1>5. ASSUME NEW t \in Threads, Closes(t)
      PROVE  CallInv'
  BY <1>5 DEF Closes, CloseStep, CloseEnter, CloseAgain, CloseGetPeer, CloseRemove,
              CloseNotify
<1>6. CASE StopRuns
  BY <1>6 DEF StopRuns, StopClose, StopUnlock, StopReturns, CallClose
<1> QED
  BY <1>1, <1>2, <1>3, <1>4, <1>5, <1>6 DEF Next

\* Every step keeps a client without an answer from the router out of its maps.
LEMMA RoleInvStep ==
    ASSUME TypeOK, AcceptInv, CloseInv, RoleInv, [Next]_vars
    PROVE  RoleInv'
<1> USE NoClientAssumption
<1> USE DEF TypeOK, RouterTypeOK, RoleInv, EarlyPhases, vars, handlerVars, roleVars,
            routerVars
<1>1. CASE UNCHANGED vars \/ AcceptLoop \/ Stop \/ StopRuns \/ Terminated
  BY <1>1 DEF AcceptLoop, Accept, Reject, Admit, AcceptExit, Stop, Terminated, AcceptInv,
              StopRuns, StopClose, StopUnlock, StopReturns
<1>2. ASSUME NEW c \in Clients, ClientActs(c)
      PROVE  RoleInv'
  BY <1>2 DEF ClientActs, HandshakeDone, HandshakeFails, FirstMessage,
              UnexpectedFirstMessage, FirstMessageFails, Receive, ReceiveFails,
              HeartbeatStale, ClientGone, Goto, HeartbeatOnly
<1>3. ASSUME NEW c \in Clients, HandlerRuns(c)
      PROVE  RoleInv'
  <2>1. CASE HandleRegister(c)
    BY <2>1 DEF HandleRegister, RegisterListener
  <2>2. CASE HandleLink(c)
    BY <2>2 DEF HandleLink, LinkConnector, CanLink
  <2>3. CASE ~HandleRegister(c) /\ ~HandleLink(c)
    BY <1>3, <2>3 DEF HandlerRuns, TrackClient, AuthenticateOK, AuthenticateFails,
              Refused, SendAck, SendRefusal, RelayGetPeer, RelayNoPeer, Forward,
              ForwardFails, UntrackClient, ReleaseSlot, Goto
  <2> QED
    BY <2>1, <2>2, <2>3
<1>4. ASSUME NEW c \in Clients, HeartbeatRuns(c) \/ ClientDrains(c)
      PROVE  RoleInv'
  BY <1>4 DEF HeartbeatRuns, HeartbeatExit, HeartbeatTick, HeartbeatSend, HeartbeatOnly,
              ClientDrains, ClientReads
<1>5. ASSUME NEW t \in Threads, Closes(t)
      PROVE  RoleInv'
  <2>1. CASE CloseRemove(t)
    BY <1>5, <2>1 DEF Closes, CloseRemove, Remove, Unregister, Unlink, CloseInv
  <2> QED
    BY <1>5, <2>1 DEF Closes, CloseStep, CloseEnter, CloseAgain, CloseGetPeer, CloseNotify
<1> QED
  BY <1>1, <1>2, <1>3, <1>4, <1>5 DEF Next

\* Every step keeps the links of the router paired: LinkConnector makes both
\* directions, Remove breaks both.
LEMMA LinksPairedStep ==
    ASSUME TypeOK, AcceptInv, CloseInv, RoleInv, LinksPaired, [Next]_vars
    PROVE  LinksPaired'
<1> USE NoClientAssumption, NoIDAssumption
<1> USE DEF TypeOK, RouterTypeOK, ClientConnTypeOK, LinksPaired
<1>1. CASE UNCHANGED <<listeners, peers>>
  <2>1. ASSUME NEW c \in Clients, hpc[c] \notin EarlyPhases
        PROVE  role'[c] = role[c] /\ connID'[c] = connID[c]
    BY <2>1, RoleFrame
  <2> QED
    BY <1>1, <2>1 DEF RoleInv
<1>2. ASSUME NEW c \in Clients, HandleRegister(c)
      PROVE  LinksPaired'
  BY <1>2 DEF HandleRegister, RegisterListener, CanRegister, RoleInv, EarlyPhases, roleVars
<1>3. ASSUME NEW c \in Clients, HandleLink(c)
      PROVE  LinksPaired'
  BY <1>3 DEF HandleLink, LinkConnector, CanLink, RoleInv, EarlyPhases
<1>4. ASSUME NEW t \in Threads, CloseRemove(t), UNCHANGED handlerVars
      PROVE  LinksPaired'
  <2>1. target[t] \in Clients
    BY <1>4 DEF CloseRemove, CloseInv
  <2> QED
    BY <1>4, <2>1 DEF CloseRemove, Remove, Unregister, Unlink, handlerVars, roleVars
<1> QED
  BY <1>1, <1>2, <1>3, <1>4, RouterFrame

\* Every step keeps the peer that a Close took from the router the other role of
\* the same connection ID.
LEMMA NotifyInvStep ==
    ASSUME TypeOK, AcceptInv, CallInv, CloseInv, RoleInv, LinksPaired, NotifyInv,
           [Next]_vars
    PROVE  NotifyInv'
<1> USE NoClientAssumption
<1> USE DEF TypeOK, RouterTypeOK, ClientConnTypeOK, NotifyInv
<1>1. ASSUME NEW c \in Clients, hpc[c] \notin EarlyPhases
      PROVE  /\ hpc'[c] \notin EarlyPhases
             /\ role'[c] = role[c]
             /\ connID'[c] = connID[c]
  BY <1>1, RoleFrame
<1>2. ASSUME NEW t \in Threads, toNotify[t] # NoClient
      PROVE  target[t] \in Clients /\ toNotify[t] \in Clients
  BY <1>2 DEF CloseInv
<1>3. CASE UNCHANGED closeVars
  BY <1>1, <1>2, <1>3 DEF closeVars
<1>4. ASSUME NEW t \in Threads, NEW c \in Clients, closePc[t] = "idle", CallClose(t, c)
      PROVE  NotifyInv'
  BY <1>1, <1>2, <1>4 DEF CallClose, CloseInv
<1>5. ASSUME NEW t \in Threads, CloseStep(t), UNCHANGED handlerVars
      PROVE  NotifyInv'
  <2>1. CASE CloseGetPeer(t)
    BY <1>2, <1>5, <2>1 DEF CloseGetPeer, GetPeer, CloseInv, LinksPaired, RoleInv,
              handlerVars, roleVars
  <2> QED
    BY <1>2, <1>5, <2>1 DEF CloseStep, CloseEnter, CloseAgain, CloseRemove, CloseNotify,
              CloseInv, handlerVars, roleVars
<1> QED
  BY <1>3, <1>4, <1>5, CloseFrame

\* Every step keeps the peer that a relay is writing to the other role of the same
\* connection ID, out of date only when one of the two is being closed.
LEMMA ForwardInvStep ==
    ASSUME TypeOK, AcceptInv, CallInv, CloseInv, RoleInv, LinksPaired, ForwardInv,
           [Next]_vars
    PROVE  ForwardInv'
<1> USE NoClientAssumption
<1> USE DEF TypeOK, RouterTypeOK, ClientConnTypeOK, ForwardInv
<1>1. ASSUME NEW c \in Clients, hpc[c] \notin EarlyPhases
      PROVE  /\ hpc'[c] \notin EarlyPhases
             /\ role'[c] = role[c]
             /\ connID'[c] = connID[c]
  BY <1>1, RoleFrame
<1>2. ASSUME NEW c \in Clients, once[c] # "new"
      PROVE  once'[c] # "new"
  BY <1>2, OnceFrame
<1>3. ASSUME NEW c \in Clients, fwd[c] # NoClient, fwd'[c] = fwd[c]
      PROVE  peers'[c] # fwd[c] => once'[c] # "new" \/ once'[fwd[c]] # "new"
  <2>1. CASE peers[c] # fwd[c]
    BY <1>2, <1>3, <2>1
  <2>2. CASE UNCHANGED <<listeners, peers>>
    BY <1>2, <1>3, <2>2
  <2>3. ASSUME NEW d \in Clients, HandleRegister(d) \/ HandleLink(d), peers[c] = fwd[c]
        PROVE  peers'[c] = fwd[c]
    BY <1>3, <2>3 DEF HandleRegister, RegisterListener, HandleLink, LinkConnector, CanLink,
              RoleInv, EarlyPhases
  <2>4. ASSUME NEW t \in Threads, CloseRemove(t), peers[c] = fwd[c], peers'[c] # fwd[c]
        PROVE  once'[c] # "new" \/ once'[fwd[c]] # "new"
    <3>1. target[t] \in Clients /\ once'[target[t]] = "done"
      BY <2>4 DEF CloseRemove, CloseInv
    <3>2. target[t] \in {c, fwd[c]}
      BY <1>3, <2>4, <3>1 DEF CloseRemove, Remove, Unlink, LinksPaired
    <3> QED
      BY <3>1, <3>2
  <2> QED
    BY <2>1, <2>2, <2>3, <2>4, RouterFrame
<1>4. ASSUME NEW c \in Clients, fwd'[c] # NoClient
      PROVE  \/ fwd'[c] = fwd[c] /\ hpc'[c] = "forward"
             \/ RelayGetPeer(c)
  BY <1>4, ForwardFrame
<1>5. ASSUME NEW c \in Clients, RelayGetPeer(c)
      PROVE  /\ hpc'[c] = "forward"
             /\ hpc'[fwd'[c]] \notin EarlyPhases
             /\ connID'[c] = connID'[fwd'[c]]
             /\ role'[c] # role'[fwd'[c]]
             /\ peers'[c] = fwd'[c]
  <2>1. fwd'[c] = peers[c] /\ peers[c] \in Clients /\ peers'[c] = peers[c] /\ hpc'[c] = "forward"
    BY <1>5 DEF RelayGetPeer, GetPeer, routerVars
  <2>2. hpc[c] \notin EarlyPhases /\ hpc[peers[c]] \notin EarlyPhases
    BY <2>1 DEF RoleInv, LinksPaired
  <2> QED
    BY <1>1, <2>1, <2>2 DEF LinksPaired
<1> QED
  BY <1>1, <1>3, <1>4, <1>5 DEF EarlyPhases

\* Every step of a running server keeps unregistered clients unclosed, and the
\* listener that a Close is about to unlink known to that Close: only LinkConnector
\* could change it meanwhile, and it links a listener to a connector that is new.
LEMMA RunningInvStep ==
    ASSUME TypeOK, AcceptInv, CallInv, CloseInv, RoleInv, LinksPaired, NotifyInv,
           RunningInv, [Next]_vars
    PROVE  RunningInv'
<1> SUFFICES ASSUME ~Stopping'
             PROVE  RunningInv'
  BY DEF RunningInv
<1> USE NoClientAssumption
<1> USE DEF TypeOK, RouterTypeOK, ClientConnTypeOK
<1>1. ~Stopping
  BY DEF Stopping, Next, vars, AcceptLoop, Accept, Reject, Admit, AcceptExit, ClientActs,
       HandshakeDone, HandshakeFails, FirstMessage, UnexpectedFirstMessage,
       FirstMessageFails, Receive, ReceiveFails, HeartbeatStale, ClientGone, Goto,
       HeartbeatOnly, HandlerRuns, TrackClient, AuthenticateOK, AuthenticateFails,
       HandleRegister, HandleLink,
       Refused, SendAck, SendRefusal, RelayGetPeer, RelayNoPeer, Forward,
       ForwardFails, UntrackClient, ReleaseSlot, HeartbeatRuns, HeartbeatExit,
       HeartbeatTick, HeartbeatSend, ClientDrains, Closes, Stop, StopRuns, StopClose,
       StopUnlock, StopReturns, Terminated, serverVars, stopVars
<1>2. ASSUME NEW c \in Clients, hpc[c] \notin EarlyPhases
      PROVE  /\ hpc'[c] \notin EarlyPhases
             /\ role'[c] = role[c]
             /\ connID'[c] = connID[c]
  BY <1>2, RoleFrame
<1> DEFINE Knows(t) == \A l \in Clients :
              closePc[t] = "remove" /\ peers[target[t]] = l /\ role[l] = "listener"
                  => toNotify[t] = l
           Reached == /\ closePc[Stopper] = "idle"
                      /\ \A c \in Clients : hpc[c] \in EarlyPhases => once[c] = "new"
                      /\ \A t \in Threads :
                            closePc[t] # "idle" => hpc[target[t]] \notin EarlyPhases
<1>3. Reached'
  <2>1. CASE UNCHANGED closeVars
    BY <1>1, <1>2, <2>1 DEF closeVars, RunningInv, CloseInv
  <2>2. ASSUME NEW t \in Threads, NEW c \in Clients, CallClose(t, c), t # Stopper,
               hpc'[c] \notin EarlyPhases
        PROVE  Reached'
    BY <1>1, <1>2, <2>2 DEF CallClose, RunningInv, CloseInv
  <2>3. ASSUME NEW t \in Threads, CloseStep(t), UNCHANGED handlerVars
        PROVE  Reached'
    <3>1. t # Stopper
      BY <1>1, <2>3 DEF RunningInv, CloseStep, CloseEnter, CloseAgain, CloseGetPeer,
              CloseRemove, CloseNotify
    <3>2. closePc[t] # "idle" /\ target[t] \in Clients /\ hpc[target[t]] \notin EarlyPhases
      BY <1>1, <2>3 DEF RunningInv, CloseInv, CloseStep, CloseEnter, CloseAgain,
              CloseGetPeer, CloseRemove, CloseNotify
    <3>3. hpc' = hpc
      BY <2>3 DEF handlerVars
    <3>4. CASE CloseEnter(t)
      BY <1>1, <3>1, <3>2, <3>3, <3>4 DEF CloseEnter, RunningInv
    <3>5. CASE CloseAgain(t)
      BY <1>1, <3>1, <3>2, <3>3, <3>5 DEF CloseAgain, RunningInv
    <3>6. CASE CloseGetPeer(t)
      BY <1>1, <3>1, <3>2, <3>3, <3>6 DEF CloseGetPeer, RunningInv
    <3>7. CASE CloseRemove(t)
      <4>1. closePc'[Stopper] = closePc[Stopper]
        BY <3>1, <3>7, ThreadFacts DEF CloseRemove
      <4>2. \A u \in Threads : closePc'[u] # "idle" =>
                                  closePc[u] # "idle" /\ target'[u] = target[u]
        BY <3>7 DEF CloseRemove
      <4>3. \A c \in Clients : hpc[c] \in EarlyPhases => once'[c] = once[c]
        BY <3>2, <3>7 DEF CloseRemove
      <4> QED
        BY <1>1, <3>3, <4>1, <4>2, <4>3 DEF RunningInv
    <3>8. CASE CloseNotify(t)
      <4>1. toNotify[t] \in Clients /\ hpc[toNotify[t]] \notin EarlyPhases
        BY <3>8 DEF CloseNotify, CloseInv, NotifyInv
      <4> QED
        BY <1>1, <3>1, <3>2, <3>3, <3>8, <4>1 DEF CloseNotify, RunningInv
    <3> QED
      BY <2>3, <3>4, <3>5, <3>6, <3>7, <3>8 DEF CloseStep
  <2> QED
    BY <1>1, <2>1, <2>2, <2>3, CloseFrame
<1>4. ASSUME NEW t \in Threads
      PROVE  Knows(t)'
  <2>1. ASSUME NEW x \in Clients, hpc[x] \notin EarlyPhases,
               NEW l \in Clients, peers'[x] = l, role'[l] = "listener"
        PROVE  peers[x] = l /\ role[l] = "listener"
    <3>1. peers[x] = l
      <4>1. CASE UNCHANGED <<listeners, peers>>
        BY <2>1, <4>1
      <4>2. ASSUME NEW c \in Clients, HandleRegister(c) \/ HandleLink(c)
            PROVE  peers[x] = l
        BY <2>1, <4>2 DEF HandleRegister, RegisterListener, HandleLink, LinkConnector,
              CanLink, RoleInv, EarlyPhases
      <4>3. ASSUME NEW u \in Threads, CloseRemove(u)
            PROVE  peers[x] = l
        <5>1. target[u] \in Clients
          BY <4>3 DEF CloseRemove, CloseInv
        <5> QED
          BY <2>1, <4>3, <5>1 DEF CloseRemove, Remove, Unlink
      <4> QED
        BY <4>1, <4>2, <4>3, RouterFrame
    <3>2. hpc[l] \notin EarlyPhases
      BY <3>1, <2>1 DEF RoleInv, LinksPaired
    <3> QED
      BY <1>2, <2>1, <3>1, <3>2
  <2>2. ASSUME closePc'[t] = "remove"
        PROVE  \/ CloseGetPeer(t)
               \/ /\ closePc[t] = "remove"
                  /\ target'[t] = target[t]
                  /\ toNotify'[t] = toNotify[t]
    <3>1. ASSUME NEW u \in Threads, CloseStep(u)
          PROVE  \/ CloseGetPeer(t)
                 \/ /\ closePc[t] = "remove"
                    /\ target'[t] = target[t]
                    /\ toNotify'[t] = toNotify[t]
      BY <2>2, <3>1 DEF CloseStep, CloseEnter, CloseAgain, CloseGetPeer, CloseRemove,
              CloseNotify
    <3> QED
      BY <2>2, <3>1, CloseFrame DEF closeVars, CallClose
  <2>3. CASE CloseGetPeer(t)
    BY <2>3 DEF CloseGetPeer, GetPeer, routerVars
  <2>4. CASE closePc[t] = "remove" /\ target'[t] = target[t] /\ toNotify'[t] = toNotify[t]
    <3>1. target[t] \in Clients /\ hpc[target[t]] \notin EarlyPhases /\ Knows(t)
      BY <1>1, <2>4 DEF RunningInv, CloseInv
    <3> QED
      BY <2>1, <2>4, <3>1
  <2> QED
    BY <2>2, <2>3, <2>4
<1> QED
  BY <1>3, <1>4 DEF RunningInv

\* Every step of a running server keeps closed clients out of the router: nobody
\* registers or links a client whose Close has begun.
LEMMA NoGhostsStep ==
    ASSUME TypeOK, AcceptInv, CallInv, CloseInv, RoleInv, LinksPaired, RunningInv,
           NoGhosts, [Next]_vars, ~Stopping, NEW c \in Clients, once'[c] = "done"
    PROVE  ~InRouter(c)'
<1> USE NoClientAssumption
<1> USE DEF TypeOK, RouterTypeOK, ClientConnTypeOK, InRouter, Registered
<1>1. CASE once[c] = "done"
  <2>1. ~InRouter(c) /\ hpc[c] \notin EarlyPhases
    BY <1>1 DEF NoGhosts, RunningInv
  <2>2. CASE UNCHANGED <<listeners, peers>>
    BY <2>1, <2>2
  <2>3. ASSUME NEW d \in Clients, HandleRegister(d) \/ HandleLink(d)
        PROVE  ~InRouter(c)'
    BY <2>1, <2>3 DEF HandleRegister, RegisterListener, HandleLink, LinkConnector, CanLink,
              RoleInv, EarlyPhases
  <2>4. ASSUME NEW t \in Threads, CloseRemove(t)
        PROVE  ~InRouter(c)'
    BY <2>1, <2>4 DEF CloseRemove, Remove, Unregister, Unlink, CloseInv
  <2> QED
    BY <2>2, <2>3, <2>4, RouterFrame
<1>2. CASE once[c] # "done"
  <2>1. PICK t \in Threads : CloseRemove(t) /\ target[t] = c
    <3>1. ASSUME NEW t \in Threads, CloseStep(t)
          PROVE  CloseRemove(t) /\ target[t] = c
      BY <1>2, <3>1 DEF CloseStep, CloseEnter, CloseAgain, CloseGetPeer, CloseRemove,
              CloseNotify
    <3> QED
      BY <1>2, <3>1, CloseFrame DEF closeVars, CallClose
  <2>2. peers'[c] = NoClient
    BY <2>1 DEF CloseRemove, Remove, Unlink
  <2>3. \A id \in IDs : listeners'[id] # c
    BY <2>1 DEF CloseRemove, Remove, Unregister, LinksPaired
  <2> QED
    BY <2>2, <2>3
<1> QED
  BY <1>1, <1>2

\* A client that somebody is bound to close stays so.
LEMMA DoomedStep ==
    ASSUME TypeOK, CallInv, CloseInv, RoleInv, [Next]_vars, NEW c \in Clients, Doomed(c)
    PROVE  Doomed(c)'
<1> USE DEF TypeOK, ClientConnTypeOK
<1>1. CASE once[c] # "new"
  BY <1>1, OnceFrame DEF Doomed
<1>2. CASE UNCHANGED closeVars
  BY <1>2 DEF closeVars, Doomed
<1>3. ASSUME NEW t \in Threads, NEW d \in Clients, closePc[t] = "idle", CallClose(t, d)
      PROVE  Doomed(c)'
  BY <1>3 DEF CallClose, Doomed
<1>4. ASSUME NEW t \in Threads, CloseStep(t)
      PROVE  Doomed(c)'
  <2>1. CASE CloseEnter(t)
    BY <2>1 DEF CloseEnter, Doomed
  <2>2. CASE CloseAgain(t)
    BY <1>1, <2>2 DEF CloseAgain, Doomed
  <2>3. CASE CloseGetPeer(t)
    BY <2>3 DEF CloseGetPeer, Doomed
  <2>4. CASE CloseRemove(t)
    BY <2>4 DEF CloseRemove, Doomed
  <2>5. CASE CloseNotify(t)
    BY <2>5 DEF CloseNotify, Doomed
  <2> QED
    BY <1>4, <2>1, <2>2, <2>3, <2>4, <2>5 DEF CloseStep
<1> QED
  BY <1>2, <1>3, <1>4, CloseFrame

\* Every step of a running server keeps linked listeners linked or about to be
\* closed: the Remove that unlinks one leaves its Close on the way.
LEMMA NoOrphanedListenerStep ==
    ASSUME TypeOK, AcceptInv, CallInv, CloseInv, RoleInv, LinksPaired, RunningInv,
           NoOrphanedListener, [Next]_vars, ~Stopping,
           NEW c \in Clients, role'[c] = "listener", c \in linked', peers'[c] = NoClient
    PROVE  Doomed(c)'
<1> USE NoClientAssumption
<1> USE DEF TypeOK, RouterTypeOK, ClientConnTypeOK
<1>1. c \in linked
  <2>1. ASSUME NEW d \in Clients, HandleLink(d)
        PROVE  c \in linked
    BY <2>1 DEF HandleLink, LinkConnector, CanLink, RoleInv
  <2>2. ASSUME NEW d \in Clients, HandleRegister(d)
        PROVE  c \in linked
    BY <2>2 DEF HandleRegister, roleVars
  <2> QED
    BY <2>1, <2>2, RouterFrame DEF handlerVars, roleVars
<1>2. hpc[c] \notin EarlyPhases /\ role[c] = "listener"
  BY <1>1, RoleFrame DEF RoleInv
<1>3. CASE peers[c] = NoClient
  BY <1>1, <1>2, <1>3, DoomedStep DEF NoOrphanedListener, Orphaned
<1>4. CASE peers[c] # NoClient
  <2>1. PICK t \in Threads : CloseRemove(t)
    <3>1. peers' # peers
      BY <1>4
    <3>2. ASSUME NEW d \in Clients, HandleRegister(d) \/ HandleLink(d)
          PROVE  FALSE
      BY <1>4, <3>2 DEF HandleRegister, RegisterListener, HandleLink, LinkConnector, RoleInv,
              CanLink
    <3> QED
      BY <3>1, <3>2, RouterFrame
  <2>2. target[t] \in Clients /\ once'[target[t]] = "done"
    BY <2>1 DEF CloseRemove, CloseInv
  <2>3. CASE target[t] = c
    BY <2>2, <2>3 DEF Doomed
  <2>4. CASE target[t] # c
    <3>1. peers[target[t]] = c
      BY <1>4, <2>1, <2>2, <2>4 DEF CloseRemove, Remove, Unlink, LinksPaired
    <3>2. toNotify[t] = c
      BY <1>2, <2>1, <2>2, <3>1 DEF CloseRemove, RunningInv
    <3> QED
      BY <2>1, <3>2 DEF CloseRemove, Doomed
  <2> QED
    BY <2>3, <2>4
<1> QED
  BY <1>3, <1>4

-----------------------------------------------------------------------------
(***************************************************************************)
(* The theorems.                                                           *)
(***************************************************************************)

IInv ==
    /\ TypeOK
    /\ AcceptInv
    /\ SlotInv
    /\ TrackInv
    /\ CloseInv
    /\ CallInv
    /\ RoleInv
    /\ LinksPaired
    /\ NotifyInv
    /\ ForwardInv
    /\ RunningInv
    /\ NoGhosts
    /\ NoOrphanedListener

\* The invariant holds when the server has been created.
LEMMA InitIInv == Init => IInv
<1> SUFFICES ASSUME Init
             PROVE  IInv
  OBVIOUS
<1> USE NoClientAssumption, WireCapAssumption, NoIDAssumption, MaxConnectionsAssumption,
        ThreadFacts
<1> USE DEF Init, NewRouter, NewClientConns
<1>1. TypeOK
  BY DEF TypeOK, RouterTypeOK, ClientConnTypeOK, EarlyPhases, RelayPhases, LeavingPhases,
         Roles, ConnStates, ClosePhases
<1>2. SlotInv
  <2>1. Active = {}
    BY DEF Active
  <2> QED
    BY <2>1, FS_EmptySet DEF SlotInv
<1>3. CloseInv
  BY DEF CloseInv, OnceHolderRuns, InsideOnce
<1>4. AcceptInv /\ TrackInv /\ CallInv /\ RoleInv
  BY DEF AcceptInv, TrackInv, CallInv, RoleInv
<1>5. LinksPaired /\ NotifyInv /\ ForwardInv
  BY DEF LinksPaired, NotifyInv, ForwardInv
<1>6. RunningInv /\ NoGhosts /\ NoOrphanedListener
  BY DEF RunningInv, NoGhosts, NoOrphanedListener, Orphaned
<1> QED
  BY <1>1, <1>2, <1>3, <1>4, <1>5, <1>6 DEF IInv

\* Stop is called once and for all.
LEMMA StoppingFrame ==
    ASSUME [Next]_vars, Stopping
    PROVE  Stopping'
BY DEF Stopping, Next, vars, serverVars, stopVars, AcceptLoop, Accept, Reject, Admit,
       AcceptExit, ClientActs, HandshakeDone, HandshakeFails, FirstMessage,
       UnexpectedFirstMessage, FirstMessageFails, Receive, ReceiveFails, HeartbeatStale,
       ClientGone, Goto, HeartbeatOnly, HandlerRuns, TrackClient, AuthenticateOK,
       AuthenticateFails, HandleRegister, HandleLink, Refused, SendAck, SendRefusal,
       RelayGetPeer, RelayNoPeer, Forward, ForwardFails, UntrackClient, ReleaseSlot,
       HeartbeatRuns, HeartbeatExit, HeartbeatTick, HeartbeatSend, ClientDrains, Closes,
       Stop, StopRuns, StopClose, StopUnlock, StopReturns, Terminated

\* Every step, and every stuttering step, preserves the invariant.
LEMMA IInvStep == IInv /\ [Next]_vars => IInv'
<1> SUFFICES ASSUME IInv, [Next]_vars
             PROVE  IInv'
  OBVIOUS
<1> USE DEF IInv
<1>1. TypeOK' /\ AcceptInv' /\ SlotInv' /\ TrackInv'
  BY TypeOKStep, AcceptInvStep, SlotInvStep, TrackInvStep
<1>2. CloseInv' /\ CallInv' /\ RoleInv'
  BY CloseInvStep, CallInvStep, RoleInvStep
<1>3. LinksPaired' /\ NotifyInv' /\ ForwardInv' /\ RunningInv'
  BY LinksPairedStep, NotifyInvStep, ForwardInvStep, RunningInvStep
<1>4. NoGhosts'
  <2> SUFFICES ASSUME NEW c \in Clients, (once[c] = "done" /\ InRouter(c))', ~Stopping'
               PROVE  FALSE
    BY DEF NoGhosts
  <2> QED
    BY NoGhostsStep, StoppingFrame
<1>5. NoOrphanedListener'
  <2> SUFFICES ASSUME NEW c \in Clients, (role[c] = "listener" /\ Orphaned(c))', ~Stopping'
               PROVE  FALSE
    BY DEF NoOrphanedListener
  <2> QED
    BY NoOrphanedListenerStep, StoppingFrame DEF Orphaned
<1> QED
  BY <1>1, <1>2, <1>3, <1>4, <1>5

\* The inductive invariant holds in every state of the broker.
THEOREM Invariance == Spec => []IInv
BY InitIInv, IInvStep, PTL DEF Spec

\* Type correctness; in particular connSem never holds more than MaxConnections
\* tokens nor fewer than none (server.go, acceptLoop).
THEOREM TypeCorrect == Spec => []TypeOK
BY Invariance, PTL DEF IInv

\* Links come in pairs of a registered listener and a connector of the same ID
\* (router.go, LinkConnector and Remove).
THEOREM LinksArePaired == Spec => []LinksPaired
BY Invariance, PTL DEF IInv

\* A client whose Close has finished is not in the router, unless the server is
\* stopping (client_conn.go, Close).
THEOREM GhostFree == Spec => []NoGhosts
BY Invariance, PTL DEF IInv

\* A listener that has lost its connector is closed or about to be, unless the
\* server is stopping (client_conn.go, Close).
THEOREM ListenersNotOrphaned == Spec => []NoOrphanedListener
BY Invariance, PTL DEF IInv

\* connSem counts exactly the running handlers, and tracked clients have one
\* (server.go, acceptLoop and handleClient).
THEOREM SlotsAccounted == Spec => []SlotsMatchHandlers
<1>1. IInv => SlotsMatchHandlers
  BY DEF IInv, SlotInv, TrackInv, SlotsMatchHandlers, Active
<1> QED
  BY <1>1, Invariance, PTL

\* Nothing is relayed, and no Disconnect sent, across connection IDs (server.go,
\* relayMessages; client_conn.go, Close).
THEOREM RelayIsolated == Spec => []RelayIsolation
<1>1. IInv => RelayIsolation
  BY DEF IInv, ForwardInv, NotifyInv, CloseInv, RelayIsolation
<1> QED
  BY <1>1, Invariance, PTL

\* Whoever is inside a closeOnce waits for no other closer (client_conn.go,
\* Close).
THEOREM OnceHoldersRun == Spec => []OnceHolderRuns
<1>1. IInv => OnceHolderRuns
  BY DEF IInv, CloseInv
<1> QED
  BY <1>1, Invariance, PTL

\* The maps of the router change as RouterLifecycle says: links are made between
\* unlinked clients and broken by the Close of one of the two, an ID is lost only by
\* the Close of its holder (router.go).
THEOREM RouterChangesSafely == Spec => RouterLifecycle
<1>1. ASSUME IInv, [Next]_vars
      PROVE  [RouterChange]_vars
  <2> USE NoClientAssumption
  <2> USE DEF IInv, TypeOK, RouterTypeOK, ClientConnTypeOK, RouterChange
  <2>1. CASE UNCHANGED <<listeners, peers>>
    BY <2>1
  <2>2. ASSUME NEW c \in Clients, HandleRegister(c)
        PROVE  RouterChange
    BY <2>2 DEF HandleRegister, RegisterListener, CanRegister, IDChange
  <2>3. ASSUME NEW c \in Clients, HandleLink(c)
        PROVE  RouterChange
    <3> DEFINE l == listeners[connID[c]]
    <3>1. /\ l \in Clients
          /\ peers[l] = NoClient
          /\ peers' = [peers EXCEPT ![l] = c, ![c] = l]
      BY <1>1, <2>3 DEF HandleLink, LinkConnector, CanLink, RoleInv
    <3>2. peers[c] = NoClient /\ l # c
      BY <1>1, <2>3, <3>1 DEF HandleLink, RoleInv, EarlyPhases
    <3>3. \A d \in {c, l} : once[d] = "done" => Stopping
      BY <1>1, <2>3, <3>1 DEF HandleLink, NoGhosts, InRouter, Registered, RunningInv,
              RoleInv, EarlyPhases
    <3> QED
      BY <1>1, <2>3, <3>1, <3>2, <3>3 DEF HandleLink, LinkConnector, LinkChange
  <2>4. ASSUME NEW t \in Threads, CloseRemove(t)
        PROVE  RouterChange
    <3>1. target[t] \in Clients /\ once[target[t]] = "running"
      BY <1>1, <2>4 DEF CloseRemove, CloseInv, InsideOnce
    <3>2. \A c \in Clients : peers'[c] # peers[c] => LinkChange(c)
      BY <1>1, <2>4, <3>1 DEF CloseRemove, Remove, Unlink, LinkChange, LinksPaired
    <3>3. \A id \in IDs : listeners'[id] # listeners[id] => IDChange(id)
      BY <1>1, <2>4, <3>1 DEF CloseRemove, Remove, Unregister, IDChange
    <3> QED
      BY <3>2, <3>3
  <2> QED
    BY <1>1, <2>1, <2>2, <2>3, <2>4, RouterFrame
<1> QED
  BY <1>1, Invariance, PTL DEF Spec, RouterLifecycle

=============================================================================
