---------------------------- MODULE RoomsProofs -----------------------------
(***************************************************************************)
(* Broker implements Rendezvous, for any number of clients, connection IDs *)
(* and slots, and also while the server stops.  Three kinds of steps move  *)
(* somebody in or out of a room: RegisterListener opens one, LinkConnector *)
(* enters one, Remove leaves one.  A handler that ends without any of them *)
(* turns its client away.                                                  *)
(***************************************************************************)
EXTENDS BrokerProofs

\* The variables of Rendezvous that are not variables of Broker.
Guest == [id \in IDs |-> IF listeners[id] = NoClient THEN NoClient
                         ELSE peers[listeners[id]]]
Gone  == {c \in Clients : ~InRouter(c) /\ hpc[c] \notin EarlyPhases}

\* What the mapped state says of a client: in a room exactly when in the router.
LEMMA InARoom ==
    ASSUME IInv, NEW c \in Clients
    PROVE  /\ InRouter(c) <=> \E id \in IDs : c \in {listeners[id], Guest[id]}
           /\ hpc[c] \in EarlyPhases => ~InRouter(c)
           /\ Rooms!Newcomer(c) <=> hpc[c] \in EarlyPhases
<1> USE NoClientAssumption
<1>1. hpc[c] \in EarlyPhases => ~InRouter(c)
  BY DEF IInv, RoleInv, InRouter, Registered
<1>2. ASSUME InRouter(c)
      PROVE  \E id \in IDs : c \in {listeners[id], Guest[id]}
  <2>1. CASE Registered(c)
    BY <2>1 DEF Registered
  <2>2. CASE ~Registered(c)
    <3>1. PICK p \in Clients : peers[c] = p
      BY <1>2, <2>2 DEF InRouter, IInv, TypeOK, RouterTypeOK
    <3>2. connID[c] \in IDs /\ listeners[connID[c]] = p /\ peers[p] = c
      BY <2>2, <3>1 DEF IInv, LinksPaired, Registered
    <3> QED
      BY <3>2 DEF Guest
  <2> QED
    BY <2>1, <2>2
<1>3. ASSUME NEW id \in IDs, c = Guest[id]
      PROVE  InRouter(c)
  <2>1. listeners[id] \in Clients /\ peers[listeners[id]] = c
    BY <1>3 DEF Guest, IInv, TypeOK, RouterTypeOK
  <2>2. peers[c] = listeners[id]
    BY <2>1 DEF IInv, LinksPaired
  <2> QED
    BY <2>1, <2>2 DEF InRouter
<1>4. InRouter(c) <=> \E id \in IDs : c \in {listeners[id], Guest[id]}
  BY <1>2, <1>3 DEF InRouter, Registered
<1>5. Rooms!Newcomer(c) <=> /\ c \notin Gone
                            /\ \A id \in IDs : c \notin {listeners[id], Guest[id]}
  BY DEF Rooms!Newcomer, Gone, Guest
<1> QED
  BY <1>1, <1>4, <1>5 DEF Gone

\* A step that leaves the router alone changes the mapped state only through the
\* handler's phase and the relay's local variable.
LEMMA RoomsUnmoved ==
    ASSUME IInv, UNCHANGED <<listeners, peers>>
    PROVE  /\ Guest' = Guest
           /\ \A c \in Clients : InRouter(c)' = InRouter(c)
           /\ (\A c \in Clients : hpc'[c] \in EarlyPhases <=> hpc[c] \in EarlyPhases)
                  => Gone' = Gone
BY DEF Guest, Gone, InRouter, Registered

\* A handler that gives up before its client is in the router.
GivesUp(c) ==
    HandshakeFails(c) \/ AuthenticateFails(c) \/ FirstMessageFails(c) \/ SendRefusal(c)

\* The steps that can be seen in Rendezvous.
Visible ==
    \/ \E c \in Clients : \/ HandleRegister(c) \/ HandleLink(c)
                          \/ RelayGetPeer(c) \/ Forward(c) \/ ForwardFails(c)
                          \/ GivesUp(c)
    \/ \E t \in Threads : CloseRemove(t) /\ UNCHANGED <<handlerVars, serverVars>>

\* All other steps leave the router and the relay's local variables alone, and no
\* handler passes the point after which its client cannot enter the router.
LEMMA InvisibleFrame ==
    ASSUME IInv, [Next]_vars, ~Visible
    PROVE  /\ UNCHANGED <<listeners, peers, fwd>>
           /\ \A c \in Clients : hpc'[c] \in EarlyPhases <=> hpc[c] \in EarlyPhases
<1> USE DEF IInv, TypeOK, EarlyPhases, Visible, GivesUp, vars, handlerVars
<1>1. CASE UNCHANGED <<listeners, peers, fwd, hpc>>
  BY <1>1
<1>2. CASE Admit
  BY <1>2 DEF Admit, AcceptInv, routerVars
<1>3. ASSUME NEW d \in Clients, ClientActs(d) \/ HandlerRuns(d)
      PROVE  /\ UNCHANGED <<listeners, peers, fwd>>
             /\ \A c \in Clients : hpc'[c] \in EarlyPhases <=> hpc[c] \in EarlyPhases
  BY <1>3 DEF ClientActs, HandshakeDone, FirstMessage, UnexpectedFirstMessage, Receive,
              ReceiveFails, HeartbeatStale, HeartbeatOnly, ClientGone, Goto, HandlerRuns,
              TrackClient, AuthenticateOK, Refused, SendAck, RelayNoPeer, UntrackClient,
              ReleaseSlot, routerVars
<1>4. ASSUME NEW t \in Threads, Closes(t)
      PROVE  UNCHANGED <<listeners, peers, fwd, hpc>>
  BY <1>4 DEF Closes, CloseStep, CloseEnter, CloseAgain, CloseGetPeer, CloseNotify, routerVars
<1> QED
  BY <1>1, <1>2, <1>3, <1>4 DEF Next, AcceptLoop, Accept, Reject, AcceptExit, HeartbeatRuns,
              HeartbeatExit, HeartbeatTick, HeartbeatSend, HeartbeatOnly, ClientDrains,
              ClientReads, Stop, StopRuns, StopClose, StopUnlock, StopReturns, Terminated,
              routerVars

\* RegisterListener opens a room.
LEMMA RegisterOpens ==
    ASSUME IInv, NEW c \in Clients, HandleRegister(c)
    PROVE  connID[c] \in IDs /\ Rooms!Open(connID[c], c)
<1> USE NoClientAssumption
<1> USE DEF IInv, TypeOK, RouterTypeOK
<1>1. PICK id \in IDs : id = connID[c]
  BY DEF HandleRegister, RoleInv
<1>2. /\ hpc[c] = "register" /\ hpc' = [hpc EXCEPT ![c] = "ack"]
      /\ listeners[id] = NoClient
      /\ listeners' = [listeners EXCEPT ![id] = c]
      /\ UNCHANGED <<peers, fwd>>
  BY <1>1 DEF HandleRegister, RegisterListener, CanRegister
<1>3. Rooms!Newcomer(c) /\ ~InRouter(c) /\ peers[c] = NoClient
  BY <1>2, InARoom DEF EarlyPhases, RoleInv
<1>4. Guest' = Guest
  BY <1>2, <1>3 DEF Guest
<1>5. Gone' = Gone
  <2>1. c \notin Gone /\ c \notin Gone'
    BY <1>2 DEF Gone, EarlyPhases, InRouter, Registered
  <2>2. ASSUME NEW d \in Clients, d # c
        PROVE  InRouter(d)' = InRouter(d) /\ hpc'[d] = hpc[d]
    BY <1>2, <2>2 DEF InRouter, Registered
  <2> QED
    BY <2>1, <2>2 DEF Gone
<1>6. Rooms!Open(id, c)
  BY <1>2, <1>3, <1>4, <1>5 DEF Rooms!Open, Guest, Gone
<1> QED
  BY <1>1, <1>6

\* LinkConnector enters a room.
LEMMA LinkEnters ==
    ASSUME IInv, NEW c \in Clients, HandleLink(c)
    PROVE  connID[c] \in IDs /\ Rooms!Enter(connID[c], c)
<1> USE NoClientAssumption
<1> USE DEF IInv, TypeOK, RouterTypeOK
<1>1. PICK id \in IDs : id = connID[c]
  BY DEF HandleLink, RoleInv
<1>2. PICK l \in Clients : l = listeners[id]
  BY <1>1 DEF HandleLink, LinkConnector, CanLink
<1>3. /\ hpc[c] = "link" /\ hpc' = [hpc EXCEPT ![c] = "ack"]
      /\ peers[l] = NoClient
      /\ peers' = [peers EXCEPT ![l] = c, ![c] = l]
      /\ UNCHANGED <<listeners, fwd>>
  BY <1>1, <1>2 DEF HandleLink, LinkConnector, CanLink
<1>4. Rooms!Newcomer(c) /\ ~InRouter(c) /\ l # c
  BY <1>2, <1>3, InARoom DEF EarlyPhases, InRouter, Registered
<1>5. Guest' = [Guest EXCEPT ![id] = c] /\ Guest[id] = NoClient
  <2>1. ASSUME NEW i \in IDs
        PROVE  Guest'[i] = IF i = id THEN c ELSE Guest[i]
    <3>1. CASE i = id
      BY <1>2, <1>3, <1>4, <3>1 DEF Guest
    <3>2. CASE i # id
      <4>1. listeners[i] # l /\ listeners[i] # c
        BY <1>2, <1>4, <3>2 DEF LinksPaired, InRouter, Registered
      <4> QED
        BY <1>3, <3>2, <4>1 DEF Guest
    <3> QED
      BY <3>1, <3>2
  <2>2. Guest[id] = NoClient
    BY <1>2, <1>3 DEF Guest
  <2> QED
    BY <2>1, <2>2 DEF Guest
<1>6. Gone' = Gone
  <2>1. c \notin Gone /\ c \notin Gone'
    BY <1>2, <1>3, <1>4 DEF Gone, EarlyPhases, InRouter
  <2>2. l \notin Gone /\ l \notin Gone'
    BY <1>2, <1>3 DEF Gone, InRouter, Registered
  <2>3. ASSUME NEW d \in Clients, d # c, d # l
        PROVE  InRouter(d)' = InRouter(d) /\ hpc'[d] = hpc[d]
    BY <1>3, <2>3 DEF InRouter, Registered
  <2> QED
    BY <2>1, <2>2, <2>3 DEF Gone
<1>7. Rooms!Enter(id, c)
  BY <1>2, <1>3, <1>4, <1>5, <1>6 DEF Rooms!Enter, Guest, Gone
<1> QED
  BY <1>1, <1>7

\* Remove takes a client out of its room: the host and whoever is with it, or the
\* guest alone.  A client in no room leaves none.
LEMMA RemoveLeaves ==
    ASSUME IInv, NEW t \in Threads, CloseRemove(t), UNCHANGED <<handlerVars, serverVars>>
    PROVE  \/ UNCHANGED <<listeners, Guest, Gone, fwd>>
           \/ \E id \in IDs : Rooms!GuestLeaves(id) \/ Rooms!HostLeaves(id)
<1> USE NoClientAssumption
<1> USE DEF IInv, TypeOK, RouterTypeOK
<1>1. PICK c \in Clients : c = target[t]
  BY DEF CloseRemove, CloseInv
<1>2. Unregister(c) /\ Unlink(c) /\ UNCHANGED <<hpc, fwd>>
  BY <1>1 DEF CloseRemove, Remove, handlerVars
<1>3. CASE ~InRouter(c)
  <2>1. UNCHANGED <<listeners, peers>>
    BY <1>2, <1>3 DEF InRouter, Registered, Unregister, Unlink
  <2> QED
    BY <1>2, <2>1, RoomsUnmoved
<1>4. ASSUME NEW id \in IDs, listeners[id] = c
      PROVE  Rooms!HostLeaves(id)
  <2>1. /\ \A i \in IDs : i # id => listeners[i] # c
        /\ hpc[c] \notin EarlyPhases
    BY <1>4 DEF LinksPaired, RoleInv
  <2>2. listeners' = [listeners EXCEPT ![id] = NoClient]
    BY <1>2, <1>4, <2>1 DEF Unregister
  <2>3. PICK p \in Clients \cup {NoClient} : p = peers[c]
    OBVIOUS
  <2>4. /\ p # NoClient => peers[p] = c /\ p # c /\ hpc[p] \notin EarlyPhases
        /\ p # NoClient => \A i \in IDs : listeners[i] # p
    BY <1>4, <2>3 DEF LinksPaired, RoleInv
  <2>5. Guest[id] = p
    BY <1>4, <2>3 DEF Guest
  <2>6. \A d \in Clients : peers'[d] = IF d \in {c, p} THEN NoClient ELSE peers[d]
    BY <1>2, <2>3, <2>4 DEF Unlink
  <2>7. Guest' = [Guest EXCEPT ![id] = NoClient]
    <3>1. ASSUME NEW i \in IDs
          PROVE  Guest'[i] = IF i = id THEN NoClient ELSE Guest[i]
      <4>1. CASE i = id
        BY <2>2, <4>1 DEF Guest
      <4>2. CASE i # id
        <5>1. listeners'[i] = listeners[i] /\ listeners[i] # c
          BY <2>1, <2>2, <4>2
        <5>2. listeners[i] # NoClient => listeners[i] \in Clients /\ listeners[i] # p
          BY <2>4
        <5> QED
          BY <2>6, <4>2, <5>1, <5>2 DEF Guest
      <4> QED
        BY <4>1, <4>2
    <3> QED
      BY <3>1 DEF Guest
  <2>8. Gone' = Gone \cup ({c, p} \ {NoClient})
    <3>1. c \in Gone'
      BY <1>2, <2>1, <2>2, <2>6 DEF Gone, InRouter, Registered
    <3>2. p # NoClient => p \in Gone'
      BY <1>2, <2>2, <2>4, <2>6 DEF Gone, InRouter, Registered
    <3>3. ASSUME NEW d \in Clients, d \notin {c, p}
          PROVE  InRouter(d)' = InRouter(d) /\ hpc'[d] = hpc[d]
      <4>1. \A i \in IDs : listeners'[i] = d <=> listeners[i] = d
        BY <1>4, <2>2, <3>3
      <4>2. peers'[d] = peers[d]
        BY <2>6, <3>3
      <4> QED
        BY <1>2, <4>1, <4>2 DEF InRouter, Registered
    <3> QED
      BY <3>1, <3>2, <3>3 DEF Gone
  <2> QED
    BY <1>2, <1>4, <2>2, <2>5, <2>7, <2>8 DEF Rooms!HostLeaves, Guest, Gone
<1>5. ASSUME ~Registered(c), InRouter(c)
      PROVE  \E id \in IDs : Rooms!GuestLeaves(id)
  <2>1. PICK l \in Clients : l = peers[c]
    BY <1>5 DEF InRouter
  <2>2. PICK id \in IDs : id = connID[c]
    BY <2>1 DEF LinksPaired
  <2>3. listeners[id] = l /\ peers[l] = c /\ l # c /\ hpc[c] \notin EarlyPhases
    BY <1>5, <2>1, <2>2 DEF LinksPaired, RoleInv, Registered
  <2>4. /\ listeners' = listeners
        /\ \A d \in Clients : peers'[d] = IF d \in {c, l} THEN NoClient ELSE peers[d]
    BY <1>2, <1>5, <2>1 DEF Unregister, Unlink, Registered
  <2>5. Guest[id] = c
    BY <2>3 DEF Guest
  <2>6. Guest' = [Guest EXCEPT ![id] = NoClient]
    <3>1. ASSUME NEW i \in IDs
          PROVE  Guest'[i] = IF i = id THEN NoClient ELSE Guest[i]
      <4>1. CASE i = id
        BY <2>3, <2>4, <4>1 DEF Guest
      <4>2. CASE i # id
        <5>1. listeners[i] # c /\ listeners[i] # l
          BY <1>5, <2>3, <4>2 DEF Registered, LinksPaired
        <5> QED
          BY <2>4, <4>2, <5>1 DEF Guest
      <4> QED
        BY <4>1, <4>2
    <3> QED
      BY <3>1 DEF Guest
  <2>7. Gone' = Gone \cup {c}
    <3>1. c \in Gone'
      BY <1>2, <1>5, <2>3, <2>4 DEF Gone, InRouter, Registered
    <3>2. l \notin Gone /\ l \notin Gone'
      BY <2>3, <2>4 DEF Gone, InRouter, Registered
    <3>3. ASSUME NEW d \in Clients, d \notin {c, l}
          PROVE  InRouter(d)' = InRouter(d) /\ hpc'[d] = hpc[d]
      BY <1>2, <2>4, <3>3 DEF InRouter, Registered
    <3> QED
      BY <3>1, <3>2, <3>3 DEF Gone
  <2>8. Rooms!GuestLeaves(id)
    BY <1>2, <2>4, <2>5, <2>6, <2>7 DEF Rooms!GuestLeaves, Guest, Gone
  <2> QED
    BY <2>8
<1> QED
  BY <1>3, <1>4, <1>5 DEF InRouter, Registered

\* A handler that gives up turns its client away.
LEMMA GivingUpTurnsAway ==
    ASSUME IInv, NEW c \in Clients, GivesUp(c)
    PROVE  Rooms!TurnAway(c)
<1> USE DEF IInv, TypeOK
<1>1. PICK to \in {"untrack", "release"} : hpc' = [hpc EXCEPT ![c] = to]
  BY DEF GivesUp, HandshakeFails, AuthenticateFails, FirstMessageFails, SendRefusal, Goto
<1>2. hpc[c] \in EarlyPhases /\ UNCHANGED <<listeners, peers, fwd>>
  BY DEF GivesUp, HandshakeFails, AuthenticateFails, FirstMessageFails, SendRefusal, Goto,
         EarlyPhases, routerVars
<1>3. Guest' = Guest /\ \A d \in Clients : InRouter(d)' = InRouter(d)
  BY <1>2, RoomsUnmoved
<1>4. Rooms!Newcomer(c) /\ ~InRouter(c)
  BY <1>2, InARoom
<1>5. Gone' = Gone \cup {c}
  <2>1. c \in Gone'
    BY <1>1, <1>3, <1>4 DEF Gone, EarlyPhases
  <2>2. ASSUME NEW d \in Clients, d # c
        PROVE  InRouter(d)' = InRouter(d) /\ hpc'[d] = hpc[d]
    BY <1>1, <1>3, <2>2
  <2> QED
    BY <2>1, <2>2 DEF Gone
<1> QED
  BY <1>2, <1>3, <1>4, <1>5 DEF Rooms!TurnAway, Guest, Gone

\* GetPeer addresses the other client of the room, the end of the write lets go of it.
LEMMA RelaySays ==
    ASSUME IInv, NEW c \in Clients, RelayGetPeer(c) \/ Forward(c) \/ ForwardFails(c)
    PROVE  \/ Rooms!Said(c)
           \/ \E id \in IDs, d \in Clients : Rooms!Say(id, c, d)
<1> USE NoClientAssumption
<1> USE DEF IInv, TypeOK, RouterTypeOK
<1>1. /\ UNCHANGED <<listeners, peers>>
      /\ \A d \in Clients : hpc'[d] \in EarlyPhases <=> hpc[d] \in EarlyPhases
  BY DEF RelayGetPeer, Forward, ForwardFails, EarlyPhases, routerVars
<1>2. Guest' = Guest /\ Gone' = Gone
  BY <1>1, RoomsUnmoved
<1>3. CASE Forward(c) \/ ForwardFails(c)
  BY <1>1, <1>2, <1>3 DEF Forward, ForwardFails, Rooms!Said, Guest, Gone
<1>4. CASE RelayGetPeer(c)
  <2>1. PICK d \in Clients : d = peers[c]
    BY <1>4 DEF RelayGetPeer, GetPeer
  <2>2. fwd' = [fwd EXCEPT ![c] = d]
    BY <1>4, <2>1 DEF RelayGetPeer, GetPeer
  <2>3. fwd[c] = NoClient
    BY <1>4 DEF RelayGetPeer, ForwardInv
  <2>4. PICK id \in IDs : id = connID[c]
    BY <2>1 DEF LinksPaired
  <2>5. \/ listeners[id] = c /\ Guest[id] = d
        \/ listeners[id] = d /\ Guest[id] = c
    BY <2>1, <2>4 DEF LinksPaired, Guest
  <2>6. Rooms!Say(id, c, d)
    BY <1>1, <1>2, <2>2, <2>3, <2>5 DEF Rooms!Say, Guest, Gone
  <2> QED
    BY <2>6
<1> QED
  BY <1>3, <1>4

\* Every step of the broker is a step of Rendezvous, or changes nothing there.
LEMMA RoomsStep == IInv /\ [Next]_vars => [Rooms!Next]_(Rooms!roomVars)
<1> SUFFICES ASSUME IInv, [Next]_vars
             PROVE  Rooms!Next \/ UNCHANGED <<listeners, Guest, Gone, fwd>>
  BY DEF Rooms!roomVars, Guest, Gone
<1>1. CASE ~Visible
  BY <1>1, InvisibleFrame, RoomsUnmoved
<1>2. ASSUME NEW c \in Clients, HandleRegister(c)
      PROVE  Rooms!Next
  BY <1>2, RegisterOpens DEF Rooms!Next
<1>3. ASSUME NEW c \in Clients, HandleLink(c)
      PROVE  Rooms!Next
  BY <1>3, LinkEnters DEF Rooms!Next
<1>4. ASSUME NEW c \in Clients, RelayGetPeer(c) \/ Forward(c) \/ ForwardFails(c)
      PROVE  Rooms!Next
  BY <1>4, RelaySays DEF Rooms!Next
<1>5. ASSUME NEW c \in Clients, GivesUp(c)
      PROVE  Rooms!Next
  BY <1>5, GivingUpTurnsAway DEF Rooms!Next
<1>6. ASSUME NEW t \in Threads, CloseRemove(t), UNCHANGED <<handlerVars, serverVars>>
      PROVE  Rooms!Next \/ UNCHANGED <<listeners, Guest, Gone, fwd>>
  BY <1>6, RemoveLeaves DEF Rooms!Next
<1> QED
  BY <1>1, <1>2, <1>3, <1>4, <1>5, <1>6 DEF Visible

\* Two maps, a handler and a heartbeat goroutine per client and Close in five steps
\* (router.go, server.go, client_conn.go) implement rooms that are opened, entered
\* and left in one step, also while the server stops.
THEOREM BrokerImplementsRooms == Spec => RoomsSpec
<1>1. Init => Rooms!Init
  BY NoClientAssumption DEF Init, NewRouter, Rooms!Init, InRouter, Registered, EarlyPhases
<1> QED
  BY <1>1, RoomsStep, Invariance, PTL DEF Spec, RoomsSpec, Rooms!Spec

=============================================================================
