---------------------------- MODULE TimingProofs ----------------------------
(***************************************************************************)
(* What a step of the timed system does to the two linked clients, as far  *)
(* as time is concerned.  DeadlineProofs proves the deadlines from it.     *)
(*                                                                         *)
(* BaseInv says what the goroutines know of each other, whatever the time: *)
(* an open connection has a handler and a heartbeat goroutine at work, or  *)
(* one that is about to close it.  beats counts the heartbeats in a        *)
(* socket.  Step(d, e) names the twelve things that can happen, by their   *)
(* effect on the variables that time depends on, and StepEffect shows that *)
(* every step of TimedNext is one of them: after it, no proof looks at an  *)
(* action again.                                                           *)
(***************************************************************************)
EXTENDS HeartbeatProofs

\* The other client of the pair.
Mate(c) == IF c = L THEN C ELSE L

\* There are two clients, each other's mates.
LEMMA MateFacts ==
    \A c \in Clients : /\ Mate(c) \in Clients /\ Mate(c) # c /\ Mate(Mate(c)) = c
                       /\ \A d \in Clients : d = c \/ d = Mate(c)
BY LinkedAssumption DEF Mate

-----------------------------------------------------------------------------
(***************************************************************************)
(* What the goroutines know of each other, whatever the time.              *)
(***************************************************************************)

Open(c) == conn[c] = "open"

\* The goroutine t is about to close c.
About(t, c) == closePc[t] = "once" /\ target[t] = c

\* A connection is closed inside closeOnce.
OpenInv ==
    /\ spc = "running"
    /\ \A c \in Clients : conn[c] \in {"open", "closed"} /\ (Open(c) <=> once[c] = "new")

\* Who is first in line waits.
TurnInv ==
    \A c \in Clients : /\ turn[c] = "beat" => bpc[c] = "send"
                       /\ turn[c] = "relay" => hpc[Mate(c)] = "forward"

\* A handler forwards to the mate of its client, and a Disconnect is sent by who
\* has closed the mate.
PeerInv ==
    /\ \A c \in Clients : hpc[c] = "forward" => fwd[c] = Mate(c)
    /\ \A t \in Threads : closePc[t] = "notify" => once[target[t]] # "new"

\* The goroutines of an open connection are at work, or one is about to close it.
LinkInv ==
    \A c \in Clients : Open(c) =>
        /\ \/ hpc[c] \in {"recv", "getpeer", "forward"}
           \/ hpc[c] = "untrack" /\ About(Handler(c), c) /\ ~Open(Mate(c))
        /\ \/ bpc[c] \in {"wait", "send"}
           \/ bpc[c] = "done" /\ About(HeartbeatOf(c), c)
        /\ Open(Mate(c)) => peers[c] = Mate(c)

\* An empty socket has no age.
EmptyInv == \A c \in Clients : unread[c] = 0 => age[c] = 0

BaseInv == IInv /\ TimedTypeOK /\ OpenInv /\ TurnInv /\ PeerInv /\ LinkInv /\ EmptyInv

\* Whose turn it is after a write.
LEMMA TurnTaken ==
    ASSUME TypeOK, TurnTypes, PeerInv, NEW c \in Clients
    PROVE  /\ TakeTurn(c, "beat") =>
                /\ turn[c] # "relay"
                /\ turn' = [turn EXCEPT ![c] = IF hpc[Mate(c)] = "forward" THEN "relay"
                                               ELSE "none"]
           /\ TakeTurn(c, "relay") =>
                /\ turn[c] # "beat"
                /\ turn' = [turn EXCEPT ![c] = IF bpc[c] = "send" THEN "beat" ELSE "none"]
<1>1. (\E p \in Clients : hpc[p] = "forward" /\ fwd[p] = c) <=> hpc[Mate(c)] = "forward"
  BY MateFacts DEF PeerInv
<1>2. ASSUME NEW who
      PROVE  (CHOOSE w \in {who} : TRUE) = who
  OBVIOUS
<1>3. TakeTurn(c, "beat") =>
        turn[c] # "relay"
        /\ turn' = [turn EXCEPT ![c] = IF hpc[Mate(c)] = "forward" THEN "relay" ELSE "none"]
  <2>1. Waiting(c) \ {"beat"} = IF hpc[Mate(c)] = "forward" THEN {"relay"} ELSE {}
    BY <1>1 DEF Waiting
  <2>2. (CHOOSE w \in {"relay"} : TRUE) = "relay"
    BY <1>2
  <2> QED
    BY <2>1, <2>2 DEF TakeTurn
<1>4. TakeTurn(c, "relay") =>
        turn[c] # "beat"
        /\ turn' = [turn EXCEPT ![c] = IF bpc[c] = "send" THEN "beat" ELSE "none"]
  <2>1. Waiting(c) \ {"relay"} = IF bpc[c] = "send" THEN {"beat"} ELSE {}
    BY DEF Waiting
  <2>2. (CHOOSE w \in {"beat"} : TRUE) = "beat"
    BY <1>2
  <2> QED
    BY <2>1, <2>2 DEF TakeTurn
<1> QED
  BY <1>3, <1>4

\* Connections and closeOnce change in two steps of Close.
LEMMA ConnFrame ==
    ASSUME [TimedNext]_timedVars
    PROVE  /\ UNCHANGED spc
           /\ \/ UNCHANGED <<conn, once>>
              \/ \E t \in Threads : /\ CloseEnter(t) \/ CloseRemove(t)
                                    /\ UNCHANGED <<handlerVars, serverVars>>
<1> USE DEF vars, connVars, closeVars, serverVars, stopVars
<1>1. ASSUME NEW t \in Threads, Closes(t)
      PROVE  /\ UNCHANGED spc
             /\ \/ UNCHANGED <<conn, once>>
                \/ \E u \in Threads : /\ CloseEnter(u) \/ CloseRemove(u)
                                      /\ UNCHANGED <<handlerVars, serverVars>>
  BY <1>1 DEF Closes, CloseStep, CloseAgain, CloseGetPeer, CloseNotify
<1>2. ASSUME NEW c \in Clients, Relay(c)
      PROVE  /\ UNCHANGED spc
             /\ \/ UNCHANGED <<conn, once>>
                \/ \E u \in Threads : /\ CloseEnter(u) \/ CloseRemove(u)
                                      /\ UNCHANGED <<handlerVars, serverVars>>
  BY <1>1, <1>2, ThreadFacts DEF Relay, ReceiveFails, Goto, CallClose, RelayGetPeer,
     RelayNoPeer, UntrackClient, ReleaseSlot
<1>3. ASSUME NEW c \in Clients, RelaySend(c) \/ Tick(c) \/ Beat(c) \/ BeatsEnd(c)
                                \/ ReceiveData(c)
      PROVE  UNCHANGED <<spc, conn, once>>
  BY <1>3 DEF RelaySend, Forward, ForwardFails, CallClose, Tick, HeartbeatStale, HeartbeatTick,
     HeartbeatOnly, Beat, HeartbeatSend, BeatsEnd, HeartbeatExit, ReceiveData, Receive, Goto
<1>4. ASSUME NEW c \in Clients, ReceiveHeartbeat(c) \/ ClientReceives(c) \/ ClientAnswers(c)
                                \/ ClientSends(c) \/ Freeze(c)
      PROVE  UNCHANGED <<spc, conn, once>>
  BY <1>4 DEF ReceiveHeartbeat, ClientReceives, ClientDrains, ClientReads, ClientAnswers,
     ClientSends, Freeze
<1>5. UNCHANGED timedVars \/ Advance => UNCHANGED <<spc, conn, once>>
  BY DEF timedVars, Advance
<1> QED
  BY <1>2, <1>3, <1>4, <1>5, TimedCases

\* A connection that is closed is closed by Close, and stays so.
LEMMA OpenInvStep ==
    ASSUME TypeOK, CloseInv, OpenInv, [TimedNext]_timedVars
    PROVE  OpenInv' /\ \A c \in Clients : conn'[c] = "open" => conn[c] = "open"
<1> USE DEF TypeOK, ClientConnTypeOK, OpenInv, Open
<1>1. CASE UNCHANGED <<conn, once>>
  BY <1>1, ConnFrame
<1>2. ASSUME NEW t \in Threads, CloseEnter(t)
      PROVE  (\A c \in Clients : conn'[c] \in {"open", "closed"} /\ (Open(c)' <=> once'[c] = "new"))
             /\ \A c \in Clients : conn'[c] = "open" => conn[c] = "open"
  BY <1>2 DEF CloseEnter, CloseConn, CloseInv
<1>3. ASSUME NEW t \in Threads, CloseRemove(t)
      PROVE  (\A c \in Clients : conn'[c] \in {"open", "closed"} /\ (Open(c)' <=> once'[c] = "new"))
             /\ \A c \in Clients : conn'[c] = "open" => conn[c] = "open"
  BY <1>3 DEF CloseRemove, CloseInv, InsideOnce, connVars
<1> QED
  BY <1>1, <1>2, <1>3, ConnFrame

\* Who is first in line is the goroutine that did not write, if it waits.
LEMMA TurnInvStep ==
    ASSUME TypeOK, TurnTypes, PeerInv, TurnInv, [TimedNext]_timedVars
    PROVE  TurnInv'
<1> USE MateFacts
<1> USE DEF TypeOK, TurnTypes
<1>1. ASSUME UNCHANGED <<turn, hpc, bpc>>
      PROVE  TurnInv'
  BY <1>1 DEF TurnInv
<1>2. ASSUME NEW c \in Clients, UNCHANGED <<turn, bpc>>, hpc[c] # "forward", NEW h,
             hpc' = [hpc EXCEPT ![c] = h]
      PROVE  TurnInv'
  BY <1>2 DEF TurnInv
<1>3. ASSUME NEW c \in Clients, UNCHANGED <<turn, hpc>>, bpc[c] # "send", NEW b,
             bpc' = [bpc EXCEPT ![c] = b]
      PROVE  TurnInv'
  BY <1>3 DEF TurnInv
<1>4. ASSUME NEW c \in Clients, RelaySend(c)
      PROVE  TurnInv'
  <2>1. hpc[c] = "forward" /\ fwd[c] = Mate(c) /\ TakeTurn(fwd[c], "relay")
    BY <1>4 DEF RelaySend, Forward, ForwardFails, PeerInv
  <2>2. turn' = [turn EXCEPT ![Mate(c)] = IF bpc[Mate(c)] = "send" THEN "beat" ELSE "none"]
    BY <2>1, TurnTaken
  <2>3. UNCHANGED bpc /\ \A d \in Clients : d # c => hpc'[d] = hpc[d]
    BY <1>4 DEF RelaySend, Forward, ForwardFails
  <2> QED
    BY <2>2, <2>3 DEF TurnInv
<1>5. ASSUME NEW c \in Clients, Beat(c)
      PROVE  TurnInv'
  <2>1. turn' = [turn EXCEPT ![c] = IF hpc[Mate(c)] = "forward" THEN "relay" ELSE "none"]
    BY <1>5, TurnTaken DEF Beat
  <2>2. UNCHANGED hpc /\ \A d \in Clients : d # c => bpc'[d] = bpc[d]
    BY <1>5 DEF Beat, HeartbeatSend, HeartbeatOnly
  <2> QED
    BY <2>1, <2>2 DEF TurnInv
<1>6. CASE Advance
  <2>1. UNCHANGED <<hpc, bpc>>
    BY <1>6 DEF Advance, vars, handlerVars
  <2>2. ASSUME NEW c \in Clients
        PROVE  turn'[c] = turn[c] \/ turn'[c] \in Waiting(c)
    BY <1>6 DEF Advance
  <2>3. ASSUME NEW c \in Clients
        PROVE  /\ "beat" \in Waiting(c) => bpc[c] = "send"
               /\ "relay" \in Waiting(c) => hpc[Mate(c)] = "forward"
    BY DEF Waiting, PeerInv
  <2> QED
    BY <2>1, <2>2, <2>3 DEF TurnInv
<1>7. ASSUME NEW c \in Clients, Relay(c)
      PROVE  TurnInv'
  <2>1. UNCHANGED turn
    BY <1>7 DEF Relay
  <2>2. CASE Closes(Handler(c)) \/ Closes(HeartbeatOf(c))
    BY <1>1, <2>1, <2>2 DEF Closes, handlerVars
  <2>3. CASE ReceiveFails(c) \/ RelayGetPeer(c) \/ RelayNoPeer(c) \/ UntrackClient(c)
             \/ ReleaseSlot(c)
    <3>1. PICK h : hpc' = [hpc EXCEPT ![c] = h]
      BY <2>3 DEF ReceiveFails, RelayGetPeer, RelayNoPeer, UntrackClient, ReleaseSlot, Goto
    <3>2. hpc[c] # "forward" /\ UNCHANGED bpc
      BY <2>3 DEF ReceiveFails, RelayGetPeer, RelayNoPeer, UntrackClient, ReleaseSlot, Goto
    <3> QED
      BY <1>2, <2>1, <3>1, <3>2
  <2> QED
    BY <1>7, <2>2, <2>3 DEF Relay
<1>8. ASSUME NEW c \in Clients, ReceiveData(c)
      PROVE  TurnInv'
  BY <1>2, <1>8 DEF ReceiveData, Receive, Goto, frameVars
<1>9. ASSUME NEW c \in Clients, Tick(c) \/ BeatsEnd(c)
      PROVE  TurnInv'
  <2>1. PICK b : bpc' = [bpc EXCEPT ![c] = b]
    BY <1>9 DEF Tick, HeartbeatStale, HeartbeatTick, BeatsEnd, HeartbeatExit, HeartbeatOnly
  <2>2. bpc[c] # "send" /\ UNCHANGED <<turn, hpc>>
    BY <1>9 DEF Tick, HeartbeatStale, HeartbeatTick, BeatsEnd, HeartbeatExit, HeartbeatOnly,
       frameVars
  <2> QED
    BY <1>3, <2>1, <2>2
<1>10. ASSUME NEW c \in Clients, ReceiveHeartbeat(c) \/ ClientReceives(c) \/ ClientAnswers(c)
                                 \/ ClientSends(c) \/ Freeze(c)
       PROVE  TurnInv'
  BY <1>1, <1>10 DEF ReceiveHeartbeat, ClientReceives, ClientDrains, ClientAnswers, ClientSends,
     Freeze, vars, handlerVars, frameVars
<1>11. UNCHANGED timedVars => TurnInv'
  BY <1>1 DEF timedVars, vars, handlerVars, frameVars
<1> QED
  BY <1>4, <1>5, <1>6, <1>7, <1>8, <1>9, <1>10, <1>11, TimedCases

\* The local variable peer of relayMessages is the mate, and so is the one of Close
\* of a client that is closed.
LEMMA PeerInvStep ==
    ASSUME IInv, PeerInv, [TimedNext]_timedVars
    PROVE  PeerInv'
<1> USE DEF IInv
<1>1. [Next]_vars /\ TypeOK' /\ ForwardInv'
  BY TimedStep, IInvStep
<1>2. ASSUME NEW c \in Clients, hpc'[c] = "forward"
      PROVE  fwd'[c] = Mate(c)
  <2>1. fwd'[c] # NoClient => fwd'[c] = Mate(c)
    BY <1>1, MateFacts DEF ForwardInv, TypeOK
  <2>2. fwd'[c] # NoClient
    <3>1. hpc[c] = "forward" => fwd[c] # NoClient
      BY MateFacts, NoClientAssumption DEF PeerInv
    <3>2. UNCHANGED <<hpc, fwd>> => fwd'[c] # NoClient
      BY <1>2, <3>1
    <3>3. ASSUME NEW d \in Clients, ReceiveData(d) \/ RelaySend(d)
          PROVE  fwd'[c] # NoClient
      BY <1>2, <3>1, <3>3 DEF ReceiveData, RelaySend, Receive, Goto, Forward, ForwardFails, TypeOK
    <3>4. ASSUME NEW d \in Clients, Relay(d)
          PROVE  fwd'[c] # NoClient
      <4>1. CASE Closes(Handler(d)) \/ Closes(HeartbeatOf(d))
        BY <3>2, <4>1 DEF Closes, handlerVars
      <4> QED
        BY <1>2, <3>1, <3>4, <4>1 DEF Relay, ReceiveFails, RelayGetPeer, RelayNoPeer, GetPeer,
           UntrackClient, ReleaseSlot, Goto, TypeOK
    <3>5. ASSUME NEW d \in Clients, Tick(d) \/ Beat(d) \/ BeatsEnd(d) \/ ReceiveHeartbeat(d)
             \/ ClientReceives(d) \/ ClientAnswers(d) \/ ClientSends(d) \/ Freeze(d)
          PROVE  UNCHANGED <<hpc, fwd>>
      BY <3>5 DEF Tick, HeartbeatStale, HeartbeatTick, Beat, HeartbeatSend, BeatsEnd,
         HeartbeatExit, HeartbeatOnly, ReceiveHeartbeat, ClientReceives, ClientDrains,
         ClientAnswers, ClientSends, Freeze, vars, handlerVars
    <3>6. UNCHANGED timedVars \/ Advance => UNCHANGED <<hpc, fwd>>
      BY DEF timedVars, Advance, vars, handlerVars
    <3> QED
      BY <3>2, <3>3, <3>4, <3>5, <3>6, TimedCases
  <2> QED
    BY <2>1, <2>2
<1>3. ASSUME NEW t \in Threads, closePc'[t] = "notify"
      PROVE  once'[target'[t]] # "new"
  <2>1. \A c \in Clients : once[c] # "new" => once'[c] # "new"
    BY <1>1, OnceFrame
  <2>2. CASE closePc'[t] = closePc[t] /\ target'[t] = target[t]
    BY <1>3, <2>1, <2>2 DEF PeerInv, CloseInv
  <2>3. ASSUME NEW u \in Threads, NEW c \in Clients, CallClose(u, c)
        PROVE  closePc'[t] = closePc[t] /\ target'[t] = target[t]
    BY <1>3, <2>3 DEF CallClose, TypeOK, ClientConnTypeOK
  <2>4. ASSUME NEW u \in Threads, CloseRemove(u)
        PROVE  once'[target'[t]] # "new"
    <3>1. CASE u = t
      BY <1>3, <2>4, <3>1 DEF CloseRemove, CloseInv, TypeOK, ClientConnTypeOK
    <3>2. CASE u # t
      BY <2>2, <2>4, <3>2 DEF CloseRemove, TypeOK, ClientConnTypeOK
    <3> QED
      BY <3>1, <3>2
  <2>5. ASSUME NEW u \in Threads, CloseEnter(u) \/ CloseAgain(u) \/ CloseGetPeer(u)
                                  \/ CloseNotify(u)
        PROVE  closePc'[t] = closePc[t] /\ target'[t] = target[t]
    BY <1>3, <2>5 DEF CloseEnter, CloseAgain, CloseGetPeer, CloseNotify, TypeOK, ClientConnTypeOK
  <2> QED
    BY <1>1, <2>2, <2>3, <2>4, <2>5, CloseFrame DEF closeVars, CloseStep
<1> QED
  BY <1>2, <1>3 DEF PeerInv

\* Who is about to close a connection that stays open stays about to.
LEMMA AboutStays ==
    ASSUME IInv, OpenInv, OpenInv', [TimedNext]_timedVars, NEW c \in Clients, Open(c)',
           NEW t \in Threads, About(t, c)
    PROVE  About(t, c)'
<1> USE DEF IInv, About
<1>1. [Next]_vars /\ once[c] = "new" /\ once'[c] = "new"
  BY TimedStep, OpenInvStep DEF OpenInv, Open
<1>2. ASSUME NEW u \in Threads, CloseStep(u)
      PROVE  About(t, c)'
  <2>1. CASE u = t
    BY <1>1, <1>2, <2>1 DEF CloseStep, CloseEnter, CloseAgain, CloseGetPeer, CloseRemove,
       CloseNotify, TypeOK, ClientConnTypeOK
  <2>2. CASE u # t
    BY <1>2, <2>2 DEF CloseStep, CloseEnter, CloseAgain, CloseGetPeer, CloseRemove, CloseNotify,
       TypeOK, ClientConnTypeOK
  <2> QED
    BY <2>1, <2>2
<1>3. ASSUME NEW u \in Threads, closePc[u] = "idle", NEW d \in Clients, CallClose(u, d)
      PROVE  About(t, c)'
  BY <1>3 DEF CallClose, TypeOK, ClientConnTypeOK
<1> QED
  BY <1>1, <1>2, <1>3, CloseFrame DEF closeVars

\* While both connections are open the two clients are linked.
LEMMA LinkedStays ==
    ASSUME IInv, OpenInv, LinkInv, [TimedNext]_timedVars, \A c \in Clients : Open(c)',
           NEW c \in Clients
    PROVE  peers'[c] = Mate(c)
<1> USE DEF IInv
<1>1. [Next]_vars
  BY TimedStep
<1>2. \A d \in Clients : Open(d) /\ once[d] = "new"
  BY OpenInvStep DEF Open, OpenInv
<1>3. ASSUME NEW t \in Threads
      PROVE  ~CloseRemove(t)
  BY <1>2 DEF CloseRemove, CloseInv, InsideOnce
<1>4. ASSUME NEW d \in Clients
      PROVE  ~HandleRegister(d) /\ ~HandleLink(d)
  BY <1>2 DEF HandleRegister, HandleLink, LinkInv
<1>5. UNCHANGED peers
  BY <1>1, <1>3, <1>4, RouterFrame
<1> QED
  BY <1>2, <1>5, MateFacts DEF LinkInv

\* The handler of a connection that stays open works, or is about to close it
\* because the mate is gone.
LEMMA HandlerStays ==
    ASSUME IInv, OpenInv, OpenInv', PeerInv, LinkInv, [TimedNext]_timedVars, NEW c \in Clients,
           Open(c)'
    PROVE  \/ hpc'[c] \in {"recv", "getpeer", "forward"}
           \/ hpc'[c] = "untrack" /\ About(Handler(c), c)' /\ ~Open(Mate(c))'
<1> DEFINE P == \/ hpc'[c] \in {"recv", "getpeer", "forward"}
                \/ hpc'[c] = "untrack" /\ About(Handler(c), c)' /\ ~Open(Mate(c))'
<1>t. TypeOK
  BY DEF IInv
<1>o. Open(c) /\ ~(conn[c] # "open") /\ (~Open(Mate(c)) => ~Open(Mate(c))')
  BY OpenInvStep, MateFacts DEF Open, IInv
<1>1. ASSUME hpc'[c] = hpc[c]
      PROVE  P
  BY <1>1, <1>o, AboutStays, ThreadFacts DEF LinkInv
<1>2. ASSUME NEW d \in Clients, d # c, NEW h, hpc' = [hpc EXCEPT ![d] = h]
      PROVE  P
  BY <1>1, <1>2, <1>t DEF TypeOK
<1>3. ASSUME NEW d \in Clients, ReceiveData(d) \/ RelaySend(d)
      PROVE  P
  <2>1. CASE d # c
    <3>1. PICK h : hpc' = [hpc EXCEPT ![d] = h]
      BY <1>3 DEF ReceiveData, RelaySend, Receive, Goto, Forward, ForwardFails
    <3> QED
      BY <1>2, <2>1, <3>1
  <2>2. CASE d = c /\ (ReceiveData(c) \/ Forward(c))
    BY <2>2, <1>t DEF ReceiveData, Receive, Goto, Forward, TypeOK
  <2>3. CASE d = c /\ ForwardFails(c)
    <3>1. hpc'[c] = "untrack" /\ ~Open(Mate(c))
      BY <2>3, <1>t DEF ForwardFails, SendFails, PeerInv, Open, TypeOK
    <3>2. About(Handler(c), c)'
      BY <2>3, <1>t, ThreadFacts DEF ForwardFails, CallClose, About, TypeOK, ClientConnTypeOK
    <3> QED
      BY <1>o, <3>1, <3>2
  <2> QED
    BY <1>3, <2>1, <2>2, <2>3 DEF RelaySend
<1>4. ASSUME NEW d \in Clients, Relay(d)
      PROVE  P
  <2>1. CASE Closes(Handler(d)) \/ Closes(HeartbeatOf(d))
    BY <1>1, <2>1 DEF Closes, handlerVars
  <2>2. CASE d # c /\ ~(Closes(Handler(d)) \/ Closes(HeartbeatOf(d)))
    <3>1. PICK h : hpc' = [hpc EXCEPT ![d] = h]
      BY <1>4, <2>2 DEF Relay, ReceiveFails, RelayGetPeer, RelayNoPeer, UntrackClient,
         ReleaseSlot, Goto
    <3> QED
      BY <1>2, <2>2, <3>1
  <2>3. CASE d = c /\ RelayGetPeer(c)
    BY <2>3, <1>t DEF RelayGetPeer, TypeOK
  <2>4. CASE d = c /\ RelayNoPeer(c)
    <3>1. hpc'[c] = "untrack" /\ ~Open(Mate(c))
      BY <2>4, <1>t, <1>o, MateFacts, NoClientAssumption DEF RelayNoPeer, Goto, GetPeer, LinkInv,
         TypeOK
    <3>2. About(Handler(c), c)'
      BY <2>4, <1>t, ThreadFacts DEF RelayNoPeer, CallClose, About, TypeOK, ClientConnTypeOK
    <3> QED
      BY <1>o, <3>1, <3>2
  <2>5. CASE d = c /\ (UntrackClient(c) \/ ReleaseSlot(c))
    BY <2>5, <1>o DEF UntrackClient, ReleaseSlot, Returned, LinkInv, About
  <2> QED
    BY <1>4, <1>o, <2>1, <2>2, <2>3, <2>4, <2>5 DEF Relay
<1>5. ASSUME NEW d \in Clients, Tick(d) \/ Beat(d) \/ BeatsEnd(d) \/ ReceiveHeartbeat(d)
             \/ ClientReceives(d) \/ ClientAnswers(d) \/ ClientSends(d) \/ Freeze(d)
      PROVE  UNCHANGED hpc
  BY <1>5 DEF Tick, HeartbeatStale, HeartbeatTick, Beat, HeartbeatSend, BeatsEnd, HeartbeatExit,
     HeartbeatOnly, ReceiveHeartbeat, ClientReceives, ClientDrains, ClientAnswers, ClientSends,
     Freeze, vars, handlerVars
<1>6. UNCHANGED timedVars \/ Advance => UNCHANGED hpc
  BY DEF timedVars, Advance, vars, handlerVars
<1> QED
  BY <1>1, <1>3, <1>4, <1>5, <1>6, TimedCases

\* The heartbeat goroutine of a connection that stays open works, or is about to
\* close it.
LEMMA BeaterStays ==
    ASSUME IInv, OpenInv, OpenInv', LinkInv, [TimedNext]_timedVars, NEW c \in Clients, Open(c)'
    PROVE  \/ bpc'[c] \in {"wait", "send"}
           \/ bpc'[c] = "done" /\ About(HeartbeatOf(c), c)'
<1> DEFINE P == bpc'[c] \in {"wait", "send"} \/ (bpc'[c] = "done" /\ About(HeartbeatOf(c), c)')
<1>t. TypeOK
  BY DEF IInv
<1>o. Open(c) /\ once[c] = "new"
  BY OpenInvStep DEF Open, OpenInv, IInv
<1>1. ASSUME bpc'[c] = bpc[c]
      PROVE  P
  BY <1>1, <1>o, AboutStays, ThreadFacts DEF LinkInv
<1>2. ASSUME NEW d \in Clients, Tick(d) \/ Beat(d) \/ BeatsEnd(d)
      PROVE  P
  <2>1. CASE d # c
    <3>1. bpc'[c] = bpc[c]
      BY <1>2, <1>t, <2>1 DEF Tick, HeartbeatStale, HeartbeatTick, Beat, HeartbeatSend, BeatsEnd,
         HeartbeatExit, HeartbeatOnly, TypeOK
    <3> QED
      BY <1>1, <3>1
  <2>2. CASE d = c /\ (Beat(c) \/ (Tick(c) /\ HeartbeatTick(c)))
    BY <1>t, <2>2 DEF HeartbeatTick, Beat, HeartbeatSend, HeartbeatOnly, TypeOK
  <2>3. CASE d = c /\ HeartbeatStale(c)
    <3>1. bpc'[c] = "done"
      BY <1>t, <2>3 DEF HeartbeatStale, HeartbeatOnly, TypeOK
    <3>2. About(HeartbeatOf(c), c)'
      BY <1>t, <2>3, ThreadFacts DEF HeartbeatStale, CallClose, About, TypeOK, ClientConnTypeOK
    <3> QED
      BY <3>1, <3>2
  <2>4. CASE d = c /\ BeatsEnd(c)
    BY <1>o, <2>4 DEF BeatsEnd, HeartbeatExit
  <2> QED
    BY <1>2, <2>1, <2>2, <2>3, <2>4 DEF Tick
<1>3. ASSUME NEW d \in Clients, Relay(d)
      PROVE  UNCHANGED bpc
  <2>1. CASE Closes(Handler(d)) \/ Closes(HeartbeatOf(d))
    BY <2>1 DEF Closes, handlerVars
  <2> QED
    BY <1>3, <2>1 DEF Relay, ReceiveFails, RelayGetPeer, RelayNoPeer, UntrackClient, ReleaseSlot,
       Goto
<1>4. ASSUME NEW d \in Clients, ReceiveHeartbeat(d) \/ ReceiveData(d) \/ RelaySend(d)
             \/ ClientReceives(d) \/ ClientAnswers(d) \/ ClientSends(d) \/ Freeze(d)
      PROVE  UNCHANGED bpc
  BY <1>4 DEF ReceiveHeartbeat, ReceiveData, Receive, Goto, RelaySend, Forward, ForwardFails,
     ClientReceives, ClientDrains, ClientAnswers, ClientSends, Freeze, vars, handlerVars
<1>5. UNCHANGED timedVars \/ Advance => UNCHANGED bpc
  BY DEF timedVars, Advance, vars, handlerVars
<1> QED
  BY <1>1, <1>2, <1>3, <1>4, <1>5, TimedCases

\* A socket that is emptied loses its age.
LEMMA EmptyInvStep ==
    ASSUME TimedTypeOK, EmptyInv, [TimedNext]_timedVars
    PROVE  EmptyInv'
<1>1. ASSUME NEW kind, Frames(kind)
      PROVE  EmptyInv'
  BY <1>1 DEF Frames, EmptyInv
<1>2. UNCHANGED <<unread, age>> => EmptyInv'
  BY DEF EmptyInv
<1>3. ASSUME NEW c \in Clients, Relay(c) \/ RelaySend(c) \/ Beat(c) \/ ClientReceives(c)
      PROVE  EmptyInv'
  BY <1>1, <1>3 DEF Relay, RelaySend, Beat, ClientReceives
<1>4. ASSUME NEW c \in Clients, ReceiveHeartbeat(c) \/ ReceiveData(c) \/ Tick(c) \/ BeatsEnd(c)
                                \/ ClientAnswers(c) \/ ClientSends(c) \/ Freeze(c)
      PROVE  UNCHANGED <<unread, age>>
  BY <1>4 DEF ReceiveHeartbeat, ReceiveData, Receive, Tick, HeartbeatStale, HeartbeatTick,
     BeatsEnd, HeartbeatExit, ClientAnswers, ClientSends, Freeze, vars, connVars, frameVars
<1>5. CASE Advance
  <2>1. UNCHANGED unread /\ age' = [c \in Clients |-> IF unread[c] > 0 THEN Capped(age[c], MaxLag)
                                                      ELSE 0]
    BY <1>5 DEF Advance, vars, connVars
  <2>2. \A c \in Clients : unread[c] = 0 => ~(unread[c] > 0)
    OBVIOUS
  <2> QED
    BY <2>1, <2>2 DEF EmptyInv
<1>6. UNCHANGED timedVars => UNCHANGED <<unread, age>>
  BY DEF timedVars, vars, connVars, frameVars
<1> QED
  BY <1>2, <1>3, <1>4, <1>5, <1>6, TimedCases

\* Every step preserves what the goroutines know of each other.
LEMMA BaseStep ==
    ASSUME BaseInv, [TimedNext]_timedVars
    PROVE  BaseInv'
<1>1. IInv' /\ TimedTypeOK'
  BY TimedStep, IInvStep, TimedTypeStep DEF BaseInv
<1>2. TypeOK /\ TurnTypes /\ CloseInv
  BY TimedTypeParts DEF BaseInv, IInv
<1>3. OpenInv' /\ \A c \in Clients : Open(c)' => Open(c)
  BY <1>2, OpenInvStep DEF BaseInv, Open
<1>4. TurnInv' /\ PeerInv' /\ EmptyInv'
  BY <1>2, TurnInvStep, PeerInvStep, EmptyInvStep DEF BaseInv
<1>5. ASSUME NEW c \in Clients, Open(c)', Open(Mate(c))'
      PROVE  peers'[c] = Mate(c)
  BY <1>5, MateFacts, LinkedStays DEF BaseInv
<1>6. LinkInv'
  BY <1>3, <1>5, HandlerStays, BeaterStays DEF LinkInv, BaseInv
<1> QED
  BY <1>1, <1>3, <1>4, <1>6 DEF BaseInv

\* It holds when the two have just been linked.
LEMMA BaseInit == LinkedInit /\ ClocksStart => BaseInv
<1> SUFFICES ASSUME LinkedInit, ClocksStart
             PROVE  BaseInv
  OBVIOUS
<1>1. IInv /\ TimedTypeOK
  BY LinkedTimed
<1>2. OpenInv /\ TurnInv /\ PeerInv /\ LinkInv /\ EmptyInv
  BY LinkedAssumption DEF LinkedInit, ClocksStart, OpenInv, TurnInv, PeerInv, LinkInv, EmptyInv,
     Open, Mate
<1> QED
  BY <1>1, <1>2 DEF BaseInv

-----------------------------------------------------------------------------
(***************************************************************************)
(* Heartbeats are counted: how many are in a socket, not where.            *)
(***************************************************************************)

BeatsAt(f, n) == {i \in 1..n : f[i] = "beat"}
beats == [c \in Clients |-> Cardinality(BeatsAt(frames[c], unread[c]))]

\* A socket with fewer heartbeats than frames holds data.
LEMMA CountFacts ==
    ASSUME NEW n \in Nat, NEW f \in [1..n -> Kinds]
    PROVE  /\ IsFiniteSet(BeatsAt(f, n)) /\ Cardinality(BeatsAt(f, n)) \in 0..n
           /\ Cardinality(BeatsAt(f, n)) < n => "data" \in {f[i] : i \in 1..n}
<1>1. IsFiniteSet(1..n) /\ Cardinality(1..n) = n
  BY FS_Interval
<1>2. BeatsAt(f, n) \in SUBSET (1..n)
  BY DEF BeatsAt
<1>3. IsFiniteSet(BeatsAt(f, n)) /\ Cardinality(BeatsAt(f, n)) <= n
  BY <1>1, <1>2, FS_Subset
<1>4. Cardinality(BeatsAt(f, n)) \in Nat
  BY <1>3, FS_CardinalityType
<1>5. "data" \notin {f[i] : i \in 1..n} => BeatsAt(f, n) = 1..n
  BY DEF BeatsAt, Kinds
<1> QED
  BY <1>1, <1>3, <1>4, <1>5

\* A frame at the end.
LEMMA CountAppend ==
    ASSUME NEW n \in Nat, NEW f \in [1..n -> Kinds], NEW kind \in Kinds
    PROVE  Cardinality(BeatsAt(Append(f, kind), n + 1)) =
               Cardinality(BeatsAt(f, n)) + (IF kind = "beat" THEN 1 ELSE 0)
<1> DEFINE g == Append(f, kind)
<1>1. g \in [1..(n + 1) -> Kinds] /\ g[n + 1] = kind /\ \A i \in 1..n : g[i] = f[i]
  <2>1. f \in Seq(Kinds) /\ Len(f) = n
    OBVIOUS
  <2>2. g[n + 1] = kind /\ \A i \in 1..n : g[i] = f[i]
    BY <2>1
  <2>3. g \in [1..(n + 1) -> Kinds]
    BY SocketFacts
  <2> QED
    BY <2>2, <2>3
<1>2. 1..(n + 1) = (1..n) \cup {n + 1} /\ (n + 1) \notin 1..n
  OBVIOUS
<1> HIDE DEF g
<1>3. BeatsAt(g, n + 1) = IF kind = "beat" THEN BeatsAt(f, n) \cup {n + 1} ELSE BeatsAt(f, n)
  BY <1>1, <1>2 DEF BeatsAt
<1>4. (n + 1) \notin BeatsAt(f, n)
  BY <1>2 DEF BeatsAt
<1>5. IsFiniteSet(BeatsAt(f, n)) /\ Cardinality(BeatsAt(f, n)) \in Nat
  BY CountFacts
<1>6. Cardinality(BeatsAt(f, n) \cup {n + 1}) = Cardinality(BeatsAt(f, n)) + 1
  BY <1>4, <1>5, FS_AddElement
<1> QED
  BY <1>3, <1>5, <1>6 DEF g

\* A frame taken from the front.
LEMMA CountTail ==
    ASSUME NEW n \in Nat, n > 0, NEW f \in [1..n -> Kinds]
    PROVE  Cardinality(BeatsAt(Tail(f), n - 1)) =
               Cardinality(BeatsAt(f, n)) - (IF Head(f) = "beat" THEN 1 ELSE 0)
<1> DEFINE g == Tail(f)
           S == BeatsAt(g, n - 1)
           T == BeatsAt(f, n) \ {1}
<1>1. /\ g \in [1..(n - 1) -> Kinds] /\ Head(f) = f[1]
      /\ \A i \in 1..(n - 1) : g[i] = f[i + 1]
  <2>1. f \in Seq(Kinds) /\ Len(f) = n /\ f # <<>>
    OBVIOUS
  <2>2. Head(f) = f[1] /\ \A i \in 1..(n - 1) : g[i] = f[i + 1]
    BY <2>1
  <2>3. g \in [1..(n - 1) -> Kinds]
    BY SocketFacts DEF Kinds
  <2> QED
    BY <2>2, <2>3
<1> HIDE DEF g
<1>2. /\ IsFiniteSet(S) /\ Cardinality(S) \in Nat
      /\ IsFiniteSet(BeatsAt(f, n)) /\ Cardinality(BeatsAt(f, n)) \in Nat
  <2>1. n - 1 \in Nat
    OBVIOUS
  <2> QED
    BY <1>1, <2>1, CountFacts
<1>3. Cardinality(T) = Cardinality(S)
  <2> DEFINE h == [i \in S |-> i + 1]
  <2>1. h \in [S -> T]
    BY <1>1 DEF BeatsAt
  <2>2. \A a, b \in S : h[a] = h[b] => a = b
    BY DEF BeatsAt
  <2>3. \A t \in T : \E s \in S : h[s] = t
    <3>1. SUFFICES ASSUME NEW t \in T
                   PROVE  t - 1 \in S /\ h[t - 1] = t
      OBVIOUS
    <3>2. t \in 2..n /\ f[t] = "beat"
      BY DEF BeatsAt
    <3>3. t - 1 \in 1..(n - 1) /\ g[t - 1] = f[t]
      BY <1>1, <3>2
    <3>4. t - 1 \in S
      BY <3>2, <3>3 DEF BeatsAt
    <3> QED
      BY <3>2, <3>4
  <2> HIDE DEF h, S, T
  <2>4. h \in Injection(S, T) /\ h \in Surjection(S, T)
    BY <2>1, <2>2, <2>3 DEF Injection, Surjection, IsInjective
  <2>5. ExistsBijection(S, T)
    BY <2>4 DEF ExistsBijection, Bijection
  <2> QED
    BY <1>2, <2>5, FS_Bijection
<1>4. 1 \in BeatsAt(f, n) <=> Head(f) = "beat"
  BY <1>1 DEF BeatsAt
<1>5. CASE Head(f) = "beat"
  BY <1>2, <1>3, <1>4, <1>5, FS_RemoveElement DEF g
<1>6. CASE Head(f) # "beat"
  <2>1. T = BeatsAt(f, n)
    BY <1>4, <1>6
  <2> QED
    BY <1>2, <1>3, <1>6, <2>1 DEF g
<1> QED
  BY <1>5, <1>6

\* How the heartbeats and the age of a socket follow the number of its frames.
LEMMA BeatsMove ==
    ASSUME TypeOK, TypeOK', FrameTypes, EmptyInv, NEW kind \in Kinds, Frames(kind),
           NEW c \in Clients
    PROVE  /\ unread'[c] = unread[c] => beats'[c] = beats[c] /\ age'[c] = age[c]
           /\ unread'[c] = unread[c] + 1 =>
                /\ beats'[c] = beats[c] + (IF kind = "beat" THEN 1 ELSE 0)
                /\ age'[c] = age[c]
           /\ unread[c] > 0 /\ unread'[c] = unread[c] - 1 =>
                /\ beats'[c] = beats[c] - (IF Head(frames[c]) = "beat" THEN 1 ELSE 0)
                /\ age'[c] = IF unread'[c] = 0 THEN 0 ELSE age[c]
<1>1. unread[c] \in Nat /\ unread'[c] \in Nat /\ frames[c] \in [1..unread[c] -> Kinds]
  BY WireCapAssumption DEF TypeOK, ClientConnTypeOK, FrameTypes
<1>2. frames'[c] = IF unread'[c] > unread[c] THEN Append(frames[c], kind)
                   ELSE IF unread'[c] = 0 THEN <<>>
                   ELSE IF unread'[c] < unread[c] THEN Tail(frames[c]) ELSE frames[c]
  BY DEF Frames
<1>3. age'[c] = IF unread'[c] = 0 THEN 0 ELSE age[c]
  BY DEF Frames
<1>4. /\ beats[c] = Cardinality(BeatsAt(frames[c], unread[c]))
      /\ beats'[c] = Cardinality(BeatsAt(frames'[c], unread'[c]))
  BY DEF beats
<1>5. \A f, g : BeatsAt(f, 0) = BeatsAt(g, 0)
  BY DEF BeatsAt
<1>6. CASE unread'[c] = unread[c]
  <2>1. BeatsAt(frames'[c], unread'[c]) = BeatsAt(frames[c], unread[c])
    <3>1. CASE unread[c] = 0
      BY <1>5, <1>6, <3>1
    <3>2. CASE unread[c] # 0
      BY <1>1, <1>2, <1>6, <3>2
    <3> QED
      BY <3>1, <3>2
  <2> QED
    BY <1>1, <1>3, <1>4, <1>6, <2>1 DEF EmptyInv
<1>7. CASE unread'[c] = unread[c] + 1
  <2>1. frames'[c] = Append(frames[c], kind) /\ unread'[c] # 0
    BY <1>1, <1>2, <1>7
  <2>2. Cardinality(BeatsAt(Append(frames[c], kind), unread[c] + 1)) =
            Cardinality(BeatsAt(frames[c], unread[c])) + (IF kind = "beat" THEN 1 ELSE 0)
    BY <1>1, CountAppend
  <2> QED
    BY <1>1, <1>3, <1>4, <1>7, <2>1, <2>2
<1>8. CASE unread[c] > 0 /\ unread'[c] = unread[c] - 1
  <2>1. BeatsAt(frames'[c], unread'[c]) = BeatsAt(Tail(frames[c]), unread[c] - 1)
    <3>1. CASE unread'[c] = 0
      BY <1>5, <1>8, <3>1
    <3>2. CASE unread'[c] # 0
      BY <1>1, <1>2, <1>8, <3>2
    <3> QED
      BY <3>1, <3>2
  <2>2. Cardinality(BeatsAt(Tail(frames[c]), unread[c] - 1)) =
            Cardinality(BeatsAt(frames[c], unread[c])) - (IF Head(frames[c]) = "beat" THEN 1 ELSE 0)
    BY <1>1, <1>8, CountTail
  <2>3. beats'[c] = beats[c] - (IF Head(frames[c]) = "beat" THEN 1 ELSE 0)
    BY <1>4, <2>1, <2>2
  <2> QED
    BY <1>1, <1>3, <1>8, <2>3
<1> QED
  BY <1>1, <1>6, <1>7, <1>8

-----------------------------------------------------------------------------
(***************************************************************************)
(* What a step does to the two clients, as far as time is concerned.       *)
(* Nothing is said of a connection that is closed.  The actor is d, the    *)
(* mate is e.                                                              *)
(***************************************************************************)

SamePc(c)   == hpc'[c] = hpc[c] /\ bpc'[c] = bpc[c] /\ turn'[c] = turn[c]
SameSock(c) == unread'[c] = unread[c] /\ beats'[c] = beats[c] /\ age'[c] = age[c]
SameTime(c) == silent'[c] = silent[c] /\ ticker'[c] = ticker[c] /\ (c \in due' <=> c \in due)
SameSelf(c) == owes'[c] = owes[c] /\ out'[c] = out[c]
SameConn(c) == conn'[c] = conn[c]
Same(c) == SameConn(c) /\ SamePc(c) /\ SameSock(c) /\ SameTime(c) /\ SameSelf(c)

\* What Quiet means for an open connection.
Calm(c, p) ==
    Open(c) =>
        /\ hpc[c] \in {"recv", "forward"}
        /\ hpc[c] = "recv" => out[c] = "none"
        /\ hpc[c] = "forward" => Open(p) /\ unread[p] = WireCap
        /\ bpc[c] \in {"wait", "send"}
        /\ bpc[c] = "wait" => c \notin due
        /\ bpc[c] = "send" => unread[c] = WireCap

\* Nothing, or something about closed connections.
Rests(d, e) ==
    /\ SameConn(d) /\ (Open(d) => Same(d))
    /\ SameConn(e) /\ (Open(e) => Same(e))
    /\ frozen' = frozen

\* CloseEnter: while both are open, only the client's own heartbeat goroutine does it.
Shuts(d, e) ==
    /\ Open(d) /\ conn'[d] = "closed"
    /\ SameConn(e) /\ (Open(e) => Same(e) /\ bpc[d] = "done")
    /\ frozen' = frozen

\* CloseNotify
Warns(d, e) ==
    /\ Open(d) /\ SameConn(d) /\ SamePc(d) /\ SameTime(d) /\ SameSelf(d)
    /\ unread[d] < WireCap /\ unread'[d] = unread[d] + 1
    /\ beats'[d] = beats[d] /\ age'[d] = age[d]
    /\ ~Open(e) /\ SameConn(e)
    /\ frozen' = frozen

\* ReceiveHeartbeat, ReceiveData
Hears(d, e) ==
    /\ Open(d) /\ SameConn(d) /\ SameSock(d)
    /\ hpc[d] = "recv" /\ hpc'[d] = (IF out[d] = "data" THEN "getpeer" ELSE "recv")
    /\ bpc'[d] = bpc[d] /\ turn'[d] = turn[d]
    /\ silent'[d] = 0 /\ ticker'[d] = ticker[d] /\ (d \in due' <=> d \in due)
    /\ out[d] # "none" /\ out'[d] = "none" /\ owes'[d] = owes[d]
    /\ SameConn(e) /\ (Open(e) => Same(e))
    /\ frozen' = frozen

\* RelayGetPeer, RelayNoPeer and ForwardFails
LooksUp(d, e) ==
    /\ Open(d) /\ SameConn(d) /\ SameSock(d) /\ SameTime(d) /\ SameSelf(d)
    /\ bpc'[d] = bpc[d] /\ turn'[d] = turn[d]
    /\ \/ hpc[d] = "getpeer" /\ hpc'[d] = "forward"
       \/ hpc[d] \in {"getpeer", "forward"} /\ hpc'[d] = "untrack" /\ ~Open(e)
    /\ SameConn(e) /\ (Open(e) => Same(e))
    /\ frozen' = frozen

\* Forward
Forwards(d, e) ==
    /\ SameConn(d) /\ hpc[d] = "forward" /\ hpc'[d] = "recv"
    /\ bpc'[d] = bpc[d] /\ turn'[d] = turn[d]
    /\ SameSock(d) /\ SameTime(d) /\ SameSelf(d)
    /\ Open(e) /\ SameConn(e) /\ SameTime(e) /\ SameSelf(e)
    /\ hpc'[e] = hpc[e] /\ bpc'[e] = bpc[e]
    /\ turn[e] # "beat" /\ turn'[e] = (IF bpc[e] = "send" THEN "beat" ELSE "none")
    /\ unread[e] < WireCap /\ unread'[e] = unread[e] + 1
    /\ beats'[e] = beats[e] /\ age'[e] = age[e]
    /\ frozen' = frozen

\* Tick
Ticks(d, e) ==
    /\ Open(d) /\ SameConn(d) /\ SameSock(d) /\ SameSelf(d)
    /\ d \in due /\ d \notin due' /\ silent'[d] = silent[d] /\ ticker'[d] = ticker[d]
    /\ hpc'[d] = hpc[d] /\ turn'[d] = turn[d]
    /\ bpc[d] = "wait"
    /\ bpc'[d] = (IF silent[d] > HeartbeatTimeout THEN "done" ELSE "send")
    /\ Same(e)
    /\ frozen' = frozen

\* Beat
Beats(d, e) ==
    /\ Open(d) /\ SameConn(d) /\ SameTime(d) /\ SameSelf(d)
    /\ bpc[d] = "send" /\ bpc'[d] = "wait" /\ hpc'[d] = hpc[d]
    /\ turn[d] # "relay" /\ turn'[d] = (IF hpc[e] = "forward" THEN "relay" ELSE "none")
    /\ unread[d] < WireCap /\ unread'[d] = unread[d] + 1
    /\ beats'[d] = beats[d] + 1 /\ age'[d] = age[d]
    /\ SameConn(e) /\ (Open(e) => Same(e))
    /\ frozen' = frozen

\* ClientReceives
Reads(d, e) ==
    /\ Calm(d, e) /\ Calm(e, d)
    /\ Open(d) /\ d \notin frozen /\ SameConn(d) /\ SamePc(d) /\ SameTime(d)
    /\ out'[d] = out[d] /\ owes[d] = "none"
    /\ \/ owes'[d] = "none" /\ beats'[d] = beats[d]
       \/ owes'[d] # "none" /\ beats'[d] = beats[d] - 1
    /\ unread[d] > 0 /\ unread'[d] = unread[d] - 1
    /\ age'[d] = (IF unread'[d] = 0 THEN 0 ELSE age[d])
    /\ SameConn(e) /\ (Open(e) => Same(e))
    /\ frozen' = frozen

\* ClientAnswers, ClientSends
Writes(d, e) ==
    /\ Calm(d, e) /\ Calm(e, d)
    /\ Open(d) /\ d \notin frozen /\ SameConn(d) /\ SamePc(d) /\ SameSock(d) /\ SameTime(d)
    /\ out[d] = "none"
    /\ \/ owes[d] = "first" /\ owes'[d] = "none" /\ out'[d] = "beat"
       \/ owes[d] = "second" /\ owes'[d] = "first" /\ out'[d] = "data"
       \/ owes[d] = "none" /\ owes'[d] = "none" /\ out'[d] = "data"
    /\ Same(e)
    /\ frozen' = frozen

\* Freeze
Freezes(d, e) ==
    /\ Calm(d, e) /\ Calm(e, d)
    /\ Same(d) /\ Same(e)
    /\ frozen' = frozen \cup {d}

\* Advance
Ages(c) ==
    /\ SameConn(c) /\ SameSelf(c) /\ hpc'[c] = hpc[c] /\ bpc'[c] = bpc[c]
    /\ unread'[c] = unread[c] /\ beats'[c] = beats[c]
    /\ turn[c] = "relay" => turn'[c] = "relay"
    /\ ~Urgent(c)
    /\ Open(c) => silent'[c] = (IF silent[c] < SilentCap THEN silent[c] + 1 ELSE silent[c])
    /\ ticker'[c] = (IF ticker[c] = 1 THEN HeartbeatInterval ELSE ticker[c] - 1)
    /\ c \in due' <=> c \in due \/ (ticker[c] = 1 /\ bpc[c] # "done")
    /\ age'[c] = (IF unread[c] = 0 THEN 0
                  ELSE IF age[c] < MaxLag THEN age[c] + 1 ELSE age[c])

Passes(d, e) == Calm(d, e) /\ Calm(e, d) /\ Ages(d) /\ Ages(e) /\ frozen' = frozen

Step(d, e) ==
    \/ Rests(d, e) \/ Shuts(d, e) \/ Warns(d, e) \/ Hears(d, e) \/ LooksUp(d, e)
    \/ Forwards(d, e) \/ Ticks(d, e) \/ Beats(d, e) \/ Reads(d, e) \/ Writes(d, e)
    \/ Freezes(d, e) \/ Passes(d, e)

\* The goroutines of an open connection that is not about to be closed wait for
\* room in the mate's socket or for a tick when nobody can run.
LEMMA QuietCalm ==
    ASSUME BaseInv, Quiet, NEW c \in Clients
    PROVE  Calm(c, Mate(c))
<1> SUFFICES ASSUME Open(c)
             PROVE  /\ hpc[c] \in {"recv", "forward"}
                    /\ hpc[c] = "recv" => out[c] = "none"
                    /\ hpc[c] = "forward" => Open(Mate(c)) /\ unread[Mate(c)] = WireCap
                    /\ bpc[c] \in {"wait", "send"}
                    /\ bpc[c] = "wait" => c \notin due
                    /\ bpc[c] = "send" => unread[c] = WireCap
  BY DEF Calm
<1> USE MateFacts
<1>1. once[c] = "new"
  BY DEF BaseInv, OpenInv
<1>2. ASSUME NEW t \in {Handler(c), HeartbeatOf(c)}
      PROVE  ~About(t, c)
  BY <1>1 DEF Quiet, About, Returned
<1>3. hpc[c] \in {"recv", "forward"} /\ bpc[c] \in {"wait", "send"}
  BY <1>2 DEF Quiet, BaseInv, LinkInv
<1>4. ASSUME NEW d \in Clients, turn[d] = "relay"
      PROVE  Full(d)
  <2>1. hpc[Mate(d)] = "forward" /\ fwd[Mate(d)] = d
    BY <1>4 DEF BaseInv, TurnInv, PeerInv
  <2> QED
    BY <1>4, <2>1 DEF Quiet
<1>5. ASSUME NEW d \in Clients, bpc[d] = "send"
      PROVE  Full(d)
  BY <1>4, <1>5 DEF Quiet
<1>6. hpc[c] = "forward" => Full(Mate(c))
  <2>1. hpc[c] = "forward" => fwd[c] = Mate(c)
    BY DEF BaseInv, PeerInv
  <2>2. turn[Mate(c)] = "beat" => bpc[Mate(c)] = "send"
    BY DEF BaseInv, TurnInv
  <2> QED
    BY <1>5, <2>1, <2>2 DEF Quiet
<1> QED
  BY <1>3, <1>5, <1>6 DEF Quiet, Full, Open

\* The types, and what the proofs of the steps use of them.
LEMMA BaseTypes ==
    ASSUME BaseInv
    PROVE  TypeOK /\ ClockTypes /\ FrameTypes /\ TurnTypes /\ PeerTypes /\ EmptyInv
BY TimedTypeParts DEF BaseInv

\* The broker's variables keep their types after a step.
LEMMA BaseTypesNext ==
    ASSUME BaseInv'
    PROVE  TypeOK'
BY TimedTypeParts DEF BaseInv

\* A socket holds no more heartbeats than frames.
LEMMA BeatsType ==
    ASSUME TypeOK, FrameTypes, NEW c \in Clients
    PROVE  /\ unread[c] \in 0..WireCap /\ beats[c] \in 0..unread[c] /\ beats[c] \in Nat
           /\ beats[c] < unread[c] => "data" \in {frames[c][i] : i \in 1..unread[c]}
<1>1. unread[c] \in 0..WireCap /\ unread[c] \in Nat /\ frames[c] \in [1..unread[c] -> Kinds]
  BY WireCapAssumption DEF TypeOK, ClientConnTypeOK, FrameTypes
<1>2. beats[c] = Cardinality(BeatsAt(frames[c], unread[c]))
  BY DEF beats
<1>3. /\ Cardinality(BeatsAt(frames[c], unread[c])) \in 0..unread[c]
      /\ Cardinality(BeatsAt(frames[c], unread[c])) < unread[c] =>
            "data" \in {frames[c][i] : i \in 1..unread[c]}
  BY <1>1, CountFacts
<1> QED
  BY <1>1, <1>2, <1>3

\* Frames that nobody touches.
LEMMA BeatsKept == UNCHANGED <<unread, frames>> => beats' = beats
BY DEF beats

\* A step of a handler or of Close leaves a client alone whose connection and
\* program counters it does not change.
LEMMA RelayFrame ==
    ASSUME BaseInv, BaseInv', NEW c \in Clients, Relay(c), NEW x \in Clients,
           conn'[x] = conn[x], unread'[x] = unread[x], hpc'[x] = hpc[x], bpc'[x] = bpc[x], Open(x)
    PROVE  Same(x)
<1>1. beats'[x] = beats[x] /\ age'[x] = age[x]
  BY BaseTypes, BaseTypesNext, BeatsMove DEF Relay, Kinds
<1>2. silent'[x] = silent[x] /\ out'[x] = out[x] /\ owes'[x] = owes[x]
  BY DEF Relay, Forget, Open
<1>3. UNCHANGED <<turn, ticker, due>>
  BY DEF Relay
<1> QED
  BY <1>1, <1>2, <1>3 DEF Same, SameConn, SamePc, SameSock, SameTime, SameSelf

\* What a step of Close does.
LEMMA CloseEffect ==
    ASSUME BaseInv, BaseInv', NEW c \in Clients, Relay(c),
           NEW t \in {Handler(c), HeartbeatOf(c)}, Closes(t)
    PROVE  \E d \in Clients : Step(d, Mate(d))
<1> USE MateFacts, ThreadFacts
<1>t. TypeOK /\ CloseInv /\ CallInv /\ t \in Threads /\ frozen' = frozen
  BY BaseTypes DEF BaseInv, IInv, Relay
<1>h. UNCHANGED <<hpc, bpc>>
  BY DEF Closes, handlerVars
<1>1. CASE CloseAgain(t) \/ CloseGetPeer(t) \/ CloseRemove(t)
  <2>1. UNCHANGED <<conn, unread>>
    BY <1>1 DEF CloseAgain, CloseGetPeer, CloseRemove, connVars
  <2>2. \A x \in Clients : SameConn(x) /\ (Open(x) => Same(x))
    BY <1>h, <2>1, RelayFrame DEF SameConn
  <2> QED
    BY <1>t, <2>2 DEF Step, Rests
<1>2. CASE CloseEnter(t)
  <2> DEFINE x == target[t]
  <2>1. x \in Clients /\ once[x] = "new"
    BY <1>2, <1>t DEF CloseEnter, CloseInv
  <2> HIDE DEF x
  <2>2. Open(x)
    BY <2>1 DEF BaseInv, OpenInv
  <2>3. /\ conn' = [conn EXCEPT ![x] = "closed"]
        /\ unread' = [unread EXCEPT ![x] = 0]
    BY <1>2 DEF CloseEnter, CloseConn, x
  <2>4. conn'[x] = "closed" /\ SameConn(Mate(x)) /\ unread'[Mate(x)] = unread[Mate(x)]
    BY <1>t, <2>1, <2>3 DEF TypeOK, ClientConnTypeOK, SameConn
  <2>5. Open(Mate(x)) => Same(Mate(x))
    BY <1>h, <2>1, <2>4, RelayFrame DEF SameConn
  <2>6. ASSUME Open(Mate(x))
        PROVE  bpc[x] = "done"
    <3>1. Open(c) /\ Open(Mate(c)) /\ closePc[t] # "idle"
      BY <1>2, <2>1, <2>2, <2>6 DEF CloseEnter
    <3>2. t # Handler(c)
      BY <1>t, <3>1 DEF CallInv, BaseInv, LinkInv
    <3>3. bpc[c] = "done"
      BY <1>t, <3>1, <3>2 DEF CallInv
    <3>4. target[HeartbeatOf(c)] = c
      BY <3>1, <3>3 DEF BaseInv, LinkInv, About
    <3> QED
      BY <3>2, <3>3, <3>4 DEF x
  <2>7. Shuts(x, Mate(x))
    BY <1>t, <2>2, <2>4, <2>5, <2>6 DEF Shuts
  <2> QED
    BY <2>1, <2>7 DEF Step
<1>3. CASE CloseNotify(t)
  <2> DEFINE x == toNotify[t]
             y == target[t]
  <2>1. x \in Clients /\ y \in Clients /\ once[y] # "new"
    BY <1>3, <1>t DEF CloseNotify, CloseInv, TypeOK, ClientConnTypeOK, BaseInv, PeerInv
  <2>2. UNCHANGED conn /\ BestEffortSend(x)
    BY <1>3 DEF CloseNotify
  <2> HIDE DEF x, y
  <2>3. ~Open(y)
    BY <2>1 DEF BaseInv, OpenInv
  <2>4. CASE SendFails(x)
    <3>1. \A z \in Clients : SameConn(z) /\ (Open(z) => Same(z))
      BY <1>h, <2>2, <2>4, RelayFrame DEF SameConn, SendFails
    <3> QED
      BY <1>t, <3>1 DEF Step, Rests
  <2>5. CASE SendSucceeds(x)
    <3>1. Open(x) /\ Mate(x) = y
      BY <2>1, <2>3, <2>5 DEF SendSucceeds, Open
    <3>2. unread[x] < WireCap /\ unread'[x] = unread[x] + 1
      BY <1>t, <2>1, <2>5 DEF SendSucceeds, TypeOK, ClientConnTypeOK
    <3>3. beats'[x] = beats[x] /\ age'[x] = age[x]
      <4>1. beats'[x] = beats[x] + 0 /\ age'[x] = age[x]
        BY <2>1, <3>2, BaseTypes, BaseTypesNext, BeatsMove DEF Relay, Kinds
      <4>2. beats[x] \in Nat
        BY <2>1, BaseTypes, BeatsType
      <4> QED
        BY <4>1, <4>2
    <3>4. SameTime(x) /\ SameSelf(x) /\ SamePc(x)
      BY <1>h, <2>1, <2>2, <3>1 DEF Relay, Forget, Open, SameTime, SameSelf, SamePc
    <3>5. Warns(x, Mate(x))
      BY <1>t, <2>2, <2>3, <3>1, <3>2, <3>3, <3>4 DEF Warns, SameConn
    <3> QED
      BY <2>1, <3>5 DEF Step
  <2> QED
    BY <2>2, <2>4, <2>5 DEF BestEffortSend
<1> QED
  BY <1>1, <1>2, <1>3 DEF Closes, CloseStep

\* What a step of a handler does that neither reads nor writes.
LEMMA HandlerEffect ==
    ASSUME BaseInv, BaseInv', NEW c \in Clients, Relay(c),
           \/ conn[c] # "open" /\ ReceiveFails(c)
           \/ RelayGetPeer(c) \/ RelayNoPeer(c) \/ UntrackClient(c) \/ ReleaseSlot(c)
    PROVE  Step(c, Mate(c))
<1> USE MateFacts
<1>t. TypeOK /\ frozen' = frozen
  BY BaseTypes DEF Relay
<1>1. UNCHANGED <<conn, unread, bpc>> /\ \A d \in Clients : d # c => hpc'[d] = hpc[d]
  BY <1>t DEF ReceiveFails, RelayGetPeer, RelayNoPeer, UntrackClient, ReleaseSlot, Goto, connVars,
     TypeOK
<1>2. SameConn(Mate(c)) /\ (Open(Mate(c)) => Same(Mate(c))) /\ SameConn(c)
  BY <1>1, RelayFrame DEF SameConn
<1>3. CASE ~Open(c)
  BY <1>t, <1>2, <1>3 DEF Step, Rests
<1>4. CASE Open(c)
  <2>1. ~UntrackClient(c) /\ ~ReleaseSlot(c) /\ conn[c] = "open"
    BY <1>4 DEF UntrackClient, ReleaseSlot, Returned, BaseInv, LinkInv, About, Open
  <2>2. \/ hpc[c] = "getpeer" /\ hpc'[c] = "forward"
        \/ hpc[c] \in {"getpeer", "forward"} /\ hpc'[c] = "untrack" /\ ~Open(Mate(c))
    <3>1. CASE RelayGetPeer(c)
      BY <1>t, <3>1 DEF RelayGetPeer, TypeOK
    <3>2. CASE RelayNoPeer(c)
      BY <1>t, <1>4, <3>2, NoClientAssumption DEF RelayNoPeer, Goto, GetPeer, TypeOK, BaseInv,
         LinkInv
    <3> QED
      BY <2>1, <3>1, <3>2
  <2>3. SameSock(c)
    BY <1>1, BaseTypes, BaseTypesNext, BeatsMove DEF Relay, Kinds, SameSock
  <2>4. SameTime(c) /\ SameSelf(c) /\ bpc'[c] = bpc[c] /\ turn'[c] = turn[c]
    BY <1>1, <1>4 DEF Relay, Forget, Open, SameTime, SameSelf
  <2> QED
    BY <1>t, <1>2, <1>4, <2>2, <2>3, <2>4 DEF Step, LooksUp
<1> QED
  BY <1>3, <1>4

\* What a write of a handler to the mate does.
LEMMA SendEffect ==
    ASSUME BaseInv, BaseInv', NEW c \in Clients, RelaySend(c)
    PROVE  Step(c, Mate(c))
<1> USE MateFacts
<1> DEFINE e == Mate(c)
<1>t. TypeOK /\ TurnTypes /\ PeerInv
  BY BaseTypes DEF BaseInv
<1>1. /\ hpc[c] = "forward" /\ fwd[c] = e
      /\ UNCHANGED <<conn, bpc>> /\ hpc'[e] = hpc[e]
      /\ TakeTurn(e, "relay") /\ Frames("data")
      /\ UNCHANGED <<timeVars, peerVars>>
  BY <1>t DEF RelaySend, Forward, ForwardFails, PeerInv, TypeOK
<1>2. turn[e] # "beat" /\ turn' = [turn EXCEPT ![e] = IF bpc[e] = "send" THEN "beat" ELSE "none"]
  BY <1>1, <1>t, TurnTaken
<1> HIDE DEF e
<1>e. e \in Clients /\ e # c
  BY DEF e
<1>3. turn'[c] = turn[c] /\ turn'[e] = (IF bpc[e] = "send" THEN "beat" ELSE "none")
  BY <1>2, <1>e, <1>t DEF TurnTypes
<1>4. \A x \in Clients : SameTime(x) /\ SameSelf(x) /\ SameConn(x)
  BY <1>1 DEF timeVars, peerVars, SameTime, SameSelf, SameConn
<1>5. frozen' = frozen
  BY <1>1 DEF peerVars
<1>6. \A x \in Clients : unread'[x] = unread[x] => SameSock(x)
  BY <1>1, BaseTypes, BaseTypesNext, BeatsMove DEF Kinds, SameSock
<1>7. CASE Forward(c)
  <2>1. /\ hpc'[c] = "recv" /\ Open(e) /\ unread[e] < WireCap
        /\ unread'[e] = unread[e] + 1 /\ unread'[c] = unread[c]
    BY <1>7, <1>1, <1>e, <1>t DEF Forward, SendSucceeds, TypeOK, ClientConnTypeOK, Open
  <2>2. beats'[e] = beats[e] /\ age'[e] = age[e]
    <3>1. beats'[e] = beats[e] + 0 /\ age'[e] = age[e]
      BY <1>1, <1>e, <2>1, BaseTypes, BaseTypesNext, BeatsMove DEF Kinds
    <3>2. beats[e] \in Nat
      BY <1>e, BaseTypes, BeatsType
    <3> QED
      BY <3>1, <3>2
  <2>3. Forwards(c, e)
    BY <1>1, <1>2, <1>3, <1>4, <1>5, <1>6, <1>e, <2>1, <2>2 DEF Forwards
  <2> QED
    BY <2>3 DEF Step, e
<1>8. CASE ForwardFails(c)
  <2>1. hpc'[c] = "untrack" /\ ~Open(e) /\ UNCHANGED unread
    BY <1>8, <1>1, <1>t DEF ForwardFails, SendFails, TypeOK, Open
  <2>2. Rests(c, e) \/ LooksUp(c, e)
    BY <1>1, <1>3, <1>4, <1>5, <1>6, <1>e, <2>1 DEF Rests, LooksUp, Same
  <2> QED
    BY <2>2 DEF Step, e
<1> QED
  BY <1>7, <1>8 DEF RelaySend

\* What a heartbeat does.
LEMMA BeatEffect ==
    ASSUME BaseInv, BaseInv', NEW c \in Clients, Beat(c)
    PROVE  Step(c, Mate(c))
<1> USE MateFacts
<1> DEFINE e == Mate(c)
<1>t. TypeOK /\ TurnTypes /\ PeerInv
  BY BaseTypes DEF BaseInv
<1>1. /\ bpc[c] = "send" /\ bpc' = [bpc EXCEPT ![c] = "wait"]
      /\ UNCHANGED <<conn, hpc>>
      /\ TakeTurn(c, "beat") /\ Frames("beat")
      /\ UNCHANGED <<timeVars, peerVars>>
      /\ BestEffortSend(c)
  BY DEF Beat, HeartbeatSend, HeartbeatOnly
<1>2. /\ turn[c] # "relay"
      /\ turn' = [turn EXCEPT ![c] = IF hpc[e] = "forward" THEN "relay" ELSE "none"]
  BY <1>1, <1>t, TurnTaken
<1> HIDE DEF e
<1>e. e \in Clients /\ e # c
  BY DEF e
<1>3. /\ turn'[e] = turn[e] /\ turn'[c] = (IF hpc[e] = "forward" THEN "relay" ELSE "none")
      /\ bpc'[e] = bpc[e] /\ bpc'[c] = "wait"
  BY <1>1, <1>2, <1>e, <1>t DEF TurnTypes, TypeOK
<1>4. \A x \in Clients : SameTime(x) /\ SameSelf(x) /\ SameConn(x)
  BY <1>1 DEF timeVars, peerVars, SameTime, SameSelf, SameConn
<1>5. frozen' = frozen
  BY <1>1 DEF peerVars
<1>6. \A x \in Clients : unread'[x] = unread[x] => SameSock(x)
  BY <1>1, BaseTypes, BaseTypesNext, BeatsMove DEF Kinds, SameSock
<1>7. unread'[e] = unread[e]
  BY <1>1, <1>e, <1>t DEF BestEffortSend, SendSucceeds, SendFails, TypeOK, ClientConnTypeOK
<1>8. Open(e) => Same(e)
  BY <1>1, <1>3, <1>4, <1>6, <1>7, <1>e DEF Same, SamePc
<1>9. CASE SendSucceeds(c)
  <2>1. Open(c) /\ unread[c] < WireCap /\ unread'[c] = unread[c] + 1
    BY <1>9, <1>t DEF SendSucceeds, TypeOK, ClientConnTypeOK, Open
  <2>2. beats'[c] = beats[c] + 1 /\ age'[c] = age[c]
    BY <1>1, <2>1, BaseTypes, BaseTypesNext, BeatsMove DEF Kinds
  <2>3. Beats(c, e)
    BY <1>1, <1>2, <1>3, <1>4, <1>5, <1>8, <1>e, <2>1, <2>2 DEF Beats
  <2> QED
    BY <2>3 DEF Step, e
<1>10. CASE SendFails(c)
  <2>1. ~Open(c)
    BY <1>10 DEF SendFails, Open
  <2> QED
    BY <1>4, <1>5, <1>8, <1>e, <2>1 DEF Step, Rests, e
<1> QED
  BY <1>1, <1>9, <1>10 DEF BestEffortSend

\* What a tick does, and the end of the heartbeats.
LEMMA TickEffect ==
    ASSUME BaseInv, BaseInv', NEW c \in Clients, Tick(c) \/ BeatsEnd(c)
    PROVE  Step(c, Mate(c))
<1> USE MateFacts
<1>t. TypeOK
  BY BaseTypes
<1>1. /\ UNCHANGED <<silent, ticker, frameVars, peerVars, conn, unread, hpc>>
      /\ bpc[c] = "wait" /\ \A d \in Clients : d # c => bpc'[d] = bpc[d]
      /\ \A d \in Clients : d # c => (d \in due' <=> d \in due)
  BY <1>t DEF Tick, BeatsEnd, HeartbeatStale, HeartbeatTick, HeartbeatExit, HeartbeatOnly,
     connVars, timeVars, TypeOK
<1>2. beats' = beats
  BY <1>1, BeatsKept DEF frameVars
<1>3. \A x \in Clients : SameConn(x) /\ SameSelf(x) /\ SameSock(x)
  BY <1>1, <1>2 DEF SameConn, SameSelf, SameSock, frameVars, peerVars
<1>4. Same(Mate(c)) /\ frozen' = frozen
  BY <1>1, <1>3 DEF Same, SamePc, SameTime, frameVars, peerVars
<1>5. CASE ~Open(c)
  BY <1>3, <1>4, <1>5 DEF Step, Rests, Same
<1>6. CASE Open(c)
  <2>1. Tick(c)
    BY <1>6 DEF BeatsEnd, HeartbeatExit, BaseInv, OpenInv
  <2>2. c \in due /\ c \notin due'
    BY <2>1 DEF Tick
  <2>3. bpc'[c] = IF silent[c] > HeartbeatTimeout THEN "done" ELSE "send"
    BY <1>t, <2>1 DEF Tick, IsStale, HeartbeatStale, HeartbeatTick, HeartbeatOnly, TypeOK
  <2>4. hpc'[c] = hpc[c] /\ turn'[c] = turn[c] /\ silent'[c] = silent[c] /\ ticker'[c] = ticker[c]
    BY <1>1 DEF frameVars
  <2>5. Ticks(c, Mate(c))
    BY <1>1, <1>3, <1>4, <1>6, <2>2, <2>3, <2>4 DEF Ticks
  <2> QED
    BY <2>5 DEF Step
<1> QED
  BY <1>5, <1>6

\* What a frame from a client does.
LEMMA ReceiveEffect ==
    ASSUME BaseInv, BaseInv', NEW c \in Clients, ReceiveHeartbeat(c) \/ ReceiveData(c)
    PROVE  Step(c, Mate(c))
<1> USE MateFacts
<1>t. TypeOK /\ ClockTypes /\ PeerTypes
  BY BaseTypes
<1>1. /\ UNCHANGED <<ticker, due, frameVars, owes, frozen>>
      /\ silent' = [silent EXCEPT ![c] = 0] /\ out' = [out EXCEPT ![c] = "none"]
      /\ hpc[c] = "recv" /\ Open(c) /\ out[c] # "none"
  BY DEF ReceiveHeartbeat, ReceiveData, Receive, Goto, Open
<1>2. UNCHANGED <<conn, unread, bpc>>
  BY DEF ReceiveHeartbeat, ReceiveData, Receive, Goto, vars, connVars, handlerVars
<1>3. hpc' = [hpc EXCEPT ![c] = IF out[c] = "data" THEN "getpeer" ELSE "recv"]
  <2>1. CASE ReceiveHeartbeat(c)
    BY <1>t, <2>1 DEF ReceiveHeartbeat, vars, handlerVars, TypeOK
  <2>2. CASE ReceiveData(c)
    BY <2>2 DEF ReceiveData, Receive, Goto
  <2> QED
    BY <2>1, <2>2
<1>4. beats' = beats
  BY <1>1, <1>2, BeatsKept DEF frameVars
<1>5. Same(Mate(c))
  BY <1>1, <1>2, <1>3, <1>4, <1>t DEF Same, SameConn, SamePc, SameSock, SameTime, SameSelf,
     frameVars, ClockTypes, PeerTypes, TypeOK
<1>6. /\ hpc'[c] = (IF out[c] = "data" THEN "getpeer" ELSE "recv")
      /\ silent'[c] = 0 /\ out'[c] = "none"
  BY <1>1, <1>3, <1>t DEF ClockTypes, PeerTypes, TypeOK
<1>7. Hears(c, Mate(c))
  BY <1>1, <1>2, <1>4, <1>5, <1>6 DEF Hears, Same, SameConn, SameSock, frameVars
<1> QED
  BY <1>7 DEF Step

\* What a client does while the broker waits.
LEMMA ClientEffect ==
    ASSUME BaseInv, BaseInv', Quiet, NEW c \in Clients, ClientRuns(c)
    PROVE  Step(c, Mate(c))
<1> USE MateFacts
<1> DEFINE e == Mate(c)
<1>t. TypeOK /\ PeerTypes
  BY BaseTypes
<1>q. Calm(c, e) /\ Calm(e, c)
  BY QuietCalm
<1>e. e \in Clients /\ e # c
  BY DEF e
<1> HIDE DEF e
<1>1. CASE ClientReceives(c)
  <2>1. /\ Open(c) /\ c \notin frozen /\ owes[c] = "none"
        /\ UNCHANGED <<conn, hpc, bpc, turn, timeVars, out, frozen>>
        /\ Frames("data")
        /\ unread[c] > 0 /\ unread' = [unread EXCEPT ![c] = @ - 1]
    BY <1>1 DEF ClientReceives, ClientDrains, ClientReads, Awake, Open, handlerVars
  <2>2. unread'[c] = unread[c] - 1 /\ unread'[e] = unread[e]
    BY <1>e, <1>t, <2>1 DEF TypeOK, ClientConnTypeOK
  <2>3. SameSock(e)
    BY <1>e, <2>1, <2>2, BaseTypes, BaseTypesNext, BeatsMove DEF Kinds, SameSock
  <2>4. /\ beats'[c] = beats[c] - (IF Head(frames[c]) = "beat" THEN 1 ELSE 0)
        /\ age'[c] = IF unread'[c] = 0 THEN 0 ELSE age[c]
    BY <2>1, <2>2, BaseTypes, BaseTypesNext, BeatsMove DEF Kinds
  <2>5. PICK place \in (IF Head(frames[c]) = "data" THEN {"none"}
                        ELSE IF out[c] = "none" THEN {"first"} ELSE {"first", "second"}) :
           owes' = [owes EXCEPT ![c] = place]
    BY <1>1 DEF ClientReceives
  <2>6. owes'[c] = place /\ owes'[e] = owes[e]
    BY <1>e, <1>t, <2>5 DEF PeerTypes
  <2>7. Head(frames[c]) \in Kinds
    <3>1. unread[c] \in Nat /\ frames[c] \in [1..unread[c] -> Kinds]
      BY BaseTypes, WireCapAssumption DEF TypeOK, ClientConnTypeOK, FrameTypes
    <3>2. frames[c] \in Seq(Kinds) /\ Len(frames[c]) > 0
      BY <2>1, <3>1
    <3> QED
      BY <3>2
  <2>8. beats[c] \in Nat
    BY BaseTypes, BeatsType
  <2>9. \/ owes'[c] = "none" /\ beats'[c] = beats[c]
        \/ owes'[c] # "none" /\ beats'[c] = beats[c] - 1
    <3>1. CASE Head(frames[c]) = "beat"
      BY <2>4, <2>5, <2>6, <3>1
    <3>2. CASE Head(frames[c]) = "data"
      <4>1. beats'[c] = beats[c] - 0
        BY <2>4, <3>2
      <4> QED
        BY <2>5, <2>6, <2>8, <3>2, <4>1
    <3> QED
      BY <2>7, <3>1, <3>2 DEF Kinds
  <2>10. Same(e)
    BY <1>e, <2>1, <2>3, <2>6 DEF Same, SameConn, SamePc, SameTime, SameSelf, timeVars
  <2>11. Reads(c, e)
    BY <1>q, <2>1, <2>2, <2>4, <2>9, <2>10 DEF Reads, Same, SameConn, SamePc, SameTime, timeVars
  <2> QED
    BY <2>11 DEF Step, e
<1>2. CASE ClientAnswers(c) \/ ClientSends(c)
  <2>1. /\ Open(c) /\ c \notin frozen /\ out[c] = "none"
        /\ UNCHANGED <<conn, unread, hpc, bpc, timeVars, frameVars, frozen>>
    BY <1>2 DEF ClientAnswers, ClientSends, Awake, Open, vars, connVars, handlerVars
  <2>2. beats' = beats
    BY <2>1, BeatsKept DEF frameVars
  <2>3. /\ owes'[e] = owes[e] /\ out'[e] = out[e]
        /\ \/ owes[c] = "first" /\ owes'[c] = "none" /\ out'[c] = "beat"
           \/ owes[c] = "second" /\ owes'[c] = "first" /\ out'[c] = "data"
           \/ owes[c] = "none" /\ owes'[c] = "none" /\ out'[c] = "data"
    BY <1>2, <1>e, <1>t DEF ClientAnswers, ClientSends, PeerTypes
  <2>4. \A x \in Clients : SameConn(x) /\ SamePc(x) /\ SameSock(x) /\ SameTime(x)
    BY <2>1, <2>2 DEF SameConn, SamePc, SameSock, SameTime, timeVars, frameVars
  <2>5. Writes(c, e)
    BY <1>q, <1>e, <2>1, <2>3, <2>4 DEF Writes, Same, SameSelf
  <2> QED
    BY <2>5 DEF Step, e
<1>3. CASE Freeze(c)
  <2>1. /\ UNCHANGED <<conn, unread, hpc, bpc, timeVars, frameVars, owes, out>>
        /\ frozen' = frozen \cup {c}
    BY <1>3 DEF Freeze, vars, connVars, handlerVars
  <2>2. beats' = beats
    BY <2>1, BeatsKept DEF frameVars
  <2>3. \A x \in Clients : Same(x)
    BY <2>1, <2>2 DEF Same, SameConn, SamePc, SameSock, SameTime, SameSelf, timeVars, frameVars
  <2>4. Freezes(c, e)
    BY <1>q, <1>e, <2>1, <2>3 DEF Freezes
  <2> QED
    BY <2>4 DEF Step, e
<1> QED
  BY <1>1, <1>2, <1>3 DEF ClientRuns

\* What a unit of time does.
LEMMA AdvanceEffect ==
    ASSUME BaseInv, BaseInv', Quiet, Advance, NEW c \in Clients
    PROVE  Step(c, Mate(c))
<1> USE MateFacts
<1>t. TypeOK /\ TurnTypes /\ ClockTypes /\ FrameTypes
  BY BaseTypes
<1>q. Calm(c, Mate(c)) /\ Calm(Mate(c), c)
  BY QuietCalm
<1>1. ASSUME NEW x \in Clients
      PROVE  Ages(x)
  <2>1. UNCHANGED <<conn, unread, hpc, bpc, frames, owes, out>>
    BY DEF Advance, vars, connVars, handlerVars, peerVars
  <2>2. beats' = beats
    BY <2>1, BeatsKept
  <2>3. turn[x] = "relay" => turn'[x] = "relay"
    BY DEF Advance
  <2>4. Open(x) => silent'[x] = (IF silent[x] < SilentCap THEN silent[x] + 1 ELSE silent[x])
    BY DEF Advance, Capped, Open
  <2>5. ticker'[x] = (IF ticker[x] = 1 THEN HeartbeatInterval ELSE ticker[x] - 1)
    BY DEF Advance, NextTick
  <2>6. x \in due' <=> x \in due \/ (ticker[x] = 1 /\ bpc[x] # "done")
    BY DEF Advance
  <2>7. age'[x] = IF unread[x] = 0 THEN 0 ELSE IF age[x] < MaxLag THEN age[x] + 1 ELSE age[x]
    <3>1. unread[x] \in Nat
      BY <1>t, WireCapAssumption DEF TypeOK, ClientConnTypeOK
    <3>2. age'[x] = IF unread[x] > 0 THEN IF age[x] < MaxLag THEN age[x] + 1 ELSE age[x] ELSE 0
      BY DEF Advance, Capped
    <3> QED
      BY <3>1, <3>2
  <2>8. ~Urgent(x)
    BY DEF Advance
  <2> QED
    BY <2>1, <2>2, <2>3, <2>4, <2>5, <2>6, <2>7, <2>8 DEF Ages, SameConn, SameSelf
<1>2. frozen' = frozen
  BY DEF Advance, peerVars
<1> QED
  BY <1>1, <1>2, <1>q DEF Step, Passes

\* Every step of the timed system has one of these effects.
LEMMA StepEffect ==
    ASSUME BaseInv, [TimedNext]_timedVars
    PROVE  \E d \in Clients : Step(d, Mate(d))
<1>b. BaseInv'
  BY BaseStep
<1>1. CASE UNCHANGED timedVars
  <2>1. UNCHANGED <<conn, unread, hpc, bpc, silent, ticker, due, frames, age, turn, owes, out,
                    frozen>>
    BY <1>1 DEF timedVars, vars, connVars, handlerVars, timeVars, frameVars, peerVars
  <2>2. \A x \in Clients : Same(x)
    BY <2>1, BeatsKept DEF Same, SameConn, SamePc, SameSock, SameTime, SameSelf
  <2>3. Rests(L, Mate(L)) /\ L \in Clients
    BY <2>1, <2>2, LinkedAssumption, MateFacts DEF Rests, Same
  <2> QED
    BY <2>3 DEF Step
<1>2. CASE BrokerRuns
  <2>1. PICK c \in Clients : \/ ReceiveHeartbeat(c) \/ ReceiveData(c) \/ Relay(c) \/ RelaySend(c)
                             \/ Tick(c) \/ Beat(c) \/ BeatsEnd(c)
    BY <1>2 DEF BrokerRuns
  <2>2. CASE Relay(c)
    <3>1. \/ \/ conn[c] # "open" /\ ReceiveFails(c)
             \/ RelayGetPeer(c) \/ RelayNoPeer(c) \/ UntrackClient(c) \/ ReleaseSlot(c)
          \/ Closes(Handler(c)) \/ Closes(HeartbeatOf(c))
      BY <2>2 DEF Relay
    <3> QED
      BY <1>b, <2>2, <3>1, CloseEffect, HandlerEffect
  <2> QED
    BY <1>b, <2>1, <2>2, ReceiveEffect, SendEffect, TickEffect, BeatEffect
<1>3. CASE Quiet /\ \E c \in Clients : ClientRuns(c)
  BY <1>b, <1>3, ClientEffect
<1>4. CASE Quiet /\ Advance
  <2>1. L \in Clients
    BY LinkedAssumption
  <2> QED
    BY <1>b, <1>4, <2>1, AdvanceEffect
<1> QED
  BY <1>1, <1>2, <1>3, <1>4 DEF TimedNext

-----------------------------------------------------------------------------
(***************************************************************************)
(* What is known of a client c and its mate p.                             *)
(***************************************************************************)

\* Types, and what BaseInv says of the variables that Step is about.
Known(c, p) ==
    /\ silent[c] \in 0..SilentCap
    /\ ticker[c] \in 1..HeartbeatInterval
    /\ age[c] \in 0..MaxLag
    /\ unread[c] \in 0..WireCap
    /\ beats[c] \in 0..unread[c]
    /\ unread[c] = 0 => age[c] = 0
    /\ owes[c] \in {"none", "first", "second"}
    /\ out[c] \in {"none", "beat", "data"}
    /\ turn[c] = "beat" => bpc[c] = "send"
    /\ turn[c] = "relay" => hpc[p] = "forward"
    /\ Open(c) => /\ hpc[c] \in {"recv", "getpeer", "forward"} \/ (hpc[c] = "untrack" /\ ~Open(p))
                  /\ bpc[c] \in {"wait", "send", "done"}

\* BaseInv implies it for every client and its mate.
LEMMA KnownFacts ==
    ASSUME BaseInv, NEW c \in Clients
    PROVE  Known(c, Mate(c))
<1>1. /\ silent[c] \in 0..SilentCap /\ ticker[c] \in 1..HeartbeatInterval
      /\ age[c] \in 0..MaxLag
      /\ owes[c] \in {"none", "first", "second"} /\ out[c] \in {"none", "beat", "data"}
  BY BaseTypes DEF ClockTypes, FrameTypes, PeerTypes
<1>2. unread[c] \in 0..WireCap /\ beats[c] \in 0..unread[c]
  BY BaseTypes, BeatsType
<1>3. /\ unread[c] = 0 => age[c] = 0
      /\ turn[c] = "beat" => bpc[c] = "send"
      /\ turn[c] = "relay" => hpc[Mate(c)] = "forward"
      /\ Open(c) => /\ \/ hpc[c] \in {"recv", "getpeer", "forward"}
                       \/ hpc[c] = "untrack" /\ ~Open(Mate(c))
                    /\ bpc[c] \in {"wait", "send", "done"}
  BY DEF BaseInv, EmptyInv, TurnInv, LinkInv
<1> QED
  BY <1>1, <1>2, <1>3 DEF Known

\* The same for both clients, in a state and in the next one.
KnownAll == \A c \in Clients : Known(c, Mate(c))

\* What is known before a step.
LEMMA KnownNow == BaseInv => KnownAll
BY KnownFacts DEF KnownAll

\* What is known after it.
LEMMA KnownNext == BaseInv' => KnownAll'
BY KnownNow, PTL

=============================================================================
