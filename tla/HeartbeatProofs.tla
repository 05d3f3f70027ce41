--------------------------- MODULE HeartbeatProofs ---------------------------
(***************************************************************************)
(* Proofs about Heartbeat, for a linked pair of clients and for every      *)
(* interval, timeout and lag, and every capacity of the sockets.           *)
(*                                                                         *)
(* Time adds nothing to what the broker does: every step of the timed      *)
(* system is one of Broker or leaves it alone, so that the inductive       *)
(* invariant of BrokerProofs holds in it as well.  The types of the clocks *)
(* and of the frames in a socket are then preserved by each step.          *)
(***************************************************************************)
EXTENDS MCHeartbeat, BrokerProofs

\* The linked pair is in a state of the broker's invariant.
LEMMA LinkedIInv == LinkedInit => IInv
<1> SUFFICES ASSUME LinkedInit
             PROVE  IInv
  OBVIOUS
<1> USE NoClientAssumption, WireCapAssumption, NoIDAssumption, MaxConnectionsAssumption,
        LinkedAssumption, ThreadFacts
<1> USE DEF LinkedInit
<1>1. TypeOK
  BY DEF TypeOK, RouterTypeOK, ClientConnTypeOK, EarlyPhases, RelayPhases, LeavingPhases,
         Roles, ConnStates, ClosePhases
<1>2. SlotInv
  <2>1. Active = {L, C}
    BY DEF Active
  <2>2. IsFiniteSet({}) /\ Cardinality({}) = 0
    BY FS_EmptySet
  <2>3. IsFiniteSet({C}) /\ Cardinality({C}) = 1
    BY <2>2, FS_AddElement
  <2>4. {L, C} = {C} \cup {L} /\ L \notin {C}
    OBVIOUS
  <2>5. IsFiniteSet({L, C}) /\ Cardinality({L, C}) = 2
    BY <2>3, <2>4, FS_AddElement
  <2> QED
    BY <2>1, <2>5 DEF SlotInv
<1>3. CloseInv
  BY DEF CloseInv, OnceHolderRuns, InsideOnce
<1>4. AcceptInv /\ TrackInv /\ CallInv /\ RoleInv
  BY DEF AcceptInv, TrackInv, CallInv, RoleInv, EarlyPhases
<1>5. LinksPaired /\ NotifyInv /\ ForwardInv
  BY DEF LinksPaired, NotifyInv, ForwardInv
<1>6. RunningInv /\ NoGhosts /\ NoOrphanedListener
  BY DEF RunningInv, NoGhosts, NoOrphanedListener, Orphaned, EarlyPhases
<1> QED
  BY <1>1, <1>2, <1>3, <1>4, <1>5, <1>6 DEF IInv

\* Whoever runs: the broker's goroutines, the clients, or time.
LEMMA TimedCases ==
    ASSUME [TimedNext]_timedVars
    PROVE  \/ UNCHANGED timedVars
           \/ \E c \in Clients : \/ ReceiveHeartbeat(c) \/ ReceiveData(c) \/ Relay(c)
                                 \/ RelaySend(c) \/ Tick(c) \/ Beat(c) \/ BeatsEnd(c)
                                 \/ ClientReceives(c) \/ ClientAnswers(c) \/ ClientSends(c)
                                 \/ Freeze(c)
           \/ Advance
BY DEF TimedNext, BrokerRuns, ClientRuns

\* Every step of the timed system is a step of the broker, or leaves it alone.
LEMMA TimedStep == [TimedNext]_timedVars => [Next]_vars
<1> SUFFICES ASSUME [TimedNext]_timedVars
             PROVE  [Next]_vars
  OBVIOUS
<1>1. CASE UNCHANGED vars
  BY <1>1
<1>2. ASSUME NEW c \in Clients,
             ClientActs(c) \/ HandlerRuns(c) \/ HeartbeatRuns(c) \/ ClientDrains(c)
      PROVE  Next
  BY <1>2 DEF Next
<1>3. ASSUME NEW c \in Clients, ReceiveData(c) \/ RelaySend(c) \/ Tick(c) \/ Beat(c)
                                \/ BeatsEnd(c) \/ ClientReceives(c)
      PROVE  Next
  BY <1>2, <1>3 DEF ReceiveData, RelaySend, Tick, Beat, BeatsEnd, ClientReceives, ClientActs,
                    HandlerRuns, HeartbeatRuns
<1>4. ASSUME NEW c \in Clients, Relay(c)
      PROVE  Next
  <2>1. CASE Closes(Handler(c)) \/ Closes(HeartbeatOf(c))
    BY <2>1, ThreadFacts DEF Next
  <2> QED
    BY <1>2, <1>4, <2>1 DEF Relay, ClientActs, HandlerRuns
<1>5. UNCHANGED timedVars \/ Advance => UNCHANGED vars
  BY DEF timedVars, Advance
<1>6. ASSUME NEW c \in Clients,
             ReceiveHeartbeat(c) \/ ClientAnswers(c) \/ ClientSends(c) \/ Freeze(c)
      PROVE  UNCHANGED vars
  BY <1>6 DEF ReceiveHeartbeat, ClientAnswers, ClientSends, Freeze
<1> QED
  BY <1>1, <1>3, <1>4, <1>5, <1>6, TimedCases
-----------------------------------------------------------------------------
(***************************************************************************)
(* Types.                                                                  *)
(***************************************************************************)

\* TimedTypeOK, one part for each group of variables.
Kinds == {"beat", "data"}
ClockTypes ==
    /\ silent \in [Clients -> 0..SilentCap]
    /\ ticker \in [Clients -> 1..HeartbeatInterval]
    /\ due \subseteq Clients
FrameTypes ==
    /\ \A c \in Clients : frames[c] \in [1..unread[c] -> Kinds]
    /\ age \in [Clients -> 0..MaxLag]
TurnTypes == turn \in [Clients -> {"none", "relay", "beat"}]
PeerTypes ==
    /\ owes \in [Clients -> {"none", "first", "second"}]
    /\ out \in [Clients -> {"none", "beat", "data"}]
    /\ frozen \subseteq MayFreeze

\* TimedTypeOK is the conjunction of the parts, now and in the next state.
LEMMA TimedTypeParts ==
    /\ TimedTypeOK <=> TypeOK /\ ClockTypes /\ FrameTypes /\ TurnTypes /\ PeerTypes
    /\ TimedTypeOK' <=> TypeOK' /\ ClockTypes' /\ FrameTypes' /\ TurnTypes' /\ PeerTypes'
BY DEF TimedTypeOK, ClockTypes, FrameTypes, TurnTypes, PeerTypes, Kinds

\* What is in a socket, as a sequence of as many frames as are unread.
LEMMA SocketFacts ==
    ASSUME NEW n \in Nat, NEW f \in [1..n -> Kinds], NEW kind \in Kinds
    PROVE  /\ <<>> \in [1..0 -> Kinds]
           /\ Append(f, kind) \in [1..(n + 1) -> Kinds]
           /\ n > 0 => Tail(f) \in [1..(n - 1) -> Kinds]
<1>1. f \in Seq(Kinds) /\ Len(f) = n
  OBVIOUS
<1>2. <<>> \in [1..0 -> Kinds]
  OBVIOUS
<1>3. Append(f, kind) \in Seq(Kinds) /\ Len(Append(f, kind)) = n + 1
  BY <1>1
<1>4. n > 0 => Tail(f) \in Seq(Kinds) /\ Len(Tail(f)) = n - 1
  BY <1>1
<1>5. \A g \in Seq(Kinds) : g \in [1..Len(g) -> Kinds]
  OBVIOUS
<1> QED
  BY <1>2, <1>3, <1>4, <1>5

\* A write, a read and a close of one connection change the number of its unread
\* frames by one, or to none.
UnreadMoves ==
    \A c \in Clients : unread'[c] \in {unread[c], unread[c] + 1, unread[c] - 1, 0}

\* The steps that touch sockets move unread in this way.
LEMMA UnreadFrame ==
    ASSUME TypeOK, CloseInv, NEW c \in Clients,
           Relay(c) \/ RelaySend(c) \/ Beat(c) \/ ClientReceives(c)
    PROVE  UnreadMoves
<1> USE DEF TypeOK, ClientConnTypeOK, UnreadMoves
<1>1. ASSUME UNCHANGED connVars PROVE UnreadMoves
  BY <1>1 DEF connVars
<1>2. ASSUME NEW d, BestEffortSend(d) PROVE UnreadMoves
  BY <1>2 DEF BestEffortSend, SendSucceeds, SendFails
<1>3. ASSUME NEW d, CloseConn(d) PROVE UnreadMoves
  BY <1>3 DEF CloseConn
<1>4. ASSUME NEW t \in Threads, Closes(t) PROVE UnreadMoves
  <2> HIDE DEF UnreadMoves
  <2> QED
    BY <1>1, <1>2, <1>3, <1>4 DEF Closes, CloseStep, CloseEnter, CloseAgain, CloseGetPeer,
       CloseRemove, CloseNotify
<1>5. CASE ClientReceives(c)
  BY <1>5 DEF ClientReceives, ClientDrains, ClientReads
<1>6. CASE RelaySend(c) \/ Beat(c)
  <2> HIDE DEF UnreadMoves
  <2> QED
    BY <1>2, <1>6 DEF RelaySend, Beat, Forward, ForwardFails, HeartbeatSend, BestEffortSend
<1>7. CASE Relay(c)
  <2> HIDE DEF UnreadMoves
  <2> QED
    BY <1>1, <1>4, <1>7, ThreadFacts DEF Relay, ReceiveFails, RelayGetPeer, RelayNoPeer,
       UntrackClient, ReleaseSlot
<1> QED
  BY <1>5, <1>6, <1>7

\* The frames of a socket follow the number of unread ones.
LEMMA FramesTyped ==
    ASSUME TypeOK, TypeOK', FrameTypes, UnreadMoves, NEW kind \in Kinds, Frames(kind)
    PROVE  FrameTypes'
<1>1. ASSUME NEW c \in Clients
      PROVE  frames'[c] \in [1..unread'[c] -> Kinds]
  <2>1. unread[c] \in Nat /\ unread'[c] \in Nat /\ frames[c] \in [1..unread[c] -> Kinds]
    BY WireCapAssumption DEF TypeOK, ClientConnTypeOK, FrameTypes
  <2>2. frames'[c] = IF unread'[c] > unread[c] THEN Append(frames[c], kind)
                     ELSE IF unread'[c] = 0 THEN <<>>
                     ELSE IF unread'[c] < unread[c] THEN Tail(frames[c]) ELSE frames[c]
    BY DEF Frames
  <2>3. unread'[c] \in {unread[c], unread[c] + 1, unread[c] - 1, 0}
    BY DEF UnreadMoves
  <2>4. /\ <<>> \in [1..0 -> Kinds]
        /\ Append(frames[c], kind) \in [1..(unread[c] + 1) -> Kinds]
        /\ unread[c] > 0 => Tail(frames[c]) \in [1..(unread[c] - 1) -> Kinds]
    BY <2>1, SocketFacts
  <2>5. CASE unread'[c] > unread[c]
    <3>1. unread'[c] = unread[c] + 1
      BY <2>1, <2>3, <2>5
    <3> QED
      BY <2>2, <2>4, <2>5, <3>1
  <2>6. CASE ~(unread'[c] > unread[c]) /\ unread'[c] = 0
    BY <2>2, <2>4, <2>6
  <2>7. CASE ~(unread'[c] > unread[c]) /\ unread'[c] # 0 /\ unread'[c] < unread[c]
    <3>1. unread'[c] = unread[c] - 1 /\ unread[c] > 0
      BY <2>1, <2>3, <2>7
    <3> QED
      BY <2>2, <2>4, <2>7, <3>1
  <2>8. CASE ~(unread'[c] > unread[c]) /\ unread'[c] # 0 /\ ~(unread'[c] < unread[c])
    <3>1. unread'[c] = unread[c]
      BY <2>1, <2>8
    <3> QED
      BY <2>1, <2>2, <2>8, <3>1
  <2> QED
    BY <2>5, <2>6, <2>7, <2>8
<1>2. age' \in [Clients -> 0..MaxLag]
  BY HeartbeatAssumption DEF Frames, FrameTypes
<1> QED
  BY <1>1, <1>2 DEF FrameTypes

\* What leaves unread alone and the frames too keeps their types.
LEMMA FramesKept ==
    ASSUME FrameTypes, TurnTypes, UNCHANGED unread, UNCHANGED frameVars
    PROVE  FrameTypes' /\ TurnTypes'
BY DEF FrameTypes, TurnTypes, frameVars

\* Every step keeps the types; in particular a socket holds as many frames as the
\* broker counts, and a tick, an answer and a place in line are single.
LEMMA TimedTypeStep ==
    ASSUME IInv, TimedTypeOK, [TimedNext]_timedVars
    PROVE  TimedTypeOK'
<1> USE HeartbeatAssumption
<1>i. TypeOK /\ TypeOK' /\ CloseInv
  BY IInvStep, TimedStep DEF IInv
<1>t. ClockTypes /\ FrameTypes /\ TurnTypes /\ PeerTypes
  BY TimedTypeParts
<1> SUFFICES ClockTypes' /\ FrameTypes' /\ TurnTypes' /\ PeerTypes'
  BY <1>i, TimedTypeParts
<1>k. /\ UNCHANGED timeVars => ClockTypes'
      /\ UNCHANGED peerVars => PeerTypes'
      /\ UNCHANGED turn => TurnTypes'
  BY <1>t DEF ClockTypes, PeerTypes, TurnTypes, timeVars, peerVars
<1>u. UNCHANGED vars => UNCHANGED unread
  BY DEF vars, connVars
<1>1. CASE UNCHANGED timedVars
  BY <1>1, <1>k, <1>t, <1>u, FramesKept DEF timedVars
<1>2. ASSUME NEW c, TakeTurn(c, "relay") \/ TakeTurn(c, "beat")
      PROVE  TurnTypes'
  <2>1. Waiting(c) \subseteq {"relay", "beat"}
    BY DEF Waiting
  <2>2. ASSUME NEW others, others \subseteq {"relay", "beat"}
        PROVE  (IF others = {} THEN "none" ELSE CHOOSE w \in others : TRUE)
                   \in {"none", "relay", "beat"}
    <3>1. CASE others = {}
      BY <3>1
    <3>2. CASE others # {}
      <4>1. (CHOOSE w \in others : TRUE) \in others
        BY <3>2
      <4> QED
        BY <2>2, <3>2, <4>1
    <3> QED
      BY <3>1, <3>2
  <2>3. PICK v \in {"none", "relay", "beat"} : turn' = [turn EXCEPT ![c] = v]
    BY <1>2, <2>1, <2>2 DEF TakeTurn
  <2> QED
    BY <1>t, <2>3 DEF TurnTypes
<1>3. ASSUME NEW c \in Clients, ReceiveHeartbeat(c) \/ ReceiveData(c)
      PROVE  ClockTypes' /\ FrameTypes' /\ TurnTypes' /\ PeerTypes'
  <2>1. /\ silent' = [silent EXCEPT ![c] = 0] /\ UNCHANGED <<ticker, due>>
        /\ out' = [out EXCEPT ![c] = "none"] /\ UNCHANGED <<owes, frozen>>
        /\ UNCHANGED frameVars
    BY <1>3 DEF ReceiveHeartbeat, ReceiveData
  <2>2. UNCHANGED unread
    BY <1>3, <1>u DEF ReceiveHeartbeat, ReceiveData, Receive, connVars
  <2>3. ClockTypes'
    BY <1>t, <2>1 DEF ClockTypes, SilentCap
  <2>4. PeerTypes'
    BY <1>t, <2>1 DEF PeerTypes
  <2> QED
    BY <1>t, <2>1, <2>2, <2>3, <2>4, FramesKept
<1>4. ASSUME NEW c \in Clients, Relay(c)
      PROVE  ClockTypes' /\ FrameTypes' /\ TurnTypes' /\ PeerTypes'
  <2>1. Frames("data") /\ UNCHANGED turn /\ Forget /\ UNCHANGED <<ticker, due, frozen>>
    BY <1>4 DEF Relay
  <2>2. FrameTypes'
    BY <1>4, <1>i, <1>t, <2>1, UnreadFrame, FramesTyped DEF Kinds
  <2>3. ClockTypes'
    BY <1>t, <2>1 DEF Forget, ClockTypes, SilentCap
  <2>4. PeerTypes'
    BY <1>t, <2>1 DEF Forget, PeerTypes
  <2> QED
    BY <1>k, <2>1, <2>2, <2>3, <2>4
<1>5. ASSUME NEW c \in Clients, RelaySend(c)
      PROVE  ClockTypes' /\ FrameTypes' /\ TurnTypes' /\ PeerTypes'
  <2>1. FrameTypes'
    BY <1>5, <1>i, <1>t, UnreadFrame, FramesTyped DEF Kinds, RelaySend
  <2> QED
    BY <1>2, <1>5, <1>k, <2>1 DEF RelaySend
<1>6. ASSUME NEW c \in Clients, Tick(c)
      PROVE  ClockTypes' /\ FrameTypes' /\ TurnTypes' /\ PeerTypes'
  <2>1. UNCHANGED <<silent, ticker>> /\ due' = due \ {c} /\ UNCHANGED <<frameVars, peerVars>>
    BY <1>6 DEF Tick
  <2>2. UNCHANGED unread
    BY <1>6 DEF Tick, HeartbeatStale, HeartbeatTick, connVars
  <2>3. ClockTypes'
    BY <1>t, <2>1 DEF ClockTypes
  <2> QED
    BY <1>k, <1>t, <2>1, <2>2, <2>3, FramesKept
<1>7. ASSUME NEW c \in Clients, Beat(c)
      PROVE  ClockTypes' /\ FrameTypes' /\ TurnTypes' /\ PeerTypes'
  <2>1. FrameTypes'
    BY <1>7, <1>i, <1>t, UnreadFrame, FramesTyped DEF Kinds, Beat
  <2> QED
    BY <1>2, <1>7, <1>k, <2>1 DEF Beat
<1>8. ASSUME NEW c \in Clients, BeatsEnd(c)
      PROVE  ClockTypes' /\ FrameTypes' /\ TurnTypes' /\ PeerTypes'
  <2>1. UNCHANGED unread
    BY <1>8 DEF BeatsEnd, HeartbeatExit, connVars
  <2> QED
    BY <1>8, <1>k, <1>t, <2>1, FramesKept DEF BeatsEnd
<1>9. ASSUME NEW c \in Clients, ClientReceives(c)
      PROVE  ClockTypes' /\ FrameTypes' /\ TurnTypes' /\ PeerTypes'
  <2>1. FrameTypes'
    BY <1>9, <1>i, <1>t, UnreadFrame, FramesTyped DEF Kinds, ClientReceives
  <2>2. PICK place \in {"none", "first", "second"} : owes' = [owes EXCEPT ![c] = place]
    BY <1>9 DEF ClientReceives
  <2>3. PeerTypes'
    BY <1>9, <1>t, <2>2 DEF ClientReceives, PeerTypes
  <2> QED
    BY <1>9, <1>k, <2>1, <2>3 DEF ClientReceives
<1>10. ASSUME NEW c \in Clients, ClientAnswers(c) \/ ClientSends(c) \/ Freeze(c)
       PROVE  ClockTypes' /\ FrameTypes' /\ TurnTypes' /\ PeerTypes'
  <2>1. UNCHANGED <<vars, timeVars, frameVars>>
    BY <1>10 DEF ClientAnswers, ClientSends, Freeze
  <2>2. PeerTypes'
    BY <1>10, <1>t DEF ClientAnswers, ClientSends, Freeze, PeerTypes
  <2> QED
    BY <1>k, <1>t, <1>u, <2>1, <2>2, FramesKept
<1>11. CASE Advance
  <2>1. /\ UNCHANGED <<vars, frames, peerVars>> /\ UNCHANGED unread
        /\ TurnTypes'
    BY <1>11, <1>u DEF Advance, TurnTypes
  <2>2. \A n, cap \in Nat : n <= cap => Capped(n, cap) \in 0..cap
    BY DEF Capped
  <2>3. silent' \in [Clients -> 0..SilentCap]
    <3>1. SilentCap \in Nat
      BY DEF SilentCap
    <3>2. \A c \in Clients : silent[c] \in Nat /\ silent[c] <= SilentCap
      BY <1>t, <3>1 DEF ClockTypes
    <3>3. \A c \in Clients : Capped(silent[c], SilentCap) \in 0..SilentCap
      BY <2>2, <3>1, <3>2
    <3> QED
      BY <1>11, <3>1, <3>3 DEF Advance
  <2>4. ticker' \in [Clients -> 1..HeartbeatInterval]
    BY <1>11, <1>t DEF Advance, ClockTypes, NextTick
  <2>5. due' \subseteq Clients
    BY <1>11, <1>t DEF Advance, ClockTypes
  <2>6. age' \in [Clients -> 0..MaxLag]
    <3>1. \A c \in Clients : Capped(age[c], MaxLag) \in 0..MaxLag
      BY <1>t, <2>2 DEF FrameTypes
    <3> QED
      BY <1>11, <3>1 DEF Advance
  <2>7. FrameTypes'
    BY <1>t, <2>1, <2>6 DEF FrameTypes
  <2> QED
    BY <1>k, <2>1, <2>3, <2>4, <2>5, <2>7 DEF ClockTypes
<1> QED
  BY <1>1, <1>3, <1>4, <1>5, <1>6, <1>7, <1>8, <1>9, <1>10, <1>11, TimedCases

\* The clocks and the sockets start in their types.
LEMMA LinkedTimed == LinkedInit /\ ClocksStart => IInv /\ TimedTypeOK
<1> SUFFICES ASSUME LinkedInit, ClocksStart
             PROVE  IInv /\ TimedTypeOK
  OBVIOUS
<1>1. IInv /\ TypeOK
  BY LinkedIInv DEF IInv
<1>2. ClockTypes /\ TurnTypes /\ PeerTypes
  BY HeartbeatAssumption DEF ClocksStart, ClockTypes, TurnTypes, PeerTypes, SilentCap
<1>3. FrameTypes
  <2>1. \A c \in Clients : unread[c] = 0 /\ frames[c] = <<>>
    BY DEF LinkedInit, ClocksStart
  <2>2. <<>> \in [1..0 -> Kinds]
    OBVIOUS
  <2> QED
    BY <2>1, <2>2, HeartbeatAssumption DEF ClocksStart, FrameTypes
<1> QED
  BY <1>1, <1>2, <1>3, TimedTypeParts

\* Every variable of the timed system keeps its type: a socket holds exactly the
\* frames counted by unread, and never more than WireCap (StartHeartbeat and Send
\* in client_conn.go).
THEOREM TimedTypes == TimedSpec => []TimedTypeOK
<1>1. LinkedInit /\ ClocksStart => IInv /\ TimedTypeOK
  BY LinkedTimed
<1>2. IInv /\ TimedTypeOK /\ [TimedNext]_timedVars => IInv' /\ TimedTypeOK'
  BY IInvStep, TimedStep, TimedTypeStep
<1> QED
  BY <1>1, <1>2, PTL DEF TimedSpec

\* The timed system is a broker with a linked pair: it takes no step that Broker
\* does not have, and the router and the goroutines keep the inductive invariant of
\* the broker however late the clients are.
THEOREM TimedIsBroker == TimedSpec => LinkedInit /\ [][Next]_vars /\ []IInv
<1>1. LinkedInit => IInv
  BY LinkedIInv
<1>2. [TimedNext]_timedVars => [Next]_vars
  BY TimedStep
<1>3. IInv /\ [Next]_vars => IInv'
  BY IInvStep
<1> QED
  BY <1>1, <1>2, <1>3, PTL DEF TimedSpec

=============================================================================
