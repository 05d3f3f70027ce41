----------------------------- MODULE Heartbeat ------------------------------
(***************************************************************************)
(* The broker's heartbeats in time (src/pkg/broker/client_conn.go,         *)
(* StartHeartbeat and UpdateLastSeen): the relaying part of Broker with    *)
(* the ticker, lastSeen, and what clients do with a heartbeat              *)
(* (handleMessages of src/pkg/tunnel/connector.go and listener.go).        *)
(*                                                                         *)
(* The goroutines of the broker take no time: clients act and time passes  *)
(* when none of them can run (Broker has the other interleavings).  A      *)
(* client that is not frozen reads: its socket is never non-empty for      *)
(* longer than MaxLag.  A frozen one neither reads nor writes any more,    *)
(* while its connection stays open.  A client answers a heartbeat from the *)
(* goroutine that reads: it reads nothing while it waits for room.  Its    *)
(* data comes from other goroutines.  sendMu of a session is handed over   *)
(* in the order of arrival, as sync.Mutex does for goroutines that have    *)
(* waited for a millisecond.                                               *)
(***************************************************************************)
EXTENDS Broker, Sequences

CONSTANTS
    HeartbeatInterval,
    HeartbeatTimeout,
    MaxLag,     \* how long a client that is not frozen leaves frames unread
    MayFreeze   \* the clients that may freeze

ASSUME HeartbeatAssumption ==
    /\ {HeartbeatInterval, HeartbeatTimeout, MaxLag} \subseteq Nat \ {0}
    /\ HeartbeatInterval + 3 * MaxLag <= HeartbeatTimeout
    /\ MaxLag <= HeartbeatInterval
    /\ WireCap * HeartbeatInterval > HeartbeatTimeout + 3 * MaxLag
    /\ MayFreeze \subseteq Clients

VARIABLES
    silent,     \* client -> time since lastSeen
    ticker,     \* client -> time until the next tick
    due,        \* the clients whose ticker.C holds a tick
    frames,     \* client -> its unread frames: "beat", "data"
    age,        \* client -> how long it has had unread frames
    turn,       \* client -> who is first in line for its sendMu: "relay" (the
                \* peer's handler), "beat", or "none"
    owes,       \* client -> the answer to a heartbeat that waits for room: "none",
                \* or its place in line for sendMu, "first" or "second"
    out,        \* client -> its frame that the broker has not read: "none",
                \* "beat", "data"
    frozen      \* the clients that are frozen

timeVars  == <<silent, ticker, due>>
frameVars == <<frames, age, turn>>
peerVars  == <<owes, out, frozen>>
timedVars == <<vars, timeVars, frameVars, peerVars>>

\* Nothing depends on longer times.
SilentCap == HeartbeatTimeout + HeartbeatInterval + 1

TimedTypeOK ==
    /\ TypeOK
    /\ silent \in [Clients -> 0..SilentCap]
    /\ ticker \in [Clients -> 1..HeartbeatInterval]
    /\ due \subseteq Clients
    /\ \A c \in Clients : frames[c] \in [1..unread[c] -> {"beat", "data"}]
    /\ age \in [Clients -> 0..MaxLag]
    /\ turn \in [Clients -> {"none", "relay", "beat"}]
    /\ owes \in [Clients -> {"none", "first", "second"}]
    /\ out \in [Clients -> {"none", "beat", "data"}]
    /\ frozen \subseteq MayFreeze

\* StartHeartbeat has just been called for every client, at different times.
ClocksStart ==
    /\ silent = [c \in Clients |-> 0]
    /\ ticker \in [Clients -> 1..HeartbeatInterval]
    /\ due = {}
    /\ frames = [c \in Clients |-> <<>>]
    /\ age = [c \in Clients |-> 0]
    /\ turn = [c \in Clients |-> "none"]
    /\ owes = [c \in Clients |-> "none"]
    /\ out = [c \in Clients |-> "none"]
    /\ frozen = {}

\* The frames change as unread does: one is written, one is read, or all are lost
\* with the connection.
Frames(kind) ==
    /\ frames' = [c \in Clients |->
          IF unread'[c] > unread[c] THEN Append(frames[c], kind)
          ELSE IF unread'[c] = 0 THEN <<>>
          ELSE IF unread'[c] < unread[c] THEN Tail(frames[c]) ELSE frames[c]]
    /\ age' = [c \in Clients |-> IF unread'[c] = 0 THEN 0 ELSE age[c]]

\* The goroutines that wait to write to client c.
Waiting(c) ==
    (IF \E p \in Clients : hpc[p] = "forward" /\ fwd[p] = c THEN {"relay"} ELSE {})
        \cup (IF bpc[c] = "send" THEN {"beat"} ELSE {})

\* The goroutine who writes to c; if the other one waits, it is next.
TakeTurn(c, who) ==
    /\ turn[c] \in {"none", who}
    /\ LET others == Waiting(c) \ {who}
       IN  turn' = [turn EXCEPT ![c] = IF others = {} THEN "none" ELSE CHOOSE w \in others : TRUE]

\* What belongs to a connection goes with it.
Forget ==
    LET Open == {c \in Clients : conn'[c] = "open"}
    IN  /\ silent' = [c \in Clients |-> IF c \in Open THEN silent[c] ELSE 0]
        /\ out' = [c \in Clients |-> IF c \in Open THEN out[c] ELSE "none"]
        /\ owes' = [c \in Clients |-> IF c \in Open THEN owes[c] ELSE "none"]

-----------------------------------------------------------------------------
(* relayMessages                                                           *)

\* Mutant: only what is relayed counts as a sign of life.
ReceiveHeartbeatUnseen(c) ==
    /\ hpc[c] = "recv"
    /\ conn[c] = "open"
    /\ out[c] = "beat"
    /\ out' = [out EXCEPT ![c] = "none"]
    /\ UNCHANGED <<vars, timeVars, frameVars, owes, frozen>>

\* UpdateLastSeen; a heartbeat is not forwarded.
ReceiveHeartbeat(c) ==
    /\ hpc[c] = "recv"
    /\ conn[c] = "open"
    /\ out[c] = "beat"
    /\ out' = [out EXCEPT ![c] = "none"]
    /\ silent' = [silent EXCEPT ![c] = 0]
    /\ UNCHANGED <<vars, ticker, due, frameVars, owes, frozen>>

ReceiveData(c) ==
    /\ out[c] = "data"
    /\ Receive(c)
    /\ out' = [out EXCEPT ![c] = "none"]
    /\ silent' = [silent EXCEPT ![c] = 0]
    /\ UNCHANGED <<ticker, due, frameVars, owes, frozen>>

\* The steps of the handlers and of Close that Broker has.
Relay(c) ==
    /\ \/ conn[c] # "open" /\ ReceiveFails(c)
       \/ RelayGetPeer(c)
       \/ RelayNoPeer(c)
       \/ UntrackClient(c)
       \/ ReleaseSlot(c)
       \/ Closes(Handler(c))
       \/ Closes(HeartbeatOf(c))
    /\ Frames("data")
    /\ UNCHANGED turn
    /\ Forget
    /\ UNCHANGED <<ticker, due, frozen>>

\* peer.Send(env)
RelaySend(c) ==
    /\ Forward(c) \/ ForwardFails(c)
    /\ TakeTurn(fwd[c], "relay")
    /\ Frames("data")
    /\ UNCHANGED <<timeVars, peerVars>>

-----------------------------------------------------------------------------
(* StartHeartbeat                                                          *)

\* Mutant: one interval too late.
IsStaleLate(c) == silent[c] > HeartbeatTimeout + HeartbeatInterval

IsStale(c) == silent[c] > HeartbeatTimeout

Tick(c) ==
    /\ c \in due
    /\ due' = due \ {c}
    /\ IF IsStale(c)
       THEN HeartbeatStale(c)
       ELSE HeartbeatTick(c)
    /\ UNCHANGED <<silent, ticker, frameVars, peerVars>>

Beat(c) ==
    /\ HeartbeatSend(c)
    /\ TakeTurn(c, "beat")
    /\ Frames("beat")
    /\ UNCHANGED <<timeVars, peerVars>>

\* select chooses among the ready channels.
BeatsEnd(c) ==
    /\ HeartbeatExit(c)
    /\ UNCHANGED <<timeVars, frameVars, peerVars>>

BrokerRuns ==
    \E c \in Clients :
        \/ ReceiveHeartbeat(c)
        \/ ReceiveData(c)
        \/ Relay(c)
        \/ RelaySend(c)
        \/ Tick(c)
        \/ Beat(c)
        \/ BeatsEnd(c)

Full(c) == conn[c] = "open" /\ unread[c] = WireCap

\* Every goroutine of the broker waits: for a frame, for a tick, for room or its
\* turn, or for somebody else's closeOnce.
Quiet ==
    \A c \in Clients :
        /\ hpc[c] = "recv" => conn[c] = "open" /\ out[c] = "none"
        /\ hpc[c] = "forward" => Full(fwd[c]) \/ turn[fwd[c]] = "beat"
        /\ hpc[c] = "untrack" => ~Returned(Handler(c)) \/ ~ClientMuFree
        /\ hpc[c] \notin {"getpeer", "release"}
        /\ bpc[c] = "wait" => c \notin due /\ once[c] = "new"
        /\ bpc[c] = "send" => Full(c) \/ turn[c] = "relay"
        /\ \A t \in {Handler(c), HeartbeatOf(c)} :
              \/ Returned(t)
              \/ closePc[t] = "once" /\ once[target[t]] = "running"
              \/ closePc[t] = "notify" /\ Full(toNotify[t])

-----------------------------------------------------------------------------
(* The clients.                                                            *)

Awake(c) == c \notin frozen /\ conn[c] = "open"

\* handleMessages: a heartbeat is to be answered before the next frame is read.
\* While the client's own socket is full, a pump may be waiting already.
ClientReceives(c) ==
    /\ Awake(c)
    /\ owes[c] = "none"
    /\ ClientDrains(c)
    /\ \E place \in IF Head(frames[c]) = "data" THEN {"none"}
                   ELSE IF out[c] = "none" THEN {"first"} ELSE {"first", "second"} :
          owes' = [owes EXCEPT ![c] = place]
    /\ Frames("data")
    /\ UNCHANGED <<timeVars, turn, out, frozen>>

ClientAnswers(c) ==
    /\ Awake(c)
    /\ owes[c] = "first"
    /\ out[c] = "none"
    /\ out' = [out EXCEPT ![c] = "beat"]
    /\ owes' = [owes EXCEPT ![c] = "none"]
    /\ UNCHANGED <<vars, timeVars, frameVars, frozen>>

\* pumpLocalToRemote
ClientSends(c) ==
    /\ Awake(c)
    /\ owes[c] # "first"
    /\ out[c] = "none"
    /\ out' = [out EXCEPT ![c] = "data"]
    /\ owes' = [owes EXCEPT ![c] = IF @ = "second" THEN "first" ELSE @]
    /\ UNCHANGED <<vars, timeVars, frameVars, frozen>>

Freeze(c) ==
    /\ c \in MayFreeze \ frozen
    /\ frozen' = frozen \cup {c}
    /\ UNCHANGED <<vars, timeVars, frameVars, owes, out>>

\* A client that is not frozen must do something now.
Urgent(c) ==
    /\ Awake(c)
    /\ IF owes[c] # "none" THEN out[c] = "none" ELSE unread[c] > 0 /\ age[c] = MaxLag

Capped(n, cap) == IF n < cap THEN n + 1 ELSE n

\* Mutant: the ticker counts down to zero, one unit too many.
NextTickLate(c) == IF ticker[c] = 0 THEN HeartbeatInterval ELSE ticker[c] - 1

NextTick(c) == IF ticker[c] = 1 THEN HeartbeatInterval ELSE ticker[c] - 1

\* One unit of time.  A ticker drops a tick that nobody has fetched.
Advance ==
    /\ \A c \in Clients : ~Urgent(c)
    /\ silent' = [c \in Clients |->
                    IF conn[c] = "open" THEN Capped(silent[c], SilentCap) ELSE 0]
    /\ ticker' = [c \in Clients |-> NextTick(c)]
    /\ due' = due \cup {c \in Clients : ticker[c] = 1 /\ bpc[c] # "done"}
    /\ age' = [c \in Clients |-> IF unread[c] > 0 THEN Capped(age[c], MaxLag) ELSE 0]
    /\ turn' \in [Clients -> {"none", "relay", "beat"}]
    /\ \A c \in Clients :
          turn'[c] \in IF turn[c] # "none" \/ Waiting(c) = {} THEN {turn[c]} ELSE Waiting(c)
    /\ UNCHANGED <<vars, frames, peerVars>>

ClientRuns(c) == ClientReceives(c) \/ ClientAnswers(c) \/ ClientSends(c) \/ Freeze(c)

TimedNext ==
    \/ BrokerRuns
    \/ Quiet /\ ((\E c \in Clients : ClientRuns(c)) \/ Advance)

-----------------------------------------------------------------------------

FoundStale(c) ==
    closePc[HeartbeatOf(c)] = "idle" /\ closePc'[HeartbeatOf(c)] # "idle"

\* Clients that answer in time are not taken for dead (StartHeartbeat in
\* client_conn.go): nobody is closed as stale while nobody is frozen, however often
\* the sockets are full.
NoFalseAlarm ==
    [][(\E c \in Clients : FoundStale(c)) => frozen # {}]_timedVars

\* A client that has been silent for longer than timeout and interval is closed
\* (StartHeartbeat in client_conn.go), except while its heartbeat goroutine is
\* itself blocked in Send, which the comment there does not foresee.  That takes
\* data that fills the socket, and a client that is frozen, or that waits for room
\* for an answer while its handler waits for room at the peer, whose socket is full.
DetectedInTime ==
    \A c \in Clients :
        conn[c] = "open" /\ silent[c] > HeartbeatTimeout + HeartbeatInterval =>
            /\ bpc[c] = "send" /\ unread[c] = WireCap
            /\ "data" \in {frames[c][i] : i \in 1..WireCap}
            /\ \/ c \in frozen
               \/ owes[c] # "none" /\ hpc[c] = "forward" /\ unread[fwd[c]] = WireCap

=============================================================================
