----------------------------- MODULE ClientConn -----------------------------
(***************************************************************************)
(* One client connection at the broker (src/pkg/broker/client_conn.go):    *)
(* sending, and the Close procedure.  Close may be called by every         *)
(* goroutine of the broker that holds the ClientConn: the connection's     *)
(* handler, its heartbeat goroutine, Server.Stop, and any of these while   *)
(* it closes the peer.  A goroutine's activation of Close is its own       *)
(* program counter closePc[t] with the receiver target[t] and the local    *)
(* variable toNotify[t] (peer in the code).  The call peer.Close() at the  *)
(* end of Close is a tail call, so one activation per goroutine is enough. *)
(*                                                                         *)
(* Between two calls the router's lock is free: GetPeer and Remove inside  *)
(* Close are two steps, and everybody else may run between them.           *)
(***************************************************************************)
EXTENDS Router, Naturals

CONSTANT
    WireCap     \* frames the socket buffers to a client hold before a write
                \* to it blocks

ASSUME WireCapAssumption == WireCap \in Nat \ {0}

\* The goroutines that call Close.
Handler(c)   == <<c, "handler">>
HeartbeatOf(c) == <<c, "heartbeat">>
Stopper      == <<NoClient, "stop">>
Threads      == (Clients \X {"handler", "heartbeat"}) \cup {Stopper}

VARIABLES
    conn,       \* the broker's end of the TCP connection: "none" before
                \* Accept, "open", "reset" (the client is gone and the kernel
                \* knows), "closed" (conn.Close was called)
    unread,     \* frames written to an open connection and not yet read by
                \* the client
    once,       \* closeOnce: "new", "running" (inside Do), "done".  closeCh
                \* is closed exactly when once # "new"
    closePc,    \* where a goroutine is inside Close: "idle" when it is not
    target,     \* the ClientConn it closes
    toNotify    \* the local variable peer of Close

connVars  == <<conn, unread>>
closeVars == <<once, closePc, target, toNotify>>

ConnStates  == {"none", "open", "reset", "closed"}
ClosePhases == {"idle", "once", "getPeer", "remove", "notify"}

ClientConnTypeOK ==
    /\ conn \in [Clients -> ConnStates]
    /\ unread \in [Clients -> 0..WireCap]
    /\ once \in [Clients -> {"new", "running", "done"}]
    /\ closePc \in [Threads -> ClosePhases]
    /\ target \in [Threads -> Clients \cup {NoClient}]
    /\ toNotify \in [Threads -> Clients \cup {NoClient}]

NewClientConns ==
    /\ conn = [c \in Clients |-> "none"]
    /\ unread = [c \in Clients |-> 0]
    /\ once = [c \in Clients |-> "new"]
    /\ closePc = [t \in Threads |-> "idle"]
    /\ target = [t \in Threads |-> NoClient]
    /\ toNotify = [t \in Threads |-> NoClient]

-----------------------------------------------------------------------------
\* Sending.  Session.Send holds sendMu while it writes: a write to an open
\* connection waits for room, and fails when the connection is reset or closed.
\* There is no write deadline.

SendSucceeds(c) ==
    /\ conn[c] = "open"
    /\ unread[c] < WireCap
    /\ unread' = [unread EXCEPT ![c] = @ + 1]

SendFails(c) ==
    /\ conn[c] # "open"
    /\ UNCHANGED unread

\* A call whose error is dropped (_ = client.Send(...)).
BestEffortSend(c) == SendSucceeds(c) \/ SendFails(c)

\* conn.Close(): what the client has not read is of no consequence any more.
CloseConn(c) ==
    /\ conn' = [conn EXCEPT ![c] = "closed"]
    /\ unread' = [unread EXCEPT ![c] = 0]

-----------------------------------------------------------------------------
\* Close.

\* The call: the goroutine t enters Close of client c.
CallClose(t, c) ==
    /\ closePc' = [closePc EXCEPT ![t] = "once"]
    /\ target' = [target EXCEPT ![t] = c]
    /\ UNCHANGED <<once, toNotify>>

\* closeOnce.Do: the first caller closes closeCh and the connection and goes on;
\* a caller that finds Do running waits; one that finds it done returns, since
\* its own peer variable is nil.
CloseEnter(t) ==
    /\ closePc[t] = "once"
    /\ once[target[t]] = "new"
    /\ once' = [once EXCEPT ![target[t]] = "running"]
    /\ CloseConn(target[t])
    /\ closePc' = [closePc EXCEPT ![t] = "getPeer"]
    /\ UNCHANGED <<target, toNotify, routerVars>>

CloseAgain(t) ==
    /\ closePc[t] = "once"
    /\ once[target[t]] = "done"
    /\ closePc' = [closePc EXCEPT ![t] = "idle"]
    /\ target' = [target EXCEPT ![t] = NoClient]
    /\ UNCHANGED <<once, toNotify, connVars, routerVars>>

\* Mutant: GetPeer after Remove finds nobody.
CloseGetPeerLate(t) ==
    /\ closePc[t] = "getPeer"
    /\ toNotify' = [toNotify EXCEPT ![t] = NoClient]
    /\ closePc' = [closePc EXCEPT ![t] = "remove"]
    /\ UNCHANGED <<once, target, connVars, routerVars>>

CloseGetPeer(t) ==
    /\ closePc[t] = "getPeer"
    /\ toNotify' = [toNotify EXCEPT ![t] = GetPeer(target[t])]
    /\ closePc' = [closePc EXCEPT ![t] = "remove"]
    /\ UNCHANGED <<once, target, connVars, routerVars>>

\* Mutant: the peer is notified and closed inside Do, which goes on meanwhile.
CloseRemoveInsideOnce(t) ==
    /\ closePc[t] = "remove"
    /\ Remove(target[t])
    /\ IF toNotify[t] = NoClient
       THEN /\ once' = [once EXCEPT ![target[t]] = "done"]
            /\ closePc' = [closePc EXCEPT ![t] = "idle"]
            /\ target' = [target EXCEPT ![t] = NoClient]
       ELSE /\ closePc' = [closePc EXCEPT ![t] = "notify"]
            /\ UNCHANGED <<once, target>>
    /\ UNCHANGED <<toNotify, connVars>>

\* Router.Remove is the last statement inside Do.
CloseRemove(t) ==
    /\ closePc[t] = "remove"
    /\ Remove(target[t])
    /\ once' = [once EXCEPT ![target[t]] = "done"]
    /\ IF toNotify[t] = NoClient
       THEN /\ closePc' = [closePc EXCEPT ![t] = "idle"]
            /\ target' = [target EXCEPT ![t] = NoClient]
       ELSE /\ closePc' = [closePc EXCEPT ![t] = "notify"]
            /\ UNCHANGED target
    /\ UNCHANGED <<toNotify, connVars>>

\* Outside Do: the Disconnect message, then peer.Close().
CloseNotify(t) ==
    /\ closePc[t] = "notify"
    /\ BestEffortSend(toNotify[t])
    /\ closePc' = [closePc EXCEPT ![t] = "once"]
    /\ target' = [target EXCEPT ![t] = toNotify[t]]
    /\ toNotify' = [toNotify EXCEPT ![t] = NoClient]
    /\ UNCHANGED <<once, conn, routerVars>>

CloseStep(t) ==
    \/ CloseEnter(t)
    \/ CloseAgain(t)
    \/ CloseGetPeer(t)
    \/ CloseRemove(t)
    \/ CloseNotify(t)

-----------------------------------------------------------------------------
\* The client's end (external: another process and the network).

\* The client reads a frame.
ClientReads(c) ==
    /\ conn[c] = "open"
    /\ unread[c] > 0
    /\ unread' = [unread EXCEPT ![c] = @ - 1]
    /\ UNCHANGED <<conn, closeVars, routerVars>>

\* The client's process ends or the network fails, and the kernel notices.
ClientGone(c) ==
    /\ conn[c] = "open"
    /\ conn' = [conn EXCEPT ![c] = "reset"]
    /\ unread' = [unread EXCEPT ![c] = 0]
    /\ UNCHANGED <<closeVars, routerVars>>

\* Somebody is bound to close c: its Close has begun, or a goroutine is about to
\* call it.
Doomed(c) ==
    \/ once[c] # "new"
    \/ \E t \in Threads : \/ closePc[t] = "notify" /\ toNotify[t] = c
                          \/ closePc[t] = "once" /\ target[t] = c

=============================================================================
