--------------------------- MODULE MCBrokerLinked ---------------------------
(***************************************************************************)
(* Broker for TLC's liveness checking: one listener and one connector that *)
(* have just been linked, both handlers waiting for a message, both        *)
(* heartbeat goroutines started.  This state is reachable from Init; from  *)
(* it everything goes on as in Broker, Stop included.                      *)
(***************************************************************************)
EXTENDS Broker

CONSTANTS L, C, I   \* the listener, the connector, their connection ID

ASSUME LinkedAssumption ==
    Clients = {L, C} /\ L # C /\ IDs = {I} /\ MaxConnections >= 2

LinkedInit ==
    /\ listeners = [id \in IDs |-> L]
    /\ peers = [c \in Clients |-> IF c = L THEN C ELSE L]
    /\ conn = [c \in Clients |-> "open"]
    /\ unread = [c \in Clients |-> 0]
    /\ once = [c \in Clients |-> "new"]
    /\ closePc = [t \in Threads |-> "idle"]
    /\ target = [t \in Threads |-> NoClient]
    /\ toNotify = [t \in Threads |-> NoClient]
    /\ hpc = [c \in Clients |-> "recv"]
    /\ bpc = [c \in Clients |-> "wait"]
    /\ role = [c \in Clients |-> IF c = L THEN "listener" ELSE "connector"]
    /\ connID = [c \in Clients |-> I]
    /\ fwd = [c \in Clients |-> NoClient]
    /\ linked = Clients
    /\ clients = Clients
    /\ slots = 2
    /\ accPc = "accept"
    /\ accConn = NoClient
    /\ spc = "running"
    /\ todo = {}

FairLinkedSpec == LinkedInit /\ [][Next]_vars /\ Fairness

=============================================================================
