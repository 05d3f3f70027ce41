------------------------------- MODULE Router -------------------------------
(***************************************************************************)
(* The broker's routing table (src/pkg/broker/router.go): which client is  *)
(* registered as the listener of a connection ID, and which client is      *)
(* linked to which.  Every operation runs under Router.mu, so each one is  *)
(* a single step.  A missing map entry is the value NoClient (Go's nil).   *)
(*                                                                         *)
(* The router itself does not know what a caller may do: that a client     *)
(* registers or links once, and is removed after that, is the discipline   *)
(* of the server and of ClientConn.Close.  The properties are therefore    *)
(* stated in module Broker, where these operations are called.             *)
(***************************************************************************)
CONSTANTS
    Clients,    \* the accepted TCP connections; one ClientConn object each
    IDs,        \* the connection IDs clients ask for
    NoClient    \* nil

ASSUME NoClientAssumption == NoClient \notin Clients

VARIABLES
    listeners,  \* connection ID -> registered listener
    peers       \* client -> the client its messages are relayed to

routerVars == <<listeners, peers>>

RouterTypeOK ==
    /\ listeners \in [IDs -> Clients \cup {NoClient}]
    /\ peers \in [Clients -> Clients \cup {NoClient}]

NewRouter ==
    /\ listeners = [id \in IDs |-> NoClient]
    /\ peers = [c \in Clients |-> NoClient]

-----------------------------------------------------------------------------

\* Mutant: a later listener takes the ID over.
CanRegisterAlways(id) == TRUE

\* The ID is refused when it is taken, by whichever client.
CanRegister(id) == listeners[id] = NoClient

RegisterListener(id, c) ==
    /\ CanRegister(id)
    /\ listeners' = [listeners EXCEPT ![id] = c]
    /\ UNCHANGED peers

\* Mutant: a later connector takes the listener over.
CanLinkTaken(id) == listeners[id] # NoClient

\* A connector is refused when nobody is registered under the ID, and when
\* the listener already has a connector.
CanLink(id) ==
    /\ listeners[id] # NoClient
    /\ peers[listeners[id]] = NoClient

\* Mutant: the listener of another ID.
LinkConnectorAnyID(id, c) ==
    \E other \in IDs :
        /\ CanLink(other)
        /\ peers' = [peers EXCEPT ![listeners[other]] = c, ![c] = listeners[other]]
        /\ UNCHANGED listeners

LinkConnector(id, c) ==
    /\ CanLink(id)
    /\ peers' = [peers EXCEPT ![listeners[id]] = c, ![c] = listeners[id]]
    /\ UNCHANGED listeners

GetPeer(c) == peers[c]

\* The loop over the listeners map stops at the first entry of the client.
Unregister(c) ==
    IF \E id \in IDs : listeners[id] = c
    THEN \E id \in IDs : /\ listeners[id] = c
                         /\ listeners' = [listeners EXCEPT ![id] = NoClient]
    ELSE UNCHANGED listeners

\* Mutant: only the client's own entry.
UnlinkOneSide(c) == peers' = [peers EXCEPT ![c] = NoClient]

Unlink(c) ==
    peers' = IF peers[c] = NoClient
             THEN peers
             ELSE [peers EXCEPT ![peers[c]] = NoClient, ![c] = NoClient]

\* Mutant: the listeners map is forgotten.
RemoveLinkOnly(c) == Unlink(c) /\ UNCHANGED listeners

Remove(c) == Unregister(c) /\ Unlink(c)

=============================================================================
