----------------------------- MODULE Rendezvous -----------------------------
(***************************************************************************)
(* What the broker promises its clients, without goroutines, locks, maps   *)
(* or connections.  A connection ID is a room.  One client opens it, one   *)
(* other may enter it.  When the guest leaves, the room stays open to      *)
(* others until the host leaves too; when the host leaves, the guest is    *)
(* out as well.  Nobody is ever in two rooms, nobody who has left comes    *)
(* back, and what a client says is addressed to the one other client in    *)
(* its room at that moment.  It may arrive when one of the two has left.   *)
(*                                                                         *)
(* Module Broker implements this specification (RoomsSpec there).          *)
(***************************************************************************)
CONSTANTS
    Clients,
    IDs,        \* the rooms
    NoClient

VARIABLES
    host,       \* room -> who opened it
    guest,      \* room -> who entered it
    gone,       \* the clients that are out for ever
    saying      \* client -> to whom it is saying something, or NoClient

roomVars == <<host, guest, gone, saying>>

Init ==
    /\ host = [id \in IDs |-> NoClient]
    /\ guest = [id \in IDs |-> NoClient]
    /\ gone = {}
    /\ saying = [c \in Clients |-> NoClient]

Newcomer(c) == c \notin gone /\ \A id \in IDs : c \notin {host[id], guest[id]}

Open(id, c) ==
    /\ host[id] = NoClient
    /\ Newcomer(c)
    /\ host' = [host EXCEPT ![id] = c]
    /\ UNCHANGED <<guest, gone, saying>>

Enter(id, c) ==
    /\ host[id] # NoClient
    /\ guest[id] = NoClient
    /\ Newcomer(c)
    /\ guest' = [guest EXCEPT ![id] = c]
    /\ UNCHANGED <<host, gone, saying>>

\* A client goes without having been in a room.
TurnAway(c) ==
    /\ Newcomer(c)
    /\ gone' = gone \cup {c}
    /\ UNCHANGED <<host, guest, saying>>

GuestLeaves(id) ==
    /\ guest[id] # NoClient
    /\ gone' = gone \cup {guest[id]}
    /\ guest' = [guest EXCEPT ![id] = NoClient]
    /\ UNCHANGED <<host, saying>>

HostLeaves(id) ==
    /\ host[id] # NoClient
    /\ gone' = gone \cup ({host[id], guest[id]} \ {NoClient})
    /\ host' = [host EXCEPT ![id] = NoClient]
    /\ guest' = [guest EXCEPT ![id] = NoClient]
    /\ UNCHANGED saying

Say(id, c, d) ==
    /\ saying[c] = NoClient
    /\ <<c, d>> \in {<<host[id], guest[id]>>, <<guest[id], host[id]>>}
    /\ saying' = [saying EXCEPT ![c] = d]
    /\ UNCHANGED <<host, guest, gone>>

\* It has arrived, or is lost.
Said(c) ==
    /\ saying' = [saying EXCEPT ![c] = NoClient]
    /\ UNCHANGED <<host, guest, gone>>

Next ==
    \/ \E id \in IDs : GuestLeaves(id) \/ HostLeaves(id)
    \/ \E c \in Clients :
          \/ TurnAway(c) \/ Said(c)
          \/ \E id \in IDs : \/ Open(id, c)
                             \/ Enter(id, c)
                             \/ \E d \in Clients : Say(id, c, d)

Spec == Init /\ [][Next]_roomVars

=============================================================================
