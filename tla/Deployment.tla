---------------------------- MODULE Deployment ------------------------------
(***************************************************************************)
(* One client program and the broker it uses, both as they are started     *)
(* from the command line: the reconnect loop (Reconnect) with its client,  *)
(* and the broker command (BlockList) with its filters, which is started   *)
(* again whenever it has ended.  The broker as such is the subject of      *)
(* Broker; here it is what one client sees of it: it turns a connection    *)
(* away, closes it for a wrong passphrase, refuses the ID, or lets it in.  *)
(*                                                                         *)
(* A connector needs the listener program of the other machine, a listener *)
(* an ID that nobody has.  Other programs come and go as they like.        *)
(*                                                                         *)
(* Faults are unbounded in the code's environment; MaxFaults of them       *)
(* happen here: a lost connection, a failed operation, a killed broker or  *)
(* one that stops answering or has no slot left, another program that      *)
(* takes the client's place or ends the tunnel.                            *)
(***************************************************************************)
EXTENDS Reconnect, BlockList

CONSTANTS
    Address,    \* the client's address, as the broker's RemoteAddr prints it
    MaxFaults   \* bound

ASSUME DeploymentAssumption == Address \in Texts /\ MaxFaults \in Nat

VARIABLES
    trusted, \* the client has the broker's passphrase; it does not change
    link,    \* the client's connection: "none", "pending" (not accepted yet),
             \* "refused" by a filter, "admitted", "denied" by the router, "up"
             \* (acknowledged), "dead" (closed by the broker or the network)
    room,    \* what the router has under the client's ID: nothing ("vacant"), a
             \* listener without a peer ("open", for a connector), this client
             \* ("self"), an earlier connection of it ("stale"), another program
             \* in its place ("other")
    hung,    \* the broker does not answer any more
    faults   \* how many faults may still happen

linkVars == <<trusted, link, room, hung, faults>>
systemVars == <<vars, blockVars, linkVars>>

SystemTypeOK ==
    /\ TypeOK
    /\ BlockTypeOK
    /\ trusted \in BOOLEAN
    /\ link \in {"none", "pending", "refused", "admitted", "denied", "up", "dead"}
    /\ room \in {"vacant", "open", "self", "stale", "other"}
    /\ link = "none" <=> socks = 0
    /\ link = "up" <=> room = "self"
    /\ hung \in BOOLEAN
    /\ faults \in 0..MaxFaults

SystemInit ==
    /\ Init
    /\ BlockInit
    /\ trusted \in BOOLEAN
    /\ link = "none"
    /\ room = "vacant"
    /\ hung = FALSE
    /\ faults = MaxFaults

Fault == faults > 0 /\ faults' = faults - 1

Answers == bp = "serving" /\ ~hung

-----------------------------------------------------------------------------
(* The broker.                                                             *)

BrokerStarts ==
    /\ StartBroker \/ StartupStep \/ StartupRefused
    /\ UNCHANGED <<vars, linkVars>>

\* A failed start, or a stop: all connections are closed with the process.
BrokerEnds ==
    /\ Fault
    /\ \/ DownloadFails
       \/ \E op \in {"get", "load", "geo", "bind"} : StartupFails(op)
       \/ Killed
    /\ link' = IF link = "none" THEN "none" ELSE "dead"
    /\ room' = "vacant"
    /\ UNCHANGED <<vars, trusted, hung>>

BrokerHangs ==
    /\ Fault
    /\ Answers
    /\ hung' = TRUE
    /\ UNCHANGED <<vars, blockVars, trusted, link, room>>

\* acceptLoop: the filters.
BrokerAccepts ==
    /\ link = "pending"
    /\ Answers
    /\ link' = IF Refuses(Address) THEN "refused" ELSE "admitted"
    /\ UNCHANGED <<vars, blockVars, trusted, room, hung, faults>>

\* acceptLoop: no slot of connSem is free.  The client's own earlier connection may
\* be what holds the last one.
BrokerIsFull ==
    /\ link = "pending"
    /\ Answers
    /\ ~Refuses(Address)
    /\ \/ room = "stale" /\ UNCHANGED faults
       \/ Fault
    /\ link' = "dead"
    /\ UNCHANGED <<vars, blockVars, trusted, room, hung>>

\* authenticateClient, handleClient: a wrong passphrase.
BrokerMistrusts ==
    /\ link = "admitted"
    /\ at \in {"request", "ack"}
    /\ ~trusted
    /\ Answers
    /\ link' = "dead"
    /\ UNCHANGED <<vars, blockVars, trusted, room, hung, faults>>

\* RegisterListener wants an ID that is not registered, LinkConnector one with a
\* listener that has no peer.
RouterAccepts == room = IF command = "listen" THEN "vacant" ELSE "open"

\* handleListener, handleConnector
BrokerAnswers ==
    /\ link = "admitted"
    /\ at = "ack"
    /\ trusted
    /\ Answers
    /\ IF RouterAccepts
       THEN link' = "up" /\ room' = "self"
       ELSE link' = "denied" /\ UNCHANGED room
    /\ UNCHANGED <<vars, blockVars, trusted, hung, faults>>

\* Mutant: the Close of the earlier connection leaves it in the router.
BrokerForgets ==
    /\ room = "stale"
    /\ Answers
    /\ UNCHANGED <<vars, blockVars, linkVars>>

\* The read of the earlier connection fails, or its heartbeat finds it stale: Close
\* removes it, and closes the peer, which is then not registered either.
BrokerNotices ==
    /\ room = "stale"
    /\ Answers
    /\ room' = "vacant"
    /\ UNCHANGED <<vars, blockVars, trusted, link, hung, faults>>

-----------------------------------------------------------------------------
(* Other programs, and the network.                                        *)

\* The listener program that a connector wants to reach registers.
ListenerRegisters ==
    /\ command = "connect"
    /\ room = "vacant"
    /\ Answers
    /\ room' = "open"
    /\ UNCHANGED <<vars, blockVars, trusted, link, hung, faults>>

\* Another listener registers the ID, or another connector is linked.
PlaceTaken ==
    /\ Fault
    /\ RouterAccepts
    /\ Answers
    /\ room' = "other"
    /\ UNCHANGED <<vars, blockVars, trusted, link, hung>>

\* The program at the other end of the tunnel leaves, or one in the client's place:
\* the Close of its connection removes it and closes its peer.
OthersLeave ==
    /\ room # "vacant"
    /\ Answers
    /\ IF room = "other" THEN UNCHANGED faults ELSE Fault
    /\ room' = "vacant"
    /\ link' = IF link = "up" THEN "dead" ELSE link
    /\ UNCHANGED <<vars, blockVars, trusted, hung>>

\* What the broker has once the client's connection is gone and it does not know.
Unnoticed == IF room = "self" THEN "stale" ELSE room

\* The network cuts a connection.
LinkCut ==
    /\ Fault
    /\ link \in {"pending", "admitted", "up"}
    /\ link' = "dead"
    /\ room' = Unnoticed
    /\ UNCHANGED <<vars, blockVars, trusted, hung>>

-----------------------------------------------------------------------------
(* The client.                                                             *)

ClientDials ==
    /\ bp = "serving"
    /\ Dial
    /\ link' = "pending"
    /\ UNCHANGED <<blockVars, trusted, room, hung, faults>>

ClientCannotDial ==
    /\ \/ bp # "serving" /\ UNCHANGED faults
       \/ Fault
    /\ DialFails
    /\ UNCHANGED <<blockVars, trusted, link, room, hung>>

ClientStarts ==
    /\ \/ link = "admitted" /\ Handshake
       \/ SendAuthenticate
       \/ SendRequest
       \/ link = "up" /\ ReceiveAck
       \/ ListenLocal
    /\ UNCHANGED <<blockVars, linkVars>>

\* The broker closed the connection or answered with a refusal; or the local port
\* is taken by another program, or a relayed message overtakes the RegisterAck.
ClientCannotStart ==
    /\ \/ link \in {"refused", "dead"} /\ UNCHANGED faults
       \/ at = "ack" /\ link = "denied" /\ UNCHANGED faults
       \/ at = "listen" /\ Fault
       \/ at = "ack" /\ command = "listen" /\ link = "up" /\ Fault
    /\ StartFails
    /\ link' = "none"
    /\ room' = Unnoticed
    /\ UNCHANGED <<blockVars, trusted, hung>>

ClientNoticesLoss ==
    /\ link = "dead"
    /\ ClientLost
    /\ UNCHANGED <<blockVars, linkVars>>

ClientCloses ==
    /\ ClientClosed
    /\ link' = "none"
    /\ room' = Unnoticed
    /\ UNCHANGED <<blockVars, trusted, hung, faults>>

LoopStep == LoopRuns /\ UNCHANGED <<blockVars, linkVars>>

UserCancels == Cancel /\ UNCHANGED <<blockVars, linkVars>>

-----------------------------------------------------------------------------

SystemNext ==
    \/ BrokerStarts
    \/ BrokerEnds
    \/ BrokerHangs
    \/ BrokerAccepts
    \/ BrokerIsFull
    \/ BrokerMistrusts
    \/ BrokerAnswers
    \/ BrokerNotices
    \/ ListenerRegisters
    \/ PlaceTaken
    \/ OthersLeave
    \/ LinkCut
    \/ ClientDials
    \/ ClientCannotDial
    \/ ClientStarts
    \/ ClientCannotStart
    \/ ClientNoticesLoss
    \/ ClientCloses
    \/ LoopStep
    \/ UserCancels

\* The broker is started again and works, unless it hangs; the client's program
\* runs.  A Close ends unless a hung broker keeps it from sending.  Nothing is
\* assumed of other programs: a listener need not register, nor one in the client's
\* place leave.
SystemSpec ==
    /\ SystemInit
    /\ [][SystemNext]_systemVars
    /\ WF_systemVars(BrokerStarts)
    /\ WF_systemVars(BrokerAccepts)
    /\ WF_systemVars(BrokerMistrusts)
    /\ WF_systemVars(BrokerAnswers)
    /\ WF_systemVars(BrokerNotices)
    /\ WF_systemVars(ClientDials)
    /\ WF_systemVars(ClientCannotDial)
    /\ WF_systemVars(ClientStarts)
    /\ WF_systemVars(ClientCannotStart)
    /\ WF_systemVars(ClientNoticesLoss)
    /\ WF_systemVars(~hung /\ ClientCloses)
    /\ WF_systemVars(LoopStep)

-----------------------------------------------------------------------------

\* The broker's filters (acceptLoop): only an allowed client gets past them, and
\* only a forbidden one is refused, through restarts of both programs.
BlockedNeverServed ==
    /\ link \in {"admitted", "denied", "up"} => ~Forbidden(Address)
    /\ link = "refused" => Forbidden(Address)

\* The broker command comes up with this configuration.
Startable ==
    /\ conf.ipsum => \A i \in DOMAIN conf.feed : conf.feed[i].kind # "toolong"
    /\ conf.geo => Codes(conf.countries) # {}

\* The broker would let the client in, now or once it has noticed the client's last
\* loss.
Welcome ==
    /\ Startable
    /\ ~Forbidden(Address)
    /\ trusted
    /\ room # "other"
    /\ command = "connect" => room # "vacant"

\* RunWithReconnect: after whatever finite number of faults, of restarts of the
\* broker and of refusals because of its own earlier connection, a client is
\* connected; or the retries are used up; or, with unlimited retries, it has a
\* forbidden address, a wrong passphrase or no room at the broker, where for a
\* connector a listener must have registered.  A broker that hangs, and the user,
\* may end it before.
Recovers ==
    <>[](\/ cancelled \/ hung
         \/ client = "live" /\ link = "up"
         \/ maxRetries >= 0 /\ at = "returned"
         \/ maxRetries = -1 /\ ~Welcome)

=============================================================================
