------------------------------ MODULE MCBroker ------------------------------
(***************************************************************************)
(* Broker for TLC.  Clients are interchangeable, and so are connection     *)
(* IDs.  The instance with three clients leaves Stop out.                  *)
(***************************************************************************)
EXTENDS Broker, TLC

Symmetry == Permutations(Clients) \cup Permutations(IDs)

\* Bound of the three-client instance: the server keeps running.
ServerRuns == ~Stopping

\* Bound of the same instance: while three clients are connected, one of them has
\* not been registered or linked yet, no connection is lost, and no heartbeat is
\* being sent.
ThirdIsNew ==
    slots = 3 => /\ \E c \in Clients : hpc[c] \in EarlyPhases
                 /\ \A c \in Clients : conn[c] # "reset" /\ bpc[c] # "send"

=============================================================================
