------------------------------ MODULE MCTunnel ------------------------------
(***************************************************************************)
(* Tunnel for TLC: how many chunks each application writes to a stream.    *)
(***************************************************************************)
EXTENDS Tunnel

TwoFromConnector == [X \in Sides |-> IF X = "connector" THEN 2 ELSE 1]
OneFromConnector == [X \in Sides |-> IF X = "connector" THEN 1 ELSE 0]
Silent           == [X \in Sides |-> 0]

\* Bound: two chunks on a stream, both of the connector or one of each side.
TwoOnAStream == \A s \in Streams : sent["connector"][s] + sent["listener"][s] <= 2

=============================================================================
