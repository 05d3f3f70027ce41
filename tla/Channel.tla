------------------------------ MODULE Channel -------------------------------
(***************************************************************************)
(* What a session promises, without keys, nonces, frames or locks: a queue *)
(* in each direction, from which messages are taken in the order in which  *)
(* they were put.  A direction may jam; what was put before can still be   *)
(* taken, and nothing that is put later ever arrives.                      *)
(*                                                                         *)
(* Module Session implements this specification (ChannelSpec there).       *)
(***************************************************************************)
EXTENDS Naturals, Sequences

CONSTANTS
    Ends,
    Other(_),   \* the end opposite to an end
    Messages    \* what can be put

VARIABLES
    put,        \* end -> the messages it has put, in order
    taken,      \* end -> the messages it has taken, in order
    jams        \* end -> how many messages it had put when it jammed

channelVars == <<put, taken, jams>>

Init ==
    /\ put = [e \in Ends |-> <<>>]
    /\ taken = [e \in Ends |-> <<>>]
    /\ jams = [e \in Ends |-> {}]

Put(e, m) ==
    /\ put' = [put EXCEPT ![e] = Append(@, m)]
    /\ UNCHANGED <<taken, jams>>

Take(e) ==
    LET n == Len(taken[e])
    IN  /\ n < Len(put[Other(e)])
        /\ \A k \in jams[Other(e)] : n < k
        /\ taken' = [taken EXCEPT ![e] = Append(@, put[Other(e)][n + 1])]
        /\ UNCHANGED <<put, jams>>

Jam(e) ==
    /\ jams' = [jams EXCEPT ![e] = @ \cup {Len(put[e])}]
    /\ UNCHANGED <<put, taken>>

Next ==
    \E e \in Ends : \/ \E m \in Messages : Put(e, m)
                    \/ Take(e)
                    \/ Jam(e)

Spec == Init /\ [][Next]_channelVars

=============================================================================
