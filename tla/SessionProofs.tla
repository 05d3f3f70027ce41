--------------------------- MODULE SessionProofs ----------------------------
(***************************************************************************)
(* Proofs about Session, for any number of senders, any sizes and any      *)
(* period of the counters: keys, nonces and the order of delivery, and     *)
(* that a session implements Channel.                                      *)
(***************************************************************************)
EXTENDS Session, FiniteSetTheorems, SequenceTheorems, TLAPS

-----------------------------------------------------------------------------
(***************************************************************************)
(* The inductive invariant.                                                *)
(***************************************************************************)

\* How many frames an end has sealed: the counter, until it wraps around.
Seals(e) ==
    IF counter[e] = 0 /\ \E f \in sealed : f.from = e THEN CounterMod ELSE counter[e]

Encrypting(e) == \E g \in Senders : spc[e][g] = "encrypt"
Writing(e) == IF \E g \in Senders : spc[e][g] = "write" THEN 1 ELSE 0

\* How many frames of an end the other one has read.
ReadOf(e) == Len(accepted[e]) - Len(wire[e])

\* A sealed message that WriteFrame refuses.
Jammed(e, h) == h \in sealed /\ h.from = e /\ Oversized(h.msg)

\* An end that is ready has derived its keys from two different public keys.
HandshakeInv ==
    /\ pub["left"] # pub["right"]
    /\ \A e \in Ends :
          hs[e] = "ready" => keys[e] = DeriveDirectionalKeys(pub[e], pub[Other(e)])

\* Only the sender that holds sendMu is inside Send, with the latest message.
LockInv(e) ==
    \A g \in Senders : spc[e][g] # "idle" =>
        /\ hs[e] = "ready"
        /\ sendMu[e] = g
        /\ sending[e][g] \in Message
        /\ sending[e][g].num = calls[e]
        /\ spc[e][g] = "write" => \E f \in sealed : /\ f.from = e
                                                     /\ f.msg = sending[e][g]
                                                     /\ f.nonce = Seals(e) - 1

\* The frames of an end carry its key, and their nonces count them in the order
\* of its calls of Send.
SealInv(e) ==
    /\ Seals(e) <= calls[e]
    /\ Encrypting(e) => Seals(e) < calls[e]
    /\ \A f \in sealed : f.from = e =>
          /\ hs[e] = "ready"
          /\ f.key = keys[e].send
          /\ f.nonce < Seals(e)
          /\ f.msg.num <= calls[e]
          /\ Encrypting(e) => f.msg.num < calls[e]
          /\ f.msg.size <= MaxFrameSize
    /\ \A f, h \in sealed : f.from = e /\ h.from = e =>
          /\ f.nonce = h.nonce => f = h
          /\ f.nonce < h.nonce <=> f.msg.num < h.msg.num

\* Accepted messages are sealed ones in the order of the calls.
AcceptInv(e) ==
    /\ Len(accepted[e]) + Writing(e) <= Seals(e)
    /\ \A i \in 1..Len(accepted[e]) :
          /\ accepted[e][i].num <= calls[e]
          /\ Encrypting(e) \/ Writing(e) = 1 => accepted[e][i].num < calls[e]
    /\ \A i, j \in 1..Len(accepted[e]) : i < j => accepted[e][i].num < accepted[e][j].num

\* The frame of the i-th accepted message is the i-th sealed one exactly if no
\* nonce was spent before it on a frame that was refused.
NonceInv(e) ==
    \A i \in 1..Len(accepted[e]) : \E f \in sealed :
        /\ f.from = e
        /\ f.msg = accepted[e][i]
        /\ f.nonce >= i - 1
        /\ ~Oversized(f.msg)
        /\ f.nonce = i - 1 <=> ~\E h \in sealed : Jammed(e, h) /\ h.msg.num < f.msg.num

\* More frames are sealed than written exactly if one of them was refused, as
\* long as the connection holds.
GapInv(e) ==
    /\ \A h \in sealed : Jammed(e, h) =>
          \/ Len(accepted[e]) + Writing(e) < Seals(e)
          \/ Writing(e) = 1 /\ h.msg.num = calls[e]
    /\ ~broken /\ Len(accepted[e]) + Writing(e) < Seals(e) =>
          \E h \in sealed : Jammed(e, h)

\* The wire holds the frames of the last accepted messages, in their order.
WireInv(e) ==
    /\ Len(wire[e]) <= Len(accepted[e])
    /\ \A i \in 1..Len(wire[e]) :
          /\ wire[e][i] \in sealed
          /\ wire[e][i].from = e
          /\ wire[e][i].msg = accepted[e][ReadOf(e) + i]

\* Receive counts what it reads, and has returned all of it, unless a nonce was
\* spent in between.
ReceiveInv(e) ==
    /\ expected[Other(e)] = IF ReadOf(e) = CounterMod THEN 0 ELSE ReadOf(e)
    /\ Len(delivered[Other(e)]) <= ReadOf(e)
    /\ \A i \in 1..Len(delivered[Other(e)]) : delivered[Other(e)][i] = accepted[e][i]
    /\ ~rejected[Other(e)] => Len(delivered[Other(e)]) = ReadOf(e)
    /\ rejected[Other(e)] =>
          /\ ReadOf(e) > 0
          /\ \E h \in sealed : Jammed(e, h) /\ h.msg.num < accepted[e][ReadOf(e)].num

DirectionInv(e) ==
    /\ LockInv(e)
    /\ SealInv(e)
    /\ AcceptInv(e)
    /\ NonceInv(e)
    /\ GapInv(e)
    /\ WireInv(e)
    /\ ReceiveInv(e)

IInv ==
    /\ Types
    /\ HandshakeInv
    /\ \A e \in Ends : DirectionInv(e)

-----------------------------------------------------------------------------
(***************************************************************************)
(* Ends, keys and frames.                                                  *)
(***************************************************************************)

\* There are two ends, and each is opposite to the other.
LEMMA EndFacts ==
    \A e \in Ends : /\ Other(e) \in Ends
                    /\ Other(e) # e
                    /\ Other(Other(e)) = e
                    /\ \A d \in Ends : d # e => d = Other(e)
BY DEF Ends, Other

\* What DeriveDirectionalKeys returns for two different public keys: two keys, of
\* which the other end has the same, with the directions exchanged.
LEMMA DerivedKeys ==
    ASSUME NEW a \in PublicKeys, NEW b \in PublicKeys, a # b,
           NEW k, k = DeriveDirectionalKeys(a, b),
           NEW l, l = DeriveDirectionalKeys(b, a)
    PROVE  /\ k \in [send : Keys, recv : Keys]
           /\ k.send = l.recv
           /\ k.send # k.recv
           /\ k.send # l.send
<1>1. a \in Nat /\ b \in Nat /\ (a < b \/ b < a)
  BY KeysAssumption
<1> DEFINE c2s(x, y) == <<x, y, "client to server">>
           s2c(x, y) == <<x, y, "server to client">>
<1>2. \A x, y \in PublicKeys : x < y =>
          /\ DeriveDirectionalKeys(x, y) = [send |-> c2s(x, y), recv |-> s2c(x, y)]
          /\ DeriveDirectionalKeys(y, x) = [send |-> s2c(x, y), recv |-> c2s(x, y)]
  <2> SUFFICES ASSUME NEW x \in PublicKeys, NEW y \in PublicKeys, x < y
               PROVE  /\ DeriveDirectionalKeys(x, y) = [send |-> c2s(x, y), recv |-> s2c(x, y)]
                      /\ DeriveDirectionalKeys(y, x) = [send |-> s2c(x, y), recv |-> c2s(x, y)]
    OBVIOUS
  <2>1. ~(y < x)
    BY KeysAssumption
  <2> QED
    BY <2>1, Zenon DEF DeriveDirectionalKeys
<1>3. \A x, y \in PublicKeys : /\ c2s(x, y) \in Keys
                               /\ s2c(x, y) \in Keys
                               /\ c2s(x, y) # s2c(x, y)
  BY DEF Keys
<1> HIDE DEF c2s, s2c
<1>4. CASE a < b
  BY <1>2, <1>3, <1>4
<1>5. CASE b < a
  BY <1>2, <1>3, <1>5
<1> QED
  BY <1>1, <1>4, <1>5

\* The invariant holds in the initial states.
LEMMA InitInv == Init => IInv
<1> SUFFICES ASSUME Init PROVE IInv
  OBVIOUS
<1>1. Types
  <2>1. 0 \in 0..(CounterMod - 1) /\ \A e \in Ends : 0 <= MaxSends[e]
    BY CounterAssumption
  <2>2. \A S : <<>> \in Seq(S)
    OBVIOUS
  <2> QED
    BY <2>1, <2>2 DEF Init, Types
<1>2. HandshakeInv
  BY DEF Init, HandshakeInv, Ends
<1>3. ASSUME NEW e \in Ends PROVE DirectionInv(e)
  <2>1. Seals(e) = 0 /\ ~Encrypting(e) /\ Writing(e) = 0 /\ ReadOf(e) = 0
    BY <1>3 DEF Init, Seals, Encrypting, Writing, ReadOf
  <2>2. LockInv(e) /\ SealInv(e) /\ AcceptInv(e) /\ NonceInv(e) /\ GapInv(e) /\ WireInv(e)
    BY <1>1, <1>3, <2>1 DEF Init, Types, LockInv, SealInv, AcceptInv, NonceInv, GapInv, WireInv
  <2>3. ReceiveInv(e)
    BY <1>3, <2>1, EndFacts, CounterAssumption DEF Init, ReceiveInv
  <2> QED
    BY <2>2, <2>3 DEF DirectionInv
<1> QED
  BY <1>1, <1>2, <1>3 DEF IInv

\* A step that leaves the variables of a direction alone, and seals nothing in it,
\* keeps its invariant.
Unaffected(e) ==
    /\ hs[e] = "ready" => hs'[e] = "ready" /\ keys'[e] = keys[e]
    /\ broken => broken'
    /\ spc'[e] = spc[e]
    /\ sending'[e] = sending[e]
    /\ sendMu'[e] = sendMu[e]
    /\ counter'[e] = counter[e]
    /\ calls'[e] = calls[e]
    /\ accepted'[e] = accepted[e]
    /\ wire'[e] = wire[e]
    /\ expected'[Other(e)] = expected[Other(e)]
    /\ delivered'[Other(e)] = delivered[Other(e)]
    /\ rejected'[Other(e)] = rejected[Other(e)]
    /\ \A f \in sealed : f \in sealed'
    /\ \A f \in sealed' : f.from = e => f \in sealed

\* A direction that a step does not touch keeps its invariant, also if the connection
\* is lost.
LEMMA Frame_Direction ==
    ASSUME NEW e \in Ends, DirectionInv(e), broken \in BOOLEAN, broken' \in BOOLEAN, Unaffected(e)
    PROVE  DirectionInv(e)'
<1>1. /\ Seals(e)' = Seals(e)
      /\ Encrypting(e)' = Encrypting(e)
      /\ Writing(e)' = Writing(e)
      /\ ReadOf(e)' = ReadOf(e)
  BY DEF Unaffected, Seals, Encrypting, Writing, ReadOf
<1>2. \A h : Jammed(e, h)' <=> Jammed(e, h)
  BY DEF Unaffected, Jammed, Oversized
<1>3. LockInv(e)'
  BY <1>1 DEF DirectionInv, LockInv, Unaffected
<1>4. SealInv(e)'
  BY <1>1 DEF DirectionInv, SealInv, Unaffected
<1>5. AcceptInv(e)'
  BY <1>1 DEF DirectionInv, AcceptInv, Unaffected
<1>6. NonceInv(e)'
  <2> SUFFICES ASSUME NEW i \in 1..Len(accepted[e])
               PROVE  \E f \in sealed' :
                          /\ f.from = e
                          /\ f.msg = accepted[e][i]
                          /\ f.nonce >= i - 1
                          /\ ~Oversized(f.msg)
                          /\ f.nonce = i - 1 <=> ~\E h \in sealed' : Jammed(e, h)' /\ h.msg.num < f.msg.num
    BY DEF NonceInv, Unaffected, Oversized
  <2>1. PICK f \in sealed :
            /\ f.from = e
            /\ f.msg = accepted[e][i]
            /\ f.nonce >= i - 1
            /\ ~Oversized(f.msg)
            /\ f.nonce = i - 1 <=> ~\E h \in sealed : Jammed(e, h) /\ h.msg.num < f.msg.num
    BY DEF DirectionInv, NonceInv
  <2>2. (\E h \in sealed' : Jammed(e, h)' /\ h.msg.num < f.msg.num)
            <=> \E h \in sealed : Jammed(e, h) /\ h.msg.num < f.msg.num
    BY <1>2 DEF Unaffected, Jammed
  <2> QED
    BY <2>1, <2>2 DEF Unaffected
<1>7. GapInv(e)'
  <2>1. (\E h \in sealed' : Jammed(e, h)') <=> \E h \in sealed : Jammed(e, h)
    BY <1>2 DEF Unaffected, Jammed
  <2> QED
    BY <1>1, <1>2, <2>1 DEF DirectionInv, GapInv, Unaffected, Jammed
<1>8. WireInv(e)'
  BY <1>1 DEF DirectionInv, WireInv, Unaffected
<1>9. ReceiveInv(e)'
  BY <1>1, <1>2 DEF DirectionInv, ReceiveInv, Unaffected
<1> QED
  BY <1>3, <1>4, <1>5, <1>6, <1>7, <1>8, <1>9 DEF DirectionInv

-----------------------------------------------------------------------------
(***************************************************************************)
(* Facts the steps share.                                                  *)
(***************************************************************************)

\* The counter of AEAD, without the modulus.
LEMMA CounterStep ==
    ASSUME NEW n \in 0..(CounterMod - 1)
    PROVE  NextCounter(n) = IF n + 1 = CounterMod THEN 0 ELSE n + 1
BY CounterAssumption DEF NextCounter

\* An end that is ready has two keys, which are those of the other end, if that is
\* ready too, the other way round.
LEMMA ReadyKeys ==
    ASSUME Types, HandshakeInv, NEW e \in Ends, hs[e] = "ready"
    PROVE  /\ keys[e] \in [send : Keys, recv : Keys]
           /\ keys[e].send # keys[e].recv
           /\ hs[Other(e)] = "ready" => /\ keys[e].send = keys[Other(e)].recv
                                        /\ keys[e].send # keys[Other(e)].send
<1>1. /\ pub[e] \in PublicKeys
      /\ pub[Other(e)] \in PublicKeys
      /\ pub[e] # pub[Other(e)]
      /\ Other(Other(e)) = e
      /\ Other(e) \in Ends
  BY EndFacts DEF Types, HandshakeInv, Ends
<1>2. keys[e] = DeriveDirectionalKeys(pub[e], pub[Other(e)])
  BY DEF HandshakeInv
<1>3. hs[Other(e)] = "ready" => keys[Other(e)] = DeriveDirectionalKeys(pub[Other(e)], pub[e])
  BY <1>1 DEF HandshakeInv
<1> QED
  BY <1>1, <1>2, <1>3, DerivedKeys

\* One sender at a time is inside Send.
LEMMA OneSender ==
    ASSUME NEW e \in Ends, NEW g \in Senders, LockInv(e), spc[e][g] # "idle"
    PROVE  \A k \in Senders : k # g => spc[e][k] = "idle"
BY DEF LockInv

\* The goroutine in Send decides whether its end is sealing or writing.
LEMMA Holder ==
    ASSUME Types, NEW e \in Ends, NEW g \in Senders, LockInv(e), spc[e][g] # "idle"
    PROVE  /\ Encrypting(e) <=> spc[e][g] = "encrypt"
           /\ Writing(e) = IF spc[e][g] = "write" THEN 1 ELSE 0
<1>1. \A k \in Senders : k # g => spc[e][k] = "idle"
  BY OneSender
<1>2. Encrypting(e) <=> spc[e][g] = "encrypt"
  BY <1>1 DEF Encrypting
<1>3. (\E k \in Senders : spc[e][k] = "write") <=> spc[e][g] = "write"
  BY <1>1
<1> QED
  BY <1>2, <1>3 DEF Writing

\* When the sender that is inside Send returns, nobody is.
LEMMA AllIdle ==
    ASSUME Types, NEW e \in Ends, NEW g \in Senders, LockInv(e), spc[e][g] # "idle",
           SendReturns(e, g)
    PROVE  /\ \A k \in Senders : spc'[e][k] = "idle"
           /\ ~Encrypting(e)'
           /\ Writing(e)' = 0
<1>1. \A k \in Senders : spc'[e][k] = "idle"
  BY OneSender DEF SendReturns, Types
<1> QED
  BY <1>1 DEF Encrypting, Writing

\* The numbers of the invariant.
LEMMA Numbers ==
    ASSUME Types, NEW e \in Ends
    PROVE  /\ Seals(e) \in 0..CounterMod
           /\ calls[e] \in 0..MaxSends[e]
           /\ MaxSends[e] \in 0..CounterMod
           /\ Writing(e) \in 0..1
           /\ Len(accepted[e]) \in Nat
           /\ Len(wire[e]) \in Nat
           /\ Len(delivered[e]) \in Nat
<1>1. Seals(e) \in 0..CounterMod
  BY CounterAssumption DEF Types, Seals
<1>2. Writing(e) \in 0..1
  BY DEF Writing
<1> QED
  BY <1>1, <1>2, CounterAssumption DEF Types

\* The sealed frames of an end, and their fields.
LEMMA FrameFields ==
    ASSUME Types, NEW f \in sealed
    PROVE  /\ f.from \in Ends
           /\ f.nonce \in 0..(CounterMod - 1)
           /\ f.msg \in Message
           /\ f.msg.num \in Nat
           /\ f.msg.size \in Nat
BY SizesAssumption DEF Types, Frame, Message

\* The accepted messages of an end, and their fields.
LEMMA MessageFields ==
    ASSUME Types, NEW e \in Ends, NEW i \in 1..Len(accepted[e])
    PROVE  /\ accepted[e][i] \in Message
           /\ accepted[e][i].num \in Nat
<1>1. accepted[e] \in Seq(Message)
  BY DEF Types
<1>2. accepted[e][i] \in Message
  BY <1>1
<1> QED
  BY <1>2 DEF Message

-----------------------------------------------------------------------------
(***************************************************************************)
(* The handshake, and the loss of the connection.                          *)
(***************************************************************************)

\* PerformHandshake spends no nonce, and keys are fixed before the first Send.
LEMMA HandshakeStep ==
    ASSUME IInv, NEW e \in Ends, HandshakeRuns(e)
    PROVE  IInv'
<1>1. UNCHANGED <<buffered, broken, pub, sendVars, receiveVars, wire, sealed>>
  BY DEF HandshakeRuns, HandshakeStarts, HelloWritten, HelloFails, HandshakeReads,
         HandshakeReadFails, HandshakeJoins
<1>2. \A d \in Ends : hs[d] = "ready" => hs'[d] = "ready" /\ keys'[d] = keys[d]
  BY DEF IInv, Types, HandshakeRuns, HandshakeStarts, HelloWritten, HelloFails, HandshakeReads,
         HandshakeReadFails, HandshakeJoins
<1>3. \A d \in Ends : hs'[d] = "ready" /\ hs[d] # "ready" =>
          keys'[d] = DeriveDirectionalKeys(pub[d], pub[Other(d)])
  BY DEF IInv, Types, HandshakeRuns, HandshakeStarts, HelloWritten, HelloFails, HandshakeReads,
         HandshakeReadFails, HandshakeJoins
<1>4. HandshakeInv'
  BY <1>1, <1>2, <1>3 DEF IInv, HandshakeInv
<1>5. Types'
  <2>0. Other(e) \in Ends /\ Types
    BY EndFacts DEF IInv
  <2>1. /\ hs' \in [Ends -> {"new", "reading", "joining", "ready", "failed"}]
        /\ hello' \in [Ends -> {"none", "writing", "written", "failed"}]
    <3>1. CASE HandshakeStarts(e) \/ HelloWritten(e) \/ HelloFails(e)
      BY <2>0, <3>1 DEF Types, HandshakeStarts, HelloWritten, HelloFails
    <3>2. CASE HandshakeReads(e)
      BY <2>0, <3>2 DEF Types, HandshakeReads
    <3>3. CASE HandshakeReadFails(e) \/ HandshakeJoins(e)
      BY <2>0, <3>3 DEF Types, HandshakeReadFails, HandshakeJoins
    <3> QED
      BY <3>1, <3>2, <3>3 DEF HandshakeRuns
  <2>2. DeriveDirectionalKeys(pub[e], pub[Other(e)]) \in [send : Keys, recv : Keys]
    <3>1. pub[e] \in PublicKeys /\ pub[Other(e)] \in PublicKeys /\ pub[e] # pub[Other(e)]
      BY EndFacts DEF IInv, Types, HandshakeInv, Ends
    <3> QED
      BY <3>1, DerivedKeys
  <2>3. keys' \in [Ends -> {NoKeys} \cup [send : Keys, recv : Keys]]
    BY <2>2, ZenonT(60) DEF IInv, Types, HandshakeRuns, HandshakeStarts, HelloWritten, HelloFails,
                HandshakeReads, HandshakeReadFails, HandshakeJoins
  <2> QED
    BY <1>1, <2>1, <2>3 DEF IInv, Types, sendVars, receiveVars
<1>6. ASSUME NEW d \in Ends PROVE DirectionInv(d)'
  <2>1. Unaffected(d)
    BY <1>1, <1>2 DEF Unaffected, sendVars, receiveVars
  <2> QED
    BY <2>1, <1>5, Frame_Direction DEF IInv, Types
<1> QED
  BY <1>4, <1>5, <1>6 DEF IInv

\* The loss of the connection touches neither counters nor frames.
LEMMA LossStep ==
    ASSUME IInv, ConnectionLost \/ UNCHANGED vars
    PROVE  IInv'
<1>1. UNCHANGED <<buffered, handshakeVars, sendVars, receiveVars, wire, sealed>>
  BY DEF ConnectionLost, vars
<1>2. broken' \in BOOLEAN /\ (broken => broken')
  BY DEF IInv, Types, ConnectionLost, vars
<1>3. Types' /\ HandshakeInv'
  BY <1>1, <1>2 DEF IInv, Types, HandshakeInv, handshakeVars, sendVars, receiveVars
<1>4. ASSUME NEW d \in Ends PROVE DirectionInv(d)'
  <2>1. Unaffected(d)
    BY <1>1, <1>2 DEF Unaffected, handshakeVars, sendVars, receiveVars
  <2> QED
    BY <2>1, <1>3, Frame_Direction DEF IInv, Types
<1> QED
  BY <1>3, <1>4 DEF IInv

-----------------------------------------------------------------------------
(***************************************************************************)
(* Send.                                                                   *)
(***************************************************************************)

\* Taking sendMu: the message gets the number of the call.
LEMMA SendLockStep ==
    ASSUME IInv, NEW e \in Ends, NEW g \in Senders, NEW size \in Sizes, SendLock(e, g, size)
    PROVE  IInv'
<1> USE DEF IInv
<1>1. Types'
  <2>1. [num |-> calls'[e], size |-> size] \in Message
    BY Numbers, SMTT(30) DEF Types, SendLock, Message
  <2>2. calls' \in [Ends -> Nat] /\ \A d \in Ends : calls'[d] <= MaxSends[d]
    <3>1. calls[e] \in Nat /\ MaxSends[e] \in Nat /\ calls[e] + 1 <= MaxSends[e]
      BY Numbers DEF SendLock
    <3> QED
      BY <3>1, SMTT(30) DEF Types, SendLock
  <2>3. /\ sending' \in [Ends -> [Senders -> {NoMessage} \cup Message]]
        /\ spc' \in [Ends -> [Senders -> {"idle", "encrypt", "write"}]]
        /\ sendMu' \in [Ends -> Senders \cup {NoSender}]
    BY <2>1 DEF Types, SendLock
  <2> QED
    BY <2>2, <2>3 DEF Types, SendLock, handshakeVars, receiveVars
<1>2. HandshakeInv'
  BY DEF HandshakeInv, SendLock, handshakeVars
<1>3. ASSUME NEW d \in Ends, d # e PROVE DirectionInv(d)'
  <2>1. Unaffected(d)
    BY <1>3 DEF Types, Unaffected, SendLock, handshakeVars, receiveVars
  <2> QED
    BY <1>1, <2>1, Frame_Direction DEF Types
<1>4. DirectionInv(e)'
  <2>1. \A k \in Senders : spc[e][k] = "idle"
    BY SendersAssumption DEF DirectionInv, LockInv, SendLock
  <2>2. ~Encrypting(e) /\ Writing(e) = 0
    BY <2>1 DEF Encrypting, Writing
  <2>3. /\ spc'[e][g] = "encrypt"
        /\ \A k \in Senders : k # g => spc'[e][k] = "idle"
    BY <2>1 DEF SendLock, Types
  <2>4. Encrypting(e)' /\ Writing(e)' = 0
    BY <2>3 DEF Encrypting, Writing
  <2>5. Seals(e)' = Seals(e) /\ ReadOf(e)' = ReadOf(e)
    BY DEF Seals, ReadOf, SendLock
  <2>6. \A h : Jammed(e, h)' <=> Jammed(e, h)
    BY DEF Jammed, Oversized, SendLock
  <2>7. /\ UNCHANGED <<broken, hs, keys, accepted, wire, expected, delivered, rejected, sealed>>
        /\ calls'[e] = calls[e] + 1
        /\ sendMu'[e] = g
        /\ sending'[e][g] = [num |-> calls'[e], size |-> size]
        /\ sending'[e][g] \in Message
        /\ hs[e] = "ready"
    <3>1. [num |-> calls'[e], size |-> size] \in Message
      BY Numbers, SMTT(30) DEF Types, SendLock, Message
    <3>2. calls' = [calls EXCEPT ![e] = @ + 1] /\ e \in DOMAIN calls
      BY DEF SendLock, Types
    <3> QED
      BY <3>1, <3>2 DEF SendLock, Types, handshakeVars, receiveVars
  <2>8. Seals(e) \in Nat /\ calls[e] \in Nat
    BY Numbers
  <2>9. LockInv(e)'
    BY <2>3, <2>7 DEF LockInv
  <2>10. SealInv(e)'
    BY <2>2, <2>4, <2>5, <2>7, <2>8, FrameFields DEF DirectionInv, SealInv
  <2>11. AcceptInv(e)'
    BY <2>2, <2>4, <2>5, <2>7, <2>8, MessageFields DEF DirectionInv, AcceptInv
  <2>12. NonceInv(e)'
    BY <2>6, <2>7, SMTT(30) DEF DirectionInv, NonceInv, Oversized
  <2>13. GapInv(e)'
    BY <2>2, <2>4, <2>5, <2>6, <2>7 DEF DirectionInv, GapInv
  <2>14. WireInv(e)'
    BY <2>5, <2>7 DEF DirectionInv, WireInv
  <2>15. ReceiveInv(e)'
    BY <2>5, <2>6, <2>7 DEF DirectionInv, ReceiveInv
  <2> QED
    BY <2>9, <2>10, <2>11, <2>12, <2>13, <2>14, <2>15 DEF DirectionInv
<1> QED
  BY <1>1, <1>2, <1>3, <1>4

\* Encrypt: the nonce is the number of frames sealed so far.
LEMMA EncryptStep ==
    ASSUME IInv, NEW e \in Ends, NEW g \in Senders, Encrypt(e, g)
    PROVE  IInv'
<1> USE DEF IInv
<1> DEFINE new == SealedFrame(e, g)
<1>1. /\ spc[e][g] = "encrypt"
      /\ hs[e] = "ready"
      /\ sending[e][g] \in Message
      /\ sending[e][g].num = calls[e]
      /\ sending[e][g].size <= MaxFrameSize
      /\ Encrypting(e)
      /\ Writing(e) = 0
      /\ sealed' = sealed \cup {new}
      /\ counter' = [counter EXCEPT ![e] = NextCounter(@)]
      /\ UNCHANGED <<buffered, broken, handshakeVars, sending, sendMu, calls, accepted,
                     receiveVars, wire>>
  BY Holder DEF DirectionInv, LockInv, Encrypt
<1>2. Seals(e) < calls[e] /\ calls[e] <= CounterMod /\ calls[e] \in Nat /\ Seals(e) \in Nat
  BY <1>1, Numbers, CounterAssumption DEF DirectionInv, SealInv
<1>3. counter[e] = Seals(e) /\ counter[e] \in 0..(CounterMod - 1)
  BY <1>2, CounterAssumption DEF Seals, Types
<1>4. /\ new.from = e
      /\ new.key = keys[e].send
      /\ new.nonce = Seals(e)
      /\ new.msg = sending[e][g]
      /\ new \in Frame
  <2>1. keys[e].send \in Keys
    BY <1>1, ReadyKeys
  <2> QED
    BY <1>1, <1>3, <2>1 DEF SealedFrame, Frame
<1> HIDE DEF new
<1>5. /\ spc'[e][g] = "write"
      /\ \A k \in Senders : k # g => spc'[e][k] = "idle"
      /\ spc' \in [Ends -> [Senders -> {"idle", "encrypt", "write"}]]
  BY <1>1, OneSender DEF Encrypt, Types, DirectionInv
<1>6. ~Encrypting(e)' /\ Writing(e)' = 1
  BY <1>5 DEF Encrypting, Writing
<1>7. counter' \in [Ends -> 0..(CounterMod - 1)] /\ Seals(e)' = Seals(e) + 1
  <2>1. counter'[e] = IF counter[e] + 1 = CounterMod THEN 0 ELSE counter[e] + 1
    BY <1>1, <1>3, CounterStep DEF Types
  <2>2. counter' \in [Ends -> 0..(CounterMod - 1)]
    <3>1. NextCounter(counter[e]) \in 0..(CounterMod - 1)
      BY <1>3, CounterStep, CounterAssumption
    <3> QED
      BY <1>1, <3>1 DEF Types
  <2>3. \E f \in sealed' : f.from = e
    BY <1>1, <1>4
  <2> QED
    BY <1>3, <2>1, <2>2, <2>3, CounterAssumption DEF Seals
<1>8. Types'
  BY <1>1, <1>4, <1>5, <1>7 DEF Types, handshakeVars, receiveVars
<1>9. HandshakeInv'
  BY <1>1 DEF HandshakeInv, handshakeVars
<1>10. ASSUME NEW d \in Ends, d # e PROVE DirectionInv(d)'
  <2>1. Unaffected(d)
    BY <1>1, <1>4, <1>10 DEF Types, Unaffected, Encrypt, handshakeVars, receiveVars
  <2> QED
    BY <1>8, <2>1, Frame_Direction DEF Types
<1>11. DirectionInv(e)'
  <2> USE DEF DirectionInv
  <2>1. \A h : Jammed(e, h)' <=> Jammed(e, h) \/ (h = new /\ Oversized(new.msg))
    BY <1>1, <1>4 DEF Jammed, Oversized
  <2>2. ReadOf(e)' = ReadOf(e)
    BY <1>1 DEF ReadOf
  <2>3. UNCHANGED <<broken, hs, keys, sending, sendMu, calls, accepted, expected, delivered,
                    rejected, wire>>
    BY <1>1 DEF handshakeVars, receiveVars
  <2>4. LockInv(e)'
    <3>1. new.nonce = Seals(e)' - 1 /\ new \in sealed'
      BY <1>1, <1>2, <1>4, <1>7
    <3> QED
      BY <1>1, <1>4, <1>5, <2>3, <3>1 DEF LockInv
  <2>5. SealInv(e)'
    <3>1. \A f \in sealed : f.from = e => f.nonce < new.nonce /\ f.msg.num < new.msg.num
      BY <1>1, <1>4 DEF SealInv
    <3>2. new.nonce \in Nat /\ new.msg.num \in Nat
      BY <1>1, <1>2, <1>4
    <3>3. \A f, h \in sealed' : f.from = e /\ h.from = e =>
              /\ f.nonce = h.nonce => f = h
              /\ f.nonce < h.nonce <=> f.msg.num < h.msg.num
      <4> SUFFICES ASSUME NEW f \in sealed', NEW h \in sealed', f.from = e, h.from = e
                   PROVE  /\ f.nonce = h.nonce => f = h
                          /\ f.nonce < h.nonce <=> f.msg.num < h.msg.num
        OBVIOUS
      <4>1. CASE f \in sealed /\ h \in sealed
        BY <4>1 DEF SealInv
      <4>2. CASE f = new /\ h = new
        BY <3>2, <4>2
      <4>3. CASE f \in sealed /\ h = new
        BY <3>1, <3>2, <4>3, FrameFields
      <4>4. CASE f = new /\ h \in sealed
        BY <3>1, <3>2, <4>4, FrameFields
      <4> QED
        BY <1>1, <4>1, <4>2, <4>3, <4>4
    <3>4. \A f \in sealed' : f.from = e =>
              /\ hs[e] = "ready"
              /\ f.key = keys[e].send
              /\ f.nonce < Seals(e) + 1
              /\ f.msg.num <= calls[e]
              /\ f.msg.size <= MaxFrameSize
      BY <1>1, <1>2, <1>4, FrameFields DEF SealInv
    <3> QED
      BY <1>2, <1>6, <1>7, <2>3, <3>3, <3>4 DEF SealInv
  <2>6. AcceptInv(e)'
    BY <1>1, <1>2, <1>6, <1>7, <2>3, Numbers DEF AcceptInv
  <2>7. NonceInv(e)'
    <3> SUFFICES ASSUME NEW i \in 1..Len(accepted[e])
                 PROVE  \E f \in sealed' :
                            /\ f.from = e
                            /\ f.msg = accepted[e][i]
                            /\ f.nonce >= i - 1
                            /\ ~Oversized(f.msg)
                            /\ f.nonce = i - 1 <=> ~\E h \in sealed' : Jammed(e, h)' /\ h.msg.num < f.msg.num
      BY <2>3 DEF NonceInv, Oversized
    <3>1. PICK f \in sealed :
              /\ f.from = e
              /\ f.msg = accepted[e][i]
              /\ f.nonce >= i - 1
              /\ ~Oversized(f.msg)
              /\ f.nonce = i - 1 <=> ~\E h \in sealed : Jammed(e, h) /\ h.msg.num < f.msg.num
      BY DEF NonceInv
    <3>2. f.msg.num < new.msg.num /\ f.msg.num \in Nat /\ new.msg.num \in Nat
      BY <1>1, <1>2, <1>4, <3>1, FrameFields DEF SealInv
    <3>3. (\E h \in sealed' : Jammed(e, h)' /\ h.msg.num < f.msg.num)
              <=> \E h \in sealed : Jammed(e, h) /\ h.msg.num < f.msg.num
      BY <1>1, <2>1, <3>2 DEF Jammed
    <3> QED
      BY <1>1, <3>1, <3>3
  <2>8. GapInv(e)'
    <3>1. \A h \in sealed : Jammed(e, h) => Len(accepted[e]) < Seals(e)
      BY <1>1, Numbers DEF GapInv
    <3>2. \A h \in sealed' : Jammed(e, h)' =>
              \/ Len(accepted[e]) + 1 < Seals(e) + 1
              \/ h.msg.num = calls[e]
      BY <1>1, <1>2, <1>4, <2>1, <3>1, Numbers DEF Jammed
    <3>3. ~broken /\ Len(accepted[e]) + 1 < Seals(e) + 1 => \E h \in sealed' : Jammed(e, h)'
      BY <1>1, <1>2, <2>1, Numbers DEF GapInv
    <3> QED
      BY <1>6, <1>7, <2>3, <3>2, <3>3 DEF GapInv
  <2>9. WireInv(e)'
    BY <1>1, <2>2, <2>3 DEF WireInv
  <2>10. ReceiveInv(e)'
    BY <1>1, <2>1, <2>2, <2>3 DEF ReceiveInv
  <2> QED
    BY <2>4, <2>5, <2>6, <2>7, <2>8, <2>9, <2>10
<1> QED
  BY <1>8, <1>9, <1>10, <1>11

\* Send returns without writing: Encrypt refused the message and no nonce was
\* spent, or WriteFrame failed and the nonce is lost.
LEMMA ReturnStep ==
    ASSUME IInv, NEW e \in Ends, NEW g \in Senders,
           EncryptRefuses(e, g) \/ WriteFrameFails(e, g)
    PROVE  IInv'
<1> USE DEF IInv
<1>1. /\ spc[e][g] # "idle"
      /\ SendReturns(e, g)
      /\ UNCHANGED <<buffered, broken, handshakeVars, counter, calls, accepted,
                     receiveVars, wire, sealed>>
  BY DEF EncryptRefuses, WriteFrameFails
<1>2. /\ \A k \in Senders : spc'[e][k] = "idle"
      /\ ~Encrypting(e)'
      /\ Writing(e)' = 0
  BY <1>1, AllIdle DEF DirectionInv
<1>3. Types'
  BY <1>1 DEF Types, SendReturns, handshakeVars, receiveVars
<1>4. HandshakeInv'
  BY <1>1 DEF HandshakeInv, handshakeVars
<1>5. ASSUME NEW d \in Ends, d # e PROVE DirectionInv(d)'
  <2>1. Unaffected(d)
    BY <1>1, <1>5 DEF Types, Unaffected, SendReturns, handshakeVars, receiveVars
  <2> QED
    BY <1>3, <2>1, Frame_Direction DEF Types
<1>6. DirectionInv(e)'
  <2> USE DEF DirectionInv
  <2>1. \A h : Jammed(e, h)' <=> Jammed(e, h)
    BY <1>1 DEF Jammed, Oversized
  <2>2. ReadOf(e)' = ReadOf(e) /\ Seals(e)' = Seals(e)
    BY <1>1 DEF ReadOf, Seals
  <2>3. UNCHANGED <<broken, hs, keys, calls, accepted, expected, delivered, rejected, wire, sealed>>
    BY <1>1 DEF handshakeVars, receiveVars
  <2>4. LockInv(e)'
    BY <1>2 DEF LockInv
  <2>5. SealInv(e)'
    BY <1>2, <2>2, <2>3 DEF SealInv
  <2>6. AcceptInv(e)'
    BY <1>2, <2>2, <2>3, Numbers DEF AcceptInv
  <2>7. NonceInv(e)'
    BY <2>1, <2>3 DEF NonceInv, Oversized
  <2>8. GapInv(e)'
    <3>1. \A h \in sealed : Jammed(e, h) => Len(accepted[e]) < Seals(e)
      BY Numbers DEF GapInv, AcceptInv
    <3>2. ~broken /\ Len(accepted[e]) < Seals(e) => \E h \in sealed : Jammed(e, h)
      <4>1. CASE EncryptRefuses(e, g)
        <5>1. Writing(e) = 0
          BY <1>1, <4>1, Holder DEF EncryptRefuses
        <5> QED
          BY <5>1, Numbers DEF GapInv
      <4>2. CASE WriteFrameFails(e, g)
        <5>1. PICK f \in sealed : f.from = e /\ f.msg = sending[e][g]
          BY <4>2 DEF WriteFrameFails, LockInv
        <5>2. ~broken => Oversized(f.msg)
          BY <4>2, <5>1 DEF WriteFrameFails, SealInv, Oversized
        <5> QED
          BY <5>1, <5>2 DEF Jammed
      <4> QED
        BY <4>1, <4>2
    <3> QED
      BY <1>2, <2>1, <2>2, <2>3, <3>1, <3>2, Numbers DEF GapInv
  <2>9. WireInv(e)'
    BY <2>2, <2>3 DEF WireInv
  <2>10. ReceiveInv(e)'
    BY <2>1, <2>2, <2>3 DEF ReceiveInv
  <2> QED
    BY <2>4, <2>5, <2>6, <2>7, <2>8, <2>9, <2>10
<1> QED
  BY <1>3, <1>4, <1>5, <1>6

\* The frame that WriteFrame writes is the one that was sealed last.
LEMMA WrittenFrame ==
    ASSUME IInv, NEW e \in Ends, NEW g \in Senders, spc[e][g] = "write"
    PROVE  /\ FrameOf(e, g) \in sealed
           /\ FrameOf(e, g).from = e
           /\ FrameOf(e, g).msg = sending[e][g]
           /\ FrameOf(e, g).nonce = Seals(e) - 1
           /\ \A h \in sealed : h.from = e /\ h.msg.num = calls[e] => h = FrameOf(e, g)
<1> USE DEF IInv, DirectionInv
<1>1. PICK f \in sealed : f.from = e /\ f.msg = sending[e][g] /\ f.nonce = Seals(e) - 1
  BY DEF LockInv
<1>2. /\ FrameOf(e, g) \in sealed
      /\ FrameOf(e, g).from = e
      /\ FrameOf(e, g).msg = sending[e][g]
  BY <1>1 DEF FrameOf
<1>3. f.msg.num = calls[e]
  BY <1>1 DEF LockInv
<1>4. \A h \in sealed : h.from = e /\ h.msg.num = calls[e] => h = f
  BY <1>1, <1>3, FrameFields DEF SealInv
<1> QED
  BY <1>1, <1>2, <1>3, <1>4

\* WriteFrame: the message is accepted and its frame is the last on the wire.
LEMMA WriteStep ==
    ASSUME IInv, NEW e \in Ends, NEW g \in Senders, WriteFrame(e, g)
    PROVE  IInv'
<1> USE DEF IInv
<1> DEFINE new == FrameOf(e, g)
           m == sending[e][g]
           n == Len(accepted[e])
<1>1. /\ spc[e][g] = "write"
      /\ ~broken
      /\ m.size + Overhead <= MaxFrameSize
      /\ SendReturns(e, g)
      /\ wire' = [wire EXCEPT ![e] = Append(@, new)]
      /\ accepted' = [accepted EXCEPT ![e] = Append(@, m)]
      /\ UNCHANGED <<buffered, broken, handshakeVars, counter, calls, receiveVars, sealed>>
  BY DEF WriteFrame
<1>2. /\ m \in Message
      /\ m.num = calls[e]
      /\ Writing(e) = 1
  BY <1>1, Holder DEF DirectionInv, LockInv
<1>3. /\ new \in sealed
      /\ new.from = e
      /\ new.msg = m
      /\ new.nonce = Seals(e) - 1
      /\ \A h \in sealed : h.from = e /\ h.msg.num = calls[e] => h = new
  BY <1>1, WrittenFrame
<1>4. /\ \A k \in Senders : spc'[e][k] = "idle"
      /\ ~Encrypting(e)'
      /\ Writing(e)' = 0
  BY <1>1, AllIdle DEF DirectionInv
<1> HIDE DEF new, m
<1>5. new \in Frame /\ accepted[e] \in Seq(Message) /\ wire[e] \in Seq(Frame)
  BY <1>3 DEF Types
<1>6. /\ accepted'[e] = Append(accepted[e], m)
      /\ wire'[e] = Append(wire[e], new)
  BY <1>1 DEF Types
<1>7. /\ Len(accepted'[e]) = n + 1
      /\ accepted'[e][n + 1] = m
      /\ \A i \in 1..n : accepted'[e][i] = accepted[e][i]
      /\ n \in Nat
  BY <1>2, <1>5, <1>6
<1>8. /\ Len(wire'[e]) = Len(wire[e]) + 1
      /\ wire'[e][Len(wire[e]) + 1] = new
      /\ \A i \in 1..Len(wire[e]) : wire'[e][i] = wire[e][i]
      /\ Len(wire[e]) \in Nat
  BY <1>5, <1>6
<1>9. Types'
  <2>1. accepted' \in [Ends -> Seq(Message)] /\ wire' \in [Ends -> Seq(Frame)]
    BY <1>1, <1>2, <1>5 DEF Types
  <2> QED
    BY <1>1, <2>1 DEF Types, SendReturns, handshakeVars, receiveVars
<1>10. HandshakeInv'
  BY <1>1 DEF HandshakeInv, handshakeVars
<1>11. ASSUME NEW d \in Ends, d # e PROVE DirectionInv(d)'
  <2>1. Unaffected(d)
    BY <1>1, <1>11 DEF Types, Unaffected, SendReturns, handshakeVars, receiveVars
  <2> QED
    BY <1>9, <2>1, Frame_Direction DEF Types
<1> HIDE DEF n
<1>12. DirectionInv(e)'
  <2> USE DEF DirectionInv
  <2>1. \A h : Jammed(e, h)' <=> Jammed(e, h)
    BY <1>1 DEF Jammed, Oversized
  <2>2. Seals(e)' = Seals(e) /\ Seals(e) \in Nat /\ calls[e] \in Nat
    BY <1>1, Numbers DEF Seals
  <2>3. ReadOf(e)' = ReadOf(e) /\ ReadOf(e) = n - Len(wire[e])
    BY <1>7, <1>8 DEF ReadOf, n
  <2>4. UNCHANGED <<broken, hs, keys, calls, expected, delivered, rejected, sealed>>
    BY <1>1 DEF handshakeVars, receiveVars
  <2>5. ~Oversized(m) /\ m.size \in Nat /\ m.num \in Nat
    <3>1. m.size \in Nat /\ m.num \in Nat
      BY <1>2, SizesAssumption DEF Message
    <3> QED
      BY <1>1, <3>1, SizesAssumption DEF Oversized
  <2>6. n + 1 <= Seals(e)
    BY <1>2, <1>7, <2>2 DEF AcceptInv, n
  <2>7. LockInv(e)'
    BY <1>4 DEF LockInv
  <2>8. SealInv(e)'
    BY <1>4, <2>2, <2>4 DEF SealInv
  <2>9. AcceptInv(e)'
    <3>1. \A i \in 1..n : accepted[e][i].num < calls[e] /\ accepted[e][i].num \in Nat
      BY <1>2, MessageFields DEF AcceptInv, n
    <3>2. \A i \in 1..(n + 1) : accepted'[e][i].num <= calls[e]
      BY <1>2, <1>7, <2>2, <3>1
    <3>3. \A i, j \in 1..(n + 1) : i < j => accepted'[e][i].num < accepted'[e][j].num
      <4> SUFFICES ASSUME NEW i \in 1..(n + 1), NEW j \in 1..(n + 1), i < j
                   PROVE  accepted'[e][i].num < accepted'[e][j].num
        OBVIOUS
      <4>1. i \in 1..n /\ accepted'[e][i] = accepted[e][i]
        BY <1>7
      <4>2. CASE j = n + 1
        BY <1>2, <1>7, <3>1, <4>1, <4>2
      <4>3. CASE j \in 1..n
        <5>1. accepted'[e][j] = accepted[e][j]
          BY <1>7, <4>3
        <5> QED
          BY <4>1, <4>3, <5>1 DEF AcceptInv, n
      <4> QED
        BY <1>7, <4>2, <4>3
    <3> QED
      BY <1>4, <1>7, <2>2, <2>4, <2>6, <3>2, <3>3 DEF AcceptInv
  <2>10. \A h \in sealed : Jammed(e, h) => h.msg.num < calls[e]
    BY <1>3, <2>2, <2>5, FrameFields DEF Jammed, SealInv
  <2>11. NonceInv(e)'
    <3> SUFFICES ASSUME NEW i \in 1..Len(accepted'[e])
                 PROVE  \E f \in sealed' :
                            /\ f.from = e
                            /\ f.msg = accepted'[e][i]
                            /\ f.nonce >= i - 1
                            /\ ~Oversized(f.msg)
                            /\ f.nonce = i - 1 <=> ~\E h \in sealed' : Jammed(e, h)' /\ h.msg.num < f.msg.num
      BY DEF NonceInv, Oversized
    <3> SUFFICES \E f \in sealed :
                     /\ f.from = e
                     /\ f.msg = accepted'[e][i]
                     /\ f.nonce >= i - 1
                     /\ ~Oversized(f.msg)
                     /\ f.nonce = i - 1 <=> ~\E h \in sealed : Jammed(e, h) /\ h.msg.num < f.msg.num
      BY <2>1, <2>4
    <3>1. CASE i \in 1..n
      BY <1>7, <3>1 DEF NonceInv, n
    <3>2. CASE i = n + 1
      <4>1. new.nonce >= i - 1
        BY <1>3, <1>7, <2>2, <2>6, <3>2
      <4>2. CASE new.nonce = i - 1
        <5>1. Seals(e) = n + 1
          BY <1>3, <1>7, <2>2, <3>2, <4>2
        <5>2. ~\E h \in sealed : Jammed(e, h)
          BY <1>2, <1>7, <2>2, <2>10, <5>1, FrameFields DEF GapInv, n
        <5> QED
          BY <1>3, <1>7, <2>5, <3>2, <4>1, <4>2, <5>2
      <4>3. CASE new.nonce # i - 1
        <5>1. n + 1 < Seals(e)
          BY <1>3, <1>7, <2>2, <2>6, <3>2, <4>3
        <5>2. PICK h \in sealed : Jammed(e, h)
          BY <1>1, <1>2, <5>1 DEF GapInv, n
        <5>3. h.msg.num < new.msg.num
          BY <1>2, <1>3, <2>10, <5>2
        <5> QED
          BY <1>3, <1>7, <2>5, <3>2, <4>1, <4>3, <5>2, <5>3
      <4> QED
        BY <4>2, <4>3
    <3> QED
      BY <1>7, <3>1, <3>2
  <2>12. GapInv(e)'
    <3>1. \A h \in sealed : Jammed(e, h) => n + 1 < Seals(e)
      BY <1>2, <2>2, <2>10, FrameFields DEF GapInv, n
    <3>2. n + 1 < Seals(e) => \E h \in sealed : Jammed(e, h)
      BY <1>1, <1>2 DEF GapInv, n
    <3> QED
      BY <1>4, <1>7, <2>1, <2>2, <2>4, <3>1, <3>2 DEF GapInv
  <2>13. WireInv(e)'
    <3>1. Len(wire[e]) <= n
      BY DEF WireInv, n
    <3>2. \A i \in 1..(Len(wire[e]) + 1) :
              /\ wire'[e][i] \in sealed
              /\ wire'[e][i].from = e
              /\ wire'[e][i].msg = accepted'[e][ReadOf(e) + i]
      <4> SUFFICES ASSUME NEW i \in 1..(Len(wire[e]) + 1)
                   PROVE  /\ wire'[e][i] \in sealed
                          /\ wire'[e][i].from = e
                          /\ wire'[e][i].msg = accepted'[e][ReadOf(e) + i]
        OBVIOUS
      <4>1. CASE i \in 1..Len(wire[e])
        <5>1. ReadOf(e) + i \in 1..n
          BY <1>7, <1>8, <2>3, <3>1, <4>1
        <5>2. accepted'[e][ReadOf(e) + i] = accepted[e][ReadOf(e) + i]
          BY <1>7, <5>1
        <5> QED
          BY <1>8, <4>1, <5>2 DEF WireInv
      <4>2. CASE i = Len(wire[e]) + 1
        <5>1. ReadOf(e) + i = n + 1
          BY <1>7, <1>8, <2>3, <4>2
        <5> QED
          BY <1>3, <1>7, <1>8, <4>2, <5>1
      <4> QED
        BY <1>8, <4>1, <4>2
    <3> QED
      <4>1. Len(wire'[e]) <= Len(accepted'[e])
        BY <1>7, <1>8, <3>1
      <4>2. \A i \in 1..Len(wire'[e]) :
                /\ wire'[e][i] \in sealed'
                /\ wire'[e][i].from = e
                /\ wire'[e][i].msg = accepted'[e][ReadOf(e)' + i]
        BY <1>8, <2>3, <2>4, <3>2
      <4> QED
        BY <4>1, <4>2 DEF WireInv
  <2>14. ReceiveInv(e)'
    <3>0. Len(wire[e]) <= n
      BY DEF WireInv, n
    <3>1. ReadOf(e) \in Nat /\ ReadOf(e) <= n
      BY <1>7, <1>8, <2>3, <3>0
    <3>2. Len(delivered[Other(e)]) <= ReadOf(e) /\ Len(delivered[Other(e)]) \in Nat
      BY EndFacts, Numbers DEF ReceiveInv
    <3>3. \A i \in 1..Len(delivered[Other(e)]) : delivered[Other(e)][i] = accepted'[e][i]
      BY <1>7, <3>1, <3>2 DEF ReceiveInv
    <3>4. ReadOf(e) > 0 => accepted'[e][ReadOf(e)] = accepted[e][ReadOf(e)]
      BY <1>7, <3>1
    <3> QED
      BY <2>1, <2>3, <2>4, <3>1, <3>2, <3>3, <3>4 DEF ReceiveInv
  <2> QED
    BY <2>7, <2>8, <2>9, <2>11, <2>12, <2>13, <2>14
<1> QED
  BY <1>9, <1>10, <1>11, <1>12

-----------------------------------------------------------------------------
(***************************************************************************)
(* Receive.                                                                *)
(***************************************************************************)

\* What Receive of the opposite end finds at the head of the wire of end d: the
\* frame of the next accepted message, which it can open exactly if no nonce was
\* spent before it on a refused frame.
LEMMA NextFrame ==
    ASSUME IInv, NEW d \in Ends, wire[d] # <<>>, hs[Other(d)] = "ready"
    PROVE  LET r == ReadOf(d)
               frame == Head(wire[d])
           IN  /\ r \in Nat
               /\ r + 1 <= Len(accepted[d])
               /\ r < CounterMod
               /\ expected[Other(d)] = r
               /\ frame = wire[d][1]
               /\ frame.msg = accepted[d][r + 1]
               /\ Decrypts(Other(d), frame)
                      <=> ~\E h \in sealed : Jammed(d, h) /\ h.msg.num < frame.msg.num
               /\ Decrypts(Other(d), frame) => ~rejected[Other(d)]
<1> USE DEF IInv, DirectionInv
<1> DEFINE r == ReadOf(d)
           frame == Head(wire[d])
<1>1. wire[d] \in Seq(Frame) /\ accepted[d] \in Seq(Message)
  BY DEF Types
<1>2. Len(wire[d]) \in Nat \ {0} /\ frame = wire[d][1]
  BY <1>1
<1>3. r \in Nat /\ r + 1 <= Len(accepted[d])
  <2>1. Len(wire[d]) <= Len(accepted[d]) /\ Len(accepted[d]) \in Nat
    BY <1>1 DEF WireInv
  <2> QED
    BY <1>2, <2>1 DEF ReadOf
<1>4. r < CounterMod
  <2>1. Len(accepted[d]) + Writing(d) <= Seals(d)
    BY DEF AcceptInv
  <2>2. Seals(d) \in 0..CounterMod /\ Writing(d) \in 0..1 /\ Len(accepted[d]) \in Nat
    BY Numbers
  <2> QED
    BY <1>3, <2>1, <2>2, CounterAssumption
<1>5. expected[Other(d)] = r
  BY <1>3, <1>4, CounterAssumption DEF ReceiveInv
<1>6. frame \in sealed /\ frame.from = d /\ frame.msg = accepted[d][r + 1]
  BY <1>2 DEF WireInv
<1> HIDE DEF r, frame
<1>7. r + 1 \in 1..Len(accepted[d])
  BY <1>1, <1>3
<1>8. PICK f \in sealed :
          /\ f.from = d
          /\ f.msg = accepted[d][r + 1]
          /\ f.nonce = (r + 1) - 1 <=> ~\E h \in sealed : Jammed(d, h) /\ h.msg.num < f.msg.num
  BY <1>7 DEF NonceInv
<1>9. f = frame
  BY <1>6, <1>8, FrameFields DEF SealInv
<1>10. frame.key = keys[Other(d)].recv
  <2>1. hs[d] = "ready" /\ frame.key = keys[d].send
    BY <1>6 DEF SealInv
  <2> QED
    BY <2>1, ReadyKeys
<1>11. Decrypts(Other(d), frame)
           <=> ~\E h \in sealed : Jammed(d, h) /\ h.msg.num < frame.msg.num
  BY <1>3, <1>5, <1>8, <1>9, <1>10 DEF Decrypts
<1>12. Decrypts(Other(d), frame) => ~rejected[Other(d)]
  <2> SUFFICES ASSUME rejected[Other(d)]
               PROVE  \E h \in sealed : Jammed(d, h) /\ h.msg.num < frame.msg.num
    BY <1>11
  <2>1. PICK h \in sealed : Jammed(d, h) /\ h.msg.num < accepted[d][r].num
    BY DEF ReceiveInv, r
  <2>2. r > 0
    BY DEF ReceiveInv, r
  <2>3. r \in 1..Len(accepted[d]) /\ r < r + 1
    BY <1>3, <1>1, <2>2
  <2>4. accepted[d][r].num < accepted[d][r + 1].num
    BY <1>7, <2>3 DEF AcceptInv
  <2>5. h.msg.num \in Nat /\ accepted[d][r].num \in Nat /\ accepted[d][r + 1].num \in Nat
    BY <1>7, <2>3, FrameFields, MessageFields
  <2> QED
    BY <1>6, <2>1, <2>4, <2>5
<1> QED
  BY <1>2, <1>3, <1>4, <1>5, <1>6, <1>11, <1>12 DEF r, frame

\* Receive: what is returned is the next accepted message.
LEMMA ReceiveStep ==
    ASSUME IInv, NEW e \in Ends, Receive(e)
    PROVE  IInv'
<1> USE DEF IInv
<1>1. PICK d \in Ends : d = Other(e) /\ d # e /\ Other(d) = e
  BY EndFacts
<1> DEFINE r == ReadOf(d)
           frame == Head(wire[d])
<1>2. /\ hs[e] = "ready"
      /\ wire[d] # <<>>
      /\ wire' = [wire EXCEPT ![d] = Tail(@)]
      /\ expected' = [expected EXCEPT ![e] = NextCounter(@)]
      /\ UNCHANGED <<buffered, broken, handshakeVars, sendVars, sealed>>
  BY <1>1 DEF Receive, ReadFrame
<1>3. \/ /\ Decrypts(e, frame)
         /\ delivered' = [delivered EXCEPT ![e] = Append(@, frame.msg)]
         /\ UNCHANGED rejected
      \/ /\ ~Decrypts(e, frame)
         /\ rejected' = [rejected EXCEPT ![e] = TRUE]
         /\ UNCHANGED delivered
  BY <1>1 DEF Receive
<1>4. /\ r \in Nat
      /\ r + 1 <= Len(accepted[d])
      /\ r < CounterMod
      /\ expected[e] = r
      /\ frame = wire[d][1]
      /\ frame.msg = accepted[d][r + 1]
      /\ Decrypts(e, frame)
             <=> ~\E h \in sealed : Jammed(d, h) /\ h.msg.num < frame.msg.num
      /\ Decrypts(e, frame) => ~rejected[e]
  BY <1>1, <1>2, NextFrame
<1>5. accepted[d] \in Seq(Message) /\ wire[d] \in Seq(Frame) /\ delivered[e] \in Seq(Message)
  BY <1>1 DEF Types
<1>6. r + 1 \in 1..Len(accepted[d]) /\ accepted[d][r + 1] \in Message
  BY <1>4, <1>5
<1>7. /\ Len(wire'[d]) = Len(wire[d]) - 1
      /\ Len(wire[d]) \in Nat \ {0}
      /\ \A i \in 1..Len(wire'[d]) : wire'[d][i] = wire[d][i + 1]
      /\ wire'[d] \in Seq(Frame)
  <2>1. wire'[d] = Tail(wire[d])
    BY <1>1, <1>2 DEF Types
  <2>2. Len(wire[d]) \in Nat \ {0}
    BY <1>2, <1>5
  <2>3. /\ Tail(wire[d]) \in Seq(Frame)
        /\ Len(Tail(wire[d])) = Len(wire[d]) - 1
        /\ \A i \in 1..Len(Tail(wire[d])) : Tail(wire[d])[i] = wire[d][i + 1]
    BY <1>2, <1>5, HeadTailProperties
  <2> QED
    BY <2>1, <2>2, <2>3
<1>8. /\ expected'[e] = IF r + 1 = CounterMod THEN 0 ELSE r + 1
      /\ expected' \in [Ends -> 0..(CounterMod - 1)]
  <2>1. NextCounter(r) = (IF r + 1 = CounterMod THEN 0 ELSE r + 1) /\ NextCounter(r) \in 0..(CounterMod - 1)
    BY <1>4, CounterStep, CounterAssumption
  <2> QED
    BY <1>2, <1>4, <2>1 DEF Types
<1> HIDE DEF frame
<1>9. Types'
  <2>1. wire' \in [Ends -> Seq(Frame)]
    BY <1>1, <1>2, <1>7 DEF Types
  <2>2. delivered' \in [Ends -> Seq(Message)]
    <3>1. frame.msg \in Message
      BY <1>4, <1>6
    <3>2. Append(delivered[e], frame.msg) \in Seq(Message)
      BY <1>5, <3>1
    <3> QED
      BY <1>3, <3>2 DEF Types
  <2>3. rejected' \in [Ends -> BOOLEAN]
    BY <1>3 DEF Types
  <2> QED
    BY <1>2, <1>8, <2>1, <2>2, <2>3 DEF Types, handshakeVars, sendVars
<1>10. HandshakeInv'
  BY <1>2 DEF HandshakeInv, handshakeVars
<1>11. DirectionInv(e)'
  <2>1. Unaffected(e)
    BY <1>1, <1>2, <1>3, EndFacts DEF Types, Unaffected, handshakeVars, sendVars
  <2> QED
    BY <1>9, <2>1, Frame_Direction DEF Types
<1>12. DirectionInv(d)'
  <2> USE DEF DirectionInv
  <2>1. /\ Seals(d)' = Seals(d)
        /\ Encrypting(d)' = Encrypting(d)
        /\ Writing(d)' = Writing(d)
    BY <1>2 DEF Seals, Encrypting, Writing, sendVars
  <2>2. \A h : Jammed(d, h)' <=> Jammed(d, h)
    BY <1>2 DEF Jammed, Oversized
  <2>3. ReadOf(d)' = r + 1
    <3>1. accepted' = accepted /\ Len(accepted[d]) \in Nat
      BY <1>2, <1>5 DEF sendVars
    <3>2. r = Len(accepted[d]) - Len(wire[d])
      BY DEF ReadOf
    <3>3. ReadOf(d)' = Len(accepted[d]) - (Len(wire[d]) - 1)
      BY <1>7, <3>1 DEF ReadOf
    <3> QED
      BY <1>7, <3>1, <3>2, <3>3
  <2>4. UNCHANGED <<broken, hs, keys, spc, sending, sendMu, calls, accepted, sealed>>
    BY <1>2 DEF handshakeVars, sendVars
  <2>5. LockInv(d)' /\ SealInv(d)' /\ AcceptInv(d)'
    BY <1>1, <2>1, <2>4 DEF LockInv, SealInv, AcceptInv
  <2>6. NonceInv(d)' /\ GapInv(d)'
    BY <1>1, <2>1, <2>2, <2>4, SMTT(30) DEF NonceInv, GapInv, Oversized
  <2>7. WireInv(d)'
    <3>1. Len(wire'[d]) <= Len(accepted[d])
      BY <1>1, <1>5, <1>7 DEF WireInv
    <3>2. ASSUME NEW i \in 1..Len(wire'[d])
          PROVE  /\ wire'[d][i] \in sealed
                 /\ wire'[d][i].from = d
                 /\ wire'[d][i].msg = accepted[d][(r + 1) + i]
      <4>1. i + 1 \in 1..Len(wire[d]) /\ r + (i + 1) = (r + 1) + i
        <5>1. i \in 1..(Len(wire[d]) - 1) /\ Len(wire[d]) \in Nat /\ r \in Nat
          BY <1>4, <1>7
        <5> QED
          BY <5>1
      <4> QED
        BY <1>1, <1>7, <4>1, SMTT(30) DEF WireInv
    <3> QED
      BY <2>3, <2>4, <3>1, <3>2 DEF WireInv
  <2>8. ReceiveInv(d)'
    <3>1. /\ Len(delivered[e]) <= r
          /\ Len(delivered[e]) \in Nat
          /\ \A i \in 1..Len(delivered[e]) : delivered[e][i] = accepted[d][i]
          /\ ~rejected[e] => Len(delivered[e]) = r
      BY <1>1, <1>5 DEF ReceiveInv
    <3>2. CASE Decrypts(e, frame)
      <4>1. ~rejected[e] /\ rejected' = rejected /\ delivered'[e] = Append(delivered[e], frame.msg)
        BY <1>3, <1>4, <3>2 DEF Types
      <4>2. Len(delivered[e]) = r
        BY <3>1, <4>1
      <4>3. /\ Len(delivered'[e]) = r + 1
            /\ \A i \in 1..r : delivered'[e][i] = delivered[e][i]
            /\ delivered'[e][r + 1] = frame.msg
        BY <1>4, <1>5, <1>6, <4>1, <4>2
      <4>4. \A i \in 1..Len(delivered'[e]) : delivered'[e][i] = accepted[d][i]
        BY <1>4, <3>1, <4>2, <4>3
      <4> QED
        <5>1. ~rejected'[e] /\ accepted' = accepted
          BY <2>4, <4>1
        <5> QED
          BY <1>1, <1>4, <1>8, <2>3, <4>3, <4>4, <5>1 DEF ReceiveInv
    <3>3. CASE ~Decrypts(e, frame)
      <4>1. rejected'[e] /\ delivered' = delivered
        BY <1>3, <3>3 DEF Types
      <4>2. \E h \in sealed : Jammed(d, h) /\ h.msg.num < accepted[d][r + 1].num
        BY <1>4, <3>3
      <4> QED
        BY <1>1, <1>4, <1>8, <2>2, <2>3, <2>4, <3>1, <4>1, <4>2 DEF ReceiveInv
    <3> QED
      BY <3>2, <3>3
  <2> QED
    BY <2>5, <2>6, <2>7, <2>8
<1>13. \A k \in Ends : k = e \/ k = d
  BY <1>1, EndFacts
<1> QED
  BY <1>9, <1>10, <1>11, <1>12, <1>13

-----------------------------------------------------------------------------
(***************************************************************************)
(* The invariant and what follows from it.                                 *)
(***************************************************************************)

\* Every step preserves the invariant.
LEMMA IInvStep == IInv /\ [Next]_vars => IInv'
<1> SUFFICES ASSUME IInv, [Next]_vars PROVE IInv'
  OBVIOUS
<1>1. ASSUME NEW e \in Ends, HandshakeRuns(e) PROVE IInv'
  BY <1>1, HandshakeStep
<1>2. ASSUME NEW e \in Ends, NEW g \in Senders, SendRuns(e, g) PROVE IInv'
  BY <1>2, SendLockStep, EncryptStep, ReturnStep, WriteStep DEF SendRuns
<1>3. ASSUME NEW e \in Ends, Receive(e) PROVE IInv'
  BY <1>3, ReceiveStep
<1>4. CASE ConnectionLost \/ UNCHANGED vars
  BY <1>4, LossStep
<1> QED
  BY <1>1, <1>2, <1>3, <1>4 DEF Next

\* The invariant always holds.
LEMMA Invariance == Spec => []IInv
BY InitInv, IInvStep, PTL DEF Spec

\* Who holds sendMu is inside Send: every return of Send unlocks it.
Released == \A e \in Ends, g \in Senders : sendMu[e] = g => spc[e][g] # "idle"

LEMMA ReleasedStep ==
    ASSUME Types, Released, [Next]_vars
    PROVE  Released'
<1> USE DEF Released
<1>1. CASE UNCHANGED <<spc, sendMu>>
  BY <1>1
<1>2. ASSUME NEW e \in Ends, NEW g \in Senders, SendRuns(e, g) PROVE Released'
  <2>1. /\ sendMu \in [Ends -> Senders \cup {NoSender}]
        /\ spc \in [Ends -> [Senders -> {"idle", "encrypt", "write"}]]
    BY DEF Types
  <2>2. CASE SendReturns(e, g)
    BY <2>1, <2>2, SendersAssumption DEF SendReturns
  <2>3. CASE /\ spc' = [spc EXCEPT ![e][g] = "encrypt"]
             /\ sendMu' = [sendMu EXCEPT ![e] = g]
    BY <2>1, <2>3
  <2>4. CASE spc' = [spc EXCEPT ![e][g] = "write"] /\ sendMu' = sendMu
    BY <2>1, <2>4
  <2> QED
    BY <1>2, <2>2, <2>3, <2>4 DEF SendRuns, SendLock, Encrypt, EncryptRefuses, WriteFrame, WriteFrameFails
<1>3. CASE (\E e \in Ends : HandshakeRuns(e) \/ Receive(e)) \/ ConnectionLost \/ UNCHANGED vars
  <2>1. UNCHANGED <<spc, sendMu>>
    BY <1>3 DEF HandshakeRuns, HandshakeStarts, HelloWritten, HelloFails, HandshakeReads,
                HandshakeReadFails, HandshakeJoins, Receive, ConnectionLost, vars, sendVars
  <2> QED
    BY <1>1, <2>1
<1> QED
  BY <1>2, <1>3 DEF Next

\* Type correctness of the session, and sendMu belongs to whoever is inside Send.
THEOREM SessionTypes == Spec => []TypeOK
<1>1. Init => Released
  BY SendersAssumption DEF Init, Released
<1>2. IInv => Types
  BY DEF IInv
<1>3. IInv /\ Released /\ [Next]_vars => Released'
  BY <1>2, ReleasedStep
<1>4. IInv /\ Released => TypeOK
  BY DEF IInv, Released, TypeOK, DirectionInv, LockInv
<1> QED
  BY <1>1, <1>3, <1>4, Invariance, PTL DEF Spec

\* The two directions have different keys, and the ends agree on them
\* (DeriveDirectionalKeys), whatever the public keys are.
THEOREM SessionKeys == Spec => []KeysAgree
<1>1. IInv => KeysAgree
  BY ReadyKeys DEF IInv, KeysAgree
<1> QED
  BY <1>1, Invariance, PTL

\* No nonce is used twice under a key (Encrypt under sendMu, two keys), for any
\* number of senders, as long as an end sends no more than 2^64 messages.
THEOREM SessionNonces == Spec => []NoNonceReuse
<1>1. IInv => NoNonceReuse
  <2> SUFFICES ASSUME IInv, NEW f \in sealed, NEW h \in sealed,
                      f.key = h.key, f.nonce = h.nonce
               PROVE  f = h
    BY DEF NoNonceReuse
  <2> USE DEF IInv, DirectionInv
  <2>1. f.from \in Ends /\ h.from \in Ends
    BY FrameFields
  <2>2. CASE f.from = h.from
    BY <2>1, <2>2 DEF SealInv
  <2>3. CASE f.from # h.from
    <3>1. h.from = Other(f.from)
      BY <2>1, <2>3, EndFacts
    <3>2. /\ hs[f.from] = "ready" /\ f.key = keys[f.from].send
          /\ hs[h.from] = "ready" /\ h.key = keys[h.from].send
      BY <2>1 DEF SealInv
    <3> QED
      BY <2>1, <3>1, <3>2, ReadyKeys, ZenonT(60)
  <2> QED
    BY <2>2, <2>3
<1> QED
  BY <1>1, Invariance, PTL

\* Receive returns what Send has accepted, in order and without a gap, and rejects
\* a frame only after a nonce was lost to the size limit of WriteFrame.
THEOREM SessionOrder == Spec => []DeliveredInOrder
<1>1. IInv => DeliveredInOrder
  <2> SUFFICES ASSUME IInv, NEW e \in Ends
               PROVE  /\ Len(delivered[e]) <= Len(accepted[Other(e)])
                      /\ \A i \in 1..Len(delivered[e]) : delivered[e][i] = accepted[Other(e)][i]
                      /\ rejected[e] => \E f \in sealed : f.from = Other(e) /\ Oversized(f.msg)
    BY DEF DeliveredInOrder
  <2>1. PICK d \in Ends : d = Other(e) /\ Other(d) = e
    BY EndFacts
  <2>2. ReceiveInv(d) /\ Len(wire[d]) <= Len(accepted[d])
    BY DEF IInv, DirectionInv, WireInv
  <2>3. Len(delivered[e]) <= Len(accepted[d])
    <3>1. Len(delivered[e]) <= ReadOf(d)
      BY <2>1, <2>2 DEF ReceiveInv
    <3>2. Len(delivered[e]) \in Nat /\ Len(accepted[d]) \in Nat /\ Len(wire[d]) \in Nat
      BY Numbers DEF IInv
    <3>3. Len(delivered[e]) <= Len(accepted[d]) - Len(wire[d])
      BY <3>1 DEF ReadOf
    <3>4. \A x, y, z \in Nat : x <= y - z => x <= y
      OBVIOUS
    <3> QED
      BY <3>2, <3>3, <3>4
  <2> QED
    BY <2>1, <2>2, <2>3 DEF ReceiveInv, Jammed
<1> QED
  BY <1>1, Invariance, PTL

-----------------------------------------------------------------------------
(***************************************************************************)
(* The session implements Channel.                                         *)
(***************************************************************************)

JamsOf(e) == {AcceptedBefore(e, f.msg) : f \in {h \in sealed : h.from = e /\ Oversized(h.msg)}}
Jams == [e \in Ends |-> JamsOf(e)]

\* Every accepted message was accepted before one that has a larger number.
LEMMA BeforeLast ==
    ASSUME Types, NEW e \in Ends, NEW m,
           \A i \in 1..Len(accepted[e]) : accepted[e][i].num < m.num
    PROVE  AcceptedBefore(e, m) = Len(accepted[e])
<1>1. {i \in 1..Len(accepted[e]) : accepted[e][i].num < m.num} = 1..Len(accepted[e])
  OBVIOUS
<1>2. Len(accepted[e]) \in Nat
  BY Numbers
<1>3. Cardinality(1..Len(accepted[e])) = Len(accepted[e])
  BY <1>2, FS_Interval
<1> QED
  BY <1>1, <1>3 DEF AcceptedBefore

\* A message that is accepted later does not change how many came before.
LEMMA BeforeStays ==
    ASSUME Types, NEW e \in Ends, NEW m, NEW new \in Message, ~(new.num < m.num),
           accepted'[e] = Append(accepted[e], new)
    PROVE  AcceptedBefore(e, m)' = AcceptedBefore(e, m)
<1> DEFINE n == Len(accepted[e])
<1>1. accepted[e] \in Seq(Message) /\ n \in Nat
  BY DEF Types
<1>2. /\ Len(accepted'[e]) = n + 1
      /\ accepted'[e][n + 1] = new
      /\ \A i \in 1..n : accepted'[e][i] = accepted[e][i]
  BY <1>1
<1>3. {i \in 1..Len(accepted'[e]) : accepted'[e][i].num < m.num}
          = {i \in 1..n : accepted[e][i].num < m.num}
  BY <1>1, <1>2
<1> QED
  BY <1>3 DEF AcceptedBefore

\* Encrypting a message that fits leaves the channel alone; one that is too large
\* for WriteFrame jams its direction behind all that was accepted.
LEMMA EncryptJams ==
    ASSUME IInv, NEW e \in Ends, NEW g \in Senders, Encrypt(e, g)
    PROVE  \/ UNCHANGED Jams
           \/ Jams' = [Jams EXCEPT ![e] = @ \cup {Len(accepted[e])}]
<1> DEFINE new == SealedFrame(e, g)
           m == sending[e][g]
<1>1. /\ new.from = e
      /\ new.msg = m
      /\ sealed' = sealed \cup {new}
      /\ accepted' = accepted
  BY DEF Encrypt, SealedFrame
<1>2. AcceptedBefore(e, m) = Len(accepted[e])
  <2>1. m.num = calls[e] /\ Encrypting(e)
    BY Holder DEF IInv, DirectionInv, LockInv, Encrypt
  <2>2. \A i \in 1..Len(accepted[e]) : accepted[e][i].num < m.num
    BY <2>1 DEF IInv, DirectionInv, AcceptInv
  <2> QED
    BY <2>2, BeforeLast DEF IInv
<1>3. \A d, x : AcceptedBefore(d, x)' = AcceptedBefore(d, x)
  BY <1>1 DEF AcceptedBefore
<1> HIDE DEF new, m
<1>4. ASSUME NEW d \in Ends, d # e \/ ~Oversized(m)
      PROVE  JamsOf(d)' = JamsOf(d)
  BY <1>1, <1>3, <1>4 DEF JamsOf, Oversized
<1>5. Oversized(m) => JamsOf(e)' = JamsOf(e) \cup {Len(accepted[e])}
  BY <1>1, <1>2, <1>3 DEF JamsOf, Oversized
<1>6. CASE Oversized(m)
  BY <1>4, <1>5, <1>6 DEF Jams
<1>7. CASE ~Oversized(m)
  BY <1>4, <1>7 DEF Jams
<1> QED
  BY <1>6, <1>7

\* WriteFrame leaves the jams alone.
LEMMA WriteJams ==
    ASSUME IInv, NEW e \in Ends, NEW g \in Senders, WriteFrame(e, g)
    PROVE  UNCHANGED Jams
<1> DEFINE m == sending[e][g]
<1>1. /\ m \in Message
      /\ m.num = calls[e]
      /\ accepted' = [accepted EXCEPT ![e] = Append(@, m)]
      /\ sealed' = sealed
  BY DEF IInv, DirectionInv, LockInv, WriteFrame
<1>2. /\ accepted'[e] = Append(accepted[e], m)
      /\ \A d \in Ends : d # e => accepted'[d] = accepted[d]
  BY <1>1 DEF IInv, Types
<1> HIDE DEF m
<1>3. \A f \in sealed : f.from = e => AcceptedBefore(e, f.msg)' = AcceptedBefore(e, f.msg)
  <2> SUFFICES ASSUME NEW f \in sealed, f.from = e
               PROVE  AcceptedBefore(e, f.msg)' = AcceptedBefore(e, f.msg)
    OBVIOUS
  <2>1. f.msg.num <= calls[e] /\ f.msg.num \in Nat /\ calls[e] \in Nat
    BY FrameFields, Numbers DEF IInv, DirectionInv, SealInv
  <2>2. ~(m.num < f.msg.num)
    BY <1>1, <2>1
  <2> QED
    BY <1>1, <1>2, <2>2, BeforeStays DEF IInv
<1>4. ASSUME NEW d \in Ends PROVE JamsOf(d)' = JamsOf(d)
  <2>1. \A f \in sealed : f.from = d => AcceptedBefore(d, f.msg)' = AcceptedBefore(d, f.msg)
    BY <1>2, <1>3 DEF AcceptedBefore
  <2> QED
    BY <1>1, <2>1 DEF JamsOf, Oversized
<1> QED
  BY <1>4 DEF Jams

\* A message that Receive returns lies before every jam of its direction.
LEMMA BeforeTheJam ==
    ASSUME IInv, NEW d \in Ends, wire[d] # <<>>, hs[Other(d)] = "ready",
           Decrypts(Other(d), Head(wire[d])), NEW k \in JamsOf(d)
    PROVE  ReadOf(d) < k
<1> DEFINE r == ReadOf(d)
           frame == Head(wire[d])
           n == Len(accepted[d])
<1>1. /\ r \in Nat
      /\ r + 1 <= n
      /\ frame.msg = accepted[d][r + 1]
      /\ ~\E h \in sealed : Jammed(d, h) /\ h.msg.num < frame.msg.num
  BY NextFrame
<1> HIDE DEF frame, r
<1>2. n \in Nat /\ r + 1 \in 1..n
  BY <1>1, Numbers DEF IInv
<1>3. PICK f \in sealed : f.from = d /\ Oversized(f.msg) /\ k = AcceptedBefore(d, f.msg)
  BY DEF JamsOf
<1>4. f.msg.num \in Nat /\ \A i \in 1..n : accepted[d][i].num \in Nat
  BY FrameFields, MessageFields DEF IInv
<1>5. f.msg.num # accepted[d][r + 1].num
  <2>1. PICK h \in sealed : h.from = d /\ h.msg = accepted[d][r + 1] /\ ~Oversized(h.msg)
    BY <1>2 DEF IInv, DirectionInv, NonceInv
  <2>2. h.msg.num = f.msg.num => h = f
    BY <1>3, <2>1, FrameFields DEF IInv, DirectionInv, SealInv
  <2> QED
    BY <1>3, <2>1, <2>2
<1>6. accepted[d][r + 1].num < f.msg.num
  BY <1>1, <1>2, <1>3, <1>4, <1>5 DEF Jammed
<1>7. \A i \in 1..(r + 1) : accepted[d][i].num < f.msg.num
  <2> SUFFICES ASSUME NEW i \in 1..(r + 1), i # r + 1
               PROVE  accepted[d][i].num < f.msg.num
    BY <1>6
  <2>1. i \in 1..n /\ i < r + 1
    BY <1>1, <1>2
  <2>2. accepted[d][i].num < accepted[d][r + 1].num
    BY <1>2, <2>1 DEF IInv, DirectionInv, AcceptInv
  <2> QED
    BY <1>2, <1>4, <1>6, <2>1, <2>2
<1> DEFINE S == {i \in 1..n : accepted[d][i].num < f.msg.num}
<1>8. 1..(r + 1) \subseteq S
  BY <1>1, <1>2, <1>7
<1>9. IsFiniteSet(S)
  <2>1. IsFiniteSet(1..n)
    BY <1>2, FS_Interval
  <2> QED
    BY <2>1, FS_Subset
<1>10. Cardinality(1..(r + 1)) = r + 1
  BY <1>1, FS_Interval
<1>11. Cardinality(1..(r + 1)) <= Cardinality(S)
  BY <1>8, <1>9, FS_Subset
<1>12. Cardinality(S) \in Nat
  BY <1>9, FS_CardinalityType
<1>13. k = Cardinality(S)
  BY <1>3 DEF AcceptedBefore
<1> HIDE DEF S
<1> QED
  BY <1>1, <1>10, <1>11, <1>12, <1>13 DEF r

\* Every step of the session is a step of Channel, or changes nothing there.
LEMMA ChannelStep == IInv /\ [Next]_vars => [Queues!Next]_(Queues!channelVars)
<1> SUFFICES ASSUME IInv, [Next]_vars
             PROVE  Queues!Next \/ UNCHANGED <<accepted, delivered, Jams>>
  BY DEF Queues!channelVars, Jams, JamsOf
<1>1. ASSUME UNCHANGED <<accepted, delivered, sealed>>
      PROVE  UNCHANGED <<accepted, delivered, Jams>>
  BY <1>1 DEF Jams, JamsOf, AcceptedBefore
<1>2. ASSUME NEW e \in Ends, HandshakeRuns(e)
      PROVE  UNCHANGED <<accepted, delivered, Jams>>
  BY <1>1, <1>2 DEF HandshakeRuns, HandshakeStarts, HelloWritten, HelloFails, HandshakeReads,
                    HandshakeReadFails, HandshakeJoins, sendVars, receiveVars
<1>3. ASSUME NEW e \in Ends, NEW g \in Senders,
             EncryptRefuses(e, g) \/ WriteFrameFails(e, g) \/ \E size \in Sizes : SendLock(e, g, size)
      PROVE  UNCHANGED <<accepted, delivered, Jams>>
  BY <1>1, <1>3 DEF EncryptRefuses, WriteFrameFails, SendLock, receiveVars
<1>4. ASSUME NEW e \in Ends, NEW g \in Senders, Encrypt(e, g)
      PROVE  Queues!Next \/ UNCHANGED <<accepted, delivered, Jams>>
  <2>1. UNCHANGED <<accepted, delivered>>
    BY <1>4 DEF Encrypt, receiveVars
  <2>2. CASE UNCHANGED Jams
    BY <2>1, <2>2
  <2>3. CASE Jams' = [Jams EXCEPT ![e] = @ \cup {Len(accepted[e])}]
    <3>1. Queues!Jam(e)
      BY <2>1, <2>3 DEF Queues!Jam, Jams, JamsOf
    <3> QED
      BY <3>1 DEF Queues!Next
  <2> QED
    BY <1>4, <2>2, <2>3, EncryptJams
<1>5. ASSUME NEW e \in Ends, NEW g \in Senders, WriteFrame(e, g)
      PROVE  Queues!Next
  <2> DEFINE m == sending[e][g]
             Messages == [num : 1..MaxSends["left"] + MaxSends["right"], size : Sizes]
  <2>1. /\ accepted' = [accepted EXCEPT ![e] = Append(@, m)]
        /\ delivered' = delivered
        /\ Jams' = Jams
    BY <1>5, WriteJams DEF WriteFrame, receiveVars
  <2>2. m \in Message /\ m.num = calls[e] /\ Writing(e) = 1
    BY <1>5, Holder DEF WriteFrame, IInv, DirectionInv, LockInv
  <2>3. calls[e] \in 1..MaxSends[e]
    <3>1. /\ Len(accepted[e]) + Writing(e) <= Seals(e)
          /\ Seals(e) <= calls[e]
      BY DEF IInv, DirectionInv, AcceptInv, SealInv
    <3>2. /\ Seals(e) \in Nat /\ Len(accepted[e]) \in Nat
          /\ calls[e] \in Nat /\ calls[e] <= MaxSends[e] /\ MaxSends[e] \in Nat
      BY Numbers DEF IInv
    <3> QED
      BY <2>2, <3>1, <3>2
  <2>4. MaxSends["left"] \in Nat /\ MaxSends["right"] \in Nat /\ (e = "left" \/ e = "right")
    BY CounterAssumption DEF Ends
  <2>5. calls[e] \in 1..(MaxSends["left"] + MaxSends["right"])
    BY <2>3, <2>4
  <2>6. m \in Messages
    BY <2>2, <2>5 DEF Message
  <2>7. Queues!Put(e, m)
    BY <2>1 DEF Queues!Put, Jams, JamsOf
  <2> QED
    BY <2>6, <2>7 DEF Queues!Next
<1>6. ASSUME NEW e \in Ends, Receive(e)
      PROVE  Queues!Next \/ UNCHANGED <<accepted, delivered, Jams>>
  <2>1. PICK d \in Ends : d = Other(e) /\ Other(d) = e
    BY EndFacts
  <2>2. /\ hs[e] = "ready" /\ wire[d] # <<>>
        /\ UNCHANGED <<accepted, sealed>>
        /\ IF Decrypts(e, Head(wire[d]))
           THEN delivered' = [delivered EXCEPT ![e] = Append(@, Head(wire[d]).msg)]
           ELSE UNCHANGED delivered
    BY <1>6, <2>1 DEF Receive, ReadFrame, sendVars
  <2>3. UNCHANGED Jams
    BY <2>2 DEF Jams, JamsOf, AcceptedBefore
  <2>4. CASE ~Decrypts(e, Head(wire[d]))
    BY <2>2, <2>3, <2>4
  <2>5. CASE Decrypts(e, Head(wire[d]))
    <3>1. /\ ReadOf(d) \in Nat
          /\ ReadOf(d) + 1 <= Len(accepted[d])
          /\ Head(wire[d]).msg = accepted[d][ReadOf(d) + 1]
          /\ ~rejected[e]
      BY <2>1, <2>2, <2>5, NextFrame
    <3>2. Len(delivered[e]) = ReadOf(d)
      BY <2>1, <3>1 DEF IInv, DirectionInv, ReceiveInv
    <3>3. \A k \in JamsOf(d) : Len(delivered[e]) < k
      BY <2>1, <2>2, <2>5, <3>2, BeforeTheJam
    <3>4. Len(delivered[e]) < Len(accepted[d])
      BY <3>1, <3>2, Numbers DEF IInv
    <3>5. delivered' = [delivered EXCEPT ![e] = Append(@, accepted[d][Len(delivered[e]) + 1])]
      BY <2>2, <2>5, <3>1, <3>2
    <3>6. Jams[d] = JamsOf(d)
      BY DEF Jams
    <3>7. Queues!Take(e)
      BY <2>1, <2>2, <2>3, <3>3, <3>4, <3>5, <3>6 DEF Queues!Take, Jams, JamsOf
    <3> QED
      BY <3>7 DEF Queues!Next
  <2> QED
    BY <2>4, <2>5
<1>7. CASE ConnectionLost \/ UNCHANGED vars
  BY <1>1, <1>7 DEF ConnectionLost, vars, sendVars, receiveVars
<1> QED
  BY <1>2, <1>3, <1>4, <1>5, <1>6, <1>7 DEF Next, SendRuns

\* A session is a queue in each direction that may jam: locks, nonces, keys and
\* size limits (session.go, aead.go, framing.go) implement Channel.
THEOREM SessionImplementsChannel == Spec => ChannelSpec
<1>1. Init => Queues!Init
  BY DEF Init, Queues!Init
<1> QED
  BY <1>1, ChannelStep, Invariance, PTL DEF Spec, ChannelSpec, Queues!Spec

=============================================================================
