------------------------------ MODULE Session -------------------------------
(***************************************************************************)
(* The encrypted session between two ends of a connection: the handshake   *)
(* (src/pkg/protocol/handshake.go, src/pkg/crypto/handshake.go), then      *)
(* Session.Send and Session.Receive (session.go) over counter nonces       *)
(* (src/pkg/crypto/aead.go) and frames (framing.go).                       *)
(*                                                                         *)
(* On each end several goroutines call Send (pumps, heartbeat replies,     *)
(* Close) and one calls Receive.  A Send is split where another goroutine  *)
(* could get in if sendMu did not keep it out: taking the lock, sealing    *)
(* the plaintext, writing the frame.                                       *)
(*                                                                         *)
(* Cryptography is ideal: a key is the pair of public keys with its        *)
(* direction, and a frame opens under the key and nonce it was sealed      *)
(* with.  A public key is its rank in the lexicographic order.  A message  *)
(* is its number on its end and the size of its encoding in bytes.         *)
(***************************************************************************)
EXTENDS Naturals, Sequences, FiniteSets

CONSTANTS
    Senders,        \* the goroutines of one end that call Send
    PublicKeys,     \* a set of numbers
    Sizes,          \* the sizes of encoded envelopes
    MaxFrameSize,   \* the limit of Encrypt and of WriteFrame, in bytes
    Overhead,       \* what Encrypt adds: NonceSize and the GCM tag
    CounterMod,     \* 2^64, the period of AEAD.counter
    MaxSends        \* bound: end -> number of calls of Send

Ends == {"left", "right"}
Other(e) == IF e = "left" THEN "right" ELSE "left"

ASSUME SizesAssumption ==
    /\ Sizes \subseteq Nat
    /\ MaxFrameSize \in Nat
    /\ Overhead \in Nat
ASSUME KeysAssumption == PublicKeys \subseteq Nat
ASSUME CounterAssumption ==
    /\ CounterMod \in Nat \ {0}
    /\ MaxSends \in [Ends -> 0..CounterMod]

VARIABLES
    buffered,   \* whether a write completes before it is read (TCP), or not
                \* (net.Pipe)
    broken,     \* the connection is lost
    pub,        \* end -> its public key
    hs,         \* end -> the progress of PerformHandshake
    hello,      \* end -> the goroutine that writes its Handshake frame
    keys,       \* end -> its DirectionalKeys
    spc,        \* end -> sender -> the next operation of its Send
    sending,    \* end -> sender -> the message it sends
    sendMu,     \* end -> the sender that holds sendMu, or NoSender
    counter,    \* end -> counter of sendEnc
    expected,   \* end -> counter of recvEnc
    wire,       \* end -> the frames it has written and the other has not read
    calls,      \* end -> number of calls of Send so far
    accepted,   \* end -> the messages whose Send returned nil, in order
    delivered,  \* end -> the messages Receive returned, in order
    rejected,   \* end -> whether Receive failed to open a frame
    sealed      \* every frame that was ever encrypted (a history variable)

NoSender  == "nobody"
NoMessage == [num |-> 0, size |-> 0]
NoKeys    == [send |-> <<0, 0, "none">>, recv |-> <<0, 0, "none">>]

ASSUME SendersAssumption == NoSender \notin Senders

handshakeVars == <<pub, hs, hello, keys>>
sendVars      == <<spc, sending, sendMu, counter, calls, accepted>>
receiveVars   == <<expected, delivered, rejected>>
vars == <<buffered, broken, handshakeVars, sendVars, receiveVars, wire, sealed>>

Keys     == PublicKeys \X PublicKeys \X {"client to server", "server to client"}
Message  == [num : Nat, size : Sizes]
Frame    == [from : Ends, key : Keys, nonce : 0..(CounterMod - 1), msg : Message]

Types ==
    /\ buffered \in BOOLEAN /\ broken \in BOOLEAN
    /\ pub \in [Ends -> PublicKeys]
    /\ hs \in [Ends -> {"new", "reading", "joining", "ready", "failed"}]
    /\ hello \in [Ends -> {"none", "writing", "written", "failed"}]
    /\ keys \in [Ends -> {NoKeys} \cup [send : Keys, recv : Keys]]
    /\ spc \in [Ends -> [Senders -> {"idle", "encrypt", "write"}]]
    /\ sending \in [Ends -> [Senders -> {NoMessage} \cup Message]]
    /\ sendMu \in [Ends -> Senders \cup {NoSender}]
    /\ counter \in [Ends -> 0..(CounterMod - 1)]
    /\ expected \in [Ends -> 0..(CounterMod - 1)]
    /\ calls \in [Ends -> Nat] /\ \A e \in Ends : calls[e] <= MaxSends[e]
    /\ wire \in [Ends -> Seq(Frame)]
    /\ accepted \in [Ends -> Seq(Message)]
    /\ delivered \in [Ends -> Seq(Message)]
    /\ rejected \in [Ends -> BOOLEAN]
    /\ sealed \subseteq Frame

\* sendMu is held by the goroutine inside Send, and by nobody when none is: every
\* return of Send unlocks it, also those after an error.
TypeOK ==
    /\ Types
    /\ \A e \in Ends, g \in Senders : sendMu[e] = g <=> spc[e][g] # "idle"

\* Key pairs are random: the two public keys differ.
Init ==
    /\ buffered \in BOOLEAN
    /\ broken = FALSE
    /\ pub \in {p \in [Ends -> PublicKeys] : p["left"] # p["right"]}
    /\ hs = [e \in Ends |-> "new"]
    /\ hello = [e \in Ends |-> "none"]
    /\ keys = [e \in Ends |-> NoKeys]
    /\ spc = [e \in Ends |-> [g \in Senders |-> "idle"]]
    /\ sending = [e \in Ends |-> [g \in Senders |-> NoMessage]]
    /\ sendMu = [e \in Ends |-> NoSender]
    /\ counter = [e \in Ends |-> 0]
    /\ expected = [e \in Ends |-> 0]
    /\ wire = [e \in Ends |-> <<>>]
    /\ calls = [e \in Ends |-> 0]
    /\ accepted = [e \in Ends |-> <<>>]
    /\ delivered = [e \in Ends |-> <<>>]
    /\ rejected = [e \in Ends |-> FALSE]
    /\ sealed = {}

-----------------------------------------------------------------------------
(***************************************************************************)
(* PerformHandshake.                                                       *)
(***************************************************************************)

\* Mutant: both ends take the key of the same direction for sending.
DeriveSameDirection(local, remote) ==
    LET first  == IF local < remote THEN local ELSE remote
        second == IF local < remote THEN remote ELSE local
    IN  [send |-> <<first, second, "client to server">>,
         recv |-> <<first, second, "client to server">>]

\* The smaller public key is the client's.  Secret and salt depend on the two
\* keys in their order.
DeriveDirectionalKeys(local, remote) ==
    LET first  == IF local < remote THEN local ELSE remote
        second == IF local < remote THEN remote ELSE local
        c2s    == <<first, second, "client to server">>
        s2c    == <<first, second, "server to client">>
    IN  IF local < remote THEN [send |-> c2s, recv |-> s2c]
                          ELSE [send |-> s2c, recv |-> c2s]

\* The Handshake frame is written by a goroutine of its own.
HandshakeStarts(e) ==
    /\ hs[e] = "new"
    /\ hs' = [hs EXCEPT ![e] = "reading"]
    /\ hello' = [hello EXCEPT ![e] = "writing"]
    /\ UNCHANGED <<buffered, broken, pub, keys, sendVars, receiveVars, wire, sealed>>

HelloWritten(e) ==
    /\ buffered
    /\ ~broken
    /\ hello[e] = "writing"
    /\ hello' = [hello EXCEPT ![e] = "written"]
    /\ UNCHANGED <<buffered, broken, pub, hs, keys, sendVars, receiveVars, wire, sealed>>

HelloFails(e) ==
    /\ broken
    /\ hello[e] = "writing"
    /\ hello' = [hello EXCEPT ![e] = "failed"]
    /\ UNCHANGED <<buffered, broken, pub, hs, keys, sendVars, receiveVars, wire, sealed>>

\* Mutant: the frame is written first, and read afterwards.
HandshakeReadsAfterWrite(e) ==
    /\ ~broken
    /\ hs[e] = "reading"
    /\ hello[e] = "written"
    /\ hello[Other(e)] = (IF buffered THEN "written" ELSE "writing")
    /\ hello' = [hello EXCEPT ![Other(e)] = "written"]
    /\ hs' = [hs EXCEPT ![e] = "joining"]
    /\ UNCHANGED <<buffered, broken, pub, keys, sendVars, receiveVars, wire, sealed>>

\* Reading from a pipe is what completes the write at the other end.
HandshakeReads(e) ==
    /\ ~broken
    /\ hs[e] = "reading"
    /\ hello[Other(e)] = (IF buffered THEN "written" ELSE "writing")
    /\ hello' = [hello EXCEPT ![Other(e)] = "written"]
    /\ hs' = [hs EXCEPT ![e] = "joining"]
    /\ UNCHANGED <<buffered, broken, pub, keys, sendVars, receiveVars, wire, sealed>>

HandshakeReadFails(e) ==
    /\ broken
    /\ hs[e] = "reading"
    /\ hs' = [hs EXCEPT ![e] = "failed"]
    /\ UNCHANGED <<buffered, broken, pub, hello, keys, sendVars, receiveVars, wire, sealed>>

\* Receiving from sendErrCh; the keys are derived and the session is made.
HandshakeJoins(e) ==
    /\ hs[e] = "joining"
    /\ \/ /\ hello[e] = "written"
          /\ hs' = [hs EXCEPT ![e] = "ready"]
          /\ keys' = [keys EXCEPT ![e] = DeriveDirectionalKeys(pub[e], pub[Other(e)])]
       \/ /\ hello[e] = "failed"
          /\ hs' = [hs EXCEPT ![e] = "failed"]
          /\ UNCHANGED keys
    /\ UNCHANGED <<buffered, broken, pub, hello, sendVars, receiveVars, wire, sealed>>

-----------------------------------------------------------------------------
(***************************************************************************)
(* Send.                                                                   *)
(***************************************************************************)

\* Mutant: sendMu is not taken.
SendLockFree(e, g, size) ==
    /\ hs[e] = "ready"
    /\ spc[e][g] = "idle"
    /\ calls[e] < MaxSends[e]
    /\ calls' = [calls EXCEPT ![e] = @ + 1]
    /\ sending' = [sending EXCEPT ![e][g] = [num |-> calls'[e], size |-> size]]
    /\ spc' = [spc EXCEPT ![e][g] = "encrypt"]
    /\ UNCHANGED <<buffered, broken, handshakeVars, sendMu, counter, accepted,
                   receiveVars, wire, sealed>>

SendLock(e, g, size) ==
    /\ hs[e] = "ready"
    /\ spc[e][g] = "idle"
    /\ sendMu[e] = NoSender
    /\ calls[e] < MaxSends[e]
    /\ calls' = [calls EXCEPT ![e] = @ + 1]
    /\ sending' = [sending EXCEPT ![e][g] = [num |-> calls'[e], size |-> size]]
    /\ sendMu' = [sendMu EXCEPT ![e] = g]
    /\ spc' = [spc EXCEPT ![e][g] = "encrypt"]
    /\ UNCHANGED <<buffered, broken, handshakeVars, counter, accepted, receiveVars,
                   wire, sealed>>

\* Send returns: the deferred Unlock.
SendReturns(e, g) ==
    /\ spc' = [spc EXCEPT ![e][g] = "idle"]
    /\ sending' = [sending EXCEPT ![e][g] = NoMessage]
    /\ sendMu' = [sendMu EXCEPT ![e] = NoSender]

SealedFrame(e, g) ==
    [from |-> e, key |-> keys[e].send, nonce |-> counter[e], msg |-> sending[e][g]]

NextCounter(n) == (n + 1) % CounterMod

Encrypt(e, g) ==
    /\ spc[e][g] = "encrypt"
    /\ sending[e][g].size <= MaxFrameSize
    /\ sealed' = sealed \cup {SealedFrame(e, g)}
    /\ counter' = [counter EXCEPT ![e] = NextCounter(@)]
    /\ spc' = [spc EXCEPT ![e][g] = "write"]
    /\ UNCHANGED <<buffered, broken, handshakeVars, sending, sendMu, calls, accepted,
                   receiveVars, wire>>

\* Mutant: the early return keeps the lock.
EncryptRefusesLocked(e, g) ==
    /\ spc[e][g] = "encrypt"
    /\ sending[e][g].size > MaxFrameSize
    /\ spc' = [spc EXCEPT ![e][g] = "idle"]
    /\ sending' = [sending EXCEPT ![e][g] = NoMessage]
    /\ UNCHANGED <<buffered, broken, handshakeVars, sendMu, counter, calls, accepted,
                   receiveVars, wire, sealed>>

EncryptRefuses(e, g) ==
    /\ spc[e][g] = "encrypt"
    /\ sending[e][g].size > MaxFrameSize
    /\ SendReturns(e, g)
    /\ UNCHANGED <<buffered, broken, handshakeVars, counter, calls, accepted,
                   receiveVars, wire, sealed>>

\* The frame that was sealed for the message of g.
FrameOf(e, g) ==
    CHOOSE f \in sealed : f.from = e /\ f.msg = sending[e][g]

WriteFrame(e, g) ==
    /\ spc[e][g] = "write"
    /\ ~broken
    /\ sending[e][g].size + Overhead <= MaxFrameSize
    /\ wire' = [wire EXCEPT ![e] = Append(@, FrameOf(e, g))]
    /\ accepted' = [accepted EXCEPT ![e] = Append(@, sending[e][g])]
    /\ SendReturns(e, g)
    /\ UNCHANGED <<buffered, broken, handshakeVars, counter, calls, receiveVars, sealed>>

\* The encrypted frame is too large, or the connection is lost.  The nonce is
\* spent in both cases.
WriteFrameFails(e, g) ==
    /\ spc[e][g] = "write"
    /\ sending[e][g].size + Overhead > MaxFrameSize \/ broken
    /\ SendReturns(e, g)
    /\ UNCHANGED <<buffered, broken, handshakeVars, counter, calls, accepted,
                   receiveVars, wire, sealed>>

-----------------------------------------------------------------------------
(***************************************************************************)
(* Receive.  The counter advances whether or not the nonce matches.        *)
(***************************************************************************)

ReadFrame(e) ==
    /\ wire[Other(e)] # <<>>
    /\ wire' = [wire EXCEPT ![Other(e)] = Tail(@)]

\* Mutant: the nonce of a frame is not compared with the counter.
DecryptsAnyNonce(e, frame) == frame.key = keys[e].recv

Decrypts(e, frame) ==
    /\ frame.nonce = expected[e]
    /\ frame.key = keys[e].recv

Receive(e) ==
    LET frame == Head(wire[Other(e)])
    IN  /\ hs[e] = "ready"
        /\ ReadFrame(e)
        /\ expected' = [expected EXCEPT ![e] = NextCounter(@)]
        /\ IF Decrypts(e, frame)
           THEN /\ delivered' = [delivered EXCEPT ![e] = Append(@, frame.msg)]
                /\ UNCHANGED rejected
           ELSE /\ rejected' = [rejected EXCEPT ![e] = TRUE]
                /\ UNCHANGED delivered
        /\ UNCHANGED <<buffered, broken, handshakeVars, sendVars, sealed>>

\* External: the connection breaks; what is on the wire may still arrive.
ConnectionLost ==
    /\ ~broken
    /\ broken' = TRUE
    /\ UNCHANGED <<buffered, handshakeVars, sendVars, receiveVars, wire, sealed>>

-----------------------------------------------------------------------------

HandshakeRuns(e) ==
    \/ HandshakeStarts(e)
    \/ HelloWritten(e)
    \/ HelloFails(e)
    \/ HandshakeReads(e)
    \/ HandshakeReadFails(e)
    \/ HandshakeJoins(e)

SendRuns(e, g) ==
    \/ \E size \in Sizes : SendLock(e, g, size)
    \/ Encrypt(e, g)
    \/ EncryptRefuses(e, g)
    \/ WriteFrame(e, g)
    \/ WriteFrameFails(e, g)

Next ==
    \/ \E e \in Ends : \/ HandshakeRuns(e)
                       \/ \E g \in Senders : SendRuns(e, g)
                       \/ Receive(e)
    \/ ConnectionLost

Spec == Init /\ [][Next]_vars

\* Both ends run PerformHandshake; Go's scheduler runs its two goroutines.
FairSpec == Spec /\ \A e \in Ends : WF_vars(HandshakeRuns(e))

-----------------------------------------------------------------------------

\* Each direction has a key of its own, the same on both ends, so that what one
\* end seals the other can open (DeriveDirectionalKeys).
KeysAgree ==
    \A e \in Ends : hs[e] = "ready" =>
        /\ keys[e].send # keys[e].recv
        /\ hs[Other(e)] = "ready" => keys[e].send = keys[Other(e)].recv

\* No nonce is used twice under a key, counting both ends and every goroutine
\* that sends (aead.go; NewSession, "preventing AES-GCM nonce reuse even though
\* both directions start their counters at zero").
NoNonceReuse ==
    \A f, h \in sealed : f.key = h.key /\ f.nonce = h.nonce => f = h

\* A message whose encrypted form does not fit a frame although Encrypt takes it.
Oversized(m) == m.size <= MaxFrameSize /\ m.size + Overhead > MaxFrameSize

\* Receive returns the messages whose Send succeeded, in that order and without a
\* gap; and a frame is rejected only after a Send has spent a nonce on a frame
\* that WriteFrame refused.
DeliveredInOrder ==
    \A e \in Ends :
        /\ Len(delivered[e]) <= Len(accepted[Other(e)])
        /\ \A i \in 1..Len(delivered[e]) : delivered[e][i] = accepted[Other(e)][i]
        /\ rejected[e] => \E f \in sealed : f.from = Other(e) /\ Oversized(f.msg)

(***************************************************************************)
(* The session implements Channel.  A direction jams when a nonce is spent *)
(* on a message that WriteFrame will refuse.                               *)
(***************************************************************************)

\* How many messages of end e were accepted before message m.
AcceptedBefore(e, m) == Cardinality({i \in 1..Len(accepted[e]) : accepted[e][i].num < m.num})

Queues == INSTANCE Channel WITH
    Messages <- [num : 1..MaxSends["left"] + MaxSends["right"], size : Sizes],
    put      <- accepted,
    taken    <- delivered,
    jams     <- [e \in Ends |->
                   {AcceptedBefore(e, f.msg) : f \in {h \in sealed : h.from = e /\ Oversized(h.msg)}}]

\* Concurrent senders, counter nonces and two size limits behave like a queue in
\* each direction that may jam (session.go, aead.go, framing.go).
ChannelSpec == Queues!Spec

\* The handshake comes to an end on both ends, on a socket and on a synchronous
\* pipe (PerformHandshake, "to avoid deadlocks on synchronous connections").
HandshakeEnds == <>(\A e \in Ends : hs[e] \in {"ready", "failed"})

=============================================================================
