--------------------------- MODULE DeadlineProofs ---------------------------
(***************************************************************************)
(* The two properties of Heartbeat that are about time, for every          *)
(* interval, timeout, lag and size of a socket: a client that is silent    *)
(* for too long is found (DetectedInTime), and nobody is taken for dead    *)
(* while nobody is frozen (NoFalseAlarm).                                  *)
(*                                                                         *)
(* The inductive invariant is TimingInv.  Its parts are about one client c *)
(* and its peer p, and Step of TimingProofs is all they need to know of a  *)
(* step:                                                                   *)
(*   - how long the handler of c waits for room at p: GetInv, AgeInv,      *)
(*     WaitInv.  While it waits it does not read, so that c is silent;     *)
(*   - when the next tick of both finds it out: NearInv;                   *)
(*   - how long c takes to answer a heartbeat: AnswerInv, SilenceInv, and  *)
(*     with them that nobody is closed while nobody is frozen, FineInv;    *)
(*   - that c is found at the first tick after the timeout: LateInv,       *)
(*     TickInv;                                                            *)
(*   - how many heartbeats are pending at c, by the time the ticker took   *)
(*     to make them: YoungInv, BusyInv, OldInv, and with them that         *)
(*     heartbeats alone do not fill a socket, RoomInv.                     *)
(***************************************************************************)
EXTENDS TimingProofs

\* What the proofs use of the assumptions on the constants.
LEMMA TimeFacts ==
    /\ HeartbeatInterval \in Nat /\ HeartbeatInterval > 0
    /\ HeartbeatTimeout \in Nat /\ HeartbeatTimeout > 0
    /\ MaxLag \in Nat /\ MaxLag > 0
    /\ HeartbeatInterval + 3 * MaxLag <= HeartbeatTimeout
    /\ MaxLag <= HeartbeatInterval
    /\ WireCap \in Nat /\ WireCap >= 2
    /\ SilentCap = HeartbeatTimeout + HeartbeatInterval + 1
<1>1. /\ HeartbeatInterval \in Nat /\ HeartbeatInterval > 0
      /\ HeartbeatTimeout \in Nat /\ HeartbeatTimeout > 0
      /\ MaxLag \in Nat /\ MaxLag > 0 /\ WireCap \in Nat /\ WireCap > 0
  BY HeartbeatAssumption, WireCapAssumption
<1>2. /\ HeartbeatInterval + 3 * MaxLag <= HeartbeatTimeout
      /\ MaxLag <= HeartbeatInterval
      /\ WireCap * HeartbeatInterval > HeartbeatTimeout + 3 * MaxLag
  BY HeartbeatAssumption
<1>3. WireCap # 1
  <2>1. 1 * HeartbeatInterval = HeartbeatInterval
    BY <1>1
  <2> QED
    BY <1>1, <1>2, <2>1
<1> QED
  BY <1>1, <1>2, <1>3 DEF SilentCap

-----------------------------------------------------------------------------
(***************************************************************************)
(* How long a handler waits for room.                                      *)
(***************************************************************************)

Linked(c, p) == Open(c) /\ Open(p)

\* The handler of c waits for room at p.
Blocked(c, p) == Linked(c, p) /\ hpc[c] = "forward"

\* A client that waits for room for its answer while its handler waits.
Halts(c) == owes[c] # "none" /\ out[c] # "none" /\ hpc[c] = "forward"

\* A handler that looks the peer up has just received.
GetInv(c) == Open(c) /\ hpc[c] = "getpeer" => silent[c] = 0

\* p has had unread frames for as long as the handler of c waits.
AgeInv(c, p) ==
    Blocked(c, p) =>
        /\ age[p] >= silent[c] \/ age[p] = MaxLag
        /\ silent[c] > 0 /\ p \in frozen => unread[p] = WireCap

\* The handler goes on at once: no time passes at GetPeer.
LEMMA GetInvStep ==
    ASSUME NEW c \in Clients, NEW p \in Clients, c # p, Known(c, p), GetInv(c),
           Step(c, p) \/ Step(p, c)
    PROVE  GetInv(c)'
<1> USE DEF Known, Calm, SameConn, SamePc, SameSock, SameTime, SameSelf, Same, GetInv, Open
<1>1. CASE Rests(c, p) \/ Rests(p, c)
  BY <1>1 DEF Rests
<1>2. CASE Shuts(c, p) \/ Shuts(p, c) \/ Warns(c, p) \/ Warns(p, c)
  BY <1>2 DEF Shuts, Warns
<1>3. CASE Hears(c, p) \/ Hears(p, c) \/ LooksUp(c, p) \/ LooksUp(p, c)
  BY <1>3 DEF Hears, LooksUp
<1>4. CASE Forwards(c, p) \/ Forwards(p, c)
  BY <1>4 DEF Forwards
<1>5. CASE Ticks(c, p) \/ Ticks(p, c) \/ Beats(c, p) \/ Beats(p, c)
  BY <1>5 DEF Ticks, Beats
<1>6. CASE Reads(c, p) \/ Reads(p, c) \/ Writes(c, p) \/ Writes(p, c)
  BY <1>6 DEF Reads, Writes
<1>7. CASE Freezes(c, p) \/ Freezes(p, c)
  BY <1>7 DEF Freezes
<1>8. CASE Passes(c, p) \/ Passes(p, c)
  BY <1>8 DEF Passes, Ages
<1> QED
  BY <1>1, <1>2, <1>3, <1>4, <1>5, <1>6, <1>7, <1>8 DEF Step

\* It waits from the moment it has received, and only while the socket of p is full.
LEMMA AgeInvStep ==
    ASSUME NEW c \in Clients, NEW p \in Clients, c # p, Known(c, p), Known(p, c),
           GetInv(c), AgeInv(c, p), Step(c, p) \/ Step(p, c)
    PROVE  AgeInv(c, p)'
<1> USE TimeFacts DEF Known, Calm, SameConn, SamePc, SameSock, SameTime, SameSelf, Same, Open,
        Linked, Blocked, GetInv, AgeInv
<1>1. CASE Rests(c, p) \/ Rests(p, c)
  BY <1>1 DEF Rests
<1>2. CASE Shuts(c, p) \/ Shuts(p, c) \/ Warns(c, p) \/ Warns(p, c)
  BY <1>2 DEF Shuts, Warns
<1>3. CASE Hears(c, p) \/ Hears(p, c) \/ LooksUp(c, p) \/ LooksUp(p, c)
  BY <1>3 DEF Hears, LooksUp
<1>4. CASE Forwards(c, p) \/ Forwards(p, c)
  BY <1>4 DEF Forwards
<1>5. CASE Ticks(c, p) \/ Ticks(p, c) \/ Beats(c, p) \/ Beats(p, c)
  BY <1>5 DEF Ticks, Beats
<1>6. CASE Reads(c, p) \/ Reads(p, c) \/ Writes(c, p) \/ Writes(p, c)
  BY <1>6 DEF Reads, Writes
<1>7. CASE Freezes(c, p) \/ Freezes(p, c)
  BY <1>7 DEF Freezes
<1>8. CASE Passes(c, p) \/ Passes(p, c)
  BY <1>8 DEF Passes, Ages
<1> QED
  BY <1>1, <1>2, <1>3, <1>4, <1>5, <1>6, <1>7, <1>8 DEF Step

\* The two wait for each other for good, or p is stuck behind a frozen c.
Jam(c, p) ==
    /\ Halts(p) /\ unread[p] = WireCap /\ unread[c] = WireCap
    /\ c \in frozen \/ Halts(c)

One(b) == IF b THEN 1 ELSE 0

\* c has emptied its socket since p began to wait for room there, so that there is
\* room for what is on its way from p.
Fresh(c, p) ==
    \/ owes[p] = "none"
    \/ unread[c] + One(hpc[p] \in {"getpeer", "forward"}) + One(out[p] = "data")
         + One(owes[p] = "second") + One(bpc[c] = "send") + One(c \in due) <= WireCap

\* How long p has taken to make room: a handler that is first in line may have let one
\* heartbeat go before it.
Lead(p) == IF turn[p] = "relay" THEN 2 * MaxLag ELSE MaxLag

\* The wait of a handler for a peer that is not frozen: as long as p takes to read,
\* and if p waits for room at c, as long as c takes as well.  It ends, unless the
\* two are in a jam.
WaitInv(c, p) ==
    Blocked(c, p) /\ p \notin frozen =>
        \/ silent[c] <= Lead(p) + age[c]
        \/ silent[c] <= Lead(p) + MaxLag /\ (unread[p] < WireCap \/ Fresh(c, p))
        \/ Jam(c, p)

\* The ticker of q fires within an interval and 3 * MaxLag of the silence of c, or
\* its heartbeat waits to be written.
TickNear(c, q) ==
    \/ bpc[q] \in {"send", "done"}
    \/ silent[c] + (IF q \in due THEN 0 ELSE ticker[q]) <= HeartbeatInterval + 3 * MaxLag

\* While the handler of c waits for p, the next tick of p comes in time, and so does
\* the one of c unless p is frozen.
NearInv(c, p) ==
    Blocked(c, p) => TickNear(c, p) /\ (p \notin frozen => TickNear(c, c))

\* A heartbeat is on its way to c.
Beaten(c) == bpc[c] = "send" \/ c \in due \/ beats[c] > 0

\* A client that owes no answer has been silent for an interval at most, or since the
\* heartbeat that it has not read yet.
AnswerInv(c) ==
    Open(c) /\ c \notin frozen /\ owes[c] = "none" /\ out[c] # "beat" /\ bpc[c] # "done" =>
        IF Beaten(c) THEN silent[c] <= HeartbeatInterval + age[c] \/ age[c] = MaxLag
                     ELSE silent[c] + ticker[c] <= HeartbeatInterval

\* While nobody is frozen, nobody is found stale.
FineInv(c) == frozen = {} => Open(c) /\ bpc[c] # "done"

\* While nobody is frozen, a client whose handler can receive is not silent for long.
SilenceInv(c) ==
    frozen = {} /\ hpc[c] # "forward" => silent[c] <= HeartbeatInterval + 3 * MaxLag

\* Every step keeps the bound on the wait: p reads a frame within MaxLag, and the place
\* goes to the one who is first in line.
LEMMA WaitInvStep ==
    ASSUME NEW c \in Clients, NEW p \in Clients, c # p, Known(c, p), Known(p, c),
           GetInv(c), AgeInv(c, p), WaitInv(c, p), Step(c, p) \/ Step(p, c)
    PROVE  WaitInv(c, p)'
<1> USE TimeFacts DEF Known, Calm, SameConn, SamePc, SameSock, SameTime, SameSelf, Same, Open,
        Linked, Blocked, GetInv, AgeInv, WaitInv, Jam, Halts, Fresh, One, Lead, Urgent, Awake
<1>1. CASE Rests(c, p) \/ Rests(p, c)
  BY <1>1 DEF Rests
<1>2. CASE Shuts(c, p) \/ Shuts(p, c) \/ Warns(c, p) \/ Warns(p, c)
  BY <1>2 DEF Shuts, Warns
<1>3. CASE Hears(c, p) \/ Hears(p, c) \/ LooksUp(c, p) \/ LooksUp(p, c)
  BY <1>3 DEF Hears, LooksUp
<1>4. CASE Forwards(c, p) \/ Forwards(p, c)
  BY <1>4 DEF Forwards
<1>5. CASE Ticks(c, p) \/ Ticks(p, c) \/ Beats(c, p) \/ Beats(p, c)
  BY <1>5 DEF Ticks, Beats
<1>6. CASE Reads(c, p) \/ Reads(p, c) \/ Writes(c, p) \/ Writes(p, c)
  BY <1>6 DEF Reads, Writes
<1>7. CASE Freezes(c, p) \/ Freezes(p, c)
  BY <1>7 DEF Freezes
<1>8. CASE Passes(c, p) \/ Passes(p, c)
  BY <1>8 DEF Passes, Ages
<1> QED
  BY <1>1, <1>2, <1>3, <1>4, <1>5, <1>6, <1>7, <1>8 DEF Step

\* Every step keeps the ticks near: a handler starts to wait with silent = 0, and the
\* wait is over before the ticker has fired twice.
LEMMA NearInvStep ==
    ASSUME NEW c \in Clients, NEW p \in Clients, c # p, Known(c, p), Known(p, c),
           GetInv(c), AgeInv(c, p), WaitInv(c, p), NearInv(c, p), Step(c, p) \/ Step(p, c)
    PROVE  NearInv(c, p)'
<1> USE TimeFacts DEF Known, Calm, SameConn, SamePc, SameSock, SameTime, SameSelf, Same, Open,
        Linked, Blocked, GetInv, AgeInv, WaitInv, Jam, Halts, Lead, NearInv, TickNear
<1>1. CASE Rests(c, p) \/ Rests(p, c)
  BY <1>1 DEF Rests
<1>2. CASE Shuts(c, p) \/ Shuts(p, c) \/ Warns(c, p) \/ Warns(p, c)
  BY <1>2 DEF Shuts, Warns
<1>3. CASE Hears(c, p) \/ Hears(p, c) \/ LooksUp(c, p) \/ LooksUp(p, c)
  BY <1>3 DEF Hears, LooksUp
<1>4. CASE Forwards(c, p) \/ Forwards(p, c)
  BY <1>4 DEF Forwards
<1>5. CASE Ticks(c, p) \/ Ticks(p, c) \/ Beats(c, p) \/ Beats(p, c)
  BY <1>5 DEF Ticks, Beats
<1>6. CASE Reads(c, p) \/ Reads(p, c) \/ Writes(c, p) \/ Writes(p, c)
  BY <1>6 DEF Reads, Writes
<1>7. CASE Freezes(c, p) \/ Freezes(p, c)
  BY <1>7 DEF Freezes
<1>8. CASE Passes(c, p) \/ Passes(p, c)
  BY <1>8 DEF Passes, Ages
<1> QED
  BY <1>1, <1>2, <1>3, <1>4, <1>5, <1>6, <1>7, <1>8 DEF Step

\* A heartbeat is written when the ticker fires, read within MaxLag, and answered.
LEMMA AnswerInvStep ==
    ASSUME NEW c \in Clients, NEW p \in Clients, c # p, Known(c, p), Known(c, p)', AnswerInv(c),
           Step(c, p) \/ Step(p, c)
    PROVE  AnswerInv(c)'
<1> USE TimeFacts DEF Known, Calm, SameConn, SamePc, SameSock, SameTime, SameSelf, Same, Open,
        AnswerInv, Beaten, Urgent, Awake
<1>1. CASE Rests(c, p) \/ Rests(p, c)
  BY <1>1 DEF Rests
<1>2. CASE Shuts(c, p) \/ Shuts(p, c) \/ Warns(c, p) \/ Warns(p, c)
  BY <1>2 DEF Shuts, Warns
<1>3. CASE Hears(c, p) \/ Hears(p, c) \/ LooksUp(c, p) \/ LooksUp(p, c)
  BY <1>3 DEF Hears, LooksUp
<1>4. CASE Forwards(c, p) \/ Forwards(p, c)
  BY <1>4 DEF Forwards
<1>5. CASE Ticks(c, p) \/ Ticks(p, c) \/ Beats(c, p) \/ Beats(p, c)
  BY <1>5 DEF Ticks, Beats
<1>6. CASE Reads(c, p) \/ Reads(p, c) \/ Writes(c, p) \/ Writes(p, c)
  BY <1>6 DEF Reads, Writes
<1>7. CASE Freezes(c, p) \/ Freezes(p, c)
  BY <1>7 DEF Freezes
<1>8. CASE Passes(c, p) \/ Passes(p, c)
  BY <1>8 DEF Passes, Ages
<1> QED
  BY <1>1, <1>2, <1>3, <1>4, <1>5, <1>6, <1>7, <1>8 DEF Step

\* A handler that has waited for room was not held for longer than WaitInv says, and
\* one that waits for a frame gets an answer in time.
LEMMA SilenceInvStep ==
    ASSUME NEW c \in Clients, NEW p \in Clients, c # p, Known(c, p), AnswerInv(c), FineInv(c),
           FineInv(p), WaitInv(c, p), SilenceInv(c), Step(c, p) \/ Step(p, c)
    PROVE  SilenceInv(c)'
<1> USE TimeFacts DEF Known, Calm, SameConn, SamePc, SameSock, SameTime, SameSelf, Same, Open,
        AnswerInv, Beaten, Urgent, Awake, FineInv, WaitInv, Jam, Linked, Blocked, Lead, SilenceInv
<1>1. CASE Rests(c, p) \/ Rests(p, c)
  BY <1>1 DEF Rests
<1>2. CASE Shuts(c, p) \/ Shuts(p, c) \/ Warns(c, p) \/ Warns(p, c)
  BY <1>2 DEF Shuts, Warns
<1>3. CASE Hears(c, p) \/ Hears(p, c) \/ LooksUp(c, p) \/ LooksUp(p, c)
  BY <1>3 DEF Hears, LooksUp
<1>4. CASE Forwards(c, p) \/ Forwards(p, c)
  BY <1>4 DEF Forwards
<1>5. CASE Ticks(c, p) \/ Ticks(p, c) \/ Beats(c, p) \/ Beats(p, c)
  BY <1>5 DEF Ticks, Beats
<1>6. CASE Reads(c, p) \/ Reads(p, c) \/ Writes(c, p) \/ Writes(p, c)
  BY <1>6 DEF Reads, Writes
<1>7. CASE Freezes(c, p) \/ Freezes(p, c)
  BY <1>7 DEF Freezes
<1>8. CASE Passes(c, p) \/ Passes(p, c)
  BY <1>8 DEF Passes, Ages
<1> QED
  BY <1>1, <1>2, <1>3, <1>4, <1>5, <1>6, <1>7, <1>8 DEF Step

\* A tick finds nobody stale: SilenceInv and NearInv keep the silence below the timeout.
LEMMA FineInvStep ==
    ASSUME NEW c \in Clients, NEW p \in Clients, c # p, Known(c, p), FineInv(c), FineInv(p),
           SilenceInv(c), NearInv(c, p), Step(c, p) \/ Step(p, c)
    PROVE  FineInv(c)'
<1> USE TimeFacts DEF Known, Calm, SameConn, SamePc, SameSock, SameTime, SameSelf, Same, Open,
        FineInv, SilenceInv, NearInv, TickNear, Linked, Blocked
<1>1. CASE Rests(c, p) \/ Rests(p, c)
  BY <1>1 DEF Rests
<1>2. CASE Shuts(c, p) \/ Shuts(p, c) \/ Warns(c, p) \/ Warns(p, c)
  BY <1>2 DEF Shuts, Warns
<1>3. CASE Hears(c, p) \/ Hears(p, c) \/ LooksUp(c, p) \/ LooksUp(p, c)
  BY <1>3 DEF Hears, LooksUp
<1>4. CASE Forwards(c, p) \/ Forwards(p, c)
  BY <1>4 DEF Forwards
<1>5. CASE Ticks(c, p) \/ Ticks(p, c) \/ Beats(c, p) \/ Beats(p, c)
  BY <1>5 DEF Ticks, Beats
<1>6. CASE Reads(c, p) \/ Reads(p, c) \/ Writes(c, p) \/ Writes(p, c)
  BY <1>6 DEF Reads, Writes
<1>7. CASE Freezes(c, p) \/ Freezes(p, c)
  BY <1>7 DEF Freezes
<1>8. CASE Passes(c, p) \/ Passes(p, c)
  BY <1>8 DEF Passes, Ages
<1> QED
  BY <1>1, <1>2, <1>3, <1>4, <1>5, <1>6, <1>7, <1>8 DEF Step

-----------------------------------------------------------------------------
(***************************************************************************)
(* When a silent client is found.                                          *)
(***************************************************************************)

\* A heartbeat goroutine that has waited since before the deadline has seen the
\* socket full for as long as the client has been late.
LateInv(c) ==
    Open(c) /\ bpc[c] = "send" =>
        \/ silent[c] <= HeartbeatTimeout
        \/ age[c] = MaxLag
        \/ age[c] >= silent[c] - HeartbeatTimeout

\* The socket was full when the goroutine began to wait, and nobody has read it empty.
LEMMA LateInvStep ==
    ASSUME NEW c \in Clients, NEW p \in Clients, c # p, Known(c, p), LateInv(c),
           Step(c, p) \/ Step(p, c)
    PROVE  LateInv(c)'
<1> USE TimeFacts DEF Known, Calm, SameConn, SamePc, SameSock, SameTime, SameSelf, Same, Open,
        LateInv
<1>1. CASE Rests(c, p) \/ Rests(p, c)
  BY <1>1 DEF Rests
<1>2. CASE Shuts(c, p) \/ Shuts(p, c) \/ Warns(c, p) \/ Warns(p, c)
  BY <1>2 DEF Shuts, Warns
<1>3. CASE Hears(c, p) \/ Hears(p, c) \/ LooksUp(c, p) \/ LooksUp(p, c)
  BY <1>3 DEF Hears, LooksUp
<1>4. CASE Forwards(c, p) \/ Forwards(p, c)
  BY <1>4 DEF Forwards
<1>5. CASE Ticks(c, p) \/ Ticks(p, c) \/ Beats(c, p) \/ Beats(p, c)
  BY <1>5 DEF Ticks, Beats
<1>6. CASE Reads(c, p) \/ Reads(p, c) \/ Writes(c, p) \/ Writes(p, c)
  BY <1>6 DEF Reads, Writes
<1>7. CASE Freezes(c, p) \/ Freezes(p, c)
  BY <1>7 DEF Freezes
<1>8. CASE Passes(c, p) \/ Passes(p, c)
  BY <1>8 DEF Passes, Ages
<1> QED
  BY <1>1, <1>2, <1>3, <1>4, <1>5, <1>6, <1>7, <1>8 DEF Step

\* The heartbeat goroutine of c is blocked: c does not read, because it is frozen or
\* because it waits for room for an answer, and its handler waits for a peer that
\* does not read either.
Stuck(c, p) ==
    /\ bpc[c] = "send" /\ unread[c] = WireCap
    /\ \/ c \in frozen
       \/ /\ Halts(c) /\ Open(p) /\ unread[p] = WireCap /\ bpc[p] = "send"
          /\ p \in frozen \/ Halts(p)

\* The tick that finds c comes in time, or the heartbeat goroutine is stuck.
TickInv(c, p) ==
    Open(c) =>
        IF c \in due \/ bpc[c] = "done"
        THEN silent[c] <= HeartbeatTimeout + HeartbeatInterval \/ Stuck(c, p)
        ELSE silent[c] + ticker[c] <= HeartbeatTimeout + HeartbeatInterval

\* A tick before the timeout is followed by one within the interval, and a goroutine
\* that cannot fetch a tick in time is stuck.
LEMMA TickInvStep ==
    ASSUME NEW c \in Clients, NEW p \in Clients, c # p, Known(c, p), Known(p, c), AgeInv(c, p),
           NearInv(c, p), LateInv(c), TickInv(c, p), Step(c, p) \/ Step(p, c)
    PROVE  TickInv(c, p)'
<1> USE TimeFacts DEF Known, Calm, SameConn, SamePc, SameSock, SameTime, SameSelf, Same, Open,
        AgeInv, NearInv, TickNear, LateInv, TickInv, Stuck, Halts, Linked, Blocked, Urgent, Awake
<1>1. CASE Rests(c, p) \/ Rests(p, c)
  BY <1>1 DEF Rests
<1>2. CASE Shuts(c, p) \/ Shuts(p, c) \/ Warns(c, p) \/ Warns(p, c)
  BY <1>2 DEF Shuts, Warns
<1>3. CASE Hears(c, p) \/ Hears(p, c) \/ LooksUp(c, p) \/ LooksUp(p, c)
  BY <1>3 DEF Hears, LooksUp
<1>4. CASE Forwards(c, p) \/ Forwards(p, c)
  BY <1>4 DEF Forwards
<1>5. CASE Ticks(c, p) \/ Ticks(p, c) \/ Beats(c, p) \/ Beats(p, c)
  BY <1>5 DEF Ticks, Beats
<1>6. CASE Reads(c, p) \/ Reads(p, c) \/ Writes(c, p) \/ Writes(p, c)
  BY <1>6 DEF Reads, Writes
<1>7. CASE Freezes(c, p) \/ Freezes(p, c)
  BY <1>7 DEF Freezes
<1>8. CASE Passes(c, p) \/ Passes(p, c)
  BY <1>8 DEF Passes, Ages
<1> QED
  BY <1>1, <1>2, <1>3, <1>4, <1>5, <1>6, <1>7, <1>8 DEF Step

-----------------------------------------------------------------------------
(***************************************************************************)
(* Heartbeats alone do not fill a socket.  They are counted by the time    *)
(* that the ticker took to make them: a client has no more pending than    *)
(* were made since it last had nothing to read.                            *)
(***************************************************************************)

\* The heartbeats that c has not read, those included that wait to be written.
pending == [c \in Clients |-> beats[c] + One(bpc[c] = "send") + One(c \in due)]

\* The time it took the ticker to make them.
load == [c \in Clients |-> pending[c] * HeartbeatInterval]

\* The load of a client is a multiple of the interval.
LEMMA Multiples ==
    ASSUME NEW n \in Nat
    PROVE  /\ n * HeartbeatInterval \in Nat
           /\ (n + 1) * HeartbeatInterval = n * HeartbeatInterval + HeartbeatInterval
           /\ n > 0 => (n - 1) * HeartbeatInterval = n * HeartbeatInterval - HeartbeatInterval
           /\ 0 * HeartbeatInterval = 0
<1>1. HeartbeatInterval \in Nat
  BY TimeFacts
<1> QED
  BY <1>1

\* What is pending before and after a step.
LEMMA PendingFacts ==
    ASSUME NEW c \in Clients, NEW p \in Clients, Known(c, p), Known(c, p)'
    PROVE  /\ pending[c] = beats[c] + One(bpc[c] = "send") + One(c \in due)
           /\ pending'[c] = beats'[c] + One(bpc'[c] = "send") + One(c \in due')
           /\ pending[c] \in Nat /\ pending'[c] \in Nat
           /\ load[c] = pending[c] * HeartbeatInterval /\ load[c] \in Nat
           /\ load'[c] = pending'[c] * HeartbeatInterval /\ load'[c] \in Nat
<1>1. /\ pending[c] = beats[c] + One(bpc[c] = "send") + One(c \in due)
      /\ pending'[c] = beats'[c] + One(bpc'[c] = "send") + One(c \in due')
  BY DEF pending, One
<1>2. pending[c] \in Nat /\ pending'[c] \in Nat
  BY <1>1, TimeFacts DEF Known, One
<1>3. /\ load[c] = pending[c] * HeartbeatInterval
      /\ load'[c] = pending'[c] * HeartbeatInterval
  BY DEF load
<1> QED
  BY <1>1, <1>2, <1>3, Multiples

\* Time adds a heartbeat when the ticker fires.  A client that has nothing to read
\* has nothing pending.
LEMMA LoadGrows ==
    ASSUME NEW c \in Clients, NEW p \in Clients, c # p, Known(c, p), Known(c, p)', Open(c),
           Passes(c, p) \/ Passes(p, c)
    PROVE  /\ load[c] \in Nat
           /\ \/ load'[c] = load[c]
              \/ ticker[c] = 1 /\ load'[c] = load[c] + HeartbeatInterval
           /\ unread[c] = 0 => load[c] = 0
<1> USE DEF Known, Calm, SameConn, SameSelf, Open
<1>1. pending'[c] = pending[c] \/ (ticker[c] = 1 /\ pending'[c] = pending[c] + 1)
  BY PendingFacts, TimeFacts DEF Passes, Ages, One
<1>2. unread[c] = 0 => pending[c] = 0
  BY PendingFacts, TimeFacts DEF Passes, Ages, One
<1>3. load[c] \in Nat /\ pending[c] \in Nat /\ HeartbeatInterval \in Nat
      /\ load[c] = pending[c] * HeartbeatInterval /\ load'[c] = pending'[c] * HeartbeatInterval
  BY PendingFacts, TimeFacts
<1> QED
  BY <1>1, <1>2, <1>3, Multiples

\* No other step adds a heartbeat.  A client that has read everything has nothing
\* pending, and the answer to what it has read is to be written.
LEMMA LoadShrinks ==
    ASSUME NEW c \in Clients, NEW p \in Clients, c # p, Known(c, p), Known(c, p)', Open(c)',
           ~Passes(c, p), ~Passes(p, c), Step(c, p) \/ Step(p, c)
    PROVE  /\ load[c] \in Nat /\ load'[c] \in Nat /\ load'[c] <= load[c]
           /\ Reads(c, p) /\ unread'[c] = 0 => load'[c] = 0
           /\ Reads(c, p) /\ owes'[c] # "none" => load'[c] = load[c] - HeartbeatInterval
<1>1. pending'[c] = pending[c] \/ (pending[c] > 0 /\ pending'[c] = pending[c] - 1)
  <2> USE TimeFacts, PendingFacts DEF Known, Calm, SameConn, SamePc, SameSock, SameTime, SameSelf,
          Same, Open, One
  <2>1. CASE Rests(c, p) \/ Rests(p, c)
    BY <2>1 DEF Rests
  <2>2. CASE Shuts(c, p) \/ Shuts(p, c) \/ Warns(c, p) \/ Warns(p, c)
    BY <2>2 DEF Shuts, Warns
  <2>3. CASE Hears(c, p) \/ Hears(p, c) \/ LooksUp(c, p) \/ LooksUp(p, c)
    BY <2>3 DEF Hears, LooksUp
  <2>4. CASE Forwards(c, p) \/ Forwards(p, c)
    BY <2>4 DEF Forwards
  <2>5. CASE Ticks(c, p) \/ Ticks(p, c) \/ Beats(c, p) \/ Beats(p, c)
    BY <2>5 DEF Ticks, Beats
  <2>6. CASE Reads(c, p) \/ Reads(p, c) \/ Writes(c, p) \/ Writes(p, c)
    BY <2>6 DEF Reads, Writes
  <2>7. CASE Freezes(c, p) \/ Freezes(p, c)
    BY <2>7 DEF Freezes
  <2> QED
    BY <2>1, <2>2, <2>3, <2>4, <2>5, <2>6, <2>7 DEF Step
<1>2. Reads(c, p) /\ unread'[c] = 0 => pending'[c] = 0
  BY TimeFacts, PendingFacts DEF Reads, Calm, Known, SamePc, SameTime, One
<1>3. Reads(c, p) /\ owes'[c] # "none" => pending[c] > 0 /\ pending'[c] = pending[c] - 1
  BY TimeFacts, PendingFacts DEF Reads, Known, SamePc, SameTime, One
<1>4. /\ pending[c] \in Nat /\ load[c] \in Nat /\ load'[c] \in Nat /\ HeartbeatInterval \in Nat
      /\ load[c] = pending[c] * HeartbeatInterval /\ load'[c] = pending'[c] * HeartbeatInterval
  BY PendingFacts, TimeFacts
<1>5. /\ pending'[c] = pending[c] => load'[c] = load[c]
      /\ pending'[c] = 0 => load'[c] = 0
  BY <1>4, Multiples
<1>6. pending[c] > 0 /\ pending'[c] = pending[c] - 1 => load'[c] = load[c] - HeartbeatInterval
  BY <1>4, Multiples
<1> QED
  BY <1>1, <1>2, <1>3, <1>4, <1>5, <1>6

\* A socket whose frames are younger than MaxLag holds what the ticker has made
\* since they came.
YoungInv(c) == Open(c) /\ age[c] < MaxLag => load[c] <= ticker[c] + age[c]

\* Time adds to the age as it adds to the load, and a socket that is read empty starts
\* anew.
LEMMA YoungInvStep ==
    ASSUME NEW c \in Clients, NEW p \in Clients, c # p, Known(c, p), Known(c, p)', YoungInv(c),
           Step(c, p) \/ Step(p, c)
    PROVE  YoungInv(c)'
<1> SUFFICES ASSUME Open(c)'
             PROVE  YoungInv(c)'
  BY DEF YoungInv
<1>1. CASE Passes(c, p) \/ Passes(p, c)
  <2>1. Open(c)
    BY <1>1 DEF Passes, Ages, SameConn, Open
  <2>2. /\ load[c] \in Nat
        /\ \/ load'[c] = load[c]
           \/ ticker[c] = 1 /\ load'[c] = load[c] + HeartbeatInterval
        /\ unread[c] = 0 => load[c] = 0
    BY <1>1, <2>1, LoadGrows
  <2> QED
    BY <1>1, <2>1, <2>2, TimeFacts DEF Passes, Ages, Known, YoungInv
<1>2. CASE ~Passes(c, p) /\ ~Passes(p, c)
  <2>l. /\ load[c] \in Nat /\ load'[c] \in Nat /\ load'[c] <= load[c]
        /\ Reads(c, p) /\ unread'[c] = 0 => load'[c] = 0
    BY <1>2, LoadShrinks
  <2> USE <2>l, TimeFacts DEF Known, Calm, SameConn, SamePc, SameSock, SameTime, SameSelf, Same,
          Open, YoungInv
  <2>1. CASE Rests(c, p) \/ Rests(p, c)
    BY <2>1 DEF Rests
  <2>2. CASE Shuts(c, p) \/ Shuts(p, c) \/ Warns(c, p) \/ Warns(p, c)
    BY <2>2 DEF Shuts, Warns
  <2>3. CASE Hears(c, p) \/ Hears(p, c) \/ LooksUp(c, p) \/ LooksUp(p, c)
    BY <2>3 DEF Hears, LooksUp
  <2>4. CASE Forwards(c, p) \/ Forwards(p, c)
    BY <2>4 DEF Forwards
  <2>5. CASE Ticks(c, p) \/ Ticks(p, c) \/ Beats(c, p) \/ Beats(p, c)
    BY <2>5 DEF Ticks, Beats
  <2>6. CASE Reads(c, p) \/ Reads(p, c) \/ Writes(c, p) \/ Writes(p, c)
    BY <2>6 DEF Reads, Writes
  <2>7. CASE Freezes(c, p) \/ Freezes(p, c)
    BY <2>7 DEF Freezes
  <2> QED
    BY <1>2, <2>1, <2>2, <2>3, <2>4, <2>5, <2>6, <2>7 DEF Step
<1> QED
  BY <1>1, <1>2

\* While a frame of c waits for a handler that is on its way to fetch it, p is not
\* found stale: its heartbeat goroutine has just had its turn, or waits for its own.
BusyInv(c, p) ==
    Open(c) /\ Open(p) /\ out[c] # "none" /\ (hpc[c] # "forward" \/ unread[p] < WireCap) =>
        /\ bpc[p] # "done"
        /\ p \in due => bpc[p] = "send" /\ unread[p] + One(hpc[c] = "forward") = WireCap

\* Frames are written to a socket that was full until a frame was read, one at a time:
\* the handler of c and the heartbeat goroutine of p do not both find room.
LEMMA BusyInvStep ==
    ASSUME NEW c \in Clients, NEW p \in Clients, c # p, Known(c, p), Known(p, c), BusyInv(c, p),
           Step(c, p) \/ Step(p, c)
    PROVE  BusyInv(c, p)'
<1> USE TimeFacts DEF Known, Calm, SameConn, SamePc, SameSock, SameTime, SameSelf, Same, Open,
        BusyInv, One
<1>1. CASE Rests(c, p) \/ Rests(p, c)
  BY <1>1 DEF Rests
<1>2. CASE Shuts(c, p) \/ Shuts(p, c) \/ Warns(c, p) \/ Warns(p, c)
  BY <1>2 DEF Shuts, Warns
<1>3. CASE Hears(c, p) \/ Hears(p, c) \/ LooksUp(c, p) \/ LooksUp(p, c)
  BY <1>3 DEF Hears, LooksUp
<1>4. CASE Forwards(c, p) \/ Forwards(p, c)
  BY <1>4 DEF Forwards
<1>5. CASE Ticks(c, p) \/ Ticks(p, c) \/ Beats(c, p) \/ Beats(p, c)
  BY <1>5 DEF Ticks, Beats
<1>6. CASE Reads(c, p) \/ Reads(p, c) \/ Writes(c, p) \/ Writes(p, c)
  BY <1>6 DEF Reads, Writes
<1>7. CASE Freezes(c, p) \/ Freezes(p, c)
  BY <1>7 DEF Freezes
<1>8. CASE Passes(c, p) \/ Passes(p, c)
  BY <1>8 DEF Passes, Ages
<1> QED
  BY <1>1, <1>2, <1>3, <1>4, <1>5, <1>6, <1>7, <1>8 DEF Step

\* The handler of c cannot go on: p is closed, or does not read.
Held(c, p) ==
    \/ hpc[c] \in {"forward", "untrack"} /\ ~Open(p)
    \/ /\ hpc[c] = "forward" /\ Open(p) /\ unread[p] = WireCap
       /\ p \in frozen \/ (Halts(p) /\ unread[c] = WireCap)

\* What c may have pending, by what keeps it from reading: nothing but its own pace,
\* an answer that waits for p, or for good, it being frozen or held up.  Then it has
\* pending what was made while it was silent, too.
OldInv(c, p) ==
    Open(c) =>
        \/ load[c] <= ticker[c] + age[c]
        \/ c \notin frozen /\ owes[c] = "none" /\ load[c] <= ticker[c] + 2 * MaxLag
        \/ c \notin frozen /\ owes[c] # "none" /\ Open(p) /\ load[c] <= ticker[c] + MaxLag + age[p]
        \/ /\ c \notin frozen /\ owes[c] # "none" /\ (~Open(p) \/ Fresh(p, c))
           /\ load[c] <= ticker[c] + 2 * MaxLag
        \/ c \in frozen /\ out[c] # "none" /\ Open(p) /\ load[c] <= ticker[c] + 2 * MaxLag + age[p]
        \/ /\ \/ c \in frozen /\ out[c] = "none"
              \/ Held(c, p) /\ (c \in frozen \/ (owes[c] # "none" /\ out[c] # "none"))
           /\ silent[c] = SilentCap \/ load[c] <= ticker[c] + 3 * MaxLag + silent[c]

\* A client that is not frozen reads a heartbeat within MaxLag, which takes an interval
\* off its load, or waits for p, which reads within MaxLag, is stuck, or is closed.
LEMMA OldInvStep ==
    ASSUME NEW c \in Clients, NEW p \in Clients, c # p, Known(c, p), Known(c, p)',
           Known(p, c), Known(p, c)', YoungInv(c), BusyInv(c, p), OldInv(c, p),
           Step(c, p) \/ Step(p, c)
    PROVE  OldInv(c, p)'
<1> SUFFICES ASSUME Open(c)'
             PROVE  OldInv(c, p)'
  BY DEF OldInv
<1>1. CASE Passes(c, p) \/ Passes(p, c)
  <2>1. Open(c)
    BY <1>1 DEF Passes, Ages, SameConn, Open
  <2>2. /\ load[c] \in Nat
        /\ \/ load'[c] = load[c]
           \/ ticker[c] = 1 /\ load'[c] = load[c] + HeartbeatInterval
        /\ unread[c] = 0 => load[c] = 0
    BY <1>1, <2>1, LoadGrows
  <2>3. /\ Ages(c) /\ Ages(p) /\ frozen' = frozen /\ Calm(c, p) /\ Calm(p, c)
        /\ ticker'[c] >= ticker[c] - 1
        /\ load[c] - ticker[c] + 1 >= load'[c] - ticker'[c]
    BY <1>1, <2>2, TimeFacts DEF Passes, Ages, Known
  <2>4. /\ SameConn(c) /\ SameConn(p) /\ SameSelf(c) /\ SameSelf(p)
        /\ hpc'[c] = hpc[c] /\ hpc'[p] = hpc[p]
        /\ unread'[c] = unread[c] /\ unread'[p] = unread[p]
        /\ age'[c] = (IF unread[c] = 0 THEN 0 ELSE IF age[c] < MaxLag THEN age[c] + 1 ELSE age[c])
        /\ age'[p] = (IF unread[p] = 0 THEN 0 ELSE IF age[p] < MaxLag THEN age[p] + 1 ELSE age[p])
        /\ silent'[c] = (IF silent[c] < SilentCap THEN silent[c] + 1 ELSE silent[c])
    BY <2>1, <2>3 DEF Ages
  <2>5. Blocked(c, p) /\ unread[p] = WireCap => age[p] < MaxLag \/ Held(c, p)
    BY <2>3, TimeFacts DEF Ages, Known, Calm, Open, Urgent, Awake, Halts, Linked, Blocked, Held
  <2>6. CASE c \in frozen /\ out[c] = "none"
    BY <2>1, <2>2, <2>3, <2>4, <2>6, TimeFacts DEF Known, OldInv, SameSelf
  <2>7. CASE c \in frozen /\ out[c] # "none"
    <3>1. Blocked(c, p) /\ unread[p] = WireCap
      BY <2>1, <2>3, <2>7, TimeFacts DEF Known, Calm, Open, Linked, Blocked
    <3> QED
      BY <2>1, <2>2, <2>3, <2>4, <2>5, <2>7, <3>1, TimeFacts DEF Known, OldInv, SameSelf,
         SameConn, Linked, Blocked, Open, Held, Halts
  <2>8. CASE c \notin frozen /\ owes[c] = "none"
    <3>1. age[c] < MaxLag
      BY <2>1, <2>3, <2>8, TimeFacts DEF Known, Ages, Urgent, Awake, Open
    <3> QED
      BY <2>1, <2>2, <2>3, <2>4, <2>8, <3>1, TimeFacts DEF Known, YoungInv, OldInv
  <2>9. CASE c \notin frozen /\ owes[c] # "none"
    <3>1. Halts(c) /\ Blocked(c, p) /\ unread[p] = WireCap
      BY <2>1, <2>3, <2>9, TimeFacts DEF Known, Calm, Ages, Urgent, Awake, Open, Halts, Linked,
         Blocked
    <3>2. ~Fresh(p, c)
      BY <2>9, <3>1, TimeFacts DEF Fresh, One, Blocked
    <3>3. \/ load[c] <= ticker[c] + MaxLag + age[p]
          \/ Held(c, p) /\ (silent[c] = SilentCap \/ load[c] <= ticker[c] + 3 * MaxLag + silent[c])
      BY <2>1, <2>2, <2>9, <3>1, <3>2, TimeFacts DEF Known, OldInv, Linked, Blocked
    <3>4. CASE load[c] <= ticker[c] + MaxLag + age[p] /\ age[p] < MaxLag
      <4>1. load'[c] <= ticker'[c] + MaxLag + age'[p]
        BY <2>2, <2>3, <2>4, <3>1, <3>4, TimeFacts DEF Known
      <4> QED
        BY <2>3, <2>4, <2>9, <3>1, <4>1 DEF OldInv, SameSelf, SameConn, Linked, Blocked, Open
    <3>5. CASE Held(c, p)
      <4>1. silent'[c] = SilentCap \/ load'[c] <= ticker'[c] + 3 * MaxLag + silent'[c]
        BY <2>2, <2>3, <2>4, <3>3, TimeFacts DEF Known
      <4>2. Held(c, p)' /\ frozen' = frozen /\ owes'[c] # "none" /\ out'[c] # "none"
        BY <2>3, <2>4, <2>9, <3>1, <3>5 DEF Held, Halts, SameSelf, SameConn, Open
      <4> QED
        BY <4>1, <4>2 DEF OldInv
    <3> QED
      BY <2>5, <3>1, <3>3, <3>4, <3>5
  <2> QED
    BY <2>6, <2>7, <2>8, <2>9
<1>2. CASE ~Passes(c, p) /\ ~Passes(p, c)
  <2>l. /\ load[c] \in Nat /\ load'[c] \in Nat /\ load'[c] <= load[c]
        /\ Reads(c, p) /\ unread'[c] = 0 => load'[c] = 0
        /\ Reads(c, p) /\ owes'[c] # "none" => load'[c] = load[c] - HeartbeatInterval
    BY <1>2, LoadShrinks
  <2> USE <2>l, TimeFacts DEF Known, Calm, SameConn, SamePc, SameSock, SameTime, SameSelf, Same,
          Open, OldInv, Held, Halts, Fresh, One, BusyInv, YoungInv
  <2>1. CASE Rests(c, p) \/ Rests(p, c)
    BY <2>1 DEF Rests
  <2>2. CASE Shuts(c, p) \/ Shuts(p, c) \/ Warns(c, p) \/ Warns(p, c)
    BY <2>2 DEF Shuts, Warns
  <2>3. CASE Hears(c, p) \/ Hears(p, c) \/ LooksUp(c, p) \/ LooksUp(p, c)
    BY <2>3 DEF Hears, LooksUp
  <2>4. CASE Forwards(c, p) \/ Forwards(p, c)
    BY <2>4 DEF Forwards
  <2>5. CASE Ticks(c, p) \/ Ticks(p, c) \/ Beats(c, p) \/ Beats(p, c)
    BY <2>5 DEF Ticks, Beats
  <2>6. CASE Reads(c, p) \/ Reads(p, c) \/ Writes(c, p) \/ Writes(p, c)
    BY <2>6 DEF Reads, Writes
  <2>7. CASE Freezes(c, p) \/ Freezes(p, c)
    BY <2>7 DEF Freezes
  <2> QED
    BY <1>2, <2>1, <2>2, <2>3, <2>4, <2>5, <2>6, <2>7 DEF Step
<1> QED
  BY <1>1, <1>2

\* A heartbeat goroutine that waits for room does not wait for heartbeats only.
RoomInv(c) == Open(c) /\ bpc[c] = "send" /\ unread[c] = WireCap => beats[c] < WireCap

\* A tick that is not stale finds a place that is not taken by a heartbeat: with
\* WireCap of them pending, c would have been silent for longer than the timeout.
LEMMA RoomInvStep ==
    ASSUME NEW c \in Clients, NEW p \in Clients, c # p, Known(c, p), Known(c, p)', Known(p, c),
           OldInv(c, p), RoomInv(c), Step(c, p) \/ Step(p, c)
    PROVE  RoomInv(c)'
<1>f. ASSUME Ticks(c, p), silent[c] <= HeartbeatTimeout
      PROVE  beats[c] < WireCap
  <2>1. SUFFICES ASSUME beats[c] = WireCap
                 PROVE  FALSE
    BY TimeFacts DEF Known
  <2>2. /\ Open(c) /\ c \in due /\ bpc[c] = "wait"
        /\ pending[c] = WireCap + 1 /\ load[c] = pending[c] * HeartbeatInterval
    BY <1>f, <2>1, PendingFacts, TimeFacts DEF Ticks, One
  <2>3. load[c] = WireCap * HeartbeatInterval + HeartbeatInterval
    BY <2>2, Multiples, TimeFacts
  <2>4. load[c] <= HeartbeatInterval + 3 * MaxLag + HeartbeatTimeout
    <3>1. load[c] \in Nat
      BY PendingFacts
    <3> QED
      BY <1>f, <2>2, <3>1, TimeFacts DEF OldInv, Known
  <2>5. /\ WireCap * HeartbeatInterval \in Nat
        /\ WireCap * HeartbeatInterval > HeartbeatTimeout + 3 * MaxLag
    BY TimeFacts, HeartbeatAssumption, Multiples
  <2> QED
    BY <2>3, <2>4, <2>5, TimeFacts
<1> USE TimeFacts DEF Known, Calm, SameConn, SamePc, SameSock, SameTime, SameSelf, Same, Open,
        RoomInv
<1>1. CASE Rests(c, p) \/ Rests(p, c)
  BY <1>1 DEF Rests
<1>2. CASE Shuts(c, p) \/ Shuts(p, c) \/ Warns(c, p) \/ Warns(p, c)
  BY <1>2 DEF Shuts, Warns
<1>3. CASE Hears(c, p) \/ Hears(p, c) \/ LooksUp(c, p) \/ LooksUp(p, c)
  BY <1>3 DEF Hears, LooksUp
<1>4. CASE Forwards(c, p) \/ Forwards(p, c)
  BY <1>4 DEF Forwards
<1>5. CASE Ticks(c, p) \/ Ticks(p, c) \/ Beats(c, p) \/ Beats(p, c)
  BY <1>5, <1>f DEF Ticks, Beats
<1>6. CASE Reads(c, p) \/ Reads(p, c) \/ Writes(c, p) \/ Writes(p, c)
  BY <1>6 DEF Reads, Writes
<1>7. CASE Freezes(c, p) \/ Freezes(p, c)
  BY <1>7 DEF Freezes
<1>8. CASE Passes(c, p) \/ Passes(p, c)
  BY <1>8 DEF Passes, Ages
<1> QED
  BY <1>1, <1>2, <1>3, <1>4, <1>5, <1>6, <1>7, <1>8 DEF Step

-----------------------------------------------------------------------------
(***************************************************************************)
(* The inductive invariant, and what follows from it.                      *)
(***************************************************************************)

\* How long c has been silent and how much it has to read, while p is its peer.
PairInv(c, p) ==
    /\ GetInv(c) /\ AgeInv(c, p) /\ WaitInv(c, p) /\ NearInv(c, p)
    /\ AnswerInv(c) /\ SilenceInv(c) /\ FineInv(c)
    /\ LateInv(c) /\ TickInv(c, p)
    /\ YoungInv(c) /\ BusyInv(c, p) /\ OldInv(c, p) /\ RoomInv(c)

TimingInv == BaseInv /\ \A c \in Clients : PairInv(c, Mate(c))

\* The clocks start at zero and the sockets are empty.
LEMMA TimingInit == LinkedInit /\ ClocksStart => TimingInv
<1> SUFFICES ASSUME LinkedInit, ClocksStart
             PROVE  TimingInv
  OBVIOUS
<1>1. BaseInv
  BY BaseInit
<1>2. ASSUME NEW c \in Clients
      PROVE  PairInv(c, Mate(c))
  <2> DEFINE p == Mate(c)
  <2>1. p \in Clients
    BY MateFacts
  <2>2. Known(c, p)
    BY <1>1, KnownFacts
  <2> HIDE DEF p
  <2>3. /\ hpc[c] = "recv" /\ bpc[c] = "wait" /\ unread[c] = 0 /\ Open(c)
        /\ silent[c] = 0 /\ c \notin due /\ owes[c] = "none" /\ out[c] = "none" /\ c \notin frozen
        /\ ticker[c] \in 1..HeartbeatInterval
    BY DEF LinkedInit, ClocksStart, Open
  <2>4. beats[c] = 0 /\ age[c] = 0 /\ pending[c] = 0 /\ load[c] = 0
    <3>1. beats[c] = 0 /\ age[c] = 0
      BY <2>2, <2>3 DEF Known
    <3>2. pending[c] = 0
      BY <2>3, <3>1 DEF pending, One
    <3> QED
      BY <3>1, <3>2, Multiples DEF load
  <2>5. GetInv(c) /\ AgeInv(c, p) /\ WaitInv(c, p) /\ NearInv(c, p) /\ BusyInv(c, p)
    BY <2>3 DEF GetInv, AgeInv, WaitInv, NearInv, Blocked, BusyInv
  <2>6. AnswerInv(c) /\ SilenceInv(c) /\ FineInv(c) /\ LateInv(c) /\ TickInv(c, p)
    BY <2>3, <2>4, TimeFacts DEF AnswerInv, Beaten, SilenceInv, FineInv, LateInv, TickInv
  <2>7. YoungInv(c) /\ OldInv(c, p) /\ RoomInv(c)
    BY <2>3, <2>4, TimeFacts DEF YoungInv, OldInv, RoomInv
  <2> QED
    BY <2>5, <2>6, <2>7 DEF PairInv, p
<1> QED
  BY <1>1, <1>2 DEF TimingInv

\* Every step keeps the deadlines of both clients.
LEMMA TimingStep ==
    ASSUME TimingInv, [TimedNext]_timedVars
    PROVE  TimingInv'
<1>1. BaseInv /\ BaseInv' /\ KnownAll /\ KnownAll'
  BY BaseStep, KnownNow, KnownNext DEF TimingInv
<1>2. PICK d \in Clients : Step(d, Mate(d))
  BY <1>1, StepEffect
<1>3. ASSUME NEW c \in Clients, NEW p \in Clients, p = Mate(c)
      PROVE  PairInv(c, p)'
  <2>1. c # p /\ Mate(p) = c
    BY <1>3, MateFacts
  <2>2. Known(c, p) /\ Known(p, c) /\ Known(c, p)' /\ Known(p, c)'
    BY <1>1, <1>3, <2>1 DEF KnownAll
  <2>3. Step(c, p) \/ Step(p, c)
    BY <1>2, <1>3, MateFacts
  <2>4. /\ GetInv(c) /\ AgeInv(c, p) /\ WaitInv(c, p) /\ NearInv(c, p)
        /\ AnswerInv(c) /\ SilenceInv(c) /\ FineInv(c) /\ LateInv(c) /\ TickInv(c, p)
        /\ YoungInv(c) /\ BusyInv(c, p) /\ OldInv(c, p) /\ RoomInv(c)
        /\ FineInv(p)
    BY <1>3, <2>1 DEF TimingInv, PairInv
  <2>5. GetInv(c)' /\ AgeInv(c, p)' /\ WaitInv(c, p)' /\ NearInv(c, p)'
    BY <2>1, <2>2, <2>3, <2>4, GetInvStep, AgeInvStep, WaitInvStep, NearInvStep
  <2>6. AnswerInv(c)' /\ SilenceInv(c)' /\ FineInv(c)'
    BY <2>1, <2>2, <2>3, <2>4, AnswerInvStep, SilenceInvStep, FineInvStep
  <2>7. LateInv(c)' /\ TickInv(c, p)'
    BY <2>1, <2>2, <2>3, <2>4, LateInvStep, TickInvStep
  <2>8. YoungInv(c)' /\ BusyInv(c, p)' /\ OldInv(c, p)' /\ RoomInv(c)'
    BY <2>1, <2>2, <2>3, <2>4, YoungInvStep, BusyInvStep, OldInvStep, RoomInvStep
  <2> QED
    BY <2>5, <2>6, <2>7, <2>8 DEF PairInv
<1> QED
  BY <1>1, <1>3, MateFacts DEF TimingInv

\* TickInv says when a silent client is found, RoomInv that there is data in its socket.
LEMMA FoundInTime == TimingInv => DetectedInTime
<1> SUFFICES ASSUME TimingInv, NEW c \in Clients, Open(c),
                    silent[c] > HeartbeatTimeout + HeartbeatInterval
             PROVE  /\ bpc[c] = "send" /\ unread[c] = WireCap
                    /\ "data" \in {frames[c][i] : i \in 1..WireCap}
                    /\ \/ c \in frozen
                       \/ owes[c] # "none" /\ hpc[c] = "forward" /\ unread[fwd[c]] = WireCap
  BY DEF DetectedInTime, Open
<1>1. BaseInv /\ Known(c, Mate(c)) /\ TickInv(c, Mate(c)) /\ RoomInv(c)
  BY KnownFacts DEF TimingInv, PairInv
<1>2. Stuck(c, Mate(c))
  BY <1>1, TimeFacts DEF TickInv, Known
<1>3. beats[c] < unread[c] => "data" \in {frames[c][i] : i \in 1..unread[c]}
  BY <1>1, BaseTypes, BeatsType
<1>4. hpc[c] = "forward" => fwd[c] = Mate(c)
  BY <1>1 DEF BaseInv, PeerInv
<1> QED
  BY <1>1, <1>2, <1>3, <1>4 DEF Stuck, Halts, RoomInv

\* A client that is silent for longer than timeout and interval is closed, in every
\* behaviour and for every interval, timeout and size of a socket (StartHeartbeat in
\* client_conn.go): the heartbeat goroutine misses the deadline only while it is
\* itself blocked in Send, behind data that fills the socket.
THEOREM Detected == TimedSpec => []DetectedInTime
<1>1. LinkedInit /\ ClocksStart => TimingInv
  BY TimingInit
<1>2. TimingInv /\ [TimedNext]_timedVars => TimingInv'
  BY TimingStep
<1>3. TimingInv => DetectedInTime
  BY FoundInTime
<1> QED
  BY <1>1, <1>2, <1>3, PTL DEF TimedSpec

\* Nobody is closed as stale while nobody is frozen (StartHeartbeat in
\* client_conn.go, the answer in handleMessages of connector.go and listener.go).
THEOREM NoFalseAlarms == TimedSpec => NoFalseAlarm
<1>1. LinkedInit /\ ClocksStart => TimingInv
  BY TimingInit
<1>2. TimingInv /\ [TimedNext]_timedVars => TimingInv'
  BY TimingStep
<1>3. TimingInv /\ TimingInv' /\ [TimedNext]_timedVars
        => [(\E c \in Clients : FoundStale(c)) => frozen # {}]_timedVars
  <2> SUFFICES ASSUME TimingInv, TimingInv', [TimedNext]_timedVars, NEW c \in Clients,
                      FoundStale(c), frozen = {}
               PROVE  FALSE
    OBVIOUS
  <2>1. FineInv(c) /\ FineInv(c)'
    BY DEF TimingInv, PairInv
  <2>2. bpc[c] # "done" /\ bpc'[c] = "done"
    BY <2>1 DEF FineInv, TimingInv, BaseInv, IInv, CallInv, FoundStale
  <2>3. frozen' = frozen
    <3>1. PICK d \in Clients : Step(d, Mate(d))
      BY StepEffect DEF TimingInv
    <3>2. Freezes(d, Mate(d)) => bpc'[c] = bpc[c]
      BY MateFacts DEF Freezes, Same, SamePc
    <3> QED
      BY <2>2, <3>1, <3>2 DEF Step, Rests, Shuts, Warns, Hears, LooksUp, Forwards, Ticks, Beats,
         Reads, Writes, Passes
  <2> QED
    BY <2>1, <2>2, <2>3 DEF FineInv
<1> QED
  BY <1>1, <1>2, <1>3, PTL DEF TimedSpec, NoFalseAlarm

=============================================================================
