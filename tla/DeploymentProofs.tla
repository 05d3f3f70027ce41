-------------------------- MODULE DeploymentProofs --------------------------
(***************************************************************************)
(* Proofs about Deployment, for any setting of the retries and the         *)
(* backoff, any feed, any filters and any number of faults: what the       *)
(* reconnect loop promises whatever the broker does, and what the broker's *)
(* filters promise whatever becomes of its process.                        *)
(***************************************************************************)
EXTENDS Deployment, SequenceTheorems, TLAPS

-----------------------------------------------------------------------------
(***************************************************************************)
(* The backoff.                                                            *)
(***************************************************************************)

\* A delay lies within the jitter around its base, and is at most twice MaxDelay.
LEMMA DelayBounds ==
    ASSUME NEW base \in 0..MaxDelay, NEW fraction \in JitterFractions,
           NEW d, d = (base * (100 + Jitter * fraction)) \div 100
    PROVE  /\ d \in 0..(2 * MaxDelay)
           /\ 100 * d <= base * (100 + Jitter)
           /\ 100 * d > base * (100 - Jitter) - 100
<1>1. base \in Nat /\ MaxDelay \in Nat /\ Jitter \in Nat /\ Jitter <= 100 /\ base <= MaxDelay
  BY ReconnectAssumption
<1>2. PICK p \in Nat : p = base * Jitter
  BY <1>1
<1>3. p <= 100 * base
  BY <1>1, <1>2
<1>4. /\ base * (100 + Jitter) = 100 * base + p
      /\ base * (100 - Jitter) = 100 * base - p
  BY <1>1, <1>2
<1>5. PICK x \in Nat : /\ d = x \div 100
                       /\ x <= 100 * base + p
                       /\ x >= 100 * base - p
  <2>1. CASE fraction = 1
    BY <1>1, <1>2, <1>4, <2>1
  <2>2. CASE fraction = 0
    BY <1>1, <1>2, <1>4, <2>2
  <2>3. CASE fraction = -1
    <3>1. base * (100 + Jitter * fraction) = 100 * base - p
      BY <1>1, <1>4, <2>3
    <3> QED
      BY <1>1, <1>2, <1>3, <3>1
  <2> QED
    BY <2>1, <2>2, <2>3 DEF JitterFractions
<1>6. d \in Nat /\ 100 * d <= x /\ 100 * d > x - 100
  BY <1>5
<1> QED
  BY <1>1, <1>2, <1>3, <1>4, <1>5, <1>6

\* The base of a delay, and that it does not grow beyond the bound of the counter.
LEMMA BaseBounds ==
    /\ \A n \in 0..(AttemptCap + 1) : BaseDelay(n) \in 0..MaxDelay
    /\ BaseDelay(AttemptCap) = MaxDelay
    /\ BaseDelay(AttemptCap + 1) = MaxDelay
<1>1. \A n \in 0..(AttemptCap + 1) : InitialDelay * Factor ^ n \in Nat
  BY ReconnectAssumption
<1> QED
  BY <1>1, ReconnectAssumption DEF BaseDelay

-----------------------------------------------------------------------------
(***************************************************************************)
(* The inductive invariant of the reconnect loop.                          *)
(***************************************************************************)

\* Where the loop goes round: the counter counts the failures.
RoundPhases == StartPhases \cup {"top", "poll", "cleanup", "delay"}

\* The client decides what is held; it runs only while it is watched or about to
\* be closed by the end of the loop.
HeldInv ==
    /\ socks = IF at \in StartPhases \ {"dial"} \/ client \in {"live", "closing"} THEN 1 ELSE 0
    /\ client \notin {"live", "closing"} => port = "free"
    /\ client = "starting" <=> at \in StartPhases
    /\ client = "live" => at \in {"watch", "quit"}
    /\ at = "watch" => client \in {"live", "closing", "closed"}
    /\ at = "delay" => client = "nil"

\* The loop variable and the failures in a row: equal once a connection was up,
\* one apart before, up to the bound.
CountInv ==
    /\ first => /\ attempt = 0
                /\ failures = 0
                /\ at \in StartPhases \cup {"watch", "quit", "returned"}
                /\ at \in StartPhases => ~everUp
    /\ at = "watch" => everUp /\ failures = 0 /\ (~first => attempt = -1)
    /\ at \in RoundPhases => attempt >= 0
    /\ at \in RoundPhases /\ ~first =>
          IF everUp
          THEN attempt = failures \/ (attempt = AttemptCap /\ failures = AttemptCap + 1)
          ELSE failures = attempt + 1

\* The check at the top of the loop holds until the next failure.
RetryInv ==
    /\ result # "none" <=> at = "returned"
    /\ maxRetries >= 0 =>
          /\ at \in RoundPhases \ {"top"} /\ ~first => attempt < maxRetries
          /\ at = "top" => attempt <= maxRetries

WaitInv ==
    /\ at = "delay" => \E fraction \in JitterFractions : wait = Delay(attempt, fraction)

LoopInv ==
    /\ TypeOK
    /\ HeldInv
    /\ CountInv
    /\ RetryInv
    /\ RetriesExact
    /\ WaitInv

\* The loop starts in its invariant.
LEMMA LoopInvInit == Init => LoopInv
<1> SUFFICES ASSUME Init PROVE LoopInv
  OBVIOUS
<1>1. TypeOK
  <2>1. 0 \in -1..AttemptCap /\ 0 \in 0..(2 * MaxDelay) /\ 0 \in 0..(AttemptCap + 1)
    BY ReconnectAssumption
  <2>2. first \in BOOLEAN /\ cancelled \in BOOLEAN /\ everUp \in BOOLEAN
    BY DEF Init
  <2>3. at \in StartPhases
    BY DEF Init, StartPhases
  <2> QED
    BY <2>1, <2>2, <2>3 DEF Init, TypeOK
<1>2. HeldInv /\ WaitInv
  BY DEF Init, HeldInv, WaitInv, StartPhases
<1>3. CountInv /\ RetryInv /\ RetriesExact
  BY <1>1, ReconnectAssumption DEF Init, CountInv, RetryInv, RetriesExact, StartPhases, RoundPhases, TypeOK
<1> QED
  BY <1>1, <1>2, <1>3 DEF LoopInv

\* The numbers of the loop.
LEMMA LoopNumbers ==
    ASSUME TypeOK
    PROVE  /\ AttemptCap \in Nat
           /\ maxRetries \in Int /\ maxRetries >= -1 /\ maxRetries <= AttemptCap - 2
           /\ attempt \in Int /\ attempt >= -1 /\ attempt <= AttemptCap
           /\ failures \in Nat /\ failures <= AttemptCap + 1
BY ReconnectAssumption DEF TypeOK

\* connect succeeds.
LEMMA ConnectedStep ==
    ASSUME LoopInv, at \in StartPhases, Connected, socks' = 1, port' \in {"free", "bound"},
           socks = 1
    PROVE  LoopInv'
<1> USE DEF LoopInv
<1>1. /\ at' = "watch" /\ client' = "live" /\ everUp' = TRUE /\ failures' = 0
      /\ attempt' = IF first THEN attempt ELSE -1
      /\ UNCHANGED <<maxRetries, command, first, wait, cancelled, result>>
  BY DEF Connected, setting
<1>2. TypeOK'
  BY <1>1, LoopNumbers DEF TypeOK, LoopPhases
<1>3. HeldInv' /\ WaitInv'
  BY <1>1 DEF HeldInv, WaitInv, StartPhases
<1>4. CountInv' /\ RetryInv'
  BY <1>1 DEF CountInv, RetryInv, StartPhases, RoundPhases
<1>5. RetriesExact'
  BY <1>1, LoopNumbers DEF RetriesExact, RetryInv, StartPhases
<1> QED
  BY <1>2, <1>3, <1>4, <1>5

\* connect fails: the counter and the failures grow together, and neither beyond
\* the limit of the retries.
LEMMA ConnectFailsStep ==
    ASSUME LoopInv, at \in StartPhases, ConnectFails, socks' = 0
    PROVE  LoopInv'
<1> USE DEF LoopInv
<1>1. /\ client' = "failed" /\ first' = FALSE
      /\ failures' = IF failures <= AttemptCap THEN failures + 1 ELSE failures
      /\ attempt' = IF first \/ ~(attempt < AttemptCap) THEN attempt ELSE attempt + 1
      /\ \/ at' = "returned" /\ result' = "error" /\ first /\ maxRetries = 0
         \/ at' = "top" /\ result' = result /\ ~(first /\ maxRetries = 0)
      /\ UNCHANGED <<maxRetries, command, wait, cancelled, everUp, port>>
  BY DEF ConnectFails, setting, NextAttempt, Return
<1>2. TypeOK'
  <2>1. attempt' \in -1..AttemptCap /\ failures' \in 0..(AttemptCap + 1)
    BY <1>1, LoopNumbers
  <2>2. first' \in BOOLEAN
    BY <1>1
  <2>3. at' \in LoopPhases
    BY <1>1 DEF LoopPhases
  <2> QED
    BY <1>1, <2>1, <2>2, <2>3 DEF TypeOK
<1>3. HeldInv' /\ WaitInv'
  BY <1>1 DEF HeldInv, WaitInv, StartPhases
<1>4. CountInv'
  BY <1>1, LoopNumbers DEF CountInv, StartPhases, RoundPhases
<1>5. RetryInv'
  BY <1>1, LoopNumbers DEF CountInv, RetryInv, StartPhases, RoundPhases
<1>6. RetriesExact'
  BY <1>1, LoopNumbers DEF RetriesExact, CountInv, RetryInv, StartPhases, RoundPhases
<1> QED
  BY <1>2, <1>3, <1>4, <1>5, <1>6

\* A step that changes only what is held.
LEMMA HeldStep ==
    ASSUME LoopInv, UNCHANGED <<setting, loop, cancelled>> \/ UNCHANGED <<setting, loop, held>>,
           HeldInv',
           client' \in {"nil", "starting", "failed", "live", "closing", "closed"},
           cancelled' \in BOOLEAN, socks' \in 0..2, port' \in {"free", "bound"}
    PROVE  LoopInv'
<1>1. UNCHANGED <<maxRetries, command, at, attempt, first, wait, everUp, failures, result>>
  BY DEF setting, loop
<1> QED
  BY <1>1 DEF LoopInv, TypeOK, CountInv, RetryInv, RetriesExact, WaitInv, Delay, BaseDelay

\* The operations of Start.
LEMMA StartStep ==
    ASSUME LoopInv, StartRuns
    PROVE  LoopInv'
<1> USE DEF LoopInv
<1>1. ASSUME NEW to, to \in StartPhases \ {"dial"}, at \in StartPhases, at' = to,
             socks' = 1,
             UNCHANGED <<setting, attempt, first, wait, everUp, failures, result, cancelled, client, port>>
      PROVE  LoopInv'
  <2>1. at' \in StartPhases /\ at' \in RoundPhases /\ at' \notin {"dial", "watch", "top", "delay", "returned", "quit"}
        /\ at \in RoundPhases /\ at # "returned" /\ at # "top"
    BY <1>1 DEF StartPhases, RoundPhases
  <2>2. UNCHANGED <<maxRetries, command>>
    BY <1>1 DEF setting
  <2>3. TypeOK'
    BY <1>1, <2>1, <2>2 DEF TypeOK
  <2>4. HeldInv' /\ WaitInv'
    BY <1>1, <2>1 DEF HeldInv, WaitInv
  <2>5. CountInv' /\ RetryInv' /\ RetriesExact'
    BY <1>1, <2>1, <2>2 DEF CountInv, RetryInv, RetriesExact
  <2> QED
    BY <2>3, <2>4, <2>5
<1>2. at \in StartPhases \ {"dial"} => socks = 1
  BY DEF HeldInv
<1>3. at = "dial" => socks = 0
  BY DEF HeldInv, StartPhases
<1>4. CASE Dial
  BY <1>1, <1>3, <1>4 DEF Dial, StartPhases
<1>5. CASE DialFails
  BY <1>3, <1>5, ConnectFailsStep DEF DialFails, StartPhases
<1>6. CASE Handshake \/ SendAuthenticate \/ SendRequest \/ Proceed("ack", "listen")
  BY <1>1, <1>2, <1>6 DEF Handshake, SendAuthenticate, SendRequest, Proceed, held, StartPhases
<1>7. CASE at = "ack" /\ Connected /\ UNCHANGED <<socks, port>>
  BY <1>2, <1>7, ConnectedStep DEF StartPhases, TypeOK
<1>8. CASE ListenLocal
  BY <1>2, <1>8, ConnectedStep DEF ListenLocal, StartPhases
<1>9. CASE StartFails
  BY <1>2, <1>9, ConnectFailsStep DEF StartFails
<1> QED
  BY <1>4, <1>5, <1>6, <1>7, <1>8, <1>9 DEF StartRuns, ReceiveAck

\* The steps of the client and of the user.
LEMMA ClientStep ==
    ASSUME LoopInv, ClientLost \/ ClientClosed \/ CleanUpCloses \/ Cancel \/ UNCHANGED vars
    PROVE  LoopInv'
<1> USE DEF LoopInv
<1>1. CASE ClientLost \/ CleanUpCloses
  <2>1. HeldInv'
    BY <1>1 DEF ClientLost, CleanUpCloses, HeldInv, loop
  <2> QED
    BY <1>1, <2>1, HeldStep DEF ClientLost, CleanUpCloses, TypeOK
<1>2. CASE ClientClosed
  <2>1. socks = 1 /\ socks' = 0
    BY <1>2 DEF ClientClosed, HeldInv
  <2>2. HeldInv'
    BY <1>2, <2>1 DEF ClientClosed, HeldInv, loop
  <2> QED
    BY <1>2, <2>1, <2>2, HeldStep DEF ClientClosed, TypeOK
<1>3. CASE Cancel \/ UNCHANGED vars
  <2>1. HeldInv'
    BY <1>3 DEF Cancel, vars, HeldInv, loop, held
  <2>2. cancelled' \in BOOLEAN
    BY <1>3 DEF Cancel, vars, TypeOK
  <2> QED
    BY <1>3, <2>1, <2>2, HeldStep DEF Cancel, vars, TypeOK, held
<1> QED
  BY <1>1, <1>2, <1>3

\* The steps of the loop itself.
LEMMA RoundStep ==
    ASSUME LoopInv, LoopRuns, ~CleanUpCloses
    PROVE  LoopInv'
<1> USE DEF LoopInv
<1>1. CASE WatchCancelled
  <2>1. /\ at = "watch" /\ at' = "quit"
        /\ UNCHANGED <<maxRetries, command, attempt, first, wait, everUp, failures, result,
                       cancelled, client, socks, port>>
    BY <1>1 DEF WatchCancelled, setting, held
  <2>2. TypeOK' /\ HeldInv' /\ WaitInv'
    BY <2>1 DEF TypeOK, HeldInv, WaitInv, StartPhases, LoopPhases
  <2>3. CountInv' /\ RetryInv' /\ RetriesExact'
    BY <2>1 DEF CountInv, RetryInv, RetriesExact, StartPhases, RoundPhases
  <2> QED
    BY <2>2, <2>3
<1>2. CASE WatchLost
  <2>1. /\ at = "watch" /\ client \in {"closing", "closed"}
        /\ \/ at' = "returned" /\ result' = "nil" /\ first /\ maxRetries = 0
           \/ at' = "top" /\ result' = result /\ ~(first /\ maxRetries = 0)
        /\ first' = FALSE
        /\ attempt' = IF first \/ ~(attempt < AttemptCap) THEN attempt ELSE attempt + 1
        /\ UNCHANGED <<maxRetries, command, wait, everUp, failures, cancelled, client, socks, port>>
    BY <1>2 DEF WatchLost, setting, held, NextAttempt, Return
  <2>2. /\ everUp /\ failures = 0 /\ attempt' = 0
        /\ attempt' \in -1..AttemptCap /\ first' \in BOOLEAN
    <3>1. everUp /\ failures = 0 /\ (first => attempt = 0) /\ (~first => attempt = -1)
      BY <2>1 DEF CountInv
    <3>2. first' \in BOOLEAN
      BY <2>1
    <3>3. attempt' = 0
      BY <2>1, <3>1, LoopNumbers
    <3> QED
      BY <3>1, <3>2, <3>3, LoopNumbers
  <2>3. at' \in LoopPhases
    BY <2>1 DEF LoopPhases
  <2>4. TypeOK'
    BY <2>1, <2>2, <2>3 DEF TypeOK
  <2>5. HeldInv' /\ WaitInv'
    BY <2>1 DEF HeldInv, WaitInv, StartPhases
  <2>6. CountInv' /\ RetryInv' /\ RetriesExact'
    BY <2>1, <2>2, LoopNumbers DEF CountInv, RetryInv, RetriesExact, StartPhases, RoundPhases
  <2> QED
    BY <2>4, <2>5, <2>6
<1>3. CASE LoopTop
  <2>1. /\ at = "top"
        /\ \/ at' = "returned" /\ result' = "exhausted" /\ maxRetries >= 0 /\ attempt >= maxRetries
           \/ at' = "poll" /\ result' = result /\ ~(maxRetries >= 0 /\ attempt >= maxRetries)
        /\ UNCHANGED <<maxRetries, command, attempt, first, wait, everUp, failures, cancelled,
                       client, socks, port>>
    BY <1>3 DEF LoopTop, OutOfRetries, setting, held, Return
  <2>2. ~first
    BY <2>1 DEF CountInv, StartPhases
  <2>3. TypeOK' /\ HeldInv' /\ WaitInv'
    BY <2>1 DEF TypeOK, HeldInv, WaitInv, StartPhases, LoopPhases
  <2>4. CountInv' /\ RetryInv'
    BY <2>1, <2>2, LoopNumbers DEF CountInv, RetryInv, StartPhases, RoundPhases
  <2>5. RetriesExact'
    BY <2>1, <2>2, LoopNumbers DEF CountInv, RetryInv, RetriesExact, StartPhases, RoundPhases
  <2> QED
    BY <2>3, <2>4, <2>5
<1>4. CASE PollContext
  <2>1. /\ at = "poll" /\ at' \in {"quit", "cleanup"}
        /\ UNCHANGED <<maxRetries, command, attempt, first, wait, everUp, failures, result,
                       cancelled, client, socks, port>>
    BY <1>4 DEF PollContext, setting, held
  <2>2. TypeOK' /\ HeldInv' /\ WaitInv'
    BY <2>1 DEF TypeOK, HeldInv, WaitInv, StartPhases, LoopPhases
  <2>3. CountInv' /\ RetryInv' /\ RetriesExact'
    BY <2>1 DEF CountInv, RetryInv, RetriesExact, StartPhases, RoundPhases
  <2> QED
    BY <2>2, <2>3
<1>5. CASE CleanUpForRetry
  <2>1. /\ at = "cleanup" /\ at' = "delay" /\ client \notin {"live", "closing"} /\ client' = "nil"
        /\ UNCHANGED <<maxRetries, command, attempt, first, everUp, failures, result,
                       cancelled, socks, port>>
    BY <1>5 DEF CleanUpForRetry, CleanUp, setting
  <2>2. PICK fraction \in JitterFractions : wait' = Delay(attempt, fraction)
    BY <1>5 DEF CleanUpForRetry
  <2>3. WaitInv'
    BY <2>1, <2>2 DEF WaitInv, Delay, BaseDelay
  <2>4. BaseDelay(attempt) \in 0..MaxDelay
    <3>1. attempt \in 0..(AttemptCap + 1)
      BY <2>1, LoopNumbers DEF CountInv, RoundPhases
    <3> QED
      BY <3>1, BaseBounds
  <2>5. wait' \in 0..(2 * MaxDelay)
    BY <2>2, <2>4, DelayBounds DEF Delay
  <2>6. TypeOK'
    BY <2>1, <2>5 DEF TypeOK, LoopPhases
  <2>7. HeldInv'
    BY <2>1 DEF HeldInv, StartPhases
  <2>8. CountInv' /\ RetryInv' /\ RetriesExact'
    BY <2>1 DEF CountInv, RetryInv, RetriesExact, StartPhases, RoundPhases
  <2> QED
    BY <2>3, <2>6, <2>7, <2>8
<1>6. CASE DelayOver
  <2>1. /\ at = "delay" /\ at' = "dial" /\ client' = "starting" /\ wait' = 0
        /\ UNCHANGED <<maxRetries, command, attempt, first, everUp, failures, result,
                       cancelled, socks, port>>
    BY <1>6 DEF DelayOver, setting
  <2>2. TypeOK'
    <3>1. wait' \in 0..(2 * MaxDelay)
      BY <2>1, ReconnectAssumption
    <3> QED
      BY <2>1, <3>1 DEF TypeOK, StartPhases
  <2>3. HeldInv' /\ WaitInv'
    BY <2>1 DEF HeldInv, WaitInv, StartPhases
  <2>4. CountInv' /\ RetryInv' /\ RetriesExact'
    BY <2>1 DEF CountInv, RetryInv, RetriesExact, StartPhases, RoundPhases
  <2> QED
    BY <2>2, <2>3, <2>4
<1>7. CASE DelayCancelled
  <2>1. /\ at = "delay" /\ at' = "quit" /\ wait' = 0
        /\ UNCHANGED <<maxRetries, command, attempt, first, everUp, failures, result,
                       cancelled, client, socks, port>>
    BY <1>7 DEF DelayCancelled, setting, held
  <2>2. TypeOK'
    <3>1. wait' \in 0..(2 * MaxDelay)
      BY <2>1, ReconnectAssumption
    <3> QED
      BY <2>1, <3>1 DEF TypeOK, LoopPhases
  <2>3. HeldInv' /\ WaitInv'
    BY <2>1 DEF HeldInv, WaitInv, StartPhases
  <2>4. CountInv' /\ RetryInv' /\ RetriesExact'
    BY <2>1 DEF CountInv, RetryInv, RetriesExact, StartPhases, RoundPhases
  <2> QED
    BY <2>2, <2>3, <2>4
<1>8. CASE Quit
  <2>1. /\ at = "quit" /\ at' = "returned" /\ result' = "ctx"
        /\ client \notin {"live", "closing"} /\ client' = "nil"
        /\ UNCHANGED <<maxRetries, command, attempt, first, wait, everUp, failures,
                       cancelled, socks, port>>
    BY <1>8 DEF Quit, CleanUp, Return, setting
  <2>2. TypeOK' /\ HeldInv' /\ WaitInv'
    BY <2>1 DEF TypeOK, HeldInv, WaitInv, StartPhases, LoopPhases
  <2>3. CountInv' /\ RetryInv' /\ RetriesExact'
    BY <2>1 DEF CountInv, RetryInv, RetriesExact, StartPhases, RoundPhases
  <2> QED
    BY <2>2, <2>3
<1> QED
  BY <1>1, <1>2, <1>3, <1>4, <1>5, <1>6, <1>7, <1>8 DEF LoopRuns

\* Every step of the loop preserves its invariant.
LEMMA LoopInvStep == LoopInv /\ [Next]_vars => LoopInv'
BY StartStep, ClientStep, RoundStep DEF Next, LoopRuns, Terminated

\* The loop ends with the context's error only after a cancellation and a cleanup.
CancelInv ==
    /\ at = "quit" => cancelled
    /\ result = "ctx" => at = "returned" /\ cancelled /\ client = "nil"

LEMMA CancelInvStep == CancelInv /\ [Next]_vars => CancelInv'
<1> SUFFICES ASSUME CancelInv, [Next]_vars PROVE CancelInv'
  OBVIOUS
<1> USE DEF CancelInv
<1>1. CASE StartRuns
  <2>1. /\ at \in StartPhases
        /\ at' \in StartPhases \cup {"watch", "top", "returned"}
        /\ result' \in {result, "error"}
    BY <1>1 DEF StartRuns, Dial, DialFails, Handshake, SendAuthenticate, SendRequest, Proceed,
       ReceiveAck, ListenLocal, StartFails, Connected, ConnectFails, Return, StartPhases
  <2> QED
    BY <2>1 DEF StartPhases
<1>2. CASE LoopRuns
  <2>1. CASE Quit
    BY <2>1 DEF Quit, CleanUp, Return
  <2>2. CASE CleanUpCloses
    BY <2>2 DEF CleanUpCloses, loop
  <2>3. CASE LoopRuns /\ ~Quit /\ ~CleanUpCloses
    <3>1. /\ at # "returned"
          /\ at' = "quit" => cancelled
          /\ cancelled' = cancelled
          /\ result' \in {result, "nil", "exhausted"}
      BY <2>3 DEF LoopRuns, WatchCancelled, WatchLost, LoopTop, PollContext, CleanUpForRetry,
         DelayOver, DelayCancelled, Return
    <3> QED
      BY <3>1
  <2> QED
    BY <1>2, <2>1, <2>2, <2>3
<1>3. CASE Cancel
  BY <1>3 DEF Cancel, loop, held
<1>4. CASE ClientLost \/ ClientClosed
  BY <1>4 DEF ClientLost, ClientClosed, loop
<1>5. CASE Terminated \/ UNCHANGED vars
  BY <1>5 DEF Terminated, vars, loop, held
<1> QED
  BY <1>1, <1>2, <1>3, <1>4, <1>5 DEF Next

\* The invariant of the loop always holds, whatever the broker answers.
LEMMA LoopInvariance == Spec => []LoopInv
BY LoopInvInit, LoopInvStep, PTL DEF Spec

-----------------------------------------------------------------------------
(***************************************************************************)
(* What the loop promises, in Deployment and under any other broker.       *)
(***************************************************************************)

\* A step of the deployment is a step of the reconnect loop, or none.
LEMMA LoopOfSystem == [SystemNext]_systemVars => [Next]_vars
BY DEF SystemNext, systemVars, BrokerStarts, BrokerEnds, BrokerHangs, BrokerAccepts,
       BrokerIsFull, BrokerMistrusts, BrokerAnswers, BrokerNotices, ListenerRegisters,
       PlaceTaken, OthersLeave, LinkCut, ClientDials, ClientCannotDial, ClientStarts,
       ClientCannotStart, ClientNoticesLoss, ClientCloses, LoopStep, UserCancels, Next, StartRuns

\* The deployment implements the reconnect loop alone, whose broker may answer or
\* fail at any time.
THEOREM DeploymentImplementsReconnect == SystemSpec => Spec
<1>1. SystemInit => Init
  BY DEF SystemInit
<1> QED
  BY <1>1, LoopOfSystem, PTL DEF SystemSpec, Spec

\* RunWithReconnect calls connect as often as MaxRetries says: never once more, and
\* it does not give up earlier.
THEOREM LoopRetries == SystemSpec => []RetriesExact
<1>1. LoopInv => RetriesExact
  BY DEF LoopInv
<1> QED
  BY <1>1, LoopInvariance, DeploymentImplementsReconnect, PTL

\* Two clients never hold a connection to the broker or the local port at once, and
\* after a cancellation the last one is closed.
THEOREM LoopOneClient == SystemSpec => []OneClient
<1>1. LoopInv /\ CancelInv => OneClient
  BY DEF LoopInv, HeldInv, CancelInv, OneClient, StartPhases, TypeOK
<1>2. Init => CancelInv
  BY DEF Init, CancelInv
<1>3. Spec => []CancelInv
  BY <1>2, CancelInvStep, PTL DEF Spec
<1> QED
  BY <1>1, <1>3, LoopInvariance, DeploymentImplementsReconnect, PTL

\* The n-th delay is the n-th power of the factor up to MaxDelay and the jitter,
\* and the series starts again after a connection.
THEOREM LoopBackoff == SystemSpec => []BackoffLaw
<1>1. LoopInv => BackoffLaw
  <2> DEFINE n == IF everUp THEN failures ELSE failures - 1
  <2> SUFFICES ASSUME LoopInv, at = "delay"
               PROVE  /\ 100 * wait <= BaseDelay(n) * (100 + Jitter)
                      /\ 100 * wait > BaseDelay(n) * (100 - Jitter) - 100
    BY DEF BackoffLaw
  <2>1. PICK fraction \in JitterFractions : wait = Delay(attempt, fraction)
    BY DEF LoopInv, WaitInv
  <2>2. /\ attempt \in 0..AttemptCap
        /\ n = attempt \/ (attempt = AttemptCap /\ n = AttemptCap + 1)
    BY LoopNumbers DEF LoopInv, CountInv, RoundPhases, StartPhases
  <2>3. BaseDelay(n) = BaseDelay(attempt) /\ BaseDelay(attempt) \in 0..MaxDelay
    BY <2>2, BaseBounds, LoopNumbers DEF LoopInv
  <2>4. /\ 100 * wait <= BaseDelay(attempt) * (100 + Jitter)
        /\ 100 * wait > BaseDelay(attempt) * (100 - Jitter) - 100
    BY <2>1, <2>3, DelayBounds DEF Delay
  <2> QED
    BY <2>3, <2>4
<1> QED
  BY <1>1, LoopInvariance, DeploymentImplementsReconnect, PTL

-----------------------------------------------------------------------------
(***************************************************************************)
(* The filters of the broker.                                              *)
(***************************************************************************)

\* What the map holds after the first n lines of the feed.
Holds(n) ==
    \A a \in V4 : db[a] # 0 <=> \E i \in 1..n : /\ Stores(conf.feed[i])
                                                /\ To4[conf.feed[i].addr] = a

\* The list is there completely or not at all; the map is a function of what was
\* read of it, and the countries are those of the command line.
FilterInv ==
    /\ BlockTypeOK
    /\ file \in {Absent, conf.feed}
    /\ bp = "copy" => \E n \in 0..Len(conf.feed) : tmp = SubSeq(conf.feed, 1, n)
    /\ bp \in {"close", "rename"} => tmp = conf.feed
    /\ bp = "load" => file = conf.feed /\ Holds(row)
    /\ bp # "load" => row = 0
    /\ bp \in {"down", "stat", "get", "copy", "close", "rename"} => db = EmptyDB
    /\ bp \in {"geo", "bind", "serving"} /\ conf.ipsum => Holds(Len(conf.feed))
    /\ bp \in {"bind", "serving"} => geo = IF conf.geo THEN Codes(conf.countries) ELSE {}

\* A configuration is well formed.
LEMMA ConfFacts ==
    ASSUME NEW c \in Confs
    PROVE  /\ c.feed \in Seq(Lines)
           /\ c.feed # Absent
           /\ c.ipsum \in BOOLEAN
           /\ c.geo \in BOOLEAN
           /\ c.countries \in Seq(DOMAIN Upper)
           /\ Len(c.feed) \in Nat
BY BlockListAssumption

\* The lines that were copied are a prefix of the feed, and the next one extends it.
LEMMA PrefixFacts ==
    ASSUME NEW s \in Seq(Lines), NEW n \in 0..Len(s)
    PROVE  /\ Len(SubSeq(s, 1, n)) = n
           /\ n < Len(s) => Append(SubSeq(s, 1, n), s[n + 1]) = SubSeq(s, 1, n + 1)
           /\ n = Len(s) => SubSeq(s, 1, n) = s
<1>1. n \in Nat /\ Len(s) \in Nat /\ \A i \in 1..n : s[i] \in Lines
  BY ElementOfSeq
<1>2. /\ SubSeq(s, 1, n) \in Seq(Lines)
      /\ Len(SubSeq(s, 1, n)) = n
  BY <1>1, SubSeqProperties
<1>3. n < Len(s) => Append(SubSeq(s, 1, n), s[n + 1]) = SubSeq(s, 1, n + 1)
  <2> SUFFICES ASSUME n < Len(s)
               PROVE  Append(SubSeq(s, 1, n), s[n + 1]) = SubSeq(s, 1, n + 1)
    OBVIOUS
  <2>1. n + 1 \in 1..Len(s) /\ 1 \in 1..Len(s) /\ (n + 1) - 1 = n
    BY <1>1
  <2>2. SubSeq(s, 1, n + 1) = SubSeq(s, 1, (n + 1) - 1) \o <<s[n + 1]>>
    <3>1. n + 1 \in 1..Len(s)
      BY <2>1
    <3> QED
      BY <2>1, SubSeqRecursiveSecond
  <2>3. s[n + 1] \in Lines
    BY <2>1, ElementOfSeq
  <2>4. Append(SubSeq(s, 1, n), s[n + 1]) = SubSeq(s, 1, n) \o <<s[n + 1]>>
    BY <1>2, <2>3, AppendIsConcat
  <2> QED
    BY <2>1, <2>2, <2>4
<1> QED
  BY <1>2, <1>3, SubSeqFull

\* One line more: the entry of its address is overwritten, with a count that is not
\* zero, or nothing changes.
LEMMA LineLoaded ==
    ASSUME BlockTypeOK, NEW line \in Lines, db' = LoadLine(db, line)
    PROVE  /\ db' \in [V4 -> Nat]
           /\ \A a \in V4 : db'[a] # 0 <=> db[a] # 0 \/ (Stores(line) /\ To4[line.addr] = a)
<1>1. db \in [V4 -> Nat] /\ line.addr \in Texts /\ line.count \in Int
  BY DEF BlockTypeOK, Lines
<1>2. CASE Stores(line)
  <2>1. To4[line.addr] \in V4
    BY <1>1, <1>2 DEF Stores, V4
  <2>2. line.count \in Nat /\ line.count # 0
    BY <1>1, <1>2, BlockListAssumption DEF Stores, Threshold
  <2>3. db' = [db EXCEPT ![To4[line.addr]] = line.count]
    BY <1>2 DEF LoadLine
  <2> QED
    BY <1>1, <1>2, <2>1, <2>2, <2>3
<1>3. CASE ~Stores(line)
  BY <1>1, <1>3 DEF LoadLine
<1> QED
  BY <1>2, <1>3

\* Before the first start there is no list and no memory of one.
LEMMA FilterInvInit == BlockInit => FilterInv
<1> SUFFICES ASSUME BlockInit PROVE FilterInv
  OBVIOUS
<1>1. conf \in Confs /\ 0 \in 0..Len(conf.feed)
  BY ConfFacts DEF BlockInit
<1>2. BlockTypeOK
  BY <1>1 DEF BlockInit, BlockTypeOK, EmptyDB
<1> QED
  BY <1>2 DEF BlockInit, FilterInv

\* The broker's process ends: the list stays as it was.
LEMMA ProcessEndsStep ==
    ASSUME FilterInv, ProcessEnds, conf' = conf, file' = file, tmp' \in {tmp, Absent}
    PROVE  FilterInv'
<1>1. conf \in Confs /\ 0 \in 0..Len(conf.feed)
  BY ConfFacts DEF FilterInv, BlockTypeOK
<1>2. BlockTypeOK'
  BY <1>1 DEF FilterInv, BlockTypeOK, ProcessEnds, EmptyDB
<1> QED
  BY <1>2 DEF FilterInv, ProcessEnds, EmptyDB

\* The start of the broker command.
LEMMA StartupInv ==
    ASSUME FilterInv, StartBroker \/ StartupStep
    PROVE  FilterInv'
<1> USE DEF FilterInv
<1>1. /\ conf \in Confs
      /\ conf.feed \in Seq(Lines)
      /\ conf.feed # Absent
      /\ conf.countries \in Seq(DOMAIN Upper)
      /\ Len(conf.feed) \in Nat
  BY ConfFacts DEF BlockTypeOK
<1>2. conf' = conf
  BY DEF StartBroker, StartupStep, StatFile, GetFeed, CopyLine, CopyDone, CloseFile, Rename,
         ScanLine, LoadFromFile, OpenGeo, Bind
<1>3. db' = db => \A n : Holds(n)' = Holds(n)
  BY <1>2 DEF Holds, Stores, Threshold
<1>4. db = EmptyDB => Holds(0)
  BY DEF Holds, EmptyDB
<1>5. CASE StartBroker \/ StatFile \/ CopyDone \/ CloseFile \/ Bind
  <2>1. UNCHANGED <<file, tmp, row, db, geo>>
    BY <1>5 DEF StartBroker, StatFile, CopyDone, CloseFile, Bind, disk, memory
  <2>2. BlockTypeOK'
    BY <1>2, <1>5, <2>1 DEF BlockTypeOK, StartBroker, StatFile, CopyDone, CloseFile, Bind
  <2>3. CASE StartBroker \/ CloseFile \/ Bind
    BY <1>2, <1>3, <2>1, <2>2, <2>3 DEF StartBroker, CloseFile, Bind, Codes
  <2>4. CASE StatFile
    BY <1>1, <1>2, <1>3, <1>4, <2>1, <2>2, <2>4 DEF StatFile
  <2>5. CASE CopyDone
    <3>1. PICK n \in 0..Len(conf.feed) : tmp = SubSeq(conf.feed, 1, n)
      BY <2>5 DEF CopyDone
    <3>2. tmp = conf.feed
      BY <1>1, <2>5, <3>1, PrefixFacts DEF CopyDone
    <3> QED
      BY <1>2, <1>3, <2>1, <2>2, <2>5, <3>2 DEF CopyDone
  <2> QED
    BY <1>5, <2>3, <2>4, <2>5
<1>6. CASE GetFeed \/ CopyLine
  <2>1. UNCHANGED <<file, row, db, geo>> /\ bp \in {"get", "copy"} /\ bp' = "copy"
    BY <1>6 DEF GetFeed, CopyLine, memory
  <2>2. PICK n \in 0..Len(conf.feed) : tmp' = SubSeq(conf.feed, 1, n)
    <3>1. CASE GetFeed
      <4>1. tmp' = SubSeq(conf.feed, 1, 0)
        BY <3>1, SubSeqEmpty DEF GetFeed
      <4> QED
        BY <1>1, <4>1
    <3>2. CASE CopyLine
      <4>1. PICK n \in 0..Len(conf.feed) : tmp = SubSeq(conf.feed, 1, n)
        BY <3>2 DEF CopyLine
      <4>2. Len(tmp) = n /\ n < Len(conf.feed) /\ tmp' = Append(tmp, conf.feed[n + 1])
        BY <1>1, <3>2, <4>1, PrefixFacts DEF CopyLine
      <4>3. tmp' = SubSeq(conf.feed, 1, n + 1)
        BY <1>1, <4>1, <4>2, PrefixFacts
      <4> QED
        BY <1>1, <4>2, <4>3
    <3> QED
      BY <1>6, <3>1, <3>2
  <2>3. BlockTypeOK'
    BY <1>2, <2>1, <2>2 DEF BlockTypeOK
  <2> QED
    BY <1>2, <2>1, <2>2, <2>3
<1>7. CASE Rename
  <2>1. UNCHANGED <<row, db, geo>> /\ bp = "rename" /\ bp' = "load" /\ file' = tmp /\ tmp' = Absent
    BY <1>7 DEF Rename, memory
  <2>2. BlockTypeOK'
    BY <1>2, <2>1 DEF BlockTypeOK
  <2> QED
    BY <1>1, <1>2, <1>3, <1>4, <2>1, <2>2
<1>8. CASE ScanLine
  <2>1. /\ bp = "load" /\ bp' = bp /\ UNCHANGED <<file, tmp, geo>>
        /\ row < Len(conf.feed) /\ row' = row + 1
        /\ db' = LoadLine(db, conf.feed[row + 1])
    BY <1>8 DEF ScanLine, disk
  <2>2. row \in Nat /\ row + 1 \in 1..Len(conf.feed) /\ row' \in 0..Len(conf.feed)
    BY <1>1, <2>1 DEF BlockTypeOK
  <2>3. conf.feed[row + 1] \in Lines
    BY <1>1, <2>2, ElementOfSeq
  <2>4. /\ db' \in [V4 -> Nat]
        /\ \A a \in V4 : db'[a] # 0 <=>
              \/ db[a] # 0
              \/ Stores(conf.feed[row + 1]) /\ To4[conf.feed[row + 1].addr] = a
    BY <2>1, <2>3, LineLoaded
  <2>5. BlockTypeOK'
    BY <1>2, <2>1, <2>2, <2>4 DEF BlockTypeOK
  <2>6. \A a \in V4 : db'[a] # 0 <=> \E i \in 1..(row + 1) : /\ Stores(conf.feed[i])
                                                            /\ To4[conf.feed[i].addr] = a
    <3>1. 1..(row + 1) = 1..row \cup {row + 1}
      BY <2>2
    <3>2. Holds(row)
      BY <2>1
    <3> QED
      BY <2>4, <3>1, <3>2 DEF Holds
  <2>7. Holds(row)'
    BY <1>2, <2>1, <2>6 DEF Holds, Stores, Threshold
  <2> QED
    BY <1>2, <2>1, <2>5, <2>7
<1>9. CASE LoadFromFile
  <2>1. /\ bp = "load" /\ bp' = "geo" /\ row' = 0 /\ UNCHANGED <<file, tmp, db, geo>>
        /\ row = Len(conf.feed)
    BY <1>9 DEF LoadFromFile, disk
  <2>2. BlockTypeOK'
    BY <1>1, <1>2, <2>1 DEF BlockTypeOK
  <2> QED
    BY <1>2, <1>3, <2>1, <2>2
<1>10. CASE OpenGeo
  <2>1. /\ bp = "geo" /\ bp' = "bind" /\ UNCHANGED <<file, tmp, row, db>>
        /\ geo' = IF conf.geo THEN Codes(conf.countries) ELSE {}
    BY <1>10 DEF OpenGeo, disk
  <2>2. Codes(conf.countries) \subseteq {Upper[c] : c \in DOMAIN Upper} \ {NoCode}
    <3>1. \A i \in DOMAIN conf.countries : conf.countries[i] \in DOMAIN Upper
      BY <1>1
    <3> QED
      BY <3>1 DEF Codes
  <2>3. BlockTypeOK'
    BY <1>2, <2>1, <2>2 DEF BlockTypeOK
  <2> QED
    BY <1>2, <1>3, <2>1, <2>3 DEF Codes
<1> QED
  BY <1>5, <1>6, <1>7, <1>8, <1>9, <1>10 DEF StartupStep

\* A broker that serves refuses exactly the forbidden addresses: the map and the
\* complete list, and the countries with and without blanks, say the same.
LEMMA FiltersExact ==
    ASSUME FilterInv, bp = "serving", NEW t \in Texts
    PROVE  /\ conf.ipsum => (IPBlocked(t) <=> Blacklisted(t))
           /\ Refuses(t) <=> Forbidden(t)
<1>1. /\ conf \in Confs
      /\ conf.feed \in Seq(Lines)
      /\ conf.countries \in Seq(DOMAIN Upper)
      /\ conf.geo \in BOOLEAN
      /\ conf.ipsum \in BOOLEAN
      /\ Len(conf.feed) \in Nat
  BY ConfFacts DEF FilterInv, BlockTypeOK
<1>2. DOMAIN conf.feed = 1..Len(conf.feed)
  BY <1>1
<1>3. \A i \in 1..Len(conf.feed) :
          Stores(conf.feed[i]) /\ To4[conf.feed[i].addr] = To4[t]
              <=> /\ conf.feed[i].kind = "entry"
                  /\ To4[conf.feed[i].addr] = To4[t]
                  /\ To4[t] # NoIP
                  /\ conf.feed[i].count >= MinCount
                  /\ conf.feed[i].count > 0
  <2> SUFFICES ASSUME NEW i \in 1..Len(conf.feed)
               PROVE  conf.feed[i].count >= Threshold
                          <=> conf.feed[i].count >= MinCount /\ conf.feed[i].count > 0
    BY DEF Stores
  <2>1. conf.feed[i] \in Lines
    BY <1>1, ElementOfSeq
  <2>2. conf.feed[i].count \in Int
    BY <2>1 DEF Lines
  <2> QED
    BY <2>2, BlockListAssumption DEF Threshold
<1>4. conf.ipsum => (IPBlocked(t) <=> Blacklisted(t))
  <2> SUFFICES ASSUME conf.ipsum PROVE IPBlocked(t) <=> Blacklisted(t)
    OBVIOUS
  <2>1. Holds(Len(conf.feed))
    BY DEF FilterInv
  <2>2. CASE To4[t] = NoIP
    BY <2>2 DEF IPBlocked, Blacklisted
  <2>3. CASE To4[t] # NoIP
    <3>1. To4[t] \in V4
      BY <2>3 DEF V4
    <3>2. IPBlocked(t) <=> \E i \in 1..Len(conf.feed) : /\ Stores(conf.feed[i])
                                                        /\ To4[conf.feed[i].addr] = To4[t]
      BY <2>1, <2>3, <3>1 DEF IPBlocked, Holds
    <3> QED
      BY <1>2, <1>3, <2>3, <3>2 DEF Blacklisted
  <2> QED
    BY <2>2, <2>3
<1>5. conf.geo => (GeoBlocked(t) <=> FromBlockedCountry(t))
  <2>1. conf.geo => geo = Codes(conf.countries)
    BY DEF FilterInv
  <2> QED
    BY <2>1 DEF GeoBlocked, FromBlockedCountry, Codes
<1> QED
  BY <1>4, <1>5 DEF Refuses, Forbidden

LinkTypeOK ==
    /\ trusted \in BOOLEAN
    /\ link \in {"none", "pending", "refused", "admitted", "denied", "up", "dead"}
    /\ room \in {"vacant", "open", "self", "stale", "other"}
    /\ link = "none" <=> socks = 0
    /\ link = "up" <=> room = "self"
    /\ hung \in BOOLEAN
    /\ faults \in 0..MaxFaults

SystemInv ==
    /\ FilterInv
    /\ LinkTypeOK
    /\ BlockedNeverServed

\* Whether an address is forbidden does not depend on what happens.
LEMMA ForbiddenFixed ==
    ASSUME conf' = conf
    PROVE  Forbidden(Address)' <=> Forbidden(Address)
BY DEF Forbidden, Blacklisted, FromBlockedCountry

\* Start dials when nothing is held, and fails or is closed when one connection is.
LEMMA DialFrom ==
    ASSUME LoopInv
    PROVE  /\ Dial \/ DialFails => socks = 0
           /\ StartFails \/ ClientClosed => socks = 1
BY DEF LoopInv, HeldInv, Dial, DialFails, StartFails, ClientClosed, StartPhases

\* The broker and the network treat a connection as long as the client holds one.
LEMMA LinkHeld ==
    ASSUME LoopInv, link = "none" <=> socks = 0, [SystemNext]_systemVars
    PROVE  (link = "none" <=> socks = 0)'
<1>1. CASE ClientDials
  BY <1>1, DialFrom DEF ClientDials, Dial
<1>2. CASE ClientCannotStart \/ ClientCloses
  BY <1>2, DialFrom DEF ClientCannotStart, ClientCloses, StartFails, ClientClosed
<1>3. CASE ClientCannotDial \/ ClientStarts \/ ClientNoticesLoss \/ UserCancels \/ UNCHANGED systemVars
  BY <1>3 DEF ClientCannotDial, DialFails, ClientStarts, Handshake, SendAuthenticate, SendRequest,
     Proceed, ReceiveAck, ListenLocal, ClientNoticesLoss, ClientLost, UserCancels, Cancel,
     systemVars, vars, linkVars, held
<1>4. CASE LoopStep
  <2>1. UNCHANGED socks
    BY <1>4 DEF LoopStep, LoopRuns, WatchCancelled, WatchLost, LoopTop, PollContext,
       CleanUpCloses, CleanUpForRetry, DelayOver, DelayCancelled, Quit, held
  <2> QED
    BY <1>4, <2>1 DEF LoopStep, linkVars
<1>5. CASE UNCHANGED vars /\ (link' = "none" <=> link = "none")
  BY <1>5 DEF vars, held
<1> QED
  BY <1>1, <1>2, <1>3, <1>4, <1>5
  DEF SystemNext, BrokerStarts, BrokerEnds, BrokerHangs, BrokerAccepts, BrokerIsFull,
      BrokerMistrusts, BrokerAnswers, BrokerNotices, ListenerRegisters, PlaceTaken,
      OthersLeave, LinkCut, linkVars

\* Every step of the client program, of its broker or of a fault preserves both
\* invariants.
LEMMA SystemInvStep == LoopInv /\ SystemInv /\ [SystemNext]_systemVars => SystemInv'
<1> SUFFICES ASSUME LoopInv, SystemInv, [SystemNext]_systemVars PROVE SystemInv'
  OBVIOUS
<1> USE DEF SystemInv
<1>1. ASSUME UNCHANGED blockVars PROVE FilterInv'
  BY <1>1 DEF blockVars, FilterInv, BlockTypeOK, Holds, Stores, Threshold, Codes
<1>2. FilterInv'
  <2>1. CASE BrokerStarts
    <3>1. StartupRefused => FilterInv'
      BY ProcessEndsStep DEF StartupRefused, disk
    <3> QED
      BY <2>1, <3>1, StartupInv DEF BrokerStarts
  <2>2. CASE BrokerEnds
    BY <2>2, ProcessEndsStep DEF BrokerEnds, DownloadFails, StartupFails, Killed, disk
  <2>3. CASE UNCHANGED blockVars
    BY <1>1, <2>3
  <2> QED
    BY <2>1, <2>2, <2>3
    DEF SystemNext, systemVars, BrokerHangs, BrokerAccepts, BrokerIsFull, BrokerMistrusts,
        BrokerAnswers, BrokerNotices, ListenerRegisters, PlaceTaken, OthersLeave, LinkCut, ClientDials, ClientCannotDial, ClientStarts, ClientCannotStart,
        ClientNoticesLoss, ClientCloses, LoopStep, UserCancels
<1>3. conf' = conf
  BY DEF SystemNext, systemVars, blockVars, BrokerStarts, StartBroker, StartupStep, StatFile,
         GetFeed, CopyLine, CopyDone, CloseFile, Rename, ScanLine, LoadFromFile, OpenGeo, Bind,
         StartupRefused, BrokerEnds, DownloadFails, StartupFails, Killed, BrokerHangs,
         BrokerAccepts, BrokerIsFull, BrokerMistrusts, BrokerAnswers, BrokerNotices,
         ListenerRegisters, PlaceTaken, OthersLeave, LinkCut, ClientDials, ClientCannotDial,
         ClientStarts, ClientCannotStart, ClientNoticesLoss, ClientCloses, LoopStep, UserCancels
<1>4. Forbidden(Address)' <=> Forbidden(Address)
  BY <1>3, ForbiddenFixed
<1>5. \/ BrokerAccepts
      \/ /\ link' \in {link, "none", "pending", "dead"} \cup (IF link = "admitted" THEN {"denied", "up"} ELSE {})
         /\ room' \in {room, "vacant", "open", "self", "stale", "other"}
         /\ link' = "up" <=> room' = "self"
         /\ trusted' = trusted
         /\ hung' \in BOOLEAN
         /\ faults' \in {faults, faults - 1}
         /\ faults' = faults \/ faults > 0
  <2>1. CASE BrokerStarts \/ BrokerHangs \/ ClientCannotDial \/ ClientStarts \/ ClientNoticesLoss
             \/ LoopStep \/ UserCancels \/ UNCHANGED systemVars
    BY <2>1 DEF LinkTypeOK, systemVars, linkVars, BrokerStarts, BrokerHangs, ClientCannotDial,
       ClientStarts, ClientNoticesLoss, LoopStep, UserCancels, Fault
  <2>2. CASE BrokerEnds \/ BrokerIsFull \/ BrokerMistrusts \/ BrokerAnswers \/ BrokerNotices
    BY <2>2 DEF LinkTypeOK, BrokerEnds, BrokerIsFull, BrokerMistrusts, BrokerAnswers,
       BrokerNotices, Fault
  <2>3. CASE ListenerRegisters \/ PlaceTaken \/ OthersLeave
    BY <2>3 DEF LinkTypeOK, ListenerRegisters, PlaceTaken, OthersLeave, RouterAccepts, Fault
  <2>4. CASE LinkCut \/ ClientCannotStart \/ ClientCloses
    BY <2>4 DEF LinkTypeOK, LinkCut, ClientCannotStart, ClientCloses, Unnoticed, Fault
  <2>5. CASE ClientDials
    <3>1. link # "up"
      BY <2>5, DialFrom DEF ClientDials, LinkTypeOK
    <3> QED
      BY <2>5, <3>1 DEF LinkTypeOK, ClientDials
  <2> QED
    BY <2>1, <2>2, <2>3, <2>4, <2>5 DEF SystemNext
<1>9. (link = "none" <=> socks = 0)'
  BY LinkHeld DEF LinkTypeOK
<1>6. CASE BrokerAccepts
  <2>1. /\ link' = IF Refuses(Address) THEN "refused" ELSE "admitted"
        /\ link = "pending"
        /\ UNCHANGED <<trusted, room, hung, faults>>
        /\ bp = "serving"
    BY <1>6 DEF BrokerAccepts, Answers
  <2>2. Refuses(Address) <=> Forbidden(Address)
    BY <2>1, FiltersExact, DeploymentAssumption
  <2>3. LinkTypeOK'
    BY <1>9, <2>1 DEF LinkTypeOK
  <2> QED
    BY <1>2, <1>4, <2>1, <2>2, <2>3 DEF BlockedNeverServed
<1>7. CASE ~BrokerAccepts
  <2>1. LinkTypeOK'
    BY <1>5, <1>7, <1>9, DeploymentAssumption DEF LinkTypeOK
  <2>2. BlockedNeverServed'
    BY <1>4, <1>5, <1>7 DEF BlockedNeverServed
  <2> QED
    BY <1>2, <2>1, <2>2
<1> QED
  BY <1>6, <1>7

\* Both invariants hold of the deployment.
LEMMA SystemInvariance == SystemSpec => []SystemInv
<1>1. SystemInit => SystemInv
  <2> SUFFICES ASSUME SystemInit PROVE SystemInv
    OBVIOUS
  <2>1. LinkTypeOK /\ BlockedNeverServed
    <3>1. trusted \in BOOLEAN /\ hung \in BOOLEAN
      BY DEF SystemInit
    <3>2. faults \in 0..MaxFaults
      BY DeploymentAssumption DEF SystemInit
    <3> QED
      BY <3>1, <3>2 DEF SystemInit, Init, LinkTypeOK, BlockedNeverServed
  <2> QED
    BY <2>1, FilterInvInit DEF SystemInit, SystemInv
<1> QED
  BY <1>1, SystemInvStep, LoopInvariance, DeploymentImplementsReconnect, PTL DEF SystemSpec

\* Type correctness of the deployment.
THEOREM DeploymentTypes == SystemSpec => []SystemTypeOK
<1>1. LoopInv /\ SystemInv => SystemTypeOK
  BY DEF LoopInv, SystemInv, FilterInv, LinkTypeOK, SystemTypeOK
<1> QED
  BY <1>1, LoopInvariance, SystemInvariance, DeploymentImplementsReconnect, PTL

\* A broker that serves blocks exactly the addresses of the complete IPsum list,
\* for every feed, wherever earlier starts and downloads were cut off.
THEOREM FullListOnly == SystemSpec => []OnlyFullList
<1>1. SystemInv => OnlyFullList
  BY FiltersExact DEF SystemInv, OnlyFullList
<1> QED
  BY <1>1, SystemInvariance, PTL

\* A forbidden client is never served and an allowed one never refused, through
\* restarts of both programs.
THEOREM ForbiddenNeverServed == SystemSpec => []BlockedNeverServed
<1>1. SystemInv => BlockedNeverServed
  BY DEF SystemInv
<1> QED
  BY <1>1, SystemInvariance, PTL

=============================================================================
