----------------------------- MODULE Reconnect ------------------------------
(***************************************************************************)
(* RunWithReconnect (src/pkg/tunnel/reconnect.go) with the callbacks that  *)
(* the listen and connect commands pass to it (src/cmd/listen.go,          *)
(* src/cmd/connect.go): connect makes a new Connector or Listener and runs *)
(* its Start, done is its closeCh, cleanup closes it and forgets it.       *)
(*                                                                         *)
(* Close runs once (closeOnce).  It closes closeCh first, so done is ready *)
(* while the broker connection and the local port are still held; a second *)
(* call waits until the first has released them.  What the broker and the  *)
(* network answer is left open here; Deployment adds a broker.             *)
(***************************************************************************)
EXTENDS Integers

CONSTANTS
    RetrySettings,  \* the values of MaxRetries: -1 is infinite, 0 is disabled
    AttemptCap,     \* bound: where the counters stop when MaxRetries is -1
    InitialDelay,   \* of the backoff, in milliseconds
    MaxDelay,
    Factor,
    Jitter          \* in percent

\* The counter may stop at AttemptCap because the delay no longer grows there.
\* That powers are numbers, and that the next one is no smaller, is spelled out for
\* the provers, which know nothing of exponentiation.
ASSUME ReconnectAssumption ==
    /\ AttemptCap \in Nat
    /\ RetrySettings \subseteq -1..(AttemptCap - 2)
    /\ {InitialDelay, MaxDelay, Factor} \subseteq Nat \ {0}
    /\ Jitter \in 0..100
    /\ \A n \in 0..(AttemptCap + 1) : Factor ^ n \in Nat
    /\ \A n \in {AttemptCap, AttemptCap + 1} : InitialDelay * Factor ^ n >= MaxDelay

VARIABLES
    maxRetries, \* cfg.MaxRetries; it does not change
    command,    \* "listen" or "connect"; it does not change
    at,         \* the next operation
    attempt,    \* the loop variable
    first,      \* whether the loop has not been entered yet
    wait,       \* the backoff delay, while the loop waits for it
    cancelled,  \* ctx.Done() is closed
    client,     \* the Connector or Listener
    socks,      \* open connections to the broker
    port,       \* the connector's local port
    everUp,     \* whether connect has ever succeeded (history)
    failures,   \* connect calls that failed since the last success (history)
    result      \* what RunWithReconnect returned: "ctx", "exhausted", "error"
                \* (of the first connect), "nil"; "none" before

setting == <<maxRetries, command>>
loop == <<at, attempt, first, wait, everUp, failures, result>>
held == <<client, socks, port>>
vars == <<setting, loop, cancelled, held>>

\* The operations of Start, in their order; only a connector listens.
StartPhases == {"dial", "handshake", "auth", "request", "ack", "listen"}
LoopPhases == {"watch", "top", "poll", "cleanup", "delay", "quit", "returned"}

TypeOK ==
    /\ maxRetries \in RetrySettings
    /\ command \in {"listen", "connect"}
    /\ at \in StartPhases \cup LoopPhases
    /\ attempt \in -1..AttemptCap
    /\ first \in BOOLEAN
    /\ wait \in 0..(2 * MaxDelay)
    /\ cancelled \in BOOLEAN
    /\ client \in {"nil", "starting", "failed", "live", "closing", "closed"}
    /\ socks \in 0..2
    /\ port \in {"free", "bound"}
    /\ everUp \in BOOLEAN
    /\ failures \in 0..(AttemptCap + 1)
    /\ result \in {"none", "ctx", "exhausted", "error", "nil"}

Init ==
    /\ maxRetries \in RetrySettings
    /\ command \in {"listen", "connect"}
    /\ at = "dial"
    /\ attempt = 0
    /\ first = TRUE
    /\ wait = 0
    /\ cancelled = FALSE
    /\ client = "starting"
    /\ socks = 0
    /\ port = "free"
    /\ everUp = FALSE
    /\ failures = 0
    /\ result = "none"

-----------------------------------------------------------------------------
(* The end of a connect call.                                              *)

\* attempt++ at the end of an iteration.
NextAttempt(n) == IF n < AttemptCap THEN n + 1 ELSE n

Return(r) ==
    /\ at' = "returned"
    /\ result' = r

\* Mutant: the next delay is as if one attempt had failed already.
ConnectedOneAhead ==
    /\ at' = "watch"
    /\ client' = "live"
    /\ attempt' = IF first THEN attempt ELSE 0
    /\ everUp' = TRUE
    /\ failures' = 0
    /\ UNCHANGED <<setting, first, wait, cancelled, result>>

\* connect() succeeds; in the loop the counter is reset.
Connected ==
    /\ at' = "watch"
    /\ client' = "live"
    /\ attempt' = IF first THEN attempt ELSE -1
    /\ everUp' = TRUE
    /\ failures' = 0
    /\ UNCHANGED <<setting, first, wait, cancelled, result>>

\* connect() fails.
ConnectFails ==
    /\ client' = "failed"
    /\ failures' = IF failures <= AttemptCap THEN failures + 1 ELSE failures
    /\ first' = FALSE
    /\ attempt' = IF first THEN attempt ELSE NextAttempt(attempt)
    /\ IF first /\ maxRetries = 0
       THEN Return("error")
       ELSE at' = "top" /\ UNCHANGED result
    /\ UNCHANGED <<setting, wait, cancelled, everUp, port>>

-----------------------------------------------------------------------------
(* Start of the Connector or Listener.                                     *)

Dial ==
    /\ at = "dial"
    /\ at' = "handshake"
    /\ socks' = socks + 1
    /\ UNCHANGED <<setting, attempt, first, wait, everUp, failures, result,
                   cancelled, client, port>>

\* The broker cannot be reached, or DialTimeout passes.
DialFails ==
    /\ at = "dial"
    /\ ConnectFails
    /\ UNCHANGED socks

Proceed(from, to) ==
    /\ at = from
    /\ at' = to
    /\ UNCHANGED <<setting, attempt, first, wait, everUp, failures, result,
                   cancelled, held>>

Handshake        == Proceed("handshake", "auth")
SendAuthenticate == Proceed("auth", "request")
SendRequest      == Proceed("request", "ack")

\* A positive RegisterAck or ConnectAck.
ReceiveAck ==
    \/ command = "connect" /\ Proceed("ack", "listen")
    \/ command = "listen" /\ at = "ack" /\ Connected /\ UNCHANGED <<socks, port>>

ListenLocal ==
    /\ at = "listen"
    /\ port = "free"
    /\ port' = "bound"
    /\ Connected
    /\ UNCHANGED socks

\* Mutant: Start returns the error and leaves the connection open.
StartFailsOpen ==
    /\ at \in StartPhases \ {"dial"}
    /\ ConnectFails
    /\ UNCHANGED socks

\* An error of a later operation, or an answer that is no positive
\* acknowledgement: conn.Close().
StartFails ==
    /\ at \in StartPhases \ {"dial"}
    /\ ConnectFails
    /\ socks' = socks - 1

-----------------------------------------------------------------------------
(* Close of a running client.                                              *)

\* The broker or the network ends the tunnel: handleMessages returns and calls
\* Close, which closes closeCh.
ClientLost ==
    /\ client = "live"
    /\ client' = "closing"
    /\ UNCHANGED <<setting, loop, cancelled, socks, port>>

\* Close has sent its Disconnect (or has failed to) and has closed the broker
\* connection and the local listener.
ClientClosed ==
    /\ client = "closing"
    /\ client' = "closed"
    /\ socks' = socks - 1
    /\ port' = "free"
    /\ UNCHANGED <<setting, loop, cancelled>>

\* cleanup() of a client that runs calls Close itself.
CleanUpCloses ==
    /\ at \in {"cleanup", "quit"}
    /\ client = "live"
    /\ client' = "closing"
    /\ UNCHANGED <<setting, loop, cancelled, socks, port>>

\* Mutant: cleanup forgets the client although another Close is still running.
CleanUpNoWait == client' = "nil"

\* cleanup() returns when Close has: closeOnce waits for the running one.
CleanUp ==
    /\ client \notin {"live", "closing"}
    /\ client' = "nil"

-----------------------------------------------------------------------------
(* The loop.                                                               *)

\* The select on ctx.Done() and done(): whatever is ready may be chosen.
WatchCancelled ==
    /\ at = "watch"
    /\ cancelled
    /\ at' = "quit"
    /\ UNCHANGED <<setting, attempt, first, wait, everUp, failures, result,
                   cancelled, held>>

WatchLost ==
    /\ at = "watch"
    /\ client \in {"closing", "closed"}
    /\ IF first /\ maxRetries = 0
       THEN Return("nil")
       ELSE at' = "top" /\ UNCHANGED result
    /\ first' = FALSE
    /\ attempt' = IF first THEN attempt ELSE NextAttempt(attempt)
    /\ UNCHANGED <<setting, wait, everUp, failures, cancelled, held>>

\* Mutant: one retry too many.
OutOfRetriesLate == maxRetries >= 0 /\ attempt > maxRetries

OutOfRetries == maxRetries >= 0 /\ attempt >= maxRetries

\* The check of the counter comes before the check of the context.
LoopTop ==
    /\ at = "top"
    /\ IF OutOfRetries
       THEN Return("exhausted")
       ELSE at' = "poll" /\ UNCHANGED result
    /\ UNCHANGED <<setting, attempt, first, wait, everUp, failures, cancelled, held>>

\* Mutant: after a cancellation the loop goes on.
PollContextIgnoring ==
    /\ at = "poll"
    /\ at' = "cleanup"
    /\ UNCHANGED <<setting, attempt, first, wait, everUp, failures, result,
                   cancelled, held>>

PollContext ==
    /\ at = "poll"
    /\ at' = IF cancelled THEN "quit" ELSE "cleanup"
    /\ UNCHANGED <<setting, attempt, first, wait, everUp, failures, result,
                   cancelled, held>>

\* InitialDelay * Factor^attempt, at most MaxDelay.
BaseDelay(n) ==
    LET d == InitialDelay * Factor ^ n
    IN  IF d > MaxDelay THEN MaxDelay ELSE d

\* cryptoRandFloat64 is abstracted to the ends and the middle of its range, in
\* which the fallback 0 lies.
JitterFractions == {-1, 0, 1}

Delay(n, fraction) == (BaseDelay(n) * (100 + Jitter * fraction)) \div 100

CleanUpForRetry ==
    /\ at = "cleanup"
    /\ CleanUp
    /\ at' = "delay"
    /\ \E fraction \in JitterFractions : wait' = Delay(attempt, fraction)
    /\ UNCHANGED <<setting, attempt, first, everUp, failures, result, cancelled,
                   socks, port>>

\* The delay is over and connect makes the next client.
DelayOver ==
    /\ at = "delay"
    /\ at' = "dial"
    /\ client' = "starting"
    /\ wait' = 0
    /\ UNCHANGED <<setting, attempt, first, everUp, failures, result, cancelled,
                   socks, port>>

DelayCancelled ==
    /\ at = "delay"
    /\ cancelled
    /\ at' = "quit"
    /\ wait' = 0
    /\ UNCHANGED <<setting, attempt, first, everUp, failures, result, cancelled, held>>

\* cleanup(); return ctx.Err()
Quit ==
    /\ at = "quit"
    /\ CleanUp
    /\ Return("ctx")
    /\ UNCHANGED <<setting, attempt, first, wait, everUp, failures, cancelled,
                   socks, port>>

\* A signal.
Cancel ==
    /\ ~cancelled
    /\ cancelled' = TRUE
    /\ UNCHANGED <<setting, loop, held>>

Terminated == at = "returned" /\ UNCHANGED vars

-----------------------------------------------------------------------------

LoopRuns ==
    \/ WatchCancelled
    \/ WatchLost
    \/ LoopTop
    \/ PollContext
    \/ CleanUpCloses
    \/ CleanUpForRetry
    \/ DelayOver
    \/ DelayCancelled
    \/ Quit

StartRuns ==
    \/ Dial
    \/ DialFails
    \/ Handshake
    \/ SendAuthenticate
    \/ SendRequest
    \/ ReceiveAck
    \/ ListenLocal
    \/ StartFails

Next == LoopRuns \/ StartRuns \/ Cancel \/ ClientLost \/ ClientClosed \/ Terminated

Spec == Init /\ [][Next]_vars

-----------------------------------------------------------------------------

\* The number of attempts (RunWithReconnect, items 5 and 6): after the initial
\* connect, or after a connection that was lost, connect fails at most MaxRetries
\* times in a row, and the loop does not give up earlier.
RetriesExact ==
    LET limit == maxRetries + (IF everUp THEN 0 ELSE 1)
    IN  /\ maxRetries >= 0 => failures <= limit
        /\ result = "exhausted" => failures = limit

\* A Connector or Listener has released the connection to the broker and the
\* local port before the next one needs them (item 8), although its closeCh is
\* closed before it releases them; a failed Start leaves no connection behind; and
\* none is left running when RunWithReconnect returns, which has called cleanup when
\* it returns ctx.Err() (item 7).
OneClient ==
    /\ socks <= 1
    /\ at \in {"delay", "dial"} => socks = 0 /\ port = "free"
    /\ at = "listen" => port = "free"
    /\ at = "returned" => client # "live"
    /\ result = "ctx" => cancelled /\ client = "nil"

\* The backoff (delay): the n-th delay since a connection was up is the n-th
\* power of the factor, cut off at MaxDelay, up to the jitter; a connection that
\* was up starts the series again.
BackoffLaw ==
    at = "delay" =>
        LET n == IF everUp THEN failures ELSE failures - 1
            base == BaseDelay(n)
        IN  /\ 100 * wait <= base * (100 + Jitter)
            /\ 100 * wait > base * (100 - Jitter) - 100

\* After a cancellation RunWithReconnect returns (item 7), unless it waits for an
\* answer of the broker in Start, which does not see the context, or for a Close
\* that cannot send its Disconnect.
CancelEndsLoop ==
    cancelled ~> \/ at = "returned"
                 \/ [](at \in {"handshake", "ack"})
                 \/ [](client = "closing")

=============================================================================
