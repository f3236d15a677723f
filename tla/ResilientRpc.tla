---------------------------- MODULE ResilientRpc -----------------------------
(***************************************************************************)
(* helpers/rpc.rs: the wrappers every upstream call goes through           *)
(* (resilient_call, resilient_call_with_last_error and                     *)
(* resilient_provider_call, one control flow in three copies). A call      *)
(* checks the circuit breaker, waits for one of the global permits, then   *)
(* makes up to max_attempts attempts with exponential backoff, keeping its *)
(* permit, and trips the breaker when the last one fails. The breaker is   *)
(* two atomics, read and written one at a time.                            *)
(*                                                                         *)
(* Time advances in ticks; upstream is either up or down. An attempt       *)
(* fails, by an error or by its timeout, when upstream is down at its      *)
(* start or goes down before it answers.                                   *)
(***************************************************************************)
EXTENDS Integers, Sequences, FiniteSets

CONSTANTS
    Callers,        \* the calls that may be in progress at once
    Tracers,        \* the callers that make alkanes_trace calls
    MaxPermits,     \* RPC_MAX_CONCURRENCY
    MaxAttempts,    \* RPC_MAX_RETRIES
    BaseDelay,      \* RPC_BASE_BACKOFF_MS
    MaxDelay,       \* RPC_MAX_BACKOFF_MS
    CoolDown,       \* RPC_CIRCUIT_COOLDOWN_MS
    MaxOutages      \* bound: times upstream goes down

ASSUME RpcAssumption ==
    /\ IsFiniteSet(Callers)
    /\ Tracers \subseteq Callers
    /\ MaxPermits \in Nat \ {0}
    /\ MaxAttempts \in Nat
    /\ BaseDelay \in Nat \ {0}
    /\ MaxDelay \in Nat
    /\ CoolDown \in Nat
    /\ MaxOutages \in Nat

VARIABLES
    up, outages,    \* upstream
    cb_open,        \* CB_OPEN
    cb_age,         \* now_ms() - CB_LAST_OPEN_MS, up to CoolDown
    permits,        \* permits left in GLOBAL_PERMITS
    queue,          \* callers waiting for a permit, first come first served
    pc,             \* where each call is
    attempt,
    lost,           \* the attempt in flight will not be answered well
    timer,          \* what is left of the backoff sleep
    outcome         \* how the caller's last call ended

breakerVars == <<cb_open, cb_age>>
callVars == <<pc, attempt, lost, timer, outcome>>
vars == <<up, outages, breakerVars, permits, queue, callVars>>

Init ==
    /\ up = TRUE
    /\ outages = 0
    /\ cb_open = FALSE
    /\ cb_age = CoolDown
    /\ permits = MaxPermits
    /\ queue = <<>>
    /\ pc = [c \in Callers |-> "idle"]
    /\ attempt = [c \in Callers |-> 0]
    /\ lost = [c \in Callers |-> FALSE]
    /\ timer = [c \in Callers |-> 0]
    /\ outcome = [c \in Callers |-> "none"]

-----------------------------------------------------------------------------
(* Environment *)

Outage ==
    /\ up
    /\ outages < MaxOutages
    /\ outages' = outages + 1
    /\ up' = FALSE
    /\ lost' = [c \in Callers |-> lost[c] \/ pc[c] = "calling"]
    /\ UNCHANGED <<breakerVars, permits, queue, pc, attempt, timer, outcome>>

Recovery ==
    /\ ~up
    /\ up' = TRUE
    /\ UNCHANGED <<outages, breakerVars, permits, queue, callVars>>

Timing == ~(cb_age = CoolDown /\ \A c \in Callers : timer[c] = 0)

Tick ==
    /\ Timing
    /\ cb_age' = IF cb_age < CoolDown THEN cb_age + 1 ELSE cb_age
    /\ timer' = [c \in Callers |-> IF timer[c] > 0 THEN timer[c] - 1 ELSE 0]
    /\ UNCHANGED <<up, outages, cb_open, permits, queue, pc, attempt, lost, outcome>>

-----------------------------------------------------------------------------
(* The breaker *)

\* Never half-open: the cool-down is not looked at.
CircuitOpen_Forever == cb_open

\* circuit_open(): open, and still cooling down.
CircuitOpen == cb_open /\ cb_age < CoolDown

-----------------------------------------------------------------------------
(* A call *)

Reject(c) ==
    /\ pc[c] = "idle"
    /\ CircuitOpen
    /\ outcome' = [outcome EXCEPT ![c] = "circuit_open"]
    /\ UNCHANGED <<up, outages, breakerVars, permits, queue, pc, attempt, lost,
                   timer>>

Wait(c) ==
    /\ queue' = Append(queue, c)
    /\ pc' = [pc EXCEPT ![c] = "waiting"]

\* The breaker is closed.
Enter(c) ==
    /\ pc[c] = "idle"
    /\ ~cb_open
    /\ Wait(c)
    /\ UNCHANGED <<up, outages, breakerVars, permits, attempt, lost, timer, outcome>>

\* The cool-down is over; the breaker may be tripped anew before this call stores
\* `false`.
HalfOpen(c) ==
    /\ pc[c] = "idle"
    /\ cb_open
    /\ ~CircuitOpen
    /\ pc' = [pc EXCEPT ![c] = "half_open"]
    /\ UNCHANGED <<up, outages, breakerVars, permits, queue, attempt, lost, timer,
                   outcome>>

Close(c) ==
    /\ pc[c] = "half_open"
    /\ cb_open' = FALSE
    /\ Wait(c)
    /\ UNCHANGED <<up, outages, cb_age, permits, attempt, lost, timer, outcome>>

\* The counter declared inside the loop.
Attempt_CounterReset(c, n) ==
    /\ attempt' = [attempt EXCEPT ![c] = 1]
    /\ lost' = [lost EXCEPT ![c] = ~up]
    /\ pc' = [pc EXCEPT ![c] = "calling"]

\* An attempt starts.
Attempt(c, n) ==
    /\ attempt' = [attempt EXCEPT ![c] = n]
    /\ lost' = [lost EXCEPT ![c] = ~up]
    /\ pc' = [pc EXCEPT ![c] = "calling"]

Acquire(c) ==
    /\ pc[c] = "waiting"
    /\ Head(queue) = c
    /\ permits > 0
    /\ permits' = permits - 1
    /\ queue' = Tail(queue)
    /\ Attempt(c, 1)
    /\ UNCHANGED <<up, outages, breakerVars, timer, outcome>>

\* The permit forgotten instead of dropped.
Released_Leaked == permits

Released == permits + 1

\* The permit goes back whatever way the call returns.
Return(c, result) ==
    /\ pc' = [pc EXCEPT ![c] = "idle"]
    /\ attempt' = [attempt EXCEPT ![c] = 0]
    /\ lost' = [lost EXCEPT ![c] = FALSE]
    /\ outcome' = [outcome EXCEPT ![c] = result]
    /\ permits' = Released

Succeed(c) ==
    /\ pc[c] = "calling"
    /\ ~lost[c]
    /\ Return(c, "ok")
    /\ UNCHANGED <<up, outages, breakerVars, queue, timer>>

\* The upstream TypeError of alkanes_trace: no retry, and no trip.
NonRetriable(c) ==
    /\ pc[c] = "calling"
    /\ ~lost[c]
    /\ c \in Tracers
    /\ Return(c, "non_retriable")
    /\ UNCHANGED <<up, outages, breakerVars, queue, timer>>

LastAttempt(c) == attempt[c] >= MaxAttempts

\* trip_circuit() stores the flag, then the time.
GiveUp(c) ==
    /\ pc[c] = "calling"
    /\ lost[c]
    /\ LastAttempt(c)
    /\ cb_open' = TRUE
    /\ pc' = [pc EXCEPT ![c] = "tripping"]
    /\ UNCHANGED <<up, outages, cb_age, permits, queue, attempt, lost, timer, outcome>>

Trip(c) ==
    /\ pc[c] = "tripping"
    /\ cb_age' = 0
    /\ Return(c, "failed")
    /\ UNCHANGED <<up, outages, cb_open, queue, timer>>

Delay(n, jitter) ==
    LET d == BaseDelay * 2^(n - 1) + jitter
    IN  IF d <= MaxDelay THEN d ELSE MaxDelay

BackOff(c) ==
    /\ pc[c] = "calling"
    /\ lost[c]
    /\ ~LastAttempt(c)
    /\ \E jitter \in 0..BaseDelay - 1 :
          timer' = [timer EXCEPT ![c] = Delay(attempt[c], jitter)]
    /\ pc' = [pc EXCEPT ![c] = "sleeping"]
    /\ lost' = [lost EXCEPT ![c] = FALSE]
    /\ UNCHANGED <<up, outages, breakerVars, permits, queue, attempt, outcome>>

Retry(c) ==
    /\ pc[c] = "sleeping"
    /\ timer[c] = 0
    /\ Attempt(c, attempt[c] + 1)
    /\ UNCHANGED <<up, outages, breakerVars, permits, queue, timer, outcome>>

Progress(c) ==
    \/ Enter(c) \/ HalfOpen(c) \/ Close(c) \/ Acquire(c) \/ Retry(c)
    \/ Succeed(c) \/ NonRetriable(c) \/ GiveUp(c) \/ Trip(c) \/ BackOff(c)

Next ==
    \/ Outage \/ Recovery \/ Tick
    \/ \E c \in Callers : Progress(c) \/ Reject(c)

Spec == Init /\ [][Next]_vars

\* Time passes, every attempt ends (the timeout sees to that), a permit goes to
\* the first in the queue, and the workers call again and again (they poll and
\* retry).
Fairness ==
    /\ WF_vars(Tick)
    /\ \A c \in Callers : WF_vars(Progress(c))

FairSpec == Spec /\ Fairness

-----------------------------------------------------------------------------
(* Properties *)

\* Every admitted call returns, and gives its permit back: a full semaphore of
\* calls that sleep between attempts never blocks the others for good, even
\* while upstream stays down.
CallsReturn == \A c \in Callers : pc[c] = "waiting" ~> pc[c] = "idle"

\* Recovery: once upstream stays up, every caller is answered again and again;
\* neither the breaker nor calls left over from the outage shut anyone out.
Recovers ==
    <>[]up => \A c \in Callers : []<>(outcome[c] \in {"ok", "non_retriable"})

\* No permit is lost or handed out twice, and nobody waits outside the queue:
\* the permits left and the calls that are attempting or sleeping add up, on
\* every way a call can end.
PermitsAccounted ==
    /\ LET holders == {c \in Callers : pc[c] \in {"calling", "sleeping", "tripping"}}
       IN  permits + Cardinality(holders) = MaxPermits
    /\ Len(queue) = Cardinality({c \in Callers : pc[c] = "waiting"})
    /\ \A c \in Callers : pc[c] = "waiting" => \E i \in 1..Len(queue) : queue[i] = c
=============================================================================
