--------------------------- MODULE CircuitBreaker ---------------------------
(***************************************************************************)
(* GroqLLMCircuitBreaker of app/core/resilience.py, the singleton every    *)
(* coroutine of a worker process shares.  Its methods are synchronous, so  *)
(* each is one step.                                                       *)
(*                                                                         *)
(* consecutive_rate_limits is only compared with failure_threshold and     *)
(* saturates there.  Time is the flag cooled: the cooldown of the last     *)
(* trip has elapsed.                                                       *)
(***************************************************************************)
EXTENDS Naturals

CONSTANTS
    FailureThreshold,      \* failure_threshold
    HalfOpenMaxTrials      \* half_open_max_trials

ASSUME BreakerAssumption ==
    /\ FailureThreshold \in Nat \ {0}
    /\ HalfOpenMaxTrials \in Nat \ {0}

VARIABLES
    circuit,       \* state
    rateLimits,    \* consecutive_rate_limits
    trials,        \* half_open_trials_active
    cooled

breakerVars == <<circuit, rateLimits, trials, cooled>>

BreakerTypeOK ==
    /\ circuit \in {"CLOSED", "OPEN", "HALF_OPEN"}
    /\ rateLimits \in 0..FailureThreshold
    /\ trials \in 0..HalfOpenMaxTrials
    /\ cooled \in BOOLEAN

BreakerInit ==
    /\ circuit = "CLOSED"
    /\ rateLimits = 0
    /\ trials = 0
    /\ cooled = FALSE

\* Mutant: nothing reopens the circuit after the cooldown
NeverCooled ==
    \/ circuit = "CLOSED"
    \/ circuit = "HALF_OPEN" /\ trials < HalfOpenMaxTrials

\* What can_execute answers ...
Allowed ==
    \/ circuit = "CLOSED"
    \/ circuit = "OPEN" /\ cooled
    \/ circuit = "HALF_OPEN" /\ trials < HalfOpenMaxTrials

\* ... and what it changes when it answers True; False changes nothing.
Permit ==
    /\ Allowed
    /\ circuit' = IF circuit = "OPEN" THEN "HALF_OPEN" ELSE circuit
    /\ trials' = IF circuit = "OPEN" THEN 1
                 ELSE IF circuit = "HALF_OPEN" THEN trials + 1 ELSE trials
    /\ UNCHANGED <<rateLimits, cooled>>

Cooldown ==
    /\ circuit = "OPEN"
    /\ ~cooled
    /\ cooled' = TRUE
    /\ UNCHANGED <<circuit, rateLimits, trials>>

\* Mutant: the count of consecutive rate limits survives a success
RecordSuccessKeepsCount ==
    /\ circuit' = "CLOSED"
    /\ trials' = 0
    /\ UNCHANGED <<rateLimits, cooled>>

RecordSuccess ==
    /\ circuit' = "CLOSED"
    /\ rateLimits' = 0
    /\ trials' = 0
    /\ UNCHANGED cooled

Strikes == IF rateLimits < FailureThreshold THEN rateLimits + 1 ELSE rateLimits

\* record_failure(exc, is_rate_limit=True)
RecordRateLimit ==
    /\ rateLimits' = Strikes
    /\ IF Strikes = FailureThreshold \/ circuit = "HALF_OPEN"
       THEN circuit' = "OPEN" /\ cooled' = FALSE /\ trials' = 0
       ELSE UNCHANGED <<circuit, cooled, trials>>

\* record_failure(exc, is_rate_limit=False): only the reason is kept
RecordOtherFailure == UNCHANGED breakerVars
=============================================================================
