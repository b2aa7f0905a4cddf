---------------------------- MODULE RetryPolicy -----------------------------
(***************************************************************************)
(* A RetryPolicy and a caller that asks it before every new attempt, with  *)
(* attempts numbered from 0.  The policy keeps the last attempt it agreed  *)
(* to and computes how long it sleeps before it returns.                   *)
(***************************************************************************)
EXTENDS Callers

VARIABLES
  rpConfig,        \* config_
  currentAttempt,  \* currentAttempt_
  attempt,         \* the caller's next attempt
  asking,          \* the caller still tries
  reconfigured     \* history: setConfig() was called since the caller began

own  == <<rpConfig, currentAttempt, attempt, asking, reconfigured>>
vars == <<calls, now, own>>

\* Bound: the largest int64_t, small enough for a backoff to exceed it.
LargestInt64 == 7

RetryStrategy  == {"FIXED_DELAY", "EXPONENTIAL_BACKOFF", "LINEAR_BACKOFF", "IMMEDIATE"}
RetryCondition == {"ON_ERROR", "ON_TIMEOUT", "ON_EXCEPTION", "ON_FAILURE", "CUSTOM"}

RetryConfig ==
  [maxRetries : Limits, strategy : RetryStrategy, condition : RetryCondition,
   initialDelayMs : Limits, maxDelayMs : Limits, delayIncrementMs : Limits]

\* backoffMultiplier, whose default is 2.
Backoff(initial, n) ==
  LET delay[i \in 0 .. n] == IF i = 0 THEN initial ELSE delay[i - 1] * 2 IN delay[n]

\* The result of pow() as an int64_t: the conversion of a number that does not fit is
\* undefined, and the builds give the smallest or the largest integer.
AsInt64(x) == IF x <= LargestInt64 THEN {x} ELSE {-LargestInt64 - 1, LargestInt64}

\* Mutant: the largest delay is not enforced.
GetNextDelayUncapped(config, n) ==
  {IF config.strategy = "LINEAR_BACKOFF"
   THEN config.initialDelayMs + config.delayIncrementMs * n ELSE config.initialDelayMs}

\* The delays that getNextDelay(n) may return.
GetNextDelay(config, n) ==
  LET initial == config.initialDelayMs
      Delays == CASE config.strategy = "FIXED_DELAY"         -> {initial}
                  [] config.strategy = "EXPONENTIAL_BACKOFF" -> AsInt64(Backoff(initial, n))
                  [] config.strategy = "LINEAR_BACKOFF" -> {initial + config.delayIncrementMs * n}
                  [] config.strategy = "IMMEDIATE"      -> {0}
  IN  {IF delay < config.maxDelayMs THEN delay ELSE config.maxDelayMs : delay \in Delays}

\* A failure as the caller reports it: an error message or none, one that speaks of a
\* timeout, some time elapsed, and what the custom condition says of it.
Failure == [error : BOOLEAN, timeout : BOOLEAN, elapsed : BOOLEAN, custom : BOOLEAN]

ConditionMet(condition, failure) ==
  CASE condition \in {"ON_ERROR", "ON_EXCEPTION"} -> failure.error
    [] condition = "ON_TIMEOUT" -> failure.elapsed /\ failure.error /\ failure.timeout
    [] condition = "ON_FAILURE" -> failure.error \/ failure.elapsed
    [] condition = "CUSTOM"     -> failure.custom

Init ==
  /\ CallersInit
  /\ rpConfig \in RetryConfig
  /\ currentAttempt = 0
  /\ attempt = 0 /\ asking = TRUE /\ reconfigured = FALSE

\* Mutant: one attempt too many is allowed.
AgreesLate(failure) ==
  attempt <= rpConfig.maxRetries /\ ConditionMet(rpConfig.condition, failure)

Agrees(failure) ==
  attempt < rpConfig.maxRetries /\ ConditionMet(rpConfig.condition, failure)

\* Only an agreement changes the policy.
ShouldRetry(failure) ==
  /\ Called /\ asking
  /\ IF Agrees(failure)
     THEN currentAttempt' = attempt /\ attempt' = attempt + 1 /\ asking' = TRUE
     ELSE asking' = FALSE /\ UNCHANGED <<currentAttempt, attempt>>
  /\ UNCHANGED <<rpConfig, reconfigured>>

\* reset(), after which the caller starts anew.
Reset ==
  /\ Called
  /\ currentAttempt' = 0 /\ attempt' = 0 /\ asking' = TRUE /\ reconfigured' = FALSE
  /\ UNCHANGED rpConfig

\* setConfig() resets the policy but not the caller.
SetConfig(config) ==
  /\ Called
  /\ rpConfig' = config /\ currentAttempt' = 0 /\ reconfigured' = TRUE
  /\ UNCHANGED <<attempt, asking>>

HasReachedMaxRetries == currentAttempt >= rpConfig.maxRetries

Next ==
  \/ \E failure \in Failure : ShouldRetry(failure)
  \/ Reset
  \/ \E config \in RetryConfig : SetConfig(config)

Spec == Init /\ [][Next]_vars

-----------------------------------------------------------------------------
TypeOK ==
  /\ CallersTypeOK
  /\ rpConfig \in RetryConfig
  /\ currentAttempt \in Nat /\ attempt \in Nat /\ asking \in BOOLEAN /\ reconfigured \in BOOLEAN

\* A caller that goes by the answers makes no more than maxRetries further attempts, unless
\* the policy is reconfigured meanwhile.  The policy never says too early that the limit was
\* reached: when it does it refuses every attempt that is left.  Its counter is not ahead of
\* the caller, and one behind at most.  (That hasReachedMaxRetries() becomes true when the
\* limit is reached, as the comment of the interface has it, does not hold: currentAttempt_
\* is the number of the attempt that was agreed to and stays below a limit that is not 0.)
RetriesBounded ==
  /\ reconfigured \/ attempt <= rpConfig.maxRetries
  /\ HasReachedMaxRetries => \A failure \in Failure : ~Agrees(failure)
  /\ currentAttempt <= attempt
  /\ reconfigured \/ attempt <= currentAttempt + 1

\* No delay exceeds the configured maximum, of any attempt.  Delays do not shrink from one
\* attempt to the next and are not negative, as long as the backoff fits its type: it is
\* converted before it is cut to the maximum, and only one that does not fit may turn
\* negative, in which case shouldRetry() does not sleep at all.
DelaysBounded ==
  \A n \in 0 .. rpConfig.maxRetries :
    \A delay \in GetNextDelay(rpConfig, n), next \in GetNextDelay(rpConfig, n + 1) :
      /\ delay <= rpConfig.maxDelayMs
      /\ delay < 0 => Backoff(rpConfig.initialDelayMs, n) > LargestInt64
      /\ Backoff(rpConfig.initialDelayMs, n + 1) <= LargestInt64 => delay <= next

=============================================================================
