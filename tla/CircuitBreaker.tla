--------------------------- MODULE CircuitBreaker ---------------------------
(***************************************************************************)
(* A CircuitBreaker shared by several threads.  Every method runs under    *)
(* mutex_ and is one step, except that setState() unlocks the mutex while  *)
(* it calls the state change callback: a method that changes the state     *)
(* then has a second step, its tail, and others may run in between.        *)
(***************************************************************************)
EXTENDS Callers

VARIABLES
  cbState,       \* state_
  failureCount,  \* failureCount_
  successCount,  \* successCount_
  openTime,      \* openTime_
  cbConfig,      \* config_
  hasCallback,   \* stateChangeCallback_ is set
  tail,          \* what each thread does when its callback returns, "none" outside one
  overlapped     \* history: a method changed the breaker during a callback of another

counts == <<failureCount, successCount>>
own  == <<cbState, failureCount, successCount, openTime, cbConfig, hasCallback, tail, overlapped>>
vars == <<calls, now, own>>

CircuitState == {"CLOSED", "OPEN", "HALF_OPEN"}

CircuitBreakerConfig ==
  [failureThreshold : Limits, resetTimeoutMs : Limits, halfOpenThreshold : Limits,
   enabled : BOOLEAN]

\* What follows setState in its caller: the counts are cleared, with openTime_ or
\* without it; the breaker notes when it opened; or nothing.
Tail == {"none", "clearCounts", "clearAll", "markOpen", "nothing"}

Init ==
  /\ CallersInit
  /\ cbState = "CLOSED"
  /\ failureCount = 0 /\ successCount = 0
  /\ openTime = 0
  /\ cbConfig \in CircuitBreakerConfig
  /\ hasCallback = FALSE
  /\ tail = [c \in Clients |-> "none"]
  /\ overlapped = FALSE

\* The reset time has passed; an openTime_ of 0 lies in the distant past.
Elapsed == openTime = 0 \/ now - openTime >= cbConfig.resetTimeoutMs

AllowRequest == cbConfig.enabled => (cbState = "OPEN" => Elapsed)

GetState == IF cbState = "OPEN" /\ openTime > 0 /\ Elapsed THEN "HALF_OPEN" ELSE cbState

-----------------------------------------------------------------------------
(* The tails, given the counts when they run.                              *)

\* Mutant: recordFailure() does not note when the breaker opened.
RunTailUnmarked(what, failures, successes) ==
  /\ failureCount' = failures /\ successCount' = successes
  /\ openTime' = IF what = "clearAll" THEN 0 ELSE openTime

RunTail(what, failures, successes) ==
  /\ failureCount' = IF what \in {"clearCounts", "clearAll"} THEN 0 ELSE failures
  /\ successCount' = IF what \in {"clearCounts", "clearAll"} THEN 0 ELSE successes
  /\ openTime' = IF what = "clearAll" THEN 0 ELSE IF what = "markOpen" THEN now ELSE openTime

\* setState(to) in a method of c that has counted, followed by the rest of the method.
SetState(c, to, what, failures, successes) ==
  /\ cbState' = to
  /\ IF hasCallback /\ cbState # to
     THEN /\ tail' = [tail EXCEPT ![c] = what]
          /\ failureCount' = failures /\ successCount' = successes
          /\ UNCHANGED openTime
     ELSE RunTail(what, failures, successes) /\ UNCHANGED tail

\* c calls a method that may change the breaker; it is not inside its own callback.
Mutates(c) ==
  /\ Called
  /\ tail[c] = "none"
  /\ overlapped' = (overlapped \/ \E d \in Clients : tail[d] # "none")
  /\ UNCHANGED <<cbConfig, hasCallback>>

Count(failures, successes) ==
  /\ failureCount' = failures /\ successCount' = successes
  /\ UNCHANGED <<cbState, openTime, tail>>

RecordSuccess(c) ==
  LET successes == successCount + 1
      closes    == cbState = "HALF_OPEN" /\ successes >= cbConfig.halfOpenThreshold
      probes    == cbState = "OPEN" /\ Elapsed
  IN  /\ Mutates(c)
      /\ \/ closes /\ SetState(c, "CLOSED", "clearCounts", failureCount, successes)
         \/ probes /\ SetState(c, "HALF_OPEN", "nothing", failureCount, successes)
         \/ ~closes /\ ~probes /\ Count(failureCount, successes)

\* A failure while the breaker is open extends the time it stays open.
RecordFailure(c) ==
  LET failures == failureCount + 1
      few      == cbState = "CLOSED" /\ failures < cbConfig.failureThreshold
  IN  /\ Mutates(c)
      /\ \/ few /\ Count(failures, successCount)
         \/ cbState = "OPEN" /\ RunTail("markOpen", failures, successCount)
                             /\ UNCHANGED <<cbState, tail>>
         \/ ~few /\ cbState # "OPEN" /\ SetState(c, "OPEN", "markOpen", failures, successCount)

\* reset() and forceClose() do the same.
Reset(c) == Mutates(c) /\ SetState(c, "CLOSED", "clearAll", failureCount, successCount)

ForceOpen(c) == Mutates(c) /\ SetState(c, "OPEN", "markOpen", failureCount, successCount)

\* The callback returns and the method ends under the mutex again.
CallbackReturns(c) ==
  /\ tail[c] # "none"
  /\ RunTail(tail[c], failureCount, successCount)
  /\ tail' = [tail EXCEPT ![c] = "none"]
  /\ UNCHANGED <<calls, now, cbState, cbConfig, hasCallback, overlapped>>

-----------------------------------------------------------------------------
(* Configuration.                                                          *)

SetConfig(config) ==
  /\ Called
  /\ cbConfig' = config
  /\ UNCHANGED <<cbState, counts, openTime, hasCallback, tail, overlapped>>

SetStateChangeCallback(set) ==
  /\ Called
  /\ hasCallback' = set
  /\ UNCHANGED <<cbState, counts, openTime, cbConfig, tail, overlapped>>

Tick ==
  /\ Elapse
  /\ UNCHANGED <<cbState, counts, openTime, cbConfig, hasCallback, tail, overlapped>>

Next ==
  \/ \E c \in Clients : \/ RecordSuccess(c) \/ RecordFailure(c)
                        \/ Reset(c) \/ ForceOpen(c) \/ CallbackReturns(c)
  \/ \E config \in CircuitBreakerConfig : SetConfig(config)
  \/ \E set \in BOOLEAN : SetStateChangeCallback(set)
  \/ Tick

Spec == Init /\ [][Next]_vars

-----------------------------------------------------------------------------
TypeOK ==
  /\ CallersTypeOK
  /\ cbState \in CircuitState
  /\ failureCount \in 0 .. MaxCalls /\ successCount \in 0 .. MaxCalls
  /\ openTime \in 0 .. MaxTime
  /\ cbConfig \in CircuitBreakerConfig
  /\ hasCallback \in BOOLEAN
  /\ tail \in [Clients -> Tail]
  /\ overlapped \in BOOLEAN

\* A callback is announcing that the breaker opened; the time is not noted yet.
Opening == cbState = "OPEN" /\ \E c \in Clients : tail[c] = "markOpen"

\* As long as nothing changed the breaker during another method's callback, its two
\* views of an open breaker agree: requests pass once getState() shows HALF_OPEN.
ViewsAgree ==
  cbConfig.enabled /\ ~overlapped /\ ~Opening => (AllowRequest <=> GetState # "OPEN")

Mode == IF Opening THEN "OPENING" ELSE cbState

Promise == INSTANCE BreakerPromise WITH
  mode   <- Mode,
  since  <- IF Mode = "OPEN" THEN openTime ELSE 0,
  wait   <- IF cbConfig.enabled THEN cbConfig.resetTimeoutMs ELSE 0,
  clock  <- now,
  passes <- AllowRequest

\* As long as nothing changed the breaker during another method's callback, it does
\* what BreakerPromise says: an open breaker turns requests away for the whole reset
\* time, which every failure restarts, and probes only afterwards.
BreakerImplemented ==
  Promise!Init /\ [][overlapped' \/ Promise!Next]_<<cbState, tail, openTime, cbConfig, now>>

=============================================================================
