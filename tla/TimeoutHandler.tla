--------------------------- MODULE TimeoutHandler ---------------------------
(***************************************************************************)
(* A TimeoutHandler, the threads that start, stop and reset its timer, and *)
(* its monitor thread.  The flags and times change under mutex_; stopTimer *)
(* notifies and joins after it let the mutex go, and the monitor calls the *)
(* callback and handles the timeout after it let the mutex go.             *)
(***************************************************************************)
EXTENDS Callers

VARIABLES
  timeoutMs,     \* timeoutMs_; 0 for none
  policy,        \* policy_
  autoRestart,   \* autoRestart_, which no constructor sets
  maxRetries,    \* maxRetries_, which no constructor sets
  retryCount,    \* retryCount_
  timedOut,      \* timedOut_
  timerRunning,  \* timerRunning_
  startTime,     \* startTime_
  timerThread,   \* timerThread_: "none" when not joinable, else where the monitor is
  stopping,      \* threads in stopTimer() that lowered timerRunning_ and have yet to join
  life,          \* "alive", "destroyed", or "terminated": std::thread called terminate
  interrupts,    \* how often the workflow was interrupted
  expired,       \* history: the timer expired
  restarted      \* history: startTimer() ran between the two halves of a stopTimer()

timer  == <<timedOut, timerRunning, startTime, timerThread>>
config == <<timeoutMs, policy, autoRestart, maxRetries>>
past   == <<interrupts, expired, restarted>>
own  == <<timer, config, retryCount, stopping, life, past>>
vars == <<calls, now, own>>

TimeoutPolicy == {"INTERRUPT", "PAUSE", "RETRY", "NOTIFY_ONLY"}

Monitor == {"none", "check", "wait", "callback", "handle", "ended"}

Init ==
  /\ CallersInit
  /\ timeoutMs = 0 /\ policy = "INTERRUPT"
  /\ autoRestart \in BOOLEAN /\ maxRetries \in Limits
  /\ retryCount = 0
  /\ timedOut = FALSE /\ timerRunning = FALSE
  /\ startTime = 0
  /\ timerThread = "none"
  /\ stopping = {}
  /\ life = "alive"
  /\ interrupts = 0 /\ expired = FALSE /\ restarted = FALSE

Enters(c) == Called /\ life = "alive" /\ c \notin stopping

-----------------------------------------------------------------------------
(* Configuration: setTimeout, setPolicy and setConfig.                     *)

SetTimeout(timeout) ==
  /\ Called /\ life = "alive"
  /\ timeoutMs' = timeout
  /\ UNCHANGED <<timer, policy, autoRestart, maxRetries, retryCount, stopping, life, past>>

SetConfig(timeout, chosen, restart, retries) ==
  /\ Called /\ life = "alive"
  /\ timeoutMs' = timeout /\ policy' = chosen
  /\ autoRestart' = restart /\ maxRetries' = retries
  /\ retryCount' = 0
  /\ UNCHANGED <<timer, stopping, life, past>>

-----------------------------------------------------------------------------
(* The timer.                                                              *)

\* Assigning the new thread terminates the process if the old one was never joined.
StartTimer(c) ==
  /\ Enters(c)
  /\ timeoutMs > 0 /\ ~timerRunning
  /\ timedOut' = FALSE
  /\ timerRunning' = TRUE
  /\ startTime' = now
  /\ timerThread' = "check"
  /\ life' = IF timerThread = "none" THEN "alive" ELSE "terminated"
  /\ restarted' = (restarted \/ stopping # {})
  /\ UNCHANGED <<config, retryCount, stopping, interrupts, expired>>

\* Mutant: stopTimer() tests the flag but leaves it set.
StopTimerKeepsFlag(c) ==
  /\ Enters(c)
  /\ timerRunning
  /\ stopping' = stopping \cup {c}
  /\ UNCHANGED <<timer, config, retryCount, life, past>>

\* Lowers the flag; a call that finds the flag down returns without joining anything.
StopTimer(c) ==
  /\ Enters(c)
  /\ timerRunning
  /\ timerRunning' = FALSE
  /\ stopping' = stopping \cup {c}
  /\ UNCHANGED <<timedOut, startTime, timerThread, config, retryCount, life, past>>

\* notify_all() and join(): the monitor wakes up, sees the flag and ends.
StopTimerJoins(c) ==
  /\ c \in stopping /\ life # "terminated"
  /\ timerThread \in {"none", "ended"}
  /\ timerThread' = "none"
  /\ stopping' = stopping \ {c}
  /\ UNCHANGED <<calls, now, timedOut, timerRunning, startTime, config, retryCount, life, past>>

ResetTimer(c) ==
  /\ Enters(c)
  /\ startTime' = now /\ timedOut' = FALSE
  /\ UNCHANGED <<timerRunning, timerThread, config, retryCount, stopping, life, past>>

ResetRetryCount ==
  /\ Called /\ life = "alive"
  /\ retryCount' = 0
  /\ UNCHANGED <<timer, config, stopping, life, past>>

\* The last owner lets go.  The destructor calls stopTimer(), and destroying a thread
\* that is still joinable terminates the process.
Destroy(c) ==
  /\ Enters(c) /\ stopping = {}
  /\ life' = IF ~timerRunning /\ timerThread # "none" THEN "terminated" ELSE "destroyed"
  /\ timerRunning' = FALSE
  /\ stopping' = IF timerRunning THEN {c} ELSE {}
  /\ UNCHANGED <<timedOut, startTime, timerThread, config, retryCount, past>>

-----------------------------------------------------------------------------
(* monitorTimeout().                                                       *)

MonitorAt(from) == timerThread = from /\ life # "terminated"

MonitorGoes(from, to) ==
  /\ MonitorAt(from) /\ timerThread' = to
  /\ UNCHANGED <<calls, now, startTime, config, stopping, life, restarted>>

Due == now - startTime >= timeoutMs

MonitorStops ==
  /\ ~timerRunning /\ MonitorGoes("check", "ended")
  /\ UNCHANGED <<timedOut, timerRunning, retryCount, interrupts, expired>>

MonitorExpires ==
  /\ timerRunning /\ Due /\ MonitorGoes("check", "callback")
  /\ timedOut' = TRUE /\ timerRunning' = FALSE /\ expired' = TRUE
  /\ UNCHANGED <<retryCount, interrupts>>

MonitorWaits ==
  /\ timerRunning /\ ~Due /\ MonitorGoes("check", "wait")
  /\ UNCHANGED <<timedOut, timerRunning, retryCount, interrupts, expired>>

\* A notification, or at most 100 ms later the end of wait_for.
MonitorWakes ==
  /\ MonitorGoes("wait", "check")
  /\ UNCHANGED <<timedOut, timerRunning, retryCount, interrupts, expired>>

MonitorCalledBack ==
  /\ MonitorGoes("callback", "handle")
  /\ UNCHANGED <<timedOut, timerRunning, retryCount, interrupts, expired>>

\* handleTimeout(), of a workflow that may be gone.  Only the two cases below touch it.
HandleTimeout(gone) ==
  /\ MonitorGoes("handle", "ended")
  /\ LET retries == policy = "RETRY" /\ autoRestart /\ retryCount < maxRetries
         strikes == policy = "INTERRUPT" \/ (policy = "RETRY" /\ ~retries)
     IN  /\ retryCount' = IF ~gone /\ retries THEN retryCount + 1 ELSE retryCount
         /\ interrupts' = IF ~gone /\ strikes THEN interrupts + 1 ELSE interrupts
  /\ UNCHANGED <<timedOut, timerRunning, expired>>

Tick ==
  Elapse /\ UNCHANGED <<timer, config, retryCount, stopping, life, past>>

Next ==
  \/ \E c \in Clients : \/ StartTimer(c) \/ StopTimer(c) \/ StopTimerJoins(c)
                        \/ ResetTimer(c) \/ Destroy(c)
  \/ \E timeout \in Limits \cup {0} :
       \/ SetTimeout(timeout)
       \/ \E chosen \in TimeoutPolicy, restart \in BOOLEAN, retries \in Limits :
            SetConfig(timeout, chosen, restart, retries)
  \/ ResetRetryCount
  \/ MonitorStops \/ MonitorExpires \/ MonitorWaits \/ MonitorWakes \/ MonitorCalledBack
  \/ \E gone \in BOOLEAN : HandleTimeout(gone)
  \/ Tick

\* The monitor and a thread inside stopTimer() go on.
MonitorSteps ==
  MonitorStops \/ MonitorExpires \/ MonitorWakes \/ MonitorCalledBack
  \/ MonitorWaits \/ (\E gone \in BOOLEAN : HandleTimeout(gone))

Fairness == WF_vars(MonitorSteps) /\ \A c \in Clients : WF_vars(StopTimerJoins(c))

Spec == Init /\ [][Next]_vars /\ Fairness

-----------------------------------------------------------------------------
TypeOK ==
  /\ CallersTypeOK
  /\ timeoutMs \in Limits \cup {0} /\ policy \in TimeoutPolicy
  /\ autoRestart \in BOOLEAN /\ maxRetries \in Limits
  /\ retryCount \in Nat
  /\ timedOut \in BOOLEAN /\ timerRunning \in BOOLEAN
  /\ startTime \in 0 .. MaxTime
  /\ timerThread \in Monitor
  /\ stopping \subseteq Clients
  /\ life \in {"alive", "destroyed", "terminated"}
  /\ interrupts \in Nat /\ expired \in BOOLEAN /\ restarted \in BOOLEAN

\* A stopTimer() that finds the timer running is in time: while it waits for the monitor,
\* and until another start, no timeout is called back or handled.
StopIsInTime ==
  stopping # {} /\ life # "terminated" => timerThread \notin {"callback", "handle"}

\* The handler brings the process down only if it was started again, or destroyed, after
\* its timer expired, or if it was started while a stopTimer() was under way.
TerminationNeedsExpiry == life = "terminated" => expired \/ restarted

\* stopTimer() and the destructor come back, or the process ends.
StopComesBack == \A c \in Clients : c \in stopping ~> c \notin stopping \/ life = "terminated"

=============================================================================
