--------------------------- MODULE BreakerPromise ---------------------------
(***************************************************************************)
(* What a circuit breaker promises: while it is open it turns requests     *)
(* away until the waiting time has passed since it opened or since the     *)
(* last failure after that, and only then may it try requests again.       *)
(***************************************************************************)
EXTENDS Integers

VARIABLES
  mode,    \* "CLOSED", "OPENING" while it announces that it opens, "OPEN", "HALF_OPEN"
  since,   \* when it opened, or failed last while open; 0 when not open
  wait,    \* how long it stays open
  clock,   \* the time
  passes   \* whether a request is let through

Waited == clock - since >= wait

\* Only the announcement leaves open what happens to a request.
PassesWhenDue ==
  /\ mode = "OPEN" => (passes <=> Waited)
  /\ mode \in {"CLOSED", "HALF_OPEN"} => passes

Init == mode = "CLOSED" /\ since = 0 /\ PassesWhenDue

Announce ==
  /\ mode \in {"CLOSED", "HALF_OPEN"}
  /\ mode' = "OPENING" /\ since' = 0
  /\ UNCHANGED <<wait, clock>>

\* It opens, by failures or by force, or a failure extends the time it is open.
Open == mode' = "OPEN" /\ since' = clock /\ UNCHANGED <<wait, clock>>

Probe ==
  /\ mode = "OPEN" /\ Waited
  /\ mode' = "HALF_OPEN" /\ since' = 0
  /\ UNCHANGED <<wait, clock>>

Close == mode' = "CLOSED" /\ since' = 0 /\ UNCHANGED <<wait, clock>>

\* Time passes, or the owner configures another waiting time.
Environment == clock' >= clock /\ UNCHANGED <<mode, since>>

Next == (Announce \/ Open \/ Probe \/ Close \/ Environment) /\ PassesWhenDue'

Spec == Init /\ [][Next]_<<mode, since, wait, clock, passes>>

=============================================================================
