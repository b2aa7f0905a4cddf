------------------------------ MODULE Callers -------------------------------
(***************************************************************************)
(* What the service and plugin components share: threads that call their   *)
(* methods, a clock that the code reads with system_clock or steady_clock, *)
(* and the identifiers and configured numbers that callers pass.           *)
(***************************************************************************)
EXTENDS Integers, FiniteSets

CONSTANTS
  Clients,   \* threads that call the methods of a component
  Ids,       \* identifiers that callers use: items, workflows, plugins, ...
  Limits,    \* the thresholds, sizes and periods that a configuration may hold
  MaxCalls,  \* bound: calls made by all Clients together
  MaxTime    \* bound: the last moment of a behaviour

ASSUME CallersAssumption ==
  /\ IsFiniteSet(Clients) /\ IsFiniteSet(Ids)
  /\ Limits \subseteq Nat
  /\ MaxCalls \in Nat
  /\ MaxTime \in Nat \ {0}

\* The part of a list that is at the positions of kept, in its order.
Sublist(list, kept) ==
  LET Rank(i) == Cardinality({j \in kept : j <= i})
  IN  [k \in 1 .. Cardinality(kept) |-> list[CHOOSE i \in kept : Rank(i) = k]]

VARIABLES
  calls,  \* calls made so far
  now     \* the clock; it starts at 1, so that 0 is the time of what never happened

CallersInit == calls = 0 /\ now = 1

CallersTypeOK == calls \in 0 .. MaxCalls /\ now \in 1 .. MaxTime

Called == calls < MaxCalls /\ calls' = calls + 1 /\ UNCHANGED now

\* Time passes between any two steps.
Elapse == now < MaxTime /\ now' = now + 1 /\ UNCHANGED calls

=============================================================================
