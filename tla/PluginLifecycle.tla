--------------------------- MODULE PluginLifecycle ---------------------------
(***************************************************************************)
(* LifecycleManager: the transitions that a plugin's state may take, for   *)
(* a caller that asks canTransition() before every change, and the hooks   *)
(* of one lifecycle event.                                                 *)
(***************************************************************************)
EXTENDS Callers, Sequences

VARIABLES
  state,   \* the state that the caller keeps
  since,   \* history: the states the plugin was in since it was loaded last
  hooks,   \* hooks_: how many are registered, and how many each trigger has yet to call
  firing,
  fired    \* the answers of the triggers that have ended

own  == <<state, since, hooks, firing, fired>>
vars == <<calls, now, own>>

PluginState ==
  {"UNLOADED", "LOADING", "LOADED", "RESOLVING", "RESOLVED", "INITIALIZING", "INITIALIZED",
   "STARTING", "RUNNING", "PAUSED", "STOPPING", "STOPPED", "ERROR", "DISABLED", "UNLOADING"}

TransitionRules ==
  {<<"UNLOADED", "LOADING">>, <<"LOADING", "LOADED">>,
   <<"LOADED", "RESOLVING">>, <<"LOADED", "DISABLED">>,
   <<"RESOLVING", "RESOLVED">>, <<"RESOLVED", "INITIALIZING">>,
   <<"INITIALIZING", "INITIALIZED">>, <<"INITIALIZED", "STARTING">>,
   <<"STARTING", "RUNNING">>,
   <<"RUNNING", "STOPPING">>, <<"RUNNING", "PAUSED">>,
   <<"PAUSED", "RUNNING">>, <<"PAUSED", "STOPPING">>,
   <<"STOPPING", "STOPPED">>, <<"STOPPED", "STARTING">>, <<"STOPPED", "UNLOADING">>,
   <<"DISABLED", "LOADING">>, <<"DISABLED", "UNLOADING">>,
   <<"ERROR", "UNLOADING">>, <<"UNLOADING", "UNLOADED">>}

\* Mutant: from the error state a plugin may be started again.
CanTransitionRestart(from, to) ==
  from = to \/ to = "ERROR" \/ <<from, to>> \in TransitionRules \cup {<<"ERROR", "STARTING">>}

CanTransition(from, to) == from = to \/ to = "ERROR" \/ <<from, to>> \in TransitionRules

GetAllowedTransitions(current) ==
  {to \in PluginState : <<current, to>> \in TransitionRules \/ (to = "ERROR" /\ current # to)}

IsRunningState(s) == s \in {"RUNNING", "STARTING"}

Init ==
  /\ CallersInit
  /\ state = "UNLOADED" /\ since = {}
  /\ hooks = 0 /\ firing = [c \in Clients |-> 0] /\ fired = {}

Transition(to) ==
  /\ CanTransition(state, to)
  /\ state' = to
  /\ since' = IF to = "LOADING" THEN {} ELSE since \cup {to}
  /\ UNCHANGED <<calls, now, hooks, firing, fired>>

RegisterHook == Called /\ hooks' = hooks + 1 /\ UNCHANGED <<state, since, firing, fired>>

ClearHooks == Called /\ hooks' = 0 /\ UNCHANGED <<state, since, firing, fired>>

\* triggerEvent(): a copy of the hooks, called without the lock, ...
TriggerEvent(c) ==
  /\ Called /\ firing[c] = 0 /\ hooks > 0
  /\ firing' = [firing EXCEPT ![c] = hooks]
  /\ UNCHANGED <<state, since, hooks, fired>>

\* ... until one returns false or throws.
HookCalled(c, good) ==
  /\ firing[c] > 0
  /\ firing' = [firing EXCEPT ![c] = IF good THEN @ - 1 ELSE 0]
  /\ fired' = IF firing'[c] = 0 THEN fired \cup {good} ELSE fired
  /\ UNCHANGED <<calls, now, state, since, hooks>>

Next ==
  \/ \E to \in PluginState : Transition(to)
  \/ RegisterHook \/ ClearHooks
  \/ \E c \in Clients : TriggerEvent(c) \/ \E good \in BOOLEAN : HookCalled(c, good)

Spec == Init /\ [][Next]_vars

-----------------------------------------------------------------------------
TypeOK ==
  /\ CallersTypeOK
  /\ state \in PluginState /\ since \subseteq PluginState
  /\ hooks \in Nat /\ firing \in [Clients -> Nat] /\ fired \subseteq BOOLEAN

\* A plugin that starts or runs was resolved and initialized since it was loaded: neither
\* the error state nor the disabled one is a way round.
StartedIsInitialized ==
  IsRunningState(state) \/ state = "PAUSED" => {"LOADED", "RESOLVED", "INITIALIZED"} \subseteq since

=============================================================================
