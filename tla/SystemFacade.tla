---------------------------- MODULE SystemFacade ----------------------------
(***************************************************************************)
(* SystemFacade, the process-wide entry to a WorkflowManager, and the      *)
(* database connection that the manager opens, which is process-wide, too. *)
(* initialize(), enablePersistence(), disablePersistence() and shutdown()  *)
(* lock mutex_, a plain std::mutex; the other methods use manager_ without *)
(* it.                                                                     *)
(***************************************************************************)
EXTENDS Callers

NoClient == "NONE"

VARIABLES
  manager,             \* manager_: "NONE", "PLAIN" or "PERSISTING"
  initialized,         \* initialized_
  persistenceEnabled,  \* persistenceEnabled_
  connected,           \* the database connection is open
  mutex,               \* the client that holds mutex_
  phase,               \* where each client is: "idle", "initialize" and "enable" wait for
                       \* mutex_, "configuring" and "enabling" have it, "use", "crashed"
  replaced             \* history: a manager was replaced by a second initialize()

own  == <<manager, initialized, persistenceEnabled, connected, mutex, phase, replaced>>
vars == <<calls, now, own>>

state == <<manager, initialized, persistenceEnabled, connected, replaced>>

Init ==
  /\ CallersInit
  /\ manager = "NONE"
  /\ initialized = FALSE /\ persistenceEnabled = FALSE /\ connected = FALSE
  /\ mutex = NoClient
  /\ phase = [c \in Clients |-> "idle"]
  /\ replaced = FALSE

Goes(c, to) == phase' = [phase EXCEPT ![c] = to]

\* A short call, from the lock of mutex_ to its release.
Locked(c) == Called /\ phase[c] = "idle" /\ mutex = NoClient /\ UNCHANGED <<mutex, phase>>

\* A longer one, which first waits for mutex_, ...
Begin(c, to) == Called /\ phase[c] = "idle" /\ Goes(c, to) /\ UNCHANGED <<mutex, state>>

\* ... locks it, even if it is this client that holds it, ...
Lock(c) ==
  /\ phase[c] \in {"initialize", "enable"}
  /\ mutex = NoClient /\ mutex' = c
  /\ Goes(c, IF phase[c] = "initialize" THEN "configuring" ELSE "enabling")
  /\ UNCHANGED <<calls, now, state>>

\* ... and releases it when it returns.
Return(c) == mutex' = NoClient /\ Goes(c, "idle") /\ UNCHANGED <<calls, now>>

-----------------------------------------------------------------------------
(* initialize() and enablePersistence().                                   *)

\* A new manager, which does not persist, takes the place of another; with a database,
\* the call goes on to enablePersistence() and its lock_guard keeps mutex_.
Configure(c) ==
  /\ phase[c] = "configuring"
  /\ manager' = "PLAIN"
  /\ replaced' = (replaced \/ manager = "PERSISTING")
  /\ \/ initialized' = TRUE /\ Return(c)
     \/ Goes(c, "enable") /\ UNCHANGED <<calls, now, mutex, initialized>>
  /\ UNCHANGED <<persistenceEnabled, connected>>

\* The connection may fail to open; an open one is used as it is.
Enable(c) ==
  /\ phase[c] = "enabling"
  /\ \/ /\ manager # "NONE"
        /\ manager' = "PERSISTING" /\ persistenceEnabled' = TRUE /\ connected' = TRUE
     \/ /\ manager # "NONE" => ~connected
        /\ manager' = (IF manager = "NONE" THEN "NONE" ELSE "PLAIN")
        /\ UNCHANGED <<persistenceEnabled, connected>>
  /\ Return(c)
  /\ UNCHANGED <<initialized, replaced>>

-----------------------------------------------------------------------------
(* The other calls.                                                        *)

\* WorkflowManager::disablePersistence() closes the connection if it uses it.
Disconnected ==
  /\ connected' = (connected /\ manager # "PERSISTING")
  /\ persistenceEnabled' = FALSE

DisablePersistence(c) ==
  /\ Locked(c)
  /\ Disconnected
  /\ manager' = IF manager = "PERSISTING" THEN "PLAIN" ELSE manager
  /\ UNCHANGED <<initialized, replaced>>

\* Mutant: the manager is dropped with its connection open.
ShutdownLeavesOpen(c) ==
  /\ Locked(c)
  /\ persistenceEnabled' = FALSE
  /\ manager' = "NONE" /\ initialized' = FALSE
  /\ UNCHANGED <<connected, replaced>>

\* The connection is closed only if persistence was enabled.
Shutdown(c) ==
  /\ Locked(c)
  /\ IF persistenceEnabled THEN Disconnected ELSE UNCHANGED <<connected, persistenceEnabled>>
  /\ manager' = "NONE" /\ initialized' = FALSE
  /\ UNCHANGED replaced

\* registerWorkflow(), startWorkflow(), sendMessage() and the others test manager_ ...
TestManager(c) ==
  /\ Called /\ phase[c] = "idle" /\ manager # "NONE"
  /\ Goes(c, "use")
  /\ UNCHANGED <<mutex, state>>

\* ... and call it: a null pointer if shutdown() came between.
UseManager(c) ==
  /\ phase[c] = "use"
  /\ Goes(c, IF manager = "NONE" THEN "crashed" ELSE "idle")
  /\ UNCHANGED <<calls, now, mutex, state>>

GetPersistence == manager = "PERSISTING" /\ persistenceEnabled

Next ==
  \E c \in Clients :
    \/ \E to \in {"initialize", "enable"} : Begin(c, to)
    \/ Lock(c) \/ Configure(c) \/ Enable(c)
    \/ DisablePersistence(c) \/ Shutdown(c)
    \/ TestManager(c) \/ UseManager(c)

Fairness ==
  \A c \in Clients : WF_vars(Lock(c)) /\ WF_vars(Configure(c)) /\ WF_vars(Enable(c))

Spec == Init /\ [][Next]_vars /\ Fairness

-----------------------------------------------------------------------------
TypeOK ==
  /\ CallersTypeOK
  /\ manager \in {"NONE", "PLAIN", "PERSISTING"}
  /\ initialized \in BOOLEAN /\ persistenceEnabled \in BOOLEAN
  /\ connected \in BOOLEAN /\ replaced \in BOOLEAN
  /\ mutex \in Clients \cup {NoClient}
  /\ phase \in [Clients -> {"idle", "initialize", "configuring", "enable", "enabling",
                        "use", "crashed"}]

\* getPersistence() gives out an open connection; after shutdown() the connection is
\* closed, unless a second initialize() had dropped the manager that used it.
ConnectionKept ==
  /\ GetPersistence => connected
  /\ manager = "NONE" /\ connected => replaced

\* A call of initialize() returns, whatever its configuration.
InitializeReturns == \A c \in Clients : phase[c] = "configuring" ~> phase[c] = "idle"

=============================================================================
