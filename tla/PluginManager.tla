---------------------------- MODULE PluginManager ----------------------------
(***************************************************************************)
(* The PluginManager: its table of plugins under pluginsMutex_, loads and  *)
(* unloads that call the plugin without it, and the operations that hold   *)
(* pluginsMutex_ and statsMutex_ together.  Every load makes an instance   *)
(* of its own, which the model numbers.                                    *)
(***************************************************************************)
EXTENDS Callers

NoClient  == "NONE"
Instances == 1 .. MaxCalls

VARIABLES
  plugins,       \* plugins_: per identifier the instance, its state and its dependencies
  pluginsMutex,  \* the client that holds pluginsMutex_ across steps
  statsMutex,    \* the client that holds statsMutex_ across steps
  place,         \* where each client is, with what it works on
  started,       \* history: instances whose onStart() succeeded when they were loaded
  stopped,       \* history: instances whose onStop() was called
  fate,          \* history: what became of each instance
  contested,     \* history: instances taken from the table, or replaced, in mid-load
  broken         \* undefined behaviour has ended the process

history == <<started, stopped, fate, contested>>
own  == <<plugins, pluginsMutex, statsMutex, place, history, broken>>
vars == <<calls, now, own>>

None  == [n |-> 0, state |-> "UNLOADED", deps |-> {}]
Entry == [n : Instances, state : {"LOADED", "RUNNING", "DISABLED"}, deps : SUBSET Ids]

\* What a client is at: an identifier and an entry, the identifiers it has yet to unload,
\* and the entry that reloadPlugin() is going to load.
Idle == [phase |-> "idle", id |-> "NONE", entry |-> None, todo |-> {}, again |-> None]

Phases == {"idle", "create", "insert", "onLoad", "onInitialize", "onStart", "mark",
           "take", "check", "leave", "count", "allInfo", "stats", "runningCount"}

Fates == {"none", "loading", "listed", "leaving", "unloaded", "dropped", "replaced", "rejected"}

Init ==
  /\ CallersInit
  /\ plugins = [id \in Ids |-> None]
  /\ pluginsMutex = NoClient /\ statsMutex = NoClient
  /\ place = [c \in Clients |-> Idle]
  /\ started = {} /\ stopped = {} /\ contested = {}
  /\ fate = [n \in Instances |-> "none"]
  /\ broken = FALSE

Listed == {id \in Ids : plugins[id] # None}

\* The process goes on; a call starts; a call goes on to its next step.
Alive       == ~broken
Begins(c)   == Alive /\ Called /\ place[c] = Idle
At(c, p)    == Alive /\ place[c].phase = p /\ UNCHANGED <<calls, now>>
Goes(c, p)  == place' = [place EXCEPT ![c].phase = p]
Unlocked    == pluginsMutex = NoClient
Uncontended == Unlocked /\ UNCHANGED <<pluginsMutex, statsMutex>>

\* The end of an entry destroys the plugin twice, through destroyFunc, which is code of a
\* library that may be closed already, and through the shared_ptr: undefined behaviour.
EntryDestroyed == broken' \in BOOLEAN

\* A call that unloads goes on with what it has left to do.
Proceeds(c, left) ==
  LET p == place[c]
  IN  place' = [place EXCEPT ![c] =
        IF left # {} THEN [p EXCEPT !.phase = "take", !.entry = None, !.todo = left]
        ELSE IF p.again # None THEN [Idle EXCEPT !.phase = "create", !.id = p.id,
                                                 !.entry = p.again]
        ELSE Idle]

-----------------------------------------------------------------------------
(* loadPlugin() and reloadPlugin().                                        *)

\* checkDependencies() reads the table without the lock; a version that does not match
\* fails it, too.
CheckDependencies(deps, required) == required => deps \subseteq Listed

\* An instance is created, and rejected if its dependencies are not met.
Created(c, id, entry, required) ==
  /\ \/ /\ CheckDependencies(entry.deps, required)
        /\ place' = [place EXCEPT ![c] = [Idle EXCEPT !.phase = "insert", !.id = id,
                                                       !.entry = entry]]
        /\ fate' = [fate EXCEPT ![entry.n] = "loading"]
        /\ UNCHANGED broken
     \/ /\ entry.deps # {}
        /\ place' = [place EXCEPT ![c] = Idle]
        /\ fate' = [fate EXCEPT ![entry.n] = "rejected"]
        /\ EntryDestroyed
  /\ UNCHANGED <<plugins, pluginsMutex, statsMutex, started, stopped, contested>>

Loaded(n, deps) == [n |-> n, state |-> "LOADED", deps |-> deps]

Load(c, id, deps, required) ==
  Begins(c) /\ Created(c, id, Loaded(calls', deps), required)

\* reloadPlugin(): a copy of the path and the specification, then an unload, ...
Reload(c, id) ==
  /\ Begins(c) /\ Uncontended /\ plugins[id] # None
  /\ place' = [place EXCEPT ![c] = [Idle EXCEPT !.phase = "take", !.id = id, !.todo = {id},
                                      !.again = Loaded(calls', plugins[id].deps)]]
  /\ UNCHANGED <<plugins, history, broken>>

\* ... whose result is ignored, and a load.
CreateAgain(c, required) ==
  At(c, "create") /\ Created(c, place[c].id, place[c].entry, required)

\* The clients in the middle of loading instance n.
Loading(n) ==
  {c \in Clients : place[c].entry.n = n
                   /\ place[c].phase \in {"onLoad", "onInitialize", "onStart", "mark"}}

\* The entry enters the table, in place of an older one of the same identifier.
Insert(c) ==
  /\ At(c, "insert") /\ Uncontended
  /\ LET p == place[c]
         old == plugins[p.id].n
     IN  /\ plugins' = [plugins EXCEPT ![p.id] = p.entry]
         /\ IF old = 0 THEN UNCHANGED <<broken, contested>>
            ELSE /\ EntryDestroyed
                 /\ contested' = IF Loading(old) = {} THEN contested ELSE contested \cup {old}
         /\ fate' = [n \in Instances |-> IF n = p.entry.n THEN "listed"
                                         ELSE IF n = old THEN "replaced" ELSE fate[n]]
  /\ Goes(c, "onLoad")
  /\ UNCHANGED <<started, stopped>>

\* onLoad() and onInitialize(), through a pointer that nothing protects: if the instance has
\* left the table the behaviour is undefined.  A failure unloads what has the identifier.
PluginCalled(c) ==
  /\ \E p \in {"onLoad", "onInitialize"} : At(c, p)
  /\ LET p == place[c]
     IN  /\ broken' \in (IF plugins[p.id].n = p.entry.n THEN {FALSE} ELSE BOOLEAN)
         /\ \/ Goes(c, IF p.phase = "onLoad" THEN "onInitialize" ELSE "onStart")
            \/ place' = [place EXCEPT ![c] = [Idle EXCEPT !.phase = "take", !.todo = {p.id}]]
  /\ UNCHANGED <<plugins, pluginsMutex, statsMutex, history>>

\* What is left of a load: its statistic.
CountsLoad(c) == place' = [place EXCEPT ![c] = [Idle EXCEPT !.phase = "count"]]

\* onStart() may fail; the plugin then stays as it is.
PluginStarts(c, good) ==
  /\ At(c, "onStart")
  /\ LET n == place[c].entry.n
     IN  /\ broken' \in (IF plugins[place[c].id].n = n THEN {FALSE} ELSE BOOLEAN)
         /\ started' = IF good THEN started \cup {n} ELSE started
  /\ IF good THEN Goes(c, "mark") ELSE CountsLoad(c)
  /\ UNCHANGED <<plugins, pluginsMutex, statsMutex, stopped, fate, contested>>

\* plugins_[pluginId]->state = RUNNING: of whatever has the identifier by now.
Mark(c) ==
  /\ At(c, "mark") /\ Uncontended
  /\ LET id == place[c].id
     IN  /\ IF plugins[id] = None THEN broken' = TRUE /\ UNCHANGED plugins
            ELSE plugins' = [plugins EXCEPT ![id].state = "RUNNING"] /\ UNCHANGED broken
         /\ contested' = contested
                         \cup ({plugins[id].n} \ {place[c].entry.n, 0})
  /\ CountsLoad(c)
  /\ UNCHANGED <<started, stopped, fate>>

-----------------------------------------------------------------------------
(* unloadPlugin(), forceUnloadPlugin(), unloadAllPlugins() and shutdown(), *)
(* and the unload of reloadPlugin(), whose result is ignored.              *)

Unload(c, ids) ==
  /\ Begins(c) /\ ids # {}
  /\ place' = [place EXCEPT ![c] = [Idle EXCEPT !.phase = "take", !.todo = ids]]
  /\ UNCHANGED <<plugins, pluginsMutex, statsMutex, history, broken>>

\* Mutant: the table remains locked while the dependents are looked up.
TakeLocked(c) ==
  /\ At(c, "take") /\ Unlocked
  /\ \E id \in place[c].todo :
       /\ plugins[id] # None
       /\ plugins' = [plugins EXCEPT ![id] = None]
       /\ fate' = [fate EXCEPT ![plugins[id].n] = "leaving"]
       /\ place' = [place EXCEPT ![c].phase = "check", ![c].id = id, ![c].entry = plugins[id],
                                 ![c].todo = @ \ {id}]
  /\ pluginsMutex' = c
  /\ UNCHANGED <<statsMutex, started, stopped, contested, broken>>

\* The entry leaves the table before anything is checked.
Take(c) ==
  /\ At(c, "take") /\ Uncontended
  /\ \E id \in place[c].todo :
       LET entry == plugins[id]
       IN  IF entry = None
           THEN Proceeds(c, place[c].todo \ {id}) /\ UNCHANGED <<plugins, fate, contested>>
           ELSE /\ plugins' = [plugins EXCEPT ![id] = None]
                /\ place' = [place EXCEPT ![c].phase = "check", ![c].id = id,
                                          ![c].entry = entry, ![c].todo = @ \ {id}]
                /\ fate' = [fate EXCEPT ![entry.n] = "leaving"]
                /\ contested' = IF Loading(entry.n) = {} THEN contested
                                ELSE contested \cup {entry.n}
  /\ UNCHANGED <<started, stopped, broken>>

\* With dependents, and without force, the call fails, and the entry is gone all the same.
CheckDependents(c, force) ==
  /\ At(c, "check") /\ Uncontended
  /\ IF ~force /\ \E id \in Listed : place[c].id \in plugins[id].deps
     THEN /\ fate' = [fate EXCEPT ![place[c].entry.n] = "dropped"]
          /\ EntryDestroyed
          /\ Proceeds(c, place[c].todo)
     ELSE Goes(c, "leave") /\ UNCHANGED <<fate, broken>>
  /\ UNCHANGED <<plugins, started, stopped, contested>>

\* What is left of the unload of one plugin: its statistic.
CountsUnload(c) == place' = [place EXCEPT ![c].phase = "count", ![c].entry = None]

\* Mutant: the plugin is unloaded without onStop().
LeaveUnstopped(c) ==
  /\ At(c, "leave")
  /\ fate' = [fate EXCEPT ![place[c].entry.n] = "unloaded"]
  /\ EntryDestroyed
  /\ CountsUnload(c)
  /\ UNCHANGED <<plugins, pluginsMutex, statsMutex, started, stopped, contested>>

\* onStop() if it runs, onCleanup(), onUnload(), the context's shutdown() and dlclose().
Leave(c) ==
  /\ At(c, "leave")
  /\ LET entry == place[c].entry
     IN  /\ stopped' = IF entry.state = "RUNNING" THEN stopped \cup {entry.n} ELSE stopped
         /\ fate' = [fate EXCEPT ![entry.n] = "unloaded"]
  /\ EntryDestroyed
  /\ CountsUnload(c)
  /\ UNCHANGED <<plugins, pluginsMutex, statsMutex, started, contested>>

\* loadedPlugins changes with statsMutex_ alone.
Count(c) ==
  /\ At(c, "count") /\ statsMutex = NoClient
  /\ Proceeds(c, place[c].todo)
  /\ UNCHANGED <<plugins, pluginsMutex, statsMutex, history, broken>>

-----------------------------------------------------------------------------
(* States.  transitionState() accepts what this program asks of it only    *)
(* from LOADED to DISABLED.                                                *)

TransitionState(from, to) == IF <<from, to>> = <<"LOADED", "DISABLED">> THEN to ELSE from

\* disablePlugin() stops a running plugin, whose state remains RUNNING.
DisablePlugin(c, id) ==
  /\ Begins(c) /\ Uncontended /\ plugins[id] # None
  /\ stopped' = IF plugins[id].state = "RUNNING" THEN stopped \cup {plugins[id].n}
                ELSE stopped
  /\ plugins' = [plugins EXCEPT ![id].state = TransitionState(@, "DISABLED")]
  /\ UNCHANGED <<place, started, fate, contested, broken>>

\* enablePlugin() asks for DISABLED to LOADED, in vain.
EnablePlugin(id) == plugins[id].state = "DISABLED"
                    /\ TransitionState("DISABLED", "LOADED") = "LOADED"

\* startAllPlugins() calls onStart() of those that are LOADED, whose state remains, ...
StartAllPlugins(c) ==
  /\ Begins(c) /\ Unlocked
  /\ pluginsMutex' = c /\ Goes(c, "runningCount")
  /\ UNCHANGED <<plugins, statsMutex, history, broken>>

\* ... stopAllPlugins() calls onStop() of the running ones, whose state remains, ...
StopAllPlugins(c) ==
  /\ Begins(c) /\ Unlocked
  /\ stopped' = stopped \cup
                {plugins[id].n : id \in {i \in Listed : plugins[i].state = "RUNNING"}}
  /\ pluginsMutex' = c /\ Goes(c, "runningCount")
  /\ UNCHANGED <<plugins, statsMutex, started, fate, contested, broken>>

\* ... and both set a statistic with the table still locked.
RunningCount(c) ==
  /\ At(c, "runningCount") /\ statsMutex = NoClient
  /\ pluginsMutex' = NoClient
  /\ place' = [place EXCEPT ![c] = Idle]
  /\ UNCHANGED <<plugins, statsMutex, history, broken>>

-----------------------------------------------------------------------------
(* Queries.                                                                *)

\* getStatistics(): statsMutex_, then pluginsMutex_.
GetStatistics(c) ==
  /\ Begins(c) /\ statsMutex = NoClient
  /\ statsMutex' = c /\ Goes(c, "stats")
  /\ UNCHANGED <<plugins, pluginsMutex, history, broken>>

Statistics(c) ==
  /\ At(c, "stats") /\ Unlocked
  /\ statsMutex' = NoClient
  /\ place' = [place EXCEPT ![c] = Idle]
  /\ UNCHANGED <<plugins, pluginsMutex, history, broken>>

\* getAllPluginInfo() calls getPluginInfo() for each plugin with the table locked, and that
\* locks it again.
GetAllPluginInfo(c) ==
  /\ Begins(c) /\ Unlocked /\ Listed # {}
  /\ pluginsMutex' = c /\ Goes(c, "allInfo")
  /\ UNCHANGED <<plugins, statsMutex, history, broken>>

IsPluginRunning(id) == plugins[id].state = "RUNNING"

Steps(c) ==
  \/ Insert(c) \/ PluginCalled(c) \/ Mark(c)
  \/ (\E good \in BOOLEAN : PluginStarts(c, good) \/ CreateAgain(c, good)
                             \/ CheckDependents(c, good))
  \/ Take(c) \/ Leave(c) \/ Count(c) \/ RunningCount(c) \/ Statistics(c)

Next ==
  \E c \in Clients :
    \/ \E id \in Ids :
         \/ \E deps \in SUBSET (Ids \ {id}), required \in BOOLEAN : Load(c, id, deps, required)
         \/ DisablePlugin(c, id) \/ Reload(c, id)
    \/ \E ids \in {Listed} \cup {{id} : id \in Ids} : Unload(c, ids)
    \/ StartAllPlugins(c) \/ StopAllPlugins(c) \/ GetStatistics(c) \/ GetAllPluginInfo(c)
    \/ Steps(c)

Spec == Init /\ [][Next]_vars /\ \A c \in Clients : WF_vars(Steps(c))

-----------------------------------------------------------------------------
TypeOK ==
  /\ CallersTypeOK
  /\ plugins \in [Ids -> Entry \cup {None}]
  /\ pluginsMutex \in Clients \cup {NoClient} /\ statsMutex \in Clients \cup {NoClient}
  /\ \A c \in Clients : /\ place[c].phase \in Phases /\ place[c].todo \subseteq Ids
                         /\ place[c].entry \in Entry \cup {None}
                         /\ place[c].again \in Entry \cup {None}
  /\ started \cup stopped \cup contested \subseteq Instances
  /\ fate \in [Instances -> Fates] /\ broken \in BOOLEAN

\* A plugin that the table calls RUNNING was started, and one that was started when it was
\* loaded is stopped before it is unloaded, unless another call took, replaced or marked
\* the instance in the middle of its load.
RunningIsStartedAndStopped ==
  /\ \A id \in Listed :
       plugins[id].state = "RUNNING" => plugins[id].n \in started \cup contested
  /\ \A n \in started \ contested : fate[n] = "unloaded" => n \in stopped

\* Every instance is in the table, in the hands of one call, or at its end.
InstancesAccounted ==
  \A n \in Instances :
    /\ fate[n] = "listed" <=> \E id \in Ids : plugins[id].n = n
    /\ fate[n] = "leaving" =>
         \E c \in Clients : place[c].phase \in {"check", "leave"} /\ place[c].entry.n = n

\* Two calls that wait for each other, or one for itself.
Deadlocked ==
  \/ \E c \in Clients : place[c].phase = "allInfo"
  \/ \E c, d \in Clients : place[c].phase = "stats" /\ place[d].phase = "runningCount"

\* A call returns, unless getAllPluginInfo() or getStatistics() has locked up the table.
CallOpen(c)    == place[c] # Idle
CallOver(c)    == place[c] = Idle \/ broken \/ Deadlocked
ManagerReturns == \A c \in Clients : CallOpen(c) ~> CallOver(c)

=============================================================================
