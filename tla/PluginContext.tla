---------------------------- MODULE PluginContext ----------------------------
(***************************************************************************)
(* The PluginContext of one plugin, used by the plugin's own threads while *)
(* the manager may shut it down: what it holds on the event bus, in the    *)
(* DataChannelManager and among its resources.                             *)
(***************************************************************************)
EXTENDS Callers

NoClient == "NONE"
Numbers  == 1 .. MaxCalls

VARIABLES
  onBus,          \* the event bus's subscriptions of this plugin
  subscriptions,  \* subscriptions_
  managed,        \* the manager's channel of each name, numbered; 0 for none
  dataChannels,   \* dataChannels_: raw pointers to them
  closed,         \* the channels that were closed
  resources,      \* resources_
  released,       \* history: how often the deleter of each resource was called
  dataListeners,  \* subscriptions of this plugin on the default channel
  configMutex,    \* the client that has locked configMutex_ twice
  place,          \* where each client is, with the name and the number it works on
  over,           \* how far shutdown() has come: "no", "bus", "channels", "resources", "yes"
  stray,          \* history: what came when shutdown() had passed it by, or was replaced,
                  \* or crossed with another call for the same name
  broken          \* a pointer to a deleted channel was used

held   == <<onBus, subscriptions, managed, dataChannels, closed, resources, released,
            dataListeners>>
own  == <<held, configMutex, place, over, stray, broken>>
vars == <<calls, now, own>>

Idle == <<"idle", NoClient, 0>>

Init ==
  /\ CallersInit
  /\ onBus = {} /\ subscriptions = {}
  /\ managed = [id \in Ids |-> 0] /\ dataChannels = [id \in Ids |-> 0] /\ closed = {}
  /\ resources = [id \in Ids |-> 0] /\ released = [n \in Numbers |-> 0]
  /\ dataListeners = {}
  /\ configMutex = NoClient
  /\ place = [c \in Clients |-> Idle]
  /\ over = "no" /\ stray = {} /\ broken = FALSE

Begins(c)  == ~broken /\ Called /\ place[c] = Idle
Goes(c, p, id, n) == place' = [place EXCEPT ![c] = <<p, id, n>>]
At(c, p)   == ~broken /\ place[c][1] = p /\ UNCHANGED <<calls, now>>
Returns(c) == place' = [place EXCEPT ![c] = Idle]

\* What comes when shutdown() has passed "step" stays.
Late(n, steps) == stray' = IF over \in steps THEN stray \cup {n} ELSE stray

-----------------------------------------------------------------------------
(* Subscriptions: on the bus first, then in the list.                      *)

Subscribe(c) ==
  /\ Begins(c)
  /\ onBus' = onBus \cup {calls'}
  /\ Goes(c, "push", NoClient, calls')
  /\ UNCHANGED <<subscriptions, managed, dataChannels, closed, resources, released,
                 dataListeners, configMutex, over, stray, broken>>

Push(c) ==
  /\ At(c, "push")
  /\ subscriptions' = subscriptions \cup {place[c][3]}
  /\ Late(place[c][3], {"channels", "resources", "yes"})
  /\ Returns(c)
  /\ UNCHANGED <<onBus, managed, dataChannels, closed, resources, released, dataListeners,
                 configMutex, over, broken>>

Unsubscribe(c, n) ==
  /\ Begins(c) /\ n \in onBus \ {place[d][3] : d \in Clients}
  /\ onBus' = onBus \ {n}
  /\ Goes(c, "drop", NoClient, n)
  /\ UNCHANGED <<subscriptions, managed, dataChannels, closed, resources, released,
                 dataListeners, configMutex, over, stray, broken>>

Drop(c) ==
  /\ At(c, "drop")
  /\ subscriptions' = subscriptions \ {place[c][3]}
  /\ Returns(c)
  /\ UNCHANGED <<onBus, managed, dataChannels, closed, resources, released, dataListeners,
                 configMutex, over, stray, broken>>

\* subscribeData(), on the default channel, and unsubscribeData(): the context keeps no
\* record of them.
SubscribeData(c) ==
  /\ Begins(c)
  /\ \/ dataListeners' = dataListeners \cup {calls'}
     \/ \E n \in dataListeners : dataListeners' = dataListeners \ {n}
  /\ UNCHANGED <<onBus, subscriptions, managed, dataChannels, closed, resources, released,
                 configMutex, place, over, stray, broken>>

-----------------------------------------------------------------------------
(* Data channels: in the manager first, then in the table.                 *)

\* The manager deletes its channel of that name, if it has one.
CreateDataChannel(c, id) ==
  /\ Begins(c)
  /\ managed' = [managed EXCEPT ![id] = calls']
  /\ Goes(c, "enter", id, calls')
  /\ UNCHANGED <<onBus, subscriptions, dataChannels, closed, resources, released,
                 dataListeners, configMutex, over, stray, broken>>

Enter(c) ==
  /\ At(c, "enter")
  /\ dataChannels' = [dataChannels EXCEPT ![place[c][2]] = place[c][3]]
  /\ stray' = stray \cup (IF over \in {"resources", "yes"} THEN {place[c][3]}
                         ELSE {managed[place[c][2]]} \ {0, place[c][3]})
  /\ Returns(c)
  /\ UNCHANGED <<onBus, subscriptions, managed, closed, resources, released, dataListeners,
                 configMutex, over, broken>>

\* The manager closes and deletes it.
CloseDataChannel(c, id) ==
  /\ Begins(c)
  /\ managed' = [managed EXCEPT ![id] = 0]
  /\ closed' = closed \cup ({managed[id]} \ {0})
  /\ Goes(c, "erase", id, 0)
  /\ UNCHANGED <<onBus, subscriptions, dataChannels, resources, released, dataListeners,
                 configMutex, over, stray, broken>>

Erase(c) ==
  /\ At(c, "erase")
  /\ dataChannels' = [dataChannels EXCEPT ![place[c][2]] = 0]
  /\ stray' = stray \cup ({managed[place[c][2]]} \ {0})
  /\ Returns(c)
  /\ UNCHANGED <<onBus, subscriptions, managed, closed, resources, released, dataListeners,
                 configMutex, over, broken>>

-----------------------------------------------------------------------------
(* Resources, with resourcesMutex_.                                        *)

\* One that is replaced keeps its deleter uncalled.
RegisterResource(c, id) ==
  /\ Begins(c)
  /\ resources' = [resources EXCEPT ![id] = calls']
  /\ stray' = stray \cup (({resources[id]} \ {0}) \cup (IF over = "yes" THEN {calls'} ELSE {}))
  /\ UNCHANGED <<onBus, subscriptions, managed, dataChannels, closed, released,
                 dataListeners, configMutex, place, over, broken>>

Deleted(ns) == released' = [n \in Numbers |-> released[n] + IF n \in ns THEN 1 ELSE 0]

\* Mutant: the deleter is called and the entry stays.
UnregisterKeeps(c, id) ==
  /\ Begins(c) /\ resources[id] # 0
  /\ Deleted({resources[id]})
  /\ UNCHANGED <<onBus, subscriptions, managed, dataChannels, closed, resources,
                 dataListeners, configMutex, place, over, stray, broken>>

UnregisterResource(c, id) ==
  /\ Begins(c) /\ resources[id] # 0
  /\ Deleted({resources[id]})
  /\ resources' = [resources EXCEPT ![id] = 0]
  /\ UNCHANGED <<onBus, subscriptions, managed, dataChannels, closed, dataListeners,
                 configMutex, place, over, stray, broken>>

-----------------------------------------------------------------------------
(* saveConfig() calls getAllConfig(), which locks configMutex_ again, once *)
(* it could open the file.                                                 *)

SaveConfig(c) ==
  /\ Begins(c) /\ configMutex = NoClient
  /\ \/ configMutex' = c /\ Goes(c, "config", NoClient, 0)
     \/ UNCHANGED <<configMutex, place>>
  /\ UNCHANGED <<held, over, stray, broken>>

SetConfig(c) ==
  /\ Begins(c) /\ configMutex = NoClient
  /\ UNCHANGED <<held, configMutex, place, over, stray, broken>>

-----------------------------------------------------------------------------
(* shutdown(), by the manager or the destructor.                           *)

Shutdown ==
  /\ over = "no" /\ ~broken /\ over' = "bus"
  /\ UNCHANGED <<calls, now, held, configMutex, place, stray, broken>>

\* unsubscribeAll() takes what the list holds; a subscription on its way to it is missed.
UnsubscribeAll ==
  /\ over = "bus" /\ ~broken /\ over' = "channels"
  /\ onBus' = onBus \ subscriptions
  /\ subscriptions' = {}
  /\ UNCHANGED <<calls, now, managed, dataChannels, closed, resources, released,
                 dataListeners, configMutex, place, stray, broken>>

\* close() through the table's pointers: undefined when the manager has deleted one.
CloseChannels ==
  /\ over = "channels" /\ ~broken /\ over' = "resources"
  /\ LET open == {dataChannels[id] : id \in Ids} \ {0}
         kept == {managed[id] : id \in Ids}
     IN  /\ closed' = closed \cup open
         /\ broken' \in (IF open \subseteq kept THEN {FALSE} ELSE BOOLEAN)
  /\ dataChannels' = [id \in Ids |-> 0]
  /\ UNCHANGED <<calls, now, onBus, subscriptions, managed, resources, released,
                 dataListeners, configMutex, place, stray>>

ReleaseResources ==
  /\ over = "resources" /\ ~broken /\ over' = "yes"
  /\ Deleted({resources[id] : id \in Ids} \ {0})
  /\ resources' = [id \in Ids |-> 0]
  /\ UNCHANGED <<calls, now, onBus, subscriptions, managed, dataChannels, closed,
                 dataListeners, configMutex, place, stray, broken>>

Next ==
  \/ \E c \in Clients :
       \/ Subscribe(c) \/ Push(c) \/ Drop(c) \/ (\E n \in Numbers : Unsubscribe(c, n))
       \/ SubscribeData(c) \/ Enter(c) \/ Erase(c) \/ SaveConfig(c) \/ SetConfig(c)
       \/ \E id \in Ids :
            \/ CreateDataChannel(c, id) \/ CloseDataChannel(c, id)
            \/ RegisterResource(c, id) \/ UnregisterResource(c, id)
  \/ Shutdown \/ UnsubscribeAll \/ CloseChannels \/ ReleaseResources

Spec == Init /\ [][Next]_vars

-----------------------------------------------------------------------------
TypeOK ==
  /\ CallersTypeOK
  /\ onBus \subseteq Numbers /\ subscriptions \subseteq Numbers
  /\ managed \in [Ids -> Nat] /\ dataChannels \in [Ids -> Nat] /\ closed \subseteq Numbers
  /\ resources \in [Ids -> Nat] /\ released \in [Numbers -> Nat]
  /\ dataListeners \subseteq Numbers
  /\ configMutex \in Clients \cup {NoClient}
  /\ over \in {"no", "bus", "channels", "resources", "yes"}
  /\ stray \subseteq Numbers /\ broken \in BOOLEAN

\* A shutdown with no call in progress leaves nothing of the plugin behind but what came
\* too late or astray: no subscription on the bus, no open channel, no resource.
ShutdownIsComplete ==
  over = "yes" /\ ~broken /\ (\A c \in Clients : place[c] \in {Idle, <<"config", NoClient, 0>>}) =>
    /\ onBus \subseteq stray
    /\ {managed[id] : id \in Ids} \subseteq stray \cup closed \cup {0}
    /\ {resources[id] : id \in Ids} \subseteq stray \cup {0}

\* A deleter is called once at most, and not as long as the resource is given out.
ReleasedOnce ==
  /\ \A n \in Numbers : released[n] <= 1
  /\ \A id \in Ids : resources[id] # 0 => released[resources[id]] = 0

=============================================================================
