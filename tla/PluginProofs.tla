---------------------------- MODULE PluginProofs ----------------------------
(***************************************************************************)
(* Proofs about the other plugin components, each with its inductive       *)
(* invariant, and the theorems about the plugin system: the context, the   *)
(* manager, the lifecycle, and the dependency resolver, whose search is shown*)
(* to come to an end and to list every plugin after what it depends on.    *)
(***************************************************************************)
EXTENDS PluginPoolProofs

-----------------------------------------------------------------------------
(* The context of a plugin.                                                *)

\* The clients in a call that has done the first of its two steps.
Pushing == {c \in Clients : users[c][1] = "push"}
Entering(id) == {c \in Clients : users[c][1] = "enter" /\ users[c][2] = id}

ContextPlace == {"idle", "push", "drop", "enter", "erase", "config"}

ContextTypes ==
  /\ calls \in 0 .. FewCalls /\ now \in 1 .. MaxTime
  /\ onBus \subseteq 1 .. calls /\ held \subseteq 1 .. calls
  /\ managed \in [FewIds -> 0 .. calls] /\ dataChannels \in [FewIds -> 0 .. calls]
  /\ shut \subseteq 1 .. calls
  /\ resources \in [FewIds -> 0 .. calls] /\ released \in [1 .. FewCalls -> Nat]
  /\ dataListeners \subseteq 1 .. calls
  /\ configMutex \in Clients \cup {"NONE"}
  /\ over \in {"no", "bus", "channels", "resources", "yes"}
  /\ stray \subseteq 1 .. calls /\ misused \in BOOLEAN
  /\ users \in [Clients -> ContextPlace \X (FewIds \cup {"NONE"}) \X (0 .. calls)]
  /\ \A c \in Clients : /\ users[c][1] \in {"push", "drop", "enter"} => users[c][3] # 0
                        /\ users[c][1] \in {"enter", "erase"} => users[c][2] \in FewIds

\* Where a subscription of the plugin is known, and where it no longer is.
ContextBus ==
  /\ \A n \in onBus : \/ n \in held \cup stray
                      \/ \E c \in Pushing : users[c][3] = n
  /\ over \in {"channels", "resources", "yes"} => held \subseteq stray
  /\ \A c \in Clients : users[c][1] = "drop" => users[c][3] \notin onBus

\* Where an open channel of the plugin is known.
ContextChannels ==
  /\ \A id \in FewIds : \/ managed[id] \in stray \cup shut \cup {0, dataChannels[id]}
                        \/ \E c \in Entering(id) : users[c][3] = managed[id]
  /\ over \in {"resources", "yes"} => \A id \in FewIds : dataChannels[id] \in stray \cup {0}

\* A resource has one name, and was not released.
ContextResources ==
  /\ \A n \in 1 .. FewCalls : released[n] <= 1 /\ (n > calls => released[n] = 0)
  /\ \A id \in FewIds : resources[id] # 0 => released[resources[id]] = 0
  /\ \A id, j \in FewIds : resources[id] # 0 /\ resources[id] = resources[j] => id = j
  /\ over = "yes" => \A id \in FewIds : resources[id] \in stray \cup {0}

ContextInv == ContextTypes /\ ContextBus /\ ContextChannels /\ ContextResources

\* The invariant holds of a new context.
LEMMA ContextInit == Context!Init => ContextInv
  <1> SUFFICES ASSUME Context!Init PROVE ContextInv
    OBVIOUS
  <1> USE CallersAssumption, PluginsAssumption
  <1>1. calls = 0 /\ now = 1 BY DEF Context!Init, Context!CallersInit
  <1>2. \A c \in Clients : users[c] = <<"idle", "NONE", 0>>
    BY DEF Context!Init, Context!Idle, Context!NoClient
  <1>6. users \in [Clients -> ContextPlace \X (FewIds \cup {"NONE"}) \X (0 .. calls)]
    <2>1. <<"idle", "NONE", 0>> \in ContextPlace \X (FewIds \cup {"NONE"}) \X (0 .. calls)
      BY <1>1 DEF ContextPlace
    <2>2. users = [c \in Clients |-> <<"idle", "NONE", 0>>]
      BY DEF Context!Init, Context!Idle, Context!NoClient
    <2> QED BY <2>1, <2>2
  <1>7. 0 \in 0 .. calls /\ 0 \in 0 .. FewCalls /\ now \in 1 .. MaxTime BY <1>1
  <1>8. ContextTypes
    <2>1. /\ managed \in [FewIds -> 0 .. calls] /\ dataChannels \in [FewIds -> 0 .. calls]
          /\ resources \in [FewIds -> 0 .. calls] /\ released \in [1 .. FewCalls -> Nat]
      BY <1>7 DEF Context!Init, Context!Numbers
    <2>2. \A c \in Clients : users[c][1] = "idle" BY <1>2
    <2>3. /\ onBus = {} /\ held = {} /\ shut = {} /\ dataListeners = {} /\ stray = {}
          /\ configMutex = "NONE" /\ over = "no" /\ misused = FALSE
      BY DEF Context!Init, Context!NoClient
    <2> QED BY <1>1, <1>6, <1>7, <2>1, <2>2, <2>3 DEF ContextTypes
  <1>3. ContextBus BY <1>2 DEF Context!Init, ContextBus
  <1>4. ContextChannels BY DEF Context!Init, ContextChannels
  <1>5. ContextResources BY DEF Context!Init, ContextResources, Context!Numbers
  <1> QED BY <1>3, <1>4, <1>5, <1>8 DEF ContextInv

\* How a call begins.
LEMMA ContextBegins ==
  ASSUME ContextTypes, NEW c \in Clients, Context!Begins(c)
  PROVE  /\ calls' = calls + 1 /\ now' = now /\ calls \in Nat
         /\ calls' \in 1 .. FewCalls /\ calls' \notin 1 .. calls
         /\ 1 .. calls \subseteq 1 .. calls' /\ 0 .. calls \subseteq 0 .. calls'
         /\ calls' \in 1 .. calls' /\ 0 \in 0 .. calls' /\ calls' \in 0 .. calls'
         /\ users[c] = <<"idle", "NONE", 0>> /\ ~misused
  BY PluginsAssumption DEF Context!Begins, Context!Called, Context!Idle, Context!NoClient,
                           ContextTypes

\* A client moves: where it was and where it is.
LEMMA ContextMoves ==
  ASSUME ContextTypes, NEW c \in Clients, NEW p \in ContextPlace,
         NEW id \in FewIds \cup {"NONE"}, NEW n, users' = [users EXCEPT ![c] = <<p, id, n>>],
         n \in 0 .. calls', 0 .. calls \subseteq 0 .. calls',
         p \in {"push", "drop", "enter"} => n # 0, p \in {"enter", "erase"} => id \in FewIds
  PROVE  /\ users' \in [Clients -> ContextPlace \X (FewIds \cup {"NONE"}) \X (0 .. calls')]
         /\ \A d \in Clients : /\ users'[d][1] \in {"push", "drop", "enter"} => users'[d][3] # 0
                               /\ users'[d][1] \in {"enter", "erase"} => users'[d][2] \in FewIds
         /\ \A d \in Clients : d # c => users'[d] = users[d]
         /\ users'[c] = <<p, id, n>>
  <1>1. users'[c] = <<p, id, n>> /\ \A d \in Clients : d # c => users'[d] = users[d]
    BY DEF ContextTypes
  <1>2. \A d \in Clients : users[d] \in ContextPlace \X (FewIds \cup {"NONE"}) \X (0 .. calls)
    BY DEF ContextTypes
  <1>3. \A d \in Clients : users'[d] \in ContextPlace \X (FewIds \cup {"NONE"}) \X (0 .. calls')
    BY <1>1, <1>2
  <1>4. users' = [d \in Clients |-> users'[d]] BY DEF ContextTypes
  <1>5. users' \in [Clients -> ContextPlace \X (FewIds \cup {"NONE"}) \X (0 .. calls')]
    BY <1>3, <1>4
  <1>6. \A d \in Clients : /\ users'[d][1] \in {"push", "drop", "enter"} => users'[d][3] # 0
                           /\ users'[d][1] \in {"enter", "erase"} => users'[d][2] \in FewIds
    BY <1>1 DEF ContextTypes
  <1> QED BY <1>1, <1>5, <1>6

\* What keeps each part: the steps that are about others.
LEMMA ContextBusKept ==
  ASSUME ContextBus, UNCHANGED <<onBus, held>>, stray \subseteq stray',
         over' \in {"channels", "resources", "yes"} => over \in {"channels", "resources", "yes"},
         \A d \in Clients : \/ users'[d] = users[d]
                            \/ users[d][1] # "push" /\ users'[d][1] # "drop"
  PROVE  ContextBus'
  <1>1. \A n \in onBus : \/ n \in held \cup stray'
                         \/ \E c \in Clients : users'[c][1] = "push" /\ users'[c][3] = n
    <2> TAKE n \in onBus
    <2>1. CASE n \in held \cup stray BY <2>1
    <2>2. ASSUME NEW c \in Pushing, users[c][3] = n
          PROVE  \E d \in Clients : users'[d][1] = "push" /\ users'[d][3] = n
      <3>1. c \in Clients /\ users[c][1] = "push" BY DEF Pushing
      <3>2. users'[c] = users[c] BY <3>1
      <3> QED BY <2>2, <3>1, <3>2
    <2> QED BY <2>1, <2>2 DEF ContextBus
  <1>2. over' \in {"channels", "resources", "yes"} => held \subseteq stray'
    BY DEF ContextBus
  <1>3. \A c \in Clients : users'[c][1] = "drop" => users'[c][3] \notin onBus
    BY DEF ContextBus
  <1> QED BY <1>1, <1>2, <1>3 DEF ContextBus, Pushing

\* The same for the channels, ...
LEMMA ContextChannelsKept ==
  ASSUME ContextChannels, UNCHANGED <<managed, dataChannels, shut>>, stray \subseteq stray',
         over' \in {"resources", "yes"} => over \in {"resources", "yes"},
         \A d \in Clients : users'[d] = users[d] \/ users[d][1] # "enter"
  PROVE  ContextChannels'
  <1>1. ASSUME NEW id \in FewIds
        PROVE  \/ managed[id] \in stray' \cup shut \cup {0, dataChannels[id]}
               \/ \E c \in Entering(id)' : users'[c][3] = managed[id]
    <2>1. CASE managed[id] \in stray \cup shut \cup {0, dataChannels[id]} BY <2>1
    <2>2. ASSUME NEW c \in Entering(id), users[c][3] = managed[id]
          PROVE  \E d \in Entering(id)' : users'[d][3] = managed[id]
      <3>1. c \in Clients /\ users[c][1] = "enter" /\ users[c][2] = id BY DEF Entering
      <3>2. users'[c] = users[c] BY <3>1
      <3>3. c \in Entering(id)' BY <3>1, <3>2 DEF Entering
      <3> QED BY <2>2, <3>2, <3>3
    <2> QED BY <2>1, <2>2 DEF ContextChannels
  <1> QED BY <1>1 DEF ContextChannels

\* ... and for the resources.
LEMMA ContextResourcesKept ==
  ASSUME ContextTypes, ContextResources, UNCHANGED <<resources, released>>,
         stray \subseteq stray', calls' \in {calls, calls + 1}, over' = "yes" => over = "yes"
  PROVE  ContextResources'
  <1>1. \A n \in 1 .. FewCalls : n > calls' => n > calls
    BY PluginsAssumption DEF ContextTypes
  <1> QED BY <1>1 DEF ContextResources

\* What keeps the types: no number is above calls.
LEMMA ContextTypesKept ==
  ASSUME ContextTypes, calls' \in 0 .. FewCalls, now' \in 1 .. MaxTime,
         1 .. calls \subseteq 1 .. calls', 0 .. calls \subseteq 0 .. calls',
         onBus' \subseteq 1 .. calls', held' \subseteq 1 .. calls',
         managed' \in [FewIds -> 0 .. calls'], dataChannels' \in [FewIds -> 0 .. calls'],
         shut' \subseteq 1 .. calls',
         resources' \in [FewIds -> 0 .. calls'], released' \in [1 .. FewCalls -> Nat],
         dataListeners' \subseteq 1 .. calls', configMutex' \in Clients \cup {"NONE"},
         over' \in {"no", "bus", "channels", "resources", "yes"},
         stray' \subseteq 1 .. calls', misused' \in BOOLEAN,
         users' \in [Clients -> ContextPlace \X (FewIds \cup {"NONE"}) \X (0 .. calls')],
         \A d \in Clients : /\ users'[d][1] \in {"push", "drop", "enter"} => users'[d][3] # 0
                            /\ users'[d][1] \in {"enter", "erase"} => users'[d][2] \in FewIds
  PROVE  ContextTypes'
  BY DEF ContextTypes

\* The tables keep their types when calls are counted.
LEMMA ContextTables ==
  ASSUME ContextTypes, 0 .. calls \subseteq 0 .. calls'
  PROVE  /\ managed \in [FewIds -> 0 .. calls'] /\ dataChannels \in [FewIds -> 0 .. calls']
         /\ resources \in [FewIds -> 0 .. calls']
         /\ users \in [Clients -> ContextPlace \X (FewIds \cup {"NONE"}) \X (0 .. calls')]
  <1>1. ContextPlace \X (FewIds \cup {"NONE"}) \X (0 .. calls)
          \subseteq ContextPlace \X (FewIds \cup {"NONE"}) \X (0 .. calls')
    OBVIOUS
  <1> QED BY <1>1 DEF ContextTypes

\* subscribe() subscribes at the bus before the context knows of it, ...
LEMMA ContextSubscribe ==
  ASSUME ContextInv, NEW c \in Clients, Context!Subscribe(c)
  PROVE  ContextInv'
  <1>0. ContextTypes /\ ContextBus /\ ContextChannels /\ ContextResources BY DEF ContextInv
  <1>1. /\ Context!Begins(c) /\ onBus' = onBus \cup {calls'}
        /\ users' = [users EXCEPT ![c] = <<"push", "NONE", calls'>>]
        /\ UNCHANGED <<held, managed, dataChannels, shut, resources, released, dataListeners,
                       configMutex, over, stray, misused>>
    BY DEF Context!Subscribe, Context!Goes, Context!NoClient
  <1>2. /\ calls' = calls + 1 /\ now' = now /\ calls \in Nat
        /\ calls' \in 1 .. FewCalls /\ calls' \notin 1 .. calls
        /\ 1 .. calls \subseteq 1 .. calls' /\ 0 .. calls \subseteq 0 .. calls'
        /\ calls' \in 1 .. calls' /\ calls' \in 0 .. calls'
        /\ users[c] = <<"idle", "NONE", 0>>
    BY <1>0, <1>1, ContextBegins
  <1>3. /\ users' \in [Clients -> ContextPlace \X (FewIds \cup {"NONE"}) \X (0 .. calls')]
        /\ \A d \in Clients : /\ users'[d][1] \in {"push", "drop", "enter"} => users'[d][3] # 0
                              /\ users'[d][1] \in {"enter", "erase"} => users'[d][2] \in FewIds
        /\ \A d \in Clients : d # c => users'[d] = users[d]
        /\ users'[c] = <<"push", "NONE", calls'>>
    <2>1. "push" \in ContextPlace BY DEF ContextPlace
    <2>2. calls' # 0 BY <1>2
    <2> QED BY <1>0, <1>1, <1>2, <2>1, <2>2, ContextMoves
  <1>4. ContextTypes'
    <2>1. calls' \in 0 .. FewCalls /\ now' \in 1 .. MaxTime BY <1>0, <1>2 DEF ContextTypes
    <2>2. onBus' \subseteq 1 .. calls' BY <1>0, <1>1, <1>2 DEF ContextTypes
    <2> QED BY <1>0, <1>1, <1>2, <1>3, <2>1, <2>2, ContextTables DEF ContextTypes
  <1>5. ContextBus'
    <2>1. ASSUME NEW n \in onBus'
          PROVE  \/ n \in held \cup stray
                 \/ \E d \in Pushing' : users'[d][3] = n
      <3>1. CASE n = calls' BY <1>3, <3>1 DEF Pushing
      <3>2. CASE n \in onBus
        <4>1. \A d \in Pushing : d # c BY <1>2 DEF Pushing
        <4>2. \A d \in Pushing : d \in Pushing' /\ users'[d] = users[d]
          BY <1>3, <4>1 DEF Pushing
        <4> QED BY <1>0, <3>2, <4>2 DEF ContextBus
      <3> QED BY <1>1, <3>1, <3>2
    <2>2. \A d \in Clients : users'[d][1] = "drop" => users'[d][3] \notin onBus'
      <3> SUFFICES ASSUME NEW d \in Clients, users'[d][1] = "drop"
                   PROVE  users'[d][3] \notin onBus'
        OBVIOUS
      <3>1. d # c /\ users'[d] = users[d] BY <1>3
      <3>2. users[d][3] \in 1 .. calls
        <4>1. users[d] \in ContextPlace \X (FewIds \cup {"NONE"}) \X (0 .. calls)
          BY <1>0 DEF ContextTypes
        <4>2. users[d][3] # 0 BY <1>0, <3>1 DEF ContextTypes
        <4> QED BY <1>2, <4>1, <4>2
      <3> QED BY <1>0, <1>1, <1>2, <3>1, <3>2 DEF ContextBus
    <2> QED BY <1>0, <1>1, <2>1, <2>2 DEF ContextBus
  <1>6. ContextChannels'
    <2>1. \A d \in Clients : users'[d] = users[d] \/ users[d][1] # "enter" BY <1>2, <1>3
    <2> QED BY <1>0, <1>1, <2>1, ContextChannelsKept
  <1>7. ContextResources' BY <1>0, <1>1, <1>2, ContextResourcesKept
  <1> QED BY <1>4, <1>5, <1>6, <1>7 DEF ContextInv

\* ... and adds the identifier to the list in a step of its own.
LEMMA ContextPush ==
  ASSUME ContextInv, NEW c \in Clients, Context!Push(c)
  PROVE  ContextInv'
  <1>0. ContextTypes /\ ContextBus /\ ContextChannels /\ ContextResources BY DEF ContextInv
  <1>1. /\ calls' = calls /\ now' = now /\ users[c][1] = "push"
        /\ held' = held \cup {users[c][3]}
        /\ stray' = IF over \in {"channels", "resources", "yes"} THEN stray \cup {users[c][3]}
                    ELSE stray
        /\ users' = [users EXCEPT ![c] = <<"idle", "NONE", 0>>]
        /\ UNCHANGED <<onBus, managed, dataChannels, shut, resources, released, dataListeners,
                       configMutex, over, misused>>
    BY DEF Context!Push, Context!At, Context!Late, Context!Returns, Context!Idle,
           Context!NoClient
  <1>2. /\ calls' = calls /\ now' = now /\ calls \in Nat
        /\ users[c] \in ContextPlace \X (FewIds \cup {"NONE"}) \X (0 .. calls)
    BY <1>0, <1>1 DEF ContextTypes
  <1>3. /\ users' \in [Clients -> ContextPlace \X (FewIds \cup {"NONE"}) \X (0 .. calls')]
        /\ \A d \in Clients : /\ users'[d][1] \in {"push", "drop", "enter"} => users'[d][3] # 0
                              /\ users'[d][1] \in {"enter", "erase"} => users'[d][2] \in FewIds
        /\ \A d \in Clients : d # c => users'[d] = users[d]
        /\ users'[c] = <<"idle", "NONE", 0>>
    <2>1. "idle" \in ContextPlace BY DEF ContextPlace
    <2>2. 0 \in 0 .. calls' /\ 0 .. calls \subseteq 0 .. calls' BY <1>2
    <2> QED BY <1>0, <1>1, <2>1, <2>2, ContextMoves
  <1>8. users[c][3] \in 1 .. calls BY <1>0, <1>1, <1>2 DEF ContextTypes
  <1>4. ContextTypes'
    <2>1. /\ calls' \in 0 .. FewCalls /\ now' \in 1 .. MaxTime
          /\ 1 .. calls \subseteq 1 .. calls' /\ 0 .. calls \subseteq 0 .. calls'
      BY <1>0, <1>2 DEF ContextTypes
    <2>2. /\ onBus' \subseteq 1 .. calls' /\ held' \subseteq 1 .. calls'
          /\ shut' \subseteq 1 .. calls' /\ stray' \subseteq 1 .. calls'
          /\ dataListeners' \subseteq 1 .. calls'
      BY <1>0, <1>1, <1>2, <1>8, <2>1 DEF ContextTypes
    <2>3. /\ managed' \in [FewIds -> 0 .. calls'] /\ dataChannels' \in [FewIds -> 0 .. calls']
          /\ resources' \in [FewIds -> 0 .. calls'] /\ released' \in [1 .. FewCalls -> Nat]
      BY <1>0, <1>1, <1>2, <2>1, ContextTables DEF ContextTypes
    <2>4. /\ configMutex' \in Clients \cup {"NONE"} /\ misused' \in BOOLEAN
          /\ over' \in {"no", "bus", "channels", "resources", "yes"}
      BY <1>0, <1>1 DEF ContextTypes
    <2> QED BY <1>0, <1>3, <2>1, <2>2, <2>3, <2>4, ContextTypesKept
  <1>5. ContextBus'
    <2>1. ASSUME NEW n \in onBus'
          PROVE  \/ n \in held' \cup stray'
                 \/ \E d \in Pushing' : users'[d][3] = n
      <3>1. CASE n \in held \cup stray BY <1>1, <3>1
      <3>2. ASSUME NEW d \in Pushing, users[d][3] = n, d # c
            PROVE  \E e \in Pushing' : users'[e][3] = n
        BY <1>3, <3>2 DEF Pushing
      <3> QED BY <1>0, <1>1, <3>1, <3>2 DEF ContextBus
    <2>2. over' \in {"channels", "resources", "yes"} => held' \subseteq stray'
      BY <1>0, <1>1 DEF ContextBus
    <2>3. \A d \in Clients : users'[d][1] = "drop" => users'[d][3] \notin onBus'
      BY <1>0, <1>1, <1>3 DEF ContextBus
    <2> QED BY <2>1, <2>2, <2>3 DEF ContextBus
  <1>6. ContextChannels'
    <2>1. \A d \in Clients : users'[d] = users[d] \/ users[d][1] # "enter" BY <1>1, <1>2, <1>3
    <2>2. stray \subseteq stray' BY <1>1
    <2> QED BY <1>0, <1>1, <2>1, <2>2, ContextChannelsKept
  <1>7. ContextResources'
    <2>1. stray \subseteq stray' BY <1>1
    <2> QED BY <1>0, <1>1, <1>2, <2>1, ContextResourcesKept
  <1> QED BY <1>4, <1>5, <1>6, <1>7 DEF ContextInv

\* unsubscribe() does both in the same order.
LEMMA ContextUnsubscribe ==
  ASSUME ContextInv, NEW c \in Clients, NEW n \in 1 .. FewCalls, Context!Unsubscribe(c, n)
  PROVE  ContextInv'
  <1>0. ContextTypes /\ ContextBus /\ ContextChannels /\ ContextResources BY DEF ContextInv
  <1>1. /\ Context!Begins(c) /\ n \in onBus /\ \A d \in Clients : users[d][3] # n
        /\ onBus' = onBus \ {n}
        /\ users' = [users EXCEPT ![c] = <<"drop", "NONE", n>>]
        /\ UNCHANGED <<held, managed, dataChannels, shut, resources, released, dataListeners,
                       configMutex, over, stray, misused>>
    BY DEF Context!Unsubscribe, Context!Goes, Context!NoClient
  <1>2. /\ calls' = calls + 1 /\ now' = now /\ calls \in Nat
        /\ calls' \in 1 .. FewCalls /\ calls' \notin 1 .. calls
        /\ 1 .. calls \subseteq 1 .. calls' /\ 0 .. calls \subseteq 0 .. calls'
        /\ calls' \in 1 .. calls' /\ 0 \in 0 .. calls' /\ calls' \in 0 .. calls'
        /\ users[c] = <<"idle", "NONE", 0>>
    BY <1>0, <1>1, ContextBegins
  <1>3. /\ users' \in [Clients -> ContextPlace \X (FewIds \cup {"NONE"}) \X (0 .. calls')]
        /\ \A d \in Clients : /\ users'[d][1] \in {"push", "drop", "enter"} => users'[d][3] # 0
                              /\ users'[d][1] \in {"enter", "erase"} => users'[d][2] \in FewIds
        /\ \A d \in Clients : d # c => users'[d] = users[d]
        /\ users'[c] = <<"drop", "NONE", n>>
    <2>1. "drop" \in ContextPlace BY DEF ContextPlace
    <2>2. n \in 0 .. calls' /\ 0 .. calls \subseteq 0 .. calls' /\ n # 0
      BY <1>0, <1>1, <1>2 DEF ContextTypes
    <2> QED BY <1>0, <1>1, <2>1, <2>2, ContextMoves
  <1>4. ContextTypes'
    <2>1. /\ calls' \in 0 .. FewCalls /\ now' \in 1 .. MaxTime
          /\ 1 .. calls \subseteq 1 .. calls' /\ 0 .. calls \subseteq 0 .. calls'
      BY <1>0, <1>2 DEF ContextTypes
    <2>2. /\ onBus' \subseteq 1 .. calls' /\ held' \subseteq 1 .. calls'
          /\ shut' \subseteq 1 .. calls' /\ stray' \subseteq 1 .. calls'
          /\ dataListeners' \subseteq 1 .. calls'
      BY <1>0, <1>1, <1>2, <2>1 DEF ContextTypes
    <2>3. /\ managed' \in [FewIds -> 0 .. calls'] /\ dataChannels' \in [FewIds -> 0 .. calls']
          /\ resources' \in [FewIds -> 0 .. calls'] /\ released' \in [1 .. FewCalls -> Nat]
      BY <1>0, <1>1, <1>2, <2>1, ContextTables DEF ContextTypes
    <2>4. /\ configMutex' \in Clients \cup {"NONE"} /\ misused' \in BOOLEAN
          /\ over' \in {"no", "bus", "channels", "resources", "yes"}
      BY <1>0, <1>1 DEF ContextTypes
    <2> QED BY <1>0, <1>3, <2>1, <2>2, <2>3, <2>4, ContextTypesKept
  <1>5. ContextBus'
    <2>1. ASSUME NEW m \in onBus'
          PROVE  \/ m \in held' \cup stray'
                 \/ \E d \in Pushing' : users'[d][3] = m
      <3>1. CASE m \in held \cup stray BY <1>1, <3>1
      <3>2. ASSUME NEW d \in Pushing, users[d][3] = m
            PROVE  \E e \in Pushing' : users'[e][3] = m
        <4>1. d # c BY <1>2, <3>2 DEF Pushing
        <4> QED BY <1>3, <3>2, <4>1 DEF Pushing
      <3> QED BY <1>0, <1>1, <3>1, <3>2 DEF ContextBus
    <2>2. over' \in {"channels", "resources", "yes"} => held' \subseteq stray'
      BY <1>0, <1>1 DEF ContextBus
    <2>3. \A d \in Clients : users'[d][1] = "drop" => users'[d][3] \notin onBus'
      <3> TAKE d \in Clients
      <3>1. CASE d = c BY <1>1, <1>3, <3>1
      <3>2. CASE d # c BY <1>0, <1>1, <1>3, <3>2 DEF ContextBus
      <3> QED BY <3>1, <3>2
    <2> QED BY <2>1, <2>2, <2>3 DEF ContextBus
  <1>6. ContextChannels'
    <2>1. \A d \in Clients : users'[d] = users[d] \/ users[d][1] # "enter" BY <1>1, <1>2, <1>3
    <2>2. stray \subseteq stray' BY <1>1
    <2> QED BY <1>0, <1>1, <2>1, <2>2, ContextChannelsKept
  <1>7. ContextResources'
    <2>1. stray \subseteq stray' BY <1>1
    <2> QED BY <1>0, <1>1, <1>2, <2>1, ContextResourcesKept
  <1> QED BY <1>4, <1>5, <1>6, <1>7 DEF ContextInv

\* The identifier leaves the list after the subscription has left the bus.
LEMMA ContextDrop ==
  ASSUME ContextInv, NEW c \in Clients, Context!Drop(c)
  PROVE  ContextInv'
  <1>0. ContextTypes /\ ContextBus /\ ContextChannels /\ ContextResources BY DEF ContextInv
  <1>1. /\ calls' = calls /\ now' = now /\ users[c][1] = "drop"
        /\ held' = held \ {users[c][3]}
        /\ users' = [users EXCEPT ![c] = <<"idle", "NONE", 0>>]
        /\ UNCHANGED <<onBus, managed, dataChannels, shut, resources, released, dataListeners,
                       configMutex, over, stray, misused>>
    BY DEF Context!Drop, Context!At, Context!Returns, Context!Idle, Context!NoClient
  <1>2. /\ calls' = calls /\ now' = now /\ calls \in Nat
        /\ users[c] \in ContextPlace \X (FewIds \cup {"NONE"}) \X (0 .. calls)
    BY <1>0, <1>1 DEF ContextTypes
  <1>3. /\ users' \in [Clients -> ContextPlace \X (FewIds \cup {"NONE"}) \X (0 .. calls')]
        /\ \A d \in Clients : /\ users'[d][1] \in {"push", "drop", "enter"} => users'[d][3] # 0
                              /\ users'[d][1] \in {"enter", "erase"} => users'[d][2] \in FewIds
        /\ \A d \in Clients : d # c => users'[d] = users[d]
        /\ users'[c] = <<"idle", "NONE", 0>>
    <2>1. "idle" \in ContextPlace BY DEF ContextPlace
    <2>2. 0 \in 0 .. calls' /\ 0 .. calls \subseteq 0 .. calls' BY <1>2
    <2> QED BY <1>0, <1>1, <2>1, <2>2, ContextMoves
  <1>4. ContextTypes'
    <2>1. /\ calls' \in 0 .. FewCalls /\ now' \in 1 .. MaxTime
          /\ 1 .. calls \subseteq 1 .. calls' /\ 0 .. calls \subseteq 0 .. calls'
      BY <1>0, <1>2 DEF ContextTypes
    <2>2. /\ onBus' \subseteq 1 .. calls' /\ held' \subseteq 1 .. calls'
          /\ shut' \subseteq 1 .. calls' /\ stray' \subseteq 1 .. calls'
          /\ dataListeners' \subseteq 1 .. calls'
      BY <1>0, <1>1, <1>2, <2>1 DEF ContextTypes
    <2>3. /\ managed' \in [FewIds -> 0 .. calls'] /\ dataChannels' \in [FewIds -> 0 .. calls']
          /\ resources' \in [FewIds -> 0 .. calls'] /\ released' \in [1 .. FewCalls -> Nat]
      BY <1>0, <1>1, <1>2, <2>1, ContextTables DEF ContextTypes
    <2>4. /\ configMutex' \in Clients \cup {"NONE"} /\ misused' \in BOOLEAN
          /\ over' \in {"no", "bus", "channels", "resources", "yes"}
      BY <1>0, <1>1 DEF ContextTypes
    <2> QED BY <1>0, <1>3, <2>1, <2>2, <2>3, <2>4, ContextTypesKept
  <1>5. ContextBus'
    <2>1. ASSUME NEW n \in onBus'
          PROVE  \/ n \in held' \cup stray'
                 \/ \E d \in Pushing' : users'[d][3] = n
      <3>0. n # users[c][3] BY <1>0, <1>1 DEF ContextBus
      <3>1. CASE n \in held \cup stray BY <1>1, <3>0, <3>1
      <3>2. ASSUME NEW d \in Pushing, users[d][3] = n
            PROVE  \E e \in Pushing' : users'[e][3] = n
        <4>1. d # c BY <1>1, <3>2 DEF Pushing
        <4> QED BY <1>3, <3>2, <4>1 DEF Pushing
      <3> QED BY <1>0, <1>1, <3>1, <3>2 DEF ContextBus
    <2>2. over' \in {"channels", "resources", "yes"} => held' \subseteq stray'
      BY <1>0, <1>1 DEF ContextBus
    <2>3. \A d \in Clients : users'[d][1] = "drop" => users'[d][3] \notin onBus'
      BY <1>0, <1>1, <1>3 DEF ContextBus
    <2> QED BY <2>1, <2>2, <2>3 DEF ContextBus
  <1>6. ContextChannels'
    <2>1. \A d \in Clients : users'[d] = users[d] \/ users[d][1] # "enter" BY <1>1, <1>2, <1>3
    <2>2. stray \subseteq stray' BY <1>1
    <2> QED BY <1>0, <1>1, <2>1, <2>2, ContextChannelsKept
  <1>7. ContextResources'
    <2>1. stray \subseteq stray' BY <1>1
    <2> QED BY <1>0, <1>1, <1>2, <2>1, ContextResourcesKept
  <1> QED BY <1>4, <1>5, <1>6, <1>7 DEF ContextInv

\* A data channel is made before the context knows of it, ...
LEMMA ContextCreateDataChannel ==
  ASSUME ContextInv, NEW c \in Clients, NEW id \in FewIds, Context!CreateDataChannel(c, id)
  PROVE  ContextInv'
  <1>0. ContextTypes /\ ContextBus /\ ContextChannels /\ ContextResources BY DEF ContextInv
  <1>1. /\ Context!Begins(c)
        /\ managed' = [managed EXCEPT ![id] = calls']
        /\ users' = [users EXCEPT ![c] = <<"enter", id, calls'>>]
        /\ UNCHANGED <<onBus, held, dataChannels, shut, resources, released, dataListeners,
                       configMutex, over, stray, misused>>
    BY DEF Context!CreateDataChannel, Context!Goes
  <1>2. /\ calls' = calls + 1 /\ now' = now /\ calls \in Nat
        /\ calls' \in 1 .. FewCalls /\ calls' \notin 1 .. calls
        /\ 1 .. calls \subseteq 1 .. calls' /\ 0 .. calls \subseteq 0 .. calls'
        /\ calls' \in 1 .. calls' /\ 0 \in 0 .. calls' /\ calls' \in 0 .. calls'
        /\ users[c] = <<"idle", "NONE", 0>>
    BY <1>0, <1>1, ContextBegins
  <1>3. /\ users' \in [Clients -> ContextPlace \X (FewIds \cup {"NONE"}) \X (0 .. calls')]
        /\ \A d \in Clients : /\ users'[d][1] \in {"push", "drop", "enter"} => users'[d][3] # 0
                              /\ users'[d][1] \in {"enter", "erase"} => users'[d][2] \in FewIds
        /\ \A d \in Clients : d # c => users'[d] = users[d]
        /\ users'[c] = <<"enter", id, calls'>>
    <2>1. "enter" \in ContextPlace BY DEF ContextPlace
    <2>2. calls' \in 0 .. calls' /\ 0 .. calls \subseteq 0 .. calls' /\ calls' # 0
      BY <1>0, <1>1, <1>2 DEF ContextTypes
    <2> QED BY <1>0, <1>1, <2>1, <2>2, ContextMoves
  <1>4. ContextTypes'
    <2>1. /\ calls' \in 0 .. FewCalls /\ now' \in 1 .. MaxTime
          /\ 1 .. calls \subseteq 1 .. calls' /\ 0 .. calls \subseteq 0 .. calls'
      BY <1>0, <1>2 DEF ContextTypes
    <2>2. /\ onBus' \subseteq 1 .. calls' /\ held' \subseteq 1 .. calls'
          /\ shut' \subseteq 1 .. calls' /\ stray' \subseteq 1 .. calls'
          /\ dataListeners' \subseteq 1 .. calls'
      BY <1>0, <1>1, <1>2, <2>1 DEF ContextTypes
    <2>3. /\ managed' \in [FewIds -> 0 .. calls'] /\ dataChannels' \in [FewIds -> 0 .. calls']
          /\ resources' \in [FewIds -> 0 .. calls'] /\ released' \in [1 .. FewCalls -> Nat]
      BY <1>0, <1>1, <1>2, <2>1, ContextTables DEF ContextTypes
    <2>4. /\ configMutex' \in Clients \cup {"NONE"} /\ misused' \in BOOLEAN
          /\ over' \in {"no", "bus", "channels", "resources", "yes"}
      BY <1>0, <1>1 DEF ContextTypes
    <2> QED BY <1>0, <1>3, <2>1, <2>2, <2>3, <2>4, ContextTypesKept
  <1>5. ContextBus'
    <2>1. \A d \in Clients : \/ users'[d] = users[d]
                             \/ users[d][1] # "push" /\ users'[d][1] # "drop"
      BY <1>1, <1>2, <1>3
    <2>2. stray \subseteq stray' BY <1>1
    <2> QED BY <1>0, <1>1, <2>1, <2>2, ContextBusKept
  <1>6. ContextChannels'
    <2>1. ASSUME NEW j \in FewIds
          PROVE  \/ managed'[j] \in stray' \cup shut' \cup {0, dataChannels'[j]}
                 \/ \E d \in Entering(j)' : users'[d][3] = managed'[j]
      <3>1. CASE j = id
        <4>1. managed'[j] = calls' BY <1>0, <1>1, <3>1 DEF ContextTypes
        <4> QED BY <1>3, <3>1, <4>1 DEF Entering
      <3>2. CASE j # id
        <4>1. managed'[j] = managed[j] BY <1>0, <1>1, <3>2 DEF ContextTypes
        <4>2. \A d \in Entering(j) : d # c BY <1>2 DEF Entering
        <4>3. \A d \in Entering(j) : d \in Entering(j)' /\ users'[d] = users[d]
          BY <1>3, <4>2 DEF Entering
        <4> QED BY <1>0, <1>1, <4>1, <4>3 DEF ContextChannels
      <3> QED BY <3>1, <3>2
    <2> QED BY <1>0, <1>1, <2>1 DEF ContextChannels
  <1>7. ContextResources'
    <2>1. stray \subseteq stray' BY <1>1
    <2> QED BY <1>0, <1>1, <1>2, <2>1, ContextResourcesKept
  <1> QED BY <1>4, <1>5, <1>6, <1>7 DEF ContextInv

\* ... and entered in a step of its own.
LEMMA ContextEnter ==
  ASSUME ContextInv, NEW c \in Clients, Context!Enter(c)
  PROVE  ContextInv'
  <1>0. ContextTypes /\ ContextBus /\ ContextChannels /\ ContextResources BY DEF ContextInv
  <1>1. /\ calls' = calls /\ now' = now /\ users[c][1] = "enter"
        /\ dataChannels' = [dataChannels EXCEPT ![users[c][2]] = users[c][3]]
        /\ stray' = stray \cup (IF over \in {"resources", "yes"} THEN {users[c][3]}
                                ELSE {managed[users[c][2]]} \ {0, users[c][3]})
        /\ users' = [users EXCEPT ![c] = <<"idle", "NONE", 0>>]
        /\ UNCHANGED <<onBus, held, managed, shut, resources, released, dataListeners,
                       configMutex, over, misused>>
    BY DEF Context!Enter, Context!At, Context!Returns, Context!Idle, Context!NoClient
  <1>2. /\ calls' = calls /\ now' = now /\ calls \in Nat
        /\ users[c] \in ContextPlace \X (FewIds \cup {"NONE"}) \X (0 .. calls)
    BY <1>0, <1>1 DEF ContextTypes
  <1>3. /\ users' \in [Clients -> ContextPlace \X (FewIds \cup {"NONE"}) \X (0 .. calls')]
        /\ \A d \in Clients : /\ users'[d][1] \in {"push", "drop", "enter"} => users'[d][3] # 0
                              /\ users'[d][1] \in {"enter", "erase"} => users'[d][2] \in FewIds
        /\ \A d \in Clients : d # c => users'[d] = users[d]
        /\ users'[c] = <<"idle", "NONE", 0>>
    <2>1. "idle" \in ContextPlace BY DEF ContextPlace
    <2>2. 0 \in 0 .. calls' /\ 0 .. calls \subseteq 0 .. calls' BY <1>2
    <2> QED BY <1>0, <1>1, <2>1, <2>2, ContextMoves
  <1>8. users[c][3] \in 1 .. calls /\ users[c][2] \in FewIds
    BY <1>0, <1>1, <1>2 DEF ContextTypes
  <1>9. stray' \subseteq 1 .. calls /\ stray \subseteq stray'
    <2>1. managed[users[c][2]] \in 0 .. calls BY <1>0, <1>8 DEF ContextTypes
    <2>2. {managed[users[c][2]]} \ {0, users[c][3]} \subseteq 1 .. calls BY <1>2, <2>1
    <2>3. stray \subseteq 1 .. calls BY <1>0 DEF ContextTypes
    <2> QED BY <1>1, <1>8, <2>2, <2>3
  <1>4. ContextTypes'
    <2>1. /\ calls' \in 0 .. FewCalls /\ now' \in 1 .. MaxTime
          /\ 1 .. calls \subseteq 1 .. calls' /\ 0 .. calls \subseteq 0 .. calls'
      BY <1>0, <1>2 DEF ContextTypes
    <2>2. /\ onBus' \subseteq 1 .. calls' /\ held' \subseteq 1 .. calls'
          /\ shut' \subseteq 1 .. calls' /\ stray' \subseteq 1 .. calls'
          /\ dataListeners' \subseteq 1 .. calls'
      BY <1>0, <1>1, <1>2, <1>9, <2>1 DEF ContextTypes
    <2>3. /\ managed' \in [FewIds -> 0 .. calls'] /\ dataChannels' \in [FewIds -> 0 .. calls']
          /\ resources' \in [FewIds -> 0 .. calls'] /\ released' \in [1 .. FewCalls -> Nat]
      BY <1>0, <1>1, <1>2, <1>8, <2>1, ContextTables DEF ContextTypes
    <2>4. /\ configMutex' \in Clients \cup {"NONE"} /\ misused' \in BOOLEAN
          /\ over' \in {"no", "bus", "channels", "resources", "yes"}
      BY <1>0, <1>1 DEF ContextTypes
    <2> QED BY <1>0, <1>3, <2>1, <2>2, <2>3, <2>4, ContextTypesKept
  <1>5. ContextBus'
    <2>1. \A d \in Clients : \/ users'[d] = users[d]
                             \/ users[d][1] # "push" /\ users'[d][1] # "drop"
      BY <1>1, <1>2, <1>3
    <2>2. stray \subseteq stray' BY <1>1
    <2> QED BY <1>0, <1>1, <2>1, <2>2, ContextBusKept
  <1>6. ContextChannels'
    <2> DEFINE id == users[c][2]
               n == users[c][3]
    <2>1. /\ dataChannels'[id] = n
          /\ \A j \in FewIds : j # id => dataChannels'[j] = dataChannels[j]
      BY <1>0, <1>1, <1>8 DEF ContextTypes
    <2>2. over \in {"resources", "yes"} => n \in stray' BY <1>1
    <2>3. over \notin {"resources", "yes"} => managed[id] \in stray' \cup {0, n} BY <1>1
    <2>4. ASSUME NEW j \in FewIds
          PROVE  \/ managed'[j] \in stray' \cup shut' \cup {0, dataChannels'[j]}
                 \/ \E d \in Entering(j)' : users'[d][3] = managed'[j]
      <3>1. CASE j = id /\ over \notin {"resources", "yes"}
        BY <1>1, <2>1, <2>3, <3>1
      <3>2. CASE j # id \/ over \in {"resources", "yes"}
        <4>1. CASE managed[j] \in stray \cup shut \cup {0} BY <1>1, <1>9, <4>1
        <4>2. CASE managed[j] = dataChannels[j]
          <5>1. CASE j # id BY <1>1, <2>1, <4>2, <5>1
          <5>2. CASE over \in {"resources", "yes"}
            <6>1. dataChannels[j] \in stray \cup {0} BY <1>0, <5>2 DEF ContextChannels
            <6> QED BY <1>1, <1>9, <4>2, <6>1
          <5> QED BY <3>2, <5>1, <5>2
        <4>3. ASSUME NEW d \in Entering(j), users[d][3] = managed[j]
              PROVE  \/ managed'[j] \in stray' \cup shut' \cup {0, dataChannels'[j]}
                     \/ \E e \in Entering(j)' : users'[e][3] = managed'[j]
          <5>1. CASE d = c
            <6>1. j = id BY <4>3, <5>1 DEF Entering
            <6> QED BY <1>1, <2>1, <4>3, <5>1, <6>1
          <5>2. CASE d # c BY <1>1, <1>3, <4>3, <5>2 DEF Entering
          <5> QED BY <5>1, <5>2
        <4> QED BY <1>0, <4>1, <4>2, <4>3 DEF ContextChannels
      <3> QED BY <3>1, <3>2
    <2>5. over' \in {"resources", "yes"} =>
            \A j \in FewIds : dataChannels'[j] \in stray' \cup {0}
      BY <1>0, <1>1, <1>9, <2>1, <2>2 DEF ContextChannels
    <2> QED BY <2>4, <2>5 DEF ContextChannels
  <1>7. ContextResources'
    <2>1. stray \subseteq stray' BY <1>1
    <2> QED BY <1>0, <1>1, <1>2, <2>1, ContextResourcesKept
  <1> QED BY <1>4, <1>5, <1>6, <1>7 DEF ContextInv

\* closeDataChannel() closes the channel first, ...
LEMMA ContextCloseDataChannel ==
  ASSUME ContextInv, NEW c \in Clients, NEW id \in FewIds, Context!CloseDataChannel(c, id)
  PROVE  ContextInv'
  <1>0. ContextTypes /\ ContextBus /\ ContextChannels /\ ContextResources BY DEF ContextInv
  <1>1. /\ Context!Begins(c)
        /\ managed' = [managed EXCEPT ![id] = 0]
        /\ shut' = shut \cup ({managed[id]} \ {0})
        /\ users' = [users EXCEPT ![c] = <<"erase", id, 0>>]
        /\ UNCHANGED <<onBus, held, dataChannels, resources, released, dataListeners,
                       configMutex, over, stray, misused>>
    BY DEF Context!CloseDataChannel, Context!Goes
  <1>2. /\ calls' = calls + 1 /\ now' = now /\ calls \in Nat
        /\ calls' \in 1 .. FewCalls /\ calls' \notin 1 .. calls
        /\ 1 .. calls \subseteq 1 .. calls' /\ 0 .. calls \subseteq 0 .. calls'
        /\ calls' \in 1 .. calls' /\ 0 \in 0 .. calls' /\ calls' \in 0 .. calls'
        /\ users[c] = <<"idle", "NONE", 0>>
    BY <1>0, <1>1, ContextBegins
  <1>3. /\ users' \in [Clients -> ContextPlace \X (FewIds \cup {"NONE"}) \X (0 .. calls')]
        /\ \A d \in Clients : /\ users'[d][1] \in {"push", "drop", "enter"} => users'[d][3] # 0
                              /\ users'[d][1] \in {"enter", "erase"} => users'[d][2] \in FewIds
        /\ \A d \in Clients : d # c => users'[d] = users[d]
        /\ users'[c] = <<"erase", id, 0>>
    <2>1. "erase" \in ContextPlace BY DEF ContextPlace
    <2>2. 0 \in 0 .. calls' /\ 0 .. calls \subseteq 0 .. calls' BY <1>0, <1>1, <1>2 DEF ContextTypes
    <2> QED BY <1>0, <1>1, <2>1, <2>2, ContextMoves
  <1>8. managed[id] \in 0 .. calls BY <1>0 DEF ContextTypes
  <1>4. ContextTypes'
    <2>1. /\ calls' \in 0 .. FewCalls /\ now' \in 1 .. MaxTime
          /\ 1 .. calls \subseteq 1 .. calls' /\ 0 .. calls \subseteq 0 .. calls'
      BY <1>0, <1>2 DEF ContextTypes
    <2>0. {managed[id]} \ {0} \subseteq 1 .. calls BY <1>2, <1>8
    <2>2. /\ onBus' \subseteq 1 .. calls' /\ held' \subseteq 1 .. calls'
          /\ shut' \subseteq 1 .. calls' /\ stray' \subseteq 1 .. calls'
          /\ dataListeners' \subseteq 1 .. calls'
      BY <1>0, <1>1, <2>0, <2>1 DEF ContextTypes
    <2>3. /\ managed' \in [FewIds -> 0 .. calls'] /\ dataChannels' \in [FewIds -> 0 .. calls']
          /\ resources' \in [FewIds -> 0 .. calls'] /\ released' \in [1 .. FewCalls -> Nat]
      BY <1>0, <1>1, <1>2, <2>1, ContextTables DEF ContextTypes
    <2>4. /\ configMutex' \in Clients \cup {"NONE"} /\ misused' \in BOOLEAN
          /\ over' \in {"no", "bus", "channels", "resources", "yes"}
      BY <1>0, <1>1 DEF ContextTypes
    <2> QED BY <1>0, <1>3, <2>1, <2>2, <2>3, <2>4, ContextTypesKept
  <1>5. ContextBus'
    <2>1. \A d \in Clients : \/ users'[d] = users[d]
                             \/ users[d][1] # "push" /\ users'[d][1] # "drop"
      BY <1>1, <1>2, <1>3
    <2>2. stray \subseteq stray' BY <1>1
    <2> QED BY <1>0, <1>1, <2>1, <2>2, ContextBusKept
  <1>6. ContextChannels'
    <2>1. ASSUME NEW j \in FewIds
          PROVE  \/ managed'[j] \in stray' \cup shut' \cup {0, dataChannels'[j]}
                 \/ \E d \in Entering(j)' : users'[d][3] = managed'[j]
      <3>1. CASE j = id BY <1>0, <1>1, <3>1 DEF ContextTypes
      <3>2. CASE j # id
        <4>1. managed'[j] = managed[j] BY <1>0, <1>1, <3>2 DEF ContextTypes
        <4>2. \A d \in Entering(j) : d # c BY <1>2 DEF Entering
        <4>3. \A d \in Entering(j) : d \in Entering(j)' /\ users'[d] = users[d]
          BY <1>3, <4>2 DEF Entering
        <4> QED BY <1>0, <1>1, <4>1, <4>3 DEF ContextChannels
      <3> QED BY <3>1, <3>2
    <2> QED BY <1>0, <1>1, <2>1 DEF ContextChannels
  <1>7. ContextResources'
    <2>1. stray \subseteq stray' BY <1>1
    <2> QED BY <1>0, <1>1, <1>2, <2>1, ContextResourcesKept
  <1> QED BY <1>4, <1>5, <1>6, <1>7 DEF ContextInv

\* ... and erases the entry in a step of its own.
LEMMA ContextErase ==
  ASSUME ContextInv, NEW c \in Clients, Context!Erase(c)
  PROVE  ContextInv'
  <1>0. ContextTypes /\ ContextBus /\ ContextChannels /\ ContextResources BY DEF ContextInv
  <1>1. /\ calls' = calls /\ now' = now /\ users[c][1] = "erase"
        /\ dataChannels' = [dataChannels EXCEPT ![users[c][2]] = 0]
        /\ stray' = stray \cup ({managed[users[c][2]]} \ {0})
        /\ users' = [users EXCEPT ![c] = <<"idle", "NONE", 0>>]
        /\ UNCHANGED <<onBus, held, managed, shut, resources, released, dataListeners,
                       configMutex, over, misused>>
    BY DEF Context!Erase, Context!At, Context!Returns, Context!Idle, Context!NoClient
  <1>2. /\ calls' = calls /\ now' = now /\ calls \in Nat
        /\ users[c] \in ContextPlace \X (FewIds \cup {"NONE"}) \X (0 .. calls)
    BY <1>0, <1>1 DEF ContextTypes
  <1>3. /\ users' \in [Clients -> ContextPlace \X (FewIds \cup {"NONE"}) \X (0 .. calls')]
        /\ \A d \in Clients : /\ users'[d][1] \in {"push", "drop", "enter"} => users'[d][3] # 0
                              /\ users'[d][1] \in {"enter", "erase"} => users'[d][2] \in FewIds
        /\ \A d \in Clients : d # c => users'[d] = users[d]
        /\ users'[c] = <<"idle", "NONE", 0>>
    <2>1. "idle" \in ContextPlace BY DEF ContextPlace
    <2>2. 0 \in 0 .. calls' /\ 0 .. calls \subseteq 0 .. calls' BY <1>2
    <2> QED BY <1>0, <1>1, <2>1, <2>2, ContextMoves
  <1>8. users[c][2] \in FewIds /\ managed[users[c][2]] \in 0 .. calls
    BY <1>0, <1>1, <1>2 DEF ContextTypes
  <1>4. ContextTypes'
    <2>1. /\ calls' \in 0 .. FewCalls /\ now' \in 1 .. MaxTime
          /\ 1 .. calls \subseteq 1 .. calls' /\ 0 .. calls \subseteq 0 .. calls'
      BY <1>0, <1>2 DEF ContextTypes
    <2>0. {managed[users[c][2]]} \ {0} \subseteq 1 .. calls BY <1>2, <1>8
    <2>2. /\ onBus' \subseteq 1 .. calls' /\ held' \subseteq 1 .. calls'
          /\ shut' \subseteq 1 .. calls' /\ stray' \subseteq 1 .. calls'
          /\ dataListeners' \subseteq 1 .. calls'
      BY <1>0, <1>1, <2>0, <2>1 DEF ContextTypes
    <2>3. /\ managed' \in [FewIds -> 0 .. calls'] /\ dataChannels' \in [FewIds -> 0 .. calls']
          /\ resources' \in [FewIds -> 0 .. calls'] /\ released' \in [1 .. FewCalls -> Nat]
      BY <1>0, <1>1, <1>2, <1>8, <2>1, ContextTables DEF ContextTypes
    <2>4. /\ configMutex' \in Clients \cup {"NONE"} /\ misused' \in BOOLEAN
          /\ over' \in {"no", "bus", "channels", "resources", "yes"}
      BY <1>0, <1>1 DEF ContextTypes
    <2> QED BY <1>0, <1>3, <2>1, <2>2, <2>3, <2>4, ContextTypesKept
  <1>5. ContextBus'
    <2>1. \A d \in Clients : \/ users'[d] = users[d]
                             \/ users[d][1] # "push" /\ users'[d][1] # "drop"
      BY <1>1, <1>2, <1>3
    <2>2. stray \subseteq stray' BY <1>1
    <2> QED BY <1>0, <1>1, <2>1, <2>2, ContextBusKept
  <1>6. ContextChannels'
    <2> DEFINE id == users[c][2]
    <2>1. /\ dataChannels'[id] = 0
          /\ \A j \in FewIds : j # id => dataChannels'[j] = dataChannels[j]
      BY <1>0, <1>1, <1>8 DEF ContextTypes
    <2>2. managed[id] \in stray' \cup {0} BY <1>1
    <2>3. ASSUME NEW j \in FewIds
          PROVE  \/ managed'[j] \in stray' \cup shut' \cup {0, dataChannels'[j]}
                 \/ \E d \in Entering(j)' : users'[d][3] = managed'[j]
      <3>1. CASE j = id BY <1>1, <2>2, <3>1
      <3>2. CASE j # id
        <4>1. \A d \in Entering(j) : d # c BY <1>1 DEF Entering
        <4>2. \A d \in Entering(j) : d \in Entering(j)' /\ users'[d] = users[d]
          BY <1>3, <4>1 DEF Entering
        <4> QED BY <1>0, <1>1, <2>1, <3>2, <4>2 DEF ContextChannels
      <3> QED BY <3>1, <3>2
    <2>4. over' \in {"resources", "yes"} =>
            \A j \in FewIds : dataChannels'[j] \in stray' \cup {0}
      BY <1>0, <1>1, <2>1 DEF ContextChannels
    <2> QED BY <2>3, <2>4 DEF ContextChannels
  <1>7. ContextResources'
    <2>1. stray \subseteq stray' BY <1>1
    <2> QED BY <1>0, <1>1, <1>2, <2>1, ContextResourcesKept
  <1> QED BY <1>4, <1>5, <1>6, <1>7 DEF ContextInv

\* The data listeners are the manager's to forget.
LEMMA ContextSubscribeData ==
  ASSUME ContextInv, NEW c \in Clients, Context!SubscribeData(c)
  PROVE  ContextInv'
  <1>0. ContextTypes /\ ContextBus /\ ContextChannels /\ ContextResources BY DEF ContextInv
  <1>1. /\ Context!Begins(c)
        /\ dataListeners' \subseteq dataListeners \cup {calls'}
        /\ UNCHANGED <<onBus, held, managed, dataChannels, shut, resources, released,
                       configMutex, users, over, stray, misused>>
    BY DEF Context!SubscribeData
  <1>2. /\ calls' = calls + 1 /\ now' = now /\ calls \in Nat
        /\ calls' \in 1 .. FewCalls /\ calls' \in 1 .. calls'
        /\ 1 .. calls \subseteq 1 .. calls' /\ 0 .. calls \subseteq 0 .. calls'
    BY <1>0, <1>1, ContextBegins
  <1>3. ContextTypes'
    <2>1. calls' \in 0 .. FewCalls /\ now' \in 1 .. MaxTime BY <1>0, <1>2 DEF ContextTypes
    <2>2. dataListeners' \subseteq 1 .. calls' BY <1>0, <1>1, <1>2 DEF ContextTypes
    <2> QED BY <1>0, <1>1, <1>2, <2>1, <2>2, ContextTables DEF ContextTypes
  <1>4. ContextBus' /\ ContextChannels'
    BY <1>0, <1>1, ContextBusKept, ContextChannelsKept
  <1>5. ContextResources' BY <1>0, <1>1, <1>2, ContextResourcesKept
  <1> QED BY <1>3, <1>4, <1>5 DEF ContextInv

\* A resource that replaces another one releases it.
LEMMA ContextRegisterResource ==
  ASSUME ContextInv, NEW c \in Clients, NEW id \in FewIds, Context!RegisterResource(c, id)
  PROVE  ContextInv'
  <1>0. ContextTypes /\ ContextBus /\ ContextChannels /\ ContextResources BY DEF ContextInv
  <1>1. /\ Context!Begins(c)
        /\ resources' = [resources EXCEPT ![id] = calls']
        /\ stray' = stray \cup
             (({resources[id]} \ {0}) \cup (IF over = "yes" THEN {calls'} ELSE {}))
        /\ UNCHANGED <<onBus, held, managed, dataChannels, shut, released, dataListeners,
                       configMutex, users, over, misused>>
    BY DEF Context!RegisterResource
  <1>2. /\ calls' = calls + 1 /\ now' = now /\ calls \in Nat
        /\ calls' \in 1 .. FewCalls /\ calls' \in 1 .. calls' /\ calls' \notin 1 .. calls
        /\ 1 .. calls \subseteq 1 .. calls' /\ 0 .. calls \subseteq 0 .. calls'
        /\ calls' \in 0 .. calls' /\ calls' \notin 0 .. calls
    <2>1. /\ calls' = calls + 1 /\ now' = now /\ calls \in Nat
          /\ calls' \in 1 .. FewCalls /\ calls' \in 1 .. calls' /\ calls' \notin 1 .. calls
          /\ 1 .. calls \subseteq 1 .. calls' /\ 0 .. calls \subseteq 0 .. calls'
          /\ calls' \in 0 .. calls'
      BY <1>0, <1>1, ContextBegins
    <2> QED BY <2>1
  <1>3. \A j \in FewIds : resources'[j] = IF j = id THEN calls' ELSE resources[j]
    BY <1>0, <1>1 DEF ContextTypes
  <1>4. \A j \in FewIds : resources[j] \in 0 .. calls BY <1>0 DEF ContextTypes
  <1>5. stray \subseteq stray' BY <1>1
  <1>6. ContextTypes'
    <2>1. calls' \in 0 .. FewCalls /\ now' \in 1 .. MaxTime BY <1>0, <1>2 DEF ContextTypes
    <2>2. resources' \in [FewIds -> 0 .. calls'] BY <1>0, <1>1, <1>2, ContextTables
    <2>3. stray' \subseteq 1 .. calls'
      <3>1. {resources[id]} \ {0} \subseteq 1 .. calls' BY <1>2, <1>4
      <3>2. stray \subseteq 1 .. calls' BY <1>0, <1>2 DEF ContextTypes
      <3>3. (IF over = "yes" THEN {calls'} ELSE {}) \subseteq 1 .. calls' BY <1>2
      <3> QED BY <1>1, <3>1, <3>2, <3>3
    <2>4. /\ onBus' \subseteq 1 .. calls' /\ held' \subseteq 1 .. calls'
          /\ shut' \subseteq 1 .. calls' /\ dataListeners' \subseteq 1 .. calls'
      BY <1>0, <1>1, <1>2 DEF ContextTypes
    <2>5. /\ managed' \in [FewIds -> 0 .. calls'] /\ dataChannels' \in [FewIds -> 0 .. calls']
          /\ users' \in [Clients -> ContextPlace \X (FewIds \cup {"NONE"}) \X (0 .. calls')]
      BY <1>0, <1>1, <1>2, ContextTables
    <2>6. /\ configMutex' \in Clients \cup {"NONE"} /\ misused' \in BOOLEAN
          /\ over' \in {"no", "bus", "channels", "resources", "yes"}
          /\ released' \in [1 .. FewCalls -> Nat]
          /\ \A d \in Clients : /\ users'[d][1] \in {"push", "drop", "enter"} => users'[d][3] # 0
                                /\ users'[d][1] \in {"enter", "erase"} => users'[d][2] \in FewIds
      BY <1>0, <1>1 DEF ContextTypes
    <2> QED BY <1>2, <2>1, <2>2, <2>3, <2>4, <2>5, <2>6, <1>0, ContextTypesKept
  <1>7. ContextBus' /\ ContextChannels'
    BY <1>0, <1>1, <1>5, ContextBusKept, ContextChannelsKept
  <1>8. ContextResources'
    <2>1. \A n \in 1 .. FewCalls : released'[n] <= 1 /\ (n > calls' => released'[n] = 0)
      <3>1. \A n \in 1 .. FewCalls : n > calls' => n > calls
        BY <1>2, PluginsAssumption
      <3> QED BY <1>0, <1>1, <3>1 DEF ContextResources
    <2>2. \A j \in FewIds : resources'[j] # 0 => released'[resources'[j]] = 0
      <3>1. released[calls'] = 0
        <4>1. calls' > calls BY <1>2
        <4> QED BY <1>0, <1>2, <4>1 DEF ContextResources
      <3> QED BY <1>0, <1>1, <1>3, <3>1 DEF ContextResources
    <2>3. \A j, k \in FewIds : resources'[j] # 0 /\ resources'[j] = resources'[k] => j = k
      BY <1>0, <1>2, <1>3, <1>4 DEF ContextResources
    <2>4. over' = "yes" => \A j \in FewIds : resources'[j] \in stray' \cup {0}
      BY <1>0, <1>1, <1>3, <1>5 DEF ContextResources
    <2> QED BY <2>1, <2>2, <2>3, <2>4 DEF ContextResources
  <1> QED BY <1>6, <1>7, <1>8 DEF ContextInv

\* What the calls of deleters keep: those of resources that are given out, and no longer.
LEMMA ContextDeletes ==
  ASSUME ContextInv, NEW gone \in SUBSET FewIds,
         NEW ns, ns = {resources[id] : id \in gone} \ {0},
         released' = [n \in 1 .. FewCalls |-> released[n] + IF n \in ns THEN 1 ELSE 0],
         resources' \in [FewIds -> 0 .. calls'],
         \A id \in FewIds : resources'[id] = IF id \in gone THEN 0 ELSE resources[id],
         stray' = stray, calls' \in {calls, calls + 1},
         over' = "yes" => over = "yes" \/ gone = FewIds
  PROVE  ContextResources' /\ released' \in [1 .. FewCalls -> Nat]
  <1>0. ContextTypes /\ ContextResources BY DEF ContextInv
  <1>1. calls \in Nat /\ FewCalls \in Nat /\ calls <= FewCalls
    BY <1>0, PluginsAssumption DEF ContextTypes
  <1>2. \A n \in 1 .. FewCalls : released[n] \in Nat BY <1>0 DEF ContextTypes
  <1>3. \A n \in 1 .. FewCalls : released'[n] = released[n] + IF n \in ns THEN 1 ELSE 0
    OBVIOUS
  <1>4. \A n \in 1 .. FewCalls : released'[n] \in Nat BY <1>2, <1>3
  <1>5. \A n \in ns : n \in 1 .. calls /\ released[n] = 0
    <2> TAKE n \in ns
    <2>1. PICK id \in gone : n = resources[id] /\ n # 0 OBVIOUS
    <2>2. resources[id] \in 0 .. calls BY <1>0, <2>1 DEF ContextTypes
    <2> QED BY <1>0, <1>1, <2>1, <2>2 DEF ContextResources
  <1>6. \A n \in 1 .. FewCalls : released'[n] <= 1 /\ (n > calls' => released'[n] = 0)
    <2> TAKE n \in 1 .. FewCalls
    <2>1. CASE n \in ns BY <1>1, <1>3, <1>5, <2>1
    <2>2. CASE n \notin ns
      <3>1. released'[n] = released[n] BY <1>2, <1>3, <2>2
      <3>2. n > calls' => n > calls BY <1>1
      <3> QED BY <1>0, <3>1, <3>2 DEF ContextResources
    <2> QED BY <2>1, <2>2
  <1>7. \A id \in FewIds : resources'[id] # 0 => released'[resources'[id]] = 0
    <2> SUFFICES ASSUME NEW id \in FewIds, resources'[id] # 0
                 PROVE  released'[resources'[id]] = 0
      OBVIOUS
    <2>1. id \notin gone /\ resources'[id] = resources[id] OBVIOUS
    <2>2. resources[id] \notin ns
      <3>1. \A j \in gone : resources[j] # resources[id] BY <1>0, <2>1 DEF ContextResources
      <3> QED BY <3>1
    <2>3. resources[id] \in 1 .. FewCalls
      <3>1. resources[id] \in 0 .. calls BY <1>0 DEF ContextTypes
      <3> QED BY <1>1, <2>1, <3>1
    <2>4. released'[resources[id]] = released[resources[id]] BY <1>2, <1>3, <2>2, <2>3
    <2> QED BY <1>0, <2>1, <2>4 DEF ContextResources
  <1>8. \A id, j \in FewIds : resources'[id] # 0 /\ resources'[id] = resources'[j] => id = j
    BY <1>0 DEF ContextResources
  <1>9. over' = "yes" => \A id \in FewIds : resources'[id] \in stray' \cup {0}
    BY <1>0 DEF ContextResources
  <1>10. released' \in [1 .. FewCalls -> Nat] BY <1>4
  <1> QED BY <1>6, <1>7, <1>8, <1>9, <1>10 DEF ContextResources

\* unregisterResource() releases what it takes out.
LEMMA ContextUnregisterResource ==
  ASSUME ContextInv, NEW c \in Clients, NEW id \in FewIds, Context!UnregisterResource(c, id)
  PROVE  ContextInv'
  <1>0. ContextTypes /\ ContextBus /\ ContextChannels /\ ContextResources BY DEF ContextInv
  <1>1. /\ Context!Begins(c) /\ resources[id] # 0
        /\ resources' = [resources EXCEPT ![id] = 0]
        /\ released' = [n \in 1 .. FewCalls |->
                          released[n] + IF n \in {resources[id]} THEN 1 ELSE 0]
        /\ UNCHANGED <<onBus, held, managed, dataChannels, shut, dataListeners,
                       configMutex, users, over, stray, misused>>
    BY DEF Context!UnregisterResource, Context!Deleted, Context!Numbers
  <1>2. /\ calls' = calls + 1 /\ now' = now /\ calls \in Nat
        /\ calls' \in 1 .. FewCalls
        /\ 1 .. calls \subseteq 1 .. calls' /\ 0 .. calls \subseteq 0 .. calls'
        /\ 0 \in 0 .. calls'
    BY <1>0, <1>1, ContextBegins
  <1>3. \A j \in FewIds : resources'[j] = IF j \in {id} THEN 0 ELSE resources[j]
    BY <1>0, <1>1 DEF ContextTypes
  <1>4. resources' \in [FewIds -> 0 .. calls'] BY <1>0, <1>1, <1>2, ContextTables
  <1>5. ContextResources' /\ released' \in [1 .. FewCalls -> Nat]
    <2>1. {resources[id]} = {resources[j] : j \in {id}} \ {0} BY <1>1
    <2>2. {id} \in SUBSET FewIds OBVIOUS
    <2>3. over' = "yes" => over = "yes" \/ {id} = FewIds BY <1>1
    <2>4. stray' = stray /\ calls' \in {calls, calls + 1} BY <1>1, <1>2
    <2>5. released' = [n \in 1 .. FewCalls |->
                         released[n] + IF n \in {resources[id]} THEN 1 ELSE 0]
      BY <1>1
    <2> HIDE <1>1, <1>2
    <2> QED BY <1>3, <1>4, <2>1, <2>2, <2>3, <2>4, <2>5, ContextDeletes
  <1>6. ContextTypes'
    <2>1. calls' \in 0 .. FewCalls /\ now' \in 1 .. MaxTime BY <1>0, <1>2 DEF ContextTypes
    <2>2. /\ managed' \in [FewIds -> 0 .. calls'] /\ dataChannels' \in [FewIds -> 0 .. calls']
          /\ users' \in [Clients -> ContextPlace \X (FewIds \cup {"NONE"}) \X (0 .. calls')]
      BY <1>0, <1>1, <1>2, ContextTables
    <2>3. /\ onBus' \subseteq 1 .. calls' /\ held' \subseteq 1 .. calls'
          /\ shut' \subseteq 1 .. calls' /\ dataListeners' \subseteq 1 .. calls'
          /\ stray' \subseteq 1 .. calls'
      BY <1>0, <1>1, <1>2 DEF ContextTypes
    <2>4. /\ configMutex' \in Clients \cup {"NONE"} /\ misused' \in BOOLEAN
          /\ over' \in {"no", "bus", "channels", "resources", "yes"}
          /\ \A d \in Clients : /\ users'[d][1] \in {"push", "drop", "enter"} => users'[d][3] # 0
                                /\ users'[d][1] \in {"enter", "erase"} => users'[d][2] \in FewIds
      BY <1>0, <1>1 DEF ContextTypes
    <2> QED BY <1>0, <1>2, <1>4, <1>5, <2>1, <2>2, <2>3, <2>4, ContextTypesKept
  <1>7. ContextBus' /\ ContextChannels'
    BY <1>0, <1>1, ContextBusKept, ContextChannelsKept
  <1> QED BY <1>5, <1>6, <1>7 DEF ContextInv

\* The configuration's lock is nobody else's business.
LEMMA ContextConfig ==
  ASSUME ContextInv, NEW c \in Clients, Context!SaveConfig(c) \/ Context!SetConfig(c)
  PROVE  ContextInv'
  <1>0. ContextTypes /\ ContextBus /\ ContextChannels /\ ContextResources BY DEF ContextInv
  <1>1. /\ Context!Begins(c)
        /\ configMutex' \in {configMutex, c}
        /\ users' \in {users, [users EXCEPT ![c] = <<"config", "NONE", 0>>]}
        /\ UNCHANGED <<onBus, held, managed, dataChannels, shut, resources, released,
                       dataListeners, over, stray, misused>>
    BY DEF Context!SaveConfig, Context!SetConfig, Context!Goes, Context!held, Context!NoClient
  <1>2. /\ calls' = calls + 1 /\ now' = now /\ calls \in Nat
        /\ calls' \in 1 .. FewCalls /\ 0 \in 0 .. calls'
        /\ 1 .. calls \subseteq 1 .. calls' /\ 0 .. calls \subseteq 0 .. calls'
        /\ users[c] = <<"idle", "NONE", 0>>
    BY <1>0, <1>1, ContextBegins
  <1>3. /\ users' \in [Clients -> ContextPlace \X (FewIds \cup {"NONE"}) \X (0 .. calls')]
        /\ \A d \in Clients : /\ users'[d][1] \in {"push", "drop", "enter"} => users'[d][3] # 0
                              /\ users'[d][1] \in {"enter", "erase"} => users'[d][2] \in FewIds
        /\ \A d \in Clients : d # c => users'[d] = users[d]
        /\ users'[c] \in {users[c], <<"config", "NONE", 0>>}
    <2>1. CASE users' = users
      BY <1>0, <1>2, <2>1, ContextTables DEF ContextTypes
    <2>2. CASE users' = [users EXCEPT ![c] = <<"config", "NONE", 0>>]
      <3>1. "config" \in ContextPlace BY DEF ContextPlace
      <3> QED BY <1>0, <1>2, <2>2, <3>1, ContextMoves
    <2> QED BY <1>1, <2>1, <2>2
  <1>4. ContextTypes'
    <2>1. calls' \in 0 .. FewCalls /\ now' \in 1 .. MaxTime BY <1>0, <1>2 DEF ContextTypes
    <2>2. configMutex' \in Clients \cup {"NONE"} BY <1>0, <1>1 DEF ContextTypes
    <2> QED BY <1>0, <1>1, <1>2, <1>3, <2>1, <2>2, ContextTables DEF ContextTypes
  <1>5. \A d \in Clients : /\ users'[d] = users[d] \/ users[d][1] = "idle"
                           /\ users'[d] = users[d] \/ users'[d][1] = "config"
    BY <1>2, <1>3
  <1>6. ContextBus'
    <2>1. \A d \in Clients : \/ users'[d] = users[d]
                             \/ users[d][1] # "push" /\ users'[d][1] # "drop"
      BY <1>5
    <2> QED BY <1>0, <1>1, <2>1, ContextBusKept
  <1>7. ContextChannels'
    <2>1. \A d \in Clients : users'[d] = users[d] \/ users[d][1] # "enter" BY <1>5
    <2> QED BY <1>0, <1>1, <2>1, ContextChannelsKept
  <1>8. ContextResources' BY <1>0, <1>1, <1>2, ContextResourcesKept
  <1> QED BY <1>4, <1>6, <1>7, <1>8 DEF ContextInv

\* shutdown() and what it calls give everything back.
LEMMA ContextShutdown ==
  ASSUME ContextInv,
         Context!Shutdown \/ Context!UnsubscribeAll \/ Context!CloseChannels
           \/ Context!ReleaseResources
  PROVE  ContextInv'
  <1>0. ContextTypes /\ ContextBus /\ ContextChannels /\ ContextResources BY DEF ContextInv
  <1>1. CASE Context!Shutdown
    <2>1. /\ over' = "bus"
          /\ UNCHANGED <<calls, now, onBus, held, managed, dataChannels, shut, resources,
                         released, dataListeners, configMutex, users, stray, misused>>
      BY <1>1 DEF Context!Shutdown, Context!held
    <2>2. ContextTypes' BY <1>0, <2>1 DEF ContextTypes
    <2>3. ContextBus' /\ ContextChannels'
      BY <1>0, <2>1, ContextBusKept, ContextChannelsKept
    <2>4. ContextResources' BY <1>0, <2>1, ContextResourcesKept
    <2> QED BY <2>2, <2>3, <2>4 DEF ContextInv
  <1>2. CASE Context!UnsubscribeAll
    <2>1. /\ over = "bus" /\ over' = "channels" /\ onBus' = onBus \ held /\ held' = {}
          /\ UNCHANGED <<calls, now, managed, dataChannels, shut, resources, released,
                         dataListeners, configMutex, users, stray, misused>>
      BY <1>2 DEF Context!UnsubscribeAll
    <2>2. ContextTypes' BY <1>0, <2>1 DEF ContextTypes
    <2>3. ContextBus' BY <1>0, <2>1 DEF ContextBus, Pushing
    <2>4. ContextChannels' BY <1>0, <2>1, ContextChannelsKept
    <2>5. ContextResources' BY <1>0, <2>1, ContextResourcesKept
    <2> QED BY <2>2, <2>3, <2>4, <2>5 DEF ContextInv
  <1>3. CASE Context!CloseChannels
    <2> DEFINE open == {dataChannels[id] : id \in FewIds} \ {0}
    <2>1. /\ over = "channels" /\ over' = "resources" /\ shut' = shut \cup open
          /\ misused' \in BOOLEAN /\ dataChannels' = [id \in FewIds |-> 0]
          /\ UNCHANGED <<calls, now, onBus, held, managed, resources, released,
                         dataListeners, configMutex, users, stray>>
      BY <1>3 DEF Context!CloseChannels
    <2>2. ContextTypes'
      <3>1. \A id \in FewIds : dataChannels[id] \in 0 .. calls BY <1>0 DEF ContextTypes
      <3>2. calls \in Nat BY <1>0 DEF ContextTypes
      <3>3. open \subseteq 1 .. calls BY <3>1, <3>2
      <3>4. shut' \subseteq 1 .. calls BY <1>0, <2>1, <3>3 DEF ContextTypes
      <3>5. dataChannels' \in [FewIds -> 0 .. calls] BY <2>1, <3>2
      <3>6. 1 .. calls \subseteq 1 .. calls' /\ 0 .. calls \subseteq 0 .. calls' BY <2>1
      <3> HIDE DEF open
      <3> QED BY <1>0, <2>1, <3>4, <3>5 DEF ContextTypes
    <2>3. ContextBus' BY <1>0, <2>1, ContextBusKept
    <2>4. ContextChannels'
      <3>1. ASSUME NEW id \in FewIds
            PROVE  \/ managed'[id] \in stray' \cup shut' \cup {0, dataChannels'[id]}
                   \/ \E c \in Entering(id)' : users'[c][3] = managed'[id]
        <4>1. Entering(id)' = Entering(id) BY <2>1 DEF Entering
        <4>2. dataChannels[id] \in shut' \cup {0} BY <2>1
        <4> QED BY <1>0, <2>1, <4>1, <4>2 DEF ContextChannels
      <3>2. \A id \in FewIds : dataChannels'[id] \in stray' \cup {0} BY <2>1
      <3> QED BY <3>1, <3>2 DEF ContextChannels
    <2>5. ContextResources' BY <1>0, <2>1, ContextResourcesKept
    <2> QED BY <2>2, <2>3, <2>4, <2>5 DEF ContextInv
  <1>4. CASE Context!ReleaseResources
    <2> DEFINE ns == {resources[id] : id \in FewIds} \ {0}
    <2>1. /\ over = "resources" /\ over' = "yes"
          /\ released' = [n \in 1 .. FewCalls |-> released[n] + IF n \in ns THEN 1 ELSE 0]
          /\ resources' = [id \in FewIds |-> 0]
          /\ UNCHANGED <<calls, now, onBus, held, managed, dataChannels, shut,
                         dataListeners, configMutex, users, stray, misused>>
      BY <1>4 DEF Context!ReleaseResources, Context!Deleted, Context!Numbers
    <2>2. resources' \in [FewIds -> 0 .. calls']
      <3>1. 0 \in 0 .. calls' BY <1>0, <2>1 DEF ContextTypes
      <3> QED BY <2>1, <3>1
    <2>3. ContextResources' /\ released' \in [1 .. FewCalls -> Nat]
      <3>1. \A id \in FewIds : resources'[id] = IF id \in FewIds THEN 0 ELSE resources[id]
        BY <2>1
      <3>2. ns = {resources[id] : id \in FewIds} \ {0} /\ FewIds \in SUBSET FewIds OBVIOUS
      <3>3. /\ released' = [n \in 1 .. FewCalls |-> released[n] + IF n \in ns THEN 1 ELSE 0]
            /\ stray' = stray /\ calls' \in {calls, calls + 1}
        BY <2>1
      <3> HIDE DEF ns
      <3> HIDE <2>1
      <3> QED BY <2>2, <3>1, <3>2, <3>3, ContextDeletes
    <2>4. ContextTypes' BY <1>0, <2>1, <2>2, <2>3 DEF ContextTypes
    <2>5. ContextBus' /\ ContextChannels'
      BY <1>0, <2>1, ContextBusKept, ContextChannelsKept
    <2> QED BY <2>3, <2>4, <2>5 DEF ContextInv
  <1> QED BY <1>1, <1>2, <1>3, <1>4

\* Every step.
LEMMA ContextStep == ContextInv /\ [Context!Next]_(Context!vars) => ContextInv'
  <1> SUFFICES ASSUME ContextInv, [Context!Next]_(Context!vars) PROVE ContextInv'
    OBVIOUS
  <1>1. CASE UNCHANGED Context!vars
    <2>1. UNCHANGED <<calls, now, onBus, held, managed, dataChannels, shut, resources,
                      released, dataListeners, configMutex, users, over, stray, misused>>
      BY <1>1 DEF Context!vars, Context!own, Context!held
    <2> QED BY <2>1 DEF ContextInv, ContextTypes, ContextBus, ContextChannels,
                        ContextResources, Pushing, Entering
  <1>2. CASE Context!Next
    <2>1. CASE \E c \in Clients :
                 \/ Context!Subscribe(c) \/ Context!Push(c) \/ Context!Drop(c)
                 \/ (\E n \in Context!Numbers : Context!Unsubscribe(c, n))
                 \/ Context!SubscribeData(c) \/ Context!Enter(c) \/ Context!Erase(c)
                 \/ Context!SaveConfig(c) \/ Context!SetConfig(c)
      BY <2>1, ContextSubscribe, ContextPush, ContextDrop, ContextUnsubscribe,
         ContextSubscribeData, ContextEnter, ContextErase, ContextConfig
         DEF Context!Numbers
    <2>2. CASE \E c \in Clients, id \in FewIds :
                 \/ Context!CreateDataChannel(c, id) \/ Context!CloseDataChannel(c, id)
                 \/ Context!RegisterResource(c, id) \/ Context!UnregisterResource(c, id)
      BY <2>2, ContextCreateDataChannel, ContextCloseDataChannel, ContextRegisterResource,
         ContextUnregisterResource
    <2> QED BY <1>2, <2>1, <2>2, ContextShutdown DEF Context!Next
  <1> QED BY <1>1, <1>2

\* The part's properties: what a plugin acquired and what came astray is given back, once.
LEMMA ContextHolds ==
  ASSUME ContextInv
  PROVE  Context!TypeOK /\ Context!ShutdownIsComplete /\ Context!ReleasedOnce
  <1>0. ContextTypes /\ ContextBus /\ ContextChannels /\ ContextResources BY DEF ContextInv
  <1>1. calls \in Nat /\ FewCalls \in Nat /\ calls <= FewCalls
    BY <1>0, PluginsAssumption DEF ContextTypes
  <1>2. 1 .. calls \subseteq 1 .. FewCalls /\ 0 .. calls \subseteq Nat BY <1>1
  <1>3. Context!TypeOK
    <2>1. /\ onBus \subseteq 1 .. FewCalls /\ held \subseteq 1 .. FewCalls
          /\ shut \subseteq 1 .. FewCalls /\ dataListeners \subseteq 1 .. FewCalls
          /\ stray \subseteq 1 .. FewCalls
      BY <1>0, <1>2 DEF ContextTypes
    <2>2. /\ managed \in [FewIds -> Nat] /\ dataChannels \in [FewIds -> Nat]
          /\ resources \in [FewIds -> Nat]
      BY <1>0, <1>2 DEF ContextTypes
    <2> QED BY <1>0, <2>1, <2>2 DEF ContextTypes, Context!TypeOK, Context!CallersTypeOK,
               Context!Numbers, Context!NoClient
  <1>4. Context!ReleasedOnce
    BY <1>0 DEF ContextResources, Context!ReleasedOnce, Context!Numbers
  <1>5. Context!ShutdownIsComplete
    <2> SUFFICES ASSUME over = "yes", \A c \in Clients : users[c][1] \in {"idle", "config"}
                 PROVE  /\ onBus \subseteq stray
                        /\ \A id \in FewIds : managed[id] \in stray \cup shut \cup {0}
                        /\ \A id \in FewIds : resources[id] \in stray \cup {0}
      BY DEF Context!ShutdownIsComplete, Context!Idle, Context!NoClient
    <2>1. Pushing = {} /\ \A id \in FewIds : Entering(id) = {} BY DEF Pushing, Entering
    <2>2. onBus \subseteq stray BY <1>0, <2>1 DEF ContextBus
    <2>3. \A id \in FewIds : managed[id] \in stray \cup shut \cup {0}
      BY <1>0, <2>1 DEF ContextChannels
    <2>4. \A id \in FewIds : resources[id] \in stray \cup {0} BY <1>0 DEF ContextResources
    <2> QED BY <2>2, <2>3, <2>4
  <1> QED BY <1>3, <1>4, <1>5

-----------------------------------------------------------------------------
(* The plugin manager.                                                     *)

Instance    == 1 .. FewCalls
NoEntry     == [n |-> 0, state |-> "UNLOADED", deps |-> {}]
PluginEntry == [n : Instance, state : {"LOADED", "RUNNING", "DISABLED"}, deps : SUBSET SomeIds]
Hand        == [phase : Manager!Phases, id : SomeIds \cup {"NONE"},
                entry : PluginEntry \cup {NoEntry}, todo : SUBSET SomeIds,
                again : PluginEntry \cup {NoEntry}]

\* A load before and after the instance enters the table, and an unload after it has left.
Making  == {"insert", "create"}
InLoad  == {"onLoad", "onInitialize", "onStart", "mark"}
Leaving == {"check", "leave"}

\* An unload before it takes a plugin from the table, and after the plugin is gone.
Between == {"take", "count"}

ManagerTypes ==
  /\ calls \in 0 .. FewCalls /\ now \in 1 .. MaxTime
  /\ plugins \in [SomeIds -> PluginEntry \cup {NoEntry}]
  /\ pluginsMutex \in Clients \cup {"NONE"} /\ statsMutex \in Clients \cup {"NONE"}
  /\ place \in [Clients -> Hand]
  /\ started \subseteq Instance /\ stopped \subseteq Instance /\ contested \subseteq Instance
  /\ fate \in [Instance -> Manager!Fates] /\ broken \in BOOLEAN

\* What a client has in its hands agrees with the history of the instances.
InHands(p) ==
  /\ p.phase \in Making \cup InLoad =>
       p.id \in SomeIds /\ p.entry # NoEntry /\ p.entry.state = "LOADED" /\ p.again = NoEntry
  /\ p.phase \in Leaving =>
       /\ p.id \in SomeIds /\ p.entry # NoEntry /\ fate[p.entry.n] = "leaving"
       /\ p.entry.n \in started \ contested => p.entry.state = "RUNNING"
  /\ p.phase = "insert" => fate[p.entry.n] = "loading"
  /\ p.phase = "create" => fate[p.entry.n] = "none" /\ p.entry.n <= calls
  /\ p.phase \in InLoad => /\ fate[p.entry.n] \notin {"none", "loading"}
                           /\ p.entry.n \in contested \/ plugins[p.id].n = p.entry.n
  /\ p.phase = "mark" => p.entry.n \in started
  /\ p.again # NoEntry =>
       /\ p.phase \in Leaving \cup Between /\ p.id \in SomeIds
       /\ fate[p.again.n] = "none" /\ p.again.n <= calls /\ p.again.state = "LOADED"

\* The instances that are in nobody else's hands.
Owned(p) == (IF p.phase \in Making \cup Leaving THEN {p.entry.n} ELSE {})
              \cup ({p.again.n} \ {0})

ManagerHands ==
  /\ \A c \in Clients : InHands(place[c])
  /\ \A c, d \in Clients : c # d => Owned(place[c]) \cap Owned(place[d]) = {}

\* The table and the history of the instances.
ManagerTable ==
  /\ \A n \in Instance : n > calls => fate[n] = "none"
  /\ \A n \in Instance : fate[n] = "listed" <=> \E id \in SomeIds : plugins[id].n = n
  /\ \A n \in Instance : fate[n] = "leaving" =>
       \E c \in Clients : place[c].phase \in Leaving /\ place[c].entry.n = n
  /\ \A id, j \in SomeIds : plugins[id].n # 0 /\ plugins[id].n = plugins[j].n => id = j

\* What was started runs, is about to be marked, or was stopped.
ManagerStarts ==
  /\ \A n \in started : fate[n] \notin {"none", "loading"}
  /\ \A n \in started \ contested : fate[n] = "unloaded" => n \in stopped
  /\ \A id \in SomeIds : plugins[id].state = "RUNNING" =>
       plugins[id].n \in started \cup contested
  /\ \A id \in SomeIds : plugins[id].n \in started \ contested =>
       \/ plugins[id].state = "RUNNING"
       \/ \E c \in Clients : place[c].phase = "mark" /\ place[c].entry.n = plugins[id].n

ManagerInv == ManagerTypes /\ ManagerHands /\ ManagerTable /\ ManagerStarts

\* Instances that no other client than c has in its hands.
Free(c, n) == \/ n \in Owned(place[c]) \/ n > calls
              \/ fate[n] \notin {"none", "loading", "leaving"}

\* The invariant holds of a new manager.
LEMMA ManagerInit == Manager!Init => ManagerInv
  <1> SUFFICES ASSUME Manager!Init PROVE ManagerInv
    OBVIOUS
  <1> USE CallersAssumption, PluginsAssumption
  <1> DEFINE idle == [phase |-> "idle", id |-> "NONE", entry |-> NoEntry, todo |-> {},
                      again |-> NoEntry]
  <1>1. /\ calls = 0 /\ now = 1 /\ plugins = [id \in SomeIds |-> NoEntry]
        /\ pluginsMutex = "NONE" /\ statsMutex = "NONE"
        /\ place = [c \in Clients |-> idle]
        /\ started = {} /\ stopped = {} /\ contested = {}
        /\ fate = [n \in Instance |-> "none"] /\ broken = FALSE
    BY DEF Manager!Init, Manager!CallersInit, Manager!Idle, Manager!None, NoEntry,
           Manager!NoClient, Manager!Instances, Instance
  <1>2. idle \in Hand BY DEF Hand, Manager!Phases
  <1>3. \A c \in Clients : place[c] = idle BY <1>1
  <1>4. idle.phase = "idle" /\ idle.again = NoEntry /\ idle.again.n = 0 BY DEF NoEntry
  <1> HIDE DEF idle
  <1>5. ManagerTypes
    <2>1. place \in [Clients -> Hand] BY <1>1, <1>2
    <2>2. fate \in [Instance -> Manager!Fates] BY <1>1 DEF Manager!Fates
    <2>3. plugins \in [SomeIds -> PluginEntry \cup {NoEntry}] BY <1>1
    <2>4. calls \in 0 .. FewCalls /\ now \in 1 .. MaxTime BY <1>1
    <2>5. /\ started = {} /\ stopped = {} /\ contested = {} /\ broken = FALSE
          /\ pluginsMutex = "NONE" /\ statsMutex = "NONE"
      BY <1>1
    <2> QED BY ONLY <2>1, <2>2, <2>3, <2>4, <2>5 DEF ManagerTypes
  <1>6. ManagerHands
    <2>1. InHands(idle) BY <1>4 DEF InHands, Making, InLoad, Leaving
    <2>2. Owned(idle) = {} BY <1>4 DEF Owned, Making, Leaving
    <2> QED BY <1>3, <2>1, <2>2 DEF ManagerHands
  <1>7. ManagerTable
    <2>1. \A id \in SomeIds : plugins[id].n = 0 BY <1>1 DEF NoEntry
    <2>2. \A n \in Instance : n # 0 /\ fate[n] = "none" BY <1>1 DEF Instance
    <2> QED BY <2>1, <2>2 DEF ManagerTable
  <1>8. ManagerStarts
    <2>1. \A id \in SomeIds : plugins[id].state # "RUNNING" BY <1>1 DEF NoEntry
    <2> QED BY <1>1, <2>1 DEF ManagerStarts
  <1> QED BY <1>5, <1>6, <1>7, <1>8 DEF ManagerInv

\* Entries and hands, field by field.
LEMMA EntryFields ==
  ASSUME NEW e \in PluginEntry \cup {NoEntry}
  PROVE  /\ e # NoEntry => e \in PluginEntry /\ e.n \in Instance /\ e.n # 0
         /\ e # NoEntry => e.state \in {"LOADED", "RUNNING", "DISABLED"}
         /\ e # NoEntry => e.deps \in SUBSET SomeIds
         /\ e = NoEntry => e.n = 0 /\ e.state = "UNLOADED"
         /\ e.n \in Instance \cup {0}
  BY DEF PluginEntry, NoEntry, Instance

\* What a client can have in its hands, ...
LEMMA HandFields ==
  ASSUME NEW p \in Hand
  PROVE  /\ p.phase \in Manager!Phases /\ p.id \in SomeIds \cup {"NONE"}
         /\ p.entry \in PluginEntry \cup {NoEntry} /\ p.todo \in SUBSET SomeIds
         /\ p.again \in PluginEntry \cup {NoEntry}
  BY DEF Hand

\* ... and that an idle one has nothing.
LEMMA IdleHand ==
  /\ Manager!Idle \in Hand /\ Manager!Idle.phase = "idle" /\ Manager!Idle.id = "NONE"
  /\ Manager!Idle.entry = NoEntry /\ Manager!Idle.todo = {} /\ Manager!Idle.again = NoEntry
  /\ Manager!None = NoEntry
  BY DEF Manager!Idle, Manager!None, NoEntry, Hand, Manager!Phases

\* After a load the client counts it, with nothing in its hands.
CountHand == [Manager!Idle EXCEPT !.phase = "count"]

LEMMA CountHandFields ==
  /\ CountHand \in Hand /\ CountHand.phase = "count" /\ CountHand.again = NoEntry
  /\ CountHand.phase \notin Making \cup InLoad \cup Leaving
  <1>1. CountHand \in Hand /\ CountHand.phase = "count" /\ CountHand.again = NoEntry
    BY DEF CountHand, Manager!Idle, Manager!None, NoEntry, Hand, Manager!Phases
  <1> QED BY <1>1 DEF Making, InLoad, Leaving

\* A step of one client leaves the others where they are.
LEMMA ClientMoves ==
  ASSUME ManagerTypes, NEW c \in Clients, NEW q \in Hand, place' = [place EXCEPT ![c] = q]
  PROVE  /\ place' \in [Clients -> Hand] /\ place'[c] = q
         /\ \A d \in Clients \ {c} : place'[d] = place[d]
  BY DEF ManagerTypes

\* Instances in someone's hands exist and are being loaded or unloaded.
LEMMA OwnedFates ==
  ASSUME ManagerInv, NEW d \in Clients, NEW n \in Owned(place[d])
  PROVE  /\ n \in Instance /\ n <= calls /\ fate[n] \in {"none", "loading", "leaving"}
  <1> DEFINE p == place[d]
  <1>1. p \in Hand /\ InHands(p) /\ calls \in Nat
    BY PluginsAssumption DEF ManagerInv, ManagerTypes, ManagerHands
  <1>2. /\ p.entry \in PluginEntry \cup {NoEntry} /\ p.again \in PluginEntry \cup {NoEntry}
    BY <1>1, HandFields
  <1>3. \A m \in Instance : m > calls => fate[m] = "none"
    BY DEF ManagerInv, ManagerTable
  <1> HIDE DEF p
  <1>4. CASE p.phase \in Making \cup Leaving /\ n = p.entry.n
    <2>1. p.entry # NoEntry BY <1>1, <1>4 DEF InHands
    <2>2. n \in Instance BY <1>2, <1>4, <2>1, EntryFields
    <2>3. \/ fate[n] = "loading" \/ fate[n] = "leaving"
          \/ fate[n] = "none" /\ n <= calls
      BY <1>1, <1>4 DEF InHands, Making, Leaving
    <2> QED BY <1>1, <1>3, <2>2, <2>3, PluginsAssumption DEF Instance
  <1>5. CASE n = p.again.n /\ n # 0
    <2>1. p.again # NoEntry BY <1>2, <1>5, EntryFields
    <2>2. n \in Instance BY <1>2, <1>5, <2>1, EntryFields
    <2> QED BY <1>1, <1>5, <2>1, <2>2 DEF InHands
  <1> QED BY <1>4, <1>5 DEF Owned, p

\* What keeps the hands in order: nothing that another client owns changes its fate, ...
LEMMA ManagerHandsKept ==
  ASSUME ManagerInv, NEW c \in Clients, InHands(place[c])',
         \A d \in Clients \ {c} : place'[d] = place[d],
         \A n \in Instance : fate'[n] # fate[n] => Free(c, n),
         \A n \in Owned(place'[c]) : Free(c, n),
         \A n \in Instance : fate[n] \notin {"none", "loading"} =>
                             fate'[n] \notin {"none", "loading"},
         \A n \in Instance : n \in started' \ contested' =>
                             n \in started \ contested \/ fate[n] # "leaving",
         started \subseteq started', contested \subseteq contested',
         \A id \in SomeIds : \/ plugins'[id].n = plugins[id].n
                             \/ \A d \in Clients \ {c} :
                                  place[d].phase \in InLoad /\ place[d].entry.n = plugins[id].n
                                    => plugins[id].n \in contested',
         calls' \in {calls, calls + 1}
  PROVE  ManagerHands'
  <1>0. calls \in Nat /\ calls <= calls' BY PluginsAssumption DEF ManagerInv, ManagerTypes
  <1>1. ASSUME NEW d \in Clients \ {c}, NEW n \in Owned(place[d])
        PROVE  ~Free(c, n) /\ n \in Instance /\ n <= calls
    <2>1. /\ n \in Instance /\ n <= calls /\ fate[n] \in {"none", "loading", "leaving"}
      BY <1>1, OwnedFates
    <2>2. n \notin Owned(place[c]) BY <1>1 DEF ManagerInv, ManagerHands
    <2> QED BY <1>0, <2>1, <2>2, PluginsAssumption DEF Free, Instance
  <1>2. ASSUME NEW d \in Clients \ {c}
        PROVE  InHands(place[d])'
    <2> DEFINE p == place[d]
    <2>1. p \in Hand /\ InHands(p) BY DEF ManagerInv, ManagerTypes, ManagerHands
    <2>2. /\ p.entry \in PluginEntry \cup {NoEntry} /\ p.again \in PluginEntry \cup {NoEntry}
      BY <2>1, HandFields
    <2>3. \A n \in Owned(p) : n \in Instance /\ fate'[n] = fate[n] /\ n <= calls BY <1>1
    <2>4. p.phase \in Making \cup Leaving => p.entry.n \in Owned(p) BY DEF Owned
    <2>5. p.again # NoEntry => p.again.n \in Owned(p) BY <2>2, EntryFields DEF Owned
    <2>6. place'[d] = p OBVIOUS
    <2> HIDE DEF p
    <2>7. p.phase \in Leaving /\ p.entry.n \in started' \ contested' =>
            p.entry.n \in started \ contested
      BY <2>1, <2>3, <2>4 DEF InHands
    <2>8. p.phase \in InLoad => /\ p.entry # NoEntry /\ p.entry.n \in Instance
                                /\ p.id \in SomeIds
      BY <2>1, <2>2, EntryFields DEF InHands
    <2>9. ASSUME p.phase \in InLoad
          PROVE  p.entry.n \in contested' \/ plugins'[p.id].n = p.entry.n
      <3>1. CASE p.entry.n \in contested BY <3>1
      <3>2. CASE plugins[p.id].n = p.entry.n BY <2>8, <2>9, <3>2 DEF p
      <3> QED BY <2>1, <2>9, <3>1, <3>2 DEF InHands
    <2>10. /\ p.phase \in Making \cup InLoad =>
                /\ p.id \in SomeIds /\ p.entry # NoEntry /\ p.entry.state = "LOADED"
                /\ p.again = NoEntry
           /\ p.phase \in Leaving =>
                /\ p.id \in SomeIds /\ p.entry # NoEntry /\ fate'[p.entry.n] = "leaving"
                /\ p.entry.n \in started' \ contested' => p.entry.state = "RUNNING"
      BY <2>1, <2>3, <2>4, <2>7 DEF InHands
    <2>11. /\ p.phase = "insert" => fate'[p.entry.n] = "loading"
           /\ p.phase = "create" => fate'[p.entry.n] = "none" /\ p.entry.n <= calls'
           /\ p.phase = "mark" => p.entry.n \in started'
      <3>1. /\ p.phase = "insert" => fate'[p.entry.n] = "loading"
            /\ p.phase = "create" => fate'[p.entry.n] = "none" /\ p.entry.n <= calls
            /\ p.phase = "mark" => p.entry.n \in started'
        BY <2>1, <2>3, <2>4 DEF InHands, Making
      <3>2. p.phase = "create" => p.entry.n \in Instance BY <2>3, <2>4 DEF Making
      <3> QED BY <1>0, <3>1, <3>2, PluginsAssumption DEF Instance
    <2>12. p.phase \in InLoad => fate'[p.entry.n] \notin {"none", "loading"}
      BY <2>1, <2>8 DEF InHands
    <2>13. p.again # NoEntry =>
             /\ p.phase \in Leaving \cup Between /\ p.id \in SomeIds
             /\ fate'[p.again.n] = "none" /\ p.again.n <= calls' /\ p.again.state = "LOADED"
      <3>1. p.again # NoEntry => p.again.n \in Instance /\ p.again.n <= calls'
        BY <1>0, <2>3, <2>5, PluginsAssumption DEF Instance
      <3> QED BY <2>1, <2>3, <2>5, <3>1 DEF InHands
    <2> QED BY <2>6, <2>9, <2>10, <2>11, <2>12, <2>13 DEF InHands
  <1>3. \A d \in Clients : InHands(place[d])' BY <1>2
  <1>4. ASSUME NEW d \in Clients, NEW e \in Clients, d # e
        PROVE  Owned(place'[d]) \cap Owned(place'[e]) = {}
    <2>1. CASE d = c BY <1>1, <1>4, <2>1
    <2>2. CASE e = c BY <1>1, <1>4, <2>2
    <2>3. CASE d # c /\ e # c BY <1>4, <2>3 DEF ManagerInv, ManagerHands
    <2> QED BY <2>1, <2>2, <2>3
  <1> QED BY <1>3, <1>4 DEF ManagerHands

\* ... and what is enough when nothing but the client's place changes.
LEMMA ManagerMoves ==
  ASSUME ManagerInv, NEW c \in Clients,
         UNCHANGED <<now, plugins, started, fate, contested>>,
         calls' \in {calls, calls + 1}, calls' <= FewCalls,
         stopped \subseteq stopped', stopped' \subseteq Instance,
         pluginsMutex' \in Clients \cup {"NONE"}, statsMutex' \in Clients \cup {"NONE"},
         broken' \in BOOLEAN, place' \in [Clients -> Hand],
         \A d \in Clients \ {c} : place'[d] = place[d],
         InHands(place[c])', \A n \in Owned(place'[c]) : Free(c, n),
         place[c].phase # "mark",
         place[c].phase \in Leaving => /\ place'[c].phase \in Leaving
                                       /\ place'[c].entry = place[c].entry
  PROVE  ManagerInv'
  <1>1. ManagerTypes'
    <2>1. calls' \in 0 .. FewCalls BY PluginsAssumption DEF ManagerInv, ManagerTypes
    <2> QED BY <2>1 DEF ManagerInv, ManagerTypes
  <1>2. ManagerHands' BY ManagerHandsKept
  <1>3. ManagerTable'
    <2>1. \A n \in Instance : n > calls' => fate[n] = "none"
      <3>1. \A n \in Instance : n > calls' => n > calls
        BY PluginsAssumption DEF ManagerInv, ManagerTypes, Instance
      <3> QED BY <3>1 DEF ManagerInv, ManagerTable
    <2>2. ASSUME NEW n \in Instance, fate[n] = "leaving"
          PROVE  \E d \in Clients : place'[d].phase \in Leaving /\ place'[d].entry.n = n
      <3>1. PICK d \in Clients : place[d].phase \in Leaving /\ place[d].entry.n = n
        BY <2>2 DEF ManagerInv, ManagerTable
      <3> QED BY <3>1
    <2> QED BY <2>1, <2>2 DEF ManagerInv, ManagerTable
  <1>4. ManagerStarts'
    <2>1. ASSUME NEW id \in SomeIds, plugins[id].n \in started \ contested
          PROVE  \/ plugins[id].state = "RUNNING"
                 \/ \E d \in Clients : /\ place'[d].phase = "mark"
                                       /\ place'[d].entry.n = plugins[id].n
      <3>1. ASSUME NEW d \in Clients, place[d].phase = "mark",
                   place[d].entry.n = plugins[id].n
            PROVE  place'[d].phase = "mark" /\ place'[d].entry.n = plugins[id].n
        BY <3>1
      <3> QED BY <2>1, <3>1 DEF ManagerInv, ManagerStarts
    <2> QED BY <2>1 DEF ManagerInv, ManagerStarts
  <1> QED BY <1>1, <1>2, <1>3, <1>4 DEF ManagerInv

\* How a call begins and goes on.
LEMMA ManagerBegins ==
  ASSUME ManagerInv, NEW c \in Clients, Manager!Begins(c)
  PROVE  /\ calls' = calls + 1 /\ calls' \in 1 .. FewCalls /\ now' = now /\ calls \in Nat
         /\ place[c].phase = "idle" /\ place[c].entry = NoEntry /\ place[c].again = NoEntry
         /\ place[c].todo = {} /\ place[c].id = "NONE" /\ Owned(place[c]) = {}
  <1>1. /\ calls' = calls + 1 /\ calls < FewCalls /\ now' = now
        /\ place[c] = [phase |-> "idle", id |-> "NONE", entry |-> NoEntry, todo |-> {},
                       again |-> NoEntry]
    BY DEF Manager!Begins, Manager!Called, Manager!Idle, Manager!None, NoEntry
  <1>2. calls \in Nat BY PluginsAssumption DEF ManagerInv, ManagerTypes
  <1>3. /\ place[c].phase = "idle" /\ place[c].entry = NoEntry /\ place[c].again = NoEntry
        /\ place[c].todo = {} /\ place[c].id = "NONE"
    BY <1>1
  <1>4. Owned(place[c]) = {}
    <2>1. place[c].again.n = 0 BY <1>3 DEF NoEntry
    <2> QED BY <1>3, <2>1 DEF Owned, Making, Leaving
  <1>5. calls' \in 1 .. FewCalls BY <1>1, <1>2, PluginsAssumption
  <1> QED BY <1>1, <1>2, <1>3, <1>4, <1>5

\* What a client in the middle of a call has.
LEMMA ManagerAt ==
  ASSUME ManagerInv, NEW c \in Clients, NEW phase, Manager!At(c, phase)
  PROVE  /\ UNCHANGED <<calls, now>> /\ place[c].phase = phase /\ ~broken
         /\ place[c] \in Hand /\ InHands(place[c])
  BY DEF Manager!At, Manager!Alive, ManagerInv, ManagerTypes, ManagerHands

\* Where a client goes with an unload: to the next identifier, to the load of a reload, home.
LEMMA ManagerProceeds ==
  ASSUME ManagerInv, NEW c \in Clients, place[c].phase \in Leaving \cup Between,
         NEW left \in SUBSET SomeIds, Manager!Proceeds(c, left)
  PROVE  /\ place' \in [Clients -> Hand] /\ \A d \in Clients \ {c} : place'[d] = place[d]
         /\ place'[c].phase \in {"take", "create", "idle"}
         /\ place'[c].phase = "take" => place'[c].again = place[c].again
         /\ place'[c].phase # "take" => place'[c].again = NoEntry
         /\ place'[c].phase = "take" => place'[c].id = place[c].id
         /\ place'[c].phase = "create" => /\ place[c].again # NoEntry
                                          /\ place'[c].id = place[c].id
                                          /\ place'[c].entry = place[c].again
         /\ Owned(place'[c]) \subseteq Owned(place[c])
         /\ place[c].phase \in Leaving => place[c].entry.n \notin Owned(place'[c])
  <1> DEFINE p == place[c]
  <1>1. p \in Hand /\ InHands(p) BY DEF ManagerInv, ManagerTypes, ManagerHands
  <1>2. /\ p.phase \in Manager!Phases /\ p.id \in SomeIds \cup {"NONE"}
        /\ p.entry \in PluginEntry \cup {NoEntry} /\ p.todo \in SUBSET SomeIds
        /\ p.again \in PluginEntry \cup {NoEntry}
    BY <1>1, HandFields
  <1> DEFINE q == IF left # {} THEN [p EXCEPT !.phase = "take", !.entry = NoEntry,
                                              !.todo = left]
                  ELSE IF p.again # NoEntry
                       THEN [Manager!Idle EXCEPT !.phase = "create", !.id = p.id,
                                                 !.entry = p.again]
                       ELSE Manager!Idle
  <1>3. place' = [place EXCEPT ![c] = q]
    <2>1. Manager!None = NoEntry BY DEF Manager!None, NoEntry
    <2> QED BY <2>1 DEF Manager!Proceeds
  <1>4. /\ q \in Hand
        /\ q.phase = IF left # {} THEN "take" ELSE IF p.again # NoEntry THEN "create" ELSE "idle"
        /\ q.id = IF left # {} \/ p.again # NoEntry THEN p.id ELSE "NONE"
        /\ q.entry = IF left # {} \/ p.again = NoEntry THEN NoEntry ELSE p.again
        /\ q.again = IF left # {} THEN p.again ELSE NoEntry
    <2>1. "take" \in Manager!Phases /\ "create" \in Manager!Phases
      BY DEF Manager!Phases
    <2> HIDE DEF p
    <2>2. CASE left # {}
      <3>1. q = [p EXCEPT !.phase = "take", !.entry = NoEntry, !.todo = left] BY <2>2
      <3> HIDE DEF q
      <3>2. /\ q \in Hand /\ q.phase = "take" /\ q.id = p.id /\ q.entry = NoEntry
            /\ q.again = p.again
        BY <1>1, <2>1, <3>1 DEF Hand
      <3> QED BY <2>2, <3>2
    <2>3. CASE left = {} /\ p.again # NoEntry
      <3>1. q = [Manager!Idle EXCEPT !.phase = "create", !.id = p.id, !.entry = p.again]
        BY <2>3
      <3> HIDE DEF q
      <3>2. /\ q \in Hand /\ q.phase = "create" /\ q.id = p.id /\ q.entry = p.again
            /\ q.again = NoEntry
        BY <1>2, <2>1, <3>1, IdleHand DEF Hand
      <3> QED BY <2>3, <3>2
    <2>4. CASE left = {} /\ p.again = NoEntry BY <2>4, IdleHand
    <2> QED BY <2>2, <2>3, <2>4
  <1> HIDE DEF q
  <1>5. /\ place' \in [Clients -> Hand] /\ place'[c] = q
        /\ \A d \in Clients \ {c} : place'[d] = place[d]
    BY <1>3, <1>4, ClientMoves DEF ManagerInv
  <1>6. NoEntry.n = 0 BY DEF NoEntry
  <1>7. p.again # NoEntry => p.again.n # 0 BY <1>2, EntryFields
  <1>8. Owned(q) \subseteq {p.again.n} \ {0}
    <2>1. CASE left # {} BY <1>4, <2>1 DEF Owned, Making, Leaving
    <2>2. CASE left = {} /\ p.again # NoEntry
      <3>1. q.entry = p.again /\ q.again = NoEntry BY <1>4, <2>2
      <3> QED BY <1>6, <1>7, <2>2, <3>1 DEF Owned
    <2>3. CASE left = {} /\ p.again = NoEntry
      <3>1. q.phase = "idle" /\ q.again = NoEntry BY <1>4, <2>3
      <3> QED BY <1>6, <3>1 DEF Owned, Making, Leaving
    <2> QED BY <2>1, <2>2, <2>3
  <1>9. Owned(q) \subseteq Owned(p) BY <1>8 DEF Owned
  <1>10. p.phase \in Leaving => p.entry.n \notin Owned(q)
    <2> SUFFICES ASSUME p.phase \in Leaving, p.entry.n = p.again.n, p.again.n # 0
                 PROVE  FALSE
      BY <1>8
    <2>1. p.again # NoEntry BY <1>6
    <2> QED BY <1>1, <2>1 DEF InHands
  <1> QED BY <1>4, <1>5, <1>9, <1>10

\* After that the client has in hand what it had, or less.
LEMMA ManagerProceedsInHands ==
  ASSUME ManagerInv, NEW c \in Clients, place[c].phase \in Leaving \cup Between,
         NEW left \in SUBSET SomeIds, Manager!Proceeds(c, left),
         place[c].again # NoEntry => fate'[place[c].again.n] = fate[place[c].again.n],
         calls' = calls
  PROVE  InHands(place[c])'
  <1> DEFINE p == place[c]
  <1>1. p \in Hand /\ InHands(p) BY DEF ManagerInv, ManagerTypes, ManagerHands
  <1>2. p.again # NoEntry => /\ fate'[p.again.n] = "none" /\ p.again.n <= calls'
                             /\ p.again.state = "LOADED" /\ p.id \in SomeIds
    BY <1>1 DEF InHands
  <1> DEFINE q == place'[c]
  <1>3. /\ q.phase \in {"take", "create", "idle"}
        /\ q.phase = "take" => q.again = p.again
        /\ q.phase # "take" => q.again = NoEntry
        /\ q.phase = "take" => q.id = p.id
        /\ q.phase = "create" => p.again # NoEntry /\ q.id = p.id /\ q.entry = p.again
    BY ManagerProceeds
  <1> HIDE DEF p
  <1>4. /\ q.phase \notin InLoad /\ q.phase \notin Leaving /\ q.phase # "insert"
        /\ q.phase # "mark" /\ (q.phase \in Making => q.phase = "create")
    BY <1>3 DEF Making, InLoad, Leaving
  <1>5. q.again # NoEntry => q.phase = "take" /\ q.again = p.again /\ q.id = p.id BY <1>3
  <1> HIDE DEF q
  <1>6. /\ q.phase = "create" => /\ q.id \in SomeIds /\ q.entry # NoEntry
                                 /\ q.entry.state = "LOADED" /\ q.again = NoEntry
                                 /\ fate'[q.entry.n] = "none" /\ q.entry.n <= calls'
        /\ q.again # NoEntry => /\ q.phase = "take" /\ q.id \in SomeIds
                                /\ fate'[q.again.n] = "none" /\ q.again.n <= calls'
                                /\ q.again.state = "LOADED"
    BY <1>2, <1>3, <1>5
  <1>7. "take" \in Between BY DEF Between
  <1> QED BY <1>4, <1>6, <1>7 DEF InHands, q

\* Between the end of an unloaded plugin and its statistic the client has what a reload
\* keeps, ...
LEMMA ManagerCounts ==
  ASSUME ManagerInv, NEW c \in Clients, place[c].phase \in Leaving, Manager!CountsUnload(c)
  PROVE  /\ place' \in [Clients -> Hand] /\ \A d \in Clients \ {c} : place'[d] = place[d]
         /\ place'[c].phase = "count" /\ place'[c].id = place[c].id
         /\ place'[c].again = place[c].again
         /\ Owned(place'[c]) \subseteq Owned(place[c])
         /\ place[c].entry.n \notin Owned(place'[c])
  <1> DEFINE p == place[c]
             q == [p EXCEPT !.phase = "count", !.entry = NoEntry]
  <1>1. p \in Hand /\ InHands(p) BY DEF ManagerInv, ManagerTypes, ManagerHands
  <1>2. place' = [place EXCEPT ![c] = q] BY IdleHand DEF Manager!CountsUnload
  <1>3. /\ q \in Hand /\ q.phase = "count" /\ q.id = p.id /\ q.again = p.again
    BY <1>1 DEF Hand, Manager!Phases
  <1> HIDE DEF q
  <1>4. /\ place' \in [Clients -> Hand] /\ place'[c] = q
        /\ \A d \in Clients \ {c} : place'[d] = place[d]
    BY <1>2, <1>3, ClientMoves DEF ManagerInv
  <1>5. Owned(q) = {p.again.n} \ {0} BY <1>3 DEF Owned, Making, Leaving
  <1>6. p.entry.n \notin Owned(q)
    <2> SUFFICES ASSUME p.entry.n = p.again.n, p.again.n # 0 PROVE FALSE
      BY <1>5
    <2>1. p.again # NoEntry BY DEF NoEntry
    <2> QED BY <1>1, <2>1 DEF InHands
  <1>7. Owned(q) \subseteq Owned(p) BY <1>5 DEF Owned
  <1> QED BY <1>3, <1>4, <1>6, <1>7

\* ... and that in order.
LEMMA ManagerCountsInHands ==
  ASSUME ManagerInv, NEW c \in Clients, place[c].phase \in Leaving, Manager!CountsUnload(c),
         place[c].again # NoEntry => fate'[place[c].again.n] = fate[place[c].again.n],
         calls' = calls
  PROVE  InHands(place[c])'
  <1> DEFINE p == place[c]
             q == place'[c]
  <1>1. InHands(p) BY DEF ManagerInv, ManagerHands
  <1>2. p.again # NoEntry => /\ fate'[p.again.n] = "none" /\ p.again.n <= calls'
                             /\ p.again.state = "LOADED" /\ p.id \in SomeIds
    BY <1>1 DEF InHands
  <1>3. q.phase = "count" /\ q.id = p.id /\ q.again = p.again BY ManagerCounts
  <1> HIDE DEF p, q
  <1>4. /\ q.phase \notin Making \cup InLoad /\ q.phase \notin Leaving /\ q.phase # "insert"
        /\ q.phase # "create" /\ q.phase \notin InLoad /\ q.phase # "mark"
        /\ q.phase \in Between
    BY <1>3 DEF Making, InLoad, Leaving, Between
  <1>5. q.again # NoEntry => /\ q.phase \in Leaving \cup Between /\ q.id \in SomeIds
                             /\ fate'[q.again.n] = "none" /\ q.again.n <= calls'
                             /\ q.again.state = "LOADED"
    BY <1>2, <1>3, <1>4
  <1> QED BY <1>4, <1>5 DEF InHands, q

\* A client outside of a load or an unload owns nothing.
LEMMA EmptyHands ==
  ASSUME NEW c, place'[c].phase \notin Making \cup InLoad \cup Leaving,
         place'[c].again = NoEntry
  PROVE  Owned(place'[c]) = {} /\ InHands(place[c])'
  <1>1. place'[c].again.n = 0 BY DEF NoEntry
  <1> QED BY <1>1 DEF Owned, InHands, Making, InLoad, Leaving

\* A call that begins, or ends, with nothing in its hands.
LEMMA ManagerEmptyHanded ==
  ASSUME ManagerInv, NEW c \in Clients, NEW q \in Hand, place' = [place EXCEPT ![c] = q],
         q.phase \notin Making \cup InLoad \cup Leaving, q.again = NoEntry,
         UNCHANGED <<now, plugins, started, fate, contested>>,
         calls' \in {calls, calls + 1}, calls' <= FewCalls,
         stopped \subseteq stopped', stopped' \subseteq Instance,
         pluginsMutex' \in Clients \cup {"NONE"}, statsMutex' \in Clients \cup {"NONE"},
         broken' \in BOOLEAN, place[c].phase # "mark", place[c].phase \notin Leaving
  PROVE  ManagerInv'
  <1>1. /\ place' \in [Clients -> Hand] /\ place'[c] = q
        /\ \A d \in Clients \ {c} : place'[d] = place[d]
    BY ClientMoves DEF ManagerInv
  <1>2. Owned(place'[c]) = {} /\ InHands(place[c])' BY <1>1, EmptyHands
  <1> QED BY <1>1, <1>2, ManagerMoves

\* unloadPlugin(), unloadAllPlugins() and shutdown() begin, ...
LEMMA ManagerUnload ==
  ASSUME ManagerInv, NEW c \in Clients, NEW ids \in SUBSET SomeIds, Manager!Unload(c, ids)
  PROVE  ManagerInv'
  <1> DEFINE q == [Manager!Idle EXCEPT !.phase = "take", !.todo = ids]
  <1>1. /\ Manager!Begins(c) /\ place' = [place EXCEPT ![c] = q]
        /\ UNCHANGED <<plugins, pluginsMutex, statsMutex, started, stopped, fate, contested,
                       broken>>
    BY DEF Manager!Unload, Manager!history
  <1>2. /\ q \in Hand /\ q.phase = "take" /\ q.again = NoEntry
    BY IdleHand DEF Hand, Manager!Phases
  <1> HIDE DEF q
  <1>3. /\ calls' = calls + 1 /\ calls' \in 1 .. FewCalls /\ now' = now
        /\ place[c].phase = "idle"
    BY <1>1, ManagerBegins
  <1>4. /\ q.phase \notin Making \cup InLoad \cup Leaving
        /\ place[c].phase # "mark" /\ place[c].phase \notin Leaving
    BY <1>2, <1>3 DEF Making, InLoad, Leaving
  <1>5. /\ stopped' \subseteq Instance /\ broken' \in BOOLEAN /\ calls' <= FewCalls
        /\ pluginsMutex' \in Clients \cup {"NONE"} /\ statsMutex' \in Clients \cup {"NONE"}
    BY <1>1, <1>3, PluginsAssumption DEF ManagerInv, ManagerTypes
  <1> QED BY <1>1, <1>2, <1>3, <1>4, <1>5, ManagerEmptyHanded

\* ... calls take the mutexes, ...
LEMMA ManagerLocks ==
  ASSUME ManagerInv, NEW c \in Clients,
         \/ Manager!StartAllPlugins(c) \/ Manager!StopAllPlugins(c)
         \/ Manager!GetStatistics(c) \/ Manager!GetAllPluginInfo(c)
  PROVE  ManagerInv'
  <1>1. PICK phase \in {"runningCount", "stats", "allInfo"} :
          /\ Manager!Begins(c) /\ place' = [place EXCEPT ![c].phase = phase]
          /\ pluginsMutex' \in {pluginsMutex, c} /\ statsMutex' \in {statsMutex, c}
          /\ UNCHANGED <<plugins, started, fate, contested, broken>>
          /\ stopped' \in {stopped, stopped \cup
                 {plugins[id].n : id \in {i \in Manager!Listed : plugins[i].state = "RUNNING"}}}
    BY DEF Manager!StartAllPlugins, Manager!StopAllPlugins, Manager!GetStatistics,
           Manager!GetAllPluginInfo, Manager!Goes, Manager!history
  <1>2. /\ calls' = calls + 1 /\ calls' \in 1 .. FewCalls /\ now' = now
        /\ place[c].phase = "idle" /\ place[c].again = NoEntry
    BY <1>1, ManagerBegins
  <1>3. /\ place' \in [Clients -> Hand] /\ place'[c].phase = phase
        /\ place'[c].again = NoEntry /\ \A d \in Clients \ {c} : place'[d] = place[d]
    <2>1. phase \in Manager!Phases BY DEF Manager!Phases
    <2> QED BY <1>1, <1>2, <2>1 DEF ManagerInv, ManagerTypes, Hand
  <1>4. Owned(place'[c]) = {} /\ InHands(place[c])'
    <2>1. phase \notin Making \cup InLoad \cup Leaving BY DEF Making, InLoad, Leaving
    <2> QED BY <1>3, <2>1, EmptyHands
  <1>5. stopped \subseteq stopped' /\ stopped' \subseteq Instance
    <2>1. \A id \in Manager!Listed : plugins[id].n \in Instance
      <3>1. \A id \in Manager!Listed : id \in SomeIds /\ plugins[id] # NoEntry
        BY IdleHand DEF Manager!Listed
      <3> QED BY <3>1, EntryFields DEF ManagerInv, ManagerTypes
    <2> QED BY <1>1, <2>1 DEF ManagerInv, ManagerTypes
  <1>6. /\ calls' <= FewCalls /\ broken' \in BOOLEAN
        /\ pluginsMutex' \in Clients \cup {"NONE"} /\ statsMutex' \in Clients \cup {"NONE"}
    BY <1>1, <1>2, PluginsAssumption DEF ManagerInv, ManagerTypes
  <1>7. place[c].phase # "mark" /\ place[c].phase \notin Leaving BY <1>2 DEF Leaving
  <1> QED BY <1>1, <1>2, <1>3, <1>4, <1>5, <1>6, <1>7, ManagerMoves

\* ... and give them back.
LEMMA ManagerUnlocks ==
  ASSUME ManagerInv, NEW c \in Clients, Manager!RunningCount(c) \/ Manager!Statistics(c)
  PROVE  ManagerInv'
  <1>1. PICK phase \in {"runningCount", "stats"} :
          /\ Manager!At(c, phase) /\ place' = [place EXCEPT ![c] = Manager!Idle]
          /\ pluginsMutex' \in {pluginsMutex, "NONE"} /\ statsMutex' \in {statsMutex, "NONE"}
          /\ UNCHANGED <<plugins, started, stopped, fate, contested, broken>>
    BY DEF Manager!RunningCount, Manager!Statistics, Manager!history, Manager!NoClient
  <1>2. UNCHANGED <<calls, now>> /\ place[c].phase = phase BY <1>1, ManagerAt
  <1>3. /\ calls' <= FewCalls /\ broken' \in BOOLEAN /\ stopped' \subseteq Instance
        /\ pluginsMutex' \in Clients \cup {"NONE"} /\ statsMutex' \in Clients \cup {"NONE"}
    BY <1>1, <1>2, PluginsAssumption DEF ManagerInv, ManagerTypes
  <1>4. /\ Manager!Idle.phase \notin Making \cup InLoad \cup Leaving
        /\ place[c].phase # "mark" /\ place[c].phase \notin Leaving
    BY <1>2, IdleHand DEF Making, InLoad, Leaving
  <1> QED BY <1>1, <1>2, <1>3, <1>4, IdleHand, ManagerEmptyHanded

\* reloadPlugin() remembers the entry and unloads it.
LEMMA ManagerReload ==
  ASSUME ManagerInv, NEW c \in Clients, NEW id \in SomeIds, Manager!Reload(c, id)
  PROVE  ManagerInv'
  <1> DEFINE again == [n |-> calls', state |-> "LOADED", deps |-> plugins[id].deps]
             q == [Manager!Idle EXCEPT !.phase = "take", !.id = id, !.todo = {id},
                                       !.again = again]
  <1>1. /\ Manager!Begins(c) /\ plugins[id] # NoEntry /\ place' = [place EXCEPT ![c] = q]
        /\ UNCHANGED <<plugins, pluginsMutex, statsMutex, started, stopped, fate, contested,
                       broken>>
    BY IdleHand DEF Manager!Reload, Manager!Uncontended, Manager!Loaded, Manager!history
  <1>2. /\ calls' = calls + 1 /\ calls' \in 1 .. FewCalls /\ now' = now /\ calls \in Nat
        /\ place[c].phase = "idle"
    BY <1>1, ManagerBegins
  <1>3. /\ again \in PluginEntry /\ again.n = calls' /\ again.state = "LOADED"
        /\ again # NoEntry
    <2>1. plugins[id].deps \in SUBSET SomeIds
      BY <1>1, EntryFields DEF ManagerInv, ManagerTypes
    <2>2. again \in PluginEntry BY <1>2, <2>1 DEF PluginEntry, Instance
    <2>3. again.n # 0 BY <1>2
    <2> QED BY <2>2, <2>3 DEF NoEntry
  <1> HIDE DEF again
  <1>4. /\ q \in Hand /\ q.phase = "take" /\ q.again = again /\ q.id = id
    BY <1>3, IdleHand DEF Hand, Manager!Phases
  <1> HIDE DEF q
  <1>5. /\ place' \in [Clients -> Hand] /\ place'[c] = q
        /\ \A d \in Clients \ {c} : place'[d] = place[d]
    BY <1>1, <1>4, ClientMoves DEF ManagerInv
  <1>6. fate[calls'] = "none"
    <2>1. calls' \in Instance /\ calls' > calls BY <1>2 DEF Instance
    <2> QED BY <2>1 DEF ManagerInv, ManagerTable
  <1>7. InHands(place[c])'
    <2>1. fate'[again.n] = "none" /\ again.n <= calls' BY <1>1, <1>2, <1>3, <1>6
    <2>2. /\ q.phase \notin Making \cup InLoad /\ q.phase \notin Leaving
          /\ q.phase \notin {"insert", "create", "mark"} /\ q.phase \in Between
      BY <1>4 DEF Making, InLoad, Leaving, Between
    <2>3. q.phase \notin InLoad BY <2>2
    <2> QED BY <1>3, <1>4, <1>5, <2>1, <2>2, <2>3 DEF InHands
  <1>8. \A n \in Owned(place'[c]) : Free(c, n)
    <2>1. q.phase \notin Making \cup Leaving BY <1>4 DEF Making, Leaving
    <2>2. Owned(q) \subseteq {calls'} BY <1>3, <1>4, <2>1 DEF Owned
    <2>3. calls' > calls BY <1>2
    <2> QED BY <1>5, <2>2, <2>3 DEF Free
  <1>9. /\ stopped' \subseteq Instance /\ broken' \in BOOLEAN /\ calls' <= FewCalls
        /\ pluginsMutex' \in Clients \cup {"NONE"} /\ statsMutex' \in Clients \cup {"NONE"}
    BY <1>1, <1>2, PluginsAssumption DEF ManagerInv, ManagerTypes
  <1>10. place[c].phase # "mark" /\ place[c].phase \notin Leaving BY <1>2 DEF Leaving
  <1> QED BY <1>1, <1>2, <1>5, <1>7, <1>8, <1>9, <1>10, ManagerMoves

\* A hook of the plugin comes back.
LEMMA ManagerPluginCalled ==
  ASSUME ManagerInv, NEW c \in Clients, Manager!PluginCalled(c)
  PROVE  ManagerInv'
  <1> DEFINE p == place[c]
             q == [Manager!Idle EXCEPT !.phase = "take", !.todo = {p.id}]
  <1>1. PICK phase \in {"onLoad", "onInitialize"} :
          /\ Manager!At(c, phase) /\ broken' \in BOOLEAN
          /\ \/ \E next \in {"onInitialize", "onStart"} :
                  place' = [place EXCEPT ![c].phase = next]
             \/ place' = [place EXCEPT ![c] = q]
          /\ UNCHANGED <<plugins, pluginsMutex, statsMutex, started, stopped, fate, contested>>
    BY DEF Manager!PluginCalled, Manager!Goes, Manager!history
  <1>2. /\ UNCHANGED <<calls, now>> /\ p.phase = phase /\ p \in Hand /\ InHands(p)
    BY <1>1, ManagerAt
  <1>3. /\ calls' <= FewCalls /\ stopped' \subseteq Instance
        /\ pluginsMutex' \in Clients \cup {"NONE"} /\ statsMutex' \in Clients \cup {"NONE"}
    BY <1>1, <1>2, PluginsAssumption DEF ManagerInv, ManagerTypes
  <1>4. p.phase # "mark" /\ p.phase \notin Leaving /\ p.phase \in InLoad
    BY <1>2 DEF InLoad, Leaving
  <1>5. p.id \in SomeIds /\ p.entry # NoEntry /\ p.again = NoEntry BY <1>2, <1>4 DEF InHands
  <1>6. CASE place' = [place EXCEPT ![c] = q]
    <2>1. q \in Hand /\ q.phase = "take" /\ q.again = NoEntry
      BY <1>5, IdleHand DEF Hand, Manager!Phases
    <2> HIDE DEF q
    <2>2. q.phase \notin Making \cup InLoad \cup Leaving BY <2>1 DEF Making, InLoad, Leaving
    <2> QED BY <1>1, <1>2, <1>3, <1>4, <1>6, <2>1, <2>2, ManagerEmptyHanded
  <1>7. ASSUME NEW next \in {"onInitialize", "onStart"},
               place' = [place EXCEPT ![c].phase = next]
        PROVE  ManagerInv'
    <2>1. /\ place' \in [Clients -> Hand] /\ place'[c].phase = next
          /\ place'[c].id = p.id /\ place'[c].entry = p.entry /\ place'[c].again = p.again
          /\ \A d \in Clients \ {c} : place'[d] = place[d]
      <3>1. next \in Manager!Phases BY DEF Manager!Phases
      <3> QED BY <1>7, <3>1 DEF ManagerInv, ManagerTypes, Hand
    <2>2. Owned(place'[c]) = {}
      <3>1. next \notin Making \cup Leaving BY DEF Making, Leaving
      <3>2. place'[c].again.n = 0 BY <1>5, <2>1 DEF NoEntry
      <3> QED BY <2>1, <3>1, <3>2 DEF Owned
    <2>3. InHands(place[c])'
      <3>1. next \in InLoad /\ next \notin Leaving /\ next \notin {"insert", "create", "mark"}
        BY DEF InLoad, Leaving
      <3>2. /\ p.id \in SomeIds /\ p.entry # NoEntry /\ p.entry.state = "LOADED"
            /\ fate[p.entry.n] \notin {"none", "loading"}
            /\ p.entry.n \in contested \/ plugins[p.id].n = p.entry.n
        BY <1>2, <1>4 DEF InHands
      <3> QED BY <1>1, <1>5, <2>1, <3>1, <3>2 DEF InHands
    <2> QED BY <1>1, <1>2, <1>3, <1>4, <2>1, <2>2, <2>3, ManagerMoves
  <1> QED BY <1>1, <1>6, <1>7

\* The table when no listed instance comes or goes, and the client's own changes its fate.
LEMMA ManagerCreated ==
  ASSUME ManagerInv, NEW c \in Clients, NEW id \in SomeIds, NEW entry \in PluginEntry,
         entry.state = "LOADED", fate[entry.n] = "none", entry.n <= calls', Free(c, entry.n),
         UNCHANGED <<now, plugins, pluginsMutex, statsMutex, started, stopped, contested>>,
         calls' \in {calls, calls + 1}, calls' <= FewCalls, broken' \in BOOLEAN,
         place[c].phase \in {"idle", "create"},
         \/ /\ place' = [place EXCEPT ![c] = [Manager!Idle EXCEPT !.phase = "insert", !.id = id,
                                                                   !.entry = entry]]
            /\ fate' = [fate EXCEPT ![entry.n] = "loading"]
         \/ /\ place' = [place EXCEPT ![c] = Manager!Idle]
            /\ fate' = [fate EXCEPT ![entry.n] = "rejected"]
  PROVE  ManagerInv'
  <1> DEFINE q == [Manager!Idle EXCEPT !.phase = "insert", !.id = id, !.entry = entry]
             n == entry.n
  <1>1. n \in Instance /\ entry # NoEntry
    BY EntryFields DEF PluginEntry, NoEntry
  <1>2. /\ q \in Hand /\ q.phase = "insert" /\ q.id = id /\ q.entry = entry
        /\ q.again = NoEntry
    BY IdleHand DEF Hand, Manager!Phases
  <1> HIDE DEF q
  <1>3. /\ place' \in [Clients -> Hand] /\ place'[c] \in {q, Manager!Idle}
        /\ \A d \in Clients \ {c} : place'[d] = place[d]
        /\ place'[c] = q => fate'[n] = "loading"
    <2>1. CASE place' = [place EXCEPT ![c] = q] /\ fate' = [fate EXCEPT ![n] = "loading"]
      <3>1. /\ place' \in [Clients -> Hand] /\ place'[c] = q
            /\ \A d \in Clients \ {c} : place'[d] = place[d]
        BY <1>2, <2>1, ClientMoves DEF ManagerInv
      <3> QED BY <1>1, <2>1, <3>1 DEF ManagerInv, ManagerTypes
    <2>2. CASE place' = [place EXCEPT ![c] = Manager!Idle]
      <3>1. /\ place' \in [Clients -> Hand] /\ place'[c] = Manager!Idle
            /\ \A d \in Clients \ {c} : place'[d] = place[d]
        BY <2>2, IdleHand, ClientMoves DEF ManagerInv
      <3> QED BY <1>2, <3>1, IdleHand
    <2> QED BY <2>1, <2>2 DEF q, n
  <1>4. /\ fate' \in [Instance -> Manager!Fates] /\ fate'[n] \in {"loading", "rejected"}
        /\ \A m \in Instance : m # n => fate'[m] = fate[m]
    BY <1>1 DEF ManagerInv, ManagerTypes, Manager!Fates
  <1> HIDE DEF n
  <1>5. calls \in Nat /\ calls' \in 0 .. FewCalls
    BY PluginsAssumption DEF ManagerInv, ManagerTypes
  <1>6. ManagerTypes' BY <1>3, <1>4, <1>5 DEF ManagerInv, ManagerTypes
  <1>7. InHands(place[c])' /\ Owned(place'[c]) \subseteq {n}
    <2>1. CASE place'[c] = q
      <3>1. q.phase \notin Leaving /\ q.phase \notin InLoad BY <1>2 DEF InLoad, Leaving
      <3>2. q.again.n = 0 BY <1>2 DEF NoEntry
      <3>3. InHands(place[c])' BY <1>1, <1>2, <1>3, <2>1, <3>1 DEF InHands, n
      <3>4. Owned(q) \subseteq {n} BY <1>2, <3>2 DEF Owned, n
      <3> QED BY <2>1, <3>3, <3>4
    <2>2. CASE place'[c] = Manager!Idle
      <3>1. Manager!Idle.phase \notin Making \cup InLoad \cup Leaving
        BY IdleHand DEF Making, InLoad, Leaving
      <3> QED BY <2>2, <3>1, IdleHand, EmptyHands
    <2> QED BY <1>3, <2>1, <2>2
  <1>8. ManagerHands'
    <2>1. \A m \in Instance : fate'[m] # fate[m] => Free(c, m) BY <1>4 DEF n
    <2>2. \A m \in Owned(place'[c]) : Free(c, m) BY <1>7 DEF n
    <2>3. \A m \in Instance : fate[m] \notin {"none", "loading"} =>
                              fate'[m] \notin {"none", "loading"}
      BY <1>4 DEF n
    <2> QED BY <1>3, <1>7, <2>1, <2>2, <2>3, ManagerHandsKept
  <1>9. \A id2 \in SomeIds : plugins[id2].n # n
    <2>1. fate[n] # "listed" BY DEF n
    <2> QED BY <1>1, <2>1 DEF ManagerInv, ManagerTable
  <1>10. ManagerTable'
    <2>1. \A m \in Instance : m > calls' => fate'[m] = "none"
      <3>1. \A m \in Instance : m > calls' => m > calls /\ m # n
        BY <1>5 DEF Instance, n
      <3> QED BY <1>4, <3>1 DEF ManagerInv, ManagerTable
    <2>2. \A m \in Instance : fate'[m] = "listed" <=> \E id2 \in SomeIds : plugins[id2].n = m
      BY <1>4, <1>9 DEF ManagerInv, ManagerTable
    <2>3. ASSUME NEW m \in Instance, fate'[m] = "leaving"
          PROVE  \E d \in Clients : place'[d].phase \in Leaving /\ place'[d].entry.n = m
      <3>1. fate[m] = "leaving" BY <1>4, <2>3
      <3>2. PICK d \in Clients : place[d].phase \in Leaving /\ place[d].entry.n = m
        BY <3>1 DEF ManagerInv, ManagerTable
      <3>3. d # c BY <3>2 DEF Leaving
      <3> QED BY <1>3, <3>2, <3>3
    <2> QED BY <2>1, <2>2, <2>3 DEF ManagerInv, ManagerTable
  <1>11. ManagerStarts'
    <2>1. \A m \in started : m \in Instance /\ m # n
      BY DEF ManagerInv, ManagerTypes, ManagerStarts, n
    <2>2. ASSUME NEW id2 \in SomeIds, plugins[id2].n \in started \ contested
          PROVE  \/ plugins[id2].state = "RUNNING"
                 \/ \E d \in Clients : /\ place'[d].phase = "mark"
                                       /\ place'[d].entry.n = plugins[id2].n
      <3>1. ASSUME NEW d \in Clients, place[d].phase = "mark",
                   place[d].entry.n = plugins[id2].n
            PROVE  place'[d].phase = "mark" /\ place'[d].entry.n = plugins[id2].n
        BY <1>3, <3>1
      <3> QED BY <2>2, <3>1 DEF ManagerInv, ManagerStarts
    <2>3. \A m \in started : fate'[m] = fate[m] BY <1>4, <2>1
    <2> QED BY <2>2, <2>3 DEF ManagerInv, ManagerStarts
  <1> QED BY <1>6, <1>8, <1>10, <1>11 DEF ManagerInv

\* The instance is made in loadPlugin() and again in reloadPlugin(), ...
LEMMA ManagerLoads ==
  ASSUME ManagerInv, NEW c \in Clients,
         \/ \E id \in SomeIds, deps \in SUBSET SomeIds, required \in BOOLEAN :
              Manager!Load(c, id, deps, required)
         \/ \E required \in BOOLEAN : Manager!CreateAgain(c, required)
  PROVE  ManagerInv'
  <1>1. ASSUME NEW id \in SomeIds, NEW deps \in SUBSET SomeIds, NEW required \in BOOLEAN,
               Manager!Load(c, id, deps, required)
        PROVE  ManagerInv'
    <2> DEFINE entry == [n |-> calls', state |-> "LOADED", deps |-> deps]
    <2>1. /\ Manager!Begins(c) /\ broken' \in BOOLEAN
          /\ UNCHANGED <<plugins, pluginsMutex, statsMutex, started, stopped, contested>>
          /\ \/ /\ place' = [place EXCEPT ![c] = [Manager!Idle EXCEPT !.phase = "insert",
                                                   !.id = id, !.entry = entry]]
                /\ fate' = [fate EXCEPT ![entry.n] = "loading"]
             \/ /\ place' = [place EXCEPT ![c] = Manager!Idle]
                /\ fate' = [fate EXCEPT ![entry.n] = "rejected"]
      BY <1>1 DEF Manager!Load, Manager!Created, Manager!Loaded, Manager!EntryDestroyed,
                  ManagerInv, ManagerTypes
    <2>2. /\ calls' = calls + 1 /\ calls' \in 1 .. FewCalls /\ now' = now /\ calls \in Nat
          /\ place[c].phase = "idle"
      BY <2>1, ManagerBegins
    <2>3. entry \in PluginEntry /\ entry.state = "LOADED" /\ entry.n = calls'
      BY <2>2 DEF PluginEntry, Instance
    <2> HIDE DEF entry
    <2>4. calls' \in Instance /\ calls' > calls /\ calls' <= FewCalls
      BY <2>2, PluginsAssumption DEF Instance
    <2>5. fate[entry.n] = "none" /\ Free(c, entry.n) /\ entry.n <= calls'
      BY <2>2, <2>3, <2>4 DEF ManagerInv, ManagerTable, Free
    <2> QED BY <2>1, <2>2, <2>3, <2>4, <2>5, ManagerCreated
  <1>2. ASSUME NEW required \in BOOLEAN, Manager!CreateAgain(c, required)
        PROVE  ManagerInv'
    <2> DEFINE entry == place[c].entry
               id == place[c].id
    <2>1. /\ Manager!At(c, "create") /\ broken' \in BOOLEAN
          /\ UNCHANGED <<plugins, pluginsMutex, statsMutex, started, stopped, contested>>
          /\ \/ /\ place' = [place EXCEPT ![c] = [Manager!Idle EXCEPT !.phase = "insert",
                                                   !.id = id, !.entry = entry]]
                /\ fate' = [fate EXCEPT ![entry.n] = "loading"]
             \/ /\ place' = [place EXCEPT ![c] = Manager!Idle]
                /\ fate' = [fate EXCEPT ![entry.n] = "rejected"]
      BY <1>2 DEF Manager!CreateAgain, Manager!Created, Manager!EntryDestroyed,
                  ManagerInv, ManagerTypes
    <2>2. /\ UNCHANGED <<calls, now>> /\ place[c].phase = "create" /\ place[c] \in Hand
          /\ InHands(place[c])
      BY <2>1, ManagerAt
    <2>3. /\ id \in SomeIds /\ entry # NoEntry /\ entry.state = "LOADED"
          /\ fate[entry.n] = "none" /\ entry.n <= calls
      BY <2>2 DEF InHands, Making
    <2>4. entry \in PluginEntry BY <2>2, <2>3, HandFields, EntryFields
    <2>5. Free(c, entry.n) BY <2>2 DEF Free, Owned, Making
    <2>6. calls' \in {calls, calls + 1} /\ calls' <= FewCalls /\ entry.n <= calls'
      BY <2>2, <2>3, PluginsAssumption DEF ManagerInv, ManagerTypes
    <2> HIDE DEF entry, id
    <2> QED BY <2>1, <2>2, <2>3, <2>4, <2>5, <2>6, ManagerCreated
  <1> QED BY <1>1, <1>2

\* ... and enters the table when it is initialized.
LEMMA ManagerInsert ==
  ASSUME ManagerInv, NEW c \in Clients, Manager!Insert(c)
  PROVE  ManagerInv'
  <1> DEFINE p == place[c]
             n == p.entry.n
             old == plugins[p.id].n
  <1>1. /\ Manager!At(c, "insert") /\ UNCHANGED <<pluginsMutex, statsMutex>>
        /\ plugins' = [plugins EXCEPT ![p.id] = p.entry]
        /\ broken' \in BOOLEAN
        /\ contested' = IF old = 0 \/ Manager!Loading(old) = {} THEN contested
                        ELSE contested \cup {old}
        /\ fate' = [m \in Instance |-> IF m = n THEN "listed"
                                       ELSE IF m = old THEN "replaced" ELSE fate[m]]
        /\ place' = [place EXCEPT ![c].phase = "onLoad"]
        /\ UNCHANGED <<started, stopped>>
    BY DEF Manager!Insert, Manager!Uncontended, Manager!Goes, Manager!EntryDestroyed,
           Manager!Instances, Instance, ManagerInv, ManagerTypes
  <1>2. /\ UNCHANGED <<calls, now>> /\ p.phase = "insert" /\ p \in Hand /\ InHands(p)
    BY <1>1, ManagerAt
  <1>3. /\ p.id \in SomeIds /\ p.entry # NoEntry /\ p.entry.state = "LOADED"
        /\ p.again = NoEntry /\ fate[n] = "loading"
    BY <1>2 DEF InHands, Making
  <1>4. p.entry \in PluginEntry /\ n \in Instance /\ n # 0
    BY <1>2, <1>3, HandFields, EntryFields
  <1>5. /\ place' \in [Clients -> Hand] /\ place'[c].phase = "onLoad"
        /\ place'[c].id = p.id /\ place'[c].entry = p.entry /\ place'[c].again = p.again
        /\ \A d \in Clients \ {c} : place'[d] = place[d]
    BY <1>1 DEF ManagerInv, ManagerTypes, Hand, Manager!Phases
  <1>6. /\ plugins' \in [SomeIds -> PluginEntry \cup {NoEntry}] /\ plugins'[p.id] = p.entry
        /\ \A id \in SomeIds \ {p.id} : plugins'[id] = plugins[id]
    BY <1>1, <1>3, <1>4 DEF ManagerInv, ManagerTypes
  <1>7. \A id \in SomeIds : plugins[id].n # n
    BY <1>3, <1>4 DEF ManagerInv, ManagerTable
  <1>8. old \in Instance \cup {0} BY <1>3, EntryFields DEF ManagerInv, ManagerTypes
  <1>9. /\ fate'[n] = "listed"
        /\ old \in Instance => fate'[old] = "replaced"
        /\ \A m \in Instance : m # n /\ m # old => fate'[m] = fate[m]
        /\ fate' \in [Instance -> Manager!Fates]
    <2>1. old # n BY <1>3, <1>7
    <2>2. \A m \in Instance : (IF m = n THEN "listed" ELSE IF m = old THEN "replaced"
                               ELSE fate[m]) \in Manager!Fates
      BY DEF ManagerInv, ManagerTypes, Manager!Fates
    <2> HIDE DEF n, old
    <2> QED BY <1>1, <1>4, <2>1, <2>2
  <1>10. old \in Instance => fate[old] = "listed"
    BY <1>3 DEF ManagerInv, ManagerTable
  <1>11. contested \subseteq contested' /\ contested' \subseteq Instance
    BY <1>1, <1>8 DEF ManagerInv, ManagerTypes
  <1>12. 0 \notin Instance /\ calls \in Nat
    BY PluginsAssumption DEF Instance, ManagerInv, ManagerTypes
  <1>13. \A d \in Clients : place[d].phase \in InLoad /\ place[d].entry.n = old /\ old # 0
                              => old \in contested'
    BY <1>1 DEF Manager!Loading, InLoad
  <1>14. ManagerTypes' BY <1>1, <1>2, <1>5, <1>6, <1>9, <1>11 DEF ManagerInv, ManagerTypes
  <1>15. ManagerHands'
    <2>1. InHands(place[c])'
      <3>1. "onLoad" \in InLoad /\ "onLoad" \notin Leaving BY DEF InLoad, Leaving
      <3> QED BY <1>3, <1>5, <1>6, <1>9, <3>1 DEF InHands
    <2>2. Owned(place'[c]) = {}
      <3>1. "onLoad" \notin Making \cup Leaving BY DEF Making, Leaving
      <3>2. place'[c].again.n = 0 BY <1>3, <1>5 DEF NoEntry
      <3> QED BY <1>5, <3>1, <3>2 DEF Owned
    <2>3. \A m \in Instance : fate'[m] # fate[m] => Free(c, m)
      <3>1. n \in Owned(p) BY <1>2 DEF Owned, Making
      <3>2. \A m \in Instance : m = old => Free(c, m) BY <1>10 DEF Free
      <3> QED BY <1>9, <3>1, <3>2 DEF Free
    <2>4. \A m \in Instance : fate[m] \notin {"none", "loading"} =>
                              fate'[m] \notin {"none", "loading"}
      BY <1>9
    <2>5. \A id \in SomeIds : \/ plugins'[id].n = plugins[id].n
                              \/ \A d \in Clients \ {c} :
                                   place[d].phase \in InLoad /\ place[d].entry.n = plugins[id].n
                                     => plugins[id].n \in contested'
      <3> TAKE id \in SomeIds
      <3>1. CASE id # p.id BY <1>6, <3>1
      <3>2. CASE id = p.id
        <4>1. CASE old # 0 BY <1>13, <3>2, <4>1
        <4>2. CASE old = 0
          <5>1. ASSUME NEW d \in Clients, place[d].phase \in InLoad PROVE place[d].entry.n # 0
            <6>1. place[d] \in Hand /\ InHands(place[d])
              BY DEF ManagerInv, ManagerTypes, ManagerHands
            <6>2. place[d].entry # NoEntry BY <5>1, <6>1 DEF InHands
            <6> QED BY <6>1, <6>2, HandFields, EntryFields
          <5> QED BY <3>2, <4>2, <5>1
        <4> QED BY <4>1, <4>2
      <3> QED BY <3>1, <3>2
    <2>6. \A m \in Instance : m \in started' \ contested' =>
                              m \in started \ contested \/ fate[m] # "leaving"
      BY <1>1, <1>11
    <2>7. \A m \in Owned(place'[c]) : Free(c, m) BY <2>2
    <2> HIDE DEF p, n, old
    <2> QED BY <1>1, <1>2, <1>5, <1>11, <2>1, <2>3, <2>4, <2>5, <2>6, <2>7, ManagerHandsKept
  <1>16. ManagerTable'
    <2>1. \A m \in Instance : m > calls => fate'[m] = "none"
      <3>1. \A m \in Instance : m > calls => fate[m] = "none" /\ m # n /\ m # old
        BY <1>3, <1>10 DEF ManagerInv, ManagerTable
      <3> QED BY <1>9, <3>1
    <2>2. ASSUME NEW m \in Instance
          PROVE  fate'[m] = "listed" <=> \E id \in SomeIds : plugins'[id].n = m
      <3>1. CASE m = n BY <1>3, <1>6, <1>9, <3>1
      <3>2. CASE m = old
        <4>1. \A id \in SomeIds \ {p.id} : plugins[id].n # old
          BY <1>3, <1>12, <3>2 DEF ManagerInv, ManagerTable
        <4>2. old # n BY <1>3, <1>7
        <4> QED BY <1>6, <1>9, <3>2, <4>1, <4>2
      <3>3. CASE m # n /\ m # old
        <4>1. fate[m] = "listed" <=> \E id \in SomeIds : plugins[id].n = m
          BY DEF ManagerInv, ManagerTable
        <4>2. \A id \in SomeIds : plugins'[id].n = m <=> plugins[id].n = m BY <1>6, <3>3
        <4> QED BY <1>9, <3>3, <4>1, <4>2
      <3> QED BY <3>1, <3>2, <3>3
    <2>3. ASSUME NEW m \in Instance, fate'[m] = "leaving"
          PROVE  \E d \in Clients : place'[d].phase \in Leaving /\ place'[d].entry.n = m
      <3>1. fate[m] = "leaving" BY <1>9, <2>3
      <3>2. PICK d \in Clients : place[d].phase \in Leaving /\ place[d].entry.n = m
        BY <3>1 DEF ManagerInv, ManagerTable
      <3>3. d # c BY <1>2, <3>2 DEF Leaving
      <3> QED BY <1>5, <3>2, <3>3
    <2>4. \A id, j \in SomeIds : plugins'[id].n # 0 /\ plugins'[id].n = plugins'[j].n => id = j
      BY <1>6, <1>7 DEF ManagerInv, ManagerTable
    <2> QED BY <1>2, <2>1, <2>2, <2>3, <2>4 DEF ManagerTable
  <1>17. ManagerStarts'
    <2>1. n \notin started BY <1>3 DEF ManagerInv, ManagerStarts
    <2>2. \A m \in started : /\ m \in Instance /\ fate'[m] \notin {"none", "loading"}
                             /\ fate'[m] = "unloaded" => fate[m] = "unloaded"
      <3>1. \A m \in started : m \in Instance /\ fate[m] \notin {"none", "loading"}
        BY DEF ManagerInv, ManagerTypes, ManagerStarts
      <3> QED BY <1>9, <3>1
    <2>3. ASSUME NEW id \in SomeIds, plugins'[id].state = "RUNNING"
          PROVE  plugins'[id].n \in started \cup contested'
      <3>1. id # p.id BY <1>3, <1>6, <2>3
      <3> QED BY <1>6, <1>11, <2>3, <3>1 DEF ManagerInv, ManagerStarts
    <2>4. ASSUME NEW id \in SomeIds, plugins'[id].n \in started \ contested'
          PROVE  \/ plugins'[id].state = "RUNNING"
                 \/ \E d \in Clients : /\ place'[d].phase = "mark"
                                       /\ place'[d].entry.n = plugins'[id].n
      <3>1. id # p.id BY <1>6, <2>1, <2>4
      <3>2. plugins[id].n \in started \ contested /\ plugins'[id] = plugins[id]
        BY <1>6, <1>11, <2>4, <3>1
      <3>3. ASSUME NEW d \in Clients, place[d].phase = "mark",
                   place[d].entry.n = plugins[id].n
            PROVE  place'[d].phase = "mark" /\ place'[d].entry.n = plugins'[id].n
        BY <1>2, <1>5, <3>2, <3>3
      <3> QED BY <3>2, <3>3 DEF ManagerInv, ManagerStarts
    <2> QED BY <1>1, <1>11, <2>2, <2>3, <2>4 DEF ManagerInv, ManagerStarts
  <1> QED BY <1>14, <1>15, <1>16, <1>17 DEF ManagerInv

\* onStart() of an instance in the table, or of one that has left it.
LEMMA ManagerPluginStarts ==
  ASSUME ManagerInv, NEW c \in Clients, NEW good \in BOOLEAN, Manager!PluginStarts(c, good)
  PROVE  ManagerInv'
  <1> DEFINE p == place[c]
             n == p.entry.n
  <1>1. /\ Manager!At(c, "onStart") /\ broken' \in BOOLEAN
        /\ started' = IF good THEN started \cup {n} ELSE started
        /\ good => place' = [place EXCEPT ![c].phase = "mark"]
        /\ ~good => place' = [place EXCEPT ![c] = CountHand]
        /\ UNCHANGED <<plugins, pluginsMutex, statsMutex, stopped, fate, contested>>
    BY DEF Manager!PluginStarts, Manager!Goes, Manager!CountsLoad, CountHand
  <1>2. /\ UNCHANGED <<calls, now>> /\ p.phase = "onStart" /\ p \in Hand /\ InHands(p)
    BY <1>1, ManagerAt
  <1>3. /\ calls' \in {calls, calls + 1} /\ calls' <= FewCalls /\ stopped' \subseteq Instance
        /\ pluginsMutex' \in Clients \cup {"NONE"} /\ statsMutex' \in Clients \cup {"NONE"}
    BY <1>1, <1>2, PluginsAssumption DEF ManagerInv, ManagerTypes
  <1>4. /\ p.phase # "mark" /\ p.phase \notin Leaving /\ p.phase \in InLoad
        /\ p.phase \notin Making
    BY <1>2 DEF InLoad, Leaving, Making
  <1>5. /\ p.id \in SomeIds /\ p.entry # NoEntry /\ p.entry.state = "LOADED"
        /\ p.again = NoEntry /\ fate[n] \notin {"none", "loading"}
        /\ n \in contested \/ plugins[p.id].n = n
    BY <1>2, <1>4 DEF InHands
  <1>6. CASE ~good
    BY <1>1, <1>2, <1>3, <1>4, <1>6, CountHandFields, ManagerEmptyHanded
  <1>7. CASE good
    <2>1. /\ place' \in [Clients -> Hand] /\ place'[c].phase = "mark"
          /\ place'[c].id = p.id /\ place'[c].entry = p.entry /\ place'[c].again = p.again
          /\ \A d \in Clients \ {c} : place'[d] = place[d]
      BY <1>1, <1>7 DEF ManagerInv, ManagerTypes, Hand, Manager!Phases
    <2>2. n \in Instance BY <1>2, <1>5, HandFields, EntryFields
    <2>3. started' = started \cup {n} BY <1>1, <1>7
    <2>4. fate[n] # "listed" => n \in contested
      BY <1>5, <2>2 DEF ManagerInv, ManagerTable
    <2> HIDE DEF n
    <2>5. ManagerTypes' BY <1>1, <1>2, <2>1, <2>2, <2>3 DEF ManagerInv, ManagerTypes
    <2>6. ManagerHands'
      <3>1. InHands(place[c])'
        <4>1. "mark" \in InLoad /\ "mark" \notin Leaving BY DEF InLoad, Leaving
        <4> QED BY <1>1, <1>5, <2>1, <2>3, <4>1 DEF InHands, n
      <3>2. Owned(place'[c]) = {}
        <4>1. "mark" \notin Making \cup Leaving BY DEF Making, Leaving
        <4>2. place'[c].again.n = 0 BY <1>5, <2>1 DEF NoEntry
        <4> QED BY <2>1, <4>1, <4>2 DEF Owned
      <3>3. \A m \in Instance : m \in started' \ contested' =>
                                m \in started \ contested \/ fate[m] # "leaving"
        BY <1>1, <2>3, <2>4
      <3>4. /\ \A m \in Owned(place'[c]) : Free(c, m)
            /\ started \subseteq started' /\ contested \subseteq contested'
        BY <1>1, <2>3, <3>2
      <3>5. /\ \A m \in Instance : fate'[m] # fate[m] => Free(c, m)
            /\ \A m \in Instance : fate[m] \notin {"none", "loading"} =>
                                   fate'[m] \notin {"none", "loading"}
            /\ \A id \in SomeIds : plugins'[id].n = plugins[id].n
        BY <1>1
      <3> QED BY <1>3, <2>1, <3>1, <3>3, <3>4, <3>5, ManagerHandsKept
    <2>7. ManagerTable'
      <3>1. ASSUME NEW m \in Instance, fate[m] = "leaving"
            PROVE  \E d \in Clients : place'[d].phase \in Leaving /\ place'[d].entry.n = m
        <4>1. PICK d \in Clients : place[d].phase \in Leaving /\ place[d].entry.n = m
          BY <3>1 DEF ManagerInv, ManagerTable
        <4>2. d # c BY <1>4, <4>1
        <4> QED BY <2>1, <4>1, <4>2
      <3> QED BY <1>1, <1>2, <3>1 DEF ManagerInv, ManagerTable
    <2>8. ManagerStarts'
      <3>1. \A m \in started' : fate'[m] \notin {"none", "loading"}
        BY <1>1, <1>5, <2>3 DEF ManagerInv, ManagerStarts, n
      <3>2. \A m \in started' \ contested' : fate'[m] = "unloaded" => m \in stopped'
        BY <1>1, <2>3, <2>4 DEF ManagerInv, ManagerStarts
      <3>3. \A id \in SomeIds : plugins'[id].state = "RUNNING" =>
                                  plugins'[id].n \in started' \cup contested'
        BY <1>1, <2>3 DEF ManagerInv, ManagerStarts
      <3>4. ASSUME NEW id \in SomeIds, plugins'[id].n \in started' \ contested'
            PROVE  \/ plugins'[id].state = "RUNNING"
                   \/ \E d \in Clients : /\ place'[d].phase = "mark"
                                         /\ place'[d].entry.n = plugins'[id].n
        <4>1. CASE plugins[id].n = n BY <1>1, <2>1, <4>1 DEF n
        <4>2. CASE plugins[id].n # n
          <5>1. plugins[id].n \in started \ contested BY <1>1, <2>3, <3>4, <4>2
          <5>2. \A d \in Clients : place[d].phase = "mark" => d # c BY <1>4
          <5> QED BY <1>1, <2>1, <5>1, <5>2 DEF ManagerInv, ManagerStarts
        <4> QED BY <4>1, <4>2
      <3> QED BY <3>1, <3>2, <3>3, <3>4 DEF ManagerStarts
    <2> QED BY <2>5, <2>6, <2>7, <2>8 DEF ManagerInv
  <1> QED BY <1>6, <1>7

\* The state of the entry that is in the table now.
LEMMA ManagerMark ==
  ASSUME ManagerInv, NEW c \in Clients, Manager!Mark(c)
  PROVE  ManagerInv'
  <1> DEFINE p == place[c]
             n == p.entry.n
             at == plugins[p.id].n
  <1>1. /\ Manager!At(c, "mark") /\ UNCHANGED <<pluginsMutex, statsMutex>>
        /\ \/ plugins[p.id] = NoEntry /\ broken' = TRUE /\ plugins' = plugins
           \/ /\ plugins[p.id] # NoEntry /\ plugins' = [plugins EXCEPT ![p.id].state = "RUNNING"]
              /\ broken' = broken
        /\ contested' = contested \cup ({at} \ {n, 0})
        /\ place' = [place EXCEPT ![c] = CountHand]
        /\ UNCHANGED <<started, stopped, fate>>
    BY IdleHand DEF Manager!Mark, Manager!Uncontended, Manager!CountsLoad, CountHand
  <1>2. /\ UNCHANGED <<calls, now>> /\ p.phase = "mark" /\ p \in Hand /\ InHands(p)
    BY <1>1, ManagerAt
  <1>4. p.id \in SomeIds /\ n \in started BY <1>2 DEF InHands, InLoad
  <1>5. at \in Instance \cup {0} /\ (plugins[p.id] # NoEntry => at # 0)
    BY <1>4, EntryFields DEF ManagerInv, ManagerTypes
  <1>6. /\ plugins' \in [SomeIds -> PluginEntry \cup {NoEntry}]
        /\ \A id \in SomeIds : plugins'[id].n = plugins[id].n
        /\ \A id \in SomeIds \ {p.id} : plugins'[id] = plugins[id]
        /\ plugins[p.id] # NoEntry => plugins'[p.id].state = "RUNNING"
        /\ plugins[p.id] = NoEntry => plugins' = plugins
    <2>1. CASE plugins' = plugins /\ plugins[p.id] = NoEntry
      BY <2>1 DEF ManagerInv, ManagerTypes
    <2>2. CASE /\ plugins[p.id] # NoEntry
               /\ plugins' = [plugins EXCEPT ![p.id].state = "RUNNING"]
      <3>1. plugins \in [SomeIds -> PluginEntry \cup {NoEntry}] BY DEF ManagerInv, ManagerTypes
      <3>2. plugins[p.id] \in PluginEntry BY <1>4, <2>2, <3>1
      <3>3. /\ [plugins[p.id] EXCEPT !.state = "RUNNING"] \in PluginEntry
            /\ [plugins[p.id] EXCEPT !.state = "RUNNING"].n = at
            /\ [plugins[p.id] EXCEPT !.state = "RUNNING"].state = "RUNNING"
        BY <3>2 DEF PluginEntry
      <3>4. /\ plugins'[p.id] = [plugins[p.id] EXCEPT !.state = "RUNNING"]
            /\ \A id \in SomeIds \ {p.id} : plugins'[id] = plugins[id]
        BY <1>4, <2>2, <3>1
      <3>5. \A id \in SomeIds : /\ plugins'[id] \in PluginEntry \cup {NoEntry}
                                /\ plugins'[id].n = plugins[id].n
        BY <3>1, <3>3, <3>4
      <3>6. plugins' = [id \in SomeIds |-> plugins'[id]] BY <2>2, <3>1
      <3> QED BY <2>2, <3>3, <3>4, <3>5, <3>6
    <2> QED BY <1>1, <2>1, <2>2
  <1>7. /\ place' \in [Clients -> Hand] /\ place'[c] = CountHand
        /\ \A d \in Clients \ {c} : place'[d] = place[d]
    BY <1>1, CountHandFields, ClientMoves DEF ManagerInv
  <1>8. contested \subseteq contested' /\ contested' \subseteq Instance
    BY <1>1, <1>5 DEF ManagerInv, ManagerTypes
  <1>9. at # 0 => at \in contested' \cup {n} BY <1>1
  <1>10. n \in contested \/ at = n BY <1>2 DEF InHands, InLoad
  <1> HIDE DEF at, n
  <1>11. ManagerTypes'
    BY <1>1, <1>2, <1>6, <1>7, <1>8 DEF ManagerInv, ManagerTypes
  <1>12. ManagerHands'
    <2>1. Owned(place'[c]) = {} /\ InHands(place[c])'
      BY <1>7, CountHandFields, EmptyHands
    <2>2. calls' \in {calls, calls + 1} BY <1>2
    <2>3. /\ \A m \in Instance : fate'[m] # fate[m] => Free(c, m)
          /\ \A m \in Instance : fate[m] \notin {"none", "loading"} =>
                                 fate'[m] \notin {"none", "loading"}
          /\ started \subseteq started'
      BY <1>1
    <2>4. /\ \A m \in Owned(place'[c]) : Free(c, m)
          /\ \A m \in Instance : m \in started' \ contested' =>
                                 m \in started \ contested \/ fate[m] # "leaving"
      BY <1>1, <1>8, <2>1
    <2> QED BY <1>6, <1>7, <1>8, <2>1, <2>2, <2>3, <2>4, ManagerHandsKept
  <1>13. ManagerTable'
    <2>1. ASSUME NEW m \in Instance, fate[m] = "leaving"
          PROVE  \E d \in Clients : place'[d].phase \in Leaving /\ place'[d].entry.n = m
      <3>1. PICK d \in Clients : place[d].phase \in Leaving /\ place[d].entry.n = m
        BY <2>1 DEF ManagerInv, ManagerTable
      <3>2. d # c BY <1>2, <3>1 DEF Leaving
      <3> QED BY <1>7, <3>1, <3>2
    <2> QED BY <1>1, <1>2, <1>6, <2>1 DEF ManagerInv, ManagerTable
  <1>14. ManagerStarts'
    <2>1. ASSUME NEW id \in SomeIds, plugins'[id].state = "RUNNING"
          PROVE  plugins'[id].n \in started' \cup contested'
      <3>1. CASE id = p.id /\ plugins[p.id] # NoEntry
        BY <1>1, <1>4, <1>5, <1>6, <1>9, <3>1 DEF at
      <3>2. CASE id # p.id \/ plugins[p.id] = NoEntry
        <4>1. plugins'[id] = plugins[id] BY <1>6, <3>2
        <4> QED BY <1>1, <1>8, <2>1, <4>1 DEF ManagerInv, ManagerStarts
      <3> QED BY <3>1, <3>2
    <2>2. ASSUME NEW id \in SomeIds, plugins'[id].n \in started' \ contested'
          PROVE  \/ plugins'[id].state = "RUNNING"
                 \/ \E d \in Clients : /\ place'[d].phase = "mark"
                                       /\ place'[d].entry.n = plugins'[id].n
      <3>1. plugins[id].n \in started \ contested BY <1>1, <1>6, <1>8, <2>2
      <3>2. CASE id = p.id
        <4>1. plugins[p.id] # NoEntry
          <5>1. started \subseteq Instance /\ 0 \notin Instance
            BY DEF ManagerInv, ManagerTypes, Instance
          <5> QED BY <3>1, <3>2, <5>1, EntryFields
        <4> QED BY <1>6, <3>2, <4>1
      <3>3. CASE id # p.id
        <4>1. plugins'[id] = plugins[id] BY <1>6, <3>3
        <4>2. CASE plugins[id].n = n
          <5>1. at = n BY <1>10, <3>1, <4>2
          <5>2. plugins[id].n = plugins[p.id].n /\ plugins[id].n # 0
            <6>1. started \subseteq Instance /\ 0 \notin Instance
              BY DEF ManagerInv, ManagerTypes, Instance
            <6> QED BY <3>1, <4>2, <5>1, <6>1 DEF at
          <5> QED BY <1>4, <3>3, <5>2 DEF ManagerInv, ManagerTable
        <4>3. CASE plugins[id].n # n
          <5>1. \A d \in Clients : place[d].entry.n = plugins[id].n => d # c BY <4>3 DEF n
          <5> QED BY <1>7, <3>1, <4>1, <5>1 DEF ManagerInv, ManagerStarts
        <4> QED BY <4>2, <4>3
      <3> QED BY <3>2, <3>3
    <2> QED BY <1>1, <1>8, <2>1, <2>2 DEF ManagerInv, ManagerStarts
  <1> QED BY <1>11, <1>12, <1>13, <1>14 DEF ManagerInv

\* disablePlugin() stops a running plugin.
LEMMA ManagerDisable ==
  ASSUME ManagerInv, NEW c \in Clients, NEW id \in SomeIds, Manager!DisablePlugin(c, id)
  PROVE  ManagerInv'
  <1>1. /\ Manager!Begins(c) /\ UNCHANGED <<pluginsMutex, statsMutex>> /\ plugins[id] # NoEntry
        /\ stopped' = IF plugins[id].state = "RUNNING" THEN stopped \cup {plugins[id].n}
                      ELSE stopped
        /\ plugins' = [plugins EXCEPT ![id].state = IF <<plugins[id].state, "DISABLED">>
                         = <<"LOADED", "DISABLED">> THEN "DISABLED" ELSE plugins[id].state]
        /\ UNCHANGED <<place, started, fate, contested, broken>>
    BY IdleHand DEF Manager!DisablePlugin, Manager!Uncontended, Manager!TransitionState
  <1>2. /\ calls' = calls + 1 /\ calls' \in 1 .. FewCalls /\ now' = now /\ calls \in Nat
        /\ place[c].phase = "idle"
    BY <1>1, ManagerBegins
  <1>3. plugins \in [SomeIds -> PluginEntry \cup {NoEntry}] /\ plugins[id] \in PluginEntry
    BY <1>1, EntryFields DEF ManagerInv, ManagerTypes
  <1> DEFINE next == IF plugins[id].state = "LOADED" THEN "DISABLED" ELSE plugins[id].state
             entry == [plugins[id] EXCEPT !.state = next]
  <1>4. /\ entry \in PluginEntry /\ entry.n = plugins[id].n
        /\ entry.state = "RUNNING" <=> plugins[id].state = "RUNNING"
    BY <1>3 DEF PluginEntry
  <1>5. plugins' = [plugins EXCEPT ![id] = entry]
    <2>1. (<<plugins[id].state, "DISABLED">> = <<"LOADED", "DISABLED">>)
            <=> plugins[id].state = "LOADED"
      OBVIOUS
    <2> QED BY <1>1, <2>1
  <1> HIDE DEF entry
  <1>6. /\ plugins' \in [SomeIds -> PluginEntry \cup {NoEntry}]
        /\ \A j \in SomeIds : /\ plugins'[j].n = plugins[j].n
                              /\ plugins'[j].state = "RUNNING" <=> plugins[j].state = "RUNNING"
    BY <1>3, <1>4, <1>5
  <1>7. plugins[id].n \in Instance BY <1>3 DEF PluginEntry
  <1>8. stopped \subseteq stopped' /\ stopped' \subseteq Instance
    BY <1>1, <1>7 DEF ManagerInv, ManagerTypes
  <1>9. ManagerTypes'
    <2>1. calls' \in 0 .. FewCalls BY <1>2
    <2> QED BY <1>1, <1>2, <1>6, <1>8, <2>1 DEF ManagerInv, ManagerTypes
  <1>10. ManagerHands'
    <2>1. InHands(place[c])' /\ Owned(place'[c]) = {}
      <3>1. place'[c].phase \notin Making \cup InLoad \cup Leaving /\ place'[c].again = NoEntry
        BY <1>1, <1>2, ManagerBegins DEF Making, InLoad, Leaving
      <3> QED BY <3>1, EmptyHands
    <2>2. /\ \A m \in Instance : fate'[m] # fate[m] => Free(c, m)
          /\ \A m \in Instance : fate[m] \notin {"none", "loading"} =>
                                 fate'[m] \notin {"none", "loading"}
          /\ \A m \in Owned(place'[c]) : Free(c, m)
          /\ started \subseteq started' /\ contested \subseteq contested'
          /\ \A m \in Instance : m \in started' \ contested' =>
                                 m \in started \ contested \/ fate[m] # "leaving"
          /\ \A d \in Clients \ {c} : place'[d] = place[d]
          /\ calls' \in {calls, calls + 1}
      BY <1>1, <1>2, <2>1
    <2> QED BY <1>6, <2>1, <2>2, ManagerHandsKept
  <1>11. ManagerTable'
    <2>1. \A n \in Instance : n > calls' => fate[n] = "none"
      <3>1. \A n \in Instance : n > calls' => n > calls BY <1>2 DEF Instance
      <3> QED BY <3>1 DEF ManagerInv, ManagerTable
    <2> QED BY <1>1, <1>6, <2>1 DEF ManagerInv, ManagerTable
  <1>12. ManagerStarts' BY <1>1, <1>6, <1>8 DEF ManagerInv, ManagerStarts
  <1> QED BY <1>9, <1>10, <1>11, <1>12 DEF ManagerInv

\* An entry leaves the table for the hands of the call that unloads it.
LEMMA ManagerTake ==
  ASSUME ManagerInv, NEW c \in Clients, Manager!Take(c)
  PROVE  ManagerInv'
  <1> DEFINE p == place[c]
  <1>1. PICK id \in p.todo :
          /\ Manager!At(c, "take") /\ UNCHANGED <<pluginsMutex, statsMutex>>
          /\ UNCHANGED <<started, stopped, broken>>
          /\ \/ /\ plugins[id] = NoEntry /\ Manager!Proceeds(c, p.todo \ {id})
                /\ UNCHANGED <<plugins, fate, contested>>
             \/ /\ plugins[id] # NoEntry /\ plugins' = [plugins EXCEPT ![id] = NoEntry]
                /\ place' = [place EXCEPT ![c].phase = "check", ![c].id = id,
                                          ![c].entry = plugins[id], ![c].todo = @ \ {id}]
                /\ fate' = [fate EXCEPT ![plugins[id].n] = "leaving"]
                /\ contested' = IF Manager!Loading(plugins[id].n) = {} THEN contested
                                ELSE contested \cup {plugins[id].n}
    BY IdleHand DEF Manager!Take, Manager!Uncontended
  <1>2. /\ UNCHANGED <<calls, now>> /\ p.phase = "take" /\ p \in Hand /\ InHands(p)
    BY <1>1, ManagerAt
  <1>3. id \in SomeIds /\ p.todo \in SUBSET SomeIds BY <1>2, HandFields
  <1>4. p.phase # "mark" /\ p.phase \notin Leaving /\ p.phase \notin Making
    BY <1>2 DEF Leaving, Making
  <1>5. CASE plugins[id] = NoEntry /\ Manager!Proceeds(c, p.todo \ {id})
             /\ UNCHANGED <<plugins, fate, contested>>
    <2>1. /\ p.todo \ {id} \in SUBSET SomeIds /\ p.phase \in Leaving \cup Between
      BY <1>2, <1>3 DEF Between
    <2>2. /\ place' \in [Clients -> Hand] /\ \A d \in Clients \ {c} : place'[d] = place[d]
          /\ Owned(place'[c]) \subseteq Owned(place[c])
      BY <1>5, <2>1, ManagerProceeds
    <2>3. InHands(place[c])' BY <1>2, <1>5, <2>1, ManagerProceedsInHands
    <2>4. /\ calls' \in {calls, calls + 1} /\ calls' <= FewCalls /\ stopped' \subseteq Instance
          /\ pluginsMutex' \in Clients \cup {"NONE"} /\ statsMutex' \in Clients \cup {"NONE"}
          /\ broken' \in BOOLEAN
      BY <1>1, <1>2, PluginsAssumption DEF ManagerInv, ManagerTypes
    <2>5. \A n \in Owned(place'[c]) : Free(c, n) BY <2>2 DEF Free
    <2> QED BY <1>1, <1>2, <1>4, <1>5, <2>2, <2>3, <2>4, <2>5, ManagerMoves
  <1>6. ASSUME plugins[id] # NoEntry, plugins' = [plugins EXCEPT ![id] = NoEntry],
               place' = [place EXCEPT ![c].phase = "check", ![c].id = id,
                                      ![c].entry = plugins[id], ![c].todo = @ \ {id}],
               fate' = [fate EXCEPT ![plugins[id].n] = "leaving"],
               contested' = IF Manager!Loading(plugins[id].n) = {} THEN contested
                            ELSE contested \cup {plugins[id].n}
        PROVE  ManagerInv'
    <2> DEFINE entry == plugins[id]
               n == plugins[id].n
    <2>1. /\ entry \in PluginEntry /\ n \in Instance /\ n # 0 /\ 0 \notin Instance
          /\ plugins \in [SomeIds -> PluginEntry \cup {NoEntry}]
      BY <1>3, <1>6, EntryFields DEF ManagerInv, ManagerTypes, Instance
    <2>2. /\ place' \in [Clients -> Hand] /\ place'[c].phase = "check"
          /\ place'[c].id = id /\ place'[c].entry = entry /\ place'[c].again = p.again
          /\ \A d \in Clients \ {c} : place'[d] = place[d]
      <3>1. "check" \in Manager!Phases BY DEF Manager!Phases
      <3>2. /\ place'[c].phase = "check" /\ place'[c].id = id /\ place'[c].entry = entry
            /\ place'[c].again = p.again /\ \A d \in Clients \ {c} : place'[d] = place[d]
        BY <1>6 DEF ManagerInv, ManagerTypes, Hand
      <3>3. place' \in [Clients -> Hand]
        BY <1>3, <1>6, <2>1, <3>1 DEF ManagerInv, ManagerTypes, Hand
      <3> QED BY <3>2, <3>3
    <2>3. /\ plugins' \in [SomeIds -> PluginEntry \cup {NoEntry}] /\ plugins'[id] = NoEntry
          /\ \A j \in SomeIds \ {id} : plugins'[j] = plugins[j]
      BY <1>3, <1>6, <2>1
    <2>4. fate[n] = "listed" BY <1>3, <2>1 DEF ManagerInv, ManagerTable
    <2>5. /\ fate' \in [Instance -> Manager!Fates] /\ fate'[n] = "leaving"
          /\ \A m \in Instance : m # n => fate'[m] = fate[m]
      BY <1>6, <2>1 DEF ManagerInv, ManagerTypes, Manager!Fates
    <2>6. contested \subseteq contested' /\ contested' \subseteq Instance
      BY <1>6, <2>1 DEF ManagerInv, ManagerTypes
    <2>7. \A d \in Clients : place[d].phase \in InLoad /\ place[d].entry.n = n
                               => n \in contested'
      BY <1>6 DEF Manager!Loading, InLoad
    <2>8. n \in started \ contested' => entry.state = "RUNNING"
      <3> SUFFICES ASSUME n \in started, n \notin contested' PROVE entry.state = "RUNNING"
        OBVIOUS
      <3>1. \A d \in Clients : place[d].phase = "mark" => place[d].entry.n # n
        BY <2>7 DEF InLoad
      <3> QED BY <1>3, <2>6, <3>1 DEF ManagerInv, ManagerStarts
    <2>9. NoEntry.n = 0 /\ NoEntry.state # "RUNNING" BY DEF NoEntry
    <2> HIDE DEF entry, n
    <2>10. ManagerTypes'
      BY <1>1, <1>2, <2>2, <2>3, <2>5, <2>6 DEF ManagerInv, ManagerTypes
    <2>11. ManagerHands'
      <3>1. InHands(place[c])'
        <4>1. /\ "check" \in Leaving /\ "check" \notin Making \cup InLoad
              /\ "check" \notin InLoad
          BY DEF Leaving, Making, InLoad
        <4>2. entry # NoEntry /\ entry.n = n BY <1>6 DEF entry, n
        <4>3. p.again # NoEntry =>
                 /\ fate'[p.again.n] = "none" /\ p.again.n <= calls' /\ p.again.state = "LOADED"
          <5>1. p.again # NoEntry => fate[p.again.n] = "none" /\ p.again.n \in Instance
            BY <1>2, HandFields, EntryFields DEF InHands
          <5> QED BY <1>2, <2>4, <2>5, <5>1 DEF InHands
        <4>4. n \in started' \ contested' => entry.state = "RUNNING" BY <1>1, <2>8
        <4> QED BY <1>3, <2>2, <2>5, <4>1, <4>2, <4>3, <4>4 DEF InHands
      <3>2. \A m \in Owned(place'[c]) : Free(c, m)
        <4>1. Owned(place'[c]) \subseteq {n} \cup ({p.again.n} \ {0})
          BY <2>2 DEF Owned, entry, n
        <4>2. ({p.again.n} \ {0}) \subseteq Owned(place[c]) BY DEF Owned
        <4> QED BY <2>4, <4>1, <4>2 DEF Free
      <3>3. /\ \A m \in Instance : fate'[m] # fate[m] => Free(c, m)
            /\ \A m \in Instance : fate[m] \notin {"none", "loading"} =>
                                   fate'[m] \notin {"none", "loading"}
        BY <2>4, <2>5 DEF Free
      <3>4. /\ \A m \in Instance : m \in started' \ contested' =>
                                   m \in started \ contested \/ fate[m] # "leaving"
            /\ started \subseteq started' /\ calls' \in {calls, calls + 1}
        BY <1>1, <1>2, <2>6
      <3>5. \A j \in SomeIds : \/ plugins'[j].n = plugins[j].n
                               \/ \A d \in Clients \ {c} :
                                    place[d].phase \in InLoad /\ place[d].entry.n = plugins[j].n
                                      => plugins[j].n \in contested'
        BY <2>3, <2>7 DEF n
      <3> QED BY <2>2, <2>6, <3>1, <3>2, <3>3, <3>4, <3>5, ManagerHandsKept
    <2>12. ManagerTable'
      <3>1. \A m \in Instance : m > calls => fate'[m] = "none"
        BY <2>4, <2>5 DEF ManagerInv, ManagerTable
      <3>2. ASSUME NEW m \in Instance
            PROVE  fate'[m] = "listed" <=> \E j \in SomeIds : plugins'[j].n = m
        <4>1. fate[m] = "listed" <=> \E j \in SomeIds : plugins[j].n = m
          BY DEF ManagerInv, ManagerTable
        <4>2. CASE m = n
          <5>1. \A j \in SomeIds \ {id} : plugins[j].n # n
            BY <1>3, <2>1 DEF ManagerInv, ManagerTable, n
          <5> QED BY <2>1, <2>3, <2>5, <2>9, <4>2, <5>1
        <4>3. CASE m # n
          <5>1. \A j \in SomeIds : plugins'[j].n = m <=> plugins[j].n = m
            BY <2>1, <2>3, <2>9, <4>3 DEF n
          <5> QED BY <2>5, <4>1, <4>3, <5>1
        <4> QED BY <4>2, <4>3
      <3>3. ASSUME NEW m \in Instance, fate'[m] = "leaving"
            PROVE  \E d \in Clients : place'[d].phase \in Leaving /\ place'[d].entry.n = m
        <4>1. CASE m = n BY <2>2, <4>1 DEF Leaving, entry, n
        <4>2. CASE m # n
          <5>1. PICK d \in Clients : place[d].phase \in Leaving /\ place[d].entry.n = m
            BY <2>5, <3>3, <4>2 DEF ManagerInv, ManagerTable
          <5>2. d # c BY <1>4, <5>1
          <5> QED BY <2>2, <5>1, <5>2
        <4> QED BY <4>1, <4>2
      <3>4. \A i, j \in SomeIds : plugins'[i].n # 0 /\ plugins'[i].n = plugins'[j].n => i = j
        BY <2>3, <2>9 DEF ManagerInv, ManagerTable
      <3> QED BY <1>2, <3>1, <3>2, <3>3, <3>4 DEF ManagerTable
    <2>13. ManagerStarts'
      <3>1. \A m \in started : /\ m \in Instance /\ fate'[m] \notin {"none", "loading"}
                               /\ fate'[m] = "unloaded" => fate[m] = "unloaded"
        <4>1. \A m \in started : m \in Instance /\ fate[m] \notin {"none", "loading"}
          BY DEF ManagerInv, ManagerTypes, ManagerStarts
        <4> QED BY <2>5, <4>1
      <3>2. ASSUME NEW j \in SomeIds, plugins'[j].state = "RUNNING"
            PROVE  plugins'[j].n \in started \cup contested'
        <4>1. j # id BY <2>3, <2>9, <3>2
        <4> QED BY <2>3, <2>6, <3>2, <4>1 DEF ManagerInv, ManagerStarts
      <3>3. ASSUME NEW j \in SomeIds, plugins'[j].n \in started \ contested'
            PROVE  \/ plugins'[j].state = "RUNNING"
                   \/ \E d \in Clients : /\ place'[d].phase = "mark"
                                         /\ place'[d].entry.n = plugins'[j].n
        <4>1. j # id BY <2>3, <2>9, <3>1, <2>1, <3>3
        <4>2. plugins[j].n \in started \ contested /\ plugins'[j] = plugins[j]
          BY <2>3, <2>6, <3>3, <4>1
        <4>3. \A d \in Clients : place[d].phase = "mark" => d # c BY <1>4
        <4> QED BY <2>2, <4>2, <4>3 DEF ManagerInv, ManagerStarts
      <3> QED BY <1>1, <2>6, <3>1, <3>2, <3>3 DEF ManagerInv, ManagerStarts
    <2> QED BY <2>10, <2>11, <2>12, <2>13 DEF ManagerInv
  <1> QED BY <1>1, <1>5, <1>6

\* An instance in the hands of an unload comes to its end.
LEMMA ManagerEnds ==
  ASSUME ManagerInv, NEW c \in Clients, place[c].phase \in Leaving,
         NEW end \in {"dropped", "unloaded"},
         fate' = [fate EXCEPT ![place[c].entry.n] = end],
         Manager!Proceeds(c, place[c].todo) \/ Manager!CountsUnload(c), broken' \in BOOLEAN,
         UNCHANGED <<calls, now, plugins, pluginsMutex, statsMutex, started, contested>>,
         stopped \subseteq stopped', stopped' \subseteq Instance,
         end = "unloaded" /\ place[c].entry.state = "RUNNING" =>
           place[c].entry.n \in stopped'
  PROVE  ManagerInv'
  <1> DEFINE p == place[c]
             n == p.entry.n
  <1>1. p \in Hand /\ InHands(p) BY DEF ManagerInv, ManagerTypes, ManagerHands
  <1>2. /\ p.id \in SomeIds /\ p.entry # NoEntry /\ fate[n] = "leaving"
        /\ n \in started \ contested => p.entry.state = "RUNNING"
    BY <1>1 DEF InHands
  <1>3. n \in Instance /\ p.todo \in SUBSET SomeIds
    BY <1>1, <1>2, HandFields, EntryFields
  <1>4. n \in Owned(p) BY DEF Owned
  <1>5. /\ place' \in [Clients -> Hand] /\ \A d \in Clients \ {c} : place'[d] = place[d]
        /\ Owned(place'[c]) \subseteq Owned(place[c]) /\ n \notin Owned(place'[c])
    BY <1>3, ManagerProceeds, ManagerCounts
  <1>6. /\ fate' \in [Instance -> Manager!Fates] /\ fate'[n] = end
        /\ \A m \in Instance : m # n => fate'[m] = fate[m]
    BY <1>3 DEF ManagerInv, ManagerTypes, Manager!Fates
  <1>7. p.again # NoEntry => fate'[p.again.n] = fate[p.again.n]
    <2>1. p.again # NoEntry => fate[p.again.n] = "none" /\ p.again.n \in Instance
      BY <1>1, HandFields, EntryFields DEF InHands
    <2> QED BY <1>2, <1>6, <2>1
  <1>8. InHands(place[c])' BY <1>3, <1>7, ManagerProceedsInHands, ManagerCountsInHands
  <1>9. p.phase # "mark" BY DEF Leaving
  <1>10. n \in started \ contested /\ end = "unloaded" => n \in stopped' BY <1>2
  <1> HIDE DEF n
  <1>11. ManagerTypes' BY <1>5, <1>6 DEF ManagerInv, ManagerTypes
  <1>12. ManagerHands'
    <2>1. \A m \in Owned(place'[c]) : Free(c, m) BY <1>5 DEF Free
    <2>2. /\ \A m \in Instance : fate'[m] # fate[m] => Free(c, m)
          /\ \A m \in Instance : fate[m] \notin {"none", "loading"} =>
                                 fate'[m] \notin {"none", "loading"}
      BY <1>4, <1>6 DEF Free
    <2> QED BY <1>5, <1>8, <2>1, <2>2, ManagerHandsKept
  <1>13. ManagerTable'
    <2>1. \A m \in Instance : m > calls => fate'[m] = "none"
      BY <1>2, <1>6 DEF ManagerInv, ManagerTable
    <2>2. \A m \in Instance : fate'[m] = "listed" <=> \E j \in SomeIds : plugins[j].n = m
      BY <1>2, <1>6 DEF ManagerInv, ManagerTable
    <2>3. ASSUME NEW m \in Instance, fate'[m] = "leaving"
          PROVE  \E d \in Clients : place'[d].phase \in Leaving /\ place'[d].entry.n = m
      <3>1. m # n /\ fate[m] = "leaving" BY <1>6, <2>3
      <3>2. PICK d \in Clients : place[d].phase \in Leaving /\ place[d].entry.n = m
        BY <3>1 DEF ManagerInv, ManagerTable
      <3>3. d # c BY <3>1, <3>2 DEF n
      <3> QED BY <1>5, <3>2, <3>3
    <2> QED BY <2>1, <2>2, <2>3 DEF ManagerInv, ManagerTable
  <1>14. ManagerStarts'
    <2>1. \A m \in started : m \in Instance /\ fate[m] \notin {"none", "loading"}
      BY DEF ManagerInv, ManagerTypes, ManagerStarts
    <2>2. \A m \in started : fate'[m] \notin {"none", "loading"} BY <1>6, <2>1
    <2>3. \A m \in started \ contested : fate'[m] = "unloaded" => m \in stopped'
      BY <1>6, <1>10, <2>1 DEF ManagerInv, ManagerStarts
    <2>4. ASSUME NEW j \in SomeIds, plugins[j].n \in started \ contested
          PROVE  \/ plugins[j].state = "RUNNING"
                 \/ \E d \in Clients : /\ place'[d].phase = "mark"
                                       /\ place'[d].entry.n = plugins[j].n
      <3>1. \A d \in Clients : place[d].phase = "mark" => d # c BY <1>9
      <3> QED BY <1>5, <2>4, <3>1 DEF ManagerInv, ManagerStarts
    <2> QED BY <2>2, <2>3, <2>4 DEF ManagerInv, ManagerStarts
  <1> QED BY <1>11, <1>12, <1>13, <1>14 DEF ManagerInv

\* The unload goes on to the next plugin, or ends.
LEMMA ManagerUnloads ==
  ASSUME ManagerInv, NEW c \in Clients,
         Manager!Leave(c) \/ \E force \in BOOLEAN : Manager!CheckDependents(c, force)
  PROVE  ManagerInv'
  <1> DEFINE p == place[c]
             n == p.entry.n
  <1>1. /\ UNCHANGED <<calls, now, plugins, pluginsMutex, statsMutex, started, contested>>
        /\ p.phase \in Leaving /\ p \in Hand /\ InHands(p)
    <2>1. PICK phase \in Leaving : Manager!At(c, phase)
      BY DEF Manager!Leave, Manager!CheckDependents, Leaving
    <2>2. UNCHANGED <<plugins, pluginsMutex, statsMutex, started, contested>>
      BY DEF Manager!Leave, Manager!CheckDependents, Manager!Uncontended
    <2> QED BY <2>1, <2>2, ManagerAt
  <1>2. /\ p.id \in SomeIds /\ p.entry # NoEntry /\ fate[n] = "leaving"
        /\ n \in started \ contested => p.entry.state = "RUNNING"
    BY <1>1 DEF InHands
  <1>3. n \in Instance /\ stopped \subseteq Instance
    BY <1>1, <1>2, HandFields, EntryFields DEF ManagerInv, ManagerTypes
  <1>4. CASE Manager!Leave(c)
    <2>1. /\ stopped' = IF p.entry.state = "RUNNING" THEN stopped \cup {n} ELSE stopped
          /\ fate' = [fate EXCEPT ![n] = "unloaded"] /\ broken' \in BOOLEAN
          /\ Manager!CountsUnload(c)
      BY <1>4 DEF Manager!Leave, Manager!EntryDestroyed
    <2>2. stopped \subseteq stopped' /\ stopped' \subseteq Instance BY <1>3, <2>1
    <2>3. p.entry.state = "RUNNING" => n \in stopped' BY <2>1
    <2> QED BY <1>1, <2>1, <2>2, <2>3, ManagerEnds
  <1>5. ASSUME NEW force \in BOOLEAN, Manager!CheckDependents(c, force)
        PROVE  ManagerInv'
    <2>1. /\ stopped' = stopped
          /\ \/ /\ fate' = [fate EXCEPT ![n] = "dropped"] /\ broken' \in BOOLEAN
                /\ Manager!Proceeds(c, p.todo)
             \/ /\ place' = [place EXCEPT ![c].phase = "leave"] /\ UNCHANGED <<fate, broken>>
      BY <1>5 DEF Manager!CheckDependents, Manager!EntryDestroyed, Manager!Goes
    <2>2. CASE /\ fate' = [fate EXCEPT ![n] = "dropped"] /\ broken' \in BOOLEAN
               /\ Manager!Proceeds(c, p.todo)
      BY <1>1, <1>3, <2>1, <2>2, ManagerEnds
    <2>3. CASE place' = [place EXCEPT ![c].phase = "leave"] /\ UNCHANGED <<fate, broken>>
      <3>1. /\ place' \in [Clients -> Hand] /\ place'[c].phase = "leave"
            /\ place'[c].id = p.id /\ place'[c].entry = p.entry /\ place'[c].again = p.again
            /\ \A d \in Clients \ {c} : place'[d] = place[d]
        BY <2>3 DEF ManagerInv, ManagerTypes, Hand, Manager!Phases
      <3>2. "leave" \in Leaving /\ "leave" \notin Making \cup InLoad /\ "leave" \notin InLoad
        BY DEF Leaving, Making, InLoad
      <3>3. Owned(place'[c]) = Owned(p) BY <1>1, <3>1, <3>2 DEF Owned
      <3>4. InHands(place[c])'
        <4>1. p.again # NoEntry => /\ fate'[p.again.n] = "none" /\ p.again.n <= calls'
                                   /\ p.again.state = "LOADED"
          BY <1>1, <2>3 DEF InHands
        <4> QED BY <1>1, <1>2, <2>3, <3>1, <3>2, <4>1 DEF InHands
      <3>5. /\ calls' \in {calls, calls + 1} /\ calls' <= FewCalls
            /\ pluginsMutex' \in Clients \cup {"NONE"} /\ statsMutex' \in Clients \cup {"NONE"}
            /\ broken' \in BOOLEAN /\ stopped \subseteq stopped' /\ stopped' \subseteq Instance
        BY <1>1, <1>3, <2>1, <2>3, PluginsAssumption DEF ManagerInv, ManagerTypes
      <3>6. \A m \in Owned(place'[c]) : Free(c, m) BY <3>3 DEF Free
      <3>7. p.phase # "mark" BY <1>1 DEF Leaving
      <3> QED BY <1>1, <2>3, <3>1, <3>2, <3>4, <3>5, <3>6, <3>7, ManagerMoves
    <2> QED BY <2>1, <2>2, <2>3
  <1> QED BY <1>4, <1>5

\* The statistic of a load or an unload, after which the call goes on.
LEMMA ManagerCount ==
  ASSUME ManagerInv, NEW c \in Clients, Manager!Count(c)
  PROVE  ManagerInv'
  <1> DEFINE p == place[c]
  <1>1. /\ Manager!At(c, "count") /\ Manager!Proceeds(c, p.todo)
        /\ UNCHANGED <<plugins, pluginsMutex, statsMutex, started, stopped, fate, contested,
                       broken>>
    BY DEF Manager!Count, Manager!history
  <1>2. /\ UNCHANGED <<calls, now>> /\ p.phase = "count" /\ p \in Hand
    BY <1>1, ManagerAt
  <1>3. p.todo \in SUBSET SomeIds BY <1>2, HandFields
  <1>4. p.phase \in Between /\ p.phase # "mark" /\ p.phase \notin Leaving
    BY <1>2 DEF Between, Leaving
  <1>5. /\ place' \in [Clients -> Hand] /\ \A d \in Clients \ {c} : place'[d] = place[d]
        /\ Owned(place'[c]) \subseteq Owned(p)
    BY <1>1, <1>3, <1>4, ManagerProceeds
  <1>6. InHands(place[c])' BY <1>1, <1>2, <1>3, <1>4, ManagerProceedsInHands
  <1>7. /\ calls' \in {calls, calls + 1} /\ calls' <= FewCalls
        /\ pluginsMutex' \in Clients \cup {"NONE"} /\ statsMutex' \in Clients \cup {"NONE"}
        /\ broken' \in BOOLEAN /\ stopped \subseteq stopped' /\ stopped' \subseteq Instance
    BY <1>1, <1>2, PluginsAssumption DEF ManagerInv, ManagerTypes
  <1>8. \A m \in Owned(place'[c]) : Free(c, m) BY <1>5 DEF Free
  <1> QED BY <1>1, <1>2, <1>4, <1>5, <1>6, <1>7, <1>8, ManagerMoves

\* Every step.
LEMMA ManagerStep == ManagerInv /\ [Manager!Next]_(Manager!vars) => ManagerInv'
  <1> SUFFICES ASSUME ManagerInv, [Manager!Next]_(Manager!vars) PROVE ManagerInv'
    OBVIOUS
  <1>1. CASE UNCHANGED Manager!vars
    <2>1. UNCHANGED <<calls, now, plugins, pluginsMutex, statsMutex, place, started, stopped,
                      fate, contested, broken>>
      BY <1>1 DEF Manager!vars, Manager!own, Manager!history
    <2> QED BY <2>1 DEF ManagerInv, ManagerTypes, ManagerHands, ManagerTable, ManagerStarts,
                        InHands
  <1>2. CASE Manager!Next
    <2>1. PICK c \in Clients :
            \/ \E id \in SomeIds :
                 \/ \E deps \in SUBSET (SomeIds \ {id}), required \in BOOLEAN :
                      Manager!Load(c, id, deps, required)
                 \/ Manager!DisablePlugin(c, id) \/ Manager!Reload(c, id)
            \/ \E ids \in {Manager!Listed} \cup {{id} : id \in SomeIds} : Manager!Unload(c, ids)
            \/ Manager!StartAllPlugins(c) \/ Manager!StopAllPlugins(c)
            \/ Manager!GetStatistics(c) \/ Manager!GetAllPluginInfo(c)
            \/ Manager!Steps(c)
      BY <1>2 DEF Manager!Next
    <2>2. CASE \E id \in SomeIds :
                 \E deps \in SUBSET (SomeIds \ {id}), required \in BOOLEAN :
                   Manager!Load(c, id, deps, required)
      <3>1. \A id : SUBSET (SomeIds \ {id}) \subseteq SUBSET SomeIds OBVIOUS
      <3> QED BY <2>2, <3>1, ManagerLoads
    <2>3. CASE \E id \in SomeIds : Manager!DisablePlugin(c, id) \/ Manager!Reload(c, id)
      BY <2>3, ManagerDisable, ManagerReload
    <2>4. CASE \E ids \in {Manager!Listed} \cup {{id} : id \in SomeIds} : Manager!Unload(c, ids)
      <3>1. {Manager!Listed} \cup {{id} : id \in SomeIds} \subseteq SUBSET SomeIds
        BY DEF Manager!Listed
      <3> QED BY <2>4, <3>1, ManagerUnload
    <2>5. CASE Manager!Steps(c)
      BY <2>5, ManagerInsert, ManagerPluginCalled, ManagerMark, ManagerPluginStarts,
         ManagerLoads, ManagerUnloads, ManagerTake, ManagerCount, ManagerUnlocks DEF Manager!Steps
    <2> QED BY <2>1, <2>2, <2>3, <2>4, <2>5, ManagerLocks
  <1> QED BY <1>1, <1>2

\* The part's properties: no instance gets lost, and none is unloaded while it runs.
LEMMA ManagerHolds ==
  ASSUME ManagerInv
  PROVE  /\ Manager!TypeOK /\ Manager!InstancesAccounted
         /\ Manager!RunningIsStartedAndStopped
  <1>1. Manager!TypeOK
    <2>1. /\ PluginEntry = Manager!Entry /\ NoEntry = Manager!None
          /\ Manager!Instances = Instance /\ Manager!NoClient = "NONE"
      BY DEF PluginEntry, NoEntry, Manager!Entry, Manager!None, Instance, Manager!Instances,
             Manager!NoClient
    <2>2. \A c \in Clients : /\ place[c].phase \in Manager!Phases
                             /\ place[c].todo \subseteq SomeIds
                             /\ place[c].entry \in Manager!Entry \cup {Manager!None}
                             /\ place[c].again \in Manager!Entry \cup {Manager!None}
      <3> TAKE c \in Clients
      <3>1. place[c] \in Hand BY DEF ManagerInv, ManagerTypes
      <3> QED BY <2>1, <3>1, HandFields
    <2> QED BY <2>1, <2>2 DEF ManagerInv, ManagerTypes, Manager!TypeOK, Manager!CallersTypeOK
  <1>2. Manager!InstancesAccounted
    BY DEF ManagerInv, ManagerTable, Manager!InstancesAccounted, Manager!Instances, Instance,
           Leaving
  <1>3. Manager!RunningIsStartedAndStopped
    BY DEF ManagerInv, ManagerStarts, Manager!RunningIsStartedAndStopped, Manager!Listed
  <1> QED BY <1>1, <1>2, <1>3

-----------------------------------------------------------------------------
(* The lifecycle of a plugin.                                              *)

\* The states that need a plugin to be initialized, and how far it has come before: what a
\* state says of those before it, since LOADING.
LifecycleInv ==
  /\ Lifecycle!TypeOK
  /\ state \in {"LOADED", "RESOLVING", "RESOLVED", "INITIALIZING", "INITIALIZED", "STARTING",
                "RUNNING", "PAUSED", "STOPPING", "STOPPED"} => "LOADED" \in since
  /\ state \in {"RESOLVED", "INITIALIZING", "INITIALIZED", "STARTING", "RUNNING", "PAUSED",
                "STOPPING", "STOPPED"} => "RESOLVED" \in since
  /\ state \in {"INITIALIZED", "STARTING", "RUNNING", "PAUSED", "STOPPING",
                "STOPPED"} => "INITIALIZED" \in since

\* The invariant holds of a new plugin.
LEMMA LifecycleInit == Lifecycle!Init => LifecycleInv
  BY CallersAssumption, PluginsAssumption
  DEF Lifecycle!Init, LifecycleInv, Lifecycle!TypeOK, Lifecycle!CallersTypeOK,
      Lifecycle!CallersInit, Lifecycle!PluginState

\* Every step.
LEMMA LifecycleStep == LifecycleInv /\ [Lifecycle!Next]_(Lifecycle!vars) => LifecycleInv'
  <1> SUFFICES ASSUME LifecycleInv, [Lifecycle!Next]_(Lifecycle!vars) PROVE LifecycleInv'
    OBVIOUS
  <1> USE PluginsAssumption
  <1>1. ASSUME NEW to \in Lifecycle!PluginState, Lifecycle!Transition(to) PROVE LifecycleInv'
    <2>1. Lifecycle!TypeOK'
      BY <1>1 DEF Lifecycle!Transition, LifecycleInv, Lifecycle!TypeOK, Lifecycle!CallersTypeOK
    <2>2. CASE to = state
      BY <1>1, <2>1, <2>2 DEF Lifecycle!Transition, LifecycleInv
    <2>3. CASE to = "ERROR"
      BY <1>1, <2>1, <2>3 DEF Lifecycle!Transition, LifecycleInv
    <2>4. CASE <<state, to>> \in Lifecycle!TransitionRules
      BY <1>1, <2>1, <2>4 DEF Lifecycle!Transition, LifecycleInv, Lifecycle!TransitionRules
    <2> QED BY <1>1, <2>2, <2>3, <2>4 DEF Lifecycle!Transition, Lifecycle!CanTransition
  <1>2. CASE Lifecycle!RegisterHook \/ Lifecycle!ClearHooks
    BY <1>2 DEF Lifecycle!RegisterHook, Lifecycle!ClearHooks, Lifecycle!Called, LifecycleInv,
                Lifecycle!TypeOK, Lifecycle!CallersTypeOK
  <1>3. ASSUME NEW c \in Clients, Lifecycle!TriggerEvent(c) PROVE LifecycleInv'
    BY <1>3 DEF Lifecycle!TriggerEvent, Lifecycle!Called, LifecycleInv, Lifecycle!TypeOK,
                Lifecycle!CallersTypeOK
  <1>4. ASSUME NEW c \in Clients, NEW good \in BOOLEAN, Lifecycle!HookCalled(c, good)
        PROVE  LifecycleInv'
    <2>1. firing' \in [Clients -> Nat]
      BY <1>4 DEF Lifecycle!HookCalled, LifecycleInv, Lifecycle!TypeOK
    <2>2. fired' \subseteq BOOLEAN
      BY <1>4 DEF Lifecycle!HookCalled, LifecycleInv, Lifecycle!TypeOK
    <2> QED
      BY <1>4, <2>1, <2>2 DEF Lifecycle!HookCalled, LifecycleInv, Lifecycle!TypeOK,
                              Lifecycle!CallersTypeOK
  <1>5. CASE UNCHANGED Lifecycle!vars
    BY <1>5 DEF Lifecycle!vars, Lifecycle!own, LifecycleInv, Lifecycle!TypeOK,
                Lifecycle!CallersTypeOK
  <1> QED BY <1>1, <1>2, <1>3, <1>4, <1>5 DEF Lifecycle!Next

\* What the invariant is for.
LEMMA LifecycleHolds == LifecycleInv => Lifecycle!TypeOK /\ Lifecycle!StartedIsInitialized
  BY DEF LifecycleInv, Lifecycle!StartedIsInitialized, Lifecycle!IsRunningState

-----------------------------------------------------------------------------
(* The dependency resolver: its nodes.                                     *)

\* Of the plugins that were not added since the dependents were computed, each has just
\* those as dependents that depend on it: removePlugin() tears the edges at both ends.
DependentsAgree ==
  \A id \in Resolver!Listed \ added, j \in Ids \ added :
    j \in nodes[id].dependents <=> j \in Resolver!Listed /\ id \in nodes[j].dependencies

ResolverInv == Resolver!TypeOK /\ DependentsAgree

ResolverNode ==
  [here : BOOLEAN, spec : Resolver!PluginSpec, dependencies : SUBSET Ids, dependents : SUBSET Ids]

\* A node that is not there has the type of one.
LEMMA ResolverNoNode == Resolver!NoNode \in ResolverNode
  BY DEF ResolverNode, Resolver!NoNode, Resolver!NoSpec, Resolver!PluginSpec, Resolver!Versions,
         Resolver!Constraint, Resolver!DefaultConstraint

\* The invariant holds of an empty resolver.
LEMMA ResolverInit == Resolver!Init => ResolverInv
  <1> SUFFICES ASSUME Resolver!Init PROVE ResolverInv
    OBVIOUS
  <1>1. nodes = [id \in Ids |-> Resolver!NoNode] /\ added = {} BY DEF Resolver!Init
  <1>2. nodes \in [Ids -> ResolverNode] BY <1>1, ResolverNoNode
  <1>3. \A id \in Ids : nodes[id] = Resolver!NoNode BY <1>1
  <1>4. Resolver!Listed = {} BY <1>3 DEF Resolver!Listed, Resolver!NoNode
  <1>5. Resolver!CallersTypeOK
    BY CallersAssumption DEF Resolver!Init, Resolver!CallersInit, Resolver!CallersTypeOK
  <1> QED BY <1>1, <1>2, <1>4, <1>5
          DEF ResolverInv, DependentsAgree, Resolver!TypeOK, ResolverNode

\* Every step.
LEMMA ResolverStep == ResolverInv /\ [Resolver!Next]_(Resolver!vars) => ResolverInv'
  <1> SUFFICES ASSUME ResolverInv, [Resolver!Next]_(Resolver!vars) PROVE ResolverInv'
    OBVIOUS
  <1>0. nodes \in [Ids -> ResolverNode] /\ added \subseteq Ids
    BY DEF ResolverInv, Resolver!TypeOK, ResolverNode
  <1> SUFFICES ASSUME ~UNCHANGED Resolver!vars
               PROVE  ResolverInv'
    BY DEF Resolver!vars, Resolver!own, ResolverInv, Resolver!TypeOK, Resolver!CallersTypeOK,
           DependentsAgree, Resolver!Listed
  <1>1. Resolver!Called BY DEF Resolver!Next, Resolver!AddPlugin, Resolver!RemovePlugin,
                               Resolver!Clear, Resolver!Resolve
  <1>2. Resolver!CallersTypeOK'
    BY <1>1, CallersAssumption
       DEF Resolver!Called, Resolver!CallersTypeOK, ResolverInv, Resolver!TypeOK
  <1> SUFFICES nodes' \in [Ids -> ResolverNode] /\ added' \subseteq Ids /\ DependentsAgree'
    BY <1>2 DEF ResolverInv, Resolver!TypeOK, ResolverNode
  <1>3. ASSUME NEW id \in Ids, NEW deps \in SUBSET Ids, NEW required \in BOOLEAN,
               NEW version \in Resolver!Versions,
               Resolver!AddPlugin(id, [deps |-> deps, required |-> required,
                                       version |-> version,
                                       constraint |-> Resolver!DefaultConstraint])
        PROVE  nodes' \in [Ids -> ResolverNode] /\ added' \subseteq Ids /\ DependentsAgree'
    <2> DEFINE spec == [deps |-> deps, required |-> required, version |-> version,
                        constraint |-> Resolver!DefaultConstraint]
               node == [here |-> TRUE, spec |-> spec, dependencies |-> deps,
                        dependents |-> {}]
    <2>1. spec \in Resolver!PluginSpec
      BY DEF Resolver!PluginSpec, Resolver!Versions, Resolver!Constraint,
             Resolver!DefaultConstraint
    <2>2. nodes' = [nodes EXCEPT ![id] = node] /\ added' = added \cup {id}
      BY <1>3 DEF Resolver!AddPlugin
    <2>3. node \in ResolverNode BY <2>1 DEF ResolverNode
    <2> HIDE DEF node
    <2>4. nodes' \in [Ids -> ResolverNode] BY <1>0, <2>2, <2>3
    <2>5. \A j \in Ids \ added' : nodes'[j] = nodes[j] BY <1>0, <2>2
    <2>6. DependentsAgree'
      BY <2>2, <2>5 DEF ResolverInv, DependentsAgree, Resolver!Listed
    <2> QED BY <1>0, <2>2, <2>4, <2>6
  <1>4. ASSUME NEW id \in Ids, Resolver!RemovePlugin(id)
        PROVE  nodes' \in [Ids -> ResolverNode] /\ added' \subseteq Ids /\ DependentsAgree'
    <2>1. /\ nodes' = [j \in Ids |-> IF j = id THEN Resolver!NoNode
                                     ELSE [nodes[j] EXCEPT !.dependencies = @ \ {id},
                                                           !.dependents = @ \ {id}]]
          /\ added' = added \ {id}
      BY <1>4 DEF Resolver!RemovePlugin
    <2>2. ASSUME NEW j \in Ids, j # id
          PROVE  /\ nodes'[j] \in ResolverNode
                 /\ nodes'[j].here = nodes[j].here
                 /\ nodes'[j].dependencies = nodes[j].dependencies \ {id}
                 /\ nodes'[j].dependents = nodes[j].dependents \ {id}
      <3>1. nodes'[j] = [nodes[j] EXCEPT !.dependencies = @ \ {id}, !.dependents = @ \ {id}]
        BY <2>1, <2>2
      <3>2. nodes[j] \in ResolverNode BY <1>0
      <3> QED BY <3>1, <3>2 DEF ResolverNode
    <2>3. nodes'[id] = Resolver!NoNode BY <2>1
    <2>4. nodes' \in [Ids -> ResolverNode]
      <3>1. \A j \in Ids : nodes'[j] \in ResolverNode BY <2>2, <2>3, ResolverNoNode
      <3>2. nodes' = [j \in Ids |-> nodes'[j]] BY <2>1
      <3> QED BY <3>1, <3>2
    <2>5. ~nodes'[id].here BY <2>3 DEF Resolver!NoNode
    <2>6. DependentsAgree'
      <3> SUFFICES ASSUME NEW i \in Ids, nodes'[i].here, i \notin added',
                          NEW j \in Ids, j \notin added'
                   PROVE  j \in nodes'[i].dependents <=>
                            nodes'[j].here /\ i \in nodes'[j].dependencies
        BY DEF DependentsAgree, Resolver!Listed
      <3>1. i # id /\ i \notin added /\ nodes[i].here BY <2>1, <2>2, <2>5
      <3>2. CASE j = id
        BY <2>2, <2>5, <3>1, <3>2
      <3>3. CASE j # id
        <4>1. j \notin added BY <2>1, <3>3
        <4>2. j \in nodes[i].dependents <=> nodes[j].here /\ i \in nodes[j].dependencies
          BY <3>1, <4>1 DEF ResolverInv, DependentsAgree, Resolver!Listed
        <4> QED BY <2>2, <3>1, <3>3, <4>2
      <3> QED BY <3>2, <3>3
    <2> QED BY <1>0, <2>1, <2>4, <2>6
  <1>5. CASE Resolver!Clear
    <2>1. nodes' = [id \in Ids |-> Resolver!NoNode] /\ added' = {}
      BY <1>5 DEF Resolver!Clear
    <2>2. \A id \in Ids : ~nodes'[id].here BY <2>1 DEF Resolver!NoNode
    <2> QED BY <2>1, <2>2, ResolverNoNode DEF DependentsAgree, Resolver!Listed
  <1>6. CASE Resolver!Resolve
    <2>1. /\ nodes' = [id \in Ids |-> IF id \in Resolver!Listed
                                      THEN [nodes[id] EXCEPT !.dependents =
                                              {j \in Resolver!Listed : id \in nodes[j].dependencies}]
                                      ELSE Resolver!NoNode]
          /\ added' = {}
      BY <1>6 DEF Resolver!Resolve, Resolver!BuildDependencyGraph
    <2>2. ASSUME NEW id \in Ids, nodes[id].here
          PROVE  /\ nodes'[id] \in ResolverNode
                 /\ nodes'[id].here
                 /\ nodes'[id].dependencies = nodes[id].dependencies
                 /\ nodes'[id].dependents =
                      {j \in Resolver!Listed : id \in nodes[j].dependencies}
      <3>1. nodes'[id] = [nodes[id] EXCEPT !.dependents =
                            {j \in Resolver!Listed : id \in nodes[j].dependencies}]
        BY <2>1, <2>2 DEF Resolver!Listed
      <3>2. nodes[id] \in ResolverNode BY <1>0
      <3>3. Resolver!Listed \subseteq Ids BY DEF Resolver!Listed
      <3> HIDE DEF Resolver!Listed
      <3> QED BY <2>2, <3>1, <3>2, <3>3 DEF ResolverNode
    <2>3. \A id \in Ids : ~nodes[id].here => nodes'[id] = Resolver!NoNode
      BY <2>1 DEF Resolver!Listed
    <2>4. nodes' \in [Ids -> ResolverNode]
      <3>1. \A j \in Ids : nodes'[j] \in ResolverNode BY <2>2, <2>3, ResolverNoNode
      <3>2. nodes' = [j \in Ids |-> nodes'[j]] BY <2>1
      <3> QED BY <3>1, <3>2
    <2>5. \A id \in Ids : nodes'[id].here <=> nodes[id].here
      BY <2>2, <2>3 DEF Resolver!NoNode
    <2>6. DependentsAgree'
      BY <2>1, <2>2, <2>5 DEF DependentsAgree, Resolver!Listed
    <2> QED BY <2>1, <2>4, <2>6
  <1>7. \A id \in Ids : Resolver!Dependencies(id) \subseteq SUBSET Ids
    <2> SUFFICES ASSUME NEW id \in Ids, NEW deps \in Resolver!Dependencies(id)
                 PROVE  deps \subseteq Ids
      OBVIOUS
    <2>1. deps \in SUBSET (Ids \ {id}) \/ deps = {id} BY DEF Resolver!Dependencies
    <2> QED BY <2>1
  <1> QED BY <1>3, <1>4, <1>5, <1>6, <1>7 DEF Resolver!Next

\* What removePlugin() asks of the dependents is asked of the dependencies.
LEMMA ResolverUnloads == ResolverInv => Resolver!UnloadIsSafe
  <1> SUFFICES ASSUME ResolverInv, added = {}, NEW id \in Resolver!Listed
               PROVE  Resolver!CanUnload(id) <=>
                        \A j \in Resolver!Listed : id \notin nodes[j].dependencies
    BY DEF Resolver!UnloadIsSafe
  <1>1. \A j \in Ids : j \in nodes[id].dependents <=>
                         j \in Resolver!Listed /\ id \in nodes[j].dependencies
    BY DEF ResolverInv, DependentsAgree
  <1>2. nodes[id].dependents \subseteq Ids /\ Resolver!Listed \subseteq Ids
    BY DEF ResolverInv, Resolver!TypeOK, Resolver!Listed
  <1> QED BY <1>1, <1>2 DEF Resolver!CanUnload

-----------------------------------------------------------------------------
(* The dependency resolver: its search comes to an end.                    *)

Graph == nodes \in [Ids -> ResolverNode]

\* One turn of the search, and the effort that a search has before it.
SearchTurn(s, f) ==
  IF s.left = {} THEN s
  ELSE LET id == CHOOSE id \in s.left : TRUE
       IN  f[IF id \in s.visited \/ id \notin Resolver!Listed THEN Resolver!Pass(s, id)
             ELSE Resolver!Ascend(s, f[Resolver!Descend(s, id)], id)]

Effort(s) == Cardinality(Ids \ s.visited) * (Cardinality(Ids) + 1) + Cardinality(s.left)

\* The fields of a search.
LEMMA SearchParts ==
  ASSUME NEW s \in Resolver!Search
  PROVE  /\ s.left \subseteq Ids /\ s.path \in Seq(Ids) /\ s.visited \subseteq Ids
         /\ s.result \in Seq(Ids) /\ s.cycles \subseteq Seq(Ids)
  BY DEF Resolver!Search

\* Identifiers are finitely many.
LEMMA IdsCounted ==
  /\ IsFiniteSet(Ids) /\ Cardinality(Ids) \in Nat
  /\ \A S \in SUBSET Ids : /\ IsFiniteSet(S) /\ Cardinality(S) \in 0 .. Cardinality(Ids)
                           /\ \A R \in SUBSET S : /\ Cardinality(R) <= Cardinality(S)
                                                  /\ R # S => Cardinality(R) < Cardinality(S)
  <1>1. IsFiniteSet(Ids) /\ Cardinality(Ids) \in Nat BY CallersAssumption, FS_CardinalityType
  <1>2. ASSUME NEW S \in SUBSET Ids
        PROVE  IsFiniteSet(S) /\ Cardinality(S) \in 0 .. Cardinality(Ids)
    <2>1. IsFiniteSet(S) /\ Cardinality(S) <= Cardinality(Ids) BY <1>1, FS_Subset
    <2> QED BY <1>1, <2>1, FS_CardinalityType
  <1>3. ASSUME NEW S \in SUBSET Ids, NEW R \in SUBSET S
        PROVE  /\ Cardinality(R) <= Cardinality(S)
               /\ R # S => Cardinality(R) < Cardinality(S)
    BY <1>2, FS_Subset
  <1> QED BY <1>1, <1>2, <1>3

\* The effort is a number below a bound.
LEMMA EffortTyped ==
  ASSUME NEW s \in Resolver!Search
  PROVE  /\ Effort(s) \in Nat
         /\ Effort(s) <= Cardinality(Ids) * (Cardinality(Ids) + 1) + Cardinality(Ids)
  <1> DEFINE a == Cardinality(Ids \ s.visited)
             k == Cardinality(Ids)
             c == Cardinality(s.left)
  <1>1. a \in 0 .. k /\ k \in Nat /\ c \in 0 .. k
    <2>1. Ids \ s.visited \in SUBSET Ids /\ s.left \in SUBSET Ids BY SearchParts
    <2> QED BY <2>1, IdsCounted
  <1>2. Effort(s) = a * (k + 1) + c BY DEF Effort
  <1> HIDE DEF a, k, c
  <1>3. k - a \in Nat /\ (k - a) * (k + 1) \in Nat /\ a * (k + 1) \in Nat BY <1>1
  <1>4. k * (k + 1) = a * (k + 1) + (k - a) * (k + 1) BY <1>1
  <1>5. Effort(s) \in Nat /\ Effort(s) <= k * (k + 1) + k BY <1>1, <1>2, <1>3, <1>4
  <1> QED BY <1>5 DEF k

\* One round less outweighs all that a round can have left.
LEMMA FewerRounds ==
  ASSUME NEW a \in Nat, NEW b \in Nat, NEW k \in Nat, NEW c \in 0 .. k, NEW d \in Nat, a < b
  PROVE  a * (k + 1) + c < b * (k + 1) + d
  <1>1. b - a - 1 \in Nat OBVIOUS
  <1>2. b * (k + 1) = a * (k + 1) + (k + 1) + (b - a - 1) * (k + 1) OBVIOUS
  <1>3. (b - a - 1) * (k + 1) \in Nat /\ a * (k + 1) \in Nat BY <1>1
  <1> QED BY <1>2, <1>3

\* A search that has visited more, or as much and has fewer plugins left, is less effort.
LEMMA LessEffort ==
  ASSUME NEW s \in Resolver!Search, NEW other \in Resolver!Search,
         s.visited \subseteq other.visited,
         \/ s.visited # other.visited
         \/ other.left \subseteq s.left /\ other.left # s.left
  PROVE  Effort(other) < Effort(s)
  <1> DEFINE a == Cardinality(Ids \ other.visited)
             b == Cardinality(Ids \ s.visited)
             k == Cardinality(Ids)
             c == Cardinality(other.left)
             d == Cardinality(s.left)
  <1>0. /\ Ids \ s.visited \in SUBSET Ids /\ s.left \in SUBSET Ids
        /\ Ids \ other.visited \in SUBSET Ids /\ other.left \in SUBSET Ids
        /\ Ids \ other.visited \subseteq Ids \ s.visited
        /\ s.visited # other.visited => Ids \ other.visited # Ids \ s.visited
    BY SearchParts
  <1>1. /\ a \in Nat /\ b \in Nat /\ k \in Nat /\ c \in 0 .. k /\ d \in Nat /\ a <= b
        /\ a < b \/ (a = b /\ c < d)
    BY <1>0, IdsCounted
  <1>2. Effort(other) = a * (k + 1) + c /\ Effort(s) = b * (k + 1) + d BY DEF Effort
  <1> HIDE DEF a, b, c, d, k
  <1>3. CASE a < b BY <1>1, <1>2, <1>3, FewerRounds
  <1>4. CASE a = b /\ c < d
    <2>1. a * (k + 1) \in Nat BY <1>1
    <2> QED BY <1>1, <1>2, <1>4, <2>1
  <1> QED BY <1>1, <1>3, <1>4

\* A node on the path closes one cycle, and another one none.
LEMMA ClosedIs ==
  ASSUME NEW path \in Seq(Ids), NEW id
  PROVE  /\ Resolver!Closed(path, id) \subseteq Seq(Ids)
         /\ \/ Resolver!Closed(path, id) = {} /\ \A i \in 1 .. Len(path) : path[i] # id
            \/ \E i \in 1 .. Len(path) : /\ path[i] = id
                                         /\ Resolver!Closed(path, id) = {SubSeq(path, i, Len(path))}
  <1>1. DOMAIN path = 1 .. Len(path) OBVIOUS
  <1>2. CASE id \notin Resolver!Range(path)
    BY <1>1, <1>2 DEF Resolver!Closed, Resolver!Range
  <1>3. CASE id \in Resolver!Range(path)
    <2> DEFINE i == CHOOSE i \in DOMAIN path : path[i] = id
    <2>1. \E j \in DOMAIN path : path[j] = id BY <1>3 DEF Resolver!Range
    <2>2. i \in 1 .. Len(path) /\ path[i] = id BY <1>1, <2>1
    <2>3. Resolver!Closed(path, id) = {SubSeq(path, i, Len(path))} BY <1>3 DEF Resolver!Closed
    <2> HIDE DEF i
    <2>4. SubSeq(path, i, Len(path)) \in Seq(Ids) BY <2>2
    <2> QED BY <2>2, <2>3, <2>4
  <1> QED BY <1>2, <1>3

\* The search passes a visited node, ...
LEMMA PassParts ==
  ASSUME NEW s \in Resolver!Search, NEW id \in s.left
  PROVE  /\ Resolver!Pass(s, id) \in Resolver!Search
         /\ s.visited \subseteq Resolver!Pass(s, id).visited
         /\ Effort(Resolver!Pass(s, id)) < Effort(s)
  <1> DEFINE other == Resolver!Pass(s, id)
  <1>1. /\ other.left = s.left \ {id} /\ other.path = s.path /\ other.result = s.result
        /\ other.visited = s.visited \cup {id}
        /\ other.cycles = s.cycles \cup Resolver!Closed(s.path, id)
    BY DEF Resolver!Pass
  <1>2. other \in Resolver!Search
    <2>1. Resolver!Closed(s.path, id) \subseteq Seq(Ids) BY SearchParts, ClosedIs
    <2> QED BY <2>1, SearchParts DEF Resolver!Search, Resolver!Pass
  <1> HIDE DEF other
  <1>3. s.visited \subseteq other.visited BY <1>1
  <1>4. other.left \subseteq s.left /\ other.left # s.left BY <1>1
  <1>5. Effort(other) < Effort(s) BY <1>2, <1>3, <1>4, LessEffort
  <1> QED BY <1>2, <1>3, <1>5 DEF other

\* ... descends into one that is not, ...
LEMMA DescendParts ==
  ASSUME Graph, NEW s \in Resolver!Search, NEW id \in s.left, id \notin s.visited
  PROVE  /\ Resolver!Descend(s, id) \in Resolver!Search
         /\ s.visited \subseteq Resolver!Descend(s, id).visited
         /\ id \in Resolver!Descend(s, id).visited
         /\ Effort(Resolver!Descend(s, id)) < Effort(s)
  <1> DEFINE other == Resolver!Descend(s, id)
  <1>1. other.visited = s.visited \cup {id} BY DEF Resolver!Descend
  <1>2. other \in Resolver!Search
    <2>1. id \in Ids BY SearchParts
    <2>2. nodes[id].dependencies \in SUBSET Ids BY <2>1 DEF Graph, ResolverNode
    <2>3. Append(s.path, id) \in Seq(Ids) /\ s.visited \cup {id} \in SUBSET Ids
      BY <2>1, SearchParts
    <2> QED BY <2>2, <2>3, SearchParts DEF Resolver!Search, Resolver!Descend
  <1> HIDE DEF other
  <1>3. s.visited \subseteq other.visited /\ s.visited # other.visited /\ id \in other.visited
    BY <1>1
  <1>4. Effort(other) < Effort(s) BY <1>2, <1>3, LessEffort
  <1> QED BY <1>2, <1>3, <1>4 DEF other

\* ... and comes back from it: each time there is less to do.
LEMMA AscendParts ==
  ASSUME NEW s \in Resolver!Search, NEW id \in s.left, id \notin s.visited,
         NEW below \in Resolver!Search, s.visited \subseteq below.visited, id \in below.visited
  PROVE  /\ Resolver!Ascend(s, below, id) \in Resolver!Search
         /\ s.visited \subseteq Resolver!Ascend(s, below, id).visited
         /\ Effort(Resolver!Ascend(s, below, id)) < Effort(s)
  <1> DEFINE other == Resolver!Ascend(s, below, id)
  <1>1. other.visited = below.visited BY DEF Resolver!Ascend
  <1>2. other \in Resolver!Search
    <2>1. id \in Ids BY SearchParts
    <2>2. below.result \in Seq(Ids) BY SearchParts
    <2>3. Append(below.result, id) \in Seq(Ids) BY <2>1, <2>2
    <2> QED BY <2>3, SearchParts DEF Resolver!Search, Resolver!Ascend
  <1> HIDE DEF other
  <1>3. s.visited \subseteq other.visited /\ s.visited # other.visited BY <1>1
  <1>4. Effort(other) < Effort(s) BY <1>2, <1>3, LessEffort
  <1> QED BY <1>2, <1>3, <1>4 DEF other

\* The searches up to some effort, and what the search may be on them.
Upto(effort) == {s \in Resolver!Search : Effort(s) <= effort}

Searching(effort) ==
  {f \in [Upto(effort) -> Resolver!Search] :
     \A s \in Upto(effort) : f[s] = SearchTurn(s, f) /\ s.visited \subseteq f[s].visited}

\* One turn looks at searches of less effort only.
LEMMA TurnLooksBelow ==
  ASSUME Graph, NEW effort \in Nat, NEW f \in Searching(effort), NEW s \in Resolver!Search,
         Effort(s) <= effort + 1
  PROVE  /\ SearchTurn(s, f) \in Resolver!Search
         /\ s.visited \subseteq SearchTurn(s, f).visited
         /\ \A g : (\A other \in Upto(effort) : g[other] = f[other])
                     => SearchTurn(s, g) = SearchTurn(s, f)
  <1> DEFINE id == CHOOSE id \in s.left : TRUE
  <1>0. /\ f \in [Upto(effort) -> Resolver!Search]
        /\ \A other \in Upto(effort) : other.visited \subseteq f[other].visited
        /\ \A other \in Resolver!Search : Effort(other) \in Nat
        /\ \A other \in Resolver!Search : Effort(other) < Effort(s) => other \in Upto(effort)
    <2>1. \A other \in Resolver!Search : Effort(other) \in Nat BY EffortTyped
    <2>2. \A other \in Resolver!Search : Effort(other) < Effort(s) => Effort(other) <= effort
      BY <2>1
    <2> QED BY <2>1, <2>2 DEF Searching, Upto
  <1>1. CASE s.left = {} BY <1>1 DEF SearchTurn
  <1>2. CASE s.left # {} /\ ~(id \in s.visited \/ id \notin Resolver!Listed)
    <2>1. id \in s.left /\ id \notin s.visited BY <1>2
    <2>5. \A g : SearchTurn(s, g) = g[Resolver!Ascend(s, g[Resolver!Descend(s, id)], id)]
      BY <1>2 DEF SearchTurn
    <2> HIDE DEF id
    <2> DEFINE down == Resolver!Descend(s, id)
               up == Resolver!Ascend(s, f[down], id)
    <2>2. /\ down \in Upto(effort) /\ s.visited \subseteq down.visited /\ id \in down.visited
      BY <1>0, <2>1, DescendParts
    <2> HIDE DEF down
    <2>3. /\ f[down] \in Resolver!Search /\ s.visited \subseteq f[down].visited
          /\ id \in f[down].visited
      BY <1>0, <2>2
    <2>4. up \in Upto(effort) /\ s.visited \subseteq up.visited
      BY <1>0, <2>1, <2>3, AscendParts
    <2>6. SearchTurn(s, f) = f[up] BY <2>5 DEF down
    <2>7. ASSUME NEW g, \A other \in Upto(effort) : g[other] = f[other]
          PROVE  SearchTurn(s, g) = SearchTurn(s, f)
      <3>1. g[down] = f[down] BY <2>2, <2>7
      <3>2. SearchTurn(s, g) = g[up] BY <2>5, <3>1 DEF down
      <3> QED BY <2>4, <2>6, <2>7, <3>2
    <2>8. f[up] \in Resolver!Search /\ s.visited \subseteq f[up].visited
      <3> HIDE DEF up
      <3> QED BY <1>0, <2>4
    <2> HIDE DEF up
    <2> QED BY <2>6, <2>7, <2>8
  <1>3. CASE s.left # {} /\ (id \in s.visited \/ id \notin Resolver!Listed)
    <2>1. id \in s.left BY <1>3
    <2>3. \A g : SearchTurn(s, g) = g[Resolver!Pass(s, id)] BY <1>3 DEF SearchTurn
    <2> HIDE DEF id
    <2> DEFINE on == Resolver!Pass(s, id)
    <2>2. on \in Upto(effort) /\ s.visited \subseteq on.visited BY <1>0, <2>1, PassParts
    <2> HIDE DEF on
    <2> QED BY <1>0, <2>2, <2>3 DEF on
  <1> QED BY <1>1, <1>2, <1>3

\* The search is defined up to any effort.
LEMMA SearchingExists ==
  ASSUME Graph, NEW most \in Nat
  PROVE  Searching(most) # {}
  <1> DEFINE good == {effort \in Nat : Searching(effort) # {}}
  <1>1. 0 \in good
    <2> DEFINE f == [s \in Upto(0) |-> s]
    <2>1. \A s \in Upto(0) : s \in Resolver!Search /\ s.left = {}
      <3> SUFFICES ASSUME NEW s \in Upto(0) PROVE s \in Resolver!Search /\ s.left = {}
        OBVIOUS
      <3>1. s \in Resolver!Search /\ Effort(s) <= 0 BY DEF Upto
      <3> SUFFICES ASSUME NEW id \in s.left PROVE FALSE
        BY <3>1
      <3>2. /\ Resolver!Pass(s, id) \in Resolver!Search
            /\ Effort(Resolver!Pass(s, id)) < Effort(s)
        BY <3>1, PassParts
      <3>3. Effort(Resolver!Pass(s, id)) \in Nat /\ Effort(s) \in Nat
        BY <3>1, <3>2, EffortTyped
      <3> QED BY <3>1, <3>2, <3>3
    <2>2. f \in [Upto(0) -> Resolver!Search] BY <2>1
    <2>3. \A s \in Upto(0) : f[s] = s /\ SearchTurn(s, f) = s BY <2>1 DEF SearchTurn
    <2> HIDE DEF f
    <2>4. f \in Searching(0) BY <2>2, <2>3 DEF Searching
    <2> QED BY <2>4
  <1>2. ASSUME NEW i \in 1 .. most, i - 1 \in good
        PROVE  i \in good
    <2>1. i - 1 \in Nat /\ i = (i - 1) + 1 OBVIOUS
    <2>2. PICK f \in Searching(i - 1) : TRUE BY <1>2
    <2> DEFINE g == [s \in Upto(i) |-> IF s \in Upto(i - 1) THEN f[s] ELSE SearchTurn(s, f)]
    <2>3. \A s \in Upto(i) :
            /\ SearchTurn(s, f) \in Resolver!Search
            /\ s.visited \subseteq SearchTurn(s, f).visited
            /\ \A h : (\A other \in Upto(i - 1) : h[other] = f[other])
                        => SearchTurn(s, h) = SearchTurn(s, f)
      BY <2>1, TurnLooksBelow DEF Upto
    <2>4. \A s \in Upto(i - 1) : s \in Upto(i) /\ f[s] = SearchTurn(s, f)
      BY EffortTyped DEF Searching, Upto
    <2>5. \A s \in Upto(i) : g[s] = SearchTurn(s, f) BY <2>4
    <2>6. \A other \in Upto(i - 1) : g[other] = f[other] BY <2>4
    <2>7. g \in [Upto(i) -> Resolver!Search]
      <3>1. DOMAIN g = Upto(i) /\ g = [s \in Upto(i) |-> g[s]] OBVIOUS
      <3> HIDE DEF g
      <3> QED BY <2>3, <2>5, <3>1
    <2> HIDE DEF g
    <2>8. \A s \in Upto(i) : SearchTurn(s, g) = SearchTurn(s, f) BY <2>3, <2>6
    <2>9. g \in Searching(i) BY <2>3, <2>5, <2>7, <2>8 DEF Searching
    <2> QED BY <2>9
  <1> HIDE DEF good
  <1>3. \A i \in 0 .. most : i \in good BY <1>1, <1>2, Upwards
  <1> QED BY <1>3 DEF good

\* The search is what its definition says.
LEMMA SearchIsDefined ==
  ASSUME Graph
  PROVE  \A s \in Resolver!Search : Resolver!search[s] = SearchTurn(s, Resolver!search)
  <1> DEFINE body(f) == [s \in Resolver!Search |-> SearchTurn(s, f)]
             most == Cardinality(Ids) * (Cardinality(Ids) + 1) + Cardinality(Ids)
  <1>1. Resolver!search = CHOOSE f : f = body(f) BY DEF Resolver!search, SearchTurn
  <1>2. most \in Nat /\ \A s \in Resolver!Search : Effort(s) <= most
    BY IdsCounted, EffortTyped
  <1> HIDE DEF most
  <1>3. Upto(most) = Resolver!Search BY <1>2 DEF Upto
  <1>4. PICK f \in Searching(most) : TRUE BY <1>2, SearchingExists
  <1>5. /\ f \in [Resolver!Search -> Resolver!Search]
        /\ \A s \in Resolver!Search : f[s] = SearchTurn(s, f)
    BY <1>3, <1>4 DEF Searching
  <1>6. f = body(f) BY <1>5
  <1> HIDE DEF body
  <1>7. Resolver!search = body(Resolver!search) BY <1>1, <1>6
  <1> QED BY <1>7 DEF body

\* What holds of a search if it holds of every search of less effort holds of all.
LEMMA SearchInduction ==
  ASSUME NEW good,
         \A s \in Resolver!Search :
           (\A other \in Resolver!Search : Effort(other) < Effort(s) => other \in good)
             => s \in good
  PROVE  \A s \in Resolver!Search : s \in good
  <1> DEFINE bad == {s \in Resolver!Search : s \notin good}
             efforts == {Effort(s) : s \in bad}
  <1> SUFFICES ASSUME bad # {} PROVE FALSE
    OBVIOUS
  <1>1. efforts \in SUBSET Nat /\ efforts # {} BY EffortTyped
  <1>2. PICK least \in efforts : \A number \in efforts : least <= number BY <1>1, LeastNumber
  <1>3. PICK s \in bad : least = Effort(s) OBVIOUS
  <1>4. ASSUME NEW other \in Resolver!Search, Effort(other) < Effort(s)
        PROVE  other \in good
    <2> SUFFICES ASSUME other \in bad PROVE FALSE
      OBVIOUS
    <2>1. least <= Effort(other) BY <1>2
    <2> QED BY <1>3, <1>4, <2>1, EffortTyped
  <1> QED BY <1>3, <1>4

-----------------------------------------------------------------------------
(* What the search finds.                                                  *)

Members(list) == {list[i] : i \in 1 .. Len(list)}

Distinct(list) == \A i, k \in 1 .. Len(list) : list[i] = list[k] => i = k

\* Each plugin of a path depends on the next one; on a cycle, the last on the first.
Path(list) ==
  /\ Distinct(list)
  /\ \A i \in 1 .. Len(list) : list[i] \in Resolver!Listed
  /\ \A i \in 1 .. Len(list) - 1 : list[i + 1] \in nodes[list[i]].dependencies

Cycle(list) ==
  /\ Len(list) # 0
  /\ \A i \in 1 .. Len(list) - 1 : list[i + 1] \in Resolver!Edges(list[i])
  /\ list[1] \in Resolver!Edges(list[Len(list)])

\* What the last plugin of the path depends on was visited, unless it is left to visit, and
\* is done if no cycle was met.
Exploring(s) ==
  LET last == s.path[Len(s.path)]
  IN  /\ s.left \subseteq nodes[last].dependencies
      /\ \A id \in Resolver!Edges(last) \ s.left :
           id \in s.visited /\ (s.cycles = {} => id \in Members(s.result))

\* A search on its way.
Sound(s) ==
  /\ Path(s.path)
  /\ s.path # <<>> => Exploring(s)
  /\ Distinct(s.result)
  /\ Members(s.result) \cap Members(s.path) = {}
  /\ Members(s.result) \cup Members(s.path) = s.visited \cap Resolver!Listed
  /\ \A cycle \in s.cycles : Cycle(cycle)
  /\ \A id \in Members(s.result) : Resolver!Edges(id) \subseteq s.visited
  /\ s.cycles = {} =>
       \A i \in 1 .. Len(s.result) : \A dep \in Resolver!Edges(s.result[i]) :
         \E k \in 1 .. Len(s.result) : k < i /\ s.result[k] = dep

\* A set of plugins that holds what its members depend on.
Whole(S) == S \subseteq Ids /\ \A id \in S : Resolver!Edges(id) \subseteq S

\* What became of a search when it is over: it went no further than it had to.
Became(s, r) ==
  /\ r \in Resolver!Search /\ r.left = {} /\ r.path = s.path
  /\ s.left \subseteq r.visited /\ s.visited \subseteq r.visited
  /\ Members(s.result) \subseteq Members(r.result) /\ s.cycles \subseteq r.cycles
  /\ \A S : Whole(S) /\ s.left \cap Resolver!Listed \subseteq S
              => r.visited \cap Resolver!Listed \subseteq s.visited \cup S

\* A list with one more element.
LEMMA Appended ==
  ASSUME NEW S, NEW list \in Seq(S), NEW item \in S
  PROVE  /\ Append(list, item) \in Seq(S) /\ Len(Append(list, item)) = Len(list) + 1
         /\ Append(list, item)[Len(list) + 1] = item
         /\ \A i \in 1 .. Len(list) : Append(list, item)[i] = list[i]
         /\ \A i \in 1 .. Len(list) + 1 : i \in 1 .. Len(list) \/ i = Len(list) + 1
         /\ Members(Append(list, item)) = Members(list) \cup {item}
         /\ Distinct(list) /\ item \notin Members(list) => Distinct(Append(list, item))
  <1> DEFINE n == Len(list)
             more == Append(list, item)
  <1>1. /\ more \in Seq(S) /\ n \in Nat /\ Len(more) = n + 1 /\ more[n + 1] = item
        /\ \A i \in 1 .. n : more[i] = list[i]
    OBVIOUS
  <1> HIDE DEF n, more
  <1>2. \A i \in 1 .. n + 1 : i \in 1 .. n \/ i = n + 1 BY <1>1
  <1>3. Members(list) = {list[i] : i \in 1 .. n} /\ Members(more) = {more[i] : i \in 1 .. n + 1}
    BY <1>1 DEF Members, n
  <1>4. Members(more) = Members(list) \cup {item}
    <2>1. n + 1 \in 1 .. n + 1 /\ \A i \in 1 .. n : i \in 1 .. n + 1 BY <1>1
    <2>2. ASSUME NEW x \in Members(more) PROVE x \in Members(list) \cup {item}
      BY <1>1, <1>2, <1>3
    <2>3. ASSUME NEW x \in Members(list) PROVE x \in Members(more) BY <1>1, <1>3, <2>1
    <2>4. item \in Members(more) BY <1>1, <1>3, <2>1
    <2> QED BY <2>2, <2>3, <2>4
  <1>5. ASSUME Distinct(list), item \notin Members(list) PROVE Distinct(more)
    <2>1. \A i, k \in 1 .. n : list[i] = list[k] => i = k BY <1>5 DEF Distinct, n
    <2>2. \A i \in 1 .. n : list[i] # item BY <1>3, <1>5
    <2>3. \A i, k \in 1 .. n + 1 : more[i] = more[k] => i = k BY <1>1, <1>2, <2>1, <2>2
    <2> QED BY <1>1, <2>3 DEF Distinct
  <1> QED BY <1>1, <1>2, <1>4, <1>5 DEF n, more

\* The part of a path from a plugin that the last one depends on is a cycle.
LEMMA PathCloses ==
  ASSUME NEW path \in Seq(Ids), Path(path), NEW i \in 1 .. Len(path),
         path[i] \in nodes[path[Len(path)]].dependencies
  PROVE  Cycle(SubSeq(path, i, Len(path)))
  <1> DEFINE n == Len(path)
             cycle == SubSeq(path, i, n)
             m == n - i + 1
  <1>1. /\ n \in Nat /\ m \in Nat \ {0} /\ Len(cycle) = m
        /\ \A k \in 1 .. m : cycle[k] = path[i + k - 1]
    OBVIOUS
  <1>2. /\ \A k \in 1 .. n : path[k] \in Resolver!Listed
        /\ \A k \in 1 .. n - 1 : path[k + 1] \in nodes[path[k]].dependencies
    BY DEF Path
  <1> HIDE DEF cycle
  <1>3. cycle[1] = path[i] /\ cycle[m] = path[n]
    <2>1. 1 \in 1 .. m /\ m \in 1 .. m /\ i + 1 - 1 = i /\ i + m - 1 = n BY <1>1
    <2>2. cycle[1] = path[i + 1 - 1] /\ cycle[m] = path[i + m - 1] BY <1>1, <2>1
    <2> QED BY <2>1, <2>2
  <1>4. cycle[1] \in Resolver!Edges(cycle[m]) BY <1>2, <1>3 DEF Resolver!Edges
  <1>5. ASSUME NEW k \in 1 .. m - 1 PROVE cycle[k + 1] \in Resolver!Edges(cycle[k])
    <2> DEFINE l == i + k - 1
    <2>1. /\ l \in 1 .. n - 1 /\ l + 1 \in 1 .. n /\ k \in 1 .. m /\ k + 1 \in 1 .. m
          /\ i + (k + 1) - 1 = l + 1
      BY <1>1
    <2>2. cycle[k] = path[l] BY <1>1, <2>1
    <2>3. cycle[k + 1] = path[l + 1]
      <3>1. cycle[k + 1] = path[i + (k + 1) - 1] BY <1>1, <2>1
      <3> QED BY <2>1, <3>1
    <2> HIDE DEF l
    <2> QED BY <1>2, <2>1, <2>2, <2>3 DEF Resolver!Edges
  <1> QED BY <1>1, <1>4, <1>5 DEF Cycle, cycle

\* A plugin that is passed by, ...
LEMMA PassSound ==
  ASSUME Graph, NEW s \in Resolver!Search, Sound(s), NEW id \in s.left,
         id \in s.visited \/ id \notin Resolver!Listed
  PROVE  Sound(Resolver!Pass(s, id))
  <1> DEFINE other == Resolver!Pass(s, id)
  <1>1. /\ other.left = s.left \ {id} /\ other.path = s.path /\ other.result = s.result
        /\ other.visited = s.visited \cup {id}
        /\ other.cycles = s.cycles \cup Resolver!Closed(s.path, id)
    BY DEF Resolver!Pass
  <1> HIDE DEF other
  <1>2. /\ s.path \in Seq(Ids) /\ DOMAIN s.path = 1 .. Len(s.path) BY SearchParts
  <1>3. other.visited \cap Resolver!Listed = s.visited \cap Resolver!Listed BY <1>1
  <1>4. \A cycle \in other.cycles : Cycle(cycle)
    <2>1. CASE Resolver!Closed(s.path, id) = {} BY <1>1, <2>1 DEF Sound
    <2>2. ASSUME NEW i \in 1 .. Len(s.path), s.path[i] = id,
                 Resolver!Closed(s.path, id) = {SubSeq(s.path, i, Len(s.path))}
          PROVE  Cycle(SubSeq(s.path, i, Len(s.path)))
      <3>1. s.path # <<>>
        <4>1. Len(<<>>) = 0 OBVIOUS
        <4> QED BY <4>1
      <3>2. id \in nodes[s.path[Len(s.path)]].dependencies BY <3>1 DEF Sound, Exploring
      <3> QED BY <1>2, <2>2, <3>2, PathCloses DEF Sound
    <2>3. \/ Resolver!Closed(s.path, id) = {}
          \/ \E i \in 1 .. Len(s.path) :
               /\ s.path[i] = id
               /\ Resolver!Closed(s.path, id) = {SubSeq(s.path, i, Len(s.path))}
      BY <1>2, ClosedIs
    <2>4. \A cycle \in s.cycles : Cycle(cycle) BY DEF Sound
    <2>5. ASSUME NEW i \in 1 .. Len(s.path), s.path[i] = id,
                 Resolver!Closed(s.path, id) = {SubSeq(s.path, i, Len(s.path))}
          PROVE  \A cycle \in Resolver!Closed(s.path, id) : Cycle(cycle)
      <3>1. Cycle(SubSeq(s.path, i, Len(s.path))) BY <2>2, <2>5
      <3> QED BY ONLY <2>5, <3>1
    <2>6. \A cycle \in Resolver!Closed(s.path, id) : Cycle(cycle) BY <2>1, <2>3, <2>5
    <2> QED BY <1>1, <2>4, <2>6
  <1>5. ASSUME s.path # <<>> PROVE Exploring(other)
    <2> DEFINE last == s.path[Len(s.path)]
    <2>1. /\ s.left \subseteq nodes[last].dependencies
          /\ \A j \in Resolver!Edges(last) \ s.left :
               j \in s.visited /\ (s.cycles = {} => j \in Members(s.result))
      BY <1>5 DEF Sound, Exploring
    <2>2. ASSUME id \in Resolver!Edges(last), other.cycles = {} PROVE id \in Members(s.result)
      <3>1. id \in Resolver!Listed BY <2>2 DEF Resolver!Edges
      <3>2. id \in Members(s.result) \cup Members(s.path) BY <3>1 DEF Sound
      <3>3. Resolver!Closed(s.path, id) = {} BY <1>1, <2>2
      <3>4. \A i \in 1 .. Len(s.path) : s.path[i] # id BY <1>2, <3>3, ClosedIs
      <3> QED BY <3>2, <3>4 DEF Members
    <2>3. last = other.path[Len(other.path)] BY <1>1
    <2> HIDE DEF last
    <2>4. \A j \in Resolver!Edges(last) \ other.left :
            j \in other.visited /\ (other.cycles = {} => j \in Members(other.result))
      BY <1>1, <2>1, <2>2
    <2> QED BY <1>1, <2>1, <2>3, <2>4 DEF Exploring
  <1>6. s.cycles \subseteq other.cycles BY <1>1
  <1>7. Sound(other) BY <1>1, <1>3, <1>4, <1>5, <1>6 DEF Sound
  <1> QED BY <1>7 DEF other

\* ... one that is entered, ...
LEMMA DescendSound ==
  ASSUME Graph, NEW s \in Resolver!Search, Sound(s), NEW id \in s.left,
         id \notin s.visited, id \in Resolver!Listed
  PROVE  Sound(Resolver!Descend(s, id))
  <1> DEFINE other == Resolver!Descend(s, id)
             n == Len(s.path)
             more == Append(s.path, id)
  <1>1. /\ other.left = nodes[id].dependencies /\ other.path = more /\ other.result = s.result
        /\ other.visited = s.visited \cup {id} /\ other.cycles = s.cycles
    BY DEF Resolver!Descend
  <1>2. /\ n \in Nat /\ Len(more) = n + 1 /\ more[n + 1] = id
        /\ \A i \in 1 .. n : more[i] = s.path[i]
        /\ \A i \in 1 .. n + 1 : i \in 1 .. n \/ i = n + 1
        /\ Members(more) = Members(s.path) \cup {id}
        /\ id \notin Members(s.path) => Distinct(more)
    <2>1. s.path \in Seq(Ids) /\ id \in Ids BY SearchParts
    <2>2. Distinct(s.path) BY DEF Sound, Path
    <2> QED BY <2>1, <2>2, Appended
  <1> HIDE DEF other, more
  <1>3. id \notin Members(s.path) /\ id \notin Members(s.result) BY DEF Sound
  <1>4. Path(more)
    <2>1. /\ \A i \in 1 .. n : s.path[i] \in Resolver!Listed
          /\ \A i \in 1 .. n - 1 : s.path[i + 1] \in nodes[s.path[i]].dependencies
      BY DEF Sound, Path
    <2>2. \A i \in 1 .. n + 1 : more[i] \in Resolver!Listed BY <1>2, <2>1
    <2>3. ASSUME NEW i \in 1 .. n PROVE more[i + 1] \in nodes[more[i]].dependencies
      <3>1. CASE i = n
        <4>1. s.path # <<>>
          <5>1. Len(<<>>) = 0 OBVIOUS
          <5> QED BY <5>1
        <4>2. id \in nodes[s.path[n]].dependencies BY <4>1 DEF Sound, Exploring
        <4> QED BY <1>2, <3>1, <4>2
      <3>2. CASE i # n
        <4>1. i \in 1 .. n - 1 /\ i + 1 \in 1 .. n BY <1>2, <3>2
        <4> QED BY <1>2, <2>1, <4>1
      <3> QED BY <3>1, <3>2
    <2>4. n + 1 - 1 = n BY <1>2
    <2> QED BY <1>2, <1>3, <2>2, <2>3, <2>4 DEF Path
  <1>5. Exploring(other)
    <2>1. other.path[Len(other.path)] = id BY <1>1, <1>2
    <2> QED BY <1>1, <2>1 DEF Exploring, Resolver!Edges
  <1>6. /\ Members(other.result) \cap Members(other.path) = {}
        /\ Members(other.result) \cup Members(other.path) = other.visited \cap Resolver!Listed
    <2>1. /\ Members(s.result) \cap Members(s.path) = {}
          /\ Members(s.result) \cup Members(s.path) = s.visited \cap Resolver!Listed
      BY DEF Sound
    <2> QED BY <1>1, <1>2, <1>3, <2>1
  <1>7. Sound(other)
    <2>1. /\ Distinct(s.result) /\ \A cycle \in s.cycles : Cycle(cycle)
          /\ \A j \in Members(s.result) : Resolver!Edges(j) \subseteq s.visited
          /\ s.cycles = {} =>
               \A i \in 1 .. Len(s.result) : \A dep \in Resolver!Edges(s.result[i]) :
                 \E k \in 1 .. Len(s.result) : k < i /\ s.result[k] = dep
      BY DEF Sound
    <2>2. \A j \in Members(other.result) : Resolver!Edges(j) \subseteq other.visited
      BY <1>1, <2>1
    <2> QED BY <1>1, <1>4, <1>5, <1>6, <2>1, <2>2 DEF Sound
  <1> QED BY <1>7 DEF other

\* ... and one that is done.
LEMMA AscendSound ==
  ASSUME Graph, NEW s \in Resolver!Search, Sound(s), NEW id \in s.left,
         id \notin s.visited, id \in Resolver!Listed,
         NEW below \in Resolver!Search, Sound(below), Became(Resolver!Descend(s, id), below)
  PROVE  /\ Sound(Resolver!Ascend(s, below, id))
         /\ Members(s.result) \subseteq Members(Resolver!Ascend(s, below, id).result)
         /\ s.cycles \subseteq Resolver!Ascend(s, below, id).cycles
  <1> DEFINE other == Resolver!Ascend(s, below, id)
             more == Append(below.result, id)
             n == Len(below.result)
  <1>1. /\ other.left = s.left \ {id} /\ other.path = s.path /\ other.result = more
        /\ other.visited = below.visited /\ other.cycles = below.cycles
    BY DEF Resolver!Ascend
  <1>2. /\ below.left = {} /\ below.path = Append(s.path, id)
        /\ s.visited \cup {id} \subseteq below.visited
        /\ Members(s.result) \subseteq Members(below.result) /\ s.cycles \subseteq below.cycles
    BY DEF Became, Resolver!Descend
  <1>3. s.path \in Seq(Ids) /\ below.result \in Seq(Ids) /\ id \in Ids BY SearchParts
  <1>4. /\ Members(below.path) = Members(s.path) \cup {id}
        /\ below.path[Len(below.path)] = id /\ below.path # <<>>
    <2>1. /\ Len(below.path) = Len(s.path) + 1 /\ below.path[Len(s.path) + 1] = id
          /\ Members(below.path) = Members(s.path) \cup {id}
      BY <1>2, <1>3, Appended
    <2>2. Len(<<>>) = 0 /\ Len(s.path) \in Nat BY <1>3
    <2>3. below.path # <<>> BY <2>1, <2>2
    <2> QED BY <2>1, <2>3
  <1>5. /\ Distinct(below.result) /\ Members(below.result) \cap Members(below.path) = {}
        /\ Members(below.result) \cup Members(below.path) = below.visited \cap Resolver!Listed
        /\ \A cycle \in below.cycles : Cycle(cycle)
        /\ \A j \in Members(below.result) : Resolver!Edges(j) \subseteq below.visited
    BY DEF Sound
  <1>6. /\ n \in Nat /\ Len(more) = n + 1 /\ more[n + 1] = id
        /\ \A i \in 1 .. n : more[i] = below.result[i]
        /\ \A i \in 1 .. n + 1 : i \in 1 .. n \/ i = n + 1
        /\ Members(more) = Members(below.result) \cup {id} /\ Distinct(more)
    BY <1>3, <1>4, <1>5, Appended
  <1> HIDE DEF other, more
  <1>7. \A dep \in Resolver!Edges(id) :
          dep \in below.visited /\ (below.cycles = {} => dep \in Members(below.result))
    BY <1>2, <1>4 DEF Sound, Exploring
  <1>8. ASSUME s.path # <<>> PROVE Exploring(other)
    <2> DEFINE last == s.path[Len(s.path)]
    <2>1. /\ s.left \subseteq nodes[last].dependencies
          /\ \A j \in Resolver!Edges(last) \ s.left :
               j \in s.visited /\ (s.cycles = {} => j \in Members(s.result))
      BY <1>8 DEF Sound, Exploring
    <2>2. last = other.path[Len(other.path)] BY <1>1
    <2> HIDE DEF last
    <2>3. \A j \in Resolver!Edges(last) \ other.left :
            j \in other.visited /\ (other.cycles = {} => j \in Members(other.result))
      BY <1>1, <1>2, <1>6, <2>1
    <2> QED BY <1>1, <2>1, <2>2, <2>3 DEF Exploring
  <1>9. id \notin Members(s.path) BY DEF Sound
  <1>10. /\ Members(more) \cap Members(s.path) = {}
         /\ Members(more) \cup Members(s.path) = below.visited \cap Resolver!Listed
    BY <1>4, <1>5, <1>6, <1>9
  <1>11. \A j \in Members(more) : Resolver!Edges(j) \subseteq below.visited
    BY <1>5, <1>6, <1>7
  <1>12. ASSUME below.cycles = {}, NEW i \in 1 .. n + 1, NEW dep \in Resolver!Edges(more[i])
         PROVE  \E k \in 1 .. n + 1 : k < i /\ more[k] = dep
    <2>1. CASE i \in 1 .. n
      <3>1. PICK k \in 1 .. n : k < i /\ below.result[k] = dep BY <1>6, <1>12, <2>1 DEF Sound
      <3> QED BY <1>6, <3>1
    <2>2. CASE i = n + 1
      <3>1. dep \in Members(below.result) BY <1>6, <1>7, <1>12, <2>2
      <3>2. PICK k \in 1 .. n : below.result[k] = dep BY <3>1 DEF Members
      <3>3. k < i /\ k \in 1 .. n + 1 /\ more[k] = dep BY <1>6, <2>2, <3>2
      <3> QED BY <3>3
    <2> QED BY <1>6, <2>1, <2>2
  <1>13. Path(s.path) BY DEF Sound
  <1>14. Sound(other)
    <2>1. Len(other.result) = n + 1 BY <1>1, <1>6
    <2> QED BY <1>1, <1>5, <1>6, <1>8, <1>10, <1>11, <1>12, <1>13, <2>1 DEF Sound
  <1>15. Members(s.result) \subseteq Members(other.result) /\ s.cycles \subseteq other.cycles
    BY <1>1, <1>2, <1>6
  <1> QED BY <1>14, <1>15 DEF other

-----------------------------------------------------------------------------
\* Every search that was sound on its way is so when it is over.
LEMMA SearchIsSound ==
  ASSUME Graph
  PROVE  \A s \in Resolver!Search :
           Sound(s) => Sound(Resolver!search[s]) /\ Became(s, Resolver!search[s])
  <1> DEFINE good == {s \in Resolver!Search :
                        Sound(s) => Sound(Resolver!search[s]) /\ Became(s, Resolver!search[s])}
  <1>1. ASSUME NEW s \in Resolver!Search,
               \A other \in Resolver!Search : Effort(other) < Effort(s) => other \in good
        PROVE  s \in good
    <2> SUFFICES ASSUME Sound(s)
                 PROVE  Sound(Resolver!search[s]) /\ Became(s, Resolver!search[s])
      OBVIOUS
    <2>0. \A other \in Resolver!Search :
            Effort(other) < Effort(s) /\ Sound(other)
              => Sound(Resolver!search[other]) /\ Became(other, Resolver!search[other])
      BY <1>1
    <2> HIDE DEF good
    <2> DEFINE r == Resolver!search[s]
               id == CHOOSE id \in s.left : TRUE
    <2>1. r = SearchTurn(s, Resolver!search) BY SearchIsDefined
    <2>2. CASE s.left = {}
      <3>1. r = s BY <2>1, <2>2 DEF SearchTurn
      <3>2. Became(s, s) BY <2>2 DEF Became
      <3> QED BY <3>1, <3>2
    <2>3. CASE s.left # {} /\ (id \in s.visited \/ id \notin Resolver!Listed)
      <3>1. id \in s.left BY <2>3
      <3> DEFINE on == Resolver!Pass(s, id)
      <3>2. r = Resolver!search[on] BY <2>1, <2>3 DEF SearchTurn
      <3> HIDE DEF id
      <3>3. on \in Resolver!Search /\ Effort(on) < Effort(s) BY <3>1, PassParts
      <3>4. Sound(on) BY <2>3, <3>1, PassSound
      <3>5. /\ on.left = s.left \ {id} /\ on.path = s.path /\ on.result = s.result
            /\ on.visited = s.visited \cup {id} /\ s.cycles \subseteq on.cycles
        BY DEF Resolver!Pass
      <3> HIDE DEF on, r
      <3>6. Sound(r) /\ Became(on, r) BY <2>0, <3>2, <3>3, <3>4
      <3>7. /\ r \in Resolver!Search /\ r.left = {} /\ r.path = s.path
            /\ s.left \subseteq r.visited /\ s.visited \subseteq r.visited
            /\ Members(s.result) \subseteq Members(r.result) /\ s.cycles \subseteq r.cycles
        BY <3>5, <3>6 DEF Became
      <3>8. ASSUME NEW S, Whole(S), s.left \cap Resolver!Listed \subseteq S
            PROVE  r.visited \cap Resolver!Listed \subseteq s.visited \cup S
        <4>1. on.left \cap Resolver!Listed \subseteq S BY <3>5, <3>8
        <4>2. r.visited \cap Resolver!Listed \subseteq on.visited \cup S
          BY <3>6, <3>8, <4>1 DEF Became
        <4>3. id \in Resolver!Listed => id \in S BY <3>1, <3>8
        <4> QED BY <3>5, <4>2, <4>3
      <3>9. Became(s, r) BY <3>7, <3>8 DEF Became
      <3> QED BY <3>6, <3>9 DEF r
    <2>4. CASE s.left # {} /\ ~(id \in s.visited \/ id \notin Resolver!Listed)
      <3>1. id \in s.left /\ id \notin s.visited /\ id \in Resolver!Listed BY <2>4
      <3> DEFINE down == Resolver!Descend(s, id)
                 below == Resolver!search[down]
                 up == Resolver!Ascend(s, below, id)
      <3>2. r = Resolver!search[up] BY <2>1, <2>4 DEF SearchTurn
      <3> HIDE DEF id
      <3>3. down \in Resolver!Search /\ Effort(down) < Effort(s) BY <3>1, DescendParts
      <3>4. Sound(down) BY <3>1, DescendSound
      <3>5. down.left = nodes[id].dependencies /\ down.visited = s.visited \cup {id}
        BY DEF Resolver!Descend
      <3> HIDE DEF below
      <3>6. Sound(below) /\ Became(down, below) BY <2>0, <3>3, <3>4 DEF below
      <3>7. /\ below \in Resolver!Search /\ s.visited \subseteq below.visited
            /\ id \in below.visited
        BY <3>5, <3>6 DEF Became
      <3>8. /\ Sound(up) /\ Members(s.result) \subseteq Members(up.result)
            /\ s.cycles \subseteq up.cycles
        BY <3>1, <3>6, <3>7, AscendSound
      <3>9. up \in Resolver!Search /\ Effort(up) < Effort(s) BY <3>1, <3>7, AscendParts
      <3>10. up.left = s.left \ {id} /\ up.path = s.path /\ up.visited = below.visited
        BY DEF Resolver!Ascend
      <3> HIDE DEF up, down, r
      <3>11. Sound(r) /\ Became(up, r) BY <2>0, <3>2, <3>8, <3>9
      <3>12. /\ r \in Resolver!Search /\ r.left = {} /\ r.path = s.path
             /\ s.left \subseteq r.visited /\ s.visited \subseteq r.visited
             /\ Members(s.result) \subseteq Members(r.result) /\ s.cycles \subseteq r.cycles
        BY <3>7, <3>8, <3>10, <3>11 DEF Became
      <3>13. ASSUME NEW S, Whole(S), s.left \cap Resolver!Listed \subseteq S
             PROVE  r.visited \cap Resolver!Listed \subseteq s.visited \cup S
        <4>1. id \in S /\ Resolver!Edges(id) \subseteq S BY <3>1, <3>13 DEF Whole
        <4>2. down.left \cap Resolver!Listed \subseteq S BY <3>5, <4>1 DEF Resolver!Edges
        <4>3. below.visited \cap Resolver!Listed \subseteq down.visited \cup S
          BY <3>6, <3>13, <4>2 DEF Became
        <4>4. up.left \cap Resolver!Listed \subseteq S BY <3>10, <3>13
        <4>5. r.visited \cap Resolver!Listed \subseteq up.visited \cup S
          BY <3>11, <3>13, <4>4 DEF Became
        <4> QED BY <3>5, <3>10, <4>1, <4>3, <4>5
      <3>14. Became(s, r) BY <3>12, <3>13 DEF Became
      <3> QED BY <3>11, <3>14 DEF r
    <2> QED BY <2>2, <2>3, <2>4
  <1> HIDE DEF good
  <1>2. \A s \in Resolver!Search : s \in good BY <1>1, SearchInduction
  <1> QED BY <1>2 DEF good

\* A search that begins: what it returns of the plugins it was given.
LEMMA SearchReturns ==
  ASSUME Graph, NEW ids \in SUBSET Resolver!Listed
  PROVE  LET r == Resolver!search[Resolver!Unvisited(ids)]
         IN  /\ Resolver!Unvisited(ids) \in Resolver!Search /\ Sound(r)
             /\ r \in Resolver!Search /\ r.path = <<>> /\ ids \subseteq Members(r.result)
             /\ Members(r.result) = r.visited \cap Resolver!Listed
             /\ \A S : Whole(S) /\ ids \subseteq S => Members(r.result) \subseteq S
  <1> DEFINE s == Resolver!Unvisited(ids)
             r == Resolver!search[s]
  <1>1. /\ s.left = ids /\ s.path = <<>> /\ s.visited = {} /\ s.result = <<>> /\ s.cycles = {}
    BY DEF Resolver!Unvisited
  <1>2. ids \subseteq Ids /\ Resolver!Listed \subseteq Ids BY DEF Resolver!Listed
  <1>3. Len(<<>>) = 0 /\ <<>> \in Seq(Ids) OBVIOUS
  <1>4. s \in Resolver!Search BY <1>2, <1>3 DEF Resolver!Unvisited, Resolver!Search
  <1>5. Members(<<>>) = {} /\ Distinct(<<>>) /\ Path(<<>>)
    BY <1>3 DEF Members, Distinct, Path
  <1> HIDE DEF s
  <1>6. Sound(s) BY <1>1, <1>3, <1>5 DEF Sound
  <1>7. Sound(r) /\ Became(s, r) BY <1>4, <1>6, SearchIsSound
  <1> HIDE DEF r
  <1>8. /\ r \in Resolver!Search /\ r.path = <<>> /\ ids \subseteq r.visited
        /\ \A S : Whole(S) /\ ids \cap Resolver!Listed \subseteq S
                    => r.visited \cap Resolver!Listed \subseteq S
    BY <1>1, <1>7 DEF Became
  <1>9. Members(r.result) = r.visited \cap Resolver!Listed BY <1>5, <1>7, <1>8 DEF Sound
  <1> QED BY <1>2, <1>4, <1>7, <1>8, <1>9 DEF s, r

\* A cycle goes from each of its plugins back to it: the graph is cyclic, ...
LEMMA CycleIsCyclic ==
  ASSUME NEW cycle \in Seq(Ids), Cycle(cycle)
  PROVE  Resolver!Cyclic
  <1> DEFINE n == Len(cycle)
             id == cycle[1]
  <1>1. /\ n \in Nat \ {0} /\ id \in Resolver!Edges(cycle[n]) /\ 1 \in 1 .. n
        /\ \A i \in 1 .. n - 1 : cycle[i + 1] \in Resolver!Edges(cycle[i])
    BY DEF Cycle
  <1>2. id \in Resolver!Listed /\ id \in Ids BY <1>1 DEF Resolver!Edges, Resolver!Listed
  <1>3. ASSUME NEW S \in SUBSET Ids, Resolver!Edges(id) \subseteq S,
               \A k \in S : Resolver!Edges(k) \subseteq S
        PROVE  id \in S
    <2> DEFINE met == {m \in 0 .. n : m >= 1 => Resolver!Edges(cycle[m]) \subseteq S}
    <2>1. 0 \in met BY <1>1
    <2>2. ASSUME NEW m \in 1 .. n, m - 1 \in met PROVE m \in met
      <3>1. CASE m = 1 BY <1>3, <3>1
      <3>2. CASE m # 1
        <4>1. m - 1 \in 1 .. n - 1 /\ m - 1 + 1 = m /\ m - 1 >= 1 BY <1>1, <3>2
        <4>2. cycle[m] \in Resolver!Edges(cycle[m - 1]) BY <1>1, <4>1
        <4>3. Resolver!Edges(cycle[m - 1]) \subseteq S BY <2>2, <4>1
        <4> QED BY <1>3, <4>2, <4>3
      <3> QED BY <3>1, <3>2
    <2> HIDE DEF met
    <2>3. \A m \in 0 .. n : m \in met BY <1>1, <2>1, <2>2, Upwards
    <2>4. n \in met /\ n >= 1 BY <1>1, <2>3
    <2>5. Resolver!Edges(cycle[n]) \subseteq S BY <2>4 DEF met
    <2> QED BY <1>1, <2>5
  <1> HIDE DEF id
  <1>4. id \in Resolver!Reached(id) BY <1>2, <1>3 DEF Resolver!Reached
  <1> QED BY <1>2, <1>4 DEF Resolver!Cyclic

\* ... and one whose plugins are all listed after what they depend on is not.
LEMMA OrderedIsAcyclic ==
  ASSUME NEW list \in Seq(Ids), Distinct(list), Members(list) = Resolver!Listed,
         \A i \in 1 .. Len(list) : \A dep \in Resolver!Edges(list[i]) :
           \E k \in 1 .. Len(list) : k < i /\ list[k] = dep
  PROVE  ~Resolver!Cyclic
  <1> SUFFICES ASSUME NEW id \in Resolver!Listed, id \in Resolver!Reached(id) PROVE FALSE
    BY DEF Resolver!Cyclic
  <1>1. PICK i \in 1 .. Len(list) : list[i] = id BY DEF Members
  <1> DEFINE S == {j \in Ids : \E k \in 1 .. Len(list) : k < i /\ list[k] = j}
  <1>2. \A k \in 1 .. Len(list) : list[k] \in Ids OBVIOUS
  <1>3. Resolver!Edges(id) \subseteq S BY <1>1, <1>2
  <1>4. ASSUME NEW j \in S PROVE Resolver!Edges(j) \subseteq S
    <2>1. PICK k \in 1 .. Len(list) : k < i /\ list[k] = j OBVIOUS
    <2>2. ASSUME NEW dep \in Resolver!Edges(j) PROVE dep \in S
      <3>1. PICK l \in 1 .. Len(list) : l < k /\ list[l] = dep BY <2>1
      <3>2. l < i BY <2>1, <3>1
      <3> QED BY <1>2, <3>1, <3>2
    <2> QED BY <2>2
  <1>5. id \in S BY <1>3, <1>4 DEF Resolver!Reached
  <1>6. PICK k \in 1 .. Len(list) : k < i /\ list[k] = id BY <1>5
  <1>7. k = i BY <1>1, <1>6 DEF Distinct
  <1> QED BY <1>6, <1>7

\* A list without repetitions has as many elements as places.
LEMMA Counted ==
  ASSUME NEW list \in Seq(Ids), Distinct(list)
  PROVE  Cardinality(Members(list)) = Len(list)
  <1> DEFINE ids == Members(list)
             name == [i \in 1 .. Len(list) |-> list[i]]
  <1>1. Len(list) \in Nat OBVIOUS
  <1>2. IsFiniteSet(1 .. Len(list)) /\ Cardinality(1 .. Len(list)) = Len(list)
    BY <1>1, FS_Interval
  <1>3. name \in Bijection(1 .. Len(list), ids)
    BY DEF Bijection, Injection, Surjection, IsInjective, Members, Distinct
  <1>4. ExistsBijection(1 .. Len(list), ids) BY <1>3 DEF ExistsBijection
  <1> HIDE DEF ids
  <1>5. Cardinality(ids) = Len(list) BY <1>2, <1>4, FS_Bijection
  <1> QED BY <1>5 DEF ids

\* Dependencies before their dependents make a list ordered.
LEMMA InOrderIsOrdered ==
  ASSUME NEW list \in Seq(Ids),
         \A i \in 1 .. Len(list) : \A dep \in Resolver!Edges(list[i]) :
           \E k \in 1 .. Len(list) : k < i /\ list[k] = dep
  PROVE  Resolver!Ordered(list)
  <1>1. DOMAIN list = 1 .. Len(list) OBVIOUS
  <1>2. ASSUME NEW id \in Resolver!Range(list), NEW dep \in Resolver!Edges(id)
        PROVE  Resolver!Before(list, dep, id)
    <2>1. PICK i \in 1 .. Len(list) : list[i] = id BY <1>1 DEF Resolver!Range
    <2>2. PICK k \in 1 .. Len(list) : k < i /\ list[k] = dep BY <2>1
    <2> QED BY <1>1, <2>1, <2>2 DEF Resolver!Before
  <1> QED BY <1>2 DEF Resolver!Ordered

\* The place that follows another one on a cycle.
LEMMA NextOnCycle ==
  ASSUME NEW n \in Nat \ {0}, NEW i \in 1 .. n
  PROVE  (i % n) + 1 = IF i = n THEN 1 ELSE i + 1
  OBVIOUS

-----------------------------------------------------------------------------
\* What resolve() and resolvePlugin() return, for every graph of plugins: each cycle that is
\* reported is one, and one is reported just when there is one; without a cycle each plugin is
\* listed once, after all it depends on; resolvePlugin() lists just what the plugin reaches.
THEOREM ResolverOrders ==
  ASSUME Resolver!TypeOK
  PROVE  Resolver!OrderIsSound
  <1>1. Graph BY DEF Resolver!TypeOK, Graph, ResolverNode
  <1>2. \A list \in Seq(Ids) : /\ DOMAIN list = 1 .. Len(list)
                               /\ Resolver!Range(list) = Members(list)
    <2> TAKE list \in Seq(Ids)
    <2>1. DOMAIN list = 1 .. Len(list) OBVIOUS
    <2> QED BY <2>1 DEF Resolver!Range, Members
  <1>3. \A S : Resolver!Cardinality(S) = Cardinality(S) BY DEF Resolver!Cardinality, Cardinality
  <1> DEFINE whole == Resolver!search[Resolver!Unvisited(Resolver!Listed)]
  <1>4. /\ Sound(whole) /\ whole \in Resolver!Search
        /\ Members(whole.result) = Resolver!Listed
    <2>1. Resolver!Listed \in SUBSET Resolver!Listed OBVIOUS
    <2>2. /\ Sound(whole) /\ whole \in Resolver!Search
          /\ Resolver!Listed \subseteq Members(whole.result)
          /\ Members(whole.result) = whole.visited \cap Resolver!Listed
      BY <1>1, <2>1, SearchReturns
    <2> HIDE DEF whole
    <2> QED BY <2>2
  <1>5. Resolver!DetectCycles = whole.cycles /\ Resolver!LoadOrder = whole.result
    BY DEF Resolver!DetectCycles, Resolver!LoadOrder, Resolver!TopologicalSort
  <1> HIDE DEF whole
  <1>6. /\ whole.cycles \subseteq Seq(Ids) /\ whole.result \in Seq(Ids)
        /\ Distinct(whole.result) /\ \A cycle \in whole.cycles : Cycle(cycle)
    BY <1>4, SearchParts DEF Sound
  <1>7. ASSUME whole.cycles = {}
        PROVE  \A i \in 1 .. Len(whole.result) : \A dep \in Resolver!Edges(whole.result[i]) :
                 \E k \in 1 .. Len(whole.result) : k < i /\ whole.result[k] = dep
    BY <1>4, <1>7 DEF Sound
  <1>8. Resolver!DetectCycles # {} <=> Resolver!Cyclic
    <2>1. whole.cycles # {} => Resolver!Cyclic BY <1>6, CycleIsCyclic
    <2>2. whole.cycles = {} => ~Resolver!Cyclic BY <1>4, <1>6, <1>7, OrderedIsAcyclic
    <2> QED BY <1>5, <2>1, <2>2
  <1>9. ASSUME NEW cycle \in Resolver!DetectCycles, NEW i \in DOMAIN cycle
        PROVE  cycle[(i % Len(cycle)) + 1] \in Resolver!Edges(cycle[i])
    <2>1. cycle \in Seq(Ids) /\ Cycle(cycle) BY <1>5, <1>6
    <2> DEFINE n == Len(cycle)
    <2>2. /\ n \in Nat \ {0} /\ i \in 1 .. n /\ cycle[1] \in Resolver!Edges(cycle[n])
          /\ \A k \in 1 .. n - 1 : cycle[k + 1] \in Resolver!Edges(cycle[k])
      BY <1>2, <2>1 DEF Cycle
    <2> HIDE DEF n
    <2>3. (i % n) + 1 = IF i = n THEN 1 ELSE i + 1 BY <2>2, NextOnCycle
    <2>4. i # n => i \in 1 .. n - 1 BY <2>2
    <2>5. cycle[(i % n) + 1] \in Resolver!Edges(cycle[i]) BY <2>2, <2>3, <2>4
    <2> QED BY <2>5 DEF n
  <1>10. /\ Resolver!Range(Resolver!LoadOrder) = Resolver!Listed
         /\ Len(Resolver!LoadOrder) = Resolver!Cardinality(Resolver!Listed)
    BY <1>2, <1>3, <1>4, <1>5, <1>6, Counted
  <1>11. whole.cycles = {} => Resolver!Ordered(Resolver!LoadOrder)
    BY <1>5, <1>6, <1>7, InOrderIsOrdered
  <1>12. ASSUME Resolver!ResolutionSucceeds, NEW id \in Resolver!Listed,
                nodes[id].spec.required, NEW dep \in nodes[id].spec.deps
         PROVE  /\ dep \in Resolver!Listed
                /\ dep \in Resolver!Edges(id) => Resolver!Before(Resolver!LoadOrder, dep, id)
    <2>1. whole.cycles = {} /\ Resolver!Missing(id) = {}
      BY <1>5, <1>12 DEF Resolver!ResolutionSucceeds
    <2>2. dep \in Resolver!Listed BY <1>12, <2>1 DEF Resolver!Missing
    <2>3. id \in Resolver!Range(Resolver!LoadOrder) BY <1>10
    <2> QED BY <1>11, <2>1, <2>2, <2>3 DEF Resolver!Ordered
  <1>13. ASSUME NEW id \in Resolver!Listed
         PROVE  LET order == Resolver!ResolvePlugin(id).order
                IN  /\ Resolver!Range(order) = {id} \cup Resolver!Reached(id)
                    /\ Len(order) = Resolver!Cardinality(Resolver!Range(order))
                    /\ order[Len(order)] = id
                    /\ ~Resolver!Cyclic => Resolver!Ordered(order)
    <2> DEFINE s == Resolver!Unvisited({id})
               r == Resolver!search[s]
               order == r.result
    <2>1. /\ s \in Resolver!Search /\ Sound(r) /\ r \in Resolver!Search
          /\ id \in Members(order) /\ Members(order) = r.visited \cap Resolver!Listed
          /\ \A S : Whole(S) /\ {id} \subseteq S => Members(order) \subseteq S
      <3>1. {id} \in SUBSET Resolver!Listed OBVIOUS
      <3>2. /\ s \in Resolver!Search /\ Sound(r) /\ r \in Resolver!Search
            /\ {id} \subseteq Members(order) /\ Members(order) = r.visited \cap Resolver!Listed
            /\ \A S : Whole(S) /\ {id} \subseteq S => Members(order) \subseteq S
        BY <1>1, <3>1, SearchReturns
      <3> HIDE DEF r, s
      <3> QED BY <3>2
    <2>2. /\ s.left = {id} /\ s.visited = {} /\ s.path = <<>> BY DEF Resolver!Unvisited
    <2>3. Resolver!ResolvePlugin(id).order = order BY DEF Resolver!ResolvePlugin
    <2>4. order \in Seq(Ids) /\ order[Len(order)] = id
      <3> DEFINE below == Resolver!search[Resolver!Descend(s, id)]
                 up == Resolver!Ascend(s, below, id)
      <3> HIDE DEF s
      <3>1. Resolver!Descend(s, id) \in Resolver!Search /\ Sound(Resolver!Descend(s, id))
        <4>1. Sound(s)
          <5>1. Len(<<>>) = 0 OBVIOUS
          <5>2. Members(<<>>) = {} /\ Distinct(<<>>) /\ Path(<<>>)
            BY <5>1 DEF Members, Distinct, Path
          <5>3. s.result = <<>> /\ s.cycles = {} BY DEF s, Resolver!Unvisited
          <5> QED BY <2>2, <5>1, <5>2, <5>3 DEF Sound
        <4> QED BY <1>1, <2>1, <2>2, <4>1, DescendParts, DescendSound
      <3>2. below \in Resolver!Search BY <1>1, <3>1, SearchIsSound DEF Became
      <3>3. r = Resolver!search[up]
        <4>1. (CHOOSE j \in s.left : TRUE) = id BY <2>2
        <4>2. r = SearchTurn(s, Resolver!search) BY <1>1, <2>1, SearchIsDefined
        <4> QED BY <2>2, <4>1, <4>2 DEF SearchTurn
      <3>4. up.left = {} /\ up.result = Append(below.result, id)
        BY <2>2 DEF Resolver!Ascend
      <3>5. up \in Resolver!Search
        <4>1. s.visited \subseteq below.visited /\ id \in below.visited
          <5>1. Became(Resolver!Descend(s, id), below) BY <1>1, <3>1, SearchIsSound
          <5> QED BY <5>1 DEF Became, Resolver!Descend
        <4> QED BY <2>1, <2>2, <3>2, <4>1, AscendParts
      <3> HIDE DEF up, below, r
      <3>6. r = up BY <1>1, <3>3, <3>4, <3>5, SearchIsDefined DEF SearchTurn
      <3>7. below.result \in Seq(Ids) /\ id \in Ids
        BY <3>2, SearchParts DEF Resolver!Listed
      <3>8. /\ Append(below.result, id) \in Seq(Ids)
            /\ Len(Append(below.result, id)) = Len(below.result) + 1
            /\ Append(below.result, id)[Len(below.result) + 1] = id
        BY ONLY <3>7, Appended
      <3> QED BY <3>4, <3>6, <3>8
    <2> HIDE DEF r, s
    <2>5. /\ Distinct(order) /\ r.cycles \subseteq Seq(Ids)
          /\ \A cycle \in r.cycles : Cycle(cycle)
          /\ \A j \in Members(order) : Resolver!Edges(j) \subseteq Members(order)
      <3>1. /\ Distinct(order) /\ \A cycle \in r.cycles : Cycle(cycle)
            /\ \A j \in Members(order) : Resolver!Edges(j) \subseteq r.visited
        BY <2>1 DEF Sound
      <3>2. \A j \in Members(order) : Resolver!Edges(j) \subseteq Members(order)
        BY <2>1, <3>1 DEF Resolver!Edges
      <3> QED BY <2>1, <3>1, <3>2, SearchParts
    <2>6. ~Resolver!Cyclic => Resolver!Ordered(order)
      <3>1. ~Resolver!Cyclic => r.cycles = {} BY <2>5, CycleIsCyclic
      <3>2. r.cycles = {} =>
              \A i \in 1 .. Len(order) : \A dep \in Resolver!Edges(order[i]) :
                \E k \in 1 .. Len(order) : k < i /\ order[k] = dep
        BY <2>1 DEF Sound
      <3> QED BY <2>4, <3>1, <3>2, InOrderIsOrdered
    <2>7. Members(order) = {id} \cup Resolver!Reached(id)
      <3>1. Whole({id} \cup Resolver!Reached(id))
        <4>1. \A j \in Resolver!Edges(id) : j \in Resolver!Reached(id)
          BY DEF Resolver!Reached, Resolver!Edges, Resolver!Listed
        <4>2. ASSUME NEW k \in Resolver!Reached(id), NEW j \in Resolver!Edges(k)
              PROVE  j \in Resolver!Reached(id)
          BY <4>2 DEF Resolver!Reached, Resolver!Edges, Resolver!Listed
        <4>3. id \in Ids /\ Resolver!Reached(id) \subseteq Ids
          BY DEF Resolver!Reached, Resolver!Listed
        <4> QED BY <4>1, <4>2, <4>3 DEF Whole
      <3>2. Members(order) \subseteq {id} \cup Resolver!Reached(id) BY <2>1, <3>1
      <3>3. ASSUME NEW j \in Resolver!Reached(id) PROVE j \in Members(order)
        <4>1. Members(order) \in SUBSET Ids BY <2>4 DEF Members
        <4>2. Resolver!Edges(id) \subseteq Members(order) BY <2>1, <2>5
        <4> QED BY <2>5, <3>3, <4>1, <4>2 DEF Resolver!Reached
      <3> QED BY <2>1, <3>2, <3>3
    <2>8. Len(order) = Cardinality(Members(order)) BY <2>4, <2>5, Counted
    <2> HIDE DEF order
    <2> QED BY <1>2, <1>3, <2>3, <2>4, <2>6, <2>7, <2>8
  <1> QED BY <1>5, <1>8, <1>9, <1>10, <1>11, <1>12, <1>13 DEF Resolver!OrderIsSound

-----------------------------------------------------------------------------
(* The parts side by side.  One of them acts; its invariant is kept by its *)
(* steps.                                                                  *)

PartsInv ==
  /\ part = "channel"   => ChannelInv
  /\ part = "bus"       => BusInv
  /\ part = "events"    => EventsInv
  /\ part = "tasks"     => TasksInv
  /\ part = "data"      => DataInv
  /\ part = "timers"    => TimersInv
  /\ part = "context"   => ContextInv
  /\ part \in Managers  => ManagerInv
  /\ part = "lifecycle" => LifecycleInv
  /\ part = "resolver"  => ResolverInv

\* What a step is to the part that acts.
LEMMA ChannelActs ==
  [Next]_vars /\ part = "channel" =>
    Channel!Next \/ UNCHANGED <<calls, now, pool, channel>>
  BY DEF Next, Acts, vars

LEMMA BusActs == [Next]_vars /\ part = "bus" => [Bus!Next]_(Bus!vars)
  BY DEF Next, Acts, vars, pool, bus, Bus!vars, Bus!own, Bus!poolVars

LEMMA EventsActs == [Next]_vars /\ part = "events" => [Events!Next]_(Events!vars)
  BY DEF Next, Acts, vars, pool, events, Events!vars, Events!own, Events!lists, Events!flags,
         Events!notes, Events!poolVars

LEMMA TasksActs == [Next]_vars /\ part = "tasks" => [Tasks!Next]_(Tasks!vars)
  BY DEF Next, Acts, vars, pool, tasks, Tasks!vars, Tasks!own, Tasks!poolVars

LEMMA DataActs == [Next]_vars /\ part = "data" => [Data!Next]_(Data!vars)
  BY DEF Next, Acts, vars, data, Data!vars, Data!own, Data!channel, Data!past

LEMMA TimersActs == [Next]_vars /\ part = "timers" => [Timers!Next]_(Timers!vars)
  BY DEF Next, Acts, vars, times, Timers!vars, Timers!own

LEMMA ContextActs == [Next]_vars /\ part = "context" => [Context!Next]_(Context!vars)
  BY DEF Next, Acts, vars, context, Context!vars, Context!own, Context!held

LEMMA ManagerActs == [Next]_vars /\ part \in Managers => [Manager!Next]_(Manager!vars)
  BY DEF Next, Acts, vars, manager, Manager!vars, Manager!own, Manager!history

LEMMA LifecycleActs == [Next]_vars /\ part = "lifecycle" => [Lifecycle!Next]_(Lifecycle!vars)
  BY DEF Next, Acts, vars, lifecycle, Lifecycle!vars, Lifecycle!own

LEMMA ResolverActs == [Next]_vars /\ part = "resolver" => [Resolver!Next]_(Resolver!vars)
  BY DEF Next, Acts, vars, resolver, Resolver!vars, Resolver!own

\* Nothing changes for the channel while it stands still.
LEMMA ChannelStill == ChannelInv /\ UNCHANGED <<calls, now, pool, channel>> => ChannelInv'
  <1> SUFFICES ASSUME ChannelInv, UNCHANGED <<calls, now, pool, channel>> PROVE ChannelInv'
    OBVIOUS
  <1>1. UNCHANGED Channel!poolVars BY DEF pool, Channel!poolVars
  <1>2. PoolMoves(ChannelLane, FewClients) BY <1>1, ChannelPool
  <1>3. UNCHANGED Channel!own BY DEF channel, Channel!own
  <1>4. UNCHANGED <<calls, now>> OBVIOUS
  <1> QED BY <1>2, <1>3, <1>4, ChannelPooled

LEMMA PartsInit == Init => PartsInv
  <1> SUFFICES ASSUME Init PROVE PartsInv
    OBVIOUS
  <1>1. part = "channel" => ChannelInv BY ChannelInit DEF Init
  <1>2. part = "bus" => BusInv BY BusInit DEF Init
  <1>3. part = "events" => EventsInv BY EventsInit DEF Init
  <1>4. part = "tasks" => TasksInv BY TasksInit DEF Init
  <1>5. DataInv BY DataInit DEF Init
  <1>6. TimersInv BY TimersInit DEF Init
  <1>7. ContextInv BY ContextInit DEF Init
  <1>8. ManagerInv BY ManagerInit DEF Init
  <1>9. LifecycleInv BY LifecycleInit DEF Init
  <1>10. ResolverInv BY ResolverInit DEF Init
  <1> QED
    BY <1>1, <1>2, <1>3, <1>4, <1>5, <1>6, <1>7, <1>8, <1>9, <1>10 DEF PartsInv

LEMMA PartsStep == PartsInv /\ [Next]_vars => PartsInv'
  <1> SUFFICES ASSUME PartsInv, [Next]_vars PROVE PartsInv'
    OBVIOUS
  <1>0. part' = part BY DEF Next, Acts, vars
  <1>1. part = "channel" => ChannelInv'
    BY ChannelActs, ChannelStep, ChannelStill DEF PartsInv
  <1>2. part = "bus" => BusInv' BY BusActs, BusStep DEF PartsInv
  <1>3. part = "events" => EventsInv' BY EventsActs, EventsStep DEF PartsInv
  <1>4. part = "tasks" => TasksInv' BY TasksActs, TasksStep DEF PartsInv
  <1>5. part = "data" => DataInv' BY DataActs, DataStep DEF PartsInv
  <1>6. part = "timers" => TimersInv' BY TimersActs, TimersStep DEF PartsInv
  <1>7. part = "context" => ContextInv' BY ContextActs, ContextStep DEF PartsInv
  <1>8. part \in Managers => ManagerInv' BY ManagerActs, ManagerStep DEF PartsInv
  <1>9. part = "lifecycle" => LifecycleInv' BY LifecycleActs, LifecycleStep DEF PartsInv
  <1>10. part = "resolver" => ResolverInv' BY ResolverActs, ResolverStep DEF PartsInv
  <1> QED
    BY <1>0, <1>1, <1>2, <1>3, <1>4, <1>5, <1>6, <1>7, <1>8, <1>9, <1>10 DEF PartsInv

LEMMA PartsHold == Spec => []PartsInv
  BY PartsInit, PartsStep, PTL DEF Spec

\* The variables of the part that acts have their types.
THEOREM PluginsTyped == Spec => []TypeOK
  <1>1. PartsInv => TypeOK
    BY ChannelHolds, BusHolds, EventsHolds, TasksHolds, DataHolds, TimersHolds, ContextHolds,
       ManagerHolds, LifecycleHolds
    DEF PartsInv, TypeOK, ResolverInv
  <1> QED BY <1>1, PartsHold, PTL

\* The index of the event bus has just the listed subscriptions, the count of each bus is off by
\* at most those that were there when resetStatistics() was called last, a data channel counts the bytes it holds, and removePlugin() refuses just the
\* plugins that a listed one depends on.
THEOREM PluginTablesAgree == Spec => []TablesAgree
  <1>1. PartsInv => TablesAgree
    BY EventsHolds, BusHolds, DataHolds, ResolverUnloads DEF PartsInv, TablesAgree
  <1> QED BY <1>1, PartsHold, PTL

\* Packets and the messages of a data channel are received in the order they were sent, each
\* at most once; a one-time subscription that was called is over with the publications that
\* called it; no timer is called before it is due, and a single shot once; a plugin is listed
\* after all it depends on, and runs only when it was initialized.
THEOREM PluginsInOrder == Spec => []InOrder
  <1>1. PartsInv => InOrder
    BY ChannelHolds, DataHolds, TimersHolds, ResolverOrders, LifecycleHolds
    DEF PartsInv, InOrder, EventsInv, ResolverInv
  <1> QED BY <1>1, PartsHold, PTL

\* A promise of the message bus is open just when its message is queued or in a thread's hands,
\* every plugin
\* instance in the table or in one call's hands, what was started is stopped before it is
\* unloaded, and shutdown() gives back, once, all that a plugin's context holds.
THEOREM NothingIsForgotten == Spec => []NothingForgotten
  <1>1. PartsInv => NothingForgotten
    BY BusHolds, ManagerHolds, ContextHolds DEF PartsInv, NothingForgotten
  <1> QED BY <1>1, PartsHold, PTL

-----------------------------------------------------------------------------
(* What a step may never do, whoever acts.                                 *)

LEMMA FuturesStay ==
  PartsInv /\ [Next]_vars => [\A p \in promises : p.future # "open" => p \in promises']_promises
  <1> SUFFICES ASSUME PartsInv, [Next]_vars, promises' # promises
               PROVE  \A p \in promises : p.future # "open" => p \in promises'
    OBVIOUS
  <1>1. part = "channel" /\ Channel!Next BY DEF Next, Acts, vars, channel
  <1> QED BY <1>1, ChannelFinal DEF PartsInv

LEMMA WaitersStay ==
  PartsInv /\ [Next]_vars =>
    [\A c \in Clients :
       watching[c] = "lock" /\ watching'[c] = "idle" =>
         queue["tasks"] = <<>> /\ \A w \in Tasks!Workers : handling[w] = <<>>]_watching
  <1> SUFFICES ASSUME PartsInv, [Next]_vars, watching' # watching, NEW c \in Clients,
                      watching[c] = "lock", watching'[c] = "idle"
               PROVE  queue["tasks"] = <<>> /\ \A w \in Tasks!Workers : handling[w] = <<>>
    OBVIOUS
  <1>1. part = "tasks" /\ [Tasks!Next]_(Tasks!vars)
    <2>1. part = "tasks" BY DEF Next, Acts, vars, tasks
    <2> QED BY <2>1, TasksActs
  <1> QED BY <1>1, TasksDone DEF PartsInv

\* The value that sendAndWait() found is never replaced, by an answer that comes after the
\* timeout or by a timeout after the answer, and waitAll() returns only when no task is queued
\* and no worker has one.
THEOREM AnswersStayFinal == Spec => AnswersAreFinal
  <1>1. Spec => Channel!FuturesFinal
    BY PartsHold, FuturesStay, PTL DEF Spec, Channel!FuturesFinal
  <1>2. Spec => Tasks!WaitAllMeansDone
    BY PartsHold, WaitersStay, PTL DEF Spec, Tasks!WaitAllMeansDone
  <1> QED BY <1>1, <1>2 DEF AnswersAreFinal

=============================================================================
