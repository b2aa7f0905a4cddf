---------------------------- MODULE PluginChannel ----------------------------
(***************************************************************************)
(* A communication channel of the plugins: Channel and AsyncChannel, the   *)
(* same class but for the priorities, the sequence numbers and             *)
(* sendAndWait() of the latter.  One worker dispatches the queued packets  *)
(* to the subscriptions it finds when it takes a packet.                   *)
(***************************************************************************)
EXTENDS QueueWorkers, Functions

VARIABLES
  subscriptions,   \* subscriptions_, sorted
  nextId,          \* nextSubscriptionId_
  nextSequenceId,  \* nextSequenceId_
  pending,         \* the rest of the copy that a worker dispatches its packet to
  received,        \* history: what each subscription was called with
  promises         \* the calls of sendAndWait(): the subscription, the end of the
                   \* wait and whether the future is "open", "answered" or "empty"

own  == <<subscriptions, nextId, nextSequenceId, pending, received, promises>>
vars == <<calls, now, poolVars, own>>

\* A packet: its channel name, its number, and the plugin it is for ("" is everyone).
Response   == "response"
Names      == {"data", Response}
Everyone   == "everyone"
Targets    == Ids \cup {Everyone}
Packet(name, target) == [name |-> name, target |-> target, number |-> nextSequenceId]

Subscriptions ==
  [id : 1 .. MaxCalls, plugin : Ids, name : Names, priority : {0, 1, 100}, promised : BOOLEAN]

OwnInit ==
  /\ subscriptions = <<>>
  /\ nextId = 1 /\ nextSequenceId = 1
  /\ pending = [w \in Workers |-> <<>>]
  /\ received = [id \in 1 .. MaxCalls |-> <<>>]
  /\ promises = {}

Init == CallersInit /\ PoolInit /\ OwnInit

-----------------------------------------------------------------------------
(* start(), stop() and the channel managers' getChannel() and              *)
(* closeChannel(), which call them with channelsMutex_ and so one by one.  *)

Start == Called /\ PoolStart /\ UNCHANGED own

Stop(c) == Called /\ PoolStop(c) /\ UNCHANGED own

Joined(c) ==
  /\ PoolStopped(c)
  /\ UNCHANGED own

-----------------------------------------------------------------------------
(* Subscriptions.                                                          *)

\* Mutant: a subscription goes to the end of the list, whatever its priority.
SubscribedLast(sub) == subscriptions' = Append(subscriptions, sub)

\* std::sort is not stable: equal priorities end up in any order.
Subscribed(sub) ==
  \E k \in 1 .. Len(subscriptions) + 1 :
    /\ \A j \in 1 .. k - 1 : subscriptions[j].priority >= sub.priority
    /\ \A j \in k .. Len(subscriptions) : subscriptions[j].priority <= sub.priority
    /\ subscriptions' = SubSeq(subscriptions, 1, k - 1) \o <<sub>>
                      \o SubSeq(subscriptions, k, Len(subscriptions))

Subscribe(plugin, priority) ==
  /\ Called
  /\ Subscribed([id |-> nextId, plugin |-> plugin, name |-> "data",
                 priority |-> priority, promised |-> FALSE])
  /\ nextId' = nextId + 1
  /\ UNCHANGED <<poolVars, nextSequenceId, pending, received, promises>>

Without(id) ==
  Sublist(subscriptions, {i \in DOMAIN subscriptions : subscriptions[i].id # id})

\* Nobody is told the identifier of the subscription of a sendAndWait().
Unsubscribe(id) ==
  /\ Called
  /\ \A p \in promises : p.id # id
  /\ subscriptions' = Without(id)
  /\ UNCHANGED <<poolVars, nextId, nextSequenceId, pending, received, promises>>

GetSubscribers(name) ==
  {s.plugin : s \in {t \in Range(subscriptions) : t.name = name}}

-----------------------------------------------------------------------------
(* Packets.                                                                *)

\* A stopped channel drops the packet; the test of running_ comes before the lock.
Publish(name, target) ==
  /\ Called
  /\ IF running THEN /\ Push("queue", Packet(name, target))
                     /\ nextSequenceId' = nextSequenceId + 1
     ELSE UNCHANGED <<poolVars, nextSequenceId>>
  /\ UNCHANGED <<subscriptions, nextId, pending, received, promises>>

\* sendAndWait(): subscribes to the response channel, publishes, and leaves a thread
\* behind that ends the wait.  The name of that channel is made of the sequence number
\* of a packet that has none yet: it is the same for every call.
SendAndWait(plugin, target) ==
  /\ Called
  /\ Subscribed([id |-> nextId, plugin |-> plugin, name |-> Response,
                 priority |-> 100, promised |-> TRUE])
  /\ nextId' = nextId + 1
  /\ promises' = promises \cup {[id |-> nextId, end |-> now + 1, future |-> "open"]}
  /\ IF running THEN /\ Push("queue", Packet("data", target))
                     /\ nextSequenceId' = nextSequenceId + 1
     ELSE UNCHANGED <<poolVars, nextSequenceId>>
  /\ UNCHANGED <<pending, received>>

\* Mutant: the second set_value() of a promise replaces the first.
SettledAgain(id, future) ==
  {IF p.id = id THEN [p EXCEPT !.future = future] ELSE p : p \in promises}

\* set_value() throws when the future has its value already.
Settled(id, future) ==
  {IF p.id = id /\ p.future = "open" THEN [p EXCEPT !.future = future] ELSE p :
     p \in promises}

\* The detached thread: an empty packet, and the subscription goes.
WaitEnds(p) ==
  /\ p \in promises /\ now >= p.end /\ p.id \in {s.id : s \in Range(subscriptions)}
  /\ promises' = Settled(p.id, "empty")
  /\ subscriptions' = Without(p.id)
  /\ UNCHANGED <<calls, now, poolVars, nextId, nextSequenceId, pending, received>>

-----------------------------------------------------------------------------
(* The worker.                                                             *)

WorkerIdles(w) == Idles(w) /\ UNCHANGED own

\* dispatchToSubscribers() works on a copy of the list.
WorkerTakes(w) ==
  /\ Take(w)
  /\ pending' = [pending EXCEPT ![w] = subscriptions]
  /\ UNCHANGED <<subscriptions, nextId, nextSequenceId, received, promises>>

Matches(sub, packet) ==
  /\ sub.name = packet.name
  /\ packet.target \in {Everyone, sub.plugin}

\* One subscription of the copy: its handler is called, or it does not match.
WorkerCalls(w) ==
  /\ worker[w] = "busy" /\ pending[w] # <<>>
  /\ LET sub    == Head(pending[w])
         packet == handling[w][1]
     IN  IF Matches(sub, packet)
         THEN /\ received' = [received EXCEPT ![sub.id] = Append(@, packet.number)]
              /\ promises' = IF sub.promised THEN Settled(sub.id, "answered") ELSE promises
         ELSE UNCHANGED <<received, promises>>
  /\ pending' = [pending EXCEPT ![w] = Tail(@)]
  /\ UNCHANGED <<calls, now, poolVars, subscriptions, nextId, nextSequenceId>>

WorkerFinishes(w) == pending[w] = <<>> /\ Finish(w) /\ UNCHANGED own

WorkerSteps(w) == WorkerIdles(w) \/ WorkerTakes(w) \/ WorkerCalls(w) \/ WorkerFinishes(w)

Tick == Elapse /\ UNCHANGED <<poolVars, own>>

Next ==
  \/ Start
  \/ \E c \in Clients : Stop(c) \/ Joined(c)
  \/ \E plugin \in Ids :
       \/ \E priority \in {0, 1} : Subscribe(plugin, priority)
       \/ \E target \in Targets : SendAndWait(plugin, target)
  \/ \E id \in 1 .. MaxCalls : Unsubscribe(id)
  \/ \E name \in Names, target \in Targets : Publish(name, target)
  \/ \E p \in promises : WaitEnds(p)
  \/ \E w \in Workers :
       WorkerIdles(w) \/ WorkerTakes(w) \/ WorkerCalls(w) \/ WorkerFinishes(w)
  \/ Tick

Fairness ==
  /\ \A w \in Workers : WF_vars(WorkerSteps(w))
  /\ \A c \in Clients : WF_vars(Joined(c))

Spec == Init /\ [][Next]_vars /\ Fairness

-----------------------------------------------------------------------------
TypeOK ==
  /\ PoolTypeOK([name : Names, target : Targets, number : 1 .. MaxCalls])
  /\ subscriptions \in Seq(Subscriptions)
  /\ nextId \in 1 .. MaxCalls + 1 /\ nextSequenceId \in 1 .. MaxCalls + 1
  /\ \A w \in Workers : pending[w] \in Seq(Subscriptions)
  /\ \A id \in 1 .. MaxCalls : received[id] \in Seq(1 .. MaxCalls)
  /\ \A p \in promises : p.future \in {"open", "answered", "empty"}

\* A handler sees the packets in the order of their numbers and each at most once, across
\* restarts too; a dispatch serves high priorities first.
ChannelInOrder ==
  /\ \A id \in 1 .. MaxCalls : \A j, k \in 1 .. Len(received[id]) :
       j < k => received[id][j] < received[id][k]
  /\ \A w \in Workers : \A j, k \in 1 .. Len(pending[w]) :
       j < k => pending[w][j].priority >= pending[w][k].priority

\* The future of sendAndWait() has its value for good.
FuturesFinal ==
  [][\A p \in promises : p.future # "open" => p \in promises']_promises

=============================================================================
