------------------------------- MODULE EventBus -------------------------------
(***************************************************************************)
(* The plugin EventBus, for the events of one name: subscriptions by       *)
(* priority, one-time subscriptions, and publications, which notify a copy *)
(* of the list without a lock, either in the publisher's own thread or in  *)
(* that of a worker.                                                       *)
(***************************************************************************)
EXTENDS QueueWorkers, Statistics, Functions

VARIABLES
  subscriptions,       \* subscriptions_[name], sorted
  index,               \* subscriptionIndex_
  totalSubscriptions,  \* statistics_.totalSubscriptions
  uncounted,           \* history: how many there were when the statistics were reset
  once,                \* the subscriptions whose flag "once" is set
  inactive,            \* those whose flag "active" was cleared
  marking,             \* the one that each client is about to set "once" for
  rest,                \* the rest of the copy that each publisher notifies
  toRemove,            \* what it will unsubscribe in the end
  publishing,          \* the publishers inside notifySubscribers()
  spent                \* history: "once" was set when the handler came back

lists == <<subscriptions, index, totalSubscriptions, uncounted>>
flags == <<once, inactive, marking, spent>>
notes == <<rest, toRemove, publishing>>
own   == <<lists, flags, notes>>
vars  == <<calls, now, poolVars, own>>

SubIds     == 1 .. MaxCalls
Publishers == Clients \cup Workers
Priorities == {0, 1}

Subscription == [id : SubIds, subscriber : Ids, priority : Priorities]

OwnInit ==
  /\ subscriptions = <<>> /\ index = {} /\ totalSubscriptions = 0 /\ uncounted = 0
  /\ once = {} /\ inactive = {} /\ spent = {}
  /\ marking = [c \in Clients |-> 0]
  /\ rest = [p \in Publishers |-> <<>>] /\ toRemove = [p \in Publishers |-> {}]
  /\ publishing = {}

Init == CallersInit /\ PoolInit /\ OwnInit

Free(c) == marking[c] = 0 /\ c \notin publishing /\ waiting[c] = "none" /\ stopper # c

-----------------------------------------------------------------------------
(* Subscriptions, with subscriptionsMutex_.                                *)

\* The list sorted by priority, equal ones in any order.
Inserted(sub) ==
  \E k \in 1 .. Len(subscriptions) + 1 :
    /\ \A j \in 1 .. k - 1 : subscriptions[j].priority >= sub.priority
    /\ \A j \in k .. Len(subscriptions) : subscriptions[j].priority <= sub.priority
    /\ subscriptions' = SubSeq(subscriptions, 1, k - 1) \o <<sub>>
                      \o SubSeq(subscriptions, k, Len(subscriptions))

\* subscribe(), or the first half of subscribeOnce().
Subscribe(c, subscriber, priority, oneTime) ==
  /\ Called /\ Free(c)
  /\ Inserted([id |-> calls', subscriber |-> subscriber, priority |-> priority])
  /\ index' = index \cup {calls'}
  /\ totalSubscriptions' = Raised(totalSubscriptions)
  /\ marking' = IF oneTime THEN [marking EXCEPT ![c] = calls'] ELSE marking
  /\ UNCHANGED <<poolVars, uncounted, once, inactive, spent, notes>>

\* The second half of subscribeOnce(), under a lock of its own.
MarkOnce(c) ==
  /\ marking[c] # 0
  /\ once' = once \cup ({marking[c]} \cap index)
  /\ marking' = [marking EXCEPT ![c] = 0]
  /\ UNCHANGED <<calls, now, poolVars, lists, inactive, spent, notes>>

Listed(ids) ==
  Sublist(subscriptions, {i \in DOMAIN subscriptions : subscriptions[i].id \notin ids})

\* Mutant: the subscriptions leave the lists and stay in the index.
RemovedFromList(ids) ==
  /\ subscriptions' = Listed(ids)
  /\ UNCHANGED <<index, uncounted>>
  /\ totalSubscriptions' = Lowered(totalSubscriptions, Cardinality(index \cap ids))

Removed(ids) ==
  /\ subscriptions' = Listed(ids)
  /\ index' = index \ ids
  /\ totalSubscriptions' = Lowered(totalSubscriptions, Cardinality(index \cap ids))
  /\ UNCHANGED uncounted

Unsubscribe(c, id) ==
  /\ Called /\ Free(c)
  /\ Removed({id})
  /\ UNCHANGED <<poolVars, flags, notes>>

UnsubscribeAll(c, subscriber) ==
  /\ Called /\ Free(c)
  /\ Removed({s.id : s \in {t \in Range(subscriptions) : t.subscriber = subscriber}})
  /\ UNCHANGED <<poolVars, flags, notes>>

GetSubscriberCount == Len(subscriptions)

\* resetStatistics(): the subscriptions that there are are not counted any more.
ResetStatistics ==
  /\ Called
  /\ totalSubscriptions' = 0 /\ uncounted' = Cardinality(index)
  /\ UNCHANGED <<poolVars, subscriptions, index, flags, notes>>

-----------------------------------------------------------------------------
(* Publications.  An event that a filter intercepts changes nothing.       *)

\* publish(), up to the copy of the list, with subscribers to notify.
Copied(p) ==
  /\ subscriptions # <<>>
  /\ rest' = [rest EXCEPT ![p] = subscriptions]
  /\ toRemove' = [toRemove EXCEPT ![p] = {}]
  /\ publishing' = publishing \cup {p}

Publish(c) == Called /\ Free(c) /\ Copied(c) /\ UNCHANGED <<poolVars, lists, flags>>

\* publishAsync(): without workers, the same as publish().
PublishAsync(c) ==
  /\ Called /\ Free(c)
  /\ IF running THEN Push("events", [number |-> calls']) /\ UNCHANGED notes
     ELSE Copied(c) /\ UNCHANGED poolVars
  /\ UNCHANGED <<lists, flags>>

\* notifySubscribers(), one subscription: inactive, ...
NotifySkips(p) ==
  /\ p \in publishing /\ rest[p] # <<>> /\ Head(rest[p]).id \in inactive
  /\ rest' = [rest EXCEPT ![p] = Tail(@)]
  /\ UNCHANGED <<calls, now, poolVars, lists, flags, toRemove, publishing>>

\* ... or called: the handler comes back, and may stop the propagation, ...
NotifyCalls(p, propagate) ==
  /\ p \in publishing /\ rest[p] # <<>>
  /\ LET id == Head(rest[p]).id
     IN  /\ id \notin inactive
         /\ toRemove' = [toRemove EXCEPT ![p] = @ \cup ({id} \cap once)]
         /\ spent' = spent \cup ({id} \cap once)
  /\ rest' = [rest EXCEPT ![p] = IF propagate THEN Tail(@) ELSE <<>>]
  /\ UNCHANGED <<calls, now, poolVars, lists, once, inactive, marking, publishing>>

\* ... or throws, and is not called again.
NotifyThrows(p) ==
  /\ p \in publishing /\ rest[p] # <<>>
  /\ Head(rest[p]).id \notin inactive
  /\ inactive' = inactive \cup {Head(rest[p]).id}
  /\ rest' = [rest EXCEPT ![p] = Tail(@)]
  /\ UNCHANGED <<calls, now, poolVars, lists, once, marking, spent, toRemove, publishing>>

\* The one-time subscriptions go one by one after all handlers.
NotifyRemoves(p, id) ==
  /\ p \in publishing /\ rest[p] = <<>> /\ id \in toRemove[p]
  /\ Removed({id})
  /\ toRemove' = [toRemove EXCEPT ![p] = @ \ {id}]
  /\ UNCHANGED <<calls, now, poolVars, flags, rest, publishing>>

NotifyEnds(p) ==
  /\ p \in publishing /\ rest[p] = <<>> /\ toRemove[p] = {}
  /\ publishing' = publishing \ {p}
  /\ IF p \in Workers THEN Finish(p) ELSE UNCHANGED <<calls, now, poolVars>>
  /\ UNCHANGED <<lists, flags, rest, toRemove>>

-----------------------------------------------------------------------------
(* startAsyncProcessing(), stopAsyncProcessing(), waitForAsyncEvents() and *)
(* the workers.                                                            *)

Start == Called /\ PoolStart /\ UNCHANGED <<lists, flags, notes>>

Stop(c) == Called /\ Free(c) /\ PoolStop(c) /\ UNCHANGED <<lists, flags, notes>>

Joined(c) == PoolStopped(c) /\ UNCHANGED <<lists, flags, notes>>

WaitForAsyncEvents(c) ==
  Called /\ Free(c) /\ PoolWait(c, "events") /\ UNCHANGED <<lists, flags, notes>>

WaitTests(c) == PoolWaitTests(c) /\ UNCHANGED <<lists, flags, notes>>

WorkerIdles(w) == Idles(w) /\ UNCHANGED <<lists, flags, notes>>

WorkerTakes(w) == Take(w) /\ UNCHANGED <<lists, flags, notes>>

\* publish() by a worker; without subscribers, or intercepted, it is over.
WorkerPublishes(w) ==
  /\ worker[w] = "busy" /\ w \notin publishing
  /\ \/ Copied(w) /\ UNCHANGED <<calls, now, poolVars>>
     \/ Finish(w) /\ UNCHANGED notes
  /\ UNCHANGED <<lists, flags>>

PublisherSteps(p) ==
  \/ NotifySkips(p) \/ NotifyThrows(p) \/ NotifyEnds(p)
  \/ \E propagate \in BOOLEAN : NotifyCalls(p, propagate)
  \/ \E id \in SubIds : NotifyRemoves(p, id)

Next ==
  \/ \E c \in Clients :
       \/ \E subscriber \in Ids :
            \/ \E priority \in Priorities, oneTime \in BOOLEAN :
                 Subscribe(c, subscriber, priority, oneTime)
            \/ UnsubscribeAll(c, subscriber)
       \/ MarkOnce(c) \/ \E id \in index : Unsubscribe(c, id)
       \/ Publish(c) \/ PublishAsync(c) \/ Stop(c) \/ Joined(c)
       \/ WaitForAsyncEvents(c) \/ WaitTests(c)
  \/ Start \/ ResetStatistics
  \/ \E p \in Publishers : PublisherSteps(p)
  \/ \E w \in Workers : WorkerIdles(w) \/ WorkerTakes(w) \/ WorkerPublishes(w)

WorkerSteps(w) == WorkerIdles(w) \/ WorkerTakes(w) \/ WorkerPublishes(w) \/ PublisherSteps(w)

Fairness ==
  /\ \A w \in Workers : WF_vars(WorkerSteps(w))
  /\ \A c \in Clients : WF_vars(PublisherSteps(c)) /\ WF_vars(Joined(c))

Spec == Init /\ [][Next]_vars /\ Fairness

-----------------------------------------------------------------------------
TypeOK ==
  /\ PoolTypeOK([number : 1 .. MaxCalls])
  /\ subscriptions \in Seq(Subscription) /\ index \subseteq SubIds
  /\ totalSubscriptions \in Nat /\ uncounted \in Nat
  /\ once \subseteq SubIds /\ inactive \subseteq SubIds /\ spent \subseteq SubIds
  /\ marking \in [Clients -> {0} \cup SubIds]
  /\ \A p \in Publishers : rest[p] \in Seq(Subscription)
  /\ toRemove \in [Publishers -> SUBSET SubIds]
  /\ publishing \subseteq Publishers

\* The list and the index name the same subscriptions, each once and in priority order, and
\* totalSubscriptions is their number.  (After resetStatistics() it does not count those that
\* there were: it is too small by their number, and wraps when more are unsubscribed than
\* were made since.)
SubscriptionsAgree ==
  /\ {s.id : s \in Range(subscriptions)} = index
  /\ Len(subscriptions) = Cardinality(index)
  /\ totalSubscriptions = Wrapped(Cardinality(index) - uncounted)
  /\ \A j, k \in 1 .. Len(subscriptions) :
       j < k => subscriptions[j].priority >= subscriptions[k].priority

\* A one-time subscription whose handler came back is gone when the publications that
\* called it have ended, also when a handler stopped the propagation or threw.  (That it
\* "fires only once", as Event.hpp:192 says of the flag, does not hold: a publication over a
\* copy made before the end of the first one calls it again, and so does a later one when
\* the first came before subscribeOnce() had set the flag.)
OnceIsOver ==
  \A id \in spent \cap index : \E p \in publishing : id \in toRemove[p]

Drained == queue["events"] = <<>>

\* The queued events are published once no more of them come, unless the bus is stopped or
\* a waitForAsyncEvents() took the notification.
WorkWaits       == running /\ ~Drained
WorkDone        == Drained \/ ~running \/ stolen
EventsPublished == WorkWaits ~> WorkDone

=============================================================================
