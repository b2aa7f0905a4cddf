----------------------------- MODULE DataChannel -----------------------------
(***************************************************************************)
(* A MemoryDataChannel, a bounded queue of byte vectors that drops the     *)
(* oldest when it is full, and the DataChannelManager that owns it and     *)
(* deletes it while others still hold the raw pointer.                     *)
(***************************************************************************)
EXTENDS Callers, Sequences

VARIABLES
  life,         \* "absent", "present" or "deleted" by the manager
  maxSize,      \* maxSize_
  closed,       \* closed_
  messages,     \* queue_: the number of each message and its size
  currentSize,  \* currentSize_
  place,        \* where each client is: "idle", "send" (past the test of closed_),
                \* "lock" (in receive), "batch" (in receiveBatch), "dozing" (has the mutex
                \* and found nothing), "asleep"
  sent,         \* history: messages sent
  taken,        \* history: the numbers that receivers took, in order
  missed,       \* history: close() notified while a receiver was dozing
  dangling      \* history: the channel was deleted with a client inside

channel == <<life, maxSize, closed, messages, currentSize>>
past    == <<sent, taken, missed, dangling>>
own  == <<channel, place, past>>
vars == <<calls, now, own>>

Absent(size) ==
  /\ maxSize = size /\ closed = FALSE /\ messages = <<>> /\ currentSize = 0

Init ==
  /\ CallersInit
  /\ life = "absent"
  /\ \E size \in Limits : Absent(size)
  /\ place = [c \in Clients |-> "idle"]
  /\ sent = 0 /\ taken = <<>> /\ missed = FALSE /\ dangling = FALSE

MutexFree == \A c \in Clients : place[c] # "dozing"

Goes(c, to) == place' = [place EXCEPT ![c] = to]

Enters(c) == Called /\ place[c] = "idle" /\ life = "present"

\* notify_one() and notify_all() under or after the change.
Woken(sleepers) ==
  place' = [c \in Clients |-> IF c \in sleepers THEN "lock" ELSE place[c]]

Asleep == {c \in Clients : place[c] = "asleep"}

-----------------------------------------------------------------------------
(* DataChannelManager.                                                     *)

Inside == {c \in Clients : place[c] # "idle"}

\* createChannel(): an old channel of the name is deleted under its users.
CreateChannel(size) ==
  /\ Called /\ life = "absent"
  /\ life' = "present" /\ maxSize' = size
  /\ UNCHANGED <<closed, messages, currentSize, place, past>>

\* closeChannel(), closeAll() or createChannel() of the same name.
DeleteChannel ==
  /\ Called /\ life = "present"
  /\ life' = "deleted" /\ closed' = TRUE
  /\ dangling' = (Inside # {})
  /\ UNCHANGED <<maxSize, messages, currentSize, place, sent, taken, missed>>

-----------------------------------------------------------------------------
(* send().                                                                 *)

SendTests(c) ==
  /\ Enters(c) /\ ~closed
  /\ Goes(c, "send")
  /\ UNCHANGED <<channel, past>>

Sum(seq) ==
  LET total[i \in 0 .. Len(seq)] == IF i = 0 THEN 0 ELSE total[i - 1] + seq[i].size
  IN  total[Len(seq)]

\* The oldest messages go until the new one fits, or none is left.
Dropped(size) ==
  CHOOSE j \in 0 .. Len(messages) :
    LET left(i) == currentSize - Sum(SubSeq(messages, 1, i))
    IN  /\ j = Len(messages) \/ left(j) + size <= maxSize
        /\ \A i \in 0 .. j - 1 : left(i) + size > maxSize

Kept(size) == SubSeq(messages, Dropped(size) + 1, Len(messages))

\* Mutant: the dropped messages still count.
SizeKept(size) == currentSize

SizeOfKept(size) == currentSize - Sum(SubSeq(messages, 1, Dropped(size)))

\* closed_ is not tested again: a message may enter a channel that was just closed.
Send(c, size) ==
  /\ place[c] = "send" /\ life = "present" /\ MutexFree
  /\ messages' = Append(Kept(size), [number |-> sent + 1, size |-> size])
  /\ currentSize' = SizeOfKept(size) + size
  /\ sent' = sent + 1
  /\ \/ Asleep = {} /\ Goes(c, "idle")
     \/ \E r \in Asleep : place' = [place EXCEPT ![r] = "lock", ![c] = "idle"]
  /\ UNCHANGED <<calls, now, life, maxSize, closed, taken, missed, dangling>>

-----------------------------------------------------------------------------
(* receive() and receiveBatch().                                           *)

Receive(c, how) == Enters(c) /\ Goes(c, how) /\ UNCHANGED <<channel, past>>

Receiving(c) == place[c] \in {"lock", "batch"} /\ life = "present" /\ MutexFree

ReceiveWaits(c) ==
  /\ Receiving(c) /\ place[c] = "lock"
  /\ messages = <<>> /\ ~closed
  /\ Goes(c, "dozing")
  /\ UNCHANGED <<calls, now, channel, past>>

ReceiveSleeps(c) ==
  /\ place[c] = "dozing" /\ Goes(c, "asleep")
  /\ UNCHANGED <<calls, now, channel, past>>

\* The empty vector of a closed channel, or the end of the wait of receiveBatch().
ReceiveNothing(c) ==
  /\ Receiving(c) /\ messages = <<>>
  /\ place[c] = "lock" => closed
  /\ Goes(c, "idle")
  /\ UNCHANGED <<calls, now, channel, past>>

\* receiveBatch() goes on until it has enough.
ReceiveTakes(c) ==
  /\ Receiving(c) /\ messages # <<>>
  /\ messages' = Tail(messages)
  /\ currentSize' = currentSize - Head(messages).size
  /\ taken' = Append(taken, Head(messages).number)
  /\ \/ Goes(c, "idle")
     \/ place[c] = "batch" /\ UNCHANGED place
  /\ UNCHANGED <<calls, now, life, maxSize, closed, sent, missed, dangling>>

-----------------------------------------------------------------------------
(* close() and clear().                                                    *)

\* Mutant: close() wakes nobody.
CloseQuiet ==
  /\ Called /\ life = "present"
  /\ closed' = TRUE
  /\ UNCHANGED <<life, maxSize, messages, currentSize, place, past>>

Close ==
  /\ Called /\ life = "present"
  /\ closed' = TRUE
  /\ Woken(Asleep)
  /\ missed' = (missed \/ ~MutexFree)
  /\ UNCHANGED <<life, maxSize, messages, currentSize, sent, taken, dangling>>

Clear ==
  /\ Called /\ life = "present" /\ MutexFree
  /\ messages' = <<>> /\ currentSize' = 0
  /\ UNCHANGED <<life, maxSize, closed, place, past>>

Next ==
  \/ \E size \in Limits : CreateChannel(size)
  \/ DeleteChannel \/ Close \/ Clear
  \/ \E c \in Clients :
       \/ SendTests(c) \/ \E size \in Limits : Send(c, size)
       \/ \E how \in {"lock", "batch"} : Receive(c, how)
       \/ ReceiveWaits(c) \/ ReceiveSleeps(c) \/ ReceiveNothing(c) \/ ReceiveTakes(c)

ReceiverSteps(c) ==
  ReceiveWaits(c) \/ ReceiveSleeps(c) \/ ReceiveNothing(c) \/ ReceiveTakes(c)

Fairness == \A c \in Clients : WF_vars(ReceiverSteps(c))

Spec == Init /\ [][Next]_vars /\ Fairness

-----------------------------------------------------------------------------
TypeOK ==
  /\ CallersTypeOK
  /\ life \in {"absent", "present", "deleted"} /\ closed \in BOOLEAN
  /\ maxSize \in Limits
  /\ messages \in Seq([number : Nat, size : Limits]) /\ currentSize \in Nat
  /\ place \in [Clients -> {"idle", "send", "lock", "batch", "dozing", "asleep"}]
  /\ sent \in Nat /\ taken \in Seq(Nat) /\ missed \in BOOLEAN /\ dangling \in BOOLEAN

\* The size that the channel keeps is that of its messages, and over the limit only when
\* it holds a single message that is larger than the limit by itself.
SizesAgree ==
  /\ currentSize = Sum(messages)
  /\ currentSize > maxSize => Len(messages) = 1

\* Receivers take messages in the order they were sent, each at most once; older ones
\* may have been dropped.
TakenInOrder ==
  \A j, k \in 1 .. Len(taken) :
    /\ j < k => taken[j] < taken[k]
    /\ \A i \in 1 .. Len(messages) : taken[j] < messages[i].number

\* A receiver comes back once the channel is closed, unless the notification fell between
\* its test and its wait, or the channel was deleted under it.
CallOpen(c)     == closed /\ place[c] \in {"lock", "dozing", "asleep"}
CallOver(c)     == place[c] = "idle" \/ missed \/ dangling
ReceiversReturn == \A c \in Clients : CallOpen(c) ~> CallOver(c)

=============================================================================
