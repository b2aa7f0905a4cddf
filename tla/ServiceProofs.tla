---------------------------- MODULE ServiceProofs ----------------------------
(***************************************************************************)
(* Proofs about the services of MCServices that decide: the circuit        *)
(* breaker, the timeout, the conditional workflow, the retry policy, the   *)
(* resources and the facade.  The last sections put these and StoreProofs  *)
(* together, into theorems about the properties of MCServices.             *)
(***************************************************************************)
EXTENDS StoreProofs

-----------------------------------------------------------------------------
(* The circuit breaker: types.  Neither count is ahead of the calls.       *)

BreakerCountInv ==
  Breaker!TypeOK /\ failureCount <= calls /\ successCount <= calls /\ openTime <= now

\* What a step of a method or of its tail may write.
BreakerWrites ==
  /\ cbState' \in Breaker!CircuitState
  /\ failureCount' \in {0, failureCount, failureCount + 1}
  /\ successCount' \in {0, successCount, successCount + 1}
  /\ openTime' \in {0, openTime, now}
  /\ tail' \in [Clients -> Breaker!Tail]
  /\ UNCHANGED <<now, cbConfig, hasCallback>>

LEMMA BreakerTailWrites ==
  ASSUME NEW what, NEW failures, NEW successes, Breaker!RunTail(what, failures, successes)
  PROVE  /\ failureCount' \in {0, failures}
         /\ successCount' \in {0, successes}
         /\ openTime' \in {0, openTime, now}
  BY DEF Breaker!RunTail

LEMMA BreakerSetStateWrites ==
  ASSUME Breaker!TypeOK, NEW c \in Clients, NEW to \in Breaker!CircuitState,
         NEW what \in Breaker!Tail,
         NEW failures \in {failureCount, failureCount + 1},
         NEW successes \in {successCount, successCount + 1},
         Breaker!SetState(c, to, what, failures, successes),
         UNCHANGED <<now, cbConfig, hasCallback>>
  PROVE  BreakerWrites
  <1>1. tail' \in [Clients -> Breaker!Tail] BY DEF Breaker!SetState, Breaker!TypeOK
  <1>2. cbState' \in Breaker!CircuitState BY DEF Breaker!SetState
  <1>3. /\ failureCount' \in {0, failures} /\ successCount' \in {0, successes}
        /\ openTime' \in {0, openTime, now}
    BY BreakerTailWrites DEF Breaker!SetState
  <1> QED BY <1>1, <1>2, <1>3 DEF BreakerWrites

\* A method that counts a result or forces the state.
BreakerMethod(c) ==
  \/ Breaker!RecordSuccess(c) \/ Breaker!RecordFailure(c)
  \/ Breaker!Reset(c) \/ Breaker!ForceOpen(c)

LEMMA BreakerMethodWrites ==
  ASSUME Breaker!TypeOK, NEW c \in Clients,
         BreakerMethod(c)
  PROVE  /\ BreakerWrites /\ overlapped' \in BOOLEAN
         /\ calls' = calls + 1 /\ calls' \in 0 .. MaxCalls
  <1>1. Breaker!Mutates(c)
    BY DEF BreakerMethod, Breaker!RecordSuccess, Breaker!RecordFailure, Breaker!Reset,
           Breaker!ForceOpen
  <1>2. /\ calls' = calls + 1 /\ calls' \in 0 .. MaxCalls
        /\ UNCHANGED <<now, cbConfig, hasCallback>>
    BY <1>1, CallersAssumption
       DEF Breaker!Mutates, Breaker!Called, Breaker!TypeOK, Breaker!CallersTypeOK
  <1>3. overlapped' \in BOOLEAN BY <1>1 DEF Breaker!Mutates, Breaker!TypeOK
  <1>4. {"CLOSED", "OPEN", "HALF_OPEN"} \subseteq Breaker!CircuitState
    BY DEF Breaker!CircuitState
  <1>5. {"clearCounts", "clearAll", "markOpen", "nothing"} \subseteq Breaker!Tail
    BY DEF Breaker!Tail
  <1>6. CASE Breaker!RecordSuccess(c)
    <2>1. PICK to \in Breaker!CircuitState, what \in Breaker!Tail :
            \/ Breaker!SetState(c, to, what, failureCount, successCount + 1)
            \/ Breaker!Count(failureCount, successCount + 1)
      BY <1>4, <1>5, <1>6 DEF Breaker!RecordSuccess
    <2>2. CASE Breaker!SetState(c, to, what, failureCount, successCount + 1)
      BY <1>2, <1>3, <2>2, BreakerSetStateWrites
    <2>3. CASE Breaker!Count(failureCount, successCount + 1)
      BY <1>2, <1>3, <2>3 DEF Breaker!Count, BreakerWrites, Breaker!TypeOK
    <2> QED BY <2>1, <2>2, <2>3
  <1>7. CASE Breaker!RecordFailure(c)
    <2>1. \/ Breaker!SetState(c, "OPEN", "markOpen", failureCount + 1, successCount)
          \/ Breaker!Count(failureCount + 1, successCount)
          \/ /\ Breaker!RunTail("markOpen", failureCount + 1, successCount)
             /\ UNCHANGED <<cbState, tail>>
      BY <1>7 DEF Breaker!RecordFailure
    <2>2. CASE Breaker!SetState(c, "OPEN", "markOpen", failureCount + 1, successCount)
      BY <1>2, <1>3, <1>4, <1>5, <2>2, BreakerSetStateWrites
    <2>3. CASE Breaker!Count(failureCount + 1, successCount)
      BY <1>2, <1>3, <2>3 DEF Breaker!Count, BreakerWrites, Breaker!TypeOK
    <2>4. CASE /\ Breaker!RunTail("markOpen", failureCount + 1, successCount)
               /\ UNCHANGED <<cbState, tail>>
      BY <1>2, <1>3, <2>4, BreakerTailWrites DEF BreakerWrites, Breaker!TypeOK
    <2> QED BY <2>1, <2>2, <2>3, <2>4
  <1>8. CASE Breaker!Reset(c)
    BY <1>2, <1>3, <1>4, <1>5, <1>8, BreakerSetStateWrites DEF Breaker!Reset
  <1>9. CASE Breaker!ForceOpen(c)
    BY <1>2, <1>3, <1>4, <1>5, <1>9, BreakerSetStateWrites DEF Breaker!ForceOpen
  <1> QED BY <1>6, <1>7, <1>8, <1>9 DEF BreakerMethod

LEMMA BreakerTypeInit == Breaker!Init => BreakerCountInv
  <1> SUFFICES ASSUME Breaker!Init PROVE BreakerCountInv
    OBVIOUS
  <1>1. calls \in 0 .. MaxCalls /\ now \in 1 .. MaxTime /\ 0 \in 0 .. MaxTime
    BY CallersAssumption DEF Breaker!Init, Breaker!CallersInit
  <1>2. tail = [c \in Clients |-> "none"] BY DEF Breaker!Init
  <1>3. tail \in [Clients -> Breaker!Tail] BY <1>2 DEF Breaker!Tail
  <1>4. /\ hasCallback \in BOOLEAN /\ overlapped \in BOOLEAN
        /\ cbConfig \in Breaker!CircuitBreakerConfig
    BY DEF Breaker!Init
  <1>5. cbState \in Breaker!CircuitState BY DEF Breaker!Init, Breaker!CircuitState
  <1>6. failureCount = 0 /\ successCount = 0 /\ openTime = 0 BY DEF Breaker!Init
  <1>7. 0 \in 0 .. MaxCalls BY CallersAssumption
  <1>8. Breaker!TypeOK
    BY <1>1, <1>3, <1>4, <1>5, <1>6, <1>7 DEF Breaker!TypeOK, Breaker!CallersTypeOK
  <1> QED BY <1>1, <1>6, <1>8 DEF BreakerCountInv

LEMMA BreakerTypeStep == BreakerCountInv /\ [Breaker!Next]_(Breaker!vars) => BreakerCountInv'
  <1> SUFFICES ASSUME BreakerCountInv, [Breaker!Next]_(Breaker!vars) PROVE BreakerCountInv'
    OBVIOUS
  <1>0. Breaker!TypeOK BY DEF BreakerCountInv
  <1>1. ASSUME NEW c \in Clients,
               BreakerMethod(c)
        PROVE  BreakerCountInv'
    BY <1>0, <1>1, BreakerMethodWrites, CallersAssumption
       DEF BreakerCountInv, Breaker!TypeOK, Breaker!CallersTypeOK, BreakerWrites
  <1>2. ASSUME NEW c \in Clients, Breaker!CallbackReturns(c)
        PROVE  BreakerCountInv'
    <2>1. tail' \in [Clients -> Breaker!Tail]
      BY <1>0, <1>2 DEF Breaker!CallbackReturns, Breaker!TypeOK, Breaker!Tail
    <2>2. /\ failureCount' \in {0, failureCount} /\ successCount' \in {0, successCount}
          /\ openTime' \in {0, openTime, now}
      BY <1>2, BreakerTailWrites DEF Breaker!CallbackReturns
    <2> QED BY <1>2, <2>1, <2>2, CallersAssumption
            DEF Breaker!CallbackReturns, BreakerCountInv, Breaker!TypeOK, Breaker!CallersTypeOK
  <1>3. ASSUME NEW config \in Breaker!CircuitBreakerConfig, Breaker!SetConfig(config)
        PROVE  BreakerCountInv'
    BY <1>3, CallersAssumption
       DEF Breaker!SetConfig, Breaker!Called, BreakerCountInv, Breaker!TypeOK,
           Breaker!CallersTypeOK, Breaker!counts
  <1>4. ASSUME NEW set \in BOOLEAN, Breaker!SetStateChangeCallback(set)
        PROVE  BreakerCountInv'
    BY <1>4, CallersAssumption
       DEF Breaker!SetStateChangeCallback, Breaker!Called, BreakerCountInv, Breaker!TypeOK,
           Breaker!CallersTypeOK, Breaker!counts
  <1>5. CASE Breaker!Tick
    BY <1>5, CallersAssumption
       DEF Breaker!Tick, Breaker!Elapse, BreakerCountInv, Breaker!TypeOK,
           Breaker!CallersTypeOK, Breaker!counts
  <1>6. CASE UNCHANGED Breaker!vars
    BY <1>6 DEF Breaker!vars, Breaker!own, BreakerCountInv, Breaker!TypeOK,
                Breaker!CallersTypeOK
  <1> QED BY <1>1, <1>2, <1>3, <1>4, <1>5, <1>6 DEF Breaker!Next, BreakerMethod

-----------------------------------------------------------------------------
(* The state and the tails.  Until methods overlap, one thread at most is  *)
(* in a callback, what it is going to do fits the state that it announces, *)
(* and an open breaker that nobody announces knows when it opened.         *)

AnnouncedState(what) ==
  IF what = "markOpen" THEN "OPEN" ELSE IF what = "nothing" THEN "HALF_OPEN" ELSE "CLOSED"

BreakerTailInv ==
  ~overlapped =>
    /\ \A c, d \in Clients : tail[c] # "none" /\ tail[d] # "none" => c = d
    /\ \A c \in Clients : tail[c] # "none" => cbState = AnnouncedState(tail[c])
    /\ cbState = "OPEN" /\ ~Breaker!Opening => openTime > 0

BreakerInv == BreakerCountInv /\ BreakerTailInv

\* A method that begins while nobody is in a callback, and what it leaves behind.
BreakerAlone == \A c \in Clients : tail[c] = "none"

LEMMA BreakerMutatesAlone ==
  ASSUME Breaker!TypeOK, NEW c \in Clients, Breaker!Mutates(c), ~overlapped'
  PROVE  BreakerAlone /\ ~overlapped /\ UNCHANGED <<overlapped, now>>
  <1>1. overlapped' = (overlapped \/ \E d \in Clients : tail[d] # "none") BY DEF Breaker!Mutates
  <1>2. ~overlapped /\ BreakerAlone BY <1>1 DEF BreakerAlone
  <1>3. overlapped' = FALSE BY <1>1, <1>2 DEF BreakerAlone
  <1>4. overlapped \in BOOLEAN BY DEF Breaker!TypeOK
  <1>5. overlapped = FALSE BY <1>2, <1>4
  <1> QED BY <1>2, <1>3, <1>5 DEF Breaker!Mutates, Breaker!Called

LEMMA BreakerSetStateTail ==
  ASSUME BreakerCountInv, BreakerAlone, NEW c \in Clients, NEW to \in Breaker!CircuitState,
         NEW what \in Breaker!Tail \ {"none"}, to = AnnouncedState(what),
         NEW failures, NEW successes, Breaker!SetState(c, to, what, failures, successes),
         UNCHANGED <<overlapped, now>>
  PROVE  BreakerTailInv'
  <1>1. CASE hasCallback /\ cbState # to
    <2>1. tail' = [tail EXCEPT ![c] = what] /\ cbState' = to BY <1>1 DEF Breaker!SetState
    <2>2. tail'[c] = what /\ \A d \in Clients \ {c} : tail'[d] = "none"
      BY <2>1 DEF BreakerAlone, BreakerCountInv, Breaker!TypeOK
    <2>3. cbState' = "OPEN" => what = "markOpen" BY <2>1 DEF AnnouncedState
    <2> QED BY <2>1, <2>2, <2>3 DEF BreakerTailInv, Breaker!Opening
  <1>2. CASE ~(hasCallback /\ cbState # to)
    <2>1. cbState' = to /\ tail' = tail /\ Breaker!RunTail(what, failures, successes)
      BY <1>2 DEF Breaker!SetState
    <2>2. cbState' = "OPEN" => openTime' = now BY <2>1 DEF Breaker!RunTail, AnnouncedState
    <2>3. now > 0 BY DEF BreakerCountInv, Breaker!TypeOK, Breaker!CallersTypeOK
    <2> QED BY <2>1, <2>2, <2>3 DEF BreakerTailInv, BreakerAlone, BreakerCountInv
  <1> QED BY <1>1, <1>2

LEMMA BreakerTailStep == BreakerInv /\ [Breaker!Next]_(Breaker!vars) => BreakerTailInv'
  <1> SUFFICES ASSUME BreakerInv, [Breaker!Next]_(Breaker!vars), ~overlapped'
               PROVE  BreakerTailInv'
    BY DEF BreakerTailInv
  <1>0. BreakerCountInv /\ BreakerTailInv /\ Breaker!TypeOK BY DEF BreakerInv, BreakerCountInv
  <1>1. ASSUME NEW c \in Clients, Breaker!RecordSuccess(c)
        PROVE  BreakerTailInv'
    <2>1. BreakerAlone /\ ~overlapped /\ UNCHANGED <<overlapped, now>>
      BY <1>0, <1>1, BreakerMutatesAlone DEF Breaker!RecordSuccess
    <2>2. CASE Breaker!SetState(c, "CLOSED", "clearCounts", failureCount, successCount + 1)
      BY <1>0, <2>1, <2>2, BreakerSetStateTail
         DEF AnnouncedState, Breaker!Tail, Breaker!CircuitState
    <2>3. CASE Breaker!SetState(c, "HALF_OPEN", "nothing", failureCount, successCount + 1)
      BY <1>0, <2>1, <2>3, BreakerSetStateTail
         DEF AnnouncedState, Breaker!Tail, Breaker!CircuitState
    <2>4. CASE Breaker!Count(failureCount, successCount + 1)
      BY <1>0, <2>1, <2>4 DEF Breaker!Count, BreakerTailInv, Breaker!Opening, BreakerAlone
    <2> QED BY <1>1, <2>2, <2>3, <2>4 DEF Breaker!RecordSuccess
  <1>2. ASSUME NEW c \in Clients, Breaker!RecordFailure(c)
        PROVE  BreakerTailInv'
    <2>1. BreakerAlone /\ ~overlapped /\ UNCHANGED <<overlapped, now>>
      BY <1>0, <1>2, BreakerMutatesAlone DEF Breaker!RecordFailure
    <2>2. CASE Breaker!SetState(c, "OPEN", "markOpen", failureCount + 1, successCount)
      BY <1>0, <2>1, <2>2, BreakerSetStateTail
         DEF AnnouncedState, Breaker!Tail, Breaker!CircuitState
    <2>3. CASE Breaker!Count(failureCount + 1, successCount)
      BY <1>0, <2>1, <2>3 DEF Breaker!Count, BreakerTailInv, Breaker!Opening, BreakerAlone
    <2>4. CASE /\ Breaker!RunTail("markOpen", failureCount + 1, successCount)
               /\ UNCHANGED <<cbState, tail>>
      BY <1>0, <2>1, <2>4
         DEF Breaker!RunTail, BreakerTailInv, Breaker!Opening, BreakerAlone, Breaker!TypeOK,
             Breaker!CallersTypeOK
    <2> QED BY <1>2, <2>2, <2>3, <2>4 DEF Breaker!RecordFailure
  <1>3. ASSUME NEW c \in Clients, Breaker!Reset(c) \/ Breaker!ForceOpen(c)
        PROVE  BreakerTailInv'
    <2>1. BreakerAlone /\ ~overlapped /\ UNCHANGED <<overlapped, now>>
      BY <1>0, <1>3, BreakerMutatesAlone DEF Breaker!Reset, Breaker!ForceOpen
    <2>2. \/ Breaker!SetState(c, "CLOSED", "clearAll", failureCount, successCount)
          \/ Breaker!SetState(c, "OPEN", "markOpen", failureCount, successCount)
      BY <1>3 DEF Breaker!Reset, Breaker!ForceOpen
    <2> QED BY <1>0, <2>1, <2>2, BreakerSetStateTail
               DEF AnnouncedState, Breaker!Tail, Breaker!CircuitState
  <1>4. ASSUME NEW c \in Clients, Breaker!CallbackReturns(c)
        PROVE  BreakerTailInv'
    <2>1. /\ tail[c] # "none" /\ tail' = [tail EXCEPT ![c] = "none"]
          /\ Breaker!RunTail(tail[c], failureCount, successCount)
          /\ UNCHANGED <<cbState, overlapped, now>>
      BY <1>4 DEF Breaker!CallbackReturns
    <2>2. ~overlapped BY <2>1
    <2>3. \A d \in Clients : tail'[d] = "none"
      BY <1>0, <2>1, <2>2 DEF BreakerTailInv, Breaker!TypeOK
    <2>4. cbState = AnnouncedState(tail[c]) BY <1>0, <2>1, <2>2 DEF BreakerTailInv
    <2>5. cbState = "OPEN" => openTime' = now BY <2>1, <2>4 DEF Breaker!RunTail, AnnouncedState
    <2> QED BY <1>0, <2>1, <2>3, <2>5
               DEF BreakerTailInv, Breaker!Opening, Breaker!TypeOK, Breaker!CallersTypeOK
  <1>5. ASSUME UNCHANGED <<cbState, tail, openTime, overlapped>>
        PROVE  BreakerTailInv'
    BY <1>0, <1>5 DEF BreakerTailInv, Breaker!Opening
  <1> QED BY <1>1, <1>2, <1>3, <1>4, <1>5
          DEF Breaker!Next, Breaker!SetConfig, Breaker!SetStateChangeCallback, Breaker!Tick,
              Breaker!vars, Breaker!own

LEMMA BreakerInit == Breaker!Init => BreakerInv
  <1>1. Breaker!Init => BreakerTailInv BY DEF Breaker!Init, BreakerTailInv
  <1> QED BY <1>1, BreakerTypeInit DEF BreakerInv

LEMMA BreakerStep == BreakerInv /\ [Breaker!Next]_(Breaker!vars) => BreakerInv'
  BY BreakerTypeStep, BreakerTailStep DEF BreakerInv

LEMMA BreakerInvHolds == Breaker!Spec => []BreakerInv
  BY BreakerInit, BreakerStep, PTL DEF Breaker!Spec

LEMMA BreakerViewsAgree == BreakerInv => Breaker!ViewsAgree
  BY DEF BreakerInv, BreakerCountInv, Breaker!TypeOK, Breaker!CircuitState, BreakerTailInv,
         Breaker!ViewsAgree, Breaker!AllowRequest, Breaker!GetState, Breaker!Elapsed

\* Until methods overlap, the two views of an open breaker agree: allowRequest() lets
\* requests through exactly when getState() does not say OPEN.
THEOREM ViewsOfOpenAgree == Breaker!Spec => []Breaker!ViewsAgree
  BY BreakerInvHolds, BreakerViewsAgree, PTL

-----------------------------------------------------------------------------
(* The refinement.  Every step is a step of BreakerPromise; those that     *)
(* count only, or set the callback, stutter.                               *)

BreakerWait  == IF cbConfig.enabled THEN cbConfig.resetTimeoutMs ELSE 0

LEMMA BreakerPassesAsPromised == BreakerInv /\ ~overlapped => Breaker!Promise!PassesWhenDue
  <1> SUFFICES ASSUME BreakerInv, ~overlapped PROVE Breaker!Promise!PassesWhenDue
    OBVIOUS
  <1>1. BreakerCountInv /\ Breaker!TypeOK BY DEF BreakerInv, BreakerCountInv
  <1>2. ASSUME Breaker!Mode = "OPEN"
        PROVE  Breaker!AllowRequest <=> now - openTime >= BreakerWait
    <2>1. cbState = "OPEN" /\ openTime > 0 BY <1>2 DEF Breaker!Mode, BreakerInv, BreakerTailInv
    <2>2. now \in Nat /\ openTime \in Nat /\ openTime <= now
      BY <1>1, CallersAssumption DEF BreakerCountInv, Breaker!TypeOK, Breaker!CallersTypeOK
    <2> QED BY <2>1, <2>2 DEF Breaker!AllowRequest, Breaker!Elapsed, BreakerWait
  <1>3. Breaker!Mode \in {"CLOSED", "HALF_OPEN"} => Breaker!AllowRequest
    BY DEF Breaker!Mode, Breaker!AllowRequest
  <1> QED BY <1>2, <1>3 DEF Breaker!Promise!PassesWhenDue, Breaker!Promise!Waited, BreakerWait

LEMMA BreakerInitPromise == Breaker!Init => Breaker!Promise!Init
  <1> SUFFICES ASSUME Breaker!Init PROVE Breaker!Promise!Init
    OBVIOUS
  <1>1. cbState = "CLOSED" BY DEF Breaker!Init
  <1>2. Breaker!Mode = "CLOSED" BY <1>1 DEF Breaker!Mode, Breaker!Opening
  <1>3. Breaker!AllowRequest BY <1>1 DEF Breaker!AllowRequest
  <1> QED BY <1>2, <1>3 DEF Breaker!Promise!Init, Breaker!Promise!PassesWhenDue

\* The mode that a method leaves when it changed the state to "to".
LEMMA BreakerSetStateMode ==
  ASSUME BreakerCountInv, BreakerAlone, NEW c \in Clients, NEW to \in Breaker!CircuitState,
         NEW what \in Breaker!Tail \ {"none"}, to = AnnouncedState(what),
         NEW failures, NEW successes, Breaker!SetState(c, to, what, failures, successes)
  PROVE  /\ to # "OPEN" => Breaker!Mode' = to
         /\ to = "OPEN" => \/ Breaker!Mode' = "OPEN" /\ openTime' = now
                           \/ Breaker!Mode' = "OPENING" /\ cbState # "OPEN"
  <1>1. cbState' = to BY DEF Breaker!SetState
  <1>2. CASE to # "OPEN" BY <1>1, <1>2 DEF Breaker!Mode, Breaker!Opening
  <1>3. CASE to = "OPEN" /\ hasCallback /\ cbState # to
    <2>1. tail' = [tail EXCEPT ![c] = "markOpen"]
      BY <1>3 DEF Breaker!SetState, AnnouncedState, Breaker!Tail
    <2>2. tail'[c] = "markOpen" BY <2>1 DEF BreakerCountInv, Breaker!TypeOK
    <2> QED BY <1>1, <1>3, <2>2 DEF Breaker!Mode, Breaker!Opening
  <1>4. CASE to = "OPEN" /\ ~(hasCallback /\ cbState # to)
    <2>1. tail' = tail /\ openTime' = now
      BY <1>4 DEF Breaker!SetState, Breaker!RunTail, AnnouncedState, Breaker!Tail
    <2> QED BY <1>1, <1>4, <2>1 DEF Breaker!Mode, Breaker!Opening, BreakerAlone
  <1> QED BY <1>2, <1>3, <1>4

LEMMA BreakerModeAlone == BreakerAlone => Breaker!Mode = cbState
  BY DEF BreakerAlone, Breaker!Mode, Breaker!Opening

LEMMA BreakerStepPromise ==
  BreakerInv /\ BreakerInv' /\ [Breaker!Next]_(Breaker!vars)
    => [overlapped' \/ Breaker!Promise!Next]_<<cbState, tail, openTime, cbConfig, now>>
  <1> SUFFICES ASSUME BreakerInv, BreakerInv', [Breaker!Next]_(Breaker!vars), ~overlapped',
                      ~UNCHANGED <<cbState, tail, openTime, cbConfig, now>>
               PROVE  Breaker!Promise!Next
    OBVIOUS
  <1>0. BreakerCountInv /\ BreakerTailInv /\ Breaker!TypeOK BY DEF BreakerInv, BreakerCountInv
  <1>1. Breaker!Promise!PassesWhenDue' BY BreakerPassesAsPromised, PTL
  <1>2. ASSUME NEW c \in Clients,
               BreakerMethod(c)
        PROVE  Breaker!Promise!Next
    <2>1. Breaker!Mutates(c)
      BY <1>2 DEF BreakerMethod, Breaker!RecordSuccess, Breaker!RecordFailure, Breaker!Reset,
           Breaker!ForceOpen
    <2>2. BreakerAlone /\ ~overlapped BY <1>0, <2>1, BreakerMutatesAlone
    <2>3. Breaker!Mode = cbState /\ cbState \in Breaker!CircuitState
      BY <1>0, <2>2, BreakerModeAlone DEF Breaker!TypeOK
    <2>4. UNCHANGED <<now, cbConfig>> BY <2>1 DEF Breaker!Mutates, Breaker!Called
    <2>5. ASSUME NEW failures, NEW successes,
                 Breaker!SetState(c, "OPEN", "markOpen", failures, successes)
          PROVE  Breaker!Promise!Next
      <3>1. \/ Breaker!Mode' = "OPEN" /\ openTime' = now
            \/ Breaker!Mode' = "OPENING" /\ cbState # "OPEN"
        BY <1>0, <2>2, <2>5, BreakerSetStateMode
           DEF AnnouncedState, Breaker!Tail, Breaker!CircuitState
      <3>2. CASE Breaker!Mode' = "OPEN" /\ openTime' = now
        BY <1>1, <2>4, <3>2 DEF Breaker!Promise!Next, Breaker!Promise!Open
      <3>3. CASE Breaker!Mode' = "OPENING" /\ cbState # "OPEN"
        BY <1>1, <2>3, <2>4, <3>3
           DEF Breaker!Promise!Next, Breaker!Promise!Announce, Breaker!CircuitState
      <3> QED BY <3>1, <3>2, <3>3
    <2>6. ASSUME NEW failures, NEW successes, NEW what \in {"clearCounts", "clearAll"},
                 Breaker!SetState(c, "CLOSED", what, failures, successes)
          PROVE  Breaker!Promise!Next
      <3>1. Breaker!Mode' = "CLOSED"
        BY <1>0, <2>2, <2>6, BreakerSetStateMode
           DEF AnnouncedState, Breaker!Tail, Breaker!CircuitState
      <3> QED BY <1>1, <2>4, <3>1 DEF Breaker!Promise!Next, Breaker!Promise!Close
    <2>7. CASE Breaker!RecordSuccess(c)
      <3>1. CASE Breaker!SetState(c, "CLOSED", "clearCounts", failureCount, successCount + 1)
        BY <2>6, <3>1
      <3>2. CASE /\ cbState = "OPEN" /\ Breaker!Elapsed
                 /\ Breaker!SetState(c, "HALF_OPEN", "nothing", failureCount, successCount + 1)
        <4>1. Breaker!Mode' = "HALF_OPEN"
          BY <1>0, <2>2, <3>2, BreakerSetStateMode
             DEF AnnouncedState, Breaker!Tail, Breaker!CircuitState
        <4>2. openTime > 0 BY <1>0, <2>2, <3>2 DEF BreakerTailInv, Breaker!Opening, BreakerAlone
        <4>3. now \in Nat /\ openTime \in Nat /\ openTime <= now
          BY <1>0, CallersAssumption DEF BreakerCountInv, Breaker!TypeOK, Breaker!CallersTypeOK
        <4>4. now - openTime >= BreakerWait BY <3>2, <4>2, <4>3 DEF Breaker!Elapsed, BreakerWait
        <4>5. Breaker!Mode = "OPEN" BY <2>3, <3>2
        <4>6. Breaker!Promise!Waited BY <4>4, <4>5 DEF Breaker!Promise!Waited, BreakerWait
        <4> QED BY <1>1, <2>4, <4>1, <4>5, <4>6 DEF Breaker!Promise!Next, Breaker!Promise!Probe
      <3>3. CASE Breaker!Count(failureCount, successCount + 1)
        BY <2>4, <3>3 DEF Breaker!Count
      <3> QED BY <2>7, <3>1, <3>2, <3>3 DEF Breaker!RecordSuccess
    <2>8. CASE Breaker!RecordFailure(c)
      <3>1. CASE Breaker!Count(failureCount + 1, successCount)
        BY <2>4, <3>1 DEF Breaker!Count
      <3>2. CASE /\ cbState = "OPEN"
                 /\ Breaker!RunTail("markOpen", failureCount + 1, successCount)
                 /\ UNCHANGED <<cbState, tail>>
        <4>1. openTime' = now BY <3>2 DEF Breaker!RunTail
        <4>2. Breaker!Mode' = "OPEN"
          BY <2>2, <3>2 DEF Breaker!Mode, Breaker!Opening, BreakerAlone
        <4> QED BY <1>1, <2>4, <4>1, <4>2 DEF Breaker!Promise!Next, Breaker!Promise!Open
      <3>3. CASE Breaker!SetState(c, "OPEN", "markOpen", failureCount + 1, successCount)
        BY <2>5, <3>3
      <3> QED BY <2>8, <3>1, <3>2, <3>3 DEF Breaker!RecordFailure
    <2>9. CASE Breaker!Reset(c) BY <2>6, <2>9 DEF Breaker!Reset
    <2>10. CASE Breaker!ForceOpen(c) BY <2>5, <2>10 DEF Breaker!ForceOpen
    <2> QED BY <1>2, <2>7, <2>8, <2>9, <2>10 DEF BreakerMethod
  <1>3. ASSUME NEW c \in Clients, Breaker!CallbackReturns(c)
        PROVE  Breaker!Promise!Next
    <2>1. /\ tail[c] # "none" /\ tail' = [tail EXCEPT ![c] = "none"]
          /\ Breaker!RunTail(tail[c], failureCount, successCount)
          /\ UNCHANGED <<cbState, overlapped, now, cbConfig>>
      BY <1>3 DEF Breaker!CallbackReturns
    <2>2. /\ \A d \in Clients \ {c} : tail[d] = "none"
          /\ cbState = AnnouncedState(tail[c])
      BY <1>0, <2>1 DEF BreakerTailInv
    <2>3. \A d \in Clients : tail'[d] = "none" BY <1>0, <2>1, <2>2 DEF Breaker!TypeOK
    <2>4. Breaker!Mode' = cbState BY <2>1, <2>3 DEF Breaker!Mode, Breaker!Opening
    <2>5. CASE tail[c] = "markOpen"
      <3>1. Breaker!Mode' = "OPEN" /\ openTime' = now
        BY <2>1, <2>2, <2>4, <2>5 DEF AnnouncedState, Breaker!RunTail
      <3> QED BY <1>1, <2>1, <3>1 DEF Breaker!Promise!Next, Breaker!Promise!Open
    <2>6. CASE tail[c] # "markOpen"
      <3>1. Breaker!Mode = cbState /\ cbState # "OPEN"
        BY <2>2, <2>6 DEF Breaker!Mode, Breaker!Opening, AnnouncedState
      <3>2. now \in Nat BY <1>0 DEF Breaker!TypeOK, Breaker!CallersTypeOK
      <3> QED BY <1>1, <2>1, <2>4, <3>1, <3>2
             DEF Breaker!Promise!Next, Breaker!Promise!Environment
    <2> QED BY <2>5, <2>6
  <1>4. ASSUME UNCHANGED <<cbState, tail, openTime>>, now' >= now
        PROVE  Breaker!Promise!Next
    <2>1. Breaker!Mode' = Breaker!Mode BY <1>4 DEF Breaker!Mode, Breaker!Opening
    <2> QED BY <1>1, <1>4, <2>1 DEF Breaker!Promise!Next, Breaker!Promise!Environment
  <1>5. ASSUME NEW config, Breaker!SetConfig(config)
        PROVE  Breaker!Promise!Next
    BY <1>0, <1>4, <1>5
       DEF Breaker!SetConfig, Breaker!Called, Breaker!TypeOK, Breaker!CallersTypeOK
  <1>6. CASE Breaker!Tick
    BY <1>0, <1>4, <1>6 DEF Breaker!Tick, Breaker!Elapse, Breaker!TypeOK, Breaker!CallersTypeOK
  <1> QED BY <1>2, <1>3, <1>5, <1>6
             DEF Breaker!Next, BreakerMethod, Breaker!SetStateChangeCallback, Breaker!Called,
                 Breaker!vars, Breaker!own

\* The breaker implements BreakerPromise as long as nothing changes it during another
\* method's callback: once it is open, requests are turned away until the reset time has
\* passed since it opened or last failed, and only then is it half open.
THEOREM BreakerKeepsPromise == Breaker!Spec => Breaker!BreakerImplemented
  BY BreakerInitPromise, BreakerStepPromise, BreakerInvHolds, PTL
     DEF Breaker!Spec, Breaker!BreakerImplemented

-----------------------------------------------------------------------------
(* The timeout handler: types.                                             *)

LEMMA TimeoutTypeInit == Timeout!Init => Timeout!TypeOK
  <1> SUFFICES ASSUME Timeout!Init PROVE Timeout!TypeOK
    OBVIOUS
  <1>1. Timeout!CallersTypeOK
    BY CallersAssumption DEF Timeout!Init, Timeout!CallersInit, Timeout!CallersTypeOK
  <1>2. timeoutMs = 0 /\ policy \in Timeout!TimeoutPolicy
    BY DEF Timeout!Init, Timeout!TimeoutPolicy
  <1>3. timerThread \in Timeout!Monitor /\ stopping = {} BY DEF Timeout!Init, Timeout!Monitor
  <1>4. 0 \in 0 .. MaxTime BY CallersAssumption
  <1> QED BY <1>1, <1>2, <1>3, <1>4 DEF Timeout!Init, Timeout!TypeOK

LEMMA TimeoutTypeStep == Timeout!TypeOK /\ [Timeout!Next]_(Timeout!vars) => Timeout!TypeOK'
  <1> SUFFICES ASSUME Timeout!TypeOK, [Timeout!Next]_(Timeout!vars) PROVE Timeout!TypeOK'
    OBVIOUS
  <1> USE DEF Timeout!timer, Timeout!config, Timeout!past
  <1>0. now \in 0 .. MaxTime /\ {"check", "ended", "none"} \subseteq Timeout!Monitor
    BY DEF Timeout!TypeOK, Timeout!CallersTypeOK, Timeout!Monitor
  <1>1. ASSUME Timeout!Called PROVE Timeout!CallersTypeOK'
    BY <1>1, CallersAssumption DEF Timeout!Called, Timeout!TypeOK, Timeout!CallersTypeOK
  <1>2. ASSUME NEW c \in Clients, Timeout!StartTimer(c) PROVE Timeout!TypeOK'
    <2>1. life' \in {"alive", "destroyed", "terminated"} BY <1>2 DEF Timeout!StartTimer
    <2>2. restarted' \in BOOLEAN BY <1>2 DEF Timeout!StartTimer, Timeout!TypeOK
    <2> QED BY <1>0, <1>1, <1>2, <2>1, <2>2
               DEF Timeout!StartTimer, Timeout!Enters, Timeout!TypeOK
  <1>3. ASSUME NEW c \in Clients, Timeout!StopTimer(c) PROVE Timeout!TypeOK'
    BY <1>1, <1>3 DEF Timeout!StopTimer, Timeout!Enters, Timeout!TypeOK
  <1>4. ASSUME NEW c \in Clients, Timeout!StopTimerJoins(c) PROVE Timeout!TypeOK'
    BY <1>0, <1>4 DEF Timeout!StopTimerJoins, Timeout!TypeOK, Timeout!CallersTypeOK
  <1>5. ASSUME NEW c \in Clients, Timeout!ResetTimer(c) PROVE Timeout!TypeOK'
    BY <1>0, <1>1, <1>5 DEF Timeout!ResetTimer, Timeout!Enters, Timeout!TypeOK
  <1>6. ASSUME NEW c \in Clients, Timeout!Destroy(c) PROVE Timeout!TypeOK'
    <2>1. life' \in {"alive", "destroyed", "terminated"} /\ stopping' \subseteq Clients
      BY <1>6 DEF Timeout!Destroy
    <2> QED BY <1>1, <1>6, <2>1 DEF Timeout!Destroy, Timeout!Enters, Timeout!TypeOK
  <1>7. ASSUME NEW limit \in Limits \cup {0}, Timeout!SetTimeout(limit)
        PROVE  Timeout!TypeOK'
    BY <1>1, <1>7 DEF Timeout!SetTimeout, Timeout!TypeOK
  <1>8. ASSUME NEW limit \in Limits \cup {0}, NEW reaction \in Timeout!TimeoutPolicy,
               NEW restart \in BOOLEAN, NEW retries \in Limits,
               Timeout!SetConfig(limit, reaction, restart, retries)
        PROVE  Timeout!TypeOK'
    BY <1>1, <1>8 DEF Timeout!SetConfig, Timeout!TypeOK
  <1>9. CASE Timeout!ResetRetryCount BY <1>1, <1>9 DEF Timeout!ResetRetryCount, Timeout!TypeOK
  <1>10. ASSUME NEW from \in Timeout!Monitor, NEW to \in Timeout!Monitor,
                Timeout!MonitorGoes(from, to)
         PROVE  /\ Timeout!CallersTypeOK' /\ timerThread' \in Timeout!Monitor
                /\ UNCHANGED <<startTime, Timeout!config, stopping, life, restarted>>
    BY <1>10 DEF Timeout!MonitorGoes, Timeout!TypeOK, Timeout!CallersTypeOK
  <1>11. {"check", "wait", "callback", "handle", "ended"} \subseteq Timeout!Monitor
    BY DEF Timeout!Monitor
  <1>12. CASE Timeout!MonitorStops
    BY <1>10, <1>11, <1>12 DEF Timeout!MonitorStops, Timeout!TypeOK
  <1>13. CASE Timeout!MonitorExpires
    BY <1>10, <1>11, <1>13 DEF Timeout!MonitorExpires, Timeout!TypeOK
  <1>14. CASE Timeout!MonitorWaits
    BY <1>10, <1>11, <1>14 DEF Timeout!MonitorWaits, Timeout!TypeOK
  <1>15. CASE Timeout!MonitorWakes
    BY <1>10, <1>11, <1>15 DEF Timeout!MonitorWakes, Timeout!TypeOK
  <1>16. CASE Timeout!MonitorCalledBack
    BY <1>10, <1>11, <1>16 DEF Timeout!MonitorCalledBack, Timeout!TypeOK
  <1>17. ASSUME NEW gone \in BOOLEAN, Timeout!HandleTimeout(gone) PROVE Timeout!TypeOK'
    <2>1. /\ retryCount' \in {retryCount, retryCount + 1}
          /\ interrupts' \in {interrupts, interrupts + 1}
      BY <1>17 DEF Timeout!HandleTimeout
    <2>2. retryCount' \in Nat /\ interrupts' \in Nat BY <2>1 DEF Timeout!TypeOK
    <2> QED BY <1>10, <1>11, <1>17, <2>2 DEF Timeout!HandleTimeout, Timeout!TypeOK
  <1>18. CASE Timeout!Tick
    BY <1>18, CallersAssumption
       DEF Timeout!Tick, Timeout!Elapse, Timeout!TypeOK, Timeout!CallersTypeOK
  <1>19. CASE UNCHANGED Timeout!vars
    BY <1>19 DEF Timeout!vars, Timeout!own, Timeout!TypeOK, Timeout!CallersTypeOK
  <1> QED BY <1>2, <1>3, <1>4, <1>5, <1>6, <1>7, <1>8, <1>9, <1>12, <1>13, <1>14, <1>15, <1>16,
             <1>17, <1>18, <1>19 DEF Timeout!Next

-----------------------------------------------------------------------------
(* Stops and terminations.  As long as the process lives, the flag is up   *)
(* only while the monitor looks at it; one thread at most is inside        *)
(* stopTimer(), and the monitor it waits for has yet to see the flag or    *)
(* has ended; and a monitor that nobody joins has expired.                 *)

RunningIsWatched == timerRunning => timerThread \in {"check", "wait"}

StopsAreAlone ==
  /\ \A c, d \in stopping : c = d
  /\ stopping # {} => ~timerRunning /\ timerThread \in {"check", "wait", "ended"}

UnjoinedHasExpired ==
  ~timerRunning /\ timerThread # "none" => expired \/ stopping # {}

TimeoutParts ==
  /\ life # "terminated" =>
       RunningIsWatched /\ StopsAreAlone /\ UnjoinedHasExpired
  /\ Timeout!TerminationNeedsExpiry

LEMMA TimeoutPartsStep == TimeoutParts /\ [Timeout!Next]_(Timeout!vars) => TimeoutParts'
  <1> SUFFICES ASSUME TimeoutParts, [Timeout!Next]_(Timeout!vars) PROVE TimeoutParts'
    OBVIOUS
  <1> USE DEF TimeoutParts, RunningIsWatched, StopsAreAlone,
              UnjoinedHasExpired, Timeout!TerminationNeedsExpiry,
              Timeout!timer, Timeout!past
  <1>1. ASSUME NEW c \in Clients, Timeout!StartTimer(c) PROVE TimeoutParts'
    BY <1>1 DEF Timeout!StartTimer, Timeout!Enters
  <1>2. ASSUME NEW c \in Clients, Timeout!StopTimer(c) PROVE TimeoutParts'
    BY <1>2 DEF Timeout!StopTimer, Timeout!Enters
  <1>3. ASSUME NEW c \in Clients, Timeout!StopTimerJoins(c) PROVE TimeoutParts'
    BY <1>3 DEF Timeout!StopTimerJoins
  <1>4. ASSUME NEW c \in Clients, Timeout!ResetTimer(c) PROVE TimeoutParts'
    BY <1>4 DEF Timeout!ResetTimer
  <1>5. ASSUME NEW c \in Clients, Timeout!Destroy(c) PROVE TimeoutParts'
    BY <1>5 DEF Timeout!Destroy, Timeout!Enters
  <1>6. CASE UNCHANGED <<Timeout!timer, stopping, life, Timeout!past>>
    BY <1>6
  <1>7. CASE Timeout!MonitorStops
    BY <1>7 DEF Timeout!MonitorStops, Timeout!MonitorGoes, Timeout!MonitorAt
  <1>8. CASE Timeout!MonitorExpires
    BY <1>8 DEF Timeout!MonitorExpires, Timeout!MonitorGoes, Timeout!MonitorAt
  <1>9. CASE Timeout!MonitorWaits
    BY <1>9 DEF Timeout!MonitorWaits, Timeout!MonitorGoes, Timeout!MonitorAt
  <1>10. CASE Timeout!MonitorWakes
    BY <1>10 DEF Timeout!MonitorWakes, Timeout!MonitorGoes, Timeout!MonitorAt
  <1>11. CASE Timeout!MonitorCalledBack
    BY <1>11 DEF Timeout!MonitorCalledBack, Timeout!MonitorGoes, Timeout!MonitorAt
  <1>12. ASSUME NEW gone \in BOOLEAN, Timeout!HandleTimeout(gone) PROVE TimeoutParts'
    BY <1>12 DEF Timeout!HandleTimeout, Timeout!MonitorGoes, Timeout!MonitorAt
  <1> QED BY <1>1, <1>2, <1>3, <1>4, <1>5, <1>6, <1>7, <1>8, <1>9, <1>10, <1>11, <1>12
          DEF Timeout!Next, Timeout!SetTimeout, Timeout!SetConfig, Timeout!ResetRetryCount,
              Timeout!Tick, Timeout!vars, Timeout!own

LEMMA TimeoutPartsInit == Timeout!Init => TimeoutParts
  BY DEF Timeout!Init, TimeoutParts, RunningIsWatched, StopsAreAlone, UnjoinedHasExpired,
         Timeout!TerminationNeedsExpiry

TimeoutInv == Timeout!TypeOK /\ TimeoutParts

LEMMA TimeoutInit == Timeout!Init => TimeoutInv
  BY TimeoutTypeInit, TimeoutPartsInit DEF TimeoutInv

LEMMA TimeoutStep == TimeoutInv /\ [Timeout!Next]_(Timeout!vars) => TimeoutInv'
  BY TimeoutTypeStep, TimeoutPartsStep DEF TimeoutInv

LEMMA TimeoutStops == TimeoutInv => Timeout!StopIsInTime /\ Timeout!TerminationNeedsExpiry
  BY DEF TimeoutInv, TimeoutParts, StopsAreAlone, Timeout!StopIsInTime

\* While a thread waits in stopTimer(), no timeout is called back or handled.
THEOREM StopsAreInTime == Timeout!Spec => []Timeout!StopIsInTime
  BY TimeoutInit, TimeoutStep, TimeoutStops, PTL DEF Timeout!Spec

\* The process ends only by a start, or a destruction, after an expiry that nobody
\* joined, or by a start during a stop.
THEOREM TerminationIsExplained == Timeout!Spec => []Timeout!TerminationNeedsExpiry
  BY TimeoutInit, TimeoutStep, TimeoutStops, PTL DEF Timeout!Spec

-----------------------------------------------------------------------------
(* The conditional workflow: which branch is selected.                     *)

\* Of the branches that hold among the first i, the best so far.
BestUpTo(best, holding, i) ==
  \/ /\ best = [branch |-> 0, priority |-> -1]
     /\ \A j \in holding : j <= i => branches[j].priority < 0
  \/ /\ best.branch \in holding /\ best.branch <= i
     /\ best.priority = branches[best.branch].priority /\ best.priority >= 0
     /\ \A j \in holding :
          j <= i => \/ branches[j].priority < best.priority
                    \/ branches[j].priority = best.priority /\ best.branch <= j

LEMMA BestStays ==
  ASSUME branches \in Seq(Branches!Branch), NEW holding \in SUBSET (1 .. Len(branches)),
         NEW i \in 1 .. Len(branches), NEW x, BestUpTo(x, holding, i - 1),
         NEW y, y = IF i \in holding /\ branches[i].priority > x.priority
                    THEN [branch |-> i, priority |-> branches[i].priority] ELSE x
  PROVE  BestUpTo(y, holding, i)
  <1>1. Len(branches) \in Nat BY LenProperties
  <1>2. \A j \in 1 .. Len(branches) : branches[j].priority \in {-1, 0, 1}
    <2>1. \A j \in 1 .. Len(branches) : branches[j] \in Branches!Branch BY ElementOfSeq
    <2> QED BY <2>1 DEF Branches!Branch
  <1>3. i \in Nat /\ \A j \in holding : j \in Nat /\ (j <= i => j = i \/ j <= i - 1)
    <2>1. i \in Nat /\ \A j \in holding : j \in 1 .. Len(branches) BY <1>1
    <2>2. \A j \in Nat : j <= i => j = i \/ j <= i - 1 BY <2>1
    <2>3. \A j \in 1 .. Len(branches) : j \in Nat BY <1>1
    <2> QED BY <2>1, <2>2, <2>3
  <1>4. CASE i \in holding /\ branches[i].priority > x.priority
    <2>1. y.branch = i /\ y.priority = branches[i].priority BY <1>4
    <2>2. x.priority \in {-1, 0, 1} /\ x.priority >= -1
      BY <1>2 DEF BestUpTo
    <2>3. y.priority >= 0 BY <1>2, <1>4, <2>1, <2>2
    <2>4. \A j \in holding : j <= i - 1 => branches[j].priority < y.priority
      <3>1. ASSUME NEW j \in holding, j <= i - 1 PROVE branches[j].priority <= x.priority
        <4>1. branches[j].priority \in {-1, 0, 1} BY <1>2
        <4> QED BY <2>2, <3>1, <4>1 DEF BestUpTo
      <3>2. \A j \in holding : branches[j].priority \in {-1, 0, 1} BY <1>2
      <3>3. branches[i].priority \in {-1, 0, 1} BY <1>2
      <3> QED BY <1>4, <2>1, <2>2, <3>1, <3>2, <3>3
    <2>5. \A j \in holding : j <= i => \/ branches[j].priority < y.priority
                                       \/ branches[j].priority = y.priority /\ y.branch <= j
      BY <1>3, <2>1, <2>4
    <2> QED BY <1>3, <1>4, <2>1, <2>3, <2>5 DEF BestUpTo
  <1>5. CASE ~(i \in holding /\ branches[i].priority > x.priority)
    <2>1. y = x BY <1>5
    <2>2. CASE /\ x = [branch |-> 0, priority |-> -1]
               /\ \A j \in holding : j <= i - 1 => branches[j].priority < 0
      <3>1. x.priority = -1 BY <2>2
      <3>2. i \in holding => branches[i].priority < 0 BY <1>2, <1>5, <3>1
      <3> QED BY <1>3, <2>1, <2>2, <3>2 DEF BestUpTo
    <2>3. CASE /\ x.branch \in holding /\ x.branch <= i - 1
               /\ x.priority = branches[x.branch].priority /\ x.priority >= 0
               /\ \A j \in holding :
                    j <= i - 1 => \/ branches[j].priority < x.priority
                                  \/ branches[j].priority = x.priority /\ x.branch <= j
      <3>1. x.priority \in {-1, 0, 1} /\ x.branch \in Nat BY <1>2, <1>3, <2>3
      <3>2. x.branch <= i BY <1>3, <2>3, <3>1
      <3>3. i \in holding => \/ branches[i].priority < x.priority
                             \/ branches[i].priority = x.priority
        BY <1>2, <1>5, <3>1
      <3> QED BY <1>3, <2>1, <2>3, <3>2, <3>3 DEF BestUpTo
    <2> QED BY <2>2, <2>3 DEF BestUpTo
  <1> QED BY <1>4, <1>5

LEMMA ScanFindsBest ==
  ASSUME branches \in Seq(Branches!Branch), NEW holding \in SUBSET (1 .. Len(branches))
  PROVE  \E best : /\ BestUpTo(best, holding, Len(branches))
                   /\ Branches!Scan(holding) = best.branch
  <1> DEFINE n == Len(branches)
             S == [branch : 0 .. n, priority : {-1, 0, 1}]
             body(f) == [i \in 0 .. n |->
                           IF i = 0 THEN [branch |-> 0, priority |-> -1]
                           ELSE IF i \in holding /\ branches[i].priority > f[i - 1].priority
                           THEN [branch |-> i, priority |-> branches[i].priority]
                           ELSE f[i - 1]]
             next == [p \in (1 .. n) \X S |->
                        IF p[1] \in holding /\ branches[p[1]].priority > p[2].priority
                        THEN [branch |-> p[1], priority |-> branches[p[1]].priority]
                        ELSE p[2]]
             best == CHOOSE f : f = body(f)
  <1>1. n \in Nat BY LenProperties
  <1>2. \A j \in 1 .. n : branches[j].priority \in {-1, 0, 1}
    <2>1. \A j \in 1 .. n : branches[j] \in Branches!Branch BY ElementOfSeq
    <2> QED BY <2>1 DEF Branches!Branch
  <1>3. Branches!Scan(holding) = best[n].branch
    BY DEF Branches!Scan, n
  <1> HIDE DEF n
  <1>4. next \in [(1 .. n) \X S -> S]
    <2>1. \A i \in 1 .. n, x \in S :
            (IF i \in holding /\ branches[i].priority > x.priority
             THEN [branch |-> i, priority |-> branches[i].priority] ELSE x) \in S
      BY <1>1, <1>2
    <2> HIDE DEF S
    <2> QED BY <2>1
  <1>5. \A i \in 1 .. n, x \in S :
          next[<<i, x>>] = IF i \in holding /\ branches[i].priority > x.priority
                           THEN [branch |-> i, priority |-> branches[i].priority] ELSE x
    <2> HIDE DEF S
    <2> QED OBVIOUS
  <1> HIDE DEF next
  <1>6. PICK f \in [0 .. n -> S] : /\ f[0] = [branch |-> 0, priority |-> -1]
                                   /\ \A i \in 1 .. n : f[i] = next[<<i, f[i - 1]>>]
    <2>1. [branch |-> 0, priority |-> -1] \in S BY <1>1
    <2> HIDE DEF S
    <2>2. Walks(S, n, [branch |-> 0, priority |-> -1], next) # {}
      BY <1>1, <1>4, <2>1, StepByStep
    <2> QED BY <2>2 DEF Walks
  <1>7. f = body(f)
    <2> HIDE DEF S
    <2>1. \A i \in 0 .. n : i # 0 => i \in 1 .. n /\ i - 1 \in 0 .. n BY <1>1
    <2>2. \A i \in 0 .. n : f[i] = body(f)[i]
      <3> TAKE i \in 0 .. n
      <3>1. CASE i = 0 BY <1>6, <3>1
      <3>2. CASE i # 0
        <4>1. i \in 1 .. n /\ f[i - 1] \in S BY <1>6, <2>1, <3>2
        <4>2. f[i] = next[<<i, f[i - 1]>>] BY <1>6, <4>1
        <4> QED BY <1>5, <3>2, <4>1, <4>2
      <3> QED BY <3>1, <3>2
    <2> QED BY <1>6, <2>2
  <1>8. best = body(best) BY <1>7
  <1> HIDE DEF best, S
  <1>9. /\ best[0] = [branch |-> 0, priority |-> -1]
        /\ \A i \in 1 .. n :
             best[i] = IF i \in holding /\ branches[i].priority > best[i - 1].priority
                       THEN [branch |-> i, priority |-> branches[i].priority]
                       ELSE best[i - 1]
    <2>1. 0 \in 0 .. n /\ \A i \in 1 .. n : i \in 0 .. n /\ i # 0 BY <1>1
    <2> QED BY <1>8, <2>1
  <1> HIDE DEF body
  <1> DEFINE good == {i \in 0 .. n : BestUpTo(best[i], holding, i)}
  <1>10. 0 \in good
    <2>1. \A j \in holding : ~(j <= 0) BY <1>1 DEF n
    <2> QED BY <1>1, <1>9, <2>1 DEF BestUpTo
  <1>11. ASSUME NEW i \in 1 .. n, i - 1 \in good PROVE i \in good
    <2>1. BestUpTo(best[i - 1], holding, i - 1) BY <1>11
    <2>2. i \in 0 .. n BY <1>1
    <2> HIDE DEF good
    <2>3. BestUpTo(best[i], holding, i) BY <1>9, <2>1, BestStays DEF n
    <2> QED BY <2>2, <2>3 DEF good
  <1>12. n \in good
    <2>1. n \in 0 .. n BY <1>1
    <2> HIDE DEF good
    <2> QED BY <1>1, <1>10, <1>11, <2>1, Upwards
  <1> QED BY <1>3, <1>12 DEF n

LEMMA BranchesSelectBest == branches \in Seq(Branches!Branch) => Branches!SelectsBest
  <1> SUFFICES ASSUME branches \in Seq(Branches!Branch), NEW holding \in SUBSET DOMAIN branches
               PROVE  LET may == {i \in holding : branches[i].priority >= 0}
                      IN  IF may = {} THEN Branches!Scan(holding) = 0
                          ELSE /\ Branches!Scan(holding) \in may
                               /\ \A i \in may :
                                    \/ branches[i].priority
                                         < branches[Branches!Scan(holding)].priority
                                    \/ branches[i].priority
                                         = branches[Branches!Scan(holding)].priority
                                       /\ Branches!Scan(holding) <= i
    BY DEF Branches!SelectsBest
  <1>1. Len(branches) \in Nat /\ holding \in SUBSET (1 .. Len(branches)) BY LenProperties
  <1>2. PICK best : /\ BestUpTo(best, holding, Len(branches))
                    /\ Branches!Scan(holding) = best.branch
    BY <1>1, ScanFindsBest
  <1>3. \A j \in holding : j <= Len(branches) BY <1>1
  <1>4. \A j \in holding : branches[j].priority \in {-1, 0, 1}
    <2>1. \A j \in holding : branches[j] \in Branches!Branch BY <1>1, ElementOfSeq
    <2> QED BY <2>1 DEF Branches!Branch
  <1> QED BY <1>2, <1>3, <1>4 DEF BestUpTo
-----------------------------------------------------------------------------
(* The conditional workflow: its run.                                      *)

LEMMA PositionsAre ==
  /\ Branches!Positions = {1, 2} /\ Branches!Default = 3 /\ Branches!Former = 4
  /\ Branches!Dead = 5 /\ Branches!Idle = 6 /\ Branches!BranchName = {1, 2, 3, 4}
  BY DEF Branches!Positions, Branches!Default, Branches!Former, Branches!Dead, Branches!Idle,
         Branches!BranchName, Branches!MaxBranches

LEMMA SelectionIsBranch ==
  ASSUME Branches!TypeOK, NEW holding \in SUBSET DOMAIN branches
  PROVE  Branches!Selection(holding) \in Branches!BranchName \cup {0}
  <1>1. branches \in Seq(Branches!Branch) /\ Len(branches) <= 2
    BY DEF Branches!TypeOK, Branches!MaxBranches
  <1>2. Len(branches) \in Nat /\ holding \in SUBSET (1 .. Len(branches)) BY <1>1, LenProperties
  <1>3. PICK best : /\ BestUpTo(best, holding, Len(branches))
                    /\ Branches!Scan(holding) = best.branch
    BY <1>1, <1>2, ScanFindsBest
  <1>4. Branches!Scan(holding) \in 0 .. 2 BY <1>1, <1>2, <1>3 DEF BestUpTo
  <1> QED BY <1>4, PositionsAre DEF Branches!Selection

LEMMA WorkflowsAreBranches ==
  ASSUME Branches!TypeOK, NEW b \in Branches!BranchName \cup {0, Branches!Dead},
         Branches!HasWorkflow(b)
  PROVE  b \in Branches!BranchName /\ b # Branches!Former
  <1>1. branches \in Seq(Branches!Branch) /\ Len(branches) <= 2
    BY DEF Branches!TypeOK, Branches!MaxBranches
  <1>2. Len(branches) \in Nat /\ DOMAIN branches = 1 .. Len(branches) BY <1>1, LenProperties
  <1> QED BY <1>1, <1>2, PositionsAre DEF Branches!HasWorkflow

\* The states of a branch.
OneBranchState == {"IDLE", "READY", "EXECUTING", "RESTARTED", "ENDED"}

\* Branches that get other workflows keep every variable in its type.
LEMMA DisownType ==
  ASSUME Branches!TypeOK, NEW gone \in SUBSET Branches!BranchName, Branches!Disown(gone)
  PROVE  /\ branchState' \in [Branches!BranchName -> OneBranchState]
         /\ told' \subseteq Branches!BranchName
         /\ ran' \in Branches!BranchName \cup {0} /\ stops' \in Branches!BranchName \cup {0}
         /\ waits' \in [Clients -> Branches!BranchName \cup {0, Branches!Idle}]
  <1> DEFINE running == {b \in gone : Branches!Runs(b)}
             Name(b) == IF b \in running THEN Branches!Former ELSE b
  <1>1. /\ branchState' = [b \in Branches!BranchName |->
                             IF b \in gone THEN "IDLE"
                             ELSE IF b = Branches!Former /\ running # {} THEN "EXECUTING"
                             ELSE branchState[b]]
        /\ told' = {Name(b) : b \in told \ (gone \ running)}
        /\ ran' = Name(ran) /\ stops' = Name(stops)
        /\ waits' = [c \in Clients |-> Name(waits[c])]
    BY DEF Branches!Disown
  <1>2. Branches!Former \in Branches!BranchName BY PositionsAre
  <1>3. \A S : \A b \in S \cup Branches!BranchName : Name(b) \in S \cup Branches!BranchName
    BY <1>2
  <1>4. /\ branchState \in [Branches!BranchName -> OneBranchState]
        /\ told \subseteq Branches!BranchName
        /\ ran \in Branches!BranchName \cup {0} /\ stops \in Branches!BranchName \cup {0}
        /\ waits \in [Clients -> Branches!BranchName \cup {0, Branches!Idle}]
    BY DEF Branches!TypeOK, OneBranchState
  <1> HIDE DEF running, Name
  <1>5. branchState' \in [Branches!BranchName -> OneBranchState]
    BY <1>1, <1>4 DEF OneBranchState
  <1>6. told' \subseteq Branches!BranchName
    <2>1. \A b \in Branches!BranchName : Name(b) \in Branches!BranchName BY <1>3
    <2> QED BY <1>1, <1>4, <2>1
  <1>7. ran' \in Branches!BranchName \cup {0} /\ stops' \in Branches!BranchName \cup {0}
    BY <1>1, <1>3, <1>4
  <1>8. waits' \in [Clients -> Branches!BranchName \cup {0, Branches!Idle}]
    BY <1>1, <1>3, <1>4
  <1> QED BY <1>5, <1>6, <1>7, <1>8

\* Pointers that dangle.
LEMMA MovedType ==
  \A S : \A pointer \in Branches!BranchName \cup {Branches!Dead} \cup S :
    Branches!Moved(pointer) \in Branches!BranchName \cup {Branches!Dead} \cup S
  BY DEF Branches!Moved

LEMMA BranchesTypeInit == Branches!Init => Branches!TypeOK
  <1> SUFFICES ASSUME Branches!Init PROVE Branches!TypeOK
    OBVIOUS
  <1>1. Branches!CallersTypeOK
    BY CallersAssumption, ServicesAssumption
       DEF Branches!Init, Branches!CallersInit, Branches!CallersTypeOK
  <1>2. branches \in Seq(Branches!Branch) /\ Len(branches) <= Branches!MaxBranches
    <2>1. branches = <<>> BY DEF Branches!Init
    <2> QED BY <2>1, EmptySeq DEF Branches!MaxBranches
  <1> QED BY <1>1, <1>2 DEF Branches!Init, Branches!TypeOK

LEMMA BranchesTypeStep == Branches!TypeOK /\ [Branches!Next]_(Branches!vars) => Branches!TypeOK'
  <1> SUFFICES ASSUME Branches!TypeOK, [Branches!Next]_(Branches!vars) PROVE Branches!TypeOK'
    OBVIOUS
  <1> USE DEF Branches!object, Branches!run, Branches!outer, Branches!shape
  <1>1. ASSUME Branches!Called PROVE Branches!CallersTypeOK'
    BY <1>1, CallersAssumption, ServicesAssumption
       DEF Branches!Called, Branches!TypeOK, Branches!CallersTypeOK
  <1>2. ASSUME UNCHANGED <<calls, now>> PROVE Branches!CallersTypeOK'
    BY <1>2 DEF Branches!TypeOK, Branches!CallersTypeOK
  <1>3. Branches!Target \in Branches!BranchName \cup {0}
    BY WorkflowsAreBranches DEF Branches!Target, Branches!TypeOK
  <1>4. ASSUME NEW b \in Branches!BranchName \cup {0}, Branches!Tell(b)
        PROVE  /\ told' \subseteq Branches!BranchName
               /\ cwLife' \in {"alive", "destroyed", "terminated", "undefined"}
    BY <1>4 DEF Branches!Tell, Branches!TypeOK
  <1>5. ASSUME NEW c \in Clients, NEW branch \in Branches!Branch, Branches!AddBranch(c, branch)
        PROVE  Branches!TypeOK'
    <2>1. branches \in Seq(Branches!Branch) /\ Len(branches) < Branches!MaxBranches
      BY <1>5 DEF Branches!TypeOK, Branches!AddBranch
    <2>2. branches' \in Seq(Branches!Branch) /\ Len(branches') = Len(branches) + 1
      BY <1>5, <2>1, AppendProperties DEF Branches!AddBranch
    <2>3. Len(branches') <= Branches!MaxBranches
      BY <2>1, <2>2, LenProperties DEF Branches!MaxBranches
    <2>4. /\ selected' \in Branches!BranchName \cup {0, Branches!Dead}
          /\ chosen' \in [Clients -> Branches!BranchName \cup {Branches!Dead, Branches!Idle}]
      <3>1. CASE UNCHANGED <<selected, chosen>> BY <3>1 DEF Branches!TypeOK
      <3>2. CASE Branches!MovePointers
        <4>1. Branches!Moved(selected) \in Branches!BranchName \cup {0, Branches!Dead}
          BY MovedType DEF Branches!TypeOK
        <4>2. \A d \in Clients : Branches!Moved(chosen[d])
                \in Branches!BranchName \cup {Branches!Dead, Branches!Idle}
          BY MovedType DEF Branches!TypeOK
        <4> QED BY <3>2, <4>1, <4>2 DEF Branches!MovePointers
      <3> QED BY <1>5, <3>1, <3>2 DEF Branches!AddBranch
    <2> QED BY <1>1, <1>5, <2>2, <2>3, <2>4
            DEF Branches!AddBranch, Branches!Enters, Branches!TypeOK
  <1>6. ASSUME NEW c \in Clients, NEW workflow \in BOOLEAN, Branches!SetDefaultBranch(c, workflow)
        PROVE  Branches!TypeOK'
    <2>1. Branches!Disown({Branches!Default}) BY <1>6 DEF Branches!SetDefaultBranch
    <2>2. {Branches!Default} \in SUBSET Branches!BranchName BY PositionsAre
    <2>3. Branches!CallersTypeOK' BY <1>1, <1>6 DEF Branches!SetDefaultBranch, Branches!Enters
    <2>4. /\ defaultSet' \in BOOLEAN /\ reshaped' \in BOOLEAN
          /\ UNCHANGED <<cwState, branches, selected, chosen, contextSet, stopFlag, executor,
                         delivered, cwLife>>
      BY <1>6 DEF Branches!SetDefaultBranch, Branches!TypeOK
    <2> QED BY <2>1, <2>2, <2>3, <2>4, DisownType DEF Branches!TypeOK, OneBranchState
  <1>7. ASSUME NEW c \in Clients, Branches!ClearBranches(c) PROVE Branches!TypeOK'
    <2>1. branches' \in Seq(Branches!Branch) /\ Len(branches') <= Branches!MaxBranches
      BY <1>7, EmptySeq DEF Branches!ClearBranches, Branches!MaxBranches
    <2>2. Branches!Disown(Branches!Positions) BY <1>7 DEF Branches!ClearBranches
    <2>3. Branches!Positions \in SUBSET Branches!BranchName BY PositionsAre
    <2>4. chosen' \in [Clients -> Branches!BranchName \cup {Branches!Dead, Branches!Idle}]
      <3>1. \A d \in Clients : Branches!Moved(chosen[d])
              \in Branches!BranchName \cup {Branches!Dead, Branches!Idle}
        BY MovedType DEF Branches!TypeOK
      <3> QED BY <1>7, <3>1 DEF Branches!ClearBranches
    <2>5. Branches!CallersTypeOK' BY <1>1, <1>7 DEF Branches!ClearBranches, Branches!Enters
    <2>6. /\ selected' \in Branches!BranchName \cup {0, Branches!Dead} /\ reshaped' \in BOOLEAN
          /\ UNCHANGED <<cwState, defaultSet, contextSet, stopFlag, executor, delivered, cwLife>>
      BY <1>7 DEF Branches!ClearBranches, Branches!TypeOK
    <2> QED BY <2>1, <2>2, <2>3, <2>4, <2>5, <2>6, DisownType
            DEF Branches!TypeOK, OneBranchState
  <1>8. ASSUME NEW c \in Clients, NEW holding \in SUBSET DOMAIN branches,
               Branches!Evaluate(c, holding)
        PROVE  Branches!TypeOK'
    <2>1. Branches!Selection(holding) \in Branches!BranchName \cup {0} BY SelectionIsBranch
    <2>2. chosen' \in [Clients -> Branches!BranchName \cup {Branches!Dead, Branches!Idle}]
      <3>1. Branches!HasWorkflow(Branches!Selection(holding))
              => Branches!Selection(holding) \in Branches!BranchName
        BY <2>1, WorkflowsAreBranches
      <3> QED BY <1>8, <3>1 DEF Branches!Evaluate, Branches!TypeOK
    <2> QED BY <1>1, <1>8, <2>1, <2>2 DEF Branches!Evaluate, Branches!Enters, Branches!TypeOK
  <1>22. ASSUME NEW c \in Clients, Branches!StartBranch(c) PROVE Branches!TypeOK'
    <2>1. branchState' \in [Branches!BranchName -> OneBranchState]
      BY <1>22 DEF Branches!StartBranch, Branches!TypeOK, OneBranchState
    <2>2. chosen' \in [Clients -> Branches!BranchName \cup {Branches!Dead, Branches!Idle}]
      BY <1>22 DEF Branches!StartBranch, Branches!TypeOK
    <2>3. /\ cwState' \in {cwState, "RUNNING"} /\ cwLife' \in {cwLife, "undefined"}
          /\ reshaped' \in BOOLEAN
          /\ UNCHANGED <<calls, now, branches, defaultSet, selected, contextSet, stopFlag,
                         executor, ran, stops, delivered, told, waits>>
      BY <1>22 DEF Branches!StartBranch, Branches!TypeOK
    <2> QED BY <1>2, <2>1, <2>2, <2>3 DEF Branches!TypeOK, OneBranchState
  <1>9. ASSUME NEW c \in Clients, NEW context \in BOOLEAN, Branches!Start(c, context)
        PROVE  Branches!TypeOK'
    BY <1>1, <1>9 DEF Branches!Start, Branches!Enters, Branches!TypeOK
  <1>10. ASSUME NEW c \in Clients, Branches!Execute(c) PROVE Branches!TypeOK'
    BY <1>1, <1>10 DEF Branches!Execute, Branches!Enters, Branches!TypeOK
  <1>11. ASSUME NEW c \in Clients, Branches!Interrupt(c) PROVE Branches!TypeOK'
    <2>1. waits' \in [Clients -> Branches!BranchName \cup {0, Branches!Idle}]
      BY <1>3, <1>11 DEF Branches!Interrupt, Branches!TypeOK
    <2> QED BY <1>1, <1>3, <1>4, <1>11, <2>1
            DEF Branches!Interrupt, Branches!Enters, Branches!TypeOK
  <1>12. ASSUME NEW c \in Clients, Branches!InterruptFlags(c) PROVE Branches!TypeOK'
    BY <1>2, <1>12 DEF Branches!InterruptFlags, Branches!TypeOK
  <1>13. ASSUME NEW c \in Clients, Branches!Finish(c) PROVE Branches!TypeOK'
    BY <1>1, <1>3, <1>4, <1>13 DEF Branches!Finish, Branches!Enters, Branches!TypeOK
  <1>23. ASSUME NEW c \in Clients, Branches!Cancel(c) PROVE Branches!TypeOK'
    <2>1. PICK b \in Branches!BranchName \cup {0} : Branches!Tell(b)
      <3>1. (IF Branches!HasWorkflow(selected) /\ Branches!Runs(selected) THEN selected ELSE 0)
              \in Branches!BranchName \cup {0}
        BY WorkflowsAreBranches DEF Branches!TypeOK
      <3> QED BY <1>23, <3>1 DEF Branches!Cancel
    <2>2. branchState' \in [Branches!BranchName -> OneBranchState]
      BY <1>23 DEF Branches!Cancel, Branches!TypeOK, OneBranchState
    <2> QED BY <1>1, <1>4, <1>23, <2>1, <2>2
            DEF Branches!Cancel, Branches!Enters, Branches!TypeOK, OneBranchState
  <1>14. ASSUME NEW c \in Clients, Branches!Destroy(c) PROVE Branches!TypeOK'
    BY <1>1, <1>14 DEF Branches!Destroy, Branches!Enters, Branches!TypeOK
  <1>15. CASE Branches!ExecutorBegins
    <2>1. CASE Branches!HasWorkflow(selected)
      <3>1. selected \in Branches!BranchName
        BY <2>1, WorkflowsAreBranches DEF Branches!TypeOK
      <3>2. branchState' \in [Branches!BranchName -> OneBranchState]
        BY <1>15, <2>1 DEF Branches!ExecutorBegins, Branches!TypeOK, OneBranchState
      <3> QED BY <1>2, <1>15, <2>1, <3>1, <3>2
         DEF Branches!ExecutorBegins, Branches!TypeOK, OneBranchState
    <2>2. CASE ~Branches!HasWorkflow(selected)
      BY <1>2, <1>15, <2>2 DEF Branches!ExecutorBegins, Branches!Deliver, Branches!TypeOK
    <2> QED BY <2>1, <2>2
  <1>16. CASE Branches!ExecutorFinds
    <2>1. /\ executor' \in {executor, "complete"}
          /\ delivered' = delivered \/ delivered' = TRUE
          /\ cwLife' \in {cwLife, "undefined"}
          /\ UNCHANGED <<cwState, branches, defaultSet, selected, chosen, contextSet>>
          /\ UNCHANGED <<stopFlag, ran, stops>>
      BY <1>16 DEF Branches!ExecutorFinds, Branches!Deliver
    <2>2. UNCHANGED <<branchState, told, waits, reshaped>> /\ Branches!CallersTypeOK'
      BY <1>2, <1>16 DEF Branches!ExecutorFinds
    <2>3. delivered' \in BOOLEAN BY <2>1 DEF Branches!TypeOK
    <2> QED BY <2>1, <2>2, <2>3 DEF Branches!TypeOK
  <1>17. CASE Branches!ExecutorStops
    BY <1>2, <1>3, <1>4, <1>17 DEF Branches!ExecutorStops, Branches!TypeOK
  <1>18. CASE Branches!ExecutorInterrupted
    BY <1>2, <1>18 DEF Branches!ExecutorInterrupted, Branches!Deliver, Branches!TypeOK
  <1>19. CASE Branches!ExecutorCompletes
    BY <1>2, <1>19 DEF Branches!ExecutorCompletes, Branches!TypeOK
  <1>20. ASSUME NEW b \in Branches!BranchName, Branches!BranchEnds(b) PROVE Branches!TypeOK'
    BY <1>2, <1>20 DEF Branches!BranchEnds, Branches!TypeOK
  <1>21. CASE UNCHANGED Branches!vars
    BY <1>2, <1>21 DEF Branches!vars, Branches!own, Branches!TypeOK
  <1> QED BY <1>5, <1>6, <1>7, <1>8, <1>9, <1>10, <1>11, <1>12, <1>13, <1>14, <1>15, <1>16,
             <1>17, <1>18, <1>19, <1>20, <1>21, <1>22, <1>23 DEF Branches!Next

\* What the run of an execution thread knows as long as the branches stay as they were
\* when one was selected.
FaithfulRun ==
  /\ selected # Branches!Dead
  /\ executor \in {"none", "begin"} /\ cwLife # "terminated" =>
       ran = 0 /\ \A b \in Branches!BranchName : ~Branches!Runs(b)
  /\ executor \in {"wait", "stopping"} =>
       ran = selected /\ Branches!HasWorkflow(ran) /\ branchState[ran] # "RESTARTED"
  /\ executor = "stopping" => stops = ran
  /\ executor \in {"complete", "ended"} =>
       delivered /\ (ran # 0 => ~Branches!Runs(ran))
  /\ ran # Branches!Former
  /\ cwLife = "undefined" => executor = "none" \/ (executor = "wait" /\ ~contextSet)

BranchesInv == Branches!TypeOK /\ (~reshaped => FaithfulRun)

LEMMA BranchesInit == Branches!Init => BranchesInv
  <1>1. Branches!Init => FaithfulRun BY PositionsAre DEF Branches!Init, FaithfulRun, Branches!Runs
  <1> QED BY <1>1, BranchesTypeInit DEF BranchesInv

\* Methods: they leave the run alone, or it has yet to begin, or the process ends.
LEMMA MethodsKeepRun ==
  ASSUME BranchesInv, ~reshaped', NEW c \in Clients,
         \/ \E branch \in Branches!Branch : Branches!AddBranch(c, branch)
         \/ \E workflow \in BOOLEAN : Branches!SetDefaultBranch(c, workflow)
         \/ Branches!ClearBranches(c)
         \/ \E holding \in SUBSET DOMAIN branches : Branches!Evaluate(c, holding)
         \/ Branches!StartBranch(c)
         \/ \E context \in BOOLEAN : Branches!Start(c, context)
         \/ Branches!Execute(c) \/ Branches!Interrupt(c) \/ Branches!InterruptFlags(c)
         \/ Branches!Finish(c) \/ Branches!Cancel(c) \/ Branches!Destroy(c)
  PROVE  FaithfulRun'
  <1> USE DEF Branches!object, Branches!run, Branches!outer, Branches!Enters
  <1>0. Branches!TypeOK /\ (~reshaped => FaithfulRun) /\ reshaped \in BOOLEAN
    BY DEF BranchesInv, Branches!TypeOK
  <1>1. ASSUME NEW branch \in Branches!Branch, Branches!AddBranch(c, branch)
        PROVE  FaithfulRun'
    <2>1. ~reshaped /\ selected = 0 /\ executor = "none" BY <1>1 DEF Branches!AddBranch
    <2>2. selected' = 0
      BY <1>1, <2>1, PositionsAre DEF Branches!AddBranch, Branches!MovePointers, Branches!Moved
    <2> QED BY <1>0, <1>1, <2>1, <2>2, PositionsAre
            DEF Branches!AddBranch, FaithfulRun, Branches!Runs
  <1>2. ASSUME NEW workflow \in BOOLEAN, Branches!SetDefaultBranch(c, workflow) PROVE FaithfulRun'
    <2>1. /\ FaithfulRun /\ (selected # Branches!Default \/ executor = "none")
          /\ cwLife = "alive" /\ Branches!Disown({Branches!Default})
          /\ UNCHANGED <<branches, selected, contextSet, executor, delivered, cwLife>>
      BY <1>0, <1>2 DEF Branches!SetDefaultBranch
    <2>2. ran \in Branches!BranchName \cup {0} BY <1>0 DEF Branches!TypeOK
    <2>3. ASSUME ~(ran = Branches!Default /\ Branches!Runs(ran))
          PROVE  ran' = ran /\ (ran # 0 /\ ~Branches!Runs(ran) => ~Branches!Runs(ran)')
      <3>1. ran' = ran BY <2>1, <2>3 DEF Branches!Disown
      <3>2. CASE ran \in Branches!BranchName \ {Branches!Default}
        <4>1. branchState'[ran] = branchState[ran]
          BY <2>1, <3>2 DEF Branches!Disown, FaithfulRun
        <4> QED BY <3>1, <4>1 DEF Branches!Runs
      <3>3. CASE ran = Branches!Default
        <4>1. branchState'[ran] = "IDLE" BY <2>1, <3>3, PositionsAre DEF Branches!Disown
        <4> QED BY <3>1, <4>1 DEF Branches!Runs
      <3> QED BY <2>2, <3>1, <3>2, <3>3
    <2>4. CASE executor \in {"none", "begin"}
      <3>1. ran = 0 /\ \A b \in Branches!BranchName : ~Branches!Runs(b)
        BY <2>1, <2>4 DEF FaithfulRun
      <3>2. \A b \in Branches!BranchName : ~Branches!Runs(b)'
        BY <2>1, <3>1, PositionsAre DEF Branches!Disown, Branches!Runs
      <3> QED BY <2>1, <2>3, <2>4, <3>1, <3>2, PositionsAre DEF FaithfulRun
    <2>5. CASE executor \in {"wait", "stopping"}
      <3>1. /\ ran = selected /\ Branches!HasWorkflow(ran) /\ selected # Branches!Default
            /\ (executor = "stopping" => stops = ran) /\ branchState[ran] # "RESTARTED"
        BY <2>1, <2>5 DEF FaithfulRun
      <3>2. stops = ran => stops' = ran BY <2>1, <3>1 DEF Branches!Disown
      <3>3. Branches!HasWorkflow(ran)' BY <2>1, <2>3, <3>1 DEF Branches!HasWorkflow
      <3>4. ran \in Branches!BranchName /\ ran # Branches!Former
        BY <1>0, <2>2, <3>1, WorkflowsAreBranches
      <3>5. branchState'[ran] = branchState[ran] BY <2>1, <3>1, <3>4 DEF Branches!Disown
      <3> QED BY <2>1, <2>3, <2>5, <3>1, <3>2, <3>3, <3>5 DEF FaithfulRun
    <2>6. CASE executor \notin {"none", "begin", "wait", "stopping"}
      <3>1. executor \in {"complete", "ended"} BY <1>0, <2>6 DEF Branches!TypeOK
      <3>2. delivered /\ (ran # 0 => ~Branches!Runs(ran)) BY <2>1, <3>1 DEF FaithfulRun
      <3>3. ~(ran = Branches!Default /\ Branches!Runs(ran)) BY <3>2, PositionsAre
      <3> QED BY <2>1, <2>3, <3>1, <3>2, <3>3 DEF FaithfulRun
    <2> QED BY <2>4, <2>5, <2>6
  <1>3. CASE Branches!ClearBranches(c)
    <2>1. ~reshaped /\ executor = "none" /\ cwLife = "alive" BY <1>3 DEF Branches!ClearBranches
    <2>2. ran = 0 /\ \A b \in Branches!BranchName : ~Branches!Runs(b)
      BY <1>0, <2>1 DEF FaithfulRun
    <2>3. ran' = 0 BY <1>3, <2>2, PositionsAre DEF Branches!ClearBranches, Branches!Disown
    <2>4. selected' = 0 /\ executor' = "none" /\ cwLife' = "alive"
      BY <1>3, <2>1 DEF Branches!ClearBranches
    <2>5. \A b \in Branches!BranchName : ~Branches!Runs(b)'
      BY <1>3, <2>2, PositionsAre DEF Branches!ClearBranches, Branches!Disown, Branches!Runs
    <2> QED BY <2>3, <2>4, <2>5, PositionsAre DEF FaithfulRun
  <1>4. ASSUME NEW holding \in SUBSET DOMAIN branches, Branches!Evaluate(c, holding)
        PROVE  FaithfulRun'
    <2>1. ~reshaped /\ executor = "none" /\ cwLife = "alive" BY <1>4 DEF Branches!Evaluate
    <2>2. selected' # Branches!Dead
      BY <1>0, <1>4, SelectionIsBranch, PositionsAre DEF Branches!Evaluate
    <2>3. ran = 0 /\ \A b \in Branches!BranchName : ~Branches!Runs(b)
      BY <1>0, <2>1 DEF FaithfulRun
    <2>4. ran' = 0 /\ executor' = "none" /\ cwLife' = "alive" /\ branchState' = branchState
      BY <1>4, <2>1, <2>3 DEF Branches!Evaluate
    <2> QED BY <2>2, <2>3, <2>4, PositionsAre DEF FaithfulRun, Branches!Runs
  <1>11. CASE Branches!StartBranch(c)
    <2>1. ~reshaped /\ executor = "none" /\ cwLife = "alive" BY <1>11 DEF Branches!StartBranch
    <2>2. /\ ran = 0 /\ selected # Branches!Dead
          /\ \A b \in Branches!BranchName : ~Branches!Runs(b)
      BY <1>0, <2>1 DEF FaithfulRun
    <2>3. ran' = 0 /\ executor' = "none" /\ selected' = selected
      BY <1>11, <2>1, <2>2 DEF Branches!StartBranch
    <2>4. \A b \in Branches!BranchName : branchState'[b] \in {branchState[b], "READY"}
      <3>1. CASE Branches!HasWorkflow(chosen[c])
        <4>1. chosen[c] \in Branches!BranchName
          <5>1. chosen[c] \in Branches!BranchName \cup {Branches!Dead}
            BY <1>0, <1>11 DEF Branches!StartBranch, Branches!TypeOK
          <5> QED BY <1>0, <3>1, <5>1, WorkflowsAreBranches
        <4>2. ~Branches!Runs(chosen[c]) BY <2>2, <4>1
        <4> QED BY <1>0, <1>11, <3>1, <4>1, <4>2 DEF Branches!StartBranch, Branches!TypeOK
      <3>2. CASE ~Branches!HasWorkflow(chosen[c]) BY <1>11, <3>2 DEF Branches!StartBranch
      <3> QED BY <3>1, <3>2
    <2>5. \A b \in Branches!BranchName : ~Branches!Runs(b)' BY <2>2, <2>4 DEF Branches!Runs
    <2> QED BY <2>2, <2>3, <2>5, PositionsAre DEF FaithfulRun
  <1>5. ASSUME NEW context \in BOOLEAN, Branches!Start(c, context) PROVE FaithfulRun'
    BY <1>0, <1>5 DEF Branches!Start, FaithfulRun, Branches!HasWorkflow, Branches!Runs
  <1>6. CASE Branches!Execute(c)
    BY <1>0, <1>6 DEF Branches!Execute, FaithfulRun, Branches!HasWorkflow, Branches!Runs
  <1>7. CASE Branches!Interrupt(c)
    BY <1>0, <1>7
       DEF Branches!Interrupt, Branches!Tell, FaithfulRun, Branches!HasWorkflow, Branches!Runs
  <1>8. CASE Branches!InterruptFlags(c)
    BY <1>0, <1>8 DEF Branches!InterruptFlags, FaithfulRun, Branches!HasWorkflow, Branches!Runs
  <1>9. CASE Branches!Finish(c)
    BY <1>0, <1>9
       DEF Branches!Finish, Branches!Tell, FaithfulRun, Branches!HasWorkflow, Branches!Runs
  <1>10. CASE Branches!Destroy(c)
    BY <1>0, <1>10 DEF Branches!Destroy, FaithfulRun, Branches!HasWorkflow, Branches!Runs
  <1>12. CASE Branches!Cancel(c)
    <2>1. /\ FaithfulRun /\ cwLife = "alive" /\ cwLife' = "alive"
          /\ UNCHANGED <<branches, defaultSet, selected, contextSet, executor, ran, stops,
                         delivered>>
      BY <1>0, <1>12, PositionsAre DEF Branches!Cancel, Branches!Tell, FaithfulRun
    <2>2. \A b \in Branches!BranchName : branchState'[b] \in {branchState[b], "ENDED"}
      BY <1>0, <1>12 DEF Branches!Cancel, Branches!TypeOK
    <2>3. \A b \in Branches!BranchName : ~Branches!Runs(b) => ~Branches!Runs(b)'
      BY <2>2 DEF Branches!Runs
    <2>4. ran \in Branches!BranchName \cup {0} BY <1>0 DEF Branches!TypeOK
    <2>5. ran # 0 /\ branchState[ran] # "RESTARTED" => branchState'[ran] # "RESTARTED"
      BY <2>2, <2>4
    <2>6. ran # 0 /\ ~Branches!Runs(ran) => ~Branches!Runs(ran)'
      BY <2>1, <2>3, <2>4 DEF Branches!Runs
    <2>7. executor \in {"wait", "stopping"} => ran # 0
      BY <1>0, <2>1, <2>4, WorkflowsAreBranches, PositionsAre DEF FaithfulRun
    <2> QED BY <2>1, <2>3, <2>5, <2>6, <2>7 DEF FaithfulRun, Branches!HasWorkflow
  <1> QED BY <1>1, <1>2, <1>3, <1>4, <1>5, <1>6, <1>7, <1>8, <1>9, <1>10,
             <1>11, <1>12

LEMMA BranchesStep == BranchesInv /\ [Branches!Next]_(Branches!vars) => BranchesInv'
  <1> SUFFICES ASSUME BranchesInv, [Branches!Next]_(Branches!vars), ~reshaped'
               PROVE  FaithfulRun'
    BY BranchesTypeStep DEF BranchesInv
  <1> USE DEF Branches!object, Branches!run, Branches!outer, Branches!shape
  <1>0. Branches!TypeOK /\ (~reshaped => FaithfulRun)
    BY DEF BranchesInv
  <1>1. CASE Branches!ExecutorBegins
    <2>1. FaithfulRun /\ executor = "begin" /\ cwLife \in {"alive", "destroyed"}
      BY <1>0, <1>1 DEF Branches!ExecutorBegins, Branches!ExecutorAt
    <2>2. cwLife' = cwLife BY <1>1, <2>1 DEF Branches!ExecutorBegins, FaithfulRun
    <2>6. ran = 0 /\ \A b \in Branches!BranchName : ~Branches!Runs(b) BY <2>1 DEF FaithfulRun
    <2>3. CASE Branches!HasWorkflow(selected)
      <3>1. executor' = "wait" /\ ran' = selected /\ UNCHANGED <<branches, defaultSet, selected>>
        BY <1>1, <2>3 DEF Branches!ExecutorBegins
      <3>2. selected \in Branches!BranchName /\ selected # Branches!Former
        BY <1>0, <2>3, WorkflowsAreBranches DEF Branches!TypeOK
      <3>3. branchState'[selected] # "RESTARTED"
        <4>1. branchState[selected] # "RESTARTED" BY <2>6, <3>2 DEF Branches!Runs
        <4> QED BY <1>0, <1>1, <2>3, <3>2, <4>1 DEF Branches!ExecutorBegins, Branches!TypeOK
      <3> QED BY <2>1, <2>2, <2>3, <3>1, <3>2, <3>3 DEF FaithfulRun, Branches!HasWorkflow
    <2>4. CASE ~Branches!HasWorkflow(selected)
      <3>1. executor' = "complete" /\ delivered' = TRUE /\ UNCHANGED <<ran, selected>>
        BY <1>1, <2>4 DEF Branches!ExecutorBegins, Branches!Deliver
      <3> QED BY <2>1, <2>2, <2>6, <3>1, PositionsAre DEF FaithfulRun
    <2> QED BY <2>3, <2>4
  <1>2. CASE Branches!ExecutorFinds
    <2>1. FaithfulRun /\ executor = "wait" /\ ~Branches!Runs(ran)
      BY <1>0, <1>2 DEF Branches!ExecutorFinds, Branches!ExecutorAt
    <2>2. ran \in Branches!BranchName /\ selected = ran
      BY <1>0, <2>1, WorkflowsAreBranches DEF FaithfulRun, Branches!TypeOK
    <2>3. selected \notin {0, Branches!Dead} BY <2>2, PositionsAre
    <2>4. CASE contextSet
      BY <1>2, <2>1, <2>3, <2>4
         DEF Branches!ExecutorFinds, Branches!ExecutorAt, Branches!Deliver, FaithfulRun,
           Branches!Runs
    <2>5. CASE ~contextSet
      BY <1>2, <2>1, <2>5
       DEF Branches!ExecutorFinds, FaithfulRun, Branches!HasWorkflow, Branches!Runs
    <2> QED BY <2>4, <2>5
  <1>3. CASE Branches!ExecutorStops
    <2>1. /\ FaithfulRun /\ executor = "wait" /\ Branches!Runs(ran)
          /\ cwLife \in {"alive", "destroyed"}
      BY <1>0, <1>3 DEF Branches!ExecutorStops, Branches!ExecutorAt
    <2>2. /\ ran = selected /\ Branches!HasWorkflow(selected) /\ selected # Branches!Dead
          /\ branchState[ran] # "RESTARTED"
      BY <2>1 DEF FaithfulRun
    <2>3. Branches!Target = ran BY <2>1, <2>2 DEF Branches!Target, Branches!Runs
    <2>4. cwLife' = cwLife BY <1>3, <2>2 DEF Branches!ExecutorStops, Branches!Tell
    <2>5. /\ executor' = "stopping" /\ stops' = ran
          /\ UNCHANGED <<branches, defaultSet, selected, ran, branchState>>
      BY <1>3, <2>3 DEF Branches!ExecutorStops
    <2> QED BY <2>1, <2>2, <2>4, <2>5 DEF FaithfulRun, Branches!HasWorkflow
  <1>4. CASE Branches!ExecutorInterrupted
    <2>1. FaithfulRun /\ executor = "stopping" /\ cwLife \in {"alive", "destroyed"}
      BY <1>0, <1>4 DEF Branches!ExecutorInterrupted, Branches!ExecutorAt
    <2>2. ran # 0 => ~Branches!Runs(ran)
      BY <1>4, <2>1 DEF Branches!ExecutorInterrupted, Branches!HasEnded, FaithfulRun
    <2> QED BY <1>4, <2>1, <2>2 DEF Branches!ExecutorInterrupted, Branches!Deliver, FaithfulRun,
         Branches!Runs
  <1>5. CASE Branches!ExecutorCompletes
    BY <1>0, <1>5 DEF Branches!ExecutorCompletes, Branches!ExecutorAt, FaithfulRun, Branches!Runs
  <1>6. ASSUME NEW b \in Branches!BranchName, Branches!BranchEnds(b) PROVE FaithfulRun'
    <2>1. FaithfulRun BY <1>0, <1>6 DEF Branches!BranchEnds
    <2>2. ran \in Branches!BranchName \cup {0} BY <1>0 DEF Branches!TypeOK
    <2>3. \A d \in Branches!BranchName : branchState'[d] \in {branchState[d], "ENDED"}
      BY <1>0, <1>6 DEF Branches!BranchEnds, Branches!TypeOK
    <2>4. UNCHANGED <<selected, executor, cwLife, ran, branches, defaultSet, stops, delivered,
                      contextSet>>
      BY <1>6 DEF Branches!BranchEnds
    <2>5. \A d \in Branches!BranchName : ~Branches!Runs(d) => ~Branches!Runs(d)'
      BY <2>3 DEF Branches!Runs
    <2>6. ran # 0 /\ ~Branches!Runs(ran) => ~Branches!Runs(ran)'
      BY <2>2, <2>4, <2>5 DEF Branches!Runs
    <2>7. executor \in {"wait", "stopping"} => ran # 0
      BY <1>0, <2>1, <2>2, WorkflowsAreBranches, PositionsAre DEF FaithfulRun
    <2>8. ran # 0 /\ branchState[ran] # "RESTARTED" => branchState'[ran] # "RESTARTED"
      BY <2>2, <2>3
    <2> QED BY <2>1, <2>4, <2>5, <2>6, <2>7, <2>8 DEF FaithfulRun, Branches!HasWorkflow
  <1>7. CASE UNCHANGED Branches!vars
    BY <1>0, <1>7 DEF Branches!vars, Branches!own, FaithfulRun, Branches!HasWorkflow,
                     Branches!Runs
  <1> QED BY <1>1, <1>2, <1>3, <1>4, <1>5, <1>6, <1>7, MethodsKeepRun DEF Branches!Next

LEMMA BranchesDecide == BranchesInv => Branches!SelectsBest /\ Branches!EndMeansBranchEnded
  <1> SUFFICES ASSUME BranchesInv PROVE Branches!SelectsBest /\ Branches!EndMeansBranchEnded
    OBVIOUS
  <1>1. branches \in Seq(Branches!Branch) BY DEF BranchesInv, Branches!TypeOK
  <1>2. Branches!SelectsBest BY <1>1, BranchesSelectBest
  <1>3. Branches!EndMeansBranchEnded
    BY DEF BranchesInv, FaithfulRun, Branches!EndMeansBranchEnded
  <1> QED BY <1>2, <1>3

\* As long as the branches stay as they were when one was selected, the execution thread
\* ends only after its branch, with its promise set, and only a missing context makes it
\* use a dead pointer.
THEOREM RunEndsWithItsBranch == Branches!Spec => []Branches!EndMeansBranchEnded
  BY BranchesInit, BranchesStep, BranchesDecide, PTL DEF Branches!Spec

-----------------------------------------------------------------------------
(* The retry policy.                                                       *)

\* The policy says too early that the limit was reached only if its counter is ahead.
LEMMA RetryRefusesInTime ==
  ASSUME Retry!TypeOK, currentAttempt <= attempt, Retry!HasReachedMaxRetries,
         NEW failure \in Retry!Failure
  PROVE  ~Retry!Agrees(failure)
  <1>1. rpConfig.maxRetries \in Nat
    BY CallersAssumption DEF Retry!TypeOK, Retry!RetryConfig
  <1>2. currentAttempt \in Nat /\ attempt \in Nat BY DEF Retry!TypeOK
  <1>3. ~(attempt < rpConfig.maxRetries)
    BY <1>1, <1>2 DEF Retry!HasReachedMaxRetries
  <1> QED BY <1>3 DEF Retry!Agrees

RetryCounts ==
  /\ reconfigured \/ attempt <= rpConfig.maxRetries
  /\ currentAttempt <= attempt
  /\ reconfigured \/ attempt <= currentAttempt + 1

LEMMA RetryCountsBound == Retry!TypeOK /\ RetryCounts => Retry!RetriesBounded
  BY RetryRefusesInTime DEF RetryCounts, Retry!RetriesBounded

RetryInv == Retry!TypeOK /\ RetryCounts

LEMMA RetryInit == Retry!Init => RetryInv
  <1> SUFFICES ASSUME Retry!Init PROVE RetryInv
    OBVIOUS
  <1>1. Retry!CallersTypeOK
    BY CallersAssumption DEF Retry!Init, Retry!CallersInit, Retry!CallersTypeOK
  <1>2. rpConfig.maxRetries \in Nat
    BY CallersAssumption DEF Retry!Init, Retry!RetryConfig
  <1>3. attempt <= rpConfig.maxRetries /\ currentAttempt <= attempt /\ attempt <= currentAttempt + 1
    BY <1>2 DEF Retry!Init
  <1>4. Retry!TypeOK BY <1>1 DEF Retry!Init, Retry!TypeOK
  <1> QED BY <1>3, <1>4 DEF RetryInv, RetryCounts

LEMMA RetryStep == RetryInv /\ [Retry!Next]_(Retry!vars) => RetryInv'
  <1> SUFFICES ASSUME RetryInv, [Retry!Next]_(Retry!vars) PROVE RetryInv'
    OBVIOUS
  <1> USE DEF RetryInv, Retry!TypeOK, RetryCounts
  <1>1. ASSUME Retry!Called PROVE Retry!CallersTypeOK'
    BY <1>1, CallersAssumption DEF Retry!Called, Retry!CallersTypeOK
  <1>2. \A config \in Retry!RetryConfig : config.maxRetries \in Nat
    BY CallersAssumption DEF Retry!RetryConfig
  <1>3. ASSUME NEW failure \in Retry!Failure, Retry!ShouldRetry(failure) PROVE RetryInv'
    <2>1. Retry!CallersTypeOK' BY <1>1, <1>3 DEF Retry!ShouldRetry
    <2>2. CASE Retry!Agrees(failure)
      BY <1>2, <1>3, <2>1, <2>2 DEF Retry!ShouldRetry, Retry!Agrees
    <2>3. CASE ~Retry!Agrees(failure)
      BY <1>3, <2>1, <2>3 DEF Retry!ShouldRetry
    <2> QED BY <2>2, <2>3
  <1>4. CASE Retry!Reset
    <2>1. /\ attempt' = 0 /\ currentAttempt' = 0 /\ asking' = TRUE /\ reconfigured' = FALSE
          /\ rpConfig' = rpConfig
      BY <1>4 DEF Retry!Reset
    <2>2. attempt' <= rpConfig'.maxRetries /\ currentAttempt' <= attempt'
            /\ attempt' <= currentAttempt' + 1
      BY <1>2, <2>1
    <2>3. Retry!CallersTypeOK' BY <1>1, <1>4 DEF Retry!Reset
    <2>4. rpConfig' \in Retry!RetryConfig BY <2>1
    <2>5. Retry!TypeOK' BY ONLY <2>1, <2>3, <2>4 DEF Retry!TypeOK
    <2>6. RetryCounts' BY <2>2
    <2> QED BY ONLY <2>5, <2>6 DEF RetryInv
  <1>5. ASSUME NEW config \in Retry!RetryConfig, Retry!SetConfig(config) PROVE RetryInv'
    BY <1>1, <1>2, <1>5 DEF Retry!SetConfig
  <1>6. CASE UNCHANGED Retry!vars
    BY <1>6 DEF Retry!vars, Retry!own, Retry!CallersTypeOK
  <1> QED BY <1>3, <1>4, <1>5, <1>6 DEF Retry!Next

LEMMA BackoffWalks ==
  ASSUME NEW initial \in Nat, NEW n \in Nat
  PROVE  \E delay \in [0 .. n -> Nat] :
           /\ delay[0] = initial
           /\ \A i \in 1 .. n : delay[i] = delay[i - 1] * 2
           /\ Retry!Backoff(initial, n) = delay[n]
  <1> DEFINE body(f) == [i \in 0 .. n |-> IF i = 0 THEN initial ELSE f[i - 1] * 2]
             next == [p \in (1 .. n) \X Nat |-> p[2] * 2]
             delay == CHOOSE f : f = body(f)
  <1>1. next \in [(1 .. n) \X Nat -> Nat] OBVIOUS
  <1>2. \A i \in 1 .. n, x \in Nat : next[<<i, x>>] = x * 2
    OBVIOUS
  <1> HIDE DEF next
  <1>3. PICK f \in [0 .. n -> Nat] :
          f[0] = initial /\ \A i \in 1 .. n : f[i] = next[<<i, f[i - 1]>>]
    <2>1. Walks(Nat, n, initial, next) # {} BY <1>1, StepByStep
    <2> QED BY <2>1 DEF Walks
  <1>4. f = body(f)
    <2>1. \A i \in 0 .. n : i # 0 => i \in 1 .. n /\ f[i - 1] \in Nat OBVIOUS
    <2>2. \A i \in 0 .. n : f[i] = IF i = 0 THEN initial ELSE f[i - 1] * 2
      BY <1>2, <1>3, <2>1
    <2> QED BY <2>2
  <1>5. delay = body(delay) BY <1>4
  <1>6. Retry!Backoff(initial, n) = delay[n]
    BY DEF Retry!Backoff
  <1> HIDE DEF delay
  <1>7. delay[0] = initial /\ \A i \in 1 .. n : delay[i] = delay[i - 1] * 2
    <2>1. 0 \in 0 .. n /\ \A i \in 1 .. n : i \in 0 .. n /\ i # 0 OBVIOUS
    <2> QED BY <1>5, <2>1
  <1>8. \A i \in 0 .. n : delay[i] \in Nat
    <2> DEFINE good == {j \in 0 .. n : delay[j] \in Nat}
    <2>1. 0 \in good BY <1>7
    <2>2. ASSUME NEW i \in 1 .. n, i - 1 \in good PROVE i \in good
      <3>1. delay[i - 1] \in Nat BY <2>2
      <3>2. delay[i] \in Nat BY <1>7, <3>1
      <3> QED BY <3>2
    <2> HIDE DEF good
    <2>3. \A i \in 0 .. n : i \in good BY <2>1, <2>2, Upwards
    <2> QED BY <2>3 DEF good
  <1>9. delay \in [0 .. n -> Nat]
    <2>1. delay = [i \in 0 .. n |-> delay[i]] BY <1>5
    <2> QED BY <1>8, <2>1
  <1> QED BY <1>6, <1>7, <1>9

\* A backoff doubles with every attempt.
LEMMA BackoffDoubles ==
  ASSUME NEW initial \in Nat, NEW n \in Nat
  PROVE  /\ Retry!Backoff(initial, n) \in Nat
         /\ Retry!Backoff(initial, n + 1) = Retry!Backoff(initial, n) * 2
  <1>1. PICK delay \in [0 .. n -> Nat] :
          /\ delay[0] = initial
          /\ \A i \in 1 .. n : delay[i] = delay[i - 1] * 2
          /\ Retry!Backoff(initial, n) = delay[n]
    BY BackoffWalks
  <1>2. PICK longer \in [0 .. n + 1 -> Nat] :
          /\ longer[0] = initial
          /\ \A i \in 1 .. n + 1 : longer[i] = longer[i - 1] * 2
          /\ Retry!Backoff(initial, n + 1) = longer[n + 1]
    <2>1. n + 1 \in Nat OBVIOUS
    <2> QED BY <2>1, BackoffWalks
  <1> DEFINE good == {i \in 0 .. n : delay[i] = longer[i]}
  <1>3. 0 \in good BY <1>1, <1>2
  <1>4. ASSUME NEW i \in 1 .. n, i - 1 \in good PROVE i \in good
    <2>1. delay[i] = delay[i - 1] * 2 BY <1>1
    <2>2. i \in 1 .. n + 1 OBVIOUS
    <2>3. longer[i] = longer[i - 1] * 2 BY <1>2, <2>2
    <2> QED BY <1>4, <2>1, <2>3
  <1>5. n \in good
    <2>1. n \in 0 .. n OBVIOUS
    <2> HIDE DEF good
    <2> QED BY <1>3, <1>4, <2>1, Upwards
  <1>6. longer[n + 1] = longer[n] * 2
    <2>1. n + 1 \in 1 .. n + 1 /\ (n + 1) - 1 = n OBVIOUS
    <2> QED BY <1>2, <2>1
  <1> QED BY <1>1, <1>2, <1>5, <1>6

\* The delay that a strategy asks for, before the maximum cuts it.
Asked(config, n) ==
  IF config.strategy = "EXPONENTIAL_BACKOFF" THEN Retry!Backoff(config.initialDelayMs, n)
  ELSE IF config.strategy = "LINEAR_BACKOFF"
       THEN config.initialDelayMs + config.delayIncrementMs * n
       ELSE IF config.strategy = "FIXED_DELAY" THEN config.initialDelayMs ELSE 0

LEMMA AskedGrows ==
  ASSUME NEW config \in Retry!RetryConfig, NEW n \in Nat
  PROVE  /\ Asked(config, n) \in Nat /\ Asked(config, n + 1) \in Nat
         /\ Asked(config, n) <= Asked(config, n + 1)
  <1>1. config.initialDelayMs \in Nat /\ config.delayIncrementMs \in Nat
    BY CallersAssumption DEF Retry!RetryConfig
  <1>2. /\ Retry!Backoff(config.initialDelayMs, n) \in Nat
        /\ Retry!Backoff(config.initialDelayMs, n + 1)
             = Retry!Backoff(config.initialDelayMs, n) * 2
    BY <1>1, BackoffDoubles
  <1>3. ASSUME NEW a \in Nat, NEW b \in Nat
        PROVE  a + b * n \in Nat /\ a + b * (n + 1) = a + b * n + b
    <2>1. b * n \in Nat OBVIOUS
    <2>2. b * (n + 1) = b * n + b OBVIOUS
    <2> QED BY <2>1, <2>2
  <1>4. /\ config.initialDelayMs + config.delayIncrementMs * n \in Nat
        /\ config.initialDelayMs + config.delayIncrementMs * (n + 1)
             = config.initialDelayMs + config.delayIncrementMs * n + config.delayIncrementMs
    BY <1>1, <1>3
  <1>5. CASE config.strategy = "EXPONENTIAL_BACKOFF" BY <1>2, <1>5 DEF Asked
  <1>6. CASE config.strategy = "LINEAR_BACKOFF" BY <1>1, <1>4, <1>6 DEF Asked
  <1>7. CASE config.strategy \notin {"EXPONENTIAL_BACKOFF", "LINEAR_BACKOFF"}
    BY <1>1, <1>7 DEF Asked
  <1> QED BY <1>5, <1>6, <1>7

\* While the backoff fits its type, the policy sleeps what the strategy asks for, or the
\* maximum.
LEMMA DelayIsAsked ==
  ASSUME NEW config \in Retry!RetryConfig, NEW n \in Nat,
         Retry!Backoff(config.initialDelayMs, n) <= Retry!LargestInt64,
         NEW delay \in Retry!GetNextDelay(config, n)
  PROVE  delay = IF Asked(config, n) < config.maxDelayMs THEN Asked(config, n)
                 ELSE config.maxDelayMs
  <1>0. config.strategy \in Retry!RetryStrategy BY DEF Retry!RetryConfig
  <1>1. CASE config.strategy = "EXPONENTIAL_BACKOFF"
    BY <1>1 DEF Asked, Retry!GetNextDelay, Retry!AsInt64
  <1>2. CASE config.strategy = "LINEAR_BACKOFF" BY <1>2 DEF Asked, Retry!GetNextDelay
  <1>3. CASE config.strategy = "FIXED_DELAY" BY <1>3 DEF Asked, Retry!GetNextDelay
  <1>4. CASE config.strategy = "IMMEDIATE" BY <1>4 DEF Asked, Retry!GetNextDelay
  <1> QED BY <1>0, <1>1, <1>2, <1>3, <1>4 DEF Retry!RetryStrategy

\* The cut to the maximum is the last thing that happens to a delay, whatever the
\* conversion made of it.
LEMMA DelayIsCut ==
  ASSUME NEW config \in Retry!RetryConfig, NEW n \in Nat,
         NEW delay \in Retry!GetNextDelay(config, n)
  PROVE  delay <= config.maxDelayMs
  <1>0. config.strategy \in Retry!RetryStrategy BY DEF Retry!RetryConfig
  <1>1. config.maxDelayMs \in Nat BY CallersAssumption DEF Retry!RetryConfig
  <1>2. ASSUME NEW x \in Int, delay = IF x < config.maxDelayMs THEN x ELSE config.maxDelayMs
        PROVE  delay <= config.maxDelayMs
    BY <1>1, <1>2
  <1>3. CASE config.strategy = "EXPONENTIAL_BACKOFF"
    <2>1. Retry!Backoff(config.initialDelayMs, n) \in Nat
      BY BackoffDoubles, CallersAssumption DEF Retry!RetryConfig
    <2>2. Retry!AsInt64(Retry!Backoff(config.initialDelayMs, n)) \subseteq Int
      BY <2>1 DEF Retry!AsInt64, Retry!LargestInt64
    <2>3. PICK x \in Retry!AsInt64(Retry!Backoff(config.initialDelayMs, n)) :
            delay = IF x < config.maxDelayMs THEN x ELSE config.maxDelayMs
      BY <1>3 DEF Retry!GetNextDelay
    <2> QED BY <1>2, <2>2, <2>3
  <1>4. CASE config.strategy # "EXPONENTIAL_BACKOFF"
    <2>1. Asked(config, n) \in Int BY AskedGrows
    <2>2. delay = IF Asked(config, n) < config.maxDelayMs THEN Asked(config, n)
                  ELSE config.maxDelayMs
      <3>1. CASE config.strategy = "LINEAR_BACKOFF" BY <3>1 DEF Asked, Retry!GetNextDelay
      <3>2. CASE config.strategy = "FIXED_DELAY" BY <3>2 DEF Asked, Retry!GetNextDelay
      <3>3. CASE config.strategy = "IMMEDIATE" BY <3>3 DEF Asked, Retry!GetNextDelay
      <3> QED BY <1>0, <1>4, <3>1, <3>2, <3>3 DEF Retry!RetryStrategy
    <2> QED BY <1>2, <2>1, <2>2
  <1> QED BY <1>3, <1>4

LEMMA RetryDelays == RetryInv => Retry!DelaysBounded
  <1> SUFFICES ASSUME RetryInv, NEW n \in 0 .. rpConfig.maxRetries,
                      NEW delay \in Retry!GetNextDelay(rpConfig, n),
                      NEW next \in Retry!GetNextDelay(rpConfig, n + 1)
               PROVE  /\ delay <= rpConfig.maxDelayMs
                      /\ delay < 0 =>
                           Retry!Backoff(rpConfig.initialDelayMs, n) > Retry!LargestInt64
                      /\ Retry!Backoff(rpConfig.initialDelayMs, n + 1) <= Retry!LargestInt64 =>
                           delay <= next
    BY DEF Retry!DelaysBounded
  <1>1. rpConfig \in Retry!RetryConfig BY DEF RetryInv, Retry!TypeOK
  <1>2. n \in Nat /\ n + 1 \in Nat
    <2>1. rpConfig.maxRetries \in Nat BY <1>1, CallersAssumption DEF Retry!RetryConfig
    <2> QED BY <2>1
  <1>3. rpConfig.maxDelayMs \in Nat /\ rpConfig.initialDelayMs \in Nat
    BY <1>1, CallersAssumption DEF Retry!RetryConfig
  <1>4. /\ Retry!Backoff(rpConfig.initialDelayMs, n) \in Nat
        /\ Retry!Backoff(rpConfig.initialDelayMs, n + 1)
             = Retry!Backoff(rpConfig.initialDelayMs, n) * 2
    BY <1>2, <1>3, BackoffDoubles
  <1>5. ASSUME Retry!Backoff(rpConfig.initialDelayMs, n) <= Retry!LargestInt64
        PROVE  delay = IF Asked(rpConfig, n) < rpConfig.maxDelayMs THEN Asked(rpConfig, n)
                       ELSE rpConfig.maxDelayMs
    BY <1>1, <1>2, <1>5, DelayIsAsked
  <1>6. ASSUME Retry!Backoff(rpConfig.initialDelayMs, n + 1) <= Retry!LargestInt64
        PROVE  delay <= next
    <2>1. Retry!Backoff(rpConfig.initialDelayMs, n) <= Retry!LargestInt64
      BY <1>4, <1>6 DEF Retry!LargestInt64
    <2>2. next = IF Asked(rpConfig, n + 1) < rpConfig.maxDelayMs THEN Asked(rpConfig, n + 1)
                 ELSE rpConfig.maxDelayMs
      BY <1>1, <1>2, <1>6, DelayIsAsked
    <2> QED BY <1>1, <1>2, <1>3, <1>5, <2>1, <2>2, AskedGrows
  <1>7. ASSUME delay < 0, ~(Retry!Backoff(rpConfig.initialDelayMs, n) > Retry!LargestInt64)
        PROVE  FALSE
    <2>1. Retry!Backoff(rpConfig.initialDelayMs, n) <= Retry!LargestInt64
      BY <1>4, <1>7 DEF Retry!LargestInt64
    <2>2. Asked(rpConfig, n) \in Nat BY <1>1, <1>2, AskedGrows
    <2> QED BY <1>3, <1>5, <1>7, <2>1, <2>2
  <1> QED BY <1>1, <1>2, <1>6, <1>7, DelayIsCut

\* A caller that goes by the policy's answers stays within maxRetries, and the policy's
\* counter follows it and never says too early that the limit was reached.
THEOREM RetriesStayBounded == Retry!Spec => []Retry!RetriesBounded
  <1>1. RetryInv => Retry!RetriesBounded BY RetryCountsBound DEF RetryInv
  <1> QED BY <1>1, RetryInit, RetryStep, PTL DEF Retry!Spec

\* No delay exceeds the maximum, and while the backoff fits its type delays grow from 0 on.
THEOREM DelaysStayBounded == Retry!Spec => []Retry!DelaysBounded
  BY RetryInit, RetryStep, RetryDelays, PTL DEF Retry!Spec

-----------------------------------------------------------------------------
(* Directories and their resources.  What a client is in the middle of     *)
(* speaks of resources that were made before, and every directory has a    *)
(* resource that nobody is about to erase.                                 *)

Fits(what, bound) ==
  \/ what = Resources!Idle
  \/ /\ what.step = "create"
     /\ what.path \in Ids /\ what.mine \in BOOLEAN
  \/ /\ what.step = "remove"
     /\ \A resource \in what.todo : resource \in Resources!Resource /\ resource.id <= bound
  \/ /\ what.step \in {"unlink", "erase"}
     /\ what = [step |-> what.step, todo |-> what.todo, resource |-> what.resource]
     /\ \A resource \in what.todo : resource \in Resources!Resource /\ resource.id <= bound
     /\ what.resource \in what.todo

Erases(what, resource) == what.step = "erase" /\ what.resource = resource

Covered(path) ==
  \/ \E resource \in resources :
       resource.path = path /\ \A c \in Clients : ~Erases(doing[c], resource)
  \/ \E c \in Clients : doing[c].step = "create" /\ doing[c].path = path
  \/ path \in failed

ResourcesTyped ==
  /\ Resources!CallersTypeOK
  /\ \A resource \in resources : resource \in Resources!Resource /\ resource.id <= created
  /\ created \in Nat
  /\ directories \subseteq Ids /\ failed \subseteq Ids
  /\ workingDir \in [Clients -> Nat]
  /\ doing = [c \in Clients |-> doing[c]]
  /\ \A c \in Clients : Fits(doing[c], created)

ResourcesInv == ResourcesTyped /\ \A path \in directories : Covered(path)

LEMMA IdleIs == Resources!Idle.step = "idle"
  BY DEF Resources!Idle

LEMMA FitsMeansDoing == ResourcesTyped => Resources!TypeOK
  <1> SUFFICES ASSUME ResourcesTyped PROVE Resources!TypeOK
    OBVIOUS
  <1>1. \A c \in Clients : Resources!Doing(c)
    BY DEF ResourcesTyped, Fits, Resources!Doing
  <1> QED BY <1>1 DEF ResourcesTyped, Resources!TypeOK

\* A step of client c that leaves it at what.
LEMMA ClientGoes ==
  ASSUME ResourcesTyped, NEW c \in Clients, NEW what, Resources!Goes(c, what),
         created' \in {created, created + 1}, Fits(what, created')
  PROVE  /\ doing'[c] = what
         /\ \A d \in Clients \ {c} : doing'[d] = doing[d]
         /\ doing' = [d \in Clients |-> doing'[d]]
         /\ \A d \in Clients : Fits(doing'[d], created')
  <1>1. /\ doing'[c] = what
        /\ \A d \in Clients \ {c} : doing'[d] = doing[d]
        /\ doing' = [d \in Clients |-> doing'[d]]
    BY DEF ResourcesTyped, Resources!Goes
  <1>2. created \in Nat /\ created' \in Nat /\ created <= created' BY DEF ResourcesTyped
  <1>3. ASSUME NEW d \in Clients \ {c} PROVE Fits(doing[d], created')
    <2>1. Fits(doing[d], created) BY DEF ResourcesTyped
    <2>2. \A resource \in Resources!Resource : resource.id <= created => resource.id <= created'
      BY <1>2 DEF Resources!Resource
    <2> QED BY <2>1, <2>2 DEF Fits
  <1>4. ASSUME NEW d \in Clients PROVE Fits(doing'[d], created')
    <2>1. CASE d = c BY <1>1, <2>1
    <2>2. CASE d # c
      <3>1. doing'[d] = doing[d] BY <1>1, <2>2
      <3> QED BY <1>3, <2>2, <3>1
    <2> QED BY <2>1, <2>2
  <1> QED BY <1>1, <1>4

\* A step of client c after which it neither erases a resource nor stopped creating one
\* leaves every directory covered.
LEMMA StaysCovered ==
  ASSUME ResourcesTyped, NEW c \in Clients, NEW path, Covered(path),
         \A d \in Clients \ {c} : doing'[d] = doing[d],
         doing[c].step # "create", doing'[c].step # "erase",
         resources \subseteq resources', failed \subseteq failed'
  PROVE  Covered(path)'
  <1>1. CASE \E resource \in resources :
               resource.path = path /\ \A d \in Clients : ~Erases(doing[d], resource)
    <2>1. PICK resource \in resources :
            resource.path = path /\ \A d \in Clients : ~Erases(doing[d], resource)
      BY <1>1
    <2>2. \A d \in Clients : ~Erases(doing'[d], resource) BY <2>1 DEF Erases
    <2> QED BY <2>1, <2>2 DEF Covered
  <1>2. CASE \E d \in Clients : doing[d].step = "create" /\ doing[d].path = path
    BY <1>2 DEF Covered
  <1>3. CASE path \in failed BY <1>3 DEF Covered
  <1> QED BY <1>1, <1>2, <1>3 DEF Covered

LEMMA ResourcesInit == Resources!Init => ResourcesInv
  <1> SUFFICES ASSUME Resources!Init PROVE ResourcesInv
    OBVIOUS
  <1>1. Resources!CallersTypeOK
    BY CallersAssumption DEF Resources!Init, Resources!CallersInit, Resources!CallersTypeOK
  <1>2. \A c \in Clients : doing[c] = Resources!Idle BY DEF Resources!Init
  <1> QED BY <1>1, <1>2 DEF Resources!Init, ResourcesInv, ResourcesTyped, Fits

LEMMA CreateKeeps ==
  ASSUME ResourcesInv, NEW c \in Clients, NEW path \in Ids, NEW mine \in BOOLEAN,
         Resources!CreateDirectory(c, path, mine)
  PROVE  ResourcesInv'
  <1> DEFINE what == [step |-> "create", path |-> path, mine |-> mine]
  <1>0. ResourcesTyped /\ doing[c].step = "idle"
    BY IdleIs DEF ResourcesInv, Resources!CreateDirectory
  <1>1. /\ Resources!Goes(c, what) /\ directories' = directories \cup {path}
        /\ UNCHANGED <<resources, created, workingDir, failed>>
    BY DEF Resources!CreateDirectory
  <1>2. Fits(what, created') BY DEF Fits
  <1>3. what.step = "create" /\ what.path = path OBVIOUS
  <1> HIDE DEF what
  <1>4. /\ doing'[c] = what
        /\ \A d \in Clients \ {c} : doing'[d] = doing[d]
        /\ doing' = [d \in Clients |-> doing'[d]]
        /\ \A d \in Clients : Fits(doing'[d], created')
    BY <1>0, <1>1, <1>2, ClientGoes
  <1>5. Resources!CallersTypeOK'
    BY CallersAssumption
       DEF Resources!CreateDirectory, Resources!Called, ResourcesInv, ResourcesTyped,
           Resources!CallersTypeOK
  <1>6. ResourcesTyped' BY <1>1, <1>4, <1>5 DEF ResourcesInv, ResourcesTyped
  <1>7. ASSUME NEW other \in directories' PROVE Covered(other)'
    <2>1. CASE other = path BY <1>3, <1>4, <2>1 DEF Covered
    <2>2. CASE other # path
      <3>1. Covered(other) BY <1>1, <2>2 DEF ResourcesInv
      <3> QED BY <1>0, <1>1, <1>3, <1>4, <3>1, StaysCovered
    <2> QED BY <2>1, <2>2
  <1> QED BY <1>6, <1>7 DEF ResourcesInv

LEMMA RegisterKeeps ==
  ASSUME ResourcesInv, NEW c \in Clients, Resources!Register(c)
  PROVE  ResourcesInv'
  <1> DEFINE new == [id |-> created + 1, path |-> doing[c].path]
  <1>0. ResourcesTyped /\ created \in Nat BY DEF ResourcesInv, ResourcesTyped
  <1>1. /\ Resources!Goes(c, Resources!Idle) /\ doing[c].step = "create"
        /\ resources' = resources \cup {new} /\ created' = created + 1
        /\ UNCHANGED <<directories, failed>>
    BY DEF Resources!Register
  <1>2. doing[c].path \in Ids
    <2>1. Fits(doing[c], created) BY <1>0 DEF ResourcesTyped
    <2> QED BY <1>1, <2>1, IdleIs DEF Fits
  <1>3. new \in Resources!Resource /\ new.id = created + 1 /\ new.path = doing[c].path
    BY <1>0, <1>2 DEF Resources!Resource
  <1> HIDE DEF new
  <1>4. Fits(Resources!Idle, created') BY DEF Fits
  <1>5. /\ doing'[c] = Resources!Idle
        /\ \A d \in Clients \ {c} : doing'[d] = doing[d]
        /\ doing' = [d \in Clients |-> doing'[d]]
        /\ \A d \in Clients : Fits(doing'[d], created')
    BY <1>0, <1>1, <1>4, ClientGoes
  <1>6. ResourcesTyped'
    <2>1. workingDir' \in [Clients -> Nat]
      BY <1>0 DEF Resources!Register, ResourcesTyped
    <2>2. \A resource \in resources' :
            resource \in Resources!Resource /\ resource.id <= created'
      <3>1. \A resource \in resources :
              resource \in Resources!Resource /\ resource.id <= created
        BY <1>0 DEF ResourcesTyped
      <3>2. \A resource \in Resources!Resource : resource.id \in Nat BY DEF Resources!Resource
      <3> QED BY <1>0, <1>1, <1>3, <3>1, <3>2
    <2>3. Resources!CallersTypeOK'
      BY <1>0 DEF Resources!Register, ResourcesTyped, Resources!CallersTypeOK
    <2> QED BY <1>0, <1>1, <1>5, <2>1, <2>2, <2>3 DEF ResourcesTyped
  <1>7. \A d \in Clients : ~Erases(doing'[d], new)
    <2> SUFFICES ASSUME NEW d \in Clients, Erases(doing'[d], new) PROVE FALSE
      OBVIOUS
    <2>1. d # c BY <1>5, IdleIs DEF Erases
    <2>2. doing'[d] = doing[d] /\ Fits(doing[d], created) BY <1>0, <1>5, <2>1 DEF ResourcesTyped
    <2>3. new.id <= created BY <2>2, IdleIs DEF Erases, Fits
    <2> QED BY <1>0, <1>3, <2>3
  <1>8. ASSUME NEW path \in directories' PROVE Covered(path)'
    <2>1. Covered(path) BY <1>1 DEF ResourcesInv
    <2>2. CASE path = doing[c].path BY <1>1, <1>3, <1>7, <2>2 DEF Covered
    <2>3. CASE path # doing[c].path
      <3>1. CASE \E resource \in resources :
                   resource.path = path /\ \A d \in Clients : ~Erases(doing[d], resource)
        <4>1. PICK resource \in resources :
                resource.path = path /\ \A d \in Clients : ~Erases(doing[d], resource)
          BY <3>1
        <4>2. \A d \in Clients : ~Erases(doing'[d], resource) BY <1>5, <4>1, IdleIs DEF Erases
        <4> QED BY <1>1, <4>1, <4>2 DEF Covered
      <3>2. CASE \E d \in Clients : doing[d].step = "create" /\ doing[d].path = path
        BY <1>5, <2>3, <3>2 DEF Covered
      <3>3. CASE path \in failed BY <1>1, <3>3 DEF Covered
      <3> QED BY <2>1, <3>1, <3>2, <3>3 DEF Covered
    <2> QED BY <2>2, <2>3
  <1> QED BY <1>6, <1>8 DEF ResourcesInv

\* A client that only notes what it goes on with.
LEMMA NotingKeeps ==
  ASSUME ResourcesInv, NEW c \in Clients, NEW what, Resources!Goes(c, what),
         Fits(what, created), doing[c].step # "create", what.step # "erase",
         UNCHANGED <<resources, created, directories, workingDir, failed>>,
         Resources!CallersTypeOK'
  PROVE  ResourcesInv'
  <1>0. ResourcesTyped BY DEF ResourcesInv
  <1>1. /\ doing'[c] = what
        /\ \A d \in Clients \ {c} : doing'[d] = doing[d]
        /\ doing' = [d \in Clients |-> doing'[d]]
        /\ \A d \in Clients : Fits(doing'[d], created')
    BY <1>0, ClientGoes
  <1>2. ResourcesTyped' BY <1>0, <1>1 DEF ResourcesTyped
  <1>3. \A path \in directories' : Covered(path)' BY <1>0, <1>1, StaysCovered DEF ResourcesInv
  <1> QED BY <1>2, <1>3 DEF ResourcesInv

LEMMA CleanupKeeps ==
  ASSUME ResourcesInv, NEW c \in Clients,
         \/ Resources!CleanupAll(c) \/ Resources!CleanupContext(c)
         \/ \E resource \in resources : Resources!Cleanup(c, resource)
  PROVE  ResourcesInv'
  <1>1. PICK todo \in SUBSET resources : Resources!StartCleanup(c, todo)
    BY DEF Resources!CleanupAll, Resources!CleanupContext, Resources!Cleanup
  <1> DEFINE what == [step |-> "remove", todo |-> todo]
  <1>2. Fits(what, created) BY DEF Fits, ResourcesInv, ResourcesTyped
  <1>3. what.step # "erase" OBVIOUS
  <1>4. Resources!Goes(c, what) /\ doing[c].step # "create"
    BY <1>1, IdleIs DEF Resources!StartCleanup
  <1>5. /\ UNCHANGED <<resources, created, directories, workingDir, failed>>
        /\ Resources!CallersTypeOK'
    BY <1>1, CallersAssumption
       DEF Resources!StartCleanup, Resources!Called, ResourcesInv, ResourcesTyped,
           Resources!CallersTypeOK
  <1> HIDE DEF what
  <1> QED BY <1>2, <1>3, <1>4, <1>5, NotingKeeps

LEMMA LookUpKeeps ==
  ASSUME ResourcesInv, NEW c \in Clients, Resources!LookUp(c) \/ Resources!CleanupEnds(c)
  PROVE  ResourcesInv'
  <1>0. /\ UNCHANGED <<resources, created, directories, workingDir, failed>>
        /\ Resources!CallersTypeOK'
    BY DEF Resources!LookUp, Resources!CleanupEnds, ResourcesInv, ResourcesTyped,
           Resources!CallersTypeOK
  <1>1. doing[c].step = "remove" BY DEF Resources!LookUp, Resources!CleanupEnds
  <1>2. CASE Resources!LookUp(c)
    <2>1. PICK resource \in doing[c].todo :
            Resources!Goes(c, [step |-> "unlink", todo |-> doing[c].todo,
                               resource |-> resource])
      BY <1>2 DEF Resources!LookUp
    <2> DEFINE what == [step |-> "unlink", todo |-> doing[c].todo, resource |-> resource]
    <2>2. \A other \in doing[c].todo : other \in Resources!Resource /\ other.id <= created
      <3>1. Fits(doing[c], created) BY DEF ResourcesInv, ResourcesTyped
      <3> QED BY <1>1, <3>1, IdleIs DEF Fits
    <2>3. what.step = "unlink" /\ what.todo = doing[c].todo /\ what.resource = resource OBVIOUS
    <2>4. Fits(what, created) BY <2>2 DEF Fits
    <2> HIDE DEF what
    <2> QED BY <1>0, <1>1, <2>1, <2>3, <2>4, NotingKeeps DEF what
  <1>3. CASE Resources!CleanupEnds(c)
    <2>1. Fits(Resources!Idle, created) BY DEF Fits
    <2>2. Resources!Goes(c, Resources!Idle) BY <1>3 DEF Resources!CleanupEnds
    <2> QED BY <1>0, <1>1, <2>1, <2>2, IdleIs, NotingKeeps
  <1> QED BY <1>2, <1>3

LEMMA RemoveKeeps ==
  ASSUME ResourcesInv, NEW c \in Clients, Resources!RemoveDirectory(c)
  PROVE  ResourcesInv'
  <1> DEFINE gone == doing[c].resource
             what == [doing[c] EXCEPT !.step = "erase"]
  <1>0. ResourcesTyped /\ doing[c].step = "unlink" /\ Fits(doing[c], created)
    BY DEF ResourcesInv, ResourcesTyped, Resources!RemoveDirectory
  <1>1. /\ doing[c] = [step |-> "unlink", todo |-> doing[c].todo, resource |-> gone]
        /\ \A resource \in doing[c].todo :
             resource \in Resources!Resource /\ resource.id <= created
        /\ gone \in doing[c].todo
    BY <1>0, IdleIs DEF Fits
  <1>2. what = [step |-> "erase", todo |-> doing[c].todo, resource |-> gone]
    BY <1>1
  <1>3. what.step = "erase" /\ what.todo = doing[c].todo /\ what.resource = gone BY <1>2
  <1>4. Resources!Goes(c, what) /\ UNCHANGED <<resources, created, workingDir>>
    BY DEF Resources!RemoveDirectory
  <1>5. \/ directories' = directories \ {gone.path} /\ failed' = failed
        \/ directories' = directories /\ failed' = failed \cup {gone.path}
    BY DEF Resources!RemoveDirectory
  <1>6. gone.path \in Ids BY <1>1 DEF Resources!Resource
  <1>7. Fits(what, created') BY <1>1, <1>2, <1>3, <1>4 DEF Fits
  <1> HIDE DEF what, gone
  <1>8. /\ doing'[c] = what
        /\ \A d \in Clients \ {c} : doing'[d] = doing[d]
        /\ doing' = [d \in Clients |-> doing'[d]]
        /\ \A d \in Clients : Fits(doing'[d], created')
    BY <1>0, <1>4, <1>7, ClientGoes
  <1>9. ResourcesTyped'
    <2>1. Resources!CallersTypeOK'
      BY <1>0 DEF Resources!RemoveDirectory, ResourcesTyped, Resources!CallersTypeOK
    <2> QED BY <1>0, <1>4, <1>5, <1>6, <1>8, <2>1 DEF ResourcesTyped
  <1>10. ASSUME NEW path \in directories' PROVE Covered(path)'
    <2>1. Covered(path) BY <1>5 DEF ResourcesInv
    <2>2. CASE path = gone.path BY <1>5, <2>2 DEF Covered
    <2>3. CASE path # gone.path
      <3>1. CASE \E resource \in resources :
                   resource.path = path /\ \A d \in Clients : ~Erases(doing[d], resource)
        <4>1. PICK resource \in resources :
                resource.path = path /\ \A d \in Clients : ~Erases(doing[d], resource)
          BY <3>1
        <4>2. resource # gone BY <2>3, <4>1
        <4>3. \A d \in Clients : ~Erases(doing'[d], resource)
          BY <1>3, <1>8, <4>1, <4>2 DEF Erases
        <4> QED BY <1>4, <4>1, <4>3 DEF Covered
      <3>2. CASE \E d \in Clients : doing[d].step = "create" /\ doing[d].path = path
        BY <1>0, <1>8, <3>2 DEF Covered
      <3>3. CASE path \in failed BY <1>5, <3>3 DEF Covered
      <3> QED BY <2>1, <3>1, <3>2, <3>3 DEF Covered
    <2> QED BY <2>2, <2>3
  <1> QED BY <1>9, <1>10 DEF ResourcesInv

LEMMA EraseKeeps ==
  ASSUME ResourcesInv, NEW c \in Clients, Resources!EraseResource(c)
  PROVE  ResourcesInv'
  <1> DEFINE gone == doing[c].resource
             what == [step |-> "remove", todo |-> doing[c].todo \ {gone}]
  <1>0. ResourcesTyped /\ doing[c].step = "erase" /\ Fits(doing[c], created)
    BY DEF ResourcesInv, ResourcesTyped, Resources!EraseResource
  <1>1. \A resource \in doing[c].todo :
          resource \in Resources!Resource /\ resource.id <= created
    BY <1>0, IdleIs DEF Fits
  <1>2. /\ Resources!Goes(c, what) /\ resources' = resources \ {gone}
        /\ UNCHANGED <<created, directories, workingDir, failed>>
    BY DEF Resources!EraseResource
  <1>3. Fits(what, created') BY <1>1, <1>2 DEF Fits
  <1>4. what.step = "remove" OBVIOUS
  <1> HIDE DEF what
  <1>5. /\ doing'[c] = what
        /\ \A d \in Clients \ {c} : doing'[d] = doing[d]
        /\ doing' = [d \in Clients |-> doing'[d]]
        /\ \A d \in Clients : Fits(doing'[d], created')
    BY <1>0, <1>2, <1>3, ClientGoes
  <1>6. ResourcesTyped'
    <2>1. Resources!CallersTypeOK'
      BY <1>0 DEF Resources!EraseResource, ResourcesTyped, Resources!CallersTypeOK
    <2> QED BY <1>0, <1>2, <1>5, <2>1 DEF ResourcesTyped
  <1>7. ASSUME NEW path \in directories' PROVE Covered(path)'
    <2>1. Covered(path) BY <1>2 DEF ResourcesInv
    <2>2. CASE \E resource \in resources :
                 resource.path = path /\ \A d \in Clients : ~Erases(doing[d], resource)
      <3>1. PICK resource \in resources :
              resource.path = path /\ \A d \in Clients : ~Erases(doing[d], resource)
        BY <2>2
      <3>2. resource # gone BY <1>0, <3>1 DEF Erases
      <3>3. \A d \in Clients : ~Erases(doing'[d], resource) BY <1>4, <1>5, <3>1 DEF Erases
      <3> QED BY <1>2, <3>1, <3>2, <3>3 DEF Covered
    <2>3. CASE \E d \in Clients : doing[d].step = "create" /\ doing[d].path = path
      BY <1>0, <1>5, <2>3 DEF Covered
    <2>4. CASE path \in failed BY <1>2, <2>4 DEF Covered
    <2> QED BY <2>1, <2>2, <2>3, <2>4 DEF Covered
  <1> QED BY <1>6, <1>7 DEF ResourcesInv

LEMMA ResourcesStep == ResourcesInv /\ [Resources!Next]_(Resources!vars) => ResourcesInv'
  <1> SUFFICES ASSUME ResourcesInv, [Resources!Next]_(Resources!vars) PROVE ResourcesInv'
    OBVIOUS
  <1>1. CASE UNCHANGED Resources!vars
    <2>1. UNCHANGED <<calls, now, resources, created, directories, workingDir, doing, failed>>
      BY <1>1 DEF Resources!vars, Resources!own
    <2>2. ResourcesTyped' BY <2>1 DEF ResourcesInv, ResourcesTyped, Resources!CallersTypeOK
    <2>3. \A path \in directories' : Covered(path)' BY <2>1 DEF ResourcesInv, Covered
    <2> QED BY <2>2, <2>3 DEF ResourcesInv
  <1> QED BY <1>1, CreateKeeps, CleanupKeeps, RegisterKeeps, LookUpKeeps, RemoveKeeps,
             EraseKeeps
          DEF Resources!Next, Resources!ClientSteps

LEMMA ResourcesLeakNothing == ResourcesInv => Resources!TypeOK /\ Resources!NothingLeaks
  BY FitsMeansDoing DEF ResourcesInv, Covered, Resources!NothingLeaks

\* A directory stays in the table until it is removed, whatever the clients do at the same
\* time, unless its removal failed.
THEOREM DirectoriesAreFound == Resources!Spec => []Resources!NothingLeaks
  BY ResourcesInit, ResourcesStep, ResourcesLeakNothing, PTL DEF Resources!Spec

-----------------------------------------------------------------------------
(* The facade.  A connection is open while a manager uses it, and another  *)
(* open one was left behind by a second initialize().                      *)

FacadeInv ==
  /\ Facade!TypeOK
  /\ manager = "PERSISTING" => connected /\ persistenceEnabled
  /\ connected /\ manager # "PERSISTING" => replaced

LEMMA FacadeInit == Facade!Init => FacadeInv
  <1> SUFFICES ASSUME Facade!Init PROVE FacadeInv
    OBVIOUS
  <1>1. Facade!CallersTypeOK
    BY CallersAssumption DEF Facade!Init, Facade!CallersInit, Facade!CallersTypeOK
  <1> QED BY <1>1 DEF Facade!Init, FacadeInv, Facade!TypeOK

LEMMA FacadeStep == FacadeInv /\ [Facade!Next]_(Facade!vars) => FacadeInv'
  <1> SUFFICES ASSUME FacadeInv, [Facade!Next]_(Facade!vars) PROVE FacadeInv'
    OBVIOUS
  <1> USE DEF FacadeInv, Facade!state, Facade!Goes, Facade!Return, Facade!Locked
  <1>1. ASSUME Facade!Called PROVE Facade!CallersTypeOK'
    BY <1>1, CallersAssumption DEF Facade!Called, Facade!TypeOK, Facade!CallersTypeOK
  <1>2. ASSUME UNCHANGED <<calls, now>> PROVE Facade!CallersTypeOK'
    BY <1>2 DEF Facade!TypeOK, Facade!CallersTypeOK
  <1>3. ASSUME NEW c \in Clients, NEW to \in {"initialize", "enable"}, Facade!Begin(c, to)
        PROVE  FacadeInv'
    BY <1>1, <1>3 DEF Facade!Begin, Facade!TypeOK
  <1>4. ASSUME NEW c \in Clients, Facade!Lock(c) PROVE FacadeInv'
    BY <1>2, <1>4 DEF Facade!Lock, Facade!TypeOK
  <1>5. ASSUME NEW c \in Clients, Facade!Configure(c) PROVE FacadeInv'
    <2>1. /\ mutex' \in {mutex, Facade!NoClient}
          /\ initialized' = TRUE \/ initialized' = initialized
          /\ phase' = [phase EXCEPT ![c] = "idle"] \/ phase' = [phase EXCEPT ![c] = "enable"]
          /\ Facade!CallersTypeOK'
      BY <1>2, <1>5 DEF Facade!Configure
    <2>2. /\ manager' = "PLAIN" /\ replaced' = (replaced \/ manager = "PERSISTING")
          /\ UNCHANGED <<persistenceEnabled, connected>>
      BY <1>5 DEF Facade!Configure
    <2> QED BY <2>1, <2>2 DEF Facade!TypeOK
  <1>6. ASSUME NEW c \in Clients, Facade!Enable(c) PROVE FacadeInv'
    <2>1. mutex' = Facade!NoClient /\ phase' = [phase EXCEPT ![c] = "idle"]
      BY <1>6 DEF Facade!Enable
    <2>2. UNCHANGED <<initialized, replaced>> /\ Facade!CallersTypeOK'
      BY <1>2, <1>6 DEF Facade!Enable
    <2>3. CASE manager' = "PERSISTING" /\ persistenceEnabled' = TRUE /\ connected' = TRUE
      BY <2>1, <2>2, <2>3 DEF Facade!TypeOK
    <2>4. CASE /\ manager # "NONE" => ~connected
               /\ manager' = (IF manager = "NONE" THEN "NONE" ELSE "PLAIN")
               /\ UNCHANGED <<persistenceEnabled, connected>>
      BY <2>1, <2>2, <2>4 DEF Facade!TypeOK
    <2> QED BY <1>6, <2>3, <2>4 DEF Facade!Enable
  <1>7. ASSUME NEW c \in Clients, Facade!DisablePersistence(c) PROVE FacadeInv'
    BY <1>1, <1>7 DEF Facade!DisablePersistence, Facade!Disconnected, Facade!TypeOK
  <1>8. ASSUME NEW c \in Clients, Facade!Shutdown(c) PROVE FacadeInv'
    BY <1>1, <1>8 DEF Facade!Shutdown, Facade!Disconnected, Facade!TypeOK
  <1>9. ASSUME NEW c \in Clients, Facade!TestManager(c) PROVE FacadeInv'
    BY <1>1, <1>9 DEF Facade!TestManager, Facade!TypeOK
  <1>10. ASSUME NEW c \in Clients, Facade!UseManager(c) PROVE FacadeInv'
    BY <1>2, <1>10 DEF Facade!UseManager, Facade!TypeOK
  <1>11. CASE UNCHANGED Facade!vars
    BY <1>2, <1>11 DEF Facade!vars, Facade!own, Facade!TypeOK
  <1> QED BY <1>3, <1>4, <1>5, <1>6, <1>7, <1>8, <1>9, <1>10, <1>11 DEF Facade!Next

LEMMA FacadeKeepsConnection == FacadeInv => Facade!ConnectionKept
  BY DEF FacadeInv, Facade!ConnectionKept, Facade!GetPersistence

\* The persistence that the facade gives out has an open connection, and only a second
\* initialize() leaves one open after shutdown().
THEOREM ConnectionIsKept == Facade!Spec => []Facade!ConnectionKept
  BY FacadeInit, FacadeStep, FacadeKeepsConnection, PTL DEF Facade!Spec

-----------------------------------------------------------------------------
(* The services side by side.  One of them acts; its invariant is kept by  *)
(* its steps, and the clock never goes back, whoever acts.                 *)

ServiceInv ==
  /\ part = "breaker"     => BreakerInv
  /\ part = "timeout"     => TimeoutInv
  /\ part = "branches"    => BranchesInv
  /\ part = "retry"       => RetryInv
  /\ part = "letters"     => LettersInv
  /\ part = "checkpoints" => CheckpointsInv
  /\ part = "alerts"      => AlertsInv
  /\ part = "database"    => DatabaseInv
  /\ part = "records"     => RecordsInv
  /\ part = "resources"   => ResourcesInv
  /\ part = "facade"      => FacadeInv

\* What a step is to the component that acts.
LEMMA BreakerActs == [Next]_vars /\ part = "breaker" => [Breaker!Next]_(Breaker!vars)
  BY DEF Next, Acts, vars, Breaker!vars, Breaker!own, breaker

LEMMA TimeoutActs == [Next]_vars /\ part = "timeout" => [Timeout!Next]_(Timeout!vars)
  BY DEF Next, Acts, vars, Timeout!vars, Timeout!own, Timeout!timer, Timeout!config,
         Timeout!past, timeout

LEMMA BranchesActs == [Next]_vars /\ part = "branches" => [Branches!Next]_(Branches!vars)
  BY DEF Next, Acts, vars, Branches!vars, Branches!own, Branches!object, Branches!run,
         Branches!outer, Branches!shape, condition

LEMMA RetryActs == [Next]_vars /\ part = "retry" => [Retry!Next]_(Retry!vars)
  BY DEF Next, Acts, vars, Retry!vars, Retry!own, retry

LEMMA LettersActs == [Next]_vars /\ part = "letters" => [Letters!Next]_(Letters!vars)
  BY DEF Next, Acts, vars, Letters!vars, Letters!own, Letters!config, letters

LEMMA CheckpointsActs ==
  [Next]_vars /\ part = "checkpoints" => [Checkpoints!Next]_(Checkpoints!vars)
  BY DEF Next, Acts, vars, Checkpoints!vars, Checkpoints!own, Checkpoints!lists,
         Checkpoints!config, saved

LEMMA AlertsActs == [Next]_vars /\ part = "alerts" => [Alerts!Next]_(Alerts!vars)
  BY DEF Next, Acts, vars, Alerts!vars, Alerts!own, alerts

LEMMA DatabaseActs == [Next]_vars /\ part = "database" => [Database!Next]_(Database!vars)
  BY DEF Next, Acts, vars, Database!vars, Database!own, database

LEMMA RecordsActs == [Next]_vars /\ part = "records" => [Records!Next]_(Records!vars)
  BY DEF Next, Acts, vars, Records!vars, Records!own, Records!traceVars, Records!metricVars,
         Records!statVars, records

LEMMA ResourcesActs == [Next]_vars /\ part = "resources" => [Resources!Next]_(Resources!vars)
  BY DEF Next, Acts, vars, Resources!vars, Resources!own, directory

LEMMA FacadeActs == [Next]_vars /\ part = "facade" => [Facade!Next]_(Facade!vars)
  BY DEF Next, Acts, vars, Facade!vars, Facade!own, Facade!state, facade

LEMMA ServiceInit == Init => ServiceInv
  BY BreakerInit, TimeoutInit, BranchesInit, RetryInit, LettersInit, CheckpointsInit,
     AlertsInit, DatabaseInit, RecordsInit, ResourcesInit, FacadeInit
  DEF Init, ServiceInv

LEMMA ServiceStep == ServiceInv /\ [Next]_vars => ServiceInv'
  <1> SUFFICES ASSUME ServiceInv, [Next]_vars PROVE ServiceInv'
    OBVIOUS
  <1>0. part' = part BY DEF Next, Acts, vars
  <1>1. part = "breaker" => BreakerInv' BY BreakerActs, BreakerStep DEF ServiceInv
  <1>2. part = "timeout" => TimeoutInv' BY TimeoutActs, TimeoutStep DEF ServiceInv
  <1>3. part = "branches" => BranchesInv' BY BranchesActs, BranchesStep DEF ServiceInv
  <1>4. part = "retry" => RetryInv' BY RetryActs, RetryStep DEF ServiceInv
  <1>5. part = "letters" => LettersInv' BY LettersActs, LettersStep DEF ServiceInv
  <1>6. part = "checkpoints" => CheckpointsInv'
    BY CheckpointsActs, CheckpointsStep DEF ServiceInv
  <1>7. part = "alerts" => AlertsInv' BY AlertsActs, AlertsStep DEF ServiceInv
  <1>8. part = "database" => DatabaseInv' BY DatabaseActs, DatabaseStep DEF ServiceInv
  <1>9. part = "records" => RecordsInv' BY RecordsActs, RecordsStep DEF ServiceInv
  <1>10. part = "resources" => ResourcesInv' BY ResourcesActs, ResourcesStep DEF ServiceInv
  <1>11. part = "facade" => FacadeInv' BY FacadeActs, FacadeStep DEF ServiceInv
  <1> QED BY <1>0, <1>1, <1>2, <1>3, <1>4, <1>5, <1>6, <1>7, <1>8, <1>9, <1>10, <1>11
          DEF ServiceInv

LEMMA ServiceHolds == Spec => []ServiceInv
  BY ServiceInit, ServiceStep, PTL DEF Spec

\* The variables of the component that acts have their types.
THEOREM ServicesTyped == Spec => []TypeOK
  <1>1. ServiceInv => TypeOK
    BY RecordsTyped, ResourcesLeakNothing
    DEF ServiceInv, TypeOK, BreakerInv, BreakerCountInv, TimeoutInv, BranchesInv, RetryInv,
        LettersInv, CheckpointsInv, AlertsInv, DatabaseInv, FacadeInv
  <1> QED BY <1>1, ServiceHolds, PTL

\* A store and its indices name the same things, after any calls in any order: the dead
\* letters and their queue, checkpoints and their lists, alerts and their history, traces
\* and the list of their workflow.
THEOREM StoresAgree == Spec => []IndicesAgree
  <1>1. ServiceInv => IndicesAgree
    BY CheckpointsListedHold, AlertsHistoryAgrees, RecordsTracesListed
    DEF ServiceInv, IndicesAgree, LettersInv
  <1> QED BY <1>1, ServiceHolds, PTL

\* Rows, executions, directories and the connection are accounted for at all times.
THEOREM NothingIsLost == Spec => []NothingLost
  <1>1. ServiceInv => NothingLost
    BY DatabaseSavedIsFound, RecordsRunsAccounted, ResourcesLeakNothing, FacadeKeepsConnection
    DEF ServiceInv, NothingLost
  <1> QED BY <1>1, ServiceHolds, PTL

\* What the services decide about a run is right when it takes effect.
THEOREM DecisionsAreRight == Spec => []DecisionsHold
  <1>1. ServiceInv => DecisionsHold
    BY BreakerViewsAgree, TimeoutStops, BranchesDecide, RetryDelays, RetryCountsBound
    DEF ServiceInv, DecisionsHold, RetryInv, LettersInv
  <1> QED BY <1>1, ServiceHolds, PTL

-----------------------------------------------------------------------------
(* What a limit costs, whoever acts.                                       *)

LEMMA LimitsKeepLetters ==
  ServiceInv /\ [Next]_vars => [LettersKeepsUnresolved]_(Letters!vars)
  <1> SUFFICES ASSUME ServiceInv, [Next]_vars PROVE LettersKeepsUnresolved
    OBVIOUS
  <1>1. CASE part = "letters"
    BY <1>1, LettersActs, LettersKeepsStep DEF ServiceInv, LettersInv
  <1>2. CASE part # "letters"
    <2>1. items' = items BY <1>2 DEF Next, Acts, vars, letters
    <2> QED BY <2>1 DEF LettersKeepsUnresolved, Letters!Present
  <1> QED BY <1>1, <1>2

LEMMA LimitsKeepCheckpoints ==
  ServiceInv /\ [Next]_vars => [part = "checkpoints" => Checkpoints!OldestGo]_vars
  BY CheckpointsKeepNewest DEF ServiceInv

\* A limit never drops an unresolved dead letter; and of the checkpoints of a workflow it
\* drops the oldest, as few as it must, and not the one that is being stored.
THEOREM LimitsAreFair == Spec => LimitsKeep
  <1>1. Spec => [][LettersKeepsUnresolved]_(Letters!vars)
    BY ServiceHolds, LimitsKeepLetters, PTL DEF Spec
  <1>2. Spec => [][part = "checkpoints" => Checkpoints!OldestGo]_vars
    BY ServiceHolds, LimitsKeepCheckpoints, PTL DEF Spec
  <1>3. Spec => Letters!UnresolvedKept
    BY <1>1 DEF Letters!UnresolvedKept, LettersKeepsUnresolved
  <1> QED BY <1>2, <1>3, PTL DEF LimitsKeep

-----------------------------------------------------------------------------
(* The refinement of the breaker, whoever acts: while another component    *)
(* does, the breaker stays closed and time passes.                         *)

ClockGoesOn == now' \in {now, now + 1}

LEMMA TimeoutClock == Timeout!Next => ClockGoesOn
  BY DEF ClockGoesOn, Timeout!Next, Timeout!Called, Timeout!Elapse, Timeout!Enters,
         Timeout!StartTimer, Timeout!StopTimer, Timeout!StopTimerJoins, Timeout!ResetTimer,
         Timeout!Destroy, Timeout!SetTimeout, Timeout!SetConfig, Timeout!ResetRetryCount,
         Timeout!MonitorGoes, Timeout!MonitorStops, Timeout!MonitorExpires,
         Timeout!MonitorWaits, Timeout!MonitorWakes, Timeout!MonitorCalledBack,
         Timeout!HandleTimeout, Timeout!Tick

LEMMA BranchesClock == Branches!Next => ClockGoesOn
  BY DEF ClockGoesOn, Branches!Next, Branches!Called, Branches!Enters, Branches!AddBranch,
         Branches!SetDefaultBranch, Branches!ClearBranches, Branches!Evaluate,
         Branches!StartBranch, Branches!Start, Branches!Execute, Branches!Interrupt,
         Branches!InterruptFlags, Branches!Finish, Branches!Cancel, Branches!Destroy,
         Branches!ExecutorBegins, Branches!ExecutorFinds, Branches!ExecutorStops,
         Branches!ExecutorInterrupted, Branches!ExecutorCompletes, Branches!BranchEnds

LEMMA RetryClock == Retry!Next => ClockGoesOn
  BY DEF ClockGoesOn, Retry!Next, Retry!Called, Retry!ShouldRetry, Retry!Reset,
         Retry!SetConfig

LEMMA LettersClock == Letters!Next => ClockGoesOn
  BY DEF ClockGoesOn, Letters!Next, Letters!Called, Letters!Elapse, Letters!Locks,
         Letters!Enqueue, Letters!EnqueueFresh, Letters!Retry, Letters!MarkForManualReview,
         Letters!Settle, Letters!RetryAll, Letters!ClearResolved, Letters!ClearExpired,
         Letters!ClearAll, Letters!SetConfig, Letters!Tick

LEMMA CheckpointsClock == Checkpoints!Next => ClockGoesOn
  BY DEF ClockGoesOn, Checkpoints!Next, Checkpoints!Called, Checkpoints!Elapse,
         Checkpoints!CreateCheckpoint, Checkpoints!ImportCheckpoint, Checkpoints!SetEntry,
         Checkpoints!RestoreCheckpoint, Checkpoints!UpdateCheckpoint,
         Checkpoints!DeleteCheckpoint, Checkpoints!DeleteCheckpointsByWorkflow,
         Checkpoints!RestoreLatestCheckpoint, Checkpoints!CleanupExpiredCheckpoints,
         Checkpoints!SetConfig, Checkpoints!Tick

LEMMA AlertsClock == Alerts!Next => ClockGoesOn
  BY DEF ClockGoesOn, Alerts!Next, Alerts!Called, Alerts!Elapse, Alerts!SetAlertRule,
         Alerts!RemoveAlertRule, Alerts!EnableAlertRule, Alerts!TriggerAlert,
         Alerts!ResolveAlert, Alerts!Tick

LEMMA DatabaseClock == Database!Next => ClockGoesOn
  BY DEF ClockGoesOn, Database!Next, Database!Called, Database!Elapse, Database!Initialize,
         Database!Close, Database!Refused, Database!Commit, Database!Insert,
         Database!SaveWorkflow, Database!DeleteWorkflow, Database!ClearAllWorkflows,
         Database!SaveWorkflowDefinition, Database!SaveVersion, Database!RollbackToVersion,
         Database!SetActiveVersion, Database!DeleteVersion, Database!DeleteAllVersions,
         Database!Checkpoint, Database!Crash, Database!PowerLoss, Database!Tick

LEMMA RecordsClock == Records!Next => ClockGoesOn
  BY DEF ClockGoesOn, Records!Next, Records!Called, Records!Elapse, Records!Tracing,
         Records!Measuring, Records!Observing, Records!StartTrace, Records!EndTrace,
         Records!RecordError, Records!ClearTraces, Records!SetMaxTraces,
         Records!RecordWorkflowStart, Records!RecordWorkflowEnd, Records!ClearMetrics,
         Records!OnWorkflowStarted, Records!OnWorkflowFinished,
         Records!OnWorkflowInterrupted, Records!OnWorkflowError, Records!ClearStats,
         Records!Tick

LEMMA ResourcesClock == Resources!Next => ClockGoesOn
  BY DEF ClockGoesOn, Resources!Next, Resources!Called, Resources!CreateDirectory,
         Resources!StartCleanup, Resources!CleanupAll, Resources!Cleanup,
         Resources!CleanupContext, Resources!ClientSteps, Resources!Register,
         Resources!LookUp, Resources!RemoveDirectory, Resources!EraseResource,
         Resources!CleanupEnds

LEMMA FacadeClock == Facade!Next => ClockGoesOn
  BY DEF ClockGoesOn, Facade!Next, Facade!Called, Facade!Locked, Facade!Begin, Facade!Lock,
         Facade!Return, Facade!Configure, Facade!Enable, Facade!DisablePersistence,
         Facade!Shutdown, Facade!TestManager, Facade!UseManager

\* The breaker that does not act stays as it was made, closed.
BreakerIdle == part \in Parts /\ (part # "breaker" => cbState = "CLOSED")

LEMMA BreakerIdleInit == Init => BreakerIdle
  BY DEF Init, BreakerIdle, Breaker!Init

LEMMA BreakerIdleStep == BreakerIdle /\ [Next]_vars => BreakerIdle'
  BY DEF BreakerIdle, Next, Acts, vars, breaker

LEMMA OthersKeepTheBreaker ==
  [Next]_vars /\ BreakerIdle /\ part # "breaker"
    => UNCHANGED <<cbState, tail, openTime, cbConfig>> /\ ClockGoesOn
  <1> SUFFICES ASSUME [Next]_vars, BreakerIdle, part # "breaker"
               PROVE  UNCHANGED <<cbState, tail, openTime, cbConfig>> /\ ClockGoesOn
    OBVIOUS
  <1>1. UNCHANGED <<cbState, tail, openTime, cbConfig>> BY DEF Next, Acts, vars, breaker
  <1>2. CASE UNCHANGED vars
    <2>1. now' = now BY <1>2 DEF vars
    <2> QED BY <1>1, <2>1 DEF ClockGoesOn
  <1>3. CASE Next
    <2>0. part \in Parts /\ Acts(part) BY <1>3 DEF Next, Acts
    <2> SUFFICES ClockGoesOn BY <1>1
    <2>1. CASE part = "timeout" BY <2>0, <2>1, TimeoutClock DEF Acts
    <2>2. CASE part = "branches" BY <2>0, <2>2, BranchesClock DEF Acts
    <2>3. CASE part = "retry" BY <2>0, <2>3, RetryClock DEF Acts
    <2>4. CASE part = "letters" BY <2>0, <2>4, LettersClock DEF Acts
    <2>5. CASE part = "checkpoints" BY <2>0, <2>5, CheckpointsClock DEF Acts
    <2>6. CASE part = "alerts" BY <2>0, <2>6, AlertsClock DEF Acts
    <2>7. CASE part = "database" BY <2>0, <2>7, DatabaseClock DEF Acts
    <2>8. CASE part = "records" BY <2>0, <2>8, RecordsClock DEF Acts
    <2>9. CASE part = "resources" BY <2>0, <2>9, ResourcesClock DEF Acts
    <2>10. CASE part = "facade" BY <2>0, <2>10, FacadeClock DEF Acts
    <2> QED BY <2>0, <2>1, <2>2, <2>3, <2>4, <2>5, <2>6, <2>7, <2>8, <2>9, <2>10 DEF Parts
  <1> QED BY <1>2, <1>3

ClockRuns == now \in Nat

LEMMA ServicesKeepPromise ==
  /\ ServiceInv /\ ServiceInv' /\ BreakerIdle /\ ClockRuns /\ [Next]_vars
  => [overlapped' \/ Breaker!Promise!Next]_<<cbState, tail, openTime, cbConfig, now>>
  <1> SUFFICES ASSUME ServiceInv, ServiceInv', BreakerIdle, ClockRuns, [Next]_vars
               PROVE  [overlapped' \/ Breaker!Promise!Next]_<<cbState, tail, openTime, cbConfig,
                                                              now>>
    OBVIOUS
  <1>1. CASE part = "breaker"
    <2>1. part' = part BY DEF Next, Acts, vars
    <2>2. BreakerInv /\ BreakerInv' BY <1>1, <2>1 DEF ServiceInv
    <2> QED BY <1>1, <2>2, BreakerActs, BreakerStepPromise
  <1>2. CASE part # "breaker"
    <2>1. UNCHANGED <<cbState, tail, openTime, cbConfig>> /\ ClockGoesOn /\ cbState = "CLOSED"
      BY <1>2, OthersKeepTheBreaker DEF BreakerIdle
    <2>2. Breaker!Mode = "CLOSED" /\ Breaker!Mode' = "CLOSED"
      BY <2>1 DEF Breaker!Mode, Breaker!Opening
    <2>3. now' >= now BY <2>1 DEF ClockGoesOn, ClockRuns
    <2>4. Breaker!AllowRequest' BY <2>1 DEF Breaker!AllowRequest
    <2>5. Breaker!Promise!PassesWhenDue' BY <2>2, <2>4 DEF Breaker!Promise!PassesWhenDue
    <2> QED BY <2>2, <2>3, <2>5 DEF Breaker!Promise!Next, Breaker!Promise!Environment
  <1> QED BY <1>1, <1>2

LEMMA ClockInit == Init => ClockRuns
  BY DEF Init, Breaker!Init, Breaker!CallersInit, ClockRuns

LEMMA ClockStep == ClockRuns /\ BreakerIdle /\ ServiceInv /\ [Next]_vars => ClockRuns'
  <1> SUFFICES ASSUME ClockRuns, BreakerIdle, ServiceInv, [Next]_vars PROVE now' \in Nat
    BY DEF ClockRuns
  <1>1. CASE part # "breaker"
    BY <1>1, OthersKeepTheBreaker DEF ClockGoesOn, ClockRuns
  <1>2. CASE part = "breaker"
    <2>1. BreakerInv' BY <1>2, BreakerActs, BreakerStep DEF ServiceInv
    <2> QED BY <2>1, CallersAssumption
            DEF BreakerInv, BreakerCountInv, Breaker!TypeOK, Breaker!CallersTypeOK
  <1> QED BY <1>1, <1>2

\* The circuit breaker does what BreakerPromise says, as long as nothing changes it during
\* another method's callback.
THEOREM BreakerIsImplemented == Spec => BreakerImplemented
  <1>1. Init => Breaker!Promise!Init BY BreakerInitPromise DEF Init
  <1>2. Spec => []ServiceInv BY ServiceHolds
  <1>3. Spec => []BreakerIdle BY BreakerIdleInit, BreakerIdleStep, PTL DEF Spec
  <1>4. Spec => []ClockRuns BY <1>2, <1>3, ClockInit, ClockStep, PTL DEF Spec
  <1> QED BY <1>1, <1>2, <1>3, <1>4, ServicesKeepPromise, PTL
          DEF Spec, BreakerImplemented, Breaker!BreakerImplemented

=============================================================================
