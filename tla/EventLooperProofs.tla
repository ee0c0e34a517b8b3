-------------------------- MODULE EventLooperProofs --------------------------
(***************************************************************************)
(* What holds of the timer service for every number of timers and every    *)
(* set of flags: its type invariant, that its list never holds more than   *)
(* one timer, that a listed timer owns its event, and that the looper      *)
(* implements TimerService.                                                *)
(***************************************************************************)
EXTENDS EventLooper, TimerListProofs

USE FlagsAssumption, MaxTimersAssumption

(* The list is empty or holds one timer that was handed out and whose      *)
(* event is not freed.                                                     *)
SingleSlot ==
  \/ m_timers = << >>
  \/ \E id \in Ids : /\ m_timers = <<id>>
                     /\ id < m_nextID
                     /\ event[id] \in {"pending", "inactive"}

(* Ids not yet handed out have no event.                                   *)
FreshIds == \A id \in Ids : id >= m_nextID => event[id] = "none"

(* The timer in its OnTimer has been handed out, and if it is one-shot its *)
(* event is no longer pending.                                             *)
FiringKnown ==
  dispatched \in Ids =>
     /\ event[dispatched] # "none"
     /\ m_flag[dispatched] = FIRE_ONCE => event[dispatched] # "pending"

IInv == TypeOK /\ SingleSlot /\ FreshIds /\ FiringKnown

-----------------------------------------------------------------------------
(* The two shapes of m_timers under the invariant, and what CancelTimer    *)
(* finds in each.                                                          *)
SlotFree == m_timers = << >> /\ \A other : ~ Listed(m_timers, other)
SlotHeldBy(id) ==
  /\ m_timers = <<id>>
  /\ id < m_nextID
  /\ event[id] \in {"pending", "inactive"}
  /\ \A other : Listed(m_timers, other) <=> other = id
  /\ EraseTimer(m_timers, id) = << >>

(* One of the two shapes is the present one.                               *)
LEMMA SlotLemma == SingleSlot => SlotFree \/ \E id \in Ids : SlotHeldBy(id)
<1>1. ASSUME m_timers = << >> PROVE SlotFree
  <2>1. \A other : ~ Listed(<< >>, other)
    BY SingletonLemma
  <2> QED
    BY <1>1, <2>1 DEF SlotFree
<1>2. ASSUME NEW id \in Ids, m_timers = <<id>>, id < m_nextID,
             event[id] \in {"pending", "inactive"}
      PROVE  SlotHeldBy(id)
  <2>1. id \in Nat
    BY DEF Ids
  <2>2. /\ \A other : Listed(<<id>>, other) <=> other = id
        /\ EraseTimer(<<id>>, id) = << >>
    BY <2>1, SingletonLemma
  <2> QED
    BY <1>2, <2>2 DEF SlotHeldBy
<1> QED
  BY <1>1, <1>2 DEF SingleSlot

-----------------------------------------------------------------------------
(* The looper starts with an empty list.                                   *)
LEMMA InitIInv == Init => IInv
BY DEF Init, IInv, TypeOK, SingleSlot, FreshIds, FiringKnown, EventStates,
       Ids, None, Aborted, FIRE_ONCE, FIRE_PERIODICALLY

(* A new timer takes the slot or is not listed at all.                     *)
LEMMA ScheduleTimerIInv ==
  ASSUME IInv, NEW flag \in Flags, ScheduleTimer(flag)
  PROVE  IInv'
<1> USE DEF Ids, None, Aborted, FIRE_ONCE, FIRE_PERIODICALLY
<1> DEFINE new == m_nextID
<1>1. /\ new \in Ids /\ m_nextID' = new + 1
      /\ m_flag' = [m_flag EXCEPT ![new] = flag]
      /\ event[new] = "none" /\ dispatched # new
      /\ UNCHANGED <<dispatched, cancelled>>
  BY DEF ScheduleTimer, GetNextID, IInv, TypeOK, FreshIds, FiringKnown
<1>2. CASE UNCHANGED <<event, m_timers>>
  BY <1>1, <1>2 DEF IInv, TypeOK, SingleSlot, FreshIds, FiringKnown
<1>3. CASE /\ event' = [event EXCEPT ![new] = "pending"]
           /\ m_timers' = InsertTimer(m_timers, new)
  <2>1. m_timers' = << >> \/ m_timers' = <<new>> \/ m_timers' = m_timers
    BY <1>1, <1>3, InsertLemma DEF IInv, SingleSlot
  <2>2. m_timers' = <<new>> \/ (m_timers' = m_timers /\ m_timers # << >>)
    BY <1>1, <1>3, InsertLemma DEF IInv, SingleSlot
  <2>3. TypeOK'
    <3>1. m_timers' \in Seq(Ids)
      <4>1. <<new>> \in Seq(Ids) /\ m_timers \in Seq(Ids)
        BY <1>1 DEF IInv, TypeOK
      <4> QED
        BY <2>2, <4>1
    <3>2. event' \in [Ids -> EventStates]
      BY <1>1, <1>3 DEF IInv, TypeOK, EventStates
    <3>3. m_nextID' \in 1..(MaxTimers + 1) /\ m_flag' \in [Ids -> {FIRE_ONCE, FIRE_PERIODICALLY}]
      BY <1>1 DEF IInv, TypeOK
    <3> QED
      BY <1>1, <3>1, <3>2, <3>3 DEF IInv, TypeOK
  <2>4. SingleSlot'
    <3>1. CASE m_timers' = <<new>>
      BY <1>1, <1>3, <3>1 DEF IInv, TypeOK, SingleSlot
    <3>2. CASE m_timers' = m_timers /\ m_timers # << >>
      BY <1>1, <1>3, <3>2 DEF IInv, TypeOK, SingleSlot
    <3> QED
      BY <2>2, <3>1, <3>2
  <2>5. FreshIds' /\ FiringKnown'
    BY <1>1, <1>3 DEF IInv, TypeOK, FreshIds, FiringKnown
  <2> QED
    BY <2>3, <2>4, <2>5 DEF IInv
<1> QED
  BY <1>2, <1>3 DEF ScheduleTimer

(* A cancelled timer leaves the list and its event is freed.               *)
LEMMA CancelTimerIInv ==
  ASSUME IInv, NEW tid \in Ids, CancelTimer(tid)
  PROVE  IInv'
<1> USE DEF Ids, None, Aborted, FIRE_ONCE, FIRE_PERIODICALLY
<1>1. CASE ~ Listed(m_timers, tid)
  BY <1>1 DEF CancelTimer, IInv, TypeOK, SingleSlot, FreshIds, FiringKnown
<1>2. CASE Listed(m_timers, tid)
  <2>1. SlotHeldBy(tid)
    BY <1>2, SlotLemma DEF IInv, SlotFree, SlotHeldBy
  <2>2. m_timers' = << >> /\ event' = [event EXCEPT ![tid] = "freed"]
    BY <1>2, <2>1 DEF CancelTimer, SlotHeldBy
  <2>3. TypeOK'
    <3>1. event' \in [Ids -> EventStates]
      BY <2>2 DEF IInv, TypeOK, EventStates
    <3> QED
      BY <2>2, <3>1 DEF CancelTimer, IInv, TypeOK
  <2>4. SingleSlot' /\ FreshIds' /\ FiringKnown'
    BY <2>1, <2>2
    DEF SlotHeldBy, CancelTimer, IInv, TypeOK, SingleSlot, FreshIds, FiringKnown
  <2> QED
    BY <2>3, <2>4 DEF IInv
<1> QED
  BY <1>1, <1>2

(* A timer that fires was handed out.                                      *)
LEMMA DispatchIInv ==
  ASSUME IInv, NEW id \in Ids, on_timeout(id)
  PROVE  IInv'
<1> USE DEF Ids, None, Aborted, FIRE_ONCE, FIRE_PERIODICALLY
<1>1. event' = event \/ event' = [event EXCEPT ![id] = "inactive"]
  BY DEF on_timeout
<1>2. TypeOK' /\ FreshIds' /\ FiringKnown'
  BY DEF on_timeout, IInv, TypeOK, FreshIds, FiringKnown, EventStates
<1>3. SingleSlot'
  BY <1>1 DEF on_timeout, IInv, TypeOK, SingleSlot
<1> QED
  BY <1>2, <1>3 DEF IInv

(* A one-shot timer leaves the list, or the process dies.                  *)
LEMMA OnTimeoutIInv ==
  ASSUME IInv, OnTimeout
  PROVE  IInv'
<1> USE DEF Ids, None, Aborted, FIRE_ONCE, FIRE_PERIODICALLY
<1>1. m_timers' = m_timers \/ m_timers' = << >>
  <2>1. CASE /\ m_timers' = EraseTimer(m_timers, dispatched)
             /\ Listed(m_timers, dispatched)
    BY <2>1, SlotLemma DEF IInv, SlotFree, SlotHeldBy
  <2> QED
    BY <2>1 DEF OnTimeout
<1>2. dispatched' \in {None, Aborted} /\ UNCHANGED <<m_nextID, m_flag, event, cancelled>>
  BY DEF OnTimeout
<1>3. m_timers' \in Seq(Ids)
  <2>1. << >> \in Seq(Ids)
    OBVIOUS
  <2> QED
    BY <1>1, <2>1 DEF IInv, TypeOK
<1>4. SingleSlot'
  <2>1. CASE m_timers' = << >>
    BY <2>1 DEF SingleSlot
  <2>2. CASE m_timers' = m_timers
    BY <1>2, <2>2 DEF IInv, SingleSlot
  <2> QED
    BY <1>1, <2>1, <2>2
<1> QED
  BY <1>2, <1>3, <1>4 DEF IInv, TypeOK, FreshIds, FiringKnown

(* Every step, and no step, keeps the invariant.                           *)
LEMMA NextIInv == IInv /\ [Next]_vars => IInv'
<1> SUFFICES ASSUME IInv, [Next]_vars PROVE IInv'
  OBVIOUS
<1>1. ASSUME NEW flag \in Flags, ScheduleTimer(flag) PROVE IInv'
  BY <1>1, ScheduleTimerIInv
<1>2. ASSUME NEW tid \in Ids, CancelTimer(tid) PROVE IInv'
  BY <1>2, CancelTimerIInv
<1>3. ASSUME NEW id \in Ids, on_timeout(id) PROVE IInv'
  BY <1>3, DispatchIInv
<1>4. CASE OnTimeout
  BY <1>4, OnTimeoutIInv
<1>5. CASE UNCHANGED vars
  BY <1>5 DEF vars, IInv, TypeOK, SingleSlot, FreshIds, FiringKnown
<1> QED
  BY <1>1, <1>2, <1>3, <1>4, <1>5 DEF Next

(* The inductive invariant holds of every behaviour of the looper.         *)
THEOREM Inductive == Spec => []IInv
BY InitIInv, NextIInv, PTL DEF Spec

(* Type correctness of the timer service (eventlooperimp.cpp:82-163).      *)
THEOREM TypeCorrect == Spec => []TypeOK
<1>1. IInv => TypeOK
  BY DEF IInv
<1> QED
  BY <1>1, Inductive, PTL

(* m_timers never holds two timers, however many are scheduled: every      *)
(* timer scheduled while another is listed is out of CancelTimer's reach   *)
(* (eventlooperimp.cpp:110-117).                                           *)
THEOREM AtMostOneCancellable == Spec => []OneCancellableTimer
<1>1. IInv => OneCancellableTimer
  <2>1. Len(<< >>) = 0 /\ \A id \in Ids : Len(<<id>>) = 1
    OBVIOUS
  <2>2. m_timers = << >> => Len(m_timers) <= 1
    BY <2>1
  <2>3. ASSUME NEW id \in Ids, m_timers = <<id>> PROVE Len(m_timers) <= 1
    BY <2>1, <2>3
  <2> QED
    BY <2>2, <2>3 DEF IInv, SingleSlot, OneCancellableTimer
<1> QED
  BY <1>1, Inductive, PTL

(* What CancelTimer finds still owns its event, so no event is freed twice *)
(* (eventlooperimp.cpp:140-145).                                           *)
THEOREM CancelFindsLiveEvent == Spec => []ListedOwnsItsEvent
<1>1. IInv => ListedOwnsItsEvent
  <2> SUFFICES ASSUME IInv, NEW id \in Ids, Listed(m_timers, id)
               PROVE  event[id] \in {"pending", "inactive"}
    BY DEF ListedOwnsItsEvent, Cancellable
  <2> QED
    BY SlotLemma DEF IInv, SlotFree, SlotHeldBy
<1> QED
  BY <1>1, Inductive, PTL

(* A step that leaves a timer in the list leaves its flag alone, and only  *)
(* its own dispatch takes its event out.                                   *)
LEMMA NoDeadKept == IInv /\ NoDeadOneShotListed /\ [Next]_vars => NoDeadOneShotListed'
<1> SUFFICES ASSUME IInv, NoDeadOneShotListed, [Next]_vars,
                    NEW id \in Ids, Listed(m_timers', id), event'[id] = "inactive"
             PROVE  m_flag'[id] = FIRE_ONCE /\ dispatched' = id
  BY DEF NoDeadOneShotListed, Cancellable
<1>1. ASSUME Listed(m_timers, id), event[id] = "inactive"
      PROVE  m_flag[id] = FIRE_ONCE /\ dispatched = id
  BY <1>1 DEF NoDeadOneShotListed, Cancellable
<1>2. ASSUME NEW flag \in Flags, ScheduleTimer(flag)
      PROVE  m_flag'[id] = FIRE_ONCE /\ dispatched' = id
  <2>1. m_nextID \in Ids /\ event[m_nextID] = "none"
    BY <1>2 DEF ScheduleTimer, IInv, TypeOK, FreshIds, Ids
  <2>2. id # m_nextID /\ event[id] = "inactive"
    BY <1>2, <2>1 DEF ScheduleTimer, IInv, TypeOK
  <2>3. m_flag'[id] = m_flag[id] /\ dispatched' = dispatched
    BY <1>2, <2>2 DEF ScheduleTimer, IInv, TypeOK
  <2>4. Listed(m_timers, id)
    <3>1. CASE UNCHANGED m_timers
      BY <3>1
    <3>2. CASE m_timers' = InsertTimer(m_timers, m_nextID)
      <4>1. m_timers' = <<m_nextID>> \/ m_timers' = m_timers
        BY <2>1, <3>2, InsertLemma DEF IInv, SingleSlot, Ids
      <4>2. m_timers' # <<m_nextID>>
        BY <2>1, <2>2, SingletonLemma DEF Ids
      <4> QED
        BY <4>1, <4>2
    <3> QED
      BY <1>2, <3>1, <3>2 DEF ScheduleTimer
  <2> QED
    BY <1>1, <2>2, <2>3, <2>4
<1>3. ASSUME NEW tid \in Ids, CancelTimer(tid)
      PROVE  m_flag'[id] = FIRE_ONCE /\ dispatched' = id
  <2>1. CASE ~ Listed(m_timers, tid)
    BY <1>1, <1>3, <2>1 DEF CancelTimer
  <2>2. CASE Listed(m_timers, tid)
    <3>1. SlotHeldBy(tid)
      BY <2>2, SlotLemma DEF IInv, SlotFree, SlotHeldBy
    <3>2. m_timers' = << >>
      BY <1>3, <2>2, <3>1 DEF CancelTimer, SlotHeldBy
    <3> QED
      BY <3>2, SingletonLemma
  <2> QED
    BY <2>1, <2>2
<1>4. ASSUME NEW other \in Ids, on_timeout(other)
      PROVE  m_flag'[id] = FIRE_ONCE /\ dispatched' = id
  <2>1. Listed(m_timers, id) /\ dispatched = None /\ dispatched' = other
        /\ m_flag' = m_flag
    BY <1>4 DEF on_timeout
  <2>2. event[id] # "inactive"
    BY <1>1, <2>1 DEF None, Ids
  <2>3. id = other /\ m_flag[id] # FIRE_PERIODICALLY
    BY <1>4, <2>2 DEF on_timeout, IInv, TypeOK
  <2> QED
    BY <2>1, <2>3 DEF IInv, TypeOK
<1>5. CASE OnTimeout
  <2>1. event[id] = "inactive" /\ m_flag' = m_flag /\ dispatched \in Ids
    BY <1>5 DEF OnTimeout
  <2>2. CASE Listed(m_timers, dispatched) /\ m_timers' = EraseTimer(m_timers, dispatched)
    <3>1. SlotHeldBy(dispatched)
      BY <2>1, <2>2, SlotLemma DEF IInv, SlotFree, SlotHeldBy
    <3>2. m_timers' = << >>
      BY <2>2, <3>1 DEF SlotHeldBy
    <3> QED
      BY <3>2, SingletonLemma
  <2>3. CASE UNCHANGED m_timers
    <3>1. Listed(m_timers, id)
      BY <2>3
    <3>2. m_flag[id] = FIRE_ONCE /\ dispatched = id
      BY <1>1, <2>1, <3>1
    <3>3. m_timers' = EraseTimer(m_timers, dispatched)
      BY <1>5, <3>1, <3>2 DEF OnTimeout
    <3> QED
      BY <2>2, <3>1, <3>2, <3>3
  <2> QED
    BY <1>5, <2>2, <2>3 DEF OnTimeout
<1>6. CASE UNCHANGED vars
  BY <1>1, <1>6 DEF vars
<1> QED
  BY <1>2, <1>3, <1>4, <1>5, <1>6 DEF Next

(* No one-shot timer that has fired stays in the list behind its OnTimer   *)
(* (eventlooperimp.cpp:154-156).                                           *)
THEOREM NoDeadListed == Spec => []NoDeadOneShotListed
<1>1. Init => NoDeadOneShotListed
  BY DEF Init, NoDeadOneShotListed, Cancellable
<1> QED
  BY <1>1, NoDeadKept, Inductive, PTL DEF Spec

-----------------------------------------------------------------------------
(* Who can be cancelled, in both shapes of the list.                       *)
LEMMA SlotCancellable ==
  /\ SlotFree => Cancellable = {}
  /\ \A id \in Ids : SlotHeldBy(id) => Cancellable = {id}
BY DEF SlotFree, SlotHeldBy, Cancellable

(* A successful ScheduleTimer is a Schedule of the service.                *)
LEMMA ScheduleSimulated ==
  ASSUME IInv, IInv', NEW flag \in Flags, ScheduleTimer(flag)
  PROVE  [Service!Next]_Service!vars
<1> DEFINE new == m_nextID
<1>1. new \in Ids /\ new \in Nat /\ event[new] = "none" /\ UNCHANGED dispatched
  BY DEF ScheduleTimer, IInv, TypeOK, FreshIds, Ids
<1>2. CASE UNCHANGED <<event, m_timers>>
  BY <1>1, <1>2 DEF Service!vars, Live, Cancellable
<1>3. CASE /\ event' = [event EXCEPT ![new] = "pending"]
           /\ m_timers' = InsertTimer(m_timers, new)
  <2>1. Live' = Live \cup {new}
    BY <1>1, <1>3 DEF Live, IInv, TypeOK
  <2>2. \A other \in Live : other < new
    BY <1>1 DEF Live, IInv, TypeOK, FreshIds, Ids
  <2>3. CASE SlotFree
    <3>1. m_timers' = <<new>>
      BY <1>1, <1>3, <2>3, InsertLemma DEF SlotFree
    <3>2. Cancellable' = {new} /\ Cancellable = {}
      <4>1. \A other : Listed(<<new>>, other) <=> other = new
        BY <1>1, SingletonLemma
      <4> QED
        BY <1>1, <2>3, <3>1, <4>1, SlotCancellable DEF Cancellable
    <3>3. Service!Schedule(new)
      BY <1>1, <2>1, <2>2, <3>2 DEF Service!Schedule
    <3> QED
      BY <1>1, <3>3 DEF Service!Next, Service!Ids, Ids
  <2>4. ASSUME NEW id \in Ids, SlotHeldBy(id)
        PROVE  Service!Schedule(new)
    <3>1. m_timers' = m_timers /\ id < new
      BY <1>1, <1>3, <2>4, InsertLemma DEF SlotHeldBy, Ids
    <3>2. Cancellable' = {id} /\ Cancellable = {id}
      BY <2>4, <3>1, SlotCancellable DEF Cancellable
    <3> QED
      BY <1>1, <2>1, <2>2, <3>1, <3>2 DEF Service!Schedule
  <2> QED
    BY <1>1, <2>3, <2>4, SlotLemma DEF IInv, Service!Next, Service!Ids, Ids
<1> QED
  BY <1>2, <1>3 DEF ScheduleTimer

(* CancelTimer is a Cancel of the slot's holder, or nothing.               *)
LEMMA CancelSimulated ==
  ASSUME IInv, NEW tid \in Ids, CancelTimer(tid)
  PROVE  [Service!Next]_Service!vars
<1>1. CASE ~ Listed(m_timers, tid)
  BY <1>1 DEF CancelTimer, Service!vars, Live, Cancellable
<1>2. CASE Listed(m_timers, tid)
  <2>1. SlotHeldBy(tid)
    BY <1>2, SlotLemma DEF IInv, SlotFree, SlotHeldBy
  <2>2. m_timers' = << >> /\ event' = [event EXCEPT ![tid] = "freed"]
    BY <1>2, <2>1 DEF CancelTimer, SlotHeldBy
  <2>3. Cancellable = {tid} /\ Cancellable' = {}
    BY <2>1, <2>2, SlotCancellable, SingletonLemma DEF Cancellable
  <2>4. Live' = Live \ {tid}
    BY <2>2 DEF Live, IInv, TypeOK
  <2>5. Service!Cancel(tid)
    BY <2>3, <2>4 DEF CancelTimer, Service!Cancel
  <2> QED
    BY <2>5 DEF Service!Next, Service!Ids, Ids
<1> QED
  BY <1>1, <1>2

(* A dispatch is a Fire of a live timer.                                   *)
LEMMA DispatchSimulated ==
  ASSUME IInv, NEW id \in Ids, on_timeout(id)
  PROVE  [Service!Next]_Service!vars
<1>1. Live' = Live \/ Live' = Live \ {id}
  BY DEF on_timeout, Live, IInv, TypeOK
<1>2. Cancellable' = Cancellable /\ id \in Live /\ dispatched = 0 /\ dispatched' = id
  BY DEF on_timeout, Live, Cancellable, None
<1>3. Service!Fire(id)
  BY <1>1, <1>2 DEF Service!Fire
<1> QED
  BY <1>3 DEF Service!Next, Service!Ids, Ids

(* The end of a dispatch is a Return of the service.                       *)
LEMMA OnTimeoutSimulated ==
  ASSUME IInv, OnTimeout
  PROVE  [Service!Next]_Service!vars
<1>1. /\ dispatched # 0 /\ dispatched' \in {0, MaxTimers + 1}
      /\ Live' = Live
  BY DEF OnTimeout, Ids, Live, None, Aborted
<1>2. CASE UNCHANGED m_timers
  BY <1>1, <1>2 DEF Service!Next, Service!Return, Cancellable
<1>3. CASE /\ m_flag[dispatched] = FIRE_ONCE
           /\ Listed(m_timers, dispatched)
           /\ m_timers' = EraseTimer(m_timers, dispatched)
  <2>1. SlotHeldBy(dispatched) /\ dispatched \in Ids
    BY <1>3, SlotLemma DEF IInv, SlotFree, SlotHeldBy, OnTimeout
  <2>2. Cancellable = {dispatched} /\ Cancellable' = {}
    <3>1. m_timers' = << >>
      BY <1>3, <2>1 DEF SlotHeldBy
    <3> QED
      BY <2>1, <3>1, SlotCancellable, SingletonLemma DEF Cancellable
  <2>3. dispatched \notin Live
    BY <1>3, <2>1 DEF IInv, FiringKnown, Live
  <2> QED
    BY <1>1, <2>2, <2>3 DEF Service!Next, Service!Return
<1> QED
  BY <1>2, <1>3 DEF OnTimeout

(* The looper implements the timer service with one cancellable timer:     *)
(* nothing fires that is not live, cancelling the slot holder kills it at  *)
(* once, and nobody else can be cancelled (eventlooperimp.cpp:82-158).     *)
THEOREM Refinement == Spec => ImplementsTimerService
<1>1. Init => Service!Init
  BY SingletonLemma DEF Init, Service!Init, Live, Cancellable, None, Listed
<1>2. IInv /\ IInv' /\ [Next]_vars => [Service!Next]_Service!vars
  <2> SUFFICES ASSUME IInv, IInv', [Next]_vars
               PROVE  [Service!Next]_Service!vars
    OBVIOUS
  <2>1. ASSUME NEW flag \in Flags, ScheduleTimer(flag)
        PROVE  [Service!Next]_Service!vars
    BY <2>1, ScheduleSimulated
  <2>2. ASSUME NEW tid \in Ids, CancelTimer(tid)
        PROVE  [Service!Next]_Service!vars
    BY <2>2, CancelSimulated
  <2>3. ASSUME NEW id \in Ids, on_timeout(id)
        PROVE  [Service!Next]_Service!vars
    BY <2>3, DispatchSimulated
  <2>4. CASE OnTimeout
    BY <2>4, OnTimeoutSimulated
  <2>5. CASE UNCHANGED vars
    BY <2>5 DEF vars, Service!vars, Live, Cancellable
  <2> QED
    BY <2>1, <2>2, <2>3, <2>4, <2>5 DEF Next
<1> QED
  BY <1>1, <1>2, Inductive, PTL DEF Spec, ImplementsTimerService, Service!Spec
=============================================================================
