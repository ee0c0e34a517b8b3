----------------------------- MODULE EventLooper -----------------------------
(***************************************************************************)
(* The timer service of the hub (Communication/eventlooperimp.cpp): ids,   *)
(* the list of cancellable timers and the libevent events behind them.     *)
(*                                                                         *)
(* The program is one thread.  Code outside a callback (a frame handler, a *)
(* constructor) and the OnTimer of the timer being dispatched may both     *)
(* schedule and cancel timers, so an action here is one call, and a        *)
(* dispatch is two: its start (libevent calls on_timeout, which enters     *)
(* ITimerUserSink::OnTimer) and its end (OnTimer returns to OnTimeout).    *)
(***************************************************************************)
EXTENDS TimerList, FiniteSets

CONSTANTS Flags,      \* the TimerFlag values callers pass
          MaxTimers   \* bound on the ids handed out

FIRE_ONCE == "TF_FIRE_ONCE"
FIRE_PERIODICALLY == "TF_FIRE_PERIODICALLY"

ASSUME FlagsAssumption == Flags \subseteq {FIRE_ONCE, FIRE_PERIODICALLY}
ASSUME MaxTimersAssumption == MaxTimers \in Nat

Ids == 1..MaxTimers
None == 0                   \* no timer is being dispatched
Aborted == MaxTimers + 1    \* the process has died in OnTimeout

VARIABLES
  m_timers,     \* the list CancelTimer searches
  m_nextID,
  m_flag,       \* TimerElement::m_flag of every element
  event,        \* "none", "pending", "inactive" or "freed"
  dispatched,   \* the id whose OnTimer is running, None or Aborted
  cancelled     \* the ids CancelTimer was called with (history)

vars == <<m_timers, m_nextID, m_flag, event, dispatched, cancelled>>

EventStates == {"none", "pending", "inactive", "freed"}

TypeOK ==
  /\ m_timers \in Seq(Ids)
  /\ m_nextID \in 1..(MaxTimers + 1)
  /\ m_flag \in [Ids -> {FIRE_ONCE, FIRE_PERIODICALLY}]
  /\ event \in [Ids -> EventStates]
  /\ dispatched \in Ids \cup {None, Aborted}
  /\ cancelled \in SUBSET Ids

Init ==
  /\ m_timers = << >>
  /\ m_nextID = 1
  /\ m_flag = [id \in Ids |-> FIRE_PERIODICALLY]
  /\ event = [id \in Ids |-> "none"]
  /\ dispatched = None
  /\ cancelled = {}

Running == dispatched # Aborted

(* Mutant of GetNextID: two ids are skipped at every call.                 *)
GetNextID_Mut == m_nextID' = m_nextID + 3

(* GetNextID: the id is spent even when the call fails afterwards.         *)
GetNextID == m_nextID' = m_nextID + 1

(* ScheduleTimer with both pointers given.  event_new may fail (the        *)
(* element is deleted) and so may event_add (it is leaked): the caller     *)
(* gets -1 and nothing is listed.  Otherwise the event is pending and the  *)
(* element goes through the insertion loop.                                *)
ScheduleTimer(flag) ==
  /\ Running
  /\ m_nextID <= MaxTimers
  /\ GetNextID
  /\ m_flag' = [m_flag EXCEPT ![m_nextID] = flag]
  /\ \/ /\ event' = [event EXCEPT ![m_nextID] = "pending"]
        /\ m_timers' = InsertTimer(m_timers, m_nextID)
     \/ UNCHANGED <<event, m_timers>>
  /\ UNCHANGED <<dispatched, cancelled>>

(* Mutants of CancelTimer: the event is freed but stays listed; the timer  *)
(* is erased from the list but its event is not deleted.                   *)
CancelTimer_MutKeepListed(tid) ==
  /\ Running
  /\ tid < m_nextID
  /\ cancelled' = cancelled \cup {tid}
  /\ event' = IF Listed(m_timers, tid) THEN [event EXCEPT ![tid] = "freed"] ELSE event
  /\ UNCHANGED <<m_timers, m_nextID, m_flag, dispatched>>
CancelTimer_MutKeepEvent(tid) ==
  /\ Running
  /\ tid < m_nextID
  /\ cancelled' = cancelled \cup {tid}
  /\ m_timers' = EraseTimer(m_timers, tid)
  /\ UNCHANGED <<event, m_nextID, m_flag, dispatched>>

(* CancelTimer with an id that was handed out: only a listed timer is      *)
(* deleted, freed and erased; for any other id the call does nothing.      *)
CancelTimer(tid) ==
  /\ Running
  /\ tid < m_nextID
  /\ cancelled' = cancelled \cup {tid}
  /\ IF Listed(m_timers, tid)
     THEN /\ event' = [event EXCEPT ![tid] = "freed"]
          /\ m_timers' = EraseTimer(m_timers, tid)
     ELSE UNCHANGED <<event, m_timers>>
  /\ UNCHANGED <<m_nextID, m_flag, dispatched>>

(* libevent runs the callback of a pending event: a persistent event stays *)
(* pending, any other is taken out first.  on_timeout calls OnTimeout,     *)
(* which calls the sink.                                                   *)
on_timeout(id) ==
  /\ dispatched = None
  /\ event[id] = "pending"
  /\ dispatched' = id
  /\ event' = IF m_flag[id] = FIRE_PERIODICALLY THEN event
              ELSE [event EXCEPT ![id] = "inactive"]
  /\ UNCHANGED <<m_timers, m_nextID, m_flag, cancelled>>

(* Mutant of OnTimeout: the one-shot element is left in the list.          *)
OnTimeout_Mut ==
  /\ dispatched \in Ids
  /\ dispatched' = None
  /\ UNCHANGED <<m_timers, m_nextID, m_flag, event, cancelled>>

(* The sink's OnTimer has returned.  A one-shot element is erased at the   *)
(* position std::find returns; when it is not in the list that is end(),   *)
(* whose erasure frees the list's own header inside the static looper and  *)
(* aborts the process.                                                     *)
OnTimeout ==
  /\ dispatched \in Ids
  /\ IF m_flag[dispatched] = FIRE_ONCE
     THEN IF Listed(m_timers, dispatched)
          THEN /\ m_timers' = EraseTimer(m_timers, dispatched)
               /\ dispatched' = None
          ELSE /\ dispatched' = Aborted
               /\ UNCHANGED m_timers
     ELSE /\ dispatched' = None
          /\ UNCHANGED m_timers
  /\ UNCHANGED <<m_nextID, m_flag, event, cancelled>>

Next ==
  \/ \E flag \in Flags : ScheduleTimer(flag)
  \/ \E tid \in Ids : CancelTimer(tid)
  \/ \E id \in Ids : on_timeout(id)
  \/ OnTimeout

Spec == Init /\ [][Next]_vars

-----------------------------------------------------------------------------
Live == {id \in Ids : event[id] = "pending"}
Cancellable == {id \in Ids : Listed(m_timers, id)}

(* Whatever CancelTimer finds in the list still owns its event: cancelling *)
(* or dispatching in any order never leaves a listed element whose event   *)
(* was freed, so event_del and event_free are never called twice           *)
(* (eventlooperimp.cpp:143-144).                                           *)
ListedOwnsItsEvent == \A id \in Cancellable : event[id] \in {"pending", "inactive"}

(* m_timers never holds two timers: ids ascend, so the loop of             *)
(* ScheduleTimer never finds an element to insert in front of, and a timer *)
(* scheduled while another is listed can never be cancelled                *)
(* (eventlooperimp.cpp:110-117).                                           *)
OneCancellableTimer == Len(m_timers) <= 1

(* A one-shot timer that is still listed is either yet to fire or in its   *)
(* OnTimer: once OnTimeout is over it is gone from the list, so the list   *)
(* holds no dead one-shot timers (eventlooperimp.cpp:154-156).             *)
NoDeadOneShotListed ==
  \A id \in Cancellable :
     event[id] = "inactive" => m_flag[id] = FIRE_ONCE /\ dispatched = id

(* What the callers take CancelTimer to do (test.cpp:141-143 cancels its   *)
(* sending timer when the connection is gone): after it, the timer's       *)
(* OnTimer is not called again.                                            *)
CancelledNeverFires ==
  [][\A id \in Ids : on_timeout(id) => id \notin cancelled]_vars

-----------------------------------------------------------------------------
(* The service the looper gives, as its callers could rely on it.          *)
Service == INSTANCE TimerService
             WITH live <- Live,
                  cancellable <- Cancellable,
                  firing <- dispatched
(* Every behaviour of the looper is one of the timer service with a single *)
(* cancellable timer: a timer fires only while live, a cancelled slot      *)
(* holder dies at once, and the slot is given away only when it is free    *)
(* (eventlooperimp.cpp:82-158).                                            *)
ImplementsTimerService == Service!Spec
=============================================================================
