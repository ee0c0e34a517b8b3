---------------------------- MODULE ElecBalance ----------------------------
(***************************************************************************)
(* Electronic balances (equipment/ElecBalance.cpp, equipment.cpp), the     *)
(* polling of an unsteady balance, and the Tasks that wait for them        *)
(* (transcation/task.cpp).  All balances share the one variable            *)
(* m_balanceClTimer, and every Task that times out resets it.              *)
(*                                                                         *)
(* Every balance has a transcation and a client of its own.  One thread    *)
(* runs everything, and an action is a whole callback.                     *)
(***************************************************************************)
EXTENDS TimerList, Integers

CONSTANTS
  Balances,
  Late,        \* balances that may take longer than the polling cycle, or
               \* than the timeout, to answer
  MaxQueries,  \* bound on the unanswered queries of a balance
  MaxTimers    \* bound on the timers scheduled

ASSUME LateAssumption == Late \subseteq Balances
ASSUME BoundsAssumption == MaxQueries \in Nat /\ MaxTimers \in Nat

OtherTimer == 0           \* the long-lived timer of another component
NoTimer == -1

VARIABLES
  m_balanceClTimer,   \* the timer whose OnTimer queries a balance
  m_responseTimeout,  \* of the Task of each balance's client
  m_timers,     \* the looper's list
  sink,         \* the balance each timer was scheduled for
  live,         \* timers that fire
  busy,         \* balances whose client's Task waits for a result
  queries,      \* queries each balance has not answered
  unsteady,     \* busy balances whose last answer was unsteady
  alone         \* balances such that no other balance's callback, and no other
                \* Task's timeout, has written m_balanceClTimer so far

vars == <<m_balanceClTimer, m_responseTimeout, m_timers, sink, live, busy,
          queries, unsteady, alone>>

TypeOK ==
  /\ m_balanceClTimer \in Nat \cup {NoTimer}
  /\ m_responseTimeout \in [Balances -> Nat \cup {NoTimer}]
  /\ m_timers \in Seq(Nat)
  /\ sink \in Seq(Balances)
  /\ live \in SUBSET DOMAIN sink
  /\ busy \in SUBSET Balances
  /\ queries \in [Balances -> 0..MaxQueries]
  /\ unsteady \in SUBSET busy
  /\ alone \in SUBSET Balances

(* Another component's timer may already be in the list, and stays.        *)
Init ==
  /\ m_balanceClTimer = NoTimer
  /\ m_responseTimeout = [b \in Balances |-> NoTimer]
  /\ m_timers \in {<< >>, <<OtherTimer>>}
  /\ sink = << >>
  /\ live = {}
  /\ busy = {}
  /\ queries = [b \in Balances |-> 0]
  /\ unsteady = {}
  /\ alone = Balances

m_nextID == Len(sink) + 1

(* Mutant of ScheduleTimer: the event carries the id before.               *)
ScheduleTimer_Mut(b) ==
  /\ m_nextID <= MaxTimers
  /\ m_timers' = InsertTimer(m_timers, m_nextID)
  /\ sink' = Append(sink, b)
  /\ live' = live \cup {m_nextID - 1}

(* ScheduleTimer of a periodic timer for balance b.                        *)
ScheduleTimer(b) ==
  /\ m_nextID <= MaxTimers
  /\ m_timers' = InsertTimer(m_timers, m_nextID)
  /\ sink' = Append(sink, b)
  /\ live' = live \cup {m_nextID}

(* CancelTimer of one or of two timers: only the listed ones stop.         *)
Stopped(ids) == live' = {id \in live : ~(id \in ids /\ Listed(m_timers, id))}

CancelTimer(id) ==
  /\ m_timers' = EraseTimer(m_timers, id)
  /\ Stopped({id})

CancelTimers(first, second) ==
  /\ m_timers' = EraseTimer(EraseTimer(m_timers, first), second)
  /\ Stopped({first, second})

WriteQuery(b) ==
  /\ queries[b] < MaxQueries
  /\ queries' = [queries EXCEPT ![b] = @ + 1]

-----------------------------------------------------------------------------
(* TranscationBalance: BalanceCl of a free client starts the response      *)
(* timer and queries the balance.                                          *)
BalanceCl(b) ==
  /\ b \notin busy
  /\ ScheduleTimer(b)
  /\ m_responseTimeout' = [m_responseTimeout EXCEPT ![b] = m_nextID]
  /\ WriteQuery(b)
  /\ busy' = busy \cup {b}
  /\ UNCHANGED <<m_balanceClTimer, unsteady, alone>>

(* BalanceQp of a free client is replied to at once: the response timer is *)
(* started and stopped, which a list with another timer in it prevents.    *)
BalanceQp(b) ==
  LET inserted == InsertTimer(m_timers, m_nextID) IN
  /\ b \notin busy
  /\ m_nextID <= MaxTimers
  /\ sink' = Append(sink, b)
  /\ m_responseTimeout' = [m_responseTimeout EXCEPT ![b] = m_nextID]
  /\ m_timers' = EraseTimer(inserted, m_nextID)
  /\ live' = IF Listed(inserted, m_nextID) THEN live ELSE live \cup {m_nextID}
  /\ UNCHANGED <<m_balanceClTimer, busy, queries, unsteady, alone>>

(* A balance answers a query.  A read may hold a piece of the answer only: *)
(* the first piece is taken for an answer of some kind and the others for  *)
(* noise.                                                                  *)
Answered(b) ==
  /\ queries[b] > 0
  /\ queries' = [queries EXCEPT ![b] = @ - 1]

(* An answer that does not begin with K: the error text is no JSON and is  *)
(* dropped by the transcation.                                             *)
OnNoise(b) ==
  /\ Answered(b)
  /\ unsteady' = unsteady \ {b}
  /\ UNCHANGED <<m_balanceClTimer, m_responseTimeout, m_timers, sink, live,
                 busy, alone>>

(* Mutant of OnUnsteady: no timer is ever scheduled.                       *)
OnUnsteady_Mut(b) ==
  /\ Answered(b)
  /\ unsteady' = unsteady \cup ({b} \cap busy)
  /\ alone' = alone \cap {b}
  /\ UNCHANGED <<m_balanceClTimer, m_timers, sink, live, m_responseTimeout, busy>>

(* K*: the balance is polled from now on, unless m_balanceClTimer is set.  *)
OnUnsteady(b) ==
  /\ Answered(b)
  /\ IF m_balanceClTimer = NoTimer
     THEN /\ ScheduleTimer(b)
          /\ m_balanceClTimer' = m_nextID
     ELSE UNCHANGED <<m_balanceClTimer, m_timers, sink, live>>
  /\ unsteady' = unsteady \cup ({b} \cap busy)
  /\ alone' = alone \cap {b}
  /\ UNCHANGED <<m_responseTimeout, busy>>

(* Mutant of OnSteady: the polling goes on.                                *)
OnSteady_Mut(b) ==
  /\ Answered(b)
  /\ CancelTimer(m_responseTimeout[b])
  /\ busy' = busy \ {b}
  /\ unsteady' = unsteady \ {b}
  /\ alone' = alone \cap {b}
  /\ UNCHANGED <<m_balanceClTimer, m_responseTimeout, sink>>

(* K and a blank and a well-formed value: polling ends and the Task gets   *)
(* its result, with which it stops its response timer.                     *)
OnSteady(b) ==
  /\ Answered(b)
  /\ CancelTimers(m_balanceClTimer, m_responseTimeout[b])
  /\ m_balanceClTimer' = NoTimer
  /\ busy' = busy \ {b}
  /\ unsteady' = unsteady \ {b}
  /\ alone' = alone \cap {b}
  /\ UNCHANGED <<m_responseTimeout, sink>>

(* K and anything else, or a wrong sign: polling ends, the error text is   *)
(* dropped and the Task is left to its timeout.                            *)
OnBadData(b) ==
  /\ Answered(b)
  /\ CancelTimer(m_balanceClTimer)
  /\ m_balanceClTimer' = NoTimer
  /\ unsteady' = unsteady \ {b}
  /\ alone' = alone \cap {b}
  /\ UNCHANGED <<m_responseTimeout, sink, busy>>

(* A query that is never answered.                                         *)
LoseQuery(b) ==
  /\ Answered(b)
  /\ UNCHANGED <<m_balanceClTimer, m_responseTimeout, m_timers, sink, live,
                 busy, unsteady, alone>>

(* Equipment::OnTimer: only m_balanceClTimer queries its balance; a poll   *)
(* timer that could not be cancelled goes on firing and does nothing.      *)
OnPollTimer(id) ==
  /\ id \in live
  /\ id = m_balanceClTimer
  /\ sink[id] \in Late \/ queries[sink[id]] = 0
  /\ WriteQuery(sink[id])
  /\ UNCHANGED <<m_balanceClTimer, m_responseTimeout, m_timers, sink, live,
                 busy, unsteady, alone>>

(* Mutant of OnResponseTimer: the balance goes on being polled.            *)
OnResponseTimer_Mut(b) ==
  /\ m_responseTimeout[b] \in live
  /\ b \in Late \/ queries[b] = 0
  /\ CancelTimer(m_responseTimeout[b])
  /\ busy' = busy \ {b}
  /\ unsteady' = unsteady \ {b}
  /\ alone' = alone \cap {b}
  /\ UNCHANGED <<m_balanceClTimer, m_responseTimeout, sink, queries>>

(* Task::OnTimer of the balance's client, waiting or not: any polling ends *)
(* and the Task is free.                                                   *)
OnResponseTimer(b) ==
  /\ m_responseTimeout[b] \in live
  /\ b \in Late \/ queries[b] = 0
  /\ CancelTimers(m_balanceClTimer, m_responseTimeout[b])
  /\ m_balanceClTimer' = NoTimer
  /\ busy' = busy \ {b}
  /\ unsteady' = unsteady \ {b}
  /\ alone' = alone \cap {b}
  /\ UNCHANGED <<m_responseTimeout, sink, queries>>

(* Task::OnTimer of a client of other equipment does the same to polling.  *)
OnOtherTimer ==
  /\ CancelTimer(m_balanceClTimer)
  /\ alone' = {}
  /\ m_balanceClTimer' = NoTimer
  /\ UNCHANGED <<m_responseTimeout, sink, busy, queries, unsteady>>

Next ==
  \/ \E b \in Balances :
       \/ BalanceCl(b) \/ BalanceQp(b) \/ OnNoise(b) \/ OnUnsteady(b)
       \/ OnSteady(b) \/ OnBadData(b) \/ LoseQuery(b) \/ OnResponseTimer(b)
  \/ \E id \in 1..MaxTimers : OnPollTimer(id)
  \/ OnOtherTimer

Spec == Init /\ [][Next]_vars

(* A poll timer that is live fires, what a balance sends is read, and a    *)
(* balance asked again and again is steady in the end.  Nothing is assumed *)
(* of clients and response timers.                                         *)
FairSpec ==
  /\ Spec
  /\ \A id \in 1..MaxTimers : WF_vars(OnPollTimer(id))
  /\ \A b \in Balances : SF_vars(OnSteady(b))

-----------------------------------------------------------------------------
(* A client whose balance was unsteady when it was last asked is not       *)
(* forgotten: the balance is being polled, whatever answers came late and  *)
(* whichever timers could not be cancelled, until another balance or       *)
(* another Task's timeout writes the shared variable                       *)
(* (ElecBalance.cpp:45-52, task.cpp:166).                                  *)
PolledWhileUnsteady ==
  \A b \in unsteady \cap alone :
    m_balanceClTimer \in live /\ sink[m_balanceClTimer] = b

(* A balance that answers in time is polled only while its client waits,   *)
(* also when it shares the variable with late ones and other Tasks time    *)
(* out: polling ends with the request (ElecBalance.cpp:53-66,              *)
(* task.cpp:166-167).                                                      *)
PolledIsBusy ==
  m_balanceClTimer # NoTimer /\ sink[m_balanceClTimer] \notin Late
    => sink[m_balanceClTimer] \in busy

(* What a balance answers in time finds its client waiting: a command is  *)
(* not answered twice and nothing is said after its timeout, however       *)
(* often the balance was asked again and whoever shares the variable.  The *)
(* transcation tests neither and would send such an answer as the result   *)
(* of the next command (equipment.cpp:43-52, ElecBalance.cpp:53-66,        *)
(* Transcation.cpp:151-175).                                               *)
AnswersAreAwaited == \A b \in Balances \ Late : queries[b] > 0 => b \in busy

(* Polling brings an unsteady balance's client out of its wait, though     *)
(* queries may be lost, as long as nobody else writes the shared variable  *)
(* (equipment.cpp:43-52).                                                  *)
UnsteadyEnds ==
  \A b \in Balances : b \in unsteady ~> b \notin unsteady \/ b \notin alone
=============================================================================
