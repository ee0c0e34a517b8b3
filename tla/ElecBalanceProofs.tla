------------------------- MODULE ElecBalanceProofs -------------------------
(***************************************************************************)
(* What holds of balances that share the polling timer's variable, for any *)
(* number of balances, queries and timers: the variable never names a      *)
(* cancelled timer; a balance that is polled has a waiting client, if it   *)
(* answers in time, and so do its answers; and an unsteady balance is      *)
(* polled until another one or another Task writes the variable.           *)
(***************************************************************************)
EXTENDS ElecBalance, TimerListProofs

USE LateAssumption, BoundsAssumption

(* The shared variable never names a timer that has been cancelled.        *)
PollingIsLive == m_balanceClTimer # NoTimer => m_balanceClTimer \in live

(* Both timer variables name timers that were handed out, and never the    *)
(* same one: a reply that stops a response timer does not stop a polling.  *)
OwnIds ==
  /\ m_balanceClTimer # NoTimer => m_balanceClTimer \in 1..Len(sink)
  /\ \A b \in Balances :
       m_responseTimeout[b] # NoTimer =>
          /\ m_responseTimeout[b] \in 1..Len(sink)
          /\ m_responseTimeout[b] # m_balanceClTimer

IInv == TypeOK /\ SingleOlder(m_timers, m_nextID) /\ OwnIds /\ PollingIsLive

-----------------------------------------------------------------------------
(* What the two kinds of calls on the looper do to the types.              *)
LEMMA ScheduleLemma ==
  ASSUME IInv, NEW b \in Balances, ScheduleTimer(b)
  PROVE  /\ m_nextID \in Nat \ {0}
         /\ Len(sink') = m_nextID
         /\ sink' \in Seq(Balances)
         /\ live' = live \cup {m_nextID}
         /\ live' \in SUBSET DOMAIN sink'
         /\ m_timers' \in Seq(Nat) /\ SingleOlder(m_timers', m_nextID')
         /\ \A id \in 1..Len(sink) : sink'[id] = sink[id]
         /\ sink'[m_nextID] = b
<1>1. sink \in Seq(Balances) /\ live \in SUBSET (1..Len(sink))
  BY DEF IInv, TypeOK
<1>2. Len(sink) \in Nat /\ m_nextID \in Nat \ {0}
  BY <1>1 DEF m_nextID
<1>3. sink' = Append(sink, b) /\ live' = live \cup {m_nextID}
      /\ m_timers' = InsertTimer(m_timers, m_nextID)
  BY DEF ScheduleTimer
<1>4. sink' \in Seq(Balances) /\ Len(sink') = m_nextID
  BY <1>1, <1>3 DEF m_nextID
<1>5. live' \in SUBSET DOMAIN sink'
  <2>1. DOMAIN sink' = 1..m_nextID
    BY <1>4
  <2>2. 1..Len(sink) \subseteq 1..m_nextID /\ m_nextID \in 1..m_nextID
    BY <1>2 DEF m_nextID
  <2> QED
    BY <2>1, <2>2, <1>1, <1>3
<1>6. SingleOlder(m_timers', m_nextID')
  BY <1>2, <1>3, <1>4, SingleOlderLemma DEF IInv, m_nextID
<1>7. m_nextID' \in Nat
  BY <1>2, <1>4 DEF m_nextID
<1>8. m_timers' \in Seq(Nat)
  BY <1>6, <1>7, SingleOlderLemma
<1>9. (\A id \in 1..Len(sink) : sink'[id] = sink[id]) /\ sink'[m_nextID] = b
  BY <1>1, <1>3 DEF m_nextID
<1> QED
  BY <1>2, <1>3, <1>4, <1>5, <1>6, <1>8, <1>9

(* Cancelling keeps the list's shape.                                      *)
LEMMA CancelLemma ==
  ASSUME IInv, NEW one, NEW other, UNCHANGED sink,
         CancelTimer(one) \/ CancelTimers(one, other)
  PROVE  /\ m_timers' \in Seq(Nat)
         /\ SingleOlder(m_timers', m_nextID')
         /\ live' \in SUBSET live
<1>1. m_nextID \in Nat /\ m_nextID' = m_nextID
  BY DEF IInv, TypeOK, m_nextID
<1>2. SingleOlder(EraseTimer(m_timers, one), m_nextID)
  BY <1>1, SingleOlderLemma DEF IInv
<1>3. SingleOlder(EraseTimer(EraseTimer(m_timers, one), other), m_nextID)
  BY <1>1, <1>2, SingleOlderLemma
<1>4. SingleOlder(m_timers', m_nextID')
  BY <1>1, <1>2, <1>3 DEF CancelTimer, CancelTimers
<1>5. m_timers' \in Seq(Nat)
  BY <1>1, <1>4, SingleOlderLemma
<1>6. live' \in SUBSET live
  BY DEF CancelTimer, CancelTimers, Stopped
<1> QED
  BY <1>4, <1>5, <1>6

(* An answered or a new query keeps the count in its range.                *)
LEMMA QueriesLemma ==
  ASSUME TypeOK, NEW b \in Balances, Answered(b) \/ WriteQuery(b)
  PROVE  queries' \in [Balances -> 0..MaxQueries]
<1>1. queries \in [Balances -> 0..MaxQueries] /\ queries[b] \in 0..MaxQueries
  BY DEF TypeOK
<1>2. CASE Answered(b)
  <2>1. queries[b] - 1 \in 0..MaxQueries
    BY <1>1, <1>2, BoundsAssumption DEF Answered
  <2> QED
    BY <1>1, <1>2, <2>1 DEF Answered
<1>3. CASE WriteQuery(b)
  <2>1. queries[b] + 1 \in 0..MaxQueries
    BY <1>1, <1>3, BoundsAssumption DEF WriteQuery
  <2> QED
    BY <1>1, <1>3, <2>1 DEF WriteQuery
<1> QED
  BY <1>2, <1>3

(* Balances are only ever taken out of alone.                              *)
LEMMA AloneLemma ==
  ASSUME TypeOK, [Next]_vars
  PROVE  alone' \in SUBSET Balances
<1>1. alone \in SUBSET Balances
  BY DEF TypeOK
<1>2. alone' \in SUBSET alone
  BY DEF Next, vars, BalanceCl, BalanceQp, OnNoise, OnUnsteady, OnSteady,
     OnBadData, LoseQuery, OnResponseTimer, OnPollTimer, OnOtherTimer
<1> QED
  BY <1>1, <1>2

(* The invariant holds initially.                                          *)
LEMMA InitIInv == Init => IInv
<1> SUFFICES ASSUME Init PROVE IInv
  OBVIOUS
<1>1. sink = << >> /\ Len(sink) = 0 /\ m_nextID = 1
  BY DEF Init, m_nextID
<1>2. SingleOlder(m_timers, m_nextID)
  BY <1>1 DEF Init, SingleOlder, OtherTimer
<1>3. m_timers \in Seq(Nat)
  BY <1>1, <1>2, SingleOlderLemma
<1>4. TypeOK
  BY <1>1, <1>3 DEF Init, TypeOK, NoTimer
<1> QED
  BY <1>1, <1>2, <1>4 DEF Init, IInv, OwnIds, PollingIsLive, NoTimer

(* Every step keeps the invariant.                                         *)
LEMMA NextIInv == IInv /\ [Next]_vars => IInv'
<1> SUFFICES ASSUME IInv, [Next]_vars PROVE IInv'
  OBVIOUS
<1> USE DEF NoTimer
<1>0. /\ TypeOK /\ SingleOlder(m_timers, m_nextID) /\ OwnIds /\ PollingIsLive
      /\ alone' \in SUBSET Balances
  BY AloneLemma DEF IInv
<1>1. ASSUME NEW b \in Balances, BalanceCl(b) PROVE IInv'
  <2>1. ScheduleTimer(b) /\ WriteQuery(b)
        /\ m_responseTimeout' = [m_responseTimeout EXCEPT ![b] = m_nextID]
        /\ busy' = busy \cup {b} /\ UNCHANGED <<m_balanceClTimer, unsteady>>
    BY <1>1 DEF BalanceCl
  <2>2. queries' \in [Balances -> 0..MaxQueries]
    BY <1>0, <2>1, QueriesLemma
  <2>3. TypeOK'
    BY <1>0, <2>1, <2>2, ScheduleLemma DEF TypeOK
  <2>4. OwnIds'
    BY <1>0, <2>1, ScheduleLemma DEF TypeOK, OwnIds, m_nextID
  <2>5. PollingIsLive'
    BY <1>0, <2>1 DEF ScheduleTimer, PollingIsLive
  <2>6. SingleOlder(m_timers, m_nextID)'
    BY <1>0, <2>1, ScheduleLemma
  <2> QED
    BY <2>3, <2>4, <2>5, <2>6 DEF IInv
<1>2. ASSUME NEW b \in Balances, OnNoise(b) \/ LoseQuery(b) PROVE IInv'
  <2>1. queries' \in [Balances -> 0..MaxQueries]
    BY <1>0, <1>2, QueriesLemma DEF OnNoise, LoseQuery
  <2> QED
    BY <1>0, <1>2, <2>1
    DEF OnNoise, LoseQuery, IInv, TypeOK, OwnIds, PollingIsLive, m_nextID
<1>3. ASSUME NEW b \in Balances, OnUnsteady(b) PROVE IInv'
  <2>1. queries' \in [Balances -> 0..MaxQueries]
    BY <1>0, <1>3, QueriesLemma DEF OnUnsteady
  <2>2. unsteady' \in SUBSET busy' /\ UNCHANGED <<m_responseTimeout, busy>>
    BY <1>0, <1>3 DEF OnUnsteady, TypeOK
  <2>3. CASE m_balanceClTimer = NoTimer
    <3>1. ScheduleTimer(b) /\ m_balanceClTimer' = m_nextID
      BY <1>3, <2>3 DEF OnUnsteady
    <3>2. TypeOK'
      BY <1>0, <2>1, <2>2, <3>1, ScheduleLemma DEF TypeOK
    <3>3. OwnIds' /\ PollingIsLive'
      BY <1>0, <2>2, <3>1, ScheduleLemma DEF TypeOK, OwnIds, PollingIsLive, m_nextID
    <3> QED
      BY <3>1, <3>2, <3>3, ScheduleLemma DEF IInv
  <2>4. CASE m_balanceClTimer # NoTimer
    BY <1>0, <1>3, <2>1, <2>2, <2>4
    DEF OnUnsteady, IInv, TypeOK, OwnIds, PollingIsLive, m_nextID
  <2> QED
    BY <2>3, <2>4
<1>4. ASSUME NEW b \in Balances, OnSteady(b) \/ OnBadData(b) \/ OnResponseTimer(b)
      PROVE  IInv'
  <2>1. queries' \in [Balances -> 0..MaxQueries]
    BY <1>0, <1>4, QueriesLemma DEF OnSteady, OnBadData, OnResponseTimer, TypeOK
  <2>2. \E one, other : CancelTimer(one) \/ CancelTimers(one, other)
    BY <1>4 DEF OnSteady, OnBadData, OnResponseTimer
  <2>3. /\ UNCHANGED <<sink, m_responseTimeout>>
        /\ m_balanceClTimer' = NoTimer
        /\ busy' \in SUBSET Balances /\ unsteady' \in SUBSET busy'
    BY <1>0, <1>4 DEF OnSteady, OnBadData, OnResponseTimer, TypeOK
  <2>4. /\ m_timers' \in Seq(Nat) /\ SingleOlder(m_timers', m_nextID')
        /\ live' \in SUBSET live
    BY <2>2, <2>3, CancelLemma
  <2> QED
    BY <1>0, <2>1, <2>3, <2>4 DEF IInv, TypeOK, OwnIds, PollingIsLive
<1>5. CASE OnOtherTimer
  <2>1. /\ CancelTimer(m_balanceClTimer) /\ m_balanceClTimer' = NoTimer
        /\ UNCHANGED <<m_responseTimeout, sink, busy, queries, unsteady>>
    BY <1>5 DEF OnOtherTimer
  <2>2. /\ m_timers' \in Seq(Nat) /\ SingleOlder(m_timers', m_nextID')
        /\ live' \in SUBSET live
    BY <2>1, CancelLemma
  <2> QED
    BY <1>0, <2>1, <2>2 DEF IInv, TypeOK, OwnIds, PollingIsLive
<1>6. ASSUME NEW id \in 1..MaxTimers, OnPollTimer(id) PROVE IInv'
  <2>1. id \in 1..Len(sink)
    BY <1>0, <1>6 DEF OnPollTimer, TypeOK
  <2>2. sink[id] \in Balances
    BY <1>0, <2>1 DEF TypeOK
  <2>3. queries' \in [Balances -> 0..MaxQueries]
    BY <1>0, <1>6, <2>2, QueriesLemma DEF OnPollTimer
  <2> QED
    BY <1>0, <1>6, <2>3
    DEF OnPollTimer, IInv, TypeOK, OwnIds, PollingIsLive, m_nextID
<1>7. ASSUME NEW b \in Balances, BalanceQp(b) PROVE IInv'
  <2> DEFINE inserted == InsertTimer(m_timers, m_nextID)
  <2>1. /\ sink' = Append(sink, b)
        /\ m_responseTimeout' = [m_responseTimeout EXCEPT ![b] = m_nextID]
        /\ m_timers' = EraseTimer(inserted, m_nextID)
        /\ live' \in {live, live \cup {m_nextID}}
        /\ UNCHANGED <<m_balanceClTimer, busy, queries, unsteady>>
    BY <1>7 DEF BalanceQp
  <2>2. /\ sink \in Seq(Balances) /\ live \in SUBSET (1..Len(sink))
        /\ m_nextID = Len(sink) + 1 /\ Len(sink) \in Nat
    BY <1>0 DEF TypeOK, m_nextID
  <2>3. sink' \in Seq(Balances) /\ Len(sink') = m_nextID
    BY <2>1, <2>2
  <2>4. m_nextID' = m_nextID + 1 /\ m_nextID' \in Nat /\ m_nextID \in Nat
    BY <2>2, <2>3 DEF m_nextID
  <2>5. SingleOlder(inserted, m_nextID')
    BY <1>0, <2>4, SingleOlderLemma
  <2> HIDE DEF inserted
  <2>6. SingleOlder(m_timers', m_nextID')
    BY <2>1, <2>4, <2>5, SingleOlderLemma
  <2>7. m_timers' \in Seq(Nat)
    BY <2>4, <2>6, SingleOlderLemma
  <2>8. DOMAIN sink' = 1..m_nextID /\ live' \in SUBSET DOMAIN sink'
    BY <2>1, <2>2, <2>3
  <2>9. TypeOK'
    BY <1>0, <2>1, <2>2, <2>3, <2>7, <2>8 DEF TypeOK
  <2>10. OwnIds' /\ PollingIsLive'
    BY <1>0, <2>1, <2>2, <2>3 DEF TypeOK, OwnIds, PollingIsLive
  <2> QED
    BY <2>6, <2>9, <2>10 DEF IInv
<1>8. CASE UNCHANGED vars
  BY <1>0, <1>8 DEF vars, IInv, TypeOK, OwnIds, PollingIsLive, m_nextID
<1> QED
  BY <1>1, <1>2, <1>3, <1>4, <1>5, <1>6, <1>7, <1>8 DEF Next

(* The types, the list's shape and the timers' owners, always.             *)
LEMMA Inductive == Spec => []IInv
<1> QED
  BY InitIInv, NextIInv, PTL DEF Spec

(* The type invariant of the balances.                                     *)
THEOREM TypeCorrect == Spec => []TypeOK
<1>1. IInv => TypeOK
  BY DEF IInv
<1> QED
  BY <1>1, Inductive, PTL

(* A K* that finds the shared variable set leaves the balance to a timer   *)
(* that still fires: the variable never names a cancelled one, however     *)
(* many balances set and reset it (ElecBalance.cpp:48, 56, 61,             *)
(* task.cpp:166).                                                          *)
THEOREM PollingLive == Spec => []PollingIsLive
<1>1. IInv => PollingIsLive
  BY DEF IInv
<1> QED
  BY <1>1, Inductive, PTL

-----------------------------------------------------------------------------
(* Balances that answer in time: a query is outstanding only while its     *)
(* client waits, and only one.                                             *)
QueriesInTime ==
  \A b \in Balances \ Late : queries[b] # 0 => queries[b] = 1 /\ b \in busy

(* A polling that no answer and no timeout has ended has a waiting client. *)
LEMMA NextPolledIsBusy ==
  ASSUME IInv, QueriesInTime, PolledIsBusy, [Next]_vars
  PROVE  QueriesInTime' /\ PolledIsBusy'
<1> USE DEF NoTimer
<1>0. TypeOK /\ OwnIds /\ sink \in Seq(Balances) /\ Len(sink) \in Nat
  BY DEF IInv, TypeOK
<1>1. ASSUME NEW b \in Balances, BalanceCl(b) \/ BalanceQp(b)
      PROVE  QueriesInTime' /\ PolledIsBusy'
  <2>1. sink' = Append(sink, b) /\ busy \subseteq busy' /\ UNCHANGED m_balanceClTimer
    BY <1>1 DEF BalanceCl, BalanceQp, ScheduleTimer
  <2>2. \A id \in 1..Len(sink) : sink'[id] = sink[id]
    BY <1>0, <2>1
  <2>3. PolledIsBusy'
    BY <1>0, <2>1, <2>2 DEF PolledIsBusy, OwnIds
  <2>4. QueriesInTime'
    BY <1>0, <1>1 DEF BalanceCl, BalanceQp, WriteQuery, QueriesInTime, TypeOK
  <2> QED
    BY <2>3, <2>4
<1>2. ASSUME NEW b \in Balances, OnNoise(b) \/ LoseQuery(b)
      PROVE  QueriesInTime' /\ PolledIsBusy'
  <2>1. Answered(b) /\ UNCHANGED <<m_balanceClTimer, sink, busy>>
    BY <1>2 DEF OnNoise, LoseQuery
  <2>2. QueriesInTime'
    BY <1>0, <2>1 DEF Answered, QueriesInTime, TypeOK
  <2> QED
    BY <2>1, <2>2 DEF PolledIsBusy
<1>3. ASSUME NEW b \in Balances, OnUnsteady(b)
      PROVE  QueriesInTime' /\ PolledIsBusy'
  <2>1. b \in busy \cup Late /\ Answered(b) /\ UNCHANGED busy
    BY <1>0, <1>3 DEF OnUnsteady, Answered, QueriesInTime, TypeOK
  <2>2. QueriesInTime'
    BY <1>0, <2>1 DEF Answered, QueriesInTime, TypeOK
  <2>3. CASE m_balanceClTimer = NoTimer
    <3>1. sink' = Append(sink, b) /\ m_balanceClTimer' = Len(sink) + 1
      BY <1>3, <2>3 DEF OnUnsteady, ScheduleTimer, m_nextID
    <3>2. sink'[Len(sink) + 1] = b
      BY <1>0, <3>1
    <3> QED
      BY <2>1, <2>2, <3>1, <3>2 DEF PolledIsBusy
  <2>4. CASE m_balanceClTimer # NoTimer
    BY <1>3, <2>1, <2>2, <2>4 DEF OnUnsteady, PolledIsBusy
  <2> QED
    BY <2>3, <2>4
<1>4. ASSUME NEW b \in Balances, OnSteady(b) \/ OnBadData(b)
      PROVE  QueriesInTime' /\ PolledIsBusy'
  BY <1>0, <1>4 DEF OnSteady, OnBadData, Answered, QueriesInTime, PolledIsBusy, TypeOK
<1>5. ASSUME NEW b \in Balances, OnResponseTimer(b)
      PROVE  QueriesInTime' /\ PolledIsBusy'
  BY <1>0, <1>5 DEF OnResponseTimer, QueriesInTime, PolledIsBusy, TypeOK
<1>6. CASE OnOtherTimer
  BY <1>6 DEF OnOtherTimer, QueriesInTime, PolledIsBusy
<1>7. ASSUME NEW id \in 1..MaxTimers, OnPollTimer(id)
      PROVE  QueriesInTime' /\ PolledIsBusy'
  <2>1. /\ sink[id] \in Late \/ (sink[id] \in busy /\ queries[sink[id]] = 0)
        /\ UNCHANGED <<m_balanceClTimer, sink, busy>>
    BY <1>0, <1>7 DEF OnPollTimer, PolledIsBusy, TypeOK
  <2>2. QueriesInTime'
    BY <1>0, <1>7, <2>1 DEF OnPollTimer, WriteQuery, QueriesInTime, TypeOK
  <2> QED
    BY <2>1, <2>2 DEF PolledIsBusy
<1>8. CASE UNCHANGED vars
  BY <1>8 DEF vars, QueriesInTime, PolledIsBusy
<1> QED
  BY <1>1, <1>2, <1>3, <1>4, <1>5, <1>6, <1>7, <1>8 DEF Next

(* Both hold of every behaviour.                                           *)
LEMMA InTimeInductive == Spec => [](QueriesInTime /\ PolledIsBusy)
<1>1. Init => QueriesInTime /\ PolledIsBusy
  BY DEF Init, QueriesInTime, PolledIsBusy
<1>2. IInv /\ QueriesInTime /\ PolledIsBusy /\ [Next]_vars
        => QueriesInTime' /\ PolledIsBusy'
  BY NextPolledIsBusy
<1> QED
  BY <1>1, <1>2, Inductive, PTL DEF Spec

(* A balance that answers in time is polled only while its client waits,   *)
(* however many others, late ones too, share the variable and whichever    *)
(* Tasks time out (ElecBalance.cpp:53-66, task.cpp:166-167).               *)
THEOREM PolledBusy == Spec => []PolledIsBusy
BY InTimeInductive, PTL

(* And what it answers finds the client waiting, so it answers a command   *)
(* once and says nothing after the timeout (ElecBalance.cpp:53-66,         *)
(* Transcation.cpp:151-175).                                               *)
THEOREM AnswersAwaited == Spec => []AnswersAreAwaited
<1>1. IInv /\ QueriesInTime => AnswersAreAwaited
  BY DEF IInv, TypeOK, QueriesInTime, AnswersAreAwaited
<1> QED
  BY <1>1, Inductive, InTimeInductive, PTL

-----------------------------------------------------------------------------
(* What makes it so: a set variable names a timer of the only balance that *)
(* has written it, and it is set while that balance is unsteady.           *)
TimerOfWriter ==
  m_balanceClTimer # NoTimer => \A b \in alone : sink[m_balanceClTimer] = b

SetWhileUnsteady == unsteady \cap alone # {} => m_balanceClTimer # NoTimer

LEMMA NextPolled ==
  ASSUME IInv, TimerOfWriter, SetWhileUnsteady, [Next]_vars
  PROVE  TimerOfWriter' /\ SetWhileUnsteady'
<1> USE DEF NoTimer
<1>0. /\ TypeOK /\ OwnIds /\ sink \in Seq(Balances) /\ Len(sink) \in Nat
      /\ unsteady \subseteq Balances
  BY DEF IInv, TypeOK
<1>1. ASSUME NEW b \in Balances, BalanceCl(b) \/ BalanceQp(b)
      PROVE  TimerOfWriter' /\ SetWhileUnsteady'
  <2>1. sink' = Append(sink, b) /\ UNCHANGED <<m_balanceClTimer, unsteady, alone>>
    BY <1>1 DEF BalanceCl, BalanceQp, ScheduleTimer
  <2>2. \A id \in 1..Len(sink) : sink'[id] = sink[id]
    BY <1>0, <2>1
  <2>3. TimerOfWriter'
    BY <1>0, <2>1, <2>2 DEF TimerOfWriter, OwnIds
  <2> QED
    BY <2>1, <2>3 DEF SetWhileUnsteady
<1>2. ASSUME NEW b \in Balances, OnNoise(b) \/ LoseQuery(b)
      PROVE  TimerOfWriter' /\ SetWhileUnsteady'
  BY <1>2 DEF OnNoise, LoseQuery, TimerOfWriter, SetWhileUnsteady
<1>3. ASSUME NEW b \in Balances, OnUnsteady(b)
      PROVE  TimerOfWriter' /\ SetWhileUnsteady'
  <2>1. alone' = alone \cap {b}
    BY <1>3 DEF OnUnsteady
  <2>2. CASE m_balanceClTimer = NoTimer
    <3>1. sink' = Append(sink, b) /\ m_balanceClTimer' = Len(sink) + 1
      BY <1>3, <2>2 DEF OnUnsteady, ScheduleTimer, m_nextID
    <3>2. sink'[m_balanceClTimer'] = b /\ m_balanceClTimer' # NoTimer
      BY <1>0, <3>1
    <3> QED
      BY <2>1, <3>2 DEF TimerOfWriter, SetWhileUnsteady
  <2>3. CASE m_balanceClTimer # NoTimer
    BY <1>3, <2>1, <2>3 DEF OnUnsteady, TimerOfWriter, SetWhileUnsteady
  <2> QED
    BY <2>2, <2>3
<1>4. ASSUME NEW b \in Balances, OnSteady(b) \/ OnBadData(b) \/ OnResponseTimer(b)
      PROVE  TimerOfWriter' /\ SetWhileUnsteady'
  <2>1. /\ m_balanceClTimer' = NoTimer /\ unsteady' = unsteady \ {b}
        /\ alone' = alone \cap {b}
    BY <1>4 DEF OnSteady, OnBadData, OnResponseTimer
  <2> QED
    BY <2>1 DEF TimerOfWriter, SetWhileUnsteady
<1>5. CASE OnOtherTimer
  BY <1>5 DEF OnOtherTimer, TimerOfWriter, SetWhileUnsteady
<1>6. ASSUME NEW id \in 1..MaxTimers, OnPollTimer(id)
      PROVE  TimerOfWriter' /\ SetWhileUnsteady'
  BY <1>6 DEF OnPollTimer, TimerOfWriter, SetWhileUnsteady
<1>7. CASE UNCHANGED vars
  BY <1>7 DEF vars, TimerOfWriter, SetWhileUnsteady
<1> QED
  BY <1>1, <1>2, <1>3, <1>4, <1>5, <1>6, <1>7 DEF Next

(* An unsteady balance is polled while its client waits, for any number of *)
(* balances, until another balance or another Task's timeout writes the    *)
(* shared variable (ElecBalance.cpp:45-52).                                *)
THEOREM UnsteadyPolled == Spec => []PolledWhileUnsteady
<1>1. Init => TimerOfWriter /\ SetWhileUnsteady
  BY DEF Init, TimerOfWriter, SetWhileUnsteady
<1>2. IInv /\ TimerOfWriter /\ SetWhileUnsteady /\ [Next]_vars
        => TimerOfWriter' /\ SetWhileUnsteady'
  BY NextPolled
<1>3. IInv /\ TimerOfWriter /\ SetWhileUnsteady => PolledWhileUnsteady
  BY DEF IInv, PollingIsLive, TimerOfWriter, SetWhileUnsteady, PolledWhileUnsteady
<1> QED
  BY <1>1, <1>2, <1>3, Inductive, PTL DEF Spec
=============================================================================
