--------------------------- MODULE TimerListProofs ---------------------------
(***************************************************************************)
(* Lemmas about the operators of TimerList, for the modules whose proofs   *)
(* follow the looper's list.                                               *)
(***************************************************************************)
EXTENDS TimerList, TLAPS

(* Inserting a timer newer than the one listed changes nothing; into an    *)
(* empty list it puts the timer.                                           *)
LEMMA InsertLemma ==
  ASSUME NEW id \in Nat
  PROVE  /\ InsertTimer(<< >>, id) = <<id>>
         /\ \A old \in Nat : old < id => InsertTimer(<<old>>, id) = <<old>>
<1>1. InsertTimer(<< >>, id) = <<id>>
  BY DEF InsertTimer
<1>2. ASSUME NEW old \in Nat, old < id
      PROVE  InsertTimer(<<old>>, id) = <<old>>
  <2>1. InsertionPoints(<<old>>, id) = {}
    BY <1>2 DEF InsertionPoints
  <2> QED
    BY <2>1 DEF InsertTimer
<1> QED
  BY <1>1, <1>2

(* A list of one timer: what is listed, and that erasing it empties it.    *)
LEMMA SingletonLemma ==
  ASSUME NEW id \in Nat
  PROVE  /\ \A other : Listed(<<id>>, other) <=> other = id
         /\ EraseTimer(<<id>>, id) = << >>
         /\ \A other : ~ Listed(<< >>, other)
<1>1. \A other : Listed(<<id>>, other) <=> other = id
  BY DEF Listed
<1>2. {i \in 1..Len(<<id>>) : <<id>>[i] = id} = {1}
  OBVIOUS
<1>3. First({1}) = 1
  BY DEF First
<1>4. EraseTimer(<<id>>, id) = << >>
  <2>1. EraseTimer(<<id>>, id) = SubSeq(<<id>>, 1, 0) \o SubSeq(<<id>>, 2, 1)
    BY <1>1, <1>2, <1>3 DEF EraseTimer, RemoveAt
  <2> QED
    BY <2>1
<1>5. \A other : ~ Listed(<< >>, other)
  BY DEF Listed
<1> QED
  BY <1>1, <1>4, <1>5

(* The shapes the list has when ids only grow: empty, or one timer older   *)
(* than the next id.                                                       *)
SingleOlder(list, next) ==
  list = << >> \/ \E id \in Nat : id < next /\ list = <<id>>

(* Such a list is a sequence of ids, and stays such a list when the next   *)
(* timer is inserted and when any timer is erased.                         *)
LEMMA SingleOlderLemma ==
  ASSUME NEW next \in Nat, NEW list, SingleOlder(list, next)
  PROVE  /\ list \in Seq(Nat)
         /\ SingleOlder(InsertTimer(list, next), next + 1)
         /\ \A id : SingleOlder(EraseTimer(list, id), next)
<1>1. CASE list = << >>
  <2>1. << >> \in Seq(Nat)
    OBVIOUS
  <2>2. InsertTimer(<< >>, next) = <<next>>
    BY InsertLemma
  <2>3. \A id : EraseTimer(<< >>, id) = << >>
    BY DEF EraseTimer, Listed
  <2> QED
    BY <1>1, <2>1, <2>2, <2>3 DEF SingleOlder
<1>2. ASSUME NEW old \in Nat, old < next, list = <<old>>
      PROVE  /\ list \in Seq(Nat)
             /\ SingleOlder(InsertTimer(list, next), next + 1)
             /\ \A id : SingleOlder(EraseTimer(list, id), next)
  <2>1. InsertTimer(<<old>>, next) = <<old>>
    BY <1>2, InsertLemma
  <2>2. ASSUME NEW id PROVE EraseTimer(<<old>>, id) \in {<< >>, <<old>>}
    <3>1. CASE id = old
      BY <3>1, SingletonLemma
    <3>2. CASE id # old
      <4>1. ~ Listed(<<old>>, id)
        BY <3>2, SingletonLemma
      <4> QED
        BY <4>1 DEF EraseTimer
    <3> QED
      BY <3>1, <3>2
  <2>3. list \in Seq(Nat)
    BY <1>2
  <2>4. SingleOlder(InsertTimer(list, next), next + 1)
    BY <1>2, <2>1 DEF SingleOlder
  <2>5. \A id : SingleOlder(EraseTimer(list, id), next)
    BY <1>2, <2>2 DEF SingleOlder
  <2> QED
    BY <2>3, <2>4, <2>5
<1> QED
  BY <1>1, <1>2 DEF SingleOlder
=============================================================================
