------------------------------ MODULE TimerList ------------------------------
(***************************************************************************)
(* The list EventLooperImp::m_timers as pure operators on a sequence of    *)
(* timer ids, used by every module whose code schedules or cancels timers  *)
(* (Communication/eventlooperimp.cpp).                                     *)
(***************************************************************************)
EXTENDS Naturals, Sequences, SequencesExt

(* Mutant of InsertionPoints: the comparison the other way round.          *)
InsertionPoints_Mut(list, id) == {i \in 1..Len(list) : list[i] <= id}

(* The positions before which the insertion loop of ScheduleTimer stops.   *)
InsertionPoints(list, id) == {i \in 1..Len(list) : list[i] >= id}

(* The smallest of a set of positions.                                     *)
First(positions) == CHOOSE i \in positions : \A j \in positions : i <= j

(* ScheduleTimer's insertion: an empty list takes the element; otherwise   *)
(* the element goes in front of the first one whose id is not smaller, and *)
(* when the loop reaches the end of the list it is put nowhere.            *)
InsertTimer(list, id) ==
  IF list = << >> THEN <<id>>
  ELSE IF InsertionPoints(list, id) = {} THEN list
       ELSE InsertAt(list, First(InsertionPoints(list, id)), id)

(* CancelTimer's std::find_if over the list finds the timer.               *)
Listed(list, id) == \E i \in 1..Len(list) : list[i] = id

(* m_timers.erase(it) for the element find_if found.                       *)
EraseTimer(list, id) ==
  IF Listed(list, id)
  THEN RemoveAt(list, First({i \in 1..Len(list) : list[i] = id}))
  ELSE list
=============================================================================
