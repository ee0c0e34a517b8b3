---------------------------- MODULE TimerService ----------------------------
(***************************************************************************)
(* What EventLooperImp promises its callers, without lists, flags or       *)
(* events: a set of live timers, at most one of which can be cancelled.    *)
(* A timer scheduled while the slot is free takes it; one scheduled while  *)
(* it is taken stays live for good.                                        *)
(***************************************************************************)
EXTENDS Naturals

CONSTANT MaxTimers

VARIABLES live,         \* timers that will fire
          cancellable,  \* the holder of the slot, or nobody
          firing        \* the timer whose callback runs; 0 none

vars == <<live, cancellable, firing>>

Ids == 1..MaxTimers

Init == live = {} /\ cancellable = {} /\ firing = 0

(* A new timer, newer than every live one, takes the slot if it is free.   *)
Schedule(id) ==
  /\ \A other \in live \cup cancellable : other < id
  /\ live' = live \cup {id}
  /\ cancellable' = IF cancellable = {} THEN {id} ELSE cancellable
  /\ UNCHANGED firing

(* Only the holder of the slot can be cancelled; it dies and frees it.     *)
Cancel(id) ==
  /\ cancellable = {id}
  /\ live' = live \ {id}
  /\ cancellable' = {}
  /\ UNCHANGED firing

(* A live timer fires; a one-shot timer dies by firing.                    *)
Fire(id) ==
  /\ firing = 0
  /\ id \in live
  /\ firing' = id
  /\ live' \in {live, live \ {id}}
  /\ UNCHANGED cancellable

(* The callback returns; a dead holder gives up the slot.  Or it never     *)
(* returns, because the process dies in it.                                *)
Return ==
  /\ firing # 0
  /\ firing' \in {0, MaxTimers + 1}
  /\ \/ UNCHANGED cancellable
     \/ cancellable = {firing} /\ firing \notin live /\ cancellable' = {}
  /\ UNCHANGED live

Next ==
  \/ \E id \in Ids : Schedule(id) \/ Cancel(id) \/ Fire(id)
  \/ Return

Spec == Init /\ [][Next]_vars
=============================================================================
