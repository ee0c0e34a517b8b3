--------------------------- MODULE EventDelivery ---------------------------
(***************************************************************************)
(* What the program of a PLC and the upper computer may rely on for the    *)
(* events of a machine, where the PLC waits for the acknowledgement of an  *)
(* event before it issues the next one: the hub deals with an event once   *)
(* in every run of its process, and it acknowledges an event only when it  *)
(* has dealt with it, in this run or in an earlier one.                    *)
(*                                                                         *)
(* Where the acknowledgement goes into the block that holds the event, the *)
(* event may be lost to the acknowledgement of the one before.             *)
(***************************************************************************)
EXTENDS Naturals

CONSTANT Events

VARIABLES
  status,    \* of the event in the block
  told,      \* how often the hub dealt with it in this run of its process
  inPlace    \* acknowledgements go into the blocks of the events

vars == <<status, told, inPlace>>

Init ==
  /\ status \in [Events -> {"waiting", "acknowledged"}]
  /\ told = [e \in Events |-> 0]
  /\ inPlace \in BOOLEAN

Issue(e) ==
  /\ status[e] \in {"acknowledged", "lost"}
  /\ status' = [status EXCEPT ![e] = "waiting"]
  /\ told' = [told EXCEPT ![e] = 0]
  /\ UNCHANGED inPlace

(* Also of an event that was acknowledged before the hub started again.    *)
Deal(e) ==
  /\ told[e] = 0
  /\ told' = [told EXCEPT ![e] = 1]
  /\ status' = [status EXCEPT ![e] = IF @ = "waiting" THEN "dealt with" ELSE @]
  /\ UNCHANGED inPlace

Acknowledge(e) ==
  /\ status[e] = "dealt with"
  /\ status' = [status EXCEPT ![e] = "acknowledged"]
  /\ UNCHANGED <<told, inPlace>>

Lose(e) ==
  /\ inPlace
  /\ status[e] = "waiting"
  /\ status' = [status EXCEPT ![e] = "lost"]
  /\ UNCHANGED <<told, inPlace>>

Restart ==
  /\ told' = [e \in Events |-> 0]
  /\ UNCHANGED <<status, inPlace>>

Next ==
  \/ \E e \in Events : Issue(e) \/ Deal(e) \/ Acknowledge(e) \/ Lose(e)
  \/ Restart

Spec == Init /\ [][Next]_vars
=============================================================================
