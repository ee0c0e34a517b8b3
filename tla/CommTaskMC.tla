----------------------------- MODULE CommTaskMC -----------------------------
(***************************************************************************)
(* Instances of CommTask for TLC: which addresses each transcation accepts *)
(* and which commands it knows.                                            *)
(***************************************************************************)
EXTENDS CommTask

CONSTANTS c1, c2   \* sessions

(* One client whose transcation knows one of two commands.                 *)
OneSubs == [s \in Sessions |-> Trans]
OneKnows == [t \in Trans |-> {"weigh"}]

(* Two clients of two transcations each; they share the last one, as after *)
(* a client has reconnected from its address.                              *)
SharedSubs == [s \in Sessions |-> IF s = c1 THEN Trans ELSE {NTrans}]
SharedKnows == [t \in Trans |-> IF t = 1 THEN {"weigh"} ELSE {"weigh", "spit"}]

(* The configuration lists a command the last one has no branch for.       *)
SharedHandles == [t \in Trans |-> {"weigh"}]

(* Every transcation knows a command of its own.                           *)
OwnKnows == [t \in Trans |-> IF t = 1 THEN {"weigh"} ELSE {"spit"}]
=============================================================================
