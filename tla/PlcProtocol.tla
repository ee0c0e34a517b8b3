----------------------------- MODULE PlcProtocol -----------------------------
(***************************************************************************)
(* What the program of the PLC may rely on, for each function it asks the  *)
(* hub to perform through a command word: it puts a command into the word, *)
(* the hub performs it, and only then reports success; or it reports a     *)
(* failure.  A reported result stays until the next command.               *)
(***************************************************************************)
CONSTANTS Fns, Commands, Success, Failures

VARIABLES word,   \* the command word of each function
          done    \* the present command has been performed

vars == <<word, done>>

Init == /\ word = [f \in Fns |-> Success]
        /\ done = [f \in Fns |-> FALSE]

Issue(f, c) == /\ word[f] \notin Commands
               /\ word' = [word EXCEPT ![f] = c]
               /\ done' = [done EXCEPT ![f] = FALSE]

Perform(f) == /\ word[f] \in Commands
              /\ done' = [done EXCEPT ![f] = TRUE]
              /\ UNCHANGED word

Succeed(f) == /\ word[f] \in Commands /\ done[f]
              /\ word' = [word EXCEPT ![f] = Success]
              /\ UNCHANGED done

Fail(f, e) == /\ word[f] \in Commands
              /\ word' = [word EXCEPT ![f] = e]
              /\ UNCHANGED done

Next == \E f \in Fns :
          \/ \E c \in Commands : Issue(f, c)
          \/ Perform(f)
          \/ Succeed(f)
          \/ \E e \in Failures : Fail(f, e)

Spec == Init /\ [][Next]_vars
=============================================================================
