---------------------------- MODULE PlcFinsProofs ----------------------------
(***************************************************************************)
(* What holds of PlcFins for every set of functions and every number of    *)
(* faults: its types, the agreement of handle and status; that nothing     *)
(* outlasts its command, of functions whose failed writes had no effect;   *)
(* and that those of them whose balances are in time keep the protocol the *)
(* PLC relies on, whatever happens to the others.                          *)
(***************************************************************************)
EXTENDS PlcFins, TLAPS

USE PlcFinsAssumption

(* The two halves of a callback belong together: a function about to write *)
(* OK has done what its pending command asks for.                          *)
AckingServed == acking \in Prompt => cmd[acking] \in Commands /\ served[acking]

(* The handle and the status of the connection, kept in two fields, agree: *)
(* otherwise Connect would say "connected" without a handle and no timer   *)
(* would ever reconnect (PlcFins.cpp:139-170).                             *)
HandleMatchesStatus == m_sys <=> m_connectionStatus = "CONNECT_OK"

(* A balance in time has nothing more to say to a function that is about   *)
(* to write OK: neither is its answer under way nor is it polled.          *)
AckingQuiet ==
  acking \in Prompt => ~ asked[acking] /\ m_balanceClTimer # acking

IInv == TypeOK /\ HandleMatchesStatus
ExactInv == IInv /\ NothingOutlastsItsCommand /\ AckingQuiet
PromptInv == ExactInv /\ AckingServed

-----------------------------------------------------------------------------
(* One step of the whole program, as the disjuncts the proofs split on.    *)
Step(f) ==
  \/ \E c \in Commands : PlcCommand(f, c)
  \/ DetectReadFails(f) \/ DetectQP(f) \/ DetectCZ(f) \/ DetectTimeout(f)
  \/ Expire(f) \/ ValuePolling(f) \/ PollTimer(f) \/ Reconnect(f)
  \/ Noise(f) \/ BadData(f) \/ Unsteady(f) \/ Steady(f) \/ WriteOK(f)

LEMMA NextCases == ASSUME Next PROVE PollingEnded \/ \E f \in Fns : Step(f)
BY DEF Next, OnDetect, OnData, Step

(* FINS operations keep their types.                                       *)
LEMMA FinsTypes ==
  ASSUME IInv, NEW f \in Fns, NEW word \in Words, NEW ok \in BOOLEAN
  PROVE  /\ WriteCmd(f, word, ok) => cmd' \in [Fns -> Words] /\ faults' \in 0..MaxFaults
         /\ WriteData(f, ok) => served' \in [Fns -> BOOLEAN] /\ faults' \in 0..MaxFaults
         /\ FinsOk \/ FinsFails => faults' \in 0..MaxFaults
         /\ AskBalance(f) => asked' \in [Fns -> BOOLEAN]
<1>1. FinsOk \/ FinsFails => faults' \in 0..MaxFaults
  BY DEF IInv, TypeOK, FinsOk, FinsFails
<1>2. WriteCmd(f, word, ok) => cmd' \in [Fns -> Words]
  BY DEF IInv, TypeOK, WriteCmd
<1>3. WriteData(f, ok) => served' \in [Fns -> BOOLEAN]
  BY DEF IInv, TypeOK, WriteData, DataWritten
<1>4. AskBalance(f) => asked' \in [Fns -> BOOLEAN]
  BY DEF IInv, TypeOK, AskBalance
<1> QED
  BY <1>1, <1>2, <1>3, <1>4 DEF WriteCmd, WriteData

(* The words a callback writes are words.                                  *)
LEMMA WordsLemma == /\ OK \in Words /\ ERROR_TIMEOUT \in Words
                    /\ ERROR_RESULT \in Words /\ Commands \subseteq Words
BY DEF Words, Errors, Commands

(* No function is busy at the start.                                       *)
LEMMA InitPrompt == Init => PromptInv
<1>1. Init => TypeOK
  <2> SUFFICES ASSUME Init PROVE TypeOK
    OBVIOUS
  <2>1. /\ cmd \in [Fns -> Words] /\ m_status \in [Fns -> {"IDEL", "BUSY"}]
        /\ faults \in 0..MaxFaults
    BY WordsLemma DEF Init
  <2>2. /\ served \in [Fns -> BOOLEAN] /\ expired \in [Fns -> BOOLEAN]
        /\ asked \in [Fns -> BOOLEAN]
    BY DEF Init
  <2>3. /\ m_sys \in BOOLEAN /\ acking \in Fns \cup {NoFn}
        /\ m_balanceClTimer \in Fns \cup {NoFn}
        /\ m_connectionStatus \in {"CONNECT_OK", "CONNECT_NO"}
    BY DEF Init
  <2> QED
    BY <2>1, <2>2, <2>3 DEF TypeOK
<1>3. Init => HandleMatchesStatus
  BY DEF Init, HandleMatchesStatus
<1>2. Init => NothingOutlastsItsCommand /\ AckingQuiet /\ AckingServed
  BY DEF Init, NothingOutlastsItsCommand, AckingQuiet, AckingServed, Prompt
<1> QED
  BY <1>1, <1>2, <1>3 DEF PromptInv, ExactInv, IInv

(* Every step, and no step, keeps the invariant.                           *)
LEMMA NextIInv == IInv /\ [Next]_vars => IInv'
<1> SUFFICES ASSUME IInv, [Next]_vars PROVE IInv'
  OBVIOUS
<1> USE DEF IInv, TypeOK, HandleMatchesStatus
<1>1. ASSUME NEW f \in Fns, NEW c \in Commands, PlcCommand(f, c) PROVE IInv'
  BY <1>1, WordsLemma DEF PlcCommand, connVars, balanceVars
<1>2. ASSUME NEW f \in Fns, DetectReadFails(f) PROVE IInv'
  BY <1>2, FinsTypes, WordsLemma
  DEF DetectReadFails, on_disconnect, plcVars, balanceVars
<1>3. ASSUME NEW f \in Fns, DetectQP(f) PROVE IInv'
  BY <1>3, FinsTypes, WordsLemma DEF DetectQP, connVars, balanceVars
<1>4. ASSUME NEW f \in Fns, DetectCZ(f) PROVE IInv'
  BY <1>4, FinsTypes, WordsLemma DEF DetectCZ, plcVars, connVars
<1>5. ASSUME NEW f \in Fns, DetectTimeout(f) PROVE IInv'
  <2>1. PICK ok \in BOOLEAN :
          /\ WriteCmd(f, ERROR_TIMEOUT, ok)
          /\ IF ok THEN /\ m_status' = [m_status EXCEPT ![f] = "IDEL"]
                        /\ asked' = [asked EXCEPT ![f] = FALSE]
                        /\ UNCHANGED connVars
                   ELSE on_disconnect /\ UNCHANGED <<m_status, asked>>
    BY <1>5 DEF DetectTimeout
  <2>2. cmd' \in [Fns -> Words] /\ faults' \in 0..MaxFaults
    BY <2>1, FinsTypes, WordsLemma
  <2>3. asked' \in [Fns -> BOOLEAN] /\ m_status' \in [Fns -> {"IDEL", "BUSY"}]
    BY <2>1
  <2> QED
    BY <1>5, <2>1, <2>2, <2>3 DEF DetectTimeout, on_disconnect, connVars
<1>6. ASSUME NEW f \in Fns, Expire(f) PROVE IInv'
  BY <1>6 DEF Expire, plcVars, connVars, balanceVars
<1>7. ASSUME NEW f \in Fns, ValuePolling(f) \/ PollTimer(f) PROVE IInv'
  BY <1>7, FinsTypes, WordsLemma DEF ValuePolling, PollTimer, plcVars, connVars
<1>8. ASSUME NEW f \in Fns, Reconnect(f) PROVE IInv'
  <2>1. PICK ok \in BOOLEAN :
          /\ PlcConnect(ok)
          /\ m_status' = IF ok THEN [m_status EXCEPT ![f] = "IDEL"] ELSE m_status
    BY <1>8 DEF Reconnect
  <2>2. HandleMatchesStatus' /\ m_sys' \in BOOLEAN
    BY <1>8, <2>1 DEF Reconnect, PlcConnect, connVars
  <2>3. m_status' \in [Fns -> {"IDEL", "BUSY"}]
    BY <2>1
  <2>4. /\ faults' \in 0..MaxFaults
        /\ m_connectionStatus' \in {"CONNECT_OK", "CONNECT_NO"}
    BY <1>8, <2>1 DEF PlcConnect, connVars
  <2> QED
    BY <1>8, <2>2, <2>3, <2>4 DEF Reconnect, plcVars, balanceVars
<1>9. ASSUME NEW f \in Fns, Noise(f) \/ BadData(f) PROVE IInv'
  <2>1. Answered(f) /\ ReportError(f) /\ m_balanceClTimer' \in {m_balanceClTimer, NoFn}
    BY <1>9 DEF Noise, BadData
  <2>2. cmd' \in [Fns -> Words] /\ faults' \in 0..MaxFaults
    BY <2>1, FinsTypes, WordsLemma DEF ReportError
  <2>3. asked' \in [Fns -> BOOLEAN] /\ m_status' \in [Fns -> {"IDEL", "BUSY"}]
    BY <2>1 DEF Answered, ReportError
  <2>4. HandleMatchesStatus' /\ m_sys' \in BOOLEAN
        /\ m_connectionStatus' \in {"CONNECT_OK", "CONNECT_NO"}
    BY <2>1 DEF ReportError, connVars
  <2> QED
    BY <2>1, <2>2, <2>3, <2>4 DEF ReportError
<1>10. ASSUME NEW f \in Fns, Steady(f) PROVE IInv'
  <2>1. served' \in [Fns -> BOOLEAN] /\ faults' \in 0..MaxFaults
    BY <1>10, FinsTypes, WordsLemma DEF Steady
  <2>2. asked' \in [Fns -> BOOLEAN]
    BY <1>10 DEF Steady, Answered
  <2>3. HandleMatchesStatus' /\ m_sys' \in BOOLEAN
        /\ m_connectionStatus' \in {"CONNECT_OK", "CONNECT_NO"}
    BY <1>10 DEF Steady, on_disconnect, connVars
  <2> QED
    BY <1>10, <2>1, <2>2, <2>3 DEF Steady, Answered
<1>11. ASSUME NEW f \in Fns, Unsteady(f) PROVE IInv'
  BY <1>11 DEF Unsteady, Answered, plcVars, connVars
<1>12. ASSUME NEW f \in Fns, WriteOK(f) PROVE IInv'
  <2>1. cmd' \in [Fns -> Words] /\ faults' \in 0..MaxFaults
    BY <1>12, FinsTypes, WordsLemma DEF WriteOK
  <2> QED
    BY <1>12, <2>1 DEF WriteOK, connVars, balanceVars
<1>13. CASE PollingEnded
  BY <1>13 DEF PollingEnded, plcVars, connVars
<1>14. CASE UNCHANGED vars
  BY <1>14 DEF vars
<1> QED
  BY <1>1, <1>2, <1>3, <1>4, <1>5, <1>6, <1>7, <1>8, <1>9, <1>10, <1>11,
     <1>12, <1>13, <1>14, NextCases DEF Step

(* The strengthened invariant holds of every behaviour.                    *)
THEOREM Inductive == Spec => []IInv
<1>1. Init => IInv
  BY InitPrompt DEF PromptInv, ExactInv
<1> QED
  BY <1>1, NextIInv, PTL DEF Spec

(* Every variable keeps its type, for any number of functions.             *)
THEOREM TypeCorrect == Spec => []TypeOK
<1>1. IInv => TypeOK
  BY DEF IInv
<1> QED
  BY <1>1, Inductive, PTL

(* Handle and status of the connection agree (PlcFins.cpp:139-170).        *)
THEOREM HandleStatus == Spec => []HandleMatchesStatus
<1>1. IInv => HandleMatchesStatus
  BY DEF IInv
<1> QED
  BY <1>1, Inductive, PTL

-----------------------------------------------------------------------------
(* What a function has under way for its command: it is busy with it, or   *)
(* its balance, in time, may still answer or is being polled.              *)
UnderWay(g) ==
  m_status[g] = "BUSY" \/ (g \in InTime /\ (asked[g] \/ m_balanceClTimer = g))

(* Nothing outlasts its command: what another function's failed write does *)
(* does not touch a function's own word, and what writes a function's own  *)
(* word leaves nothing of the function under way.                          *)
LEMMA NextOutlasts ==
  ASSUME ExactInv, IInv', [Next]_vars
  PROVE  NothingOutlastsItsCommand'
<1> SUFFICES ASSUME NEW g \in Fns \ LostReplies, UnderWay(g)'
             PROVE  cmd'[g] = EBALANCE_CZ
  BY DEF NothingOutlastsItsCommand, UnderWay
<1> USE DEF IInv, TypeOK
<1>0. IInv /\ (UnderWay(g) => cmd[g] = EBALANCE_CZ) /\ g # NoFn
  BY DEF ExactInv, NothingOutlastsItsCommand, UnderWay
<1>1. ASSUME NEW f \in Fns, NEW c \in Commands, PlcCommand(f, c)
      PROVE  cmd'[g] = EBALANCE_CZ
  BY <1>0, <1>1 DEF PlcCommand, Commands, UnderWay, balanceVars
<1>2. ASSUME NEW f \in Fns, DetectReadFails(f) \/ DetectQP(f) \/ Expire(f)
      PROVE  cmd'[g] = EBALANCE_CZ
  BY <1>0, <1>2 DEF DetectReadFails, DetectQP, Expire, plcVars, balanceVars, UnderWay
<1>3. ASSUME NEW f \in Fns, DetectCZ(f) PROVE cmd'[g] = EBALANCE_CZ
  BY <1>0, <1>3 DEF DetectCZ, AskBalance, plcVars, UnderWay
<1>4. ASSUME NEW f \in Fns, ValuePolling(f) \/ PollTimer(f)
      PROVE  cmd'[g] = EBALANCE_CZ
  BY <1>0, <1>4 DEF ValuePolling, PollTimer, AskBalance, plcVars, UnderWay
<1>w. ASSUME NEW f \in Fns, NEW word, NEW ok \in BOOLEAN, WriteCmd(f, word, ok)
      PROVE  /\ f # g => cmd'[g] = cmd[g]
             /\ f = g /\ ~ ok => cmd'[g] = cmd[g]
  BY <1>0, <1>w DEF WriteCmd
<1>5. ASSUME NEW f \in Fns, DetectTimeout(f) PROVE cmd'[g] = EBALANCE_CZ
  <2>1. PICK ok \in BOOLEAN :
          /\ WriteCmd(f, ERROR_TIMEOUT, ok)
          /\ IF ok THEN /\ m_status' = [m_status EXCEPT ![f] = "IDEL"]
                        /\ asked' = [asked EXCEPT ![f] = FALSE]
                        /\ UNCHANGED connVars
                   ELSE on_disconnect /\ UNCHANGED <<m_status, asked>>
    BY <1>5 DEF DetectTimeout
  <2>2. m_balanceClTimer' = m_balanceClTimer /\ (f \in InTime => m_balanceClTimer # f)
    BY <1>5 DEF DetectTimeout
  <2>3. CASE f = g /\ ok
    BY <1>0, <2>1, <2>2, <2>3 DEF UnderWay
  <2>4. CASE ~ (f = g /\ ok)
    <3>1. cmd'[g] = cmd[g]
      BY <1>w, <2>1, <2>4
    <3>2. UnderWay(g)
      BY <1>0, <2>1, <2>2, <2>4 DEF UnderWay
    <3> QED
      BY <1>0, <3>1, <3>2
  <2> QED
    BY <2>3, <2>4
<1>6. ASSUME NEW f \in Fns, Reconnect(f) PROVE cmd'[g] = EBALANCE_CZ
  <2>1. /\ cmd' = cmd /\ UNCHANGED <<asked, m_balanceClTimer>>
        /\ m_status' = m_status \/ m_status' = [m_status EXCEPT ![f] = "IDEL"]
    BY <1>6 DEF Reconnect, plcVars, balanceVars
  <2> QED
    BY <1>0, <2>1 DEF UnderWay
<1>7. ASSUME NEW f \in Fns, Noise(f) \/ BadData(f) PROVE cmd'[g] = EBALANCE_CZ
  <2>1. PICK ok \in BOOLEAN : WriteCmd(f, ERROR_RESULT, ok)
    BY <1>7 DEF Noise, BadData, ReportError
  <2>2. /\ m_status' = [m_status EXCEPT ![f] = "IDEL"]
        /\ asked' = [asked EXCEPT ![f] = FALSE]
        /\ f \in InTime => m_balanceClTimer' # f
        /\ m_balanceClTimer' \in {m_balanceClTimer, NoFn}
    BY <1>0, <1>7 DEF Noise, BadData, ReportError, Answered
  <2>3. f # g
    BY <1>0, <2>2 DEF UnderWay
  <2>4. cmd'[g] = cmd[g]
    BY <1>w, <2>1, <2>3
  <2>5. UnderWay(g)
    BY <1>0, <2>2, <2>3 DEF UnderWay
  <2> QED
    BY <1>0, <2>4, <2>5
<1>8. ASSUME NEW f \in Fns, Steady(f) PROVE cmd'[g] = EBALANCE_CZ
  BY <1>0, <1>8 DEF Steady, Answered, UnderWay
<1>9. ASSUME NEW f \in Fns, Unsteady(f) PROVE cmd'[g] = EBALANCE_CZ
  BY <1>0, <1>9 DEF Unsteady, Answered, UnderWay, plcVars
<1>10. ASSUME NEW f \in Fns, WriteOK(f) PROVE cmd'[g] = EBALANCE_CZ
  <2>1. PICK ok \in BOOLEAN : WriteCmd(f, OK, ok)
    BY <1>10 DEF WriteOK
  <2>2. /\ acking = f /\ m_status' = [m_status EXCEPT ![f] = "IDEL"]
        /\ UNCHANGED <<asked, m_balanceClTimer>>
    BY <1>10 DEF WriteOK, balanceVars
  <2>3. f # g
    BY <1>0, <2>2 DEF UnderWay, ExactInv, AckingQuiet, Prompt
  <2>4. cmd'[g] = cmd[g]
    BY <1>w, <2>1, <2>3
  <2> QED
    BY <1>0, <2>2, <2>3, <2>4 DEF UnderWay
<1>11. CASE PollingEnded
  BY <1>0, <1>11 DEF PollingEnded, plcVars, UnderWay
<1>12. CASE UNCHANGED vars
  BY <1>0, <1>12 DEF vars, UnderWay
<1> QED
  BY <1>1, <1>2, <1>3, <1>4, <1>5, <1>6, <1>7, <1>8, <1>9, <1>10, <1>11,
     <1>12, NextCases DEF Step

(* AckingQuiet is preserved: a tare is no weighing, and with a steady      *)
(* value the balance's polling ends.                                       *)
LEMMA NextQuiet ==
  ASSUME ExactInv, [Next]_vars
  PROVE  AckingQuiet'
<1> USE DEF ExactInv, IInv, TypeOK, AckingQuiet
<1>0. Prompt \subseteq Fns /\ NoFn \notin Prompt
  BY DEF Prompt
<1>1. ASSUME NEW f \in Fns,
             \/ \E c \in Commands : PlcCommand(f, c)
             \/ Expire(f)
      PROVE  AckingQuiet'
  BY <1>1 DEF PlcCommand, Expire, balanceVars
<1>2. ASSUME NEW f \in Fns, DetectQP(f) PROVE AckingQuiet'
  <2>1. acking' = f /\ cmd[f] # EBALANCE_CZ /\ UNCHANGED <<asked, m_balanceClTimer>>
    BY <1>2 DEF DetectQP, balanceVars, EBALANCE_QP, EBALANCE_CZ
  <2> QED
    BY <2>1 DEF NothingOutlastsItsCommand, Prompt
<1>3. ASSUME NEW f \in Fns, Steady(f) PROVE AckingQuiet'
  <2>1. /\ acking' \in {f, NoFn} /\ m_balanceClTimer' = NoFn
        /\ asked' = [asked EXCEPT ![f] = FALSE]
    BY <1>3 DEF Steady, Answered, Idle
  <2> QED
    BY <1>0, <2>1
<1>4. ASSUME NEW f \in Fns,
             \/ DetectReadFails(f) \/ DetectCZ(f) \/ DetectTimeout(f)
             \/ ValuePolling(f) \/ PollTimer(f) \/ Reconnect(f)
             \/ Noise(f) \/ BadData(f) \/ Unsteady(f) \/ WriteOK(f)
      PROVE  acking' = NoFn
  BY <1>4 DEF DetectReadFails, DetectCZ, DetectTimeout, ValuePolling, PollTimer,
     Reconnect, Noise, BadData, Unsteady, ReportError, Answered, Idle, WriteOK
<1>5. CASE PollingEnded
  BY <1>0, <1>5 DEF PollingEnded, Idle
<1>6. CASE UNCHANGED vars
  BY <1>6 DEF vars
<1> QED
  BY <1>0, <1>1, <1>2, <1>3, <1>4, <1>5, <1>6, NextCases DEF Step

(* Nothing the hub does for a command outlasts it, however many functions  *)
(* share the connection and the poll timer and in whatever order timeouts, *)
(* answers, polls, faults and reconnections come; with balances not in     *)
(* time among the others (PlcFins.cpp:210-261, 335-351,                    *)
(* equipment.cpp:45-49).                                                   *)
THEOREM NothingOutlasts == Spec => []NothingOutlastsItsCommand
<1>1. Init => ExactInv
  BY InitPrompt DEF PromptInv
<1>2. ExactInv /\ [Next]_vars => ExactInv'
  <2>1. ExactInv /\ [Next]_vars => IInv'
    BY NextIInv DEF ExactInv
  <2> QED
    BY <2>1, NextOutlasts, NextQuiet DEF ExactInv
<1>3. ExactInv => NothingOutlastsItsCommand
  BY DEF ExactInv
<1> QED
  BY <1>1, <1>2, <1>3, PTL DEF Spec

-----------------------------------------------------------------------------
(* AckingServed is preserved: a balance in time answers for the weighing   *)
(* that is still in the command word.                                      *)
LEMMA NextAcking ==
  ASSUME PromptInv, [Next]_vars
  PROVE  AckingServed'
<1> USE DEF PromptInv, ExactInv, IInv, TypeOK, AckingServed
<1>0. Prompt \subseteq Fns
  BY DEF Prompt
<1>1. ASSUME NEW f \in Fns, NEW c \in Commands, PlcCommand(f, c)
      PROVE  AckingServed'
  BY <1>0, <1>1 DEF PlcCommand
<1>2. ASSUME NEW f \in Fns,
             \/ DetectReadFails(f) \/ DetectCZ(f) \/ ValuePolling(f)
             \/ PollTimer(f) \/ DetectTimeout(f) \/ Reconnect(f)
             \/ Noise(f) \/ BadData(f) \/ Unsteady(f) \/ WriteOK(f)
      PROVE  AckingServed'
  <2>1. acking' = NoFn
    BY <1>2 DEF DetectReadFails, DetectCZ, ValuePolling, PollTimer, DetectTimeout,
                Reconnect, Noise, BadData, Unsteady, ReportError, Answered, Idle,
                WriteOK
  <2> QED
    BY <1>0, <2>1
<1>3. ASSUME NEW f \in Fns, DetectQP(f) PROVE AckingServed'
  BY <1>0, <1>3 DEF DetectQP, Commands
<1>4. ASSUME NEW f \in Fns, Expire(f) PROVE AckingServed'
  BY <1>4 DEF Expire, plcVars
<1>5. ASSUME NEW f \in Fns, Steady(f) PROVE AckingServed'
  <2>1. PICK ok \in BOOLEAN :
          /\ WriteData(f, ok)
          /\ IF ok THEN acking' = f /\ UNCHANGED connVars
                   ELSE on_disconnect /\ UNCHANGED acking
    BY <1>5 DEF Steady
  <2>2. acking = NoFn /\ cmd' = cmd
    BY <1>5 DEF Steady, Answered, Idle
  <2>3. CASE ok /\ f \in Prompt
    <3>1. cmd[f] = EBALANCE_CZ
      BY <1>5, <2>3 DEF Steady, Answered, NothingOutlastsItsCommand, Prompt
    <3>2. served' = [served EXCEPT ![f] = @ \/ cmd[f] = EBALANCE_CZ] /\ acking' = f
      BY <2>1, <2>3 DEF WriteData, DataWritten
    <3>3. served'[f]
      BY <3>1, <3>2
    <3> QED
      BY <2>2, <3>1, <3>2, <3>3 DEF Commands
  <2>4. CASE ok /\ f \notin Prompt
    BY <2>1, <2>4
  <2>5. CASE ~ ok
    BY <1>0, <2>1, <2>2, <2>5
  <2> QED
    BY <2>3, <2>4, <2>5
<1>6. CASE PollingEnded
  BY <1>6 DEF PollingEnded, plcVars
<1>7. CASE UNCHANGED vars
  BY <1>7 DEF vars
<1> QED
  BY <1>1, <1>2, <1>3, <1>4, <1>5, <1>6, <1>7, NextCases DEF Step

(* What the PLC's program sees of the functions in time.                   *)
word == [f \in Prompt |-> cmd[f]]
done == [f \in Prompt |-> served[f]]

(* A step of one function changes no other function's words.               *)
LEMMA OthersUntouched ==
  ASSUME IInv, NEW f \in Fns, Step(f)
  PROVE  \A g \in Fns \ {f} : cmd'[g] = cmd[g] /\ served'[g] = served[g]
<1> USE DEF IInv, TypeOK, Step
<1>1. cmd' = cmd \/ \E w : cmd' = [cmd EXCEPT ![f] = w]
  BY DEF PlcCommand, DetectReadFails, DetectQP, DetectCZ, DetectTimeout, Expire,
         ValuePolling, PollTimer, Reconnect, Noise, BadData, Unsteady, Steady,
         ReportError, WriteOK, WriteCmd, plcVars
<1>2. served' = served \/ \E d : served' = [served EXCEPT ![f] = d]
  BY DEF PlcCommand, DetectReadFails, DetectQP, DetectCZ, DetectTimeout, Expire,
         ValuePolling, PollTimer, Reconnect, Noise, BadData, Unsteady, Steady,
         ReportError, WriteOK, WriteData, DataWritten, plcVars
<1> QED
  BY <1>1, <1>2

(* Every step is a step of the protocol, or none of it.                    *)
LEMMA StepSimulated ==
  ASSUME PromptInv, [Next]_vars
  PROVE  [Protocol!Next]_Protocol!vars
<1> USE DEF PromptInv, ExactInv, IInv, TypeOK, Protocol!Next
<1>v. word' = word /\ done' = done => UNCHANGED Protocol!vars
  BY DEF Protocol!vars, word, done
<1>w. ASSUME NEW f \in Prompt, NEW w, cmd' = [cmd EXCEPT ![f] = w]
      PROVE  word' = [word EXCEPT ![f] = w]
  BY <1>w DEF word, Prompt
<1>d. ASSUME NEW f \in Prompt, NEW d, served' = [served EXCEPT ![f] = d]
      PROVE  done' = [done EXCEPT ![f] = d]
  BY <1>d DEF done, Prompt
<1>e. /\ cmd' = cmd => word' = word
      /\ served' = served => done' = done
      /\ \A f \in Prompt : f \in Fns /\ word[f] = cmd[f] /\ done[f] = served[f]
  BY DEF word, done, Prompt
<1>1. ASSUME NEW f \in Prompt, NEW c \in Commands, PlcCommand(f, c)
      PROVE  Protocol!Next
  <2>1. word' = [word EXCEPT ![f] = c] /\ done' = [done EXCEPT ![f] = FALSE]
    BY <1>1, <1>w, <1>d DEF PlcCommand
  <2>2. Protocol!Issue(f, c)
    BY <1>1, <1>e, <2>1 DEF PlcCommand, Protocol!Issue, word, done
  <2> QED
    BY <2>2
<1>2. ASSUME NEW f \in Prompt,
             \/ DetectReadFails(f) \/ DetectCZ(f) \/ ValuePolling(f)
             \/ PollTimer(f) \/ Expire(f) \/ Reconnect(f) \/ Unsteady(f)
      PROVE  UNCHANGED Protocol!vars
  <2>1. cmd' = cmd /\ served' = served
    BY <1>2 DEF DetectReadFails, DetectCZ, ValuePolling, PollTimer, Expire,
                Reconnect, Unsteady, plcVars
  <2> QED
    BY <1>v, <1>e, <2>1
<1>3. ASSUME NEW f \in Prompt, DetectQP(f) PROVE Protocol!Next
  <2>1. word' = word /\ done' = [done EXCEPT ![f] = TRUE] /\ word[f] \in Commands
    BY <1>3, <1>d, <1>e DEF DetectQP, Commands
  <2>2. Protocol!Perform(f)
    BY <2>1 DEF Protocol!Perform, word, done
  <2> QED
    BY <2>2
<1>4. ASSUME NEW f \in Prompt, NEW ok \in BOOLEAN, NEW e \in Errors,
             cmd[f] \in Commands, WriteCmd(f, e, ok), UNCHANGED served
      PROVE  [Protocol!Next]_Protocol!vars
  <2>1. CASE cmd' = cmd
    BY <1>4, <1>v, <1>e, <2>1
  <2>2. CASE cmd' = [cmd EXCEPT ![f] = e]
    <3>1. word' = [word EXCEPT ![f] = e] /\ done' = done /\ word[f] \in Commands
      BY <1>4, <1>w, <1>e, <2>2
    <3>2. Protocol!Fail(f, e)
      BY <3>1 DEF Protocol!Fail, word, done
    <3> QED
      BY <3>2
  <2> QED
    BY <1>4, <2>1, <2>2 DEF WriteCmd
<1>5. ASSUME NEW f \in Prompt, DetectTimeout(f) PROVE [Protocol!Next]_Protocol!vars
  <2>1. cmd[f] \in Commands /\ ERROR_TIMEOUT \in Errors
    BY <1>5, <1>e
    DEF DetectTimeout, NothingOutlastsItsCommand, Commands, Errors, Prompt
  <2> QED
    BY <1>4, <1>5, <2>1 DEF DetectTimeout
<1>6. ASSUME NEW f \in Prompt, Noise(f) \/ BadData(f)
      PROVE  [Protocol!Next]_Protocol!vars
  <2>1. cmd[f] \in Commands /\ ERROR_RESULT \in Errors
    BY <1>6
    DEF Noise, BadData, Answered, NothingOutlastsItsCommand, Commands, Errors, Prompt
  <2>2. ReportError(f)
    BY <1>6 DEF Noise, BadData
  <2> QED
    BY <1>4, <2>1, <2>2 DEF ReportError
<1>7. ASSUME NEW f \in Prompt, Steady(f) PROVE [Protocol!Next]_Protocol!vars
  <2>2. cmd[f] = EBALANCE_CZ /\ cmd' = cmd
    BY <1>7 DEF NothingOutlastsItsCommand, Steady, Answered, Prompt
  <2>3. served' = [served EXCEPT ![f] = TRUE] \/ served' = served
    BY <1>7, <2>2 DEF Steady, WriteData, DataWritten
  <2>4. CASE served' = served
    BY <1>v, <1>e, <2>2, <2>4
  <2>5. CASE served' = [served EXCEPT ![f] = TRUE]
    <3>1. word' = word /\ done' = [done EXCEPT ![f] = TRUE] /\ word[f] \in Commands
      BY <1>d, <1>e, <2>2, <2>5 DEF Commands
    <3>2. Protocol!Perform(f)
      BY <3>1 DEF Protocol!Perform, word, done
    <3> QED
      BY <3>2
  <2> QED
    BY <2>3, <2>4, <2>5
<1>8. ASSUME NEW f \in Prompt, WriteOK(f) PROVE [Protocol!Next]_Protocol!vars
  <2>1. cmd[f] \in Commands /\ served[f] /\ served' = served
    BY <1>8 DEF WriteOK, AckingServed
  <2>2. cmd' = [cmd EXCEPT ![f] = OK] \/ cmd' = cmd
    BY <1>8 DEF WriteOK, WriteCmd
  <2>3. CASE cmd' = cmd
    BY <1>v, <1>e, <2>1, <2>3
  <2>4. CASE cmd' = [cmd EXCEPT ![f] = OK]
    <3>1. /\ word' = [word EXCEPT ![f] = OK] /\ done' = done
          /\ word[f] \in Commands /\ done[f]
      BY <1>w, <1>e, <2>1, <2>4
    <3>2. Protocol!Succeed(f)
      BY <3>1 DEF Protocol!Succeed, word, done
    <3> QED
      BY <3>2
  <2> QED
    BY <2>2, <2>3, <2>4
<1>9. CASE UNCHANGED vars
  BY <1>9, <1>v, <1>e DEF vars
<1>10. CASE PollingEnded
  BY <1>10, <1>v, <1>e DEF PollingEnded, plcVars
<1>11. ASSUME NEW f \in Fns, Step(f) PROVE [Protocol!Next]_Protocol!vars
  <2>2. CASE f \in Prompt
    BY <1>1, <1>2, <1>3, <1>5, <1>6, <1>7, <1>8, <1>11, <2>2 DEF Step
  <2>3. CASE f \notin Prompt
    <3>1. \A g \in Fns \ {f} : cmd'[g] = cmd[g] /\ served'[g] = served[g]
      BY <1>11, OthersUntouched
    <3>2. word' = word /\ done' = done
      BY <2>3, <3>1 DEF word, done, Prompt
    <3> QED
      BY <1>v, <3>2
  <2> QED
    BY <2>2, <2>3
<1> QED
  BY <1>9, <1>10, <1>11, NextCases

(* The functions whose balances are in time and whose failed writes had no *)
(* effect keep the protocol of the PLC's program, however many functions   *)
(* share the connection and the poll timer and whatever befalls the        *)
(* others: no success without the tare sent or the value written, no       *)
(* result overwritten (PlcFins.cpp:210-261, 285-367,                       *)
(* ElecBalance.cpp:45-66).                                                 *)
THEOREM Refinement == Spec => ImplementsPlcProtocol
<1>1. Init => PromptInv
  BY InitPrompt
<1>2. PromptInv /\ [Next]_vars => PromptInv'
  <2>1. PromptInv /\ [Next]_vars => IInv'
    BY NextIInv DEF PromptInv, ExactInv
  <2> QED
    BY <2>1, NextOutlasts, NextQuiet, NextAcking DEF PromptInv, ExactInv
<1>3. Init => Protocol!Init
  BY DEF Init, Protocol!Init, Prompt
<1>4. PromptInv /\ [Next]_vars => [Protocol!Next]_Protocol!vars
  BY StepSimulated
<1> QED
  BY <1>1, <1>2, <1>3, <1>4, PTL DEF Spec, ImplementsPlcProtocol, Protocol!Spec
=============================================================================
