------------------------------- MODULE PlcFins -------------------------------
(***************************************************************************)
(* The functions a PLC drives through the hub (transcation/PlcFins.cpp).   *)
(* Every function is a PlcFins object with a command word and a data word  *)
(* in the PLC's memory and a balance on a serial line; all of them share   *)
(* one Plc object, the FINS connection (FunctionManager.cpp:68-113).       *)
(*                                                                         *)
(* The hub is one thread and its callbacks run to the end, but the PLC     *)
(* runs in parallel: it may look at its memory, and write a new command,   *)
(* between two FINS operations of one callback.  Callbacks that perform    *)
(* two such writes are therefore split where the PLC could see it.         *)
(***************************************************************************)
EXTENDS Naturals

CONSTANTS
  Fns,           \* the functions (PlcFins objects)
  NoFn,          \* no function
  MaxFaults,     \* bound on the FINS operations that fail
  InTime,        \* functions whose balance is in time: it answers in one piece
                 \* before it is asked again or not at all, and once it has been
                 \* unsteady it is steady before the function gives up
  LostReplies    \* functions whose failed FINS writes the PLC may have executed

ASSUME PlcFinsAssumption ==
  /\ NoFn \notin Fns
  /\ MaxFaults \in Nat
  /\ InTime \subseteq Fns /\ LostReplies \subseteq Fns

(* Values of the command word (PlcFins.h:16-23).                           *)
OK == 0
EBALANCE_QP == 1
EBALANCE_CZ == 3
ERROR_TIMEOUT == 4
ERROR_RESULT == 6
Commands == {EBALANCE_QP, EBALANCE_CZ}
Errors == {ERROR_TIMEOUT, ERROR_RESULT}
Words == {OK} \cup Commands \cup Errors

VARIABLES
  cmd,                  \* the command word of each function, in the PLC
  served,               \* since the command was issued: "%ET" was sent for a
                        \* QP, the data word was written for a CZ
  m_status,             \* PLC_STATUS_BUSY or PLC_STATUS_IDEL
  expired,              \* more than 15 s have passed since m_startTime
  asked,                \* a balance in time may still answer the last "%ER"
  m_balanceClTimer,     \* the function whose balance is polled by the timer of
                        \* this name; NoFn for -1 and for another component's
  acking,               \* the function about to write OK, or NoFn
  m_sys,                \* Plc::m_sys is not NULL
  m_connectionStatus,   \* Plc::m_connectionStatus
  faults                \* FINS operations that may still fail

plcVars == <<cmd, served>>
connVars == <<m_sys, m_connectionStatus>>
balanceVars == <<asked, m_balanceClTimer>>
vars == <<cmd, served, m_status, expired, asked, m_balanceClTimer, acking,
          m_sys, m_connectionStatus, faults>>

TypeOK ==
  /\ cmd \in [Fns -> Words]
  /\ served \in [Fns -> BOOLEAN]
  /\ m_status \in [Fns -> {"IDEL", "BUSY"}]
  /\ expired \in [Fns -> BOOLEAN]
  /\ asked \in [Fns -> BOOLEAN]
  /\ m_balanceClTimer \in Fns \cup {NoFn}
  /\ acking \in Fns \cup {NoFn}
  /\ m_sys \in BOOLEAN
  /\ m_connectionStatus \in {"CONNECT_OK", "CONNECT_NO"}
  /\ faults \in 0..MaxFaults

Init ==
  /\ cmd = [f \in Fns |-> OK]
  /\ served = [f \in Fns |-> FALSE]
  /\ m_status = [f \in Fns |-> "IDEL"]
  /\ expired = [f \in Fns |-> FALSE]
  /\ asked = [f \in Fns |-> FALSE]
  /\ m_balanceClTimer = NoFn
  /\ acking = NoFn
  /\ m_sys = FALSE
  /\ m_connectionStatus = "CONNECT_NO"
  /\ faults = MaxFaults

-----------------------------------------------------------------------------
(* FINS operations (libfins, external): with a NULL handle they fail at    *)
(* once; otherwise they succeed, or a fault makes them fail.               *)
FinsOk == m_sys /\ UNCHANGED faults
FinsFails == IF m_sys THEN faults > 0 /\ faults' = faults - 1
             ELSE UNCHANGED faults

(* finslib_memory_area_write_word to the command word, with its result.    *)
WriteCmd(f, word, ok) ==
  \/ ok /\ FinsOk /\ cmd' = [cmd EXCEPT ![f] = word]
  \/ ~ ok /\ FinsFails /\ UNCHANGED cmd
  \/ ~ ok /\ m_sys /\ f \in LostReplies /\ FinsFails /\ cmd' = [cmd EXCEPT ![f] = word]

(* finslib_memory_area_write_int32 to the data word, which serves a        *)
(* weighing that is waiting for it.                                        *)
DataWritten(f) == served' = [served EXCEPT ![f] = @ \/ cmd[f] = EBALANCE_CZ]
WriteData(f, ok) ==
  \/ ok /\ FinsOk /\ DataWritten(f)
  \/ ~ ok /\ FinsFails /\ UNCHANGED served
  \/ ~ ok /\ m_sys /\ f \in LostReplies /\ FinsFails /\ DataWritten(f)

(* Plc::on_disconnect: the handle is given up and the status reset.        *)
on_disconnect == m_sys' = FALSE /\ m_connectionStatus' = "CONNECT_NO"

(* "%ER" is handed to the balance's serial line.  What balances that are   *)
(* not in time owe is not counted: they may answer at any time.            *)
AskBalance(f) == asked' = [asked EXCEPT ![f] = f \in InTime]

(* No callback is between its two writes.                                  *)
Idle == acking = NoFn

-----------------------------------------------------------------------------
(* The PLC's program puts a command into the word of a function once the   *)
(* word holds a result.                                                    *)
PlcCommand(f, c) ==
  /\ cmd[f] \notin Commands
  /\ cmd' = [cmd EXCEPT ![f] = c]
  /\ served' = [served EXCEPT ![f] = FALSE]
  /\ UNCHANGED <<m_status, expired, balanceVars, acking, connVars, faults>>

(* m_detect, function idle and connection up: the command word is read; a  *)
(* failure drops the connection.                                           *)
DetectReadFails(f) ==
  /\ Idle /\ m_status[f] = "IDEL" /\ m_sys
  /\ FinsFails
  /\ on_disconnect
  /\ UNCHANGED <<plcVars, m_status, expired, balanceVars, acking>>

(* Mutant of DetectQP: OK is written without sending "%ET".                *)
DetectQP_Mut(f) ==
  /\ Idle /\ m_status[f] = "IDEL" /\ FinsOk
  /\ cmd[f] = EBALANCE_QP
  /\ acking' = f
  /\ UNCHANGED <<plcVars, m_status, expired, balanceVars, connVars>>

(* m_detect reads QP: "%ET" is sent to the balance, then OK is written.    *)
DetectQP(f) ==
  /\ Idle /\ m_status[f] = "IDEL" /\ FinsOk
  /\ cmd[f] = EBALANCE_QP
  /\ served' = [served EXCEPT ![f] = TRUE]
  /\ acking' = f
  /\ UNCHANGED <<cmd, m_status, expired, balanceVars, connVars>>

(* m_detect reads CZ: "%ER" is sent, the function is busy from now on.     *)
DetectCZ(f) ==
  /\ Idle /\ m_status[f] = "IDEL" /\ FinsOk
  /\ cmd[f] = EBALANCE_CZ
  /\ AskBalance(f)
  /\ m_status' = [m_status EXCEPT ![f] = "BUSY"]
  /\ expired' = [expired EXCEPT ![f] = FALSE]
  /\ UNCHANGED <<plcVars, m_balanceClTimer, acking, connVars>>

(* Mutant of DetectTimeout: the function gives up without reporting.       *)
DetectTimeout_Mut(f) ==
  /\ Idle /\ m_status[f] = "BUSY" /\ expired[f]
  /\ f \in InTime => m_balanceClTimer # f
  /\ m_status' = [m_status EXCEPT ![f] = "IDEL"]
  /\ asked' = [asked EXCEPT ![f] = FALSE]
  /\ UNCHANGED <<plcVars, expired, m_balanceClTimer, acking, connVars, faults>>

(* m_detect, function busy for more than 15 s: a timeout is reported; if   *)
(* that fails the connection is dropped and the function stays busy.  The  *)
(* balance goes on polling itself, if it does.  A balance in time does not *)
(* poll any more, and does not answer after this.                          *)
DetectTimeout(f) ==
  /\ Idle /\ m_status[f] = "BUSY" /\ expired[f]
  /\ f \in InTime => m_balanceClTimer # f
  /\ \E ok \in BOOLEAN :
       /\ WriteCmd(f, ERROR_TIMEOUT, ok)
       /\ IF ok THEN /\ m_status' = [m_status EXCEPT ![f] = "IDEL"]
                     /\ asked' = [asked EXCEPT ![f] = FALSE]
                     /\ UNCHANGED connVars
                ELSE on_disconnect /\ UNCHANGED <<m_status, asked>>
  /\ UNCHANGED <<served, expired, m_balanceClTimer, acking>>

(* Time passes: 15 s since m_startTime are over.                           *)
Expire(f) ==
  /\ m_status[f] = "BUSY" /\ ~ expired[f]
  /\ expired' = [expired EXCEPT ![f] = TRUE]
  /\ UNCHANGED <<plcVars, m_status, balanceVars, acking, connVars, faults>>

(* m_valuePolling: a busy function asks its balance again.                 *)
ValuePolling(f) ==
  /\ Idle /\ m_status[f] = "BUSY"
  /\ AskBalance(f)
  /\ UNCHANGED <<plcVars, m_status, expired, m_balanceClTimer, acking, connVars,
                 faults>>

(* The balance's own poll timer, which an unsteady value has started: it   *)
(* asks the balance whether the function is busy or not.  A poll timer     *)
(* that is not m_balanceClTimer any more does nothing.                     *)
PollTimer(f) ==
  /\ Idle /\ m_balanceClTimer = f
  /\ AskBalance(f)
  /\ UNCHANGED <<plcVars, m_status, expired, m_balanceClTimer, acking, connVars,
                 faults>>

(* Plc::Connect with its result: nothing to do when the status says so.    *)
PlcConnect(ok) ==
  \/ ok /\ m_connectionStatus = "CONNECT_OK" /\ UNCHANGED <<connVars, faults>>
  \/ /\ ok /\ m_connectionStatus = "CONNECT_NO"
     /\ m_sys' = TRUE /\ m_connectionStatus' = "CONNECT_OK"
     /\ UNCHANGED faults
  \/ /\ ~ ok /\ m_connectionStatus = "CONNECT_NO"
     /\ faults > 0 /\ faults' = faults - 1
     /\ m_sys' = FALSE /\ UNCHANGED m_connectionStatus

(* m_reconnect without a handle: the function whose timer fired connects   *)
(* and, when that succeeds, becomes idle; the others keep their status.    *)
Reconnect(f) ==
  /\ Idle /\ ~ m_sys
  /\ \E ok \in BOOLEAN :
       /\ PlcConnect(ok)
       /\ m_status' = IF ok THEN [m_status EXCEPT ![f] = "IDEL"] ELSE m_status
  /\ UNCHANGED <<plcVars, expired, balanceVars, acking>>

(* Something comes from the balance: from one in time the answer to the    *)
(* last "%ER", from any other anything at any time, as often as it likes,  *)
(* whether the function is busy or not.                                    *)
Answered(f) ==
  /\ Idle
  /\ f \in InTime => asked[f]
  /\ asked' = [asked EXCEPT ![f] = FALSE]

(* UpdateInfo with an error text: the error is reported and the function   *)
(* is idle, whatever became of the write and of the function before.       *)
ReportError(f) ==
  /\ \E ok \in BOOLEAN : WriteCmd(f, ERROR_RESULT, ok)
  /\ m_status' = [m_status EXCEPT ![f] = "IDEL"]
  /\ UNCHANGED <<served, expired, acking, connVars>>

(* An answer that does not begin with K, as the rest of one that was read  *)
(* in pieces: "errorFrame", and the balance's own polling goes on.         *)
Noise(f) ==
  /\ f \notin InTime
  /\ Answered(f)
  /\ ReportError(f)
  /\ UNCHANGED m_balanceClTimer

(* Mutant of BadData: ERROR_CMD (2), which is no weighing result.          *)
BadData_Mut(f) ==
  /\ Answered(f)
  /\ m_balanceClTimer' = NoFn
  /\ \E ok \in BOOLEAN : WriteCmd(f, 2, ok)
  /\ m_status' = [m_status EXCEPT ![f] = "IDEL"]
  /\ UNCHANGED <<served, expired, acking, connVars>>

(* K and what is no value: polling ends, whoever's it is; "errorData".     *)
BadData(f) ==
  /\ Answered(f)
  /\ m_balanceClTimer' = NoFn
  /\ ReportError(f)

(* K*: nothing reaches UpdateInfo.  The balance is polled from now on,     *)
(* unless the timer is set, by another balance's K*.                       *)
Unsteady(f) ==
  /\ Answered(f)
  /\ m_balanceClTimer' \in IF m_balanceClTimer = NoFn THEN {f, NoFn}
                                                     ELSE {m_balanceClTimer}
  /\ UNCHANGED <<plcVars, m_status, expired, acking, connVars, faults>>

(* Mutant of Steady: the balance's own polling goes on.                    *)
Steady_Mut(f) ==
  /\ Answered(f)
  /\ \E ok \in BOOLEAN :
       /\ WriteData(f, ok)
       /\ IF ok THEN acking' = f /\ UNCHANGED connVars
                ELSE on_disconnect /\ UNCHANGED acking
  /\ UNCHANGED <<cmd, m_status, expired, m_balanceClTimer>>

(* K and a steady value: polling ends, whoever's it is, and UpdateInfo     *)
(* writes the data word; if that fails the connection is dropped and the   *)
(* callback returns.                                                       *)
Steady(f) ==
  /\ Answered(f)
  /\ m_balanceClTimer' = NoFn
  /\ \E ok \in BOOLEAN :
       /\ WriteData(f, ok)
       /\ IF ok THEN acking' = f /\ UNCHANGED connVars
                ELSE on_disconnect /\ UNCHANGED acking
  /\ UNCHANGED <<cmd, m_status, expired>>

(* Another component ends the polling: a balance of a transcation has a    *)
(* value, or a Task times out.                                             *)
PollingEnded ==
  /\ Idle
  /\ m_balanceClTimer' = NoFn
  /\ UNCHANGED <<plcVars, m_status, expired, asked, acking, connVars, faults>>

(* The second write of DetectQP and of Steady: OK goes into the command    *)
(* word, the result of the write is ignored, the function is idle.         *)
WriteOK(f) ==
  /\ acking = f
  /\ \E ok \in BOOLEAN : WriteCmd(f, OK, ok)
  /\ acking' = NoFn
  /\ m_status' = [m_status EXCEPT ![f] = "IDEL"]
  /\ UNCHANGED <<served, expired, balanceVars, connVars>>

OnDetect(f) ==
  DetectReadFails(f) \/ DetectQP(f) \/ DetectCZ(f) \/ DetectTimeout(f)

OnData(f) == Noise(f) \/ BadData(f) \/ Unsteady(f) \/ Steady(f)

Next ==
  \/ \E f \in Fns :
       \/ \E c \in Commands : PlcCommand(f, c)
       \/ OnDetect(f) \/ ValuePolling(f) \/ Reconnect(f)
       \/ Expire(f) \/ PollTimer(f) \/ OnData(f) \/ WriteOK(f)
  \/ PollingEnded

Spec == Init /\ [][Next]_vars

(* The periodic timers of every function fire again and again, whatever    *)
(* else keeps the loop busy; time passes; a callback that has started      *)
(* ends.  Nothing is assumed of the PLC's program, and of a balance only   *)
(* what InTime says: one that is polled is steady in the end.              *)
Fairness ==
  /\ \A f \in Fns : /\ SF_vars(OnDetect(f)) /\ SF_vars(Reconnect(f))
                    /\ WF_vars(Expire(f)) /\ WF_vars(WriteOK(f))
  /\ \A f \in InTime : SF_vars(PollTimer(f)) /\ SF_vars(Steady(f))

FairSpec == Spec /\ Fairness

-----------------------------------------------------------------------------
(* Nothing the hub does for a command outlasts it, in every order of       *)
(* answers, timeouts, faults, reconnections and polls of both kinds: a     *)
(* function is busy with the weighing the PLC still waits for, so that no  *)
(* timeout is written over another command; and while the balance in time  *)
(* is polled or may answer, the weighing it was asked for is still in the  *)
(* command word, so that a result is written over no other command either. *)
(* A balance that is not in time breaks this: its answers are taken by an  *)
(* idle function as well (PlcFins.cpp:210-261, 335-351,                    *)
(* equipment.cpp:45-49).                                                   *)
NothingOutlastsItsCommand ==
  \A f \in Fns \ LostReplies :
    m_status[f] = "BUSY" \/ (f \in InTime /\ (asked[f] \/ m_balanceClTimer = f))
      => cmd[f] = EBALANCE_CZ

(* Every command the PLC issues gets a result, even when the connection is *)
(* lost while it is being performed, as long as the faults end: whoever    *)
(* becomes idle without reporting finds the command again                  *)
(* (PlcFins.cpp:285-367).                                                  *)
EveryCommandAnswered ==
  \A f \in Fns : cmd[f] \in Commands ~> cmd[f] \notin Commands

(* The function's side of the protocol the PLC's program relies on:        *)
(* success is reported only for a tare that was sent and a weighing whose  *)
(* value has been written, and a result is not overwritten before the next *)
(* command.  It is kept for every function whose balance is in time and    *)
(* whose failed writes had no effect, whatever the others suffer on the    *)
(* connection and the poll timer they share (PlcFins.cpp:210-261, 292-351, *)
(* ElecBalance.cpp:45-66).                                                 *)
Prompt == InTime \ LostReplies
Protocol == INSTANCE PlcProtocol
              WITH Fns <- Prompt, Success <- OK, Failures <- Errors,
                   word <- [f \in Prompt |-> cmd[f]],
                   done <- [f \in Prompt |-> served[f]]
ImplementsPlcProtocol == Protocol!Spec
=============================================================================
