--------------------------- MODULE MachineEvents ---------------------------
(***************************************************************************)
(* The events of one machine (transcation/machine.cpp, ev_respond.cpp):    *)
(* the PLC puts a sequence number and the data of an event into its block, *)
(* the hub polls the blocks, reports an event whose number is new to the   *)
(* upper computer and acknowledges it with the same number; over FINS or   *)
(* Modbus RTU (transcation/PlcProxy.cpp), with lost connections, restarts  *)
(* of the hub and the heartbeat.                                           *)
(*                                                                         *)
(* The hub has one thread, but reads and writes go to a PLC that runs on:  *)
(* an action is what the hub does up to its next access of the PLC.  The   *)
(* events are numbered in the order the machine's maps hold them.          *)
(*                                                                         *)
(* An access over RTU ends as a call of BlockingCall that can be trusted:  *)
(* it fails, or its answer is the one to this access.                      *)
(***************************************************************************)
EXTENDS Integers

CONSTANTS
  NumEvents,
  HeartBeat,     \* the place of the name "HeartBeat" among the events
  Yields,        \* events of the kind MachineYield; the others are of the
                 \* kinds AlarmCode and MachineStatus
  Impatient,     \* events the PLC may issue before the last is acknowledged
  SequenceIds,   \* how many sequence numbers there are: 65536 in the code
  MaxRestarts    \* bound on the restarts of the hub

Reporters == 1..NumEvents \ {HeartBeat}
Patient == Reporters \ Impatient

ASSUME EventsAssumption ==
  /\ NumEvents \in Nat /\ HeartBeat \in 1..NumEvents
  /\ Yields \subseteq Reporters /\ Impatient \subseteq Reporters
ASSUME SequenceAssumption == SequenceIds \in Nat \ {0}
ASSUME RestartsAssumption == MaxRestarts \in Nat

Ids == 0 .. SequenceIds - 1

(* The unsigned short -1 the constructor of Event sets.                    *)
StartId == SequenceIds - 1

VARIABLES
  proto,           \* the protocol of the machine's PLC
  hasHeartBeat,    \* the configuration names a HeartBeat event
  nullHeartBeat,   \* m_mainEvents["HeartBeat"] has inserted NULL
  m_connectionStatus,    \* is CONNECT_OK
  m_plcConnectHandle,    \* is not NULL
  m_sequenceID,
  polled,          \* the event EventPolling is at, 0 between two polls
  acking,          \* that event was new and is still to be acknowledged
  word,            \* the sequence number in the PLC's block
  acked,           \* the sequence number the hub acknowledged last
  restarts,
  \* What became of the event in the block, how often it was reported in
  \* this run of the hub, and whether an acknowledgement overwrote it.
  fate, times, overwritten

proxyVars == <<m_connectionStatus, m_plcConnectHandle>>
plcVars == <<word, acked>>
historyVars == <<fate, times, overwritten>>
configVars == <<proto, hasHeartBeat>>
vars == <<configVars, nullHeartBeat, proxyVars, m_sequenceID, polled, acking,
          plcVars, restarts, historyVars>>

Fates == {"waiting", "reported", "dropped"}

TypeOK ==
  /\ proto \in {"Fins", "RTU"} /\ hasHeartBeat \in BOOLEAN
  /\ nullHeartBeat \in BOOLEAN
  /\ m_connectionStatus \in BOOLEAN /\ m_plcConnectHandle \in BOOLEAN
  /\ m_sequenceID \in [Reporters -> Ids]
  /\ polled \in 0..NumEvents
  /\ acking \in BOOLEAN
  /\ acking => polled \in Reporters
  /\ word \in [Reporters -> Ids] /\ acked \in [Reporters -> Ids]
  /\ restarts \in 0..MaxRestarts
  /\ fate \in [Reporters -> Fates]
  /\ times \in [Reporters -> Nat]
  /\ overwritten \in [Reporters -> BOOLEAN]

(* What PlcConnect leaves in the proxy: the RTU proxy is CONNECT_OK even   *)
(* where modbus_new_rtu returned NULL.                                     *)
Connectable(status, handle) ==
  IF proto = "Fins" THEN status = handle ELSE status = TRUE

(* The hub starts on a PLC whose last events may or may not have been      *)
(* acknowledged before.                                                    *)
Init ==
  /\ proto \in {"Fins", "RTU"} /\ hasHeartBeat \in BOOLEAN
  /\ nullHeartBeat = FALSE
  /\ m_connectionStatus \in BOOLEAN /\ m_plcConnectHandle \in BOOLEAN
  /\ Connectable(m_connectionStatus, m_plcConnectHandle)
  /\ m_sequenceID = [e \in Reporters |-> StartId]
  /\ polled = 0 /\ acking = FALSE
  /\ word \in [Reporters -> Ids] /\ acked \in [Reporters -> Ids]
  /\ restarts = 0
  /\ fate = [e \in Reporters |->
               IF acked[e] = word[e] THEN "reported" ELSE "waiting"]
  /\ times = [e \in Reporters |-> 0]
  /\ overwritten = [e \in Reporters |-> FALSE]

-----------------------------------------------------------------------------
(* The PLC.                                                                *)

(* The PLC puts a new event into its block, under another number.          *)
Issue(e) ==
  /\ e \in Impatient \/ acked[e] = word[e]
  /\ \E id \in Ids \ {word[e]} : word' = [word EXCEPT ![e] = id]
  /\ fate' = [fate EXCEPT ![e] = "waiting"]
  /\ times' = [times EXCEPT ![e] = 0]
  /\ overwritten' = [overwritten EXCEPT ![e] = FALSE]
  /\ UNCHANGED <<configVars, nullHeartBeat, proxyVars, m_sequenceID, polled,
                 acking, acked, restarts>>

-----------------------------------------------------------------------------
(* The proxy.                                                              *)

(* A failed read or write: the FINS proxy drops its connection, the RTU    *)
(* proxy leaves it to libmodbus.                                           *)
AccessFails ==
  IF proto = "Fins"
  THEN m_connectionStatus' = FALSE /\ m_plcConnectHandle' = FALSE
  ELSE UNCHANGED proxyVars

(* PlcProxy::OnTimer without a handle: the RTU proxy finds CONNECT_OK and  *)
(* does nothing.                                                           *)
Reconnect ==
  /\ polled = 0
  /\ ~m_plcConnectHandle
  /\ ~m_connectionStatus
  /\ m_connectionStatus' = TRUE /\ m_plcConnectHandle' = TRUE
  /\ UNCHANGED <<configVars, nullHeartBeat, m_sequenceID, polled, acking,
                 plcVars, restarts, historyVars>>

-----------------------------------------------------------------------------
(* The machine's timers.                                                   *)

StartPoll ==
  /\ polled = 0
  /\ polled' = 1
  /\ UNCHANGED <<configVars, nullHeartBeat, proxyVars, m_sequenceID, acking,
                 plcVars, restarts, historyVars>>

(* A heartbeat is a write like any other, or the loss of the connection.   *)
(* Without a HeartBeat event the operator [] inserts NULL into the map.    *)
OnHeartBeat ==
  /\ polled = 0
  /\ IF hasHeartBeat
     THEN m_connectionStatus /\ AccessFails /\ UNCHANGED nullHeartBeat
     ELSE /\ restarts < MaxRestarts
          /\ nullHeartBeat' = TRUE
          /\ UNCHANGED proxyVars
  /\ UNCHANGED <<configVars, m_sequenceID, polled, acking, plcVars,
                 restarts, historyVars>>

(* The process ends and is started again.                                  *)
Restart ==
  /\ restarts < MaxRestarts
  /\ restarts' = restarts + 1
  /\ nullHeartBeat' = FALSE
  /\ m_connectionStatus' \in BOOLEAN /\ m_plcConnectHandle' \in BOOLEAN
  /\ Connectable(m_connectionStatus', m_plcConnectHandle')
  /\ m_sequenceID' = [e \in Reporters |-> StartId]
  /\ polled' = 0 /\ acking' = FALSE
  /\ times' = [e \in Reporters |-> 0]
  /\ UNCHANGED <<configVars, plcVars, fate, overwritten>>

-----------------------------------------------------------------------------
(* EventPolling.                                                           *)

Sniffing == polled # 0 /\ ~acking

(* Mutant of NextEvent: the walk does not end after the last event.        *)
NextEvent_Mut == polled' = polled + 1

NextEvent == polled' = (polled + 1) % (NumEvents + 1)

(* There is no HeartBeat event to sniff, or ReadData finds CONNECT_NO.     *)
Skip ==
  /\ Sniffing
  /\ \/ polled = HeartBeat /\ ~hasHeartBeat /\ ~nullHeartBeat
     \/ (polled = HeartBeat => hasHeartBeat) /\ ~m_connectionStatus
  /\ NextEvent
  /\ UNCHANGED <<configVars, nullHeartBeat, proxyVars, m_sequenceID, acking,
                 plcVars, restarts, historyVars>>

(* The NULL in the map is called: the process ends.                        *)
SniffNull ==
  /\ Sniffing
  /\ polled = HeartBeat /\ nullHeartBeat
  /\ Restart

Reads ==
  /\ Sniffing
  /\ polled = HeartBeat => hasHeartBeat
  /\ m_connectionStatus

ReadFails ==
  /\ Reads
  /\ AccessFails
  /\ NextEvent
  /\ UNCHANGED <<configVars, nullHeartBeat, m_sequenceID, acking, plcVars,
                 restarts, historyVars>>

IsNew(e) == e # HeartBeat /\ word[e] # m_sequenceID[e]

(* Nothing new, or the heartbeat, of which nothing is made.                *)
ReadOld(e) ==
  /\ Reads /\ m_plcConnectHandle
  /\ polled = e
  /\ ~IsNew(e)
  /\ NextEvent
  /\ UNCHANGED <<configVars, nullHeartBeat, proxyVars, m_sequenceID, acking,
                 plcVars, restarts, historyVars>>

(* What a new event may come to.  SendMsg drops a report while the upper   *)
(* computer is not connected, an alarm is reported only if one of its bits *)
(* is an enabled one, and the report of a yield is put together from a     *)
(* value that is still empty.                                              *)
Outcomes(e) == {"dropped"} \cup (IF e \in Yields THEN {} ELSE {"reported"})

(* Mutant of ReadNew: the number is not kept.                              *)
ReadNew_MutForgets(e) ==
  /\ Reads /\ m_plcConnectHandle
  /\ polled = e
  /\ IsNew(e)
  /\ \E f \in Outcomes(e) : fate' = [fate EXCEPT ![e] = f]
  /\ times' = [times EXCEPT ![e] = @ + 1]
  /\ acking' = TRUE
  /\ UNCHANGED <<configVars, nullHeartBeat, proxyVars, m_sequenceID, polled,
                 plcVars, restarts, overwritten>>

(* Mutant of ReadNew: an event may be left for a later poll.               *)
ReadNew_MutKeeps(e) ==
  /\ Reads /\ m_plcConnectHandle
  /\ polled = e
  /\ IsNew(e)
  /\ m_sequenceID' = [m_sequenceID EXCEPT ![e] = word[e]]
  /\ \E f \in Outcomes(e) \cup {"waiting"} : fate' = [fate EXCEPT ![e] = f]
  /\ times' = [times EXCEPT ![e] = @ + 1]
  /\ acking' = TRUE
  /\ UNCHANGED <<configVars, nullHeartBeat, proxyVars, polled, plcVars,
                 restarts, overwritten>>

(* A new number: it is kept, and the event reported.                       *)
ReadNew(e) ==
  /\ Reads /\ m_plcConnectHandle
  /\ polled = e
  /\ IsNew(e)
  /\ m_sequenceID' = [m_sequenceID EXCEPT ![e] = word[e]]
  /\ \E f \in Outcomes(e) : fate' = [fate EXCEPT ![e] = f]
  /\ times' = [times EXCEPT ![e] = @ + 1]
  /\ acking' = TRUE
  /\ UNCHANGED <<configVars, nullHeartBeat, proxyVars, polled, plcVars,
                 restarts, overwritten>>

ReadSucceeds(e) == ReadOld(e) \/ ReadNew(e)

(* Mutant of Acknowledged: what is in the block now is acknowledged.       *)
Acknowledged_Mut(e) ==
  /\ acked' = [acked EXCEPT ![e] = word[e]]
  /\ UNCHANGED <<word, overwritten>>

(* The acknowledgement reaches the PLC.  Over RTU it goes to the block of  *)
(* the event itself, and overwrites what the PLC put there since.          *)
Acknowledged(e) ==
  /\ acked' = [acked EXCEPT ![e] = m_sequenceID[e]]
  /\ IF proto = "RTU"
     THEN /\ word' = [word EXCEPT ![e] = m_sequenceID[e]]
          /\ overwritten' = [overwritten EXCEPT
                               ![e] = @ \/ word[e] # m_sequenceID[e]]
     ELSE UNCHANGED <<word, overwritten>>

AckSucceeds(e) ==
  /\ acking /\ polled = e
  /\ m_plcConnectHandle
  /\ Acknowledged(e)
  /\ acking' = FALSE
  /\ NextEvent
  /\ UNCHANGED <<configVars, nullHeartBeat, proxyVars, m_sequenceID,
                 restarts, fate, times>>

(* The write fails, before or after it had its effect; it is not repeated. *)
AckFails(e) ==
  /\ acking /\ polled = e
  /\ AccessFails
  /\ Acknowledged(e) \/ UNCHANGED <<plcVars, overwritten>>
  /\ acking' = FALSE
  /\ NextEvent
  /\ UNCHANGED <<configVars, nullHeartBeat, m_sequenceID, restarts,
                 fate, times>>

Polls ==
  \/ StartPoll \/ Skip \/ SniffNull \/ ReadFails
  \/ \E e \in 1..NumEvents : ReadSucceeds(e)
  \/ \E e \in Reporters : AckSucceeds(e) \/ AckFails(e)

Next ==
  \/ \E e \in Reporters : Issue(e)
  \/ Reconnect \/ OnHeartBeat \/ Restart
  \/ Polls

Spec == Init /\ [][Next]_vars

(* The looper polls.  The PLC is in reach in the end: a poll begins while  *)
(* it is connected, and a read tried again and again succeeds.             *)
FairSpec ==
  /\ Spec
  /\ WF_vars(Polls) /\ SF_vars(Reconnect)
  /\ SF_vars(StartPoll /\ m_connectionStatus)
  /\ \A e \in 1..NumEvents : SF_vars(ReadSucceeds(e))

-----------------------------------------------------------------------------
(* No event is reported twice in one run of the hub, though its block is   *)
(* read again and again, acknowledgements are lost and connections break   *)
(* between the report and the acknowledgement (ev_respond.cpp:244-313).    *)
ReportedOnce == \A e \in Reporters : times[e] <= 1

(* An event of a PLC that waits for the acknowledgement before it issues   *)
(* the next is dealt with in the end, whatever connections are lost and    *)
(* however often the hub starts again, unless it is overwritten, or its    *)
(* number is the one the hub starts with, or the RTU device could not be   *)
(* opened (ev_respond.cpp:88-113, 244, PlcProxy.cpp:71-81).                *)
EventDealtWith ==
  \A e \in Patient :
    fate[e] = "waiting" ~>
      \/ fate[e] # "waiting" \/ overwritten[e]
      \/ word[e] = StartId /\ m_sequenceID[e] = StartId
      \/ proto = "RTU" /\ ~m_plcConnectHandle

-----------------------------------------------------------------------------
(* What became of an event, as its PLC sees it.                            *)
Status(e) ==
  CASE overwritten[e] -> "lost"
    [] ~overwritten[e] /\ acked[e] = word[e] -> "acknowledged"
    [] ~overwritten[e] /\ acked[e] # word[e] ->
         IF fate[e] = "waiting" THEN "waiting" ELSE "dealt with"

Delivery == INSTANCE EventDelivery
  WITH Events <- Patient,
       status <- [e \in Patient |-> Status(e)],
       told <- [e \in Patient |-> times[e]],
       inPlace <- proto = "RTU"

(* Of the events a patient PLC issues, the hub does what the protocol      *)
(* promises: it deals with each once, and only then acknowledges it; the   *)
(* next one is issued only then; and none is lost over FINS, where         *)
(* acknowledgements have a place of their own (ev_respond.cpp:116-133,     *)
(* 244-313, machine.cpp:83-98).                                            *)
ImplementsEventDelivery == Delivery!Spec
=============================================================================
