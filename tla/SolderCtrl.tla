----------------------------- MODULE SolderCtrl -----------------------------
(***************************************************************************)
(* Solder and glue controllers (equipment/SolderCtrl.cpp) and the upload   *)
(* dialogue they follow (equipment/Sequence.cpp): ENQ, ACK, the UL         *)
(* command, an A0 or A2 answer from a solder controller, the data, EOT.    *)
(*                                                                         *)
(* A controller's state is a pointer to one of the static state objects,   *)
(* and each state object points back to the last controller it was         *)
(* obtained for.  One thread runs everything; SolderCtrl::OnData is a loop *)
(* over the bytes of one read, of which RecvPart is a turn and nothing     *)
(* else happens in between.  A message is ACK, A0 or A2, or the data in    *)
(* two parts that reads may separate; tail, A0 and A2 end with ETX.        *)
(***************************************************************************)
EXTENDS Naturals, Sequences

CONSTANTS
  Equips,       \* the controllers
  Nobody,
  Builds,       \* the order the configuration lists them in
  MaxCommands   \* bound on the commands given

ASSUME NobodyAssumption == Nobody \notin Equips
ASSUME BuildsAssumption ==
  /\ Builds \in Seq(Equips)
  /\ \A e \in Equips : \E i \in DOMAIN Builds : Builds[i] = e
ASSUME MaxCommandsAssumption == MaxCommands \in Nat

States == {"Idle", "UpLoad", "UpLoadRep", "UpLoadRepA0"}
Orders == {"ENQ", "UL", "ACK", "CAN", "EOT"}
Parts == {"ACK", "A0", "A2", "head", "tail"}
Data == <<"head", "tail">>

VARIABLES
  m_type,       \* "Glue" or "Solder", of each controller, for good
  m_state,      \* of each controller
  m_sequenceEquipmen,  \* of each static state object
  m_equipData,  \* the parts kept until an ETX comes
  chunk,        \* the rest of the read being processed, and whose it is
  orders,       \* written to each device and not taken up by it
  line,         \* sent by each device and not read
  device,       \* what each device is waiting for
  confused,     \* devices that got an order they were not waiting for
  silent,       \* devices that left an order unanswered since the last command
  late,         \* devices still talking when a Task of theirs timed out
  busy,         \* controllers whose client's Task waits for a result
  result,       \* the last result given to each controller's transcation
  commands

vars == <<m_type, m_state, m_sequenceEquipmen, m_equipData, chunk, orders, line,
          device, confused, silent, late, busy, result, commands>>

NoChunk == [from |-> Nobody, parts |-> << >>]

TypeOK ==
  /\ m_type \in [Equips -> {"Glue", "Solder"}]
  /\ m_state \in [Equips -> States]
  /\ m_sequenceEquipmen \in [States -> Equips \cup {Nobody}]
  /\ m_equipData \in [Equips -> Seq(Parts)]
  /\ chunk \in [from : Equips \cup {Nobody}, parts : Seq(Parts)]
  /\ orders \in [Equips -> Seq(Orders)]
  /\ line \in [Equips -> Seq(Parts)]
  /\ device \in [Equips -> {"ENQ", "UL", "ACK", "EOT"}]
  /\ confused \in SUBSET Equips
  /\ silent \in SUBSET Equips
  /\ late \in SUBSET Equips
  /\ busy \in SUBSET Equips
  /\ result \in [Equips -> Seq(Parts) \cup {<<"null">>}]
  /\ commands \in 0..MaxCommands

(* The controllers were built in the configured order, each of either      *)
(* type: the idle object points to the last one.                           *)
Init ==
  /\ m_type \in [Equips -> {"Glue", "Solder"}]
  /\ m_state = [e \in Equips |-> "Idle"]
  /\ m_sequenceEquipmen = [s \in States |->
       IF s = "Idle" /\ Builds # << >> THEN Builds[Len(Builds)] ELSE Nobody]
  /\ m_equipData = [e \in Equips |-> << >>]
  /\ chunk = NoChunk
  /\ orders = [e \in Equips |-> << >>]
  /\ line = [e \in Equips |-> << >>]
  /\ device = [e \in Equips |-> "ENQ"]
  /\ confused = {}
  /\ silent = {}
  /\ late = {}
  /\ busy = {}
  /\ result = [e \in Equips |-> << >>]
  /\ commands = 0

AtLoop == chunk = NoChunk

-----------------------------------------------------------------------------
(* ChangeState(&SequenceXState::Instance(type, equip)): the object is made *)
(* to point to the controller, which is made to point to the object.       *)
ChangeState(o, s) ==
  /\ m_sequenceEquipmen' = [m_sequenceEquipmen EXCEPT ![s] = o]
  /\ m_state' = [m_state EXCEPT ![o] = s]

WritePeripheralData(o, written) ==
  orders' = [orders EXCEPT ![o] = @ \o written]

(* UpStream: the transcation of the controller gets the result and its     *)
(* Task is idle again.                                                     *)
UpStream(o, message) ==
  /\ result' = [result EXCEPT ![o] = message]
  /\ busy' = busy \ {o}

(* TranscationSolderCtrl and TranscationGlueDispenser give an idle         *)
(* client's GetSpitParam to the controller; only the idle object acts on   *)
(* it, on the controller it points to.                                     *)
RecvCommand(e) ==
  LET o == m_sequenceEquipmen[m_state[e]] IN
  /\ AtLoop
  /\ e \notin busy
  /\ commands < MaxCommands
  /\ commands' = commands + 1
  /\ busy' = busy \cup {e}
  /\ silent' = silent \ {e}
  /\ IF m_state[e] = "Idle"
     THEN /\ WritePeripheralData(o, <<"ENQ">>)
          /\ ChangeState(o, "UpLoad")
     ELSE UNCHANGED <<orders, m_state, m_sequenceEquipmen>>
  /\ UNCHANGED <<m_type, m_equipData, chunk, line, device, confused,
                 late, result>>

(* Mutant of UpLoad: a solder controller goes on to the download state.    *)
UpLoad_Mut(o, message) ==
  /\ IF Head(message) = "ACK"
     THEN /\ WritePeripheralData(o, <<"UL">>)
          /\ ChangeState(o, IF m_type[o] = "Glue" THEN "UpLoadRep" ELSE "DownLoad")
     ELSE UNCHANGED <<orders, m_state, m_sequenceEquipmen>>
  /\ UNCHANGED <<result, busy>>

(* The state objects' RecvUpstream.  Only ACK is taken for the answer to   *)
(* ENQ; a glue controller sends its data next, a solder controller A0.     *)
UpLoad(o, message) ==
  /\ IF Head(message) = "ACK"
     THEN /\ WritePeripheralData(o, <<"UL">>)
          /\ ChangeState(o, IF m_type[o] = "Glue" THEN "UpLoadRep" ELSE "UpLoadRepA0")
     ELSE UNCHANGED <<orders, m_state, m_sequenceEquipmen>>
  /\ UNCHANGED <<result, busy>>

(* Mutant of UpLoadRepA0: the refusal A2 is taken for A0.                  *)
UpLoadRepA0_Mut(o, message) ==
  /\ WritePeripheralData(o, <<"ACK">>)
  /\ ChangeState(o, "UpLoadRep")
  /\ UNCHANGED <<result, busy>>

(* A2 ends the dialogue with an empty result; any other message counts as  *)
(* A0 and is acknowledged.                                                 *)
UpLoadRepA0(o, message) ==
  IF message = <<"A2">>
  THEN /\ WritePeripheralData(o, <<"CAN", "EOT">>)
       /\ UpStream(o, <<"null">>)
       /\ ChangeState(o, "Idle")
  ELSE /\ WritePeripheralData(o, <<"ACK">>)
       /\ ChangeState(o, "UpLoadRep")
       /\ UNCHANGED <<result, busy>>

(* Mutant of UpLoadRep: the controller stays in the reply state.           *)
UpLoadRep_Mut(o, message) ==
  /\ UpStream(o, message)
  /\ WritePeripheralData(o, <<"EOT">>)
  /\ UNCHANGED <<m_state, m_sequenceEquipmen>>

(* Whatever comes is taken for the data.                                   *)
UpLoadRep(o, message) ==
  /\ UpStream(o, message)
  /\ WritePeripheralData(o, <<"EOT">>)
  /\ ChangeState(o, "Idle")

(* The object the controller points to acts, on the controller the object  *)
(* points to.                                                              *)
RecvUpstream(e, message) ==
  LET o == m_sequenceEquipmen[m_state[e]] IN
  CASE m_state[e] = "Idle" ->
         UNCHANGED <<orders, m_state, m_sequenceEquipmen, result, busy>>
    [] m_state[e] = "UpLoad" -> UpLoad(o, message)
    [] m_state[e] = "UpLoadRepA0" -> UpLoadRepA0(o, message)
    [] m_state[e] = "UpLoadRep" -> UpLoadRep(o, message)

(* Mutant of OnRead: ACK is kept like any other byte.                      *)
OnRead_Mut(e, n) ==
  /\ AtLoop
  /\ line' = [line EXCEPT ![e] = SubSeq(@, n + 1, Len(@))]
  /\ chunk' = [from |-> e, parts |-> SubSeq(line[e], 1, n)]
  /\ UNCHANGED <<orders, m_state, m_sequenceEquipmen, result, busy,
                 m_type, m_equipData, device, confused, silent, late, commands>>

(* Peripheral::OnRead: some of what the device has sent is read.  A read   *)
(* that begins with ACK is handed on as it is and the rest of it dropped.  *)
OnRead(e, n) ==
  /\ AtLoop
  /\ line' = [line EXCEPT ![e] = SubSeq(@, n + 1, Len(@))]
  /\ IF Head(line[e]) = "ACK"
     THEN /\ RecvUpstream(e, SubSeq(line[e], 1, n))
          /\ UNCHANGED chunk
     ELSE /\ chunk' = [from |-> e, parts |-> SubSeq(line[e], 1, n)]
          /\ UNCHANGED <<orders, m_state, m_sequenceEquipmen, result, busy>>
  /\ UNCHANGED <<m_type, m_equipData, device, confused, silent, late, commands>>

(* Mutant of RecvPart: what was kept is not forgotten.                     *)
RecvPart_Mut(e) ==
  LET part == Head(chunk.parts)
      message == Append(m_equipData[e], part)
  IN
  /\ chunk.from = e
  /\ chunk' = IF Len(chunk.parts) = 1 THEN NoChunk
              ELSE [chunk EXCEPT !.parts = Tail(@)]
  /\ IF part \in {"tail", "A0", "A2"}
     THEN RecvUpstream(e, message)
     ELSE UNCHANGED <<orders, m_state, m_sequenceEquipmen, result, busy>>
  /\ m_equipData' = [m_equipData EXCEPT ![e] = message]
  /\ UNCHANGED <<m_type, line, device, confused, silent, late, commands>>

(* One turn of the loop of OnData: the part is kept, and at an ETX all     *)
(* that was kept is handed to the state object and forgotten.              *)
RecvPart(e) ==
  LET part == Head(chunk.parts)
      message == Append(m_equipData[e], part)
  IN
  /\ chunk.from = e
  /\ chunk' = IF Len(chunk.parts) = 1 THEN NoChunk
              ELSE [chunk EXCEPT !.parts = Tail(@)]
  /\ IF part \in {"tail", "A0", "A2"}
     THEN /\ RecvUpstream(e, message)
          /\ m_equipData' = [m_equipData EXCEPT ![e] = << >>]
     ELSE /\ m_equipData' = [m_equipData EXCEPT ![e] = message]
          /\ UNCHANGED <<orders, m_state, m_sequenceEquipmen, result, busy>>
  /\ UNCHANGED <<m_type, line, device, confused, silent, late, commands>>

(* Transcation::OnTaskTimeout reaches SolderCtrl::OnTaskTimeout: the state *)
(* is idle again; what was kept stays.                                     *)
OnTaskTimeout(e) ==
  /\ AtLoop
  /\ e \in busy
  /\ late' = IF orders[e] = << >> /\ line[e] = << >> /\ m_equipData[e] = << >>
             THEN late ELSE late \cup {e}
  /\ busy' = busy \ {e}
  /\ ChangeState(e, "Idle")
  /\ UNCHANGED <<m_type, m_equipData, chunk, orders, line, device, confused,
                 silent, result, commands>>

-----------------------------------------------------------------------------
(* The device begins a dialogue at ENQ and ends it at EOT; UL and ACK have *)
(* their turn in it, and out of turn they confuse it.  It may leave any    *)
(* order unanswered.                                                       *)
Device(e) ==
  /\ AtLoop
  /\ orders[e] # << >>
  /\ orders' = [orders EXCEPT ![e] = Tail(@)]
  /\ LET order == Head(orders[e])
         Answer(waits, sends) ==
           /\ device' = [device EXCEPT ![e] = waits]
           /\ line' = [line EXCEPT ![e] = @ \o sends]
           /\ UNCHANGED <<confused, silent>>
     IN \/ order = "ENQ" /\ Answer("UL", <<"ACK">>)
        \/ order = "EOT" /\ Answer("ENQ", << >>)
        \/ order = "CAN" /\ Answer(device[e], << >>)
        \/ /\ order = "UL" /\ device[e] = "UL"
           /\ \/ m_type[e] = "Glue" /\ Answer("EOT", Data)
              \/ m_type[e] = "Solder" /\ Answer("ACK", <<"A0">>)
              \/ m_type[e] = "Solder" /\ Answer("EOT", <<"A2">>)
        \/ order = "ACK" /\ device[e] = "ACK" /\ Answer("EOT", Data)
        \/ /\ order \in {"UL", "ACK"} /\ order # device[e]
           /\ confused' = confused \cup {e}
           /\ UNCHANGED <<device, line, silent>>
        \/ /\ silent' = silent \cup {e}
           /\ UNCHANGED <<device, line, confused>>
  /\ UNCHANGED <<m_type, m_state, m_sequenceEquipmen, m_equipData, chunk,
                 late, busy, result, commands>>

Next ==
  \/ \E e \in Equips : RecvCommand(e) \/ OnTaskTimeout(e)
  \/ \E e \in Equips : \E n \in DOMAIN line[e] : OnRead(e, n)
  \/ \E e \in Equips : RecvPart(e)
  \/ \E e \in Equips : Device(e)

Spec == Init /\ [][Next]_vars

(* What a device sends is read, a read is processed to its end, and a      *)
(* device takes up what was written to it, to answer it or not.  Nothing   *)
(* is assumed of clients and timeouts.                                     *)
FairSpec ==
  /\ Spec
  /\ \A e \in Equips : WF_vars(\E n \in DOMAIN line[e] : OnRead(e, n))
                    /\ WF_vars(RecvPart(e)) /\ WF_vars(Device(e))

-----------------------------------------------------------------------------
(* A result is the whole data of one dialogue, or the empty result of a    *)
(* refusal, however reads cut the messages and whenever a device falls     *)
(* silent, unless a Task timed out while its device was talking: no rest   *)
(* of an earlier message is put in front of it and no ACK or A0 is taken   *)
(* for data (SolderCtrl.cpp:32-58, Sequence.cpp:144-188).                  *)
ResultIsWhole ==
  \A e \in Equips \ late : result[e] \in {<< >>, <<"null">>, Data}

(* A device gets UL and ACK only when it waits for them, also in the       *)
(* dialogue after one that was broken off without an EOT, unless it is     *)
(* late (Sequence.cpp:94-115, 207-237).                                    *)
DeviceInTurn == confused \subseteq late

(* A controller whose client is free is idle, so it acts on the next       *)
(* command: no order of answers, late answers and timeouts leaves it in    *)
(* the middle of a dialogue nobody waits for (SolderCtrl.cpp:61-65).       *)
ReadyWhenFree == \A e \in Equips : e \notin busy => m_state[e] = "Idle"

(* A command gets its result, with no help of the timeout, unless its      *)
(* device has left an order unanswered since or has been late              *)
(* (Sequence.cpp:44-237).                                                  *)
EveryCommandGetsResult ==
  \A e \in Equips : e \in busy ~> e \notin busy \/ e \in silent \cup late

(* A command given through a peripheral is written to the device of that   *)
(* peripheral: each peripheral has its own device (Transcation.cpp:790).   *)
CommandReachesItsDevice ==
  [][\A e \in Equips : RecvCommand(e) =>
       \A o \in Equips \ {e} : orders'[o] = orders[o]]_vars
=============================================================================
