-------------------------- MODULE SolderCtrlProofs --------------------------
(***************************************************************************)
(* What holds of a solder or glue controller that has the state objects to *)
(* itself, for any number of commands: it is idle whenever its client is   *)
(* free; and as long as no Task times out while its device is talking,     *)
(* controller and device follow the dialogue in step and every result is   *)
(* whole.                                                                  *)
(***************************************************************************)
EXTENDS SolderCtrl, TLAPS

USE NobodyAssumption, BuildsAssumption, MaxCommandsAssumption

(* The read being processed, if any, is controller e's and holds parts p.  *)
Reading(e, p) ==
  chunk = IF p = << >> THEN NoChunk ELSE [from |-> e, parts |-> p]

(* All that is under way between controller e and its device: orders o,    *)
(* and of the answer the kept parts q, the read parts p, the sent parts l. *)
UnderWay(e, o, q, p, l) ==
  orders[e] = o /\ m_equipData[e] = q /\ Reading(e, p) /\ line[e] = l

Only(e, o) == UnderWay(e, o, << >>, << >>, << >>)

(* An answer of one part is sent or read; the data is sent or read, whole  *)
(* or its first part only.                                                 *)
OnePart(e, x) ==
  \/ UnderWay(e, << >>, << >>, << >>, <<x>>)
  \/ UnderWay(e, << >>, << >>, <<x>>, << >>)
TwoParts(e) ==
  \/ UnderWay(e, << >>, << >>, << >>, <<"head", "tail">>)
  \/ UnderWay(e, << >>, << >>, <<"head">>, <<"tail">>)
  \/ UnderWay(e, << >>, << >>, <<"head", "tail">>, << >>)
  \/ UnderWay(e, << >>, <<"head">>, << >>, <<"tail">>)
  \/ UnderWay(e, << >>, <<"head">>, <<"tail">>, << >>)

(* The states of the dialogue, by the controller's state.                  *)
IdleInStep(e) ==
  \/ Only(e, << >>)
  \/ Only(e, <<"EOT">>)
  \/ Only(e, <<"CAN", "EOT">>)
UpLoadInStep(e) ==
  \/ Only(e, << >>)
  \/ Only(e, <<"ENQ">>)
  \/ Only(e, <<"EOT", "ENQ">>)
  \/ Only(e, <<"CAN", "EOT", "ENQ">>)
  \/ UnderWay(e, << >>, << >>, << >>, <<"ACK">>) /\ device[e] = "UL"
A0InStep(e) ==
  \/ Only(e, << >>)
  \/ Only(e, <<"UL">>) /\ device[e] = "UL"
  \/ OnePart(e, "A0") /\ device[e] = "ACK"
  \/ OnePart(e, "A2")
RepInStep(e) ==
  \/ Only(e, << >>)
  \/ Only(e, <<"UL">>) /\ device[e] = "UL" /\ m_type[e] = "Glue"
  \/ Only(e, <<"ACK">>) /\ device[e] = "ACK" /\ m_type[e] = "Solder"
  \/ TwoParts(e)

InStep(e) ==
  \/ m_state[e] = "Idle" /\ IdleInStep(e)
  \/ m_state[e] = "UpLoad" /\ UpLoadInStep(e)
  \/ m_state[e] = "UpLoadRepA0" /\ m_type[e] = "Solder" /\ A0InStep(e)
  \/ m_state[e] = "UpLoadRep" /\ RepInStep(e)

(* Every controller's state object points to some controller.              *)
HasOwner == \A e \in Equips : m_sequenceEquipmen[m_state[e]] \in Equips

-----------------------------------------------------------------------------
(* What changing a state object and receiving a message do to the types,   *)
(* and that some controller stays behind every state.                      *)
LEMMA ChangeStateLemma ==
  ASSUME TypeOK, HasOwner, NEW o \in Equips, NEW s \in States, ChangeState(o, s)
  PROVE  /\ m_state' \in [Equips -> States]
         /\ m_sequenceEquipmen' \in [States -> Equips \cup {Nobody}]
         /\ HasOwner'
BY DEF TypeOK, HasOwner, ChangeState

(* Writing orders to a device keeps their type.                            *)
LEMMA WriteLemma ==
  ASSUME TypeOK, NEW o \in Equips, NEW written \in Seq(Orders),
         WritePeripheralData(o, written)
  PROVE  orders' \in [Equips -> Seq(Orders)]
<1>1. orders[o] \o written \in Seq(Orders)
  BY DEF TypeOK
<1> QED
  BY <1>1 DEF TypeOK, WritePeripheralData

(* The types of what RecvUpstream changes.                                 *)
UpstreamTypes ==
  /\ m_state \in [Equips -> States]
  /\ m_sequenceEquipmen \in [States -> Equips \cup {Nobody}]
  /\ HasOwner
  /\ orders \in [Equips -> Seq(Orders)]
  /\ busy \in SUBSET Equips
  /\ result \in [Equips -> Seq(Parts) \cup {<<"null">>}]

(* A message keeps them.                                                   *)
LEMMA RecvUpstreamLemma ==
  ASSUME TypeOK, HasOwner, NEW e \in Equips, NEW message \in Seq(Parts),
         RecvUpstream(e, message)
  PROVE  UpstreamTypes'
<1> DEFINE o == m_sequenceEquipmen[m_state[e]]
<1>0. o \in Equips /\ m_state[e] \in States
  BY DEF HasOwner, TypeOK
<1>w. /\ <<"UL">> \in Seq(Orders) /\ <<"ACK">> \in Seq(Orders)
      /\ <<"EOT">> \in Seq(Orders) /\ <<"CAN", "EOT">> \in Seq(Orders)
  BY DEF Orders
<1>s. {"Idle", "UpLoadRep", "UpLoadRepA0"} \subseteq States
  BY DEF States
<1>1. CASE m_state[e] = "Idle"
  <2>1. UNCHANGED <<orders, m_state, m_sequenceEquipmen, result, busy>>
    BY <1>1 DEF RecvUpstream
  <2> QED
    BY <2>1 DEF TypeOK, HasOwner, UpstreamTypes
<1>2. CASE m_state[e] = "UpLoad"
  <2>1. UpLoad(o, message)
    BY <1>2 DEF RecvUpstream
  <2> HIDE DEF o
  <2>2. UNCHANGED <<result, busy>>
    BY <2>1 DEF UpLoad
  <2>3. CASE UNCHANGED <<orders, m_state, m_sequenceEquipmen>>
    BY <2>2, <2>3 DEF TypeOK, HasOwner, UpstreamTypes
  <2>4. ASSUME WritePeripheralData(o, <<"UL">>), NEW s \in States, ChangeState(o, s)
        PROVE  UpstreamTypes'
    BY <1>0, <1>w, <2>2, <2>4, WriteLemma, ChangeStateLemma DEF TypeOK, UpstreamTypes
  <2> QED
    BY <1>s, <2>1, <2>3, <2>4 DEF UpLoad
<1>3. CASE m_state[e] = "UpLoadRepA0"
  <2>1. UpLoadRepA0(o, message)
    BY <1>3 DEF RecvUpstream
  <2> HIDE DEF o
  <2>2. \E written \in Seq(Orders), s \in States :
           WritePeripheralData(o, written) /\ ChangeState(o, s)
    BY <1>w, <1>s, <2>1 DEF UpLoadRepA0
  <2>3. /\ busy' \in SUBSET Equips
        /\ result' \in [Equips -> Seq(Parts) \cup {<<"null">>}]
    BY <2>1 DEF UpLoadRepA0, UpStream, TypeOK
  <2> QED
    BY <1>0, <2>2, <2>3, WriteLemma, ChangeStateLemma DEF UpstreamTypes
<1>4. CASE m_state[e] = "UpLoadRep"
  <2>1. UpLoadRep(o, message)
    BY <1>4 DEF RecvUpstream
  <2> HIDE DEF o
  <2>2. WritePeripheralData(o, <<"EOT">>) /\ ChangeState(o, "Idle")
    BY <2>1 DEF UpLoadRep
  <2>3. /\ busy' \in SUBSET Equips
        /\ result' \in [Equips -> Seq(Parts) \cup {<<"null">>}]
    BY <2>1 DEF UpLoadRep, UpStream, TypeOK
  <2> QED
    BY <1>0, <1>w, <1>s, <2>2, <2>3, WriteLemma, ChangeStateLemma DEF UpstreamTypes
<1> QED
  BY <1>0, <1>1, <1>2, <1>3, <1>4 DEF States

(* Pieces of a sequence are sequences of the same things.                  *)
LEMMA SubSeqLemma ==
  ASSUME NEW S, NEW q \in Seq(S), NEW n \in 1..Len(q)
  PROVE  /\ SubSeq(q, 1, n) \in Seq(S) /\ SubSeq(q, n + 1, Len(q)) \in Seq(S)
         /\ SubSeq(q, 1, n) # << >>
OBVIOUS

(* A read being processed is not at its end.                               *)
ChunkLeft == chunk.from \in Equips => chunk.parts # << >>

TypeInv == TypeOK /\ HasOwner /\ ChunkLeft

(* The type invariant, with the owners of the state objects.               *)
LEMMA InitTypes == Init => TypeInv
<1> SUFFICES ASSUME Init PROVE TypeInv
  OBVIOUS
<1>1. "Idle" \in States /\ Builds \in Seq(Equips)
  BY DEF States
<1>2. ASSUME Builds # << >> PROVE Builds[Len(Builds)] \in Equips
  BY <1>2
<1>3. m_sequenceEquipmen \in [States -> Equips \cup {Nobody}]
  BY <1>1, <1>2 DEF Init
<1>4. HasOwner
  <2>1. ASSUME NEW e \in Equips PROVE Builds # << >>
    OBVIOUS
  <2> QED
    BY <1>1, <1>2, <2>1 DEF Init, HasOwner
<1>5. TypeOK
  BY <1>1, <1>3 DEF Init, TypeOK, NoChunk
<1>6. ChunkLeft
  BY DEF Init, ChunkLeft, NoChunk
<1> QED
  BY <1>4, <1>5, <1>6 DEF TypeInv

(* A device's turn keeps the types.                                        *)
LEMMA DeviceTypes ==
  ASSUME TypeInv, NEW e \in Equips, Device(e)
  PROVE  TypeInv'
<1>1. /\ orders' = [orders EXCEPT ![e] = Tail(@)] /\ orders[e] # << >>
      /\ UNCHANGED <<m_type, m_state, m_sequenceEquipmen, m_equipData, chunk, late, busy,
                     result, commands>>
  BY DEF Device
<1>0. TypeOK
  BY DEF TypeInv
<1>2. orders' \in [Equips -> Seq(Orders)]
  <2>1. orders[e] \in Seq(Orders)
    BY <1>0 DEF TypeOK
  <2>2. Tail(orders[e]) \in Seq(Orders)
    BY <1>1, <2>1
  <2> QED
    BY <1>0, <1>1, <2>2 DEF TypeOK
<1>3. \A sends : sends \in {<< >>, <<"ACK">>, <<"A0">>, <<"A2">>, Data} =>
        sends \in Seq(Parts)
  <2>1. << >> \in Seq(Parts)
    OBVIOUS
  <2>2. <<"ACK">> \in Seq(Parts) /\ <<"A0">> \in Seq(Parts) /\ <<"A2">> \in Seq(Parts)
    BY DEF Parts
  <2>3. Data \in Seq(Parts)
    BY DEF Parts, Data
  <2> QED
    BY <2>1, <2>2, <2>3
<1>4. \A sends \in Seq(Parts) : line[e] \o sends \in Seq(Parts)
  <2>1. line[e] \in Seq(Parts)
    BY <1>0 DEF TypeOK
  <2> QED
    BY <2>1
<1>5. \/ UNCHANGED <<device, line>>
      \/ \E waits \in {"ENQ", "UL", "ACK", "EOT", device[e]} :
         \E sends \in {<< >>, <<"ACK">>, <<"A0">>, <<"A2">>, Data} :
            /\ device' = [device EXCEPT ![e] = waits]
            /\ line' = [line EXCEPT ![e] = @ \o sends]
  BY DEF Device
<1>6. line' \in [Equips -> Seq(Parts)]
  <2>1. CASE UNCHANGED line
    BY <1>0, <2>1 DEF TypeOK
  <2>2. ASSUME NEW sends \in Seq(Parts), line' = [line EXCEPT ![e] = @ \o sends]
        PROVE  line' \in [Equips -> Seq(Parts)]
    <3>1. line[e] \o sends \in Seq(Parts)
      BY <1>4
    <3> QED
      BY <1>0, <2>2, <3>1 DEF TypeOK
  <2> QED
    BY <1>3, <1>5, <2>1, <2>2
<1>7. device' \in [Equips -> {"ENQ", "UL", "ACK", "EOT"}]
  <2>1. device[e] \in {"ENQ", "UL", "ACK", "EOT"}
    BY <1>0 DEF TypeOK
  <2>2. UNCHANGED device \/ \E waits \in {"ENQ", "UL", "ACK", "EOT"} :
                               device' = [device EXCEPT ![e] = waits]
    BY <1>5, <2>1
  <2> QED
    BY <1>0, <2>2 DEF TypeOK
<1>8. confused' \in SUBSET Equips /\ silent' \in SUBSET Equips
  BY DEF TypeInv, TypeOK, Device
<1> QED
  BY <1>1, <1>2, <1>6, <1>7, <1>8 DEF TypeInv, TypeOK, HasOwner, ChunkLeft

(* Every step keeps the types.                                             *)
LEMMA NextTypes == TypeInv /\ [Next]_vars => TypeInv'
<1> SUFFICES ASSUME TypeInv, [Next]_vars PROVE TypeInv'
  OBVIOUS
<1>0. TypeOK /\ HasOwner /\ ChunkLeft
  BY DEF TypeInv
<1>1. ASSUME NEW e \in Equips, RecvCommand(e) PROVE TypeInv'
  <2> DEFINE o == m_sequenceEquipmen[m_state[e]]
  <2>1. o \in Equips /\ <<"ENQ">> \in Seq(Orders) /\ "UpLoad" \in States
    BY <1>0 DEF HasOwner, Orders, States
  <2>2. \/ WritePeripheralData(o, <<"ENQ">>) /\ ChangeState(o, "UpLoad")
        \/ UNCHANGED <<orders, m_state, m_sequenceEquipmen>>
    BY <1>1 DEF RecvCommand
  <2> HIDE DEF o
  <2>3. /\ orders' \in [Equips -> Seq(Orders)]
        /\ m_state' \in [Equips -> States]
        /\ m_sequenceEquipmen' \in [States -> Equips \cup {Nobody}]
        /\ HasOwner'
    <3>1. CASE WritePeripheralData(o, <<"ENQ">>) /\ ChangeState(o, "UpLoad")
      BY <1>0, <2>1, <3>1, WriteLemma, ChangeStateLemma
    <3>2. CASE UNCHANGED <<orders, m_state, m_sequenceEquipmen>>
      BY <1>0, <3>2 DEF TypeOK, HasOwner
    <3> QED
      BY <2>2, <3>1, <3>2
  <2>4. /\ commands < MaxCommands /\ commands' = commands + 1
        /\ busy' = busy \cup {e} /\ silent' = silent \ {e}
        /\ UNCHANGED <<m_type, m_equipData, chunk, line, device, confused, late, result>>
    BY <1>1 DEF RecvCommand
  <2>5. commands' \in 0..MaxCommands
    BY <1>0, <2>4 DEF TypeOK
  <2> QED
    BY <1>0, <2>3, <2>4, <2>5 DEF TypeInv, TypeOK, ChunkLeft
<1>2. ASSUME NEW e \in Equips, NEW n \in DOMAIN line[e], OnRead(e, n)
      PROVE  TypeInv'
  <2> DEFINE piece == SubSeq(line[e], 1, n)
             rest == SubSeq(line[e], n + 1, Len(line[e]))
  <2>1. line[e] \in Seq(Parts) /\ n \in 1..Len(line[e])
    BY <1>0 DEF TypeOK
  <2>2. piece \in Seq(Parts) /\ piece # << >> /\ rest \in Seq(Parts)
    BY <2>1, SubSeqLemma
  <2>3. /\ line' = [line EXCEPT ![e] = rest]
        /\ \/ RecvUpstream(e, piece) /\ UNCHANGED chunk
           \/ /\ chunk' = [from |-> e, parts |-> piece]
              /\ UNCHANGED <<orders, m_state, m_sequenceEquipmen, result, busy>>
        /\ UNCHANGED <<m_type, m_equipData, device, confused, silent, late, commands>>
    BY <1>2 DEF OnRead
  <2> HIDE DEF piece, rest
  <2>4. UpstreamTypes'
    <3>1. CASE RecvUpstream(e, piece)
      BY <1>0, <2>2, <3>1, RecvUpstreamLemma
    <3>2. CASE UNCHANGED <<orders, m_state, m_sequenceEquipmen, result, busy>>
      BY <1>0, <3>2 DEF TypeOK, HasOwner, UpstreamTypes
    <3> QED
      BY <2>3, <3>1, <3>2
  <2>5. chunk' \in [from : Equips \cup {Nobody}, parts : Seq(Parts)] /\ ChunkLeft'
    BY <1>0, <2>2, <2>3 DEF TypeOK, ChunkLeft
  <2>6. line' \in [Equips -> Seq(Parts)]
    BY <1>0, <2>2, <2>3 DEF TypeOK
  <2> QED
    BY <1>0, <2>3, <2>4, <2>5, <2>6 DEF TypeInv, TypeOK, UpstreamTypes
<1>3. ASSUME NEW e \in Equips, RecvPart(e) PROVE TypeInv'
  <2> DEFINE part == Head(chunk.parts)
             message == Append(m_equipData[e], part)
  <2>1. chunk.parts \in Seq(Parts) /\ chunk.from = e
    BY <1>0, <1>3 DEF TypeOK, RecvPart
  <2>2. \/ chunk' = NoChunk
        \/ chunk' = [chunk EXCEPT !.parts = Tail(@)]
    BY <1>3 DEF RecvPart
  <2>3. /\ \/ /\ RecvUpstream(e, message)
              /\ m_equipData' = [m_equipData EXCEPT ![e] = << >>]
           \/ /\ m_equipData' = [m_equipData EXCEPT ![e] = message]
              /\ UNCHANGED <<orders, m_state, m_sequenceEquipmen, result, busy>>
        /\ UNCHANGED <<m_type, line, device, confused, silent, late, commands>>
    BY <1>3 DEF RecvPart
  <2>4. chunk.parts # << >>
    BY <1>0, <2>1 DEF ChunkLeft
  <2>5. part \in Parts /\ Tail(chunk.parts) \in Seq(Parts)
    BY <2>1, <2>4
  <2>6. message \in Seq(Parts)
    BY <1>0, <2>5 DEF TypeOK
  <2>7. chunk' \in [from : Equips \cup {Nobody}, parts : Seq(Parts)]
    <3>1. << >> \in Seq(Parts)
      OBVIOUS
    <3>2. NoChunk \in [from : Equips \cup {Nobody}, parts : Seq(Parts)]
      BY <3>1 DEF NoChunk
    <3>3. [chunk EXCEPT !.parts = Tail(chunk.parts)]
             \in [from : Equips \cup {Nobody}, parts : Seq(Parts)]
      BY <1>0, <2>5 DEF TypeOK
    <3> QED
      BY <2>2, <3>2, <3>3
  <2>8. ChunkLeft'
    <3>1. CASE Len(chunk.parts) = 1
      BY <1>3, <3>1 DEF RecvPart, ChunkLeft, NoChunk
    <3>2. CASE Len(chunk.parts) # 1
      <4>1. Tail(chunk.parts) # << >>
        <5>1. Len(Tail(chunk.parts)) = Len(chunk.parts) - 1
          BY <2>1, <2>4
        <5>2. Len(chunk.parts) \in Nat
          BY <2>1
        <5>3. Len(Tail(chunk.parts)) # 0
          BY <3>2, <5>1, <5>2
        <5>4. Len(<< >>) = 0
          OBVIOUS
        <5> QED
          BY <5>3, <5>4
      <4>2. chunk' = [chunk EXCEPT !.parts = Tail(chunk.parts)]
        BY <1>3, <3>2 DEF RecvPart
      <4> QED
        BY <1>0, <4>1, <4>2 DEF ChunkLeft, TypeOK
    <3> QED
      BY <3>1, <3>2
  <2> HIDE DEF message
  <2>9. UpstreamTypes' /\ m_equipData' \in [Equips -> Seq(Parts)]
    <3>1. ASSUME RecvUpstream(e, message), m_equipData' = [m_equipData EXCEPT ![e] = << >>]
          PROVE  UpstreamTypes' /\ m_equipData' \in [Equips -> Seq(Parts)]
      <4>1. UpstreamTypes'
        BY <1>0, <2>6, <3>1, RecvUpstreamLemma
      <4>2. << >> \in Seq(Parts)
        OBVIOUS
      <4> QED
        BY <1>0, <3>1, <4>1, <4>2 DEF TypeOK
    <3>2. ASSUME m_equipData' = [m_equipData EXCEPT ![e] = message],
                 UNCHANGED <<orders, m_state, m_sequenceEquipmen, result, busy>>
          PROVE  UpstreamTypes' /\ m_equipData' \in [Equips -> Seq(Parts)]
      BY <1>0, <2>6, <3>2 DEF TypeOK, HasOwner, UpstreamTypes
    <3> QED
      BY <2>3, <3>1, <3>2
  <2> QED
    BY <1>0, <2>3, <2>7, <2>8, <2>9 DEF TypeInv, TypeOK, UpstreamTypes
<1>4. ASSUME NEW e \in Equips, OnTaskTimeout(e) PROVE TypeInv'
  <2>1. /\ m_state' \in [Equips -> States] /\ HasOwner'
        /\ m_sequenceEquipmen' \in [States -> Equips \cup {Nobody}]
    <3>1. ChangeState(e, "Idle") /\ "Idle" \in States
      BY <1>4 DEF OnTaskTimeout, States
    <3> QED
      BY <1>0, <3>1, ChangeStateLemma
  <2> QED
    BY <1>0, <1>4, <2>1 DEF OnTaskTimeout, TypeInv, TypeOK, ChunkLeft
<1>5. ASSUME NEW e \in Equips, Device(e) PROVE TypeInv'
  BY <1>5, DeviceTypes
<1>6. CASE UNCHANGED vars
  BY <1>0, <1>6 DEF vars, TypeInv, TypeOK, HasOwner, ChunkLeft
<1> QED
  BY <1>1, <1>2, <1>3, <1>4, <1>5, <1>6 DEF Next

(* The types, always.                                                      *)
LEMMA Types == Spec => []TypeInv
<1> QED
  BY InitTypes, NextTypes, PTL DEF Spec

(* The type invariant of the controllers, however many share the state     *)
(* objects.                                                                *)
THEOREM TypeCorrect == Spec => []TypeOK
<1>1. TypeInv => TypeOK
  BY DEF TypeInv
<1> QED
  BY <1>1, Types, PTL

-----------------------------------------------------------------------------
(* The only controller: its state object points to it.                     *)
LEMMA SoloOwner ==
  ASSUME TypeInv, NEW e, Equips = {e}
  PROVE  m_sequenceEquipmen[m_state[e]] = e /\ m_state[e] \in States
BY DEF TypeInv, HasOwner, TypeOK

(* A message leaves the controller of a free client idle.                  *)
LEMMA RecvUpstreamReady ==
  ASSUME TypeInv, NEW e, Equips = {e}, ReadyWhenFree, NEW message,
         RecvUpstream(e, message)
  PROVE  ReadyWhenFree'
<1>1. m_sequenceEquipmen[m_state[e]] = e /\ m_state[e] \in States /\ TypeOK
  BY SoloOwner DEF TypeInv
<1>2. CASE m_state[e] = "Idle"
  BY <1>2 DEF RecvUpstream, ReadyWhenFree
<1>3. CASE m_state[e] = "UpLoad"
  <2>1. UpLoad(e, message)
    BY <1>1, <1>3 DEF RecvUpstream
  <2> QED
    BY <1>3, <2>1 DEF UpLoad, ReadyWhenFree
<1>4. CASE m_state[e] = "UpLoadRepA0"
  <2>1. UpLoadRepA0(e, message)
    BY <1>1, <1>4 DEF RecvUpstream
  <2> QED
    BY <1>1, <1>4, <2>1 DEF UpLoadRepA0, UpStream, ChangeState, ReadyWhenFree, TypeOK
<1>5. CASE m_state[e] = "UpLoadRep"
  <2>1. UpLoadRep(e, message)
    BY <1>1, <1>5 DEF RecvUpstream
  <2> QED
    BY <1>1, <2>1 DEF UpLoadRep, ChangeState, ReadyWhenFree, TypeOK
<1> QED
  BY <1>1, <1>2, <1>3, <1>4, <1>5 DEF States

(* A controller with the state objects to itself is idle whenever its      *)
(* client is free, also after late answers (SolderCtrl.cpp:61-65).         *)
THEOREM Ready == ASSUME NEW CONSTANT e, Equips = {e} PROVE Spec => []ReadyWhenFree
<1>1. Init => ReadyWhenFree
  BY DEF Init, ReadyWhenFree
<1>2. ASSUME TypeInv, ReadyWhenFree, [Next]_vars PROVE ReadyWhenFree'
  <2>0. TypeOK
    BY <1>2 DEF TypeInv
  <2>1. CASE RecvCommand(e)
    BY <2>0, <2>1 DEF RecvCommand, ReadyWhenFree
  <2>2. ASSUME NEW n \in DOMAIN line[e], OnRead(e, n) PROVE ReadyWhenFree'
    <3>1. CASE RecvUpstream(e, SubSeq(line[e], 1, n))
      BY <1>2, <3>1, RecvUpstreamReady
    <3> QED
      BY <1>2, <2>2, <3>1 DEF OnRead, ReadyWhenFree
  <2>3. CASE RecvPart(e)
    <3> DEFINE message == Append(m_equipData[e], Head(chunk.parts))
    <3>1. CASE RecvUpstream(e, message)
      BY <1>2, <3>1, RecvUpstreamReady
    <3> QED
      BY <1>2, <2>3, <3>1 DEF RecvPart, ReadyWhenFree
  <2>4. CASE OnTaskTimeout(e)
    BY <2>0, <2>4 DEF OnTaskTimeout, ChangeState, ReadyWhenFree, TypeOK
  <2>5. CASE Device(e)
    BY <1>2, <2>5 DEF Device, ReadyWhenFree
  <2>6. CASE UNCHANGED vars
    BY <1>2, <2>6 DEF vars, ReadyWhenFree
  <2> QED
    BY <1>2, <2>1, <2>2, <2>3, <2>4, <2>5, <2>6 DEF Next
<1> QED
  BY <1>1, <1>2, Types, PTL DEF Spec

-----------------------------------------------------------------------------
(* Sequences with the same elements are the same.                          *)
LEMMA SameSeq ==
  ASSUME NEW S, NEW s \in Seq(S), NEW t \in Seq(S), Len(s) = Len(t),
         \A i \in 1..Len(s) : s[i] = t[i]
  PROVE  s = t
OBVIOUS

(* A sequence of length one.                                               *)
LEMMA IsOne ==
  ASSUME NEW S, NEW a \in S, NEW s \in Seq(S), Len(s) = 1, s[1] = a
  PROVE  s = <<a>>
<1> DEFINE t == <<a>>
<1>1. t \in Seq(S) /\ Len(t) = 1 /\ t[1] = a
  OBVIOUS
<1> HIDE DEF t
<1>2. s = t
  <2>1. \A i \in 1..Len(s) : s[i] = t[i]
    BY <1>1
  <2> QED
    BY <1>1, <2>1, SameSeq
<1> QED
  BY <1>2 DEF t

(* A sequence of length two.                                               *)
LEMMA IsTwo ==
  ASSUME NEW S, NEW a \in S, NEW b \in S, NEW s \in Seq(S),
         Len(s) = 2, s[1] = a, s[2] = b
  PROVE  s = <<a, b>>
<1> DEFINE t == <<a, b>>
<1>1. t \in Seq(S) /\ Len(t) = 2 /\ t[1] = a /\ t[2] = b
  OBVIOUS
<1> HIDE DEF t
<1>2. s = t
  <2>1. \A i \in 1..Len(s) : s[i] = t[i]
    BY <1>1
  <2> QED
    BY <1>1, <2>1, SameSeq
<1> QED
  BY <1>2 DEF t

(* What reads and orders do to a message of one part.                      *)
LEMMA OneSeq ==
  ASSUME NEW a
  PROVE  /\ SubSeq(<<a>>, 1, 1) = <<a>> /\ SubSeq(<<a>>, 2, 1) = << >>
         /\ Head(<<a>>) = a /\ Tail(<<a>>) = << >> /\ Len(<<a>>) = 1
         /\ Append(<< >>, a) = <<a>> /\ << >> \o <<a>> = <<a>>
<1>1. <<a>> \in Seq({a}) /\ a \in {a}
  OBVIOUS
<1>2. SubSeq(<<a>>, 1, 1) = <<a>>
  <2>1. /\ SubSeq(<<a>>, 1, 1) \in Seq({a}) /\ Len(SubSeq(<<a>>, 1, 1)) = 1
        /\ SubSeq(<<a>>, 1, 1)[1] = a
    BY <1>1
  <2> QED
    BY <1>1, <2>1, IsOne
<1>3. SubSeq(<<a>>, 2, 1) = << >>
  OBVIOUS
<1>4. Head(<<a>>) = a /\ Tail(<<a>>) = << >> /\ Len(<<a>>) = 1
  OBVIOUS
<1>5. Append(<< >>, a) = <<a>>
  OBVIOUS
<1>6. << >> \o <<a>> = <<a>>
  OBVIOUS
<1> QED
  BY <1>2, <1>3, <1>4, <1>5, <1>6

(* What they do to a message of two parts.                                 *)
LEMMA TwoSeq ==
  ASSUME NEW a, NEW b
  PROVE  /\ SubSeq(<<a, b>>, 1, 1) = <<a>> /\ SubSeq(<<a, b>>, 2, 2) = <<b>>
         /\ SubSeq(<<a, b>>, 1, 2) = <<a, b>> /\ SubSeq(<<a, b>>, 3, 2) = << >>
         /\ Head(<<a, b>>) = a /\ Tail(<<a, b>>) = <<b>> /\ Len(<<a, b>>) = 2
         /\ Append(<<a>>, b) = <<a, b>> /\ <<a>> \o <<b>> = <<a, b>>
         /\ << >> \o <<a, b>> = <<a, b>>
<1> DEFINE S == {a, b}
<1>1. <<a>> \in Seq(S) /\ <<b>> \in Seq(S) /\ <<a, b>> \in Seq(S) /\ a \in S /\ b \in S
  OBVIOUS
<1> HIDE DEF S
<1>2. SubSeq(<<a, b>>, 1, 1) = <<a>>
  <2> DEFINE s == SubSeq(<<a, b>>, 1, 1)
  <2>1. s \in Seq(S) /\ Len(s) = 1 /\ s[1] = a
    BY <1>1
  <2> HIDE DEF s
  <2>2. s = <<a>>
    BY <1>1, <2>1, IsOne
  <2> QED
    BY <2>2 DEF s
<1>3. SubSeq(<<a, b>>, 2, 2) = <<b>>
  <2> DEFINE s == SubSeq(<<a, b>>, 2, 2)
  <2>1. s \in Seq(S) /\ Len(s) = 1 /\ s[1] = b
    BY <1>1
  <2> HIDE DEF s
  <2>2. s = <<b>>
    BY <1>1, <2>1, IsOne
  <2> QED
    BY <2>2 DEF s
<1>4. SubSeq(<<a, b>>, 1, 2) = <<a, b>>
  <2> DEFINE s == SubSeq(<<a, b>>, 1, 2)
  <2>1. s \in Seq(S) /\ Len(s) = 2 /\ s[1] = a /\ s[2] = b
    BY <1>1
  <2> HIDE DEF s
  <2>2. s = <<a, b>>
    BY <1>1, <2>1, IsTwo
  <2> QED
    BY <2>2 DEF s
<1>5. SubSeq(<<a, b>>, 3, 2) = << >>
  OBVIOUS
<1>6. Head(<<a, b>>) = a /\ Tail(<<a, b>>) = <<b>> /\ Len(<<a, b>>) = 2
  OBVIOUS
<1>7. Append(<<a>>, b) = <<a, b>>
  <2> DEFINE s == Append(<<a>>, b)
  <2>1. s \in Seq(S) /\ Len(s) = 2 /\ s[1] = a /\ s[2] = b
    BY <1>1
  <2> HIDE DEF s
  <2>2. s = <<a, b>>
    BY <1>1, <2>1, IsTwo
  <2> QED
    BY <2>2 DEF s
<1>8. <<a>> \o <<b>> = <<a, b>>
  <2> DEFINE s == <<a>> \o <<b>>
  <2>1. s \in Seq(S) /\ Len(s) = 2 /\ s[1] = a /\ s[2] = b
    BY <1>1
  <2> HIDE DEF s
  <2>2. s = <<a, b>>
    BY <1>1, <2>1, IsTwo
  <2> QED
    BY <2>2 DEF s
<1>9. << >> \o <<a, b>> = <<a, b>>
  OBVIOUS
<1> QED
  BY <1>2, <1>3, <1>4, <1>5, <1>6, <1>7, <1>8, <1>9

(* The orders CAN, EOT, ENQ.                                               *)
LEMMA ThreeSeq ==
  ASSUME NEW a, NEW b, NEW c
  PROVE  /\ Head(<<a, b, c>>) = a /\ Tail(<<a, b, c>>) = <<b, c>>
         /\ <<a, b>> \o <<c>> = <<a, b, c>>
<1>1. Head(<<a, b, c>>) = a /\ Tail(<<a, b, c>>) = <<b, c>>
  OBVIOUS
<1>2. <<a, b>> \o <<c>> = <<a, b, c>>
  <2> DEFINE S == {a, b, c}
             s == <<a, b>> \o <<c>>
             t == <<a, b, c>>
  <2>1. t \in Seq(S) /\ Len(t) = 3 /\ t[1] = a /\ t[2] = b /\ t[3] = c
    OBVIOUS
  <2>2. s \in Seq(S) /\ Len(s) = 3 /\ s[1] = a /\ s[2] = b /\ s[3] = c
    <3>1. <<a, b>> \in Seq(S) /\ <<c>> \in Seq(S)
      OBVIOUS
    <3> QED
      BY <3>1
  <2> HIDE DEF s, t, S
  <2>3. \A i \in 1..Len(s) : s[i] = t[i]
    BY <2>1, <2>2
  <2>4. s = t
    BY <2>1, <2>2, <2>3, SameSeq
  <2> QED
    BY <2>4 DEF s, t
<1> QED
  BY <1>1, <1>2

-----------------------------------------------------------------------------
(* What RecvUpstream does to the only controller, state by state.          *)
LEMMA UpstreamSolo ==
  ASSUME TypeInv, NEW e, Equips = {e}, NEW message, RecvUpstream(e, message)
  PROVE  /\ m_state[e] = "UpLoad" /\ Head(message) = "ACK" =>
              /\ m_state'[e] = IF m_type[e] = "Glue" THEN "UpLoadRep" ELSE "UpLoadRepA0"
              /\ orders'[e] = orders[e] \o <<"UL">>
              /\ result'[e] = result[e]
         /\ m_state[e] = "UpLoadRepA0" /\ message = <<"A2">> =>
              /\ m_state'[e] = "Idle"
              /\ orders'[e] = orders[e] \o <<"CAN", "EOT">>
              /\ result'[e] = <<"null">>
         /\ m_state[e] = "UpLoadRepA0" /\ message # <<"A2">> =>
              /\ m_state'[e] = "UpLoadRep"
              /\ orders'[e] = orders[e] \o <<"ACK">>
              /\ result'[e] = result[e]
         /\ m_state[e] = "UpLoadRep" =>
              /\ m_state'[e] = "Idle"
              /\ orders'[e] = orders[e] \o <<"EOT">>
              /\ result'[e] = message
<1>1. m_sequenceEquipmen[m_state[e]] = e /\ m_state[e] \in States /\ TypeOK
  BY SoloOwner DEF TypeInv
<1>2. /\ \A s : ChangeState(e, s) => m_state'[e] = s
      /\ \A w : WritePeripheralData(e, w) => orders'[e] = orders[e] \o w
      /\ \A m : UpStream(e, m) => result'[e] = m
  BY <1>1 DEF ChangeState, WritePeripheralData, UpStream, TypeOK
<1>3. ASSUME m_state[e] = "UpLoad", Head(message) = "ACK"
      PROVE  /\ m_state'[e] = IF m_type[e] = "Glue" THEN "UpLoadRep" ELSE "UpLoadRepA0"
             /\ orders'[e] = orders[e] \o <<"UL">>
             /\ result'[e] = result[e]
  <2>1. UpLoad(e, message)
    BY <1>1, <1>3 DEF RecvUpstream
  <2> QED
    BY <1>2, <1>3, <2>1 DEF UpLoad
<1>4. ASSUME m_state[e] = "UpLoadRepA0"
      PROVE  UpLoadRepA0(e, message)
  BY <1>1, <1>4 DEF RecvUpstream
<1>5. ASSUME m_state[e] = "UpLoadRep"
      PROVE  UpLoadRep(e, message)
  BY <1>1, <1>5 DEF RecvUpstream
<1>6. ASSUME m_state[e] = "UpLoadRepA0", message = <<"A2">>
      PROVE  /\ m_state'[e] = "Idle"
             /\ orders'[e] = orders[e] \o <<"CAN", "EOT">>
             /\ result'[e] = <<"null">>
  BY <1>2, <1>4, <1>6 DEF UpLoadRepA0
<1>7. ASSUME m_state[e] = "UpLoadRepA0", message # <<"A2">>
      PROVE  /\ m_state'[e] = "UpLoadRep"
             /\ orders'[e] = orders[e] \o <<"ACK">>
             /\ result'[e] = result[e]
  BY <1>2, <1>4, <1>7 DEF UpLoadRepA0
<1>8. ASSUME m_state[e] = "UpLoadRep"
      PROVE  /\ m_state'[e] = "Idle"
             /\ orders'[e] = orders[e] \o <<"EOT">>
             /\ result'[e] = message
  BY <1>2, <1>5, <1>8 DEF UpLoadRep
<1> QED
  BY <1>3, <1>6, <1>7, <1>8

(* A dialogue in step, and a result that is whole.                         *)
DialogueInv(e) ==
  InStep(e) /\ result[e] \in {<< >>, <<"null">>, Data} /\ confused = {}

(* A command begins a dialogue.                                            *)
LEMMA CommandInStep ==
  ASSUME TypeInv, NEW e, Equips = {e}, ReadyWhenFree, DialogueInv(e), RecvCommand(e)
  PROVE  DialogueInv(e)'
<1>1. m_sequenceEquipmen[m_state[e]] = e /\ m_state[e] = "Idle" /\ TypeOK
  BY SoloOwner DEF TypeInv, RecvCommand, ReadyWhenFree
<1>2. /\ m_state'[e] = "UpLoad"
      /\ orders'[e] = orders[e] \o <<"ENQ">>
      /\ UNCHANGED <<m_type, m_equipData, chunk, line, confused, result>>
  BY <1>1 DEF RecvCommand, WritePeripheralData, ChangeState, TypeOK
<1>3. IdleInStep(e)
  BY <1>1 DEF DialogueInv, InStep
<1>4. UpLoadInStep(e)'
  <2>1. CASE Only(e, << >>)
    <3>1. Only(e, <<"ENQ">>)'
      BY <1>2, <2>1, OneSeq DEF Only, UnderWay, Reading
    <3> QED
      BY <3>1 DEF UpLoadInStep
  <2>2. CASE Only(e, <<"EOT">>)
    <3>1. Only(e, <<"EOT", "ENQ">>)'
      BY <1>2, <2>2, TwoSeq DEF Only, UnderWay, Reading
    <3> QED
      BY <3>1 DEF UpLoadInStep
  <2>3. CASE Only(e, <<"CAN", "EOT">>)
    <3>1. <<"CAN", "EOT">> \o <<"ENQ">> = <<"CAN", "EOT", "ENQ">>
      BY ThreeSeq
    <3>2. orders'[e] = <<"CAN", "EOT", "ENQ">>
      BY <1>2, <2>3, <3>1 DEF Only, UnderWay
    <3>3. Only(e, <<"CAN", "EOT", "ENQ">>)'
      BY <1>2, <2>3, <3>2 DEF Only, UnderWay, Reading
    <3> QED
      BY <3>3 DEF UpLoadInStep
  <2> QED
    BY <1>3, <2>1, <2>2, <2>3 DEF IdleInStep
<1> QED
  BY <1>2, <1>4 DEF DialogueInv, InStep

(* A read moves parts of what was sent into the chunk, or hands the ACK on.*)
LEMMA ReadInStep ==
  ASSUME TypeInv, NEW e, Equips = {e}, DialogueInv(e),
         NEW n \in DOMAIN line[e], OnRead(e, n)
  PROVE  DialogueInv(e)'
<1>0. TypeOK /\ e # Nobody
  BY DEF TypeInv
<1>1. chunk = NoChunk /\ line[e] # << >> /\ n \in 1..Len(line[e])
  BY <1>0 DEF OnRead, AtLoop, TypeOK
<1>2. /\ line'[e] = SubSeq(line[e], n + 1, Len(line[e]))
      /\ m_type' = m_type /\ m_equipData' = m_equipData
      /\ confused' = confused /\ device' = device
  BY <1>0 DEF OnRead, TypeOK
<1>3. ASSUME Head(line[e]) # "ACK"
      PROVE  /\ chunk' = [from |-> e, parts |-> SubSeq(line[e], 1, n)]
             /\ UNCHANGED <<orders, m_state, result>>
  BY <1>3 DEF OnRead
<1>4. \A p : Reading(e, p) => p = << >>
  BY <1>0, <1>1 DEF Reading, NoChunk
<1>5. CASE line[e] = <<"ACK">>
  <2>1. n = 1 /\ SubSeq(line[e], 1, n) = <<"ACK">> /\ line'[e] = << >> /\ Head(line[e]) = "ACK"
    <3>1. n = 1
      BY <1>1, <1>5, OneSeq
    <3> QED
      BY <1>2, <1>5, <3>1, OneSeq
  <2>2. m_state[e] = "UpLoad" /\ orders[e] = << >> /\ m_equipData[e] = << >> /\ device[e] = "UL"
    BY <1>5 DEF DialogueInv, InStep, IdleInStep, UpLoadInStep, A0InStep, RepInStep,
                OnePart, TwoParts, Only, UnderWay
  <2>3. RecvUpstream(e, <<"ACK">>) /\ chunk' = chunk
    BY <2>1 DEF OnRead
  <2>4. Head(<<"ACK">>) = "ACK"
    BY OneSeq
  <2>5. /\ m_state'[e] = IF m_type[e] = "Glue" THEN "UpLoadRep" ELSE "UpLoadRepA0"
        /\ orders'[e] = orders[e] \o <<"UL">>
        /\ result'[e] = result[e]
    BY <2>2, <2>3, <2>4, UpstreamSolo
  <2>6. Only(e, <<"UL">>)'
    BY <1>1, <1>2, <2>1, <2>2, <2>3, <2>5, OneSeq DEF Only, UnderWay, Reading
  <2>7. InStep(e)'
    BY <1>0, <1>2, <2>2, <2>5, <2>6 DEF TypeOK, InStep, A0InStep, RepInStep
  <2> QED
    BY <1>2, <2>5, <2>7 DEF DialogueInv
<1>6. ASSUME NEW x \in {"A0", "A2"}, line[e] = <<x>>
      PROVE  DialogueInv(e)'
  <2>1. n = 1 /\ SubSeq(line[e], 1, n) = <<x>> /\ line'[e] = << >> /\ Head(line[e]) = x
    <3>1. n = 1
      BY <1>1, <1>6, OneSeq
    <3> QED
      BY <1>2, <1>6, <3>1, OneSeq
  <2>2. /\ m_state[e] = "UpLoadRepA0" /\ m_type[e] = "Solder"
        /\ orders[e] = << >> /\ m_equipData[e] = << >>
        /\ x = "A0" => device[e] = "ACK"
    BY <1>6 DEF DialogueInv, InStep, IdleInStep, UpLoadInStep, A0InStep, RepInStep,
                OnePart, TwoParts, Only, UnderWay
  <2>3. UnderWay(e, << >>, << >>, <<x>>, << >>)'
    BY <1>2, <1>3, <2>1, <2>2 DEF UnderWay, Reading
  <2> QED
    BY <1>2, <1>3, <2>1, <2>2, <2>3 DEF DialogueInv, InStep, A0InStep, OnePart
<1>7. CASE line[e] = <<"head", "tail">>
  <2>1. m_state[e] = "UpLoadRep" /\ orders[e] = << >> /\ m_equipData[e] = << >>
    BY <1>7 DEF DialogueInv, InStep, IdleInStep, UpLoadInStep, A0InStep, RepInStep,
                OnePart, TwoParts, Only, UnderWay
  <2>2. n \in {1, 2} /\ Head(line[e]) # "ACK"
    BY <1>1, <1>7, TwoSeq
  <2>3. CASE n = 1
    <3>1. chunk' = [from |-> e, parts |-> <<"head">>] /\ line'[e] = <<"tail">>
      BY <1>2, <1>3, <1>7, <2>2, <2>3, TwoSeq
    <3>2. UnderWay(e, << >>, << >>, <<"head">>, <<"tail">>)'
      BY <1>2, <1>3, <2>1, <2>2, <3>1 DEF UnderWay, Reading
    <3> QED
      BY <1>2, <1>3, <2>1, <2>2, <3>2 DEF DialogueInv, InStep, RepInStep, TwoParts
  <2>4. CASE n = 2
    <3>1. chunk' = [from |-> e, parts |-> <<"head", "tail">>] /\ line'[e] = << >>
      BY <1>2, <1>3, <1>7, <2>2, <2>4, TwoSeq
    <3>2. UnderWay(e, << >>, << >>, <<"head", "tail">>, << >>)'
      BY <1>2, <1>3, <2>1, <2>2, <3>1 DEF UnderWay, Reading
    <3> QED
      BY <1>2, <1>3, <2>1, <2>2, <3>2 DEF DialogueInv, InStep, RepInStep, TwoParts
  <2> QED
    BY <2>2, <2>3, <2>4
<1>8. CASE line[e] = <<"tail">>
  <2>1. m_state[e] = "UpLoadRep" /\ orders[e] = << >> /\ m_equipData[e] = <<"head">>
    BY <1>4, <1>8 DEF DialogueInv, InStep, IdleInStep, UpLoadInStep, A0InStep, RepInStep,
                OnePart, TwoParts, Only, UnderWay
  <2>2. n = 1
    BY <1>1, <1>8, OneSeq
  <2>3. SubSeq(line[e], 1, n) = <<"tail">> /\ line'[e] = << >> /\ Head(line[e]) # "ACK"
    BY <1>2, <1>8, <2>2, OneSeq
  <2>4. UnderWay(e, << >>, <<"head">>, <<"tail">>, << >>)'
    BY <1>2, <1>3, <2>1, <2>3 DEF UnderWay, Reading
  <2> QED
    BY <1>2, <1>3, <2>1, <2>3, <2>4 DEF DialogueInv, InStep, RepInStep, TwoParts
<1> QED
  BY <1>1, <1>5, <1>6, <1>7, <1>8
     DEF DialogueInv, InStep, IdleInStep, UpLoadInStep, A0InStep, RepInStep,
         OnePart, TwoParts, Only, UnderWay

(* A turn of the loop keeps a part, or hands on all that was kept.         *)
LEMMA PartInStep ==
  ASSUME TypeInv, NEW e, Equips = {e}, DialogueInv(e), RecvPart(e)
  PROVE  DialogueInv(e)'
<1> DEFINE part == Head(chunk.parts)
           message == Append(m_equipData[e], part)
<1>0. TypeOK /\ e # Nobody
  BY DEF TypeInv
<1>1. /\ chunk.from = e
      /\ chunk' = IF Len(chunk.parts) = 1 THEN NoChunk
                  ELSE [chunk EXCEPT !.parts = Tail(@)]
      /\ m_type' = m_type /\ line' = line /\ confused' = confused /\ device' = device
  BY DEF RecvPart
<1>2. ASSUME part \in {"tail", "A0", "A2"}
      PROVE  RecvUpstream(e, message) /\ m_equipData'[e] = << >>
  BY <1>0, <1>2 DEF RecvPart, TypeOK
<1>3. ASSUME part = "head"
      PROVE  /\ m_equipData'[e] = message
             /\ UNCHANGED <<orders, m_state, result>>
  BY <1>0, <1>3 DEF RecvPart, TypeOK
<1>4. \A p : Reading(e, p) => p # << >> /\ chunk = [from |-> e, parts |-> p]
  BY <1>0, <1>1 DEF Reading, NoChunk
<1>a. \A o, q, l : ~ UnderWay(e, o, q, << >>, l)
  BY <1>4 DEF UnderWay
<1>b. \/ /\ m_state[e] = "UpLoadRepA0" /\ m_type[e] = "Solder"
         /\ \/ UnderWay(e, << >>, << >>, <<"A0">>, << >>) /\ device[e] = "ACK"
            \/ UnderWay(e, << >>, << >>, <<"A2">>, << >>)
      \/ /\ m_state[e] = "UpLoadRep"
         /\ \/ UnderWay(e, << >>, << >>, <<"head">>, <<"tail">>)
            \/ UnderWay(e, << >>, << >>, <<"head", "tail">>, << >>)
            \/ UnderWay(e, << >>, <<"head">>, <<"tail">>, << >>)
  BY <1>a DEF DialogueInv, InStep, IdleInStep, UpLoadInStep, A0InStep, RepInStep,
              OnePart, TwoParts, Only
<1>5. ASSUME m_state[e] = "UpLoadRepA0", m_type[e] = "Solder",
             NEW x \in {"A0", "A2"}, x = "A0" => device[e] = "ACK",
             UnderWay(e, << >>, << >>, <<x>>, << >>)
      PROVE  DialogueInv(e)'
  <2>1. chunk = [from |-> e, parts |-> <<x>>] /\ m_equipData[e] = << >>
        /\ orders[e] = << >> /\ line[e] = << >>
    BY <1>4, <1>5 DEF UnderWay
  <2>2. part = x /\ chunk' = NoChunk
    BY <1>1, <2>1, OneSeq
  <2>3. message = <<x>>
    BY <2>1, <2>2, OneSeq
  <2>4. /\ m_state[e] = "UpLoadRepA0" /\ m_type[e] = "Solder"
        /\ x = "A0" => device[e] = "ACK"
    BY <1>5
  <2>5. RecvUpstream(e, message) /\ m_equipData'[e] = << >>
    BY <1>2, <2>2
  <2> HIDE DEF part, message
  <2>6. CASE x = "A2"
    <3>1. /\ m_state'[e] = "Idle" /\ result'[e] = <<"null">>
          /\ orders'[e] = orders[e] \o <<"CAN", "EOT">>
      BY <2>3, <2>4, <2>5, <2>6, UpstreamSolo
    <3>2. orders'[e] = <<"CAN", "EOT">>
      BY <2>1, <3>1, TwoSeq
    <3>3. Only(e, <<"CAN", "EOT">>)'
      BY <1>1, <2>1, <2>2, <2>5, <3>2 DEF Only, UnderWay, Reading
    <3> QED
      BY <1>1, <3>1, <3>3 DEF DialogueInv, InStep, IdleInStep
  <2>7. CASE x = "A0"
    <3>1. message # <<"A2">>
      BY <2>3, <2>7, OneSeq
    <3>2. /\ m_state'[e] = "UpLoadRep" /\ result'[e] = result[e]
          /\ orders'[e] = orders[e] \o <<"ACK">>
      BY <2>4, <2>5, <3>1, UpstreamSolo
    <3>3. orders'[e] = <<"ACK">>
      BY <2>1, <3>2, OneSeq
    <3>4. Only(e, <<"ACK">>)'
      BY <1>1, <2>1, <2>2, <2>5, <3>3 DEF Only, UnderWay, Reading
    <3> QED
      BY <1>1, <2>4, <2>7, <3>2, <3>4 DEF DialogueInv, InStep, RepInStep
  <2> QED
    BY <2>6, <2>7
<1>6. ASSUME m_state[e] = "UpLoadRep", NEW p, NEW l,
             \/ p = <<"head">> /\ l = <<"tail">>
             \/ p = <<"head", "tail">> /\ l = << >>,
             UnderWay(e, << >>, << >>, p, l)
      PROVE  DialogueInv(e)'
  <2>1. chunk = [from |-> e, parts |-> p] /\ m_equipData[e] = << >>
        /\ orders[e] = << >> /\ line[e] = l
    BY <1>4, <1>6 DEF UnderWay
  <2>2. part = "head"
    BY <1>6, <2>1, OneSeq, TwoSeq
  <2>3. message = <<"head">>
    BY <2>1, <2>2, OneSeq
  <2>4. m_state[e] = "UpLoadRep"
    BY <1>6
  <2>5. m_equipData'[e] = <<"head">> /\ UNCHANGED <<orders, m_state, result>>
    BY <1>3, <2>2, <2>3
  <2> HIDE DEF part, message
  <2>6. TwoParts(e)'
    <3>1. CASE p = <<"head">> /\ l = <<"tail">>
      <4>1. chunk' = NoChunk
        BY <1>1, <2>1, <3>1, OneSeq
      <4> QED
        BY <1>1, <2>1, <2>5, <3>1, <4>1 DEF TwoParts, UnderWay, Reading
    <3>2. CASE p = <<"head", "tail">> /\ l = << >>
      <4>1. chunk' = [from |-> e, parts |-> <<"tail">>]
        BY <1>1, <2>1, <3>2, TwoSeq
      <4> QED
        BY <1>1, <2>1, <2>5, <3>2, <4>1 DEF TwoParts, UnderWay, Reading
    <3> QED
      BY <1>6, <3>1, <3>2
  <2> QED
    BY <1>1, <2>4, <2>5, <2>6 DEF DialogueInv, InStep, RepInStep
<1>7. ASSUME m_state[e] = "UpLoadRep",
             UnderWay(e, << >>, <<"head">>, <<"tail">>, << >>)
      PROVE  DialogueInv(e)'
  <2>1. chunk = [from |-> e, parts |-> <<"tail">>] /\ m_equipData[e] = <<"head">>
        /\ orders[e] = << >> /\ line[e] = << >>
    BY <1>4, <1>7 DEF UnderWay
  <2>2. part = "tail" /\ chunk' = NoChunk
    BY <1>1, <2>1, OneSeq
  <2>3. message = Data
    BY <2>1, <2>2, TwoSeq DEF Data
  <2>4. m_state[e] = "UpLoadRep"
    BY <1>7
  <2>5. RecvUpstream(e, message) /\ m_equipData'[e] = << >>
    BY <1>2, <2>2
  <2> HIDE DEF part, message
  <2>6. /\ m_state'[e] = "Idle" /\ result'[e] = Data
        /\ orders'[e] = orders[e] \o <<"EOT">>
    BY <2>3, <2>4, <2>5, UpstreamSolo
  <2>7. orders'[e] = <<"EOT">>
    BY <2>1, <2>6, OneSeq
  <2>8. Only(e, <<"EOT">>)'
    BY <1>1, <2>1, <2>2, <2>5, <2>7 DEF Only, UnderWay, Reading
  <2> QED
    BY <1>1, <2>6, <2>8 DEF DialogueInv, InStep, IdleInStep
<1> QED
  BY <1>b, <1>5, <1>6, <1>7

(* The device takes up an order it waits for, or drops any.                *)
LEMMA DeviceInStep ==
  ASSUME TypeInv, NEW e, Equips = {e}, DialogueInv(e), Device(e)
  PROVE  DialogueInv(e)'
<1> DEFINE order == Head(orders[e])
<1>0. TypeOK /\ e # Nobody
  BY DEF TypeInv
<1>1. /\ chunk = NoChunk /\ orders[e] # << >>
      /\ orders'[e] = Tail(orders[e])
      /\ UNCHANGED <<m_type, m_state, m_equipData, chunk, result>>
  BY <1>0 DEF Device, AtLoop, TypeOK
<1>2. Reading(e, << >>)'
  BY <1>1 DEF Reading
<1>3. ASSUME order \in {"CAN", "EOT"}
      PROVE  line'[e] = line[e] /\ confused' = confused
  <2>1. line[e] \o << >> = line[e]
    BY <1>0 DEF TypeOK
  <2> QED
    BY <1>0, <1>3, <2>1 DEF Device, TypeOK
<1>4. ASSUME order = "ENQ"
      PROVE  /\ confused' = confused
             /\ \/ line'[e] = line[e] \o <<"ACK">> /\ device'[e] = "UL"
                \/ line'[e] = line[e]
  BY <1>0, <1>4 DEF Device, TypeOK
<1>5. ASSUME order = "UL", device[e] = "UL", m_type[e] = "Solder"
      PROVE  /\ confused' = confused
             /\ \/ line'[e] = line[e] \o <<"A0">> /\ device'[e] = "ACK"
                \/ line'[e] = line[e] \o <<"A2">>
                \/ line'[e] = line[e]
  BY <1>0, <1>5 DEF Device, TypeOK
<1>6. ASSUME \/ order = "UL" /\ device[e] = "UL" /\ m_type[e] = "Glue"
             \/ order = "ACK" /\ device[e] = "ACK"
      PROVE  /\ confused' = confused
             /\ line'[e] = line[e] \o Data \/ line'[e] = line[e]
  BY <1>0, <1>6 DEF Device, TypeOK
<1>7. \A o, q, p, l : UnderWay(e, o, q, p, l) => o # << >>
  BY <1>1 DEF UnderWay
<1> HIDE DEF order
<1>8. \A a : orders[e] = <<a>> => order = a /\ orders'[e] = << >>
  BY <1>1, OneSeq DEF order
<1>9. ASSUME NEW a, NEW b, orders[e] = <<a, b>>
      PROVE  order = a /\ orders'[e] = <<b>>
  <2>1. Head(<<a, b>>) = a /\ Tail(<<a, b>>) = <<b>>
    BY TwoSeq
  <2> QED
    BY <1>1, <1>9, <2>1 DEF order
<1>10. ASSUME NEW a, NEW b, NEW c, orders[e] = <<a, b, c>>
       PROVE  order = a /\ orders'[e] = <<b, c>>
  <2>1. Head(<<a, b, c>>) = a /\ Tail(<<a, b, c>>) = <<b, c>>
    BY ThreeSeq
  <2> QED
    BY <1>1, <1>10, <2>1 DEF order
<1>11. CASE m_state[e] = "Idle" /\ IdleInStep(e)
  <2>1. /\ orders[e] \in {<<"EOT">>, <<"CAN", "EOT">>}
        /\ m_equipData[e] = << >> /\ line[e] = << >>
    BY <1>1, <1>11 DEF IdleInStep, Only, UnderWay
  <2>2. order \in {"CAN", "EOT"} /\ orders'[e] \in {<< >>, <<"EOT">>}
    BY <1>8, <1>9, <2>1
  <2>3. Only(e, << >>)' \/ Only(e, <<"EOT">>)'
    BY <1>1, <1>2, <1>3, <2>1, <2>2 DEF Only, UnderWay
  <2> QED
    BY <1>1, <1>3, <1>11, <2>2, <2>3 DEF DialogueInv, InStep, IdleInStep
<1>12. CASE m_state[e] = "UpLoad" /\ UpLoadInStep(e)
  <2>1. /\ orders[e] \in {<<"ENQ">>, <<"EOT", "ENQ">>, <<"CAN", "EOT", "ENQ">>}
        /\ m_equipData[e] = << >> /\ line[e] = << >>
    BY <1>1, <1>12 DEF UpLoadInStep, Only, UnderWay
  <2>2. CASE orders[e] = <<"ENQ">>
    <3>1. order = "ENQ" /\ orders'[e] = << >>
      BY <1>8, <2>2
    <3>2. (line'[e] = <<"ACK">> /\ device'[e] = "UL") \/ line'[e] = << >>
      BY <1>4, <2>1, <3>1, OneSeq
    <3>3. \/ UnderWay(e, << >>, << >>, << >>, <<"ACK">>)' /\ device'[e] = "UL"
          \/ Only(e, << >>)'
      BY <1>1, <1>2, <2>1, <3>1, <3>2 DEF Only, UnderWay
    <3> QED
      BY <1>1, <1>4, <1>12, <3>1, <3>3 DEF DialogueInv, InStep, UpLoadInStep
  <2>3. CASE orders[e] \in {<<"EOT", "ENQ">>, <<"CAN", "EOT", "ENQ">>}
    <3>1. order \in {"CAN", "EOT"} /\ orders'[e] \in {<<"ENQ">>, <<"EOT", "ENQ">>}
      <4>1. CASE orders[e] = <<"EOT", "ENQ">>
        BY <1>9, <4>1
      <4>2. CASE orders[e] = <<"CAN", "EOT", "ENQ">>
        <5>1. order = "CAN" /\ orders'[e] = <<"EOT", "ENQ">>
          BY <1>10, <4>2
        <5> QED
          BY <5>1
      <4> QED
        BY <2>3, <4>1, <4>2
    <3>2. Only(e, <<"ENQ">>)' \/ Only(e, <<"EOT", "ENQ">>)'
      BY <1>1, <1>2, <1>3, <2>1, <3>1 DEF Only, UnderWay
    <3> QED
      BY <1>1, <1>3, <1>12, <3>1, <3>2 DEF DialogueInv, InStep, UpLoadInStep
  <2> QED
    BY <2>1, <2>2, <2>3
<1>13. CASE m_state[e] = "UpLoadRepA0" /\ m_type[e] = "Solder" /\ A0InStep(e)
  <2>1. /\ orders[e] = <<"UL">> /\ device[e] = "UL"
        /\ m_equipData[e] = << >> /\ line[e] = << >>
    BY <1>1, <1>13 DEF A0InStep, OnePart, Only, UnderWay
  <2>2. order = "UL" /\ orders'[e] = << >>
    BY <1>8, <2>1
  <2>3. \/ line'[e] = <<"A0">> /\ device'[e] = "ACK"
        \/ line'[e] = <<"A2">>
        \/ line'[e] = << >>
    BY <1>5, <1>13, <2>1, <2>2, OneSeq
  <2>4. \/ UnderWay(e, << >>, << >>, << >>, <<"A0">>)' /\ device'[e] = "ACK"
        \/ UnderWay(e, << >>, << >>, << >>, <<"A2">>)'
        \/ Only(e, << >>)'
    BY <1>1, <1>2, <2>1, <2>2, <2>3 DEF Only, UnderWay
  <2>5. A0InStep(e)'
    BY <2>4 DEF A0InStep, OnePart
  <2> QED
    BY <1>1, <1>5, <1>13, <2>1, <2>2, <2>5 DEF DialogueInv, InStep
<1>14. CASE m_state[e] = "UpLoadRep" /\ RepInStep(e)
  <2>1. /\ \/ orders[e] = <<"UL">> /\ device[e] = "UL" /\ m_type[e] = "Glue"
           \/ orders[e] = <<"ACK">> /\ device[e] = "ACK"
        /\ m_equipData[e] = << >> /\ line[e] = << >>
    BY <1>1, <1>14 DEF RepInStep, TwoParts, Only, UnderWay
  <2>2. /\ \/ order = "UL" /\ device[e] = "UL" /\ m_type[e] = "Glue"
           \/ order = "ACK" /\ device[e] = "ACK"
        /\ orders'[e] = << >>
    BY <1>8, <2>1
  <2>3. confused' = confused /\ (line'[e] = Data \/ line'[e] = << >>)
    BY <1>6, <2>1, <2>2, TwoSeq DEF Data
  <2>4. UnderWay(e, << >>, << >>, << >>, <<"head", "tail">>)' \/ Only(e, << >>)'
    BY <1>1, <1>2, <2>1, <2>2, <2>3 DEF Only, UnderWay, Data
  <2>5. RepInStep(e)'
    BY <2>4 DEF RepInStep, TwoParts
  <2> QED
    BY <1>1, <1>14, <2>3, <2>5 DEF DialogueInv, InStep
<1> QED
  BY <1>11, <1>12, <1>13, <1>14 DEF DialogueInv, InStep

(* A Task times out: the controller is idle, and in step if nothing is     *)
(* under way.                                                              *)
LEMMA TimeoutInStep ==
  ASSUME TypeInv, NEW e, Equips = {e}, DialogueInv(e), OnTaskTimeout(e)
  PROVE  e \in late' \/ DialogueInv(e)'
<1>1. TypeOK
  BY DEF TypeInv
<1>2. SUFFICES ASSUME e \notin late' PROVE DialogueInv(e)'
  OBVIOUS
<1>3. /\ chunk = NoChunk /\ orders[e] = << >> /\ line[e] = << >> /\ m_equipData[e] = << >>
      /\ m_state'[e] = "Idle"
      /\ UNCHANGED <<m_equipData, chunk, orders, line, confused, result>>
  BY <1>1, <1>2 DEF OnTaskTimeout, AtLoop, ChangeState, TypeOK
<1>4. Only(e, << >>)'
  BY <1>3 DEF Only, UnderWay, Reading
<1> QED
  BY <1>3, <1>4 DEF DialogueInv, InStep, IdleInStep

(* Controller and device stay in step until a Task times out too early.    *)
LEMMA StaysInStep ==
  ASSUME NEW CONSTANT e, Equips = {e}
  PROVE  Spec => [](e \in late \/ DialogueInv(e))
<1>1. Init => DialogueInv(e)
  <2> SUFFICES ASSUME Init PROVE DialogueInv(e)
    OBVIOUS
  <2>1. Only(e, << >>) /\ m_state[e] = "Idle" /\ result[e] = << >> /\ confused = {}
    BY DEF Init, Only, UnderWay, Reading
  <2> QED
    BY <2>1 DEF DialogueInv, InStep, IdleInStep
<1>2. ASSUME [Next]_vars, e \in late PROVE e \in late'
  BY <1>2 DEF Next, vars, RecvCommand, OnTaskTimeout, OnRead, RecvPart, Device
<1>3. ASSUME TypeInv, ReadyWhenFree, DialogueInv(e), [Next]_vars
      PROVE  (e \in late \/ DialogueInv(e))'
  <2>1. CASE UNCHANGED vars
    BY <1>3, <2>1 DEF vars, DialogueInv, InStep, IdleInStep, UpLoadInStep, A0InStep,
                      RepInStep, OnePart, TwoParts, Only, UnderWay, Reading
  <2>2. CASE Next
    <3>1. \/ RecvCommand(e) \/ OnTaskTimeout(e) \/ RecvPart(e) \/ Device(e)
          \/ \E n \in DOMAIN line[e] : OnRead(e, n)
      BY <2>2 DEF Next
    <3> QED
      BY <1>3, <3>1, CommandInStep, TimeoutInStep, PartInStep, DeviceInStep, ReadInStep
  <2> QED
    BY <1>3, <2>1, <2>2
<1>4. TypeInv /\ ReadyWhenFree /\ (e \in late \/ DialogueInv(e)) /\ [Next]_vars
        => (e \in late \/ DialogueInv(e))'
  BY <1>2, <1>3
<1>5. Spec => []ReadyWhenFree
  BY Ready
<1> QED
  BY <1>1, <1>4, <1>5, Types, PTL DEF Spec

(* Every result of a controller that has the state objects to itself is    *)
(* the whole data of a dialogue or the empty result of a refusal, unless a *)
(* Task timed out while its device was talking, however many commands are  *)
(* given, reads cut the messages, and orders the device leaves unanswered  *)
(* (SolderCtrl.cpp:32-58, Sequence.cpp:144-188).                           *)
THEOREM WholeResults ==
  ASSUME NEW CONSTANT e, Equips = {e}
  PROVE  Spec => []ResultIsWhole
<1>1. e \in late \/ DialogueInv(e) => ResultIsWhole
  BY DEF DialogueInv, ResultIsWhole
<1>2. Spec => [](e \in late \/ DialogueInv(e))
  BY StaysInStep
<1> QED
  BY <1>1, <1>2, PTL

(* Under the same assumption the device never gets UL or ACK out of turn   *)
(* (Sequence.cpp:94-115, 207-237).                                         *)
THEOREM InTurn ==
  ASSUME NEW CONSTANT e, Equips = {e}
  PROVE  Spec => []DeviceInTurn
<1>1. TypeInv /\ (e \in late \/ DialogueInv(e)) => DeviceInTurn
  BY DEF TypeInv, TypeOK, DialogueInv, DeviceInTurn
<1>2. Spec => [](e \in late \/ DialogueInv(e))
  BY StaysInStep
<1> QED
  BY <1>1, <1>2, Types, PTL
=============================================================================
