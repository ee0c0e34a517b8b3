--------------------------- MODULE CommTaskProofs ---------------------------
(***************************************************************************)
(* What holds of the request service for every number of clients,          *)
(* transcations, commands and frames, however their addresses overlap: its *)
(* type invariant, and that a task that keeps frames out always has its    *)
(* own response timer running.  And what a lone client gets in exchange    *)
(* for its requests: it implements RequestReply.                           *)
(***************************************************************************)
EXTENDS CommTask, TimerListProofs, FiniteSetTheorems

USE SessionsAssumption, TransAssumption, SubsAssumption, KnowsAssumption,
    HandlesAssumption, CmdsAssumption, FlagsAssumption, BoundsAssumption

(* The looper's list is empty or holds one timer, handed out before.       *)
Slot == SingleOlder(m_timers, m_nextID)

(* A transcation some client can reach, a frame is being handed to or an   *)
(* equipment works for has a Task, though it may be a deleted one.         *)
HasTask ==
  /\ \A s \in Sessions : sess[s] = "open" =>
       \A t \in Subs[s] : m_task[t] \in Sessions
  /\ \A t \in frame.todo : m_task[t] \in Sessions /\ frame.no \in Frames
  /\ \A t \in Trans : asked[t] # {} => m_task[t] \in Sessions

(* The response timer a Task remembers was set for that Task.              *)
OwnTimer ==
  \A s \in Sessions : task[s].m_responseTimeout # NoTimer =>
     /\ task[s].m_responseTimeout \in DOMAIN timer
     /\ timer[task[s].m_responseTimeout].for = s

IInv == TypeOK /\ Slot /\ HasTask /\ OwnTimer /\ BusyIsTimed

-----------------------------------------------------------------------------
(* A Task that a final reply releases is still a Task, is idle, and        *)
(* remembers the same response timer.                                      *)
LEMMA ReleasedLemma ==
  ASSUME NEW tk \in TaskType
  PROVE  /\ Released(tk) \in TaskType
         /\ Released(tk).m_status = "task_idle"
         /\ Released(tk).m_responseTimeout = tk.m_responseTimeout
BY DEF Released, TaskType, TaskStatus

(* Releasing one task, with or without its timer being cancelled, leaves   *)
(* every other busy task its timer.                                        *)
LEMMA ReleaseStep ==
  ASSUME TypeOK, OwnTimer, BusyIsTimed, NEW s \in Sessions, NEW tk \in TaskType,
         tk.m_status = "task_idle" \/ (tk.m_status = task[s].m_status /\ live' = live),
         tk.m_responseTimeout = task[s].m_responseTimeout,
         task' = [task EXCEPT ![s] = tk],
         live' = live \/ live' = live \ {task[s].m_responseTimeout},
         sess' = sess, timer' = timer
  PROVE  OwnTimer' /\ BusyIsTimed'
<1>1. \A u \in Sessions : task'[u].m_responseTimeout = task[u].m_responseTimeout
  BY DEF TypeOK
<1>2. OwnTimer'
  BY <1>1 DEF OwnTimer
<1>3. ASSUME NEW u \in Sessions, Busy(u)'
      PROVE  /\ task[u].m_responseTimeout \in live'
             /\ timer[task[u].m_responseTimeout].for = u
  <2>1. Busy(u)
    BY <1>3 DEF Busy, TypeOK
  <2>2. CASE u = s
    <3>1. task'[u] = tk
      BY <2>2 DEF TypeOK
    <3>2. live' = live
      BY <1>3, <3>1 DEF Busy
    <3> QED
      BY <2>1, <3>2 DEF BusyIsTimed
  <2>3. CASE u # s
    <3>1. /\ task[u].m_responseTimeout \in live
          /\ timer[task[u].m_responseTimeout].for = u
      BY <2>1 DEF BusyIsTimed
    <3>2. task[u].m_responseTimeout # task[s].m_responseTimeout
      <4>1. task[u].m_responseTimeout # NoTimer
        BY <3>1 DEF TypeOK, NoTimer
      <4> QED
        BY <2>3, <3>1, <4>1 DEF OwnTimer
    <3> QED
      BY <3>1, <3>2
  <2> QED
    BY <2>2, <2>3
<1>4. BusyIsTimed'
  BY <1>1, <1>3 DEF BusyIsTimed
<1> QED
  BY <1>2, <1>4

(* So does setting a new response timer for one task, if it runs or the    *)
(* task is already idle again.                                             *)
LEMMA StartStep ==
  ASSUME TypeOK, OwnTimer, BusyIsTimed, NEW s \in Sessions, NEW tk \in TaskType,
         NEW r \in Frames,
         tk.m_responseTimeout = m_nextID,
         task' = [task EXCEPT ![s] = tk],
         timer' = Append(timer, [for |-> s, no |-> r]),
         live' \in {live, live \cup {m_nextID}},
         tk.m_status = "task_idle" \/ m_nextID \in live',
         UNCHANGED sess
  PROVE  OwnTimer' /\ BusyIsTimed'
<1> DEFINE new == m_nextID
<1>0. timer \in Seq([for : Sessions, no : Frames])
  BY DEF TypeOK
<1>1. /\ DOMAIN timer' = DOMAIN timer \cup {new}
      /\ timer'[new].for = s
      /\ \A i \in DOMAIN timer : timer'[i] = timer[i]
  BY <1>0 DEF m_nextID
<1>2. /\ task'[s] = tk
      /\ \A u \in Sessions : u # s => task'[u] = task[u]
  BY DEF TypeOK
<1>3. OwnTimer'
  BY <1>1, <1>2 DEF OwnTimer
<1>4. ASSUME NEW u \in Sessions, Busy(u)'
      PROVE  /\ task'[u].m_responseTimeout \in live'
             /\ timer'[task'[u].m_responseTimeout].for = u
  <2>1. CASE u = s
    BY <1>1, <1>2, <1>4, <2>1 DEF Busy
  <2>2. CASE u # s
    <3>1. Busy(u)
      BY <1>2, <1>4, <2>2 DEF Busy
    <3>2. /\ task[u].m_responseTimeout \in live
          /\ timer[task[u].m_responseTimeout].for = u
      BY <3>1 DEF BusyIsTimed
    <3>3. task[u].m_responseTimeout \in DOMAIN timer
      BY <3>2 DEF TypeOK
    <3> QED
      BY <1>1, <1>2, <2>2, <3>2, <3>3
  <2> QED
    BY <2>1, <2>2
<1>5. BusyIsTimed'
  BY <1>4 DEF BusyIsTimed
<1> QED
  BY <1>3, <1>5

(* What SendMessage and CancelTimer do to the types and the list.          *)
LEMMA SendLemma ==
  ASSUME TypeOK, NEW s \in Sessions, NEW kind \in Kinds,
         NEW reqId \in Frames \cup {NoReqId}, NEW r \in Frames,
         SendMessage(s, kind, reqId, r)
  PROVE  /\ reply' \in [kind : Kinds, m_reqId : Frames \cup {NoReqId}, no : Frames \cup {0}]
         /\ replies' \in [Frames -> 0..2]
<1>1. CASE sess[s] = "open"
  <2>1. reply' = [kind |-> kind, m_reqId |-> reqId, no |-> r]
    BY <1>1 DEF SendMessage
  <2>2. replies' = [replies EXCEPT ![r] = IF replies[r] = 2 THEN 2 ELSE replies[r] + 1]
    BY <1>1 DEF SendMessage
  <2>3. replies[r] \in 0..2
    BY DEF TypeOK
  <2>4. (IF replies[r] = 2 THEN 2 ELSE replies[r] + 1) \in 0..2
    BY <2>3
  <2> QED
    BY <2>1, <2>2, <2>4 DEF TypeOK
<1>2. CASE sess[s] # "open"
  BY <1>2 DEF SendMessage, TypeOK
<1> QED
  BY <1>1, <1>2

(* The list and the running timers after CancelTimer.                      *)
LEMMA CancelLemma ==
  ASSUME NEW list, NEW running, NEW next \in Nat, NEW id,
         SingleOlder(list, next), CancelTimer(list, running, id)
  PROVE  /\ SingleOlder(m_timers', next)
         /\ m_timers' \in Seq(Nat)
         /\ live' \in {running, running \ {id}}
<1>1. SingleOlder(m_timers', next)
  BY SingleOlderLemma DEF CancelTimer
<1>2. m_timers' \in Seq(Nat)
  BY <1>1, SingleOlderLemma
<1> QED
  BY <1>1, <1>2 DEF CancelTimer

-----------------------------------------------------------------------------
(* Nobody is connected and the list holds at most another's timer.         *)
LEMMA InitIInv == Init => IInv
<1> SUFFICES ASSUME Init PROVE IInv
  OBVIOUS
<1> USE DEF Init
<1>1. Slot
  <2>1. m_nextID = 1
    BY DEF m_nextID
  <2> QED
    BY <2>1 DEF Slot, SingleOlder, OtherTimer
<1>2. TypeOK
  <2>1. m_timers \in Seq(Nat)
    BY DEF OtherTimer
  <2>2. task \in [Sessions -> TaskType]
    BY DEF NewTask, TaskType, TaskStatus
  <2>3. timer \in Seq([for : Sessions, no : Frames]) /\ live \in SUBSET DOMAIN timer
    OBVIOUS
  <2>4. crashed \in BOOLEAN
    OBVIOUS
  <2> QED
    BY <2>1, <2>2, <2>3, <2>4 DEF TypeOK, NoFrame, Kinds
<1>3. HasTask /\ OwnTimer /\ BusyIsTimed
  BY DEF HasTask, OwnTimer, BusyIsTimed, Busy, NewTask, NoFrame
<1> QED
  BY <1>1, <1>2, <1>3 DEF IInv

(* A new Task is idle and remembers no timer.                              *)
LEMMA OnConnectionIInv ==
  ASSUME IInv, NEW s \in Sessions, OnConnection(s)
  PROVE  IInv'
<1> USE DEF IInv, OnConnection
<1>1. NewTask \in TaskType
  BY DEF NewTask, TaskType, TaskStatus
<1>2. TypeOK'
  <2>1. task' \in [Sessions -> TaskType] /\ sess' \in [Sessions -> {"none", "open", "freed"}]
    BY <1>1 DEF TypeOK
  <2>2. m_task' \in [Trans -> Sessions \cup {NoSession}]
    BY DEF TypeOK
  <2>3. connects' \in 0..MaxConnects
    BY DEF TypeOK
  <2>4. crashed' \in BOOLEAN
    BY DEF TypeOK
  <2> QED
    BY <2>1, <2>2, <2>3, <2>4 DEF TypeOK
<1>3. Slot'
  BY DEF Slot, m_nextID
<1>4. HasTask'
  <2>1. \A t \in Trans : m_task'[t] = IF t \in Subs[s] THEN s ELSE m_task[t]
    OBVIOUS
  <2>2. \A t \in Trans : m_task[t] \in Sessions => m_task'[t] \in Sessions
    BY <2>1
  <2>3. \A u \in Sessions : sess'[u] = "open" => u = s \/ sess[u] = "open"
    BY DEF TypeOK
  <2>4. \A u \in Sessions : Subs[u] \subseteq Trans
    OBVIOUS
  <2>5. frame.todo \subseteq Trans
    BY DEF TypeOK
  <2> QED
    BY <2>1, <2>2, <2>3, <2>4, <2>5 DEF HasTask
<1>5. OwnTimer' /\ BusyIsTimed'
  <2>1. \A u \in Sessions : task'[u] = IF u = s THEN NewTask ELSE task[u]
    BY DEF TypeOK
  <2>2. \A u \in Sessions : u # s => sess'[u] = sess[u]
    BY DEF TypeOK
  <2> QED
    BY <2>1, <2>2 DEF OwnTimer, BusyIsTimed, Busy, NewTask
<1> QED
  BY <1>2, <1>3, <1>4, <1>5

(* A deleted Task owes nobody a reply.                                     *)
LEMMA OnDisconnectIInv ==
  ASSUME IInv, NEW s \in Sessions, OnDisconnect(s)
  PROVE  IInv'
<1> USE DEF IInv, OnDisconnect
<1>1. TypeOK'
  BY DEF TypeOK
<1>2. \A u \in Sessions : sess'[u] = "open" => sess[u] = "open"
  BY DEF TypeOK
<1> QED
  BY <1>1, <1>2 DEF Slot, m_nextID, HasTask, OwnTimer, BusyIsTimed, Busy

(* A frame taken up goes to transcations that have a Task.                 *)
LEMMA OnFrameIInv ==
  ASSUME IInv, NEW s \in Sessions, NEW cmd \in Cmds \cup {BadFrame}, OnFrame(s, cmd)
  PROVE  IInv'
<1> USE DEF IInv, OnFrame
<1>1. frame' = frame \/ frame' = NoFrame \/
      /\ sent + 1 \in Frames
      /\ frame' = [from |-> s, no |-> sent + 1, cmd |-> cmd, todo |-> Subs[s]]
  BY DEF TypeOK, Frames
<1>2. TypeOK'
  <2>1. frame' \in [from : Sessions \cup {NoSession}, no : Frames \cup {0},
                    cmd : Cmds \cup {BadFrame}, todo : SUBSET Trans]
    BY <1>1 DEF TypeOK, NoFrame
  <2>2. sent' \in 0..MaxFrames
    BY DEF TypeOK
  <2>3. reply' \in [kind : Kinds, m_reqId : Frames \cup {NoReqId}, no : Frames \cup {0}]
    BY DEF TypeOK, Kinds
  <2>4. crashed' \in BOOLEAN
    BY DEF TypeOK
  <2> QED
    BY <2>1, <2>2, <2>3, <2>4 DEF TypeOK
<1>3. HasTask'
  BY <1>1 DEF HasTask, NoFrame
<1> QED
  BY <1>2, <1>3 DEF Slot, m_nextID, OwnTimer, BusyIsTimed, Busy

-----------------------------------------------------------------------------
(* The frame loop's next turn keeps the frame's number and sender.         *)
LEMMA GoOnLemma ==
  ASSUME TypeOK, NEW t \in Trans, GoOn(t)
  PROVE  /\ frame' \in [from : Sessions \cup {NoSession}, no : Frames \cup {0},
                        cmd : Cmds \cup {BadFrame}, todo : SUBSET Trans]
         /\ frame'.todo \subseteq frame.todo
         /\ frame'.todo # {} => frame'.no = frame.no
BY DEF TypeOK, GoOn, NoFrame

(* The parts of the invariant a turn of the frame loop can disturb.        *)
Turn(s) ==
  /\ task' \in [Sessions -> TaskType]
  /\ m_timers' \in Seq(Nat)
  /\ timer' \in Seq([for : Sessions, no : Frames])
  /\ live' \in SUBSET DOMAIN timer'
  /\ asked' \in [Trans -> SUBSET Frames]
  /\ \A t \in Trans : asked'[t] # asked[t] => m_task[t] = s
  /\ reply' \in [kind : Kinds, m_reqId : Frames \cup {NoReqId}, no : Frames \cup {0}]
  /\ replies' \in [Frames -> 0..2]
  /\ Slot'
  /\ OwnTimer'
  /\ BusyIsTimed'

(* The next timer's id is a natural number, and a Task may remember it.    *)
LEMMA TimedLemma ==
  ASSUME TypeOK, NEW s \in Sessions, NEW status \in TaskStatus
  PROVE  /\ m_nextID \in Nat
         /\ Timed(s, status) \in TaskType
         /\ Timed(s, status).m_responseTimeout = m_nextID
<1>1. m_nextID \in Nat
  BY DEF m_nextID, TypeOK
<1>2. task[s] \in TaskType
  BY DEF TypeOK
<1> QED
  BY <1>1, <1>2 DEF Timed, TaskType

(* A timer set for task s joins the timers; its id is theirs.              *)
LEMMA StartLemma ==
  ASSUME IInv, NEW s \in Sessions, frame.no \in Frames, StartResponseTimer(s)
  PROVE  /\ timer' \in Seq([for : Sessions, no : Frames])
         /\ DOMAIN timer' = DOMAIN timer \cup {m_nextID}
         /\ m_nextID' = m_nextID + 1
         /\ SingleOlder(InsertTimer(m_timers, m_nextID), m_nextID')
         /\ InsertTimer(m_timers, m_nextID) \in Seq(Nat)
<1> DEFINE rec == [for |-> s, no |-> frame.no]
<1>1. timer \in Seq([for : Sessions, no : Frames]) /\ rec \in [for : Sessions, no : Frames]
  BY DEF IInv, TypeOK
<1>2. timer' = Append(timer, rec)
  BY DEF StartResponseTimer
<1>3. /\ timer' \in Seq([for : Sessions, no : Frames])
      /\ Len(timer') = Len(timer) + 1
      /\ DOMAIN timer' = DOMAIN timer \cup {Len(timer) + 1}
  <2> HIDE DEF rec
  <2> QED
    BY <1>1, <1>2
<1>4. m_nextID \in Nat /\ m_nextID' = m_nextID + 1
  BY <1>1, <1>3 DEF m_nextID
<1>5. SingleOlder(InsertTimer(m_timers, m_nextID), m_nextID + 1)
  BY <1>4, SingleOlderLemma DEF IInv, Slot
<1>6. InsertTimer(m_timers, m_nextID) \in Seq(Nat)
  BY <1>4, <1>5, SingleOlderLemma
<1> QED
  BY <1>3, <1>4, <1>5, <1>6 DEF m_nextID

(* A command for an equipment, or one nobody handles: the task is busy     *)
(* with its new timer running.                                             *)
LEMMA CommandedTurn ==
  ASSUME IInv, NEW t \in Trans, m_task[t] \in Sessions, frame.no \in Frames,
         Commanded(m_task[t], t) \/ Ignored(m_task[t]), UNCHANGED sess
  PROVE  Turn(m_task[t])
<1> DEFINE s == m_task[t]
<1>1. StartResponseTimer(s) /\ m_timers' = InsertTimer(m_timers, m_nextID)
      /\ live' = live \cup {m_nextID} /\ UNCHANGED <<reply, replies>>
  BY DEF Commanded, Ignored
<1>2. PICK tk \in TaskType : /\ tk.m_responseTimeout = m_nextID
                            /\ task' = [task EXCEPT ![s] = tk]
  <2>1. CASE Commanded(s, t)
    <3> DEFINE tk == [Timed(s, "task_run") EXCEPT !.m_reqId = frame.no]
    <3>1. Timed(s, "task_run") \in TaskType /\ Timed(s, "task_run").m_responseTimeout = m_nextID
      BY TimedLemma DEF IInv, TaskStatus
    <3>2. tk \in TaskType /\ tk.m_responseTimeout = m_nextID
      BY <3>1 DEF TaskType
    <3>3. task' = [task EXCEPT ![s] = tk]
      BY <2>1 DEF Commanded
    <3> QED
      BY <3>2, <3>3
  <2>2. CASE Ignored(s)
    <3>1. /\ Timed(s, "task_accept") \in TaskType
          /\ Timed(s, "task_accept").m_responseTimeout = m_nextID
      BY TimedLemma DEF IInv, TaskStatus
    <3>2. task' = [task EXCEPT ![s] = Timed(s, "task_accept")]
      BY <2>2 DEF Ignored
    <3> QED
      BY <3>1, <3>2
  <2> QED
    BY <2>1, <2>2
<1>3. /\ timer' \in Seq([for : Sessions, no : Frames])
      /\ DOMAIN timer' = DOMAIN timer \cup {m_nextID}
      /\ Slot'
      /\ m_timers' \in Seq(Nat)
  BY <1>1, StartLemma DEF Slot
<1>4. OwnTimer' /\ BusyIsTimed'
  BY <1>1, <1>2, StartStep DEF IInv, StartResponseTimer
<1>5. asked' \in [Trans -> SUBSET Frames]
      /\ \A u \in Trans : asked'[u] # asked[u] => m_task[u] = s
  <2>1. asked' = asked \/ asked' = [asked EXCEPT ![t] = @ \cup {frame.no}]
    BY DEF Commanded, Ignored
  <2>2. asked \in [Trans -> SUBSET Frames]
    BY DEF IInv, TypeOK
  <2>3. CASE asked' = asked
    BY <2>2, <2>3
  <2>4. CASE asked' = [asked EXCEPT ![t] = @ \cup {frame.no}]
    BY <2>2, <2>4
  <2> QED
    BY <2>1, <2>3, <2>4
<1>6. task' \in [Sessions -> TaskType]
  BY <1>2 DEF IInv, TypeOK
<1>7. live' \in SUBSET DOMAIN timer'
  BY <1>1, <1>3 DEF IInv, TypeOK
<1>8. /\ reply' \in [kind : Kinds, m_reqId : Frames \cup {NoReqId}, no : Frames \cup {0}]
      /\ replies' \in [Frames -> 0..2]
  BY <1>1 DEF IInv, TypeOK
<1> QED
  BY <1>3, <1>4, <1>5, <1>6, <1>7, <1>8 DEF Turn

(* An immediate reply: the new timer may stay, but the task is idle.       *)
LEMMA ImmediateTurn ==
  ASSUME IInv, NEW t \in Trans, m_task[t] \in Sessions, frame.no \in Frames,
         Immediate(m_task[t]), UNCHANGED sess
  PROVE  Turn(m_task[t])
<1> DEFINE s == m_task[t]
           old == Timed(s, "task_accept")
           list == InsertTimer(m_timers, m_nextID)
<1>1. StartResponseTimer(s) /\ CancelTimer(list, live \cup {m_nextID}, m_nextID)
      /\ SendMessage(s, "status", frame.no, frame.no) /\ asked' = asked
  BY DEF Immediate
<1>2. PICK tk \in TaskType : /\ tk.m_responseTimeout = m_nextID
                            /\ tk.m_status = "task_idle"
                            /\ task' = [task EXCEPT ![s] = tk]
  <2>1. PICK reqId \in {task[s].m_reqId, frame.no} :
          task' = [task EXCEPT ![s] = [Released(old) EXCEPT !.m_reqId = reqId]]
    BY DEF Immediate
  <2>2. old \in TaskType /\ old.m_responseTimeout = m_nextID
    BY TimedLemma DEF IInv, TaskStatus
  <2>3. /\ Released(old) \in TaskType
        /\ Released(old).m_status = "task_idle"
        /\ Released(old).m_responseTimeout = m_nextID
    BY <2>2, ReleasedLemma
  <2>4. task[s] \in TaskType
    BY DEF IInv, TypeOK
  <2>5. reqId \in Frames \cup {NoReqId}
    BY <2>1, <2>4 DEF TaskType
  <2> DEFINE tk == [Released(old) EXCEPT !.m_reqId = reqId]
  <2>6. /\ tk \in TaskType
        /\ tk.m_status = "task_idle"
        /\ tk.m_responseTimeout = m_nextID
    <3> HIDE DEF old
    <3> QED
      BY <2>3, <2>5 DEF TaskType
  <2> QED
    BY <2>1, <2>6
<1>3. /\ timer' \in Seq([for : Sessions, no : Frames])
      /\ DOMAIN timer' = DOMAIN timer \cup {m_nextID}
      /\ m_nextID \in Nat /\ m_nextID' = m_nextID + 1
      /\ SingleOlder(list, m_nextID')
  BY <1>1, StartLemma, TimedLemma DEF IInv, TaskStatus
<1>4. /\ Slot'
      /\ m_timers' \in Seq(Nat)
      /\ live' \in {live \cup {m_nextID}, (live \cup {m_nextID}) \ {m_nextID}}
  <2> HIDE DEF list
  <2>1. m_nextID' \in Nat
    BY <1>3
  <2> QED
    BY <1>1, <1>3, <2>1, CancelLemma DEF Slot
<1>5. live \subseteq DOMAIN timer /\ m_nextID \notin DOMAIN timer
  BY DEF IInv, TypeOK, m_nextID
<1>6. live' \in {live, live \cup {m_nextID}}
  BY <1>4, <1>5
<1>7. OwnTimer' /\ BusyIsTimed'
  BY <1>1, <1>2, <1>6, StartStep DEF IInv, StartResponseTimer
<1>8. live' \in SUBSET DOMAIN timer'
  BY <1>3, <1>5, <1>6
<1>9. /\ reply' \in [kind : Kinds, m_reqId : Frames \cup {NoReqId}, no : Frames \cup {0}]
      /\ replies' \in [Frames -> 0..2]
  BY <1>1, SendLemma DEF IInv, Kinds
<1>10. task' \in [Sessions -> TaskType]
  BY <1>2 DEF IInv, TypeOK
<1>11. asked' \in [Trans -> SUBSET Frames]
  BY <1>1 DEF IInv, TypeOK
<1> QED
  BY <1>1, <1>3, <1>4, <1>7, <1>8, <1>9, <1>10, <1>11 DEF Turn

(* A final reply to s: message, timer and task.                            *)
LEMMA FinalReply ==
  ASSUME IInv, NEW s \in Sessions, NEW kind \in Kinds, NEW r \in Frames,
         SendMessage(s, kind, task[s].m_reqId, r),
         CancelTimer(m_timers, live, task[s].m_responseTimeout),
         task' = [task EXCEPT ![s] = Released(@)],
         UNCHANGED <<sess, timer>>
  PROVE  /\ task' \in [Sessions -> TaskType]
         /\ m_timers' \in Seq(Nat)
         /\ live' \in SUBSET DOMAIN timer'
         /\ reply' \in [kind : Kinds, m_reqId : Frames \cup {NoReqId}, no : Frames \cup {0}]
         /\ replies' \in [Frames -> 0..2]
         /\ Slot'
         /\ OwnTimer'
         /\ BusyIsTimed'
<1>1. task[s] \in TaskType
  BY DEF IInv, TypeOK
<1>2. task[s].m_reqId \in Frames \cup {NoReqId}
  BY <1>1 DEF TaskType
<1>3. /\ reply' \in [kind : Kinds, m_reqId : Frames \cup {NoReqId}, no : Frames \cup {0}]
      /\ replies' \in [Frames -> 0..2]
  BY <1>2, SendLemma DEF IInv
<1>4. m_nextID \in Nat /\ m_nextID' = m_nextID
  BY DEF m_nextID, IInv, TypeOK
<1>5. /\ Slot'
      /\ m_timers' \in Seq(Nat)
      /\ live' \in {live, live \ {task[s].m_responseTimeout}}
  BY <1>4, CancelLemma DEF IInv, Slot
<1> DEFINE tk == Released(task[s])
<1>6. tk \in TaskType /\ tk.m_status = "task_idle"
      /\ tk.m_responseTimeout = task[s].m_responseTimeout
  BY <1>1, ReleasedLemma
<1>7. OwnTimer' /\ BusyIsTimed'
  <2> HIDE DEF tk
  <2>1. task' = [task EXCEPT ![s] = tk]
    BY DEF tk
  <2>2. TypeOK /\ OwnTimer /\ BusyIsTimed
    BY DEF IInv
  <2>3. /\ live' = live \/ live' = live \ {task[s].m_responseTimeout}
        /\ sess' = sess /\ timer' = timer
    BY <1>5
  <2>4. /\ tk \in TaskType
        /\ tk.m_status = "task_idle" \/ (tk.m_status = task[s].m_status /\ live' = live)
        /\ tk.m_responseTimeout = task[s].m_responseTimeout
    BY <1>6
  <2> QED
    BY <2>1, <2>2, <2>3, <2>4, ReleaseStep
<1>8. task' \in [Sessions -> TaskType]
  BY <1>6 DEF IInv, TypeOK
<1>9. live' \in SUBSET DOMAIN timer'
  BY <1>5 DEF IInv, TypeOK
<1> QED
  BY <1>3, <1>5, <1>7, <1>8, <1>9

(* A transcation that does not know the command: a bit, or a reply.        *)
LEMMA NothingToDoTurn ==
  ASSUME IInv, NEW t \in Trans, m_task[t] \in Sessions, frame.no \in Frames,
         NothingToDo(m_task[t], t), UNCHANGED sess
  PROVE  Turn(m_task[t])
<1> DEFINE s == m_task[t]
           reported == task[s].rept \cup (Subs[s] \cap {t})
<1>0. UNCHANGED <<timer, asked>>
  BY DEF NothingToDo
<1>1. CASE Subs[s] \subseteq reported
  <2>1. /\ SendMessage(s, "ErrorCommand", task[s].m_reqId, frame.no)
        /\ CancelTimer(m_timers, live, task[s].m_responseTimeout)
        /\ task' = [task EXCEPT ![s] = Released(@)]
    BY <1>1 DEF NothingToDo
  <2>2. "ErrorCommand" \in Kinds
    BY DEF Kinds
  <2>3. /\ task' \in [Sessions -> TaskType]
        /\ m_timers' \in Seq(Nat)
        /\ live' \in SUBSET DOMAIN timer'
        /\ reply' \in [kind : Kinds, m_reqId : Frames \cup {NoReqId}, no : Frames \cup {0}]
        /\ replies' \in [Frames -> 0..2]
        /\ Slot' /\ OwnTimer' /\ BusyIsTimed'
    BY <1>0, <2>1, <2>2, FinalReply
  <2>4. /\ timer' \in Seq([for : Sessions, no : Frames])
        /\ asked' \in [Trans -> SUBSET Frames]
    BY <1>0 DEF IInv, TypeOK
  <2> QED
    BY <1>0, <2>3, <2>4 DEF Turn
<1>2. CASE ~ (Subs[s] \subseteq reported)
  <2>1. /\ task' = [task EXCEPT ![s].rept = reported]
        /\ UNCHANGED <<m_timers, live, reply, replies>>
    BY <1>2 DEF NothingToDo
  <2>2. task[s] \in TaskType /\ reported \in SUBSET Trans
    BY DEF IInv, TypeOK, TaskType
  <2> DEFINE tk == [task[s] EXCEPT !.rept = reported]
  <2>3. tk \in TaskType /\ tk.m_status = task[s].m_status
        /\ tk.m_responseTimeout = task[s].m_responseTimeout
    BY <2>2 DEF TaskType
  <2>4. task' = [task EXCEPT ![s] = tk]
    BY <2>1
  <2>5. OwnTimer' /\ BusyIsTimed'
    <3> HIDE DEF tk
    <3> QED
      BY <1>0, <2>1, <2>3, <2>4, ReleaseStep DEF IInv
  <2>6. task' \in [Sessions -> TaskType]
    BY <2>3, <2>4 DEF IInv, TypeOK
  <2> QED
    BY <1>0, <2>1, <2>5, <2>6 DEF Turn, IInv, TypeOK, Slot, m_nextID
<1> QED
  BY <1>1, <1>2

(* One turn of the frame loop.                                             *)
LEMMA DownInfoIInv ==
  ASSUME IInv, NEW t \in Trans, DownInfo(t)
  PROVE  IInv'
<1> DEFINE s == m_task[t]
<1>1. /\ t \in frame.todo /\ GoOn(t)
      /\ UNCHANGED <<sess, m_task, sent, connects>>
  BY DEF DownInfo
<1>2. s \in Sessions /\ frame.no \in Frames
  BY <1>1 DEF IInv, HasTask
<1>3. /\ frame' \in [from : Sessions \cup {NoSession}, no : Frames \cup {0},
                     cmd : Cmds \cup {BadFrame}, todo : SUBSET Trans]
      /\ frame'.todo \subseteq frame.todo
      /\ frame'.todo # {} => frame'.no = frame.no
  BY <1>1, GoOnLemma DEF IInv
<1>4. Turn(s)
  <2>1. CASE UNCHANGED <<task, m_timers, timer, live, asked, reply, replies>>
    BY <1>1, <2>1 DEF Turn, IInv, TypeOK, Slot, m_nextID, OwnTimer, BusyIsTimed, Busy
  <2>2. CASE NothingToDo(s, t)
    BY <1>1, <1>2, <2>2, NothingToDoTurn
  <2>3. CASE Ignored(s) \/ Commanded(s, t)
    BY <1>1, <1>2, <2>3, CommandedTurn
  <2>4. CASE Immediate(s)
    BY <1>1, <1>2, <2>4, ImmediateTurn
  <2> QED
    BY <2>1, <2>2, <2>3, <2>4 DEF DownInfo
<1>5. TypeOK'
  <2>1. /\ sess' \in [Sessions -> {"none", "open", "freed"}]
        /\ m_task' \in [Trans -> Sessions \cup {NoSession}]
        /\ sent' \in 0..MaxFrames
        /\ connects' \in 0..MaxConnects
    BY <1>1 DEF IInv, TypeOK
  <2>2. crashed' \in BOOLEAN
    BY DEF DownInfo, IInv, TypeOK
  <2> QED
    BY <1>3, <1>4, <2>1, <2>2 DEF TypeOK, Turn
<1>6. HasTask'
  <2>1. \A u \in Trans : asked'[u] # asked[u] => m_task[u] = s
    BY <1>4 DEF Turn
  <2> QED
    BY <1>1, <1>2, <1>3, <2>1 DEF IInv, HasTask
<1> QED
  BY <1>4, <1>5, <1>6 DEF IInv, Turn

(* An answer, whether it becomes a reply or is dropped.                    *)
LEMMA UpdateInfoIInv ==
  ASSUME IInv, NEW t \in Trans, NEW r \in Frames, UpdateInfo(t, r)
  PROVE  IInv'
<1> DEFINE s == m_task[t]
<1>1. /\ r \in asked[t] /\ asked' \in {asked, [asked EXCEPT ![t] = @ \ {r}]}
      /\ UNCHANGED <<sess, m_task, timer, frame, sent, connects>>
  BY DEF UpdateInfo
<1>2. UNCHANGED crashed
  BY DEF UpdateInfo
<1>3. s \in Sessions
  BY <1>1 DEF IInv, HasTask
<1>4. /\ asked' \in [Trans -> SUBSET Frames]
      /\ \A u \in Trans : asked'[u] \subseteq asked[u]
  <2>1. CASE asked' = asked
    BY <2>1 DEF IInv, TypeOK
  <2>2. CASE asked' = [asked EXCEPT ![t] = @ \ {r}]
    BY <2>2 DEF IInv, TypeOK
  <2> QED
    BY <1>1, <2>1, <2>2
<1>5. HasTask'
  BY <1>1, <1>4 DEF IInv, HasTask
<1>6. CASE UNCHANGED <<reply, replies, m_timers, live, task>>
  <2>1. TypeOK'
    BY <1>1, <1>2, <1>4, <1>6 DEF IInv, TypeOK
  <2> QED
    BY <1>1, <1>5, <1>6, <2>1 DEF IInv, Slot, m_nextID, OwnTimer, BusyIsTimed, Busy
<1>7. CASE /\ SendMessage(s, "result", task[s].m_reqId, r)
           /\ CancelTimer(m_timers, live, task[s].m_responseTimeout)
           /\ task' = [task EXCEPT ![s] = Released(@)]
  <2>1. "result" \in Kinds
    BY DEF Kinds
  <2>2. /\ task' \in [Sessions -> TaskType]
        /\ m_timers' \in Seq(Nat)
        /\ live' \in SUBSET DOMAIN timer'
        /\ reply' \in [kind : Kinds, m_reqId : Frames \cup {NoReqId}, no : Frames \cup {0}]
        /\ replies' \in [Frames -> 0..2]
        /\ Slot' /\ OwnTimer' /\ BusyIsTimed'
    BY <1>1, <1>3, <1>7, <2>1, FinalReply
  <2>3. TypeOK'
    BY <1>1, <1>2, <1>4, <2>2 DEF IInv, TypeOK
  <2> QED
    BY <1>5, <2>2, <2>3 DEF IInv
<1> QED
  BY <1>6, <1>7 DEF UpdateInfo

(* A response timer fires, for the request it was set for or for none.     *)
LEMMA OnTimerIInv ==
  ASSUME IInv, NEW i \in Timers, OnTimer(i)
  PROVE  IInv'
<1> DEFINE s == timer[i].for
<1>1. /\ i \in live
      /\ UNCHANGED <<sess, m_task, timer, frame, sent, connects>>
  BY DEF OnTimer
<1>2. UNCHANGED crashed
  BY DEF OnTimer
<1>3. s \in Sessions /\ timer[i].no \in Frames
  <2>1. i \in DOMAIN timer /\ timer \in Seq([for : Sessions, no : Frames])
    BY <1>1 DEF IInv, TypeOK
  <2>2. ASSUME NEW S, NEW q \in Seq(S), NEW k \in DOMAIN q PROVE q[k] \in S
    OBVIOUS
  <2>3. timer[i] \in [for : Sessions, no : Frames]
    BY <2>1, <2>2
  <2> QED
    BY <2>3
<1>4. CASE task[s].m_responseTimeout = i
  <2>1. /\ OnTaskTimeout(s)
        /\ SendMessage(s, "Timeout", task[s].m_reqId, timer[i].no)
        /\ CancelTimer(m_timers, live, task[s].m_responseTimeout)
        /\ task' = [task EXCEPT ![s] = Released(@)]
    BY <1>4 DEF OnTimer
  <2>2. "Timeout" \in Kinds
    BY DEF Kinds
  <2>3. /\ task' \in [Sessions -> TaskType]
        /\ m_timers' \in Seq(Nat)
        /\ live' \in SUBSET DOMAIN timer'
        /\ reply' \in [kind : Kinds, m_reqId : Frames \cup {NoReqId}, no : Frames \cup {0}]
        /\ replies' \in [Frames -> 0..2]
        /\ Slot' /\ OwnTimer' /\ BusyIsTimed'
    BY <1>1, <1>3, <2>1, <2>2, FinalReply
  <2>4. asked' \in [Trans -> SUBSET Frames]
        /\ \A u \in Trans : asked'[u] # {} => asked[u] # {}
    BY <2>1 DEF OnTaskTimeout, IInv, TypeOK
  <2>5. TypeOK'
    BY <1>1, <1>2, <2>3, <2>4 DEF IInv, TypeOK
  <2>6. HasTask'
    BY <1>1, <2>4 DEF IInv, HasTask
  <2> QED
    BY <2>3, <2>5, <2>6 DEF IInv
<1>5. CASE task[s].m_responseTimeout # i
  <2>1. UNCHANGED <<task, asked, reply, replies, m_timers, live>>
    BY <1>5 DEF OnTimer
  <2>2. TypeOK'
    BY <1>1, <1>2, <2>1 DEF IInv, TypeOK
  <2> QED
    BY <1>1, <2>1, <2>2 DEF IInv, Slot, m_nextID, HasTask, OwnTimer, BusyIsTimed, Busy
<1> QED
  BY <1>4, <1>5

(* Every step, and no step, keeps the invariant.                           *)
LEMMA NextIInv == IInv /\ [Next]_vars => IInv'
<1> SUFFICES ASSUME IInv, [Next]_vars PROVE IInv'
  OBVIOUS
<1>1. ASSUME UseOfDeletedTask PROVE IInv'
  <2>1. crashed' \in BOOLEAN
    BY <1>1 DEF UseOfDeletedTask
  <2>2. UNCHANGED <<sess, task, m_task, m_timers, timer, live, asked,
                    frame, sent, connects, reply, replies>>
    BY <1>1 DEF UseOfDeletedTask
  <2> QED
    BY <2>1, <2>2 DEF IInv, TypeOK, Slot, m_nextID, HasTask, OwnTimer, BusyIsTimed, Busy
<1>2. CASE UNCHANGED vars
  <2>1. crashed' \in BOOLEAN
    BY <1>2 DEF vars, IInv, TypeOK
  <2> QED
    BY <1>2, <2>1 DEF vars, IInv, TypeOK, Slot, m_nextID, HasTask, OwnTimer, BusyIsTimed, Busy
<1> QED
  BY <1>1, <1>2, OnConnectionIInv, OnDisconnectIInv, OnFrameIInv, DownInfoIInv,
     UpdateInfoIInv, OnTimerIInv DEF Next

(* The strengthened invariant holds of every behaviour.                    *)
THEOREM Inductive == Spec => []IInv
BY InitIInv, NextIInv, PTL DEF Spec

(* Every variable keeps its type, for any number of clients, transcations  *)
(* and frames (Communication/CommServer.cpp, transcation/task.cpp).        *)
THEOREM TypeCorrect == Spec => []TypeOK
BY Inductive, PTL DEF IInv

(* No client is ever locked out: whatever its task waits for, the task's   *)
(* own response timer is running (task.cpp:35-46).                         *)
THEOREM BusyHasTimer == Spec => []BusyIsTimed
BY Inductive, PTL DEF IInv
-----------------------------------------------------------------------------
(* One client with one transcation, connected once, the looper's slot free *)
(* and equipment in step with the Task (a balance is, see AnswersAwaited   *)
(* of ElecBalanceProofs); and every command of the configuration has a     *)
(* branch in ProcessCmd.                                                   *)
Alone ==
  /\ MaxConnects = 1 /\ ~ SlotTaken /\ InStep
  /\ \A s \in Sessions : \E t \in Trans : Subs[s] = {t}
  /\ \A t \in Trans : Knows[t] \subseteq Handles[t]

Idle(c) == task[c].m_status = "task_idle"

(* Nothing is under way.                                                   *)
Rests ==
  /\ live = {} /\ m_timers = << >>
  /\ \A t \in Trans : asked[t] = {}

(* One request is under way: the one the Task's ReqId and its response     *)
(* timer name.  No other timer is in the looper's list.                    *)
Works(c) ==
  LET i == task[c].m_responseTimeout IN
  /\ i \in DOMAIN timer
  /\ timer[i].for = c /\ timer[i].no = task[c].m_reqId
  /\ live = {i} /\ m_timers = <<i>>
  /\ \A t \in Trans : asked[t] \subseteq {task[c].m_reqId}

(* The session c is the only one there ever was.                           *)
Only(c) ==
  /\ sess[c] # "none" /\ connects = 1
  /\ \A u \in Sessions : u # c => sess[u] = "none"
  /\ \A t \in Trans : m_task[t] = IF t \in Subs[c] THEN c ELSE NoSession

Serves(c) ==
  /\ Only(c)
  /\ frame # NoFrame => /\ frame.from = c /\ frame.todo = Subs[c]
                        /\ sess[c] = "open" /\ Idle(c)
  /\ IF Idle(c) THEN Rests ELSE Works(c)
  /\ Pending(c) # 0 => Pending(c) \in 1..sent /\ replies[Pending(c)] = 0

NobodyYet ==
  /\ connects = 0 /\ frame = NoFrame /\ Rests
  /\ \A s \in Sessions : sess[s] = "none"
  /\ \A t \in Trans : m_task[t] = NoSession

(* Requests not taken up yet have no reply.                                *)
Fresh == \A r \in Frames : r > sent => replies[r] = 0

AloneInv ==
  /\ NobodyYet \/ \E c \in Sessions : Serves(c)
  /\ Fresh /\ ReplyNamesItsRequest

(* What a step may do to the client's request: nothing, take it up, or end *)
(* it with at most one reply.                                              *)
Stutters(c) == Pending(c)' = Pending(c) /\ UNCHANGED <<sent, replies>>
Asks(c) ==
  /\ Pending(c) = 0 /\ Pending(c)' = sent + 1 /\ sent' = sent + 1
  /\ UNCHANGED replies
Ends(c) ==
  /\ Pending(c) # 0 /\ Pending(c)' = 0 /\ sent' = sent
  /\ replies' \in {replies, [replies EXCEPT ![Pending(c)] = 1]}

Kept(c) ==
  /\ Serves(c)' /\ ReplyNamesItsRequest'
  /\ Stutters(c) \/ Asks(c) \/ Ends(c)

(* Nobody else waits for a request.                                        *)
LEMMA PendingOnly ==
  ASSUME NEW c \in Sessions
  PROVE  /\ Serves(c) => \A u \in Sessions : u # c => Pending(u) = 0
         /\ Serves(c)' => \A u \in Sessions : u # c => Pending(u)' = 0
BY DEF Serves, Only, Pending, Busy, NoFrame

(* A step of the request service as RequestReply sees it.                  *)
LEMMA KeptSimulated ==
  ASSUME TypeOK, NEW c \in Sessions, Serves(c), Kept(c)
  PROVE  [Promise!Next]_Promise!vars
<1> DEFINE P == [s \in Sessions |-> Pending(s)]
<1>1. /\ P \in [Sessions -> {Pending(s) : s \in Sessions}]
      /\ \A u \in Sessions : P[u] = Pending(u)
      /\ P' = [s \in Sessions |-> Pending(s)']
  OBVIOUS
<1>2. \A u \in Sessions : u # c => Pending(u) = 0 /\ Pending(u)' = 0
  BY PendingOnly DEF Kept
<1>3. CASE Stutters(c)
  <2>1. P' = P
    BY <1>2, <1>3 DEF Stutters
  <2> QED
    BY <1>3, <2>1 DEF Promise!vars, Stutters
<1>4. CASE Asks(c)
  <2>1. P' = [P EXCEPT ![c] = sent + 1]
    BY <1>2, <1>4 DEF Asks
  <2>2. Promise!Ask(c)
    BY <1>4, <2>1 DEF Asks, Promise!Ask
  <2> QED
    BY <2>2 DEF Promise!Next
<1>5. CASE Ends(c)
  <2>1. P' = [P EXCEPT ![c] = 0]
    BY <1>2, <1>5 DEF Ends
  <2>2. P[c] = Pending(c) /\ replies[Pending(c)] = 0
    BY <1>5 DEF Ends, Serves
  <2>3. Promise!Answer(c) \/ Promise!Drop(c)
    BY <1>5, <2>1, <2>2 DEF Ends, Promise!Answer, Promise!Drop
  <2> QED
    BY <2>3 DEF Promise!Next
<1> QED
  BY <1>3, <1>4, <1>5 DEF Kept

(* Only replies to requests taken up are counted.                          *)
LEMMA KeptFresh ==
  ASSUME TypeOK, NEW c \in Sessions, Serves(c), Kept(c), Fresh
  PROVE  Fresh'
<1>1. sent \in Nat /\ replies \in [Frames -> 0..2]
  BY DEF TypeOK
<1>2. CASE Stutters(c) \/ Asks(c)
  BY <1>1, <1>2 DEF Stutters, Asks, Fresh, Frames
<1>3. CASE Ends(c)
  <2>1. Pending(c) \in 1..sent
    BY <1>3 DEF Ends, Serves
  <2> QED
    BY <1>1, <1>3, <2>1 DEF Ends, Fresh, Frames
<1> QED
  BY <1>2, <1>3 DEF Kept

(* The one transcation of the client, the only one that owes answers or    *)
(* gets frames.                                                            *)
LEMMA OneTranscation ==
  ASSUME Alone, IInv, NEW c \in Sessions, Serves(c)
  PROVE  \E one \in Trans :
           /\ Subs[c] = {one} /\ m_task[one] = c
           /\ \A t \in Trans : asked[t] # {} => t = one
           /\ frame # NoFrame => frame.todo = {one} /\ frame.no \in Frames
<1>1. PICK one \in Trans : Subs[c] = {one}
  BY DEF Alone
<1>2. m_task[one] = c /\ \A t \in Trans : t # one => m_task[t] = NoSession
  BY <1>1 DEF Serves, Only
<1>3. \A t \in Trans : asked[t] # {} => m_task[t] \in Sessions
  BY DEF IInv, HasTask
<1>4. frame # NoFrame => frame.todo = {one}
  BY <1>1 DEF Serves
<1>5. frame # NoFrame => frame.no \in Frames
  BY <1>4 DEF IInv, HasTask
<1> QED
  BY <1>1, <1>2, <1>3, <1>4, <1>5

(* A step that touches none of what Serves is about.                       *)
LEMMA NothingKept ==
  ASSUME IInv, NEW c \in Sessions, Serves(c), ReplyNamesItsRequest,
         UNCHANGED <<sess, task, m_task, m_timers, timer, live, asked, frame,
                     sent, connects, replies>>,
         reply' = reply \/ reply'.kind \notin {"result", "Timeout"}
  PROVE  Kept(c)
<1>1. Pending(c)' = Pending(c)
  BY DEF Pending, Busy
<1>2. Serves(c)'
  BY <1>1 DEF Serves, Only, Idle, Rests, Works
<1>3. ReplyNamesItsRequest'
  BY DEF ReplyNamesItsRequest
<1> QED
  BY <1>1, <1>2, <1>3 DEF Kept, Stutters

(* The client that leaves takes its request with it.                       *)
LEMMA OnDisconnectKept ==
  ASSUME IInv, NEW c \in Sessions, Serves(c), ReplyNamesItsRequest,
         NEW s \in Sessions, OnDisconnect(s)
  PROVE  Kept(c)
<1>1. s = c /\ frame = NoFrame /\ sess' = [sess EXCEPT ![c] = "freed"]
  BY DEF OnDisconnect, AtLoop, Serves, Only
<1>2. UNCHANGED <<task, m_task, m_timers, timer, live, asked, frame, sent,
                  connects, reply, replies>>
  BY DEF OnDisconnect
<1>3. /\ sess'[c] = "freed"
      /\ \A u \in Sessions : u # c => sess'[u] = sess[u]
  BY <1>1 DEF IInv, TypeOK
<1>4. Pending(c)' = 0
  BY <1>1, <1>2, <1>3 DEF Pending, Busy, NoFrame
<1>5. Serves(c)'
  BY <1>1, <1>2, <1>3, <1>4 DEF Serves, Only, Idle, Rests, Works
<1> QED
  BY <1>2, <1>4, <1>5 DEF Kept, Stutters, Ends, ReplyNamesItsRequest

(* A frame is refused, or taken up by a client that waits for nothing.     *)
LEMMA OnFrameKept ==
  ASSUME Alone, IInv, NEW c \in Sessions, Serves(c), ReplyNamesItsRequest, Fresh,
         NEW s \in Sessions, NEW cmd \in Cmds \cup {BadFrame}, OnFrame(s, cmd)
  PROVE  Kept(c)
<1>1. s = c /\ frame = NoFrame /\ sess[c] = "open"
  BY DEF OnFrame, AtLoop, Serves, Only
<1>2. UNCHANGED <<sess, task, m_task, m_timers, timer, live, asked, connects, replies>>
  BY DEF OnFrame
<1>3. CASE ~ Idle(c)
  <2>1. UNCHANGED <<sent, frame>>
        /\ reply' = [kind |-> "Busy", m_reqId |-> NoReqId, no |-> 0]
    BY <1>1, <1>3 DEF OnFrame, Idle
  <2>2. reply'.kind \notin {"result", "Timeout"}
    BY <2>1
  <2> QED
    BY <1>2, <2>1, <2>2, NothingKept
<1>4. CASE Idle(c)
  <2>1. /\ sent < MaxFrames /\ sent' = sent + 1 /\ reply' = reply
        /\ frame' = [from |-> c, no |-> sent + 1, cmd |-> cmd, todo |-> Subs[c]]
    BY <1>1, <1>4 DEF OnFrame, Idle, Alone
  <2>2. frame'.from = c /\ frame'.no = sent + 1 /\ frame'.todo = Subs[c]
    BY <2>1
  <2>3. Pending(c) = 0 /\ Pending(c)' = sent + 1
    BY <1>1, <1>4, <2>2 DEF Pending, Busy, Idle, NoFrame
  <2>4. /\ sent \in Nat /\ sent + 1 \in Frames
        /\ replies[sent + 1] = 0
    BY <2>1 DEF IInv, TypeOK, Frames, Fresh
  <2>5. Pending(c)' \in 1..sent' /\ replies'[Pending(c)'] = 0
    BY <1>2, <2>1, <2>3, <2>4
  <2>6. Rests /\ Idle(c)' /\ Rests' /\ Only(c)'
    BY <1>2, <1>4 DEF Serves, Only, Idle, Rests
  <2>7. Serves(c)'
    BY <1>1, <1>2, <2>2, <2>5, <2>6 DEF Serves
  <2> QED
    BY <1>2, <2>1, <2>3, <2>7 DEF Kept, Asks, ReplyNamesItsRequest
<1> QED
  BY <1>3, <1>4

(* A reply to the pending request, or none, and nothing left to do.        *)
LEMMA EndKept ==
  ASSUME IInv, IInv', NEW c \in Sessions, Serves(c), ReplyNamesItsRequest',
         Idle(c)', Rests', frame' = NoFrame,
         UNCHANGED <<sess, m_task, connects, sent>>,
         replies' = replies
           \/ (Pending(c) # 0 /\ replies' = [replies EXCEPT ![Pending(c)] = 1])
  PROVE  Kept(c)
<1>1. Pending(c)' = 0
  BY DEF Pending, Busy, Idle, NoFrame
<1>2. Serves(c)'
  BY <1>1 DEF Serves, Only
<1>3. Stutters(c) \/ Ends(c)
  BY <1>1 DEF Stutters, Ends
<1> QED
  BY <1>2, <1>3 DEF Kept

(* SendMessage about the pending request counts its only reply.            *)
LEMMA SendCounts ==
  ASSUME IInv, NEW c \in Sessions, Serves(c), NEW kind, NEW reqId, NEW r \in Frames,
         SendMessage(c, kind, reqId, r), sess[c] = "open" => Pending(c) = r
  PROVE  /\ \/ replies' = replies
            \/ Pending(c) # 0 /\ replies' = [replies EXCEPT ![Pending(c)] = 1]
         /\ reply' = reply \/ reply' = [kind |-> kind, m_reqId |-> reqId, no |-> r]
<1>1. CASE sess[c] = "open"
  <2>1. r # 0 /\ Pending(c) = r /\ replies[r] = 0
    BY <1>1 DEF Frames, Serves
  <2> QED
    BY <1>1, <2>1 DEF SendMessage
<1>2. CASE sess[c] # "open"
  BY <1>2 DEF SendMessage
<1> QED
  BY <1>1, <1>2

(* A final reply stops the timer, for the list holds no other one.         *)
LEMMA CancelAll ==
  ASSUME NEW id \in Nat
  PROVE  /\ CancelTimer(<<id>>, {id}, id) => m_timers' = << >> /\ live' = {}
         /\ \A other : CancelTimer(<< >>, {}, other) => m_timers' = << >> /\ live' = {}
<1>1. Listed(<<id>>, id) /\ EraseTimer(<<id>>, id) = << >>
      /\ \A other : ~ Listed(<< >>, other)
  BY SingletonLemma
<1>2. \A other : EraseTimer(<< >>, other) = << >>
  BY <1>1 DEF EraseTimer
<1> QED
  BY <1>1, <1>2 DEF CancelTimer

(* A Task that a final reply releases is idle.                             *)
LEMMA ReleasedIdle ==
  ASSUME IInv, NEW c \in Sessions, task' = [task EXCEPT ![c] = Released(@)]
  PROVE  Idle(c)'
<1>1. task[c] \in TaskType /\ task' = [task EXCEPT ![c] = Released(task[c])]
  BY DEF IInv, TypeOK
<1>2. task'[c] = Released(task[c])
  BY <1>1 DEF IInv, TypeOK
<1> QED
  BY <1>1, <1>2, ReleasedLemma DEF Idle

(* The turn of the client's only transcation ends the frame loop.          *)
LEMMA DownInfoKept ==
  ASSUME Alone, IInv, IInv', NEW c \in Sessions, Serves(c), ReplyNamesItsRequest,
         NEW t \in Trans, DownInfo(t)
  PROVE  Kept(c)
<1>1. /\ t \in frame.todo /\ GoOn(t)
      /\ UNCHANGED <<sess, m_task, sent, connects>>
  BY DEF DownInfo
<1>2. /\ frame # NoFrame /\ frame.from = c /\ frame.todo = {t} /\ frame.no \in Frames
      /\ Subs[c] = {t} /\ m_task[t] = c /\ sess[c] = "open"
      /\ Idle(c) /\ Rests
  BY <1>1, OneTranscation DEF NoFrame, Serves
<1>3. frame' = NoFrame /\ Pending(c) = frame.no /\ Pending(c) # 0
  BY <1>1, <1>2 DEF GoOn, Pending, Frames
<1>4. m_nextID \in Nat
  BY DEF m_nextID, IInv, TypeOK
<1>5. ASSUME NEW kind \in Kinds \ {"result", "Timeout"}, NEW reqId,
             SendMessage(c, kind, reqId, frame.no), Idle(c)', Rests'
      PROVE  Kept(c)
  <2>1. /\ \/ replies' = replies
           \/ Pending(c) # 0 /\ replies' = [replies EXCEPT ![Pending(c)] = 1]
        /\ reply' = reply \/ reply' = [kind |-> kind, m_reqId |-> reqId, no |-> frame.no]
    BY <1>2, <1>3, <1>5, SendCounts
  <2>2. ReplyNamesItsRequest'
    BY <1>5, <2>1 DEF ReplyNamesItsRequest
  <2> QED
    BY <1>1, <1>3, <1>5, <2>1, <2>2, EndKept
<1>6. CASE UNCHANGED <<task, m_timers, timer, live, asked, reply, replies>>
  <2>1. Idle(c)' /\ Rests' /\ ReplyNamesItsRequest'
    BY <1>2, <1>6 DEF Idle, Rests, ReplyNamesItsRequest
  <2> QED
    BY <1>1, <1>3, <1>6, <2>1, EndKept
<1>7. CASE NothingToDo(c, t)
  <2>1. Subs[c] \subseteq task[c].rept \cup (Subs[c] \cap {t})
    BY <1>2
  <2>2. /\ SendMessage(c, "ErrorCommand", task[c].m_reqId, frame.no)
        /\ CancelTimer(m_timers, live, task[c].m_responseTimeout)
        /\ task' = [task EXCEPT ![c] = Released(@)]
        /\ UNCHANGED asked
    BY <1>7, <2>1 DEF NothingToDo
  <2>3. m_timers' = << >> /\ live' = {}
    BY <1>2, <1>4, <2>2, CancelAll DEF Rests
  <2>4. Idle(c)' /\ Rests'
    BY <1>2, <2>2, <2>3, ReleasedIdle DEF Rests
  <2>5. "ErrorCommand" \in Kinds \ {"result", "Timeout"}
    BY DEF Kinds
  <2> QED
    BY <1>5, <2>2, <2>4, <2>5
<1>8. CASE Immediate(c)
  <2>1. /\ SendMessage(c, "status", frame.no, frame.no)
        /\ CancelTimer(InsertTimer(m_timers, m_nextID), live \cup {m_nextID}, m_nextID)
        /\ UNCHANGED asked
    BY <1>8 DEF Immediate
  <2>2. InsertTimer(m_timers, m_nextID) = <<m_nextID>> /\ live \cup {m_nextID} = {m_nextID}
    BY <1>2, <1>4, InsertLemma DEF Rests
  <2>3. m_timers' = << >> /\ live' = {}
    BY <1>4, <2>1, <2>2, CancelAll
  <2>4. Rests'
    BY <1>2, <2>1, <2>3 DEF Rests
  <2>5. Idle(c)'
    <3>1. PICK reqId \in {task[c].m_reqId, frame.no} :
            task' = [task EXCEPT ![c] =
                       [Released(Timed(c, "task_accept")) EXCEPT !.m_reqId = reqId]]
      BY <1>8 DEF Immediate
    <3>2. Timed(c, "task_accept") \in TaskType
      BY TimedLemma DEF IInv, TaskStatus
    <3>3. /\ Released(Timed(c, "task_accept")) \in TaskType
          /\ Released(Timed(c, "task_accept")).m_status = "task_idle"
      BY <3>2, ReleasedLemma
    <3> DEFINE tk == Released(Timed(c, "task_accept"))
    <3>4. [tk EXCEPT !.m_reqId = reqId].m_status = "task_idle"
      <4> HIDE DEF tk
      <4>1. tk \in TaskType /\ tk.m_status = "task_idle"
        BY <3>3 DEF tk
      <4> QED
        BY <4>1 DEF TaskType
    <3>5. task'[c] = [tk EXCEPT !.m_reqId = reqId]
      BY <3>1 DEF IInv, TypeOK
    <3> QED
      BY <3>4, <3>5 DEF Idle
  <2>6. "status" \in Kinds \ {"result", "Timeout"}
    BY DEF Kinds
  <2> QED
    BY <1>5, <2>1, <2>4, <2>5, <2>6
<1>9. CASE Commanded(c, t)
  <2>1. /\ StartResponseTimer(c)
        /\ m_timers' = <<m_nextID>> /\ live' = {m_nextID}
        /\ asked' = [asked EXCEPT ![t] = @ \cup {frame.no}]
        /\ UNCHANGED <<reply, replies>>
    BY <1>2, <1>4, <1>9, InsertLemma DEF Commanded, Rests
  <2>2. /\ task'[c].m_responseTimeout = m_nextID /\ task'[c].m_reqId = frame.no
        /\ task'[c].m_status = "task_run"
    <3> DEFINE tk == Timed(c, "task_run")
    <3>1. task[c] \in TaskType
      BY DEF IInv, TypeOK
    <3>2. tk \in TaskType /\ tk.m_responseTimeout = m_nextID /\ tk.m_status = "task_run"
      BY <3>1, TimedLemma DEF IInv, TaskStatus, Timed, TaskType
    <3>3. task'[c] = [tk EXCEPT !.m_reqId = frame.no]
      BY <1>9 DEF Commanded, IInv, TypeOK
    <3> HIDE DEF tk
    <3> QED
      BY <3>2, <3>3 DEF TaskType
  <2>3. /\ m_nextID \in DOMAIN timer'
        /\ timer'[m_nextID].for = c /\ timer'[m_nextID].no = frame.no
    <3> DEFINE rec == [for |-> c, no |-> frame.no]
    <3>1. timer \in Seq([for : Sessions, no : Frames]) /\ rec \in [for : Sessions, no : Frames]
      BY <1>2 DEF IInv, TypeOK
    <3>2. timer' = Append(timer, rec)
      BY <2>1 DEF StartResponseTimer
    <3>3. rec.for = c /\ rec.no = frame.no
      OBVIOUS
    <3>4. m_nextID \in DOMAIN timer' /\ timer'[m_nextID] = rec
      <4> HIDE DEF rec
      <4> QED
        BY <3>1, <3>2 DEF m_nextID
    <3> QED
      BY <3>3, <3>4
  <2>4. \A u \in Trans : asked'[u] \subseteq {frame.no}
    BY <1>2, <2>1 DEF Rests, IInv, TypeOK
  <2>5. ~ Idle(c)' /\ Works(c)'
    BY <2>1, <2>2, <2>3, <2>4 DEF Idle, Works
  <2>6. Pending(c)' = frame.no
    BY <1>1, <1>2, <1>3, <2>2, <2>3 DEF Pending, Busy, NoFrame
  <2>7. Serves(c)'
    BY <1>1, <1>3, <2>1, <2>5, <2>6 DEF Serves, Only
  <2> QED
    BY <1>1, <1>3, <2>1, <2>6, <2>7 DEF Kept, Stutters, ReplyNamesItsRequest
<1> QED
  BY <1>2, <1>6, <1>7, <1>8, <1>9 DEF DownInfo, Alone

(* What is under way when an answer or a timeout comes.                    *)
LEMMA UnderWay ==
  ASSUME IInv, NEW c \in Sessions, Serves(c), ~ Idle(c)
  PROVE  /\ Works(c) /\ frame = NoFrame
         /\ task[c].m_responseTimeout \in Nat
         /\ task[c].m_reqId \in Frames
         /\ Pending(c) = IF sess[c] = "open" THEN task[c].m_reqId ELSE 0
<1> DEFINE i == task[c].m_responseTimeout
<1>1. Works(c) /\ frame = NoFrame
  BY DEF Serves
<1>2. i \in DOMAIN timer /\ timer[i].no = task[c].m_reqId
  BY <1>1 DEF Works
<1>3. i \in Nat /\ timer[i] \in [for : Sessions, no : Frames]
  <2>1. timer \in Seq([for : Sessions, no : Frames])
    BY DEF IInv, TypeOK
  <2>2. ASSUME NEW S, NEW q \in Seq(S), NEW k \in DOMAIN q PROVE q[k] \in S /\ k \in Nat
    OBVIOUS
  <2> HIDE DEF i
  <2> QED
    BY <1>2, <2>1, <2>2
<1>4. task[c].m_reqId \in Frames
  BY <1>2, <1>3
<1>5. Pending(c) = IF sess[c] = "open" THEN task[c].m_reqId ELSE 0
  BY <1>1, <1>2 DEF Pending, Busy, Idle, NoFrame
<1> QED
  BY <1>1, <1>3, <1>4, <1>5

(* A final reply to what is under way leaves nothing behind.               *)
LEMMA FinalKept ==
  ASSUME IInv, IInv', NEW c \in Sessions, Serves(c), ReplyNamesItsRequest, ~ Idle(c),
         NEW kind, SendMessage(c, kind, task[c].m_reqId, task[c].m_reqId),
         CancelTimer(m_timers, live, task[c].m_responseTimeout),
         task' = [task EXCEPT ![c] = Released(@)],
         \A t \in Trans : asked'[t] = {},
         UNCHANGED <<sess, m_task, frame, sent, connects>>
  PROVE  Kept(c)
<1>1. /\ Works(c) /\ frame = NoFrame
      /\ task[c].m_responseTimeout \in Nat /\ task[c].m_reqId \in Frames
      /\ Pending(c) = IF sess[c] = "open" THEN task[c].m_reqId ELSE 0
  BY UnderWay
<1>2. /\ \/ replies' = replies
         \/ Pending(c) # 0 /\ replies' = [replies EXCEPT ![Pending(c)] = 1]
      /\ \/ reply' = reply
         \/ reply' = [kind |-> kind, m_reqId |-> task[c].m_reqId, no |-> task[c].m_reqId]
  BY <1>1, SendCounts
<1>3. Idle(c)'
  BY ReleasedIdle
<1>4. Rests'
  BY <1>1, CancelAll DEF Works, Rests
<1>5. ReplyNamesItsRequest'
  BY <1>2 DEF ReplyNamesItsRequest
<1> QED
  BY <1>1, <1>2, <1>3, <1>4, <1>5, EndKept

(* The answer is to the request that is under way.                         *)
LEMMA UpdateInfoKept ==
  ASSUME Alone, IInv, IInv', NEW c \in Sessions, Serves(c), ReplyNamesItsRequest,
         NEW t \in Trans, NEW r \in Frames, UpdateInfo(t, r)
  PROVE  Kept(c)
<1>1. /\ r \in asked[t] /\ asked' = [asked EXCEPT ![t] = @ \ {r}]
      /\ UNCHANGED <<sess, m_task, timer, frame, sent, connects>>
  BY DEF UpdateInfo, Alone
<1>2. m_task[t] = c /\ \A u \in Trans : asked[u] # {} => u = t
  BY <1>1, OneTranscation
<1>3. ~ Idle(c)
  BY <1>1 DEF Serves, Rests
<1>4. Works(c) /\ task[c].m_reqId = r
  BY <1>1, <1>3, UnderWay DEF Works
<1>5. \A u \in Trans : asked'[u] = {}
  BY <1>1, <1>2, <1>4 DEF Works, IInv, TypeOK
<1>6. CASE /\ SendMessage(c, "result", task[c].m_reqId, r)
           /\ CancelTimer(m_timers, live, task[c].m_responseTimeout)
           /\ task' = [task EXCEPT ![c] = Released(@)]
  BY <1>1, <1>3, <1>4, <1>5, <1>6, FinalKept
<1>7. CASE UNCHANGED <<reply, replies, m_timers, live, task>>
  <2>1. Pending(c)' = Pending(c)
    BY <1>1, <1>7 DEF Pending, Busy
  <2>2. Works(c)' /\ ~ Idle(c)'
    BY <1>1, <1>3, <1>4, <1>5, <1>7 DEF Works, Idle
  <2>3. Serves(c)'
    BY <1>1, <1>7, <1>3, <2>1, <2>2 DEF Serves, Only
  <2> QED
    BY <1>1, <1>7, <2>1, <2>3 DEF Kept, Stutters, ReplyNamesItsRequest
<1> QED
  BY <1>2, <1>6, <1>7 DEF UpdateInfo

(* So is the timeout, after which the equipment says nothing more.         *)
LEMMA OnTimerKept ==
  ASSUME Alone, IInv, IInv', NEW c \in Sessions, Serves(c), ReplyNamesItsRequest,
         NEW i \in Timers, OnTimer(i)
  PROVE  Kept(c)
<1>1. i \in live /\ UNCHANGED <<sess, m_task, timer, frame, sent, connects>>
  BY DEF OnTimer
<1>2. ~ Idle(c)
  BY <1>1 DEF Serves, Rests
<1>3. /\ i = task[c].m_responseTimeout
      /\ timer[i].for = c /\ timer[i].no = task[c].m_reqId
  BY <1>1, <1>2, UnderWay DEF Works
<1>4. /\ OnTaskTimeout(c)
      /\ SendMessage(c, "Timeout", task[c].m_reqId, task[c].m_reqId)
      /\ CancelTimer(m_timers, live, task[c].m_responseTimeout)
      /\ task' = [task EXCEPT ![c] = Released(@)]
  BY <1>3 DEF OnTimer
<1>5. \A t \in Trans : asked'[t] = {}
  <2>1. \A t \in Trans : asked[t] # {} => t \in Subs[c]
    BY OneTranscation
  <2> QED
    BY <1>4, <2>1 DEF OnTaskTimeout, Alone
<1> QED
  BY <1>1, <1>2, <1>4, <1>5, FinalKept

(* Every step of a client that has connected.                              *)
LEMMA ServesKept ==
  ASSUME Alone, IInv, IInv', NEW c \in Sessions, Serves(c), ReplyNamesItsRequest,
         Fresh, [Next]_vars
  PROVE  Kept(c)
<1>1. ASSUME NEW s \in Sessions, OnConnection(s) PROVE FALSE
  BY <1>1 DEF OnConnection, Alone, Serves, Only
<1>2. CASE UseOfDeletedTask
  BY <1>2, NothingKept DEF UseOfDeletedTask
<1>3. CASE UNCHANGED vars
  BY <1>3, NothingKept DEF vars
<1> QED
  BY <1>1, <1>2, <1>3, OnDisconnectKept, OnFrameKept, DownInfoKept,
     UpdateInfoKept, OnTimerKept DEF Next

(* Before anybody connects, only a connection can happen.                  *)
LEMMA NobodyKept ==
  ASSUME Alone, IInv, NobodyYet, ReplyNamesItsRequest, Fresh, [Next]_vars
  PROVE  /\ NobodyYet' \/ \E c \in Sessions : Serves(c)'
         /\ Fresh' /\ ReplyNamesItsRequest'
         /\ [Promise!Next]_Promise!vars
<1> DEFINE P == [s \in Sessions |-> Pending(s)]
<1>0. \A s \in Sessions : Pending(s) = 0
  BY DEF NobodyYet, Pending, Busy, NoFrame
<1>1. ASSUME NEW c \in Sessions, OnConnection(c)
      PROVE  Serves(c)' /\ UNCHANGED <<sent, reply, replies>>
             /\ \A s \in Sessions : Pending(s)' = 0
  <2>1. /\ sess' = [sess EXCEPT ![c] = "open"] /\ connects' = connects + 1
        /\ task' = [task EXCEPT ![c] = NewTask]
        /\ m_task' = [t \in Trans |-> IF t \in Subs[c] THEN c ELSE m_task[t]]
        /\ UNCHANGED <<m_timers, timer, live, asked, frame, sent, reply, replies>>
    BY <1>1 DEF OnConnection
  <2>2. /\ sess'[c] = "open" /\ task'[c] = NewTask
        /\ \A u \in Sessions : u # c => sess'[u] = "none"
    BY <2>1 DEF IInv, TypeOK, NobodyYet
  <2>3. Idle(c)' /\ Rests' /\ frame' = NoFrame /\ connects' = 1
    BY <2>1, <2>2 DEF Idle, Rests, NewTask, NobodyYet
  <2>4. Only(c)'
    BY <2>1, <2>2, <2>3 DEF Only, NobodyYet
  <2>5. \A s \in Sessions : Pending(s)' = 0
    BY <2>2, <2>3 DEF Pending, Busy, NoFrame, Idle
  <2> QED
    BY <2>1, <2>3, <2>4, <2>5 DEF Serves
<1>2. CASE \E c \in Sessions : OnConnection(c)
  <2>1. PICK c \in Sessions : OnConnection(c)
    BY <1>2
  <2>2. P' = P
    BY <1>0, <1>1, <2>1
  <2> QED
    BY <1>1, <2>1, <2>2 DEF Fresh, ReplyNamesItsRequest, Promise!vars
<1>3. ASSUME UNCHANGED <<sess, task, m_task, m_timers, timer, live, asked, frame, sent,
                         connects, reply, replies>>
      PROVE  /\ NobodyYet' /\ Fresh' /\ ReplyNamesItsRequest'
             /\ UNCHANGED Promise!vars
  <2>1. \A s \in Sessions : Pending(s)' = Pending(s)
    BY <1>3 DEF Pending, Busy
  <2> QED
    BY <1>3, <2>1 DEF NobodyYet, Rests, Fresh, ReplyNamesItsRequest, Promise!vars
<1>4. ASSUME NEW s \in Sessions PROVE ~ OnDisconnect(s)
  BY DEF OnDisconnect, NobodyYet
<1>5. ASSUME NEW s \in Sessions, NEW cmd \in Cmds \cup {BadFrame} PROVE ~ OnFrame(s, cmd)
  BY DEF OnFrame, NobodyYet
<1>6. ASSUME NEW t \in Trans PROVE ~ DownInfo(t)
  BY DEF DownInfo, NobodyYet, NoFrame
<1>7. ASSUME NEW t \in Trans, NEW r \in Frames PROVE ~ UpdateInfo(t, r)
  BY DEF UpdateInfo, NobodyYet, Rests
<1>8. ASSUME NEW i \in Timers PROVE ~ OnTimer(i)
  BY DEF OnTimer, NobodyYet, Rests
<1>9. CASE UseOfDeletedTask
  BY <1>3, <1>9 DEF UseOfDeletedTask
<1>10. CASE UNCHANGED vars
  BY <1>3, <1>10 DEF vars
<1> QED
  BY <1>2, <1>4, <1>5, <1>6, <1>7, <1>8, <1>9, <1>10 DEF Next

(* The invariant of the lone client, and what its steps are to the         *)
(* promise.                                                                *)
LEMMA AloneStep ==
  ASSUME Alone, IInv, IInv', AloneInv, [Next]_vars
  PROVE  AloneInv' /\ [Promise!Next]_Promise!vars
<1>1. CASE NobodyYet
  BY <1>1, NobodyKept DEF AloneInv
<1>2. ASSUME NEW c \in Sessions, Serves(c)
      PROVE  AloneInv' /\ [Promise!Next]_Promise!vars
  <2>1. Kept(c)
    BY <1>2, ServesKept DEF AloneInv
  <2>2. TypeOK
    BY DEF IInv
  <2> QED
    BY <1>2, <2>1, <2>2, KeptFresh, KeptSimulated DEF AloneInv, Kept
<1> QED
  BY <1>1, <1>2 DEF AloneInv

(* It holds before anybody connects.                                       *)
LEMMA AloneInit ==
  ASSUME Alone, Init
  PROVE  AloneInv /\ Promise!Init
<1>1. NobodyYet /\ Fresh /\ ReplyNamesItsRequest
  BY DEF Init, Alone, NobodyYet, Rests, Fresh, ReplyNamesItsRequest
<1>2. \A s \in Sessions : Pending(s) = 0
  BY <1>1 DEF NobodyYet, Pending, Busy, NoFrame
<1>3. Promise!Init
  BY <1>2 DEF Init, Promise!Init, Frames
<1> QED
  BY <1>1, <1>3 DEF AloneInv

(* It holds of every behaviour of a lone client.                           *)
LEMMA AloneInductive == ASSUME Alone PROVE Spec => []AloneInv
<1>1. Init => AloneInv
  BY AloneInit
<1>2. IInv /\ IInv' /\ AloneInv /\ [Next]_vars => AloneInv'
  BY AloneStep
<1> QED
  BY <1>1, <1>2, Inductive, PTL DEF Spec

(* A result or Timeout goes to a lone client under the ReqId of the        *)
(* request it is about, for any number of requests and commands            *)
(* (Transcation.cpp:168, task.cpp:173).                                    *)
THEOREM RepliesNameRequests == ASSUME Alone PROVE Spec => []ReplyNamesItsRequest
<1>1. AloneInv => ReplyNamesItsRequest
  BY DEF AloneInv
<1> QED
  BY <1>1, AloneInductive, PTL

(* An equipment has one command of a lone client at a time                 *)
(* (CommServer.cpp:198-210).                                               *)
THEOREM OneCommand == ASSUME Alone PROVE Spec => []OneCommandAtATime
<1>1. TypeOK /\ AloneInv => OneCommandAtATime
  <2> SUFFICES ASSUME TypeOK, AloneInv, NEW t \in Trans
               PROVE  Cardinality(asked[t]) <= 1
    BY DEF OneCommandAtATime
  <2>1. asked[t] = {} \/ \E r \in Frames : asked[t] = {r}
    <3>1. CASE \E c \in Sessions : Serves(c) /\ ~ Idle(c)
      <4>1. PICK c \in Sessions : Works(c)
        BY <3>1 DEF Serves
      <4>2. asked[t] \subseteq {task[c].m_reqId} /\ asked[t] \subseteq Frames
        BY <4>1 DEF Works, TypeOK
      <4> QED
        BY <4>2
    <3>2. CASE Rests
      BY <3>2 DEF Rests
    <3> QED
      BY <3>1, <3>2 DEF AloneInv, NobodyYet, Serves
  <2>2. CASE asked[t] = {}
    <3>1. Cardinality(asked[t]) = 0
      BY <2>2, FS_EmptySet, Zenon
    <3> QED
      BY <3>1
  <2>3. CASE \E r \in Frames : asked[t] = {r}
    <3>1. PICK r \in Frames : asked[t] = {r}
      BY <2>3
    <3>2. Cardinality({r}) = 1
      BY FS_Singleton, Zenon
    <3>3. Cardinality(asked[t]) = 1
      BY <3>1, <3>2, Zenon
    <3> QED
      BY <3>3
  <2> QED
    BY <2>1, <2>2, <2>3
<1> QED
  BY <1>1, AloneInductive, TypeCorrect, PTL

(* A lone client gets at most one reply to a request, and only while it    *)
(* waits for it (CommServer.cpp:185-226, task.cpp:49-77).                  *)
THEOREM Refinement == ASSUME Alone PROVE Spec => ImplementsRequestReply
<1>1. Init => Promise!Init
  BY AloneInit
<1>2. IInv /\ IInv' /\ AloneInv /\ [Next]_vars => [Promise!Next]_Promise!vars
  BY AloneStep
<1> QED
  BY <1>1, <1>2, Inductive, AloneInductive, PTL
  DEF Spec, ImplementsRequestReply, Promise!Spec
=============================================================================
