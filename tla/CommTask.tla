------------------------------ MODULE CommTask ------------------------------
(***************************************************************************)
(* Requests of TCP clients and their replies: CommServer and Session       *)
(* (Communication/), Task and Transcation (transcation/).  A session owns  *)
(* one Task; every transcation whose white list has the client's address   *)
(* is subscribed and keeps a pointer to the last such Task.                *)
(*                                                                         *)
(* One thread runs everything.  OnFrame hands a frame to the subscribed    *)
(* transcations in the order of their ids; here OnFrame starts that loop   *)
(* and DownInfo is one turn of it, and nothing else happens in between.    *)
(* A session is a slot of memory: a client that connects after another has *)
(* gone may get the same slot.  Frames are numbered, and a frame's number  *)
(* stands for the ReqId its client chose.                                  *)
(***************************************************************************)
EXTENDS TimerList, Integers, FiniteSets

CONSTANTS
  Sessions,
  NoSession,
  NTrans,       \* transcations are 1..NTrans
  Subs,         \* Subs[s]: the transcations that accept the address of s
  Cmds,         \* decodable commands
  Knows,        \* Knows[t]: m_commandNames, from the configuration
  Handles,      \* Handles[t]: the commands its ProcessCmd has a branch for
  SlotTaken,    \* another component's timer is in m_timers for good
  InStep,       \* an equipment answers a command once and before the Task's
                \* timeout, or never; if not, again and again, at any time
  MaxFrames,    \* bound on the frames taken up
  MaxConnects   \* bound on the connections

Trans == 1..NTrans
BadFrame == "bad frame"   \* a frame without a usable cmd or ReqId

ASSUME SessionsAssumption == NoSession \notin Sessions
ASSUME TransAssumption == NTrans \in Nat
ASSUME SubsAssumption == Subs \in [Sessions -> SUBSET Trans]
ASSUME KnowsAssumption == Knows \in [Trans -> SUBSET Cmds]
ASSUME HandlesAssumption == Handles \in [Trans -> SUBSET Cmds]
ASSUME CmdsAssumption == BadFrame \notin Cmds
ASSUME FlagsAssumption == SlotTaken \in BOOLEAN /\ InStep \in BOOLEAN
ASSUME BoundsAssumption == MaxFrames \in Nat /\ MaxConnects \in Nat

Frames == 1..MaxFrames
Timers == 1..(MaxFrames * NTrans)   \* as many as the frames can set
OtherTimer == 0           \* the long-lived timer of another component
NoTimer == -1
NoReqId == 0              \* m_reqId as the constructor leaves it: unset

VARIABLES
  sess,       \* "none", "open" or "freed"
  task,       \* the Task of each session
  m_task,     \* each transcation's Task pointer, as the session that owns it
  m_timers,   \* the looper's list
  timer,      \* the session and the frame each response timer was set for
  live,       \* response timers that fire
  asked,      \* the frames each transcation's equipment may answer, or answer
              \* again
  frame,      \* the frame being handed down and the transcations still to get it
  sent,       \* frames taken up
  connects,
  reply,      \* the last message sent
  replies,    \* how often each frame was replied to, up to 2
  crashed

vars == <<sess, task, m_task, m_timers, timer, live, asked, frame,
          sent, connects, reply, replies, crashed>>

TaskStatus == {"task_idle", "task_accept", "task_run"}
TaskType == [m_status : TaskStatus, m_reqId : Frames \cup {NoReqId},
             rept : SUBSET Trans, m_responseTimeout : Nat \cup {NoTimer}]
Kinds == {"none", "result", "status", "ErrorCommand", "Busy", "Timeout"}
NoFrame == [from |-> NoSession, no |-> 0, cmd |-> BadFrame, todo |-> {}]

TypeOK ==
  /\ sess \in [Sessions -> {"none", "open", "freed"}]
  /\ task \in [Sessions -> TaskType]
  /\ m_task \in [Trans -> Sessions \cup {NoSession}]
  /\ m_timers \in Seq(Nat)
  /\ timer \in Seq([for : Sessions, no : Frames])
  /\ live \in SUBSET DOMAIN timer
  /\ asked \in [Trans -> SUBSET Frames]
  /\ frame \in [from : Sessions \cup {NoSession}, no : Frames \cup {0},
                cmd : Cmds \cup {BadFrame}, todo : SUBSET Trans]
  /\ sent \in 0..MaxFrames
  /\ connects \in 0..MaxConnects
  /\ reply \in [kind : Kinds, m_reqId : Frames \cup {NoReqId}, no : Frames \cup {0}]
  /\ replies \in [Frames -> 0..2]
  /\ crashed \in BOOLEAN

(* Mutant of NewTask: the constructor leaves the status unset as well.     *)
NewTask_Mut == [m_status |-> "unset", m_reqId |-> NoReqId, rept |-> {},
                m_responseTimeout |-> NoTimer]

NewTask == [m_status |-> "task_idle", m_reqId |-> NoReqId, rept |-> {},
            m_responseTimeout |-> NoTimer]

Init ==
  /\ sess = [s \in Sessions |-> "none"]
  /\ task = [s \in Sessions |-> NewTask]
  /\ m_task = [t \in Trans |-> NoSession]
  /\ m_timers = IF SlotTaken THEN <<OtherTimer>> ELSE << >>
  /\ live = {}
  /\ timer = << >>
  /\ asked = [t \in Trans |-> {}]
  /\ frame = NoFrame
  /\ sent = 0
  /\ connects = 0
  /\ reply = [kind |-> "none", m_reqId |-> NoReqId, no |-> 0]
  /\ replies = [r \in Frames |-> 0]
  /\ crashed = FALSE

(* The looper's next id.                                                   *)
m_nextID == Len(timer) + 1

(* No callback is running: the event loop may dispatch the next event.     *)
AtLoop == ~crashed /\ frame = NoFrame

(* Session::SendMessage about frame r, labelled with a ReqId.  A freed     *)
(* session whose memory is intact has no connection: nothing is sent.      *)
SendMessage(s, kind, reqId, r) ==
  IF sess[s] = "open"
  THEN /\ reply' = [kind |-> kind, m_reqId |-> reqId, no |-> r]
       /\ replies' = [replies EXCEPT ![r] = IF @ = 2 THEN 2 ELSE @ + 1]
  ELSE UNCHANGED <<reply, replies>>

(* CancelTimer on the looper: only a listed timer is cancelled.            *)
CancelTimer(list, running, id) ==
  /\ m_timers' = EraseTimer(list, id)
  /\ live' = IF Listed(list, id) THEN running \ {id} ELSE running

(* Mutant of Released: the task stays busy.                                *)
Released_Mut(tk) == [tk EXCEPT !.rept = {}]

(* What a final reply leaves of a Task: idle, with no report remembered.   *)
(* The id of the response timer is kept.                                   *)
Released(tk) == [tk EXCEPT !.m_status = "task_idle", !.rept = {}]

-----------------------------------------------------------------------------
(* CommServer::OnConnection: a new session with a new Task; every          *)
(* transcation that accepts the address now points to it.                  *)
OnConnection(s) ==
  /\ AtLoop
  /\ sess[s] # "open"
  /\ connects < MaxConnects
  /\ connects' = connects + 1
  /\ sess' = [sess EXCEPT ![s] = "open"]
  /\ task' = [task EXCEPT ![s] = NewTask]
  /\ m_task' = [t \in Trans |-> IF t \in Subs[s] THEN s ELSE m_task[t]]
  /\ UNCHANGED <<m_timers, timer, live, asked, frame, sent, reply,
                 replies, crashed>>

(* Session::OnDisconnect: the session leaves the subscriptions and is      *)
(* deleted with its Task.  Its response timer and the transcations'        *)
(* pointers to the Task stay.                                              *)
OnDisconnect(s) ==
  /\ AtLoop
  /\ sess[s] = "open"
  /\ sess' = [sess EXCEPT ![s] = "freed"]
  /\ UNCHANGED <<task, m_task, m_timers, timer, live, asked, frame,
                 sent, connects, reply, replies, crashed>>

(* Mutant of OnFrame: a busy task does not keep a frame out.               *)
OnFrame_Mut(s, cmd) ==
  /\ AtLoop
  /\ sess[s] = "open"
  /\ sent < MaxFrames
  /\ sent' = sent + 1
  /\ frame' = IF Subs[s] = {} THEN NoFrame
              ELSE [from |-> s, no |-> sent + 1, cmd |-> cmd, todo |-> Subs[s]]
  /\ UNCHANGED <<sess, task, m_task, m_timers, timer, live, asked,
                 connects, reply, replies, crashed>>

(* CommServer::OnFrame: a frame that finds its session's task busy is      *)
(* refused; any other is handed to the subscribed transcations.            *)
OnFrame(s, cmd) ==
  /\ AtLoop
  /\ sess[s] = "open"
  /\ IF task[s].m_status # "task_idle"
     THEN /\ reply' = [kind |-> "Busy", m_reqId |-> NoReqId, no |-> 0]
          /\ UNCHANGED <<sent, frame>>
     ELSE /\ sent < MaxFrames
          /\ sent' = sent + 1
          /\ frame' = IF Subs[s] = {} THEN NoFrame
                      ELSE [from |-> s, no |-> sent + 1, cmd |-> cmd, todo |-> Subs[s]]
          /\ UNCHANGED reply
  /\ UNCHANGED <<sess, task, m_task, m_timers, timer, live, asked,
                 connects, replies, crashed>>

(* The loop of OnFrame goes on to the transcation after t.                 *)
GoOn(t) ==
  frame' = IF frame.todo = {t} THEN NoFrame ELSE [frame EXCEPT !.todo = @ \ {t}]

(* Task::Update("NothingToDo"): when every transcation of the task has     *)
(* reported it, the client is told that the command is wrong.              *)
NothingToDo(s, t) ==
  LET reported == task[s].rept \cup (Subs[s] \cap {t}) IN
  /\ IF Subs[s] \subseteq reported
     THEN /\ SendMessage(s, "ErrorCommand", task[s].m_reqId, frame.no)
          /\ CancelTimer(m_timers, live, task[s].m_responseTimeout)
          /\ task' = [task EXCEPT ![s] = Released(@)]
     ELSE /\ task' = [task EXCEPT ![s].rept = reported]
          /\ UNCHANGED <<m_timers, live, reply, replies>>
  /\ UNCHANGED <<timer, asked>>

(* Task::StartResponseTimer within DownInfo.                               *)
StartResponseTimer(s) == timer' = Append(timer, [for |-> s, no |-> frame.no])

Timed(s, status) ==
  [task[s] EXCEPT !.m_status = status, !.m_responseTimeout = m_nextID]

(* ProcessCmd replies at once: a wrong parameter, a device that is not     *)
(* open, or BalanceQp done.  The ReqId is the frame's own; Task::m_reqId   *)
(* is set on some of these paths only.                                     *)
Immediate(s) ==
  /\ StartResponseTimer(s)
  /\ SendMessage(s, "status", frame.no, frame.no)
  /\ CancelTimer(InsertTimer(m_timers, m_nextID), live \cup {m_nextID}, m_nextID)
  /\ \E reqId \in {task[s].m_reqId, frame.no} :
       task' = [task EXCEPT ![s] =
                  [Released(Timed(s, "task_accept")) EXCEPT !.m_reqId = reqId]]
  /\ UNCHANGED asked

(* Mutants of Commanded: the response timer is not started; the command    *)
(* does not set the Task's ReqId, as BalanceQp does not.                   *)
Commanded_MutNoTimer(s, t) ==
  /\ task' = [task EXCEPT ![s].m_status = "task_run", ![s].m_reqId = frame.no]
  /\ asked' = [asked EXCEPT ![t] = @ \cup {frame.no}]
  /\ UNCHANGED <<reply, replies, timer, m_timers, live>>

Commanded_MutNoReqId(s, t) ==
  /\ StartResponseTimer(s)
  /\ m_timers' = InsertTimer(m_timers, m_nextID)
  /\ live' = live \cup {m_nextID}
  /\ task' = [task EXCEPT ![s] = Timed(s, "task_run")]
  /\ asked' = [asked EXCEPT ![t] = @ \cup {frame.no}]
  /\ UNCHANGED <<reply, replies>>

(* ProcessCmd gives the equipment a command and returns; the answer, if    *)
(* any, comes through UpdateInfo.                                          *)
Commanded(s, t) ==
  /\ StartResponseTimer(s)
  /\ m_timers' = InsertTimer(m_timers, m_nextID)
  /\ live' = live \cup {m_nextID}
  /\ task' = [task EXCEPT ![s] = [Timed(s, "task_run") EXCEPT !.m_reqId = frame.no]]
  /\ asked' = [asked EXCEPT ![t] = @ \cup {frame.no}]
  /\ UNCHANGED <<reply, replies>>

(* ProcessCmd has no branch for a command the configuration lists: the     *)
(* task is accepted and left to its timer.                                 *)
Ignored(s) ==
  /\ StartResponseTimer(s)
  /\ m_timers' = InsertTimer(m_timers, m_nextID)
  /\ live' = live \cup {m_nextID}
  /\ task' = [task EXCEPT ![s] = Timed(s, "task_accept")]
  /\ UNCHANGED <<asked, reply, replies>>

(* Transcation::DownInfo for the first transcation still to get the frame. *)
(* It works on the Task its transcation points to, whichever session that  *)
(* belongs to.  A bad frame of the common format may end the process:      *)
(* std::stoi throws on a field that is no number, and nobody catches it.   *)
DownInfo(t) ==
  LET s == m_task[t] IN
  /\ ~crashed
  /\ t \in frame.todo /\ \A u \in frame.todo : t <= u
  /\ GoOn(t)
  /\ IF frame.cmd = BadFrame
     THEN UNCHANGED <<task, m_timers, timer, live, asked, reply, replies>>
     ELSE IF frame.cmd \notin Knows[t]
     THEN NothingToDo(s, t)
     ELSE IF frame.cmd \notin Handles[t]
     THEN Ignored(s)
     ELSE Immediate(s) \/ Commanded(s, t)
  /\ crashed' \in IF frame.cmd = BadFrame THEN BOOLEAN ELSE {crashed}
  /\ UNCHANGED <<sess, m_task, sent, connects>>

(* Transcation::UpdateInfo with an answer to frame r, whatever the Task's  *)
(* status.  An error text does not parse and is dropped; anything else     *)
(* becomes the reply, labelled with the ReqId the Task has by now.  An     *)
(* equipment that is not in step, as a polled balance that is slower than  *)
(* its polling, may answer again.                                          *)
UpdateInfo(t, r) ==
  LET s == m_task[t] IN
  /\ AtLoop
  /\ r \in asked[t]
  /\ asked' = IF InStep THEN [asked EXCEPT ![t] = @ \ {r}] ELSE asked
  /\ \/ /\ SendMessage(s, "result", task[s].m_reqId, r)
        /\ CancelTimer(m_timers, live, task[s].m_responseTimeout)
        /\ task' = [task EXCEPT ![s] = Released(@)]
     \/ UNCHANGED <<reply, replies, m_timers, live, task>>
  /\ UNCHANGED <<sess, m_task, timer, frame, sent, connects, crashed>>

(* Transcation::OnTaskTimeout for every transcation of the task: an        *)
(* equipment in step has given up.                                         *)
OnTaskTimeout(s) ==
  asked' = IF InStep THEN [t \in Trans |-> IF t \in Subs[s] THEN {} ELSE asked[t]]
           ELSE asked

(* Task::OnTimer: the response timer set last ends the request with a      *)
(* Timeout, whether one is outstanding or not; any other does nothing.     *)
OnTimer(i) ==
  LET s == timer[i].for IN
  /\ AtLoop
  /\ i \in live
  /\ IF task[s].m_responseTimeout = i
     THEN /\ OnTaskTimeout(s)
          /\ SendMessage(s, "Timeout", task[s].m_reqId, timer[i].no)
          /\ CancelTimer(m_timers, live, i)
          /\ task' = [task EXCEPT ![s] = Released(@)]
     ELSE UNCHANGED <<task, asked, reply, replies, m_timers, live>>
  /\ UNCHANGED <<sess, m_task, timer, frame, sent, connects, crashed>>

(* A Task that was deleted is used, by a frame, an answer or its response  *)
(* timer.  Its memory may be gone, and the process with it; the actions    *)
(* above are the outcome where it is not.                                  *)
UseOfDeletedTask ==
  /\ ~crashed
  /\ \/ /\ frame # NoFrame
        /\ \E t \in frame.todo : sess[m_task[t]] = "freed"
     \/ /\ frame = NoFrame
        /\ \/ \E t \in Trans : asked[t] # {} /\ sess[m_task[t]] = "freed"
           \/ \E i \in live : sess[timer[i].for] = "freed"
  /\ crashed' = TRUE
  /\ UNCHANGED <<sess, task, m_task, m_timers, timer, live, asked,
                 frame, sent, connects, reply, replies>>

Next ==
  \/ \E s \in Sessions : OnConnection(s) \/ OnDisconnect(s)
  \/ \E s \in Sessions, cmd \in Cmds \cup {BadFrame} : OnFrame(s, cmd)
  \/ \E t \in Trans : DownInfo(t)
  \/ \E t \in Trans, r \in Frames : UpdateInfo(t, r)
  \/ \E i \in Timers : OnTimer(i)
  \/ UseOfDeletedTask

Spec == Init /\ [][Next]_vars

(* The frame loop runs to its end, and a live timer fires in the end,      *)
(* though frames keep coming.                                              *)
Fairness ==
  /\ WF_vars(\E t \in Trans : DownInfo(t))
  /\ \A i \in Timers : SF_vars(OnTimer(i))

FairSpec == Spec /\ Fairness
-----------------------------------------------------------------------------
Busy(s) == sess[s] = "open" /\ task[s].m_status # "task_idle"

(* A task that keeps frames out has its own response timer running: no     *)
(* order of frames, answers, timeouts, disconnections and reused memory    *)
(* leaves a client locked out with nothing to release it                   *)
(* (task.cpp:35-46, Transcation.cpp:302-314).                              *)
BusyIsTimed ==
  \A s \in Sessions :
    Busy(s) => /\ task[s].m_responseTimeout \in live
               /\ timer[task[s].m_responseTimeout].for = s

(* A result or a Timeout names the request it is about, although it is     *)
(* labelled with what the Task holds when it is sent: as long as the       *)
(* equipment is in step, no path through ProcessCmd leaves the ReqId of an *)
(* earlier request (Transcation.cpp:168, task.cpp:173).                    *)
ReplyNamesItsRequest ==
  reply.kind \in {"result", "Timeout"} => reply.m_reqId = reply.no

(* An equipment has one command at a time: the busy status of the task     *)
(* serialises its clients' requests (CommServer.cpp:198-210).              *)
OneCommandAtATime == \A t \in Trans : Cardinality(asked[t]) <= 1

(* The client is told that its command is wrong only if no transcation of  *)
(* its session knows the command (task.cpp:109).                           *)
ErrorCommandMeansUnknown ==
  [][reply' # reply /\ reply'.kind = "ErrorCommand" =>
       \A t \in Subs[frame.from] : frame.cmd \notin Knows[t]]_vars

(* A busy task becomes free again, whatever the equipment does: the        *)
(* response timer sees to it, whichever other timers it competes with, if  *)
(* it is not set anew.  It is when another client's frame runs on the      *)
(* Task: on a shared transcation a client that goes on sending can keep    *)
(* the other one out for ever (task.cpp:154-179, Transcation.cpp:310-313). *)
BusyEnds ==
  \A s \in Sessions, i \in Timers :
    Busy(s) /\ task[s].m_responseTimeout = i
      ~> ~Busy(s) \/ task[s].m_responseTimeout # i \/ crashed

(* A command of a client with a transcation of its own is replied to in    *)
(* the end, if only by a Timeout, as long as the client stays              *)
(* (task.cpp:154-179).                                                     *)
EveryCommandReplied ==
  \A s \in Sessions, r \in Frames :
    (\E t \in Subs[s] : r \in asked[t] /\ sess[s] = "open")
      ~> (replies[r] > 0 \/ sess[s] # "open" \/ crashed)
-----------------------------------------------------------------------------
(* The request a client waits for: the one being handed down or the one    *)
(* its response timer was set for.                                         *)
Pending(s) ==
  IF frame.from = s THEN frame.no
  ELSE IF Busy(s) THEN timer[task[s].m_responseTimeout].no
  ELSE 0

Promise == INSTANCE RequestReply
             WITH Clients <- Sessions,
                  asked <- sent,
                  pending <- [s \in Sessions |-> Pending(s)]
(* A client that stays connected gets at most one reply to a request, and  *)
(* only while that request is pending, when its equipment is in step and   *)
(* no other component's timer holds the looper's list                      *)
(* (CommServer.cpp:185-226, task.cpp:49-77).                               *)
ImplementsRequestReply == Promise!Spec
=============================================================================
