------------------------------ MODULE TcpLink ------------------------------
(***************************************************************************)
(* The hub's connection to the upper computer: TcpClient                   *)
(* (Communication/TcpClient.h) over Connector and Connection               *)
(* (Communication/connbaseimp.cpp), its reconnection timer, its write      *)
(* buffer, and the frames it receives (FrameSplitter).                     *)
(*                                                                         *)
(* One thread runs everything: an action is a whole callback, but for      *)
(* OnData's loop, which nothing of the hub interrupts.  Written data is    *)
(* counted in units; a unit carries the number of its message.             *)
(***************************************************************************)
EXTENDS FrameSplitter, TimerList, Integers

CONSTANTS
  Units,        \* units of a message
  Room,         \* units the socket takes before the peer reads
  MaxMessages,  \* bound on the messages given to SendMsg
  MaxTimers     \* bound on the connections that fail or break

ASSUME UnitsAssumption == Units \in Nat \ {0} /\ Room \in Nat \ {0}
ASSUME BoundsAssumption == MaxMessages \in Nat /\ MaxTimers \in Nat

OtherTimer == 0        \* the long-lived timer of another component
NoTimer == -1

VARIABLES
  running,        \* the process lives
  m_connector,    \* a Connector exists: connecting
  m_connection,   \* a Connection exists
  m_timerReconn,
  m_timers,       \* the looper's list
  m_nextID,
  live,           \* timers of the client that fire
  peer,           \* the peer's end of the connection: open, closed, reset
  again,          \* errno is EAGAIN or EWOULDBLOCK
  m_writeBuffer,
  m_writeEvent,   \* the write event is pending
  inflight,       \* units in the socket
  messages        \* messages accepted by Send

linkVars == <<running, m_connector, m_connection, m_timerReconn, m_timers,
              m_nextID, live, peer, again>>
writeVars == <<m_writeBuffer, m_writeEvent, inflight, messages>>
vars == <<frameVars, linkVars, writeVars>>

TypeOK ==
  /\ FrameTypeOK
  /\ running \in BOOLEAN /\ m_connector \in BOOLEAN /\ m_connection \in BOOLEAN
  /\ m_timerReconn \in Nat \cup {NoTimer}
  /\ m_timers \in Seq(Nat)
  /\ m_nextID \in Nat \ {0}
  /\ live \in SUBSET (1 .. m_nextID - 1)
  /\ peer \in {"open", "closed", "reset"}
  /\ again \in BOOLEAN
  /\ m_writeBuffer \in Seq(1..messages)
  /\ m_writeEvent \in BOOLEAN
  /\ inflight \in 0..Room
  /\ messages \in Nat

(* The constructor connects.                                               *)
Init ==
  /\ FrameInit
  /\ running = TRUE
  /\ m_connector = TRUE /\ m_connection = FALSE
  /\ m_timerReconn = NoTimer
  /\ m_timers \in {<< >>, <<OtherTimer>>}
  /\ m_nextID = 1
  /\ live = {}
  /\ peer = "closed"
  /\ again = FALSE
  /\ m_writeBuffer = << >> /\ m_writeEvent = FALSE /\ inflight = 0
  /\ messages = 0

(* The looper calls the client.                                            *)
Called == running /\ ~Reading

-----------------------------------------------------------------------------
(* The connection and the reconnection timer.                              *)

ScheduleReconn ==
  IF m_timerReconn = NoTimer
  THEN /\ m_timerReconn' = m_nextID
       /\ m_nextID' = m_nextID + 1
       /\ m_timers' = InsertTimer(m_timers, m_nextID)
       /\ live' = live \cup {m_nextID}
  ELSE UNCHANGED <<m_timerReconn, m_nextID, m_timers, live>>

(* The socket accepted the connection: a Connection, no Connector.         *)
OnConnection ==
  /\ Called
  /\ m_connector
  /\ m_connector' = FALSE /\ m_connection' = TRUE
  /\ peer' = "open"
  /\ NewStream
  /\ UNCHANGED <<running, m_timerReconn, m_timers, m_nextID, live, again,
                 writeVars>>

(* getpeername fails, or three seconds are over.                           *)
OnConnectionFails ==
  /\ Called
  /\ m_connector
  /\ m_nextID <= MaxTimers
  /\ m_connector' = FALSE
  /\ ScheduleReconn
  /\ again' \in {again, FALSE}
  /\ UNCHANGED <<running, m_connection, peer, frameVars, writeVars>>

(* Mutant of OnDisconnect: no reconnection is scheduled.                   *)
OnDisconnect_Mut ==
  /\ m_connection' = FALSE /\ m_connector' = FALSE
  /\ m_writeBuffer' = << >> /\ m_writeEvent' = FALSE /\ inflight' = 0
  /\ peer' = "closed"
  /\ UNCHANGED <<running, messages, m_timerReconn, m_nextID, m_timers, live,
                 frameVars>>

(* Connection::Close frees the write buffer; OnDisconnect deletes it.      *)
OnDisconnect ==
  /\ m_connection' = FALSE /\ m_connector' = FALSE
  /\ m_writeBuffer' = << >> /\ m_writeEvent' = FALSE /\ inflight' = 0
  /\ peer' = "closed"
  /\ ScheduleReconn
  /\ UNCHANGED <<running, messages, frameVars>>

(* Mutant of OnTimer: m_timerReconn is not reset.                          *)
OnTimer_Mut(id) ==
  /\ Called
  /\ id \in live
  /\ id = m_timerReconn
  /\ m_timers' = EraseTimer(m_timers, id)
  /\ live' = IF Listed(m_timers, id) THEN live \ {id} ELSE live
  /\ m_connector' = TRUE
  /\ again' = FALSE
  /\ UNCHANGED <<running, m_connection, m_timerReconn, m_nextID, peer,
                 frameVars, writeVars>>

(* The timer is cancelled, if it can be, and the client connects; other    *)
(* timers of the client do nothing.  Connect does nothing where there is a *)
(* Connector.                                                              *)
OnTimer(id) ==
  /\ Called
  /\ id \in live
  /\ id = m_timerReconn
  /\ m_timers' = EraseTimer(m_timers, id)
  /\ live' = IF Listed(m_timers, id) THEN live \ {id} ELSE live
  /\ m_timerReconn' = NoTimer
  /\ m_connector' = TRUE
  /\ again' = (m_connector /\ again)
  /\ UNCHANGED <<running, m_connection, m_nextID, peer, frameVars, writeVars>>

-----------------------------------------------------------------------------
(* Writing.                                                                *)

Message == [j \in 1..Units |-> messages + 1]

Smaller(m, n) == IF m < n THEN m ELSE n

(* Mutant of SocketTakes: whatever was written counts as sent.             *)
SocketTakes_Mut(buffer) ==
  /\ m_writeBuffer' = << >>
  /\ inflight' = inflight + Len(buffer)

(* evbuffer_write: the socket takes what fits; nothing fits is EAGAIN.     *)
SocketTakes(buffer) ==
  LET n == Smaller(Len(buffer), Room - inflight) IN
  /\ m_writeBuffer' = SubSeq(buffer, n + 1, Len(buffer))
  /\ inflight' = inflight + n

(* Send with nothing left from before writes at once; what does not fit    *)
(* stays, and no write event waits for it.                                 *)
SendAtOnce ==
  /\ Called /\ m_connection
  /\ messages < MaxMessages
  /\ m_writeBuffer = << >>
  /\ peer # "reset"
  /\ SocketTakes(Message)
  /\ messages' = messages + 1
  /\ again' = (again \/ inflight = Room)
  /\ UNCHANGED <<running, m_connector, m_connection, m_timerReconn, m_timers,
                 m_nextID, live, peer, m_writeEvent, frameVars>>

(* The socket is broken: EPIPE is returned to a caller that ignores it,    *)
(* and the error is no longer there for recv to report.                    *)
SendFails ==
  /\ Called /\ m_connection
  /\ messages < MaxMessages
  /\ m_writeBuffer = << >>
  /\ peer # "open"
  /\ m_writeBuffer' = Message
  /\ messages' = messages + 1
  /\ again' = FALSE
  /\ peer' = "closed"
  /\ UNCHANGED <<running, m_connector, m_connection, m_timerReconn, m_timers,
                 m_nextID, live, m_writeEvent, inflight, frameVars>>

(* Mutant of SendLater: the write event is not added.                      *)
SendLater_Mut ==
  /\ Called /\ m_connection
  /\ messages < MaxMessages
  /\ m_writeBuffer # << >>
  /\ m_writeBuffer' = m_writeBuffer \o Message
  /\ messages' = messages + 1
  /\ UNCHANGED <<m_writeEvent, inflight, linkVars, frameVars>>

(* Send behind what is left from before leaves the rest to OnWrite.        *)
SendLater ==
  /\ Called /\ m_connection
  /\ messages < MaxMessages
  /\ m_writeBuffer # << >>
  /\ m_writeBuffer' = m_writeBuffer \o Message
  /\ m_writeEvent' = TRUE
  /\ messages' = messages + 1
  /\ UNCHANGED <<inflight, linkVars, frameVars>>

(* TcpClient::SendMsg without a connection returns no value: the message   *)
(* is dropped, or, where the compiler takes that path for impossible and   *)
(* drops the test, Send is called on NULL and the process ends.            *)
SendUnconnected ==
  /\ Called
  /\ ~m_connection
  /\ running' \in BOOLEAN
  /\ UNCHANGED <<m_connector, m_connection, m_timerReconn, m_timers, m_nextID,
                 live, peer, again, frameVars, writeVars>>

(* Connection::OnWrite: the event is added again for what did not fit.     *)
OnWrite ==
  /\ Called /\ m_connection
  /\ m_writeEvent
  /\ peer # "reset" /\ inflight < Room
  /\ SocketTakes(m_writeBuffer)
  /\ m_writeEvent' = (Len(m_writeBuffer) > Room - inflight)
  /\ UNCHANGED <<messages, linkVars, frameVars>>

OnWriteFails ==
  /\ Called /\ m_connection
  /\ m_writeEvent
  /\ peer # "open"
  /\ again' = FALSE
  /\ OnDisconnect

-----------------------------------------------------------------------------
(* Reading.                                                                *)

OnRead ==
  /\ Called /\ m_connection
  /\ BeginRead
  /\ UNCHANGED <<linkVars, writeVars>>

OnData ==
  /\ running
  /\ KeepByte \/ ZeroByte
  /\ UNCHANGED <<linkVars, writeVars>>

(* recv returns 0, which leaves errno as it is: where that is EAGAIN from  *)
(* an earlier call, the end of the connection is taken for nothing to read *)
(* and OnRead returns.                                                     *)
OnReadEnd ==
  /\ Called /\ m_connection
  /\ end = sent /\ peer = "closed"
  /\ ~again
  /\ OnDisconnect
  /\ UNCHANGED again

OnReadReset ==
  /\ Called /\ m_connection
  /\ end = sent /\ peer = "reset"
  /\ again' = FALSE
  /\ OnDisconnect

-----------------------------------------------------------------------------
(* The peer, the network, and the calls other components make.             *)

PeerSends ==
  /\ m_connection /\ peer = "open"
  /\ PeerSendsByte \/ PeerEndsFrame
  /\ UNCHANGED <<linkVars, writeVars>>

PeerReads ==
  /\ peer = "open" /\ inflight > 0
  /\ inflight' = inflight - 1
  /\ UNCHANGED <<m_writeBuffer, m_writeEvent, messages, linkVars, frameVars>>

PeerBreaks ==
  /\ m_connection
  /\ m_nextID <= MaxTimers
  /\ \/ peer = "open" /\ peer' = "closed"
     \/ peer # "reset" /\ peer' = "reset"
  /\ UNCHANGED <<running, m_connector, m_connection, m_timerReconn, m_timers,
                 m_nextID, live, again, frameVars, writeVars>>

OtherCalls ==
  /\ Called
  /\ again' = ~again
  /\ UNCHANGED <<running, m_connector, m_connection, m_timerReconn, m_timers,
                 m_nextID, live, peer, frameVars, writeVars>>

Next ==
  \/ OnConnection \/ OnConnectionFails
  \/ \E id \in 1..MaxTimers : OnTimer(id)
  \/ SendAtOnce \/ SendFails \/ SendLater \/ SendUnconnected
  \/ OnWrite \/ OnWriteFails
  \/ OnRead \/ OnData \/ OnReadEnd \/ OnReadReset
  \/ PeerSends \/ PeerReads \/ PeerBreaks \/ OtherCalls

Spec == Init /\ [][Next]_vars

(* The looper dispatches what is ready; a peer that is connected to again  *)
(* and again accepts in the end.                                           *)
FairSpec ==
  /\ Spec
  /\ SF_vars(OnConnection) /\ WF_vars(OnConnectionFails)
  /\ \A id \in 1..MaxTimers : WF_vars(OnTimer(id))
  /\ WF_vars(OnRead) /\ WF_vars(OnData)
  /\ WF_vars(OnReadEnd) /\ WF_vars(OnReadReset)

-----------------------------------------------------------------------------
(* The client is always on exactly one way: it connects, it is connected,  *)
(* or a timer that still fires will connect.  So it never stops trying,    *)
(* never opens a second connection, and never deletes a Connector that is  *)
(* connecting, which would free it twice, whichever of its timers could    *)
(* not be cancelled (TcpClient.h:59-79, 117-144, connbaseimp.cpp:33-38).   *)
OneWayBack ==
  \/ m_connector /\ ~m_connection /\ m_timerReconn = NoTimer
  \/ ~m_connector /\ m_connection /\ m_timerReconn = NoTimer
  \/ ~m_connector /\ ~m_connection /\ m_timerReconn \in live

(* What Send accepted is written, but for the rest of one message: where   *)
(* the write event does not wait, all that is left belongs to the message  *)
(* sent last, and the next Send gets it going (connbaseimp.cpp:444-460,    *)
(* 507-529).                                                               *)
BacklogIsWritten ==
  \/ m_writeEvent
  \/ \A j \in DOMAIN m_writeBuffer : m_writeBuffer[j] = messages

(* A connection that is broken, or could not be made, is made again, as    *)
(* long as errno does not say EAGAIN when the end of the old one is read   *)
(* and the process does not end on a message sent in between               *)
(* (TcpClient.h:117-144, connbaseimp.cpp:483-505).                         *)
Linked == m_connection /\ peer = "open"
Reconnects == ~Linked ~> Linked \/ again \/ ~running
=============================================================================
