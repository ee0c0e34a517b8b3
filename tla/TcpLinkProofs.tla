--------------------------- MODULE TcpLinkProofs ---------------------------
(***************************************************************************)
(* What holds of the connection to the upper computer for any number of    *)
(* bytes, messages and reconnections, any size of messages and of the      *)
(* socket's buffer: frames are whole, the client is always on exactly one  *)
(* way to a connection, and what waits without a write event is the rest   *)
(* of one message.                                                         *)
(***************************************************************************)
EXTENDS TcpLink, TimerListProofs, SequenceTheorems

USE BytesAssumption, UnitsAssumption, BoundsAssumption

-----------------------------------------------------------------------------
(* Frames.  The bytes in m_rdBuffer are those that follow the last zero    *)
(* byte; no frame is of one byte; and a zero byte this read has looked at  *)
(* last is the one pos points to.                                          *)
NoOneByteFrame ==
  \A p \in nuls :
    p - 1 > base /\ p - 1 \notin nuls => p - 2 # base /\ p - 2 \notin nuls

PosIsLastZero ==
  /\ pos <= at - start
  /\ at > start /\ at \in nuls => pos = at - start - 1

FrameInv ==
  /\ FrameTypeOK
  /\ PosIsLastZero
  /\ at = base => handed = 0
  /\ ~cut => NoOneByteFrame /\ IsRun(m_rdBuffer, at)

(* The bytes of a run, made longer by the next byte.                       *)
LEMMA RunGrows ==
  ASSUME NEW s \in Nat, NEW to \in Nat, s <= to,
         NEW next, next = to + 1
  PROVE  /\ Append([j \in 1 .. to - s |-> s + j], next)
              = [j \in 1 .. next - s |-> s + j]
         /\ Len([j \in 1 .. to - s |-> s + j]) = to - s
<1> DEFINE run == [j \in 1 .. to - s |-> s + j]
           longer == [j \in 1 .. next - s |-> s + j]
<1>1. run \in Seq(Nat) /\ Len(run) = to - s
  OBVIOUS
<1>2. longer \in Seq(Nat) /\ Len(longer) = next - s
  OBVIOUS
<1>3. /\ Append(run, next) \in Seq(Nat)
      /\ Len(Append(run, next)) = next - s
      /\ \A i \in 1 .. next - s : Append(run, next)[i] = longer[i]
  <2>1. next \in Nat /\ next = to + 1
    OBVIOUS
  <2>2. \A i \in 1 .. to - s : run[i] = s + i
    OBVIOUS
  <2>3. \A i \in 1 .. next - s : longer[i] = s + i
    OBVIOUS
  <2> HIDE DEF run, longer
  <2> QED
    BY <1>1, <2>1, <2>2, <2>3
<1>4. Append(run, next) = longer
  <2> HIDE DEF run, longer
  <2> QED
    BY <1>2, <1>3, SeqEqual
<1> QED
  BY <1>1, <1>4

LEMMA InitFrameInv == FrameInit => FrameInv
<1> SUFFICES ASSUME FrameInit PROVE FrameInv
  OBVIOUS
<1>1. FrameTypeOK
  <2>1. m_rdBuffer \in Seq(1..sent) /\ lastFrame \in Seq(1..sent)
    BY EmptySeq DEF FrameInit
  <2>2. sent = 0 /\ nuls = {} /\ base = 0 /\ start = 0 /\ end = 0 /\ at = 0
        /\ pos = 0 /\ handed = 0
    BY DEF FrameInit
  <2>3. cut \in BOOLEAN
    BY DEF FrameInit
  <2> QED
    BY <2>1, <2>2, <2>3 DEF FrameTypeOK
<1>2. PosIsLastZero
  BY DEF FrameInit, PosIsLastZero
<1>3. NoOneByteFrame
  BY DEF FrameInit, NoOneByteFrame
<1>4. IsRun(m_rdBuffer, at)
  BY DEF FrameInit, IsRun
<1> QED
  BY <1>1, <1>2, <1>3, <1>4 DEF FrameInv, FrameInit

LEMMA FrameTypes == FrameTypeOK /\ [FrameNext]_frameVars => FrameTypeOK'
<1> SUFFICES ASSUME FrameTypeOK, [FrameNext]_frameVars PROVE FrameTypeOK'
  OBVIOUS
<1> USE DEF FrameTypeOK
<1>1. ASSUME sent' = sent + 1
      PROVE  m_rdBuffer \in Seq(1..sent') /\ lastFrame \in Seq(1..sent')
  <2>1. 1..sent \subseteq 1..sent'
    BY <1>1
  <2> QED
    BY <2>1, SeqMonotonic
<1>2. CASE PeerSendsByte
  BY <1>1, <1>2 DEF PeerSendsByte
<1>3. CASE PeerEndsFrame
  BY <1>1, <1>3 DEF PeerEndsFrame, OneByteFrame
<1>4. CASE BeginRead
  BY <1>4 DEF BeginRead, Reading
<1>5. CASE KeepByte
  <2>1. at + 1 \in 1..sent /\ at + 1 \in start..end
    BY <1>5 DEF KeepByte, Reading
  <2>2. m_rdBuffer' \in Seq(1..sent)
    BY <1>5, <2>1 DEF KeepByte
  <2> QED
    BY <1>5, <2>1, <2>2 DEF KeepByte
<1>6. CASE ZeroByte
  <2>1. UNCHANGED <<sent, nuls, base, start, end, cut>> /\ at' = at + 1
        /\ pos' = at - start /\ at < end
    BY <1>6 DEF ZeroByte, Reading
  <2>2. at' \in start' .. end' /\ pos' \in Nat
    BY <2>1
  <2>3. m_rdBuffer' \in Seq(1..sent) /\ lastFrame' \in Seq(1..sent)
    BY <1>6, EmptySeq DEF ZeroByte
  <2>4. handed' \in Nat
    BY <1>6 DEF ZeroByte
  <2> QED
    BY <2>1, <2>2, <2>3, <2>4
<1>7. CASE NewStream
  <2>1. lastFrame' \in Seq(1..sent)
    BY <1>7, EmptySeq DEF NewStream
  <2>2. cut' \in BOOLEAN
    BY <1>7 DEF NewStream
  <2>3. UNCHANGED <<sent, nuls, m_rdBuffer>> /\ base' = sent /\ start' = sent
        /\ end' = sent /\ at' = sent /\ pos' = 0 /\ handed' = 0
    BY <1>7 DEF NewStream
  <2>4. m_rdBuffer' \in Seq(1..sent') /\ lastFrame' \in Seq(1..sent')
        /\ nuls' \in SUBSET (1..sent')
    BY <2>1, <2>3
  <2> QED
    BY <2>2, <2>3, <2>4
<1>8. CASE UNCHANGED frameVars
  BY <1>8 DEF frameVars
<1> QED
  BY <1>2, <1>3, <1>4, <1>5, <1>6, <1>7, <1>8 DEF FrameNext

(* A zero byte after a run of at least two bytes hands the run over, one   *)
(* after a zero byte or at the beginning hands over nothing.               *)
LEMMA ZeroByteLemma ==
  ASSUME FrameInv, ~cut, ZeroByte
  PROVE  /\ at > base /\ at \notin nuls
              => /\ handed' = handed + 1
                 /\ lastFrame' = m_rdBuffer
                 /\ m_rdBuffer' = << >>
         /\ ~(at > base /\ at \notin nuls)
              => /\ handed' = handed
                 /\ lastFrame' = lastFrame
                 /\ m_rdBuffer' = << >>
<1>1. PICK s \in base..at :
        /\ s = base \/ s \in nuls
        /\ \A p \in s + 1 .. at : p \notin nuls
        /\ m_rdBuffer = [j \in 1 .. at - s |-> s + j]
  BY DEF FrameInv, IsRun
<1>2. base \in Nat /\ at \in Nat /\ start \in Nat /\ pos \in Nat /\ s \in Nat
      /\ base <= start /\ start <= at
  BY DEF FrameInv, FrameTypeOK
<1>3. Len(m_rdBuffer) = at - s
  BY <1>1, <1>2, RunGrows
<1>4. at + 1 \in nuls
  BY DEF ZeroByte
<1>5. CASE at > base /\ at \notin nuls
  <2>1. s # at
    BY <1>1, <1>5
  <2>2. s # at - 1
    <3>1. (at + 1) - 1 = at /\ (at + 1) - 2 = at - 1
      BY <1>2
    <3>2. NoOneByteFrame
      BY DEF FrameInv
    <3>3. at - 1 # base /\ at - 1 \notin nuls
      BY <1>2, <1>4, <1>5, <3>1, <3>2 DEF NoOneByteFrame
    <3> QED
      BY <1>1, <3>3
  <2>3. at - start - pos + Len(m_rdBuffer) > 1
    BY <1>1, <1>2, <1>3, <2>1, <2>2 DEF FrameInv, PosIsLastZero
  <2> QED
    BY <1>5, <2>3 DEF ZeroByte
<1>6. CASE ~(at > base /\ at \notin nuls)
  <2>1. s = at
    <3>1. CASE at = base
      BY <1>1, <1>2, <3>1
    <3>2. CASE at \in nuls
      <4>1. ~(s < at)
        BY <1>1, <1>2, <3>2
      <4> QED
        BY <1>1, <1>2, <4>1
    <3> QED
      BY <1>2, <1>6, <3>1, <3>2
  <2>2. m_rdBuffer = << >>
    BY <1>1, <1>2, <2>1
  <2>3. at - start - pos <= 1
    <3>1. CASE at = start
      BY <1>2, <3>1 DEF FrameInv, PosIsLastZero
    <3>2. CASE at > start
      <4>1. at \in nuls
        BY <1>2, <1>6, <3>2
      <4> QED
        BY <1>2, <3>2, <4>1 DEF FrameInv, PosIsLastZero
    <3> QED
      BY <1>2, <3>1, <3>2
  <2>4. ~(at - start - pos + Len(m_rdBuffer) > 1)
    BY <1>2, <2>2, <2>3
  <2> QED
    BY <1>6, <2>2, <2>4 DEF ZeroByte
<1> QED
  BY <1>5, <1>6

LEMMA NextFrameInv == FrameInv /\ [FrameNext]_frameVars => FrameInv'
<1> SUFFICES ASSUME FrameInv, [FrameNext]_frameVars PROVE FrameInv'
  OBVIOUS
<1>1. FrameTypeOK /\ FrameTypeOK'
  BY FrameTypes DEF FrameInv
<1>2. sent \in Nat /\ base \in Nat /\ at \in Nat /\ start \in Nat /\ end \in Nat
      /\ base <= start /\ start <= at /\ at <= end /\ end <= sent /\ pos \in Nat
      /\ nuls \in SUBSET (1..sent)
  BY <1>1 DEF FrameTypeOK
<1>3. CASE PeerSendsByte
  <2>1. UNCHANGED <<nuls, base, start, at, pos, m_rdBuffer, cut>>
    BY <1>3 DEF PeerSendsByte
  <2>2. handed' = handed
    BY <1>3 DEF PeerSendsByte
  <2> QED
    BY <1>1, <2>1, <2>2 DEF FrameInv, PosIsLastZero, NoOneByteFrame, IsRun
<1>4. CASE PeerEndsFrame
  <2>1. UNCHANGED <<base, start, end, at, pos, m_rdBuffer>>
        /\ nuls' = nuls \cup {sent + 1} /\ sent' = sent + 1
        /\ cut' = (cut \/ OneByteFrame)
    BY <1>4 DEF PeerEndsFrame
  <2>2. PosIsLastZero' /\ (at' = base' => handed' = 0)
    BY <1>2, <1>4, <2>1 DEF FrameInv, PosIsLastZero, PeerEndsFrame
  <2>3. ASSUME ~cut' PROVE NoOneByteFrame' /\ IsRun(m_rdBuffer, at)'
    <3>1. ~cut /\ ~OneByteFrame
      BY <2>1, <2>3
    <3>2. \A p \in nuls : p - 1 \in Int /\ p - 2 \in Int
                          /\ p - 1 # sent + 1 /\ p - 2 # sent + 1
      BY <1>2
    <3>3. NoOneByteFrame'
      <4>1. NoOneByteFrame
        BY <3>1 DEF FrameInv
      <4>2. ASSUME NEW p \in nuls', p - 1 > base', p - 1 \notin nuls'
            PROVE  p - 2 # base' /\ p - 2 \notin nuls'
        <5>1. CASE p \in nuls
          BY <2>1, <3>2, <4>1, <4>2, <5>1 DEF NoOneByteFrame
        <5>2. CASE p = sent + 1
          <6>1. p - 1 = sent /\ p - 2 = sent - 1 /\ sent - 1 # sent + 1
            BY <1>2, <5>2
          <6>2. sent > base /\ sent \notin nuls
            BY <2>1, <4>2, <6>1
          <6> QED
            BY <2>1, <3>1, <6>1, <6>2 DEF OneByteFrame
        <5> QED
          BY <2>1, <4>2, <5>1, <5>2
      <4> QED
        BY <4>2 DEF NoOneByteFrame
    <3>4. IsRun(m_rdBuffer, at)'
      <4>1. PICK s \in base..at :
              /\ s = base \/ s \in nuls
              /\ \A p \in s + 1 .. at : p \notin nuls
              /\ m_rdBuffer = [j \in 1 .. at - s |-> s + j]
        BY <3>1 DEF FrameInv, IsRun
      <4>2. \A p \in s + 1 .. at : p \notin nuls'
        BY <1>2, <2>1, <4>1
      <4> QED
        BY <2>1, <4>1, <4>2 DEF IsRun
    <3> QED
      BY <3>3, <3>4
  <2> QED
    BY <1>1, <2>2, <2>3 DEF FrameInv
<1>5. CASE BeginRead
  <2>1. at = end
    BY <1>2, <1>5 DEF BeginRead, Reading
  <2>2. UNCHANGED <<nuls, base, m_rdBuffer, cut>> /\ at' = at /\ start' = at
        /\ pos' = 0 /\ handed' = handed
    BY <1>5, <2>1 DEF BeginRead
  <2> QED
    BY <1>1, <1>2, <2>2 DEF FrameInv, PosIsLastZero, NoOneByteFrame, IsRun
<1>6. CASE KeepByte
  <2>1. UNCHANGED <<nuls, base, start, pos, cut>> /\ at' = at + 1
        /\ at + 1 \notin nuls /\ m_rdBuffer' = Append(m_rdBuffer, at + 1)
    BY <1>6 DEF KeepByte
  <2>2. PosIsLastZero' /\ at' # base'
    BY <1>2, <2>1 DEF FrameInv, PosIsLastZero
  <2>3. ASSUME ~cut PROVE NoOneByteFrame' /\ IsRun(m_rdBuffer, at)'
    <3>1. NoOneByteFrame'
      BY <2>1, <2>3 DEF FrameInv, NoOneByteFrame
    <3>2. PICK s \in base..at :
            /\ s = base \/ s \in nuls
            /\ \A p \in s + 1 .. at : p \notin nuls
            /\ m_rdBuffer = [j \in 1 .. at - s |-> s + j]
      BY <2>3 DEF FrameInv, IsRun
    <3>3. \A p \in s + 1 .. at' : p \notin nuls'
      BY <1>2, <2>1, <3>2
    <3>4. m_rdBuffer' = Append(m_rdBuffer, at')
      BY <2>1
    <3>5. m_rdBuffer' = [j \in 1 .. at' - s |-> s + j]
      BY <1>2, <2>1, <3>2, <3>4, RunGrows
    <3>6. s \in base' .. at' /\ (s = base' \/ s \in nuls')
      BY <1>2, <2>1, <3>2
    <3>7. IsRun(m_rdBuffer, at)'
      BY <3>3, <3>5, <3>6 DEF IsRun
    <3> QED
      BY <3>1, <3>7
  <2> QED
    BY <1>1, <2>1, <2>2, <2>3 DEF FrameInv
<1>7. CASE ZeroByte
  <2>1. UNCHANGED <<nuls, base, start, cut>> /\ at' = at + 1
        /\ at + 1 \in nuls /\ pos' = at - start
    BY <1>7 DEF ZeroByte
  <2>2. PosIsLastZero' /\ at' # base'
    BY <1>2, <2>1 DEF PosIsLastZero
  <2>3. ASSUME ~cut PROVE NoOneByteFrame' /\ IsRun(m_rdBuffer, at)'
    <3>1. NoOneByteFrame'
      BY <2>1, <2>3 DEF FrameInv, NoOneByteFrame
    <3>2. m_rdBuffer' = << >>
      BY <1>7, <2>3, ZeroByteLemma
    <3>3. at' \in base' .. at' /\ at' \in nuls'
          /\ (\A p \in at' + 1 .. at' : p \notin nuls')
          /\ << >> = [j \in 1 .. at' - at' |-> at' + j]
      BY <1>2, <2>1
    <3> QED
      BY <3>1, <3>2, <3>3 DEF IsRun
  <2> QED
    BY <1>1, <2>1, <2>2, <2>3 DEF FrameInv
<1>8. CASE NewStream
  <2>1. base' = sent /\ start' = sent /\ at' = sent /\ pos' = 0
        /\ cut' = (m_rdBuffer # << >>) /\ UNCHANGED <<nuls, m_rdBuffer>>
    BY <1>8 DEF NewStream
  <2>2. PosIsLastZero' /\ handed' = 0
    BY <1>2, <1>8, <2>1 DEF PosIsLastZero, NewStream
  <2>3. NoOneByteFrame'
    BY <1>2, <2>1 DEF NoOneByteFrame
  <2>4. ASSUME ~cut' PROVE IsRun(m_rdBuffer, at)'
    <3>1. m_rdBuffer' = << >>
      BY <2>1, <2>4
    <3>2. base' \in base' .. at'
          /\ (\A p \in base' + 1 .. at' : p \notin nuls')
          /\ << >> = [j \in 1 .. at' - base' |-> base' + j]
      BY <1>2, <2>1
    <3> QED
      BY <3>1, <3>2 DEF IsRun
  <2> QED
    BY <1>1, <2>2, <2>3, <2>4 DEF FrameInv
<1>9. CASE UNCHANGED frameVars
  BY <1>9, <1>1 DEF frameVars, FrameInv, PosIsLastZero, NoOneByteFrame, IsRun
<1> QED
  BY <1>3, <1>4, <1>5, <1>6, <1>7, <1>8, <1>9 DEF FrameNext

(* What every step of the stream must do, FramesAreWhole without its box.  *)
FrameStep ==
  ~cut /\ base' = base =>
     IF at' = at + 1 /\ at' \in nuls /\ at > base /\ at \notin nuls
     THEN handed' = handed + 1 /\ IsRun(lastFrame', at)
     ELSE handed' = handed

LEMMA StepIsWhole == FrameInv /\ [FrameNext]_frameVars => FrameStep
<1> SUFFICES ASSUME FrameInv, [FrameNext]_frameVars, ~cut, base' = base
             PROVE  IF at' = at + 1 /\ at' \in nuls /\ at > base /\ at \notin nuls
                    THEN handed' = handed + 1 /\ IsRun(lastFrame', at)
                    ELSE handed' = handed
  BY DEF FrameStep
<1>1. at \in Nat /\ at <= end /\ end \in Nat /\ sent \in Nat /\ base \in Nat
      /\ base <= at /\ nuls \in SUBSET (1..sent) /\ end <= sent /\ at # at + 1
  BY DEF FrameInv, FrameTypeOK
<1>2. CASE PeerSendsByte \/ PeerEndsFrame
  BY <1>1, <1>2 DEF PeerSendsByte, PeerEndsFrame
<1>3. CASE BeginRead
  BY <1>1, <1>3 DEF BeginRead, Reading
<1>4. CASE KeepByte
  BY <1>4 DEF KeepByte
<1>5. CASE ZeroByte
  <2>1. at' = at + 1 /\ at' \in nuls
    BY <1>5 DEF ZeroByte
  <2>2. IsRun(m_rdBuffer, at)
    BY DEF FrameInv
  <2> QED
    BY <1>5, <2>1, <2>2, ZeroByteLemma
<1>6. CASE NewStream
  <2>1. base = sent /\ at = base /\ at' = at /\ handed' = 0
    BY <1>1, <1>6 DEF NewStream
  <2> QED
    BY <1>1, <2>1 DEF FrameInv
<1>7. CASE UNCHANGED frameVars
  BY <1>1, <1>7 DEF frameVars
<1> QED
  BY <1>2, <1>3, <1>4, <1>5, <1>6, <1>7 DEF FrameNext

-----------------------------------------------------------------------------
(* The types of the client, by their parts.                                *)
LinkTypes ==
  /\ running \in BOOLEAN /\ m_connector \in BOOLEAN /\ m_connection \in BOOLEAN
  /\ m_timerReconn \in Nat \cup {NoTimer}
  /\ m_timers \in Seq(Nat)
  /\ m_nextID \in Nat \ {0}
  /\ live \in SUBSET (1 .. m_nextID - 1)
  /\ peer \in {"open", "closed", "reset"}
  /\ again \in BOOLEAN

WriteTypes ==
  /\ m_writeBuffer \in Seq(1..messages)
  /\ m_writeEvent \in BOOLEAN
  /\ inflight \in 0..Room
  /\ messages \in Nat

LEMMA SplitTypes == TypeOK <=> FrameTypeOK /\ LinkTypes /\ WriteTypes
BY DEF TypeOK, LinkTypes, WriteTypes

(* Every step of the client is one of the stream, or leaves it alone.      *)
LEMMA NextIsFrameStep == [Next]_vars => [FrameNext]_frameVars
<1> SUFFICES ASSUME [Next]_vars PROVE FrameNext \/ UNCHANGED frameVars
  OBVIOUS
<1>1. CASE OnConnection
  BY <1>1 DEF OnConnection, FrameNext
<1>2. CASE OnConnectionFails
  BY <1>2 DEF OnConnectionFails
<1>3. ASSUME NEW id \in 1..MaxTimers, OnTimer(id) PROVE UNCHANGED frameVars
  BY <1>3 DEF OnTimer
<1>4. CASE SendAtOnce \/ SendFails \/ SendLater \/ SendUnconnected
  BY <1>4 DEF SendAtOnce, SendFails, SendLater, SendUnconnected
<1>5. CASE OnWrite \/ OnWriteFails
  BY <1>5 DEF OnWrite, OnWriteFails, OnDisconnect
<1>6. CASE OnRead \/ OnData
  BY <1>6 DEF OnRead, OnData, FrameNext
<1>7. CASE OnReadEnd \/ OnReadReset
  BY <1>7 DEF OnReadEnd, OnReadReset, OnDisconnect
<1>8. CASE PeerSends
  BY <1>8 DEF PeerSends, FrameNext
<1>9. CASE PeerReads \/ PeerBreaks \/ OtherCalls
  BY <1>9 DEF PeerReads, PeerBreaks, OtherCalls
<1>10. CASE UNCHANGED vars
  BY <1>10 DEF vars
<1> QED
  BY <1>1, <1>2, <1>3, <1>4, <1>5, <1>6, <1>7, <1>8, <1>9, <1>10 DEF Next

-----------------------------------------------------------------------------
(* The connection and the timer.                                           *)
Way == LinkTypes /\ SingleOlder(m_timers, m_nextID) /\ OneWayBack

(* Leaving the connector or the connection schedules a timer that fires.   *)
LEMMA ScheduleLemma ==
  ASSUME Way, m_timerReconn = NoTimer, ScheduleReconn
  PROVE  /\ m_timerReconn' \in Nat /\ m_timerReconn' \in live'
         /\ m_nextID' \in Nat \ {0} /\ live' \in SUBSET (1 .. m_nextID' - 1)
         /\ m_timers' \in Seq(Nat) /\ SingleOlder(m_timers', m_nextID')
<1>1. m_nextID \in Nat \ {0} /\ live \in SUBSET (1 .. m_nextID - 1)
  BY DEF Way, LinkTypes
<1>2. m_timerReconn' = m_nextID /\ m_nextID' = m_nextID + 1
      /\ m_timers' = InsertTimer(m_timers, m_nextID)
      /\ live' = live \cup {m_nextID}
  BY DEF ScheduleReconn
<1>3. SingleOlder(m_timers', m_nextID')
  BY <1>1, <1>2, SingleOlderLemma DEF Way
<1>4. m_nextID' \in Nat \ {0}
  BY <1>1, <1>2
<1>5. m_timers' \in Seq(Nat)
  BY <1>3, <1>4, SingleOlderLemma
<1>6. live' \in SUBSET (1 .. m_nextID' - 1)
  <2>1. m_nextID \in 1 .. m_nextID
    BY <1>1
  <2> QED
    BY <1>1, <1>2, <2>1
<1> QED
  BY <1>1, <1>2, <1>3, <1>4, <1>5, <1>6

LEMMA InitWay == Init => Way
<1> SUFFICES ASSUME Init PROVE Way
  OBVIOUS
<1>1. SingleOlder(m_timers, m_nextID)
  BY DEF Init, SingleOlder, OtherTimer
<1>2. LinkTypes
  <2>1. m_timers \in Seq(Nat)
    BY <1>1, SingleOlderLemma DEF Init
  <2>2. running \in BOOLEAN /\ m_connector \in BOOLEAN /\ m_connection \in BOOLEAN
        /\ again \in BOOLEAN
    BY DEF Init
  <2>3. m_timerReconn = NoTimer /\ m_nextID = 1 /\ live = {} /\ peer = "closed"
    BY DEF Init
  <2> QED
    BY <2>1, <2>2, <2>3 DEF LinkTypes
<1>3. OneWayBack
  BY DEF Init, OneWayBack
<1> QED
  BY <1>1, <1>2, <1>3 DEF Way

(* A connection that ends, or could not be made.                           *)
LEMMA LeaveLemma ==
  ASSUME Way, m_timerReconn = NoTimer, ScheduleReconn, ~m_connector', ~m_connection',
         m_connector' \in BOOLEAN, m_connection' \in BOOLEAN,
         running' = running, peer' \in {"open", "closed", "reset"},
         again' \in BOOLEAN
  PROVE  Way'
<1>1. LinkTypes'
  BY ScheduleLemma DEF Way, LinkTypes
<1> QED
  BY <1>1, ScheduleLemma DEF Way, OneWayBack

LEMMA NextWay == Way /\ [Next]_vars => Way'
<1> SUFFICES ASSUME Way, [Next]_vars PROVE Way'
  OBVIOUS
<1> DEFINE timerVars == <<m_timerReconn, m_timers, m_nextID, live>>
<1>1. ASSUME UNCHANGED timerVars, UNCHANGED <<m_connector, m_connection>>,
             running' \in BOOLEAN, again' \in BOOLEAN,
             peer' \in {"open", "closed", "reset"}
      PROVE  Way'
  BY <1>1 DEF Way, LinkTypes, OneWayBack, SingleOlder
<1>2. /\ running \in BOOLEAN /\ again \in BOOLEAN
      /\ peer \in {"open", "closed", "reset"}
      /\ m_timerReconn = NoTimer <=> m_connector \/ m_connection
  <2>1. m_nextID \in Nat /\ live \in SUBSET (1 .. m_nextID - 1)
    BY DEF Way, LinkTypes
  <2>2. NoTimer \notin live
    BY <2>1 DEF NoTimer
  <2>3. m_timerReconn = NoTimer <=> m_connector \/ m_connection
    BY <2>2 DEF Way, OneWayBack
  <2> QED
    BY <2>3 DEF Way, LinkTypes
<1>3. CASE OnConnection
  <2>1. UNCHANGED timerVars /\ m_connector /\ ~m_connector' /\ m_connection'
        /\ m_timerReconn = NoTimer
    BY <1>2, <1>3 DEF OnConnection
  <2>2. m_connector' \in BOOLEAN /\ m_connection' \in BOOLEAN
        /\ UNCHANGED <<running, again>> /\ peer' \in {"open", "closed", "reset"}
    BY <1>3 DEF OnConnection
  <2>3. LinkTypes' /\ SingleOlder(m_timers, m_nextID)'
    BY <2>1, <2>2 DEF Way, LinkTypes, SingleOlder
  <2> QED
    BY <2>1, <2>3 DEF Way, OneWayBack
<1>4. CASE OnConnectionFails
  <2>1. m_connector /\ ~m_connection
    BY <1>4 DEF OnConnectionFails, Way, OneWayBack
  <2>2. again' \in BOOLEAN
    BY <1>2, <1>4 DEF OnConnectionFails
  <2>3. ~m_connector' /\ m_connector' \in BOOLEAN
    BY <1>4 DEF OnConnectionFails
  <2>4. ~m_connection' /\ m_connection' \in BOOLEAN
    BY <1>4, <2>1 DEF OnConnectionFails, Way, LinkTypes
  <2>5. ScheduleReconn /\ running' = running /\ peer' = peer /\ m_timerReconn = NoTimer
    BY <1>2, <1>4, <2>1 DEF OnConnectionFails
  <2> QED
    BY <1>2, <2>2, <2>3, <2>4, <2>5, LeaveLemma
<1>5. ASSUME NEW id \in 1..MaxTimers, OnTimer(id) PROVE Way'
  <2>1. id \in live /\ id = m_timerReconn /\ ~m_connector /\ ~m_connection
    <3>1. id # NoTimer
      BY DEF NoTimer
    <3> QED
      BY <1>2, <1>5, <3>1 DEF OnTimer
  <2>2. /\ m_timers' = EraseTimer(m_timers, id)
        /\ live' \subseteq live /\ m_timerReconn' = NoTimer
        /\ m_connector' /\ m_connector' \in BOOLEAN
        /\ UNCHANGED <<running, m_connection, m_nextID, peer>>
        /\ again' \in BOOLEAN
    <3>1. live' \subseteq live
      BY <1>5 DEF OnTimer
    <3>2. again' \in BOOLEAN /\ m_connector' \in BOOLEAN /\ m_connector'
      BY <1>5 DEF OnTimer
    <3> QED
      BY <1>5, <3>1, <3>2 DEF OnTimer
  <2>3. m_nextID \in Nat \ {0} /\ m_nextID' = m_nextID
    BY <2>2 DEF Way, LinkTypes
  <2>4. SingleOlder(m_timers', m_nextID') /\ m_timers' \in Seq(Nat)
    <3>1. SingleOlder(m_timers', m_nextID)
      BY <2>2, <2>3, SingleOlderLemma DEF Way
    <3> QED
      BY <2>3, <3>1, SingleOlderLemma
  <2>5. LinkTypes'
    BY <2>2, <2>3, <2>4 DEF Way, LinkTypes
  <2> QED
    BY <2>1, <2>2, <2>4, <2>5 DEF Way, OneWayBack
<1>6. CASE SendAtOnce
  <2>1. again' \in BOOLEAN
    BY <1>6 DEF SendAtOnce
  <2> QED
    BY <1>1, <1>2, <1>6, <2>1 DEF SendAtOnce
<1>7. CASE SendFails
  BY <1>1, <1>2, <1>7 DEF SendFails
<1>8. CASE SendUnconnected
  BY <1>1, <1>2, <1>8 DEF SendUnconnected
<1>9. CASE SendLater \/ OnWrite \/ OnRead \/ OnData \/ PeerSends \/ PeerReads
  BY <1>1, <1>2, <1>9
     DEF SendLater, OnWrite, OnRead, OnData, PeerSends, PeerReads, linkVars
<1>10. CASE OnWriteFails \/ OnReadEnd \/ OnReadReset
  <2>1. m_connection /\ OnDisconnect /\ again' \in BOOLEAN
    BY <1>2, <1>10 DEF OnWriteFails, OnReadEnd, OnReadReset
  <2>2. ~m_connector /\ m_timerReconn = NoTimer
    BY <1>2, <2>1 DEF Way, OneWayBack
  <2> QED
    BY <1>2, <2>1, <2>2, LeaveLemma DEF OnDisconnect
<1>11. CASE PeerBreaks
  BY <1>1, <1>2, <1>11 DEF PeerBreaks
<1>12. CASE OtherCalls
  <2>1. again' \in BOOLEAN
    BY <1>12 DEF OtherCalls
  <2> QED
    BY <1>1, <1>2, <1>12, <2>1 DEF OtherCalls
<1>13. CASE UNCHANGED vars
  BY <1>1, <1>2, <1>13 DEF vars, linkVars
<1> QED
  BY <1>3, <1>4, <1>5, <1>6, <1>7, <1>8, <1>9, <1>10, <1>11, <1>12, <1>13 DEF Next

-----------------------------------------------------------------------------
(* What is left to write.                                                  *)
Backlog == WriteTypes /\ BacklogIsWritten

(* The socket takes a first part of what is to be written, or all of it.   *)
LEMMA SocketLemma ==
  ASSUME NEW S, NEW buffer \in Seq(S), inflight \in 0..Room, SocketTakes(buffer)
  PROVE  /\ m_writeBuffer' \in Seq(S)
         /\ inflight' \in 0..Room
         /\ \A j \in DOMAIN m_writeBuffer' :
              \E k \in 1..Len(buffer) : m_writeBuffer'[j] = buffer[k]
         /\ Len(buffer) <= Room - inflight => m_writeBuffer' = << >>
<1> DEFINE n == Smaller(Len(buffer), Room - inflight)
<1>1. Len(buffer) \in Nat /\ n \in 0..Len(buffer) /\ inflight + n \in 0..Room
      /\ (Len(buffer) <= Room - inflight => n = Len(buffer))
  BY DEF Smaller
<1>2. m_writeBuffer' = SubSeq(buffer, n + 1, Len(buffer)) /\ inflight' = inflight + n
  BY DEF SocketTakes
<1> HIDE DEF n
<1>3. n + 1 \in Int /\ Len(buffer) \in Int /\ \A i \in n + 1 .. Len(buffer) : buffer[i] \in S
  BY <1>1, ElementOfSeq
<1>4. /\ m_writeBuffer' \in Seq(S)
      /\ Len(m_writeBuffer') = IF n + 1 <= Len(buffer) THEN Len(buffer) - (n + 1) + 1 ELSE 0
      /\ \A i \in 1 .. Len(buffer) - (n + 1) + 1 :
           m_writeBuffer'[i] = buffer[(n + 1) + i - 1]
  BY <1>2, <1>3, SubSeqProperties
<1>5. \A j \in DOMAIN m_writeBuffer' :
        \E k \in 1..Len(buffer) : m_writeBuffer'[j] = buffer[k]
  <2> SUFFICES ASSUME NEW j \in DOMAIN m_writeBuffer'
               PROVE  \E k \in 1..Len(buffer) : m_writeBuffer'[j] = buffer[k]
    OBVIOUS
  <2>1. DOMAIN m_writeBuffer' = 1 .. Len(m_writeBuffer') /\ Len(m_writeBuffer') \in Nat
    BY <1>4, LenProperties
  <2>2. j \in 1 .. Len(buffer) - (n + 1) + 1
    BY <1>1, <1>4, <2>1
  <2>3. (n + 1) + j - 1 \in 1..Len(buffer)
    BY <1>1, <2>2
  <2> QED
    BY <1>4, <2>2, <2>3
<1>6. Len(buffer) <= Room - inflight => m_writeBuffer' = << >>
  BY <1>1, <1>2, <1>3, SubSeqEmpty
<1> QED
  BY <1>1, <1>2, <1>4, <1>5, <1>6

LEMMA MessageLemma ==
  ASSUME messages \in Nat
  PROVE  Message \in Seq(1 .. messages + 1)
         /\ \A j \in 1..Len(Message) : Message[j] = messages + 1
BY DEF Message

LEMMA NextBacklog == Backlog /\ [Next]_vars => Backlog'
<1> SUFFICES ASSUME Backlog, [Next]_vars PROVE Backlog'
  OBVIOUS
<1>1. /\ m_writeBuffer \in Seq(1..messages) /\ m_writeEvent \in BOOLEAN
      /\ inflight \in 0..Room /\ messages \in Nat
  BY DEF Backlog, WriteTypes
<1>2. ASSUME UNCHANGED writeVars PROVE Backlog'
  BY <1>2 DEF Backlog, WriteTypes, BacklogIsWritten, writeVars
<1>3. ASSUME m_writeBuffer' = << >>, m_writeEvent' = FALSE, inflight' = 0,
             messages' = messages
      PROVE  Backlog'
  <2>1. m_writeBuffer' \in Seq(1..messages')
    BY <1>3, EmptySeq
  <2>2. inflight' \in 0..Room
    BY <1>3
  <2>3. BacklogIsWritten'
    BY <1>3 DEF BacklogIsWritten
  <2> QED
    BY <1>1, <1>3, <2>1, <2>2, <2>3 DEF Backlog, WriteTypes
<1>4. CASE SendAtOnce
  <2>1. SocketTakes(Message) /\ messages' = messages + 1
        /\ m_writeEvent' = m_writeEvent
    BY <1>4 DEF SendAtOnce
  <2>2. m_writeBuffer' \in Seq(1 .. messages + 1) /\ inflight' \in 0..Room
        /\ \A j \in DOMAIN m_writeBuffer' : m_writeBuffer'[j] = messages + 1
    BY <1>1, <2>1, SocketLemma, MessageLemma
  <2> QED
    BY <1>1, <2>1, <2>2 DEF Backlog, WriteTypes, BacklogIsWritten
<1>5. CASE SendFails
  <2>1. m_writeBuffer' = Message /\ messages' = messages + 1
        /\ UNCHANGED <<m_writeEvent, inflight>>
    BY <1>5 DEF SendFails
  <2>2. \A j \in DOMAIN Message : Message[j] = messages + 1
    BY DEF Message
  <2> QED
    BY <1>1, <2>1, <2>2, MessageLemma DEF Backlog, WriteTypes, BacklogIsWritten
<1>6. CASE SendLater
  <2>1. m_writeBuffer' = m_writeBuffer \o Message /\ messages' = messages + 1
        /\ m_writeEvent' = TRUE /\ inflight' = inflight
    BY <1>6 DEF SendLater
  <2>2. m_writeBuffer \in Seq(1 .. messages + 1)
    <3>1. 1..messages \subseteq 1 .. messages + 1
      BY <1>1
    <3> QED
      BY <1>1, <3>1, SeqMonotonic
  <2>3. m_writeBuffer' \in Seq(1 .. messages + 1)
    BY <1>1, <2>1, <2>2, MessageLemma, ConcatProperties
  <2>4. BacklogIsWritten'
    BY <2>1 DEF BacklogIsWritten
  <2> QED
    BY <1>1, <2>1, <2>3, <2>4 DEF Backlog, WriteTypes
<1>7. CASE OnWrite
  <2>1. SocketTakes(m_writeBuffer) /\ messages' = messages
        /\ m_writeEvent' = (Len(m_writeBuffer) > Room - inflight)
    BY <1>7 DEF OnWrite
  <2>2. m_writeBuffer' \in Seq(1..messages) /\ inflight' \in 0..Room
        /\ (Len(m_writeBuffer) <= Room - inflight => m_writeBuffer' = << >>)
    BY <1>1, <2>1, SocketLemma
  <2>3. m_writeEvent' \/ m_writeBuffer' = << >>
    <3>1. CASE Len(m_writeBuffer) > Room - inflight
      BY <2>1, <3>1
    <3>2. CASE ~(Len(m_writeBuffer) > Room - inflight)
      <4>1. Len(m_writeBuffer) \in Nat
        BY <1>1
      <4>2. Len(m_writeBuffer) <= Room - inflight
        BY <1>1, <3>2, <4>1
      <4> QED
        BY <2>2, <4>2
    <3> QED
      BY <3>1, <3>2
  <2>4. BacklogIsWritten'
    BY <2>3 DEF BacklogIsWritten
  <2>5. m_writeEvent' \in BOOLEAN
    BY <2>1
  <2> QED
    BY <1>1, <2>1, <2>2, <2>4, <2>5 DEF Backlog, WriteTypes
<1>8. CASE OnWriteFails \/ OnReadEnd \/ OnReadReset
  BY <1>3, <1>8 DEF OnWriteFails, OnReadEnd, OnReadReset, OnDisconnect
<1>9. CASE PeerReads
  <2>1. UNCHANGED <<m_writeBuffer, m_writeEvent, messages>>
        /\ inflight' = inflight - 1 /\ inflight > 0
    BY <1>9 DEF PeerReads
  <2>2. inflight' \in 0..Room
    BY <1>1, <2>1
  <2> QED
    BY <1>1, <2>1, <2>2 DEF Backlog, WriteTypes, BacklogIsWritten
<1>10. CASE OnConnection \/ OnConnectionFails \/ SendUnconnected \/ OnRead \/ OnData
  BY <1>2, <1>10 DEF OnConnection, OnConnectionFails, SendUnconnected, OnRead, OnData
<1>11. ASSUME NEW id \in 1..MaxTimers, OnTimer(id) PROVE Backlog'
  BY <1>2, <1>11 DEF OnTimer
<1>12. CASE PeerSends \/ PeerBreaks \/ OtherCalls
  BY <1>2, <1>12 DEF PeerSends, PeerBreaks, OtherCalls
<1>13. CASE UNCHANGED vars
  BY <1>2, <1>13 DEF vars
<1> QED
  BY <1>4, <1>5, <1>6, <1>7, <1>8, <1>9, <1>10, <1>11, <1>12, <1>13 DEF Next

-----------------------------------------------------------------------------
LEMMA InitIInv == Init => FrameInv /\ Way /\ Backlog
<1> SUFFICES ASSUME Init PROVE FrameInv /\ Way /\ Backlog
  OBVIOUS
<1>1. m_writeBuffer \in Seq(1..messages)
  BY EmptySeq DEF Init
<1>2. m_writeBuffer = << >> /\ m_writeEvent = FALSE /\ inflight = 0 /\ messages = 0
  BY DEF Init
<1>3. 0 \in 0..Room
  OBVIOUS
<1>4. Backlog
  <2>1. BacklogIsWritten
    BY <1>2 DEF BacklogIsWritten
  <2>2. inflight \in 0..Room /\ messages \in Nat
    BY <1>2, <1>3
  <2>3. m_writeEvent \in BOOLEAN
    BY DEF Init
  <2> QED
    BY <1>1, <2>1, <2>2, <2>3 DEF Backlog, WriteTypes
<1>5. FrameInit
  BY DEF Init
<1> QED
  BY <1>4, <1>5, InitWay, InitFrameInv

(* The invariant of the client is inductive.                               *)
LEMMA Inductive == Spec => [](FrameInv /\ Way /\ Backlog)
BY InitIInv, NextIsFrameStep, NextFrameInv, NextWay, NextBacklog, PTL DEF Spec

(* The types, for every number of bytes, messages and reconnections.       *)
THEOREM TypeCorrect == Spec => []TypeOK
<1>1. FrameInv /\ Way /\ Backlog => TypeOK
  BY SplitTypes DEF FrameInv, Way, Backlog
<1> QED
  BY <1>1, Inductive, PTL

(* The client connects, is connected, or has a timer that will connect:    *)
(* whichever timers can be cancelled (TcpClient.h:59-79, 117-144).         *)
THEOREM AlwaysOneWay == Spec => []OneWayBack
<1>1. Way => OneWayBack
  BY DEF Way
<1> QED
  BY <1>1, Inductive, PTL

(* What waits without a write event is the rest of the last message        *)
(* (connbaseimp.cpp:444-460, 507-529).                                     *)
THEOREM OneMessageWaits == Spec => []BacklogIsWritten
<1>1. Backlog => BacklogIsWritten
  BY DEF Backlog
<1> QED
  BY <1>1, Inductive, PTL

(* Frames come whole, in order and once, however reads cut the stream      *)
(* (TcpClient.h:94-110, session.cpp:38-54).                                *)
THEOREM WholeFrames == Spec => FramesAreWhole
<1>1. FrameInv /\ [Next]_vars => [FrameStep]_frameVars
  BY NextIsFrameStep, StepIsWhole
<1> QED
  BY <1>1, Inductive, PTL DEF Spec, FramesAreWhole, FrameStep
=============================================================================
