--------------------------- MODULE FrameSplitter ---------------------------
(***************************************************************************)
(* How TcpClient::OnData (Communication/TcpClient.h; Session::OnData is    *)
(* the same loop) cuts the bytes of a connection into frames at the zero   *)
(* bytes.  recv returns pieces of any size, and the loop looks at one byte *)
(* after the other.                                                        *)
(*                                                                         *)
(* A byte is its position among all the peer has sent; nuls are the        *)
(* positions of the zero bytes.                                            *)
(***************************************************************************)
EXTENDS Naturals, Sequences

CONSTANT MaxBytes   \* bound on the bytes sent, on all connections together

ASSUME BytesAssumption == MaxBytes \in Nat

VARIABLES
  sent,        \* bytes sent by the peer
  nuls,        \* those of them that are zero
  base,        \* bytes sent before this connection
  start, end,  \* the read in progress holds start + 1 .. end
  at,          \* the last byte looked at: the loop's i is at - start
  pos,         \* the loop's pos
  m_rdBuffer,
  handed,      \* frames handed to m_frameRecver on this connection
  lastFrame,   \* the last of them
  cut          \* a frame of one byte was sent, or the connection began with
               \* bytes of an earlier one in m_rdBuffer

frameVars == <<sent, nuls, base, start, end, at, pos, m_rdBuffer, handed,
               lastFrame, cut>>

FrameTypeOK ==
  /\ sent \in Nat
  /\ nuls \in SUBSET (1..sent)
  /\ base \in 0..sent
  /\ start \in base..sent /\ end \in start..sent /\ at \in start..end
  /\ pos \in Nat
  /\ m_rdBuffer \in Seq(1..sent)
  /\ handed \in Nat
  /\ lastFrame \in Seq(1..sent)
  /\ cut \in BOOLEAN

FrameInit ==
  /\ sent = 0 /\ nuls = {} /\ base = 0
  /\ start = 0 /\ end = 0 /\ at = 0 /\ pos = 0
  /\ m_rdBuffer = << >> /\ handed = 0 /\ lastFrame = << >> /\ cut = FALSE

Reading == at < end

(* The bytes of this connection up to "to" that follow a zero byte or the  *)
(* beginning, with no zero byte among them.                                *)
IsRun(bytes, to) ==
  \E s \in base..to :
    /\ s = base \/ s \in nuls
    /\ \A p \in s + 1 .. to : p \notin nuls
    /\ bytes = [j \in 1 .. to - s |-> s + j]

(* The peer sends a byte of a frame, or the zero byte that ends it.        *)
PeerSendsByte ==
  /\ sent < MaxBytes
  /\ sent' = sent + 1
  /\ UNCHANGED <<nuls, base, start, end, at, pos, m_rdBuffer, handed,
                 lastFrame, cut>>

OneByteFrame ==
  /\ sent > base
  /\ sent \notin nuls
  /\ sent - 1 = base \/ sent - 1 \in nuls

PeerEndsFrame ==
  /\ sent < MaxBytes
  /\ sent' = sent + 1
  /\ nuls' = nuls \cup {sent + 1}
  /\ cut' = (cut \/ OneByteFrame)
  /\ UNCHANGED <<base, start, end, at, pos, m_rdBuffer, handed, lastFrame>>

(* recv returns a piece of what has arrived.                               *)
BeginRead ==
  /\ ~Reading
  /\ end < sent
  /\ start' = end /\ at' = end /\ pos' = 0
  /\ end' \in end + 1 .. sent
  /\ UNCHANGED <<sent, nuls, base, m_rdBuffer, handed, lastFrame, cut>>

KeepByte ==
  /\ Reading
  /\ at + 1 \notin nuls
  /\ at' = at + 1
  /\ m_rdBuffer' = Append(m_rdBuffer, at + 1)
  /\ UNCHANGED <<sent, nuls, base, start, end, pos, handed, lastFrame, cut>>

(* Mutant of ZeroByte: an empty frame counts too.                          *)
ZeroByte_Mut ==
  /\ Reading
  /\ at + 1 \in nuls
  /\ at' = at + 1
  /\ pos' = at - start
  /\ IF at - start - pos + Len(m_rdBuffer) > 0
     THEN /\ handed' = handed + 1
          /\ lastFrame' = m_rdBuffer
          /\ m_rdBuffer' = << >>
     ELSE UNCHANGED <<handed, lastFrame, m_rdBuffer>>
  /\ UNCHANGED <<sent, nuls, base, start, end, cut>>

(* A zero byte at i: what is in m_rdBuffer is a frame if len is more than  *)
(* 1, where len counts the bytes kept since the last zero byte of this     *)
(* read once in i - pos and once in the size of m_rdBuffer.                *)
ZeroByte ==
  /\ Reading
  /\ at + 1 \in nuls
  /\ at' = at + 1
  /\ pos' = at - start
  /\ IF at - start - pos + Len(m_rdBuffer) > 1
     THEN /\ handed' = handed + 1
          /\ lastFrame' = m_rdBuffer
          /\ m_rdBuffer' = << >>
     ELSE UNCHANGED <<handed, lastFrame, m_rdBuffer>>
  /\ UNCHANGED <<sent, nuls, base, start, end, cut>>

(* A new connection: what the old one left unread is gone, what it left in *)
(* m_rdBuffer is not.                                                      *)
NewStream ==
  /\ ~Reading
  /\ base' = sent /\ start' = sent /\ end' = sent /\ at' = sent
  /\ pos' = 0 /\ handed' = 0 /\ lastFrame' = << >>
  /\ cut' = (m_rdBuffer # << >>)
  /\ UNCHANGED <<sent, nuls, m_rdBuffer>>

FrameNext ==
  \/ PeerSendsByte \/ PeerEndsFrame \/ BeginRead \/ KeepByte \/ ZeroByte
  \/ NewStream

FrameSpec == FrameInit /\ [][FrameNext]_frameVars

-----------------------------------------------------------------------------
(* However reads cut the stream, looking at the zero byte that ends a      *)
(* frame hands over exactly that frame, and no other step hands over       *)
(* anything: no frame is lost, joined, cut or handed over twice, and none  *)
(* is empty.  Frames of one byte, and a connection that begins with a      *)
(* piece of a frame of the last one, are left out (TcpClient.h:94-110,     *)
(* session.cpp:38-54).                                                     *)
FramesAreWhole ==
  [][~cut /\ base' = base =>
       IF at' = at + 1 /\ at' \in nuls /\ at > base /\ at \notin nuls
       THEN handed' = handed + 1 /\ IsRun(lastFrame', at)
       ELSE handed' = handed]_frameVars
=============================================================================
