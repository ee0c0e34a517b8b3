----------------------------- MODULE ModbusRtu -----------------------------
(***************************************************************************)
(* The client of the adapted libmodbus on a serial line (modbus.c,         *)
(* modbus-rtu.c), as the RTU proxies of several machines use it: one       *)
(* context per slave, all on the same device, calls that block, error      *)
(* recovery LINK | PROTOCOL.  The slaves answer as modbus_reply does,      *)
(* which may be late, cut in two, spoilt or not at all; the adapter may be *)
(* unplugged.                                                              *)
(*                                                                         *)
(* A reply is the fields the client tells replies by, and its length.  The *)
(* bytes that wait on the line are pieces of replies; bytes that do not    *)
(* begin with a reply have no valid checksum, and what the client makes of *)
(* their lengths is open.                                                  *)
(***************************************************************************)
EXTENDS Integers, Sequences

CONSTANTS
  Slaves,
  Kinds,          \* the functions that are called
  Counts,         \* the numbers of values they are called with
  MaxPieces       \* bound on the pieces under way before a call is made

Bits == {"READ_COILS", "READ_DISCRETE_INPUTS"}
Registers == {"READ_HOLDING_REGISTERS", "READ_INPUT_REGISTERS",
              "WRITE_AND_READ_REGISTERS"}
MultipleWrites == {"WRITE_MULTIPLE_COILS", "WRITE_MULTIPLE_REGISTERS"}
SingleWrites == {"WRITE_SINGLE_COIL", "WRITE_SINGLE_REGISTER"}
Counted == Bits \cup Registers \cup MultipleWrites
Functions == Counted \cup SingleWrites \cup
  {"READ_EXCEPTION_STATUS", "REPORT_SLAVE_ID", "MASK_WRITE_REGISTER"}

ASSUME KindsAssumption == Kinds \subseteq Functions
ASSUME CountsAssumption == Counts \subseteq Nat /\ MaxPieces \in Nat

VARIABLES
  s,          \* the file of each context: "closed", "open", or "dead" when
              \* the adapter was unplugged while it was open
  plugged,
  phase, call,     \* where the call is, and its request
  line,       \* pieces that wait in the input queue of the device
  air,        \* pieces the slaves will still send
  outcome,    \* how the call ended, "none" while it has not
  mine,       \* the reply it accepted is the reply to its own request
  failed,     \* when it began, an earlier call had failed, and pieces of
              \* replies were still under way or waiting
  noise       \* the line was disturbed

rtuVars == <<s, plugged, phase, call, line, air, outcome, mine, failed, noise>>

-----------------------------------------------------------------------------
(* Lengths.                                                                *)
HeaderLength == 1
ChecksumLength == 2
MaxAduLength == 256
ReportedBytes == 10         \* the slave's identity, and "LMB3.1.4"

Bytes(f, nb) == IF f \in Bits THEN (nb + 7) \div 8 ELSE 2 * nb

(* Mutant of MaxValues: the limit is what a byte count can say.            *)
MaxValues_Mut(f) ==
  CASE f \in Bits -> 2000
    [] f \in Registers -> 127
    [] f = "WRITE_MULTIPLE_COILS" -> 1968
    [] OTHER -> 123

MaxValues(f) ==
  CASE f \in Bits -> 2000
    [] f \in Registers -> 125
    [] f = "WRITE_MULTIPLE_COILS" -> 1968
    [] OTHER -> 123

(* compute_response_length_from_request; -1 is MSG_LENGTH_UNDEFINED.       *)
(* Mutant of ResponseLength: a masked write is taken for a single write.   *)
ResponseLength_Mut(f, nb) ==
  IF f = "REPORT_SLAVE_ID" THEN -1
  ELSE HeaderLength + ChecksumLength +
       CASE f \in Bits \cup Registers -> 2 + Bytes(f, nb)
         [] f = "READ_EXCEPTION_STATUS" -> 3
         [] OTHER -> 5

ResponseLength(f, nb) ==
  IF f = "REPORT_SLAVE_ID" THEN -1
  ELSE HeaderLength + ChecksumLength +
       CASE f \in Bits \cup Registers -> 2 + Bytes(f, nb)
         [] f = "READ_EXCEPTION_STATUS" -> 3
         [] f = "MASK_WRITE_REGISTER" -> 7
         [] OTHER -> 5

(* Mutant of MetaLength: an exception is read like a reply.                *)
MetaLength_Mut(r) ==
  CASE r.function \in SingleWrites \cup MultipleWrites -> 4
    [] r.function = "MASK_WRITE_REGISTER" -> 6
    [] OTHER -> 1

(* What the receiver reads behind the function code of a confirmation.     *)
MetaLength(r) ==
  CASE ~r.exception /\ r.function \in SingleWrites \cup MultipleWrites -> 4
    [] ~r.exception /\ r.function = "MASK_WRITE_REGISTER" -> 6
    [] OTHER -> 1

DataLength(r) ==
  ChecksumLength +
  IF /\ ~r.exception
     /\ r.function \in Bits \cup Registers \cup {"REPORT_SLAVE_ID"}
  THEN r.count ELSE 0

ReceivedLength(r) == HeaderLength + 1 + MetaLength(r) + DataLength(r)

-----------------------------------------------------------------------------
(* The slaves.                                                             *)

(* The byte count or number of values in a reply.                          *)
Count(f, nb) ==
  CASE f \in Bits \cup Registers -> Bytes(f, nb)
    [] f \in MultipleWrites -> nb
    [] f = "REPORT_SLAVE_ID" -> ReportedBytes
    [] OTHER -> 0

ReplyTo(c) ==
  [slave |-> c.slave, function |-> c.function, exception |-> FALSE,
   count |-> Count(c.function, c.nb), own |-> TRUE,
   length |-> HeaderLength + 1 + ChecksumLength +
     CASE c.function \in Bits \cup Registers \cup {"REPORT_SLAVE_ID"}
            -> 1 + Count(c.function, c.nb)
       [] c.function = "MASK_WRITE_REGISTER" -> 6
       [] OTHER -> 4]

ExceptionTo(c) ==
  [slave |-> c.slave, function |-> c.function, exception |-> TRUE,
   count |-> 0, own |-> TRUE, length |-> HeaderLength + 2 + ChecksumLength]

(* What modbus_reply sends: an exception where the number of values is not *)
(* between 1 and its limit, or the addresses are none of the slave's.      *)
Replies(c) ==
  CASE c.function = "READ_EXCEPTION_STATUS" -> {}
    [] c.function = "REPORT_SLAVE_ID" -> {ReplyTo(c)}
    [] c.function \in Counted /\ c.nb \notin 1..MaxValues(c.function)
         -> {ExceptionTo(c)}
    [] OTHER -> {ReplyTo(c), ExceptionTo(c)}

Requests ==
  [slave: Slaves, function: Kinds \cap Counted, nb: Counts]
    \cup [slave: Slaves, function: Kinds \ Counted, nb: {1}]

Frames == UNION {Replies(c) : c \in Requests}
Stale(r) == [r EXCEPT !.own = FALSE]
Rest == [part |-> "rest"]       \* of the reply whose first part is before it
Noise == [part |-> "noise"]
Pieces ==
  [part: {"whole", "first"}, reply: Frames \cup {Stale(r) : r \in Frames}]
    \cup {Rest, Noise}

Whole(r) == [part |-> "whole", reply |-> r]

(* The line at the beginning of a confirmation: a reply that is read to    *)
(* its last byte, or the first part of one.                                *)
BeginsWithReply(q) ==
  /\ q # <<>> /\ q[1].part \in {"whole", "first"}
  /\ q[1].part = "first" => Len(q) > 1 /\ q[2] = Rest
  /\ ReceivedLength(q[1].reply) = q[1].reply.length

AfterReply(q) == IF q[1].part = "whole" THEN Tail(q) ELSE Tail(Tail(q))

WaitsForRest(q) == Len(q) = 1 /\ q[1].part = "first"

(* Some bytes of the first piece are gone.                                 *)
CutFront(q) == IF q = <<>> THEN q ELSE <<Noise>> \o Tail(q)

Aged(q) ==
  [i \in DOMAIN q |->
     IF q[i] \in {Rest, Noise} THEN q[i] ELSE [q[i] EXCEPT !.reply = Stale(@)]]

Mismatches == {"bad slave", "bad crc", "bad data", "bad exception",
               "too many data"}
CallOutcomes == Mismatches \cup
  {"none", "ok", "exception", "refused", "unsent", "timeout", "reset"}

(* A reply fits the receiver's buffer, and a byte count a byte.            *)
FitsAdu(r) ==
  /\ r.length <= MaxAduLength
  /\ r.function \in Bits \cup Registers => r.count < 256

RtuTypeOK ==
  /\ s \in [Slaves -> {"closed", "open", "dead"}] /\ plugged \in BOOLEAN
  /\ phase \in {"idle", "sending", "receiving", "recovering"}
  /\ call \in Requests
  /\ line \in Seq(Pieces) /\ air \in Seq(Pieces \ {Noise})
  /\ \A i \in DOMAIN air : air[i] # Rest => FitsAdu(air[i].reply)
  /\ outcome \in CallOutcomes
  /\ mine \in BOOLEAN /\ failed \in BOOLEAN /\ noise \in BOOLEAN

RtuInit ==
  /\ s = [c \in Slaves |-> "closed"] /\ plugged \in BOOLEAN
  /\ phase = "idle" /\ call \in Requests
  /\ line = <<>> /\ air = <<>>
  /\ outcome = "ok" /\ mine = TRUE
  /\ failed = FALSE /\ noise = FALSE

-----------------------------------------------------------------------------
(* The line.                                                               *)

Arrive ==
  /\ air # <<>>
  /\ line' = Append(line, Head(air)) /\ air' = Tail(air)
  /\ UNCHANGED <<s, plugged, phase, call, outcome, mine, failed, noise>>

(* A reply comes in two parts.                                             *)
ArrivePart ==
  /\ air # <<>> /\ Head(air).part = "whole"
  /\ line' = Append(line, [Head(air) EXCEPT !.part = "first"])
  /\ air' = <<Rest>> \o Tail(air)
  /\ UNCHANGED <<s, plugged, phase, call, outcome, mine, failed, noise>>

(* Bytes nobody sent, or a spoilt piece.                                   *)
Disturb ==
  /\ plugged /\ ~noise
  /\ Len(line) + Len(air) <= MaxPieces
  /\ noise' = TRUE
  /\ line' = Append(line, Noise)
  /\ air' = air \/ (air # <<>> /\ air' = Tail(air))
  /\ UNCHANGED <<s, plugged, phase, call, outcome, mine, failed>>

(* Writes to a file of an unplugged adapter fail with EIO ever after, and  *)
(* reads return 0.                                                         *)
Unplug ==
  /\ plugged
  /\ plugged' = FALSE
  /\ s' = [c \in Slaves |-> IF s[c] = "open" THEN "dead" ELSE s[c]]
  /\ line' = <<>> /\ air' = <<>>
  /\ UNCHANGED <<phase, call, outcome, mine, failed, noise>>

Plug ==
  /\ ~plugged
  /\ plugged' = TRUE
  /\ UNCHANGED <<s, phase, call, line, air, outcome, mine, failed, noise>>

-----------------------------------------------------------------------------
(* Calls.                                                                  *)
EndCall(result, rest) ==
  /\ phase' = "idle"
  /\ outcome' = result
  /\ line' = Aged(rest) /\ air' = Aged(air)
  /\ UNCHANGED <<plugged, call, failed, noise>>

(* After _sleep_response_timeout the line is flushed.                      *)
Recover(result) ==
  /\ phase' = "recovering"
  /\ outcome' = result
  /\ line' = <<>>
  /\ UNCHANGED <<s, plugged, call, air, mine, failed, noise>>

(* Reopening the device, which succeeds where the adapter is there.        *)
Reopen ==
  s' = [s EXCEPT ![call.slave] = IF plugged THEN "open" ELSE "closed"]

(* A call begins, or is refused for its number of values.                  *)
Call(c) ==
  /\ phase = "idle"
  /\ Len(line) + Len(air) <= MaxPieces
  /\ call' = c
  /\ failed' = /\ line # <<>> \/ air # <<>>
               /\ failed \/ outcome \notin {"ok", "exception", "refused"}
  /\ noise' = (noise /\ line # <<>>)
  /\ IF c.function \in Counted /\ c.nb > MaxValues(c.function)
     THEN phase' = "idle" /\ outcome' = "refused"
     ELSE phase' = "sending" /\ outcome' = "none"
  /\ mine' = TRUE
  /\ UNCHANGED <<s, plugged, line, air>>

CanSend == phase = "sending" /\ s[call.slave] = "open" /\ plugged

(* Mutant of Send: a request that was written is written again.            *)
Send_Mut ==
  /\ CanSend
  /\ phase' = "receiving"
  /\ air' = air \/ \E r \in Replies(call) : air' = air \o <<Whole(r), Whole(r)>>
  /\ UNCHANGED <<s, plugged, call, line, outcome, mine, failed, noise>>

(* The request is written; the slave replies, or keeps silent.             *)
Send ==
  /\ CanSend
  /\ phase' = "receiving"
  /\ air' = air \/ \E r \in Replies(call) : air' = Append(air, Whole(r))
  /\ UNCHANGED <<s, plugged, call, line, outcome, mine, failed, noise>>

(* A part of the request is written.                                       *)
SendPart ==
  /\ CanSend
  /\ EndCall("unsent", line)
  /\ UNCHANGED <<s, mine>>

(* The write fails on an open file: sleep, flush, and again.  On a dead    *)
(* file it does so for ever: EIO is not among the errors that reopen it.   *)
SendRetried ==
  /\ CanSend
  /\ line' = <<>>
  /\ UNCHANGED <<s, plugged, phase, call, air, outcome, mine, failed, noise>>

(* Mutant of SendReopens: the recovery waits for modbus_connect.           *)
SendReopens_Mut == FALSE

(* EBADF: close, sleep, connect, and again.                                *)
SendReopens ==
  /\ phase = "sending" /\ s[call.slave] = "closed"
  /\ Reopen
  /\ UNCHANGED <<plugged, phase, call, line, air, outcome, mine, failed, noise>>

Receiving == phase = "receiving" /\ s[call.slave] = "open"

(* What check_confirmation says of a sound message of the line.            *)
SameValues(r) ==
  CASE r.function \in Bits -> r.count = Bytes(call.function, call.nb)
    [] r.function \in Registers -> r.count \div 2 = call.nb
    [] r.function \in MultipleWrites -> r.count = call.nb
    [] OTHER -> TRUE

Verdict(r) ==
  LET expected == ResponseLength(call.function, call.nb)
  IN CASE r.slave # call.slave -> "bad slave"
       [] r.slave = call.slave /\ r.exception ->
            IF r.function = call.function THEN "exception" ELSE "bad exception"
       [] OTHER ->
            IF /\ r.length = expected \/ expected = -1
               /\ r.function = call.function /\ SameValues(r)
            THEN "ok" ELSE "bad data"

ReceiveReply ==
  /\ Receiving
  /\ BeginsWithReply(line)
  /\ LET r == line[1].reply
         v == Verdict(r)
     IN \/ /\ v \in {"bad slave", "bad data"}
           /\ Recover(v)
        \/ /\ v \notin {"bad slave", "bad data"}
           /\ EndCall(v, AfterReply(line))
           /\ mine' = r.own
           /\ UNCHANGED s

(* Bytes that are no reply.  A wrong checksum flushes the line at once;    *)
(* too large a length leaves what was not yet read.                        *)
ReceiveGarbage ==
  /\ Receiving
  /\ line # <<>> /\ ~BeginsWithReply(line) /\ ~WaitsForRest(line)
  /\ \/ EndCall("bad crc", <<>>) /\ UNCHANGED <<s, mine>>
     \/ Recover("bad slave")
     \/ /\ \E rest \in {CutFront(line), Tail(line), CutFront(Tail(line))} :
             EndCall("too many data", rest)
        /\ UNCHANGED <<s, mine>>

(* select times out, with what was read so far given up.                   *)
ReceiveTimeout ==
  /\ Receiving
  /\ ~BeginsWithReply(line)
  /\ Recover("timeout")

(* read returns 0.                                                         *)
ReceiveHangup ==
  /\ phase = "receiving" /\ s[call.slave] = "dead"
  /\ Reopen
  /\ EndCall("reset", line)
  /\ UNCHANGED mine

Flush ==
  /\ phase = "recovering"
  /\ EndCall(outcome, <<>>)
  /\ UNCHANGED <<s, mine>>

Steps ==
  \/ Send \/ SendPart \/ SendRetried \/ SendReopens
  \/ ReceiveReply \/ ReceiveGarbage \/ ReceiveTimeout \/ ReceiveHangup
  \/ Flush

RtuNext ==
  \/ Arrive \/ ArrivePart \/ Disturb \/ Unplug \/ Plug
  \/ \E c \in Requests : Call(c)
  \/ Steps

RtuSpec == RtuInit /\ [][RtuNext]_rtuVars

(* The calls run; a write succeeds unless the device goes; the adapter is  *)
(* plugged in again, and long enough for the device to be opened.          *)
RtuFairSpec ==
  /\ RtuSpec
  /\ WF_rtuVars(Steps) /\ WF_rtuVars(Send) /\ WF_rtuVars(Plug)
  /\ SF_rtuVars(SendReopens /\ plugged)

-----------------------------------------------------------------------------
(* Every reply modbus_reply builds is read to its end and accepted by the  *)
(* client that made the request, for every function and number of values:  *)
(* no call ends with a mismatch unless the line was disturbed, or bytes    *)
(* are left from a call that failed (modbus.c:129-163, 252-324, 511-640).  *)
NoFalseAlarm == outcome \in Mismatches => failed \/ noise

(* There is no transaction number on the line.  A read or write takes the  *)
(* reply to another request, or an exception to it, only where a call has  *)
(* failed before and its reply was still to come: a call that succeeds     *)
(* leaves nothing for the next to read (modbus.c:340-480, 1141-1184).      *)
AnswersBelong == outcome \in {"ok", "exception"} /\ ~failed => mine

(* A call, which blocks the whole hub, ends: with or without an answer,    *)
(* and whether or not the device was open when it began, though nobody     *)
(* calls modbus_connect.  The exception is a file whose adapter was        *)
(* unplugged, to which the request is written for ever                     *)
(* (modbus.c:166-208, 340-480).                                            *)
CallEnds ==
  phase # "idle" ~> phase = "idle" \/ s[call.slave] = "dead"

-----------------------------------------------------------------------------
(* How the call looks to the one who made it: the result of a call that    *)
(* recovers is not known yet.                                              *)
Result ==
  CASE phase = "recovering" -> "none"
    [] phase # "recovering" /\ outcome \in Mismatches -> "mismatch"
    [] phase # "recovering" /\ outcome \in {"unsent", "timeout", "reset"} ->
         "failed"
    [] OTHER -> outcome

Caller == INSTANCE BlockingCall
  WITH calling <- phase # "idle", request <- call, result <- Result,
       own <- mine, trusted <- ~failed, disturbed <- noise

(* A call keeps what BlockingCall promises, with everything late, cut,     *)
(* spoilt or lost on the way: it ends once, with its own answer if it ends *)
(* with one, and only a failure can harm the calls after it                *)
(* (modbus.c:166-208, 340-480, 511-640, 1141-1184).                        *)
ImplementsBlockingCall == Caller!Spec
=============================================================================
