---------------------------- MODULE StationProofs ----------------------------
(***************************************************************************)
(* What holds of a station: of the Modbus line its proxies call over, and  *)
(* of the events of its machine.                                           *)
(*                                                                         *)
(* Of the line, for any slaves, functions and numbers of values: a call    *)
(* takes the reply to its own request, and refuses no sound one.  Of the   *)
(* machine, for any number of events of any kind, any number of sequence   *)
(* numbers and any number of restarts: no event is reported twice in one   *)
(* run of the hub, and no acknowledgement is taken for one of an event     *)
(* that was not dealt with.                                                *)
(*                                                                         *)
(* The two specifications share no variable; each theorem is about one.    *)
(***************************************************************************)
EXTENDS MachineEvents, ModbusRtu, SequenceTheorems, TLAPS

-----------------------------------------------------------------------------
(* The lengths of replies.                                                 *)

(* The number of bytes of a value a slave accepts fits a byte.             *)
LEMMA BytesFit ==
  ASSUME NEW f \in Bits \cup Registers, NEW nb \in 1..MaxValues(f)
  PROVE  Bytes(f, nb) \in 1..250
<1>1. CASE f \in Bits
  <2>1. MaxValues(f) = 2000
    BY <1>1 DEF MaxValues, Bits, Registers
  <2> QED
    BY <1>1, <2>1 DEF Bytes
<1>2. CASE f \in Registers
  <2>1. f \notin Bits
    BY <1>2 DEF Bits, Registers
  <2>2. MaxValues(f) = 125
    BY <1>2, <2>1 DEF MaxValues, Registers
  <2> QED
    BY <2>1, <2>2 DEF Bytes
<1> QED
  BY <1>1, <1>2

(* A request names a function libmodbus has.                               *)
LEMMA RequestTyped ==
  ASSUME NEW c \in Requests
  PROVE  /\ c.function \in Functions
         /\ c.nb \in Nat
<1>1. c.function \in Kinds /\ (c.nb \in Counts \/ c.nb = 1)
  BY DEF Requests
<1>2. Kinds \subseteq Functions /\ \A n \in Counts : n \in Nat
  BY KindsAssumption, CountsAssumption DEF KindsAssumption, CountsAssumption
<1>3. c.function \in Functions
  BY <1>1, <1>2
<1>4. c.nb \in Nat
  <2>1. CASE c.nb = 1
    BY <2>1
  <2>2. CASE c.nb \in Counts
    BY <2>2, <1>2
  <2> QED
    BY <1>1, <2>1, <2>2
<1> QED
  BY <1>3, <1>4

(* A reply other than an exception is to a request whose number of values  *)
(* is within its limit.                                                    *)
LEMMA ReplyIsEither ==
  ASSUME NEW c \in Requests, NEW r \in Replies(c)
  PROVE  \/ r = ExceptionTo(c)
         \/ /\ r = ReplyTo(c)
            /\ c.function # "READ_EXCEPTION_STATUS"
            /\ c.function \in Counted => c.nb \in 1..MaxValues(c.function)
<1>1. "REPORT_SLAVE_ID" \notin Counted
  BY DEF Counted, Bits, Registers, MultipleWrites
<1> QED
  BY <1>1 DEF Replies

(* Every reply fits the receiver's buffer and is read to its last byte,    *)
(* and its own fields say what the client's request says.                  *)
THEOREM ReplyFits ==
  ASSUME NEW c \in Requests, NEW r \in Replies(c)
  PROVE  FitsAdu(r) /\ ReceivedLength(r) = r.length
<1> DEFINE f == c.function
<1>1. CASE r = ExceptionTo(c)
  BY <1>1 DEF ExceptionTo, FitsAdu, ReceivedLength, MetaLength, DataLength,
              HeaderLength, ChecksumLength, MaxAduLength
<1>2. CASE r = ReplyTo(c) /\ f \in Bits \cup Registers
           /\ c.nb \in 1..MaxValues(f)
  <2>1. Bytes(f, c.nb) \in 1..250
    BY <1>2, BytesFit
  <2>2. Count(f, c.nb) = Bytes(f, c.nb)
    BY <1>2 DEF Count, Bits, Registers, MultipleWrites
  <2>3. /\ r.function = f /\ r.exception = FALSE
        /\ r.count = Count(f, c.nb)
        /\ r.length = 1 + 1 + 2 + (1 + Count(f, c.nb))
    BY <1>2 DEF ReplyTo, HeaderLength, ChecksumLength, Bits, Registers
  <2>4. MetaLength(r) = 1
    BY <1>2, <2>3
    DEF MetaLength, Bits, Registers, SingleWrites, MultipleWrites
  <2> QED
    BY <1>2, <2>1, <2>2, <2>3, <2>4
    DEF FitsAdu, ReceivedLength, DataLength, HeaderLength, ChecksumLength,
        MaxAduLength
<1>3. CASE r = ReplyTo(c) /\ f \notin Bits \cup Registers
           /\ f # "READ_EXCEPTION_STATUS"
  <2>1. f \in MultipleWrites \cup SingleWrites \cup
              {"REPORT_SLAVE_ID", "MASK_WRITE_REGISTER"}
    BY <1>3, RequestTyped
    DEF Functions, Counted, Bits, Registers, MultipleWrites, SingleWrites
  <2> QED
    BY <1>3, <2>1
    DEF ReplyTo, FitsAdu, ReceivedLength, MetaLength, DataLength, Count,
        HeaderLength, ChecksumLength, MaxAduLength, MultipleWrites,
        SingleWrites, Bits, Registers, ReportedBytes
<1> QED
  BY <1>1, <1>2, <1>3, ReplyIsEither DEF Counted

(* The client takes every reply to its own request: for a read-out value   *)
(* or an exception, never for a mismatch.                                  *)
THEOREM ReplyAccepted ==
  ASSUME call \in Requests, NEW r \in Replies(call)
  PROVE  Verdict(r) \in {"ok", "exception"} /\ r.own = TRUE
<1> DEFINE f == call.function
           nb == call.nb
<1>0. f \in Functions /\ nb \in Nat
  BY RequestTyped
<1>1. CASE r = ExceptionTo(call)
  BY <1>1 DEF ExceptionTo, Verdict
<1>2. CASE r = ReplyTo(call) /\ f \in Bits \cup Registers
           /\ nb \in 1..MaxValues(f)
  <2>1. Bytes(f, nb) \in 1..250
    BY <1>2, BytesFit
  <2>2. Count(f, nb) = Bytes(f, nb)
    BY <1>2 DEF Count, Bits, Registers, MultipleWrites
  <2>3. /\ r.slave = call.slave /\ r.function = f /\ r.exception = FALSE
        /\ r.count = Bytes(f, nb) /\ r.own = TRUE
        /\ r.length = 5 + Bytes(f, nb)
    BY <1>2, <2>1, <2>2
    DEF ReplyTo, HeaderLength, ChecksumLength, Bits, Registers
  <2>4. ResponseLength(f, nb) = 5 + Bytes(f, nb)
    BY <1>2, <2>1
    DEF ResponseLength, HeaderLength, ChecksumLength, Bits, Registers
  <2>5. SameValues(r)
    <3>1. CASE f \in Bits
      BY <3>1, <2>3 DEF SameValues, Bits, Registers, MultipleWrites
    <3>2. CASE f \in Registers
      <4>1. f \notin Bits
        BY <3>2 DEF Bits, Registers
      <4>2. r.count = 2 * nb
        BY <2>3, <4>1 DEF Bytes
      <4>3. r.count \div 2 = nb
        BY <4>2, <1>0
      <4> QED
        BY <3>2, <2>3, <4>3 DEF SameValues, Bits, Registers, MultipleWrites
    <3> QED
      BY <1>2, <3>1, <3>2
  <2> QED
    BY <2>3, <2>4, <2>5 DEF Verdict
<1>3. CASE r = ReplyTo(call) /\ f \notin Bits \cup Registers
           /\ f # "READ_EXCEPTION_STATUS"
  <2>1. f \in MultipleWrites \cup SingleWrites \cup
              {"REPORT_SLAVE_ID", "MASK_WRITE_REGISTER"}
    BY <1>0, <1>3
    DEF Functions, Counted, Bits, Registers, MultipleWrites, SingleWrites
  <2>2. /\ r.slave = call.slave /\ r.function = f /\ r.exception = FALSE
        /\ r.count = Count(f, nb) /\ r.own = TRUE
    BY <1>3 DEF ReplyTo
  <2>3. \/ r.length = ResponseLength(f, nb)
        \/ ResponseLength(f, nb) = -1
    BY <1>3, <2>1
    DEF ReplyTo, ResponseLength, HeaderLength, ChecksumLength, Bits,
        Registers, MultipleWrites, SingleWrites
  <2>4. SameValues(r)
    BY <2>1, <2>2
    DEF SameValues, Count, Bits, Registers, MultipleWrites, SingleWrites
  <2> QED
    BY <2>2, <2>3, <2>4 DEF Verdict
<1> QED
  BY <1>1, <1>2, <1>3, ReplyIsEither DEF Counted

-----------------------------------------------------------------------------
(* Pieces of replies.                                                      *)

ReplyRecords ==
  [slave: Slaves, function: Functions, exception: BOOLEAN, count: Nat,
   own: BOOLEAN, length: Nat]

Arriving == Frames \cup {Stale(r) : r \in Frames}

LEMMA ReplyTyped ==
  ASSUME NEW c \in Requests, NEW r \in Replies(c)
  PROVE  r \in ReplyRecords /\ r \in Frames
<1> DEFINE f == c.function
<1>0. c.slave \in Slaves /\ f \in Functions /\ c.nb \in Nat
  BY RequestTyped DEF Requests
<1>1. r \in Frames
  BY DEF Frames
<1>2. CASE r = ExceptionTo(c)
  <2>1. r = [slave |-> c.slave, function |-> f, exception |-> TRUE,
             count |-> 0, own |-> TRUE, length |-> 5]
    BY <1>2 DEF ExceptionTo, HeaderLength, ChecksumLength
  <2> QED
    BY <1>0, <1>1, <2>1 DEF ReplyRecords
<1>3. CASE r = ReplyTo(c)
           /\ (f \in Bits \cup Registers => c.nb \in 1..MaxValues(f))
  <2>1. Count(f, c.nb) \in Nat
    <3>1. CASE f \in Bits \cup Registers
      <4>1. Bytes(f, c.nb) \in 1..250
        BY <1>3, <3>1, BytesFit
      <4> QED
        BY <3>1, <4>1 DEF Count, Bits, Registers, MultipleWrites
    <3>2. CASE f \notin Bits \cup Registers
      BY <1>0, <3>2 DEF Count, ReportedBytes, MultipleWrites
    <3> QED
      BY <3>1, <3>2
  <2>2. r.length \in Nat
    BY <1>3, <2>1
    DEF ReplyTo, HeaderLength, ChecksumLength, Bits, Registers
  <2>3. r = [slave |-> c.slave, function |-> f, exception |-> FALSE,
             count |-> Count(f, c.nb), own |-> TRUE, length |-> r.length]
    BY <1>3 DEF ReplyTo
  <2>4. ASSUME NEW n \in Nat, NEW l \in Nat
        PROVE  [slave |-> c.slave, function |-> f, exception |-> FALSE,
                count |-> n, own |-> TRUE, length |-> l] \in ReplyRecords
    BY <1>0 DEF ReplyRecords
  <2>5. r \in ReplyRecords
    BY <2>1, <2>2, <2>3, <2>4
  <2> QED
    BY <1>1, <2>5
<1> QED
  BY <1>1, <1>2, <1>3, ReplyIsEither DEF Counted

(* A reply to an earlier request is told from one to this by nothing but   *)
(* the history field.                                                      *)
LEMMA StaleTyped ==
  ASSUME NEW r \in Arriving
  PROVE  /\ r \in ReplyRecords
         /\ Stale(r) \in Arriving
         /\ FitsAdu(r)
         /\ FitsAdu(Stale(r))
<1>1. ASSUME NEW x \in Frames
      PROVE  x \in ReplyRecords /\ FitsAdu(x)
  <2>1. PICK c \in Requests : x \in Replies(c)
    BY DEF Frames
  <2> QED
    BY <2>1, ReplyTyped, ReplyFits
<1>2. ASSUME NEW x \in ReplyRecords
      PROVE  /\ Stale(x) \in ReplyRecords
             /\ Stale(x).length = x.length /\ Stale(x).count = x.count
             /\ Stale(x).function = x.function
             /\ Stale(Stale(x)) = Stale(x)
  BY DEF ReplyRecords, Stale
<1>3. PICK x \in Frames : r = x \/ r = Stale(x)
  BY DEF Arriving
<1>4. Stale(r) = Stale(x)
  BY <1>1, <1>2, <1>3
<1> QED
  BY <1>1, <1>2, <1>3, <1>4 DEF Arriving, FitsAdu

IsReply(p) == p.part \in {"whole", "first"}

(* What the pieces are: the beginning of a reply, the rest of one, noise.  *)
LEMMA PieceKinds ==
  ASSUME NEW p \in Pieces
  PROVE  /\ Rest \in Pieces /\ Noise \in Pieces /\ Rest # Noise
         /\ ~IsReply(Rest) /\ ~IsReply(Noise)
         /\ p \notin {Rest, Noise} => IsReply(p) /\ p.reply \in Arriving
         /\ p.part = "whole" =>
              LET first == [p EXCEPT !.part = "first"]
              IN /\ first \in Pieces \ {Rest, Noise}
                 /\ first.part = "first" /\ first.reply = p.reply
<1>1. /\ Rest # Noise /\ ~IsReply(Rest) /\ ~IsReply(Noise)
      /\ Rest.part = "rest" /\ Noise.part = "noise"
  BY DEF Rest, Noise, IsReply
<1>2. Rest \in Pieces /\ Noise \in Pieces
  BY DEF Pieces
<1>3. CASE p \in {Rest, Noise}
  BY <1>1, <1>2, <1>3
<1>4. CASE p \in [part: {"whole", "first"}, reply: Arriving]
  <2> DEFINE first == [p EXCEPT !.part = "first"]
  <2>1. /\ first \in [part: {"whole", "first"}, reply: Arriving]
        /\ first.part = "first" /\ first.reply = p.reply
    BY <1>4
  <2>2. first \in Pieces
    BY <2>1 DEF Pieces, Arriving
  <2>3. first # Rest /\ first # Noise
    BY <1>1, <2>1
  <2> QED
    BY <1>1, <1>2, <1>4, <2>1, <2>2, <2>3 DEF IsReply
<1> QED
  BY <1>3, <1>4 DEF Pieces, Arriving

LEMMA KindsApart ==
  /\ Rest # Noise /\ ~IsReply(Rest) /\ ~IsReply(Noise)
  /\ \A p \in Pieces : IsReply(p) \/ p = Rest \/ p = Noise
<1>1. Rest # Noise /\ ~IsReply(Rest) /\ ~IsReply(Noise)
  BY DEF Rest, Noise, IsReply
<1>2. \A p \in Pieces : IsReply(p) \/ p = Rest \/ p = Noise
  BY DEF Pieces, IsReply
<1> QED
  BY <1>1, <1>2

(* A reply that is sent is a piece.                                        *)
LEMMA WholeTyped ==
  ASSUME NEW r \in Arriving
  PROVE  /\ Whole(r) \in Pieces \ {Rest, Noise}
         /\ Whole(r).part = "whole" /\ Whole(r).reply = r
         /\ IsReply(Whole(r))
<1>1. /\ Whole(r) \in [part: {"whole", "first"}, reply: Arriving]
      /\ Whole(r).part = "whole" /\ Whole(r).reply = r
  BY DEF Whole
<1>2. Whole(r) # Rest /\ Whole(r) # Noise
  BY <1>1 DEF Rest, Noise
<1> QED
  BY <1>1, <1>2 DEF Pieces, Arriving, IsReply

(* A piece that grows old is still a piece, of the same kind.              *)
LEMMA AgedPiece ==
  ASSUME NEW p \in Pieces \ {Rest, Noise}
  PROVE  [p EXCEPT !.reply = Stale(@)] \in Pieces \ {Rest, Noise}
<1>1. p \in [part: {"whole", "first"}, reply: Arriving]
  BY DEF Pieces, Arriving
<1>2. Stale(p.reply) \in Arriving
  BY <1>1, StaleTyped
<1> DEFINE aged == [p EXCEPT !.reply = Stale(@)]
<1>3. aged \in [part: {"whole", "first"}, reply: Arriving]
  BY <1>1, <1>2
<1>4. aged \in Pieces
  BY <1>3 DEF Pieces, Arriving
<1>5. aged.part # "rest" /\ aged.part # "noise"
  BY <1>3
<1>6. aged # Rest /\ aged # Noise
  BY <1>5 DEF Rest, Noise
<1> QED
  BY <1>4, <1>6

LEMMA AgedTyped ==
  ASSUME NEW q \in Seq(Pieces)
  PROVE  /\ Aged(q) \in Seq(Pieces)
         /\ Len(Aged(q)) = Len(q)
         /\ \A i \in 1..Len(q) : Aged(q)[i] = Noise <=> q[i] = Noise
         /\ q \in Seq(Pieces \ {Noise}) => Aged(q) \in Seq(Pieces \ {Noise})
<1>1. Len(q) \in Nat /\ DOMAIN q = 1..Len(q)
      /\ \A i \in 1..Len(q) : q[i] \in Pieces
  BY LenProperties, ElementOfSeq
<1>2. Aged(q) = [i \in 1..Len(q) |->
                   IF q[i] \in {Rest, Noise} THEN q[i]
                   ELSE [q[i] EXCEPT !.reply = Stale(@)]]
  BY <1>1 DEF Aged
<1>3. ASSUME NEW i \in 1..Len(q)
      PROVE  Aged(q)[i] \in Pieces /\ (Aged(q)[i] = Noise <=> q[i] = Noise)
  <2>1. CASE q[i] \in {Rest, Noise}
    BY <1>1, <1>2, <2>1
  <2>2. CASE q[i] \notin {Rest, Noise}
    <3>1. Aged(q)[i] = [q[i] EXCEPT !.reply = Stale(@)]
      BY <1>2, <2>2
    <3>2. q[i] \in Pieces \ {Rest, Noise}
      BY <1>1, <2>2
    <3> QED
      BY <2>2, <3>1, <3>2, AgedPiece
  <2> QED
    BY <2>1, <2>2
<1>4. Aged(q) \in [1..Len(q) -> Pieces]
  BY <1>2, <1>3
<1>5. Aged(q) \in Seq(Pieces) /\ Len(Aged(q)) = Len(q)
  BY <1>1, <1>4, SeqDef, LenProperties
<1>6. ASSUME q \in Seq(Pieces \ {Noise})
      PROVE  Aged(q) \in Seq(Pieces \ {Noise})
  <2>1. \A i \in 1..Len(q) : q[i] # Noise
    BY <1>6, ElementOfSeq
  <2>2. Aged(q) \in [1..Len(q) -> Pieces \ {Noise}]
    BY <1>2, <1>3, <2>1
  <2> QED
    BY <1>1, <2>2, SeqDef
<1> QED
  BY <1>3, <1>5, <1>6

-----------------------------------------------------------------------------
(* The one reply of a call on the line.  q is what waits in the input      *)
(* queue and a what is still to come, as line and air are.                 *)

OnlyNoise(q) == \A i \in 1..Len(q) : q[i] = Noise

NothingLeft(q, a) == a = << >> /\ OnlyNoise(q)

HasFirst(q, n) == \E k \in 1..n : q[k].part = "first"

(* One reply to c at most is under way, whole or in two parts that come in *)
(* order, with noise anywhere between.                                     *)
OneReply(c, q, a) ==
  /\ \A i \in 1..Len(q) : IsReply(q[i]) => q[i].reply \in Replies(c)
  /\ \A i, j \in 1..Len(q) : IsReply(q[i]) /\ IsReply(q[j]) => i = j
  /\ \A i, j \in 1..Len(q) : q[i] = Rest /\ q[j] = Rest => i = j
  /\ \A i \in 1..Len(q) : q[i] = Rest => a = << >> /\ HasFirst(q, i - 1)
  /\ \/ a = << >>
     \/ a = <<Rest>> /\ HasFirst(q, Len(q))
     \/ (\E r \in Replies(c) : a = <<Whole(r)>>) /\ OnlyNoise(q)

LEMMA Appended ==
  ASSUME NEW q \in Seq(Pieces), NEW p \in Pieces
  PROVE  /\ Append(q, p) \in Seq(Pieces)
         /\ Len(Append(q, p)) = Len(q) + 1 /\ Len(q) \in Nat
         /\ \A i \in 1..Len(q) : Append(q, p)[i] = q[i]
         /\ Append(q, p)[Len(q) + 1] = p
OBVIOUS

LEMMA OnePiece ==
  ASSUME NEW p
  PROVE  Head(<<p>>) = p /\ Tail(<<p>>) = << >> /\ <<p>> # << >>
OBVIOUS

(* A piece of noise disturbs nothing but the order of the bytes, and what  *)
(* is lost with it may be the reply.                                       *)
LEMMA NoiseKeeps ==
  ASSUME NEW c, NEW q \in Seq(Pieces), NEW a, OneReply(c, q, a)
  PROVE  /\ OneReply(c, Append(q, Noise), a)
         /\ a # << >> => OneReply(c, Append(q, Noise), Tail(a))
<1> DEFINE n == Append(q, Noise)
<1>1. /\ Len(n) = Len(q) + 1 /\ Len(q) \in Nat
      /\ \A i \in 1..Len(q) : n[i] = q[i]
      /\ n[Len(q) + 1] = Noise
      /\ Noise # Rest /\ ~IsReply(Noise)
  BY Appended, KindsApart DEF Pieces
<1> HIDE DEF n
<1>2. \A i \in 1..Len(n) : i \in 1..Len(q) \/ n[i] = Noise
  BY <1>1
<1>3. \A m \in 1..Len(q) : HasFirst(q, m) => HasFirst(n, m)
  BY <1>1 DEF HasFirst
<1>4. ASSUME NEW i \in 1..Len(n), n[i] = Rest
      PROVE  a = << >> /\ HasFirst(n, i - 1)
  <2>1. i \in 1..Len(q) /\ q[i] = Rest
    BY <1>1, <1>2, <1>4
  <2>2. HasFirst(q, i - 1) /\ a = << >>
    BY <2>1 DEF OneReply
  <2> QED
    BY <1>1, <2>1, <2>2 DEF HasFirst
<1>5. HasFirst(q, Len(q)) => HasFirst(n, Len(n))
  BY <1>1 DEF HasFirst
<1>6. OnlyNoise(q) => OnlyNoise(n)
  BY <1>1, <1>2 DEF OnlyNoise
<1>7. ASSUME NEW i \in 1..Len(n), IsReply(n[i])
      PROVE  /\ i \in 1..Len(q) /\ n[i] = q[i]
             /\ n[i].reply \in Replies(c)
  <2>1. i \in 1..Len(q)
    BY <1>1, <1>2, <1>7
  <2> QED
    BY <1>1, <1>7, <2>1 DEF OneReply
<1>8. \A i, j \in 1..Len(n) : IsReply(n[i]) /\ IsReply(n[j]) => i = j
  BY <1>7 DEF OneReply
<1>9. \A i, j \in 1..Len(n) : n[i] = Rest /\ n[j] = Rest => i = j
  BY <1>1, <1>2 DEF OneReply
<1>10. OneReply(c, n, a)
  BY <1>4, <1>5, <1>6, <1>7, <1>8, <1>9 DEF OneReply
<1>11. ASSUME a # << >> PROVE OneReply(c, n, Tail(a))
  <2>1. \/ a = <<Rest>>
        \/ \E r \in Replies(c) : a = <<Whole(r)>>
    BY <1>11 DEF OneReply
  <2>2. Tail(a) = << >>
    BY <2>1, OnePiece
  <2> QED
    BY <1>4, <1>7, <1>8, <1>9, <2>2 DEF OneReply
<1> QED
  BY <1>10, <1>11 DEF n

(* What a slave sends arrives, and what arrives was still to come.         *)
LEMMA ArrivalKeeps ==
  ASSUME NEW c \in Requests, NEW q \in Seq(Pieces), NEW a, a # << >>,
         OneReply(c, q, a)
  PROVE  OneReply(c, Append(q, Head(a)), Tail(a))
<1> DEFINE n == Append(q, Head(a))
<1>1. CASE a = <<Rest>> /\ HasFirst(q, Len(q))
  <2>0. Head(a) = Rest /\ Rest \in Pieces
    BY <1>1, OnePiece DEF Pieces
  <2>1. /\ Len(n) = Len(q) + 1 /\ Len(q) \in Nat
        /\ \A i \in 1..Len(q) : n[i] = q[i]
        /\ n[Len(q) + 1] = Rest /\ ~IsReply(Rest)
    BY <2>0, Appended, KindsApart
  <2>2. Tail(a) = << >>
    BY <1>1, OnePiece
  <2> HIDE DEF n
  <2>3. \A i \in 1..Len(q) : q[i] # Rest
    BY <1>1 DEF OneReply
  <2>4. \A i \in 1..Len(n) : i \in 1..Len(q) \/ i = Len(q) + 1
    BY <2>1
  <2>5. HasFirst(n, Len(q))
    BY <1>1, <2>1 DEF HasFirst
  <2>6. ASSUME NEW i \in 1..Len(n), n[i] = Rest
        PROVE  i = Len(q) + 1
    BY <2>1, <2>3, <2>4, <2>6
  <2>7. \A i \in 1..Len(n) : n[i] = Rest => HasFirst(n, i - 1)
    <3> SUFFICES ASSUME NEW i \in 1..Len(n), n[i] = Rest
                 PROVE  HasFirst(n, i - 1)
      OBVIOUS
    <3>1. i - 1 = Len(q)
      BY <2>1, <2>6
    <3> QED
      BY <2>5, <3>1
  <2>8. \A i \in 1..Len(n) :
          IsReply(n[i]) => i \in 1..Len(q) /\ n[i] = q[i]
    BY <2>1, <2>4
  <2>9. \A i \in 1..Len(n) : IsReply(n[i]) => n[i].reply \in Replies(c)
    BY <2>8 DEF OneReply
  <2>10. \A i, j \in 1..Len(n) : IsReply(n[i]) /\ IsReply(n[j]) => i = j
    BY <2>8 DEF OneReply
  <2>11. \A i, j \in 1..Len(n) : n[i] = Rest /\ n[j] = Rest => i = j
    BY <2>6
  <2>12. OneReply(c, n, << >>)
    BY <2>7, <2>9, <2>10, <2>11 DEF OneReply
  <2> QED
    BY <2>2, <2>12 DEF n
<1>2. ASSUME NEW r \in Replies(c), a = <<Whole(r)>>, OnlyNoise(q)
      PROVE  OneReply(c, n, Tail(a))
  <2>1. r \in Arriving
    BY ReplyTyped DEF Arriving
  <2>2. /\ Len(n) = Len(q) + 1 /\ Len(q) \in Nat
        /\ \A i \in 1..Len(q) : n[i] = Noise
        /\ n[Len(q) + 1] = Whole(r)
    BY <1>2, <2>1, WholeTyped, Appended DEF OnlyNoise
  <2>3. Tail(a) = << >>
    BY <1>2
  <2>4. /\ Whole(r) # Rest /\ Whole(r).reply = r
        /\ Noise # Rest /\ ~IsReply(Noise)
    BY <2>1, WholeTyped, KindsApart
  <2> HIDE DEF n
  <2>5. \A i \in 1..Len(n) : i = Len(q) + 1 \/ n[i] = Noise
    BY <2>2
  <2>6. \A i \in 1..Len(n) : n[i] # Rest
    BY <2>2, <2>4, <2>5
  <2>7. \A i \in 1..Len(n) : IsReply(n[i]) => i = Len(q) + 1
    BY <2>4, <2>5
  <2>8. OneReply(c, n, << >>)
    BY <2>2, <2>4, <2>6, <2>7 DEF OneReply
  <2> QED
    BY <2>3, <2>8 DEF n
<1> QED
  BY <1>1, <1>2 DEF OneReply

(* A reply that comes in two parts is still one reply.                     *)
LEMMA PartKeeps ==
  ASSUME NEW c \in Requests, NEW q \in Seq(Pieces), NEW a, a # << >>,
         Head(a).part = "whole", OneReply(c, q, a)
  PROVE  OneReply(c, Append(q, [Head(a) EXCEPT !.part = "first"]),
                  <<Rest>> \o Tail(a))
<1> DEFINE first == [Head(a) EXCEPT !.part = "first"]
           n == Append(q, first)
<1>1. a # <<Rest>>
  BY OnePiece DEF Rest
<1>2. PICK r \in Replies(c) : a = <<Whole(r)>> /\ OnlyNoise(q)
  BY <1>1 DEF OneReply
<1>3. r \in Arriving
  BY ReplyTyped DEF Arriving
<1>4. Head(a) = Whole(r) /\ Tail(a) = << >>
  BY <1>2, OnePiece
<1>5. /\ first \in Pieces \ {Rest, Noise}
      /\ first.part = "first" /\ first.reply = r
      /\ Noise # Rest /\ ~IsReply(Noise)
  BY <1>3, <1>4, WholeTyped, PieceKinds
<1> HIDE DEF first
<1>6. /\ Len(n) = Len(q) + 1 /\ Len(q) \in Nat
      /\ \A i \in 1..Len(q) : n[i] = Noise
      /\ n[Len(q) + 1] = first
  BY <1>2, <1>5, Appended DEF OnlyNoise
<1>7. <<Rest>> \o Tail(a) = <<Rest>>
  <2>1. Rest \in Pieces
    BY DEF Pieces
  <2>2. <<Rest>> \in Seq(Pieces)
    BY <2>1
  <2> QED
    BY <1>4, <2>2, ConcatEmptySeq
<1> HIDE DEF n
<1>8. \A i \in 1..Len(n) : i = Len(q) + 1 \/ n[i] = Noise
  BY <1>6
<1>9. \A i \in 1..Len(n) : n[i] # Rest
  BY <1>5, <1>6, <1>8
<1>10. \A i \in 1..Len(n) : IsReply(n[i]) => i = Len(q) + 1
  BY <1>5, <1>8
<1>11. HasFirst(n, Len(n))
  BY <1>5, <1>6 DEF HasFirst
<1>12. OneReply(c, n, <<Rest>>)
  BY <1>5, <1>6, <1>9, <1>10, <1>11 DEF OneReply
<1> QED
  BY <1>7, <1>12 DEF n, first

(* When the reply is taken nothing of it is left.                          *)
LEMMA TakenLeavesNothing ==
  ASSUME NEW c \in Requests, NEW q \in Seq(Pieces), NEW a,
         BeginsWithReply(q), OneReply(c, q, a)
  PROVE  /\ NothingLeft(AfterReply(q), a)
         /\ AfterReply(q) \in Seq(Pieces)
         /\ q[1].reply \in Replies(c)
<1>1. /\ Len(q) \in Nat /\ Len(q) >= 1 /\ IsReply(q[1])
      /\ \A i \in 1..Len(q) : q[i] \in Pieces
  BY LenProperties, ElementOfSeq, EmptySeq DEF BeginsWithReply, IsReply
<1>2. q[1].reply \in Replies(c)
  BY <1>1 DEF OneReply
<1>3. \A i \in 1..Len(q) : IsReply(q[i]) => i = 1
  BY <1>1 DEF OneReply
<1>4. ~ OnlyNoise(q)
  BY <1>1, KindsApart DEF OnlyNoise
<1>5. \A k \in 1..Len(q) : q[k].part = "first" => k = 1
  BY <1>3 DEF IsReply
<1>6. /\ Tail(q) \in Seq(Pieces) /\ Len(Tail(q)) = Len(q) - 1
      /\ \A i \in 1..Len(Tail(q)) : Tail(q)[i] = q[i + 1]
  BY <1>1, HeadTailProperties, EmptySeq
<1>7. CASE q[1].part = "whole"
  <2>1. \A i \in 0..Len(q) : ~ HasFirst(q, i)
    BY <1>1, <1>5, <1>7 DEF HasFirst
  <2>2. \A i \in 1..Len(q) : q[i] # Rest
    <3> SUFFICES ASSUME NEW i \in 1..Len(q), q[i] = Rest
                 PROVE  FALSE
      OBVIOUS
    <3>1. HasFirst(q, i - 1)
      BY DEF OneReply
    <3> QED
      BY <1>1, <2>1, <3>1
  <2>3. a = << >>
    BY <1>1, <1>4, <2>1 DEF OneReply
  <2>4. \A i \in 2..Len(q) : q[i] = Noise
    BY <1>1, <1>3, <2>2, KindsApart
  <2>5. OnlyNoise(Tail(q))
    BY <1>1, <1>6, <2>4 DEF OnlyNoise
  <2> QED
    BY <1>2, <1>6, <1>7, <2>3, <2>5 DEF NothingLeft, AfterReply
<1>8. CASE q[1].part = "first"
  <2>1. Len(q) > 1 /\ q[2] = Rest
    BY <1>8 DEF BeginsWithReply
  <2>2. a = << >> /\ \A i \in 1..Len(q) : q[i] = Rest => i = 2
    BY <1>1, <2>1 DEF OneReply
  <2>3. \A i \in 3..Len(q) : q[i] = Noise
    BY <1>1, <1>3, <2>2, KindsApart
  <2> DEFINE t == Tail(q)
  <2>4. t \in Seq(Pieces) /\ Len(t) = Len(q) - 1 /\ t # << >>
    <3>1. Len(t) # 0
      BY <1>1, <1>6, <2>1
    <3> QED
      BY <1>6, <3>1, EmptySeq
  <2>5. /\ Tail(t) \in Seq(Pieces) /\ Len(Tail(t)) = Len(q) - 2
        /\ \A i \in 1..Len(Tail(t)) : Tail(t)[i] = t[i + 1]
    <3> HIDE DEF t
    <3>1. /\ Tail(t) \in Seq(Pieces) /\ Len(Tail(t)) = Len(t) - 1
          /\ \A i \in 1..Len(Tail(t)) : Tail(t)[i] = t[i + 1]
      BY <2>4, HeadTailProperties
    <3> QED
      BY <1>1, <2>4, <3>1
  <2>6. \A i \in 1..Len(Tail(t)) : Tail(t)[i] = q[i + 2]
    <3> SUFFICES ASSUME NEW i \in 1..Len(Tail(t))
                 PROVE  Tail(t)[i] = q[i + 2]
      OBVIOUS
    <3>1. i + 1 \in 1..Len(t) /\ (i + 1) + 1 = i + 2
      BY <1>1, <2>4, <2>5
    <3>2. t[i + 1] = q[(i + 1) + 1]
      BY <1>6, <3>1
    <3> QED
      BY <2>5, <3>1, <3>2
  <2>7. OnlyNoise(Tail(t))
    BY <1>1, <2>3, <2>5, <2>6 DEF OnlyNoise
  <2> QED
    BY <1>2, <1>8, <2>2, <2>5, <2>7 DEF NothingLeft, AfterReply
<1> QED
  BY <1>1, <1>7, <1>8 DEF IsReply

(* Without noise, what waits is the reply, or its first part.              *)
LEMMA NoGarbage ==
  ASSUME NEW c \in Requests, NEW q \in Seq(Pieces), NEW a,
         OneReply(c, q, a), q # << >>, \A i \in 1..Len(q) : q[i] # Noise
  PROVE  BeginsWithReply(q) \/ WaitsForRest(q)
<1>0. Len(q) \in Nat /\ Len(q) >= 1
  BY LenProperties, EmptySeq
<1>1. /\ Len(q) \in Nat /\ Len(q) >= 1
      /\ \A i \in 1..Len(q) : q[i] \in Pieces
  BY <1>0, ElementOfSeq
<1>2. q[1] # Rest
  BY <1>1 DEF OneReply, HasFirst
<1>3. IsReply(q[1])
  BY <1>1, <1>2, KindsApart
<1>4. q[1].reply \in Replies(c)
  BY <1>1, <1>3 DEF OneReply
<1>5. ReceivedLength(q[1].reply) = q[1].reply.length
  BY <1>4, ReplyFits
<1>6. ASSUME Len(q) > 1 PROVE q[2] = Rest
  <2>1. ~ IsReply(q[2])
    BY <1>1, <1>3, <1>6 DEF OneReply
  <2> QED
    BY <1>1, <1>6, <2>1, KindsApart
<1>7. Len(q) > 1 \/ Len(q) = 1
  <2>1. \A n \in Nat : n >= 1 => n > 1 \/ n = 1
    OBVIOUS
  <2> QED
    BY <1>0, <2>1, Zenon
<1> QED
  BY <1>3, <1>5, <1>6, <1>7 DEF BeginsWithReply, WaitsForRest, IsReply

(* A request is sent where nothing is left, and replied to or not.         *)
LEMMA SentOnce ==
  ASSUME NEW c \in Requests, NEW q \in Seq(Pieces), NEW a, NothingLeft(q, a)
  PROVE  /\ OneReply(c, q, a)
         /\ \A r \in Replies(c) : OneReply(c, q, Append(a, Whole(r)))
<1>1. /\ a = << >> /\ Noise # Rest /\ ~IsReply(Noise)
      /\ \A i \in 1..Len(q) : q[i] = Noise
  BY KindsApart DEF NothingLeft, OnlyNoise, Pieces
<1>2. \A r : Append(a, Whole(r)) = <<Whole(r)>>
  BY <1>1
<1> QED
  BY <1>1, <1>2 DEF OneReply, OnlyNoise

-----------------------------------------------------------------------------
(* What the actions do to the queues.                                      *)

Quiet(q) == \A i \in 1..Len(q) : q[i] # Noise

LEMMA TailNotEmpty ==
  ASSUME NEW S, NEW q \in Seq(S), Len(q) > 1
  PROVE  Tail(q) # << >>
<1>1. Len(q) \in Nat /\ Len(<< >>) = 0
  BY LenProperties, EmptySeq
<1>2. \A n \in Nat : n > 1 => n - 1 # 0 /\ n # 0
  OBVIOUS
<1>3. q # << >>
  BY <1>1, <1>2, Zenon
<1>4. Len(Tail(q)) = Len(q) - 1
  BY <1>3, HeadTailProperties
<1>5. Len(Tail(q)) # 0
  BY <1>1, <1>2, <1>4, Zenon
<1> QED
  BY <1>1, <1>5, Zenon

LEMMA TailTyped ==
  ASSUME NEW S, NEW q \in Seq(S)
  PROVE  /\ q # << >> => Tail(q) \in Seq(S) /\ Head(q) \in S
         /\ q # << >> /\ Len(q) > 1 => Tail(Tail(q)) \in Seq(S)
<1>1. q # << >> => Tail(q) \in Seq(S) /\ Head(q) \in S
  BY HeadTailProperties
<1>2. ASSUME q # << >>, Len(q) > 1
      PROVE  Tail(Tail(q)) \in Seq(S)
  BY <1>1, <1>2, TailNotEmpty, HeadTailProperties
<1> QED
  BY <1>1, <1>2

LEMMA EmptyQuiet == Quiet(<< >>) /\ OnlyNoise(<< >>)
BY DEF Quiet, OnlyNoise

LEMMA QuietTail ==
  ASSUME NEW q \in Seq(Pieces), q # << >>, Quiet(q)
  PROVE  Quiet(Tail(q))
<1>1. /\ Len(Tail(q)) = Len(q) - 1 /\ Len(q) \in Nat
      /\ \A i \in 1..Len(Tail(q)) : Tail(q)[i] = q[i + 1]
  BY HeadTailProperties, LenProperties
<1> SUFFICES ASSUME NEW i \in 1..Len(Tail(q)) PROVE Tail(q)[i] # Noise
  BY DEF Quiet
<1>2. i + 1 \in 1..Len(q)
  <2>1. \A n \in Nat : \A k \in 1..(n - 1) : k + 1 \in 1..n
    OBVIOUS
  <2> QED
    BY <1>1, <2>1, Zenon
<1> QED
  BY <1>1, <1>2 DEF Quiet

LEMMA BeginningTyped ==
  ASSUME NEW q \in Seq(Pieces), BeginsWithReply(q)
  PROVE  /\ q # << >> /\ q[1] \in Pieces /\ IsReply(q[1])
         /\ q[1].part = "first" => Len(q) > 1
<1>1. Len(q) \in Nat /\ Len(q) # 0
  BY LenProperties, EmptySeq DEF BeginsWithReply
<1>2. 1 \in 1..Len(q)
  BY <1>1
<1> QED
  BY <1>2, ElementOfSeq DEF BeginsWithReply, IsReply

(* What is left behind a reply.                                            *)
LEMMA AfterReplyTyped ==
  ASSUME NEW q \in Seq(Pieces), BeginsWithReply(q)
  PROVE  /\ AfterReply(q) \in Seq(Pieces)
         /\ Quiet(q) => Quiet(AfterReply(q))
<1>1. q # << >> /\ Tail(q) \in Seq(Pieces)
  BY BeginningTyped, TailTyped
<1>2. CASE q[1].part = "whole"
  BY <1>1, <1>2, QuietTail DEF AfterReply
<1>3. CASE q[1].part = "first"
  <2>1. Tail(Tail(q)) \in Seq(Pieces)
    BY <1>1, <1>3, BeginningTyped, TailTyped
  <2>2. Tail(q) # << >>
    BY <1>1, <1>3, BeginningTyped, TailNotEmpty
  <2> QED
    BY <1>1, <1>3, <2>1, <2>2, QuietTail DEF AfterReply
<1> QED
  BY <1>2, <1>3, BeginningTyped DEF IsReply

LEMMA CutTyped ==
  ASSUME NEW q \in Seq(Pieces), q # << >>
  PROVE  /\ CutFront(q) \in Seq(Pieces) /\ Tail(q) \in Seq(Pieces)
         /\ CutFront(Tail(q)) \in Seq(Pieces)
<1>1. <<Noise>> \in Seq(Pieces)
  BY DEF Pieces
<1>2. ASSUME NEW p \in Seq(Pieces)
      PROVE  CutFront(p) \in Seq(Pieces)
  <2>1. CASE p = << >>
    BY <2>1 DEF CutFront
  <2>2. CASE p # << >>
    BY <1>1, <2>2, TailTyped, ConcatProperties DEF CutFront
  <2> QED
    BY <2>1, <2>2
<1> QED
  BY <1>2, TailTyped

(* Growing old changes neither that nothing is left nor that it is quiet.  *)
LEMMA AgedKeeps ==
  ASSUME NEW q \in Seq(Pieces), NEW a \in Seq(Pieces)
  PROVE  /\ NothingLeft(q, a) => NothingLeft(Aged(q), Aged(a))
         /\ Quiet(q) => Quiet(Aged(q))
         /\ Aged(<< >>) = << >>
<1>1. Aged(<< >>) = << >>
  <2>1. << >> \in Seq(Pieces)
    BY EmptySeq
  <2>2. Aged(<< >>) \in Seq(Pieces) /\ Len(Aged(<< >>)) = 0
    BY <2>1, AgedTyped, EmptySeq
  <2> QED
    BY <2>2, EmptySeq
<1>2. Quiet(q) => Quiet(Aged(q))
  BY AgedTyped DEF Quiet
<1>3. OnlyNoise(q) => OnlyNoise(Aged(q))
  BY AgedTyped DEF OnlyNoise
<1> QED
  BY <1>1, <1>2, <1>3 DEF NothingLeft

(* What the slaves will still send fits the receiver's buffer.             *)
LEMMA AirFits ==
  ASSUME NEW q \in Seq(Pieces \ {Noise})
  PROVE  /\ q \in Seq(Pieces)
         /\ \A i \in DOMAIN q : q[i] # Rest => FitsAdu(q[i].reply)
<1>1. DOMAIN q = 1..Len(q)
  BY LenProperties
<1>2. ASSUME NEW i \in DOMAIN q, q[i] # Rest
      PROVE  FitsAdu(q[i].reply)
  <2>1. q[i] \in Pieces \ {Rest, Noise}
    BY <1>1, <1>2, ElementOfSeq
  <2>2. q[i].reply \in Arriving
    BY <2>1, PieceKinds
  <2> QED
    BY <2>2, StaleTyped
<1>3. q \in Seq(Pieces)
  BY SeqMonotonic
<1> QED
  BY <1>2, <1>3

-----------------------------------------------------------------------------
(* The inductive invariant.                                                *)

Answered == {"ok", "exception", "refused"}

(* The outcome of a call that has not ended is not known yet, and only     *)
(* some errors need the line to be flushed.                                *)
Phases ==
  /\ phase = "idle" => outcome # "none"
  /\ phase \in {"sending", "receiving"} => outcome = "none"
  /\ phase = "recovering" => outcome \in {"timeout", "bad slave", "bad data"}

(* Unless a call that failed has left pieces behind: no reply is under way *)
(* before a request is written, then the one to it, and a call that was    *)
(* answered leaves none.                                                   *)
Orderly ==
  ~failed =>
    /\ phase = "idle" /\ outcome \in Answered => NothingLeft(line, air)
    /\ phase = "sending" => NothingLeft(line, air)
    /\ phase = "receiving" => OneReply(call, line, air)
    /\ ~noise => Quiet(line)

RtuIInv == RtuTypeOK /\ Phases /\ Orderly /\ NoFalseAlarm /\ AnswersBelong

(* The types but for the lengths of what is to come, which follow.         *)
LineTypes ==
  /\ s \in [Slaves -> {"closed", "open", "dead"}] /\ plugged \in BOOLEAN
  /\ phase \in {"idle", "sending", "receiving", "recovering"}
  /\ call \in Requests
  /\ line \in Seq(Pieces) /\ air \in Seq(Pieces \ {Noise})
  /\ outcome \in CallOutcomes
  /\ mine \in BOOLEAN /\ failed \in BOOLEAN /\ noise \in BOOLEAN

LEMMA TypesSuffice ==
  /\ RtuTypeOK <=> LineTypes
  /\ LineTypes' => RtuTypeOK'
  /\ LineTypes => air \in Seq(Pieces)
<1>1. ASSUME LineTypes
      PROVE  /\ \A i \in DOMAIN air : air[i] # Rest => FitsAdu(air[i].reply)
             /\ air \in Seq(Pieces)
  BY <1>1, AirFits DEF LineTypes
<1>2. ASSUME LineTypes'
      PROVE  \A i \in DOMAIN air' : air'[i] # Rest => FitsAdu(air'[i].reply)
  <2>1. air' \in Seq(Pieces \ {Noise})
    BY <1>2 DEF LineTypes
  <2> QED
    BY <2>1, AirFits
<1> QED
  BY <1>1, <1>2 DEF RtuTypeOK, LineTypes

LEMMA RtuInitIInv == RtuInit => RtuIInv
<1> SUFFICES ASSUME RtuInit PROVE RtuIInv
  OBVIOUS
<1>1. LineTypes
  BY EmptySeq DEF RtuInit, LineTypes, CallOutcomes
<1>2. Orderly
  BY DEF RtuInit, Orderly, NothingLeft, OnlyNoise, Quiet
<1> QED
  BY <1>1, <1>2, TypesSuffice
  DEF RtuInit, RtuIInv, Phases, NoFalseAlarm, AnswersBelong, Mismatches

(* The line.                                                               *)
LEMMA ArriveStep ==
  ASSUME RtuIInv, Arrive
  PROVE  RtuIInv'
<1>1. LineTypes /\ air \in Seq(Pieces)
  BY TypesSuffice DEF RtuIInv
<1>2. /\ air # << >> /\ line' = Append(line, Head(air)) /\ air' = Tail(air)
      /\ Head(air) \in Pieces \ {Noise} /\ air' \in Seq(Pieces \ {Noise})
  BY <1>1, TailTyped DEF Arrive, LineTypes
<1>3. /\ line' \in Seq(Pieces) /\ Len(line') = Len(line) + 1
      /\ Len(line) \in Nat
      /\ \A i \in 1..Len(line) : line'[i] = line[i]
      /\ line'[Len(line) + 1] # Noise
  BY <1>1, <1>2, Appended DEF LineTypes
<1>4. LineTypes'
  BY <1>1, <1>2, <1>3 DEF LineTypes, Arrive
<1>5. Quiet(line) => Quiet(line')
  BY <1>3 DEF Quiet
<1>6. phase = "receiving" /\ OneReply(call, line, air)
        => OneReply(call', line', air')
  BY <1>1, <1>2, ArrivalKeeps DEF LineTypes, Arrive
<1>7. Orderly'
  BY <1>2, <1>5, <1>6 DEF RtuIInv, Orderly, NothingLeft, Arrive
<1>8. RtuTypeOK'
  BY <1>4, TypesSuffice
<1> QED
  BY <1>7, <1>8 DEF RtuIInv, Phases, NoFalseAlarm, AnswersBelong, Arrive

LEMMA ArrivePartStep ==
  ASSUME RtuIInv, ArrivePart
  PROVE  RtuIInv'
<1> DEFINE first == [Head(air) EXCEPT !.part = "first"]
<1>1. LineTypes /\ air \in Seq(Pieces)
  BY TypesSuffice DEF RtuIInv
<1>2. /\ air # << >> /\ Head(air).part = "whole"
      /\ line' = Append(line, first) /\ air' = <<Rest>> \o Tail(air)
      /\ Head(air) \in Pieces /\ Tail(air) \in Seq(Pieces \ {Noise})
  BY <1>1, TailTyped DEF ArrivePart, LineTypes
<1>3. first \in Pieces \ {Rest, Noise}
  BY <1>2, PieceKinds
<1>4. /\ line' \in Seq(Pieces) /\ Len(line') = Len(line) + 1
      /\ Len(line) \in Nat
      /\ \A i \in 1..Len(line) : line'[i] = line[i]
      /\ line'[Len(line) + 1] # Noise
  <2> HIDE DEF first
  <2> QED
    BY <1>1, <1>2, <1>3, Appended DEF LineTypes
<1>5. air' \in Seq(Pieces \ {Noise})
  <2>1. Rest \in Pieces \ {Noise}
    BY KindsApart DEF Pieces
  <2>2. <<Rest>> \in Seq(Pieces \ {Noise})
    BY <2>1
  <2> QED
    BY <1>2, <2>2, ConcatProperties
<1>6. LineTypes'
  BY <1>1, <1>4, <1>5 DEF LineTypes, ArrivePart
<1>7. Quiet(line) => Quiet(line')
  BY <1>4 DEF Quiet
<1>8. phase = "receiving" /\ OneReply(call, line, air)
        => OneReply(call', line', air')
  BY <1>1, <1>2, PartKeeps DEF LineTypes, ArrivePart
<1>9. Orderly'
  BY <1>2, <1>7, <1>8 DEF RtuIInv, Orderly, NothingLeft, ArrivePart
<1>10. RtuTypeOK'
  BY <1>6, TypesSuffice
<1> QED
  BY <1>9, <1>10 DEF RtuIInv, Phases, NoFalseAlarm, AnswersBelong, ArrivePart

LEMMA DisturbStep ==
  ASSUME RtuIInv, Disturb
  PROVE  RtuIInv'
<1>1. LineTypes /\ Noise \in Pieces
  BY TypesSuffice DEF RtuIInv, Pieces
<1>2. /\ line' = Append(line, Noise) /\ noise' = TRUE
      /\ air' = air \/ (air # << >> /\ air' = Tail(air))
      /\ UNCHANGED <<s, plugged, phase, call, outcome, mine, failed>>
  BY DEF Disturb
<1>3. /\ line' \in Seq(Pieces) /\ Len(line') = Len(line) + 1
      /\ Len(line) \in Nat
      /\ \A i \in 1..Len(line) : line'[i] = line[i]
      /\ line'[Len(line) + 1] = Noise
  BY <1>1, <1>2, Appended DEF LineTypes
<1>4. air' \in Seq(Pieces \ {Noise})
  BY <1>1, <1>2, TailTyped DEF LineTypes
<1>5. LineTypes'
  BY <1>1, <1>2, <1>3, <1>4 DEF LineTypes
<1>6. NothingLeft(line, air) => NothingLeft(line', air')
  <2>1. \A i \in 1..Len(line') : i \in 1..Len(line) \/ i = Len(line) + 1
    BY <1>3
  <2>2. OnlyNoise(line) => OnlyNoise(line')
    BY <1>3, <2>1 DEF OnlyNoise
  <2> QED
    BY <1>2, <2>2 DEF NothingLeft
<1>7. OneReply(call, line, air) => OneReply(call', line', air')
  BY <1>1, <1>2, NoiseKeeps DEF LineTypes
<1>8. Orderly'
  BY <1>2, <1>6, <1>7 DEF RtuIInv, Orderly
<1>9. RtuTypeOK'
  BY <1>5, TypesSuffice
<1> QED
  BY <1>2, <1>8, <1>9 DEF RtuIInv, Phases, NoFalseAlarm, AnswersBelong

LEMMA UnplugStep ==
  ASSUME RtuIInv, Unplug
  PROVE  RtuIInv'
<1>1. LineTypes
  BY TypesSuffice DEF RtuIInv
<1>2. /\ plugged' = FALSE /\ line' = << >> /\ air' = << >>
      /\ s' \in [Slaves -> {"closed", "open", "dead"}]
      /\ UNCHANGED <<phase, call, outcome, mine, failed, noise>>
  BY <1>1 DEF Unplug, LineTypes
<1>3. LineTypes'
  BY <1>1, <1>2, EmptySeq DEF LineTypes
<1>4. /\ NothingLeft(line', air') /\ Quiet(line')
      /\ OneReply(call', line', air')
  BY <1>2 DEF NothingLeft, OnlyNoise, Quiet, OneReply
<1>5. Orderly'
  BY <1>4 DEF Orderly
<1>6. RtuTypeOK'
  BY <1>3, TypesSuffice
<1> QED
  BY <1>2, <1>5, <1>6 DEF RtuIInv, Phases, NoFalseAlarm, AnswersBelong

(* Calls.                                                                  *)
LEMMA CallStep ==
  ASSUME RtuIInv, NEW c \in Requests, Call(c)
  PROVE  RtuIInv'
<1>1. LineTypes
  BY TypesSuffice DEF RtuIInv
<1>2. /\ phase = "idle" /\ call' = c /\ mine' = TRUE
      /\ failed' = /\ line # << >> \/ air # << >>
                   /\ failed \/ outcome \notin Answered
      /\ noise' = (noise /\ line # << >>)
      /\ UNCHANGED <<s, plugged, line, air>>
      /\ \/ phase' = "idle" /\ outcome' = "refused"
         \/ phase' = "sending" /\ outcome' = "none"
  BY DEF Call, Answered
<1>3. LineTypes'
  BY <1>1, <1>2 DEF LineTypes, CallOutcomes
<1>4. ASSUME ~failed'
      PROVE  NothingLeft(line, air)
  <2>1. CASE line = << >> /\ air = << >>
    BY <2>1 DEF NothingLeft, OnlyNoise
  <2>2. CASE ~failed /\ outcome \in Answered
    BY <1>2, <2>2 DEF RtuIInv, Orderly
  <2> QED
    BY <1>1, <1>2, <1>4, <2>1, <2>2 DEF LineTypes
<1>5. ASSUME ~failed', ~noise'
      PROVE  Quiet(line)
  <2>1. CASE line = << >>
    BY <2>1 DEF Quiet
  <2>2. CASE line # << >>
    <3>1. ~noise /\ ~failed
      BY <1>1, <1>2, <1>5, <2>2 DEF LineTypes
    <3> QED
      BY <3>1 DEF RtuIInv, Orderly
  <2> QED
    BY <2>1, <2>2
<1>6. Orderly'
  BY <1>2, <1>4, <1>5 DEF Orderly
<1>7. RtuTypeOK'
  BY <1>3, TypesSuffice
<1> QED
  BY <1>2, <1>6, <1>7
  DEF RtuIInv, Phases, NoFalseAlarm, AnswersBelong, Mismatches

(* A call that ends as nothing that was answered leaves what it leaves;    *)
(* one that was answered must leave nothing.                               *)
LEMMA EndCallStep ==
  ASSUME RtuIInv, NEW result \in CallOutcomes \ {"none"},
         NEW rest \in Seq(Pieces), EndCall(result, rest),
         s' \in [Slaves -> {"closed", "open", "dead"}], mine' \in BOOLEAN,
         result \in Mismatches => failed \/ noise,
         ~failed /\ result \in Answered => NothingLeft(rest, air),
         ~failed /\ ~noise => Quiet(rest),
         result \in {"ok", "exception"} /\ ~failed => mine'
  PROVE  RtuIInv'
<1>1. LineTypes /\ air \in Seq(Pieces)
  BY TypesSuffice DEF RtuIInv
<1>2. /\ phase' = "idle" /\ outcome' = result
      /\ line' = Aged(rest) /\ air' = Aged(air)
      /\ UNCHANGED <<plugged, call, failed, noise>>
  BY DEF EndCall
<1>3. line' \in Seq(Pieces) /\ air' \in Seq(Pieces \ {Noise})
  BY <1>1, <1>2, AgedTyped DEF LineTypes
<1>4. LineTypes'
  BY <1>1, <1>2, <1>3 DEF LineTypes
<1>5. Orderly'
  BY <1>1, <1>2, AgedKeeps DEF Orderly
<1>6. RtuTypeOK'
  BY <1>4, TypesSuffice
<1> QED
  BY <1>2, <1>5, <1>6 DEF RtuIInv, Phases, NoFalseAlarm, AnswersBelong

LEMMA RecoverStep ==
  ASSUME RtuIInv, NEW result \in {"timeout", "bad slave", "bad data"},
         Recover(result),
         result # "timeout" => failed \/ noise
  PROVE  RtuIInv'
<1>1. LineTypes
  BY TypesSuffice DEF RtuIInv
<1>2. /\ phase' = "recovering" /\ outcome' = result /\ line' = << >>
      /\ UNCHANGED <<s, plugged, call, air, mine, failed, noise>>
  BY DEF Recover
<1>3. LineTypes'
  BY <1>1, <1>2, EmptySeq DEF LineTypes, CallOutcomes, Mismatches
<1>4. Quiet(line')
  BY <1>2, EmptyQuiet
<1>5. Orderly'
  BY <1>2, <1>4 DEF Orderly
<1>6. RtuTypeOK'
  BY <1>3, TypesSuffice
<1> QED
  BY <1>2, <1>5, <1>6
  DEF RtuIInv, Phases, NoFalseAlarm, AnswersBelong, Mismatches

LEMMA ReopenTyped ==
  ASSUME LineTypes, Reopen
  PROVE  s' \in [Slaves -> {"closed", "open", "dead"}]
BY DEF LineTypes, Reopen

LEMMA SendStep ==
  ASSUME RtuIInv, Send
  PROVE  RtuIInv'
<1>1. LineTypes
  BY TypesSuffice DEF RtuIInv
<1>2. /\ phase = "sending" /\ phase' = "receiving"
      /\ UNCHANGED <<s, plugged, call, line, outcome, mine, failed, noise>>
  BY DEF Send, CanSend
<1>3. air' = air \/ \E r \in Replies(call) : air' = Append(air, Whole(r))
  BY DEF Send
<1>4. air' \in Seq(Pieces \ {Noise})
  <2>1. ASSUME NEW r \in Replies(call)
        PROVE  Whole(r) \in Pieces \ {Noise}
    BY <1>1, ReplyTyped, WholeTyped DEF Arriving, LineTypes
  <2> QED
    BY <1>1, <1>3, <2>1 DEF LineTypes
<1>5. LineTypes'
  BY <1>1, <1>2, <1>4 DEF LineTypes
<1>6. NothingLeft(line, air) => OneReply(call, line, air')
  BY <1>1, <1>3, SentOnce DEF LineTypes
<1>7. Orderly'
  BY <1>2, <1>6 DEF RtuIInv, Orderly
<1>8. RtuTypeOK'
  BY <1>5, TypesSuffice
<1> QED
  BY <1>2, <1>7, <1>8 DEF RtuIInv, Phases, NoFalseAlarm, AnswersBelong

LEMMA SendRetriedStep ==
  ASSUME RtuIInv, SendRetried
  PROVE  RtuIInv'
<1>1. LineTypes
  BY TypesSuffice DEF RtuIInv
<1>2. /\ phase = "sending" /\ line' = << >>
      /\ UNCHANGED <<s, plugged, phase, call, air, outcome, mine, failed,
                     noise>>
  BY DEF SendRetried, CanSend
<1>3. LineTypes'
  BY <1>1, <1>2, EmptySeq DEF LineTypes
<1>4. Orderly'
  BY <1>2 DEF RtuIInv, Orderly, NothingLeft, OnlyNoise, Quiet
<1>5. RtuTypeOK'
  BY <1>3, TypesSuffice
<1> QED
  BY <1>2, <1>4, <1>5 DEF RtuIInv, Phases, NoFalseAlarm, AnswersBelong

(* The verdict on any message is one of five.                              *)
LEMMA VerdictTyped ==
  ASSUME NEW r
  PROVE  Verdict(r) \in {"bad slave", "exception", "bad exception", "ok",
                         "bad data"}
BY DEF Verdict

LEMMA ReceiveReplyStep ==
  ASSUME RtuIInv, ReceiveReply
  PROVE  RtuIInv'
<1> DEFINE r == line[1].reply
           v == Verdict(r)
<1>1. LineTypes
  BY TypesSuffice DEF RtuIInv
<1>2. /\ phase = "receiving" /\ BeginsWithReply(line)
      /\ \/ v \in {"bad slave", "bad data"} /\ Recover(v)
         \/ /\ v \notin {"bad slave", "bad data"}
            /\ EndCall(v, AfterReply(line))
            /\ mine' = r.own
            /\ UNCHANGED s
  BY DEF ReceiveReply, Receiving
<1>3. v \in {"bad slave", "exception", "bad exception", "ok", "bad data"}
  BY VerdictTyped
<1>4. ASSUME ~failed
      PROVE  /\ r.own = TRUE /\ v \in {"ok", "exception"}
             /\ NothingLeft(AfterReply(line), air)
  <2>1. OneReply(call, line, air)
    BY <1>2, <1>4 DEF RtuIInv, Orderly
  <2>2. r \in Replies(call) /\ NothingLeft(AfterReply(line), air)
    BY <1>1, <1>2, <2>1, TakenLeavesNothing DEF LineTypes
  <2> QED
    BY <1>1, <2>2, ReplyAccepted DEF LineTypes
<1>5. AfterReply(line) \in Seq(Pieces)
      /\ (Quiet(line) => Quiet(AfterReply(line)))
  BY <1>1, <1>2, AfterReplyTyped DEF LineTypes
<1>6. r.own \in BOOLEAN
  <2>1. /\ line[1] \in Pieces /\ IsReply(line[1])
    BY <1>1, <1>2, BeginningTyped DEF LineTypes
  <2>2. r \in Arriving
    BY <2>1, KindsApart, PieceKinds
  <2> QED
    BY <2>2, StaleTyped DEF ReplyRecords
<1>7. CASE v \in {"bad slave", "bad data"} /\ Recover(v)
  <2>1. failed
    BY <1>1, <1>4, <1>7 DEF LineTypes
  <2> QED
    BY <1>7, <2>1, RecoverStep
<1>8. CASE /\ v \notin {"bad slave", "bad data"}
           /\ EndCall(v, AfterReply(line)) /\ mine' = r.own /\ UNCHANGED s
  <2>1. v \in CallOutcomes \ {"none"}
    BY <1>3 DEF CallOutcomes, Mismatches
  <2>2. v \in Mismatches => failed \/ noise
    BY <1>1, <1>4 DEF LineTypes, Mismatches
  <2>3. ~failed /\ v \in Answered => NothingLeft(AfterReply(line), air)
    BY <1>4
  <2>4. ~failed /\ ~noise => Quiet(AfterReply(line))
    BY <1>2, <1>5 DEF RtuIInv, Orderly
  <2>5. v \in {"ok", "exception"} /\ ~failed => mine'
    BY <1>4, <1>8
  <2>6. s' \in [Slaves -> {"closed", "open", "dead"}] /\ mine' \in BOOLEAN
    BY <1>1, <1>6, <1>8 DEF LineTypes
  <2> HIDE DEF v, r
  <2> QED
    BY <1>5, <1>8, <2>1, <2>2, <2>3, <2>4, <2>5, <2>6, EndCallStep
<1> QED
  BY <1>2, <1>7, <1>8

LEMMA ReceiveGarbageStep ==
  ASSUME RtuIInv, ReceiveGarbage
  PROVE  RtuIInv'
<1>1. LineTypes
  BY TypesSuffice DEF RtuIInv
<1>2. /\ phase = "receiving" /\ line # << >>
      /\ ~BeginsWithReply(line) /\ ~WaitsForRest(line)
  BY DEF ReceiveGarbage, Receiving
<1>3. failed \/ noise
  <2> SUFFICES ASSUME ~failed, ~noise PROVE FALSE
    BY <1>1 DEF LineTypes
  <2>1. OneReply(call, line, air) /\ Quiet(line)
    BY <1>2 DEF RtuIInv, Orderly
  <2> QED
    BY <1>1, <1>2, <2>1, NoGarbage DEF LineTypes, Quiet
<1>4. CASE EndCall("bad crc", << >>) /\ UNCHANGED <<s, mine>>
  <2>1. << >> \in Seq(Pieces)
    BY EmptySeq
  <2>2. /\ "bad crc" \in CallOutcomes \ {"none"}
        /\ "bad crc" \notin Answered
    BY DEF CallOutcomes, Mismatches, Answered
  <2> QED
    BY <1>1, <1>3, <1>4, <2>1, <2>2, EmptyQuiet, EndCallStep DEF LineTypes
<1>5. CASE Recover("bad slave")
  BY <1>3, <1>5, RecoverStep
<1>6. ASSUME NEW rest \in {CutFront(line), Tail(line), CutFront(Tail(line))},
             EndCall("too many data", rest), UNCHANGED <<s, mine>>
      PROVE  RtuIInv'
  <2>1. rest \in Seq(Pieces)
    BY <1>1, <1>2, CutTyped DEF LineTypes
  <2>2. /\ "too many data" \in CallOutcomes \ {"none"}
        /\ "too many data" \notin Answered
    BY DEF CallOutcomes, Mismatches, Answered
  <2>3. ~failed /\ ~noise => Quiet(rest)
    BY <1>3
  <2> QED
    BY <1>1, <1>3, <1>6, <2>1, <2>2, <2>3, EndCallStep DEF LineTypes
<1> QED
  BY <1>4, <1>5, <1>6 DEF ReceiveGarbage

LEMMA ReceiveTimeoutStep ==
  ASSUME RtuIInv, ReceiveTimeout
  PROVE  RtuIInv'
BY RecoverStep DEF ReceiveTimeout

(* A call that ends without an answer, and without a mismatch.             *)
LEMMA UnansweredStep ==
  ASSUME RtuIInv, NEW result \in {"unsent", "reset"}, EndCall(result, line),
         s' \in [Slaves -> {"closed", "open", "dead"}], UNCHANGED mine
  PROVE  RtuIInv'
<1>1. LineTypes
  BY TypesSuffice DEF RtuIInv
<1>2. /\ result \in CallOutcomes \ {"none"}
      /\ result \notin Answered \cup Mismatches
  BY DEF CallOutcomes, Mismatches, Answered
<1>3. ~failed /\ ~noise => Quiet(line)
  BY DEF RtuIInv, Orderly
<1>4. result \notin {"ok", "exception"} /\ mine' \in BOOLEAN
  BY <1>1 DEF LineTypes
<1> QED
  BY <1>1, <1>2, <1>3, <1>4, EndCallStep DEF LineTypes

LEMMA FlushStep ==
  ASSUME RtuIInv, Flush
  PROVE  RtuIInv'
<1>1. LineTypes
  BY TypesSuffice DEF RtuIInv
<1>2. /\ phase = "recovering" /\ EndCall(outcome, << >>)
      /\ UNCHANGED <<s, mine>>
  BY DEF Flush
<1>3. outcome \in {"timeout", "bad slave", "bad data"}
  BY <1>2 DEF RtuIInv, Phases
<1>4. /\ outcome \in CallOutcomes \ {"none"}
      /\ outcome \notin Answered
  BY <1>3 DEF CallOutcomes, Mismatches, Answered
<1>5. outcome \in Mismatches => failed \/ noise
  BY DEF RtuIInv, NoFalseAlarm
<1>6. << >> \in Seq(Pieces) /\ outcome \notin {"ok", "exception"}
  BY <1>3, EmptySeq
<1>7. /\ s' \in [Slaves -> {"closed", "open", "dead"}]
      /\ mine' \in BOOLEAN
  BY <1>1, <1>2 DEF LineTypes
<1> QED
  BY <1>2, <1>4, <1>5, <1>6, <1>7, EmptyQuiet, EndCallStep

LEMMA RtuNextIInv == RtuIInv /\ [RtuNext]_rtuVars => RtuIInv'
<1> SUFFICES ASSUME RtuIInv, [RtuNext]_rtuVars
             PROVE  RtuIInv'
  OBVIOUS
<1>0. LineTypes
  BY TypesSuffice DEF RtuIInv
<1>1. CASE Arrive
  BY <1>1, ArriveStep
<1>2. CASE ArrivePart
  BY <1>2, ArrivePartStep
<1>3. CASE Disturb
  BY <1>3, DisturbStep
<1>4. CASE Unplug
  BY <1>4, UnplugStep
<1>5. CASE Plug
  BY <1>5
  DEF Plug, RtuIInv, RtuTypeOK, Phases, Orderly, NoFalseAlarm, AnswersBelong
<1>6. ASSUME NEW c \in Requests, Call(c)
      PROVE  RtuIInv'
  BY <1>6, CallStep
<1>7. CASE Send
  BY <1>7, SendStep
<1>8. CASE SendPart
  <2>1. s' \in [Slaves -> {"closed", "open", "dead"}]
    BY <1>0, <1>8 DEF SendPart, LineTypes
  <2> QED
    BY <1>8, <2>1, UnansweredStep DEF SendPart
<1>9. CASE SendRetried
  BY <1>9, SendRetriedStep
<1>10. CASE SendReopens
  <2>1. /\ s' \in [Slaves -> {"closed", "open", "dead"}]
        /\ UNCHANGED <<plugged, phase, call, line, air, outcome, mine, failed,
                       noise>>
    BY <1>0, <1>10, ReopenTyped DEF SendReopens
  <2>2. LineTypes'
    BY <1>0, <2>1 DEF LineTypes
  <2>3. RtuTypeOK'
    BY <2>2, TypesSuffice
  <2> QED
    BY <2>1, <2>3
    DEF RtuIInv, Phases, Orderly, NoFalseAlarm, AnswersBelong
<1>11. CASE ReceiveReply
  BY <1>11, ReceiveReplyStep
<1>12. CASE ReceiveGarbage
  BY <1>12, ReceiveGarbageStep
<1>13. CASE ReceiveTimeout
  BY <1>13, ReceiveTimeoutStep
<1>14. CASE ReceiveHangup
  <2>1. s' \in [Slaves -> {"closed", "open", "dead"}]
    BY <1>0, <1>14, ReopenTyped DEF ReceiveHangup
  <2> QED
    BY <1>14, <2>1, UnansweredStep DEF ReceiveHangup
<1>15. CASE Flush
  BY <1>15, FlushStep
<1>16. CASE UNCHANGED rtuVars
  BY <1>16
  DEF rtuVars, RtuIInv, RtuTypeOK, Phases, Orderly, NoFalseAlarm,
      AnswersBelong
<1> QED
  BY <1>1, <1>2, <1>3, <1>4, <1>5, <1>6, <1>7, <1>8, <1>9, <1>10, <1>11,
     <1>12, <1>13, <1>14, <1>15, <1>16 DEF RtuNext, Steps

LEMMA RtuInvariance == RtuSpec => []RtuIInv
BY RtuInitIInv, RtuNextIInv, PTL DEF RtuSpec

-----------------------------------------------------------------------------
(* The type invariant: above all, whatever is still to come fits the       *)
(* receiver's buffer of 256 bytes, and its byte count a byte, for every    *)
(* function and number of values (modbus.c:443-456, modbus-rtu.c:1203).     *)
THEOREM RtuTypeCorrect == RtuSpec => []RtuTypeOK
<1>1. RtuIInv => RtuTypeOK
  BY DEF RtuIInv
<1> QED
  BY <1>1, RtuInvariance, PTL

(* No call ends with a mismatch on an undisturbed line, unless pieces are  *)
(* left from a call that failed: the length modbus_reply gives a reply,    *)
(* the length the receiver reads and the one the client expects agree      *)
(* (modbus.c:129-163, 252-324, 511-640).                                   *)
THEOREM NoMismatch == RtuSpec => []NoFalseAlarm
<1>1. RtuIInv => NoFalseAlarm
  BY DEF RtuIInv
<1> QED
  BY <1>1, RtuInvariance, PTL

(* A call that succeeds took the reply to its own request, whatever noise  *)
(* there was, unless pieces were left from a call that failed              *)
(* (modbus.c:340-480, 1141-1184).                                          *)
THEOREM OwnAnswers == RtuSpec => []AnswersBelong
<1>1. RtuIInv => AnswersBelong
  BY DEF RtuIInv
<1> QED
  BY <1>1, RtuInvariance, PTL

-----------------------------------------------------------------------------
(* A call implements BlockingCall.                                         *)

(* The result is what the outcome says, once the call has ended.           *)
ResultLaw ==
  /\ phase = "recovering" => Result = "none"
  /\ phase # "recovering" /\ outcome \in Mismatches => Result = "mismatch"
  /\ phase # "recovering" /\ outcome \in {"unsent", "timeout", "reset"} =>
       Result = "failed"
  /\ phase # "recovering" /\ outcome \in Answered \cup {"none"} =>
       Result = outcome

LEMMA ResultOf == ResultLaw /\ ResultLaw'
<1>1. /\ Mismatches \cap {"unsent", "timeout", "reset"} = {}
      /\ (Answered \cup {"none"}) \cap
           (Mismatches \cup {"unsent", "timeout", "reset"}) = {}
  BY DEF Mismatches, Answered
<1>2. ResultLaw
  BY <1>1 DEF Result, ResultLaw
<1>3. ResultLaw'
  BY <1>1 DEF Result, ResultLaw
<1> QED
  BY <1>2, <1>3

(* A call in progress has no result.                                       *)
LEMMA NoResultYet ==
  /\ RtuIInv /\ phase # "idle" => Result = "none"
  /\ RtuIInv' /\ phase' # "idle" => Result' = "none"
<1>1. ASSUME RtuIInv, phase # "idle"
      PROVE  Result = "none"
  <2>1. phase = "recovering" \/ outcome = "none"
    BY <1>1 DEF RtuIInv, RtuTypeOK, Phases
  <2> QED
    BY <2>1, ResultOf DEF ResultLaw
<1>2. ASSUME RtuIInv', phase' # "idle"
      PROVE  Result' = "none"
  <2>1. phase' = "recovering" \/ outcome' = "none"
    BY <1>2 DEF RtuIInv, RtuTypeOK, Phases
  <2> QED
    BY <2>1, ResultOf DEF ResultLaw
<1> QED
  BY <1>1, <1>2

LEMMA CallInitRefines == RtuInit => Caller!Init
<1> SUFFICES ASSUME RtuInit PROVE Caller!Init
  OBVIOUS
<1>1. Result = "ok"
  BY ResultOf DEF ResultLaw, RtuInit, Answered
<1> QED
  BY <1>1 DEF RtuInit, Caller!Init

(* A call that goes on, or is not there, has changed nothing to its caller.*)
LEMMA Unnoticed ==
  ASSUME RtuIInv, RtuIInv', phase # "idle", phase' # "idle",
         UNCHANGED <<call, mine, failed, noise>>
  PROVE  UNCHANGED Caller!vars
<1>1. Result = "none" /\ Result' = "none"
  BY NoResultYet
<1> QED
  BY <1>1 DEF Caller!vars

LEMMA OnTheLine ==
  ASSUME UNCHANGED <<phase, call, outcome, mine, failed, noise>>
  PROVE  UNCHANGED Caller!vars
<1>1. Result' = Result
  BY DEF Result
<1> QED
  BY <1>1 DEF Caller!vars

LEMMA DisturbRefines ==
  ASSUME Disturb
  PROVE  Caller!Disturb
<1>1. UNCHANGED <<phase, call, outcome, mine, failed>> /\ noise' = TRUE
  BY DEF Disturb
<1>2. Result' = Result
  BY <1>1 DEF Result
<1> QED
  BY <1>1, <1>2 DEF Caller!Disturb

(* A call begins, or is refused: the pieces an earlier one left may harm   *)
(* it only if one has failed.                                              *)
LEMMA CallRefines ==
  ASSUME RtuIInv, NEW c \in Requests, Call(c)
  PROVE  Caller!Next
<1>1. LineTypes
  BY TypesSuffice DEF RtuIInv
<1>2. /\ phase = "idle" /\ call' = c /\ mine' = TRUE
      /\ failed' = /\ line # << >> \/ air # << >>
                   /\ failed \/ outcome \notin Answered
      /\ noise' = (noise /\ line # << >>)
      /\ \/ phase' = "idle" /\ outcome' = "refused"
         \/ phase' = "sending" /\ outcome' = "none"
  BY DEF Call, Answered
<1>3. ASSUME ~failed, Result \in {"ok", "exception", "refused"}
      PROVE  ~failed'
  <2>1. outcome \in Answered
    <3>1. outcome \notin Mismatches \cup {"unsent", "timeout", "reset", "none"}
      BY <1>2, <1>3, ResultOf DEF ResultLaw, RtuIInv, Phases
    <3> QED
      BY <1>1, <3>1 DEF LineTypes, CallOutcomes, Answered
  <2> QED
    BY <1>2, <1>3, <2>1
<1>4. failed \in BOOLEAN /\ failed' \in BOOLEAN /\ noise' \in {noise, FALSE}
  BY <1>1, <1>2 DEF LineTypes
<1>5. Caller!Take(c)
  BY <1>2, <1>3, <1>4 DEF Caller!Take, Caller!Answers
<1>6. CASE phase' = "idle" /\ outcome' = "refused"
  <2>1. Result' = "refused"
    BY <1>6, ResultOf DEF ResultLaw, Answered
  <2>2. Caller!Refuse(c)
    BY <1>2, <1>5, <1>6, <2>1 DEF Caller!Refuse
  <2> QED
    BY <2>2 DEF Caller!Next
<1>7. CASE phase' = "sending" /\ outcome' = "none"
  <2>1. Result' = "none"
    BY <1>7, ResultOf DEF ResultLaw, Answered
  <2>2. Caller!Begin(c)
    BY <1>2, <1>5, <1>7, <2>1 DEF Caller!Begin
  <2> QED
    BY <2>2 DEF Caller!Next
<1> QED
  BY <1>2, <1>6, <1>7

(* However a call ends, what it ends with is among what is promised.       *)
LEMMA EndRefines ==
  ASSUME RtuIInv', phase # "idle", NEW result, NEW rest,
         EndCall(result, rest), result # "refused"
  PROVE  Caller!Next
<1>1. LineTypes'
  <2>1. RtuTypeOK'
    BY DEF RtuIInv
  <2> QED
    BY <2>1 DEF RtuTypeOK, LineTypes
<1>2. phase' = "idle" /\ outcome' = result /\ UNCHANGED <<call, failed, noise>>
  BY DEF EndCall
<1>3. outcome' \in CallOutcomes \ {"none", "refused"}
  BY <1>1, <1>2 DEF LineTypes, RtuIInv, Phases
<1>4. Result' \in {"ok", "exception", "mismatch", "failed"}
  BY <1>2, <1>3, ResultOf DEF ResultLaw, CallOutcomes, Answered
<1>5. ~failed /\ Result' \in {"ok", "exception"} => mine'
  <2>1. Result' \in {"ok", "exception"} => outcome' \in {"ok", "exception"}
    BY <1>2, <1>3, ResultOf DEF ResultLaw, CallOutcomes, Answered
  <2> QED
    BY <1>2, <2>1 DEF RtuIInv, AnswersBelong
<1>6. ~failed /\ ~noise => Result' # "mismatch"
  <2>1. Result' = "mismatch" => outcome' \in Mismatches
    BY <1>2, <1>3, ResultOf DEF ResultLaw, CallOutcomes, Answered
  <2> QED
    BY <1>2, <2>1 DEF RtuIInv, NoFalseAlarm
<1>7. mine' \in BOOLEAN
  BY <1>1 DEF LineTypes
<1>8. Caller!End(Result')
  BY <1>2, <1>5, <1>6, <1>7 DEF Caller!End
<1> QED
  BY <1>4, <1>8 DEF Caller!Next

LEMMA CallNextRefines ==
  RtuIInv /\ RtuIInv' /\ [RtuNext]_rtuVars => [Caller!Next]_Caller!vars
<1> SUFFICES ASSUME RtuIInv, RtuIInv', [RtuNext]_rtuVars
             PROVE  [Caller!Next]_Caller!vars
  OBVIOUS
<1>1. CASE Arrive \/ ArrivePart \/ Unplug \/ Plug \/ UNCHANGED rtuVars
  <2>1. UNCHANGED <<phase, call, outcome, mine, failed, noise>>
    BY <1>1 DEF Arrive, ArrivePart, Unplug, Plug, rtuVars
  <2> QED
    BY <2>1, OnTheLine
<1>2. CASE Disturb
  BY <1>2, DisturbRefines DEF Caller!Next
<1>3. ASSUME NEW c \in Requests, Call(c)
      PROVE  [Caller!Next]_Caller!vars
  BY <1>3, CallRefines
<1>4. CASE Send \/ SendRetried \/ SendReopens
  <2>1. /\ phase # "idle" /\ phase' # "idle"
        /\ UNCHANGED <<call, mine, failed, noise>>
    BY <1>4 DEF Send, SendRetried, SendReopens, CanSend
  <2> QED
    BY <2>1, Unnoticed
<1>5. ASSUME NEW result, Recover(result), phase # "idle"
      PROVE  [Caller!Next]_Caller!vars
  <2>1. phase' # "idle" /\ UNCHANGED <<call, mine, failed, noise>>
    BY <1>5 DEF Recover
  <2> QED
    BY <1>5, <2>1, Unnoticed
<1>6. CASE SendPart
  BY <1>6, EndRefines DEF SendPart, CanSend
<1>7. CASE ReceiveReply
  <2> DEFINE v == Verdict(line[1].reply)
  <2>1. /\ phase # "idle"
        /\ Recover(v) \/ EndCall(v, AfterReply(line))
    BY <1>7 DEF ReceiveReply, Receiving
  <2>2. v # "refused"
    BY VerdictTyped
  <2> HIDE DEF v
  <2> QED
    BY <1>5, <2>1, <2>2, EndRefines
<1>8. CASE ReceiveGarbage
  <2>1. /\ phase # "idle"
        /\ \/ EndCall("bad crc", << >>)
           \/ Recover("bad slave")
           \/ \E rest : EndCall("too many data", rest)
    BY <1>8 DEF ReceiveGarbage, Receiving
  <2> QED
    BY <1>5, <2>1, EndRefines
<1>9. CASE ReceiveTimeout
  BY <1>5, <1>9 DEF ReceiveTimeout, Receiving
<1>10. CASE ReceiveHangup
  BY <1>10, EndRefines DEF ReceiveHangup
<1>11. CASE Flush
  <2>1. phase = "recovering" /\ EndCall(outcome, << >>)
    BY <1>11 DEF Flush
  <2>2. outcome # "refused"
    BY <2>1 DEF RtuIInv, Phases
  <2> QED
    BY <2>1, <2>2, EndRefines
<1> QED
  BY <1>1, <1>2, <1>3, <1>4, <1>6, <1>7, <1>8, <1>9, <1>10, <1>11
  DEF RtuNext, Steps

(* A call keeps what BlockingCall promises, for any slaves, functions and  *)
(* numbers of values: it ends once, an answer is its own unless a call     *)
(* before it failed, and one that does not fit is a sign of a disturbed    *)
(* line (modbus.c:166-208, 340-480, 511-640, 1141-1184).                   *)
THEOREM CallRefinement == RtuSpec => ImplementsBlockingCall
<1>1. RtuInit => Caller!Init
  BY CallInitRefines
<1>2. RtuIInv /\ RtuIInv' /\ [RtuNext]_rtuVars => [Caller!Next]_Caller!vars
  BY CallNextRefines
<1> QED
  BY <1>1, <1>2, RtuInvariance, PTL
  DEF RtuSpec, ImplementsBlockingCall, Caller!Spec

-----------------------------------------------------------------------------
(* The events of the machine.                                              *)

USE EventsAssumption, SequenceAssumption, RestartsAssumption

(* An event that was reported is the one in the block, unless the PLC has  *)
(* issued another since: then it counts anew.                              *)
KeptAsReported ==
  \A e \in Reporters :
    times[e] # 0 => times[e] = 1 /\ word[e] = m_sequenceID[e]

(* Between the report and the acknowledgement a patient PLC has either     *)
(* left the block alone, or issued one event, which it will not follow by  *)
(* another one: its number is not the acknowledged one.                    *)
OneIssueWhileAcking ==
  \A e \in Patient :
    acking /\ polled = e =>
      IF word[e] = m_sequenceID[e]
      THEN fate[e] # "waiting"
      ELSE acked[e] # word[e] /\ fate[e] = "waiting"

(* A PLC that waits for an acknowledgement before it issues the next event *)
(* never takes the acknowledgement of another event for it: where its      *)
(* block and the acknowledgement show the same number, the event in the    *)
(* block was dealt with, also when it was read again after a restart.  An  *)
(* acknowledgement over RTU that overwrote the event is the exception      *)
(* (ev_respond.cpp:116-133, 306-312).                                      *)
AckedIsDealtWith ==
  \A e \in Patient :
    acked[e] = word[e] /\ ~overwritten[e] => fate[e] # "waiting"

IInv == TypeOK /\ KeptAsReported /\ OneIssueWhileAcking /\ AckedIsDealtWith

-----------------------------------------------------------------------------
(* Lemmas about the operators of the model.                                *)

LEMMA StartIdIsId == StartId \in Ids
BY DEF StartId, Ids

(* A walk over the events stays among them.                                *)
LEMMA NextEventStays ==
  ASSUME polled \in 0..NumEvents, NextEvent
  PROVE  polled' \in 0..NumEvents
BY DEF NextEvent

(* Whatever a failed access does to the connection, its state stays typed. *)
LEMMA AccessFailsTyped ==
  ASSUME TypeOK, AccessFails
  PROVE  m_connectionStatus' \in BOOLEAN /\ m_plcConnectHandle' \in BOOLEAN
<1>1. CASE proto = "Fins"
  BY <1>1 DEF AccessFails
<1>2. CASE proto # "Fins"
  BY <1>2 DEF AccessFails, TypeOK, proxyVars
<1> QED
  BY <1>1, <1>2

(* A new event is reported or dropped, and waits no longer.                *)
LEMMA OutcomesDeal ==
  ASSUME NEW e, NEW f \in Outcomes(e)
  PROVE  f \in Fates /\ f # "waiting"
BY DEF Outcomes, Fates

(* An acknowledgement stays typed, touches the one event, and where it     *)
(* changes the block, marks it as overwritten.                             *)
LEMMA AcknowledgedEffect ==
  ASSUME TypeOK, NEW e \in Reporters, Acknowledged(e)
  PROVE  /\ word' \in [Reporters -> Ids] /\ acked' \in [Reporters -> Ids]
         /\ overwritten' \in [Reporters -> BOOLEAN]
         /\ acked'[e] = m_sequenceID[e]
         /\ \A d \in Reporters \ {e} :
              /\ word'[d] = word[d] /\ acked'[d] = acked[d]
              /\ overwritten'[d] = overwritten[d]
         /\ word[e] = m_sequenceID[e] => word'[e] = word[e]
         /\ overwritten[e] => overwritten'[e]
         /\ word'[e] = word[e] \/ overwritten'[e]
<1>1. acked' \in [Reporters -> Ids] /\ acked'[e] = m_sequenceID[e]
      /\ \A d \in Reporters \ {e} : acked'[d] = acked[d]
  BY DEF Acknowledged, TypeOK
<1>2. CASE proto = "RTU"
  <2>1. /\ word' \in [Reporters -> Ids] /\ word'[e] = m_sequenceID[e]
        /\ \A d \in Reporters \ {e} : word'[d] = word[d]
    BY <1>2 DEF Acknowledged, TypeOK
  <2>2. overwritten' = [overwritten EXCEPT
                          ![e] = overwritten[e] \/ word[e] # m_sequenceID[e]]
    BY <1>2 DEF Acknowledged
  <2>3. /\ overwritten' \in [Reporters -> BOOLEAN]
        /\ overwritten'[e] = (overwritten[e] \/ word[e] # m_sequenceID[e])
        /\ \A d \in Reporters \ {e} : overwritten'[d] = overwritten[d]
    BY <2>2, Zenon DEF TypeOK
  <2> QED
    BY <1>1, <2>1, <2>3
<1>3. CASE proto # "RTU"
  BY <1>1, <1>3 DEF Acknowledged, TypeOK
<1> QED
  BY <1>2, <1>3

-----------------------------------------------------------------------------
LEMMA InitIInv == Init => IInv
<1> SUFFICES ASSUME Init PROVE IInv
  OBVIOUS
<1>1. TypeOK
  <2>1. /\ proto \in {"Fins", "RTU"} /\ hasHeartBeat \in BOOLEAN
        /\ nullHeartBeat \in BOOLEAN
        /\ m_connectionStatus \in BOOLEAN /\ m_plcConnectHandle \in BOOLEAN
    BY DEF Init
  <2>2. polled \in 0..NumEvents /\ acking = FALSE /\ restarts \in 0..MaxRestarts
    BY DEF Init
  <2>3. /\ m_sequenceID \in [Reporters -> Ids]
        /\ word \in [Reporters -> Ids] /\ acked \in [Reporters -> Ids]
        /\ times \in [Reporters -> Nat]
    BY StartIdIsId DEF Init
  <2>4. fate \in [Reporters -> Fates]
    BY DEF Init, Fates
  <2>5. overwritten \in [Reporters -> BOOLEAN]
    BY Zenon DEF Init
  <2> QED
    BY <2>1, <2>2, <2>3, <2>4, <2>5 DEF TypeOK
<1>2. KeptAsReported
  BY DEF Init, KeptAsReported
<1>3. OneIssueWhileAcking
  BY DEF Init, OneIssueWhileAcking
<1>4. AckedIsDealtWith
  BY DEF Init, AckedIsDealtWith, Patient
<1> QED
  BY <1>1, <1>2, <1>3, <1>4 DEF IInv

(* The steps that change neither an event nor where the hub is in dealing  *)
(* with it keep what the invariant says of events.                         *)
LEMMA EventsUntouched ==
  ASSUME IInv, TypeOK', ~acking,
         UNCHANGED <<m_sequenceID, acking, plcVars, historyVars>>
  PROVE  IInv'
<1>1. KeptAsReported'
  BY DEF IInv, KeptAsReported, plcVars, historyVars
<1>2. OneIssueWhileAcking'
  BY DEF OneIssueWhileAcking
<1>3. AckedIsDealtWith'
  BY DEF IInv, AckedIsDealtWith, plcVars, historyVars
<1> QED
  BY <1>1, <1>2, <1>3 DEF IInv

LEMMA IssueStep ==
  ASSUME IInv, NEW e \in Reporters, Issue(e)
  PROVE  IInv'
<1> USE DEF IInv
<1>1. PICK id \in Ids \ {word[e]} : word' = [word EXCEPT ![e] = id]
  BY DEF Issue
<1>2. TypeOK'
  BY <1>1 DEF Issue, TypeOK, configVars, proxyVars, Fates
<1>3. KeptAsReported'
  BY <1>1 DEF Issue, TypeOK, KeptAsReported
<1>4. OneIssueWhileAcking'
  BY <1>1 DEF Issue, TypeOK, OneIssueWhileAcking, Patient
<1>5. AckedIsDealtWith'
  BY <1>1 DEF Issue, TypeOK, AckedIsDealtWith, Patient
<1> QED
  BY <1>2, <1>3, <1>4, <1>5

LEMMA RestartStep ==
  ASSUME IInv, Restart
  PROVE  IInv'
<1> USE DEF IInv
<1>1. TypeOK'
  <2>1. /\ nullHeartBeat' \in BOOLEAN
        /\ m_connectionStatus' \in BOOLEAN /\ m_plcConnectHandle' \in BOOLEAN
    BY DEF Restart
  <2>2. /\ polled' \in 0..NumEvents /\ acking' = FALSE
        /\ restarts' \in 0..MaxRestarts
    BY DEF Restart, TypeOK
  <2>3. m_sequenceID' \in [Reporters -> Ids] /\ times' \in [Reporters -> Nat]
    BY StartIdIsId DEF Restart
  <2> QED
    BY <2>1, <2>2, <2>3 DEF Restart, TypeOK, configVars, plcVars
<1>2. KeptAsReported'
  BY DEF Restart, KeptAsReported
<1>3. OneIssueWhileAcking'
  BY DEF Restart, OneIssueWhileAcking
<1>4. AckedIsDealtWith'
  BY DEF Restart, AckedIsDealtWith, plcVars
<1> QED
  BY <1>1, <1>2, <1>3, <1>4

LEMMA ReadNewStep ==
  ASSUME IInv, NEW e \in Reporters, ReadNew(e)
  PROVE  IInv'
<1> USE DEF IInv
<1>1. PICK f \in Outcomes(e) : fate' = [fate EXCEPT ![e] = f]
  BY DEF ReadNew
<1>2. f \in Fates /\ f # "waiting"
  BY OutcomesDeal
<1>3. TypeOK'
  BY <1>1, <1>2 DEF ReadNew, TypeOK, configVars, proxyVars, plcVars
<1>4. KeptAsReported'
  BY DEF ReadNew, IsNew, TypeOK, KeptAsReported, plcVars
<1>5. OneIssueWhileAcking'
  BY <1>1, <1>2 DEF ReadNew, TypeOK, OneIssueWhileAcking, Patient, plcVars
<1>6. AckedIsDealtWith'
  BY <1>1, <1>2 DEF ReadNew, TypeOK, AckedIsDealtWith, plcVars
<1> QED
  BY <1>3, <1>4, <1>5, <1>6

(* An acknowledgement that reached the PLC, or did not.                    *)
LEMMA AckStep ==
  ASSUME IInv, NEW e \in Reporters, AckSucceeds(e) \/ AckFails(e)
  PROVE  IInv'
<1> USE DEF IInv
<1>1. /\ acking /\ polled = e /\ acking' = FALSE /\ NextEvent
      /\ UNCHANGED <<configVars, nullHeartBeat, m_sequenceID, restarts, fate,
                     times>>
      /\ Acknowledged(e) \/ UNCHANGED <<plcVars, overwritten>>
  BY DEF AckSucceeds, AckFails
<1>2. m_connectionStatus' \in BOOLEAN /\ m_plcConnectHandle' \in BOOLEAN
  <2>1. CASE AckSucceeds(e)
    BY <2>1 DEF AckSucceeds, proxyVars, TypeOK
  <2>2. CASE AckFails(e)
    BY <2>2, AccessFailsTyped DEF AckFails
  <2> QED
    BY <2>1, <2>2
<1>3. polled' \in 0..NumEvents
  BY <1>1, NextEventStays DEF TypeOK
<1>4. OneIssueWhileAcking'
  BY <1>1 DEF OneIssueWhileAcking
<1>5. CASE Acknowledged(e)
  <2>1. TypeOK'
    BY <1>1, <1>2, <1>3, <1>5, AcknowledgedEffect DEF TypeOK, configVars
  <2>2. KeptAsReported'
    <3> SUFFICES ASSUME NEW d \in Reporters, times'[d] # 0
                 PROVE  times'[d] = 1 /\ word'[d] = m_sequenceID'[d]
      BY DEF KeptAsReported
    <3>1. times[d] = 1 /\ word[d] = m_sequenceID[d]
      BY <1>1 DEF KeptAsReported
    <3>2. word'[d] = word[d]
      BY <1>5, <3>1, AcknowledgedEffect
    <3> QED
      BY <1>1, <3>1, <3>2
  <2>3. AckedIsDealtWith'
    <3> SUFFICES ASSUME NEW d \in Patient, acked'[d] = word'[d],
                        ~overwritten'[d]
                 PROVE  fate'[d] # "waiting"
      BY DEF AckedIsDealtWith, Patient
    <3>1. d \in Reporters
      BY DEF Patient
    <3>2. CASE d # e
      BY <1>1, <1>5, <3>1, <3>2, AcknowledgedEffect
      DEF AckedIsDealtWith, Patient
    <3>3. CASE d = e
      <4>1. word'[e] = word[e] /\ acked'[e] = m_sequenceID[e]
        BY <1>5, <3>3, AcknowledgedEffect
      <4>2. word[e] = m_sequenceID[e]
        BY <4>1, <3>3
      <4> QED
        BY <1>1, <3>3, <4>2 DEF OneIssueWhileAcking
    <3> QED
      BY <3>2, <3>3
  <2> QED
    BY <1>4, <2>1, <2>2, <2>3
<1>6. CASE UNCHANGED <<plcVars, overwritten>>
  <2>1. TypeOK'
    BY <1>1, <1>2, <1>3, <1>6 DEF TypeOK, configVars, plcVars
  <2>2. KeptAsReported'
    BY <1>1, <1>6 DEF KeptAsReported, plcVars
  <2>3. AckedIsDealtWith'
    BY <1>1, <1>6 DEF AckedIsDealtWith, plcVars
  <2> QED
    BY <1>4, <2>1, <2>2, <2>3
<1> QED
  BY <1>1, <1>5, <1>6

LEMMA NextIInv == IInv /\ [Next]_vars => IInv'
<1> SUFFICES ASSUME IInv, [Next]_vars
             PROVE  IInv'
  OBVIOUS
<1>0. TypeOK
  BY DEF IInv
<1>1. ASSUME NEW e \in Reporters, Issue(e)
      PROVE  IInv'
  BY <1>1, IssueStep
<1>2. CASE Reconnect
  <2>1. TypeOK'
    BY <1>0, <1>2
    DEF Reconnect, TypeOK, configVars, plcVars, historyVars
  <2>2. ~acking
    BY <1>0, <1>2 DEF Reconnect, TypeOK, Reporters
  <2> QED
    BY <1>2, <2>1, <2>2, EventsUntouched DEF Reconnect
<1>3. CASE OnHeartBeat
  <2>1. m_connectionStatus' \in BOOLEAN /\ m_plcConnectHandle' \in BOOLEAN
    BY <1>0, <1>3, AccessFailsTyped DEF OnHeartBeat, TypeOK, proxyVars
  <2>2. nullHeartBeat' \in BOOLEAN
    BY <1>0, <1>3 DEF OnHeartBeat, TypeOK
  <2>3. TypeOK'
    BY <1>0, <1>3, <2>1, <2>2
    DEF OnHeartBeat, TypeOK, configVars, plcVars, historyVars
  <2>4. ~acking
    BY <1>0, <1>3 DEF OnHeartBeat, TypeOK, Reporters
  <2> QED
    BY <1>3, <2>3, <2>4, EventsUntouched DEF OnHeartBeat
<1>4. CASE Restart
  BY <1>4, RestartStep
<1>5. CASE StartPoll
  <2>1. ~acking
    BY <1>0, <1>5 DEF StartPoll, TypeOK, Reporters
  <2>2. 1 \in 0..NumEvents
    OBVIOUS
  <2>3. TypeOK'
    BY <1>0, <1>5, <2>1, <2>2
    DEF StartPoll, TypeOK, configVars, proxyVars, plcVars, historyVars
  <2> QED
    BY <1>5, <2>1, <2>3, EventsUntouched DEF StartPoll
<1>6. CASE Skip
  <2>1. polled' \in 0..NumEvents
    BY <1>0, <1>6, NextEventStays DEF Skip, TypeOK
  <2>2. TypeOK'
    BY <1>0, <1>6, <2>1
    DEF Skip, Sniffing, TypeOK, configVars, proxyVars, plcVars, historyVars
  <2> QED
    BY <1>6, <2>2, EventsUntouched DEF Skip, Sniffing
<1>7. CASE SniffNull
  BY <1>7, RestartStep DEF SniffNull
<1>8. CASE ReadFails
  <2>1. polled' \in 0..NumEvents
    BY <1>0, <1>8, NextEventStays DEF ReadFails, TypeOK
  <2>2. m_connectionStatus' \in BOOLEAN /\ m_plcConnectHandle' \in BOOLEAN
    BY <1>0, <1>8, AccessFailsTyped DEF ReadFails
  <2>3. TypeOK'
    BY <1>0, <1>8, <2>1, <2>2
    DEF ReadFails, Reads, Sniffing, TypeOK, configVars, plcVars, historyVars
  <2> QED
    BY <1>8, <2>3, EventsUntouched DEF ReadFails, Reads, Sniffing
<1>9. ASSUME NEW e \in 1..NumEvents, ReadOld(e)
      PROVE  IInv'
  <2>1. polled' \in 0..NumEvents
    BY <1>0, <1>9, NextEventStays DEF ReadOld, TypeOK
  <2>2. TypeOK'
    BY <1>0, <1>9, <2>1
    DEF ReadOld, Reads, Sniffing, TypeOK, configVars, proxyVars, plcVars,
        historyVars
  <2> QED
    BY <1>9, <2>2, EventsUntouched DEF ReadOld, Reads, Sniffing
<1>10. ASSUME NEW e \in 1..NumEvents, ReadNew(e)
       PROVE  IInv'
  <2>1. e \in Reporters
    BY <1>10 DEF ReadNew, IsNew, Reporters
  <2> QED
    BY <1>10, <2>1, ReadNewStep
<1>11. ASSUME NEW e \in Reporters, AckSucceeds(e) \/ AckFails(e)
       PROVE  IInv'
  BY <1>11, AckStep
<1>12. CASE UNCHANGED vars
  BY <1>12
  DEF vars, configVars, proxyVars, plcVars, historyVars, IInv, TypeOK,
      KeptAsReported, OneIssueWhileAcking, AckedIsDealtWith
<1> QED
  BY <1>1, <1>2, <1>3, <1>4, <1>5, <1>6, <1>7, <1>8, <1>9, <1>10, <1>11,
     <1>12 DEF Next, Polls, ReadSucceeds

LEMMA Invariance == Spec => []IInv
BY InitIInv, NextIInv, PTL DEF Spec

-----------------------------------------------------------------------------
(* The type invariant: a walk over the events stays among them, and what   *)
(* is acknowledged is an event that is reported (machine.cpp:83-98).       *)
THEOREM TypeCorrect == Spec => []TypeOK
<1>1. IInv => TypeOK
  BY DEF IInv
<1> QED
  BY <1>1, Invariance, PTL

(* No event is reported twice in one run of the hub, whichever             *)
(* acknowledgements are lost (ev_respond.cpp:244-313).                     *)
THEOREM NeverReportedTwice == Spec => []ReportedOnce
<1>1. IInv => ReportedOnce
  BY DEF IInv, TypeOK, KeptAsReported, ReportedOnce
<1> QED
  BY <1>1, Invariance, PTL

(* A patient PLC never takes the acknowledgement of another event for that *)
(* of the one in its block, across lost connections, lost acknowledgements *)
(* and restarts (ev_respond.cpp:116-133, 306-312).                         *)
THEOREM NoFalseAcknowledgement == Spec => []AckedIsDealtWith
<1>1. IInv => AckedIsDealtWith
  BY DEF IInv
<1> QED
  BY <1>1, Invariance, PTL

-----------------------------------------------------------------------------
(* The hub implements EventDelivery for the events of patient PLCs.        *)

(* What a PLC sees of an event depends on the event alone.                 *)
LEMMA StatusUntouched ==
  ASSUME NEW e, word'[e] = word[e], acked'[e] = acked[e],
         fate'[e] = fate[e], overwritten'[e] = overwritten[e]
  PROVE  Status(e)' = Status(e)
BY DEF Status

(* What one step may do to the event it is about.                          *)
EventStep(e) ==
  \/ Status(e)' = Status(e) /\ times'[e] = times[e]
  \/ /\ Status(e) \in {"acknowledged", "lost"}
     /\ Status(e)' = "waiting" /\ times'[e] = 0
  \/ /\ times[e] = 0 /\ times'[e] = 1
     /\ Status(e)' =
          IF Status(e) = "waiting" THEN "dealt with" ELSE Status(e)
  \/ /\ Status(e) = "dealt with" /\ Status(e)' = "acknowledged"
     /\ times'[e] = times[e]
  \/ /\ proto = "RTU" /\ Status(e) = "waiting" /\ Status(e)' = "lost"
     /\ times'[e] = times[e]

(* A step about one event is a step of the protocol for that event, or     *)
(* none, as it is where the PLC of the event does not wait.                *)
LEMMA OneEventTouched ==
  ASSUME NEW e \in Reporters, proto' = proto,
         \A d \in Patient \ {e} :
           Status(d)' = Status(d) /\ times'[d] = times[d],
         e \in Patient => EventStep(e)
  PROVE  [Delivery!Next]_Delivery!vars
<1> DEFINE st == [d \in Patient |-> Status(d)]
           tl == [d \in Patient |-> times[d]]
<1>0. Patient' = Patient
  BY DEF Patient
<1>1. CASE e \notin Patient
  <2>1. st' = st /\ tl' = tl
    BY <1>1
  <2> QED
    BY <2>1 DEF Delivery!vars
<1>2. CASE e \in Patient
  <2>0. /\ st \in [Patient -> {Status(d) : d \in Patient}]
        /\ st[e] = Status(e) /\ tl[e] = times[e]
    BY <1>2
  <2>1. CASE Status(e)' = Status(e) /\ times'[e] = times[e]
    <3>1. st' = st /\ tl' = tl
      BY <2>1
    <3> QED
      BY <3>1 DEF Delivery!vars
  <2>2. CASE /\ Status(e) \in {"acknowledged", "lost"}
             /\ Status(e)' = "waiting" /\ times'[e] = 0
    <3>1. /\ st' = [st EXCEPT ![e] = "waiting"]
          /\ tl' = [tl EXCEPT ![e] = 0]
      BY <1>2, <2>2
    <3>2. Delivery!Issue(e)
      BY <2>0, <2>2, <3>1 DEF Delivery!Issue
    <3> QED
      BY <1>2, <3>2 DEF Delivery!Next
  <2>3. CASE /\ times[e] = 0 /\ times'[e] = 1
             /\ Status(e)' =
                  IF Status(e) = "waiting" THEN "dealt with" ELSE Status(e)
    <3>1. /\ st' = [st EXCEPT
                      ![e] = IF @ = "waiting" THEN "dealt with" ELSE @]
          /\ tl' = [tl EXCEPT ![e] = 1]
      BY <1>2, <2>3
    <3>2. Delivery!Deal(e)
      BY <2>0, <2>3, <3>1 DEF Delivery!Deal
    <3> QED
      BY <1>2, <3>2 DEF Delivery!Next
  <2>4. CASE /\ Status(e) = "dealt with" /\ Status(e)' = "acknowledged"
             /\ times'[e] = times[e]
    <3>1. st' = [st EXCEPT ![e] = "acknowledged"] /\ tl' = tl
      BY <1>2, <2>4
    <3>2. Delivery!Acknowledge(e)
      BY <2>0, <2>4, <3>1 DEF Delivery!Acknowledge
    <3> QED
      BY <1>2, <3>2 DEF Delivery!Next
  <2>5. CASE /\ proto = "RTU" /\ Status(e) = "waiting"
             /\ Status(e)' = "lost" /\ times'[e] = times[e]
    <3>1. st' = [st EXCEPT ![e] = "lost"] /\ tl' = tl
      BY <1>2, <2>5
    <3>2. Delivery!Lose(e)
      BY <2>0, <2>5, <3>1 DEF Delivery!Lose
    <3> QED
      BY <1>2, <3>2 DEF Delivery!Next
  <2> QED
    BY <1>2, <2>1, <2>2, <2>3, <2>4, <2>5 DEF EventStep
<1> QED
  BY <1>1, <1>2

(* What neither PLC nor upper computer sees.                               *)
LEMMA NoEventTouched ==
  ASSUME UNCHANGED <<configVars, plcVars, historyVars>>
  PROVE  UNCHANGED Delivery!vars
<1>1. \A e \in Patient : Status(e)' = Status(e)
  BY StatusUntouched DEF plcVars, historyVars
<1>2. [e \in Patient |-> Status(e)]' = [e \in Patient |-> Status(e)]
  BY <1>1
<1> QED
  BY <1>2 DEF Delivery!vars, configVars, historyVars

LEMMA InitRefines == Init => Delivery!Init
<1> SUFFICES ASSUME Init PROVE Delivery!Init
  OBVIOUS
<1>1. ASSUME NEW e \in Patient
      PROVE  /\ Status(e) \in {"waiting", "acknowledged"}
             /\ times[e] = 0
  <2>1. e \in Reporters /\ overwritten[e] = FALSE
    BY DEF Patient, Init
  <2>2. acked[e] # word[e] => fate[e] = "waiting"
    BY <2>1 DEF Init
  <2> QED
    BY <2>1, <2>2 DEF Init, Status
<1> QED
  BY <1>1 DEF Delivery!Init

LEMMA IssueRefines ==
  ASSUME IInv, NEW e \in Reporters, Issue(e)
  PROVE  [Delivery!Next]_Delivery!vars
<1> USE DEF IInv
<1>1. PICK id \in Ids \ {word[e]} : word' = [word EXCEPT ![e] = id]
  BY DEF Issue
<1>2. /\ word'[e] # word[e] /\ acked' = acked /\ proto' = proto
      /\ fate'[e] = "waiting" /\ times'[e] = 0 /\ overwritten'[e] = FALSE
      /\ \A d \in Reporters \ {e} :
           /\ word'[d] = word[d] /\ fate'[d] = fate[d]
           /\ times'[d] = times[d] /\ overwritten'[d] = overwritten[d]
  BY <1>1 DEF Issue, TypeOK, configVars
<1>3. ASSUME e \in Patient
      PROVE  EventStep(e)
  <2>1. acked[e] = word[e]
    BY <1>3 DEF Issue, Patient
  <2>2. Status(e) \in {"acknowledged", "lost"}
    BY <2>1 DEF Status, TypeOK
  <2>3. Status(e)' = "waiting"
    BY <1>2, <2>1 DEF Status
  <2> QED
    BY <1>2, <2>2, <2>3 DEF EventStep
<1>4. \A d \in Patient \ {e} :
        Status(d)' = Status(d) /\ times'[d] = times[d]
  BY <1>2, StatusUntouched DEF Patient
<1> QED
  BY <1>2, <1>3, <1>4, OneEventTouched

LEMMA RestartRefines ==
  ASSUME Restart
  PROVE  Delivery!Next
<1>1. \A e \in Patient : Status(e)' = Status(e)
  BY StatusUntouched DEF Restart, plcVars
<1>2. [e \in Patient |-> Status(e)]' = [e \in Patient |-> Status(e)]
  BY <1>1
<1>3. [e \in Patient |-> times[e]]' = [e \in Patient |-> 0]
  BY DEF Restart, Patient
<1> QED
  BY <1>2, <1>3 DEF Restart, configVars, Delivery!Next, Delivery!Restart

LEMMA ReadNewRefines ==
  ASSUME IInv, NEW e \in Reporters, ReadNew(e)
  PROVE  [Delivery!Next]_Delivery!vars
<1> USE DEF IInv
<1>1. PICK f \in Outcomes(e) : fate' = [fate EXCEPT ![e] = f]
  BY DEF ReadNew
<1>2. f # "waiting"
  BY OutcomesDeal
<1>3. /\ UNCHANGED <<proto, word, acked, overwritten>>
      /\ fate'[e] # "waiting" /\ times'[e] = times[e] + 1
      /\ \A d \in Reporters \ {e} :
           fate'[d] = fate[d] /\ times'[d] = times[d]
  BY <1>1, <1>2 DEF ReadNew, TypeOK, configVars, plcVars
<1>4. times[e] = 0 /\ times'[e] = 1
  BY <1>3 DEF KeptAsReported, ReadNew, IsNew
<1>5. Status(e)' = IF Status(e) = "waiting" THEN "dealt with" ELSE Status(e)
  BY <1>3 DEF Status, TypeOK
<1>6. EventStep(e)
  BY <1>4, <1>5, Zenon DEF EventStep
<1>7. \A d \in Patient \ {e} :
        Status(d)' = Status(d) /\ times'[d] = times[d]
  BY <1>3, StatusUntouched DEF Patient
<1> QED
  BY <1>3, <1>6, <1>7, OneEventTouched

LEMMA AckRefines ==
  ASSUME IInv, NEW e \in Reporters, AckSucceeds(e) \/ AckFails(e)
  PROVE  [Delivery!Next]_Delivery!vars
<1> USE DEF IInv
<1>1. /\ acking /\ polled = e
      /\ UNCHANGED <<configVars, m_sequenceID, fate, times>>
      /\ Acknowledged(e) \/ UNCHANGED <<plcVars, overwritten>>
  BY DEF AckSucceeds, AckFails
<1>2. CASE Acknowledged(e)
  <2>1. \A d \in Patient \ {e} :
          Status(d)' = Status(d) /\ times'[d] = times[d]
    BY <1>1, <1>2, AcknowledgedEffect, StatusUntouched DEF Patient
  <2>2. ASSUME e \in Patient
        PROVE  EventStep(e)
    <3>1. CASE word[e] = m_sequenceID[e]
      <4>1. fate[e] # "waiting"
        BY <1>1, <2>2, <3>1 DEF OneIssueWhileAcking
      <4>2. /\ word'[e] = word[e] /\ acked'[e] = word[e] /\ fate' = fate
            /\ times' = times
        BY <1>1, <1>2, <3>1, AcknowledgedEffect
      <4>3. overwritten'[e] = overwritten[e]
        BY <1>2, <3>1 DEF Acknowledged, TypeOK
      <4> QED
        BY <4>1, <4>2, <4>3 DEF Status, EventStep, TypeOK
    <3>2. CASE word[e] # m_sequenceID[e]
      <4>1. acked[e] # word[e] /\ fate[e] = "waiting"
        BY <1>1, <2>2, <3>2 DEF OneIssueWhileAcking
      <4>2. acked'[e] = m_sequenceID[e] /\ fate' = fate /\ times' = times
        BY <1>1, <1>2, AcknowledgedEffect
      <4>3. CASE proto = "RTU"
        <5>1. overwritten'[e] = TRUE
          BY <1>2, <3>2, <4>3, Zenon DEF Acknowledged, TypeOK
        <5>2. Status(e)' = "lost"
          BY <5>1 DEF Status
        <5> QED
          BY <4>1, <4>2, <4>3, <5>2 DEF Status, EventStep, TypeOK
      <4>4. CASE proto # "RTU"
        <5>1. word' = word /\ overwritten' = overwritten
          BY <1>2, <4>4 DEF Acknowledged
        <5> QED
          BY <3>2, <4>1, <4>2, <5>1 DEF Status, EventStep, TypeOK
      <4> QED
        BY <4>3, <4>4
    <3> QED
      BY <3>1, <3>2
  <2> QED
    BY <1>1, <2>1, <2>2, OneEventTouched DEF configVars
<1>3. CASE UNCHANGED <<plcVars, overwritten>>
  BY <1>1, <1>3, NoEventTouched DEF historyVars
<1> QED
  BY <1>1, <1>2, <1>3

LEMMA NextRefines ==
  IInv /\ [Next]_vars => [Delivery!Next]_Delivery!vars
<1> SUFFICES ASSUME IInv, [Next]_vars
             PROVE  [Delivery!Next]_Delivery!vars
  OBVIOUS
<1>1. ASSUME NEW e \in Reporters, Issue(e)
      PROVE  [Delivery!Next]_Delivery!vars
  BY <1>1, IssueRefines
<1>2. CASE \/ Reconnect \/ OnHeartBeat \/ StartPoll \/ Skip \/ ReadFails
           \/ (\E e \in 1..NumEvents : ReadOld(e)) \/ UNCHANGED vars
  <2>1. UNCHANGED <<configVars, plcVars, historyVars>>
    BY <1>2
    DEF Reconnect, OnHeartBeat, StartPoll, Skip, ReadFails, ReadOld, vars
  <2> QED
    BY <2>1, NoEventTouched
<1>3. CASE Restart \/ SniffNull
  BY <1>3, RestartRefines DEF SniffNull
<1>4. ASSUME NEW e \in 1..NumEvents, ReadNew(e)
      PROVE  [Delivery!Next]_Delivery!vars
  <2>1. e \in Reporters
    BY <1>4 DEF ReadNew, IsNew, Reporters
  <2> QED
    BY <1>4, <2>1, ReadNewRefines
<1>5. ASSUME NEW e \in Reporters, AckSucceeds(e) \/ AckFails(e)
      PROVE  [Delivery!Next]_Delivery!vars
  BY <1>5, AckRefines
<1> QED
  BY <1>1, <1>2, <1>3, <1>4, <1>5 DEF Next, Polls, ReadSucceeds

(* The hub keeps what EventDelivery promises to a PLC that waits for its   *)
(* acknowledgements, and to the upper computer, for any number of events,  *)
(* sequence numbers and restarts (ev_respond.cpp:116-133, 244-313).        *)
THEOREM DeliveryRefinement == Spec => ImplementsEventDelivery
<1>1. Spec => []IInv
  BY Invariance
<1>2. Init => Delivery!Init
  BY InitRefines
<1>3. IInv /\ [Next]_vars => [Delivery!Next]_Delivery!vars
  BY NextRefines
<1> QED
  BY <1>1, <1>2, <1>3, PTL DEF Spec, ImplementsEventDelivery, Delivery!Spec
=============================================================================
