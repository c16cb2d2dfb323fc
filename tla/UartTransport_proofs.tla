--------------------------- MODULE UartTransport_proofs ---------------------------
(***************************************************************************)
(* Proofs about UartTransport: for FIFOs and packets of any size and any    *)
(* timeout, a read returns exactly one packet of a host that makes no pause *)
(* in it, or nothing after exactly its timeout.                            *)
(***************************************************************************)
EXTENDS UartTransport, Integers, SequenceTheorems, TLAPS

\* The steps of a read, and those in which something is known to be in the FIFO.
Reading == {"check", "measure", "settle", "copy", "delay"}
Receiving == {"measure", "settle", "copy"}

\* The counter of a read and the time spent add up to the timeout.
CountedDown ==
  /\ at \in Reading => /\ elapsed + timeout = Timeout /\ timeout # 0
                       /\ status = "TIMEOUT" /\ data = <<>>
  /\ at \notin Reading /\ status = "TIMEOUT" => elapsed = Timeout /\ data = <<>>

\* A response is written where it says so, and a read takes only what is there.
Flow ==
  /\ at = "write" <=> unwritten # 0
  /\ at # "idle" => ~owed
  /\ at = "off" => rx = <<>>
  /\ at \in Receiving => rx # <<>>
  /\ at \in {"settle", "copy"} => byteCount <= Len(rx)

\* The FIFO holds the last bytes that were sent, in order, and all of them unless the
\* packet was cut or has been read.
InOrder ==
  /\ length <= Depth
  /\ Len(rx) <= sent
  /\ \A k \in 1..Len(rx) : rx[k] = <<length, sent - Len(rx) + k>>
  /\ ~cut => Len(rx) = sent \/ (rx = <<>> /\ sent = length)

\* Host and device take turns: whoever has something to say is waited for.
Turns ==
  /\ owed \/ unwritten # 0 \/ tx # 0 => rx = <<>> /\ sent = length /\ waiting
  /\ owed => tx = 0 /\ unwritten = 0
  /\ rx # <<>> \/ sent # length => waiting

\* The level is still when all of the packet is there, and only then.
Settled ==
  /\ at = "settle" /\ heard => byteCount < Len(rx)
  /\ at = "copy" => byteCount = Len(rx) /\ sent = length

Steady == host = "steady" => InOrder /\ Turns /\ Settled

UartInv == TypeOK /\ CountedDown /\ Flow /\ Steady /\ WholePackets

\* What a read takes of the FIFO has its type, and so has the rest.
LEMMA CopyTypes ==
  ASSUME TypeOK
  PROVE  LET n == UART_BYTES_TO_COPY
         IN  /\ SubSeq(rx, 1, n) \in Seq(Bytes) \/ n > Len(rx)
             /\ SubSeq(rx, n + 1, Len(rx)) \in Seq(Bytes)
             /\ Len(SubSeq(rx, 1, n)) <= BufferSize
             /\ Len(SubSeq(rx, n + 1, Len(rx))) <= Depth
             /\ n \in 0..BufferSize
<1>1. byteCount \in Nat /\ BufferSize \in Nat /\ Depth \in Nat
  BY SizesAssumption DEF TypeOK
<1>2. UART_BYTES_TO_COPY \in 0..BufferSize BY <1>1 DEF UART_BYTES_TO_COPY
<1>3. rx \in Seq(Bytes) /\ Len(rx) \in Nat /\ Len(rx) <= Depth
  BY LenProperties DEF TypeOK
<1> DEFINE n == UART_BYTES_TO_COPY
<1> HIDE DEF n
<1>4. n \in 0..BufferSize BY <1>2 DEF n
<1>5. n \in Nat BY <1>1, <1>4
<1>6. SubSeq(rx, 1, n) \in Seq(Bytes) \/ n > Len(rx)
  BY <1>3, <1>5, SubSeqProperties
<1>7. Len(SubSeq(rx, 1, n)) <= BufferSize
  BY <1>1, <1>3, <1>4, <1>5
<1>8. /\ SubSeq(rx, n + 1, Len(rx)) \in Seq(Bytes)
      /\ Len(SubSeq(rx, n + 1, Len(rx))) <= Depth
  BY <1>1, <1>3, <1>5, SubSeqProperties
<1> QED BY <1>4, <1>6, <1>7, <1>8 DEF n

\* A byte that arrives is put behind the others, unless the FIFO is full.
LEMMA ArriveTypes ==
  ASSUME TypeOK, ByteArrives
  PROVE  /\ rx' \in Seq(Bytes) /\ Len(rx') <= Depth
         /\ rx' \in {rx, Append(rx, <<length, sent + 1>>)}
         /\ Len(rx') \in {Len(rx), Len(rx) + 1}
<1>1. rx \in Seq(Bytes) /\ Len(rx) \in Nat /\ Len(rx) <= Depth /\ Depth \in Nat
  BY LenProperties, SizesAssumption DEF TypeOK
<1>2. length \in Nat /\ sent \in Nat /\ sent < length /\ length \in Lengths
  BY HostsAssumption DEF TypeOK, ByteArrives
<1>3. <<length, sent + 1>> \in Bytes BY <1>2 DEF Bytes
<1>4. /\ Append(rx, <<length, sent + 1>>) \in Seq(Bytes)
      /\ Len(Append(rx, <<length, sent + 1>>)) = Len(rx) + 1
  BY <1>1, <1>3, AppendProperties
<1>5. rx' = IF at # "off" /\ Len(rx) < Depth THEN Append(rx, <<length, sent + 1>>) ELSE rx
  BY DEF ByteArrives
<1> QED BY <1>1, <1>4, <1>5

\* A step keeps the types.
LEMMA TypeStep == UartInv /\ [Next]_vars => TypeOK'
<1> SUFFICES ASSUME UartInv, [Next]_vars PROVE TypeOK'
  OBVIOUS
<1>0. TypeOK /\ CountedDown /\ Flow BY DEF UartInv
<1> USE DEF TypeOK, Reading, Receiving, read, peer
<1>1. CASE BeginRead
  <2>1. Timeout \in 0..Timeout /\ 0 \in 0..Timeout /\ 0 \in 0..Depth
    BY TimeoutAssumption, SizesAssumption
  <2>2. <<>> \in Seq(Bytes) /\ Len(<<>>) <= BufferSize BY EmptySeq, SizesAssumption
  <2> QED BY <1>0, <1>1, <2>1, <2>2 DEF BeginRead
<1>2. CASE CheckStart BY <1>0, <1>2 DEF CheckStart
<1>3. CASE Measure
  <2>1. Len(rx) \in 0..Depth BY <1>0, LenProperties, SizesAssumption
  <2> QED BY <1>0, <1>3, <2>1 DEF Measure
<1>4. CASE Settle BY <1>0, <1>4 DEF Settle
<1>5. CASE Copy
  <2>1. ~(UART_BYTES_TO_COPY > Len(rx))
    <3>1. byteCount \in Nat /\ BufferSize \in Nat /\ byteCount <= Len(rx) /\ Len(rx) \in Nat
      BY <1>0, <1>5, LenProperties, SizesAssumption DEF Copy, Flow
    <3> QED BY <3>1 DEF UART_BYTES_TO_COPY
  <2>2. data' \in Seq(Bytes) /\ Len(data') <= BufferSize
    BY <1>0, <1>5, <2>1, CopyTypes DEF Copy
  <2>3. rx' \in Seq(Bytes) /\ Len(rx') <= Depth BY <1>0, <1>5, CopyTypes DEF Copy
  <2>4. 0 \in 0..Timeout /\ 0 \in 0..Depth BY TimeoutAssumption, SizesAssumption
  <2> QED BY <1>0, <1>5, <2>2, <2>3, <2>4 DEF Copy
<1>6. CASE Delay
  <2>1. timeout - 1 \in 0..Timeout /\ elapsed + 1 \in 0..Timeout
    BY <1>0, <1>6, TimeoutAssumption DEF Delay, CountedDown
  <2> QED BY <1>0, <1>6, <2>1 DEF Delay
<1>7. CASE PutByte
  <2>1. tx + 1 \in 0..Depth BY <1>0, <1>7, SizesAssumption DEF PutByte
  <2>2. unwritten - 1 \in 0..Response BY <1>0, <1>7, HostsAssumption DEF PutByte, Flow
  <2> QED BY <1>0, <1>7, <2>1, <2>2 DEF PutByte
<1>8. CASE BeginWrite
  <2>1. Response \in 0..Response BY HostsAssumption
  <2>2. <<>> \in Seq(Bytes) /\ Len(<<>>) <= BufferSize BY EmptySeq, SizesAssumption
  <2> QED BY <1>0, <1>8, <2>1, <2>2 DEF BeginWrite
<1>9. CASE CommStart BY <1>0, <1>9 DEF CommStart
<1>10. CASE CommStop
  <2>1. rx' \in Seq(Bytes) /\ Len(rx') <= Depth /\ tx' \in 0..Depth
    BY <1>10, EmptySeq, SizesAssumption DEF CommStop, ClearFifos
  <2>2. cut' \in BOOLEAN BY <1>0, <1>10 DEF CommStop, ClearFifos
  <2> QED BY <1>0, <1>10, <2>1, <2>2 DEF CommStop
<1>11. CASE CommReset
  <2>1. rx' \in Seq(Bytes) /\ Len(rx') <= Depth /\ tx' \in 0..Depth
    BY <1>11, EmptySeq, SizesAssumption DEF CommReset, ClearFifos
  <2>2. cut' \in BOOLEAN BY <1>0, <1>11 DEF CommReset, ClearFifos
  <2> QED BY <1>0, <1>11, <2>1, <2>2 DEF CommReset
<1>12. CASE SystemReset
  <2>1. rx' \in Seq(Bytes) /\ Len(rx') <= Depth /\ tx' \in 0..Depth
    BY <1>12, EmptySeq, SizesAssumption DEF SystemReset, ClearFifos
  <2>2. cut' \in BOOLEAN BY <1>0, <1>12 DEF SystemReset, ClearFifos
  <2>3. data' \in Seq(Bytes) /\ Len(data') <= BufferSize
    BY <1>12, EmptySeq, SizesAssumption DEF SystemReset
  <2>4. 0 \in 0..Timeout /\ 0 \in 0..Depth /\ 0 \in 0..Response
    BY TimeoutAssumption, SizesAssumption, HostsAssumption
  <2> QED BY <1>0, <1>12, <2>1, <2>2, <2>3, <2>4 DEF SystemReset
<1>13. CASE BeginPacket
  <2>1. length' \in Lengths \cup {0} /\ sent' \in 0..length'
    BY <1>13, HostsAssumption DEF BeginPacket
  <2> QED BY <1>0, <1>13, <2>1 DEF BeginPacket
<1>14. CASE ByteArrives
  <2>1. rx' \in Seq(Bytes) /\ Len(rx') <= Depth BY <1>0, <1>14, ArriveTypes
  <2>2. sent' \in 0..length BY <1>0, <1>14, HostsAssumption DEF ByteArrives
  <2>3. heard' \in BOOLEAN /\ cut' \in BOOLEAN BY <1>0, <1>14 DEF ByteArrives
  <2> QED BY <1>0, <1>14, <2>1, <2>2, <2>3 DEF ByteArrives
<1>15. CASE ByteLeaves
  <2>1. tx - 1 \in 0..Depth BY <1>0, <1>15, SizesAssumption DEF ByteLeaves
  <2>2. waiting' \in BOOLEAN BY <1>0, <1>15 DEF ByteLeaves
  <2> QED BY <1>0, <1>15, <2>1, <2>2 DEF ByteLeaves
<1>16. CASE GiveUp BY <1>0, <1>16 DEF GiveUp
<1>17. CASE UNCHANGED vars BY <1>0, <1>17 DEF vars
<1> QED
  BY <1>1, <1>2, <1>3, <1>4, <1>5, <1>6, <1>7, <1>8,
     <1>9, <1>10, <1>11, <1>12, <1>13, <1>14, <1>15, <1>16, <1>17
  DEF Next, Device, Caller, Line, CommRead

\* A step keeps the count of a read.
LEMMA CountStep == UartInv /\ [Next]_vars => CountedDown'
<1> SUFFICES ASSUME UartInv, [Next]_vars PROVE CountedDown'
  OBVIOUS
<1>0. CountedDown /\ TypeOK BY DEF UartInv
<1> USE DEF CountedDown, Reading, read, peer
<1>1. CASE BeginRead
  <2>1. Timeout \in Nat \ {0} /\ 0 + Timeout = Timeout BY TimeoutAssumption
  <2> QED BY <1>0, <1>1, <2>1 DEF BeginRead
<1>2. CASE CheckStart BY <1>0, <1>2 DEF CheckStart
<1>3. CASE Measure BY <1>0, <1>3 DEF Measure
<1>4. CASE Settle BY <1>0, <1>4 DEF Settle
<1>5. CASE Copy BY <1>0, <1>5 DEF Copy
<1>6. CASE Delay
  <2>1. /\ elapsed \in Nat /\ timeout \in Nat \ {0} /\ elapsed + timeout = Timeout
        /\ Timeout \in Nat /\ status = "TIMEOUT" /\ data = <<>>
    BY <1>0, <1>6, TimeoutAssumption DEF Delay, TypeOK
  <2>2. elapsed' + timeout' = Timeout /\ timeout' \in Nat BY <1>6, <2>1 DEF Delay
  <2>3. status' = "TIMEOUT" /\ data' = <<>> BY <1>6, <2>1 DEF Delay
  <2>4. CASE timeout' # 0
    <3>1. at' = "check" BY <1>6, <2>4 DEF Delay
    <3> QED BY <2>2, <2>3, <2>4, <3>1
  <2>5. CASE timeout' = 0
    <3>1. at' = "idle" BY <1>6, <2>5 DEF Delay
    <3>2. elapsed' \in Nat BY <1>6, <2>1 DEF Delay
    <3>3. elapsed' + 0 = Timeout BY <2>2, <2>5
    <3>4. elapsed' = Timeout BY <3>2, <3>3
    <3> QED BY <2>3, <3>1, <3>4
  <2> QED BY <2>4, <2>5
<1>7. CASE PutByte BY <1>0, <1>7 DEF PutByte
<1>8. CASE BeginWrite BY <1>0, <1>8 DEF BeginWrite
<1>9. CASE CommStart BY <1>0, <1>9 DEF CommStart
<1>10. CASE CommStop BY <1>0, <1>10 DEF CommStop, ClearFifos
<1>11. CASE CommReset BY <1>0, <1>11 DEF CommReset, ClearFifos
<1>12. CASE SystemReset BY <1>0, <1>12 DEF SystemReset, ClearFifos
<1>13. CASE BeginPacket BY <1>0, <1>13 DEF BeginPacket
<1>14. CASE ByteArrives BY <1>0, <1>14 DEF ByteArrives
<1>15. CASE ByteLeaves BY <1>0, <1>15 DEF ByteLeaves
<1>16. CASE GiveUp BY <1>0, <1>16 DEF GiveUp
<1>17. CASE UNCHANGED vars BY <1>0, <1>17 DEF vars
<1> QED
  BY <1>1, <1>2, <1>3, <1>4, <1>5, <1>6, <1>7, <1>8,
     <1>9, <1>10, <1>11, <1>12, <1>13, <1>14, <1>15, <1>16, <1>17
  DEF Next, Device, Caller, Line, CommRead

\* A step keeps reads and responses to what is there.
LEMMA FlowStep == UartInv /\ [Next]_vars => Flow'
<1> SUFFICES ASSUME UartInv, [Next]_vars PROVE Flow'
  OBVIOUS
<1>0. Flow /\ TypeOK BY DEF UartInv
<1> USE DEF Flow, Receiving, read, peer
<1>1. CASE BeginRead BY <1>0, <1>1 DEF BeginRead
<1>2. CASE CheckStart BY <1>0, <1>2 DEF CheckStart
<1>3. CASE Measure
  <2>1. byteCount' = Len(rx') /\ Len(rx) \in Nat BY <1>0, <1>3, LenProperties DEF Measure, TypeOK
  <2> QED BY <1>0, <1>3, <2>1 DEF Measure
<1>4. CASE Settle BY <1>0, <1>4 DEF Settle
<1>5. CASE Copy BY <1>0, <1>5 DEF Copy
<1>6. CASE Delay BY <1>0, <1>6 DEF Delay
<1>7. CASE PutByte
  <2>1. unwritten \in Nat /\ unwritten # 0 /\ unwritten' = unwritten - 1
    BY <1>0, <1>7, HostsAssumption DEF PutByte, TypeOK
  <2> QED BY <1>0, <1>7, <2>1 DEF PutByte
<1>8. CASE BeginWrite BY <1>0, <1>8, HostsAssumption DEF BeginWrite
<1>9. CASE CommStart BY <1>0, <1>9 DEF CommStart
<1>10. CASE CommStop BY <1>0, <1>10 DEF CommStop, ClearFifos
<1>11. CASE CommReset BY <1>0, <1>11 DEF CommReset, ClearFifos
<1>12. CASE SystemReset BY <1>0, <1>12 DEF SystemReset, ClearFifos
<1>13. CASE BeginPacket BY <1>0, <1>13 DEF BeginPacket
<1>14. CASE ByteArrives
  <2>1. /\ Len(rx) \in Nat /\ Len(rx') \in {Len(rx), Len(rx) + 1}
        /\ rx' \in {rx, Append(rx, <<length, sent + 1>>)} /\ rx' \in Seq(Bytes)
    BY <1>0, <1>14, ArriveTypes, LenProperties DEF TypeOK
  <2>2. rx # <<>> => rx' # <<>>
    <3>1. rx # <<>> => Len(rx) # 0 BY <1>0, EmptySeq DEF TypeOK
    <3>2. rx' = <<>> => Len(rx') = 0 BY EmptySeq
    <3> QED BY <2>1, <3>1, <3>2
  <2>3. at = "off" => rx' = rx BY <1>14 DEF ByteArrives
  <2>4. byteCount \in Nat BY <1>0, SizesAssumption DEF TypeOK
  <2>5. byteCount <= Len(rx) => byteCount <= Len(rx') BY <2>1, <2>4
  <2>6. UNCHANGED <<at, unwritten, owed, byteCount>> BY <1>14 DEF ByteArrives
  <2> QED BY <1>0, <2>2, <2>3, <2>5, <2>6
<1>15. CASE ByteLeaves BY <1>0, <1>15 DEF ByteLeaves
<1>16. CASE GiveUp BY <1>0, <1>16 DEF GiveUp
<1>17. CASE UNCHANGED vars BY <1>0, <1>17 DEF vars
<1> QED
  BY <1>1, <1>2, <1>3, <1>4, <1>5, <1>6, <1>7, <1>8,
     <1>9, <1>10, <1>11, <1>12, <1>13, <1>14, <1>15, <1>16, <1>17
  DEF Next, Device, Caller, Line, CommRead

\* A read of a steady host's packet takes all that is in the FIFO.
LEMMA CopyAll ==
  ASSUME UartInv, host = "steady", Copy
  PROVE  /\ data' = rx /\ rx' = <<>>
         /\ rx # <<>> /\ sent = length /\ waiting /\ ~owed /\ unwritten = 0 /\ tx = 0
         /\ Len(rx) \in 1..length
         /\ \A k \in 1..Len(rx) : rx[k] = <<length, length - Len(rx) + k>>
         /\ ~cut => rx = Packet(length)
<1>0. TypeOK /\ Flow /\ InOrder /\ Turns /\ Settled BY DEF UartInv, Steady
<1>1. /\ byteCount = Len(rx) /\ sent = length /\ rx # <<>>
  BY <1>0 DEF Copy, Flow, Settled, Receiving
<1>2. rx \in Seq(Bytes) /\ Len(rx) \in Nat /\ Len(rx) <= BufferSize /\ BufferSize \in Nat
  BY <1>0, LenProperties, SizesAssumption DEF TypeOK
<1>3. UART_BYTES_TO_COPY = Len(rx) BY <1>1, <1>2 DEF UART_BYTES_TO_COPY
<1>4. SubSeq(rx, 1, Len(rx)) = rx BY <1>2, SubSeqFull
<1>5. SubSeq(rx, Len(rx) + 1, Len(rx)) = <<>> BY <1>2, SubSeqEmpty
<1>6. data' = rx /\ rx' = <<>> BY <1>3, <1>4, <1>5 DEF Copy
<1>7. waiting /\ ~owed /\ unwritten = 0 /\ tx = 0 BY <1>0, <1>1 DEF Turns
<1>8. ASSUME ~cut PROVE rx = Packet(length)
  <2>1. Len(rx) = length
    BY <1>0, <1>1, <1>8 DEF InOrder
  <2>2. \A k \in 1..Len(rx) : sent - Len(rx) + k = k BY <1>1, <1>2, <2>1
  <2>3. \A k \in 1..length : rx[k] = <<length, k>> BY <1>0, <2>1, <2>2 DEF InOrder
  <2>4. rx \in [1..length -> Bytes] BY <1>2, <2>1, LenProperties
  <2> QED BY <2>3, <2>4 DEF Packet
<1>9. Len(rx) \in 1..length
  <2>1. Len(rx) <= sent BY <1>0 DEF InOrder
  <2>2. Len(rx) # 0 BY <1>1, <1>2, EmptySeq
  <2>3. length \in Nat BY <1>0, HostsAssumption DEF TypeOK
  <2> QED BY <1>1, <1>2, <2>1, <2>2, <2>3
<1>10. \A k \in 1..Len(rx) : rx[k] = <<length, length - Len(rx) + k>>
  BY <1>0, <1>1, Zenon DEF InOrder
<1> QED BY <1>1, <1>6, <1>7, <1>8, <1>9, <1>10

\* A byte of a steady host finds room in the FIFO, and no response on its way.
LEMMA ArriveInOrder ==
  ASSUME UartInv, host = "steady", ByteArrives
  PROVE  /\ waiting /\ ~owed /\ unwritten = 0 /\ tx = 0 /\ at # "copy"
         /\ at # "off" => rx' = Append(rx, <<length, sent + 1>>) /\ Len(rx') = Len(rx) + 1
         /\ at = "off" => rx' = <<>> /\ cut'
         /\ sent' = sent + 1 /\ sent < length
<1>0. TypeOK /\ Flow /\ InOrder /\ Turns /\ Settled BY DEF UartInv, Steady
<1>1. sent < length /\ sent' = sent + 1 /\ sent \in Nat /\ length \in Nat
  BY <1>0, HostsAssumption DEF ByteArrives, TypeOK
<1>2. waiting /\ ~owed /\ unwritten = 0 /\ tx = 0 /\ at # "copy"
  BY <1>0, <1>1 DEF Turns, Settled
<1>3. Len(rx) \in Nat /\ Len(rx) < Depth
  BY <1>0, <1>1, LenProperties, SizesAssumption DEF TypeOK, InOrder
<1>4. at = "off" => rx' = <<>> /\ cut' BY <1>0 DEF ByteArrives, Flow
<1>5. at # "off" => rx' = Append(rx, <<length, sent + 1>>) BY <1>3 DEF ByteArrives
<1>6. Len(Append(rx, <<length, sent + 1>>)) = Len(rx) + 1
  <2>1. <<length, sent + 1>> \in Bytes BY <1>0, <1>1 DEF TypeOK, Bytes
  <2> QED BY <1>0, <2>1, AppendProperties DEF TypeOK
<1> QED BY <1>1, <1>2, <1>4, <1>5, <1>6

\* The kind of the host does not change.
LEMMA HostKept == [Next]_vars => UNCHANGED host
<1> SUFFICES ASSUME [Next]_vars PROVE UNCHANGED host
  OBVIOUS
<1> USE DEF peer
<1>1. CASE Device
  <2>1. CASE CommRead BY <2>1 DEF CommRead, CheckStart, Measure, Settle, Copy, Delay
  <2> QED BY <1>1, <2>1 DEF Device, PutByte
<1>2. CASE Caller
  BY <1>2 DEF Caller, BeginRead, BeginWrite, CommStart, CommStop, CommReset
<1>3. CASE SystemReset BY <1>3 DEF SystemReset
<1>4. CASE BeginPacket BY <1>4 DEF BeginPacket
<1>5. CASE Line BY <1>5 DEF Line, ByteArrives, ByteLeaves
<1>6. CASE GiveUp BY <1>6 DEF GiveUp
<1>7. CASE UNCHANGED vars BY <1>7 DEF vars
<1> QED BY <1>1, <1>2, <1>3, <1>4, <1>5, <1>6, <1>7 DEF Next

\* A step of host or device keeps the order of the bytes and the turns.
LEMMA SteadyStep == UartInv /\ [Next]_vars => Steady'
<1> SUFFICES ASSUME UartInv, [Next]_vars, host = "steady" PROVE InOrder' /\ Turns' /\ Settled'
  BY HostKept DEF Steady
<1>0. TypeOK /\ Flow /\ InOrder /\ Turns /\ Settled BY DEF UartInv, Steady
<1> USE DEF read, peer
<1>1. CASE BeginRead BY <1>0, <1>1 DEF BeginRead, InOrder, Turns, Settled
<1>2. CASE CheckStart BY <1>0, <1>2 DEF CheckStart, InOrder, Turns, Settled
<1>3. CASE Measure
  <2>1. at' = "settle" /\ ~heard' BY <1>3 DEF Measure
  <2>2. UNCHANGED <<rx, tx, owed, unwritten, length, sent, waiting, cut>> BY <1>3 DEF Measure
  <2>3. Settled' BY <2>1 DEF Settled
  <2> QED BY <1>0, <2>2, <2>3 DEF InOrder, Turns
<1>4. CASE Settle
  <2>1. UNCHANGED <<rx, tx, owed, unwritten, length, sent, waiting, cut, byteCount>>
    BY <1>4 DEF Settle
  <2>2. at' = "copy" => byteCount = Len(rx) BY <1>4 DEF Settle
  <2>3. Len(rx) \in Nat /\ sent \in Nat /\ length \in Nat /\ sent <= length /\ rx # <<>>
    BY <1>0, <1>4, LenProperties, HostsAssumption DEF TypeOK, Settle, Flow, Receiving
  <2>4. at' = "copy" => sent = length
    <3>1. SUFFICES ASSUME at' = "copy" PROVE sent = length
      OBVIOUS
    <3>2. ~heard BY <1>0, <1>4, <2>2, <2>3, <3>1 DEF Settle, Settled
    <3>3. ~InPacket BY <1>4, <3>2 DEF Settle
    <3>4. Len(rx) # 0 BY <1>0, <2>3, EmptySeq DEF TypeOK
    <3>5. sent # 0 BY <1>0, <2>3, <3>4 DEF InOrder
    <3> QED BY <2>3, <3>3, <3>5 DEF InPacket
  <2>5. at' \in {"copy", "measure"} BY <1>4 DEF Settle
  <2>6. Settled' BY <2>1, <2>2, <2>4, <2>5 DEF Settled
  <2> QED BY <1>0, <2>1, <2>6 DEF InOrder, Turns
<1>5. CASE Copy
  <2>1. /\ rx' = <<>> /\ sent = length /\ waiting /\ ~owed /\ unwritten = 0 /\ tx = 0
    BY <1>5, CopyAll
  <2>2. /\ UNCHANGED <<tx, unwritten, length, sent, waiting, cut>> /\ at' = "idle"
    BY <1>5 DEF Copy
  <2>3. Len(rx') = 0 /\ 1..0 = {} BY <2>1, EmptySeq
  <2>4. sent \in Nat BY <1>0, HostsAssumption DEF TypeOK
  <2>5. InOrder' BY <1>0, <2>1, <2>2, <2>3, <2>4 DEF InOrder
  <2> QED BY <2>1, <2>2, <2>5 DEF Turns, Settled
<1>6. CASE Delay BY <1>0, <1>6 DEF Delay, InOrder, Turns, Settled
<1>7. CASE PutByte
  <2>1. rx = <<>> /\ sent = length /\ waiting /\ ~owed /\ at' \in {"idle", "write"}
    BY <1>0, <1>7 DEF PutByte, Flow, Turns
  <2>2. UNCHANGED <<rx, owed, length, sent, waiting, cut>> BY <1>7 DEF PutByte
  <2> QED BY <1>0, <2>1, <2>2 DEF InOrder, Turns, Settled
<1>8. CASE BeginWrite BY <1>0, <1>8 DEF BeginWrite, InOrder, Turns, Settled
<1>9. CASE CommStart BY <1>0, <1>9 DEF CommStart, InOrder, Turns, Settled
<1>10. CASE CommStop
  <2>1. /\ rx' = <<>> /\ tx' = 0 /\ ~owed' /\ unwritten' = 0 /\ Len(<<>>) = 0
        /\ cut' = (cut \/ InPacket) /\ at' \in {"off", "idle"}
    BY <1>0, <1>10, EmptySeq DEF CommStop, ClearFifos, Flow
  <2>2. UNCHANGED peer BY <1>10 DEF CommStop
  <2>3. ~cut' => sent = 0 \/ sent = length
    <3>1. ~cut' => ~InPacket BY <2>1
    <3>2. sent \in 0..length /\ length \in Nat BY <1>0, HostsAssumption DEF TypeOK
    <3>3. ~InPacket => sent = 0 \/ sent = length BY <3>2 DEF InPacket
    <3> QED BY <3>1, <3>3
  <2>4. sent \in Nat BY <1>0, HostsAssumption DEF TypeOK
  <2>5. InOrder'
    <3>1. 1..0 = {} OBVIOUS
    <3> QED BY <1>0, <2>1, <2>2, <2>3, <2>4, <3>1 DEF InOrder
  <2>6. Turns' BY <1>0, <2>1, <2>2 DEF Turns
  <2>7. Settled' BY <2>1 DEF Settled
  <2> QED BY <2>5, <2>6, <2>7
<1>11. CASE CommReset
  <2>1. /\ rx' = <<>> /\ tx' = 0 /\ ~owed' /\ unwritten' = 0 /\ Len(<<>>) = 0
        /\ cut' = (cut \/ InPacket) /\ at' \in {"off", "idle"}
    BY <1>0, <1>11, EmptySeq DEF CommReset, ClearFifos, Flow
  <2>2. UNCHANGED peer BY <1>11 DEF CommReset
  <2>3. ~cut' => sent = 0 \/ sent = length
    <3>1. ~cut' => ~InPacket BY <2>1
    <3>2. sent \in 0..length /\ length \in Nat BY <1>0, HostsAssumption DEF TypeOK
    <3>3. ~InPacket => sent = 0 \/ sent = length BY <3>2 DEF InPacket
    <3> QED BY <3>1, <3>3
  <2>4. sent \in Nat BY <1>0, HostsAssumption DEF TypeOK
  <2>5. InOrder'
    <3>1. 1..0 = {} OBVIOUS
    <3> QED BY <1>0, <2>1, <2>2, <2>3, <2>4, <3>1 DEF InOrder
  <2>6. Turns' BY <1>0, <2>1, <2>2 DEF Turns
  <2>7. Settled' BY <2>1 DEF Settled
  <2> QED BY <2>5, <2>6, <2>7
<1>12. CASE SystemReset
  <2>1. /\ rx' = <<>> /\ tx' = 0 /\ ~owed' /\ unwritten' = 0 /\ Len(<<>>) = 0
        /\ cut' = (cut \/ InPacket) /\ at' \in {"off", "idle"}
    BY <1>0, <1>12, EmptySeq DEF SystemReset, ClearFifos, Flow
  <2>2. UNCHANGED peer BY <1>12 DEF SystemReset
  <2>3. ~cut' => sent = 0 \/ sent = length
    <3>1. ~cut' => ~InPacket BY <2>1
    <3>2. sent \in 0..length /\ length \in Nat BY <1>0, HostsAssumption DEF TypeOK
    <3>3. ~InPacket => sent = 0 \/ sent = length BY <3>2 DEF InPacket
    <3> QED BY <3>1, <3>3
  <2>4. sent \in Nat BY <1>0, HostsAssumption DEF TypeOK
  <2>5. InOrder'
    <3>1. 1..0 = {} OBVIOUS
    <3> QED BY <1>0, <2>1, <2>2, <2>3, <2>4, <3>1 DEF InOrder
  <2>6. Turns' BY <1>0, <2>1, <2>2 DEF Turns
  <2>7. Settled' BY <2>1 DEF Settled
  <2> QED BY <2>5, <2>6, <2>7
<1>13. CASE BeginPacket
  <2>1. ~waiting /\ length' <= Depth /\ sent' = 0 /\ waiting'
    BY <1>13 DEF BeginPacket
  <2>2. rx = <<>> /\ ~owed /\ unwritten = 0 /\ tx = 0 BY <1>0, <2>1 DEF Turns
  <2>3. UNCHANGED <<at, rx, tx, owed, unwritten, byteCount, heard>> BY <1>13 DEF BeginPacket
  <2>4. Len(rx') = 0 /\ 1..0 = {} BY <2>2, <2>3, EmptySeq
  <2>5. at \notin Receiving BY <1>0, <2>2 DEF Flow
  <2>6. InOrder' BY <2>1, <2>4 DEF InOrder
  <2>7. Turns' BY <2>1, <2>2, <2>3 DEF Turns
  <2>8. Settled' BY <2>3, <2>5 DEF Settled, Receiving
  <2> QED BY <2>6, <2>7, <2>8
<1>14. CASE ByteArrives
  <2>1. /\ waiting /\ ~owed /\ unwritten = 0 /\ tx = 0 /\ at # "copy"
        /\ at # "off" => rx' = Append(rx, <<length, sent + 1>>) /\ Len(rx') = Len(rx) + 1
        /\ at = "off" => rx' = <<>> /\ cut'
        /\ sent' = sent + 1 /\ sent < length
    BY <1>14, ArriveInOrder
  <2>2. UNCHANGED <<at, tx, owed, unwritten, length, waiting, byteCount>>
    BY <1>14 DEF ByteArrives
  <2>3. sent \in Nat /\ length \in Nat /\ Len(rx) \in Nat /\ byteCount \in Nat
    BY <1>0, HostsAssumption, LenProperties, SizesAssumption DEF TypeOK
  <2>4. cut' = (cut \/ at = "off") BY <1>14 DEF ByteArrives
  <2>5. InOrder'
    <3>1. CASE at = "off"
      <4>1. Len(rx') = 0 /\ 1..0 = {} BY <2>1, <3>1, EmptySeq
      <4> QED BY <1>0, <2>1, <2>2, <2>3, <3>1, <4>1 DEF InOrder
    <3>2. CASE at # "off"
      <4>1. <<length, sent + 1>> \in Bytes BY <1>0, <2>1, <2>3 DEF TypeOK, Bytes
      <4>2. ASSUME NEW k \in 1..Len(rx') PROVE rx'[k] = <<length', sent' - Len(rx') + k>>
        <5>1. k \in 1..(Len(rx) + 1) /\ sent' - Len(rx') + k = sent - Len(rx) + k
          BY <2>1, <2>3, <3>2
        <5>2. CASE k = Len(rx) + 1
          <6>1. rx'[k] = <<length, sent + 1>>
            <7>1. rx' = Append(rx, <<length, sent + 1>>) BY <2>1, <3>2
            <7>2. rx \in Seq(Bytes) BY <1>0 DEF TypeOK
            <7> QED BY <4>1, <5>2, <7>1, <7>2, AppendProperties
          <6>2. sent - Len(rx) + k = sent + 1 BY <2>3, <5>2
          <6> QED BY <2>2, <5>1, <6>1, <6>2
        <5>3. CASE k # Len(rx) + 1
          <6>1. k \in 1..Len(rx) BY <2>3, <5>1, <5>3
          <6>2. rx'[k] = rx[k]
            <7>1. rx' = Append(rx, <<length, sent + 1>>) BY <2>1, <3>2
            <7>2. rx \in Seq(Bytes) BY <1>0 DEF TypeOK
            <7> QED BY <4>1, <6>1, <7>1, <7>2, AppendProperties
          <6>3. \A n \in 1..Len(rx) : rx[n] = <<length, sent - Len(rx) + n>>
            BY <1>0, Zenon DEF InOrder
          <6>4. rx'[k] = <<length, sent - Len(rx) + k>> BY <6>1, <6>2, <6>3, Zenon
          <6>5. length' = length BY <2>2
          <6> QED BY <5>1, <6>4, <6>5
        <5> QED BY <5>2, <5>3
      <4>3. Len(rx') <= sent' BY <1>0, <2>1, <2>3, <3>2 DEF InOrder
      <4>4. ~cut' => Len(rx') = sent'
        <5>1. ~cut => Len(rx) = sent
          <6>1. sent # length BY <2>1, <2>3
          <6> QED BY <1>0, <6>1 DEF InOrder
        <5> QED BY <2>1, <2>4, <3>2, <5>1
      <4>5. length' <= Depth BY <1>0, <2>2 DEF InOrder
      <4> QED BY <4>2, <4>3, <4>4, <4>5 DEF InOrder
    <3> QED BY <3>1, <3>2
  <2>6. Turns' BY <2>1, <2>2 DEF Turns
  <2>7. Settled'
    <3>1. SUFFICES ASSUME at = "settle" PROVE byteCount' < Len(rx')
      BY <2>1, <2>2 DEF Settled
    <3>2. byteCount <= Len(rx) BY <1>0, <3>1 DEF Flow
    <3> QED BY <2>1, <2>2, <2>3, <3>1, <3>2
  <2> QED BY <2>5, <2>6, <2>7
<1>15. CASE ByteLeaves
  <2>1. rx = <<>> /\ sent = length /\ waiting /\ ~owed /\ tx \in Nat
    BY <1>0, <1>15, SizesAssumption DEF ByteLeaves, Turns, TypeOK
  <2>2. UNCHANGED <<at, rx, owed, unwritten, length, sent, heard, cut, byteCount>> /\ tx' = tx - 1
    BY <1>15 DEF ByteLeaves
  <2>3. unwritten' # 0 \/ tx' # 0 => waiting'
    <3>1. waiting' = (waiting /\ ~(tx = 1 /\ unwritten = 0)) BY <1>15 DEF ByteLeaves
    <3>2. unwritten' # 0 \/ tx' # 0 => ~(tx = 1 /\ unwritten = 0) BY <2>1, <2>2
    <3> QED BY <2>1, <3>1, <3>2
  <2>4. Turns' BY <2>1, <2>2, <2>3 DEF Turns
  <2> QED BY <1>0, <2>2, <2>4 DEF InOrder, Settled
<1>16. CASE GiveUp
  <2>1. rx = <<>> /\ sent = length /\ ~owed /\ tx = 0 /\ unwritten = 0
    BY <1>0, <1>16 DEF GiveUp, Flow
  <2>2. UNCHANGED <<at, rx, tx, owed, unwritten, length, sent, heard, cut, byteCount>>
    BY <1>16 DEF GiveUp
  <2>3. Turns' BY <2>1, <2>2 DEF Turns
  <2> QED BY <1>0, <2>2, <2>3 DEF InOrder, Settled
<1>17. CASE UNCHANGED vars BY <1>0, <1>17 DEF vars, InOrder, Turns, Settled
<1> QED
  BY <1>1, <1>2, <1>3, <1>4, <1>5, <1>6, <1>7, <1>8,
     <1>9, <1>10, <1>11, <1>12, <1>13, <1>14, <1>15, <1>16, <1>17
  DEF Next, Device, Caller, Line, CommRead

\* A step returns a whole packet or leaves what was returned.
LEMMA PacketStep == UartInv /\ [Next]_vars => WholePackets'
<1> SUFFICES ASSUME UartInv, [Next]_vars PROVE WholePackets'
  OBVIOUS
<1>0. WholePackets /\ Steady /\ Flow /\ TypeOK BY DEF UartInv
<1> USE DEF WholePackets, read, peer
<1>1. CASE BeginRead BY <1>0, <1>1 DEF BeginRead
<1>2. CASE CheckStart BY <1>0, <1>2 DEF CheckStart
<1>3. CASE Measure BY <1>0, <1>3 DEF Measure
<1>4. CASE Settle BY <1>0, <1>4 DEF Settle
<1>5. CASE Copy
  <2>1. UNCHANGED <<length, host, cut>> BY <1>5 DEF Copy
  <2>2. ASSUME host = "steady"
        PROVE  /\ Len(data') \in 1..length
               /\ \A k \in 1..Len(data') : data'[k] = <<length, length - Len(data') + k>>
               /\ ~cut => data' = Packet(length)
    <3>1. data' = rx BY <1>5, <2>2, CopyAll, Zenon
    <3>2. /\ Len(rx) \in 1..length
          /\ \A k \in 1..Len(rx) : rx[k] = <<length, length - Len(rx) + k>>
          /\ ~cut => rx = Packet(length)
      BY <1>5, <2>2, CopyAll, Zenon
    <3> QED BY <3>1, <3>2, Zenon
  <2>3. Packet(length)' = Packet(length) BY <2>1 DEF Packet
  <2> QED BY <2>1, <2>2, <2>3, Zenon
<1>6. CASE Delay BY <1>0, <1>6 DEF Delay
<1>7. CASE PutByte BY <1>0, <1>7 DEF PutByte
<1>8. CASE BeginWrite BY <1>0, <1>8 DEF BeginWrite
<1>9. CASE CommStart BY <1>0, <1>9 DEF CommStart
<1>10. CASE CommStop BY <1>0, <1>10 DEF CommStop, ClearFifos, Steady, Turns
<1>11. CASE CommReset BY <1>0, <1>11 DEF CommReset, ClearFifos, Steady, Turns
<1>12. CASE SystemReset BY <1>0, <1>12 DEF SystemReset, ClearFifos, Steady, Turns
<1>13. CASE BeginPacket BY <1>0, <1>13 DEF BeginPacket, Steady, Turns
<1>14. CASE ByteArrives
  <2>1. host = "steady" => ~owed BY <1>14, ArriveInOrder
  <2> QED BY <1>14, <2>1 DEF ByteArrives
<1>15. CASE ByteLeaves BY <1>0, <1>15 DEF ByteLeaves
<1>16. CASE GiveUp BY <1>0, <1>16 DEF GiveUp
<1>17. CASE UNCHANGED vars BY <1>0, <1>17 DEF vars
<1> QED
  BY <1>1, <1>2, <1>3, <1>4, <1>5, <1>6, <1>7, <1>8,
     <1>9, <1>10, <1>11, <1>12, <1>13, <1>14, <1>15, <1>16, <1>17
  DEF Next, Device, Caller, Line, CommRead

\* The inductive invariant.
LEMMA Transport == SafetySpec => []UartInv
<1>1. Init => UartInv
  <2> SUFFICES ASSUME Init PROVE UartInv
    OBVIOUS
  <2>1. /\ 0 \in 0..Timeout /\ 0 \in 0..Depth /\ 0 \in 0..Response /\ 0 \in 0..0
        /\ 0 <= Depth /\ 0 <= BufferSize
    BY TimeoutAssumption, SizesAssumption, HostsAssumption
  <2>2. <<>> \in Seq(Bytes) /\ Len(<<>>) = 0 BY EmptySeq
  <2>3. TypeOK BY <2>1, <2>2 DEF Init, TypeOK
  <2>4. CountedDown BY DEF Init, CountedDown, Reading
  <2>5. Flow BY DEF Init, Flow, Receiving
  <2>6. InOrder
    <3>1. 1..0 = {} OBVIOUS
    <3> QED BY <2>1, <2>2, <3>1 DEF Init, InOrder
  <2>7. Steady BY <2>6 DEF Init, Steady, Turns, Settled
  <2>8. WholePackets BY DEF Init, WholePackets
  <2> QED BY <2>3, <2>4, <2>5, <2>7, <2>8 DEF UartInv
<1>2. UartInv /\ [Next]_vars => UartInv'
  BY TypeStep, CountStep, FlowStep, SteadyStep, PacketStep DEF UartInv
<1> QED BY <1>1, <1>2, PTL DEF SafetySpec

\* The variables keep their types, for every host.
THEOREM TypeCorrect == SafetySpec => []TypeOK
<1>1. UartInv => TypeOK BY DEF UartInv
<1> QED BY <1>1, Transport, PTL

\* Whenever a read is called and whenever the bytes come, it returns a packet of a steady
\* host to its end, if it fits the FIFO, all of it unless the device cut it, and nothing of
\* another packet.
THEOREM ReadsWhole == SafetySpec => []WholePackets
<1>1. UartInv => WholePackets BY DEF UartInv
<1> QED BY <1>1, Transport, PTL

\* A read that finds nothing takes exactly its timeout, whatever that is, unless zero.
THEOREM SilenceCounted == SafetySpec => []SilentReadLasts
<1>1. UartInv => SilentReadLasts BY DEF UartInv, CountedDown, Reading, SilentReadLasts
<1> QED BY <1>1, Transport, PTL
===================================================================================
