------------------------------ MODULE UartTransport ------------------------------
(***************************************************************************)
(* The UART transport of the DFU library: how UART_UartCyBtldrCommRead      *)
(* finds a packet in a receive FIFO, of which it can only read the level,   *)
(* while the host is still sending; how a response leaves; start, stop and  *)
(* reset.                                                                  *)
(*                                                                         *)
(* A byte is <<length of its packet, number>>.  Time passes in the delays:  *)
(* during 868 us, ten byte times, a steady host in the middle of a packet   *)
(* sends at least one byte.  A halting host may stop anywhere, and start    *)
(* anything at any time.                                                   *)
(***************************************************************************)
EXTENDS Naturals, Sequences

CONSTANTS Depth,       \* of the FIFOs of the SCB
          BufferSize,  \* size of the packet buffer of dfu_task
          Timeout,     \* paramsTimeout of dfu_task: 20 ms
          Lengths,     \* of the packets of the host
          Response,    \* length of a response
          Hosts        \* kinds of hosts: "steady", "halting"

ASSUME SizesAssumption ==
  Depth \in Nat \ {0} /\ BufferSize \in Nat /\ Depth <= BufferSize
\* Zero would wrap around in --timeout.
ASSUME TimeoutAssumption == Timeout \in Nat \ {0}
ASSUME HostsAssumption ==
  /\ Lengths \subseteq Nat \ {0} /\ Response \in Nat \ {0}
  /\ Hosts \subseteq {"steady", "halting"}

VARIABLES
  at,          \* where the transport is; "idle" between calls, "off" when stopped
  UART_initVar,
  timeout,     \* the locals of a read
  byteCount,
  status,
  data,        \* what it returned
  owed,        \* has a packet been read that is not answered yet?
  unwritten,   \* bytes of the response that are not yet in the FIFO
  rx, tx,      \* the FIFOs; of tx only the level
  length,      \* the packet of the host and how much of it was sent
  sent,
  waiting,     \* is the host waiting for a response?
  host,        \* its kind
  heard,       \* has a byte arrived since the level was measured for the last time?
  elapsed,     \* milliseconds of delay in this read
  cut          \* has a part of this packet been discarded?

read == <<timeout, byteCount, status, data, elapsed>>
peer == <<length, sent, waiting, host>>
vars == <<at, UART_initVar, read, owed, unwritten, rx, tx, peer, heard, cut>>

InPacket == 0 < sent /\ sent < length
Packet(n) == [k \in 1..n |-> <<n, k>>]

-----------------------------------------------------------------------------------
(* UART_UartCyBtldrCommRead().                                             *)

BeginRead ==
  /\ at = "idle"
  /\ at' = "check"
  /\ timeout' = Timeout /\ byteCount' = 0 /\ status' = "TIMEOUT" /\ data' = <<>>
  /\ elapsed' = 0 /\ owed' = FALSE      \* Exit is not answered
  /\ UNCHANGED <<UART_initVar, unwritten, rx, tx, peer, heard, cut>>

CheckStart ==
  /\ at = "check"
  /\ at' = IF rx # <<>> THEN "measure" ELSE "delay"
  /\ UNCHANGED <<UART_initVar, read, owed, unwritten, rx, tx, peer, heard, cut>>

Measure ==
  /\ at = "measure"
  /\ byteCount' = Len(rx) /\ heard' = FALSE
  /\ at' = "settle"
  /\ UNCHANGED <<UART_initVar, timeout, status, data, elapsed, owed, unwritten, rx, tx,
                 peer, cut>>

\* Fault: one delay has to be enough.
Settle_Once ==
  /\ at = "settle"
  /\ at' = "copy"
  /\ UNCHANGED <<UART_initVar, read, owed, unwritten, rx, tx, peer, heard, cut>>

\* Fault: the packet ends when no byte arrives any more.
Settle_UntilSilent ==
  /\ at = "settle"
  /\ host = "steady" /\ InPacket => heard
  /\ at' = IF heard THEN "measure" ELSE "copy"
  /\ UNCHANGED <<UART_initVar, read, owed, unwritten, rx, tx, peer, heard, cut>>

\* The packet ends when the level has not changed for 868 us.
Settle ==
  /\ at = "settle"
  /\ host = "steady" /\ InPacket => heard
  /\ at' = IF byteCount = Len(rx) THEN "copy" ELSE "measure"
  /\ UNCHANGED <<UART_initVar, read, owed, unwritten, rx, tx, peer, heard, cut>>

UART_BYTES_TO_COPY == IF byteCount < BufferSize THEN byteCount ELSE BufferSize

Copy ==
  /\ at = "copy"
  /\ data' = SubSeq(rx, 1, UART_BYTES_TO_COPY)
  /\ rx' = SubSeq(rx, UART_BYTES_TO_COPY + 1, Len(rx))
  /\ status' = "SUCCESS" /\ owed' = TRUE
  /\ at' = "idle"
  /\ byteCount' = 0 /\ timeout' = 0 /\ elapsed' = 0 /\ heard' = FALSE   \* done with
  /\ UNCHANGED <<UART_initVar, unwritten, tx, peer, cut>>

\* Fault: the counter is tested before it is decremented.
Delay_TestFirst ==
  /\ at = "delay"
  /\ elapsed' = elapsed + 1
  /\ timeout' = IF timeout # 0 THEN timeout - 1 ELSE 0
  /\ at' = IF timeout # 0 THEN "check" ELSE "idle"
  /\ UNCHANGED <<UART_initVar, byteCount, status, data, owed, unwritten, rx, tx, peer,
                 heard, cut>>

Delay ==
  /\ at = "delay"
  /\ elapsed' = elapsed + 1
  /\ timeout' = timeout - 1
  /\ at' = IF timeout' # 0 THEN "check" ELSE "idle"
  /\ UNCHANGED <<UART_initVar, byteCount, status, data, owed, unwritten, rx, tx, peer,
                 heard, cut>>

CommRead == CheckStart \/ Measure \/ Settle \/ Copy \/ Delay

-----------------------------------------------------------------------------------
(* UART_UartCyBtldrCommWrite(), -Start(), -Stop() and -Reset().            *)

BeginWrite ==
  /\ at = "idle" /\ owed
  /\ at' = "write"
  /\ unwritten' = Response /\ owed' = FALSE
  /\ status' = "UNKNOWN" /\ data' = <<>>      \* the buffer now holds the response
  /\ UNCHANGED <<UART_initVar, timeout, byteCount, elapsed, rx, tx, peer, heard, cut>>

\* Blocks while the FIFO is full; does not wait until everything is sent.
PutByte ==
  /\ at = "write" /\ tx < Depth
  /\ tx' = tx + 1 /\ unwritten' = unwritten - 1
  /\ at' = IF unwritten' = 0 THEN "idle" ELSE "write"
  /\ UNCHANGED <<UART_initVar, read, owed, rx, peer, heard, cut>>

\* The component is configured once only.
CommStart ==
  /\ at = "off"
  /\ UART_initVar' = TRUE
  /\ at' = "idle"
  /\ UNCHANGED <<read, owed, unwritten, rx, tx, peer, heard, cut>>

ClearFifos == rx' = <<>> /\ tx' = 0 /\ cut' = (cut \/ InPacket)

CommStop ==
  /\ at = "idle"
  /\ at' = "off" /\ owed' = FALSE
  /\ ClearFifos
  /\ UNCHANGED <<UART_initVar, read, unwritten, peer, heard>>

CommReset ==
  /\ at = "idle"
  /\ owed' = FALSE
  /\ ClearFifos
  /\ UNCHANGED <<at, UART_initVar, read, unwritten, peer, heard>>

SystemReset ==
  /\ at' = "off" /\ UART_initVar' = FALSE
  /\ timeout' = 0 /\ byteCount' = 0 /\ status' = "UNKNOWN" /\ data' = <<>> /\ elapsed' = 0
  /\ owed' = FALSE /\ unwritten' = 0
  /\ ClearFifos
  /\ UNCHANGED <<peer, heard>>

Caller == BeginRead \/ BeginWrite \/ CommStart \/ CommStop \/ CommReset

-----------------------------------------------------------------------------------
(* The line and the host.                                                  *)

\* A steady host sends a packet that fits the FIFO, when it waits for nothing.
BeginPacket ==
  /\ sent = length
  /\ length' \in Lengths /\ sent' = 0
  /\ host = "steady" => ~waiting /\ length' <= Depth
  /\ waiting' = TRUE /\ cut' = FALSE
  /\ UNCHANGED <<at, UART_initVar, read, owed, unwritten, rx, tx, host, heard>>

\* What arrives at a full FIFO is lost, and so is what a stopped UART does not hear.
ByteArrives ==
  /\ sent < length
  /\ sent' = sent + 1
  /\ rx' = IF at # "off" /\ Len(rx) < Depth THEN Append(rx, <<length, sent + 1>>) ELSE rx
  /\ heard' = (at = "settle")
  /\ cut' = (cut \/ at = "off")
  /\ UNCHANGED <<at, UART_initVar, read, owed, unwritten, tx, length, waiting, host>>

ByteLeaves ==
  /\ tx > 0
  /\ tx' = tx - 1
  /\ waiting' = (waiting /\ ~(tx = 1 /\ unwritten = 0))
  /\ UNCHANGED <<at, UART_initVar, read, owed, unwritten, rx, length, sent, host, heard, cut>>

\* No response for so long that none is coming.
GiveUp ==
  /\ waiting /\ sent = length
  /\ rx = <<>> /\ tx = 0 /\ ~owed /\ at \in {"idle", "check", "delay", "off"}
  /\ waiting' = FALSE
  /\ UNCHANGED <<at, UART_initVar, read, owed, unwritten, rx, tx, length, sent, host, heard, cut>>

Init ==
  /\ at = "off" /\ UART_initVar = FALSE
  /\ timeout = 0 /\ byteCount = 0 /\ status = "UNKNOWN" /\ data = <<>> /\ elapsed = 0
  /\ owed = FALSE /\ unwritten = 0
  /\ rx = <<>> /\ tx = 0
  /\ length = 0 /\ sent = 0 /\ waiting = FALSE /\ host \in Hosts
  /\ heard = FALSE /\ cut = FALSE

Device == CommRead \/ PutByte
Line == ByteArrives \/ ByteLeaves
Next == Device \/ Caller \/ SystemReset \/ BeginPacket \/ Line \/ GiveUp

\* The CPU runs, the shift register empties, a steady host sends what it began.  A
\* halting host owes nothing, and may as well send for ever.
Fairness ==
  /\ WF_vars(Device) /\ WF_vars(ByteLeaves)
  /\ WF_vars(host = "steady" /\ ByteArrives)

SafetySpec == Init /\ [][Next]_vars
Spec == SafetySpec /\ Fairness

-----------------------------------------------------------------------------------
Bytes == Lengths \X Nat
TypeOK ==
  /\ at \in {"off", "idle", "check", "measure", "settle", "copy", "delay", "write"}
  /\ UART_initVar \in BOOLEAN /\ (at # "off" => UART_initVar)
  /\ timeout \in 0..Timeout /\ byteCount \in 0..Depth
  /\ status \in {"UNKNOWN", "TIMEOUT", "SUCCESS"}
  /\ data \in Seq(Bytes) /\ Len(data) <= BufferSize
  /\ rx \in Seq(Bytes) /\ Len(rx) <= Depth /\ tx \in 0..Depth
  /\ unwritten \in 0..Response
  /\ length \in Lengths \cup {0} /\ sent \in 0..length
  /\ owed \in BOOLEAN /\ waiting \in BOOLEAN /\ heard \in BOOLEAN /\ cut \in BOOLEAN
  /\ host \in Hosts /\ elapsed \in 0..Timeout

\* transport_uart.c:214 - "The function handles polling to allow a block of data to be
\* completely received": whenever a read is called and whenever the bytes arrive, if the
\* packet fits the FIFO and the host makes no pause in it, the read returns the packet to
\* its end, all of it unless the device itself cut it by a reset or a stop in the middle
\* (transport_uart.c:201), and never the rest of one packet joined with the next.
WholePackets ==
  owed /\ host = "steady" =>
    /\ Len(data) \in 1..length
    /\ \A k \in 1..Len(data) : data[k] = <<length, length - Len(data) + k>>
    /\ ~cut => data = Packet(length)

\* A read that times out has waited its full time, no less and no more, and returns
\* nothing: dfu_task counts its five seconds in such reads.
SilentReadLasts ==
  status = "TIMEOUT" /\ at = "idle" => elapsed = Timeout /\ data = <<>>

\* A read or write returns even if the host never stops sending: the level of a full
\* FIFO does not change any more (transport_uart.c:251).
CallsReturn == at \notin {"idle", "off"} ~> at \in {"idle", "off"}
==================================================================================
