----------------------------- MODULE SpRegisters -----------------------------
(***************************************************************************)
(* The SP registers of the RSP: RSP::ioRead and RSP::ioWrite of io.cpp,    *)
(* the DMA engine of dma.cpp and the records they work on (struct Status   *)
(* and struct DMA of rsp.hpp), as operators on those records.              *)
(*                                                                         *)
(* A register and a 32-bit word are the sets of their bits that are 1.     *)
(***************************************************************************)
EXTENDS Integers

Words == SUBSET (0..31)

(* The register number (address & 0x1f) >> 2 that MFC0 and MTC0 pass.      *)
SP_PBUS_ADDRESS == 0
SP_DRAM_ADDRESS == 1
SP_READ_LENGTH  == 2
SP_WRITE_LENGTH == 3
SP_STATUS       == 4
SP_DMA_FULL     == 5
SP_DMA_BUSY     == 6
SP_SEMAPHORE    == 7

(* Mutant of Field: the bits are masked but not shifted down.              *)
Field_Unshifted(w, lo, hi) == w \cap (lo..hi)

(* data.bit(lo,hi) as a number's bits, and a number's bits moved to lo.    *)
Field(w, lo, hi) == {b - lo : b \in w \cap (lo..hi)}
At(lo, bits)     == {b + lo : b \in bits}
Bit(n, flag)     == IF flag THEN {n} ELSE {}

(* Mutant of Above3: bits 2 and up are written.                            *)
Above3_BitTwo(reg, bits) == At(2, bits)

(* reg.bit(3,hi) = bits: the three low bits of the register stay.          *)
Above3(reg, bits) == (reg \cap 0..2) \cup At(3, bits)

(* The number a 12-bit register holds.                                     *)
Value(bits) ==
    LET v(b, weight) == IF b \in bits THEN weight ELSE 0
    IN  v(0, 1) + v(1, 2) + v(2, 4) + v(3, 8) + v(4, 16) + v(5, 32) + v(6, 64)
            + v(7, 128) + v(8, 256) + v(9, 512) + v(10, 1024) + v(11, 2048)

-----------------------------------------------------------------------------
(* struct DMA and struct Status.                                           *)

Regs ==
    [pbusRegion  : BOOLEAN,         pbusAddress : SUBSET (0..11),
     dramAddress : SUBSET (0..23),  length : SUBSET (0..11),
     skip        : SUBSET (0..11),  count  : SUBSET (0..7)]

(* Multiples of 8: the transfer loop of dma.cpp moves 64 bits at a time.   *)
Aligned(regs) ==
    \A bits \in {regs.pbusAddress, regs.dramAddress, regs.length, regs.skip} :
        bits \cap 0..2 = {}

Direction == [read : BOOLEAN, write : BOOLEAN]
None      == [read |-> FALSE, write |-> FALSE]
any(d)    == d.read \/ d.write

Dma == [pending : Regs, current : Regs, busy : Direction, full : Direction,
        clock : Int]

Status == [semaphore : BOOLEAN, halted : BOOLEAN, broken : BOOLEAN,
           full : BOOLEAN, singleStep : BOOLEAN, interruptOnBreak : BOOLEAN,
           signal : SUBSET (0..7)]

ZeroRegs == [pbusRegion |-> FALSE, pbusAddress |-> {}, dramAddress |-> {},
             length |-> {}, skip |-> {}, count |-> {}]

InitDma == [pending |-> ZeroRegs, current |-> ZeroRegs, busy |-> None,
            full |-> None, clock |-> 0]

InitStatus == [semaphore |-> FALSE, halted |-> TRUE, broken |-> FALSE,
               full |-> FALSE, singleStep |-> FALSE,
               interruptOnBreak |-> FALSE, signal |-> {}]

-----------------------------------------------------------------------------
(* dma.cpp.  Every caller passes the RSP itself as the thread, so that     *)
(* dmaQueue's clock difference is 0.                                       *)

dmaQueue(d, clocks) == [d EXCEPT !.clock = -clocks]

TransferClocks(length) == ((Value(length) + 8) \div 8) * 3

(* Mutants of dmaTransferStart: a running transfer is replaced; the length *)
(* of the transfer before is charged.                                      *)
dmaTransferStart_Replaces(d) ==
    IF ~any(d.full) THEN d
    ELSE dmaQueue([d EXCEPT !.current = d.pending, !.busy = d.full, !.full = None],
                  TransferClocks(d.pending.length))

dmaTransferStart_StaleLength(d) ==
    IF any(d.busy) \/ ~any(d.full) THEN d
    ELSE dmaQueue([d EXCEPT !.current = d.pending, !.busy = d.full, !.full = None],
                  TransferClocks(d.current.length))

dmaTransferStart(d) ==
    IF any(d.busy) \/ ~any(d.full) THEN d
    ELSE dmaQueue([d EXCEPT !.current = d.pending,
                            !.busy    = d.full,
                            !.full    = None],
                  TransferClocks(d.pending.length))

(* The body of dmaTransferStep is commented out: nothing happens.          *)
dmaTransferStep(d) == d

(* dma.clock is compared with 0 only, and from 0 on it only grows: it is   *)
(* kept at 0 there.                                                        *)
Tick(clock, clocks) == IF clock + clocks >= 0 THEN 0 ELSE clock + clocks

dmaStep(d, clocks) ==
    IF ~any(d.busy) THEN d
    ELSE LET ticked == [d EXCEPT !.clock = Tick(@, clocks)]
         IN  IF ticked.clock >= 0 THEN dmaTransferStep(ticked) ELSE ticked

-----------------------------------------------------------------------------
(* ioWrite.                                                                *)

pbusWrite(regs, w) ==
    [regs EXCEPT !.pbusAddress = Above3(@, Field(w, 3, 11)),
                 !.pbusRegion  = 12 \in w]

dramWrite(regs, w) ==
    [regs EXCEPT !.dramAddress = Above3(@, Field(w, 3, 23))]

lengthWrite(regs, w) ==
    [regs EXCEPT !.length = Above3(@, Field(w, 3, 11)),
                 !.count  = Field(w, 12, 19),
                 !.skip   = Above3(@, Field(w, 23, 31))]

pendingWrite(regs, reg, w) ==
    CASE reg = SP_PBUS_ADDRESS -> pbusWrite(regs, w)
      [] reg = SP_DRAM_ADDRESS -> dramWrite(regs, w)
      [] reg \in {SP_READ_LENGTH, SP_WRITE_LENGTH} -> lengthWrite(regs, w)
      [] OTHER -> regs

(* Mutant of writeLength: the request is noted but not started.            *)
writeLength_NoStart(d, direction) == [d EXCEPT !.full = direction]

writeLength(d, direction) == dmaTransferStart([d EXCEPT !.full = direction])

ioWriteDma(d, reg, w) ==
    LET written == [d EXCEPT !.pending = pendingWrite(@, reg, w)]
    IN  CASE reg = SP_READ_LENGTH  ->
                writeLength(written, [read |-> TRUE, write |-> FALSE])
          [] reg = SP_WRITE_LENGTH ->
                writeLength(written, [read |-> FALSE, write |-> TRUE])
          [] OTHER -> written

(* Mutant of SetClear: set wins over clear.                                *)
SetClear_SetWins(flag, w, clear, set) ==
    IF set \in w THEN TRUE ELSE IF clear \in w THEN FALSE ELSE flag

(* A flag has a clear bit and a set bit; both at once leave it alone.      *)
SetClear(flag, w, clear, set) ==
    IF clear \in w /\ set \notin w THEN FALSE
    ELSE IF set \in w /\ clear \notin w THEN TRUE
    ELSE flag

statusWrite(s, w) ==
    [semaphore        |-> s.semaphore,
     halted           |-> SetClear(s.halted, w, 0, 1),
     broken           |-> s.broken /\ 2 \notin w,
     full             |-> s.full,
     singleStep       |-> SetClear(s.singleStep, w, 5, 6),
     interruptOnBreak |-> SetClear(s.interruptOnBreak, w, 7, 8),
     signal           |-> {k \in 0..7 :
                             SetClear(k \in s.signal, w, 9 + 2*k, 10 + 2*k)}]

ioWriteStatus(s, reg, w) ==
    CASE reg = SP_STATUS    -> statusWrite(s, w)
      [] reg = SP_SEMAPHORE -> [s EXCEPT !.semaphore = FALSE]
      [] OTHER              -> s

-----------------------------------------------------------------------------
(* ioRead: the word it returns, and the status it leaves.                  *)

LengthWord(regs) ==
    regs.length \cup At(12, regs.count) \cup At(20, regs.skip)

StatusWord(s, d) ==
    Bit(0, s.halted) \cup Bit(1, s.broken) \cup Bit(2, any(d.busy))
        \cup Bit(3, any(d.full)) \cup Bit(4, s.full) \cup Bit(5, s.singleStep)
        \cup Bit(6, s.interruptOnBreak) \cup At(7, s.signal)

ioRead(s, d, reg) ==
    CASE reg = SP_PBUS_ADDRESS ->
            d.current.pbusAddress \cup Bit(12, d.current.pbusRegion)
      [] reg = SP_DRAM_ADDRESS -> d.current.dramAddress
      [] reg \in {SP_READ_LENGTH, SP_WRITE_LENGTH} -> LengthWord(d.current)
      [] reg = SP_STATUS    -> StatusWord(s, d)
      [] reg = SP_DMA_FULL  -> Bit(0, any(d.full))
      [] reg = SP_DMA_BUSY  -> Bit(0, any(d.busy))
      [] reg = SP_SEMAPHORE -> Bit(0, s.semaphore)

(* Mutant of ioReadStatus: reading the semaphore does not take it.         *)
ioReadStatus_NotTaken(s, reg) == s

ioReadStatus(s, reg) ==
    IF reg = SP_SEMAPHORE THEN [s EXCEPT !.semaphore = TRUE] ELSE s

BREAK(s) == [s EXCEPT !.halted = TRUE, !.broken = TRUE]
=============================================================================
