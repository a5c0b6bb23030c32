------------------------------- MODULE SpUnit -------------------------------
(***************************************************************************)
(* The SP registers as a state machine: what one RSP::exec() does to       *)
(* status and dma for an MFC0, an MTC0, a BREAK or any other instruction,  *)
(* and what the host does to status between two calls.                     *)
(***************************************************************************)
EXTENDS SpRegisters

CONSTANTS
    MovedRegs,      \* the SP registers a program accesses
    MovedWords,     \* the words it moves to each of them
    Costs           \* the clocks instruction() may charge

ASSUME MovedRegsAssumption == MovedRegs \subseteq 0..7
ASSUME MovedWordsAssumption == MovedWords \in [MovedRegs -> SUBSET Words]
ASSUME CostsAssumption == Costs \subseteq Nat \ {0}

VARIABLES
    status,     \* RSP::status
    dma,        \* RSP::dma
    held        \* history: a read of the semaphore has returned 0 since
                \* the last write to it

vars == <<status, dma, held>>

TypeOK ==
    /\ status \in Status
    /\ dma \in Dma
    /\ held \in BOOLEAN

Init ==
    /\ status = InitStatus
    /\ dma = InitDma
    /\ held = FALSE

MTC0(reg, w, clocks) ==
    /\ ~status.halted
    /\ status' = ioWriteStatus(status, reg, w)
    /\ dma' = dmaStep(ioWriteDma(dma, reg, w), clocks)
    /\ held' = (held /\ reg # SP_SEMAPHORE)

MFC0(reg, clocks) ==
    /\ ~status.halted
    /\ status' = ioReadStatus(status, reg)
    /\ dma' = dmaStep(dma, clocks)
    /\ held' = (held \/ (reg = SP_SEMAPHORE /\ ioRead(status, dma, reg) = {}))

Break(clocks) ==
    /\ ~status.halted
    /\ status' = BREAK(status)
    /\ dma' = dmaStep(dma, clocks)
    /\ UNCHANGED held

(* Any other instruction; exec() charges 1 clock while the RSP is halted.  *)
Other(clocks) ==
    /\ dma' = dmaStep(dma, IF status.halted THEN 1 ELSE clocks)
    /\ UNCHANGED <<status, held>>

Exec ==
    \E clocks \in Costs :
        \/ \E reg \in MovedRegs : \E w \in MovedWords[reg] : MTC0(reg, w, clocks)
        \/ \E reg \in MovedRegs : MFC0(reg, clocks)
        \/ Break(clocks)
        \/ Other(clocks)

(* rsp_set_halted                                                          *)
SetHalted(isHalted) ==
    /\ status' = [status EXCEPT !.halted = isHalted]
    /\ UNCHANGED <<dma, held>>

Next ==
    \/ Exec
    \/ \E isHalted \in BOOLEAN : SetHalted(isHalted)

Spec == Init /\ [][Next]_vars

-----------------------------------------------------------------------------
(* The DMA engine's two-entry queue.  full and busy each name at most one  *)
(* direction, and a request waits only behind a running transfer: whatever *)
(* order the length registers are written in, none is left waiting while   *)
(* the engine is idle.                                                     *)
QueueConsistent ==
    /\ ~(dma.busy.read /\ dma.busy.write)
    /\ ~(dma.full.read /\ dma.full.write)
    /\ any(dma.full) => any(dma.busy)

(* DMA addresses, lengths and skips are multiples of 8 whatever is written *)
(* to them, as the transfer loop's 64-bit accesses need.                   *)
DmaAligned == Aligned(dma.pending) /\ Aligned(dma.current)

(* Writing registers never disturbs the transfer that runs: it keeps its   *)
(* direction and the registers it was started with, and only gets closer   *)
(* to its end.                                                             *)
RunningTransferFrozen ==
    [][any(dma.busy) =>
          /\ dma'.busy = dma.busy
          /\ dma'.current = dma.current
          /\ dma'.clock >= dma.clock]_vars

(* The transfer that starts is the one just written, and it is due after 3 *)
(* clocks per 8 bytes of its own length, not of the transfer before; the   *)
(* clocks of the MTC0 that started it count.                               *)
StartedTransferDue ==
    [][~any(dma.busy) /\ any(dma'.busy) =>
          /\ dma'.current = dma'.pending
          /\ \E clocks \in Costs :
                dma'.clock = Tick(-TransferClocks(dma'.current.length), clocks)
          /\ ~any(dma'.full)]_vars

(* The semaphore is a test-and-set lock: once a read has returned 0, every *)
(* read returns 1 until the semaphore is written, whatever happens to the  *)
(* other registers (SP_STATUS, BREAK, the host's halt) in between.         *)
SemaphoreGrantedOnce == held => ioRead(status, dma, SP_SEMAPHORE) # {}

(* Writing SP_STATUS and reading it back: every flag's set and clear bits  *)
(* act on the flag that ioRead returns for it and on no other.  The two    *)
(* layouts are independent lists of 13 lines each.                         *)
ReadBit(s, d, n) == n \in StatusWord(s, d)

StatusLayouts ==
    [][\A w \in MovedWords[SP_STATUS], clocks \in Costs :
          MTC0(SP_STATUS, w, clocks) =>
              \A pair \in {<<0, 0, 1>>, <<5, 5, 6>>, <<6, 7, 8>>}
                            \cup {<<7 + k, 9 + 2*k, 10 + 2*k>> : k \in 0..7} :
                  LET was    == ReadBit(status, dma, pair[1])
                      clears == pair[2] \in w /\ pair[3] \notin w
                      sets   == pair[3] \in w /\ pair[2] \notin w
                  IN  ReadBit(status', dma', pair[1]) = (sets \/ (was /\ ~clears))]_vars
=============================================================================
