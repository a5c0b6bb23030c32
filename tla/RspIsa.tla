------------------------------- MODULE RspIsa -------------------------------
(***************************************************************************)
(* What the RSP promises to a program: instructions retire one after the   *)
(* other, each in full, in the order the control flow gives them.  There   *)
(* is no pipeline, no pairing and no branch state machine here, and the    *)
(* program counter is an address in IMEM.                                  *)
(*                                                                         *)
(* A taken branch takes effect after the next instruction.  A branch taken *)
(* in a delay slot replaces the pending one and starts over.               *)
(***************************************************************************)
EXTENDS SpRegisters

CONSTANTS
    ImemWords,      \* words of instruction memory
    Instrs,         \* what a word of it can hold
    RegTargets,     \* the addresses a register jump may find in its register
    MovedWords,     \* the words MTC0 may find in its register
    Nop             \* the zero word

VARIABLES
    pc,             \* address of the next instruction
    target,         \* where the pending branch goes, or NoTarget
    ra,             \* the return address register
    status,         \* the SP status flags
    imem            \* the program

vars == <<pc, target, ra, status, imem>>

ImemBytes == 4 * ImemWords
Wrap(address) == address % ImemBytes
NoTarget == -1

State == [pc : 0..(ImemBytes - 1), target : (-1)..(ImemBytes - 1),
          ra : 0..(ImemBytes - 1), status : Status]

(* Where an instruction branches to, if it does.                           *)
Targets(i, s) ==
    CASE i.kind = "jump"     -> {Wrap(i.imm)}
      [] i.kind = "cond"     -> {NoTarget, Wrap(s.pc + 4 + i.imm)}
      [] i.kind = "register" -> {Wrap(t) : t \in RegTargets}
      [] i.kind = "return"   -> {s.ra}
      [] OTHER               -> {NoTarget}

Statuses(i, s) ==
    CASE i.kind = "break" -> {BREAK(s.status)}
      [] i.kind = "mtc0"  -> {ioWriteStatus(s.status, i.imm, w) : w \in MovedWords}
      [] i.kind = "mfc0"  -> {ioReadStatus(s.status, i.imm)}
      [] OTHER            -> {s.status}

(* The states after one instruction.                                       *)
Step(s) ==
    LET i == imem[s.pc \div 4]
    IN  {[pc     |-> IF t = NoTarget /\ s.target # NoTarget THEN s.target
                                                            ELSE Wrap(s.pc + 4),
          target |-> t,
          ra     |-> IF i.link THEN Wrap(s.pc + 8) ELSE s.ra,
          status |-> st] : t \in Targets(i, s), st \in Statuses(i, s)}

Now == [pc |-> pc, target |-> target, ra |-> ra, status |-> status]

Becomes(s) ==
    /\ pc' = s.pc
    /\ target' = s.target
    /\ ra' = s.ra
    /\ status' = s.status

Init ==
    /\ pc = 0
    /\ target = NoTarget
    /\ ra = 0
    /\ status = [InitStatus EXCEPT !.halted = FALSE]
    /\ imem \in [0..(ImemWords - 1) -> Instrs]

(* One call of exec() retires one instruction or two.                      *)
Run ==
    /\ ~status.halted
    /\ \/ \E s \in Step(Now) : Becomes(s)
       \/ \E s \in Step(Now) : \E t \in Step(s) : Becomes(t)
    /\ UNCHANGED imem

SetHalted(isHalted) ==
    /\ status' = [status EXCEPT !.halted = isHalted]
    /\ UNCHANGED <<pc, target, ra, imem>>

HostLoad ==
    /\ imem' \in [0..(ImemWords - 1) -> Instrs]
    /\ UNCHANGED <<pc, target, ra, status>>

(* A reset clears IMEM, the registers and the program counter and starts   *)
(* the RSP; a pending branch stays pending (see ResetDropsBranch).         *)
Reset ==
    /\ pc' = 0
    /\ ra' = 0
    /\ imem' = [a \in 0..(ImemWords - 1) |-> Nop]
    /\ status' = [status EXCEPT !.halted = FALSE]
    /\ UNCHANGED target

Next ==
    \/ Run
    \/ \E isHalted \in BOOLEAN : SetHalted(isHalted)
    \/ HostLoad
    \/ Reset

Spec == Init /\ [][Next]_vars
=============================================================================
