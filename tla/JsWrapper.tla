------------------------------ MODULE JsWrapper ------------------------------
(***************************************************************************)
(* rspjs.js: createRSP() and the objects it returns, over the one machine  *)
(* that the WASM module holds (main.cpp).                                  *)
(*                                                                         *)
(* createRSP keeps the promise of the module in a variable of the file, so *)
(* every call awaits the same promise and every RSP object calls the       *)
(* exports of the same instance.  Of the machine, one register of the host *)
(* and the clock are kept.                                                 *)
(***************************************************************************)
EXTENDS Integers, SequencesExt

CONSTANTS
    Calls,          \* the calls of createRSP()
    Values,         \* values a host writes to a register, 0 among them
    Costs,          \* clocks one step may charge
    CycleRange,     \* values of a u32: 2^32
    MaxClock        \* bound: the host stops stepping here

ASSUME ValuesAssumption == 0 \in Values
ASSUME ClockAssumption ==
    /\ Costs \subseteq Nat \ {0}
    /\ CycleRange \in Nat \ {0} /\ CycleRange % 2 = 0
    /\ MaxClock \in Nat

VARIABLES
    wasmModule,     \* the cached promise: unset, pending, fulfilled, rejected
    loads,          \* how often getWasmModule() has been called
    call,           \* what became of each call of createRSP()
    waiting,        \* the calls that await the promise, oldest first
    machine         \* the instance's state: register and clock

wrapperVars == <<wasmModule, loads, call, waiting, machine>>

PromiseStates == {"unset", "pending", "fulfilled", "rejected"}
CallStates == {"idle", "awaiting", "object", "failed"}

WrapperTypeOK ==
    /\ wasmModule \in PromiseStates
    /\ loads \in Nat
    /\ call \in [Calls -> CallStates]
    /\ waiting \in Seq(Calls)
    /\ machine \in [reg : Values, clock : Nat]

(* Mutant of FreshMachine: the clock starts before 0.                      *)
FreshMachine_Early == [reg |-> 0, clock |-> -1]

FreshMachine == [reg |-> 0, clock |-> 0]

WrapperInit ==
    /\ wasmModule = "unset"
    /\ loads = 0
    /\ call = [c \in Calls |-> "idle"]
    /\ waiting = <<>>
    /\ machine = FreshMachine

(* Mutants of CreateRSP: the loaded module is cached, not the promise; a   *)
(* rejected promise is replaced.                                           *)
CreateRSP_NoCache(c) ==
    /\ call[c] = "idle"
    /\ call' = [call EXCEPT ![c] = "awaiting"]
    /\ waiting' = Append(waiting, c)
    /\ IF wasmModule # "fulfilled"
       THEN wasmModule' = "pending" /\ loads' = loads + 1
       ELSE UNCHANGED <<wasmModule, loads>>
    /\ UNCHANGED machine

CreateRSP_Retries(c) ==
    /\ call[c] = "idle"
    /\ call' = [call EXCEPT ![c] = "awaiting"]
    /\ waiting' = Append(waiting, c)
    /\ IF wasmModule \in {"unset", "rejected"}
       THEN wasmModule' = "pending" /\ loads' = loads + 1
       ELSE UNCHANGED <<wasmModule, loads>>
    /\ UNCHANGED machine

(* createRSP() up to its await.                                            *)
CreateRSP(c) ==
    /\ call[c] = "idle"
    /\ call' = [call EXCEPT ![c] = "awaiting"]
    /\ waiting' = Append(waiting, c)
    /\ IF wasmModule = "unset"
       THEN wasmModule' = "pending" /\ loads' = loads + 1
       ELSE UNCHANGED <<wasmModule, loads>>
    /\ UNCHANGED machine

(* getWasmModule() settles: the file is read and compiled, or it is not.   *)
Settle(outcome) ==
    /\ wasmModule = "pending"
    /\ wasmModule' = outcome
    /\ UNCHANGED <<loads, call, waiting, machine>>

(* Mutant of Resume: a rejected promise answers nobody.                    *)
Resume_NoCatch ==
    /\ waiting # <<>>
    /\ wasmModule = "fulfilled"
    /\ waiting' = Tail(waiting)
    /\ call' = [call EXCEPT ![Head(waiting)] = "object"]
    /\ machine' = FreshMachine
    /\ UNCHANGED <<wasmModule, loads>>

(* createRSP() after its await: the constructor calls rsp_init() and       *)
(* rsp_set_halted(0); a rejected promise throws instead.                   *)
Resume ==
    /\ waiting # <<>>
    /\ waiting' = Tail(waiting)
    /\ \/ /\ wasmModule = "fulfilled"
          /\ call' = [call EXCEPT ![Head(waiting)] = "object"]
          /\ machine' = FreshMachine
       \/ /\ wasmModule = "rejected"
          /\ call' = [call EXCEPT ![Head(waiting)] = "failed"]
          /\ UNCHANGED machine
    /\ UNCHANGED <<wasmModule, loads>>

(* The methods of an object: reset(), setGPR() and step().                 *)
ResetRSP(c) ==
    /\ call[c] = "object"
    /\ machine' = FreshMachine
    /\ UNCHANGED <<wasmModule, loads, call, waiting>>

SetGPR(c, value) ==
    /\ call[c] = "object"
    /\ machine' = [machine EXCEPT !.reg = value]
    /\ UNCHANGED <<wasmModule, loads, call, waiting>>

StepRSP(c, clocks) ==
    /\ call[c] = "object"
    /\ machine.clock + clocks <= MaxClock
    /\ machine' = [machine EXCEPT !.clock = @ + clocks]
    /\ UNCHANGED <<wasmModule, loads, call, waiting>>

Uses(c) ==
    \/ ResetRSP(c)
    \/ \E value \in Values : SetGPR(c, value)
    \/ \E clocks \in Costs : StepRSP(c, clocks)

WrapperNext ==
    \/ \E c \in Calls : CreateRSP(c) \/ Uses(c)
    \/ \E outcome \in {"fulfilled", "rejected"} : Settle(outcome)
    \/ Resume

WrapperSpec == WrapperInit /\ [][WrapperNext]_wrapperVars

(* The event loop runs every queued continuation, and the load ends.       *)
WrapperFairSpec ==
    /\ WrapperSpec
    /\ WF_wrapperVars(Resume)
    /\ WF_wrapperVars(\E outcome \in {"fulfilled", "rejected"} : Settle(outcome))

-----------------------------------------------------------------------------
(* What an object's accessors show.  rsp_get_cycles returns a u32, which   *)
(* JavaScript receives from WASM as a signed 32-bit number.                *)
Signed(n) == IF n >= CycleRange \div 2 THEN n - CycleRange ELSE n
getCycles(c) == Signed(machine.clock % CycleRange)
View(c) == [reg |-> machine.reg, cycles |-> getCycles(c)]

-----------------------------------------------------------------------------
(* Calls made before the first load ends do not load the module again: the *)
(* promise is cached, not its result, and a call is waiting exactly while  *)
(* it awaits it, once.                                                     *)
LoadedOnce ==
    /\ loads <= 1
    /\ loads = 0 <=> wasmModule = "unset"
    /\ \A c \in Calls : call[c] = "awaiting" <=> c \in ToSet(waiting)
    /\ IsInjective(waiting)

(* Every call of createRSP() gets its object or an error, also those made  *)
(* while the module loads or after it failed to.                           *)
CallsSettle == \A c \in Calls : call[c] = "awaiting" ~> call[c] \in {"object", "failed"}

(* One outcome for all: the promise is never replaced, so that no call     *)
(* returns an object once another one has failed, however late it is made. *)
SameOutcome ==
    ~ \E c, d \in Calls : call[c] = "object" /\ call[d] = "failed"

(* Readme.md and createRSP's result: an instance is an RSP of its own, so  *)
(* using or constructing one does not show on another.                     *)
InstancesIsolated ==
    [][\A c, d \in Calls :
          c # d /\ call[c] = "object" /\ call[d] = "object" /\ Uses(d)
              => View(c)' = View(c)]_wrapperVars
=============================================================================
