-------------------------------- MODULE Hart --------------------------------
(***************************************************************************)
(* The RISC-V hart under the host's loop that boots Linux (boot_linux in   *)
(* riscv/boot.rs): traps and their return (riscv/csr/bank.rs, riscv/cpu),  *)
(* the timer and software interrupts (riscv/clint.rs, Bus::sync_mip), SBI  *)
(* calls (riscv/sbi.rs), and the loop's stand-in for the firmware, which   *)
(* finds traps that went to machine mode and either forwards them to the   *)
(* kernel or skips the instruction.                                        *)
(*                                                                         *)
(* The guest is a kernel and its programs: it writes supervisor registers  *)
(* from supervisor mode and leaves the machine's alone, which the code     *)
(* does not enforce.  Its instructions are reduced to those that touch     *)
(* this state.  Time is counted in turns of the loop.  The interrupt       *)
(* controller never has one pending: no device signals it.                 *)
(***************************************************************************)
EXTENDS Naturals

CONSTANTS
    LastPc,         \* the guest's instructions are 0 .. LastPc, 0 is its trap vector
    Faults,         \* exceptions its instructions raise
    MaxLeft         \* turns until a timer the guest or the loop sets is due, at most

VARIABLES
    hart,       \* privilege, pc and the registers for traps
    clint,      \* [left, msip]: turns until the timer is due, or Never
    running,    \* the loop goes on
    frame,      \* history: what the kernel's trap registers are about, if it left them alone
    away,       \* history: what was interrupted by the trap that is in machine mode
    unmasked    \* history: interrupts that reached the kernel while it had them off

vars == <<hart, clint, running, frame, away, unmasked>>
-----------------------------------------------------------------------------
Pc == 0 .. LastPc
Vector == 0                 \* where stvec leads once it is set
Fw == LastPc + 1            \* fw_addr, where mtvec leads
NextPc(pc) == (pc + 1) % (LastPc + 1)
Never == MaxLeft + 1        \* mtimecmp = u64::MAX

(* Interrupts and exceptions have the same small numbers. *)
SSI == 1
MSI == 3
STI == 5
MTI == 7
SEI == 9
MEI == 11
Interrupts == {SSI, MSI, STI, MTI, SEI, MEI}
MachineInts == {MSI, MTI, MEI}
SupervisorInts == {SSI, STI, SEI}
STORE_ACCESS == 7
ECALL_U == 8
ECALL_S == 9
ECALL_M == 11
FETCH_PAGE_FAULT == 12

Interrupt(i) == [int |-> TRUE, code |-> i]
Exception(n) == [int |-> FALSE, code |-> n]

(* What boot_linux_setup delegates: 0xA109 and 0x222. *)
medeleg == {0, 3, 8, 13, 15}
mideleg == {SSI, STI, SEI}

None == [none |-> TRUE]

(* The state in which boot_linux_setup enters the kernel, by way of        *)
(* trap_return: supervisor mode, with interrupts on in mstatus.MIE.        *)
Init ==
    /\ hart = [priv |-> "S", pc |-> LastPc, stvec |-> FALSE,
               SIE |-> FALSE, SPIE |-> FALSE, SPP |-> "U",
               MIE |-> TRUE, MPIE |-> TRUE, MPP |-> "U",
               mie |-> MachineInts,
               sepc |-> 0, scause |-> Exception(0), mepc |-> LastPc, mcause |-> Exception(0)]
    /\ clint = [left |-> Never, msip |-> FALSE]
    /\ running = TRUE
    /\ frame = None /\ away = None /\ unmasked = 0
-----------------------------------------------------------------------------
(* Traps. *)

trap_target_priv(h, cause) ==
    IF h.priv # "M" /\ cause.code \in (IF cause.int THEN mideleg ELSE medeleg)
      THEN "S" ELSE "M"

(* The order in which pending_interrupt looks at them. *)
Priority == <<MTI, STI, MSI, SSI, MEI, SEI>>

Taken(h, mip) ==
    {i \in mip \cap h.mie : IF i \in MachineInts THEN h.MIE ELSE h.SIE /\ h.priv # "M"}

pending_interrupt(taken) ==
    Priority[CHOOSE k \in DOMAIN Priority :
        Priority[k] \in taken /\ \A j \in 1 .. k - 1 : Priority[j] \notin taken]

(* Mutant: interrupts stay on in the machine's handler. *)
EnterMUnmasked(h, cause) ==
    [h EXCEPT !.MPP = h.priv, !.MPIE = h.MIE,
              !.mepc = h.pc, !.mcause = cause, !.priv = "M", !.pc = Fw]

EnterM(h, cause) ==
    [h EXCEPT !.MPP = h.priv, !.MPIE = h.MIE, !.MIE = FALSE,
              !.mepc = h.pc, !.mcause = cause, !.priv = "M", !.pc = Fw]

EnterS(h, cause) ==
    [h EXCEPT !.SPP = IF h.priv = "S" THEN "S" ELSE "U", !.SPIE = h.SIE, !.SIE = FALSE,
              !.sepc = h.pc, !.scause = cause, !.priv = "S", !.pc = Vector]

Context(h, cause) == [priv |-> h.priv, SIE |-> h.SIE, pc |-> h.pc, cause |-> cause]

(* An interrupt that reaches the kernel from context c. *)
Count(c) == IF c.cause.int /\ ~c.SIE /\ unmasked < 2 THEN unmasked + 1 ELSE unmasked

(* deliver_trap, and the same for interrupts and ECALL. *)
Trap(h, cause) ==
    IF trap_target_priv(h, cause) = "S"
    THEN /\ hart' = EnterS(h, cause)
         /\ frame' = Context(h, cause)
         /\ unmasked' = Count(Context(h, cause))
         /\ UNCHANGED away
    ELSE /\ hart' = EnterM(h, cause)
         /\ away' = Context(h, cause)
         /\ UNCHANGED <<frame, unmasked>>

ReturnM(h) ==
    [h EXCEPT !.MIE = h.MPIE, !.MPIE = TRUE, !.MPP = "U", !.priv = h.MPP, !.pc = h.mepc]

ReturnS(h) ==
    [h EXCEPT !.SIE = h.SPIE, !.SPIE = TRUE, !.SPP = "U", !.priv = h.SPP, !.pc = h.sepc]
-----------------------------------------------------------------------------
(* One turn of the loop.  The timer is advanced and mip follows it.        *)

(* Mutant: goes on below zero. *)
tickPast(left) == left - 1

tick(left) == IF left \in 1 .. MaxLeft THEN left - 1 ELSE left

Clock == [clint EXCEPT !.left = tick(@)]

TimerBits == {MTI, STI}

(* mip, which has no bit that does not follow the devices here.            *)
sync_mip(c) ==
    (IF c.left = 0 THEN TimerBits ELSE {}) \cup (IF c.msip THEN {MSI} ELSE {})

AtFirmware == hart.priv = "M" /\ hart.pc = Fw

(* The firmware calls neither of these a trap of the kernel's: it handles  *)
(* them as SBI calls.  Interrupts with these numbers are taken for them.   *)
IsCall(cause) == cause.code \in {ECALL_S, ECALL_M}

(* Mutant: the machine's interrupts are switched on again. *)
ForwardedUnmasking ==
    [hart EXCEPT !.SPP = IF hart.MPP = "S" THEN "S" ELSE "U", !.SPIE = hart.SIE, !.SIE = FALSE,
                 !.sepc = hart.mepc, !.MIE = hart.MPIE,
                 !.scause = IF hart.mcause.code = MTI THEN Interrupt(STI) ELSE hart.mcause,
                 !.priv = "S", !.pc = Vector]

(* Mutant: the mode the trap came from is not handed on. *)
ForwardedFromUser ==
    [hart EXCEPT !.SPIE = hart.SIE, !.SIE = FALSE, !.sepc = hart.mepc,
                 !.scause = IF hart.mcause.code = MTI THEN Interrupt(STI) ELSE hart.mcause,
                 !.priv = "S", !.pc = Vector]

(* Mutant: the timer's interrupt keeps its machine number. *)
ForwardedAsIs ==
    [hart EXCEPT !.SPP = IF hart.MPP = "S" THEN "S" ELSE "U", !.SPIE = hart.SIE, !.SIE = FALSE,
                 !.sepc = hart.mepc, !.scause = hart.mcause, !.priv = "S", !.pc = Vector]

(* The trap as the kernel would have got it; the timer's is renamed.       *)
Forwarded ==
    [hart EXCEPT !.SPP = IF hart.MPP = "S" THEN "S" ELSE "U", !.SPIE = hart.SIE, !.SIE = FALSE,
                 !.sepc = hart.mepc,
                 !.scause = IF hart.mcause.code = MTI THEN Interrupt(STI) ELSE hart.mcause,
                 !.priv = "S", !.pc = Vector]

MayForward == ~IsCall(hart.mcause) /\ hart.MPP # "M" /\ hart.stvec

(* A fetch fault below the kernel may be answered with a mapping instead.  *)
MustForward == MayForward /\ hart.mcause.code # FETCH_PAGE_FAULT

(* The loop goes on to its next turn without a step of the hart.           *)
Forward ==
    /\ AtFirmware /\ MayForward
    /\ hart' = Forwarded
    /\ clint' = IF hart.mcause.code = MTI THEN [clint EXCEPT !.left = MaxLeft] ELSE clint
    /\ frame' = away /\ away' = None
    /\ unmasked' = Count(away)
    /\ UNCHANGED running

(* Mutant: the instruction is tried again. *)
SkippedNot(pc) == pc

Skipped(pc) == NextPc(pc)

(* The hart when its step begins: the firmware moved mepc on. *)
Begun == IF AtFirmware THEN [hart EXCEPT !.mepc = Skipped(@)] ELSE hart

Due == Taken(hart, sync_mip(Clock))

StepBegins == ~(AtFirmware /\ MustForward)

TakeInterrupt ==
    /\ StepBegins /\ Due # {}
    /\ clint' = Clock
    /\ Trap(Begun, Interrupt(pending_interrupt(Due)))
    /\ UNCHANGED running

(* The only instruction of the firmware. *)
Mret ==
    /\ StepBegins /\ Due = {} /\ AtFirmware
    /\ hart' = ReturnM(Begun)
    /\ clint' = Clock
    /\ away' = None
    /\ UNCHANGED <<running, frame, unmasked>>
-----------------------------------------------------------------------------
(* The guest's instructions. *)
Guest == StepBegins /\ Due = {} /\ hart.priv # "M"

Kernel == hart.priv = "S"

(* h is the hart after an instruction that leads to the next one. *)
Done(h) == hart' = [h EXCEPT !.pc = NextPc(@)]

(* Arithmetic, loads, stores, jumps. *)
Ordinary(pc) ==
    /\ hart' = [hart EXCEPT !.pc = pc]
    /\ clint' = Clock
    /\ UNCHANGED <<running, frame, away, unmasked>>

Fault(n) ==
    /\ clint' = Clock
    /\ Trap(hart, Exception(n))
    /\ UNCHANGED running

(* ECALL of a program, and of the kernel with a number that is no SBI call. *)
Ecall ==
    /\ clint' = Clock
    /\ Trap(hart, Exception(IF hart.priv = "U" THEN ECALL_U ELSE ECALL_S))
    /\ UNCHANGED running

(* SBI_SET_TIMER, or a store to mtimecmp. *)
SetTimer(left) ==
    /\ Kernel
    /\ Done(hart)
    /\ clint' = [clint EXCEPT !.left = left]
    /\ UNCHANGED <<running, frame, away, unmasked>>

(* A store to msip. *)
SetMsip(b) ==
    /\ Kernel
    /\ Done(hart)
    /\ clint' = [Clock EXCEPT !.msip = b]
    /\ UNCHANGED <<running, frame, away, unmasked>>

(* SBI_SHUTDOWN, system_reset or EBREAK. *)
Stop ==
    /\ Done(hart)
    /\ clint' = Clock
    /\ running' = FALSE
    /\ UNCHANGED <<frame, away, unmasked>>

Sret ==
    /\ Kernel
    /\ hart' = ReturnS(hart)
    /\ clint' = Clock
    /\ frame' = None
    /\ UNCHANGED <<running, away, unmasked>>

(* CSR instructions on sstatus.SIE, sie and stvec. *)
WriteCsr ==
    /\ Kernel
    /\ \/ \E sie \in BOOLEAN : Done([hart EXCEPT !.SIE = sie])
       \/ \E on \in {{}, {STI}} : Done([hart EXCEPT !.mie = (@ \ SupervisorInts) \cup on])
       \/ Done([hart EXCEPT !.stvec = TRUE])
    /\ clint' = Clock
    /\ UNCHANGED <<running, frame, away, unmasked>>

(* A handler that puts back what it saved before it lets others nest.      *)
WriteFrame(spp, spie, sepc) ==
    /\ Kernel
    /\ Done([hart EXCEPT !.SPP = spp, !.SPIE = spie, !.sepc = sepc])
    /\ clint' = Clock
    /\ frame' = None
    /\ UNCHANGED <<running, away, unmasked>>

(* The next instruction, when the hart is the guest's and no interrupt due. *)
Instruction ==
    \/ \E pc \in Pc : Ordinary(pc)
    \/ \E n \in Faults : Fault(n)
    \/ Ecall \/ Stop \/ Sret \/ WriteCsr
    \/ \E left \in 0 .. Never : SetTimer(left)
    \/ \E b \in BOOLEAN : SetMsip(b)
    \/ \E spp \in {"S", "U"}, spie \in BOOLEAN, sepc \in Pc : WriteFrame(spp, spie, sepc)

Turn ==
    /\ running
    /\ Forward \/ TakeInterrupt \/ Mret \/ (Guest /\ Instruction)

Spec == Init /\ [][Turn]_vars

(* The loop goes on until it is stopped (the limit on its turns is taken   *)
(* to be far away).                                                        *)
FairSpec == Spec /\ WF_vars(Turn)
-----------------------------------------------------------------------------
Causes == [int : BOOLEAN, code : 0 .. 15]
Contexts == [priv : {"S", "U"}, SIE : BOOLEAN, pc : Pc, cause : Causes]

TypeOK ==
    /\ hart \in [priv : {"U", "S", "M"}, pc : Pc \cup {Fw}, stvec : BOOLEAN,
                 SIE : BOOLEAN, SPIE : BOOLEAN, SPP : {"U", "S"},
                 MIE : BOOLEAN, MPIE : BOOLEAN, MPP : {"U", "S", "M"},
                 mie : SUBSET Interrupts,
                 sepc : Pc, scause : Causes, mepc : Pc, mcause : Causes]
    /\ clint \in [left : 0 .. Never, msip : BOOLEAN]
    /\ running \in BOOLEAN
    /\ frame \in Contexts \cup {None} /\ away \in Contexts \cup {None}
    /\ unmasked \in 0 .. 2

\* Machine mode is the firmware's alone, one trap at a time: the guest never
\* runs there, no trap comes from there (the loop's case MPP = 3), and no
\* interrupt is taken there that would overwrite mepc before MRET uses it.
OnlyFirmwareInMachineMode ==
    hart.priv = "M" <=> hart.pc = Fw /\ hart.MPP # "M" /\ ~hart.MIE /\ away # None

(* How the kernel is told of a cause. *)
Told(cause) == IF cause = Interrupt(MTI) THEN Interrupt(STI) ELSE cause

\* Until the kernel's handler writes them itself, its trap registers are
\* about what the trap interrupted, whether it came directly or through the
\* firmware and however often the firmware was entered since: SRET returns to
\* the right mode, instruction and interrupt enable.  The cause is right but
\* for a store access fault, whose number is the machine timer's.
FrameKept ==
    frame # None =>
        /\ hart.SPP = frame.priv /\ hart.SPIE = frame.SIE /\ hart.sepc = frame.pc
        /\ frame.cause # Exception(STORE_ACCESS) => hart.scause = Told(frame.cause)

\* The firmware either hands a trap on or goes back to where it came from,
\* with the mode and the interrupt enable it had and past the instruction
\* that trapped, and then without a trace in the kernel's trap registers.
FirmwareResumes ==
    [][hart.priv = "M" /\ hart'.priv # "M" =>
         \/ frame' = away /\ hart'.priv = "S"
         \/ /\ hart'.priv = away.priv /\ hart'.SIE = away.SIE
            /\ ~away.cause.int => hart'.pc = NextPc(away.pc)
            /\ hart'.sepc = hart.sepc /\ hart'.scause = hart.scause
            /\ hart'.SPP = hart.SPP /\ hart'.SPIE = hart.SPIE]_vars

\* An interrupt reaches the kernel while it has interrupts off at most once:
\* the machine timer's, forwarded.  Forwarding leaves mstatus.MIE off, which
\* nothing but MRET with MPIE on would undo, and no later trap sets MPIE; so
\* from then on timer interrupts come as the supervisor's own, under SIE.
UnmaskedAtMostOnce == unmasked <= 1

\* The hart between traps: machine mode, the kernel's frame, and interrupts.
HartSound ==
    TypeOK /\ OnlyFirmwareInMachineMode /\ FrameKept /\ UnmaskedAtMostOnce

\* The timer is not lost between the two ways it can take: due, and enabled
\* by the kernel, it reaches the kernel's handler as a timer interrupt, with
\* the machine's interrupts on or, since a trap was forwarded, off for good.
TimerArrives ==
    (clint.left = 0 /\ hart.priv # "M" /\ hart.SIE /\ STI \in hart.mie /\ hart.stvec)
      ~> (~running \/ (hart.priv = "S" /\ hart.pc = Vector /\ hart.scause = Interrupt(STI)))
=============================================================================
