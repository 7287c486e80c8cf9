------------------------------ MODULE MCRiscv ------------------------------
(* The RISC-V machine on small instances, in two parts that share no state *)
(* and of which each behaviour moves one.  Address translation: two        *)
(* megapages of two pages, one of them low and one of the kernel; two      *)
(* roots and one second-level table; pages from 8 on are kernel virtual.   *)
(* Traps and the timer: a guest of two instructions.                       *)
EXTENDS Mmu

CONSTANTS LastPc, Faults, MaxLeft

ASSUME HartAssumption ==
    LastPc \in Nat /\ MaxLeft \in Nat /\ Faults \subseteq 0 .. 15

VARIABLES hart, clint, running, frame, away, unmasked,
          part      \* what this behaviour moves

trapVars == <<hart, clint, running, frame, away, unmasked>>

H == INSTANCE Hart

Word(flags, ppn) == [V |-> TRUE, flags |-> flags, ppn |-> ppn]

MCWords == {Invalid, Word({}, 3), Word({}, 11), Word({}, 0),
            Word({"R", "W", "G"}, 12), Word({"R", "X", "U"}, 5)}

Access(access, priv, sum, mxr) ==
    [access |-> access, priv |-> priv, sum |-> sum, mxr |-> mxr]

MCAccesses == {Access("load", "M", FALSE, FALSE), Access("fetch", "S", FALSE, FALSE),
               Access("store", "S", TRUE, FALSE), Access("load", "U", FALSE, TRUE)}

RiscvInit ==
    /\ Init /\ H!Init
    /\ part \in {"translation", "traps"}
    /\ part = "traps" => ~auto_pte_fixup /\ ~low_addr_identity_map

TrapTurn == part = "traps" /\ H!Turn /\ UNCHANGED <<vars, part>>

RiscvNext ==
    \/ part = "translation" /\ Next /\ UNCHANGED <<trapVars, part>>
    \/ TrapTurn

Riscv == RiscvInit /\ [][RiscvNext]_<<vars, trapVars, part>> /\ WF_trapVars(TrapTurn)

\* Machine mode is the firmware's, one trap at a time; the kernel's trap
\* registers are about what its trap interrupted; and at most one interrupt
\* reaches the kernel with interrupts off (Hart).
HartSound == H!HartSound

\* The firmware hands a trap on or goes back past its instruction (Hart).
FirmwareResumes == H!FirmwareResumes

\* A timer that is due and enabled reaches the kernel's handler (Hart).
TimerArrives == H!TimerArrives
=============================================================================
