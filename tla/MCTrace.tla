------------------------------ MODULE MCTrace ------------------------------
(* Two parts of the VM on small instances, which share no state and of     *)
(* which each behaviour moves one.  The trace: rings of two slots, a       *)
(* screen of two pixels, which are interchangeable.  The inode file        *)
(* system: four inodes besides the root, and the core dump of one process. *)
EXTENDS Trace, TLC

CONSTANTS Name, Dot, DotDot, NoName, MAX_FILE_SIZE, Sizes, Dump, Var, Core, MaxIno,
          dot, dotdot, noname, var, core, dump

ASSUME InodeFsAssumption ==
    /\ Dot # DotDot /\ NoName \notin {Dot, DotDot}
    /\ {Dot, DotDot, NoName} \cap Name = {}
    /\ MAX_FILE_SIZE \in Nat /\ Sizes \subseteq Nat
    /\ MaxIno \in Nat \ {0}
    /\ \A pid \in DOMAIN Dump : Dump[pid] \in Name
    /\ {Var, Core} \subseteq Name

VARIABLES inodes, next_ino, cwd,
          part      \* what this behaviour moves

treeVars == <<inodes, next_ino, cwd>>

I == INSTANCE InodeFs

Pixels == Permutations(Pixel)
MCDump == 1 :> dump

VmInit ==
    /\ Init /\ I!Init
    /\ part \in {"trace", "files"}

VmNext ==
    \/ part = "trace" /\ Next /\ UNCHANGED <<treeVars, part>>
    \/ part = "files" /\ I!Next /\ UNCHANGED <<vars, part>>

Vm == VmInit /\ [][VmNext]_<<vars, treeVars, part>>

\* The inode file system is a tree, with the working directory in it (InodeFs).
TreeSound == I!TreeSound

\* A number that was given out never names another inode later (InodeFs).
NumbersStay == I!NumbersStay
=============================================================================
