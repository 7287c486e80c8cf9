------------------------------- MODULE Kernel -------------------------------
(***************************************************************************)
(* The process table of the pixel VM and everything that reads or writes   *)
(* it: the host loop (main.rs), the scheduler (vm/scheduler.rs) and the    *)
(* opcodes that create, stop, reap, signal and message processes.          *)
(*                                                                         *)
(* The host executes one instruction of the main program, then calls       *)
(* step_all_processes, which moves the table out of the VM, gives every    *)
(* eligible child one instruction, and moves the table back.  A child      *)
(* therefore executes against an EMPTY self.processes; `processes` is that *)
(* field and `procs` the local vector of step_all_processes.               *)
(*                                                                         *)
(* An instruction is an operator from a context (who executes it) to an    *)
(* effect record; RunMain and RunChild apply the effect.  Data (registers, *)
(* RAM, program counters) is left out: which instruction comes next is     *)
(* chosen from MainOps and ChildOps, the opcodes the programs use.         *)
(*                                                                         *)
(* sched_tick and sleep_until are kept relative to each other: `sleep` is  *)
(* the number of ticks until sleep_until, 0 once it has passed and Awake   *)
(* when sleep_until = 0.                                                   *)
(***************************************************************************)
EXTENDS Integers, Sequences, FiniteSets

CONSTANTS
    MAX_PROCESSES,       \* live children the spawning opcodes allow (8)
    default_time_slice,  \* instructions per slice at priority 0 (100)
    MAX_MESSAGES,        \* capacity of a message queue (16)
    MainOps,             \* opcodes the main program uses
    ChildOps,            \* opcodes the children use
    PriorityArgs,        \* operands of SETPRIORITY
    ExitArgs,            \* operands of EXIT
    HandlerArgs,         \* handlers given to SIGSET
    HasActiveApps,       \* whether the host has windowed apps loaded
    MaxTable,            \* bound: processes in the table, unreaped ones included
    MaxSleep,            \* bound: largest operand of SLEEP
    MaxNest              \* bound: depth of the main program's kernel stack

Opcodes == {"NOP", "HALT", "SEGFAULT", "SPAWN", "KILL", "WAITPID", "EXIT", "SIGNAL", "SIGSET",
            "MSGSND", "MSGRCV", "SYSCALL", "RETK", "SHUTDOWN", "YIELD", "SLEEP", "SETPRIORITY"}

ASSUME KernelAssumption ==
    /\ MainOps \subseteq Opcodes /\ ChildOps \subseteq Opcodes
    /\ MAX_PROCESSES \in Nat \ {0}
    /\ default_time_slice \in Nat \ {0}
    /\ MAX_MESSAGES \in Nat \ {0}
    /\ MaxTable \in Nat \ {0} /\ MaxSleep \in Nat /\ MaxNest \in Nat
    /\ PriorityArgs \subseteq Nat /\ ExitArgs \subseteq Nat
    /\ HandlerArgs \subseteq {"default", "ignore", "address"}
    /\ HasActiveApps \in BOOLEAN

VARIABLES
    processes,   \* Vm::processes
    procs,       \* the vector step_all_processes works on
    order,       \* indices of procs still to visit in this pass
    phase,       \* where the host loop is: "main", "begin", "pass" or "off"
    main_halted, \* Vm::halted of the main program
    mode,        \* the main program's CPU mode
    kernel_stack,\* modes saved on the main program's kernel stack
    shutdown_requested,
    event        \* who executed what last, and whether r0 reported success

vars == <<processes, procs, order, phase, main_halted, mode, kernel_stack,
          shutdown_requested, event>>
-----------------------------------------------------------------------------
Awake == -1
Signals == {"Term", "User1", "User2", "Stop"}
Handlers == {"default", "ignore", "address"}   \* 0, 0xFFFFFFFF, or a RAM address
Pids == 1 .. MaxTable + 1
Ids == 1 .. MaxTable
NoExit == -1
NoEvent == [who |-> 0, op |-> "NOP", ok |-> TRUE]

Process ==
    [id : Ids, pid : Pids, state : {"Ready", "Blocked", "Zombie", "Stopped"},
     mode : {"User", "Kernel"}, priority : 0 .. 3, slice_remaining : Nat,
     sleep : {Awake} \cup 0 .. MaxSleep, segfaulted : BOOLEAN,
     exit_code : Nat, msgs : 0 .. MAX_MESSAGES,
     signal_handlers : [Signals -> Handlers]]

is_halted(p) == p.state \in {"Zombie", "Stopped"} \/ p.segfaulted

(* `id` tells apart processes that share a pid; no code reads it. *)
FreshIds == Ids \ ({processes[i].id : i \in DOMAIN processes}
                    \cup {procs[i].id : i \in DOMAIN procs})

NewProcess(pid) ==
    [id |-> CHOOSE n \in FreshIds : \A m \in FreshIds : n <= m,
     pid |-> pid, state |-> "Ready", mode |-> "User", priority |-> 1,
     slice_remaining |-> 0, sleep |-> Awake, segfaulted |-> FALSE,
     exit_code |-> 0, msgs |-> 0,
     signal_handlers |-> [s \in Signals |-> "default"]]

(* Index of the first table entry that satisfies the search, 0 if none. *)
First(S) == IF S = {} THEN 0 ELSE CHOOSE i \in S : \A j \in S : i <= j

WithPid(pid) == {i \in DOMAIN processes : processes[i].pid = pid}

(* Mutant: a search that also finds halted processes. *)
LiveWithPidAny(pid) == WithPid(pid)

LiveWithPid(pid) == {i \in WithPid(pid) : ~is_halted(processes[i])}

Active == Cardinality({i \in DOMAIN processes : ~is_halted(processes[i])})
-----------------------------------------------------------------------------
(* Opcodes.  c is the context: c.pid is current_pid (0 for main), c.mode,  *)
(* c.priority and c.stack what the VM has loaded for it.                   *)

Nothing(c) ==
    [table |-> processes, halted |-> FALSE, segfault |-> FALSE,
     exit |-> NoExit, yielded |-> FALSE, sleep_frames |-> 0,
     new_priority |-> c.priority, mode |-> c.mode, stack |-> c.stack,
     shutdown |-> FALSE, ok |-> TRUE]

Error(c) == [Nothing(c) EXCEPT !.ok = FALSE]

Halt(c) == [Nothing(c) EXCEPT !.halted = TRUE]

(* An access to an unmapped page (trigger_segfault). *)
Segfault(c) == [Halt(c) EXCEPT !.segfault = TRUE]

(* The entry i of the table becomes p. *)
Change(c, i, p) == [Nothing(c) EXCEPT !.table = [processes EXCEPT ![i] = p]]

(* Mutant: numbers the child by the processes alive. *)
SpawnNumberedByLive(c) ==
    IF Active >= MAX_PROCESSES THEN Error(c)
    ELSE [Nothing(c) EXCEPT !.table = Append(processes, NewProcess(Active + 1))]

(* SPAWN, SPAWNC, EXEC and EXECP differ in the memory they give the child. *)
Spawn(c) ==
    IF Active >= MAX_PROCESSES THEN Error(c)
    ELSE [Nothing(c) EXCEPT
            !.table = Append(processes, NewProcess(Len(processes) + 1))]

Kill(c, target) ==
    LET i == First(WithPid(target))
    IN  IF i = 0 THEN Error(c)
        ELSE Change(c, i, [processes[i] EXCEPT !.state = "Zombie"])

(* The table without the entries of a pid (retain), in its order.          *)
Without(pid) ==
    LET kept == DOMAIN processes \ WithPid(pid)
    IN  [k \in 1 .. Cardinality(kept) |->
            processes[CHOOSE i \in kept : Cardinality({j \in kept : j < i}) = k - 1]]

(* Mutant: reaps a process that is still running. *)
WaitPidLive(c, target) == [Nothing(c) EXCEPT !.table = Without(target)]

WaitPid(c, target) ==
    LET i == First(WithPid(target))
    IN  CASE i # 0 /\ processes[i].state = "Zombie" ->
               [Nothing(c) EXCEPT !.table = Without(target)]
          [] i # 0 /\ ~is_halted(processes[i]) ->
               [Error(c) EXCEPT !.yielded = TRUE]
          [] OTHER -> Nothing(c)

Exit(c, code) ==
    [Halt(c) EXCEPT !.exit = IF c.pid > 0 THEN code ELSE NoExit]

Signal(c, target, sig) ==
    LET i == First(LiveWithPid(target))
        code == IF sig = "Term" THEN 1 ELSE 2
    IN  CASE i = 0 -> Error(c)
          [] i # 0 /\ processes[i].signal_handlers[sig] = "default"
                   /\ sig \in {"Term", "Stop"} ->
               Change(c, i, [processes[i] EXCEPT !.state = "Zombie", !.exit_code = code])
          [] OTHER -> Nothing(c)

SigSet(c, sig, handler) ==
    LET i == First(WithPid(c.pid))
    IN  CASE c.pid = 0 -> Error(c)
          [] c.pid # 0 /\ i # 0 ->
               Change(c, i, [processes[i] EXCEPT !.signal_handlers[sig] = handler])
          [] OTHER -> Nothing(c)

Delivered(p) ==
    [p EXCEPT !.msgs = @ + 1, !.state = IF @ = "Blocked" THEN "Ready" ELSE @]

(* Mutant: the queue's capacity is not looked at. *)
MsgSndUnbounded(c, target) ==
    LET i == First(LiveWithPid(target))
    IN  IF i = 0 THEN Error(c)
        ELSE Change(c, i, Delivered(processes[i]))

MsgSnd(c, target) ==
    LET i == First(LiveWithPid(target))
    IN  IF i = 0 \/ (i # 0 /\ processes[i].msgs >= MAX_MESSAGES) THEN Error(c)
        ELSE Change(c, i, Delivered(processes[i]))

MsgRcv(c) ==
    LET i == First(WithPid(c.pid))
    IN  CASE c.pid = 0 -> Error(c)
          [] c.pid # 0 /\ i = 0 -> Nothing(c)
          [] OTHER -> IF processes[i].msgs > 0
                      THEN Change(c, i, [processes[i] EXCEPT !.msgs = @ - 1])
                      ELSE Change(c, i, [processes[i] EXCEPT !.state = "Blocked"])

Syscall(c) ==
    [Nothing(c) EXCEPT !.stack = Append(c.stack, c.mode), !.mode = "Kernel"]

RetK(c) ==
    IF c.stack = << >> THEN Halt(c)
    ELSE [Nothing(c) EXCEPT !.mode = c.stack[Len(c.stack)],
                            !.stack = SubSeq(c.stack, 1, Len(c.stack) - 1)]

Shutdown(c) ==
    IF c.mode # "Kernel" THEN Error(c)
    ELSE [Halt(c) EXCEPT
            !.table = [i \in DOMAIN processes |->
                          [processes[i] EXCEPT !.state = "Zombie"]],
            !.shutdown = TRUE]

(* A SPAWN that would succeed waits for room under the bound MaxTable. *)
SpawnRoom == {r \in {TRUE} : Active >= MAX_PROCESSES \/ FreshIds # {}}

(* step(): the effects an opcode can have, over its operands. *)
Effects(op, c) ==
    CASE op = "NOP"         -> {Nothing(c)}
      [] op = "HALT"        -> {Halt(c)}
      [] op = "SEGFAULT"    -> {Segfault(c)}
      [] op = "SPAWN"       -> {Spawn(c) : room \in SpawnRoom}
      [] op = "KILL"        -> {Kill(c, t) : t \in Pids}
      [] op = "WAITPID"     -> {WaitPid(c, t) : t \in Pids}
      [] op = "EXIT"        -> {Exit(c, code) : code \in ExitArgs}
      [] op = "SIGNAL"      -> {Signal(c, t, s) : t \in Pids, s \in Signals}
      [] op = "SIGSET"      -> {SigSet(c, s, h) : s \in Signals, h \in HandlerArgs}
      [] op = "MSGSND"      -> {MsgSnd(c, t) : t \in Pids}
      [] op = "MSGRCV"      -> {MsgRcv(c)}
      [] op = "SYSCALL"     -> {Syscall(c) : depth \in Len(c.stack) .. MaxNest - 1}
      [] op = "RETK"        -> {RetK(c)}
      [] op = "SHUTDOWN"    -> {Shutdown(c)}
      [] op = "YIELD"       -> {[Nothing(c) EXCEPT !.yielded = TRUE]}
      [] op = "SLEEP"       -> {[Nothing(c) EXCEPT !.sleep_frames = n] :
                                    n \in 0 .. MaxSleep}
      [] op = "SETPRIORITY" -> {[Nothing(c) EXCEPT
                                    !.new_priority = IF n > 3 THEN 3 ELSE n] :
                                    n \in PriorityArgs}
-----------------------------------------------------------------------------
Init ==
    /\ processes = << >> /\ procs = << >> /\ order = << >>
    /\ phase = "main" /\ main_halted = FALSE
    /\ mode = "Kernel" /\ kernel_stack = << >>
    /\ shutdown_requested = FALSE
    /\ event = NoEvent

(* One instruction of the main program; vm.step() in the host loop.  When  *)
(* it halts the loop ends, unless windowed apps keep the scheduler going.  *)
RunMain(op) ==
    /\ phase = "main"
    /\ \E e \in Effects(op, [pid |-> 0, mode |-> mode, priority |-> 0,
                             stack |-> kernel_stack]) :
        /\ processes' = e.table
        /\ mode' = e.mode
        /\ kernel_stack' = e.stack
        /\ shutdown_requested' = (shutdown_requested \/ e.shutdown)
        /\ main_halted' = e.halted
        /\ phase' = IF e.halted /\ ~HasActiveApps THEN "off" ELSE "begin"
        /\ event' = [who |-> 0, op |-> op, ok |-> e.ok]
    /\ UNCHANGED <<procs, order>>

(* sched_tick += 1, seen by the sleepers of a table. *)
Tick(ps) ==
    [i \in DOMAIN ps |->
        [ps[i] EXCEPT !.sleep = IF @ > 0 THEN @ - 1 ELSE @]]

Sleeping(p) == p.sleep > 0

(* Mutant: a halted process with slice left counts as runnable. *)
ExhaustedIgnoringHalt(p) == Sleeping(p) \/ p.slice_remaining = 0

Exhausted(p) == is_halted(p) \/ Sleeping(p) \/ p.slice_remaining = 0

(* Mutant: sleepers are refilled too. *)
RefillSleepers(ps) ==
    [i \in DOMAIN ps |->
        IF is_halted(ps[i]) THEN ps[i]
        ELSE [ps[i] EXCEPT
                !.slice_remaining = default_time_slice * 2 ^ ps[i].priority]]

(* A new round: every live process that is not sleeping gets a full slice. *)
Refill(ps) ==
    [i \in DOMAIN ps |->
        IF is_halted(ps[i]) \/ Sleeping(ps[i]) THEN ps[i]
        ELSE [ps[i] EXCEPT
                !.slice_remaining = default_time_slice * 2 ^ ps[i].priority]]

(* Highest priority first; the sort is stable. *)
Before(ps, i, j) ==
    \/ ps[i].priority > ps[j].priority
    \/ ps[i].priority = ps[j].priority /\ i < j

PassOrder(ps) ==
    [k \in DOMAIN ps |->
        CHOOSE i \in DOMAIN ps :
            Cardinality({j \in DOMAIN ps : Before(ps, j, i)}) = k - 1]

(* step_all_processes up to its loop. *)
StepAllBegin ==
    /\ phase = "begin"
    /\ LET ps == Tick(processes)
       IN  /\ procs' = IF \A i \in DOMAIN ps : Exhausted(ps[i]) THEN Refill(ps) ELSE ps
           /\ order' = PassOrder(ps)
    /\ processes' = << >>
    /\ phase' = "pass"
    /\ event' = NoEvent
    /\ UNCHANGED <<main_halted, mode, kernel_stack, shutdown_requested>>

(* A process whose sleep has expired loses its slice on waking, so it      *)
(* waits for the next round.                                               *)
Eligible(p) ==
    /\ ~is_halted(p)
    /\ p.state # "Blocked"
    /\ p.sleep = Awake
    /\ p.slice_remaining > 0

Waking(p) == ~is_halted(p) /\ p.state # "Blocked" /\ p.sleep = 0

(* The loop passes over a process that may not run now. *)
SkipChild ==
    /\ phase = "pass" /\ order # << >>
    /\ ~Eligible(procs[Head(order)])
    /\ procs' = [procs EXCEPT ![Head(order)] =
                    IF Waking(@) THEN [@ EXCEPT !.sleep = Awake, !.slice_remaining = 0]
                    ELSE @]
    /\ order' = Tail(order)
    /\ UNCHANGED <<processes, phase, main_halted, mode, kernel_stack,
                   shutdown_requested, event>>

(* Mutant: charges the instruction even when YIELD emptied the slice. *)
SaveBackOvercharged(p, e) ==
    [p EXCEPT
        !.state = IF e.halted \/ e.segfault THEN "Zombie" ELSE "Ready",
        !.slice_remaining = IF e.yielded THEN 0 - 1 ELSE @ - 1]

(* What the scheduler saves back into a process after its instruction. *)
SaveBack(p, e) ==
    [p EXCEPT
        !.state = IF e.halted \/ e.segfault THEN "Zombie" ELSE "Ready",
        !.mode = e.mode,
        !.segfaulted = e.segfault,
        !.exit_code = IF e.exit # NoExit THEN e.exit ELSE @,
        !.priority = e.new_priority,
        !.slice_remaining = IF e.yielded \/ e.sleep_frames > 0 THEN 0 ELSE @ - 1,
        !.sleep = IF e.sleep_frames > 0 THEN e.sleep_frames ELSE @]

(* One instruction of a child.  Its kernel stack is cleared before it runs *)
(* and not saved after.                                                    *)
RunChild(op) ==
    /\ phase = "pass" /\ order # << >>
    /\ LET i == Head(order)
           p == procs[i]
       IN  /\ Eligible(p)
           /\ \E e \in Effects(op, [pid |-> p.pid, mode |-> p.mode,
                                    priority |-> p.priority, stack |-> << >>]) :
                /\ procs' = [Tick(procs) EXCEPT ![i] = SaveBack(p, e)]
                /\ processes' = Tick(e.table)
                /\ shutdown_requested' = (shutdown_requested \/ e.shutdown)
                /\ event' = [who |-> p.id, op |-> op, ok |-> e.ok]
    /\ order' = Tail(order)
    /\ UNCHANGED <<phase, main_halted, mode, kernel_stack>>

(* The table goes back, with the children spawned meanwhile at its end. *)
StepAllEnd ==
    /\ phase = "pass" /\ order = << >>
    /\ processes' = procs \o processes
    /\ procs' = << >>
    /\ phase' = IF main_halted THEN "begin" ELSE "main"
    /\ UNCHANGED <<order, main_halted, mode, kernel_stack, shutdown_requested, event>>

(* Mutant: only the main program's own halt is looked at. *)
HostPollMainOnly ==
    /\ phase = "main" \/ (phase = "begin" /\ main_halted)
    /\ shutdown_requested /\ main_halted
    /\ phase' = "off"
    /\ UNCHANGED <<processes, procs, order, main_halted, mode, kernel_stack,
                   shutdown_requested, event>>

(* The host leaves its loop once a shutdown was requested.  It looks after *)
(* step_all_processes, or after a main program that halted.                *)
HostPoll ==
    /\ phase = "main" \/ (phase = "begin" /\ main_halted)
    /\ shutdown_requested
    /\ phase' = "off"
    /\ UNCHANGED <<processes, procs, order, main_halted, mode, kernel_stack,
                   shutdown_requested, event>>

Off == phase = "off" /\ UNCHANGED vars

Next ==
    \/ \E op \in MainOps : RunMain(op)
    \/ StepAllBegin
    \/ SkipChild
    \/ \E op \in ChildOps : RunChild(op)
    \/ StepAllEnd
    \/ HostPoll
    \/ Off

Spec == Init /\ [][Next]_vars

(* The host loop is one thread that waits for nobody, and it looks at      *)
(* shutdown_requested after every frame.                                   *)
FairSpec == Spec /\ WF_vars(Next) /\ SF_vars(HostPoll)
-----------------------------------------------------------------------------
Table == processes \o procs

TypeOK ==
    /\ processes \in Seq(Process) /\ procs \in Seq(Process)
    /\ order \in Seq(DOMAIN procs)
    /\ phase \in {"main", "begin", "pass", "off"}
    /\ main_halted \in BOOLEAN
    /\ mode \in {"User", "Kernel"}
    /\ kernel_stack \in Seq({"User", "Kernel"}) /\ Len(kernel_stack) <= MaxNest
    /\ shutdown_requested \in BOOLEAN
    /\ event \in [who : 0 .. MaxTable, op : MainOps \cup ChildOps \cup {"NOP"},
                  ok : BOOLEAN]

Entry(id) == {Table[i] : i \in {j \in DOMAIN Table : Table[j].id = id}}

\* A sleeping process holds no part of a slice: SLEEP gives it up, a new
\* round passes sleepers by, and so a process never wakes up with a slice
\* left from an earlier round (scheduler.rs 37-48, 70-73, 141-144).
SleepersHoldNoSlice ==
    \A i \in DOMAIN Table : Sleeping(Table[i]) => Table[i].slice_remaining = 0

\* A halted process never runs again and its exit status is what the one
\* who reaps it will read: no later KILL, SIGNAL, message or scheduler pass
\* brings it back or changes the code.  The exception is a MSGRCV of another
\* process with its pid, which finds the first entry with the pid, halted or
\* not, and blocks it (ops_syscall.rs 445, 455).
HaltedIsFinal ==
    [][\A id \in Ids : \A p \in Entry(id), q \in Entry(id)' :
          is_halted(p) =>
             /\ q.exit_code = p.exit_code
             /\ \/ is_halted(q)
                \/ /\ event'.op = "MSGRCV" /\ event'.who # id
                   /\ q.state = "Blocked"
                   /\ \E r \in Entry(event'.who) : r.pid = p.pid]_vars

Live(id) == \E p \in Entry(id) : ~is_halted(p)

\* No starvation: a live process executes an instruction again and again,
\* whatever the priorities, sleeps and yields of the others, until it halts
\* or is reaped or the system stops.
EveryoneRuns ==
    \A id \in Ids : Live(id) ~> (event.who = id \/ ~Live(id) \/ phase = "off")

\* Without reaping and without children that spawn, no two processes in the
\* table share a pid: a pid is the length of the table plus one
\* (ops_graphics.rs 510), so a zombie keeps its number taken.
PidsUnique ==
    \A i, j \in DOMAIN Table : Table[i].pid = Table[j].pid => i = j

\* The process table of a system without reaping: types, slices and pids.
TableSound == TypeOK /\ SleepersHoldNoSlice /\ PidsUnique

\* A SHUTDOWN that any process executes in kernel mode stops the host loop,
\* also when it was a child's and the main program is still running.
ShutdownStops == shutdown_requested ~> phase = "off"

\* A process that has not halted leaves the table only together with a zombie
\* of its pid, which is being reaped: WAITPID drops every entry with the pid
\* (ops_extended.rs 413), and a pid is given out again after a reap.
LiveLeaveWithNamesake ==
    [][\A id \in Ids : \A p \in Entry(id) :
          ~is_halted(p) /\ Entry(id)' = {} =>
              \E z \in Ids \ {id} : \E q \in Entry(z) :
                  is_halted(q) /\ q.pid = p.pid /\ Entry(z)' = {}]_vars
=============================================================================
