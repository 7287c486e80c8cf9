----------------------------- MODULE Descriptors ----------------------------
(***************************************************************************)
(* Files and pipes as processes see them: the descriptor tables of vfs.rs, *)
(* keyed by pid, and the opcodes that open, read, write, close, duplicate  *)
(* and inherit descriptors, over the process table they belong to.         *)
(*                                                                         *)
(* As in Kernel, a pass of the scheduler moves the table to `procs` and a  *)
(* child executes against an empty `processes`.  Which child runs next is  *)
(* not the subject here: in a pass any of them that may run does.          *)
(*                                                                         *)
(* A pipe is the queue that Pipe implements.  The directory, the files and *)
(* their contents are the host's: whether it opens a file is its choice,   *)
(* and UNLINK and FCOPY, which go to it alone, have no action here.        *)
(***************************************************************************)
EXTENDS Naturals, Sequences, FiniteSets

CONSTANTS
    MAX_FDS,            \* slots of a descriptor table (16)
    MAX_PIPES,          \* pipes of the machine (16)
    PIPE_BUFFER_SIZE,   \* words of a pipe (256)
    MAX_PROCESSES,      \* live processes EXECP allows (8)
    Ids,                \* who a process is, as opposed to its pid
    NoId,               \* who the main program is
    Open, None,         \* open files; no open file
    Word,
    MaxLen,             \* bound: operand `len` of READ and WRITE
    MaxSent             \* bound: words accepted by a pipe

ASSUME DescriptorsAssumption ==
    /\ MAX_FDS \in Nat /\ MAX_FDS > 3
    /\ MAX_PIPES \in Nat /\ PIPE_BUFFER_SIZE \in Nat \ {0}
    /\ MAX_PROCESSES \in Nat \ {0}
    /\ IsFiniteSet(Ids) /\ NoId \notin Ids
    /\ None \notin Open
    /\ {MaxLen, MaxSent} \subseteq Nat

VARIABLES
    processes,  \* Vm::processes
    procs,      \* the vector of step_all_processes
    phase,      \* "main", "pass" or "off"
    fd_tables,  \* descriptor tables by pid; a pid without one is not in its domain
    opened,     \* open files by number: the processes that came by it rightly
    pipes,      \* Vm::pipes; `sent` and `got` are history
    outdated    \* history: pids whose tables a reset left behind

vars == <<processes, procs, phase, fd_tables, opened, pipes, outdated>>
table == <<processes, procs, phase, outdated>>
-----------------------------------------------------------------------------
Fds == 0 .. MAX_FDS - 1
Main == 0
Pids == 1 .. Cardinality(Ids) + 1
EmptyTable == [fd \in Fds |-> None]     \* FdTable::new

Min(S) == CHOOSE n \in S : \A m \in S : n <= m
Least(a, b) == IF a < b THEN a ELSE b

Entries == {processes[i] : i \in DOMAIN processes} \cup {procs[i] : i \in DOMAIN procs}
FreeIds == Ids \ {e.id : e \in Entries}

(* Whoever executes an instruction: the main program, or entry i of procs, *)
(* which may run.  `id` tells processes apart that share a pid.            *)
MainProgram == [pid |-> Main, id |-> NoId]
Running ==
    CASE phase = "main" -> {MainProgram}
      [] phase = "pass" -> {[pid |-> procs[i].pid, id |-> procs[i].id] :
                              i \in {j \in DOMAIN procs : procs[j].state = "Ready"}}
      [] OTHER -> {}

(* Vfs::fd_table gets a table or makes one. *)
Has(ts, pid) == pid \in DOMAIN ts
TableOf(ts, pid) == IF Has(ts, pid) THEN ts[pid] ELSE EmptyTable
With(ts, pid, fd, o) ==
    [q \in DOMAIN ts \cup {pid} |->
        IF q = pid THEN [TableOf(ts, pid) EXCEPT ![fd] = o] ELSE ts[q]]

(* Mutant: the table outlives its process. *)
close_allNot(ts, pid) == ts

close_all(ts, pid) == [q \in DOMAIN ts \ {pid} |-> ts[q]]

FreeFds(t) == {fd \in Fds \ 0 .. 2 : t[fd] = None}

(* An open file goes away with the last slot that refers to it. *)
InUse(ts) == UNION {{ts[pid][fd] : fd \in Fds} : pid \in DOMAIN ts}
Kept(os, ts) == [o \in DOMAIN os \cap InUse(ts) |-> os[o]]
FreeOpen == Open \ DOMAIN opened
-----------------------------------------------------------------------------
(* OPEN of a file that the host opens, and for writing makes or cuts to    *)
(* nothing, before a slot is looked for.                                   *)
fopen(me, o) ==
    /\ o \in FreeOpen
    /\ LET t == TableOf(fd_tables, me.pid)
       IN  IF FreeFds(t) = {}
           THEN /\ fd_tables' = With(fd_tables, me.pid, 0, t[0])
                /\ UNCHANGED opened
           ELSE /\ fd_tables' = With(fd_tables, me.pid, Min(FreeFds(t)), o)
                /\ opened' = [x \in DOMAIN opened \cup {o} |->
                                IF x = o THEN {me.id} ELSE opened[x]]
    /\ UNCHANGED <<table, pipes>>

(* The open file behind a descriptor, None for a bad one. *)
Slot(pid, fd) == TableOf(fd_tables, pid)[fd]

(* READ, WRITE, WRITESTR and SEEK of a file, and CLOSE of a bad            *)
(* descriptor, whether they succeed or not.                                *)
UseTable(me) ==
    /\ fd_tables' = With(fd_tables, me.pid, 0, Slot(me.pid, 0))
    /\ UNCHANGED <<table, opened, pipes>>

fclose(me, fd) ==
    /\ Slot(me.pid, fd) # None
    /\ fd_tables' = With(fd_tables, me.pid, fd, None)
    /\ opened' = Kept(opened, fd_tables')
    /\ UNCHANGED <<table, pipes>>
-----------------------------------------------------------------------------
(* Pipes.  Their descriptors are numbers that anyone may use. *)
PipeOpcode ==
    /\ Len(pipes) < MAX_PIPES
    /\ pipes' = Append(pipes, [alive |-> TRUE, queue |-> << >>, sent |-> << >>,
                               got |-> << >>, overran |-> FALSE])
    /\ UNCHANGED <<table, fd_tables, opened>>

(* READ of an empty pipe: the reader looks itself up in `processes`, and   *)
(* what it finds there, if anything, is another process with its pid.      *)
ReadEmpty(me, i) ==
    LET S == {j \in DOMAIN processes : processes[j].pid = me.pid}
    IN  /\ pipes[i].alive /\ pipes[i].queue = << >>
        /\ me.pid > 0 /\ S # {}
        /\ processes' = [processes EXCEPT ![Min(S)].state = "Blocked"]
        /\ UNCHANGED <<procs, phase, outdated, fd_tables, opened, pipes>>

QueueAfterRead(q, n) == SubSeq(q, n + 1, Len(q))

(* READ of n words, of which `room` have an address in RAM. *)
ReadPipe(me, i, len, room) ==
    LET n == Least(len, Len(pipes[i].queue))
    IN  /\ pipes[i].alive /\ pipes[i].queue # << >>
        /\ pipes' = [pipes EXCEPT
                        ![i].queue = QueueAfterRead(@, n),
                        ![i].got = @ \o SubSeq(pipes[i].queue, 1, Least(n, room)),
                        ![i].overran = @ \/ room < n]
        /\ UNCHANGED <<table, fd_tables, opened>>

(* Mutant: a full pipe takes words. *)
RoomAlways(q) == MaxLen

Room(q) == PIPE_BUFFER_SIZE - Len(q)

(* Mutant: new words overtake those that wait. *)
QueueAfterWriteAhead(q, ws) == ws \o q

QueueAfterWrite(q, ws) == q \o ws

(* WRITE takes what fits and wakes every process that waits in `processes`. *)
WritePipe(me, i, ws) ==
    LET n == Least(Len(ws), Room(pipes[i].queue))
    IN  /\ pipes[i].alive
        /\ Len(pipes[i].sent) + n <= MaxSent
        /\ pipes' = [pipes EXCEPT ![i].queue = QueueAfterWrite(@, SubSeq(ws, 1, n)),
                                  ![i].sent = @ \o SubSeq(ws, 1, n)]
        /\ processes' = [j \in DOMAIN processes |->
                            [processes[j] EXCEPT !.state = IF @ = "Blocked" THEN "Ready" ELSE @]]
        /\ UNCHANGED <<procs, phase, outdated, fd_tables, opened>>

ClosePipe(i) ==
    /\ pipes' = [pipes EXCEPT ![i].alive = FALSE]
    /\ UNCHANGED <<table, fd_tables, opened>>
-----------------------------------------------------------------------------
(* Processes. *)
Active == Cardinality({i \in DOMAIN processes : processes[i].state # "Zombie"})

(* Processes that get a namesake share its table from then on. *)
Shared(ps, pid) ==
    [i \in DOMAIN ps |-> [ps[i] EXCEPT !.exclusive = @ /\ ps[i].pid # pid]]

NewProcess(pid, id) ==
    [pid |-> pid, id |-> id, state |-> "Ready",
     exclusive |-> pid \notin {e.pid : e \in Entries} \cup outdated]

(* Mutant: the descriptor goes to the last process of the table. *)
dup_fdBefore(ts, src_fd, target_fd, target_pid, src_pid) ==
    IF src_fd \in Fds /\ Has(ts, src_pid) /\ TableOf(ts, src_pid)[src_fd] # None
    THEN With(ts, target_pid - 1, target_fd, ts[src_pid][src_fd])
    ELSE ts

dup_fd(ts, src_fd, target_fd, target_pid, src_pid) ==
    IF src_fd \in Fds /\ Has(ts, src_pid) /\ TableOf(ts, src_pid)[src_fd] # None
    THEN With(ts, target_pid, target_fd, ts[src_pid][src_fd])
    ELSE ts

(* EXECP.  NoFd leaves the stream as it is; the number of a pipe is not    *)
(* an index of the table, and leaves it too.                               *)
NoFd == MAX_FDS

Execp(me, id, stdin, stdout) ==
    LET pid == Len(processes) + 1
        handed == {Slot(me.pid, fd) : fd \in {stdin, stdout} \cap Fds}
    IN  /\ Active < MAX_PROCESSES /\ id \in FreeIds
        /\ processes' = Append(Shared(processes, pid), NewProcess(pid, id))
        /\ procs' = Shared(procs, pid)
        /\ fd_tables' = dup_fd(dup_fd(fd_tables, stdin, 0, pid, me.pid), stdout, 1, pid, me.pid)
        /\ opened' = Kept([o \in DOMAIN opened |->
                             opened[o] \cup {i \in {id} : o \in handed}],
                          fd_tables')
        /\ UNCHANGED <<phase, outdated, pipes>>

(* The open files when only tables ts and processes ids are left. *)
Forget(ts, ids) ==
    [o \in DOMAIN Kept(opened, ts) |-> opened[o] \ ids]

(* The table without the entries of a pid (retain), in its order. *)
Without(pid) ==
    LET kept == {i \in DOMAIN processes : processes[i].pid # pid}
    IN  [k \in 1 .. Cardinality(kept) |->
            processes[CHOOSE i \in kept : Cardinality({j \in kept : j < i}) = k - 1]]

WaitPid(target) ==
    LET S == {i \in DOMAIN processes : processes[i].pid = target}
    IN  /\ S # {} /\ processes[Min(S)].state = "Zombie"
        /\ fd_tables' = close_all(fd_tables, target)
        /\ opened' = Forget(fd_tables', {processes[i].id : i \in S})
        /\ processes' = Without(target)
        /\ outdated' = outdated \ {target}
        /\ UNCHANGED <<procs, phase, pipes>>

Kill(target) ==
    LET S == {i \in DOMAIN processes : processes[i].pid = target}
    IN  /\ S # {}
        /\ processes' = [processes EXCEPT ![Min(S)].state = "Zombie"]
        /\ UNCHANGED <<procs, phase, outdated, fd_tables, opened, pipes>>

(* A child that exits, halts or faults. *)
Exit(me) ==
    /\ me.pid # Main
    /\ procs' = [i \in DOMAIN procs |->
                    [procs[i] EXCEPT !.state = IF procs[i].id = me.id THEN "Zombie" ELSE @]]
    /\ UNCHANGED <<processes, phase, outdated, fd_tables, opened, pipes>>

(* SHUTDOWN closes the tables of the main program and of processes that    *)
(* still live, and only of those it finds in `processes`.                  *)
Shutdown(me) ==
    LET pids == {Main} \cup {processes[i].pid : i \in
                    {j \in DOMAIN processes : processes[j].state # "Zombie"}}
    IN  /\ fd_tables' = [pid \in DOMAIN fd_tables \ pids |-> fd_tables[pid]]
        /\ opened' = Kept(opened, fd_tables')
        /\ processes' = [i \in DOMAIN processes |-> [processes[i] EXCEPT !.state = "Zombie"]]
        /\ procs' = [i \in DOMAIN procs |->
                        [procs[i] EXCEPT !.state = IF procs[i].id = me.id THEN "Zombie" ELSE @]]
        /\ pipes' = << >>
        /\ outdated' = outdated \ pids
        /\ phase' = IF me.pid = Main THEN "off" ELSE phase

BeginPass ==
    /\ phase = "main" /\ phase' = "pass"
    /\ procs' = processes /\ processes' = << >>
    /\ UNCHANGED <<outdated, fd_tables, opened, pipes>>

EndPass ==
    /\ phase = "pass" /\ phase' = "main"
    /\ processes' = procs \o processes /\ procs' = << >>
    /\ UNCHANGED <<outdated, fd_tables, opened, pipes>>

(* Vm::reset, a command of the terminal: everything but the descriptors. *)
Reset ==
    /\ phase # "pass" /\ phase' = "main"
    /\ processes' = << >> /\ pipes' = << >>
    /\ outdated' = DOMAIN fd_tables
    /\ opened' = [o \in DOMAIN opened |-> {}]
    /\ UNCHANGED <<procs, fd_tables>>
-----------------------------------------------------------------------------
Init ==
    /\ processes = << >> /\ procs = << >> /\ phase = "main"
    /\ fd_tables = [pid \in {} |-> EmptyTable]
    /\ opened = [o \in {} |-> {}]
    /\ pipes = << >> /\ outdated = {}

Words == UNION {[1 .. n -> Word] : n \in 1 .. MaxLen}

FileStep(me) ==
    \/ \E o \in Open : fopen(me, o)
    \/ UseTable(me)
    \/ \E fd \in Fds : fclose(me, fd)

PipeStep(me) ==
    \/ PipeOpcode
    \/ \E i \in DOMAIN pipes :
        \/ ReadEmpty(me, i)
        \/ \E len \in 1 .. MaxLen : \E room \in 0 .. len : ReadPipe(me, i, len, room)
        \/ \E ws \in Words : WritePipe(me, i, ws)
        \/ ClosePipe(i)

ProcessStep(me) ==
    \/ \E id \in Ids, stdin, stdout \in Fds \cup {NoFd} : Execp(me, id, stdin, stdout)
    \/ \E target \in Pids : WaitPid(target) \/ Kill(target)
    \/ Exit(me) \/ Shutdown(me)

Next ==
    \/ \E me \in Running : FileStep(me) \/ PipeStep(me) \/ ProcessStep(me)
    \/ BeginPass \/ EndPass \/ Reset

Spec == Init /\ [][Next]_vars
-----------------------------------------------------------------------------
Process == [pid : Nat \ {0}, id : Ids, state : {"Ready", "Blocked", "Zombie"},
            exclusive : BOOLEAN]
PipeState == [alive : BOOLEAN, queue : Seq(Word), sent : Seq(Word), got : Seq(Word),
              overran : BOOLEAN]

TypeOK ==
    /\ processes \in Seq(Process) /\ procs \in Seq(Process)
    /\ phase \in {"main", "pass", "off"}
    /\ DOMAIN fd_tables \subseteq Nat
    /\ \A pid \in DOMAIN fd_tables : fd_tables[pid] \in [Fds -> {None} \cup DOMAIN opened]
    /\ DOMAIN opened \subseteq Open
    /\ \A o \in DOMAIN opened : opened[o] \subseteq Ids \cup {NoId}
    /\ pipes \in Seq(PipeState) /\ outdated \subseteq Nat
    /\ \A i \in DOMAIN pipes : Len(pipes[i].queue) <= PIPE_BUFFER_SIZE

\* A descriptor table belongs to the main program or to a process that still
\* has its place in the table, unless a reset left it behind: reaping closes
\* what its process had open (WAITPID, ops_extended.rs 412), although pids
\* repeat and a pass hides most of the table from the one who reaps.
TablesHaveHolder ==
    DOMAIN fd_tables \subseteq {Main} \cup {e.pid : e \in Entries} \cup outdated

\* The tables are well typed, and none is left behind by its process.
TablesSound == TypeOK /\ TablesHaveHolder

\* A process that never shared its pid has open only what it opened itself
\* or was given by the EXECP that made it, however often the pid was used
\* before; so has the main program until a reset.
FilesPrivate ==
    \A e \in {e \in Entries : e.exclusive} \cup {m \in {MainProgram} : Main \notin outdated} :
        \A fd \in Fds :
            Slot(e.pid, fd) # None => e.id \in opened[Slot(e.pid, fd)]

\* What the readers of a pipe were given, followed by what is still in it,
\* is what the writers were told was accepted, whoever they are, as long as
\* no READ went past the end of RAM; CLOSE loses what is in the pipe, never
\* an earlier word.
PipesInOrder ==
    \A i \in DOMAIN pipes :
        ~pipes[i].overran => pipes[i].got \o pipes[i].queue = pipes[i].sent
=============================================================================
