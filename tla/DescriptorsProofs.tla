-------------------------- MODULE DescriptorsProofs --------------------------
(***************************************************************************)
(* Descriptor tables, open files and pipes, for every number of processes, *)
(* of descriptors and of pipes and every size of a pipe.                   *)
(***************************************************************************)
EXTENDS Descriptors, FiniteSetTheorems, SequenceTheorems, TLAPS

(* The process table keeps its types, and who shares a pid is on record:   *)
(* an id has one pid, an exclusive process has its pid for itself, and no  *)
(* table of that pid was left behind by a reset.                           *)
IdsSound(es, old) ==
    /\ \A e, f \in es : e.id = f.id => e.pid = f.pid
    /\ \A e, f \in es : e.exclusive /\ e.pid = f.pid => e.id = f.id
    /\ \A e \in es : e.exclusive => e.pid \notin old

TableInv ==
    /\ processes \in Seq(Process) /\ procs \in Seq(Process)
    /\ phase \in {"main", "pass", "off"} /\ outdated \subseteq Nat
    /\ phase # "pass" => procs = << >>
    /\ IdsSound(Entries, outdated)

(* Tables hold numbers of open files, and the open files are known.        *)
FilesTyped(ts, os) ==
    /\ DOMAIN ts \subseteq Nat /\ \A pid \in DOMAIN ts : ts[pid] \in [Fds -> {None} \cup DOMAIN os]
    /\ DOMAIN os \subseteq Open /\ \A o \in DOMAIN os : os[o] \subseteq Ids \cup {NoId}

(* What the table of pid refers to was come by rightly by id. *)
OwnedBy(ts, os, pid, id) ==
    \A fd \in Fds : TableOf(ts, pid)[fd] # None => id \in os[TableOf(ts, pid)[fd]]

Pidset(es) == {e.pid : e \in es}

FilesSound(ts, os, es, old) ==
    /\ FilesTyped(ts, os)
    /\ DOMAIN ts \subseteq {Main} \cup Pidset(es) \cup old
    /\ \A e \in es : e.exclusive => OwnedBy(ts, os, e.pid, e.id)
    /\ Main \notin old => OwnedBy(ts, os, Main, NoId)

PipeInv ==
    /\ pipes \in Seq(PipeState)
    /\ \A i \in DOMAIN pipes : Len(pipes[i].queue) <= PIPE_BUFFER_SIZE
    /\ PipesInOrder

DescriptorsInv ==
    TableInv /\ FilesSound(fd_tables, opened, Entries, outdated) /\ PipeInv
-----------------------------------------------------------------------------
(* Pipes.                                                                  *)

LEMMA Rest ==
    ASSUME NEW q \in Seq(Word), NEW n \in 0 .. Len(q)
    PROVE  /\ SubSeq(q, n + 1, Len(q)) \in Seq(Word) /\ SubSeq(q, 1, n) \in Seq(Word)
           /\ Len(SubSeq(q, n + 1, Len(q))) = Len(q) - n /\ Len(SubSeq(q, 1, n)) = n
           /\ SubSeq(q, 1, n) \o SubSeq(q, n + 1, Len(q)) = q
<1>1. /\ SubSeq(q, n + 1, Len(q)) \in Seq(Word) /\ SubSeq(q, 1, n) \in Seq(Word)
      /\ Len(SubSeq(q, n + 1, Len(q))) = Len(q) - n /\ Len(SubSeq(q, 1, n)) = n
  OBVIOUS
<1>2. SubSeq(q, 1, n) \o SubSeq(q, n + 1, Len(q)) = SubSeq(q, 1, Len(q))
  <2>1. 1 \in 1 .. Len(q) + 1 /\ n \in 1 - 1 .. Len(q) /\ Len(q) \in n .. Len(q)
    OBVIOUS
  <2> QED BY <2>1, ConcatAdjacentSubSeq
<1> QED BY <1>1, <1>2, SubSeqFull

LEMMA LeastIs ==
    \A a, b \in Nat : Least(a, b) \in 0 .. a /\ Least(a, b) <= b
BY DEF Least

LEMMA Associate ==
    \A a, b, c \in Seq(Word) : (a \o b) \o c = a \o (b \o c)
BY ConcatAssociative

LEMMA ReadPipeKeeps ==
    ASSUME PipeInv, NEW me, NEW i \in DOMAIN pipes, NEW len \in Nat, NEW room \in 0 .. len,
           ReadPipe(me, i, len, room)
    PROVE  PipeInv'
<1> DEFINE p == pipes[i]
           q == p.queue
           n == Least(len, Len(q))
           k == Least(n, room)
           g == p.got \o SubSeq(q, 1, k)
<1>1. /\ pipes \in Seq(PipeState) /\ p \in PipeState /\ q \in Seq(Word) /\ Len(q) \in Nat
      /\ p.got \in Seq(Word) /\ Len(q) <= PIPE_BUFFER_SIZE
  <2>1. pipes \in Seq(PipeState) /\ p \in PipeState
    BY DEF PipeInv
  <2> QED BY <2>1 DEF PipeInv, PipeState
<1>2. n \in 0 .. Len(q) /\ k \in 0 .. n /\ (room >= n => k = n)
  BY <1>1 DEF Least
<1> HIDE DEF n, k
<1>3. /\ SubSeq(q, n + 1, Len(q)) \in Seq(Word) /\ Len(SubSeq(q, n + 1, Len(q))) = Len(q) - n
      /\ SubSeq(q, 1, n) \in Seq(Word) /\ SubSeq(q, 1, n) \o SubSeq(q, n + 1, Len(q)) = q
  BY <1>1, <1>2, Rest
<1>4. k \in 0 .. Len(q) /\ SubSeq(q, 1, k) \in Seq(Word)
  BY <1>1, <1>2
<1>5. g \in Seq(Word)
  BY <1>1, <1>4
<1> DEFINE o == p.overran \/ room < n
           r == [p EXCEPT !.queue = SubSeq(q, n + 1, Len(q)), !.got = g, !.overran = o]
<1>6. pipes' = [pipes EXCEPT ![i] = r]
  BY DEF ReadPipe, QueueAfterRead, n, k
<1>7. r \in PipeState /\ r.queue = SubSeq(q, n + 1, Len(q)) /\ r.got = g /\ r.sent = p.sent
      /\ (~r.overran => ~p.overran /\ room >= n)
  <2>1. p.overran \in BOOLEAN /\ o \in BOOLEAN /\ (~o => ~p.overran /\ room >= n)
    BY <1>1, <1>2 DEF PipeState
  <2> HIDE DEF p, o, g
  <2> QED BY <1>1, <1>3, <1>5, <2>1 DEF PipeState
<1>8. Len(r.queue) <= PIPE_BUFFER_SIZE
  <2>1. Len(r.queue) = Len(q) - n
    BY <1>3, <1>7
  <2> HIDE DEF q, r
  <2> QED BY <1>1, <1>2, <2>1, DescriptorsAssumption
<1>9. ~r.overran => r.got \o r.queue = r.sent
  <2> SUFFICES ASSUME ~r.overran PROVE r.got \o r.queue = r.sent
    OBVIOUS
  <2>1. g = p.got \o SubSeq(q, 1, n)
    BY <1>2, <1>7
  <2>2. p.got \o q = p.sent
    BY <1>7 DEF PipeInv, PipesInOrder
  <2>3. (p.got \o SubSeq(q, 1, n)) \o SubSeq(q, n + 1, Len(q))
            = p.got \o (SubSeq(q, 1, n) \o SubSeq(q, n + 1, Len(q)))
    BY <1>1, <1>3, Associate, Zenon
  <2> QED BY <1>3, <1>7, <2>1, <2>2, <2>3
<1> HIDE DEF r
<1>10. /\ pipes' \in Seq(PipeState) /\ DOMAIN pipes' = DOMAIN pipes /\ pipes'[i] = r
       /\ \A j \in DOMAIN pipes \ {i} : pipes'[j] = pipes[j]
  BY <1>1, <1>6, <1>7
<1> QED BY <1>8, <1>9, <1>10 DEF PipeInv, PipesInOrder

LEMMA WritePipeKeeps ==
    ASSUME PipeInv, NEW me, NEW i \in DOMAIN pipes, NEW ws \in Seq(Word), WritePipe(me, i, ws)
    PROVE  PipeInv'
<1> DEFINE p == pipes[i]
           n == Least(Len(ws), Room(p.queue))
           x == SubSeq(ws, 1, n)
           r == [p EXCEPT !.queue = @ \o x, !.sent = @ \o x]
<1>1. /\ pipes \in Seq(PipeState) /\ p \in PipeState /\ p.queue \in Seq(Word)
      /\ p.sent \in Seq(Word) /\ p.got \in Seq(Word) /\ Len(p.queue) <= PIPE_BUFFER_SIZE
  <2>1. pipes \in Seq(PipeState) /\ p \in PipeState
    BY DEF PipeInv
  <2> QED BY <2>1 DEF PipeInv, PipeState
<1>2. n \in 0 .. Len(ws) /\ n <= PIPE_BUFFER_SIZE - Len(p.queue)
  <2>1. Len(p.queue) \in Nat /\ Len(ws) \in Nat /\ PIPE_BUFFER_SIZE \in Nat
    BY <1>1, DescriptorsAssumption
  <2>2. Room(p.queue) \in Nat /\ Room(p.queue) = PIPE_BUFFER_SIZE - Len(p.queue)
    BY <1>1, <2>1 DEF Room
  <2>3. Least(Len(ws), Room(p.queue)) \in 0 .. Len(ws)
        /\ Least(Len(ws), Room(p.queue)) <= Room(p.queue)
    BY <2>1, <2>2, LeastIs
  <2> QED BY <2>2, <2>3
<1> HIDE DEF n
<1>3. x \in Seq(Word) /\ Len(x) = n
  BY <1>2
<1>4. pipes' = [pipes EXCEPT ![i] = r]
  BY DEF WritePipe, QueueAfterWrite, n
<1> HIDE DEF x
<1>5. r \in PipeState /\ r.queue = p.queue \o x /\ r.got = p.got /\ r.sent = p.sent \o x
      /\ r.overran = p.overran
  <2>1. p.queue \o x \in Seq(Word) /\ p.sent \o x \in Seq(Word)
    BY <1>1, <1>3
  <2> HIDE DEF p
  <2> QED BY <1>1, <2>1 DEF PipeState
<1>6. Len(r.queue) <= PIPE_BUFFER_SIZE
  BY SMTT(30), <1>1, <1>2, <1>3, <1>5, DescriptorsAssumption
<1>7. ~r.overran => r.got \o r.queue = r.sent
  <2>1. (p.got \o p.queue) \o x = p.got \o (p.queue \o x)
    BY <1>1, <1>3, Associate, ZenonT(60)
  <2> QED BY <1>5, <2>1 DEF PipeInv, PipesInOrder
<1> HIDE DEF r
<1>8. /\ pipes' \in Seq(PipeState) /\ DOMAIN pipes' = DOMAIN pipes /\ pipes'[i] = r
      /\ \A j \in DOMAIN pipes \ {i} : pipes'[j] = pipes[j]
  BY <1>1, <1>4, <1>5
<1> QED BY <1>6, <1>7, <1>8 DEF PipeInv, PipesInOrder

LEMMA PipeOpcodeKeeps == ASSUME PipeInv, PipeOpcode PROVE PipeInv'
<1> DEFINE r == [alive |-> TRUE, queue |-> << >>, sent |-> << >>, got |-> << >>,
                 overran |-> FALSE]
<1>1. pipes \in Seq(PipeState) /\ pipes' = Append(pipes, r)
  BY DEF PipeOpcode, PipeInv
<1>2. r \in PipeState /\ r.queue = << >> /\ r.got \o r.queue = r.sent /\ Len(r.queue) = 0
  BY DEF PipeState
<1> HIDE DEF r
<1>3. /\ pipes' \in Seq(PipeState) /\ DOMAIN pipes' = 1 .. Len(pipes) + 1
      /\ pipes'[Len(pipes) + 1] = r
      /\ \A j \in DOMAIN pipes : pipes'[j] = pipes[j]
  BY <1>1, <1>2
<1>4. \A j \in DOMAIN pipes' : j \in DOMAIN pipes \/ j = Len(pipes) + 1
  BY <1>1, <1>3
<1>5. \A j \in DOMAIN pipes' : Len(pipes'[j].queue) <= PIPE_BUFFER_SIZE
  BY <1>2, <1>3, <1>4, DescriptorsAssumption DEF PipeInv
<1>6. \A j \in DOMAIN pipes' :
          ~pipes'[j].overran => pipes'[j].got \o pipes'[j].queue = pipes'[j].sent
  BY <1>2, <1>3, <1>4 DEF PipeInv, PipesInOrder
<1> QED BY <1>3, <1>5, <1>6 DEF PipeInv, PipesInOrder

LEMMA ClosePipeKeeps ==
    ASSUME PipeInv, NEW i \in DOMAIN pipes, ClosePipe(i)
    PROVE  PipeInv'
<1> DEFINE r == [pipes[i] EXCEPT !.alive = FALSE]
<1>1. pipes \in Seq(PipeState) /\ pipes[i] \in PipeState
  BY DEF PipeInv
<1>2. pipes' = [pipes EXCEPT ![i] = r]
  BY DEF ClosePipe
<1>3. /\ r \in PipeState /\ r.queue = pipes[i].queue /\ r.got = pipes[i].got
      /\ r.sent = pipes[i].sent /\ r.overran = pipes[i].overran
  BY <1>1 DEF PipeState
<1> HIDE DEF r
<1>4. /\ pipes' \in Seq(PipeState) /\ DOMAIN pipes' = DOMAIN pipes /\ pipes'[i] = r
      /\ \A j \in DOMAIN pipes \ {i} : pipes'[j] = pipes[j]
  BY <1>1, <1>2, <1>3
<1> QED BY <1>3, <1>4 DEF PipeInv, PipesInOrder

LEMMA NoPipes == ASSUME pipes' = << >> PROVE PipeInv'
BY DEF PipeInv, PipesInOrder

LEMMA SamePipes == ASSUME PipeInv, pipes' = pipes PROVE PipeInv'
BY DEF PipeInv, PipesInOrder

LEMMA PipesKeep == PipeInv /\ [Next]_vars => PipeInv'
<1> SUFFICES ASSUME PipeInv, [Next]_vars PROVE PipeInv'
  OBVIOUS
<1>1. CASE pipes' = pipes
  BY <1>1, SamePipes
<1>2. CASE pipes' = << >>
  BY <1>2, NoPipes
<1>3. ASSUME NEW me, PipeStep(me) PROVE PipeInv'
  <2>1. MaxLen \in Nat /\ \A len \in 1 .. MaxLen : len \in Nat
    BY DescriptorsAssumption
  <2>2. Words \subseteq Seq(Word)
    BY <2>1 DEF Words, Seq
  <2>3. ASSUME NEW i \in DOMAIN pipes, ReadEmpty(me, i) PROVE PipeInv'
    BY <2>3, SamePipes DEF ReadEmpty
  <2> QED BY <1>3, <2>1, <2>2, <2>3, PipeOpcodeKeeps, ReadPipeKeeps, WritePipeKeeps, ClosePipeKeeps
        DEF PipeStep
<1>4. ASSUME NEW me, FileStep(me) \/ ProcessStep(me) PROVE PipeInv'
  BY <1>1, <1>2, <1>4 DEF FileStep, ProcessStep, fopen, UseTable, fclose, Execp, WaitPid, Kill, Exit,
     Shutdown
<1>5. CASE BeginPass \/ EndPass \/ Reset
  BY <1>1, <1>2, <1>5 DEF BeginPass, EndPass, Reset
<1> QED BY <1>1, <1>3, <1>4, <1>5 DEF Next, vars
-----------------------------------------------------------------------------
(* Tables and open files, as functions of them.                            *)

LEMMA TablesAre ==
    ASSUME NEW ts, NEW os, FilesTyped(ts, os), NEW pid
    PROVE  TableOf(ts, pid) \in [Fds -> {None} \cup DOMAIN os]
<1>1. EmptyTable \in [Fds -> {None} \cup DOMAIN os]
  BY DEF EmptyTable
<1> QED BY <1>1 DEF TableOf, Has, FilesTyped

(* us is ts with o in slot fd of the table of pid. *)
Changed(us, ts, os, pid, fd, o) ==
    /\ FilesTyped(us, os)
    /\ DOMAIN us = DOMAIN ts \cup {pid}
    /\ \A q : q # pid => TableOf(us, q) = TableOf(ts, q)
    /\ \A f \in Fds : TableOf(us, pid)[f] = IF f = fd THEN o ELSE TableOf(ts, pid)[f]

LEMMA WithIs ==
    ASSUME NEW ts, NEW os, FilesTyped(ts, os), NEW pid \in Nat, NEW fd,
           NEW o \in {None} \cup DOMAIN os
    PROVE  Changed(With(ts, pid, fd, o), ts, os, pid, fd, o)
<1> DEFINE us == With(ts, pid, fd, o)
           t == [TableOf(ts, pid) EXCEPT ![fd] = o]
<1>1. t \in [Fds -> {None} \cup DOMAIN os]
  BY TablesAre
<1>2. /\ DOMAIN us = DOMAIN ts \cup {pid} /\ us[pid] = t
      /\ \A q \in DOMAIN ts \ {pid} : us[q] = ts[q]
  BY DEF With
<1> HIDE DEF us, t
<1>3. FilesTyped(us, os)
  BY <1>1, <1>2 DEF FilesTyped
<1>4. TableOf(us, pid) = t
  BY <1>2 DEF TableOf, Has
<1>5. \A q : q # pid => TableOf(us, q) = TableOf(ts, q)
  BY <1>2 DEF TableOf, Has
<1>6. \A f \in Fds : t[f] = IF f = fd THEN o ELSE TableOf(ts, pid)[f]
  <2>1. TableOf(ts, pid) \in [Fds -> {None} \cup DOMAIN os]
    BY TablesAre
  <2> QED BY <2>1 DEF t
<1> QED BY <1>2, <1>3, <1>4, <1>5, <1>6 DEF us, Changed

LEMMA KeptIs ==
    ASSUME NEW ts, NEW os, FilesTyped(ts, os)
    PROVE  /\ FilesTyped(ts, Kept(os, ts))
           /\ \A pid, id : OwnedBy(ts, os, pid, id) => OwnedBy(ts, Kept(os, ts), pid, id)
<1> DEFINE ks == Kept(os, ts)
<1>1. /\ DOMAIN ks \subseteq DOMAIN os /\ \A o \in DOMAIN ks : ks[o] = os[o]
      /\ \A o \in DOMAIN os : o \in InUse(ts) => o \in DOMAIN ks
  BY DEF Kept
<1> HIDE DEF ks
<1>2. \A pid \in DOMAIN ts : \A fd \in Fds : ts[pid][fd] # None =>
          ts[pid][fd] \in DOMAIN os /\ ts[pid][fd] \in InUse(ts)
  BY DEF FilesTyped, InUse
<1>3. \A pid \in DOMAIN ts : ts[pid] \in [Fds -> {None} \cup DOMAIN ks]
  BY <1>1, <1>2 DEF FilesTyped
<1>4. FilesTyped(ts, ks)
  BY <1>1, <1>3 DEF FilesTyped
<1>5. ASSUME NEW pid, NEW id, OwnedBy(ts, os, pid, id) PROVE OwnedBy(ts, ks, pid, id)
  <2>1. \A fd \in Fds : TableOf(ts, pid)[fd] # None => TableOf(ts, pid)[fd] \in DOMAIN ks
    BY <1>4, TablesAre
  <2> QED BY <1>1, <1>5, <2>1 DEF OwnedBy
<1> QED BY <1>4, <1>5 DEF ks

(* Only the table of pid changes, and only by files that id has rightly.   *)
LEMMA OthersOwn ==
    ASSUME NEW ts, NEW us, NEW os, NEW pid, NEW id, OwnedBy(ts, os, pid, id),
           TableOf(us, pid) = TableOf(ts, pid)
    PROVE  OwnedBy(us, os, pid, id)
BY DEF OwnedBy

(* us is ts with a slot of target's table perhaps taken from src's. *)
Duplicated(us, ts, os, src_fd, target, src) ==
    /\ FilesTyped(us, os)
    /\ DOMAIN us \subseteq DOMAIN ts \cup {target}
    /\ \A q : q # target => TableOf(us, q) = TableOf(ts, q)
    /\ \A fd \in Fds :
          \/ TableOf(us, target)[fd] = TableOf(ts, target)[fd]
          \/ src_fd \in Fds /\ TableOf(us, target)[fd] = TableOf(ts, src)[src_fd]

LEMMA DupIs ==
    ASSUME NEW ts, NEW os, FilesTyped(ts, os), NEW src_fd, NEW target_fd \in Fds,
           NEW target \in Nat, NEW src
    PROVE  Duplicated(dup_fd(ts, src_fd, target_fd, target, src), ts, os, src_fd, target, src)
<1> DEFINE us == dup_fd(ts, src_fd, target_fd, target, src)
<1>1. CASE ~(src_fd \in Fds /\ Has(ts, src) /\ TableOf(ts, src)[src_fd] # None)
  <2>1. us = ts
    BY <1>1 DEF dup_fd
  <2> HIDE DEF us
  <2>2. FilesTyped(us, os) /\ DOMAIN us \subseteq DOMAIN ts \cup {target}
    BY <2>1
  <2> QED BY <2>1, <2>2 DEF us, Duplicated
<1>2. CASE src_fd \in Fds /\ Has(ts, src) /\ TableOf(ts, src)[src_fd] # None
  <2> DEFINE o == ts[src][src_fd]
  <2>1. us = With(ts, target, target_fd, o) /\ o = TableOf(ts, src)[src_fd]
    BY <1>2 DEF dup_fd, TableOf
  <2>2. o \in {None} \cup DOMAIN os
    BY <1>2, <2>1, TablesAre
  <2> HIDE DEF o
  <2>3. Changed(us, ts, os, target, target_fd, o)
    BY <2>1, <2>2, WithIs
  <2> HIDE DEF us
  <2> QED BY <1>2, <2>1, <2>3 DEF us, Changed, Duplicated
<1> QED BY <1>1, <1>2
-----------------------------------------------------------------------------
(* Who executes.                                                           *)

LEMMA EntriesAre ==
    ASSUME TableInv
    PROVE  /\ Entries \subseteq Process
           /\ \A e \in Entries : e.pid \in Nat \ {0} /\ e.id \in Ids /\ e.exclusive \in BOOLEAN
<1>1. /\ \A i \in DOMAIN processes : processes[i] \in Process
      /\ \A i \in DOMAIN procs : procs[i] \in Process
  BY DEF TableInv
<1>2. Entries \subseteq Process
  BY <1>1 DEF Entries
<1> QED BY <1>2 DEF Process

LEMMA WhoRuns ==
    ASSUME TableInv, NEW me \in Running
    PROVE  /\ me.pid \in Nat /\ me.id \in Ids \cup {NoId}
           /\ me.pid = Main => me.id = NoId /\ phase = "main"
           /\ me.pid # Main => \E e \in Entries : e.pid = me.pid /\ e.id = me.id
<1>1. CASE phase = "main"
  BY <1>1 DEF Running, MainProgram, Main
<1>2. CASE phase = "pass"
  <2>1. PICK i \in DOMAIN procs : me = [pid |-> procs[i].pid, id |-> procs[i].id]
    BY <1>2 DEF Running
  <2>2. procs[i] \in Entries
    BY DEF Entries
  <2> QED BY <2>1, <2>2, EntriesAre DEF Main
<1> QED BY <1>1, <1>2 DEF Running, TableInv

(* Whoever executes under the pid of a process that has it to itself is    *)
(* that process.                                                           *)
LEMMA ItsOwnTable ==
    ASSUME TableInv, NEW me \in Running, NEW e \in Entries, e.exclusive, e.pid = me.pid
    PROVE  e.id = me.id
<1>1. me.pid # Main
  BY EntriesAre DEF Main
<1>2. PICK f \in Entries : f.pid = me.pid /\ f.id = me.id
  BY <1>1, WhoRuns
<1> QED BY <1>2 DEF TableInv, IdsSound
-----------------------------------------------------------------------------
(* Opening and closing of files.                                           *)

Files == FilesSound(fd_tables, opened, Entries, outdated)

(* The table of the one who executes gets o, which he has rightly.         *)
LEMMA GetsFile ==
    ASSUME TableInv, NEW me \in Running, NEW os, FilesTyped(fd_tables, os),
           FilesSound(fd_tables, os, Entries, outdated),
           NEW fd, NEW o \in {None} \cup DOMAIN os, o # None => me.id \in os[o]
    PROVE  FilesSound(With(fd_tables, me.pid, fd, o), os, Entries, outdated)
<1> DEFINE us == With(fd_tables, me.pid, fd, o)
<1>1. Changed(us, fd_tables, os, me.pid, fd, o)
  <2>1. me.pid \in Nat
    BY WhoRuns
  <2> QED BY <2>1, WithIs
<1> HIDE DEF us
<1>2. \A q, id : q # me.pid /\ OwnedBy(fd_tables, os, q, id) => OwnedBy(us, os, q, id)
  BY <1>1 DEF OwnedBy, Changed
<1>3. ASSUME OwnedBy(fd_tables, os, me.pid, me.id) PROVE OwnedBy(us, os, me.pid, me.id)
  BY <1>1, <1>3 DEF OwnedBy, Changed
<1>4. DOMAIN us \subseteq {Main} \cup Pidset(Entries) \cup outdated
  BY <1>1, WhoRuns DEF FilesSound, Pidset, Changed
<1>5. \A e \in Entries : e.exclusive => OwnedBy(us, os, e.pid, e.id)
  <2> SUFFICES ASSUME NEW e \in Entries, e.exclusive PROVE OwnedBy(us, os, e.pid, e.id)
    OBVIOUS
  <2>1. OwnedBy(fd_tables, os, e.pid, e.id)
    BY DEF FilesSound
  <2>2. e.pid = me.pid => e.id = me.id
    BY ItsOwnTable
  <2> QED BY <1>2, <1>3, <2>1, <2>2
<1>6. Main \notin outdated => OwnedBy(us, os, Main, NoId)
  <2> SUFFICES ASSUME Main \notin outdated PROVE OwnedBy(us, os, Main, NoId)
    OBVIOUS
  <2>1. OwnedBy(fd_tables, os, Main, NoId)
    BY DEF FilesSound
  <2>2. Main = me.pid => NoId = me.id
    BY WhoRuns
  <2> QED BY <1>2, <1>3, <2>1, <2>2
<1> QED BY <1>1, <1>4, <1>5, <1>6 DEF FilesSound, Changed, us

(* More open files, and more processes that may have them. *)
LEMMA Grown ==
    ASSUME NEW ts, NEW os, NEW us, NEW es, NEW old, FilesSound(ts, os, es, old),
           DOMAIN os \subseteq DOMAIN us, DOMAIN us \subseteq Open,
           \A o \in DOMAIN os : os[o] \subseteq us[o],
           \A o \in DOMAIN us : us[o] \subseteq Ids \cup {NoId}
    PROVE  FilesSound(ts, us, es, old)
<1>1. FilesTyped(ts, os)
  BY DEF FilesSound
<1>2. FilesTyped(ts, us)
  BY <1>1 DEF FilesTyped
<1>3. ASSUME NEW pid, NEW id, OwnedBy(ts, os, pid, id) PROVE OwnedBy(ts, us, pid, id)
  <2>1. \A fd \in Fds : TableOf(ts, pid)[fd] # None => TableOf(ts, pid)[fd] \in DOMAIN os
    BY <1>1, TablesAre
  <2> QED BY <1>3, <2>1 DEF OwnedBy
<1> QED BY <1>2, <1>3 DEF FilesSound

LEMMA KeptSound ==
    ASSUME NEW ts, NEW os, NEW es, NEW old, FilesSound(ts, os, es, old)
    PROVE  FilesSound(ts, Kept(os, ts), es, old)
<1>1. FilesTyped(ts, os)
  BY DEF FilesSound
<1>2. /\ FilesTyped(ts, Kept(os, ts))
      /\ \A pid, id : OwnedBy(ts, os, pid, id) => OwnedBy(ts, Kept(os, ts), pid, id)
  BY <1>1, KeptIs
<1> QED BY <1>2 DEF FilesSound

LEMMA NoneIsFree == \A o \in Open : o # None
BY DescriptorsAssumption

(* A table that is made, or a slot that is given what it has, changes      *)
(* nothing that is open.                                                   *)
LEMMA SameSlots ==
    ASSUME TableInv, NEW me \in Running, NEW os, NEW us,
           FilesSound(fd_tables, os, Entries, outdated),
           Changed(us, fd_tables, os, me.pid, 0, TableOf(fd_tables, me.pid)[0])
    PROVE  FilesSound(us, os, Entries, outdated)
<1>1. \A q : \A f \in Fds : TableOf(us, q)[f] = TableOf(fd_tables, q)[f]
  BY DEF Changed
<1>2. \A q, id : OwnedBy(fd_tables, os, q, id) => OwnedBy(us, os, q, id)
  BY <1>1 DEF OwnedBy
<1>3. DOMAIN us \subseteq {Main} \cup Pidset(Entries) \cup outdated
  BY WhoRuns DEF FilesSound, Pidset, Changed
<1> QED BY <1>2, <1>3 DEF FilesSound, Changed

LEMMA OpenKeeps ==
    ASSUME TableInv, Files, NEW me \in Running, NEW o \in Open, fopen(me, o)
    PROVE  FilesSound(fd_tables', opened', Entries, outdated)
<1> DEFINE t == TableOf(fd_tables, me.pid)
           os == [x \in DOMAIN opened \cup {o} |-> IF x = o THEN {me.id} ELSE opened[x]]
<1>1. FilesTyped(fd_tables, opened) /\ FilesSound(fd_tables, opened, Entries, outdated)
  BY DEF Files, FilesSound
<1>2. CASE FreeFds(t) = {}
  <2>1. fd_tables' = With(fd_tables, me.pid, 0, t[0]) /\ opened' = opened
    BY <1>2 DEF fopen
  <2>2. 0 \in Fds
    BY DescriptorsAssumption DEF Fds
  <2>3. t \in [Fds -> {None} \cup DOMAIN opened]
    BY <1>1, TablesAre
  <2>4. t[0] \in {None} \cup DOMAIN opened
    BY <2>2, <2>3
  <2>5. Changed(fd_tables', fd_tables, opened, me.pid, 0, t[0])
    <3>1. me.pid \in Nat
      BY WhoRuns
    <3> QED BY <1>1, <2>1, <2>4, <3>1, WithIs
  <2> QED BY <1>1, <2>1, <2>5, SameSlots
<1>3. CASE FreeFds(t) # {}
  <2> DEFINE fd == Min(FreeFds(t))
  <2>1. fd_tables' = With(fd_tables, me.pid, fd, o) /\ opened' = os /\ o \notin DOMAIN opened
    BY <1>3 DEF fopen, FreeOpen
  <2> HIDE DEF fd
  <2>2. me.id \in Ids \cup {NoId}
    BY WhoRuns
  <2>3. /\ DOMAIN os = DOMAIN opened \cup {o} /\ os[o] = {me.id}
        /\ \A x \in DOMAIN opened : os[x] = opened[x]
    BY <2>1
  <2> HIDE DEF os
  <2>4. FilesSound(fd_tables, os, Entries, outdated)
    <3>1. DOMAIN os \subseteq Open /\ \A x \in DOMAIN os : os[x] \subseteq Ids \cup {NoId}
      BY <1>1, <2>2, <2>3 DEF FilesTyped
    <3> QED BY <1>1, <2>3, <3>1, Grown
  <2>5. FilesTyped(fd_tables, os)
    BY <2>4 DEF FilesSound
  <2> QED BY <2>1, <2>3, <2>4, <2>5, GetsFile
<1> QED BY <1>2, <1>3

LEMMA UseKeeps ==
    ASSUME TableInv, Files, NEW me \in Running, UseTable(me)
    PROVE  FilesSound(fd_tables', opened', Entries, outdated)
<1> DEFINE t == TableOf(fd_tables, me.pid)
<1>1. FilesTyped(fd_tables, opened) /\ FilesSound(fd_tables, opened, Entries, outdated)
  BY DEF Files, FilesSound
<1>2. fd_tables' = With(fd_tables, me.pid, 0, t[0]) /\ opened' = opened
  BY DEF UseTable, Slot
<1>3. t[0] \in {None} \cup DOMAIN opened
  <2>1. 0 \in Fds
    BY DescriptorsAssumption DEF Fds
  <2>2. t \in [Fds -> {None} \cup DOMAIN opened]
    BY <1>1, TablesAre
  <2> QED BY <2>1, <2>2
<1>4. me.pid \in Nat
  BY WhoRuns
<1>5. Changed(fd_tables', fd_tables, opened, me.pid, 0, t[0])
  BY <1>1, <1>2, <1>3, <1>4, WithIs
<1> QED BY <1>1, <1>2, <1>5, SameSlots

LEMMA CloseKeeps ==
    ASSUME TableInv, Files, NEW me \in Running, NEW fd \in Fds, fclose(me, fd)
    PROVE  FilesSound(fd_tables', opened', Entries, outdated)
<1>1. FilesTyped(fd_tables, opened) /\ FilesSound(fd_tables, opened, Entries, outdated)
  BY DEF Files, FilesSound
<1>2. fd_tables' = With(fd_tables, me.pid, fd, None) /\ opened' = Kept(opened, fd_tables')
  BY DEF fclose
<1>3. FilesSound(fd_tables', opened, Entries, outdated)
  BY <1>1, <1>2, GetsFile
<1> QED BY <1>2, <1>3, KeptSound
-----------------------------------------------------------------------------
(* Steps after which every process is still who it was.                    *)

Same(e, f) == f.pid = e.pid /\ f.id = e.id /\ f.exclusive = e.exclusive

EntriesOf(ps, qs) == {ps[i] : i \in DOMAIN ps} \cup {qs[i] : i \in DOMAIN qs}

(* Each of the processes fs is one of es, and no pid goes. *)
Alike(es, fs) ==
    /\ \A f \in fs : \E e \in es : Same(e, f)
    /\ Pidset(es) \subseteq Pidset(fs)

LEMMA AlikeSound ==
    ASSUME NEW es, NEW fs, Alike(es, fs), NEW old, IdsSound(es, old)
    PROVE  IdsSound(fs, old)
BY DEF Alike, Same, IdsSound

LEMMA AlikeFiles ==
    ASSUME NEW es, NEW fs, Alike(es, fs), NEW old, NEW ts, NEW os, FilesSound(ts, os, es, old)
    PROVE  FilesSound(ts, os, fs, old)
<1>1. \A f \in fs : f.exclusive => OwnedBy(ts, os, f.pid, f.id)
  <2> SUFFICES ASSUME NEW f \in fs, f.exclusive PROVE OwnedBy(ts, os, f.pid, f.id)
    OBVIOUS
  <2>1. PICK e \in es : f.pid = e.pid /\ f.id = e.id /\ f.exclusive = e.exclusive
    BY DEF Alike, Same
  <2> QED BY <2>1 DEF FilesSound
<1> QED BY <1>1 DEF FilesSound, Alike

(* Another state for some processes of a table.                            *)
Restated(s, t) ==
    /\ t \in Seq(Process) /\ DOMAIN t = DOMAIN s
    /\ \A i \in DOMAIN s : Same(s[i], t[i])

States == {"Ready", "Blocked", "Zombie"}

OtherStates(s, t) ==
    /\ DOMAIN t = DOMAIN s /\ t = [i \in DOMAIN s |-> t[i]]
    /\ \A i \in DOMAIN s : t[i] = s[i] \/ \E x \in States : t[i] = [s[i] EXCEPT !.state = x]

LEMMA Restates ==
    ASSUME NEW s \in Seq(Process), NEW t, OtherStates(s, t)
    PROVE  Restated(s, t)
<1>1. Len(s) \in Nat /\ DOMAIN s = 1 .. Len(s)
  OBVIOUS
<1>2. ASSUME NEW i \in DOMAIN s PROVE t[i] \in Process /\ Same(s[i], t[i])
  <2>1. s[i] \in Process
    OBVIOUS
  <2>2. CASE t[i] = s[i]
    BY <2>1, <2>2 DEF Same
  <2>3. ASSUME NEW x \in States, t[i] = [s[i] EXCEPT !.state = x]
        PROVE  t[i] \in Process /\ Same(s[i], t[i])
    BY <2>1, <2>3 DEF Process, Same, States
  <2> QED BY <2>2, <2>3 DEF OtherStates
<1>3. t \in [1 .. Len(s) -> Process]
  BY <1>1, <1>2 DEF OtherStates
<1>4. t \in Seq(Process)
  BY <1>1, <1>3
<1> QED BY <1>2, <1>4 DEF Restated, OtherStates

LEMMA SameRestated == ASSUME NEW s \in Seq(Process) PROVE Restated(s, s)
BY DEF Restated, Same

LEMMA RestatedAlike ==
    ASSUME NEW ps, NEW ps1, NEW qs, NEW qs1, Restated(ps, ps1), Restated(qs, qs1)
    PROVE  Alike(EntriesOf(ps, qs), EntriesOf(ps1, qs1))
<1>1. \A f \in EntriesOf(ps1, qs1) : \E e \in EntriesOf(ps, qs) : Same(e, f)
  BY DEF EntriesOf, Restated
<1>2. \A e \in EntriesOf(ps, qs) : \E f \in EntriesOf(ps1, qs1) : Same(e, f)
  BY DEF EntriesOf, Restated
<1> QED BY <1>1, <1>2 DEF Alike, Pidset, Same

(* No process and no file changes hands. *)
Quiet ==
    /\ fd_tables' = fd_tables /\ opened' = opened /\ outdated' = outdated
    /\ processes' \in Seq(Process) /\ procs' \in Seq(Process)
    /\ phase' \in {"main", "pass", "off"} /\ (phase' # "pass" => procs' = << >>)
    /\ Alike(Entries, EntriesOf(processes', procs'))

LEMMA QuietKeeps ==
    ASSUME TableInv, Files, Quiet
    PROVE  TableInv' /\ Files'
<1>1. Entries' = EntriesOf(processes', procs')
  BY DEF Entries, EntriesOf
<1>2. IdsSound(Entries', outdated')
  BY <1>1, AlikeSound DEF Quiet, TableInv
<1>3. FilesSound(fd_tables', opened', Entries', outdated')
  BY <1>1, AlikeFiles DEF Quiet, Files
<1> QED BY <1>2, <1>3 DEF Quiet, TableInv, Files

LEMMA OneQuiet ==
    ASSUME TableInv, NEW k, NEW x \in States,
           processes' = [processes EXCEPT ![k].state = x], UNCHANGED <<procs, phase, outdated>>,
           UNCHANGED <<fd_tables, opened>>
    PROVE  Quiet
<1>1. processes \in Seq(Process) /\ procs \in Seq(Process)
  BY DEF TableInv
<1>2. Restated(processes, processes')
  <2>1. /\ DOMAIN processes' = DOMAIN processes
        /\ processes' = [i \in DOMAIN processes |-> processes'[i]]
        /\ \A i \in DOMAIN processes :
              processes'[i] = IF i = k THEN [processes[i] EXCEPT !.state = x] ELSE processes[i]
    BY <1>1
  <2>2. OtherStates(processes, processes')
    BY <2>1 DEF OtherStates
  <2> QED BY <1>1, <2>2, Restates
<1>3. Alike(EntriesOf(processes, procs), EntriesOf(processes', procs'))
  BY <1>1, <1>2, SameRestated, RestatedAlike
<1> QED BY <1>1, <1>2, <1>3 DEF Quiet, TableInv, Entries, EntriesOf, Restated

LEMMA KillQuiet == ASSUME TableInv, NEW target, Kill(target) PROVE Quiet
<1>1. "Zombie" \in States
  BY DEF States
<1>2. PICK k : processes' = [processes EXCEPT ![k].state = "Zombie"]
  BY DEF Kill
<1> QED BY <1>1, <1>2, OneQuiet DEF Kill

LEMMA ReadEmptyQuiet == ASSUME TableInv, NEW me, NEW i, ReadEmpty(me, i) PROVE Quiet
<1>1. "Blocked" \in States
  BY DEF States
<1>2. PICK k : processes' = [processes EXCEPT ![k].state = "Blocked"]
  BY DEF ReadEmpty
<1> QED BY <1>1, <1>2, OneQuiet DEF ReadEmpty

LEMMA WriteQuiet == ASSUME TableInv, NEW me, NEW i, NEW ws, WritePipe(me, i, ws) PROVE Quiet
<1>1. processes \in Seq(Process) /\ procs \in Seq(Process)
  BY DEF TableInv
<1>2. /\ processes' = [j \in DOMAIN processes |->
                          [processes[j] EXCEPT !.state = IF @ = "Blocked" THEN "Ready" ELSE @]]
      /\ procs' = procs /\ phase' = phase /\ outdated' = outdated
      /\ fd_tables' = fd_tables /\ opened' = opened
  BY DEF WritePipe
<1>3. \A j \in DOMAIN processes : \E x \in States :
          [processes[j] EXCEPT !.state = IF @ = "Blocked" THEN "Ready" ELSE @]
              = [processes[j] EXCEPT !.state = x]
  <2> TAKE j \in DOMAIN processes
  <2>1. processes[j] \in Process
    BY <1>1
  <2>2. (IF processes[j].state = "Blocked" THEN "Ready" ELSE processes[j].state) \in States
    BY <2>1 DEF Process, States
  <2> QED BY <2>2
<1>4. OtherStates(processes, processes')
  BY <1>2, <1>3 DEF OtherStates
<1>5. Restated(processes, processes')
  BY <1>1, <1>4, Restates
<1>6. Alike(EntriesOf(processes, procs), EntriesOf(processes', procs'))
  BY <1>1, <1>2, <1>5, SameRestated, RestatedAlike
<1> QED BY <1>1, <1>2, <1>5, <1>6 DEF Quiet, TableInv, Entries, EntriesOf, Restated

(* The child that ends is a zombie of the pass's vector. *)
LEMMA EndOfChild ==
    ASSUME TableInv, NEW me, 
           procs' = [i \in DOMAIN procs |->
                       [procs[i] EXCEPT !.state = IF procs[i].id = me.id THEN "Zombie" ELSE @]]
    PROVE  Restated(procs, procs')
<1>1. procs \in Seq(Process)
  BY DEF TableInv
<1>2. \A j \in DOMAIN procs : \E x \in States :
          [procs[j] EXCEPT !.state = IF procs[j].id = me.id THEN "Zombie" ELSE @]
              = [procs[j] EXCEPT !.state = x]
  <2> TAKE j \in DOMAIN procs
  <2>1. procs[j] \in Process
    BY <1>1
  <2>2. (IF procs[j].id = me.id THEN "Zombie" ELSE procs[j].state) \in States
    BY <2>1 DEF Process, States
  <2> QED BY <2>2
<1>3. OtherStates(procs, procs')
  BY <1>2 DEF OtherStates
<1> QED BY <1>1, <1>3, Restates

LEMMA EmptyAlone == ASSUME NEW s, Restated(<< >>, s) PROVE s = << >>
BY DEF Restated

LEMMA ExitQuiet == ASSUME TableInv, NEW me \in Running, Exit(me) PROVE Quiet
<1>1. processes \in Seq(Process) /\ procs \in Seq(Process)
  BY DEF TableInv
<1>2. Restated(procs, procs')
  BY EndOfChild DEF Exit
<1>3. processes' = processes /\ phase' = phase /\ outdated' = outdated
      /\ fd_tables' = fd_tables /\ opened' = opened
  BY DEF Exit
<1>4. Alike(EntriesOf(processes, procs), EntriesOf(processes', procs'))
  BY <1>1, <1>2, <1>3, SameRestated, RestatedAlike
<1>5. procs = << >> => procs' = << >>
  BY <1>2, EmptyAlone
<1> QED BY <1>1, <1>2, <1>3, <1>4, <1>5 DEF Quiet, TableInv, Entries, EntriesOf, Restated

LEMMA BeginQuiet == ASSUME TableInv, BeginPass PROVE Quiet
<1>1. /\ processes \in Seq(Process) /\ procs = << >> /\ phase = "main"
      /\ procs' = processes /\ processes' = << >> /\ phase' = "pass"
      /\ fd_tables' = fd_tables /\ opened' = opened /\ outdated' = outdated
  BY DEF TableInv, BeginPass
<1>2. EntriesOf(processes', procs') = Entries
  BY <1>1 DEF EntriesOf, Entries
<1>3. Alike(Entries, Entries)
  BY DEF Alike, Same
<1> QED BY <1>1, <1>2, <1>3 DEF Quiet

LEMMA EndQuiet == ASSUME TableInv, EndPass PROVE Quiet
<1>1. /\ processes \in Seq(Process) /\ procs \in Seq(Process)
      /\ processes' = procs \o processes /\ procs' = << >> /\ phase' = "main"
      /\ fd_tables' = fd_tables /\ opened' = opened /\ outdated' = outdated
  BY DEF TableInv, EndPass
<1>2. Len(procs) \in Nat /\ Len(processes) \in Nat /\ procs \o processes \in Seq(Process)
  BY <1>1
<1>3. ASSUME NEW i \in DOMAIN (procs \o processes) PROVE (procs \o processes)[i] \in Entries
  BY <1>1, <1>2 DEF Entries
<1>4. \A i \in DOMAIN procs : i \in DOMAIN (procs \o processes)
          /\ (procs \o processes)[i] = procs[i]
  BY <1>1, <1>2
<1>5. \A i \in DOMAIN processes : i + Len(procs) \in DOMAIN (procs \o processes)
          /\ (procs \o processes)[i + Len(procs)] = processes[i]
  BY <1>1, <1>2
<1>6. EntriesOf(processes', procs') = Entries
  <2>1. EntriesOf(processes', procs') \subseteq Entries
    BY <1>1, <1>3 DEF EntriesOf
  <2>2. Entries \subseteq EntriesOf(processes', procs')
    BY ZenonT(60), <1>1, <1>4, <1>5 DEF EntriesOf, Entries
  <2> QED BY <2>1, <2>2
<1>7. Alike(Entries, Entries)
  BY DEF Alike, Same
<1> QED BY <1>1, <1>2, <1>6, <1>7 DEF Quiet
-----------------------------------------------------------------------------
(* Reaping.                                                                *)

(* In a finite set of numbers every rank is some member's, and only his.   *)
LEMMA RanksOnto ==
    ASSUME NEW D \in SUBSET Nat, IsFiniteSet(D)
    PROVE  /\ Cardinality(D) \in Nat
           /\ \A k \in 1 .. Cardinality(D) :
                 \E i \in D : Cardinality({j \in D : j < i}) = k - 1
           /\ \A i \in D : Cardinality({j \in D : j < i}) + 1 \in 1 .. Cardinality(D)
           /\ \A i, l \in D :
                 Cardinality({j \in D : j < i}) = Cardinality({j \in D : j < l}) => i = l
<1> DEFINE B(i) == {j \in D : j < i}
           N == Cardinality(D)
           r == [i \in D |-> Cardinality(B(i)) + 1]
<1>1. N \in Nat
  BY FS_CardinalityType
<1>2. ASSUME NEW i \in D PROVE IsFiniteSet(B(i)) /\ Cardinality(B(i)) \in 0 .. N - 1
  <2>1. B(i) \in SUBSET D /\ B(i) # D
    OBVIOUS
  <2> HIDE DEF B
  <2>2. IsFiniteSet(B(i)) /\ Cardinality(B(i)) <= N /\ Cardinality(B(i)) # N
    BY <2>1, FS_Subset
  <2>3. Cardinality(B(i)) \in Nat
    BY <2>2, FS_CardinalityType
  <2> QED BY <1>1, <2>2, <2>3
<1>3. ASSUME NEW i \in D, NEW l \in D, i < l PROVE Cardinality(B(i)) # Cardinality(B(l))
  <2>1. B(i) \in SUBSET B(l) /\ i \in B(l) /\ i \notin B(i)
    <3>1. i \in Nat /\ l \in Nat /\ \A j \in D : j < i => j < l
      BY <1>3
    <3>2. B(i) \in SUBSET B(l)
      BY <3>1
    <3>3. i \in B(l)
      BY <1>3
    <3>4. i \notin B(i)
      BY <3>1
    <3> QED BY <3>2, <3>3, <3>4
  <2>2. IsFiniteSet(B(l))
    BY <1>2
  <2> HIDE DEF B
  <2> QED BY <2>1, <2>2, FS_Subset
<1> HIDE DEF B
<1>4. \A i, l \in D : Cardinality(B(i)) = Cardinality(B(l)) => i = l
  <2> TAKE i, l \in D
  <2>1. i < l \/ l < i \/ i = l
    OBVIOUS
  <2> QED BY <1>3, <2>1
<1>5. r \in [D -> 1 .. N]
  BY <1>1, <1>2
<1>6. r \in Injection(D, 1 .. N)
  <2>1. \A i, l \in D : r[i] = r[l] => Cardinality(B(i)) = Cardinality(B(l))
    BY <1>2
  <2> QED BY <1>4, <1>5, <2>1 DEF Injection, IsInjective
<1>7. IsFiniteSet(1 .. N) /\ Cardinality(1 .. N) = N
  BY <1>1, FS_Interval
<1>8. r \in Surjection(D, 1 .. N)
  BY <1>6, <1>7, FS_Injection
<1>9. ASSUME NEW k \in 1 .. N PROVE \E i \in D : Cardinality(B(i)) = k - 1
  <2>1. PICK i \in D : r[i] = k
    BY <1>8 DEF Surjection
  <2> QED BY <2>1, <1>2, <1>1
<1>10. \A i \in D : Cardinality(B(i)) + 1 \in 1 .. N
  BY <1>1, <1>2
<1> QED BY <1>1, <1>4, <1>9, <1>10 DEF B

(* What is left is what was there of other pids.                           *)
LEMMA WithoutIs ==
    ASSUME processes \in Seq(Process), NEW pid
    PROVE  /\ Without(pid) \in Seq(Process)
           /\ {Without(pid)[k] : k \in DOMAIN Without(pid)}
                 = {processes[i] : i \in {j \in DOMAIN processes : processes[j].pid # pid}}
<1> DEFINE kept == {i \in DOMAIN processes : processes[i].pid # pid}
           rank(i) == Cardinality({j \in kept : j < i})
           at(k) == CHOOSE i \in kept : rank(i) = k - 1
           w == [k \in 1 .. Cardinality(kept) |-> processes[at(k)]]
<1>1. Without(pid) = w
  BY DEF Without
<1>2. IsFiniteSet(kept) /\ kept \in SUBSET Nat /\ kept \subseteq DOMAIN processes
  <2>1. Len(processes) \in Nat /\ DOMAIN processes = 1 .. Len(processes)
    OBVIOUS
  <2>2. IsFiniteSet(1 .. Len(processes))
    BY <2>1, FS_Interval
  <2>3. kept \in SUBSET (1 .. Len(processes)) /\ kept \subseteq DOMAIN processes
    BY <2>1
  <2> HIDE DEF kept
  <2>4. kept \in SUBSET Nat
    BY <2>1, <2>3
  <2>5. IsFiniteSet(kept)
    BY <2>2, <2>3, FS_Subset
  <2> QED BY <2>3, <2>4, <2>5
<1>3. \A i \in DOMAIN processes : processes[i] \in Process
  OBVIOUS
<1> HIDE DEF kept
<1>4. /\ Cardinality(kept) \in Nat
      /\ \A k \in 1 .. Cardinality(kept) : \E i \in kept : rank(i) = k - 1
      /\ \A i \in kept : rank(i) + 1 \in 1 .. Cardinality(kept)
      /\ \A i, l \in kept : rank(i) = rank(l) => i = l
  BY <1>2, RanksOnto
<1>5. \A i \in kept : rank(i) \in Int
  BY <1>2, <1>4, FS_Subset, FS_CardinalityType
<1> HIDE DEF rank
<1>6. \A k \in 1 .. Cardinality(kept) : at(k) \in kept /\ rank(at(k)) = k - 1
  BY <1>4
<1> HIDE DEF at
<1>7. \A i \in kept : at(rank(i) + 1) = i
  <2> TAKE i \in kept
  <2>2. PICK k \in 1 .. Cardinality(kept) : k = rank(i) + 1
    BY <1>4
  <2>3. at(k) \in kept /\ rank(at(k)) = k - 1
    BY <1>6
  <2>4. rank(at(k)) = rank(i)
    <3>1. k - 1 = rank(i)
      BY <1>5, <2>2
    <3> QED BY <2>3, <3>1
  <2>5. at(k) = i
    BY <1>4, <2>3, <2>4
  <2> QED BY <2>2, <2>5
<1>8. w \in Seq(Process)
  <2>1. \A k \in 1 .. Cardinality(kept) : processes[at(k)] \in Process
    BY <1>2, <1>3, <1>6
  <2> QED BY <1>4, <2>1, IsASeq
<1>9. {w[k] : k \in DOMAIN w} = {processes[i] : i \in kept}
  BY <1>4, <1>6, <1>7
<1> HIDE DEF w
<1>10. /\ Without(pid) \in Seq(Process)
       /\ {Without(pid)[k] : k \in DOMAIN Without(pid)} = {processes[i] : i \in kept}
  BY <1>1, <1>8, <1>9
<1> QED BY <1>10 DEF kept

(* The tables of some pids go, and with them what only they referred to.   *)
LEMMA Closing ==
    ASSUME NEW es, NEW old, NEW ts, NEW os, FilesSound(ts, os, es, old),
           NEW gone, NEW us, DOMAIN us = DOMAIN ts \ gone, \A q \in DOMAIN us : us[q] = ts[q]
    PROVE  /\ FilesTyped(us, os)
           /\ \A q, id : OwnedBy(ts, os, q, id) => OwnedBy(us, os, q, id)
           /\ \A q, id : q \in gone => OwnedBy(us, os, q, id)
<1>1. FilesTyped(us, os)
  BY DEF FilesSound, FilesTyped
<1>2. \A q : q \notin DOMAIN us => \A fd \in Fds : TableOf(us, q)[fd] = None
  BY DEF TableOf, Has, EmptyTable
<1>3. \A q : q \in DOMAIN us => TableOf(us, q) = TableOf(ts, q)
  BY DEF TableOf, Has
<1>4. \A q, id : OwnedBy(ts, os, q, id) => OwnedBy(us, os, q, id)
  BY <1>2, <1>3 DEF OwnedBy
<1>5. \A q, id : q \in gone => OwnedBy(us, os, q, id)
  BY <1>2 DEF OwnedBy
<1> QED BY <1>1, <1>4, <1>5

(* Files forget the processes ids, of which none is the one in question.   *)
LEMMA Forgetting ==
    ASSUME NEW us, FilesTyped(us, opened), NEW ids
    PROVE  /\ FilesTyped(us, Forget(us, ids))
           /\ \A q, id : id \notin ids /\ OwnedBy(us, opened, q, id)
                             => OwnedBy(us, Forget(us, ids), q, id)
           /\ \A q : (\A fd \in Fds : TableOf(us, q)[fd] = None)
                             => \A id : OwnedBy(us, Forget(us, ids), q, id)
<1> DEFINE ks == Kept(opened, us)
           fs == Forget(us, ids)
<1>1. /\ FilesTyped(us, ks)
      /\ \A pid, id : OwnedBy(us, opened, pid, id) => OwnedBy(us, ks, pid, id)
  BY KeptIs
<1>2. DOMAIN ks \subseteq DOMAIN opened /\ \A o \in DOMAIN ks : ks[o] = opened[o]
  BY DEF Kept
<1>3. DOMAIN fs = DOMAIN ks /\ \A o \in DOMAIN ks : fs[o] = ks[o] \ ids
  BY <1>2 DEF Forget
<1> HIDE DEF ks, fs
<1>4. FilesTyped(us, fs)
  BY <1>1, <1>3 DEF FilesTyped
<1>5. ASSUME NEW q, NEW id, id \notin ids, OwnedBy(us, opened, q, id) PROVE OwnedBy(us, fs, q, id)
  <2>1. \A fd \in Fds : TableOf(us, q)[fd] # None => TableOf(us, q)[fd] \in DOMAIN ks
    BY <1>1, TablesAre
  <2>2. OwnedBy(us, ks, q, id)
    BY <1>1, <1>5
  <2> QED BY <1>3, <1>5, <2>1, <2>2 DEF OwnedBy
<1>6. \A q : (\A fd \in Fds : TableOf(us, q)[fd] = None) => \A id : OwnedBy(us, fs, q, id)
  BY DEF OwnedBy
<1> QED BY <1>4, <1>5, <1>6 DEF fs

LEMMA WaitKeeps ==
    ASSUME TableInv, Files, NEW target \in Nat \ {0}, WaitPid(target)
    PROVE  TableInv' /\ Files'
<1> DEFINE S == {i \in DOMAIN processes : processes[i].pid = target}
           ids == {processes[i].id : i \in S}
           es == EntriesOf(processes', procs')
           us == close_all(fd_tables, target)
           rest == {i \in DOMAIN processes : processes[i].pid # target}
<1>1. /\ fd_tables' = us /\ opened' = Forget(us, ids) /\ processes' = Without(target)
      /\ outdated' = outdated \ {target} /\ procs' = procs /\ phase' = phase
  BY DEF WaitPid
<1>2. processes \in Seq(Process) /\ procs \in Seq(Process)
  BY DEF TableInv
<1>3. /\ processes' \in Seq(Process)
      /\ {processes'[k] : k \in DOMAIN processes'} = {processes[i] : i \in rest}
  <2>1. /\ Without(target) \in Seq(Process)
        /\ {Without(target)[k] : k \in DOMAIN Without(target)} = {processes[i] : i \in rest}
    BY <1>2, WithoutIs, Zenon
  <2> QED BY <1>1, <2>1, Zenon
<1>4. Entries' = es
  BY DEF Entries, EntriesOf
<1>5. es = {processes[i] : i \in rest} \cup {procs[i] : i \in DOMAIN procs}
  BY <1>1, <1>3 DEF EntriesOf
<1> HIDE DEF es
<1>6. es \subseteq Entries /\ \A e \in Entries : e.pid # target => e \in es
  BY <1>5 DEF Entries
<1>7. IdsSound(es, outdated')
  BY <1>1, <1>6 DEF TableInv, IdsSound
<1>8. FilesSound(fd_tables, opened, Entries, outdated)
  BY DEF Files
<1>9. DOMAIN us = DOMAIN fd_tables \ {target} /\ \A q \in DOMAIN us : us[q] = fd_tables[q]
  BY DEF close_all
<1>10. /\ FilesTyped(us, opened)
       /\ \A q, id : OwnedBy(fd_tables, opened, q, id) => OwnedBy(us, opened, q, id)
  BY <1>8, <1>9, Closing
<1>11. \A fd \in Fds : TableOf(us, target)[fd] = None
  BY <1>9 DEF TableOf, Has, EmptyTable
<1> DEFINE fs == Forget(us, ids)
<1> HIDE DEF us
<1>12. /\ FilesTyped(us, fs)
       /\ \A q, id : id \notin ids /\ OwnedBy(us, opened, q, id) => OwnedBy(us, fs, q, id)
       /\ \A id : OwnedBy(us, fs, target, id)
  BY <1>10, <1>11, Forgetting
<1>13. \A e \in Entries : e.id \in ids => e.pid = target
  <2>1. \A i \in S : processes[i] \in Entries /\ processes[i].pid = target
    BY DEF Entries
  <2> QED BY <2>1 DEF TableInv, IdsSound
<1>14. NoId \notin ids
  <2>1. \A i \in S : processes[i] \in Entries
    BY DEF Entries
  <2> QED BY <2>1, EntriesAre, DescriptorsAssumption
<1> HIDE DEF fs, ids
<1>15. \A e \in es : e.exclusive => OwnedBy(us, fs, e.pid, e.id)
  BY <1>6, <1>8, <1>10, <1>12, <1>13 DEF FilesSound
<1>16. Main \notin outdated' => OwnedBy(us, fs, Main, NoId)
  BY <1>1, <1>8, <1>10, <1>12, <1>14 DEF FilesSound, Main
<1>17. DOMAIN us \subseteq {Main} \cup Pidset(es) \cup outdated'
  BY <1>1, <1>6, <1>8, <1>9 DEF FilesSound, Pidset
<1>18. FilesSound(us, fs, es, outdated')
  BY <1>12, <1>15, <1>16, <1>17 DEF FilesSound
<1>19. TableInv'
  BY <1>1, <1>2, <1>3, <1>4, <1>7 DEF TableInv
<1>20. Files'
  BY <1>1, <1>4, <1>18 DEF Files, fs
<1> QED BY <1>19, <1>20

LEMMA ShutdownKeeps ==
    ASSUME TableInv, Files, NEW me \in Running, Shutdown(me)
    PROVE  TableInv' /\ Files'
<1> DEFINE gone == {Main} \cup {processes[i].pid : i \in
                       {j \in DOMAIN processes : processes[j].state # "Zombie"}}
           us == fd_tables'
<1>1. /\ us = [pid \in DOMAIN fd_tables \ gone |-> fd_tables[pid]]
      /\ opened' = Kept(opened, us) /\ outdated' = outdated \ gone
      /\ processes' = [i \in DOMAIN processes |-> [processes[i] EXCEPT !.state = "Zombie"]]
      /\ phase' = IF me.pid = Main THEN "off" ELSE phase
  BY DEF Shutdown
<1>2. processes \in Seq(Process) /\ procs \in Seq(Process)
  BY DEF TableInv
<1>3. Restated(procs, procs')
  BY EndOfChild DEF Shutdown
<1>4. Restated(processes, processes')
  <2>1. "Zombie" \in States
    BY DEF States
  <2>2. OtherStates(processes, processes')
    BY <1>1, <2>1 DEF OtherStates
  <2> QED BY <1>2, <2>2, Restates
<1> DEFINE es == EntriesOf(processes', procs')
<1>5. Entries' = es /\ Alike(Entries, es)
  BY <1>3, <1>4, RestatedAlike DEF Entries, EntriesOf
<1> HIDE DEF es
<1>6. FilesSound(fd_tables, opened, es, outdated) /\ IdsSound(es, outdated)
  BY <1>5, AlikeFiles, AlikeSound DEF Files, TableInv
<1>7. DOMAIN us = DOMAIN fd_tables \ gone /\ \A q \in DOMAIN us : us[q] = fd_tables[q]
  BY <1>1
<1>8. Main \in gone
  OBVIOUS
<1> HIDE DEF us, gone
<1>9. IdsSound(es, outdated')
  BY <1>1, <1>6 DEF IdsSound
<1>10. /\ FilesTyped(us, opened)
       /\ \A q, id : OwnedBy(fd_tables, opened, q, id) => OwnedBy(us, opened, q, id)
       /\ \A q, id : q \in gone => OwnedBy(us, opened, q, id)
  BY <1>6, <1>7, Closing
<1>11. FilesSound(us, opened, es, outdated')
  BY <1>1, <1>6, <1>7, <1>8, <1>10 DEF FilesSound
<1>12. FilesSound(us, Kept(opened, us), es, outdated')
  BY <1>11, KeptSound
<1>13. phase' \in {"main", "pass", "off"} /\ (phase' # "pass" => procs' = << >>)
  <2>1. phase # "pass" => procs' = << >>
    BY <1>3, EmptyAlone DEF TableInv
  <2>2. me.pid = Main => phase = "main"
    BY WhoRuns
  <2> QED BY <1>1, <2>1, <2>2 DEF TableInv
<1>14. TableInv'
  BY <1>1, <1>3, <1>4, <1>5, <1>9, <1>13 DEF TableInv, Restated
<1>15. Files'
  BY <1>1, <1>5, <1>12 DEF Files, us
<1> QED BY <1>14, <1>15

LEMMA ResetKeeps ==
    ASSUME TableInv, Files, Reset
    PROVE  TableInv' /\ Files'
<1>1. /\ processes' = << >> /\ procs' = << >> /\ phase' = "main"
      /\ outdated' = DOMAIN fd_tables /\ fd_tables' = fd_tables
      /\ opened' = [o \in DOMAIN opened |-> {}]
  BY DEF Reset, TableInv
<1>2. Entries' = {}
  BY <1>1 DEF Entries
<1>3. FilesTyped(fd_tables, opened)
  BY DEF Files, FilesSound
<1>4. FilesTyped(fd_tables, opened') /\ outdated' \subseteq Nat
  BY <1>1, <1>3 DEF FilesTyped
<1>5. Main \notin outdated' => OwnedBy(fd_tables, opened', Main, NoId)
  BY <1>1 DEF OwnedBy, TableOf, Has, EmptyTable
<1>6. FilesSound(fd_tables, opened', {}, outdated')
  BY <1>1, <1>4, <1>5 DEF FilesSound
<1>7. TableInv'
  BY <1>1, <1>2, <1>4 DEF TableInv, IdsSound
<1> QED BY <1>1, <1>2, <1>6, <1>7 DEF Files
-----------------------------------------------------------------------------
(* EXECP.                                                                  *)

(* A table in which a process shares pid from now on, if it did not.       *)
LEMMA SharedIs ==
    ASSUME NEW ps \in Seq(Process), NEW pid
    PROVE  /\ Shared(ps, pid) \in Seq(Process) /\ DOMAIN Shared(ps, pid) = DOMAIN ps
           /\ \A i \in DOMAIN ps :
                 /\ Shared(ps, pid)[i].pid = ps[i].pid /\ Shared(ps, pid)[i].id = ps[i].id
                 /\ Shared(ps, pid)[i].exclusive => ps[i].exclusive /\ ps[i].pid # pid
<1> DEFINE s == [i \in DOMAIN ps |-> [ps[i] EXCEPT !.exclusive = @ /\ ps[i].pid # pid]]
<1>1. Len(ps) \in Nat /\ DOMAIN ps = 1 .. Len(ps)
  OBVIOUS
<1>2. ASSUME NEW i \in DOMAIN ps
      PROVE  /\ s[i] \in Process /\ s[i].pid = ps[i].pid /\ s[i].id = ps[i].id
             /\ s[i].exclusive => ps[i].exclusive /\ ps[i].pid # pid
  <2>1. ps[i] \in Process
    OBVIOUS
  <2> DEFINE x == ps[i].exclusive /\ ps[i].pid # pid
  <2>2. x \in BOOLEAN
    OBVIOUS
  <2>3. s[i] = [ps[i] EXCEPT !.exclusive = x]
    OBVIOUS
  <2> HIDE DEF x, s
  <2>4. s[i] \in Process /\ s[i].pid = ps[i].pid /\ s[i].id = ps[i].id /\ s[i].exclusive = x
    BY <2>1, <2>2, <2>3 DEF Process
  <2> QED BY <2>4 DEF x
<1>3. s \in [1 .. Len(ps) -> Process] /\ DOMAIN s = DOMAIN ps
  BY <1>1, <1>2
<1> HIDE DEF s
<1>4. s \in Seq(Process)
  BY <1>1, <1>3
<1>5. Shared(ps, pid) = s
  BY DEF Shared, s
<1> QED BY <1>2, <1>3, <1>4, <1>5

(* The processes after EXECP: those that were there, and the new one.      *)
LEMMA ExecpTable ==
    ASSUME TableInv, NEW id \in FreeIds, NEW pid \in Nat \ {0},
           processes' = Append(Shared(processes, pid), NewProcess(pid, id)),
           procs' = Shared(procs, pid), phase' = phase, outdated' = outdated
    PROVE  /\ TableInv'
           /\ Pidset(Entries') = Pidset(Entries) \cup {pid}
           /\ \A e \in Entries' : e.exclusive =>
                 \/ e.pid = pid /\ e.id = id /\ pid \notin Pidset(Entries) \cup outdated
                 \/ e.pid # pid /\ \E f \in Entries : f.pid = e.pid /\ f.id = e.id /\ f.exclusive
<1> DEFINE new == NewProcess(pid, id)
           s == Shared(processes, pid)
<1>1. processes \in Seq(Process) /\ procs \in Seq(Process)
  BY DEF TableInv
<1>2. /\ new \in Process /\ new.pid = pid /\ new.id = id
      /\ (new.exclusive => pid \notin Pidset(Entries) \cup outdated)
  BY DEF NewProcess, Process, FreeIds, Pidset
<1>3. /\ s \in Seq(Process) /\ DOMAIN s = DOMAIN processes
      /\ procs' \in Seq(Process) /\ DOMAIN procs' = DOMAIN procs
  BY <1>1, SharedIs
<1>4. /\ processes' \in Seq(Process) /\ DOMAIN processes' = DOMAIN processes \cup {Len(s) + 1}
      /\ processes'[Len(s) + 1] = new /\ \A i \in DOMAIN processes : processes'[i] = s[i]
  <2>1. processes' = Append(s, new)
    OBVIOUS
  <2> HIDE DEF s, new
  <2> QED BY <1>2, <1>3, <2>1
<1>5. Entries' = {s[i] : i \in DOMAIN processes} \cup {new} \cup {procs'[i] : i \in DOMAIN procs}
  <2> HIDE DEF s, new
  <2>1. Entries' = {processes'[i] : i \in DOMAIN processes'} \cup {procs'[i] : i \in DOMAIN procs'}
    BY DEF Entries
  <2> QED BY SMTT(30), <1>3, <1>4, <2>1
<1> DEFINE From(e, f) == /\ f.pid = e.pid /\ f.id = e.id
                         /\ (f.exclusive => e.exclusive /\ e.pid # pid)
<1>6. \A i \in DOMAIN processes : processes[i] \in Entries /\ From(processes[i], s[i])
  <2>1. \A i \in DOMAIN processes : processes[i] \in Entries
    BY DEF Entries
  <2> QED BY <1>1, <2>1, SharedIs
<1>7. \A i \in DOMAIN procs : procs[i] \in Entries /\ From(procs[i], procs'[i])
  <2>1. \A i \in DOMAIN procs : procs[i] \in Entries
    BY DEF Entries
  <2> QED BY <1>1, <2>1, SharedIs
<1> HIDE DEF s, new
<1>8. \A f \in Entries' : f = new \/ \E e \in Entries : From(e, f)
  BY <1>5, <1>6, <1>7
<1>9. new \in Entries' /\ \A e \in Entries : \E f \in Entries' : f.pid = e.pid
  <2>1. \A e \in Entries : (\E i \in DOMAIN processes : e = processes[i])
                           \/ \E i \in DOMAIN procs : e = procs[i]
    BY DEF Entries
  <2> QED BY <1>5, <1>6, <1>7, <2>1
<1>10. \A e \in Entries : e.id # id
  BY DEF FreeIds
<1>11. IdsSound(Entries', outdated')
  <2>1. \A e, f \in Entries' : e.id = f.id => e.pid = f.pid
    BY <1>2, <1>8, <1>10 DEF TableInv, IdsSound
  <2>2. \A e, f \in Entries' : e.exclusive /\ e.pid = f.pid => e.id = f.id
    BY <1>2, <1>8 DEF TableInv, IdsSound, Pidset
  <2>3. \A e \in Entries' : e.exclusive => e.pid \notin outdated'
    BY <1>2, <1>8 DEF TableInv, IdsSound
  <2> QED BY <2>1, <2>2, <2>3 DEF IdsSound
<1>12. Pidset(Entries') = Pidset(Entries) \cup {pid}
  BY <1>2, <1>8, <1>9 DEF Pidset
<1>13. procs = << >> => procs' = << >>
  BY <1>3
<1>14. TableInv'
  BY <1>3, <1>4, <1>11, <1>13 DEF TableInv
<1>15. ASSUME NEW e \in Entries', e.exclusive
       PROVE  \/ e.pid = pid /\ e.id = id /\ pid \notin Pidset(Entries) \cup outdated
              \/ e.pid # pid /\ \E f \in Entries : f.pid = e.pid /\ f.id = e.id /\ f.exclusive
  BY <1>2, <1>8, <1>15
<1> QED BY <1>12, <1>14, <1>15

LEMMA ExecpKeeps ==
    ASSUME TableInv, Files, NEW me \in Running, NEW id \in Ids, NEW stdin, NEW stdout,
           Execp(me, id, stdin, stdout)
    PROVE  TableInv' /\ Files'
<1> DEFINE pid == Len(processes) + 1
           handed == {Slot(me.pid, fd) : fd \in {stdin, stdout} \cap Fds}
           os == [o \in DOMAIN opened |-> opened[o] \cup {i \in {id} : o \in handed}]
           vs == dup_fd(fd_tables, stdin, 0, pid, me.pid)
           us == dup_fd(vs, stdout, 1, pid, me.pid)
<1>1. /\ id \in FreeIds /\ fd_tables' = us /\ opened' = Kept(os, us)
      /\ processes' = Append(Shared(processes, pid), NewProcess(pid, id))
      /\ procs' = Shared(procs, pid) /\ phase' = phase /\ outdated' = outdated
  BY DEF Execp
<1>2. pid \in Nat \ {0}
  <2>1. Len(processes) \in Nat
    BY DEF TableInv
  <2> QED BY <2>1
<1>3. 0 \in Fds /\ 1 \in Fds
  BY DescriptorsAssumption DEF Fds
<1> HIDE DEF pid
<1>4. /\ TableInv'
      /\ Pidset(Entries') = Pidset(Entries) \cup {pid}
      /\ \A e \in Entries' : e.exclusive =>
            \/ e.pid = pid /\ e.id = id /\ pid \notin Pidset(Entries) \cup outdated
            \/ e.pid # pid /\ \E f \in Entries : f.pid = e.pid /\ f.id = e.id /\ f.exclusive
  BY <1>1, <1>2, ExecpTable
<1>5. FilesSound(fd_tables, os, Entries, outdated)
  <2>1. FilesSound(fd_tables, opened, Entries, outdated) /\ FilesTyped(fd_tables, opened)
    BY DEF Files, FilesSound
  <2>2. /\ DOMAIN os = DOMAIN opened
        /\ \A o \in DOMAIN opened : opened[o] \subseteq os[o] /\ os[o] \subseteq opened[o] \cup Ids
    OBVIOUS
  <2> HIDE DEF os
  <2>3. DOMAIN os \subseteq Open /\ \A o \in DOMAIN os : os[o] \subseteq Ids \cup {NoId}
    BY <2>1, <2>2 DEF FilesTyped
  <2> QED BY <2>1, <2>2, <2>3, Grown
<1>6. \A o \in DOMAIN os : o \in handed => id \in os[o]
  OBVIOUS
<1>7. \A fd \in {stdin, stdout} \cap Fds : TableOf(fd_tables, me.pid)[fd] \in handed
  BY DEF Slot
<1> HIDE DEF os, handed
<1>8. FilesTyped(fd_tables, os)
  BY <1>5 DEF FilesSound
<1>9. Duplicated(vs, fd_tables, os, stdin, pid, me.pid)
  BY <1>2, <1>3, <1>8, DupIs
<1>10. Duplicated(us, vs, os, stdout, pid, me.pid)
  <2>1. FilesTyped(vs, os)
    BY <1>9 DEF Duplicated
  <2> HIDE DEF vs
  <2> QED BY <1>2, <1>3, <2>1, DupIs
<1> HIDE DEF vs, us
<1>11. \A q, i : q # pid /\ OwnedBy(fd_tables, os, q, i) => OwnedBy(us, os, q, i)
  BY <1>9, <1>10 DEF OwnedBy, Duplicated
<1>12. ASSUME pid \notin Pidset(Entries) \cup outdated PROVE OwnedBy(us, os, pid, id)
  <2>1. me.pid # pid
    BY <1>2, <1>12, WhoRuns DEF Pidset, Main
  <2>2. pid \notin DOMAIN fd_tables
    BY <1>2, <1>5, <1>12 DEF FilesSound, Main
  <2>3. \A fd \in Fds : TableOf(fd_tables, pid)[fd] = None
    BY <2>2 DEF TableOf, Has, EmptyTable
  <2>4. \A fd \in Fds : TableOf(vs, pid)[fd] \in {None} \cup handed
    BY <1>7, <1>9, <2>3 DEF Duplicated
  <2>5. TableOf(vs, me.pid) = TableOf(fd_tables, me.pid)
    BY <1>9, <2>1 DEF Duplicated
  <2>6. \A fd \in Fds : TableOf(us, pid)[fd] \in {None} \cup handed
    BY <1>7, <1>10, <2>4, <2>5 DEF Duplicated
  <2>7. \A fd \in Fds : TableOf(us, pid)[fd] \in {None} \cup DOMAIN os
    BY <1>10, TablesAre DEF Duplicated
  <2> QED BY <1>6, <2>6, <2>7 DEF OwnedBy
<1>13. \A e \in Entries' : e.exclusive => OwnedBy(us, os, e.pid, e.id)
  <2> SUFFICES ASSUME NEW e \in Entries', e.exclusive PROVE OwnedBy(us, os, e.pid, e.id)
    OBVIOUS
  <2>1. CASE e.pid = pid /\ e.id = id /\ pid \notin Pidset(Entries) \cup outdated
    BY <1>12, <2>1
  <2>2. CASE e.pid # pid /\ \E f \in Entries : f.pid = e.pid /\ f.id = e.id /\ f.exclusive
    BY <1>5, <1>11, <2>2 DEF FilesSound
  <2> QED BY <1>4, <2>1, <2>2
<1>14. Main \notin outdated => OwnedBy(us, os, Main, NoId)
  BY <1>2, <1>5, <1>11 DEF FilesSound, Main
<1>15. DOMAIN us \subseteq {Main} \cup Pidset(Entries') \cup outdated
  BY <1>4, <1>5, <1>9, <1>10 DEF FilesSound, Duplicated
<1>16. FilesSound(us, os, Entries', outdated)
  BY <1>10, <1>13, <1>14, <1>15 DEF FilesSound, Duplicated
<1>17. FilesSound(us, Kept(os, us), Entries', outdated)
  BY <1>16, KeptSound
<1> QED BY <1>1, <1>4, <1>17 DEF Files
-----------------------------------------------------------------------------
(* No file and no process is touched. *)
LEMMA Untouched ==
    ASSUME TableInv, Files, UNCHANGED <<table, fd_tables, opened>>
    PROVE  TableInv' /\ Files'
<1>1. Entries' = Entries
  BY DEF Entries, table
<1> QED BY <1>1 DEF TableInv, Files, table

(* Only files are. *)
LEMMA SameTable ==
    ASSUME TableInv, UNCHANGED table, FilesSound(fd_tables', opened', Entries, outdated)
    PROVE  TableInv' /\ Files'
<1>1. Entries' = Entries
  BY DEF Entries, table
<1> QED BY <1>1 DEF TableInv, Files, table

LEMMA FilesStart == Init => TableInv /\ Files
<1> SUFFICES ASSUME Init PROVE TableInv /\ Files
  OBVIOUS
<1>1. Entries = {} /\ DOMAIN fd_tables = {} /\ DOMAIN opened = {} /\ outdated = {}
  BY DEF Init, Entries
<1>2. TableInv
  BY <1>1 DEF Init, TableInv, IdsSound
<1>3. OwnedBy(fd_tables, opened, Main, NoId)
  BY <1>1 DEF OwnedBy, TableOf, Has, EmptyTable
<1>4. Files
  BY <1>1, <1>3 DEF Files, FilesSound, FilesTyped
<1> QED BY <1>2, <1>4

LEMMA FilesInductive == TableInv /\ Files /\ [Next]_vars => TableInv' /\ Files'
<1> SUFFICES ASSUME TableInv, Files, [Next]_vars PROVE TableInv' /\ Files'
  OBVIOUS
<1>1. ASSUME NEW me \in Running, FileStep(me) PROVE TableInv' /\ Files'
  <2>1. UNCHANGED table
    BY <1>1 DEF FileStep, fopen, UseTable, fclose
  <2>2. FilesSound(fd_tables', opened', Entries, outdated)
    BY <1>1, OpenKeeps, UseKeeps, CloseKeeps DEF FileStep
  <2> QED BY <2>1, <2>2, SameTable
<1>2. ASSUME NEW me \in Running, PipeStep(me) PROVE TableInv' /\ Files'
  <2>1. CASE PipeOpcode
    BY <2>1, Untouched DEF PipeOpcode
  <2>2. ASSUME NEW i \in DOMAIN pipes, ReadEmpty(me, i) PROVE TableInv' /\ Files'
    BY <2>2, ReadEmptyQuiet, QuietKeeps
  <2>3. ASSUME NEW i \in DOMAIN pipes, NEW len, NEW room, ReadPipe(me, i, len, room)
        PROVE  TableInv' /\ Files'
    BY <2>3, Untouched DEF ReadPipe
  <2>4. ASSUME NEW i \in DOMAIN pipes, NEW ws, WritePipe(me, i, ws) PROVE TableInv' /\ Files'
    BY <2>4, WriteQuiet, QuietKeeps
  <2>5. ASSUME NEW i \in DOMAIN pipes, ClosePipe(i) PROVE TableInv' /\ Files'
    BY <2>5, Untouched DEF ClosePipe
  <2> QED BY <1>2, <2>1, <2>2, <2>3, <2>4, <2>5 DEF PipeStep
<1>3. ASSUME NEW me \in Running, ProcessStep(me) PROVE TableInv' /\ Files'
  <2>1. Pids \subseteq Nat \ {0}
    BY DEF Pids
  <2>2. ASSUME NEW target \in Pids, WaitPid(target) PROVE TableInv' /\ Files'
    <3>1. target \in Nat \ {0}
      BY <2>1
    <3> QED BY <2>2, <3>1, WaitKeeps
  <2>3. ASSUME NEW target, Kill(target) PROVE TableInv' /\ Files'
    BY <2>3, KillQuiet, QuietKeeps
  <2>4. CASE Exit(me)
    BY <2>4, ExitQuiet, QuietKeeps
  <2> QED BY <1>3, <2>2, <2>3, <2>4, ExecpKeeps, ShutdownKeeps DEF ProcessStep
<1>4. CASE BeginPass \/ EndPass \/ Reset
  BY <1>4, BeginQuiet, EndQuiet, QuietKeeps, ResetKeeps
<1>5. CASE UNCHANGED vars
  BY <1>5, Untouched DEF vars, table
<1> QED BY <1>1, <1>2, <1>3, <1>4, <1>5 DEF Next

LEMMA PipesStart == Init => PipeInv
BY DEF Init, PipeInv, PipesInOrder

LEMMA Always == Spec => [](TableInv /\ Files /\ PipeInv)
<1>1. Init => TableInv /\ Files /\ PipeInv
  BY FilesStart, PipesStart
<1>2. TableInv /\ Files /\ PipeInv /\ [Next]_vars => (TableInv /\ Files /\ PipeInv)'
  BY FilesInductive, PipesKeep
<1> QED BY <1>1, <1>2, PTL DEF Spec
-----------------------------------------------------------------------------
(* The tables are well typed, hold open files only, and each belongs to    *)
(* the main program, to a process in the table or to the time before a     *)
(* reset: WAITPID closes what it reaps (ops_extended.rs 412).              *)
THEOREM TablesCorrect == Spec => []TablesSound
<1>1. TableInv /\ Files /\ PipeInv => TablesSound
  BY DEF TableInv, Files, FilesSound, FilesTyped, PipeInv, TablesSound, TypeOK, TablesHaveHolder,
         Pidset
<1> QED BY <1>1, Always, PTL

(* A process that never shared its pid has open only what it opened or     *)
(* what EXECP handed it, whoever had the pid before.                       *)
THEOREM FilesArePrivate == Spec => []FilesPrivate
<1>1. TableInv /\ Files /\ PipeInv => FilesPrivate
  BY DEF Files, FilesSound, FilesPrivate, OwnedBy, Slot, MainProgram
<1> QED BY <1>1, Always, PTL

(* Pipes lose, double and swap nothing, whoever writes and reads.          *)
THEOREM PipesAreInOrder == Spec => []PipesInOrder
<1>1. TableInv /\ Files /\ PipeInv => PipesInOrder
  BY DEF PipeInv
<1> QED BY <1>1, Always, PTL
=============================================================================
