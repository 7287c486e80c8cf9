---------------------------- MODULE KernelProofs ----------------------------
(***************************************************************************)
(* The process table, for every size of table, slice and queue and every   *)
(* choice of opcodes the programs use.                                     *)
(***************************************************************************)
EXTENDS Kernel, FiniteSetTheorems, SequenceTheorems, TLAPS

(* A non-empty set of naturals has a least element.                        *)
LEMMA LeastExists ==
    ASSUME NEW S \in SUBSET Nat, S # {}
    PROVE  \E n \in S : \A m \in S : n <= m
<1> DEFINE R == {ss \in Nat \X Nat : ss[1] < ss[2]}
<1>1. IsWellFoundedOn(R, Nat)
  BY NatLessThanWellFounded DEF OpToRel
<1> HIDE DEF R
<1>2. PICK n \in S : \A m \in S : <<m, n>> \notin R
  BY <1>1, WFMin
<1>3. \A m \in S : n <= m
  <2> TAKE m \in S
  <2>1. m \in Nat /\ n \in Nat
    OBVIOUS
  <2>2. m < n => <<m, n>> \in R
    BY <2>1 DEF R
  <2> QED BY <1>2, <2>1, <2>2
<1> QED BY <1>3

(* In a finite set with a strict total order, given as a set of pairs,     *)
(* every rank is somebody's, and only his.                                 *)
LEMMA RanksOnto ==
    ASSUME NEW D, IsFiniteSet(D), NEW R,
           \A i \in D : <<i, i>> \notin R,
           \A i, j, k \in D : <<i, j>> \in R /\ <<j, k>> \in R => <<i, k>> \in R,
           \A i, j \in D : i # j => <<i, j>> \in R \/ <<j, i>> \in R
    PROVE  /\ Cardinality(D) \in Nat
           /\ \A k \in 1 .. Cardinality(D) :
                 \E i \in D : Cardinality({j \in D : <<j, i>> \in R}) = k - 1
           /\ \A i, l \in D :
                 Cardinality({j \in D : <<j, i>> \in R}) = Cardinality({j \in D : <<j, l>> \in R})
                   => i = l
<1> DEFINE B(i) == {j \in D : <<j, i>> \in R}
           N == Cardinality(D)
           r == [i \in D |-> Cardinality(B(i)) + 1]
<1>1. N \in Nat
  BY FS_CardinalityType
<1>2. ASSUME NEW i \in D PROVE IsFiniteSet(B(i)) /\ Cardinality(B(i)) \in 0 .. N - 1
  <2>1. B(i) \in SUBSET D /\ B(i) # D
    OBVIOUS
  <2> HIDE DEF B
  <2>2. IsFiniteSet(B(i)) /\ Cardinality(B(i)) <= N /\ Cardinality(B(i)) # N
    BY <2>1, FS_Subset
  <2>3. Cardinality(B(i)) \in Nat
    BY <2>2, FS_CardinalityType
  <2> QED BY <1>1, <2>2, <2>3
<1>3. ASSUME NEW i \in D, NEW l \in D, <<i, l>> \in R PROVE Cardinality(B(i)) # Cardinality(B(l))
  <2>1. B(i) \in SUBSET B(l) /\ i \in B(l) /\ i \notin B(i)
    BY <1>3
  <2>2. IsFiniteSet(B(l))
    BY <1>2
  <2> HIDE DEF B
  <2> QED BY <2>1, <2>2, FS_Subset
<1> HIDE DEF B
<1>4. \A i, l \in D : Cardinality(B(i)) = Cardinality(B(l)) => i = l
  BY <1>3
<1>5. r \in [D -> 1 .. N]
  BY <1>1, <1>2
<1>6. r \in Injection(D, 1 .. N)
  <2>1. \A i, l \in D : r[i] = r[l] => Cardinality(B(i)) = Cardinality(B(l))
    BY <1>2
  <2> QED BY <1>4, <1>5, <2>1 DEF Injection, IsInjective
<1>7. IsFiniteSet(1 .. N) /\ Cardinality(1 .. N) = N
  BY <1>1, FS_Interval
<1>8. r \in Surjection(D, 1 .. N)
  BY <1>6, <1>7, FS_Injection
<1>9. ASSUME NEW k \in 1 .. N PROVE \E i \in D : Cardinality(B(i)) = k - 1
  <2>1. PICK i \in D : r[i] = k
    BY <1>8 DEF Surjection
  <2> QED BY <2>1, <1>2, <1>1
<1> QED BY <1>1, <1>4, <1>9 DEF B
-----------------------------------------------------------------------------
(* The ids in a table, and that no two entries have the same.              *)
IdsOf(s) == {s[i].id : i \in DOMAIN s}
Distinct(s) == \A i, j \in DOMAIN s : s[i].id = s[j].id => i = j

LEMMA TableShort ==
    ASSUME NEW s \in Seq(Process), Distinct(s)
    PROVE  Len(s) \in 0 .. MaxTable
<1> DEFINE f == [i \in 1 .. Len(s) |-> s[i].id]
<1>1. Len(s) \in Nat /\ DOMAIN s = 1 .. Len(s) /\ MaxTable \in Nat
  BY KernelAssumption
<1>2. \A i \in 1 .. Len(s) : s[i].id \in Ids
  <2>1. \A i \in 1 .. Len(s) : s[i] \in Process
    BY <1>1
  <2> QED BY <2>1 DEF Process
<1>3. f \in Injection(1 .. Len(s), Ids)
  BY <1>1, <1>2 DEF Injection, IsInjective, Distinct
<1>4. IsFiniteSet(Ids) /\ Cardinality(Ids) = MaxTable
  <2>1. 1 \in Int /\ MaxTable \in Int /\ (IF 1 > MaxTable THEN 0 ELSE MaxTable - 1 + 1) = MaxTable
    BY <1>1
  <2> QED BY <2>1, FS_Interval DEF Ids
<1>5. IsFiniteSet(1 .. Len(s)) /\ Cardinality(1 .. Len(s)) = Len(s)
  <2>1. 1 \in Int /\ Len(s) \in Int /\ (IF 1 > Len(s) THEN 0 ELSE Len(s) - 1 + 1) = Len(s)
    BY <1>1
  <2> QED BY <2>1, FS_Interval
<1> HIDE DEF f
<1>6. Len(s) <= MaxTable
  BY <1>3, <1>4, <1>5, FS_Injection
<1> QED BY <1>1, <1>6

LEMMA FirstIn ==
    ASSUME NEW S \in SUBSET DOMAIN processes, processes \in Seq(Process), First(S) # 0
    PROVE  First(S) \in S
<1>1. S # {} /\ S \in SUBSET Nat
  BY DEF First
<1>2. \E n \in S : \A m \in S : n <= m
  BY <1>1, LeastExists
<1> QED BY <1>1, <1>2 DEF First

(* What an opcode keeps of an entry. *)
Like(p, q) ==
    /\ q.id = p.id /\ q.pid = p.pid
    /\ q.slice_remaining = p.slice_remaining /\ q.sleep = p.sleep

(* A halted process stays halted, but for a MSGRCV of one with its pid.    *)
StaysHalted(op, pid, p, q) ==
    is_halted(p) =>
        /\ q.exit_code = p.exit_code
        /\ \/ is_halted(q)
           \/ op = "MSGRCV" /\ q.state = "Blocked" /\ pid = p.pid

(* What the opcodes may make of the table, each entry and each absence     *)
(* accounted for; pid is the number of the one who executes.               *)
Follows(op, pid, t) ==
    /\ t \in Seq(Process)
    /\ Distinct(t)
    /\ \A k \in DOMAIN t :
          \/ /\ t[k].id \in FreshIds /\ t[k].sleep = Awake
             /\ op = "SPAWN"
          \/ \E i \in DOMAIN processes :
                Like(processes[i], t[k]) /\ StaysHalted(op, pid, processes[i], t[k])
    /\ \A i \in DOMAIN processes :
          processes[i].id \notin IdsOf(t) =>
              \E z \in DOMAIN processes :
                  /\ processes[z].pid = processes[i].pid /\ is_halted(processes[z])
                  /\ processes[z].id \notin IdsOf(t)
    /\ op # "WAITPID" /\ (\A i \in DOMAIN processes : processes[i].pid = i)
          => \A k \in DOMAIN t : t[k].pid = k
    /\ op # "SPAWN" /\ processes = << >> => t = << >>

TableInv ==
    /\ processes \in Seq(Process) /\ procs \in Seq(Process)
    /\ Distinct(processes) /\ Distinct(procs)
    /\ IdsOf(processes) \cap IdsOf(procs) = {}
-----------------------------------------------------------------------------
(* The five things an opcode does to the table.                            *)

LEMMA SameFollows ==
    ASSUME TableInv, NEW op, NEW pid
    PROVE  Follows(op, pid, processes)
BY DEF TableInv, Follows, Like, StaysHalted, IdsOf

LEMMA ChangedFollows ==
    ASSUME TableInv, NEW op, NEW pid, NEW i \in DOMAIN processes, NEW q \in Process,
           Like(processes[i], q), StaysHalted(op, pid, processes[i], q)
    PROVE  Follows(op, pid, [processes EXCEPT ![i] = q])
<1> DEFINE t == [processes EXCEPT ![i] = q]
<1>1. /\ t \in Seq(Process) /\ DOMAIN t = DOMAIN processes /\ t[i] = q
      /\ \A k \in DOMAIN processes \ {i} : t[k] = processes[k]
  BY DEF TableInv
<1> HIDE DEF t
<1>2. \A k \in DOMAIN processes :
          Like(processes[k], t[k]) /\ StaysHalted(op, pid, processes[k], t[k])
  BY <1>1 DEF Like, StaysHalted
<1>3. \A k \in DOMAIN processes : t[k].id = processes[k].id /\ t[k].pid = processes[k].pid
  BY <1>2 DEF Like
<1>4. IdsOf(t) = IdsOf(processes)
  BY <1>1, <1>3 DEF IdsOf
<1>5. Distinct(t)
  BY <1>1, <1>3 DEF Distinct, TableInv
<1>6. \A k \in DOMAIN processes : processes[k].id \in IdsOf(t)
  BY <1>4 DEF IdsOf
<1>7. processes = << >> => t = << >>
  BY <1>1
<1> QED BY <1>1, <1>2, <1>3, <1>5, <1>6, <1>7 DEF Follows, t

LEMMA NewProcessTyped ==
    ASSUME NEW pid \in Pids, FreshIds # {}
    PROVE  /\ NewProcess(pid) \in Process
           /\ NewProcess(pid).id \in FreshIds /\ NewProcess(pid).pid = pid
           /\ NewProcess(pid).sleep = Awake /\ NewProcess(pid).slice_remaining = 0
<1>1. FreshIds \in SUBSET Nat /\ FreshIds \in SUBSET Ids
  BY KernelAssumption DEF FreshIds, Ids
<1>2. \E n \in FreshIds : \A m \in FreshIds : n <= m
  BY <1>1, LeastExists
<1>3. (CHOOSE n \in FreshIds : \A m \in FreshIds : n <= m) \in FreshIds
  BY <1>2
<1>4. [s \in Signals |-> "default"] \in [Signals -> Handlers]
  BY DEF Handlers
<1> DEFINE k == CHOOSE n \in FreshIds : \A m \in FreshIds : n <= m
           h == [s \in Signals |-> "default"]
<1>5. k \in FreshIds /\ k \in Ids /\ 0 \in 0 .. MAX_MESSAGES /\ h \in [Signals -> Handlers]
  <2>1. k \in FreshIds
    BY <1>3
  <2>2. 0 \in 0 .. MAX_MESSAGES
    BY KernelAssumption
  <2> QED BY <1>1, <1>4, <2>1, <2>2
<1>6. NewProcess(pid) =
        [id |-> k, pid |-> pid, state |-> "Ready", mode |-> "User", priority |-> 1,
         slice_remaining |-> 0, sleep |-> Awake, segfaulted |-> FALSE,
         exit_code |-> 0, msgs |-> 0, signal_handlers |-> h]
  BY DEF NewProcess
<1> HIDE DEF k, h
<1> QED BY <1>5, <1>6 DEF Process

LEMMA AppendedFollows ==
    ASSUME TableInv, NEW pid, FreshIds # {}
    PROVE  Follows("SPAWN", pid, Append(processes, NewProcess(Len(processes) + 1)))
<1> DEFINE n == Len(processes) + 1
           q == NewProcess(n)
           t == Append(processes, q)
<1>1. Len(processes) \in 0 .. MaxTable /\ MaxTable \in Nat
  BY TableShort, KernelAssumption DEF TableInv
<1>2. n \in Pids
  BY <1>1 DEF Pids
<1>3. /\ q \in Process /\ q.id \in FreshIds /\ q.pid = n
      /\ q.sleep = Awake
  BY <1>2, NewProcessTyped
<1> HIDE DEF q
<1>4. /\ t \in Seq(Process) /\ DOMAIN t = DOMAIN processes \cup {n} /\ t[n] = q
      /\ \A k \in DOMAIN processes : t[k] = processes[k]
  BY <1>1, <1>3 DEF TableInv
<1> HIDE DEF t
<1>5. \A k \in DOMAIN processes : processes[k].id # q.id
  BY <1>3 DEF FreshIds
<1>6. Distinct(t)
  BY <1>3, <1>4, <1>5 DEF Distinct, TableInv
<1>7. \A k \in DOMAIN processes : processes[k].id \in IdsOf(t)
  BY <1>4 DEF IdsOf
<1>8. \A k \in DOMAIN t :
          \/ t[k].id \in FreshIds /\ t[k].sleep = Awake
          \/ \E i \in DOMAIN processes :
                Like(processes[i], t[k]) /\ StaysHalted("SPAWN", pid, processes[i], t[k])
  BY <1>3, <1>4 DEF Like, StaysHalted
<1>9. (\A i \in DOMAIN processes : processes[i].pid = i) => \A k \in DOMAIN t : t[k].pid = k
  BY <1>3, <1>4
<1> QED BY <1>4, <1>6, <1>7, <1>8, <1>9 DEF Follows, t, q

LEMMA KeptFollows ==
    ASSUME TableInv, NEW pid, NEW target, NEW z \in DOMAIN processes,
           processes[z].pid = target, is_halted(processes[z])
    PROVE  Follows("WAITPID", pid, Without(target))
<1> DEFINE kept == DOMAIN processes \ WithPid(target)
           R == {ss \in Int \X Int : ss[1] < ss[2]}
           N == Cardinality(kept)
           at == [k \in 1 .. N |-> CHOOSE i \in kept : Cardinality({j \in kept : j < i}) = k - 1]
<1>1. Len(processes) \in Nat /\ DOMAIN processes = 1 .. Len(processes)
  BY DEF TableInv
<1>2. IsFiniteSet(kept) /\ kept \in SUBSET Int
  <2>1. IsFiniteSet(DOMAIN processes)
    BY <1>1, FS_Interval
  <2>2. kept \in SUBSET DOMAIN processes
    OBVIOUS
  <2> QED BY <1>1, <2>1, <2>2, FS_Subset
<1>3. \A i, j \in Int : <<j, i>> \in R <=> j < i
  OBVIOUS
<1> HIDE DEF kept, R
<1>4. \A i \in kept : {j \in kept : <<j, i>> \in R} = {j \in kept : j < i}
  BY <1>2, <1>3
<1>5. /\ \A i \in kept : <<i, i>> \notin R
      /\ \A i, j, k \in kept : <<i, j>> \in R /\ <<j, k>> \in R => <<i, k>> \in R
      /\ \A i, j \in kept : i # j => <<i, j>> \in R \/ <<j, i>> \in R
  BY <1>2, <1>3
<1>6. /\ N \in Nat
      /\ \A k \in 1 .. N : \E i \in kept : Cardinality({j \in kept : <<j, i>> \in R}) = k - 1
      /\ \A i, l \in kept :
            Cardinality({j \in kept : <<j, i>> \in R}) = Cardinality({j \in kept : <<j, l>> \in R})
              => i = l
  BY <1>2, <1>5, RanksOnto
<1>7. \A k \in 1 .. N : \E i \in kept : Cardinality({j \in kept : j < i}) = k - 1
  BY <1>4, <1>6
<1>8. \A k \in 1 .. N : at[k] \in kept /\ Cardinality({j \in kept : j < at[k]}) = k - 1
  BY <1>7
<1>9. Without(target) = [k \in 1 .. N |-> processes[at[k]]]
  BY DEF Without, kept
<1> HIDE DEF at, N
<1>10. kept \in SUBSET DOMAIN processes
  BY DEF kept
<1>11. \A k, l \in 1 .. N : at[k] = at[l] => k = l
  <2> TAKE k, l \in 1 .. N
  <2>1. k \in Int /\ l \in Int
    BY <1>6
  <2>2. at[k] = at[l] => k - 1 = l - 1
    BY <1>8
  <2> QED BY <2>1, <2>2
<1> DEFINE t == [k \in 1 .. N |-> processes[at[k]]]
<1>12. t \in Seq(Process) /\ DOMAIN t = 1 .. N /\ \A k \in 1 .. N : t[k] = processes[at[k]]
  <2>1. \A k \in 1 .. N : processes[at[k]] \in Process
    <3>1. \A i \in DOMAIN processes : processes[i] \in Process
      BY DEF TableInv
    <3>2. \A k \in 1 .. N : at[k] \in DOMAIN processes
      BY <1>8, <1>10
    <3> QED BY <3>1, <3>2
  <2>2. t \in [1 .. N -> Process]
    BY <2>1
  <2> QED BY <2>2, <1>6
<1> HIDE DEF t
<1>13. Distinct(t)
  <2> SUFFICES ASSUME NEW k \in 1 .. N, NEW l \in 1 .. N, t[k].id = t[l].id
               PROVE  k = l
    BY <1>12 DEF Distinct
  <2>1. at[k] \in DOMAIN processes /\ at[l] \in DOMAIN processes
    BY <1>8, <1>10
  <2>2. processes[at[k]].id = processes[at[l]].id
    BY <1>12
  <2>3. at[k] = at[l]
    BY <2>1, <2>2 DEF Distinct, TableInv
  <2> QED BY <2>3, <1>11
<1>14. \A k \in DOMAIN t : \E i \in DOMAIN processes :
          Like(processes[i], t[k]) /\ StaysHalted("WAITPID", pid, processes[i], t[k])
  BY <1>8, <1>10, <1>12 DEF Like, StaysHalted
<1>15. processes[z].id \notin IdsOf(t)
  <2>1. z \notin kept
    BY DEF kept, WithPid
  <2>2. \A k \in 1 .. N : processes[at[k]].id # processes[z].id
    BY ZenonT(60), <1>8, <1>10, <2>1 DEF Distinct, TableInv
  <2> QED BY <1>12, <2>2 DEF IdsOf
<1>16. ASSUME NEW i \in DOMAIN processes, i \in kept PROVE processes[i].id \in IdsOf(t)
  <2>1. Cardinality({j \in kept : j < i}) \in 0 .. N - 1
    <3> DEFINE B == {j \in kept : j < i}
    <3>1. B \in SUBSET kept /\ B # kept
      BY <1>16, <1>2
    <3> HIDE DEF B
    <3>2. IsFiniteSet(B) /\ Cardinality(B) <= N /\ Cardinality(B) # N
      BY <1>2, <3>1, FS_Subset DEF N
    <3>3. Cardinality(B) \in Nat
      BY <3>2, FS_CardinalityType
    <3> QED BY <3>2, <3>3, <1>6 DEF B
  <2>2. PICK k \in 1 .. N : k - 1 = Cardinality({j \in kept : j < i})
    <3> DEFINE b == Cardinality({j \in kept : j < i})
    <3>1. b \in 0 .. N - 1
      BY <2>1
    <3> HIDE DEF b
    <3>2. b + 1 \in 1 .. N /\ (b + 1) - 1 = b
      BY <3>1, <1>6
    <3>3. \E k \in 1 .. N : k - 1 = b
      BY <3>2
    <3> QED BY <3>3 DEF b
  <2>3. Cardinality({j \in kept : j < at[k]}) = Cardinality({j \in kept : j < i})
    BY <2>2, <1>8
  <2>4. at[k] = i
    BY <2>3, <1>16, <1>8, <1>4, <1>6
  <2> QED BY <2>2, <2>4, <1>12 DEF IdsOf
<1>17. \A i \in DOMAIN processes : processes[i].id \notin IdsOf(t) =>
          processes[z].pid = processes[i].pid
  BY <1>16 DEF kept, WithPid
<1>18. processes = << >> => t = << >>
  OBVIOUS
<1> QED BY <1>9, <1>12, <1>13, <1>14, <1>15, <1>17, <1>18 DEF Follows, t

LEMMA ZombiesFollow ==
    ASSUME TableInv, NEW op, NEW pid
    PROVE  Follows(op, pid, [i \in DOMAIN processes |->
                                [processes[i] EXCEPT !.state = "Zombie"]])
<1> DEFINE t == [i \in DOMAIN processes |-> [processes[i] EXCEPT !.state = "Zombie"]]
<1>1. ASSUME NEW i \in DOMAIN processes
      PROVE  /\ t[i] \in Process /\ is_halted(t[i]) /\ Like(processes[i], t[i])
             /\ t[i].exit_code = processes[i].exit_code
  <2>1. processes[i] \in Process
    BY DEF TableInv
  <2> QED BY <2>1 DEF Process, is_halted, Like
<1>2. t \in Seq(Process) /\ DOMAIN t = DOMAIN processes
  <2>1. Len(processes) \in Nat /\ DOMAIN processes = 1 .. Len(processes) /\ DOMAIN t = DOMAIN processes
    BY DEF TableInv
  <2>2. t \in [1 .. Len(processes) -> Process]
    BY <1>1, <2>1
  <2> QED BY <2>1, <2>2
<1> HIDE DEF t
<1>3. \A k \in DOMAIN processes : t[k].id = processes[k].id /\ t[k].pid = processes[k].pid
  BY <1>1 DEF Like
<1>4. IdsOf(t) = IdsOf(processes)
  BY <1>2, <1>3 DEF IdsOf
<1>5. Distinct(t)
  BY <1>2, <1>3 DEF Distinct, TableInv
<1>6. \A k \in DOMAIN processes : processes[k].id \in IdsOf(t)
  BY <1>4 DEF IdsOf
<1>7. \A k \in DOMAIN processes : StaysHalted(op, pid, processes[k], t[k])
  BY <1>1 DEF StaysHalted
<1>8. processes = << >> => t = << >>
  BY <1>2
<1> QED BY <1>1, <1>2, <1>3, <1>5, <1>6, <1>7, <1>8 DEF Follows, t
-----------------------------------------------------------------------------
Modes == {"User", "Kernel"}

ContextTyped(c) ==
    /\ c.pid \in 0 .. MaxTable + 1 /\ c.mode \in Modes /\ c.priority \in 0 .. 3
    /\ c.stack \in Seq(Modes) /\ Len(c.stack) <= MaxNest

EffectTyped(e) ==
    /\ e.halted \in BOOLEAN /\ e.segfault \in BOOLEAN /\ e.exit \in Nat \cup {NoExit}
    /\ e.yielded \in BOOLEAN /\ e.sleep_frames \in 0 .. MaxSleep
    /\ e.new_priority \in 0 .. 3 /\ e.mode \in Modes
    /\ e.stack \in Seq(Modes) /\ Len(e.stack) <= MaxNest
    /\ e.shutdown \in BOOLEAN /\ e.ok \in BOOLEAN

Good(op, c, e) == EffectTyped(e) /\ Follows(op, c.pid, e.table)

LEMMA NothingGood ==
    ASSUME TableInv, NEW op, NEW c, ContextTyped(c)
    PROVE  /\ Good(op, c, Nothing(c)) /\ Good(op, c, Error(c)) /\ Good(op, c, Halt(c))
           /\ Good(op, c, Segfault(c)) /\ Good(op, c, [Error(c) EXCEPT !.yielded = TRUE])
           /\ Good(op, c, [Nothing(c) EXCEPT !.yielded = TRUE])
<1>1. Follows(op, c.pid, processes)
  BY SameFollows
<1>2. EffectTyped(Nothing(c)) /\ Nothing(c).table = processes
  BY KernelAssumption DEF EffectTyped, ContextTyped, Nothing, NoExit
<1>3. EffectTyped(Error(c)) /\ Error(c).table = processes
  BY KernelAssumption DEF EffectTyped, ContextTyped, Nothing, NoExit, Error
<1>4. EffectTyped(Halt(c)) /\ Halt(c).table = processes
  BY KernelAssumption DEF EffectTyped, ContextTyped, Nothing, NoExit, Halt
<1>5. EffectTyped(Segfault(c)) /\ Segfault(c).table = processes
  BY KernelAssumption DEF EffectTyped, ContextTyped, Nothing, NoExit, Halt, Segfault
<1>6. /\ EffectTyped([Error(c) EXCEPT !.yielded = TRUE])
      /\ [Error(c) EXCEPT !.yielded = TRUE].table = processes
  BY KernelAssumption DEF EffectTyped, ContextTyped, Nothing, NoExit, Error
<1>7. /\ EffectTyped([Nothing(c) EXCEPT !.yielded = TRUE])
      /\ [Nothing(c) EXCEPT !.yielded = TRUE].table = processes
  BY KernelAssumption DEF EffectTyped, ContextTyped, Nothing, NoExit
<1> QED BY <1>1, <1>2, <1>3, <1>4, <1>5, <1>6, <1>7 DEF Good

LEMMA TableGood ==
    ASSUME TableInv, NEW op, NEW c, ContextTyped(c), NEW t, Follows(op, c.pid, t)
    PROVE  Good(op, c, [Nothing(c) EXCEPT !.table = t])
BY KernelAssumption DEF Good, EffectTyped, ContextTyped, Nothing, NoExit

LEMMA ChangeGood ==
    ASSUME TableInv, NEW op, NEW c, ContextTyped(c), NEW i \in DOMAIN processes, NEW q \in Process,
           Like(processes[i], q), StaysHalted(op, c.pid, processes[i], q)
    PROVE  Good(op, c, Change(c, i, q))
BY ChangedFollows, TableGood DEF Change
-----------------------------------------------------------------------------
(* One lemma per opcode that is more than a flag.                          *)

LEMMA SpawnGood ==
    ASSUME TableInv, NEW c, ContextTyped(c), Active >= MAX_PROCESSES \/ FreshIds # {}
    PROVE  Good("SPAWN", c, Spawn(c))
<1>1. CASE Active >= MAX_PROCESSES
  BY <1>1, NothingGood DEF Spawn
<1>2. CASE ~(Active >= MAX_PROCESSES)
  BY <1>2, AppendedFollows, TableGood DEF Spawn
<1> QED BY <1>1, <1>2

LEMMA Entries ==
    ASSUME TableInv, NEW target
    PROVE  /\ First(WithPid(target)) # 0 =>
                 /\ First(WithPid(target)) \in DOMAIN processes
                 /\ processes[First(WithPid(target))].pid = target
           /\ First(LiveWithPid(target)) # 0 =>
                 /\ First(LiveWithPid(target)) \in DOMAIN processes
                 /\ ~is_halted(processes[First(LiveWithPid(target))])
           /\ \A i \in DOMAIN processes : processes[i] \in Process
<1>1. /\ WithPid(target) \in SUBSET DOMAIN processes
      /\ LiveWithPid(target) \in SUBSET DOMAIN processes
      /\ processes \in Seq(Process)
  BY DEF WithPid, LiveWithPid, TableInv
<1>2. First(WithPid(target)) # 0 => First(WithPid(target)) \in WithPid(target)
  BY <1>1, FirstIn
<1>3. First(LiveWithPid(target)) # 0 => First(LiveWithPid(target)) \in LiveWithPid(target)
  BY <1>1, FirstIn
<1> QED BY <1>1, <1>2, <1>3 DEF WithPid, LiveWithPid

LEMMA KillGood ==
    ASSUME TableInv, NEW c, ContextTyped(c), NEW target
    PROVE  Good("KILL", c, Kill(c, target))
<1> DEFINE i == First(WithPid(target))
<1>1. CASE i = 0
  BY <1>1, NothingGood DEF Kill
<1>2. CASE i # 0
  <2>1. i \in DOMAIN processes /\ processes[i] \in Process
    BY <1>2, Entries
  <2> DEFINE q == [processes[i] EXCEPT !.state = "Zombie"]
  <2>2. Kill(c, target) = Change(c, i, q)
    BY <1>2 DEF Kill
  <2> HIDE DEF i
  <2>3. /\ q \in Process /\ Like(processes[i], q)
        /\ StaysHalted("KILL", c.pid, processes[i], q)
    BY <2>1 DEF Process, Like, StaysHalted, is_halted
  <2> QED BY <2>1, <2>2, <2>3, ChangeGood
<1> QED BY <1>1, <1>2

LEMMA WaitPidGood ==
    ASSUME TableInv, NEW c, ContextTyped(c), NEW target
    PROVE  Good("WAITPID", c, WaitPid(c, target))
<1> DEFINE i == First(WithPid(target))
<1>1. CASE i # 0 /\ processes[i].state = "Zombie"
  <2>1. i \in DOMAIN processes /\ processes[i].pid = target /\ is_halted(processes[i])
    BY <1>1, Entries DEF is_halted
  <2>2. Follows("WAITPID", c.pid, Without(target))
    BY <2>1, KeptFollows
  <2>3. WaitPid(c, target) = [Nothing(c) EXCEPT !.table = Without(target)]
    BY <1>1 DEF WaitPid, is_halted
  <2>4. Good("WAITPID", c, [Nothing(c) EXCEPT !.table = Without(target)])
    BY <2>2, TableGood
  <2> QED BY <2>3, <2>4
<1>2. CASE ~(i # 0 /\ processes[i].state = "Zombie")
  <2>1. \/ WaitPid(c, target) = [Error(c) EXCEPT !.yielded = TRUE]
        \/ WaitPid(c, target) = Nothing(c)
    BY <1>2 DEF WaitPid
  <2>2. /\ Good("WAITPID", c, [Error(c) EXCEPT !.yielded = TRUE])
        /\ Good("WAITPID", c, Nothing(c))
    BY NothingGood
  <2> QED BY <2>1, <2>2
<1> QED BY <1>1, <1>2

LEMMA ExitGood ==
    ASSUME TableInv, NEW c, ContextTyped(c), NEW code \in ExitArgs
    PROVE  Good("EXIT", c, Exit(c, code))
<1>1. Exit(c, code).table = processes
  BY DEF Exit, Halt, Nothing
<1>2. code \in Nat
  BY KernelAssumption
<1>3. EffectTyped(Exit(c, code))
  <2>1. CASE c.pid > 0
    BY <1>2, <2>1, KernelAssumption DEF EffectTyped, ContextTyped, Exit, Halt, Nothing, NoExit
  <2>2. CASE ~(c.pid > 0)
    BY <1>2, <2>2, KernelAssumption DEF EffectTyped, ContextTyped, Exit, Halt, Nothing, NoExit
  <2> QED BY <2>1, <2>2
<1> QED BY <1>1, <1>3, SameFollows DEF Good

LEMMA SignalGood ==
    ASSUME TableInv, NEW c, ContextTyped(c), NEW target, NEW sig \in Signals
    PROVE  Good("SIGNAL", c, Signal(c, target, sig))
<1> DEFINE i == First(LiveWithPid(target))
           code == IF sig = "Term" THEN 1 ELSE 2
           q == [processes[i] EXCEPT !.state = "Zombie", !.exit_code = code]
<1>1. CASE i = 0
  BY <1>1, NothingGood DEF Signal
<1>2. CASE /\ i # 0 /\ processes[i].signal_handlers[sig] = "default"
           /\ sig \in {"Term", "Stop"}
  <2>1. i \in DOMAIN processes /\ processes[i] \in Process /\ ~is_halted(processes[i])
    BY <1>2, Entries
  <2>2. Signal(c, target, sig) = Change(c, i, q)
    BY <1>2 DEF Signal
  <2>3. code \in Nat
    OBVIOUS
  <2> HIDE DEF i, code
  <2>4. q \in Process /\ Like(processes[i], q) /\ StaysHalted("SIGNAL", c.pid, processes[i], q)
    BY <2>1, <2>3 DEF Process, Like, StaysHalted
  <2> QED BY <2>1, <2>2, <2>4, ChangeGood
<1>3. CASE ~(i = 0) /\ ~(/\ i # 0 /\ processes[i].signal_handlers[sig] = "default"
                         /\ sig \in {"Term", "Stop"})
  <2>1. Signal(c, target, sig) = Nothing(c)
    BY <1>3 DEF Signal
  <2> QED BY <2>1, NothingGood
<1> QED BY <1>1, <1>2, <1>3

LEMMA SigSetGood ==
    ASSUME TableInv, NEW c, ContextTyped(c), NEW sig \in Signals, NEW handler \in HandlerArgs
    PROVE  Good("SIGSET", c, SigSet(c, sig, handler))
<1> DEFINE i == First(WithPid(c.pid))
           q == [processes[i] EXCEPT !.signal_handlers[sig] = handler]
<1>1. CASE c.pid = 0 \/ i = 0
  <2>1. SigSet(c, sig, handler) = Error(c) \/ SigSet(c, sig, handler) = Nothing(c)
    BY <1>1 DEF SigSet
  <2> QED BY <2>1, NothingGood
<1>2. CASE c.pid # 0 /\ i # 0
  <2>1. i \in DOMAIN processes /\ processes[i] \in Process
    BY <1>2, Entries
  <2>2. SigSet(c, sig, handler) = Change(c, i, q)
    BY <1>2 DEF SigSet
  <2> HIDE DEF i
  <2>3. handler \in Handlers
    BY KernelAssumption DEF Handlers
  <2>4. q \in Process /\ Like(processes[i], q) /\ StaysHalted("SIGSET", c.pid, processes[i], q)
    BY <2>1, <2>3 DEF Process, Like, StaysHalted, is_halted
  <2> QED BY <2>1, <2>2, <2>4, ChangeGood
<1> QED BY <1>1, <1>2

LEMMA MsgSndGood ==
    ASSUME TableInv, NEW c, ContextTyped(c), NEW target
    PROVE  Good("MSGSND", c, MsgSnd(c, target))
<1> DEFINE i == First(LiveWithPid(target))
<1>1. CASE i = 0 \/ (i # 0 /\ processes[i].msgs >= MAX_MESSAGES)
  BY <1>1, NothingGood DEF MsgSnd
<1>2. CASE ~(i = 0 \/ (i # 0 /\ processes[i].msgs >= MAX_MESSAGES))
  <2>1. i \in DOMAIN processes /\ processes[i] \in Process /\ ~is_halted(processes[i])
    BY <1>2, Entries
  <2> DEFINE p == processes[i]
             n == p.msgs + 1
             st == IF p.state = "Blocked" THEN "Ready" ELSE p.state
  <2>2. MsgSnd(c, target) = Change(c, i, Delivered(p))
    BY <1>2 DEF MsgSnd
  <2>3. ~(p.msgs >= MAX_MESSAGES)
    BY <1>2
  <2> HIDE DEF i
  <2>4. n \in 0 .. MAX_MESSAGES
    BY <2>1, <2>3, KernelAssumption DEF Process
  <2>5. st \in {"Ready", "Blocked", "Zombie", "Stopped"}
    BY <2>1 DEF Process
  <2>6. Delivered(p) = [p EXCEPT !.msgs = n, !.state = st]
    BY <2>1 DEF Delivered, Process
  <2> HIDE DEF n, st
  <2>7. /\ Delivered(p) \in Process /\ Like(p, Delivered(p))
        /\ StaysHalted("MSGSND", c.pid, p, Delivered(p))
    BY <2>1, <2>4, <2>5, <2>6 DEF Process, Like, StaysHalted
  <2> QED BY <2>1, <2>2, <2>7, ChangeGood
<1> QED BY <1>1, <1>2

LEMMA MsgRcvGood ==
    ASSUME TableInv, NEW c, ContextTyped(c)
    PROVE  Good("MSGRCV", c, MsgRcv(c))
<1> DEFINE i == First(WithPid(c.pid))
           less == [processes[i] EXCEPT !.msgs = @ - 1]
           stuck == [processes[i] EXCEPT !.state = "Blocked"]
<1>1. CASE c.pid = 0 \/ i = 0
  <2>1. MsgRcv(c) = Error(c) \/ MsgRcv(c) = Nothing(c)
    BY <1>1 DEF MsgRcv
  <2> QED BY <2>1, NothingGood
<1>2. CASE c.pid # 0 /\ i # 0
  <2>1. i \in DOMAIN processes /\ processes[i] \in Process /\ processes[i].pid = c.pid
    BY <1>2, Entries
  <2>2. CASE processes[i].msgs > 0
    <3>1. MsgRcv(c) = Change(c, i, less)
      BY <1>2, <2>2 DEF MsgRcv
    <3> HIDE DEF i
    <3>2. less = [processes[i] EXCEPT !.msgs = processes[i].msgs - 1]
      OBVIOUS
    <3>3. processes[i].msgs - 1 \in 0 .. MAX_MESSAGES
      BY <2>1, <2>2, KernelAssumption DEF Process
    <3>4. /\ less \in Process /\ Like(processes[i], less)
          /\ StaysHalted("MSGRCV", c.pid, processes[i], less)
      BY <2>1, <3>2, <3>3 DEF Process, Like, StaysHalted, is_halted
    <3> QED BY <2>1, <3>1, <3>4, ChangeGood
  <2>3. CASE ~(processes[i].msgs > 0)
    <3>1. MsgRcv(c) = Change(c, i, stuck)
      BY <1>2, <2>3 DEF MsgRcv
    <3> HIDE DEF i
    <3>2. /\ stuck \in Process /\ Like(processes[i], stuck)
          /\ StaysHalted("MSGRCV", c.pid, processes[i], stuck)
      BY <2>1 DEF Process, Like, StaysHalted, is_halted
    <3> QED BY <2>1, <3>1, <3>2, ChangeGood
  <2> QED BY <2>2, <2>3
<1> QED BY <1>1, <1>2

LEMMA SyscallGood ==
    ASSUME TableInv, NEW c, ContextTyped(c), Len(c.stack) < MaxNest
    PROVE  Good("SYSCALL", c, Syscall(c))
<1>1. Syscall(c).table = processes
  BY DEF Syscall, Nothing
<1>2. Append(c.stack, c.mode) \in Seq(Modes) /\ Len(Append(c.stack, c.mode)) <= MaxNest
  BY KernelAssumption DEF ContextTyped
<1>3. EffectTyped(Syscall(c))
  BY <1>2, KernelAssumption DEF EffectTyped, ContextTyped, Syscall, Nothing, NoExit, Modes
<1> QED BY <1>1, <1>3, SameFollows DEF Good

LEMMA RetKGood ==
    ASSUME TableInv, NEW c, ContextTyped(c)
    PROVE  Good("RETK", c, RetK(c))
<1>1. CASE c.stack = << >>
  BY <1>1, NothingGood DEF RetK
<1>2. CASE c.stack # << >>
  <2> DEFINE top == c.stack[Len(c.stack)]
             rest == SubSeq(c.stack, 1, Len(c.stack) - 1)
  <2>1. /\ RetK(c) = [Nothing(c) EXCEPT !.mode = top, !.stack = rest]
        /\ c.stack \in Seq(Modes) /\ Len(c.stack) \in Nat /\ Len(c.stack) # 0
        /\ Len(c.stack) <= MaxNest
    BY <1>2 DEF RetK, ContextTyped
  <2>2. top \in Modes /\ rest \in Seq(Modes) /\ Len(rest) <= MaxNest
    BY <2>1, KernelAssumption
  <2> HIDE DEF top, rest
  <2>3. RetK(c).table = processes
    BY <2>1 DEF Nothing
  <2>4. EffectTyped(RetK(c))
    BY <2>1, <2>2, KernelAssumption DEF EffectTyped, ContextTyped, Nothing, NoExit
  <2> QED BY <2>3, <2>4, SameFollows DEF Good
<1> QED BY <1>1, <1>2

LEMMA ShutdownGood ==
    ASSUME TableInv, NEW c, ContextTyped(c)
    PROVE  Good("SHUTDOWN", c, Shutdown(c))
<1> DEFINE t == [i \in DOMAIN processes |-> [processes[i] EXCEPT !.state = "Zombie"]]
<1>1. CASE c.mode # "Kernel"
  BY <1>1, NothingGood DEF Shutdown
<1>2. CASE c.mode = "Kernel"
  <2>1. Shutdown(c) = [Halt(c) EXCEPT !.table = t, !.shutdown = TRUE]
    BY <1>2 DEF Shutdown
  <2>2. Follows("SHUTDOWN", c.pid, t)
    BY ZombiesFollow
  <2> HIDE DEF t
  <2>3. Shutdown(c).table = t
    BY <2>1 DEF Halt, Nothing
  <2>4. EffectTyped(Shutdown(c))
    BY <2>1, KernelAssumption DEF EffectTyped, ContextTyped, Halt, Nothing, NoExit
  <2> QED BY <2>2, <2>3, <2>4 DEF Good
<1> QED BY <1>1, <1>2

LEMMA SleepGood ==
    ASSUME TableInv, NEW c, ContextTyped(c), NEW n \in 0 .. MaxSleep
    PROVE  Good("SLEEP", c, [Nothing(c) EXCEPT !.sleep_frames = n])
<1>1. [Nothing(c) EXCEPT !.sleep_frames = n].table = processes
  BY DEF Nothing
<1>2. EffectTyped([Nothing(c) EXCEPT !.sleep_frames = n])
  BY DEF EffectTyped, ContextTyped, Nothing, NoExit
<1> QED BY <1>1, <1>2, SameFollows DEF Good

LEMMA SetPriorityGood ==
    ASSUME TableInv, NEW c, ContextTyped(c), NEW n \in PriorityArgs
    PROVE  Good("SETPRIORITY", c, [Nothing(c) EXCEPT !.new_priority = IF n > 3 THEN 3 ELSE n])
<1> DEFINE k == IF n > 3 THEN 3 ELSE n
           e == [Nothing(c) EXCEPT !.new_priority = k]
<1>1. k \in 0 .. 3
  BY KernelAssumption
<1> HIDE DEF k
<1>2. e.table = processes
  BY DEF Nothing
<1>3. EffectTyped(e)
  BY <1>1, KernelAssumption DEF EffectTyped, ContextTyped, Nothing, NoExit
<1> QED BY <1>2, <1>3, SameFollows DEF Good, k

(* Every effect of every opcode. *)
LEMMA EffectsGood ==
    ASSUME TableInv, NEW c, ContextTyped(c), NEW op \in Opcodes, NEW e \in Effects(op, c)
    PROVE  Good(op, c, e)
<1>1. CASE op = "NOP"
  <2>1. e = Nothing(c)
    BY <1>1 DEF Effects
  <2>2. Good(op, c, Nothing(c))
    BY NothingGood
  <2> QED BY <2>1, <2>2
<1>2. CASE op = "HALT"
  <2>1. e = Halt(c)
    BY <1>2 DEF Effects
  <2>2. Good(op, c, Halt(c))
    BY NothingGood
  <2> QED BY <2>1, <2>2
<1>3. CASE op = "SEGFAULT"
  <2>1. e = Segfault(c)
    BY <1>3 DEF Effects
  <2>2. Good(op, c, Segfault(c))
    BY NothingGood
  <2> QED BY <2>1, <2>2
<1>4. CASE op = "SPAWN"
  <2>1. \E room \in SpawnRoom : e = Spawn(c)
    BY <1>4 DEF Effects
  <2>2. Active >= MAX_PROCESSES \/ FreshIds # {}
    BY <2>1 DEF SpawnRoom
  <2> QED BY <1>4, <2>1, <2>2, SpawnGood
<1>5. CASE op = "KILL"
  BY <1>5, KillGood DEF Effects
<1>6. CASE op = "WAITPID"
  BY <1>6, WaitPidGood DEF Effects
<1>7. CASE op = "EXIT"
  BY <1>7, ExitGood DEF Effects
<1>8. CASE op = "SIGNAL"
  BY <1>8, SignalGood DEF Effects
<1>9. CASE op = "SIGSET"
  BY <1>9, SigSetGood DEF Effects
<1>10. CASE op = "MSGSND"
  BY <1>10, MsgSndGood DEF Effects
<1>11. CASE op = "MSGRCV"
  BY <1>11, MsgRcvGood DEF Effects
<1>12. CASE op = "SYSCALL"
  <2>1. PICK depth \in Len(c.stack) .. MaxNest - 1 : e = Syscall(c)
    BY <1>12 DEF Effects
  <2>2. Len(c.stack) < MaxNest
    BY <2>1, KernelAssumption DEF ContextTyped
  <2> QED BY <1>12, <2>1, <2>2, SyscallGood
<1>13. CASE op = "RETK"
  BY <1>13, RetKGood DEF Effects
<1>14. CASE op = "SHUTDOWN"
  BY <1>14, ShutdownGood DEF Effects
<1>15. CASE op = "YIELD"
  <2>1. e = [Nothing(c) EXCEPT !.yielded = TRUE]
    BY <1>15 DEF Effects
  <2>2. Good(op, c, [Nothing(c) EXCEPT !.yielded = TRUE])
    BY NothingGood
  <2> QED BY <2>1, <2>2
<1>16. CASE op = "SLEEP"
  BY <1>16, SleepGood DEF Effects
<1>17. CASE op = "SETPRIORITY"
  BY <1>17, SetPriorityGood DEF Effects
<1> QED BY <1>1, <1>2, <1>3, <1>4, <1>5, <1>6, <1>7, <1>8, <1>9, <1>10, <1>11, <1>12,
           <1>13, <1>14, <1>15, <1>16, <1>17 DEF Opcodes
-----------------------------------------------------------------------------
(* The scheduler's operators. *)

(* What Tick, Refill and the waking of a process keep of an entry.         *)
SameRow(p, q) ==
    /\ q.id = p.id /\ q.pid = p.pid /\ q.state = p.state
    /\ q.segfaulted = p.segfaulted /\ q.exit_code = p.exit_code

Quiet(s) == \A i \in DOMAIN s : Sleeping(s[i]) => s[i].slice_remaining = 0

(* t is s with other slices and sleeps. *)
SameRows(s, t) ==
    /\ t \in Seq(Process) /\ DOMAIN t = DOMAIN s
    /\ \A i \in DOMAIN s : SameRow(s[i], t[i])

LEMMA RowsKept ==
    ASSUME NEW s \in Seq(Process), NEW t, SameRows(s, t)
    PROVE  IdsOf(t) = IdsOf(s) /\ (Distinct(s) => Distinct(t))
<1>1. DOMAIN t = DOMAIN s /\ \A i \in DOMAIN s : t[i].id = s[i].id
  BY DEF SameRows, SameRow
<1> QED BY <1>1 DEF IdsOf, Distinct

LEMMA MapTyped ==
    ASSUME NEW s \in Seq(Process), NEW t, DOMAIN t = DOMAIN s,
           t = [i \in DOMAIN s |-> t[i]], \A i \in DOMAIN s : t[i] \in Process
    PROVE  t \in Seq(Process)
<1>1. Len(s) \in Nat /\ DOMAIN s = 1 .. Len(s)
  OBVIOUS
<1>2. t \in [1 .. Len(s) -> Process]
  BY <1>1
<1> QED BY <1>1, <1>2

LEMMA TickRows ==
    ASSUME NEW s \in Seq(Process)
    PROVE  SameRows(s, Tick(s)) /\ (Quiet(s) => Quiet(Tick(s)))
<1> DEFINE t == Tick(s)
<1>1. t = [i \in DOMAIN s |-> [s[i] EXCEPT !.sleep = IF @ > 0 THEN @ - 1 ELSE @]]
  BY DEF Tick
<1>2. ASSUME NEW i \in DOMAIN s
      PROVE  /\ t[i] \in Process /\ SameRow(s[i], t[i])
             /\ t[i].slice_remaining = s[i].slice_remaining
             /\ Sleeping(t[i]) => Sleeping(s[i])
  <2> DEFINE n == IF s[i].sleep > 0 THEN s[i].sleep - 1 ELSE s[i].sleep
  <2>1. s[i] \in Process /\ s[i].sleep \in {Awake} \cup 0 .. MaxSleep
    <3>1. s[i] \in Process
      OBVIOUS
    <3> QED BY <3>1 DEF Process
  <2>2. n \in {Awake} \cup 0 .. MaxSleep /\ (n > 0 => s[i].sleep > 0)
    BY <2>1, KernelAssumption DEF Awake
  <2>3. t[i] = [s[i] EXCEPT !.sleep = n]
    BY <1>1
  <2> HIDE DEF n, t
  <2> QED BY <2>1, <2>2, <2>3 DEF Process, SameRow, Sleeping
<1>3. DOMAIN t = DOMAIN s /\ t = [i \in DOMAIN s |-> t[i]]
  BY <1>1
<1> HIDE DEF t
<1>4. t \in Seq(Process)
  BY <1>2, <1>3, MapTyped
<1> QED BY <1>2, <1>3, <1>4 DEF SameRows, Quiet, t

LEMMA RefillRows ==
    ASSUME NEW s \in Seq(Process)
    PROVE  SameRows(s, Refill(s)) /\ (Quiet(s) => Quiet(Refill(s)))
<1> DEFINE t == Refill(s)
           full(p) == default_time_slice * 2 ^ p.priority
<1>1. t = [i \in DOMAIN s |-> IF is_halted(s[i]) \/ Sleeping(s[i]) THEN s[i]
                              ELSE [s[i] EXCEPT !.slice_remaining = full(s[i])]]
  BY DEF Refill
<1>2. ASSUME NEW i \in DOMAIN s
      PROVE  /\ t[i] \in Process /\ SameRow(s[i], t[i]) /\ t[i].sleep = s[i].sleep
             /\ Sleeping(s[i]) => t[i] = s[i]
  <2> DEFINE n == full(s[i])
  <2>1. s[i] \in Process /\ s[i].priority \in 0 .. 3
    <3>1. s[i] \in Process
      OBVIOUS
    <3> QED BY <3>1 DEF Process
  <2>2. n \in Nat
    <3>1. \/ s[i].priority = 0 \/ s[i].priority = 1 \/ s[i].priority = 2
          \/ s[i].priority = 3
      BY <2>1
    <3>2. 2 ^ 0 \in Nat /\ 2 ^ 1 \in Nat /\ 2 ^ 2 \in Nat /\ 2 ^ 3 \in Nat
      OBVIOUS
    <3>3. 2 ^ s[i].priority \in Nat
      BY <3>1, <3>2
    <3> QED BY <3>3, KernelAssumption
  <2>3. t[i] = IF is_halted(s[i]) \/ Sleeping(s[i]) THEN s[i]
               ELSE [s[i] EXCEPT !.slice_remaining = n]
    BY <1>1
  <2> HIDE DEF n, t
  <2> QED BY ZenonT(60), <2>1, <2>2, <2>3 DEF Process, SameRow
<1>3. DOMAIN t = DOMAIN s /\ t = [i \in DOMAIN s |-> t[i]]
  BY <1>1
<1> HIDE DEF t
<1>4. t \in Seq(Process)
  BY <1>2, <1>3, MapTyped
<1> QED BY <1>2, <1>3, <1>4 DEF SameRows, Quiet, Sleeping, t

(* A pass visits indices of the table. *)
LEMMA PassOrderTyped ==
    ASSUME NEW ps \in Seq(Process)
    PROVE  PassOrder(ps) \in Seq(DOMAIN ps)
<1> DEFINE D == DOMAIN ps
           R == {ss \in D \X D : Before(ps, ss[1], ss[2])}
           o == PassOrder(ps)
<1>1. Len(ps) \in Nat /\ D = 1 .. Len(ps)
  OBVIOUS
<1>2. IsFiniteSet(D) /\ Cardinality(D) = Len(ps)
  <2>1. 1 \in Int /\ Len(ps) \in Int /\ (IF 1 > Len(ps) THEN 0 ELSE Len(ps) - 1 + 1) = Len(ps)
    BY <1>1
  <2> HIDE DEF D
  <2> QED BY <1>1, <2>1, FS_Interval
<1>3. \A i \in D : ps[i].priority \in Int /\ i \in Int
  <2>1. \A i \in D : ps[i] \in Process
    OBVIOUS
  <2> HIDE DEF R, o
  <2> QED BY <2>1, <1>1 DEF Process
<1>4. \A i, j \in D : <<i, j>> \in R <=> Before(ps, i, j)
  OBVIOUS
<1> HIDE DEF R, D
<1>5. /\ \A i \in D : <<i, i>> \notin R
      /\ \A i, j, k \in D : <<i, j>> \in R /\ <<j, k>> \in R => <<i, k>> \in R
      /\ \A i, j \in D : i # j => <<i, j>> \in R \/ <<j, i>> \in R
  BY SMTT(30), <1>3, <1>4 DEF Before
<1>6. \A k \in 1 .. Len(ps) : \E i \in D : Cardinality({j \in D : <<j, i>> \in R}) = k - 1
  <2>1. /\ Cardinality(D) \in Nat
        /\ \A k \in 1 .. Cardinality(D) :
              \E i \in D : Cardinality({j \in D : <<j, i>> \in R}) = k - 1
        /\ \A i, l \in D :
              Cardinality({j \in D : <<j, i>> \in R}) = Cardinality({j \in D : <<j, l>> \in R})
                => i = l
    BY <1>2, <1>5, RanksOnto
  <2> QED BY <1>2, <2>1
<1>7. \A i \in D : {j \in D : <<j, i>> \in R} = {j \in D : Before(ps, j, i)}
  BY <1>4
<1>8. \A k \in D : \E i \in D : Cardinality({j \in D : Before(ps, j, i)}) = k - 1
  BY ZenonT(60), <1>1, <1>6, <1>7
<1>9. o = [k \in D |-> CHOOSE i \in D : Cardinality({j \in D : Before(ps, j, i)}) = k - 1]
  BY DEF PassOrder, D
<1>10. o \in [D -> D]
  BY <1>8, <1>9
<1> QED BY <1>1, <1>10 DEF D

(* A table joined from two. *)
LEMMA Joined ==
    ASSUME NEW s \in Seq(Process), NEW t \in Seq(Process)
    PROVE  /\ s \o t \in Seq(Process) /\ Len(s) \in Nat
           /\ DOMAIN (s \o t) = 1 .. Len(s) + Len(t)
           /\ \A i \in DOMAIN s : i \in DOMAIN (s \o t) /\ (s \o t)[i] = s[i]
           /\ \A i \in DOMAIN t :
                 Len(s) + i \in DOMAIN (s \o t) /\ (s \o t)[Len(s) + i] = t[i]
           /\ \A k \in DOMAIN (s \o t) :
                 \/ k \in DOMAIN s
                 \/ k - Len(s) \in DOMAIN t /\ (s \o t)[k] = t[k - Len(s)]
OBVIOUS

Rows(s) == {s[i] : i \in DOMAIN s}

LEMMA JoinedRows ==
    ASSUME NEW s \in Seq(Process), NEW t \in Seq(Process)
    PROVE  /\ Rows(s \o t) = Rows(s) \cup Rows(t)
           /\ IdsOf(s \o t) = IdsOf(s) \cup IdsOf(t)
           /\ Quiet(s \o t) <=> Quiet(s) /\ Quiet(t)
           /\ Distinct(s) /\ Distinct(t) /\ IdsOf(s) \cap IdsOf(t) = {} => Distinct(s \o t)
<1> DEFINE u == s \o t
<1>1. /\ \A i \in DOMAIN s : i \in DOMAIN u /\ u[i] = s[i]
      /\ \A i \in DOMAIN t : Len(s) + i \in DOMAIN u /\ u[Len(s) + i] = t[i]
      /\ \A k \in DOMAIN u :
            \/ k \in DOMAIN s
            \/ k - Len(s) \in DOMAIN t /\ u[k] = t[k - Len(s)]
  BY Joined
<1>2. DOMAIN u \in SUBSET Int /\ Len(s) \in Int
  BY Joined
<1> HIDE DEF u
<1>3. Rows(u) = Rows(s) \cup Rows(t)
  BY <1>1 DEF Rows
<1>4. IdsOf(u) = IdsOf(s) \cup IdsOf(t)
  BY <1>1 DEF IdsOf
<1>5. Quiet(u) <=> Quiet(s) /\ Quiet(t)
  BY <1>1 DEF Quiet
<1>6. ASSUME Distinct(s), Distinct(t), IdsOf(s) \cap IdsOf(t) = {} PROVE Distinct(u)
  <2> SUFFICES ASSUME NEW i \in DOMAIN u, NEW j \in DOMAIN u, u[i].id = u[j].id
               PROVE  i = j
    BY DEF Distinct
  <2>1. CASE i \in DOMAIN s /\ j \in DOMAIN s
    BY <1>1, <1>6, <2>1 DEF Distinct
  <2>2. CASE i \in DOMAIN s /\ j \notin DOMAIN s
    <3>1. u[i].id \in IdsOf(s) /\ u[j].id \in IdsOf(t)
      BY <1>1, <2>2 DEF IdsOf
    <3> QED BY <3>1, <1>6
  <2>3. CASE i \notin DOMAIN s /\ j \in DOMAIN s
    <3>1. u[i].id \in IdsOf(t) /\ u[j].id \in IdsOf(s)
      BY <1>1, <2>3 DEF IdsOf
    <3> QED BY <3>1, <1>6
  <2>4. CASE i \notin DOMAIN s /\ j \notin DOMAIN s
    <3>1. i - Len(s) = j - Len(s)
      BY <1>1, <1>6, <2>4 DEF Distinct
    <3> QED BY <3>1, <1>2
  <2> QED BY <2>1, <2>2, <2>3, <2>4
<1> QED BY <1>3, <1>4, <1>5, <1>6 DEF u
-----------------------------------------------------------------------------
(* The inductive invariant: the table is in one of two places, and an id   *)
(* names one entry of it.                                                  *)
KernelInv ==
    /\ TypeOK
    /\ TableInv
    /\ Quiet(processes) /\ Quiet(procs)
    /\ phase # "pass" => procs = << >> /\ order = << >>

(* The table an opcode leaves fits beside the vector of the pass.          *)
LEMMA FollowsFits ==
    ASSUME TableInv, Quiet(processes), NEW op, NEW pid, NEW t, Follows(op, pid, t)
    PROVE  Quiet(t) /\ IdsOf(t) \cap IdsOf(procs) = {}
<1>1. ASSUME NEW k \in DOMAIN t
      PROVE  \/ t[k].id \in FreshIds /\ t[k].sleep = Awake
             \/ \E i \in DOMAIN processes : Like(processes[i], t[k])
  BY DEF Follows
<1>2. Quiet(t)
  BY <1>1 DEF Quiet, Sleeping, Like, Awake
<1>3. ASSUME NEW k \in DOMAIN t PROVE t[k].id \notin IdsOf(procs)
  <2>1. CASE t[k].id \in FreshIds
    BY <2>1 DEF FreshIds, IdsOf
  <2>2. CASE \E i \in DOMAIN processes : Like(processes[i], t[k])
    <3>1. t[k].id \in IdsOf(processes)
      BY <2>2 DEF Like, IdsOf
    <3> QED BY <3>1 DEF TableInv
  <2> QED BY <1>1, <2>1, <2>2
<1>4. IdsOf(t) \cap IdsOf(procs) = {}
  BY <1>3 DEF IdsOf
<1> QED BY <1>2, <1>4

LEMMA SaveBackTyped ==
    ASSUME NEW p \in Process, Eligible(p), NEW e, EffectTyped(e)
    PROVE  /\ SaveBack(p, e) \in Process
           /\ SaveBack(p, e).id = p.id /\ SaveBack(p, e).pid = p.pid
           /\ Sleeping(SaveBack(p, e)) => SaveBack(p, e).slice_remaining = 0
<1> DEFINE st == IF e.halted \/ e.segfault THEN "Zombie" ELSE "Ready"
           code == IF e.exit # NoExit THEN e.exit ELSE p.exit_code
           rest == IF e.yielded \/ e.sleep_frames > 0 THEN 0 ELSE p.slice_remaining - 1
           nap == IF e.sleep_frames > 0 THEN e.sleep_frames ELSE p.sleep
<1>1. SaveBack(p, e) =
        [p EXCEPT !.state = st, !.mode = e.mode, !.segfaulted = e.segfault,
                  !.exit_code = code, !.priority = e.new_priority,
                  !.slice_remaining = rest, !.sleep = nap]
  BY DEF SaveBack, Process
<1>2. st \in {"Ready", "Blocked", "Zombie", "Stopped"}
  OBVIOUS
<1>3. code \in Nat
  BY DEF EffectTyped, Process
<1>4. rest \in Nat
  BY DEF Eligible, Process
<1>5. nap \in {Awake} \cup 0 .. MaxSleep /\ (nap > 0 => rest = 0)
  BY KernelAssumption DEF Eligible, EffectTyped, Awake
<1> HIDE DEF st, code, rest, nap
<1> QED BY ZenonT(60), <1>1, <1>2, <1>3, <1>4, <1>5 DEF Process, EffectTyped, Sleeping, Modes

(* The vector after a child's instruction.                                 *)
LEMMA ChildRows ==
    ASSUME procs \in Seq(Process), Quiet(procs), NEW i \in DOMAIN procs, Eligible(procs[i]),
           NEW e, EffectTyped(e)
    PROVE  LET np == [Tick(procs) EXCEPT ![i] = SaveBack(procs[i], e)]
           IN  /\ np \in Seq(Process) /\ DOMAIN np = DOMAIN procs /\ Quiet(np)
               /\ \A k \in DOMAIN procs :
                     /\ np[k].id = procs[k].id /\ np[k].pid = procs[k].pid
                     /\ k # i => SameRow(procs[k], np[k])
<1> DEFINE q == SaveBack(procs[i], e)
           t == Tick(procs)
           np == [t EXCEPT ![i] = q]
<1>1. procs[i] \in Process
  OBVIOUS
<1>2. /\ q \in Process /\ q.id = procs[i].id /\ q.pid = procs[i].pid
      /\ Sleeping(q) => q.slice_remaining = 0
  BY <1>1, SaveBackTyped
<1>3. SameRows(procs, t) /\ Quiet(t)
  BY TickRows
<1> HIDE DEF q, t
<1>4. /\ t \in Seq(Process) /\ DOMAIN t = DOMAIN procs
      /\ \A k \in DOMAIN procs : SameRow(procs[k], t[k])
  BY <1>3 DEF SameRows
<1>5. /\ np \in Seq(Process) /\ DOMAIN np = DOMAIN procs /\ np[i] = q
      /\ \A k \in DOMAIN procs \ {i} : np[k] = t[k]
  BY <1>2, <1>4
<1> HIDE DEF np
<1>6. Quiet(np)
  BY <1>2, <1>3, <1>4, <1>5 DEF Quiet
<1>7. \A k \in DOMAIN procs :
          /\ np[k].id = procs[k].id /\ np[k].pid = procs[k].pid
          /\ k # i => SameRow(procs[k], np[k])
  BY <1>2, <1>4, <1>5 DEF SameRow
<1> QED BY <1>5, <1>6, <1>7 DEF np, t, q

LEMMA SkipRows ==
    ASSUME procs \in Seq(Process), Quiet(procs), NEW i \in DOMAIN procs
    PROVE  LET np == [procs EXCEPT ![i] =
                         IF Waking(@) THEN [@ EXCEPT !.sleep = Awake, !.slice_remaining = 0]
                         ELSE @]
           IN  SameRows(procs, np) /\ Quiet(np)
<1> DEFINE q == IF Waking(procs[i])
                THEN [procs[i] EXCEPT !.sleep = Awake, !.slice_remaining = 0] ELSE procs[i]
           np == [procs EXCEPT ![i] = q]
<1>1. procs[i] \in Process
  OBVIOUS
<1>2. q \in Process /\ SameRow(procs[i], q)
  BY <1>1 DEF Process, SameRow
<1>3. Sleeping(q) => q.slice_remaining = 0
  BY <1>1 DEF Quiet, Sleeping, Process, Awake
<1> HIDE DEF q
<1>4. /\ np \in Seq(Process) /\ DOMAIN np = DOMAIN procs /\ np[i] = q
      /\ \A k \in DOMAIN procs \ {i} : np[k] = procs[k]
  BY <1>2
<1> HIDE DEF np
<1>5. SameRows(procs, np)
  BY <1>2, <1>4 DEF SameRows, SameRow
<1>6. Quiet(np)
  BY <1>3, <1>4 DEF Quiet
<1> QED BY <1>5, <1>6 DEF np, q

LEMMA EmptyTable ==
    /\ << >> \in Seq(Process) /\ Distinct(<< >>) /\ IdsOf(<< >>) = {} /\ Quiet(<< >>)
    /\ Rows(<< >>) = {}
BY DEF Distinct, IdsOf, Quiet, Rows

LEMMA KernelStarts == Init => KernelInv
<1> SUFFICES ASSUME Init PROVE KernelInv
  OBVIOUS
<1>1. TypeOK
  <2>1. event \in [who : 0 .. MaxTable, op : MainOps \cup ChildOps \cup {"NOP"}, ok : BOOLEAN]
    BY KernelAssumption DEF Init, NoEvent
  <2>2. << >> \in Seq(Process) /\ << >> \in Seq({"User", "Kernel"}) /\ Len(<< >>) <= MaxNest
    BY KernelAssumption
  <2>3. << >> \in Seq(DOMAIN procs)
    OBVIOUS
  <2> QED BY <2>1, <2>2, <2>3 DEF Init, TypeOK
<1> QED BY <1>1, EmptyTable DEF Init, KernelInv, TableInv

LEMMA VisitTyped ==
    ASSUME NEW S, NEW o \in Seq(S), o # << >>
    PROVE  Head(o) \in S /\ Tail(o) \in Seq(S)
OBVIOUS

MainContext == [pid |-> 0, mode |-> mode, priority |-> 0, stack |-> kernel_stack]
ChildContext(p) == [pid |-> p.pid, mode |-> p.mode, priority |-> p.priority, stack |-> << >>]

LEMMA MainEffects ==
    ASSUME KernelInv, NEW op \in MainOps, NEW e \in Effects(op, MainContext)
    PROVE  EffectTyped(e) /\ Follows(op, 0, e.table)
<1>1. ContextTyped(MainContext) /\ MainContext.pid = 0
  BY KernelAssumption DEF KernelInv, TypeOK, ContextTyped, MainContext, Modes
<1>2. op \in Opcodes /\ TableInv
  BY KernelAssumption DEF KernelInv
<1> QED BY <1>1, <1>2, EffectsGood DEF Good

LEMMA ChildEffects ==
    ASSUME KernelInv, NEW p \in Process, NEW op \in ChildOps, NEW e \in Effects(op, ChildContext(p))
    PROVE  EffectTyped(e) /\ Follows(op, p.pid, e.table)
<1>1. ContextTyped(ChildContext(p)) /\ ChildContext(p).pid = p.pid
  <2>1. /\ ChildContext(p).pid = p.pid /\ ChildContext(p).mode = p.mode
        /\ ChildContext(p).priority = p.priority /\ ChildContext(p).stack = << >>
    BY DEF ChildContext
  <2>2. p.pid \in 0 .. MaxTable + 1 /\ p.mode \in Modes /\ p.priority \in 0 .. 3
    BY KernelAssumption DEF Process, Pids, Modes
  <2>3. << >> \in Seq(Modes) /\ Len(<< >>) <= MaxNest
    BY KernelAssumption
  <2> QED BY <2>1, <2>2, <2>3 DEF ContextTyped
<1>2. op \in Opcodes /\ TableInv
  BY KernelAssumption DEF KernelInv
<1> QED BY <1>1, <1>2, EffectsGood DEF Good

LEMMA RunMainKeeps ==
    ASSUME KernelInv, NEW op \in MainOps, RunMain(op)
    PROVE  KernelInv'
<1>1. PICK e \in Effects(op, MainContext) :
        /\ processes' = e.table /\ mode' = e.mode /\ kernel_stack' = e.stack
        /\ shutdown_requested' = (shutdown_requested \/ e.shutdown)
        /\ main_halted' = e.halted
        /\ phase' = IF e.halted /\ ~HasActiveApps THEN "off" ELSE "begin"
        /\ event' = [who |-> 0, op |-> op, ok |-> e.ok]
  BY DEF RunMain, MainContext
<1>2. EffectTyped(e) /\ Follows(op, 0, processes')
  BY <1>1, MainEffects
<1>3. procs = << >> /\ procs' = procs /\ order = << >> /\ order' = order
  BY DEF RunMain, KernelInv
<1>4. Quiet(processes') /\ IdsOf(processes') \cap IdsOf(procs) = {}
  BY <1>2, FollowsFits DEF KernelInv
<1>5. TypeOK'
  <2>1. processes' \in Seq(Process)
    BY <1>2 DEF Follows
  <2>2. /\ main_halted' \in BOOLEAN /\ mode' \in {"User", "Kernel"}
        /\ kernel_stack' \in Seq({"User", "Kernel"}) /\ Len(kernel_stack') <= MaxNest
        /\ shutdown_requested' \in BOOLEAN
    BY <1>1, <1>2 DEF EffectTyped, Modes, KernelInv, TypeOK
  <2>3. event' \in [who : 0 .. MaxTable, op : MainOps \cup ChildOps \cup {"NOP"}, ok : BOOLEAN]
    BY <1>1, <1>2, KernelAssumption DEF EffectTyped
  <2>4. phase' \in {"main", "begin", "pass", "off"}
    BY <1>1
  <2>5. procs' \in Seq(Process) /\ order' \in Seq(DOMAIN procs')
    BY <1>3
  <2> QED BY <2>1, <2>2, <2>3, <2>4, <2>5 DEF TypeOK
<1>6. TableInv'
  BY <1>2, <1>3, <1>4, EmptyTable DEF TableInv, Follows
<1> QED BY <1>3, <1>4, <1>5, <1>6, EmptyTable DEF KernelInv

LEMMA StepAllBeginKeeps ==
    ASSUME KernelInv, StepAllBegin
    PROVE  KernelInv' /\ SameRows(processes, procs')
<1> DEFINE ps == Tick(processes)
<1>1. /\ procs' = ps \/ procs' = Refill(ps)
      /\ order' = PassOrder(ps) /\ processes' = << >> /\ phase' = "pass"
      /\ event' = NoEvent /\ procs = << >>
      /\ UNCHANGED <<main_halted, mode, kernel_stack, shutdown_requested>>
  BY DEF StepAllBegin, KernelInv
<1>2. processes \in Seq(Process) /\ Quiet(processes) /\ Distinct(processes)
  BY DEF KernelInv, TableInv
<1>3. SameRows(processes, ps) /\ Quiet(ps)
  BY <1>2, TickRows
<1> HIDE DEF ps
<1>4. ps \in Seq(Process) /\ SameRows(ps, Refill(ps)) /\ Quiet(Refill(ps))
  BY <1>3, RefillRows DEF SameRows
<1>5. SameRows(processes, procs') /\ Quiet(procs')
  BY <1>1, <1>3, <1>4 DEF SameRows, SameRow
<1>6. Distinct(procs') /\ DOMAIN procs' = DOMAIN ps /\ procs' \in Seq(Process)
  BY <1>2, <1>3, <1>5, RowsKept DEF SameRows
<1>7. order' \in Seq(DOMAIN procs')
  BY <1>1, <1>4, <1>6, PassOrderTyped
<1>8. TypeOK'
  <2>1. event' \in [who : 0 .. MaxTable, op : MainOps \cup ChildOps \cup {"NOP"}, ok : BOOLEAN]
    BY <1>1, KernelAssumption DEF NoEvent
  <2> QED BY <1>1, <1>6, <1>7, <2>1, EmptyTable DEF TypeOK, KernelInv
<1>9. TableInv'
  BY <1>1, <1>6, EmptyTable DEF TableInv
<1> QED BY <1>1, <1>5, <1>8, <1>9, EmptyTable DEF KernelInv

LEMMA SkipChildKeeps ==
    ASSUME KernelInv, SkipChild
    PROVE  KernelInv' /\ SameRows(procs, procs')
<1>1. procs \in Seq(Process) /\ Quiet(procs) /\ Distinct(procs) /\ order \in Seq(DOMAIN procs)
  BY DEF KernelInv, TableInv, TypeOK
<1>2. order # << >> /\ order' = Tail(order) /\ phase = "pass"
  BY DEF SkipChild
<1>3. Head(order) \in DOMAIN procs /\ order' \in Seq(DOMAIN procs)
  BY <1>1, <1>2, VisitTyped
<1>4. SameRows(procs, procs') /\ Quiet(procs')
  BY <1>1, <1>3, SkipRows DEF SkipChild
<1>5. IdsOf(procs') = IdsOf(procs) /\ Distinct(procs')
  BY <1>1, <1>4, RowsKept
<1>6. procs' \in Seq(Process) /\ DOMAIN procs' = DOMAIN procs
  BY <1>4 DEF SameRows
<1>7. UNCHANGED <<processes, phase, main_halted, mode, kernel_stack, shutdown_requested, event>>
  BY DEF SkipChild
<1>8. TypeOK'
  BY <1>3, <1>6, <1>7 DEF TypeOK, KernelInv
<1>9. TableInv'
  BY <1>5, <1>6, <1>7 DEF TableInv, KernelInv
<1> QED BY <1>2, <1>4, <1>7, <1>8, <1>9 DEF KernelInv

(* What a child's instruction does to both tables.                         *)
LEMMA RunChildRows ==
    ASSUME KernelInv, NEW op \in ChildOps, RunChild(op)
    PROVE  \E i \in DOMAIN procs :
              /\ Eligible(procs[i]) /\ procs[i] \in Process
              /\ event'.who = procs[i].id /\ event'.op = op
              /\ procs' \in Seq(Process) /\ DOMAIN procs' = DOMAIN procs /\ Quiet(procs')
              /\ \A k \in DOMAIN procs :
                    /\ procs'[k].id = procs[k].id /\ procs'[k].pid = procs[k].pid
                    /\ k # i => SameRow(procs[k], procs'[k])
              /\ \E t : /\ Follows(op, procs[i].pid, t) /\ Quiet(t)
                        /\ IdsOf(t) \cap IdsOf(procs) = {}
                        /\ processes' = Tick(t)
              /\ TypeOK'
<1> DEFINE i == Head(order)
           p == procs[i]
<1>1. PICK e \in Effects(op, ChildContext(p)) :
        /\ procs' = [Tick(procs) EXCEPT ![i] = SaveBack(p, e)]
        /\ processes' = Tick(e.table)
        /\ shutdown_requested' = (shutdown_requested \/ e.shutdown)
        /\ event' = [who |-> p.id, op |-> op, ok |-> e.ok]
  BY DEF RunChild, ChildContext
<1>2. /\ phase = "pass" /\ order # << >> /\ Eligible(p) /\ order' = Tail(order)
      /\ UNCHANGED <<phase, main_halted, mode, kernel_stack>>
  BY DEF RunChild
<1>3. procs \in Seq(Process) /\ order \in Seq(DOMAIN procs) /\ Quiet(procs) /\ TableInv
  BY DEF KernelInv, TypeOK
<1>4. i \in DOMAIN procs /\ order' \in Seq(DOMAIN procs)
  BY <1>2, <1>3, VisitTyped
<1> HIDE DEF i
<1>5. p \in Process
  BY <1>3, <1>4
<1>6. EffectTyped(e) /\ Follows(op, p.pid, e.table)
  BY <1>1, <1>5, ChildEffects
<1>7. Quiet(e.table) /\ IdsOf(e.table) \cap IdsOf(procs) = {}
  BY <1>6, FollowsFits DEF KernelInv
<1>8. /\ procs' \in Seq(Process) /\ DOMAIN procs' = DOMAIN procs /\ Quiet(procs')
      /\ \A k \in DOMAIN procs :
            /\ procs'[k].id = procs[k].id /\ procs'[k].pid = procs[k].pid
            /\ k # i => SameRow(procs[k], procs'[k])
  BY <1>1, <1>2, <1>3, <1>4, <1>6, ChildRows
<1>9. TypeOK'
  <2>1. e.table \in Seq(Process)
    BY <1>6 DEF Follows
  <2>2. processes' \in Seq(Process)
    BY <1>1, <2>1, TickRows DEF SameRows
  <2>3. event' \in [who : 0 .. MaxTable, op : MainOps \cup ChildOps \cup {"NOP"}, ok : BOOLEAN]
    <3>1. p.id \in 0 .. MaxTable
      BY <1>5, KernelAssumption DEF Process, Ids
    <3> QED BY <1>1, <1>6, <3>1 DEF EffectTyped
  <2>4. shutdown_requested' \in BOOLEAN
    BY <1>1
  <2> QED BY <1>2, <1>4, <1>8, <2>2, <2>3, <2>4 DEF TypeOK, KernelInv
<1>10. event'.who = p.id /\ event'.op = op
  BY <1>1
<1> QED BY <1>1, <1>2, <1>4, <1>5, <1>6, <1>7, <1>8, <1>9, <1>10

LEMMA RunChildKeeps ==
    ASSUME KernelInv, NEW op \in ChildOps, RunChild(op)
    PROVE  KernelInv'
<1>1. PICK i \in DOMAIN procs :
        /\ procs' \in Seq(Process) /\ DOMAIN procs' = DOMAIN procs /\ Quiet(procs')
        /\ \A k \in DOMAIN procs : procs'[k].id = procs[k].id
        /\ \E t : /\ Follows(op, procs[i].pid, t) /\ Quiet(t)
                  /\ IdsOf(t) \cap IdsOf(procs) = {}
                  /\ processes' = Tick(t)
        /\ TypeOK'
  BY RunChildRows
<1>2. PICK t : /\ Follows(op, procs[i].pid, t) /\ Quiet(t)
               /\ IdsOf(t) \cap IdsOf(procs) = {}
               /\ processes' = Tick(t)
  BY <1>1
<1>3. t \in Seq(Process) /\ Distinct(t)
  BY <1>2 DEF Follows
<1>4. SameRows(t, processes') /\ Quiet(processes')
  BY <1>2, <1>3, TickRows
<1>5. IdsOf(processes') = IdsOf(t) /\ Distinct(processes') /\ processes' \in Seq(Process)
  BY <1>3, <1>4, RowsKept DEF SameRows
<1>6. IdsOf(procs') = IdsOf(procs) /\ Distinct(procs')
  BY SMTT(30), <1>1 DEF IdsOf, Distinct, KernelInv, TableInv
<1>7. TableInv'
  BY <1>1, <1>2, <1>5, <1>6 DEF TableInv
<1>8. phase' = "pass"
  BY DEF RunChild
<1> QED BY <1>1, <1>4, <1>7, <1>8 DEF KernelInv

LEMMA StepAllEndKeeps ==
    ASSUME KernelInv, StepAllEnd
    PROVE  KernelInv'
<1>1. /\ processes \in Seq(Process) /\ procs \in Seq(Process)
      /\ Quiet(procs) /\ Quiet(processes) /\ Distinct(procs) /\ Distinct(processes)
      /\ IdsOf(procs) \cap IdsOf(processes) = {}
  BY DEF KernelInv, TableInv
<1>2. /\ processes' = procs \o processes /\ procs' = << >> /\ order = << >>
      /\ phase' = IF main_halted THEN "begin" ELSE "main"
      /\ UNCHANGED <<order, main_halted, mode, kernel_stack, shutdown_requested, event>>
  BY DEF StepAllEnd
<1>3. /\ processes' \in Seq(Process) /\ Quiet(processes') /\ Distinct(processes')
  BY <1>1, <1>2, Joined, JoinedRows
<1>4. TypeOK'
  <2>1. << >> \in Seq(DOMAIN procs')
    OBVIOUS
  <2> QED BY <1>2, <1>3, <2>1, EmptyTable DEF TypeOK, KernelInv
<1>5. TableInv'
  BY <1>2, <1>3, EmptyTable DEF TableInv
<1> QED BY <1>2, <1>3, <1>4, <1>5, EmptyTable DEF KernelInv

LEMMA HostPollKeeps ==
    ASSUME KernelInv, HostPoll
    PROVE  KernelInv' /\ UNCHANGED <<processes, procs>>
<1>1. /\ phase # "pass" /\ phase' = "off"
      /\ UNCHANGED <<processes, procs, order, main_halted, mode, kernel_stack,
                     shutdown_requested, event>>
  BY DEF HostPoll
<1>2. TypeOK' /\ TableInv'
  BY <1>1 DEF KernelInv, TypeOK, TableInv
<1> QED BY <1>1, <1>2 DEF KernelInv

LEMMA StutterKeeps ==
    ASSUME KernelInv, UNCHANGED vars
    PROVE  KernelInv'
<1>1. TypeOK' /\ TableInv'
  BY DEF KernelInv, TypeOK, TableInv, vars
<1> QED BY <1>1 DEF KernelInv, vars

LEMMA KernelInductive == KernelInv /\ [Next]_vars => KernelInv'
BY RunMainKeeps, StepAllBeginKeeps, SkipChildKeeps, RunChildKeeps, StepAllEndKeeps,
   HostPollKeeps, StutterKeeps DEF Next, Off

LEMMA KernelAlways == Spec => []KernelInv
BY KernelStarts, KernelInductive, PTL DEF Spec

(* The whole table keeps its shape: what processes, slices, sleeps, queues,*)
(* the pass order and the kernel stack may hold, and the pid of a new      *)
(* child, whatever the programs execute.                                   *)
THEOREM TypeCorrect == Spec => []TypeOK
<1>1. KernelInv => TypeOK
  BY DEF KernelInv
<1> QED BY <1>1, KernelAlways, PTL

(* A process that sleeps holds no part of a slice, in any system.          *)
THEOREM SleepersIdle == Spec => []SleepersHoldNoSlice
<1>1. KernelInv => SleepersHoldNoSlice
  <2> SUFFICES ASSUME KernelInv PROVE SleepersHoldNoSlice
    OBVIOUS
  <2>1. Quiet(processes \o procs)
    BY JoinedRows DEF KernelInv, TableInv
  <2> QED BY <2>1 DEF SleepersHoldNoSlice, Quiet, Table
<1> QED BY <1>1, KernelAlways, PTL
-----------------------------------------------------------------------------
(* Without reaping and without children that spawn, a pid is the place of  *)
(* its process in the table.                                               *)
Numbered(s) == \A i \in DOMAIN s : s[i].pid = i

NumberInv ==
    /\ KernelInv
    /\ Numbered(processes) /\ Numbered(procs)
    /\ processes = << >> \/ procs = << >>
    /\ phase = "pass" => processes = << >>

LEMMA RowsNumbered ==
    ASSUME NEW s, NEW t, SameRows(s, t)
    PROVE  Numbered(s) => Numbered(t)
BY DEF SameRows, SameRow, Numbered

LEMMA FollowsNumbered ==
    ASSUME NEW op, NEW pid, NEW t, Follows(op, pid, t), Numbered(processes)
    PROVE  /\ op # "WAITPID" => Numbered(t)
           /\ op # "SPAWN" /\ processes = << >> => t = << >>
BY DEF Follows, Numbered

LEMMA NumberInductive ==
    ASSUME "WAITPID" \notin MainOps \cup ChildOps, "SPAWN" \notin ChildOps
    PROVE  NumberInv /\ [Next]_vars => NumberInv'
<1> SUFFICES ASSUME NumberInv, [Next]_vars PROVE NumberInv'
  OBVIOUS
<1>1. KernelInv /\ KernelInv' /\ Numbered(processes) /\ Numbered(procs)
  BY KernelInductive DEF NumberInv
<1>2. /\ processes \in Seq(Process) /\ procs \in Seq(Process)
      /\ phase # "pass" => procs = << >>
      /\ phase = "pass" => processes = << >>
  BY DEF NumberInv, KernelInv, TableInv
<1>3. Numbered(<< >>)
  BY DEF Numbered
<1>4. ASSUME NEW op \in MainOps, RunMain(op) PROVE NumberInv'
  <2>1. PICK e \in Effects(op, MainContext) : processes' = e.table
    BY <1>4 DEF RunMain, MainContext
  <2>2. Follows(op, 0, processes')
    BY <1>1, <2>1, MainEffects
  <2>3. op # "WAITPID"
    OBVIOUS
  <2>4. Numbered(processes')
    BY <1>1, <2>2, <2>3, FollowsNumbered
  <2>5. phase' # "pass" /\ procs' = << >>
    BY <1>2, <1>4 DEF RunMain
  <2> QED BY <1>1, <1>3, <2>4, <2>5 DEF NumberInv
<1>5. CASE StepAllBegin
  <2>1. Numbered(procs')
    BY <1>1, <1>5, StepAllBeginKeeps, RowsNumbered
  <2>2. processes' = << >>
    BY <1>5 DEF StepAllBegin
  <2> QED BY <1>1, <1>3, <2>1, <2>2 DEF NumberInv
<1>6. CASE SkipChild
  <2>1. Numbered(procs')
    BY <1>1, <1>6, SkipChildKeeps, RowsNumbered
  <2>2. processes' = processes /\ processes = << >>
    BY <1>2, <1>6 DEF SkipChild
  <2> QED BY <1>1, <1>3, <2>1, <2>2 DEF NumberInv
<1>7. ASSUME NEW op \in ChildOps, RunChild(op) PROVE NumberInv'
  <2>1. PICK i \in DOMAIN procs :
          /\ DOMAIN procs' = DOMAIN procs
          /\ \A k \in DOMAIN procs : procs'[k].pid = procs[k].pid
          /\ \E t : Follows(op, procs[i].pid, t) /\ processes' = Tick(t)
    BY <1>1, <1>7, RunChildRows
  <2>2. processes = << >>
    BY <1>2, <1>7 DEF RunChild
  <2>3. op # "SPAWN"
    OBVIOUS
  <2>4. processes' = Tick(<< >>)
    BY <1>1, <2>1, <2>2, <2>3, FollowsNumbered
  <2>5. SameRows(<< >>, Tick(<< >>))
    BY EmptyTable, TickRows
  <2>6. processes' = << >>
    BY <2>4, <2>5 DEF SameRows
  <2>7. Numbered(procs')
    BY <1>1, <2>1 DEF Numbered
  <2> QED BY <1>1, <1>3, <2>6, <2>7 DEF NumberInv
<1>8. CASE StepAllEnd
  <2>1. processes' = procs \o << >> /\ procs' = << >>
    BY <1>2, <1>8 DEF StepAllEnd
  <2>2. processes' = procs
    BY <1>2, <2>1
  <2>3. phase' # "pass"
    BY <1>8 DEF StepAllEnd
  <2> QED BY <1>1, <1>3, <2>1, <2>2, <2>3 DEF NumberInv
<1>9. CASE HostPoll
  <2>1. phase' # "pass" /\ UNCHANGED <<processes, procs>>
    BY <1>9 DEF HostPoll
  <2> QED BY <1>1, <2>1 DEF NumberInv
<1>10. CASE UNCHANGED vars
  BY <1>1, <1>10 DEF NumberInv, vars
<1> QED BY <1>4, <1>5, <1>6, <1>7, <1>8, <1>9, <1>10 DEF Next, Off

(* In a system whose programs do not reap and whose children do not spawn, *)
(* no two processes ever share a pid, beside types and slices: SPAWN hands *)
(* out the length of the table plus one and nothing shortens the table.    *)
THEOREM TableCorrect ==
    ASSUME "WAITPID" \notin MainOps \cup ChildOps, "SPAWN" \notin ChildOps
    PROVE  Spec => []TableSound
<1>1. Init => NumberInv
  BY KernelStarts, EmptyTable DEF Init, NumberInv, Numbered
<1>2. NumberInv /\ [Next]_vars => NumberInv'
  BY NumberInductive
<1>3. NumberInv => PidsUnique
  <2> SUFFICES ASSUME NumberInv PROVE PidsUnique
    OBVIOUS
  <2>1. Table = processes \/ Table = procs
    BY DEF Table, NumberInv, KernelInv, TableInv
  <2> QED BY <2>1 DEF PidsUnique, NumberInv, Numbered
<1>4. Spec => []PidsUnique
  BY <1>1, <1>2, <1>3, PTL DEF Spec
<1> QED BY <1>4, TypeCorrect, SleepersIdle, PTL DEF TableSound
-----------------------------------------------------------------------------
(* Action properties: what one step may do to an entry of the table.       *)
AllRows(s, t) == Rows(s) \cup Rows(t)

EntriesIn(s, t, id) == {(s \o t)[i] : i \in {j \in DOMAIN (s \o t) : (s \o t)[j].id = id}}

LEMMA EntryOf ==
    ASSUME NEW s \in Seq(Process), NEW t \in Seq(Process), NEW id
    PROVE  EntriesIn(s, t, id) = {x \in AllRows(s, t) : x.id = id}
<1> DEFINE u == s \o t
<1>1. Rows(u) = AllRows(s, t)
  BY JoinedRows DEF AllRows
<1>2. EntriesIn(s, t, id) = {u[i] : i \in {j \in DOMAIN u : u[j].id = id}}
  BY DEF EntriesIn
<1> HIDE DEF u
<1>3. {u[i] : i \in {j \in DOMAIN u : u[j].id = id}} = {x \in Rows(u) : x.id = id}
  BY DEF Rows
<1> QED BY <1>1, <1>2, <1>3

LEMMA EntriesAre ==
    ASSUME KernelInv, KernelInv', NEW id
    PROVE  /\ Entry(id) = {x \in AllRows(processes, procs) : x.id = id}
           /\ Entry(id)' = {x \in AllRows(processes', procs') : x.id = id}
<1>1. /\ processes \in Seq(Process) /\ procs \in Seq(Process)
      /\ processes' \in Seq(Process) /\ procs' \in Seq(Process)
  BY DEF KernelInv, TableInv
<1>2. Entry(id) = EntriesIn(processes, procs, id)
  BY DEF Entry, Table, EntriesIn
<1>3. Entry(id)' = EntriesIn(processes', procs', id)
  BY DEF Entry, Table, EntriesIn
<1> QED BY <1>1, <1>2, <1>3, EntryOf

(* How an entry p may be followed by the entry q of the same id.           *)
Halting(p, q) ==
    is_halted(p) =>
        /\ q.exit_code = p.exit_code
        /\ \/ is_halted(q)
           \/ /\ event'.op = "MSGRCV" /\ event'.who # p.id
              /\ q.state = "Blocked"
              /\ \E r \in AllRows(processes, procs) : r.id = event'.who /\ r.pid = p.pid

(* How an entry p may leave the table. *)
Leaving(p) ==
    ~is_halted(p) =>
        \E z \in AllRows(processes, procs) :
            /\ is_halted(z) /\ z.pid = p.pid
            /\ \A x \in AllRows(processes', procs') : x.id # z.id

StepKind ==
    /\ \A p \in AllRows(processes, procs), q \in AllRows(processes', procs') :
          p.id = q.id => Halting(p, q)
    /\ \A p \in AllRows(processes, procs) :
          (\A x \in AllRows(processes', procs') : x.id # p.id) => Leaving(p)

(* An id is an entry's own. *)
LEMMA RowsDistinct ==
    ASSUME TableInv
    PROVE  \A p, q \in AllRows(processes, procs) : p.id = q.id => p = q
<1>1. Distinct(processes) /\ Distinct(procs) /\ IdsOf(processes) \cap IdsOf(procs) = {}
  BY DEF TableInv
<1>2. ASSUME NEW i \in DOMAIN processes, NEW j \in DOMAIN procs
      PROVE  processes[i].id # procs[j].id
  BY <1>1 DEF IdsOf
<1> QED BY <1>1, <1>2 DEF AllRows, Rows, Distinct

(* A step that only moves entries and changes slices and sleeps.           *)
LEMMA MovedKind ==
    ASSUME KernelInv,
           \A p \in AllRows(processes, procs) :
               \E q \in AllRows(processes', procs') : SameRow(p, q),
           \A q \in AllRows(processes', procs') :
               \E p \in AllRows(processes, procs) : SameRow(p, q)
    PROVE  StepKind
<1>1. ASSUME NEW p \in AllRows(processes, procs), NEW q \in AllRows(processes', procs'),
             p.id = q.id
      PROVE  Halting(p, q)
  <2>1. PICK r \in AllRows(processes, procs) : SameRow(r, q)
    OBVIOUS
  <2>2. r = p
    BY <1>1, <2>1, RowsDistinct DEF SameRow, KernelInv
  <2> QED BY <2>1, <2>2 DEF SameRow, Halting, is_halted
<1>2. ASSUME NEW p \in AllRows(processes, procs)
      PROVE  \E x \in AllRows(processes', procs') : x.id = p.id
  BY DEF SameRow
<1> QED BY <1>1, <1>2 DEF StepKind

LEMMA SameRowsRows ==
    ASSUME NEW s, NEW t, SameRows(s, t)
    PROVE  /\ \A p \in Rows(s) : \E q \in Rows(t) : SameRow(p, q)
           /\ \A q \in Rows(t) : \E p \in Rows(s) : SameRow(p, q)
<1>1. DOMAIN t = DOMAIN s /\ \A i \in DOMAIN s : SameRow(s[i], t[i])
  BY DEF SameRows
<1> QED BY <1>1 DEF Rows

LEMMA SameKind ==
    ASSUME KernelInv, UNCHANGED <<processes, procs>>
    PROVE  StepKind
<1>1. \A p \in AllRows(processes, procs) : SameRow(p, p)
  BY DEF SameRow
<1>2. AllRows(processes', procs') = AllRows(processes, procs)
  OBVIOUS
<1> QED BY <1>1, <1>2, MovedKind

LEMMA SchedulerKind ==
    ASSUME KernelInv, StepAllBegin \/ SkipChild \/ StepAllEnd \/ HostPoll \/ UNCHANGED vars
    PROVE  StepKind
<1>1. CASE StepAllBegin
  <2>1. SameRows(processes, procs') /\ processes' = << >> /\ procs = << >>
    BY <1>1, StepAllBeginKeeps DEF StepAllBegin, KernelInv
  <2>2. AllRows(processes, procs) = Rows(processes) /\ AllRows(processes', procs') = Rows(procs')
    BY <2>1, EmptyTable DEF AllRows
  <2> QED BY <2>1, <2>2, SameRowsRows, MovedKind
<1>2. CASE SkipChild
  <2>1. SameRows(procs, procs') /\ processes' = processes
    BY <1>2, SkipChildKeeps DEF SkipChild
  <2>2. \A p \in Rows(processes) : SameRow(p, p)
    BY DEF SameRow
  <2>3. /\ \A p \in Rows(procs) : \E q \in Rows(procs') : SameRow(p, q)
        /\ \A q \in Rows(procs') : \E p \in Rows(procs) : SameRow(p, q)
    BY <2>1, SameRowsRows
  <2>4. /\ AllRows(processes, procs) = Rows(processes) \cup Rows(procs)
        /\ AllRows(processes', procs') = Rows(processes) \cup Rows(procs')
    BY <2>1 DEF AllRows
  <2> QED BY <2>2, <2>3, <2>4, MovedKind
<1>3. CASE StepAllEnd
  <2>1. processes' = procs \o processes /\ procs' = << >>
    BY <1>3 DEF StepAllEnd
  <2>2. AllRows(processes', procs') = AllRows(processes, procs)
    BY <2>1, JoinedRows, EmptyTable DEF AllRows, KernelInv, TableInv
  <2>3. \A p \in AllRows(processes, procs) : SameRow(p, p)
    BY DEF SameRow
  <2> QED BY <2>2, <2>3, MovedKind
<1>4. CASE HostPoll
  BY <1>4, SameKind DEF HostPoll
<1>5. CASE UNCHANGED vars
  BY <1>5, SameKind DEF vars
<1> QED BY <1>1, <1>2, <1>3, <1>4, <1>5

(* An opcode and the entries of the table it has.                          *)
LEMMA FollowsKind ==
    ASSUME KernelInv, NEW op, NEW pid, NEW t, Follows(op, pid, t)
    PROVE  /\ \A p \in Rows(processes), q \in Rows(t) :
                 p.id = q.id => StaysHalted(op, pid, p, q)
           /\ \A p \in Rows(processes) :
                 (\A x \in Rows(t) : x.id # p.id) =>
                     \E z \in Rows(processes) :
                         /\ is_halted(z) /\ z.pid = p.pid
                         /\ \A x \in Rows(t) : x.id # z.id
<1>1. ASSUME NEW i \in DOMAIN processes, NEW k \in DOMAIN t, processes[i].id = t[k].id
      PROVE  StaysHalted(op, pid, processes[i], t[k])
  <2>1. t[k].id \notin FreshIds
    BY <1>1 DEF FreshIds
  <2>2. PICK j \in DOMAIN processes :
           Like(processes[j], t[k]) /\ StaysHalted(op, pid, processes[j], t[k])
    BY <2>1 DEF Follows
  <2>3. j = i
    BY <1>1, <2>2 DEF Like, KernelInv, TableInv, Distinct
  <2> QED BY <2>2, <2>3
<1>2. ASSUME NEW i \in DOMAIN processes, \A x \in Rows(t) : x.id # processes[i].id
      PROVE  \E z \in DOMAIN processes :
                 /\ is_halted(processes[z]) /\ processes[z].pid = processes[i].pid
                 /\ \A x \in Rows(t) : x.id # processes[z].id
  <2>1. processes[i].id \notin IdsOf(t)
    BY <1>2 DEF IdsOf, Rows
  <2>2. PICK z \in DOMAIN processes :
           /\ processes[z].pid = processes[i].pid /\ is_halted(processes[z])
           /\ processes[z].id \notin IdsOf(t)
    BY <2>1 DEF Follows
  <2>3. \A x \in Rows(t) : x.id # processes[z].id
    BY <2>2 DEF IdsOf, Rows
  <2> QED BY <2>2, <2>3
<1> QED BY <1>1, <1>2 DEF Rows

LEMMA RunMainKind ==
    ASSUME KernelInv, NEW op \in MainOps, RunMain(op)
    PROVE  StepKind
<1>1. PICK e \in Effects(op, MainContext) : processes' = e.table
  BY DEF RunMain, MainContext
<1>2. Follows(op, 0, processes')
  BY <1>1, MainEffects
<1>3. procs = << >> /\ procs' = << >>
  BY DEF RunMain, KernelInv
<1>4. /\ AllRows(processes, procs) = Rows(processes)
      /\ AllRows(processes', procs') = Rows(processes')
  BY <1>3, EmptyTable DEF AllRows
<1>5. \A p \in Rows(processes) : p.pid # 0
  <2>1. \A i \in DOMAIN processes : processes[i] \in Process
    BY DEF KernelInv, TableInv
  <2> QED BY <2>1, KernelAssumption DEF Rows, Process, Pids
<1>6. \A p \in Rows(processes), q \in Rows(processes') : p.id = q.id => Halting(p, q)
  BY <1>2, <1>5, FollowsKind DEF StaysHalted, Halting
<1> QED BY <1>2, <1>4, <1>6, FollowsKind DEF StepKind, Leaving

LEMMA RunChildKind ==
    ASSUME KernelInv, NEW op \in ChildOps, RunChild(op)
    PROVE  StepKind
<1>1. PICK i \in DOMAIN procs :
        /\ Eligible(procs[i])
        /\ event'.who = procs[i].id /\ event'.op = op
        /\ DOMAIN procs' = DOMAIN procs
        /\ \A k \in DOMAIN procs :
              /\ procs'[k].id = procs[k].id /\ procs'[k].pid = procs[k].pid
              /\ k # i => SameRow(procs[k], procs'[k])
        /\ \E t : /\ Follows(op, procs[i].pid, t)
                  /\ IdsOf(t) \cap IdsOf(procs) = {}
                  /\ processes' = Tick(t)
  BY RunChildRows
<1>2. PICK t : /\ Follows(op, procs[i].pid, t)
               /\ IdsOf(t) \cap IdsOf(procs) = {}
               /\ processes' = Tick(t)
  BY <1>1
<1>3. SameRows(t, processes')
  BY <1>2, TickRows DEF Follows
<1>4. /\ \A p \in Rows(t) : \E q \in Rows(processes') : SameRow(p, q)
      /\ \A q \in Rows(processes') : \E p \in Rows(t) : SameRow(p, q)
  BY <1>3, SameRowsRows
<1>5. /\ \A p \in Rows(processes), q \in Rows(procs) : p.id # q.id
      /\ \A p \in Rows(t), q \in Rows(procs) : p.id # q.id
  <2>1. IdsOf(processes) \cap IdsOf(procs) = {}
    BY DEF KernelInv, TableInv
  <2> QED BY <1>2, <2>1 DEF IdsOf, Rows
<1>6. ASSUME NEW k \in DOMAIN procs, NEW l \in DOMAIN procs, procs[k].id = procs'[l].id
      PROVE  Halting(procs[k], procs'[l])
  <2>1. k = l
    BY <1>1, <1>6 DEF KernelInv, TableInv, Distinct
  <2>2. CASE k = i
    BY <1>1, <2>2 DEF Eligible, Halting
  <2>3. CASE k # i
    BY <1>1, <2>1, <2>3 DEF SameRow, Halting, is_halted
  <2> QED BY <2>2, <2>3
<1>7. /\ \A q \in Rows(procs') : \E p \in Rows(procs) : p.id = q.id
      /\ \A p \in Rows(procs) : \E q \in Rows(procs') : p.id = q.id
  BY <1>1 DEF Rows
<1>8. ASSUME NEW p \in Rows(processes), NEW q \in Rows(processes'), p.id = q.id
      PROVE  Halting(p, q)
  <2>1. PICK r \in Rows(t) : SameRow(r, q)
    BY <1>4
  <2>2. StaysHalted(op, procs[i].pid, p, r)
    BY <1>2, <1>8, <2>1, FollowsKind DEF SameRow
  <2>3. p.id # procs[i].id
    BY <1>5 DEF Rows
  <2>4. procs[i] \in AllRows(processes, procs)
    BY DEF AllRows, Rows
  <2> QED BY <1>1, <2>1, <2>2, <2>3, <2>4 DEF SameRow, StaysHalted, Halting, is_halted
<1>9. \A p \in AllRows(processes, procs), q \in AllRows(processes', procs') :
          p.id = q.id => Halting(p, q)
  <2>1. \A p \in Rows(procs), q \in Rows(procs') : p.id = q.id => Halting(p, q)
    BY <1>6, <1>1 DEF Rows
  <2>2. \A p \in Rows(processes), q \in Rows(procs') : p.id # q.id
    BY <1>5, <1>7
  <2>3. \A p \in Rows(procs), q \in Rows(processes') : p.id # q.id
    BY <1>4, <1>5 DEF SameRow
  <2> QED BY <1>8, <2>1, <2>2, <2>3 DEF AllRows
<1>10. ASSUME NEW p \in AllRows(processes, procs),
              \A x \in AllRows(processes', procs') : x.id # p.id
       PROVE  Leaving(p)
  <2>1. p \in Rows(processes)
    BY <1>7, <1>10 DEF AllRows
  <2>2. \A x \in Rows(t) : x.id # p.id
    BY <1>4, <1>10 DEF AllRows, SameRow
  <2>3. PICK z \in Rows(processes) :
           is_halted(z) /\ z.pid = p.pid /\ \A x \in Rows(t) : x.id # z.id
    BY <1>2, <2>1, <2>2, FollowsKind
  <2>4. \A x \in AllRows(processes', procs') : x.id # z.id
    BY <1>4, <1>5, <1>7, <2>3 DEF AllRows, SameRow
  <2> QED BY <2>3, <2>4 DEF Leaving, AllRows
<1> QED BY <1>9, <1>10 DEF StepKind

LEMMA EveryStep == KernelInv /\ [Next]_vars => StepKind
BY RunMainKind, RunChildKind, SchedulerKind DEF Next, Off

(* A halted process never runs again and keeps its exit status, whatever   *)
(* KILL, SIGNAL, MSGSND or the scheduler do; only MSGRCV of a namesake may *)
(* turn it from a zombie into a blocked process.                           *)
THEOREM HaltedStay == Spec => HaltedIsFinal
<1> DEFINE Final ==
      \A id \in Ids : \A p \in Entry(id), q \in Entry(id)' :
          is_halted(p) =>
             /\ q.exit_code = p.exit_code
             /\ \/ is_halted(q)
                \/ /\ event'.op = "MSGRCV" /\ event'.who # id
                   /\ q.state = "Blocked"
                   /\ \E r \in Entry(event'.who) : r.pid = p.pid
<1>1. KernelInv /\ KernelInv' /\ [Next]_vars => Final
  <2> SUFFICES ASSUME KernelInv, KernelInv', [Next]_vars,
                      NEW id \in Ids, NEW p \in Entry(id), NEW q \in Entry(id)', is_halted(p)
               PROVE  /\ q.exit_code = p.exit_code
                      /\ \/ is_halted(q)
                         \/ /\ event'.op = "MSGRCV" /\ event'.who # id
                            /\ q.state = "Blocked"
                            /\ \E r \in Entry(event'.who) : r.pid = p.pid
    OBVIOUS
  <2>1. /\ p \in AllRows(processes, procs) /\ p.id = id
        /\ q \in AllRows(processes', procs') /\ q.id = id
    BY EntriesAre
  <2>2. Halting(p, q)
    BY <2>1, EveryStep DEF StepKind
  <2>3. Entry(event'.who) = {x \in AllRows(processes, procs) : x.id = event'.who}
    BY EntriesAre
  <2> QED BY <2>1, <2>2, <2>3 DEF Halting
<1>2. Spec => [][Final]_vars
  <2>1. KernelInv /\ KernelInv' /\ [Next]_vars => [Final]_vars
    BY <1>1
  <2> HIDE DEF Final
  <2> QED BY <2>1, KernelAlways, PTL DEF Spec
<1> QED BY <1>2 DEF HaltedIsFinal

(* A process that still runs leaves the table only when a halted process   *)
(* of its pid is reaped.                                                   *)
THEOREM LiveLeaveOnlySo == Spec => LiveLeaveWithNamesake
<1> DEFINE Left ==
      \A id \in Ids : \A p \in Entry(id) :
          ~is_halted(p) /\ Entry(id)' = {} =>
              \E z \in Ids \ {id} : \E q \in Entry(z) :
                  is_halted(q) /\ q.pid = p.pid /\ Entry(z)' = {}
<1>1. KernelInv /\ KernelInv' /\ [Next]_vars => Left
  <2> SUFFICES ASSUME KernelInv, KernelInv', [Next]_vars,
                      NEW id \in Ids, NEW p \in Entry(id), ~is_halted(p), Entry(id)' = {}
               PROVE  \E z \in Ids \ {id} : \E q \in Entry(z) :
                          is_halted(q) /\ q.pid = p.pid /\ Entry(z)' = {}
    OBVIOUS
  <2>1. /\ p \in AllRows(processes, procs) /\ p.id = id
        /\ \A x \in AllRows(processes', procs') : x.id # p.id
    BY EntriesAre
  <2>2. PICK q \in AllRows(processes, procs) :
           /\ is_halted(q) /\ q.pid = p.pid
           /\ \A x \in AllRows(processes', procs') : x.id # q.id
    BY <2>1, EveryStep DEF StepKind, Leaving
  <2>3. q.id # id
    BY <2>1, <2>2, RowsDistinct DEF KernelInv
  <2>4. q.id \in Ids
    <3>1. \A x \in AllRows(processes, procs) : x \in Process
      BY DEF AllRows, Rows, KernelInv, TableInv
    <3> QED BY <3>1, <2>2 DEF Process
  <2>5. q \in Entry(q.id) /\ Entry(q.id)' = {}
    <3>1. /\ Entry(q.id) = {x \in AllRows(processes, procs) : x.id = q.id}
          /\ Entry(q.id)' = {x \in AllRows(processes', procs') : x.id = q.id}
      BY EntriesAre
    <3> QED BY <2>2, <3>1
  <2> QED BY <2>2, <2>3, <2>4, <2>5
<1>2. Spec => [][Left]_vars
  <2>1. KernelInv /\ KernelInv' /\ [Next]_vars => [Left]_vars
    BY <1>1
  <2> HIDE DEF Left
  <2> QED BY <2>1, KernelAlways, PTL DEF Spec
<1> QED BY <1>2 DEF LiveLeaveWithNamesake
=============================================================================
