--------------------------- MODULE FormulasProofs ---------------------------
(***************************************************************************)
(* Proofs about the formula engine, for canvases and limits of any size.   *)
(* What happens to the vector of formulas is stated over a vector of its   *)
(* own, fs, so that the facts apply to the vector before and after a step. *)
(* Cells are of any width, and the powers of two that the operations on    *)
(* words need are proved by least counterexample.                          *)
(***************************************************************************)
EXTENDS Formulas, WellFoundedInduction, TLAPS

(* The three facts the operations keep. *)
Once(fs) == \A i, j \in DOMAIN fs : fs[i].target_idx = fs[j].target_idx => i = j

ReadersOf(fs, d) == {i \in DOMAIN fs : d \in Deps(fs[i])}

NoCycle(fs) == \A i \in DOMAIN fs : ~Reaches(fs, Deps(fs[i]), fs[i].target_idx)

Shape ==
    /\ formulas \in Seq(Formula)
    /\ formula_dep_index \in [Cells -> SUBSET (Nat \ {0})]

IInv == Shape /\ Once(formulas) /\ DepIndexExact
-----------------------------------------------------------------------------
(* What formula_remove leaves. *)

LEMMA PosAt ==
    ASSUME Shape, Once(formulas), NEW t, At(t) # {}
    PROVE  /\ Pos(t) \in DOMAIN formulas
           /\ formulas[Pos(t)].target_idx = t
           /\ \A i \in DOMAIN formulas : formulas[i].target_idx = t => i = Pos(t)
<1>1. DOMAIN formulas = 1 .. Len(formulas) /\ Len(formulas) \in Nat
  BY DEF Shape
<1>2. PICK i \in At(t) : TRUE
  OBVIOUS
<1>3. i \in Int /\ \A j \in At(t) : j = i
  BY <1>1, <1>2 DEF At, Once
<1>4. \A j \in At(t) : i <= j
  BY <1>3
<1>5. Pos(t) \in At(t)
  BY <1>2, <1>4 DEF Pos
<1> QED
  BY <1>3, <1>5 DEF At

(* Removal keeps every formula but that of cell t, in the old order.       *)
LEMMA RemovedShape ==
    ASSUME Shape, Once(formulas), NEW t
    PROVE  /\ Removed(t) \in Seq(Formula)
           /\ Once(Removed(t))
           /\ \A i \in DOMAIN Removed(t) :
                 /\ Removed(t)[i].target_idx # t
                 /\ \E j \in DOMAIN formulas : Removed(t)[i] = formulas[j]
           /\ \A j \in DOMAIN formulas : formulas[j].target_idx # t =>
                 \E i \in DOMAIN Removed(t) : Removed(t)[i] = formulas[j]
<1> DEFINE n == Len(formulas)
<1>1. formulas \in Seq(Formula) /\ n \in Nat /\ DOMAIN formulas = 1 .. n
  BY DEF Shape
<1>2. CASE At(t) = {}
  BY <1>1, <1>2 DEF Removed, At
<1>3. CASE At(t) # {}
  <2> DEFINE p == Pos(t)
             fs == [i \in 1 .. n - 1 |-> IF i < p THEN formulas[i] ELSE formulas[i + 1]]
  <2>1. p \in 1 .. n /\ formulas[p].target_idx = t
    BY <1>1, <1>3, PosAt
  <2>2. \A i \in 1 .. n : formulas[i].target_idx = t => i = p
    BY <1>1, <1>3, PosAt
  <2>3. Removed(t) = fs
    BY <1>3 DEF Removed
  <2>4. n - 1 \in Nat /\ \A i \in 1 .. n - 1 : i \in 1 .. n /\ i + 1 \in 1 .. n
    BY <1>1, <2>1
  <2> HIDE DEF n, p
  <2>5. \A i \in 1 .. n : formulas[i] \in Formula
    BY <1>1
  <2>6. fs \in [1 .. n - 1 -> Formula]
    BY <2>4, <2>5
  <2>7. fs \in Seq(Formula) /\ DOMAIN fs = 1 .. n - 1
    BY <2>4, <2>6
  <2>8. \A i, j \in 1 .. n : formulas[i].target_idx = formulas[j].target_idx => i = j
    BY <1>1 DEF Once
  <2>9. Once(fs)
    <3> SUFFICES ASSUME NEW i \in 1 .. n - 1, NEW j \in 1 .. n - 1,
                        fs[i].target_idx = fs[j].target_idx
                 PROVE  i = j
      BY <2>7 DEF Once
    <3>1. CASE i < p /\ j < p
      BY <2>1, <2>4, <2>8, <3>1
    <3>2. CASE i < p /\ ~(j < p)
      <4>1. fs[i] = formulas[i] /\ fs[j] = formulas[j + 1] /\ i \in 1 .. n /\ j + 1 \in 1 .. n
        BY <2>4, <3>2
      <4>2. i = j + 1
        BY <2>8, <4>1
      <4> QED
        BY <2>1, <1>1, <3>2, <4>2
    <3>3. CASE ~(i < p) /\ j < p
      <4>1. fs[j] = formulas[j] /\ fs[i] = formulas[i + 1] /\ j \in 1 .. n /\ i + 1 \in 1 .. n
        BY <2>4, <3>3
      <4>2. j = i + 1
        BY <2>8, <4>1
      <4> QED
        BY <2>1, <1>1, <3>3, <4>2
    <3>4. CASE ~(i < p) /\ ~(j < p)
      <4>1. fs[j] = formulas[j + 1] /\ fs[i] = formulas[i + 1] /\ j + 1 \in 1 .. n /\ i + 1 \in 1 .. n
        BY <2>4, <3>4
      <4>2. j + 1 = i + 1
        BY <2>8, <4>1
      <4> QED
        BY <1>1, <4>2
    <3> QED
      BY <3>1, <3>2, <3>3, <3>4
  <2>10. ASSUME NEW i \in 1 .. n - 1
         PROVE  fs[i].target_idx # t /\ \E j \in 1 .. n : fs[i] = formulas[j]
    <3>1. CASE i < p
      BY <1>1, <2>1, <2>2, <2>4, <3>1
    <3>2. CASE ~(i < p)
      <4>1. fs[i] = formulas[i + 1] /\ i + 1 \in 1 .. n
        BY <2>4, <3>2
      <4>2. i + 1 # p
        BY <1>1, <2>1, <3>2
      <4> QED
        BY <2>2, <4>1, <4>2
    <3> QED
      BY <3>1, <3>2
  <2>11. ASSUME NEW j \in 1 .. n, formulas[j].target_idx # t
         PROVE  \E i \in 1 .. n - 1 : fs[i] = formulas[j]
    <3>1. j # p
      BY <2>1, <2>11
    <3>2. CASE j < p
      <4>1. j \in 1 .. n - 1
        BY <1>1, <2>1, <3>2
      <4> QED
        BY <3>2, <4>1
    <3>3. CASE ~(j < p)
      <4>1. j - 1 \in 1 .. n - 1 /\ ~(j - 1 < p) /\ (j - 1) + 1 = j
        BY <1>1, <2>1, <3>1, <3>3
      <4> QED
        BY <4>1
    <3> QED
      BY <3>2, <3>3
  <2> HIDE DEF fs
  <2>12. /\ \A i \in DOMAIN fs :
               fs[i].target_idx # t /\ \E j \in DOMAIN formulas : fs[i] = formulas[j]
         /\ \A j \in DOMAIN formulas : formulas[j].target_idx # t =>
               \E i \in DOMAIN fs : fs[i] = formulas[j]
    BY <1>1, <2>7, <2>10, <2>11
  <2> QED
    BY <2>3, <2>7, <2>9, <2>12
<1> QED
  BY <1>2, <1>3

(* The index after a removal names the readers that are left.              *)
LEMMA RemovedIndexShape ==
    ASSUME IInv, NEW t
    PROVE  /\ RemovedIndex(t) \in [Cells -> SUBSET (Nat \ {0})]
           /\ \A d \in Cells : RemovedIndex(t)[d] = ReadersOf(Removed(t), d)
<1> DEFINE n == Len(formulas)
<1> USE DEF IInv
<1>1. formulas \in Seq(Formula) /\ n \in Nat /\ DOMAIN formulas = 1 .. n
  BY DEF Shape
<1>2. /\ formula_dep_index \in [Cells -> SUBSET (Nat \ {0})]
      /\ \A d \in Cells : formula_dep_index[d] = ReadersOf(formulas, d)
  BY DEF Shape, DepIndexExact, ReadersOf
<1>3. CASE At(t) = {}
  BY <1>2, <1>3 DEF Removed, RemovedIndex
<1>4. CASE At(t) # {}
  <2> DEFINE p == Pos(t)
             fs == [i \in 1 .. n - 1 |-> IF i < p THEN formulas[i] ELSE formulas[i + 1]]
             moved(d) == {IF i > p THEN i - 1 ELSE i : i \in formula_dep_index[d] \ {p}}
  <2>1. p \in 1 .. n
    BY <1>1, <1>4, PosAt
  <2>2. Removed(t) = fs /\ RemovedIndex(t) = [d \in Cells |-> moved(d)]
    BY <1>4 DEF Removed, RemovedIndex
  <2> HIDE DEF n, p
  <2>3. ASSUME NEW d \in Cells
        PROVE  moved(d) = ReadersOf(fs, d)
    <3>1. formula_dep_index[d] = {i \in 1 .. n : d \in Deps(formulas[i])}
      BY <1>1, <1>2 DEF ReadersOf
    <3>2. ReadersOf(fs, d) = {i \in 1 .. n - 1 : d \in Deps(fs[i])}
      BY DEF ReadersOf
    <3>3. ASSUME NEW i \in formula_dep_index[d] \ {p}
          PROVE  (IF i > p THEN i - 1 ELSE i) \in ReadersOf(fs, d)
      <4>1. i \in 1 .. n /\ d \in Deps(formulas[i]) /\ i # p
        BY <3>1, <3>3
      <4>2. CASE i > p
        <5>1. i - 1 \in 1 .. n - 1 /\ ~(i - 1 < p) /\ (i - 1) + 1 = i
          BY <1>1, <2>1, <4>1, <4>2
        <5>2. fs[i - 1] = formulas[i]
          BY <5>1
        <5> HIDE DEF fs
        <5> QED
          BY <3>2, <4>1, <4>2, <5>1, <5>2
      <4>3. CASE ~(i > p)
        <5>1. i \in 1 .. n - 1 /\ i < p
          BY <1>1, <2>1, <4>1, <4>3
        <5>2. fs[i] = formulas[i]
          BY <5>1
        <5> HIDE DEF fs
        <5> QED
          BY <3>2, <4>1, <4>3, <5>1, <5>2
      <4> QED
        BY <4>2, <4>3
    <3>4. ASSUME NEW k \in ReadersOf(fs, d)
          PROVE  \E i \in formula_dep_index[d] \ {p} : k = IF i > p THEN i - 1 ELSE i
      <4>1. k \in 1 .. n - 1 /\ d \in Deps(fs[k])
        BY <3>2, <3>4
      <4>2. CASE k < p
        <5>1. fs[k] = formulas[k] /\ k \in 1 .. n /\ k # p /\ ~(k > p)
          BY <1>1, <2>1, <4>1, <4>2
        <5> HIDE DEF fs
        <5>2. k \in formula_dep_index[d] \ {p}
          BY <3>1, <4>1, <5>1
        <5> QED
          BY <5>1, <5>2
      <4>3. CASE ~(k < p)
        <5>1. fs[k] = formulas[k + 1] /\ k + 1 \in 1 .. n /\ k + 1 # p /\ k + 1 > p /\ (k + 1) - 1 = k
          BY <1>1, <2>1, <4>1, <4>3
        <5> HIDE DEF fs
        <5>2. k + 1 \in formula_dep_index[d] \ {p}
          BY <3>1, <4>1, <5>1
        <5> QED
          BY <5>1, <5>2
      <4> QED
        BY <4>2, <4>3
    <3> HIDE DEF fs
    <3> QED
      BY <3>3, <3>4
  <2>4. ASSUME NEW d \in Cells
        PROVE  ReadersOf(fs, d) \in SUBSET (Nat \ {0})
    BY <1>1 DEF ReadersOf
  <2> HIDE DEF fs, moved
  <2> QED
    BY <2>2, <2>3, <2>4
<1> QED
  BY <1>3, <1>4
-----------------------------------------------------------------------------
(* Appending a formula. *)

LEMMA AppendShape ==
    ASSUME NEW fs \in Seq(Formula), Once(fs), NEW f \in Formula,
           \A i \in DOMAIN fs : fs[i].target_idx # f.target_idx
    PROVE  /\ Append(fs, f) \in Seq(Formula)
           /\ Once(Append(fs, f))
           /\ \A d \in Cells : ReadersOf(Append(fs, f), d) =
                 ReadersOf(fs, d) \cup IF d \in Deps(f) THEN {Len(fs) + 1} ELSE {}
<1> DEFINE gs == Append(fs, f)
           m == Len(fs)
<1>1. m \in Nat /\ DOMAIN fs = 1 .. m /\ DOMAIN gs = 1 .. m + 1
  OBVIOUS
<1>2. gs[m + 1] = f /\ \A i \in 1 .. m : gs[i] = fs[i]
  OBVIOUS
<1>3. \A i \in 1 .. m + 1 : i \in 1 .. m \/ i = m + 1
  BY <1>1
<1>4. gs \in Seq(Formula)
  OBVIOUS
<1> HIDE DEF gs, m
<1>5. Once(gs)
  BY <1>1, <1>2, <1>3 DEF Once
<1>6. ASSUME NEW d \in Cells
      PROVE  ReadersOf(gs, d) = ReadersOf(fs, d) \cup IF d \in Deps(f) THEN {m + 1} ELSE {}
  <2>1. ReadersOf(fs, d) = {i \in 1 .. m : d \in Deps(fs[i])}
    BY <1>1 DEF ReadersOf
  <2>2. ReadersOf(gs, d) = {i \in 1 .. m + 1 : d \in Deps(gs[i])}
    BY <1>1 DEF ReadersOf
  <2>3. m + 1 \in 1 .. m + 1 /\ \A i \in 1 .. m : i \in 1 .. m + 1
    BY <1>1
  <2> QED
    BY <1>2, <1>3, <2>1, <2>2, <2>3
<1> QED
  BY <1>4, <1>5, <1>6 DEF gs, m
-----------------------------------------------------------------------------
(* Cycles.  A set of cells that contains what a formula reads, is closed   *)
(* under the formulas and misses a cell shows that the cell is not reached. *)

LEMMA NotReached ==
    ASSUME NEW fs, NEW S, NEW t, NEW R \in SUBSET Cells,
           S \subseteq R, Closed(fs, R), t \notin R
    PROVE  ~Reaches(fs, S, t)
BY DEF Reaches

(* Fewer formulas reach fewer cells. *)
LEMMA NoCycleInPart ==
    ASSUME NEW fs, NEW gs, NoCycle(fs),
           \A i \in DOMAIN gs : \E j \in DOMAIN fs : gs[i] = fs[j]
    PROVE  NoCycle(gs)
<1> SUFFICES ASSUME NEW i \in DOMAIN gs
             PROVE  ~Reaches(gs, Deps(gs[i]), gs[i].target_idx)
  BY DEF NoCycle
<1>1. PICK j \in DOMAIN fs : gs[i] = fs[j]
  OBVIOUS
<1>2. ~Reaches(fs, Deps(fs[j]), fs[j].target_idx)
  BY DEF NoCycle
<1>3. PICK R \in SUBSET Cells : Deps(fs[j]) \subseteq R /\ Closed(fs, R) /\ fs[j].target_idx \notin R
  BY <1>2 DEF Reaches
<1>4. Closed(gs, R)
  BY <1>3 DEF Closed
<1> QED
  BY <1>1, <1>3, <1>4, NotReached

(* A formula that does not reach its own cell closes no cycle.  Of the set *)
(* that shows it for an old formula and the one that shows it for the new  *)
(* formula, the old one, the part they share or both together show it for  *)
(* the old formula in the longer vector.                                   *)
LEMMA NoCycleAppended ==
    ASSUME NEW fs \in Seq(Formula), NEW f \in Formula, NoCycle(fs),
           ~Reaches(fs, Deps(f), f.target_idx)
    PROVE  NoCycle(Append(fs, f))
<1> DEFINE gs == Append(fs, f)
           m == Len(fs)
<1>1. m \in Nat /\ DOMAIN fs = 1 .. m /\ DOMAIN gs = 1 .. m + 1
  OBVIOUS
<1>2. gs[m + 1] = f /\ \A i \in 1 .. m : gs[i] = fs[i]
  OBVIOUS
<1>3. \A i \in 1 .. m + 1 : i \in 1 .. m \/ i = m + 1
  BY <1>1
<1> HIDE DEF gs, m
<1>4. ASSUME NEW R \in SUBSET Cells, Closed(fs, R), f.target_idx \in R => Deps(f) \subseteq R
      PROVE  Closed(gs, R)
  BY <1>1, <1>2, <1>3, <1>4 DEF Closed
<1>5. PICK T \in SUBSET Cells : Deps(f) \subseteq T /\ Closed(fs, T) /\ f.target_idx \notin T
  BY DEF Reaches
<1>6. ~Reaches(gs, Deps(f), f.target_idx)
  BY <1>4, <1>5, NotReached
<1>7. ASSUME NEW i \in DOMAIN fs
      PROVE  ~Reaches(gs, Deps(fs[i]), fs[i].target_idx)
  <2> DEFINE t == fs[i].target_idx
  <2>1. PICK R \in SUBSET Cells : Deps(fs[i]) \subseteq R /\ Closed(fs, R) /\ t \notin R
    BY DEF NoCycle, Reaches
  <2>2. CASE f.target_idx \notin R
    BY <1>4, <2>1, <2>2, NotReached
  <2>3. CASE f.target_idx \in R /\ t \in T
    <3>1. Deps(fs[i]) \subseteq R \cap T /\ Closed(fs, R \cap T)
      BY <1>5, <2>1, <2>3 DEF Closed
    <3>2. Closed(gs, R \cap T)
      BY <1>4, <1>5, <3>1
    <3> QED
      BY <2>1, <3>1, <3>2, NotReached
  <2>4. CASE t \notin T
    <3>1. Closed(fs, R \cup T)
      BY <1>5, <2>1 DEF Closed
    <3>2. Closed(gs, R \cup T)
      BY <1>4, <1>5, <3>1
    <3> QED
      BY <2>1, <2>4, <3>2, NotReached
  <2> QED
    BY <2>2, <2>3, <2>4
<1>8. NoCycle(gs)
  BY <1>1, <1>2, <1>3, <1>6, <1>7 DEF NoCycle
<1> QED
  BY <1>8 DEF gs
-----------------------------------------------------------------------------
(* The invariant. *)

LEMMA InitInv == Init => IInv /\ NoCycle(formulas)
<1> SUFFICES ASSUME Init PROVE IInv /\ NoCycle(formulas)
  OBVIOUS
<1>1. formulas \in Seq(Formula) /\ DOMAIN formulas = {}
  BY DEF Init
<1>2. formula_dep_index \in [Cells -> SUBSET (Nat \ {0})]
  BY DEF Init
<1>3. DepIndexExact
  BY <1>1 DEF Init, DepIndexExact
<1>4. Once(formulas) /\ NoCycle(formulas)
  BY <1>1 DEF Once, NoCycle
<1> QED
  BY <1>1, <1>2, <1>3, <1>4 DEF IInv, Shape

(* What FORMULA is given is a formula once its cells have been looked at.  *)
LEMMA AdmissibleIsFormula ==
    ASSUME NEW f \in Inputs, Admissible(f)
    PROVE  f \in Formula
<1>1. f.op \in FormulaOps
  BY FormulasAssumption DEF FormulasAssumption, Inputs
<1>2. f.deps \in Seq(Nat)
  <2>1. PICK l \in DepLists : f.deps = Clamped(l)
    BY DEF Inputs
  <2>2. l \in Seq(Nat) /\ MAX_FORMULA_DEPS \in Nat
    BY FormulasAssumption DEF FormulasAssumption
  <2>3. CASE Len(l) > MAX_FORMULA_DEPS
    <3>1. SubSeq(l, 1, MAX_FORMULA_DEPS) \in Seq(Nat)
      BY <2>2, <2>3
    <3> QED
      BY <2>1, <2>3, <3>1 DEF Clamped
  <2> QED
    BY <2>1, <2>2, <2>3 DEF Clamped
<1>3. f.deps \in Seq(Cells)
  <2>1. \A i \in DOMAIN f.deps : f.deps[i] \in Cells
    BY DEF Admissible, Deps
  <2> QED
    BY <1>2, <2>1
<1>4. f = [target_idx |-> f.target_idx, deps |-> f.deps, op |-> f.op]
  BY DEF Inputs
<1>5. f.target_idx \in Cells
  BY DEF Admissible
<1> QED
  BY <1>1, <1>3, <1>4, <1>5 DEF Formula

LEMMA StepInv ==
    ASSUME IInv, NoCycle(formulas), [Next]_vars
    PROVE  IInv' /\ NoCycle(formulas')
<1> USE DEF IInv
<1>1. ASSUME UNCHANGED <<formulas, formula_dep_index>>
      PROVE  IInv' /\ NoCycle(formulas')
  BY <1>1 DEF Shape, DepIndexExact
<1>2. ASSUME NEW t,
             formulas' = Removed(t), formula_dep_index' = RemovedIndex(t)
      PROVE  IInv' /\ NoCycle(formulas')
  <2>1. Shape' /\ Once(formulas')
    BY <1>2, RemovedShape, RemovedIndexShape DEF Shape
  <2>2. DepIndexExact'
    BY <1>2, RemovedIndexShape DEF DepIndexExact, ReadersOf
  <2>3. NoCycle(formulas')
    BY <1>2, RemovedShape, NoCycleInPart
  <2> QED
    BY <2>1, <2>2, <2>3
<1>3. ASSUME NEW f \in Inputs, RegisterDone(f)
      PROVE  IInv' /\ NoCycle(formulas')
  <2> DEFINE fs == Removed(f.target_idx)
             index == RemovedIndex(f.target_idx)
  <2>1. f \in Formula
    BY <1>3, AdmissibleIsFormula DEF RegisterDone
  <2>2. /\ formulas' = Append(fs, f)
        /\ formula_dep_index' =
             [d \in Cells |-> index[d] \cup IF d \in Deps(f) THEN {Len(fs) + 1} ELSE {}]
        /\ ~Reaches(fs, Deps(f), f.target_idx)
    BY <1>3 DEF RegisterDone, has_formula_cycle
  <2>3. /\ fs \in Seq(Formula) /\ Once(fs)
        /\ \A i \in DOMAIN fs : fs[i].target_idx # f.target_idx
        /\ \A i \in DOMAIN fs : \E j \in DOMAIN formulas : fs[i] = formulas[j]
    BY RemovedShape
  <2>4. /\ index \in [Cells -> SUBSET (Nat \ {0})]
        /\ \A d \in Cells : index[d] = ReadersOf(fs, d)
    BY RemovedIndexShape
  <2> HIDE DEF fs, index
  <2>5. /\ formulas' \in Seq(Formula) /\ Once(formulas')
        /\ \A d \in Cells : ReadersOf(formulas', d) = formula_dep_index'[d]
    BY <2>1, <2>2, <2>3, <2>4, AppendShape
  <2>6. formula_dep_index' \in [Cells -> SUBSET (Nat \ {0})]
    <3>1. Len(fs) + 1 \in Nat \ {0}
      BY <2>3
    <3> QED
      BY <2>2, <2>4, <3>1
  <2>7. NoCycle(formulas')
    <3>1. NoCycle(fs)
      BY <2>3, NoCycleInPart
    <3> QED
      BY <2>1, <2>2, <2>3, <3>1, NoCycleAppended
  <2> QED
    BY <2>5, <2>6, <2>7 DEF Shape, DepIndexExact, ReadersOf
<1>4. ASSUME formula_clear_all
      PROVE  IInv' /\ NoCycle(formulas')
  <2>1. formulas' \in Seq(Formula) /\ DOMAIN formulas' = {}
    BY <1>4 DEF formula_clear_all
  <2>2. formula_dep_index' = [d \in Cells |-> {}]
    BY <1>4 DEF formula_clear_all
  <2> QED
    BY <2>1, <2>2 DEF Shape, Once, NoCycle, DepIndexExact
<1>5. ASSUME NEW f \in Inputs, formula_register(f)
      PROVE  IInv' /\ NoCycle(formulas')
  BY <1>1, <1>2, <1>3, <1>5 DEF formula_register, RegisterRefused, RegisterCyclic, vars
<1>6. ASSUME NEW t \in Cells, formula_remove(t)
      PROVE  IInv' /\ NoCycle(formulas')
  BY <1>2, <1>6 DEF formula_remove
<1>7. ASSUME NEW c \in Cells, NEW v \in StoreValues, Store(c, v) \/ HostEdit(c, v)
      PROVE  IInv' /\ NoCycle(formulas')
  BY <1>1, <1>7 DEF Store, HostEdit
<1> QED
  BY <1>1, <1>4, <1>5, <1>6, <1>7 DEF Next, vars

LEMMA Inductive == Spec => [](IInv /\ NoCycle(formulas))
<1>1. IInv /\ NoCycle(formulas) /\ [Next]_vars => (IInv /\ NoCycle(formulas))'
  BY StepInv
<1> QED
  BY <1>1, InitInv, PTL DEF Spec

\* The dependency index names exactly the readers of every cell, at their
\* present positions (formula_register, formula_remove).
THEOREM IndexCorrect == Spec => []DepIndexExact
<1>1. IInv => DepIndexExact
  BY DEF IInv
<1> QED
  BY <1>1, Inductive, PTL

\* No cell ever has two formulas (the removal that precedes every
\* registration).
THEOREM OneEach == Spec => []OneFormulaPerCell
<1>1. IInv => OneFormulaPerCell
  BY DEF IInv, Once, OneFormulaPerCell
<1> QED
  BY <1>1, Inductive, PTL

\* Vector and index agree, for canvases and limits of any size.
THEOREM Sound == Spec => []VectorSound
<1>1. DepIndexExact /\ OneFormulaPerCell => VectorSound
  BY DEF VectorSound
<1> QED
  BY <1>1, IndexCorrect, OneEach, PTL

\* No cell ever depends on itself, through any number of formulas
\* (has_formula_cycle is asked after the removal, and suffices).
THEOREM NeverCyclic == Spec => []Acyclic
<1>1. NoCycle(formulas) => Acyclic
  BY DEF NoCycle, Acyclic
<1> QED
  BY <1>1, Inductive, PTL
-----------------------------------------------------------------------------
(* The sheet a vector of formulas stands for. *)
SheetFrom(fs) ==
    [c \in Cells |-> LET at == {i \in DOMAIN fs : fs[i].target_idx = c}
                     IN  IF at = {} THEN NoFormula
                         ELSE fs[CHOOSE i \in at : \A j \in at : i <= j]]

LEMMA SheetOfIs == SheetOf = SheetFrom(formulas)
BY DEF SheetOf, SheetFrom, At, Pos

LEMMA SheetAt ==
    ASSUME NEW fs \in Seq(Formula), Once(fs)
    PROVE  /\ \A i \in DOMAIN fs : SheetFrom(fs)[fs[i].target_idx] = fs[i]
           /\ \A c \in Cells : (\A i \in DOMAIN fs : fs[i].target_idx # c)
                                  => SheetFrom(fs)[c] = NoFormula
<1>1. DOMAIN fs = 1 .. Len(fs) /\ Len(fs) \in Nat
  OBVIOUS
<1>2. ASSUME NEW i \in DOMAIN fs
      PROVE  SheetFrom(fs)[fs[i].target_idx] = fs[i]
  <2> DEFINE c == fs[i].target_idx
             at == {j \in DOMAIN fs : fs[j].target_idx = c}
             first == CHOOSE j \in at : \A k \in at : j <= k
  <2>1. c \in Cells
    <3>1. fs[i] \in Formula
      OBVIOUS
    <3> QED
      BY <3>1 DEF Formula
  <2>2. at = {i}
    BY DEF Once
  <2>3. \A k \in at : i <= k
    BY <1>1, <2>2
  <2>4. first \in at
    BY <2>2, <2>3
  <2>5. first = i
    BY <2>2, <2>4
  <2>6. SheetFrom(fs)[c] = IF at = {} THEN NoFormula ELSE fs[first]
    BY <2>1 DEF SheetFrom
  <2> QED
    BY <2>2, <2>5, <2>6
<1>3. ASSUME NEW c \in Cells, \A i \in DOMAIN fs : fs[i].target_idx # c
      PROVE  SheetFrom(fs)[c] = NoFormula
  BY <1>3 DEF SheetFrom
<1> QED
  BY <1>2, <1>3

LEMMA SheetDomain ==
    ASSUME NEW fs
    PROVE  SheetFrom(fs) = [c \in Cells |-> SheetFrom(fs)[c]]
BY DEF SheetFrom

(* Where the sheet has a formula, it is the one the vector has there.      *)
LEMMA SheetFormula ==
    ASSUME NEW fs \in Seq(Formula), Once(fs), NEW c \in Cells
    PROVE  \/ \E i \in DOMAIN fs : fs[i].target_idx = c /\ SheetFrom(fs)[c] = fs[i]
           \/ SheetFrom(fs)[c] = NoFormula /\ \A i \in DOMAIN fs : fs[i].target_idx # c
BY SheetAt

LEMMA NoFormulaIsNone ==
    ASSUME NEW f \in Formula
    PROVE  f # NoFormula
<1>1. f.target_idx \in Cells /\ NoFormula.target_idx = -1
  BY DEF Formula, NoFormula
<1>2. -1 \notin Cells
  BY FormulasAssumption DEF FormulasAssumption, Cells
<1> QED
  BY <1>1, <1>2

(* Removal clears one cell of the sheet. *)
LEMMA RemovedSheet ==
    ASSUME Shape, Once(formulas), NEW t \in Cells
    PROVE  SheetFrom(Removed(t)) = [SheetFrom(formulas) EXCEPT ![t] = NoFormula]
<1> DEFINE fs == Removed(t)
<1>1. /\ fs \in Seq(Formula) /\ Once(fs)
      /\ \A i \in DOMAIN fs : fs[i].target_idx # t /\ \E j \in DOMAIN formulas : fs[i] = formulas[j]
      /\ \A j \in DOMAIN formulas : formulas[j].target_idx # t =>
            \E i \in DOMAIN fs : fs[i] = formulas[j]
  BY RemovedShape
<1>2. formulas \in Seq(Formula)
  BY DEF Shape
<1> HIDE DEF fs
<1>3. SheetFrom(fs)[t] = NoFormula
  BY <1>1, SheetAt
<1>4. ASSUME NEW c \in Cells, c # t
      PROVE  SheetFrom(fs)[c] = SheetFrom(formulas)[c]
  <2>1. CASE \E j \in DOMAIN formulas : formulas[j].target_idx = c
    <3>1. PICK j \in DOMAIN formulas : formulas[j].target_idx = c
      BY <2>1
    <3>2. PICK i \in DOMAIN fs : fs[i] = formulas[j]
      BY <1>1, <1>4, <3>1
    <3>3. SheetFrom(formulas)[c] = formulas[j] /\ SheetFrom(fs)[c] = fs[i]
      BY SMTT(30), <1>1, <1>2, <3>1, <3>2, SheetAt
    <3> QED
      BY <3>2, <3>3
  <2>2. CASE \A j \in DOMAIN formulas : formulas[j].target_idx # c
    <3>1. \A i \in DOMAIN fs : fs[i].target_idx # c
      BY <1>1, <2>2
    <3> QED
      BY <1>1, <1>2, <2>2, <3>1, SheetAt
  <2> QED
    BY <2>1, <2>2
<1>5. SheetFrom(fs) = [SheetFrom(formulas) EXCEPT ![t] = NoFormula]
  <2>1. \A c \in Cells : c # t => SheetFrom(fs)[c] = SheetFrom(formulas)[c]
    BY <1>4
  <2> QED
    BY <1>3, <2>1, SheetDomain
<1> QED
  BY <1>5 DEF fs

(* Appending the formula of a cell that has none sets it in the sheet.     *)
LEMMA AppendSheet ==
    ASSUME NEW fs \in Seq(Formula), Once(fs), NEW f \in Formula,
           \A i \in DOMAIN fs : fs[i].target_idx # f.target_idx
    PROVE  SheetFrom(Append(fs, f)) = [SheetFrom(fs) EXCEPT ![f.target_idx] = f]
<1> DEFINE gs == Append(fs, f)
           m == Len(fs)
<1>1. m \in Nat /\ DOMAIN fs = 1 .. m /\ DOMAIN gs = 1 .. m + 1
  OBVIOUS
<1>2. gs[m + 1] = f /\ \A i \in 1 .. m : gs[i] = fs[i]
  OBVIOUS
<1>3. m + 1 \in 1 .. m + 1 /\ \A i \in 1 .. m + 1 : i \in 1 .. m \/ i = m + 1
  BY <1>1
<1>4. gs \in Seq(Formula) /\ Once(gs)
  BY AppendShape
<1> HIDE DEF gs, m
<1>5. f.target_idx \in Cells
  BY DEF Formula
<1>6. SheetFrom(gs)[f.target_idx] = f
  BY <1>1, <1>2, <1>3, <1>4, SheetAt
<1>7. ASSUME NEW c \in Cells, c # f.target_idx
      PROVE  SheetFrom(gs)[c] = SheetFrom(fs)[c]
  <2>1. CASE \E i \in DOMAIN fs : fs[i].target_idx = c
    <3>1. PICK i \in DOMAIN fs : fs[i].target_idx = c
      BY <2>1
    <3>2. i \in DOMAIN gs /\ gs[i] = fs[i]
      BY <1>1, <1>2
    <3> QED
      BY <1>4, <3>1, <3>2, SheetAt
  <2>2. CASE \A i \in DOMAIN fs : fs[i].target_idx # c
    <3>1. \A i \in DOMAIN gs : gs[i].target_idx # c
      BY <1>1, <1>2, <1>3, <1>7, <2>2
    <3> QED
      BY <1>4, <2>2, <3>1, SheetAt
  <2> QED
    BY <2>1, <2>2
<1>8. SheetFrom(gs) = [SheetFrom(fs) EXCEPT ![f.target_idx] = f]
  <2>1. \A c \in Cells : c # f.target_idx => SheetFrom(gs)[c] = SheetFrom(fs)[c]
    BY <1>7
  <2> QED
    BY <1>5, <1>6, <2>1, SheetDomain
<1> QED
  BY <1>8 DEF gs
-----------------------------------------------------------------------------
(* The step of the sheet. *)
SheetNext ==
    \/ Sheet!Clear
    \/ \E c \in Cells, v \in StoreValues : Sheet!Store(c, v) \/ Sheet!Edit(c, v)
    \/ \E c \in Cells : \E f \in Inputs \cup {NoFormula} : Sheet!Define(c, f)

(* A store concerns the same formulas in the vector, by the index, and in  *)
(* the sheet.                                                              *)
LEMMA StoreIsSheetStore ==
    ASSUME IInv, NEW c \in Cells, NEW v \in StoreValues, Store(c, v)
    PROVE  Sheet!Store(c, v)
<1> USE DEF IInv
<1> DEFINE stored == [canvas_buffer EXCEPT ![c] = v]
           sound == \A i \in Affected(c) : Computable(formulas[i])
           Writers(t) == {i \in Affected(c) : formulas[i].target_idx = t}
           sheet == SheetFrom(formulas)
           concerned == {t \in Cells : sheet[t] # NoFormula /\ c \in Deps(sheet[t])}
<1>1. formulas \in Seq(Formula) /\ DOMAIN formulas = 1 .. Len(formulas)
  BY DEF Shape
<1>2. Affected(c) = {i \in DOMAIN formulas : c \in Deps(formulas[i])}
  BY DEF Affected, DepIndexExact
<1>3. \A i \in DOMAIN formulas :
          /\ formulas[i].target_idx \in Cells
          /\ formulas[i] # NoFormula
          /\ sheet[formulas[i].target_idx] = formulas[i]
  <2>1. \A i \in DOMAIN formulas : formulas[i] \in Formula
    BY <1>1
  <2> QED
    BY <1>1, <2>1, NoFormulaIsNone, SheetAt DEF Formula
<1>4. \A t \in concerned : \E i \in Affected(c) :
          formulas[i].target_idx = t /\ sheet[t] = formulas[i]
  BY <1>1, <1>2, SheetFormula
<1>5. \A i \in Affected(c) : formulas[i].target_idx \in concerned
  BY <1>2, <1>3
<1> HIDE DEF sheet, concerned
<1>6. sound <=> \A t \in concerned : Computable(sheet[t])
  BY <1>2, <1>3, <1>4, <1>5
<1>7. ASSUME NEW t \in Cells
      PROVE  /\ Writers(t) # {} <=> t \in concerned
             /\ Writers(t) # {} => formulas[CHOOSE i \in Writers(t) : TRUE] = sheet[t]
  <2>1. Writers(t) # {} <=> t \in concerned
    BY <1>4, <1>5
  <2>2. ASSUME Writers(t) # {}
        PROVE  formulas[CHOOSE i \in Writers(t) : TRUE] = sheet[t]
    <3>1. (CHOOSE i \in Writers(t) : TRUE) \in Writers(t)
      BY <2>2
    <3> QED
      BY <1>2, <1>3, <3>1
  <2> QED
    BY <2>1, <2>2
<1>8. /\ crashed' = ~sound
      /\ canvas_buffer' = [t \in Cells |->
            IF sound /\ Writers(t) # {}
            THEN formula_eval(formulas[CHOOSE i \in Writers(t) : TRUE], stored) ELSE stored[t]]
      /\ formulas' = formulas
  BY DEF Store
<1> HIDE DEF sound, Writers, stored
<1>9. crashed' = ~(\A t \in concerned : Computable(sheet[t]))
  BY <1>6, <1>8
<1>10. canvas_buffer' = [t \in Cells |->
            IF (\A u \in concerned : Computable(sheet[u])) /\ t \in concerned
            THEN formula_eval(sheet[t], stored) ELSE stored[t]]
  BY <1>6, <1>7, <1>8
<1>11. SheetOf' = SheetOf /\ SheetOf = sheet
  <2>1. SheetOf = sheet
    BY SheetOfIs DEF sheet
  <2>2. SheetOf' = SheetFrom(formulas')
    BY DEF SheetOf, SheetFrom, At, Pos
  <2> QED
    BY <1>8, <2>1, <2>2 DEF sheet
<1> QED
  BY <1>9, <1>10, <1>11 DEF Sheet!Store, Sheet!Affected, concerned, stored

LEMMA SheetStep ==
    ASSUME IInv, [Next]_vars
    PROVE  [SheetNext]_(Sheet!vars)
<1> USE DEF IInv
<1>0. SheetOf = SheetFrom(formulas) /\ SheetOf' = SheetFrom(formulas')
  BY SheetOfIs DEF SheetOf, SheetFrom, At, Pos
<1>1. ASSUME UNCHANGED vars
      PROVE  UNCHANGED Sheet!vars
  BY <1>0, <1>1 DEF vars, Sheet!vars
<1>2. ASSUME NEW t \in Cells,
             formulas' = Removed(t), UNCHANGED <<canvas_buffer, crashed>>
      PROVE  SheetNext
  <2>1. SheetOf' = [SheetOf EXCEPT ![t] = NoFormula]
    BY <1>0, <1>2, RemovedSheet
  <2>2. Sheet!Define(t, NoFormula)
    BY <1>2, <2>1 DEF Sheet!Define
  <2> QED
    BY <2>2 DEF SheetNext
<1>3. ASSUME NEW f \in Inputs, RegisterDone(f)
      PROVE  SheetNext
  <2> DEFINE fs == Removed(f.target_idx)
  <2>1. f \in Formula
    BY <1>3, AdmissibleIsFormula DEF RegisterDone
  <2>2. formulas' = Append(fs, f) /\ UNCHANGED <<canvas_buffer, crashed>>
    BY <1>3 DEF RegisterDone
  <2>3. f.target_idx \in Cells
    BY <2>1 DEF Formula
  <2>4. /\ fs \in Seq(Formula) /\ Once(fs)
        /\ \A i \in DOMAIN fs : fs[i].target_idx # f.target_idx
        /\ SheetFrom(fs) = [SheetFrom(formulas) EXCEPT ![f.target_idx] = NoFormula]
    BY <2>3, RemovedShape, RemovedSheet
  <2> HIDE DEF fs
  <2>5. SheetFrom(formulas') = [SheetFrom(fs) EXCEPT ![f.target_idx] = f]
    BY <2>1, <2>2, <2>4, AppendSheet
  <2>6. SheetFrom(formulas') = [SheetFrom(formulas) EXCEPT ![f.target_idx] = f]
    BY <2>3, <2>4, <2>5, SheetDomain
  <2>7. Sheet!Define(f.target_idx, f)
    BY <1>0, <2>2, <2>6 DEF Sheet!Define
  <2> QED
    BY <2>3, <2>7 DEF SheetNext
<1>4. ASSUME formula_clear_all
      PROVE  SheetNext
  <2>1. formulas' = << >> /\ DOMAIN formulas' = {} /\ UNCHANGED <<canvas_buffer, crashed>>
    BY <1>4 DEF formula_clear_all
  <2>2. SheetFrom(formulas') = [c \in Cells |-> NoFormula]
    BY <2>1 DEF SheetFrom
  <2> QED
    BY <1>0, <2>1, <2>2 DEF SheetNext, Sheet!Clear
<1>5. ASSUME NEW f \in Inputs, formula_register(f)
      PROVE  SheetNext \/ UNCHANGED Sheet!vars
  BY <1>1, <1>2, <1>3, <1>5 DEF formula_register, RegisterRefused, RegisterCyclic, Admissible
<1>6. ASSUME NEW t \in Cells, formula_remove(t)
      PROVE  SheetNext
  BY <1>2, <1>6 DEF formula_remove
<1>7. ASSUME NEW c \in Cells, NEW v \in StoreValues, Store(c, v)
      PROVE  SheetNext
  BY <1>7, StoreIsSheetStore DEF SheetNext
<1>8. ASSUME NEW c \in Cells, NEW v \in StoreValues, HostEdit(c, v)
      PROVE  SheetNext
  <2>1. Sheet!Edit(c, v)
    BY <1>0, <1>8 DEF HostEdit, Sheet!Edit
  <2> QED
    BY <2>1 DEF SheetNext
<1> QED
  BY <1>1, <1>4, <1>5, <1>6, <1>7, <1>8 DEF Next

LEMMA SheetInit == Init => Sheet!Init([c \in Cells |-> 0])
<1> SUFFICES ASSUME Init PROVE Sheet!Init([c \in Cells |-> 0])
  OBVIOUS
<1>1. formulas = << >> /\ DOMAIN formulas = {}
  BY DEF Init
<1>2. SheetOf = [c \in Cells |-> NoFormula]
  BY <1>1 DEF SheetOf, At
<1> QED
  BY <1>2 DEF Init, Sheet!Init

\* The vector of formulas with its index implements the sheet of cells.
THEOREM Refinement == Spec => ImplementsSheet
<1>1. IInv /\ [Next]_vars => [SheetNext]_(Sheet!vars)
  BY SheetStep
<1>2. Spec => Sheet!Init([c \in Cells |-> 0]) /\ [][SheetNext]_(Sheet!vars)
  BY <1>1, SheetInit, Inductive, PTL DEF Spec
<1> QED
  BY <1>2 DEF ImplementsSheet, SheetNext
-----------------------------------------------------------------------------
(* Values: powers of two, words for given bits, and the operations.        *)

(* A non-empty set of naturals has a least element.                        *)
LEMMA LeastNumber ==
    ASSUME NEW N \in SUBSET Nat, N # {}
    PROVE  \E n \in N : \A m \in N : n <= m
<1> DEFINE R == {ss \in Nat \X Nat : ss[1] < ss[2]}
<1>1. IsWellFoundedOn(R, Nat)
  BY NatLessThanWellFounded DEF OpToRel
<1> HIDE DEF R
<1>2. PICK n \in N : \A m \in N : <<m, n>> \notin R
  BY <1>1, WFMin
<1>3. \A m \in N : n <= m
  <2> TAKE m \in N
  <2>1. m \in Nat /\ n \in Nat
    OBVIOUS
  <2>2. m < n => <<m, n>> \in R
    BY <2>1 DEF R
  <2> QED BY <1>2, <2>1, <2>2
<1> QED BY <1>3

(* The powers of two: that there is such a list, by its least bad length.  *)
Doubles(h, n) ==
    /\ h \in [0 .. n -> Nat \ {0}] /\ h[0] = 1
    /\ \A k \in 1 .. n : h[k] = 2 * h[k - 1]

LEMMA DoublesExist == \A n \in Nat : \E h : Doubles(h, n)
<1> DEFINE Bad == {n \in Nat : ~\E h : Doubles(h, n)}
<1> SUFFICES ASSUME Bad # {} PROVE FALSE
  OBVIOUS
<1>1. Bad \in SUBSET Nat
  OBVIOUS
<1> HIDE DEF Bad
<1>2. PICK n \in Bad : \A m \in Bad : n <= m
  BY <1>1, LeastNumber
<1>3. n \in Nat /\ ~\E h : Doubles(h, n)
  BY <1>2 DEF Bad
<1>4. CASE n = 0
  <2>1. Doubles([k \in 0 .. 0 |-> 1], 0)
    BY DEF Doubles
  <2> QED BY <1>3, <1>4, <2>1
<1>5. CASE n # 0
  <2>1. n - 1 \in Nat /\ ~(n <= n - 1)
    BY <1>3, <1>5
  <2>2. PICK h : Doubles(h, n - 1)
    BY <1>2, <2>1 DEF Bad
  <2> DEFINE g == [k \in 0 .. n |-> IF k = n THEN 2 * h[n - 1] ELSE h[k]]
  <2>3. \A k \in 0 .. n - 1 : h[k] \in Nat \ {0}
    BY <2>2 DEF Doubles
  <2>4. g \in [0 .. n -> Nat \ {0}]
    <3>1. \A k \in 0 .. n : g[k] \in Nat \ {0}
      <4> TAKE k \in 0 .. n
      <4>1. k = n \/ k \in 0 .. n - 1
        BY <1>3
      <4>2. h[n - 1] \in Nat \ {0} /\ 2 * h[n - 1] \in Nat \ {0}
        BY <2>1, <2>3
      <4> QED BY <2>3, <4>1, <4>2
    <3> QED BY <3>1
  <2>5. g[0] = 1
    BY <1>3, <1>5, <2>2 DEF Doubles
  <2>6. ASSUME NEW k \in 1 .. n PROVE g[k] = 2 * g[k - 1]
    <3>1. g[k - 1] = h[k - 1]
      BY <1>3, <2>1
    <3>2. CASE k = n
      BY <2>1, <3>1, <3>2
    <3>3. CASE k # n
      <4>1. k \in 1 .. n - 1
        BY <1>3, <2>1, <3>3
      <4>2. g[k] = h[k] /\ h[k] = 2 * h[k - 1]
        BY <2>1, <2>2, <4>1 DEF Doubles
      <4> QED BY <3>1, <4>2
    <3> QED BY <3>2, <3>3
  <2> HIDE DEF g
  <2>7. Doubles(g, n)
    BY <2>4, <2>5, <2>6 DEF Doubles
  <2> QED BY <1>3, <2>7
<1> QED BY <1>4, <1>5

LEMMA Powers == Doubles(TwoTo, Width)
<1>1. Width \in Nat
  BY FormulasAssumption DEF FormulasAssumption
<1>2. PICK h : Doubles(h, Width)
  BY <1>1, DoublesExist
<1> DEFINE D(f) == [k \in 0 .. Width |-> IF k = 0 THEN 1 ELSE 2 * f[k - 1]]
<1>3. h = D(h)
  <2>1. h = [k \in 0 .. Width |-> h[k]]
    BY <1>2 DEF Doubles
  <2>2. \A k \in 0 .. Width : h[k] = IF k = 0 THEN 1 ELSE 2 * h[k - 1]
    <3> TAKE k \in 0 .. Width
    <3>1. k = 0 \/ k \in 1 .. Width
      BY <1>1
    <3> QED BY <1>2, <3>1 DEF Doubles
  <2> QED BY <2>1, <2>2
<1>4. TwoTo = CHOOSE f : f = D(f)
  BY DEF TwoTo
<1> HIDE DEF D
<1>5. TwoTo = D(TwoTo)
  BY <1>3, <1>4
<1>6. DOMAIN TwoTo = 0 .. Width /\ TwoTo = [k \in 0 .. Width |-> TwoTo[k]]
  BY <1>5 DEF D
<1>7. \A k \in 0 .. Width : TwoTo[k] = IF k = 0 THEN 1 ELSE 2 * TwoTo[k - 1]
  BY <1>5 DEF D
<1>8. \A k \in 0 .. Width : TwoTo[k] = h[k]
  <2> DEFINE Bad == {k \in 0 .. Width : TwoTo[k] # h[k]}
  <2> SUFFICES ASSUME Bad # {} PROVE FALSE
    OBVIOUS
  <2>1. Bad \in SUBSET Nat
    BY <1>1
  <2> HIDE DEF Bad
  <2>2. PICK n \in Bad : \A m \in Bad : n <= m
    BY <2>1, LeastNumber
  <2>3. n \in 0 .. Width /\ TwoTo[n] # h[n]
    BY <2>2 DEF Bad
  <2>4. CASE n = 0
    BY <1>2, <1>7, <2>3, <2>4 DEF Doubles
  <2>5. CASE n # 0
    <3>1. n \in 1 .. Width /\ n - 1 \in 0 .. Width /\ ~(n <= n - 1)
      BY <1>1, <2>3, <2>5
    <3>2. TwoTo[n - 1] = h[n - 1]
      BY <2>2, <3>1 DEF Bad
    <3>3. h[n] = 2 * h[n - 1]
      BY <1>2, <3>1 DEF Doubles
    <3>4. TwoTo[n] = 2 * TwoTo[n - 1]
      BY <1>7, <2>3, <2>5
    <3> QED BY <2>3, <3>2, <3>3, <3>4
  <2> QED BY <2>4, <2>5
<1>9. TwoTo = h
  <2>1. h = [k \in 0 .. Width |-> h[k]]
    BY <1>2 DEF Doubles
  <2> QED BY <1>6, <1>8, <2>1
<1> QED BY <1>2, <1>9

LEMMA PowersAre ==
    /\ Width \in Nat \ {0} /\ WORD \in Nat \ {0}
    /\ \A k \in 0 .. Width : TwoTo[k] \in Nat \ {0}
    /\ TwoTo[0] = 1 /\ \A k \in 1 .. Width : TwoTo[k] = 2 * TwoTo[k - 1]
<1>1. Width \in Nat \ {0}
  BY FormulasAssumption DEF FormulasAssumption
<1> QED BY <1>1, Powers DEF Doubles, WORD

(* Half a number, and what a division leaves of it.                        *)
LEMMA Halves ==
    ASSUME NEW w \in Nat, NEW b \in {0, 1}, NEW p \in Nat \ {0}
    PROVE  (2 * w + b) \div (2 * p) = w \div p
<1>1. PICK q \in Nat, r \in 0 .. p - 1 : w = q * p + r /\ w \div p = q
  OBVIOUS
<1>2. 2 * r + b \in 0 .. 2 * p - 1
  OBVIOUS
<1>3. 2 * w + b = q * (2 * p) + (2 * r + b)
  BY <1>1
<1>4. PICK a \in Nat, d \in Nat \ {0}, s \in Nat : a = 2 * w + b /\ d = 2 * p /\ s = 2 * r + b
  BY <1>2
<1>5. a = q * d + s /\ s \in 0 .. d - 1
  BY <1>2, <1>3, <1>4
<1>6. a \div d = q
  BY <1>5
<1> QED BY <1>1, <1>4, <1>6

(* There is a word for any bits.                                           *)
Spelt(w, g, n) == w \in 0 .. TwoTo[n] - 1 /\ \A k \in 0 .. n - 1 : Bit(w, k) = g[k]

LEMMA BitsSpell ==
    \A n \in 0 .. Width : \A g \in [Nat -> {0, 1}] : \E w \in Nat : Spelt(w, g, n)
<1> DEFINE Bad == {n \in 0 .. Width : \E g \in [Nat -> {0, 1}] : ~\E w \in Nat : Spelt(w, g, n)}
<1> SUFFICES ASSUME Bad # {} PROVE FALSE
  OBVIOUS
<1>1. Bad \in SUBSET Nat
  BY PowersAre
<1> HIDE DEF Bad
<1>2. PICK n \in Bad : \A m \in Bad : n <= m
  BY <1>1, LeastNumber
<1>3. n \in 0 .. Width
  BY <1>2 DEF Bad
<1>4. PICK g \in [Nat -> {0, 1}] : ~\E w \in Nat : Spelt(w, g, n)
  BY <1>2 DEF Bad
<1>5. CASE n = 0
  <2>1. Spelt(0, g, 0)
    BY PowersAre DEF Spelt
  <2> QED BY <1>4, <1>5, <2>1
<1>6. CASE n # 0
  <2>1. n \in 1 .. Width /\ n - 1 \in 0 .. Width /\ ~(n <= n - 1)
    BY <1>3, <1>6, PowersAre
  <2> DEFINE s == [k \in Nat |-> g[k + 1]]
  <2>2. s \in [Nat -> {0, 1}]
    OBVIOUS
  <2>s. \A k \in Nat : s[k] = g[k + 1]
    OBVIOUS
  <2> HIDE DEF s
  <2>3. PICK w \in Nat : Spelt(w, s, n - 1)
    BY <1>2, <2>1, <2>2 DEF Bad
  <2>4. g[0] \in {0, 1}
    OBVIOUS
  <2> DEFINE v == 2 * w + g[0]
  <2>5. v \in 0 .. TwoTo[n] - 1 /\ v \in Nat
    <3>1. w <= TwoTo[n - 1] - 1 /\ TwoTo[n] = 2 * TwoTo[n - 1] /\ TwoTo[n - 1] \in Nat
      BY <2>1, <2>3, PowersAre DEF Spelt
    <3> QED BY <2>4, <3>1
  <2>6. ASSUME NEW k \in 0 .. n - 1 PROVE Bit(v, k) = g[k]
    <3>1. CASE k = 0
      <4>1. v \div 1 = v /\ v % 2 = g[0]
        BY <2>4, <2>5
      <4> HIDE DEF v
      <4> QED BY <3>1, <4>1, PowersAre DEF Bit
    <3>2. CASE k # 0
      <4>1. k \in 1 .. Width /\ k - 1 \in 0 .. (n - 1) - 1 /\ k - 1 \in 0 .. Width /\ k - 1 \in Nat
        BY <2>1, <3>2, PowersAre
      <4>2. TwoTo[k] = 2 * TwoTo[k - 1] /\ TwoTo[k - 1] \in Nat \ {0}
        BY <4>1, PowersAre
      <4>3. v \div TwoTo[k] = w \div TwoTo[k - 1]
        <5>1. PICK p \in Nat \ {0}, b \in {0, 1} : p = TwoTo[k - 1] /\ b = g[0]
          BY <2>4, <4>2
        <5>2. (2 * w + b) \div (2 * p) = w \div p
          BY Halves
        <5>3. v = 2 * w + b
          BY <5>1
        <5> HIDE DEF v
        <5> QED BY <4>2, <5>1, <5>2, <5>3
      <4>4. Bit(v, k) = Bit(w, k - 1)
        BY <4>3 DEF Bit
      <4>5. Bit(w, k - 1) = s[k - 1] /\ s[k - 1] = g[k]
        BY <2>3, <2>s, <4>1 DEF Spelt
      <4> QED BY <4>4, <4>5
    <3> QED BY <3>1, <3>2
  <2> HIDE DEF v
  <2>7. Spelt(v, g, n)
    BY <2>5, <2>6 DEF Spelt
  <2> QED BY <1>4, <2>5, <2>7
<1> QED BY <1>5, <1>6

(* Each operation gives a word.                                            *)
LEMMA BitIs == \A a \in Nat, k \in 0 .. Width : Bit(a, k) \in {0, 1}
<1> TAKE a \in Nat, k \in 0 .. Width
<1>1. PICK q : q = a \div TwoTo[k]
  OBVIOUS
<1>2. q \in Nat
  BY <1>1, PowersAre
<1>3. q % 2 \in {0, 1}
  BY <1>2
<1> QED BY <1>1, <1>3 DEF Bit

LEMMA SomeWord ==
    ASSUME NEW g \in [Nat -> {0, 1}]
    PROVE  \E w \in Value : \A k \in 0 .. Width - 1 : Bit(w, k) = g[k]
<1>1. Width \in 0 .. Width
  BY PowersAre
<1>2. PICK w \in Nat : Spelt(w, g, Width)
  BY <1>1, BitsSpell
<1> QED BY <1>2 DEF Spelt, Value, WORD

LEMMA BitwiseIs ==
    ASSUME NEW a \in Nat, NEW b \in Nat, NEW op \in {"AND", "OR", "XOR"}
    PROVE  Apply(op, a, b) \in Value
<1>1. \A k \in 0 .. Width - 1 : Bit(a, k) \in {0, 1} /\ Bit(b, k) \in {0, 1}
  BY BitIs, PowersAre
<1>2. CASE op = "AND"
  <2> DEFINE g == [k \in Nat |-> IF k \in 0 .. Width - 1 THEN Bit(a, k) * Bit(b, k) ELSE 0]
  <2>1. g \in [Nat -> {0, 1}]
    BY <1>1
  <2>2. \A k \in 0 .. Width - 1 : g[k] = Bit(a, k) * Bit(b, k)
    BY PowersAre
  <2> HIDE DEF g
  <2>3. \E w \in Value : \A k \in 0 .. Width - 1 : Bit(w, k) = Bit(a, k) * Bit(b, k)
    BY <2>1, <2>2, SomeWord
  <2>4. Apply("AND", a, b)
          = CHOOSE w \in Value : \A k \in 0 .. Width - 1 : Bit(w, k) = Bit(a, k) * Bit(b, k)
    BY DEF Apply, Bits
  <2> QED BY <1>2, <2>3, <2>4
<1>3. CASE op = "OR"
  <2> DEFINE g == [k \in Nat |-> IF k \in 0 .. Width - 1
                                 THEN IF Bit(a, k) + Bit(b, k) = 0 THEN 0 ELSE 1 ELSE 0]
  <2>1. g \in [Nat -> {0, 1}]
    BY <1>1
  <2>2. \A k \in 0 .. Width - 1 : g[k] = IF Bit(a, k) + Bit(b, k) = 0 THEN 0 ELSE 1
    BY PowersAre
  <2> HIDE DEF g
  <2>3. \E w \in Value : \A k \in 0 .. Width - 1 : Bit(w, k) = IF Bit(a, k) + Bit(b, k) = 0 THEN 0 ELSE 1
    BY <2>1, <2>2, SomeWord
  <2>4. Apply("OR", a, b)
          = CHOOSE w \in Value : \A k \in 0 .. Width - 1 :
               Bit(w, k) = IF Bit(a, k) + Bit(b, k) = 0 THEN 0 ELSE 1
    BY DEF Apply, Bits
  <2> QED BY <1>3, <2>3, <2>4
<1>4. CASE op = "XOR"
  <2> DEFINE g == [k \in Nat |-> IF k \in 0 .. Width - 1 THEN (Bit(a, k) + Bit(b, k)) % 2 ELSE 0]
  <2>1. g \in [Nat -> {0, 1}]
    BY <1>1
  <2>2. \A k \in 0 .. Width - 1 : g[k] = (Bit(a, k) + Bit(b, k)) % 2
    BY PowersAre
  <2> HIDE DEF g
  <2>3. \E w \in Value : \A k \in 0 .. Width - 1 : Bit(w, k) = (Bit(a, k) + Bit(b, k)) % 2
    BY <2>1, <2>2, SomeWord
  <2>4. Apply("XOR", a, b)
          = CHOOSE w \in Value : \A k \in 0 .. Width - 1 : Bit(w, k) = (Bit(a, k) + Bit(b, k)) % 2
    BY DEF Apply, Bits
  <2> QED BY <1>4, <2>3, <2>4
<1> QED BY <1>2, <1>3, <1>4

LEMMA ApplyFits ==
    ASSUME NEW op \in FormulaOps, NEW a \in Value, NEW b \in Value
    PROVE  Apply(op, a, b) \in Value
<1>1. a \in Nat /\ b \in Nat /\ a < WORD /\ b < WORD /\ WORD \in Nat \ {0}
  BY PowersAre DEF Value
<1>2. \A x \in Int : x % WORD \in Value
  BY <1>1 DEF Value
<1>3. \A d \in Nat \ {0} : a \div d \in Value /\ a % d \in Value
  <2> TAKE d \in Nat \ {0}
  <2>1. a \div d \in Nat /\ a \div d <= a
    BY <1>1
  <2>2. a % d \in Nat /\ a % d <= a
    BY <1>1
  <2> QED BY <1>1, <2>1, <2>2 DEF Value
<1>4. TwoTo[b % Width] \in Nat \ {0}
  <2>1. b % Width \in 0 .. Width
    BY <1>1, PowersAre
  <2> QED BY <2>1, PowersAre
<1>5. a + b \in Int /\ a - b \in Int /\ a * b \in Int /\ a * TwoTo[b % Width] \in Int
  BY <1>1, <1>4
<1>6. 0 \in Value /\ WORD - 1 - a \in Value
  BY <1>1 DEF Value
<1>7. CASE op \in {"AND", "OR", "XOR"}
  BY <1>1, <1>7, BitwiseIs
<1>8. CASE op \in {"ADD", "SUB", "MUL", "SHL"}
  BY <1>2, <1>5, <1>8 DEF Apply
<1>9. CASE op \in {"DIV", "MOD", "SHR"}
  BY <1>1, <1>3, <1>4, <1>6, <1>9 DEF Apply
<1>10. CASE op \in {"NOT", "COPY", "MAX", "MIN"}
  BY <1>6, <1>10 DEF Apply
<1> QED BY <1>7, <1>8, <1>9, <1>10 DEF FormulaOps

ValuesFit == canvas_buffer \in [Cells -> Value] /\ crashed \in BOOLEAN

LEMMA ValuesStep ==
    ASSUME IInv, ValuesFit, [Next]_vars
    PROVE  ValuesFit'
<1>1. CASE UNCHANGED <<canvas_buffer, crashed>>
  BY <1>1 DEF ValuesFit
<1>2. StoreValues \subseteq Value /\ 0 \in Value
  BY FormulasAssumption, PowersAre DEF FormulasAssumption, Value
<1>3. ASSUME NEW c \in Cells, NEW v \in StoreValues, HostEdit(c, v) PROVE ValuesFit'
  BY <1>2, <1>3 DEF HostEdit, ValuesFit
<1>4. ASSUME NEW c \in Cells, NEW v \in StoreValues, Store(c, v) PROVE ValuesFit'
  <2> DEFINE stored == [canvas_buffer EXCEPT ![c] = v]
             sound == \A i \in Affected(c) : Computable(formulas[i])
             Writers(t) == {i \in Affected(c) : formulas[i].target_idx = t}
             Writer(t) == formulas[CHOOSE i \in Writers(t) : TRUE]
  <2>1. /\ crashed' = ~sound
        /\ canvas_buffer' = [t \in Cells |-> IF sound /\ Writers(t) # {}
                                             THEN formula_eval(Writer(t), stored)
                                             ELSE stored[t]]
    BY <1>4 DEF Store
  <2>2. stored \in [Cells -> Value]
    BY <1>2 DEF ValuesFit
  <2>3. \A i \in DOMAIN formulas : formulas[i] \in Formula
    BY DEF IInv, Shape
  <2> HIDE DEF stored, sound
  <2>4. ASSUME NEW f \in Formula PROVE formula_eval(f, stored) \in Value
    <3>1. f.op \in FormulaOps /\ \A i \in DOMAIN f.deps : f.deps[i] \in Cells
      BY DEF Formula
    <3> DEFINE Operand(i) == IF i \in DOMAIN f.deps THEN stored[f.deps[i]] ELSE 0
    <3>2. Operand(1) \in Value /\ Operand(2) \in Value
      BY <1>2, <2>2, <3>1
    <3>3. formula_eval(f, stored) = Apply(f.op, Operand(1), Operand(2))
      BY DEF formula_eval
    <3> HIDE DEF Operand
    <3> QED BY <3>1, <3>2, <3>3, ApplyFits
  <2>5. ASSUME NEW t \in Cells, Writers(t) # {} PROVE Writer(t) \in Formula
    <3>1. (CHOOSE i \in Writers(t) : TRUE) \in Writers(t)
      BY <2>5
    <3>2. Writers(t) \in SUBSET DOMAIN formulas
      BY DEF Affected
    <3> HIDE DEF Writers
    <3> QED BY <2>3, <3>1, <3>2
  <2> HIDE DEF Writers, Writer
  <2>6. canvas_buffer' \in [Cells -> Value]
    BY <2>1, <2>2, <2>4, <2>5
  <2>7. crashed' \in BOOLEAN
    BY <2>1
  <2> QED BY <2>6, <2>7 DEF ValuesFit
<1> QED BY <1>1, <1>3, <1>4 DEF Next, vars, formula_register, RegisterRefused, RegisterCyclic, RegisterDone,
           formula_remove, formula_clear_all

\* Every cell holds a word, whatever the operations, their operands and the
\* width of a cell (formula_eval).
THEOREM TypesCorrect == Spec => []TypeOK
<1>1. Init => ValuesFit
  <2>1. 0 \in Value
    BY PowersAre DEF Value
  <2> QED BY <2>1 DEF Init, ValuesFit
<1>2. IInv /\ ValuesFit /\ [Next]_vars => ValuesFit'
  BY ValuesStep
<1>3. IInv /\ ValuesFit => TypeOK
  BY DEF IInv, Shape, ValuesFit, TypeOK
<1> QED BY <1>1, <1>2, <1>3, Inductive, PTL DEF Spec
=============================================================================
