------------------------------ MODULE Formulas ------------------------------
(***************************************************************************)
(* The formula engine of the reactive canvas (vm/formula.rs): a vector of  *)
(* formulas, and for every cell the positions in that vector of the        *)
(* formulas that read it.  Removing a formula moves the later ones up, and *)
(* every position in the index with them.                                  *)
(*                                                                         *)
(* Positions count from 1.  The index keeps a set where the code keeps a   *)
(* list: the formulas of a list are evaluated over one snapshot and write  *)
(* different cells, so order and repetition in the list change nothing.    *)
(***************************************************************************)
EXTENDS Integers, Sequences

CONSTANTS
    CANVAS_RAM_SIZE,   \* cells of the canvas (4096)
    MAX_FORMULAS,      \* formulas at a time (256)
    MAX_FORMULA_DEPS,  \* cells a formula may read (8)
    Width,             \* bits of a cell (32)
    Ops,               \* operations the programs use
    DepLists,          \* dependency lists the programs use
    StoreValues        \* values the programs store

Cells == 0 .. CANVAS_RAM_SIZE - 1
TwoTo[k \in 0 .. Width] == IF k = 0 THEN 1 ELSE 2 * TwoTo[k - 1]
WORD == TwoTo[Width]
Value == 0 .. WORD - 1
FormulaOps == {"ADD", "SUB", "MUL", "DIV", "AND", "OR", "XOR", "NOT", "COPY",
               "MAX", "MIN", "MOD", "SHL", "SHR"}

ASSUME FormulasAssumption ==
    /\ CANVAS_RAM_SIZE \in Nat \ {0}
    /\ MAX_FORMULAS \in Nat /\ MAX_FORMULA_DEPS \in Nat
    /\ Width \in Nat \ {0}
    /\ Ops \subseteq FormulaOps
    /\ DepLists \subseteq Seq(Nat)
    /\ StoreValues \subseteq Value

VARIABLES
    formulas,           \* Vm::formulas
    formula_dep_index,  \* cell -> positions of the formulas that read it
    canvas_buffer,      \* the value of every cell
    crashed             \* formula_eval indexed past a dependency list

vars == <<formulas, formula_dep_index, canvas_buffer, crashed>>
-----------------------------------------------------------------------------
Deps(f) == {f.deps[i] : i \in DOMAIN f.deps}

Formula == [target_idx : Cells, deps : Seq(Cells), op : FormulaOps]

(* The word whose bits are F of the bits of a and b. *)
Bit(a, k) == (a \div TwoTo[k]) % 2
Bits(a, b, F(_, _)) ==
    CHOOSE w \in Value : \A k \in 0 .. Width - 1 : Bit(w, k) = F(Bit(a, k), Bit(b, k))

Arity(op) == IF op \in {"NOT", "COPY"} THEN 1 ELSE 2

(* Mutant: the sum is not reduced to the width of a cell. *)
ApplyUnwrapped(op, a, b) == IF op = "ADD" THEN a + b ELSE a

Apply(op, a, b) ==
    CASE op = "ADD" -> (a + b) % WORD
      [] op = "SUB" -> (a - b) % WORD
      [] op = "MUL" -> (a * b) % WORD
      [] op = "DIV" -> IF b = 0 THEN 0 ELSE a \div b
      [] op = "MOD" -> IF b = 0 THEN 0 ELSE a % b
      [] op = "AND" -> Bits(a, b, LAMBDA x, y : x * y)
      [] op = "OR"  -> Bits(a, b, LAMBDA x, y : IF x + y = 0 THEN 0 ELSE 1)
      [] op = "XOR" -> Bits(a, b, LAMBDA x, y : (x + y) % 2)
      [] op = "NOT" -> WORD - 1 - a
      [] op = "COPY" -> a
      [] op = "MAX" -> IF a > b THEN a ELSE b
      [] op = "MIN" -> IF a < b THEN a ELSE b
      [] op = "SHL" -> (a * TwoTo[b % Width]) % WORD
      [] op = "SHR" -> a \div TwoTo[b % Width]

(* formula_eval indexes deps[0] and, for two operands, deps[1]. *)
Computable(f) == Len(f.deps) >= Arity(f.op)

formula_eval(f, canvas) ==
    LET Operand(i) == IF i \in DOMAIN f.deps THEN canvas[f.deps[i]] ELSE 0
    IN  Apply(f.op, Operand(1), Operand(2))
-----------------------------------------------------------------------------
(* formula_remove, as what it makes of the vector and of the index. *)
At(t) == {i \in DOMAIN formulas : formulas[i].target_idx = t}

Pos(t) == CHOOSE i \in At(t) : \A j \in At(t) : i <= j

(* Mutant: the old formula of the cell stays. *)
RemovedNot(t) == formulas

Removed(t) ==
    IF At(t) = {} THEN formulas
    ELSE [i \in 1 .. Len(formulas) - 1 |->
             IF i < Pos(t) THEN formulas[i] ELSE formulas[i + 1]]

(* Mutant: the positions after the removed one are not moved. *)
RemovedIndexUnshifted(t) ==
    IF At(t) = {} THEN formula_dep_index
    ELSE [d \in Cells |-> formula_dep_index[d] \ {Pos(t)}]

RemovedIndex(t) ==
    IF At(t) = {} THEN formula_dep_index
    ELSE [d \in Cells |-> {IF i > Pos(t) THEN i - 1 ELSE i :
                              i \in formula_dep_index[d] \ {Pos(t)}}]

(* Cells that reading from the cells of S can lead to stay in any set that *)
(* contains S and is closed under the formulas.                            *)
Closed(fs, R) == \A i \in DOMAIN fs : fs[i].target_idx \in R => Deps(fs[i]) \subseteq R

Reaches(fs, S, t) ==
    \A R \in SUBSET Cells : S \subseteq R /\ Closed(fs, R) => t \in R

(* Mutant: only a formula that reads its own cell is refused. *)
has_formula_cycle_direct(fs, f) == f.target_idx \in Deps(f)

has_formula_cycle(fs, f) == Reaches(fs, Deps(f), f.target_idx)

Admissible(f) ==
    /\ Len(formulas) < MAX_FORMULAS
    /\ Len(f.deps) <= MAX_FORMULA_DEPS
    /\ f.target_idx \in Cells
    /\ Deps(f) \subseteq Cells
-----------------------------------------------------------------------------
Init ==
    /\ formulas = << >>
    /\ formula_dep_index = [d \in Cells |-> {}]
    /\ canvas_buffer = [c \in Cells |-> 0]
    /\ crashed = FALSE

(* FORMULA: the limits are looked at before the old formula of the cell is *)
(* removed, cycles after.                                                  *)
RegisterRefused(f) == ~Admissible(f) /\ UNCHANGED vars

RegisterCyclic(f) ==
    /\ Admissible(f)
    /\ has_formula_cycle(Removed(f.target_idx), f)
    /\ formulas' = Removed(f.target_idx)
    /\ formula_dep_index' = RemovedIndex(f.target_idx)
    /\ UNCHANGED <<canvas_buffer, crashed>>

RegisterDone(f) ==
    LET fs == Removed(f.target_idx)
        index == RemovedIndex(f.target_idx)
    IN  /\ Admissible(f)
        /\ ~has_formula_cycle(fs, f)
        /\ formulas' = Append(fs, f)
        /\ formula_dep_index' =
             [d \in Cells |-> index[d] \cup IF d \in Deps(f) THEN {Len(fs) + 1} ELSE {}]
        /\ UNCHANGED <<canvas_buffer, crashed>>

formula_register(f) == RegisterRefused(f) \/ RegisterCyclic(f) \/ RegisterDone(f)

(* FORMULAREM *)
formula_remove(t) ==
    /\ formulas' = Removed(t)
    /\ formula_dep_index' = RemovedIndex(t)
    /\ UNCHANGED <<canvas_buffer, crashed>>

(* FORMULACLEAR, and Vm::reset *)
formula_clear_all ==
    /\ formulas' = << >>
    /\ formula_dep_index' = [d \in Cells |-> {}]
    /\ UNCHANGED <<canvas_buffer, crashed>>

(* STORE, STORES or STRO to a canvas cell, with the recalculation of what  *)
(* reads that cell.  A formula with too few dependencies for its operation *)
(* ends the program.                                                       *)
Affected(c) == formula_dep_index[c] \cap DOMAIN formulas

Store(c, v) ==
    LET stored == [canvas_buffer EXCEPT ![c] = v]
        sound == \A i \in Affected(c) : Computable(formulas[i])
        Writers(t) == {i \in Affected(c) : formulas[i].target_idx = t}
        Writer(t) == formulas[CHOOSE i \in Writers(t) : TRUE]
    IN  /\ crashed' = ~sound
        /\ canvas_buffer' = [t \in Cells |-> IF sound /\ Writers(t) # {}
                                             THEN formula_eval(Writer(t), stored)
                                             ELSE stored[t]]
        /\ UNCHANGED <<formulas, formula_dep_index>>

(* The host copies the text typed on its canvas into the VM's, without a   *)
(* recalculation.                                                          *)
HostEdit(c, v) ==
    /\ canvas_buffer' = [canvas_buffer EXCEPT ![c] = v]
    /\ UNCHANGED <<formulas, formula_dep_index, crashed>>

(* What programs pass to FORMULA; the first cell past the end among it.    *)
(* The opcode reads no more dependencies than a formula may have.          *)
Clamped(l) == IF Len(l) > MAX_FORMULA_DEPS THEN SubSeq(l, 1, MAX_FORMULA_DEPS) ELSE l

Inputs == [target_idx : 0 .. CANVAS_RAM_SIZE, deps : {Clamped(l) : l \in DepLists}, op : Ops]

Next ==
    \/ /\ ~crashed
       /\ \/ \E f \in Inputs : formula_register(f)
          \/ \E t \in Cells : formula_remove(t)
          \/ formula_clear_all
          \/ \E c \in Cells, v \in StoreValues : Store(c, v) \/ HostEdit(c, v)
    \/ crashed /\ UNCHANGED vars

Spec == Init /\ [][Next]_vars
-----------------------------------------------------------------------------
TypeOK ==
    /\ formulas \in Seq(Formula)
    /\ formula_dep_index \in [Cells -> SUBSET (Nat \ {0})]
    /\ canvas_buffer \in [Cells -> Value]
    /\ crashed \in BOOLEAN

\* The index names exactly the formulas that read a cell, at the positions
\* they have now, after every removal in the middle of the vector and after
\* registrations that failed half-way.
DepIndexExact ==
    \A d \in Cells : formula_dep_index[d] = {i \in DOMAIN formulas : d \in Deps(formulas[i])}

\* A cell has one formula: registering replaces, and no order of
\* registrations, refusals and removals leaves a second one behind.
OneFormulaPerCell ==
    \A i, j \in DOMAIN formulas : formulas[i].target_idx = formulas[j].target_idx => i = j

\* The vector and its index agree, as each of register, remove, clear and
\* recalc relies on.
VectorSound == DepIndexExact /\ OneFormulaPerCell

\* No cell depends on itself, through however many others.
Acyclic ==
    \A i \in DOMAIN formulas :
        ~Reaches(formulas, Deps(formulas[i]), formulas[i].target_idx)

NoFormula == [target_idx |-> -1, deps |-> << >>, op |-> "COPY"]

(* The formula of each cell, wherever it stands in the vector. *)
SheetOf == [c \in Cells |-> IF At(c) = {} THEN NoFormula ELSE formulas[Pos(c)]]

Sheet == INSTANCE FormulaSheet WITH
            Reads <- Deps, Result <- formula_eval, sheet <- SheetOf, value <- canvas_buffer

\* The vector with its index of positions implements the sheet: a store
\* recomputes the formulas that read the cell, each its own, from the values
\* at that moment, and a registration or removal touches no other cell.
ImplementsSheet ==
    /\ Sheet!Init([c \in Cells |-> 0])
    /\ [][\/ Sheet!Clear
          \/ \E c \in Cells, v \in StoreValues : Sheet!Store(c, v) \/ Sheet!Edit(c, v)
          \/ \E c \in Cells : \E f \in Inputs \cup {NoFormula} : Sheet!Define(c, f)
         ]_Sheet!vars
=============================================================================
