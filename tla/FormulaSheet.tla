---------------------------- MODULE FormulaSheet ----------------------------
(***************************************************************************)
(* What the reactive canvas promises: a sheet of cells, each with a value  *)
(* and at most one formula.  Storing to a cell recomputes the formulas     *)
(* that read it, all from the values at that moment.                       *)
(***************************************************************************)
CONSTANTS
    Cells,              \* the cells of the sheet
    NoFormula,          \* what a cell without a formula holds
    Reads(_),           \* the cells a formula reads
    Computable(_),      \* whether a formula can be evaluated at all
    Result(_, _)        \* the value of a formula over given cell values

VARIABLES
    sheet,    \* the formula of each cell
    value,    \* the value of each cell
    crashed   \* evaluation failed

vars == <<sheet, value, crashed>>

Init(v) ==
    /\ sheet = [c \in Cells |-> NoFormula]
    /\ value = v
    /\ crashed = FALSE

Define(c, f) ==
    /\ sheet' = [sheet EXCEPT ![c] = f]
    /\ UNCHANGED <<value, crashed>>

Clear ==
    /\ sheet' = [c \in Cells |-> NoFormula]
    /\ UNCHANGED <<value, crashed>>

(* The formulas a change of cell c concerns. *)
Affected(c) == {t \in Cells : sheet[t] # NoFormula /\ c \in Reads(sheet[t])}

Store(c, v) ==
    LET stored == [value EXCEPT ![c] = v]
        sound == \A t \in Affected(c) : Computable(sheet[t])
    IN  /\ crashed' = ~sound
        /\ value' = [t \in Cells |-> IF sound /\ t \in Affected(c)
                                     THEN Result(sheet[t], stored) ELSE stored[t]]
        /\ UNCHANGED sheet

(* The host writes a cell behind the formulas' back. *)
Edit(c, v) ==
    /\ value' = [value EXCEPT ![c] = v]
    /\ UNCHANGED <<sheet, crashed>>
=============================================================================
