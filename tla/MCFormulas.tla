----------------------------- MODULE MCFormulas -----------------------------
(* The formula engine over a few cells of one bit. *)
EXTENDS Formulas

(* Lists that close a cycle through three formulas, one too short for ADD, *)
(* one longer than the limit of two, and one past the end of the canvas.   *)
MCDepLists == {<<0, 0>>, <<2>>, <<1, 3, 2>>, <<4>>}

(* Two chains for the run about recomputation, over three cells. *)
MCChain == {<<0>>, <<1>>}
=============================================================================
