------------------------------ MODULE MCPaging ------------------------------
(* Page ownership on small instances.  Slots are interchangeable.  No      *)
(* action looks at `wrote`, so a run whose properties do not either may    *)
(* identify states that differ in it only.                                 *)
EXTENDS Paging, TLC

Symmetry == Permutations(Slots)

Ownership == <<allocated_pages, page_ref_count, page_cow, status, pid, page_dir,
               halted>>
=============================================================================
