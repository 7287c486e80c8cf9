------------------------------- MODULE Paging -------------------------------
(***************************************************************************)
(* Physical page ownership in the pixel VM: the allocator, page            *)
(* directories and copy-on-write of vm/memory.rs, driven by the opcodes    *)
(* that create, write, stop and reap processes.                            *)
(*                                                                         *)
(* Page contents are left out; `wrote` records which physical pages the    *)
(* last instruction wrote, and who wrote them.  A process is a slot; slots   *)
(* of processes that left the table are reused.  The table's order is left *)
(* out: KILL and WAITPID act on some process with the pid, not on the      *)
(* first.  A pid is the length of the table the spawner sees plus one, and *)
(* a child sees only a part of the table (module Kernel), so a new pid is  *)
(* any number up to the number of processes plus one.                      *)
(***************************************************************************)
EXTENDS Integers, FiniteSets

CONSTANTS
    NUM_RAM_PAGES,  \* physical pages (64); the last one holds the hardware ports
    Slots,          \* processes the table can hold
    Ops,            \* opcodes the programs use
    StartPages,     \* pages of the addresses given to SPAWN
    ImagePages,     \* pages the programs EXEC loads fill
    WritePages,     \* virtual pages the children write
    MaxLowRef,      \* bound: references to the low pages a SPAWN may lead to
    MaxRef          \* bound: references a SPAWN further up may lead to

ASSUME PagingAssumption ==
    /\ NUM_RAM_PAGES \in Nat /\ NUM_RAM_PAGES >= 8
    /\ IsFiniteSet(Slots)
    /\ StartPages \subseteq Nat
    /\ ImagePages \subseteq Nat \ {0}
    /\ WritePages \subseteq 0 .. 3 \cup {NUM_RAM_PAGES - 1}
    /\ MaxLowRef \in Nat /\ MaxRef \in Nat

VARIABLES
    allocated_pages,  \* bitmap, as the set of its ones
    page_ref_count,
    page_cow,         \* bitmap, as the set of its ones
    status,           \* of each slot: "none", "live" or "zombie"
    pid,
    page_dir,         \* Process::page_dir
    halted,           \* the VM was shut down
    wrote             \* the last write: [by, pages]

vars == <<allocated_pages, page_ref_count, page_cow, status, pid, page_dir,
          halted, wrote>>
-----------------------------------------------------------------------------
PROCESS_PAGES == 4
SharedPage == 3                      \* Window Bounds Protocol
HardwarePage == NUM_RAM_PAGES - 1    \* ports and syscall table
Main == "main"
NoWrite == [by |-> "nobody", pages |-> {}]

Pages == 0 .. NUM_RAM_PAGES - 1
PAGE_UNMAPPED == NUM_RAM_PAGES
(* The virtual pages a directory can map; all others stay unmapped. *)
VPages == 0 .. PROCESS_PAGES - 1 \cup {HardwarePage}
PageDir == [VPages -> Pages \cup {PAGE_UNMAPPED}]
NoPageDir == [v \in VPages |-> PAGE_UNMAPPED]

InTable == {s \in Slots : status[s] # "none"}
Live == {s \in Slots : status[s] = "live"}
Maps(s, p) == \E v \in VPages : page_dir[s][v] = p
-----------------------------------------------------------------------------
(* alloc_pages: first fit of `count` contiguous pages from page 2 on. *)
Fits(count) ==
    {start \in 2 .. NUM_RAM_PAGES - count :
        \A p \in start .. start + count - 1 : p \notin allocated_pages}

alloc_pages(count) == CHOOSE n \in Fits(count) : \A m \in Fits(count) : n <= m

(* free_page_dir, entry by entry: a page mapped n times loses n references *)
(* and is freed with its last.                                             *)
Times(pd, p) == Cardinality({v \in VPages : pd[v] = p})

RefAfterFree(pd, p) ==
    IF page_ref_count[p] > Times(pd, p) THEN page_ref_count[p] - Times(pd, p)
    ELSE IF Times(pd, p) = 0 THEN page_ref_count[p] ELSE 0

(* Mutant: a page is freed as soon as one directory that maps it goes. *)
FreedAtOnce(pd) == {p \in Pages : Times(pd, p) > 0}

Freed(pd) == {p \in Pages : Times(pd, p) > 0 /\ page_ref_count[p] <= Times(pd, p)}

free_page_dir(pd) ==
    /\ page_ref_count' = [p \in Pages |-> RefAfterFree(pd, p)]
    /\ allocated_pages' = allocated_pages \ Freed(pd)
    /\ page_cow' = page_cow \ {p \in Pages : Times(pd, p) > 0 /\ RefAfterFree(pd, p) <= 1}
-----------------------------------------------------------------------------
Init ==
    /\ allocated_pages = {0, 1}
    /\ page_ref_count = [p \in Pages |-> IF p \in {0, 1} THEN 1 ELSE 0]
    /\ page_cow = {}
    /\ status = [s \in Slots |-> "none"]
    /\ pid = [s \in Slots |-> 0]
    /\ page_dir = [s \in Slots |-> NoPageDir]
    /\ halted = FALSE
    /\ wrote = NoWrite

Start(s, pd) ==
    /\ status[s] = "none"
    /\ status' = [status EXCEPT ![s] = "live"]
    /\ page_dir' = [page_dir EXCEPT ![s] = pd]
    /\ \E n \in 1 .. Cardinality(InTable) + 1 : pid' = [pid EXCEPT ![s] = n]

(* SPAWN with its start in pages 0-2: those pages are mapped one to one.   *)
SpawnIdentity(s, start) ==
    /\ start < 3
    /\ \A p \in 0 .. 3 : page_ref_count[p] < MaxLowRef
    /\ Start(s, [v \in VPages |-> v])
    /\ page_ref_count' =
         [p \in Pages |-> IF p > 3 THEN page_ref_count[p]
                          ELSE IF page_ref_count[p] = 0 THEN 2
                          ELSE page_ref_count[p] + 1]
    /\ page_cow' = page_cow \cup {0, 1, 2}
    /\ wrote' = NoWrite
    /\ UNCHANGED <<allocated_pages, halted>>

(* SPAWN with its start further up: the pages from there on, as far as     *)
(* there is memory, with the shared page in fourth place.                  *)
SequentialDir(start) ==
    [v \in VPages |->
        CASE v = HardwarePage -> HardwarePage
          [] v # HardwarePage /\ start + v >= NUM_RAM_PAGES -> PAGE_UNMAPPED
          [] v = 3 /\ start + v < NUM_RAM_PAGES -> SharedPage
          [] OTHER -> start + v]

(* References to a page that the first four entries make. *)
Count(pd, p) == Cardinality({v \in 0 .. 3 : pd[v] = p})

SpawnSequential(s, start) ==
    LET pd == SequentialDir(start)
    IN  /\ start >= 3
        /\ \A p \in Pages : page_ref_count[p] + Count(pd, p) <= MaxRef
        /\ Start(s, pd)
        /\ page_ref_count' = [p \in Pages |-> page_ref_count[p] + Count(pd, p)]
        /\ page_cow' = page_cow \cup {p \in Pages \ {SharedPage} : Count(pd, p) > 0}
        /\ wrote' = NoWrite
        /\ UNCHANGED <<allocated_pages, halted>>

ExecDir(start) ==
    [v \in VPages |-> CASE v = HardwarePage -> HardwarePage
                        [] v = 3 -> SharedPage
                        [] OTHER -> start + v]

(* Mutant: gives back the last page but one. *)
HeldAfterExecShort(start) == start .. start + 1

(* Of the four pages allocated the last is given back for the shared page; *)
(* its reference count stays.                                              *)
HeldAfterExec(start) == start .. start + 2

(* create_process_page_dir, then the program is copied to memory from the  *)
(* first page on, over as many pages as it fills.                          *)
Exec(s, size) ==
    LET start == alloc_pages(PROCESS_PAGES)
    IN  /\ "EXEC" \in Ops
        /\ Fits(PROCESS_PAGES) # {}
        /\ Start(s, ExecDir(start))
        /\ allocated_pages' = allocated_pages \cup HeldAfterExec(start)
        /\ page_ref_count' = [p \in Pages |-> IF p \in start .. start + 3 THEN 1
                                              ELSE page_ref_count[p]]
        /\ wrote' = [by |-> s, pages |-> Pages \cap start .. start + size - 1]
        /\ UNCHANGED <<page_cow, halted>>

(* No room for a process: EXEC reports an error. *)
ExecFails ==
    /\ "EXEC" \in Ops
    /\ Fits(PROCESS_PAGES) = {}
    /\ wrote' = NoWrite
    /\ UNCHANGED <<allocated_pages, page_ref_count, page_cow, status, pid,
                   page_dir, halted>>

(* HALT, EXIT or a segfault of a child: it keeps its pages until reaped. *)
Halt(s) ==
    /\ status[s] = "live"
    /\ status' = [status EXCEPT ![s] = "zombie"]
    /\ wrote' = NoWrite
    /\ UNCHANGED <<allocated_pages, page_ref_count, page_cow, pid, page_dir, halted>>

Kill(s) ==
    /\ status[s] # "none"
    /\ free_page_dir(page_dir[s])
    /\ page_dir' = [page_dir EXCEPT ![s] = NoPageDir]
    /\ status' = [status EXCEPT ![s] = "zombie"]
    /\ wrote' = NoWrite
    /\ UNCHANGED <<pid, halted>>

(* Reaps a zombie; processes that share its pid leave the table with it,   *)
(* their pages not freed.                                                  *)
WaitPid(s) ==
    LET gone == {t \in InTable : pid[t] = pid[s]}
    IN  /\ status[s] = "zombie"
        /\ free_page_dir(page_dir[s])
        /\ status' = [t \in Slots |-> IF t \in gone THEN "none" ELSE status[t]]
        /\ pid' = [t \in Slots |-> IF t \in gone THEN 0 ELSE pid[t]]
        /\ page_dir' = [t \in Slots |-> IF t \in gone THEN NoPageDir ELSE page_dir[t]]
        /\ wrote' = NoWrite
        /\ UNCHANGED halted

(* Mutant: the reference of the page left behind is dropped twice. *)
CowCopyDropsTwo(s, v) ==
    LET old == page_dir[s][v]
        new == alloc_pages(1)
        refs == [page_ref_count EXCEPT ![new] = 1]
    IN  /\ page_dir' = [page_dir EXCEPT ![s][v] = new]
        /\ allocated_pages' = allocated_pages \cup {new}
        /\ page_ref_count' = [refs EXCEPT ![old] = @ - 2]
        /\ page_cow' = page_cow \ {new}
        /\ wrote' = [by |-> s, pages |-> {new}]

(* Mutant: the mark goes with the first copy. *)
CowCopyUnmarks(s, v) ==
    LET old == page_dir[s][v]
        new == alloc_pages(1)
        refs == [page_ref_count EXCEPT ![new] = 1]
    IN  /\ page_dir' = [page_dir EXCEPT ![s][v] = new]
        /\ allocated_pages' = allocated_pages \cup {new}
        /\ page_ref_count' = [refs EXCEPT ![old] = @ - 1]
        /\ page_cow' = page_cow \ {new, old}
        /\ wrote' = [by |-> s, pages |-> {new}]

(* handle_cow_write that finds a page, then the write.  Page 2 is in use   *)
(* by the main program but not marked, so `new` can be a shared page, even *)
(* `old` itself.                                                           *)
CowCopy(s, v) ==
    LET old == page_dir[s][v]
        new == alloc_pages(1)
        refs == [page_ref_count EXCEPT ![new] = 1]
    IN  /\ page_dir' = [page_dir EXCEPT ![s][v] = new]
        /\ allocated_pages' = allocated_pages \cup {new}
        /\ page_ref_count' = [refs EXCEPT ![old] = @ - 1]
        /\ page_cow' = page_cow \ ({new} \cup IF refs[old] - 1 <= 1 THEN {old} ELSE {})
        /\ wrote' = [by |-> s, pages |-> {new}]

WriteInPlace(s, v) ==
    /\ wrote' = [by |-> s, pages |-> {page_dir[s][v]}]
    /\ UNCHANGED <<allocated_pages, page_ref_count, page_cow, page_dir>>

(* STORE and STORES of a child to a mapped page.  When no page is left for *)
(* the copy the write goes to the shared page all the same.  (To an        *)
(* unmapped page, or to the ports in user mode: a segfault, see Halt.)     *)
Store(s, v) ==
    /\ "STORE" \in Ops
    /\ status[s] = "live"
    /\ page_dir[s][v] # PAGE_UNMAPPED
    /\ IF page_dir[s][v] \in page_cow /\ Fits(1) # {}
       THEN CowCopy(s, v)
       ELSE WriteInPlace(s, v)
    /\ UNCHANGED <<status, pid, halted>>

(* PUSH and STRO of a child: translated, but without the copy-on-write     *)
(* check.                                                                  *)
Push(s, v) ==
    /\ "PUSH" \in Ops
    /\ status[s] = "live"
    /\ page_dir[s][v] # PAGE_UNMAPPED
    /\ WriteInPlace(s, v)
    /\ UNCHANGED <<status, pid, halted>>

(* A store of the main program, which has no page directory. *)
MainStore(p) ==
    /\ "MAINSTORE" \in Ops
    /\ wrote' = [by |-> Main, pages |-> {p}]
    /\ UNCHANGED <<allocated_pages, page_ref_count, page_cow, status, pid,
                   page_dir, halted>>

(* SHUTDOWN frees the directories of the live processes one after the      *)
(* other; Lost(p) references to page p go.  The VM does not run again.     *)
Lost(p) == Cardinality({m \in Live \X VPages : page_dir[m[1]][m[2]] = p})

Left(p) ==
    IF page_ref_count[p] > Lost(p) THEN page_ref_count[p] - Lost(p)
    ELSE IF Lost(p) = 0 THEN page_ref_count[p] ELSE 0

Shutdown ==
    /\ "SHUTDOWN" \in Ops
    /\ status' = [s \in Slots |-> IF status[s] = "none" THEN "none" ELSE "zombie"]
    /\ halted' = TRUE
    /\ page_ref_count' = [p \in Pages |-> Left(p)]
    /\ allocated_pages' =
         allocated_pages \ {p \in Pages : Lost(p) > 0 /\ page_ref_count[p] <= Lost(p)}
    /\ page_cow' = page_cow \ {p \in Pages : Lost(p) > 0 /\ Left(p) <= 1}
    /\ wrote' = NoWrite
    /\ UNCHANGED <<pid, page_dir>>

Next ==
    \/ /\ ~halted
       /\ \/ \E s \in Slots : \/ \E start \in StartPages : \/ SpawnIdentity(s, start)
                                                         \/ SpawnSequential(s, start)
                              \/ \E size \in ImagePages : Exec(s, size)
                              \/ Halt(s)
                              \/ Kill(s)
                              \/ WaitPid(s)
                              \/ \E v \in WritePages : Store(s, v) \/ Push(s, v)
          \/ ExecFails
          \/ \E p \in Pages : MainStore(p)
          \/ Shutdown
    \/ halted /\ UNCHANGED vars

Spec == Init /\ [][Next]_vars
-----------------------------------------------------------------------------
TypeOK ==
    /\ allocated_pages \subseteq Pages
    /\ page_ref_count \in [Pages -> Nat]
    /\ page_cow \subseteq Pages
    /\ status \in [Slots -> {"none", "live", "zombie"}]
    /\ pid \in [Slots -> Nat]
    /\ page_dir \in [Slots -> PageDir]
    /\ halted \in BOOLEAN
    /\ wrote \in [by : Slots \cup {Main, "nobody"}, pages : SUBSET Pages]

\* The reference count that handle_cow_write decrements without a check
\* (memory.rs 147) is not 0: a page marked copy-on-write has a reference,
\* although alloc_pages resets counts of pages that are in use.
CowCounted == \A p \in page_cow : page_ref_count[p] >= 1

\* Types and references: no count falls below 0, and none wraps.
Inv == TypeOK /\ CowCounted

\* The two pages of the main program are never freed, whatever order of
\* spawns, copies, kills and reaps their reference counts go through.
KernelPagesHeld == \A p \in {0, 1} : p \in allocated_pages /\ page_ref_count[p] >= 1

(* The pages a directory maps as its own. *)
Private(s) == {page_dir[s][v] : v \in 0 .. 2} \ {PAGE_UNMAPPED}

\* Processes loaded with EXEC have no page of their own in common, also
\* when pages are freed and allocated again, although every directory freed
\* gives back the shared page, which the first process uses as its own.
PrivatePagesDisjoint ==
    \A s, t \in Slots : s # t => Private(s) \cap Private(t) = {}

\* "Each spawned process gets its own virtual address space, isolated from
\* other processes and the kernel" (docs/MEMORY_PROTECTION.md 5): a child's
\* STORE that has a page for its copy writes neither page that the main
\* program shares with its children, whatever copies, failed copies, kills
\* and reaps have made of their counts and marks.  (With no page for the
\* copy it does, and other processes have no such protection.)
StoresSpareMain ==
    [][\A s \in Slots, v \in WritePages :
          wrote'.pages \cap {0, 1} # {} /\ Store(s, v) => Fits(1) = {}]_vars

\* "Only actually frees a page when its reference count drops to 0"
\* (memory.rs 25): a page given back is not mapped by a process that lives,
\* when all were loaded with EXEC.  (With SPAWN it is: alloc_pages resets
\* the count of page 2, which is in use and not marked.)
FreedPagesUnmapped ==
    [][\A p \in (allocated_pages \ allocated_pages') \ {SharedPage, HardwarePage} :
          \A t \in Slots : status'[t] = "live" => p \notin Private(t)']_vars
=============================================================================
