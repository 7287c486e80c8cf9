---------------------------- MODULE PagingProofs ----------------------------
(***************************************************************************)
(* For every amount of memory and every number of processes: reference     *)
(* counts do not underflow, the main program's pages are never freed nor   *)
(* written by a copy, and processes loaded with EXEC only do not share     *)
(* their private pages.                                                    *)
(***************************************************************************)
EXTENDS Paging, FiniteSetTheorems, WellFoundedInduction, TLAPS

(* A non-empty set of naturals has a least element. *)
LEMMA NatMin ==
    ASSUME NEW S \in SUBSET Nat, S # {}
    PROVE  \E n \in S : \A m \in S : n <= m
<1> DEFINE R == {ss \in Nat \X Nat : ss[1] < ss[2]}
<1>1. OpToRel(<, Nat) = R
  BY DEF OpToRel
<1>2. IsWellFoundedOn(R, Nat)
  BY <1>1, NatLessThanWellFounded
<1> HIDE DEF R
<1>3. PICK n \in S : \A m \in S : ~(<<m, n>> \in R)
  BY <1>2, WFMin
<1>4. \A m \in S : n <= m
  <2> TAKE m \in S
  <2>1. m \in Nat /\ n \in Nat
    OBVIOUS
  <2>2. m < n => <<m, n>> \in R
    BY <2>1 DEF R
  <2> QED BY <1>3, <2>1, <2>2
<1> QED BY <1>4

(* The pages a directory speaks of. *)
LEMMA PageFacts ==
    /\ NUM_RAM_PAGES \in Nat /\ NUM_RAM_PAGES >= 8
    /\ HardwarePage \in Pages /\ HardwarePage > 3
    /\ VPages \subseteq Pages
    /\ IsFiniteSet(VPages)
    /\ PAGE_UNMAPPED \notin Pages
    /\ NoPageDir \in PageDir
<1>1. NUM_RAM_PAGES \in Nat /\ NUM_RAM_PAGES >= 8
  BY PagingAssumption
<1>2. VPages \subseteq Pages
  BY <1>1 DEF VPages, Pages, HardwarePage, PROCESS_PAGES
<1>3. IsFiniteSet(Pages)
  BY <1>1, FS_Interval DEF Pages
<1>4. IsFiniteSet(VPages)
  BY <1>2, <1>3, FS_Subset
<1> QED BY <1>1, <1>2, <1>4 DEF HardwarePage, Pages, PAGE_UNMAPPED, NoPageDir, PageDir

(* alloc_pages returns the start of a free run of pages. *)
LEMMA AllocFits ==
    ASSUME NEW count \in 1 .. 4, Fits(count) # {}
    PROVE  /\ alloc_pages(count) \in 2 .. NUM_RAM_PAGES - count
           /\ \A p \in alloc_pages(count) .. alloc_pages(count) + count - 1 :
                  p \notin allocated_pages
<1>1. Fits(count) \in SUBSET Nat
  BY PageFacts DEF Fits
<1>2. \E n \in Fits(count) : \A m \in Fits(count) : n <= m
  BY <1>1, NatMin
<1>3. alloc_pages(count) \in Fits(count)
  BY <1>2 DEF alloc_pages
<1> QED BY <1>3 DEF Fits

(* How often a directory maps a page. *)
LEMMA TimesType ==
    ASSUME NEW pd, NEW p
    PROVE  /\ Times(pd, p) \in Nat
           /\ Times(pd, p) = 0 <=> \A v \in VPages : pd[v] # p
<1> DEFINE M == {v \in VPages : pd[v] = p}
<1>1. IsFiniteSet(M)
  BY PageFacts, FS_Subset
<1>2. Cardinality(M) \in Nat /\ (Cardinality(M) = 0 <=> M = {})
  BY <1>1, FS_CardinalityType, FS_EmptySet
<1> QED BY <1>2 DEF Times

(* The same for the four entries SPAWN counts. *)
LEMMA CountType ==
    ASSUME NEW pd, NEW p
    PROVE  /\ Count(pd, p) \in Nat
           /\ Count(pd, p) = 0 <=> \A v \in 0 .. 3 : pd[v] # p
<1> DEFINE M == {v \in 0 .. 3 : pd[v] = p}
<1>1. IsFiniteSet(0 .. 3)
  <2>1. 0 \in Int /\ 3 \in Int
    OBVIOUS
  <2> QED BY <2>1, FS_Interval, Zenon
<1>2. IsFiniteSet(M)
  BY <1>1, FS_Subset
<1>3. Cardinality(M) \in Nat /\ (Cardinality(M) = 0 <=> M = {})
  BY <1>2, FS_CardinalityType, FS_EmptySet
<1>4. M = {} <=> \A v \in 0 .. 3 : pd[v] # p
  OBVIOUS
<1>5. Count(pd, p) = Cardinality(M)
  BY DEF Count
<1> HIDE DEF M
<1> QED BY <1>3, <1>4, <1>5

(* And for all directories a SHUTDOWN frees. *)
LEMMA LostType ==
    ASSUME NEW p
    PROVE  /\ Lost(p) \in Nat
           /\ IsFiniteSet({m \in Live \X VPages : page_dir[m[1]][m[2]] = p})
<1>1. IsFiniteSet(Live)
  BY PagingAssumption, FS_Subset DEF Live
<1>2. IsFiniteSet(Live \X VPages)
  BY <1>1, PageFacts, FS_Product
<1>3. IsFiniteSet({m \in Live \X VPages : page_dir[m[1]][m[2]] = p})
  BY <1>2, FS_Subset
<1> QED BY <1>3, FS_CardinalityType DEF Lost
-----------------------------------------------------------------------------
(* Every action but SHUTDOWN and the reads and writes in place goes        *)
(* through one of three changes of the page tables; each keeps the counts. *)

(* Types and counts after free_page_dir. *)
LEMMA FreeCounts ==
    ASSUME TypeOK, CowCounted, NEW pd, free_page_dir(pd)
    PROVE  /\ allocated_pages' \subseteq Pages
           /\ page_ref_count' \in [Pages -> Nat]
           /\ page_cow' \subseteq Pages
           /\ CowCounted'
<1>1. \A p \in Pages : page_ref_count[p] \in Nat
  BY DEF TypeOK
<1>2. \A p \in Pages : RefAfterFree(pd, p) \in Nat
  BY <1>1, TimesType DEF RefAfterFree
<1>3. page_ref_count' = [p \in Pages |-> RefAfterFree(pd, p)]
  BY DEF free_page_dir
<1>4. ASSUME NEW p \in page_cow'
      PROVE  page_ref_count'[p] >= 1
  <2>1. p \in Pages /\ p \in page_cow
    BY <1>4 DEF free_page_dir, TypeOK
  <2>2. ~(Times(pd, p) > 0 /\ RefAfterFree(pd, p) <= 1)
    BY <1>4, <2>1 DEF free_page_dir
  <2>3. page_ref_count[p] >= 1
    BY <2>1 DEF CowCounted
  <2>4. RefAfterFree(pd, p) >= 1
    BY <1>1, <1>2, <2>1, <2>2, <2>3, TimesType DEF RefAfterFree
  <2> QED BY <1>3, <2>1, <2>4
<1>5. CowCounted'
  BY <1>4 DEF CowCounted
<1> QED BY <1>2, <1>3, <1>5 DEF free_page_dir, TypeOK

(* A new process is well-typed. *)
LEMMA StartTypes ==
    ASSUME TypeOK, NEW s \in Slots, NEW pd \in PageDir, Start(s, pd)
    PROVE  /\ status' \in [Slots -> {"none", "live", "zombie"}]
           /\ pid' \in [Slots -> Nat]
           /\ page_dir' \in [Slots -> PageDir]
<1>1. IsFiniteSet(InTable)
  BY PagingAssumption, FS_Subset DEF InTable
<1>2. Cardinality(InTable) \in Nat
  BY <1>1, FS_CardinalityType
<1>3. PICK n \in 1 .. Cardinality(InTable) + 1 : pid' = [pid EXCEPT ![s] = n]
  BY DEF Start
<1>4. n \in Nat
  BY <1>2
<1> QED BY <1>3, <1>4 DEF Start, TypeOK

(* Copying a page: the new page is in range, the old one is left with a    *)
(* count that is still a natural number.                                   *)
LEMMA CopyCounts ==
    ASSUME Inv, NEW s \in Slots, NEW v \in VPages,
           page_dir[s][v] \in page_cow, Fits(1) # {}, CowCopy(s, v)
    PROVE  /\ alloc_pages(1) \in 2 .. NUM_RAM_PAGES - 1
           /\ alloc_pages(1) \in Pages
           /\ allocated_pages' \subseteq Pages
           /\ page_ref_count' \in [Pages -> Nat]
           /\ page_cow' \subseteq Pages
           /\ page_dir' \in [Slots -> PageDir]
           /\ wrote' \in [by : Slots \cup {Main, "nobody"}, pages : SUBSET Pages]
           /\ CowCounted'
<1> DEFINE old == page_dir[s][v]
           new == alloc_pages(1)
           refs == [page_ref_count EXCEPT ![new] = 1]
<1>1. new \in 2 .. NUM_RAM_PAGES - 1
  BY AllocFits
<1>2. new \in Pages
  BY <1>1, PageFacts DEF Pages
<1>3. old \in Pages /\ old \in page_cow
  BY DEF Inv, TypeOK
<1>4. page_ref_count \in [Pages -> Nat] /\ page_ref_count[old] >= 1
  BY <1>3 DEF Inv, TypeOK, CowCounted
<1>5. /\ page_dir' = [page_dir EXCEPT ![s][v] = new]
      /\ allocated_pages' = allocated_pages \cup {new}
      /\ page_ref_count' = [refs EXCEPT ![old] = @ - 1]
      /\ page_cow' = page_cow \ ({new} \cup IF refs[old] - 1 <= 1 THEN {old} ELSE {})
      /\ wrote' = [by |-> s, pages |-> {new}]
  BY DEF CowCopy
<1> HIDE DEF new, old
<1>6. refs \in [Pages -> Nat] /\ refs[old] >= 1
  BY <1>2, <1>3, <1>4
<1>7. \A p \in Pages \ {new} : refs[p] = page_ref_count[p]
  BY <1>4
<1> HIDE DEF refs
<1>8. page_ref_count' \in [Pages -> Nat]
  BY <1>3, <1>5, <1>6
<1>9. ASSUME NEW p \in page_cow'
      PROVE  page_ref_count'[p] >= 1
  <2>1. p \in page_cow /\ p # new /\ p \in Pages
    BY <1>5, <1>9 DEF Inv, TypeOK
  <2>2. refs[p] = page_ref_count[p] /\ refs[p] >= 1
    BY <1>7, <2>1 DEF Inv, CowCounted
  <2>3. CASE p = old
    <3>1. ~(refs[old] - 1 <= 1)
      BY <1>5, <1>9, <2>3
    <3> QED BY <1>3, <1>5, <1>6, <2>3, <3>1
  <2>4. CASE p # old
    BY <1>5, <1>6, <2>1, <2>2, <2>4
  <2> QED BY <2>3, <2>4
<1>10. CowCounted'
  BY <1>9 DEF CowCounted
<1>11. page_dir' \in [Slots -> PageDir]
  <2>1. page_dir \in [Slots -> PageDir]
    BY DEF Inv, TypeOK
  <2> QED BY <1>2, <1>5, <2>1 DEF PageDir
<1>12. /\ allocated_pages' \subseteq Pages
       /\ page_cow' \subseteq Pages
       /\ wrote' \in [by : Slots \cup {Main, "nobody"}, pages : SUBSET Pages]
  BY <1>2, <1>5 DEF Inv, TypeOK
<1> QED BY <1>1, <1>2, <1>8, <1>10, <1>11, <1>12 DEF new
-----------------------------------------------------------------------------
LEMMA DirTypes ==
    /\ \A start \in Nat : start >= 3 => SequentialDir(start) \in PageDir
    /\ \A start \in 2 .. NUM_RAM_PAGES - 4 : ExecDir(start) \in PageDir
    /\ [v \in VPages |-> v] \in PageDir
<1>1. ASSUME NEW start \in Nat, start >= 3
      PROVE  SequentialDir(start) \in PageDir
  <2>1. ASSUME NEW v \in VPages
        PROVE  (CASE v = HardwarePage -> HardwarePage
                  [] v # HardwarePage /\ start + v >= NUM_RAM_PAGES -> PAGE_UNMAPPED
                  [] v = 3 /\ start + v < NUM_RAM_PAGES -> SharedPage
                  [] OTHER -> start + v) \in Pages \cup {PAGE_UNMAPPED}
    BY <1>1, PageFacts DEF Pages, SharedPage
  <2> QED BY <2>1 DEF SequentialDir, PageDir
<1>2. ASSUME NEW start \in 2 .. NUM_RAM_PAGES - 4
      PROVE  ExecDir(start) \in PageDir
  <2>1. ASSUME NEW v \in VPages
        PROVE  (CASE v = HardwarePage -> HardwarePage
                  [] v = 3 -> SharedPage
                  [] OTHER -> start + v) \in Pages \cup {PAGE_UNMAPPED}
    BY PageFacts DEF Pages, SharedPage, VPages, PROCESS_PAGES
  <2> QED BY <2>1 DEF ExecDir, PageDir
<1>3. [v \in VPages |-> v] \in PageDir
  BY PageFacts DEF PageDir
<1> QED BY <1>1, <1>2, <1>3

LEMMA CountInit == Init => Inv
<1> SUFFICES ASSUME Init PROVE Inv
  OBVIOUS
<1>1. 0 \in Pages /\ 1 \in Pages
  BY PageFacts DEF Pages
<1> QED BY <1>1, PageFacts DEF Init, Inv, TypeOK, CowCounted, NoWrite, Pages

LEMMA CountNext == Inv /\ [Next]_vars => Inv'
<1> SUFFICES ASSUME Inv, [Next]_vars PROVE Inv'
  OBVIOUS
<1> USE DEF Inv
<1>T. /\ TypeOK /\ CowCounted
      /\ page_ref_count \in [Pages -> Nat]
  BY DEF TypeOK
<1>1. ASSUME NEW s \in Slots, NEW start \in StartPages, SpawnIdentity(s, start)
      PROVE  Inv'
  <2>1. Start(s, [v \in VPages |-> v])
    BY <1>1 DEF SpawnIdentity
  <2>2. /\ status' \in [Slots -> {"none", "live", "zombie"}]
        /\ pid' \in [Slots -> Nat]
        /\ page_dir' \in [Slots -> PageDir]
    BY <1>T, <2>1, DirTypes, StartTypes
  <2>3. page_ref_count' =
          [p \in Pages |-> IF p > 3 THEN page_ref_count[p]
                           ELSE IF page_ref_count[p] = 0 THEN 2
                           ELSE page_ref_count[p] + 1]
    BY <1>1 DEF SpawnIdentity
  <2>4. page_ref_count' \in [Pages -> Nat]
    BY <1>T, <2>3
  <2>5. page_cow' = page_cow \cup {0, 1, 2}
    BY <1>1 DEF SpawnIdentity
  <2>6. page_cow' \subseteq Pages
    BY <1>T, <2>5, PageFacts DEF TypeOK, Pages
  <2>7. ASSUME NEW p \in page_cow' PROVE page_ref_count'[p] >= 1
    <3>1. p \in Pages /\ page_ref_count[p] \in Nat /\ p \in Int
      BY <1>T, <2>6, PageFacts DEF Pages
    <3>2. CASE p > 3
      <4>1. p \in page_cow
        BY <2>5, <3>2
      <4> QED BY <1>T, <2>3, <3>1, <3>2, <4>1 DEF CowCounted
    <3>3. CASE ~(p > 3)
      BY <2>3, <3>1, <3>3
    <3> QED BY <3>2, <3>3
  <2> QED BY <1>1, <1>T, <2>2, <2>4, <2>6, <2>7
       DEF SpawnIdentity, TypeOK, CowCounted, NoWrite
<1>2. ASSUME NEW s \in Slots, NEW start \in StartPages, SpawnSequential(s, start)
      PROVE  Inv'
  <2> DEFINE pd == SequentialDir(start)
  <2>1. Start(s, pd) /\ start \in Nat /\ start >= 3
    BY <1>2, PagingAssumption DEF SpawnSequential
  <2>2. /\ status' \in [Slots -> {"none", "live", "zombie"}]
        /\ pid' \in [Slots -> Nat]
        /\ page_dir' \in [Slots -> PageDir]
    BY <1>T, <2>1, DirTypes, StartTypes
  <2>3. /\ page_ref_count' = [p \in Pages |-> page_ref_count[p] + Count(pd, p)]
        /\ page_cow' = page_cow \cup {p \in Pages \ {SharedPage} : Count(pd, p) > 0}
    BY <1>2 DEF SpawnSequential
  <2> HIDE DEF pd
  <2>4. \A p \in Pages : Count(pd, p) \in Nat /\ page_ref_count[p] \in Nat
    BY <1>T, CountType
  <2>5. page_ref_count' \in [Pages -> Nat]
    BY <2>3, <2>4
  <2>6. ASSUME NEW p \in page_cow' PROVE page_ref_count'[p] >= 1
    <3>1. p \in Pages
      BY <1>T, <2>3 DEF TypeOK
    <3>2. page_ref_count'[p] = page_ref_count[p] + Count(pd, p)
      BY <2>3, <3>1
    <3>3. CASE p \in page_cow
      BY <1>T, <2>4, <3>1, <3>2, <3>3 DEF CowCounted
    <3>4. CASE p \notin page_cow
      BY <2>3, <2>4, <3>1, <3>2, <3>4
    <3> QED BY <3>3, <3>4
  <2> QED BY <1>2, <1>T, <2>2, <2>3, <2>5, <2>6
       DEF SpawnSequential, TypeOK, CowCounted, NoWrite
<1>3. ASSUME NEW s \in Slots, NEW size \in ImagePages, Exec(s, size)
      PROVE  Inv'
  <2> DEFINE start == alloc_pages(PROCESS_PAGES)
  <2>1. start \in 2 .. NUM_RAM_PAGES - 4
    BY <1>3, AllocFits DEF Exec, PROCESS_PAGES
  <2>2. Start(s, ExecDir(start))
    BY <1>3 DEF Exec
  <2>3. /\ allocated_pages' = allocated_pages \cup HeldAfterExec(start)
        /\ page_ref_count' = [p \in Pages |-> IF p \in start .. start + 3 THEN 1
                                              ELSE page_ref_count[p]]
        /\ wrote' = [by |-> s, pages |-> Pages \cap start .. start + size - 1]
        /\ page_cow' = page_cow /\ halted' = halted
    BY <1>3 DEF Exec
  <2> HIDE DEF start
  <2>4. /\ status' \in [Slots -> {"none", "live", "zombie"}]
        /\ pid' \in [Slots -> Nat]
        /\ page_dir' \in [Slots -> PageDir]
    BY <1>T, <2>1, <2>2, DirTypes, StartTypes
  <2>5. HeldAfterExec(start) \subseteq Pages
    BY <2>1, PageFacts DEF HeldAfterExec, Pages
  <2>6. \A p \in page_cow' : page_ref_count'[p] >= 1
    BY <1>T, <2>3 DEF CowCounted, TypeOK
  <2> QED BY <1>T, <2>3, <2>4, <2>5, <2>6 DEF TypeOK, CowCounted
<1>4. ASSUME NEW s \in Slots, Halt(s) PROVE Inv'
  BY <1>4, <1>T DEF Halt, TypeOK, CowCounted, NoWrite
<1>5. ASSUME NEW s \in Slots, Kill(s) PROVE Inv'
  BY <1>5, <1>T, FreeCounts, PageFacts DEF Kill, TypeOK, NoWrite
<1>6. ASSUME NEW s \in Slots, WaitPid(s) PROVE Inv'
  BY <1>6, <1>T, FreeCounts, PageFacts DEF WaitPid, TypeOK, NoWrite
<1>7. ASSUME NEW s \in Slots, NEW v \in WritePages, WriteInPlace(s, v),
             page_dir[s][v] # PAGE_UNMAPPED, UNCHANGED <<status, pid, halted>>
      PROVE  Inv'
  <2>1. v \in VPages
    BY PagingAssumption DEF VPages, PROCESS_PAGES, HardwarePage
  <2>2. page_dir[s][v] \in Pages
    BY <1>7, <1>T, <2>1 DEF TypeOK, PageDir
  <2> QED BY <1>7, <1>T, <2>2 DEF WriteInPlace, TypeOK, CowCounted
<1>8. ASSUME NEW s \in Slots, NEW v \in WritePages, Store(s, v) PROVE Inv'
  <2>1. v \in VPages
    BY PagingAssumption DEF VPages, PROCESS_PAGES, HardwarePage
  <2>2. CASE page_dir[s][v] \in page_cow /\ Fits(1) # {}
    <3>1. CowCopy(s, v) /\ UNCHANGED <<status, pid, halted>>
      BY <1>8, <2>2 DEF Store
    <3> QED BY <1>T, <2>1, <2>2, <3>1, CopyCounts DEF TypeOK
  <2>3. CASE ~(page_dir[s][v] \in page_cow /\ Fits(1) # {})
    BY <1>7, <1>8, <2>3 DEF Store
  <2> QED BY <2>2, <2>3
<1>9. ASSUME NEW s \in Slots, NEW v \in WritePages, Push(s, v) PROVE Inv'
  BY <1>7, <1>9 DEF Push
<1>10. ASSUME NEW p \in Pages, MainStore(p) PROVE Inv'
  BY <1>10, <1>T DEF MainStore, TypeOK, CowCounted
<1>11. CASE ExecFails
  BY <1>11, <1>T DEF ExecFails, TypeOK, CowCounted, NoWrite
<1>12. CASE Shutdown
  <2>1. \A p \in Pages : Left(p) \in Nat /\ Lost(p) \in Nat /\ page_ref_count[p] \in Nat
    <3> TAKE p \in Pages
    <3>1. Lost(p) \in Nat
      BY LostType
    <3>2. page_ref_count[p] \in Nat
      BY <1>T
    <3> HIDE DEF Inv
    <3> QED BY <3>1, <3>2 DEF Left
  <2>2. page_ref_count' = [p \in Pages |-> Left(p)]
    BY <1>12 DEF Shutdown
  <2>3. ASSUME NEW p \in page_cow' PROVE page_ref_count'[p] >= 1
    <3>1. p \in Pages /\ p \in page_cow /\ ~(Lost(p) > 0 /\ Left(p) <= 1)
      BY <1>12, <1>T DEF Shutdown, TypeOK
    <3>2. page_ref_count[p] >= 1
      BY <1>T, <3>1 DEF CowCounted
    <3>3. Left(p) >= 1
      BY <2>1, <3>1, <3>2 DEF Left
    <3> QED BY <2>2, <3>1, <3>3
  <2> QED BY <1>12, <1>T, <2>1, <2>2, <2>3 DEF Shutdown, TypeOK, CowCounted, NoWrite
<1>13. CASE UNCHANGED vars
  BY <1>13, <1>T DEF vars, TypeOK, CowCounted, PageDir
<1> QED BY <1>1, <1>2, <1>3, <1>4, <1>5, <1>6, <1>8, <1>9, <1>10, <1>11, <1>12, <1>13
     DEF Next

(* Types are kept and every copy-on-write page has a reference, whatever   *)
(* order pages are mapped, copied and freed in (handle_cow_write).         *)
THEOREM Correct == Spec => []Inv
BY CountInit, CountNext, PTL DEF Spec

(* Types are kept; in particular a reference count never goes below zero   *)
(* (free_page_dir, handle_cow_write).                                      *)
THEOREM TypeCorrect == Spec => []TypeOK
<1>1. Inv => TypeOK
  BY DEF Inv
<1> QED BY <1>1, CountInit, CountNext, PTL DEF Spec

(* A copy-on-write page has a reference to give up (handle_cow_write).     *)
THEOREM CowCountedCorrect == Spec => []CowCounted
<1>1. Inv => CowCounted
  BY DEF Inv
<1> QED BY <1>1, CountInit, CountNext, PTL DEF Spec
-----------------------------------------------------------------------------
(* The main program's pages 0 and 1.  A directory maps them only one to    *)
(* one, and until SHUTDOWN their reference count covers the main program   *)
(* and every directory that maps them, so no free_page_dir is their last.  *)

Mappers(d, k) == {s \in Slots : d[s][k] = k}

OneToOne(d) ==
    \A s \in Slots, v \in VPages, k \in {0, 1} : d[s][v] = k => v = k

Covered(k) ==
    /\ k \in allocated_pages
    /\ page_ref_count[k] >= 1
    /\ ~halted => page_ref_count[k] >= 1 + Cardinality(Mappers(page_dir, k))

KernelInv == OneToOne(page_dir) /\ \A k \in {0, 1} : Covered(k)

LEMMA MappersType ==
    ASSUME NEW d, NEW k
    PROVE  IsFiniteSet(Mappers(d, k)) /\ Cardinality(Mappers(d, k)) \in Nat
<1>1. IsFiniteSet(Mappers(d, k))
  BY PagingAssumption, FS_Subset DEF Mappers
<1> QED BY <1>1, FS_CardinalityType

LEMMA MappersCount ==
    ASSUME NEW d, NEW e, NEW k, NEW s \in Slots
    PROVE  /\ Cardinality(Mappers(d, k)) \in Nat
           /\ Mappers(e, k) \subseteq Mappers(d, k)
                => Cardinality(Mappers(e, k)) <= Cardinality(Mappers(d, k))
           /\ Mappers(e, k) \subseteq Mappers(d, k) \ {s} /\ s \in Mappers(d, k)
                => Cardinality(Mappers(e, k)) + 1 <= Cardinality(Mappers(d, k))
           /\ Mappers(e, k) \subseteq Mappers(d, k) \cup {s}
                => Cardinality(Mappers(e, k)) <= Cardinality(Mappers(d, k)) + 1
<1> DEFINE D == Mappers(d, k)
           E == Mappers(e, k)
<1>2. IsFiniteSet(D) /\ IsFiniteSet(E)
  BY MappersType
<1> HIDE DEF D, E
<1>3. Cardinality(D) \in Nat /\ Cardinality(E) \in Nat
  BY <1>2, FS_CardinalityType
<1>4. E \subseteq D => Cardinality(E) <= Cardinality(D)
  BY <1>2, FS_Subset
<1>5. ASSUME E \subseteq D \ {s}, s \in D
      PROVE  Cardinality(E) + 1 <= Cardinality(D)
  <2>1. IsFiniteSet(D \ {s}) /\ Cardinality(D \ {s}) = Cardinality(D) - 1
    BY <1>2, <1>5, FS_RemoveElement
  <2>2. Cardinality(E) <= Cardinality(D \ {s})
    BY <1>5, <2>1, FS_Subset
  <2> QED BY <1>3, <2>1, <2>2
<1>6. ASSUME E \subseteq D \cup {s}
      PROVE  Cardinality(E) <= Cardinality(D) + 1
  <2>1. /\ IsFiniteSet(D \cup {s})
        /\ Cardinality(D \cup {s}) \in {Cardinality(D), Cardinality(D) + 1}
    BY <1>2, FS_AddElement
  <2>2. Cardinality(E) <= Cardinality(D \cup {s})
    BY <1>6, <2>1, FS_Subset
  <2> QED BY <1>3, <2>1, <2>2
<1> QED BY <1>3, <1>4, <1>5, <1>6 DEF D, E

(* A directory maps a kernel page at most once. *)
LEMMA KernelTimes ==
    ASSUME OneToOne(page_dir), NEW s \in Slots, NEW k \in {0, 1}
    PROVE  Times(page_dir[s], k) = IF s \in Mappers(page_dir, k) THEN 1 ELSE 0
<1>1. k \in VPages
  BY DEF VPages, PROCESS_PAGES
<1> DEFINE M == {v \in VPages : page_dir[s][v] = k}
<1>2. CASE page_dir[s][k] = k
  <2>1. M = {k}
    BY <1>1, <1>2 DEF OneToOne
  <2>2. Cardinality({k}) = 1
    BY FS_Singleton, Zenon
  <2>3. Times(page_dir[s], k) = 1
    BY <2>1, <2>2 DEF Times
  <2> QED BY <1>2, <2>3 DEF Mappers
<1>3. CASE page_dir[s][k] # k
  <2>1. M = {}
    BY <1>3 DEF OneToOne
  <2>2. Times(page_dir[s], k) = 0
    BY <2>1, FS_EmptySet DEF Times
  <2> QED BY <1>3, <2>2 DEF Mappers
<1> QED BY <1>2, <1>3

(* Freeing the directory of s, which then maps nothing, keeps the pages. *)
LEMMA KernelFree ==
    ASSUME Inv, KernelInv, ~halted, NEW s \in Slots,
           free_page_dir(page_dir[s]), NEW k \in {0, 1},
           Mappers(page_dir', k) \subseteq Mappers(page_dir, k) \ {s}
    PROVE  Covered(k)'
<1> DEFINE n == Times(page_dir[s], k)
           c == Cardinality(Mappers(page_dir, k))
           d == Cardinality(Mappers(page_dir', k))
<1>1. k \in Pages /\ page_ref_count[k] \in Nat
  BY PageFacts DEF Inv, TypeOK, Pages
<1>2. k \in allocated_pages /\ page_ref_count[k] >= 1 + c
  BY DEF KernelInv, Covered
<1>3. n = IF s \in Mappers(page_dir, k) THEN 1 ELSE 0
  BY KernelTimes DEF KernelInv
<1>4. c \in Nat /\ d \in Nat
  BY MappersCount
<1>5. s \in Mappers(page_dir, k) => d + 1 <= c
  BY MappersCount
<1>6. d <= c
  BY MappersCount
<1>7. page_ref_count' = [p \in Pages |-> RefAfterFree(page_dir[s], p)]
  BY DEF free_page_dir
<1>8. page_ref_count'[k] = RefAfterFree(page_dir[s], k)
  BY <1>1, <1>7
<1>9. allocated_pages' = allocated_pages \ Freed(page_dir[s])
  BY DEF free_page_dir
<1> HIDE DEF n, c, d
<1>10. page_ref_count[k] > n /\ page_ref_count[k] - n >= 1 + d
  BY <1>1, <1>2, <1>3, <1>4, <1>5, <1>6
<1>11. RefAfterFree(page_dir[s], k) = page_ref_count[k] - n
  BY <1>10 DEF RefAfterFree, n
<1>12. k \notin Freed(page_dir[s])
  BY <1>1, <1>3, <1>10 DEF Freed, n
<1>13. page_ref_count'[k] >= 1 + d /\ page_ref_count'[k] >= 1
  BY <1>4, <1>8, <1>10, <1>11, <1>1, <1>3
<1> QED BY <1>2, <1>9, <1>12, <1>13 DEF Covered, d
(* A copy gives up at most the reference of the process that copies. *)
LEMMA KernelCopy ==
    ASSUME Inv, KernelInv, ~halted, halted' = halted,
           NEW s \in Slots, NEW v \in VPages,
           page_dir[s][v] \in page_cow, Fits(1) # {}, CowCopy(s, v)
    PROVE  KernelInv'
<1> DEFINE old == page_dir[s][v]
           new == alloc_pages(1)
<1>1. new \in 2 .. NUM_RAM_PAGES - 1 /\ new \in Pages
  BY CopyCounts
<1>2. /\ page_dir \in [Slots -> PageDir]
      /\ page_ref_count \in [Pages -> Nat]
      /\ old \in Pages
  BY DEF Inv, TypeOK
<1>3. /\ page_dir' = [page_dir EXCEPT ![s][v] = new]
      /\ allocated_pages' = allocated_pages \cup {new}
      /\ page_ref_count' = [[page_ref_count EXCEPT ![new] = 1] EXCEPT ![old] = @ - 1]
  BY DEF CowCopy
<1> HIDE DEF old, new
<1>4. \A t \in Slots, w \in VPages :
        page_dir'[t][w] = IF t = s /\ w = v THEN new ELSE page_dir[t][w]
  BY <1>2, <1>3 DEF PageDir
<1>5. OneToOne(page_dir')
  BY <1>1, <1>4 DEF OneToOne, KernelInv
<1>6. ASSUME NEW k \in {0, 1} PROVE Covered(k)'
  <2>1. k \in Pages /\ k \in VPages /\ k # new
    BY <1>1, PageFacts DEF Pages, VPages, PROCESS_PAGES
  <2> DEFINE c == Cardinality(Mappers(page_dir, k))
             d == Cardinality(Mappers(page_dir', k))
  <2>2. k \in allocated_pages /\ page_ref_count[k] >= 1 + c /\ page_ref_count[k] \in Nat
    BY <1>2, <2>1 DEF KernelInv, Covered
  <2>3. c \in Nat /\ d \in Nat
    BY MappersCount
  <2>4. Mappers(page_dir', k) \subseteq Mappers(page_dir, k)
    BY <1>4, <2>1 DEF Mappers
  <2>5. d <= c
    BY <2>4, MappersCount
  <2>6. CASE old = k
    <3>1. v = k
      BY <2>6 DEF KernelInv, OneToOne, old
    <3>2. s \in Mappers(page_dir, k)
      BY <2>6, <3>1 DEF Mappers, old
    <3>3. s \notin Mappers(page_dir', k)
      BY <1>4, <2>1, <3>1 DEF Mappers
    <3>4. Mappers(page_dir', k) \subseteq Mappers(page_dir, k) \ {s}
      BY <2>4, <3>3
    <3>5. d + 1 <= c
      BY <3>2, <3>4, MappersCount
    <3>6. page_ref_count'[k] = page_ref_count[k] - 1
      BY <1>2, <1>3, <2>1, <2>6
    <3> HIDE DEF c, d
    <3>7. page_ref_count'[k] >= 1 + d /\ page_ref_count'[k] >= 1
      BY <2>2, <2>3, <3>5, <3>6
    <3> QED BY <1>3, <2>2, <3>7 DEF Covered, d
  <2>7. CASE old # k
    <3>1. page_ref_count'[k] = page_ref_count[k]
      BY <1>2, <1>3, <2>1, <2>7
    <3> HIDE DEF c, d
    <3>2. page_ref_count'[k] >= 1 + d /\ page_ref_count'[k] >= 1
      BY <2>2, <2>3, <2>5, <3>1
    <3> QED BY <1>3, <2>2, <3>2 DEF Covered, d
  <2> QED BY <2>6, <2>7
<1> QED BY <1>5, <1>6 DEF KernelInv

(* SHUTDOWN takes one reference for each live process that maps the page. *)
LEMMA KernelLost ==
    ASSUME OneToOne(page_dir), NEW k \in {0, 1}
    PROVE  Lost(k) <= Cardinality(Mappers(page_dir, k))
<1> DEFINE R == {m \in Live \X VPages : page_dir[m[1]][m[2]] = k}
           M == Mappers(page_dir, k)
           f == [m \in R |-> m[1]]
<1>1. IsFiniteSet(R)
  BY LostType
<1>2. IsFiniteSet(M)
  BY PagingAssumption, FS_Subset DEF Mappers
<1>3. \A m \in R : m[2] = k /\ m[1] \in Slots /\ page_dir[m[1]][k] = k /\ m = <<m[1], m[2]>>
  BY DEF OneToOne, Live
<1>4. f \in [R -> M]
  BY <1>3 DEF Mappers
<1>5. \A m, n \in R : f[m] = f[n] => m = n
  BY <1>3
<1>6. f \in Injection(R, M)
  BY <1>4, <1>5 DEF Injection, IsInjective
<1> HIDE DEF R, M, f
<1>7. Cardinality(R) <= Cardinality(M)
  BY <1>2, <1>6, FS_Injection
<1> QED BY <1>7 DEF Lost, R, M
LEMMA KernelInit == Init => KernelInv
<1> SUFFICES ASSUME Init, NEW k \in {0, 1} PROVE OneToOne(page_dir) /\ Covered(k)
  BY DEF KernelInv
<1>1. \A s \in Slots, v \in VPages : page_dir[s][v] \notin {0, 1}
  BY PageFacts DEF Init, NoPageDir, PAGE_UNMAPPED, Pages
<1>2. k \in VPages /\ k \in Pages
  BY PageFacts DEF VPages, Pages, PROCESS_PAGES
<1>3. Mappers(page_dir, k) = {}
  BY <1>1, <1>2 DEF Mappers
<1>4. Cardinality(Mappers(page_dir, k)) = 0
  BY <1>3, FS_EmptySet
<1>5. page_ref_count[k] = 1 /\ k \in allocated_pages
  BY <1>2 DEF Init
<1> QED BY <1>1, <1>4, <1>5 DEF Covered, OneToOne

(* A directory that is added raises the count of the pages it maps. *)
LEMMA KernelStart ==
    ASSUME Inv, KernelInv, ~halted, halted' = halted,
           NEW s \in Slots, NEW pd \in PageDir, Start(s, pd),
           \A v \in VPages, k \in {0, 1} : pd[v] = k => v = k,
           allocated_pages \subseteq allocated_pages',
           \A k \in {0, 1} :
               /\ page_ref_count'[k] \in Nat
               /\ page_ref_count'[k] >= page_ref_count[k] + IF pd[k] = k THEN 1 ELSE 0
    PROVE  KernelInv'
<1>1. page_dir' = [page_dir EXCEPT ![s] = pd] /\ page_dir \in [Slots -> PageDir]
  BY DEF Start, Inv, TypeOK
<1>2. OneToOne(page_dir')
  BY <1>1 DEF OneToOne, KernelInv
<1>3. ASSUME NEW k \in {0, 1} PROVE Covered(k)'
  <2> DEFINE c == Cardinality(Mappers(page_dir, k))
             d == Cardinality(Mappers(page_dir', k))
  <2>1. k \in Pages /\ page_ref_count[k] \in Nat
    BY PageFacts DEF Inv, TypeOK, Pages
  <2>2. k \in allocated_pages /\ page_ref_count[k] >= 1 + c
    BY DEF KernelInv, Covered
  <2>3. c \in Nat /\ d \in Nat
    BY MappersCount
  <2>4. pd[k] = k => d <= c + 1
    <3>1. Mappers(page_dir', k) \subseteq Mappers(page_dir, k) \cup {s}
      BY <1>1 DEF Mappers
    <3> QED BY <3>1, MappersCount
  <2>5. pd[k] # k => d <= c
    <3>1. pd[k] # k => Mappers(page_dir', k) \subseteq Mappers(page_dir, k)
      BY <1>1 DEF Mappers
    <3> QED BY <3>1, MappersCount
  <2> HIDE DEF c, d
  <2>6. page_ref_count'[k] >= 1 + d /\ page_ref_count'[k] >= 1
    BY <2>1, <2>2, <2>3, <2>4, <2>5
  <2> QED BY <2>2, <2>6 DEF Covered, d
<1> QED BY <1>2, <1>3 DEF KernelInv

LEMMA KernelNext == Inv /\ KernelInv /\ [Next]_vars => KernelInv'
<1> SUFFICES ASSUME Inv, KernelInv, [Next]_vars PROVE KernelInv'
  OBVIOUS
<1>K. \A k \in {0, 1} : k \in Pages /\ k \in VPages /\ k \in Int
  BY PageFacts DEF Pages, VPages, PROCESS_PAGES
<1>T. /\ page_ref_count \in [Pages -> Nat]
      /\ page_dir \in [Slots -> PageDir]
  BY DEF Inv, TypeOK
<1>1. ASSUME ~halted, NEW s \in Slots, NEW start \in StartPages, SpawnIdentity(s, start)
      PROVE  KernelInv'
  <2> DEFINE pd == [v \in VPages |-> v]
  <2>1. /\ Start(s, pd) /\ pd \in PageDir /\ halted' = halted
        /\ allocated_pages' = allocated_pages
    BY <1>1, DirTypes DEF SpawnIdentity
  <2>2. page_ref_count' =
          [p \in Pages |-> IF p > 3 THEN page_ref_count[p]
                           ELSE IF page_ref_count[p] = 0 THEN 2
                           ELSE page_ref_count[p] + 1]
    BY <1>1 DEF SpawnIdentity
  <2>3. \A k \in {0, 1} : /\ page_ref_count'[k] \in Nat
                          /\ page_ref_count'[k] >= page_ref_count[k] + 1
    BY <1>K, <1>T, <2>2
  <2>4. \A v \in VPages, k \in {0, 1} : pd[v] = k => v = k
    OBVIOUS
  <2>5. \A k \in {0, 1} : pd[k] = k
    BY <1>K
  <2> HIDE DEF pd
  <2> QED BY <1>1, <2>1, <2>3, <2>4, <2>5, KernelStart
<1>2. ASSUME ~halted, NEW s \in Slots, NEW start \in StartPages, SpawnSequential(s, start)
      PROVE  KernelInv'
  <2> DEFINE pd == SequentialDir(start)
  <2>1. start \in Nat /\ start >= 3
    BY <1>2, PagingAssumption DEF SpawnSequential
  <2>2. /\ Start(s, pd) /\ pd \in PageDir /\ halted' = halted
        /\ allocated_pages' = allocated_pages
        /\ page_ref_count' = [p \in Pages |-> page_ref_count[p] + Count(pd, p)]
    BY <1>2, <2>1, DirTypes DEF SpawnSequential
  <2>3. \A v \in VPages : pd[v] \notin {0, 1}
    BY <2>1, PageFacts DEF SequentialDir, SharedPage, PAGE_UNMAPPED, Pages
  <2> HIDE DEF pd
  <2>4. \A k \in {0, 1} : /\ page_ref_count'[k] \in Nat
                          /\ page_ref_count'[k] >= page_ref_count[k]
    <3> TAKE k \in {0, 1}
    <3>1. Count(pd, k) \in Nat
      BY CountType
    <3> QED BY <1>K, <1>T, <2>2, <3>1
  <2>5. \A k \in {0, 1} : pd[k] # k /\ page_ref_count[k] \in Nat
    BY <1>K, <1>T, <2>3
  <2> QED BY <1>2, <2>2, <2>3, <2>4, <2>5, KernelStart
<1>3. ASSUME ~halted, NEW s \in Slots, NEW size \in ImagePages, Exec(s, size)
      PROVE  KernelInv'
  <2> DEFINE start == alloc_pages(PROCESS_PAGES)
             pd == ExecDir(start)
  <2>1. start \in 2 .. NUM_RAM_PAGES - 4
    BY <1>3, AllocFits DEF Exec, PROCESS_PAGES
  <2>2. /\ Start(s, pd) /\ halted' = halted
        /\ allocated_pages \subseteq allocated_pages'
        /\ page_ref_count' = [p \in Pages |-> IF p \in start .. start + 3 THEN 1
                                              ELSE page_ref_count[p]]
    BY <1>3 DEF Exec
  <2> HIDE DEF start
  <2>3. pd \in PageDir
    BY <2>1, DirTypes
  <2>4. \A v \in VPages : pd[v] \notin {0, 1}
    BY <2>1, PageFacts DEF ExecDir, SharedPage, VPages, PROCESS_PAGES
  <2> HIDE DEF pd
  <2>5. \A k \in {0, 1} : /\ page_ref_count[k] \in Nat
                          /\ page_ref_count'[k] = page_ref_count[k]
                          /\ pd[k] # k
    BY <1>K, <1>T, <2>1, <2>2, <2>4
  <2> QED BY <1>3, <2>2, <2>3, <2>4, <2>5, KernelStart
<1>4. ASSUME ~halted, NEW s \in Slots, Kill(s) \/ WaitPid(s)
      PROVE  KernelInv'
  <2>1. free_page_dir(page_dir[s])
    BY <1>4 DEF Kill, WaitPid
  <2>2. \A t \in Slots : page_dir'[t] \in {page_dir[t], NoPageDir}
    BY <1>4, <1>T DEF Kill, WaitPid
  <2>3. page_dir'[s] = NoPageDir
    <3>1. CASE Kill(s)
      BY <1>T, <3>1 DEF Kill
    <3>2. CASE WaitPid(s)
      BY <1>T, <3>2 DEF WaitPid, InTable
    <3> QED BY <1>4, <3>1, <3>2
  <2>4. \A v \in VPages : NoPageDir[v] \notin {0, 1}
    BY PageFacts DEF NoPageDir, PAGE_UNMAPPED, Pages
  <2>5. OneToOne(page_dir')
    BY <2>2, <2>4 DEF OneToOne, KernelInv
  <2>6. \A k \in {0, 1} : Mappers(page_dir', k) \subseteq Mappers(page_dir, k) \ {s}
    BY <1>K, <2>2, <2>3, <2>4 DEF Mappers
  <2> QED BY <1>4, <2>1, <2>5, <2>6, KernelFree DEF KernelInv
<1>5. ASSUME ~halted, NEW s \in Slots, NEW v \in WritePages, Store(s, v)
      PROVE  KernelInv'
  <2>1. v \in VPages
    BY PagingAssumption DEF VPages, PROCESS_PAGES, HardwarePage
  <2>2. CASE page_dir[s][v] \in page_cow /\ Fits(1) # {}
    BY <1>5, <2>1, <2>2, KernelCopy DEF Store
  <2>3. CASE ~(page_dir[s][v] \in page_cow /\ Fits(1) # {})
    BY <1>5, <2>3 DEF Store, WriteInPlace, KernelInv, Covered
  <2> QED BY <2>2, <2>3
<1>6. ASSUME ~halted, Shutdown PROVE KernelInv'
  <2>1. page_dir' = page_dir /\ halted'
    BY <1>6 DEF Shutdown
  <2>2. ASSUME NEW k \in {0, 1} PROVE Covered(k)'
    <3> DEFINE c == Cardinality(Mappers(page_dir, k))
    <3>1. Lost(k) \in Nat /\ c \in Nat
      BY LostType, MappersType, Zenon
    <3>2. Lost(k) <= c
      BY KernelLost DEF KernelInv
    <3>3. k \in allocated_pages /\ page_ref_count[k] >= 1 + c /\ page_ref_count[k] \in Nat
      BY <1>6, <1>K, <1>T DEF KernelInv, Covered
    <3> HIDE DEF c
    <3>4. page_ref_count[k] > Lost(k)
      BY <3>1, <3>2, <3>3
    <3>5. page_ref_count'[k] = page_ref_count[k] - Lost(k)
      BY <1>6, <1>K, <3>4 DEF Shutdown, Left
    <3>6. page_ref_count'[k] >= 1
      BY <3>1, <3>3, <3>4, <3>5
    <3>7. k \in allocated_pages'
      BY <1>6, <3>1, <3>3, <3>4 DEF Shutdown
    <3> QED BY <2>1, <3>6, <3>7 DEF Covered
  <2> QED BY <2>1, <2>2 DEF KernelInv
<1>7. ASSUME UNCHANGED <<allocated_pages, page_ref_count, page_dir, halted>>
      PROVE  KernelInv'
  BY <1>7 DEF KernelInv, Covered
<1>8. ASSUME NEW s \in Slots, NEW v \in WritePages, Halt(s) \/ Push(s, v)
      PROVE  KernelInv'
  BY <1>7, <1>8 DEF Halt, Push, WriteInPlace
<1>9. ASSUME NEW s \in Slots, Halt(s) PROVE KernelInv'
  BY <1>7, <1>9 DEF Halt
<1>10. ASSUME NEW p \in Pages, MainStore(p) PROVE KernelInv'
  BY <1>7, <1>10 DEF MainStore
<1>11. CASE ExecFails
  BY <1>7, <1>11 DEF ExecFails
<1>12. CASE UNCHANGED vars
  BY <1>7, <1>12 DEF vars
<1>13. CASE halted /\ Next
  BY <1>12, <1>13 DEF Next
<1>14. CASE ~halted /\ Next
  BY <1>1, <1>2, <1>3, <1>4, <1>5, <1>6, <1>8, <1>9, <1>10, <1>11, <1>14 DEF Next
<1> QED BY <1>12, <1>13, <1>14

(* The pages of the main program are never freed. *)
THEOREM KernelPages == Spec => []KernelPagesHeld
<1>1. KernelInv => KernelPagesHeld
  BY DEF KernelInv, Covered, KernelPagesHeld
<1> QED BY <1>1, CountInit, CountNext, KernelInit, KernelNext, PTL DEF Spec
-----------------------------------------------------------------------------
(* Until SHUTDOWN a directory that maps page 0 or 1 maps a marked page: a  *)
(* mark goes only with a count of at most 1, which the main program has.   *)

MarkInv ==
    ~halted => \A s \in Slots, k \in {0, 1} : page_dir[s][k] = k => k \in page_cow

(* A step that adds no directory and clears marks of such counts only.     *)
LEMMA MarkKept ==
    ASSUME TypeOK', KernelInv', MarkInv, ~halted,
           \A s \in Slots, k \in {0, 1} : page_dir'[s][k] = k => page_dir[s][k] = k,
           \A k \in {0, 1} : k \in page_cow /\ page_ref_count'[k] > 1 => k \in page_cow'
    PROVE  MarkInv'
<1> SUFFICES ASSUME ~halted', NEW s \in Slots, NEW k \in {0, 1}, page_dir'[s][k] = k
             PROVE  k \in page_cow'
  BY DEF MarkInv
<1>1. k \in page_cow
  BY DEF MarkInv
<1> DEFINE M == Mappers(page_dir', k)
<1>2. s \in M /\ IsFiniteSet(M) /\ Cardinality(M) \in Nat
  <2>1. s \in M
    BY DEF Mappers
  <2> QED BY <2>1, MappersType
<1>3. page_ref_count'[k] >= 1 + Cardinality(M)
  BY DEF KernelInv, Covered
<1>4. page_ref_count'[k] \in Nat
  BY PageFacts DEF TypeOK, Pages
<1> HIDE DEF M
<1>5. Cardinality(M) # 0
  BY <1>2, FS_EmptySet
<1>6. page_ref_count'[k] > 1
  BY <1>2, <1>3, <1>4, <1>5
<1> QED BY <1>1, <1>6

LEMMA MarkInit == Init => MarkInv
<1> SUFFICES ASSUME Init, NEW s \in Slots, NEW k \in {0, 1} PROVE page_dir[s][k] # k
  BY DEF MarkInv
<1>1. k \in VPages
  BY PageFacts DEF VPages, PROCESS_PAGES
<1> QED BY <1>1, PageFacts DEF Init, NoPageDir, PAGE_UNMAPPED, Pages

LEMMA MarkNext ==
    Inv /\ Inv' /\ KernelInv /\ KernelInv' /\ MarkInv /\ [Next]_vars => MarkInv'
<1> SUFFICES ASSUME Inv, Inv', KernelInv, KernelInv', MarkInv, [Next]_vars
             PROVE  MarkInv'
  OBVIOUS
<1>K. \A k \in {0, 1} : k \in Pages /\ k \in VPages
  BY PageFacts DEF Pages, VPages, PROCESS_PAGES
<1>T. /\ page_dir \in [Slots -> PageDir] /\ TypeOK'
      /\ page_ref_count \in [Pages -> Nat]
  BY DEF Inv, TypeOK
<1>1. ASSUME ~halted, NEW s \in Slots, NEW pd, Start(s, pd), page_cow \subseteq page_cow',
             \A k \in {0, 1} : pd[k] = k => k \in page_cow'
      PROVE  MarkInv'
  <2>1. \A t \in Slots : page_dir'[t] = IF t = s THEN pd ELSE page_dir[t]
    BY <1>1, <1>T DEF Start
  <2> QED BY <1>1, <2>1 DEF MarkInv
<1>2. ASSUME ~halted, NEW s \in Slots, NEW start \in StartPages, SpawnIdentity(s, start)
      PROVE  MarkInv'
  <2>1. Start(s, [v \in VPages |-> v]) /\ page_cow' = page_cow \cup {0, 1, 2}
    BY <1>2 DEF SpawnIdentity
  <2> QED BY <1>1, <1>2, <2>1
<1>3. ASSUME ~halted, NEW s \in Slots, NEW start \in StartPages, SpawnSequential(s, start)
      PROVE  MarkInv'
  <2>1. start \in Nat /\ start >= 3 /\ Start(s, SequentialDir(start))
    BY <1>3, PagingAssumption DEF SpawnSequential
  <2>2. page_cow \subseteq page_cow'
    BY <1>3 DEF SpawnSequential
  <2>3. \A k \in {0, 1} : SequentialDir(start)[k] # k
    BY <1>K, <2>1, PageFacts DEF SequentialDir, SharedPage, PAGE_UNMAPPED, Pages
  <2> QED BY <1>1, <1>3, <2>1, <2>2, <2>3
<1>4. ASSUME ~halted, NEW s \in Slots, NEW size \in ImagePages, Exec(s, size)
      PROVE  MarkInv'
  <2> DEFINE start == alloc_pages(PROCESS_PAGES)
  <2>1. start \in 2 .. NUM_RAM_PAGES - 4
    BY <1>4, AllocFits DEF Exec, PROCESS_PAGES
  <2>2. Start(s, ExecDir(start)) /\ page_cow' = page_cow
    BY <1>4 DEF Exec
  <2> HIDE DEF start
  <2>3. \A k \in {0, 1} : ExecDir(start)[k] # k
    BY <1>K, <2>1, PageFacts DEF ExecDir, SharedPage
  <2> QED BY <1>1, <1>4, <2>2, <2>3
<1>5. ASSUME ~halted, NEW s \in Slots, Kill(s) \/ WaitPid(s)
      PROVE  MarkInv'
  <2>1. free_page_dir(page_dir[s])
    BY <1>5 DEF Kill, WaitPid
  <2>2. \A t \in Slots : page_dir'[t] \in {page_dir[t], NoPageDir}
    BY <1>5, <1>T DEF Kill, WaitPid
  <2>3. \A k \in {0, 1} : NoPageDir[k] # k
    BY <1>K, PageFacts DEF NoPageDir, PAGE_UNMAPPED, Pages
  <2>4. \A t \in Slots, k \in {0, 1} : page_dir'[t][k] = k => page_dir[t][k] = k
    BY <2>2, <2>3
  <2>5. \A k \in {0, 1} : page_ref_count'[k] = RefAfterFree(page_dir[s], k)
    BY <1>K, <2>1 DEF free_page_dir
  <2>6. \A k \in {0, 1} : k \in page_cow /\ page_ref_count'[k] > 1 => k \in page_cow'
    <3> TAKE k \in {0, 1}
    <3>1. page_ref_count'[k] \in Nat
      BY <1>K, <1>T DEF TypeOK
    <3> QED BY <2>1, <2>5, <3>1 DEF free_page_dir
  <2> QED BY <1>5, <1>T, <2>4, <2>6, MarkKept
<1>6. ASSUME ~halted, NEW s \in Slots, NEW v \in VPages, page_dir[s][v] \in page_cow,
             Fits(1) # {}, CowCopy(s, v)
      PROVE  MarkInv'
  <2> DEFINE old == page_dir[s][v]
             new == alloc_pages(1)
             refs == [page_ref_count EXCEPT ![new] = 1]
  <2>1. new \in 2 .. NUM_RAM_PAGES - 1 /\ new \in Pages
    BY <1>6, CopyCounts
  <2>2. old \in Pages
    BY <1>6 DEF Inv, TypeOK
  <2>3. /\ page_dir' = [page_dir EXCEPT ![s][v] = new]
        /\ page_ref_count' = [refs EXCEPT ![old] = @ - 1]
        /\ page_cow' = page_cow \ ({new} \cup IF refs[old] - 1 <= 1 THEN {old} ELSE {})
    BY <1>6 DEF CowCopy
  <2> HIDE DEF old, new
  <2>4. \A t \in Slots, k \in {0, 1} : page_dir'[t][k] = k => page_dir[t][k] = k
    <3>1. \A t \in Slots, w \in VPages :
            page_dir'[t][w] = IF t = s /\ w = v THEN new ELSE page_dir[t][w]
      BY <1>T, <2>3 DEF PageDir
    <3> QED BY <1>K, <2>1, <3>1
  <2>5. \A k \in {0, 1} : k \in page_cow /\ page_ref_count'[k] > 1 => k \in page_cow'
    <3> TAKE k \in {0, 1}
    <3>1. k # new /\ page_ref_count'[k] \in Nat
      BY <1>K, <1>T, <2>1 DEF TypeOK
    <3>2. refs \in [Pages -> Nat]
      BY <1>T, <2>1
    <3> HIDE DEF refs
    <3>3. k = old => page_ref_count'[k] = refs[old] - 1
      BY <1>K, <2>3, <3>2
    <3> QED BY <2>2, <2>3, <3>1, <3>2, <3>3
  <2> QED BY <1>6, <1>T, <2>4, <2>5, MarkKept
<1>7. ASSUME UNCHANGED <<page_cow, page_dir, halted>>
      PROVE  MarkInv'
  BY <1>7 DEF MarkInv
<1>8. ASSUME ~halted, NEW s \in Slots, NEW v \in WritePages, Store(s, v)
      PROVE  MarkInv'
  <2>1. v \in VPages
    BY PagingAssumption DEF VPages, PROCESS_PAGES, HardwarePage
  <2>2. CASE page_dir[s][v] \in page_cow /\ Fits(1) # {}
    BY <1>6, <1>8, <2>1, <2>2 DEF Store
  <2>3. CASE ~(page_dir[s][v] \in page_cow /\ Fits(1) # {})
    BY <1>7, <1>8, <2>3 DEF Store, WriteInPlace
  <2> QED BY <2>2, <2>3
<1>9. CASE Shutdown
  BY <1>9 DEF Shutdown, MarkInv
<1>10. ASSUME NEW s \in Slots, NEW v \in WritePages, Push(s, v)
       PROVE  MarkInv'
  BY <1>7, <1>10 DEF Push, WriteInPlace
<1>11. ASSUME NEW s \in Slots, Halt(s) PROVE MarkInv'
  BY <1>7, <1>11 DEF Halt
<1>12. ASSUME NEW p \in Pages, MainStore(p) PROVE MarkInv'
  BY <1>7, <1>12 DEF MainStore
<1>13. CASE ExecFails
  BY <1>7, <1>13 DEF ExecFails
<1>14. CASE UNCHANGED vars
  BY <1>7, <1>14 DEF vars
<1>15. CASE halted /\ Next
  BY <1>14, <1>15 DEF Next
<1>16. CASE ~halted /\ Next
  BY <1>2, <1>3, <1>4, <1>5, <1>8, <1>9, <1>10, <1>11, <1>12, <1>13, <1>16 DEF Next
<1> QED BY <1>14, <1>15, <1>16

(* A STORE of a child writes page 0 or 1 only when there is no page for    *)
(* its copy, also after failed copies and after others' copies, kills and  *)
(* reaps: the mark is still there, and a copy goes to page 2 or above.     *)
THEOREM MainIsSpared == Spec => StoresSpareMain
<1>1. ASSUME Inv, KernelInv, MarkInv, ~halted, NEW s \in Slots, NEW v \in WritePages,
             wrote'.pages \cap {0, 1} # {}, Store(s, v), Fits(1) # {}
      PROVE  FALSE
  <2>1. v \in VPages
    BY PagingAssumption DEF VPages, PROCESS_PAGES, HardwarePage
  <2>2. CASE page_dir[s][v] \in page_cow
    <3>1. CowCopy(s, v)
      BY <1>1, <2>2 DEF Store
    <3>2. wrote' = [by |-> s, pages |-> {alloc_pages(1)}]
      BY <3>1 DEF CowCopy
    <3>3. alloc_pages(1) \in 2 .. NUM_RAM_PAGES - 1
      BY <1>1, AllocFits
    <3> QED BY <1>1, <3>2, <3>3
  <2>3. CASE page_dir[s][v] \notin page_cow
    <3>1. wrote' = [by |-> s, pages |-> {page_dir[s][v]}]
      BY <1>1, <2>3 DEF Store, WriteInPlace
    <3>2. PICK k \in {0, 1} : page_dir[s][v] = k
      BY <1>1, <3>1
    <3>3. v = k
      BY <1>1, <2>1, <3>2 DEF KernelInv, OneToOne
    <3> QED BY <1>1, <2>3, <3>2, <3>3 DEF MarkInv
  <2> QED BY <2>2, <2>3
<1>2. halted /\ [Next]_vars => UNCHANGED vars
  BY DEF Next
<1>3. Inv /\ KernelInv /\ MarkInv /\ [Next]_vars
        => [\A s \in Slots, v \in WritePages :
              wrote'.pages \cap {0, 1} # {} /\ Store(s, v) => Fits(1) = {}]_vars
  BY <1>1, <1>2
<1>4. Inv /\ KernelInv /\ MarkInv /\ [Next]_vars => (Inv /\ KernelInv /\ MarkInv)'
  BY CountNext, KernelNext, MarkNext
<1> QED BY <1>3, <1>4, CountInit, KernelInit, MarkInit, PTL DEF Spec, StoresSpareMain
-----------------------------------------------------------------------------
(* Programs that use EXEC and not SPAWN.  A directory is then one of       *)
(* create_process_page_dir or cleared, nothing is copy-on-write, and the   *)
(* three private pages stay allocated while the process has them, except   *)
(* the shared page, which every directory that is freed gives back.  The   *)
(* page after it is still held, so no later run of pages reaches it.       *)

ExecOnly == StartPages = {}

HeldPages(a) == \A p \in a .. a + 2 : p # SharedPage => p \in allocated_pages

Owner(s) ==
    \/ page_dir[s] = NoPageDir
    \/ \E a \in 2 .. NUM_RAM_PAGES - 4 :
          page_dir[s] = ExecDir(a) /\ (~halted => HeldPages(a))

ExecInv ==
    /\ page_cow = {}
    /\ \A p \in Pages : page_ref_count[p] <= 1
    /\ \A s \in Slots : Owner(s)
    /\ PrivatePagesDisjoint

(* The entries of a directory and its private pages. *)
LEMMA OwnPages ==
    ASSUME NEW a \in 2 .. NUM_RAM_PAGES - 4, NEW d, d = ExecDir(a)
    PROVE  /\ {d[v] : v \in 0 .. 2} \ {PAGE_UNMAPPED} = a .. a + 2
           /\ \A v \in VPages : d[v] \in (a .. a + 2) \cup {SharedPage, HardwarePage}
           /\ \A v \in VPages \ {HardwarePage} : d[v] \in (a .. a + 2) \cup {SharedPage}
<1>1. 0 \in VPages /\ 1 \in VPages /\ 2 \in VPages
  BY DEF VPages, PROCESS_PAGES
<1>2. d[0] = a /\ d[1] = a + 1 /\ d[2] = a + 2
  BY <1>1, PageFacts DEF ExecDir, HardwarePage
<1>3. {d[v] : v \in 0 .. 2} = {a, a + 1, a + 2}
  <2>1. 0 .. 2 = {0, 1, 2}
    OBVIOUS
  <2> QED BY <1>2, <2>1
<1>4. a .. a + 2 = {a, a + 1, a + 2}
  OBVIOUS
<1>5. PAGE_UNMAPPED \notin a .. a + 2
  BY PageFacts DEF PAGE_UNMAPPED
<1>6. \A v \in VPages : d[v] = IF v = HardwarePage THEN HardwarePage
                               ELSE IF v = 3 THEN SharedPage ELSE a + v
  BY PageFacts DEF ExecDir
<1>7. \A v \in VPages \ {HardwarePage} : v \in 0 .. 3
  BY DEF VPages, PROCESS_PAGES
<1>8. \A v \in VPages \ {HardwarePage} : d[v] \in (a .. a + 2) \cup {SharedPage}
  BY <1>6, <1>7
<1> QED BY <1>3, <1>4, <1>5, <1>6, <1>8

LEMMA NoPages ==
    ASSUME NEW d, d = NoPageDir
    PROVE  /\ {d[v] : v \in 0 .. 2} \ {PAGE_UNMAPPED} = {}
           /\ \A v \in VPages : d[v] = PAGE_UNMAPPED
<1>1. \A v \in 0 .. 2 : v \in VPages
  BY DEF VPages, PROCESS_PAGES
<1> QED BY <1>1 DEF NoPageDir

(* A free run of four pages avoids the private pages of every process. *)
LEMMA RunsAvoidOwners ==
    ASSUME NEW a \in 2 .. NUM_RAM_PAGES - 4, HeldPages(a),
           NEW b \in 2 .. NUM_RAM_PAGES - 4,
           \A p \in b .. b + 3 : p \notin allocated_pages
    PROVE  (a .. a + 2) \cap (b .. b + 2) = {}
<1> SUFFICES ASSUME NEW p \in a .. a + 2, p \in b .. b + 2 PROVE FALSE
  OBVIOUS
<1>1. a \in Nat /\ b \in Nat /\ p \in Nat
  BY PageFacts
<1>2. p \notin allocated_pages
  BY <1>1
<1>3. p = SharedPage
  BY <1>2 DEF HeldPages
<1>4. 4 \in a .. a + 2 /\ 4 \in b .. b + 3
  BY <1>1, <1>3 DEF SharedPage
<1> QED BY <1>4 DEF HeldPages, SharedPage

(* Freeing the directory of s leaves the pages of the others allocated. *)
LEMMA FreeKeepsOwners ==
    ASSUME Inv, ExecInv, ~halted, halted' = halted, NEW s \in Slots,
           free_page_dir(page_dir[s]), page_dir'[s] = NoPageDir,
           \A t \in Slots : page_dir'[t] \in {page_dir[t], NoPageDir}
    PROVE  ExecInv'
<1>1. page_cow' = {}
  BY DEF free_page_dir, ExecInv
<1>2. \A p \in Pages : page_ref_count'[p] <= 1
  <2> TAKE p \in Pages
  <2>1. page_ref_count[p] \in Nat /\ page_ref_count[p] <= 1
    BY DEF Inv, TypeOK, ExecInv
  <2>2. Times(page_dir[s], p) \in Nat
    BY TimesType
  <2>3. page_ref_count'[p] = RefAfterFree(page_dir[s], p)
    BY DEF free_page_dir
  <2> QED BY <2>1, <2>2, <2>3 DEF RefAfterFree
<1>3. ASSUME NEW t \in Slots PROVE Owner(t)'
  <2>1. CASE page_dir'[t] = NoPageDir
    BY <2>1 DEF Owner
  <2>2. CASE page_dir'[t] # NoPageDir
    <3>1. page_dir'[t] = page_dir[t] /\ t # s
      BY <2>2
    <3>2. PICK a \in 2 .. NUM_RAM_PAGES - 4 : page_dir[t] = ExecDir(a) /\ HeldPages(a)
      BY <2>2, <3>1 DEF ExecInv, Owner
    <3>3. Private(t) = a .. a + 2
      BY <3>2, OwnPages DEF Private
    <3>4. ASSUME NEW p \in a .. a + 2, p # SharedPage
          PROVE  p \in allocated_pages'
      <4>1. p \in Pages /\ p # HardwarePage /\ p # PAGE_UNMAPPED
        BY PageFacts DEF Pages, HardwarePage, PAGE_UNMAPPED
      <4>2. p \notin Private(s)
        BY <3>1, <3>3 DEF ExecInv, PrivatePagesDisjoint
      <4>3. \A v \in VPages : page_dir[s][v] # p
        <5>1. CASE page_dir[s] = NoPageDir
          BY <4>1, <5>1, NoPages
        <5>2. ASSUME NEW b \in 2 .. NUM_RAM_PAGES - 4, page_dir[s] = ExecDir(b)
              PROVE  \A v \in VPages : page_dir[s][v] # p
          <6>1. Private(s) = b .. b + 2
            BY <5>2, OwnPages DEF Private
          <6> QED BY <3>4, <4>1, <4>2, <5>2, <6>1, OwnPages
        <5> QED BY <5>1, <5>2 DEF ExecInv, Owner
      <4>4. Times(page_dir[s], p) = 0
        BY <4>3, TimesType
      <4>5. p \notin Freed(page_dir[s])
        BY <4>4 DEF Freed
      <4>6. p \in allocated_pages
        BY <3>2, <3>4 DEF HeldPages
      <4> QED BY <4>5, <4>6 DEF free_page_dir
    <3> QED BY <3>1, <3>2, <3>4 DEF Owner, HeldPages
  <2> QED BY <2>1, <2>2
<1>4. PrivatePagesDisjoint'
  <2>1. ASSUME NEW t \in Slots PROVE Private(t)' \in {Private(t), {}}
    <3>1. CASE page_dir'[t] = page_dir[t]
      BY <3>1 DEF Private
    <3>2. CASE page_dir'[t] = NoPageDir
      BY <3>2, NoPages DEF Private
    <3> QED BY <3>1, <3>2
  <2> QED BY <2>1 DEF PrivatePagesDisjoint, ExecInv
<1> QED BY <1>1, <1>2, <1>3, <1>4 DEF ExecInv
LEMMA ExecInit == Init => ExecInv
<1> SUFFICES ASSUME Init PROVE ExecInv
  OBVIOUS
<1>1. \A s \in Slots : page_dir[s] = NoPageDir
  BY DEF Init
<1>2. \A s \in Slots : Private(s) = {}
  BY <1>1, NoPages DEF Private
<1> QED BY <1>1, <1>2 DEF Init, ExecInv, Owner, PrivatePagesDisjoint

(* The pages EXEC takes belong to no other process. *)
LEMMA ExecPages ==
    ASSUME Inv, ExecInv, ~halted, NEW s \in Slots, NEW size, Exec(s, size)
    PROVE  LET start == alloc_pages(PROCESS_PAGES)
           IN  /\ start \in 2 .. NUM_RAM_PAGES - 4
               /\ page_dir' = [page_dir EXCEPT ![s] = ExecDir(start)]
               /\ \A t \in Slots : (Private(t) \cap start .. start + 2) = {}
<1> DEFINE start == alloc_pages(PROCESS_PAGES)
<1>1. /\ start \in 2 .. NUM_RAM_PAGES - 4
      /\ \A p \in start .. start + 3 : p \notin allocated_pages
  BY AllocFits DEF Exec, PROCESS_PAGES
<1>2. page_dir' = [page_dir EXCEPT ![s] = ExecDir(start)]
  BY DEF Exec, Start
<1> HIDE DEF start
<1>3. ASSUME NEW t \in Slots PROVE Private(t) \cap (start .. start + 2) = {}
  <2>1. CASE page_dir[t] = NoPageDir
    BY <2>1, NoPages DEF Private
  <2>2. ASSUME NEW a \in 2 .. NUM_RAM_PAGES - 4, page_dir[t] = ExecDir(a), HeldPages(a)
        PROVE  Private(t) \cap (start .. start + 2) = {}
    <3>1. Private(t) = a .. a + 2
      BY <2>2, OwnPages DEF Private
    <3> QED BY <1>1, <2>2, <3>1, RunsAvoidOwners
  <2> QED BY <2>1, <2>2 DEF ExecInv, Owner
<1> QED BY <1>1, <1>2, <1>3 DEF start

LEMMA ExecNext == ExecOnly /\ Inv /\ ExecInv /\ [Next]_vars => ExecInv'
<1> SUFFICES ASSUME ExecOnly, Inv, ExecInv, [Next]_vars PROVE ExecInv'
  OBVIOUS
<1>T. page_dir \in [Slots -> PageDir] /\ page_ref_count \in [Pages -> Nat]
  BY DEF Inv, TypeOK
<1>1. ASSUME ~halted, NEW s \in Slots, NEW size \in ImagePages, Exec(s, size)
      PROVE  ExecInv'
  <2> DEFINE start == alloc_pages(PROCESS_PAGES)
  <2>1. /\ start \in 2 .. NUM_RAM_PAGES - 4
        /\ page_dir' = [page_dir EXCEPT ![s] = ExecDir(start)]
        /\ \A t \in Slots : Private(t) \cap (start .. start + 2) = {}
    BY <1>1, ExecPages
  <2>2. /\ allocated_pages' = allocated_pages \cup HeldAfterExec(start)
        /\ page_ref_count' = [p \in Pages |-> IF p \in start .. start + 3 THEN 1
                                              ELSE page_ref_count[p]]
        /\ page_cow' = page_cow /\ halted' = halted
    BY <1>1 DEF Exec
  <2> HIDE DEF start
  <2>3. \A p \in Pages : page_ref_count'[p] <= 1
    BY <2>2 DEF ExecInv
  <2>4. ASSUME NEW t \in Slots PROVE Owner(t)'
    <3>1. CASE t = s
      <4>1. PICK b \in 2 .. NUM_RAM_PAGES - 4 : b = start
        BY <2>1
      <4>2. page_dir'[t] = ExecDir(b)
        BY <1>T, <2>1, <3>1, <4>1
      <4>3. \A p \in b .. b + 2 : p \in allocated_pages'
        BY <2>2, <4>1 DEF HeldAfterExec
      <4> QED BY <4>2, <4>3 DEF Owner, HeldPages
    <3>2. CASE t # s
      <4>1. page_dir'[t] = page_dir[t]
        BY <1>T, <2>1, <3>2
      <4>2. \A a : HeldPages(a) => HeldPages(a)'
        BY <2>2 DEF HeldPages
      <4> QED BY <2>2, <4>1, <4>2 DEF Owner, ExecInv
    <3> QED BY <3>1, <3>2
  <2>5. PrivatePagesDisjoint'
    <3>1. Private(s)' = start .. start + 2
      <4>1. page_dir'[s] = ExecDir(start)
        BY <1>T, <2>1
      <4> QED BY <2>1, <4>1, OwnPages DEF Private
    <3>2. \A t \in Slots \ {s} : Private(t)' = Private(t)
      BY <1>T, <2>1 DEF Private
    <3>3. ASSUME NEW t \in Slots, NEW u \in Slots, t # u
          PROVE  Private(t)' \cap Private(u)' = {}
      <4>1. CASE t = s
        BY <2>1, <3>1, <3>2, <3>3, <4>1
      <4>2. CASE u = s
        BY <2>1, <3>1, <3>2, <3>3, <4>2
      <4>3. CASE t # s /\ u # s
        BY <3>2, <3>3, <4>3 DEF ExecInv, PrivatePagesDisjoint
      <4> QED BY <4>1, <4>2, <4>3
    <3> QED BY <3>3 DEF PrivatePagesDisjoint
  <2> QED BY <2>2, <2>3, <2>4, <2>5 DEF ExecInv
<1>2. ASSUME ~halted, NEW s \in Slots, Kill(s) \/ WaitPid(s)
      PROVE  ExecInv'
  <2>1. free_page_dir(page_dir[s]) /\ halted' = halted
    BY <1>2 DEF Kill, WaitPid
  <2>2. \A t \in Slots : page_dir'[t] \in {page_dir[t], NoPageDir}
    BY <1>2, <1>T DEF Kill, WaitPid
  <2>3. page_dir'[s] = NoPageDir
    <3>1. CASE Kill(s)
      BY <1>T, <3>1 DEF Kill
    <3>2. CASE WaitPid(s)
      BY <1>T, <3>2 DEF WaitPid, InTable
    <3> QED BY <1>2, <3>1, <3>2
  <2> QED BY <1>2, <2>1, <2>2, <2>3, FreeKeepsOwners
<1>3. ASSUME UNCHANGED <<allocated_pages, page_ref_count, page_cow, page_dir, halted>>
      PROVE  ExecInv'
  <2>1. page_cow' = {} /\ \A p \in Pages : page_ref_count'[p] <= 1
    BY <1>3 DEF ExecInv
  <2>2. \A s \in Slots : Owner(s)'
    BY <1>3 DEF ExecInv, Owner, HeldPages
  <2>3. PrivatePagesDisjoint'
    BY <1>3 DEF ExecInv, PrivatePagesDisjoint, Private
  <2> QED BY <2>1, <2>2, <2>3 DEF ExecInv
<1>4. ASSUME ~halted, Shutdown PROVE ExecInv'
  <2>1. page_dir' = page_dir /\ halted' /\ page_cow' \subseteq page_cow
    BY <1>4 DEF Shutdown
  <2>2. \A p \in Pages : page_ref_count'[p] <= 1
    <3> TAKE p \in Pages
    <3>1. Lost(p) \in Nat
      BY LostType
    <3>2. page_ref_count[p] \in Nat /\ page_ref_count[p] <= 1
      BY <1>T DEF ExecInv
    <3>3. page_ref_count'[p] = Left(p)
      BY <1>4 DEF Shutdown
    <3> QED BY <3>1, <3>2, <3>3 DEF Left
  <2>3. \A s \in Slots : Owner(s)'
    BY <2>1 DEF Owner, ExecInv
  <2>4. PrivatePagesDisjoint'
    BY <2>1 DEF PrivatePagesDisjoint, Private, ExecInv
  <2> QED BY <2>1, <2>2, <2>3, <2>4 DEF ExecInv
<1>5. ASSUME NEW s \in Slots, NEW v \in WritePages, Store(s, v) \/ Push(s, v)
      PROVE  ExecInv'
  <2>1. page_dir[s][v] \notin page_cow
    BY DEF ExecInv
  <2> QED BY <1>3, <1>5, <2>1 DEF Store, Push, WriteInPlace
<1>6. ASSUME NEW s \in Slots, Halt(s) PROVE ExecInv'
  BY <1>3, <1>6 DEF Halt
<1>7. ASSUME NEW p \in Pages, MainStore(p) PROVE ExecInv'
  BY <1>3, <1>7 DEF MainStore
<1>8. CASE ExecFails
  BY <1>3, <1>8 DEF ExecFails
<1>9. CASE UNCHANGED vars
  BY <1>3, <1>9 DEF vars
<1>10. CASE halted /\ Next
  BY <1>9, <1>10 DEF Next
<1>11. CASE ~halted /\ Next
  BY <1>1, <1>2, <1>4, <1>5, <1>6, <1>7, <1>8, <1>11 DEF Next, ExecOnly
<1> QED BY <1>9, <1>10, <1>11

(* Processes loaded with EXEC have no private page in common. *)
THEOREM ExecDisjoint ==
    ASSUME StartPages = {}
    PROVE  Spec => []PrivatePagesDisjoint
<1>1. ExecOnly
  BY DEF ExecOnly
<1>2. ExecInv => PrivatePagesDisjoint
  BY DEF ExecInv
<1>3. Inv /\ ExecInv /\ [Next]_vars => (Inv /\ ExecInv)'
  BY <1>1, CountNext, ExecNext
<1> QED BY <1>2, <1>3, CountInit, ExecInit, PTL DEF Spec

(* A page that is given back, other than the shared page and the last one, *)
(* is mapped by no process that lives then: those that are left still hold *)
(* the pages of their own, and after a SHUTDOWN none lives.                *)
THEOREM ExecFreesItsOwn ==
    ASSUME StartPages = {}
    PROVE  Spec => FreedPagesUnmapped
<1>1. ExecOnly
  BY DEF ExecOnly
<1>2. Inv /\ ExecInv /\ [Next]_vars => (Inv /\ ExecInv)'
  BY <1>1, CountNext, ExecNext
<1>3. ASSUME Inv, ExecInv, ExecInv', Next, NEW t \in Slots, status'[t] = "live",
             NEW p \in (allocated_pages \ allocated_pages') \ {SharedPage, HardwarePage}
      PROVE  p \notin Private(t)'
  <2>1. CASE Shutdown
    BY <1>3, <2>1 DEF Shutdown, Inv, TypeOK
  <2>2. CASE halted /\ UNCHANGED vars
    BY <2>2 DEF vars
  <2>3. CASE ~halted /\ ~Shutdown
    <3>1. ~halted'
      BY <1>3, <2>3 DEF Next, SpawnIdentity, SpawnSequential, Exec, Halt, Kill, WaitPid,
                        Store, Push, ExecFails, MainStore
    <3>2. CASE page_dir'[t] = NoPageDir
      BY <3>2, NoPages DEF Private
    <3>3. ASSUME NEW a \in 2 .. NUM_RAM_PAGES - 4, page_dir'[t] = ExecDir(a), HeldPages(a)'
          PROVE  p \notin Private(t)'
      <4>1. Private(t)' = a .. a + 2
        BY <3>3, OwnPages DEF Private
      <4> QED BY <3>3, <4>1 DEF HeldPages
    <3> QED BY <1>3, <3>1, <3>2, <3>3 DEF ExecInv, Owner
  <2> QED BY <1>3, <2>1, <2>2, <2>3 DEF Next
<1>4. Inv /\ ExecInv /\ ExecInv' /\ [Next]_vars
        => [\A p \in (allocated_pages \ allocated_pages') \ {SharedPage, HardwarePage} :
              \A t \in Slots : status'[t] = "live" => p \notin Private(t)']_vars
  BY <1>3
<1> QED BY <1>2, <1>4, CountInit, ExecInit, PTL DEF Spec, FreedPagesUnmapped
=============================================================================
