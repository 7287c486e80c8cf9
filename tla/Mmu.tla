--------------------------------- MODULE Mmu --------------------------------
(***************************************************************************)
(* Address translation of the RISC-V guest: the Sv32 walk with its         *)
(* translation buffer (riscv/mmu.rs), SFENCE.VMA and writes of satp        *)
(* (riscv/cpu), and the repair of page tables that hold kernel virtual     *)
(* addresses (riscv/bus.rs), which Linux makes when no firmware told it    *)
(* where its memory is.                                                    *)
(*                                                                         *)
(* Addresses are page numbers: a virtual page is <<vpn1, vpn0>>, MEGA is   *)
(* the number of pages under one vpn1.  Accessed and dirty bits are not    *)
(* used by the code.  A word of a table outside RAM reads as invalid: the  *)
(* code treats the two alike.                                              *)
(***************************************************************************)
EXTENDS Integers, FiniteSets

CONSTANTS
    Vpn1, Vpn0, MEGA,   \* indices of the two levels; pages of a megapage (1024)
    LowVpn1,            \* the indices below 64 MB
    KernelVpn1,         \* the index of PAGE_OFFSET (768)
    PAGE_OFFSET_PPN,    \* its page number (0xC0000)
    TABLE_LIMIT_PPN,    \* tables lie below this page (0x10000)
    Pages,              \* the pages of RAM that hold tables, and page 0
    Asid,
    Words,              \* the words the guest stores in tables
    Roots,              \* the page numbers it writes to satp
    Accesses,           \* the accesses it makes: what, in which mode, with which of SUM and MXR
    MaxStores           \* bound: stores to tables

ASSUME MmuAssumption ==
    /\ Vpn1 \subseteq Nat /\ Vpn0 \subseteq Nat /\ MEGA \in Nat \ {0}
    /\ LowVpn1 \subseteq Vpn1 /\ KernelVpn1 \in Nat
    /\ PAGE_OFFSET_PPN \in Nat \ {0} /\ TABLE_LIMIT_PPN \in 0 .. PAGE_OFFSET_PPN
    /\ Pages \subseteq 0 .. PAGE_OFFSET_PPN - 1
    /\ Asid \subseteq Nat /\ 0 \in Asid
    /\ Roots \subseteq Nat
    /\ Accesses \subseteq [access : {"fetch", "load", "store"}, priv : {"M", "S", "U"},
                           sum : BOOLEAN, mxr : BOOLEAN]
    /\ Words \subseteq [V : BOOLEAN, flags : SUBSET {"R", "W", "X", "U", "G"}, ppn : Nat]
    /\ MaxStores \in Nat

(* A guest takes the numbers it stores from virtual or physical addresses  *)
(* of 32 bits: less than twice PAGE_OFFSET (0xC0000000).                   *)
ASSUME WordsAre32Bit == \A pte \in Words : pte.ppn < 2 * PAGE_OFFSET_PPN

Flag == {"R", "W", "X", "U", "G"}
Pte == [V : BOOLEAN, flags : SUBSET Flag, ppn : Nat]
Invalid == [V |-> FALSE, flags |-> {}, ppn |-> 0]
Vpn == Vpn1 \X Vpn0
Index == Vpn1 \cup Vpn0

Entry == [ppn : Nat, flags : SUBSET Flag]
NoEntry == [ppn |-> 0, flags |-> {}, none |-> TRUE]

VARIABLES
    auto_pte_fixup, low_addr_identity_map,  \* set once, at boot
    satp,               \* [on, asid, ppn]
    mem,                \* the words of the tables
    known_pt_pages,     \* pages whose stores are looked at
    tlb,                \* by virtual page and address space, NoEntry where empty
    stale,              \* history: what the guest has changed and not fenced yet
    stores              \* history: the stores so far

vars == <<auto_pte_fixup, low_addr_identity_map, satp, mem, known_pt_pages, tlb, stale, stores>>

Init ==
    /\ auto_pte_fixup \in BOOLEAN
    /\ low_addr_identity_map \in BOOLEAN
    /\ satp = [on |-> FALSE, asid |-> 0, ppn |-> 0]
    /\ mem = [t \in Pages |-> [i \in Index |-> Invalid]]
    /\ known_pt_pages = {}
    /\ tlb = [k \in Vpn \X Asid |-> NoEntry]
    /\ stale = [v \in Vpn |-> "no"]
    /\ stores = 0
-----------------------------------------------------------------------------
(* The walk.                                                               *)

IsLeaf(pte) == pte.flags \cap {"R", "W", "X"} # {}

(* Mutant: every number is taken for a kernel virtual one. *)
PhysicalAlways(ppn) == ppn - PAGE_OFFSET_PPN

(* Kernel virtual page numbers become physical ones. *)
Physical(ppn) == IF ppn >= PAGE_OFFSET_PPN THEN ppn - PAGE_OFFSET_PPN ELSE ppn
fixup_ppn(ppn) == IF auto_pte_fixup THEN Physical(ppn) ELSE ppn

Read(m, t, i) == IF t \in Pages THEN m[t][i] ELSE Invalid

AllRights == {"R", "W", "X"}
IdentityEntry(v) == [ppn |-> v[1] * MEGA + v[2], flags |-> AllRights]

(* A first-level pointer to page 0 is taken for a megapage of the linear   *)
(* map: the kernel allocated the table at 0 by mistake.                    *)
LinearEntry(v) ==
    [ppn |-> (IF v[1] >= KernelVpn1 THEN v[1] - KernelVpn1 ELSE v[1]) * MEGA + v[2],
     flags |-> AllRights]

MegaEntry(v, pte) ==
    [ppn |-> (fixup_ppn(pte.ppn) \div MEGA) * MEGA + v[2], flags |-> pte.flags]

(* What the tables in m, from the root on, say of page v: "page" with the  *)
(* entry, "none" where a word is invalid, "bad" where the second level is  *)
(* a pointer.                                                              *)
Walk(m, root, v) ==
    LET l1 == Read(m, root, v[1])
        next == fixup_ppn(l1.ppn)
        l2 == Read(m, next, v[2])
        found(e) == [kind |-> "page", entry |-> e]
        failed(k) == [kind |-> k, entry |-> NoEntry]
    IN  CASE ~l1.V -> failed("none")
          [] l1.V /\ IsLeaf(l1) -> found(MegaEntry(v, l1))
          [] l1.V /\ ~IsLeaf(l1) /\ next = 0 -> found(LinearEntry(v))
          [] l1.V /\ ~IsLeaf(l1) /\ next # 0 /\ ~l2.V -> failed("none")
          [] l1.V /\ ~IsLeaf(l1) /\ next # 0 /\ l2.V /\ ~IsLeaf(l2) -> failed("bad")
          [] OTHER -> found([ppn |-> fixup_ppn(l2.ppn), flags |-> l2.flags])

(* check_permissions for an access a in the mode a.priv. *)
Permitted(flags, a) ==
    \/ a.priv = "M"
    \/ /\ a.priv = "U" => "U" \in flags
       /\ a.priv = "S" /\ "U" \in flags => a.sum
       /\ a.access = "fetch" => "X" \in flags
       /\ a.access = "load" => "R" \in flags \/ (a.mxr /\ "X" \in flags)
       /\ a.access = "store" => "W" \in flags
-----------------------------------------------------------------------------
(* The translation buffer.                                                 *)

(* The entry of the page in this address space, or a global one.           *)
lookup(t, v, asid) ==
    IF t[<<v, asid>>] = NoEntry /\ "G" \in t[<<v, 0>>].flags
      THEN t[<<v, 0>>]
      ELSE t[<<v, asid>>]

insert(v, asid, e) == [tlb EXCEPT ![<<v, IF "G" \in e.flags THEN 0 ELSE asid>>] = e]

(* The keys of the buffer, and what is left when those in gone are dropped. *)
Keys == Vpn \X Asid

Drop(gone) == [k \in Keys |-> IF k \in gone THEN NoEntry ELSE tlb[k]]

flush_all == Drop(Keys)
flush_va(v) == Drop({k \in Keys : k[1] = v})

(* Mutant: entries of the other spaces are dropped. *)
flush_asidOthers(asid) == Drop({k \in Keys : k[2] # asid})

flush_asid(asid) == Drop({k \in Keys : k[2] = asid /\ "G" \notin tlb[k].flags})
flush_va_asid(v, asid) == Drop({<<v, asid>>})

(* The pages that are up to date again after a fence for the address space *)
(* asid: for the current one, those whose change did not concern a global  *)
(* page (the guest fences those for all address spaces).                   *)
Fenced(v, asid) == IF asid = satp.asid /\ stale[v] = "local" THEN "no" ELSE stale[v]
-----------------------------------------------------------------------------
(* The actions.                                                            *)

(* translate, with the access the guest makes: a hit or a failed access    *)
(* leaves everything as it is, a successful walk is kept, and so is the    *)
(* fallback for low addresses.                                             *)
Translate(v, a) ==
    LET w == Walk(mem, satp.ppn, v)
    IN  /\ satp.on
        /\ lookup(tlb, v, satp.asid) = NoEntry
        /\ \/ /\ w.kind = "page"
              /\ Permitted(w.entry.flags, a)
              /\ tlb' = insert(v, satp.asid, w.entry)
           \/ /\ w.kind = "none"
              /\ v[1] \in LowVpn1 /\ a.priv # "M" /\ low_addr_identity_map
              /\ tlb' = insert(v, satp.asid, IdentityEntry(v))
        /\ UNCHANGED <<auto_pte_fixup, low_addr_identity_map, satp, mem, known_pt_pages,
                       stale, stores>>

SfenceVma(v, asid, hasVa, hasAsid) ==
    /\ tlb' = CASE ~hasVa /\ ~hasAsid -> flush_all
                [] ~hasVa /\ hasAsid -> flush_asid(asid)
                [] hasVa /\ ~hasAsid -> flush_va(v)
                [] hasVa /\ hasAsid -> flush_va_asid(v, asid)
    /\ stale' = [u \in Vpn |->
                   IF hasVa /\ u # v THEN stale[u]
                   ELSE IF hasAsid THEN Fenced(u, asid) ELSE "no"]
    /\ UNCHANGED <<auto_pte_fixup, low_addr_identity_map, satp, mem, known_pt_pages, stores>>

IsTablePage(ppn) == ppn > 0 /\ ppn < TABLE_LIMIT_PPN

(* The page of tables a valid word points at, if it is a pointer.          *)
PointedAt(pte) ==
    IF pte.V /\ ~IsLeaf(pte) /\ IsTablePage(Physical(pte.ppn)) THEN {Physical(pte.ppn)} ELSE {}

Repaired(pte) == IF pte.V THEN [pte EXCEPT !.ppn = Physical(@)] ELSE pte

(* intercept_pte_write: a store to a known page of tables is repaired, and *)
(* a pointer in it makes another page known.                               *)
Intercepted(t) == auto_pte_fixup /\ t \in known_pt_pages

(* Mutant: the table a new pointer leads to is not noted. *)
NotedNone(t, pte) == {}

Noted(t, pte) == IF Intercepted(t) THEN PointedAt(pte) ELSE {}

(* The guest stores a word in a page table. *)
StorePte(t, i, pte) ==
    /\ stores < MaxStores
    /\ stores' = stores + 1
    /\ mem' = [mem EXCEPT ![t][i] = IF Intercepted(t) THEN Repaired(pte) ELSE pte]
    /\ known_pt_pages' = known_pt_pages \cup Noted(t, pte)
    /\ stale' = [v \in Vpn |->
                   LET old == Walk(mem, satp.ppn, v)
                       new == Walk(mem', satp.ppn, v)
                   IN  IF old = new THEN stale[v]
                       ELSE IF "G" \in old.entry.flags \cup new.entry.flags \/ stale[v] = "global"
                         THEN "global" ELSE "local"]
    /\ UNCHANGED <<auto_pte_fixup, low_addr_identity_map, satp, tlb>>

(* fixup_kernel_page_table: the root and the tables it points at, repaired *)
(* and noted.                                                              *)
TablesBelow(root) == UNION {PointedAt(Read(mem, root, i)) : i \in Vpn1}
RepairedTables(root) ==
    [t \in Pages |->
       CASE t = root -> [i \in Index |-> IF i \in Vpn1 THEN Repaired(mem[t][i]) ELSE mem[t][i]]
         [] t # root /\ t \in TablesBelow(root) -> [i \in Index |-> Repaired(mem[t][i])]
         [] OTHER -> mem[t]]

(* Mutant: the buffer survives when only the address space changes. *)
StaleAfterSatpRoot(new) == new.ppn # satp.ppn \/ new.on # satp.on

(* The buffer is emptied when satp changes in any bit. *)
StaleAfterSatp(new) == new # satp

(* CSRRW and the like on satp: the root is made physical; a change empties *)
(* the buffer and, with the repair on, repairs the tables of the new root. *)
WriteSatp(on, asid, ppn) ==
    LET new == [on |-> on, asid |-> asid, ppn |-> Physical(ppn)]
        changed == new # satp
    IN  /\ satp' = new
        /\ tlb' = IF StaleAfterSatp(new) THEN flush_all ELSE tlb
        /\ stale' = IF changed THEN [v \in Vpn |-> "no"] ELSE stale
        /\ IF changed /\ auto_pte_fixup
             THEN /\ mem' = RepairedTables(new.ppn)
                  /\ known_pt_pages' = known_pt_pages \cup {new.ppn} \cup TablesBelow(new.ppn)
             ELSE UNCHANGED <<mem, known_pt_pages>>
        /\ UNCHANGED <<auto_pte_fixup, low_addr_identity_map, stores>>

Next ==
    \/ \E v \in Vpn, a \in Accesses : Translate(v, a)
    \/ \E v \in Vpn, asid \in Asid, hasVa, hasAsid \in BOOLEAN : SfenceVma(v, asid, hasVa, hasAsid)
    \/ \E t \in Pages \ {0}, i \in Index, pte \in Words : StorePte(t, i, pte)
    \/ \E on \in BOOLEAN, asid \in Asid, ppn \in Roots : WriteSatp(on, asid, ppn)

Spec == Init /\ [][Next]_vars
-----------------------------------------------------------------------------
TypeOK ==
    /\ auto_pte_fixup \in BOOLEAN /\ low_addr_identity_map \in BOOLEAN
    /\ satp \in [on : BOOLEAN, asid : Asid, ppn : Nat]
    /\ mem \in [Pages -> [Index -> Pte]]
    /\ known_pt_pages \subseteq Nat
    /\ tlb \in [Vpn \X Asid -> Entry \cup {NoEntry}]
    /\ stale \in [Vpn -> {"no", "local", "global"}]
    /\ stores \in 0 .. MaxStores

\* A hit says what a walk would say, for every page whose tables did not
\* change, or were fenced, since the entry was made: with the tags, the
\* global entries under tag 0, the four kinds of SFENCE.VMA and the repair
\* of tables, no other entry is ever found.
HitsAreFresh ==
    \A v \in Vpn :
        LET hit == lookup(tlb, v, satp.asid)
            w == Walk(mem, satp.ppn, v)
        IN  satp.on /\ hit # NoEntry /\ stale[v] = "no" =>
              \/ w.kind = "page" /\ hit = w.entry
              \/ w.kind = "none" /\ v[1] \in LowVpn1 /\ low_addr_identity_map
                                 /\ hit = IdentityEntry(v)

\* Every entry in the buffer was made under the present satp: it has the
\* present tag, or is global under tag 0.  So the tags separate nothing that
\* a change of satp has not already dropped.
OneSpace ==
    \A v \in Vpn, asid \in Asid :
        tlb[<<v, asid>>] # NoEntry =>
            satp.on /\ (asid = satp.asid \/ (asid = 0 /\ "G" \in tlb[<<v, 0>>].flags))

\* While tables are repaired, no table in use escapes: the root and every
\* second-level table it points at are known, whether they were linked
\* before satp was written or after, so a later store to them is repaired.
TablesInUseKnown ==
    auto_pte_fixup /\ satp.on =>
        {satp.ppn} \cup TablesBelow(satp.ppn) \subseteq known_pt_pages

\* What every state of the address translation satisfies, apart from the
\* freshness of its entries.
Inv == TypeOK /\ OneSpace /\ TablesInUseKnown
=============================================================================
