----------------------------- MODULE MmuProofs ------------------------------
(***************************************************************************)
(* The RISC-V machine: what the translation buffer holds, and which tables *)
(* are known, for every size of tables, address spaces and words a guest   *)
(* stores; then traps and their return, for every guest and every setting  *)
(* of the timer.                                                           *)
(***************************************************************************)
EXTENDS MCRiscv, TLAPS

(* The words in tables: a repaired or stored word stays below the bound,   *)
(* so that one subtraction makes it physical.                              *)
TypedWord(pte) == pte \in Pte /\ pte.ppn < 2 * PAGE_OFFSET_PPN

WordsTyped == \A t \in Pages, i \in Index : TypedWord(mem[t][i])

MemShape ==
    /\ mem \in [Pages -> [Index -> Pte]]
    /\ WordsTyped

KnownInv ==
    /\ MemShape
    /\ auto_pte_fixup \in BOOLEAN
    /\ TablesInUseKnown

(* A number that was made physical names the same table when it is looked  *)
(* at again.                                                               *)
LEMMA RepairedPointsAlike ==
    ASSUME NEW pte, TypedWord(pte)
    PROVE  /\ TypedWord(Repaired(pte))
           /\ PointedAt(Repaired(pte)) = PointedAt(pte)
<1> DEFINE P == PAGE_OFFSET_PPN
           r == Repaired(pte)
<1>0. P \in Nat \ {0} /\ TABLE_LIMIT_PPN \in 0 .. P
  BY MmuAssumption
<1>1. pte \in Pte /\ pte.ppn \in Nat /\ pte.ppn < 2 * P
  BY DEF TypedWord, Pte
<1>2. CASE ~pte.V
  BY <1>2, <1>1 DEF Repaired, TypedWord
<1>3. CASE pte.V
  <2>1. r = [pte EXCEPT !.ppn = Physical(pte.ppn)]
    BY <1>3 DEF Repaired
  <2>2. /\ Physical(pte.ppn) \in Nat /\ Physical(pte.ppn) < P
        /\ Physical(Physical(pte.ppn)) = Physical(pte.ppn)
    BY <1>0, <1>1 DEF Physical
  <2>3. r \in Pte /\ r.V = pte.V /\ r.flags = pte.flags /\ r.ppn = Physical(pte.ppn)
    BY <2>1, <2>2, <1>1 DEF Pte
  <2>4. Physical(r.ppn) = Physical(pte.ppn)
    BY <2>2, <2>3
  <2>5. TypedWord(r)
    BY <2>2, <2>3, <1>0 DEF TypedWord
  <2>6. PointedAt(r) = PointedAt(pte)
    BY <2>3, <2>4 DEF PointedAt, IsLeaf
  <2> QED BY <2>5, <2>6
<1> QED BY <1>1, <1>2, <1>3

(* The tables below a root depend on the pointers of its words alone. *)
LEMMA BelowAlike ==
    ASSUME NEW root, NEW m, NEW n,
           \A i \in Vpn1 : PointedAt(Read(m, root, i)) = PointedAt(Read(n, root, i))
    PROVE  UNION {PointedAt(Read(m, root, i)) : i \in Vpn1}
         = UNION {PointedAt(Read(n, root, i)) : i \in Vpn1}
OBVIOUS

LEMMA KnownInductive == Spec => []KnownInv
<1>0. /\ Words \subseteq Pte /\ \A pte \in Words : TypedWord(pte)
      /\ Vpn1 \subseteq Index /\ PAGE_OFFSET_PPN \in Nat \ {0}
      /\ TypedWord(Invalid)
  BY MmuAssumption, WordsAre32Bit DEF TypedWord, Pte, Flag, Index, Invalid
<1>1. Init => KnownInv
  <2> SUFFICES ASSUME Init PROVE KnownInv
    OBVIOUS
  <2>1. mem = [t \in Pages |-> [i \in Index |-> Invalid]] /\ satp.on = FALSE
        /\ auto_pte_fixup \in BOOLEAN
    BY DEF Init
  <2>2. Invalid \in Pte
    BY DEF Invalid, Pte
  <2>3. MemShape
    BY <2>1, <2>2, <1>0 DEF MemShape, WordsTyped
  <2> QED BY <2>1, <2>3 DEF KnownInv, TablesInUseKnown
<1>2. KnownInv /\ [Next]_vars => KnownInv'
  <2> SUFFICES ASSUME KnownInv, [Next]_vars PROVE KnownInv'
    OBVIOUS
  <2>0. MemShape /\ auto_pte_fixup \in BOOLEAN /\ TablesInUseKnown
    BY DEF KnownInv
  <2>1. ASSUME UNCHANGED <<auto_pte_fixup, satp, mem, known_pt_pages>> PROVE KnownInv'
    BY <2>1, <2>0 DEF KnownInv, MemShape, WordsTyped, TablesInUseKnown, TablesBelow
  <2>2. ASSUME NEW t \in Pages \ {0}, NEW i \in Index, NEW pte \in Words, StorePte(t, i, pte)
        PROVE  KnownInv'
    <3> DEFINE w == IF Intercepted(t) THEN Repaired(pte) ELSE pte
    <3>1. /\ mem' = [mem EXCEPT ![t][i] = w]
          /\ known_pt_pages' = known_pt_pages \cup Noted(t, pte)
          /\ satp' = satp /\ auto_pte_fixup' = auto_pte_fixup
      BY <2>2 DEF StorePte
    <3>2. TypedWord(w) /\ PointedAt(w) = PointedAt(pte)
      BY <1>0, RepairedPointsAlike
    <3>3. /\ mem' \in [Pages -> [Index -> Pte]]
          /\ \A u \in Pages, j \in Index : mem'[u][j] = IF u = t /\ j = i THEN w ELSE mem[u][j]
      <4> HIDE DEF w
      <4> QED BY <3>1, <3>2, <2>0 DEF MemShape, TypedWord
    <3>4. MemShape'
      <4> HIDE DEF w
      <4> QED BY <3>2, <3>3, <2>0 DEF MemShape, WordsTyped
    <3>5. ASSUME auto_pte_fixup, satp.on
          PROVE  {satp.ppn} \cup TablesBelow(satp.ppn)' \subseteq known_pt_pages'
      <4>1. {satp.ppn} \cup TablesBelow(satp.ppn) \subseteq known_pt_pages
        BY <3>5, <2>0 DEF TablesInUseKnown
      <4>2. ASSUME NEW j \in Vpn1
            PROVE  PointedAt(Read(mem', satp.ppn, j)) \subseteq known_pt_pages'
        <5>1. CASE satp.ppn = t /\ j = i
          <6>1. Read(mem', satp.ppn, j) = w
            BY <5>1, <3>3, <1>0 DEF Read
          <6>2. Noted(t, pte) = PointedAt(pte)
            BY <5>1, <3>5, <4>1 DEF Noted, Intercepted
          <6> HIDE DEF w
          <6> QED BY <6>1, <6>2, <3>1, <3>2
        <5>2. CASE ~(satp.ppn = t /\ j = i)
          <6>1. Read(mem', satp.ppn, j) = Read(mem, satp.ppn, j)
            <7> HIDE DEF w
            <7> QED BY <5>2, <3>3, <1>0 DEF Read
          <6> QED BY <6>1, <4>1, <3>1 DEF TablesBelow
        <5> QED BY <5>1, <5>2
      <4>3. TablesBelow(satp.ppn)' = UNION {PointedAt(Read(mem', satp.ppn, j)) : j \in Vpn1}
        BY <3>1 DEF TablesBelow
      <4>4. \A j \in Vpn1 : PointedAt(Read(mem', satp.ppn, j)) \subseteq known_pt_pages'
        BY <4>2
      <4>5. TablesBelow(satp.ppn)' \subseteq known_pt_pages'
        BY <4>3, <4>4
      <4> QED BY <4>1, <4>5, <3>1
    <3> QED BY <3>1, <3>4, <3>5, <2>0 DEF KnownInv, TablesInUseKnown
  <2>3. ASSUME NEW on \in BOOLEAN, NEW asid \in Asid, NEW ppn \in Roots, WriteSatp(on, asid, ppn)
        PROVE  KnownInv'
    <3> DEFINE new == [on |-> on, asid |-> asid, ppn |-> Physical(ppn)]
    <3>1. CASE ~(new # satp /\ auto_pte_fixup)
      <4>1. UNCHANGED <<auto_pte_fixup, mem, known_pt_pages>> /\ satp' = new
        BY <2>3, <3>1 DEF WriteSatp
      <4>2. CASE new = satp
        BY <4>1, <4>2, <2>1
      <4>3. CASE ~auto_pte_fixup
        BY <4>1, <4>3, <2>0 DEF KnownInv, MemShape, WordsTyped, TablesInUseKnown
      <4> QED BY <3>1, <4>2, <4>3
    <3>2. CASE new # satp /\ auto_pte_fixup
      <4>0. /\ mem' = RepairedTables(new.ppn) /\ satp' = new
            /\ known_pt_pages' = known_pt_pages \cup {new.ppn} \cup TablesBelow(new.ppn)
            /\ auto_pte_fixup' = auto_pte_fixup
        BY <2>3, <3>2 DEF WriteSatp
      <4> DEFINE root == new.ppn
      <4>1. /\ DOMAIN mem' = Pages
            /\ \A t \in Pages : mem'[t] \in [Index -> Pte]
            /\ \A t \in Pages, i \in Index :
                 /\ TypedWord(mem'[t][i])
                 /\ PointedAt(mem'[t][i]) = PointedAt(mem[t][i])
        <5>1. \A t \in Pages, i \in Index :
                 /\ TypedWord(mem[t][i]) /\ TypedWord(Repaired(mem[t][i]))
                 /\ PointedAt(Repaired(mem[t][i])) = PointedAt(mem[t][i])
          BY <2>0, RepairedPointsAlike DEF MemShape, WordsTyped
        <5>2. \A t \in Pages : \/ mem'[t] = mem[t]
                               \/ mem'[t] = [i \in Index |-> Repaired(mem[t][i])]
                               \/ mem'[t] = [i \in Index |-> IF i \in Vpn1 THEN Repaired(mem[t][i])
                                                            ELSE mem[t][i]]
          BY <4>0 DEF RepairedTables
        <5>3. \A t \in Pages : mem[t] \in [Index -> Pte]
          BY <2>0 DEF MemShape
        <5>4. ASSUME NEW t \in Pages
              PROVE  /\ mem'[t] \in [Index -> Pte]
                     /\ \A i \in Index : mem'[t][i] \in {mem[t][i], Repaired(mem[t][i])}
          <6>1. \A i \in Index : mem[t][i] \in Pte /\ Repaired(mem[t][i]) \in Pte
            BY <5>1 DEF TypedWord
          <6>2. CASE mem'[t] = mem[t]
            BY <6>2, <5>3
          <6>3. CASE mem'[t] = [i \in Index |-> Repaired(mem[t][i])]
            BY <6>3, <6>1
          <6>4. CASE mem'[t] = [i \in Index |-> IF i \in Vpn1 THEN Repaired(mem[t][i])
                                                ELSE mem[t][i]]
            BY <6>4, <6>1
          <6> QED BY <6>2, <6>3, <6>4, <5>2
        <5>5. DOMAIN mem' = Pages
          BY <4>0 DEF RepairedTables
        <5>6. \A t \in Pages, i \in Index : TypedWord(mem'[t][i]) /\ PointedAt(mem'[t][i]) = PointedAt(mem[t][i])
          BY <5>1, <5>4
        <5> QED BY <5>4, <5>5, <5>6
      <4>2. MemShape'
        <5>1. mem' = [t \in Pages |-> mem'[t]]
          BY <4>0 DEF RepairedTables
        <5>2. mem' \in [Pages -> [Index -> Pte]]
          BY <5>1, <4>1
        <5> QED BY <5>2, <4>1 DEF MemShape, WordsTyped
      <4>3. \A i \in Vpn1 : PointedAt(Read(mem', root, i)) = PointedAt(Read(mem, root, i))
        BY <4>1, <1>0 DEF Read
      <4>4. TablesBelow(satp.ppn)' = UNION {PointedAt(Read(mem', root, i)) : i \in Vpn1}
        BY <4>0 DEF TablesBelow
      <4>5. TablesBelow(satp.ppn)' = TablesBelow(root)
        <5> HIDE DEF root
        <5> QED BY <4>3, <4>4, BelowAlike DEF TablesBelow
      <4>6. {satp'.ppn} \cup TablesBelow(satp.ppn)' \subseteq known_pt_pages'
        BY <4>0, <4>5
      <4> QED BY <4>0, <4>2, <4>6, <2>0 DEF KnownInv, TablesInUseKnown
    <3> QED BY <3>1, <3>2
  <2>4. CASE UNCHANGED vars
    BY <2>4, <2>1 DEF vars
  <2>5. CASE \E v \in Vpn, a \in Accesses : Translate(v, a)
    BY <2>5, <2>1 DEF Translate
  <2>6. CASE \E v \in Vpn, asid \in Asid, hasVa, hasAsid \in BOOLEAN :
               SfenceVma(v, asid, hasVa, hasAsid)
    BY <2>6, <2>1 DEF SfenceVma
  <2> QED BY <2>2, <2>3, <2>4, <2>5, <2>6 DEF Next
<1> QED BY <1>1, <1>2, PTL DEF Spec

(* While tables are repaired no table in use is unknown, whatever the      *)
(* guest links before and after it writes satp.                            *)
THEOREM KnownTables == Spec => []TablesInUseKnown
<1>1. KnownInv => TablesInUseKnown
  BY DEF KnownInv
<1> QED BY <1>1, KnownInductive, PTL
-----------------------------------------------------------------------------
(* A flush leaves an entry or takes it. *)
Flushed(t) == t \in [Keys -> Entry \cup {NoEntry}] /\ \A k \in Keys : t[k] \in {tlb[k], NoEntry}

LEMMA FlushesDrop ==
    ASSUME tlb \in [Keys -> Entry \cup {NoEntry}]
    PROVE  /\ Flushed(flush_all) /\ \A k \in Keys : flush_all[k] = NoEntry
           /\ \A v \in Vpn : Flushed(flush_va(v))
           /\ \A asid \in Asid : Flushed(flush_asid(asid))
           /\ \A v \in Vpn, asid \in Asid : Flushed(flush_va_asid(v, asid))
BY DEF Flushed, flush_all, flush_va, flush_asid, flush_va_asid, Drop, Keys

(* The entries a walk and the fallback make are entries. *)
LEMMA EntriesTyped ==
    ASSUME MemShape, NEW v \in Vpn
    PROVE  /\ IdentityEntry(v) \in Entry
           /\ \A root : Walk(mem, root, v).kind = "page" => Walk(mem, root, v).entry \in Entry
<1>0. /\ v[1] \in Nat /\ v[2] \in Nat /\ MEGA \in Nat \ {0} /\ KernelVpn1 \in Nat
      /\ PAGE_OFFSET_PPN \in Nat /\ Vpn1 \subseteq Index /\ Vpn0 \subseteq Index
      /\ v[1] \in Vpn1 /\ v[2] \in Vpn0
  BY MmuAssumption DEF Vpn, Index
<1>1. \A a \in Nat : a * MEGA + v[2] \in Nat
  BY <1>0
<1>2. \A a \in Nat : a \div MEGA \in Nat
  BY <1>0
<1>3. \A a \in Nat : fixup_ppn(a) \in Nat
  BY <1>0 DEF fixup_ppn, Physical
<1>4. AllRights \subseteq Flag
  BY DEF AllRights, Flag
<1>5. IdentityEntry(v) \in Entry
  BY <1>0, <1>1, <1>4 DEF IdentityEntry, Entry
<1>6. LinearEntry(v) \in Entry
  <2>1. (IF v[1] >= KernelVpn1 THEN v[1] - KernelVpn1 ELSE v[1]) \in Nat
    BY <1>0
  <2> QED BY <2>1, <1>1, <1>4 DEF LinearEntry, Entry
<1>7. \A pte \in Pte : MegaEntry(v, pte) \in Entry
  <2> TAKE pte \in Pte
  <2>1. pte.ppn \in Nat /\ pte.flags \subseteq Flag
    BY DEF Pte
  <2>2. (fixup_ppn(pte.ppn) \div MEGA) \in Nat
    BY <2>1, <1>2, <1>3
  <2> QED BY <2>1, <2>2, <1>1 DEF MegaEntry, Entry
<1>8. \A t : \A i \in Index : Read(mem, t, i) \in Pte
  BY DEF Read, MemShape, Invalid, Pte
<1>9. ASSUME NEW root, Walk(mem, root, v).kind = "page" PROVE Walk(mem, root, v).entry \in Entry
  <2> DEFINE l1 == Read(mem, root, v[1])
             l2 == Read(mem, fixup_ppn(l1.ppn), v[2])
  <2>1. l1 \in Pte /\ l2 \in Pte
    BY <1>0, <1>8
  <2>2. l2.ppn \in Nat /\ l2.flags \subseteq Flag
    BY <2>1 DEF Pte
  <2>3. [ppn |-> fixup_ppn(l2.ppn), flags |-> l2.flags] \in Entry
    BY <2>2, <1>3 DEF Entry
  <2>4. Walk(mem, root, v).entry \in
          {MegaEntry(v, l1), LinearEntry(v), [ppn |-> fixup_ppn(l2.ppn), flags |-> l2.flags]}
    BY <1>9 DEF Walk
  <2> QED BY <2>1, <2>3, <2>4, <1>6, <1>7
<1> QED BY <1>5, <1>9

SpaceInv ==
    /\ MemShape
    /\ tlb \in [Keys -> Entry \cup {NoEntry}]
    /\ satp.asid \in Asid
    /\ OneSpace

LEMMA SpaceInductive == Spec => []SpaceInv
<1>1. Init => SpaceInv
  <2> SUFFICES ASSUME Init PROVE OneSpace /\ tlb \in [Keys -> Entry \cup {NoEntry}] /\ satp.asid \in Asid
                                /\ MemShape
    BY DEF SpaceInv
  <2>1. tlb = [k \in Keys |-> NoEntry] /\ satp.asid = 0
    BY DEF Init, Keys
  <2>2. \A v \in Vpn, asid \in Asid : <<v, asid>> \in Keys
    BY DEF Keys
  <2>3. OneSpace
    BY <2>1, <2>2 DEF OneSpace
  <2>4. TypedWord(Invalid) /\ Invalid \in Pte
    BY MmuAssumption DEF TypedWord, Pte, Invalid
  <2>5. MemShape
    BY <2>4 DEF Init, MemShape, WordsTyped
  <2> QED BY <2>1, <2>3, <2>5, MmuAssumption
<1>2. SpaceInv /\ KnownInv' /\ [Next]_vars => SpaceInv'
  <2> SUFFICES ASSUME SpaceInv, KnownInv', [Next]_vars PROVE SpaceInv'
    OBVIOUS
  <2>0. /\ MemShape /\ MemShape'
        /\ tlb \in [Keys -> Entry \cup {NoEntry}] /\ satp.asid \in Asid
        /\ OneSpace
        /\ \A v \in Vpn, asid \in Asid : <<v, asid>> \in Keys
        /\ 0 \in Asid
    BY MmuAssumption DEF SpaceInv, KnownInv, Keys
  <2>1. ASSUME Flushed(tlb'), satp' = satp PROVE SpaceInv'
    <3>1. tlb' \in [Keys -> Entry \cup {NoEntry}]
      BY <2>1 DEF Flushed
    <3>2. \A v \in Vpn, asid \in Asid : tlb'[<<v, asid>>] \in {tlb[<<v, asid>>], NoEntry}
      BY <2>0, <2>1 DEF Flushed
    <3>3. OneSpace'
      <4> SUFFICES ASSUME NEW v \in Vpn, NEW asid \in Asid, tlb'[<<v, asid>>] # NoEntry
                   PROVE  satp.on /\ (asid = satp.asid \/ (asid = 0 /\ "G" \in tlb'[<<v, 0>>].flags))
        BY <2>1 DEF OneSpace
      <4>1. tlb'[<<v, asid>>] = tlb[<<v, asid>>]
        BY <3>2
      <4> QED BY <4>1, <2>0 DEF OneSpace
    <3> QED BY <2>0, <2>1, <3>1, <3>3 DEF SpaceInv
  <2>2. ASSUME tlb' = tlb, satp' = satp PROVE SpaceInv'
    BY <2>2, <2>0 DEF SpaceInv, OneSpace
  <2>3. ASSUME NEW v \in Vpn, NEW a \in Accesses, Translate(v, a)
        PROVE  SpaceInv'
    <3>1. PICK e \in Entry : tlb' = insert(v, satp.asid, e)
      BY <2>3, <2>0, EntriesTyped DEF Translate
    <3>2. satp.on /\ satp' = satp
      BY <2>3 DEF Translate
    <3> DEFINE at == IF "G" \in e.flags THEN 0 ELSE satp.asid
    <3>3. at \in Asid /\ tlb' = [tlb EXCEPT ![<<v, at>>] = e]
      BY <3>1, <2>0 DEF insert
    <3>4. tlb' \in [Keys -> Entry \cup {NoEntry}]
      BY <3>3, <2>0
    <3>5. OneSpace'
      <4> SUFFICES ASSUME NEW u \in Vpn, NEW asid \in Asid, tlb'[<<u, asid>>] # NoEntry
                   PROVE  asid = satp.asid \/ (asid = 0 /\ "G" \in tlb'[<<u, 0>>].flags)
        BY <3>2 DEF OneSpace
      <4>1. CASE u = v /\ asid = at
        BY <4>1, <3>3, <2>0
      <4>2. CASE ~(u = v /\ asid = at)
        <5>1. tlb'[<<u, asid>>] = tlb[<<u, asid>>]
          BY <4>2, <3>3, <2>0
        <5> QED BY <5>1, <4>2, <3>3, <2>0 DEF OneSpace
      <4> QED BY <4>1, <4>2
    <3> QED BY <2>0, <3>2, <3>4, <3>5 DEF SpaceInv
  <2>4. ASSUME NEW v \in Vpn, NEW asid \in Asid, NEW hasVa \in BOOLEAN, NEW hasAsid \in BOOLEAN,
               SfenceVma(v, asid, hasVa, hasAsid)
        PROVE  SpaceInv'
    <3>1. satp' = satp /\ tlb' \in {flush_all, flush_va(v), flush_asid(asid), flush_va_asid(v, asid)}
      BY <2>4 DEF SfenceVma
    <3>2. Flushed(tlb')
      BY <3>1, <2>0, FlushesDrop
    <3> QED BY <3>1, <3>2, <2>1
  <2>5. ASSUME NEW on \in BOOLEAN, NEW asid \in Asid, NEW ppn \in Roots, WriteSatp(on, asid, ppn)
        PROVE  SpaceInv'
    <3> DEFINE new == [on |-> on, asid |-> asid, ppn |-> Physical(ppn)]
    <3>1. satp' = new /\ tlb' = IF new # satp THEN flush_all ELSE tlb
      BY <2>5 DEF WriteSatp, StaleAfterSatp
    <3>2. CASE new = satp
      BY <3>1, <3>2, <2>2
    <3>3. CASE new # satp
      <4>1. Flushed(tlb') /\ \A k \in Keys : tlb'[k] = NoEntry
        BY <3>1, <3>3, <2>0, FlushesDrop
      <4>2. OneSpace'
        BY <4>1, <2>0 DEF OneSpace
      <4>3. satp'.asid \in Asid
        BY <3>1
      <4> QED BY <4>1, <4>2, <4>3, <2>0 DEF SpaceInv, Flushed
    <3> QED BY <3>2, <3>3
  <2>6. CASE \E t \in Pages \ {0}, i \in Index, pte \in Words : StorePte(t, i, pte)
    BY <2>6, <2>2 DEF StorePte
  <2>7. CASE UNCHANGED vars
    BY <2>7, <2>2 DEF vars
  <2> QED BY <2>3, <2>4, <2>5, <2>6, <2>7 DEF Next
<1> QED BY <1>1, <1>2, KnownInductive, PTL DEF Spec

(* Whatever fences the guest leaves out, the buffer never holds an entry   *)
(* of another address space: every change of satp has dropped it.          *)
THEOREM OneSpaceAtATime == Spec => []OneSpace
<1>1. SpaceInv => OneSpace
  BY DEF SpaceInv
<1> QED BY <1>1, SpaceInductive, PTL
-----------------------------------------------------------------------------
(* The other variables. *)
RestTyped ==
    /\ auto_pte_fixup \in BOOLEAN /\ low_addr_identity_map \in BOOLEAN
    /\ satp \in [on : BOOLEAN, asid : Asid, ppn : Nat]
    /\ known_pt_pages \subseteq Nat
    /\ stale \in [Vpn -> {"no", "local", "global"}]
    /\ stores \in 0 .. MaxStores

LEMMA RestInductive == Spec => []RestTyped
<1>0. /\ PAGE_OFFSET_PPN \in Nat /\ Roots \subseteq Nat /\ MaxStores \in Nat /\ 0 \in Asid
      /\ Words \subseteq Pte /\ Vpn1 \subseteq Index
  BY MmuAssumption DEF Pte, Flag, Index
<1>1. Init => RestTyped
  BY <1>0 DEF Init, RestTyped
<1>p. \A n \in Nat : Physical(n) \in Nat
  BY <1>0 DEF Physical
<1>q. \A pte \in Pte : PointedAt(pte) \subseteq Nat
  BY <1>p DEF PointedAt, Pte
<1>2. RestTyped /\ KnownInv /\ [Next]_vars => RestTyped'
  <2> SUFFICES ASSUME RestTyped, KnownInv, [Next]_vars PROVE RestTyped'
    OBVIOUS
  <2>1. CASE UNCHANGED vars
    BY <2>1 DEF vars, RestTyped
  <2>2. CASE \E v \in Vpn, a \in Accesses : Translate(v, a)
    BY <2>2 DEF Translate, RestTyped
  <2>3. ASSUME NEW v \in Vpn, NEW asid \in Asid, NEW hasVa \in BOOLEAN, NEW hasAsid \in BOOLEAN,
               SfenceVma(v, asid, hasVa, hasAsid)
        PROVE  RestTyped'
    <3>1. stale' \in [Vpn -> {"no", "local", "global"}]
      <4>1. \A u \in Vpn : stale[u] \in {"no", "local", "global"}
        BY DEF RestTyped
      <4>2. \A u \in Vpn : Fenced(u, asid) \in {"no", "local", "global"}
        BY <4>1 DEF Fenced
      <4> QED BY <2>3, <4>1, <4>2 DEF SfenceVma
    <3> QED BY <2>3, <3>1 DEF SfenceVma, RestTyped
  <2>4. ASSUME NEW t \in Pages \ {0}, NEW i \in Index, NEW pte \in Words, StorePte(t, i, pte)
        PROVE  RestTyped'
    <3>1. stale' \in [Vpn -> {"no", "local", "global"}]
      <4>1. \A u \in Vpn : stale[u] \in {"no", "local", "global"}
        BY DEF RestTyped
      <4> QED BY <2>4, <4>1 DEF StorePte
    <3>2. Noted(t, pte) \subseteq Nat
      BY <1>0, <1>q DEF Noted
    <3>3. stores' \in 0 .. MaxStores
      BY <2>4, <1>0 DEF StorePte, RestTyped
    <3> QED BY <2>4, <3>1, <3>2, <3>3 DEF StorePte, RestTyped
  <2>5. ASSUME NEW on \in BOOLEAN, NEW asid \in Asid, NEW ppn \in Roots, WriteSatp(on, asid, ppn)
        PROVE  RestTyped'
    <3> DEFINE new == [on |-> on, asid |-> asid, ppn |-> Physical(ppn)]
    <3>1. satp' = new /\ new \in [on : BOOLEAN, asid : Asid, ppn : Nat] /\ new.ppn \in Nat
      BY <2>5, <1>0, <1>p DEF WriteSatp
    <3>2. TablesBelow(new.ppn) \subseteq Nat
      <4>1. \A i \in Vpn1 : Read(mem, new.ppn, i) \in Pte
        BY <1>0 DEF Read, KnownInv, MemShape, Invalid, Pte
      <4> QED BY <4>1, <1>q DEF TablesBelow
    <3>3. stale' \in [Vpn -> {"no", "local", "global"}]
      BY <2>5 DEF WriteSatp, RestTyped
    <3>4. known_pt_pages' \subseteq Nat
      BY <2>5, <3>1, <3>2 DEF WriteSatp, RestTyped
    <3> QED BY <2>5, <3>1, <3>3, <3>4 DEF WriteSatp, RestTyped
  <2> QED BY <2>1, <2>2, <2>3, <2>4, <2>5 DEF Next
<1> QED BY <1>1, <1>2, KnownInductive, PTL DEF Spec

(* The state keeps its types: what a walk puts in the buffer is an entry,  *)
(* and no subtraction of PAGE_OFFSET goes below 0.                         *)
THEOREM TypeCorrect == Spec => []TypeOK
<1>1. RestTyped /\ SpaceInv => TypeOK
  BY DEF RestTyped, SpaceInv, MemShape, Keys, TypeOK
<1> QED BY <1>1, RestInductive, SpaceInductive, PTL

(* Types, entries of one address space and known tables, for every         *)
(* geometry of the tables, every set of pages and of address spaces.       *)
THEOREM Correct == Spec => []Inv
<1>1. TypeOK /\ OneSpace /\ TablesInUseKnown => Inv
  BY DEF Inv
<1> QED BY <1>1, TypeCorrect, OneSpaceAtATime, KnownTables, PTL
-----------------------------------------------------------------------------
(* The entry says what a walk would say.                                   *)
Fresh(v, entry) ==
    \/ /\ Walk(mem, satp.ppn, v).kind = "page"
       /\ entry = Walk(mem, satp.ppn, v).entry
    \/ /\ Walk(mem, satp.ppn, v).kind = "none"
       /\ v[1] \in LowVpn1 /\ low_addr_identity_map
       /\ entry = IdentityEntry(v)

(* A walk depends on the tables, the root and whether numbers are repaired. *)
LEMMA WalkAlike ==
    ASSUME auto_pte_fixup' = auto_pte_fixup
    PROVE  \A v : Walk(mem, satp.ppn, v)' = Walk(mem', satp'.ppn, v)
BY DEF Walk, fixup_ppn, Read, MegaEntry

LEMMA FreshAlike ==
    ASSUME UNCHANGED <<auto_pte_fixup, low_addr_identity_map, satp, mem>>
    PROVE  \A v, entry : Fresh(v, entry)' <=> Fresh(v, entry)
BY WalkAlike DEF Fresh

(* Global entries are kept under tag 0.  They are fresh but where a global *)
(* page changed without a fence for all address spaces; those of the       *)
(* present address space are fresh where nothing changed.                  *)
FreshInv ==
    \A v \in Vpn :
        /\ \A asid \in Asid : "G" \in tlb[<<v, asid>>].flags => asid = 0
        /\ stale[v] # "global" /\ "G" \in tlb[<<v, 0>>].flags => Fresh(v, tlb[<<v, 0>>])
        /\ stale[v] = "no" /\ tlb[<<v, satp.asid>>] # NoEntry
             => Fresh(v, tlb[<<v, satp.asid>>])

LEMMA NoEntryNotGlobal == "G" \notin NoEntry.flags
BY DEF NoEntry

(* A fence keeps what stays fresh. *)
LEMMA FenceFresh ==
    ASSUME FreshInv, SpaceInv, NEW v \in Vpn, NEW asid \in Asid,
           NEW hasVa \in BOOLEAN, NEW hasAsid \in BOOLEAN, SfenceVma(v, asid, hasVa, hasAsid)
    PROVE  FreshInv'
<1>0. /\ \A u \in Vpn, a \in Asid : <<u, a>> \in Keys /\ <<u, a>>[1] = u /\ <<u, a>>[2] = a
      /\ 0 \in Asid /\ satp.asid \in Asid
      /\ tlb \in [Keys -> Entry \cup {NoEntry}]
  BY MmuAssumption DEF SpaceInv, Keys
<1>1. UNCHANGED <<auto_pte_fixup, low_addr_identity_map, satp, mem>>
  BY DEF SfenceVma
<1>3. tlb' \in {flush_all, flush_va(v), flush_asid(asid), flush_va_asid(v, asid)}
  BY DEF SfenceVma
<1>4. Flushed(tlb')
  BY <1>0, <1>3, FlushesDrop
<1>5. \A u \in Vpn, a \in Asid : tlb'[<<u, a>>] \in {tlb[<<u, a>>], NoEntry}
  BY <1>0, <1>4 DEF Flushed
<1>6. \A u \in Vpn : stale'[u] = stale[u] \/ (stale'[u] = "no" /\ (hasVa => u = v))
  BY DEF SfenceVma, Fenced
<1> SUFFICES ASSUME NEW u \in Vpn
             PROVE  /\ \A a \in Asid : "G" \in tlb'[<<u, a>>].flags => a = 0
                    /\ stale'[u] # "global" /\ "G" \in tlb'[<<u, 0>>].flags
                         => Fresh(u, tlb'[<<u, 0>>])
                    /\ stale'[u] = "no" /\ tlb'[<<u, satp.asid>>] # NoEntry
                         => Fresh(u, tlb'[<<u, satp.asid>>])
  BY <1>1, FreshAlike DEF FreshInv
<1>7. \A a \in Asid : "G" \in tlb'[<<u, a>>].flags => a = 0
  BY <1>5, NoEntryNotGlobal DEF FreshInv
<1>8. CASE stale'[u] = stale[u]
  BY <1>0, <1>5, <1>7, <1>8, NoEntryNotGlobal DEF FreshInv
<1>9. CASE stale'[u] # stale[u] /\ ~hasAsid
  <2>1. \A a \in Asid : tlb'[<<u, a>>] = NoEntry
    <3>1. CASE ~hasVa
      BY <1>0, <1>9, <3>1 DEF SfenceVma, flush_all, Drop
    <3>2. CASE hasVa
      BY <1>0, <1>6, <1>9, <3>2 DEF SfenceVma, flush_va, Drop
    <3> QED BY <3>1, <3>2
  <2> QED BY <1>0, <1>7, <2>1, NoEntryNotGlobal
<1>10. CASE stale'[u] # stale[u] /\ hasAsid
  <2>1. asid = satp.asid /\ stale[u] = "local" /\ (hasVa => u = v)
    BY <1>6, <1>10 DEF SfenceVma, Fenced
  <2>2. tlb'[<<u, asid>>] # NoEntry => "G" \in tlb'[<<u, asid>>].flags
    <3>1. CASE ~hasVa
      BY <1>0, <1>10, <3>1 DEF SfenceVma, flush_asid, Drop
    <3>2. CASE hasVa
      BY <1>0, <2>1, <1>10, <3>2 DEF SfenceVma, flush_va_asid, Drop
    <3> QED BY <3>1, <3>2
  <2>3. "G" \in tlb'[<<u, 0>>].flags => Fresh(u, tlb'[<<u, 0>>])
    <3>1. "G" \in tlb'[<<u, 0>>].flags => tlb'[<<u, 0>>] = tlb[<<u, 0>>]
      BY <1>0, <1>5, NoEntryNotGlobal
    <3>2. stale[u] # "global"
      BY <2>1
    <3> QED BY <3>1, <3>2 DEF FreshInv
  <2> QED BY <1>0, <1>7, <2>1, <2>2, <2>3
<1> QED BY <1>8, <1>9, <1>10

(* A store to a table marks the pages whose walk it changes. *)
LEMMA StoreFresh ==
    ASSUME FreshInv, SpaceInv, RestTyped,
           NEW t \in Pages \ {0}, NEW i \in Index, NEW pte \in Words, StorePte(t, i, pte)
    PROVE  FreshInv'
<1>0. 0 \in Asid /\ satp.asid \in Asid
  BY MmuAssumption DEF SpaceInv
<1>1. UNCHANGED <<auto_pte_fixup, low_addr_identity_map, satp, tlb>>
  BY DEF StorePte
<1> DEFINE Old(u) == Walk(mem, satp.ppn, u)
           New(u) == Walk(mem', satp.ppn, u)
<1>2. \A u \in Vpn :
        stale'[u] = IF Old(u) = New(u) THEN stale[u]
                    ELSE IF "G" \in Old(u).entry.flags \cup New(u).entry.flags \/ stale[u] = "global"
                      THEN "global" ELSE "local"
  BY DEF StorePte
<1> HIDE DEF Old, New
<1> SUFFICES ASSUME NEW u \in Vpn
             PROVE  /\ stale'[u] # "global" /\ "G" \in tlb[<<u, 0>>].flags
                         => Fresh(u, tlb[<<u, 0>>])'
                    /\ stale'[u] = "no" /\ tlb[<<u, satp.asid>>] # NoEntry
                         => Fresh(u, tlb[<<u, satp.asid>>])'
  BY <1>1 DEF FreshInv, Fresh
<1>3. CASE Old(u) = New(u)
  <2>1. stale'[u] = stale[u]
    BY <1>2, <1>3
  <2>2. /\ Fresh(u, tlb[<<u, 0>>]) => Fresh(u, tlb[<<u, 0>>])'
        /\ Fresh(u, tlb[<<u, satp.asid>>]) => Fresh(u, tlb[<<u, satp.asid>>])'
    BY <1>1, <1>3, WalkAlike DEF Fresh, Old, New
  <2> QED BY <2>1, <2>2 DEF FreshInv
<1>4. CASE Old(u) # New(u)
  <2>1. stale'[u] # "no" /\ (stale'[u] # "global" => stale[u] # "global" /\ "G" \notin Old(u).entry.flags)
    BY <1>2, <1>4
  <2>2. Fresh(u, tlb[<<u, 0>>]) /\ "G" \in tlb[<<u, 0>>].flags => "G" \in Old(u).entry.flags
    BY DEF Fresh, Old, IdentityEntry, AllRights
  <2> QED BY <2>1, <2>2 DEF FreshInv
<1> QED BY <1>3, <1>4

LEMMA FreshInductive == Spec => []FreshInv
<1>1. Init => FreshInv
  <2> SUFFICES ASSUME Init PROVE FreshInv
    OBVIOUS
  <2>1. \A v \in Vpn, asid \in Asid : tlb[<<v, asid>>] = NoEntry
    BY DEF Init
  <2>2. 0 \in Asid /\ satp.asid = 0
    BY MmuAssumption DEF Init
  <2> QED BY <2>1, <2>2, NoEntryNotGlobal DEF FreshInv
<1>2. FreshInv /\ SpaceInv /\ RestTyped /\ [Next]_vars => FreshInv'
  <2> SUFFICES ASSUME FreshInv, SpaceInv, RestTyped, [Next]_vars PROVE FreshInv'
    OBVIOUS
  <2>0. /\ \A v \in Vpn, asid \in Asid : <<v, asid>> \in Keys
        /\ 0 \in Asid /\ satp.asid \in Asid
        /\ tlb \in [Keys -> Entry \cup {NoEntry}]
    BY MmuAssumption DEF SpaceInv, Keys
  <2>1. CASE UNCHANGED vars
    BY <2>1, FreshAlike DEF vars, FreshInv
  <2>2. ASSUME NEW v \in Vpn, NEW a \in Accesses, Translate(v, a)
        PROVE  FreshInv'
    <3> DEFINE w == Walk(mem, satp.ppn, v)
    <3>1. /\ UNCHANGED <<auto_pte_fixup, low_addr_identity_map, satp, mem, stale>>
          /\ lookup(tlb, v, satp.asid) = NoEntry
      BY <2>2 DEF Translate
    <3>2. PICK e : tlb' = insert(v, satp.asid, e) /\ Fresh(v, e)
      BY <2>2 DEF Translate, Fresh
    <3> DEFINE at == IF "G" \in e.flags THEN 0 ELSE satp.asid
    <3>3. at \in Asid /\ tlb' = [tlb EXCEPT ![<<v, at>>] = e]
      BY <3>2, <2>0 DEF insert
    <3>4. \A u \in Vpn, asid \in Asid :
            tlb'[<<u, asid>>] = IF u = v /\ asid = at THEN e ELSE tlb[<<u, asid>>]
      BY <3>3, <2>0
    <3> SUFFICES ASSUME NEW u \in Vpn
                 PROVE  /\ \A asid \in Asid : "G" \in tlb'[<<u, asid>>].flags => asid = 0
                        /\ stale[u] # "global" /\ "G" \in tlb'[<<u, 0>>].flags
                             => Fresh(u, tlb'[<<u, 0>>])
                        /\ stale[u] = "no" /\ tlb'[<<u, satp.asid>>] # NoEntry
                             => Fresh(u, tlb'[<<u, satp.asid>>])
      BY <3>1, FreshAlike DEF FreshInv
    <3>5. \A asid \in Asid : "G" \in tlb'[<<u, asid>>].flags => asid = 0
      BY <3>4 DEF FreshInv
    <3> QED BY <2>0, <3>2, <3>4, <3>5 DEF FreshInv
  <2>3. ASSUME NEW v \in Vpn, NEW asid \in Asid, NEW hasVa \in BOOLEAN, NEW hasAsid \in BOOLEAN,
               SfenceVma(v, asid, hasVa, hasAsid)
        PROVE  FreshInv'
    BY <2>3, FenceFresh
  <2>4. ASSUME NEW t \in Pages \ {0}, NEW i \in Index, NEW pte \in Words, StorePte(t, i, pte)
        PROVE  FreshInv'
    BY <2>4, StoreFresh
  <2>5. ASSUME NEW on \in BOOLEAN, NEW asid \in Asid, NEW ppn \in Roots, WriteSatp(on, asid, ppn)
        PROVE  FreshInv'
    <3> DEFINE new == [on |-> on, asid |-> asid, ppn |-> Physical(ppn)]
    <3>1. CASE new = satp
      <4>1. UNCHANGED <<auto_pte_fixup, low_addr_identity_map, satp, mem, tlb, stale>>
        BY <2>5, <3>1 DEF WriteSatp, StaleAfterSatp
      <4> QED BY <4>1, FreshAlike DEF FreshInv
    <3>2. CASE new # satp
      <4>1. tlb' = flush_all /\ satp'.asid \in Asid
        BY <2>5, <3>2 DEF WriteSatp, StaleAfterSatp
      <4>2. \A u \in Vpn, x \in Asid : tlb'[<<u, x>>] = NoEntry
        BY <4>1, <2>0, FlushesDrop
      <4> QED BY <4>1, <4>2, <2>0, NoEntryNotGlobal DEF FreshInv
    <3> QED BY <3>1, <3>2
  <2> QED BY <2>1, <2>2, <2>3, <2>4, <2>5 DEF Next
<1> QED BY <1>1, <1>2, SpaceInductive, RestInductive, PTL DEF Spec

(* No hit differs from the walk it stands for, for a guest that fences     *)
(* what it changes: whatever it maps, in how many address spaces, and      *)
(* whichever of the four fences it uses.                                   *)
THEOREM HitsFresh == Spec => []HitsAreFresh
<1>1. FreshInv /\ SpaceInv => HitsAreFresh
  <2> SUFFICES ASSUME FreshInv, SpaceInv, NEW v \in Vpn, stale[v] = "no",
                      lookup(tlb, v, satp.asid) # NoEntry
               PROVE  Fresh(v, lookup(tlb, v, satp.asid))
    BY DEF HitsAreFresh, Fresh
  <2> QED BY DEF FreshInv, lookup
<1> QED BY <1>1, FreshInductive, SpaceInductive, PTL
-----------------------------------------------------------------------------
(* Traps, and the firmware that finds some of them (Hart).                 *)

(* In machine mode the firmware looks at what the trap interrupted; an     *)
(* interrupt got there with the machine's interrupts on.                   *)
AwayKept ==
    hart.priv = "M" =>
        /\ hart.pc = H!Fw /\ hart.MPP # "M" /\ ~hart.MIE
        /\ away \in H!Contexts
        /\ away.priv = hart.MPP /\ away.SIE = hart.SIE
        /\ away.pc = hart.mepc /\ away.cause = hart.mcause
        /\ hart.mcause.int => hart.MPIE

GuestPc == hart.priv # "M" => hart.pc \in H!Pc

(* Once an interrupt was forwarded to a kernel that had them off, the      *)
(* machine's interrupts stay off, also after the next MRET.                *)
OffForGood ==
    /\ unmasked <= 1
    /\ unmasked # 0 => ~hart.MIE /\ (hart.priv = "M" => ~hart.MPIE)

HartInv == H!TypeOK /\ AwayKept /\ GuestPc /\ H!FrameKept /\ OffForGood

HartSet ==
    [priv : {"U", "S", "M"}, pc : H!Pc \cup {H!Fw}, stvec : BOOLEAN,
     SIE : BOOLEAN, SPIE : BOOLEAN, SPP : {"U", "S"},
     MIE : BOOLEAN, MPIE : BOOLEAN, MPP : {"U", "S", "M"},
     mie : SUBSET H!Interrupts,
     sepc : H!Pc, scause : H!Causes, mepc : H!Pc, mcause : H!Causes]

LEMMA ContextsAreSome == \A c \in H!Contexts : c # H!None
<1> SUFFICES ASSUME NEW c \in H!Contexts, c = H!None PROVE FALSE
  OBVIOUS
<1>1. DOMAIN c = {"priv", "SIE", "pc", "cause"}
  BY DEF H!Contexts
<1>2. DOMAIN H!None = {"none"}
  BY DEF H!None
<1> QED BY <1>1, <1>2

LEMMA PcStays == \A pc \in H!Pc : H!NextPc(pc) \in H!Pc
<1> SUFFICES ASSUME NEW pc \in H!Pc PROVE H!NextPc(pc) \in H!Pc
  OBVIOUS
<1>1. LastPc \in Nat
  BY HartAssumption
<1>2. PICK n \in Nat \ {0} : n = LastPc + 1
  BY <1>1
<1>3. pc + 1 \in Nat /\ (pc + 1) % n \in 0 .. n - 1
  BY <1>1, <1>2 DEF H!Pc
<1> QED BY <1>1, <1>2, <1>3 DEF H!Pc, H!NextPc

(* What a trap taken by the guest leaves, in either mode. *)
LEMMA TrapKeeps ==
    ASSUME HartInv, hart.priv # "M", NEW cause \in H!Causes,
           cause.int => IF cause.code \in H!mideleg THEN hart.SIE ELSE hart.MIE,
           H!Trap(hart, cause),
           clint' \in [left : 0 .. H!Never, msip : BOOLEAN], running' \in BOOLEAN
    PROVE  HartInv'
<1>0. hart \in HartSet /\ LastPc \in Nat /\ hart.pc \in H!Pc /\ hart.priv \in {"U", "S"}
  BY HartAssumption DEF HartInv, H!TypeOK, HartSet, GuestPc
<1>1. H!Context(hart, cause) \in H!Contexts
  BY <1>0 DEF H!Context, H!Contexts, HartSet
<1>2. CASE H!trap_target_priv(hart, cause) = "S"
  <2>1. hart' = H!EnterS(hart, cause) /\ frame' = H!Context(hart, cause)
        /\ unmasked' = H!Count(H!Context(hart, cause)) /\ away' = away
    BY <1>2 DEF H!Trap
  <2>2. /\ hart'.priv = "S" /\ hart'.pc = 0 /\ hart'.MIE = hart.MIE
        /\ hart'.SPP = hart.priv /\ hart'.SPIE = hart.SIE /\ hart'.sepc = hart.pc
        /\ hart'.scause = cause /\ hart' \in HartSet
    <3>1. 0 \in H!Pc
      BY <1>0 DEF H!Pc
    <3>2. (IF hart.priv = "S" THEN "S" ELSE "U") = hart.priv
      BY <1>0
    <3>3. hart' = [hart EXCEPT !.SPP = hart.priv, !.SPIE = hart.SIE, !.SIE = FALSE,
                               !.sepc = hart.pc, !.scause = cause, !.priv = "S", !.pc = 0]
      BY <2>1, <3>2 DEF H!EnterS, H!Vector
    <3> QED BY <1>0, <3>1, <3>3 DEF HartSet
  <2>3. cause.int => cause.code \in H!mideleg /\ hart.SIE
    BY <1>2 DEF H!trap_target_priv
  <2>4. unmasked' = unmasked
    BY <2>1, <2>3 DEF H!Count, H!Context
  <2>5. H!Told(cause) = cause
    BY <2>3 DEF H!Told, H!Interrupt, H!MTI, H!mideleg, H!SSI, H!STI, H!SEI
  <2>6. H!TypeOK'
    BY <1>1, <2>1, <2>2, <2>4 DEF HartInv, H!TypeOK, HartSet
  <2>7. H!FrameKept'
    BY <2>1, <2>2, <2>5 DEF H!FrameKept, H!Context
  <2>8. AwayKept' /\ GuestPc' /\ OffForGood'
    BY <1>0, <2>2, <2>4 DEF AwayKept, GuestPc, OffForGood, HartInv, H!Pc
  <2> QED BY <2>6, <2>7, <2>8 DEF HartInv
<1>3. CASE H!trap_target_priv(hart, cause) # "S"
  <2>1. hart' = H!EnterM(hart, cause) /\ away' = H!Context(hart, cause)
        /\ frame' = frame /\ unmasked' = unmasked
    BY <1>3 DEF H!Trap
  <2>2. /\ hart'.priv = "M" /\ hart'.pc = H!Fw /\ ~hart'.MIE /\ hart'.MPIE = hart.MIE
        /\ hart'.MPP = hart.priv /\ hart'.mepc = hart.pc /\ hart'.mcause = cause
        /\ hart'.SIE = hart.SIE /\ hart'.SPP = hart.SPP /\ hart'.SPIE = hart.SPIE
        /\ hart'.sepc = hart.sepc /\ hart'.scause = hart.scause /\ hart' \in HartSet
    BY <1>0, <2>1 DEF H!EnterM, HartSet
  <2>3. cause.int => hart.MIE
    BY <1>0, <1>3 DEF H!trap_target_priv
  <2>4. H!TypeOK'
    BY <1>1, <2>1, <2>2 DEF HartInv, H!TypeOK, HartSet
  <2>5. H!FrameKept'
    BY <2>1, <2>2 DEF H!FrameKept, HartInv
  <2>6. AwayKept'
    BY <1>0, <1>1, <2>1, <2>2, <2>3 DEF AwayKept, H!Context
  <2>7. GuestPc' /\ OffForGood'
    BY <2>1, <2>2 DEF GuestPc, OffForGood, HartInv
  <2> QED BY <2>4, <2>5, <2>6, <2>7 DEF HartInv
<1> QED BY <1>2, <1>3

(* What an instruction of the guest does that is no trap: the machine's    *)
(* registers stay, and those of the kernel's trap unless it gives up frame. *)
Quiet ==
    /\ hart' \in HartSet /\ hart'.priv # "M" /\ hart'.pc \in H!Pc
    /\ hart'.MIE = hart.MIE
    /\ frame' = H!None \/ /\ frame' = frame
                          /\ hart'.SPP = hart.SPP /\ hart'.SPIE = hart.SPIE
                          /\ hart'.sepc = hart.sepc /\ hart'.scause = hart.scause
    /\ UNCHANGED <<away, unmasked>>

LEMMA QuietKeeps ==
    ASSUME HartInv, hart.priv # "M", Quiet,
           clint' \in [left : 0 .. H!Never, msip : BOOLEAN], running' \in BOOLEAN
    PROVE  HartInv'
<1>1. H!TypeOK'
  BY DEF Quiet, HartInv, H!TypeOK, HartSet
<1>2. H!FrameKept'
  BY DEF Quiet, HartInv, H!FrameKept
<1>3. AwayKept' /\ GuestPc' /\ OffForGood'
  BY DEF Quiet, HartInv, AwayKept, GuestPc, OffForGood
<1> QED BY <1>1, <1>2, <1>3 DEF HartInv

(* The clock, and what is due. *)
LEMMA ClockTyped ==
    ASSUME H!TypeOK
    PROVE  H!Clock \in [left : 0 .. H!Never, msip : BOOLEAN]
BY HartAssumption DEF H!TypeOK, H!Clock, H!tick, H!Never

LEMMA DueIs ==
    /\ H!Due \subseteq H!Interrupts /\ H!Due \subseteq {H!MTI, H!STI, H!MSI}
    /\ \A i \in H!Due : IF i \in H!mideleg THEN hart.SIE /\ hart.priv # "M" ELSE hart.MIE
    /\ H!Due # {} => H!pending_interrupt(H!Due) \in H!Due
<1> DEFINE D == H!Due
<1>1. D \subseteq {H!MTI, H!STI, H!MSI}
  BY DEF H!Due, H!Taken, H!sync_mip, H!TimerBits
<1>2. \A i \in D : IF i \in H!mideleg THEN hart.SIE /\ hart.priv # "M" ELSE hart.MIE
  BY <1>1 DEF H!Due, H!Taken, H!MachineInts, H!mideleg, H!MTI, H!STI, H!MSI, H!SSI, H!MEI, H!SEI
<1>3. D \subseteq H!Interrupts
  BY <1>1 DEF H!Interrupts
<1> HIDE DEF D
<1>4. ASSUME D # {} PROVE H!pending_interrupt(D) \in D
  <2> DEFINE P(k) == H!Priority[k] \in D /\ \A j \in 1 .. k - 1 : H!Priority[j] \notin D
  <2>1. \E k \in DOMAIN H!Priority : P(k)
    <3>1. CASE H!MTI \in D
      <4>1. P(1)
        BY <3>1 DEF H!Priority
      <4> QED BY <4>1 DEF H!Priority
    <3>2. CASE H!MTI \notin D /\ H!STI \in D
      <4>1. P(2)
        BY <3>2 DEF H!Priority
      <4> QED BY <4>1 DEF H!Priority
    <3>3. CASE H!MTI \notin D /\ H!STI \notin D /\ H!MSI \in D
      <4>1. P(3)
        BY <3>3 DEF H!Priority
      <4> QED BY <4>1 DEF H!Priority
    <3> QED BY <1>1, <1>4, <3>1, <3>2, <3>3
  <2>2. P(CHOOSE k \in DOMAIN H!Priority : P(k))
    BY <2>1
  <2> QED BY <2>2 DEF H!pending_interrupt
<1> QED BY <1>1, <1>2, <1>3, <1>4 DEF D

(* The firmware's turn: it forwards the trap, or goes back. *)
LEMMA ForwardKeeps ==
    ASSUME HartInv, H!Forward
    PROVE  HartInv' /\ frame' = away /\ hart'.priv = "S"
<1>0. /\ hart \in HartSet /\ LastPc \in Nat /\ hart.priv = "M"
      /\ away \in H!Contexts /\ away # H!None
      /\ hart.MPP # "M" /\ ~hart.MIE
      /\ away.priv = hart.MPP /\ away.SIE = hart.SIE
      /\ away.pc = hart.mepc /\ away.cause = hart.mcause
      /\ hart.mcause.int => hart.MPIE
  BY HartAssumption, ContextsAreSome
     DEF HartInv, H!TypeOK, HartSet, AwayKept, H!Forward, H!AtFirmware
<1>1. hart' = H!Forwarded /\ frame' = away /\ away' = H!None /\ unmasked' = H!Count(away)
      /\ running' = running
      /\ clint' = IF hart.mcause.code = H!MTI THEN [clint EXCEPT !.left = MaxLeft] ELSE clint
  BY DEF H!Forward
<1>2. PICK told : told = IF hart.mcause.code = H!MTI THEN H!Interrupt(H!STI) ELSE hart.mcause
  OBVIOUS
<1>3. told \in H!Causes
  BY <1>0, <1>2 DEF HartSet, H!Causes, H!Interrupt, H!STI
<1>4. /\ hart'.priv = "S" /\ hart'.pc = 0 /\ ~hart'.MIE
      /\ hart'.SPP = away.priv /\ hart'.SPIE = away.SIE /\ hart'.sepc = away.pc
      /\ hart'.scause = told /\ hart' \in HartSet
  <2>1. 0 \in H!Pc
    BY <1>0 DEF H!Pc
  <2>2. (IF hart.MPP = "S" THEN "S" ELSE "U") = hart.MPP
    BY <1>0 DEF HartSet
  <2>3. hart' = [hart EXCEPT !.SPP = hart.MPP, !.SPIE = hart.SIE, !.SIE = FALSE,
                             !.sepc = hart.mepc, !.scause = told, !.priv = "S", !.pc = 0]
    BY <1>1, <1>2, <2>2 DEF H!Forwarded, H!Vector
  <2> QED BY <1>0, <1>3, <2>1, <2>3 DEF HartSet
<1>5. away.cause # H!Exception(H!STORE_ACCESS) => told = H!Told(away.cause)
  <2>1. hart.mcause \in H!Causes
    BY <1>0 DEF HartSet
  <2>2. PICK c \in H!Causes : c = hart.mcause
    BY <2>1
  <2>3. c = [int |-> c.int, code |-> c.code] /\ c.int \in BOOLEAN
    BY DEF H!Causes
  <2>4. c.code = 7 /\ c # H!Exception(7) => c = H!Interrupt(7)
    BY <2>3 DEF H!Exception, H!Interrupt
  <2>5. c = H!Interrupt(7) => c.code = 7
    BY DEF H!Interrupt
  <2> QED BY <1>0, <1>2, <2>2, <2>4, <2>5 DEF H!Told, H!MTI, H!STORE_ACCESS
<1>6. clint' \in [left : 0 .. H!Never, msip : BOOLEAN]
  BY <1>1, HartAssumption DEF HartInv, H!TypeOK, H!Never
<1>7. unmasked' \in 0 .. 1 /\ unmasked \in 0 .. 1
  <2>1. unmasked \in 0 .. 1
    BY DEF HartInv, H!TypeOK, OffForGood
  <2>2. away.cause.int => unmasked = 0
    BY <1>0 DEF HartInv, OffForGood
  <2> QED BY <1>1, <2>1, <2>2 DEF H!Count
<1>8. H!TypeOK'
  BY <1>0, <1>1, <1>4, <1>6, <1>7 DEF HartInv, H!TypeOK, HartSet
<1>9. H!FrameKept'
  BY <1>1, <1>4, <1>5 DEF H!FrameKept
<1>10. AwayKept' /\ GuestPc' /\ OffForGood'
  BY <1>0, <1>4, <1>7 DEF AwayKept, GuestPc, OffForGood, H!Pc
<1> QED BY <1>1, <1>4, <1>8, <1>9, <1>10 DEF HartInv

(* MRET after the firmware moved mepc on. *)
BackWith ==
    /\ hart'.priv = away.priv /\ hart'.SIE = away.SIE
    /\ hart'.pc = H!NextPc(away.pc)
    /\ hart'.sepc = hart.sepc /\ hart'.scause = hart.scause
    /\ hart'.SPP = hart.SPP /\ hart'.SPIE = hart.SPIE

LEMMA MretKeeps ==
    ASSUME HartInv, H!Mret, running' \in BOOLEAN
    PROVE  HartInv' /\ BackWith
<1>0. /\ hart \in HartSet /\ hart.priv = "M" /\ away \in H!Contexts
      /\ hart.MPP # "M" /\ ~hart.MIE
      /\ away.priv = hart.MPP /\ away.SIE = hart.SIE /\ away.pc = hart.mepc
  BY DEF HartInv, H!TypeOK, HartSet, AwayKept, H!Mret, H!AtFirmware
<1>1. PICK pc : pc = H!NextPc(hart.mepc)
  OBVIOUS
<1>2. pc \in H!Pc
  BY <1>0, <1>1, PcStays DEF HartSet
<1>3. /\ hart' = H!ReturnM(H!Begun) /\ H!Begun = [hart EXCEPT !.mepc = pc]
      /\ clint' = H!Clock /\ away' = H!None /\ frame' = frame /\ unmasked' = unmasked
  BY <1>1 DEF H!Mret, H!Begun, H!Skipped
<1>4. hart' = [hart EXCEPT !.mepc = pc, !.MIE = hart.MPIE, !.MPIE = TRUE, !.MPP = "U",
                           !.priv = hart.MPP, !.pc = pc]
  BY <1>0, <1>3 DEF H!ReturnM, HartSet
<1>5. /\ hart'.priv = away.priv /\ hart'.pc = pc /\ hart'.SIE = hart.SIE /\ hart'.MIE = hart.MPIE
      /\ hart'.sepc = hart.sepc /\ hart'.scause = hart.scause
      /\ hart'.SPP = hart.SPP /\ hart'.SPIE = hart.SPIE /\ hart' \in HartSet /\ hart'.priv # "M"
  BY <1>0, <1>2, <1>4 DEF HartSet
<1>6. H!Clock \in [left : 0 .. H!Never, msip : BOOLEAN]
  BY ClockTyped DEF HartInv
<1>7. H!TypeOK'
  BY <1>3, <1>5, <1>6 DEF HartInv, H!TypeOK, HartSet
<1>8. H!FrameKept'
  BY <1>3, <1>5 DEF HartInv, H!FrameKept
<1>9. AwayKept' /\ GuestPc' /\ OffForGood'
  BY <1>0, <1>2, <1>3, <1>5 DEF HartInv, AwayKept, GuestPc, OffForGood
<1> QED BY <1>0, <1>1, <1>5, <1>7, <1>8, <1>9 DEF HartInv, BackWith

(* An interrupt is taken from the guest alone. *)
LEMMA InterruptKeeps ==
    ASSUME HartInv, H!TakeInterrupt
    PROVE  HartInv' /\ hart.priv # "M"
<1>1. PICK i \in H!Due : i = H!pending_interrupt(H!Due)
  BY DueIs DEF H!TakeInterrupt
<1>2. i \in H!Interrupts /\ IF i \in H!mideleg THEN hart.SIE /\ hart.priv # "M" ELSE hart.MIE
  BY DueIs
<1>3. hart.priv # "M"
  BY <1>2 DEF HartInv, AwayKept
<1>4. PICK c : c = H!Interrupt(i)
  OBVIOUS
<1>5. c \in H!Causes /\ c.code = i
  BY <1>2, <1>4 DEF H!Interrupt, H!Causes, H!Interrupts, H!SSI, H!MSI, H!STI, H!MTI, H!SEI, H!MEI
<1>6. /\ H!Trap(hart, c)
      /\ clint' \in [left : 0 .. H!Never, msip : BOOLEAN] /\ running' \in BOOLEAN
  BY <1>1, <1>3, <1>4, ClockTyped
     DEF H!TakeInterrupt, H!Begun, H!AtFirmware, HartInv, H!TypeOK
<1>7. c.int => IF c.code \in H!mideleg THEN hart.SIE ELSE hart.MIE
  BY <1>2, <1>5
<1> QED BY <1>3, <1>5, <1>6, <1>7, TrapKeeps

LEMMA InstructionKeeps ==
    ASSUME HartInv, H!Guest, H!Instruction, running
    PROVE  HartInv'
<1>0. /\ hart \in HartSet /\ LastPc \in Nat /\ MaxLeft \in Nat
      /\ hart.pc \in H!Pc /\ hart.priv \in {"U", "S"} /\ H!NextPc(hart.pc) \in H!Pc
      /\ H!Clock \in [left : 0 .. H!Never, msip : BOOLEAN]
      /\ clint \in [left : 0 .. H!Never, msip : BOOLEAN]
  BY HartAssumption, PcStays, ClockTyped DEF HartInv, H!TypeOK, HartSet, GuestPc, H!Guest
<1>1. ASSUME NEW pc \in H!Pc, H!Ordinary(pc) PROVE HartInv'
  <2>1. Quiet
    BY <1>0, <1>1 DEF H!Ordinary, Quiet, HartSet
  <2> QED BY <1>0, <1>1, <2>1, QuietKeeps DEF H!Ordinary
<1>2. ASSUME NEW n \in Faults, H!Fault(n) PROVE HartInv'
  <2>1. PICK c : c = H!Exception(n)
    OBVIOUS
  <2>2. c \in H!Causes /\ ~c.int
    BY <2>1, HartAssumption DEF H!Exception, H!Causes
  <2> QED BY <1>0, <1>2, <2>1, <2>2, TrapKeeps DEF H!Fault
<1>3. ASSUME H!Ecall PROVE HartInv'
  <2>1. PICK c : c = H!Exception(IF hart.priv = "U" THEN H!ECALL_U ELSE H!ECALL_S)
    OBVIOUS
  <2>2. c \in H!Causes /\ ~c.int
    BY <2>1 DEF H!Exception, H!Causes, H!ECALL_U, H!ECALL_S
  <2> QED BY <1>0, <1>3, <2>1, <2>2, TrapKeeps DEF H!Ecall
<1>4. ASSUME H!Stop PROVE HartInv'
  <2>1. Quiet
    BY <1>0, <1>4 DEF H!Stop, H!Done, Quiet, HartSet
  <2> QED BY <1>0, <1>4, <2>1, QuietKeeps DEF H!Stop
<1>5. ASSUME H!Sret PROVE HartInv'
  <2>1. hart' = [hart EXCEPT !.SIE = hart.SPIE, !.SPIE = TRUE, !.SPP = "U",
                             !.priv = hart.SPP, !.pc = hart.sepc]
    BY <1>5 DEF H!Sret, H!ReturnS
  <2>2. Quiet
    BY <1>0, <1>5, <2>1 DEF H!Sret, Quiet, HartSet
  <2> QED BY <1>0, <1>5, <2>2, QuietKeeps DEF H!Sret
<1>6. ASSUME H!WriteCsr PROVE HartInv'
  <2>1. hart' \in HartSet
    <3>1. ASSUME NEW sie \in BOOLEAN, H!Done([hart EXCEPT !.SIE = sie]) PROVE hart' \in HartSet
      BY <1>0, <3>1 DEF H!Done, HartSet
    <3>2. ASSUME NEW on \in {{}, {H!STI}},
                 H!Done([hart EXCEPT !.mie = (@ \ H!SupervisorInts) \cup on])
          PROVE  hart' \in HartSet
      <4>1. (hart.mie \ H!SupervisorInts) \cup on \in SUBSET H!Interrupts
        BY <1>0 DEF HartSet, H!Interrupts
      <4> QED BY <1>0, <3>2, <4>1 DEF H!Done, HartSet
    <3>3. CASE H!Done([hart EXCEPT !.stvec = TRUE])
      BY <1>0, <3>3 DEF H!Done, HartSet
    <3> QED BY <1>6, <3>1, <3>2, <3>3 DEF H!WriteCsr
  <2>2. Quiet
    BY ZenonT(60), <1>0, <1>6, <2>1 DEF H!WriteCsr, H!Done, Quiet, HartSet
  <2> QED BY <1>0, <1>6, <2>2, QuietKeeps DEF H!WriteCsr, HartInv, H!TypeOK
<1>7. ASSUME NEW left \in 0 .. H!Never, H!SetTimer(left) PROVE HartInv'
  <2>1. Quiet
    BY <1>0, <1>7 DEF H!SetTimer, H!Done, Quiet, HartSet
  <2>2. clint' \in [left : 0 .. H!Never, msip : BOOLEAN] /\ running' \in BOOLEAN
    BY <1>0, <1>7 DEF H!SetTimer, HartInv, H!TypeOK
  <2> QED BY <1>0, <2>1, <2>2, QuietKeeps
<1>8. ASSUME NEW b \in BOOLEAN, H!SetMsip(b) PROVE HartInv'
  <2>1. Quiet
    BY <1>0, <1>8 DEF H!SetMsip, H!Done, Quiet, HartSet
  <2>2. clint' \in [left : 0 .. H!Never, msip : BOOLEAN] /\ running' \in BOOLEAN
    BY <1>0, <1>8 DEF H!SetMsip, HartInv, H!TypeOK
  <2> QED BY <1>0, <2>1, <2>2, QuietKeeps
<1>9. ASSUME NEW spp \in {"S", "U"}, NEW spie \in BOOLEAN, NEW sepc \in H!Pc,
             H!WriteFrame(spp, spie, sepc)
      PROVE  HartInv'
  <2>1. Quiet
    BY <1>0, <1>9 DEF H!WriteFrame, H!Done, Quiet, HartSet
  <2>2. clint' \in [left : 0 .. H!Never, msip : BOOLEAN] /\ running' \in BOOLEAN
    BY <1>0, <1>9 DEF H!WriteFrame, HartInv, H!TypeOK
  <2> QED BY <1>0, <2>1, <2>2, QuietKeeps
<1> QED BY <1>1, <1>2, <1>3, <1>4, <1>5, <1>6, <1>7, <1>8, <1>9 DEF H!Instruction

(* The step of the machine that HartInv is preserved by, and what it does  *)
(* to a trap that is in machine mode.                                      *)
LEMMA HartStep ==
    HartInv /\ [RiscvNext]_<<vars, trapVars, part>> =>
      /\ HartInv'
      /\ hart.priv = "M" /\ hart'.priv # "M" => (frame' = away /\ hart'.priv = "S") \/ BackWith
<1> SUFFICES ASSUME HartInv, [RiscvNext]_<<vars, trapVars, part>>
             PROVE  /\ HartInv'
                    /\ hart.priv = "M" /\ hart'.priv # "M" =>
                         (frame' = away /\ hart'.priv = "S") \/ BackWith
  OBVIOUS
<1>1. CASE UNCHANGED trapVars
  BY <1>1 DEF trapVars, HartInv, H!TypeOK, AwayKept, GuestPc, H!FrameKept, OffForGood
<1>2. CASE H!Turn
  <2>1. CASE H!Forward
    BY <2>1, ForwardKeeps
  <2>2. CASE H!TakeInterrupt
    BY <2>2, InterruptKeeps
  <2>3. CASE H!Mret
    BY <1>2, <2>3, MretKeeps DEF H!Mret, HartInv, H!TypeOK
  <2>4. CASE H!Guest /\ H!Instruction
    BY <1>2, <2>4, InstructionKeeps DEF H!Guest, H!Turn
  <2> QED BY <1>2, <2>1, <2>2, <2>3, <2>4 DEF H!Turn
<1> QED BY <1>1, <1>2 DEF RiscvNext, TrapTurn

LEMMA HartStarts == RiscvInit => HartInv
<1> SUFFICES ASSUME H!Init PROVE HartInv
  BY DEF RiscvInit
<1>1. LastPc \in Nat /\ MaxLeft \in Nat
  BY HartAssumption
<1>2. H!TypeOK
  BY <1>1 DEF H!Init, H!TypeOK, H!Pc, H!MachineInts, H!Interrupts, H!Exception, H!Causes, H!Never
<1> QED BY <1>1, <1>2 DEF H!Init, HartInv, AwayKept, GuestPc, H!FrameKept, OffForGood, H!Pc

LEMMA HartInductive == Riscv => []HartInv
BY HartStarts, HartStep, PTL DEF Riscv

(* Machine mode is the firmware's, one trap at a time; the kernel's trap   *)
(* registers are about what its trap interrupted; at most one interrupt    *)
(* reaches it with interrupts off: for every number of instructions, every *)
(* set of faults and every setting of the timer.                           *)
THEOREM HartCorrect == Riscv => []HartSound
<1>1. HartInv => HartSound
  <2> SUFFICES ASSUME HartInv PROVE HartSound
    OBVIOUS
  <2>1. H!OnlyFirmwareInMachineMode
    <3>1. CASE hart.priv = "M"
      BY <3>1, ContextsAreSome DEF HartInv, AwayKept, H!OnlyFirmwareInMachineMode
    <3>2. CASE hart.priv # "M"
      BY <3>2, HartAssumption DEF HartInv, GuestPc, H!OnlyFirmwareInMachineMode, H!Pc, H!Fw
    <3> QED BY <3>1, <3>2
  <2>2. H!UnmaskedAtMostOnce
    BY DEF HartInv, OffForGood, H!UnmaskedAtMostOnce
  <2> QED BY <2>1, <2>2 DEF HartInv, HartSound, H!HartSound
<1> QED BY <1>1, HartInductive, PTL

(* Leaving machine mode, the firmware has handed the trap on or goes back  *)
(* past its instruction without a trace, for every guest.                  *)
THEOREM FirmwareGoesBack == Riscv => FirmwareResumes
<1>1. HartInv /\ [RiscvNext]_<<vars, trapVars, part>> =>
        [hart.priv = "M" /\ hart'.priv # "M" =>
         \/ frame' = away /\ hart'.priv = "S"
         \/ /\ hart'.priv = away.priv /\ hart'.SIE = away.SIE
            /\ ~away.cause.int => hart'.pc = H!NextPc(away.pc)
            /\ hart'.sepc = hart.sepc /\ hart'.scause = hart.scause
            /\ hart'.SPP = hart.SPP /\ hart'.SPIE = hart.SPIE]_(H!vars)
  BY HartStep DEF BackWith
<1> QED BY <1>1, HartInductive, PTL DEF Riscv, FirmwareResumes, H!FirmwareResumes
=============================================================================
