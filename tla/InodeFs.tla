------------------------------ MODULE InodeFs ------------------------------
(***************************************************************************)
(* The in-memory inode file system (inode_fs.rs), used by MKDIR, FSTAT,    *)
(* FUNLINK and by the core dump of a process that faults.                  *)
(*                                                                         *)
(* A path is a directory part and a last component.  The directory part    *)
(* stands for the inode it resolves to, any of Resolvable; the last        *)
(* component is a name, "." or "..", or NoName for a path that ends in a   *)
(* slash.  Of a file's data only the size is kept.                         *)
(***************************************************************************)
EXTENDS Naturals, FiniteSets

CONSTANTS
    Name,           \* ordinary names
    Dot, DotDot,    \* "." and ".."
    NoName,         \* the empty component after a trailing slash
    MAX_FILE_SIZE,  \* words a file can hold (4096)
    Sizes,          \* offsets, lengths and sizes that callers pass
    Dump,           \* [pid |-> name of its core dump], names of Name
    Var, Core,      \* the names of the directories of core dumps
    MaxIno          \* bound: inode numbers given out

VARIABLES
    inodes,     \* the inodes by number
    next_ino,   \* the next number to give out
    cwd         \* the working directory

vars == <<inodes, next_ino, cwd>>
-----------------------------------------------------------------------------
Root == 1
None == 0
Component == Name \cup {Dot, DotDot, NoName}
Types == {"Regular", "Directory", "Device", "Pipe"}

Holds(i) == i.itype \in {"Regular", "Pipe"}     \* has data

IsDir(ns, d) == d \in DOMAIN ns /\ ns[d].itype = "Directory"

Entry(ns, d, n) ==
    IF IsDir(ns, d) /\ n \in DOMAIN ns[d].children THEN ns[d].children[n] ELSE None

(* The inode of a path; a trailing slash adds no component. *)
resolve(ns, d, n) == IF n = NoName THEN d ELSE Entry(ns, d, n)

(* Where the directory part of some path leads.  An entry leads to its     *)
(* number whether or not an inode with that number still exists.           *)
Closed(S) ==
    \A d \in S : IsDir(inodes, d) =>
        \A n \in DOMAIN inodes[d].children : inodes[d].children[n] \in S

Resolvable ==
    {d \in 1 .. next_ino - 1 :
        \A S \in SUBSET (1 .. next_ino - 1) :
            {Root, cwd} \subseteq S /\ Closed(S) => d \in S}

(* A new directory has the entries "." and "..", the root has neither. *)
NewInode(type, ino, d) ==
    [itype |-> type, parent |-> d, size |-> 0,
     children |-> IF type = "Directory"
                  THEN [n \in {Dot, DotDot} |-> IF n = Dot THEN ino ELSE d]
                  ELSE [n \in {} |-> None]]

Init ==
    /\ inodes = [i \in {Root} |->
                    [NewInode("Directory", Root, None) EXCEPT !.children = [n \in {} |-> None]]]
    /\ next_ino = Root + 1
    /\ cwd = Root

MayCreate(ns, d, n) == n # NoName /\ IsDir(ns, d) /\ Entry(ns, d, n) = None

WithEntry(dir, n, ino) ==
    [dir EXCEPT !.children = [m \in DOMAIN @ \cup {n} |-> IF m = n THEN ino ELSE @[m]]]

(* The inodes after `ino` was created under name n in directory d. *)
WithNode(ns, d, n, type, ino) ==
    [i \in DOMAIN ns \cup {ino} |->
        CASE i = ino -> NewInode(type, ino, d)
          [] i = d -> WithEntry(ns[d], n, ino)
          [] OTHER -> ns[i]]

(* Mutant: the number is not used up. *)
alloc_inoReused(next) == next

alloc_ino(next) == next + 1

(* Mutant: the number of an inode that is gone is given out again. *)
NewInoLowest(ns, next) == CHOOSE i \in (1 .. next) \ DOMAIN ns : \A j \in 1 .. i - 1 : j \in DOMAIN ns

NewIno(ns, next) == next

Create(d, n, type) ==
    /\ MayCreate(inodes, d, n)
    /\ next_ino <= MaxIno
    /\ inodes' = WithNode(inodes, d, n, type, NewIno(inodes, next_ino))
    /\ next_ino' = alloc_ino(next_ino)
    /\ UNCHANGED cwd

mkdir(d, n) == Create(d, n, "Directory")

create_file(d, n) == \E type \in Types \ {"Directory"} : Create(d, n, type)

(* Mutant: the children of a directory are not looked at. *)
UserChildrenNone(ns, d) == {}

UserChildren(ns, d) == DOMAIN ns[d].children \ {Dot, DotDot}

WithoutEntry(dir, n) ==
    [dir EXCEPT !.children = [m \in DOMAIN @ \ {n} |-> @[m]]]

(* The inodes after the entry n of d and the inode `ino` were removed. *)
Without(ns, d, n, ino) ==
    [i \in DOMAIN ns \ {ino} |-> IF i = d THEN WithoutEntry(ns[d], n) ELSE ns[i]]

(* Mutant: the working directory is left as it is. *)
CwdAfterNot(ino) == cwd

CwdAfter(ino) == IF cwd = ino THEN Root ELSE cwd

unlink(d, n) ==
    LET ino == resolve(inodes, d, n)
    IN  /\ ino \in DOMAIN inodes \ {Root}
        /\ inodes[ino].itype = "Directory" => UserChildren(inodes, ino) = {}
        /\ inodes' = Without(inodes, d, n, ino)
        /\ cwd' = CwdAfter(ino)
        /\ UNCHANGED next_ino

chdir(d, n) ==
    /\ IsDir(inodes, resolve(inodes, d, n))
    /\ cwd' = resolve(inodes, d, n)
    /\ UNCHANGED <<inodes, next_ino>>

Least(a, b) == IF a < b THEN a ELSE b
Greatest(a, b) == IF a < b THEN b ELSE a

(* Mutant: the limit is not looked at. *)
SizeAfterWriteUnbounded(size, offset, len) ==
    IF len = 0 THEN size ELSE Greatest(size, offset + len)

(* Writing past the end fills the gap; nothing goes past MAX_FILE_SIZE. *)
SizeAfterWrite(size, offset, len) ==
    IF len = 0 THEN size ELSE Greatest(size, Least(offset + len, MAX_FILE_SIZE))

write_inode(ino, offset, len) ==
    /\ ino \in DOMAIN inodes /\ Holds(inodes[ino])
    /\ inodes' = [inodes EXCEPT ![ino].size =
                    IF offset >= MAX_FILE_SIZE THEN @ ELSE SizeAfterWrite(@, offset, len)]
    /\ UNCHANGED <<next_ino, cwd>>

truncate(ino, size) ==
    /\ ino \in DOMAIN inodes /\ Holds(inodes[ino])
    /\ inodes' = [inodes EXCEPT ![ino].size = Least(@, size)]
    /\ UNCHANGED <<next_ino, cwd>>

(* mkdir and create as the core dump uses them, one after the other. *)
Added(s, d, n, type) ==
    IF MayCreate(s.ns, d, n)
    THEN LET ino == NewIno(s.ns, s.next)
         IN  [ns |-> WithNode(s.ns, d, n, type, ino), next |-> alloc_ino(s.next), ino |-> ino]
    ELSE [s EXCEPT !.ino = None]

(* write_core_dump: the directories are made when their paths do not       *)
(* resolve, and the dump is dropped when a file with its name exists.      *)
core_dump(pid) ==
    LET s0 == [ns |-> inodes, next |-> next_ino, ino |-> None]
        s1 == IF Entry(s0.ns, Root, Var) = None THEN Added(s0, Root, Var, "Directory") ELSE s0
        dir == Entry(s1.ns, Root, Var)
        s2 == IF Entry(s1.ns, dir, Core) = None THEN Added(s1, dir, Core, "Directory") ELSE s1
        s3 == Added(s2, Entry(s2.ns, dir, Core), Dump[pid], "Regular")
    IN  /\ s3.next <= MaxIno + 1
        /\ inodes' = IF s3.ino = None THEN s2.ns
                     ELSE [s3.ns EXCEPT ![s3.ino].size = Least(1, MAX_FILE_SIZE)]
        /\ next_ino' = IF s3.ino = None THEN s2.next ELSE s3.next
        /\ UNCHANGED cwd

Next ==
    \/ \E d \in Resolvable, n \in Component :
        mkdir(d, n) \/ create_file(d, n) \/ unlink(d, n) \/ chdir(d, n)
    \/ \E ino \in 1 .. next_ino, offset, len \in Sizes : write_inode(ino, offset, len)
    \/ \E ino \in 1 .. next_ino, size \in Sizes : truncate(ino, size)
    \/ \E pid \in DOMAIN Dump : core_dump(pid)

Spec == Init /\ [][Next]_vars
-----------------------------------------------------------------------------
Ino == 1 .. next_ino - 1

Inode ==
    [itype : Types, parent : {None} \cup Ino, size : 0 .. MAX_FILE_SIZE,
     children : UNION {[S -> Ino] : S \in SUBSET (Component \ {NoName})}]

TypeOK ==
    /\ next_ino \in Nat \ {0}
    /\ DOMAIN inodes \subseteq Ino
    /\ \A i \in DOMAIN inodes : inodes[i] \in Inode
    /\ cwd \in Ino

(* The entries of d that are not its own "." and "..". *)
UserNames(d) == DOMAIN inodes[d].children \ (IF d = Root THEN {} ELSE {Dot, DotDot})

\* Every inode but the root is listed in its parent, a directory that still
\* exists, so that nothing is lost in the middle of the tree: only empty
\* directories are removed (unlink), whatever "." and ".." a path goes through.
InTree ==
    \A i \in DOMAIN inodes \ {Root} :
        /\ IsDir(inodes, inodes[i].parent)
        /\ \E n \in UserNames(inodes[i].parent) : inodes[inodes[i].parent].children[n] = i

\* An inode has one name: two entries never lead to the same inode, and the
\* entry is in the directory that the inode calls its parent, which is what
\* FSTAT reports.
OneName ==
    \A d, e \in {d \in DOMAIN inodes : IsDir(inodes, d)} :
        \A n \in UserNames(d), m \in UserNames(e) :
            LET i == inodes[d].children[n]
            IN  i \in DOMAIN inodes =>
                    /\ inodes[i].parent = d
                    /\ inodes[e].children[m] = i => d = e /\ n = m

\* The working directory exists, although it may be removed through any path
\* that leads to it (inode_fs.rs 312).
CwdExists == IsDir(inodes, cwd)

\* The file system is a tree, with the working directory in it.
TreeSound == TypeOK /\ InTree /\ OneName /\ CwdExists

\* A number that was given out never names another inode later: FSTAT takes
\* numbers that programs keep across removals, and entries that outlive
\* their inode keep its number too.
NumbersStay ==
    [][\A i \in Ino \cap DOMAIN inodes' :
          /\ i \in DOMAIN inodes
          /\ inodes'[i].itype = inodes[i].itype
          /\ inodes'[i].parent = inodes[i].parent]_vars
=============================================================================
