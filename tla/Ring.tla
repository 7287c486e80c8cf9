-------------------------------- MODULE Ring --------------------------------
(***************************************************************************)
(* The rings of vm/trace.rs (TraceBuffer, FrameCheckBuffer, PixelWriteLog):*)
(* a fixed array, the slot of the next write and a count that stops at the *)
(* capacity.  A full ring overwrites its oldest entry.  The three types    *)
(* repeat the same arithmetic; it is defined once, over a record.          *)
(***************************************************************************)
EXTENDS Naturals, Sequences

(* What the array holds where nothing was pushed yet (zeroes, None).       *)
Fill == [fill |-> TRUE]

NewRing(n) == [capacity |-> n, entries |-> [i \in 0 .. n - 1 |-> Fill], head |-> 0, len |-> 0]

(* Mutant: head is left where it is once the ring is full. *)
pushStuck(r, e) ==
    [r EXCEPT !.entries = [@ EXCEPT ![r.head] = e],
              !.head = IF r.len = r.capacity THEN @ ELSE (@ + 1) % r.capacity,
              !.len = IF @ < r.capacity THEN @ + 1 ELSE @]

push(r, e) ==
    [r EXCEPT !.entries = [@ EXCEPT ![r.head] = e],
              !.head = (@ + 1) % r.capacity,
              !.len = IF @ < r.capacity THEN @ + 1 ELSE @]

(* Clearing sets head and len to 0; what the array still holds is out of   *)
(* reach until it is overwritten, and is taken as gone.                    *)
clear(r) == NewRing(r.capacity)

(* The slot of the oldest entry. *)
start(r) == IF r.len < r.capacity THEN 0 ELSE r.head

(* The entry with index entries before it; index < len. *)
get_at(r, index) == r.entries[(start(r) + index) % r.capacity]

(* The entry with index entries after it; index < len. *)
get_recent(r, index) == r.entries[(r.head + r.capacity - 1 - index) % r.capacity]

(* All entries, oldest first. *)
iter(r) == [i \in 1 .. r.len |-> get_at(r, i - 1)]

(* All entries, newest first. *)
iter_rev(r) == [i \in 1 .. r.len |-> get_recent(r, i - 1)]
-----------------------------------------------------------------------------
(* A ring of n slots with entries from the set S.  Until it is full, the   *)
(* next slot is the one after the last entry.                              *)
IsRing(r, n, S) ==
    /\ r \in [capacity : {n}, entries : [0 .. n - 1 -> S \cup {Fill}],
              head : 0 .. n - 1, len : 0 .. n]
    /\ r.len < n => r.head = r.len
    /\ \A i \in 0 .. r.len - 1 : r.entries[i] \in S
=============================================================================
