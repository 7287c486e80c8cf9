----------------------------- MODULE PipeQueue -----------------------------
(***************************************************************************)
(* What a pipe promises its readers and writers: a bounded first-in        *)
(* first-out queue of words.  A word that was accepted is delivered once,  *)
(* in the order of acceptance; a full queue refuses words, loses none of   *)
(* those it holds, and an empty one yields NoWord.                         *)
(***************************************************************************)
EXTENDS Naturals, Sequences

CONSTANTS
    Capacity,   \* words a pipe can hold
    Word,       \* the words that travel through it
    NoWord      \* what a read of an empty queue yields

VARIABLES
    queue,      \* the words accepted and not yet delivered, oldest first
    accepted,   \* whether the last write was accepted
    got         \* what the last read returned

vars == <<queue, accepted, got>>

Init ==
    /\ queue = << >>
    /\ accepted = TRUE
    /\ got = NoWord

Write(w) ==
    /\ accepted' = (Len(queue) < Capacity)
    /\ queue' = IF accepted' THEN Append(queue, w) ELSE queue
    /\ UNCHANGED got

Read ==
    /\ got' = IF queue = << >> THEN NoWord ELSE Head(queue)
    /\ queue' = IF queue = << >> THEN queue ELSE Tail(queue)
    /\ UNCHANGED accepted

Next == (\E w \in Word : Write(w)) \/ Read

Spec == Init /\ [][Next]_vars
=============================================================================
