-------------------------------- MODULE Pipe --------------------------------
(***************************************************************************)
(* The ring buffer behind a pipe (struct Pipe, vm/types.rs): a fixed array *)
(* of words, a read cursor, a write cursor and an explicit count.  The     *)
(* array is never cleared, so a slot keeps its old word after it was read. *)
(***************************************************************************)
EXTENDS Naturals, Sequences

CONSTANTS
    PIPE_BUFFER_SIZE,   \* capacity in words (256 in the code)
    Word,               \* the words that travel through the pipe
    NoWord              \* the fill value of a fresh array, and None

ASSUME PipeAssumption ==
    /\ PIPE_BUFFER_SIZE \in Nat \ {0}
    /\ NoWord \notin Word

VARIABLES
    buffer,     \* the array, indexed from 0
    read_pos,   \* next slot to read
    write_pos,  \* next slot to write
    count,      \* words in the buffer
    accepted,   \* what the last write_word returned
    got         \* what the last read_word returned, NoWord for None

vars == <<buffer, read_pos, write_pos, count, accepted, got>>

Slots == 0 .. PIPE_BUFFER_SIZE - 1

Init ==
    /\ buffer = [i \in Slots |-> NoWord]
    /\ read_pos = 0
    /\ write_pos = 0
    /\ count = 0
    /\ accepted = TRUE
    /\ got = NoWord

(* Mutant: the cursor wraps one slot late. *)
NextSlotLate(i) == (i + 1) % (PIPE_BUFFER_SIZE + 1)

NextSlot(i) == (i + 1) % PIPE_BUFFER_SIZE

is_empty == count = 0

is_full == count >= PIPE_BUFFER_SIZE

WriteStored(w) ==
    /\ ~is_full
    /\ buffer' = [buffer EXCEPT ![write_pos] = w]
    /\ write_pos' = NextSlot(write_pos)
    /\ count' = count + 1
    /\ accepted' = TRUE

WriteRefused ==
    /\ is_full
    /\ accepted' = FALSE
    /\ UNCHANGED <<buffer, write_pos, count>>

write_word(w) ==
    /\ WriteStored(w) \/ WriteRefused
    /\ UNCHANGED <<read_pos, got>>

(* Mutant: the word read is still counted. *)
ReadSomeUncounted ==
    /\ ~is_empty
    /\ got' = buffer[read_pos]
    /\ read_pos' = NextSlot(read_pos)
    /\ UNCHANGED count

ReadSome ==
    /\ ~is_empty
    /\ got' = buffer[read_pos]
    /\ read_pos' = NextSlot(read_pos)
    /\ count' = count - 1

ReadNone ==
    /\ is_empty
    /\ got' = NoWord
    /\ UNCHANGED <<read_pos, count>>

read_word ==
    /\ ReadSome \/ ReadNone
    /\ UNCHANGED <<buffer, write_pos, accepted>>

Next == (\E w \in Word : write_word(w)) \/ read_word

Spec == Init /\ [][Next]_vars
-----------------------------------------------------------------------------
TypeOK ==
    /\ buffer \in [Slots -> Word \cup {NoWord}]
    /\ read_pos \in Slots
    /\ write_pos \in Slots
    /\ count \in 0 .. PIPE_BUFFER_SIZE
    /\ accepted \in BOOLEAN
    /\ got \in Word \cup {NoWord}

(* The slot k places after slot i, around the ring. *)
SlotAfter(i, k) == (i + k) % PIPE_BUFFER_SIZE

\* The two cursors and the count never disagree.  write_word and read_word
\* keep the three by hand; an empty and a full pipe have equal cursors and
\* only the count tells them apart.
CursorsAgree == write_pos = SlotAfter(read_pos, count)

\* A reader never gets the fill value or a word already read: every slot
\* between the cursors holds a word some write_word stored.
UnreadSlotsWritten == \A k \in 0 .. count - 1 : buffer[SlotAfter(read_pos, k)] \in Word

\* What every state of a pipe satisfies; the three parts need each other to
\* be preserved by write_word and read_word.
Inv == TypeOK /\ CursorsAgree /\ UnreadSlotsWritten

(* The unread words, oldest first. *)
Contents == [k \in 1 .. count |-> buffer[SlotAfter(read_pos, k - 1)]]

Queue == INSTANCE PipeQueue WITH
            Capacity <- PIPE_BUFFER_SIZE, queue <- Contents

\* The ring buffer implements the bounded FIFO queue: whatever the cursors
\* do at the wrap-around, write_word appends, read_word takes the oldest
\* word, a full pipe refuses and loses nothing.
ImplementsQueue == Queue!Spec
=============================================================================
