------------------------------ MODULE Keyboard ------------------------------
(***************************************************************************)
(* The keys between the host and the programs of the VM: the ring that     *)
(* push_key fills and IKEY empties, and beside it the single key of the    *)
(* legacy port, which READLN and reads of /dev/keyboard take instead.      *)
(***************************************************************************)
EXTENDS Naturals, Sequences

CONSTANTS
    Size,   \* length of key_buffer (16 in the code), more than 1
    Keys    \* key codes that are pressed, numbers

VARIABLES
    key_buffer,     \* the ring, indexed from 0
    head,           \* key_buffer_head: next slot to read
    tail,           \* key_buffer_tail: next slot to write
    key_port,       \* the legacy port, 0 for no key
    taken,          \* what the last push_key returned
    key             \* what the last IKEY returned

vars == <<key_buffer, head, tail, key_port, taken, key>>

NoKey == 0
Slots == 0 .. Size - 1

(* Mutant: the cursor wraps one slot late. *)
FollowingLate(i) == (i + 1) % (Size + 1)

Following(i) == (i + 1) % Size

Init ==
    /\ key_buffer = [i \in Slots |-> NoKey]
    /\ head = 0 /\ tail = 0
    /\ key_port = NoKey
    /\ taken = TRUE
    /\ key = NoKey

(* Mutant: the last free slot is used too. *)
RoomForOneMore == tail # Following(head) \/ head # tail

Room == Following(tail) # head

PortAfterPush(k) == IF Room THEN k ELSE key_port

push_key(k) ==
    /\ key_port' = PortAfterPush(k)
    /\ taken' = Room
    /\ IF Room
         THEN /\ key_buffer' = [key_buffer EXCEPT ![tail] = k]
              /\ tail' = Following(tail)
         ELSE UNCHANGED <<key_buffer, tail>>
    /\ UNCHANGED <<head, key>>

IkeyRing ==
    /\ head # tail
    /\ key' = key_buffer[head]
    /\ key_buffer' = [key_buffer EXCEPT ![head] = NoKey]
    /\ head' = Following(head)

IkeyPort ==
    /\ head = tail
    /\ key' = key_port
    /\ UNCHANGED <<key_buffer, head>>

(* Mutant: only the read that falls back on the port empties it. *)
PortAfterIkeyKept == IF head = tail THEN NoKey ELSE key_port

PortAfterIkey == NoKey

(* The opcode of programs in kernel mode; in user mode it halts them. *)
Ikey ==
    /\ IkeyRing \/ IkeyPort
    /\ key_port' = PortAfterIkey
    /\ UNCHANGED <<tail, taken>>

(* READLN and a read of /dev/keyboard: the ring keeps its key.  Vm::reset  *)
(* does the same to the port, and leaves the ring too.                     *)
TakePort ==
    /\ key_port' = NoKey
    /\ UNCHANGED <<key_buffer, head, tail, taken, key>>

Next == (\E k \in Keys : push_key(k)) \/ Ikey \/ TakePort

Spec == Init /\ [][Next]_vars
-----------------------------------------------------------------------------
Codes == Keys \cup {NoKey}

TypeOK ==
    /\ key_buffer \in [Slots -> Codes]
    /\ head \in Slots /\ tail \in Slots
    /\ key_port \in Codes /\ key \in Codes
    /\ taken \in BOOLEAN

Held == (tail + Size - head) % Size

\* The ring and the port, written by different opcodes, never contradict
\* each other: a key in the port is also the newest in the ring.  So IKEY on
\* an empty ring finds an empty port, and no key it delivered comes again
\* through its fallback.  (READLN takes a key from the port alone, and IKEY
\* delivers that key once more.)
PortIsNewest ==
    key_port # NoKey =>
        Held > 0 /\ key_port = key_buffer[(tail + Size - 1) % Size]

\* The state of the keyboard is well typed, and ring and port agree.
KeysSound == TypeOK /\ PortIsNewest

Contents == [n \in 1 .. Held |-> key_buffer[(head + n - 1) % Size]]

Queue == INSTANCE PipeQueue WITH
            Capacity <- Size - 1, Word <- Keys, NoWord <- NoKey,
            queue <- Contents, accepted <- taken, got <- key

\* For programs that read with IKEY, whatever others do to the port, the
\* ring is a queue of Size - 1 keys: each key that was accepted is delivered
\* once and in order, and a full ring refuses without losing any.
KeysInOrder == Queue!Spec
=============================================================================
