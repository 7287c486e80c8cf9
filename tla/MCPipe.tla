------------------------------- MODULE MCPipe -------------------------------
(* The two rings of words on small instances, side by side: a pipe between *)
(* processes, and the keys between the host and the programs.              *)
EXTENDS Pipe

CONSTANTS Size, Keys

ASSUME RingsAssumption == Size \in Nat \ {0}

VARIABLES key_buffer, head, tail, key_port, taken, key

keys == <<key_buffer, head, tail, key_port, taken, key>>

K == INSTANCE Keyboard

RingsInit == Init /\ K!Init

RingsNext ==
    \/ Next /\ UNCHANGED keys
    \/ K!Next /\ UNCHANGED vars

Rings == RingsInit /\ [][RingsNext]_<<vars, keys>>

\* Types, and a key in the legacy port is the newest of the ring (Keyboard).
KeysSound == K!KeysSound

\* Through IKEY the key ring is a bounded queue (Keyboard).
KeysInOrder == K!KeysInOrder
=============================================================================
