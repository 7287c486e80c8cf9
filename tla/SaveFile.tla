------------------------------ MODULE SaveFile ------------------------------
(***************************************************************************)
(* The save file of the host (save.rs, vm/io.rs): save_state writes the VM *)
(* and then the canvas word by word into the file it emptied, and the host *)
(* may be killed, or the disk be full, after any of them; load_state reads *)
(* the file when the host starts or the user asks.                         *)
(*                                                                         *)
(* A file that is missing and one that is empty are the same: an error.    *)
(* A word is known by where it belongs and by the state it was taken from. *)
(* Of the VM only what is saved is here: its registers, RAM, screen, RNG   *)
(* and frame count; processes, pages, windows and the rest come back empty.*)
(***************************************************************************)
EXTENDS Naturals, Sequences

CONSTANTS
    VmWords,        \* words of a save up to the ones version 2 added
    CanvasWords,    \* words of the canvas
    Vms, Canvases   \* states of the two, Fresh among them

VARIABLES
    up,             \* the host is running
    vm, canvas,
    file,           \* its words
    todo,           \* the words save_state has still to write
    saved,          \* history: what the last save was of
    restored        \* history: what the last load gave

vars == <<up, vm, canvas, file, todo, saved, restored>>

Fresh == 0

Init ==
    /\ up = TRUE /\ vm = Fresh /\ canvas = Fresh
    /\ file = <<>> /\ todo = <<>>
    /\ saved = <<Fresh, Fresh>> /\ restored = <<>>

(* Header, registers, RAM and screen; RNG and frame count; the length of   *)
(* the canvas, the canvas, and whether it was assembled.                   *)
Words(v, c) ==
    [i \in 1 .. VmWords + 2 |-> v] \o <<CanvasWords>> \o [i \in 1 .. CanvasWords + 1 |-> c]

(* Mutant: both opens append. *)
EmptiedNot == file

Emptied == <<>>

(* F7, the socket's save and the console's. *)
save_state ==
    /\ up /\ todo = <<>>
    /\ file' = Emptied
    /\ todo' = Words(vm, canvas)
    /\ saved' = <<vm, canvas>>
    /\ UNCHANGED <<up, vm, canvas, restored>>

WriteWord ==
    /\ up /\ todo # <<>>
    /\ file' = Append(file, Head(todo))
    /\ todo' = Tail(todo)
    /\ UNCHANGED <<up, vm, canvas, saved, restored>>

(* A write that fails ends the save; what was written stays.               *)
WriteFails ==
    /\ up /\ todo # <<>>
    /\ todo' = <<>>
    /\ UNCHANGED <<up, vm, canvas, file, saved, restored>>

Killed ==
    /\ up /\ up' = FALSE
    /\ todo' = <<>>
    /\ UNCHANGED <<vm, canvas, file, saved, restored>>
-----------------------------------------------------------------------------
(* The canvas and the byte after it are all there. *)
Loadable == Len(file) >= VmWords + 3 + CanvasWords + 1

(* Long enough for version 1, which ended before RNG and frame count; the  *)
(* reads past the end of the file then panic.                              *)
Panics == Len(file) \in VmWords + 1 .. VmWords + 2

load_state ==
    /\ Loadable
    /\ vm' = file[1] /\ canvas' = file[VmWords + 4]
    /\ restored' = SubSeq(file, 1, VmWords + CanvasWords + 4)

(* The console's load.  An error is reported, or an .asm file of that name *)
(* is shown.                                                               *)
Load ==
    /\ up /\ todo = <<>>
    /\ \/ load_state /\ UNCHANGED up
       \/ Panics /\ up' = FALSE /\ UNCHANGED <<vm, canvas, restored>>
    /\ UNCHANGED <<file, todo, saved>>

(* The host starts from the file, or anew if that gives an error. *)
Start ==
    /\ ~up /\ ~Panics /\ up' = TRUE
    /\ \/ load_state
       \/ ~Loadable /\ vm' = Fresh /\ canvas' = Fresh /\ UNCHANGED restored
    /\ UNCHANGED <<file, todo, saved>>

(* The host runs: the VM and the user change what is to be saved. *)
Work ==
    /\ up /\ todo = <<>>
    /\ vm' \in Vms /\ canvas' \in Canvases
    /\ UNCHANGED <<up, file, todo, saved, restored>>

Next == save_state \/ WriteWord \/ WriteFails \/ Killed \/ Load \/ Start \/ Work

Spec == Init /\ [][Next]_vars
-----------------------------------------------------------------------------
TypeOK ==
    /\ up \in BOOLEAN /\ vm \in Vms /\ canvas \in Canvases
    /\ file \in Seq(Vms \cup Canvases \cup {CanvasWords})
    /\ Len(file) <= VmWords + CanvasWords + 4
    /\ todo \in Seq(Vms \cup Canvases \cup {CanvasWords})
    /\ saved \in Vms \X Canvases

\* However saves were cut short by a kill or a full disk, what a load gives
\* is the VM and the canvas of one save, the last: a file of two, or of part
\* of one, is an error and never a state.
RestoresLastSave ==
    [][restored' # restored => restored' = Words(saved[1], saved[2])]_vars
=============================================================================
