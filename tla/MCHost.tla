------------------------------- MODULE MCHost -------------------------------
(* Four parts of the host on small instances, which share no state and of  *)
(* which each behaviour moves one of Parts.  The terminals: one slot used  *)
(* for two children, the first of which writes less.  The save file: a VM  *)
(* and a canvas of two words each.  A RISC-V guest in a thread of its own: *)
(* two of them, one after the other.  Windows: one for the programs, three *)
(* launches in two slots, of programs that fit their region or fill both,  *)
(* heights and numbers that come back.                                     *)
EXTENDS Pty

CONSTANTS MAX_WINDOWS, MAX_WINDOWED_APPS, ProgramSizes, MaxProcesses, MaxWindows, MaxIds, MaxZ, MaxLaunches,
          VmWords, CanvasWords, Vms, Canvases,
          batch_size, MaxGuests, MaxCalls, MaxDraws, MaxFrames,
          Parts     \* those a run moves

ASSUME SaveFileAssumption ==
    /\ {VmWords, CanvasWords} \subseteq Nat
    /\ 0 \in Vms \cap Canvases      \* the state of a new VM and of a new canvas

ASSUME LiveAssumption ==
    /\ batch_size \in Nat \ {0}
    /\ {MaxGuests, MaxCalls, MaxDraws, MaxFrames} \subseteq Nat

ASSUME AppsAssumption ==
    /\ {MAX_WINDOWS, MAX_WINDOWED_APPS} \subseteq Nat
    /\ {MaxProcesses, MaxWindows, MaxIds, MaxZ, MaxLaunches} \cup ProgramSizes \subseteq Nat

VARIABLES processes, windows, next_window_id, active_apps, code, launches, phase,
          up, vm_state, canvas, file, todo, saved, restored,
          guests, gui, after, latest, last_frame, told, thread, paused, left,
          boot, pixels, rx_buf, control, frames, status, calls, typed, asked,
          killed, since,
          part      \* what this behaviour moves

appsVars == <<processes, windows, next_window_id, active_apps, code, launches, phase>>
saveVars == <<up, vm_state, canvas, file, todo, saved, restored>>
guestVars ==
    <<guests, gui, after, latest, last_frame, told, thread, paused, left, boot, pixels,
      rx_buf, control, frames, status, calls, typed, asked, killed, since>>

S == INSTANCE SaveFile WITH vm <- vm_state
L == INSTANCE Live
A == INSTANCE Apps

MCMaxBytes == <<2, 4>>

(* Where a block holds nothing of an application it matters to nobody what *)
(* it holds instead; and the other parts stand still while windows move.   *)
WindowsSeen ==
    <<processes, windows, next_window_id, active_apps, launches, phase,
      [block \in DOMAIN code |-> <<code[block].launch, code[block].slot>>]>>

HostInit ==
    /\ Init /\ S!Init /\ L!Init /\ A!Init
    /\ part \in Parts

HostNext ==
    \/ part = "terminal" /\ Next /\ UNCHANGED <<appsVars, saveVars, guestVars, part>>
    \/ part = "save file" /\ S!Next /\ UNCHANGED <<appsVars, vars, guestVars, part>>
    \/ part = "guest" /\ L!Next /\ UNCHANGED <<appsVars, vars, saveVars, part>>
    \/ part = "windows" /\ A!Next /\ UNCHANGED <<vars, saveVars, guestVars, part>>

Host == HostInit /\ [][HostNext]_<<vars, appsVars, saveVars, guestVars, part>>

FairTerminals == Host /\ Fairness
FairGuest == Host /\ L!Fairness

\* Terminals deliver what their children wrote, in order (Pty); and the save
\* file holds one save at most, whole or its beginning (SaveFile).
HostSound == StreamsSound /\ S!TypeOK

\* A load gives the VM and the canvas of one save, the last (SaveFile).
RestoresLastSave == S!RestoresLastSave

\* Snapshots, typed bytes, the pause flag and the picture shown are never of
\* an earlier moment, order or guest than the main loop takes them to be
\* (Live).
GuestSound == L!GuestSound

\* The join of a guest's thread returns, and an end is noticed (Live).
GuestsEnd == L!GuestsEnd

\* Windows, slots and tracked applications agree, however applications end
\* (Apps).
AppsSound == A!AppsSound

\* When the host's turn begins the applications whose number a halted
\* process has are gone from its list, and only they (Apps).
HaltedAppsGone == A!HaltedAppsGone
=============================================================================
