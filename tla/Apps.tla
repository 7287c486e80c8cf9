-------------------------------- MODULE Apps --------------------------------
(***************************************************************************)
(* Windows and window applications: the window list of the VM, which       *)
(* programs use through WINSYS (vm/mod.rs) and the host through clicks and *)
(* its socket, and the applications the host starts in windows, tracks and *)
(* cleans up (main.rs).                                                    *)
(*                                                                         *)
(* The host's loop alternates: the VM runs its processes, the host cleans  *)
(* up after applications that halted, then takes commands and clicks.  A   *)
(* window's place and size are left out, and of its contents everything.   *)
(* RAM is the code regions of the applications, in blocks, as history of   *)
(* what was last put in each by whoever loads programs; words that running *)
(* programs store, and the titles and the camera that the host keeps in    *)
(* the middle of two regions, are left out.                                *)
(***************************************************************************)
EXTENDS Naturals, FiniteSets, SequencesExt

CONSTANTS
    MAX_WINDOWS,        \* windows the programs may have active at once (8)
    MAX_WINDOWED_APPS,  \* slots (4)
    ProgramSizes,       \* of applications, in blocks; a region has two
    MaxProcesses, MaxWindows, MaxIds, MaxZ, MaxLaunches     \* bounds of the exploration

(* In blocks of APP_DATA_SIZE words; the regions of code follow each other *)
(* from 4 on, two blocks each, and those of data from 9 on.                *)
Slots == 0 .. MAX_WINDOWED_APPS - 1
CodeStart(slot) == 4 + 2 * slot
CodeRegion(slot) == {CodeStart(slot), CodeStart(slot) + 1}
DataRegion(slot) == {9 + slot}
CodeBlocks == CodeStart(0) .. CodeStart(MAX_WINDOWED_APPS) - 1

(* What a block holds: zeroes; the words of some file or main program; or  *)
(* those of the application with this launch, which started in this slot.  *)
Block(from, launch, slot) == [from |-> from, launch |-> launch, slot |-> slot]
Cleared == Block("zeroes", 0, 0)
Foreign == Block("elsewhere", 0, 0)

VARIABLES
    processes,      \* [pid, halted], in the order of the table
    windows,        \* [id, pid, z_order, active, opener], in the order of the list
    next_window_id,
    active_apps,    \* [slot, pid, launch], as the host tracks them
    code,           \* what each of CodeBlocks holds
    launches,       \* history: applications started so far
    phase           \* "vm" or "host"

vars == <<processes, windows, next_window_id, active_apps, code, launches, phase>>

Init ==
    /\ processes = <<>> /\ windows = <<>> /\ next_window_id = 1
    /\ active_apps = <<>>
    /\ code = [block \in CodeBlocks |-> Cleared]
    /\ launches = 0
    /\ phase = "vm"
-----------------------------------------------------------------------------
(* Vec::retain: the members at the places `kept`, in their order. *)
Retained(list, kept) ==
    [k \in 1 .. Cardinality(kept) |->
        list[CHOOSE i \in kept : Cardinality({j \in kept : j < i}) = k - 1]]

(* The processes, as far as the host can tell. *)

(* Mutant: counted from the main program's. *)
NextPidZero == Len(processes)

NextPid == Len(processes) + 1

Spawn ==
    /\ phase = "vm" /\ Len(processes) < MaxProcesses
    /\ processes' = Append(processes, [pid |-> NextPid, halted |-> FALSE])
    /\ UNCHANGED <<windows, next_window_id, active_apps, code, launches, phase>>

(* HALT, EXIT, KILL or a fault. *)
Halt(i) ==
    /\ phase = "vm" /\ ~processes[i].halted
    /\ processes' = [processes EXCEPT ![i].halted = TRUE]
    /\ UNCHANGED <<windows, next_window_id, active_apps, code, launches, phase>>

(* The first with the number decides, all with it leave. *)
WaitPid(i) ==
    /\ phase = "vm" /\ processes[i].halted
    /\ \A j \in 1 .. i - 1 : processes[j].pid # processes[i].pid
    /\ processes' = Retained(processes, {j \in DOMAIN processes : processes[j].pid # processes[i].pid})
    /\ UNCHANGED <<windows, next_window_id, active_apps, code, launches, phase>>
-----------------------------------------------------------------------------
(* Windows. *)

Window(id, pid, z, opener) ==
    [id |-> id, pid |-> pid, z_order |-> z, active |-> TRUE, opener |-> opener]

Active == {k \in DOMAIN windows : windows[k].active}

(* Mutant: as high as the list is long. *)
TopZLength == Len(windows) + 1

TopZ == Max({0} \cup {windows[k].z_order : k \in DOMAIN windows}) + 1

(* Mutant: one more. *)
RoomForOneMore == Cardinality(Active) <= MAX_WINDOWS

Room == Cardinality(Active) < MAX_WINDOWS

(* Mutant: the number the host would give. *)
NewIdLength == Len(windows) + 1

NewId == next_window_id

(* WINSYS 0, by a process or by the main program, whose pid is 0. *)
WinCreate(pid) ==
    /\ phase = "vm" /\ Room
    /\ Len(windows) < MaxWindows /\ next_window_id <= MaxIds /\ TopZ <= MaxZ
    /\ windows' = Append(windows, Window(NewId, pid, TopZ, "program"))
    /\ next_window_id' = next_window_id + 1
    /\ UNCHANGED <<processes, active_apps, code, launches, phase>>

(* The first window with the number, active or not. *)
First(id, among) ==
    {k \in among : windows[k].id = id /\ \A j \in among : windows[j].id = id => k <= j}

Closed(ks) == [k \in DOMAIN windows |-> [windows[k] EXCEPT !.active = @ /\ k \notin ks]]
Raised(ks) ==
    [k \in DOMAIN windows |-> [windows[k] EXCEPT !.z_order = IF k \in ks THEN TopZ ELSE @]]
RaisedAndClosed(ks) ==
    [k \in DOMAIN windows |-> [Raised(ks)[k] EXCEPT !.active = @ /\ k \notin ks]]

(* WINSYS 1 and window_close find an active window.  A click finds the     *)
(* first of the number of the one under the pointer, which may be any; on  *)
(* a window of the screen it raises what it closes.                        *)
WinDestroy(k) ==
    /\ k \in Active
    /\ \/ windows' = Closed(First(windows[k].id, Active))
       \/ phase = "host" /\ windows' = Closed(First(windows[k].id, DOMAIN windows))
       \/ /\ phase = "host" /\ TopZ <= MaxZ
          /\ windows' = RaisedAndClosed(First(windows[k].id, DOMAIN windows))
    /\ UNCHANGED <<processes, next_window_id, active_apps, code, launches, phase>>

(* WINSYS 2 and window_focus; a click or Alt-Tab. *)
WinRaise(k) ==
    /\ k \in DOMAIN windows /\ TopZ <= MaxZ
    /\ \/ k \in Active /\ windows' = Raised(First(windows[k].id, Active))
       \/ phase = "host" /\ windows' = Raised(First(windows[k].id, DOMAIN windows))
    /\ UNCHANGED <<processes, next_window_id, active_apps, code, launches, phase>>

(* process_kill closes windows and lets the process be. *)
ProcessKill(pid) ==
    /\ phase = "host"
    /\ windows' = Closed({k \in Active : windows[k].pid = pid})
    /\ UNCHANGED <<processes, next_window_id, active_apps, code, launches, phase>>
-----------------------------------------------------------------------------
(* Applications. *)

(* Mutant: as many as there are applications. *)
FreeSlotsNext == {Len(active_apps)} \cap Slots

(* The slots a launch may take: the least that is not used. *)
FreeSlots ==
    LET free == Slots \ {active_apps[a].slot : a \in DOMAIN active_apps}
    IN  {slot \in free : \A s \in free : slot <= s}

(* Mutant: the region is not zeroed first. *)
LoadedOver(slot, size, launch) ==
    [block \in CodeBlocks |->
        IF block \in CodeStart(slot) .. CodeStart(slot) + size - 1
        THEN Block("launch", launch, slot) ELSE code[block]]

(* The region is zeroed, then the program is copied from its start on, as  *)
(* far as the program goes, past the end of the region too.                *)
Loaded(slot, size, launch) ==
    [block \in CodeBlocks |->
        CASE block \in CodeStart(slot) .. CodeStart(slot) + size - 1 -> Block("launch", launch, slot)
          [] block \in CodeRegion(slot) /\ block >= CodeStart(slot) + size -> Cleared
          [] OTHER -> code[block]]

(* The launch of the socket and that of a click on a building.  A program  *)
(* that does not assemble changes nothing.                                 *)
Launch(slot, size) ==
    /\ phase = "host"
    /\ launches < MaxLaunches /\ Len(processes) < MaxProcesses /\ Len(windows) < MaxWindows
    /\ launches' = launches + 1
    /\ code' = Loaded(slot, size, launches')
    /\ windows' = Append(windows, Window(Len(windows) + 1, NextPid, 0, "host"))
    /\ processes' = Append(processes, [pid |-> NextPid, halted |-> FALSE])
    /\ active_apps' = Append(active_apps, [slot |-> slot, pid |-> NextPid, launch |-> launches'])
    /\ UNCHANGED <<next_window_id, phase>>

(* A file over RAM from 0 on (loadbin), or a main program from the canvas' *)
(* place on (F8, run, loadasm, ASMSELF, a launch without a window), as far *)
(* as it goes: over the regions up to block `last`.                        *)
LoadProgram(last) ==
    /\ code' = [block \in CodeBlocks |-> IF block <= last THEN Foreign ELSE code[block]]
    /\ UNCHANGED <<processes, windows, next_window_id, active_apps, launches, phase>>

HasHalted(pid) == \E i \in DOMAIN processes : processes[i].pid = pid /\ processes[i].halted

(* The places in active_apps of those to be removed. *)
ToRemove == {a \in DOMAIN active_apps : HasHalted(active_apps[a].pid)}

(* Mutant: from the front, where a removal moves what is still to remove. *)
RemainingForward ==
    LET left[a \in 0 .. Len(active_apps)] ==
            IF a = 0 THEN active_apps
            ELSE IF a \in ToRemove THEN RemoveAt(left[a - 1], a)
            ELSE left[a - 1]
    IN  left[Len(active_apps)]

(* What the removals leave that go from the last place down to place a.    *)
RemovedFrom[a \in 1 .. Len(active_apps) + 1] ==
    IF a > Len(active_apps) THEN active_apps
    ELSE IF a \in ToRemove THEN RemoveAt(RemovedFrom[a + 1], a)
    ELSE RemovedFrom[a + 1]

Remaining == RemovedFrom[1]

(* Mutant: the application is forgotten, its windows stay. *)
KeptWindowsAll == windows

KeptWindows ==
    LET gone == {active_apps[a].pid : a \in ToRemove}
    IN  Retained(windows, {k \in DOMAIN windows : windows[k].pid \notin gone})

(* At the end of the VM's turn.  Both regions of a slot are zeroed.        *)
Cleanup ==
    /\ phase = "vm" /\ phase' = "host"
    /\ windows' = KeptWindows
    /\ active_apps' = Remaining
    /\ LET slots == {active_apps[a].slot : a \in ToRemove}
           zeroed == UNION {CodeRegion(slot) \cup DataRegion(slot) : slot \in slots}
       IN  code' = [block \in CodeBlocks |-> IF block \in zeroed THEN Cleared ELSE code[block]]
    /\ UNCHANGED <<processes, next_window_id, launches>>

(* A VM that has no processes or windows and this code; the host's list of *)
(* applications is not told.                                               *)
NewVm(blocks) ==
    /\ phase = "host"
    /\ processes' = <<>> /\ windows' = <<>> /\ next_window_id' = 1
    /\ code' = blocks
    /\ UNCHANGED <<active_apps, launches, phase>>

(* Vm::reset. *)
Reset == NewVm([block \in CodeBlocks |-> Cleared])

(* A saved state takes the place of the VM, with the RAM that was saved,   *)
(* whatever programs were there then.                                      *)
Load == NewVm([block \in CodeBlocks |-> Foreign])

Resume ==
    /\ phase = "host" /\ phase' = "vm"
    /\ UNCHANGED <<processes, windows, next_window_id, active_apps, code, launches>>

Pids == {processes[i].pid : i \in DOMAIN processes}

Next ==
    \/ Spawn \/ Cleanup \/ Reset \/ Load \/ Resume
    \/ \E i \in DOMAIN processes : Halt(i) \/ WaitPid(i)
    \/ \E pid \in {0} \cup {processes[i].pid : i \in {j \in DOMAIN processes : ~processes[j].halted}} :
          WinCreate(pid)
    \/ \E k \in DOMAIN windows : WinDestroy(k) \/ WinRaise(k)
    \/ \E pid \in Pids : ProcessKill(pid)
    \/ \E slot \in FreeSlots, size \in ProgramSizes : Launch(slot, size)
    \/ \E last \in CodeBlocks : LoadProgram(last)

Spec == Init /\ [][Next]_vars
-----------------------------------------------------------------------------
Pid == 0 .. MaxProcesses

TypeOK ==
    /\ processes \in BoundedSeq([pid : Pid \ {0}, halted : BOOLEAN], MaxProcesses)
    /\ \A k \in DOMAIN windows :
          windows[k] \in [id : 1 .. Max({MaxWindows, MaxIds}), pid : Pid,
                          z_order : 0 .. MaxZ, active : BOOLEAN, opener : {"program", "host"}]
    /\ next_window_id \in 1 .. MaxIds + 1 /\ Len(windows) <= MaxWindows
    /\ \A a \in DOMAIN active_apps :
          active_apps[a] \in [slot : Slots, pid : Pid \ {0}, launch : 1 .. launches]
    /\ code \in [CodeBlocks -> [from : {"zeroes", "elsewhere", "launch"}, launch : 0 .. launches,
                                slot : 0 .. MAX_WINDOWED_APPS]]
    /\ launches \in 0 .. MaxLaunches
    /\ phase \in {"vm", "host"}

\* When the host's turn begins the applications whose number a halted
\* process has are no longer tracked, and all others are, those that halted
\* in one turn together, although each removal moves the ones behind it
\* (main.rs, to_remove).  (With a halted process a namesake of it goes that
\* may live: the clean-up tells processes apart by number only.)
HaltedAppsGone ==
    [][phase = "vm" /\ phase' = "host" =>
         {active_apps'[a] : a \in DOMAIN active_apps'}
           = {active_apps[a] : a \in {b \in DOMAIN active_apps :
                \A i \in DOMAIN processes' :
                   processes'[i].pid = active_apps[b].pid => ~processes'[i].halted}}]_vars

\* The window the host opened for an application does not outlive it: its
\* number is that of a tracked application, whatever numbers repeat.
WindowsHaveApp ==
    \A k \in DOMAIN windows :
        windows[k].opener = "host" => \E a \in DOMAIN active_apps : active_apps[a].pid = windows[k].pid

(* Words of an application launched before app are not left in its region, *)
(* and of one after it only if that began in a lower slot.                 *)
MayBeThere(block, app) ==
    code[block].from = "launch" =>
        \/ code[block].launch = app.launch
        \/ code[block].launch > app.launch /\ code[block].slot < app.slot

\* No application finds in its region what was launched before it, however
\* slots were vacated and taken again; and of what is launched after it only
\* a program of a lower slot that is too long for its own region.  Its code
\* may be gone: a slot's data lies in another's code, a reset clears all, and
\* loaded over it come a main program, or a saved state with the programs
\* that were in RAM when it was saved.
OwnCode ==
    \A a \in DOMAIN active_apps : \A block \in CodeRegion(active_apps[a].slot) :
        MayBeThere(block, active_apps[a])

\* No two tracked applications are in one slot.
SlotsApart ==
    \A a, b \in DOMAIN active_apps : active_apps[a].slot = active_apps[b].slot => a = b

\* Programs and the host together have no more active windows than the limit
\* on programs and one for each application.
ActiveBounded == Cardinality(Active) <= MAX_WINDOWS + Len(active_apps)

\* Of two windows with one number the host opened at least one: WINSYS never
\* gives a number twice, though windows leave the list from its middle.
IdsOfPrograms ==
    \A j, k \in DOMAIN windows :
        j # k /\ windows[j].id = windows[k].id => "host" \in {windows[j].opener, windows[k].opener}

\* No two windows are at one height, but those the host opened and nobody
\* raised: whoever creates or raises, by whatever way, goes on top.
HeightsDiffer ==
    \A j, k \in DOMAIN windows :
        j # k /\ windows[j].z_order = windows[k].z_order => windows[j].z_order = 0

\* Windows, slots and tracked applications agree, however applications end.
AppsSound ==
    /\ TypeOK
    /\ WindowsHaveApp /\ OwnCode /\ SlotsApart
    /\ ActiveBounded /\ IdsOfPrograms /\ HeightsDiffer
=============================================================================
