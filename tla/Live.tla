-------------------------------- MODULE Live --------------------------------
(***************************************************************************)
(* A RISC-V guest that runs in a thread of its own beside the GUI thread   *)
(* (src/src/riscv/live.rs), and the part of the host's main loop that      *)
(* starts, shows and stops it (src/src/main.rs).  The threads share three  *)
(* channels: controls to the guest, frames and status reports from it.     *)
(* The picture is the number of changes made to it since the boot.         *)
(***************************************************************************)
EXTENDS Integers, Sequences

CONSTANTS
    batch_size,      \* instructions between two looks at the controls
    MaxGuests,       \* bound: guests launched
    MaxCalls,        \* bound: controls sent by the user, all guests together
    MaxDraws,        \* bound: changes of the picture after a boot
    MaxFrames        \* bound: frames not yet received

VARIABLES
    guests,          \* guests launched so far
    gui,             \* where the GUI thread is
    after,           \* why it joins the guest's thread
    latest,          \* riscv_latest_frame, the picture shown; or NoFrame
    last_frame,      \* the handle's
    told,            \* the handle's `paused`
    thread,          \* where the guest's thread is; "none" without a handle
    paused, left,    \* its `paused`, and the steps left in the batch
    boot, pixels,    \* boots of this guest, and its picture
    rx_buf,          \* the UART's bytes not yet read
    control, frames, status,                         \* the channels
    calls, typed,    \* controls sent, and bytes among them for this guest
    asked,           \* the last of pause, resume and reset for this guest
    killed,          \* guests the user stopped
    since            \* the picture when the snapshot was called

handle == <<last_frame, told>>
machine == <<paused, left, boot, pixels, rx_buf>>
ghosts == <<typed, asked, killed, since>>
vars == <<guests, gui, after, latest, handle, thread, machine, control, frames,
          status, calls, ghosts>>

NoFrame == [guest |-> 0, boot |-> 0, pixels |-> 0]
Frame == [guest |-> guests, boot |-> boot, pixels |-> pixels]
Frames == [guest: 0 .. MaxGuests, boot: 0 .. MaxCalls + 1, pixels: 0 .. MaxDraws]
Alive == thread \in {"load", "head", "batch"}

Init == /\ guests = 0 /\ gui = "idle" /\ after = "none" /\ latest = NoFrame
        /\ last_frame = NoFrame /\ told = FALSE
        /\ thread = "none" /\ paused = FALSE /\ left = 0 /\ boot = 0 /\ pixels = 0
        /\ rx_buf = <<>> /\ control = <<>> /\ frames = <<>> /\ status = <<>>
        /\ calls = 0 /\ typed = 0 /\ asked = "resume" /\ killed = {} /\ since = NoFrame
-----------------------------------------------------------------------------
(* The GUI thread's calls.  With the guest's thread gone, nothing is left   *)
(* to receive a control.                                                   *)
Sent(op, byte) ==
    IF thread \in {"leaving", "ended"} THEN control
    ELSE Append(control, [op |-> op, byte |-> byte])

Idle == gui = "idle" /\ thread # "none"
MayCall == Idle /\ calls < MaxCalls

SendInput ==
    /\ MayCall
    /\ calls' = calls + 1
    /\ typed' = typed + 1
    /\ control' = Sent("input", typed')
    /\ UNCHANGED <<guests, gui, after, latest, handle, thread, machine, frames,
                   status, asked, killed, since>>

\* pause, resume, reset: the last does not touch the handle's `paused`.
ToldAfter(op) == CASE op = "pause" -> TRUE [] op = "resume" -> FALSE [] OTHER -> told

Command(op) ==
    /\ MayCall
    /\ calls' = calls + 1
    /\ control' = Sent(op, 0)
    /\ told' = ToldAfter(op)
    /\ asked' = op
    /\ UNCHANGED <<guests, gui, after, latest, last_frame, thread, machine, frames,
                   status, typed, killed, since>>

\* snapshot: drain what is there, ask, wait for a frame.
SnapshotBegins ==
    /\ MayCall
    /\ calls' = calls + 1
    /\ gui' = "drain"
    /\ since' = Frame
    /\ UNCHANGED <<guests, after, latest, handle, thread, machine, control, frames,
                   status, typed, asked, killed>>

(* Mutant: what is there is taken as an answer. *)
DrainedAlready == TRUE
Drained == frames = <<>>

SnapshotDrains ==
    /\ gui = "drain"
    /\ IF Drained
       THEN gui' = "wait" /\ control' = Sent("snapshot", 0) /\ UNCHANGED frames
       ELSE frames' = Tail(frames) /\ UNCHANGED <<gui, control>>
    /\ UNCHANGED <<guests, after, latest, handle, thread, machine, status, calls, ghosts>>

\* With a frame it is the answer; without one the last answer is returned
\* after a timeout, and none when the thread has ended.
SnapshotWaits ==
    /\ gui = "wait"
    /\ gui' = "idle"
    /\ since' = NoFrame
    /\ IF frames # <<>>
       THEN last_frame' = Head(frames) /\ frames' = Tail(frames)
       ELSE UNCHANGED <<last_frame, frames>>
    /\ UNCHANGED <<guests, after, latest, told, thread, machine, control, status,
                   calls, typed, asked, killed>>

\* A dropped handle sends a shutdown and joins the thread.
Drops(why) ==
    /\ gui' = "join"
    /\ after' = why
    /\ control' = Sent("shutdown", 0)
    /\ killed' = IF why = "halted" THEN killed ELSE killed \union {guests}

\* riscv_kill, and riscv_run over a running guest.
Kill(why) ==
    /\ Idle
    /\ why = "launch" => guests < MaxGuests
    /\ Drops(why)
    /\ UNCHANGED <<guests, latest, handle, thread, machine, frames, status, calls,
                   typed, asked, since>>

\* What is shown when the handle is gone: a halted guest's last frame stays.
(* Mutant: the picture shown outlives its guest. *)
LatestAfterAny(why) == latest
LatestAfter(why) == IF why = "halted" THEN latest ELSE NoFrame

\* spawn_vm_thread: everything new but the picture shown.
Spawned ==
    /\ guests' = guests + 1
    /\ thread' = "load"
    /\ boot' = 1

Fresh == /\ last_frame' = NoFrame /\ told' = FALSE
         /\ paused' = FALSE /\ left' = 0 /\ pixels' = 0 /\ rx_buf' = <<>>
         /\ control' = <<>> /\ frames' = <<>> /\ status' = <<>>
         /\ typed' = 0 /\ asked' = "resume"

Launch ==
    /\ gui = "idle" /\ thread = "none" /\ guests < MaxGuests
    /\ Spawned /\ Fresh
    /\ UNCHANGED <<gui, after, latest, calls, killed, since>>

Joins ==
    /\ gui = "join" /\ thread = "ended"
    /\ gui' = "idle" /\ after' = "none"
    /\ latest' = LatestAfter(after)
    /\ Fresh
    /\ IF after = "launch"
       THEN Spawned
       ELSE thread' = "none" /\ boot' = 0 /\ UNCHANGED guests
    /\ UNCHANGED <<calls, killed, since>>

\* The main loop: all frames, of which the last is shown, then the reports.
PollBegins ==
    /\ Idle
    /\ gui' = "frames"
    /\ UNCHANGED <<guests, after, latest, handle, thread, machine, control, frames,
                   status, calls, ghosts>>

PollFrames ==
    /\ gui = "frames"
    /\ IF frames # <<>>
       THEN latest' = Head(frames) /\ frames' = Tail(frames) /\ UNCHANGED gui
       ELSE gui' = "status" /\ UNCHANGED <<latest, frames>>
    /\ UNCHANGED <<guests, after, handle, thread, machine, control, status, calls, ghosts>>

PollStatus ==
    /\ gui = "status"
    /\ IF status = <<>>
       THEN gui' = "idle" /\ UNCHANGED <<after, control, status, killed>>
       ELSE /\ status' = Tail(status)
            /\ IF Head(status) = "halted"
               THEN Drops("halted")
               ELSE UNCHANGED <<gui, after, control, killed>>
    /\ UNCHANGED <<guests, latest, handle, thread, machine, frames, calls, typed, asked,
                   since>>
-----------------------------------------------------------------------------
(* The guest's thread (vm_thread_main).                                    *)
gone == <<guests, gui, after, latest, handle, calls, ghosts>>

\* A report that the guest has halted, and the end of the loop.
(* Mutant: the host is not told. *)
EndsSilently == UNCHANGED status /\ thread' = "leaving"
Ends == status' = Append(status, "halted") /\ thread' = "leaving"

Loads ==
    /\ thread = "load"
    /\ \/ thread' = "head" /\ UNCHANGED status
       \/ Ends
    /\ UNCHANGED <<gone, machine, control, frames>>

Leaves ==
    /\ thread = "leaving"
    /\ thread' = "ended"
    /\ UNCHANGED <<gone, machine, control, frames, status>>

(* Mutant: the batch goes on where the last one stopped. *)
GoesOn(pausedNow) ==
    thread' = (IF pausedNow THEN "head" ELSE "batch") /\ left' = left

\* After the controls: another round when paused, else a batch.
Goes(pausedNow) == IF pausedNow THEN thread' = "head" /\ left' = left
                                ELSE thread' = "batch" /\ left' = batch_size

(* Mutant: a paused guest does not look. *)
AtControlsUnlessPaused == thread = "head" /\ ~paused
AtControls == thread = "head"
Takes(op) == AtControls /\ control # <<>> /\ Head(control).op = op /\ control' = Tail(control)

TakeNothing ==
    /\ AtControls /\ control = <<>>
    /\ Goes(paused)
    /\ UNCHANGED <<gone, paused, boot, pixels, rx_buf, control, frames, status>>

TakeShutdown ==
    /\ Takes("shutdown")
    /\ thread' = "leaving"
    /\ UNCHANGED <<gone, machine, frames, status>>

(* Mutant: a resume is forgotten. *)
PausedAfterAny(op) == op = "pause" \/ paused
PausedAfter(op) == op = "pause"

TakePause(op) ==
    /\ Takes(op)
    /\ paused' = PausedAfter(op)
    /\ status' = Append(status, op)
    /\ Goes(paused')
    /\ UNCHANGED <<gone, boot, pixels, rx_buf, frames>>

\* A new machine from the stored program, which loads as it did at first.
TakeReset ==
    /\ Takes("reset")
    /\ boot' = boot + 1 /\ pixels' = 0 /\ rx_buf' = <<>>
    /\ paused' = PausedAfter("reset")
    /\ status' = Append(status, "reset")
    /\ Goes(paused')
    /\ UNCHANGED <<gone, frames>>

receive_byte(byte) == Append(rx_buf, byte)
(* Mutant: the newest byte first. *)
read_byteLast == IF rx_buf = <<>> THEN rx_buf ELSE SubSeq(rx_buf, 1, Len(rx_buf) - 1)
read_byte == IF rx_buf = <<>> THEN rx_buf ELSE Tail(rx_buf)

TakeInput ==
    /\ Takes("input")
    /\ rx_buf' = receive_byte(Head(control).byte)
    /\ Goes(paused)
    /\ UNCHANGED <<gone, paused, boot, pixels, frames, status>>

TakeSnapshot ==
    /\ Takes("snapshot")
    /\ frames' = Append(frames, Frame)
    /\ Goes(paused)
    /\ UNCHANGED <<gone, paused, boot, pixels, rx_buf, status>>

\* One instruction of the batch: it draws, presents, reads or clears the
\* UART, does something else, or halts the guest.
Steps == /\ thread = "batch"
         /\ left' = left - 1
         /\ thread' = IF left = 1 THEN "head" ELSE "batch"
         /\ UNCHANGED <<gone, paused, boot, control, status>>

Draws == Steps /\ pixels < MaxDraws /\ pixels' = pixels + 1 /\ UNCHANGED <<rx_buf, frames>>
Presents ==
    Steps /\ Len(frames) < MaxFrames /\ frames' = Append(frames, Frame)
          /\ UNCHANGED <<pixels, rx_buf>>
Reads == Steps /\ rx_buf' \in {read_byte, <<>>} /\ UNCHANGED <<pixels, frames>>
Works == Steps /\ UNCHANGED <<pixels, rx_buf, frames>>
Halts == thread = "batch" /\ Ends /\ UNCHANGED <<gone, machine, control, frames>>
-----------------------------------------------------------------------------
User == \/ Launch \/ SendInput \/ SnapshotBegins
        \/ \E op \in {"pause", "resume", "reset"}: Command(op)
        \/ \E why \in {"kill", "launch"}: Kill(why)
Gui == PollBegins \/ PollFrames \/ PollStatus \/ SnapshotDrains \/ SnapshotWaits \/ Joins
Vm == \/ Loads \/ Leaves \/ TakeNothing \/ TakeShutdown \/ TakeReset \/ TakeInput
      \/ TakeSnapshot \/ (\E op \in {"pause", "resume"}: TakePause(op))
      \/ Draws \/ Presents \/ Reads \/ Works \/ Halts

Next == User \/ Gui \/ Vm
Spec == Init /\ [][Next]_vars

\* Both threads go on; the user need not.
Fairness == WF_vars(Gui) /\ WF_vars(Vm)
FairSpec == Spec /\ Fairness
-----------------------------------------------------------------------------
(* Properties.                                                             *)

\* Variables have their types, and the guest's thread exists while the GUI
\* thread works on its handle.
TypeOK ==
    /\ guests \in 0 .. MaxGuests /\ calls \in 0 .. MaxCalls /\ typed \in 0 .. MaxCalls
    /\ gui \in {"idle", "drain", "wait", "join", "frames", "status"}
    /\ after \in {"none", "kill", "launch", "halted"} /\ (after # "none" <=> gui = "join")
    /\ {latest, last_frame, since} \subseteq Frames
    /\ {told, paused} \subseteq BOOLEAN
    /\ thread \in {"none", "load", "head", "batch", "leaving", "ended"}
    /\ left \in 0 .. batch_size /\ (thread = "batch" => left > 0)
    /\ boot \in 0 .. MaxCalls + 1 /\ pixels \in 0 .. MaxDraws
    /\ \A i \in DOMAIN frames: frames[i] \in Frames
    /\ asked \in {"pause", "resume", "reset"} /\ killed \subseteq 1 .. MaxGuests
    /\ thread = "none" => gui = "idle" /\ control = <<>> /\ frames = <<>>

\* While a snapshot waits, every frame it may get as its answer shows the
\* picture as it was when the snapshot was called, or a later one: frames
\* presented or asked for earlier are drained (live.rs, snapshot).
Older(f, g) == f.boot < g.boot \/ (f.boot = g.boot /\ f.pixels < g.pixels)
AnswersAreRecent ==
    gui = "wait" => \A i \in DOMAIN frames: ~Older(frames[i], since)

\* The bytes typed for a guest wait in the order typed, up to some byte k in
\* the UART and from there to the last one in the channel, with no gap and
\* none twice (Input, receive_byte).
Inputs == {i \in DOMAIN control: control[i].op = "input"}
InputInOrder ==
    Alive => \E k \in 0 .. typed:
        /\ \A i \in DOMAIN rx_buf: rx_buf[i] = k - Len(rx_buf) + i
        /\ {control[i].byte: i \in Inputs} = k + 1 .. typed
        /\ \A i, j \in Inputs: i < j => control[i].byte < control[j].byte

\* The handle's `paused` is what the guest's thread will be at when it has
\* taken the controls on their way, unless a reset was the last command.
Commands == {i \in DOMAIN control: control[i].op \in {"pause", "resume", "reset"}}
PausedAsTold ==
    Alive /\ asked # "reset" =>
        \/ Commands = {} /\ told = paused
        \/ \E i \in Commands: /\ \A j \in Commands: j <= i
                              /\ told = (control[i].op = "pause")

\* The picture shown is never one of a guest the user has stopped or replaced,
\* once that guest's thread is joined (main.rs, riscv_kill and riscv_run).
KilledGuestsGone == gui # "join" => latest.guest \notin killed

\* What the two threads know of each other is never out of date.
GuestSound ==
    TypeOK /\ AnswersAreRecent /\ InputInOrder /\ PausedAsTold /\ KilledGuestsGone

\* The GUI thread never hangs in the join of a dropped handle: the guest's
\* thread looks at its controls after every batch, paused or not.
ShutdownReturns == (gui = "join") ~> (gui # "join")

\* A guest that has ended is noticed by the main loop and its handle dropped.
HaltNoticed == (thread = "ended") ~> (thread # "ended")

\* Neither thread is left waiting for the other.
GuestsEnd == ShutdownReturns /\ HaltNoticed
=============================================================================
