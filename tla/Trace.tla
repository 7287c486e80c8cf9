-------------------------------- MODULE Trace -------------------------------
(***************************************************************************)
(* What the VM records while it runs (vm/trace.rs and the opcodes that use *)
(* it): every executed instruction, a copy of the screen at every FRAME,   *)
(* every pixel written by PSET or PSETI, and the snapshots of FORK.  The   *)
(* three recordings share one step number, kept by the trace.              *)
(*                                                                         *)
(* A trace entry keeps the opcode; pc and registers are left out.  The     *)
(* screen is a colour for each pixel.  The field era of an entry and the   *)
(* variables era and steady are history variables the code does not have.  *)
(***************************************************************************)
EXTENDS Ring, Integers

CONSTANTS
    TRACE_CAPACITY, FRAME_CAPACITY, PIXEL_CAPACITY,
    MAX_SNAPSHOTS,
    Pixel, Color, Black,
    MaxSteps,       \* bound: steps recorded before the first clear, one less after each
    MaxEras         \* bound: clears of the trace

ASSUME TraceAssumption ==
    /\ {TRACE_CAPACITY, FRAME_CAPACITY, PIXEL_CAPACITY} \subseteq Nat \ {0}
    /\ {MAX_SNAPSHOTS, MaxSteps, MaxEras} \subseteq Nat
    /\ Black \in Color

(* PSET stands for PSETI too, DRAW for every opcode that draws without a   *)
(* log entry, OTHER for all that touch none of this.                       *)
Opcode == {"PSET", "FRAME", "DRAW", "SNAP_TRACE", "REPLAY", "FORK", "OTHER"}

VARIABLES
    trace_recording,
    trace_buffer,       \* ring of [step_number, opcode]
    step_counter,
    frame_checkpoints,  \* ring of [step_number, screen]
    pixel_write_log,    \* ring of [step_number, opcode, pixel, color]
    snapshots,          \* the screens of the snapshots taken by FORK
    screen,
    era,                \* times the trace was cleared
    steady              \* since the last checkpoint, only recorded pixels changed the screen

vars == <<trace_recording, trace_buffer, step_counter, frame_checkpoints,
          pixel_write_log, snapshots, screen, era, steady>>

Screens == [Pixel -> Color]
TraceEntry == [step_number : Nat, opcode : Opcode]
FrameCheckpoint == [step_number : Nat, screen : Screens, era : Nat]
PixelWriteEntry ==
    [step_number : Nat, opcode : {"PSET"}, pixel : Pixel, color : Color, era : Nat]

BlackScreen == [p \in Pixel |-> Black]

Init ==
    /\ trace_recording = FALSE
    /\ trace_buffer = NewRing(TRACE_CAPACITY)
    /\ step_counter = 0
    /\ frame_checkpoints = NewRing(FRAME_CAPACITY)
    /\ pixel_write_log = NewRing(PIXEL_CAPACITY)
    /\ snapshots = << >>
    /\ screen = BlackScreen
    /\ era = 0
    /\ steady = FALSE
-----------------------------------------------------------------------------
(* TraceBuffer::push, as step() calls it before the instruction runs: the  *)
(* ring and the step counter afterwards.                                   *)
Pushed(op) == push(trace_buffer, [step_number |-> step_counter, opcode |-> op])
Recorded(op) == IF trace_recording THEN Pushed(op) ELSE trace_buffer
Counted == IF trace_recording THEN step_counter + 1 ELSE step_counter

(* Any instruction but SNAP_TRACE leaves the trace as its fetch made it.   *)
Fetch(op) ==
    /\ trace_recording => step_counter + era < MaxSteps
    /\ trace_buffer' = Recorded(op)
    /\ step_counter' = Counted
    /\ UNCHANGED <<trace_recording, era>>

(* Mutant: numbered as the instruction after this one. *)
PixelStepNext == step_counter'

(* The step a pixel write is logged under: the counter has passed it.      *)
PixelStep == IF step_counter' = 0 THEN 0 ELSE step_counter' - 1

(* PSET and PSETI with coordinates on the screen. *)
PSET(p, c) ==
    /\ Fetch("PSET")
    /\ screen' = [screen EXCEPT ![p] = c]
    /\ pixel_write_log' =
         IF trace_recording
           THEN push(pixel_write_log, [step_number |-> PixelStep, opcode |-> "PSET",
                                       pixel |-> p, color |-> c, era |-> era])
           ELSE pixel_write_log
    /\ steady' = (steady /\ (trace_recording \/ screen' = screen))
    /\ UNCHANGED <<frame_checkpoints, snapshots>>

(* Mutant: the number the instruction after the next will get. *)
FrameStepLate == step_counter' + 1

(* Mutant: the number of FRAME itself. *)
FrameStepOwn == step_counter

(* The step a checkpoint is taken under: the one after FRAME itself.       *)
FrameStep == step_counter'

(* Mutant: copied after the windows are drawn. *)
CopiedAfter(s) == s

(* FRAME copies the screen as the program drew it, s is what blit_windows  *)
(* then makes of it.                                                       *)
Copied(s) == screen

FRAME(s) ==
    /\ Fetch("FRAME")
    /\ frame_checkpoints' =
         IF trace_recording
           THEN push(frame_checkpoints, [step_number |-> FrameStep, screen |-> Copied(s), era |-> era])
           ELSE frame_checkpoints
    /\ screen' = s
    /\ steady' = ((steady \/ trace_recording) /\ screen' = screen)
    /\ UNCHANGED <<pixel_write_log, snapshots>>

(* FILL, RECTF, TEXT and the other opcodes that draw without an entry.     *)
Draw(s) ==
    /\ Fetch("DRAW")
    /\ screen' = s
    /\ steady' = (steady /\ screen' = screen)
    /\ UNCHANGED <<frame_checkpoints, pixel_write_log, snapshots>>

(* Every other instruction, TRACE_READ and PIXEL_HISTORY included.         *)
Other ==
    /\ Fetch("OTHER")
    /\ UNCHANGED <<frame_checkpoints, pixel_write_log, snapshots, screen, steady>>

(* SNAP_TRACE: 0 stops, 1 starts, 2 stops and clears the trace, the entry  *)
(* of this very instruction with it.  Checkpoints and pixels stay.         *)
SNAP_TRACE(mode) ==
    /\ trace_recording => step_counter + era < MaxSteps
    /\ trace_recording' = (mode = 1)
    /\ mode = 2 => era < MaxEras
    /\ trace_buffer' = IF mode = 2 THEN clear(Recorded("SNAP_TRACE")) ELSE Recorded("SNAP_TRACE")
    /\ step_counter' = IF mode = 2 THEN 0 ELSE Counted
    /\ era' = IF mode = 2 THEN era + 1 ELSE era
    /\ steady' = (steady /\ mode # 2)
    /\ UNCHANGED <<frame_checkpoints, pixel_write_log, snapshots, screen>>

(* REPLAY: the screen of the checkpoint with that many after it, if any.   *)
REPLAY(idx) ==
    /\ Fetch("REPLAY")
    /\ screen' = IF idx < frame_checkpoints.len
                   THEN get_recent(frame_checkpoints, idx).screen
                   ELSE screen
    /\ steady' = (steady /\ screen' = screen)
    /\ UNCHANGED <<frame_checkpoints, pixel_write_log, snapshots>>

(* Mutant: one snapshot too many. *)
RoomForOneMore == Len(snapshots) <= MAX_SNAPSHOTS

Room == Len(snapshots) < MAX_SNAPSHOTS

(* FORK, mode 0: save; mode 1: restore a slot; mode 3: drop all.  Of a     *)
(* snapshot only the screen matters here: the recordings are not part of   *)
(* it and keep going after a restore.                                      *)
ForkSave ==
    /\ Fetch("FORK")
    /\ snapshots' = IF Room THEN Append(snapshots, screen) ELSE snapshots
    /\ UNCHANGED <<frame_checkpoints, pixel_write_log, screen, steady>>

ForkRestore(slot) ==
    /\ Fetch("FORK")
    /\ screen' = IF slot < Len(snapshots) THEN snapshots[slot + 1] ELSE screen
    /\ steady' = (steady /\ screen' = screen)
    /\ UNCHANGED <<frame_checkpoints, pixel_write_log, snapshots>>

ForkClear ==
    /\ Fetch("FORK")
    /\ snapshots' = << >>
    /\ UNCHANGED <<frame_checkpoints, pixel_write_log, screen, steady>>

(* Vm::reset, called by the host: no entry outlives it. *)
Reset ==
    /\ trace_recording' = FALSE
    /\ trace_buffer' = clear(trace_buffer)
    /\ step_counter' = 0
    /\ frame_checkpoints' = clear(frame_checkpoints)
    /\ pixel_write_log' = clear(pixel_write_log)
    /\ snapshots' = << >>
    /\ screen' = BlackScreen
    /\ era' = 0
    /\ steady' = FALSE

Next ==
    \/ \E p \in Pixel, c \in Color : PSET(p, c)
    \/ \E s \in Screens : FRAME(s) \/ Draw(s)
    \/ Other
    \/ \E mode \in 0 .. 2 : SNAP_TRACE(mode)
    \/ \E idx \in 0 .. FRAME_CAPACITY : REPLAY(idx)
    \/ ForkSave
    \/ \E slot \in 0 .. MAX_SNAPSHOTS : ForkRestore(slot)
    \/ ForkClear
    \/ Reset

Spec == Init /\ [][Next]_vars
-----------------------------------------------------------------------------
TypeOK ==
    /\ trace_recording \in BOOLEAN
    /\ IsRing(trace_buffer, TRACE_CAPACITY, TraceEntry)
    /\ step_counter \in Nat
    /\ IsRing(frame_checkpoints, FRAME_CAPACITY, FrameCheckpoint)
    /\ IsRing(pixel_write_log, PIXEL_CAPACITY, PixelWriteEntry)
    /\ snapshots \in Seq(Screens)
    /\ Len(snapshots) <= MAX_SNAPSHOTS
    /\ screen \in Screens
    /\ era \in Nat
    /\ steady \in BOOLEAN

\* The entries a program reads with TRACE_READ are the last instructions
\* recorded: their step numbers follow each other without a gap and end at
\* the step counter, wherever the ring wrapped.
StepsFollow ==
    \A i \in 1 .. trace_buffer.len :
        iter(trace_buffer)[i].step_number = step_counter - trace_buffer.len + i - 1

\* The step of a pixel write names, in the trace, the instruction that wrote
\* it, as long as the trace has not been cleared since (after a clear the
\* numbers start again while the pixel log keeps the old ones).
PixelStepsMatch ==
    \A i \in 1 .. pixel_write_log.len, j \in 1 .. trace_buffer.len :
        LET write == iter(pixel_write_log)[i]
            instr == iter(trace_buffer)[j]
        IN  write.era = era /\ write.step_number = instr.step_number
              => write.opcode = instr.opcode

\* A checkpoint carries the step number after that of its FRAME: the
\* instruction before it in the trace, if still there, is a FRAME.
FrameStepsMatch ==
    \A i \in 1 .. frame_checkpoints.len, j \in 1 .. trace_buffer.len :
        LET frame == iter(frame_checkpoints)[i]
            instr == iter(trace_buffer)[j]
        IN  frame.era = era /\ frame.step_number = instr.step_number + 1
              => instr.opcode = "FRAME"

\* The numbers in the three recordings are about the same instructions.
StepsSound == TypeOK /\ StepsFollow /\ PixelStepsMatch /\ FrameStepsMatch

(* The newest checkpoint, with the pixels logged from its step on.         *)
Rebuilt ==
    LET frame == get_recent(frame_checkpoints, 0)
        later(p) == {i \in 1 .. pixel_write_log.len :
                       LET write == iter(pixel_write_log)[i]
                       IN  /\ write.era = frame.era
                           /\ write.step_number >= frame.step_number
                           /\ write.pixel = p}
    IN  [p \in Pixel |->
           IF later(p) = {} THEN frame.screen[p]
           ELSE LET newest == CHOOSE i \in later(p) : \A k \in later(p) : k <= i
                IN  iter(pixel_write_log)[newest].color]

(* The log still holds every pixel written since the newest checkpoint.   *)
LogReachesBack ==
    \/ pixel_write_log.len < PIXEL_CAPACITY
    \/ LET oldest == get_at(pixel_write_log, 0)
           frame == get_recent(frame_checkpoints, 0)
       IN  oldest.era # frame.era \/ oldest.step_number < frame.step_number

\* The recordings together give the screen back: the newest checkpoint with
\* the logged pixels laid over it is the screen, provided nothing drew past
\* the log since that FRAME and the log has not dropped any of them.
ScreenRebuilds == steady /\ LogReachesBack => screen = Rebuilt

History == INSTANCE TraceHistory WITH
    Blank <- BlackScreen, recording <- trace_recording, steps <- step_counter,
    trace <- iter(trace_buffer), frames <- iter(frame_checkpoints),
    pixels <- iter(pixel_write_log)

\* The three rings are windows on the recordings: each holds the last
\* entries up to its capacity, in order, and REPLAY counts back from the
\* newest, wherever the ring wrapped.
ImplementsHistory == History!Spec
=============================================================================
