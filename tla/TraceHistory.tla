---------------------------- MODULE TraceHistory ----------------------------
(***************************************************************************)
(* What recording promises, without rings: each log is a sequence, oldest  *)
(* entry first, that takes new entries at its end and forgets its oldest   *)
(* when it is full, and nothing else.  Instructions, frames and pixels are *)
(* logged only while recording; a replay shows a frame still held.         *)
(***************************************************************************)
EXTENDS Naturals, Sequences

CONSTANTS TRACE_CAPACITY, FRAME_CAPACITY, PIXEL_CAPACITY, Pixel, Color, Opcode, Blank

VARIABLES
    recording, steps, era,      \* the number of the next step, and of the restarts of the count
    trace, frames, pixels, screen

vars == <<recording, steps, era, trace, frames, pixels, screen>>

Init ==
    /\ recording = FALSE
    /\ steps = 0 /\ era = 0
    /\ trace = << >> /\ frames = << >> /\ pixels = << >>
    /\ screen = Blank

(* The log with e at its end, at most n entries long. *)
Remember(log, e, n) == Append(IF Len(log) < n THEN log ELSE Tail(log), e)

(* An instruction is logged under the next number, or not at all. *)
Execute(op) ==
    /\ trace' = IF recording
                  THEN Remember(trace, [step_number |-> steps, opcode |-> op], TRACE_CAPACITY)
                  ELSE trace
    /\ steps' = IF recording THEN steps + 1 ELSE steps
    /\ UNCHANGED <<recording, era>>

(* It writes one pixel, logged under the instruction's own number. *)
Paint(op, p, c) ==
    /\ Execute(op)
    /\ screen' = [screen EXCEPT ![p] = c]
    /\ pixels' = IF recording
                   THEN Remember(pixels, [step_number |-> steps, opcode |-> op, pixel |-> p,
                                          color |-> c, era |-> era], PIXEL_CAPACITY)
                   ELSE pixels
    /\ UNCHANGED frames

(* It ends a frame: the screen is logged as it was, under the next number. *)
Frame ==
    /\ Execute("FRAME")
    /\ frames' = IF recording
                   THEN Remember(frames, [step_number |-> steps + 1, screen |-> screen,
                                          era |-> era], FRAME_CAPACITY)
                   ELSE frames
    /\ screen' \in [Pixel -> Color]
    /\ UNCHANGED pixels

(* It shows a frame of the log, or leaves the screen alone. *)
Replay ==
    /\ Execute("REPLAY")
    /\ \/ \E i \in 1 .. Len(frames) : screen' = frames[i].screen
       \/ UNCHANGED screen
    /\ UNCHANGED <<frames, pixels>>

(* It draws what no log holds, or leaves the screen alone. *)
Draw(op) ==
    /\ Execute(op)
    /\ screen' \in [Pixel -> Color]
    /\ UNCHANGED <<frames, pixels>>

(* Recording starts or stops, which is itself an instruction; stopping may *)
(* drop the trace and start the count again, the frames and pixels stay.   *)
Switch ==
    /\ \/ /\ trace' = IF recording
                        THEN Remember(trace, [step_number |-> steps, opcode |-> "SNAP_TRACE"],
                                      TRACE_CAPACITY)
                        ELSE trace
          /\ steps' = IF recording THEN steps + 1 ELSE steps
          /\ recording' \in BOOLEAN
          /\ UNCHANGED era
       \/ /\ recording' = FALSE
          /\ trace' = << >> /\ steps' = 0
          /\ era' = era + 1
    /\ UNCHANGED <<frames, pixels, screen>>

(* Everything is dropped. *)
Restart ==
    /\ recording' = FALSE
    /\ steps' = 0
    /\ era' = 0
    /\ trace' = << >> /\ frames' = << >> /\ pixels' = << >>
    /\ screen' = Blank

Next ==
    \/ \E op \in Opcode, p \in Pixel, c \in Color : Paint(op, p, c)
    \/ \E op \in Opcode \ {"REPLAY"} : Draw(op)
    \/ Frame
    \/ Replay
    \/ Switch
    \/ Restart

Spec == Init /\ [][Next]_vars
=============================================================================
