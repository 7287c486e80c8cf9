-------------------------------- MODULE Pty --------------------------------
(***************************************************************************)
(* Terminals of host programs (vm/ops_pty.rs).  A slot owns a child behind *)
(* a pseudo-terminal; a reader thread forwards the child's output into a   *)
(* channel that PTYREAD drains one byte at a time, and sets closed_flag    *)
(* when the output has ended.  The VM, the reader threads and the children *)
(* run concurrently: one action is one step of one of them.                *)
(*                                                                         *)
(* A session is one child with its reader, from PTYOPEN on; it outlives    *)
(* the slot.  The bytes of a session are numbered as they are written.     *)
(* Sizes set by PTYSIZE are left out: they change nothing here.            *)
(***************************************************************************)
EXTENDS Naturals, Sequences

CONSTANTS
    MAX_PTY_SLOTS,  \* slots (4)
    BufSize,        \* bytes the reader takes at a time (1024)
    MaxTransfer,    \* bytes of one PTYREAD or PTYWRITE (4096)
    TtyInput,       \* bytes of input the host's terminal holds
    TtyOutput,      \* bytes of output it holds
    MaxSessions,    \* bound: PTYOPENs that succeed
    MaxBytes        \* bound: bytes each child writes

ASSUME PtyAssumption ==
    /\ {MAX_PTY_SLOTS, BufSize, MaxTransfer, TtyInput, TtyOutput} \subseteq Nat \ {0}
    /\ MaxSessions \in Nat /\ MaxBytes \in [1 .. MaxSessions -> Nat]

VARIABLES
    pty_slots,  \* the session in each slot, 0 for a free slot
    session,    \* the sessions, opened or not
    vm          \* the opcode in progress

vars == <<pty_slots, session, vm>>
-----------------------------------------------------------------------------
Handles == 0 .. MAX_PTY_SLOTS - 1
Sessions == 1 .. MaxSessions
NoSession == 0

Idle == [op |-> "idle", s |-> NoSession, max |-> 0, done |-> 0]

Unopened ==
    [child |-> "none", reader |-> "none", input |-> 0, output |-> << >>,
     buf |-> << >>, channel |-> << >>, closed_flag |-> FALSE, made |-> 0,
     got |-> << >>, ends |-> 0]

Init ==
    /\ pty_slots = [h \in Handles |-> NoSession]
    /\ session = [s \in Sessions |-> Unopened]
    /\ vm = Idle

InSlot(s) == \E h \in Handles : pty_slots[h] = s

Fresh == {s \in Sessions : session[s].child = "none"}

Free == {h \in Handles : pty_slots[h] = NoSession}
-----------------------------------------------------------------------------
(* The opcodes. *)

(* The newline that spawn() writes wakes the shell up. *)
PtyOpen ==
    /\ vm = Idle /\ Fresh # {} /\ Free # {}
    /\ LET s == CHOOSE s \in Fresh : \A t \in Fresh : s <= t
           h == CHOOSE h \in Free : \A g \in Free : h <= g
       IN  /\ pty_slots' = [pty_slots EXCEPT ![h] = s]
           /\ session' = [session EXCEPT ![s].child = "runs", ![s].reader = "reads",
                                         ![s].input = 1]
    /\ UNCHANGED vm

(* The bytes go one by one to a terminal that may be full. *)
WriteBegin(h, len) ==
    /\ vm = Idle /\ pty_slots[h] # NoSession
    /\ vm' = [op |-> "write", s |-> pty_slots[h], max |-> len, done |-> 0]
    /\ UNCHANGED <<pty_slots, session>>

WriteByte ==
    /\ vm.op = "write" /\ vm.done < vm.max
    /\ \/ session[vm.s].child = "exited" /\ UNCHANGED session
       \/ /\ session[vm.s].child = "runs" /\ session[vm.s].input < TtyInput
          /\ session' = [session EXCEPT ![vm.s].input = @ + 1]
    /\ vm' = [vm EXCEPT !.done = @ + 1]
    /\ UNCHANGED pty_slots

WriteEnd ==
    /\ vm.op = "write" /\ vm.done = vm.max
    /\ vm' = Idle
    /\ UNCHANGED <<pty_slots, session>>

ReadBegin(h, max_len) ==
    /\ vm = Idle /\ pty_slots[h] # NoSession
    /\ vm' = [op |-> "read", s |-> pty_slots[h], max |-> max_len, done |-> 0]
    /\ UNCHANGED <<pty_slots, session>>

(* Mutant: one byte too many. *)
WantsMoreThanMax == vm.done <= vm.max

WantsMore == vm.done < vm.max

(* One try_recv that finds a byte. *)
Recv ==
    /\ vm.op = "read" /\ WantsMore
    /\ session[vm.s].channel # << >>
    /\ session' = [session EXCEPT
                    ![vm.s].got = Append(@, Head(session[vm.s].channel)),
                    ![vm.s].channel = Tail(@)]
    /\ vm' = [vm EXCEPT !.done = @ + 1]
    /\ UNCHANGED pty_slots

(* Leaves the loop: enough bytes, or a try_recv that finds none. *)
RecvStop ==
    /\ vm.op = "read"
    /\ WantsMore => session[vm.s].channel = << >>
    /\ vm' = [vm EXCEPT !.op = "check"]
    /\ UNCHANGED <<pty_slots, session>>

(* Mutant: the flag alone decides, whatever was read. *)
ReportsEndFlagOnly == session[vm.s].closed_flag

ReportsEnd == vm.done = 0 /\ session[vm.s].closed_flag

(* The look at closed_flag.  `ends` counts the reports of the end in a row, *)
(* those of a PTYREAD that asked for no byte left aside.                    *)
ReadEnd ==
    /\ vm.op = "check"
    /\ session' = [session EXCEPT ![vm.s].ends =
                     CASE vm.max = 0 -> @
                       [] vm.max > 0 /\ ReportsEnd -> IF @ = 2 THEN 2 ELSE @ + 1
                       [] OTHER -> 0]
    /\ vm' = Idle
    /\ UNCHANGED pty_slots

(* Drops the slot: the channel's receiver, the child's handle, the writer. *)
PtyClose(h) ==
    /\ vm = Idle /\ pty_slots[h] # NoSession
    /\ session' = [session EXCEPT ![pty_slots[h]].channel = << >>]
    /\ pty_slots' = [pty_slots EXCEPT ![h] = NoSession]
    /\ UNCHANGED vm
-----------------------------------------------------------------------------
(* The reader thread. *)

(* Mutant: takes nothing more until the guest has read. *)
TakeWhenRead(s) ==
    /\ session[s].reader = "reads" /\ session[s].buf = << >>
    /\ InSlot(s) => session[s].channel = << >>
    /\ \E n \in 1 .. BufSize :
        /\ n <= Len(session[s].output)
        /\ session' = [session EXCEPT
                         ![s].buf = SubSeq(session[s].output, 1, n),
                         ![s].output = SubSeq(@, n + 1, Len(@))]
    /\ UNCHANGED <<pty_slots, vm>>

Take(s) ==
    /\ session[s].reader = "reads" /\ session[s].buf = << >>
    /\ \E n \in 1 .. BufSize :
        /\ n <= Len(session[s].output)
        /\ session' = [session EXCEPT
                         ![s].buf = SubSeq(session[s].output, 1, n),
                         ![s].output = SubSeq(@, n + 1, Len(@))]
    /\ UNCHANGED <<pty_slots, vm>>

(* Mutant: the rest of a chunk is dropped. *)
SendFirst(s) ==
    /\ session[s].reader = "reads" /\ session[s].buf # << >>
    /\ session' = [session EXCEPT
                     ![s].channel = IF InSlot(s) THEN Append(@, Head(session[s].buf)) ELSE @,
                     ![s].buf = << >>,
                     ![s].reader = IF InSlot(s) THEN @ ELSE "ended"]
    /\ UNCHANGED <<pty_slots, vm>>

(* send fails, and the thread ends, when the receiver was dropped. *)
Send(s) ==
    /\ session[s].reader = "reads" /\ session[s].buf # << >>
    /\ session' = [session EXCEPT
                     ![s].channel = IF InSlot(s) THEN Append(@, Head(session[s].buf)) ELSE @,
                     ![s].buf = IF InSlot(s) THEN Tail(@) ELSE << >>,
                     ![s].reader = IF InSlot(s) THEN @ ELSE "ended"]
    /\ UNCHANGED <<pty_slots, vm>>

(* Mutant: only a read of 0 bytes sets the flag, and an error ends the thread. *)
EndOfOutputUnflagged(s) ==
    /\ session[s].reader = "reads" /\ session[s].buf = << >>
    /\ session[s].child = "exited" /\ session[s].output = << >>
    /\ session' = [session EXCEPT ![s].reader = "ended"]
    /\ UNCHANGED <<pty_slots, vm>>

(* read returns 0 or an error: no process has the terminal any more. *)
EndOfOutput(s) ==
    /\ session[s].reader = "reads" /\ session[s].buf = << >>
    /\ session[s].child = "exited" /\ session[s].output = << >>
    /\ session' = [session EXCEPT ![s].closed_flag = TRUE, ![s].reader = "ended"]
    /\ UNCHANGED <<pty_slots, vm>>

Reader(s) == Take(s) \/ Send(s) \/ EndOfOutput(s)
-----------------------------------------------------------------------------
(* The host's child: reads input, writes output, exits when it likes. *)

Consume(s) ==
    /\ session[s].child = "runs" /\ session[s].input > 0
    /\ \/ /\ session[s].made < MaxBytes[s] /\ Len(session[s].output) < TtyOutput
          /\ session' = [session EXCEPT ![s].input = @ - 1, ![s].made = @ + 1,
                                        ![s].output = Append(@, session[s].made + 1)]
       \/ /\ session[s].made = MaxBytes[s]
          /\ session' = [session EXCEPT ![s].input = @ - 1]
    /\ UNCHANGED <<pty_slots, vm>>

Emit(s) ==
    /\ session[s].child = "runs"
    /\ session[s].made < MaxBytes[s] /\ Len(session[s].output) < TtyOutput
    /\ session' = [session EXCEPT ![s].made = @ + 1,
                                  ![s].output = Append(@, session[s].made + 1)]
    /\ UNCHANGED <<pty_slots, vm>>

ChildExits(s) ==
    /\ session[s].child = "runs"
    /\ session' = [session EXCEPT ![s].child = "exited", ![s].input = 0]
    /\ UNCHANGED <<pty_slots, vm>>

(* The last master end is closed with the reader's: the child is hung up. *)
HungUp(s) == ~InSlot(s) /\ session[s].reader = "ended" /\ ChildExits(s)

Opcode ==
    \/ PtyOpen
    \/ \E h \in Handles, len \in 0 .. MaxTransfer : WriteBegin(h, len)
    \/ \E h \in Handles, max_len \in 0 .. MaxTransfer : ReadBegin(h, max_len)
    \/ \E h \in Handles : PtyClose(h)

InOpcode == WriteByte \/ WriteEnd \/ Recv \/ RecvStop \/ ReadEnd

Next ==
    \/ Opcode \/ InOpcode
    \/ \E s \in Sessions : Reader(s) \/ Consume(s) \/ Emit(s) \/ ChildExits(s)

Spec == Init /\ [][Next]_vars

(* The threads and the VM run: an opcode goes on when it can, a reader     *)
(* takes, sends and ends, a child that is sent input reads it or exits, and *)
(* one that is hung up exits.  Nothing makes a child write or exit on its   *)
(* own, and nothing makes the guest execute another opcode.                *)
Fairness ==
    /\ WF_vars(InOpcode)
    /\ \A s \in Sessions : WF_vars(Reader(s)) /\ WF_vars(Consume(s)) /\ WF_vars(HungUp(s))

FairSpec == Spec /\ Fairness
-----------------------------------------------------------------------------
Bytes == Seq(Nat)

TypeOK ==
    /\ pty_slots \in [Handles -> Sessions \cup {NoSession}]
    /\ session \in [Sessions ->
         [child : {"none", "runs", "exited"}, reader : {"none", "reads", "ended"},
          input : 0 .. TtyInput, output : Bytes, buf : Bytes, channel : Bytes,
          closed_flag : BOOLEAN, made : Nat, got : Bytes, ends : 0 .. 2]]
    /\ vm \in [op : {"idle", "write", "read", "check"}, s : Sessions \cup {NoSession},
               max : 0 .. MaxTransfer, done : 0 .. MaxTransfer]

Written(s) == [k \in 1 .. session[s].made |-> k]

\* What a guest reads from a terminal is what its child wrote, in order, with
\* nothing lost, doubled or left over from the slot's former session: while
\* the slot is open the bytes are either read or on their way.
BytesInOrder ==
    \A s \in Sessions : InSlot(s) =>
        session[s].got \o session[s].channel \o session[s].buf \o session[s].output = Written(s)

\* The terminals are well typed, and each delivers its child's bytes in order.
StreamsSound == TypeOK /\ BytesInOrder

\* PTYREAD may report the end although bytes are left: they arrived, with the
\* flag, between its last try_recv and its look at the flag.  A second report
\* in a row is the end indeed: the child has exited and all it wrote was read.
SecondEndIsTheEnd ==
    \A s \in Sessions : InSlot(s) /\ session[s].ends = 2 =>
        session[s].child = "exited" /\ session[s].got = Written(s)

\* PTYWRITE returns although the guest, being in PTYWRITE, reads nothing: the
\* reader thread drains the echo, so the child and the VM do not wait for
\* each other with both directions of the terminal full.
WriteReturns == vm.op = "write" ~> vm.op # "write"

\* The end of a child becomes known: once it has exited, the reader sets the
\* flag, unless the slot was dropped.
EndBecomesKnown ==
    \A s \in Sessions :
        session[s].child = "exited" ~> session[s].closed_flag \/ ~InSlot(s)

\* Nobody waits for ever at a terminal: not the VM in PTYWRITE, nor a program
\* that polls for the end of its child.
NobodyWaits == WriteReturns /\ EndBecomesKnown
=============================================================================
