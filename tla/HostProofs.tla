----------------------------- MODULE HostProofs -----------------------------
(***************************************************************************)
(* The parts of the host that run beside the VM.  Terminals: for any       *)
(* number of slots, buffers and terminals of any size, any number of       *)
(* sessions and children that write any amount.  The save file: for a VM   *)
(* and a canvas of any size.  A guest in a thread: for any number of       *)
(* guests, calls, frames and steps of a batch.  Windows: for any number of *)
(* slots, processes, windows, heights and launches.                        *)
(***************************************************************************)
EXTENDS MCHost, FiniteSetTheorems, SequenceTheorems, WellFoundedInduction, TLAPS

Session ==
    [child : {"none", "runs", "exited"}, reader : {"none", "reads", "ended"},
     input : 0 .. TtyInput, output : Bytes, buf : Bytes, channel : Bytes,
     closed_flag : BOOLEAN, made : Nat, got : Bytes, ends : 0 .. 2]

InOrder(r) ==
    r.got \o r.channel \o r.buf \o r.output = [k \in 1 .. r.made |-> k]

(* A session by itself; shown says whether a slot has it.  Once the flag is *)
(* set nothing more comes, and the report of an end needs the flag.        *)
SessionSound(r, shown) ==
    /\ r \in Session
    /\ r.child = "none" => r = Unopened
    /\ r.closed_flag => r.child = "exited" /\ r.output = << >> /\ r.buf = << >>
                        /\ r.reader = "ended"
    /\ shown =>
        /\ r.child # "none" /\ InOrder(r)
        /\ r.ends >= 1 => r.closed_flag
        /\ r.ends = 2 => r.channel = << >>

(* An opcode works on a session that a slot has.  One that found nothing   *)
(* to read although the end had been reported has drained the channel.     *)
OpcodeSound ==
    /\ vm.op # "idle" => InSlot(vm.s) /\ vm.s \in Sessions
    /\ vm.op = "idle" => vm = Idle
    /\ vm.done <= vm.max
    /\ vm.op = "check" /\ vm.done = 0 /\ vm.max > 0 /\ session[vm.s].ends >= 1
          => session[vm.s].channel = << >>

PtyInv ==
    /\ TypeOK
    /\ \A s \in Sessions : SessionSound(session[s], InSlot(s))
    /\ \A g, h \in Handles : pty_slots[g] = pty_slots[h] /\ pty_slots[g] # NoSession => g = h
    /\ OpcodeSound
-----------------------------------------------------------------------------
(* A non-empty set of naturals has a least element.                        *)
LEMMA LeastNumber ==
    ASSUME NEW N \in SUBSET Nat, N # {}
    PROVE  \E n \in N : \A m \in N : n <= m
<1> DEFINE R == {ss \in Nat \X Nat : ss[1] < ss[2]}
<1>1. IsWellFoundedOn(R, Nat)
  BY NatLessThanWellFounded DEF OpToRel
<1> HIDE DEF R
<1>2. PICK n \in N : \A m \in N : <<m, n>> \notin R
  BY <1>1, WFMin
<1>3. \A m \in N : n <= m
  <2> TAKE m \in N
  <2>1. m \in Nat /\ n \in Nat
    OBVIOUS
  <2>2. m < n => <<m, n>> \in R
    BY <2>1 DEF R
  <2> QED BY <1>2, <2>1, <2>2
<1> QED BY <1>3

(* A byte moved from one stage to the next leaves the whole as it was.     *)
LEMMA MoveHead ==
    ASSUME NEW a \in Bytes, NEW b \in Bytes, b # << >>
    PROVE  Append(a, Head(b)) \o Tail(b) = a \o b
BY SMTT(30) DEF Bytes

LEMMA Associate == \A a, b, c \in Seq(Nat) : (a \o b) \o c = a \o (b \o c)
BY SMTT(30), ConcatAssociative

LEMMA Closed == \A a, b \in Seq(Nat) : a \o b \in Seq(Nat)
OBVIOUS

LEMMA Regroup ==
    \A a, b, c, d \in Seq(Nat) :
        /\ a \o b \o c \o d = (a \o (b \o c)) \o d
        /\ a \o b \o c \o d = (a \o b) \o (c \o d)
<1> TAKE a, b, c, d \in Seq(Nat)
<1>1. (a \o b) \o c = a \o (b \o c)
  BY Associate, ZenonT(30)
<1>2. a \o b \in Seq(Nat)
  BY Closed, Zenon
<1>3. ((a \o b) \o c) \o d = (a \o b) \o (c \o d)
  BY <1>2, Associate, Zenon
<1>4. ((a \o b) \o c) \o d = (a \o (b \o c)) \o d
  BY <1>1, Zenon
<1> QED BY <1>3, <1>4, Zenon

LEMMA Wholes ==
    \A r \in Session :
        /\ r.got \o r.channel \o r.buf \o r.output = (r.got \o (r.channel \o r.buf)) \o r.output
        /\ r.got \o r.channel \o r.buf \o r.output = (r.got \o r.channel) \o (r.buf \o r.output)
<1> TAKE r \in Session
<1>1. r.got \in Seq(Nat)
  BY DEF Session, Bytes
<1>2. r.channel \in Seq(Nat)
  BY DEF Session, Bytes
<1>3. r.buf \in Seq(Nat)
  BY DEF Session, Bytes
<1>4. r.output \in Seq(Nat)
  BY DEF Session, Bytes
<1>5. \A b, c, d \in Seq(Nat) :
        /\ r.got \o b \o c \o d = (r.got \o (b \o c)) \o d
        /\ r.got \o b \o c \o d = (r.got \o b) \o (c \o d)
  BY <1>1, Regroup, Zenon
<1>6. \A c, d \in Seq(Nat) :
        /\ r.got \o r.channel \o c \o d = (r.got \o (r.channel \o c)) \o d
        /\ r.got \o r.channel \o c \o d = (r.got \o r.channel) \o (c \o d)
  BY <1>2, <1>5, Zenon
<1>7. \A d \in Seq(Nat) :
        /\ r.got \o r.channel \o r.buf \o d = (r.got \o (r.channel \o r.buf)) \o d
        /\ r.got \o r.channel \o r.buf \o d = (r.got \o r.channel) \o (r.buf \o d)
  BY <1>3, <1>6, Zenon
<1> QED BY <1>4, <1>7, Zenon

LEMMA Recved ==
    ASSUME NEW r \in Session, NEW q \in Session, InOrder(r), r.channel # << >>,
           q.got = Append(r.got, Head(r.channel)), q.channel = Tail(r.channel),
           q.buf = r.buf, q.output = r.output, q.made = r.made
    PROVE  InOrder(q)
<1>1. q.got \o q.channel = r.got \o r.channel
  BY MoveHead DEF Session
<1> QED BY <1>1 DEF InOrder

LEMMA Sent ==
    ASSUME NEW r \in Session, NEW q \in Session, InOrder(r), r.buf # << >>,
           q.channel = Append(r.channel, Head(r.buf)), q.buf = Tail(r.buf),
           q.got = r.got, q.output = r.output, q.made = r.made
    PROVE  InOrder(q)
<1>1. q.channel \o q.buf = r.channel \o r.buf
  BY MoveHead DEF Session
<1>2. r.got \o r.channel \o r.buf \o r.output = (r.got \o (r.channel \o r.buf)) \o r.output
  BY Wholes
<1>3. q.got \o q.channel \o q.buf \o q.output = (q.got \o (q.channel \o q.buf)) \o q.output
  BY Wholes
<1> QED BY <1>1, <1>2, <1>3 DEF InOrder

LEMMA Taken ==
    ASSUME NEW r \in Session, NEW q \in Session, InOrder(r), r.buf = << >>,
           NEW n \in 1 .. Len(r.output),
           q.buf = SubSeq(r.output, 1, n), q.output = SubSeq(r.output, n + 1, Len(r.output)),
           q.got = r.got, q.channel = r.channel, q.made = r.made
    PROVE  InOrder(q)
<1>1. r.output \in Seq(Nat) /\ Len(r.output) \in Nat
  BY DEF Session, Bytes
<1>2. q.buf \o q.output = r.buf \o r.output
  <2>1. q.buf \o q.output = SubSeq(r.output, 1, Len(r.output))
    <3>1. 1 \in 1 .. Len(r.output) + 1 /\ n \in 0 .. Len(r.output) /\ n \in 1 - 1 .. Len(r.output)
          /\ Len(r.output) \in n .. Len(r.output)
      BY <1>1
    <3> QED BY <1>1, <3>1, ConcatAdjacentSubSeq
  <2> QED BY <1>1, <2>1, SubSeqFull, ConcatEmptySeq
<1>3. r.got \o r.channel \o r.buf \o r.output = (r.got \o r.channel) \o (r.buf \o r.output)
  BY Wholes
<1>4. q.got \o q.channel \o q.buf \o q.output = (q.got \o q.channel) \o (q.buf \o q.output)
  BY Wholes
<1> QED BY <1>2, <1>3, <1>4 DEF InOrder

LEMMA Emitted ==
    ASSUME NEW r \in Session, NEW q \in Session, InOrder(r),
           q.output = Append(r.output, r.made + 1), q.made = r.made + 1,
           q.got = r.got, q.channel = r.channel, q.buf = r.buf
    PROVE  InOrder(q)
<1> DEFINE a == r.got \o r.channel \o r.buf
<1>1. a \in Seq(Nat) /\ r.output \in Seq(Nat) /\ r.made \in Nat
  BY ConcatProperties DEF Session, Bytes
<1>2. a \o r.output = [k \in 1 .. r.made |-> k]
  BY DEF InOrder
<1> HIDE DEF a
<1>3. a \o Append(r.output, r.made + 1) = Append(a \o r.output, r.made + 1)
  <2> DEFINE m == r.made + 1
             o == r.output
  <2>1. m \in Nat /\ o \in Seq(Nat)
    BY <1>1
  <2> HIDE DEF m, o
  <2>2. Append(o, m) = o \o <<m>> /\ Append(a \o o, m) = (a \o o) \o <<m>>
    BY <1>1, <2>1, AppendIsConcat, ConcatProperties
  <2>3. (a \o o) \o <<m>> = a \o (o \o <<m>>)
    BY SMTT(30), <1>1, <2>1, ConcatAssociative
  <2> QED BY <2>2, <2>3 DEF m, o
<1>4. Append([k \in 1 .. r.made |-> k], r.made + 1) = [k \in 1 .. r.made + 1 |-> k]
  <2> DEFINE w == [k \in 1 .. r.made |-> k]
  <2>1. w \in Seq(Nat) /\ Len(w) = r.made
    BY <1>1
  <2> QED BY <1>1, <2>1
<1> QED BY <1>2, <1>3, <1>4 DEF InOrder, a
-----------------------------------------------------------------------------
(* A step of one session, the slots unchanged.                             *)
LEMMA OneSession ==
    ASSUME PtyInv, NEW s \in Sessions, NEW q, SessionSound(q, InSlot(s)),
           session' = [session EXCEPT ![s] = q], pty_slots' = pty_slots
    PROVE  /\ session' \in [Sessions -> Session] /\ session'[s] = q
           /\ \A t \in Sessions \ {s} : session'[t] = session[t]
           /\ \A t : InSlot(t)' = InSlot(t)
           /\ \A t \in Sessions : SessionSound(session'[t], InSlot(t)')
           /\ pty_slots' \in [Handles -> Sessions \cup {NoSession}]
           /\ \A g, h \in Handles :
                 pty_slots'[g] = pty_slots'[h] /\ pty_slots'[g] # NoSession => g = h
<1>1. session \in [Sessions -> Session] /\ q \in Session
  BY DEF PtyInv, TypeOK, Session, SessionSound
<1>2. /\ session' \in [Sessions -> Session] /\ session'[s] = q
      /\ \A t \in Sessions \ {s} : session'[t] = session[t]
  BY <1>1
<1>3. \A t : InSlot(t)' = InSlot(t)
  BY DEF InSlot
<1>4. \A t \in Sessions : SessionSound(session'[t], InSlot(t)')
  BY <1>2, <1>3 DEF PtyInv
<1>5. pty_slots' \in [Handles -> Sessions \cup {NoSession}]
  BY DEF PtyInv, TypeOK
<1>6. \A g, h \in Handles :
          pty_slots'[g] = pty_slots'[h] /\ pty_slots'[g] # NoSession => g = h
  BY DEF PtyInv
<1> QED BY <1>2, <1>3, <1>4, <1>5, <1>6

VmTyped(v) ==
    v \in [op : {"idle", "write", "read", "check"}, s : Sessions \cup {NoSession},
           max : 0 .. MaxTransfer, done : 0 .. MaxTransfer]

(* The reader and the child, while an opcode may be in progress.           *)
LEMMA OutsideVm ==
    ASSUME PtyInv, NEW s \in Sessions, NEW q, SessionSound(q, InSlot(s)),
           session' = [session EXCEPT ![s] = q], UNCHANGED <<pty_slots, vm>>,
           q.ends = session[s].ends,
           session[s].closed_flag => q.channel = session[s].channel
    PROVE  PtyInv'
<1>1. /\ session' \in [Sessions -> Session] /\ session'[s] = q
      /\ \A t \in Sessions \ {s} : session'[t] = session[t]
      /\ \A t : InSlot(t)' = InSlot(t)
      /\ \A t \in Sessions : SessionSound(session'[t], InSlot(t)')
      /\ pty_slots' \in [Handles -> Sessions \cup {NoSession}]
      /\ \A g, h \in Handles :
            pty_slots'[g] = pty_slots'[h] /\ pty_slots'[g] # NoSession => g = h
  BY OneSession
<1>2. TypeOK'
  BY <1>1 DEF PtyInv, TypeOK, Session
<1>3. OpcodeSound'
  <2>1. /\ (vm.op # "idle" => InSlot(vm.s)' /\ vm.s \in Sessions)
        /\ vm.op = "idle" => vm = Idle
        /\ vm.done <= vm.max
    BY <1>1 DEF PtyInv, OpcodeSound
  <2>2. ASSUME vm.op = "check", vm.done = 0, vm.max > 0, session'[vm.s].ends >= 1
        PROVE  session'[vm.s].channel = << >>
    <3>1. vm.s \in Sessions /\ InSlot(vm.s) /\ session[vm.s].ends >= 1
      BY <1>1, <2>1, <2>2
    <3>2. session[vm.s].channel = << >> /\ session[vm.s].closed_flag
      BY <3>1, <2>2 DEF PtyInv, OpcodeSound, SessionSound
    <3> QED BY <1>1, <3>1, <3>2
  <2> QED BY <2>1, <2>2 DEF OpcodeSound
<1> QED BY <1>1, <1>2, <1>3 DEF PtyInv

LEMMA SessionIs ==
    ASSUME PtyInv, NEW s \in Sessions
    PROVE  /\ session[s] \in Session /\ SessionSound(session[s], InSlot(s))
           /\ session \in [Sessions -> Session]
BY DEF PtyInv, SessionSound, TypeOK, Session

LEMMA TakeKeeps ==
    ASSUME PtyInv, NEW s \in Sessions, Take(s)
    PROVE  PtyInv'
<1> DEFINE r == session[s]
<1>1. r \in Session /\ SessionSound(r, InSlot(s)) /\ session \in [Sessions -> Session]
  BY SessionIs
<1>2. r.reader = "reads" /\ r.buf = << >> /\ UNCHANGED <<pty_slots, vm>>
  BY DEF Take
<1>3. PICK n \in 1 .. BufSize :
        /\ n <= Len(r.output)
        /\ session' = [session EXCEPT ![s].buf = SubSeq(r.output, 1, n),
                                      ![s].output = SubSeq(@, n + 1, Len(@))]
  BY DEF Take
<1> DEFINE q == [r EXCEPT !.buf = SubSeq(r.output, 1, n),
                          !.output = SubSeq(r.output, n + 1, Len(r.output))]
<1>4. session' = [session EXCEPT ![s] = q]
  BY <1>1, <1>3
<1>5. n \in 1 .. Len(r.output) /\ r.output \in Seq(Nat)
  BY <1>1, <1>3, PtyAssumption DEF Session, Bytes
<1>6. SubSeq(r.output, 1, n) \in Bytes /\ SubSeq(r.output, n + 1, Len(r.output)) \in Bytes
  BY SMTT(30), <1>5 DEF Bytes
<1>7. q \in Session
  BY <1>1, <1>6 DEF Session
<1>8. InOrder(r) => InOrder(q)
  BY <1>1, <1>2, <1>5, <1>7, Taken DEF Session
<1>9. r.output # << >>
  BY <1>5
<1>10. /\ q.child = r.child /\ q.reader = r.reader /\ q.closed_flag = r.closed_flag
       /\ q.ends = r.ends /\ q.channel = r.channel
  BY <1>1 DEF Session
<1>11. r.child # "none" /\ ~r.closed_flag
  BY <1>1, <1>2 DEF SessionSound, Unopened
<1> HIDE DEF q, r
<1>12. SessionSound(q, InSlot(s))
  BY <1>1, <1>7, <1>8, <1>10, <1>11 DEF SessionSound
<1> QED BY <1>2, <1>4, <1>10, <1>12, OutsideVm DEF r

LEMMA SendKeeps ==
    ASSUME PtyInv, NEW s \in Sessions, Send(s)
    PROVE  PtyInv'
<1> DEFINE r == session[s]
<1>1. r \in Session /\ SessionSound(r, InSlot(s)) /\ session \in [Sessions -> Session]
  BY SessionIs
<1>2. r.reader = "reads" /\ r.buf # << >> /\ UNCHANGED <<pty_slots, vm>>
  BY DEF Send
<1>3. r.child # "none" /\ ~r.closed_flag
  BY <1>1, <1>2 DEF SessionSound, Unopened
<1>4. CASE InSlot(s)
  <2> DEFINE q == [r EXCEPT !.channel = Append(r.channel, Head(r.buf)), !.buf = Tail(r.buf)]
  <2>1. session' = [session EXCEPT ![s] = q]
    <3>1. session' = [session EXCEPT ![s].channel = Append(@, Head(session[s].buf)),
                                     ![s].buf = Tail(@), ![s].reader = @]
      BY <1>4 DEF Send
    <3> QED BY <1>1, <3>1 DEF Session
  <2>2. Append(r.channel, Head(r.buf)) \in Bytes /\ Tail(r.buf) \in Bytes
    BY <1>1, <1>2 DEF Session, Bytes
  <2>3. q \in Session
    BY <1>1, <2>2 DEF Session
  <2>4. InOrder(r) => InOrder(q)
    BY <1>1, <1>2, <2>3, Sent DEF Session
  <2>5. /\ q.child = r.child /\ q.closed_flag = r.closed_flag /\ q.ends = r.ends
    BY <1>1 DEF Session
  <2> HIDE DEF q, r
  <2>6. SessionSound(q, InSlot(s))
    BY <1>1, <1>3, <2>3, <2>4, <2>5 DEF SessionSound
  <2> QED BY <1>2, <1>3, <2>1, <2>5, <2>6, OutsideVm DEF r
<1>5. CASE ~InSlot(s)
  <2> DEFINE q == [r EXCEPT !.buf = << >>, !.reader = "ended"]
  <2>1. session' = [session EXCEPT ![s] = q]
    <3>1. session' = [session EXCEPT ![s].channel = @, ![s].buf = << >>, ![s].reader = "ended"]
      BY <1>5 DEF Send
    <3> QED BY <1>1, <3>1 DEF Session
  <2>2. q \in Session
    <3>1. << >> \in Bytes
      BY DEF Bytes
    <3> QED BY <1>1, <3>1 DEF Session
  <2>3. q.child = r.child /\ q.closed_flag = r.closed_flag /\ q.ends = r.ends
    BY <1>1 DEF Session
  <2> HIDE DEF q, r
  <2>4. SessionSound(q, InSlot(s))
    BY <1>1, <1>3, <1>5, <2>2, <2>3 DEF SessionSound
  <2> QED BY <1>2, <1>3, <2>1, <2>3, <2>4, OutsideVm DEF r
<1> QED BY <1>4, <1>5

LEMMA EndOfOutputKeeps ==
    ASSUME PtyInv, NEW s \in Sessions, EndOfOutput(s)
    PROVE  PtyInv'
<1> DEFINE r == session[s]
           q == [r EXCEPT !.closed_flag = TRUE, !.reader = "ended"]
<1>1. r \in Session /\ SessionSound(r, InSlot(s)) /\ session \in [Sessions -> Session]
  BY SessionIs
<1>2. /\ r.buf = << >> /\ r.child = "exited" /\ r.output = << >>
      /\ UNCHANGED <<pty_slots, vm>>
  BY DEF EndOfOutput
<1>3. session' = [session EXCEPT ![s] = q]
  BY <1>1 DEF EndOfOutput
<1>4. q \in Session
  BY <1>1 DEF Session
<1>5. /\ q.child = r.child /\ q.closed_flag /\ q.ends = r.ends /\ q.channel = r.channel
      /\ q.output = r.output /\ q.buf = r.buf /\ q.reader = "ended"
      /\ q.got = r.got /\ q.made = r.made
  BY <1>1 DEF Session
<1> HIDE DEF q, r
<1>6. SessionSound(q, InSlot(s))
  BY <1>1, <1>2, <1>4, <1>5 DEF SessionSound, InOrder
<1> QED BY <1>2, <1>3, <1>5, <1>6, OutsideVm DEF r

(* A child that writes a byte, with or without input consumed.             *)
LEMMA EmitKeeps ==
    ASSUME PtyInv, NEW s \in Sessions, session[s].child = "runs",
           NEW n \in 0 .. TtyInput,
           session' = [session EXCEPT ![s] =
                         [session[s] EXCEPT !.input = n, !.made = session[s].made + 1,
                            !.output = Append(session[s].output, session[s].made + 1)]],
           UNCHANGED <<pty_slots, vm>>
    PROVE  PtyInv'
<1> DEFINE r == session[s]
           q == [r EXCEPT !.input = n, !.made = r.made + 1,
                          !.output = Append(r.output, r.made + 1)]
<1>1. r \in Session /\ SessionSound(r, InSlot(s))
  BY SessionIs
<1>2. session' = [session EXCEPT ![s] = q]
  OBVIOUS
<1>3. Append(r.output, r.made + 1) \in Bytes /\ r.made + 1 \in Nat
  BY <1>1 DEF Session, Bytes
<1>4. q \in Session
  BY <1>1, <1>3 DEF Session
<1>5. /\ q.child = r.child /\ q.closed_flag = r.closed_flag /\ q.ends = r.ends
      /\ q.channel = r.channel
  BY <1>1 DEF Session
<1>6. InOrder(r) => InOrder(q)
  BY <1>1, <1>4, Emitted DEF Session
<1>7. r.child # "none" /\ ~r.closed_flag
  BY <1>1 DEF SessionSound
<1> HIDE DEF q, r
<1>8. SessionSound(q, InSlot(s))
  BY <1>1, <1>4, <1>5, <1>6, <1>7 DEF SessionSound
<1> QED BY <1>2, <1>5, <1>8, OutsideVm DEF r

(* A child that consumes input or exits. *)
LEMMA QuietChildKeeps ==
    ASSUME PtyInv, NEW s \in Sessions, session[s].child = "runs",
           NEW n \in 0 .. TtyInput, NEW c \in {"runs", "exited"},
           session' = [session EXCEPT ![s] = [session[s] EXCEPT !.child = c, !.input = n]],
           UNCHANGED <<pty_slots, vm>>
    PROVE  PtyInv'
<1> DEFINE r == session[s]
           q == [r EXCEPT !.child = c, !.input = n]
<1>1. r \in Session /\ SessionSound(r, InSlot(s))
  BY SessionIs
<1>2. session' = [session EXCEPT ![s] = q]
  OBVIOUS
<1>3. q \in Session
  BY <1>1 DEF Session
<1>4. /\ q.child = c /\ q.closed_flag = r.closed_flag /\ q.ends = r.ends
      /\ q.channel = r.channel /\ q.output = r.output /\ q.buf = r.buf
      /\ q.got = r.got /\ q.made = r.made
  BY <1>1 DEF Session
<1>5. r.child # "none" /\ ~r.closed_flag /\ c # "none"
  BY <1>1 DEF SessionSound
<1> HIDE DEF q, r
<1>6. SessionSound(q, InSlot(s))
  BY <1>1, <1>3, <1>4, <1>5 DEF SessionSound, InOrder
<1> QED BY <1>2, <1>4, <1>6, OutsideVm DEF r

LEMMA ChildKeeps ==
    ASSUME PtyInv, NEW s \in Sessions, Consume(s) \/ Emit(s) \/ ChildExits(s)
    PROVE  PtyInv'
<1> DEFINE r == session[s]
<1>1. /\ r \in Session /\ session \in [Sessions -> Session] /\ r.child = "runs"
      /\ UNCHANGED <<pty_slots, vm>> /\ r.input \in 0 .. TtyInput /\ TtyInput \in Nat
  BY SessionIs, PtyAssumption DEF Consume, Emit, ChildExits, Session
<1>2. CASE Consume(s)
  <2> DEFINE n == r.input - 1
  <2>1. n \in 0 .. TtyInput
    BY <1>1, <1>2 DEF Consume
  <2>2. \/ session' = [session EXCEPT ![s] =
                         [r EXCEPT !.input = n, !.made = r.made + 1,
                                   !.output = Append(r.output, r.made + 1)]]
        \/ session' = [session EXCEPT ![s] = [r EXCEPT !.child = "runs", !.input = n]]
    <3>1. CASE session' = [session EXCEPT ![s].input = @ - 1, ![s].made = @ + 1,
                                          ![s].output = Append(@, session[s].made + 1)]
      BY <1>1, <3>1
    <3>2. CASE session' = [session EXCEPT ![s].input = @ - 1]
      <4>1. session' = [session EXCEPT ![s] = [r EXCEPT !.input = n]]
        BY <1>1, <3>2
      <4>2. [r EXCEPT !.input = n] = [r EXCEPT !.child = "runs", !.input = n]
        BY <1>1 DEF Session
      <4> QED BY <4>1, <4>2
    <3> QED BY <1>2, <3>1, <3>2 DEF Consume
  <2> HIDE DEF n
  <2> QED BY <1>1, <2>1, <2>2, EmitKeeps, QuietChildKeeps
<1>3. CASE Emit(s)
  <2>1. session' = [session EXCEPT ![s] =
                      [r EXCEPT !.input = r.input, !.made = r.made + 1,
                                !.output = Append(r.output, r.made + 1)]]
    <3>1. session' = [session EXCEPT ![s] =
                        [r EXCEPT !.made = r.made + 1, !.output = Append(r.output, r.made + 1)]]
      BY <1>1, <1>3 DEF Emit
    <3>2. [r EXCEPT !.made = r.made + 1, !.output = Append(r.output, r.made + 1)]
            = [r EXCEPT !.input = r.input, !.made = r.made + 1,
                        !.output = Append(r.output, r.made + 1)]
      BY <1>1 DEF Session
    <3> QED BY <3>1, <3>2
  <2> QED BY <1>1, <2>1, EmitKeeps
<1>4. CASE ChildExits(s)
  <2>1. session' = [session EXCEPT ![s] = [r EXCEPT !.child = "exited", !.input = 0]]
    BY <1>1, <1>4 DEF ChildExits
  <2>2. 0 \in 0 .. TtyInput
    BY <1>1
  <2> QED BY <1>1, <2>1, <2>2, QuietChildKeeps
<1> QED BY <1>2, <1>3, <1>4
-----------------------------------------------------------------------------
(* The opcodes. *)

(* An opcode that leaves slots and sessions alone. *)
LEMMA VmOnly ==
    ASSUME PtyInv, UNCHANGED <<pty_slots, session>>, VmTyped(vm'),
           vm'.op # "idle" => InSlot(vm'.s) /\ vm'.s \in Sessions,
           vm'.op = "idle" => vm' = Idle,
           vm'.done <= vm'.max,
           vm'.op = "check" /\ vm'.done = 0 /\ vm'.max > 0 /\ session[vm'.s].ends >= 1
              => session[vm'.s].channel = << >>
    PROVE  PtyInv'
<1>1. \A t : InSlot(t)' = InSlot(t)
  BY DEF InSlot
<1>2. TypeOK'
  BY DEF PtyInv, TypeOK, VmTyped
<1>3. OpcodeSound'
  BY <1>1 DEF OpcodeSound
<1> QED BY <1>1, <1>2, <1>3 DEF PtyInv

LEMMA VmIs ==
    ASSUME PtyInv
    PROVE  /\ VmTyped(vm) /\ OpcodeSound
           /\ vm.done \in Nat /\ vm.max \in Nat
           /\ 0 \in 0 .. MaxTransfer /\ MaxTransfer \in Nat
<1>1. VmTyped(vm) /\ OpcodeSound
  BY DEF PtyInv, TypeOK, VmTyped
<1> QED BY <1>1, PtyAssumption DEF VmTyped

LEMMA IdleTyped == VmTyped(Idle) /\ Idle.op = "idle" /\ Idle.done = 0 /\ Idle.max = 0
BY PtyAssumption DEF VmTyped, Idle

LEMMA BeginKeeps ==
    ASSUME PtyInv, NEW h \in Handles, NEW len \in 0 .. MaxTransfer,
           WriteBegin(h, len) \/ ReadBegin(h, len)
    PROVE  PtyInv'
<1>1. PICK op \in {"write", "read"} :
        /\ vm' = [op |-> op, s |-> pty_slots[h], max |-> len, done |-> 0]
        /\ UNCHANGED <<pty_slots, session>> /\ pty_slots[h] # NoSession
  BY DEF WriteBegin, ReadBegin
<1>2. pty_slots[h] \in Sessions /\ InSlot(pty_slots[h])
  BY <1>1 DEF PtyInv, TypeOK, InSlot
<1>3. len \in Nat /\ 0 \in 0 .. MaxTransfer
  BY VmIs
<1>4. VmTyped(vm')
  BY <1>1, <1>2, <1>3 DEF VmTyped
<1> QED BY <1>1, <1>2, <1>3, <1>4, VmOnly

LEMMA WriteEndKeeps ==
    ASSUME PtyInv, WriteEnd
    PROVE  PtyInv'
BY VmOnly, IdleTyped DEF WriteEnd

LEMMA RecvStopKeeps ==
    ASSUME PtyInv, RecvStop
    PROVE  PtyInv'
<1>1. /\ vm.op = "read" /\ UNCHANGED <<pty_slots, session>>
      /\ WantsMore => session[vm.s].channel = << >>
      /\ vm' = [vm EXCEPT !.op = "check"]
  BY DEF RecvStop
<1>2. VmTyped(vm) /\ OpcodeSound
  BY VmIs
<1>3. /\ VmTyped(vm') /\ vm'.op = "check" /\ vm'.s = vm.s /\ vm'.max = vm.max
      /\ vm'.done = vm.done
  BY <1>1, <1>2 DEF VmTyped
<1>4. InSlot(vm.s) /\ vm.s \in Sessions /\ vm.done <= vm.max
  BY <1>1, <1>2 DEF OpcodeSound
<1>5. vm.done = 0 /\ vm.max > 0 => session[vm.s].channel = << >>
  BY <1>1 DEF WantsMore
<1> QED BY <1>1, <1>3, <1>4, <1>5, VmOnly

(* An opcode that also changes the session it works on. *)
LEMMA VmAndSession ==
    ASSUME PtyInv, NEW q, vm.s \in Sessions, SessionSound(q, InSlot(vm.s)),
           session' = [session EXCEPT ![vm.s] = q], pty_slots' = pty_slots, VmTyped(vm'),
           vm'.op # "idle" => InSlot(vm.s) /\ vm'.s = vm.s,
           vm'.op = "idle" => vm' = Idle,
           vm'.done <= vm'.max, vm'.op # "check"
    PROVE  PtyInv'
<1>1. /\ session' \in [Sessions -> Session]
      /\ \A t : InSlot(t)' = InSlot(t)
      /\ \A t \in Sessions : SessionSound(session'[t], InSlot(t)')
      /\ pty_slots' \in [Handles -> Sessions \cup {NoSession}]
      /\ \A g, h \in Handles :
            pty_slots'[g] = pty_slots'[h] /\ pty_slots'[g] # NoSession => g = h
  BY OneSession
<1>2. TypeOK'
  BY <1>1 DEF TypeOK, Session, VmTyped
<1>3. OpcodeSound'
  BY <1>1 DEF OpcodeSound
<1> QED BY <1>1, <1>2, <1>3 DEF PtyInv

LEMMA WriteByteKeeps ==
    ASSUME PtyInv, WriteByte
    PROVE  PtyInv'
<1>1. /\ vm.op = "write" /\ vm.done < vm.max /\ pty_slots' = pty_slots
      /\ vm' = [vm EXCEPT !.done = @ + 1]
  BY DEF WriteByte
<1>2. /\ VmTyped(vm) /\ OpcodeSound /\ vm.done \in Nat /\ vm.max \in Nat
      /\ vm.max \in 0 .. MaxTransfer /\ MaxTransfer \in Nat
  BY VmIs DEF VmTyped
<1> DEFINE d == vm.done + 1
<1>3. d \in 0 .. MaxTransfer /\ d <= vm.max
  BY <1>1, <1>2
<1>4. vm' = [vm EXCEPT !.done = d]
  BY <1>1
<1> HIDE DEF d
<1>5. /\ VmTyped(vm') /\ vm'.op = "write" /\ vm'.s = vm.s /\ vm'.max = vm.max /\ vm'.done = d
  BY <1>1, <1>2, <1>3, <1>4 DEF VmTyped
<1>6. InSlot(vm.s) /\ vm.s \in Sessions
  BY <1>1, <1>2 DEF OpcodeSound
<1>7. CASE session[vm.s].child = "exited" /\ UNCHANGED session
  BY <1>1, <1>3, <1>5, <1>6, <1>7, VmOnly
<1>8. CASE /\ session[vm.s].child = "runs" /\ session[vm.s].input < TtyInput
           /\ session' = [session EXCEPT ![vm.s].input = @ + 1]
  <2> DEFINE r == session[vm.s]
             n == r.input + 1
             q == [r EXCEPT !.input = n]
  <2>1. r \in Session /\ SessionSound(r, InSlot(vm.s)) /\ session \in [Sessions -> Session]
    BY <1>6, SessionIs
  <2>2. session' = [session EXCEPT ![vm.s] = q]
    BY <1>6, <1>8, <2>1
  <2>3. n \in 0 .. TtyInput
    BY <1>8, <2>1, PtyAssumption DEF Session
  <2> HIDE DEF n
  <2>4. q \in Session
    BY <2>1, <2>3 DEF Session
  <2>5. /\ q.child = r.child /\ q.closed_flag = r.closed_flag /\ q.ends = r.ends
        /\ q.channel = r.channel /\ q.output = r.output /\ q.buf = r.buf
        /\ q.got = r.got /\ q.made = r.made /\ q.reader = r.reader
    BY <2>1 DEF Session
  <2>6. r.child = "runs"
    BY <1>8
  <2> HIDE DEF q, r
  <2>7. SessionSound(q, InSlot(vm.s))
    BY <2>1, <2>4, <2>5, <2>6 DEF SessionSound, InOrder
  <2> QED BY <1>1, <1>3, <1>5, <1>6, <2>2, <2>7, VmAndSession DEF r
<1> QED BY <1>7, <1>8 DEF WriteByte

LEMMA RecvKeeps ==
    ASSUME PtyInv, Recv
    PROVE  PtyInv'
<1>1. /\ vm.op = "read" /\ vm.done < vm.max /\ pty_slots' = pty_slots
      /\ session[vm.s].channel # << >>
      /\ vm' = [vm EXCEPT !.done = @ + 1]
  BY DEF Recv, WantsMore
<1>2. /\ VmTyped(vm) /\ OpcodeSound /\ vm.done \in Nat /\ vm.max \in Nat
      /\ vm.max \in 0 .. MaxTransfer /\ MaxTransfer \in Nat
  BY VmIs DEF VmTyped
<1> DEFINE d == vm.done + 1
<1>3. d \in 0 .. MaxTransfer /\ d <= vm.max
  BY <1>1, <1>2
<1>4. vm' = [vm EXCEPT !.done = d]
  BY <1>1
<1> HIDE DEF d
<1>5. /\ VmTyped(vm') /\ vm'.op = "read" /\ vm'.s = vm.s /\ vm'.max = vm.max /\ vm'.done = d
  BY <1>1, <1>2, <1>3, <1>4 DEF VmTyped
<1>6. InSlot(vm.s) /\ vm.s \in Sessions
  BY <1>1, <1>2 DEF OpcodeSound
<1> DEFINE r == session[vm.s]
           q == [r EXCEPT !.got = Append(r.got, Head(r.channel)), !.channel = Tail(r.channel)]
<1>7. r \in Session /\ SessionSound(r, InSlot(vm.s)) /\ session \in [Sessions -> Session]
  BY <1>6, SessionIs
<1>8. session' = [session EXCEPT ![vm.s] = q]
  BY <1>6, <1>7 DEF Recv
<1>9. Append(r.got, Head(r.channel)) \in Bytes /\ Tail(r.channel) \in Bytes
  BY <1>1, <1>7 DEF Session, Bytes
<1>10. q \in Session
  BY <1>7, <1>9 DEF Session
<1>11. /\ q.child = r.child /\ q.closed_flag = r.closed_flag /\ q.ends = r.ends
       /\ q.output = r.output /\ q.buf = r.buf /\ q.reader = r.reader
  BY <1>7 DEF Session
<1>12. InOrder(r) => InOrder(q)
  BY <1>1, <1>7, <1>10, Recved DEF Session
<1>13. r.channel # << >>
  BY <1>1
<1> HIDE DEF q, r
<1>14. SessionSound(q, InSlot(vm.s))
  BY <1>6, <1>7, <1>10, <1>11, <1>12, <1>13 DEF SessionSound
<1> QED BY <1>1, <1>3, <1>5, <1>6, <1>8, <1>14, VmAndSession DEF r

LEMMA ReadEndKeeps ==
    ASSUME PtyInv, ReadEnd
    PROVE  PtyInv'
<1> DEFINE r == session[vm.s]
           n == CASE vm.max = 0 -> r.ends
                  [] vm.max > 0 /\ ReportsEnd -> IF r.ends = 2 THEN 2 ELSE r.ends + 1
                  [] OTHER -> 0
           q == [r EXCEPT !.ends = n]
<1>1. vm.op = "check" /\ vm' = Idle /\ pty_slots' = pty_slots
  BY DEF ReadEnd
<1>2. /\ OpcodeSound /\ vm.max \in Nat
  BY VmIs
<1>3. InSlot(vm.s) /\ vm.s \in Sessions
  BY <1>1, <1>2 DEF OpcodeSound
<1>4. r \in Session /\ SessionSound(r, InSlot(vm.s)) /\ session \in [Sessions -> Session]
  BY <1>3, SessionIs
<1>5. session' = [session EXCEPT ![vm.s] = q]
  BY <1>3, <1>4 DEF ReadEnd
<1>6. r.ends \in 0 .. 2
  BY <1>4 DEF Session
<1>7. /\ n \in 0 .. 2
      /\ n >= 1 => r.closed_flag
      /\ n = 2 => r.channel = << >>
  <2>1. CASE vm.max = 0
    BY <1>3, <1>4, <1>6, <2>1 DEF SessionSound
  <2>2. CASE vm.max > 0 /\ ReportsEnd
    <3>1. n = IF r.ends = 2 THEN 2 ELSE r.ends + 1
      BY <2>2
    <3>2. r.closed_flag /\ vm.done = 0
      BY <2>2 DEF ReportsEnd
    <3>3. r.ends >= 1 => r.channel = << >>
      BY <1>1, <1>2, <2>2, <3>2 DEF OpcodeSound
    <3> QED BY <1>6, <3>1, <3>2, <3>3
  <2>3. CASE ~(vm.max = 0) /\ ~(vm.max > 0 /\ ReportsEnd)
    BY <2>3
  <2> QED BY <2>1, <2>2, <2>3
<1> HIDE DEF n
<1>8. q \in Session
  BY <1>4, <1>7 DEF Session
<1>9. /\ q.child = r.child /\ q.closed_flag = r.closed_flag /\ q.ends = n
      /\ q.channel = r.channel /\ q.output = r.output /\ q.buf = r.buf
      /\ q.got = r.got /\ q.made = r.made /\ q.reader = r.reader
  BY <1>4 DEF Session
<1> HIDE DEF q, r
<1>10. SessionSound(q, InSlot(vm.s))
  BY <1>3, <1>4, <1>7, <1>8, <1>9 DEF SessionSound, InOrder
<1>11. VmTyped(vm') /\ vm'.op = "idle" /\ vm'.done <= vm'.max
  BY <1>1, IdleTyped
<1> QED BY <1>1, <1>3, <1>5, <1>10, <1>11, VmAndSession DEF r

(* A session of its own for the slot that opens. *)
LEMMA PtyOpenKeeps ==
    ASSUME PtyInv, PtyOpen
    PROVE  PtyInv'
<1>0. PICK s, h : /\ s = CHOOSE t \in Fresh : \A u \in Fresh : t <= u
                  /\ h = CHOOSE f \in Free : \A g \in Free : f <= g
  OBVIOUS
<1> DEFINE r == session[s]
           q == [r EXCEPT !.child = "runs", !.reader = "reads", !.input = 1]
<1>1. /\ vm = Idle /\ vm' = vm /\ Fresh # {} /\ Free # {}
      /\ pty_slots' = [pty_slots EXCEPT ![h] = s]
      /\ session' = [session EXCEPT ![s].child = "runs", ![s].reader = "reads",
                                    ![s].input = 1]
  BY <1>0 DEF PtyOpen
<1>2. s \in Fresh
  <2>1. Fresh \in SUBSET Nat
    BY PtyAssumption DEF Fresh, Sessions
  <2> QED BY <1>1, <1>0, <2>1, LeastNumber
<1>3. h \in Free
  <2>1. Free \in SUBSET Nat
    BY PtyAssumption DEF Free, Handles
  <2> QED BY <1>1, <1>0, <2>1, LeastNumber
<1>4. s \in Sessions /\ r.child = "none" /\ h \in Handles /\ pty_slots[h] = NoSession
  BY <1>2, <1>3 DEF Fresh, Free
<1>5. SessionSound(r, InSlot(s)) /\ session \in [Sessions -> Session] /\ r = Unopened
  BY <1>4, SessionIs DEF SessionSound
<1>6. ~InSlot(s)
  BY <1>4, <1>5 DEF SessionSound
<1>7. session' = [session EXCEPT ![s] = q]
  BY <1>1, <1>4, <1>5
<1>8. /\ pty_slots \in [Handles -> Sessions \cup {NoSession}]
      /\ \A f, g \in Handles : pty_slots[f] = pty_slots[g] /\ pty_slots[f] # NoSession => f = g
      /\ OpcodeSound
  BY DEF PtyInv, TypeOK
<1>9. /\ pty_slots' \in [Handles -> Sessions \cup {NoSession}] /\ pty_slots'[h] = s
      /\ \A g \in Handles \ {h} : pty_slots'[g] = pty_slots[g]
  BY <1>1, <1>4, <1>8
<1>10. \A f, g \in Handles :
          pty_slots'[f] = pty_slots'[g] /\ pty_slots'[f] # NoSession => f = g
  BY <1>6, <1>8, <1>9 DEF InSlot
<1>11. \A t \in Sessions \ {s} : InSlot(t)' = InSlot(t)
  <2> TAKE t \in Sessions \ {s}
  <2>1. t # NoSession
    BY PtyAssumption DEF Sessions, NoSession
  <2>2. \A g \in Handles : pty_slots'[g] = t <=> pty_slots[g] = t
    BY <1>4, <1>9, <2>1
  <2> QED BY <2>2 DEF InSlot
<1>12. q \in Session
  <2>1. 1 \in 0 .. TtyInput
    BY PtyAssumption
  <2>2. r \in Session
    BY <1>4, SessionIs
  <2> QED BY <2>1, <2>2 DEF Session
<1>13. InOrder(q)
  <2>1. /\ q.got = << >> /\ q.channel = << >> /\ q.buf = << >> /\ q.output = << >>
        /\ q.made = 0
    BY <1>5 DEF Unopened
  <2>2. << >> \o << >> \o << >> \o << >> = << >> /\ [k \in 1 .. 0 |-> k] = << >>
    OBVIOUS
  <2> QED BY <2>1, <2>2 DEF InOrder
<1>14. SessionSound(q, TRUE)
  <2>1. q.child = "runs" /\ q.closed_flag = FALSE /\ q.ends = 0
    BY <1>5 DEF Unopened
  <2> QED BY <1>12, <1>13, <2>1 DEF SessionSound
<1> HIDE DEF q
<1>15. /\ session' \in [Sessions -> Session] /\ session'[s] = q
       /\ \A t \in Sessions \ {s} : session'[t] = session[t]
  BY <1>4, <1>5, <1>7, <1>12
<1>16. \A t \in Sessions : SessionSound(session'[t], InSlot(t)')
  <2>1. SessionSound(session'[s], InSlot(s)')
    <3>1. InSlot(s)'
      BY <1>4, <1>9 DEF InSlot
    <3> QED BY <1>14, <1>15, <3>1 DEF SessionSound
  <2>2. ASSUME NEW t \in Sessions \ {s} PROVE SessionSound(session'[t], InSlot(t)')
    <3>1. SessionSound(session[t], InSlot(t))
      BY DEF PtyInv
    <3> QED BY <1>11, <1>15, <3>1
  <2> QED BY <2>1, <2>2
<1>17. TypeOK'
  BY <1>1, <1>9, <1>15, VmIs DEF TypeOK, Session, VmTyped
<1>18. OpcodeSound'
  BY <1>1, IdleTyped DEF OpcodeSound
<1> QED BY <1>10, <1>16, <1>17, <1>18 DEF PtyInv

LEMMA PtyCloseKeeps ==
    ASSUME PtyInv, NEW h \in Handles, PtyClose(h)
    PROVE  PtyInv'
<1>0. PICK s : s = pty_slots[h]
  OBVIOUS
<1> DEFINE r == session[s]
           q == [r EXCEPT !.channel = << >>]
<1>1. /\ vm = Idle /\ vm' = vm /\ s # NoSession
      /\ session' = [session EXCEPT ![s].channel = << >>]
      /\ pty_slots' = [pty_slots EXCEPT ![h] = NoSession]
  BY <1>0 DEF PtyClose
<1>2. /\ pty_slots \in [Handles -> Sessions \cup {NoSession}]
      /\ \A f, g \in Handles : pty_slots[f] = pty_slots[g] /\ pty_slots[f] # NoSession => f = g
  BY DEF PtyInv, TypeOK
<1>3. s \in Sessions /\ InSlot(s)
  BY <1>1, <1>2, <1>0 DEF InSlot
<1>4. SessionSound(r, InSlot(s)) /\ session \in [Sessions -> Session] /\ r \in Session
  BY <1>3, SessionIs
<1>5. session' = [session EXCEPT ![s] = q]
  BY <1>1, <1>3, <1>4
<1>6. /\ pty_slots' \in [Handles -> Sessions \cup {NoSession}] /\ pty_slots'[h] = NoSession
      /\ \A g \in Handles \ {h} : pty_slots'[g] = pty_slots[g]
  BY <1>1, <1>2
<1>7. \A f, g \in Handles :
          pty_slots'[f] = pty_slots'[g] /\ pty_slots'[f] # NoSession => f = g
  BY <1>2, <1>6
<1>8. ~InSlot(s)'
  BY <1>1, <1>2, <1>6, <1>0 DEF InSlot
<1>9. \A t \in Sessions \ {s} : InSlot(t)' = InSlot(t)
  <2> TAKE t \in Sessions \ {s}
  <2>1. t # NoSession
    BY PtyAssumption DEF Sessions, NoSession
  <2>2. \A g \in Handles : pty_slots'[g] = t <=> pty_slots[g] = t
    BY <1>6, <1>0, <2>1
  <2> QED BY <2>2 DEF InSlot
<1>10. q \in Session
  <2>1. << >> \in Bytes
    BY DEF Bytes
  <2> QED BY <1>4, <2>1 DEF Session
<1>11. SessionSound(q, FALSE)
  <2>1. /\ q.child = r.child /\ q.closed_flag = r.closed_flag /\ q.output = r.output
        /\ q.buf = r.buf /\ q.reader = r.reader
    BY <1>4 DEF Session
  <2>2. r.child # "none"
    BY <1>3, <1>4 DEF SessionSound
  <2> HIDE DEF q, r
  <2> QED BY <1>4, <1>10, <2>1, <2>2 DEF SessionSound
<1> HIDE DEF q
<1>12. /\ session' \in [Sessions -> Session] /\ session'[s] = q
       /\ \A t \in Sessions \ {s} : session'[t] = session[t]
  BY <1>3, <1>4, <1>5, <1>10
<1>13. \A t \in Sessions : SessionSound(session'[t], InSlot(t)')
  <2>1. SessionSound(session'[s], InSlot(s)')
    BY <1>8, <1>11, <1>12 DEF SessionSound
  <2>2. ASSUME NEW t \in Sessions \ {s} PROVE SessionSound(session'[t], InSlot(t)')
    <3>1. SessionSound(session[t], InSlot(t))
      BY DEF PtyInv
    <3> QED BY <1>9, <1>12, <3>1
  <2> QED BY <2>1, <2>2
<1>14. TypeOK'
  BY <1>1, <1>6, <1>12, VmIs DEF TypeOK, Session, VmTyped
<1>15. OpcodeSound'
  BY <1>1, IdleTyped DEF OpcodeSound
<1> QED BY <1>7, <1>13, <1>14, <1>15 DEF PtyInv
-----------------------------------------------------------------------------
LEMMA PtyStarts == Init => PtyInv
<1> SUFFICES ASSUME Init PROVE PtyInv
  OBVIOUS
<1>1. Unopened \in Session
  <2>1. << >> \in Bytes /\ 0 \in 0 .. TtyInput
    BY PtyAssumption DEF Bytes
  <2> QED BY <2>1 DEF Unopened, Session
<1>2. \A t \in Sessions : ~InSlot(t)
  BY PtyAssumption DEF Init, InSlot, Sessions, NoSession
<1>3. \A t \in Sessions : SessionSound(session[t], InSlot(t))
  BY <1>1, <1>2 DEF Init, SessionSound, Unopened
<1>4. TypeOK
  BY <1>1, IdleTyped DEF Init, TypeOK, Session, VmTyped
<1>5. OpcodeSound
  BY IdleTyped DEF Init, OpcodeSound
<1> QED BY <1>3, <1>4, <1>5 DEF PtyInv, Init

LEMMA PtyInductive == PtyInv /\ [Next]_vars => PtyInv'
<1> SUFFICES ASSUME PtyInv, [Next]_vars PROVE PtyInv'
  OBVIOUS
<1>1. CASE Opcode
  BY <1>1, PtyOpenKeeps, BeginKeeps, PtyCloseKeeps DEF Opcode
<1>2. CASE InOpcode
  BY <1>2, WriteByteKeeps, WriteEndKeeps, RecvKeeps, RecvStopKeeps, ReadEndKeeps DEF InOpcode
<1>3. ASSUME NEW s \in Sessions, Reader(s) \/ Consume(s) \/ Emit(s) \/ ChildExits(s)
      PROVE  PtyInv'
  BY <1>3, TakeKeeps, SendKeeps, EndOfOutputKeeps, ChildKeeps DEF Reader
<1>4. CASE UNCHANGED vars
  BY <1>4 DEF vars, PtyInv, TypeOK, OpcodeSound, InSlot
<1> QED BY <1>1, <1>2, <1>3, <1>4 DEF Next
-----------------------------------------------------------------------------
(* The save file. *)

SaveLen == VmWords + CanvasWords + 4
SaveWords == Vms \cup Canvases \cup {CanvasWords}

(* What belongs at a place of a save. *)
WordAt(v, c, i) ==
    IF i <= VmWords + 2 THEN v ELSE IF i = VmWords + 3 THEN CanvasWords ELSE c

(* The file is the beginning of the last save, and what is still to be     *)
(* written is the rest of it.                                              *)
SaveInv ==
    /\ up \in BOOLEAN /\ vm_state \in Vms /\ canvas \in Canvases
    /\ saved \in Vms \X Canvases
    /\ file \in Seq(SaveWords) /\ Len(file) <= SaveLen
    /\ \A i \in 1 .. Len(file) : file[i] = WordAt(saved[1], saved[2], i)
    /\ todo \in Seq(SaveWords)
    /\ todo # << >> =>
         /\ Len(file) + Len(todo) = SaveLen
         /\ \A i \in 1 .. Len(todo) : todo[i] = WordAt(saved[1], saved[2], Len(file) + i)

LEMMA WordsOf ==
    ASSUME NEW v \in Vms, NEW c \in Canvases
    PROVE  /\ S!Words(v, c) \in Seq(SaveWords) /\ Len(S!Words(v, c)) = SaveLen
           /\ \A i \in 1 .. SaveLen : S!Words(v, c)[i] = WordAt(v, c, i)
<1> DEFINE V == [i \in 1 .. VmWords + 2 |-> v]
           B == <<CanvasWords>>
           C == [i \in 1 .. CanvasWords + 1 |-> c]
<1>0. VmWords \in Nat /\ CanvasWords \in Nat
  BY SaveFileAssumption
<1>1. V \in Seq(SaveWords) /\ Len(V) = VmWords + 2 /\ \A i \in 1 .. VmWords + 2 : V[i] = v
  BY <1>0 DEF SaveWords
<1>2. B \in Seq(SaveWords) /\ Len(B) = 1 /\ B[1] = CanvasWords
  BY DEF SaveWords
<1>3. C \in Seq(SaveWords) /\ Len(C) = CanvasWords + 1 /\ \A i \in 1 .. CanvasWords + 1 : C[i] = c
  BY <1>0 DEF SaveWords
<1>4. S!Words(v, c) = V \o B \o C
  BY DEF S!Words
<1> HIDE DEF V, B, C
<1>5. PICK D : D = V \o B
  OBVIOUS
<1>6. D \in Seq(SaveWords) /\ Len(D) = VmWords + 3
      /\ \A i \in 1 .. VmWords + 3 : D[i] = IF i <= VmWords + 2 THEN V[i] ELSE B[i - (VmWords + 2)]
  <2>1. D \in Seq(SaveWords) /\ Len(D) = Len(V) + Len(B)
        /\ \A i \in 1 .. Len(V) + Len(B) : D[i] = IF i <= Len(V) THEN V[i] ELSE B[i - Len(V)]
    BY <1>1, <1>2, <1>5, ConcatProperties, Zenon
  <2> QED BY <1>0, <1>1, <1>2, <2>1
<1>7. PICK W : W = D \o C
  OBVIOUS
<1>8. W \in Seq(SaveWords) /\ Len(W) = SaveLen
      /\ \A i \in 1 .. SaveLen : W[i] = IF i <= VmWords + 3 THEN D[i] ELSE C[i - (VmWords + 3)]
  <2>1. W \in Seq(SaveWords) /\ Len(W) = Len(D) + Len(C)
        /\ \A i \in 1 .. Len(D) + Len(C) : W[i] = IF i <= Len(D) THEN D[i] ELSE C[i - Len(D)]
    BY <1>3, <1>6, <1>7, ConcatProperties, Zenon
  <2> QED BY <1>0, <1>3, <1>6, <2>1 DEF SaveLen
<1>9. ASSUME NEW i \in 1 .. SaveLen PROVE W[i] = WordAt(v, c, i)
  <2>1. CASE i <= VmWords + 2
    BY <2>1, <1>0, <1>1, <1>6, <1>8 DEF WordAt, SaveLen
  <2>2. CASE i = VmWords + 3
    BY <2>2, <1>0, <1>2, <1>6, <1>8 DEF WordAt, SaveLen
  <2>3. CASE i > VmWords + 3
    BY <2>3, <1>0, <1>3, <1>8 DEF WordAt, SaveLen
  <2> QED BY <1>0, <2>1, <2>2, <2>3 DEF SaveLen
<1>10. S!Words(v, c) = W
  BY <1>4, <1>5, <1>7, Zenon
<1> QED BY <1>8, <1>9, <1>10

LEMMA SaveStarts == S!Init => SaveInv
<1> SUFFICES ASSUME S!Init PROVE SaveInv
  OBVIOUS
<1>1. SaveLen \in Nat
  BY SaveFileAssumption DEF SaveLen
<1> QED BY <1>1, SaveFileAssumption DEF S!Init, S!Fresh, SaveInv

(* A file that can be loaded is a whole save, the last.                    *)
LEMMA LoadableIsSave ==
    ASSUME SaveInv, S!Loadable
    PROVE  /\ file = S!Words(saved[1], saved[2]) /\ Len(file) = SaveLen
           /\ SubSeq(file, 1, SaveLen) = file
           /\ file[1] = saved[1] /\ file[VmWords + 4] = saved[2]
<1>0. VmWords \in Nat /\ CanvasWords \in Nat
  BY SaveFileAssumption
<1>1. saved[1] \in Vms /\ saved[2] \in Canvases
  BY DEF SaveInv
<1>2. PICK W \in Seq(SaveWords) : W = S!Words(saved[1], saved[2])
  BY <1>1, WordsOf
<1>3. Len(W) = SaveLen /\ \A i \in 1 .. SaveLen : W[i] = WordAt(saved[1], saved[2], i)
  BY <1>1, <1>2, WordsOf
<1>4. file \in Seq(SaveWords) /\ Len(file) = SaveLen
      /\ \A i \in 1 .. SaveLen : file[i] = WordAt(saved[1], saved[2], i)
  BY <1>0 DEF SaveInv, S!Loadable, SaveLen
<1>5. file = W
  BY <1>3, <1>4, SeqEqual
<1>6. SubSeq(file, 1, SaveLen) = file
  BY <1>0, <1>4 DEF SaveLen
<1>7. file[1] = saved[1] /\ file[VmWords + 4] = saved[2]
  BY <1>0, <1>4 DEF SaveLen, WordAt
<1> QED BY <1>2, <1>4, <1>5, <1>6, <1>7

LEMMA SaveSteps ==
    ASSUME SaveInv, S!Next
    PROVE  SaveInv' /\ (restored' # restored => restored' = S!Words(saved[1], saved[2]))
<1>0. VmWords \in Nat /\ CanvasWords \in Nat /\ SaveLen \in Nat
  BY SaveFileAssumption DEF SaveLen
<1>1. CASE S!save_state
  <2>1. file' = << >> /\ todo' = S!Words(vm_state, canvas) /\ saved' = <<vm_state, canvas>>
        /\ UNCHANGED <<up, vm_state, canvas, restored>>
    BY <1>1 DEF S!save_state, S!Emptied
  <2>2. PICK W \in Seq(SaveWords) : W = S!Words(vm_state, canvas)
    BY WordsOf DEF SaveInv
  <2>3. Len(W) = SaveLen /\ \A i \in 1 .. SaveLen : W[i] = WordAt(vm_state, canvas, i)
    BY <2>2, WordsOf DEF SaveInv
  <2>4. Len(<< >>) = 0 /\ << >> \in Seq(SaveWords)
    OBVIOUS
  <2>5. \A i \in 1 .. Len(W) : W[i] = WordAt(vm_state, canvas, 0 + i)
    BY <1>0, <2>3
  <2> QED BY <1>0, <2>1, <2>2, <2>3, <2>4, <2>5 DEF SaveInv
<1>2. CASE S!WriteWord
  <2>1. /\ todo # << >> /\ file' = Append(file, Head(todo)) /\ todo' = Tail(todo)
        /\ UNCHANGED <<up, vm_state, canvas, saved, restored>>
    BY <1>2 DEF S!WriteWord
  <2>2. /\ todo \in Seq(SaveWords) /\ file \in Seq(SaveWords)
        /\ Len(file) + Len(todo) = SaveLen
        /\ \A i \in 1 .. Len(file) : file[i] = WordAt(saved[1], saved[2], i)
        /\ \A i \in 1 .. Len(todo) : todo[i] = WordAt(saved[1], saved[2], Len(file) + i)
    BY <2>1 DEF SaveInv
  <2>3. PICK t : t = Tail(todo)
    OBVIOUS
  <2>4. /\ t \in Seq(SaveWords) /\ Head(todo) \in SaveWords /\ Len(todo) \in Nat \ {0} /\ Len(t) = Len(todo) - 1 /\ Head(todo) = todo[1]
        /\ \A i \in 1 .. Len(t) : t[i] = todo[i + 1]
    BY <2>1, <2>2, <2>3, HeadTailProperties
  <2>5. PICK f : f = Append(file, Head(todo))
    OBVIOUS
  <2>6. /\ f \in Seq(SaveWords) /\ Len(f) = Len(file) + 1 /\ f[Len(file) + 1] = Head(todo) /\ Len(file) \in Nat
        /\ \A i \in 1 .. Len(file) : f[i] = file[i]
    BY <2>2, <2>4, <2>5, AppendProperties
  <2>7. \A i \in 1 .. Len(f) : f[i] = WordAt(saved[1], saved[2], i)
    <3> TAKE i \in 1 .. Len(f)
    <3>1. CASE i \in 1 .. Len(file)
      BY <3>1, <2>2, <2>6
    <3>2. CASE i = Len(file) + 1
      BY <3>2, <2>2, <2>4, <2>6
    <3> QED BY <2>6, <3>1, <3>2
  <2>8. \A i \in 1 .. Len(t) : t[i] = WordAt(saved[1], saved[2], Len(f) + i)
    <3> TAKE i \in 1 .. Len(t)
    <3>1. i + 1 \in 1 .. Len(todo) /\ Len(file) + (i + 1) = Len(f) + i
      BY <2>4, <2>6
    <3> QED BY <2>2, <2>4, <3>1
  <2>9. Len(f) + Len(t) = SaveLen /\ Len(f) <= SaveLen
    <3>1. Len(file) \in Nat /\ Len(todo) \in Nat \ {0} /\ Len(file) + Len(todo) = SaveLen
          /\ Len(f) = Len(file) + 1 /\ Len(t) = Len(todo) - 1
      BY <2>2, <2>4, <2>6
    <3> QED BY <1>0, <3>1
  <2> QED BY <2>1, <2>4, <2>6, <2>3, <2>5, <2>7, <2>8, <2>9 DEF SaveInv
<1>3. CASE S!WriteFails \/ S!Killed \/ S!Work
  <2>1. << >> \in Seq(SaveWords)
    OBVIOUS
  <2>2. /\ (todo' = << >> \/ todo' = todo) /\ up' \in BOOLEAN
        /\ vm_state' \in Vms /\ canvas' \in Canvases
        /\ UNCHANGED <<file, saved, restored>>
    BY <1>3 DEF S!WriteFails, S!Killed, S!Work, SaveInv
  <2> QED BY <2>1, <2>2 DEF SaveInv
<1>4. CASE S!Load \/ S!Start
  <2>1. UNCHANGED <<file, todo, saved>> /\ up' \in BOOLEAN
    BY <1>4 DEF S!Load, S!Start, SaveInv
  <2>2. CASE S!load_state
    <3>1. S!Loadable /\ vm_state' = file[1] /\ canvas' = file[VmWords + 4]
          /\ restored' = SubSeq(file, 1, SaveLen)
      BY <2>2 DEF S!load_state, SaveLen
    <3>2. vm_state' = saved[1] /\ canvas' = saved[2]
          /\ restored' = S!Words(saved[1], saved[2])
      BY <3>1, LoadableIsSave
    <3> QED BY <2>1, <3>2 DEF SaveInv
  <2>3. CASE ~S!load_state
    <3>1. restored' = restored /\ vm_state' \in Vms /\ canvas' \in Canvases
      BY <1>4, <2>3, SaveFileAssumption DEF S!Load, S!Start, S!Fresh, SaveInv
    <3> QED BY <2>1, <3>1 DEF SaveInv
  <2> QED BY <2>2, <2>3
<1> QED BY <1>1, <1>2, <1>3, <1>4 DEF S!Next
-----------------------------------------------------------------------------
(* The guest in a thread of its own. *)

Ops == {"input", "pause", "resume", "reset", "snapshot", "shutdown"}
Control == [op : Ops, byte : Nat]

InputsIn(c) == {i \in DOMAIN c : c[i].op = "input"}

(* The bytes up to k are in the UART and those from there to n in the      *)
(* channel.                                                                *)
InOrderAt(k, rx, c, n) ==
    /\ \A i \in DOMAIN rx : rx[i] = k - Len(rx) + i
    /\ \A i \in InputsIn(c) : c[i].byte \in k + 1 .. n
    /\ \A b \in k + 1 .. n : \E i \in InputsIn(c) : c[i].byte = b
    /\ \A i, j \in InputsIn(c) : i < j => c[i].byte < c[j].byte

WaitInOrder(rx, c, n) == \E k \in 0 .. n : InOrderAt(k, rx, c, n)

CommandsIn(c) == {i \in DOMAIN c : c[i].op \in {"pause", "resume", "reset"}}

(* What the last of the commands in c leaves of a thread that is at p.     *)
LeadsTo(c, p, t) ==
    \/ CommandsIn(c) = {} /\ t = p
    \/ \E i \in CommandsIn(c) : (\A j \in CommandsIn(c) : j <= i) /\ t = (c[i].op = "pause")

(* A control sent, and one taken, as seen by what is in the channel.       *)
LEMMA SentAt ==
    ASSUME NEW c \in Seq(Control), NEW e \in Control
    PROVE  /\ Append(c, e) \in Seq(Control) /\ Len(Append(c, e)) = Len(c) + 1
           /\ Append(c, e)[Len(c) + 1] = e
           /\ DOMAIN Append(c, e) = 1 .. Len(c) + 1 /\ DOMAIN c = 1 .. Len(c) /\ Len(c) \in Nat
           /\ \A i \in 1 .. Len(c) : Append(c, e)[i] = c[i]
<1>1. PICK d : d = Append(c, e)
  OBVIOUS
<1>2. d \in Seq(Control) /\ Len(d) = Len(c) + 1 /\ d[Len(c) + 1] = e
      /\ \A i \in 1 .. Len(c) : d[i] = c[i]
  BY <1>1, AppendProperties
<1> QED BY <1>1, <1>2

LEMMA TakenAt ==
    ASSUME NEW c \in Seq(Control), c # << >>
    PROVE  /\ Tail(c) \in Seq(Control) /\ Len(Tail(c)) = Len(c) - 1
           /\ DOMAIN c = 1 .. Len(c) /\ DOMAIN Tail(c) = 1 .. Len(c) - 1
           /\ Len(c) \in Nat \ {0}
           /\ Head(c) = c[1] /\ c[1] \in Control
           /\ \A i \in 1 .. Len(c) - 1 : Tail(c)[i] = c[i + 1]
<1>1. PICK d : d = Tail(c)
  OBVIOUS
<1>2. d \in Seq(Control) /\ Len(d) = Len(c) - 1 /\ \A i \in 1 .. Len(c) - 1 : d[i] = c[i + 1]
  BY <1>1, HeadTailProperties
<1>3. Len(c) \in Nat \ {0} /\ Head(c) = c[1] /\ c[1] \in Control
  OBVIOUS
<1> QED BY <1>1, <1>2, <1>3

LEMMA OrderSendInput ==
    ASSUME NEW c \in Seq(Control), NEW rx \in Seq(Nat), NEW n \in Nat,
           WaitInOrder(rx, c, n)
    PROVE  WaitInOrder(rx, Append(c, [op |-> "input", byte |-> n + 1]), n + 1)
<1> DEFINE e == [op |-> "input", byte |-> n + 1]
<1>1. PICK k \in 0 .. n : InOrderAt(k, rx, c, n)
  BY DEF WaitInOrder
<1>2. e \in Control /\ e.op = "input" /\ e.byte = n + 1
  BY DEF Control, Ops
<1> HIDE DEF e
<1>3. PICK d : d = Append(c, e)
  OBVIOUS
<1>4. /\ DOMAIN d = 1 .. Len(c) + 1 /\ DOMAIN c = 1 .. Len(c) /\ Len(c) \in Nat
      /\ d[Len(c) + 1] = e /\ \A i \in 1 .. Len(c) : d[i] = c[i]
  BY <1>2, <1>3, SentAt
<1>5. InputsIn(d) = InputsIn(c) \cup {Len(c) + 1}
  BY <1>2, <1>4 DEF InputsIn
<1>6. \A i \in InputsIn(c) : i \in 1 .. Len(c) /\ d[i] = c[i]
  BY <1>4 DEF InputsIn
<1>7. \A i \in InputsIn(d) : d[i].byte \in k + 1 .. n + 1
  BY <1>1, <1>2, <1>4, <1>5, <1>6 DEF InOrderAt
<1>8. \A b \in k + 1 .. n + 1 : \E i \in InputsIn(d) : d[i].byte = b
  <2> TAKE b \in k + 1 .. n + 1
  <2>1. CASE b = n + 1
    BY <2>1, <1>2, <1>4, <1>5
  <2>2. CASE b # n + 1
    <3>1. b \in k + 1 .. n
      BY <2>2
    <3> QED BY <3>1, <1>1, <1>5, <1>6 DEF InOrderAt
  <2> QED BY <2>1, <2>2
<1>9. \A i, j \in InputsIn(d) : i < j => d[i].byte < d[j].byte
  <2> TAKE i, j \in InputsIn(d)
  <2>1. CASE i \in InputsIn(c) /\ j \in InputsIn(c)
    BY <2>1, <1>1, <1>6 DEF InOrderAt
  <2>2. CASE i \in InputsIn(c) /\ j = Len(c) + 1
    <3>1. c[i].byte \in k + 1 .. n /\ d[i] = c[i]
      BY <2>2, <1>1, <1>6 DEF InOrderAt
    <3>2. d[j].byte = n + 1
      BY <2>2, <1>2, <1>4
    <3> QED BY <3>1, <3>2
  <2>3. CASE i = Len(c) + 1
    BY <2>3, <1>4, <1>5, <1>6
  <2> QED BY <1>5, <2>1, <2>2, <2>3
<1>10. InOrderAt(k, rx, d, n + 1)
  BY <1>1, <1>7, <1>8, <1>9 DEF InOrderAt
<1> QED BY <1>3, <1>10 DEF WaitInOrder, e

LEMMA OrderSendOther ==
    ASSUME NEW c \in Seq(Control), NEW rx \in Seq(Nat), NEW n \in Nat, NEW e \in Control,
           e.op # "input", WaitInOrder(rx, c, n)
    PROVE  WaitInOrder(rx, Append(c, e), n)
<1>1. PICK k \in 0 .. n : InOrderAt(k, rx, c, n)
  BY DEF WaitInOrder
<1>2. PICK d : d = Append(c, e)
  OBVIOUS
<1>3. /\ DOMAIN d = 1 .. Len(c) + 1 /\ DOMAIN c = 1 .. Len(c) /\ Len(c) \in Nat
      /\ d[Len(c) + 1] = e /\ \A i \in 1 .. Len(c) : d[i] = c[i]
  BY <1>2, SentAt
<1>4. InputsIn(d) = InputsIn(c)
  BY <1>3 DEF InputsIn
<1>5. \A i \in InputsIn(c) : d[i] = c[i]
  BY <1>3 DEF InputsIn
<1>6. InOrderAt(k, rx, d, n)
  BY <1>1, <1>4, <1>5 DEF InOrderAt
<1> QED BY <1>2, <1>6 DEF WaitInOrder

(* The places of a tail, counted from the whole. *)
LEMMA InputsInTail ==
    ASSUME NEW c \in Seq(Control), c # << >>
    PROVE  /\ \A i \in InputsIn(Tail(c)) : i + 1 \in InputsIn(c) /\ Tail(c)[i] = c[i + 1] /\ i \in Nat
           /\ \A i \in InputsIn(c) : i \in Nat /\ (i = 1 \/ (i - 1 \in InputsIn(Tail(c)) /\ Tail(c)[i - 1] = c[i]))
<1>1. PICK d : d = Tail(c)
  OBVIOUS
<1>2. /\ DOMAIN c = 1 .. Len(c) /\ DOMAIN d = 1 .. Len(c) - 1 /\ Len(c) \in Nat \ {0}
      /\ \A i \in 1 .. Len(c) - 1 : d[i] = c[i + 1]
  BY <1>1, TakenAt
<1>3. \A i \in InputsIn(d) : i + 1 \in InputsIn(c) /\ d[i] = c[i + 1] /\ i \in Nat
  BY <1>2 DEF InputsIn
<1>4. ASSUME NEW i \in InputsIn(c), i # 1
      PROVE  i - 1 \in InputsIn(d) /\ d[i - 1] = c[i]
  <2>1. i \in 1 .. Len(c) /\ i - 1 \in 1 .. Len(c) - 1 /\ (i - 1) + 1 = i
    BY <1>2, <1>4 DEF InputsIn
  <2> QED BY <1>2, <2>1, <1>4 DEF InputsIn
<1>5. \A i \in InputsIn(c) : i \in Nat
  BY <1>2 DEF InputsIn
<1> QED BY <1>1, <1>3, <1>4, <1>5

LEMMA OrderTakeOther ==
    ASSUME NEW c \in Seq(Control), NEW rx \in Seq(Nat), NEW n \in Nat,
           c # << >>, Head(c).op # "input", WaitInOrder(rx, c, n)
    PROVE  WaitInOrder(rx, Tail(c), n)
<1>1. PICK k \in 0 .. n : InOrderAt(k, rx, c, n)
  BY DEF WaitInOrder
<1>2. PICK d : d = Tail(c)
  OBVIOUS
<1>3. 1 \notin InputsIn(c)
  BY TakenAt DEF InputsIn
<1>4. /\ \A i \in InputsIn(d) : i + 1 \in InputsIn(c) /\ d[i] = c[i + 1] /\ i \in Nat
      /\ \A i \in InputsIn(c) : i \in Nat /\ i - 1 \in InputsIn(d) /\ d[i - 1] = c[i]
  BY <1>2, <1>3, InputsInTail
<1>5. \A i \in InputsIn(d) : d[i].byte \in k + 1 .. n
  BY <1>1, <1>4 DEF InOrderAt
<1>6. \A b \in k + 1 .. n : \E i \in InputsIn(d) : d[i].byte = b
  <2> TAKE b \in k + 1 .. n
  <2>1. PICK i \in InputsIn(c) : c[i].byte = b
    BY <1>1 DEF InOrderAt
  <2>2. i - 1 \in InputsIn(d) /\ d[i - 1].byte = b
    BY <1>4, <2>1
  <2> QED BY <2>2
<1>7. \A i, j \in InputsIn(d) : i < j => d[i].byte < d[j].byte
  <2> TAKE i, j \in InputsIn(d)
  <2>1. i < j => i + 1 < j + 1
    BY <1>4
  <2> QED BY <1>1, <1>4, <2>1 DEF InOrderAt
<1>8. InOrderAt(k, rx, d, n)
  BY <1>1, <1>5, <1>6, <1>7 DEF InOrderAt
<1> QED BY <1>2, <1>8 DEF WaitInOrder

LEMMA OrderTakeInput ==
    ASSUME NEW c \in Seq(Control), NEW rx \in Seq(Nat), NEW n \in Nat,
           c # << >>, Head(c).op = "input", WaitInOrder(rx, c, n)
    PROVE  WaitInOrder(Append(rx, Head(c).byte), Tail(c), n)
<1>1. PICK k \in 0 .. n : InOrderAt(k, rx, c, n)
  BY DEF WaitInOrder
<1>2. PICK d : d = Tail(c)
  OBVIOUS
<1>3. 1 \in InputsIn(c) /\ Head(c) = c[1] /\ Head(c).byte \in Nat
  <2>1. DOMAIN c = 1 .. Len(c) /\ Len(c) \in Nat \ {0} /\ Head(c) = c[1] /\ c[1] \in Control
    BY TakenAt
  <2> QED BY <2>1 DEF InputsIn, Control
<1>4. /\ \A i \in InputsIn(d) : i + 1 \in InputsIn(c) /\ d[i] = c[i + 1] /\ i \in Nat
      /\ \A i \in InputsIn(c) : i \in Nat /\ (i = 1 \/ (i - 1 \in InputsIn(d) /\ d[i - 1] = c[i]))
  BY <1>2, InputsInTail
<1>5. \A i \in InputsIn(d) : 1 < i + 1 /\ i + 1 \in InputsIn(c)
  <2> TAKE i \in InputsIn(d)
  <2>1. i \in 1 .. Len(c) - 1
    BY <1>2, TakenAt DEF InputsIn
  <2> QED BY <1>4, <2>1
<1>6. \A i \in InputsIn(c) : c[i].byte \in Nat
  BY <1>1 DEF InOrderAt
<1>7. Head(c).byte = k + 1 /\ k + 1 \in 0 .. n
  <2>1. c[1].byte \in k + 1 .. n
    BY <1>1, <1>3 DEF InOrderAt
  <2>2. k + 1 \in k + 1 .. n
    BY <2>1
  <2>3. PICK i \in InputsIn(c) : c[i].byte = k + 1
    BY <1>1, <2>2 DEF InOrderAt
  <2>4. i = 1 \/ 1 < i
    BY <1>4, TakenAt DEF InputsIn
  <2>5. 1 < i => c[1].byte < c[i].byte
    BY <1>1, <1>3 DEF InOrderAt
  <2> QED BY <1>3, <2>1, <2>3, <2>4, <2>5
<1>8. \A i \in InputsIn(d) : d[i].byte \in k + 2 .. n
  <2> TAKE i \in InputsIn(d)
  <2>1. d[i].byte \in k + 1 .. n /\ c[1].byte < d[i].byte
    BY <1>1, <1>3, <1>4, <1>5 DEF InOrderAt
  <2> QED BY <1>3, <1>7, <2>1
<1>9. \A b \in k + 2 .. n : \E i \in InputsIn(d) : d[i].byte = b
  <2> TAKE b \in k + 2 .. n
  <2>1. PICK i \in InputsIn(c) : c[i].byte = b
    BY <1>1 DEF InOrderAt
  <2>2. i # 1
    BY <1>3, <1>7, <2>1
  <2> QED BY <1>4, <2>1, <2>2
<1>10. \A i, j \in InputsIn(d) : i < j => d[i].byte < d[j].byte
  <2> TAKE i, j \in InputsIn(d)
  <2>1. i < j => i + 1 < j + 1
    BY <1>4
  <2> QED BY <1>1, <1>4, <2>1 DEF InOrderAt
<1>11. PICK r : r = Append(rx, k + 1)
  OBVIOUS
<1>12. \A i \in DOMAIN r : r[i] = k + 1 - Len(r) + i
  <2>1. r \in Seq(Nat) /\ Len(r) = Len(rx) + 1 /\ r[Len(rx) + 1] = k + 1 /\ Len(rx) \in Nat
        /\ \A i \in 1 .. Len(rx) : r[i] = rx[i]
    BY <1>11, AppendProperties
  <2>2. DOMAIN r = 1 .. Len(rx) + 1 /\ DOMAIN rx = 1 .. Len(rx)
    BY <2>1
  <2>3. \A i \in 1 .. Len(rx) : rx[i] = k - Len(rx) + i
    BY <1>1, <2>2 DEF InOrderAt
  <2> TAKE i \in DOMAIN r
  <2>4. CASE i \in 1 .. Len(rx)
    BY <2>1, <2>3, <2>4
  <2>5. CASE i = Len(rx) + 1
    BY <2>1, <2>5
  <2> QED BY <2>1, <2>2, <2>4, <2>5
<1>13. PICK m \in 0 .. n : m = k + 1
  BY <1>7
<1>14. m + 1 = k + 2
  BY <1>13
<1>15. InOrderAt(m, r, d, n)
  BY SMTT(30), <1>8, <1>9, <1>10, <1>12, <1>13, <1>14 DEF InOrderAt
<1> QED BY <1>2, <1>7, <1>11, <1>15 DEF WaitInOrder

(* Bytes read from the UART leave it from the front, cleared all at once.  *)
LEMMA OrderRead ==
    ASSUME NEW c \in Seq(Control), NEW rx \in Seq(Nat), NEW n \in Nat, WaitInOrder(rx, c, n)
    PROVE  WaitInOrder(<< >>, c, n) /\ (rx # << >> => WaitInOrder(Tail(rx), c, n))
<1>1. PICK k \in 0 .. n : InOrderAt(k, rx, c, n)
  BY DEF WaitInOrder
<1>2. InOrderAt(k, << >>, c, n)
  BY <1>1 DEF InOrderAt
<1>3. ASSUME rx # << >> PROVE InOrderAt(k, Tail(rx), c, n)
  <2>1. PICK r : r = Tail(rx)
    OBVIOUS
  <2>2. r \in Seq(Nat) /\ Len(r) = Len(rx) - 1 /\ Len(rx) \in Nat \ {0}
        /\ \A i \in 1 .. Len(rx) - 1 : r[i] = rx[i + 1]
    BY <1>3, <2>1, HeadTailProperties
  <2>3. DOMAIN r = 1 .. Len(rx) - 1 /\ DOMAIN rx = 1 .. Len(rx)
    BY <2>2
  <2>4. \A i \in DOMAIN r : r[i] = k - Len(r) + i
    <3> TAKE i \in DOMAIN r
    <3>1. i \in 1 .. Len(rx) - 1 /\ i + 1 \in 1 .. Len(rx)
      BY SMTT(30), <2>2, <2>3
    <3>2. r[i] = k - Len(rx) + (i + 1)
      BY <1>1, <2>2, <2>3, <3>1 DEF InOrderAt
    <3> QED BY <2>2, <3>1, <3>2
  <2> QED BY <1>1, <2>1, <2>4 DEF InOrderAt
<1> QED BY <1>2, <1>3 DEF WaitInOrder

LEMMA LeadsSendOther ==
    ASSUME NEW c \in Seq(Control), NEW e \in Control, NEW p, NEW t,
           e.op \notin {"pause", "resume", "reset"}, LeadsTo(c, p, t)
    PROVE  LeadsTo(Append(c, e), p, t)
<1>1. PICK d : d = Append(c, e)
  OBVIOUS
<1>2. /\ DOMAIN d = 1 .. Len(c) + 1 /\ DOMAIN c = 1 .. Len(c) /\ Len(c) \in Nat
      /\ d[Len(c) + 1] = e /\ \A i \in 1 .. Len(c) : d[i] = c[i]
  BY <1>1, SentAt
<1>3. CommandsIn(d) = CommandsIn(c) /\ \A i \in CommandsIn(c) : d[i] = c[i]
  BY <1>2 DEF CommandsIn
<1> QED BY <1>1, <1>3 DEF LeadsTo

LEMMA LeadsSendCommand ==
    ASSUME NEW c \in Seq(Control), NEW e \in Control, NEW p,
           e.op \in {"pause", "resume", "reset"}
    PROVE  LeadsTo(Append(c, e), p, e.op = "pause")
<1>1. PICK d : d = Append(c, e)
  OBVIOUS
<1>2. DOMAIN d = 1 .. Len(c) + 1 /\ Len(c) \in Nat /\ d[Len(c) + 1] = e
  BY <1>1, SentAt
<1>3. Len(c) + 1 \in CommandsIn(d) /\ \A j \in CommandsIn(d) : j <= Len(c) + 1
  BY <1>2 DEF CommandsIn
<1> QED BY <1>1, <1>2, <1>3 DEF LeadsTo

LEMMA LeadsTake ==
    ASSUME NEW c \in Seq(Control), NEW p, NEW t, c # << >>, LeadsTo(c, p, t)
    PROVE  LeadsTo(Tail(c), IF Head(c).op \in {"pause", "resume", "reset"}
                            THEN Head(c).op = "pause" ELSE p, t)
<1>1. PICK d : d = Tail(c)
  OBVIOUS
<1>2. /\ DOMAIN c = 1 .. Len(c) /\ DOMAIN d = 1 .. Len(c) - 1 /\ Len(c) \in Nat \ {0}
      /\ Head(c) = c[1] /\ \A i \in 1 .. Len(c) - 1 : d[i] = c[i + 1]
  BY <1>1, TakenAt
<1>3. \A i \in CommandsIn(d) : i + 1 \in CommandsIn(c) /\ d[i] = c[i + 1] /\ i \in 1 .. Len(c) - 1
  BY <1>2 DEF CommandsIn
<1>4. ASSUME NEW i \in CommandsIn(c), i # 1
      PROVE  i - 1 \in CommandsIn(d) /\ d[i - 1] = c[i] /\ i \in Nat
  <2>1. i \in 1 .. Len(c) /\ i - 1 \in 1 .. Len(c) - 1 /\ (i - 1) + 1 = i
    BY <1>2, <1>4 DEF CommandsIn
  <2> QED BY <1>2, <2>1, <1>4 DEF CommandsIn
<1>5. CASE CommandsIn(c) = {} /\ t = p
  <2>1. CommandsIn(d) = {} /\ Head(c).op \notin {"pause", "resume", "reset"}
    BY <1>2, <1>3, <1>5 DEF CommandsIn
  <2> QED BY <1>1, <1>5, <2>1 DEF LeadsTo
<1>6. ASSUME NEW i \in CommandsIn(c), \A j \in CommandsIn(c) : j <= i, t = (c[i].op = "pause")
      PROVE  LeadsTo(d, IF Head(c).op \in {"pause", "resume", "reset"}
                        THEN Head(c).op = "pause" ELSE p, t)
  <2>1. CASE i = 1
    <3>1. CommandsIn(d) = {}
      <4> SUFFICES ASSUME NEW j \in CommandsIn(d) PROVE FALSE
        OBVIOUS
      <4>1. j + 1 \in CommandsIn(c) /\ j \in 1 .. Len(c) - 1
        BY <1>3
      <4>2. j + 1 <= 1 /\ j \in Nat \ {0}
        BY <1>6, <2>1, <4>1
      <4> QED BY <4>2
    <3>2. Head(c).op \in {"pause", "resume", "reset"} /\ t = (Head(c).op = "pause")
      BY <1>2, <1>6, <2>1 DEF CommandsIn
    <3> QED BY <3>1, <3>2 DEF LeadsTo
  <2>2. CASE i # 1
    <3>1. i - 1 \in CommandsIn(d) /\ d[i - 1] = c[i] /\ i \in Nat
      BY <1>4, <2>2
    <3>2. \A j \in CommandsIn(d) : j <= i - 1
      <4> TAKE j \in CommandsIn(d)
      <4>1. j + 1 <= i /\ j \in Nat
        BY <1>3, <1>6
      <4> QED BY <3>1, <4>1
    <3> QED BY <1>6, <3>1, <3>2 DEF LeadsTo
  <2> QED BY <2>1, <2>2
<1> QED BY <1>1, <1>5, <1>6 DEF LeadsTo
-----------------------------------------------------------------------------
(* Types, with those of the channels; and the guest's thread is there when *)
(* the GUI thread works on its handle.                                     *)
LiveTyped ==
    /\ guests \in 0 .. MaxGuests /\ calls \in 0 .. MaxCalls /\ typed \in 0 .. calls
    /\ gui \in {"idle", "drain", "wait", "join", "frames", "status"}
    /\ after \in {"none", "kill", "launch", "halted"} /\ (after # "none" <=> gui = "join")
    /\ latest \in L!Frames /\ last_frame \in L!Frames /\ since \in L!Frames
    /\ told \in BOOLEAN /\ paused \in BOOLEAN
    /\ thread \in {"none", "load", "head", "batch", "leaving", "ended"}
    /\ left \in 0 .. batch_size /\ (thread = "batch" => left > 0)
    /\ boot \in 0 .. MaxCalls + 1 /\ pixels \in 0 .. MaxDraws
    /\ frames \in Seq(L!Frames) /\ control \in Seq(Control) /\ rx_buf \in Seq(Nat)
    /\ asked \in {"pause", "resume", "reset"} /\ killed \subseteq 1 .. guests
    /\ thread = "none" => gui = "idle" /\ control = << >> /\ frames = << >>

(* Every boot but the first, and every control on its way, was a call of   *)
(* its own; but for the shutdown of a dropped handle, which is the last.   *)
ControlsCounted ==
    /\ gui = "join" => boot + Len(control) <= calls + 2
    /\ gui = "drain" => boot + Len(control) <= calls
    /\ gui \notin {"join", "drain"} => boot + Len(control) <= calls + 1
    /\ gui = "join" /\ L!Alive =>
         control # << >> /\ control[Len(control)].op = "shutdown"

(* From the call of a snapshot on the picture only moves forward.          *)
SinceIsPast == gui \in {"drain", "wait"} => ~L!Older(L!Frame, since)

BytesWait == L!Alive => WaitInOrder(rx_buf, control, typed)
ToldLeadsTo == L!Alive /\ asked # "reset" => LeadsTo(control, paused, told)

(* Frames on their way are of the guest there is.  That one was killed     *)
(* only if its handle is being dropped, and so is the one shown.           *)
KilledKept ==
    /\ \A i \in DOMAIN frames : frames[i].guest = guests
    /\ latest.guest \in 0 .. guests
    /\ thread # "none" => guests >= 1
    /\ after = "launch" => guests < MaxGuests
    /\ gui # "join" \/ after = "halted" =>
         latest.guest \notin killed /\ (thread # "none" => guests \notin killed)

LiveInv ==
    /\ LiveTyped /\ ControlsCounted
    /\ SinceIsPast /\ L!AnswersAreRecent
    /\ BytesWait /\ ToldLeadsTo
    /\ KilledKept

LEMMA NewBuffers ==
    /\ << >> \in Seq(Control) /\ << >> \in Seq(L!Frames) /\ << >> \in Seq(Nat)
    /\ Len(<< >>) = 0 /\ DOMAIN << >> = {}
    /\ WaitInOrder(<< >>, << >>, 0) /\ LeadsTo(<< >>, FALSE, FALSE)
<1>1. DOMAIN << >> = {} /\ Len(<< >>) = 0
  OBVIOUS
<1>2. InputsIn(<< >>) = {} /\ CommandsIn(<< >>) = {}
  BY <1>1 DEF InputsIn, CommandsIn
<1>3. InOrderAt(0, << >>, << >>, 0)
  BY <1>1, <1>2 DEF InOrderAt
<1> QED BY <1>1, <1>2, <1>3 DEF WaitInOrder, LeadsTo

LEMMA NoFrameTyped == L!NoFrame \in L!Frames /\ L!NoFrame.guest = 0
BY LiveAssumption DEF L!NoFrame, L!Frames

LEMMA FrameTyped ==
    ASSUME LiveTyped
    PROVE  L!Frame \in L!Frames /\ L!Frame.guest = guests /\ L!Frame.boot = boot
           /\ L!Frame.pixels = pixels
BY DEF LiveTyped, L!Frame, L!Frames

LEMMA FramesTail ==
    ASSUME NEW s \in Seq(L!Frames), s # << >>
    PROVE  /\ Tail(s) \in Seq(L!Frames) /\ Head(s) = s[1] /\ s[1] \in L!Frames /\ 1 \in DOMAIN s
           /\ \A i \in DOMAIN Tail(s) : i + 1 \in DOMAIN s /\ Tail(s)[i] = s[i + 1]
<1>1. PICK t : t = Tail(s)
  OBVIOUS
<1>2. t \in Seq(L!Frames) /\ Len(t) = Len(s) - 1 /\ \A i \in 1 .. Len(s) - 1 : t[i] = s[i + 1]
  BY <1>1, HeadTailProperties
<1>3. DOMAIN s = 1 .. Len(s) /\ DOMAIN t = 1 .. Len(t) /\ Len(s) \in Nat \ {0}
      /\ Head(s) = s[1] /\ s[1] \in L!Frames
  BY <1>2
<1> QED BY <1>1, <1>2, <1>3

LEMMA FramesAppend ==
    ASSUME NEW s \in Seq(L!Frames), NEW e \in L!Frames
    PROVE  /\ Append(s, e) \in Seq(L!Frames)
           /\ \A i \in DOMAIN Append(s, e) :
                (i \in DOMAIN s /\ Append(s, e)[i] = s[i]) \/ Append(s, e)[i] = e
<1>1. PICK t : t = Append(s, e)
  OBVIOUS
<1>2. t \in Seq(L!Frames) /\ Len(t) = Len(s) + 1 /\ t[Len(s) + 1] = e
      /\ \A i \in 1 .. Len(s) : t[i] = s[i]
  BY <1>1, AppendProperties
<1>3. DOMAIN s = 1 .. Len(s) /\ DOMAIN t = 1 .. Len(s) + 1 /\ Len(s) \in Nat
  BY <1>2
<1> QED BY <1>1, <1>2, <1>3

LEMMA LiveStarts == L!Init => LiveInv
<1> SUFFICES ASSUME L!Init PROVE LiveInv
  OBVIOUS
<1>1. LiveTyped
  <2>1. /\ batch_size \in Nat \ {0} /\ MaxGuests \in Nat /\ MaxCalls \in Nat /\ MaxDraws \in Nat
        /\ L!NoFrame \in L!Frames
        /\ << >> \in Seq(Control) /\ << >> \in Seq(L!Frames) /\ << >> \in Seq(Nat)
    BY LiveAssumption, NewBuffers, NoFrameTyped
  <2>2. frames \in Seq(L!Frames) /\ control \in Seq(Control) /\ rx_buf \in Seq(Nat)
        /\ latest \in L!Frames /\ last_frame \in L!Frames /\ since \in L!Frames
    BY <2>1, Zenon DEF L!Init
  <2>3. /\ guests \in 0 .. MaxGuests /\ calls \in 0 .. MaxCalls /\ typed \in 0 .. calls
        /\ left \in 0 .. batch_size /\ boot \in 0 .. MaxCalls + 1 /\ pixels \in 0 .. MaxDraws
        /\ told \in BOOLEAN /\ paused \in BOOLEAN
    <3>1. \A n \in Nat : 0 \in 0 .. n
      OBVIOUS
    <3>2. MaxGuests \in Nat /\ MaxCalls \in Nat /\ 0 \in Nat /\ batch_size \in Nat
          /\ MaxCalls + 1 \in Nat /\ MaxDraws \in Nat
      BY <2>1
    <3>3. guests = 0 /\ calls = 0 /\ typed = 0 /\ left = 0 /\ boot = 0 /\ pixels = 0
          /\ told = FALSE /\ paused = FALSE
      BY DEF L!Init
    <3> QED BY <3>1, <3>2, <3>3
  <2>4. /\ gui = "idle" /\ after = "none" /\ thread = "none" /\ asked = "resume"
        /\ control = << >> /\ frames = << >> /\ killed \subseteq 1 .. guests
    BY DEF L!Init
  <2> QED BY <2>2, <2>3, <2>4 DEF LiveTyped
<1>2. ControlsCounted /\ SinceIsPast /\ L!AnswersAreRecent /\ BytesWait /\ ToldLeadsTo
  BY LiveAssumption, NewBuffers
     DEF L!Init, ControlsCounted, SinceIsPast, L!AnswersAreRecent, BytesWait, ToldLeadsTo, L!Alive
<1>3. KilledKept
  BY LiveAssumption, NewBuffers, NoFrameTyped DEF L!Init, KilledKept
<1> QED BY <1>1, <1>2, <1>3 DEF LiveInv

(* What a control sent does to the channel. *)
LEMMA SentKeeps ==
    ASSUME LiveInv, NEW op \in Ops, NEW byte \in Nat
    PROVE  /\ L!Sent(op, byte) \in Seq(Control)
           /\ Len(control) \in Nat /\ Len(L!Sent(op, byte)) \in Nat
           /\ Len(L!Sent(op, byte)) <= Len(control) + 1
           /\ L!Alive => /\ L!Sent(op, byte) # << >>
                         /\ L!Sent(op, byte)[Len(L!Sent(op, byte))].op = op
           /\ L!Alive /\ op # "input" => WaitInOrder(rx_buf, L!Sent(op, byte), typed)
           /\ L!Alive /\ op = "input" /\ byte = typed + 1 =>
                WaitInOrder(rx_buf, L!Sent(op, byte), typed + 1)
           /\ L!Alive /\ asked # "reset" /\ op \notin {"pause", "resume", "reset"} =>
                LeadsTo(L!Sent(op, byte), paused, told)
           /\ L!Alive /\ op \in {"pause", "resume", "reset"} =>
                LeadsTo(L!Sent(op, byte), paused, op = "pause")
<1> DEFINE e == [op |-> op, byte |-> byte]
<1>1. e \in Control /\ e.op = op /\ e.byte = byte
  BY DEF Control
<1>2. control \in Seq(Control) /\ Len(control) \in Nat /\ rx_buf \in Seq(Nat) /\ typed \in Nat
  BY DEF LiveInv, LiveTyped
<1>3. CASE thread \in {"leaving", "ended"}
  BY <1>2, <1>3 DEF L!Sent, L!Alive
<1>4. CASE thread \notin {"leaving", "ended"}
  <2>1. L!Sent(op, byte) = Append(control, e)
    BY <1>4 DEF L!Sent
  <2> HIDE DEF e
  <2>2. PICK d : d = Append(control, e)
    OBVIOUS
  <2>3. d \in Seq(Control) /\ Len(d) = Len(control) + 1 /\ d[Len(d)] = e
    BY <1>1, <1>2, <2>2, SentAt
  <2>4. d # << >>
    BY <1>2, <2>3
  <2>5. L!Alive /\ op # "input" => WaitInOrder(rx_buf, d, typed)
    BY <1>1, <1>2, <2>2, OrderSendOther DEF LiveInv, BytesWait
  <2>6. L!Alive /\ op = "input" /\ byte = typed + 1 => WaitInOrder(rx_buf, d, typed + 1)
    <3> SUFFICES ASSUME L!Alive, op = "input", byte = typed + 1
                 PROVE  WaitInOrder(rx_buf, d, typed + 1)
      OBVIOUS
    <3>1. WaitInOrder(rx_buf, Append(control, [op |-> "input", byte |-> typed + 1]), typed + 1)
      BY <1>2, OrderSendInput DEF LiveInv, BytesWait
    <3>2. e = [op |-> "input", byte |-> typed + 1]
      BY DEF e
    <3> QED BY <2>2, <3>1, <3>2
  <2>7. L!Alive /\ asked # "reset" /\ op \notin {"pause", "resume", "reset"} => LeadsTo(d, paused, told)
    BY <1>1, <1>2, <2>2, LeadsSendOther DEF LiveInv, ToldLeadsTo
  <2>8. op \in {"pause", "resume", "reset"} => LeadsTo(d, paused, op = "pause")
    <3> SUFFICES ASSUME op \in {"pause", "resume", "reset"} PROVE LeadsTo(d, paused, op = "pause")
      OBVIOUS
    <3>1. LeadsTo(Append(control, e), paused, e.op = "pause")
      BY <1>1, <1>2, LeadsSendCommand
    <3> QED BY <1>1, <2>2, <3>1
  <2>9. L!Sent(op, byte) = d
    BY <2>1, <2>2
  <2> QED BY <1>1, <1>2, <2>3, <2>4, <2>5, <2>6, <2>7, <2>8, <2>9
<1> QED BY <1>3, <1>4

LEMMA SendInputKeeps == LiveInv /\ L!SendInput => LiveInv'
<1> SUFFICES ASSUME LiveInv, L!SendInput PROVE LiveInv'
  OBVIOUS
<1>0. LiveTyped /\ typed + 1 \in Nat /\ "input" \in Ops
  BY DEF LiveInv, LiveTyped, Ops
<1>1. /\ gui = "idle" /\ thread # "none" /\ calls < MaxCalls /\ calls' = calls + 1
      /\ typed' = typed + 1 /\ control' = L!Sent("input", typed + 1)
      /\ UNCHANGED <<guests, gui, after, latest, last_frame, told, thread, paused, left, boot,
                     pixels, rx_buf, frames, status, asked, killed, since>>
  BY DEF L!SendInput, L!MayCall, L!Idle, L!handle, L!machine
<1>2. /\ control' \in Seq(Control) /\ Len(control) \in Nat /\ Len(control') \in Nat
      /\ Len(control') <= Len(control) + 1
      /\ L!Alive => WaitInOrder(rx_buf, control', typed + 1)
      /\ L!Alive /\ asked # "reset" => LeadsTo(control', paused, told)
  BY <1>0, <1>1, SentKeeps
<1>3. LiveTyped'
  BY SMTT(30), <1>0, <1>1, <1>2, LiveAssumption DEF LiveTyped
<1>4. ControlsCounted'
  BY <1>0, <1>1, <1>2 DEF LiveInv, LiveTyped, ControlsCounted
<1>5. (SinceIsPast /\ L!AnswersAreRecent)'
  BY <1>1 DEF LiveInv, SinceIsPast, L!AnswersAreRecent, L!Frame
<1>6. (BytesWait /\ ToldLeadsTo)'
  BY <1>1, <1>2 DEF BytesWait, ToldLeadsTo, L!Alive
<1>7. KilledKept'
  BY <1>1 DEF LiveInv, KilledKept
<1> QED BY <1>3, <1>4, <1>5, <1>6, <1>7 DEF LiveInv

LEMMA CommandKeeps ==
    ASSUME LiveInv, NEW op \in {"pause", "resume", "reset"}, L!Command(op)
    PROVE  LiveInv'
<1>0. LiveTyped /\ op \in Ops
  BY DEF LiveInv, LiveTyped, Ops
<1>1. /\ gui = "idle" /\ thread # "none" /\ calls < MaxCalls /\ calls' = calls + 1
      /\ control' = L!Sent(op, 0) /\ told' = L!ToldAfter(op) /\ asked' = op
      /\ UNCHANGED <<guests, gui, after, latest, last_frame, thread, paused, left, boot,
                     pixels, rx_buf, frames, status, typed, killed, since>>
  BY DEF L!Command, L!MayCall, L!Idle, L!machine
<1>2. /\ control' \in Seq(Control) /\ Len(control) \in Nat /\ Len(control') \in Nat
      /\ Len(control') <= Len(control) + 1
      /\ L!Alive => WaitInOrder(rx_buf, control', typed)
      /\ L!Alive => LeadsTo(control', paused, op = "pause")
  BY <1>0, <1>1, SentKeeps
<1>3. told' \in BOOLEAN /\ (op # "reset" => told' = (op = "pause"))
  BY <1>0, <1>1 DEF L!ToldAfter, LiveTyped
<1>4. LiveTyped'
  BY <1>0, <1>1, <1>2, <1>3, LiveAssumption DEF LiveTyped
<1>5. ControlsCounted'
  BY <1>0, <1>1, <1>2 DEF LiveInv, LiveTyped, ControlsCounted
<1>6. (SinceIsPast /\ L!AnswersAreRecent)'
  BY <1>1 DEF LiveInv, SinceIsPast, L!AnswersAreRecent, L!Frame
<1>7. (BytesWait /\ ToldLeadsTo)'
  BY <1>1, <1>2, <1>3 DEF BytesWait, ToldLeadsTo, L!Alive
<1>8. KilledKept'
  BY <1>1 DEF LiveInv, KilledKept
<1> QED BY <1>4, <1>5, <1>6, <1>7, <1>8 DEF LiveInv

LEMMA SnapshotBeginsKeeps == LiveInv /\ L!SnapshotBegins => LiveInv'
<1> SUFFICES ASSUME LiveInv, L!SnapshotBegins PROVE LiveInv'
  OBVIOUS
<1>0. LiveTyped /\ L!Frame \in L!Frames
  BY FrameTyped DEF LiveInv
<1>1. /\ gui = "idle" /\ thread # "none" /\ calls < MaxCalls /\ calls' = calls + 1
      /\ gui' = "drain" /\ since' = L!Frame
      /\ UNCHANGED <<guests, after, latest, last_frame, told, thread, paused, left, boot,
                     pixels, rx_buf, control, frames, status, typed, asked, killed>>
  BY DEF L!SnapshotBegins, L!MayCall, L!Idle, L!handle, L!machine
<1>2. LiveTyped'
  BY <1>0, <1>1, LiveAssumption DEF LiveTyped
<1>3. ControlsCounted'
  BY <1>0, <1>1 DEF LiveInv, LiveTyped, ControlsCounted
<1>4. L!Frame' = L!Frame /\ boot \in Nat /\ pixels \in Nat
  BY <1>0, <1>1 DEF L!Frame, LiveTyped
<1>5. (SinceIsPast /\ L!AnswersAreRecent)'
  BY <1>0, <1>1, <1>4, FrameTyped DEF SinceIsPast, L!AnswersAreRecent, L!Older
<1>6. (BytesWait /\ ToldLeadsTo)'
  BY <1>1 DEF LiveInv, BytesWait, ToldLeadsTo, L!Alive
<1>7. KilledKept'
  BY <1>0, <1>1 DEF LiveInv, LiveTyped, KilledKept
<1> QED BY <1>2, <1>3, <1>5, <1>6, <1>7 DEF LiveInv

LEMMA SnapshotDrainsKeeps == LiveInv /\ L!SnapshotDrains => LiveInv'
<1> SUFFICES ASSUME LiveInv, L!SnapshotDrains PROVE LiveInv'
  OBVIOUS
<1>0. LiveTyped /\ "snapshot" \in Ops /\ 0 \in Nat
  BY DEF LiveInv, Ops
<1>1. /\ gui = "drain"
      /\ UNCHANGED <<guests, after, latest, last_frame, told, thread, paused, left, boot,
                     pixels, rx_buf, status, calls, typed, asked, killed, since>>
  BY DEF L!SnapshotDrains, L!handle, L!machine, L!ghosts
<1>2. CASE frames = << >>
  <2>1. gui' = "wait" /\ control' = L!Sent("snapshot", 0) /\ frames' = frames
    BY <1>2 DEF L!SnapshotDrains, L!Drained
  <2>2. /\ control' \in Seq(Control) /\ Len(control) \in Nat /\ Len(control') \in Nat
        /\ Len(control') <= Len(control) + 1
        /\ L!Alive => WaitInOrder(rx_buf, control', typed)
        /\ L!Alive /\ asked # "reset" => LeadsTo(control', paused, told)
    BY <1>0, <2>1, SentKeeps
  <2>3. LiveTyped'
    BY <1>0, <1>1, <2>1, <2>2 DEF LiveTyped
  <2>4. ControlsCounted'
    BY <1>0, <1>1, <2>1, <2>2 DEF LiveInv, LiveTyped, ControlsCounted
  <2>5. (SinceIsPast /\ L!AnswersAreRecent)'
    BY <1>1, <1>2, <2>1, NewBuffers DEF LiveInv, SinceIsPast, L!AnswersAreRecent, L!Frame
  <2>6. (BytesWait /\ ToldLeadsTo)'
    BY <1>1, <2>2 DEF BytesWait, ToldLeadsTo, L!Alive
  <2>7. KilledKept'
    BY <1>0, <1>1, <2>1 DEF LiveInv, LiveTyped, KilledKept
  <2> QED BY <2>3, <2>4, <2>5, <2>6, <2>7 DEF LiveInv
<1>3. CASE frames # << >>
  <2>1. frames' = Tail(frames) /\ gui' = gui /\ control' = control
    BY <1>3 DEF L!SnapshotDrains, L!Drained
  <2>2. PICK f : f = Tail(frames)
    OBVIOUS
  <2>3. f \in Seq(L!Frames) /\ \A i \in DOMAIN f : i + 1 \in DOMAIN frames /\ f[i] = frames[i + 1]
    BY <1>0, <1>3, <2>2, FramesTail DEF LiveTyped
  <2>4. LiveTyped'
    BY <1>0, <1>1, <2>1, <2>2, <2>3 DEF LiveTyped
  <2>5. ControlsCounted'
    BY <1>1, <2>1 DEF LiveInv, ControlsCounted, L!Alive
  <2>6. (SinceIsPast /\ L!AnswersAreRecent)'
    BY <1>1, <2>1 DEF LiveInv, SinceIsPast, L!AnswersAreRecent, L!Frame
  <2>7. (BytesWait /\ ToldLeadsTo)'
    BY <1>1, <2>1 DEF LiveInv, BytesWait, ToldLeadsTo, L!Alive
  <2>8. KilledKept'
    BY <1>1, <2>1, <2>2, <2>3 DEF LiveInv, KilledKept
  <2> QED BY <2>4, <2>5, <2>6, <2>7, <2>8 DEF LiveInv
<1> QED BY <1>2, <1>3

LEMMA SnapshotWaitsKeeps == LiveInv /\ L!SnapshotWaits => LiveInv'
<1> SUFFICES ASSUME LiveInv, L!SnapshotWaits PROVE LiveInv'
  OBVIOUS
<1>0. LiveTyped /\ L!NoFrame \in L!Frames
  BY NoFrameTyped DEF LiveInv
<1>1. /\ gui = "wait" /\ gui' = "idle" /\ since' = L!NoFrame
      /\ UNCHANGED <<guests, after, latest, told, thread, paused, left, boot,
                     pixels, rx_buf, control, status, calls, typed, asked, killed>>
  BY DEF L!SnapshotWaits, L!machine
<1>2. PICK f : f = frames'
  OBVIOUS
<1>3. /\ f \in Seq(L!Frames) /\ last_frame' \in L!Frames
      /\ \A i \in DOMAIN f : \E j \in DOMAIN frames : f[i] = frames[j]
  <2>1. frames \in Seq(L!Frames) /\ last_frame \in L!Frames
    BY <1>0 DEF LiveTyped
  <2>2. CASE frames = << >>
    BY <1>2, <2>1, <2>2 DEF L!SnapshotWaits
  <2>3. CASE frames # << >>
    <3>1. f = Tail(frames) /\ last_frame' = Head(frames)
      BY <1>2, <2>3 DEF L!SnapshotWaits
    <3> QED BY <2>1, <2>3, <3>1, FramesTail
  <2> QED BY <2>2, <2>3
<1>4. thread # "none"
  BY <1>0, <1>1 DEF LiveTyped
<1>5. LiveTyped'
  BY <1>0, <1>1, <1>2, <1>3, <1>4 DEF LiveTyped
<1>6. ControlsCounted'
  BY <1>1 DEF LiveInv, ControlsCounted, L!Alive
<1>7. (SinceIsPast /\ L!AnswersAreRecent)'
  BY <1>1 DEF SinceIsPast, L!AnswersAreRecent
<1>8. (BytesWait /\ ToldLeadsTo)'
  BY <1>1 DEF LiveInv, BytesWait, ToldLeadsTo, L!Alive
<1>9. KilledKept'
  BY <1>1, <1>2, <1>3 DEF LiveInv, KilledKept
<1> QED BY <1>5, <1>6, <1>7, <1>8, <1>9 DEF LiveInv

(* A dropped handle, whatever else the GUI thread does in that step. *)
LEMMA DropsKeeps ==
    ASSUME LiveInv, NEW why \in {"kill", "launch", "halted"}, L!Drops(why),
           gui \in {"idle", "status"}, thread # "none", why = "launch" => guests < MaxGuests,
           UNCHANGED <<guests, latest, last_frame, told, thread, paused, left, boot, pixels,
                       rx_buf, frames, calls, typed, asked, since>>
    PROVE  LiveInv'
<1>0. LiveTyped /\ "shutdown" \in Ops /\ 0 \in Nat
  BY DEF LiveInv, Ops
<1>1. /\ gui' = "join" /\ after' = why /\ control' = L!Sent("shutdown", 0)
      /\ killed' = IF why = "halted" THEN killed ELSE killed \cup {guests}
  BY DEF L!Drops
<1>2. /\ control' \in Seq(Control) /\ Len(control) \in Nat /\ Len(control') \in Nat
      /\ Len(control') <= Len(control) + 1
      /\ L!Alive => control' # << >> /\ control'[Len(control')].op = "shutdown"
      /\ L!Alive => WaitInOrder(rx_buf, control', typed)
      /\ L!Alive /\ asked # "reset" => LeadsTo(control', paused, told)
  BY <1>0, <1>1, SentKeeps
<1>3. killed' \subseteq 1 .. guests
  <2>1. guests \in Nat /\ guests >= 1 /\ killed \subseteq 1 .. guests
    BY <1>0 DEF LiveInv, LiveTyped, KilledKept
  <2> QED BY <1>1, <2>1
<1>4. LiveTyped'
  BY <1>0, <1>1, <1>2, <1>3 DEF LiveTyped
<1>5. ControlsCounted'
  <2>1. boot + Len(control) <= calls + 1 /\ boot \in Nat /\ calls \in Nat
    BY <1>0 DEF LiveInv, LiveTyped, ControlsCounted
  <2> QED BY <1>1, <1>2, <2>1 DEF ControlsCounted, L!Alive
<1>6. (SinceIsPast /\ L!AnswersAreRecent)'
  BY <1>1 DEF SinceIsPast, L!AnswersAreRecent
<1>7. (BytesWait /\ ToldLeadsTo)'
  BY <1>2 DEF BytesWait, ToldLeadsTo, L!Alive
<1>8. KilledKept'
  BY <1>1 DEF LiveInv, KilledKept
<1> QED BY <1>4, <1>5, <1>6, <1>7, <1>8 DEF LiveInv

LEMMA KillKeeps ==
    ASSUME LiveInv, NEW why \in {"kill", "launch"}, L!Kill(why)
    PROVE  LiveInv'
<1>1. /\ L!Drops(why) /\ gui = "idle" /\ thread # "none" /\ (why = "launch" => guests < MaxGuests)
      /\ UNCHANGED <<guests, latest, last_frame, told, thread, paused, left, boot, pixels,
                     rx_buf, frames, calls, typed, asked, since>>
  BY DEF L!Kill, L!Idle, L!handle, L!machine
<1> QED BY <1>1, DropsKeeps

LEMMA PollStatusKeeps == LiveInv /\ L!PollStatus => LiveInv'
<1> SUFFICES ASSUME LiveInv, L!PollStatus PROVE LiveInv'
  OBVIOUS
<1>1. /\ gui = "status"
      /\ UNCHANGED <<guests, latest, last_frame, told, thread, paused, left, boot, pixels,
                     rx_buf, frames, calls, typed, asked, since>>
  BY DEF L!PollStatus, L!handle, L!machine
<1>2. thread # "none" /\ LiveTyped
  BY <1>1 DEF LiveInv, LiveTyped
<1>3. CASE L!Drops("halted")
  BY <1>1, <1>2, <1>3, DropsKeeps
<1>4. CASE gui' \in {"idle", "status"} /\ UNCHANGED <<after, control, killed>>
  <2>1. LiveTyped'
    BY <1>1, <1>2, <1>4 DEF LiveTyped
  <2>2. ControlsCounted'
    BY <1>1, <1>4 DEF LiveInv, ControlsCounted, L!Alive
  <2>3. (SinceIsPast /\ L!AnswersAreRecent)'
    BY <1>4 DEF SinceIsPast, L!AnswersAreRecent
  <2>4. (BytesWait /\ ToldLeadsTo)'
    BY <1>1, <1>4 DEF LiveInv, BytesWait, ToldLeadsTo, L!Alive
  <2>5. KilledKept'
    BY <1>1, <1>4 DEF LiveInv, KilledKept
  <2> QED BY <2>1, <2>2, <2>3, <2>4, <2>5 DEF LiveInv
<1> QED BY <1>1, <1>3, <1>4 DEF L!PollStatus

LEMMA PollKeeps == LiveInv /\ (L!PollBegins \/ L!PollFrames) => LiveInv'
<1> SUFFICES ASSUME LiveInv, L!PollBegins \/ L!PollFrames PROVE LiveInv'
  OBVIOUS
<1>1. /\ gui \in {"idle", "frames"} /\ gui' \in {"frames", "status"} /\ thread # "none"
      /\ UNCHANGED <<guests, after, last_frame, told, thread, paused, left, boot, pixels, control,
                     rx_buf, status, calls, typed, asked, killed, since>>
  BY DEF L!PollBegins, L!PollFrames, L!Idle, L!handle, L!machine, L!ghosts, LiveInv, LiveTyped
<1>2. PICK f : f = frames'
  OBVIOUS
<1>3. /\ f \in Seq(L!Frames) /\ latest' \in L!Frames
      /\ \A i \in DOMAIN f : \E j \in DOMAIN frames : f[i] = frames[j]
      /\ latest' = latest \/ \E j \in DOMAIN frames : latest' = frames[j]
  <2>1. frames \in Seq(L!Frames) /\ latest \in L!Frames
    BY DEF LiveInv, LiveTyped
  <2>2. CASE f = frames /\ latest' = latest
    BY <2>1, <2>2
  <2>3. CASE frames # << >> /\ latest' = Head(frames) /\ f = Tail(frames)
    BY <2>1, <2>3, FramesTail
  <2> QED BY <1>2, <2>2, <2>3 DEF L!PollBegins, L!PollFrames
<1>4. LiveTyped'
  BY <1>1, <1>2, <1>3 DEF LiveInv, LiveTyped
<1>5. ControlsCounted'
  BY <1>1 DEF LiveInv, ControlsCounted, L!Alive
<1>6. (SinceIsPast /\ L!AnswersAreRecent)'
  BY <1>1 DEF SinceIsPast, L!AnswersAreRecent
<1>7. (BytesWait /\ ToldLeadsTo)'
  BY <1>1 DEF LiveInv, BytesWait, ToldLeadsTo, L!Alive
<1>8. KilledKept'
  <2>1. guests \in Nat /\ latest'.guest \in 0 .. guests /\ latest'.guest \notin killed
    BY <1>1, <1>3 DEF LiveInv, LiveTyped, KilledKept
  <2> QED BY <1>1, <1>2, <1>3, <2>1 DEF LiveInv, KilledKept
<1> QED BY <1>4, <1>5, <1>6, <1>7, <1>8 DEF LiveInv

(* A new guest, or none: nothing is on its way between the threads.        *)
LEMMA FreshKeeps ==
    ASSUME LiveInv, L!Fresh,
           gui' = "idle", after' = "none", calls' = calls, killed' = killed, since' = since,
           latest' \in L!Frames, latest'.guest \in 0 .. guests, latest'.guest \notin killed,
           \/ guests' = guests + 1 /\ guests < MaxGuests /\ thread' = "load" /\ boot' = 1
           \/ guests' = guests /\ thread' = "none" /\ boot' = 0
    PROVE  LiveInv'
<1>0. LiveTyped
  BY DEF LiveInv
<1>1. /\ last_frame' = L!NoFrame /\ told' = FALSE /\ paused' = FALSE /\ left' = 0 /\ pixels' = 0
      /\ rx_buf' = << >> /\ control' = << >> /\ frames' = << >> /\ typed' = 0 /\ asked' = "resume"
  BY DEF L!Fresh
<1>2. guests' \in 0 .. MaxGuests /\ killed' \subseteq 1 .. guests' /\ guests' \in {guests, guests + 1}
  BY SMTT(30), <1>0, LiveAssumption DEF LiveTyped
<1>3. boot' \in 0 .. MaxCalls + 1 /\ batch_size \in Nat /\ MaxDraws \in Nat
  BY LiveAssumption
<1>4. LiveTyped'
  <2>1. frames' \in Seq(L!Frames) /\ control' \in Seq(Control) /\ rx_buf' \in Seq(Nat)
        /\ last_frame' \in L!Frames
    BY <1>1, NewBuffers, NoFrameTyped, Zenon
  <2>2. calls \in Nat /\ 0 \in 0 .. batch_size /\ 0 \in 0 .. MaxDraws /\ 0 \in 0 .. calls
    BY <1>0, <1>3 DEF LiveTyped
  <2> QED BY <1>0, <1>1, <1>2, <1>3, <2>1, <2>2 DEF LiveTyped
<1>5. ControlsCounted'
  BY <1>0, <1>1, NewBuffers DEF ControlsCounted, LiveTyped
<1>6. (SinceIsPast /\ L!AnswersAreRecent)'
  BY DEF SinceIsPast, L!AnswersAreRecent
<1>7. (BytesWait /\ ToldLeadsTo)'
  BY <1>1, NewBuffers DEF BytesWait, ToldLeadsTo
<1>8. KilledKept'
  <2>1. guests \in Nat /\ killed \subseteq 1 .. guests
    BY <1>0 DEF LiveTyped
  <2>2. guests + 1 \notin killed /\ latest'.guest \in 0 .. guests'
    BY <1>2, <2>1
  <2> QED BY <1>1, <2>1, <2>2, NewBuffers DEF KilledKept
<1> QED BY <1>4, <1>5, <1>6, <1>7, <1>8 DEF LiveInv

LEMMA LaunchKeeps == LiveInv /\ L!Launch => LiveInv'
<1> SUFFICES ASSUME LiveInv, L!Launch PROVE LiveInv'
  OBVIOUS
<1>1. /\ gui = "idle" /\ guests < MaxGuests /\ L!Fresh
      /\ guests' = guests + 1 /\ thread' = "load" /\ boot' = 1
      /\ UNCHANGED <<gui, after, latest, calls, killed, since>>
  BY DEF L!Launch, L!Spawned
<1>2. after = "none" /\ latest \in L!Frames
  BY <1>1 DEF LiveInv, LiveTyped
<1>3. latest.guest \in 0 .. guests /\ latest.guest \notin killed
  BY <1>1 DEF LiveInv, KilledKept
<1> QED BY <1>1, <1>2, <1>3, FreshKeeps

LEMMA JoinsKeeps == LiveInv /\ L!Joins => LiveInv'
<1> SUFFICES ASSUME LiveInv, L!Joins PROVE LiveInv'
  OBVIOUS
<1>1. /\ gui = "join" /\ gui' = "idle" /\ after' = "none" /\ L!Fresh
      /\ latest' = L!LatestAfter(after) /\ UNCHANGED <<calls, killed, since>>
      /\ IF after = "launch" THEN guests' = guests + 1 /\ thread' = "load" /\ boot' = 1
         ELSE guests' = guests /\ thread' = "none" /\ boot' = 0
  BY DEF L!Joins, L!Spawned
<1>2. after = "launch" => guests < MaxGuests
  BY DEF LiveInv, KilledKept
<1>3. /\ latest' \in L!Frames /\ latest'.guest \in 0 .. guests /\ latest'.guest \notin killed
  <2>1. guests \in Nat /\ killed \subseteq 1 .. guests /\ latest \in L!Frames
    BY DEF LiveInv, LiveTyped
  <2>2. CASE after = "halted"
    BY <1>1, <2>1, <2>2 DEF L!LatestAfter, LiveInv, KilledKept
  <2>3. CASE after # "halted"
    BY <1>1, <2>1, <2>3, NoFrameTyped DEF L!LatestAfter
  <2> QED BY <2>2, <2>3
<1> QED BY <1>1, <1>2, <1>3, FreshKeeps
-----------------------------------------------------------------------------
(* The guest's thread: what it keeps of the GUI thread's, and what of its  *)
(* own it must give account of.                                            *)
LEMMA ThreadKeeps ==
    ASSUME LiveInv, thread # "none",
           UNCHANGED <<guests, gui, after, latest, last_frame, told, calls, typed, asked,
                       killed, since>>,
           thread' \in {"load", "head", "batch", "leaving", "ended"},
           left' \in 0 .. batch_size, thread' = "batch" => left' > 0,
           paused' \in BOOLEAN, boot' \in 0 .. MaxCalls + 1, pixels' \in 0 .. MaxDraws,
           control' \in Seq(Control), rx_buf' \in Seq(Nat),
           frames' = frames \/ frames' = Append(frames, L!Frame),
           boot' + Len(control') <= boot + Len(control),
           boot' > boot \/ (boot' = boot /\ pixels' >= pixels),
           gui = "join" /\ L!Alive' => control' # << >> /\ control'[Len(control')].op = "shutdown",
           BytesWait', ToldLeadsTo'
    PROVE  LiveInv'
<1>0. LiveTyped /\ L!Frame \in L!Frames /\ L!Frame.guest = guests
      /\ L!Frame.boot = boot /\ L!Frame.pixels = pixels
  BY FrameTyped DEF LiveInv
<1>1. PICK f : f = frames'
  OBVIOUS
<1>2. /\ f \in Seq(L!Frames)
      /\ \A i \in DOMAIN f : (i \in DOMAIN frames /\ f[i] = frames[i]) \/ f[i] = L!Frame
  BY <1>0, <1>1, FramesAppend DEF LiveTyped
<1>3. LiveTyped'
  BY <1>0, <1>1, <1>2 DEF LiveTyped
<1>4. Len(control) \in Nat /\ Len(control') \in Nat /\ boot \in Nat /\ boot' \in Nat /\ calls \in Nat
  BY SMTT(30), <1>0 DEF LiveTyped
<1>5. ControlsCounted'
  BY <1>4 DEF LiveInv, ControlsCounted
<1>6. SinceIsPast'
  <2>1. L!Frame'.boot = boot' /\ L!Frame'.pixels = pixels'
    BY DEF L!Frame
  <2>2. since.boot \in Nat /\ since.pixels \in Nat /\ boot \in Nat /\ pixels \in Nat
        /\ boot' \in Nat /\ pixels' \in Nat
    BY <1>0 DEF LiveTyped, L!Frames
  <2> QED BY <1>0, <2>1, <2>2 DEF LiveInv, SinceIsPast, L!Older
<1>7. L!AnswersAreRecent'
  BY <1>1, <1>2 DEF LiveInv, SinceIsPast, L!AnswersAreRecent, L!Older
<1>8. KilledKept'
  BY <1>0, <1>1, <1>2 DEF LiveInv, KilledKept
<1> QED BY <1>3, <1>5, <1>6, <1>7, <1>8 DEF LiveInv

LEMMA ThreadTyped ==
    ASSUME LiveInv
    PROVE  /\ left \in 0 .. batch_size /\ batch_size \in Nat \ {0}
           /\ thread = "batch" => left > 0
           /\ paused \in BOOLEAN /\ boot \in 0 .. MaxCalls + 1 /\ pixels \in 0 .. MaxDraws
           /\ control \in Seq(Control) /\ rx_buf \in Seq(Nat) /\ Len(control) \in Nat
           /\ MaxDraws \in Nat /\ MaxCalls \in Nat
BY LiveAssumption DEF LiveInv, LiveTyped

(* Steps that leave the machine and the controls alone.                    *)
LEMMA EndsKeeps ==
    LiveInv /\ (L!Loads \/ L!Leaves \/ L!Halts) => LiveInv'
<1> SUFFICES ASSUME LiveInv, L!Loads \/ L!Leaves \/ L!Halts PROVE LiveInv'
  OBVIOUS
<1>1. /\ UNCHANGED <<guests, gui, after, latest, last_frame, told, calls, typed, asked,
                     killed, since, paused, left, boot, pixels, rx_buf, control, frames>>
      /\ thread \in {"load", "leaving", "batch"} /\ thread' \in {"head", "leaving", "ended"}
      /\ L!Alive' => L!Alive
  BY DEF L!Loads, L!Leaves, L!Halts, L!Ends, L!gone, L!machine, L!handle, L!ghosts, L!Alive
<1>2. BytesWait' /\ ToldLeadsTo'
  BY <1>1 DEF LiveInv, BytesWait, ToldLeadsTo
<1>3. gui = "join" /\ L!Alive' => control' # << >> /\ control'[Len(control')].op = "shutdown"
  BY <1>1 DEF LiveInv, ControlsCounted
<1> QED BY <1>1, <1>2, <1>3, ThreadTyped, ThreadKeeps

(* One control taken. *)
LEMMA TakesKeep ==
    ASSUME LiveInv, NEW op \in Ops, L!Takes(op)
    PROVE  /\ thread = "head" /\ L!Alive
           /\ control' \in Seq(Control) /\ Len(control) \in Nat \ {0}
           /\ Len(control') = Len(control) - 1
           /\ Head(control).op = op /\ Head(control).byte \in Nat
           /\ gui = "join" /\ op # "shutdown" =>
                control' # << >> /\ control'[Len(control')].op = "shutdown"
           /\ op = "input" => WaitInOrder(Append(rx_buf, Head(control).byte), control', typed)
           /\ op # "input" => WaitInOrder(rx_buf, control', typed)
           /\ op # "input" => WaitInOrder(<< >>, control', typed)
           /\ asked # "reset" => LeadsTo(control', IF op \in {"pause", "resume", "reset"}
                                                   THEN op = "pause" ELSE paused, told)
<1>1. /\ thread = "head" /\ control # << >> /\ Head(control).op = op /\ control' = Tail(control)
  BY DEF L!Takes, L!AtControls
<1>2. L!Alive
  BY <1>1 DEF L!Alive
<1>3. control \in Seq(Control) /\ rx_buf \in Seq(Nat) /\ typed \in Nat
  BY DEF LiveInv, LiveTyped
<1>4. /\ control' \in Seq(Control) /\ Len(control) \in Nat \ {0} /\ Len(control') = Len(control) - 1
      /\ Head(control) = control[1] /\ control[1] \in Control
      /\ DOMAIN control' = 1 .. Len(control) - 1
      /\ \A i \in 1 .. Len(control) - 1 : control'[i] = control[i + 1]
  BY <1>1, <1>3, TakenAt
<1>5. ASSUME gui = "join", op # "shutdown"
      PROVE  control' # << >> /\ control'[Len(control')].op = "shutdown"
  <2>1. control[Len(control)].op = "shutdown"
    BY <1>2, <1>5 DEF LiveInv, ControlsCounted
  <2>2. Len(control) # 1
    BY <1>1, <1>4, <1>5, <2>1
  <2>3. Len(control) - 1 \in 1 .. Len(control) - 1 /\ (Len(control) - 1) + 1 = Len(control)
    BY <1>4, <2>2
  <2>4. control'[Len(control')] = control[Len(control)]
    BY <1>4, <2>3
  <2>5. control' # << >>
    BY <1>4, <2>3
  <2> QED BY <2>1, <2>4, <2>5
<1>6. WaitInOrder(rx_buf, control, typed)
  BY <1>2 DEF LiveInv, BytesWait
<1>7. op = "input" => WaitInOrder(Append(rx_buf, Head(control).byte), control', typed)
  BY <1>1, <1>3, <1>6, OrderTakeInput
<1>8. op # "input" => WaitInOrder(rx_buf, control', typed)
  BY <1>1, <1>3, <1>6, OrderTakeOther
<1>9. op # "input" => WaitInOrder(<< >>, control', typed)
  BY <1>3, <1>4, <1>8, OrderRead
<1>10. asked # "reset" => LeadsTo(control', IF op \in {"pause", "resume", "reset"}
                                            THEN op = "pause" ELSE paused, told)
  BY <1>1, <1>2, <1>3, LeadsTake DEF LiveInv, ToldLeadsTo
<1> QED BY <1>1, <1>2, <1>4, <1>5, <1>7, <1>8, <1>9, <1>10 DEF Control

(* After the controls. *)
LEMMA GoesKeeps ==
    ASSUME LiveInv, NEW p, L!Goes(p)
    PROVE  /\ thread' \in {"head", "batch"} /\ left' \in 0 .. batch_size
           /\ thread' = "batch" => left' > 0
BY ThreadTyped DEF L!Goes

LEMMA TakeNothingKeeps == LiveInv /\ L!TakeNothing => LiveInv'
<1> SUFFICES ASSUME LiveInv, L!TakeNothing PROVE LiveInv'
  OBVIOUS
<1>1. /\ UNCHANGED <<guests, gui, after, latest, last_frame, told, calls, typed, asked,
                     killed, since, paused, boot, pixels, rx_buf, control, frames>>
      /\ thread = "head" /\ control = << >> /\ L!Goes(paused)
  BY DEF L!TakeNothing, L!AtControls, L!gone, L!handle, L!ghosts
<1>2. BytesWait' /\ ToldLeadsTo'
  BY <1>1 DEF LiveInv, BytesWait, ToldLeadsTo, L!Alive
<1>3. gui = "join" => control' # << >> /\ control'[Len(control')].op = "shutdown"
  BY <1>1 DEF LiveInv, ControlsCounted, L!Alive
<1> QED BY <1>1, <1>2, <1>3, GoesKeeps, ThreadTyped, ThreadKeeps

LEMMA TakeShutdownKeeps == LiveInv /\ L!TakeShutdown => LiveInv'
<1> SUFFICES ASSUME LiveInv, L!TakeShutdown PROVE LiveInv'
  OBVIOUS
<1>1. /\ UNCHANGED <<guests, gui, after, latest, last_frame, told, calls, typed, asked,
                     killed, since, paused, left, boot, pixels, rx_buf, frames>>
      /\ L!Takes("shutdown") /\ thread' = "leaving"
  BY DEF L!TakeShutdown, L!gone, L!handle, L!ghosts, L!machine
<1>2. "shutdown" \in Ops
  BY DEF Ops
<1>3. ~L!Alive' /\ thread # "none" /\ control' \in Seq(Control) /\ Len(control') <= Len(control)
  BY <1>1, <1>2, TakesKeep DEF L!Alive
<1>4. BytesWait' /\ ToldLeadsTo'
  BY <1>3 DEF BytesWait, ToldLeadsTo
<1>5. boot' + Len(control') <= boot + Len(control)
  <2>1. Len(control) \in Nat \ {0} /\ Len(control') = Len(control) - 1 /\ boot \in Nat
    BY <1>1, <1>2, TakesKeep, ThreadTyped
  <2> QED BY <1>1, <2>1
<1>6. thread' \in {"load", "head", "batch", "leaving", "ended"} /\ (thread' = "batch" => left' > 0)
  BY <1>1
<1> QED BY <1>1, <1>3, <1>4, <1>5, <1>6, ThreadTyped, ThreadKeeps

LEMMA TakePauseKeeps ==
    ASSUME LiveInv, NEW op \in {"pause", "resume"}, L!TakePause(op)
    PROVE  LiveInv'
<1>1. /\ UNCHANGED <<guests, gui, after, latest, last_frame, told, calls, typed, asked,
                     killed, since, boot, pixels, rx_buf, frames>>
      /\ L!Takes(op) /\ paused' = (op = "pause") /\ L!Goes(paused')
  BY DEF L!TakePause, L!PausedAfter, L!gone, L!handle, L!ghosts
<1>2. op \in Ops
  BY DEF Ops
<1>3. /\ thread = "head" /\ control' \in Seq(Control) /\ Len(control) \in Nat \ {0}
      /\ Len(control') = Len(control) - 1
      /\ gui = "join" => control' # << >> /\ control'[Len(control')].op = "shutdown"
      /\ WaitInOrder(rx_buf, control', typed)
      /\ asked # "reset" => LeadsTo(control', op = "pause", told)
  BY <1>1, <1>2, TakesKeep
<1>4. BytesWait' /\ ToldLeadsTo'
  BY <1>1, <1>3 DEF BytesWait, ToldLeadsTo
<1>5. boot' + Len(control') <= boot + Len(control)
  BY <1>1, <1>3, ThreadTyped
<1>6. paused' \in BOOLEAN
  BY <1>1
<1>7. thread' \in {"head", "batch"} /\ left' \in 0 .. batch_size /\ (thread' = "batch" => left' > 0)
  BY <1>1, GoesKeeps
<1> QED BY SMTT(30), <1>1, <1>3, <1>4, <1>5, <1>6, <1>7, ThreadTyped, ThreadKeeps

LEMMA TakeInputKeeps == LiveInv /\ L!TakeInput => LiveInv'
<1> SUFFICES ASSUME LiveInv, L!TakeInput PROVE LiveInv'
  OBVIOUS
<1>1. /\ UNCHANGED <<guests, gui, after, latest, last_frame, told, calls, typed, asked,
                     killed, since, paused, boot, pixels, frames>>
      /\ L!Takes("input") /\ rx_buf' = Append(rx_buf, Head(control).byte) /\ L!Goes(paused)
  BY DEF L!TakeInput, L!receive_byte, L!gone, L!handle, L!ghosts
<1>2. "input" \in Ops
  BY DEF Ops
<1>3. /\ thread = "head" /\ control' \in Seq(Control) /\ Len(control) \in Nat \ {0}
      /\ Len(control') = Len(control) - 1 /\ Head(control).byte \in Nat
      /\ gui = "join" => control' # << >> /\ control'[Len(control')].op = "shutdown"
      /\ WaitInOrder(rx_buf', control', typed)
      /\ asked # "reset" => LeadsTo(control', paused, told)
  BY <1>1, <1>2, TakesKeep
<1>4. BytesWait' /\ ToldLeadsTo'
  BY <1>1, <1>3 DEF BytesWait, ToldLeadsTo, LiveInv
<1>5. boot' + Len(control') <= boot + Len(control)
  BY <1>1, <1>3, ThreadTyped
<1>6. rx_buf' \in Seq(Nat)
  <2>1. rx_buf \in Seq(Nat)
    BY ThreadTyped
  <2> QED BY <1>1, <1>3, <2>1, AppendProperties
<1>7. thread' \in {"head", "batch"} /\ left' \in 0 .. batch_size /\ (thread' = "batch" => left' > 0)
  BY <1>1, GoesKeeps
<1> QED BY SMTT(30), <1>1, <1>3, <1>4, <1>5, <1>6, <1>7, ThreadTyped, ThreadKeeps

LEMMA TakeSnapshotKeeps == LiveInv /\ L!TakeSnapshot => LiveInv'
<1> SUFFICES ASSUME LiveInv, L!TakeSnapshot PROVE LiveInv'
  OBVIOUS
<1>1. /\ UNCHANGED <<guests, gui, after, latest, last_frame, told, calls, typed, asked,
                     killed, since, paused, boot, pixels, rx_buf>>
      /\ L!Takes("snapshot") /\ frames' = Append(frames, L!Frame) /\ L!Goes(paused)
  BY DEF L!TakeSnapshot, L!gone, L!handle, L!ghosts
<1>2. "snapshot" \in Ops
  BY DEF Ops
<1>3. /\ thread = "head" /\ control' \in Seq(Control) /\ Len(control) \in Nat \ {0}
      /\ Len(control') = Len(control) - 1
      /\ gui = "join" => control' # << >> /\ control'[Len(control')].op = "shutdown"
      /\ WaitInOrder(rx_buf, control', typed)
      /\ asked # "reset" => LeadsTo(control', paused, told)
  BY <1>1, <1>2, TakesKeep
<1>4. BytesWait' /\ ToldLeadsTo'
  BY <1>1, <1>3 DEF BytesWait, ToldLeadsTo
<1>5. boot' + Len(control') <= boot + Len(control)
  BY <1>1, <1>3, ThreadTyped
<1>7. thread' \in {"head", "batch"} /\ left' \in 0 .. batch_size /\ (thread' = "batch" => left' > 0)
  BY <1>1, GoesKeeps
<1> QED BY SMTT(30), <1>1, <1>3, <1>4, <1>5, <1>7, ThreadTyped, ThreadKeeps

(* A reset boots once more, of which the reset it takes was one the user   *)
(* called: with a shutdown behind it if the handle is being dropped.       *)
LEMMA TakeResetKeeps == LiveInv /\ L!TakeReset => LiveInv'
<1> SUFFICES ASSUME LiveInv, L!TakeReset PROVE LiveInv'
  OBVIOUS
<1>1. /\ UNCHANGED <<guests, gui, after, latest, last_frame, told, calls, typed, asked,
                     killed, since, frames>>
      /\ L!Takes("reset") /\ boot' = boot + 1 /\ pixels' = 0 /\ rx_buf' = << >>
      /\ paused' = FALSE /\ L!Goes(paused')
  BY DEF L!TakeReset, L!PausedAfter, L!gone, L!handle, L!ghosts
<1>2. "reset" \in Ops
  BY DEF Ops
<1>3. /\ thread = "head" /\ control' \in Seq(Control) /\ Len(control) \in Nat \ {0}
      /\ Len(control') = Len(control) - 1
      /\ gui = "join" => control' # << >> /\ control'[Len(control')].op = "shutdown"
      /\ WaitInOrder(<< >>, control', typed)
      /\ asked # "reset" => LeadsTo(control', FALSE, told)
  BY <1>1, <1>2, TakesKeep
<1>4. BytesWait' /\ ToldLeadsTo'
  BY <1>1, <1>3 DEF BytesWait, ToldLeadsTo
<1>5. boot' + Len(control') <= boot + Len(control)
  BY SMTT(30), <1>1, <1>3, ThreadTyped
<1>6. boot' \in 0 .. MaxCalls + 1
  <2>1. boot \in Nat /\ calls \in 0 .. MaxCalls /\ MaxCalls \in Nat /\ gui # "none"
    BY ThreadTyped DEF LiveInv, LiveTyped
  <2>2. CASE gui = "join"
    <3>1. Len(control') # 0
      BY <1>3, <2>2, EmptySeq
    <3>2. boot + Len(control) <= calls + 2
      BY <2>2 DEF LiveInv, ControlsCounted
    <3> QED BY <1>1, <1>3, <2>1, <3>1, <3>2
  <2>3. CASE gui # "join"
    <3>1. boot + Len(control) <= calls + 1
      BY <1>3, <2>1, <2>3 DEF LiveInv, ControlsCounted
    <3> QED BY <1>1, <1>3, <2>1, <3>1
  <2> QED BY <2>2, <2>3
<1>7. thread' \in {"head", "batch"} /\ left' \in 0 .. batch_size /\ (thread' = "batch" => left' > 0)
  BY <1>1, GoesKeeps
<1>8. rx_buf' \in Seq(Nat) /\ paused' \in BOOLEAN /\ pixels' \in 0 .. MaxDraws /\ boot' > boot
  <2>1. rx_buf' \in Seq(Nat)
    BY <1>1, NewBuffers, Zenon
  <2>2. paused' \in BOOLEAN
    BY <1>1
  <2>3. pixels' \in 0 .. MaxDraws
    <3>1. pixels' = 0 /\ MaxDraws \in Nat
      BY <1>1, ThreadTyped
    <3> QED BY <3>1
  <2>4. boot' > boot
    <3>1. boot' = boot + 1 /\ boot \in Nat
      BY <1>1, ThreadTyped
    <3> QED BY <3>1
  <2> QED BY <2>1, <2>2, <2>3, <2>4
<1> QED BY <1>1, <1>3, <1>4, <1>5, <1>6, <1>7, <1>8, ThreadTyped, ThreadKeeps

(* One instruction of the guest. *)
LEMMA StepsKeep ==
    LiveInv /\ (L!Draws \/ L!Presents \/ L!Reads \/ L!Works) => LiveInv'
<1> SUFFICES ASSUME LiveInv, L!Draws \/ L!Presents \/ L!Reads \/ L!Works PROVE LiveInv'
  OBVIOUS
<1>1. /\ UNCHANGED <<guests, gui, after, latest, last_frame, told, calls, typed, asked,
                     killed, since, paused, boot, control>>
      /\ thread = "batch" /\ left' = left - 1
      /\ thread' = IF left = 1 THEN "head" ELSE "batch"
  BY DEF L!Draws, L!Presents, L!Reads, L!Works, L!Steps, L!gone, L!handle, L!ghosts
<1>2. left' \in 0 .. batch_size /\ (thread' = "batch" => left' > 0) /\ thread' \in {"head", "batch"}
  BY <1>1, ThreadTyped
<1>3. /\ pixels' \in 0 .. MaxDraws /\ pixels' >= pixels
      /\ frames' = frames \/ frames' = Append(frames, L!Frame)
      /\ rx_buf' = rx_buf \/ rx_buf' = << >> \/ (rx_buf # << >> /\ rx_buf' = Tail(rx_buf))
  BY SMTT(30), ThreadTyped DEF L!Draws, L!Presents, L!Reads, L!Works, L!read_byte
<1>4. control \in Seq(Control) /\ rx_buf \in Seq(Nat) /\ typed \in Nat /\ L!Alive
  BY <1>1 DEF LiveInv, LiveTyped, L!Alive
<1>5. rx_buf' \in Seq(Nat)
  BY <1>3, <1>4, NewBuffers, HeadTailProperties
<1>6. WaitInOrder(rx_buf', control, typed)
  <2>1. WaitInOrder(rx_buf, control, typed)
    BY <1>4 DEF LiveInv, BytesWait
  <2> QED BY <1>3, <1>4, <2>1, OrderRead
<1>7. BytesWait' /\ ToldLeadsTo'
  BY <1>1, <1>4, <1>6 DEF LiveInv, BytesWait, ToldLeadsTo
<1>8. gui = "join" => control' # << >> /\ control'[Len(control')].op = "shutdown"
  BY <1>1, <1>4 DEF LiveInv, ControlsCounted
<1> QED BY SMTT(30), <1>1, <1>2, <1>3, <1>5, <1>7, <1>8, ThreadTyped, ThreadKeeps

LEMMA LiveInductive ==
    ASSUME LiveInv, [L!Next]_guestVars
    PROVE  LiveInv'
<1>1. CASE L!User
  BY <1>1, LaunchKeeps, SendInputKeeps, SnapshotBeginsKeeps, CommandKeeps, KillKeeps DEF L!User
<1>2. CASE L!Gui
  BY <1>2, PollKeeps, PollStatusKeeps, SnapshotDrainsKeeps, SnapshotWaitsKeeps, JoinsKeeps DEF L!Gui
<1>3. CASE L!Vm
  BY <1>3, EndsKeeps, TakeNothingKeeps, TakeShutdownKeeps, TakeResetKeeps, TakeInputKeeps,
     TakeSnapshotKeeps, TakePauseKeeps, StepsKeep DEF L!Vm
<1>4. CASE UNCHANGED guestVars
  BY <1>4 DEF guestVars, LiveInv, LiveTyped, ControlsCounted, SinceIsPast, L!Frame,
     L!AnswersAreRecent, BytesWait, ToldLeadsTo, L!Alive, KilledKept
<1> QED BY <1>1, <1>2, <1>3, <1>4 DEF L!Next

(* The invariant says what the runs check. *)
LEMMA LiveIsSound == LiveInv => L!GuestSound
<1> SUFFICES ASSUME LiveInv PROVE L!GuestSound
  OBVIOUS
<1>1. L!TypeOK
  <2>1. /\ MaxCalls \in Nat /\ typed \in 0 .. MaxCalls /\ killed \subseteq 1 .. MaxGuests
        /\ \A i \in DOMAIN frames : frames[i] \in L!Frames
    BY SMTT(30), LiveAssumption DEF LiveInv, LiveTyped
  <2> QED BY <2>1 DEF LiveInv, LiveTyped, L!TypeOK
<1>2. L!InputInOrder
  <2> SUFFICES ASSUME L!Alive
               PROVE  \E k \in 0 .. typed :
                        /\ \A i \in DOMAIN rx_buf : rx_buf[i] = k - Len(rx_buf) + i
                        /\ {control[i].byte : i \in L!Inputs} = k + 1 .. typed
                        /\ \A i, j \in L!Inputs : i < j => control[i].byte < control[j].byte
    BY DEF L!InputInOrder
  <2>1. PICK k \in 0 .. typed : InOrderAt(k, rx_buf, control, typed)
    BY DEF LiveInv, BytesWait, WaitInOrder
  <2>2. L!Inputs = InputsIn(control)
    BY DEF L!Inputs, InputsIn
  <2>3. {control[i].byte : i \in InputsIn(control)} = k + 1 .. typed
    BY <2>1 DEF InOrderAt
  <2> QED BY <2>1, <2>2, <2>3 DEF InOrderAt
<1>3. L!PausedAsTold
  BY DEF LiveInv, ToldLeadsTo, LeadsTo, CommandsIn, L!PausedAsTold, L!Commands
<1>4. L!KilledGuestsGone
  BY DEF LiveInv, KilledKept, L!KilledGuestsGone
<1> QED BY <1>1, <1>2, <1>3, <1>4 DEF LiveInv, L!GuestSound
-----------------------------------------------------------------------------
(* Windows and applications.  Lists that retain lost members, and the      *)
(* removal by place.                                                       *)

(* In a finite set of numbers every rank is some member's, and only his.   *)
LEMMA RanksOnto ==
    ASSUME NEW D \in SUBSET Nat, IsFiniteSet(D)
    PROVE  /\ Cardinality(D) \in Nat
           /\ \A k \in 1 .. Cardinality(D) :
                 \E i \in D : Cardinality({j \in D : j < i}) = k - 1
           /\ \A i \in D : Cardinality({j \in D : j < i}) + 1 \in 1 .. Cardinality(D)
           /\ \A i, l \in D :
                 Cardinality({j \in D : j < i}) = Cardinality({j \in D : j < l}) => i = l
<1> DEFINE B(i) == {j \in D : j < i}
           N == Cardinality(D)
           r == [i \in D |-> Cardinality(B(i)) + 1]
<1>1. N \in Nat
  BY FS_CardinalityType
<1>2. ASSUME NEW i \in D PROVE IsFiniteSet(B(i)) /\ Cardinality(B(i)) \in 0 .. N - 1
  <2>1. B(i) \in SUBSET D /\ B(i) # D
    OBVIOUS
  <2> HIDE DEF B
  <2>2. IsFiniteSet(B(i)) /\ Cardinality(B(i)) <= N /\ Cardinality(B(i)) # N
    BY <2>1, FS_Subset
  <2>3. Cardinality(B(i)) \in Nat
    BY <2>2, FS_CardinalityType
  <2> QED BY <1>1, <2>2, <2>3
<1>3. ASSUME NEW i \in D, NEW l \in D, i < l PROVE Cardinality(B(i)) # Cardinality(B(l))
  <2>1. B(i) \in SUBSET B(l) /\ i \in B(l) /\ i \notin B(i)
    <3>1. i \in Nat /\ l \in Nat /\ \A j \in D : j < i => j < l
      BY <1>3
    <3>2. B(i) \in SUBSET B(l)
      BY <3>1
    <3>3. i \in B(l)
      BY <1>3
    <3>4. i \notin B(i)
      BY <3>1
    <3> QED BY <3>2, <3>3, <3>4
  <2>2. IsFiniteSet(B(l))
    BY <1>2
  <2> HIDE DEF B
  <2> QED BY <2>1, <2>2, FS_Subset
<1> HIDE DEF B
<1>4. \A i, l \in D : Cardinality(B(i)) = Cardinality(B(l)) => i = l
  <2> TAKE i, l \in D
  <2>1. i < l \/ l < i \/ i = l
    OBVIOUS
  <2> QED BY <1>3, <2>1
<1>5. r \in [D -> 1 .. N]
  BY <1>1, <1>2
<1>6. r \in Injection(D, 1 .. N)
  <2>1. \A i, l \in D : r[i] = r[l] => Cardinality(B(i)) = Cardinality(B(l))
    BY <1>2
  <2> QED BY <1>4, <1>5, <2>1 DEF Injection, IsInjective
<1>7. IsFiniteSet(1 .. N) /\ Cardinality(1 .. N) = N
  BY <1>1, FS_Interval
<1>8. r \in Surjection(D, 1 .. N)
  BY <1>6, <1>7, FS_Injection
<1>9. ASSUME NEW k \in 1 .. N PROVE \E i \in D : Cardinality(B(i)) = k - 1
  <2>1. PICK i \in D : r[i] = k
    BY <1>8 DEF Surjection
  <2> QED BY <2>1, <1>2, <1>1
<1>10. \A i \in D : Cardinality(B(i)) + 1 \in 1 .. N
  BY <1>1, <1>2
<1> QED BY <1>1, <1>4, <1>9, <1>10 DEF B


(* A list keeps each member at the place that is its rank among the kept.  *)
Rank(kept, i) == Cardinality({j \in kept : j < i})

LEMMA CountIs == \A D : A!Cardinality(D) = Cardinality(D)
BY DEF A!Cardinality, Cardinality

(* The numbers up to another.                                              *)
LEMMA UpTo ==
    ASSUME NEW n \in Nat
    PROVE  IsFiniteSet(1 .. n) /\ Cardinality(1 .. n) = n
<1>1. 1 \in Int /\ n \in Int
  OBVIOUS
<1>2. IsFiniteSet(1 .. n) /\ Cardinality(1 .. n) = IF 1 > n THEN 0 ELSE n - 1 + 1
  BY <1>1, FS_Interval
<1> QED BY <1>2

LEMMA RetainedIs ==
    ASSUME NEW T, NEW s \in Seq(T), NEW kept \in SUBSET DOMAIN s
    PROVE  /\ A!Retained(s, kept) \in Seq(T)
           /\ Cardinality(kept) \in Nat /\ Cardinality(kept) <= Len(s)
           /\ DOMAIN A!Retained(s, kept) = 1 .. Cardinality(kept)
           /\ \A i \in kept : /\ Rank(kept, i) \in Nat
                              /\ Rank(kept, i) + 1 \in 1 .. Cardinality(kept)
                              /\ A!Retained(s, kept)[Rank(kept, i) + 1] = s[i]
           /\ \A k \in 1 .. Cardinality(kept) : \E i \in kept : k = Rank(kept, i) + 1
           /\ \A i, l \in kept : Rank(kept, i) = Rank(kept, l) => i = l
<1> DEFINE rank(i) == Cardinality({j \in kept : j < i})
           at(k) == CHOOSE i \in kept : A!Cardinality({j \in kept : j < i}) = k - 1
           v == [k \in 1 .. A!Cardinality(kept) |-> s[at(k)]]
           w == [k \in 1 .. Cardinality(kept) |-> s[at(k)]]
<1>1. A!Retained(s, kept) = w
  <2>1. A!Retained(s, kept) = v
    BY DEF A!Retained
  <2>2. A!Cardinality(kept) = Cardinality(kept)
    BY CountIs
  <2> HIDE DEF at
  <2> QED BY <2>1, <2>2
<1>2. IsFiniteSet(kept) /\ kept \in SUBSET Nat /\ Cardinality(kept) <= Len(s)
  <2>1. Len(s) \in Nat /\ DOMAIN s = 1 .. Len(s)
    OBVIOUS
  <2>2. IsFiniteSet(1 .. Len(s)) /\ Cardinality(1 .. Len(s)) = Len(s)
    BY <2>1, UpTo
  <2>3. kept \in SUBSET (1 .. Len(s))
    BY <2>1
  <2>4. kept \in SUBSET Nat
    BY <2>1, <2>3
  <2> QED BY <2>2, <2>3, <2>4, FS_Subset
<1>4. /\ Cardinality(kept) \in Nat
      /\ \A k \in 1 .. Cardinality(kept) : \E i \in kept : rank(i) = k - 1
      /\ \A i \in kept : rank(i) + 1 \in 1 .. Cardinality(kept)
      /\ \A i, l \in kept : rank(i) = rank(l) => i = l
  BY <1>2, RanksOnto
<1>5. \A i \in kept : rank(i) \in Nat
  BY <1>2, <1>4, FS_Subset, FS_CardinalityType
<1>6. \A k \in 1 .. Cardinality(kept) : at(k) \in kept /\ rank(at(k)) = k - 1
  <2>1. \A i : A!Cardinality({j \in kept : j < i}) = rank(i)
    BY CountIs
  <2> HIDE DEF rank
  <2> QED BY <1>4, <2>1
<1> HIDE DEF rank
<1> HIDE DEF at
<1>7. \A i \in kept : at(rank(i) + 1) = i
  <2> TAKE i \in kept
  <2>2. PICK k \in 1 .. Cardinality(kept) : k = rank(i) + 1
    BY <1>4
  <2>3. at(k) \in kept /\ rank(at(k)) = k - 1
    BY <1>6
  <2>4. k - 1 = rank(i)
    BY <1>5, <2>2
  <2> QED BY <1>4, <2>2, <2>3, <2>4
<1>8. w \in Seq(T)
  <2>1. \A k \in 1 .. Cardinality(kept) : s[at(k)] \in T
    BY <1>6
  <2> QED BY <1>4, <2>1, IsASeq
<1>9. \A i \in kept : w[rank(i) + 1] = s[i]
  BY <1>4, <1>7
<1>10. \A k \in 1 .. Cardinality(kept) : \E i \in kept : k = rank(i) + 1
  <2> TAKE k \in 1 .. Cardinality(kept)
  <2>1. PICK i \in kept : rank(i) = k - 1
    BY <1>4
  <2> QED BY <1>4, <2>1
<1>11. DOMAIN w = 1 .. Cardinality(kept)
  OBVIOUS
<1> HIDE DEF w
<1>12. \A i : Rank(kept, i) = rank(i)
  BY DEF Rank, rank
<1> QED BY <1>1, <1>2, <1>4, <1>5, <1>8, <1>9, <1>10, <1>11, <1>12

(* All kept: the list itself.                                              *)
LEMMA RetainedAll ==
    ASSUME NEW T, NEW s \in Seq(T)
    PROVE  A!Retained(s, DOMAIN s) = s
<1>1. DOMAIN s = 1 .. Len(s) /\ Len(s) \in Nat
  OBVIOUS
<1>2. Cardinality(DOMAIN s) = Len(s)
  BY <1>1, UpTo
<1>3. ASSUME NEW i \in DOMAIN s PROVE Rank(DOMAIN s, i) + 1 = i
  <2> DEFINE below == {j \in DOMAIN s : j < i}
  <2>0. Rank(DOMAIN s, i) = Cardinality(below)
    BY DEF Rank
  <2>1. below = 1 .. i - 1
    BY <1>1
  <2>2. Cardinality(1 .. i - 1) = i - 1
    BY <1>1, UpTo
  <2>3. i \in Nat
    BY <1>1
  <2> HIDE DEF below
  <2> QED BY <2>0, <2>1, <2>2, <2>3
<1> DEFINE w == A!Retained(s, DOMAIN s)
<1>4. w \in Seq(T) /\ DOMAIN w = DOMAIN s /\ \A i \in DOMAIN s : w[i] = s[i]
  <2>1. DOMAIN s \in SUBSET DOMAIN s
    OBVIOUS
  <2>2. /\ w \in Seq(T) /\ DOMAIN w = 1 .. Cardinality(DOMAIN s)
        /\ \A i \in DOMAIN s : w[Rank(DOMAIN s, i) + 1] = s[i]
    BY <2>1, RetainedIs
  <2> HIDE DEF w
  <2> QED BY <1>1, <1>2, <1>3, <2>2
<1> HIDE DEF w
<1>5. w = s
  BY <1>4
<1> QED BY <1>5 DEF w

LEMMA RemoveAtIs ==
    ASSUME NEW T, NEW s \in Seq(T), NEW a \in 1 .. Len(s)
    PROVE  /\ A!RemoveAt(s, a) \in Seq(T)
           /\ DOMAIN A!RemoveAt(s, a) = 1 .. Len(s) - 1
           /\ \A k \in 1 .. Len(s) - 1 : A!RemoveAt(s, a)[k] = IF k < a THEN s[k] ELSE s[k + 1]
<1>1. /\ SubSeq(s, 1, a - 1) \in Seq(T) /\ Len(SubSeq(s, 1, a - 1)) = a - 1
      /\ \A k \in 1 .. a - 1 : SubSeq(s, 1, a - 1)[k] = s[k]
  OBVIOUS
<1>2. /\ SubSeq(s, a + 1, Len(s)) \in Seq(T) /\ Len(SubSeq(s, a + 1, Len(s))) = Len(s) - a
      /\ \A k \in 1 .. Len(s) - a : SubSeq(s, a + 1, Len(s))[k] = s[a + k]
  OBVIOUS
<1> DEFINE p == SubSeq(s, 1, a - 1)
           q == SubSeq(s, a + 1, Len(s))
<1>3. A!RemoveAt(s, a) = p \o q
  BY DEF A!RemoveAt
<1> HIDE DEF p, q
<1>4. p \in Seq(T) /\ q \in Seq(T) /\ Len(p) = a - 1 /\ Len(q) = Len(s) - a
  BY <1>1, <1>2 DEF p, q
<1>5. /\ p \o q \in Seq(T) /\ Len(p \o q) = Len(s) - 1
      /\ \A k \in 1 .. Len(s) - 1 : (p \o q)[k] = IF k < a THEN p[k] ELSE q[k - (a - 1)]
  BY SMTT(30), <1>4
<1>6. \A k \in 1 .. Len(s) - 1 : (p \o q)[k] = IF k < a THEN s[k] ELSE s[k + 1]
  <2> TAKE k \in 1 .. Len(s) - 1
  <2>1. k < a => p[k] = s[k]
    BY <1>1 DEF p
  <2>2. ~(k < a) => q[k - (a - 1)] = s[a + (k - (a - 1))] /\ a + (k - (a - 1)) = k + 1
    BY SMTT(30), <1>2 DEF q
  <2> QED BY <1>5, <2>1, <2>2
<1>7. DOMAIN (p \o q) = 1 .. Len(s) - 1
  <2>1. PICK u \in Seq(T) : u = p \o q
    BY <1>5
  <2>2. DOMAIN u = 1 .. Len(u)
    OBVIOUS
  <2> QED BY <1>5, <2>1, <2>2
<1> HIDE DEF A!RemoveAt
<1> QED BY <1>3, <1>5, <1>6, <1>7, Zenon

(* Removing place a of a list that kept all up to a is not keeping it.     *)
LEMMA RemovedIsNotRetained ==
    ASSUME NEW T, NEW s \in Seq(T), NEW kept \in SUBSET DOMAIN s, NEW a \in DOMAIN s,
           1 .. a \subseteq kept
    PROVE  A!RemoveAt(A!Retained(s, kept), a) = A!Retained(s, kept \ {a})
<1> DEFINE less == kept \ {a}
           R == A!Retained(s, kept)
           Q == A!Retained(s, less)
           n == Cardinality(kept)
<1>0. DOMAIN s = 1 .. Len(s) /\ Len(s) \in Nat /\ less \in SUBSET DOMAIN s /\ a \in kept /\ a \in Nat
  OBVIOUS
<1>1. /\ R \in Seq(T) /\ n \in Nat /\ DOMAIN R = 1 .. n
      /\ \A i \in kept : /\ Rank(kept, i) \in Nat /\ Rank(kept, i) + 1 \in 1 .. n
                         /\ R[Rank(kept, i) + 1] = s[i]
  BY RetainedIs
<1>2. /\ Q \in Seq(T) /\ Cardinality(less) \in Nat /\ DOMAIN Q = 1 .. Cardinality(less)
      /\ \A i \in less : /\ Rank(less, i) \in Nat /\ Rank(less, i) + 1 \in 1 .. Cardinality(less)
                         /\ Q[Rank(less, i) + 1] = s[i]
      /\ \A k \in 1 .. Cardinality(less) : \E i \in less : k = Rank(less, i) + 1
  <2> HIDE DEF less
  <2> QED BY <1>0, RetainedIs
<1>3. IsFiniteSet(kept)
  <2>1. IsFiniteSet(DOMAIN s)
    BY <1>0, UpTo
  <2> QED BY <2>1, FS_Subset
<1>4. Cardinality(less) = n - 1
  BY <1>0, <1>3, FS_RemoveElement
<1>5. ASSUME NEW i \in kept, i <= a PROVE Rank(kept, i) = i - 1
  <2>1. {j \in kept : j < i} = 1 .. i - 1
    BY <1>0, <1>5
  <2>2. Cardinality(1 .. i - 1) = i - 1
    BY <1>0, UpTo
  <2> QED BY <2>1, <2>2 DEF Rank
<1>6. ASSUME NEW i \in less, i < a PROVE Rank(less, i) = Rank(kept, i)
  <2>1. {j \in kept : j < i} = {j \in less : j < i}
    BY <1>0, <1>6
  <2> QED BY <2>1 DEF Rank
<1>7. ASSUME NEW i \in less, i > a PROVE Rank(kept, i) = Rank(less, i) + 1 /\ Rank(kept, i) >= a
  <2>1. {j \in less : j < i} = {j \in kept : j < i} \ {a} /\ a \in {j \in kept : j < i}
    BY <1>0, <1>7
  <2>2. IsFiniteSet({j \in kept : j < i})
    BY <1>3, FS_Subset
  <2>3. Rank(less, i) = Rank(kept, i) - 1
    <3> DEFINE below == {j \in kept : j < i}
    <3>1. a \in below /\ IsFiniteSet(below) /\ Rank(kept, i) = Cardinality(below)
      BY <2>1, <2>2 DEF Rank
    <3>2. Rank(less, i) = Cardinality(below \ {a})
      BY <2>1 DEF Rank
    <3> HIDE DEF below
    <3> QED BY <3>1, <3>2, FS_RemoveElement
  <2>4. (1 .. a) \in SUBSET {j \in kept : j < i}
    BY <1>0, <1>7
  <2>5. Cardinality(1 .. a) = a
    BY <1>0, UpTo
  <2>6. a <= Rank(kept, i)
    BY <2>2, <2>4, <2>5, FS_Subset DEF Rank
  <2> QED BY <1>1, <2>3, <2>6
<1> HIDE DEF R, Q, n, less
<1>8. a \in 1 .. n /\ Len(R) = n
  <2>1. Rank(kept, a) = a - 1
    BY <1>0, <1>5
  <2> QED BY <1>0, <1>1, <2>1
<1>9. /\ A!RemoveAt(R, a) \in Seq(T) /\ DOMAIN A!RemoveAt(R, a) = 1 .. n - 1
      /\ \A k \in 1 .. n - 1 : A!RemoveAt(R, a)[k] = IF k < a THEN R[k] ELSE R[k + 1]
  BY <1>1, <1>8, RemoveAtIs
<1>10. ASSUME NEW k \in 1 .. n - 1 PROVE A!RemoveAt(R, a)[k] = Q[k]
  <2>1. PICK i \in less : k = Rank(less, i) + 1
    BY <1>2, <1>4
  <2>2. i \in kept /\ i \in Nat /\ i # a /\ Q[k] = s[i]
    <3>1. i \in kept /\ i # a
      BY <2>1 DEF less
    <3>2. Q[k] = s[i]
      BY <1>2, <2>1
    <3> QED BY <1>0, <3>1, <3>2
  <2>3. CASE i < a
    <3>1. k = Rank(kept, i) + 1 /\ k = i
      BY <1>0, <1>5, <1>6, <2>1, <2>2, <2>3
    <3> QED BY <1>1, <1>9, <2>2, <2>3, <3>1
  <2>4. CASE i > a
    <3>1. k = Rank(kept, i) /\ k >= a
      BY <1>7, <2>1, <2>4
    <3>2. R[k + 1] = s[i]
      BY <1>1, <2>2, <3>1
    <3>3. ~(k < a)
      BY <1>0, <3>1
    <3> QED BY <1>9, <2>2, <3>2, <3>3
  <2> QED BY <1>0, <2>2, <2>3, <2>4
<1> HIDE DEF A!RemoveAt
<1>11. A!RemoveAt(R, a) = Q
  BY <1>2, <1>4, <1>9, <1>10
<1> QED BY <1>11 DEF R, Q, less

(* The loop from the last place down removes just those to be removed: at  *)
(* place a it has kept all below a, and above it those that stay.          *)
LEMMA RemainingIs ==
    ASSUME NEW T, active_apps \in Seq(T)
    PROVE  A!Remaining = A!Retained(active_apps, DOMAIN active_apps \ A!ToRemove)
<1> DEFINE n == Len(active_apps)
           K(a) == {b \in 1 .. n : b < a \/ b \notin A!ToRemove}
           g == [a \in 1 .. n + 1 |-> A!Retained(active_apps, K(a))]
           F(h, a) == IF a > n THEN active_apps
                      ELSE IF a \in A!ToRemove THEN A!RemoveAt(h[a + 1], a)
                      ELSE h[a + 1]
           f == A!RemovedFrom
<1>1. n \in Nat /\ DOMAIN active_apps = 1 .. n
  OBVIOUS
<1>2. ASSUME NEW a \in 1 .. n + 1 PROVE g[a] = F(g, a)
  <2>1. g[a] = A!Retained(active_apps, K(a))
    BY <1>2
  <2>2. CASE a > n
    <3>1. K(a) = DOMAIN active_apps
      BY <1>1, <1>2, <2>2
    <3> HIDE DEF K
    <3> QED BY <2>1, <2>2, <3>1, RetainedAll
  <2>3. CASE a <= n
    <3>1. a \in 1 .. n /\ a + 1 \in 1 .. n + 1 /\ ~(a > n)
      BY <1>1, <1>2, <2>3
    <3>2. g[a + 1] = A!Retained(active_apps, K(a + 1))
      BY <3>1
    <3>3. CASE a \in A!ToRemove
      <4>1. K(a) = K(a + 1) \ {a}
        BY <1>1, <3>1, <3>3
      <4>2. K(a + 1) \in SUBSET DOMAIN active_apps /\ 1 .. a \subseteq K(a + 1) /\ a \in DOMAIN active_apps
        BY <1>1, <3>1
      <4> HIDE DEF K, g, n
      <4>3. A!RemoveAt(A!Retained(active_apps, K(a + 1)), a) = A!Retained(active_apps, K(a))
        BY <4>1, <4>2, RemovedIsNotRetained
      <4> QED BY <2>1, <3>1, <3>2, <3>3, <4>3
    <3>4. CASE a \notin A!ToRemove
      <4>1. K(a) = K(a + 1)
        BY <1>1, <3>1, <3>4
      <4> HIDE DEF K, g
      <4> QED BY <2>1, <3>1, <3>2, <3>4, <4>1
    <3> QED BY <3>3, <3>4
  <2> QED BY <1>1, <1>2, <2>2, <2>3
<1>3. f = CHOOSE h : h = [a \in 1 .. n + 1 |-> F(h, a)]
  BY DEF A!RemovedFrom
<1>4. g = [a \in 1 .. n + 1 |-> F(g, a)]
  <2>1. DOMAIN g = 1 .. n + 1 /\ g = [a \in DOMAIN g |-> g[a]]
    OBVIOUS
  <2> HIDE DEF g, F
  <2> QED BY <1>2, <2>1
<1>5. A!Remaining = f[1] /\ g[1] = A!Retained(active_apps, DOMAIN active_apps \ A!ToRemove)
  <2>1. K(1) = DOMAIN active_apps \ A!ToRemove /\ 1 \in 1 .. n + 1
    BY <1>1
  <2> QED BY <2>1 DEF A!Remaining
<1> HIDE DEF g, f
<1>6. f = [a \in 1 .. n + 1 |-> F(f, a)]
  BY <1>3, <1>4
<1>7. \A a \in 1 .. n + 1 : f[a] = F(f, a)
  <2> HIDE DEF F
  <2> QED BY <1>6
<1>8. \A a \in 1 .. n + 1 : f[a] = g[a]
  <2> DEFINE Bad == {d \in 0 .. n : f[n + 1 - d] # g[n + 1 - d]}
  <2> SUFFICES ASSUME NEW c \in 1 .. n + 1, f[c] # g[c] PROVE FALSE
    OBVIOUS
  <2>1. Bad \in SUBSET Nat /\ n + 1 - c \in Bad
    BY <1>1
  <2> HIDE DEF Bad
  <2>2. PICK d \in Bad : \A e \in Bad : d <= e
    BY <2>1, LeastNumber
  <2>3. d \in 0 .. n /\ f[n + 1 - d] # g[n + 1 - d]
    BY <2>2 DEF Bad
  <2> DEFINE a == n + 1 - d
  <2>4. a \in 1 .. n + 1 /\ f[a] # g[a] /\ f[a] = F(f, a) /\ g[a] = F(g, a)
    BY <1>1, <1>2, <1>7, <2>3
  <2>5. CASE d = 0
    <3>1. a > n
      BY <1>1, <2>5
    <3> QED BY <2>4, <3>1
  <2>6. CASE d # 0
    <3>1. d - 1 \in 0 .. n /\ n + 1 - (d - 1) = a + 1 /\ ~(d <= d - 1)
      BY <1>1, <2>3, <2>6
    <3>2. d - 1 \notin Bad
      BY <2>2, <3>1
    <3>3. f[a + 1] = g[a + 1]
      BY <3>1, <3>2 DEF Bad
    <3> HIDE DEF a
    <3> QED BY <2>4, <3>3
  <2> QED BY <2>5, <2>6
<1>9. 1 \in 1 .. n + 1
  BY <1>1
<1> QED BY <1>5, <1>8, <1>9

(* A retained list and where its members were.                             *)
Places(R, s, kept, m, r) ==
    /\ m \in [DOMAIN R -> kept] /\ r \in [kept -> DOMAIN R]
    /\ \A k \in DOMAIN R : R[k] = s[m[k]] /\ r[m[k]] = k
    /\ \A i \in kept : m[r[i]] = i

LEMMA RetainedFrom ==
    ASSUME NEW T, NEW s \in Seq(T), NEW kept \in SUBSET DOMAIN s
    PROVE  /\ A!Retained(s, kept) \in Seq(T) /\ Len(A!Retained(s, kept)) <= Len(s)
           /\ \E m, r : Places(A!Retained(s, kept), s, kept, m, r)
<1> DEFINE R == A!Retained(s, kept)
           N == Cardinality(kept)
           r == [i \in kept |-> Rank(kept, i) + 1]
           m == [k \in 1 .. N |-> CHOOSE i \in kept : k = Rank(kept, i) + 1]
<1>1. /\ R \in Seq(T) /\ N \in Nat /\ N <= Len(s) /\ DOMAIN R = 1 .. N
      /\ \A i \in kept : /\ Rank(kept, i) \in Nat /\ Rank(kept, i) + 1 \in 1 .. N
                         /\ R[Rank(kept, i) + 1] = s[i]
      /\ \A k \in 1 .. N : \E i \in kept : k = Rank(kept, i) + 1
      /\ \A i, l \in kept : Rank(kept, i) = Rank(kept, l) => i = l
  BY RetainedIs
<1>2. \A k \in 1 .. N : m[k] \in kept /\ k = Rank(kept, m[k]) + 1
  BY <1>1
<1>3. m \in [1 .. N -> kept] /\ r \in [kept -> 1 .. N]
  BY <1>1, <1>2
<1>4. \A k \in 1 .. N : R[k] = s[m[k]] /\ r[m[k]] = k
  <2> HIDE DEF m, N, R
  <2> QED BY <1>1, <1>2
<1>5. \A i \in kept : m[r[i]] = i
  <2> TAKE i \in kept
  <2>1. r[i] = Rank(kept, i) + 1 /\ r[i] \in 1 .. N
    BY <1>1
  <2>2. m[r[i]] \in kept /\ r[i] = Rank(kept, m[r[i]]) + 1
    BY <1>2, <2>1
  <2> HIDE DEF m, r, N
  <2>3. PICK l \in kept : l = m[r[i]]
    BY <2>2
  <2>4. Rank(kept, l) + 1 = Rank(kept, i) + 1 /\ Rank(kept, l) \in Nat /\ Rank(kept, i) \in Nat
    BY <1>1, <2>1, <2>2, <2>3
  <2>5. Rank(kept, l) = Rank(kept, i)
    BY <2>4
  <2>6. l = i
    BY <1>1, <2>5
  <2> QED BY <2>3, <2>6
<1> HIDE DEF R, m, r, N
<1>6. R \in Seq(T) /\ Len(R) <= Len(s)
  BY <1>1
<1>7. Places(R, s, kept, m, r)
  <2>1. DOMAIN R = 1 .. N
    BY <1>1
  <2>2. m \in [DOMAIN R -> kept] /\ r \in [kept -> DOMAIN R]
    BY <1>3, <2>1
  <2>3. \A k \in DOMAIN R : R[k] = s[m[k]] /\ r[m[k]] = k
    BY <1>4, <2>1
  <2> QED BY <1>5, <2>2, <2>3 DEF Places
<1> QED BY <1>6, <1>7 DEF R

(* The greatest of some bounded numbers, and of two.                       *)
LEMMA MaxIs ==
    ASSUME NEW Z \in SUBSET Nat, Z # {}, NEW b \in Nat, \A z \in Z : z <= b
    PROVE  A!Max(Z) \in Z /\ \A z \in Z : z <= A!Max(Z)
<1> DEFINE D == {d \in 0 .. b : b - d \in Z}
<1>1. PICK z \in Z : TRUE
  OBVIOUS
<1>2. b - z \in D /\ D \in SUBSET Nat
  <2>1. z \in Nat /\ z <= b
    OBVIOUS
  <2>2. b - z \in 0 .. b /\ b - (b - z) = z
    BY <2>1
  <2> QED BY <2>2
<1> HIDE DEF D
<1>3. PICK d \in D : \A e \in D : d <= e
  BY <1>2, LeastNumber
<1>4. d \in 0 .. b /\ b - d \in Z
  BY <1>3 DEF D
<1>5. \A y \in Z : b - d >= y
  <2> TAKE y \in Z
  <2>1. y \in Nat /\ y <= b
    OBVIOUS
  <2>2. b - y \in 0 .. b /\ b - (b - y) = y
    BY <2>1
  <2>3. b - y \in D
    BY <2>2 DEF D
  <2>4. d <= b - y
    BY <1>3, <2>3
  <2> QED BY <1>4, <2>1, <2>4
<1>6. \E x \in Z : \A y \in Z : x >= y
  BY <1>4, <1>5
<1>7. A!Max(Z) \in Z /\ \A y \in Z : A!Max(Z) >= y
  BY <1>6 DEF A!Max
<1> HIDE DEF A!Max
<1>8. \A y \in Z : y \in Nat
  OBVIOUS
<1> QED BY <1>7, <1>8

(* The window list of the VM with the applications the host tracks.  Each  *)
(* window of the host is matched with an application of its own and of its *)
(* pid; the programs have few active windows, whose numbers are behind     *)
(* them; and heights are told apart once raised.                           *)
Proc == [pid : A!Pid \ {0}, halted : BOOLEAN]
Win ==
    [id : 1 .. A!Max({MaxWindows, MaxIds}), pid : A!Pid, z_order : 0 .. MaxZ,
     active : BOOLEAN, opener : {"program", "host"}]
AppOf(n) == [slot : A!Slots, pid : A!Pid \ {0}, launch : 1 .. n]

HostWindows(ws) == {k \in DOMAIN ws : ws[k].opener = "host"}

Matches(f, ws, as) ==
    /\ f \in [HostWindows(ws) -> DOMAIN as]
    /\ \A k \in HostWindows(ws) : as[f[k]].pid = ws[k].pid
    /\ \A j, k \in HostWindows(ws) : f[j] = f[k] => j = k

Opened(ws, as) == \E f : Matches(f, ws, as)

ProgramWindows(ws) == {k \in DOMAIN ws : ws[k].active /\ ws[k].opener = "program"}

IdsApart(ws, n) ==
    \A k \in DOMAIN ws : ws[k].opener = "program" =>
        /\ ws[k].id < n
        /\ \A j \in DOMAIN ws : ws[j].opener = "program" /\ ws[j].id = ws[k].id => j = k

HeightsApart(ws) ==
    \A j, k \in DOMAIN ws : j # k /\ ws[j].z_order = ws[k].z_order => ws[j].z_order = 0

WindowsSound(ws, as, n) ==
    /\ ws \in Seq(Win) /\ Len(ws) <= MaxWindows
    /\ Opened(ws, as)
    /\ Cardinality(ProgramWindows(ws)) <= MAX_WINDOWS
    /\ IdsApart(ws, n)
    /\ HeightsApart(ws)

(* The applications are in slots of their own, and what an application may *)
(* find in its region is its own or of a later one in a lower slot.        *)
CodeBlock(n) ==
    [from : {"zeroes", "elsewhere", "launch"}, launch : 0 .. n, slot : 0 .. MAX_WINDOWED_APPS]

MayHold(c, app) ==
    c.from = "launch" =>
        c.launch = app.launch \/ (c.launch > app.launch /\ c.slot < app.slot)

SlotsSound(as, c, n) ==
    /\ as \in Seq(AppOf(n)) /\ c \in [A!CodeBlocks -> CodeBlock(n)]
    /\ \A a \in DOMAIN as : \A block \in A!CodeRegion(as[a].slot) : MayHold(c[block], as[a])
    /\ \A a, b \in DOMAIN as : as[a].slot = as[b].slot => a = b

AppsInv ==
    /\ processes \in Seq(Proc) /\ Len(processes) <= MaxProcesses
    /\ WindowsSound(windows, active_apps, next_window_id)
    /\ next_window_id \in 1 .. MaxIds + 1
    /\ SlotsSound(active_apps, code, launches)
    /\ launches \in 0 .. MaxLaunches /\ phase \in {"vm", "host"}

LEMMA FiniteWindows ==
    ASSUME NEW T, NEW ws \in Seq(T)
    PROVE  /\ IsFiniteSet(DOMAIN ws) /\ Cardinality(DOMAIN ws) = Len(ws)
           /\ IsFiniteSet(ProgramWindows(ws)) /\ Cardinality(ProgramWindows(ws)) \in Nat
           /\ IsFiniteSet(HostWindows(ws)) /\ Cardinality(HostWindows(ws)) \in Nat
<1>1. DOMAIN ws = 1 .. Len(ws) /\ Len(ws) \in Nat
  OBVIOUS
<1>2. IsFiniteSet(DOMAIN ws) /\ Cardinality(DOMAIN ws) = Len(ws)
  BY <1>1, UpTo
<1>3. ProgramWindows(ws) \in SUBSET DOMAIN ws /\ HostWindows(ws) \in SUBSET DOMAIN ws
  BY DEF ProgramWindows, HostWindows
<1>4. IsFiniteSet(ProgramWindows(ws)) /\ IsFiniteSet(HostWindows(ws))
  BY <1>2, <1>3, FS_Subset
<1> QED BY <1>2, <1>4, FS_CardinalityType

(* Windows marked closed or raised are the windows there were.             *)
LEMMA Marked ==
    ASSUME NEW ws, NEW as, NEW n, WindowsSound(ws, as, n), NEW vs \in Seq(Win),
           DOMAIN vs = DOMAIN ws,
           \A k \in DOMAIN ws : /\ vs[k].id = ws[k].id /\ vs[k].opener = ws[k].opener
                                /\ vs[k].pid = ws[k].pid /\ (vs[k].active => ws[k].active),
           HeightsApart(vs)
    PROVE  WindowsSound(vs, as, n)
<1>1. ws \in Seq(Win) /\ Len(vs) = Len(ws)
  BY DEF WindowsSound
<1>2. HostWindows(vs) = HostWindows(ws)
  BY DEF HostWindows
<1>3. Opened(vs, as)
  <2>1. PICK f : Matches(f, ws, as)
    BY DEF WindowsSound, Opened
  <2>2. \A k \in HostWindows(ws) : vs[k].pid = ws[k].pid
    BY DEF HostWindows
  <2>3. Matches(f, vs, as)
    BY <1>2, <2>1, <2>2 DEF Matches
  <2> QED BY <2>3 DEF Opened
<1>4. Cardinality(ProgramWindows(vs)) <= MAX_WINDOWS
  <2>1. ProgramWindows(vs) \in SUBSET ProgramWindows(ws)
    BY DEF ProgramWindows
  <2>2. /\ IsFiniteSet(ProgramWindows(ws)) /\ Cardinality(ProgramWindows(ws)) \in Nat
        /\ Cardinality(ProgramWindows(vs)) \in Nat
    BY <1>1, FiniteWindows
  <2>3. Cardinality(ProgramWindows(vs)) <= Cardinality(ProgramWindows(ws))
    BY <2>1, <2>2, FS_Subset
  <2> QED BY <2>2, <2>3, AppsAssumption DEF WindowsSound
<1>5. IdsApart(vs, n)
  BY DEF WindowsSound, IdsApart
<1> QED BY <1>1, <1>3, <1>4, <1>5 DEF WindowsSound

(* Windows retained with the applications they are matched with.           *)
LEMMA KeptTogether ==
    ASSUME NEW ws, NEW T, NEW as \in Seq(T), NEW n, WindowsSound(ws, as, n),
           NEW ks \in SUBSET DOMAIN ws, NEW bs \in SUBSET DOMAIN as,
           \A k \in ks \cap HostWindows(ws), b \in DOMAIN as : as[b].pid = ws[k].pid => b \in bs
    PROVE  WindowsSound(A!Retained(ws, ks), A!Retained(as, bs), n)
<1> DEFINE vs == A!Retained(ws, ks)
           cs == A!Retained(as, bs)
<1>1. ws \in Seq(Win)
  BY DEF WindowsSound
<1>2. vs \in Seq(Win) /\ Len(vs) <= Len(ws) /\ Len(vs) \in Nat
  BY <1>1, RetainedFrom
<1>3. PICK m, r : Places(vs, ws, ks, m, r)
  BY <1>1, RetainedFrom
<1>p. PICK p, q : Places(cs, as, bs, p, q)
  BY RetainedFrom
<1> HIDE DEF vs, cs
<1>4. q \in [bs -> DOMAIN cs] /\ \A i \in bs : p[q[i]] = i /\ cs[q[i]] = as[i]
  BY <1>p DEF Places
<1>5. \A k \in DOMAIN vs : m[k] \in ks /\ m[k] \in DOMAIN ws /\ vs[k] = ws[m[k]]
  BY <1>3 DEF Places
<1>6. \A j, k \in DOMAIN vs : m[j] = m[k] => j = k
  BY <1>3 DEF Places
<1>7. Opened(vs, cs)
  <2>0. PICK f : Matches(f, ws, as)
    BY DEF WindowsSound, Opened
  <2>1. /\ f \in [HostWindows(ws) -> DOMAIN as]
        /\ \A k \in HostWindows(ws) : as[f[k]].pid = ws[k].pid
        /\ \A j, k \in HostWindows(ws) : f[j] = f[k] => j = k
    BY <2>0 DEF Matches
  <2> DEFINE g == [k \in HostWindows(vs) |-> q[f[m[k]]]]
  <2>2. ASSUME NEW k \in HostWindows(vs)
        PROVE  /\ m[k] \in HostWindows(ws) /\ f[m[k]] \in bs /\ k \in DOMAIN vs
               /\ g[k] \in DOMAIN cs /\ cs[g[k]].pid = vs[k].pid
    <3>1. k \in DOMAIN vs /\ m[k] \in HostWindows(ws) \cap ks /\ vs[k] = ws[m[k]]
      BY <1>5 DEF HostWindows
    <3>2. f[m[k]] \in DOMAIN as /\ as[f[m[k]]].pid = ws[m[k]].pid
      BY <2>1, <3>1
    <3>3. f[m[k]] \in bs
      BY <3>1, <3>2
    <3>4. g[k] = q[f[m[k]]] /\ q[f[m[k]]] \in DOMAIN cs /\ cs[q[f[m[k]]]] = as[f[m[k]]]
      BY <1>4, <3>3
    <3> QED BY <3>1, <3>2, <3>3, <3>4
  <2>3. ASSUME NEW j \in HostWindows(vs), NEW k \in HostWindows(vs), g[j] = g[k]
        PROVE  j = k
    <3>1. q[f[m[j]]] = q[f[m[k]]]
      BY <2>3
    <3>2. f[m[j]] = f[m[k]]
      <4>1. p[q[f[m[j]]]] = f[m[j]]
        BY <1>4, <2>2
      <4>2. p[q[f[m[k]]]] = f[m[k]]
        BY <1>4, <2>2
      <4> QED BY <3>1, <4>1, <4>2
    <3>3. m[j] = m[k]
      BY <2>1, <2>2, <3>2
    <3> QED BY <1>6, <2>2, <3>3
  <2>4. g \in [HostWindows(vs) -> DOMAIN cs]
    BY <2>2
  <2> HIDE DEF g
  <2>5. Matches(g, vs, cs)
    BY <2>2, <2>3, <2>4 DEF Matches
  <2> QED BY <2>5 DEF Opened
<1>8. Cardinality(ProgramWindows(vs)) <= MAX_WINDOWS
  <2> DEFINE h == [k \in ProgramWindows(vs) |-> m[k]]
  <2>1. \A k \in ProgramWindows(vs) : k \in DOMAIN vs /\ m[k] \in ProgramWindows(ws)
    BY <1>5 DEF ProgramWindows
  <2>2. h \in Injection(ProgramWindows(vs), ProgramWindows(ws))
    BY <1>6, <2>1 DEF Injection, IsInjective
  <2>3. /\ IsFiniteSet(ProgramWindows(ws)) /\ Cardinality(ProgramWindows(ws)) \in Nat
        /\ Cardinality(ProgramWindows(vs)) \in Nat
    BY <1>1, <1>2, FiniteWindows
  <2> HIDE DEF h
  <2>4. Cardinality(ProgramWindows(vs)) <= Cardinality(ProgramWindows(ws))
    BY <2>2, <2>3, FS_Injection
  <2> QED BY <2>3, <2>4, AppsAssumption DEF WindowsSound
<1>9. IdsApart(vs, n)
  <2>1. IdsApart(ws, n)
    BY DEF WindowsSound
  <2>2. ASSUME NEW k \in DOMAIN vs, vs[k].opener = "program"
        PROVE  /\ vs[k].id < n
               /\ \A j \in DOMAIN vs : vs[j].opener = "program" /\ vs[j].id = vs[k].id => j = k
    <3>1. m[k] \in DOMAIN ws /\ vs[k] = ws[m[k]]
      BY <1>5
    <3>2. \A j \in DOMAIN vs : vs[j].opener = "program" /\ vs[j].id = vs[k].id => m[j] = m[k]
      BY <1>5, <2>1, <2>2, <3>1 DEF IdsApart
    <3> QED BY <1>6, <2>1, <2>2, <3>1, <3>2 DEF IdsApart
  <2> QED BY <2>2 DEF IdsApart
<1>10. HeightsApart(vs)
  BY <1>5, <1>6 DEF WindowsSound, HeightsApart
<1>11. Len(vs) <= MaxWindows
  <2>1. Len(ws) \in Nat /\ Len(ws) <= MaxWindows /\ MaxWindows \in Nat
    BY <1>1, AppsAssumption DEF WindowsSound
  <2> QED BY <1>2, <2>1
<1>12. WindowsSound(vs, cs, n)
  BY <1>2, <1>7, <1>8, <1>9, <1>10, <1>11 DEF WindowsSound
<1> QED BY <1>12 DEF vs, cs

(* The next window goes above all there are.                               *)
LEMMA TopIs ==
    ASSUME windows \in Seq(Win)
    PROVE  A!TopZ \in Nat \ {0} /\ \A k \in DOMAIN windows : windows[k].z_order < A!TopZ
<1> DEFINE Z == {0} \cup {windows[k].z_order : k \in DOMAIN windows}
<1>1. \A k \in DOMAIN windows : windows[k].z_order \in 0 .. MaxZ
  <2>1. \A k \in DOMAIN windows : windows[k] \in Win
    OBVIOUS
  <2>2. \A w \in Win : w.z_order \in 0 .. MaxZ
    BY DEF Win
  <2> QED BY <2>1, <2>2
<1>2. MaxZ \in Nat
  BY AppsAssumption
<1>3. Z \in SUBSET Nat /\ Z # {} /\ \A z \in Z : z <= MaxZ
  BY <1>1, <1>2
<1>4. A!TopZ = A!Max(Z) + 1
  BY DEF A!TopZ
<1>5. \A k \in DOMAIN windows : windows[k].z_order \in Z
  OBVIOUS
<1> HIDE DEF Z
<1>6. A!Max(Z) \in Z /\ \A z \in Z : z <= A!Max(Z)
  BY <1>2, <1>3, MaxIs
<1>7. A!Max(Z) \in Nat
  BY <1>3, <1>6
<1>8. ASSUME NEW k \in DOMAIN windows PROVE windows[k].z_order < A!TopZ
  <2>1. windows[k].z_order \in Nat /\ windows[k].z_order <= A!Max(Z)
    BY <1>1, <1>2, <1>5, <1>6
  <2> QED BY <1>4, <1>7, <2>1
<1> QED BY <1>4, <1>7, <1>8

LEMMA MaxOfTwo ==
    /\ MaxWindows <= A!Max({MaxWindows, MaxIds}) /\ MaxIds <= A!Max({MaxWindows, MaxIds})
    /\ A!Max({MaxWindows, MaxIds}) \in Nat
<1> DEFINE Z == {MaxWindows, MaxIds}
<1>1. MaxWindows \in Nat /\ MaxIds \in Nat
  BY AppsAssumption
<1>2. Z \in SUBSET Nat /\ Z # {} /\ MaxWindows + MaxIds \in Nat /\ \A z \in Z : z <= MaxWindows + MaxIds
  BY <1>1
<1>3. A!Max(Z) \in Z /\ \A z \in Z : z <= A!Max(Z)
  <2> HIDE DEF Z
  <2> QED BY <1>2, MaxIs
<1> QED BY <1>1, <1>3

LEMMA WindowTypes ==
    ASSUME NEW ws \in Seq(Win), NEW k \in DOMAIN ws
    PROVE  /\ ws[k] \in Win /\ ws[k].id \in Nat /\ ws[k].z_order \in Nat
           /\ ws[k].z_order \in 0 .. MaxZ /\ ws[k].active \in BOOLEAN
           /\ ws[k].opener \in {"program", "host"}
<1>1. ws[k] \in Win
  OBVIOUS
<1>2. A!Max({MaxWindows, MaxIds}) \in Nat /\ MaxZ \in Nat
  BY MaxOfTwo, AppsAssumption
<1> QED BY <1>1, <1>2 DEF Win

LEMMA NoWindows == \A as, n : WindowsSound(<< >>, as, n)
<1> TAKE as, n
<1>1. << >> \in Seq(Win) /\ Len(<< >>) = 0 /\ DOMAIN << >> = {}
  OBVIOUS
<1>2. HostWindows(<< >>) = {} /\ ProgramWindows(<< >>) = {}
  BY <1>1 DEF HostWindows, ProgramWindows
<1>3. Matches([k \in {} |-> k], << >>, as)
  BY <1>2 DEF Matches
<1>4. Cardinality({}) <= MAX_WINDOWS /\ 0 <= MaxWindows
  BY FS_EmptySet, AppsAssumption
<1> QED BY <1>1, <1>2, <1>3, <1>4 DEF WindowsSound, Opened, IdsApart, HeightsApart

(* Where the regions are; and what stays sound of them when blocks are     *)
(* zeroed or overwritten with what is no application's.                    *)
LEMMA Regions ==
    ASSUME NEW slot \in A!Slots
    PROVE  /\ A!CodeRegion(slot) \subseteq A!CodeBlocks
           /\ \A block \in A!CodeRegion(slot), other \in A!Slots :
                 block >= A!CodeStart(other) => other <= slot
<1>1. MAX_WINDOWED_APPS \in Nat
  BY AppsAssumption
<1>2. slot \in Nat /\ slot <= MAX_WINDOWED_APPS - 1
  BY <1>1 DEF A!Slots
<1>3. A!CodeRegion(slot) \subseteq A!CodeBlocks
  BY <1>1, <1>2 DEF A!CodeRegion, A!CodeStart, A!CodeBlocks
<1>4. ASSUME NEW block \in A!CodeRegion(slot), NEW other \in A!Slots, block >= A!CodeStart(other)
      PROVE  other <= slot
  <2>1. other \in Nat
    BY <1>1 DEF A!Slots
  <2> QED BY <1>2, <1>4, <2>1 DEF A!CodeRegion, A!CodeStart
<1> QED BY <1>3, <1>4

LEMMA NobodysBlocks ==
    ASSUME NEW n \in Nat
    PROVE  /\ A!Cleared \in CodeBlock(n) /\ A!Foreign \in CodeBlock(n)
           /\ \A app : MayHold(A!Cleared, app) /\ MayHold(A!Foreign, app)
BY AppsAssumption DEF A!Cleared, A!Foreign, A!Block, CodeBlock, MayHold

LEMMA Members == ASSUME NEW T, NEW s \in Seq(T) PROVE \A i \in DOMAIN s : s[i] \in T
OBVIOUS

LEMMA BlocksLost ==
    ASSUME NEW as, NEW c, NEW n \in Nat, SlotsSound(as, c, n), NEW d, DOMAIN d = A!CodeBlocks,
           d = [block \in A!CodeBlocks |-> d[block]],
           \A block \in A!CodeBlocks : d[block] \in {A!Cleared, A!Foreign, c[block]}
    PROVE  SlotsSound(as, d, n)
<1>1. /\ as \in Seq(AppOf(n)) /\ c \in [A!CodeBlocks -> CodeBlock(n)]
      /\ \A a \in DOMAIN as : \A block \in A!CodeRegion(as[a].slot) : MayHold(c[block], as[a])
      /\ \A a, b \in DOMAIN as : as[a].slot = as[b].slot => a = b
  BY DEF SlotsSound
<1>2. \A block \in A!CodeBlocks : d[block] \in CodeBlock(n)
  BY <1>1, NobodysBlocks
<1>3. d \in [A!CodeBlocks -> CodeBlock(n)]
  BY <1>2
<1>4. \A a \in DOMAIN as : as[a] \in AppOf(n)
  BY <1>1, Members
<1>5. ASSUME NEW a \in DOMAIN as, NEW block \in A!CodeRegion(as[a].slot)
      PROVE  MayHold(d[block], as[a])
  <2>1. as[a] \in AppOf(n)
    BY <1>5, <1>4
  <2>2. as[a].slot \in A!Slots
    BY <2>1 DEF AppOf
  <2>3. block \in A!CodeBlocks
    BY <1>5, <2>2, Regions
  <2>4. MayHold(c[block], as[a])
    BY <1>1, <1>5
  <2> QED BY <2>3, <2>4, NobodysBlocks
<1> QED BY <1>1, <1>3, <1>5 DEF SlotsSound

LEMMA AppsStart == A!Init => AppsInv
<1> SUFFICES ASSUME A!Init PROVE AppsInv
  OBVIOUS
<1>1. /\ processes = << >> /\ windows = << >> /\ active_apps = << >> /\ next_window_id = 1
      /\ code = [block \in A!CodeBlocks |-> A!Cleared] /\ launches = 0 /\ phase = "vm"
  BY DEF A!Init
<1>2. WindowsSound(<< >>, << >>, 1)
  BY NoWindows
<1>3. << >> \in Seq(AppOf(0)) /\ << >> \in Seq(Proc) /\ Len(<< >>) = 0 /\ DOMAIN << >> = {}
  OBVIOUS
<1>4. code \in [A!CodeBlocks -> CodeBlock(0)]
  BY <1>1, NobodysBlocks
<1>5. SlotsSound(<< >>, code, 0)
  BY <1>3, <1>4 DEF SlotsSound
<1>6. 1 \in 1 .. MaxIds + 1 /\ 0 \in 0 .. MaxLaunches /\ 0 <= MaxProcesses
  BY AppsAssumption
<1> QED BY <1>1, <1>2, <1>3, <1>5, <1>6 DEF AppsInv

(* Processes come and go.                                                  *)
LEMMA ProcessesKeep ==
    ASSUME AppsInv, A!Spawn \/ \E i \in DOMAIN processes : A!Halt(i) \/ A!WaitPid(i)
    PROVE  AppsInv'
<1>1. /\ UNCHANGED <<windows, next_window_id, active_apps, code, launches, phase>>
  BY DEF A!Spawn, A!Halt, A!WaitPid
<1>2. processes \in Seq(Proc) /\ Len(processes) \in Nat /\ Len(processes) <= MaxProcesses /\ MaxProcesses \in Nat
  BY AppsAssumption DEF AppsInv
<1>3. processes' \in Seq(Proc) /\ Len(processes') <= MaxProcesses
  <2>1. CASE A!Spawn
    <3>1. PICK p : p = [pid |-> A!NextPid, halted |-> FALSE]
      OBVIOUS
    <3>2. processes' = Append(processes, p) /\ Len(processes) < MaxProcesses
      BY <2>1, <3>1 DEF A!Spawn
    <3>3. p \in Proc
      <4>1. A!NextPid \in A!Pid \ {0}
        BY <1>2, <3>2 DEF A!NextPid, A!Pid
      <4> QED BY <3>1, <4>1 DEF Proc
    <3> QED BY <1>2, <3>2, <3>3
  <2>2. ASSUME NEW i \in DOMAIN processes, A!Halt(i) PROVE processes' \in Seq(Proc) /\ Len(processes') <= MaxProcesses
    <3>1. PICK p : p = [processes[i] EXCEPT !.halted = TRUE]
      OBVIOUS
    <3>2. processes' = [processes EXCEPT ![i] = p]
      BY <2>2, <3>1 DEF A!Halt
    <3>3. p \in Proc
      <4>1. processes[i] \in Proc
        BY <1>2
      <4> QED BY <3>1, <4>1 DEF Proc
    <3> QED BY <1>2, <3>2, <3>3
  <2>3. ASSUME NEW i \in DOMAIN processes, A!WaitPid(i) PROVE processes' \in Seq(Proc) /\ Len(processes') <= MaxProcesses
    <3> DEFINE kept == {j \in DOMAIN processes : processes[j].pid # processes[i].pid}
    <3>1. processes' = A!Retained(processes, kept) /\ kept \in SUBSET DOMAIN processes
      BY <2>3 DEF A!WaitPid
    <3> HIDE DEF kept
    <3>2. processes' \in Seq(Proc) /\ Len(processes') <= Len(processes)
      BY <1>2, <3>1, RetainedFrom
    <3> QED BY <1>2, <3>2
  <2> QED BY <2>1, <2>2, <2>3
<1> QED BY <1>1, <1>3 DEF AppsInv

(* A window more, of a program or of the host with its application.        *)
LEMMA WinCreateKeeps ==
    ASSUME AppsInv, NEW pid \in A!Pid, A!WinCreate(pid)
    PROVE  AppsInv'
<1>1. PICK w : w = A!Window(A!NewId, pid, A!TopZ, "program")
  OBVIOUS
<1>2. /\ UNCHANGED <<processes, active_apps, code, launches, phase>>
      /\ windows' = Append(windows, w) /\ next_window_id' = next_window_id + 1
      /\ Len(windows) < MaxWindows /\ next_window_id <= MaxIds /\ A!TopZ <= MaxZ
      /\ Cardinality(A!Active) < MAX_WINDOWS
  BY <1>1, CountIs DEF A!WinCreate, A!Room
<1>3. /\ windows \in Seq(Win) /\ Len(windows) \in Nat /\ next_window_id \in 1 .. MaxIds + 1
      /\ {MAX_WINDOWS, MaxWindows, MaxIds, MaxZ} \subseteq Nat
  BY AppsAssumption DEF AppsInv, WindowsSound
<1>4. A!TopZ \in 1 .. MaxZ /\ \A k \in DOMAIN windows : windows[k].z_order < A!TopZ
  BY <1>2, <1>3, TopIs
<1>5. next_window_id \in 1 .. A!Max({MaxWindows, MaxIds})
  BY <1>2, <1>3, MaxOfTwo
<1>6. w \in Win /\ w.id = next_window_id /\ w.opener = "program" /\ w.z_order = A!TopZ
  BY <1>1, <1>4, <1>5 DEF A!Window, A!NewId, Win
<1> DEFINE n == Len(windows)
           vs == windows'
<1>7. /\ vs \in Seq(Win) /\ Len(vs) = n + 1 /\ DOMAIN vs = 1 .. n + 1 /\ DOMAIN windows = 1 .. n
      /\ vs[n + 1] = w /\ \A k \in 1 .. n : vs[k] = windows[k]
  BY <1>2, <1>3, <1>6, AppendProperties
<1> HIDE DEF vs, n
<1>0. n \in Nat
  BY <1>3 DEF n
<1>8. HostWindows(vs) = HostWindows(windows) /\ \A k \in HostWindows(windows) : vs[k] = windows[k]
  BY <1>0, <1>6, <1>7 DEF HostWindows
<1>9. Opened(vs, active_apps)
  <2>1. PICK f : Matches(f, windows, active_apps)
    BY DEF AppsInv, WindowsSound, Opened
  <2>2. Matches(f, vs, active_apps)
    BY <1>8, <2>1 DEF Matches
  <2> QED BY <2>2 DEF Opened
<1>10. Cardinality(ProgramWindows(vs)) <= MAX_WINDOWS
  <2>1. ProgramWindows(vs) \in SUBSET (A!Active \cup {n + 1})
    BY <1>0, <1>7 DEF ProgramWindows, A!Active
  <2>2. A!Active \in SUBSET DOMAIN windows
    BY DEF A!Active
  <2>3. IsFiniteSet(A!Active)
    BY <1>3, <2>2, FiniteWindows, FS_Subset
  <2>4. /\ IsFiniteSet(A!Active \cup {n + 1}) /\ Cardinality(A!Active) \in Nat
        /\ Cardinality(A!Active \cup {n + 1}) <= Cardinality(A!Active) + 1
    <3>1. Cardinality(A!Active) \in Nat
      BY <2>3, FS_CardinalityType
    <3>2. IsFiniteSet(A!Active \cup {n + 1})
          /\ Cardinality(A!Active \cup {n + 1})
               = IF n + 1 \in A!Active THEN Cardinality(A!Active) ELSE Cardinality(A!Active) + 1
      BY <2>3, FS_AddElement
    <3> QED BY <3>1, <3>2
  <2>5. Cardinality(ProgramWindows(vs)) <= Cardinality(A!Active \cup {n + 1})
    BY <2>1, <2>4, FS_Subset
  <2>6. Cardinality(ProgramWindows(vs)) \in Nat /\ Cardinality(A!Active \cup {n + 1}) \in Nat
    BY <1>7, <2>4, FiniteWindows, FS_CardinalityType
  <2> QED BY <1>2, <1>3, <2>4, <2>5, <2>6
<1>11. IdsApart(vs, next_window_id + 1)
  <2>1. IdsApart(windows, next_window_id)
    BY DEF AppsInv, WindowsSound
  <2>2. \A k \in 1 .. n : windows[k].opener = "program" => windows[k].id < next_window_id
    BY <1>7, <2>1 DEF IdsApart
  <2>3. \A k \in 1 .. n : windows[k].id \in Nat
    BY <1>3, <1>7, WindowTypes
  <2>4. ASSUME NEW k \in 1 .. n + 1, vs[k].opener = "program"
        PROVE  /\ vs[k].id < next_window_id + 1
               /\ \A j \in 1 .. n + 1 : vs[j].opener = "program" /\ vs[j].id = vs[k].id => j = k
    <3>1. CASE k \in 1 .. n
      <4>1. vs[k].id < next_window_id /\ vs[k].id \in Nat
        BY <1>7, <2>2, <2>3, <2>4, <3>1
      <4>2. \A j \in 1 .. n : vs[j].opener = "program" /\ vs[j].id = vs[k].id => j = k
        BY <1>7, <2>1, <2>4, <3>1 DEF IdsApart
      <4>3. vs[n + 1].id # vs[k].id
        BY <1>3, <1>6, <1>7, <4>1
      <4> QED BY SMTT(30), <1>0, <1>3, <4>1, <4>2, <4>3
    <3>2. CASE k = n + 1
      <4>1. \A j \in 1 .. n : vs[j].opener = "program" => vs[j].id # vs[k].id
        BY <1>3, <1>6, <1>7, <2>2, <2>3, <3>2
      <4> QED BY <1>0, <1>3, <1>6, <1>7, <3>2, <4>1
    <3> QED BY <1>0, <3>1, <3>2
  <2> QED BY <1>7, <2>4 DEF IdsApart
<1>12. HeightsApart(vs)
  <2>1. \A k \in 1 .. n : vs[k].z_order # vs[n + 1].z_order
    <3>1. \A k \in 1 .. n : windows[k].z_order \in Nat /\ windows[k].z_order < A!TopZ
      BY <1>3, <1>4, <1>7, WindowTypes
    <3> QED BY <1>4, <1>6, <1>7, <3>1
  <2>2. HeightsApart(windows)
    BY DEF AppsInv, WindowsSound
  <2>3. ASSUME NEW j \in 1 .. n + 1, NEW k \in 1 .. n + 1, j # k, vs[j].z_order = vs[k].z_order
        PROVE  vs[j].z_order = 0
    <3>1. j \in 1 .. n /\ k \in 1 .. n
      BY <1>0, <2>1, <2>3
    <3> QED BY <1>7, <2>2, <2>3, <3>1 DEF HeightsApart
  <2> QED BY <1>7, <2>3 DEF HeightsApart
<1>13. WindowsSound(windows', active_apps', next_window_id')
  <2>1. Len(vs) <= MaxWindows
    BY <1>2, <1>3, <1>7 DEF n
  <2> QED BY <1>2, <1>7, <1>9, <1>10, <1>11, <1>12, <2>1 DEF WindowsSound, vs
<1> QED BY <1>2, <1>3, <1>13 DEF AppsInv

LEMMA LaunchKeepsApps ==
    ASSUME AppsInv, NEW slot \in A!FreeSlots, NEW size \in ProgramSizes, A!Launch(slot, size)
    PROVE  AppsInv'
<1>1. PICK w : w = A!Window(Len(windows) + 1, A!NextPid, 0, "host")
  OBVIOUS
<1>2. PICK p : p = [pid |-> A!NextPid, halted |-> FALSE]
  OBVIOUS
<1>3. PICK a : a = [slot |-> slot, pid |-> A!NextPid, launch |-> launches + 1]
  OBVIOUS
<1>4. /\ UNCHANGED <<next_window_id, phase>>
      /\ launches' = launches + 1 /\ launches < MaxLaunches
      /\ Len(processes) < MaxProcesses /\ Len(windows) < MaxWindows
      /\ code' = A!Loaded(slot, size, launches + 1)
      /\ windows' = Append(windows, w) /\ processes' = Append(processes, p)
      /\ active_apps' = Append(active_apps, a)
  BY <1>1, <1>2, <1>3 DEF A!Launch
<1>5. /\ windows \in Seq(Win) /\ Len(windows) \in Nat /\ processes \in Seq(Proc) /\ Len(processes) \in Nat
      /\ active_apps \in Seq(AppOf(launches)) /\ launches \in Nat /\ size \in Nat
      /\ code \in [A!CodeBlocks -> CodeBlock(launches)]
      /\ {MAX_WINDOWS, MaxWindows, MaxIds, MaxZ, MaxProcesses, MaxLaunches} \subseteq Nat
      /\ WindowsSound(windows, active_apps, next_window_id) /\ SlotsSound(active_apps, code, launches)
  BY AppsAssumption DEF AppsInv, WindowsSound, SlotsSound
<1>b. /\ Len(windows) \in Nat /\ Len(processes) \in Nat /\ size \in Nat /\ launches \in Nat
      /\ MaxWindows \in Nat /\ MaxProcesses \in Nat
      /\ Len(processes) < MaxProcesses /\ Len(windows) < MaxWindows
  BY <1>4, <1>5
<1>6. A!NextPid \in A!Pid \ {0}
  BY <1>b DEF A!NextPid, A!Pid
<1>7. p \in Proc
  BY <1>2, <1>6 DEF Proc
<1>8. processes' \in Seq(Proc) /\ Len(processes') <= MaxProcesses
  BY <1>4, <1>5, <1>7
<1>9. w \in Win /\ w.opener = "host" /\ w.z_order = 0 /\ w.pid = A!NextPid
  <2>1. Len(windows) + 1 \in 1 .. A!Max({MaxWindows, MaxIds})
    BY <1>b, MaxOfTwo
  <2>2. 0 \in 0 .. MaxZ
    BY <1>5
  <2> QED BY <1>1, <1>6, <2>1, <2>2 DEF A!Window, Win
<1>10. slot \in A!Slots /\ \A b \in DOMAIN active_apps : active_apps[b].slot # slot
  BY DEF A!FreeSlots
<1>11. a \in AppOf(launches + 1) /\ a.slot = slot /\ a.pid = A!NextPid /\ a.launch = launches + 1
  BY <1>3, <1>5, <1>6, <1>10 DEF AppOf
<1> DEFINE n == Len(windows)
           vs == windows'
           g == Len(active_apps)
           as == active_apps'
<1>12. n \in Nat /\ g \in Nat
  BY <1>5
<1>13. /\ vs \in Seq(Win) /\ Len(vs) = n + 1 /\ DOMAIN vs = 1 .. n + 1 /\ DOMAIN windows = 1 .. n
       /\ vs[n + 1] = w /\ \A k \in 1 .. n : vs[k] = windows[k]
  BY <1>4, <1>5, <1>9, AppendProperties
<1>14. active_apps \in Seq(AppOf(launches + 1))
  <2>1. AppOf(launches) \subseteq AppOf(launches + 1)
    <3>1. 1 .. launches \subseteq 1 .. launches + 1
      BY <1>5
    <3> QED BY <3>1 DEF AppOf
  <2>2. \A b \in 1 .. g : active_apps[b] \in AppOf(launches)
    BY <1>5
  <2>3. \A b \in 1 .. g : active_apps[b] \in AppOf(launches + 1)
    BY <2>1, <2>2
  <2>4. active_apps = [b \in 1 .. g |-> active_apps[b]]
    BY <1>5
  <2> HIDE DEF g
  <2>5. [b \in 1 .. g |-> active_apps[b]] \in Seq(AppOf(launches + 1))
    BY <1>12, <2>3, IsASeq
  <2> QED BY <2>4, <2>5
<1>15. /\ as \in Seq(AppOf(launches + 1)) /\ DOMAIN as = 1 .. g + 1 /\ DOMAIN active_apps = 1 .. g
       /\ as[g + 1] = a /\ \A b \in 1 .. g : as[b] = active_apps[b]
  BY <1>4, <1>11, <1>14, AppendProperties
<1>16. Len(vs) <= MaxWindows
  BY <1>4, <1>5, <1>13
<1> HIDE DEF vs, n, g, as
<1>17. Opened(vs, as)
  <2>1. PICK f : Matches(f, windows, active_apps)
    BY DEF AppsInv, WindowsSound, Opened
  <2>2. /\ \A k \in HostWindows(windows) : f[k] \in 1 .. g /\ active_apps[f[k]].pid = windows[k].pid
        /\ \A j, k \in HostWindows(windows) : f[j] = f[k] => j = k
    BY <1>15, <2>1 DEF Matches
  <2> DEFINE h == [k \in HostWindows(vs) |-> IF k = n + 1 THEN g + 1 ELSE f[k]]
  <2>3. \A k \in HostWindows(vs) : k # n + 1 => k \in 1 .. n /\ k \in HostWindows(windows)
    BY <1>12, <1>13 DEF HostWindows
  <2>4. \A k \in HostWindows(vs) : h[k] \in 1 .. g + 1 /\ (k = n + 1 <=> h[k] = g + 1)
    BY <1>12, <2>2, <2>3
  <2>5. \A k \in HostWindows(vs) : as[h[k]].pid = vs[k].pid
    <3> TAKE k \in HostWindows(vs)
    <3>1. CASE k = n + 1
      BY <1>9, <1>11, <1>13, <1>15, <3>1
    <3>2. CASE k # n + 1
      <4>1. k \in 1 .. n /\ k \in HostWindows(windows) /\ h[k] = f[k]
        BY <2>3, <3>2
      <4>2. as[f[k]] = active_apps[f[k]] /\ vs[k] = windows[k]
        BY <1>13, <1>15, <2>2, <4>1
      <4>3. active_apps[f[k]].pid = windows[k].pid
        BY <2>2, <4>1
      <4> HIDE DEF h
      <4> QED BY <4>1, <4>2, <4>3
    <3> QED BY <3>1, <3>2
  <2>6. \A j, k \in HostWindows(vs) : h[j] = h[k] => j = k
    <3> TAKE j, k \in HostWindows(vs)
    <3>1. h[j] = h[k] => (j = n + 1 <=> k = n + 1)
      BY <2>4
    <3>2. j # n + 1 /\ k # n + 1 /\ h[j] = h[k] => j = k
      BY <2>2, <2>3
    <3> QED BY <3>1, <3>2
  <2>7. h \in [HostWindows(vs) -> DOMAIN as]
    BY <1>15, <2>4
  <2> HIDE DEF h
  <2>8. Matches(h, vs, as)
    BY <2>5, <2>6, <2>7 DEF Matches
  <2> QED BY <2>8 DEF Opened
<1>18. Cardinality(ProgramWindows(vs)) <= MAX_WINDOWS
  <2>1. ProgramWindows(vs) = ProgramWindows(windows)
    BY <1>9, <1>12, <1>13 DEF ProgramWindows
  <2> QED BY <1>5, <2>1 DEF WindowsSound
<1>19. IdsApart(vs, next_window_id)
  <2>1. \A k \in DOMAIN vs : vs[k].opener = "program" => k \in DOMAIN windows /\ vs[k] = windows[k]
    BY <1>9, <1>12, <1>13
  <2> QED BY <1>5, <2>1 DEF WindowsSound, IdsApart
<1>20. HeightsApart(vs)
  <2>1. HeightsApart(windows)
    BY <1>5 DEF WindowsSound
  <2>2. ASSUME NEW j \in 1 .. n + 1, NEW k \in 1 .. n + 1, j # k, vs[j].z_order = vs[k].z_order
        PROVE  vs[j].z_order = 0
    <3>1. CASE j = n + 1 \/ k = n + 1
      BY <1>9, <1>13, <2>2, <3>1
    <3>2. CASE j # n + 1 /\ k # n + 1
      <4>1. j \in 1 .. n /\ k \in 1 .. n
        BY <1>12, <3>2
      <4> QED BY <1>13, <2>1, <2>2, <4>1 DEF HeightsApart
    <3> QED BY <3>1, <3>2
  <2> QED BY <1>13, <2>2 DEF HeightsApart
<1>21. WindowsSound(vs, as, next_window_id)
  BY <1>13, <1>16, <1>17, <1>18, <1>19, <1>20 DEF WindowsSound
<1>22. SlotsSound(as, code', launches + 1)
  <2> DEFINE own == A!Block("launch", launches + 1, slot)
  <2>1. /\ slot \in 0 .. MAX_WINDOWED_APPS /\ own \in CodeBlock(launches + 1)
        /\ own.from = "launch" /\ own.launch = launches + 1 /\ own.slot = slot
    <3>1. slot \in 0 .. MAX_WINDOWED_APPS
      <4>1. MAX_WINDOWED_APPS \in Nat
        BY AppsAssumption
      <4>2. slot \in A!Slots
        BY <1>10
      <4> QED BY <4>1, <4>2 DEF A!Slots
    <3> QED BY <1>5, <3>1 DEF A!Block, CodeBlock
  <2> HIDE DEF own
  <2>2. ASSUME NEW block \in A!CodeBlocks
        PROVE  \/ code'[block] = own /\ block >= A!CodeStart(slot)
               \/ code'[block] = A!Cleared
               \/ code'[block] = code[block] /\ block \notin A!CodeRegion(slot)
    <3>1. slot \in Nat
      <4>1. MAX_WINDOWED_APPS \in Nat
        BY AppsAssumption
      <4>2. slot \in A!Slots
        BY <1>10
      <4> QED BY <4>1, <4>2 DEF A!Slots
    <3>2. A!CodeStart(slot) \in Nat /\ block \in Nat
      BY <3>1, AppsAssumption DEF A!CodeStart, A!CodeBlocks
    <3>3. code'[block] =
             CASE block \in A!CodeStart(slot) .. A!CodeStart(slot) + size - 1 -> own
               [] block \in A!CodeRegion(slot) /\ block >= A!CodeStart(slot) + size -> A!Cleared
               [] OTHER -> code[block]
      BY <1>4 DEF A!Loaded, own
    <3>4. CASE block \in A!CodeStart(slot) .. A!CodeStart(slot) + size - 1
      <4>1. ~(block >= A!CodeStart(slot) + size)
        BY <1>b, <3>2, <3>4
      <4>2. block >= A!CodeStart(slot)
        BY <1>b, <3>2, <3>4
      <4> QED BY <3>3, <3>4, <4>1, <4>2
    <3>5. CASE block \notin A!CodeStart(slot) .. A!CodeStart(slot) + size - 1
      <4>1. block \in A!CodeRegion(slot) => block >= A!CodeStart(slot)
        BY <3>2 DEF A!CodeRegion
      <4> HIDE DEF A!CodeRegion, A!CodeStart
      <4>2. block \in A!CodeRegion(slot) => block >= A!CodeStart(slot) + size
        BY <1>b, <3>2, <3>5, <4>1
      <4> QED BY <3>3, <3>5, <4>2
    <3> QED BY <3>4, <3>5
  <2>3. code' \in [A!CodeBlocks -> CodeBlock(launches + 1)]
    <3>1. CodeBlock(launches) \subseteq CodeBlock(launches + 1)
      <4>1. 0 .. launches \subseteq 0 .. launches + 1
        BY <1>5
      <4> QED BY <4>1 DEF CodeBlock
    <3>2. launches + 1 \in Nat
      BY <1>5
    <3>3. \A block \in A!CodeBlocks : code'[block] \in CodeBlock(launches + 1)
      BY <1>5, <2>1, <2>2, <3>1, <3>2, NobodysBlocks
    <3>4. code' = [block \in A!CodeBlocks |-> code'[block]]
      BY <1>4 DEF A!Loaded
    <3> QED BY <3>3, <3>4
  <2>4. \A b \in 1 .. g : /\ active_apps[b].slot \in A!Slots /\ active_apps[b].slot # slot
                          /\ active_apps[b].launch \in 1 .. launches
    <3>1. \A b \in DOMAIN active_apps : active_apps[b] \in AppOf(launches)
      BY <1>5
    <3> QED BY <1>10, <1>15, <3>1 DEF AppOf
  <2>5. ASSUME NEW b \in 1 .. g + 1, NEW block \in A!CodeRegion(as[b].slot)
        PROVE  MayHold(code'[block], as[b])
    <3>1. CASE b = g + 1
      <4>1. as[b] = a
        BY <1>15, <3>1
      <4>2. block \in A!CodeRegion(slot) /\ block \in A!CodeBlocks
        BY <1>10, <1>11, <2>5, <4>1, Regions
      <4>3. code'[block] \in {own, A!Cleared}
        BY <2>2, <4>2
      <4>4. MayHold(own, a)
        BY <1>11, <2>1 DEF MayHold
      <4> QED BY <1>5, <4>1, <4>3, <4>4, NobodysBlocks
    <3>2. CASE b # g + 1
      <4>1. b \in 1 .. g
        BY <1>12, <3>2
      <4>2. as[b] = active_apps[b]
        BY <1>15, <4>1
      <4>3. block \in A!CodeRegion(active_apps[b].slot) /\ block \in A!CodeBlocks
        BY <2>4, <2>5, <4>1, <4>2, Regions
      <4>4. MayHold(code[block], active_apps[b])
        BY <1>5, <1>15, <4>1, <4>3 DEF SlotsSound
      <4>5. ASSUME block >= A!CodeStart(slot) PROVE MayHold(own, active_apps[b])
        <5>1. slot <= active_apps[b].slot
          BY <1>10, <2>4, <4>1, <4>3, <4>5, Regions
        <5>2. slot < active_apps[b].slot
          <6>1. slot \in Int /\ active_apps[b].slot \in Int
            BY <1>5, <1>10, <2>4, <4>1 DEF A!Slots
          <6> QED BY <2>4, <4>1, <5>1, <6>1
        <5>3. own.launch > active_apps[b].launch
          <6>1. active_apps[b].launch \in 1 .. launches
            BY <2>4, <4>1
          <6> QED BY <1>b, <2>1, <6>1
        <5> QED BY <2>1, <5>2, <5>3 DEF MayHold
      <4>6. \/ code'[block] = own /\ block >= A!CodeStart(slot)
            \/ code'[block] = A!Cleared \/ code'[block] = code[block]
        BY <2>2, <4>3
      <4>7. MayHold(A!Cleared, active_apps[b])
        BY <1>5, NobodysBlocks
      <4> QED BY <4>2, <4>4, <4>5, <4>6, <4>7
    <3> QED BY <3>1, <3>2
  <2>6. \A b, c \in 1 .. g + 1 : as[b].slot = as[c].slot => b = c
    <3> TAKE b, c \in 1 .. g + 1
    <3>1. b \in 1 .. g \/ b = g + 1
      BY <1>12
    <3>2. c \in 1 .. g \/ c = g + 1
      BY <1>12
    <3>3. b \in 1 .. g /\ c \in 1 .. g => (as[b].slot = as[c].slot => b = c)
      BY <1>5, <1>15 DEF SlotsSound
    <3> QED BY <1>11, <1>15, <2>4, <3>1, <3>2, <3>3
  <2> QED BY <1>15, <2>3, <2>5, <2>6 DEF SlotsSound
<1>23. launches + 1 \in 0 .. MaxLaunches
  BY <1>4, <1>5
<1> QED BY <1>4, <1>8, <1>21, <1>22, <1>23 DEF AppsInv, vs, as

(* Windows closed, raised or both are the windows there were.              *)
LEMMA MarksKeep ==
    ASSUME NEW as, NEW n, WindowsSound(windows, as, n), NEW ks
    PROVE  /\ WindowsSound(A!Closed(ks), as, n)
           /\ (A!TopZ <= MaxZ /\ \A j, k \in ks : j = k) =>
                /\ WindowsSound(A!Raised(ks), as, n)
                /\ WindowsSound(A!RaisedAndClosed(ks), as, n)
<1>0. windows \in Seq(Win) /\ HeightsApart(windows)
  BY DEF WindowsSound
<1>1. DOMAIN windows = 1 .. Len(windows) /\ Len(windows) \in Nat
  BY <1>0
<1>2. \A k \in DOMAIN windows : windows[k] \in Win
  BY <1>0
<1>4. WindowsSound(A!Closed(ks), as, n)
  <2> DEFINE b(k) == windows[k].active /\ k \notin ks
             v(k) == [windows[k] EXCEPT !.active = b(k)]
             vs == [k \in 1 .. Len(windows) |-> v(k)]
  <2>1. \A k : b(k) \in BOOLEAN /\ (b(k) => windows[k].active)
    OBVIOUS
  <2>2. A!Closed(ks) = vs
    BY <1>1 DEF A!Closed
  <2> HIDE DEF b
  <2>3. ASSUME NEW k \in DOMAIN windows
        PROVE  /\ v(k) \in Win /\ v(k).active = b(k) /\ v(k).z_order = windows[k].z_order
               /\ v(k).id = windows[k].id /\ v(k).pid = windows[k].pid
               /\ v(k).opener = windows[k].opener
    <3>2. PICK w \in Win, c \in BOOLEAN : w = windows[k] /\ c = b(k)
      BY <1>2, <2>1
    <3>3. v(k) = [w EXCEPT !.active = c]
      BY <3>2
    <3> HIDE DEF v
    <3> QED BY <3>2, <3>3 DEF Win
  <2> HIDE DEF v
  <2>4. vs \in Seq(Win)
    BY <1>1, <2>3, IsASeq
  <2>5. DOMAIN vs = DOMAIN windows /\ \A k \in DOMAIN windows : vs[k] = v(k)
    BY <1>1
  <2> HIDE DEF vs
  <2>6. HeightsApart(vs)
    BY <1>0, <2>3, <2>5 DEF HeightsApart
  <2>7. \A k \in DOMAIN windows : /\ vs[k].id = windows[k].id /\ vs[k].opener = windows[k].opener
                                  /\ vs[k].pid = windows[k].pid
                                  /\ (vs[k].active => windows[k].active)
    BY <2>1, <2>3, <2>5
  <2> QED BY <2>2, <2>4, <2>5, <2>6, <2>7, Marked
<1>5. ASSUME A!TopZ <= MaxZ, \A j, k \in ks : j = k
      PROVE  WindowsSound(A!Raised(ks), as, n) /\ WindowsSound(A!RaisedAndClosed(ks), as, n)
  <2>1. A!TopZ \in 0 .. MaxZ /\ \A k \in DOMAIN windows : windows[k].z_order < A!TopZ
    BY <1>0, <1>5, TopIs, AppsAssumption
  <2> DEFINE z(k) == IF k \in ks THEN A!TopZ ELSE windows[k].z_order
             u(k) == [windows[k] EXCEPT !.z_order = z(k)]
             us == [k \in 1 .. Len(windows) |-> u(k)]
             b(k) == us[k].active /\ k \notin ks
             v(k) == [us[k] EXCEPT !.active = b(k)]
             vs == [k \in 1 .. Len(windows) |-> v(k)]
  <2>2. A!Raised(ks) = us
    BY <1>1 DEF A!Raised
  <2>3. A!RaisedAndClosed(ks) = vs
    <3> HIDE DEF us
    <3> QED BY <1>1, <2>2 DEF A!RaisedAndClosed
  <2>4. \A k : b(k) \in BOOLEAN /\ (b(k) => us[k].active)
    OBVIOUS
  <2>5. \A k \in DOMAIN windows : z(k) \in 0 .. MaxZ
    BY <1>0, <2>1, WindowTypes
  <2> HIDE DEF b
  <2>6. ASSUME NEW k \in DOMAIN windows
        PROVE  /\ u(k) \in Win /\ u(k).active = windows[k].active /\ u(k).z_order = z(k)
               /\ u(k).id = windows[k].id /\ u(k).pid = windows[k].pid
               /\ u(k).opener = windows[k].opener
    <3> HIDE DEF z
    <3>1. PICK w \in Win, y \in 0 .. MaxZ : w = windows[k] /\ y = z(k)
      BY <1>2, <2>5
    <3>2. u(k) = [w EXCEPT !.z_order = y]
      BY <3>1
    <3> HIDE DEF u
    <3> QED BY <3>1, <3>2 DEF Win
  <2> HIDE DEF u
  <2>7. \A k \in DOMAIN windows : us[k] = u(k)
    BY <1>1
  <2> HIDE DEF us
  <2>8. ASSUME NEW k \in DOMAIN windows
        PROVE  /\ v(k) \in Win /\ v(k).active = b(k) /\ v(k).z_order = z(k)
               /\ v(k).id = windows[k].id /\ v(k).pid = windows[k].pid
               /\ v(k).opener = windows[k].opener
    <3> HIDE DEF z
    <3>1. PICK w \in Win, y \in 0 .. MaxZ, c \in BOOLEAN : w = us[k] /\ y = z(k) /\ c = b(k)
      BY <2>4, <2>5, <2>6, <2>7
    <3>2. v(k) = [w EXCEPT !.active = c]
      BY <3>1
    <3> HIDE DEF v
    <3> QED BY <2>6, <2>7, <3>1, <3>2 DEF Win
  <2> HIDE DEF v
  <2>9. us \in Seq(Win) /\ DOMAIN us = DOMAIN windows
    BY <1>1, <2>6, IsASeq DEF us
  <2>10. vs \in Seq(Win) /\ DOMAIN vs = DOMAIN windows /\ \A k \in DOMAIN windows : vs[k] = v(k)
    BY <1>1, <2>8, IsASeq
  <2> HIDE DEF vs
  <2>11. ASSUME NEW j \in DOMAIN windows, NEW k \in DOMAIN windows, j # k, z(j) = z(k)
         PROVE  z(j) = 0
    <3>1. \A i \in DOMAIN windows : windows[i].z_order \in Nat /\ windows[i].z_order < A!TopZ
      BY <1>0, <2>1, WindowTypes
    <3>2. ~(j \in ks /\ k \in ks)
      BY <1>5, <2>11
    <3>3. j \notin ks /\ k \notin ks
      BY <2>1, <2>11, <3>1, <3>2
    <3> QED BY <1>0, <2>11, <3>3 DEF HeightsApart
  <2> HIDE DEF z
  <2>12. HeightsApart(us) /\ HeightsApart(vs)
    BY <2>6, <2>7, <2>8, <2>9, <2>10, <2>11 DEF HeightsApart
  <2>13. \A k \in DOMAIN windows : /\ us[k].id = windows[k].id /\ us[k].opener = windows[k].opener
                                   /\ us[k].pid = windows[k].pid
                                   /\ (us[k].active => windows[k].active)
    BY <2>6, <2>7
  <2>14. \A k \in DOMAIN windows : /\ vs[k].id = windows[k].id /\ vs[k].opener = windows[k].opener
                                   /\ vs[k].pid = windows[k].pid
                                   /\ (vs[k].active => windows[k].active)
    BY <2>4, <2>8, <2>10, <2>13
  <2>15. WindowsSound(us, as, n)
    BY <2>9, <2>12, <2>13, Marked
  <2>16. WindowsSound(vs, as, n)
    BY <2>10, <2>12, <2>14, Marked
  <2> QED BY <2>2, <2>3, <2>15, <2>16
<1> QED BY <1>4, <1>5
LEMMA WindowStepsKeep ==
    ASSUME AppsInv,
           \/ \E k \in DOMAIN windows : A!WinDestroy(k) \/ A!WinRaise(k)
           \/ \E pid \in A!Pids : A!ProcessKill(pid)
    PROVE  AppsInv'
<1>1. UNCHANGED <<processes, next_window_id, active_apps, code, launches, phase>>
  BY DEF A!WinDestroy, A!WinRaise, A!ProcessKill
<1>2. WindowsSound(windows, active_apps, next_window_id) /\ windows \in Seq(Win)
  BY DEF AppsInv, WindowsSound
<1>3. ASSUME NEW id, NEW among \in SUBSET DOMAIN windows
      PROVE  \A j, k \in A!First(id, among) : j = k
  <2>1. \A k \in among : k \in Nat
    BY <1>2
  <2> TAKE j, k \in A!First(id, among)
  <2>2. j \in Nat /\ k \in Nat /\ j <= k /\ k <= j
    BY <2>1 DEF A!First
  <2> QED BY <2>2
<1>4. A!Active \in SUBSET DOMAIN windows
  BY DEF A!Active
<1>5. \/ \E ks : windows' = A!Closed(ks)
      \/ /\ A!TopZ <= MaxZ
         /\ \E id : \E among \in SUBSET DOMAIN windows :
               \/ windows' = A!Raised(A!First(id, among))
               \/ windows' = A!RaisedAndClosed(A!First(id, among))
  <2>1. ASSUME NEW k \in DOMAIN windows, A!WinDestroy(k)
        PROVE  \/ \E ks : windows' = A!Closed(ks)
               \/ /\ A!TopZ <= MaxZ
                  /\ windows' = A!RaisedAndClosed(A!First(windows[k].id, DOMAIN windows))
    BY <2>1 DEF A!WinDestroy
  <2>2. ASSUME NEW k \in DOMAIN windows, A!WinRaise(k)
        PROVE  /\ A!TopZ <= MaxZ
               /\ \/ windows' = A!Raised(A!First(windows[k].id, A!Active))
                  \/ windows' = A!Raised(A!First(windows[k].id, DOMAIN windows))
    BY <2>2 DEF A!WinRaise
  <2>3. ASSUME NEW pid \in A!Pids, A!ProcessKill(pid)
        PROVE  \E ks : windows' = A!Closed(ks)
    BY <2>3 DEF A!ProcessKill
  <2>4. DOMAIN windows \in SUBSET DOMAIN windows
    OBVIOUS
  <2> QED BY <1>4, <2>1, <2>2, <2>3, <2>4
<1>6. WindowsSound(windows', active_apps, next_window_id)
  BY <1>2, <1>3, <1>5, MarksKeep
<1> QED BY <1>1, <1>6 DEF AppsInv

(* The clean-up takes an application, its windows and its code together.   *)
LEMMA CleanupKeeps == ASSUME AppsInv, A!Cleanup PROVE AppsInv'
<1> DEFINE gone == {active_apps[a].pid : a \in A!ToRemove}
           ks == {k \in DOMAIN windows : windows[k].pid \notin gone}
           bs == DOMAIN active_apps \ A!ToRemove
<1>1. /\ WindowsSound(windows, active_apps, next_window_id) /\ windows \in Seq(Win)
      /\ SlotsSound(active_apps, code, launches) /\ active_apps \in Seq(AppOf(launches))
  BY DEF AppsInv, WindowsSound, SlotsSound
<1>2. /\ UNCHANGED <<processes, next_window_id, launches>> /\ phase' = "host"
      /\ windows' = A!Retained(windows, ks)
      /\ code' = [block \in A!CodeBlocks |-> code'[block]]
      /\ \A block \in A!CodeBlocks : code'[block] \in {A!Cleared, code[block]}
  <2>1. UNCHANGED <<processes, next_window_id, launches>> /\ phase' = "host" /\ windows' = A!KeptWindows
    BY DEF A!Cleanup
  <2>2. windows' = A!Retained(windows, ks)
    BY <2>1 DEF A!KeptWindows
  <2>3. PICK zeroed : code' = [block \in A!CodeBlocks |->
                                 IF block \in zeroed THEN A!Cleared ELSE code[block]]
    BY DEF A!Cleanup
  <2> HIDE DEF ks
  <2>4. \A block \in A!CodeBlocks : code'[block] \in {A!Cleared, code[block]}
    BY <2>3
  <2>5. code' = [block \in A!CodeBlocks |-> code'[block]]
    BY <2>3
  <2> QED BY <2>1, <2>2, <2>4, <2>5
<1>3. active_apps' = A!Retained(active_apps, bs)
  BY <1>1, RemainingIs DEF A!Cleanup
<1>4. ks \in SUBSET DOMAIN windows /\ bs \in SUBSET DOMAIN active_apps
  OBVIOUS
<1>5. \A k \in ks \cap HostWindows(windows), b \in DOMAIN active_apps :
         active_apps[b].pid = windows[k].pid => b \in bs
  OBVIOUS
<1> HIDE DEF ks, bs
<1>6. WindowsSound(windows', active_apps', next_window_id')
  BY <1>1, <1>2, <1>3, <1>4, <1>5, KeptTogether
<1>7. SlotsSound(active_apps', code', launches')
  <2>1. active_apps' \in Seq(AppOf(launches))
    BY <1>1, <1>3, <1>4, RetainedFrom
  <2>2. PICK m, r : Places(active_apps', active_apps, bs, m, r)
    BY <1>1, <1>3, <1>4, RetainedFrom
  <2>3. /\ \A k \in DOMAIN active_apps' : m[k] \in DOMAIN active_apps /\ active_apps'[k] = active_apps[m[k]]
        /\ \A j, k \in DOMAIN active_apps' : m[j] = m[k] => j = k
    BY <1>4, <2>2 DEF Places
  <2>4. SlotsSound(active_apps, code', launches)
    <3>1. launches \in Nat
      BY DEF AppsInv
    <3>2. DOMAIN code' = A!CodeBlocks
      BY <1>2
    <3> QED BY <1>1, <1>2, <3>1, <3>2, BlocksLost
  <2>5. code' \in [A!CodeBlocks -> CodeBlock(launches)]
    BY <2>4 DEF SlotsSound
  <2>6. \A a \in DOMAIN active_apps' : \A block \in A!CodeRegion(active_apps'[a].slot) :
           MayHold(code'[block], active_apps'[a])
    BY <2>3, <2>4 DEF SlotsSound
  <2>7. \A a, b \in DOMAIN active_apps' : active_apps'[a].slot = active_apps'[b].slot => a = b
    BY <1>1, <2>3 DEF SlotsSound
  <2> QED BY <1>2, <2>1, <2>5, <2>6, <2>7 DEF SlotsSound
<1> QED BY <1>2, <1>6, <1>7 DEF AppsInv

(* A VM that starts anew, or from a file, has no windows; the applications *)
(* stay tracked.  A program loaded from the start of RAM moves nothing.    *)
LEMMA NewVmKeeps == ASSUME AppsInv, A!Reset \/ A!Load PROVE AppsInv'
<1>1. /\ UNCHANGED <<active_apps, launches, phase>>
      /\ processes' = << >> /\ windows' = << >> /\ next_window_id' = 1
      /\ \E block \in {A!Cleared, A!Foreign} : code' = [b \in A!CodeBlocks |-> block]
  BY DEF A!Reset, A!Load, A!NewVm
<1>2. WindowsSound(<< >>, active_apps, 1)
  BY NoWindows
<1>3. SlotsSound(active_apps, code, launches) /\ launches \in Nat
  BY DEF AppsInv
<1>4. SlotsSound(active_apps, code', launches)
  BY <1>1, <1>3, BlocksLost
<1>5. << >> \in Seq(Proc) /\ Len(<< >>) = 0 /\ 0 <= MaxProcesses /\ 1 \in 1 .. MaxIds + 1
  BY AppsAssumption
<1> QED BY <1>1, <1>2, <1>4, <1>5 DEF AppsInv

LEMMA LoadProgramKeeps == ASSUME AppsInv, NEW last, A!LoadProgram(last) PROVE AppsInv'
<1>1. /\ UNCHANGED <<processes, windows, next_window_id, active_apps, launches, phase>>
      /\ code' = [block \in A!CodeBlocks |-> IF block <= last THEN A!Foreign ELSE code[block]]
  BY DEF A!LoadProgram
<1>2. SlotsSound(active_apps, code, launches) /\ launches \in Nat
  BY DEF AppsInv
<1>3. \A block \in A!CodeBlocks : code'[block] \in {A!Cleared, A!Foreign, code[block]}
  BY <1>1
<1>4. DOMAIN code' = A!CodeBlocks /\ code' = [block \in A!CodeBlocks |-> code'[block]]
  BY <1>1
<1>5. SlotsSound(active_apps, code', launches)
  BY <1>2, <1>3, <1>4, BlocksLost
<1> QED BY <1>1, <1>5 DEF AppsInv

LEMMA AppsInductive == AppsInv /\ [A!Next]_appsVars => AppsInv'
<1>1. AppsInv /\ UNCHANGED appsVars => AppsInv'
  BY DEF AppsInv, appsVars
<1> SUFFICES ASSUME AppsInv, A!Next PROVE AppsInv'
  BY <1>1
<1>2. CASE A!Resume
  BY <1>2 DEF A!Resume, AppsInv
<1>3. ASSUME NEW pid \in {0} \cup {processes[i].pid : i \in {j \in DOMAIN processes : ~processes[j].halted}},
             A!WinCreate(pid)
      PROVE  AppsInv'
  <2>1. \A i \in DOMAIN processes : processes[i].pid \in A!Pid
    <3>1. \A i \in DOMAIN processes : processes[i] \in Proc
      BY DEF AppsInv
    <3> QED BY <3>1 DEF Proc
  <2>2. pid \in A!Pid
    BY <2>1, AppsAssumption DEF A!Pid
  <2> QED BY <1>3, <2>2, WinCreateKeeps
<1> QED BY <1>2, <1>3, ProcessesKeep, LaunchKeepsApps, WindowStepsKeep, CleanupKeeps, NewVmKeeps,
       LoadProgramKeeps DEF A!Next

LEMMA AppsIsSound == AppsInv => A!AppsSound
<1> SUFFICES ASSUME AppsInv PROVE A!AppsSound
  OBVIOUS
<1>1. /\ windows \in Seq(Win) /\ Len(windows) \in Nat /\ Len(windows) <= MaxWindows
      /\ active_apps \in Seq(AppOf(launches)) /\ Len(active_apps) \in Nat
      /\ Opened(windows, active_apps) /\ Cardinality(ProgramWindows(windows)) <= MAX_WINDOWS
      /\ IdsApart(windows, next_window_id) /\ HeightsApart(windows)
  BY DEF AppsInv, WindowsSound, SlotsSound
<1>2. A!TypeOK
  <2>1. processes \in A!BoundedSeq([pid : A!Pid \ {0}, halted : BOOLEAN], MaxProcesses)
    <3>1. /\ processes \in Seq(Proc) /\ Len(processes) \in 0 .. MaxProcesses
          /\ DOMAIN processes = 1 .. Len(processes)
      BY AppsAssumption DEF AppsInv
    <3>2. processes \in [1 .. Len(processes) -> Proc]
      BY <3>1
    <3>3. processes \in A!BoundedSeq(Proc, MaxProcesses)
      BY <3>1, <3>2 DEF A!BoundedSeq, A!SeqOf
    <3> QED BY <3>3 DEF Proc
  <2>2. \A k \in DOMAIN windows : windows[k] \in Win
    BY <1>1
  <2>3. \A a \in DOMAIN active_apps : active_apps[a] \in AppOf(launches)
    BY <1>1
  <2> QED BY <1>1, <2>1, <2>2, <2>3 DEF A!TypeOK, AppsInv, Win, AppOf, SlotsSound, CodeBlock
<1>3. PICK f : Matches(f, windows, active_apps)
  BY <1>1 DEF Opened
<1>4. A!WindowsHaveApp
  BY <1>3 DEF A!WindowsHaveApp, Matches, HostWindows
<1>5. A!OwnCode /\ A!SlotsApart
  BY DEF A!OwnCode, A!SlotsApart, A!MayBeThere, AppsInv, SlotsSound, MayHold
<1>6. A!ActiveBounded
  <2> DEFINE P == ProgramWindows(windows)
             H == HostWindows(windows)
  <2>1. /\ IsFiniteSet(P) /\ IsFiniteSet(H) /\ Cardinality(P) \in Nat /\ Cardinality(H) \in Nat
        /\ IsFiniteSet(DOMAIN active_apps) /\ Cardinality(DOMAIN active_apps) = Len(active_apps)
    BY <1>1, FiniteWindows
  <2>2. f \in Injection(H, DOMAIN active_apps)
    BY <1>3 DEF Matches, Injection, IsInjective
  <2>3. A!Active \in SUBSET (P \cup H)
    <3>1. \A k \in DOMAIN windows : windows[k].opener \in {"program", "host"}
      BY <1>1, WindowTypes
    <3> QED BY <3>1 DEF A!Active, ProgramWindows, HostWindows
  <2> HIDE DEF P, H
  <2>4. Cardinality(H) <= Len(active_apps)
    BY <2>1, <2>2, FS_Injection
  <2>5. /\ IsFiniteSet(P \cup H) /\ Cardinality(P \cap H) \in Nat
        /\ Cardinality(P \cup H) = Cardinality(P) + Cardinality(H) - Cardinality(P \cap H)
    <3>1. IsFiniteSet(P \cap H)
      BY <2>1, FS_Subset
    <3> QED BY <2>1, <3>1, FS_Union, FS_CardinalityType
  <2>6. IsFiniteSet(A!Active) /\ Cardinality(A!Active) <= Cardinality(P \cup H)
    BY <2>3, <2>5, FS_Subset
  <2>7. Cardinality(A!Active) \in Nat /\ Cardinality(P) <= MAX_WINDOWS /\ MAX_WINDOWS \in Nat
    BY <1>1, <2>6, FS_CardinalityType, AppsAssumption DEF P
  <2>8. Cardinality(A!Active) <= MAX_WINDOWS + Len(active_apps)
    BY <1>1, <2>1, <2>4, <2>5, <2>6, <2>7
  <2> QED BY <2>8, CountIs DEF A!ActiveBounded
<1>7. A!IdsOfPrograms
  <2>1. \A k \in DOMAIN windows : windows[k].opener \in {"program", "host"}
    BY <1>1, WindowTypes
  <2> QED BY <1>1, <2>1 DEF A!IdsOfPrograms, IdsApart
<1>8. A!HeightsDiffer
  BY <1>1 DEF A!HeightsDiffer, HeightsApart
<1> QED BY <1>2, <1>4, <1>5, <1>6, <1>7, <1>8 DEF A!AppsSound

(* The removals take the applications with a halted process's number, and  *)
(* no others.                                                              *)
LEMMA HaltedGo ==
    ASSUME AppsInv, A!Next, phase = "vm", phase' = "host"
    PROVE  {active_apps'[a] : a \in DOMAIN active_apps'}
             = {active_apps[a] : a \in {b \in DOMAIN active_apps :
                  \A i \in DOMAIN processes' :
                     processes'[i].pid = active_apps[b].pid => ~processes'[i].halted}}
<1>1. A!Cleanup
  BY DEF A!Next, A!Spawn, A!Reset, A!Load, A!NewVm, A!Resume, A!Halt, A!WaitPid, A!WinCreate,
         A!WinDestroy, A!WinRaise, A!ProcessKill, A!Launch, A!LoadProgram
<1> DEFINE bs == DOMAIN active_apps \ A!ToRemove
<1>2. active_apps \in Seq(AppOf(launches)) /\ processes' = processes
  BY <1>1 DEF AppsInv, SlotsSound, A!Cleanup
<1>3. active_apps' = A!Retained(active_apps, bs) /\ bs \in SUBSET DOMAIN active_apps
  BY <1>1, <1>2, RemainingIs DEF A!Cleanup
<1>4. bs = {b \in DOMAIN active_apps :
              \A i \in DOMAIN processes' :
                 processes'[i].pid = active_apps[b].pid => ~processes'[i].halted}
  BY <1>2 DEF A!ToRemove, A!HasHalted
<1> HIDE DEF bs
<1>5. PICK m, r : Places(active_apps', active_apps, bs, m, r)
  BY <1>2, <1>3, RetainedFrom
<1>6. \A a \in DOMAIN active_apps' : m[a] \in bs /\ active_apps'[a] = active_apps[m[a]]
  BY <1>5 DEF Places
<1>7. \A b \in bs : r[b] \in DOMAIN active_apps' /\ active_apps'[r[b]] = active_apps[b]
  BY <1>5 DEF Places
<1>8. {active_apps'[a] : a \in DOMAIN active_apps'} = {active_apps[b] : b \in bs}
  BY <1>6, <1>7
<1> QED BY <1>4, <1>8
-----------------------------------------------------------------------------
(* The parts together: each behaviour moves one and leaves the others.     *)
HostInv == PtyInv /\ SaveInv /\ LiveInv /\ AppsInv

LEMMA HostInductive ==
    ASSUME HostInv, [HostNext]_<<vars, appsVars, saveVars, guestVars, part>>
    PROVE  HostInv' /\ (restored' # restored => restored' = S!Words(saved[1], saved[2]))
<1>1. [Next]_vars /\ [S!Next]_saveVars /\ [L!Next]_guestVars /\ [A!Next]_appsVars
  BY DEF HostNext
<1>2. PtyInv' /\ LiveInv' /\ AppsInv'
  BY <1>1, PtyInductive, LiveInductive, AppsInductive DEF HostInv
<1>3. SaveInv' /\ (restored' # restored => restored' = S!Words(saved[1], saved[2]))
  <2>1. CASE S!Next
    BY <2>1, SaveSteps DEF HostInv
  <2>2. CASE UNCHANGED saveVars
    BY <2>2 DEF saveVars, HostInv, SaveInv
  <2> QED BY <1>1, <2>1, <2>2
<1> QED BY <1>2, <1>3 DEF HostInv

LEMMA HostAlways == Host => []HostInv
<1>1. HostInit => HostInv
  BY PtyStarts, SaveStarts, LiveStarts, AppsStart DEF HostInit, HostInv
<1>2. HostInv /\ [HostNext]_<<vars, appsVars, saveVars, guestVars, part>> => HostInv'
  BY HostInductive
<1> QED BY <1>1, <1>2, PTL DEF Host

LEMMA PtyIsSound == PtyInv => StreamsSound
BY DEF PtyInv, StreamsSound, BytesInOrder, SessionSound, InOrder, Written

(* A guest program reads from a terminal what its child wrote, in order,   *)
(* with nothing lost, doubled or left from the slot's former session; and  *)
(* the save file never holds more than one save.                           *)
THEOREM HostIsSound == Host => []HostSound
<1>1. HostInv => HostSound
  BY PtyIsSound DEF HostInv, HostSound, SaveInv, S!TypeOK, SaveWords, SaveLen
<1> QED BY <1>1, HostAlways, PTL

(* The second report of the end in a row is the end: the child has exited  *)
(* and every byte of it was read.                                          *)
THEOREM SecondReportIsTheEnd == Host => []SecondEndIsTheEnd
<1>1. PtyInv => SecondEndIsTheEnd
  <2> SUFFICES ASSUME PtyInv, NEW s \in Sessions, InSlot(s), session[s].ends = 2
               PROVE  session[s].child = "exited" /\ session[s].got = Written(s)
    BY DEF SecondEndIsTheEnd
  <2> DEFINE r == session[s]
  <2>1. /\ r.closed_flag /\ r.child = "exited" /\ r.output = << >> /\ r.buf = << >>
        /\ r.channel = << >> /\ InOrder(r) /\ r \in Session
    BY DEF PtyInv, SessionSound
  <2>2. r.got \in Seq(Nat)
    BY <2>1 DEF Session, Bytes
  <2>3. r.got \o << >> \o << >> \o << >> = r.got
    BY <2>2, ConcatEmptySeq
  <2> QED BY <2>1, <2>3 DEF InOrder, Written
<1>2. HostInv => SecondEndIsTheEnd
  BY <1>1 DEF HostInv
<1> QED BY <1>2, HostAlways, PTL

(* However saves are cut short, by a kill of the host or a write that      *)
(* fails, what a load gives is the VM and the canvas of one save, the last. *)
THEOREM SavesAreRestored == Host => RestoresLastSave
<1>1. HostInv /\ [HostNext]_<<vars, appsVars, saveVars, guestVars, part>>
        => [restored' # restored => restored' = S!Words(saved[1], saved[2])]_saveVars
  BY HostInductive
<1> QED BY <1>1, HostAlways, PTL DEF Host, RestoresLastSave, S!RestoresLastSave, S!vars, saveVars

(* Snapshots, typed bytes, the pause flag and the picture shown are never  *)
(* of an earlier moment, order or guest than the main loop takes them for. *)
THEOREM GuestsAreSound == Host => []GuestSound
<1>1. HostInv => GuestSound
  BY LiveIsSound DEF HostInv, GuestSound
<1> QED BY <1>1, HostAlways, PTL

(* Each window the host opened is matched with an application it tracks;   *)
(* no two of these are in one slot, and none finds in its region what was  *)
(* launched before it, nor what was launched after it but for a program of *)
(* a lower slot that was too long; programs and host have no more active   *)
(* windows than their limits together; and numbers and heights repeat only *)
(* where the host gave them: for any number of slots, windows, processes   *)
(* and sizes of programs, with resets and loads of saved states between.   *)
THEOREM AppsAreSound == Host => []AppsSound
<1>1. HostInv => AppsSound
  BY AppsIsSound DEF HostInv, AppsSound
<1> QED BY <1>1, HostAlways, PTL

(* When the host's turn begins the applications with the number of a       *)
(* halted process are gone from the list and all others are in it, though  *)
(* each removal moves the ones behind it.                                  *)
THEOREM HaltedAppsAreGone == Host => HaltedAppsGone
<1>1. HostInv /\ [HostNext]_<<vars, appsVars, saveVars, guestVars, part>>
        => [phase = "vm" /\ phase' = "host" =>
              {active_apps'[a] : a \in DOMAIN active_apps'}
                = {active_apps[a] : a \in {b \in DOMAIN active_apps :
                     \A i \in DOMAIN processes' :
                        processes'[i].pid = active_apps[b].pid => ~processes'[i].halted}}]_appsVars
  <2>1. [HostNext]_<<vars, appsVars, saveVars, guestVars, part>> => A!Next \/ UNCHANGED appsVars
    BY DEF HostNext
  <2> QED BY <2>1, HaltedGo DEF HostInv
<1> QED BY <1>1, HostAlways, PTL DEF Host, HaltedAppsGone, A!HaltedAppsGone, A!vars, appsVars
=============================================================================
