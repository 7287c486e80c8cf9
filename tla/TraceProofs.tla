----------------------------- MODULE TraceProofs -----------------------------
(***************************************************************************)
(* What the VM records while it runs, for rings of every capacity, screens *)
(* of every size and programs of any length: each ring is the sequence of  *)
(* the last entries, the numbers in the three recordings are about the     *)
(* same instructions, and together they give the screen back.  And the     *)
(* inode file system, for all names, sizes and numbers of inodes.          *)
(***************************************************************************)
EXTENDS MCTrace, SequenceTheorems, TLAPS

(* The rings. *)

(* A slot counted from another, less than once around. *)
LEMMA Places ==
    ASSUME NEW n \in Nat \ {0}, NEW x \in 0 .. 2 * n - 1
    PROVE  x % n = (IF x < n THEN x ELSE x - n) /\ x % n \in 0 .. n - 1
<1>1. CASE x < n
  BY <1>1, SMT
<1>2. CASE x >= n
  BY <1>2, SMT
<1> QED BY <1>1, <1>2

LEMMA PlaceFrom ==
    ASSUME NEW n \in Nat \ {0}, NEW h \in 0 .. n - 1, NEW k \in 0 .. n
    PROVE  (h + k) % n = (IF h + k < n THEN h + k ELSE h + k - n) /\ (h + k) % n \in 0 .. n - 1
<1>1. \A x \in 0 .. 2 * n - 1 : x % n = (IF x < n THEN x ELSE x - n) /\ x % n \in 0 .. n - 1
  BY Places, Zenon
<1>2. PICK x \in 0 .. 2 * n - 1 : x = h + k
  OBVIOUS
<1>3. x % n = (IF x < n THEN x ELSE x - n) /\ x % n \in 0 .. n - 1
  BY <1>1, Zenon
<1>4. (IF x < n THEN x ELSE x - n) = IF h + k < n THEN h + k ELSE h + k - n
  BY <1>2
<1> QED BY <1>2, <1>3, <1>4

(* The fields of a ring. *)
LEMMA RingFields ==
    ASSUME NEW n \in Nat \ {0}, NEW S, NEW r, IsRing(r, n, S)
    PROVE  /\ r.capacity = n /\ r.head \in 0 .. n - 1 /\ r.len \in 0 .. n
           /\ r.entries \in [0 .. n - 1 -> S \cup {Fill}]
           /\ r.len < n => r.head = r.len
           /\ \A i \in 0 .. r.len - 1 : r.entries[i] \in S
           /\ start(r) = (IF r.len < n THEN 0 ELSE r.head) /\ start(r) \in 0 .. n - 1
BY DEF IsRing, start

(* The entries, oldest first, as a sequence. *)
LEMMA RingIter ==
    ASSUME NEW n \in Nat \ {0}, NEW S, NEW r, IsRing(r, n, S)
    PROVE  /\ iter(r) \in Seq(S)
           /\ Len(iter(r)) = r.len /\ r.len \in 0 .. n
           /\ \A i \in 1 .. r.len : iter(r)[i] = r.entries[(start(r) + (i - 1)) % n]
<1>1. /\ r.capacity = n /\ r.head \in 0 .. n - 1 /\ r.len \in 0 .. n
      /\ \A i \in 0 .. r.len - 1 : r.entries[i] \in S
      /\ start(r) = (IF r.len < n THEN 0 ELSE r.head) /\ start(r) \in 0 .. n - 1
  BY RingFields
<1>2. iter(r) = [i \in 1 .. r.len |-> r.entries[(start(r) + (i - 1)) % n]]
  BY <1>1 DEF iter, get_at
<1>3. \A i \in 1 .. r.len : r.entries[(start(r) + (i - 1)) % n] \in S
  <2> TAKE i \in 1 .. r.len
  <2>1. PICK k \in 0 .. n : k = i - 1
    BY <1>1
  <2>2. (start(r) + k) % n = (IF start(r) + k < n THEN start(r) + k ELSE start(r) + k - n)
        /\ (start(r) + k) % n \in 0 .. n - 1
    BY <1>1, PlaceFrom
  <2>3. (start(r) + k) % n \in 0 .. r.len - 1
    BY <1>1, <2>1, <2>2
  <2> QED BY <1>1, <2>1, <2>3
<1>4. PICK m \in 0 .. n : m = r.len
  BY <1>1
<1>5. iter(r) \in [1 .. m -> S]
  BY <1>2, <1>3, <1>4
<1>6. iter(r) \in Seq(S) /\ Len(iter(r)) = m
  BY <1>5
<1> QED BY <1>2, <1>4, <1>6

(* A new ring has none. *)
LEMMA RingNew ==
    ASSUME NEW n \in Nat \ {0}, NEW S
    PROVE  IsRing(NewRing(n), n, S) /\ iter(NewRing(n)) = << >> /\ NewRing(n).len = 0
<1>1. IsRing(NewRing(n), n, S) /\ NewRing(n).len = 0
  BY DEF IsRing, NewRing
<1>2. Len(iter(NewRing(n))) = 0 /\ iter(NewRing(n)) \in Seq(S)
  BY <1>1, RingIter
<1> QED BY <1>1, <1>2

(* A push puts the entry at the end, where the ring was full in place of   *)
(* the oldest.                                                             *)
LEMMA RingPush ==
    ASSUME NEW n \in Nat \ {0}, NEW S, NEW r, IsRing(r, n, S), NEW e \in S
    PROVE  /\ IsRing(push(r, e), n, S)
           /\ push(r, e).len = IF r.len < n THEN r.len + 1 ELSE n
           /\ \A i \in 1 .. push(r, e).len :
                iter(push(r, e))[i] = IF i = push(r, e).len THEN e
                                      ELSE iter(r)[IF r.len < n THEN i ELSE i + 1]
<1>1. /\ r.capacity = n /\ r.head \in 0 .. n - 1 /\ r.len \in 0 .. n
      /\ r.entries \in [0 .. n - 1 -> S \cup {Fill}]
      /\ r.len < n => r.head = r.len
      /\ \A i \in 0 .. r.len - 1 : r.entries[i] \in S
      /\ start(r) = (IF r.len < n THEN 0 ELSE r.head)
  BY RingFields
<1>2. PICK p : p = push(r, e)
  OBVIOUS
<1>3. (r.head + 1) % n = (IF r.head + 1 < n THEN r.head + 1 ELSE 0)
  <2>1. 1 \in 0 .. n /\ r.head \in 0 .. n - 1
    BY <1>1
  <2>2. (r.head + 1) % n = (IF r.head + 1 < n THEN r.head + 1 ELSE r.head + 1 - n)
    BY <2>1, PlaceFrom, Zenon
  <2> QED BY <2>1, <2>2
<1>4. /\ p.capacity = n
      /\ p.entries = [r.entries EXCEPT ![r.head] = e]
      /\ p.head = (IF r.head + 1 < n THEN r.head + 1 ELSE 0)
      /\ p.len = (IF r.len < n THEN r.len + 1 ELSE r.len)
      /\ p \in [capacity : {n}, entries : [0 .. n - 1 -> S \cup {Fill}], head : 0 .. n - 1,
                len : 0 .. n]
  <2>1. PICK E : E = [r.entries EXCEPT ![r.head] = e]
    OBVIOUS
  <2>2. PICK h : h = (IF r.head + 1 < n THEN r.head + 1 ELSE 0)
    OBVIOUS
  <2>3. PICK l : l = (IF r.len < n THEN r.len + 1 ELSE r.len)
    OBVIOUS
  <2>4. E \in [0 .. n - 1 -> S \cup {Fill}] /\ h \in 0 .. n - 1 /\ l \in 0 .. n
    BY <1>1, <2>1, <2>2, <2>3
  <2>5. p = [r EXCEPT !.entries = E, !.head = h, !.len = l]
    BY <1>1, <1>2, <1>3, <2>1, <2>2, <2>3 DEF push
  <2>6. r \in [capacity : {n}, entries : [0 .. n - 1 -> S \cup {Fill}], head : 0 .. n - 1,
                len : 0 .. n]
    BY DEF IsRing
  <2>7. /\ p.capacity = n /\ p.entries = E /\ p.head = h /\ p.len = l
        /\ p \in [capacity : {n}, entries : [0 .. n - 1 -> S \cup {Fill}], head : 0 .. n - 1,
                  len : 0 .. n]
    BY <2>4, <2>5, <2>6
  <2> QED BY <2>1, <2>2, <2>3, <2>7
<1>5. \A i \in 0 .. n - 1 : p.entries[i] = IF i = r.head THEN e ELSE r.entries[i]
  BY <1>1, <1>4
<1>6. IsRing(p, n, S)
  BY <1>1, <1>4, <1>5 DEF IsRing
<1>7. p.len = IF r.len < n THEN r.len + 1 ELSE n
  BY <1>1, <1>4
<1>8. /\ start(p) = (IF p.len < n THEN 0 ELSE p.head) /\ start(p) \in 0 .. n - 1
      /\ start(r) \in 0 .. n - 1
      /\ \A i \in 1 .. p.len : iter(p)[i] = p.entries[(start(p) + (i - 1)) % n]
      /\ \A i \in 1 .. r.len : iter(r)[i] = r.entries[(start(r) + (i - 1)) % n]
  <2>1. start(p) = (IF p.len < n THEN 0 ELSE p.head) /\ start(p) \in 0 .. n - 1
    BY <1>6, RingFields
  <2>2. start(r) \in 0 .. n - 1
    BY RingFields
  <2>3. \A i \in 1 .. p.len : iter(p)[i] = p.entries[(start(p) + (i - 1)) % n]
    BY <1>6, RingIter
  <2>4. \A i \in 1 .. r.len : iter(r)[i] = r.entries[(start(r) + (i - 1)) % n]
    BY RingIter
  <2> QED BY <2>1, <2>2, <2>3, <2>4
<1>9. \A i \in 1 .. p.len :
        iter(p)[i] = IF i = p.len THEN e ELSE iter(r)[IF r.len < n THEN i ELSE i + 1]
  <2> TAKE i \in 1 .. p.len
  <2>1. PICK k \in 0 .. n : k = i - 1
    BY <1>1, <1>7
  <2>2. (start(p) + k) % n = (IF start(p) + k < n THEN start(p) + k ELSE start(p) + k - n)
        /\ (start(p) + k) % n \in 0 .. n - 1
    BY <1>8, PlaceFrom
  <2>3. PICK x \in 0 .. n - 1 : x = (start(p) + k) % n
    BY <2>2
  <2>4. iter(p)[i] = p.entries[x]
    BY <1>8, <2>1, <2>3
  <2>5. x = r.head <=> i = p.len
    <3>1. x = (IF start(p) + k < n THEN start(p) + k ELSE start(p) + k - n)
      BY <2>2, <2>3
    <3>2. /\ r.head \in 0 .. n - 1 /\ r.len \in 0 .. n /\ (r.len < n => r.head = r.len)
          /\ p.len = (IF r.len < n THEN r.len + 1 ELSE r.len)
          /\ start(p) = (IF p.len < n THEN 0 ELSE IF r.head + 1 < n THEN r.head + 1 ELSE 0)
      BY <1>1, <1>4, <1>8
    <3> QED BY <2>1, <3>1, <3>2
  <2>6. ASSUME i # p.len
        PROVE  iter(r)[IF r.len < n THEN i ELSE i + 1] = r.entries[x]
    <3>1. PICK j \in 1 .. r.len : j = IF r.len < n THEN i ELSE i + 1
      BY <1>1, <1>7, <2>6
    <3>2. PICK m \in 0 .. n : m = j - 1
      BY <1>1
    <3>3. (start(r) + m) % n = (IF start(r) + m < n THEN start(r) + m ELSE start(r) + m - n)
      BY <1>8, PlaceFrom
    <3>4. (start(r) + m) % n = x
      <4>1. x = (IF start(p) + k < n THEN start(p) + k ELSE start(p) + k - n)
        BY <2>2, <2>3
      <4>2. /\ r.head \in 0 .. n - 1 /\ r.len \in 0 .. n /\ (r.len < n => r.head = r.len)
            /\ p.len = (IF r.len < n THEN r.len + 1 ELSE r.len)
            /\ start(p) = (IF p.len < n THEN 0 ELSE IF r.head + 1 < n THEN r.head + 1 ELSE 0)
            /\ start(r) = (IF r.len < n THEN 0 ELSE r.head)
        BY <1>1, <1>4, <1>8
      <4> QED BY <2>1, <2>6, <3>1, <3>2, <3>3, <4>1, <4>2
    <3> QED BY <1>8, <3>1, <3>2, <3>4
  <2> QED BY <1>5, <2>4, <2>5, <2>6
<1> QED BY <1>2, <1>6, <1>7, <1>9

(* Counted back from the newest. *)
LEMMA RingRecent ==
    ASSUME NEW n \in Nat \ {0}, NEW S, NEW r, IsRing(r, n, S), NEW k \in 0 .. r.len - 1
    PROVE  get_recent(r, k) = iter(r)[r.len - k]
<1>1. /\ r.capacity = n /\ r.head \in 0 .. n - 1 /\ r.len \in 0 .. n
      /\ r.len < n => r.head = r.len
      /\ start(r) = (IF r.len < n THEN 0 ELSE r.head) /\ start(r) \in 0 .. n - 1
  BY RingFields
<1>2. \A i \in 1 .. r.len : iter(r)[i] = r.entries[(start(r) + (i - 1)) % n]
  BY RingIter
<1>3. PICK m \in 0 .. n : m = n - 1 - k
  BY <1>1
<1>4. (r.head + m) % n = (IF r.head + m < n THEN r.head + m ELSE r.head + m - n)
  BY <1>1, PlaceFrom
<1>5. r.head + n - 1 - k = r.head + m
  BY <1>1, <1>3
<1>6. get_recent(r, k) = r.entries[(r.head + m) % n]
  BY <1>1, <1>5 DEF get_recent
<1>7. PICK j \in 0 .. n : j = r.len - k - 1
  BY <1>1
<1>8. (start(r) + j) % n = (IF start(r) + j < n THEN start(r) + j ELSE start(r) + j - n)
  BY <1>1, PlaceFrom
<1>9. (start(r) + j) % n = (r.head + m) % n
  BY <1>1, <1>3, <1>4, <1>7, <1>8
<1>10. iter(r)[r.len - k] = r.entries[(start(r) + j) % n]
  <2>1. PICK i \in 1 .. r.len : i = r.len - k
    BY <1>1
  <2>2. i - 1 = j
    BY <1>1, <1>7, <2>1
  <2> QED BY <1>2, <2>1, <2>2
<1> QED BY <1>6, <1>9, <1>10

(* An entry of a ring after a push is the new one or an old one. *)
LEMMA PushedEntries ==
    ASSUME NEW n \in Nat \ {0}, NEW S, NEW r, IsRing(r, n, S), NEW e \in S
    PROVE  \A j \in 1 .. push(r, e).len :
             iter(push(r, e))[j] = e \/ \E i \in 1 .. r.len : iter(push(r, e))[j] = iter(r)[i]
<1> SUFFICES ASSUME NEW j \in 1 .. push(r, e).len, iter(push(r, e))[j] # e
             PROVE  \E i \in 1 .. r.len : iter(push(r, e))[j] = iter(r)[i]
  OBVIOUS
<1>1. /\ push(r, e).len = IF r.len < n THEN r.len + 1 ELSE n
      /\ iter(push(r, e))[j] = IF j = push(r, e).len THEN e
                               ELSE iter(r)[IF r.len < n THEN j ELSE j + 1]
      /\ r.len \in 0 .. n
  BY RingPush, RingFields
<1>2. PICK i \in 1 .. r.len : i = IF r.len < n THEN j ELSE j + 1
  BY <1>1
<1> QED BY <1>1, <1>2
-----------------------------------------------------------------------------
(* The step numbers. *)

(* No entry of this era is numbered later than the counter says. *)
PixelsPast ==
    \A i \in 1 .. pixel_write_log.len :
        LET write == iter(pixel_write_log)[i]
        IN  write.era <= era /\ (write.era = era => write.step_number < step_counter)

FramesPast ==
    \A i \in 1 .. frame_checkpoints.len :
        LET frame == iter(frame_checkpoints)[i]
        IN  frame.era <= era /\ (frame.era = era => frame.step_number <= step_counter)

StepsInv == StepsSound /\ PixelsPast /\ FramesPast

(* What recording an instruction does to the trace. *)
Advance(op) ==
    /\ trace_buffer' = Recorded(op)
    /\ step_counter' = Counted
    /\ era' = era

(* The entries of the trace are old, or the one of this instruction. *)
OldOrNew(op) ==
    \A j \in 1 .. trace_buffer'.len :
        \/ trace_recording /\ iter(trace_buffer')[j] = [step_number |-> step_counter, opcode |-> op]
        \/ \E i \in 1 .. trace_buffer.len : iter(trace_buffer')[j] = iter(trace_buffer)[i]

LEMMA Capacities ==
    /\ TRACE_CAPACITY \in Nat \ {0} /\ FRAME_CAPACITY \in Nat \ {0}
    /\ PIXEL_CAPACITY \in Nat \ {0}
BY TraceAssumption

LEMMA AdvanceSteps ==
    ASSUME StepsInv, NEW op \in Opcode, Advance(op)
    PROVE  /\ IsRing(trace_buffer', TRACE_CAPACITY, TraceEntry) /\ step_counter' \in Nat
           /\ StepsFollow'
           /\ OldOrNew(op)
           /\ step_counter' = IF trace_recording THEN step_counter + 1 ELSE step_counter
           /\ \A i \in 1 .. trace_buffer.len : iter(trace_buffer)[i].step_number < step_counter
<1>1. /\ IsRing(trace_buffer, TRACE_CAPACITY, TraceEntry) /\ step_counter \in Nat
      /\ StepsFollow
  BY DEF StepsInv, StepsSound, TypeOK
<1>2. trace_buffer.len \in 0 .. TRACE_CAPACITY
  BY <1>1, Capacities, RingFields
<1>3. \A i \in 1 .. trace_buffer.len : iter(trace_buffer)[i].step_number < step_counter
  BY <1>1, <1>2, Capacities DEF StepsFollow
<1>4. CASE ~trace_recording
  <2>1. trace_buffer' = trace_buffer /\ step_counter' = step_counter
    BY <1>4 DEF Advance, Recorded, Counted
  <2> QED BY <1>1, <1>3, <1>4, <2>1 DEF OldOrNew, StepsFollow
<1>5. CASE trace_recording
  <2>1. PICK e \in TraceEntry : e = [step_number |-> step_counter, opcode |-> op]
    BY <1>1 DEF TraceEntry
  <2>2. trace_buffer' = push(trace_buffer, e) /\ step_counter' = step_counter + 1
    BY <1>5, <2>1 DEF Advance, Recorded, Counted, Pushed
  <2>3. /\ IsRing(push(trace_buffer, e), TRACE_CAPACITY, TraceEntry)
        /\ push(trace_buffer, e).len =
              IF trace_buffer.len < TRACE_CAPACITY THEN trace_buffer.len + 1 ELSE TRACE_CAPACITY
        /\ \A i \in 1 .. push(trace_buffer, e).len :
              iter(push(trace_buffer, e))[i] =
                IF i = push(trace_buffer, e).len THEN e
                ELSE iter(trace_buffer)[IF trace_buffer.len < TRACE_CAPACITY THEN i ELSE i + 1]
    BY <1>1, Capacities, RingPush
  <2>4. OldOrNew(op)
    <3>1. \A j \in 1 .. push(trace_buffer, e).len :
            \/ iter(push(trace_buffer, e))[j] = e
            \/ \E i \in 1 .. trace_buffer.len :
                  iter(push(trace_buffer, e))[j] = iter(trace_buffer)[i]
      BY <1>1, Capacities, PushedEntries
    <3> QED BY <1>5, <2>1, <2>2, <3>1 DEF OldOrNew
  <2>5. \A i \in 1 .. push(trace_buffer, e).len :
          iter(push(trace_buffer, e))[i].step_number =
            (step_counter + 1) - push(trace_buffer, e).len + i - 1
    <3> TAKE i \in 1 .. push(trace_buffer, e).len
    <3>1. CASE i = push(trace_buffer, e).len
      <4>1. iter(push(trace_buffer, e))[i] = e
        BY <2>3, <3>1
      <4> QED BY <1>1, <1>2, <2>1, <2>3, <3>1, <4>1, Capacities
    <3>2. CASE i # push(trace_buffer, e).len
      <4>1. PICK k \in 1 .. trace_buffer.len :
              k = IF trace_buffer.len < TRACE_CAPACITY THEN i ELSE i + 1
        BY <1>2, <2>3, <3>2, Capacities
      <4>2. iter(push(trace_buffer, e))[i] = iter(trace_buffer)[k]
        BY <2>3, <3>2, <4>1
      <4>3. iter(trace_buffer)[k].step_number = step_counter - trace_buffer.len + k - 1
        BY <1>1 DEF StepsFollow
      <4> QED BY <1>1, <1>2, <2>3, <3>2, <4>1, <4>2, <4>3, Capacities
    <3> QED BY <3>1, <3>2
  <2>6. StepsFollow'
    BY <2>2, <2>5 DEF StepsFollow
  <2> QED BY <1>1, <1>3, <1>5, <2>2, <2>3, <2>4, <2>6
<1> QED BY <1>4, <1>5

(* What is logged. *)
LEMMA LogEntries ==
    ASSUME TypeOK
    PROVE  /\ \A i \in 1 .. pixel_write_log.len : iter(pixel_write_log)[i] \in PixelWriteEntry
           /\ \A i \in 1 .. frame_checkpoints.len : iter(frame_checkpoints)[i] \in FrameCheckpoint
           /\ pixel_write_log.len \in Nat /\ frame_checkpoints.len \in Nat
<1>1. /\ IsRing(pixel_write_log, PIXEL_CAPACITY, PixelWriteEntry)
      /\ IsRing(frame_checkpoints, FRAME_CAPACITY, FrameCheckpoint)
  BY DEF TypeOK
<1>2. /\ iter(pixel_write_log) \in Seq(PixelWriteEntry)
      /\ Len(iter(pixel_write_log)) = pixel_write_log.len
      /\ pixel_write_log.len \in 0 .. PIXEL_CAPACITY
  BY <1>1, Capacities, RingIter
<1>3. /\ iter(frame_checkpoints) \in Seq(FrameCheckpoint)
      /\ Len(iter(frame_checkpoints)) = frame_checkpoints.len
      /\ frame_checkpoints.len \in 0 .. FRAME_CAPACITY
  BY <1>1, Capacities, RingIter
<1> QED BY <1>2, <1>3, ElementOfSeq

(* An instruction that logs no pixel. *)
LEMMA PixelsStill ==
    ASSUME StepsInv, NEW op \in Opcode, Advance(op), UNCHANGED pixel_write_log
    PROVE  PixelStepsMatch' /\ PixelsPast'
<1>1. /\ OldOrNew(op)
      /\ step_counter' = IF trace_recording THEN step_counter + 1 ELSE step_counter
      /\ step_counter \in Nat /\ era' = era
  BY AdvanceSteps DEF StepsInv, StepsSound, TypeOK, Advance
<1>2. /\ \A i \in 1 .. pixel_write_log.len : iter(pixel_write_log)[i] \in PixelWriteEntry
      /\ \A i \in 1 .. frame_checkpoints.len : iter(frame_checkpoints)[i] \in FrameCheckpoint
      /\ pixel_write_log.len \in Nat /\ frame_checkpoints.len \in Nat
  BY LogEntries DEF StepsInv, StepsSound
<1>3. PixelsPast'
  BY <1>1, <1>2 DEF PixelsPast, StepsInv, PixelWriteEntry
<1>4. PixelStepsMatch'
  <2> SUFFICES ASSUME NEW i \in 1 .. pixel_write_log.len, NEW j \in 1 .. trace_buffer'.len,
                      iter(pixel_write_log)[i].era = era,
                      iter(pixel_write_log)[i].step_number = iter(trace_buffer')[j].step_number
               PROVE  iter(pixel_write_log)[i].opcode = iter(trace_buffer')[j].opcode
    BY <1>1 DEF PixelStepsMatch
  <2>1. iter(pixel_write_log)[i].step_number < step_counter
    BY DEF StepsInv, PixelsPast
  <2>2. iter(trace_buffer')[j] # [step_number |-> step_counter, opcode |-> op]
    BY <1>1, <1>2, <2>1 DEF PixelWriteEntry
  <2>3. PICK k \in 1 .. trace_buffer.len : iter(trace_buffer')[j] = iter(trace_buffer)[k]
    BY <1>1, <2>2 DEF OldOrNew
  <2> QED BY <2>3 DEF StepsInv, StepsSound, PixelStepsMatch
<1> QED BY <1>3, <1>4

(* An instruction that logs no frame. *)
LEMMA FramesStill ==
    ASSUME StepsInv, NEW op \in Opcode, Advance(op), UNCHANGED frame_checkpoints
    PROVE  FrameStepsMatch' /\ FramesPast'
<1>1. /\ OldOrNew(op)
      /\ step_counter' = IF trace_recording THEN step_counter + 1 ELSE step_counter
      /\ step_counter \in Nat /\ era' = era
  BY AdvanceSteps DEF StepsInv, StepsSound, TypeOK, Advance
<1>2. /\ \A i \in 1 .. pixel_write_log.len : iter(pixel_write_log)[i] \in PixelWriteEntry
      /\ \A i \in 1 .. frame_checkpoints.len : iter(frame_checkpoints)[i] \in FrameCheckpoint
      /\ pixel_write_log.len \in Nat /\ frame_checkpoints.len \in Nat
  BY LogEntries DEF StepsInv, StepsSound
<1>3. FramesPast'
  BY <1>1, <1>2 DEF FramesPast, StepsInv, FrameCheckpoint
<1>4. FrameStepsMatch'
  <2> SUFFICES ASSUME NEW i \in 1 .. frame_checkpoints.len, NEW j \in 1 .. trace_buffer'.len,
                      iter(frame_checkpoints)[i].era = era,
                      iter(frame_checkpoints)[i].step_number = iter(trace_buffer')[j].step_number + 1
               PROVE  iter(trace_buffer')[j].opcode = "FRAME"
    BY <1>1 DEF FrameStepsMatch
  <2>1. iter(frame_checkpoints)[i].step_number <= step_counter
    BY DEF StepsInv, FramesPast
  <2>2. iter(trace_buffer')[j] # [step_number |-> step_counter, opcode |-> op]
    BY <1>1, <1>2, <2>1 DEF FrameCheckpoint
  <2>3. PICK k \in 1 .. trace_buffer.len : iter(trace_buffer')[j] = iter(trace_buffer)[k]
    BY <1>1, <2>2 DEF OldOrNew
  <2> QED BY <2>3 DEF StepsInv, StepsSound, FrameStepsMatch
<1> QED BY <1>3, <1>4

(* A pixel that is logged. *)
LEMMA PixelMatches ==
    ASSUME StepsInv, trace_recording, Advance("PSET"), NEW p \in Pixel, NEW c \in Color,
           pixel_write_log' = push(pixel_write_log,
              [step_number |-> PixelStep, opcode |-> "PSET", pixel |-> p, color |-> c, era |-> era]),
           UNCHANGED frame_checkpoints
    PROVE  /\ IsRing(pixel_write_log', PIXEL_CAPACITY, PixelWriteEntry)
           /\ PixelStepsMatch' /\ FrameStepsMatch' /\ PixelsPast' /\ FramesPast'
<1>0. TypeOK /\ step_counter \in Nat /\ era \in Nat
      /\ IsRing(pixel_write_log, PIXEL_CAPACITY, PixelWriteEntry)
  BY DEF StepsInv, StepsSound, TypeOK
<1>1. /\ OldOrNew("PSET")
      /\ step_counter' = step_counter + 1 /\ era' = era
      /\ \A i \in 1 .. trace_buffer.len : iter(trace_buffer)[i].step_number < step_counter
  BY AdvanceSteps DEF Advance, Opcode
<1>2. PixelStep = step_counter
  BY <1>0, <1>1 DEF PixelStep
<1>3. PICK e \in PixelWriteEntry :
        e = [step_number |-> step_counter, opcode |-> "PSET", pixel |-> p, color |-> c, era |-> era]
  BY <1>0 DEF PixelWriteEntry
<1>4. pixel_write_log' = push(pixel_write_log, e)
  BY <1>2, <1>3
<1>5. IsRing(pixel_write_log', PIXEL_CAPACITY, PixelWriteEntry)
  BY <1>0, <1>4, Capacities, RingPush
<1>6. \A j \in 1 .. pixel_write_log'.len :
        \/ iter(pixel_write_log')[j] = e
        \/ \E i \in 1 .. pixel_write_log.len : iter(pixel_write_log')[j] = iter(pixel_write_log)[i]
  <2>1. \A j \in 1 .. push(pixel_write_log, e).len :
          \/ iter(push(pixel_write_log, e))[j] = e
          \/ \E i \in 1 .. pixel_write_log.len :
                iter(push(pixel_write_log, e))[j] = iter(pixel_write_log)[i]
    BY <1>0, Capacities, PushedEntries
  <2> QED BY <1>4, <2>1
<1>7. \A i \in 1 .. pixel_write_log.len : iter(pixel_write_log)[i] \in PixelWriteEntry
  BY <1>0, LogEntries
<1>9. PixelsPast'
  <2> SUFFICES ASSUME NEW j \in 1 .. pixel_write_log'.len
               PROVE  /\ iter(pixel_write_log')[j].era <= era
                      /\ iter(pixel_write_log')[j].era = era =>
                           iter(pixel_write_log')[j].step_number < step_counter + 1
    BY <1>1 DEF PixelsPast
  <2>1. CASE iter(pixel_write_log')[j] = e
    BY <1>0, <1>3, <2>1
  <2>2. ASSUME NEW i \in 1 .. pixel_write_log.len,
               iter(pixel_write_log')[j] = iter(pixel_write_log)[i]
        PROVE  /\ iter(pixel_write_log')[j].era <= era
               /\ iter(pixel_write_log')[j].era = era =>
                    iter(pixel_write_log')[j].step_number < step_counter + 1
    BY <1>0, <1>7, <2>2 DEF StepsInv, PixelsPast, PixelWriteEntry
  <2> QED BY <1>6, <2>1, <2>2
<1>10. FrameStepsMatch' /\ FramesPast'
  BY FramesStill DEF Opcode
<1>11. PixelStepsMatch'
  <2> SUFFICES ASSUME NEW j \in 1 .. pixel_write_log'.len, NEW k \in 1 .. trace_buffer'.len,
                      iter(pixel_write_log')[j].era = era,
                      iter(pixel_write_log')[j].step_number = iter(trace_buffer')[k].step_number
               PROVE  iter(pixel_write_log')[j].opcode = iter(trace_buffer')[k].opcode
    BY <1>1 DEF PixelStepsMatch
  <2>1. CASE iter(trace_buffer')[k] = [step_number |-> step_counter, opcode |-> "PSET"]
    <3>1. iter(pixel_write_log')[j].opcode = "PSET"
      BY <1>3, <1>6, <1>7 DEF PixelWriteEntry
    <3> QED BY <2>1, <3>1
  <2>2. ASSUME NEW l \in 1 .. trace_buffer.len, iter(trace_buffer')[k] = iter(trace_buffer)[l]
        PROVE  iter(pixel_write_log')[j].opcode = iter(trace_buffer')[k].opcode
    <3>1. iter(trace_buffer')[k].step_number < step_counter
      BY <1>1, <2>2
    <3>2. iter(pixel_write_log')[j] # e
      BY <1>0, <1>3, <3>1
    <3>3. PICK i \in 1 .. pixel_write_log.len : iter(pixel_write_log')[j] = iter(pixel_write_log)[i]
      BY <1>6, <3>2
    <3> QED BY <2>2, <3>3 DEF StepsInv, StepsSound, PixelStepsMatch
  <2> QED BY <1>1, <2>1, <2>2 DEF OldOrNew
<1> QED BY <1>5, <1>9, <1>10, <1>11

(* A frame that is logged. *)
LEMMA FrameMatches ==
    ASSUME StepsInv, trace_recording, Advance("FRAME"),
           frame_checkpoints' = push(frame_checkpoints,
              [step_number |-> FrameStep, screen |-> screen, era |-> era]),
           UNCHANGED pixel_write_log
    PROVE  /\ IsRing(frame_checkpoints', FRAME_CAPACITY, FrameCheckpoint)
           /\ PixelStepsMatch' /\ FrameStepsMatch' /\ PixelsPast' /\ FramesPast'
<1>0. TypeOK /\ step_counter \in Nat /\ era \in Nat
      /\ IsRing(frame_checkpoints, FRAME_CAPACITY, FrameCheckpoint) /\ screen \in Screens
  BY DEF StepsInv, StepsSound, TypeOK
<1>1. /\ OldOrNew("FRAME")
      /\ step_counter' = step_counter + 1 /\ era' = era
      /\ \A i \in 1 .. trace_buffer.len : iter(trace_buffer)[i].step_number < step_counter
  BY AdvanceSteps DEF Advance, Opcode
<1>e. PICK e : e = [step_number |-> step_counter + 1, screen |-> screen, era |-> era]
  OBVIOUS
<1>2. e \in FrameCheckpoint /\ e = [step_number |-> step_counter + 1, screen |-> screen, era |-> era]
  <2>1. step_counter + 1 \in Nat
    BY <1>0
  <2> QED BY <1>0, <1>e, <2>1 DEF FrameCheckpoint
<1>3. frame_checkpoints' = push(frame_checkpoints, e)
  BY <1>1, <1>2 DEF FrameStep
<1>4. IsRing(frame_checkpoints', FRAME_CAPACITY, FrameCheckpoint)
  BY <1>0, <1>2, <1>3, Capacities, RingPush
<1>5. \A j \in 1 .. frame_checkpoints'.len :
        \/ iter(frame_checkpoints')[j] = e
        \/ \E i \in 1 .. frame_checkpoints.len :
              iter(frame_checkpoints')[j] = iter(frame_checkpoints)[i]
  <2>1. \A j \in 1 .. push(frame_checkpoints, e).len :
          \/ iter(push(frame_checkpoints, e))[j] = e
          \/ \E i \in 1 .. frame_checkpoints.len :
                iter(push(frame_checkpoints, e))[j] = iter(frame_checkpoints)[i]
    BY <1>0, <1>2, Capacities, PushedEntries
  <2> QED BY <1>3, <2>1
<1>7. \A i \in 1 .. frame_checkpoints.len : iter(frame_checkpoints)[i] \in FrameCheckpoint
  BY <1>0, LogEntries
<1>8. PixelStepsMatch' /\ PixelsPast'
  BY PixelsStill DEF Opcode
<1>9. FramesPast'
  <2> SUFFICES ASSUME NEW j \in 1 .. frame_checkpoints'.len
               PROVE  /\ iter(frame_checkpoints')[j].era <= era
                      /\ iter(frame_checkpoints')[j].era = era =>
                           iter(frame_checkpoints')[j].step_number <= step_counter + 1
    BY <1>1 DEF FramesPast
  <2>1. CASE iter(frame_checkpoints')[j] = e
    BY <1>0, <1>2, <2>1
  <2>2. ASSUME NEW i \in 1 .. frame_checkpoints.len,
               iter(frame_checkpoints')[j] = iter(frame_checkpoints)[i]
        PROVE  /\ iter(frame_checkpoints')[j].era <= era
               /\ iter(frame_checkpoints')[j].era = era =>
                    iter(frame_checkpoints')[j].step_number <= step_counter + 1
    BY <1>0, <1>7, <2>2 DEF StepsInv, FramesPast, FrameCheckpoint
  <2> QED BY <1>5, <2>1, <2>2
<1>10. FrameStepsMatch'
  <2> SUFFICES ASSUME NEW j \in 1 .. frame_checkpoints'.len, NEW k \in 1 .. trace_buffer'.len,
                      iter(frame_checkpoints')[j].era = era,
                      iter(frame_checkpoints')[j].step_number = iter(trace_buffer')[k].step_number + 1
               PROVE  iter(trace_buffer')[k].opcode = "FRAME"
    BY <1>1 DEF FrameStepsMatch
  <2>1. CASE iter(trace_buffer')[k] = [step_number |-> step_counter, opcode |-> "FRAME"]
    BY <2>1
  <2>2. ASSUME NEW l \in 1 .. trace_buffer.len, iter(trace_buffer')[k] = iter(trace_buffer)[l]
        PROVE  iter(trace_buffer')[k].opcode = "FRAME"
    <3>0. PICK m : m = iter(trace_buffer')[k].step_number
      OBVIOUS
    <3>1. m < step_counter /\ m \in Int
      <4>1. m = step_counter - trace_buffer.len + l - 1
        BY <2>2, <3>0 DEF StepsInv, StepsSound, StepsFollow
      <4>2. trace_buffer.len \in 0 .. TRACE_CAPACITY
        BY <1>0, Capacities, RingFields DEF TypeOK
      <4> QED BY <1>0, <4>1, <4>2, Capacities
    <3>2. iter(frame_checkpoints')[j] # e
      BY <1>0, <1>2, <3>0, <3>1
    <3>3. PICK i \in 1 .. frame_checkpoints.len :
            iter(frame_checkpoints')[j] = iter(frame_checkpoints)[i]
      BY <1>5, <3>2
    <3> QED BY <2>2, <3>3 DEF StepsInv, StepsSound, FrameStepsMatch
  <2> QED BY <1>1, <2>1, <2>2 DEF OldOrNew
<1> QED BY <1>4, <1>8, <1>9, <1>10

(* What the steps need but for the recordings. *)
OtherTypes ==
    /\ trace_recording \in BOOLEAN /\ snapshots \in Seq(Screens)
    /\ Len(snapshots) <= MAX_SNAPSHOTS
    /\ screen \in Screens /\ steady \in BOOLEAN

LEMMA StillSound ==
    ASSUME StepsInv, NEW op \in Opcode, Advance(op),
           UNCHANGED <<frame_checkpoints, pixel_write_log>>, OtherTypes'
    PROVE  StepsInv'
<1>1. PixelStepsMatch' /\ PixelsPast' /\ FrameStepsMatch' /\ FramesPast'
  BY PixelsStill, FramesStill
<1>2. StepsFollow' /\ IsRing(trace_buffer', TRACE_CAPACITY, TraceEntry) /\ step_counter' \in Nat
  BY AdvanceSteps
<1>3. TypeOK'
  BY <1>2 DEF StepsInv, StepsSound, TypeOK, Advance, OtherTypes
<1> QED BY <1>1, <1>2, <1>3 DEF StepsInv, StepsSound

LEMMA BlackIsScreen == BlackScreen \in Screens
BY TraceAssumption DEF BlackScreen, Screens

(* The frame that REPLAY finds. *)
LEMMA ReplayedScreen ==
    ASSUME TypeOK, NEW idx \in Nat, idx < frame_checkpoints.len
    PROVE  /\ get_recent(frame_checkpoints, idx)
                = iter(frame_checkpoints)[frame_checkpoints.len - idx]
           /\ frame_checkpoints.len - idx \in 1 .. frame_checkpoints.len
           /\ get_recent(frame_checkpoints, idx).screen \in Screens
<1>1. /\ IsRing(frame_checkpoints, FRAME_CAPACITY, FrameCheckpoint)
      /\ frame_checkpoints.len \in Nat
  BY LogEntries DEF TypeOK
<1>2. idx \in 0 .. frame_checkpoints.len - 1
  BY <1>1
<1>3. PICK i \in 1 .. frame_checkpoints.len : i = frame_checkpoints.len - idx
  BY <1>1
<1>4. get_recent(frame_checkpoints, idx) = iter(frame_checkpoints)[i]
  BY <1>1, <1>2, <1>3, Capacities, RingRecent
<1>5. iter(frame_checkpoints)[i] \in FrameCheckpoint
  BY LogEntries
<1> QED BY <1>3, <1>4, <1>5 DEF FrameCheckpoint

LEMMA NoSnapshots == << >> \in Seq(Screens) /\ Len(<< >>) <= MAX_SNAPSHOTS
BY TraceAssumption

LEMMA StepsStart == Init => StepsInv
<1> SUFFICES ASSUME Init PROVE StepsInv
  OBVIOUS
<1>1. /\ IsRing(NewRing(TRACE_CAPACITY), TRACE_CAPACITY, TraceEntry)
      /\ NewRing(TRACE_CAPACITY).len = 0
  BY Capacities, RingNew
<1>2. /\ IsRing(NewRing(FRAME_CAPACITY), FRAME_CAPACITY, FrameCheckpoint)
      /\ NewRing(FRAME_CAPACITY).len = 0
  BY Capacities, RingNew
<1>3. /\ IsRing(NewRing(PIXEL_CAPACITY), PIXEL_CAPACITY, PixelWriteEntry)
      /\ NewRing(PIXEL_CAPACITY).len = 0
  BY Capacities, RingNew
<1>4. TypeOK
  BY <1>1, <1>2, <1>3, BlackIsScreen, NoSnapshots DEF Init, TypeOK
<1> QED BY <1>1, <1>2, <1>3, <1>4
        DEF Init, StepsInv, StepsSound, StepsFollow, PixelStepsMatch, FrameStepsMatch,
            PixelsPast, FramesPast

LEMMA SwitchSound ==
    ASSUME StepsInv, NEW mode \in 0 .. 2, SNAP_TRACE(mode)
    PROVE  StepsInv'
<1>0. OtherTypes'
  BY DEF SNAP_TRACE, OtherTypes, StepsInv, StepsSound, TypeOK
<1>1. CASE mode # 2
  <2>1. Advance("SNAP_TRACE") /\ UNCHANGED <<frame_checkpoints, pixel_write_log>>
    BY <1>1 DEF SNAP_TRACE, Advance
  <2>2. "SNAP_TRACE" \in Opcode
    BY DEF Opcode
  <2> QED BY <1>0, <2>1, <2>2, StillSound
<1>2. CASE mode = 2
  <2>0. PICK t : t = Recorded("SNAP_TRACE")
    OBVIOUS
  <2>1. t.capacity = TRACE_CAPACITY
    <3>1. PICK e \in TraceEntry : e = [step_number |-> step_counter, opcode |-> "SNAP_TRACE"]
      BY DEF TraceEntry, Opcode, StepsInv, StepsSound, TypeOK
    <3>2. IsRing(trace_buffer, TRACE_CAPACITY, TraceEntry)
      BY DEF StepsInv, StepsSound, TypeOK
    <3>3. IsRing(push(trace_buffer, e), TRACE_CAPACITY, TraceEntry)
      BY <3>2, Capacities, RingPush
    <3>4. IsRing(t, TRACE_CAPACITY, TraceEntry)
      BY <2>0, <3>1, <3>2, <3>3 DEF Recorded, Pushed
    <3> QED BY <3>4, Capacities, RingFields
  <2>2. /\ trace_buffer' = NewRing(TRACE_CAPACITY) /\ step_counter' = 0 /\ era' = era + 1
        /\ UNCHANGED <<frame_checkpoints, pixel_write_log>>
    BY <1>2, <2>0, <2>1 DEF SNAP_TRACE, clear
  <2>3. IsRing(trace_buffer', TRACE_CAPACITY, TraceEntry) /\ trace_buffer'.len = 0
    BY <2>2, Capacities, RingNew
  <2>4. TypeOK'
    BY <1>0, <2>2, <2>3 DEF TypeOK, OtherTypes, StepsInv, StepsSound
  <2>5. PixelsPast' /\ FramesPast'
    <3>1. /\ \A i \in 1 .. pixel_write_log.len : iter(pixel_write_log)[i] \in PixelWriteEntry
          /\ \A i \in 1 .. frame_checkpoints.len : iter(frame_checkpoints)[i] \in FrameCheckpoint
          /\ era \in Nat
      BY LogEntries DEF StepsInv, StepsSound, TypeOK
    <3>2. PixelsPast'
      BY <2>2, <3>1 DEF PixelsPast, StepsInv, PixelWriteEntry
    <3>3. FramesPast'
      BY <2>2, <3>1 DEF FramesPast, StepsInv, FrameCheckpoint
    <3> QED BY <3>2, <3>3
  <2> QED BY <2>3, <2>4, <2>5
          DEF StepsInv, StepsSound, StepsFollow, PixelStepsMatch, FrameStepsMatch
<1> QED BY <1>1, <1>2

LEMMA ResetIsInit ==
    ASSUME TypeOK, Reset
    PROVE  /\ trace_buffer' = NewRing(TRACE_CAPACITY)
           /\ frame_checkpoints' = NewRing(FRAME_CAPACITY)
           /\ pixel_write_log' = NewRing(PIXEL_CAPACITY)
<1>1. /\ trace_buffer.capacity = TRACE_CAPACITY
      /\ frame_checkpoints.capacity = FRAME_CAPACITY
      /\ pixel_write_log.capacity = PIXEL_CAPACITY
  <2>1. /\ IsRing(trace_buffer, TRACE_CAPACITY, TraceEntry)
        /\ IsRing(frame_checkpoints, FRAME_CAPACITY, FrameCheckpoint)
        /\ IsRing(pixel_write_log, PIXEL_CAPACITY, PixelWriteEntry)
    BY DEF TypeOK
  <2> QED BY <2>1 DEF IsRing
<1> QED BY <1>1 DEF Reset, clear

LEMMA StepsStep == StepsInv /\ [Next]_vars => StepsInv'
<1> SUFFICES ASSUME StepsInv, [Next]_vars PROVE StepsInv'
  OBVIOUS
<1>0. TypeOK
  BY DEF StepsInv, StepsSound
<1>1. ASSUME NEW p \in Pixel, NEW c \in Color, PSET(p, c) PROVE StepsInv'
  <2>1. OtherTypes' /\ Advance("PSET") /\ "PSET" \in Opcode /\ UNCHANGED frame_checkpoints
    BY <1>0, <1>1 DEF PSET, Fetch, Advance, OtherTypes, TypeOK, Screens, Opcode
  <2>2. CASE ~trace_recording
    BY <1>1, <2>1, <2>2, StillSound DEF PSET
  <2>3. CASE trace_recording
    <3>1. /\ IsRing(pixel_write_log', PIXEL_CAPACITY, PixelWriteEntry)
          /\ PixelStepsMatch' /\ FrameStepsMatch' /\ PixelsPast' /\ FramesPast'
      BY <1>1, <2>1, <2>3, PixelMatches DEF PSET
    <3>2. StepsFollow' /\ IsRing(trace_buffer', TRACE_CAPACITY, TraceEntry) /\ step_counter' \in Nat
      BY <2>1, AdvanceSteps
    <3>3. TypeOK'
      BY <1>0, <2>1, <3>1, <3>2 DEF TypeOK, Advance, OtherTypes
    <3> QED BY <3>1, <3>2, <3>3 DEF StepsInv, StepsSound
  <2> QED BY <2>2, <2>3
<1>2. ASSUME NEW s \in Screens, FRAME(s) PROVE StepsInv'
  <2>1. OtherTypes' /\ Advance("FRAME") /\ "FRAME" \in Opcode /\ UNCHANGED pixel_write_log
    BY <1>0, <1>2 DEF FRAME, Fetch, Advance, OtherTypes, TypeOK, Opcode
  <2>2. CASE ~trace_recording
    BY <1>2, <2>1, <2>2, StillSound DEF FRAME
  <2>3. CASE trace_recording
    <3>1. /\ IsRing(frame_checkpoints', FRAME_CAPACITY, FrameCheckpoint)
          /\ PixelStepsMatch' /\ FrameStepsMatch' /\ PixelsPast' /\ FramesPast'
      BY <1>2, <2>1, <2>3, FrameMatches DEF FRAME, Copied
    <3>2. StepsFollow' /\ IsRing(trace_buffer', TRACE_CAPACITY, TraceEntry) /\ step_counter' \in Nat
      BY <2>1, AdvanceSteps
    <3>3. TypeOK'
      BY <1>0, <2>1, <3>1, <3>2 DEF TypeOK, Advance, OtherTypes
    <3> QED BY <3>1, <3>2, <3>3 DEF StepsInv, StepsSound
  <2> QED BY <2>2, <2>3
<1>3. ASSUME NEW op \in Opcode, Fetch(op), UNCHANGED <<frame_checkpoints, pixel_write_log>>,
             snapshots' \in Seq(Screens), Len(snapshots') <= MAX_SNAPSHOTS,
             screen' \in Screens, steady' \in BOOLEAN
      PROVE  StepsInv'
  <2>1. Advance(op) /\ OtherTypes'
    BY <1>0, <1>3 DEF Fetch, Advance, OtherTypes, TypeOK
  <2> QED BY <1>3, <2>1, StillSound
<1>4. ASSUME NEW s \in Screens, Draw(s) PROVE StepsInv'
  BY <1>0, <1>3, <1>4 DEF Draw, TypeOK, Opcode
<1>5. CASE Other
  BY <1>0, <1>3, <1>5 DEF Other, TypeOK, Opcode
<1>6. ASSUME NEW mode \in 0 .. 2, SNAP_TRACE(mode) PROVE StepsInv'
  BY <1>6, SwitchSound
<1>7. ASSUME NEW idx \in 0 .. FRAME_CAPACITY, REPLAY(idx) PROVE StepsInv'
  <2>1. idx \in Nat
    BY Capacities
  <2>2. screen' \in Screens
    BY <1>0, <1>7, <2>1, ReplayedScreen DEF REPLAY, TypeOK
  <2> QED BY <1>0, <1>3, <1>7, <2>2 DEF REPLAY, TypeOK, Opcode
<1>8. CASE ForkSave
  <2>1. snapshots' \in Seq(Screens) /\ Len(snapshots') <= MAX_SNAPSHOTS
    BY <1>0, <1>8, TraceAssumption DEF ForkSave, Room, TypeOK
  <2> QED BY <1>0, <1>3, <1>8, <2>1 DEF ForkSave, TypeOK, Opcode
<1>9. ASSUME NEW slot \in 0 .. MAX_SNAPSHOTS, ForkRestore(slot) PROVE StepsInv'
  <2>1. slot < Len(snapshots) => snapshots[slot + 1] \in Screens
    <3>1. Len(snapshots) \in Nat /\ slot \in Nat
      BY <1>0, TraceAssumption DEF TypeOK
    <3>2. slot < Len(snapshots) => slot + 1 \in 1 .. Len(snapshots)
      BY <3>1
    <3> QED BY <1>0, <3>2, ElementOfSeq DEF TypeOK
  <2> QED BY <1>0, <1>3, <1>9, <2>1 DEF ForkRestore, TypeOK, Opcode
<1>10. CASE ForkClear
  BY <1>0, <1>3, <1>10, NoSnapshots DEF ForkClear, TypeOK, Opcode
<1>11. CASE Reset
  <2>1. /\ IsRing(NewRing(TRACE_CAPACITY), TRACE_CAPACITY, TraceEntry)
        /\ NewRing(TRACE_CAPACITY).len = 0
    BY Capacities, RingNew
  <2>2. /\ IsRing(NewRing(FRAME_CAPACITY), FRAME_CAPACITY, FrameCheckpoint)
        /\ NewRing(FRAME_CAPACITY).len = 0
    BY Capacities, RingNew
  <2>3. /\ IsRing(NewRing(PIXEL_CAPACITY), PIXEL_CAPACITY, PixelWriteEntry)
        /\ NewRing(PIXEL_CAPACITY).len = 0
    BY Capacities, RingNew
  <2>4. /\ trace_buffer' = NewRing(TRACE_CAPACITY)
        /\ frame_checkpoints' = NewRing(FRAME_CAPACITY)
        /\ pixel_write_log' = NewRing(PIXEL_CAPACITY)
    BY <1>0, <1>11, ResetIsInit
  <2>5. TypeOK'
    BY <1>11, <2>1, <2>2, <2>3, <2>4, BlackIsScreen, NoSnapshots DEF Reset, TypeOK
  <2> QED BY <1>11, <2>1, <2>2, <2>3, <2>4, <2>5
          DEF Reset, StepsInv, StepsSound, StepsFollow, PixelStepsMatch, FrameStepsMatch,
              PixelsPast, FramesPast
<1>12. CASE UNCHANGED vars
  BY <1>12 DEF vars, StepsInv, StepsSound, TypeOK, StepsFollow, PixelStepsMatch,
               FrameStepsMatch, PixelsPast, FramesPast
<1> QED BY <1>1, <1>2, <1>4, <1>5, <1>6, <1>7, <1>8, <1>9, <1>10, <1>11, <1>12 DEF Next

LEMMA StepsInductive == Spec => []StepsInv
BY StepsStart, StepsStep, PTL DEF Spec

(* The numbers in the three recordings are about the same instructions,    *)
(* for every capacity of the rings and whatever a program runs.            *)
THEOREM StepsAreSound == Spec => []StepsSound
<1>1. StepsInv => StepsSound
  BY DEF StepsInv
<1> QED BY <1>1, StepsInductive, PTL
-----------------------------------------------------------------------------
(* The rings as windows on the recordings (TraceHistory). *)

(* A push is what a log remembers. *)
LEMMA PushRemembers ==
    ASSUME NEW n \in Nat \ {0}, NEW S, NEW r, IsRing(r, n, S), NEW e \in S
    PROVE  iter(push(r, e)) = History!Remember(iter(r), e, n)
<1>1. /\ IsRing(push(r, e), n, S)
      /\ push(r, e).len = IF r.len < n THEN r.len + 1 ELSE n
      /\ \A i \in 1 .. push(r, e).len :
            iter(push(r, e))[i] = IF i = push(r, e).len THEN e
                                  ELSE iter(r)[IF r.len < n THEN i ELSE i + 1]
  BY RingPush
<1>2. iter(r) \in Seq(S) /\ Len(iter(r)) = r.len /\ r.len \in 0 .. n
  BY RingIter
<1>3. iter(push(r, e)) \in Seq(S) /\ Len(iter(push(r, e))) = push(r, e).len
  BY <1>1, RingIter
<1>4. PICK log \in Seq(S) : log = iter(r)
  BY <1>2
<1>5. PICK new \in Seq(S) : new = iter(push(r, e))
  BY <1>3
<1>6. /\ Len(log) \in 0 .. n
      /\ Len(new) = (IF Len(log) < n THEN Len(log) + 1 ELSE n)
      /\ \A i \in 1 .. Len(new) :
            new[i] = IF i = Len(new) THEN e ELSE log[IF Len(log) < n THEN i ELSE i + 1]
  BY <1>1, <1>2, <1>3, <1>4, <1>5
<1>7. CASE Len(log) < n
  <2>1. Append(log, e) \in Seq(S) /\ Len(Append(log, e)) = Len(new)
    BY <1>6, <1>7
  <2>2. \A i \in 1 .. Len(new) : new[i] = Append(log, e)[i]
    BY <1>6, <1>7
  <2>3. new = Append(log, e)
    BY <2>1, <2>2, SeqEqual
  <2> QED BY <1>4, <1>5, <1>7, <2>3 DEF History!Remember
<1>8. CASE ~(Len(log) < n)
  <2>1. log # << >> /\ Len(log) = n
    BY <1>6, <1>8
  <2>2. /\ Tail(log) \in Seq(S) /\ Len(Tail(log)) = n - 1
        /\ \A i \in 1 .. Len(Tail(log)) : Tail(log)[i] = log[i + 1]
    BY <2>1, HeadTailProperties
  <2>3. PICK t \in Seq(S) : t = Tail(log)
    BY <2>2
  <2>4. /\ Append(t, e) \in Seq(S) /\ Len(Append(t, e)) = n
        /\ \A i \in 1 .. n : Append(t, e)[i] = IF i = n THEN e ELSE t[i]
    BY <2>2, <2>3
  <2>5. \A i \in 1 .. n : new[i] = IF i = n THEN e ELSE log[i + 1]
    BY <1>6, <1>8
  <2>6. \A i \in 1 .. n : new[i] = Append(t, e)[i]
    BY <2>2, <2>3, <2>4, <2>5
  <2>7. new = Append(t, e)
    BY <1>6, <1>8, <2>4, <2>6, SeqEqual
  <2> QED BY <1>4, <1>5, <1>8, <2>3, <2>7 DEF History!Remember
<1> QED BY <1>7, <1>8

LEMMA AdvanceRemembers ==
    ASSUME TypeOK, NEW op \in Opcode, Advance(op)
    PROVE  iter(trace_buffer') = IF trace_recording
                                 THEN History!Remember(iter(trace_buffer),
                                        [step_number |-> step_counter, opcode |-> op], TRACE_CAPACITY)
                                 ELSE iter(trace_buffer)
<1>1. PICK e \in TraceEntry : e = [step_number |-> step_counter, opcode |-> op]
  BY DEF TraceEntry, TypeOK
<1>2. IsRing(trace_buffer, TRACE_CAPACITY, TraceEntry)
  BY DEF TypeOK
<1>3. iter(push(trace_buffer, e)) = History!Remember(iter(trace_buffer), e, TRACE_CAPACITY)
  BY <1>2, Capacities, PushRemembers
<1> QED BY <1>1, <1>3 DEF Advance, Recorded, Pushed

LEMMA FetchExecutes ==
    ASSUME TypeOK, NEW op \in Opcode, Fetch(op)
    PROVE  History!Execute(op)
<1>1. Advance(op)
  BY DEF Fetch, Advance
<1>2. iter(trace_buffer') = IF trace_recording
                            THEN History!Remember(iter(trace_buffer),
                                   [step_number |-> step_counter, opcode |-> op], TRACE_CAPACITY)
                            ELSE iter(trace_buffer)
  BY <1>1, AdvanceRemembers
<1> QED BY <1>2 DEF Fetch, Counted, History!Execute

(* Each ring is the sequence of the last entries up to its capacity, in    *)
(* order, and REPLAY counts back from the newest: for every capacity the   *)
(* initial state is one without entries, and every instruction and every   *)
(* reset is the step of the recordings that it stands for.                 *)
THEOREM Refinement == Spec => ImplementsHistory
<1>1. Init => History!Init
  <2>1. /\ iter(NewRing(TRACE_CAPACITY)) = << >>
        /\ iter(NewRing(FRAME_CAPACITY)) = << >>
        /\ iter(NewRing(PIXEL_CAPACITY)) = << >>
    BY Capacities, RingNew
  <2> QED BY <2>1 DEF Init, History!Init
<1>2. StepsInv /\ [Next]_vars => [History!Next]_(History!vars)
  <2> SUFFICES ASSUME StepsInv, [Next]_vars PROVE [History!Next]_(History!vars)
    OBVIOUS
  <2>0. TypeOK /\ screen \in Screens
    BY DEF StepsInv, StepsSound, TypeOK
  <2>1. ASSUME NEW p \in Pixel, NEW c \in Color, PSET(p, c) PROVE History!Next
    <3>1. History!Execute("PSET") /\ "PSET" \in Opcode
      BY <2>0, <2>1, FetchExecutes DEF PSET, Opcode
    <3>2. iter(pixel_write_log') =
            IF trace_recording
            THEN History!Remember(iter(pixel_write_log),
                   [step_number |-> step_counter, opcode |-> "PSET", pixel |-> p,
                    color |-> c, era |-> era], PIXEL_CAPACITY)
            ELSE iter(pixel_write_log)
      <4>1. CASE ~trace_recording
        BY <2>1, <4>1 DEF PSET
      <4>2. CASE trace_recording
        <5>1. step_counter \in Nat /\ era \in Nat /\ step_counter' = step_counter + 1
          BY <2>0, <2>1, <4>2 DEF TypeOK, PSET, Fetch, Counted
        <5>2. PixelStep = step_counter
          BY <5>1 DEF PixelStep
        <5>3. PICK e \in PixelWriteEntry :
                e = [step_number |-> step_counter, opcode |-> "PSET", pixel |-> p,
                     color |-> c, era |-> era]
          BY <5>1 DEF PixelWriteEntry
        <5>4. pixel_write_log' = push(pixel_write_log, e)
          BY <2>1, <4>2, <5>2, <5>3 DEF PSET
        <5>5. IsRing(pixel_write_log, PIXEL_CAPACITY, PixelWriteEntry)
          BY <2>0 DEF TypeOK
        <5>6. iter(push(pixel_write_log, e))
                = History!Remember(iter(pixel_write_log), e, PIXEL_CAPACITY)
          BY <5>5, Capacities, PushRemembers
        <5> QED BY <4>2, <5>3, <5>4, <5>6
      <4> QED BY <4>1, <4>2
    <3>3. History!Paint("PSET", p, c)
      BY <2>1, <3>1, <3>2 DEF PSET, History!Paint
    <3> QED BY <3>1, <3>3 DEF History!Next
  <2>2. ASSUME NEW s \in Screens, FRAME(s) PROVE History!Next
    <3>1. History!Execute("FRAME")
      BY <2>0, <2>2, FetchExecutes DEF FRAME, Opcode
    <3>2. iter(frame_checkpoints') =
            IF trace_recording
            THEN History!Remember(iter(frame_checkpoints),
                   [step_number |-> step_counter + 1, screen |-> screen, era |-> era],
                   FRAME_CAPACITY)
            ELSE iter(frame_checkpoints)
      <4>1. CASE ~trace_recording
        BY <2>2, <4>1 DEF FRAME
      <4>2. CASE trace_recording
        <5>1. step_counter + 1 \in Nat /\ era \in Nat /\ step_counter' = step_counter + 1
          BY <2>0, <2>2, <4>2 DEF TypeOK, FRAME, Fetch, Counted
        <5>2. PICK e : e = [step_number |-> step_counter + 1, screen |-> screen, era |-> era]
          OBVIOUS
        <5>3. e \in FrameCheckpoint
          BY <2>0, <5>1, <5>2 DEF FrameCheckpoint
        <5>4. frame_checkpoints' = push(frame_checkpoints, e)
          BY <2>2, <4>2, <5>1, <5>2 DEF FRAME, FrameStep, Copied
        <5>5. IsRing(frame_checkpoints, FRAME_CAPACITY, FrameCheckpoint)
          BY <2>0 DEF TypeOK
        <5>6. iter(push(frame_checkpoints, e))
                = History!Remember(iter(frame_checkpoints), e, FRAME_CAPACITY)
          BY <5>3, <5>5, Capacities, PushRemembers
        <5> QED BY <4>2, <5>2, <5>4, <5>6
      <4> QED BY <4>1, <4>2
    <3>3. History!Frame
      BY <2>2, <3>1, <3>2 DEF FRAME, History!Frame, Screens
    <3> QED BY <3>3 DEF History!Next
  <2>3. ASSUME NEW op \in Opcode \ {"REPLAY"}, Fetch(op),
               UNCHANGED <<frame_checkpoints, pixel_write_log>>, screen' \in Screens
        PROVE  History!Next
    <3>1. History!Draw(op)
      BY <2>0, <2>3, FetchExecutes DEF History!Draw, Screens
    <3> QED BY <3>1 DEF History!Next
  <2>4. ASSUME NEW s \in Screens, Draw(s) PROVE History!Next
    BY <2>3, <2>4 DEF Draw, Opcode
  <2>5. CASE Other
    BY <2>0, <2>3, <2>5 DEF Other, Opcode
  <2>6. ASSUME NEW mode \in 0 .. 2, SNAP_TRACE(mode) PROVE History!Next
    <3>1. CASE mode # 2
      <4>1. Advance("SNAP_TRACE") /\ "SNAP_TRACE" \in Opcode
        BY <2>6, <3>1 DEF SNAP_TRACE, Advance, Opcode
      <4>2. iter(trace_buffer') = IF trace_recording
                                  THEN History!Remember(iter(trace_buffer),
                                         [step_number |-> step_counter, opcode |-> "SNAP_TRACE"],
                                         TRACE_CAPACITY)
                                  ELSE iter(trace_buffer)
        BY <2>0, <4>1, AdvanceRemembers
      <4>3. History!Switch
        BY <2>6, <3>1, <4>2 DEF SNAP_TRACE, Counted, History!Switch
      <4> QED BY <4>3 DEF History!Next
    <3>2. CASE mode = 2
      <4>1. StepsInv'
        BY <2>6, SwitchSound
      <4>2. trace_buffer'.len = 0
        BY <2>6, <3>2 DEF SNAP_TRACE, clear, NewRing
      <4>3. iter(trace_buffer') = << >>
        <5>1. IsRing(trace_buffer', TRACE_CAPACITY, TraceEntry)
          BY <4>1 DEF StepsInv, StepsSound, TypeOK
        <5>2. iter(trace_buffer') \in Seq(TraceEntry) /\ Len(iter(trace_buffer')) = trace_buffer'.len
          BY <5>1, Capacities, RingIter
        <5> QED BY <4>2, <5>2
      <4>4. History!Switch
        <5>1. /\ trace_recording' = FALSE /\ step_counter' = 0
              /\ UNCHANGED <<frame_checkpoints, pixel_write_log, screen>>
              /\ era' = era + 1
          <6>1. trace_recording' = (mode = 1) /\ (mode = 1) = FALSE
            BY <2>6, <3>2 DEF SNAP_TRACE
          <6>2. /\ step_counter' = 0 /\ era' = era + 1
                /\ UNCHANGED <<frame_checkpoints, pixel_write_log, screen>>
            BY <2>6, <3>2 DEF SNAP_TRACE
          <6> QED BY <6>1, <6>2
        <5> QED BY <4>3, <5>1 DEF History!Switch
      <4> QED BY <4>4 DEF History!Next
    <3> QED BY <3>1, <3>2
  <2>7. ASSUME NEW idx \in 0 .. FRAME_CAPACITY, REPLAY(idx) PROVE History!Next
    <3>1. History!Execute("REPLAY") /\ UNCHANGED <<frame_checkpoints, pixel_write_log>>
      BY <2>0, <2>7, FetchExecutes DEF REPLAY, Opcode
    <3>2. CASE idx < frame_checkpoints.len
      <4>1. /\ get_recent(frame_checkpoints, idx)
                 = iter(frame_checkpoints)[frame_checkpoints.len - idx]
            /\ frame_checkpoints.len - idx \in 1 .. frame_checkpoints.len
        BY <2>0, <3>2, ReplayedScreen, Capacities
      <4>2. Len(iter(frame_checkpoints)) = frame_checkpoints.len
        <5>1. IsRing(frame_checkpoints, FRAME_CAPACITY, FrameCheckpoint)
          BY <2>0 DEF TypeOK
        <5> QED BY <5>1, Capacities, RingIter
      <4>3. PICK i \in 1 .. Len(iter(frame_checkpoints)) : i = frame_checkpoints.len - idx
        BY <4>1, <4>2
      <4>4. screen' = iter(frame_checkpoints)[i].screen
        BY <2>7, <3>2, <4>1, <4>3 DEF REPLAY
      <4> QED BY <3>1, <4>4 DEF History!Replay, History!Next
    <3>3. CASE ~(idx < frame_checkpoints.len)
      BY <2>7, <3>1, <3>3 DEF REPLAY, History!Replay, History!Next
    <3> QED BY <3>2, <3>3
  <2>8. CASE ForkSave
    BY <2>0, <2>3, <2>8 DEF ForkSave, Opcode
  <2>9. ASSUME NEW slot \in 0 .. MAX_SNAPSHOTS, ForkRestore(slot) PROVE History!Next
    <3>1. screen' \in Screens
      <4>1. Len(snapshots) \in Nat /\ slot \in Nat /\ snapshots \in Seq(Screens)
        BY <2>0, TraceAssumption DEF TypeOK
      <4>2. slot < Len(snapshots) => slot + 1 \in 1 .. Len(snapshots)
        BY <4>1
      <4>3. slot < Len(snapshots) => snapshots[slot + 1] \in Screens
        BY <4>1, <4>2, ElementOfSeq
      <4> QED BY <2>0, <2>9, <4>3 DEF ForkRestore
    <3> QED BY <2>3, <2>9, <3>1 DEF ForkRestore, Opcode
  <2>10. CASE ForkClear
    BY <2>0, <2>3, <2>10 DEF ForkClear, Opcode
  <2>11. CASE Reset
    <3>1. /\ iter(NewRing(TRACE_CAPACITY)) = << >>
          /\ iter(NewRing(FRAME_CAPACITY)) = << >>
          /\ iter(NewRing(PIXEL_CAPACITY)) = << >>
      BY Capacities, RingNew
    <3>2. /\ trace_buffer' = NewRing(TRACE_CAPACITY)
          /\ frame_checkpoints' = NewRing(FRAME_CAPACITY)
          /\ pixel_write_log' = NewRing(PIXEL_CAPACITY)
      BY <2>0, <2>11, ResetIsInit
    <3>3. History!Restart
      BY <2>11, <3>1, <3>2 DEF Reset, History!Restart
    <3> QED BY <3>3 DEF History!Next
  <2>12. CASE UNCHANGED vars
    BY <2>12 DEF vars, History!vars
  <2> QED BY <2>1, <2>2, <2>4, <2>5, <2>6, <2>7, <2>8, <2>9, <2>10, <2>11, <2>12 DEF Next
<1> QED BY <1>1, <1>2, StepsInductive, PTL DEF Spec, ImplementsHistory, History!Spec
-----------------------------------------------------------------------------
(* The screen. *)

(* A write that counts when the screen is put together from frame f.       *)
LaterThan(w, f) == w.era = f.era /\ w.step_number >= f.step_number

(* Index i of the log is the newest write to pixel p since frame f.        *)
NewestWrite(log, f, p, i) ==
    /\ LaterThan(log[i], f) /\ log[i].pixel = p
    /\ \A k \in 1 .. Len(log) : LaterThan(log[k], f) /\ log[k].pixel = p => k <= i

NoWrite(log, f, p) == \A k \in 1 .. Len(log) : ~(LaterThan(log[k], f) /\ log[k].pixel = p)

(* Screen s is that of frame f with the pixels of the log laid over it.    *)
LaidOver(s, log, f) ==
    \A p \in Pixel :
        \/ NoWrite(log, f, p) /\ s[p] = f.screen[p]
        \/ \E i \in 1 .. Len(log) : NewestWrite(log, f, p, i) /\ s[p] = log[i].color

NewestFrame == iter(frame_checkpoints)[frame_checkpoints.len]

(* The writes are logged in the order of the instructions.                 *)
LoggedBefore(w, x) == w.era < x.era \/ (w.era = x.era /\ w.step_number < x.step_number)

LogOrdered ==
    \A i, k \in 1 .. pixel_write_log.len :
        i < k => LoggedBefore(iter(pixel_write_log)[i], iter(pixel_write_log)[k])

(* A steady screen was checkpointed since the trace was last cleared.      *)
SteadyFrame == steady => frame_checkpoints.len > 0 /\ NewestFrame.era = era

(* The dropped writes are all from before the frame: the oldest one kept   *)
(* is, if any was dropped.                                                 *)
NothingLost ==
    \/ pixel_write_log.len < PIXEL_CAPACITY
    \/ ~LaterThan(iter(pixel_write_log)[1], NewestFrame)

ScreenLaidOver ==
    steady /\ NothingLost => LaidOver(screen, iter(pixel_write_log), NewestFrame)

RebuildInv == LogOrdered /\ SteadyFrame /\ ScreenLaidOver

(* What the rings hold, for the lemmas below.                              *)
LEMMA RingsHold ==
    ASSUME TypeOK
    PROVE  /\ iter(pixel_write_log) \in Seq(PixelWriteEntry)
           /\ Len(iter(pixel_write_log)) = pixel_write_log.len
           /\ pixel_write_log.len \in 0 .. PIXEL_CAPACITY
           /\ \A i \in 1 .. pixel_write_log.len : iter(pixel_write_log)[i] \in PixelWriteEntry
           /\ frame_checkpoints.len \in 0 .. FRAME_CAPACITY
           /\ frame_checkpoints.len > 0 => /\ NewestFrame \in FrameCheckpoint
                                           /\ get_recent(frame_checkpoints, 0) = NewestFrame
<1>1. /\ IsRing(pixel_write_log, PIXEL_CAPACITY, PixelWriteEntry)
      /\ IsRing(frame_checkpoints, FRAME_CAPACITY, FrameCheckpoint)
  BY DEF TypeOK
<1>2. /\ iter(pixel_write_log) \in Seq(PixelWriteEntry)
      /\ Len(iter(pixel_write_log)) = pixel_write_log.len
      /\ pixel_write_log.len \in 0 .. PIXEL_CAPACITY
  BY <1>1, Capacities, RingIter
<1>3. frame_checkpoints.len \in 0 .. FRAME_CAPACITY
  BY <1>1, Capacities, RingIter
<1>4. ASSUME frame_checkpoints.len > 0
      PROVE  /\ NewestFrame \in FrameCheckpoint
             /\ get_recent(frame_checkpoints, 0) = NewestFrame
  <2>1. 0 \in 0 .. frame_checkpoints.len - 1 /\ frame_checkpoints.len \in 1 .. frame_checkpoints.len
        /\ frame_checkpoints.len - 0 = frame_checkpoints.len
    BY <1>3, <1>4, Capacities
  <2>2. get_recent(frame_checkpoints, 0) = iter(frame_checkpoints)[frame_checkpoints.len - 0]
    BY <1>1, <2>1, Capacities, RingRecent
  <2> QED BY <2>1, <2>2, LogEntries DEF NewestFrame
<1>5. \A i \in 1 .. pixel_write_log.len : iter(pixel_write_log)[i] \in PixelWriteEntry
  BY LogEntries
<1> QED BY <1>2, <1>3, <1>4, <1>5

(* What the invariant says of the screen is what the run checks.           *)
LEMMA LaidOverRebuilds ==
    ASSUME TypeOK, RebuildInv
    PROVE  ScreenRebuilds
<1> SUFFICES ASSUME steady, LogReachesBack PROVE screen = Rebuilt
  BY DEF ScreenRebuilds
<1>1. /\ Len(iter(pixel_write_log)) = pixel_write_log.len
      /\ pixel_write_log.len \in 0 .. PIXEL_CAPACITY
      /\ get_recent(frame_checkpoints, 0) = NewestFrame
  BY RingsHold DEF RebuildInv, SteadyFrame
<1>2. NothingLost
  <2>1. CASE pixel_write_log.len < PIXEL_CAPACITY
    BY <2>1 DEF NothingLost
  <2>2. CASE ~(pixel_write_log.len < PIXEL_CAPACITY)
    <3>1. get_at(pixel_write_log, 0) = iter(pixel_write_log)[1]
      BY <1>1, <2>2, Capacities DEF iter
    <3>2. \/ iter(pixel_write_log)[1].era # NewestFrame.era
          \/ iter(pixel_write_log)[1].step_number < NewestFrame.step_number
      BY <1>1, <2>2, <3>1 DEF LogReachesBack
    <3>3. /\ iter(pixel_write_log)[1] \in PixelWriteEntry /\ NewestFrame \in FrameCheckpoint
      BY <1>1, <2>2, RingsHold, Capacities DEF RebuildInv, SteadyFrame
    <3> QED BY <3>2, <3>3 DEF NothingLost, LaterThan, PixelWriteEntry, FrameCheckpoint
  <2> QED BY <2>1, <2>2
<1>3. LaidOver(screen, iter(pixel_write_log), NewestFrame)
  BY <1>2 DEF RebuildInv, ScreenLaidOver
<1> DEFINE frame == get_recent(frame_checkpoints, 0)
           L(p) == {i \in 1 .. pixel_write_log.len :
                      /\ iter(pixel_write_log)[i].era = frame.era
                      /\ iter(pixel_write_log)[i].step_number >= frame.step_number
                      /\ iter(pixel_write_log)[i].pixel = p}
<1>4. Rebuilt = [p \in Pixel |->
                   IF L(p) = {} THEN frame.screen[p]
                   ELSE iter(pixel_write_log)[CHOOSE i \in L(p) : \A k \in L(p) : k <= i].color]
  BY Zenon DEF Rebuilt
<1>5. \A p \in Pixel : \A i : i \in L(p) <=> /\ i \in 1 .. pixel_write_log.len
                                            /\ LaterThan(iter(pixel_write_log)[i], NewestFrame)
                                            /\ iter(pixel_write_log)[i].pixel = p
  BY <1>1 DEF LaterThan
<1> HIDE DEF L
<1>6. ASSUME NEW p \in Pixel PROVE screen[p] = Rebuilt[p]
  <2>1. CASE NoWrite(iter(pixel_write_log), NewestFrame, p)
             /\ screen[p] = NewestFrame.screen[p]
    <3>1. L(p) = {}
      BY <1>1, <1>5, <2>1 DEF NoWrite
    <3> QED BY <1>1, <1>4, <2>1, <3>1
  <2>2. ASSUME NEW i \in 1 .. Len(iter(pixel_write_log)),
               NewestWrite(iter(pixel_write_log), NewestFrame, p, i),
               screen[p] = iter(pixel_write_log)[i].color
        PROVE  screen[p] = Rebuilt[p]
    <3>1. i \in L(p) /\ \A k \in L(p) : k <= i /\ k \in Nat
      BY <1>1, <1>5, <2>2 DEF NewestWrite
    <3>2. PICK j : j = CHOOSE x \in L(p) : \A k \in L(p) : k <= x
      OBVIOUS
    <3>3. j \in L(p) /\ \A k \in L(p) : k <= j
      BY <3>1, <3>2, Zenon
    <3>4. (CHOOSE x \in L(p) : \A k \in L(p) : k <= x) = i
      <4>1. i \in Nat /\ j \in Nat /\ j <= i /\ i <= j
        BY <3>1, <3>3
      <4> QED BY <3>2, <4>1
    <3> QED BY <1>4, <2>2, <3>1, <3>4
  <2> QED BY <1>3, <2>1, <2>2 DEF LaidOver
<1>7. screen = [p \in Pixel |-> screen[p]] /\ Rebuilt = [p \in Pixel |-> Rebuilt[p]]
  BY <1>4 DEF TypeOK, Screens
<1> QED BY <1>6, <1>7

(* A step that logs neither pixel nor frame, and leaves the screen and the *)
(* era alone where it stays steady.                                        *)
LEMMA QuietStep ==
    ASSUME RebuildInv, UNCHANGED <<frame_checkpoints, pixel_write_log>>,
           steady' => steady /\ screen' = screen /\ era' = era
    PROVE  RebuildInv'
<1>1. LogOrdered'
  BY DEF RebuildInv, LogOrdered
<1>2. NewestFrame' = NewestFrame /\ NothingLost' = NothingLost
  BY DEF NewestFrame, NothingLost
<1>3. SteadyFrame'
  BY <1>2 DEF RebuildInv, SteadyFrame
<1>4. ScreenLaidOver'
  <2> SUFFICES ASSUME steady', NothingLost'
               PROVE  LaidOver(screen', iter(pixel_write_log'), NewestFrame')
    BY DEF ScreenLaidOver
  <2>1. LaidOver(screen, iter(pixel_write_log), NewestFrame)
    BY <1>2 DEF RebuildInv, ScreenLaidOver
  <2> QED BY <1>2, <2>1
<1> QED BY <1>1, <1>3, <1>4 DEF RebuildInv

(* Sequences of writes, when one more is logged and the oldest of a full   *)
(* log dropped.                                                            *)
Shifted(new, log, e, n) ==
    /\ Len(new) = IF Len(log) < n THEN Len(log) + 1 ELSE n
    /\ \A i \in 1 .. Len(new) :
          new[i] = IF i = Len(new) THEN e ELSE log[IF Len(log) < n THEN i ELSE i + 1]

(* The written pixel is the newest of its own.                             *)
LEMMA OwnPixel ==
    ASSUME NEW n \in Nat \ {0}, NEW log \in Seq(PixelWriteEntry),
           NEW new \in Seq(PixelWriteEntry), NEW e \in PixelWriteEntry,
           NEW f \in FrameCheckpoint,
           Len(log) \in 0 .. n, Shifted(new, log, e, n), LaterThan(e, f)
    PROVE  /\ Len(new) \in 1 .. Len(new) /\ new[Len(new)] = e
           /\ NewestWrite(new, f, e.pixel, Len(new))
<1>1. Len(new) \in 1 .. Len(new) /\ new[Len(new)] = e
  BY DEF Shifted
<1>2. NewestWrite(new, f, e.pixel, Len(new))
  BY <1>1 DEF NewestWrite
<1> QED BY <1>1, <1>2

(* The other pixels are as they were, unless the dropped write was one of  *)
(* the later ones.                                                         *)
LEMMA OtherPixels ==
    ASSUME NEW n \in Nat \ {0}, NEW log \in Seq(PixelWriteEntry),
           NEW new \in Seq(PixelWriteEntry), NEW e \in PixelWriteEntry,
           NEW f \in FrameCheckpoint,
           Len(log) \in 0 .. n, Shifted(new, log, e, n),
           Len(log) = n => ~LaterThan(log[1], f),
           NEW q \in Pixel, q # e.pixel
    PROVE  /\ NoWrite(log, f, q) => NoWrite(new, f, q)
           /\ \A i \in 1 .. Len(log) : NewestWrite(log, f, q, i) =>
                \E j \in 1 .. Len(new) : NewestWrite(new, f, q, j) /\ new[j] = log[i]
<1>1. Len(log) \in 0 .. n /\ Len(new) \in 1 .. n
      /\ Len(new) = IF Len(log) < n THEN Len(log) + 1 ELSE n
  BY DEF Shifted
<1>2. ASSUME NEW k \in 1 .. Len(new), LaterThan(new[k], f) /\ new[k].pixel = q
      PROVE  \E i \in 1 .. Len(log) : /\ i = IF Len(log) < n THEN k ELSE k + 1
                                      /\ new[k] = log[i]
  <2>1. k # Len(new)
    BY <1>2 DEF Shifted
  <2>2. PICK i \in 1 .. Len(log) : i = IF Len(log) < n THEN k ELSE k + 1
    BY <1>1, <2>1
  <2>3. new[k] = log[i]
    BY <2>1, <2>2 DEF Shifted
  <2> QED BY <2>2, <2>3
<1>3. NoWrite(log, f, q) => NoWrite(new, f, q)
  BY <1>2 DEF NoWrite
<1>4. ASSUME NEW i \in 1 .. Len(log), NewestWrite(log, f, q, i)
      PROVE  \E j \in 1 .. Len(new) : NewestWrite(new, f, q, j) /\ new[j] = log[i]
  <2>1. Len(log) = n => i # 1
    BY <1>4 DEF NewestWrite
  <2>2. PICK j \in 1 .. Len(new) : j # Len(new) /\ i = IF Len(log) < n THEN j ELSE j + 1
    <3>1. CASE Len(log) < n
      BY <1>1, <3>1
    <3>2. CASE ~(Len(log) < n)
      <4>1. i - 1 \in 1 .. Len(new) /\ i - 1 # Len(new) /\ i = (i - 1) + 1
        BY <1>1, <2>1, <3>2
      <4> QED BY <3>2, <4>1
    <3> QED BY <3>1, <3>2
  <2>3. new[j] = log[i]
    BY <2>2 DEF Shifted
  <2>4. ASSUME NEW k \in 1 .. Len(new), LaterThan(new[k], f) /\ new[k].pixel = q
        PROVE  k <= j
    <3>1. PICK m \in 1 .. Len(log) : /\ m = IF Len(log) < n THEN k ELSE k + 1
                                     /\ new[k] = log[m]
      BY <1>2, <2>4
    <3>2. m <= i
      BY <1>4, <2>4, <3>1 DEF NewestWrite
    <3> QED BY <1>1, <2>2, <3>1, <3>2
  <2>5. NewestWrite(new, f, q, j)
    BY <1>4, <2>3, <2>4 DEF NewestWrite
  <2> QED BY <2>3, <2>5
<1> QED BY <1>3, <1>4

(* A pixel logged while the screen is steady is laid over it as it is on   *)
(* the screen.                                                             *)
LEMMA LoggedPixel ==
    ASSUME StepsInv, RebuildInv, trace_recording, NEW p \in Pixel, NEW c \in Color, PSET(p, c)
    PROVE  RebuildInv'
<1>0. TypeOK /\ step_counter \in Nat /\ era \in Nat /\ steady \in BOOLEAN
      /\ IsRing(pixel_write_log, PIXEL_CAPACITY, PixelWriteEntry) /\ screen \in Screens
  BY DEF StepsInv, StepsSound, TypeOK
<1>1. /\ step_counter' = step_counter + 1 /\ era' = era
      /\ screen' = [screen EXCEPT ![p] = c] /\ UNCHANGED frame_checkpoints
      /\ steady' => steady
  BY <1>0 DEF PSET, Fetch, Counted
<1>2. PixelStep = step_counter
  BY <1>0, <1>1 DEF PixelStep
<1>3. PICK e \in PixelWriteEntry :
        e = [step_number |-> step_counter, opcode |-> "PSET", pixel |-> p, color |-> c, era |-> era]
  BY <1>0 DEF PixelWriteEntry
<1>4. pixel_write_log' = push(pixel_write_log, e)
  BY <1>2, <1>3 DEF PSET
<1>5. /\ iter(pixel_write_log) \in Seq(PixelWriteEntry)
      /\ Len(iter(pixel_write_log)) = pixel_write_log.len
      /\ pixel_write_log.len \in 0 .. PIXEL_CAPACITY
      /\ \A i \in 1 .. pixel_write_log.len : iter(pixel_write_log)[i] \in PixelWriteEntry
      /\ frame_checkpoints.len > 0 => NewestFrame \in FrameCheckpoint
  BY <1>0, RingsHold
<1>6. /\ IsRing(push(pixel_write_log, e), PIXEL_CAPACITY, PixelWriteEntry)
      /\ push(pixel_write_log, e).len =
            IF pixel_write_log.len < PIXEL_CAPACITY THEN pixel_write_log.len + 1 ELSE PIXEL_CAPACITY
      /\ \A i \in 1 .. push(pixel_write_log, e).len :
            iter(push(pixel_write_log, e))[i] =
              IF i = push(pixel_write_log, e).len THEN e
              ELSE iter(pixel_write_log)[IF pixel_write_log.len < PIXEL_CAPACITY THEN i ELSE i + 1]
  BY <1>0, Capacities, RingPush
<1>7. /\ iter(push(pixel_write_log, e)) \in Seq(PixelWriteEntry)
      /\ Len(iter(push(pixel_write_log, e))) = push(pixel_write_log, e).len
  BY <1>6, Capacities, RingIter
<1>8. PICK n \in Nat \ {0} : n = PIXEL_CAPACITY
  BY Capacities
<1>9. PICK log \in Seq(PixelWriteEntry) : log = iter(pixel_write_log)
  BY <1>5
<1>10. PICK new \in Seq(PixelWriteEntry) : new = iter(pixel_write_log')
  BY <1>4, <1>7
<1>11. /\ Len(log) = pixel_write_log.len /\ Len(log) \in 0 .. n
       /\ Len(new) = pixel_write_log'.len
       /\ Shifted(new, log, e, n)
  BY <1>4, <1>5, <1>6, <1>7, <1>8, <1>9, <1>10 DEF Shifted
<1>12. \A i \in 1 .. Len(log) : /\ log[i] \in PixelWriteEntry /\ log[i].era <= era
                                /\ log[i].era = era => log[i].step_number < step_counter
  BY <1>5, <1>9, <1>11 DEF StepsInv, PixelsPast
<1>13. \A i, k \in 1 .. Len(log) :
          i < k => LoggedBefore(log[i], log[k])
  BY <1>9, <1>11 DEF RebuildInv, LogOrdered
<1>14. LogOrdered'
  <2>1. ASSUME NEW i \in 1 .. Len(new), NEW k \in 1 .. Len(new), i < k
        PROVE  LoggedBefore(new[i], new[k])
    <3>1. PICK j \in 1 .. Len(log) : j = IF Len(log) < n THEN i ELSE i + 1
      BY <1>11, <2>1 DEF Shifted
    <3>2. new[i] = log[j]
      <4>1. i # Len(new)
        BY <2>1
      <4> QED BY <1>11, <3>1, <4>1 DEF Shifted
    <3>3. CASE k = Len(new)
      <4>1. new[k] = e
        BY <1>11, <3>3 DEF Shifted
      <4>2. e.era = era /\ e.step_number = step_counter
        BY <1>3
      <4>3. log[j].era \in Nat
        BY <1>12 DEF PixelWriteEntry
      <4>4. log[j].era <= era /\ (log[j].era = era => log[j].step_number < step_counter)
        BY <1>12
      <4>5. log[j].era < era \/ (log[j].era = era /\ log[j].step_number < step_counter)
        BY <1>0, <4>3, <4>4
      <4> QED BY <3>2, <4>1, <4>2, <4>5 DEF LoggedBefore
    <3>4. CASE k # Len(new)
      <4>1. PICK m \in 1 .. Len(log) : m = IF Len(log) < n THEN k ELSE k + 1
        BY <1>11, <3>4 DEF Shifted
      <4>2. new[k] = log[m]
        BY <1>11, <3>4, <4>1 DEF Shifted
      <4>3. j < m
        BY <2>1, <3>1, <4>1
      <4> QED BY <1>13, <3>2, <4>2, <4>3
    <3> QED BY <3>3, <3>4
  <2> SUFFICES ASSUME NEW i \in 1 .. pixel_write_log'.len, NEW k \in 1 .. pixel_write_log'.len,
                      i < k
               PROVE  LoggedBefore(iter(pixel_write_log')[i], iter(pixel_write_log')[k])
    BY DEF LogOrdered
  <2> QED BY <1>10, <1>11, <2>1
<1>15. NewestFrame' = NewestFrame
  BY <1>1 DEF NewestFrame
<1>16. SteadyFrame'
  BY <1>1, <1>15 DEF RebuildInv, SteadyFrame
<1>17. ScreenLaidOver'
  <2> SUFFICES ASSUME steady', NothingLost'
               PROVE  LaidOver(screen', new, NewestFrame)
    BY <1>10, <1>15 DEF ScreenLaidOver
  <2>1. steady /\ frame_checkpoints.len > 0 /\ NewestFrame.era = era
    BY <1>1 DEF RebuildInv, SteadyFrame
  <2>2. PICK f \in FrameCheckpoint : f = NewestFrame
    BY <1>5, <2>1
  <2>3. f.era = era /\ f.step_number <= step_counter /\ f.step_number \in Nat
    <3>1. frame_checkpoints.len \in 1 .. frame_checkpoints.len
      BY <1>0, <2>1, RingsHold
    <3> QED BY <2>1, <2>2, <3>1 DEF StepsInv, FramesPast, NewestFrame, FrameCheckpoint
  <2>4. LaterThan(e, f)
    BY <1>0, <1>3, <2>3 DEF LaterThan
  <2>5. Len(log) = n => ~LaterThan(log[1], f)
    <3> SUFFICES ASSUME Len(log) = n, LaterThan(log[1], f) PROVE FALSE
      OBVIOUS
    <3>1. ~LaterThan(new[1], f)
      BY <1>4, <1>6, <1>8, <1>10, <1>11, <1>15, <2>2 DEF NothingLost
    <3>2. n # 1
      BY <1>11, <2>4, <3>1 DEF Shifted
    <3>3. new[1] = log[2] /\ 1 \in 1 .. Len(log) /\ 2 \in 1 .. Len(log)
      BY <1>11, <3>2 DEF Shifted
    <3>4. \/ log[1].era < log[2].era
          \/ log[1].era = log[2].era /\ log[1].step_number < log[2].step_number
      BY <1>13, <3>3 DEF LoggedBefore
    <3>5. /\ log[1].era = era /\ log[2].era <= era
          /\ log[1].step_number >= f.step_number
          /\ log[1].step_number \in Nat /\ log[2].step_number \in Nat /\ log[2].era \in Nat
      BY <1>12, <2>3, <3>3 DEF LaterThan, PixelWriteEntry
    <3>6. log[2].era = era /\ log[2].step_number >= f.step_number
      BY <1>0, <2>3, <3>4, <3>5
    <3> QED BY <2>3, <3>1, <3>3, <3>6 DEF LaterThan
  <2>6. NothingLost
    <3>1. Len(log) < n \/ Len(log) = n
      BY <1>11
    <3> QED BY <1>8, <1>9, <1>11, <2>2, <2>5, <3>1 DEF NothingLost
  <2>7. LaidOver(screen, log, f)
    BY <1>9, <2>1, <2>2, <2>6 DEF RebuildInv, ScreenLaidOver
  <2>8. ASSUME NEW q \in Pixel
        PROVE  \/ NoWrite(new, f, q) /\ screen'[q] = f.screen[q]
               \/ \E i \in 1 .. Len(new) : NewestWrite(new, f, q, i) /\ screen'[q] = new[i].color
    <3>1. CASE q = p
      <4>1. e.pixel = q /\ e.color = c /\ screen'[q] = c
        BY <1>0, <1>1, <1>3, <3>1 DEF Screens
      <4>2. /\ Len(new) \in 1 .. Len(new) /\ new[Len(new)] = e
            /\ NewestWrite(new, f, e.pixel, Len(new))
        BY <1>11, <2>4, OwnPixel
      <4> QED BY <4>1, <4>2
    <3>2. CASE q # p
      <4>1. e.pixel # q /\ screen'[q] = screen[q]
        BY <1>0, <1>1, <1>3, <3>2 DEF Screens
      <4>2. /\ NoWrite(log, f, q) => NoWrite(new, f, q)
            /\ \A i \in 1 .. Len(log) : NewestWrite(log, f, q, i) =>
                 \E j \in 1 .. Len(new) : NewestWrite(new, f, q, j) /\ new[j] = log[i]
        BY <1>11, <2>5, <4>1, OtherPixels
      <4>3. \/ NoWrite(log, f, q) /\ screen[q] = f.screen[q]
            \/ \E i \in 1 .. Len(log) : NewestWrite(log, f, q, i) /\ screen[q] = log[i].color
        BY <2>7 DEF LaidOver
      <4> QED BY <4>1, <4>2, <4>3
    <3> QED BY <3>1, <3>2
  <2> QED BY <2>2, <2>8 DEF LaidOver
<1> QED BY <1>14, <1>16, <1>17 DEF RebuildInv

(* A frame that is logged is the screen, and no write is later than it.    *)
LEMMA LoggedFrame ==
    ASSUME StepsInv, RebuildInv, trace_recording, NEW s \in Screens, FRAME(s)
    PROVE  RebuildInv'
<1>0. TypeOK /\ step_counter \in Nat /\ era \in Nat /\ screen \in Screens
      /\ IsRing(frame_checkpoints, FRAME_CAPACITY, FrameCheckpoint)
  BY DEF StepsInv, StepsSound, TypeOK
<1>1. /\ step_counter' = step_counter + 1 /\ era' = era /\ UNCHANGED pixel_write_log
      /\ steady' => screen' = screen
  BY <1>0 DEF FRAME, Fetch, Counted
<1>2. PICK e : e = [step_number |-> step_counter + 1, screen |-> screen, era |-> era]
  OBVIOUS
<1>3. e \in FrameCheckpoint
  <2>1. step_counter + 1 \in Nat
    BY <1>0
  <2> QED BY <1>0, <1>2, <2>1 DEF FrameCheckpoint
<1>4. frame_checkpoints' = push(frame_checkpoints, e)
  BY <1>1, <1>2 DEF FRAME, FrameStep, Copied
<1>5. frame_checkpoints'.len > 0 /\ NewestFrame' = e
  <2>1. /\ push(frame_checkpoints, e).len =
              IF frame_checkpoints.len < FRAME_CAPACITY THEN frame_checkpoints.len + 1
              ELSE FRAME_CAPACITY
        /\ \A i \in 1 .. push(frame_checkpoints, e).len :
              i = push(frame_checkpoints, e).len => iter(push(frame_checkpoints, e))[i] = e
    BY <1>0, <1>3, Capacities, RingPush
  <2>2. frame_checkpoints.len \in 0 .. FRAME_CAPACITY
    BY <1>0, Capacities, RingFields
  <2>3. push(frame_checkpoints, e).len \in 1 .. push(frame_checkpoints, e).len
    BY <2>1, <2>2, Capacities
  <2> QED BY <1>4, <2>1, <2>3 DEF NewestFrame
<1>6. LogOrdered'
  BY <1>1 DEF RebuildInv, LogOrdered
<1>7. SteadyFrame'
  BY <1>1, <1>2, <1>5 DEF SteadyFrame
<1>8. ScreenLaidOver'
  <2> SUFFICES ASSUME steady' PROVE LaidOver(screen, iter(pixel_write_log), e)
    BY <1>1, <1>5 DEF ScreenLaidOver
  <2>1. /\ Len(iter(pixel_write_log)) = pixel_write_log.len
        /\ \A i \in 1 .. pixel_write_log.len : iter(pixel_write_log)[i] \in PixelWriteEntry
    BY <1>0, RingsHold
  <2>2. ASSUME NEW k \in 1 .. pixel_write_log.len
        PROVE  ~LaterThan(iter(pixel_write_log)[k], e)
    <3>1. iter(pixel_write_log)[k].era = era => iter(pixel_write_log)[k].step_number < step_counter
      BY DEF StepsInv, PixelsPast
    <3>2. iter(pixel_write_log)[k].step_number \in Nat
      BY <2>1 DEF PixelWriteEntry
    <3>3. e.era = era /\ e.step_number = step_counter + 1
      BY <1>2
    <3> QED BY <1>0, <3>1, <3>2, <3>3 DEF LaterThan
  <2>3. \A p \in Pixel : NoWrite(iter(pixel_write_log), e, p)
    BY <2>1, <2>2 DEF NoWrite
  <2>4. e.screen = screen
    BY <1>2
  <2> QED BY <2>3, <2>4 DEF LaidOver
<1> QED BY <1>6, <1>7, <1>8 DEF RebuildInv

(* Nothing recorded. *)
LEMMA NothingRecorded ==
    ASSUME pixel_write_log = NewRing(PIXEL_CAPACITY), steady = FALSE
    PROVE  RebuildInv
<1>1. pixel_write_log.len = 0
  BY Capacities, RingNew
<1> QED BY <1>1 DEF RebuildInv, LogOrdered, SteadyFrame, ScreenLaidOver

LEMMA RebuildStep == StepsInv /\ RebuildInv /\ [Next]_vars => RebuildInv'
<1> SUFFICES ASSUME StepsInv, RebuildInv, [Next]_vars PROVE RebuildInv'
  OBVIOUS
<1>0. TypeOK /\ steady \in BOOLEAN
  BY DEF StepsInv, StepsSound, TypeOK
<1>1. ASSUME NEW p \in Pixel, NEW c \in Color, PSET(p, c) PROVE RebuildInv'
  <2>1. CASE trace_recording
    BY <1>1, <2>1, LoggedPixel
  <2>2. CASE ~trace_recording
    <3>1. /\ UNCHANGED <<frame_checkpoints, pixel_write_log>> /\ era' = era
          /\ steady' => steady /\ screen' = screen
      BY <1>0, <1>1, <2>2 DEF PSET, Fetch
    <3> QED BY <3>1, QuietStep
  <2> QED BY <2>1, <2>2
<1>2. ASSUME NEW s \in Screens, FRAME(s) PROVE RebuildInv'
  <2>1. CASE trace_recording
    BY <1>2, <2>1, LoggedFrame
  <2>2. CASE ~trace_recording
    <3>1. /\ UNCHANGED <<frame_checkpoints, pixel_write_log>> /\ era' = era
          /\ steady' => steady /\ screen' = screen
      BY <1>0, <1>2, <2>2 DEF FRAME, Fetch
    <3> QED BY <3>1, QuietStep
  <2> QED BY <2>1, <2>2
<1>3. ASSUME NEW s \in Screens, Draw(s) PROVE RebuildInv'
  BY <1>0, <1>3, QuietStep DEF Draw, Fetch
<1>4. CASE Other
  BY <1>0, <1>4, QuietStep DEF Other, Fetch
<1>5. ASSUME NEW mode \in 0 .. 2, SNAP_TRACE(mode) PROVE RebuildInv'
  BY <1>0, <1>5, QuietStep DEF SNAP_TRACE
<1>6. ASSUME NEW idx \in 0 .. FRAME_CAPACITY, REPLAY(idx) PROVE RebuildInv'
  <2>1. /\ UNCHANGED <<frame_checkpoints, pixel_write_log>> /\ era' = era
        /\ steady' => steady /\ screen' = screen
    BY <1>0, <1>6 DEF REPLAY, Fetch
  <2> QED BY <2>1, QuietStep
<1>7. CASE ForkSave
  BY <1>0, <1>7, QuietStep DEF ForkSave, Fetch
<1>8. ASSUME NEW slot \in 0 .. MAX_SNAPSHOTS, ForkRestore(slot) PROVE RebuildInv'
  <2>1. /\ UNCHANGED <<frame_checkpoints, pixel_write_log>> /\ era' = era
        /\ steady' => steady /\ screen' = screen
    BY <1>0, <1>8 DEF ForkRestore, Fetch
  <2> QED BY <2>1, QuietStep
<1>9. CASE ForkClear
  BY <1>0, <1>9, QuietStep DEF ForkClear, Fetch
<1>10. CASE Reset
  <2>1. pixel_write_log' = NewRing(PIXEL_CAPACITY) /\ steady' = FALSE
    BY <1>0, <1>10, ResetIsInit DEF Reset
  <2>2. pixel_write_log'.len = 0
    BY <2>1, Capacities, RingNew
  <2> QED BY <2>1, <2>2 DEF RebuildInv, LogOrdered, SteadyFrame, ScreenLaidOver
<1>11. CASE UNCHANGED vars
  BY <1>0, <1>11, QuietStep DEF vars
<1> QED BY <1>1, <1>2, <1>3, <1>4, <1>5, <1>6, <1>7, <1>8, <1>9, <1>10, <1>11 DEF Next

(* The newest checkpoint and the pixel log together give the screen back,  *)
(* whatever was drawn, replayed or restored before that FRAME, as long as  *)
(* only recorded pixels changed the screen since and the log still holds   *)
(* them: for every size of screen, of the log and of the checkpoints.      *)
THEOREM ScreenIsRebuilt == Spec => []ScreenRebuilds
<1>1. Init => RebuildInv
  BY NothingRecorded DEF Init
<1>2. StepsInv /\ RebuildInv => ScreenRebuilds
  BY LaidOverRebuilds DEF StepsInv, StepsSound
<1> QED BY <1>1, <1>2, RebuildStep, StepsInductive, PTL DEF Spec
-----------------------------------------------------------------------------
(* The inode file system. *)

(* The children a directory may have, and the inodes, below number `next`. *)
Children(next) ==
    UNION {[S -> 1 .. next - 1] : S \in SUBSET (I!Component \ {NoName})}

Nodes(next) ==
    [itype : I!Types, parent : {I!None} \cup 1 .. next - 1, size : 0 .. MAX_FILE_SIZE,
     children : Children(next)]

(* Entry n of directory d leads to i, and is not the "." or ".." of d.     *)
Listed(ns, d, n, i) ==
    /\ I!IsDir(ns, d) /\ n \in DOMAIN ns[d].children /\ ns[d].children[n] = i
    /\ d = I!Root \/ n \notin {Dot, DotDot}

NodesTyped(ns, next) ==
    /\ next \in Nat \ {0} /\ DOMAIN ns \subseteq 1 .. next - 1
    /\ \A i \in DOMAIN ns : ns[i] \in Nodes(next)

(* Directories lead to themselves and to their parents. *)
DotsRight(ns) ==
    \A i \in DOMAIN ns \ {I!Root} : I!IsDir(ns, i) =>
        /\ {Dot, DotDot} \subseteq DOMAIN ns[i].children
        /\ ns[i].children[Dot] = i /\ ns[i].children[DotDot] = ns[i].parent

AllListed(ns) ==
    \A i \in DOMAIN ns \ {I!Root} : \E n : Listed(ns, ns[i].parent, n, i)

ListedOnce(ns) ==
    \A d, e, n, m : \A i \in DOMAIN ns :
        Listed(ns, d, n, i) => /\ ns[i].parent = d
                               /\ Listed(ns, e, m, i) => d = e /\ n = m

(* The tree, of any inodes and next number: the steps of a core dump pass  *)
(* through several.                                                        *)
Tree(ns, next) ==
    /\ NodesTyped(ns, next) /\ I!IsDir(ns, I!Root)
    /\ DotsRight(ns) /\ AllListed(ns) /\ ListedOnce(ns)

(* What a step keeps of the numbers given out before. *)
Keeps(ns, next, ms, after) ==
    /\ next <= after
    /\ \A i \in 1 .. next - 1 : i \in DOMAIN ms =>
          i \in DOMAIN ns /\ ms[i].itype = ns[i].itype /\ ms[i].parent = ns[i].parent

(* ... and none of them goes. *)
Grows(ns, next, ms, after) ==
    Keeps(ns, next, ms, after) /\ DOMAIN ns \subseteq DOMAIN ms

LEMMA ChildrenAre ==
    ASSUME NEW next \in Nat \ {0}, NEW S \in SUBSET (I!Component \ {NoName}),
           NEW f \in [S -> 1 .. next - 1]
    PROVE  f \in Children(next)
BY DEF Children

LEMMA ChildrenHave ==
    ASSUME NEW next \in Nat \ {0}, NEW f \in Children(next)
    PROVE  /\ DOMAIN f \subseteq I!Component \ {NoName}
           /\ \A n \in DOMAIN f : f[n] \in 1 .. next - 1
           /\ f \in [DOMAIN f -> 1 .. next - 1]
BY DEF Children

(* The parts of an inode. *)
LEMMA NodeFields ==
    ASSUME NEW next \in Nat \ {0}, NEW x \in Nodes(next)
    PROVE  /\ x.itype \in I!Types /\ x.parent \in {I!None} \cup 1 .. next - 1
           /\ x.size \in 0 .. MAX_FILE_SIZE /\ x.children \in Children(next)
           /\ DOMAIN x.children \subseteq I!Component \ {NoName}
           /\ \A n \in DOMAIN x.children : x.children[n] \in 1 .. next - 1
BY ChildrenHave DEF Nodes

(* More numbers, more inodes. *)
LEMMA NodesGrow ==
    ASSUME NEW next \in Nat \ {0}, NEW x \in Nodes(next)
    PROVE  x \in Nodes(next + 1)
<1>1. PICK f \in Children(next) : f = x.children
  BY NodeFields
<1>2. /\ DOMAIN f \subseteq I!Component \ {NoName}
      /\ f \in [DOMAIN f -> 1 .. next - 1]
  BY ChildrenHave
<1>3. f \in [DOMAIN f -> 1 .. (next + 1) - 1]
  BY <1>2
<1>4. next + 1 \in Nat \ {0}
  OBVIOUS
<1>5. f \in Children(next + 1)
  BY <1>2, <1>3, <1>4, ChildrenAre
<1>6. x.parent \in {I!None} \cup 1 .. (next + 1) - 1
  BY NodeFields
<1> QED BY <1>1, <1>5, <1>6 DEF Nodes

(* A new inode, whatever its type. *)
LEMMA NewNode ==
    ASSUME NEW next \in Nat \ {0}, NEW d \in 1 .. next - 1, NEW type \in I!Types
    PROVE  LET x == I!NewInode(type, next, d)
           IN  /\ x \in Nodes(next + 1)
               /\ x.itype = type /\ x.parent = d
               /\ type = "Directory" =>
                    /\ DOMAIN x.children = {Dot, DotDot}
                    /\ x.children[Dot] = next /\ x.children[DotDot] = d
<1>1. PICK f : f = IF type = "Directory"
                   THEN [n \in {Dot, DotDot} |-> IF n = Dot THEN next ELSE d]
                   ELSE [n \in {} |-> I!None]
  OBVIOUS
<1>2. I!NewInode(type, next, d) = [itype |-> type, parent |-> d, size |-> 0, children |-> f]
  BY <1>1 DEF I!NewInode
<1>3. f \in Children(next + 1)
  <2>1. PICK S \in SUBSET (I!Component \ {NoName}) :
          S = IF type = "Directory" THEN {Dot, DotDot} ELSE {}
    BY InodeFsAssumption DEF I!Component
  <2>2. f \in [S -> 1 .. (next + 1) - 1]
    BY <1>1, <2>1
  <2> QED BY <2>2, ChildrenAre
<1>4. 0 \in 0 .. MAX_FILE_SIZE /\ d \in {I!None} \cup 1 .. (next + 1) - 1
  BY InodeFsAssumption
<1>5. I!NewInode(type, next, d) \in Nodes(next + 1)
  BY <1>2, <1>3, <1>4 DEF Nodes
<1>6. type = "Directory" => /\ DOMAIN f = {Dot, DotDot}
                            /\ f[Dot] = next /\ f[DotDot] = d
  BY <1>1, InodeFsAssumption
<1> QED BY <1>2, <1>5, <1>6

(* What a directory becomes with one more entry. *)
LEMMA MoreEntries ==
    ASSUME NEW next \in Nat \ {0}, NEW x \in Nodes(next),
           NEW n \in I!Component \ {NoName}
    PROVE  LET y == I!WithEntry(x, n, next)
           IN  /\ y \in Nodes(next + 1)
               /\ y.itype = x.itype /\ y.parent = x.parent
               /\ DOMAIN y.children = DOMAIN x.children \cup {n}
               /\ \A m \in DOMAIN y.children :
                    y.children[m] = IF m = n THEN next ELSE x.children[m]
<1>1. PICK f : f = [m \in DOMAIN x.children \cup {n} |-> IF m = n THEN next ELSE x.children[m]]
  OBVIOUS
<1>2. /\ x.itype \in I!Types /\ x.parent \in {I!None} \cup 1 .. next - 1
      /\ x.size \in 0 .. MAX_FILE_SIZE
      /\ DOMAIN x.children \subseteq I!Component \ {NoName}
      /\ \A m \in DOMAIN x.children : x.children[m] \in 1 .. next - 1
  BY NodeFields
<1>3. f \in Children(next + 1)
  <2>1. PICK S \in SUBSET (I!Component \ {NoName}) : S = DOMAIN x.children \cup {n}
    BY <1>2
  <2>2. f \in [S -> 1 .. (next + 1) - 1]
    BY <1>1, <1>2, <2>1
  <2> QED BY <2>2, ChildrenAre
<1>4. x = [itype |-> x.itype, parent |-> x.parent, size |-> x.size, children |-> x.children]
  BY DEF Nodes
<1>5. I!WithEntry(x, n, next)
        = [itype |-> x.itype, parent |-> x.parent, size |-> x.size, children |-> f]
  BY <1>1, <1>4 DEF I!WithEntry
<1>6. I!WithEntry(x, n, next) \in Nodes(next + 1)
  BY <1>2, <1>3, <1>5 DEF Nodes
<1> QED BY <1>1, <1>5, <1>6

(* The inodes after one more was created: it is listed, and what was.      *)
CreatedAs(ns, next, d, n, type, ms) ==
    /\ NodesTyped(ms, next + 1)
    /\ DOMAIN ms = DOMAIN ns \cup {next} /\ next \notin DOMAIN ns
    /\ ms[next].itype = type /\ ms[next].parent = d
    /\ \A i \in DOMAIN ns : ms[i].itype = ns[i].itype /\ ms[i].parent = ns[i].parent
    /\ DotsRight(ms)
    /\ \A e, m : \A i \in DOMAIN ms :
          Listed(ms, e, m, i) <=> IF i = next THEN e = d /\ m = n ELSE Listed(ns, e, m, i)

LEMMA ListedWithNode ==
    ASSUME NEW ns, NEW next, Tree(ns, next),
           NEW d, NEW n \in I!Component, NEW type \in I!Types, I!MayCreate(ns, d, n)
    PROVE  CreatedAs(ns, next, d, n, type, I!WithNode(ns, d, n, type, next))
<1>1. /\ next \in Nat \ {0} /\ DOMAIN ns \subseteq 1 .. next - 1
      /\ \A i \in DOMAIN ns : ns[i] \in Nodes(next)
      /\ d \in DOMAIN ns /\ ns[d].itype = "Directory" /\ n # NoName
      /\ I!Entry(ns, d, n) = I!None
  BY DEF Tree, NodesTyped, I!MayCreate, I!IsDir
<1>2. n \notin DOMAIN ns[d].children
  <2>1. n \in DOMAIN ns[d].children => ns[d].children[n] \in 1 .. next - 1
    BY <1>1, NodeFields
  <2> QED BY <1>1, <2>1 DEF I!Entry, I!IsDir, I!None
<1>3. PICK ms : ms = I!WithNode(ns, d, n, type, next)
  OBVIOUS
<1>4. /\ DOMAIN ms = DOMAIN ns \cup {next} /\ next \notin DOMAIN ns /\ d # next
      /\ ms[next] = I!NewInode(type, next, d)
      /\ ms[d] = I!WithEntry(ns[d], n, next)
      /\ \A i \in DOMAIN ns \ {d} : ms[i] = ns[i]
  BY <1>1, <1>3 DEF I!WithNode
<1>5. /\ ms[next] \in Nodes(next + 1)
      /\ ms[next].itype = type /\ ms[next].parent = d
      /\ type = "Directory" =>
            /\ DOMAIN ms[next].children = {Dot, DotDot}
            /\ ms[next].children[Dot] = next /\ ms[next].children[DotDot] = d
  BY <1>1, <1>4, NewNode
<1>6. /\ ms[d] \in Nodes(next + 1)
      /\ ms[d].itype = ns[d].itype /\ ms[d].parent = ns[d].parent
      /\ DOMAIN ms[d].children = DOMAIN ns[d].children \cup {n}
      /\ \A m \in DOMAIN ms[d].children :
            ms[d].children[m] = IF m = n THEN next ELSE ns[d].children[m]
  BY <1>1, <1>4, MoreEntries
<1>7. \A i \in DOMAIN ns \ {d} : ms[i] \in Nodes(next + 1)
  BY <1>1, <1>4, NodesGrow
<1>8. NodesTyped(ms, next + 1)
  BY <1>1, <1>4, <1>5, <1>6, <1>7 DEF NodesTyped
<1>9. \A i \in DOMAIN ns : ms[i].itype = ns[i].itype /\ ms[i].parent = ns[i].parent
  BY <1>4, <1>6
<1>10. d # I!Root => n \notin {Dot, DotDot}
  BY <1>1, <1>2 DEF Tree, DotsRight, I!IsDir
<1>11. DotsRight(ms)
  <2> SUFFICES ASSUME NEW i \in DOMAIN ms \ {I!Root}, ms[i].itype = "Directory"
               PROVE  /\ {Dot, DotDot} \subseteq DOMAIN ms[i].children
                      /\ ms[i].children[Dot] = i /\ ms[i].children[DotDot] = ms[i].parent
    BY DEF DotsRight, I!IsDir
  <2>1. CASE i = next
    BY <1>5, <2>1
  <2>2. CASE i = d
    BY <1>1, <1>6, <1>10, <2>2 DEF Tree, DotsRight, I!IsDir
  <2>3. CASE i # d /\ i # next
    BY <1>4, <2>3 DEF Tree, DotsRight, I!IsDir
  <2> QED BY <2>1, <2>2, <2>3
<1>12. ASSUME NEW e, NEW m, NEW i \in DOMAIN ms
       PROVE  Listed(ms, e, m, i) <=> IF i = next THEN e = d /\ m = n ELSE Listed(ns, e, m, i)
  <2>1. \A k \in DOMAIN ns : \A q \in DOMAIN ns[k].children : ns[k].children[q] # next
    BY <1>1, NodeFields
  <2>2. CASE e = next
    <3>1. next # I!Root
      BY <1>4 DEF Tree, I!IsDir
    <3>2. ~Listed(ms, e, m, i)
      BY <1>5, <2>2, <3>1 DEF Listed, I!IsDir
    <3>3. ~Listed(ns, e, m, i) /\ e # d
      BY <1>4, <2>2 DEF Listed, I!IsDir
    <3> QED BY <3>2, <3>3
  <2>3. CASE e = d
    BY <1>1, <1>2, <1>4, <1>6, <1>10, <2>1, <2>3 DEF Listed, I!IsDir
  <2>4. CASE e # d /\ e # next
    BY <1>4, <2>1, <2>4 DEF Listed, I!IsDir
  <2> QED BY <2>2, <2>3, <2>4
<1>13. CreatedAs(ns, next, d, n, type, ms)
  BY <1>4, <1>5, <1>8, <1>9, <1>11, <1>12 DEF CreatedAs
<1> QED BY <1>3, <1>13

(* Creating an inode keeps the tree and every inode that was there.        *)
LEMMA CreateKeepsTree ==
    ASSUME NEW ns, NEW next, Tree(ns, next),
           NEW d, NEW n \in I!Component, NEW type \in I!Types, I!MayCreate(ns, d, n)
    PROVE  LET ms == I!WithNode(ns, d, n, type, next)
           IN  Tree(ms, next + 1) /\ Grows(ns, next, ms, next + 1) /\ ms[next].itype = type
               /\ next \in DOMAIN ms
<1>1. PICK ms : ms = I!WithNode(ns, d, n, type, next)
  OBVIOUS
<1>0. CreatedAs(ns, next, d, n, type, ms)
  BY <1>1, ListedWithNode
<1>2. /\ NodesTyped(ms, next + 1)
      /\ DOMAIN ms = DOMAIN ns \cup {next} /\ next \notin DOMAIN ns
      /\ ms[next].itype = type /\ ms[next].parent = d
      /\ \A i \in DOMAIN ns : ms[i].itype = ns[i].itype /\ ms[i].parent = ns[i].parent
      /\ DotsRight(ms)
  BY <1>0 DEF CreatedAs
<1>3. \A e, m : \A i \in DOMAIN ms :
        Listed(ms, e, m, i) <=> IF i = next THEN e = d /\ m = n ELSE Listed(ns, e, m, i)
  BY <1>0 DEF CreatedAs
<1>4. /\ next \in Nat \ {0} /\ DOMAIN ns \subseteq 1 .. next - 1
      /\ I!IsDir(ns, I!Root)
      /\ AllListed(ns) /\ ListedOnce(ns)
  BY DEF Tree, NodesTyped
<1>5. I!IsDir(ms, I!Root)
  BY <1>2, <1>4 DEF I!IsDir
<1>6. AllListed(ms)
  <2> SUFFICES ASSUME NEW i \in DOMAIN ms \ {I!Root} PROVE \E m : Listed(ms, ms[i].parent, m, i)
    BY DEF AllListed
  <2>1. CASE i = next
    BY <1>2, <1>3, <2>1
  <2>2. CASE i # next
    <3>1. PICK m : Listed(ns, ns[i].parent, m, i)
      BY <1>2, <1>4, <2>2 DEF AllListed
    <3>2. ms[i].parent = ns[i].parent
      BY <1>2, <2>2
    <3>3. Listed(ms, ms[i].parent, m, i)
      BY <1>3, <2>2, <3>1, <3>2
    <3> QED BY <3>3
  <2> QED BY <2>1, <2>2
<1>7. ListedOnce(ms)
  <2> SUFFICES ASSUME NEW e, NEW f, NEW m, NEW q, NEW i \in DOMAIN ms, Listed(ms, e, m, i)
               PROVE  /\ ms[i].parent = e
                      /\ Listed(ms, f, q, i) => e = f /\ m = q
    BY DEF ListedOnce
  <2>1. CASE i = next
    BY <1>2, <1>3, <2>1
  <2>2. CASE i # next
    <3>1. i \in DOMAIN ns /\ Listed(ns, e, m, i) /\ ms[i].parent = ns[i].parent
      BY <1>2, <1>3, <2>2
    <3>2. Listed(ms, f, q, i) => Listed(ns, f, q, i)
      BY <1>3, <2>2
    <3> QED BY <1>4, <3>1, <3>2 DEF ListedOnce
  <2> QED BY <2>1, <2>2
<1>8. Grows(ns, next, ms, next + 1)
  BY <1>2, <1>4 DEF Grows, Keeps
<1>9. Tree(ms, next + 1)
  BY <1>2, <1>5, <1>6, <1>7 DEF Tree
<1> QED BY <1>1, <1>2, <1>8, <1>9

(* What a directory becomes without an entry. *)
LEMMA FewerEntries ==
    ASSUME NEW next \in Nat \ {0}, NEW x \in Nodes(next), NEW n
    PROVE  LET y == I!WithoutEntry(x, n)
           IN  /\ y \in Nodes(next)
               /\ y.itype = x.itype /\ y.parent = x.parent
               /\ DOMAIN y.children = DOMAIN x.children \ {n}
               /\ \A m \in DOMAIN y.children : y.children[m] = x.children[m]
<1>1. PICK f : f = [m \in DOMAIN x.children \ {n} |-> x.children[m]]
  OBVIOUS
<1>2. /\ x.itype \in I!Types /\ x.parent \in {I!None} \cup 1 .. next - 1
      /\ x.size \in 0 .. MAX_FILE_SIZE
      /\ DOMAIN x.children \subseteq I!Component \ {NoName}
      /\ \A m \in DOMAIN x.children : x.children[m] \in 1 .. next - 1
  BY NodeFields
<1>3. f \in Children(next)
  <2>1. PICK S \in SUBSET (I!Component \ {NoName}) : S = DOMAIN x.children \ {n}
    BY <1>2
  <2>2. f \in [S -> 1 .. next - 1]
    BY <1>1, <1>2, <2>1
  <2> QED BY <2>2, ChildrenAre
<1>4. x = [itype |-> x.itype, parent |-> x.parent, size |-> x.size, children |-> x.children]
  BY DEF Nodes
<1>5. I!WithoutEntry(x, n)
        = [itype |-> x.itype, parent |-> x.parent, size |-> x.size, children |-> f]
  BY <1>1, <1>4 DEF I!WithoutEntry
<1>6. I!WithoutEntry(x, n) \in Nodes(next)
  BY <1>2, <1>3, <1>5 DEF Nodes
<1> QED BY <1>1, <1>5, <1>6

(* The inode that a path leads to and may be removed.                      *)
Removable(ns, d, n, ino) ==
    /\ ino = I!resolve(ns, d, n) /\ ino \in DOMAIN ns \ {I!Root}
    /\ ns[ino].itype = "Directory" => I!UserChildren(ns, ino) = {}

(* It is nobody's parent, and the path leads to it by its own entry, or    *)
(* from inside it.                                                         *)
LEMMA RemovableLeaf ==
    ASSUME NEW ns, NEW next, Tree(ns, next), NEW d, NEW n, NEW ino, Removable(ns, d, n, ino)
    PROVE  /\ \A i \in DOMAIN ns \ {I!Root} : ns[i].parent # ino
           /\ \A m, i : ~Listed(ns, ino, m, i)
           /\ d = ino \/ Listed(ns, d, n, ino)
<1>1. \A m, i : ~Listed(ns, ino, m, i)
  BY DEF Removable, Listed, I!IsDir, I!UserChildren
<1>2. \A i \in DOMAIN ns \ {I!Root} : ns[i].parent # ino
  BY <1>1 DEF Tree, AllListed
<1>3. d = ino \/ Listed(ns, d, n, ino)
  <2> SUFFICES ASSUME d # ino PROVE Listed(ns, d, n, ino)
    OBVIOUS
  <2>1. ino # I!None
    BY DEF Removable, Tree, NodesTyped, I!None
  <2>2. I!IsDir(ns, d) /\ n \in DOMAIN ns[d].children /\ ns[d].children[n] = ino
    BY <2>1 DEF Removable, I!resolve, I!Entry
  <2>3. d # I!Root => n \notin {Dot, DotDot}
    <3> SUFFICES ASSUME d # I!Root, n \in {Dot, DotDot} PROVE FALSE
      OBVIOUS
    <3>1. ns[d].children[Dot] = d /\ ns[d].children[DotDot] = ns[d].parent
      BY <2>2 DEF Tree, DotsRight, I!IsDir
    <3>2. ns[d].parent = ino /\ d \in DOMAIN ns \ {I!Root}
      BY <2>2, <3>1 DEF I!IsDir
    <3> QED BY <1>2, <3>2
  <2> QED BY <2>2, <2>3 DEF Listed
<1> QED BY <1>1, <1>2, <1>3

(* The inodes after one was removed: it is no longer listed, the others are. *)
RemovedAs(ns, next, ino, ms) ==
    /\ NodesTyped(ms, next)
    /\ DOMAIN ms = DOMAIN ns \ {ino}
    /\ \A i \in DOMAIN ms : ms[i].itype = ns[i].itype /\ ms[i].parent = ns[i].parent
    /\ DotsRight(ms)
    /\ \A e, m : \A i \in DOMAIN ms : Listed(ms, e, m, i) <=> Listed(ns, e, m, i)

LEMMA ListedWithout ==
    ASSUME NEW ns, NEW next, Tree(ns, next), NEW d, NEW n, NEW ino, Removable(ns, d, n, ino)
    PROVE  RemovedAs(ns, next, ino, I!Without(ns, d, n, ino))
<1>1. /\ next \in Nat \ {0} /\ DOMAIN ns \subseteq 1 .. next - 1
      /\ \A i \in DOMAIN ns : ns[i] \in Nodes(next)
      /\ ino \in DOMAIN ns \ {I!Root}
  BY DEF Tree, NodesTyped, Removable
<1>2. \A m, i : ~Listed(ns, ino, m, i)
  BY RemovableLeaf
<1>3. d = ino \/ Listed(ns, d, n, ino)
  BY RemovableLeaf
<1>4. PICK ms : ms = I!Without(ns, d, n, ino)
  OBVIOUS
<1>5. /\ DOMAIN ms = DOMAIN ns \ {ino}
      /\ \A i \in DOMAIN ms \ {d} : ms[i] = ns[i]
      /\ d \in DOMAIN ms => ms[d] = I!WithoutEntry(ns[d], n)
  BY <1>4 DEF I!Without
<1>6. ASSUME d \in DOMAIN ms
      PROVE  /\ ms[d] \in Nodes(next)
             /\ ms[d].itype = ns[d].itype /\ ms[d].parent = ns[d].parent
             /\ DOMAIN ms[d].children = DOMAIN ns[d].children \ {n}
             /\ \A m \in DOMAIN ms[d].children : ms[d].children[m] = ns[d].children[m]
             /\ Listed(ns, d, n, ino)
  BY <1>1, <1>3, <1>5, <1>6, FewerEntries
<1>7. NodesTyped(ms, next)
  BY <1>1, <1>5, <1>6 DEF NodesTyped
<1>8. \A i \in DOMAIN ms : ms[i].itype = ns[i].itype /\ ms[i].parent = ns[i].parent
  BY <1>5, <1>6
<1>9. DotsRight(ms)
  <2> SUFFICES ASSUME NEW i \in DOMAIN ms \ {I!Root}, ms[i].itype = "Directory"
               PROVE  /\ {Dot, DotDot} \subseteq DOMAIN ms[i].children
                      /\ ms[i].children[Dot] = i /\ ms[i].children[DotDot] = ms[i].parent
    BY DEF DotsRight, I!IsDir
  <2>1. CASE i = d
    BY <1>5, <1>6, <2>1 DEF Tree, DotsRight, I!IsDir, Listed
  <2>2. CASE i # d
    BY <1>5, <2>2 DEF Tree, DotsRight, I!IsDir
  <2> QED BY <2>1, <2>2
<1>10. ASSUME NEW e, NEW m, NEW i \in DOMAIN ms
       PROVE  Listed(ms, e, m, i) <=> Listed(ns, e, m, i)
  <2>1. CASE e = ino
    BY <1>2, <1>5, <2>1 DEF Listed, I!IsDir
  <2>2. CASE e = d /\ e # ino
    BY <1>5, <1>6, <2>2 DEF Listed, I!IsDir
  <2>3. CASE e # d /\ e # ino
    BY <1>5, <2>3 DEF Listed, I!IsDir
  <2> QED BY <2>1, <2>2, <2>3
<1>11. RemovedAs(ns, next, ino, ms)
  BY <1>5, <1>7, <1>8, <1>9, <1>10 DEF RemovedAs
<1> QED BY <1>4, <1>11

(* Removing an inode keeps the tree and every other inode.                 *)
LEMMA UnlinkKeepsTree ==
    ASSUME NEW ns, NEW next, Tree(ns, next), NEW d, NEW n, NEW ino, Removable(ns, d, n, ino)
    PROVE  LET ms == I!Without(ns, d, n, ino)
           IN  /\ Tree(ms, next) /\ Keeps(ns, next, ms, next)
               /\ \A i : I!IsDir(ns, i) /\ i # ino => I!IsDir(ms, i)
<1>1. PICK ms : ms = I!Without(ns, d, n, ino)
  OBVIOUS
<1>2. RemovedAs(ns, next, ino, ms)
  BY <1>1, ListedWithout
<1>3. /\ NodesTyped(ms, next)
      /\ DOMAIN ms = DOMAIN ns \ {ino}
      /\ \A i \in DOMAIN ms : ms[i].itype = ns[i].itype /\ ms[i].parent = ns[i].parent
      /\ DotsRight(ms)
  BY <1>2 DEF RemovedAs
<1>4. \A e, m : \A i \in DOMAIN ms : Listed(ms, e, m, i) <=> Listed(ns, e, m, i)
  BY <1>2 DEF RemovedAs
<1>5. /\ next \in Nat \ {0} /\ I!IsDir(ns, I!Root) /\ ino # I!Root
      /\ AllListed(ns) /\ ListedOnce(ns)
  BY DEF Tree, NodesTyped, Removable
<1>6. \A i : I!IsDir(ns, i) /\ i # ino => I!IsDir(ms, i)
  BY <1>3 DEF I!IsDir
<1>7. AllListed(ms)
  <2> SUFFICES ASSUME NEW i \in DOMAIN ms \ {I!Root} PROVE \E m : Listed(ms, ms[i].parent, m, i)
    BY DEF AllListed
  <2>1. PICK m : Listed(ns, ns[i].parent, m, i)
    BY <1>3, <1>5 DEF AllListed
  <2>2. ms[i].parent = ns[i].parent
    BY <1>3
  <2>3. Listed(ms, ms[i].parent, m, i)
    BY <1>4, <2>1, <2>2
  <2> QED BY <2>3
<1>8. ListedOnce(ms)
  <2> SUFFICES ASSUME NEW e, NEW f, NEW m, NEW q, NEW i \in DOMAIN ms, Listed(ms, e, m, i)
               PROVE  /\ ms[i].parent = e
                      /\ Listed(ms, f, q, i) => e = f /\ m = q
    BY DEF ListedOnce
  <2>1. i \in DOMAIN ns /\ Listed(ns, e, m, i) /\ ms[i].parent = ns[i].parent
    BY <1>3, <1>4
  <2>2. Listed(ms, f, q, i) => Listed(ns, f, q, i)
    BY <1>4
  <2> QED BY <1>5, <2>1, <2>2 DEF ListedOnce
<1>9. Keeps(ns, next, ms, next)
  BY <1>3, <1>5 DEF Keeps
<1>10. Tree(ms, next)
  BY <1>3, <1>5, <1>6, <1>7, <1>8 DEF Tree
<1> QED BY <1>1, <1>6, <1>9, <1>10

(* Writing and truncating touch nothing but the size.                      *)
LEMMA ResizeKeepsTree ==
    ASSUME NEW ns, NEW next, Tree(ns, next), NEW ino \in DOMAIN ns, NEW size \in 0 .. MAX_FILE_SIZE
    PROVE  LET ms == [ns EXCEPT ![ino].size = size]
           IN  Tree(ms, next) /\ Grows(ns, next, ms, next) /\ \A i : I!IsDir(ns, i) => I!IsDir(ms, i)
<1>1. PICK ms : ms = [ns EXCEPT ![ino].size = size]
  OBVIOUS
<1>2. /\ next \in Nat \ {0} /\ DOMAIN ns \subseteq 1 .. next - 1
      /\ \A i \in DOMAIN ns : ns[i] \in Nodes(next)
  BY DEF Tree, NodesTyped
<1>3. /\ DOMAIN ms = DOMAIN ns
      /\ \A i \in DOMAIN ns \ {ino} : ms[i] = ns[i]
      /\ ms[ino] = [ns[ino] EXCEPT !.size = size]
  BY <1>1
<1>4. ms[ino] \in Nodes(next) /\ \A i \in DOMAIN ns : /\ ms[i].itype = ns[i].itype
                                                      /\ ms[i].parent = ns[i].parent
                                                      /\ ms[i].children = ns[i].children
  BY <1>2, <1>3 DEF Nodes
<1>5. NodesTyped(ms, next)
  BY <1>2, <1>3, <1>4 DEF NodesTyped
<1>6. \A i : I!IsDir(ns, i) <=> I!IsDir(ms, i)
  BY <1>3, <1>4 DEF I!IsDir
<1>7. DotsRight(ms)
  BY <1>3, <1>4, <1>6 DEF Tree, DotsRight
<1>8. \A e, m, i : Listed(ms, e, m, i) <=> Listed(ns, e, m, i)
  BY <1>3, <1>4, <1>6 DEF Listed, I!IsDir
<1>9. AllListed(ms) /\ ListedOnce(ms)
  BY <1>3, <1>4, <1>8 DEF Tree, AllListed, ListedOnce
<1>10. Grows(ns, next, ms, next)
  BY <1>2, <1>3, <1>4 DEF Grows, Keeps
<1>11. Tree(ms, next)
  BY <1>5, <1>6, <1>7, <1>9 DEF Tree
<1> QED BY <1>1, <1>6, <1>10, <1>11

(* The stages of a core dump. *)
Stage(s) ==
    /\ s = [ns |-> s.ns, next |-> s.next, ino |-> s.ino]
    /\ Tree(s.ns, s.next)
    /\ s.ino = I!None \/ s.ino \in DOMAIN s.ns

LEMMA GrowsOn ==
    ASSUME NEW ns, NEW ms, NEW us, NEW a \in Nat, NEW b \in Nat, NEW c \in Nat,
           Grows(ns, a, ms, b), Grows(ms, b, us, c)
    PROVE  Grows(ns, a, us, c)
<1>1. a <= b /\ b <= c /\ a <= c /\ DOMAIN ns \subseteq DOMAIN us
  BY DEF Grows, Keeps
<1>2. ASSUME NEW i \in 1 .. a - 1, i \in DOMAIN us
      PROVE  i \in DOMAIN ns /\ us[i].itype = ns[i].itype /\ us[i].parent = ns[i].parent
  <2>1. i \in 1 .. b - 1
    BY <1>1
  <2>2. i \in DOMAIN ms /\ us[i].itype = ms[i].itype /\ us[i].parent = ms[i].parent
    BY <1>2, <2>1 DEF Grows, Keeps
  <2> QED BY <2>2 DEF Grows, Keeps
<1> QED BY <1>1, <1>2 DEF Grows, Keeps


LEMMA AddedStage ==
    ASSUME NEW s, Stage(s), NEW d, NEW n \in I!Component, NEW type \in I!Types
    PROVE  LET t == I!Added(s, d, n, type)
           IN  Stage(t) /\ Grows(s.ns, s.next, t.ns, t.next)
<1>1. PICK t : t = I!Added(s, d, n, type)
  OBVIOUS
<1>2. PICK ns, next : ns = s.ns /\ next = s.next
  OBVIOUS
<1>3. Tree(ns, next) /\ next \in Nat \ {0}
  BY <1>2 DEF Stage, Tree, NodesTyped
<1>4. CASE I!MayCreate(ns, d, n)
  <2>1. PICK ms : ms = I!WithNode(ns, d, n, type, next)
    OBVIOUS
  <2>2. t = [ns |-> ms, next |-> next + 1, ino |-> next]
    BY <1>1, <1>2, <1>4, <2>1 DEF I!Added, I!NewIno, I!alloc_ino
  <2>3. Tree(ms, next + 1) /\ Grows(ns, next, ms, next + 1) /\ next \in DOMAIN ms
    BY <1>3, <1>4, <2>1, CreateKeepsTree
  <2> QED BY <1>1, <1>2, <2>2, <2>3 DEF Stage
<1>5. CASE ~I!MayCreate(ns, d, n)
  <2>1. t = [ns |-> ns, next |-> next, ino |-> I!None]
    <3>1. s = [ns |-> ns, next |-> next, ino |-> s.ino]
      BY <1>2 DEF Stage
    <3>2. t = [s EXCEPT !.ino = I!None]
      BY <1>1, <1>2, <1>5 DEF I!Added
    <3> QED BY <3>1, <3>2
  <2>2. Grows(ns, next, ns, next)
    BY <1>3 DEF Grows, Keeps
  <2> QED BY <1>1, <1>2, <1>3, <2>1, <2>2 DEF Stage
<1> QED BY <1>4, <1>5

TreeInv == Tree(inodes, next_ino) /\ I!IsDir(inodes, cwd)

LEMMA DumpKeepsTree ==
    ASSUME TreeInv, NEW pid \in DOMAIN Dump, I!core_dump(pid)
    PROVE  TreeInv' /\ Keeps(inodes, next_ino, inodes', next_ino')
<1> DEFINE s0 == [ns |-> inodes, next |-> next_ino, ino |-> I!None]
           s1 == IF I!Entry(s0.ns, I!Root, Var) = I!None
                 THEN I!Added(s0, I!Root, Var, "Directory") ELSE s0
           dir == I!Entry(s1.ns, I!Root, Var)
           s2 == IF I!Entry(s1.ns, dir, Core) = I!None
                 THEN I!Added(s1, dir, Core, "Directory") ELSE s1
           s3 == I!Added(s2, I!Entry(s2.ns, dir, Core), Dump[pid], "Regular")
<1>1. /\ inodes' = IF s3.ino = I!None THEN s2.ns
                   ELSE [s3.ns EXCEPT ![s3.ino].size = I!Least(1, MAX_FILE_SIZE)]
      /\ next_ino' = IF s3.ino = I!None THEN s2.next ELSE s3.next
      /\ cwd' = cwd
  BY Zenon DEF I!core_dump
<1>2. s0 = [ns |-> inodes, next |-> next_ino, ino |-> I!None]
  OBVIOUS
<1> HIDE DEF s0
<1>3. s1 = IF I!Entry(s0.ns, I!Root, Var) = I!None
           THEN I!Added(s0, I!Root, Var, "Directory") ELSE s0
  OBVIOUS
<1> HIDE DEF s1
<1>4. s2 = IF I!Entry(s1.ns, dir, Core) = I!None
           THEN I!Added(s1, dir, Core, "Directory") ELSE s1
  OBVIOUS
<1> HIDE DEF s2
<1>5. s3 = I!Added(s2, I!Entry(s2.ns, dir, Core), Dump[pid], "Regular")
  OBVIOUS
<1> HIDE DEF s3, dir
<1>6. /\ Var \in I!Component /\ Core \in I!Component /\ Dump[pid] \in I!Component
      /\ "Directory" \in I!Types /\ "Regular" \in I!Types
  BY InodeFsAssumption DEF I!Component, I!Types
<1>7. Stage(s0)
  BY <1>2 DEF Stage, TreeInv
<1>8. Stage(s1) /\ Grows(s0.ns, s0.next, s1.ns, s1.next)
  <2>1. Grows(s0.ns, s0.next, s0.ns, s0.next)
    BY <1>7 DEF Stage, Tree, NodesTyped, Grows, Keeps
  <2> QED BY <1>3, <1>6, <1>7, <2>1, AddedStage
<1>9. Stage(s2) /\ Grows(s1.ns, s1.next, s2.ns, s2.next)
  <2>1. Grows(s1.ns, s1.next, s1.ns, s1.next)
    BY <1>8 DEF Stage, Tree, NodesTyped, Grows, Keeps
  <2> QED BY <1>4, <1>6, <1>8, <2>1, AddedStage
<1>10. Stage(s3) /\ Grows(s2.ns, s2.next, s3.ns, s3.next)
  BY <1>5, <1>6, <1>9, AddedStage
<1>11. s0.next \in Nat /\ s1.next \in Nat /\ s2.next \in Nat /\ s3.next \in Nat
  BY <1>7, <1>8, <1>9, <1>10 DEF Stage, Tree, NodesTyped
<1>12. Grows(s0.ns, s0.next, s2.ns, s2.next)
  BY <1>8, <1>9, <1>11, GrowsOn
<1>13. Grows(s0.ns, s0.next, s3.ns, s3.next)
  BY <1>10, <1>11, <1>12, GrowsOn
<1>14. Tree(inodes', next_ino') /\ Grows(inodes, next_ino, inodes', next_ino')
  <2>1. CASE s3.ino = I!None
    BY <1>2, <1>1, <1>9, <1>12, <2>1 DEF Stage
  <2>2. CASE s3.ino # I!None
    <3>1. PICK ino \in DOMAIN s3.ns : ino = s3.ino
      BY <1>10, <2>2 DEF Stage
    <3>2. PICK size \in 0 .. MAX_FILE_SIZE : size = I!Least(1, MAX_FILE_SIZE)
      BY InodeFsAssumption DEF I!Least
    <3>3. inodes' = [s3.ns EXCEPT ![ino].size = size] /\ next_ino' = s3.next
      BY <1>1, <2>2, <3>1, <3>2
    <3>4. Tree(s3.ns, s3.next)
      BY <1>10 DEF Stage
    <3>5. Tree(inodes', next_ino') /\ Grows(s3.ns, s3.next, inodes', next_ino')
      BY <3>3, <3>4, ResizeKeepsTree
    <3>6. Grows(s0.ns, s0.next, inodes', next_ino')
      BY <1>11, <1>13, <3>3, <3>5, GrowsOn
    <3> QED BY <1>2, <3>5, <3>6
  <2> QED BY <2>1, <2>2
<1>15. I!IsDir(inodes', cwd')
  <2>1. cwd \in DOMAIN inodes /\ inodes[cwd].itype = "Directory" /\ DOMAIN inodes \subseteq 1 .. next_ino - 1
    BY DEF TreeInv, Tree, NodesTyped, I!IsDir
  <2> QED BY <1>1, <1>14, <2>1 DEF Grows, Keeps, I!IsDir
<1> QED BY <1>14, <1>15 DEF TreeInv, Grows

LEMMA TreeStart == I!Init => TreeInv
<1> SUFFICES ASSUME I!Init PROVE TreeInv
  OBVIOUS
<1>1. PICK x : x = [itype |-> "Directory", parent |-> I!None, size |-> 0,
                    children |-> [n \in {} |-> I!None]]
  OBVIOUS
<1>2. inodes = [i \in {I!Root} |-> x] /\ next_ino = 2 /\ cwd = I!Root
  <2>1. PICK g : g = [n \in {Dot, DotDot} |-> IF n = Dot THEN I!Root ELSE I!None]
    OBVIOUS
  <2>2. I!NewInode("Directory", I!Root, I!None)
          = [itype |-> "Directory", parent |-> I!None, size |-> 0, children |-> g]
    BY <2>1 DEF I!NewInode
  <2>3. [I!NewInode("Directory", I!Root, I!None) EXCEPT !.children = [n \in {} |-> I!None]] = x
    BY <1>1, <2>2
  <2>4. inodes = [i \in {I!Root} |-> x]
    BY <2>3 DEF I!Init
  <2> QED BY <2>4 DEF I!Init, I!Root
<1>3. x \in Nodes(2)
  <2>1. PICK f : f = [n \in {} |-> I!None]
    OBVIOUS
  <2>2. PICK S \in SUBSET (I!Component \ {NoName}) : S = {}
    OBVIOUS
  <2>3. f \in Children(2)
    <3>1. PICK next \in Nat \ {0} : next = 2
      OBVIOUS
    <3>2. f \in [S -> 1 .. next - 1]
      BY <2>1, <2>2
    <3> QED BY <3>1, <3>2, ChildrenAre
  <2>4. 0 \in 0 .. MAX_FILE_SIZE
    BY InodeFsAssumption
  <2> QED BY <1>1, <2>1, <2>3, <2>4 DEF Nodes, I!Types
<1>4. DOMAIN inodes = {I!Root} /\ I!Root = 1 /\ inodes[I!Root] = x
      /\ x.itype = "Directory" /\ x.children = [n \in {} |-> I!None]
  BY <1>1, <1>2 DEF I!Root
<1>5. NodesTyped(inodes, next_ino)
  BY <1>2, <1>3, <1>4 DEF NodesTyped
<1>6. I!IsDir(inodes, I!Root)
  BY <1>4 DEF I!IsDir
<1>7. DotsRight(inodes) /\ AllListed(inodes)
  BY <1>4 DEF DotsRight, AllListed
<1>8. ListedOnce(inodes)
  <2>1. \A d, n, i : ~Listed(inodes, d, n, i)
    BY <1>4 DEF Listed, I!IsDir
  <2> QED BY <2>1 DEF ListedOnce
<1> QED BY <1>2, <1>5, <1>6, <1>7, <1>8 DEF TreeInv, Tree

LEMMA TreeStep ==
    ASSUME TreeInv, I!Next
    PROVE  TreeInv' /\ Keeps(inodes, next_ino, inodes', next_ino')
<1>0. Tree(inodes, next_ino) /\ I!IsDir(inodes, cwd)
      /\ next_ino \in Nat \ {0} /\ DOMAIN inodes \subseteq 1 .. next_ino - 1
      /\ \A i \in DOMAIN inodes : inodes[i] \in Nodes(next_ino)
  BY DEF TreeInv, Tree, NodesTyped
<1>1. ASSUME NEW d, NEW n \in I!Component, NEW type \in I!Types, I!Create(d, n, type)
      PROVE  TreeInv' /\ Keeps(inodes, next_ino, inodes', next_ino')
  <2>1. /\ I!MayCreate(inodes, d, n)
        /\ inodes' = I!WithNode(inodes, d, n, type, next_ino)
        /\ next_ino' = next_ino + 1 /\ cwd' = cwd
    BY <1>1 DEF I!Create, I!NewIno, I!alloc_ino
  <2>2. Tree(inodes', next_ino') /\ Grows(inodes, next_ino, inodes', next_ino')
    BY <1>0, <2>1, CreateKeepsTree
  <2>3. I!IsDir(inodes', cwd')
    BY <1>0, <2>1, <2>2 DEF Grows, Keeps, I!IsDir
  <2> QED BY <2>2, <2>3 DEF TreeInv, Grows
<1>2. ASSUME NEW d, NEW n \in I!Component, I!unlink(d, n)
      PROVE  TreeInv' /\ Keeps(inodes, next_ino, inodes', next_ino')
  <2>1. PICK ino : ino = I!resolve(inodes, d, n)
    OBVIOUS
  <2>2. /\ Removable(inodes, d, n, ino)
        /\ inodes' = I!Without(inodes, d, n, ino)
        /\ cwd' = (IF cwd = ino THEN I!Root ELSE cwd)
        /\ next_ino' = next_ino
    BY <1>2, <2>1 DEF I!unlink, Removable, I!CwdAfter
  <2>3. /\ Tree(inodes', next_ino') /\ Keeps(inodes, next_ino, inodes', next_ino')
        /\ \A i : I!IsDir(inodes, i) /\ i # ino => I!IsDir(inodes', i)
    BY <1>0, <2>2, UnlinkKeepsTree
  <2>4. I!IsDir(inodes', cwd')
    BY <1>0, <2>2, <2>3 DEF Tree
  <2> QED BY <2>3, <2>4 DEF TreeInv
<1>3. ASSUME NEW d, NEW n \in I!Component, I!chdir(d, n)
      PROVE  TreeInv' /\ Keeps(inodes, next_ino, inodes', next_ino')
  BY <1>0, <1>3 DEF I!chdir, TreeInv, Keeps
<1>4. ASSUME NEW ino \in DOMAIN inodes, NEW size \in 0 .. MAX_FILE_SIZE,
             inodes' = [inodes EXCEPT ![ino].size = size], UNCHANGED <<next_ino, cwd>>
      PROVE  TreeInv' /\ Keeps(inodes, next_ino, inodes', next_ino')
  <2>1. /\ Tree(inodes', next_ino') /\ Grows(inodes, next_ino, inodes', next_ino')
        /\ \A i : I!IsDir(inodes, i) => I!IsDir(inodes', i)
    BY <1>0, <1>4, ResizeKeepsTree
  <2> QED BY <1>0, <1>4, <2>1 DEF TreeInv, Grows
<1>5. ASSUME NEW ino, NEW offset \in Sizes, NEW len \in Sizes, I!write_inode(ino, offset, len)
      PROVE  TreeInv' /\ Keeps(inodes, next_ino, inodes', next_ino')
  <2>1. ino \in DOMAIN inodes /\ inodes[ino].size \in 0 .. MAX_FILE_SIZE
    BY <1>0, <1>5, NodeFields DEF I!write_inode
  <2>2. PICK size : size = IF offset >= MAX_FILE_SIZE THEN inodes[ino].size
                           ELSE I!SizeAfterWrite(inodes[ino].size, offset, len)
    OBVIOUS
  <2>3. size \in 0 .. MAX_FILE_SIZE
    BY <2>1, <2>2, InodeFsAssumption DEF I!SizeAfterWrite, I!Least, I!Greatest
  <2>4. inodes' = [inodes EXCEPT ![ino].size = size] /\ UNCHANGED <<next_ino, cwd>>
    BY <1>5, <2>2 DEF I!write_inode
  <2> QED BY <1>4, <2>1, <2>3, <2>4
<1>6. ASSUME NEW ino, NEW size \in Sizes, I!truncate(ino, size)
      PROVE  TreeInv' /\ Keeps(inodes, next_ino, inodes', next_ino')
  <2>1. ino \in DOMAIN inodes /\ inodes[ino].size \in 0 .. MAX_FILE_SIZE
    BY <1>0, <1>6, NodeFields DEF I!truncate
  <2>2. I!Least(inodes[ino].size, size) \in 0 .. MAX_FILE_SIZE
    BY <2>1, InodeFsAssumption DEF I!Least
  <2>3. inodes' = [inodes EXCEPT ![ino].size = I!Least(inodes[ino].size, size)]
        /\ UNCHANGED <<next_ino, cwd>>
    BY <1>6 DEF I!truncate
  <2> QED BY <1>4, <2>1, <2>2, <2>3
<1>7. ASSUME NEW pid \in DOMAIN Dump, I!core_dump(pid)
      PROVE  TreeInv' /\ Keeps(inodes, next_ino, inodes', next_ino')
  BY <1>7, DumpKeepsTree
<1>8. ASSUME NEW d, NEW n \in I!Component, I!mkdir(d, n) \/ I!create_file(d, n)
      PROVE  TreeInv' /\ Keeps(inodes, next_ino, inodes', next_ino')
  BY <1>1, <1>8 DEF I!mkdir, I!create_file, I!Types
<1> QED BY <1>2, <1>3, <1>5, <1>6, <1>7, <1>8 DEF I!Next

LEMMA TreeInductive == Vm => []TreeInv
<1>1. VmInit => TreeInv
  BY TreeStart DEF VmInit
<1>2. TreeInv /\ [VmNext]_<<vars, treeVars, part>> => TreeInv'
  <2> SUFFICES ASSUME TreeInv, [VmNext]_<<vars, treeVars, part>> PROVE TreeInv'
    OBVIOUS
  <2>1. CASE I!Next
    BY <2>1, TreeStep
  <2>2. CASE UNCHANGED treeVars
    BY <2>2 DEF treeVars, TreeInv
  <2> QED BY <2>1, <2>2 DEF VmNext
<1> QED BY <1>1, <1>2, PTL DEF Vm

(* However directories and files come and go, through whatever paths: the  *)
(* inodes are a tree, each listed once in its parent, with the working     *)
(* directory in it.  For all names and sizes, and any number of inodes.    *)
THEOREM TreeIsSound == Vm => []TreeSound
<1>1. TreeInv => TreeSound
  <2> SUFFICES ASSUME TreeInv PROVE TreeSound
    OBVIOUS
  <2>1. Tree(inodes, next_ino) /\ I!IsDir(inodes, cwd)
    BY DEF TreeInv
  <2>2. I!TypeOK
    <3>1. I!Inode = Nodes(next_ino) /\ I!Ino = 1 .. next_ino - 1
      BY Zenon DEF I!Inode, I!Ino, Nodes, Children
    <3> QED BY <2>1, <3>1 DEF Tree, NodesTyped, I!TypeOK, I!IsDir
  <2>3. I!InTree
    BY <2>1 DEF Tree, AllListed, Listed, I!InTree, I!UserNames
  <2>4. I!OneName
    <3> SUFFICES ASSUME NEW d \in DOMAIN inodes, NEW e \in DOMAIN inodes,
                        I!IsDir(inodes, d), I!IsDir(inodes, e),
                        NEW n \in I!UserNames(d), NEW m \in I!UserNames(e),
                        inodes[d].children[n] \in DOMAIN inodes
                 PROVE  /\ inodes[inodes[d].children[n]].parent = d
                        /\ inodes[e].children[m] = inodes[d].children[n] => d = e /\ n = m
      BY DEF I!OneName
    <3>1. PICK i \in DOMAIN inodes : i = inodes[d].children[n]
      OBVIOUS
    <3>2. Listed(inodes, d, n, i)
      BY <3>1 DEF Listed, I!UserNames
    <3>3. inodes[e].children[m] = i => Listed(inodes, e, m, i)
      BY DEF Listed, I!UserNames
    <3> QED BY <2>1, <3>1, <3>2, <3>3 DEF Tree, ListedOnce
  <2> QED BY <2>1, <2>2, <2>3, <2>4 DEF TreeSound, I!TreeSound, I!CwdExists
<1> QED BY <1>1, TreeInductive, PTL

(* A number that was given out names the inode it was given to for as long *)
(* as that exists, and none later.                                         *)
THEOREM NumbersAreKept == Vm => NumbersStay
<1>1. TreeInv /\ [VmNext]_<<vars, treeVars, part>>
        => [\A i \in I!Ino \cap DOMAIN inodes' :
              /\ i \in DOMAIN inodes
              /\ inodes'[i].itype = inodes[i].itype
              /\ inodes'[i].parent = inodes[i].parent]_(I!vars)
  <2> SUFFICES ASSUME TreeInv, [VmNext]_<<vars, treeVars, part>>
               PROVE  [\A i \in I!Ino \cap DOMAIN inodes' :
                         /\ i \in DOMAIN inodes
                         /\ inodes'[i].itype = inodes[i].itype
                         /\ inodes'[i].parent = inodes[i].parent]_(I!vars)
    OBVIOUS
  <2>1. CASE I!Next
    BY <2>1, TreeStep DEF Keeps, I!Ino
  <2>2. CASE UNCHANGED treeVars
    BY <2>2 DEF treeVars, I!vars
  <2> QED BY <2>1, <2>2 DEF VmNext
<1> QED BY <1>1, TreeInductive, PTL DEF Vm, NumbersStay, I!NumbersStay
=============================================================================
