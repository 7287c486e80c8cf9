----------------------------- MODULE PipeProofs -----------------------------
(***************************************************************************)
(* For every capacity and every set of words: the ring buffer's cursors    *)
(* agree with its count, and it implements the bounded FIFO queue; so does *)
(* the ring of keys, read through IKEY, for every length and all keys.     *)
(***************************************************************************)
EXTENDS MCPipe, SequenceTheorems, TLAPS

(* Reducing an index that overshoots the ring at most once (the cursor     *)
(* arithmetic of write_word and read_word never overshoots it twice).      *)
LEMMA ModOnce ==
    ASSUME NEW n \in Nat \ {0}, NEW x \in 0 .. 2 * n - 1
    PROVE  x % n = IF x < n THEN x ELSE x - n
<1>1. CASE x < n
  BY <1>1, SMT
<1>2. CASE x >= n
  BY <1>2, SMT
<1> QED BY <1>1, <1>2

(* SlotAfter and NextSlot without the modulus. *)
LEMMA SlotValues ==
    ASSUME NEW i \in Slots, NEW k \in 0 .. PIPE_BUFFER_SIZE
    PROVE  /\ SlotAfter(i, k) = IF i + k < PIPE_BUFFER_SIZE THEN i + k
                                ELSE i + k - PIPE_BUFFER_SIZE
           /\ SlotAfter(i, k) \in Slots
           /\ NextSlot(i) = IF i + 1 < PIPE_BUFFER_SIZE THEN i + 1 ELSE 0
           /\ NextSlot(i) \in Slots
<1>0. PIPE_BUFFER_SIZE \in Nat \ {0}
  BY PipeAssumption
<1>1. i + k \in 0 .. 2 * PIPE_BUFFER_SIZE - 1 /\ i + 1 \in 0 .. 2 * PIPE_BUFFER_SIZE - 1
  BY <1>0 DEF Slots
<1>2. \A x \in 0 .. 2 * PIPE_BUFFER_SIZE - 1 :
        x % PIPE_BUFFER_SIZE = IF x < PIPE_BUFFER_SIZE THEN x ELSE x - PIPE_BUFFER_SIZE
  BY <1>0, ModOnce, Zenon
<1>3. NextSlot(i) = IF i + 1 < PIPE_BUFFER_SIZE THEN i + 1
                    ELSE i + 1 - PIPE_BUFFER_SIZE
  <2> DEFINE y == i + 1
  <2>1. y \in 0 .. 2 * PIPE_BUFFER_SIZE - 1
    BY <1>1
  <2> HIDE DEF y
  <2>2. y % PIPE_BUFFER_SIZE = IF y < PIPE_BUFFER_SIZE THEN y ELSE y - PIPE_BUFFER_SIZE
    BY <2>1, <1>2
  <2>3. NextSlot(i) = y % PIPE_BUFFER_SIZE
    BY DEF NextSlot, y
  <2>4. NextSlot(i) = IF y < PIPE_BUFFER_SIZE THEN y ELSE y - PIPE_BUFFER_SIZE
    BY <2>2, <2>3
  <2> QED BY <1>0, <2>4 DEF y, Slots
<1>4. SlotAfter(i, k) = IF i + k < PIPE_BUFFER_SIZE THEN i + k
                        ELSE i + k - PIPE_BUFFER_SIZE
  <2> DEFINE y == i + k
  <2>1. y \in 0 .. 2 * PIPE_BUFFER_SIZE - 1
    BY <1>1
  <2> HIDE DEF y
  <2>2. y % PIPE_BUFFER_SIZE = IF y < PIPE_BUFFER_SIZE THEN y ELSE y - PIPE_BUFFER_SIZE
    BY <2>1, <1>2
  <2>3. SlotAfter(i, k) = y % PIPE_BUFFER_SIZE
    BY DEF SlotAfter, y
  <2>4. SlotAfter(i, k) = IF y < PIPE_BUFFER_SIZE THEN y ELSE y - PIPE_BUFFER_SIZE
    BY <2>2, <2>3
  <2> QED BY <1>0, <2>4 DEF y, Slots
<1> QED BY <1>0, <1>3, <1>4 DEF Slots

(* One place further is the next slot, and distinct offsets below the      *)
(* capacity are distinct slots.                                            *)
LEMMA SlotSteps ==
    ASSUME NEW i \in Slots, NEW k \in 0 .. PIPE_BUFFER_SIZE - 1
    PROVE  /\ SlotAfter(i, k + 1) = NextSlot(SlotAfter(i, k))
           /\ SlotAfter(i, k + 1) = SlotAfter(NextSlot(i), k)
           /\ SlotAfter(i, 0) = i
           /\ \A j \in 0 .. k - 1 : SlotAfter(i, j) # SlotAfter(i, k)
<1>0. PIPE_BUFFER_SIZE \in Nat \ {0}
  BY PipeAssumption
<1>1. /\ SlotAfter(i, k) = IF i + k < PIPE_BUFFER_SIZE THEN i + k
                           ELSE i + k - PIPE_BUFFER_SIZE
      /\ SlotAfter(i, k) \in Slots
      /\ NextSlot(i) = IF i + 1 < PIPE_BUFFER_SIZE THEN i + 1 ELSE 0
      /\ NextSlot(i) \in Slots
  BY <1>0, SlotValues
<1>2. SlotAfter(i, k + 1) = IF i + (k + 1) < PIPE_BUFFER_SIZE THEN i + (k + 1)
                            ELSE i + (k + 1) - PIPE_BUFFER_SIZE
  BY <1>0, SlotValues
<1>3. NextSlot(SlotAfter(i, k)) =
        IF SlotAfter(i, k) + 1 < PIPE_BUFFER_SIZE THEN SlotAfter(i, k) + 1 ELSE 0
  BY <1>0, <1>1, SlotValues
<1>4. SlotAfter(NextSlot(i), k) =
        IF NextSlot(i) + k < PIPE_BUFFER_SIZE THEN NextSlot(i) + k
        ELSE NextSlot(i) + k - PIPE_BUFFER_SIZE
  <2>1. NextSlot(i) \in Slots /\ k \in 0 .. PIPE_BUFFER_SIZE
    BY <1>0, <1>1
  <2> QED BY <2>1, SlotValues, Zenon
<1>5. SlotAfter(i, 0) = i
  BY <1>0, SlotValues DEF Slots
<1>6. \A j \in 0 .. k - 1 : SlotAfter(i, j) # SlotAfter(i, k)
  <2> TAKE j \in 0 .. k - 1
  <2>1. SlotAfter(i, j) = IF i + j < PIPE_BUFFER_SIZE THEN i + j
                          ELSE i + j - PIPE_BUFFER_SIZE
    BY <1>0, SlotValues
  <2> QED BY <1>0, <1>1, <2>1 DEF Slots
<1>7. SlotAfter(i, k + 1) = NextSlot(SlotAfter(i, k))
  BY <1>0, <1>1, <1>2, <1>3 DEF Slots
<1>8. SlotAfter(i, k + 1) = SlotAfter(NextSlot(i), k)
  BY <1>0, <1>1, <1>2, <1>4 DEF Slots
<1> QED BY <1>5, <1>6, <1>7, <1>8

(* The inductive invariant. *)

(* What a stored word does to the slots between the cursors: those already *)
(* there keep their words, and the new word comes after the last of them.  *)
LEMMA WriteSlots ==
    ASSUME Inv, NEW w \in Word, WriteStored(w), UNCHANGED read_pos
    PROVE  /\ count \in 0 .. PIPE_BUFFER_SIZE - 1
           /\ \A k \in 0 .. count - 1 :
                buffer'[SlotAfter(read_pos, k)] = buffer[SlotAfter(read_pos, k)]
           /\ buffer'[SlotAfter(read_pos, count)] = w
<1>0. PIPE_BUFFER_SIZE \in Nat \ {0}
  BY PipeAssumption
<1>1. count \in 0 .. PIPE_BUFFER_SIZE - 1 /\ read_pos \in Slots
  BY <1>0 DEF Inv, TypeOK, WriteStored, is_full
<1>2. \A k \in 0 .. count - 1 : /\ SlotAfter(read_pos, k) # write_pos
                                /\ SlotAfter(read_pos, k) \in Slots
  <2> TAKE k \in 0 .. count - 1
  <2>1. k \in 0 .. PIPE_BUFFER_SIZE /\ write_pos = SlotAfter(read_pos, count)
    BY <1>0, <1>1 DEF Inv, CursorsAgree
  <2>2. SlotAfter(read_pos, k) # SlotAfter(read_pos, count)
    BY <1>1, SlotSteps
  <2> QED BY <1>1, <2>1, <2>2, SlotValues
<1>3. SlotAfter(read_pos, count) = write_pos /\ write_pos \in Slots
  BY DEF Inv, TypeOK, CursorsAgree
<1>4. buffer' = [buffer EXCEPT ![write_pos] = w] /\ buffer \in [Slots -> Word \cup {NoWord}]
  BY DEF WriteStored, Inv, TypeOK
<1> QED BY <1>1, <1>2, <1>3, <1>4

(* Inv holds of Pipe::new and is preserved by write_word and read_word. *)
LEMMA Inductive == Spec => []Inv
<1>0. PIPE_BUFFER_SIZE \in Nat \ {0}
  BY PipeAssumption
<1>1. Init => Inv
  <2> SUFFICES ASSUME Init PROVE Inv
    OBVIOUS
  <2>1. TypeOK
    BY <1>0 DEF Init, TypeOK, Slots
  <2>2. SlotAfter(read_pos, 0) = 0
    BY <1>0, SlotSteps DEF Init, Slots
  <2> QED BY <1>0, <2>1, <2>2 DEF Init, Inv, CursorsAgree, UnreadSlotsWritten
<1>2. Inv /\ [Next]_vars => Inv'
  <2> SUFFICES ASSUME Inv, [Next]_vars PROVE Inv'
    OBVIOUS
  <2>1. ASSUME NEW w \in Word, WriteStored(w), UNCHANGED <<read_pos, got>>
        PROVE  Inv'
    <3>1. /\ count' = count + 1 /\ count \in 0 .. PIPE_BUFFER_SIZE - 1
          /\ write_pos' = NextSlot(write_pos) /\ read_pos' = read_pos
          /\ read_pos \in Slots /\ write_pos \in Slots
          /\ write_pos = SlotAfter(read_pos, count)
      BY <1>0, <2>1 DEF WriteStored, is_full, Inv, TypeOK, CursorsAgree
    <3>2. NextSlot(write_pos) \in Slots
      BY <1>0, <3>1, SlotValues
    <3>3. TypeOK'
      BY <1>0, <2>1, <3>1, <3>2 DEF Inv, TypeOK, WriteStored
    <3>4. CursorsAgree'
      BY <3>1, SlotSteps DEF CursorsAgree
    <3>5. \A k \in 0 .. count : buffer'[SlotAfter(read_pos, k)] \in Word
      BY <1>0, <2>1, <3>1, WriteSlots DEF Inv, UnreadSlotsWritten
    <3>6. UnreadSlotsWritten'
      BY <3>5, <3>1, <1>0 DEF UnreadSlotsWritten
    <3> QED BY <3>3, <3>4, <3>6 DEF Inv
  <2>2. ASSUME ReadSome, UNCHANGED <<buffer, write_pos, accepted>>
        PROVE  Inv'
    <3>1. /\ count \in 1 .. PIPE_BUFFER_SIZE /\ count' = count - 1
          /\ read_pos' = NextSlot(read_pos) /\ read_pos \in Slots
          /\ write_pos = SlotAfter(read_pos, count)
      BY <1>0, <2>2 DEF Inv, TypeOK, ReadSome, is_empty, CursorsAgree
    <3>2. NextSlot(read_pos) \in Slots
      BY <1>0, <3>1, SlotValues
    <3>3. \A k \in 0 .. count - 1 :
            SlotAfter(NextSlot(read_pos), k) = SlotAfter(read_pos, k + 1)
      BY <1>0, <3>1, SlotSteps
    <3>4. TypeOK'
      <4>1. got' \in Word \cup {NoWord}
        BY <2>2, <3>1 DEF ReadSome, Inv, TypeOK
      <4> QED BY <1>0, <2>2, <3>1, <3>2, <4>1 DEF Inv, TypeOK
    <3>5. CursorsAgree'
      <4>1. SlotAfter(NextSlot(read_pos), count - 1) = SlotAfter(read_pos, count)
        BY <1>0, <3>1, <3>3
      <4> QED BY <2>2, <3>1, <4>1 DEF CursorsAgree
    <3>6. UnreadSlotsWritten'
      <4>1. \A k \in 0 .. count - 2 : buffer[SlotAfter(NextSlot(read_pos), k)] \in Word
        BY <1>0, <3>1, <3>3 DEF Inv, UnreadSlotsWritten
      <4> QED BY <1>0, <2>2, <3>1, <4>1 DEF UnreadSlotsWritten
    <3> QED BY <3>4, <3>5, <3>6 DEF Inv
  <2>3. CASE UNCHANGED <<buffer, read_pos, write_pos, count>>
            /\ accepted' \in BOOLEAN /\ got' \in Word \cup {NoWord}
    BY <2>3 DEF Inv, TypeOK, CursorsAgree, UnreadSlotsWritten
  <2> QED
    BY <2>1, <2>2, <2>3
    DEF Next, write_word, read_word, WriteRefused, ReadNone, vars, Inv, TypeOK
<1> QED BY <1>1, <1>2, PTL DEF Spec

(* Types, cursors and written slots hold together in every reachable state *)
(* of a pipe, for every capacity (write_word, read_word).                  *)
THEOREM Correct == Spec => []Inv
BY Inductive, PTL

(* Every reachable state of a pipe is well typed. *)
THEOREM TypeCorrect == Spec => []TypeOK
<1>1. Inv => TypeOK
  BY DEF Inv
<1> QED BY <1>1, Inductive, PTL

(* Cursors and count agree in every reachable state, for every capacity. *)
THEOREM CursorsCorrect == Spec => []CursorsAgree
<1>1. Inv => CursorsAgree
  BY DEF Inv
<1> QED BY <1>1, Inductive, PTL

(* No reader is ever handed a slot that was not written since it was read  *)
(* last (read_word).                                                       *)
THEOREM UnreadWritten == Spec => []UnreadSlotsWritten
<1>1. Inv => UnreadSlotsWritten
  BY DEF Inv
<1> QED BY <1>1, Inductive, PTL

(* The unread words as a sequence. *)
LEMMA ContentsSeq ==
    ASSUME Inv
    PROVE  /\ Contents \in Seq(Word)
           /\ Len(Contents) = count
           /\ \A k \in 1 .. count : Contents[k] = buffer[SlotAfter(read_pos, k - 1)]
<1>1. count \in Nat
  BY PipeAssumption DEF Inv, TypeOK
<1>2. \A k \in 1 .. count : buffer[SlotAfter(read_pos, k - 1)] \in Word
  BY <1>1 DEF Inv, UnreadSlotsWritten
<1>3. Contents \in [1 .. count -> Word]
  BY <1>2 DEF Contents
<1> QED BY <1>1, <1>3 DEF Contents

(* write_word appends to the unread words. *)
LEMMA WriteAppends ==
    ASSUME Inv, Inv', NEW w \in Word, WriteStored(w), UNCHANGED read_pos
    PROVE  Contents' = Append(Contents, w)
<1>0. /\ count \in 0 .. PIPE_BUFFER_SIZE - 1
      /\ \A k \in 0 .. count - 1 :
            buffer'[SlotAfter(read_pos, k)] = buffer[SlotAfter(read_pos, k)]
      /\ buffer'[SlotAfter(read_pos, count)] = w
  BY WriteSlots
<1>1. count' = count + 1 /\ count \in Nat
  BY <1>0, PipeAssumption DEF WriteStored
<1>2. Contents' = [k \in 1 .. count + 1 |-> buffer'[SlotAfter(read_pos, k - 1)]]
  BY <1>1 DEF Contents
<1>3. /\ Contents \in Seq(Word)
      /\ Len(Contents) = count
      /\ \A k \in 1 .. count : Contents[k] = buffer[SlotAfter(read_pos, k - 1)]
  BY ContentsSeq
<1>4. \A k \in 1 .. count + 1 :
        buffer'[SlotAfter(read_pos, k - 1)] = IF k = count + 1 THEN w ELSE Contents[k]
  <2> TAKE k \in 1 .. count + 1
  <2>1. CASE k = count + 1
    <3>1. k - 1 = count
      BY <2>1, <1>1
    <3> QED BY <2>1, <3>1, <1>0
  <2>2. CASE k # count + 1
    <3>1. k - 1 \in 0 .. count - 1 /\ k \in 1 .. count
      BY <2>2, <1>1
    <3> QED BY <2>2, <3>1, <1>0, <1>3
  <2> QED BY <2>1, <2>2
<1>5. \A k \in 1 .. count : Contents[k] \in Word
  BY <1>3, ElementOfSeq
<1>6. Contents' \in Seq(Word) /\ Len(Contents') = count + 1
  <2>1. Contents' \in [1 .. count + 1 -> Word]
    <3>1. \A k \in 1 .. count + 1 : buffer'[SlotAfter(read_pos, k - 1)] \in Word
      <4> TAKE k \in 1 .. count + 1
      <4>1. k = count + 1 \/ k \in 1 .. count
        BY <1>1
      <4> QED BY <4>1, <1>4, <1>5
    <3> QED BY <3>1, <1>2
  <2> QED BY <2>1, <1>1
<1>7. /\ Append(Contents, w) \in Seq(Word)
      /\ Len(Append(Contents, w)) = count + 1
      /\ \A k \in 1 .. count + 1 :
            Append(Contents, w)[k] = IF k = count + 1 THEN w ELSE Contents[k]
  BY <1>1, <1>3
<1>8. \A k \in 1 .. count + 1 : Contents'[k] = Append(Contents, w)[k]
  BY <1>2, <1>4, <1>7
<1> QED BY <1>6, <1>7, <1>8, SeqEqual

(* read_word returns the head of the unread words and removes it. *)
LEMMA ReadTakesHead ==
    ASSUME Inv, ReadSome, UNCHANGED <<buffer, write_pos>>
    PROVE  /\ Contents # << >>
           /\ got' = Head(Contents)
           /\ Contents' = Tail(Contents)
<1>0. PIPE_BUFFER_SIZE \in Nat \ {0}
  BY PipeAssumption
<1>1. /\ count \in 1 .. PIPE_BUFFER_SIZE /\ count' = count - 1
      /\ read_pos' = NextSlot(read_pos) /\ read_pos \in Slots
      /\ got' = buffer[read_pos]
  BY <1>0 DEF Inv, TypeOK, ReadSome, is_empty
<1>2. /\ Contents \in Seq(Word)
      /\ Len(Contents) = count
      /\ \A k \in 1 .. count : Contents[k] = buffer[SlotAfter(read_pos, k - 1)]
  BY ContentsSeq
<1>3. SlotAfter(read_pos, 0) = read_pos
  BY <1>0, <1>1, SlotSteps
<1>4. Head(Contents) = buffer[read_pos] /\ Contents # << >>
  <2>1. Contents[1] = buffer[SlotAfter(read_pos, 1 - 1)]
    BY <1>1, <1>2
  <2>2. Contents[1] = buffer[read_pos]
    BY <2>1, <1>3
  <2> QED BY <2>2, <1>0, <1>1, <1>2
<1>5. Contents' = [k \in 1 .. count - 1 |-> buffer[SlotAfter(NextSlot(read_pos), k - 1)]]
  BY <1>1 DEF Contents
<1>6. \A k \in 1 .. count - 1 :
        buffer[SlotAfter(NextSlot(read_pos), k - 1)] = Contents[k + 1]
  <2> TAKE k \in 1 .. count - 1
  <2>1. k - 1 \in 0 .. PIPE_BUFFER_SIZE - 1 /\ (k - 1) + 1 = (k + 1) - 1 /\ k + 1 \in 1 .. count
    BY <1>0, <1>1
  <2>2. SlotAfter(NextSlot(read_pos), k - 1) = SlotAfter(read_pos, (k - 1) + 1)
    BY <2>1, <1>1, SlotSteps
  <2> QED BY <2>1, <2>2, <1>2
<1>7. Tail(Contents) = [k \in 1 .. count - 1 |-> Contents[k + 1]]
  <2>1. /\ Tail(Contents) \in Seq(Word)
        /\ Len(Tail(Contents)) = count - 1
        /\ \A k \in 1 .. Len(Tail(Contents)) : Tail(Contents)[k] = Contents[k + 1]
    BY <1>2, <1>4, HeadTailProperties
  <2>2. Tail(Contents) = [k \in 1 .. count - 1 |-> Tail(Contents)[k]]
    BY <2>1, LenProperties
  <2> QED BY <2>1, <2>2
<1> QED BY <1>1, <1>4, <1>5, <1>6, <1>7

(* The ring buffer is a bounded FIFO queue for every capacity: its initial *)
(* state is the empty queue, and each write_word or read_word is a Write   *)
(* or Read of the queue.                                                   *)
THEOREM Refinement == Spec => ImplementsQueue
<1>0. PIPE_BUFFER_SIZE \in Nat \ {0}
  BY PipeAssumption
<1>1. Init => Queue!Init
  BY <1>0 DEF Init, Queue!Init, Contents
<1>2. Inv /\ Inv' /\ [Next]_vars => [Queue!Next]_(Queue!vars)
  <2> SUFFICES ASSUME Inv, Inv', [Next]_vars PROVE [Queue!Next]_(Queue!vars)
    OBVIOUS
  <2>0. Len(Contents) = count /\ Contents \in Seq(Word) /\ count \in 0 .. PIPE_BUFFER_SIZE
    BY ContentsSeq DEF Inv, TypeOK
  <2>1. ASSUME NEW w \in Word, WriteStored(w), UNCHANGED <<read_pos, got>>
        PROVE  Queue!Write(w)
    <3>1. Contents' = Append(Contents, w)
      BY <2>1, WriteAppends
    <3>2. (Len(Contents) < PIPE_BUFFER_SIZE) = TRUE /\ accepted' = TRUE
      BY <2>0, <2>1, <1>0 DEF WriteStored, is_full
    <3> QED BY <3>1, <3>2, <2>1 DEF Queue!Write
  <2>2. ASSUME NEW w \in Word, WriteRefused, UNCHANGED <<read_pos, got>>
        PROVE  Queue!Write(w)
    <3>1. Contents' = Contents
      BY <2>2 DEF WriteRefused, Contents
    <3>2. (Len(Contents) < PIPE_BUFFER_SIZE) = FALSE /\ accepted' = FALSE
      BY <2>0, <2>2, <1>0 DEF WriteRefused, is_full
    <3> QED BY <3>1, <3>2, <2>2 DEF Queue!Write
  <2>3. ASSUME ReadSome, UNCHANGED <<buffer, write_pos, accepted>>
        PROVE  Queue!Read
    BY <2>3, ReadTakesHead DEF Queue!Read
  <2>4. ASSUME ReadNone, UNCHANGED <<buffer, write_pos, accepted>>
        PROVE  Queue!Read
    <3>1. Contents' = Contents
      BY <2>4 DEF ReadNone, Contents
    <3>2. Contents = << >> /\ got' = NoWord
      BY <2>0, <2>4 DEF ReadNone, is_empty
    <3> QED BY <3>1, <3>2, <2>4 DEF Queue!Read
  <2>5. CASE UNCHANGED vars
    BY <2>5 DEF vars, Queue!vars, Contents
  <2>6. CASE \E w \in Word : write_word(w)
    BY <2>6, <2>1, <2>2 DEF write_word, Queue!Next
  <2>7. CASE read_word
    BY <2>7, <2>3, <2>4 DEF read_word, Queue!Next
  <2> QED BY <2>5, <2>6, <2>7 DEF Next
<1>3. Spec => []Inv
  BY Inductive
<1> QED BY <1>1, <1>2, <1>3, PTL DEF Spec, ImplementsQueue, Queue!Spec
-----------------------------------------------------------------------------
(* The ring of keys.                                                       *)

(* Its cursor arithmetic without the modulus. *)
LEMMA KeySlots ==
    ASSUME NEW i \in K!Slots, NEW n \in 0 .. Size
    PROVE  /\ K!Following(i) = IF i + 1 < Size THEN i + 1 ELSE 0
           /\ (i + n) % Size = IF i + n < Size THEN i + n ELSE i + n - Size
           /\ (i + Size - 1) % Size = IF i = 0 THEN Size - 1 ELSE i - 1
<1>0. Size \in Nat \ {0} /\ i \in 0 .. Size - 1
  BY RingsAssumption DEF K!Slots
<1>1. \A x \in 0 .. 2 * Size - 1 : x % Size = IF x < Size THEN x ELSE x - Size
  BY <1>0, ModOnce, Zenon
<1>2. (i + n) % Size = IF i + n < Size THEN i + n ELSE i + n - Size
  <2>1. PICK x \in 0 .. 2 * Size - 1 : x = i + n
    BY <1>0
  <2>2. x % Size = IF x < Size THEN x ELSE x - Size
    BY <1>1, Zenon
  <2>3. (IF x < Size THEN x ELSE x - Size) =
        IF i + n < Size THEN i + n ELSE i + n - Size
    BY <1>0, <2>1
  <2> QED BY <2>1, <2>2, <2>3
<1>3. (i + 1) % Size = IF i + 1 < Size THEN i + 1 ELSE i + 1 - Size
  <2>1. PICK x \in 0 .. 2 * Size - 1 : x = i + 1
    BY <1>0
  <2>2. x % Size = IF x < Size THEN x ELSE x - Size
    BY <1>1, Zenon
  <2>3. (IF x < Size THEN x ELSE x - Size) =
        IF i + 1 < Size THEN i + 1 ELSE i + 1 - Size
    BY <1>0, <2>1
  <2> QED BY <2>1, <2>2, <2>3
<1>4. (i + Size - 1) % Size = IF i + Size - 1 < Size THEN i + Size - 1 ELSE i + Size - 1 - Size
  <2>1. PICK x \in 0 .. 2 * Size - 1 : x = i + Size - 1
    BY <1>0
  <2>2. x % Size = IF x < Size THEN x ELSE x - Size
    BY <1>1, Zenon
  <2>3. (IF x < Size THEN x ELSE x - Size) =
        IF i + Size - 1 < Size THEN i + Size - 1 ELSE i + Size - 1 - Size
    BY <1>0, <2>1
  <2> QED BY <2>1, <2>2, <2>3
<1> QED BY <1>0, <1>2, <1>3, <1>4 DEF K!Following

(* The keys between the cursors h and t. *)
LEMMA Distance ==
    ASSUME NEW h \in 0 .. Size - 1, NEW t \in 0 .. Size - 1
    PROVE  (t + Size - h) % Size = IF h <= t THEN t - h ELSE t + Size - h
<1>0. Size \in Nat \ {0}
  BY RingsAssumption
<1>1. \A x \in 0 .. 2 * Size - 1 : x % Size = IF x < Size THEN x ELSE x - Size
  BY <1>0, ModOnce, Zenon
<1>2. PICK x \in 0 .. 2 * Size - 1 : x = t + Size - h
  BY <1>0
<1>3. x % Size = IF x < Size THEN x ELSE x - Size
  BY <1>1, Zenon
<1>4. (IF x < Size THEN x ELSE x - Size) = IF h <= t THEN t - h ELSE t + Size - h
  BY <1>0, <1>2
<1> QED BY <1>2, <1>3, <1>4

LEMMA KeysStart == K!Init => K!KeysSound
BY RingsAssumption DEF K!Init, K!KeysSound, K!TypeOK, K!PortIsNewest, K!Slots, K!Codes

LEMMA PushKeeps ==
    ASSUME K!KeysSound, NEW k \in Keys, K!push_key(k)
    PROVE  K!KeysSound'
<1>0. K!TypeOK /\ Size \in Nat \ {0} /\ head \in 0 .. Size - 1 /\ tail \in 0 .. Size - 1
  BY RingsAssumption DEF K!KeysSound, K!Slots, K!TypeOK
<1>1. CASE ~K!Room
  <2>1. key_port' = key_port /\ taken' \in BOOLEAN /\ UNCHANGED <<key_buffer, tail, head, key>>
    BY <1>1 DEF K!push_key, K!PortAfterPush, K!Room
  <2> QED BY <2>1 DEF K!KeysSound, K!TypeOK, K!PortIsNewest, K!Held
<1>2. CASE K!Room
  <2>1. /\ key_port' = k /\ taken' \in BOOLEAN /\ key_buffer' = [key_buffer EXCEPT ![tail] = k]
        /\ tail' = K!Following(tail) /\ head' = head /\ key' = key /\ tail' # head
    BY <1>2 DEF K!push_key, K!PortAfterPush, K!Room
  <2>2. tail' = IF tail + 1 < Size THEN tail + 1 ELSE 0
    BY <1>0, <2>1, KeySlots DEF K!Slots
  <2>3. K!TypeOK'
    BY <1>0, <2>1, <2>2 DEF K!TypeOK, K!Slots, K!Codes
  <2>4. K!Held' > 0
    <3>1. K!Held' = (tail' + Size - head) % Size
      BY <2>1 DEF K!Held
    <3>2. tail' \in 0 .. Size - 1
      BY <1>0, <2>2
    <3>3. K!Held' = (IF head <= tail' THEN tail' - head ELSE tail' + Size - head)
      BY <1>0, <3>1, <3>2, Distance
    <3> QED BY <1>0, <2>1, <2>2, <3>3
  <2>5. (tail' + Size - 1) % Size = tail
    <3>1. tail' \in K!Slots
      BY <1>0, <2>2 DEF K!Slots
    <3>2. (tail' + Size - 1) % Size = IF tail' = 0 THEN Size - 1 ELSE tail' - 1
      BY <3>1, KeySlots, RingsAssumption
    <3> QED BY <1>0, <2>2, <3>2
  <2>6. key_buffer'[tail] = k
    BY <1>0, <2>1 DEF K!TypeOK
  <2> QED BY <2>1, <2>3, <2>4, <2>5, <2>6 DEF K!KeysSound, K!PortIsNewest
<1> QED BY <1>1, <1>2

LEMMA IkeyKeeps ==
    ASSUME K!KeysSound, K!Ikey \/ K!TakePort
    PROVE  K!KeysSound'
<1>0. K!TypeOK /\ Size \in Nat \ {0} /\ head \in 0 .. Size - 1
  BY RingsAssumption DEF K!KeysSound, K!Slots, K!TypeOK
<1>1. key_port' = 0
  BY DEF K!Ikey, K!TakePort, K!PortAfterIkey, K!NoKey
<1>2. K!Following(head) \in K!Slots
  <2>1. K!Following(head) = IF head + 1 < Size THEN head + 1 ELSE 0
    BY <1>0, KeySlots DEF K!Slots
  <2> QED BY <1>0, <2>1 DEF K!Slots
<1>3. K!TypeOK'
  BY <1>0, <1>1, <1>2 DEF K!Ikey, K!IkeyRing, K!IkeyPort, K!TakePort, K!TypeOK, K!Codes, K!NoKey
<1> QED BY <1>1, <1>3 DEF K!KeysSound, K!PortIsNewest, K!NoKey

LEMMA KeysInductive == K!KeysSound /\ [RingsNext]_<<vars, keys>> => K!KeysSound'
<1> SUFFICES ASSUME K!KeysSound, [RingsNext]_<<vars, keys>> PROVE K!KeysSound'
  OBVIOUS
<1>1. CASE K!Next
  BY <1>1, PushKeeps, IkeyKeeps DEF K!Next
<1>2. CASE UNCHANGED keys
  BY <1>2 DEF keys, K!KeysSound, K!TypeOK, K!PortIsNewest, K!Held
<1> QED BY <1>1, <1>2 DEF RingsNext

(* The legacy port never contradicts the ring of keys, for every length of *)
(* the ring and all keys (push_key, IKEY, READLN).                         *)
THEOREM KeysAreSound == Rings => []KeysSound
<1>1. RingsInit => K!KeysSound
  BY KeysStart DEF RingsInit
<1>2. K!KeysSound => KeysSound
  BY DEF KeysSound
<1> QED BY <1>1, <1>2, KeysInductive, PTL DEF Rings

(* The slot of the n-th key, counted from the cursor h. *)
LEMMA KeyPlaces ==
    ASSUME NEW h \in 0 .. Size - 1, NEW n \in 1 .. Size
    PROVE  (h + n - 1) % Size = IF h + n <= Size THEN h + n - 1 ELSE h + n - 1 - Size
<1>0. Size \in Nat \ {0}
  BY RingsAssumption
<1>1. \A x \in 0 .. 2 * Size - 1 : x % Size = IF x < Size THEN x ELSE x - Size
  BY <1>0, ModOnce, Zenon
<1>2. PICK x \in 0 .. 2 * Size - 1 : x = h + n - 1
  BY <1>0
<1>3. x % Size = IF x < Size THEN x ELSE x - Size
  BY <1>1, Zenon
<1>4. (IF x < Size THEN x ELSE x - Size) = IF h + n <= Size THEN h + n - 1 ELSE h + n - 1 - Size
  BY <1>0, <1>2
<1> QED BY <1>2, <1>3, <1>4

(* The keys in the ring as a sequence. *)
LEMMA KeysSeq ==
    ASSUME K!TypeOK
    PROVE  /\ K!Held = IF head <= tail THEN tail - head ELSE tail + Size - head
           /\ K!Held \in 0 .. Size - 1
           /\ K!Contents \in Seq(K!Codes)
           /\ Len(K!Contents) = K!Held
           /\ \A n \in 1 .. K!Held : K!Contents[n] = key_buffer[(head + n - 1) % Size]
<1>0. Size \in Nat \ {0} /\ head \in 0 .. Size - 1 /\ tail \in 0 .. Size - 1
  BY RingsAssumption DEF K!Slots, K!TypeOK
<1>1. K!Held = IF head <= tail THEN tail - head ELSE tail + Size - head
  BY <1>0, Distance DEF K!Held
<1>2. K!Held \in 0 .. Size - 1
  BY <1>0, <1>1
<1>3. PICK m \in 0 .. Size - 1 : m = K!Held
  BY <1>2
<1>4. \A n \in 1 .. m : key_buffer[(head + n - 1) % Size] \in K!Codes
  <2> TAKE n \in 1 .. m
  <2>1. (head + n - 1) % Size = IF head + n <= Size THEN head + n - 1 ELSE head + n - 1 - Size
    BY <1>0, KeyPlaces
  <2>2. (head + n - 1) % Size \in 0 .. Size - 1
    BY <1>0, <2>1
  <2> QED BY <2>2 DEF K!TypeOK, K!Slots
<1>5. K!Contents = [n \in 1 .. m |-> key_buffer[(head + n - 1) % Size]]
  BY <1>3 DEF K!Contents
<1>6. K!Contents \in [1 .. m -> K!Codes]
  BY <1>4, <1>5, Zenon
<1>7. K!Contents \in Seq(K!Codes) /\ Len(K!Contents) = m
  BY <1>0, <1>6
<1> QED BY <1>1, <1>2, <1>3, <1>5, <1>7

(* push_key appends to them when it finds room, and that is below Size - 1. *)
LEMMA PushAppends ==
    ASSUME K!TypeOK, K!TypeOK', NEW k \in Keys, K!push_key(k)
    PROVE  /\ K!Room <=> K!Held < Size - 1
           /\ K!Room => K!Contents' = Append(K!Contents, k)
           /\ ~K!Room => K!Contents' = K!Contents
<1>0. /\ Size \in Nat \ {0} /\ head \in 0 .. Size - 1 /\ tail \in 0 .. Size - 1
      /\ key_buffer \in [0 .. Size - 1 -> K!Codes] /\ k \in K!Codes
  BY RingsAssumption DEF K!Slots, K!TypeOK, K!Codes
<1>1. /\ K!Held = IF head <= tail THEN tail - head ELSE tail + Size - head
      /\ K!Held \in 0 .. Size - 1
      /\ K!Contents \in Seq(K!Codes) /\ Len(K!Contents) = K!Held
      /\ \A n \in 1 .. K!Held : K!Contents[n] = key_buffer[(head + n - 1) % Size]
  BY KeysSeq
<1>2. K!Following(tail) = IF tail + 1 < Size THEN tail + 1 ELSE 0
  BY <1>0, KeySlots DEF K!Slots
<1>3. K!Room <=> K!Held < Size - 1
  BY <1>0, <1>1, <1>2 DEF K!Room
<1>4. ~K!Room => K!Contents' = K!Contents
  BY DEF K!push_key, K!Contents, K!Held
<1>5. ASSUME K!Room PROVE K!Contents' = Append(K!Contents, k)
  <2>1. /\ key_buffer' = [key_buffer EXCEPT ![tail] = k]
        /\ tail' = K!Following(tail) /\ head' = head
    BY <1>5 DEF K!push_key
  <2>2. K!Held' = K!Held + 1
    <3>1. K!Held' = (tail' + Size - head) % Size
      BY <2>1 DEF K!Held
    <3>2. tail' \in 0 .. Size - 1
      BY <1>0, <1>2, <2>1
    <3>3. K!Held' = (IF head <= tail' THEN tail' - head ELSE tail' + Size - head)
      BY <1>0, <3>1, <3>2, Distance
    <3>4. tail' # head
      BY <1>5, <2>1 DEF K!Room
    <3> QED BY <1>0, <1>1, <1>2, <2>1, <3>3, <3>4
  <2>3. PICK m \in 0 .. Size - 1 : m = K!Held
    BY <1>1
  <2>a. /\ m \in 0 .. Size - 2
        /\ m = IF head <= tail THEN tail - head ELSE tail + Size - head
    BY <1>0, <1>1, <1>3, <1>5, <2>3
  <2>4. K!Contents' = [n \in 1 .. m + 1 |-> key_buffer'[(head + n - 1) % Size]]
    BY <2>1, <2>2, <2>3 DEF K!Contents
  <2>5. \A n \in 1 .. m + 1 :
          key_buffer'[(head + n - 1) % Size] = IF n = m + 1 THEN k ELSE K!Contents[n]
    <3> TAKE n \in 1 .. m + 1
    <3>1. (head + n - 1) % Size = IF head + n <= Size THEN head + n - 1 ELSE head + n - 1 - Size
      BY <1>0, <2>a, KeyPlaces
    <3>2. PICK i \in 0 .. Size - 1 : i = (head + n - 1) % Size
      BY <1>0, <2>a, <3>1
    <3>3. i = tail <=> n = m + 1
      <4>1. i = IF head + n <= Size THEN head + n - 1 ELSE head + n - 1 - Size
        BY <3>1, <3>2
      <4> QED BY <1>0, <2>a, <4>1
    <3>4. key_buffer'[i] = IF i = tail THEN k ELSE key_buffer[i]
      BY <1>0, <2>1
    <3>5. n # m + 1 => K!Contents[n] = key_buffer[i]
      <4>1. n # m + 1 => n \in 1 .. m
        BY <2>a
      <4>2. n \in 1 .. m => K!Contents[n] = key_buffer[(head + n - 1) % Size]
        BY <1>1, <2>3, Zenon
      <4> QED BY <3>2, <4>1, <4>2
    <3> QED BY <3>2, <3>3, <3>4, <3>5
  <2>6. \A n \in 1 .. m : K!Contents[n] \in K!Codes
    BY <1>1, <2>3, ElementOfSeq
  <2>7. Append(K!Contents, k) = [n \in 1 .. m + 1 |-> IF n = m + 1 THEN k ELSE K!Contents[n]]
    <3>1. /\ Append(K!Contents, k) \in Seq(K!Codes)
          /\ Len(Append(K!Contents, k)) = m + 1
          /\ \A n \in 1 .. m + 1 :
                Append(K!Contents, k)[n] = IF n = m + 1 THEN k ELSE K!Contents[n]
      BY <1>0, <1>1, <2>3
    <3>2. Append(K!Contents, k) = [n \in 1 .. m + 1 |-> Append(K!Contents, k)[n]]
      BY <3>1, LenProperties
    <3> QED BY <3>1, <3>2
  <2> QED BY <2>4, <2>5, <2>7
<1> QED BY <1>3, <1>4, <1>5

(* IKEY returns the oldest of them and removes it. *)
LEMMA IkeyTakesHead ==
    ASSUME K!TypeOK, K!IkeyRing, UNCHANGED tail
    PROVE  /\ K!Contents # << >>
           /\ key' = Head(K!Contents)
           /\ K!Contents' = Tail(K!Contents)
<1>0. /\ Size \in Nat \ {0} /\ head \in 0 .. Size - 1 /\ tail \in 0 .. Size - 1 /\ head # tail
      /\ key_buffer \in [0 .. Size - 1 -> K!Codes]
      /\ key_buffer' = [key_buffer EXCEPT ![head] = K!NoKey]
      /\ head' = K!Following(head) /\ tail' = tail /\ key' = key_buffer[head]
  BY RingsAssumption DEF K!Slots, K!TypeOK, K!IkeyRing
<1>1. /\ K!Held = IF head <= tail THEN tail - head ELSE tail + Size - head
      /\ K!Held \in 0 .. Size - 1
      /\ K!Contents \in Seq(K!Codes) /\ Len(K!Contents) = K!Held
      /\ \A n \in 1 .. K!Held : K!Contents[n] = key_buffer[(head + n - 1) % Size]
  BY KeysSeq
<1>a. K!Held \in 1 .. Size - 1
  BY <1>0, <1>1
<1>2. PICK m \in 1 .. Size - 1 : m = K!Held
  BY <1>a
<1>3. head' = IF head + 1 < Size THEN head + 1 ELSE 0
  BY <1>0, KeySlots DEF K!Slots
<1>4. PICK h \in 0 .. Size - 1 : h = head'
  BY <1>0, <1>3
<1>5. K!Held' = m - 1
  <2>1. K!Held' = (tail + Size - h) % Size
    BY <1>0, <1>4 DEF K!Held
  <2>2. K!Held' = (IF h <= tail THEN tail - h ELSE tail + Size - h)
    BY <1>0, <2>1, Distance
  <2> QED BY <1>0, <1>1, <1>2, <1>3, <1>4, <2>2
<1>6. K!Contents' = [n \in 1 .. m - 1 |-> key_buffer'[(h + n - 1) % Size]]
  BY <1>4, <1>5 DEF K!Contents
<1>7. \A n \in 1 .. m - 1 : key_buffer'[(h + n - 1) % Size] = K!Contents[n + 1]
  <2> TAKE n \in 1 .. m - 1
  <2>1. PICK j \in 2 .. m : j = n + 1
    BY <1>2
  <2>2. (head + j - 1) % Size = IF head + j <= Size THEN head + j - 1 ELSE head + j - 1 - Size
    BY <1>0, <1>2, KeyPlaces
  <2>3. (h + n - 1) % Size = IF h + n <= Size THEN h + n - 1 ELSE h + n - 1 - Size
    BY <1>0, <1>2, KeyPlaces
  <2>4. PICK i \in 0 .. Size - 1 : i = (head + j - 1) % Size
    BY <1>0, <1>2, <2>2
  <2>5. i = (h + n - 1) % Size /\ i # head
    BY <1>0, <1>2, <1>3, <1>4, <2>1, <2>2, <2>3, <2>4
  <2>6. key_buffer'[i] = key_buffer[i]
    BY <1>0, <2>5
  <2>7. K!Contents[j] = key_buffer[i]
    BY <1>1, <1>2, <2>4
  <2> QED BY <2>1, <2>5, <2>6, <2>7
<1>8. K!Contents # << >> /\ key' = Head(K!Contents)
  <2>1. (head + 1 - 1) % Size = head
    <3>1. (head + 1 - 1) % Size = IF head + 1 <= Size THEN head + 1 - 1 ELSE head + 1 - 1 - Size
      BY <1>0, KeyPlaces
    <3> QED BY <1>0, <3>1
  <2>2. K!Contents[1] = key_buffer[head]
    BY <1>1, <1>2, <2>1
  <2> QED BY <1>0, <1>1, <1>2, <2>2
<1>9. Tail(K!Contents) = [n \in 1 .. m - 1 |-> K!Contents[n + 1]]
  <2>1. /\ Tail(K!Contents) \in Seq(K!Codes)
        /\ Len(Tail(K!Contents)) = m - 1
        /\ \A n \in 1 .. Len(Tail(K!Contents)) : Tail(K!Contents)[n] = K!Contents[n + 1]
    BY <1>1, <1>2, <1>8, HeadTailProperties
  <2>2. Tail(K!Contents) = [n \in 1 .. m - 1 |-> Tail(K!Contents)[n]]
    BY <2>1, LenProperties
  <2> QED BY <2>1, <2>2
<1> QED BY <1>6, <1>7, <1>8, <1>9

(* Read with IKEY, the ring of keys is a bounded FIFO queue for every      *)
(* length and all keys: push_key is a Write, IKEY a Read (its fallback on  *)
(* the port too, since the port of an empty ring is empty), and READLN a   *)
(* stutter of the queue.                                                   *)
THEOREM KeysAreQueued == Rings => KeysInOrder
<1>0. Size \in Nat \ {0}
  BY RingsAssumption
<1>1. RingsInit => K!Queue!Init
  <2> SUFFICES ASSUME K!Init PROVE K!Queue!Init
    BY DEF RingsInit
  <2>1. K!TypeOK /\ head = 0 /\ tail = 0
    BY KeysStart DEF K!KeysSound, K!Init
  <2>2. K!Held = 0
    BY <1>0, <2>1, KeysSeq
  <2>3. K!Contents = << >>
    BY <2>1, <2>2, KeysSeq
  <2> QED BY <2>3 DEF K!Init, K!Queue!Init
<1>2. K!KeysSound /\ K!KeysSound' /\ [RingsNext]_<<vars, keys>> => [K!Queue!Next]_(K!Queue!vars)
  <2> SUFFICES ASSUME K!KeysSound, K!KeysSound', [RingsNext]_<<vars, keys>>
               PROVE  [K!Queue!Next]_(K!Queue!vars)
    OBVIOUS
  <2>0. K!TypeOK /\ K!TypeOK' /\ K!PortIsNewest
    BY DEF K!KeysSound
  <2>1. K!Contents \in Seq(K!Codes) /\ Len(K!Contents) = K!Held /\ K!Held \in 0 .. Size - 1
    BY <2>0, KeysSeq
  <2>2. ASSUME NEW k \in Keys, K!push_key(k) PROVE K!Queue!Write(k)
    <3>1. /\ K!Room <=> K!Held < Size - 1
          /\ K!Room => K!Contents' = Append(K!Contents, k)
          /\ ~K!Room => K!Contents' = K!Contents
      BY <2>0, <2>2, PushAppends
    <3>2. taken' = K!Room /\ key' = key
      BY <2>2 DEF K!push_key
    <3>3. taken' = (Len(K!Contents) < Size - 1)
      BY <2>1, <3>1, <3>2 DEF K!Room
    <3>4. K!Contents' = IF taken' THEN Append(K!Contents, k) ELSE K!Contents
      BY <3>1, <3>2
    <3> QED BY <3>2, <3>3, <3>4 DEF K!Queue!Write
  <2>3. ASSUME K!IkeyRing, UNCHANGED <<tail, taken>> PROVE K!Queue!Read
    BY <2>0, <2>3, IkeyTakesHead DEF K!Queue!Read
  <2>4. ASSUME K!IkeyPort, UNCHANGED <<tail, taken>> PROVE K!Queue!Read
    <3>1. K!Held = 0
      BY <1>0, <2>0, <2>4, KeysSeq DEF K!IkeyPort, K!TypeOK, K!Slots
    <3>2. K!Contents = << >>
      BY <2>1, <3>1
    <3>3. key' = K!NoKey
      BY <2>0, <2>4, <3>1 DEF K!IkeyPort, K!PortIsNewest
    <3>4. K!Contents' = K!Contents
      BY <2>4 DEF K!IkeyPort, K!Contents, K!Held
    <3> QED BY <2>4, <3>2, <3>3, <3>4 DEF K!Queue!Read
  <2>5. CASE UNCHANGED <<key_buffer, head, tail, taken, key>>
    <3>1. K!Contents' = K!Contents
      BY <2>5 DEF K!Contents, K!Held
    <3> QED BY <2>5, <3>1 DEF K!Queue!vars
  <2>6. CASE K!Next
    BY <2>6, <2>2, <2>3, <2>4, <2>5 DEF K!Next, K!Ikey, K!TakePort, K!Queue!Next
  <2>7. CASE UNCHANGED keys
    BY <2>5, <2>7 DEF keys
  <2> QED BY <2>6, <2>7 DEF RingsNext
<1>3. RingsInit => K!KeysSound
  BY KeysStart DEF RingsInit
<1> QED BY <1>1, <1>2, <1>3, KeysInductive, PTL
        DEF Rings, KeysInOrder, K!KeysInOrder, K!Queue!Spec
=============================================================================
