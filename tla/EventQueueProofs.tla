--------------------------- MODULE EventQueueProofs ---------------------------
(***************************************************************************)
(* The scheduler queue for any number of workers, schedulers and slots:    *)
(* nothing is lost or overwritten, the scheduler's assertion holds, and    *)
(* the ring implements the log of EventLog.                                *)
(***************************************************************************)
EXTENDS EventQueue, SequenceTheorems, TLAPS

\* How far the cursors are apart: readers behind the published position, it
\* behind the reserved one, and that at most MaxAhead before any reader.
Cursors ==
    /\ Len(reserved) = next_free_event_id
    /\ last_ready_event_id <= next_free_event_id
    /\ \A r \in Reader :
         /\ cur_event_pos[r] <= last_event_pos[r]
         /\ last_event_pos[r] <= last_ready_event_id
         /\ next_free_event_id <= cur_event_pos[r] + MaxAhead

Inv == TypeOK /\ Cursors /\ NothingOverwritten /\ NoLostEvent

-----------------------------------------------------------------------------
\* Two positions less than a ring apart are stored in different slots.
LEMMA SlotsDiffer ==
    ASSUME NEW Q \in Nat \ {0}, NEW i \in Nat, NEW j \in Nat,
           i < j, j < i + Q
    PROVE  i % Q # j % Q
<1>1. /\ i \div Q \in Int /\ i % Q \in Int /\ i = Q * (i \div Q) + (i % Q)
      /\ j \div Q \in Int /\ j % Q \in Int /\ j = Q * (j \div Q) + (j % Q)
  BY SMT
<1>2. ASSUME NEW a \in Int, NEW b \in Int, 0 < Q * b - Q * a, Q * b - Q * a < Q
      PROVE  FALSE
  <2>1. Q * b - Q * a = Q * (b - a)
    BY SMT
  <2>2. CASE b - a <= 0
    <3>1. Q * (b - a) <= 0
      BY <2>2, SMT
    <3> QED BY <3>1, <2>1, <1>2, SMT
  <2>3. CASE b - a >= 1
    <3>1. Q * (b - a) >= Q
      BY <2>3, SMT
    <3> QED BY <3>1, <2>1, <1>2, SMT
  <2> QED BY <2>2, <2>3, SMT
<1>3. SUFFICES ASSUME i % Q = j % Q PROVE FALSE
  OBVIOUS
<1>4. 0 < Q * (j \div Q) - Q * (i \div Q) /\ Q * (j \div Q) - Q * (i \div Q) < Q
  <2> DEFINE qi == Q * (i \div Q)  qj == Q * (j \div Q)
  <2>1. qi \in Int /\ qj \in Int
    BY <1>1, SMT
  <2>2. i = qi + (i % Q) /\ j = qj + (i % Q)
    BY <1>1, <1>3
  <2> HIDE DEF qi, qj
  <2>3. 0 < qj - qi /\ qj - qi < Q
    BY <2>1, <2>2, <1>1, SMT
  <2> QED BY <2>3 DEF qi, qj
<1> QED BY <1>1, <1>2, <1>4

\* The slot of a position is one of the ring's.
LEMMA SlotInRing ==
    ASSUME NEW Q \in Nat \ {0}, NEW i \in Nat
    PROVE  i % Q \in 0 .. Q - 1
BY SMT

LEMMA AppendLength ==
    ASSUME NEW S, NEW q \in Seq(S), NEW e \in S
    PROVE  Len(Append(q, e)) = Len(q) + 1
BY AppendProperties

-----------------------------------------------------------------------------
LEMMA InitInv == Init => Inv
<1> SUFFICES ASSUME Init PROVE Inv
  OBVIOUS
<1> USE QueueAssumption
<1>1. TypeOK
  BY DEF Init, TypeOK, Slot
<1>2. Cursors
  BY DEF Init, Cursors
<1>3. NothingOverwritten
  BY DEF Init, NothingOverwritten, HoldsPosition
<1>4. NoLostEvent
  BY DEF Init, NoLostEvent
<1> QED BY <1>1, <1>2, <1>3, <1>4 DEF Inv

\* A reservation takes the position behind all the others, at most QueueLen - 1
\* ahead of every reader, so the slots that matter stay as they are.
LEMMA ReserveInv ==
    ASSUME Inv, NEW p \in Producer, Reserve(p)
    PROVE  Inv'
<1> USE QueueAssumption DEF Inv, TypeOK, AfterReserve
<1> PICK e \in EventId : /\ event_id' = [event_id EXCEPT ![p] = e]
                         /\ reserved' = Append(reserved, e)
  BY DEF Reserve
<1>1. TypeOK'
  BY DEF Reserve, readerVars
<1>2. Cursors'
  BY DEF Reserve, Room, Cursors, readerVars
<1>3. \A i \in 1 .. Len(reserved) : reserved'[i] = reserved[i]
  OBVIOUS
<1>4. reserved'[next_free_event_id + 1] = e
  BY DEF Cursors
<1>5. ASSUME NEW q \in Producer
      PROVE  /\ HoldsPosition(q)'
             /\ ppc'[q] = "publish" => slots'[event_pos'[q] % QueueLen] = event_id'[q]
  <2>1. CASE q = p
    <3>1. /\ ppc'[p] = "store" /\ event_pos'[p] = next_free_event_id
          /\ event_id'[p] = e /\ next_free_event_id' = next_free_event_id + 1
          /\ last_ready_event_id' = last_ready_event_id
      BY DEF Reserve
    <3>2. ASSUME NEW o \in Producer \ {p}, ppc'[o] # "idle"
          PROVE  event_pos'[o] # event_pos'[p]
      <4>1. ppc[o] # "idle" /\ event_pos'[o] = event_pos[o]
        BY <3>2 DEF Reserve
      <4>2. event_pos[o] < next_free_event_id
        BY <4>1 DEF NothingOverwritten, HoldsPosition
      <4> QED BY <4>1, <4>2, <3>1
    <3>3. HoldsPosition(p)'
      BY <3>1, <3>2, <1>4 DEF HoldsPosition, Cursors
    <3> QED BY <2>1, <3>1, <3>3
  <2>2. CASE q # p
    <3>1. SUFFICES ASSUME ppc[q] # "idle"
                   PROVE  /\ HoldsPosition(q)'
                          /\ ppc'[q] = "publish" =>
                               slots'[event_pos'[q] % QueueLen] = event_id'[q]
      <4>1. ppc'[q] = ppc[q]
        BY <2>2 DEF Reserve
      <4> QED BY <4>1 DEF HoldsPosition
    <3>2. /\ last_ready_event_id <= event_pos[q]
          /\ event_pos[q] < next_free_event_id
          /\ reserved[event_pos[q] + 1] = event_id[q]
          /\ \A o \in Producer \ {q} : ppc[o] # "idle" => event_pos[o] # event_pos[q]
      BY <3>1 DEF NothingOverwritten, HoldsPosition
    <3>3. event_pos[q] + 1 \in 1 .. Len(reserved)
      BY <3>2 DEF Cursors
    <3>4. /\ ppc'[q] = ppc[q] /\ event_pos'[q] = event_pos[q]
          /\ event_id'[q] = event_id[q] /\ slots' = slots
          /\ last_ready_event_id' = last_ready_event_id
          /\ next_free_event_id' = next_free_event_id + 1
          /\ event_pos'[p] = next_free_event_id
      BY <2>2 DEF Reserve
    <3>5. reserved'[event_pos'[q] + 1] = event_id'[q]
      BY <1>3, <3>2, <3>3, <3>4
    <3>6. ASSUME NEW o \in Producer \ {q}, ppc'[o] # "idle"
          PROVE  event_pos'[o] # event_pos'[q]
      <4>1. CASE o = p
        BY <4>1, <3>2, <3>4
      <4>2. CASE o # p
        BY <4>2, <3>2, <3>4, <3>6 DEF Reserve
      <4> QED BY <4>1, <4>2
    <3>7. HoldsPosition(q)'
      BY <3>2, <3>4, <3>5, <3>6 DEF HoldsPosition
    <3> QED BY <3>4, <3>7 DEF NothingOverwritten
  <2> QED BY <2>1, <2>2
<1>6. ASSUME NEW pos \in 0 .. last_ready_event_id' - 1,
             next_free_event_id' <= pos + QueueLen
      PROVE  slots'[pos % QueueLen] = reserved'[pos + 1]
  <2>1. /\ pos \in 0 .. last_ready_event_id - 1
        /\ next_free_event_id <= pos + QueueLen
        /\ pos + 1 \in 1 .. Len(reserved)
    BY <1>6 DEF Reserve, Cursors
  <2>2. slots[pos % QueueLen] = reserved[pos + 1]
    BY <2>1 DEF NothingOverwritten
  <2> QED BY <2>1, <2>2, <1>3 DEF Reserve
<1>7. NothingOverwritten'
  BY <1>5, <1>6 DEF NothingOverwritten
<1>8. NoLostEvent'
  <2>1. /\ read' = read /\ cur_event_pos' = cur_event_pos
        /\ Len(reserved') = Len(reserved) + 1
    BY DEF Reserve, readerVars
  <2> SUFFICES ASSUME NEW s \in Reader
               PROVE  /\ Len(read[s]) = cur_event_pos[s]
                      /\ cur_event_pos[s] <= Len(reserved')
                      /\ \A i \in 1 .. cur_event_pos[s] : read[s][i] = reserved'[i]
    BY <2>1 DEF NoLostEvent
  <2>2. /\ Len(read[s]) = cur_event_pos[s] /\ cur_event_pos[s] \in Nat
        /\ cur_event_pos[s] <= Len(reserved)
        /\ \A i \in 1 .. cur_event_pos[s] : read[s][i] = reserved[i]
    BY DEF NoLostEvent
  <2>3. Len(reserved) \in Nat
    OBVIOUS
  <2> HIDE DEF Inv, TypeOK
  <2>4. cur_event_pos[s] <= Len(reserved')
    BY <2>1, <2>2, <2>3
  <2>5. ASSUME NEW i \in 1 .. cur_event_pos[s] PROVE read[s][i] = reserved'[i]
    <3>1. i \in 1 .. Len(reserved)
      BY <2>2, <2>3
    <3> QED BY <3>1, <2>2, <1>3
  <2> QED BY <2>2, <2>4, <2>5
<1> QED BY <1>1, <1>2, <1>7, <1>8

\* A store changes one slot, and no other position that matters has that slot.
LEMMA StoreInv ==
    ASSUME Inv, NEW p \in Producer, StoreEvent(p)
    PROVE  Inv'
<1> USE QueueAssumption DEF Inv, TypeOK
<1> DEFINE slot == event_pos[p] % QueueLen
<1>0. slot \in Slot
  BY SlotInRing DEF Slot
<1>1. TypeOK'
  BY <1>0 DEF StoreEvent, readerVars
<1>2. Cursors'
  BY DEF StoreEvent, Cursors, readerVars
<1>3. /\ event_pos[p] < next_free_event_id
      /\ last_ready_event_id <= event_pos[p]
      /\ next_free_event_id - last_ready_event_id < QueueLen
  BY DEF StoreEvent, NothingOverwritten, HoldsPosition, Cursors
<1>4. ASSUME NEW pos \in Nat, pos < next_free_event_id, pos # event_pos[p],
             next_free_event_id <= pos + QueueLen
      PROVE  slots'[pos % QueueLen] = slots[pos % QueueLen]
  <2>1. pos % QueueLen # slot
    <3>1. /\ event_pos[p] \in Nat
          /\ event_pos[p] < pos + QueueLen /\ pos < event_pos[p] + QueueLen
      BY <1>3, <1>4
    <3>2. CASE pos < event_pos[p]
      BY <3>1, <3>2, SlotsDiffer
    <3>3. CASE event_pos[p] < pos
      BY <3>1, <3>3, SlotsDiffer
    <3> QED BY <3>1, <3>2, <3>3, <1>4
  <2>2. pos % QueueLen \in Slot
    BY SlotInRing DEF Slot
  <2> QED BY <2>1, <2>2 DEF StoreEvent
<1>5. slots'[slot] = event_id[p]
  BY <1>0 DEF StoreEvent
<1>6. ASSUME NEW q \in Producer
      PROVE  /\ HoldsPosition(q)'
             /\ ppc'[q] = "publish" => slots'[event_pos'[q] % QueueLen] = event_id'[q]
  <2>1. HoldsPosition(q)'
    BY DEF NothingOverwritten, HoldsPosition, StoreEvent
  <2>2. CASE q = p
    BY <2>1, <2>2, <1>5 DEF StoreEvent
  <2>3. CASE q # p
    <3>1. SUFFICES ASSUME ppc[q] = "publish"
                   PROVE  slots'[event_pos[q] % QueueLen] = event_id[q]
      BY <2>1, <2>3 DEF StoreEvent
    <3>2. /\ event_pos[q] # event_pos[p]
          /\ event_pos[q] < next_free_event_id
          /\ last_ready_event_id <= event_pos[q]
          /\ slots[event_pos[q] % QueueLen] = event_id[q]
      BY <2>3, <3>1 DEF NothingOverwritten, HoldsPosition, StoreEvent
    <3> QED BY <3>2, <1>3, <1>4
  <2> QED BY <2>2, <2>3
<1>7. ASSUME NEW pos \in 0 .. last_ready_event_id' - 1,
             next_free_event_id' <= pos + QueueLen
      PROVE  slots'[pos % QueueLen] = reserved'[pos + 1]
  <2>1. pos \in 0 .. last_ready_event_id - 1 /\ next_free_event_id <= pos + QueueLen
    BY <1>7 DEF StoreEvent
  <2>2. slots[pos % QueueLen] = reserved[pos + 1]
    BY <2>1 DEF NothingOverwritten
  <2>3. pos \in Nat /\ pos < next_free_event_id /\ pos # event_pos[p]
    BY <2>1, <1>3
  <2> QED BY <2>1, <2>2, <2>3, <1>4 DEF StoreEvent
<1>8. NothingOverwritten'
  BY <1>6, <1>7 DEF NothingOverwritten
<1>9. NoLostEvent'
  BY DEF NoLostEvent, StoreEvent, readerVars
<1> QED BY <1>1, <1>2, <1>8, <1>9

\* The position published is the lowest one held, and its slot is stored.
LEMMA PublishInv ==
    ASSUME Inv, NEW p \in Producer, Publish(p)
    PROVE  Inv'
<1> USE QueueAssumption DEF Inv, TypeOK, MayPublish, Published
<1>1. TypeOK'
  BY DEF Publish, readerVars
<1>2. /\ last_ready_event_id = event_pos[p]
      /\ last_ready_event_id' = event_pos[p] + 1
      /\ event_pos[p] < next_free_event_id
      /\ slots[event_pos[p] % QueueLen] = reserved[event_pos[p] + 1]
  BY DEF Publish, NothingOverwritten, HoldsPosition
<1>3. Cursors'
  BY <1>2 DEF Publish, Cursors, readerVars
<1>4. ASSUME NEW q \in Producer
      PROVE  /\ HoldsPosition(q)'
             /\ ppc'[q] = "publish" => slots'[event_pos'[q] % QueueLen] = event_id'[q]
  <2>1. CASE q = p
    BY <2>1 DEF Publish, HoldsPosition
  <2>2. CASE q # p
    <3>1. ppc[q] # "idle" => /\ event_pos[q] # event_pos[p]
                             /\ event_pos[q] >= last_ready_event_id
      BY <2>2 DEF NothingOverwritten, HoldsPosition, Publish
    <3> QED BY <2>2, <3>1, <1>2 DEF NothingOverwritten, HoldsPosition, Publish
  <2> QED BY <2>1, <2>2
<1>5. ASSUME NEW pos \in 0 .. last_ready_event_id' - 1,
             next_free_event_id' <= pos + QueueLen
      PROVE  slots'[pos % QueueLen] = reserved'[pos + 1]
  <2>1. CASE pos = event_pos[p]
    BY <2>1, <1>2 DEF Publish
  <2>2. CASE pos # event_pos[p]
    <3>1. /\ pos \in 0 .. last_ready_event_id - 1
          /\ next_free_event_id <= pos + QueueLen
      BY <2>2, <1>2, <1>5 DEF Publish
    <3> QED BY <3>1 DEF Publish, NothingOverwritten
  <2> QED BY <2>1, <2>2
<1>6. NothingOverwritten'
  BY <1>4, <1>5 DEF NothingOverwritten
<1>7. NoLostEvent'
  BY DEF NoLostEvent, Publish, readerVars
<1> QED BY <1>1, <1>3, <1>6, <1>7

LEMMA PollInv ==
    ASSUME Inv, NEW r \in Reader, Poll(r)
    PROVE  Inv'
<1> USE QueueAssumption DEF Inv, TypeOK, Poll, producerVars
<1>1. TypeOK'
  OBVIOUS
<1>2. Cursors'
  BY DEF Cursors
<1>3. NothingOverwritten'
  BY DEF NothingOverwritten, HoldsPosition
<1>4. NoLostEvent'
  BY DEF NoLostEvent
<1> QED BY <1>1, <1>2, <1>3, <1>4

\* A reader takes the event of its position: it is published, and fewer than
\* QueueLen positions have been reserved since.
LEMMA ReadInv ==
    ASSUME Inv, NEW r \in Reader, Read(r)
    PROVE  Inv'
<1> USE QueueAssumption DEF Inv, TypeOK, SlotOf
<1>0. /\ cur_event_pos[r] \in Nat /\ last_event_pos[r] \in Nat
      /\ cur_event_pos[r] # last_event_pos[r]
      /\ cur_event_pos[r] <= last_event_pos[r]
      /\ last_event_pos[r] <= last_ready_event_id
      /\ last_ready_event_id <= Len(reserved)
      /\ next_free_event_id <= cur_event_pos[r] + MaxAhead
  BY DEF Read, Cursors
<1>a. cur_event_pos[r] + 1 <= last_event_pos[r] /\ cur_event_pos[r] + 1 \in 1 .. Len(reserved)
  BY <1>0
<1>1. slots[cur_event_pos[r] % QueueLen] = reserved[cur_event_pos[r] + 1]
  <2>1. /\ cur_event_pos[r] \in 0 .. last_ready_event_id - 1
        /\ next_free_event_id <= cur_event_pos[r] + QueueLen
    BY <1>0
  <2> QED BY <2>1 DEF NothingOverwritten
<1>2. slots[cur_event_pos[r] % QueueLen] \in EventId
  BY <1>a, <1>1
<1>3. TypeOK'
  BY <1>2 DEF Read, producerVars
<1>4. Cursors'
  <2>1. /\ cur_event_pos' = [cur_event_pos EXCEPT ![r] = cur_event_pos[r] + 1]
        /\ UNCHANGED << next_free_event_id, last_ready_event_id, last_event_pos, reserved >>
    BY DEF Read
  <2>2. ASSUME NEW s \in Reader
        PROVE  /\ cur_event_pos'[s] <= last_event_pos[s]
               /\ last_event_pos[s] <= last_ready_event_id
               /\ next_free_event_id <= cur_event_pos'[s] + MaxAhead
    <3>1. CASE s = r
      BY <2>1, <3>1, <1>0, <1>a
    <3>2. CASE s # r
      BY <2>1, <3>2 DEF Cursors
    <3> QED BY <3>1, <3>2
  <2> QED BY <2>1, <2>2 DEF Cursors
<1>5. NothingOverwritten'
  BY DEF Read, NothingOverwritten, HoldsPosition, producerVars
<1>6. NoLostEvent'
  <2> SUFFICES ASSUME NEW s \in Reader
               PROVE  /\ Len(read'[s]) = cur_event_pos'[s]
                      /\ cur_event_pos'[s] <= Len(reserved)
                      /\ \A i \in 1 .. cur_event_pos'[s] : read'[s][i] = reserved[i]
    BY DEF NoLostEvent, Read
  <2>1. CASE s # r
    BY <2>1 DEF NoLostEvent, Read
  <2>2. CASE s = r
    <3> DEFINE event == slots[cur_event_pos[r] % QueueLen]
    <3>1. /\ read'[r] = Append(read[r], event)
          /\ cur_event_pos'[r] = cur_event_pos[r] + 1
      BY DEF Read
    <3>2. cur_event_pos[r] + 1 <= Len(reserved)
      BY <1>a
    <3>3. Len(read'[r]) = cur_event_pos[r] + 1
      <4>1. read[r] \in Seq(EventId) /\ Len(read[r]) = cur_event_pos[r]
        BY DEF NoLostEvent
      <4>2. event \in EventId
        BY <1>2
      <4> HIDE DEF event
      <4> HIDE DEF Inv, TypeOK
      <4> QED BY <3>1, <4>1, <4>2, AppendLength
    <3>4. ASSUME NEW i \in 1 .. cur_event_pos[r] + 1
          PROVE  read'[r][i] = reserved[i]
      <4>1. CASE i = cur_event_pos[r] + 1
        BY <4>1, <3>1, <1>1, <1>2 DEF NoLostEvent
      <4>2. CASE i # cur_event_pos[r] + 1
        BY <4>2, <3>1, <1>2 DEF NoLostEvent
      <4> QED BY <4>1, <4>2
    <3> QED BY <2>2, <3>1, <3>2, <3>3, <3>4
  <2> QED BY <2>1, <2>2
<1> QED BY <1>3, <1>4, <1>5, <1>6

-----------------------------------------------------------------------------
LEMMA InvInductive == Inv /\ [Next]_vars => Inv'
<1> SUFFICES ASSUME Inv, [Next]_vars PROVE Inv'
  OBVIOUS
<1>1. ASSUME NEW p \in Producer, ProducerStep(p) PROVE Inv'
  BY <1>1, ReserveInv, StoreInv, PublishInv DEF ProducerStep
<1>2. ASSUME NEW r \in Reader, ReaderStep(r) PROVE Inv'
  BY <1>2, PollInv, ReadInv DEF ReaderStep
<1>3. CASE UNCHANGED vars
  BY <1>3 DEF vars, producerVars, readerVars, Inv, TypeOK, Cursors,
              NothingOverwritten, HoldsPosition, NoLostEvent
<1> QED BY <1>1, <1>2, <1>3 DEF Next, Idle

LEMMA SpecInv == Spec => []Inv
BY InitInv, InvInductive, PTL DEF Spec

\* The cursors and the blocks' locals keep their types
\* (sched_queue_next_free_event_id, sched_queue_last_ready_event_id, ...).
THEOREM TypeCorrect == Spec => []TypeOK
BY SpecInv, PTL DEF Inv

\* Whatever the number of workers that push at once and of schedulers that read,
\* every scheduler reads the events in the order of their reservation, each once.
THEOREM EventsRead == Spec => []NoLostEvent
BY SpecInv, PTL DEF Inv

\* No slot is overwritten while a worker stores into it or a scheduler has it
\* still to read.
THEOREM SlotsKept == Spec => []NothingOverwritten
BY SpecInv, PTL DEF Inv

\* The overflow assertion of execute_scheduler never fails.
THEOREM AssertionHolds == Spec => []NotOverflown
<1>1. Inv => NotOverflown
  BY QueueAssumption DEF Inv, TypeOK, Cursors, NotOverflown
<1> QED BY <1>1, SpecInv, PTL

-----------------------------------------------------------------------------
(* Refinement: the log is the published part of what was reserved.          *)

LEMMA InitRefines == Init => Log!Init
BY DEF Init, Log!Init

\* Publishing position n appends the event reserved for it.
LEMMA PublishRefines ==
    ASSUME Inv, NEW p \in Producer, Publish(p)
    PROVE  \E e \in EventId : Log!Signal(e)
<1> USE QueueAssumption DEF Inv, TypeOK, MayPublish, Published
<1> DEFINE n == last_ready_event_id
<1>1. /\ n \in Nat
      /\ n = event_pos[p] /\ last_ready_event_id' = n + 1
      /\ n + 1 \in 1 .. Len(reserved)
  BY DEF Publish, NothingOverwritten, HoldsPosition, Cursors
<1>2. reserved' = reserved /\ read' = read
  BY DEF Publish, readerVars
<1>3. reserved[n + 1] \in EventId
  BY <1>1
<1>4. SubSeq(reserved, 1, n + 1) = Append(SubSeq(reserved, 1, n), reserved[n + 1])
  BY <1>1
<1> QED BY <1>1, <1>2, <1>3, <1>4 DEF Log!Signal

LEMMA PrefixElement ==
    ASSUME NEW S, NEW s \in Seq(S), NEW m \in 0 .. Len(s), NEW i \in 1 .. m
    PROVE  Len(SubSeq(s, 1, m)) = m /\ SubSeq(s, 1, m)[i] = s[i]
<1>1. \A k \in 1 .. m : s[k] \in S
  OBVIOUS
<1>2. Len(SubSeq(s, 1, m)) = IF 1 <= m THEN m - 1 + 1 ELSE 0
  BY <1>1, SubSeqProperties
<1>3. \A k \in 1 .. m - 1 + 1 : SubSeq(s, 1, m)[k] = s[1 + k - 1]
  BY <1>1, SubSeqProperties
<1> QED BY <1>2, <1>3

LEMMA ReadRefines ==
    ASSUME Inv, Inv', NEW r \in Reader, Read(r)
    PROVE  Log!Take(r)
<1> USE QueueAssumption DEF Inv, TypeOK
<1> DEFINE n == cur_event_pos[r]  log == SubSeq(reserved, 1, last_ready_event_id)
<1>1. /\ n \in Nat /\ n < last_ready_event_id
      /\ last_ready_event_id <= Len(reserved)
      /\ Len(read[r]) = n
  <2>1. /\ n \in Nat /\ last_event_pos[r] \in Nat /\ n # last_event_pos[r]
        /\ n <= last_event_pos[r] /\ last_event_pos[r] <= last_ready_event_id
    BY DEF Read, Cursors
  <2>2. last_ready_event_id \in Nat /\ last_ready_event_id <= Len(reserved)
    BY DEF Cursors
  <2>3. Len(read[r]) = n
    BY DEF NoLostEvent
  <2> QED BY <2>1, <2>2, <2>3
<1>2. Len(log) = last_ready_event_id /\ log[n + 1] = reserved[n + 1]
  <2>1. reserved \in Seq(EventId) /\ last_ready_event_id \in Nat
    OBVIOUS
  <2>2. last_ready_event_id \in 0 .. Len(reserved) /\ n + 1 \in 1 .. last_ready_event_id
    BY <1>1, <2>1
  <2> QED BY <2>1, <2>2, PrefixElement
<1>3. log' = log
  BY DEF Read
<1>4. slots[SlotOf(n)] = reserved[n + 1]
  <2>1. read' = [read EXCEPT ![r] = Append(read[r], slots[SlotOf(n)])]
        /\ cur_event_pos'[r] = n + 1
    BY DEF Read
  <2>2. read'[r] = Append(read[r], slots[SlotOf(n)])
    BY <2>1
  <2>3. slots[SlotOf(n)] \in EventId \cup {EmptySlot}
    BY SlotInRing DEF Slot, SlotOf
  <2>4. read'[r][n + 1] = reserved[n + 1]
    <3>1. n + 1 \in 1 .. cur_event_pos'[r]
      BY <2>1, <1>1
    <3> QED BY <3>1 DEF NoLostEvent, Read
  <2> QED BY <2>2, <2>3, <2>4, <1>1
<1>5. read' = [read EXCEPT ![r] = Append(read[r], log[Len(read[r]) + 1])]
  BY <1>1, <1>2, <1>4 DEF Read
<1> QED BY <1>1, <1>2, <1>3, <1>5 DEF Log!Take

\* A ring with any number of producers and readers implements the log that
\* Megakernel appends to in one step: what it promises there is what
\* execute_worker's reserve, store and compare-and-swap do here.
THEOREM QueueImplementsLog == Spec => ImplementsLog
<1>1. Inv /\ Inv' /\ [Next]_vars => [Log!Next]_Log!logVars
  <2> SUFFICES ASSUME Inv, Inv', [Next]_vars
               PROVE  Log!Next \/ UNCHANGED Log!logVars
    OBVIOUS
  <2> USE DEF Log!Next, Log!logVars
  <2>1. ASSUME NEW p \in Producer, Reserve(p)
        PROVE  UNCHANGED Log!logVars
    <3>1. /\ reserved \in Seq(EventId) /\ last_ready_event_id \in Nat
          /\ last_ready_event_id <= Len(reserved)
      BY DEF Inv, TypeOK, Cursors
    <3>2. PICK e \in EventId : reserved' = Append(reserved, e)
      BY <2>1 DEF Reserve
    <3>3. SubSeq(reserved', 1, last_ready_event_id) = SubSeq(reserved, 1, last_ready_event_id)
      BY <3>1, <3>2
    <3> QED BY <2>1, <3>3 DEF Reserve, readerVars
  <2>2. ASSUME NEW p \in Producer, StoreEvent(p)
        PROVE  UNCHANGED Log!logVars
    BY <2>2 DEF StoreEvent, readerVars
  <2>3. ASSUME NEW p \in Producer, Publish(p)
        PROVE  Log!Next
    BY <2>3, PublishRefines
  <2>4. ASSUME NEW r \in Reader, Poll(r)
        PROVE  UNCHANGED Log!logVars
    BY <2>4 DEF Poll
  <2>5. ASSUME NEW r \in Reader, Read(r)
        PROVE  Log!Next
    BY <2>5, ReadRefines
  <2>6. CASE UNCHANGED vars
    BY <2>6 DEF vars, readerVars
  <2> QED BY <2>1, <2>2, <2>3, <2>4, <2>5, <2>6
          DEF Next, ProducerStep, ReaderStep, Idle
<1> QED BY <1>1, InitRefines, SpecInv, PTL DEF Spec, ImplementsLog, Log!Spec

=============================================================================
