------------------------------ MODULE EventQueue ------------------------------
(***************************************************************************)
(* A scheduler queue of the runtime, step by step: a ring that many        *)
(* workers (and terminate_schedulers) write and one scheduler, or all of   *)
(* them for the broadcast queue, reads.  A producer reserves a position    *)
(* with an atomic add on sched_queue_next_free_event_id, stores the event  *)
(* in the slot, and publishes the position with a compare-and-swap loop on *)
(* sched_queue_last_ready_event_id that only succeeds in the order of the  *)
(* reservations.  A worker queue is the case of one producer and one       *)
(* reader.                                                                 *)
(*                                                                         *)
(* The code checks nowhere that a slot is free.  MaxAhead is what the      *)
(* surroundings promise instead: how many events may be reserved and       *)
(* unread by the slowest reader (NoOverrun of Megakernel).                 *)
(***************************************************************************)
EXTENDS Integers, Sequences, FiniteSets

CONSTANTS Producer,          \* the blocks that signal events
          Reader,            \* the schedulers that poll the queue
          EventId,           \* what is signalled
          EmptySlot,         \* what an unwritten slot holds
          QueueLen,          \* config.per_sched_queue_len
          MaxAhead,          \* bound on events reserved and not read by all
          MaxEvents          \* bound on events signalled at all

ASSUME QueueAssumption ==
    /\ QueueLen \in Nat \ {0}
    /\ MaxAhead \in Nat /\ MaxAhead < QueueLen
    /\ MaxEvents \in Nat
    /\ EmptySlot \notin EventId
    /\ Reader # {}

VARIABLES
    next_free_event_id,      \* positions reserved
    last_ready_event_id,     \* positions published
    slots,                   \* the ring; EmptySlot where nothing was stored
    ppc, event_pos, event_id,        \* the producers' locals
    cur_event_pos, last_event_pos,   \* the readers' locals
    reserved,                \* history: the event each position is reserved for
    read                     \* history: what each reader took, in order

producerVars == << ppc, event_pos, event_id >>
readerVars == << cur_event_pos, last_event_pos, read >>
vars == << next_free_event_id, last_ready_event_id, slots,
           producerVars, readerVars, reserved >>

Slot == 0 .. QueueLen - 1

Init ==
    /\ next_free_event_id = 0
    /\ last_ready_event_id = 0
    /\ slots = [i \in Slot |-> EmptySlot]
    /\ ppc = [p \in Producer |-> "idle"]
    /\ event_pos = [p \in Producer |-> 0]
    /\ event_id \in [Producer -> EventId]
    /\ cur_event_pos = [r \in Reader |-> 0]
    /\ last_event_pos = [r \in Reader |-> 0]
    /\ reserved = << >>
    /\ read = [r \in Reader |-> << >>]

-----------------------------------------------------------------------------
(* The producers.                                                           *)

\* What the surroundings promise before an event is signalled.
Room == \A r \in Reader : next_free_event_id < cur_event_pos[r] + MaxAhead

\* Mutant: the position is published and the event not stored.
MutAfterReserve == "publish"
AfterReserve == "store"

\* An event fires, and the producer takes the next position for it.
Reserve(p) ==
    /\ ppc[p] = "idle"
    /\ Room
    /\ next_free_event_id < MaxEvents
    /\ \E e \in EventId : /\ event_id' = [event_id EXCEPT ![p] = e]
                          /\ reserved' = Append(reserved, e)
    /\ event_pos' = [event_pos EXCEPT ![p] = next_free_event_id]
    /\ next_free_event_id' = next_free_event_id + 1
    /\ ppc' = [ppc EXCEPT ![p] = AfterReserve]
    /\ UNCHANGED << last_ready_event_id, slots, readerVars >>

StoreEvent(p) ==
    /\ ppc[p] = "store"
    /\ slots' = [slots EXCEPT ![event_pos[p] % QueueLen] = event_id[p]]
    /\ ppc' = [ppc EXCEPT ![p] = "publish"]
    /\ UNCHANGED << next_free_event_id, last_ready_event_id, event_pos,
                    event_id, readerVars, reserved >>

\* Mutant: publish whatever the others did.
MutMayPublish(p) == TRUE

MayPublish(p) == last_ready_event_id = event_pos[p]
Published(p) == event_pos[p] + 1

\* The compare-and-swap loop; a failed attempt changes nothing.
Publish(p) ==
    /\ ppc[p] = "publish"
    /\ MayPublish(p)
    /\ last_ready_event_id' = Published(p)
    /\ ppc' = [ppc EXCEPT ![p] = "idle"]
    /\ UNCHANGED << next_free_event_id, slots, event_pos, event_id,
                    readerVars, reserved >>

-----------------------------------------------------------------------------
(* The readers.                                                             *)

Poll(r) ==
    /\ cur_event_pos[r] = last_event_pos[r]
    /\ last_event_pos[r] # last_ready_event_id
    /\ last_event_pos' = [last_event_pos EXCEPT ![r] = last_ready_event_id]
    /\ UNCHANGED << next_free_event_id, last_ready_event_id, slots,
                    producerVars, cur_event_pos, read, reserved >>

\* Mutant: the reader forgets the wrap-around of the next slot.
MutSlotOf(pos) == IF pos < QueueLen THEN pos ELSE QueueLen - 1
SlotOf(pos) == pos % QueueLen

\* The event is handled before the position moves on; the slot is read once.
Read(r) ==
    /\ cur_event_pos[r] # last_event_pos[r]
    /\ read' = [read EXCEPT ![r] = Append(@, slots[SlotOf(cur_event_pos[r])])]
    /\ cur_event_pos' = [cur_event_pos EXCEPT ![r] = @ + 1]
    /\ UNCHANGED << next_free_event_id, last_ready_event_id, slots,
                    producerVars, last_event_pos, reserved >>

ProducerStep(p) == Reserve(p) \/ StoreEvent(p) \/ Publish(p)
ReaderStep(r) == Poll(r) \/ Read(r)
AllRead == /\ next_free_event_id = MaxEvents
           /\ \A p \in Producer : ppc[p] = "idle"
           /\ \A r \in Reader : cur_event_pos[r] = MaxEvents
Idle == AllRead /\ UNCHANGED vars
Next == \/ \E p \in Producer : ProducerStep(p)
        \/ \E r \in Reader : ReaderStep(r)
        \/ Idle
Spec == Init /\ [][Next]_vars

\* A block that has reserved a position goes on until it has published it, and
\* a scheduler polls for ever; nothing obliges an event to fire.
FairSpec == /\ Spec
            /\ \A p \in Producer : WF_vars(StoreEvent(p) \/ Publish(p))
            /\ \A r \in Reader : WF_vars(ReaderStep(r))

-----------------------------------------------------------------------------
(* Properties.                                                              *)

Unread(r) == cur_event_pos[r] # last_event_pos[r]

\* Types of the queue's cursors and of the blocks' locals; what a reader takes
\* from a slot is always an event (it indexes config.all_events with it).
TypeOK ==
    /\ next_free_event_id \in Nat
    /\ last_ready_event_id \in Nat
    /\ slots \in [Slot -> EventId \cup {EmptySlot}]
    /\ ppc \in [Producer -> {"idle", "store", "publish"}]
    /\ event_pos \in [Producer -> Nat]
    /\ event_id \in [Producer -> EventId]
    /\ cur_event_pos \in [Reader -> Nat]
    /\ last_event_pos \in [Reader -> Nat]
    /\ reserved \in Seq(EventId)
    /\ read \in [Reader -> Seq(EventId)]

\* No event is lost, read twice, read before it is stored or taken for its
\* neighbour: what a reader has taken is what was reserved, in the order of the
\* reservations, whichever order the producers store and publish in.
NoLostEvent ==
    \A r \in Reader : /\ Len(read[r]) = cur_event_pos[r]
                       /\ cur_event_pos[r] <= Len(reserved)
                       /\ \A i \in 1 .. cur_event_pos[r] : read[r][i] = reserved[i]

\* The positions a producer holds: reserved, not published yet, and no other's.
HoldsPosition(p) ==
    ppc[p] # "idle" =>
      /\ last_ready_event_id <= event_pos[p] /\ event_pos[p] < next_free_event_id
      /\ reserved[event_pos[p] + 1] = event_id[p]
      /\ \A q \in Producer \ {p} : ppc[q] # "idle" => event_pos[q] # event_pos[p]

\* The ring is not overwritten under anybody's hands: a slot keeps the event
\* stored for a position from the store until QueueLen later positions have
\* been reserved, also while others store and publish around it.
NothingOverwritten ==
    /\ \A p \in Producer :
         /\ HoldsPosition(p)
         /\ ppc[p] = "publish" => slots[event_pos[p] % QueueLen] = event_id[p]
    /\ \A pos \in 0 .. last_ready_event_id - 1 :
         next_free_event_id <= pos + QueueLen =>
           slots[pos % QueueLen] = reserved[pos + 1]

\* The scheduler's assertion: the queue has not overflowed at the event it is
\* about to read (cur_event_pos + per_sched_queue_len > last_event_pos).
NotOverflown ==
    \A r \in Reader : Unread(r) => cur_event_pos[r] + QueueLen > last_event_pos[r]

\* The queue as Megakernel sees it: a log to which events are appended in one
\* step, at the moment they are published, and which every reader goes through.
Log == INSTANCE EventLog WITH
          log <- SubSeq(reserved, 1, last_ready_event_id),
          taken <- read
ImplementsLog == Log!Spec

\* Every event that has been reserved a position reaches every reader: the
\* producers that spin on the compare-and-swap wait for one another in the order
\* of their positions, so they cannot wait in a circle.
Delivered ==
    \A n \in 1 .. MaxEvents :
      next_free_event_id >= n ~> \A r \in Reader : Len(read[r]) >= n
=============================================================================
