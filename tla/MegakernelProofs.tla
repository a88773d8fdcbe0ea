--------------------------- MODULE MegakernelProofs ---------------------------
(***************************************************************************)
(* The megakernel's runtime, for every task graph, placement of the        *)
(* workers and number of blocks and iterations.                            *)
(*                                                                         *)
(* The first part proves type correctness, and with it that no block ever  *)
(* reads a queue behind its end.  The second proves that it is safe: no    *)
(* task starts before what it depends on, no tile runs twice or is left    *)
(* out, the counters and stamps of the iterations agree, a batch is        *)
(* prepared in quiet, a worker leaves an empty queue behind, the runtime   *)
(* implements the decoding loop, and queues of sufficient length are never *)
(* overrun.                                                                *)
(*                                                                         *)
(* The second part rests on one inductive invariant, IInv, a conjunction   *)
(* of ten parts.  The heart of it is that each tile has one place to be in *)
(* an iteration (TileOK): not given out yet, in one queue, or executed;    *)
(* that the two levels of counters count exactly the executed tiles and    *)
(* the XCDs that flushed (CountOK, FlushOK), so that an event that has     *)
(* fired stands for all the tasks before it (OrderOK); and that the end of *)
(* an iteration is one token, handed from the worker that completes the    *)
(* last event to a scheduler and with the BEGIN task back to a worker      *)
(* (TokenOK), or turned into the termination of all of them (EndingOK).    *)
(***************************************************************************)
EXTENDS Megakernel, FiniteSetTheorems, SequenceTheorems, TLAPS

\* No reader is past what has been published, and a worker that is executing or
\* counting a task has it loaded; a TERMINATE task is neither executed nor counted.
WorkerPositions ==
    \A w \in Worker :
      /\ done_task_pos[w] <= next_task_pos[w]
      /\ next_task_pos[w] <= last_task_pos[w]
      /\ last_task_pos[w] <= Len(worker_queues[w])
      /\ wpc[w] \in {"execute", "flush", "signal"} =>
           Loaded(w) /\ CurrentTask(w).pos # TerminateTask

\* A scheduler that handles an event is at a position that it knows published.
SchedPositions ==
    \A s \in Sched :
      /\ \A q \in Queue : /\ cur_event_pos[s][q] <= last_event_pos[s][q]
                          /\ last_event_pos[s][q] <= Len(sched_queues[q])
      /\ spc[s] \in {"prepare", "terminate", "dispatch"} => Unread(s)

Inv == TypeOK /\ WorkerPositions /\ SchedPositions

-----------------------------------------------------------------------------
(* The configuration and the graph.                                         *)

LEMMA Constants ==
    /\ NumXcds \in Nat \ {0} /\ NumWorkers \in Nat \ {0}
    /\ HwXcd \in [Worker -> Xcd]
    /\ Sched \subseteq Queue /\ Broadcast \in Queue /\ Xcd \subseteq Queue
    /\ TASK_DESCS_BUFFER_LENGTH \in Nat
    /\ TerminationEvent \in Event /\ LaunchEvent \in Event /\ EndEvent \in Event
    /\ TerminateTask \in Position /\ BeginTask \in Position /\ Task \subseteq Position
BY ConfigAssumption, GraphAssumption
   DEF Sched, Xcd, Queue, Broadcast, Worker, Event, TerminationEvent, LaunchEvent,
       EndEvent, Position, TerminateTask, BeginTask, FirstTask, Task

\* Every task but TERMINATE triggers an event.
LEMMA Triggers ==
    ASSUME NEW p \in Position, p # TerminateTask
    PROVE  AllTasks[p].trigger_event \in Event
<1>1. CASE p = BeginTask
  BY <1>1, GraphAssumption, Constants
<1>2. CASE p \in Task
  <2>1. /\ AllTasks[p].trigger_event > LaunchEvent
        /\ AllTasks[p].trigger_event \in Event \cup {NoEvent}
    BY <1>2, GraphAssumption
  <2> QED BY <2>1 DEF NoEvent, LaunchEvent
<1> QED BY <1>1, <1>2, GraphAssumption
        DEF Position, Task, TerminateTask, BeginTask, FirstTask

LEMMA TilesFinite ==
    /\ \A p \in Position : IsFiniteSet(TilesOf(p))
    /\ IsFiniteSet(Tile)
<1>1. ASSUME NEW p \in Position PROVE IsFiniteSet(TilesOf(p))
  <2>1. AllTasks[p].n_tile_count \in Nat
    BY GraphAssumption
  <2> QED BY <2>1, FS_Interval DEF TilesOf
<1> DEFINE tiles == [p \in Task |-> {p} \X TilesOf(p)]
           family == {{p} \X TilesOf(p) : p \in Task}
<1>2. IsFiniteSet(family)
  <2>1. IsFiniteSet(Task)
    <3>1. IsFiniteSet(Position)
      BY FS_Interval, GraphAssumption DEF Position
    <3> QED BY <3>1, FS_Subset DEF Task
  <2>2. tiles \in Surjection(Task, family)
    BY DEF Surjection
  <2> HIDE DEF tiles, family
  <2> QED BY <2>1, <2>2, FS_Surjection
<1>3. ASSUME NEW S \in family PROVE IsFiniteSet(S)
  <2>1. PICK p \in Task : S = {p} \X TilesOf(p)
    OBVIOUS
  <2>2. IsFiniteSet({p}) /\ IsFiniteSet(TilesOf(p))
    BY <1>1, Constants, FS_Singleton
  <2> QED BY <2>1, <2>2, FS_Product
<1> QED BY <1>1, <1>2, <1>3, FS_UNION DEF Tile
-----------------------------------------------------------------------------
LEMMA InitInv == Init => Inv
<1> SUFFICES ASSUME Init PROVE Inv
  OBVIOUS
<1>1. TypeOK
  BY Constants DEF Init, TypeOK
<1>2. WorkerPositions
  BY DEF Init, WorkerPositions
<1>3. SchedPositions
  BY Constants DEF Init, SchedPositions, Sched, Xcd, Queue
<1> QED BY <1>1, <1>2, <1>3 DEF Inv

\* The task a worker is at: it is in its queue, so it is a task id.
LEMMA LoadedTask ==
    ASSUME Inv, NEW w \in Worker, Loaded(w)
    PROVE  /\ CurrentTask(w) \in TaskIds
           /\ CurrentTask(w).pos \in Position /\ CurrentTask(w).iter \in Nat
<1>1. /\ done_task_pos[w] \in Nat /\ next_task_pos[w] \in Nat
      /\ last_task_pos[w] \in Nat /\ worker_queues[w] \in Seq(TaskIds)
  BY DEF Inv, TypeOK
<1>2. /\ done_task_pos[w] < next_task_pos[w] /\ next_task_pos[w] <= last_task_pos[w]
      /\ last_task_pos[w] <= Len(worker_queues[w])
  BY DEF Inv, WorkerPositions, Loaded
<1>3. done_task_pos[w] + 1 \in 1 .. Len(worker_queues[w])
  BY <1>1, <1>2
<1>4. CurrentTask(w) \in TaskIds
  BY <1>1, <1>3 DEF CurrentTask
<1> QED BY <1>4 DEF TaskIds

\* The end of a task moves the worker one position on, within what it loaded.
LEMMA FinishTaskInv ==
    ASSUME Inv, NEW w \in Worker, Loaded(w), FinishTask(w),
           UNCHANGED << worker_queues, loadVars >>
    PROVE  WorkerPositions' /\ wpc' \in [Worker -> {"map", "ready", "poll", "wait",
                                 "execute", "flush", "signal", "exit"}]
           /\ done_task_pos' \in [Worker -> Nat]
<1> USE DEF Inv, TypeOK, loadVars
<1>1. /\ done_task_pos' = [done_task_pos EXCEPT ![w] = done_task_pos[w] + 1]
      /\ wpc'[w] \in {"poll", "wait"}
      /\ \A v \in Worker \ {w} : wpc'[v] = wpc[v]
      /\ wpc' \in [Worker -> {"map", "ready", "poll", "wait",
                              "execute", "flush", "signal", "exit"}]
  BY DEF FinishTask
<1>2. ASSUME NEW v \in Worker
      PROVE  /\ done_task_pos'[v] <= next_task_pos'[v]
             /\ next_task_pos'[v] <= last_task_pos'[v]
             /\ last_task_pos'[v] <= Len(worker_queues'[v])
             /\ wpc'[v] \in {"execute", "flush", "signal"} =>
                  Loaded(v)' /\ CurrentTask(v)'.pos # TerminateTask
  <2>1. CASE v = w
    BY <2>1, <1>1 DEF WorkerPositions, Loaded
  <2>2. CASE v # w
    BY <2>2, <1>1 DEF WorkerPositions, Loaded, CurrentTask
  <2> QED BY <2>1, <2>2
<1> QED BY <1>1, <1>2 DEF WorkerPositions

\* What the workers do leaves the schedulers' positions as they are, or appends
\* to a queue.
LEMMA SchedPositionsKept ==
    ASSUME Inv, UNCHANGED << sched_queues, schedVars >>
    PROVE  SchedPositions'
BY DEF Inv, SchedPositions, schedVars, eventVars, Unread

LEMMA SchedPositionsGrow ==
    ASSUME Inv, UNCHANGED << spc, eventVars >>,
           sched_queues' \in [Queue -> Seq(Event)],
           \A q \in Queue : Len(sched_queues[q]) <= Len(sched_queues'[q])
    PROVE  SchedPositions'
<1>1. /\ spc' = spc /\ queue_idx' = queue_idx
      /\ cur_event_pos' = cur_event_pos /\ last_event_pos' = last_event_pos
  BY DEF eventVars
<1>2. ASSUME NEW s \in Sched, NEW q \in Queue
      PROVE  last_event_pos[s][q] <= Len(sched_queues'[q])
  <2>1. last_event_pos[s][q] \in Nat /\ last_event_pos[s][q] <= Len(sched_queues[q])
    BY DEF Inv, TypeOK, SchedPositions
  <2>2. Len(sched_queues[q]) \in Nat /\ Len(sched_queues'[q]) \in Nat
    BY DEF Inv, TypeOK
  <2> QED BY <2>1, <2>2
<1> QED BY <1>1, <1>2 DEF Inv, SchedPositions, Unread

\* A scheduler that moves on at an unread event, or goes to the next event.
LEMMA SchedPositionsMove ==
    ASSUME Inv, NEW s \in Sched,
           NEW pc \in {"poll", "prepare", "terminate", "dispatch", "exit"},
           Unread(s), spc' = [spc EXCEPT ![s] = pc],
           UNCHANGED << queue_idx, last_event_pos >>,
           \/ cur_event_pos' = cur_event_pos
           \/ NextEvent(s) /\ pc = "poll",
           sched_queues' \in [Queue -> Seq(Event)],
           \A q \in Queue : Len(sched_queues[q]) <= Len(sched_queues'[q])
    PROVE  /\ SchedPositions'
           /\ spc' \in [Sched -> {"boot", "poll", "prepare", "terminate", "dispatch", "exit"}]
           /\ cur_event_pos' \in [Sched -> [Queue -> Nat]]
<1> DEFINE h == queue_idx[s]
<1>1. /\ h \in Queue
      /\ spc \in [Sched -> {"boot", "poll", "prepare", "terminate", "dispatch", "exit"}]
      /\ cur_event_pos \in [Sched -> [Queue -> Nat]]
      /\ last_event_pos \in [Sched -> [Queue -> Nat]]
      /\ cur_event_pos[s][h] < last_event_pos[s][h]
  BY DEF Inv, TypeOK, Unread
<1>2. /\ spc' = [spc EXCEPT ![s] = pc] /\ queue_idx' = queue_idx
      /\ last_event_pos' = last_event_pos
      /\ \/ cur_event_pos' = cur_event_pos
         \/ cur_event_pos' = [cur_event_pos EXCEPT ![s][h] = @ + 1] /\ pc = "poll"
  BY DEF Goto, NextEvent
<1> HIDE DEF h
<1>3. /\ spc' \in [Sched -> {"boot", "poll", "prepare", "terminate", "dispatch", "exit"}]
      /\ cur_event_pos' \in [Sched -> [Queue -> Nat]]
  <2>1. spc' \in [Sched -> {"boot", "poll", "prepare", "terminate", "dispatch", "exit"}]
    BY <1>1, <1>2
  <2>2. cur_event_pos[s][h] + 1 \in Nat
    BY <1>1
  <2>3. [cur_event_pos EXCEPT ![s][h] = @ + 1] \in [Sched -> [Queue -> Nat]]
    BY <1>1, <2>2
  <2> QED BY <1>1, <1>2, <2>1, <2>3
<1>4. ASSUME NEW r \in Sched, NEW q \in Queue
      PROVE  /\ cur_event_pos'[r][q] <= last_event_pos'[r][q]
             /\ last_event_pos'[r][q] <= Len(sched_queues'[q])
  <2>1. /\ last_event_pos[r][q] <= Len(sched_queues[q])
        /\ cur_event_pos[r][q] <= last_event_pos[r][q]
    BY DEF Inv, SchedPositions
  <2>2. Len(sched_queues[q]) \in Nat /\ Len(sched_queues'[q]) \in Nat
    <3>1. sched_queues[q] \in Seq(Event)
      BY DEF Inv, TypeOK
    <3>2. sched_queues'[q] \in Seq(Event)
      OBVIOUS
    <3> QED BY <3>1, <3>2
  <2>3. \/ cur_event_pos'[r][q] = cur_event_pos[r][q]
        \/ r = s /\ q = h /\ cur_event_pos'[r][q] = cur_event_pos[r][q] + 1
    BY <1>1, <1>2
  <2>4. cur_event_pos'[r][q] <= last_event_pos'[r][q]
    BY <1>1, <1>2, <2>1, <2>3
  <2>5. last_event_pos'[r][q] <= Len(sched_queues'[q])
    BY <1>1, <1>2, <2>1, <2>2
  <2> QED BY <2>4, <2>5
<1>5. ASSUME NEW r \in Sched, spc'[r] \in {"prepare", "terminate", "dispatch"}
      PROVE  Unread(r)'
  <2>1. CASE r = s
    <3>1. pc # "poll" /\ cur_event_pos' = cur_event_pos
      BY <1>1, <1>2, <1>5, <2>1
    <3> QED BY <1>2, <2>1, <3>1 DEF Unread
  <2>2. CASE r # s
    <3>1. Unread(r)
      BY <1>1, <1>2, <1>5, <2>2 DEF Inv, SchedPositions
    <3>2. cur_event_pos'[r] = cur_event_pos[r]
      BY <1>1, <1>2, <2>2
    <3> QED BY <1>2, <3>1, <3>2 DEF Unread
  <2> QED BY <2>1, <2>2
<1> QED BY <1>3, <1>4, <1>5 DEF SchedPositions

LEMMA WorkerPositionsKept ==
    ASSUME Inv, UNCHANGED << worker_queues, workerVars >>
    PROVE  WorkerPositions'
BY DEF Inv, WorkerPositions, workerVars, loadVars, Loaded, CurrentTask

-----------------------------------------------------------------------------
(* The steps of a worker.                                                   *)

LEMMA MapXcdInv == ASSUME Inv, NEW w \in Worker, MapXcd(w) PROVE Inv'
<1>1. TypeOK'
  BY Constants DEF Inv, TypeOK, MapXcd, counters, loadVars, schedVars, eventVars, dispatchVars
<1>2. WorkerPositions'
  BY DEF Inv, TypeOK, WorkerPositions, MapXcd, loadVars, Loaded, CurrentTask
<1>3. SchedPositions'
  BY SchedPositionsKept DEF MapXcd
<1> QED BY <1>1, <1>2, <1>3 DEF Inv

LEMMA ReportReadyInv == ASSUME Inv, NEW w \in Worker, ReportReady(w) PROVE Inv'
<1>1. TypeOK'
  BY DEF Inv, TypeOK, ReportReady, counters, loadVars, schedVars, eventVars, dispatchVars
<1>2. WorkerPositions'
  BY DEF Inv, TypeOK, WorkerPositions, ReportReady, loadVars, Loaded, CurrentTask
<1>3. SchedPositions'
  BY SchedPositionsKept DEF ReportReady
<1> QED BY <1>1, <1>2, <1>3 DEF Inv

LEMMA LoadTasksInv == ASSUME Inv, NEW w \in Worker, LoadTasks(w) PROVE Inv'
<1> DEFINE known == IF next_task_pos[w] = last_task_pos[w]
                    THEN Len(worker_queues[w]) ELSE last_task_pos[w]
           n == known - next_task_pos[w]
           load == next_task_pos[w] + (IF n < TASK_DESCS_BUFFER_LENGTH
                                       THEN n ELSE TASK_DESCS_BUFFER_LENGTH)
<1>1. /\ n > 0 /\ known \in Nat /\ load \in Nat
      /\ next_task_pos[w] <= load /\ load <= known
      /\ known <= Len(worker_queues[w])
      /\ done_task_pos[w] <= next_task_pos[w]
  <2>1. /\ next_task_pos[w] \in Nat /\ last_task_pos[w] \in Nat
        /\ Len(worker_queues[w]) \in Nat
        /\ next_task_pos[w] <= last_task_pos[w]
        /\ last_task_pos[w] <= Len(worker_queues[w])
        /\ done_task_pos[w] <= next_task_pos[w]
    BY DEF Inv, TypeOK, WorkerPositions
  <2>2. n > 0
    BY DEF LoadTasks
  <2> QED BY <2>1, <2>2, Constants
<1>2. /\ last_task_pos' = [last_task_pos EXCEPT ![w] = known]
      /\ next_task_pos' = [next_task_pos EXCEPT ![w] = load]
      /\ wpc' = [wpc EXCEPT ![w] = "wait"]
      /\ UNCHANGED << shared, done_task_pos, flush_amount, executed, schedVars >>
  BY DEF LoadTasks
<1> HIDE DEF known, n, load
<1>3. TypeOK'
  BY <1>1, <1>2 DEF Inv, TypeOK, shared, counters, placement, schedVars, eventVars, dispatchVars
<1>4. WorkerPositions'
  <2> SUFFICES ASSUME NEW v \in Worker
               PROVE  /\ done_task_pos'[v] <= next_task_pos'[v]
                      /\ next_task_pos'[v] <= last_task_pos'[v]
                      /\ last_task_pos'[v] <= Len(worker_queues'[v])
                      /\ wpc'[v] \in {"execute", "flush", "signal"} =>
                           Loaded(v)' /\ CurrentTask(v)'.pos # TerminateTask
    BY DEF WorkerPositions
  <2>1. done_task_pos' = done_task_pos /\ worker_queues' = worker_queues
    BY <1>2 DEF shared
  <2>2. done_task_pos[w] \in Nat /\ next_task_pos[w] \in Nat
    BY DEF Inv, TypeOK
  <2>3. CASE v = w
    BY <2>1, <2>2, <2>3, <1>1, <1>2 DEF Inv, TypeOK
  <2>4. CASE v # w
    BY <2>1, <2>4, <1>2 DEF Inv, TypeOK, WorkerPositions, Loaded, CurrentTask
  <2> QED BY <2>3, <2>4
<1>5. SchedPositions'
  BY <1>2, SchedPositionsKept DEF shared
<1> QED BY <1>3, <1>4, <1>5 DEF Inv

LEMMA StartTaskInv == ASSUME Inv, NEW w \in Worker, StartTask(w) PROVE Inv'
<1>1. TypeOK'
  BY DEF Inv, TypeOK, StartTask, shared, counters, placement, loadVars, schedVars,
         eventVars, dispatchVars
<1>2. WorkerPositions'
  BY DEF Inv, TypeOK, WorkerPositions, StartTask, AtTask, shared, loadVars, Loaded, CurrentTask
<1>3. SchedPositions'
  BY SchedPositionsKept DEF StartTask, shared
<1> QED BY <1>1, <1>2, <1>3 DEF Inv

\* What a worker adds to a counter is a number.
LEMMA AmountsAreNumbers ==
    ASSUME Inv, NEW w \in Worker, NEW p \in Position
    PROVE  /\ LocalIncrement(w, p) \in Nat
           /\ \A threshold \in Nat : FlushAmount(p, threshold) \in Nat
<1>1. MyTiles(w, p) \subseteq TilesOf(p)
  BY DEF MyTiles
<1>2. Cardinality(MyTiles(w, p)) \in Nat
  BY <1>1, TilesFinite, FS_Subset, FS_CardinalityType
<1> QED BY <1>2 DEF LocalIncrement, FlushAmount

LEMMA CompleteTaskInv == ASSUME Inv, NEW w \in Worker, CompleteTask(w) PROVE Inv'
<1> DEFINE id == CurrentTask(w)
           e == AllTasks[id.pos].trigger_event
           x == HwXcd[w]
           threshold == xcd_event_num_tasks[x][e]
           increment == LocalIncrement(w, id.pos)
           local == xcd_local_event_counters[x][e] + increment
           amount == FlushAmount(id.pos, threshold)
<1>1. Loaded(w) /\ wpc[w] = "execute" /\ id.pos # TerminateTask
  BY DEF CompleteTask, AtTask, Inv, WorkerPositions
<1>2. id.pos \in Position /\ e \in Event /\ x \in Xcd
  BY <1>1, LoadedTask, Triggers, Constants
<1>3. threshold \in Nat /\ increment \in Nat /\ local \in Nat /\ amount \in Nat
  <2>1. threshold \in Nat /\ xcd_local_event_counters[x][e] \in Nat
    <3> HIDE DEF id, e, x
    <3> QED BY <1>2 DEF Inv, TypeOK
  <2>2. increment \in Nat /\ amount \in Nat
    <3> HIDE DEF id, e, x, threshold
    <3> QED BY <1>2, <2>1, AmountsAreNumbers
  <2> HIDE DEF id, e, x, threshold, increment, amount
  <2> QED BY <2>1, <2>2
<1>4. /\ executed' = [t \in Tile |-> IF t[1] = id.pos /\ t[2] \in MyTiles(w, id.pos)
                                     THEN executed[t] + 1 ELSE executed[t]]
      /\ xcd_local_event_counters' =
           IF threshold = 0 THEN xcd_local_event_counters
           ELSE [xcd_local_event_counters EXCEPT ![x][e] = local]
      /\ \/ /\ flush_amount' = [flush_amount EXCEPT ![w] = amount]
            /\ wpc' = [wpc EXCEPT ![w] = "flush"]
            /\ UNCHANGED done_task_pos
         \/ /\ FinishTask(w)
            /\ UNCHANGED flush_amount
      /\ UNCHANGED << worker_queues, sched_queues, all_event_counters,
                      xcd_event_num_tasks, placement, loadVars, schedVars >>
  BY DEF CompleteTask
<1> HIDE DEF id, e, x, threshold, increment, local, amount
<1>5. executed' \in [Tile -> Nat]
  BY <1>4 DEF Inv, TypeOK
<1>6. xcd_local_event_counters' \in [Xcd -> [Event -> Nat]]
  BY <1>2, <1>3, <1>4 DEF Inv, TypeOK
<1>7. /\ WorkerPositions'
      /\ wpc' \in [Worker -> {"map", "ready", "poll", "wait", "execute", "flush",
                              "signal", "exit"}]
      /\ done_task_pos' \in [Worker -> Nat] /\ flush_amount' \in [Worker -> Nat]
  <2>1. CASE FinishTask(w) /\ UNCHANGED flush_amount
    BY <2>1, <1>1, <1>4, FinishTaskInv DEF Inv, TypeOK
  <2>2. CASE /\ flush_amount' = [flush_amount EXCEPT ![w] = amount]
             /\ wpc' = [wpc EXCEPT ![w] = "flush"]
             /\ UNCHANGED done_task_pos
    BY <2>2, <1>1, <1>3, <1>4
       DEF Inv, TypeOK, WorkerPositions, Loaded, CurrentTask, loadVars, id
  <2> QED BY <2>1, <2>2, <1>4
<1>8. TypeOK'
  BY <1>4, <1>5, <1>6, <1>7
     DEF Inv, TypeOK, placement, loadVars, schedVars, eventVars, dispatchVars
<1>9. SchedPositions'
  BY <1>4, SchedPositionsKept
<1> QED BY <1>7, <1>8, <1>9 DEF Inv

LEMMA FlushToGlobalInv == ASSUME Inv, NEW w \in Worker, FlushToGlobal(w) PROVE Inv'
<1> DEFINE e == AllTasks[CurrentTask(w).pos].trigger_event
           count == all_event_counters[e] + flush_amount[w]
<1>1. Loaded(w) /\ wpc[w] = "flush" /\ CurrentTask(w).pos # TerminateTask
  BY DEF FlushToGlobal, AtTask, Inv, WorkerPositions
<1>2. e \in Event
  BY <1>1, LoadedTask, Triggers
<1>3. count \in Nat
  BY <1>2 DEF Inv, TypeOK
<1>4. /\ all_event_counters' = [all_event_counters EXCEPT ![e] = count]
      /\ flush_amount' = [flush_amount EXCEPT ![w] = 0]
      /\ \/ /\ wpc' = [wpc EXCEPT ![w] = "signal"]
            /\ UNCHANGED done_task_pos
         \/ FinishTask(w)
      /\ UNCHANGED << worker_queues, sched_queues, xcd_local_event_counters,
                      xcd_event_num_tasks, placement, loadVars, executed, schedVars >>
  BY DEF FlushToGlobal
<1> HIDE DEF e, count
<1>5. /\ WorkerPositions'
      /\ wpc' \in [Worker -> {"map", "ready", "poll", "wait", "execute", "flush",
                              "signal", "exit"}]
      /\ done_task_pos' \in [Worker -> Nat]
  <2>1. CASE FinishTask(w)
    BY <2>1, <1>1, <1>4, FinishTaskInv
  <2>2. CASE wpc' = [wpc EXCEPT ![w] = "signal"] /\ UNCHANGED done_task_pos
    BY <2>2, <1>1, <1>4 DEF Inv, TypeOK, WorkerPositions, Loaded, CurrentTask, loadVars
  <2> QED BY <2>1, <2>2, <1>4
<1>6. TypeOK'
  BY <1>2, <1>3, <1>4, <1>5
     DEF Inv, TypeOK, placement, loadVars, schedVars, eventVars, dispatchVars
<1>7. SchedPositions'
  BY <1>4, SchedPositionsKept
<1> QED BY <1>5, <1>6, <1>7 DEF Inv

\* An append leaves what has been read or published before where it is.
LEMMA AppendKeeps ==
    ASSUME NEW S, NEW q \in Seq(S), NEW v \in S
    PROVE  /\ Append(q, v) \in Seq(S)
           /\ Len(Append(q, v)) = Len(q) + 1
           /\ \A i \in 1 .. Len(q) : Append(q, v)[i] = q[i]
BY AppendProperties

\* An event appended to one of the queues.
LEMMA SchedQueuesAppend ==
    ASSUME Inv, NEW q \in Queue, NEW e \in Event,
           sched_queues' = [sched_queues EXCEPT ![q] = Append(@, e)]
    PROVE  /\ sched_queues' \in [Queue -> Seq(Event)]
           /\ \A r \in Queue : Len(sched_queues[r]) <= Len(sched_queues'[r])
<1>1. sched_queues \in [Queue -> Seq(Event)]
  BY DEF Inv, TypeOK
<1>2. /\ Append(sched_queues[q], e) \in Seq(Event)
      /\ Len(Append(sched_queues[q], e)) = Len(sched_queues[q]) + 1
      /\ Len(sched_queues[q]) \in Nat
  BY <1>1, AppendKeeps
<1> QED BY <1>1, <1>2

\* A task appended to the queue of a worker.
LEMMA PushTaskInv ==
    ASSUME Inv, NEW w \in Worker, NEW id \in TaskIds, PushTask(w, id),
           UNCHANGED workerVars
    PROVE  worker_queues' \in [Worker -> Seq(TaskIds)] /\ WorkerPositions'
<1>1. worker_queues \in [Worker -> Seq(TaskIds)]
  BY DEF Inv, TypeOK
<1>2. worker_queues' = [worker_queues EXCEPT ![w] = Append(worker_queues[w], id)]
  BY DEF PushTask
<1>3. /\ Append(worker_queues[w], id) \in Seq(TaskIds)
      /\ Len(Append(worker_queues[w], id)) = Len(worker_queues[w]) + 1
      /\ \A i \in 1 .. Len(worker_queues[w]) :
           Append(worker_queues[w], id)[i] = worker_queues[w][i]
  BY <1>1, AppendKeeps
<1>4. \A v \in Worker :
        /\ Len(worker_queues[v]) \in Nat /\ Len(worker_queues'[v]) \in Nat
        /\ Len(worker_queues[v]) <= Len(worker_queues'[v])
        /\ \A i \in 1 .. Len(worker_queues[v]) : worker_queues'[v][i] = worker_queues[v][i]
  BY <1>1, <1>2, <1>3
<1>5. ASSUME NEW v \in Worker
      PROVE  /\ done_task_pos'[v] <= next_task_pos'[v]
             /\ next_task_pos'[v] <= last_task_pos'[v]
             /\ last_task_pos'[v] <= Len(worker_queues'[v])
             /\ wpc'[v] \in {"execute", "flush", "signal"} =>
                  Loaded(v)' /\ CurrentTask(v)'.pos # TerminateTask
  <2>1. /\ wpc' = wpc /\ done_task_pos' = done_task_pos
        /\ next_task_pos' = next_task_pos /\ last_task_pos' = last_task_pos
    BY DEF workerVars, loadVars
  <2>2. /\ done_task_pos[v] \in Nat /\ next_task_pos[v] \in Nat /\ last_task_pos[v] \in Nat
        /\ done_task_pos[v] <= next_task_pos[v]
        /\ next_task_pos[v] <= last_task_pos[v]
        /\ last_task_pos[v] <= Len(worker_queues[v])
        /\ wpc[v] \in {"execute", "flush", "signal"} =>
             Loaded(v) /\ CurrentTask(v).pos # TerminateTask
    BY DEF Inv, TypeOK, WorkerPositions
  <2>3. last_task_pos[v] <= Len(worker_queues'[v])
    BY <2>2, <1>4
  <2>4. ASSUME Loaded(v)
        PROVE  CurrentTask(v)' = CurrentTask(v)
    <3>1. done_task_pos[v] + 1 \in 1 .. Len(worker_queues[v])
      BY <2>2, <2>4, <1>4 DEF Loaded
    <3> QED BY <3>1, <2>1, <1>4 DEF CurrentTask
  <2>5. Loaded(v)' <=> Loaded(v)
    BY <2>1 DEF Loaded
  <2> QED BY <2>1, <2>2, <2>3, <2>4, <2>5
<1> QED BY <1>1, <1>2, <1>3, <1>5 DEF WorkerPositions

LEMMA SignalEventInv == ASSUME Inv, NEW w \in Worker, SignalEvent(w) PROVE Inv'
<1> DEFINE e == AllTasks[CurrentTask(w).pos].trigger_event
           q == IF AllEvents[e].type = "LAUNCH_DEPENDENT_TASKS"
                THEN Broadcast ELSE HwXcd[w]
<1>1. Loaded(w) /\ CurrentTask(w).pos # TerminateTask
  BY DEF SignalEvent, AtTask, Inv, WorkerPositions
<1>2. e \in Event /\ q \in Queue
  BY <1>1, LoadedTask, Triggers, Constants
<1>3. /\ sched_queues' = [sched_queues EXCEPT ![q] = Append(@, e)]
      /\ FinishTask(w)
      /\ UNCHANGED << worker_queues, counters, placement, loadVars,
                      flush_amount, executed, schedVars >>
  BY DEF SignalEvent
<1> HIDE DEF e, q
<1>4. /\ sched_queues' \in [Queue -> Seq(Event)]
      /\ \A r \in Queue : Len(sched_queues[r]) <= Len(sched_queues'[r])
  BY <1>2, <1>3, SchedQueuesAppend
<1>5. /\ WorkerPositions'
      /\ wpc' \in [Worker -> {"map", "ready", "poll", "wait", "execute", "flush",
                              "signal", "exit"}]
      /\ done_task_pos' \in [Worker -> Nat]
  BY <1>1, <1>3, FinishTaskInv
<1>6. TypeOK'
  BY <1>3, <1>4, <1>5
     DEF Inv, TypeOK, counters, placement, loadVars, schedVars, eventVars, dispatchVars
<1>7. SchedPositions'
  BY <1>3, <1>4, SchedPositionsGrow DEF schedVars
<1> QED BY <1>5, <1>6, <1>7 DEF Inv

-----------------------------------------------------------------------------
(* The steps of a scheduler.                                                *)

LEMMA CollectWorkersInv == ASSUME Inv, NEW s \in Sched, CollectWorkers(s) PROVE Inv'
<1>1. /\ my_workers' = [my_workers EXCEPT ![s] = WorkersOn(s)]
      /\ spc' = [spc EXCEPT ![s] = "poll"]
      /\ UNCHANGED << shared, workerVars, eventVars, iteration_num,
                      next_worker_idx, loop_idx, to_dispatch >>
  BY DEF CollectWorkers, Goto
<1>2. WorkersOn(s) \subseteq Worker
  BY DEF WorkersOn
<1>3. TypeOK'
  BY <1>1, <1>2
     DEF Inv, TypeOK, shared, counters, placement, workerVars, loadVars, eventVars
<1>4. WorkerPositions'
  BY <1>1, WorkerPositionsKept DEF shared
<1>5. SchedPositions'
  <2>1. spc \in [Sched -> {"boot", "poll", "prepare", "terminate", "dispatch", "exit"}]
    BY DEF Inv, TypeOK
  <2> QED BY <1>1, <2>1 DEF Inv, SchedPositions, shared, eventVars, Unread
<1> QED BY <1>3, <1>4, <1>5 DEF Inv

LEMMA PollQueueInv == ASSUME Inv, NEW s \in Sched, PollQueue(s) PROVE Inv'
<1> DEFINE q == queue_idx[s]
           ready == Len(sched_queues[q])
           next == IF cur_event_pos[s][q] < ready THEN q ELSE OtherQueue(s)
<1>1. /\ spc[s] = "poll"
      /\ last_event_pos' = [last_event_pos EXCEPT ![s][q] = ready]
      /\ queue_idx' = [queue_idx EXCEPT ![s] = next]
      /\ UNCHANGED << shared, workerVars, spc, cur_event_pos, dispatchVars >>
  BY DEF PollQueue
<1>2. q \in Queue /\ ready \in Nat /\ next \in Queue
  <2>1. q \in Queue /\ sched_queues[q] \in Seq(Event)
    BY DEF Inv, TypeOK
  <2> QED BY <2>1, Constants DEF OtherQueue
<1>3. cur_event_pos[s][q] <= ready
  <2>1. /\ cur_event_pos[s][q] \in Nat /\ last_event_pos[s][q] \in Nat
    BY <1>2 DEF Inv, TypeOK
  <2>2. cur_event_pos[s][q] <= last_event_pos[s][q] /\ last_event_pos[s][q] <= ready
    BY <1>2 DEF Inv, SchedPositions
  <2> QED BY <1>2, <2>1, <2>2
<1>4. sched_queues' = sched_queues
  BY <1>1 DEF shared
<1>5. ready = Len(sched_queues[q])
  OBVIOUS
<1> HIDE DEF q, ready, next
<1>6. TypeOK'
  BY <1>1, <1>2
     DEF Inv, TypeOK, shared, counters, placement, workerVars, loadVars, dispatchVars
<1>7. WorkerPositions'
  BY <1>1, WorkerPositionsKept DEF shared
<1>8. SchedPositions'
  <2> SUFFICES ASSUME NEW r \in Sched
               PROVE  /\ \A p \in Queue : /\ cur_event_pos'[r][p] <= last_event_pos'[r][p]
                                          /\ last_event_pos'[r][p] <= Len(sched_queues'[p])
                      /\ spc'[r] \in {"prepare", "terminate", "dispatch"} => Unread(r)'
    BY DEF SchedPositions
  <2>1. CASE r = s
    <3>1. spc'[r] = "poll"
      BY <1>1, <2>1
    <3>2. ASSUME NEW p \in Queue
          PROVE  /\ cur_event_pos'[r][p] <= last_event_pos'[r][p]
                 /\ last_event_pos'[r][p] <= Len(sched_queues'[p])
      <4>1. CASE p = q
        <5>1. last_event_pos'[r][p] = ready
          BY <1>1, <1>2, <2>1, <4>1 DEF Inv, TypeOK
        <5> QED BY <1>1, <1>2, <1>3, <1>4, <1>5, <2>1, <4>1, <5>1
      <4>2. CASE p # q
        <5>1. last_event_pos'[r][p] = last_event_pos[r][p]
          BY <1>1, <1>2, <2>1, <4>2 DEF Inv, TypeOK
        <5> QED BY <1>1, <1>4, <5>1 DEF Inv, SchedPositions
      <4> QED BY <4>1, <4>2
    <3> QED BY <3>1, <3>2
  <2>2. CASE r # s
    <3>1. last_event_pos'[r] = last_event_pos[r] /\ queue_idx'[r] = queue_idx[r]
      BY <1>1, <2>2 DEF Inv, TypeOK
    <3> QED BY <1>1, <1>4, <3>1 DEF Inv, SchedPositions, Unread
  <2> QED BY <2>1, <2>2
<1> QED BY <1>6, <1>7, <1>8 DEF Inv

LEMMA EndOfTaskGraphInv == ASSUME Inv, NEW s \in Sched, EndOfTaskGraph(s) PROVE Inv'
<1>1. /\ Unread(s) /\ Goto(s, "prepare")
      /\ UNCHANGED << shared, workerVars, eventVars, dispatchVars >>
  BY DEF EndOfTaskGraph, AtEvent
<1>2. /\ sched_queues' = sched_queues
      /\ UNCHANGED << queue_idx, last_event_pos >>
      /\ UNCHANGED cur_event_pos
  BY <1>1 DEF shared, eventVars
<1>3. /\ sched_queues' \in [Queue -> Seq(Event)]
      /\ \A q \in Queue : Len(sched_queues[q]) <= Len(sched_queues'[q])
  <2>1. sched_queues \in [Queue -> Seq(Event)]
    BY DEF Inv, TypeOK
  <2> QED BY <1>2, <2>1
<1>4. /\ SchedPositions'
      /\ spc' \in [Sched -> {"boot", "poll", "prepare", "terminate", "dispatch", "exit"}]
  BY <1>1, <1>2, <1>3, SchedPositionsMove DEF Goto
<1>5. TypeOK'
  BY <1>1, <1>4
     DEF Inv, TypeOK, shared, counters, placement, workerVars, loadVars, eventVars, dispatchVars
<1>6. WorkerPositions'
  BY <1>1, WorkerPositionsKept DEF shared
<1> QED BY <1>4, <1>5, <1>6 DEF Inv

\* A step that pushes no event leaves the queues' lengths alone.
LEMMA SchedQueuesKept ==
    ASSUME Inv, UNCHANGED sched_queues
    PROVE  /\ sched_queues' \in [Queue -> Seq(Event)]
           /\ \A q \in Queue : Len(sched_queues[q]) <= Len(sched_queues'[q])
<1>1. sched_queues \in [Queue -> Seq(Event)]
  BY DEF Inv, TypeOK
<1> QED BY <1>1

\* The worker at a round-robin index, and the index moving on: the workers of a
\* scheduler are finitely many, and when one of them is at the index, not none.
LEMMA WorkersAreSome ==
    ASSUME Inv, NEW s \in Sched
    PROVE  /\ IsFiniteSet(my_workers[s]) /\ Cardinality(my_workers[s]) \in Nat
           /\ \A w \in my_workers[s] : Cardinality(my_workers[s]) > 0
<1>1. my_workers[s] \subseteq Worker
  BY DEF Inv, TypeOK
<1>2. IsFiniteSet(Worker)
  BY Constants, FS_Interval DEF Worker
<1>3. IsFiniteSet(my_workers[s]) /\ Cardinality(my_workers[s]) \in Nat
  BY <1>1, <1>2, FS_Subset, FS_CardinalityType
<1>4. ASSUME NEW w \in my_workers[s] PROVE Cardinality(my_workers[s]) # 0
  BY <1>3, <1>4, FS_EmptySet
<1> QED BY <1>3, <1>4

LEMMA AdvanceWorkerIdxType ==
    ASSUME Inv, NEW s \in Sched, NEW w \in my_workers[s], AdvanceWorkerIdx(s)
    PROVE  next_worker_idx' \in [Sched -> Nat]
<1>1. /\ next_worker_idx \in [Sched -> Nat]
      /\ next_worker_idx' = [next_worker_idx EXCEPT ![s] =
                               (@ + 1) % Cardinality(my_workers[s])]
  BY DEF Inv, TypeOK, AdvanceWorkerIdx
<1>2. Cardinality(my_workers[s]) \in Nat /\ Cardinality(my_workers[s]) > 0
  BY WorkersAreSome
<1> DEFINE next == (next_worker_idx[s] + 1) % Cardinality(my_workers[s])
<1>3. next \in Nat
  BY <1>1, <1>2
<1>4. next_worker_idx' = [next_worker_idx EXCEPT ![s] = next]
  BY <1>1
<1> HIDE DEF next
<1> QED BY <1>1, <1>3, <1>4

LEMMA TerminateWorkersInv == ASSUME Inv, NEW s \in Sched, TerminateWorkers(s) PROVE Inv'
<1>1. /\ Unread(s)
      /\ UNCHANGED << sched_queues, counters, placement, workerVars, eventVars,
                      my_workers, iteration_num, next_worker_idx, to_dispatch >>
      /\ \/ /\ \E w \in Worker : PushTask(w, TaskId(0, TerminateTask))
            /\ loop_idx' = [loop_idx EXCEPT ![s] = @ + 1]
            /\ UNCHANGED spc
         \/ /\ Goto(s, "exit")
            /\ UNCHANGED << worker_queues, loop_idx >>
  BY DEF TerminateWorkers, AtEvent
<1>2. /\ sched_queues' \in [Queue -> Seq(Event)]
      /\ \A q \in Queue : Len(sched_queues[q]) <= Len(sched_queues'[q])
  BY <1>1, SchedQueuesKept
<1>3. CASE /\ \E w \in Worker : PushTask(w, TaskId(0, TerminateTask))
           /\ loop_idx' = [loop_idx EXCEPT ![s] = @ + 1]
           /\ UNCHANGED spc
  <2>1. PICK w \in Worker : PushTask(w, TaskId(0, TerminateTask))
    BY <1>3
  <2>2. TaskId(0, TerminateTask) \in TaskIds
    BY Constants DEF TaskId, TaskIds
  <2>3. worker_queues' \in [Worker -> Seq(TaskIds)] /\ WorkerPositions'
    BY <1>1, <2>1, <2>2, PushTaskInv
  <2>4. SchedPositions'
    BY <1>1, <1>2, <1>3, SchedPositionsGrow
  <2>5. loop_idx' \in [Sched -> Nat]
    BY <1>3 DEF Inv, TypeOK
  <2>6. TypeOK'
    BY <1>1, <1>3, <2>3, <2>5
       DEF Inv, TypeOK, counters, placement, workerVars, loadVars, eventVars
  <2> QED BY <2>3, <2>4, <2>6 DEF Inv
<1>4. CASE Goto(s, "exit") /\ UNCHANGED << worker_queues, loop_idx >>
  <2>1. UNCHANGED << queue_idx, last_event_pos >> /\ UNCHANGED cur_event_pos
    BY <1>1 DEF eventVars
  <2>2. /\ SchedPositions'
        /\ spc' \in [Sched -> {"boot", "poll", "prepare", "terminate", "dispatch", "exit"}]
    BY <1>1, <1>2, <1>4, <2>1, SchedPositionsMove DEF Goto
  <2>3. WorkerPositions'
    BY <1>1, <1>4, WorkerPositionsKept
  <2>4. TypeOK'
    BY <1>1, <1>4, <2>2
       DEF Inv, TypeOK, counters, placement, workerVars, loadVars, eventVars
  <2> QED BY <2>2, <2>3, <2>4 DEF Inv
<1> QED BY <1>1, <1>3, <1>4

LEMMA BeginIterationInv == ASSUME Inv, NEW s \in Sched, BeginIteration(s) PROVE Inv'
<1>1. /\ spc[s] = "prepare" /\ AdvanceWorkerIdx(s) /\ NextEvent(s) /\ Goto(s, "poll")
      /\ UNCHANGED << sched_queues, counters, placement, workerVars, queue_idx,
                      last_event_pos, my_workers, iteration_num, loop_idx,
                      to_dispatch >>
  BY DEF BeginIteration
<1>2. PICK w \in Worker : /\ w \in my_workers[s]
                          /\ PushTask(w, TaskId(iteration_num[s] + 1, BeginTask))
  BY DEF BeginIteration, WorkerAt
<1>3. TaskId(iteration_num[s] + 1, BeginTask) \in TaskIds
  <2>1. iteration_num[s] \in Nat
    BY DEF Inv, TypeOK
  <2> QED BY <2>1, Constants DEF TaskId, TaskIds
<1>4. worker_queues' \in [Worker -> Seq(TaskIds)] /\ WorkerPositions'
  BY <1>1, <1>2, <1>3, PushTaskInv
<1>5. next_worker_idx' \in [Sched -> Nat]
  BY <1>1, <1>2, AdvanceWorkerIdxType
<1>6. /\ SchedPositions'
      /\ spc' \in [Sched -> {"boot", "poll", "prepare", "terminate", "dispatch", "exit"}]
      /\ cur_event_pos' \in [Sched -> [Queue -> Nat]]
  <2>1. Unread(s)
    BY <1>1 DEF Inv, SchedPositions
  <2>2. /\ sched_queues' \in [Queue -> Seq(Event)]
        /\ \A q \in Queue : Len(sched_queues[q]) <= Len(sched_queues'[q])
    BY <1>1, SchedQueuesKept
  <2> QED BY <1>1, <2>1, <2>2, SchedPositionsMove DEF Goto
<1>7. TypeOK'
  BY <1>1, <1>4, <1>5, <1>6
     DEF Inv, TypeOK, counters, placement, workerVars, loadVars
<1> QED BY <1>4, <1>6, <1>7 DEF Inv

LEMMA TerminateSchedulersInv ==
    ASSUME Inv, NEW s \in Sched, TerminateSchedulers(s) PROVE Inv'
<1>1. /\ spc[s] \in {"prepare", "terminate"}
      /\ UNCHANGED << worker_queues, counters, placement, workerVars, queue_idx,
                      last_event_pos, my_workers, iteration_num, next_worker_idx,
                      to_dispatch >>
  BY DEF TerminateSchedulers
<1>2. Unread(s)
  BY <1>1 DEF Inv, SchedPositions
<1>3. WorkerPositions'
  BY <1>1, WorkerPositionsKept
<1>4. loop_idx \in [Sched -> Nat]
  BY DEF Inv, TypeOK
<1>5. CASE loop_idx[s] < NumXcds
  <2>1. /\ sched_queues' = [sched_queues EXCEPT ![loop_idx[s]] = Append(@, TerminationEvent)]
        /\ loop_idx' = [loop_idx EXCEPT ![s] = @ + 1]
        /\ Goto(s, "terminate")
        /\ cur_event_pos' = cur_event_pos
    BY <1>5 DEF TerminateSchedulers
  <2>2. loop_idx[s] \in Queue
    BY <1>4, <1>5, Constants DEF Queue
  <2>3. /\ sched_queues' \in [Queue -> Seq(Event)]
        /\ \A q \in Queue : Len(sched_queues[q]) <= Len(sched_queues'[q])
    BY <2>1, <2>2, Constants, SchedQueuesAppend
  <2>4. /\ SchedPositions'
        /\ spc' \in [Sched -> {"boot", "poll", "prepare", "terminate", "dispatch", "exit"}]
        /\ cur_event_pos' \in [Sched -> [Queue -> Nat]]
    BY <1>1, <1>2, <2>1, <2>3, SchedPositionsMove DEF Goto
  <2>5. loop_idx' \in [Sched -> Nat]
    BY <2>1, <1>4
  <2>6. TypeOK'
    BY <1>1, <2>3, <2>4, <2>5 DEF Inv, TypeOK, counters, placement, workerVars, loadVars
  <2> QED BY <1>3, <2>4, <2>6 DEF Inv
<1>6. CASE ~(loop_idx[s] < NumXcds)
  <2>1. /\ loop_idx' = [loop_idx EXCEPT ![s] = 0]
        /\ NextEvent(s) /\ Goto(s, "poll")
        /\ UNCHANGED sched_queues
    BY <1>6 DEF TerminateSchedulers
  <2>2. /\ sched_queues' \in [Queue -> Seq(Event)]
        /\ \A q \in Queue : Len(sched_queues[q]) <= Len(sched_queues'[q])
    BY <2>1, SchedQueuesKept
  <2>3. /\ SchedPositions'
        /\ spc' \in [Sched -> {"boot", "poll", "prepare", "terminate", "dispatch", "exit"}]
        /\ cur_event_pos' \in [Sched -> [Queue -> Nat]]
    BY <1>1, <1>2, <2>1, <2>2, SchedPositionsMove DEF Goto
  <2>4. loop_idx' \in [Sched -> Nat]
    BY <2>1, <1>4
  <2>5. TypeOK'
    BY <1>1, <2>2, <2>3, <2>4 DEF Inv, TypeOK, counters, placement, workerVars, loadVars
  <2> QED BY <1>3, <2>3, <2>5 DEF Inv
<1> QED BY <1>5, <1>6

\* After a push, or the launch without any: the next task or the next event.
LEMMA AfterDispatchInv ==
    ASSUME Inv, NEW s \in Sched, Unread(s), NEW rest \in SUBSET Task,
           AfterDispatch(s, rest),
           UNCHANGED << queue_idx, last_event_pos >>, UNCHANGED sched_queues
    PROVE  /\ SchedPositions'
           /\ spc' \in [Sched -> {"boot", "poll", "prepare", "terminate", "dispatch", "exit"}]
           /\ cur_event_pos' \in [Sched -> [Queue -> Nat]]
           /\ to_dispatch' \in [Sched -> SUBSET Task]
<1>1. to_dispatch' \in [Sched -> SUBSET Task]
  BY DEF Inv, TypeOK, AfterDispatch
<1>2. /\ sched_queues' \in [Queue -> Seq(Event)]
      /\ \A q \in Queue : Len(sched_queues[q]) <= Len(sched_queues'[q])
  BY SchedQueuesKept
<1>3. CASE rest = {}
  <2>1. NextEvent(s) /\ spc' = [spc EXCEPT ![s] = "poll"]
    BY <1>3 DEF AfterDispatch, Goto
  <2> QED BY <1>1, <1>2, <2>1, SchedPositionsMove
<1>4. CASE rest # {}
  <2>1. cur_event_pos' = cur_event_pos /\ spc' = [spc EXCEPT ![s] = "dispatch"]
    BY <1>4 DEF AfterDispatch, Goto
  <2> QED BY <1>1, <1>2, <2>1, SchedPositionsMove
<1> QED BY <1>3, <1>4

LEMMA LaunchTasksInv == ASSUME Inv, NEW s \in Sched, LaunchTasks(s) PROVE Inv'
<1> DEFINE share == Share(s, my_workers[s])
           Counted(e) == {t \in Tile : t[1] \in share /\ AllTasks[t[1]].trigger_event = e}
           counted == [xcd_event_num_tasks EXCEPT ![s] =
                         [e \in Event |-> xcd_event_num_tasks[s][e] + Cardinality(Counted(e))]]
<1>1. /\ Unread(s)
      /\ iteration_num' = [iteration_num EXCEPT ![s] = iteration_num[s] + 1]
      /\ xcd_event_num_tasks' \in {xcd_event_num_tasks, counted}
      /\ AfterDispatch(s, share)
      /\ UNCHANGED << worker_queues, sched_queues, all_event_counters,
                      xcd_local_event_counters, placement, workerVars,
                      queue_idx, last_event_pos, my_workers, next_worker_idx,
                      loop_idx >>
  BY DEF LaunchTasks, AtEvent, IterationToLaunch
<1>2. share \in SUBSET Task
  BY DEF Share
<1>3. xcd_event_num_tasks' \in [Xcd -> [Event -> Nat]]
  <2>1. ASSUME NEW e \in Event PROVE Cardinality(Counted(e)) \in Nat
    BY TilesFinite, FS_Subset, FS_CardinalityType
  <2>2. xcd_event_num_tasks \in [Xcd -> [Event -> Nat]] /\ s \in Xcd
    BY DEF Inv, TypeOK, Sched
  <2> HIDE DEF Counted
  <2>3. [e \in Event |-> xcd_event_num_tasks[s][e] + Cardinality(Counted(e))]
          \in [Event -> Nat]
    BY <2>1, <2>2
  <2>4. counted \in [Xcd -> [Event -> Nat]]
    BY <2>2, <2>3
  <2> QED BY <1>1, <2>2, <2>4
<1>4. iteration_num' \in [Sched -> Nat]
  BY <1>1 DEF Inv, TypeOK
<1> HIDE DEF share, counted
<1>5. /\ SchedPositions'
      /\ spc' \in [Sched -> {"boot", "poll", "prepare", "terminate", "dispatch", "exit"}]
      /\ cur_event_pos' \in [Sched -> [Queue -> Nat]]
      /\ to_dispatch' \in [Sched -> SUBSET Task]
  BY <1>1, <1>2, AfterDispatchInv
<1>6. WorkerPositions'
  BY <1>1, WorkerPositionsKept
<1>7. TypeOK'
  BY <1>1, <1>3, <1>4, <1>5 DEF Inv, TypeOK, placement, workerVars, loadVars
<1> QED BY <1>5, <1>6, <1>7 DEF Inv

LEMMA DispatchTaskInv == ASSUME Inv, NEW s \in Sched, DispatchTask(s) PROVE Inv'
<1> DEFINE Last(p) == \/ ~IsGang(p)
                      \/ loop_idx[s] + 1 = Cardinality(my_workers[s])
                      \/ loop_idx[s] + 1 = AllTasks[p].n_tile_count
           Rest(p) == IF Last(p) THEN to_dispatch[s] \ {p} ELSE to_dispatch[s]
           NextIdx(p) == IF Last(p) THEN 0 ELSE loop_idx[s] + 1
<1>1. loop_idx[s] \in Nat
  BY DEF Inv, TypeOK
<1>2. PICK p \in to_dispatch[s], w \in Worker :
        /\ spc[s] = "dispatch" /\ w \in my_workers[s]
        /\ PushTask(w, TaskId(iteration_num[s], p))
        /\ \/ next_worker_idx' = next_worker_idx
           \/ AdvanceWorkerIdx(s)
        /\ loop_idx' = [loop_idx EXCEPT ![s] = NextIdx(p)]
        /\ AfterDispatch(s, Rest(p))
        /\ UNCHANGED << sched_queues, counters, placement, workerVars,
                        queue_idx, last_event_pos, my_workers, iteration_num >>
  BY <1>1 DEF DispatchTask, WorkerAt
<1> DEFINE rest == Rest(p)
           next == NextIdx(p)
<1>3. rest \in SUBSET to_dispatch[s] /\ next \in Nat
  BY <1>1
<1> HIDE DEF Rest, NextIdx, Last
<1>4. /\ to_dispatch[s] \in SUBSET Task /\ iteration_num[s] \in Nat
      /\ loop_idx \in [Sched -> Nat]
  BY DEF Inv, TypeOK
<1>5. TaskId(iteration_num[s], p) \in TaskIds
  BY <1>4, Constants DEF TaskId, TaskIds
<1>6. worker_queues' \in [Worker -> Seq(TaskIds)] /\ WorkerPositions'
  BY <1>2, <1>5, PushTaskInv
<1>7. next_worker_idx' \in [Sched -> Nat]
  BY <1>2, AdvanceWorkerIdxType DEF Inv, TypeOK
<1>8. loop_idx' \in [Sched -> Nat]
  BY <1>2, <1>4, <1>3
<1>9. /\ SchedPositions'
      /\ spc' \in [Sched -> {"boot", "poll", "prepare", "terminate", "dispatch", "exit"}]
      /\ cur_event_pos' \in [Sched -> [Queue -> Nat]]
      /\ to_dispatch' \in [Sched -> SUBSET Task]
  <2>1. Unread(s)
    BY <1>2 DEF Inv, SchedPositions
  <2> QED BY <1>2, <1>4, <1>3, <2>1, AfterDispatchInv
<1>10. TypeOK'
  BY <1>2, <1>6, <1>7, <1>8, <1>9 DEF Inv, TypeOK, counters, placement, workerVars, loadVars
<1> QED BY <1>6, <1>9, <1>10 DEF Inv

-----------------------------------------------------------------------------
LEMMA StutterInv == ASSUME Inv, UNCHANGED vars PROVE Inv'
<1>1. UNCHANGED << shared, workerVars, schedVars >>
  BY DEF vars
<1>2. WorkerPositions' /\ SchedPositions'
  BY <1>1, WorkerPositionsKept, SchedPositionsKept DEF shared
<1>3. TypeOK'
  BY <1>1 DEF Inv, TypeOK, shared, counters, placement, workerVars, loadVars,
              schedVars, eventVars, dispatchVars
<1> QED BY <1>2, <1>3 DEF Inv

\* Every step of every block preserves the invariant.
LEMMA InvInductive == Inv /\ [Next]_vars => Inv'
<1> SUFFICES ASSUME Inv, [Next]_vars PROVE Inv'
  OBVIOUS
<1>1. CASE \E w \in Worker : WorkerStep(w)
  BY <1>1, MapXcdInv, ReportReadyInv, LoadTasksInv, StartTaskInv, CompleteTaskInv,
     FlushToGlobalInv, SignalEventInv DEF WorkerStep
<1>2. CASE \E s \in Sched : SchedStep(s)
  BY <1>2, CollectWorkersInv, PollQueueInv, TerminateWorkersInv, EndOfTaskGraphInv,
     BeginIterationInv, TerminateSchedulersInv, LaunchTasksInv, DispatchTaskInv
     DEF SchedStep
<1>3. CASE UNCHANGED vars \/ Finished
  BY <1>3, StutterInv DEF Finished
<1> QED BY <1>1, <1>2, <1>3 DEF Next

LEMMA SpecInv == Spec => []Inv
BY InitInv, InvInductive, PTL DEF Spec

\* The shared counters and queues and the blocks' local variables keep their
\* types (RuntimeConfig and the locals of execute_worker and execute_scheduler),
\* for every graph, placement and queue length.
THEOREM TypeCorrect == Spec => []TypeOK
<1>1. Inv => TypeOK
  BY DEF Inv
<1> QED BY <1>1, SpecInv, PTL

\* No worker executes and no scheduler handles a position of a queue that has
\* not been published, and no reader believes in more than is there: whatever
\* the others do between the polls of execute_worker and execute_scheduler.
THEOREM OnlyPublishedRead == Spec => [](WorkerPositions /\ SchedPositions)
<1>1. Inv => WorkerPositions /\ SchedPositions
  BY DEF Inv
<1> QED BY <1>1, SpecInv, PTL

-----------------------------------------------------------------------------
(* The task graph and the placement, seen from an XCD.                      *)

\* The tasks an XCD is given, those of them that trigger an event, and their
\* tiles, which are what the XCD counts for the event.
EventOf(p) == AllTasks[p].trigger_event
NumTriggers(e) == AllEvents[e].num_triggers
WorkersAt(x) == {w \in Worker : HwXcd[w] = x}
ShareOf(x) == {p \in Task : Owner(p) = x}
Feeders(x, e) == {p \in ShareOf(x) : EventOf(p) = e}
Counted(x, e) == {t \in Tile : t[1] \in Feeders(x, e)}

\* The tiles of a task that fall to a worker, once all of its XCD are known.
TilesFor(w, p) ==
    IF IsGang(p)
    THEN {k \in TilesOf(p) : k % Cardinality(WorkersAt(HwXcd[w]))
                               = RankIn(WorkersAt(HwXcd[w]), w)}
    ELSE TilesOf(p)

-----------------------------------------------------------------------------
(* The parts of the invariant.                                              *)

\* No scheduler counts its workers before all have reported, and nothing is
\* queued before that.
BootOK ==
    /\ \A w \in Worker :
         worker_xcd_map[w] = IF wpc[w] = "map" THEN -1 ELSE HwXcd[w]
    /\ worker_xcd_ready_count = Cardinality({w \in Worker : wpc[w] \notin {"map", "ready"}})
    /\ \A s \in Sched : spc[s] # "boot" =>
         /\ my_workers[s] = WorkersAt(s)
         /\ \A w \in Worker : wpc[w] \notin {"map", "ready"}
    /\ (\E v \in Worker : wpc[v] \in {"map", "ready"}) =>
         \A w \in Worker : Len(worker_queues[w]) = 0

\* What scheduler s is at, and what it counts with.
SchedGood(s) ==
    /\ queue_idx[s] \in {s, Broadcast}
    /\ spc[s] = "dispatch" <=> to_dispatch[s] # {}
    /\ spc[s] = "dispatch" => queue_idx[s] = Broadcast
    /\ spc[s] \in {"prepare", "terminate"} =>
         queue_idx[s] = s /\ CurrentEvent(s) = EndEvent
    /\ spc[s] = "exit" => Unread(s) /\ CurrentEvent(s) = TerminationEvent
    /\ iteration_num[s] = cur_event_pos[s][Broadcast]
                            + (IF spc[s] = "dispatch" THEN 1 ELSE 0)
    /\ to_dispatch[s] \subseteq ShareOf(s)
    /\ \/ spc[s] \in {"boot", "prepare"}
       \/ spc[s] = "poll" /\ ~(Unread(s) /\ CurrentEvent(s) = TerminationEvent)
       => loop_idx[s] = 0
    /\ \A p \in to_dispatch[s] :
         IsGang(p) /\ (\A r \in to_dispatch[s] : p <= r) =>
           /\ loop_idx[s] < Cardinality(WorkersAt(s))
           /\ loop_idx[s] < AllTasks[p].n_tile_count

\* What the queues of the schedulers can hold.
LogsOK ==
    /\ \A s \in Sched : \A i \in 1 .. Len(sched_queues[s]) :
         sched_queues[s][i] \in {EndEvent, TerminationEvent}
    /\ \A i \in 1 .. Len(sched_queues[Broadcast]) :
         sched_queues[Broadcast][i] = LaunchEvent

SchedOK == (\A s \in Sched : SchedGood(s)) /\ LogsOK

BeginSignal(w) == wpc[w] = "signal" /\ CurrentTask(w).pos = BeginTask

\* A launch event follows each count of the BEGIN task's event, one at a time,
\* and a scheduler with a share lags by one iteration at most.
LaunchOK ==
    /\ Len(sched_queues[Broadcast]) <= Launched
    /\ \A w \in Worker : BeginSignal(w) => Len(sched_queues[Broadcast]) < Launched
    /\ \A w, v \in Worker : BeginSignal(w) /\ BeginSignal(v) => w = v
    /\ \A s \in Sched :
         /\ ShareOf(s) # {} => iteration_num[s] >= Launched - 1
         /\ to_dispatch[s] # {} => iteration_num[s] = Launched
         /\ \A e \in Event : xcd_event_num_tasks[s][e] =
              IF iteration_num[s] = 0 THEN 0 ELSE Cardinality(Counted(s, e))

\* The tasks a worker has not finished, and those whose counting is to come.
Pos(w, i) == worker_queues[w][i].pos
Queued(w) == done_task_pos[w] + 1 .. Len(worker_queues[w])
Todo(w) == {i \in Queued(w) : i = done_task_pos[w] + 1 => wpc[w] \notin {"flush", "signal"}}
BeginAt(w) == {i \in Queued(w) : /\ Pos(w, i) = BeginTask
                                 /\ i = done_task_pos[w] + 1 => wpc[w] # "signal"}

\* A worker is given tasks of its XCD only, and those with tiles for it; what it
\* has not finished is of the current iteration.
QueueOK ==
    \A w \in Worker :
      /\ \A i \in 1 .. Len(worker_queues[w]) :
           /\ Pos(w, i) = TerminateTask => worker_queues[w][i].iter = 0
           /\ Pos(w, i) \in Task => /\ Owner(Pos(w, i)) = HwXcd[w]
                                    /\ TilesFor(w, Pos(w, i)) # {}
      /\ \A i \in Queued(w) :
           /\ Pos(w, i) \in Task => worker_queues[w][i].iter = Launched
           /\ Pos(w, i) = BeginTask =>
                worker_queues[w][i].iter = IF i \in BeginAt(w) THEN Launched + 1 ELSE Launched

\* Whether a tile of task p may still be given out by scheduler s.
Undispatched(s, p, k) ==
    /\ p \in to_dispatch[s]
    /\ IsGang(p) /\ (\A r \in to_dispatch[s] : p <= r) =>
         k % Cardinality(WorkersAt(s)) >= loop_idx[s]
Waiting(t) == \/ iteration_num[Owner(t[1])] < Launched
              \/ Undispatched(Owner(t[1]), t[1], t[2])
Covers(w, i, t) == i \in Todo(w) /\ Pos(w, i) = t[1] /\ t[2] \in TilesFor(w, t[1])

\* A tile is with its scheduler, in one place of one queue, or executed.
TileOK ==
    \A t \in Tile :
      /\ executed[t] \in {Launched - 1, Launched}
      /\ Waiting(t) => executed[t] = Launched - 1
      /\ \A w \in Worker : \A i \in Todo(w) : Covers(w, i, t) =>
           /\ executed[t] = Launched - 1
           /\ ~Waiting(t)
           /\ \A v \in Worker : \A j \in Todo(v) : Covers(v, j, t) => v = w /\ j = i

\* What of an XCD's share of an event has run, and the tasks whose completion
\* has reached the global counter of their event.
Ran(x, e) == {t \in Counted(x, e) : executed[t] = Launched}
FlushingFor(w, e) == /\ wpc[w] = "flush"
                     /\ CurrentTask(w).pos \in Task
                     /\ EventOf(CurrentTask(w).pos) = e
Flushed(p) ==
    /\ \A t \in Counted(Owner(p), EventOf(p)) : executed[t] = Launched
    /\ \A w \in WorkersAt(Owner(p)) : ~FlushingFor(w, EventOf(p))
FlushedFeeders(e) == {p \in Task : EventOf(p) = e /\ Flushed(p)}

\* The counters of both levels, never reset, count exactly that.
CountOK ==
    /\ \A x \in Xcd, e \in Event :
         xcd_local_event_counters[x][e] =
           Cardinality(Counted(x, e)) * (Launched - 1) + Cardinality(Ran(x, e))
    /\ \A e \in Event : e > LaunchEvent =>
         all_event_counters[e] =
           NumTriggers(e) * (Launched - 1) + Cardinality(FlushedFeeders(e))

\* What a worker that has completed the share of its XCD is about to add.
ShareDone(w, x, e) ==
    /\ flush_amount[w] = Cardinality(Feeders(x, e))
    /\ \A t \in Counted(x, e) : executed[t] = Launched
    /\ \A v \in WorkersAt(x) : FlushingFor(v, e) => v = w

FlushedWell(w) ==
    wpc[w] = "flush" =>
      /\ CurrentTask(w).pos = BeginTask => flush_amount[w] = 1
      /\ CurrentTask(w).pos \in Task => ShareDone(w, HwXcd[w], EventOf(CurrentTask(w).pos))
FlushOK == \A w \in Worker : FlushedWell(w)

Complete(e) == all_event_counters[e] >= NumTriggers(e) * Launched

\* A tile that has run in this iteration has all its ancestors' events behind it.
OrderOK ==
    /\ \A t \in Tile : executed[t] = Launched =>
         \A a \in Ancestors[t[1]] : Complete(EventOf(a))
    /\ \A w \in Worker : wpc[w] = "execute" => DependencySatisfied(CurrentTask(w))

\* The end of an iteration: a worker about to signal the end event, the end event
\* in the queue of a scheduler, or a BEGIN task in the queue of a worker.
EndSignal(w) == wpc[w] = "signal" /\ CurrentTask(w).pos \in Task
Unhandled(s) == cur_event_pos[s][s] + 1 .. Len(sched_queues[s])
EndAt(s) == {i \in Unhandled(s) : sched_queues[s][i] = EndEvent}

\* There is at most one of these, and only once everything is complete.
TokenOK ==
    /\ \A w \in Worker : EndSignal(w) =>
         /\ EventOf(CurrentTask(w).pos) = EndEvent
         /\ Complete(EndEvent)
         /\ \A v \in Worker : (EndSignal(v) => v = w) /\ BeginAt(v) = {}
         /\ \A s \in Sched : EndAt(s) = {}
    /\ \A s \in Sched : \A i \in EndAt(s) :
         /\ Complete(EndEvent)
         /\ iteration_num[s] = Launched
         /\ \A r \in Sched : \A j \in EndAt(r) : r = s /\ j = i
         /\ \A w \in Worker : BeginAt(w) = {}
    /\ \A w \in Worker : \A i \in BeginAt(w) :
         /\ Complete(EndEvent)
         /\ \A v \in Worker : \A j \in BeginAt(v) : v = w /\ j = i

TermAt(s) == {i \in 1 .. Len(sched_queues[s]) : sched_queues[s][i] = TerminationEvent}
Ending == \E s \in Sched : TermAt(s) # {}

\* The scheduler of a worker that has been given its TERMINATE task.
TerminationSeen(w, s) ==
    /\ Unread(s) /\ CurrentEvent(s) = TerminationEvent
    /\ \/ spc[s] = "poll" /\ RankIn(WorkersAt(s), w) < loop_idx[s]
       \/ spc[s] = "exit"

\* Once a scheduler has been told to terminate no iteration begins, each is told
\* once, and a worker is given its TERMINATE task once and last.
EndingOK ==
    /\ Ending =>
         /\ Complete(EndEvent)
         /\ \A w \in Worker : ~EndSignal(w) /\ BeginAt(w) = {}
         /\ \A s \in Sched : EndAt(s) # {} => spc[s] = "terminate"
    /\ \A s \in Sched :
         /\ \A i, j \in TermAt(s) : i = j
         /\ spc[s] = "terminate" => \A r \in Sched : TermAt(r) # {} => r < loop_idx[s]
    /\ \A w \in Worker : \A i \in 1 .. Len(worker_queues[w]) :
         Pos(w, i) = TerminateTask =>
           /\ i = Len(worker_queues[w])
           /\ TerminationSeen(w, HwXcd[w])
    /\ \A w \in Worker : wpc[w] = "exit" => Loaded(w) /\ CurrentTask(w).pos = TerminateTask

\* The inductive invariant.
IInv == /\ BootOK /\ SchedOK /\ LaunchOK /\ QueueOK /\ TileOK /\ CountOK
        /\ FlushOK /\ OrderOK /\ TokenOK /\ EndingOK
-----------------------------------------------------------------------------
(* Facts about the configuration and the graph.                             *)

LEMMA TaskFacts ==
    /\ Task \subseteq Position /\ IsFiniteSet(Task)
    /\ \A p \in Task : /\ p \in Nat /\ p # TerminateTask /\ p # BeginTask
                       /\ Owner(p) \in Xcd
                       /\ EventOf(p) \in Event /\ EventOf(p) > LaunchEvent
                       /\ EventOf(p) # LaunchEvent /\ EventOf(p) # TerminationEvent
    /\ \A p \in Position : p \in Task \/ p = BeginTask \/ p = TerminateTask
    /\ FirstTask \in Task /\ BeginTask \notin Task /\ TerminateTask \notin Task
<1>1. Task \subseteq Position /\ IsFiniteSet(Task)
  <2>1. IsFiniteSet(Position)
    BY FS_Interval, GraphAssumption DEF Position
  <2> QED BY <2>1, FS_Subset DEF Task
<1>2. ASSUME NEW p \in Task
      PROVE  /\ p \in Nat /\ p # TerminateTask /\ p # BeginTask
             /\ EventOf(p) \in Event /\ EventOf(p) > LaunchEvent
             /\ EventOf(p) # LaunchEvent /\ EventOf(p) # TerminationEvent
  <2>1. p \in Nat /\ p # TerminateTask /\ p # BeginTask
    BY GraphAssumption DEF Task, Position, TerminateTask, BeginTask, FirstTask
  <2>2. EventOf(p) \in Event
    BY <1>1, <2>1, Triggers DEF EventOf
  <2>3. EventOf(p) > LaunchEvent
    BY GraphAssumption DEF EventOf
  <2>4. EventOf(p) \in Int
    BY <2>2 DEF Event
  <2> QED BY <2>1, <2>2, <2>3, <2>4 DEF LaunchEvent, TerminationEvent
<1>3. ASSUME NEW p \in Task PROVE Owner(p) \in Xcd
  <2>1. p \in Nat /\ p >= 2 /\ p < NumTasks /\ NumTasks \in Nat
    BY GraphAssumption DEF Task, Position, FirstTask
  <2>2. CASE IsGangEvent
    <3>1. NumXcds = NumTasks - 2
      BY <2>2 DEF IsGangEvent, FirstTask
    <3> QED BY <2>1, <2>2, <3>1 DEF Owner, Xcd, FirstTask
  <2>3. CASE ~IsGangEvent
    <3>1. NumWorkers \in Nat \ {0} /\ HwXcd \in [Worker -> Xcd]
      BY Constants
    <3>2. (p - FirstTask) % NumWorkers \in Worker
      BY <2>1, <3>1 DEF Worker, FirstTask
    <3> QED BY <2>3, <3>1, <3>2 DEF Owner
  <2> QED BY <2>2, <2>3
<1>4. ASSUME NEW p \in Position PROVE p \in Task \/ p = BeginTask \/ p = TerminateTask
  BY GraphAssumption DEF Task, Position, TerminateTask, BeginTask, FirstTask
<1>5. FirstTask \in Task /\ BeginTask \notin Task /\ TerminateTask \notin Task
  BY GraphAssumption DEF Task, Position, TerminateTask, BeginTask, FirstTask
<1> QED BY <1>1, <1>2, <1>3, <1>4, <1>5

LEMMA TileFacts ==
    /\ \A p \in Task : 0 \in TilesOf(p) /\ <<p, 0>> \in Tile
    /\ \A t \in Tile : /\ t = <<t[1], t[2]>> /\ t[1] \in Task
                       /\ t[2] \in TilesOf(t[1]) /\ t[2] \in Nat
    /\ \A p \in Task : \A k \in TilesOf(p) : <<p, k>> \in Tile
    /\ \A w \in Worker, p \in Task : TilesFor(w, p) \subseteq TilesOf(p)
<1>1. ASSUME NEW p \in Task PROVE 0 \in TilesOf(p)
  <2>1. AllTasks[p].n_tile_count \in Nat /\ AllTasks[p].n_tile_count > 0
    BY GraphAssumption, TaskFacts
  <2> QED BY <2>1 DEF TilesOf
<1>2. ASSUME NEW t \in Tile
      PROVE  /\ t = <<t[1], t[2]>> /\ t[1] \in Task
             /\ t[2] \in TilesOf(t[1]) /\ t[2] \in Nat
  <2>1. PICK p \in Task : t \in {p} \X TilesOf(p)
    BY DEF Tile
  <2>2. AllTasks[p].n_tile_count \in Nat
    BY GraphAssumption, TaskFacts
  <2>3. TilesOf(p) \subseteq Nat
    BY <2>2 DEF TilesOf
  <2> QED BY <2>1, <2>3
<1>3. ASSUME NEW p \in Task, NEW k \in TilesOf(p) PROVE <<p, k>> \in Tile
  BY DEF Tile
<1>4. \A w \in Worker, p \in Task : TilesFor(w, p) \subseteq TilesOf(p)
  BY DEF TilesFor
<1> QED BY <1>1, <1>2, <1>3, <1>4

LEMMA XcdFacts ==
    /\ \A x \in Xcd : /\ WorkersAt(x) \subseteq Worker
                      /\ IsFiniteSet(WorkersAt(x)) /\ Cardinality(WorkersAt(x)) \in Nat
                      /\ WorkersAt(x) # {} => Cardinality(WorkersAt(x)) > 0
    /\ \A p \in Task : WorkersAt(Owner(p)) # {}
    /\ \A w \in Worker : HwXcd[w] \in Xcd /\ w \in WorkersAt(HwXcd[w])
    /\ \A x \in Xcd : Share(x, WorkersAt(x)) = ShareOf(x) /\ ShareOf(x) \subseteq Task
<1>1. ASSUME NEW x \in Xcd
      PROVE  /\ WorkersAt(x) \subseteq Worker
             /\ IsFiniteSet(WorkersAt(x)) /\ Cardinality(WorkersAt(x)) \in Nat
             /\ WorkersAt(x) # {} => Cardinality(WorkersAt(x)) > 0
  <2>1. WorkersAt(x) \subseteq Worker
    BY DEF WorkersAt
  <2>2. IsFiniteSet(Worker)
    BY Constants, FS_Interval DEF Worker
  <2>3. IsFiniteSet(WorkersAt(x)) /\ Cardinality(WorkersAt(x)) \in Nat
    BY <2>1, <2>2, FS_Subset, FS_CardinalityType
  <2> QED BY <2>1, <2>3, FS_EmptySet
<1>2. ASSUME NEW p \in Task PROVE WorkersAt(Owner(p)) # {}
  <2>1. CASE IsGangEvent
    BY <2>1, TaskFacts, PlacementAssumption DEF WorkersAt
  <2>2. CASE ~IsGangEvent
    <3>1. (p - FirstTask) % NumWorkers \in Worker
      BY Constants, GraphAssumption DEF Worker, FirstTask, Task, Position
    <3> QED BY <2>2, <3>1 DEF Owner, WorkersAt
  <2> QED BY <2>1, <2>2
<1>3. ASSUME NEW w \in Worker PROVE HwXcd[w] \in Xcd /\ w \in WorkersAt(HwXcd[w])
  BY Constants DEF WorkersAt
<1>4. ASSUME NEW x \in Xcd PROVE Share(x, WorkersAt(x)) = ShareOf(x) /\ ShareOf(x) \subseteq Task
  <2>1. ASSUME NEW p \in Task
        PROVE  (IF IsGangEvent THEN p = FirstTask + x
                ELSE (p - FirstTask) % NumWorkers \in WorkersAt(x)) <=> Owner(p) = x
    <3>1. CASE IsGangEvent
      <4>1. p \in Int /\ x \in Int
        BY TaskFacts, Constants DEF Xcd
      <4> QED BY <3>1, <4>1 DEF Owner, FirstTask
    <3>2. CASE ~IsGangEvent
      <4>1. (p - FirstTask) % NumWorkers \in Worker
        BY Constants, GraphAssumption DEF Worker, FirstTask, Task, Position
      <4> QED BY <3>2, <4>1 DEF Owner, WorkersAt
    <3> QED BY <3>1, <3>2
  <2> QED BY <2>1 DEF Share, ShareOf
<1> QED BY <1>1, <1>2, <1>3, <1>4

LEMMA EventFacts ==
    /\ \A e \in Event : /\ NumTriggers(e) \in Nat /\ e \in Int
                        /\ IsFiniteSet(Producers(e))
                        /\ NumTriggers(e) = Cardinality(Producers(e))
                        /\ e > LaunchEvent => Producers(e) = {p \in Task : EventOf(p) = e}
    /\ NumTriggers(LaunchEvent) = 1
    /\ NumTriggers(EndEvent) > 0
    /\ LaunchEvent # EndEvent /\ EndEvent > LaunchEvent /\ TerminationEvent # EndEvent
    /\ TerminationEvent # LaunchEvent
    /\ EventOf(BeginTask) = LaunchEvent
    /\ \A p \in Task : AllEvents[EventOf(p)].type # "EMPTY" => EventOf(p) = EndEvent
    /\ \A p \in Task : AllEvents[EventOf(p)].type # "LAUNCH_DEPENDENT_TASKS"
    /\ AllEvents[LaunchEvent].type = "LAUNCH_DEPENDENT_TASKS"
    /\ AllEvents[EndEvent].type # "EMPTY"
<1>1. /\ EndEvent \in Event /\ LaunchEvent \in Event /\ EndEvent > LaunchEvent
      /\ Event \subseteq Int /\ NumEvents \in Nat
      /\ TerminationEvent # LaunchEvent /\ TerminationEvent # EndEvent
  BY Constants, GraphAssumption DEF Event, TerminationEvent, LaunchEvent, EndEvent
<1>2. ASSUME NEW e \in Event
      PROVE  /\ NumTriggers(e) \in Nat
             /\ IsFiniteSet(Producers(e))
             /\ NumTriggers(e) = Cardinality(Producers(e))
  <2>1. IsFiniteSet(Position)
    BY FS_Interval, GraphAssumption DEF Position
  <2>2. IsFiniteSet(Producers(e))
    BY <2>1, FS_Subset DEF Producers
  <2>3. NumTriggers(e) = Cardinality(Producers(e))
    BY GraphAssumption DEF NumTriggers
  <2> QED BY <2>2, <2>3, FS_CardinalityType
<1>3. ASSUME NEW e \in Event, e > LaunchEvent
      PROVE  Producers(e) = {p \in Task : EventOf(p) = e}
  <2>1. AllTasks[TerminateTask].trigger_event # e /\ AllTasks[BeginTask].trigger_event # e
    BY <1>1, <1>3, GraphAssumption DEF NoEvent, LaunchEvent
  <2> QED BY <2>1, TaskFacts DEF Producers, EventOf
<1>4. Producers(LaunchEvent) = {BeginTask}
  <2>1. AllTasks[BeginTask].trigger_event = LaunchEvent /\ BeginTask \in Position
    BY GraphAssumption, Constants
  <2>2. AllTasks[TerminateTask].trigger_event # LaunchEvent
    BY GraphAssumption DEF NoEvent, LaunchEvent
  <2> QED BY <2>1, <2>2, TaskFacts DEF Producers, EventOf
<1>5. NumTriggers(LaunchEvent) = 1
  BY <1>1, <1>2, <1>4, FS_Singleton
<1>6. NumTriggers(EndEvent) > 0
  <2>1. Producers(EndEvent) # {}
    BY TaskFacts, AncestorsAssumption
  <2>2. Cardinality(Producers(EndEvent)) # 0
    BY <1>1, <1>2, <2>1, FS_EmptySet
  <2> QED BY <1>1, <1>2, <2>2
<1>7. ASSUME NEW p \in Task
      PROVE  /\ AllEvents[EventOf(p)].type # "EMPTY" => EventOf(p) = EndEvent
             /\ AllEvents[EventOf(p)].type # "LAUNCH_DEPENDENT_TASKS"
  BY TaskFacts, GraphAssumption
<1>8. /\ AllEvents[LaunchEvent].type = "LAUNCH_DEPENDENT_TASKS"
      /\ AllEvents[EndEvent].type # "EMPTY" /\ EventOf(BeginTask) = LaunchEvent
  <2>1. AllEvents[EndEvent].type = "END_OF_TASK_GRAPH"
    BY <1>1, GraphAssumption
  <2> QED BY <2>1, <1>1, GraphAssumption DEF EventOf
<1> QED BY <1>1, <1>2, <1>3, <1>5, <1>6, <1>7, <1>8

\* The share of an event that an XCD counts: finite, of Task tiles, and not
\* empty when one of its tasks triggers the event.
LEMMA ShareFacts ==
    /\ \A x, e : /\ Feeders(x, e) \subseteq Task /\ IsFiniteSet(Feeders(x, e))
                 /\ Cardinality(Feeders(x, e)) \in Nat
                 /\ Counted(x, e) \subseteq Tile /\ IsFiniteSet(Counted(x, e))
                 /\ Cardinality(Counted(x, e)) \in Nat
                 /\ Feeders(x, e) = {} => Counted(x, e) = {} /\ Cardinality(Counted(x, e)) = 0
    /\ \A p \in Task : /\ p \in Feeders(Owner(p), EventOf(p))
                       /\ \A k \in TilesOf(p) : <<p, k>> \in Counted(Owner(p), EventOf(p))
                       /\ Cardinality(Counted(Owner(p), EventOf(p))) > 0
    /\ \A t \in Tile : t \in Counted(Owner(t[1]), EventOf(t[1]))
    /\ \A x : Counted(x, LaunchEvent) = {} /\ Cardinality(Counted(x, LaunchEvent)) = 0
<1>1. ASSUME NEW x, NEW e
      PROVE  /\ Feeders(x, e) \subseteq Task /\ IsFiniteSet(Feeders(x, e))
             /\ Cardinality(Feeders(x, e)) \in Nat
             /\ Counted(x, e) \subseteq Tile /\ IsFiniteSet(Counted(x, e))
             /\ Cardinality(Counted(x, e)) \in Nat
             /\ Feeders(x, e) = {} => Counted(x, e) = {} /\ Cardinality(Counted(x, e)) = 0
  <2>1. Feeders(x, e) \subseteq Task /\ Counted(x, e) \subseteq Tile
    BY DEF Feeders, ShareOf, Counted
  <2>2. IsFiniteSet(Feeders(x, e)) /\ Cardinality(Feeders(x, e)) \in Nat
    BY <2>1, TaskFacts, FS_Subset, FS_CardinalityType
  <2>3. IsFiniteSet(Counted(x, e)) /\ Cardinality(Counted(x, e)) \in Nat
    BY <2>1, TilesFinite, FS_Subset, FS_CardinalityType
  <2>4. Feeders(x, e) = {} => Counted(x, e) = {}
    BY DEF Counted
  <2> QED BY <2>1, <2>2, <2>3, <2>4, FS_EmptySet
<1>2. ASSUME NEW p \in Task
      PROVE  /\ p \in Feeders(Owner(p), EventOf(p))
             /\ \A k \in TilesOf(p) : <<p, k>> \in Counted(Owner(p), EventOf(p))
             /\ Cardinality(Counted(Owner(p), EventOf(p))) > 0
  <2>1. p \in Feeders(Owner(p), EventOf(p))
    BY DEF Feeders, ShareOf
  <2>2. \A k \in TilesOf(p) : <<p, k>> \in Counted(Owner(p), EventOf(p))
    BY <2>1, TileFacts DEF Counted
  <2>3. Counted(Owner(p), EventOf(p)) # {}
    BY <2>2, TileFacts
  <2>4. Cardinality(Counted(Owner(p), EventOf(p))) # 0
    BY <1>1, <2>3, FS_EmptySet
  <2> QED BY <1>1, <2>1, <2>2, <2>4
<1>3. ASSUME NEW t \in Tile PROVE t \in Counted(Owner(t[1]), EventOf(t[1]))
  <2>1. t[1] \in Task
    BY TileFacts
  <2> QED BY <2>1, <1>2 DEF Counted
<1>4. ASSUME NEW x
      PROVE  Counted(x, LaunchEvent) = {} /\ Cardinality(Counted(x, LaunchEvent)) = 0
  <2>1. Feeders(x, LaunchEvent) = {}
    BY TaskFacts DEF Feeders, ShareOf
  <2> QED BY <2>1, <1>1
<1> QED BY <1>1, <1>2, <1>3, <1>4

\* What the last completion of an XCD's share adds to the global counter is the
\* number of its tasks: a gang task is alone in its share, and other tasks
\* have one tile each.
LEMMA FlushCounts ==
    ASSUME NEW p \in Task
    PROVE  FlushAmount(p, Cardinality(Counted(Owner(p), EventOf(p))))
             = Cardinality(Feeders(Owner(p), EventOf(p)))
<1> DEFINE F == Feeders(Owner(p), EventOf(p))
           C == Counted(Owner(p), EventOf(p))
<1>1. p \in F /\ F \subseteq Task /\ IsFiniteSet(F) /\ Cardinality(C) > 0
      /\ Cardinality(C) \in Nat /\ IsFiniteSet(C)
  BY ShareFacts
<1>2. \A r \in F : Owner(r) = Owner(p) /\ AllTasks[r].trigger_event = AllTasks[p].trigger_event
  BY DEF Feeders, ShareOf, EventOf
<1>3. CASE IsGang(p)
  <2>1. ASSUME NEW r \in F PROVE r = p
    BY <1>1, <1>2, <1>3, PlacementAssumption
  <2>2. F = {p}
    BY <2>1, <1>1
  <2>3. Cardinality(F) = 1
    BY <2>2, FS_Singleton
  <2> QED BY <1>3, <2>3 DEF FlushAmount
<1>4. CASE ~IsGang(p)
  <2>1. ASSUME NEW r \in F PROVE TilesOf(r) = {0}
    <3>1. ~IsGang(r)
      BY <1>1, <1>2, <1>4, PlacementAssumption
    <3>2. AllTasks[r].n_tile_count = 1
      BY <1>1, <3>1, GraphAssumption
    <3> QED BY <3>2 DEF TilesOf
  <2> DEFINE f == [r \in F |-> <<r, 0>>]
  <2>2. f \in Injection(F, C)
    <3>1. ASSUME NEW r \in F PROVE <<r, 0>> \in C
      BY <1>1, TileFacts DEF Counted
    <3> HIDE DEF F, C
    <3> QED BY <3>1 DEF Injection, IsInjective
  <2>3. f \in Surjection(F, C)
    <3>1. ASSUME NEW t \in C PROVE \E r \in F : f[r] = t
      <4>1. t \in Tile /\ t[1] \in F
        BY DEF Counted
      <4>2. t = <<t[1], t[2]>> /\ t[2] = 0
        BY <4>1, <2>1, TileFacts
      <4> QED BY <4>1, <4>2
    <3> QED BY <2>2, <3>1 DEF Injection, Surjection
  <2>4. Cardinality(C) = Cardinality(F)
    BY <2>2, <2>3, <1>1, FS_Surjection
  <2> QED BY <1>1, <1>4, <2>4 DEF FlushAmount
<1> QED BY <1>3, <1>4

-----------------------------------------------------------------------------
(* What the parts of the invariant say of a state.                          *)

LEMMA WorkerFacts ==
    ASSUME Inv
    PROVE  \A w \in Worker :
             /\ worker_queues[w] \in Seq(TaskIds) /\ Len(worker_queues[w]) \in Nat
             /\ done_task_pos[w] \in Nat /\ done_task_pos[w] <= Len(worker_queues[w])
             /\ Queued(w) \subseteq 1 .. Len(worker_queues[w])
             /\ \A i \in 1 .. Len(worker_queues[w]) :
                  /\ i \in Nat /\ worker_queues[w][i] \in TaskIds
                  /\ Pos(w, i) \in Position /\ worker_queues[w][i].iter \in Nat
             /\ Loaded(w) =>
                  /\ done_task_pos[w] + 1 \in Queued(w)
                  /\ done_task_pos[w] + 1 \in 1 .. Len(worker_queues[w])
                  /\ CurrentTask(w) = worker_queues[w][done_task_pos[w] + 1]
                  /\ CurrentTask(w).pos = Pos(w, done_task_pos[w] + 1)
                  /\ CurrentTask(w).pos \in Position /\ CurrentTask(w).iter \in Nat
             /\ wpc[w] \in {"execute", "flush", "signal"} =>
                  /\ Loaded(w)
                  /\ CurrentTask(w).pos # TerminateTask
                  /\ CurrentTask(w).pos \in Task \/ CurrentTask(w).pos = BeginTask
<1> TAKE w \in Worker
<1>1. /\ worker_queues[w] \in Seq(TaskIds) /\ Len(worker_queues[w]) \in Nat
      /\ done_task_pos[w] \in Nat /\ next_task_pos[w] \in Nat /\ last_task_pos[w] \in Nat
  BY DEF Inv, TypeOK
<1>2. /\ done_task_pos[w] <= next_task_pos[w] /\ next_task_pos[w] <= last_task_pos[w]
      /\ last_task_pos[w] <= Len(worker_queues[w])
      /\ wpc[w] \in {"execute", "flush", "signal"} =>
           Loaded(w) /\ CurrentTask(w).pos # TerminateTask
  BY DEF Inv, WorkerPositions
<1>3. done_task_pos[w] <= Len(worker_queues[w]) /\ Queued(w) \subseteq 1 .. Len(worker_queues[w])
  BY <1>1, <1>2 DEF Queued
<1>4. ASSUME NEW i \in 1 .. Len(worker_queues[w])
      PROVE  /\ i \in Nat /\ worker_queues[w][i] \in TaskIds
             /\ Pos(w, i) \in Position /\ worker_queues[w][i].iter \in Nat
  <2>1. worker_queues[w][i] \in TaskIds /\ i \in Nat
    BY <1>1
  <2>2. worker_queues[w][i].pos \in Position /\ worker_queues[w][i].iter \in Nat
    BY <2>1 DEF TaskIds
  <2> QED BY <2>1, <2>2 DEF Pos
<1>5. ASSUME Loaded(w)
      PROVE  /\ done_task_pos[w] + 1 \in Queued(w)
             /\ done_task_pos[w] + 1 \in 1 .. Len(worker_queues[w])
             /\ CurrentTask(w) = worker_queues[w][done_task_pos[w] + 1]
             /\ CurrentTask(w).pos = Pos(w, done_task_pos[w] + 1)
             /\ CurrentTask(w).pos \in Position /\ CurrentTask(w).iter \in Nat
  <2>1. done_task_pos[w] + 1 \in Queued(w)
    BY <1>1, <1>2, <1>5 DEF Loaded, Queued
  <2> QED BY <2>1, <1>3, <1>4 DEF CurrentTask, Pos
<1> QED BY <1>1, <1>2, <1>3, <1>4, <1>5, TaskFacts

LEMMA SchedFacts ==
    ASSUME Inv
    PROVE  /\ Launched \in Nat
           /\ \A s \in Sched : iteration_num[s] \in Nat /\ loop_idx[s] \in Nat
                                /\ to_dispatch[s] \subseteq Task
           /\ \A q \in Queue : /\ sched_queues[q] \in Seq(Event)
                               /\ Len(sched_queues[q]) \in Nat
           /\ \A s \in Sched, q \in Queue :
                /\ cur_event_pos[s][q] \in Nat /\ last_event_pos[s][q] \in Nat
                /\ cur_event_pos[s][q] <= last_event_pos[s][q]
                /\ last_event_pos[s][q] <= Len(sched_queues[q])
           /\ \A s \in Sched : Unread(s) =>
                /\ queue_idx[s] \in Queue
                /\ cur_event_pos[s][queue_idx[s]] + 1 \in 1 .. Len(sched_queues[queue_idx[s]])
           /\ \A s \in Sched : spc[s] \in {"prepare", "terminate", "dispatch"} => Unread(s)
           /\ \A e \in Event : all_event_counters[e] \in Nat
           /\ \A t \in Tile : executed[t] \in Nat
<1>1. /\ Launched \in Nat
      /\ \A s \in Sched : iteration_num[s] \in Nat /\ loop_idx[s] \in Nat
                           /\ to_dispatch[s] \subseteq Task
      /\ \A q \in Queue : sched_queues[q] \in Seq(Event)
      /\ \A s \in Sched, q \in Queue :
                cur_event_pos[s][q] \in Nat /\ last_event_pos[s][q] \in Nat
      /\ \A s \in Sched : queue_idx[s] \in Queue
      /\ \A e \in Event : all_event_counters[e] \in Nat
      /\ \A t \in Tile : executed[t] \in Nat
  BY Constants DEF Inv, TypeOK, Launched
<1>2. /\ \A s \in Sched, q \in Queue :
           /\ cur_event_pos[s][q] <= last_event_pos[s][q]
           /\ last_event_pos[s][q] <= Len(sched_queues[q])
      /\ \A s \in Sched : spc[s] \in {"prepare", "terminate", "dispatch"} => Unread(s)
  BY DEF Inv, SchedPositions
<1>3. \A q \in Queue : Len(sched_queues[q]) \in Nat
  BY <1>1
<1>4. ASSUME NEW s \in Sched, Unread(s)
      PROVE  cur_event_pos[s][queue_idx[s]] + 1 \in 1 .. Len(sched_queues[queue_idx[s]])
  <2> DEFINE q == queue_idx[s]
  <2>1. /\ q \in Queue /\ cur_event_pos[s][q] < last_event_pos[s][q]
    BY <1>1, <1>4 DEF Unread
  <2> HIDE DEF q
  <2>2. cur_event_pos[s][q] + 1 \in 1 .. Len(sched_queues[q])
    BY <1>1, <1>2, <1>3, <2>1
  <2> QED BY <2>2 DEF q
<1> QED BY <1>1, <1>2, <1>3, <1>4

\* Once a worker has been given anything, every worker is known to its XCD.
LEMMA AllBooted ==
    ASSUME Inv, BootOK, NEW w \in Worker, Len(worker_queues[w]) # 0
    PROVE  /\ \A v \in Worker : wpc[v] \notin {"map", "ready"}
           /\ \A x \in Xcd : WorkersOn(x) = WorkersAt(x)
           /\ \A p \in Task : MyTiles(w, p) = TilesFor(w, p)
<1>1. \A v \in Worker : wpc[v] \notin {"map", "ready"}
  BY DEF BootOK
<1>2. \A v \in Worker : worker_xcd_map[v] = HwXcd[v]
  BY <1>1 DEF BootOK
<1>3. \A x \in Xcd : WorkersOn(x) = WorkersAt(x)
  BY <1>2 DEF WorkersOn, WorkersAt
<1>4. ASSUME NEW p \in Task PROVE MyTiles(w, p) = TilesFor(w, p)
  <2>1. ~(p < FirstTask)
    BY GraphAssumption DEF Task, Position, FirstTask
  <2>2. WorkersOn(HwXcd[w]) = WorkersAt(HwXcd[w])
    BY <1>3, XcdFacts
  <2> QED BY <2>1, <2>2 DEF MyTiles, TilesFor
<1> QED BY <1>1, <1>3, <1>4

LEMMA Times ==
    ASSUME NEW a \in Nat, NEW n \in Nat
    PROVE  a * (n - 1) = a * n - a /\ a * n \in Nat /\ a * (n - 1) \in Int
           /\ a * (n + 1) = a * n + a
OBVIOUS

\* The tiles that have run, and the tasks that have been counted globally.
LEMMA CountedFinite ==
    /\ \A x, e : /\ Ran(x, e) \subseteq Counted(x, e) /\ IsFiniteSet(Ran(x, e))
                 /\ Cardinality(Ran(x, e)) \in Nat
                 /\ Cardinality(Ran(x, e)) <= Cardinality(Counted(x, e))
                 /\ Cardinality(Ran(x, e)) = Cardinality(Counted(x, e))
                      => \A t \in Counted(x, e) : executed[t] = Launched
    /\ \A e \in Event : e > LaunchEvent =>
         /\ FlushedFeeders(e) \subseteq Producers(e) /\ IsFiniteSet(FlushedFeeders(e))
         /\ Cardinality(FlushedFeeders(e)) \in Nat
         /\ Cardinality(FlushedFeeders(e)) <= NumTriggers(e)
         /\ Cardinality(FlushedFeeders(e)) = NumTriggers(e)
              => \A p \in Task : EventOf(p) = e => Flushed(p)
<1>1. ASSUME NEW x, NEW e
      PROVE  /\ Ran(x, e) \subseteq Counted(x, e) /\ IsFiniteSet(Ran(x, e))
             /\ Cardinality(Ran(x, e)) \in Nat
             /\ Cardinality(Ran(x, e)) <= Cardinality(Counted(x, e))
             /\ Cardinality(Ran(x, e)) = Cardinality(Counted(x, e))
                  => \A t \in Counted(x, e) : executed[t] = Launched
  <2>1. Ran(x, e) \subseteq Counted(x, e) /\ IsFiniteSet(Counted(x, e))
    BY ShareFacts DEF Ran
  <2>2. /\ IsFiniteSet(Ran(x, e))
        /\ Cardinality(Ran(x, e)) <= Cardinality(Counted(x, e))
        /\ Cardinality(Ran(x, e)) = Cardinality(Counted(x, e)) => Ran(x, e) = Counted(x, e)
    BY <2>1, FS_Subset
  <2>3. Ran(x, e) = Counted(x, e) => \A t \in Counted(x, e) : executed[t] = Launched
    BY DEF Ran
  <2> QED BY <2>1, <2>2, <2>3, FS_CardinalityType
<1>2. ASSUME NEW e \in Event, e > LaunchEvent
      PROVE  /\ FlushedFeeders(e) \subseteq Producers(e) /\ IsFiniteSet(FlushedFeeders(e))
             /\ Cardinality(FlushedFeeders(e)) \in Nat
             /\ Cardinality(FlushedFeeders(e)) <= NumTriggers(e)
             /\ Cardinality(FlushedFeeders(e)) = NumTriggers(e)
                  => \A p \in Task : EventOf(p) = e => Flushed(p)
  <2>1. /\ FlushedFeeders(e) \subseteq Producers(e) /\ IsFiniteSet(Producers(e))
        /\ NumTriggers(e) = Cardinality(Producers(e))
        /\ Producers(e) = {p \in Task : EventOf(p) = e}
    BY <1>2, EventFacts DEF FlushedFeeders
  <2>2. /\ IsFiniteSet(FlushedFeeders(e))
        /\ Cardinality(FlushedFeeders(e)) <= NumTriggers(e)
        /\ Cardinality(FlushedFeeders(e)) = NumTriggers(e) => FlushedFeeders(e) = Producers(e)
    BY <2>1, FS_Subset
  <2>3. FlushedFeeders(e) = Producers(e) => \A p \in Task : EventOf(p) = e => Flushed(p)
    BY <2>1 DEF FlushedFeeders
  <2> QED BY <2>1, <2>2, <2>3, FS_CardinalityType
<1> QED BY <1>1, <1>2

\* The global counter of an event has its full count exactly when every task
\* that triggers it has been executed in this iteration and flushed.
LEMMA CompleteFlushed ==
    ASSUME Inv, CountOK
    PROVE  \A e \in Event : e > LaunchEvent =>
             /\ Complete(e) => \A p \in Task : EventOf(p) = e => Flushed(p)
             /\ all_event_counters[e] <= NumTriggers(e) * Launched
             /\ NumTriggers(e) * Launched \in Nat
<1> SUFFICES ASSUME NEW e \in Event, e > LaunchEvent
             PROVE  /\ Complete(e) => \A p \in Task : EventOf(p) = e => Flushed(p)
                    /\ all_event_counters[e] <= NumTriggers(e) * Launched
                    /\ NumTriggers(e) * Launched \in Nat
  OBVIOUS
<1> DEFINE a == NumTriggers(e)
           n == Launched
           c == Cardinality(FlushedFeeders(e))
<1>1. a \in Nat /\ n \in Nat /\ c \in Nat /\ c <= a
  BY EventFacts, SchedFacts, CountedFinite
<1>2. all_event_counters[e] = a * (n - 1) + c
  BY DEF CountOK
<1>3. c = a => \A p \in Task : EventOf(p) = e => Flushed(p)
  BY CountedFinite
<1>4. Complete(e) <=> all_event_counters[e] >= a * n
  BY DEF Complete
<1> HIDE DEF a, n, c
<1>5. a * (n - 1) = a * n - a /\ a * n \in Nat
  BY <1>1, Times
<1>6. all_event_counters[e] <= a * n /\ (all_event_counters[e] >= a * n => c = a)
  BY <1>1, <1>2, <1>5
<1> QED BY <1>3, <1>4, <1>5, <1>6 DEF a, n

LEMMA IterationBound ==
    ASSUME Inv, SchedOK, LaunchOK
    PROVE  /\ \A s \in Sched : iteration_num[s] <= Len(sched_queues[Broadcast])
           /\ Len(sched_queues[Broadcast]) <= Launched
           /\ Len(sched_queues[Broadcast]) \in Nat
<1>1. Len(sched_queues[Broadcast]) <= Launched /\ Len(sched_queues[Broadcast]) \in Nat
  BY SchedFacts, Constants DEF LaunchOK
<1>2. ASSUME NEW s \in Sched PROVE iteration_num[s] <= Len(sched_queues[Broadcast])
  <2>1. iteration_num[s] = cur_event_pos[s][Broadcast]
                             + (IF spc[s] = "dispatch" THEN 1 ELSE 0)
    BY DEF SchedOK, SchedGood, LogsOK
  <2>2. /\ cur_event_pos[s][Broadcast] \in Nat /\ last_event_pos[s][Broadcast] \in Nat
        /\ cur_event_pos[s][Broadcast] <= last_event_pos[s][Broadcast]
        /\ last_event_pos[s][Broadcast] <= Len(sched_queues[Broadcast])
    BY SchedFacts, Constants
  <2>3. CASE spc[s] = "dispatch"
    <3>1. queue_idx[s] = Broadcast /\ Unread(s)
      BY <2>3, SchedFacts DEF SchedOK, SchedGood, LogsOK
    <3> QED BY <1>1, <2>1, <2>2, <2>3, <3>1 DEF Unread
  <2>4. CASE spc[s] # "dispatch"
    BY <1>1, <2>1, <2>2, <2>4
  <2> QED BY <2>3, <2>4
<1> QED BY <1>1, <1>2

\* A task that is being dispatched has a tile that no worker has been given.
LEMMA DispatchingWaits ==
    ASSUME Inv, SchedOK, NEW s \in Sched, NEW p \in to_dispatch[s]
    PROVE  p \in Task /\ Owner(p) = s /\ \E k \in TilesOf(p) : Waiting(<<p, k>>)
<1>1. p \in Task /\ Owner(p) = s /\ s \in Xcd
  BY SchedFacts DEF SchedOK, SchedGood, LogsOK, ShareOf, Sched
<1>2. CASE IsGang(p) /\ \A r \in to_dispatch[s] : p <= r
  <2> DEFINE k == loop_idx[s]
             n == Cardinality(WorkersAt(s))
  <2>1. k < n /\ k < AllTasks[p].n_tile_count
    BY <1>2 DEF SchedOK, SchedGood, LogsOK
  <2>2. k \in Nat /\ n \in Nat /\ AllTasks[p].n_tile_count \in Nat
    BY <1>1, SchedFacts, XcdFacts, GraphAssumption, TaskFacts
  <2> HIDE DEF k, n
  <2>3. k % n = k /\ k \in TilesOf(p)
    BY <2>1, <2>2 DEF TilesOf
  <2>4. k % n >= k
    BY <2>2, <2>3
  <2>5. Waiting(<<p, k>>)
    <3>1. <<p, k>>[1] = p /\ <<p, k>>[2] = k
      OBVIOUS
    <3> QED BY <1>1, <2>4, <3>1 DEF Waiting, Undispatched, k, n
  <2> QED BY <1>1, <2>3, <2>5
<1>3. CASE ~(IsGang(p) /\ \A r \in to_dispatch[s] : p <= r)
  <2>1. 0 \in TilesOf(p)
    BY <1>1, TileFacts
  <2>2. Waiting(<<p, 0>>)
    <3>1. <<p, 0>>[1] = p /\ <<p, 0>>[2] = 0
      OBVIOUS
    <3> QED BY <1>1, <1>3, <3>1 DEF Waiting, Undispatched
  <2> QED BY <1>1, <2>1, <2>2
<1> QED BY <1>2, <1>3

\* When the end event has its full count, everything of this iteration is over:
\* the dependencies lead from the last operator to every task.
LEMMA RunComplete ==
    ASSUME Inv, SchedOK, LaunchOK, QueueOK, TileOK, CountOK, OrderOK, Complete(EndEvent)
    PROVE  /\ \A p \in Task : Flushed(p)
           /\ \A t \in Tile : executed[t] = Launched /\ ~Waiting(t)
           /\ \A w \in Worker : \A i \in Todo(w) : Pos(w, i) \notin Task
           /\ \A w \in Worker : wpc[w] = "flush" => CurrentTask(w).pos = BeginTask
           /\ \A s \in Sched : /\ to_dispatch[s] = {}
                               /\ ShareOf(s) # {} => iteration_num[s] = Launched
           /\ Len(sched_queues[Broadcast]) = Launched
           /\ \A w \in Worker : ~BeginSignal(w)
<1>1. ASSUME NEW f \in Task, EventOf(f) = EndEvent PROVE Flushed(f)
  BY <1>1, CompleteFlushed, EventFacts, Constants
<1>2. ASSUME NEW p \in Task, Flushed(p) PROVE \A k \in TilesOf(p) : executed[<<p, k>>] = Launched
  BY <1>2, ShareFacts DEF Flushed
<1>3. ASSUME NEW p \in Task PROVE Flushed(p)
  <2>1. PICK f \in Producers(EndEvent) : p = f \/ p \in Ancestors[f]
    BY AncestorsAssumption
  <2>2. f \in Task /\ EventOf(f) = EndEvent
    BY EventFacts, Constants
  <2>3. CASE p = f
    BY <2>2, <2>3, <1>1
  <2>4. CASE p \in Ancestors[f]
    <3>1. <<f, 0>> \in Tile /\ executed[<<f, 0>>] = Launched
      BY <2>2, <1>1, <1>2, TileFacts
    <3>2. Complete(EventOf(p))
      BY <2>4, <3>1 DEF OrderOK
    <3> QED BY <3>2, CompleteFlushed, TaskFacts
  <2> QED BY <2>1, <2>3, <2>4
<1>4. ASSUME NEW t \in Tile PROVE executed[t] = Launched /\ ~Waiting(t)
  <2>1. executed[t] = Launched
    BY <1>2, <1>3, TileFacts
  <2>2. Launched \in Nat
    BY SchedFacts
  <2> QED BY <2>1, <2>2 DEF TileOK
<1>5. ASSUME NEW w \in Worker, NEW i \in Todo(w) PROVE Pos(w, i) \notin Task
  <2> SUFFICES ASSUME Pos(w, i) \in Task PROVE FALSE
    OBVIOUS
  <2>1. i \in 1 .. Len(worker_queues[w])
    BY WorkerFacts DEF Todo
  <2>2. PICK k \in TilesFor(w, Pos(w, i)) : TRUE
    BY <2>1 DEF QueueOK
  <2>3. <<Pos(w, i), k>> \in Tile
    BY <2>2, TileFacts
  <2>4. Covers(w, i, <<Pos(w, i), k>>)
    BY <2>2 DEF Covers
  <2>5. executed[<<Pos(w, i), k>>] = Launched - 1
    BY <2>3, <2>4 DEF TileOK
  <2> QED BY <2>3, <2>5, <1>4, SchedFacts
<1>6. ASSUME NEW w \in Worker, wpc[w] = "flush" PROVE CurrentTask(w).pos = BeginTask
  <2>1. /\ CurrentTask(w).pos \in Task \/ CurrentTask(w).pos = BeginTask
        /\ done_task_pos[w] + 1 \in 1 .. Len(worker_queues[w])
        /\ CurrentTask(w).pos = Pos(w, done_task_pos[w] + 1)
    BY <1>6, WorkerFacts
  <2>2. CASE CurrentTask(w).pos \in Task
    <3>1. Owner(CurrentTask(w).pos) = HwXcd[w]
      BY <2>1, <2>2 DEF QueueOK
    <3>2. FlushingFor(w, EventOf(CurrentTask(w).pos)) /\ w \in WorkersAt(HwXcd[w])
      BY <1>6, <2>2, XcdFacts DEF FlushingFor
    <3> QED BY <1>3, <2>2, <3>1, <3>2 DEF Flushed
  <2> QED BY <2>1, <2>2
<1>7. ASSUME NEW s \in Sched PROVE to_dispatch[s] = {}
  <2> SUFFICES ASSUME NEW p \in to_dispatch[s] PROVE FALSE
    OBVIOUS
  <2>1. PICK k \in TilesOf(p) : p \in Task /\ Waiting(<<p, k>>)
    BY DispatchingWaits
  <2> QED BY <2>1, <1>4, TileFacts
<1>8. ASSUME NEW s \in Sched, ShareOf(s) # {}
      PROVE  iteration_num[s] = Launched
  <2>1. PICK p \in ShareOf(s) : TRUE
    BY <1>8
  <2>2. p \in Task /\ Owner(p) = s /\ <<p, 0>> \in Tile
    BY TileFacts DEF ShareOf
  <2>3. ~Waiting(<<p, 0>>)
    BY <2>2, <1>4
  <2>4. ~(iteration_num[s] < Launched)
    BY <2>2, <2>3 DEF Waiting
  <2> QED BY <2>4, IterationBound, SchedFacts
<1>9. Len(sched_queues[Broadcast]) = Launched
  <2> DEFINE s == Owner(FirstTask)
  <2>1. s \in Sched /\ FirstTask \in ShareOf(s)
    BY TaskFacts DEF Sched, ShareOf
  <2>2. iteration_num[s] = Launched
    BY <2>1, <1>8
  <2> HIDE DEF s
  <2> QED BY <2>1, <2>2, IterationBound, SchedFacts
<1>10. ASSUME NEW w \in Worker PROVE ~BeginSignal(w)
  BY <1>9, SchedFacts DEF LaunchOK
<1> QED BY <1>3, <1>4, <1>5, <1>6, <1>7, <1>8, <1>9, <1>10
-----------------------------------------------------------------------------
(* Steps that leave a part of the state alone.                              *)

KeepsWork ==
    /\ UNCHANGED << worker_queues, done_task_pos >>
    /\ \A v \in Worker : /\ wpc'[v] = "flush" <=> wpc[v] = "flush"
                         /\ wpc'[v] = "signal" <=> wpc[v] = "signal"

KeepsDispatch ==
    /\ UNCHANGED << iteration_num, to_dispatch >>
    /\ \A s \in Sched : to_dispatch[s] # {} => loop_idx'[s] = loop_idx[s]

KeepsCounts == UNCHANGED << all_event_counters, xcd_local_event_counters, executed, flush_amount >>

\* What the workers are at, in the steps whose order matters.
KeepsHands ==
    \A v \in Worker :
      /\ wpc'[v] = "flush" <=> wpc[v] = "flush"
      /\ wpc'[v] = "signal" <=> wpc[v] = "signal"
      /\ wpc[v] \in {"flush", "signal"} => CurrentTask(v)' = CurrentTask(v)

LEMMA SameHands ==
    ASSUME KeepsHands, NEW w \in Worker
    PROVE  /\ BeginSignal(w)' <=> BeginSignal(w)
           /\ EndSignal(w)' <=> EndSignal(w)
           /\ \A e : FlushingFor(w, e)' <=> FlushingFor(w, e)
BY DEF KeepsHands, BeginSignal, EndSignal, FlushingFor

LEMMA SameWork ==
    ASSUME KeepsWork, NEW w \in Worker
    PROVE  /\ CurrentTask(w)' = CurrentTask(w)
           /\ Queued(w)' = Queued(w) /\ Todo(w)' = Todo(w) /\ BeginAt(w)' = BeginAt(w)
           /\ BeginSignal(w)' <=> BeginSignal(w)
           /\ EndSignal(w)' <=> EndSignal(w)
           /\ \A e : FlushingFor(w, e)' <=> FlushingFor(w, e)
           /\ \A i : Pos(w, i)' = Pos(w, i)
           /\ \A i, t : Covers(w, i, t)' <=> Covers(w, i, t)
<1>1. /\ worker_queues' = worker_queues /\ done_task_pos' = done_task_pos
      /\ wpc'[w] = "flush" <=> wpc[w] = "flush"
      /\ wpc'[w] = "signal" <=> wpc[w] = "signal"
  BY DEF KeepsWork
<1>2. CurrentTask(w)' = CurrentTask(w)
  BY <1>1 DEF CurrentTask
<1>3. \A i : Pos(w, i)' = Pos(w, i)
  BY <1>1 DEF Pos
<1>4. Queued(w)' = Queued(w)
  BY <1>1 DEF Queued
<1>5. Todo(w)' = Todo(w)
  BY <1>1, <1>4 DEF Todo
<1>6. BeginAt(w)' = BeginAt(w)
  BY <1>1, <1>3, <1>4 DEF BeginAt
<1>7. /\ BeginSignal(w)' <=> BeginSignal(w)
      /\ EndSignal(w)' <=> EndSignal(w)
      /\ \A e : FlushingFor(w, e)' <=> FlushingFor(w, e)
  BY <1>1, <1>2 DEF BeginSignal, EndSignal, FlushingFor
<1>8. \A i, t : Covers(w, i, t)' <=> Covers(w, i, t)
  BY <1>3, <1>5 DEF Covers
<1> QED BY <1>2, <1>3, <1>4, <1>5, <1>6, <1>7, <1>8

LEMMA SameWaiting ==
    ASSUME Inv, KeepsDispatch, all_event_counters'[LaunchEvent] = all_event_counters[LaunchEvent],
           NEW t \in Tile
    PROVE  Waiting(t)' <=> Waiting(t)
<1>1. Owner(t[1]) \in Sched
  BY TileFacts, TaskFacts DEF Sched
<1>2. /\ iteration_num' = iteration_num /\ to_dispatch' = to_dispatch
      /\ to_dispatch[Owner(t[1])] # {} => loop_idx'[Owner(t[1])] = loop_idx[Owner(t[1])]
  BY <1>1 DEF KeepsDispatch
<1>3. Launched' = Launched
  BY DEF Launched
<1> QED BY <1>2, <1>3 DEF Waiting, Undispatched

\* Queues from which tasks are only taken.
LEMMA QueueShrinks ==
    ASSUME QueueOK, UNCHANGED worker_queues,
           \A w \in Worker :
             /\ Queued(w)' \subseteq Queued(w)
             /\ \A i \in Queued(w)' : i \in BeginAt(w)' <=> i \in BeginAt(w),
           all_event_counters'[LaunchEvent] = all_event_counters[LaunchEvent]
    PROVE  QueueOK'
<1>1. Launched' = Launched
  BY DEF Launched
<1>2. ASSUME NEW w \in Worker
      PROVE  /\ \A i \in 1 .. Len(worker_queues'[w]) :
                  /\ Pos(w, i)' = TerminateTask => worker_queues'[w][i].iter = 0
                  /\ Pos(w, i)' \in Task => /\ Owner(Pos(w, i)') = HwXcd[w]
                                            /\ TilesFor(w, Pos(w, i)') # {}
             /\ \A i \in Queued(w)' :
                  /\ Pos(w, i)' \in Task => worker_queues'[w][i].iter = Launched'
                  /\ Pos(w, i)' = BeginTask =>
                       worker_queues'[w][i].iter
                         = IF i \in BeginAt(w)' THEN Launched' + 1 ELSE Launched'
  <2>1. \A i : Pos(w, i)' = Pos(w, i)
    BY DEF Pos
  <2> QED BY <1>1, <2>1 DEF QueueOK
<1> QED BY <1>2 DEF QueueOK

LEMMA QueueKept ==
    ASSUME QueueOK, KeepsWork, all_event_counters'[LaunchEvent] = all_event_counters[LaunchEvent]
    PROVE  QueueOK'
BY SameWork, QueueShrinks DEF KeepsWork

LEMMA HandsKept == KeepsWork => KeepsHands
BY SameWork DEF KeepsWork, KeepsHands

LEMMA TileShrinks ==
    ASSUME TileOK, UNCHANGED << worker_queues, executed >>,
           \A w \in Worker : Todo(w)' \subseteq Todo(w),
           \A t \in Tile : Waiting(t)' <=> Waiting(t),
           all_event_counters'[LaunchEvent] = all_event_counters[LaunchEvent]
    PROVE  TileOK'
<1>1. executed' = executed /\ Launched' = Launched
  BY DEF Launched
<1>2. \A w \in Worker, t \in Tile : \A i \in Todo(w)' : Covers(w, i, t)' => Covers(w, i, t)
  BY DEF Covers, Pos, TilesFor, WorkersAt, RankIn
<1>3. ASSUME NEW t \in Tile
      PROVE  /\ executed'[t] \in {Launched' - 1, Launched'}
             /\ Waiting(t)' => executed'[t] = Launched' - 1
             /\ \A w \in Worker : \A i \in Todo(w)' : Covers(w, i, t)' =>
                  /\ executed'[t] = Launched' - 1
                  /\ ~Waiting(t)'
                  /\ \A v \in Worker : \A j \in Todo(v)' : Covers(v, j, t)' => v = w /\ j = i
  BY <1>1, <1>2 DEF TileOK
<1> QED BY <1>3 DEF TileOK

LEMMA TileKept ==
    ASSUME TileOK, KeepsWork, UNCHANGED executed, \A t \in Tile : Waiting(t)' <=> Waiting(t),
           all_event_counters'[LaunchEvent] = all_event_counters[LaunchEvent]
    PROVE  TileOK'
BY SameWork, TileShrinks DEF KeepsWork

\* What the workers that flush are at.
KeepsFlushes ==
    \A v \in Worker :
      /\ wpc'[v] = "flush" <=> wpc[v] = "flush"
      /\ wpc[v] = "flush" => CurrentTask(v)' = CurrentTask(v)

LEMMA FlushesKept ==
    /\ KeepsHands => KeepsFlushes
    /\ KeepsFlushes => \A w \in Worker : \A e : FlushingFor(w, e)' <=> FlushingFor(w, e)
BY DEF KeepsHands, KeepsFlushes, FlushingFor

LEMMA SameFlushed ==
    ASSUME \A v \in Worker : \A e : FlushingFor(v, e)' <=> FlushingFor(v, e), UNCHANGED executed,
           all_event_counters'[LaunchEvent] = all_event_counters[LaunchEvent]
    PROVE  /\ \A p \in Task : Flushed(p)' <=> Flushed(p)
           /\ \A e : FlushedFeeders(e)' = FlushedFeeders(e)
           /\ \A x, e : Ran(x, e)' = Ran(x, e)
<1>1. executed' = executed /\ Launched' = Launched
  BY DEF Launched
<1>2. \A x, e : Ran(x, e)' = Ran(x, e)
  BY <1>1 DEF Ran
<1>3. ASSUME NEW p \in Task PROVE Flushed(p)' <=> Flushed(p)
  <2>1. WorkersAt(Owner(p)) \subseteq Worker
    BY DEF WorkersAt
  <2>2. \A w \in WorkersAt(Owner(p)) : FlushingFor(w, EventOf(p))' <=> FlushingFor(w, EventOf(p))
    BY <2>1
  <2> QED BY <1>1, <2>2 DEF Flushed
<1>4. \A e : FlushedFeeders(e)' = FlushedFeeders(e)
  BY <1>3 DEF FlushedFeeders
<1> QED BY <1>2, <1>3, <1>4

LEMMA CountsKept ==
    ASSUME Inv, CountOK, FlushOK, KeepsFlushes, KeepsCounts
    PROVE  CountOK' /\ FlushOK'
<1>1. /\ all_event_counters' = all_event_counters /\ executed' = executed
      /\ xcd_local_event_counters' = xcd_local_event_counters
      /\ flush_amount' = flush_amount /\ Launched' = Launched
  BY DEF KeepsCounts, Launched
<1>2. CountOK'
  <2>1. \A e : FlushedFeeders(e)' = FlushedFeeders(e)
    BY <1>1, FlushesKept, SameFlushed
  <2>2. \A x, e : Ran(x, e)' = Ran(x, e)
    BY <1>1, FlushesKept, SameFlushed
  <2> QED BY <1>1, <2>1, <2>2 DEF CountOK
<1>3. FlushOK'
  <2>1. ASSUME NEW w \in Worker
        PROVE  FlushedWell(w)'
    <3>1. wpc'[w] = "flush" <=> wpc[w] = "flush"
      BY DEF KeepsFlushes
    <3>2. wpc[w] = "flush" => CurrentTask(w)' = CurrentTask(w)
      BY DEF KeepsFlushes
    <3>3. ASSUME NEW e, ShareDone(w, HwXcd[w], e) PROVE ShareDone(w, HwXcd[w], e)'
      <4>1. \A v \in WorkersAt(HwXcd[w]) : FlushingFor(v, e)' <=> FlushingFor(v, e)
        BY FlushesKept DEF WorkersAt
      <4> QED BY <1>1, <3>3, <4>1 DEF ShareDone
    <3> QED BY <1>1, <3>1, <3>2, <3>3 DEF FlushOK, FlushedWell
  <2> QED BY <2>1 DEF FlushOK
<1> QED BY <1>2, <1>3

LEMMA LaunchKept ==
    ASSUME LaunchOK, \A w \in Worker : BeginSignal(w)' <=> BeginSignal(w),
           UNCHANGED << iteration_num, xcd_event_num_tasks >>,
           \A s \in Sched : to_dispatch'[s] # {} => to_dispatch[s] # {},
           all_event_counters'[LaunchEvent] = all_event_counters[LaunchEvent],
           sched_queues'[Broadcast] = sched_queues[Broadcast]
    PROVE  LaunchOK'
<1>1. Launched' = Launched
  BY DEF Launched
<1>2. \A s : ShareOf(s)' = ShareOf(s)
  BY DEF ShareOf
<1>3. \A s, e : Counted(s, e)' = Counted(s, e)
  BY <1>2 DEF Counted, Feeders
<1> QED BY <1>1, <1>2, <1>3 DEF LaunchOK

LEMMA SameComplete ==
    ASSUME all_event_counters' = all_event_counters
    PROVE  \A e : Complete(e)' <=> Complete(e)
BY DEF Complete, Launched

\* The order of the tiles that have run: the executing workers are the steps' own.
TilesInOrder ==
    \A t \in Tile : executed[t] = Launched =>
      \A a \in Ancestors[t[1]] : Complete(EventOf(a))
Satisfied(w) == wpc[w] = "execute" => DependencySatisfied(CurrentTask(w))

LEMMA OrderParts == OrderOK <=> TilesInOrder /\ \A w \in Worker : Satisfied(w)
BY DEF OrderOK, TilesInOrder, Satisfied

LEMMA OrderKept ==
    ASSUME TilesInOrder, KeepsCounts PROVE TilesInOrder'
<1>1. /\ all_event_counters' = all_event_counters /\ executed' = executed
      /\ Launched' = Launched
  BY DEF KeepsCounts, Launched
<1> QED BY <1>1, SameComplete DEF TilesInOrder

LEMMA SatisfiedKept ==
    ASSUME all_event_counters' = all_event_counters,
           NEW w \in Worker, Satisfied(w), wpc'[w] = "execute" => wpc[w] = "execute",
           wpc'[w] = "execute" => CurrentTask(w)' = CurrentTask(w)
    PROVE  Satisfied(w)'
BY DEF Satisfied, DependencySatisfied

LEMMA TokenShrinks ==
    ASSUME TokenOK, UNCHANGED all_event_counters,
           \A w \in Worker :
             /\ BeginAt(w)' \subseteq BeginAt(w)
             /\ EndSignal(w)' => EndSignal(w) /\ CurrentTask(w)' = CurrentTask(w),
           \A s \in Sched : /\ EndAt(s)' \subseteq EndAt(s)
                            /\ EndAt(s) # {} => iteration_num'[s] = iteration_num[s]
    PROVE  TokenOK'
<1>1. Launched' = Launched /\ (Complete(EndEvent)' <=> Complete(EndEvent))
  BY SameComplete DEF Launched
<1>3. ASSUME NEW w \in Worker, EndSignal(w)'
      PROVE  /\ EventOf(CurrentTask(w)'.pos) = EndEvent
             /\ Complete(EndEvent)'
             /\ \A v \in Worker : (EndSignal(v)' => v = w) /\ BeginAt(v)' = {}
             /\ \A s \in Sched : EndAt(s)' = {}
  <2>1. EndSignal(w)
    BY <1>3
  <2>2. /\ EventOf(CurrentTask(w).pos) = EndEvent /\ Complete(EndEvent)
        /\ \A v \in Worker : (EndSignal(v) => v = w) /\ BeginAt(v) = {}
        /\ \A s \in Sched : EndAt(s) = {}
    BY <2>1 DEF TokenOK
  <2> QED BY <1>1, <1>3, <2>1, <2>2
<1>4. ASSUME NEW s \in Sched, NEW i \in EndAt(s)'
      PROVE  /\ Complete(EndEvent)'
             /\ iteration_num'[s] = Launched'
             /\ \A r \in Sched : \A j \in EndAt(r)' : r = s /\ j = i
             /\ \A w \in Worker : BeginAt(w)' = {}
  <2>1. i \in EndAt(s)
    BY <1>4
  <2>2. /\ Complete(EndEvent) /\ iteration_num[s] = Launched
        /\ \A r \in Sched : \A j \in EndAt(r) : r = s /\ j = i
        /\ \A w \in Worker : BeginAt(w) = {}
    BY <2>1 DEF TokenOK
  <2> QED BY <1>1, <2>1, <2>2
<1>5. \A w \in Worker : \A i \in BeginAt(w)' :
         /\ Complete(EndEvent)'
         /\ \A v \in Worker : \A j \in BeginAt(v)' : v = w /\ j = i
  BY <1>1 DEF TokenOK
<1> QED BY <1>3, <1>4, <1>5 DEF TokenOK

LEMMA TokenKept ==
    ASSUME TokenOK, KeepsHands, UNCHANGED all_event_counters,
           \A w \in Worker : BeginAt(w)' = BeginAt(w),
           \A s \in Sched : /\ EndAt(s)' \subseteq EndAt(s)
                            /\ EndAt(s) # {} => iteration_num'[s] = iteration_num[s]
    PROVE  TokenOK'
BY SameHands, TokenShrinks DEF KeepsHands, EndSignal
-----------------------------------------------------------------------------
(* A task pushed to a worker, and a task finished.                          *)

LEMMA PushEffect ==
    ASSUME Inv, NEW w \in Worker, NEW id \in TaskIds, PushTask(w, id), UNCHANGED workerVars
    PROVE  /\ Len(worker_queues[w]) + 1 \notin Queued(w)
           /\ Len(worker_queues[w]) + 1 \in 1 .. Len(worker_queues'[w])
           /\ Len(worker_queues'[w]) = Len(worker_queues[w]) + 1
           /\ worker_queues'[w][Len(worker_queues[w]) + 1] = id
           /\ \A i \in 1 .. Len(worker_queues[w]) :
                worker_queues'[w][i] = worker_queues[w][i]
           /\ Queued(w)' = Queued(w) \cup {Len(worker_queues[w]) + 1}
           /\ Todo(w)' = Todo(w) \cup {Len(worker_queues[w]) + 1}
           /\ BeginAt(w)' = BeginAt(w) \cup
                (IF id.pos = BeginTask THEN {Len(worker_queues[w]) + 1} ELSE {})
           /\ \A v \in Worker : v # w =>
                /\ worker_queues'[v] = worker_queues[v]
                /\ Queued(v)' = Queued(v) /\ Todo(v)' = Todo(v) /\ BeginAt(v)' = BeginAt(v)
<1> DEFINE n == Len(worker_queues[w])
           d == done_task_pos[w]
<1>1. /\ worker_queues \in [Worker -> Seq(TaskIds)]
      /\ worker_queues' = [worker_queues EXCEPT ![w] = Append(worker_queues[w], id)]
      /\ wpc' = wpc /\ done_task_pos' = done_task_pos
  BY DEF Inv, TypeOK, PushTask, workerVars
<1>2. /\ n \in Nat /\ d \in Nat /\ d <= n
      /\ wpc[w] \in {"flush", "signal"} => d < n
  <2>1. wpc[w] \in {"flush", "signal"} => Loaded(w)
    BY DEF Inv, WorkerPositions
  <2>2. Loaded(w) => d + 1 \in 1 .. n
    BY WorkerFacts
  <2> QED BY <2>1, <2>2, WorkerFacts
<1>3. /\ Len(worker_queues'[w]) = n + 1 /\ worker_queues'[w][n + 1] = id
      /\ \A i \in 1 .. n : worker_queues'[w][i] = worker_queues[w][i]
      /\ \A v \in Worker : v # w => worker_queues'[v] = worker_queues[v]
  BY <1>1, AppendKeeps
<1>4. /\ n + 1 \notin Queued(w) /\ n + 1 \in 1 .. n + 1
      /\ Queued(w)' = Queued(w) \cup {n + 1}
      /\ \A v \in Worker : v # w => Queued(v)' = Queued(v)
  BY <1>1, <1>2, <1>3 DEF Queued
<1>5. Todo(w)' = Todo(w) \cup {n + 1}
  <2> HIDE DEF n, d
  <2>1. n + 1 = d + 1 => wpc[w] \notin {"flush", "signal"}
    BY <1>2
  <2> QED BY <1>1, <1>4, <2>1 DEF Todo, d
<1>6. BeginAt(w)' = BeginAt(w) \cup (IF id.pos = BeginTask THEN {n + 1} ELSE {})
  <2>1. n + 1 = d + 1 => wpc[w] # "signal"
    BY <1>2
  <2>2. \A i \in Queued(w) : worker_queues'[w][i].pos = worker_queues[w][i].pos
    BY <1>3, WorkerFacts
  <2>3. worker_queues'[w][n + 1].pos = id.pos
    BY <1>3
  <2>4. BeginAt(w)' = {i \in Queued(w)' : worker_queues'[w][i].pos = BeginTask /\ (i = d + 1 => wpc[w] # "signal")}
    BY <1>1 DEF BeginAt, Pos
  <2>5. BeginAt(w) = {i \in Queued(w) : worker_queues[w][i].pos = BeginTask /\ (i = d + 1 => wpc[w] # "signal")}
    BY DEF BeginAt, Pos
  <2> HIDE DEF n, d
  <2> QED BY <1>4, <2>1, <2>2, <2>3, <2>4, <2>5
<1>7. \A v \in Worker : v # w => Todo(v)' = Todo(v) /\ BeginAt(v)' = BeginAt(v)
  BY <1>1, <1>3, <1>4 DEF Todo, BeginAt, Pos
<1> QED BY <1>3, <1>4, <1>5, <1>6, <1>7

\* What the workers have in hand is not changed by a push.
LEMMA PushKeepsHands ==
    ASSUME Inv, NEW w \in Worker, NEW id \in TaskIds, PushTask(w, id), UNCHANGED workerVars
    PROVE  \A v \in Worker :
             /\ Loaded(v) => CurrentTask(v)' = CurrentTask(v)
             /\ Loaded(v)' <=> Loaded(v)
             /\ BeginSignal(v)' <=> BeginSignal(v)
             /\ EndSignal(v)' <=> EndSignal(v)
             /\ \A e : FlushingFor(v, e)' <=> FlushingFor(v, e)
             /\ \A i \in 1 .. Len(worker_queues[v]) : Pos(v, i)' = Pos(v, i)
             /\ \A i \in Todo(v) : \A t : Covers(v, i, t)' <=> Covers(v, i, t)
<1> SUFFICES ASSUME NEW v \in Worker
             PROVE /\ Loaded(v) => CurrentTask(v)' = CurrentTask(v)
                   /\ Loaded(v)' <=> Loaded(v)
                   /\ BeginSignal(v)' <=> BeginSignal(v)
                   /\ EndSignal(v)' <=> EndSignal(v)
                   /\ \A e : FlushingFor(v, e)' <=> FlushingFor(v, e)
                   /\ \A i \in 1 .. Len(worker_queues[v]) : Pos(v, i)' = Pos(v, i)
                   /\ \A i \in Todo(v) : \A t : Covers(v, i, t)' <=> Covers(v, i, t)
  OBVIOUS
<1>1. /\ wpc' = wpc /\ done_task_pos' = done_task_pos /\ next_task_pos' = next_task_pos
      /\ wpc[v] \in {"flush", "signal"} => Loaded(v)
  BY DEF Inv, WorkerPositions, workerVars, loadVars
<1>2. \A i \in 1 .. Len(worker_queues[v]) : worker_queues'[v][i] = worker_queues[v][i]
  BY PushEffect
<1>3. \A i \in 1 .. Len(worker_queues[v]) : Pos(v, i)' = Pos(v, i)
  BY <1>2 DEF Pos
<1>4. Loaded(v) => CurrentTask(v)' = CurrentTask(v)
  <2>1. Loaded(v) => done_task_pos[v] + 1 \in 1 .. Len(worker_queues[v])
    BY WorkerFacts
  <2> QED BY <1>1, <1>2, <2>1 DEF CurrentTask
<1>5. /\ BeginSignal(v)' <=> BeginSignal(v)
      /\ EndSignal(v)' <=> EndSignal(v)
      /\ \A e : FlushingFor(v, e)' <=> FlushingFor(v, e)
  BY <1>1, <1>4 DEF BeginSignal, EndSignal, FlushingFor
<1>6. Todo(v) \subseteq 1 .. Len(worker_queues[v]) /\ Todo(v) \subseteq Todo(v)'
  BY PushEffect, WorkerFacts DEF Todo
<1>7. \A i \in Todo(v) : \A t : Covers(v, i, t)' <=> Covers(v, i, t)
  BY <1>3, <1>6 DEF Covers
<1>8. Loaded(v)' <=> Loaded(v)
  BY <1>1 DEF Loaded
<1> QED BY <1>3, <1>4, <1>5, <1>7, <1>8

LEMMA FinishEffect ==
    ASSUME Inv, NEW w \in Worker, Loaded(w), FinishTask(w), UNCHANGED worker_queues
    PROVE  /\ wpc'[w] \in {"poll", "wait"}
           /\ \A v \in Worker : v # w => wpc'[v] = wpc[v]
           /\ Queued(w)' = Queued(w) \ {done_task_pos[w] + 1}
           /\ Todo(w)' = Todo(w) \ {done_task_pos[w] + 1}
           /\ BeginAt(w)' = BeginAt(w) \ {done_task_pos[w] + 1}
           /\ ~BeginSignal(w)' /\ ~EndSignal(w)' /\ \A e : ~FlushingFor(w, e)'
           /\ wpc[w] \in {"flush", "signal"} => done_task_pos[w] + 1 \notin Todo(w)
           /\ \A v \in Worker : \A i : Pos(v, i)' = Pos(v, i)
           /\ \A v \in Worker : v # w =>
                /\ CurrentTask(v)' = CurrentTask(v)
                /\ Queued(v)' = Queued(v) /\ Todo(v)' = Todo(v) /\ BeginAt(v)' = BeginAt(v)
                /\ BeginSignal(v)' <=> BeginSignal(v)
                /\ EndSignal(v)' <=> EndSignal(v)
                /\ \A e : FlushingFor(v, e)' <=> FlushingFor(v, e)
<1> DEFINE d == done_task_pos[w]
<1>1. /\ wpc'[w] \in {"poll", "wait"} /\ done_task_pos'[w] = d + 1 /\ d \in Nat
      /\ \A v \in Worker : v # w => wpc'[v] = wpc[v] /\ done_task_pos'[v] = done_task_pos[v]
      /\ worker_queues' = worker_queues
  BY DEF Inv, TypeOK, FinishTask
<1>2. \A v \in Worker : \A i : Pos(v, i)' = Pos(v, i)
  BY <1>1 DEF Pos
<1>3. /\ Queued(w)' = Queued(w) \ {d + 1}
      /\ \A i \in Queued(w)' : i # d + 1
      /\ \A v \in Worker : v # w => Queued(v)' = Queued(v)
  BY <1>1, WorkerFacts DEF Queued
<1>4. Todo(w)' = Todo(w) \ {d + 1}
  BY <1>1, <1>3 DEF Todo
<1>5. BeginAt(w)' = BeginAt(w) \ {d + 1}
  BY <1>1, <1>2, <1>3 DEF BeginAt
<1>6. ~BeginSignal(w)' /\ ~EndSignal(w)' /\ \A e : ~FlushingFor(w, e)'
  BY <1>1 DEF BeginSignal, EndSignal, FlushingFor
<1>7. ASSUME NEW v \in Worker, v # w
      PROVE  /\ CurrentTask(v)' = CurrentTask(v)
             /\ Queued(v)' = Queued(v) /\ Todo(v)' = Todo(v) /\ BeginAt(v)' = BeginAt(v)
             /\ BeginSignal(v)' <=> BeginSignal(v)
             /\ EndSignal(v)' <=> EndSignal(v)
             /\ \A e : FlushingFor(v, e)' <=> FlushingFor(v, e)
  <2>1. wpc'[v] = wpc[v] /\ done_task_pos'[v] = done_task_pos[v]
    BY <1>1, <1>7
  <2>2. CurrentTask(v)' = CurrentTask(v)
    BY <1>1, <2>1 DEF CurrentTask
  <2>3. Queued(v)' = Queued(v)
    BY <1>3, <1>7
  <2>4. Todo(v)' = Todo(v) /\ BeginAt(v)' = BeginAt(v)
    BY <1>2, <2>1, <2>3 DEF Todo, BeginAt
  <2> QED BY <2>1, <2>2, <2>3, <2>4 DEF BeginSignal, EndSignal, FlushingFor
<1>8. wpc[w] \in {"flush", "signal"} => d + 1 \notin Todo(w)
  BY DEF Todo
<1> QED BY <1>1, <1>2, <1>3, <1>4, <1>5, <1>6, <1>7, <1>8
-----------------------------------------------------------------------------
(* The boot handshake, the schedulers' positions and the end of the launch: *)
(* steps that leave them alone.                                             *)

LEMMA BootKept ==
    ASSUME BootOK, UNCHANGED << placement, my_workers >>,
           \A v \in Worker : /\ wpc'[v] = "map" <=> wpc[v] = "map"
                             /\ wpc'[v] = "ready" <=> wpc[v] = "ready",
           \A s \in Sched : spc'[s] = "boot" <=> spc[s] = "boot",
           worker_queues' = worker_queues \/ \E s \in Sched : spc[s] # "boot"
    PROVE  BootOK'
<1>1. /\ worker_xcd_map' = worker_xcd_map /\ my_workers' = my_workers
      /\ worker_xcd_ready_count' = worker_xcd_ready_count
  BY DEF placement
<1>2. {w \in Worker : wpc'[w] \notin {"map", "ready"}}
        = {w \in Worker : wpc[w] \notin {"map", "ready"}}
  OBVIOUS
<1>3. ASSUME NEW v \in Worker, wpc'[v] \in {"map", "ready"}
      PROVE  \A w \in Worker : Len(worker_queues'[w]) = 0
  <2>1. wpc[v] \in {"map", "ready"}
    BY <1>3
  <2>2. \A w \in Worker : Len(worker_queues[w]) = 0
    BY <2>1 DEF BootOK
  <2>3. ~ \E s \in Sched : spc[s] # "boot"
    BY <2>1 DEF BootOK
  <2> QED BY <2>2, <2>3
<1>4. \A w \in Worker : worker_xcd_map'[w] = IF wpc'[w] = "map" THEN -1 ELSE HwXcd[w]
  BY <1>1 DEF BootOK
<1>5. worker_xcd_ready_count' = Cardinality({w \in Worker : wpc'[w] \notin {"map", "ready"}})
  BY <1>1, <1>2 DEF BootOK
<1>6. \A s \in Sched : spc'[s] # "boot" =>
        /\ my_workers'[s] = WorkersAt(s)
        /\ \A w \in Worker : wpc'[w] \notin {"map", "ready"}
  BY <1>1 DEF BootOK
<1>7. \A s : WorkersAt(s)' = WorkersAt(s)
  BY DEF WorkersAt
<1> QED BY <1>3, <1>4, <1>5, <1>6, <1>7 DEF BootOK

\* The scheduler does not move.
SameSched(s) ==
    /\ spc'[s] = spc[s] /\ queue_idx'[s] = queue_idx[s]
    /\ cur_event_pos'[s] = cur_event_pos[s] /\ last_event_pos'[s] = last_event_pos[s]
    /\ iteration_num'[s] = iteration_num[s] /\ loop_idx'[s] = loop_idx[s]
    /\ to_dispatch'[s] = to_dispatch[s]

\* What has been signalled stays where it is.
LogsGrow ==
    \A q \in Queue : \A i \in 1 .. Len(sched_queues[q]) : sched_queues'[q][i] = sched_queues[q][i]

LEMMA EventKept ==
    ASSUME Inv, LogsGrow, NEW s \in Sched, SameSched(s)
    PROVE  /\ Unread(s)' <=> Unread(s)
           /\ Unread(s) => CurrentEvent(s)' = CurrentEvent(s)
<1>1. Unread(s)' <=> Unread(s)
  BY DEF SameSched, Unread
<1>2. Unread(s) => CurrentEvent(s)' = CurrentEvent(s)
  <2>1. Unread(s) => /\ queue_idx[s] \in Queue
                     /\ cur_event_pos[s][queue_idx[s]] + 1 \in 1 .. Len(sched_queues[queue_idx[s]])
    BY SchedFacts
  <2> QED BY <2>1 DEF SameSched, LogsGrow, CurrentEvent
<1> QED BY <1>1, <1>2

LEMMA SchedGoodKept ==
    ASSUME Inv, LogsGrow, NEW s \in Sched, SchedGood(s), SameSched(s)
    PROVE  SchedGood(s)'
<1>1. /\ Unread(s)' <=> Unread(s)
      /\ Unread(s) => CurrentEvent(s)' = CurrentEvent(s)
  BY EventKept
<1>2. spc[s] \in {"prepare", "terminate"} => Unread(s)
  BY DEF Inv, SchedPositions
<1>3. ShareOf(s)' = ShareOf(s) /\ WorkersAt(s)' = WorkersAt(s)
  BY DEF ShareOf, WorkersAt
<1>4. spc'[s] \in {"prepare", "terminate"} => queue_idx'[s] = s /\ CurrentEvent(s)' = EndEvent
  BY <1>1, <1>2 DEF SchedGood, SameSched
<1>5. spc'[s] = "exit" => Unread(s)' /\ CurrentEvent(s)' = TerminationEvent
  BY <1>1 DEF SchedGood, SameSched
<1>6. \/ spc'[s] \in {"boot", "prepare"}
      \/ spc'[s] = "poll" /\ ~(Unread(s)' /\ CurrentEvent(s)' = TerminationEvent)
      => loop_idx'[s] = 0
  BY <1>1 DEF SchedGood, SameSched
<1> QED BY <1>3, <1>4, <1>5, <1>6 DEF SchedGood, SameSched

LEMMA SchedKept ==
    ASSUME Inv, SchedOK, UNCHANGED << sched_queues, spc, eventVars, iteration_num,
                                      loop_idx, to_dispatch >>
    PROVE  SchedOK'
<1>1. LogsGrow /\ \A s \in Sched : SameSched(s)
  BY DEF LogsGrow, SameSched, eventVars
<1>2. \A s \in Sched : SchedGood(s)'
  BY <1>1, SchedGoodKept DEF SchedOK
<1>3. LogsOK'
  BY DEF SchedOK, LogsOK
<1> QED BY <1>2, <1>3 DEF SchedOK

LEMMA EndingKept ==
    ASSUME EndingOK, KeepsWork, UNCHANGED << all_event_counters, sched_queues >>,
           \A s \in Sched :
             /\ EndAt(s)' # {} =>
                  EndAt(s) # {} /\ (spc[s] = "terminate" => spc'[s] = "terminate")
             /\ spc'[s] = "terminate" => spc[s] = "terminate" /\ loop_idx'[s] = loop_idx[s]
             /\ \A w \in Worker : TerminationSeen(w, s) => TerminationSeen(w, s)',
           \A w \in Worker :
             /\ wpc'[w] = "exit" => \/ wpc[w] = "exit"
                                    \/ Loaded(w) /\ CurrentTask(w).pos = TerminateTask
             /\ Loaded(w) => Loaded(w)'
    PROVE  EndingOK'
<1>1. \A s : TermAt(s)' = TermAt(s)
  BY DEF TermAt
<1>2. Complete(EndEvent)' <=> Complete(EndEvent)
  BY SameComplete
<1>3. \A w \in Worker : /\ EndSignal(w)' <=> EndSignal(w)
                        /\ BeginAt(w)' = BeginAt(w)
                        /\ CurrentTask(w)' = CurrentTask(w)
                        /\ \A i : Pos(w, i)' = Pos(w, i)
  BY SameWork
<1>4. Ending' => /\ Complete(EndEvent)'
                 /\ \A w \in Worker : ~EndSignal(w)' /\ BeginAt(w)' = {}
                 /\ \A s \in Sched : EndAt(s)' # {} => spc'[s] = "terminate"
  BY <1>1, <1>2, <1>3 DEF EndingOK, Ending
<1>5. \A s \in Sched :
        /\ \A i, j \in TermAt(s)' : i = j
        /\ spc'[s] = "terminate" => \A r \in Sched : TermAt(r)' # {} => r < loop_idx'[s]
  BY <1>1 DEF EndingOK
<1>6. \A w \in Worker : \A i \in 1 .. Len(worker_queues'[w]) :
        Pos(w, i)' = TerminateTask =>
          i = Len(worker_queues'[w]) /\ TerminationSeen(w, HwXcd[w])'
  <2>1. worker_queues' = worker_queues
    BY DEF KeepsWork
  <2>2. \A w \in Worker : HwXcd[w] \in Sched
    BY Constants DEF Sched
  <2> QED BY <1>3, <2>1, <2>2 DEF EndingOK
<1>7. \A w \in Worker : wpc'[w] = "exit" => Loaded(w)' /\ CurrentTask(w)'.pos = TerminateTask
  BY <1>3 DEF EndingOK
<1> QED BY <1>4, <1>5, <1>6, <1>7 DEF EndingOK

-----------------------------------------------------------------------------
(* The steps that move no task and count nothing.                           *)

LEMMA QuietWorker ==
    ASSUME Inv, IInv, NEW w \in Worker,
           UNCHANGED << worker_queues, sched_queues, counters, done_task_pos,
                        flush_amount, executed, schedVars >>,
           \A v \in Worker : v # w => wpc'[v] = wpc[v],
           wpc[w] \notin {"flush", "signal"}, wpc'[w] \notin {"flush", "signal"}
    PROVE  /\ SchedOK' /\ LaunchOK' /\ QueueOK' /\ TileOK' /\ CountOK' /\ FlushOK'
           /\ TilesInOrder' /\ TokenOK' /\ KeepsWork
           /\ \A v \in Worker : CurrentTask(v)' = CurrentTask(v)
           /\ \A s \in Sched : SameSched(s) /\ EndAt(s)' = EndAt(s)
<1>1. KeepsWork /\ KeepsDispatch /\ KeepsCounts
  BY DEF KeepsWork, KeepsDispatch, KeepsCounts, counters, schedVars, dispatchVars
<1>2. /\ all_event_counters' = all_event_counters /\ sched_queues' = sched_queues
      /\ executed' = executed /\ iteration_num' = iteration_num
      /\ spc' = spc /\ cur_event_pos' = cur_event_pos
  BY DEF counters, schedVars, dispatchVars, eventVars
<1>3. SchedOK' /\ \A s \in Sched : SameSched(s)
  <2>1. \A s \in Sched : SameSched(s)
    BY DEF SameSched, schedVars, dispatchVars, eventVars
  <2> QED BY <2>1, SchedKept DEF IInv, schedVars, dispatchVars
<1>4. \A s \in Sched : EndAt(s)' = EndAt(s)
  BY <1>2 DEF EndAt, Unhandled
<1>5. LaunchOK' /\ QueueOK'
  BY <1>1, <1>2, SameWork, LaunchKept, QueueKept DEF IInv, KeepsDispatch, counters
<1>6. TileOK'
  BY <1>1, <1>2, SameWaiting, TileKept DEF IInv
<1>7. CountOK' /\ FlushOK' /\ TilesInOrder'
  BY <1>1, HandsKept, FlushesKept, CountsKept, OrderKept, OrderParts DEF IInv
<1>8. TokenOK'
  BY <1>1, <1>2, <1>4, HandsKept, SameWork, TokenKept DEF IInv
<1>9. \A v \in Worker : CurrentTask(v)' = CurrentTask(v)
  BY <1>1, SameWork
<1> QED BY <1>1, <1>3, <1>4, <1>5, <1>6, <1>7, <1>8, <1>9

LEMMA QuietBoots ==
    ASSUME BootOK, UNCHANGED << placement, my_workers, spc, worker_queues >>, NEW w \in Worker,
           \A v \in Worker : v # w => wpc'[v] = wpc[v],
           wpc[w] \notin {"map", "ready"}, wpc'[w] \notin {"map", "ready"}
    PROVE  BootOK'
<1>1. \A v \in Worker : /\ wpc'[v] = "map" <=> wpc[v] = "map"
                        /\ wpc'[v] = "ready" <=> wpc[v] = "ready"
  OBVIOUS
<1> QED BY <1>1, BootKept

LEMMA SeenKept ==
    ASSUME Inv, LogsGrow, NEW s \in Sched, SameSched(s), NEW w \in Worker
    PROVE  TerminationSeen(w, s) => TerminationSeen(w, s)'
<1>1. /\ Unread(s)' <=> Unread(s)
      /\ Unread(s) => CurrentEvent(s)' = CurrentEvent(s)
  BY EventKept
<1>2. RankIn(WorkersAt(s), w)' = RankIn(WorkersAt(s), w)
  BY DEF RankIn, WorkersAt
<1> QED BY <1>1, <1>2 DEF TerminationSeen, SameSched

LEMMA QuietEnds ==
    ASSUME Inv, IInv, NEW w \in Worker, KeepsWork,
           UNCHANGED << all_event_counters, sched_queues >>,
           \A v \in Worker : v # w => wpc'[v] = wpc[v],
           wpc'[w] = "exit" => Loaded(w) /\ CurrentTask(w).pos = TerminateTask,
           \A s \in Sched : SameSched(s) /\ EndAt(s)' = EndAt(s),
           \A v \in Worker : Loaded(v) => Loaded(v)'
    PROVE  EndingOK'
<1>1. LogsGrow
  BY DEF LogsGrow
<1>2. \A s \in Sched, v \in Worker : TerminationSeen(v, s) => TerminationSeen(v, s)'
  BY <1>1, SeenKept
<1> QED BY <1>2, EndingKept DEF IInv, SameSched

LEMMA OrderPartsNext == OrderOK' <=> TilesInOrder' /\ \A w \in Worker : Satisfied(w)'
BY DEF OrderOK, TilesInOrder, Satisfied

LEMMA AllParts ==
    ASSUME BootOK', SchedOK', LaunchOK', QueueOK', TileOK', CountOK', FlushOK',
           TilesInOrder', \A v \in Worker : Satisfied(v)', TokenOK', EndingOK'
    PROVE  IInv'
BY OrderPartsNext DEF IInv

LEMMA MapXcdSafe == ASSUME Inv, IInv, NEW w \in Worker, MapXcd(w) PROVE IInv'
<1>1. /\ wpc[w] = "map" /\ wpc' = [wpc EXCEPT ![w] = "ready"]
      /\ worker_xcd_map' = [worker_xcd_map EXCEPT ![w] = HwXcd[w]]
      /\ UNCHANGED << worker_queues, sched_queues, counters, worker_xcd_ready_count,
                      loadVars, done_task_pos, flush_amount, executed, schedVars >>
  BY DEF MapXcd
<1>2. /\ wpc'[w] = "ready" /\ \A v \in Worker : v # w => wpc'[v] = wpc[v]
      /\ worker_xcd_map'[w] = HwXcd[w]
      /\ \A v \in Worker : v # w => worker_xcd_map'[v] = worker_xcd_map[v]
  BY <1>1 DEF Inv, TypeOK
<1>3. /\ SchedOK' /\ LaunchOK' /\ QueueOK' /\ TileOK' /\ CountOK' /\ FlushOK'
      /\ TilesInOrder' /\ TokenOK' /\ KeepsWork
      /\ \A v \in Worker : CurrentTask(v)' = CurrentTask(v)
      /\ \A s \in Sched : SameSched(s) /\ EndAt(s)' = EndAt(s)
  BY <1>1, <1>2, QuietWorker
<1>4. all_event_counters' = all_event_counters
  BY <1>1 DEF counters
<1>5. \A v \in Worker : Satisfied(v)'
  BY <1>2, <1>3, <1>4, SatisfiedKept, OrderParts DEF IInv
<1>6. EndingOK'
  <2>1. \A v \in Worker : Loaded(v) => Loaded(v)'
    BY <1>1 DEF Loaded, loadVars
  <2> QED BY <1>1, <1>2, <1>3, <1>4, <2>1, QuietEnds
<1>7. BootOK'
  <2>1. \A s \in Sched : spc'[s] = "boot"
    BY <1>1 DEF IInv, BootOK, schedVars
  <2>2. {v \in Worker : wpc'[v] \notin {"map", "ready"}}
          = {v \in Worker : wpc[v] \notin {"map", "ready"}}
    BY <1>1, <1>2
  <2>3. \A v \in Worker : Len(worker_queues'[v]) = 0
    BY <1>1 DEF IInv, BootOK
  <2>4. \A v \in Worker : worker_xcd_map'[v] = IF wpc'[v] = "map" THEN -1 ELSE HwXcd[v]
    BY <1>2 DEF IInv, BootOK
  <2>5. worker_xcd_ready_count' = Cardinality({v \in Worker : wpc'[v] \notin {"map", "ready"}})
    BY <1>1, <2>2 DEF IInv, BootOK
  <2> QED BY <2>1, <2>3, <2>4, <2>5 DEF BootOK
<1> QED BY <1>3, <1>5, <1>6, <1>7, AllParts

LEMMA ReportReadySafe == ASSUME Inv, IInv, NEW w \in Worker, ReportReady(w) PROVE IInv'
<1>1. /\ wpc[w] = "ready" /\ wpc' = [wpc EXCEPT ![w] = "poll"]
      /\ worker_xcd_ready_count' = worker_xcd_ready_count + 1
      /\ UNCHANGED << worker_queues, sched_queues, counters, worker_xcd_map,
                      loadVars, done_task_pos, flush_amount, executed, schedVars >>
  BY DEF ReportReady
<1>2. wpc'[w] = "poll" /\ \A v \in Worker : v # w => wpc'[v] = wpc[v]
  BY <1>1 DEF Inv, TypeOK
<1>3. /\ SchedOK' /\ LaunchOK' /\ QueueOK' /\ TileOK' /\ CountOK' /\ FlushOK'
      /\ TilesInOrder' /\ TokenOK' /\ KeepsWork
      /\ \A v \in Worker : CurrentTask(v)' = CurrentTask(v)
      /\ \A s \in Sched : SameSched(s) /\ EndAt(s)' = EndAt(s)
  BY <1>1, <1>2, QuietWorker
<1>4. all_event_counters' = all_event_counters
  BY <1>1 DEF counters
<1>5. \A v \in Worker : Satisfied(v)'
  BY <1>2, <1>3, <1>4, SatisfiedKept, OrderParts DEF IInv
<1>6. EndingOK'
  <2>1. \A v \in Worker : Loaded(v) => Loaded(v)'
    BY <1>1 DEF Loaded, loadVars
  <2> QED BY <1>1, <1>2, <1>3, <1>4, <2>1, QuietEnds
<1>7. BootOK'
  <2> DEFINE R == {v \in Worker : wpc[v] \notin {"map", "ready"}}
  <2>1. \A s \in Sched : spc'[s] = "boot"
    BY <1>1 DEF IInv, BootOK, schedVars
  <2>2. worker_xcd_ready_count' = Cardinality(R) + 1
    BY <1>1 DEF IInv, BootOK
  <2>3. {v \in Worker : wpc'[v] \notin {"map", "ready"}} = R \cup {w} /\ w \notin R
    BY <1>1, <1>2
  <2>4. IsFiniteSet(R)
    <3>1. IsFiniteSet(Worker) /\ R \subseteq Worker
      BY Constants, FS_Interval DEF Worker
    <3> QED BY <3>1, FS_Subset
  <2> HIDE DEF R
  <2>5. worker_xcd_ready_count' = Cardinality({v \in Worker : wpc'[v] \notin {"map", "ready"}})
    BY <2>2, <2>3, <2>4, FS_AddElement
  <2>6. \A v \in Worker : Len(worker_queues'[v]) = 0
    BY <1>1 DEF IInv, BootOK
  <2>7. \A v \in Worker : worker_xcd_map'[v] = IF wpc'[v] = "map" THEN -1 ELSE HwXcd[v]
    BY <1>1, <1>2 DEF IInv, BootOK
  <2> QED BY <2>1, <2>5, <2>6, <2>7 DEF BootOK
<1> QED BY <1>3, <1>5, <1>6, <1>7, AllParts

LEMMA LoadTasksSafe ==
    ASSUME Inv, IInv, NEW w \in Worker, LoadTasks(w), Inv' PROVE IInv'
<1>1. /\ wpc[w] = "poll" /\ wpc' = [wpc EXCEPT ![w] = "wait"]
      /\ UNCHANGED << shared, done_task_pos, flush_amount, executed, schedVars >>
  BY DEF LoadTasks
<1>2. wpc'[w] = "wait" /\ \A v \in Worker : v # w => wpc'[v] = wpc[v]
  BY <1>1 DEF Inv, TypeOK
<1>3. /\ SchedOK' /\ LaunchOK' /\ QueueOK' /\ TileOK' /\ CountOK' /\ FlushOK'
      /\ TilesInOrder' /\ TokenOK' /\ KeepsWork
      /\ \A v \in Worker : CurrentTask(v)' = CurrentTask(v)
      /\ \A s \in Sched : SameSched(s) /\ EndAt(s)' = EndAt(s)
  BY <1>1, <1>2, QuietWorker DEF shared
<1>4. all_event_counters' = all_event_counters
  BY <1>1 DEF shared, counters
<1>5. \A v \in Worker : Satisfied(v)'
  BY <1>2, <1>3, <1>4, SatisfiedKept, OrderParts DEF IInv
<1>6. EndingOK'
  <2>1. next_task_pos[w] <= next_task_pos'[w]
           /\ \A v \in Worker : v # w => next_task_pos'[v] = next_task_pos[v]
    <3> DEFINE known == IF next_task_pos[w] = last_task_pos[w]
                        THEN Len(worker_queues[w]) ELSE last_task_pos[w]
               n == known - next_task_pos[w]
    <3>1. /\ n > 0
          /\ next_task_pos' = [next_task_pos EXCEPT ![w] =
                                 @ + IF n < TASK_DESCS_BUFFER_LENGTH
                                     THEN n ELSE TASK_DESCS_BUFFER_LENGTH]
      BY DEF LoadTasks
    <3>2. next_task_pos \in [Worker -> Nat] /\ known \in Nat
      BY WorkerFacts DEF Inv, TypeOK
    <3>3. n \in Int /\ next_task_pos[w] \in Nat
      BY <3>2
    <3> HIDE DEF n
    <3> QED BY <3>1, <3>2, <3>3, Constants
  <2>2. \A v \in Worker : next_task_pos[v] \in Nat /\ next_task_pos'[v] \in Nat /\ done_task_pos[v] \in Nat
    BY DEF Inv, TypeOK
  <2>3. \A v \in Worker : Loaded(v) => Loaded(v)'
    BY <1>1, <2>1, <2>2 DEF Loaded
  <2> QED BY <1>1, <1>2, <1>3, <1>4, <2>3, QuietEnds DEF shared
<1>7. BootOK'
  BY <1>1, <1>2, QuietBoots DEF IInv, shared, schedVars, dispatchVars
<1> QED BY <1>3, <1>5, <1>6, <1>7, AllParts

LEMMA StartTaskSafe == ASSUME Inv, IInv, NEW w \in Worker, StartTask(w) PROVE IInv'
<1>1. /\ wpc[w] = "wait" /\ Loaded(w) /\ DependencySatisfied(CurrentTask(w))
      /\ wpc' = [wpc EXCEPT ![w] = IF CurrentTask(w).pos = TerminateTask
                                   THEN "exit" ELSE "execute"]
      /\ UNCHANGED << shared, loadVars, done_task_pos, flush_amount, executed, schedVars >>
  BY DEF StartTask, AtTask
<1>2. /\ wpc'[w] \in {"exit", "execute"}
      /\ wpc'[w] = "exit" => CurrentTask(w).pos = TerminateTask
      /\ \A v \in Worker : v # w => wpc'[v] = wpc[v]
  BY <1>1 DEF Inv, TypeOK
<1>3. /\ SchedOK' /\ LaunchOK' /\ QueueOK' /\ TileOK' /\ CountOK' /\ FlushOK'
      /\ TilesInOrder' /\ TokenOK' /\ KeepsWork
      /\ \A v \in Worker : CurrentTask(v)' = CurrentTask(v)
      /\ \A s \in Sched : SameSched(s) /\ EndAt(s)' = EndAt(s)
  BY <1>1, <1>2, QuietWorker DEF shared
<1>4. all_event_counters' = all_event_counters
  BY <1>1 DEF shared, counters
<1>5. \A v \in Worker : Satisfied(v)'
  <2>1. Satisfied(w)'
    BY <1>1, <1>3, <1>4 DEF Satisfied, DependencySatisfied
  <2>2. \A v \in Worker : v # w => Satisfied(v)'
    BY <1>2, <1>3, <1>4, SatisfiedKept, OrderParts DEF IInv
  <2> QED BY <2>1, <2>2
<1>6. EndingOK'
  <2>1. \A v \in Worker : Loaded(v) => Loaded(v)'
    BY <1>1 DEF Loaded, loadVars
  <2> QED BY <1>1, <1>2, <1>3, <1>4, <2>1, QuietEnds DEF shared
<1>7. BootOK'
  BY <1>1, <1>2, QuietBoots DEF IInv, shared, schedVars, dispatchVars
<1> QED BY <1>3, <1>5, <1>6, <1>7, AllParts

LEMMA QuietSched ==
    ASSUME Inv, IInv, UNCHANGED << shared, workerVars, iteration_num, loop_idx, to_dispatch >>,
           UNCHANGED cur_event_pos
    PROVE  /\ LaunchOK' /\ QueueOK' /\ TileOK' /\ CountOK' /\ FlushOK'
           /\ TilesInOrder' /\ (\A v \in Worker : Satisfied(v)') /\ TokenOK'
           /\ KeepsWork /\ LogsGrow /\ LogsOK'
           /\ all_event_counters' = all_event_counters /\ sched_queues' = sched_queues
           /\ wpc' = wpc
           /\ \A s \in Sched : EndAt(s)' = EndAt(s)
           /\ \A v \in Worker : Loaded(v) => Loaded(v)'
<1>1. KeepsWork /\ KeepsDispatch /\ KeepsCounts
  BY DEF KeepsWork, KeepsDispatch, KeepsCounts, counters, shared, workerVars
<1>2. /\ all_event_counters' = all_event_counters /\ sched_queues' = sched_queues
      /\ executed' = executed /\ iteration_num' = iteration_num
      /\ wpc' = wpc /\ done_task_pos' = done_task_pos /\ next_task_pos' = next_task_pos
  BY DEF counters, shared, workerVars, loadVars
<1>3. \A s \in Sched : EndAt(s)' = EndAt(s)
  BY <1>2 DEF EndAt, Unhandled
<1>4. LaunchOK' /\ QueueOK'
  BY <1>1, <1>2, SameWork, LaunchKept, QueueKept DEF IInv, shared, counters
<1>5. TileOK'
  BY <1>1, <1>2, SameWaiting, TileKept DEF IInv
<1>6. CountOK' /\ FlushOK' /\ TilesInOrder'
  BY <1>1, HandsKept, FlushesKept, CountsKept, OrderKept, OrderParts DEF IInv
<1>7. TokenOK'
  BY <1>1, <1>2, <1>3, HandsKept, SameWork, TokenKept DEF IInv
<1>8. \A v \in Worker : Satisfied(v)'
  BY <1>1, <1>2, SameWork, SatisfiedKept, OrderParts DEF IInv
<1>9. LogsGrow /\ LogsOK'
  BY <1>2 DEF LogsGrow, LogsOK, IInv, SchedOK
<1>10. \A v \in Worker : Loaded(v) => Loaded(v)'
  BY <1>2 DEF Loaded
<1> QED BY <1>1, <1>2, <1>3, <1>4, <1>5, <1>6, <1>7, <1>8, <1>9, <1>10

\* Scheduler s alone moves.
LEMMA OneSchedMoves ==
    ASSUME Inv, SchedOK, LogsGrow, NEW s \in Sched,
           \A r \in Sched : r # s => SameSched(r), SchedGood(s)', LogsOK'
    PROVE  SchedOK'
<1>1. \A r \in Sched : r # s => SchedGood(r)'
  BY SchedGoodKept DEF SchedOK
<1> QED BY <1>1 DEF SchedOK

LEMMA CollectWorkersSafe == ASSUME Inv, IInv, NEW s \in Sched, CollectWorkers(s) PROVE IInv'
<1>1. /\ spc[s] = "boot" /\ worker_xcd_ready_count >= NumWorkers
      /\ my_workers' = [my_workers EXCEPT ![s] = WorkersOn(s)]
      /\ spc' = [spc EXCEPT ![s] = "poll"]
      /\ UNCHANGED << shared, workerVars, eventVars, iteration_num,
                      next_worker_idx, loop_idx, to_dispatch >>
  BY DEF CollectWorkers, Goto
<1>2. /\ spc'[s] = "poll" /\ \A r \in Sched : r # s => spc'[r] = spc[r]
      /\ my_workers'[s] = WorkersOn(s)
      /\ \A r \in Sched : r # s => my_workers'[r] = my_workers[r]
  BY <1>1 DEF Inv, TypeOK
<1>3. /\ LaunchOK' /\ QueueOK' /\ TileOK' /\ CountOK' /\ FlushOK'
      /\ TilesInOrder' /\ (\A v \in Worker : Satisfied(v)') /\ TokenOK'
      /\ KeepsWork /\ LogsGrow /\ LogsOK'
      /\ all_event_counters' = all_event_counters /\ sched_queues' = sched_queues
      /\ wpc' = wpc
      /\ \A r \in Sched : EndAt(r)' = EndAt(r)
      /\ \A v \in Worker : Loaded(v) => Loaded(v)'
  BY <1>1, QuietSched DEF eventVars
<1>4. \A r \in Sched : r # s => SameSched(r)
  BY <1>1, <1>2 DEF SameSched, eventVars
<1>5. SchedGood(s)'
  <2>1. loop_idx'[s] = 0 /\ to_dispatch'[s] = {} /\ queue_idx'[s] \in {s, Broadcast}
    BY <1>1 DEF IInv, SchedOK, SchedGood, eventVars
  <2>2. iteration_num'[s] = cur_event_pos'[s][Broadcast]
    BY <1>1, SchedFacts, Constants DEF IInv, SchedOK, SchedGood, eventVars
  <2>3. iteration_num'[s] = cur_event_pos'[s][Broadcast] + 0
    BY <1>1, <2>2, SchedFacts, Constants DEF eventVars
  <2> QED BY <1>2, <2>1, <2>3 DEF SchedGood
<1>6. SchedOK'
  BY <1>3, <1>4, <1>5, OneSchedMoves DEF IInv
<1>7. EndingOK'
  <2>1. \A r \in Sched, v \in Worker : TerminationSeen(v, r) => TerminationSeen(v, r)'
    <3>1. \A v \in Worker : ~TerminationSeen(v, s)
      BY <1>1 DEF TerminationSeen
    <3>2. \A r \in Sched, v \in Worker : r # s => (TerminationSeen(v, r) => TerminationSeen(v, r)')
      BY <1>3, <1>4, SeenKept
    <3> QED BY <3>1, <3>2
  <2>2. loop_idx' = loop_idx
    BY <1>1
  <2> QED BY <1>1, <1>2, <1>3, <2>1, <2>2, EndingKept DEF IInv
<1>8. BootOK'
  <2>1. \A w \in Worker : wpc[w] \notin {"map", "ready"}
    <3> DEFINE R == {w \in Worker : wpc[w] \notin {"map", "ready"}}
    <3>1. IsFiniteSet(Worker) /\ Cardinality(Worker) = NumWorkers /\ R \subseteq Worker
      BY Constants, FS_Interval DEF Worker
    <3>2. Cardinality(R) >= NumWorkers
      BY <1>1 DEF IInv, BootOK
    <3> HIDE DEF R
    <3>3. R = Worker
      <4>1. Cardinality(R) <= Cardinality(Worker) /\ (Cardinality(R) = Cardinality(Worker) => R = Worker)
            /\ Cardinality(R) \in Nat /\ Cardinality(Worker) \in Nat
        BY <3>1, FS_Subset, FS_CardinalityType
      <4> QED BY <3>1, <3>2, <4>1
    <3> QED BY <3>3 DEF R
  <2>2. \A w \in Worker : worker_xcd_map[w] = HwXcd[w]
    BY <2>1 DEF IInv, BootOK
  <2>3. WorkersOn(s) = WorkersAt(s)
    BY <2>2 DEF WorkersOn, WorkersAt
  <2>4. worker_xcd_map' = worker_xcd_map /\ worker_xcd_ready_count' = worker_xcd_ready_count
        /\ wpc' = wpc /\ worker_queues' = worker_queues
    BY <1>1 DEF shared, placement, workerVars
  <2> QED BY <1>2, <2>1, <2>3, <2>4 DEF BootOK, IInv, WorkersAt
<1> QED BY <1>3, <1>6, <1>7, <1>8, AllParts

LEMMA PollQueueSafe == ASSUME Inv, IInv, NEW s \in Sched, PollQueue(s) PROVE IInv'
<1> DEFINE q == queue_idx[s]
           next == IF cur_event_pos[s][q] < Len(sched_queues[q]) THEN q ELSE OtherQueue(s)
<1>1. /\ spc[s] = "poll" /\ ~Unread(s)
      /\ last_event_pos' = [last_event_pos EXCEPT ![s][q] = Len(sched_queues[q])]
      /\ queue_idx' = [queue_idx EXCEPT ![s] = next]
      /\ UNCHANGED << shared, workerVars, spc, cur_event_pos, dispatchVars >>
  BY DEF PollQueue
<1>2. /\ \A r \in Sched : r # s => last_event_pos'[r] = last_event_pos[r] /\ queue_idx'[r] = queue_idx[r]
      /\ queue_idx'[s] \in {s, Broadcast}
  <2>1. queue_idx[s] \in {s, Broadcast}
    BY DEF IInv, SchedOK, SchedGood
  <2>2. next \in {s, Broadcast}
    BY <2>1 DEF OtherQueue
  <2> HIDE DEF next
  <2> QED BY <1>1, <2>2 DEF Inv, TypeOK
<1>3. /\ LaunchOK' /\ QueueOK' /\ TileOK' /\ CountOK' /\ FlushOK'
      /\ TilesInOrder' /\ (\A v \in Worker : Satisfied(v)') /\ TokenOK'
      /\ KeepsWork /\ LogsGrow /\ LogsOK'
      /\ all_event_counters' = all_event_counters /\ sched_queues' = sched_queues
      /\ wpc' = wpc
      /\ \A r \in Sched : EndAt(r)' = EndAt(r)
      /\ \A v \in Worker : Loaded(v) => Loaded(v)'
  BY <1>1, QuietSched DEF dispatchVars
<1>4. \A r \in Sched : r # s => SameSched(r)
  BY <1>1, <1>2 DEF SameSched, dispatchVars
<1>5. SchedGood(s)'
  <2>1. loop_idx'[s] = 0 /\ to_dispatch'[s] = {} /\ spc'[s] = "poll"
    BY <1>1 DEF IInv, SchedOK, SchedGood, dispatchVars
  <2>2. iteration_num'[s] = cur_event_pos'[s][Broadcast] + 0
    BY <1>1, SchedFacts, Constants DEF IInv, SchedOK, SchedGood, dispatchVars
  <2> QED BY <1>2, <2>1, <2>2 DEF SchedGood
<1>6. SchedOK'
  BY <1>3, <1>4, <1>5, OneSchedMoves DEF IInv
<1>7. EndingOK'
  <2>1. \A r \in Sched, v \in Worker : TerminationSeen(v, r) => TerminationSeen(v, r)'
    <3>1. \A v \in Worker : ~TerminationSeen(v, s)
      BY <1>1 DEF TerminationSeen
    <3>2. \A r \in Sched, v \in Worker : r # s => (TerminationSeen(v, r) => TerminationSeen(v, r)')
      BY <1>3, <1>4, SeenKept
    <3> QED BY <3>1, <3>2
  <2>2. loop_idx' = loop_idx /\ spc' = spc
    BY <1>1 DEF dispatchVars
  <2> QED BY <1>3, <2>1, <2>2, EndingKept DEF IInv
<1>8. BootOK'
  BY <1>1, BootKept DEF IInv, shared, workerVars, dispatchVars
<1> QED BY <1>3, <1>6, <1>7, <1>8, AllParts

LEMMA EndOfTaskGraphSafe == ASSUME Inv, IInv, NEW s \in Sched, EndOfTaskGraph(s) PROVE IInv'
<1>1. /\ spc[s] = "poll" /\ Unread(s) /\ CurrentEvent(s) = EndEvent
      /\ spc' = [spc EXCEPT ![s] = "prepare"]
      /\ UNCHANGED << shared, workerVars, eventVars, dispatchVars >>
  BY DEF EndOfTaskGraph, AtEvent, Goto
<1>2. spc'[s] = "prepare" /\ \A r \in Sched : r # s => spc'[r] = spc[r]
  BY <1>1 DEF Inv, TypeOK
<1>3. /\ LaunchOK' /\ QueueOK' /\ TileOK' /\ CountOK' /\ FlushOK'
      /\ TilesInOrder' /\ (\A v \in Worker : Satisfied(v)') /\ TokenOK'
      /\ KeepsWork /\ LogsGrow /\ LogsOK'
      /\ all_event_counters' = all_event_counters /\ sched_queues' = sched_queues
      /\ wpc' = wpc
      /\ \A r \in Sched : EndAt(r)' = EndAt(r)
      /\ \A v \in Worker : Loaded(v) => Loaded(v)'
  BY <1>1, QuietSched DEF dispatchVars, eventVars
<1>4. \A r \in Sched : r # s => SameSched(r)
  BY <1>1, <1>2 DEF SameSched, dispatchVars, eventVars
<1>5. SchedGood(s)'
  <2>1. queue_idx[s] = s
    <3>1. queue_idx[s] = Broadcast => CurrentEvent(s) = LaunchEvent
      <4>1. cur_event_pos[s][queue_idx[s]] + 1 \in 1 .. Len(sched_queues[queue_idx[s]])
        BY <1>1, SchedFacts
      <4> QED BY <4>1 DEF IInv, SchedOK, LogsOK, CurrentEvent
    <3> QED BY <1>1, <3>1, EventFacts DEF IInv, SchedOK, SchedGood
  <2>2. CurrentEvent(s)' = EndEvent /\ queue_idx'[s] = s
    BY <1>1, <1>3, <2>1 DEF CurrentEvent, eventVars
  <2>3. loop_idx'[s] = 0 /\ to_dispatch'[s] = {}
    BY <1>1, EventFacts DEF IInv, SchedOK, SchedGood, dispatchVars
  <2>4. iteration_num'[s] = cur_event_pos'[s][Broadcast] + 0
    BY <1>1, SchedFacts, Constants DEF IInv, SchedOK, SchedGood, eventVars, dispatchVars
  <2> QED BY <1>2, <2>2, <2>3, <2>4 DEF SchedGood
<1>6. SchedOK'
  BY <1>3, <1>4, <1>5, OneSchedMoves DEF IInv
<1>7. EndingOK'
  <2>1. \A r \in Sched, v \in Worker : TerminationSeen(v, r) => TerminationSeen(v, r)'
    <3>1. \A v \in Worker : ~TerminationSeen(v, s)
      BY <1>1, EventFacts DEF TerminationSeen
    <3>2. \A r \in Sched, v \in Worker : r # s => (TerminationSeen(v, r) => TerminationSeen(v, r)')
      BY <1>3, <1>4, SeenKept
    <3> QED BY <3>1, <3>2
  <2>2. loop_idx' = loop_idx
    BY <1>1 DEF dispatchVars
  <2> QED BY <1>1, <1>2, <1>3, <2>1, <2>2, EndingKept DEF IInv
<1>8. BootOK'
  <2>1. \A r \in Sched : spc'[r] = "boot" <=> spc[r] = "boot"
    BY <1>1, <1>2
  <2> QED BY <1>1, <2>1, BootKept DEF IInv, shared, workerVars, dispatchVars
<1> QED BY <1>3, <1>6, <1>7, <1>8, AllParts
-----------------------------------------------------------------------------
(* The steps that push a task to a worker.                                  *)

LEMMA PushQueue ==
    ASSUME Inv, QueueOK, NEW w \in Worker, NEW id \in TaskIds, PushTask(w, id),
           UNCHANGED workerVars,
           all_event_counters'[LaunchEvent] = all_event_counters[LaunchEvent],
           id.pos = TerminateTask => id.iter = 0,
           id.pos = BeginTask => id.iter = Launched + 1,
           id.pos \in Task => /\ Owner(id.pos) = HwXcd[w]
                              /\ TilesFor(w, id.pos) # {}
                              /\ id.iter = Launched
    PROVE  QueueOK'
<1> DEFINE n == Len(worker_queues[w]) + 1
<1>1. Launched' = Launched
  BY DEF Launched
<1>2. \A v, p : TilesFor(v, p)' = TilesFor(v, p)
  BY DEF TilesFor, WorkersAt, RankIn
<1>3. \A p : Owner(p)' = Owner(p)
  BY DEF Owner, IsGangEvent
<1>4. \A v \in Worker : \A i : Pos(v, i)' = worker_queues'[v][i].pos
  BY DEF Pos
<1>5. ASSUME NEW v \in Worker
      PROVE  /\ \A i \in 1 .. Len(worker_queues'[v]) :
                  /\ Pos(v, i)' = TerminateTask => worker_queues'[v][i].iter = 0
                  /\ Pos(v, i)' \in Task => /\ Owner(Pos(v, i)') = HwXcd[v]
                                            /\ TilesFor(v, Pos(v, i)') # {}
             /\ \A i \in Queued(v)' :
                  /\ Pos(v, i)' \in Task => worker_queues'[v][i].iter = Launched
                  /\ Pos(v, i)' = BeginTask =>
                       worker_queues'[v][i].iter
                         = IF i \in BeginAt(v)' THEN Launched + 1 ELSE Launched
  <2>1. CASE v # w
    <3>1. /\ worker_queues'[v] = worker_queues[v] /\ Queued(v)' = Queued(v)
          /\ BeginAt(v)' = BeginAt(v)
      BY <2>1, PushEffect
    <3> QED BY <1>4, <3>1 DEF QueueOK, Pos
  <2>2. CASE v = w
    <3>1. /\ n \notin Queued(w) /\ n \notin 1 .. Len(worker_queues[w])
          /\ 1 .. Len(worker_queues'[w]) = 1 .. Len(worker_queues[w]) \cup {n}
          /\ worker_queues'[w][n] = id
          /\ \A i \in 1 .. Len(worker_queues[w]) : worker_queues'[w][i] = worker_queues[w][i]
          /\ Queued(w)' = Queued(w) \cup {n} /\ Queued(w) \subseteq 1 .. Len(worker_queues[w])
          /\ BeginAt(w)' = BeginAt(w) \cup (IF id.pos = BeginTask THEN {n} ELSE {})
      BY PushEffect, WorkerFacts
    <3> HIDE DEF n
    <3>2. \A i \in 1 .. Len(worker_queues[w]) :
            /\ worker_queues[w][i].pos = TerminateTask => worker_queues[w][i].iter = 0
            /\ worker_queues[w][i].pos \in Task =>
                 /\ Owner(worker_queues[w][i].pos) = HwXcd[w]
                 /\ TilesFor(w, worker_queues[w][i].pos) # {}
      BY DEF QueueOK, Pos
    <3>3. \A i \in Queued(w) :
            /\ worker_queues[w][i].pos \in Task => worker_queues[w][i].iter = Launched
            /\ worker_queues[w][i].pos = BeginTask =>
                 worker_queues[w][i].iter
                   = IF i \in BeginAt(w) THEN Launched + 1 ELSE Launched
      BY DEF QueueOK, Pos
    <3>4. ASSUME NEW i \in 1 .. Len(worker_queues'[w])
          PROVE  /\ Pos(w, i)' = TerminateTask => worker_queues'[w][i].iter = 0
                 /\ Pos(w, i)' \in Task => /\ Owner(Pos(w, i)') = HwXcd[w]
                                           /\ TilesFor(w, Pos(w, i)') # {}
      <4>1. CASE i = n
        BY <1>4, <3>1, <4>1
      <4>2. CASE i # n
        BY <1>4, <3>1, <3>2, <4>2
      <4> QED BY <4>1, <4>2
    <3>5. ASSUME NEW i \in Queued(w)'
          PROVE  /\ Pos(w, i)' \in Task => worker_queues'[w][i].iter = Launched
                 /\ Pos(w, i)' = BeginTask =>
                      worker_queues'[w][i].iter
                        = IF i \in BeginAt(w)' THEN Launched + 1 ELSE Launched
      <4>1. CASE i = n
        BY <1>4, <3>1, <4>1
      <4>2. CASE i # n
        <5>1. i \in Queued(w) /\ worker_queues'[w][i] = worker_queues[w][i]
              /\ (i \in BeginAt(w)' <=> i \in BeginAt(w))
          BY <3>1, <4>2
        <5> QED BY <1>4, <3>3, <5>1
      <4> QED BY <4>1, <4>2
    <3> QED BY <2>2, <3>4, <3>5
  <2> QED BY <2>1, <2>2
<1> QED BY <1>1, <1>2, <1>3, <1>5 DEF QueueOK

LEMMA PushFrames ==
    ASSUME Inv, IInv, NEW w \in Worker, NEW id \in TaskIds, PushTask(w, id),
           UNCHANGED << counters, placement, workerVars, my_workers >>,
           \E s \in Sched : spc[s] # "boot",
           \A s \in Sched : spc'[s] = "boot" <=> spc[s] = "boot",
           id.pos = TerminateTask => id.iter = 0,
           id.pos = BeginTask => id.iter = Launched + 1,
           id.pos \in Task => /\ Owner(id.pos) = HwXcd[w]
                              /\ TilesFor(w, id.pos) # {}
                              /\ id.iter = Launched
    PROVE  /\ BootOK' /\ QueueOK' /\ CountOK' /\ FlushOK' /\ TilesInOrder'
           /\ (\A v \in Worker : Satisfied(v)')
           /\ KeepsHands /\ wpc' = wpc /\ executed' = executed
           /\ all_event_counters' = all_event_counters /\ Launched' = Launched
<1>1. /\ wpc' = wpc /\ executed' = executed /\ flush_amount' = flush_amount
      /\ all_event_counters' = all_event_counters
      /\ xcd_local_event_counters' = xcd_local_event_counters
      /\ Launched' = Launched
  BY DEF workerVars, counters, Launched
<1>2. \A v \in Worker : wpc[v] \in {"execute", "flush", "signal"} => Loaded(v)
  BY DEF Inv, WorkerPositions
<1>3. KeepsHands
  BY <1>1, <1>2, PushKeepsHands DEF KeepsHands
<1>4. KeepsCounts
  BY <1>1 DEF KeepsCounts
<1>5. CountOK' /\ FlushOK' /\ TilesInOrder'
  BY <1>3, <1>4, FlushesKept, CountsKept, OrderKept, OrderParts DEF IInv
<1>6. \A v \in Worker : Satisfied(v)'
  BY <1>1, <1>2, PushKeepsHands, SatisfiedKept, OrderParts DEF IInv
<1>7. QueueOK'
  BY <1>1, PushQueue DEF IInv
<1>8. BootOK'
  BY <1>1, BootKept DEF IInv
<1> QED BY <1>1, <1>3, <1>5, <1>6, <1>7, <1>8

\* A pushed task that has no tiles.
LEMMA PushNoTiles ==
    ASSUME Inv, TileOK, NEW w \in Worker, NEW id \in TaskIds, PushTask(w, id),
           UNCHANGED workerVars, id.pos \notin Task, \A t \in Tile : Waiting(t)' <=> Waiting(t),
           all_event_counters'[LaunchEvent] = all_event_counters[LaunchEvent]
    PROVE  TileOK'
<1> DEFINE n == Len(worker_queues[w]) + 1
<1>1. executed' = executed /\ Launched' = Launched
  BY DEF workerVars, Launched
<1>2. ASSUME NEW t \in Tile, NEW v \in Worker, NEW i \in Todo(v)', Covers(v, i, t)'
      PROVE  i \in Todo(v) /\ Covers(v, i, t)
  <2>1. worker_queues'[v][i].pos = t[1] /\ t[1] \in Task
    BY <1>2, TileFacts DEF Covers, Pos
  <2>2. i \in Todo(v)
    <3>1. CASE v # w
      BY <1>2, <3>1, PushEffect
    <3>2. CASE v = w
      <4>1. worker_queues'[w][n].pos = id.pos /\ Todo(w)' = Todo(w) \cup {n}
        BY PushEffect
      <4> HIDE DEF n
      <4> QED BY <1>2, <2>1, <3>2, <4>1
    <3> QED BY <3>1, <3>2
  <2> QED BY <1>2, <2>2, PushKeepsHands
<1>3. ASSUME NEW t \in Tile
      PROVE  /\ executed'[t] \in {Launched' - 1, Launched'}
             /\ Waiting(t)' => executed'[t] = Launched' - 1
             /\ \A v \in Worker : \A i \in Todo(v)' : Covers(v, i, t)' =>
                  /\ executed'[t] = Launched' - 1
                  /\ ~Waiting(t)'
                  /\ \A u \in Worker : \A j \in Todo(u)' : Covers(u, j, t)' => u = v /\ j = i
  BY <1>1, <1>2 DEF TileOK
<1> QED BY <1>3 DEF TileOK

\* The scheduler of the TERMINATE task of a worker has the termination event.
LEMMA TerminateMeansEnding ==
    ASSUME Inv, IInv, NEW w \in Worker, NEW i \in 1 .. Len(worker_queues[w]),
           Pos(w, i) = TerminateTask
    PROVE  Ending
<1> DEFINE s == HwXcd[w]
<1>1. s \in Sched /\ Unread(s) /\ CurrentEvent(s) = TerminationEvent
  BY Constants DEF IInv, EndingOK, TerminationSeen, Sched
<1> HIDE DEF s
<1>2. /\ cur_event_pos[s][queue_idx[s]] + 1 \in 1 .. Len(sched_queues[queue_idx[s]])
      /\ queue_idx[s] \in {s, Broadcast}
  BY <1>1, SchedFacts DEF IInv, SchedOK, SchedGood
<1>3. queue_idx[s] = s
  BY <1>1, <1>2, EventFacts DEF IInv, SchedOK, LogsOK, CurrentEvent
<1>4. cur_event_pos[s][s] + 1 \in TermAt(s)
  BY <1>1, <1>2, <1>3 DEF TermAt, CurrentEvent
<1> QED BY <1>1, <1>4 DEF Ending

LEMMA TerminateOneSafe ==
    ASSUME Inv, IInv, NEW s \in Sched, spc[s] = "poll", Unread(s),
           CurrentEvent(s) = TerminationEvent,
           NEW w \in Worker, w \in my_workers[s], RankIn(my_workers[s], w) = loop_idx[s],
           PushTask(w, TaskId(0, TerminateTask)),
           loop_idx' = [loop_idx EXCEPT ![s] = @ + 1],
           UNCHANGED << spc, sched_queues, counters, placement, workerVars, eventVars,
                        my_workers, iteration_num, next_worker_idx, to_dispatch >>
    PROVE  IInv'
<1> DEFINE id == TaskId(0, TerminateTask)
           n == Len(worker_queues[w]) + 1
<1>1. /\ id \in TaskIds /\ id.pos = TerminateTask /\ id.iter = 0
      /\ id.pos \notin Task /\ id.pos # BeginTask
  BY Constants, TaskFacts DEF TaskId, TaskIds, TerminateTask, BeginTask
<1> HIDE DEF id
<1>2. my_workers[s] = WorkersAt(s) /\ HwXcd[w] = s
  BY DEF IInv, BootOK, WorkersAt
<1>3. /\ BootOK' /\ QueueOK' /\ CountOK' /\ FlushOK' /\ TilesInOrder'
      /\ (\A v \in Worker : Satisfied(v)')
      /\ KeepsHands /\ wpc' = wpc /\ executed' = executed
      /\ all_event_counters' = all_event_counters /\ Launched' = Launched
  BY <1>1, PushFrames DEF id
<1>4. /\ loop_idx'[s] = loop_idx[s] + 1 /\ loop_idx[s] \in Nat
      /\ \A r \in Sched : r # s => loop_idx'[r] = loop_idx[r]
  BY DEF Inv, TypeOK
<1>5. LogsGrow /\ LogsOK' /\ \A r \in Sched : r # s => SameSched(r)
  BY <1>4 DEF LogsGrow, SameSched, eventVars, IInv, SchedOK, LogsOK
<1>6. to_dispatch[s] = {}
  BY DEF IInv, SchedOK, SchedGood
<1>7. SchedGood(s)'
  <2>1. Unread(s)' /\ CurrentEvent(s)' = TerminationEvent
    BY DEF Unread, CurrentEvent, eventVars
  <2> QED BY <1>6, <2>1 DEF IInv, SchedOK, SchedGood, eventVars
<1>8. SchedOK'
  BY <1>5, <1>7, OneSchedMoves DEF IInv
<1>9. LaunchOK'
  BY <1>3, SameHands, LaunchKept DEF IInv, counters
<1>10. \A t \in Tile : Waiting(t)' <=> Waiting(t)
  <2>1. KeepsDispatch
    BY <1>4, <1>6 DEF KeepsDispatch
  <2> QED BY <1>3, <2>1, SameWaiting
<1>11. TileOK'
  BY <1>1, <1>3, <1>10, PushNoTiles DEF IInv, id
<1>12. /\ \A v \in Worker : BeginAt(v)' = BeginAt(v)
       /\ \A r \in Sched : EndAt(r)' = EndAt(r)
  <2>1. \A v \in Worker : BeginAt(v)' = BeginAt(v)
    BY <1>1, PushEffect DEF id
  <2>2. \A r \in Sched : EndAt(r)' = EndAt(r)
    BY DEF EndAt, Unhandled, eventVars
  <2> QED BY <2>1, <2>2
<1>13. TokenOK'
  BY <1>3, <1>12, TokenKept DEF IInv
<1>14. \A v \in Worker, r \in Sched : TerminationSeen(v, r) => TerminationSeen(v, r)'
  <2>1. ASSUME NEW v \in Worker, TerminationSeen(v, s) PROVE TerminationSeen(v, s)'
    <3>1. RankIn(WorkersAt(s), v) < loop_idx[s]
      BY <2>1 DEF TerminationSeen
    <3>2. RankIn(WorkersAt(s), v) \in Nat
      <4>1. s \in Xcd /\ {u \in WorkersAt(s) : u < v} \subseteq WorkersAt(s)
        BY DEF Sched
      <4> QED BY <4>1, XcdFacts, FS_Subset, FS_CardinalityType DEF RankIn
    <3>3. RankIn(WorkersAt(s), v) < loop_idx[s] + 1
      BY <1>4, <3>1, <3>2
    <3>4. /\ RankIn(WorkersAt(s), v)' = RankIn(WorkersAt(s), v)
          /\ Unread(s)' /\ CurrentEvent(s)' = TerminationEvent
      BY DEF RankIn, WorkersAt, Unread, CurrentEvent, eventVars
    <3> QED BY <1>4, <3>3, <3>4 DEF TerminationSeen
  <2>2. \A v \in Worker, r \in Sched : r # s => (TerminationSeen(v, r) => TerminationSeen(v, r)')
    BY <1>5, SeenKept
  <2> QED BY <2>1, <2>2
<1>15. TerminationSeen(w, s)'
  <2>1. RankIn(WorkersAt(s), w) < loop_idx[s] + 1
    BY <1>2, <1>4
  <2>2. /\ RankIn(WorkersAt(s), w)' = RankIn(WorkersAt(s), w)
        /\ Unread(s)' /\ CurrentEvent(s)' = TerminationEvent
    BY DEF RankIn, WorkersAt, Unread, CurrentEvent, eventVars
  <2> QED BY <1>4, <2>1, <2>2 DEF TerminationSeen
<1>16. \A i \in 1 .. Len(worker_queues[w]) : Pos(w, i) # TerminateTask
  <2> SUFFICES ASSUME NEW i \in 1 .. Len(worker_queues[w]), Pos(w, i) = TerminateTask PROVE FALSE
    OBVIOUS
  <2>1. TerminationSeen(w, s)
    BY <1>2 DEF IInv, EndingOK
  <2>2. RankIn(WorkersAt(s), w) < loop_idx[s]
    BY <2>1 DEF TerminationSeen
  <2> QED BY <1>2, <1>4, <2>2
<1>17. \A v \in Worker : \A i \in 1 .. Len(worker_queues'[v]) :
         Pos(v, i)' = TerminateTask =>
           i = Len(worker_queues'[v]) /\ TerminationSeen(v, HwXcd[v])'
  <2> SUFFICES ASSUME NEW v \in Worker, NEW i \in 1 .. Len(worker_queues'[v]),
                      Pos(v, i)' = TerminateTask
               PROVE  i = Len(worker_queues'[v]) /\ TerminationSeen(v, HwXcd[v])'
    OBVIOUS
  <2>1. CASE v # w
    <3>1. worker_queues'[v] = worker_queues[v]
      BY <1>1, <2>1, PushEffect DEF id
    <3>2. Pos(v, i) = TerminateTask
      BY <3>1 DEF Pos
    <3>3. HwXcd[v] \in Sched
      BY Constants DEF Sched
    <3> QED BY <1>14, <3>1, <3>2, <3>3 DEF IInv, EndingOK
  <2>2. CASE v = w
    <3>1. /\ Len(worker_queues'[w]) = n
          /\ i = n \/ i \in 1 .. Len(worker_queues[w])
      BY <1>1, <2>2, PushEffect, WorkerFacts DEF id
    <3>2. i \in 1 .. Len(worker_queues[w]) => Pos(w, i)' = Pos(w, i)
      BY <1>1, PushKeepsHands DEF id
    <3> QED BY <1>2, <1>15, <1>16, <2>2, <3>1, <3>2
  <2> QED BY <2>1, <2>2
<1>18. EndingOK'
  <2>1. \A r : TermAt(r)' = TermAt(r)
    BY DEF TermAt
  <2>2. Ending' <=> Ending
    BY <2>1 DEF Ending
  <2>3. Ending' => /\ Complete(EndEvent)'
                   /\ \A v \in Worker : ~EndSignal(v)' /\ BeginAt(v)' = {}
                   /\ \A r \in Sched : EndAt(r)' # {} => spc'[r] = "terminate"
    BY <1>3, <1>12, <2>2, SameHands, SameComplete DEF IInv, EndingOK
  <2>4. \A r \in Sched :
          /\ \A i, j \in TermAt(r)' : i = j
          /\ spc'[r] = "terminate" => \A q \in Sched : TermAt(q)' # {} => q < loop_idx'[r]
    BY <1>4, <2>1 DEF IInv, EndingOK
  <2>5. \A v \in Worker : wpc'[v] = "exit" => Loaded(v)' /\ CurrentTask(v)'.pos = TerminateTask
    BY <1>1, <1>3, PushKeepsHands DEF IInv, EndingOK, id
  <2> QED BY <1>17, <2>3, <2>4, <2>5 DEF EndingOK
<1> QED BY <1>3, <1>8, <1>9, <1>11, <1>13, <1>18, AllParts

LEMMA SchedExitSafe ==
    ASSUME Inv, IInv, NEW s \in Sched, spc[s] = "poll", Unread(s),
           CurrentEvent(s) = TerminationEvent, spc' = [spc EXCEPT ![s] = "exit"],
           UNCHANGED << shared, workerVars, eventVars, dispatchVars >>
    PROVE  IInv'
<1>2. spc'[s] = "exit" /\ \A r \in Sched : r # s => spc'[r] = spc[r]
  BY DEF Inv, TypeOK
<1>3. /\ LaunchOK' /\ QueueOK' /\ TileOK' /\ CountOK' /\ FlushOK'
      /\ TilesInOrder' /\ (\A v \in Worker : Satisfied(v)') /\ TokenOK'
      /\ KeepsWork /\ LogsGrow /\ LogsOK'
      /\ all_event_counters' = all_event_counters /\ sched_queues' = sched_queues
      /\ wpc' = wpc
      /\ \A r \in Sched : EndAt(r)' = EndAt(r)
      /\ \A v \in Worker : Loaded(v) => Loaded(v)'
  BY QuietSched DEF dispatchVars, eventVars
<1>4. \A r \in Sched : r # s => SameSched(r)
  BY <1>2 DEF SameSched, dispatchVars, eventVars
<1>5. Unread(s)' /\ CurrentEvent(s)' = TerminationEvent
  BY <1>3 DEF Unread, CurrentEvent, eventVars
<1>6. SchedGood(s)'
  <2>1. iteration_num'[s] = cur_event_pos'[s][Broadcast] + 0
    BY SchedFacts, Constants DEF IInv, SchedOK, SchedGood, eventVars, dispatchVars
  <2>2. to_dispatch'[s] = {} /\ queue_idx'[s] \in {s, Broadcast}
    BY DEF IInv, SchedOK, SchedGood, eventVars, dispatchVars
  <2> QED BY <1>2, <1>5, <2>1, <2>2 DEF SchedGood
<1>7. SchedOK'
  BY <1>3, <1>4, <1>6, OneSchedMoves DEF IInv
<1>8. EndingOK'
  <2>1. \A r \in Sched, v \in Worker : TerminationSeen(v, r) => TerminationSeen(v, r)'
    <3>1. \A v \in Worker : TerminationSeen(v, s)'
      BY <1>2, <1>5 DEF TerminationSeen
    <3>2. \A r \in Sched, v \in Worker : r # s => (TerminationSeen(v, r) => TerminationSeen(v, r)')
      BY <1>3, <1>4, SeenKept
    <3> QED BY <3>1, <3>2
  <2>2. loop_idx' = loop_idx
    BY DEF dispatchVars
  <2> QED BY <1>2, <1>3, <2>1, <2>2, EndingKept DEF IInv
<1>9. BootOK'
  <2>1. \A r \in Sched : spc'[r] = "boot" <=> spc[r] = "boot"
    BY <1>2
  <2> QED BY <2>1, BootKept DEF IInv, shared, workerVars, dispatchVars
<1> QED BY <1>3, <1>7, <1>8, <1>9, AllParts

LEMMA TerminateWorkersSafe ==
    ASSUME Inv, IInv, NEW s \in Sched, TerminateWorkers(s) PROVE IInv'
<1>1. /\ spc[s] = "poll" /\ Unread(s) /\ CurrentEvent(s) = TerminationEvent
      /\ UNCHANGED << sched_queues, counters, placement, workerVars, eventVars,
                      my_workers, iteration_num, next_worker_idx, to_dispatch >>
  BY DEF TerminateWorkers, AtEvent
<1>2. CASE loop_idx[s] < Cardinality(my_workers[s])
  <2>1. PICK w \in Worker : /\ WorkerAt(s, loop_idx[s], w)
                            /\ PushTask(w, TaskId(0, TerminateTask))
    BY <1>2 DEF TerminateWorkers
  <2>2. loop_idx' = [loop_idx EXCEPT ![s] = @ + 1] /\ UNCHANGED spc
    BY <1>2 DEF TerminateWorkers
  <2> QED BY <1>1, <2>1, <2>2, TerminateOneSafe DEF WorkerAt
<1>3. CASE ~(loop_idx[s] < Cardinality(my_workers[s]))
  <2>1. spc' = [spc EXCEPT ![s] = "exit"] /\ UNCHANGED << worker_queues, loop_idx >>
    BY <1>3 DEF TerminateWorkers, Goto
  <2> QED BY <1>1, <2>1, SchedExitSafe DEF shared, dispatchVars
<1> QED BY <1>2, <1>3

\* A scheduler that prepares a batch has the end event in hand, and nothing
\* else is under way.
LEMMA Preparing ==
    ASSUME Inv, IInv, NEW s \in Sched, spc[s] \in {"prepare", "terminate"}
    PROVE  /\ Unread(s) /\ queue_idx[s] = s /\ CurrentEvent(s) = EndEvent
           /\ cur_event_pos[s][s] \in Nat
           /\ EndAt(s) = {cur_event_pos[s][s] + 1}
           /\ \A r \in Sched : r # s => EndAt(r) = {}
           /\ Complete(EndEvent) /\ iteration_num[s] = Launched
           /\ \A w \in Worker : BeginAt(w) = {} /\ ~EndSignal(w)
           /\ spc[s] = "prepare" => /\ ~Ending
                                    /\ \A r \in Sched : TermAt(r) = {}
           /\ \A r \in Sched : r # s => spc[r] \notin {"prepare", "terminate"}
<1>1. ASSUME NEW r \in Sched, spc[r] \in {"prepare", "terminate"}
      PROVE  /\ Unread(r) /\ queue_idx[r] = r /\ CurrentEvent(r) = EndEvent
             /\ cur_event_pos[r][r] \in Nat /\ cur_event_pos[r][r] + 1 \in EndAt(r)
  <2>1. Unread(r) /\ queue_idx[r] = r /\ CurrentEvent(r) = EndEvent
    BY <1>1 DEF Inv, SchedPositions, IInv, SchedOK, SchedGood
  <2>2. cur_event_pos[r][r] + 1 \in 1 .. Len(sched_queues[r]) /\ cur_event_pos[r][r] \in Nat
        /\ Len(sched_queues[r]) \in Nat
    BY <2>1, SchedFacts, Constants
  <2>3. cur_event_pos[r][r] + 1 \in Unhandled(r)
    BY <2>2 DEF Unhandled
  <2> QED BY <2>1, <2>2, <2>3 DEF EndAt, CurrentEvent
<1>2. /\ Unread(s) /\ queue_idx[s] = s /\ CurrentEvent(s) = EndEvent
      /\ cur_event_pos[s][s] \in Nat /\ cur_event_pos[s][s] + 1 \in EndAt(s)
  BY <1>1
<1> DEFINE c == cur_event_pos[s][s] + 1
<1> HIDE DEF c
<1>3. /\ Complete(EndEvent) /\ iteration_num[s] = Launched
      /\ \A r \in Sched : \A j \in EndAt(r) : r = s /\ j = c
      /\ \A w \in Worker : BeginAt(w) = {}
      /\ \A w \in Worker : ~EndSignal(w)
  BY <1>2 DEF IInv, TokenOK, c
<1>4. EndAt(s) = {c} /\ \A r \in Sched : r # s => EndAt(r) = {}
  BY <1>2, <1>3 DEF c
<1>5. spc[s] = "prepare" => ~Ending
  BY <1>2 DEF IInv, EndingOK
<1>6. ~Ending => \A r \in Sched : TermAt(r) = {}
  BY DEF Ending
<1>7. \A r \in Sched : r # s => spc[r] \notin {"prepare", "terminate"}
  BY <1>1, <1>4
<1> QED BY <1>2, <1>3, <1>4, <1>5, <1>6, <1>7 DEF c

\* The end event is handled: the scheduler has none left.
LEMMA EndHandled ==
    ASSUME Inv, IInv, NEW s \in Sched, spc[s] \in {"prepare", "terminate"},
           UNCHANGED sched_queues, NextEvent(s)
    PROVE  /\ \A r \in Sched : EndAt(r)' = {}
           /\ \A r \in Sched : r # s => cur_event_pos'[r] = cur_event_pos[r]
           /\ cur_event_pos'[s][Broadcast] = cur_event_pos[s][Broadcast]
<1> DEFINE c == cur_event_pos[s][s] + 1
<1>1. /\ queue_idx[s] = s /\ cur_event_pos[s][s] \in Nat /\ EndAt(s) = {c}
      /\ \A r \in Sched : r # s => EndAt(r) = {}
  BY Preparing
<1>2. /\ cur_event_pos'[s][s] = c
      /\ \A r \in Sched : r # s => cur_event_pos'[r] = cur_event_pos[r]
      /\ cur_event_pos'[s][Broadcast] = cur_event_pos[s][Broadcast]
  BY <1>1, Constants DEF NextEvent, Inv, TypeOK, Broadcast, Sched, Xcd
<1>3. EndAt(s)' = {}
  <2>1. \A i \in EndAt(s)' : i \in EndAt(s) /\ i # c
    BY <1>1, <1>2, SchedFacts, Constants DEF EndAt, Unhandled
  <2> QED BY <1>1, <2>1
<1>4. \A r \in Sched : r # s => EndAt(r)' = {}
  BY <1>1, <1>2 DEF EndAt, Unhandled
<1> QED BY <1>2, <1>3, <1>4

LEMMA BeginIterationSafe ==
    ASSUME Inv, IInv, NEW s \in Sched, BeginIteration(s) PROVE IInv'
<1>1. /\ spc[s] = "prepare" /\ NextEvent(s) /\ spc' = [spc EXCEPT ![s] = "poll"]
      /\ UNCHANGED << sched_queues, counters, placement, workerVars, queue_idx,
                      last_event_pos, my_workers, iteration_num, loop_idx,
                      to_dispatch >>
  BY DEF BeginIteration, Goto
<1>2. PICK w \in Worker : PushTask(w, TaskId(iteration_num[s] + 1, BeginTask))
  BY DEF BeginIteration
<1> DEFINE id == TaskId(iteration_num[s] + 1, BeginTask)
           n == Len(worker_queues[w]) + 1
<1>3. /\ queue_idx[s] = s /\ Complete(EndEvent) /\ iteration_num[s] = Launched
      /\ \A v \in Worker : BeginAt(v) = {} /\ ~EndSignal(v)
      /\ ~Ending /\ \A r \in Sched : TermAt(r) = {}
  BY <1>1, Preparing
<1>4. /\ id \in TaskIds /\ id.pos = BeginTask /\ id.iter = Launched + 1
      /\ id.pos \notin Task /\ id.pos # TerminateTask
  <2>1. iteration_num[s] + 1 \in Nat
    BY SchedFacts
  <2> QED BY <1>3, <2>1, Constants, TaskFacts DEF TaskId, TaskIds, TerminateTask, BeginTask
<1> HIDE DEF id
<1>5. spc'[s] = "poll" /\ \A r \in Sched : r # s => spc'[r] = spc[r]
  BY <1>1 DEF Inv, TypeOK
<1>6. /\ BootOK' /\ QueueOK' /\ CountOK' /\ FlushOK' /\ TilesInOrder'
      /\ (\A v \in Worker : Satisfied(v)')
      /\ KeepsHands /\ wpc' = wpc /\ executed' = executed
      /\ all_event_counters' = all_event_counters /\ Launched' = Launched
  <2>1. (\E r \in Sched : spc[r] # "boot") /\ \A r \in Sched : spc'[r] = "boot" <=> spc[r] = "boot"
    BY <1>1, <1>5
  <2> QED BY <1>1, <1>2, <1>4, <2>1, PushFrames DEF id
<1>7. /\ \A r \in Sched : EndAt(r)' = {}
      /\ \A r \in Sched : r # s => cur_event_pos'[r] = cur_event_pos[r]
      /\ cur_event_pos'[s][Broadcast] = cur_event_pos[s][Broadcast]
  BY <1>1, EndHandled
<1>8. SchedOK'
  <2>1. LogsGrow /\ LogsOK' /\ \A r \in Sched : r # s => SameSched(r)
    BY <1>1, <1>5, <1>7 DEF LogsGrow, SameSched, IInv, SchedOK, LogsOK
  <2>2. SchedGood(s)'
    <3>1. iteration_num'[s] = cur_event_pos'[s][Broadcast] + 0
      BY <1>1, <1>7, SchedFacts, Constants DEF IInv, SchedOK, SchedGood
    <3>2. to_dispatch'[s] = {} /\ queue_idx'[s] \in {s, Broadcast} /\ loop_idx'[s] = 0
      BY <1>1 DEF IInv, SchedOK, SchedGood
    <3> QED BY <1>5, <3>1, <3>2 DEF SchedGood
  <2> QED BY <2>1, <2>2, OneSchedMoves DEF IInv
<1>9. LaunchOK'
  BY <1>1, <1>6, SameHands, LaunchKept DEF IInv, counters
<1>10. TileOK'
  <2>1. KeepsDispatch
    BY <1>1 DEF KeepsDispatch
  <2>2. \A t \in Tile : Waiting(t)' <=> Waiting(t)
    BY <1>6, <2>1, SameWaiting
  <2> QED BY <1>1, <1>2, <1>4, <1>6, <2>2, PushNoTiles DEF IInv, id
<1>11. BeginAt(w)' = {n} /\ \A v \in Worker : v # w => BeginAt(v)' = {}
  BY <1>1, <1>2, <1>3, <1>4, PushEffect DEF id
<1>12. TokenOK'
  <2>1. Complete(EndEvent)'
    BY <1>3, <1>6, SameComplete
  <2>2. \A v \in Worker : ~EndSignal(v)'
    BY <1>3, <1>6, SameHands
  <2>3. \A v \in Worker : \A i \in BeginAt(v)' : v = w /\ i = n
    BY <1>11
  <2> HIDE DEF n
  <2>4. \A v \in Worker : \A i \in BeginAt(v)' :
          /\ Complete(EndEvent)'
          /\ \A u \in Worker : \A j \in BeginAt(u)' : u = v /\ j = i
    BY <2>1, <2>3
  <2> QED BY <1>7, <2>2, <2>4 DEF TokenOK
<1>13. EndingOK'
  <2>1. \A r \in Sched : TermAt(r)' = {}
    BY <1>1, <1>3 DEF TermAt
  <2>2. ~Ending'
    BY <2>1 DEF Ending
  <2>3. \A v \in Worker : \A i \in 1 .. Len(worker_queues[v]) : Pos(v, i) # TerminateTask
    BY <1>3, TerminateMeansEnding
  <2>4. \A v \in Worker : \A i \in 1 .. Len(worker_queues'[v]) : Pos(v, i)' # TerminateTask
    <3> SUFFICES ASSUME NEW v \in Worker, NEW i \in 1 .. Len(worker_queues'[v])
                 PROVE  Pos(v, i)' # TerminateTask
      OBVIOUS
    <3>1. CASE v # w
      BY <1>1, <1>2, <1>4, <2>3, <3>1, PushEffect DEF id, Pos
    <3>2. CASE v = w
      <4>1. /\ i = n \/ i \in 1 .. Len(worker_queues[w])
            /\ worker_queues'[w][n] = id
            /\ i \in 1 .. Len(worker_queues[w]) => worker_queues'[w][i] = worker_queues[w][i]
        BY <1>1, <1>2, <1>4, <3>2, PushEffect, WorkerFacts DEF id
      <4>2. Pos(w, i)' = worker_queues'[w][i].pos
        BY DEF Pos
      <4> HIDE DEF n
      <4> QED BY <1>4, <2>3, <3>2, <4>1, <4>2 DEF Pos
    <3> QED BY <3>1, <3>2
  <2>5. \A v \in Worker : wpc'[v] # "exit"
    <3>1. ASSUME NEW v \in Worker, wpc[v] = "exit" PROVE FALSE
      <4>1. Loaded(v) /\ CurrentTask(v).pos = TerminateTask
        BY <3>1 DEF IInv, EndingOK
      <4> QED BY <2>3, <4>1, WorkerFacts
    <3> QED BY <1>6, <3>1
  <2> QED BY <2>1, <2>2, <2>4, <2>5 DEF EndingOK
<1> QED BY <1>6, <1>8, <1>9, <1>10, <1>12, <1>13, AllParts

\* Shutting down: the termination event to the next scheduler ...
LEMMA TerminateNextSafe ==
    ASSUME Inv, IInv, NEW s \in Sched, spc[s] \in {"prepare", "terminate"},
           NEW x \in Nat, loop_idx[s] = x, x < NumXcds,
           sched_queues' = [sched_queues EXCEPT ![x] = Append(@, TerminationEvent)],
           loop_idx' = [loop_idx EXCEPT ![s] = @ + 1],
           spc' = [spc EXCEPT ![s] = "terminate"],
           UNCHANGED << worker_queues, counters, placement, workerVars, eventVars,
                        my_workers, iteration_num, next_worker_idx, to_dispatch >>
    PROVE  IInv'
<1> DEFINE n == Len(sched_queues[x]) + 1
<1>1. /\ x \in Sched /\ x # Broadcast /\ x \in Queue
      /\ loop_idx'[s] = x + 1
      /\ \A r \in Sched : r # s => loop_idx'[r] = loop_idx[r]
      /\ spc'[s] = "terminate"
      /\ \A r \in Sched : r # s => spc'[r] = spc[r]
  <2>1. x \in Sched /\ x # Broadcast /\ x \in Queue
    BY Constants DEF Sched, Xcd, Broadcast, Queue
  <2> QED BY <2>1 DEF Inv, TypeOK
<1>2. /\ sched_queues'[x] = Append(sched_queues[x], TerminationEvent)
      /\ \A q \in Queue : q # x => sched_queues'[q] = sched_queues[q]
      /\ sched_queues[x] \in Seq(Event) /\ Len(sched_queues[x]) \in Nat
  BY <1>1 DEF Inv, TypeOK
<1>3. /\ Len(sched_queues'[x]) = n /\ sched_queues'[x][n] = TerminationEvent
      /\ \A i \in 1 .. Len(sched_queues[x]) : sched_queues'[x][i] = sched_queues[x][i]
      /\ 1 .. n = 1 .. Len(sched_queues[x]) \cup {n} /\ n \notin 1 .. Len(sched_queues[x])
  BY <1>2, AppendKeeps, Constants
<1> HIDE DEF n
<1>4. LogsGrow
  BY <1>2, <1>3 DEF LogsGrow
<1>5. /\ Unread(s) /\ queue_idx[s] = s /\ CurrentEvent(s) = EndEvent
      /\ Complete(EndEvent)
      /\ \A r \in Sched : r # s => EndAt(r) = {}
      /\ \A w \in Worker : BeginAt(w) = {} /\ ~EndSignal(w)
      /\ spc[s] = "prepare" => \A r \in Sched : TermAt(r) = {}
      /\ \A r \in Sched : r # s => spc[r] \notin {"prepare", "terminate"}
      /\ to_dispatch[s] = {}
  BY Preparing DEF IInv, SchedOK, SchedGood
<1>6. KeepsWork /\ KeepsHands /\ KeepsCounts /\ KeepsDispatch
  BY <1>1, <1>5, HandsKept DEF KeepsWork, KeepsCounts, KeepsDispatch, workerVars, counters
<1>7. /\ all_event_counters' = all_event_counters /\ executed' = executed /\ wpc' = wpc
      /\ (Complete(EndEvent)' <=> Complete(EndEvent))
      /\ worker_queues' = worker_queues
  BY SameComplete DEF counters, workerVars
<1>8. \A r \in Sched : EndAt(r)' = EndAt(r)
  <2>1. ASSUME NEW r \in Sched PROVE EndAt(r)' = EndAt(r)
    <3>1. cur_event_pos'[r] = cur_event_pos[r] /\ cur_event_pos[r][r] \in Nat /\ r \in Queue
      BY SchedFacts, Constants DEF eventVars
    <3>2. CASE r # x
      BY <1>2, <3>1, <3>2 DEF EndAt, Unhandled
    <3>3. CASE r = x
      <4>1. cur_event_pos[x][x] + 1 .. n = (cur_event_pos[x][x] + 1 .. Len(sched_queues[x]))
                                             \cup {n}
        <5>1. cur_event_pos[x][x] <= Len(sched_queues[x])
          BY <1>1, <1>2, <3>1, <3>3, SchedFacts
        <5> QED BY <1>2, <3>1, <3>3, <5>1 DEF n
      <4>2. Unhandled(x) \subseteq 1 .. Len(sched_queues[x])
        BY <1>2, <3>1, <3>3 DEF Unhandled
      <4>3. EndAt(r)' = {i \in cur_event_pos[x][x] + 1 .. n : sched_queues'[x][i] = EndEvent}
        BY <1>3, <3>1, <3>3 DEF EndAt, Unhandled
      <4>4. EndAt(r) = {i \in cur_event_pos[x][x] + 1 .. Len(sched_queues[x]) :
                          sched_queues[x][i] = EndEvent}
        BY <3>3 DEF EndAt, Unhandled
      <4> QED BY <1>3, <4>1, <4>2, <4>3, <4>4, EventFacts DEF Unhandled
    <3> QED BY <3>2, <3>3
  <2> QED BY <2>1
<1>9. /\ TermAt(x)' = TermAt(x) \cup {n}
      /\ \A r \in Sched : r # x => TermAt(r)' = TermAt(r)
  <2>1. TermAt(x)' = TermAt(x) \cup {n}
    <3>1. TermAt(x)' = {i \in 1 .. n : sched_queues'[x][i] = TerminationEvent}
      BY <1>3 DEF TermAt
    <3> QED BY <1>3, <3>1 DEF TermAt
  <2>2. \A r \in Sched : r # x => TermAt(r)' = TermAt(r)
    BY <1>2, Constants DEF TermAt
  <2> QED BY <2>1, <2>2
<1>10. SchedOK'
  <2>1. LogsOK'
    <3>1. \A r \in Sched : \A i \in 1 .. Len(sched_queues'[r]) :
            sched_queues'[r][i] \in {EndEvent, TerminationEvent}
      BY <1>2, <1>3, Constants DEF IInv, SchedOK, LogsOK
    <3>2. sched_queues'[Broadcast] = sched_queues[Broadcast]
      BY <1>1, <1>2, Constants
    <3> QED BY <3>1, <3>2 DEF IInv, SchedOK, LogsOK
  <2>2. \A r \in Sched : r # s => SameSched(r)
    BY <1>1 DEF SameSched, eventVars
  <2>3. SchedGood(s)'
    <3>1. CurrentEvent(s)' = EndEvent /\ queue_idx'[s] = s
      <4>1. cur_event_pos[s][s] + 1 \in 1 .. Len(sched_queues[s])
        BY <1>5, SchedFacts
      <4> QED BY <1>4, <1>5, <4>1, Constants DEF CurrentEvent, LogsGrow, eventVars
    <3>2. iteration_num'[s] = cur_event_pos'[s][Broadcast] + 0
      BY SchedFacts, Constants DEF IInv, SchedOK, SchedGood, eventVars
    <3>3. to_dispatch'[s] = {}
      BY <1>5
    <3> QED BY <1>1, <3>1, <3>2, <3>3 DEF SchedGood
  <2> QED BY <1>4, <2>1, <2>2, <2>3, OneSchedMoves DEF IInv
<1>11. LaunchOK'
  BY <1>1, <1>2, <1>6, <1>7, SameHands, LaunchKept, Constants DEF IInv, counters
<1>12. QueueOK' /\ TileOK'
  BY <1>6, <1>7, QueueKept, SameWaiting, TileKept DEF IInv
<1>13. CountOK' /\ FlushOK' /\ TilesInOrder'
  BY <1>6, FlushesKept, CountsKept, OrderKept, OrderParts DEF IInv
<1>14. \A v \in Worker : Satisfied(v)'
  BY <1>6, <1>7, SameWork, SatisfiedKept, OrderParts DEF IInv
<1>15. TokenOK'
  BY <1>6, <1>7, <1>8, SameWork, TokenKept DEF IInv
<1>16. EndingOK'
  <2>1. /\ Complete(EndEvent)'
        /\ \A w \in Worker : ~EndSignal(w)' /\ BeginAt(w)' = {}
        /\ \A r \in Sched : EndAt(r)' # {} => spc'[r] = "terminate"
    BY <1>1, <1>5, <1>6, <1>7, <1>8, SameWork
  <2>2. TermAt(x) = {}
    <3>1. CASE spc[s] = "prepare"
      BY <1>1, <1>5, <3>1
    <3>2. CASE spc[s] = "terminate"
      <4>1. TermAt(x) # {} => x < x
        BY <1>1, <3>2 DEF IInv, EndingOK
      <4> QED BY <1>1, <4>1
    <3> QED BY <3>1, <3>2
  <2>3. \A r \in Sched : \A i, j \in TermAt(r)' : i = j
    BY <1>9, <2>2 DEF IInv, EndingOK
  <2>4. ASSUME NEW r \in Sched, spc'[r] = "terminate", NEW q \in Sched, TermAt(q)' # {}
        PROVE  q < loop_idx'[r]
    <3>1. r = s
      BY <1>1, <1>5, <2>4
    <3>2. q \in Nat
      BY DEF Sched, Xcd
    <3>3. CASE q = x
      BY <1>1, <3>1, <3>2, <3>3
    <3>4. CASE q # x
      <4>1. TermAt(q) # {}
        BY <1>9, <2>4, <3>4
      <4>2. spc[s] = "terminate"
        BY <1>5, <4>1
      <4>3. q < x
        BY <4>1, <4>2 DEF IInv, EndingOK
      <4> QED BY <1>1, <3>1, <3>2, <4>3
    <3> QED BY <3>3, <3>4
  <2>5. \A w \in Worker : \A i \in 1 .. Len(worker_queues'[w]) :
          Pos(w, i)' = TerminateTask =>
            i = Len(worker_queues'[w]) /\ TerminationSeen(w, HwXcd[w])'
    <3> SUFFICES ASSUME NEW w \in Worker, NEW i \in 1 .. Len(worker_queues[w]),
                        Pos(w, i) = TerminateTask
                 PROVE  i = Len(worker_queues[w]) /\ TerminationSeen(w, HwXcd[w])'
      BY <1>6, <1>7, SameWork
    <3>1. i = Len(worker_queues[w]) /\ TerminationSeen(w, HwXcd[w]) /\ HwXcd[w] \in Sched
      BY Constants DEF IInv, EndingOK, Sched
    <3>2. HwXcd[w] # s
      BY <3>1 DEF TerminationSeen
    <3>3. SameSched(HwXcd[w])
      BY <1>1, <3>1, <3>2 DEF SameSched, eventVars
    <3>4. \A r \in Sched : SameSched(r) => (TerminationSeen(w, r) => TerminationSeen(w, r)')
      BY <1>4, SeenKept
    <3> QED BY <3>1, <3>3, <3>4
  <2>6. \A w \in Worker : wpc'[w] = "exit" => Loaded(w)' /\ CurrentTask(w)'.pos = TerminateTask
    BY <1>6, <1>7, SameWork DEF IInv, EndingOK, Loaded, workerVars, loadVars
  <2> QED BY <2>1, <2>3, <2>4, <2>5, <2>6 DEF EndingOK
<1>17. BootOK'
  <2>1. \A r \in Sched : spc'[r] = "boot" <=> spc[r] = "boot"
    BY <1>1
  <2> QED BY <1>7, <2>1, BootKept DEF IInv
<1> QED BY <1>10, <1>11, <1>12, <1>13, <1>14, <1>15, <1>16, <1>17, AllParts

\* ... until all of them have it.
LEMMA TerminateDoneSafe ==
    ASSUME Inv, IInv, NEW s \in Sched, spc[s] \in {"prepare", "terminate"},
           loop_idx' = [loop_idx EXCEPT ![s] = 0], NextEvent(s),
           spc' = [spc EXCEPT ![s] = "poll"],
           UNCHANGED << worker_queues, sched_queues, counters, placement, workerVars,
                        queue_idx, last_event_pos, my_workers, iteration_num,
                        next_worker_idx, to_dispatch >>
    PROVE  IInv'
<1>1. /\ loop_idx'[s] = 0 /\ \A r \in Sched : r # s => loop_idx'[r] = loop_idx[r]
      /\ spc'[s] = "poll" /\ \A r \in Sched : r # s => spc'[r] = spc[r]
  BY DEF Inv, TypeOK
<1>2. queue_idx[s] = s /\ to_dispatch[s] = {}
  BY Preparing DEF IInv, SchedOK, SchedGood
<1>3. /\ \A r \in Sched : EndAt(r)' = {}
      /\ \A r \in Sched : r # s => cur_event_pos'[r] = cur_event_pos[r]
      /\ cur_event_pos'[s][Broadcast] = cur_event_pos[s][Broadcast]
  BY EndHandled
<1>4. LogsGrow /\ LogsOK' /\ \A r \in Sched : r # s => SameSched(r)
  BY <1>1, <1>3 DEF LogsGrow, SameSched, IInv, SchedOK, LogsOK
<1>5. KeepsWork /\ KeepsHands /\ KeepsCounts /\ KeepsDispatch
  BY <1>1, <1>2, HandsKept DEF KeepsWork, KeepsCounts, KeepsDispatch, workerVars, counters
<1>6. all_event_counters' = all_event_counters /\ executed' = executed /\ wpc' = wpc
  BY DEF counters, workerVars
<1>7. SchedOK'
  <2>1. SchedGood(s)'
    <3>1. iteration_num'[s] = cur_event_pos'[s][Broadcast] + 0
      BY <1>3, SchedFacts, Constants DEF IInv, SchedOK, SchedGood
    <3>2. to_dispatch'[s] = {} /\ queue_idx'[s] = s
      BY <1>2
    <3> QED BY <1>1, <3>1, <3>2 DEF SchedGood
  <2> QED BY <1>4, <2>1, OneSchedMoves DEF IInv
<1>8. LaunchOK'
  BY <1>5, <1>6, SameHands, LaunchKept DEF IInv, counters
<1>9. QueueOK' /\ TileOK'
  BY <1>5, <1>6, QueueKept, SameWaiting, TileKept DEF IInv
<1>10. CountOK' /\ FlushOK' /\ TilesInOrder'
  BY <1>5, FlushesKept, CountsKept, OrderKept, OrderParts DEF IInv
<1>11. \A v \in Worker : Satisfied(v)'
  BY <1>5, <1>6, SameWork, SatisfiedKept, OrderParts DEF IInv
<1>12. TokenOK'
  BY <1>3, <1>5, <1>6, SameWork, TokenKept DEF IInv
<1>13. EndingOK'
  <2>1. \A r \in Sched, v \in Worker : TerminationSeen(v, r) => TerminationSeen(v, r)'
    <3>1. \A v \in Worker : ~TerminationSeen(v, s)
      BY DEF TerminationSeen
    <3>2. \A r \in Sched, v \in Worker : r # s => (TerminationSeen(v, r) => TerminationSeen(v, r)')
      BY <1>4, SeenKept
    <3> QED BY <3>1, <3>2
  <2>2. \A v \in Worker : Loaded(v) => Loaded(v)'
    BY DEF Loaded, workerVars, loadVars
  <2> QED BY <1>1, <1>3, <1>5, <1>6, <2>1, <2>2, EndingKept DEF IInv
<1>14. BootOK'
  <2>1. \A r \in Sched : spc'[r] = "boot" <=> spc[r] = "boot"
    BY <1>1
  <2> QED BY <1>6, <2>1, BootKept DEF IInv
<1> QED BY <1>7, <1>8, <1>9, <1>10, <1>11, <1>12, <1>13, <1>14, AllParts

LEMMA TerminateSchedulersSafe ==
    ASSUME Inv, IInv, NEW s \in Sched, TerminateSchedulers(s) PROVE IInv'
<1>1. spc[s] \in {"prepare", "terminate"}
      /\ UNCHANGED << worker_queues, counters, placement, workerVars, queue_idx,
                      last_event_pos, my_workers, iteration_num, next_worker_idx,
                      to_dispatch >>
  BY DEF TerminateSchedulers
<1>2. CASE loop_idx[s] < NumXcds
  <2>1. /\ sched_queues' = [sched_queues EXCEPT ![loop_idx[s]] = Append(@, TerminationEvent)]
        /\ loop_idx' = [loop_idx EXCEPT ![s] = @ + 1]
        /\ spc' = [spc EXCEPT ![s] = "terminate"]
        /\ UNCHANGED cur_event_pos
    BY <1>2 DEF TerminateSchedulers, Goto
  <2>2. PICK x \in Nat : loop_idx[s] = x
    BY DEF Inv, TypeOK
  <2> QED BY <1>1, <1>2, <2>1, <2>2, TerminateNextSafe DEF eventVars
<1>3. CASE ~(loop_idx[s] < NumXcds)
  <2>1. /\ loop_idx' = [loop_idx EXCEPT ![s] = 0] /\ NextEvent(s)
        /\ spc' = [spc EXCEPT ![s] = "poll"] /\ UNCHANGED sched_queues
    BY <1>3 DEF TerminateSchedulers, Goto
  <2> QED BY <1>1, <2>1, TerminateDoneSafe
<1> QED BY <1>2, <1>3
-----------------------------------------------------------------------------
(* The launch event and the dispatch of the tasks.                          *)

\* A scheduler that reads the launch event is one iteration behind.
LEMMA Launching ==
    ASSUME Inv, IInv, NEW s \in Sched, LaunchTasks(s)
    PROVE  /\ spc[s] = "poll" /\ Unread(s) /\ queue_idx[s] = Broadcast
           /\ CurrentEvent(s) = LaunchEvent
           /\ my_workers[s] = WorkersAt(s) /\ Share(s, my_workers[s]) = ShareOf(s)
           /\ to_dispatch[s] = {} /\ loop_idx[s] = 0
           /\ iteration_num[s] = cur_event_pos[s][Broadcast]
           /\ iteration_num[s] \in Nat /\ iteration_num[s] < Launched
           /\ ShareOf(s) # {} => iteration_num[s] + 1 = Launched
           /\ EndAt(s) = {}
<1>1. spc[s] = "poll" /\ Unread(s) /\ CurrentEvent(s) = LaunchEvent
  BY DEF LaunchTasks, AtEvent
<1>2. queue_idx[s] = Broadcast
  <2>1. /\ cur_event_pos[s][queue_idx[s]] + 1 \in 1 .. Len(sched_queues[queue_idx[s]])
        /\ queue_idx[s] \in {s, Broadcast}
    BY <1>1, SchedFacts DEF IInv, SchedOK, SchedGood
  <2> QED BY <1>1, <2>1, EventFacts DEF IInv, SchedOK, LogsOK, CurrentEvent
<1>3. my_workers[s] = WorkersAt(s)
  BY <1>1 DEF IInv, BootOK
<1>4. Share(s, my_workers[s]) = ShareOf(s)
  BY <1>3, XcdFacts DEF Sched
<1>5. to_dispatch[s] = {} /\ loop_idx[s] = 0
  BY <1>1, EventFacts DEF IInv, SchedOK, SchedGood
<1>6. iteration_num[s] = cur_event_pos[s][Broadcast] /\ iteration_num[s] \in Nat
  BY <1>1, SchedFacts, Constants DEF IInv, SchedOK, SchedGood
<1>7. iteration_num[s] < Launched
  <2>1. cur_event_pos[s][Broadcast] + 1 <= Len(sched_queues[Broadcast])
    BY <1>1, <1>2, SchedFacts, Constants
  <2>2. Len(sched_queues[Broadcast]) <= Launched /\ Len(sched_queues[Broadcast]) \in Nat
    BY SchedFacts, Constants DEF IInv, LaunchOK
  <2> QED BY <1>6, <2>1, <2>2, SchedFacts
<1>8. ShareOf(s) # {} => iteration_num[s] + 1 = Launched
  <2>1. ShareOf(s) # {} => iteration_num[s] >= Launched - 1
    BY DEF IInv, LaunchOK
  <2> QED BY <1>6, <1>7, <2>1, SchedFacts
<1>9. EndAt(s) = {}
  <2>1. \A i \in EndAt(s) : iteration_num[s] = Launched
    BY DEF IInv, TokenOK
  <2> QED BY <1>6, <1>7, <2>1, SchedFacts
<1> QED BY <1>1, <1>2, <1>3, <1>4, <1>5, <1>6, <1>7, <1>8, <1>9

LEMMA LaunchTasksSafe == ASSUME Inv, IInv, NEW s \in Sched, LaunchTasks(s) PROVE IInv'
<1>1. /\ spc[s] = "poll" /\ Unread(s) /\ queue_idx[s] = Broadcast
      /\ CurrentEvent(s) = LaunchEvent
      /\ my_workers[s] = WorkersAt(s) /\ Share(s, my_workers[s]) = ShareOf(s)
      /\ to_dispatch[s] = {} /\ loop_idx[s] = 0
      /\ iteration_num[s] = cur_event_pos[s][Broadcast]
      /\ iteration_num[s] \in Nat /\ iteration_num[s] < Launched
      /\ ShareOf(s) # {} => iteration_num[s] + 1 = Launched
      /\ EndAt(s) = {}
  BY Launching
<1>2. /\ iteration_num' = [iteration_num EXCEPT ![s] = iteration_num[s] + 1]
      /\ AfterDispatch(s, ShareOf(s))
      /\ UNCHANGED << worker_queues, sched_queues, all_event_counters,
                      xcd_local_event_counters, placement, workerVars,
                      queue_idx, last_event_pos, my_workers, next_worker_idx,
                      loop_idx >>
  BY <1>1 DEF LaunchTasks, IterationToLaunch
<1>3. /\ iteration_num'[s] = iteration_num[s] + 1
      /\ \A r \in Sched : r # s => iteration_num'[r] = iteration_num[r]
      /\ to_dispatch'[s] = ShareOf(s)
      /\ \A r \in Sched : r # s => to_dispatch'[r] = to_dispatch[r]
  BY <1>2 DEF AfterDispatch, Inv, TypeOK
<1>4. /\ spc'[s] = IF ShareOf(s) = {} THEN "poll" ELSE "dispatch"
      /\ \A r \in Sched : r # s => spc'[r] = spc[r]
      /\ cur_event_pos'[s][Broadcast]
           = cur_event_pos[s][Broadcast] + (IF ShareOf(s) = {} THEN 1 ELSE 0)
      /\ cur_event_pos'[s][s] = cur_event_pos[s][s]
      /\ \A r \in Sched : r # s => cur_event_pos'[r] = cur_event_pos[r]
  <2>1. /\ s # Broadcast /\ s \in Queue /\ Broadcast \in Queue
        /\ cur_event_pos[s][Broadcast] \in Nat
    BY SchedFacts, Constants DEF Broadcast, Sched, Xcd
  <2>2. CASE ShareOf(s) = {}
    BY <1>1, <1>2, <2>1, <2>2 DEF AfterDispatch, NextEvent, Goto, Inv, TypeOK
  <2>3. CASE ShareOf(s) # {}
    BY <1>1, <1>2, <2>1, <2>3 DEF AfterDispatch, NextEvent, Goto, Inv, TypeOK
  <2> QED BY <2>2, <2>3
<1>5. /\ all_event_counters' = all_event_counters /\ executed' = executed
      /\ Launched' = Launched /\ wpc' = wpc /\ Launched \in Nat
  BY <1>2, SchedFacts DEF workerVars, Launched
<1>6. KeepsWork /\ KeepsHands /\ KeepsCounts
  BY <1>2, HandsKept DEF KeepsWork, KeepsCounts, workerVars
<1>7. \A r \in Sched : EndAt(r)' = EndAt(r)
  BY <1>2, <1>4 DEF EndAt, Unhandled
<1>8. SchedOK'
  <2>1. LogsGrow /\ LogsOK'
    BY <1>2 DEF LogsGrow, LogsOK, IInv, SchedOK
  <2>2. \A r \in Sched : r # s => SameSched(r)
    BY <1>2, <1>3, <1>4 DEF SameSched
  <2>3. SchedGood(s)'
    <3>1. iteration_num'[s] = cur_event_pos'[s][Broadcast]
                                + (IF spc'[s] = "dispatch" THEN 1 ELSE 0)
      BY <1>1, <1>3, <1>4
    <3>2. /\ queue_idx'[s] = Broadcast /\ loop_idx'[s] = 0
          /\ spc'[s] = "dispatch" <=> to_dispatch'[s] # {}
          /\ spc'[s] \in {"poll", "dispatch"}
      BY <1>1, <1>2, <1>3, <1>4
    <3>3. \A p \in to_dispatch'[s] :
            /\ 0 < Cardinality(WorkersAt(s))
            /\ 0 < AllTasks[p].n_tile_count
      <4> SUFFICES ASSUME NEW p \in ShareOf(s)
                   PROVE  0 < Cardinality(WorkersAt(s)) /\ 0 < AllTasks[p].n_tile_count
        BY <1>3
      <4>1. p \in Task /\ Owner(p) = s /\ s \in Xcd
        BY DEF ShareOf, Sched
      <4>2. 0 < Cardinality(WorkersAt(s))
        BY <4>1, XcdFacts
      <4>3. 0 < AllTasks[p].n_tile_count
        BY <4>1, GraphAssumption, TaskFacts
      <4> QED BY <4>2, <4>3
    <3>4. to_dispatch'[s] \subseteq ShareOf(s)
      BY <1>3
    <3>5. ShareOf(s)' = ShareOf(s) /\ WorkersAt(s)' = WorkersAt(s)
      BY DEF ShareOf, WorkersAt
    <3> QED BY <3>1, <3>2, <3>3, <3>4, <3>5 DEF SchedGood
  <2> QED BY <2>1, <2>2, <2>3, OneSchedMoves DEF IInv
<1>9. LaunchOK'
  <2>1. ASSUME NEW r \in Sched, NEW e \in Event
        PROVE  xcd_event_num_tasks'[r][e]
                 = IF iteration_num'[r] = 0 THEN 0 ELSE Cardinality(Counted(r, e))
    <3> DEFINE counted == [f \in Event |-> xcd_event_num_tasks[s][f] + Cardinality({t \in Tile :
                             t[1] \in ShareOf(s) /\ AllTasks[t[1]].trigger_event = f})]
    <3>1. xcd_event_num_tasks' = IF iteration_num[s] # 0 THEN xcd_event_num_tasks
                                 ELSE [xcd_event_num_tasks EXCEPT ![s] = counted]
      BY <1>1 DEF LaunchTasks
    <3>2. xcd_event_num_tasks[r][e]
            = IF iteration_num[r] = 0 THEN 0 ELSE Cardinality(Counted(r, e))
      BY DEF IInv, LaunchOK
    <3>3. xcd_event_num_tasks \in [Xcd -> [Event -> Nat]] /\ Sched = Xcd
      BY DEF Inv, TypeOK, Sched
    <3>4. counted[e] = xcd_event_num_tasks[s][e] + Cardinality(Counted(s, e))
      <4>1. {t \in Tile : t[1] \in ShareOf(s) /\ AllTasks[t[1]].trigger_event = e} = Counted(s, e)
        BY DEF Counted, Feeders, EventOf
      <4> QED BY <4>1
    <3> HIDE DEF counted
    <3>5. CASE r # s
      <4>1. xcd_event_num_tasks'[r] = xcd_event_num_tasks[r]
        BY <3>1, <3>3, <3>5
      <4> QED BY <1>3, <3>2, <3>5, <4>1
    <3>6. CASE r = s
      <4>1. iteration_num'[s] # 0
        BY <1>1, <1>3
      <4>2. CASE iteration_num[s] # 0
        BY <3>1, <3>2, <3>6, <4>1, <4>2
      <4>3. CASE iteration_num[s] = 0
        <5>1. xcd_event_num_tasks'[s][e] = counted[e]
          BY <3>1, <3>3, <4>3
        <5>2. xcd_event_num_tasks[s][e] = 0
          BY <3>2, <3>6, <4>3
        <5>3. Cardinality(Counted(s, e)) \in Nat
          BY ShareFacts
        <5> QED BY <3>4, <3>6, <4>1, <5>1, <5>2, <5>3
      <4> QED BY <4>2, <4>3
    <3> QED BY <3>5, <3>6
  <2>2. \A r \in Sched : ShareOf(r) # {} => iteration_num'[r] >= Launched - 1
    BY <1>1, <1>3, <1>5 DEF IInv, LaunchOK
  <2>3. \A r \in Sched : to_dispatch'[r] # {} => iteration_num'[r] = Launched
    BY <1>1, <1>3 DEF IInv, LaunchOK
  <2>4. \A w \in Worker : BeginSignal(w)' <=> BeginSignal(w)
    BY <1>6, SameHands
  <2>5. \A r : ShareOf(r)' = ShareOf(r) /\ \A e : Counted(r, e)' = Counted(r, e)
    BY DEF ShareOf, Counted, Feeders
  <2>6. /\ Len(sched_queues'[Broadcast]) <= Launched
        /\ \A w \in Worker : BeginSignal(w)' => Len(sched_queues'[Broadcast]) < Launched
        /\ \A w, v \in Worker : BeginSignal(w)' /\ BeginSignal(v)' => w = v
    BY <1>2, <2>4 DEF IInv, LaunchOK
  <2> QED BY <1>5, <2>1, <2>2, <2>3, <2>5, <2>6 DEF LaunchOK
<1>10. \A t \in Tile : Waiting(t)' <=> Waiting(t)
  <2> SUFFICES ASSUME NEW t \in Tile PROVE Waiting(t)' <=> Waiting(t)
    OBVIOUS
  <2>1. Owner(t[1]) \in Sched /\ t[1] \in Task /\ t[2] \in Nat
    BY TileFacts, TaskFacts DEF Sched
  <2>2. Owner(t[1])' = Owner(t[1])
    BY DEF Owner, IsGangEvent
  <2>3. CASE Owner(t[1]) # s
    BY <1>2, <1>3, <1>5, <2>1, <2>3 DEF Waiting, Undispatched
  <2>4. CASE Owner(t[1]) = s
    <3>1. Waiting(t)
      BY <1>1, <2>4 DEF Waiting
    <3>2. t[1] \in to_dispatch'[s]
      BY <1>3, <2>1, <2>4 DEF ShareOf
    <3>3. t[2] % Cardinality(WorkersAt(s)) >= 0
      <4>1. Cardinality(WorkersAt(s)) \in Nat /\ Cardinality(WorkersAt(s)) > 0
        BY <2>1, <2>4, XcdFacts DEF Sched
      <4> QED BY <2>1, <4>1
    <3>4. loop_idx'[s] = 0 /\ WorkersAt(s)' = WorkersAt(s)
      BY <1>1, <1>2 DEF WorkersAt
    <3>5. Undispatched(s, t[1], t[2])'
      BY <3>2, <3>3, <3>4 DEF Undispatched
    <3>6. Waiting(t)'
      BY <2>4, <3>5 DEF Waiting
    <3> QED BY <3>1, <3>6
  <2> QED BY <2>3, <2>4
<1>11. QueueOK' /\ TileOK'
  BY <1>5, <1>6, <1>10, QueueKept, TileKept DEF IInv
<1>12. CountOK' /\ FlushOK' /\ TilesInOrder'
  BY <1>6, FlushesKept, CountsKept, OrderKept, OrderParts DEF IInv
<1>13. \A v \in Worker : Satisfied(v)'
  BY <1>5, <1>6, SameWork, SatisfiedKept, OrderParts DEF IInv
<1>14. TokenOK'
  <2>1. \A r \in Sched : EndAt(r) # {} => iteration_num'[r] = iteration_num[r]
    BY <1>1, <1>3
  <2> QED BY <1>5, <1>6, <1>7, <2>1, SameWork, TokenKept DEF IInv
<1>15. EndingOK'
  <2>1. \A r \in Sched, v \in Worker : TerminationSeen(v, r) => TerminationSeen(v, r)'
    <3>1. \A v \in Worker : ~TerminationSeen(v, s)
      BY <1>1, EventFacts DEF TerminationSeen
    <3>2. \A r \in Sched : r # s => SameSched(r)
      BY <1>2, <1>3, <1>4 DEF SameSched
    <3>3. LogsGrow
      BY <1>2 DEF LogsGrow
    <3>4. \A r \in Sched, v \in Worker : r # s => (TerminationSeen(v, r) => TerminationSeen(v, r)')
      BY <3>2, <3>3, SeenKept
    <3> QED BY <3>1, <3>4
  <2>2. \A v \in Worker : Loaded(v) => Loaded(v)'
    BY <1>2 DEF Loaded, workerVars, loadVars
  <2> QED BY <1>1, <1>2, <1>4, <1>5, <1>6, <1>7, <2>1, <2>2, EndingKept DEF IInv
<1>16. BootOK'
  <2>1. \A r \in Sched : spc'[r] = "boot" <=> spc[r] = "boot"
    BY <1>1, <1>4
  <2> QED BY <1>2, <1>5, <2>1, BootKept DEF IInv
<1> QED BY <1>8, <1>9, <1>11, <1>12, <1>13, <1>14, <1>15, <1>16, AllParts

\* What one push of a scheduler does: p is the first task it still has to
\* dispatch, w the worker it falls to.
LEMMA Dispatching ==
    ASSUME Inv, IInv, NEW s \in Sched, NEW p \in to_dispatch[s], NEW w \in Worker,
           spc[s] = "dispatch", \A r \in to_dispatch[s] : p <= r,
           w \in my_workers[s],
           IsGang(p) => RankIn(my_workers[s], w) = loop_idx[s]
    PROVE  /\ p \in Task /\ p \in Nat /\ Owner(p) = s /\ HwXcd[w] = s /\ s \in Xcd
           /\ iteration_num[s] = Launched /\ Launched \in Nat
           /\ my_workers[s] = WorkersAt(s)
           /\ \A k \in TilesFor(w, p) : k \in TilesOf(p) /\ Waiting(<<p, k>>)
           /\ TilesFor(w, p) # {}
           /\ loop_idx[s] \in Nat /\ Cardinality(WorkersAt(s)) \in Nat
           /\ Cardinality(WorkersAt(s)) > 0 /\ AllTasks[p].n_tile_count \in Nat
           /\ IsGang(p) => /\ loop_idx[s] < Cardinality(WorkersAt(s))
                           /\ loop_idx[s] < AllTasks[p].n_tile_count
                           /\ RankIn(WorkersAt(s), w) = loop_idx[s]
<1>1. /\ p \in Task /\ p \in Nat /\ Owner(p) = s /\ s \in Xcd
      /\ iteration_num[s] = Launched /\ Launched \in Nat
  BY SchedFacts, TaskFacts DEF IInv, SchedOK, SchedGood, ShareOf, Sched, LaunchOK
<1>2. my_workers[s] = WorkersAt(s) /\ HwXcd[w] = s
  BY DEF IInv, BootOK, WorkersAt
<1>3. /\ loop_idx[s] \in Nat /\ Cardinality(WorkersAt(s)) \in Nat
      /\ Cardinality(WorkersAt(s)) > 0 /\ AllTasks[p].n_tile_count \in Nat
  BY <1>1, <1>2, SchedFacts, XcdFacts, GraphAssumption, TaskFacts
<1>4. IsGang(p) => /\ loop_idx[s] < Cardinality(WorkersAt(s))
                   /\ loop_idx[s] < AllTasks[p].n_tile_count
                   /\ RankIn(WorkersAt(s), w) = loop_idx[s]
  BY <1>2 DEF IInv, SchedOK, SchedGood
<1>5. TilesFor(w, p) # {}
  <2>1. CASE IsGang(p)
    <3> DEFINE k == loop_idx[s]
               n == Cardinality(WorkersAt(s))
    <3>1. k \in TilesOf(p)
      BY <1>3, <1>4, <2>1 DEF TilesOf
    <3>2. k \in Nat /\ n \in Nat /\ k < n
      BY <1>3, <1>4, <2>1
    <3> HIDE DEF k, n
    <3>3. k % n = k
      BY <3>2
    <3> QED BY <1>2, <1>4, <2>1, <3>1, <3>3 DEF TilesFor, k, n
  <2>2. CASE ~IsGang(p)
    BY <1>1, <2>2, TileFacts DEF TilesFor
  <2> QED BY <2>1, <2>2
<1>6. ASSUME NEW k \in TilesFor(w, p) PROVE k \in TilesOf(p) /\ Waiting(<<p, k>>)
  <2>1. k \in TilesOf(p) /\ k \in Nat
    BY <1>1, TileFacts
  <2>2. IsGang(p) => k % Cardinality(WorkersAt(s)) = loop_idx[s]
    BY <1>2, <1>4 DEF TilesFor
  <2>3. Undispatched(s, p, k)
    BY <1>3, <2>2 DEF Undispatched
  <2> QED BY <1>1, <2>1, <2>3 DEF Waiting
<1> QED BY <1>1, <1>2, <1>3, <1>4, <1>5, <1>6

LEMMA DispatchTaskSafe == ASSUME Inv, IInv, NEW s \in Sched, DispatchTask(s) PROVE IInv'
<1> DEFINE Last(q) == \/ ~IsGang(q)
                      \/ loop_idx[s] + 1 = Cardinality(my_workers[s])
                      \/ loop_idx[s] + 1 = AllTasks[q].n_tile_count
<1>1. PICK p \in to_dispatch[s], w \in Worker :
        /\ spc[s] = "dispatch" /\ \A r \in to_dispatch[s] : p <= r
        /\ w \in my_workers[s]
        /\ IsGang(p) => RankIn(my_workers[s], w) = loop_idx[s]
        /\ PushTask(w, TaskId(iteration_num[s], p))
        /\ loop_idx' = [loop_idx EXCEPT ![s] = IF Last(p) THEN 0 ELSE loop_idx[s] + 1]
        /\ AfterDispatch(s, IF Last(p) THEN to_dispatch[s] \ {p} ELSE to_dispatch[s])
        /\ UNCHANGED << sched_queues, counters, placement, workerVars, queue_idx,
                        last_event_pos, my_workers, iteration_num >>
  BY DEF DispatchTask, WorkerAt
<1> DEFINE id == TaskId(iteration_num[s], p)
           n == Len(worker_queues[w]) + 1
           rest == IF Last(p) THEN to_dispatch[s] \ {p} ELSE to_dispatch[s]
           next == IF Last(p) THEN 0 ELSE loop_idx[s] + 1
<1>2. /\ p \in Task /\ p \in Nat /\ Owner(p) = s /\ HwXcd[w] = s /\ s \in Xcd
      /\ iteration_num[s] = Launched /\ Launched \in Nat
      /\ my_workers[s] = WorkersAt(s)
      /\ \A k \in TilesFor(w, p) : k \in TilesOf(p) /\ Waiting(<<p, k>>)
      /\ TilesFor(w, p) # {}
      /\ loop_idx[s] \in Nat /\ Cardinality(WorkersAt(s)) \in Nat
      /\ Cardinality(WorkersAt(s)) > 0 /\ AllTasks[p].n_tile_count \in Nat
      /\ IsGang(p) => /\ loop_idx[s] < Cardinality(WorkersAt(s))
                      /\ loop_idx[s] < AllTasks[p].n_tile_count
                      /\ RankIn(WorkersAt(s), w) = loop_idx[s]
  BY <1>1, Dispatching
<1>3. /\ id \in TaskIds /\ id.pos = p /\ id.iter = Launched
      /\ p # BeginTask /\ p # TerminateTask
  BY <1>2, Constants, TaskFacts DEF TaskId, TaskIds
<1>4. /\ loop_idx'[s] = next /\ \A r \in Sched : r # s => loop_idx'[r] = loop_idx[r]
      /\ to_dispatch'[s] = rest
      /\ \A r \in Sched : r # s => to_dispatch'[r] = to_dispatch[r]
  BY <1>1 DEF AfterDispatch, Inv, TypeOK
<1>5. /\ rest \subseteq to_dispatch[s] /\ rest \subseteq Task
      /\ Last(p) <=> p \notin rest
      /\ ~Last(p) => rest = to_dispatch[s] /\ IsGang(p)
      /\ rest = {} => Last(p)
  BY SchedFacts
<1>6. queue_idx[s] = Broadcast /\ Unread(s)
  BY <1>1 DEF IInv, SchedOK, SchedGood, Inv, SchedPositions
<1>7. /\ spc'[s] = IF rest = {} THEN "poll" ELSE "dispatch"
      /\ \A r \in Sched : r # s => spc'[r] = spc[r]
      /\ cur_event_pos'[s][Broadcast]
           = cur_event_pos[s][Broadcast] + (IF rest = {} THEN 1 ELSE 0)
      /\ cur_event_pos'[s][s] = cur_event_pos[s][s]
      /\ \A r \in Sched : r # s => cur_event_pos'[r] = cur_event_pos[r]
  <2>1. /\ s # Broadcast /\ s \in Queue /\ Broadcast \in Queue
        /\ cur_event_pos[s][Broadcast] \in Nat
    BY SchedFacts, Constants DEF Broadcast, Sched, Xcd
  <2>2. AfterDispatch(s, rest)
    BY <1>1
  <2> HIDE DEF rest
  <2>3. CASE rest = {}
    BY <1>6, <2>1, <2>2, <2>3 DEF AfterDispatch, NextEvent, Goto, Inv, TypeOK
  <2>4. CASE rest # {}
    BY <1>6, <2>1, <2>2, <2>4 DEF AfterDispatch, NextEvent, Goto, Inv, TypeOK
  <2> QED BY <2>3, <2>4
<1> HIDE DEF id
<1>8. /\ BootOK' /\ QueueOK' /\ CountOK' /\ FlushOK' /\ TilesInOrder'
      /\ (\A v \in Worker : Satisfied(v)')
      /\ KeepsHands /\ wpc' = wpc /\ executed' = executed
      /\ all_event_counters' = all_event_counters /\ Launched' = Launched
  <2>1. (\E r \in Sched : spc[r] # "boot") /\ \A r \in Sched : spc'[r] = "boot" <=> spc[r] = "boot"
    BY <1>1, <1>7
  <2> QED BY <1>1, <1>2, <1>3, <2>1, PushFrames DEF id
<1>9. SchedOK'
  <2>1. LogsGrow /\ LogsOK'
    BY <1>1 DEF LogsGrow, LogsOK, IInv, SchedOK
  <2>2. \A r \in Sched : r # s => SameSched(r)
    BY <1>1, <1>4, <1>7 DEF SameSched
  <2>3. SchedGood(s)'
    <3>1. iteration_num'[s] = cur_event_pos'[s][Broadcast]
                                + (IF spc'[s] = "dispatch" THEN 1 ELSE 0)
      <4>1. iteration_num[s] = cur_event_pos[s][Broadcast] + 1
        BY <1>1 DEF IInv, SchedOK, SchedGood
      <4>2. cur_event_pos[s][Broadcast] \in Nat /\ iteration_num' = iteration_num
        BY <1>1, SchedFacts, Constants
      <4> HIDE DEF rest
      <4> QED BY <1>7, <4>1, <4>2
    <3>2. /\ queue_idx'[s] = Broadcast
          /\ spc'[s] = "dispatch" <=> to_dispatch'[s] # {}
          /\ spc'[s] \in {"poll", "dispatch"}
          /\ to_dispatch'[s] \subseteq ShareOf(s)
      <4>1. to_dispatch[s] \subseteq ShareOf(s)
        BY DEF IInv, SchedOK, SchedGood
      <4> HIDE DEF rest
      <4> QED BY <1>1, <1>4, <1>5, <1>6, <1>7, <4>1
    <3>3. spc'[s] = "poll" => loop_idx'[s] = 0
      BY <1>4, <1>5, <1>7
    <3>4. ASSUME NEW q \in to_dispatch'[s], IsGang(q), \A r \in to_dispatch'[s] : q <= r
          PROVE  /\ loop_idx'[s] < Cardinality(WorkersAt(s))
                 /\ loop_idx'[s] < AllTasks[q].n_tile_count
      <4>1. q \in Task /\ q \in Nat
        BY <1>4, <1>5, <3>4, TaskFacts
      <4>2. CASE Last(p)
        <5>1. loop_idx'[s] = 0
          BY <1>4, <4>2
        <5>2. AllTasks[q].n_tile_count > 0 /\ AllTasks[q].n_tile_count \in Nat
          BY <4>1, GraphAssumption, TaskFacts
        <5> QED BY <1>2, <5>1, <5>2
      <4>3. CASE ~Last(p)
        <5>1. to_dispatch'[s] = to_dispatch[s] /\ loop_idx'[s] = loop_idx[s] + 1 /\ IsGang(p)
          BY <1>4, <1>5, <4>3
        <5>2. p <= q /\ q <= p
          BY <1>1, <3>4, <5>1
        <5>3. q = p
          BY <1>2, <4>1, <5>2
        <5> QED BY <1>2, <4>3, <5>1, <5>3
      <4> QED BY <4>2, <4>3
    <3>5. ShareOf(s)' = ShareOf(s) /\ WorkersAt(s)' = WorkersAt(s)
      BY DEF ShareOf, WorkersAt
    <3> QED BY <3>1, <3>2, <3>3, <3>4, <3>5 DEF SchedGood
  <2> QED BY <2>1, <2>2, <2>3, OneSchedMoves DEF IInv
<1>10. LaunchOK'
  <2>1. \A r \in Sched : to_dispatch'[r] # {} => to_dispatch[r] # {}
    BY <1>4, <1>5
  <2> QED BY <1>1, <1>8, <2>1, SameHands, LaunchKept DEF IInv, counters
<1>11. ASSUME NEW t \in Tile, Waiting(t)' PROVE Waiting(t)
  <2>1. Owner(t[1]) \in Sched /\ t[1] \in Task /\ t[2] \in Nat /\ t[1] \in Nat
    BY TileFacts, TaskFacts DEF Sched
  <2>2. Owner(t[1])' = Owner(t[1]) /\ iteration_num' = iteration_num
    BY <1>1 DEF Owner, IsGangEvent
  <2>3. CASE Owner(t[1]) # s
    BY <1>4, <1>8, <1>11, <2>1, <2>2, <2>3 DEF Waiting, Undispatched
  <2>4. CASE Owner(t[1]) = s
    <3>1. Undispatched(s, t[1], t[2])'
      BY <1>2, <1>8, <1>11, <2>2, <2>4 DEF Waiting
    <3>2. t[1] \in rest /\ WorkersAt(s)' = WorkersAt(s)
      BY <1>4, <3>1 DEF Undispatched, WorkersAt
    <3>3. CASE t[1] # p
      <4>1. ~(\A r \in to_dispatch[s] : t[1] <= r)
        BY <1>1, <1>2, <1>5, <2>1, <3>2, <3>3
      <4> QED BY <1>5, <2>4, <3>2, <4>1 DEF Waiting, Undispatched
    <3>4. CASE t[1] = p
      <4>1. ~Last(p)
        BY <1>5, <3>2, <3>4
      <4>2. to_dispatch'[s] = to_dispatch[s] /\ loop_idx'[s] = loop_idx[s] + 1 /\ IsGang(p)
        BY <1>4, <1>5, <4>1
      <4>3. t[2] % Cardinality(WorkersAt(s)) >= loop_idx[s] + 1
        BY <1>1, <3>1, <3>2, <3>4, <4>2 DEF Undispatched
      <4>4. t[2] % Cardinality(WorkersAt(s)) \in Nat
        BY <1>2, <2>1
      <4>5. t[2] % Cardinality(WorkersAt(s)) >= loop_idx[s]
        BY <1>2, <4>3, <4>4
      <4> QED BY <2>4, <3>4, <4>5 DEF Waiting, Undispatched
    <3> QED BY <3>3, <3>4
  <2> QED BY <2>3, <2>4
<1>12. ASSUME NEW k \in TilesFor(w, p) PROVE ~Waiting(<<p, k>>)'
  <2>1. /\ Owner(<<p, k>>[1])' = s /\ <<p, k>>[1] = p /\ <<p, k>>[2] = k
        /\ iteration_num'[s] = Launched'
    BY <1>1, <1>2, <1>8 DEF Owner, IsGangEvent
  <2>2. ~Undispatched(s, p, k)'
    <3>1. CASE Last(p)
      BY <1>4, <1>5, <3>1 DEF Undispatched
    <3>2. CASE ~Last(p)
      <4>1. to_dispatch'[s] = to_dispatch[s] /\ loop_idx'[s] = loop_idx[s] + 1 /\ IsGang(p)
        BY <1>4, <1>5, <3>2
      <4>2. k % Cardinality(WorkersAt(s)) = loop_idx[s]
        BY <1>2, <4>1 DEF TilesFor
      <4>3. WorkersAt(s)' = WorkersAt(s)
        BY DEF WorkersAt
      <4> QED BY <1>1, <1>2, <4>1, <4>2, <4>3 DEF Undispatched
    <3> QED BY <3>1, <3>2
  <2> QED BY <1>2, <1>8, <2>1, <2>2 DEF Waiting
<1>13. /\ Todo(w)' = Todo(w) \cup {n} /\ n \notin Todo(w) /\ worker_queues'[w][n] = id
       /\ \A v \in Worker : v # w => Todo(v)' = Todo(v)
       /\ \A v \in Worker : BeginAt(v)' = BeginAt(v)
       /\ \A v \in Worker : \A i \in Todo(v) : \A t : Covers(v, i, t)' <=> Covers(v, i, t)
  <2>1. Todo(w) \subseteq Queued(w)
    BY DEF Todo
  <2>2. UNCHANGED workerVars /\ PushTask(w, id) /\ id \in TaskIds /\ id.pos # BeginTask
    BY <1>1, <1>3 DEF id
  <2>3. \A v \in Worker : \A i \in Todo(v) : \A t : Covers(v, i, t)' <=> Covers(v, i, t)
    BY <2>2, PushKeepsHands
  <2>4. /\ Todo(w)' = Todo(w) \cup {n} /\ n \notin Queued(w) /\ worker_queues'[w][n] = id
        /\ \A v \in Worker : v # w => Todo(v)' = Todo(v) /\ BeginAt(v)' = BeginAt(v)
        /\ BeginAt(w)' = BeginAt(w) \cup (IF id.pos = BeginTask THEN {n} ELSE {})
    BY <2>2, PushEffect
  <2> HIDE DEF n
  <2> QED BY <2>1, <2>2, <2>3, <2>4
<1> HIDE DEF n, rest, next, Last
<1>14. TileOK'
  \* A position that covers a tile is an old one that covered it, or the new one.
  <2>1. ASSUME NEW t \in Tile, NEW v \in Worker, NEW i \in Todo(v)', Covers(v, i, t)'
        PROVE  \/ i \in Todo(v) /\ Covers(v, i, t)
               \/ v = w /\ i = n /\ t = <<p, t[2]>> /\ t[2] \in TilesFor(w, p)
    <3>1. i \in Todo(v) \/ (v = w /\ i = n)
      BY <1>13, <2>1
    <3>2. CASE i \in Todo(v)
      BY <1>13, <2>1, <3>2
    <3>3. CASE v = w /\ i = n
      <4>1. worker_queues'[w][i].pos = t[1] /\ t[2] \in TilesFor(w, t[1])'
        BY <2>1, <3>3 DEF Covers, Pos
      <4>2. t[1] = p
        BY <1>3, <1>13, <3>3, <4>1
      <4>3. TilesFor(w, t[1])' = TilesFor(w, t[1])
        BY DEF TilesFor, WorkersAt, RankIn
      <4> QED BY <3>3, <4>1, <4>2, <4>3, TileFacts
    <3> QED BY <3>1, <3>2, <3>3
  <2>2. ASSUME NEW t \in Tile, t = <<p, t[2]>>, t[2] \in TilesFor(w, p)
        PROVE  /\ executed[t] = Launched - 1 /\ ~Waiting(t)'
               /\ \A v \in Worker : \A i \in Todo(v) : ~Covers(v, i, t)
    <3>1. Waiting(t) /\ ~Waiting(t)'
      <4>1. Waiting(<<p, t[2]>>) /\ ~Waiting(<<p, t[2]>>)'
        BY <1>2, <1>12, <2>2
      <4> QED BY <2>2, <4>1
    <3> QED BY <3>1 DEF IInv, TileOK
  <2>3. ASSUME NEW t \in Tile
        PROVE  /\ executed'[t] \in {Launched' - 1, Launched'}
               /\ Waiting(t)' => executed'[t] = Launched' - 1
               /\ \A v \in Worker : \A i \in Todo(v)' : Covers(v, i, t)' =>
                    /\ executed'[t] = Launched' - 1
                    /\ ~Waiting(t)'
                    /\ \A u \in Worker : \A j \in Todo(u)' : Covers(u, j, t)' => u = v /\ j = i
    <3>1. /\ executed'[t] \in {Launched' - 1, Launched'}
          /\ Waiting(t)' => executed'[t] = Launched' - 1
      BY <1>8, <1>11 DEF IInv, TileOK
    <3>2. ASSUME NEW v \in Worker, NEW i \in Todo(v)', Covers(v, i, t)'
          PROVE  /\ executed'[t] = Launched' - 1
                 /\ ~Waiting(t)'
                 /\ \A u \in Worker : \A j \in Todo(u)' : Covers(u, j, t)' => u = v /\ j = i
      <4>1. CASE i \in Todo(v) /\ Covers(v, i, t)
        <5>1. /\ executed[t] = Launched - 1 /\ ~Waiting(t)
              /\ \A u \in Worker : \A j \in Todo(u) : Covers(u, j, t) => u = v /\ j = i
          BY <4>1 DEF IInv, TileOK
        <5>2. ~(t = <<p, t[2]>> /\ t[2] \in TilesFor(w, p))
          BY <2>2, <4>1
        <5> QED BY <1>8, <1>11, <2>1, <5>1, <5>2
      <4>2. CASE v = w /\ i = n /\ t = <<p, t[2]>> /\ t[2] \in TilesFor(w, p)
        <5>1. \A u \in Worker : \A j \in Todo(u)' : Covers(u, j, t)' => u = v /\ j = i
          BY <2>1, <2>2, <4>2
        <5> QED BY <1>8, <2>2, <4>2, <5>1
      <4> QED BY <2>1, <3>2, <4>1, <4>2
    <3> QED BY <3>1, <3>2
  <2> QED BY <2>3 DEF TileOK
<1>15. \A r \in Sched : EndAt(r)' = EndAt(r)
  BY <1>1, <1>7 DEF EndAt, Unhandled
<1>16. TokenOK'
  BY <1>1, <1>8, <1>13, <1>15, TokenKept DEF IInv
<1>17. EndingOK'
  <2>1. \A r : TermAt(r)' = TermAt(r)
    BY <1>1 DEF TermAt
  <2>2. Ending' => /\ Complete(EndEvent)'
                   /\ \A v \in Worker : ~EndSignal(v)' /\ BeginAt(v)' = {}
                   /\ \A r \in Sched : EndAt(r)' # {} => spc'[r] = "terminate"
    <3>1. Ending' <=> Ending
      BY <2>1 DEF Ending
    <3>2. \A r \in Sched : EndAt(r) # {} /\ spc[r] = "terminate" => spc'[r] = "terminate"
      BY <1>1, <1>7
    <3> QED BY <1>8, <1>13, <1>15, <3>1, <3>2, SameHands, SameComplete DEF IInv, EndingOK
  <2>3. \A r \in Sched :
          /\ \A i, j \in TermAt(r)' : i = j
          /\ spc'[r] = "terminate" => \A q \in Sched : TermAt(q)' # {} => q < loop_idx'[r]
    <3>1. \A r \in Sched : spc'[r] = "terminate" => r # s
      BY <1>7
    <3> QED BY <1>4, <1>7, <2>1, <3>1 DEF IInv, EndingOK
  <2>4. \A v \in Worker : \A i \in 1 .. Len(worker_queues'[v]) :
          Pos(v, i)' = TerminateTask =>
            i = Len(worker_queues'[v]) /\ TerminationSeen(v, HwXcd[v])'
    <3> SUFFICES ASSUME NEW v \in Worker, NEW i \in 1 .. Len(worker_queues'[v]),
                        worker_queues'[v][i].pos = TerminateTask
                 PROVE  i = Len(worker_queues'[v]) /\ TerminationSeen(v, HwXcd[v])'
      BY DEF Pos
    <3>1. UNCHANGED workerVars /\ PushTask(w, id) /\ id \in TaskIds
      BY <1>1, <1>3 DEF id
    <3>2. CASE HwXcd[v] # s
      <4>1. v # w
        BY <1>2, <3>2
      <4>2. worker_queues'[v] = worker_queues[v]
        BY <3>1, <4>1, PushEffect
      <4>3. i = Len(worker_queues[v]) /\ TerminationSeen(v, HwXcd[v]) /\ HwXcd[v] \in Sched
        BY <4>2, Constants DEF IInv, EndingOK, Sched, Pos
      <4>4. SameSched(HwXcd[v]) /\ LogsGrow
        BY <1>1, <1>4, <1>7, <3>2, <4>3 DEF SameSched, LogsGrow
      <4>5. \A r \in Sched : SameSched(r) => (TerminationSeen(v, r) => TerminationSeen(v, r)')
        BY <4>4, SeenKept
      <4> QED BY <4>2, <4>3, <4>4, <4>5
    <3>3. CASE HwXcd[v] = s
      <4>1. ~TerminationSeen(v, s)
        BY <1>1 DEF TerminationSeen
      <4>2. \A j \in 1 .. Len(worker_queues[v]) : worker_queues[v][j].pos # TerminateTask
        BY <3>3, <4>1 DEF IInv, EndingOK, Pos
      <4>3. CASE v # w
        BY <3>1, <4>2, <4>3, PushEffect
      <4>4. CASE v = w
        <5>1. /\ i = n \/ i \in 1 .. Len(worker_queues[w])
              /\ i \in 1 .. Len(worker_queues[w]) => worker_queues'[w][i] = worker_queues[w][i]
          BY <3>1, <4>4, PushEffect, WorkerFacts DEF n
        <5> QED BY <1>3, <1>13, <4>2, <4>4, <5>1
      <4> QED BY <4>3, <4>4
    <3> QED BY <3>2, <3>3
  <2>5. \A v \in Worker : wpc'[v] = "exit" => Loaded(v)' /\ CurrentTask(v)'.pos = TerminateTask
    <3>1. UNCHANGED workerVars /\ PushTask(w, id) /\ id \in TaskIds
      BY <1>1, <1>3 DEF id
    <3> QED BY <1>8, <3>1, PushKeepsHands DEF IInv, EndingOK
  <2> QED BY <2>2, <2>3, <2>4, <2>5 DEF EndingOK
<1> QED BY <1>8, <1>9, <1>10, <1>14, <1>16, <1>17, AllParts
-----------------------------------------------------------------------------
(* A task is executed and its completion counted on its XCD.                *)

\* The end of the launch, in the steps of a worker that goes on.
LEMMA WorkerEnding ==
    ASSUME Inv, IInv, NEW w \in Worker, LogsGrow,
           UNCHANGED << schedVars, worker_queues, next_task_pos >>,
           \A s \in Sched : TermAt(s)' = TermAt(s),
           \A v \in Worker : v # w => wpc'[v] = wpc[v] /\ done_task_pos'[v] = done_task_pos[v],
           wpc[w] # "exit", wpc'[w] # "exit",
           Ending => /\ Complete(EndEvent)'
                     /\ \A v \in Worker : ~EndSignal(v)' /\ BeginAt(v)' = {}
                     /\ \A s \in Sched : EndAt(s)' \subseteq EndAt(s)
    PROVE  EndingOK'
<1>1. spc' = spc /\ loop_idx' = loop_idx
  BY DEF schedVars, dispatchVars
<1>2. \A s \in Sched : SameSched(s)
  BY DEF SameSched, schedVars, dispatchVars, eventVars
<1>3. Ending' <=> Ending
  BY DEF Ending
<1>4. Ending' => /\ Complete(EndEvent)'
                 /\ \A v \in Worker : ~EndSignal(v)' /\ BeginAt(v)' = {}
                 /\ \A s \in Sched : EndAt(s)' # {} => spc'[s] = "terminate"
  BY <1>1, <1>3 DEF IInv, EndingOK
<1>5. \A s \in Sched :
        /\ \A i, j \in TermAt(s)' : i = j
        /\ spc'[s] = "terminate" => \A r \in Sched : TermAt(r)' # {} => r < loop_idx'[s]
  BY <1>1 DEF IInv, EndingOK
<1>6. \A v \in Worker : \A i \in 1 .. Len(worker_queues'[v]) :
        Pos(v, i)' = TerminateTask =>
          i = Len(worker_queues'[v]) /\ TerminationSeen(v, HwXcd[v])'
  <2>1. \A v \in Worker : HwXcd[v] \in Sched
    BY Constants DEF Sched
  <2>2. \A v \in Worker : TerminationSeen(v, HwXcd[v]) => TerminationSeen(v, HwXcd[v])'
    BY <1>2, <2>1, SeenKept
  <2>3. \A v \in Worker : \A i : Pos(v, i)' = Pos(v, i)
    BY DEF Pos
  <2> QED BY <2>2, <2>3 DEF IInv, EndingOK
<1>7. \A v \in Worker : wpc'[v] = "exit" => Loaded(v)' /\ CurrentTask(v)'.pos = TerminateTask
  <2>1. ASSUME NEW v \in Worker, wpc'[v] = "exit"
        PROVE  Loaded(v)' /\ CurrentTask(v)'.pos = TerminateTask
    <3>1. wpc[v] = "exit" /\ done_task_pos'[v] = done_task_pos[v] /\ next_task_pos'[v] = next_task_pos[v]
      BY <2>1
    <3>2. Loaded(v) /\ CurrentTask(v).pos = TerminateTask
      BY <3>1 DEF IInv, EndingOK
    <3> QED BY <3>1, <3>2 DEF Loaded, CurrentTask
  <2> QED BY <2>1
<1> QED BY <1>4, <1>5, <1>6, <1>7 DEF EndingOK

\* The BEGIN task has no tile, and no XCD a share of the launch event: it goes
\* on to the global counter at once.
LEMMA BeginCompleted ==
    ASSUME Inv, IInv, NEW w \in Worker, CompleteTask(w), CurrentTask(w).pos = BeginTask
    PROVE  /\ wpc[w] = "execute" /\ Loaded(w)
           /\ executed' = executed
           /\ xcd_local_event_counters' = xcd_local_event_counters
           /\ flush_amount' = [flush_amount EXCEPT ![w] = 1]
           /\ wpc' = [wpc EXCEPT ![w] = "flush"]
           /\ UNCHANGED << done_task_pos, worker_queues, sched_queues, all_event_counters,
                           xcd_event_num_tasks, placement, loadVars, schedVars >>
<1>1. /\ wpc[w] = "execute" /\ Loaded(w) /\ HwXcd[w] \in Sched
      /\ AllTasks[BeginTask].trigger_event = LaunchEvent
      /\ xcd_event_num_tasks[HwXcd[w]][LaunchEvent] = 0
  <2>1. wpc[w] = "execute" /\ Loaded(w)
    BY DEF CompleteTask, AtTask
  <2>2. HwXcd[w] \in Sched
    BY Constants DEF Sched
  <2>3. Cardinality(Counted(HwXcd[w], LaunchEvent)) = 0 /\ LaunchEvent \in Event
    BY ShareFacts, Constants
  <2>4. xcd_event_num_tasks[HwXcd[w]][LaunchEvent] = 0
    BY <2>2, <2>3 DEF IInv, LaunchOK
  <2> QED BY <2>1, <2>2, <2>4, EventFacts DEF EventOf
<1>2. MyTiles(w, BeginTask) = {}
  BY DEF MyTiles, BeginTask, FirstTask
<1>3. /\ executed' = executed
      /\ xcd_local_event_counters' = xcd_local_event_counters
      /\ flush_amount' = [flush_amount EXCEPT ![w] = 1]
      /\ wpc' = [wpc EXCEPT ![w] = "flush"]
      /\ UNCHANGED << done_task_pos, worker_queues, sched_queues, all_event_counters,
                      xcd_event_num_tasks, placement, loadVars, schedVars >>
  <2>1. executed' = [t \in Tile |-> IF t[1] = BeginTask /\ t[2] \in MyTiles(w, BeginTask)
                                    THEN executed[t] + 1 ELSE executed[t]]
    BY DEF CompleteTask
  <2>2. executed' = executed
    BY <1>2, <2>1 DEF Inv, TypeOK
  <2>3. FlushAmount(BeginTask, 0) = 1
    BY DEF FlushAmount
  <2> QED BY <1>1, <2>2, <2>3 DEF CompleteTask
<1> QED BY <1>1, <1>3

LEMMA CompleteBeginSafe ==
    ASSUME Inv, IInv, NEW w \in Worker, CompleteTask(w), CurrentTask(w).pos = BeginTask
    PROVE  IInv'
<1>1. wpc[w] = "execute" /\ Loaded(w)
  BY BeginCompleted
<1>3. /\ executed' = executed
      /\ xcd_local_event_counters' = xcd_local_event_counters
      /\ flush_amount' = [flush_amount EXCEPT ![w] = 1]
      /\ wpc' = [wpc EXCEPT ![w] = "flush"]
      /\ UNCHANGED << done_task_pos, worker_queues, sched_queues, all_event_counters,
                      xcd_event_num_tasks, placement, loadVars, schedVars >>
  BY BeginCompleted
<1>4. /\ wpc'[w] = "flush" /\ flush_amount'[w] = 1
      /\ \A v \in Worker : v # w => wpc'[v] = wpc[v] /\ flush_amount'[v] = flush_amount[v]
  BY <1>3 DEF Inv, TypeOK
<1>5. Launched' = Launched /\ \A v \in Worker : CurrentTask(v)' = CurrentTask(v)
  BY <1>3 DEF Launched, CurrentTask
<1>6. /\ \A v \in Worker : \A e : FlushingFor(v, e)' <=> FlushingFor(v, e)
      /\ \A v \in Worker : BeginSignal(v)' <=> BeginSignal(v)
      /\ \A v \in Worker : EndSignal(v)' <=> EndSignal(v)
  BY <1>1, <1>4, <1>5, TaskFacts DEF FlushingFor, BeginSignal, EndSignal
<1>7. \A v \in Worker : /\ Queued(v)' = Queued(v)
                        /\ Todo(v)' \subseteq Todo(v) /\ BeginAt(v)' = BeginAt(v)
  <2>1. \A v \in Worker : Queued(v)' = Queued(v)
    BY <1>3 DEF Queued
  <2> QED BY <2>1, <1>1, <1>3, <1>4 DEF Todo, BeginAt, Pos
<1>8. CountOK'
  BY <1>3, <1>5, <1>6, SameFlushed DEF CountOK, IInv
<1>9. FlushOK'
  <2>1. FlushedWell(w)'
    BY <1>4, <1>5, TaskFacts DEF FlushedWell
  <2>2. ASSUME NEW v \in Worker, v # w PROVE FlushedWell(v)'
    <3>1. ASSUME NEW e, ShareDone(v, HwXcd[v], e) PROVE ShareDone(v, HwXcd[v], e)'
      <4>1. \A u \in WorkersAt(HwXcd[v]) : FlushingFor(u, e)' <=> FlushingFor(u, e)
        BY <1>6 DEF WorkersAt
      <4> QED BY <1>3, <1>4, <1>5, <2>2, <3>1, <4>1 DEF ShareDone
    <3> QED BY <1>4, <1>5, <2>2, <3>1 DEF FlushedWell, FlushOK, IInv
  <2> QED BY <2>1, <2>2 DEF FlushOK
<1>10. QueueOK'
  BY <1>3, <1>7, QueueShrinks DEF IInv
<1>11. TileOK'
  <2>1. KeepsDispatch
    BY <1>3 DEF KeepsDispatch, schedVars, dispatchVars
  <2>2. \A t \in Tile : Waiting(t)' <=> Waiting(t)
    BY <1>3, <2>1, SameWaiting
  <2> QED BY <1>3, <1>7, <2>2, TileShrinks DEF IInv
<1>12. LaunchOK'
  BY <1>3, <1>6, LaunchKept DEF IInv, schedVars, dispatchVars
<1>13. SchedOK'
  BY <1>3, SchedKept DEF IInv, schedVars, dispatchVars
<1>14. BootOK'
  BY <1>1, <1>3, <1>4, QuietBoots DEF IInv, schedVars, dispatchVars
<1>15. \A s \in Sched : EndAt(s)' = EndAt(s) /\ TermAt(s)' = TermAt(s)
  BY <1>3 DEF EndAt, Unhandled, TermAt, schedVars, eventVars
<1>16. TokenOK'
  BY <1>3, <1>5, <1>6, <1>7, <1>15, TokenShrinks DEF IInv, schedVars, dispatchVars
<1>17. TilesInOrder'
  BY <1>3, <1>5, SameComplete, OrderParts DEF IInv, TilesInOrder
<1>18. \A v \in Worker : Satisfied(v)'
  BY <1>3, <1>4, <1>5, SatisfiedKept, OrderParts DEF IInv
<1>19. EndingOK'
  <2>1. LogsGrow
    BY <1>3 DEF LogsGrow
  <2>2. Ending => /\ Complete(EndEvent)'
                  /\ \A v \in Worker : ~EndSignal(v)' /\ BeginAt(v)' = {}
                  /\ \A s \in Sched : EndAt(s)' \subseteq EndAt(s)
    BY <1>3, <1>6, <1>7, <1>15, SameComplete DEF IInv, EndingOK
  <2> QED BY <1>1, <1>3, <1>4, <1>15, <2>1, <2>2, WorkerEnding DEF loadVars
<1> QED BY <1>8, <1>9, <1>10, <1>11, <1>12, <1>13, <1>14, <1>16, <1>17, <1>18, <1>19, AllParts

\* What a worker that executes a task knows: the task is of this iteration, it
\* is this worker's alone, and the share of its XCD has not been flushed.
LEMMA Executing ==
    ASSUME Inv, IInv, NEW w \in Worker, wpc[w] = "execute",
           NEW p \in Task, CurrentTask(w).pos = p
    PROVE  /\ Loaded(w) /\ done_task_pos[w] + 1 \in Todo(w)
           /\ done_task_pos[w] + 1 \notin BeginAt(w) /\ Pos(w, done_task_pos[w] + 1) = p
           /\ CurrentTask(w).iter = Launched /\ Launched >= 1 /\ Owner(p) = HwXcd[w]
           /\ MyTiles(w, p) = TilesFor(w, p) /\ TilesFor(w, p) # {}
           /\ \A k \in TilesFor(w, p) : /\ <<p, k>> \in Tile
                                        /\ Covers(w, done_task_pos[w] + 1, <<p, k>>)
                                        /\ executed[<<p, k>>] = Launched - 1
           /\ xcd_event_num_tasks[HwXcd[w]][EventOf(p)]
                = Cardinality(Counted(HwXcd[w], EventOf(p)))
           /\ IsFiniteSet(TilesFor(w, p)) /\ Cardinality(TilesFor(w, p)) \in Nat \ {0}
           /\ LocalIncrement(w, p) = Cardinality(TilesFor(w, p))
           /\ \A v \in WorkersAt(HwXcd[w]) : ~FlushingFor(v, EventOf(p))
<1> DEFINE d == done_task_pos[w] + 1
           x == HwXcd[w]
           e == EventOf(p)
<1>1. /\ Loaded(w) /\ d \in Queued(w) /\ d \in 1 .. Len(worker_queues[w])
      /\ CurrentTask(w) = worker_queues[w][d] /\ Pos(w, d) = p
      /\ Launched \in Nat /\ Len(worker_queues[w]) # 0
  BY WorkerFacts, SchedFacts
<1>2. d \in Todo(w) /\ d \notin BeginAt(w)
  BY <1>1, TaskFacts DEF Todo, BeginAt
<1>3. CurrentTask(w).iter = Launched /\ Owner(p) = x /\ TilesFor(w, p) # {}
  BY <1>1 DEF IInv, QueueOK
<1>4. MyTiles(w, p) = TilesFor(w, p)
  BY <1>1, AllBooted DEF IInv
<1> HIDE DEF d
<1>5. ASSUME NEW k \in TilesFor(w, p)
      PROVE  /\ <<p, k>> \in Tile /\ Covers(w, d, <<p, k>>)
             /\ executed[<<p, k>>] = Launched - 1 /\ ~Waiting(<<p, k>>)
             /\ <<p, k>> \in Counted(x, e)
  <2>1. <<p, k>> \in Tile /\ k \in TilesOf(p)
    BY TileFacts
  <2>2. Covers(w, d, <<p, k>>)
    BY <1>1, <1>2 DEF Covers
  <2>3. <<p, k>> \in Counted(x, e)
    BY <2>1, <1>3, ShareFacts
  <2> QED BY <2>1, <2>2, <2>3, <1>2 DEF IInv, TileOK
<1>6. PICK k \in TilesFor(w, p) : TRUE
  BY <1>3
<1>7. Launched >= 1
  <2>1. executed[<<p, k>>] \in Nat /\ executed[<<p, k>>] = Launched - 1
    BY <1>5, SchedFacts
  <2> QED BY <2>1, <1>1
<1>8. x \in Sched /\ e \in Event /\ iteration_num[x] # 0
  <2>1. x \in Sched /\ e \in Event
    BY Constants, TaskFacts DEF Sched
  <2>2. ~(iteration_num[x] < Launched)
    BY <1>3, <1>5 DEF Waiting
  <2> QED BY <2>1, <2>2, <1>1, <1>7
<1>9. xcd_event_num_tasks[x][e] = Cardinality(Counted(x, e))
  BY <1>8 DEF IInv, LaunchOK
<1>10. IsFiniteSet(TilesFor(w, p)) /\ Cardinality(TilesFor(w, p)) \in Nat \ {0}
  <2>1. IsFiniteSet(TilesOf(p))
    BY FS_Interval, GraphAssumption, TaskFacts DEF TilesOf
  <2>2. IsFiniteSet(TilesFor(w, p)) /\ Cardinality(TilesFor(w, p)) \in Nat
    BY <2>1, TileFacts, FS_Subset, FS_CardinalityType
  <2> QED BY <2>2, <1>3, FS_EmptySet
<1>11. LocalIncrement(w, p) = Cardinality(TilesFor(w, p))
  <2>1. CASE IsGang(p)
    BY <2>1, <1>4 DEF LocalIncrement
  <2>2. CASE ~IsGang(p)
    <3>1. AllTasks[p].n_tile_count = 1
      BY <2>2, GraphAssumption
    <3>2. TilesFor(w, p) = {0}
      BY <2>2, <3>1 DEF TilesFor, TilesOf
    <3> QED BY <2>2, <3>2, FS_Singleton DEF LocalIncrement
  <2> QED BY <2>1, <2>2
<1>12. ASSUME NEW v \in WorkersAt(x), FlushingFor(v, e) PROVE FALSE
  <2>1. v \in Worker /\ HwXcd[v] = x
    BY <1>12 DEF WorkersAt
  <2>2. ShareDone(v, x, e)
    BY <2>1, <1>12 DEF IInv, FlushOK, FlushedWell, FlushingFor
  <2>3. executed[<<p, k>>] = Launched
    BY <2>2, <1>5 DEF ShareDone
  <2> QED BY <2>3, <1>1, <1>5
<1> QED BY <1>1, <1>2, <1>3, <1>4, <1>5, <1>7, <1>9, <1>10, <1>11, <1>12 DEF d

\* The tiles a worker executes of the task it is at.
Given(w, p) == {p} \X TilesFor(w, p)

LEMMA DisjointUnion ==
    ASSUME NEW S, NEW T, IsFiniteSet(S), IsFiniteSet(T), S \cap T = {}
    PROVE  Cardinality(S \cup T) = Cardinality(S) + Cardinality(T)
<1>1. Cardinality(S \cap T) = 0
  BY FS_EmptySet
<1>2. Cardinality(S \cup T) = Cardinality(S) + Cardinality(T) - Cardinality(S \cap T)
  BY FS_Union
<1>3. Cardinality(S) \in Nat /\ Cardinality(T) \in Nat
  BY FS_CardinalityType
<1> QED BY <1>1, <1>2, <1>3

LEMMA CountRises ==
    ASSUME NEW n \in Nat, NEW a \in Nat, NEW r \in Nat, NEW g \in Nat, NEW l,
           l = n * (a - 1) + r
    PROVE  l + g = n * (a - 1) + (r + g) /\ (l + g = n * a <=> r + g = n)
<1>1. n * (a - 1) = n * a - n /\ n * a \in Nat /\ n * (a - 1) \in Int
  BY Times
<1> QED BY <1>1

\* The tiles are counted, and the worker goes on to the global counter exactly
\* when the whole share of its XCD has been executed.
LEMMA TaskCounted ==
    ASSUME Inv, IInv, NEW w \in Worker, CompleteTask(w),
           NEW p \in Task, CurrentTask(w).pos = p
    PROVE  /\ executed' = [t \in Tile |-> IF t \in Given(w, p) THEN Launched ELSE executed[t]]
           /\ Given(w, p) \subseteq Counted(HwXcd[w], EventOf(p)) /\ Given(w, p) # {}
           /\ \A t \in Given(w, p) : /\ t[1] = p /\ executed[t] = Launched - 1
                                     /\ Covers(w, done_task_pos[w] + 1, t)
           /\ Launched' = Launched
           /\ \A x \in Xcd, e \in Event :
                xcd_local_event_counters'[x][e] =
                  Cardinality(Counted(x, e)) * (Launched - 1) + Cardinality(Ran(x, e)')
           /\ \/ /\ wpc' = [wpc EXCEPT ![w] = "flush"]
                 /\ flush_amount' = [flush_amount EXCEPT ![w] =
                                       Cardinality(Feeders(HwXcd[w], EventOf(p)))]
                 /\ UNCHANGED done_task_pos
                 /\ \A t \in Counted(HwXcd[w], EventOf(p)) : executed'[t] = Launched
              \/ /\ FinishTask(w) /\ UNCHANGED flush_amount
                 /\ \E t \in Counted(HwXcd[w], EventOf(p)) : executed'[t] # Launched
           /\ UNCHANGED << worker_queues, sched_queues, all_event_counters,
                           xcd_event_num_tasks, placement, loadVars, schedVars >>
<1> DEFINE y == HwXcd[w]
           f == EventOf(p)
           K == TilesFor(w, p)
           G == Given(w, p)
           n == Cardinality(Counted(y, f))
           local == xcd_local_event_counters[y][f] + Cardinality(K)
<1>1. wpc[w] = "execute"
  BY DEF CompleteTask, AtTask
<1>2. /\ CurrentTask(w).iter = Launched /\ Launched >= 1 /\ Owner(p) = y
      /\ MyTiles(w, p) = K /\ K # {}
      /\ \A k \in K : /\ <<p, k>> \in Tile
                      /\ Covers(w, done_task_pos[w] + 1, <<p, k>>)
                      /\ executed[<<p, k>>] = Launched - 1
      /\ xcd_event_num_tasks[y][f] = n
      /\ IsFiniteSet(K) /\ Cardinality(K) \in Nat \ {0}
      /\ LocalIncrement(w, p) = Cardinality(K)
  BY <1>1, Executing
<1>3. /\ Launched \in Nat /\ executed \in [Tile -> Nat] /\ y \in Xcd /\ f \in Event
      /\ n \in Nat /\ n > 0 /\ IsFiniteSet(Counted(y, f))
      /\ xcd_local_event_counters \in [Xcd -> [Event -> Nat]]
  <2>1. executed \in [Tile -> Nat] /\ xcd_local_event_counters \in [Xcd -> [Event -> Nat]]
    BY DEF Inv, TypeOK
  <2>2. n \in Nat /\ n > 0 /\ IsFiniteSet(Counted(y, f))
    BY <1>2, ShareFacts
  <2> QED BY <2>1, <2>2, SchedFacts, Constants, TaskFacts
<1>4. /\ executed' = [t \in Tile |-> IF t[1] = p /\ t[2] \in K
                                     THEN executed[t] + 1 ELSE executed[t]]
      /\ xcd_local_event_counters' = [xcd_local_event_counters EXCEPT ![y][f] = local]
      /\ IF local = n * Launched
         THEN /\ flush_amount' = [flush_amount EXCEPT ![w] = FlushAmount(p, n)]
              /\ wpc' = [wpc EXCEPT ![w] = "flush"]
              /\ UNCHANGED done_task_pos
         ELSE FinishTask(w) /\ UNCHANGED flush_amount
      /\ UNCHANGED << worker_queues, sched_queues, all_event_counters,
                      xcd_event_num_tasks, placement, loadVars, schedVars >>
  <2>1. AllTasks[p].trigger_event = f
    BY DEF EventOf
  <2>2. n # 0 /\ Cardinality(K) > 0
    BY <1>2, <1>3
  <2> HIDE DEF f, n, K
  <2> QED BY <1>2, <2>1, <2>2 DEF CompleteTask
<1>5. /\ G \subseteq Counted(y, f) /\ G # {}
      /\ \A t \in G : /\ t[1] = p /\ t[2] \in K /\ t \in Tile /\ executed[t] = Launched - 1
                      /\ Covers(w, done_task_pos[w] + 1, t)
  <2>1. \A k \in K : <<p, k>> \in Counted(y, f)
    BY <1>2, TileFacts, ShareFacts
  <2>2. G = {p} \X K
    BY DEF Given
  <2> HIDE DEF G, K, y, f
  <2>3. ASSUME NEW t \in G
        PROVE  /\ t[1] = p /\ t[2] \in K /\ t \in Tile /\ executed[t] = Launched - 1
               /\ Covers(w, done_task_pos[w] + 1, t) /\ t \in Counted(y, f)
    <3>1. PICK k \in K : t = <<p, k>>
      BY <2>2
    <3>2. t[1] = p /\ t[2] = k
      BY <3>1
    <3> QED BY <1>2, <2>1, <3>1, <3>2
  <2>4. G # {}
    <3>1. PICK k \in K : TRUE
      BY <1>2
    <3>2. <<p, k>> \in G
      BY <2>2
    <3> QED BY <3>2
  <2> QED BY <2>3, <2>4
<1>6. \A t \in Tile : t \in G <=> t[1] = p /\ t[2] \in K
  BY TileFacts DEF Given
<1>7. executed' = [t \in Tile |-> IF t \in G THEN Launched ELSE executed[t]]
  <2>1. \A t \in G : executed[t] + 1 = Launched
    BY <1>3, <1>5
  <2> HIDE DEF G, K
  <2> QED BY <1>4, <1>6, <2>1
<1>8. Launched' = Launched
  BY <1>4 DEF Launched
<1>9. IsFiniteSet(G) /\ Cardinality(G) = Cardinality(K)
  <2> DEFINE g == [k \in K |-> <<p, k>>]
  <2>1. g \in Surjection(K, G) /\ g \in Injection(K, G)
    <3>1. \A t \in G : t[2] \in K /\ t = <<p, t[2]>>
      BY DEF Given
    <3>2. \A k \in K : <<p, k>> \in G
      BY DEF Given
    <3> HIDE DEF G, K
    <3> QED BY <3>1, <3>2 DEF Injection, IsInjective, Surjection
  <2> HIDE DEF G, K, g
  <2> QED BY <1>2, <2>1, FS_Surjection
<1>10. ASSUME NEW x \in Xcd, NEW e \in Event
       PROVE  Ran(x, e)' = IF x = y /\ e = f THEN Ran(x, e) \cup G ELSE Ran(x, e)
  <2>1. \A t \in G : t \in Counted(x, e) => x = y /\ e = f
    BY <1>2, <1>5 DEF Counted, Feeders, ShareOf
  <2>2. Counted(x, e) \subseteq Tile
    BY DEF Counted
  <2>3. Ran(x, e)' = {t \in Counted(x, e) : executed'[t] = Launched}
    BY <1>8 DEF Ran, Counted, Feeders, ShareOf
  <2>4. Ran(x, e) = {t \in Counted(x, e) : executed[t] = Launched}
    BY DEF Ran
  <2> HIDE DEF G, y, f
  <2> QED BY <1>5, <1>7, <2>1, <2>2, <2>3, <2>4
<1>11. /\ Cardinality(Ran(y, f) \cup G) = Cardinality(Ran(y, f)) + Cardinality(G)
       /\ Ran(y, f) \cup G \subseteq Counted(y, f)
       /\ Cardinality(Ran(y, f)) \in Nat
  <2>1. Ran(y, f) \cap G = {}
    <3>1. \A t \in Ran(y, f) : executed[t] = Launched
      BY DEF Ran
    <3> HIDE DEF G
    <3> QED BY <1>3, <1>5, <3>1
  <2>2. /\ IsFiniteSet(Ran(y, f)) /\ Ran(y, f) \subseteq Counted(y, f)
        /\ Cardinality(Ran(y, f)) \in Nat
    BY CountedFinite
  <2>3. IsFiniteSet(Ran(y, f)) /\ IsFiniteSet(G)
    BY <2>2, <1>9
  <2>4. Cardinality(Ran(y, f) \cup G) = Cardinality(Ran(y, f)) + Cardinality(G)
    <3> HIDE DEF G, y, f
    <3> QED BY <2>1, <2>3, DisjointUnion
  <2> QED BY <2>2, <2>4, <1>5
<1>12. xcd_local_event_counters[y][f] = n * (Launched - 1) + Cardinality(Ran(y, f))
  BY <1>3 DEF IInv, CountOK
<1>13. /\ local = n * (Launched - 1) + Cardinality(Ran(y, f) \cup G)
       /\ local = n * Launched <=> Cardinality(Ran(y, f) \cup G) = n
  <2>1. /\ Cardinality(Ran(y, f) \cup G) = Cardinality(Ran(y, f)) + Cardinality(K)
        /\ Cardinality(Ran(y, f)) \in Nat /\ Cardinality(K) \in Nat
    BY <1>2, <1>9, <1>11
  <2> DEFINE l == xcd_local_event_counters[y][f]
             g == Cardinality(K)
             r == Cardinality(Ran(y, f))
  <2>2. l = n * (Launched - 1) + r /\ local = l + g /\ r \in Nat /\ g \in Nat
    BY <1>12, <2>1
  <2>3. Cardinality(Ran(y, f) \cup G) = r + g
    BY <2>1
  <2> HIDE DEF G, K, n, y, f, local, l, g, r
  <2>4. l + g = n * (Launched - 1) + (r + g) /\ (l + g = n * Launched <=> r + g = n)
    BY <1>3, <2>2, CountRises
  <2> QED BY <2>2, <2>3, <2>4
<1>14. ASSUME NEW x \in Xcd, NEW e \in Event
       PROVE  xcd_local_event_counters'[x][e] =
                Cardinality(Counted(x, e)) * (Launched - 1) + Cardinality(Ran(x, e)')
  <2>1. CASE x = y /\ e = f
    <3>1. xcd_local_event_counters'[y][f] = local
      BY <1>3, <1>4
    <3> QED BY <1>10, <1>13, <2>1, <3>1
  <2>2. CASE ~(x = y /\ e = f)
    <3>1. xcd_local_event_counters'[x][e] = xcd_local_event_counters[x][e]
      BY <1>3, <1>4, <2>2
    <3> QED BY <1>10, <2>2, <3>1 DEF IInv, CountOK
  <2> QED BY <2>1, <2>2
<1>15. Cardinality(Ran(y, f) \cup G) = n <=> \A t \in Counted(y, f) : executed'[t] = Launched
  <2>1. Cardinality(Ran(y, f) \cup G) = n <=> Ran(y, f) \cup G = Counted(y, f)
    BY <1>3, <1>11, FS_Subset
  <2>2. Ran(y, f) \cup G = {t \in Counted(y, f) : executed'[t] = Launched}
    <3>1. Ran(y, f)' = Ran(y, f) \cup G
      BY <1>3, <1>10
    <3>2. Ran(y, f)' = {t \in Counted(y, f) : executed'[t] = Launched}
      BY <1>8 DEF Ran, Counted, Feeders, ShareOf
    <3> QED BY <3>1, <3>2
  <2> QED BY <2>1, <2>2
<1>16. FlushAmount(p, n) = Cardinality(Feeders(y, f))
  BY <1>2, FlushCounts
<1> QED
  <2>1. \/ /\ wpc' = [wpc EXCEPT ![w] = "flush"]
           /\ flush_amount' = [flush_amount EXCEPT ![w] = Cardinality(Feeders(y, f))]
           /\ UNCHANGED done_task_pos
           /\ \A t \in Counted(y, f) : executed'[t] = Launched
        \/ /\ FinishTask(w) /\ UNCHANGED flush_amount
           /\ \E t \in Counted(y, f) : executed'[t] # Launched
    BY <1>4, <1>13, <1>15, <1>16
  <2> QED BY <1>4, <1>5, <1>7, <1>8, <1>14, <2>1

\* The shares that have been flushed are the same: the share of the task was
\* not complete, and if it is now it is the worker's to flush.
LEMMA SameFlushedFeeders ==
    ASSUME Inv, IInv, NEW w \in Worker, CompleteTask(w),
           NEW p \in Task, CurrentTask(w).pos = p
    PROVE  /\ \A e : FlushedFeeders(e)' = FlushedFeeders(e)
           /\ \A v \in Worker : \A e :
                v # w => (FlushingFor(v, e)' <=> FlushingFor(v, e))
           /\ \A e : /\ ~FlushingFor(w, e)
                     /\ FlushingFor(w, e)' <=> e = EventOf(p) /\ wpc'[w] = "flush"
           /\ \A v \in Worker : /\ v # w => CurrentTask(v)' = CurrentTask(v) /\ wpc'[v] = wpc[v]
                                /\ BeginSignal(v)' <=> BeginSignal(v)
                                /\ EndSignal(v)' <=> EndSignal(v)
           /\ wpc'[w] = "flush" => CurrentTask(w)' = CurrentTask(w)
<1> DEFINE y == HwXcd[w]
           f == EventOf(p)
           G == Given(w, p)
<1>1. /\ executed' = [t \in Tile |-> IF t \in G THEN Launched ELSE executed[t]]
      /\ G \subseteq Counted(y, f) /\ G # {}
      /\ \A t \in G : /\ t[1] = p /\ executed[t] = Launched - 1
      /\ Launched' = Launched
      /\ \/ /\ wpc' = [wpc EXCEPT ![w] = "flush"]
            /\ UNCHANGED done_task_pos
            /\ \A t \in Counted(y, f) : executed'[t] = Launched
         \/ /\ FinishTask(w)
            /\ \E t \in Counted(y, f) : executed'[t] # Launched
      /\ UNCHANGED worker_queues
  BY TaskCounted
<1>2. /\ wpc[w] = "execute" /\ Launched \in Nat /\ w \in WorkersAt(y) /\ y \in Xcd
      /\ wpc \in [Worker -> {"map", "ready", "poll", "wait", "execute", "flush",
                             "signal", "exit"}]
      /\ Loaded(w)
  BY SchedFacts, XcdFacts DEF CompleteTask, AtTask, Inv, TypeOK
<1>3. \A v \in WorkersAt(y) : ~FlushingFor(v, f)
  BY <1>2, Executing
<1>4. /\ \A v \in Worker : v # w => CurrentTask(v)' = CurrentTask(v) /\ wpc'[v] = wpc[v]
      /\ wpc'[w] = "flush" => CurrentTask(w)' = CurrentTask(w) /\ CurrentTask(w).pos = p
      /\ wpc'[w] # "signal"
  <2>1. CASE wpc' = [wpc EXCEPT ![w] = "flush"] /\ UNCHANGED done_task_pos
    BY <1>1, <1>2, <2>1 DEF CurrentTask
  <2>2. CASE FinishTask(w)
    BY <1>1, <1>2, <2>2, FinishEffect
  <2> QED BY <1>1, <2>1, <2>2
<1>5. \A v \in Worker : \A e : v # w => (FlushingFor(v, e)' <=> FlushingFor(v, e))
  BY <1>4 DEF FlushingFor
<1>6. \A e : /\ ~FlushingFor(w, e)
             /\ FlushingFor(w, e)' <=> e = f /\ wpc'[w] = "flush"
  BY <1>2, <1>4 DEF FlushingFor
<1>7. \A v \in Worker : /\ BeginSignal(v)' <=> BeginSignal(v)
                        /\ EndSignal(v)' <=> EndSignal(v)
  BY <1>2, <1>4 DEF BeginSignal, EndSignal
<1>8. ASSUME NEW r \in Task PROVE Flushed(r)' <=> Flushed(r)
  <2>1. Owner(r) \in Xcd
    BY TaskFacts
  <2>2. CASE Owner(r) = y /\ EventOf(r) = f
    <3>1. ~Flushed(r)
      <4>1. PICK t \in G : TRUE
        BY <1>1
      <4>2. t \in Counted(y, f) /\ executed[t] # Launched
        BY <1>1, <1>2, <4>1
      <4> QED BY <2>2, <4>2 DEF Flushed
    <3>2. ~Flushed(r)'
      <4>1. Flushed(r)' => /\ \A t \in Counted(y, f) : executed'[t] = Launched'
                           /\ \A v \in WorkersAt(y) : ~FlushingFor(v, f)'
        BY <2>2 DEF Flushed, Counted, Feeders, ShareOf, WorkersAt
      <4>2. CASE wpc' = [wpc EXCEPT ![w] = "flush"]
        <5>1. FlushingFor(w, f)'
          BY <1>2, <1>6, <4>2
        <5> QED BY <4>1, <5>1, <1>2
      <4>3. CASE \E t \in Counted(y, f) : executed'[t] # Launched
        BY <4>1, <4>3, <1>1
      <4> QED BY <1>1, <4>2, <4>3
    <3> QED BY <3>1, <3>2
  <2>3. CASE ~(Owner(r) = y /\ EventOf(r) = f)
    <3>1. ASSUME NEW t \in Counted(Owner(r), EventOf(r)) PROVE executed'[t] = executed[t]
      <4>1. t \in Tile /\ Owner(t[1]) = Owner(r) /\ EventOf(t[1]) = EventOf(r)
        BY DEF Counted, Feeders, ShareOf
      <4>2. t \notin G
        <5>1. \A u \in G : Owner(u[1]) = y /\ EventOf(u[1]) = f
          BY <1>1 DEF Counted, Feeders, ShareOf
        <5> QED BY <2>3, <4>1, <5>1
      <4> QED BY <1>1, <4>1, <4>2
    <3>2. \A v \in WorkersAt(Owner(r)) :
             FlushingFor(v, EventOf(r))' <=> FlushingFor(v, EventOf(r))
      <4>1. ASSUME NEW v \in WorkersAt(Owner(r))
            PROVE  FlushingFor(v, EventOf(r))' <=> FlushingFor(v, EventOf(r))
        <5>1. v \in Worker /\ HwXcd[v] = Owner(r)
          BY DEF WorkersAt
        <5>2. CASE v # w
          BY <1>5, <5>1, <5>2
        <5>3. CASE v = w
          BY <1>6, <2>3, <5>1, <5>3
        <5> QED BY <5>2, <5>3
      <4> QED BY <4>1
    <3> QED BY <1>1, <3>1, <3>2 DEF Flushed
  <2> QED BY <2>2, <2>3
<1>9. \A e : FlushedFeeders(e)' = FlushedFeeders(e)
  BY <1>8 DEF FlushedFeeders
<1> QED BY <1>4, <1>5, <1>6, <1>7, <1>9

\* The tasks of the workers, and what the tiles are due for, in the same step.
LEMMA TaskTaken ==
    ASSUME Inv, IInv, NEW w \in Worker, CompleteTask(w),
           NEW p \in Task, CurrentTask(w).pos = p
    PROVE  /\ \A v \in Worker : /\ Queued(v)' \subseteq Queued(v)
                                /\ Todo(v)' \subseteq Todo(v) /\ BeginAt(v)' \subseteq BeginAt(v)
                                /\ \A i \in Queued(v)' : i \in BeginAt(v)' <=> i \in BeginAt(v)
           /\ done_task_pos[w] + 1 \notin Todo(w)'
           /\ \A v \in Worker : v # w => done_task_pos'[v] = done_task_pos[v]
           /\ wpc'[w] \in {"flush", "poll", "wait"}
<1> DEFINE d == done_task_pos[w] + 1
<1>1. /\ wpc[w] = "execute" /\ d \notin BeginAt(w) /\ Loaded(w)
  BY Executing DEF CompleteTask, AtTask
<1>2. /\ \/ wpc' = [wpc EXCEPT ![w] = "flush"] /\ UNCHANGED done_task_pos
         \/ FinishTask(w)
      /\ UNCHANGED worker_queues
  BY TaskCounted
<1>3. CASE wpc' = [wpc EXCEPT ![w] = "flush"] /\ UNCHANGED done_task_pos
  <2>1. wpc'[w] = "flush" /\ \A v \in Worker : v # w => wpc'[v] = wpc[v]
    BY <1>3 DEF Inv, TypeOK
  <2>2. \A v \in Worker : Queued(v)' = Queued(v)
    BY <1>2, <1>3 DEF Queued
  <2>3. \A v \in Worker : Todo(v)' \subseteq Todo(v) /\ BeginAt(v)' = BeginAt(v)
    BY <1>1, <1>2, <1>3, <2>1, <2>2 DEF Todo, BeginAt, Pos
  <2>4. d \notin Todo(w)'
    BY <1>3, <2>1 DEF Todo
  <2> QED BY <1>3, <2>1, <2>2, <2>3, <2>4
<1>4. CASE FinishTask(w)
  <2>1. /\ wpc'[w] \in {"poll", "wait"}
        /\ Queued(w)' = Queued(w) \ {d}
        /\ Todo(w)' = Todo(w) \ {d}
        /\ BeginAt(w)' = BeginAt(w) \ {d}
        /\ \A v \in Worker : v # w =>
                Queued(v)' = Queued(v) /\ Todo(v)' = Todo(v) /\ BeginAt(v)' = BeginAt(v)
    BY <1>1, <1>2, <1>4, FinishEffect
  <2>2. \A v \in Worker : v # w => done_task_pos'[v] = done_task_pos[v]
    BY <1>4 DEF FinishTask, Inv, TypeOK
  <2>3. d \notin Todo(w)'
    BY <2>1
  <2> HIDE DEF d
  <2>4. \A v \in Worker : /\ Queued(v)' \subseteq Queued(v)
                          /\ Todo(v)' \subseteq Todo(v) /\ BeginAt(v)' \subseteq BeginAt(v)
                          /\ \A i \in Queued(v)' : i \in BeginAt(v)' <=> i \in BeginAt(v)
    BY <2>1
  <2> QED BY <2>1, <2>2, <2>3, <2>4 DEF d
<1> QED BY <1>2, <1>3, <1>4

\* The tiles are executed in order: the dependent event of the task has its
\* count, so what triggers it has run, and with that what comes before.
LEMMA TilesStayInOrder ==
    ASSUME Inv, IInv, NEW w \in Worker, CompleteTask(w),
           NEW p \in Task, CurrentTask(w).pos = p
    PROVE  TilesInOrder'
<1>1. /\ executed' = [t \in Tile |-> IF t \in Given(w, p) THEN Launched ELSE executed[t]]
      /\ \A t \in Given(w, p) : t[1] = p
      /\ Launched' = Launched /\ all_event_counters' = all_event_counters
  BY TaskCounted
<1>2. TilesInOrder /\ Satisfied(w) /\ wpc[w] = "execute"
  BY OrderParts DEF IInv, CompleteTask, AtTask
<1>3. CurrentTask(w).iter = Launched
  BY <1>2, Executing
<1>4. ASSUME NEW a \in Ancestors[p] PROVE Complete(EventOf(a))
  <2> DEFINE D == AllTasks[p].dependent_event
  <2>1. D # NoEvent /\ Ancestors[p] = UNION {{r} \cup Ancestors[r] : r \in Producers(D)}
    BY <1>4, AncestorsAssumption
  <2>2. D \in Event /\ D > LaunchEvent
    <3>1. D \in Event /\ AllEvents[D].type = "EMPTY"
      BY <2>1, GraphAssumption, TaskFacts
    <3>2. D # TerminationEvent /\ D # LaunchEvent
      BY <3>1, GraphAssumption
    <3> QED BY <3>1, <3>2 DEF Event, TerminationEvent, LaunchEvent
  <2>3. Complete(D)
    BY <1>2, <1>3, <2>1 DEF Satisfied, DependencySatisfied, Complete, NumTriggers
  <2>4. PICK r \in Producers(D) : a = r \/ a \in Ancestors[r]
    BY <2>1
  <2>5. r \in Task /\ EventOf(r) = D
    BY <2>2, <2>4, EventFacts
  <2>6. CASE a = r
    BY <2>3, <2>5, <2>6
  <2>7. CASE a \in Ancestors[r]
    <3>1. Flushed(r)
      BY <2>2, <2>3, <2>5, CompleteFlushed DEF IInv
    <3>2. <<r, 0>> \in Tile /\ executed[<<r, 0>>] = Launched
      BY <2>5, <3>1, TileFacts, ShareFacts DEF Flushed
    <3> QED BY <1>2, <2>7, <3>2 DEF TilesInOrder
  <2> QED BY <2>4, <2>6, <2>7
<1>5. ASSUME NEW t \in Tile, executed'[t] = Launched
      PROVE  \A a \in Ancestors[t[1]] : Complete(EventOf(a))
  <2>1. CASE t \in Given(w, p)
    BY <1>1, <1>4, <2>1
  <2>2. CASE t \notin Given(w, p)
    BY <1>1, <1>2, <1>5, <2>2 DEF TilesInOrder
  <2> QED BY <2>1, <2>2
<1> QED BY <1>1, <1>5, SameComplete DEF TilesInOrder

LEMMA CompleteTaskSafe == ASSUME Inv, IInv, NEW w \in Worker, CompleteTask(w) PROVE IInv'
<1>1. wpc[w] = "execute" /\ Loaded(w)
  BY DEF CompleteTask, AtTask
<1>2. CurrentTask(w).pos \in Task \/ CurrentTask(w).pos = BeginTask
  BY <1>1, WorkerFacts
<1>3. CASE CurrentTask(w).pos = BeginTask
  BY <1>3, CompleteBeginSafe
<1>4. ASSUME NEW p \in Task, CurrentTask(w).pos = p PROVE IInv'
  <2> DEFINE y == HwXcd[w]
             f == EventOf(p)
             d == done_task_pos[w] + 1
  <2>1. /\ executed' = [t \in Tile |-> IF t \in Given(w, p) THEN Launched ELSE executed[t]]
        /\ \A t \in Given(w, p) : executed[t] = Launched - 1 /\ Covers(w, d, t)
        /\ Launched' = Launched
        /\ \A x \in Xcd, e \in Event :
             xcd_local_event_counters'[x][e] =
               Cardinality(Counted(x, e)) * (Launched - 1) + Cardinality(Ran(x, e)')
        /\ \/ /\ wpc' = [wpc EXCEPT ![w] = "flush"]
              /\ flush_amount' = [flush_amount EXCEPT ![w] = Cardinality(Feeders(y, f))]
              /\ \A t \in Counted(y, f) : executed'[t] = Launched
           \/ FinishTask(w) /\ UNCHANGED flush_amount
        /\ UNCHANGED << worker_queues, sched_queues, all_event_counters,
                        xcd_event_num_tasks, placement, loadVars, schedVars >>
    BY <1>4, TaskCounted
  <2>2. /\ \A e : FlushedFeeders(e)' = FlushedFeeders(e)
        /\ \A v \in Worker : \A e : v # w => (FlushingFor(v, e)' <=> FlushingFor(v, e))
        /\ \A e : FlushingFor(w, e)' <=> e = f /\ wpc'[w] = "flush"
        /\ \A v \in Worker : /\ v # w => CurrentTask(v)' = CurrentTask(v) /\ wpc'[v] = wpc[v]
                             /\ BeginSignal(v)' <=> BeginSignal(v)
                             /\ EndSignal(v)' <=> EndSignal(v)
        /\ wpc'[w] = "flush" => CurrentTask(w)' = CurrentTask(w)
    BY <1>4, SameFlushedFeeders
  <2>3. /\ \A v \in Worker : /\ Queued(v)' \subseteq Queued(v)
                             /\ Todo(v)' \subseteq Todo(v) /\ BeginAt(v)' \subseteq BeginAt(v)
                             /\ \A i \in Queued(v)' : i \in BeginAt(v)' <=> i \in BeginAt(v)
        /\ d \notin Todo(w)'
        /\ \A v \in Worker : v # w => done_task_pos'[v] = done_task_pos[v]
        /\ wpc'[w] \in {"flush", "poll", "wait"}
    BY <1>4, TaskTaken
  <2>4. Launched \in Nat /\ \A v \in WorkersAt(y) : ~FlushingFor(v, f)
    BY <1>1, <1>4, SchedFacts, Executing
  <2> HIDE DEF d
  <2>5. CountOK'
    <3>1. \A x, e : Counted(x, e)' = Counted(x, e)
      BY DEF Counted, Feeders, ShareOf
    <3>2. \A e \in Event : e > LaunchEvent =>
            all_event_counters'[e] =
              NumTriggers(e) * (Launched' - 1) + Cardinality(FlushedFeeders(e)')
      BY <2>1, <2>2 DEF IInv, CountOK
    <3> QED BY <2>1, <3>1, <3>2 DEF CountOK
  <2>6. FlushOK'
    <3>1. FlushedWell(w)'
      <4>1. CASE wpc'[w] = "flush"
        <5>1. /\ flush_amount'[w] = Cardinality(Feeders(y, f))
              /\ \A t \in Counted(y, f) : executed'[t] = Launched
          BY <2>1, <4>1, FinishEffect, <1>1 DEF Inv, TypeOK
        <5>2. \A v \in WorkersAt(y) : FlushingFor(v, f)' => v = w
          BY <2>2, <2>4 DEF WorkersAt
        <5>3. ShareDone(w, y, f)'
          BY <2>1, <5>1, <5>2 DEF ShareDone, Counted, Feeders, ShareOf, WorkersAt
        <5>4. CurrentTask(w)'.pos = p
          BY <2>2, <4>1, <1>4
        <5> QED BY <5>3, <5>4, TaskFacts DEF FlushedWell
      <4> QED BY <4>1 DEF FlushedWell
    <3>2. ASSUME NEW v \in Worker, v # w PROVE FlushedWell(v)'
      <4>1. wpc'[v] = wpc[v] /\ CurrentTask(v)' = CurrentTask(v) /\ flush_amount'[v] = flush_amount[v]
        BY <2>1, <2>2, <3>2 DEF Inv, TypeOK
      <4>2. ASSUME NEW e, ShareDone(v, HwXcd[v], e), FlushingFor(v, e)
            PROVE  ShareDone(v, HwXcd[v], e)'
        <5>1. \A t \in Counted(HwXcd[v], e) : executed'[t] = Launched
          BY <2>1, <4>2 DEF ShareDone, Counted
        <5>2. ~(HwXcd[v] = y /\ e = f)
          BY <2>4, <4>2 DEF WorkersAt
        <5>3. \A u \in WorkersAt(HwXcd[v]) : FlushingFor(u, e)' => FlushingFor(u, e)
          BY <2>2, <5>2 DEF WorkersAt
        <5> QED BY <2>1, <4>1, <4>2, <5>1, <5>3 DEF ShareDone, Counted, Feeders, ShareOf, WorkersAt
      <4> QED BY <4>1, <4>2 DEF FlushedWell, FlushOK, IInv, FlushingFor
    <3> QED BY <3>1, <3>2 DEF FlushOK
  <2>7. \A t \in Tile : Waiting(t)' <=> Waiting(t)
    <3>1. KeepsDispatch
      BY <2>1 DEF KeepsDispatch, schedVars, dispatchVars
    <3> QED BY <2>1, <3>1, SameWaiting
  <2>8. TileOK'
    <3>1. \A v \in Worker, t \in Tile : \A i \in Todo(v)' : Covers(v, i, t)' => Covers(v, i, t)
      BY <2>1, <2>3 DEF Covers, Pos, TilesFor, WorkersAt, RankIn
    <3>2. ASSUME NEW t \in Tile
          PROVE  /\ executed'[t] \in {Launched' - 1, Launched'}
                 /\ Waiting(t)' => executed'[t] = Launched' - 1
                 /\ \A v \in Worker : \A i \in Todo(v)' : Covers(v, i, t)' =>
                      /\ executed'[t] = Launched' - 1
                      /\ ~Waiting(t)'
                      /\ \A u \in Worker : \A j \in Todo(u)' : Covers(u, j, t)' => u = v /\ j = i
      <4>1. CASE t \in Given(w, p)
        <5>1. executed'[t] = Launched /\ Covers(w, d, t)
          BY <2>1, <4>1
        <5>2. d \in Todo(w)
          BY <5>1 DEF Covers
        <5>3. ~Waiting(t) /\ \A v \in Worker : \A i \in Todo(v) : Covers(v, i, t) => v = w /\ i = d
          BY <5>1, <5>2 DEF IInv, TileOK
        <5>4. \A v \in Worker : \A i \in Todo(v)' : ~Covers(v, i, t)'
          BY <2>3, <3>1, <5>3
        <5> QED BY <2>1, <2>7, <5>1, <5>3, <5>4
      <4>2. CASE t \notin Given(w, p)
        <5>1. executed'[t] = executed[t]
          BY <2>1, <4>2
        <5> QED BY <2>1, <2>3, <2>7, <3>1, <5>1 DEF IInv, TileOK
      <4> QED BY <4>1, <4>2
    <3> QED BY <3>2 DEF TileOK
  <2>9. QueueOK'
    BY <2>1, <2>3, QueueShrinks DEF IInv
  <2>10. LaunchOK'
    BY <2>1, <2>2, LaunchKept DEF IInv, schedVars, dispatchVars
  <2>11. SchedOK'
    BY <2>1, SchedKept DEF IInv, schedVars, dispatchVars
  <2>12. BootOK'
    BY <1>1, <2>1, <2>2, <2>3, QuietBoots DEF IInv, schedVars, dispatchVars
  <2>13. \A s \in Sched : EndAt(s)' = EndAt(s) /\ TermAt(s)' = TermAt(s)
    BY <2>1 DEF EndAt, Unhandled, TermAt, schedVars, eventVars
  <2>14. TokenOK'
    <3>1. ~EndSignal(w)
      BY <1>1 DEF EndSignal
    <3>2. \A v \in Worker : EndSignal(v)' => EndSignal(v) /\ CurrentTask(v)' = CurrentTask(v)
      BY <2>2, <3>1
    <3> QED BY <2>1, <2>3, <2>13, <3>2, TokenShrinks DEF IInv, schedVars, dispatchVars
  <2>15. TilesInOrder'
    BY <1>4, TilesStayInOrder
  <2>16. \A v \in Worker : Satisfied(v)'
    <3>1. Satisfied(w)'
      BY <2>3 DEF Satisfied
    <3> QED BY <2>1, <2>2, <3>1, SatisfiedKept, OrderParts DEF IInv
  <2>17. EndingOK'
    <3>1. LogsGrow
      BY <2>1 DEF LogsGrow
    <3>2. Ending => /\ Complete(EndEvent)'
                    /\ \A v \in Worker : ~EndSignal(v)' /\ BeginAt(v)' = {}
                    /\ \A s \in Sched : EndAt(s)' \subseteq EndAt(s)
      BY <2>1, <2>2, <2>3, <2>13, SameComplete DEF IInv, EndingOK
    <3> QED BY <1>1, <2>1, <2>2, <2>3, <2>13, <3>1, <3>2, WorkerEnding DEF loadVars
  <2> QED BY <2>5, <2>6, <2>8, <2>9, <2>10, <2>11, <2>12, <2>14, <2>15, <2>16, <2>17, AllParts
<1> QED BY <1>2, <1>3, <1>4
-----------------------------------------------------------------------------
(* The share of an XCD is added to the global counter.                      *)

\* Counters that only grow keep what has been waited for.
LEMMA CountersGrow ==
    ASSUME \A e \in Event : all_event_counters'[e] >= all_event_counters[e],
           \A e \in Event : all_event_counters[e] \in Nat /\ all_event_counters'[e] \in Nat,
           NEW w \in Worker, Satisfied(w), wpc'[w] = "execute" => wpc[w] = "execute",
           wpc'[w] = "execute" => CurrentTask(w)' = CurrentTask(w),
           wpc[w] = "execute" => CurrentTask(w).pos \in Position /\ CurrentTask(w).iter \in Nat
    PROVE  Satisfied(w)'
<1> SUFFICES ASSUME wpc'[w] = "execute",
                    AllTasks[CurrentTask(w).pos].dependent_event # NoEvent
             PROVE  all_event_counters'[AllTasks[CurrentTask(w).pos].dependent_event]
                      >= AllEvents[AllTasks[CurrentTask(w).pos].dependent_event].num_triggers
                           * CurrentTask(w).iter
  BY DEF Satisfied, DependencySatisfied
<1> DEFINE D == AllTasks[CurrentTask(w).pos].dependent_event
           m == AllEvents[D].num_triggers * CurrentTask(w).iter
<1>1. all_event_counters[D] >= m
  BY DEF Satisfied, DependencySatisfied
<1>2. D \in Event
  BY GraphAssumption
<1>3. m \in Nat
  <2>1. AllEvents[D].num_triggers \in Nat /\ CurrentTask(w).iter \in Nat
    BY <1>2, GraphAssumption
  <2> QED BY <2>1, Times
<1> HIDE DEF D, m
<1>4. all_event_counters'[D] >= m
  BY <1>1, <1>2, <1>3
<1> QED BY <1>4 DEF D, m

\* While the share of an event is being flushed the graph is still running.
LEMMA FlushingMeansRunning ==
    ASSUME Inv, IInv, NEW w \in Worker, wpc[w] = "flush",
           NEW p \in Task, CurrentTask(w).pos = p
    PROVE  /\ ~Complete(EndEvent) /\ ~Ending
           /\ \A v \in Worker : ~EndSignal(v) /\ BeginAt(v) = {}
           /\ \A s \in Sched : EndAt(s) = {}
           /\ Loaded(w) /\ CurrentTask(w).iter = Launched /\ Owner(p) = HwXcd[w]
           /\ ShareDone(w, HwXcd[w], EventOf(p)) /\ FlushingFor(w, EventOf(p))
<1>1. ~Complete(EndEvent)
  BY RunComplete, TaskFacts DEF IInv
<1>2. /\ ~Ending
      /\ \A v \in Worker : ~EndSignal(v) /\ BeginAt(v) = {}
      /\ \A s \in Sched : EndAt(s) = {}
  BY <1>1 DEF IInv, EndingOK, TokenOK
<1>3. /\ Loaded(w) /\ done_task_pos[w] + 1 \in Queued(w)
      /\ done_task_pos[w] + 1 \in 1 .. Len(worker_queues[w])
      /\ CurrentTask(w) = worker_queues[w][done_task_pos[w] + 1]
      /\ Pos(w, done_task_pos[w] + 1) = p
  BY WorkerFacts
<1>4. CurrentTask(w).iter = Launched /\ Owner(p) = HwXcd[w]
  BY <1>3 DEF IInv, QueueOK
<1>5. ShareDone(w, HwXcd[w], EventOf(p)) /\ FlushingFor(w, EventOf(p))
  BY DEF IInv, FlushOK, FlushedWell, FlushingFor
<1> QED BY <1>1, <1>2, <1>3, <1>4, <1>5

\* What the step does to the workers: the task is over, or its event is to be
\* signalled.
LEMMA FlushedHands ==
    ASSUME Inv, NEW w \in Worker, wpc[w] = "flush", UNCHANGED worker_queues,
           \/ wpc' = [wpc EXCEPT ![w] = "signal"] /\ UNCHANGED done_task_pos
           \/ FinishTask(w)
    PROVE  /\ \A v \in Worker : v # w =>
                /\ wpc'[v] = wpc[v] /\ CurrentTask(v)' = CurrentTask(v)
                /\ done_task_pos'[v] = done_task_pos[v]
                /\ (EndSignal(v)' <=> EndSignal(v)) /\ (BeginSignal(v)' <=> BeginSignal(v))
                /\ \A e : FlushingFor(v, e)' <=> FlushingFor(v, e)
           /\ wpc'[w] \in {"signal", "poll", "wait"} /\ \A e : ~FlushingFor(w, e)'
           /\ wpc'[w] = "signal" => CurrentTask(w)' = CurrentTask(w)
           /\ \A v \in Worker : /\ Queued(v)' \subseteq Queued(v)
                                /\ Todo(v)' \subseteq Todo(v) /\ BeginAt(v)' \subseteq BeginAt(v)
           /\ done_task_pos[w] + 1 \notin BeginAt(w)'
<1> DEFINE d == done_task_pos[w] + 1
<1>1. Loaded(w)
  BY WorkerFacts
<1>2. CASE wpc' = [wpc EXCEPT ![w] = "signal"] /\ UNCHANGED done_task_pos
  <2>1. wpc'[w] = "signal" /\ \A v \in Worker : v # w => wpc'[v] = wpc[v]
    BY <1>2 DEF Inv, TypeOK
  <2>2. \A v \in Worker : CurrentTask(v)' = CurrentTask(v) /\ Queued(v)' = Queued(v)
    BY <1>2 DEF CurrentTask, Queued
  <2>3. \A v \in Worker : Todo(v)' \subseteq Todo(v) /\ BeginAt(v)' \subseteq BeginAt(v)
    BY <1>2, <2>1, <2>2 DEF Todo, BeginAt, Pos
  <2>4. d \notin BeginAt(w)'
    BY <1>2, <2>1 DEF BeginAt
  <2> QED BY <1>2, <2>1, <2>2, <2>3, <2>4 DEF FlushingFor, EndSignal, BeginSignal
<1>3. CASE FinishTask(w)
  <2>1. /\ wpc'[w] \in {"poll", "wait"}
        /\ \A v \in Worker : v # w => wpc'[v] = wpc[v]
        /\ Queued(w)' = Queued(w) \ {d}
        /\ Todo(w)' = Todo(w) \ {d}
        /\ BeginAt(w)' = BeginAt(w) \ {d}
        /\ \A e : ~FlushingFor(w, e)'
        /\ \A v \in Worker : v # w =>
                /\ CurrentTask(v)' = CurrentTask(v)
                /\ Queued(v)' = Queued(v) /\ Todo(v)' = Todo(v) /\ BeginAt(v)' = BeginAt(v)
                /\ (EndSignal(v)' <=> EndSignal(v)) /\ (BeginSignal(v)' <=> BeginSignal(v))
                /\ \A e : FlushingFor(v, e)' <=> FlushingFor(v, e)
    BY <1>1, <1>3, FinishEffect
  <2>2. \A v \in Worker : v # w => done_task_pos'[v] = done_task_pos[v]
    BY <1>3 DEF FinishTask, Inv, TypeOK
  <2>3. d \notin BeginAt(w)'
    BY <2>1
  <2> HIDE DEF d
  <2>4. \A v \in Worker : /\ Queued(v)' \subseteq Queued(v)
                          /\ Todo(v)' \subseteq Todo(v) /\ BeginAt(v)' \subseteq BeginAt(v)
    BY <2>1
  <2> QED BY <2>1, <2>2, <2>3, <2>4 DEF d
<1> QED BY <1>2, <1>3

\* The tasks of the share are counted with the flush, and no others.
LEMMA ShareFlushed ==
    ASSUME Inv, IInv, NEW w \in Worker, wpc[w] = "flush",
           NEW p \in Task, CurrentTask(w).pos = p,
           \A v \in Worker : v # w => \A e : FlushingFor(v, e)' <=> FlushingFor(v, e),
           \A e : ~FlushingFor(w, e)', UNCHANGED executed, Launched' = Launched
    PROVE  /\ FlushedFeeders(EventOf(p))'
                = FlushedFeeders(EventOf(p)) \cup Feeders(HwXcd[w], EventOf(p))
           /\ Cardinality(FlushedFeeders(EventOf(p))')
                = Cardinality(FlushedFeeders(EventOf(p)))
                    + Cardinality(Feeders(HwXcd[w], EventOf(p)))
           /\ \A e : e # EventOf(p) => FlushedFeeders(e)' = FlushedFeeders(e)
<1> DEFINE y == HwXcd[w]
           f == EventOf(p)
<1>1. /\ ShareDone(w, y, f) /\ FlushingFor(w, f) /\ w \in WorkersAt(y)
      /\ f \in Event /\ f > LaunchEvent
  BY FlushingMeansRunning, XcdFacts, TaskFacts
<1>2. ASSUME NEW r \in Task, Owner(r) = y, EventOf(r) = f PROVE ~Flushed(r) /\ Flushed(r)'
  <2>1. ~Flushed(r)
    BY <1>1, <1>2 DEF Flushed
  <2>2. \A v \in WorkersAt(y) : ~FlushingFor(v, f)'
    BY <1>1 DEF ShareDone, WorkersAt
  <2>3. \A t \in Counted(y, f) : executed[t] = Launched
    BY <1>1 DEF ShareDone
  <2> QED BY <1>2, <2>1, <2>2, <2>3 DEF Flushed, Counted, Feeders, ShareOf, WorkersAt
<1>3. ASSUME NEW r \in Task, ~(Owner(r) = y /\ EventOf(r) = f) PROVE Flushed(r)' <=> Flushed(r)
  <2>1. ASSUME NEW v \in WorkersAt(Owner(r))
        PROVE  FlushingFor(v, EventOf(r))' <=> FlushingFor(v, EventOf(r))
    <3>1. v \in Worker /\ HwXcd[v] = Owner(r)
      BY DEF WorkersAt
    <3>2. CASE v # w
      BY <3>1, <3>2
    <3>3. CASE v = w
      <4>1. EventOf(r) # f
        BY <1>3, <3>1, <3>3
      <4> QED BY <3>3, <4>1 DEF FlushingFor
    <3> QED BY <3>2, <3>3
  <2> QED BY <2>1 DEF Flushed
<1>4. \A r \in Feeders(y, f) : r \in Task /\ Owner(r) = y /\ EventOf(r) = f
  BY DEF Feeders, ShareOf
<1>5. FlushedFeeders(f)' = FlushedFeeders(f) \cup Feeders(y, f)
  <2>1. \A r \in Task : r \in Feeders(y, f) <=> Owner(r) = y /\ EventOf(r) = f
    BY DEF Feeders, ShareOf
  <2> QED BY <1>2, <1>3, <1>4, <2>1 DEF FlushedFeeders
<1>6. FlushedFeeders(f) \cap Feeders(y, f) = {}
  BY <1>2, <1>4 DEF FlushedFeeders
<1>7. \A e : e # f => FlushedFeeders(e)' = FlushedFeeders(e)
  BY <1>3 DEF FlushedFeeders
<1>8. IsFiniteSet(FlushedFeeders(f)) /\ IsFiniteSet(Feeders(y, f))
  BY <1>1, CountedFinite, ShareFacts
<1>9. Cardinality(FlushedFeeders(f)')
        = Cardinality(FlushedFeeders(f)) + Cardinality(Feeders(y, f))
  BY <1>5, <1>6, <1>8, DisjointUnion
<1> QED BY <1>5, <1>7, <1>9

LEMMA FlushTaskSafe ==
    ASSUME Inv, IInv, Inv', NEW w \in Worker, FlushToGlobal(w),
           NEW p \in Task, CurrentTask(w).pos = p
    PROVE  IInv'
<1> DEFINE y == HwXcd[w]
           f == EventOf(p)
           c == all_event_counters[f] + flush_amount[w]
<1>1. wpc[w] = "flush" /\ f \in Event /\ f > LaunchEvent /\ f # LaunchEvent
  BY TaskFacts DEF FlushToGlobal, AtTask
<1>2. /\ ~Complete(EndEvent) /\ ~Ending
      /\ \A v \in Worker : ~EndSignal(v) /\ BeginAt(v) = {}
      /\ \A s \in Sched : EndAt(s) = {}
      /\ Loaded(w) /\ CurrentTask(w).iter = Launched
      /\ ShareDone(w, y, f) /\ FlushingFor(w, f)
  BY <1>1, FlushingMeansRunning
<1>3. /\ all_event_counters' = [all_event_counters EXCEPT ![f] = c]
      /\ flush_amount' = [flush_amount EXCEPT ![w] = 0]
      /\ \/ /\ c = NumTriggers(f) * Launched /\ AllEvents[f].type # "EMPTY"
            /\ wpc' = [wpc EXCEPT ![w] = "signal"] /\ UNCHANGED done_task_pos
         \/ FinishTask(w)
      /\ UNCHANGED << worker_queues, sched_queues, xcd_local_event_counters,
                      xcd_event_num_tasks, placement, loadVars, executed, schedVars >>
  <2>1. AllTasks[p].trigger_event = f /\ FiresAt(f, Launched) = NumTriggers(f) * Launched
    BY DEF EventOf, FiresAt, NumTriggers
  <2> HIDE DEF f
  <2> QED BY <1>2, <2>1 DEF FlushToGlobal
<1>4. /\ \A v \in Worker : v # w =>
           /\ wpc'[v] = wpc[v] /\ CurrentTask(v)' = CurrentTask(v)
           /\ done_task_pos'[v] = done_task_pos[v]
           /\ (EndSignal(v)' <=> EndSignal(v)) /\ (BeginSignal(v)' <=> BeginSignal(v))
           /\ \A e : FlushingFor(v, e)' <=> FlushingFor(v, e)
      /\ wpc'[w] \in {"signal", "poll", "wait"} /\ \A e : ~FlushingFor(w, e)'
      /\ wpc'[w] = "signal" => CurrentTask(w)' = CurrentTask(w)
      /\ \A v \in Worker : /\ Queued(v)' \subseteq Queued(v)
                           /\ Todo(v)' \subseteq Todo(v) /\ BeginAt(v)' \subseteq BeginAt(v)
  BY <1>1, <1>3, FlushedHands
<1>5. /\ all_event_counters'[f] = c /\ flush_amount[w] = Cardinality(Feeders(y, f))
      /\ \A e \in Event : e # f => all_event_counters'[e] = all_event_counters[e]
      /\ \A v \in Worker : v # w => flush_amount'[v] = flush_amount[v]
      /\ all_event_counters'[LaunchEvent] = all_event_counters[LaunchEvent]
      /\ Launched' = Launched /\ Launched \in Nat
      /\ \A e \in Event : /\ all_event_counters[e] \in Nat /\ all_event_counters'[e] \in Nat
                          /\ all_event_counters'[e] >= all_event_counters[e]
  <2>1. /\ all_event_counters \in [Event -> Nat] /\ flush_amount \in [Worker -> Nat]
        /\ LaunchEvent \in Event /\ Launched \in Nat
    BY Constants, SchedFacts DEF Inv, TypeOK
  <2>2. flush_amount[w] = Cardinality(Feeders(y, f))
    BY <1>2 DEF ShareDone
  <2> HIDE DEF f
  <2>3. /\ all_event_counters'[f] = c
        /\ \A e \in Event : e # f => all_event_counters'[e] = all_event_counters[e]
    BY <1>1, <1>3, <2>1
  <2> QED BY <1>1, <1>3, <2>1, <2>2, <2>3 DEF Launched
<1>6. /\ Cardinality(FlushedFeeders(f)')
           = Cardinality(FlushedFeeders(f)) + Cardinality(Feeders(y, f))
      /\ \A e : e # f => FlushedFeeders(e)' = FlushedFeeders(e)
  BY <1>1, <1>3, <1>4, <1>5, ShareFlushed
<1>7. CountOK'
  <2>1. \A x, e : Counted(x, e)' = Counted(x, e) /\ Ran(x, e)' = Ran(x, e)
    BY <1>3, <1>5 DEF Counted, Feeders, ShareOf, Ran
  <2>2. ASSUME NEW e \in Event, e > LaunchEvent
        PROVE  all_event_counters'[e]
                 = NumTriggers(e) * (Launched' - 1) + Cardinality(FlushedFeeders(e)')
    <3> DEFINE m == NumTriggers(e) * (Launched - 1)
    <3>1. all_event_counters[e] = m + Cardinality(FlushedFeeders(e))
      BY <2>2 DEF IInv, CountOK
    <3>2. CASE e # f
      BY <1>5, <1>6, <2>2, <3>1, <3>2
    <3>3. CASE e = f
      <4>1. /\ m \in Int /\ Cardinality(FlushedFeeders(f)) \in Nat
            /\ Cardinality(Feeders(y, f)) \in Nat
        BY <1>1, <1>5, <3>3, EventFacts, CountedFinite, ShareFacts, Times
      <4>2. all_event_counters'[f]
              = m + (Cardinality(FlushedFeeders(f)) + Cardinality(Feeders(y, f)))
        <5> HIDE DEF m, f, y
        <5> QED BY <1>5, <3>1, <3>3, <4>1
      <4> QED BY <1>5, <1>6, <3>3, <4>2
    <3> QED BY <3>2, <3>3
  <2>3. \A x \in Xcd, e \in Event :
         xcd_local_event_counters'[x][e] =
           Cardinality(Counted(x, e)') * (Launched' - 1) + Cardinality(Ran(x, e)')
    BY <1>3, <1>5, <2>1 DEF IInv, CountOK
  <2> QED BY <2>2, <2>3 DEF CountOK
<1>8. FlushOK'
  <2>1. FlushedWell(w)'
    BY <1>4 DEF FlushedWell
  <2>2. ASSUME NEW v \in Worker, v # w PROVE FlushedWell(v)'
    <3>1. ASSUME NEW e, ShareDone(v, HwXcd[v], e) PROVE ShareDone(v, HwXcd[v], e)'
      <4>1. \A u \in WorkersAt(HwXcd[v]) : FlushingFor(u, e)' => FlushingFor(u, e)
        BY <1>4 DEF WorkersAt
      <4> QED BY <1>3, <1>5, <2>2, <3>1, <4>1 DEF ShareDone, Counted, Feeders, ShareOf, WorkersAt
    <3>2. wpc'[v] = wpc[v] /\ CurrentTask(v)' = CurrentTask(v) /\ flush_amount'[v] = flush_amount[v]
      BY <1>4, <1>5, <2>2
    <3> QED BY <3>1, <3>2 DEF FlushedWell, FlushOK, IInv
  <2> QED BY <2>1, <2>2 DEF FlushOK
<1>9. QueueOK'
  BY <1>2, <1>3, <1>4, <1>5, QueueShrinks DEF IInv
<1>10. TileOK'
  <2>1. KeepsDispatch
    BY <1>3 DEF KeepsDispatch, schedVars, dispatchVars
  <2>2. \A t \in Tile : Waiting(t)' <=> Waiting(t)
    BY <1>5, <2>1, SameWaiting
  <2> QED BY <1>3, <1>4, <1>5, <2>2, TileShrinks DEF IInv
<1>11. LaunchOK'
  <2>1. ~BeginSignal(w) /\ ~BeginSignal(w)'
    BY <1>1, <1>4, TaskFacts DEF BeginSignal
  <2> QED BY <1>3, <1>4, <1>5, <2>1, LaunchKept DEF IInv, schedVars, dispatchVars
<1>12. SchedOK'
  BY <1>3, SchedKept DEF IInv, schedVars, dispatchVars
<1>13. BootOK'
  BY <1>1, <1>3, <1>4, QuietBoots DEF IInv, schedVars, dispatchVars
<1>14. \A s \in Sched : EndAt(s)' = EndAt(s) /\ TermAt(s)' = TermAt(s)
  BY <1>3 DEF EndAt, Unhandled, TermAt, schedVars, eventVars
<1>15. TokenOK'
  <2>1. \A v \in Worker : BeginAt(v)' = {}
    BY <1>2, <1>4
  <2>2. \A s \in Sched : EndAt(s)' = {}
    BY <1>2, <1>14
  <2>3. \A v \in Worker : EndSignal(v)' => v = w
    BY <1>2, <1>4
  <2>4. EndSignal(w)' => EventOf(CurrentTask(w)'.pos) = EndEvent /\ Complete(EndEvent)'
    <3>1. CASE wpc'[w] = "signal"
      <4>1. c = NumTriggers(f) * Launched /\ AllEvents[f].type # "EMPTY"
        <5>1. ~FinishTask(w)
          BY <1>2, <1>3, <3>1, FinishEffect
        <5> QED BY <1>3, <5>1
      <4>2. f = EndEvent
        BY <4>1, EventFacts
      <4>3. Complete(EndEvent)'
        <5>1. all_event_counters'[f] = NumTriggers(f) * Launched
          BY <1>5, <4>1
        <5>2. NumTriggers(f) * Launched \in Nat
          BY <1>1, <1>5, EventFacts, Times
        <5> QED BY <1>5, <4>2, <5>1, <5>2 DEF Complete
      <4> QED BY <1>4, <3>1, <4>2, <4>3
    <3> QED BY <3>1 DEF EndSignal
  <2> QED BY <2>1, <2>2, <2>3, <2>4 DEF TokenOK
<1>16. TilesInOrder'
  <2>1. \A e \in Event : Complete(e) => Complete(e)'
    <3>1. ASSUME NEW e \in Event, Complete(e) PROVE Complete(e)'
      <4> DEFINE m == NumTriggers(e) * Launched
      <4>1. m \in Nat /\ all_event_counters[e] >= m
        BY <1>5, <3>1, EventFacts, Times DEF Complete
      <4> HIDE DEF m
      <4>2. all_event_counters'[e] >= m
        BY <1>5, <4>1
      <4> QED BY <1>5, <4>2 DEF Complete, m
    <3> QED BY <3>1
  <2>2. \A t \in Tile : \A a \in Ancestors[t[1]] : EventOf(a) \in Event
    <3>1. \A t \in Tile : t[1] \in Task
      BY TileFacts
    <3> QED BY <3>1, AncestorsAssumption, TaskFacts
  <2>3. TilesInOrder
    BY OrderParts DEF IInv
  <2> QED BY <1>3, <1>5, <2>1, <2>2, <2>3 DEF TilesInOrder
<1>17. \A v \in Worker : Satisfied(v)'
  <2>1. Satisfied(w)'
    BY <1>4 DEF Satisfied
  <2>2. ASSUME NEW v \in Worker, v # w PROVE Satisfied(v)'
    <3>1. wpc[v] = "execute" => CurrentTask(v).pos \in Position /\ CurrentTask(v).iter \in Nat
      BY WorkerFacts
    <3>2. Satisfied(v)
      BY OrderParts DEF IInv
    <3> QED BY <1>4, <1>5, <2>2, <3>1, <3>2, CountersGrow
  <2> QED BY <2>1, <2>2
<1>18. EndingOK'
  <2>1. LogsGrow
    BY <1>3 DEF LogsGrow
  <2> QED BY <1>1, <1>2, <1>3, <1>4, <1>14, <2>1, WorkerEnding DEF loadVars
<1> QED BY <1>7, <1>8, <1>9, <1>10, <1>11, <1>12, <1>13, <1>15, <1>16, <1>17, <1>18, AllParts

\* With the last event complete, the only task left is the BEGIN task.
LEMMA OnlyBegin ==
    ASSUME Inv, IInv, NEW w \in Worker, wpc[w] = "flush", CurrentTask(w).pos = BeginTask
    PROVE  /\ Complete(EndEvent) /\ ~Ending /\ Loaded(w)
           /\ done_task_pos[w] + 1 \in BeginAt(w)
           /\ CurrentTask(w).iter = Launched + 1 /\ flush_amount[w] = 1
           /\ \A v \in Worker : \A i \in BeginAt(v) : v = w /\ i = done_task_pos[w] + 1
           /\ \A v \in Worker : /\ ~EndSignal(v) /\ ~BeginSignal(v)
                                /\ v # w => wpc[v] \notin {"flush", "execute"}
                                /\ \A i \in Queued(v) :
                                     /\ Pos(v, i) \notin Task
                                     /\ Pos(v, i) = BeginTask => v = w /\ i = done_task_pos[w] + 1
           /\ \A s \in Sched : EndAt(s) = {}
<1> DEFINE d == done_task_pos[w] + 1
<1>1. /\ Loaded(w) /\ d \in Queued(w) /\ Pos(w, d) = BeginTask
      /\ CurrentTask(w) = worker_queues[w][d]
  BY WorkerFacts
<1>2. d \in BeginAt(w)
  BY <1>1 DEF BeginAt
<1>3. CurrentTask(w).iter = Launched + 1 /\ flush_amount[w] = 1
  BY <1>1, <1>2 DEF IInv, QueueOK, FlushOK, FlushedWell
<1> HIDE DEF d
<1>4. /\ Complete(EndEvent)
      /\ \A v \in Worker : \A i \in BeginAt(v) : v = w /\ i = d
      /\ \A v \in Worker : ~EndSignal(v)
      /\ \A s \in Sched : EndAt(s) = {}
      /\ ~Ending
  BY <1>2 DEF IInv, TokenOK, EndingOK
<1>5. /\ \A v \in Worker : \A i \in Todo(v) : Pos(v, i) \notin Task
      /\ \A v \in Worker : wpc[v] = "flush" => CurrentTask(v).pos = BeginTask
      /\ \A v \in Worker : ~BeginSignal(v)
  BY <1>4, RunComplete DEF IInv
<1>6. ASSUME NEW v \in Worker, NEW i \in Queued(v)
      PROVE  /\ Pos(v, i) \notin Task
             /\ Pos(v, i) = BeginTask => v = w /\ i = d
  <2>1. CASE i = done_task_pos[v] + 1
    <3>1. Loaded(v) => CurrentTask(v).pos = Pos(v, i)
      BY <2>1, WorkerFacts
    <3>2. wpc[v] \in {"flush", "signal"} => Loaded(v)
      BY WorkerFacts
    <3>3. CASE wpc[v] = "flush"
      <4>1. Pos(v, i) = BeginTask /\ i \in BeginAt(v)
        BY <1>5, <2>1, <3>1, <3>2, <3>3 DEF BeginAt
      <4> QED BY <1>4, <4>1, TaskFacts
    <3>4. CASE wpc[v] = "signal"
      BY <1>4, <1>5, <3>1, <3>2, <3>4 DEF EndSignal, BeginSignal
    <3>5. CASE wpc[v] \notin {"flush", "signal"}
      <4>1. i \in Todo(v) /\ (Pos(v, i) = BeginTask => i \in BeginAt(v))
        BY <3>5 DEF Todo, BeginAt
      <4> QED BY <1>4, <1>5, <4>1
    <3> QED BY <3>3, <3>4, <3>5
  <2>2. CASE i # done_task_pos[v] + 1
    <3>1. i \in Todo(v) /\ (Pos(v, i) = BeginTask => i \in BeginAt(v))
      BY <2>2 DEF Todo, BeginAt
    <3> QED BY <1>4, <1>5, <3>1
  <2> QED BY <2>1, <2>2
<1>7. ASSUME NEW v \in Worker, v # w PROVE wpc[v] \notin {"flush", "execute"}
  <2> SUFFICES ASSUME wpc[v] \in {"flush", "execute"} PROVE FALSE
    OBVIOUS
  <2>1. /\ done_task_pos[v] + 1 \in Queued(v)
        /\ CurrentTask(v).pos = Pos(v, done_task_pos[v] + 1)
        /\ CurrentTask(v).pos \in Task \/ CurrentTask(v).pos = BeginTask
    BY WorkerFacts
  <2> QED BY <1>6, <1>7, <2>1
<1> QED BY <1>1, <1>2, <1>3, <1>4, <1>5, <1>6, <1>7 DEF d

LEMMA NextCount ==
    ASSUME NEW n \in Nat, NEW a \in Nat, NEW l, l = n * (a - 1) + n
    PROVE  l = n * ((a + 1) - 1) + 0
<1>1. n * (a - 1) = n * a - n /\ n * a \in Nat /\ (a + 1) - 1 = a
  BY Times
<1> QED BY <1>1

\* The BEGIN task is counted by the launch event.
LEMMA LaunchCounted ==
    ASSUME Inv, IInv, NEW w \in Worker, FlushToGlobal(w), CurrentTask(w).pos = BeginTask
    PROVE  /\ Launched' = Launched + 1
           /\ all_event_counters' = [all_event_counters EXCEPT ![LaunchEvent] = Launched + 1]
           /\ flush_amount' = [flush_amount EXCEPT ![w] = 0]
           /\ wpc' = [wpc EXCEPT ![w] = "signal"] /\ UNCHANGED done_task_pos
           /\ UNCHANGED << worker_queues, sched_queues, xcd_local_event_counters,
                           xcd_event_num_tasks, placement, loadVars, executed, schedVars >>
           /\ \A v \in Worker : v # w =>
                /\ wpc'[v] = wpc[v] /\ CurrentTask(v)' = CurrentTask(v)
                /\ done_task_pos'[v] = done_task_pos[v]
                /\ (EndSignal(v)' <=> EndSignal(v)) /\ (BeginSignal(v)' <=> BeginSignal(v))
                /\ \A e : FlushingFor(v, e)' <=> FlushingFor(v, e)
           /\ wpc'[w] = "signal" /\ CurrentTask(w)' = CurrentTask(w)
           /\ \A v \in Worker : Todo(v)' \subseteq Todo(v) /\ BeginAt(v)' = {}
           /\ \A e \in Event : e # LaunchEvent => all_event_counters'[e] = all_event_counters[e]
           /\ \A e \in Event : /\ all_event_counters[e] \in Nat
                               /\ all_event_counters'[e] \in Nat
                               /\ all_event_counters'[e] >= all_event_counters[e]
<1> DEFINE d == done_task_pos[w] + 1
<1>1. wpc[w] = "flush"
  BY DEF FlushToGlobal, AtTask
<1>2. /\ Complete(EndEvent) /\ ~Ending /\ Loaded(w)
      /\ d \in BeginAt(w)
      /\ CurrentTask(w).iter = Launched + 1 /\ flush_amount[w] = 1
      /\ \A v \in Worker : \A i \in BeginAt(v) : v = w /\ i = d
      /\ \A v \in Worker : /\ ~EndSignal(v) /\ ~BeginSignal(v)
                           /\ v # w => wpc[v] \notin {"flush", "execute"}
                           /\ \A i \in Queued(v) :
                                /\ Pos(v, i) \notin Task
                                /\ Pos(v, i) = BeginTask => v = w /\ i = d
      /\ \A s \in Sched : EndAt(s) = {}
  BY <1>1, OnlyBegin
<1>3. /\ \A p \in Task : Flushed(p)
      /\ \A t \in Tile : executed[t] = Launched
      /\ \A s \in Sched : /\ to_dispatch[s] = {}
                          /\ ShareOf(s) # {} => iteration_num[s] = Launched
      /\ Len(sched_queues[Broadcast]) = Launched
      /\ Launched \in Nat /\ LaunchEvent \in Event
  BY <1>2, RunComplete, SchedFacts, Constants DEF IInv
<1>4. /\ all_event_counters' = [all_event_counters EXCEPT ![LaunchEvent] = Launched + 1]
      /\ flush_amount' = [flush_amount EXCEPT ![w] = 0]
      /\ wpc' = [wpc EXCEPT ![w] = "signal"] /\ UNCHANGED done_task_pos
      /\ UNCHANGED << worker_queues, sched_queues, xcd_local_event_counters,
                      xcd_event_num_tasks, placement, loadVars, executed, schedVars >>
  <2>1. AllTasks[BeginTask].trigger_event = LaunchEvent /\ AllEvents[LaunchEvent].type # "EMPTY"
    BY EventFacts DEF EventOf
  <2>2. FiresAt(LaunchEvent, Launched + 1) = Launched + 1
    <3>1. AllEvents[LaunchEvent].num_triggers = 1
      BY EventFacts DEF NumTriggers
    <3> QED BY <1>3, <3>1 DEF FiresAt
  <2>3. all_event_counters[LaunchEvent] + flush_amount[w] = Launched + 1
    BY <1>2 DEF Launched
  <2> QED BY <1>2, <2>1, <2>2, <2>3 DEF FlushToGlobal
<1>5. /\ \A v \in Worker : v # w =>
           /\ wpc'[v] = wpc[v] /\ CurrentTask(v)' = CurrentTask(v)
           /\ done_task_pos'[v] = done_task_pos[v]
           /\ (EndSignal(v)' <=> EndSignal(v)) /\ (BeginSignal(v)' <=> BeginSignal(v))
           /\ \A e : FlushingFor(v, e)' <=> FlushingFor(v, e)
      /\ wpc'[w] = "signal" /\ CurrentTask(w)' = CurrentTask(w)
      /\ \A v \in Worker : /\ Todo(v)' \subseteq Todo(v) /\ BeginAt(v)' \subseteq BeginAt(v)
      /\ d \notin BeginAt(w)'
  <2>1. wpc'[w] = "signal"
    BY <1>4 DEF Inv, TypeOK
  <2> QED BY <1>1, <1>4, <2>1, FlushedHands
<1>6. /\ Launched' = Launched + 1
      /\ \A e \in Event : e # LaunchEvent => all_event_counters'[e] = all_event_counters[e]
      /\ \A e \in Event : /\ all_event_counters[e] \in Nat /\ all_event_counters'[e] \in Nat
                          /\ all_event_counters'[e] >= all_event_counters[e]
  <2>1. all_event_counters \in [Event -> Nat]
    BY DEF Inv, TypeOK
  <2>2. all_event_counters[LaunchEvent] = Launched
    BY DEF Launched
  <2>3. all_event_counters'[LaunchEvent] = Launched + 1
    BY <1>3, <1>4, <2>1
  <2> QED BY <1>3, <1>4, <2>1, <2>2, <2>3 DEF Launched
<1>7. \A v \in Worker : BeginAt(v)' = {}
  <2>1. ASSUME NEW v \in Worker, NEW i \in BeginAt(v)' PROVE FALSE
    <3>1. i \in BeginAt(v)
      BY <1>5
    <3>2. v = w /\ i = d
      BY <1>2, <3>1
    <3> QED BY <1>5, <2>1, <3>2
  <2> QED BY <2>1
<1> QED BY <1>4, <1>5, <1>6, <1>7

\* The next iteration is launched: what was of the iteration that is over is
\* now of the one before.
LEMMA FlushBeginSafe ==
    ASSUME Inv, IInv, Inv', NEW w \in Worker, FlushToGlobal(w),
           CurrentTask(w).pos = BeginTask
    PROVE  IInv'
<1> DEFINE d == done_task_pos[w] + 1
<1>1. wpc[w] = "flush"
  BY DEF FlushToGlobal, AtTask
<1>2. /\ Complete(EndEvent) /\ ~Ending /\ Loaded(w)
      /\ d \in BeginAt(w)
      /\ CurrentTask(w).iter = Launched + 1 /\ flush_amount[w] = 1
      /\ \A v \in Worker : \A i \in BeginAt(v) : v = w /\ i = d
      /\ \A v \in Worker : /\ ~EndSignal(v) /\ ~BeginSignal(v)
                           /\ v # w => wpc[v] \notin {"flush", "execute"}
                           /\ \A i \in Queued(v) :
                                /\ Pos(v, i) \notin Task
                                /\ Pos(v, i) = BeginTask => v = w /\ i = d
      /\ \A s \in Sched : EndAt(s) = {}
  BY <1>1, OnlyBegin
<1>3. /\ \A p \in Task : Flushed(p)
      /\ \A t \in Tile : executed[t] = Launched
      /\ \A s \in Sched : /\ to_dispatch[s] = {}
                          /\ ShareOf(s) # {} => iteration_num[s] = Launched
      /\ Len(sched_queues[Broadcast]) = Launched
      /\ Launched \in Nat /\ LaunchEvent \in Event
  BY <1>2, RunComplete, SchedFacts, Constants DEF IInv
<1>4. /\ Launched' = Launched + 1
      /\ all_event_counters' = [all_event_counters EXCEPT ![LaunchEvent] = Launched + 1]
      /\ flush_amount' = [flush_amount EXCEPT ![w] = 0]
      /\ wpc' = [wpc EXCEPT ![w] = "signal"] /\ UNCHANGED done_task_pos
      /\ UNCHANGED << worker_queues, sched_queues, xcd_local_event_counters,
                      xcd_event_num_tasks, placement, loadVars, executed, schedVars >>
      /\ \A v \in Worker : v # w =>
           /\ wpc'[v] = wpc[v] /\ CurrentTask(v)' = CurrentTask(v)
           /\ done_task_pos'[v] = done_task_pos[v]
           /\ (EndSignal(v)' <=> EndSignal(v)) /\ (BeginSignal(v)' <=> BeginSignal(v))
           /\ \A e : FlushingFor(v, e)' <=> FlushingFor(v, e)
      /\ wpc'[w] = "signal" /\ CurrentTask(w)' = CurrentTask(w)
      /\ \A v \in Worker : Todo(v)' \subseteq Todo(v) /\ BeginAt(v)' = {}
      /\ \A e \in Event : e # LaunchEvent => all_event_counters'[e] = all_event_counters[e]
      /\ \A e \in Event : /\ all_event_counters[e] \in Nat
                          /\ all_event_counters'[e] \in Nat
                          /\ all_event_counters'[e] >= all_event_counters[e]
  BY LaunchCounted
<1>8. \A v \in Worker : \A i : /\ Pos(v, i)' = Pos(v, i) /\ Queued(v)' = Queued(v)
  BY <1>4 DEF Pos, Queued
<1>9. QueueOK'
  <2>1. ASSUME NEW v \in Worker
        PROVE  /\ \A i \in 1 .. Len(worker_queues'[v]) :
                    /\ Pos(v, i)' = TerminateTask => worker_queues'[v][i].iter = 0
                    /\ Pos(v, i)' \in Task => /\ Owner(Pos(v, i)') = HwXcd[v]
                                              /\ TilesFor(v, Pos(v, i)') # {}
               /\ \A i \in Queued(v)' :
                    /\ Pos(v, i)' \in Task => worker_queues'[v][i].iter = Launched'
                    /\ Pos(v, i)' = BeginTask =>
                         worker_queues'[v][i].iter
                           = IF i \in BeginAt(v)' THEN Launched' + 1 ELSE Launched'
    <3>1. worker_queues'[w][d].iter = Launched'
      BY <1>2, <1>4 DEF CurrentTask
    <3> HIDE DEF d
    <3>2. \A i \in Queued(v)' :
            Pos(v, i)' \notin Task /\ (Pos(v, i)' = BeginTask => v = w /\ i = d)
      BY <1>2, <1>8
    <3>3. \A i \in 1 .. Len(worker_queues'[v]) :
                    /\ Pos(v, i)' = TerminateTask => worker_queues'[v][i].iter = 0
                    /\ Pos(v, i)' \in Task => /\ Owner(Pos(v, i)') = HwXcd[v]
                                              /\ TilesFor(v, Pos(v, i)') # {}
      BY <1>4, <1>8 DEF IInv, QueueOK
    <3> QED BY <1>4, <3>1, <3>2, <3>3
  <2> QED BY <2>1 DEF QueueOK
<1>10. TileOK'
  <2>1. \A v \in Worker, t \in Tile : \A i \in Todo(v)' : ~Covers(v, i, t)'
    <3>1. ASSUME NEW v \in Worker, NEW t \in Tile, NEW i \in Todo(v)', Covers(v, i, t)'
          PROVE  FALSE
      <4>1. i \in Queued(v) /\ t[1] \in Task
        BY <1>8, TileFacts DEF Todo
      <4>2. Pos(v, i) = t[1]
        BY <1>8, <3>1 DEF Covers
      <4> QED BY <1>2, <4>1, <4>2
    <3> QED BY <3>1
  <2>2. \A t \in Tile : executed'[t] = Launched' - 1
    BY <1>3, <1>4
  <2> QED BY <2>1, <2>2 DEF TileOK
<1>11. CountOK'
  <2>1. \A x, e : Counted(x, e)' = Counted(x, e)
    BY DEF Counted, Feeders, ShareOf
  <2>2. \A t \in Tile : executed'[t] = Launched /\ Launched # Launched'
    BY <1>3, <1>4
  <2>3. ASSUME NEW x \in Xcd, NEW e \in Event
        PROVE  xcd_local_event_counters'[x][e] =
                 Cardinality(Counted(x, e)) * (Launched' - 1) + Cardinality(Ran(x, e)')
    <3>1. Counted(x, e) \subseteq Tile /\ Cardinality(Counted(x, e)) \in Nat
      BY ShareFacts
    <3>2. Ran(x, e) = Counted(x, e)
      BY <1>3, <3>1 DEF Ran
    <3>3. Ran(x, e)' = {}
      BY <2>1, <2>2, <3>1 DEF Ran
    <3>4. xcd_local_event_counters[x][e]
            = Cardinality(Counted(x, e)) * (Launched - 1) + Cardinality(Counted(x, e))
      BY <3>2 DEF IInv, CountOK
    <3>5. xcd_local_event_counters[x][e]
            = Cardinality(Counted(x, e)) * ((Launched + 1) - 1) + 0
      <4> DEFINE l == xcd_local_event_counters[x][e]
                 n == Cardinality(Counted(x, e))
      <4>1. l = n * (Launched - 1) + n /\ n \in Nat
        BY <3>1, <3>4
      <4> HIDE DEF l, n
      <4>2. l = n * ((Launched + 1) - 1) + 0
        BY <1>3, <4>1, NextCount
      <4> QED BY <4>2 DEF l, n
    <3> QED BY <1>4, <3>3, <3>5, FS_EmptySet
  <2>4. ASSUME NEW e \in Event, e > LaunchEvent
        PROVE  all_event_counters'[e]
                 = NumTriggers(e) * (Launched' - 1) + Cardinality(FlushedFeeders(e)')
    <3>1. /\ FlushedFeeders(e) = Producers(e) /\ NumTriggers(e) = Cardinality(Producers(e))
          /\ NumTriggers(e) \in Nat
      BY <1>3, <2>4, EventFacts DEF FlushedFeeders
    <3>2. FlushedFeeders(e)' = {}
      <4>1. ASSUME NEW p \in Task PROVE ~Flushed(p)'
        <5>1. <<p, 0>> \in Counted(Owner(p), EventOf(p)) /\ <<p, 0>> \in Tile
          BY TileFacts, ShareFacts
        <5> QED BY <2>1, <2>2, <5>1 DEF Flushed
      <4> QED BY <4>1 DEF FlushedFeeders
    <3>3. all_event_counters[e] = NumTriggers(e) * (Launched - 1) + NumTriggers(e)
      BY <2>4, <3>1 DEF IInv, CountOK
    <3>4. all_event_counters'[e] = all_event_counters[e]
      <4>1. e # LaunchEvent
        BY <2>4 DEF LaunchEvent
      <4> QED BY <1>4, <4>1
    <3>5. all_event_counters[e] = NumTriggers(e) * ((Launched + 1) - 1) + 0
      <4> DEFINE l == all_event_counters[e]
                 n == NumTriggers(e)
      <4>1. l = n * (Launched - 1) + n /\ n \in Nat
        BY <3>1, <3>3
      <4> HIDE DEF l, n
      <4>2. l = n * ((Launched + 1) - 1) + 0
        BY <1>3, <4>1, NextCount
      <4> QED BY <4>2 DEF l, n
    <3> QED BY <1>4, <3>2, <3>4, <3>5, FS_EmptySet
  <2> QED BY <2>1, <2>3, <2>4 DEF CountOK
<1>12. FlushOK'
  BY <1>2, <1>4 DEF FlushOK, FlushedWell
<1>13. LaunchOK'
  <2>1. \A s : ShareOf(s)' = ShareOf(s)
    BY DEF ShareOf
  <2>2. \A s, e : Counted(s, e)' = Counted(s, e)
    BY DEF Counted, Feeders, ShareOf
  <2>3. /\ sched_queues' = sched_queues /\ iteration_num' = iteration_num
        /\ to_dispatch' = to_dispatch /\ xcd_event_num_tasks' = xcd_event_num_tasks
    BY <1>4 DEF schedVars, dispatchVars
  <2>4. \A v \in Worker : BeginSignal(v)' => v = w
    BY <1>2, <1>4
  <2>5. \A s \in Sched : /\ ShareOf(s) # {} => iteration_num'[s] >= Launched' - 1
                         /\ to_dispatch'[s] = {}
    BY <1>3, <1>4, <2>3
  <2>6. \A s \in Sched, e \in Event : xcd_event_num_tasks'[s][e] =
              IF iteration_num'[s] = 0 THEN 0 ELSE Cardinality(Counted(s, e))
    BY <2>3 DEF IInv, LaunchOK
  <2>7. Len(sched_queues'[Broadcast]) < Launched'
    BY <1>3, <1>4, <2>3
  <2>8. Len(sched_queues'[Broadcast]) <= Launched'
    BY <1>3, <1>4, <2>3
  <2> QED BY <2>1, <2>2, <2>4, <2>5, <2>6, <2>7, <2>8 DEF LaunchOK
<1>14. SchedOK'
  BY <1>4, SchedKept DEF IInv, schedVars, dispatchVars
<1>15. BootOK'
  BY <1>1, <1>4, QuietBoots DEF IInv, schedVars, dispatchVars
<1>16. \A s \in Sched : EndAt(s)' = EndAt(s) /\ TermAt(s)' = TermAt(s)
  BY <1>4 DEF EndAt, Unhandled, TermAt, schedVars, eventVars
<1>17. TokenOK'
  <2>1. \A v \in Worker : ~EndSignal(v)'
    <3>1. ~EndSignal(w)'
      BY <1>4, TaskFacts DEF EndSignal
    <3> QED BY <1>2, <1>4, <3>1
  <2> QED BY <1>2, <1>4, <1>16, <2>1 DEF TokenOK
<1>18. TilesInOrder'
  BY <1>3, <1>4 DEF TilesInOrder
<1>19. \A v \in Worker : Satisfied(v)'
  BY <1>2, <1>4 DEF Satisfied
<1>20. EndingOK'
  <2>1. LogsGrow
    BY <1>4 DEF LogsGrow
  <2> QED BY <1>1, <1>2, <1>4, <1>16, <2>1, WorkerEnding DEF loadVars
<1> QED BY <1>9, <1>10, <1>11, <1>12, <1>13, <1>14, <1>15, <1>17, <1>18, <1>19, <1>20, AllParts

LEMMA FlushToGlobalSafe ==
    ASSUME Inv, IInv, Inv', NEW w \in Worker, FlushToGlobal(w) PROVE IInv'
<1>1. wpc[w] = "flush"
  BY DEF FlushToGlobal, AtTask
<1>2. CurrentTask(w).pos \in Task \/ CurrentTask(w).pos = BeginTask
  BY <1>1, WorkerFacts
<1> QED BY <1>2, FlushTaskSafe, FlushBeginSafe
-----------------------------------------------------------------------------
(* An event is signalled to the schedulers.                                 *)

\* What the signal changes but for the queue it goes to.
LEMMA SignalKeeps ==
    ASSUME Inv, IInv, NEW w \in Worker, wpc[w] = "signal", Loaded(w), LogsGrow, LogsOK',
           FinishTask(w),
           UNCHANGED << worker_queues, counters, placement, loadVars,
                        flush_amount, executed, schedVars >>
    PROVE  /\ BootOK' /\ SchedOK' /\ QueueOK' /\ TileOK' /\ CountOK' /\ FlushOK'
           /\ TilesInOrder' /\ \A v \in Worker : Satisfied(v)'
           /\ ~BeginSignal(w)' /\ ~EndSignal(w)'
           /\ \A v \in Worker : v # w =>
                /\ wpc'[v] = wpc[v] /\ CurrentTask(v)' = CurrentTask(v)
                /\ done_task_pos'[v] = done_task_pos[v]
                /\ (EndSignal(v)' <=> EndSignal(v)) /\ (BeginSignal(v)' <=> BeginSignal(v))
           /\ wpc'[w] \in {"poll", "wait"}
           /\ \A v \in Worker : BeginAt(v)' \subseteq BeginAt(v)
           /\ all_event_counters' = all_event_counters /\ Launched' = Launched
<1> DEFINE d == done_task_pos[w] + 1
<1>1. /\ wpc'[w] \in {"poll", "wait"}
      /\ \A v \in Worker : v # w => wpc'[v] = wpc[v]
      /\ Queued(w)' = Queued(w) \ {d}
      /\ Todo(w)' = Todo(w) \ {d}
      /\ BeginAt(w)' = BeginAt(w) \ {d}
      /\ ~BeginSignal(w)' /\ ~EndSignal(w)'
      /\ \A v \in Worker : v # w =>
           /\ CurrentTask(v)' = CurrentTask(v)
           /\ Queued(v)' = Queued(v) /\ Todo(v)' = Todo(v) /\ BeginAt(v)' = BeginAt(v)
           /\ (EndSignal(v)' <=> EndSignal(v)) /\ (BeginSignal(v)' <=> BeginSignal(v))
  BY FinishEffect
<1>2. \A v \in Worker : v # w => done_task_pos'[v] = done_task_pos[v]
  BY DEF FinishTask, Inv, TypeOK
<1> HIDE DEF d
<1>3. \A v \in Worker : /\ Queued(v)' \subseteq Queued(v)
                        /\ Todo(v)' \subseteq Todo(v) /\ BeginAt(v)' \subseteq BeginAt(v)
                        /\ \A i \in Queued(v)' : i \in BeginAt(v)' <=> i \in BeginAt(v)
  BY <1>1
<1>4. /\ all_event_counters' = all_event_counters /\ executed' = executed
      /\ xcd_local_event_counters' = xcd_local_event_counters /\ Launched' = Launched
  BY DEF counters, Launched
<1>5. KeepsFlushes /\ KeepsCounts /\ KeepsDispatch
  BY <1>1, <1>4 DEF KeepsFlushes, KeepsCounts, KeepsDispatch, schedVars, dispatchVars
<1>6. CountOK' /\ FlushOK' /\ TilesInOrder'
  BY <1>5, CountsKept, OrderKept, OrderParts DEF IInv
<1>7. QueueOK'
  BY <1>3, <1>4, QueueShrinks DEF IInv
<1>8. TileOK'
  <2>1. \A t \in Tile : Waiting(t)' <=> Waiting(t)
    BY <1>4, <1>5, SameWaiting
  <2> QED BY <1>3, <1>4, <2>1, TileShrinks DEF IInv
<1>9. SchedOK'
  <2>1. \A s \in Sched : SameSched(s)
    BY DEF SameSched, schedVars, dispatchVars, eventVars
  <2>2. \A s \in Sched : SchedGood(s)'
    BY <2>1, SchedGoodKept DEF IInv, SchedOK
  <2> QED BY <2>2 DEF SchedOK
<1>10. BootOK'
  BY <1>1, QuietBoots DEF IInv, schedVars, dispatchVars
<1>11. \A v \in Worker : Satisfied(v)'
  <2>1. Satisfied(w)'
    BY <1>1 DEF Satisfied
  <2> QED BY <1>1, <1>4, <2>1, SatisfiedKept, OrderParts DEF IInv
<1> QED BY <1>1, <1>2, <1>3, <1>4, <1>6, <1>7, <1>8, <1>9, <1>10, <1>11

\* The launch event goes to the broadcast queue, for an iteration that has
\* been counted and not yet been launched.
LEMMA SignalBeginSafe ==
    ASSUME Inv, IInv, NEW w \in Worker, SignalEvent(w), CurrentTask(w).pos = BeginTask
    PROVE  IInv'
<1> DEFINE n == Len(sched_queues[Broadcast]) + 1
<1>1. /\ wpc[w] = "signal" /\ Loaded(w) /\ FinishTask(w) /\ BeginSignal(w)
      /\ sched_queues' = [sched_queues EXCEPT ![Broadcast] = Append(@, LaunchEvent)]
      /\ UNCHANGED << worker_queues, counters, placement, loadVars,
                      flush_amount, executed, schedVars >>
  <2>1. AllTasks[BeginTask].trigger_event = LaunchEvent
        /\ AllEvents[LaunchEvent].type = "LAUNCH_DEPENDENT_TASKS"
    BY EventFacts DEF EventOf
  <2> QED BY <2>1 DEF SignalEvent, AtTask, BeginSignal
<1>2. /\ sched_queues'[Broadcast] = Append(sched_queues[Broadcast], LaunchEvent)
      /\ \A q \in Queue : q # Broadcast => sched_queues'[q] = sched_queues[q]
      /\ sched_queues[Broadcast] \in Seq(Event) /\ Len(sched_queues[Broadcast]) \in Nat
  BY <1>1, SchedFacts, Constants DEF Inv, TypeOK
<1>3. /\ Len(sched_queues'[Broadcast]) = n /\ sched_queues'[Broadcast][n] = LaunchEvent
      /\ \A i \in 1 .. Len(sched_queues[Broadcast]) :
           sched_queues'[Broadcast][i] = sched_queues[Broadcast][i]
      /\ 1 .. n = 1 .. Len(sched_queues[Broadcast]) \cup {n}
  BY <1>2, AppendKeeps, Constants
<1> HIDE DEF n
<1>4. LogsGrow
  BY <1>2, <1>3 DEF LogsGrow
<1>5. \A s \in Sched : s \in Queue /\ s # Broadcast /\ sched_queues'[s] = sched_queues[s]
  BY <1>2, Constants DEF Sched, Xcd, Broadcast
<1>6. LogsOK'
  <2>1. \A i \in 1 .. Len(sched_queues'[Broadcast]) : sched_queues'[Broadcast][i] = LaunchEvent
    BY <1>3 DEF IInv, SchedOK, LogsOK
  <2> QED BY <1>5, <2>1 DEF IInv, SchedOK, LogsOK
<1>7. /\ BootOK' /\ SchedOK' /\ QueueOK' /\ TileOK' /\ CountOK' /\ FlushOK'
      /\ TilesInOrder' /\ \A v \in Worker : Satisfied(v)'
      /\ ~BeginSignal(w)' /\ ~EndSignal(w)'
      /\ \A v \in Worker : v # w =>
           /\ wpc'[v] = wpc[v] /\ CurrentTask(v)' = CurrentTask(v)
           /\ done_task_pos'[v] = done_task_pos[v]
           /\ (EndSignal(v)' <=> EndSignal(v)) /\ (BeginSignal(v)' <=> BeginSignal(v))
      /\ wpc'[w] \in {"poll", "wait"}
      /\ \A v \in Worker : BeginAt(v)' \subseteq BeginAt(v)
      /\ all_event_counters' = all_event_counters /\ Launched' = Launched
  BY <1>1, <1>4, <1>6, SignalKeeps
<1>8. \A s \in Sched : EndAt(s)' = EndAt(s) /\ TermAt(s)' = TermAt(s)
  BY <1>1, <1>5 DEF EndAt, Unhandled, TermAt, schedVars, eventVars
<1>9. TokenOK'
  <2>1. \A v \in Worker : EndSignal(v)' => EndSignal(v) /\ CurrentTask(v)' = CurrentTask(v)
    BY <1>7
  <2> QED BY <1>1, <1>7, <1>8, <2>1, TokenShrinks DEF IInv, schedVars, dispatchVars
<1>10. LaunchOK'
  <2>1. \A v \in Worker : ~BeginSignal(v)'
    BY <1>1, <1>7 DEF IInv, LaunchOK
  <2>2. Len(sched_queues'[Broadcast]) <= Launched'
    BY <1>1, <1>2, <1>3, <1>7, SchedFacts DEF IInv, LaunchOK, n
  <2>3. \A s : ShareOf(s)' = ShareOf(s)
    BY DEF ShareOf
  <2>4. \A s, e : Counted(s, e)' = Counted(s, e)
    BY DEF Counted, Feeders, ShareOf
  <2>5. /\ iteration_num' = iteration_num /\ to_dispatch' = to_dispatch
        /\ xcd_event_num_tasks' = xcd_event_num_tasks
    BY <1>1 DEF schedVars, dispatchVars, counters
  <2> QED BY <1>7, <2>1, <2>2, <2>3, <2>4, <2>5 DEF LaunchOK, IInv
<1>11. EndingOK'
  <2>1. Ending => /\ Complete(EndEvent)'
                  /\ \A v \in Worker : ~EndSignal(v)' /\ BeginAt(v)' = {}
                  /\ \A s \in Sched : EndAt(s)' \subseteq EndAt(s)
    BY <1>7, <1>8, SameComplete DEF IInv, EndingOK
  <2> QED BY <1>1, <1>4, <1>7, <1>8, <2>1, WorkerEnding DEF loadVars
<1> QED BY <1>7, <1>9, <1>10, <1>11, AllParts

\* The end event goes to the scheduler of the worker's XCD, and nothing else is
\* under way.
LEMMA SignalEndSafe ==
    ASSUME Inv, IInv, NEW w \in Worker, SignalEvent(w),
           NEW p \in Task, CurrentTask(w).pos = p
    PROVE  IInv'
<1> DEFINE x == HwXcd[w]
           n == Len(sched_queues[x]) + 1
<1>1. /\ wpc[w] = "signal" /\ Loaded(w) /\ FinishTask(w) /\ EndSignal(w)
      /\ EventOf(p) = EndEvent
      /\ sched_queues' = [sched_queues EXCEPT ![x] = Append(@, EndEvent)]
      /\ UNCHANGED << worker_queues, counters, placement, loadVars,
                      flush_amount, executed, schedVars >>
  <2>1. wpc[w] = "signal" /\ EndSignal(w)
    BY DEF SignalEvent, AtTask, EndSignal
  <2>2. EventOf(p) = EndEvent
    BY <2>1 DEF IInv, TokenOK
  <2>3. AllEvents[EventOf(p)].type # "LAUNCH_DEPENDENT_TASKS"
    BY EventFacts
  <2>4. /\ Loaded(w) /\ FinishTask(w)
        /\ UNCHANGED << worker_queues, counters, placement, loadVars,
                        flush_amount, executed, schedVars >>
    BY DEF SignalEvent, AtTask
  <2>5. sched_queues' = [sched_queues EXCEPT ![x] = Append(@, EndEvent)]
    BY <2>2, <2>3 DEF SignalEvent, EventOf
  <2> QED BY <2>1, <2>2, <2>4, <2>5
<1>2. /\ x \in Sched /\ x \in Queue /\ x # Broadcast
      /\ sched_queues'[x] = Append(sched_queues[x], EndEvent)
      /\ \A q \in Queue : q # x => sched_queues'[q] = sched_queues[q]
      /\ sched_queues[x] \in Seq(Event) /\ Len(sched_queues[x]) \in Nat
  <2>1. x \in Sched /\ x \in Queue /\ x # Broadcast
    BY Constants DEF Sched, Xcd, Broadcast
  <2> QED BY <1>1, <2>1, SchedFacts DEF Inv, TypeOK
<1>3. /\ Len(sched_queues'[x]) = n /\ sched_queues'[x][n] = EndEvent
      /\ \A i \in 1 .. Len(sched_queues[x]) : sched_queues'[x][i] = sched_queues[x][i]
      /\ 1 .. n = 1 .. Len(sched_queues[x]) \cup {n} /\ n \in Nat
  BY <1>2, AppendKeeps, Constants
<1> HIDE DEF n, x
<1>4. LogsGrow
  BY <1>2, <1>3 DEF LogsGrow
<1>5. /\ Complete(EndEvent) /\ ~Ending
      /\ \A v \in Worker : (EndSignal(v) => v = w) /\ BeginAt(v) = {}
      /\ \A s \in Sched : EndAt(s) = {}
  BY <1>1 DEF IInv, TokenOK, EndingOK
<1>6. \A s \in Sched : s # x => s \in Queue /\ sched_queues'[s] = sched_queues[s]
  BY <1>2, Constants
<1>7. sched_queues'[Broadcast] = sched_queues[Broadcast]
  BY <1>2, Constants
<1>8. LogsOK'
  <2>1. \A i \in 1 .. Len(sched_queues'[x]) : sched_queues'[x][i] \in {EndEvent, TerminationEvent}
    BY <1>2, <1>3 DEF IInv, SchedOK, LogsOK
  <2> QED BY <1>6, <1>7, <2>1 DEF IInv, SchedOK, LogsOK
<1>9. /\ BootOK' /\ SchedOK' /\ QueueOK' /\ TileOK' /\ CountOK' /\ FlushOK'
      /\ TilesInOrder' /\ \A v \in Worker : Satisfied(v)'
      /\ ~BeginSignal(w)' /\ ~EndSignal(w)'
      /\ \A v \in Worker : v # w =>
           /\ wpc'[v] = wpc[v] /\ CurrentTask(v)' = CurrentTask(v)
           /\ done_task_pos'[v] = done_task_pos[v]
           /\ (EndSignal(v)' <=> EndSignal(v)) /\ (BeginSignal(v)' <=> BeginSignal(v))
      /\ wpc'[w] \in {"poll", "wait"}
      /\ \A v \in Worker : BeginAt(v)' \subseteq BeginAt(v)
      /\ all_event_counters' = all_event_counters /\ Launched' = Launched
  BY <1>1, <1>4, <1>8, SignalKeeps
<1>10. \A s \in Sched : TermAt(s)' = TermAt(s)
  <2>1. TermAt(x)' = TermAt(x)
    BY <1>2, <1>3, EventFacts DEF TermAt, n
  <2>2. \A s \in Sched : s # x => TermAt(s)' = TermAt(s)
    BY <1>6 DEF TermAt
  <2> QED BY <2>1, <2>2
<1>11. \A s \in Sched : \A i \in EndAt(s)' : s = x /\ i = n
  <2>1. ASSUME NEW s \in Sched, s # x PROVE EndAt(s)' = {}
    BY <1>1, <1>5, <1>6, <2>1 DEF EndAt, Unhandled, schedVars, eventVars
  <2>2. ASSUME NEW i \in EndAt(x)', i # n PROVE FALSE
    <3>1. /\ i \in cur_event_pos[x][x] + 1 .. n /\ sched_queues'[x][i] = EndEvent
          /\ cur_event_pos[x][x] \in Nat
      BY <1>1, <1>2, <1>3, SchedFacts DEF EndAt, Unhandled, schedVars, eventVars
    <3>2. i \in cur_event_pos[x][x] + 1 .. Len(sched_queues[x]) /\ i \in 1 .. Len(sched_queues[x])
      BY <1>2, <2>2, <3>1 DEF n
    <3>3. i \in EndAt(x)
      BY <1>3, <3>1, <3>2 DEF EndAt, Unhandled
    <3> QED BY <1>2, <1>5, <3>3
  <2> QED BY <2>1, <2>2
<1>12. iteration_num[x] = Launched
  <2>1. Owner(p) = x
    <3>1. /\ done_task_pos[w] + 1 \in 1 .. Len(worker_queues[w])
          /\ CurrentTask(w).pos = Pos(w, done_task_pos[w] + 1)
      BY <1>1, WorkerFacts
    <3> QED BY <3>1 DEF IInv, QueueOK, x
  <2>2. ShareOf(x) # {}
    BY <2>1 DEF ShareOf
  <2> QED BY <1>2, <1>5, <2>2, RunComplete DEF IInv
<1>13. TokenOK'
  <2>1. \A v \in Worker : ~EndSignal(v)' /\ BeginAt(v)' = {}
    BY <1>5, <1>9
  <2>2. ASSUME NEW s \in Sched, NEW i \in EndAt(s)'
        PROVE  /\ Complete(EndEvent)' /\ iteration_num'[s] = Launched'
               /\ \A r \in Sched : \A j \in EndAt(r)' : r = s /\ j = i
    <3>1. Complete(EndEvent)'
      BY <1>5, <1>9, SameComplete
    <3>2. s = x /\ i = n
      BY <1>11, <2>2
    <3>3. iteration_num' = iteration_num
      BY <1>1 DEF schedVars, dispatchVars
    <3> QED BY <1>9, <1>11, <1>12, <3>1, <3>2, <3>3
  <2> QED BY <2>1, <2>2 DEF TokenOK
<1>14. LaunchOK'
  <2>1. ~BeginSignal(w)
    BY <1>1, TaskFacts DEF BeginSignal
  <2>2. \A v \in Worker : BeginSignal(v)' <=> BeginSignal(v)
    BY <1>9, <2>1
  <2> QED BY <1>1, <1>7, <1>9, <2>2, LaunchKept DEF IInv, schedVars, dispatchVars, counters
<1>15. EndingOK'
  BY <1>1, <1>4, <1>5, <1>9, <1>10, WorkerEnding DEF loadVars
<1> QED BY <1>9, <1>13, <1>14, <1>15, AllParts

LEMMA SignalEventSafe == ASSUME Inv, IInv, NEW w \in Worker, SignalEvent(w) PROVE IInv'
<1>1. wpc[w] = "signal"
  BY DEF SignalEvent, AtTask
<1>2. CurrentTask(w).pos \in Task \/ CurrentTask(w).pos = BeginTask
  BY <1>1, WorkerFacts
<1> QED BY <1>2, SignalBeginSafe, SignalEndSafe
-----------------------------------------------------------------------------
(* The invariant holds throughout.                                          *)

LEMMA InitCounts == ASSUME Init PROVE CountOK
<1>1. Launched = 0 /\ \A t \in Tile : executed[t] = 0
  BY Constants DEF Init, Launched
<1>2. ASSUME NEW x \in Xcd, NEW e \in Event
      PROVE  xcd_local_event_counters[x][e] =
               Cardinality(Counted(x, e)) * (Launched - 1) + Cardinality(Ran(x, e))
  <2>1. Counted(x, e) \subseteq Tile /\ Cardinality(Counted(x, e)) \in Nat
    BY ShareFacts
  <2>2. Ran(x, e) = Counted(x, e)
    BY <1>1, <2>1 DEF Ran
  <2>3. xcd_local_event_counters[x][e] = 0
    BY DEF Init
  <2> DEFINE n == Cardinality(Counted(x, e))
  <2> HIDE DEF n
  <2>4. n \in Nat => 0 = n * (0 - 1) + n
    OBVIOUS
  <2> QED BY <1>1, <2>1, <2>2, <2>3, <2>4 DEF n
<1>3. ASSUME NEW e \in Event, e > LaunchEvent
      PROVE  all_event_counters[e] =
               NumTriggers(e) * (Launched - 1) + Cardinality(FlushedFeeders(e))
  <2>1. \A p \in Task : Flushed(p)
    <3>1. \A w \in Worker : \A e2 : ~FlushingFor(w, e2)
      BY DEF Init, FlushingFor
    <3>2. \A x, e2 : Counted(x, e2) \subseteq Tile
      BY ShareFacts
    <3> QED BY <1>1, <3>1, <3>2 DEF Flushed, WorkersAt
  <2>2. /\ FlushedFeeders(e) = Producers(e) /\ NumTriggers(e) = Cardinality(Producers(e))
        /\ NumTriggers(e) \in Nat
    BY <1>3, <2>1, EventFacts DEF FlushedFeeders
  <2>3. all_event_counters[e] = 0
    BY DEF Init
  <2> DEFINE n == NumTriggers(e)
  <2> HIDE DEF n
  <2>4. n \in Nat => 0 = n * (0 - 1) + n
    OBVIOUS
  <2> QED BY <1>1, <2>2, <2>3, <2>4 DEF n
<1> QED BY <1>2, <1>3 DEF CountOK

LEMMA InitSafe == Init => IInv
<1> SUFFICES ASSUME Init PROVE IInv
  OBVIOUS
<1>1. /\ Launched = 0 /\ \A t \in Tile : executed[t] = 0
      /\ \A w \in Worker : wpc[w] = "map" /\ Len(worker_queues[w]) = 0
      /\ \A s \in Sched : /\ spc[s] = "boot" /\ iteration_num[s] = 0 /\ to_dispatch[s] = {}
                          /\ cur_event_pos[s] = [q \in Queue |-> 0]
      /\ sched_queues = [q \in Queue |-> IF q = 0 THEN <<EndEvent>> ELSE << >>]
  BY Constants DEF Init, Launched
<1>2. /\ sched_queues[Broadcast] = << >> /\ sched_queues[0] = <<EndEvent>>
      /\ \A q \in Queue : q # 0 => sched_queues[q] = << >>
      /\ 0 \in Sched /\ \A s \in Sched : s \in Queue
  BY <1>1, Constants DEF Broadcast, Sched, Xcd, Queue
<1>3. \A w \in Worker : /\ Queued(w) = {} /\ Todo(w) = {} /\ BeginAt(w) = {}
                        /\ ~BeginSignal(w) /\ ~EndSignal(w)
  <2>1. \A w \in Worker : Queued(w) = {}
    BY DEF Init, Queued
  <2> QED BY <1>1, <2>1 DEF Todo, BeginAt, BeginSignal, EndSignal
<1>4. \A e \in Event : Complete(e)
  BY <1>1, EventFacts DEF Init, Complete
<1>5. BootOK
  <2>1. {w \in Worker : wpc[w] \notin {"map", "ready"}} = {}
    BY <1>1
  <2>2. worker_xcd_ready_count = Cardinality({w \in Worker : wpc[w] \notin {"map", "ready"}})
    BY <2>1, FS_EmptySet DEF Init
  <2> QED BY <1>1, <2>2 DEF BootOK, Init
<1>6. SchedOK
  <2>1. LogsOK
    <3>1. \A s \in Sched : \A i \in 1 .. Len(sched_queues[s]) : sched_queues[s][i] = EndEvent
      BY <1>2
    <3>2. Len(sched_queues[Broadcast]) = 0
      BY <1>2
    <3> QED BY <3>1, <3>2 DEF LogsOK
  <2>2. ASSUME NEW s \in Sched PROVE SchedGood(s)
    <3>1. cur_event_pos[s][Broadcast] = 0 /\ queue_idx[s] = s /\ loop_idx[s] = 0
      BY <1>1, Constants DEF Init
    <3> QED BY <1>1, <3>1 DEF SchedGood
  <2> QED BY <2>1, <2>2 DEF SchedOK
<1>7. LaunchOK
  <2>1. Len(sched_queues[Broadcast]) = 0
    BY <1>2
  <2>2. \A s \in Sched, e \in Event : xcd_event_num_tasks[s][e] = 0
    BY DEF Init, Sched
  <2> QED BY <1>1, <1>3, <2>1, <2>2 DEF LaunchOK
<1>8. QueueOK
  BY <1>1, <1>3 DEF QueueOK
<1>9. TileOK
  <2>1. \A t \in Tile : ~Waiting(t)
    <3>1. \A t \in Tile : Owner(t[1]) \in Sched
      BY TileFacts, TaskFacts DEF Sched
    <3> QED BY <1>1, <3>1 DEF Waiting, Undispatched
  <2> QED BY <1>1, <1>3, <2>1 DEF TileOK
<1>10. CountOK
  BY InitCounts
<1>11. FlushOK
  BY <1>1 DEF FlushOK, FlushedWell
<1>12. OrderOK
  <2>1. \A t \in Tile : \A a \in Ancestors[t[1]] : EventOf(a) \in Event
    <3>1. \A t \in Tile : t[1] \in Task
      BY TileFacts
    <3> QED BY <3>1, AncestorsAssumption, TaskFacts
  <2> QED BY <1>1, <1>4, <2>1 DEF OrderOK
<1>13. TokenOK
  <2>1. EndAt(0) \subseteq {1} /\ \A s \in Sched : s # 0 => EndAt(s) = {}
    <3>1. cur_event_pos[0][0] = 0 /\ Len(sched_queues[0]) = 1
      BY <1>1, <1>2
    <3>2. EndAt(0) \subseteq {1}
      BY <3>1 DEF EndAt, Unhandled
    <3>3. ASSUME NEW s \in Sched, s # 0 PROVE EndAt(s) = {}
      <4>1. cur_event_pos[s][s] = 0 /\ Len(sched_queues[s]) = 0
        BY <1>1, <1>2, <3>3
      <4> QED BY <4>1 DEF EndAt, Unhandled
    <3> QED BY <3>2, <3>3
  <2>2. \A s \in Sched : \A i \in EndAt(s) : s = 0 /\ i = 1
    BY <2>1
  <2> QED BY <1>1, <1>3, <1>4, <2>2, Constants DEF TokenOK
<1>14. EndingOK
  <2>1. \A s \in Sched : TermAt(s) = {}
    <3>1. \A s \in Sched : \A i \in 1 .. Len(sched_queues[s]) : sched_queues[s][i] = EndEvent
      BY <1>2
    <3> QED BY <3>1, EventFacts DEF TermAt
  <2> QED BY <1>1, <2>1 DEF EndingOK, Ending
<1> QED BY <1>5, <1>6, <1>7, <1>8, <1>9, <1>10, <1>11, <1>12, <1>13, <1>14 DEF IInv

LEMMA StutterSafe == ASSUME Inv, IInv, UNCHANGED vars PROVE IInv'
<1>1. /\ UNCHANGED << worker_queues, sched_queues, counters, placement, workerVars, schedVars >>
      /\ all_event_counters' = all_event_counters
  BY DEF vars, shared, counters
<1>2. KeepsWork /\ KeepsDispatch /\ KeepsCounts
  BY <1>1 DEF KeepsWork, KeepsDispatch, KeepsCounts, workerVars, counters, schedVars, dispatchVars
<1>3. \A w \in Worker : /\ BeginSignal(w)' <=> BeginSignal(w)
                        /\ BeginAt(w)' = BeginAt(w) /\ CurrentTask(w)' = CurrentTask(w)
  BY <1>2, SameWork
<1>4. LogsGrow /\ \A s \in Sched : SameSched(s)
  BY <1>1 DEF LogsGrow, SameSched, schedVars, dispatchVars, eventVars
<1>5. \A s \in Sched : EndAt(s)' = EndAt(s)
  BY <1>1 DEF EndAt, Unhandled, schedVars, eventVars
<1>6. BootOK'
  BY <1>1, BootKept DEF IInv, workerVars, schedVars, dispatchVars
<1>7. SchedOK' /\ LaunchOK' /\ QueueOK'
  BY <1>1, <1>2, <1>3, SchedKept, LaunchKept, QueueKept DEF IInv, schedVars, dispatchVars, counters
<1>8. TileOK'
  <2>1. \A t \in Tile : Waiting(t)' <=> Waiting(t)
    BY <1>1, <1>2, SameWaiting
  <2> QED BY <1>1, <1>2, <2>1, TileKept DEF IInv, workerVars
<1>9. CountOK' /\ FlushOK' /\ TilesInOrder'
  BY <1>2, HandsKept, FlushesKept, CountsKept, OrderKept, OrderParts DEF IInv
<1>10. TokenOK'
  BY <1>1, <1>2, <1>3, <1>5, HandsKept, TokenKept DEF IInv, schedVars, dispatchVars
<1>11. \A w \in Worker : Satisfied(w)'
  BY <1>1, <1>3, SatisfiedKept, OrderParts DEF IInv, workerVars
<1>12. EndingOK'
  <2>1. \A w \in Worker, s \in Sched : TerminationSeen(w, s) => TerminationSeen(w, s)'
    BY <1>4, SeenKept
  <2>2. \A w \in Worker : Loaded(w) => Loaded(w)'
    BY <1>1 DEF Loaded, workerVars, loadVars
  <2>3. /\ wpc' = wpc /\ spc' = spc /\ loop_idx' = loop_idx
    BY <1>1 DEF workerVars, schedVars, dispatchVars
  <2> QED BY <1>1, <1>2, <1>5, <2>1, <2>2, <2>3, EndingKept DEF IInv
<1> QED BY <1>6, <1>7, <1>8, <1>9, <1>10, <1>11, <1>12, AllParts

\* Every step of every block preserves the invariant.
LEMMA SafeInductive == Inv /\ IInv /\ [Next]_vars => IInv'
<1> SUFFICES ASSUME Inv, IInv, [Next]_vars PROVE IInv'
  OBVIOUS
<1>1. Inv'
  BY InvInductive
<1>2. CASE \E w \in Worker : WorkerStep(w)
  BY <1>1, <1>2, MapXcdSafe, ReportReadySafe, LoadTasksSafe, StartTaskSafe, CompleteTaskSafe,
     FlushToGlobalSafe, SignalEventSafe DEF WorkerStep
<1>3. CASE \E s \in Sched : SchedStep(s)
  BY <1>3, CollectWorkersSafe, PollQueueSafe, TerminateWorkersSafe, EndOfTaskGraphSafe,
     BeginIterationSafe, TerminateSchedulersSafe, LaunchTasksSafe, DispatchTaskSafe
     DEF SchedStep
<1>4. CASE UNCHANGED vars \/ Finished
  BY <1>4, StutterSafe DEF Finished
<1> QED BY <1>2, <1>3, <1>4 DEF Next

LEMMA SpecSafe == Spec => [](Inv /\ IInv)
<1>1. Init => Inv /\ IInv
  BY InitInv, InitSafe
<1>2. Inv /\ IInv /\ [Next]_vars => (Inv /\ IInv)'
  BY InvInductive, SafeInductive
<1> QED BY <1>1, <1>2, PTL DEF Spec

-----------------------------------------------------------------------------
(* What the invariant says of the system.                                   *)

\* What is left to do when the graph is complete and no BEGIN task is queued.
LEMMA NothingLeft ==
    ASSUME Inv, IInv, Complete(EndEvent), \A v \in Worker : ~EndSignal(v) /\ BeginAt(v) = {}
    PROVE  \A w \in Worker : Pending(w) \subseteq {TaskId(0, TerminateTask)}
<1> SUFFICES ASSUME NEW w \in Worker, NEW i \in Queued(w)
             PROVE  worker_queues[w][i] = TaskId(0, TerminateTask)
  BY DEF Pending, Queued
<1>1. /\ i \in 1 .. Len(worker_queues[w]) /\ worker_queues[w][i] \in TaskIds
      /\ Pos(w, i) \in Position
  BY WorkerFacts
<1>2. /\ \A j \in Todo(w) : Pos(w, j) \notin Task
      /\ wpc[w] = "flush" => CurrentTask(w).pos = BeginTask
      /\ ~BeginSignal(w)
  BY RunComplete DEF IInv
<1>3. Pos(w, i) # BeginTask
  <2> SUFFICES ASSUME Pos(w, i) = BeginTask PROVE FALSE
    OBVIOUS
  <2>1. i = done_task_pos[w] + 1 /\ wpc[w] = "signal"
    BY DEF BeginAt
  <2>2. CurrentTask(w).pos = BeginTask
    BY <2>1, WorkerFacts
  <2> QED BY <1>2, <2>1, <2>2 DEF BeginSignal
<1>4. Pos(w, i) \notin Task
  <2> SUFFICES ASSUME Pos(w, i) \in Task PROVE FALSE
    OBVIOUS
  <2>1. i = done_task_pos[w] + 1 /\ wpc[w] \in {"flush", "signal"}
    BY <1>2 DEF Todo
  <2>2. CurrentTask(w).pos \in Task
    BY <2>1, WorkerFacts
  <2> QED BY <1>2, <2>1, <2>2, TaskFacts DEF EndSignal
<1>5. Pos(w, i) = TerminateTask /\ worker_queues[w][i].iter = 0
  BY <1>1, <1>3, <1>4, TaskFacts DEF IInv, QueueOK
<1> QED BY <1>1, <1>5 DEF TaskIds, TaskId, Pos

\* What a worker that executes a task knows of the tasks it waited for.
LEMMA DependenciesFlushed ==
    ASSUME Inv, IInv, NEW w \in Worker, wpc[w] = "execute",
           NEW p \in Task, CurrentTask(w).pos = p, NEW r \in Task,
           EventOf(r) = AllTasks[p].dependent_event
    PROVE  Flushed(r)
<1> DEFINE D == AllTasks[p].dependent_event
<1>1. CurrentTask(w).iter = Launched
  BY Executing
<1>2. D \in Event /\ D > LaunchEvent /\ D # NoEvent
  BY TaskFacts DEF NoEvent, Event
<1>3. Complete(D)
  BY <1>1, <1>2 DEF IInv, OrderOK, DependencySatisfied, Complete, NumTriggers
<1> QED BY <1>2, <1>3, CompleteFlushed DEF IInv

\* No task starts before everything it depends on has run, on whatever XCD: the
\* two-level counters that execute_worker waits on and counts in stand for the
\* executions, for every graph, placement, number of blocks and interleaving.
THEOREM DependenciesRespected == Spec => []DependencySafe
<1>1. ASSUME Inv, IInv PROVE DependencySafe
  <2> SUFFICES ASSUME NEW w \in Worker, AtTask(w, "execute"),
                      AllTasks[CurrentTask(w).pos].dependent_event # NoEvent,
                      NEW r \in Producers(AllTasks[CurrentTask(w).pos].dependent_event)
               PROVE  Executed(r, CurrentTask(w).iter)
    BY DEF DependencySafe
  <2> DEFINE p == CurrentTask(w).pos
             D == AllTasks[p].dependent_event
  <2>1. wpc[w] = "execute" /\ (p \in Task \/ p = BeginTask) /\ p \in Position
    BY <1>1, WorkerFacts DEF AtTask
  <2>2. p \in Task
    BY <2>1, GraphAssumption
  <2>3. CurrentTask(w).iter = Launched
    BY <1>1, <2>1, <2>2, Executing
  <2>4. D \in Event /\ D > LaunchEvent
    <3>1. D \in Event /\ AllEvents[D].type = "EMPTY"
      BY <2>2, GraphAssumption, TaskFacts
    <3>2. D # TerminationEvent /\ D # LaunchEvent
      BY <3>1, GraphAssumption
    <3> QED BY <3>1, <3>2 DEF Event, TerminationEvent, LaunchEvent
  <2>5. r \in Task /\ EventOf(r) = D
    BY <2>4, EventFacts
  <2>6. Flushed(r)
    BY <1>1, <2>1, <2>2, <2>5, DependenciesFlushed
  <2> QED BY <2>3, <2>5, <2>6, ShareFacts DEF Executed, Flushed
<1> QED BY <1>1, SpecSafe, PTL

\* Every tile of every task, gang or not, is executed once in each iteration:
\* the round robin of execute_scheduler and the strides of execute_worker leave
\* none out and give none out twice.
THEOREM TilesRunOnce == Spec => []OncePerIteration
<1>1. IInv => OncePerIteration
  BY DEF IInv, TileOK, OncePerIteration
<1> QED BY <1>1, SpecSafe, PTL

\* The schedulers, which count the iterations each for itself, and the task ids
\* they stamp agree with the one counter of the launch event.
THEOREM IterationsAgree == Spec => []NoStaleIteration
<1>1. ASSUME Inv, IInv PROVE NoStaleIteration
  <2> SUFFICES ASSUME NEW w \in Worker, NEW i \in Queued(w)
               PROVE  /\ worker_queues[w][i].pos \in Task => worker_queues[w][i].iter = Launched
                      /\ worker_queues[w][i].pos = BeginTask =>
                           worker_queues[w][i].iter \in {Launched, Launched + 1}
    BY DEF NoStaleIteration, Pending, Queued
  <2> QED BY <1>1 DEF IInv, QueueOK, Pos
<1> QED BY <1>1, SpecSafe, PTL

\* While prepare_next_batch rewrites the buffers every task reads, everything of
\* every iteration has been executed, nothing is queued and no other scheduler
\* dispatches, prepares or shuts down.
THEOREM PreparesAlone == Spec => []QuietWhilePreparing
<1>1. ASSUME Inv, IInv PROVE QuietWhilePreparing
  <2> SUFFICES ASSUME NEW s \in Sched, spc[s] \in {"prepare", "terminate"}
               PROVE  /\ \A t \in Tile : executed[t] = iteration_num[s]
                      /\ \A w \in Worker : Pending(w) \subseteq {TaskId(0, TerminateTask)}
                      /\ \A r \in Sched \ {s} : spc[r] \notin {"prepare", "terminate", "dispatch"}
    BY DEF QuietWhilePreparing
  <2>1. /\ Complete(EndEvent) /\ iteration_num[s] = Launched
        /\ \A w \in Worker : BeginAt(w) = {} /\ ~EndSignal(w)
        /\ \A r \in Sched : r # s => spc[r] \notin {"prepare", "terminate"}
    BY <1>1, Preparing
  <2>2. /\ \A t \in Tile : executed[t] = Launched
        /\ \A r \in Sched : to_dispatch[r] = {}
    BY <1>1, <2>1, RunComplete DEF IInv
  <2>3. \A r \in Sched : spc[r] # "dispatch"
    BY <1>1, <2>2 DEF IInv, SchedOK, SchedGood
  <2>4. \A w \in Worker : Pending(w) \subseteq {TaskId(0, TerminateTask)}
    BY <1>1, <2>1, NothingLeft
  <2> QED BY <2>1, <2>2, <2>3, <2>4
<1> QED BY <1>1, SpecSafe, PTL

\* A worker that returns has emptied its queue, and the last iteration is
\* complete: nothing is pushed behind the TERMINATE task.
THEOREM TerminateIsLast == Spec => []NothingAfterTerminate
<1>1. ASSUME Inv, IInv PROVE NothingAfterTerminate
  <2> SUFFICES ASSUME NEW w \in Worker, wpc[w] = "exit"
               PROVE  /\ done_task_pos[w] + 1 = Len(worker_queues[w])
                      /\ \A t \in Tile : executed[t] = Launched
    BY DEF NothingAfterTerminate
  <2> DEFINE x == HwXcd[w]
  <2>1. Loaded(w) /\ CurrentTask(w).pos = TerminateTask /\ x \in Sched
    BY <1>1, Constants DEF IInv, EndingOK, Sched
  <2>2. /\ done_task_pos[w] + 1 \in 1 .. Len(worker_queues[w])
        /\ Pos(w, done_task_pos[w] + 1) = TerminateTask
    BY <1>1, <2>1, WorkerFacts
  <2>3. done_task_pos[w] + 1 = Len(worker_queues[w]) /\ TerminationSeen(w, x)
    BY <1>1, <2>2 DEF IInv, EndingOK
  <2> HIDE DEF x
  <2>4. /\ Unread(x) /\ CurrentEvent(x) = TerminationEvent
        /\ cur_event_pos[x][queue_idx[x]] + 1 \in 1 .. Len(sched_queues[queue_idx[x]])
        /\ queue_idx[x] \in {x, Broadcast}
    BY <1>1, <2>1, <2>3, SchedFacts DEF TerminationSeen, IInv, SchedOK, SchedGood
  <2>5. queue_idx[x] = x
    BY <1>1, <2>4, EventFacts DEF CurrentEvent, IInv, SchedOK, LogsOK
  <2>6. TermAt(x) # {}
    BY <2>4, <2>5 DEF TermAt, CurrentEvent
  <2>7. Complete(EndEvent)
    BY <1>1, <2>1, <2>6 DEF IInv, EndingOK, Ending
  <2> QED BY <1>1, <2>3, <2>7, RunComplete DEF IInv
<1> QED BY <1>1, SpecSafe, PTL

-----------------------------------------------------------------------------
(* The decoding loop is implemented.                                        *)

\* Every BEGIN task that was queued has been counted by the launch event, but
\* for the one that is still to be counted.
BeginsOK ==
    /\ IsFiniteSet(BeginsQueued)
    /\ Cardinality(BeginsQueued) =
         Launched + (IF \E w \in Worker : BeginAt(w) # {} THEN 1 ELSE 0)

LoopStep == BeginsOK' /\ [Loop!Next]_(Loop!loopVars)

LEMMA BeginsOf ==
    /\ \A b : b \in BeginsQueued <=>
         \E w \in Worker : \E i \in 1 .. Len(worker_queues[w]) :
           b = <<w, i>> /\ Pos(w, i) = BeginTask
    /\ \A b : b \in BeginsQueued' <=>
         \E w \in Worker : \E i \in 1 .. Len(worker_queues'[w]) :
           b = <<w, i>> /\ Pos(w, i)' = BeginTask
BY DEF BeginsQueued, Pos

LEMMA LoopStutters ==
    ASSUME BeginsOK, UNCHANGED executed, Launched' = Launched,
           BeginsQueued' = BeginsQueued,
           \A w \in Worker : BeginAt(w)' = BeginAt(w)
    PROVE  LoopStep
BY DEF BeginsOK, LoopStep, Loop!loopVars

\* The steps that push no task and finish none.
LEMMA QuietLoop ==
    ASSUME BeginsOK, UNCHANGED << worker_queues, all_event_counters, executed, done_task_pos >>,
           \A w \in Worker : wpc'[w] = "signal" <=> wpc[w] = "signal"
    PROVE  LoopStep
<1>1. Launched' = Launched /\ BeginsQueued' = BeginsQueued
  BY DEF Launched, BeginsQueued
<1>2. \A w \in Worker : BeginAt(w)' = BeginAt(w)
  BY DEF BeginAt, Queued, Pos
<1> QED BY <1>1, <1>2, LoopStutters

\* A push adds a BEGIN task, or none.
LEMMA PushBegins ==
    ASSUME Inv, NEW w \in Worker, NEW id \in TaskIds, PushTask(w, id), UNCHANGED workerVars
    PROVE  BeginsQueued' = BeginsQueued \cup
             (IF id.pos = BeginTask THEN {<<w, Len(worker_queues[w]) + 1>>} ELSE {})
<1>0. PICK n \in Nat : n = Len(worker_queues[w])
  BY WorkerFacts
<1>1. /\ n \in Nat /\ Len(worker_queues'[w]) = n + 1 /\ worker_queues'[w][n + 1] = id
      /\ \A i \in 1 .. n : worker_queues'[w][i] = worker_queues[w][i]
      /\ \A v \in Worker : v # w => worker_queues'[v] = worker_queues[v]
  BY <1>0, PushEffect
<1>2. 1 .. (n + 1) = (1 .. n) \cup {n + 1}
  BY <1>1
<1>3. \A i \in 1 .. n : Pos(w, i)' = Pos(w, i)
  BY <1>1 DEF Pos
<1>4. Pos(w, n + 1)' = id.pos
  BY <1>1 DEF Pos
<1>5. \A v \in Worker : v # w => \A i : Pos(v, i)' = Pos(v, i)
  BY <1>1 DEF Pos
<1>6. ASSUME NEW b, b \in BeginsQueued'
      PROVE  b \in BeginsQueued \/ (id.pos = BeginTask /\ b = <<w, n + 1>>)
  <2>1. PICK v \in Worker : \E i \in 1 .. Len(worker_queues'[v]) :
          b = <<v, i>> /\ Pos(v, i)' = BeginTask
    BY <1>6, BeginsOf
  <2>2. PICK i \in 1 .. Len(worker_queues'[v]) : b = <<v, i>> /\ Pos(v, i)' = BeginTask
    BY <2>1
  <2>3. CASE v = w
    <3>1. i \in 1 .. n \/ i = n + 1
      BY <1>1, <1>2, <2>3
    <3>2. CASE i \in 1 .. n
      <4>1. Pos(w, i) = BeginTask /\ b = <<w, i>>
        BY <1>3, <2>2, <2>3, <3>2
      <4> QED BY <1>0, <4>1, <3>2, BeginsOf
    <3> QED BY <1>4, <2>2, <2>3, <3>1, <3>2
  <2>4. CASE v # w
    <3>1. Pos(v, i) = BeginTask /\ i \in 1 .. Len(worker_queues[v])
      BY <1>1, <1>5, <2>2, <2>4
    <3> QED BY <2>2, <3>1, BeginsOf
  <2> QED BY <2>3, <2>4
<1>7. ASSUME NEW b, b \in BeginsQueued PROVE b \in BeginsQueued'
  <2>1. PICK v \in Worker : \E i \in 1 .. Len(worker_queues[v]) :
          b = <<v, i>> /\ Pos(v, i) = BeginTask
    BY <1>7, BeginsOf
  <2>2. PICK i \in 1 .. Len(worker_queues[v]) : b = <<v, i>> /\ Pos(v, i) = BeginTask
    BY <2>1
  <2>3. i \in 1 .. Len(worker_queues'[v]) /\ Pos(v, i)' = BeginTask
    <3>1. CASE v = w
      BY <1>0, <1>1, <1>2, <1>3, <2>2, <3>1
    <3>2. CASE v # w
      BY <1>1, <1>5, <2>2, <3>2
    <3> QED BY <3>1, <3>2
  <2> QED BY <2>2, <2>3, BeginsOf
<1>8. ASSUME id.pos = BeginTask PROVE <<w, n + 1>> \in BeginsQueued'
  <2>1. n + 1 \in 1 .. Len(worker_queues'[w])
    BY <1>1
  <2> QED BY <1>4, <1>8, <2>1, BeginsOf
<1> QED BY <1>0, <1>6, <1>7, <1>8

\* A push of another task.
LEMMA PushStutters ==
    ASSUME Inv, BeginsOK, NEW w \in Worker, NEW id \in TaskIds, PushTask(w, id),
           id.pos # BeginTask, UNCHANGED << workerVars, all_event_counters >>
    PROVE  LoopStep
<1>1. BeginsQueued' = BeginsQueued
  BY PushBegins
<1>2. \A v \in Worker : BeginAt(v)' = BeginAt(v)
  BY PushEffect
<1>3. Launched' = Launched /\ executed' = executed
  BY DEF Launched, workerVars
<1> QED BY <1>1, <1>2, <1>3, LoopStutters

\* A task that is finished, its BEGIN counted before.
LEMMA FinishStutters ==
    ASSUME Inv, BeginsOK, NEW w \in Worker, Loaded(w), FinishTask(w),
           done_task_pos[w] + 1 \notin BeginAt(w),
           UNCHANGED << worker_queues, executed >>, Launched' = Launched
    PROVE  LoopStep
<1>1. \A v \in Worker : BeginAt(v)' = BeginAt(v)
  BY FinishEffect
<1>2. BeginsQueued' = BeginsQueued
  BY DEF BeginsQueued
<1> QED BY <1>1, <1>2, LoopStutters

\* prepare_next_batch: a BEGIN task is queued behind a complete iteration.
LEMMA PreparesBatch ==
    ASSUME Inv, IInv, BeginsOK, NEW s \in Sched, BeginIteration(s) PROVE LoopStep
<1>1. /\ spc[s] = "prepare" /\ iteration_num[s] < MaxIterations
      /\ UNCHANGED << counters, workerVars >>
  BY DEF BeginIteration
<1>2. PICK w \in Worker : PushTask(w, TaskId(iteration_num[s] + 1, BeginTask))
  BY DEF BeginIteration
<1> DEFINE id == TaskId(iteration_num[s] + 1, BeginTask)
           n == Len(worker_queues[w]) + 1
<1>3. /\ Complete(EndEvent) /\ iteration_num[s] = Launched
      /\ \A v \in Worker : BeginAt(v) = {}
  BY <1>1, Preparing
<1>4. \A t \in Tile : executed[t] = Launched
  BY <1>3, RunComplete DEF IInv
<1>5. id \in TaskIds /\ id.pos = BeginTask
  <2>1. iteration_num[s] + 1 \in Nat
    BY SchedFacts
  <2> QED BY <2>1, Constants DEF TaskId, TaskIds
<1> HIDE DEF id
<1>6. BeginsQueued' = BeginsQueued \cup {<<w, n>>} /\ BeginAt(w)' = BeginAt(w) \cup {n}
  BY <1>1, <1>2, <1>5, PushBegins, PushEffect DEF id
<1>7. <<w, n>> \notin BeginsQueued
  <2>1. Len(worker_queues[w]) \in Nat
    BY WorkerFacts
  <2>2. n \notin 1 .. Len(worker_queues[w])
    BY <2>1
  <2> HIDE DEF n
  <2>3. ASSUME NEW v \in Worker, NEW i \in 1 .. Len(worker_queues[v]), <<w, n>> = <<v, i>>
        PROVE  FALSE
    BY <2>2, <2>3
  <2> QED BY <2>3, BeginsOf
<1>8. Launched' = Launched /\ executed' = executed /\ Launched \in Nat
  BY <1>1, SchedFacts DEF Launched, counters, workerVars
<1>9. /\ IsFiniteSet(BeginsQueued) /\ Cardinality(BeginsQueued) = Launched
      /\ IsFiniteSet(BeginsQueued') /\ Cardinality(BeginsQueued') = Launched + 1
  <2>1. IsFiniteSet(BeginsQueued) /\ Cardinality(BeginsQueued) = Launched
    BY <1>3, <1>8 DEF BeginsOK
  <2> QED BY <1>6, <1>7, <2>1, FS_AddElement
<1>10. BeginsOK'
  <2>1. \E v \in Worker : BeginAt(v)' # {}
    BY <1>6
  <2> QED BY <1>8, <1>9, <2>1 DEF BeginsOK
<1>11. Loop!PrepareBatch
  BY <1>1, <1>3, <1>4, <1>8, <1>9 DEF Loop!PrepareBatch, Loop!Complete
<1> QED BY <1>10, <1>11 DEF LoopStep, Loop!Next

\* The launch event is counted: the iteration starts.
LEMMA LaunchesBatch ==
    ASSUME Inv, IInv, BeginsOK, NEW w \in Worker, FlushToGlobal(w),
           CurrentTask(w).pos = BeginTask
    PROVE  LoopStep
<1>1. wpc[w] = "flush"
  BY DEF FlushToGlobal, AtTask
<1>2. done_task_pos[w] + 1 \in BeginAt(w) /\ Complete(EndEvent)
  BY <1>1, OnlyBegin
<1>3. /\ Launched' = Launched + 1 /\ \A v \in Worker : BeginAt(v)' = {}
      /\ UNCHANGED << worker_queues, executed >>
  BY LaunchCounted
<1>4. \A t \in Tile : executed[t] = Launched
  BY <1>2, RunComplete DEF IInv
<1>5. BeginsQueued' = BeginsQueued /\ Launched \in Nat
  BY <1>3, SchedFacts DEF BeginsQueued
<1>6. IsFiniteSet(BeginsQueued) /\ Cardinality(BeginsQueued) = Launched + 1
  BY <1>2 DEF BeginsOK
<1>7. BeginsOK'
  BY <1>3, <1>5, <1>6 DEF BeginsOK
<1>8. Loop!Launch
  BY <1>3, <1>4, <1>5, <1>6 DEF Loop!Launch, Loop!Complete
<1> QED BY <1>7, <1>8 DEF LoopStep, Loop!Next

\* A worker executes the tiles it is given of a task: what they require is there.
LEMMA ExecutesTiles ==
    ASSUME Inv, IInv, IInv', BeginsOK, NEW w \in Worker, CompleteTask(w),
           NEW p \in Task, CurrentTask(w).pos = p
    PROVE  LoopStep
<1> DEFINE d == done_task_pos[w] + 1
<1>1. wpc[w] = "execute"
  BY DEF CompleteTask, AtTask
<1>2. Loaded(w) /\ d \notin BeginAt(w) /\ Launched \in Nat
  BY <1>1, Executing, SchedFacts
<1>3. /\ executed' = [t \in Tile |-> IF t \in Given(w, p) THEN Launched ELSE executed[t]]
      /\ \A t \in Given(w, p) : t[1] = p /\ executed[t] = Launched - 1
      /\ Launched' = Launched
      /\ \/ wpc' = [wpc EXCEPT ![w] = "flush"] /\ UNCHANGED done_task_pos
         \/ FinishTask(w)
      /\ UNCHANGED worker_queues
  BY TaskCounted
<1>4. \A v \in Worker : BeginAt(v)' = BeginAt(v)
  <2>1. CASE wpc' = [wpc EXCEPT ![w] = "flush"] /\ UNCHANGED done_task_pos
    <3>1. \A v \in Worker : wpc'[v] = "signal" <=> wpc[v] = "signal"
      BY <1>1, <2>1 DEF Inv, TypeOK
    <3> QED BY <1>3, <2>1, <3>1 DEF BeginAt, Queued, Pos
  <2>2. CASE FinishTask(w)
    <3>1. /\ BeginAt(w)' = BeginAt(w) \ {d}
          /\ \A v \in Worker : v # w => BeginAt(v)' = BeginAt(v)
      BY <1>2, <1>3, <2>2, FinishEffect
    <3> HIDE DEF d
    <3>2. BeginAt(w)' = BeginAt(w)
      BY <1>2, <3>1
    <3> QED BY <3>1, <3>2
  <2> QED BY <1>3, <2>1, <2>2
<1>5. BeginsQueued' = BeginsQueued
  BY <1>3 DEF BeginsQueued
<1>6. BeginsOK'
  BY <1>3, <1>4, <1>5 DEF BeginsOK
<1>7. \A t \in Tile : executed[t] \in {Launched - 1, Launched}
  BY DEF IInv, TileOK
<1>8. executed' \in [Tile -> {Launched - 1, Launched}]
  BY <1>3, <1>7
<1>9. ASSUME NEW t \in Tile, executed'[t] # executed[t]
      PROVE  /\ executed[t] = Launched - 1 /\ executed'[t] = Launched
             /\ \A r \in RequiredTiles[t] : executed[r] = Launched
  <2>1. t \in Given(w, p)
    BY <1>3, <1>9
  <2>2. t[1] = p /\ executed[t] = Launched - 1 /\ executed'[t] = Launched
    BY <1>3, <2>1
  <2>3. ASSUME NEW r \in RequiredTiles[t] PROVE executed[r] = Launched
    <3>1. r \in Tile /\ AllTasks[r[1]].trigger_event = AllTasks[p].dependent_event
      BY <2>2 DEF RequiredTiles
    <3>2. r[1] \in Task
      BY <3>1, TileFacts
    <3>3. Flushed(r[1])
      BY <1>1, <3>1, <3>2, DependenciesFlushed DEF EventOf
    <3>4. r \in Counted(Owner(r[1]), EventOf(r[1]))
      BY <3>1, ShareFacts
    <3> QED BY <3>3, <3>4 DEF Flushed
  <2> QED BY <2>2, <2>3
<1>10. Loop!Execute
  BY <1>3, <1>5, <1>8, <1>9 DEF Loop!Execute, Loop!MayRun
<1> QED BY <1>6, <1>10 DEF LoopStep, Loop!Next

LEMMA WorkerLoop ==
    ASSUME Inv, IInv, IInv', BeginsOK, NEW w \in Worker, WorkerStep(w) PROVE LoopStep
<1> USE DEF Inv, TypeOK
<1>1. CASE MapXcd(w)
  <2>1. \A v \in Worker : wpc'[v] = "signal" <=> wpc[v] = "signal"
    BY <1>1 DEF MapXcd
  <2> QED BY <1>1, <2>1, QuietLoop DEF MapXcd, counters
<1>2. CASE ReportReady(w)
  <2>1. \A v \in Worker : wpc'[v] = "signal" <=> wpc[v] = "signal"
    BY <1>2 DEF ReportReady
  <2> QED BY <1>2, <2>1, QuietLoop DEF ReportReady, counters
<1>3. CASE LoadTasks(w)
  <2>1. \A v \in Worker : wpc'[v] = "signal" <=> wpc[v] = "signal"
    BY <1>3 DEF LoadTasks
  <2> QED BY <1>3, <2>1, QuietLoop DEF LoadTasks, shared, counters
<1>4. CASE StartTask(w)
  <2>1. \A v \in Worker : wpc'[v] = "signal" <=> wpc[v] = "signal"
    BY <1>4 DEF StartTask, AtTask
  <2> QED BY <1>4, <2>1, QuietLoop DEF StartTask, shared, counters
<1> USE DEF AtTask
<1>5. CASE CompleteTask(w)
  <2>1. wpc[w] = "execute"
    BY <1>5 DEF CompleteTask
  <2>2. CASE CurrentTask(w).pos \in Task
    BY <1>5, <2>2, ExecutesTiles
  <2>3. CASE CurrentTask(w).pos = BeginTask
    <3>1. /\ executed' = executed /\ wpc' = [wpc EXCEPT ![w] = "flush"]
          /\ UNCHANGED << done_task_pos, worker_queues, all_event_counters >>
      BY <1>5, <2>3, BeginCompleted
    <3>2. \A v \in Worker : wpc'[v] = "signal" <=> wpc[v] = "signal"
      BY <2>1, <3>1
    <3> QED BY <3>1, <3>2, QuietLoop
  <2> QED BY <2>1, <2>2, <2>3, WorkerFacts
<1>6. CASE FlushToGlobal(w)
  <2>1. wpc[w] = "flush"
    BY <1>6 DEF FlushToGlobal
  <2>2. CASE CurrentTask(w).pos \in Task
    <3>1. /\ \/ wpc' = [wpc EXCEPT ![w] = "signal"] /\ UNCHANGED done_task_pos
             \/ FinishTask(w)
          /\ UNCHANGED << worker_queues, executed >>
      BY <1>6 DEF FlushToGlobal
    <3>2. Launched' = Launched
      <4>1. /\ AllTasks[CurrentTask(w).pos].trigger_event # LaunchEvent
            /\ LaunchEvent \in Event
        BY <2>2, TaskFacts, Constants DEF EventOf
      <4> QED BY <1>6, <4>1 DEF FlushToGlobal, Launched
    <3>3. Loaded(w) /\ done_task_pos[w] + 1 \notin BeginAt(w)
      BY <2>1, <2>2, WorkerFacts, TaskFacts DEF BeginAt
    <3>4. CASE FinishTask(w)
      BY <3>1, <3>2, <3>3, <3>4, FinishStutters
    <3>5. CASE wpc' = [wpc EXCEPT ![w] = "signal"] /\ UNCHANGED done_task_pos
      <4>1. BeginsQueued' = BeginsQueued
        BY <3>1 DEF BeginsQueued
      <4>2. \A v \in Worker : v # w => BeginAt(v)' = BeginAt(v)
        BY <3>1, <3>5 DEF BeginAt, Queued, Pos
      <4>3. BeginAt(w)' = BeginAt(w)
        BY <2>1, <3>1, <3>3, <3>5 DEF BeginAt, Queued, Pos
      <4> QED BY <3>1, <3>2, <4>1, <4>2, <4>3, LoopStutters
    <3> QED BY <3>1, <3>4, <3>5
  <2>3. CASE CurrentTask(w).pos = BeginTask
    BY <1>6, <2>3, LaunchesBatch
  <2> QED BY <2>1, <2>2, <2>3, WorkerFacts
<1>7. CASE SignalEvent(w)
  <2>1. Loaded(w) /\ FinishTask(w) /\ done_task_pos[w] + 1 \notin BeginAt(w)
    BY <1>7 DEF SignalEvent, BeginAt
  <2>2. UNCHANGED << worker_queues, executed >> /\ Launched' = Launched
    BY <1>7 DEF SignalEvent, counters, Launched
  <2> QED BY <2>1, <2>2, FinishStutters
<1> QED BY <1>1, <1>2, <1>3, <1>4, <1>5, <1>6, <1>7 DEF WorkerStep

LEMMA SchedLoop ==
    ASSUME Inv, IInv, BeginsOK, NEW s \in Sched, SchedStep(s) PROVE LoopStep
<1>1. CASE UNCHANGED << worker_queues, all_event_counters, workerVars >>
  BY <1>1, QuietLoop DEF workerVars
<1>2. CASE CollectWorkers(s) \/ PollQueue(s) \/ EndOfTaskGraph(s)
           \/ TerminateSchedulers(s) \/ LaunchTasks(s)
  BY <1>1, <1>2 DEF CollectWorkers, PollQueue, EndOfTaskGraph, TerminateSchedulers,
                    LaunchTasks, shared, counters
<1>3. CASE TerminateWorkers(s)
  <2>1. UNCHANGED << workerVars, all_event_counters >>
    BY <1>3 DEF TerminateWorkers, counters
  <2>2. CASE UNCHANGED worker_queues
    BY <1>1, <2>1, <2>2
  <2>3. CASE \E w \in Worker : PushTask(w, TaskId(0, TerminateTask))
    <3>1. PICK w \in Worker : PushTask(w, TaskId(0, TerminateTask))
      BY <2>3
    <3>2. /\ TaskId(0, TerminateTask) \in TaskIds
          /\ TaskId(0, TerminateTask).pos # BeginTask
      BY Constants DEF TaskId, TaskIds, TerminateTask, BeginTask
    <3> QED BY <2>1, <3>1, <3>2, PushStutters
  <2> QED BY <1>3, <2>2, <2>3 DEF TerminateWorkers
<1>4. CASE BeginIteration(s)
  BY <1>4, PreparesBatch
<1>5. CASE DispatchTask(s)
  <2>1. UNCHANGED << workerVars, all_event_counters >>
    BY <1>5 DEF DispatchTask, counters
  <2>2. PICK p \in to_dispatch[s], w \in Worker : PushTask(w, TaskId(iteration_num[s], p))
    BY <1>5 DEF DispatchTask
  <2>3. p \in Task /\ iteration_num[s] \in Nat
    BY SchedFacts
  <2>4. TaskId(iteration_num[s], p) \in TaskIds /\ TaskId(iteration_num[s], p).pos # BeginTask
    BY <2>3, TaskFacts DEF TaskId, TaskIds
  <2> QED BY <2>1, <2>2, <2>4, PushStutters
<1> QED BY <1>2, <1>3, <1>4, <1>5 DEF SchedStep

LEMMA InitLoop == Init => BeginsOK /\ Loop!Init
<1> SUFFICES ASSUME Init PROVE BeginsOK /\ Loop!Init
  OBVIOUS
<1>1. \A w \in Worker : 1 .. Len(worker_queues[w]) = {} /\ Queued(w) = {}
  BY DEF Init, Queued
<1>2. BeginsQueued = {}
  BY <1>1, BeginsOf
<1>3. \A w \in Worker : BeginAt(w) = {}
  BY <1>1 DEF BeginAt
<1>4. IsFiniteSet(BeginsQueued) /\ Cardinality(BeginsQueued) = 0
  BY <1>2, FS_EmptySet
<1>5. Launched = 0 /\ executed = [t \in Tile |-> 0]
  BY Constants DEF Init, Launched
<1> QED BY <1>3, <1>4, <1>5 DEF BeginsOK, Loop!Init

\* The runtime implements the decoding loop: iterations separated by barriers, in
\* which every tile is executed once, after the tiles it reads from.
THEOREM LoopImplemented == Spec => ImplementsLoop
<1>1. Init => BeginsOK /\ Loop!Init
  BY InitLoop
<1>2. Inv /\ IInv /\ IInv' /\ BeginsOK /\ [Next]_vars => LoopStep
  <2> SUFFICES ASSUME Inv, IInv, IInv', BeginsOK, [Next]_vars PROVE LoopStep
    OBVIOUS
  <2>1. CASE UNCHANGED vars \/ Finished
    BY <2>1, QuietLoop DEF Finished, vars, shared, workerVars, counters
  <2> QED BY <2>1, WorkerLoop, SchedLoop DEF Next
<1>3. LoopStep => BeginsOK' /\ [Loop!Next]_(Loop!loopVars)
  BY DEF LoopStep
<1> QED BY <1>1, <1>2, <1>3, SpecSafe, PTL DEF Spec, ImplementsLoop, Loop!Spec

-----------------------------------------------------------------------------
(* The loop that the runtime implements.                                    *)

\* What the theorems below ask of the abstract loop holds of the tiles of any graph.
LEMMA TilesRequired == Loop!RequiresAssumption
BY ConfigAssumption DEF Loop!RequiresAssumption, RequiredTiles

\* The abstract loop's barrier is inductive together with its order.
LoopInv == Loop!TypeOK /\ Loop!Barrier /\ Loop!RequirementsMet

LEMMA LoopInitInv == Loop!Init => LoopInv
BY TilesRequired DEF Loop!RequiresAssumption, Loop!Init, LoopInv,
       Loop!TypeOK, Loop!Barrier, Loop!RequirementsMet, Loop!Complete

LEMMA LoopPrepareInv == LoopInv /\ Loop!PrepareBatch => LoopInv'
BY TilesRequired DEF Loop!RequiresAssumption, LoopInv,
       Loop!TypeOK, Loop!Barrier, Loop!RequirementsMet, Loop!PrepareBatch, Loop!Complete

LEMMA LoopLaunchInv == LoopInv /\ Loop!Launch => LoopInv'
BY TilesRequired DEF Loop!RequiresAssumption, LoopInv,
       Loop!TypeOK, Loop!Barrier, Loop!RequirementsMet, Loop!Launch, Loop!Complete

LEMMA LoopExecuteInv == LoopInv /\ Loop!Execute => LoopInv'
<1> SUFFICES ASSUME LoopInv, Loop!Execute PROVE LoopInv'
  OBVIOUS
<1> USE TilesRequired DEF Loop!RequiresAssumption, LoopInv, Loop!TypeOK
<1>1. /\ Cardinality(BeginsQueued)' = Cardinality(BeginsQueued) /\ Launched' = Launched
      /\ executed' \in [Tile -> {Launched - 1, Launched}]
  BY DEF Loop!Execute
<1>2. ASSUME NEW t \in Tile, executed'[t] # executed[t]
      PROVE  /\ executed[t] = Launched - 1 /\ executed'[t] = Launched
             /\ \A r \in RequiredTiles[t] : executed[r] = Launched
  BY <1>2 DEF Loop!Execute, Loop!MayRun
<1>3. \A t \in Tile : executed'[t] \in Nat
  BY <1>1, <1>2
<1>4. Loop!Barrier'
  <2>1. Cardinality(BeginsQueued) # Launched => Loop!Complete'
    <3> SUFFICES ASSUME Cardinality(BeginsQueued) # Launched, NEW t \in Tile
                 PROVE  executed'[t] = Launched
      BY <1>1 DEF Loop!Complete
    <3>1. executed[t] = Launched
      BY DEF Loop!Barrier, Loop!Complete
    <3> QED BY <3>1, <1>2
  <2> QED BY <1>1, <2>1 DEF Loop!Barrier
<1>5. Loop!RequirementsMet'
  <2> SUFFICES ASSUME NEW t \in Tile, NEW r \in RequiredTiles[t]
               PROVE  executed'[r] >= executed'[t]
    BY DEF Loop!RequirementsMet
  <2>1. r \in Tile /\ executed'[r] \in Nat /\ executed'[t] \in Nat
    BY <1>3
  <2>2. executed'[r] >= executed[r]
    BY <1>2, <2>1
  <2>3. CASE executed'[t] = executed[t]
    BY <2>1, <2>2, <2>3 DEF Loop!RequirementsMet
  <2>4. CASE executed'[t] # executed[t]
    <3>1. executed[r] = Launched /\ executed'[t] = Launched
      BY <2>4, <1>2
    <3> QED BY <3>1, <2>1, <2>2
  <2> QED BY <2>3, <2>4
<1>6. Loop!TypeOK'
  BY <1>1, <1>3
<1> QED BY <1>4, <1>5, <1>6

LEMMA LoopSpecInv == Loop!Spec => []LoopInv
<1>1. Loop!Init => LoopInv
  BY LoopInitInv
<1>2. LoopInv /\ UNCHANGED Loop!loopVars => LoopInv'
  BY DEF LoopInv, Loop!TypeOK, Loop!Barrier, Loop!RequirementsMet, Loop!Complete, Loop!loopVars
<1>3. LoopInv /\ [Loop!Next]_(Loop!loopVars) => LoopInv'
  BY <1>2, LoopPrepareInv, LoopLaunchInv, LoopExecuteInv DEF Loop!Next
<1> QED BY <1>1, <1>3, PTL DEF Loop!Spec

\* In the loop that the runtime is shown to implement, iterations do not overlap and
\* a batch is prepared only behind a complete one, whatever the task graph
\* (prepare_next_batch never meets a task that still runs).
THEOREM LoopBarrier == Loop!Spec => []Loop!Barrier
<1>1. LoopInv => Loop!Barrier
  BY DEF LoopInv
<1> QED BY LoopSpecInv, <1>1, PTL

\* ... and no tile is ahead of what it reads.
THEOREM LoopRequirements == Loop!Spec => []Loop!RequirementsMet
<1>1. LoopInv => Loop!RequirementsMet
  BY DEF LoopInv
<1> QED BY LoopSpecInv, <1>1, PTL

\* So it is in the runtime itself, with its queues and counters: behind a batch that
\* is prepared lies a complete iteration, and no tile runs ahead of its inputs.
THEOREM BatchesApart == Spec => [](Loop!Barrier /\ Loop!RequirementsMet)
BY LoopImplemented, LoopBarrier, LoopRequirements, PTL DEF ImplementsLoop
-----------------------------------------------------------------------------
(* The queues are long enough.                                              *)

\* The round robin of execute_scheduler: the ordinary tasks a worker still has
\* were given out one round apart, the last of them when its turn last came.
PlainShare(s) == {p \in ShareOf(s) : ~IsGang(p)}
PlainAt(w) == {i \in Queued(w) : Pos(w, i) \in Task /\ ~IsGang(Pos(w, i))}
GangAt(w) == {i \in Queued(w) : Pos(w, i) \in Task /\ IsGang(Pos(w, i))}
Dealt(s) == Cardinality(PlainShare(s) \ to_dispatch[s])
TurnsSince(s, w) ==
    IF RankIn(WorkersAt(s), w) < next_worker_idx[s]
    THEN next_worker_idx[s] - 1 - RankIn(WorkersAt(s), w)
    ELSE next_worker_idx[s] - 1 - RankIn(WorkersAt(s), w) + Cardinality(WorkersAt(s))
InTurn(w) ==
    PlainAt(w) # {} =>
      (Cardinality(PlainAt(w)) - 1) * Cardinality(WorkersAt(HwXcd[w]))
        + TurnsSince(HwXcd[w], w) + 1 <= Dealt(HwXcd[w])
TurnsOK ==
    /\ \A s \in Sched : WorkersAt(s) # {} => next_worker_idx[s] < Cardinality(WorkersAt(s))
    /\ \A w \in Worker : InTurn(w)

\* A task in a queue: its tiles are not with the scheduler, and have run exactly
\* when the worker is counting them.
LEMMA QueuedTask ==
    ASSUME Inv, IInv, NEW w \in Worker, NEW i \in Queued(w), NEW p \in Task, Pos(w, i) = p,
           NEW k \in TilesFor(w, p)
    PROVE  /\ <<p, k>> \in Tile /\ ~Waiting(<<p, k>>) /\ Launched \in Nat
           /\ i \in Todo(w) => Covers(w, i, <<p, k>>) /\ executed[<<p, k>>] = Launched - 1
           /\ i \notin Todo(w) => executed[<<p, k>>] = Launched
<1>1. <<p, k>> \in Tile /\ Launched \in Nat
  BY TileFacts, SchedFacts
<1>2. CASE i \in Todo(w)
  <2>1. Covers(w, i, <<p, k>>)
    BY <1>2 DEF Covers
  <2> QED BY <1>1, <1>2, <2>1 DEF IInv, TileOK
<1>3. CASE i \notin Todo(w)
  <2>1. i = done_task_pos[w] + 1 /\ wpc[w] \in {"flush", "signal"}
    BY <1>3 DEF Todo
  <2>2. CurrentTask(w).pos = p
    BY <2>1 DEF CurrentTask, Pos
  <2>3. Owner(p) = HwXcd[w] /\ p \in Feeders(Owner(p), EventOf(p))
    BY WorkerFacts, ShareFacts DEF IInv, QueueOK
  <2>4. executed[<<p, k>>] = Launched
    <3>1. CASE wpc[w] = "flush"
      <4>1. ShareDone(w, HwXcd[w], EventOf(p))
        BY <2>2, <3>1 DEF IInv, FlushOK, FlushedWell
      <4>2. <<p, k>> \in Counted(HwXcd[w], EventOf(p))
        BY <1>1, <2>3 DEF Counted
      <4> QED BY <4>1, <4>2 DEF ShareDone
    <3>2. CASE wpc[w] = "signal"
      <4>1. EndSignal(w)
        BY <2>2, <3>2 DEF EndSignal
      <4>2. Complete(EndEvent)
        BY <4>1 DEF IInv, TokenOK
      <4> QED BY <1>1, <4>2, RunComplete DEF IInv
    <3> QED BY <2>1, <3>1, <3>2
  <2> QED BY <1>1, <1>3, <2>4 DEF IInv, TileOK
<1> QED BY <1>2, <1>3

LEMMA QueuedHasTile ==
    ASSUME Inv, IInv, NEW w \in Worker, NEW i \in Queued(w), Pos(w, i) \in Task
    PROVE  /\ Owner(Pos(w, i)) = HwXcd[w] /\ TilesFor(w, Pos(w, i)) # {}
           /\ Pos(w, i) \in ShareOf(HwXcd[w])
BY WorkerFacts DEF IInv, QueueOK, ShareOf

\* No task is in the queue of a worker twice.
LEMMA QueuedOnce ==
    ASSUME Inv, IInv, NEW w \in Worker, NEW i \in Queued(w), NEW j \in Queued(w),
           Pos(w, i) \in Task, Pos(w, i) = Pos(w, j)
    PROVE  i = j
<1>1. PICK p \in Task : Pos(w, i) = p /\ Pos(w, j) = p
  OBVIOUS
<1>2. PICK k \in TilesFor(w, p) : TRUE
  BY <1>1, QueuedHasTile
<1> DEFINE t == <<p, k>>
<1>3. /\ t \in Tile /\ Launched \in Nat
      /\ i \in Todo(w) => Covers(w, i, t) /\ executed[t] = Launched - 1
      /\ i \notin Todo(w) => executed[t] = Launched
      /\ j \in Todo(w) => Covers(w, j, t) /\ executed[t] = Launched - 1
      /\ j \notin Todo(w) => executed[t] = Launched
  BY <1>1, QueuedTask
<1> HIDE DEF t
<1>4. CASE i \in Todo(w) /\ j \in Todo(w)
  BY <1>3, <1>4 DEF IInv, TileOK
<1>5. CASE i \notin Todo(w) /\ j \notin Todo(w)
  BY <1>5 DEF Todo
<1> QED BY <1>3, <1>4, <1>5

\* BEGIN and TERMINATE are alone in their queue.
LEMMA QueuedAlone ==
    ASSUME Inv, IInv, NEW w \in Worker, NEW i \in Queued(w), NEW j \in Queued(w),
           Pos(w, i) \notin Task
    PROVE  i = j
<1>1. ASSUME NEW h \in Queued(w)
      PROVE  /\ Pos(w, h) \in Task \/ Pos(w, h) = BeginTask \/ Pos(w, h) = TerminateTask
             /\ h \in 1 .. Len(worker_queues[w])
             /\ Pos(w, h) = BeginTask /\ h \notin BeginAt(w) =>
                  h = done_task_pos[w] + 1 /\ BeginSignal(w)
  <2>1. h \in 1 .. Len(worker_queues[w]) /\ Pos(w, h) \in Position
    BY WorkerFacts
  <2>2. Pos(w, h) = BeginTask /\ h \notin BeginAt(w) =>
          h = done_task_pos[w] + 1 /\ BeginSignal(w)
    BY DEF BeginAt, BeginSignal, CurrentTask, Pos
  <2> QED BY <2>1, <2>2, TaskFacts
<1>2. ASSUME NEW h \in Queued(w), Pos(w, h) \in Task, Complete(EndEvent) PROVE EndSignal(w)
  <2>1. h \notin Todo(w) /\ (wpc[w] = "flush" => CurrentTask(w).pos = BeginTask)
    BY <1>2, RunComplete DEF IInv
  <2>2. h = done_task_pos[w] + 1 /\ wpc[w] \in {"flush", "signal"}
    BY <2>1 DEF Todo
  <2>3. CurrentTask(w).pos = Pos(w, h)
    BY <2>2 DEF CurrentTask, Pos
  <2> QED BY <1>2, <2>1, <2>2, <2>3, TaskFacts DEF EndSignal
<1>3. Complete(EndEvent) => ~BeginSignal(w)
  BY RunComplete DEF IInv
<1>4. ASSUME NEW h \in Queued(w), Pos(w, h) = TerminateTask
      PROVE  /\ h = Len(worker_queues[w]) /\ Complete(EndEvent)
             /\ ~EndSignal(w) /\ BeginAt(w) = {}
  <2>1. Ending
    BY <1>1, <1>4, TerminateMeansEnding
  <2> QED BY <1>1, <1>4, <2>1 DEF IInv, EndingOK
<1>5. CASE Pos(w, i) = TerminateTask
  BY <1>1, <1>2, <1>3, <1>4, <1>5
<1>6. CASE i \in BeginAt(w)
  <2>1. Complete(EndEvent) /\ (\A h \in BeginAt(w) : h = i) /\ ~EndSignal(w)
    BY <1>6 DEF IInv, TokenOK
  <2> QED BY <1>1, <1>2, <1>3, <1>4, <1>6, <2>1
<1>7. CASE Pos(w, i) = BeginTask /\ i \notin BeginAt(w)
  <2>1. BeginSignal(w) /\ i = done_task_pos[w] + 1 /\ ~Complete(EndEvent)
    BY <1>1, <1>3, <1>7
  <2>2. BeginAt(w) = {}
    BY <2>1 DEF IInv, TokenOK
  <2>3. CASE Pos(w, j) \in Task
    <3>1. PICK k \in TilesFor(w, Pos(w, j)) : TRUE
      BY <2>3, QueuedHasTile
    <3>2. ~Waiting(<<Pos(w, j), k>>)
      BY <2>3, QueuedTask
    <3>3. Owner(Pos(w, j)) \in Sched
      BY <2>3, TaskFacts DEF Sched
    <3>4. /\ iteration_num[Owner(Pos(w, j))] <= Len(sched_queues[Broadcast])
          /\ iteration_num[Owner(Pos(w, j))] \in Nat
          /\ Len(sched_queues[Broadcast]) \in Nat /\ Launched \in Nat
      BY <3>3, IterationBound, SchedFacts DEF IInv
    <3>5. Len(sched_queues[Broadcast]) < Launched
      BY <2>1 DEF IInv, LaunchOK
    <3>6. iteration_num[Owner(Pos(w, j))] < Launched
      BY <3>4, <3>5
    <3> QED BY <3>2, <3>6 DEF Waiting
  <2> QED BY <1>1, <1>4, <2>1, <2>2, <2>3
<1> QED BY <1>1, <1>5, <1>6, <1>7

\* Ranks number the workers of an XCD from 0.
LEMMA Ranks ==
    ASSUME NEW S, IsFiniteSet(S), S \subseteq Int, NEW v \in S, NEW w \in S
    PROVE  /\ RankIn(S, w) \in Nat /\ RankIn(S, w) < Cardinality(S)
           /\ RankIn(S, v) = RankIn(S, w) => v = w
<1> DEFINE Below(x) == {u \in S : u < x}
<1>1. ASSUME NEW T, NEW U, U \subseteq S, T \subseteq U, NEW x \in U, x \notin T
      PROVE  Cardinality(T) \in Nat /\ Cardinality(T) < Cardinality(U)
  <2>1. IsFiniteSet(U) /\ IsFiniteSet(T)
    BY <1>1, FS_Subset
  <2>2. Cardinality(T) <= Cardinality(U) /\ Cardinality(T) # Cardinality(U)
    BY <1>1, <2>1, FS_Subset
  <2> QED BY <2>1, <2>2, FS_CardinalityType
<1>2. ASSUME NEW x \in S, NEW y \in S, x < y
      PROVE  Cardinality(Below(x)) # Cardinality(Below(y))
  <2>1. /\ Below(y) \subseteq S /\ Below(x) \subseteq Below(y)
        /\ x \in Below(y) /\ x \notin Below(x)
    <3>1. ASSUME NEW u \in Below(x) PROVE u \in Below(y)
      <4>1. u \in Int /\ x \in Int /\ y \in Int /\ u < x
        OBVIOUS
      <4> QED BY <1>2, <4>1
    <3>2. ~(x < x)
      OBVIOUS
    <3> QED BY <1>2, <3>1, <3>2
  <2>2. Cardinality(Below(x)) \in Nat /\ Cardinality(Below(x)) < Cardinality(Below(y))
    BY <1>1, <2>1
  <2> QED BY <2>2
<1>3. Cardinality(Below(w)) \in Nat /\ Cardinality(Below(w)) < Cardinality(S)
  <2>1. Below(w) \subseteq S /\ w \notin Below(w) /\ S \subseteq S
    OBVIOUS
  <2> QED BY <1>1, <2>1
<1>4. v < w \/ w < v \/ v = w
  OBVIOUS
<1> QED BY <1>2, <1>3, <1>4 DEF RankIn

LEMMA TurnFacts ==
    ASSUME Inv, NEW w \in Worker
    PROVE  /\ IsFiniteSet(PlainAt(w)) /\ Cardinality(PlainAt(w)) \in Nat
           /\ PlainAt(w) # {} => Cardinality(PlainAt(w)) > 0
           /\ IsFiniteSet(PlainShare(HwXcd[w])) /\ HwXcd[w] \in Sched
           /\ Dealt(HwXcd[w]) \in Nat
           /\ next_worker_idx[HwXcd[w]] \in Nat
           /\ RankIn(WorkersAt(HwXcd[w]), w) \in Nat
           /\ RankIn(WorkersAt(HwXcd[w]), w) < Cardinality(WorkersAt(HwXcd[w]))
           /\ Cardinality(WorkersAt(HwXcd[w])) \in Nat
           /\ TurnsSince(HwXcd[w], w) \in Int
<1>1. IsFiniteSet(PlainAt(w))
  <2>1. PlainAt(w) \subseteq 1 .. Len(worker_queues[w]) /\ Len(worker_queues[w]) \in Nat
    BY WorkerFacts DEF PlainAt
  <2>2. IsFiniteSet(1 .. Len(worker_queues[w]))
    BY <2>1, FS_Interval
  <2> QED BY <2>1, <2>2, FS_Subset
<1>2. Cardinality(PlainAt(w)) \in Nat /\ (PlainAt(w) # {} => Cardinality(PlainAt(w)) > 0)
  BY <1>1, FS_CardinalityType, FS_EmptySet
<1>3. HwXcd[w] \in Sched /\ HwXcd[w] \in Xcd /\ w \in WorkersAt(HwXcd[w])
  BY XcdFacts DEF Sched
<1>4. IsFiniteSet(PlainShare(HwXcd[w]))
  BY <1>3, XcdFacts, TaskFacts, FS_Subset DEF PlainShare
<1>5. Dealt(HwXcd[w]) \in Nat
  BY <1>4, FS_Difference, FS_CardinalityType DEF Dealt
<1>6. next_worker_idx[HwXcd[w]] \in Nat
  BY <1>3 DEF Inv, TypeOK
<1>7. /\ IsFiniteSet(WorkersAt(HwXcd[w])) /\ Cardinality(WorkersAt(HwXcd[w])) \in Nat
      /\ WorkersAt(HwXcd[w]) \subseteq Int
  BY <1>3, XcdFacts DEF Worker
<1>8. /\ RankIn(WorkersAt(HwXcd[w]), w) \in Nat
      /\ RankIn(WorkersAt(HwXcd[w]), w) < Cardinality(WorkersAt(HwXcd[w]))
  BY <1>3, <1>7, Ranks
<1>9. TurnsSince(HwXcd[w], w) \in Int
  BY <1>6, <1>7, <1>8 DEF TurnsSince
<1> QED BY <1>1, <1>2, <1>3, <1>4, <1>5, <1>6, <1>7, <1>8, <1>9

LEMMA SmallerTimes ==
    ASSUME NEW a \in Int, NEW b \in Int, NEW n \in Nat, a <= b PROVE a * n <= b * n
OBVIOUS

\* The turn of the worker of rank r moves away, or has just come.
LEMMA TurnPasses ==
    ASSUME NEW i \in Nat, NEW n \in Nat, NEW r \in Nat, i < n, r < n, NEW j, j = (i + 1) % n
    PROVE  /\ j \in Nat /\ j < n
           /\ i = r => j - 1 - r + (IF r < j THEN 0 ELSE n) = 0
           /\ i # r => j - 1 - r + (IF r < j THEN 0 ELSE n)
                         = i - 1 - r + (IF r < i THEN 0 ELSE n) + 1
<1>1. CASE i + 1 < n
  <2>1. j = i + 1
    BY <1>1
  <2> QED BY <1>1, <2>1
<1>2. CASE i + 1 = n
  <2>1. j = 0
    BY <1>2
  <2> QED BY <1>2, <2>1
<1> QED BY <1>1, <1>2

LEMMA TurnsSum ==
    ASSUME Inv, NEW w \in Worker
    PROVE  TurnsSince(HwXcd[w], w)
             = next_worker_idx[HwXcd[w]] - 1 - RankIn(WorkersAt(HwXcd[w]), w)
                 + (IF RankIn(WorkersAt(HwXcd[w]), w) < next_worker_idx[HwXcd[w]]
                    THEN 0 ELSE Cardinality(WorkersAt(HwXcd[w])))
BY TurnFacts DEF TurnsSince

\* A worker stays in turn when it is given no ordinary task, its XCD's turn does
\* not move and none of the XCD's tasks is taken back.
LEMMA InTurnKept ==
    ASSUME Inv, NEW w \in Worker, InTurn(w), PlainAt(w)' \subseteq PlainAt(w),
           next_worker_idx'[HwXcd[w]] = next_worker_idx[HwXcd[w]],
           to_dispatch'[HwXcd[w]] \subseteq to_dispatch[HwXcd[w]]
    PROVE  InTurn(w)'
<1> SUFFICES ASSUME PlainAt(w)' # {} PROVE InTurn(w)'
  BY DEF InTurn
<1> DEFINE s == HwXcd[w]
           n == Cardinality(WorkersAt(s))
           k == Cardinality(PlainAt(w))
           D == Dealt(s)
           T == TurnsSince(s, w)
<1>1. /\ k \in Nat /\ k > 0 /\ D \in Nat /\ n \in Nat /\ T \in Int
      /\ IsFiniteSet(PlainAt(w)) /\ IsFiniteSet(PlainShare(s))
  BY TurnFacts
<1>2. (k - 1) * n + T + 1 <= D
  BY DEF InTurn
<1>3. PICK m \in Nat : m = Cardinality(PlainAt(w)')
  BY <1>1, FS_Subset, FS_CardinalityType
<1>4. m <= k
  BY <1>1, <1>3, FS_Subset
<1>5. TurnsSince(s, w)' = T
  BY DEF TurnsSince, WorkersAt, RankIn
<1>6. PICK d \in Nat : d = Cardinality(PlainShare(s) \ to_dispatch'[s])
  BY <1>1, FS_Difference, FS_CardinalityType
<1>7. D <= d
  <2>1. /\ PlainShare(s) \ to_dispatch[s] \subseteq PlainShare(s) \ to_dispatch'[s]
        /\ IsFiniteSet(PlainShare(s) \ to_dispatch'[s])
    BY <1>1, FS_Difference
  <2> QED BY <1>6, <2>1, FS_Subset DEF Dealt
<1>8. Dealt(s)' = d
  BY <1>6 DEF Dealt, PlainShare, ShareOf
<1>9. Cardinality(WorkersAt(s))' = n
  BY DEF WorkersAt
<1> HIDE DEF k, n, D, T
<1>10. (m - 1) * n + T + 1 <= d
  <2>1. (m - 1) * n <= (k - 1) * n
    BY <1>1, <1>3, <1>4, SmallerTimes
  <2>2. (m - 1) * n \in Int /\ (k - 1) * n \in Int
    BY <1>1, <1>3
  <2> QED BY <1>1, <1>2, <1>6, <1>7, <2>1, <2>2
<1> HIDE DEF s
<1> QED BY <1>3, <1>5, <1>8, <1>9, <1>10 DEF InTurn, s

LEMMA PushPlain ==
    ASSUME Inv, NEW w \in Worker, NEW id \in TaskIds, PushTask(w, id), UNCHANGED workerVars
    PROVE  /\ \A v \in Worker : v # w => PlainAt(v)' = PlainAt(v)
           /\ Len(worker_queues[w]) + 1 \notin PlainAt(w)
           /\ PlainAt(w)' = PlainAt(w) \cup
                (IF id.pos \in Task /\ ~IsGang(id.pos) THEN {Len(worker_queues[w]) + 1} ELSE {})
<1>0. PICK n \in Nat : n = Len(worker_queues[w]) + 1
  BY WorkerFacts
<1>1. /\ n \notin Queued(w) /\ Queued(w)' = Queued(w) \cup {n}
      /\ worker_queues'[w][n] = id
      /\ \A i \in 1 .. Len(worker_queues[w]) : worker_queues'[w][i] = worker_queues[w][i]
      /\ \A v \in Worker : v # w => worker_queues'[v] = worker_queues[v] /\ Queued(v)' = Queued(v)
  BY <1>0, PushEffect
<1>2. Queued(w) \subseteq 1 .. Len(worker_queues[w])
  BY WorkerFacts
<1>3. \A i \in Queued(w) : Pos(w, i)' = Pos(w, i)
  BY <1>1, <1>2 DEF Pos
<1>4. Pos(w, n)' = id.pos
  BY <1>1 DEF Pos
<1>5. ASSUME NEW v \in Worker, v # w PROVE PlainAt(v)' = PlainAt(v)
  BY <1>1, <1>5 DEF PlainAt, Pos
<1>6. n \notin PlainAt(w)
  BY <1>1 DEF PlainAt
<1>7. PlainAt(w)' = PlainAt(w) \cup (IF id.pos \in Task /\ ~IsGang(id.pos) THEN {n} ELSE {})
  <2>1. PlainAt(w)' = {i \in Queued(w) \cup {n} : Pos(w, i)' \in Task /\ ~IsGang(Pos(w, i)')}
    BY <1>1 DEF PlainAt, Task, IsGang
  <2> QED BY <1>3, <1>4, <2>1 DEF PlainAt
<1> QED BY <1>0, <1>5, <1>6, <1>7

\* No task is left in the queues of an XCD that has not begun the iteration.
LEMMA NothingWaits ==
    ASSUME Inv, IInv, NEW w \in Worker, iteration_num[HwXcd[w]] < Launched
    PROVE  \A i \in Queued(w) : Pos(w, i) \notin Task
<1> SUFFICES ASSUME NEW i \in Queued(w), Pos(w, i) \in Task PROVE FALSE
  OBVIOUS
<1>1. PICK k \in TilesFor(w, Pos(w, i)) : TRUE
  BY QueuedHasTile
<1>2. ~Waiting(<<Pos(w, i), k>>) /\ Owner(Pos(w, i)) = HwXcd[w]
  BY QueuedTask, QueuedHasTile
<1> QED BY <1>2 DEF Waiting

LEMMA NothingLeftPlain ==
    ASSUME Inv, IInv, NEW s \in Sched, spc[s] = "prepare"
    PROVE  \A w \in Worker : PlainAt(w) = {}
<1> SUFFICES ASSUME NEW w \in Worker, NEW i \in Queued(w), Pos(w, i) \in Task PROVE FALSE
  BY DEF PlainAt
<1>1. Complete(EndEvent) /\ ~EndSignal(w)
  BY Preparing
<1>2. /\ \A j \in Todo(w) : Pos(w, j) \notin Task
      /\ wpc[w] = "flush" => CurrentTask(w).pos = BeginTask
  BY <1>1, RunComplete DEF IInv
<1>3. i = done_task_pos[w] + 1 /\ wpc[w] \in {"flush", "signal"}
  BY <1>2 DEF Todo
<1>4. CurrentTask(w).pos = Pos(w, i)
  BY <1>3 DEF CurrentTask, Pos
<1> QED BY <1>1, <1>2, <1>3, <1>4, TaskFacts DEF EndSignal

\* Steps that leave the turns alone.
LEMMA TurnsKept ==
    ASSUME Inv, TurnsOK, UNCHANGED next_worker_idx,
           \A v \in Worker : /\ PlainAt(v)' \subseteq PlainAt(v)
                             /\ to_dispatch'[HwXcd[v]] \subseteq to_dispatch[HwXcd[v]]
    PROVE  TurnsOK'
<1>1. \A v \in Worker : InTurn(v)'
  BY InTurnKept DEF TurnsOK
<1>2. \A r \in Sched : WorkersAt(r) # {} => next_worker_idx'[r] < Cardinality(WorkersAt(r))
  BY DEF TurnsOK
<1>3. \A r : WorkersAt(r)' = WorkersAt(r)
  BY DEF WorkersAt
<1> QED BY <1>1, <1>2, <1>3 DEF TurnsOK

LEMMA WorkerTurns ==
    ASSUME Inv, TurnsOK, NEW w \in Worker, WorkerStep(w) PROVE TurnsOK'
<1>1. UNCHANGED << worker_queues, schedVars >>
  BY DEF WorkerStep, MapXcd, ReportReady, LoadTasks, StartTask, CompleteTask, FlushToGlobal,
         SignalEvent, shared
<1>2. done_task_pos' = done_task_pos \/ FinishTask(w)
  BY DEF WorkerStep, MapXcd, ReportReady, LoadTasks, StartTask, CompleteTask, FlushToGlobal,
         SignalEvent
<1>3. ASSUME NEW v \in Worker PROVE PlainAt(v)' \subseteq PlainAt(v)
  <2>1. /\ done_task_pos \in [Worker -> Nat] /\ done_task_pos[v] \in Nat
        /\ Len(worker_queues[v]) \in Nat
    BY WorkerFacts DEF Inv, TypeOK
  <2>2. done_task_pos'[v] = done_task_pos[v] \/ done_task_pos'[v] = done_task_pos[v] + 1
    BY <1>2, <2>1 DEF FinishTask
  <2>3. Queued(v)' \subseteq Queued(v)
    BY <1>1, <2>1, <2>2 DEF Queued
  <2> QED BY <1>1, <2>3 DEF PlainAt, Pos
<1> QED BY <1>1, <1>3, TurnsKept DEF schedVars, dispatchVars

\* A step of a scheduler that gives out no ordinary task.
LEMMA OtherTurns ==
    ASSUME Inv, TurnsOK, UNCHANGED << workerVars, next_worker_idx >>,
           \A r \in Sched : to_dispatch'[r] \subseteq to_dispatch[r],
           \/ UNCHANGED worker_queues
           \/ \E w \in Worker, id \in TaskIds :
                PushTask(w, id) /\ ~(id.pos \in Task /\ ~IsGang(id.pos))
    PROVE  TurnsOK'
<1>1. ASSUME NEW v \in Worker PROVE PlainAt(v)' \subseteq PlainAt(v)
  <2>1. CASE UNCHANGED worker_queues
    <3>1. Queued(v)' = Queued(v)
      BY <2>1 DEF Queued, workerVars
    <3> QED BY <2>1, <3>1 DEF PlainAt, Pos
  <2>2. ASSUME NEW w \in Worker, NEW id \in TaskIds,
               PushTask(w, id), ~(id.pos \in Task /\ ~IsGang(id.pos))
        PROVE  PlainAt(v)' \subseteq PlainAt(v)
    BY <2>2, PushPlain
  <2> QED BY <2>1, <2>2
<1>2. \A v \in Worker : HwXcd[v] \in Sched
  BY TurnFacts
<1> QED BY <1>1, <1>2, TurnsKept

LEMMA BeginTurns ==
    ASSUME Inv, IInv, TurnsOK, NEW s \in Sched, BeginIteration(s) PROVE TurnsOK'
<1>1. /\ spc[s] = "prepare" /\ UNCHANGED workerVars
      /\ next_worker_idx' = [next_worker_idx EXCEPT ![s] =
                               (@ + 1) % Cardinality(my_workers[s])]
  BY DEF BeginIteration, AdvanceWorkerIdx
<1>2. PICK w \in Worker : /\ w \in my_workers[s]
                          /\ PushTask(w, TaskId(iteration_num[s] + 1, BeginTask))
  BY DEF BeginIteration, WorkerAt
<1>3. TaskId(iteration_num[s] + 1, BeginTask) \in TaskIds
  BY SchedFacts, Constants DEF TaskId, TaskIds
<1>4. \A v \in Worker : PlainAt(v)' = {}
  <2>1. \A v \in Worker : PlainAt(v) = {}
    BY <1>1, NothingLeftPlain
  <2>2. TaskId(iteration_num[s] + 1, BeginTask).pos \notin Task
    BY TaskFacts DEF TaskId
  <2> QED BY <1>1, <1>2, <1>3, <2>1, <2>2, PushPlain
<1>5. ASSUME NEW r \in Sched, WorkersAt(r) # {}
      PROVE  next_worker_idx'[r] < Cardinality(WorkersAt(r))
  <2>1. next_worker_idx \in [Sched -> Nat] /\ next_worker_idx[r] < Cardinality(WorkersAt(r))
    BY <1>5 DEF Inv, TypeOK, TurnsOK
  <2>2. CASE r = s
    <3>1. my_workers[s] = WorkersAt(s)
      BY <1>1 DEF IInv, BootOK
    <3>2. Cardinality(WorkersAt(s)) \in Nat /\ Cardinality(WorkersAt(s)) > 0
      BY <1>5, <2>2, XcdFacts DEF Sched
    <3>3. next_worker_idx'[s] = (next_worker_idx[s] + 1) % Cardinality(WorkersAt(s))
      BY <1>1, <2>1, <3>1
    <3>4. next_worker_idx[s] \in Nat /\ next_worker_idx[s] < Cardinality(WorkersAt(s))
      BY <2>1, <2>2
    <3> QED BY <2>2, <3>2, <3>3, <3>4, TurnPasses
  <2>3. CASE r # s
    BY <1>1, <2>1, <2>3
  <2> QED BY <2>2, <2>3
<1>6. \A r : WorkersAt(r)' = WorkersAt(r)
  BY DEF WorkersAt
<1> QED BY <1>4, <1>5, <1>6 DEF TurnsOK, InTurn

LEMMA LaunchTurns ==
    ASSUME Inv, IInv, TurnsOK, NEW s \in Sched, LaunchTasks(s) PROVE TurnsOK'
<1>1. /\ UNCHANGED << worker_queues, workerVars, next_worker_idx >>
      /\ to_dispatch' = [to_dispatch EXCEPT ![s] = Share(s, my_workers[s])]
  BY DEF LaunchTasks, AfterDispatch
<1>2. iteration_num[s] < Launched
  BY Launching
<1>3. ASSUME NEW v \in Worker PROVE InTurn(v)'
  <2>1. PlainAt(v)' = PlainAt(v)
    <3>1. Queued(v)' = Queued(v)
      BY <1>1 DEF Queued, workerVars
    <3> QED BY <1>1, <3>1 DEF PlainAt, Pos
  <2>2. CASE HwXcd[v] = s
    <3>1. PlainAt(v) = {}
      BY <1>2, <2>2, NothingWaits DEF PlainAt
    <3> QED BY <2>1, <3>1 DEF InTurn
  <2>3. CASE HwXcd[v] # s
    <3>1. to_dispatch'[HwXcd[v]] = to_dispatch[HwXcd[v]]
      BY <1>1, <2>3, TurnFacts DEF Inv, TypeOK
    <3> QED BY <1>1, <2>1, <3>1, InTurnKept DEF TurnsOK
  <2> QED BY <2>2, <2>3
<1>4. \A r : WorkersAt(r)' = WorkersAt(r)
  BY DEF WorkersAt
<1> QED BY <1>1, <1>3, <1>4 DEF TurnsOK

\* An ordinary task is given out: the turn moves to the next worker.
LEMMA DealTurns ==
    ASSUME Inv, IInv, TurnsOK, NEW s \in Sched, NEW p \in to_dispatch[s], NEW w \in Worker,
           ~IsGang(p), p \in ShareOf(s), w \in WorkersAt(s), my_workers[s] = WorkersAt(s),
           RankIn(WorkersAt(s), w) = next_worker_idx[s],
           PushTask(w, TaskId(iteration_num[s], p)), UNCHANGED workerVars,
           next_worker_idx' = [next_worker_idx EXCEPT ![s] =
                                 (@ + 1) % Cardinality(my_workers[s])],
           to_dispatch' = [to_dispatch EXCEPT ![s] = to_dispatch[s] \ {p}]
    PROVE  TurnsOK'
<1>1. /\ p \in Task /\ TaskId(iteration_num[s], p) \in TaskIds
      /\ TaskId(iteration_num[s], p).pos = p
  BY SchedFacts, TaskFacts DEF TaskId, TaskIds
<1>2. /\ next_worker_idx \in [Sched -> Nat] /\ to_dispatch \in [Sched -> SUBSET Task]
      /\ next_worker_idx[s] \in Nat
  BY DEF Inv, TypeOK
<1>3. PICK n \in Nat : n = Cardinality(WorkersAt(s)) /\ n > 0
  BY XcdFacts DEF Sched
<1>4. /\ next_worker_idx[s] < n
      /\ next_worker_idx'[s] = (next_worker_idx[s] + 1) % n
      /\ \A r \in Sched : r # s => next_worker_idx'[r] = next_worker_idx[r]
      /\ to_dispatch'[s] = to_dispatch[s] \ {p}
      /\ \A r \in Sched : r # s => to_dispatch'[r] = to_dispatch[r]
  BY <1>2, <1>3 DEF TurnsOK
<1>5. next_worker_idx'[s] \in Nat /\ next_worker_idx'[s] < n
  <2>1. PICK i \in Nat : i = next_worker_idx[s]
    BY <1>2
  <2>2. PICK j : j = next_worker_idx'[s]
    OBVIOUS
  <2> QED BY <1>3, <1>4, <2>1, <2>2, TurnPasses
<1>6. \A r : WorkersAt(r)' = WorkersAt(r)
  BY DEF WorkersAt
<1>7. \A r \in Sched : WorkersAt(r) # {} => next_worker_idx'[r] < Cardinality(WorkersAt(r))
  BY <1>3, <1>4, <1>5 DEF TurnsOK
<1>8. ASSUME NEW v \in Worker, HwXcd[v] # s PROVE InTurn(v)'
  <2>1. PlainAt(v)' = PlainAt(v)
    BY <1>1, <1>8, PushPlain DEF WorkersAt
  <2> QED BY <1>4, <1>8, <2>1, InTurnKept, TurnFacts DEF TurnsOK
<1>9. ASSUME NEW v \in Worker, HwXcd[v] = s PROVE InTurn(v)'
  <2>1. PICK k \in Nat : /\ k = Cardinality(PlainAt(v)) /\ IsFiniteSet(PlainAt(v))
                         /\ PlainAt(v) = {} <=> k = 0
    BY TurnFacts, FS_EmptySet
  <2>2. PICK r \in Nat : r = RankIn(WorkersAt(s), v) /\ r < n
    BY <1>3, <1>9, TurnFacts
  <2>3. PICK i \in Nat : i = next_worker_idx[s] /\ i < n
    BY <1>2, <1>4
  <2>4. PICK j \in Nat : j = next_worker_idx'[s] /\ j = (i + 1) % n
    BY <1>4, <1>5, <2>3
  <2>5. PICK D \in Nat : D = Dealt(s)
    BY <1>9, TurnFacts
  <2>6. TurnsSince(s, v) = i - 1 - r + (IF r < i THEN 0 ELSE n)
    BY <1>3, <1>9, <2>2, <2>3, TurnsSum
  <2>7. TurnsSince(s, v)' = j - 1 - r + (IF r < j THEN 0 ELSE n)
    <3>1. TurnsSince(s, v)' = IF r < j THEN j - 1 - r ELSE j - 1 - r + n
      BY <1>3, <2>2, <2>4 DEF TurnsSince, WorkersAt, RankIn
    <3> QED BY <3>1, <2>2, <2>4
  <2>8. Dealt(s)' = D + 1
    <3> DEFINE given == PlainShare(s) \ to_dispatch[s]
    <3>1. /\ PlainShare(s) \ (to_dispatch[s] \ {p}) = given \cup {p} /\ p \notin given
      BY DEF PlainShare
    <3>2. IsFiniteSet(given)
      BY <1>9, TurnFacts, FS_Difference
    <3>3. Cardinality(given \cup {p}) = Cardinality(given) + 1
      BY <3>1, <3>2, FS_AddElement
    <3>4. Dealt(s)' = Cardinality(PlainShare(s) \ (to_dispatch[s] \ {p}))
      BY <1>4 DEF Dealt, PlainShare, ShareOf
    <3> QED BY <2>5, <3>1, <3>3, <3>4 DEF Dealt
  <2>9. k # 0 => (k - 1) * n + (i - 1 - r + (IF r < i THEN 0 ELSE n)) + 1 <= D
    BY <1>3, <1>9, <2>1, <2>5, <2>6 DEF TurnsOK, InTurn
  <2>10. PICK m \in Nat : /\ m = Cardinality(PlainAt(v)')
                          /\ m = IF v = w THEN k + 1 ELSE k
    <3>1. CASE v = w
      <4>1. PlainAt(v)' = PlainAt(v) \cup {Len(worker_queues[w]) + 1}
            /\ Len(worker_queues[w]) + 1 \notin PlainAt(v)
        BY <1>1, <3>1, PushPlain
      <4>2. Cardinality(PlainAt(v) \cup {Len(worker_queues[w]) + 1}) = k + 1
        BY <2>1, <4>1, FS_AddElement
      <4>3. k + 1 \in Nat /\ Cardinality(PlainAt(v)') = k + 1
        BY <4>1, <4>2
      <4> QED BY <3>1, <4>3
    <3>2. CASE v # w
      <4>1. PlainAt(v)' = PlainAt(v)
        BY <1>1, <3>2, PushPlain
      <4> QED BY <2>1, <3>2, <4>1
    <3> QED BY <3>1, <3>2
  <2>11. v = w <=> i = r
    <3>1. v \in WorkersAt(s) /\ IsFiniteSet(WorkersAt(s)) /\ WorkersAt(s) \subseteq Int
      BY <1>9, XcdFacts DEF Sched, WorkersAt, Worker
    <3> QED BY <2>2, <2>3, <3>1, Ranks
  <2>12. m # 0 => (m - 1) * n + (j - 1 - r + (IF r < j THEN 0 ELSE n)) + 1 <= D + 1
    <3>1. CASE v = w
      <4>1. i = r /\ m = k + 1 /\ m - 1 = k
        BY <2>10, <2>11, <3>1
      <4>2. j - 1 - r + (IF r < j THEN 0 ELSE n) = 0
        BY <1>3, <2>2, <2>3, <2>4, <4>1, TurnPasses
      <4>3. k * n = (k - 1) * n + n
        BY Times
      <4>4. k * n <= D
        <5>1. CASE k = 0
          BY <5>1
        <5>2. CASE k # 0
          <6>1. (k - 1) * n \in Int
            OBVIOUS
          <6> QED BY <2>9, <4>1, <4>3, <5>2, <6>1
        <5> QED BY <5>1, <5>2
      <4>5. k * n \in Int
        OBVIOUS
      <4> QED BY <4>1, <4>2, <4>4, <4>5
    <3>2. CASE v # w
      <4>1. i # r /\ m = k
        BY <2>10, <2>11, <3>2
      <4>2. j - 1 - r + (IF r < j THEN 0 ELSE n)
              = i - 1 - r + (IF r < i THEN 0 ELSE n) + 1
        BY <1>3, <2>2, <2>3, <2>4, <4>1, TurnPasses
      <4>3. (k - 1) * n \in Int
        OBVIOUS
      <4> QED BY <2>9, <4>1, <4>2, <4>3
    <3> QED BY <3>1, <3>2
  <2>13. /\ Cardinality(WorkersAt(HwXcd[v]))' = n
         /\ TurnsSince(HwXcd[v], v)' = TurnsSince(s, v)' /\ Dealt(HwXcd[v])' = Dealt(s)'
    BY <1>3, <1>6, <1>9
  <2>14. PlainAt(v)' # {} => m # 0
    <3>1. m = Cardinality(PlainAt(v)') /\ (v # w => PlainAt(v)' = PlainAt(v))
      BY <1>1, <2>10, PushPlain
    <3> QED BY <2>1, <2>10, <3>1
  <2> QED BY <2>7, <2>8, <2>10, <2>12, <2>13, <2>14 DEF InTurn
<1> QED BY <1>6, <1>7, <1>8, <1>9 DEF TurnsOK

LEMMA DispatchTurns ==
    ASSUME Inv, IInv, TurnsOK, NEW s \in Sched, DispatchTask(s) PROVE TurnsOK'
<1> DEFINE Last(q) == \/ ~IsGang(q)
                      \/ loop_idx[s] + 1 = Cardinality(my_workers[s])
                      \/ loop_idx[s] + 1 = AllTasks[q].n_tile_count
<1>1. PICK p \in to_dispatch[s], w \in Worker :
        /\ spc[s] = "dispatch"
        /\ WorkerAt(s, IF IsGang(p) THEN loop_idx[s] ELSE next_worker_idx[s], w)
        /\ PushTask(w, TaskId(iteration_num[s], p))
        /\ IF IsGang(p) THEN UNCHANGED next_worker_idx ELSE AdvanceWorkerIdx(s)
        /\ AfterDispatch(s, IF Last(p) THEN to_dispatch[s] \ {p} ELSE to_dispatch[s])
        /\ UNCHANGED workerVars
  BY DEF DispatchTask
<1>2. to_dispatch' = [to_dispatch EXCEPT ![s] =
                        IF Last(p) THEN to_dispatch[s] \ {p} ELSE to_dispatch[s]]
  BY <1>1 DEF AfterDispatch
<1>3. /\ p \in ShareOf(s) /\ p \in Task
      /\ my_workers[s] = WorkersAt(s) /\ to_dispatch \in [Sched -> SUBSET Task]
      /\ TaskId(iteration_num[s], p) \in TaskIds
      /\ TaskId(iteration_num[s], p).pos = p
  BY <1>1, SchedFacts, TaskFacts
     DEF IInv, SchedOK, SchedGood, BootOK, Inv, TypeOK, TaskId, TaskIds
<1>4. CASE IsGang(p)
  <2>1. \A r \in Sched : to_dispatch'[r] \subseteq to_dispatch[r]
    BY <1>2, <1>3
  <2> QED BY <1>1, <1>3, <1>4, <2>1, OtherTurns
<1>5. CASE ~IsGang(p)
  <2>1. to_dispatch' = [to_dispatch EXCEPT ![s] = to_dispatch[s] \ {p}]
    BY <1>2, <1>5
  <2>2. next_worker_idx' = [next_worker_idx EXCEPT ![s] =
                              (@ + 1) % Cardinality(my_workers[s])]
    BY <1>1, <1>5 DEF AdvanceWorkerIdx
  <2>3. w \in WorkersAt(s) /\ RankIn(WorkersAt(s), w) = next_worker_idx[s]
    BY <1>1, <1>3, <1>5 DEF WorkerAt
  <2> QED BY <1>1, <1>3, <1>5, <2>1, <2>2, <2>3, DealTurns
<1> QED BY <1>4, <1>5

LEMMA SchedTurns ==
    ASSUME Inv, IInv, TurnsOK, NEW s \in Sched, SchedStep(s) PROVE TurnsOK'
<1>1. CASE CollectWorkers(s) \/ PollQueue(s) \/ EndOfTaskGraph(s) \/ TerminateSchedulers(s)
  <2>1. UNCHANGED << worker_queues, workerVars, next_worker_idx, to_dispatch >>
    BY <1>1 DEF CollectWorkers, PollQueue, EndOfTaskGraph, TerminateSchedulers, shared,
                dispatchVars
  <2> QED BY <2>1, OtherTurns
<1>2. CASE TerminateWorkers(s)
  <2>1. UNCHANGED << workerVars, next_worker_idx, to_dispatch >>
    BY <1>2 DEF TerminateWorkers
  <2>2. \/ UNCHANGED worker_queues
        \/ \E w \in Worker : PushTask(w, TaskId(0, TerminateTask))
    BY <1>2 DEF TerminateWorkers
  <2>3. TaskId(0, TerminateTask) \in TaskIds /\ TaskId(0, TerminateTask).pos \notin Task
    BY Constants, TaskFacts DEF TaskId, TaskIds
  <2> QED BY <2>1, <2>2, <2>3, OtherTurns
<1> QED BY <1>1, <1>2, BeginTurns, LaunchTurns, DispatchTurns DEF SchedStep

LEMMA InitTurns == Init => TurnsOK
<1> SUFFICES ASSUME Init PROVE TurnsOK
  OBVIOUS
<1>1. Inv
  BY InitInv
<1>2. ASSUME NEW w \in Worker PROVE PlainAt(w) = {}
  <2>1. Len(worker_queues[w]) = 0 /\ done_task_pos[w] = 0
    BY DEF Init
  <2> QED BY <2>1 DEF PlainAt, Queued
<1>3. ASSUME NEW s \in Sched, WorkersAt(s) # {}
      PROVE  next_worker_idx[s] < Cardinality(WorkersAt(s))
  <2>1. next_worker_idx[s] = 0
    BY DEF Init
  <2> QED BY <1>3, <2>1, XcdFacts DEF Sched
<1> QED BY <1>2, <1>3 DEF TurnsOK, InTurn

LEMMA TurnsInductive == Inv /\ IInv /\ TurnsOK /\ [Next]_vars => TurnsOK'
<1> SUFFICES ASSUME Inv, IInv, TurnsOK, [Next]_vars PROVE TurnsOK'
  OBVIOUS
<1>1. CASE UNCHANGED vars
  BY <1>1, OtherTurns DEF vars, shared, schedVars, dispatchVars
<1> QED BY <1>1, WorkerTurns, SchedTurns DEF Next, Finished

LEMMA SpecTurns == Spec => [](Inv /\ IInv /\ TurnsOK)
<1>1. Init => TurnsOK
  BY InitTurns
<1> QED BY <1>1, SpecSafe, TurnsInductive, PTL DEF Spec

\* What is left to read in the queues of a scheduler: one launch event, or an end
\* and a termination event.
LEMMA UnreadEvents ==
    ASSUME Inv, IInv, NEW s \in Sched, spc[s] # "exit", ShareOf(s) # {}
    PROVE  /\ Len(sched_queues[Broadcast]) <= cur_event_pos[s][Broadcast] + 1
           /\ Len(sched_queues[s]) <= cur_event_pos[s][s] + 2
<1>1. /\ Len(sched_queues[Broadcast]) \in Nat /\ Len(sched_queues[s]) \in Nat
      /\ cur_event_pos[s][Broadcast] \in Nat /\ cur_event_pos[s][s] \in Nat
      /\ iteration_num[s] \in Nat /\ Launched \in Nat
  BY SchedFacts, Constants
<1>2. Len(sched_queues[Broadcast]) <= cur_event_pos[s][Broadcast] + 1
  <2>1. /\ iteration_num[s] >= Launched - 1
        /\ to_dispatch[s] # {} => iteration_num[s] = Launched
        /\ Len(sched_queues[Broadcast]) <= Launched
    BY DEF IInv, LaunchOK
  <2>2. /\ spc[s] = "dispatch" <=> to_dispatch[s] # {}
        /\ iteration_num[s] = cur_event_pos[s][Broadcast]
                                + (IF spc[s] = "dispatch" THEN 1 ELSE 0)
    BY DEF IInv, SchedOK, SchedGood
  <2> QED BY <1>1, <2>1, <2>2
<1>3. Len(sched_queues[s]) <= cur_event_pos[s][s] + 2
  <2> SUFFICES ASSUME Len(sched_queues[s]) > cur_event_pos[s][s] + 2 PROVE FALSE
    BY <1>1
  <2>1. PICK c \in Nat : c = cur_event_pos[s][s]
    BY <1>1
  <2>2. \A i \in {c + 1, c + 2, c + 3} :
          i \in Unhandled(s) /\ i \in 1 .. Len(sched_queues[s])
    <3>1. PICK l \in Nat : l = Len(sched_queues[s])
      BY <1>1
    <3>2. l > c + 2
      BY <2>1, <3>1
    <3>3. \A i \in {c + 1, c + 2, c + 3} : i \in c + 1 .. l /\ i \in 1 .. l
      BY <3>2
    <3> QED BY <2>1, <3>1, <3>3 DEF Unhandled
  <2>3. \A i \in {c + 1, c + 2, c + 3} : i \in EndAt(s) \/ i \in TermAt(s)
    BY <2>2 DEF IInv, SchedOK, LogsOK, EndAt, TermAt
  <2>4. \A i, j \in EndAt(s) : i = j
    BY DEF IInv, TokenOK
  <2>5. \A i, j \in TermAt(s) : i = j
    BY DEF IInv, EndingOK
  <2>6. c + 1 # c + 2 /\ c + 2 # c + 3 /\ c + 1 # c + 3
    OBVIOUS
  <2> QED BY <2>3, <2>4, <2>5, <2>6
<1> QED BY <1>2, <1>3

GangShare(w) == {p \in ShareOf(HwXcd[w]) : IsGang(p) /\ TilesFor(w, p) # {}}

LEMMA GangShareBound ==
    ASSUME NEW w \in Worker
    PROVE  /\ IsFiniteSet(GangShare(w)) /\ Cardinality(GangShare(w)) \in Nat
           /\ Cardinality(GangShare(w)) <=
                Cardinality({p \in ShareOf(HwXcd[w]) :
                               /\ IsGang(p)
                               /\ RankIn(WorkersAt(HwXcd[w]), w) < AllTasks[p].n_tile_count})
<1> DEFINE G == {p \in ShareOf(HwXcd[w]) :
                   /\ IsGang(p)
                   /\ RankIn(WorkersAt(HwXcd[w]), w) < AllTasks[p].n_tile_count}
           n == Cardinality(WorkersAt(HwXcd[w]))
           r == RankIn(WorkersAt(HwXcd[w]), w)
<1>1. ShareOf(HwXcd[w]) \subseteq Task /\ IsFiniteSet(ShareOf(HwXcd[w]))
  BY TaskFacts, FS_Subset DEF ShareOf
<1>2. n \in Nat /\ n > 0
  BY XcdFacts
<1>3. ASSUME NEW p \in GangShare(w) PROVE p \in G
  <2>1. PICK k \in TilesFor(w, p) : TRUE
    BY DEF GangShare
  <2>2. p \in ShareOf(HwXcd[w]) /\ p \in Task /\ IsGang(p)
    BY <1>1 DEF GangShare
  <2>3. k \in TilesOf(p) /\ k % n = r
    BY <2>2 DEF TilesFor
  <2>4. AllTasks[p].n_tile_count \in Nat
    BY <2>2, GraphAssumption, TaskFacts
  <2>5. k \in Nat /\ k < AllTasks[p].n_tile_count
    BY <2>3, <2>4 DEF TilesOf
  <2>6. k % n <= k /\ k % n \in Nat
    <3> HIDE DEF n
    <3>1. CASE k < n
      BY <1>2, <2>5, <3>1
    <3>2. CASE k >= n
      <4>1. k % n \in 0 .. n - 1
        BY <1>2, <2>5
      <4> QED BY <1>2, <2>5, <3>2, <4>1
    <3> QED BY <1>2, <2>5, <3>1, <3>2
  <2>7. r < AllTasks[p].n_tile_count
    BY <2>3, <2>4, <2>5, <2>6
  <2> QED BY <2>2, <2>7
<1>4. GangShare(w) \subseteq G /\ G \subseteq ShareOf(HwXcd[w])
  BY <1>3
<1>5. IsFiniteSet(G)
  BY <1>1, <1>4, FS_Subset
<1> HIDE DEF G
<1> QED BY <1>4, <1>5, FS_Subset, FS_CardinalityType DEF G

\* The gang tasks a worker has not finished are different ones.
LEMMA GangsQueued ==
    ASSUME Inv, IInv, NEW w \in Worker
    PROVE  /\ IsFiniteSet(GangAt(w)) /\ Cardinality(GangAt(w)) \in Nat
           /\ Cardinality(GangAt(w)) <= Cardinality(GangShare(w))
<1> DEFINE f == [i \in GangAt(w) |-> Pos(w, i)]
<1>1. IsFiniteSet(GangAt(w)) /\ Cardinality(GangAt(w)) \in Nat
  <2>1. GangAt(w) \subseteq 1 .. Len(worker_queues[w]) /\ Len(worker_queues[w]) \in Nat
    BY WorkerFacts DEF GangAt
  <2>2. IsFiniteSet(1 .. Len(worker_queues[w]))
    BY <2>1, FS_Interval
  <2> QED BY <2>1, <2>2, FS_Subset, FS_CardinalityType
<1>2. IsFiniteSet(GangShare(w))
  BY GangShareBound
<1>3. f \in Injection(GangAt(w), GangShare(w))
  <2>1. ASSUME NEW i \in GangAt(w) PROVE f[i] \in GangShare(w)
    BY QueuedHasTile DEF GangAt, GangShare
  <2>2. ASSUME NEW i \in GangAt(w), NEW j \in GangAt(w), f[i] = f[j] PROVE i = j
    BY <2>2, QueuedOnce DEF GangAt
  <2>3. f \in [GangAt(w) -> GangShare(w)]
    BY <2>1
  <2> QED BY <2>2, <2>3 DEF Injection, IsInjective
<1> HIDE DEF f
<1>4. Cardinality(GangAt(w)) <= Cardinality(GangShare(w))
  BY <1>2, <1>3, FS_Injection
<1> QED BY <1>1, <1>4

\* The ordinary ones are as many as the worker had turns.
LEMMA PlainQueued ==
    ASSUME Inv, IInv, TurnsOK, NEW w \in Worker, NEW a \in Nat,
           Cardinality(PlainShare(HwXcd[w])) <= a * Cardinality(WorkersAt(HwXcd[w]))
    PROVE  Cardinality(PlainAt(w)) <= a
<1>1. PICK k \in Nat : k = Cardinality(PlainAt(w)) /\ (k > 0 => PlainAt(w) # {})
  BY TurnFacts, FS_EmptySet
<1>2. PICK n \in Nat : n = Cardinality(WorkersAt(HwXcd[w]))
  BY TurnFacts
<1>3. PICK m \in Nat : m = Cardinality(PlainShare(HwXcd[w]))
  BY TurnFacts, FS_CardinalityType
<1>4. Dealt(HwXcd[w]) <= m
  <2>1. PlainShare(HwXcd[w]) \ to_dispatch[HwXcd[w]] \subseteq PlainShare(HwXcd[w])
    OBVIOUS
  <2> QED BY <1>3, <2>1, TurnFacts, FS_Subset DEF Dealt
<1>5. TurnsSince(HwXcd[w], w) >= 0
  <2>1. /\ HwXcd[w] \in Sched /\ WorkersAt(HwXcd[w]) # {}
        /\ RankIn(WorkersAt(HwXcd[w]), w) \in Nat
        /\ RankIn(WorkersAt(HwXcd[w]), w) < n /\ next_worker_idx[HwXcd[w]] \in Nat
    BY <1>2, TurnFacts, XcdFacts
  <2> QED BY <1>2, <2>1 DEF TurnsSince
<1>6. k > 0 => (k - 1) * n + TurnsSince(HwXcd[w], w) + 1 <= Dealt(HwXcd[w])
  BY <1>1, <1>2 DEF TurnsOK, InTurn
<1>7. Dealt(HwXcd[w]) \in Nat /\ TurnsSince(HwXcd[w], w) \in Int
  BY TurnFacts
<1>8. ASSUME k > a PROVE FALSE
  <2>1. a * n <= (k - 1) * n
    BY <1>8, SmallerTimes
  <2>2. (k - 1) * n \in Int /\ a * n \in Nat
    OBVIOUS
  <2> QED BY <1>2, <1>3, <1>4, <1>5, <1>6, <1>7, <1>8, <2>1, <2>2
<1> QED BY <1>1, <1>8

\* The producers check no queue for room (execute_scheduler, execute_worker):
\* when the queues are long enough for what a worker is given in one iteration,
\* none is ever overrun, in any iteration.
THEOREM QueuesSuffice == ASSUME QueuesLongEnough PROVE Spec => []NoOverrun
<1>1. ASSUME Inv, IInv, TurnsOK PROVE NoOverrun
  <2>1. ASSUME NEW w \in Worker
        PROVE  Len(worker_queues[w]) < next_task_pos[w] + PerWorkerQueueLen
    <3> DEFINE n == Cardinality(WorkersAt(HwXcd[w]))
               G == Cardinality(GangShare(w))
    <3>1. /\ done_task_pos[w] \in Nat /\ next_task_pos[w] \in Nat
          /\ Len(worker_queues[w]) \in Nat /\ done_task_pos[w] <= next_task_pos[w]
          /\ done_task_pos[w] <= Len(worker_queues[w])
      BY <1>1, WorkerFacts DEF Inv, TypeOK, WorkerPositions
    <3>2. IsFiniteSet(Queued(w)) /\ Cardinality(Queued(w)) = Len(worker_queues[w]) - done_task_pos[w]
      <4>1. PICK l \in Nat, d \in Nat : l = Len(worker_queues[w]) /\ d = done_task_pos[w] /\ d <= l
        BY <3>1
      <4>2. IsFiniteSet(d + 1 .. l) /\ Cardinality(d + 1 .. l) = l - d
        <5>1. d + 1 \in Int /\ l \in Int
          OBVIOUS
        <5>2. /\ IsFiniteSet(d + 1 .. l)
              /\ Cardinality(d + 1 .. l) = IF d + 1 > l THEN 0 ELSE l - (d + 1) + 1
          BY <5>1, FS_Interval
        <5> QED BY <4>1, <5>2
      <4> QED BY <4>1, <4>2 DEF Queued
    <3>3. PICK L \in Nat : L = PerWorkerQueueLen /\ L > 1
      BY ConfigAssumption DEF QueuesLongEnough
    <3>4. Cardinality(Queued(w)) < L
      <4>1. CASE \E i \in Queued(w) : Pos(w, i) \notin Task
        <5>1. PICK i \in Queued(w) : Pos(w, i) \notin Task
          BY <4>1
        <5>2. Queued(w) = {i}
          BY <1>1, <5>1, QueuedAlone
        <5>3. Cardinality(Queued(w)) = 1
          BY <5>2, FS_Singleton
        <5> QED BY <3>3, <5>3
      <4>2. CASE \A i \in Queued(w) : Pos(w, i) \in Task
        <5>1. Queued(w) = PlainAt(w) \cup GangAt(w) /\ PlainAt(w) \cap GangAt(w) = {}
          BY <4>2 DEF PlainAt, GangAt
        <5>2. /\ IsFiniteSet(PlainAt(w)) /\ IsFiniteSet(GangAt(w))
              /\ Cardinality(PlainAt(w)) \in Nat /\ Cardinality(GangAt(w)) \in Nat
              /\ Cardinality(GangAt(w)) <= Cardinality(GangShare(w))
          BY <1>1, TurnFacts, GangsQueued
        <5>3. Cardinality(Queued(w)) = Cardinality(PlainAt(w)) + Cardinality(GangAt(w))
          BY <5>1, <5>2, DisjointUnion
        <5>4. PICK a \in Nat :
                /\ a + Cardinality(GangShare(w)) + 1 <= L
                /\ Cardinality(PlainShare(HwXcd[w])) <= a * Cardinality(WorkersAt(HwXcd[w]))
          <6> DEFINE peers == {v \in Worker : HwXcd[v] = HwXcd[w]}
                     share == {p \in Task : Owner(p) = HwXcd[w]}
                     gangs == {p \in share : /\ IsGang(p)
                                             /\ RankIn(peers, w) < AllTasks[p].n_tile_count}
                     turns == PerWorkerQueueLen - 1 - Cardinality(gangs)
          <6>1. /\ turns >= 0
                /\ Cardinality(share \ {p \in share : IsGang(p)}) <= turns * Cardinality(peers)
            BY DEF QueuesLongEnough
          <6>2. /\ peers = WorkersAt(HwXcd[w]) /\ share = ShareOf(HwXcd[w])
                /\ share \ {p \in share : IsGang(p)} = PlainShare(HwXcd[w])
            BY DEF WorkersAt, ShareOf, PlainShare
          <6>3. Cardinality(gangs) \in Nat /\ Cardinality(GangShare(w)) \in Nat
                /\ Cardinality(GangShare(w)) <= Cardinality(gangs)
            <7>1. IsFiniteSet(gangs)
              <8>1. gangs \subseteq Task
                OBVIOUS
              <8> QED BY <8>1, TaskFacts, FS_Subset
            <7>2. gangs = {p \in ShareOf(HwXcd[w]) :
                             /\ IsGang(p)
                             /\ RankIn(WorkersAt(HwXcd[w]), w) < AllTasks[p].n_tile_count}
              BY <6>2
            <7> HIDE DEF gangs
            <7> QED BY <7>1, <7>2, GangShareBound, FS_CardinalityType
          <6> HIDE DEF peers, share, gangs
          <6>4. turns \in Nat /\ turns + Cardinality(GangShare(w)) + 1 <= L
            BY <3>3, <6>1, <6>3
          <6> HIDE DEF turns
          <6> QED BY <6>1, <6>2, <6>4
        <5>5. Cardinality(PlainAt(w)) <= a
          BY <1>1, <5>4, PlainQueued
        <5>6. Cardinality(GangShare(w)) \in Nat
          BY GangShareBound
        <5> QED BY <5>2, <5>3, <5>4, <5>5, <5>6
      <4> QED BY <4>1, <4>2
    <3> QED BY <3>1, <3>2, <3>3, <3>4
  <2>2. ASSUME NEW s \in Sched, NEW q \in {s, Broadcast}, spc[s] # "exit"
        PROVE  Len(sched_queues[q]) < cur_event_pos[s][q] + PerSchedQueueLen
    <3>1. ShareOf(s) # {}
      BY DEF QueuesLongEnough, ShareOf
    <3>2. /\ Len(sched_queues[Broadcast]) <= cur_event_pos[s][Broadcast] + 1
          /\ Len(sched_queues[s]) <= cur_event_pos[s][s] + 2
      BY <1>1, <2>2, <3>1, UnreadEvents
    <3>3. /\ Len(sched_queues[q]) \in Nat /\ cur_event_pos[s][q] \in Nat
          /\ PerSchedQueueLen \in Nat /\ PerSchedQueueLen > 2
      BY <1>1, SchedFacts, Constants, ConfigAssumption DEF QueuesLongEnough
    <3>4. Len(sched_queues[q]) <= cur_event_pos[s][q] + 2
      <4>1. CASE q = Broadcast
        BY <3>2, <3>3, <4>1
      <4>2. CASE q = s
        BY <3>2, <4>2
      <4> QED BY <4>1, <4>2
    <3> QED BY <3>3, <3>4
  <2> QED BY <2>1, <2>2 DEF NoOverrun
<1> QED BY <1>1, SpecTurns, PTL
=============================================================================
