---------------------------- MODULE MemoryPlanner ----------------------------
(***************************************************************************)
(* The shared-memory planner of the CUDA transpiler                        *)
(* (plan_stensor_memory.cc): every tensor of a threadblock kernel has a    *)
(* size and a lifetime [alloc_time, free_time), and three online           *)
(* allocators - first fit, best fit, worst fit - replay the allocations    *)
(* and the frees in the order of time.  The plan with the smallest peak is *)
(* the one the kernel uses.                                                *)
(*                                                                         *)
(* The three allocators sort the same events with the same comparator, so  *)
(* they process them in one order, here in lockstep.  An address counts    *)
(* units of memory; a range << first, second >> is [first, second).        *)
(***************************************************************************)
EXTENDS Integers

CONSTANTS DeclSets,   \* the lists of declarations a kernel may come with
          ALIGNMENT   \* room left free below the first tensor

\* A list of declarations, as a function of the tensors' guids.  A tensor
\* without a size is refused by declare_tensor; one that is freed before it is
\* allocated (free_time = -1: nothing uses it) makes get_allocation throw.
WellFormed(d) ==
    \A t \in DOMAIN d :
        /\ d[t].phy_size \in Nat \ {0}
        /\ d[t].alloc_time \in Int
        /\ d[t].free_time \in Int
        /\ d[t].alloc_time < d[t].free_time

ASSUME DeclsAssumption == /\ \A d \in DeclSets : WellFormed(d)
                          /\ ALIGNMENT \in Nat

VARIABLES decls,       \* the declarations
          events,      \* the events not yet processed
          free_ranges, \* for each allocator, its free ranges
          peak,        \* for each allocator, cur_peak_usage
          addrs,       \* for each allocator, the address of each tensor
          plan         \* the plan the kernel uses; planner = "none" before

plannerVars == << decls, events, free_ranges, peak, addrs, plan >>

Tensor == DOMAIN decls
Planner == {"first", "best", "worse"}
NotPlaced == -1
Planned == plan.planner # "none"

Event(type, t) == [type |-> type, tensor |-> t]
IsAlloc(e) == e.type = "ALLOC"
Time(e) == IF IsAlloc(e) THEN decls[e.tensor].alloc_time
                         ELSE decls[e.tensor].free_time

\* The comparator of the sort: by time, a FREE before an ALLOC of the same
\* time.  The order of events it holds for equal is not specified.
Before(e, f) == \/ Time(e) < Time(f)
                \/ Time(e) = Time(f) /\ ~IsAlloc(e) /\ IsAlloc(f)

Due == {e \in events : \A f \in events : ~Before(f, e)}

PlannerInit ==
    /\ decls \in DeclSets
    /\ events = {Event("ALLOC", t) : t \in Tensor}
                  \cup {Event("FREE", t) : t \in Tensor}
    /\ free_ranges = [p \in Planner |-> {}]
    /\ peak = [p \in Planner |-> 0]
    /\ addrs = [p \in Planner |-> [t \in Tensor |-> NotPlaced]]
    /\ plan = [planner |-> "none", smem_size |-> 0,
               addrs |-> [t \in Tensor |-> NotPlaced]]

-----------------------------------------------------------------------------
(* Operations on the free ranges.                                          *)

Fits(r, size) == r[2] - r[1] >= size

\* The start of the last free range if that ends at the peak, the peak
\* otherwise: where memory that is added begins.
LastChunk(free, top) ==
    IF \E r \in free : r[2] = top
    THEN (CHOOSE r \in free : r[2] = top)[1] ELSE top

\* The free ranges with room for a tensor: when none has, the peak rises by
\* what the last chunk lacks.
HasRoom(free, size) == \E r \in free : Fits(r, size)
NewPeak(free, top, size) ==
    IF HasRoom(free, size) THEN top ELSE LastChunk(free, top) + size
Room(free, top, size) ==
    IF HasRoom(free, size) THEN free
    ELSE {r \in free : r[2] # top}
           \cup {<< LastChunk(free, top), LastChunk(free, top) + size >>}

\* select_range of the three allocators scans the free ranges by address:
\* which of two ranges that fit it would rather take.
Prefers(p, r, s) ==
    LET Size(x) == x[2] - x[1]
    IN  \/ p = "first" /\ r[1] < s[1]
        \/ p = "best" /\ (Size(r) < Size(s) \/ (Size(r) = Size(s) /\ r[1] < s[1]))
        \/ p = "worse" /\ (Size(r) > Size(s) \/ (Size(r) = Size(s) /\ r[1] < s[1]))
Selected(p, free, size) ==
    {r \in free : /\ Fits(r, size)
                  /\ \A s \in free : Fits(s, size) => ~Prefers(p, s, r)}

\* Mutant: the rest of the range starts a unit early.
MutSplit(free, r, size) ==
    (free \ {r}) \cup
       (IF Fits(r, size + 1) THEN {<< r[1] + size - 1, r[2] >>} ELSE {})

\* alloc_and_split: the tensor takes the start of the range.
Split(free, r, size) ==
    (free \ {r}) \cup
       (IF Fits(r, size + 1) THEN {<< r[1] + size, r[2] >>} ELSE {})

\* Mutant: the range behind is taken out and its space forgotten.
MutCoalesce(free, first, second) ==
    LET left == {r \in free : r[1] < first /\ r[2] >= first}
        right == {r \in free : r[1] >= first /\ r[1] <= second}
        begin == IF left = {} THEN first ELSE (CHOOSE r \in left : TRUE)[1]
    IN  (free \ (left \cup right)) \cup {<< begin, second >>}

\* free_and_coalesce: a range is merged with the free ranges it touches.
Coalesce(free, first, second) ==
    LET left == {r \in free : r[1] < first /\ r[2] >= first}
        right == {r \in free : r[1] >= first /\ r[1] <= second}
        begin == IF left = {} THEN first ELSE (CHOOSE r \in left : TRUE)[1]
        end == IF right = {} THEN second ELSE (CHOOSE r \in right : TRUE)[2]
    IN  (free \ (left \cup right)) \cup {<< begin, end >>}

-----------------------------------------------------------------------------
(* get_allocation and plan_memory.                                         *)

Alloc(t) ==
    LET size == decls[t].phy_size
        room == [p \in Planner |-> Room(free_ranges[p], peak[p], size)]
        selected == [p \in Planner |-> Selected(p, room[p], size)]
    IN  \E chosen \in [Planner -> UNION {selected[p] : p \in Planner}] :
          /\ \A p \in Planner : chosen[p] \in selected[p]
          /\ peak' = [p \in Planner |-> NewPeak(free_ranges[p], peak[p], size)]
          /\ addrs' = [p \in Planner |-> [addrs[p] EXCEPT ![t] = chosen[p][1]]]
          /\ free_ranges' = [p \in Planner |-> Split(room[p], chosen[p], size)]

Free(t) ==
    /\ free_ranges' =
         [p \in Planner |-> Coalesce(free_ranges[p], addrs[p][t],
                                     addrs[p][t] + decls[t].phy_size)]
    /\ UNCHANGED << peak, addrs >>

ProcessEvent(e) ==
    /\ e \in Due
    /\ events' = events \ {e}
    /\ IF IsAlloc(e) THEN Alloc(e.tensor) ELSE Free(e.tensor)
    /\ UNCHANGED << decls, plan >>

\* The plan with the smallest peak, the earlier allocator if they tie; the
\* kernel's addresses are ALIGNMENT higher.
Rank(p) == CASE p = "first" -> 1 [] p = "best" -> 2 [] p = "worse" -> 3
ChoosePlan ==
    /\ events = {} /\ ~Planned
    /\ \E p \in Planner :
         /\ \A q \in Planner : \/ peak[p] < peak[q]
                               \/ peak[p] = peak[q] /\ Rank(p) <= Rank(q)
         /\ plan' = [planner |-> p,
                     smem_size |-> peak[p] + ALIGNMENT,
                     addrs |-> [t \in Tensor |-> addrs[p][t] + ALIGNMENT]]
    /\ UNCHANGED << decls, events, free_ranges, peak, addrs >>

PlannerNext == (\E e \in events : ProcessEvent(e)) \/ ChoosePlan
PlannerSpec == PlannerInit /\ [][PlannerNext]_plannerVars

-----------------------------------------------------------------------------
(* Properties.                                                             *)

Pending(type, t) == Event(type, t) \in events
Live(t) == ~Pending("ALLOC", t) /\ Pending("FREE", t)
Extent(p, t) == << addrs[p][t], addrs[p][t] + decls[t].phy_size >>
Holds(r, a) == r[1] <= a /\ a < r[2]
Apart(r, s) == r[2] <= s[1] \/ s[2] <= r[1]

\* No unit of the memory an allocator manages is lost or given away twice:
\* below its peak every address belongs to exactly one of its free ranges and
\* the tensors alive (alloc_and_split and free_and_coalesce keep the books).
Partition ==
    \A p \in Planner :
      /\ \A a \in 0 .. peak[p] - 1 :
           (\E r \in free_ranges[p] : Holds(r, a)) \/ (\E t \in Tensor : Live(t) /\ Holds(Extent(p, t), a))
      /\ \A r, s \in free_ranges[p] : r # s => Apart(r, s)
      /\ \A t, u \in Tensor : Live(t) /\ Live(u) /\ t # u => Apart(Extent(p, t), Extent(p, u))
      /\ \A t \in Tensor : Live(t) => \A r \in free_ranges[p] : Apart(r, Extent(p, t))

\* What transpiler.md promises of the plan: tensors whose lifetimes have a time
\* in common have no address in common, and all fit in the memory the kernel
\* asks for, above the reserved start.
Together(t, u) == /\ decls[t].alloc_time < decls[u].free_time
                  /\ decls[u].alloc_time < decls[t].free_time
PlanExtent(t) == << plan.addrs[t], plan.addrs[t] + decls[t].phy_size >>
LifetimesRespected ==
    Planned =>
      /\ \A t, u \in Tensor : t # u /\ Together(t, u) => Apart(PlanExtent(t), PlanExtent(u))
      /\ \A t \in Tensor : /\ ALIGNMENT <= plan.addrs[t]
                           /\ plan.addrs[t] + decls[t].phy_size <= plan.smem_size
=============================================================================
