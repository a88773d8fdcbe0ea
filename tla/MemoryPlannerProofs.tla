-------------------------- MODULE MemoryPlannerProofs --------------------------
(***************************************************************************)
(* The shared-memory planner keeps its books and respects the lifetimes,   *)
(* for every list of declarations and whatever the order in which it takes *)
(* simultaneous events.  The lemmas say what each operation on the free    *)
(* ranges preserves; the invariant adds the order of the events to them.   *)
(* At the end the results are carried over to the kernel the plan is for.  *)
(***************************************************************************)
EXTENDS ThreadblockKernel, TLAPS

AddrRange == Nat \X Nat

\* The free ranges below the peak: proper ranges, apart from each other.
Good(free, top) ==
    /\ free \subseteq AddrRange
    /\ \A r \in free : r[1] < r[2] /\ r[2] <= top
    /\ \A r, s \in free : r # s => Apart(r, s)

\* When the peak rises the new free range begins at the peak or takes the last
\* one in: nothing below the peak that was not free becomes free
\* (rise_peak_usage).
LEMMA RoomLemma ==
    ASSUME NEW free, NEW top \in Nat, NEW size \in Nat \ {0}, Good(free, top)
    PROVE  /\ NewPeak(free, top, size) \in Nat
           /\ top <= NewPeak(free, top, size)
           /\ Good(Room(free, top, size), NewPeak(free, top, size))
           /\ \A x \in AddrRange :
                x[1] < x[2] /\ x[2] <= top /\ (\A r \in free : Apart(r, x))
                  => \A r \in Room(free, top, size) : Apart(r, x)
           /\ \A a \in Nat :
                (\E r \in free : Holds(r, a)) \/ (top <= a /\ a < NewPeak(free, top, size))
                  => \E r \in Room(free, top, size) : Holds(r, a)
<1> DEFINE last == LastChunk(free, top)
<1>1. CASE HasRoom(free, size)
  BY <1>1 DEF NewPeak, Room
<1>2. CASE ~HasRoom(free, size)
  <2>1. /\ last \in Nat /\ last <= top /\ top < last + size
        /\ \A r \in free : r[2] # top => r[2] <= last
        /\ \A r \in free : r[2] = top => r = << last, top >>
    <3>1. CASE \E r \in free : r[2] = top
      <4>1. PICK r \in free : r[2] = top /\ last = r[1]
        BY <3>1 DEF LastChunk
      <4>2. r \in AddrRange /\ r[1] < r[2] /\ r = << r[1], r[2] >>
        BY DEF Good, AddrRange
      <4>3. ~Fits(r, size)
        BY <1>2 DEF HasRoom
      <4>4. last \in Nat /\ last <= top /\ top < last + size
        BY <4>1, <4>2, <4>3 DEF Fits, AddrRange
      <4>5. ASSUME NEW s \in free, s # r PROVE s[2] <= last
        <5>1. Apart(r, s) /\ s \in AddrRange /\ s[1] < s[2] /\ s[2] <= top
          BY <4>5 DEF Good
        <5> QED
          BY <5>1, <4>1, <4>2 DEF Apart, AddrRange
      <4> QED
        BY <4>1, <4>2, <4>4, <4>5
    <3>2. CASE ~\E r \in free : r[2] = top
      <4>1. last = top
        BY <3>2 DEF LastChunk
      <4> QED
        BY <4>1, <3>2 DEF Good, AddrRange
    <3> QED
      BY <3>1, <3>2
  <2> DEFINE new == << last, last + size >>
  <2>2. /\ NewPeak(free, top, size) = last + size
        /\ Room(free, top, size) = {r \in free : r[2] # top} \cup {new}
    BY <1>2 DEF NewPeak, Room
  <2>3. new \in AddrRange /\ new[1] = last /\ new[2] = last + size
    BY <2>1 DEF AddrRange
  <2> HIDE DEF last, new
  <2>4. Good(Room(free, top, size), NewPeak(free, top, size))
    <3>1. Room(free, top, size) \subseteq AddrRange
      BY <2>2, <2>3 DEF Good
    <3>2. \A r \in Room(free, top, size) : r[1] < r[2] /\ r[2] <= last + size
      BY <2>1, <2>2, <2>3 DEF Good, AddrRange
    <3>3. \A r \in free : r[2] # top => Apart(r, new) /\ Apart(new, r)
      BY <2>1, <2>3 DEF Apart, Good, AddrRange
    <3>4. \A r, s \in Room(free, top, size) : r # s => Apart(r, s)
      BY <2>2, <3>3 DEF Good
    <3> QED
      BY <2>2, <3>1, <3>2, <3>4 DEF Good
  <2>5. ASSUME NEW x \in AddrRange, x[1] < x[2], x[2] <= top, \A r \in free : Apart(r, x)
        PROVE  \A r \in Room(free, top, size) : Apart(r, x)
    <3>1. x[2] <= last
      <4>1. CASE \E r \in free : r[2] = top
        <5>1. << last, top >> \in free
          BY <4>1, <2>1
        <5>2. Apart(<< last, top >>, x)
          BY <5>1, <2>5
        <5> QED
          BY <5>2, <2>5, <2>1 DEF Apart, AddrRange
      <4>2. CASE ~\E r \in free : r[2] = top
        BY <4>2, <2>5 DEF last, LastChunk
      <4> QED
        BY <4>1, <4>2
    <3> QED
      BY <3>1, <2>2, <2>3, <2>5 DEF Apart
  <2>6. ASSUME NEW a \in Nat,
               (\E r \in free : Holds(r, a)) \/ (top <= a /\ a < last + size)
        PROVE  \E r \in Room(free, top, size) : Holds(r, a)
    <3>1. CASE \E r \in free : Holds(r, a) /\ r[2] # top
      BY <3>1, <2>2
    <3>2. CASE \E r \in free : Holds(r, a) /\ r[2] = top
      <4>1. Holds(<< last, top >>, a)
        BY <3>2, <2>1
      <4>2. Holds(new, a)
        BY <4>1, <2>1, <2>3 DEF Holds
      <4> QED
        BY <4>2, <2>2
    <3>3. CASE top <= a /\ a < last + size
      <4>1. Holds(new, a)
        BY <3>3, <2>1, <2>3 DEF Holds
      <4> QED
        BY <4>1, <2>2
    <3> QED
      BY <3>1, <3>2, <3>3, <2>6
  <2> QED
    BY <2>1, <2>2, <2>4, <2>5, <2>6
<1> QED
  BY <1>1, <1>2

\* A tensor takes the start of a free range; the rest stays free and nothing
\* else changes (alloc_and_split).
LEMMA SplitLemma ==
    ASSUME NEW free, NEW top \in Nat, NEW size \in Nat \ {0}, Good(free, top),
           NEW r \in free, Fits(r, size)
    PROVE  LET taken == << r[1], r[1] + size >>
           IN  /\ taken \in AddrRange /\ taken[2] <= top
               /\ Good(Split(free, r, size), top)
               /\ \A s \in Split(free, r, size) : Apart(s, taken)
               /\ \A x \in AddrRange :
                    x[1] < x[2] /\ (\A s \in free : Apart(s, x))
                      => /\ Apart(taken, x) /\ Apart(x, taken)
                         /\ \A s \in Split(free, r, size) : Apart(s, x)
               /\ \A a \in Nat :
                    (\E s \in free : Holds(s, a))
                      => Holds(taken, a) \/ \E s \in Split(free, r, size) : Holds(s, a)
<1> DEFINE taken == << r[1], r[1] + size >>
           rest == << r[1] + size, r[2] >>
<1>1. /\ r \in AddrRange /\ r[1] < r[2] /\ r[2] <= top /\ r[1] + size <= r[2]
      /\ r = << r[1], r[2] >> /\ r[1] \in Nat /\ r[2] \in Nat
  BY DEF Good, Fits, AddrRange
<1>2. /\ taken \in AddrRange /\ taken[1] = r[1] /\ taken[2] = r[1] + size
      /\ rest \in AddrRange /\ rest[1] = r[1] + size /\ rest[2] = r[2]
  BY <1>1 DEF AddrRange
<1>3. CASE r[1] + size = r[2]
  <2>1. Split(free, r, size) = free \ {r}
    BY <1>1, <1>3 DEF Split, Fits
  <2>2. taken = r
    BY <1>1, <1>3
  <2> HIDE DEF taken, rest
  <2>3. Good(Split(free, r, size), top)
    BY <2>1 DEF Good
  <2>4. \A s \in Split(free, r, size) : Apart(s, taken)
    BY <2>1, <2>2 DEF Good
  <2>5. \A x \in AddrRange : (\A s \in free : Apart(s, x)) =>
           /\ Apart(taken, x) /\ Apart(x, taken)
           /\ \A s \in Split(free, r, size) : Apart(s, x)
    BY <2>1, <2>2 DEF Apart
  <2>6. \A a \in Nat : (\E s \in free : Holds(s, a))
           => Holds(taken, a) \/ \E s \in Split(free, r, size) : Holds(s, a)
    BY <2>1, <2>2
  <2> QED
    BY <1>1, <1>2, <2>3, <2>4, <2>5, <2>6 DEF taken
<1>4. CASE r[1] + size < r[2]
  <2>1. Split(free, r, size) = (free \ {r}) \cup {rest}
    BY <1>1, <1>4 DEF Split, Fits
  <2> HIDE DEF taken, rest
  <2>2. \A s \in free \ {r} : Apart(s, taken) /\ Apart(s, rest) /\ Apart(rest, s)
    BY <1>1, <1>2, <1>4 DEF Apart, Good, AddrRange
  <2>3. Good(Split(free, r, size), top)
    BY <1>1, <1>2, <1>4, <2>1, <2>2 DEF Good
  <2>4. \A s \in Split(free, r, size) : Apart(s, taken)
    BY <1>1, <1>2, <2>1, <2>2 DEF Apart
  <2>5. ASSUME NEW x \in AddrRange, x[1] < x[2], \A s \in free : Apart(s, x)
        PROVE  /\ Apart(taken, x) /\ Apart(x, taken)
               /\ \A s \in Split(free, r, size) : Apart(s, x)
    <3>1. Apart(r, x)
      BY <2>5
    <3>2. Apart(taken, x) /\ Apart(x, taken) /\ Apart(rest, x)
      BY <3>1, <2>5, <1>1, <1>2, <1>4 DEF Apart, AddrRange
    <3> QED
      BY <3>2, <2>5, <2>1
  <2>6. ASSUME NEW a \in Nat, \E s \in free : Holds(s, a)
        PROVE  Holds(taken, a) \/ \E s \in Split(free, r, size) : Holds(s, a)
    <3>1. CASE Holds(r, a)
      <4>1. Holds(taken, a) \/ Holds(rest, a)
        BY <3>1, <1>1, <1>2 DEF Holds
      <4> QED
        BY <4>1, <2>1
    <3> QED
      BY <3>1, <2>1, <2>6
  <2> QED
    BY <1>1, <1>2, <2>3, <2>4, <2>5, <2>6 DEF taken
<1> QED
  BY <1>1, <1>3, <1>4

\* What is freed is merged with the free ranges that touch it, and nothing else
\* becomes free or is lost (free_and_coalesce).
LEMMA CoalesceLemma ==
    ASSUME NEW free, NEW top \in Nat, Good(free, top),
           NEW first \in Nat, NEW second \in Nat, first < second, second <= top,
           \A r \in free : Apart(r, << first, second >>)
    PROVE  /\ Good(Coalesce(free, first, second), top)
           /\ \A x \in AddrRange :
                /\ x[1] < x[2] /\ Apart(<< first, second >>, x)
                /\ \A r \in free : Apart(r, x)
                => \A r \in Coalesce(free, first, second) : Apart(r, x)
           /\ \A a \in Nat :
                Holds(<< first, second >>, a) \/ (\E r \in free : Holds(r, a))
                  => \E r \in Coalesce(free, first, second) : Holds(r, a)
<1> DEFINE left == {r \in free : r[1] < first /\ r[2] >= first}
           right == {r \in free : r[1] >= first /\ r[1] <= second}
           begin == IF left = {} THEN first ELSE (CHOOSE r \in left : TRUE)[1]
           end == IF right = {} THEN second ELSE (CHOOSE r \in right : TRUE)[2]
           merged == << begin, end >>
<1>1. \A r \in free :
        /\ r \in AddrRange /\ r[1] \in Nat /\ r[2] \in Nat
        /\ r[1] < r[2] /\ r[2] <= top
        /\ (r[2] <= first \/ second <= r[1])
  BY DEF Good, AddrRange, Apart
<1>2. Coalesce(free, first, second) = (free \ (left \cup right)) \cup {merged}
  BY DEF Coalesce
<1>3. /\ begin \in Nat /\ begin <= first
      /\ \A r \in left : r[1] = begin /\ r[2] = first
      /\ \A r \in free : r \notin left /\ r[2] <= first => r[2] <= begin
      /\ begin = first \/ \E r \in left : r[1] = begin
  <2>1. CASE left = {}
    BY <2>1, <1>1
  <2>2. CASE left # {}
    <3>1. PICK r \in free : r \in left /\ begin = r[1]
      BY <2>2
    <3> HIDE DEF begin
    <3>2. r[2] = first /\ r[1] < first /\ r[1] \in Nat
      BY <1>1, <3>1
    <3>3. ASSUME NEW s \in free, s # r, s[2] <= first PROVE s[2] <= begin
      BY <3>1, <3>2, <3>3, <1>1 DEF Good, Apart
    <3>4. \A s \in left : s = r
      BY <3>1, <3>2, <3>3, <1>1
    <3> QED
      BY <3>1, <3>2, <3>3, <3>4
  <2> QED
    BY <2>1, <2>2
<1>4. /\ end \in Nat /\ second <= end /\ end <= top
      /\ \A r \in right : r[1] = second /\ r[2] = end
      /\ \A r \in free : r \notin right /\ second <= r[1] => end <= r[1]
      /\ end = second \/ \E r \in right : r[2] = end
  <2>1. CASE right = {}
    BY <2>1, <1>1
  <2>2. CASE right # {}
    <3>1. PICK r \in free : r \in right /\ end = r[2]
      BY <2>2
    <3> HIDE DEF end
    <3>2. r[1] = second /\ second < r[2] /\ r[2] \in Nat /\ r[2] <= top
      BY <1>1, <3>1
    <3>3. ASSUME NEW s \in free, s # r, second <= s[1] PROVE end <= s[1]
      BY <3>1, <3>2, <3>3, <1>1 DEF Good, Apart
    <3>4. \A s \in right : s = r
      BY <3>1, <3>2, <3>3, <1>1
    <3> QED
      BY <3>1, <3>2, <3>3, <3>4
  <2> QED
    BY <2>1, <2>2
<1>5. merged \in AddrRange /\ merged[1] = begin /\ merged[2] = end
  BY <1>3, <1>4 DEF AddrRange
<1>6. \A r \in free \ (left \cup right) : r[2] <= begin \/ end <= r[1]
  BY <1>1, <1>3, <1>4
<1> HIDE DEF begin, end, merged
<1>7. Good(Coalesce(free, first, second), top)
  <2>1. \A r \in free \ (left \cup right) : Apart(r, merged) /\ Apart(merged, r)
    BY <1>5, <1>6 DEF Apart
  <2> QED
    BY <1>1, <1>2, <1>3, <1>4, <1>5, <2>1 DEF Good
<1>8. ASSUME NEW x \in AddrRange, x[1] < x[2], Apart(<< first, second >>, x),
             \A r \in free : Apart(r, x)
      PROVE  \A r \in Coalesce(free, first, second) : Apart(r, x)
  <2>1. x[1] \in Nat /\ x[2] \in Nat /\ (second <= x[1] \/ x[2] <= first)
    BY <1>8 DEF AddrRange, Apart
  <2>2. CASE x[2] <= first
    <3>1. x[2] <= begin
      <4>1. CASE \E r \in left : r[1] = begin
        BY <4>1, <2>1, <2>2, <1>3, <1>8 DEF Apart
      <4> QED
        BY <4>1, <2>2, <1>3
    <3> QED
      BY <3>1, <1>2, <1>5, <1>8 DEF Apart
  <2>3. CASE second <= x[1]
    <3>1. end <= x[1]
      <4>1. CASE \E r \in right : r[2] = end
        BY <4>1, <2>1, <2>3, <1>4, <1>8 DEF Apart
      <4> QED
        BY <4>1, <2>3, <1>4
    <3> QED
      BY <3>1, <1>2, <1>5, <1>8 DEF Apart
  <2> QED
    BY <2>1, <2>2, <2>3
<1>9. ASSUME NEW a \in Nat,
             Holds(<< first, second >>, a) \/ (\E r \in free : Holds(r, a))
      PROVE  \E r \in Coalesce(free, first, second) : Holds(r, a)
  <2>1. CASE \E r \in free \ (left \cup right) : Holds(r, a)
    BY <2>1, <1>2
  <2>2. CASE Holds(<< first, second >>, a) \/ \E r \in left \cup right : Holds(r, a)
    <3>1. Holds(merged, a)
      BY <2>2, <1>3, <1>4, <1>5 DEF Holds
    <3> QED
      BY <3>1, <1>2
  <2> QED
    BY <1>9, <2>1, <2>2
<1> QED
  BY <1>7, <1>8, <1>9

-----------------------------------------------------------------------------
(* The inductive invariant.                                                *)

AllEvents == {Event("ALLOC", t) : t \in Tensor} \cup {Event("FREE", t) : t \in Tensor}
Allocated(t) == ~Pending("ALLOC", t)

PlannerTypeOK ==
    /\ WellFormed(decls)
    /\ events \subseteq AllEvents
    /\ free_ranges \in [Planner -> SUBSET AddrRange]
    /\ peak \in [Planner -> Nat]
    /\ addrs \in [Planner -> [Tensor -> Int]]

\* The events are taken in the order of the comparator.
InOrder == \A e \in AllEvents \ events : \A f \in events : ~Before(f, e)

\* What an allocator knows of its memory is right.
Books(p) ==
    /\ Good(free_ranges[p], peak[p])
    /\ \A t \in Tensor : Allocated(t) =>
         Extent(p, t) \in AddrRange /\ Extent(p, t)[2] <= peak[p]
    /\ \A t, u \in Tensor : Live(t) /\ Live(u) /\ t # u => Apart(Extent(p, t), Extent(p, u))
    /\ \A t \in Tensor : Live(t) => \A r \in free_ranges[p] : Apart(r, Extent(p, t))
    /\ \A a \in Nat : a < peak[p] =>
         \/ \E r \in free_ranges[p] : Holds(r, a)
         \/ \E t \in Tensor : Live(t) /\ Holds(Extent(p, t), a)

\* Tensors placed so far, freed since or not, are apart if they live together.
PlacedApart(p) ==
    \A t, u \in Tensor :
      t # u /\ Allocated(t) /\ Allocated(u) /\ Together(t, u)
        => Apart(Extent(p, t), Extent(p, u))

PlanTaken ==
    Planned =>
      /\ events = {}
      /\ \E p \in Planner :
           /\ plan.smem_size = peak[p] + ALIGNMENT
           /\ plan.addrs = [t \in Tensor |-> addrs[p][t] + ALIGNMENT]

PlannerInv ==
    /\ PlannerTypeOK /\ InOrder /\ PlanTaken
    /\ \A p \in Planner : Books(p) /\ PlacedApart(p)

\* The events of the tensors are told apart by type and tensor.
LEMMA EventFacts ==
    /\ \A a, t : Event(a, t).type = a /\ Event(a, t).tensor = t
    /\ \A a, b, t, u : Event(a, t) = Event(b, u) => a = b /\ t = u
    /\ \A t : IsAlloc(Event("ALLOC", t)) /\ ~IsAlloc(Event("FREE", t))
    /\ \A t : /\ Time(Event("ALLOC", t)) = decls[t].alloc_time
              /\ Time(Event("FREE", t)) = decls[t].free_time
<1>1. \A a, t : Event(a, t).type = a /\ Event(a, t).tensor = t
  BY DEF Event
<1>2. \A a, b, t, u : Event(a, t) = Event(b, u) => a = b /\ t = u
  BY <1>1
<1> HIDE DEF Event
<1> QED
  BY <1>1, <1>2 DEF IsAlloc, Time

\* A tensor is allocated before it is freed, and nothing that lives with a
\* tensor still to be allocated has been freed yet.
LEMMA OrderFacts ==
    ASSUME PlannerTypeOK, InOrder
    PROVE  /\ \A t \in Tensor : Pending("ALLOC", t) => Pending("FREE", t)
           /\ \A t, u \in Tensor : Pending("ALLOC", u) /\ Together(t, u) => Pending("FREE", t)
<1> USE EventFacts
<1>1. \A t \in Tensor : /\ decls[t].alloc_time \in Int /\ decls[t].free_time \in Int
                        /\ decls[t].alloc_time < decls[t].free_time
  BY DEF PlannerTypeOK, WellFormed, Tensor
<1>2. \A t \in Tensor : Event("FREE", t) \in AllEvents
  BY DEF AllEvents
<1>3. \A t, u \in Tensor :
        Pending("ALLOC", u) /\ ~Pending("FREE", t)
          => ~(decls[u].alloc_time < decls[t].free_time)
  BY <1>2 DEF InOrder, Pending, Before
<1> QED
  BY <1>1, <1>3 DEF Together

LEMMA InitInv == PlannerInit => PlannerInv
<1> SUFFICES ASSUME PlannerInit PROVE PlannerInv
  OBVIOUS
<1>1. events = AllEvents
  BY DEF PlannerInit, AllEvents
<1>2. \A t \in Tensor : Pending("ALLOC", t) /\ ~Live(t) /\ ~Allocated(t)
  BY <1>1 DEF Pending, AllEvents, Live, Allocated
<1>3. PlannerTypeOK
  <2>1. WellFormed(decls)
    BY DeclsAssumption DEF PlannerInit
  <2> QED
    BY <1>1, <2>1 DEF PlannerInit, PlannerTypeOK, NotPlaced
<1>4. InOrder /\ PlanTaken
  BY <1>1 DEF InOrder, PlanTaken, Planned, PlannerInit
<1>5. ASSUME NEW p \in Planner PROVE Books(p) /\ PlacedApart(p)
  <2>1. free_ranges[p] = {} /\ peak[p] = 0
    BY DEF PlannerInit
  <2> QED
    BY <1>2, <2>1 DEF Books, PlacedApart, Good
<1> QED
  BY <1>3, <1>4, <1>5 DEF PlannerInv

-----------------------------------------------------------------------------
(* The steps.                                                              *)

\* Whatever event is taken, the order is kept, and the plan is not made yet.
LEMMA ProcessOrder ==
    ASSUME PlannerTypeOK, InOrder, PlanTaken, NEW e \in events, ProcessEvent(e)
    PROVE  InOrder' /\ PlanTaken' /\ ~Planned /\ decls' = decls
<1>1. decls' = decls /\ plan' = plan /\ events' = events \ {e} /\ e \in Due /\ events # {}
  BY DEF ProcessEvent
<1>2. ~Planned
  BY <1>1 DEF PlanTaken
<1>3. \A f, g : Before(f, g)' <=> Before(f, g)
  BY <1>1 DEF Before, Time
<1>4. AllEvents' = AllEvents
  BY <1>1 DEF AllEvents, Tensor
<1>5. \A f \in events : ~Before(f, e)
  BY <1>1 DEF Due
<1>6. InOrder'
  BY <1>1, <1>3, <1>4, <1>5 DEF InOrder
<1> QED
  BY <1>1, <1>2, <1>6 DEF PlanTaken, Planned

LEMMA AllocInv ==
    ASSUME PlannerInv, NEW t \in Tensor, Event("ALLOC", t) \in events,
           ProcessEvent(Event("ALLOC", t))
    PROVE  PlannerInv'
<1> DEFINE size == decls[t].phy_size
<1>1. /\ PlannerTypeOK /\ InOrder /\ PlanTaken
      /\ \A p \in Planner : Books(p) /\ PlacedApart(p)
  BY DEF PlannerInv
<1>2. InOrder' /\ PlanTaken' /\ decls' = decls
  BY <1>1, ProcessOrder
<1>3. events' = events \ {Event("ALLOC", t)} /\ Alloc(t)
  BY EventFacts DEF ProcessEvent
<1>4. Tensor' = Tensor
  BY <1>2 DEF Tensor
<1>5. size \in Nat \ {0}
  BY <1>1 DEF PlannerTypeOK, WellFormed, Tensor
<1>6. /\ ~Allocated(t) /\ ~Live(t)
      /\ \A u \in Tensor : Allocated(u)' <=> (Allocated(u) \/ u = t)
      /\ \A u \in Tensor : Live(u)' <=> (Live(u) \/ u = t)
  <2>1. \A u : Pending("FREE", u)' <=> Pending("FREE", u)
    BY <1>3, EventFacts DEF Pending
  <2>2. \A u : Pending("ALLOC", u)' <=> (Pending("ALLOC", u) /\ u # t)
    BY <1>3, EventFacts DEF Pending
  <2>3. Pending("ALLOC", t) /\ Pending("FREE", t)
    BY <1>1, OrderFacts DEF Pending
  <2> QED
    BY <2>1, <2>2, <2>3 DEF Allocated, Live
<1>7. \A u \in Tensor \ {t} : Allocated(u) /\ Together(t, u) => Live(u)
  BY <1>1, OrderFacts DEF Allocated, Live, Pending, Together
<1> DEFINE rooms == [p \in Planner |-> Room(free_ranges[p], peak[p], size)]
           selected == [p \in Planner |-> Selected(p, rooms[p], size)]
<1>8. PICK chosen \in [Planner -> UNION {selected[p] : p \in Planner}] :
        /\ \A p \in Planner : chosen[p] \in selected[p]
        /\ peak' = [p \in Planner |-> NewPeak(free_ranges[p], peak[p], size)]
        /\ addrs' = [p \in Planner |-> [addrs[p] EXCEPT ![t] = chosen[p][1]]]
        /\ free_ranges' = [p \in Planner |-> Split(rooms[p], chosen[p], size)]
  BY <1>3, Zenon DEF Alloc
<1> HIDE DEF size
<1>9. ASSUME NEW p \in Planner
      PROVE  /\ Books(p)' /\ PlacedApart(p)'
             /\ peak'[p] \in Nat /\ free_ranges'[p] \in SUBSET AddrRange
             /\ addrs'[p] \in [Tensor -> Int]
  <2> DEFINE free == free_ranges[p]
             top == peak[p]
             room == Room(free, top, size)
             newTop == NewPeak(free, top, size)
             c == chosen[p]
             taken == << c[1], c[1] + size >>
             rest == Split(room, c, size)
  <2>1. Books(p) /\ PlacedApart(p) /\ top \in Nat /\ Good(free, top)
    BY <1>1 DEF Books, PlannerTypeOK
  <2>2. c \in room /\ Fits(c, size)
    <3>1. c \in Selected(p, room, size)
      BY <1>8
    <3> QED
      BY <3>1 DEF Selected
  <2>3. /\ newTop \in Nat /\ top <= newTop /\ Good(room, newTop)
        /\ \A x \in AddrRange :
             x[1] < x[2] /\ x[2] <= top /\ (\A r \in free : Apart(r, x))
               => \A r \in room : Apart(r, x)
        /\ \A a \in Nat :
             (\E r \in free : Holds(r, a)) \/ (top <= a /\ a < newTop)
               => \E r \in room : Holds(r, a)
    BY <1>5, <2>1, RoomLemma
  <2> HIDE DEF free, top, room, newTop, c
  <2>4. /\ taken \in AddrRange /\ taken[2] <= newTop /\ Good(rest, newTop)
        /\ \A s \in rest : Apart(s, taken)
        /\ \A x \in AddrRange :
             x[1] < x[2] /\ (\A s \in room : Apart(s, x))
               => /\ Apart(taken, x) /\ Apart(x, taken)
                  /\ \A s \in rest : Apart(s, x)
        /\ \A a \in Nat :
             (\E s \in room : Holds(s, a))
               => Holds(taken, a) \/ \E s \in rest : Holds(s, a)
    BY <1>5, <2>2, <2>3, SplitLemma
  <2>5. /\ free_ranges'[p] = rest /\ peak'[p] = newTop
        /\ addrs'[p] = [addrs[p] EXCEPT ![t] = c[1]]
    BY <1>8 DEF free, top, room, newTop, c
  <2> HIDE DEF rest
  <2>6. addrs[p] \in [Tensor -> Int]
    BY <1>1 DEF PlannerTypeOK
  <2>7. /\ Extent(p, t)' = taken
        /\ \A u \in Tensor \ {t} : Extent(p, u)' = Extent(p, u)
    BY <1>2, <2>5, <2>6 DEF Extent, size
  <2> HIDE DEF taken
  <2>8. \A u \in Tensor : Allocated(u) =>
          /\ Extent(p, u) \in AddrRange /\ Extent(p, u)[2] <= top
          /\ Extent(p, u)[1] < Extent(p, u)[2]
    <3>1. \A u \in Tensor : Extent(p, u)[1] < Extent(p, u)[2]
      BY <1>1, <2>6 DEF Extent, PlannerTypeOK, WellFormed, Tensor
    <3> QED
      BY <2>1, <3>1 DEF Books, top
  <2>9. \A u \in Tensor : Live(u) =>
          /\ Apart(taken, Extent(p, u)) /\ Apart(Extent(p, u), taken)
          /\ \A r \in rest : Apart(r, Extent(p, u))
    <3>1. \A u \in Tensor : Live(u) => Allocated(u) /\ \A r \in free : Apart(r, Extent(p, u))
      BY <2>1 DEF Books, Live, Allocated, free
    <3> QED
      BY <2>3, <2>4, <2>8, <3>1
  <2>10. \A u \in Tensor : Allocated(u)' =>
           Extent(p, u)' \in AddrRange /\ Extent(p, u)'[2] <= newTop
    <3>1. ASSUME NEW u \in Tensor \ {t}, Allocated(u)
          PROVE  Extent(p, u) \in AddrRange /\ Extent(p, u)[2] <= newTop
      BY <2>1, <2>3, <2>8, <3>1 DEF AddrRange
    <3> QED
      BY <1>6, <2>4, <2>7, <3>1
  <2>11. \A u, v \in Tensor : Live(u)' /\ Live(v)' /\ u # v => Apart(Extent(p, u)', Extent(p, v)')
    BY <1>6, <2>1, <2>7, <2>9 DEF Books
  <2>12. \A u \in Tensor : Live(u)' => \A r \in rest : Apart(r, Extent(p, u)')
    BY <1>6, <2>4, <2>7, <2>9
  <2>13. ASSUME NEW a \in Nat, a < newTop
         PROVE  (\E r \in rest : Holds(r, a)) \/ \E u \in Tensor : Live(u)' /\ Holds(Extent(p, u)', a)
    <3>1. CASE \E u \in Tensor : Live(u) /\ Holds(Extent(p, u), a)
      BY <3>1, <1>6, <2>7
    <3>2. CASE (\E r \in free : Holds(r, a)) \/ top <= a
      <4>1. \E r \in room : Holds(r, a)
        BY <3>2, <2>3, <2>13
      <4>2. Holds(taken, a) \/ \E r \in rest : Holds(r, a)
        BY <4>1, <2>4
      <4> QED
        BY <4>2, <1>6, <2>7
    <3>3. a < top \/ top <= a
      BY <2>1
    <3> QED
      BY <2>1, <3>1, <3>2, <3>3 DEF Books, free, top
  <2>14. Books(p)'
    BY <1>4, <2>4, <2>5, <2>10, <2>11, <2>12, <2>13 DEF Books
  <2>15. PlacedApart(p)'
    <3>1. \A u, v : Together(u, v)' <=> Together(u, v)
      BY <1>2 DEF Together
    <3>2. \A u \in Tensor \ {t} : Allocated(u) /\ (Together(t, u) \/ Together(u, t))
            => Apart(taken, Extent(p, u)) /\ Apart(Extent(p, u), taken)
      BY <1>7, <2>9 DEF Together
    <3>3. \A u, v \in Tensor \ {t} : u # v /\ Allocated(u) /\ Allocated(v) /\ Together(u, v)
            => Apart(Extent(p, u), Extent(p, v))
      BY <2>1 DEF PlacedApart
    <3>4. \A u, v \in Tensor : u # v /\ Allocated(u)' /\ Allocated(v)' /\ Together(u, v)
            => Apart(Extent(p, u)', Extent(p, v)')
      BY <1>6, <2>7, <3>2, <3>3
    <3> QED
      BY <1>4, <3>1, <3>4 DEF PlacedApart
  <2>16. c[1] \in Int
    BY <2>2, <2>3 DEF Good, AddrRange
  <2> QED
    BY <2>3, <2>4, <2>5, <2>6, <2>14, <2>15, <2>16 DEF Good
<1>10. PlannerTypeOK'
  <2>1. events' \subseteq AllEvents'
    BY <1>1, <1>3, <1>4 DEF PlannerTypeOK, AllEvents
  <2>2. peak' \in [Planner -> Nat] /\ free_ranges' \in [Planner -> SUBSET AddrRange]
    BY <1>8, <1>9
  <2>3. addrs' \in [Planner -> [Tensor -> Int]]
    BY <1>8, <1>9
  <2> QED
    BY <1>1, <1>2, <1>4, <2>1, <2>2, <2>3 DEF PlannerTypeOK
<1> QED
  BY <1>2, <1>9, <1>10 DEF PlannerInv

LEMMA FreeInv ==
    ASSUME PlannerInv, NEW t \in Tensor, Event("FREE", t) \in events,
           ProcessEvent(Event("FREE", t))
    PROVE  PlannerInv'
<1>1. /\ PlannerTypeOK /\ InOrder /\ PlanTaken
      /\ \A p \in Planner : Books(p) /\ PlacedApart(p)
  BY DEF PlannerInv
<1>2. InOrder' /\ PlanTaken' /\ decls' = decls
  BY <1>1, ProcessOrder
<1>3. events' = events \ {Event("FREE", t)} /\ Free(t) /\ Event("FREE", t) \in Due
  BY EventFacts DEF ProcessEvent
<1>4. Tensor' = Tensor
  BY <1>2 DEF Tensor
<1>5. /\ peak' = peak /\ addrs' = addrs
      /\ free_ranges' = [p \in Planner |-> Coalesce(free_ranges[p], addrs[p][t],
                                                     addrs[p][t] + decls[t].phy_size)]
  BY <1>3 DEF Free
<1>6. /\ Live(t) /\ Allocated(t)
      /\ \A u \in Tensor : Allocated(u)' <=> Allocated(u)
      /\ \A u \in Tensor : Live(u)' <=> (Live(u) /\ u # t)
  <2>1. ~Pending("ALLOC", t)
    <3>1. Before(Event("ALLOC", t), Event("FREE", t))
      BY <1>1, EventFacts DEF Before, PlannerTypeOK, WellFormed, Tensor
    <3> QED
      BY <3>1, <1>3 DEF Due, Pending
  <2>2. \A u : Pending("ALLOC", u)' <=> Pending("ALLOC", u)
    BY <1>3, EventFacts DEF Pending
  <2>3. \A u : Pending("FREE", u)' <=> (Pending("FREE", u) /\ u # t)
    BY <1>3, EventFacts DEF Pending
  <2> QED
    BY <2>1, <2>2, <2>3 DEF Allocated, Live, Pending
<1>7. ASSUME NEW p \in Planner
      PROVE  /\ Books(p)' /\ PlacedApart(p)'
             /\ free_ranges'[p] \in SUBSET AddrRange
  <2> DEFINE free == free_ranges[p]
             first == addrs[p][t]
             second == addrs[p][t] + decls[t].phy_size
             merged == Coalesce(free, first, second)
  <2>1. /\ Books(p) /\ PlacedApart(p) /\ peak[p] \in Nat /\ Good(free, peak[p])
        /\ addrs[p] \in [Tensor -> Int]
    BY <1>1 DEF Books, PlannerTypeOK
  <2>2. free_ranges'[p] = merged /\ peak'[p] = peak[p]
    BY <1>5
  <2>3. Extent(p, t) = << first, second >> /\ \A u : Extent(p, u)' = Extent(p, u)
    BY <1>2, <1>5 DEF Extent
  <2>4. \A u \in Tensor : Allocated(u) =>
          /\ Extent(p, u) \in AddrRange /\ Extent(p, u)[2] <= peak[p]
          /\ Extent(p, u)[1] < Extent(p, u)[2]
    <3>1. \A u \in Tensor : Extent(p, u)[1] < Extent(p, u)[2]
      BY <1>1, <2>1 DEF Extent, PlannerTypeOK, WellFormed, Tensor
    <3> QED
      BY <2>1, <3>1 DEF Books
  <2>5. /\ first \in Nat /\ second \in Nat /\ first < second /\ second <= peak[p]
        /\ \A r \in free : Apart(r, << first, second >>)
    BY <1>6, <2>1, <2>3, <2>4 DEF Books, AddrRange
  <2> HIDE DEF first, second, free
  <2>6. /\ Good(merged, peak[p])
        /\ \A x \in AddrRange :
             /\ x[1] < x[2] /\ Apart(<< first, second >>, x)
             /\ \A r \in free : Apart(r, x)
             => \A r \in merged : Apart(r, x)
        /\ \A a \in Nat :
             Holds(<< first, second >>, a) \/ (\E r \in free : Holds(r, a))
               => \E r \in merged : Holds(r, a)
    BY <2>1, <2>5, CoalesceLemma
  <2> HIDE DEF merged
  <2>7. ASSUME NEW u \in Tensor, Live(u), u # t
        PROVE  \A r \in merged : Apart(r, Extent(p, u))
    <3>1. Apart(<< first, second >>, Extent(p, u)) /\ \A r \in free : Apart(r, Extent(p, u))
      BY <1>6, <2>1, <2>3, <2>7 DEF Books, free
    <3> QED
      BY <2>4, <2>6, <2>7, <3>1 DEF Live, Allocated
  <2>8. ASSUME NEW a \in Nat, a < peak[p]
        PROVE  (\E r \in merged : Holds(r, a)) \/ \E u \in Tensor : Live(u)' /\ Holds(Extent(p, u)', a)
    <3>1. (\E r \in free : Holds(r, a)) \/ \E u \in Tensor : Live(u) /\ Holds(Extent(p, u), a)
      BY <2>1, <2>8 DEF Books, free
    <3>2. CASE \E r \in free : Holds(r, a)
      BY <3>2, <2>6
    <3>3. CASE \E u \in Tensor : Live(u) /\ Holds(Extent(p, u), a)
      <4>1. Holds(Extent(p, t), a) => \E r \in merged : Holds(r, a)
        BY <2>3, <2>6
      <4> QED
        BY <4>1, <3>3, <1>6, <2>3
    <3> QED
      BY <3>1, <3>2, <3>3
  <2>9. Books(p)'
    <3>1. \A u \in Tensor : Allocated(u)' =>
            Extent(p, u)' \in AddrRange /\ Extent(p, u)'[2] <= peak[p]
      BY <1>6, <2>3, <2>4
    <3>2. \A u, v \in Tensor : Live(u)' /\ Live(v)' /\ u # v => Apart(Extent(p, u)', Extent(p, v)')
      BY <1>6, <2>1, <2>3 DEF Books
    <3>3. \A u \in Tensor : Live(u)' => \A r \in merged : Apart(r, Extent(p, u)')
      BY <1>6, <2>3, <2>7
    <3> QED
      BY <1>4, <2>2, <2>6, <2>8, <3>1, <3>2, <3>3 DEF Books
  <2>10. PlacedApart(p)'
    <3>1. \A u, v : Together(u, v)' <=> Together(u, v)
      BY <1>2 DEF Together
    <3> QED
      BY <1>4, <1>6, <2>1, <2>3, <3>1 DEF PlacedApart
  <2> QED
    BY <2>2, <2>6, <2>9, <2>10 DEF Good
<1>8. PlannerTypeOK'
  <2>1. events' \subseteq AllEvents'
    BY <1>1, <1>3, <1>4 DEF PlannerTypeOK, AllEvents
  <2>2. free_ranges' \in [Planner -> SUBSET AddrRange]
    BY <1>5, <1>7
  <2> QED
    BY <1>1, <1>2, <1>4, <1>5, <2>1, <2>2 DEF PlannerTypeOK
<1> QED
  BY <1>2, <1>7, <1>8 DEF PlannerInv

LEMMA ChooseInv == PlannerInv /\ ChoosePlan => PlannerInv'
<1> SUFFICES ASSUME PlannerInv, ChoosePlan PROVE PlannerInv'
  OBVIOUS
<1>1. /\ decls' = decls /\ events' = events /\ free_ranges' = free_ranges
      /\ peak' = peak /\ addrs' = addrs /\ events = {}
  BY DEF ChoosePlan
<1>2. PlannerTypeOK' /\ InOrder'
  BY <1>1 DEF PlannerInv, PlannerTypeOK, InOrder, AllEvents, Tensor
<1>3. ASSUME NEW p \in Planner PROVE Books(p)' /\ PlacedApart(p)'
  <2>1. Tensor' = Tensor /\ \A u : Extent(p, u)' = Extent(p, u)
    BY <1>1 DEF Tensor, Extent
  <2>2. \A u : (Live(u)' <=> Live(u)) /\ (Allocated(u)' <=> Allocated(u))
    BY <1>1 DEF Live, Allocated, Pending
  <2>3. \A u, v : Together(u, v)' <=> Together(u, v)
    BY <1>1 DEF Together
  <2>4. Books(p) /\ PlacedApart(p)
    BY DEF PlannerInv
  <2>5. Books(p)'
    BY <1>1, <2>1, <2>2, <2>4 DEF Books
  <2>6. PlacedApart(p)'
    BY <2>1, <2>2, <2>3, <2>4 DEF PlacedApart
  <2> QED
    BY <2>5, <2>6
<1>4. PlanTaken'
  <2>1. PICK p \in Planner :
          /\ plan'.smem_size = peak[p] + ALIGNMENT
          /\ plan'.addrs = [t \in Tensor |-> addrs[p][t] + ALIGNMENT]
    BY DEF ChoosePlan
  <2> QED
    BY <1>1, <2>1 DEF PlanTaken, Tensor
<1> QED
  BY <1>2, <1>3, <1>4 DEF PlannerInv

LEMMA StutterInv == PlannerInv /\ UNCHANGED plannerVars => PlannerInv'
<1> SUFFICES ASSUME PlannerInv, UNCHANGED plannerVars PROVE PlannerInv'
  OBVIOUS
<1>1. /\ decls' = decls /\ events' = events /\ free_ranges' = free_ranges
      /\ peak' = peak /\ addrs' = addrs /\ plan' = plan
  BY DEF plannerVars
<1>2. PlannerTypeOK' /\ InOrder' /\ PlanTaken'
  BY <1>1 DEF PlannerInv, PlannerTypeOK, InOrder, AllEvents, Tensor, PlanTaken, Planned, Before, Time
<1>3. ASSUME NEW p \in Planner PROVE Books(p)' /\ PlacedApart(p)'
  <2>1. Tensor' = Tensor /\ \A u : Extent(p, u)' = Extent(p, u)
    BY <1>1 DEF Tensor, Extent
  <2>2. \A u : (Live(u)' <=> Live(u)) /\ (Allocated(u)' <=> Allocated(u))
    BY <1>1 DEF Live, Allocated, Pending
  <2>3. \A u, v : Together(u, v)' <=> Together(u, v)
    BY <1>1 DEF Together
  <2>4. Books(p) /\ PlacedApart(p)
    BY DEF PlannerInv
  <2>5. Books(p)'
    BY <1>1, <2>1, <2>2, <2>4 DEF Books
  <2>6. PlacedApart(p)'
    BY <2>1, <2>2, <2>3, <2>4 DEF PlacedApart
  <2> QED
    BY <2>5, <2>6
<1> QED
  BY <1>2, <1>3 DEF PlannerInv

\* The planner's invariant holds throughout, for every list of declarations.
THEOREM PlannerInvariant == PlannerSpec => []PlannerInv
<1>1. PlannerInit => PlannerInv
  BY InitInv
<1>2. PlannerInv /\ [PlannerNext]_plannerVars => PlannerInv'
  <2> SUFFICES ASSUME PlannerInv, PlannerNext PROVE PlannerInv'
    BY StutterInv
  <2>1. CASE \E e \in events : ProcessEvent(e)
    <3>1. PICK e \in events : ProcessEvent(e)
      BY <2>1
    <3>2. PICK t \in Tensor : e = Event("ALLOC", t) \/ e = Event("FREE", t)
      BY DEF PlannerInv, PlannerTypeOK, AllEvents
    <3> QED
      BY <3>1, <3>2, AllocInv, FreeInv
  <2>2. CASE ChoosePlan
    BY <2>2, ChooseInv
  <2> QED
    BY <2>1, <2>2 DEF PlannerNext
<1> QED
  BY <1>1, <1>2, PTL DEF PlannerSpec

-----------------------------------------------------------------------------
(* The properties.                                                         *)

LEMMA InvPartition == PlannerInv => Partition
<1> SUFFICES ASSUME PlannerInv, NEW p \in Planner
             PROVE  /\ \A a \in 0 .. peak[p] - 1 :
                         (\E r \in free_ranges[p] : Holds(r, a)) \/ (\E t \in Tensor : Live(t) /\ Holds(Extent(p, t), a))
                    /\ \A r, s \in free_ranges[p] : r # s => Apart(r, s)
                    /\ \A t, u \in Tensor : Live(t) /\ Live(u) /\ t # u => Apart(Extent(p, t), Extent(p, u))
                    /\ \A t \in Tensor : Live(t) => \A r \in free_ranges[p] : Apart(r, Extent(p, t))
  BY DEF Partition
<1>1. Books(p) /\ peak[p] \in Nat
  BY DEF PlannerInv, PlannerTypeOK
<1>2. \A a \in 0 .. peak[p] - 1 : a \in Nat /\ a < peak[p]
  BY <1>1
<1> QED
  BY <1>1, <1>2 DEF Books, Good

LEMMA InvLifetimes == PlannerInv => LifetimesRespected
<1> SUFFICES ASSUME PlannerInv, Planned
             PROVE  /\ \A t, u \in Tensor : t # u /\ Together(t, u) => Apart(PlanExtent(t), PlanExtent(u))
                    /\ \A t \in Tensor : /\ ALIGNMENT <= plan.addrs[t]
                                         /\ plan.addrs[t] + decls[t].phy_size <= plan.smem_size
  BY DEF LifetimesRespected
<1>1. PICK p \in Planner :
        /\ plan.smem_size = peak[p] + ALIGNMENT
        /\ plan.addrs = [t \in Tensor |-> addrs[p][t] + ALIGNMENT]
  BY DEF PlannerInv, PlanTaken
<1>2. \A t \in Tensor : Allocated(t)
  BY DEF PlannerInv, PlanTaken, Allocated, Pending
<1>3. Books(p) /\ PlacedApart(p) /\ peak[p] \in Nat /\ ALIGNMENT \in Nat
  BY DeclsAssumption DEF PlannerInv, PlannerTypeOK
<1>4. \A t \in Tensor :
        /\ plan.addrs[t] = addrs[p][t] + ALIGNMENT
        /\ addrs[p][t] \in Nat /\ decls[t].phy_size \in Nat
        /\ addrs[p][t] + decls[t].phy_size <= peak[p]
  <2>1. \A t \in Tensor : Extent(p, t) \in AddrRange /\ Extent(p, t)[2] <= peak[p]
    BY <1>2, <1>3 DEF Books
  <2>2. \A t \in Tensor : decls[t].phy_size \in Nat
    BY DEF PlannerInv, PlannerTypeOK, WellFormed, Tensor
  <2> QED
    BY <1>1, <2>1, <2>2 DEF Extent, AddrRange
<1>5. \A t, u \in Tensor : t # u /\ Together(t, u) => Apart(Extent(p, t), Extent(p, u))
  BY <1>2, <1>3 DEF PlacedApart
<1>6. \A t, u \in Tensor : t # u /\ Together(t, u) => Apart(PlanExtent(t), PlanExtent(u))
  BY <1>3, <1>4, <1>5 DEF Apart, Extent, PlanExtent
<1> QED
  BY <1>1, <1>3, <1>4, <1>6

\* No unit of the memory an allocator manages is lost or given away twice, for
\* any sizes and lifetimes and any order of simultaneous events
\* (get_allocation).
THEOREM PlannerPartition == PlannerSpec => []Partition
  BY PlannerInvariant, InvPartition, PTL

\* Tensors that live together never share an address, and all fit in the memory
\* the kernel asks for, whichever allocator wins (plan_memory).
THEOREM PlannerLifetimes == PlannerSpec => []LifetimesRespected
  BY PlannerInvariant, InvLifetimes, PTL

-----------------------------------------------------------------------------
(* A threadblock kernel never touches the planner's state once the plan is  *)
(* taken, so what is proved of the planner holds of every kernel while its  *)
(* threads run.                                                             *)

LEMMA StepPlans == [Next]_vars => [PlannerNext]_plannerVars
<1> SUFFICES ASSUME [Next]_vars PROVE PlannerNext \/ UNCHANGED plannerVars
  BY DEF plannerVars
<1>1. CASE \E e \in events : Plan(e)
  BY <1>1 DEF Plan, PlannerNext
<1>2. CASE Launch
  BY <1>2 DEF Launch, PlannerNext
<1>3. ASSUME NEW th \in Thread, Step(th) PROVE UNCHANGED plannerVars
  BY <1>3 DEF Step, Read, Write, Barrier, CopyAsync, Fence, Wait, Swap
<1>4. ASSUME NEW th \in Thread, Land(th) PROVE UNCHANGED plannerVars
  BY <1>4 DEF Land
<1>5. CASE Returned \/ UNCHANGED vars
  BY <1>5 DEF Returned, vars
<1> QED
  BY <1>1, <1>2, <1>3, <1>4, <1>5 DEF Next

\* The kernel implements the planner: its compilation takes the planner's steps
\* and its threads take none (get_threadblock_memory_plan runs to its end
\* before the kernel exists).
THEOREM KernelPlans == Spec => PlannerSpec
<1>1. Init => PlannerInit
  BY DEF Init
<1> QED
  BY <1>1, StepPlans, PTL DEF Spec, PlannerSpec

\* In every kernel, whatever its graph, the tensors that live together never
\* share an address and lie in the memory the kernel asks for.
THEOREM KernelLifetimes == Spec => []LifetimesRespected
  BY KernelPlans, PlannerLifetimes

\* And the allocators' books balance whatever the graph declares.
THEOREM KernelPartition == Spec => []Partition
  BY KernelPlans, PlannerPartition
=============================================================================
