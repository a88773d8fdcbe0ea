---------------------------- MODULE MultiGpuProofs ----------------------------
(***************************************************************************)
(* All-reduce for every number of GPUs, tiles, rows and workers and every  *)
(* choice of buffers: no signal is missed, a reduce starts when all rows   *)
(* of its round have come, and it reads terms of its own or a near round.  *)
(*                                                                         *)
(* A GPU that has reduced a round knows that every other one has produced  *)
(* its terms, so has reduced the round before (AllAtMostOneBehind).  Along *)
(* a chain of such steps a round far enough back is known to be reduced    *)
(* everywhere: its counters and terms are used again only then, and a row  *)
(* that is still to be summed is written over by near rounds only.         *)
(***************************************************************************)
EXTENDS MultiGpu, FiniteSetTheorems, TLAPS

-----------------------------------------------------------------------------
(* Rounds, slots and iterations.                                           *)

\* The assumption on the constants, one by one.
LEMMA Sizes ==
    /\ NumGpus \in Nat /\ NumGpus > 1
    /\ NumRounds \in Nat /\ NumRounds > 1 /\ (NumGpus > 2 \/ NumRounds % 2 = 0)
    /\ NumTiles \in Nat \ {0} /\ NumRows \in Nat \ {0} /\ MaxIterations \in Nat \ {0}
  BY MultiGpuAssumption

\* Every round is one slot of one iteration.
LEMMA RoundShape ==
    ASSUME NEW n \in Round
    PROVE  /\ n \in Nat /\ n > 0
           /\ Slot(n) \in Slots /\ IterationOf(n) \in 1 .. MaxIterations
           /\ n = (IterationOf(n) - 1) * NumRounds + Slot(n)
<1> DEFINE q == (n - 1) \div NumRounds
           r == (n - 1) % NumRounds
<1>1. n \in Nat /\ n > 0 /\ n <= NumRounds * MaxIterations
  BY Sizes DEF Round
<1>2. q \in Int /\ r \in 0 .. NumRounds - 1 /\ n - 1 = NumRounds * q + r
  BY Sizes, <1>1
<1>3. Slot(n) = r + 1 /\ IterationOf(n) = q + 1
  BY DEF Slot, IterationOf
<1> HIDE DEF q, r
<1>4. q >= 0
  <2>1. q < 0 => NumRounds * q <= -NumRounds
    BY Sizes, <1>2
  <2> QED
    BY Sizes, <1>1, <1>2, <2>1
<1>5. q < MaxIterations
  <2>1. q >= MaxIterations => NumRounds * q >= NumRounds * MaxIterations
    BY Sizes, <1>2
  <2>2. NumRounds * q \in Int /\ NumRounds * MaxIterations \in Int
    BY Sizes, <1>2
  <2> QED
    BY Sizes, <1>1, <1>2, <2>1, <2>2
<1>6. (q + 1 - 1) * NumRounds + (r + 1) = n
  BY Sizes, <1>1, <1>2
<1> QED
  BY Sizes, <1>1, <1>2, <1>3, <1>4, <1>5, <1>6 DEF Slots

\* Two rounds of the same slot are apart by iterations.
LEMMA SameSlot ==
    ASSUME NEW n \in Round, NEW m \in Round, Slot(n) = Slot(m)
    PROVE  /\ IterationOf(n) = IterationOf(m) => n = m
           /\ IterationOf(n) < IterationOf(m) => n < m
           /\ n < m => Apart(n, m) /\ IterationOf(n) < IterationOf(m)
<1> DEFINE i == IterationOf(n)
           j == IterationOf(m)
<1>1. /\ i \in Int /\ j \in Int /\ Slot(n) \in Int /\ n \in Int /\ m \in Int
      /\ n = (i - 1) * NumRounds + Slot(n) /\ m = (j - 1) * NumRounds + Slot(n)
  BY RoundShape DEF Slots
<1> HIDE DEF i, j
<1>2. m - n = (j - i) * NumRounds
  BY Sizes, <1>1
<1>3. i = j => n = m
  BY Sizes, <1>1
<1>4. i < j => m - n >= NumRounds
  <2>1. i < j => (j - i) * NumRounds >= NumRounds
    BY Sizes, <1>1
  <2> QED
    BY <1>2, <2>1
<1>5. j < i => m - n < 0
  <2>1. j < i => (j - i) * NumRounds <= -NumRounds
    BY Sizes, <1>1
  <2> QED
    BY Sizes, <1>1, <1>2, <2>1
<1>6. NumRounds % 2 = 0 => (m - n) % 2 = 0
  <2> SUFFICES ASSUME NumRounds % 2 = 0 PROVE (m - n) % 2 = 0
    OBVIOUS
  <2> DEFINE h == NumRounds \div 2
  <2>1. h \in Int /\ NumRounds = 2 * h
    BY Sizes
  <2> HIDE DEF h
  <2>2. m - n = 2 * ((j - i) * h)
    BY <1>1, <1>2, <2>1
  <2>3. (j - i) * h \in Int
    BY <1>1, <2>1
  <2> QED
    BY <2>2, <2>3
<1>7. i < j => n < m
  BY Sizes, <1>1, <1>4
<1>8. n < m => i < j
  BY <1>1, <1>3, <1>5
<1>9. n < m => Apart(n, m)
  BY Sizes, <1>1, <1>4, <1>6, <1>8 DEF Apart
<1> QED
  BY <1>3, <1>7, <1>8, <1>9 DEF i, j

\* The first round of an iteration comes after the last of the one before.
LEMMA FirstOfIteration ==
    ASSUME NEW n \in Round, Slot(n) = 1, n > 1
    PROVE  /\ IterationOf(n) - 1 \in 1 .. MaxIterations
           /\ n - 1 = (IterationOf(n) - 1) * NumRounds
<1>1. /\ IterationOf(n) \in 1 .. MaxIterations
      /\ n = (IterationOf(n) - 1) * NumRounds + 1 /\ n \in Nat
  BY RoundShape
<1>2. IterationOf(n) # 1
  BY <1>1, Sizes
<1> QED
  BY <1>1, <1>2, Sizes

\* Every slot of every iteration is a round.
LEMMA RoundAt ==
    ASSUME NEW s \in Slots, NEW k \in 1 .. MaxIterations
    PROVE  \E m \in Round : Slot(m) = s /\ IterationOf(m) = k
<1> DEFINE m == (k - 1) * NumRounds + s
<1>1. m \in Round
  <2>1. (k - 1) * NumRounds >= 0 /\ (k - 1) * NumRounds <= (MaxIterations - 1) * NumRounds
    BY Sizes
  <2>2. (MaxIterations - 1) * NumRounds = NumRounds * MaxIterations - NumRounds
    BY Sizes
  <2>3. /\ (k - 1) * NumRounds \in Int /\ NumRounds * MaxIterations \in Int
        /\ s \in Int /\ s >= 1 /\ s <= NumRounds
    BY Sizes DEF Slots
  <2> QED
    BY Sizes, <2>1, <2>2, <2>3 DEF Round
<1>2. Slot(m) = s /\ IterationOf(m) = k
  <2>1. m - 1 = NumRounds * (k - 1) + (s - 1) /\ s - 1 \in 0 .. NumRounds - 1
    BY Sizes DEF Slots
  <2>2. (m - 1) \div NumRounds = k - 1 /\ (m - 1) % NumRounds = s - 1
    <3> DEFINE q == (m - 1) \div NumRounds
               r == (m - 1) % NumRounds
    <3>1. m - 1 \in Int /\ k - 1 \in Int /\ s - 1 \in Int
      BY Sizes DEF Slots
    <3>2. q \in Int /\ r \in 0 .. NumRounds - 1 /\ m - 1 = NumRounds * q + r
      BY Sizes, <3>1
    <3> HIDE DEF q, r, m
    <3>3. NumRounds * (q - (k - 1)) = s - 1 - r
      BY Sizes, <2>1, <3>1, <3>2
    <3>4. q > k - 1 => NumRounds * (q - (k - 1)) >= NumRounds
      BY Sizes, <3>1, <3>2
    <3>5. q < k - 1 => NumRounds * (q - (k - 1)) <= -NumRounds
      BY Sizes, <3>1, <3>2
    <3>6. q = k - 1
      BY Sizes, <2>1, <3>1, <3>2, <3>3, <3>4, <3>5
    <3>7. r = s - 1
      BY Sizes, <2>1, <3>1, <3>2, <3>6
    <3> QED
      BY <3>6, <3>7 DEF q, r
  <2> QED
    BY <2>2 DEF Slot, IterationOf, Slots
<1> QED
  BY <1>1, <1>2

\* What comes before a round is a round.
LEMMA RoundBefore == \A n \in Round : \A m \in Nat : 0 < m /\ m < n => m \in Round
  BY Sizes DEF Round

-----------------------------------------------------------------------------
Produced(g, n, t) == << "produce", n, t, g >> \in done[g]
Copied(g, n, t, h) == << "copy", n, t, h >> \in done[g]
Summed(g, n, t) == << "reduce", n, t, g >> \in done[g]
Summing(g, n, t) == << "reduce", n, t, g >> \in reducing[g]

\* The row of round n of GPU h has been signalled, or has arrived, at GPU g.
Signalled(g, n, t, h, i) == << IterationOf(n), << h, i >> >> \in signals[g][<< Slot(n), t >>]
Arrived(g, n, t, h, i) ==
    \/ Signalled(g, n, t, h, i)
    \/ \E m \in landed : m.dst = g /\ m.round = n /\ m.tile = t /\ m.src = h /\ m.row = i

-----------------------------------------------------------------------------
(* The inductive invariant.                                                *)

\* The tasks of a GPU are in order, but for the reduces and its own terms.
ProducedInOrder ==
    \A g \in Gpu : \A n \in Round : \A t \in Tile :
      Produced(g, n, t) /\ n > 1 => Reduced(g, n - 1)
CopiedInOrder ==
    \A g \in Gpu : \A n \in Round : \A t \in Tile : \A h \in Others(g) :
      Copied(g, n, t, h) => Produced(g, n, t)
IterationsInOrder ==
    \A g \in Gpu : \A k \in 1 .. MaxIterations :
      k < iteration[g] => Reduced(g, k * NumRounds)

\* A reduce has seen the signals of all rows, and a signal tells of a copy.
SumsSignalled ==
    \A g \in Gpu : \A n \in Round : \A t \in Tile :
      Summing(g, n, t) \/ Summed(g, n, t) =>
        \A h \in Others(g) : \A i \in Row : Signalled(g, n, t, h, i)
SignalsCopied ==
    \A g \in Gpu : \A n \in Round : \A t \in Tile : \A h \in Gpu : \A i \in Row :
      Signalled(g, n, t, h, i) => h # g /\ Copied(h, n, t, g)

\* What is on its way has been copied, is the term of its round, and has not
\* been signalled yet.
MessagesCopied ==
    \A m \in puts \cup landed :
      /\ m.src # m.dst
      /\ Copied(m.src, m.round, m.tile, m.dst)
      /\ m.term = m.round
      /\ ~Signalled(m.dst, m.round, m.tile, m.src, m.row)
MessagesOnce == puts \cap landed = {}

\* A term stays until it is copied; a row that has arrived is written over by
\* near rounds only until it is summed.
TermsKept ==
    \A g \in Gpu : \A n \in Round : \A t \in Tile : \A h \in Others(g) :
      Produced(g, n, t) /\ ~Copied(g, n, t, h) => term[g][<< Slot(n), t >>] = n
HoldsNear(g, n, t, h, i) ==
    \E m \in Round : /\ BufferIn(m) = BufferIn(n) /\ Near(n, m)
                    /\ gathered[g][<< BufferIn(n), h, t, i >>] = m
RowsKept ==
    \A g \in Gpu : \A n \in Round : \A t \in Tile : \A h \in Gpu : \A i \in Row :
      Arrived(g, n, t, h, i) /\ ~Summed(g, n, t) => HoldsNear(g, n, t, h, i)

\* Only reduces are under way, and none that is done; rounds that are far apart
\* are reduced in order.
SumsOnce ==
    \A g \in Gpu :
      /\ \A p \in reducing[g] : p[1] = "reduce"
      /\ \A n \in Round : \A t \in Tile : Summing(g, n, t) => ~Summed(g, n, t)
ReducedInOrder ==
    \A g \in Gpu : \A n, m \in Round : Apart(n, m) /\ Reduced(g, m) => Reduced(g, n)

OrderInv == /\ ProducedInOrder /\ CopiedInOrder /\ IterationsInOrder
            /\ SumsSignalled /\ SignalsCopied /\ SumsOnce /\ ReducedInOrder
MessagesInv == MessagesCopied /\ MessagesOnce
MultiGpuInv == TypeOK /\ OrderInv /\ MessagesInv /\ TermsKept

-----------------------------------------------------------------------------
(* What follows from the order in one state.                               *)

\* There is another GPU, and a third when there are more than two.
LEMMA SomeOther ==
    /\ \A g \in Gpu : \E h \in Gpu : h # g
    /\ NumGpus > 2 => \A g, h \in Gpu : \E f \in Gpu : f # g /\ f # h
<1>1. 0 \in Gpu /\ 1 \in Gpu /\ (NumGpus > 2 => 2 \in Gpu)
  BY Sizes DEF Gpu
<1> QED
  BY <1>1

\* A round has a tile, and a tile a row.
LEMMA TileZero == 0 \in Tile /\ 1 \in Row
  BY Sizes DEF Tile, Row

\* What a GPU has reduced, every other one has copied, so it had reduced the
\* round before.
LEMMA SummedCopied ==
    ASSUME OrderInv, NEW g \in Gpu, NEW n \in Round, NEW t \in Tile,
           Summing(g, n, t) \/ Summed(g, n, t), NEW h \in Gpu, h # g
    PROVE  /\ \A i \in Row : Signalled(g, n, t, h, i)
           /\ Copied(h, n, t, g) /\ Produced(h, n, t)
           /\ n > 1 => Reduced(h, n - 1)
<1>1. h \in Others(g) /\ g \in Others(h) /\ 1 \in Row
  BY TileZero DEF Others
<1>2. \A i \in Row : Signalled(g, n, t, h, i)
  BY <1>1 DEF OrderInv, SumsSignalled
<1>3. Copied(h, n, t, g)
  BY <1>1, <1>2 DEF OrderInv, SignalsCopied
<1>4. Produced(h, n, t)
  BY <1>1, <1>3 DEF OrderInv, CopiedInOrder
<1> QED
  BY <1>2, <1>3, <1>4 DEF OrderInv, ProducedInOrder

\* When a GPU has reduced a round, the others have reduced the one before.
LEMMA AllAtMostOneBehind ==
    ASSUME OrderInv, NEW g \in Gpu, NEW n \in Round, n > 1, Reduced(g, n),
           NEW h \in Gpu, h # g
    PROVE  Reduced(h, n - 1)
  BY SummedCopied, TileZero DEF Reduced, Summed

\* A GPU that may produce round m knows that every other one has reduced the
\* rounds that lie far enough before m.
LEMMA Reach ==
    ASSUME OrderInv, NEW h \in Gpu, NEW g \in Gpu, h # g,
           NEW n \in Round, NEW m \in Round, Apart(n, m), Reduced(h, m - 1)
    PROVE  Reduced(g, n)
<1>1. /\ n \in Nat /\ m \in Nat /\ n > 0 /\ m - n > 1
      /\ NumGpus > 2 \/ (m - n) % 2 = 0
  BY RoundShape DEF Apart
<1>2. m - 1 \in Round /\ m - 2 \in Round
  BY <1>1, RoundBefore
<1>3. Reduced(g, m - 2)
  BY <1>1, <1>2, AllAtMostOneBehind
<1>4. CASE m - n = 2
  <2>1. m - 2 = n
    BY <1>1, <1>4
  <2> QED
    BY <1>3, <2>1
<1>5. CASE m - n = 3
  <2>1. PICK f \in Gpu : f # g /\ f # h
    BY <1>1, <1>5, SomeOther
  <2>2. Reduced(f, m - 2)
    BY <1>1, <1>2, <2>1, AllAtMostOneBehind
  <2>3. Reduced(g, n)
    <3>1. m - 2 > 1 /\ (m - 2) - 1 = n
      BY <1>1, <1>5
    <3> QED
      BY <1>2, <2>1, <2>2, <3>1, AllAtMostOneBehind
  <2> QED
    BY <2>3
<1>6. CASE m - n > 3
  <2>1. Apart(n, m - 2)
    BY <1>1, <1>6 DEF Apart
  <2> QED
    BY <1>2, <1>3, <2>1 DEF OrderInv, ReducedInOrder
<1> QED
  BY <1>1, <1>4, <1>5, <1>6

\* So whoever has produced a round finds the rounds before it reduced elsewhere.
LEMMA ProducedReach ==
    ASSUME OrderInv, NEW h \in Gpu, NEW g \in Gpu, h # g,
           NEW n \in Round, NEW m \in Round, NEW t \in Tile, Apart(n, m),
           Produced(h, m, t)
    PROVE  Reduced(g, n)
<1>1. m > 1
  BY RoundShape DEF Apart
<1>2. Reduced(h, m - 1)
  BY <1>1 DEF OrderInv, ProducedInOrder
<1> QED
  BY <1>2, Reach

\* A counter holds no signal of an iteration that is beyond its reduce.
LEMMA NoSignalAhead ==
    ASSUME OrderInv, NEW g \in Gpu, NEW n \in Round, NEW t \in Tile,
           ~Summed(g, n, t),
           NEW m \in Round, Slot(m) = Slot(n), NEW h \in Gpu, NEW i \in Row,
           Signalled(g, m, t, h, i)
    PROVE  h # g /\ IterationOf(m) <= IterationOf(n)
<1>1. h # g /\ Copied(h, m, t, g)
  BY DEF OrderInv, SignalsCopied
<1>2. Produced(h, m, t)
  BY <1>1 DEF OrderInv, CopiedInOrder, Others
<1>3. IterationOf(m) \in Int /\ IterationOf(n) \in Int
  BY RoundShape
<1>4. ASSUME IterationOf(n) < IterationOf(m) PROVE FALSE
  <2>1. Apart(n, m)
    BY <1>3, <1>4, SameSlot
  <2>2. Reduced(g, n)
    BY <1>1, <1>2, <2>1, ProducedReach
  <2> QED
    BY <2>2 DEF Reduced, Summed
<1> QED
  BY <1>1, <1>3, <1>4

\* The number of other GPUs.
LEMMA OthersNumber ==
    ASSUME NEW g \in Gpu
    PROVE  IsFiniteSet(Others(g)) /\ Cardinality(Others(g)) = NumGpus - 1
<1>1. IsFiniteSet(Gpu) /\ Cardinality(Gpu) = NumGpus
  BY FS_Interval, Sizes DEF Gpu
<1> QED
  BY <1>1, FS_RemoveElement DEF Others

\* Until a reduce is done its counter is at most what it waits for, and it is
\* that only when every row of every other GPU has been signalled.
LEMMA Counting ==
    ASSUME TypeOK, OrderInv, NEW g \in Gpu, NEW n \in Round, NEW t \in Tile,
           ~Summed(g, n, t)
    PROVE  /\ Counter(g, n, t) \in Nat /\ Counter(g, n, t) <= NeededCounts(n)
           /\ Counter(g, n, t) = NeededCounts(n) =>
                \A h \in Others(g) : \A i \in Row : Signalled(g, n, t, h, i)
<1> DEFINE S == signals[g][<< Slot(n), t >>]
           F == (1 .. IterationOf(n)) \X (Others(g) \X Row)
<1>1. Slot(n) \in Slots /\ IterationOf(n) \in 1 .. MaxIterations
  BY RoundShape
<1>2. S \subseteq (1 .. MaxIterations) \X (Gpu \X Row)
  BY <1>1 DEF TypeOK
<1>3. ASSUME NEW x \in S PROVE x \in F
  <2>1. PICK k \in 1 .. MaxIterations, h \in Gpu, i \in Row : x = << k, << h, i >> >>
    BY <1>2, <1>3
  <2>2. PICK m \in Round : Slot(m) = Slot(n) /\ IterationOf(m) = k
    BY <1>1, RoundAt
  <2>3. Signalled(g, m, t, h, i)
    BY <1>3, <2>1, <2>2 DEF Signalled
  <2>4. h # g /\ k <= IterationOf(n)
    BY <2>2, <2>3, NoSignalAhead
  <2> QED
    BY <1>1, <2>1, <2>4 DEF Others
<1>4. IsFiniteSet(F) /\ Cardinality(F) = IterationOf(n) * ((NumGpus - 1) * NumRows)
  <2>1. IsFiniteSet(Row) /\ Cardinality(Row) = NumRows
    BY FS_Interval, Sizes DEF Row
  <2>2. /\ IsFiniteSet(Others(g) \X Row)
        /\ Cardinality(Others(g) \X Row) = (NumGpus - 1) * NumRows
    BY <2>1, OthersNumber, FS_Product
  <2>3. IsFiniteSet(1 .. IterationOf(n)) /\ Cardinality(1 .. IterationOf(n)) = IterationOf(n)
    BY <1>1, FS_Interval, Sizes
  <2> DEFINE A == 1 .. IterationOf(n)
             B == Others(g) \X Row
  <2>4. /\ IsFiniteSet(A) /\ Cardinality(A) = IterationOf(n)
        /\ IsFiniteSet(B) /\ Cardinality(B) = (NumGpus - 1) * NumRows
        /\ F = A \X B
    BY <2>2, <2>3
  <2> HIDE DEF A, B, F
  <2>5. IsFiniteSet(A \X B) /\ Cardinality(A \X B) = Cardinality(A) * Cardinality(B)
    BY <2>4, FS_Product
  <2> QED
    BY <2>4, <2>5
<1>5. Cardinality(F) = NeededCounts(n)
  BY <1>1, <1>4, Sizes DEF NeededCounts
<1>6. S \in SUBSET F
  BY <1>3
<1> HIDE DEF S, F
<1>7. /\ IsFiniteSet(S) /\ Cardinality(S) <= Cardinality(F)
      /\ Cardinality(F) = Cardinality(S) => F = S
  BY <1>4, <1>6, FS_Subset
<1>8. Cardinality(S) \in Nat
  BY <1>7, FS_CardinalityType
<1>9. ASSUME F = S, NEW h \in Others(g), NEW i \in Row
      PROVE  Signalled(g, n, t, h, i)
  BY <1>1, <1>9, Sizes DEF Signalled, F, S
<1> QED
  BY <1>5, <1>7, <1>8, <1>9 DEF Counter, S

-----------------------------------------------------------------------------
(* What the steps of the GPUs do.                                          *)

\* A task is one of three kinds.
LEMMA TaskShape ==
    ASSUME NEW g \in Gpu, NEW p \in Task[g]
    PROVE  /\ p[2] \in Round /\ p[3] \in Tile
           /\ \/ p = << "produce", p[2], p[3], g >>
              \/ p = << "reduce", p[2], p[3], g >>
              \/ p[4] \in Others(g) /\ p = << "copy", p[2], p[3], p[4] >>
  BY DEF Task

\* A task at the head of a queue is not done and its iteration has begun.
LEMMA HeadFacts ==
    ASSUME NEW g \in Gpu, NEW p \in Heads(g)
    PROVE  p \in Task[g] /\ p \notin done[g] /\ IterationOf(p[2]) <= iteration[g]
  BY DEF Heads

\* Only the task that ends is added to what is done.
LEMMA FinishEffect ==
    ASSUME TypeOK, NEW g \in Gpu, NEW p, Finish(g, p)
    PROVE  /\ iteration' = iteration
           /\ \A f \in Gpu : \A q : q \in done'[f] <=> q \in done[f] \/ (f = g /\ q = p)
  BY DEF Finish, TypeOK

\* Produce adds one term, of a round whose turn it is.
LEMMA ProduceEffect ==
    ASSUME TypeOK, NEW g \in Gpu, NEW p \in Heads(g), Produce(g, p)
    PROVE  \E n \in Round : \E t \in Tile :
             /\ ~Produced(g, n, t)
             /\ IterationOf(n) <= iteration[g] /\ AfterPrevious(g, n)
             /\ term' = [term EXCEPT ![g][<< Slot(n), t >>] = n]
             /\ UNCHANGED << iteration, reducing, network >>
             /\ \A f \in Gpu : \A m, s :
                  /\ Produced(f, m, s)' <=> Produced(f, m, s) \/ << f, m, s >> = << g, n, t >>
                  /\ Summed(f, m, s)' <=> Summed(f, m, s)
                  /\ Summing(f, m, s)' <=> Summing(f, m, s)
                  /\ \A h : Copied(f, m, s, h)' <=> Copied(f, m, s, h)
<1>1. p \in Task[g] /\ p \notin done[g] /\ IterationOf(p[2]) <= iteration[g]
  BY HeadFacts
<1>2. PICK n \in Round, t \in Tile : p = << "produce", n, t, g >> /\ n = p[2]
  BY <1>1, TaskShape DEF Produce
<1>3. AfterPrevious(g, n) /\ UNCHANGED << reducing, network >>
  BY <1>2 DEF Produce, Fired
<1>4. term' = [term EXCEPT ![g][<< Slot(n), t >>] = n]
  BY <1>2 DEF Produce
<1>5. /\ iteration' = iteration
      /\ \A f \in Gpu : \A q : q \in done'[f] <=> q \in done[f] \/ (f = g /\ q = p)
  BY FinishEffect DEF Produce
<1>6. ~Produced(g, n, t)
  BY <1>1, <1>2 DEF Produced
<1>7. ASSUME NEW f \in Gpu, NEW m, NEW s
      PROVE  /\ Produced(f, m, s)' <=> Produced(f, m, s) \/ << f, m, s >> = << g, n, t >>
             /\ Summed(f, m, s)' <=> Summed(f, m, s)
             /\ Summing(f, m, s)' <=> Summing(f, m, s)
             /\ \A h : Copied(f, m, s, h)' <=> Copied(f, m, s, h)
  BY <1>2, <1>3, <1>5 DEF Produced, Summed, Summing, Copied
<1> QED
  BY <1>1, <1>2, <1>3, <1>4, <1>5, <1>6, <1>7

\* Copy sends the rows of one term.
LEMMA CopyEffect ==
    ASSUME TypeOK, NEW g \in Gpu, NEW p \in Heads(g), Copy(g, p)
    PROVE  \E n \in Round : \E t \in Tile : \E h \in Others(g) :
             /\ ~Copied(g, n, t, h) /\ Produced(g, n, t)
             /\ puts' = puts \cup
                  { [src |-> g, dst |-> h, round |-> n, tile |-> t, row |-> i,
                     term |-> term[g][<< Slot(n), t >>]] : i \in Row }
             /\ UNCHANGED << iteration, reducing, term, gathered, signals, landed >>
             /\ \A f \in Gpu : \A m, s :
                  /\ Produced(f, m, s)' <=> Produced(f, m, s)
                  /\ Summed(f, m, s)' <=> Summed(f, m, s)
                  /\ Summing(f, m, s)' <=> Summing(f, m, s)
                  /\ \A k : Copied(f, m, s, k)' <=>
                       Copied(f, m, s, k) \/ << f, m, s, k >> = << g, n, t, h >>
<1>1. p \in Task[g] /\ p \notin done[g]
  BY HeadFacts
<1>2. p[2] \in Round /\ p[3] \in Tile /\ p[4] \in Others(g) /\ p = << "copy", p[2], p[3], p[4] >>
  BY <1>1, TaskShape DEF Copy
<1> DEFINE n == p[2]
           t == p[3]
           h == p[4]
<1>3. Produced(g, n, t) /\ UNCHANGED << reducing, term, gathered, signals, landed >>
  BY <1>2 DEF Copy, Fired, Produced
<1>4. puts' = puts \cup
         { [src |-> g, dst |-> h, round |-> n, tile |-> t, row |-> i,
            term |-> term[g][<< Slot(n), t >>]] : i \in Row }
  BY DEF Copy
<1>5. /\ iteration' = iteration
      /\ \A f \in Gpu : \A q : q \in done'[f] <=> q \in done[f] \/ (f = g /\ q = p)
  BY FinishEffect DEF Copy
<1>6. ~Copied(g, n, t, h)
  BY <1>1, <1>2 DEF Copied
<1>7. ASSUME NEW f \in Gpu, NEW m, NEW s
      PROVE  /\ Produced(f, m, s)' <=> Produced(f, m, s)
             /\ Summed(f, m, s)' <=> Summed(f, m, s)
             /\ Summing(f, m, s)' <=> Summing(f, m, s)
             /\ \A k : Copied(f, m, s, k)' <=>
                  Copied(f, m, s, k) \/ << f, m, s, k >> = << g, n, t, h >>
  BY <1>2, <1>3, <1>5 DEF Produced, Summed, Summing, Copied
<1> HIDE DEF n, t, h
<1> QED
  BY <1>2, <1>3, <1>4, <1>5, <1>6, <1>7 DEF n, t, h

\* StartReduce begins a reduce whose counter has the value it waits for.
LEMMA StartEffect ==
    ASSUME TypeOK, NEW g \in Gpu, NEW p \in Heads(g), StartReduce(g, p)
    PROVE  \E n \in Round : \E t \in Tile :
             /\ ~Summed(g, n, t) /\ Counter(g, n, t) = NeededCounts(n)
             /\ UNCHANGED << iteration, done, term, network >>
             /\ reducing' = [reducing EXCEPT ![g] = @ \cup {<< "reduce", n, t, g >>}]
             /\ \A f \in Gpu : \A m, s :
                  Summing(f, m, s)' <=> Summing(f, m, s) \/ << f, m, s >> = << g, n, t >>
<1>1. p \in Task[g] /\ p \notin done[g]
  BY HeadFacts
<1>2. PICK n \in Round, t \in Tile : p = << "reduce", n, t, g >> /\ n = p[2]
  BY <1>1, TaskShape DEF StartReduce
<1>3. /\ Counter(g, n, t) = NeededCounts(n)
      /\ UNCHANGED << iteration, done, term, network >>
      /\ reducing' = [reducing EXCEPT ![g] = @ \cup {p}]
  BY <1>2 DEF StartReduce, Fired
<1>4. ~Summed(g, n, t)
  BY <1>1, <1>2 DEF Summed
<1>5. ASSUME NEW f \in Gpu, NEW m, NEW s
      PROVE  Summing(f, m, s)' <=> Summing(f, m, s) \/ << f, m, s >> = << g, n, t >>
  <2>1. \A q : q \in reducing'[f] <=> q \in reducing[f] \/ (f = g /\ q = p)
    BY <1>3 DEF TypeOK
  <2> QED
    BY <1>2, <2>1 DEF Summing
<1> QED
  BY <1>2, <1>3, <1>4, <1>5

\* FinishReduce ends a reduce that was under way.
LEMMA FinishReduceEffect ==
    ASSUME TypeOK, OrderInv, NEW g \in Gpu, NEW p \in Heads(g), FinishReduce(g, p)
    PROVE  \E n \in Round : \E t \in Tile :
             /\ Summing(g, n, t)
             /\ UNCHANGED << iteration, term, network >>
             /\ reducing' = [reducing EXCEPT ![g] = @ \ {<< "reduce", n, t, g >>}]
             /\ done' = [done EXCEPT ![g] = @ \cup {<< "reduce", n, t, g >>}]
             /\ \A f \in Gpu : \A m, s :
                  /\ Produced(f, m, s)' <=> Produced(f, m, s)
                  /\ Summed(f, m, s)' <=> Summed(f, m, s) \/ << f, m, s >> = << g, n, t >>
                  /\ Summing(f, m, s)' <=> Summing(f, m, s) /\ << f, m, s >> # << g, n, t >>
                  /\ \A k : Copied(f, m, s, k)' <=> Copied(f, m, s, k)
<1>1. p \in Task[g] /\ p[1] = "reduce" /\ p \in reducing[g]
  BY HeadFacts DEF FinishReduce, OrderInv, SumsOnce
<1>2. PICK n \in Round, t \in Tile : p = << "reduce", n, t, g >> /\ n = p[2]
  BY <1>1, TaskShape
<1>3. /\ UNCHANGED << term, network >>
      /\ reducing' = [reducing EXCEPT ![g] = @ \ {p}]
      /\ iteration' = iteration /\ done' = [done EXCEPT ![g] = @ \cup {p}]
  BY DEF FinishReduce, Finish
<1>4. \A f \in Gpu : \A q : q \in done'[f] <=> q \in done[f] \/ (f = g /\ q = p)
  BY FinishEffect DEF FinishReduce
<1>5. ASSUME NEW f \in Gpu, NEW m, NEW s
      PROVE  /\ Produced(f, m, s)' <=> Produced(f, m, s)
             /\ Summed(f, m, s)' <=> Summed(f, m, s) \/ << f, m, s >> = << g, n, t >>
             /\ Summing(f, m, s)' <=> Summing(f, m, s) /\ << f, m, s >> # << g, n, t >>
             /\ \A k : Copied(f, m, s, k)' <=> Copied(f, m, s, k)
  <2>1. \A q : q \in reducing'[f] <=> q \in reducing[f] /\ ~(f = g /\ q = p)
    BY <1>3 DEF TypeOK
  <2> QED
    BY <1>2, <1>4, <2>1 DEF Produced, Summed, Summing, Copied
<1>6. Summing(g, n, t)
  BY <1>1, <1>2 DEF Summing
<1> QED
  BY <1>2, <1>3, <1>5, <1>6

\* Signal records the row of one message; no other round is recorded so.
LEMMA SignalEffect ==
    ASSUME TypeOK, NEW m \in landed, Signal(m)
    PROVE  \A g \in Gpu, n \in Round, t \in Tile, h \in Gpu, i \in Row :
             Signalled(g, n, t, h, i)' <=>
               \/ Signalled(g, n, t, h, i)
               \/ g = m.dst /\ n = m.round /\ t = m.tile /\ h = m.src /\ i = m.row
<1>1. /\ m.src \in Gpu /\ m.dst \in Gpu /\ m.round \in Round /\ m.tile \in Tile /\ m.row \in Row
  BY DEF TypeOK, Message
<1> SUFFICES ASSUME NEW g \in Gpu, NEW n \in Round, NEW t \in Tile, NEW h \in Gpu, NEW i \in Row
             PROVE  Signalled(g, n, t, h, i)' <=>
                      \/ Signalled(g, n, t, h, i)
                      \/ g = m.dst /\ n = m.round /\ t = m.tile /\ h = m.src /\ i = m.row
  OBVIOUS
<1>2. << Slot(n), t >> \in Slots \X Tile
  BY RoundShape
<1>3. \A x : x \in signals'[g][<< Slot(n), t >>] <=>
             \/ x \in signals[g][<< Slot(n), t >>]
             \/ /\ g = m.dst /\ Slot(n) = Slot(m.round) /\ t = m.tile
                /\ x = << IterationOf(m.round), << m.src, m.row >> >>
  BY <1>1, <1>2 DEF Signal, TypeOK
<1>4. Slot(n) = Slot(m.round) /\ IterationOf(n) = IterationOf(m.round) => n = m.round
  BY <1>1, SameSlot
<1> QED
  BY <1>3, <1>4 DEF Signalled

\* Land writes one row.
LEMMA LandEffect ==
    ASSUME TypeOK, NEW m \in puts, Land(m)
    PROVE  /\ UNCHANGED << iteration, reducing, done, term, signals >>
           /\ m.src \in Gpu /\ m.dst \in Gpu /\ m.round \in Round /\ m.tile \in Tile
           /\ \A g \in Gpu : \A c \in Buffer \X Gpu \X Tile \X Row :
                gathered'[g][c] =
                  IF g = m.dst /\ c = << BufferIn(m.round), m.src, m.tile, m.row >>
                  THEN m.term ELSE gathered[g][c]
  BY DEF Land, TypeOK, Message

-----------------------------------------------------------------------------
(* Types.                                                                  *)

\* The buffer of a round is a buffer.
LEMMA BufferType == \A n \in Round : BufferIn(n) \in Buffer
  BY RoundShape, MultiGpuAssumption DEF BufferIn

\* Every step keeps the types.
LEMMA TypeStep ==
    ASSUME TypeOK, Next
    PROVE  TypeOK'
<1>1. ASSUME NEW g \in Gpu, BeginIteration(g) PROVE TypeOK'
  <2>1. iteration[g] \in 0 .. MaxIterations /\ iteration[g] < MaxIterations
    BY <1>1 DEF BeginIteration, TypeOK
  <2>2. iteration[g] + 1 \in 0 .. MaxIterations
    BY <2>1, Sizes
  <2>3. iteration' \in [Gpu -> 0 .. MaxIterations]
    BY <1>1, <2>2 DEF BeginIteration, TypeOK
  <2> QED
    BY <1>1, <2>3 DEF BeginIteration, TypeOK, network
<1>2. ASSUME NEW g \in Gpu, NEW p \in Heads(g), Produce(g, p) PROVE TypeOK'
  <2>1. p \in Task[g] /\ p[2] \in Round /\ p[3] \in Tile /\ Slot(p[2]) \in Slots
    BY HeadFacts, TaskShape, RoundShape
  <2>2. term' \in [Gpu -> [Slots \X Tile -> Round \cup {0}]]
    BY <1>2, <2>1 DEF Produce, TypeOK
  <2>3. /\ done' \in [Gpu -> SUBSET UNION {Task[f] : f \in Gpu}]
        /\ \A f \in Gpu : done'[f] \subseteq Task[f]
    BY <1>2, <2>1 DEF Produce, Finish, TypeOK
  <2> QED
    BY <1>2, <2>2, <2>3 DEF Produce, Finish, TypeOK, network
<1>3. ASSUME NEW g \in Gpu, NEW p \in Heads(g), Copy(g, p) PROVE TypeOK'
  <2>1. /\ p \in Task[g] /\ p[2] \in Round /\ p[3] \in Tile /\ Slot(p[2]) \in Slots
        /\ p[4] \in Gpu
    BY <1>3, HeadFacts, TaskShape, RoundShape DEF Copy, Others
  <2>2. term[g][<< Slot(p[2]), p[3] >>] \in Round \cup {0}
    BY <2>1 DEF TypeOK
  <2>3. puts' \subseteq Message
    BY <1>3, <2>1, <2>2 DEF Copy, TypeOK, Message
  <2>4. /\ done' \in [Gpu -> SUBSET UNION {Task[f] : f \in Gpu}]
        /\ \A f \in Gpu : done'[f] \subseteq Task[f]
    BY <1>3, <2>1 DEF Copy, Finish, TypeOK
  <2> QED
    BY <1>3, <2>3, <2>4 DEF Copy, Finish, TypeOK
<1>4. ASSUME NEW g \in Gpu, NEW p \in Heads(g), StartReduce(g, p) PROVE TypeOK'
  <2>1. p \in Task[g]
    BY HeadFacts
  <2>2. /\ reducing' \in [Gpu -> SUBSET UNION {Task[f] : f \in Gpu}]
        /\ \A f \in Gpu : reducing'[f] \subseteq Task[f]
    BY <1>4, <2>1 DEF StartReduce, TypeOK
  <2> QED
    BY <1>4, <2>2 DEF StartReduce, TypeOK, network
<1>5. ASSUME NEW g \in Gpu, NEW p \in Heads(g), FinishReduce(g, p) PROVE TypeOK'
  <2>1. p \in Task[g]
    BY HeadFacts
  <2>2. /\ reducing' \in [Gpu -> SUBSET UNION {Task[f] : f \in Gpu}]
        /\ \A f \in Gpu : reducing'[f] \subseteq Task[f]
    BY <1>5, <2>1 DEF FinishReduce, TypeOK
  <2>3. /\ done' \in [Gpu -> SUBSET UNION {Task[f] : f \in Gpu}]
        /\ \A f \in Gpu : done'[f] \subseteq Task[f]
    BY <1>5, <2>1 DEF FinishReduce, Finish, TypeOK
  <2> QED
    BY <1>5, <2>2, <2>3 DEF FinishReduce, Finish, TypeOK, network
<1>6. ASSUME NEW m \in puts, Land(m) PROVE TypeOK'
  <2>1. /\ m.src \in Gpu /\ m.dst \in Gpu /\ m.round \in Round /\ m.tile \in Tile
        /\ m.row \in Row /\ m.term \in Round \cup {0} /\ BufferIn(m.round) \in Buffer
    BY BufferType DEF TypeOK, Message
  <2>2. gathered' \in [Gpu -> [Buffer \X Gpu \X Tile \X Row -> Round \cup {0}]]
    BY <1>6, <2>1 DEF Land, TypeOK
  <2> QED
    BY <1>6, <2>2 DEF Land, TypeOK
<1>7. ASSUME NEW m \in landed, Signal(m) PROVE TypeOK'
  <2>1. /\ m.src \in Gpu /\ m.dst \in Gpu /\ m.tile \in Tile /\ m.row \in Row
        /\ Slot(m.round) \in Slots /\ IterationOf(m.round) \in 1 .. MaxIterations
    BY RoundShape DEF TypeOK, Message
  <2> DEFINE c == << Slot(m.round), m.tile >>
             x == << IterationOf(m.round), << m.src, m.row >> >>
             All == (1 .. MaxIterations) \X (Gpu \X Row)
  <2>2. c \in Slots \X Tile /\ x \in All /\ m.dst \in Gpu
    BY <2>1
  <2>3. signals' = [signals EXCEPT ![m.dst][c] = @ \cup {x}]
    BY <1>7 DEF Signal
  <2>4. signals \in [Gpu -> [Slots \X Tile -> SUBSET All]]
    BY DEF TypeOK
  <2> HIDE DEF c, x, All
  <2>5. signals' \in [Gpu -> [Slots \X Tile -> SUBSET All]]
    BY <2>2, <2>3, <2>4
  <2>6. signals' \in [Gpu -> [Slots \X Tile -> SUBSET ((1 .. MaxIterations) \X (Gpu \X Row))]]
    BY <2>5 DEF All
  <2> QED
    BY <1>7, <2>6 DEF Signal, TypeOK
<1>8. ASSUME Terminated PROVE TypeOK'
  BY <1>8 DEF Terminated, vars, network, TypeOK
<1> QED
  BY <1>1, <1>2, <1>3, <1>4, <1>5, <1>6, <1>7, <1>8
     DEF Next, Step, GpuStep, TaskStep, NetworkStep

-----------------------------------------------------------------------------
(* The order of the tasks.                                                 *)

\* A network step that signals nothing leaves the order alone.
LEMMA OrderKept ==
    ASSUME OrderInv, UNCHANGED << iteration, reducing, done, signals >>
    PROVE  OrderInv'
  BY DEF OrderInv, ProducedInOrder, CopiedInOrder, IterationsInOrder, SumsSignalled,
         SignalsCopied, SumsOnce, ReducedInOrder, Produced, Copied, Summed, Summing,
         Reduced, Signalled

\* An iteration begins when the one before is reduced.
LEMMA BeginOrder ==
    ASSUME TypeOK, OrderInv, NEW g \in Gpu, BeginIteration(g)
    PROVE  OrderInv'
<1>1. /\ iteration' = [iteration EXCEPT ![g] = @ + 1]
      /\ iteration[g] > 0 => Reduced(g, iteration[g] * NumRounds)
      /\ UNCHANGED << reducing, done, signals >>
  BY DEF BeginIteration, network
<1>2. IterationsInOrder'
  <2> SUFFICES ASSUME NEW f \in Gpu, NEW k \in 1 .. MaxIterations, k < iteration'[f]
               PROVE  Reduced(f, k * NumRounds)
    BY <1>1 DEF IterationsInOrder, Reduced
  <2>1. CASE k < iteration[f]
    BY <2>1 DEF OrderInv, IterationsInOrder
  <2>2. CASE ~(k < iteration[f])
    <3>1. f = g /\ iteration'[g] = iteration[g] + 1 /\ iteration[g] \in Nat
      BY <1>1, <2>2, Sizes DEF TypeOK
    <3>2. k = iteration[g]
      BY <2>2, <3>1
    <3> QED
      BY <1>1, <3>1, <3>2
  <2> QED
    BY <2>1, <2>2
<1> QED
  BY <1>1, <1>2 DEF OrderInv, ProducedInOrder, CopiedInOrder, SumsSignalled,
         SignalsCopied, SumsOnce, ReducedInOrder, Produced, Copied, Summed, Summing,
         Reduced, Signalled

\* What is produced follows a round that is reduced.
LEMMA ProduceOrder ==
    ASSUME TypeOK, OrderInv, NEW g \in Gpu, NEW p \in Heads(g), Produce(g, p)
    PROVE  OrderInv'
<1>1. PICK n \in Round, t \in Tile :
         /\ IterationOf(n) <= iteration[g] /\ AfterPrevious(g, n)
         /\ UNCHANGED << iteration, reducing, network >>
         /\ \A f \in Gpu : \A m, s :
              /\ Produced(f, m, s)' <=> Produced(f, m, s) \/ << f, m, s >> = << g, n, t >>
              /\ Summed(f, m, s)' <=> Summed(f, m, s)
              /\ Summing(f, m, s)' <=> Summing(f, m, s)
              /\ \A h : Copied(f, m, s, h)' <=> Copied(f, m, s, h)
  BY ProduceEffect
<1>2. \A f \in Gpu : \A m : Reduced(f, m)' <=> Reduced(f, m)
  BY <1>1 DEF Reduced, Summed
<1>3. n > 1 => Reduced(g, n - 1)
  <2> SUFFICES ASSUME n > 1, Slot(n) = 1 PROVE Reduced(g, n - 1)
    BY <1>1 DEF AfterPrevious
  <2>1. IterationOf(n) - 1 \in 1 .. MaxIterations /\ n - 1 = (IterationOf(n) - 1) * NumRounds
    BY FirstOfIteration
  <2>2. IterationOf(n) - 1 < iteration[g]
    BY <1>1, <2>1, RoundShape, Sizes DEF TypeOK
  <2> QED
    BY <2>1, <2>2 DEF OrderInv, IterationsInOrder
<1>4. ProducedInOrder'
  BY <1>1, <1>2, <1>3 DEF OrderInv, ProducedInOrder
<1>5. CopiedInOrder'
  BY <1>1 DEF OrderInv, CopiedInOrder, Others
<1>6. IterationsInOrder' /\ ReducedInOrder'
  BY <1>1, <1>2 DEF OrderInv, IterationsInOrder, ReducedInOrder
<1>7. SumsSignalled' /\ SignalsCopied'
  BY <1>1 DEF OrderInv, SumsSignalled, SignalsCopied, Signalled, network
<1>8. SumsOnce'
  BY <1>1 DEF OrderInv, SumsOnce
<1> QED
  BY <1>4, <1>5, <1>6, <1>7, <1>8 DEF OrderInv

\* What is copied is produced.
LEMMA CopyOrder ==
    ASSUME TypeOK, OrderInv, NEW g \in Gpu, NEW p \in Heads(g), Copy(g, p)
    PROVE  OrderInv'
<1>1. PICK n \in Round, t \in Tile, h \in Others(g) :
         /\ ~Copied(g, n, t, h) /\ Produced(g, n, t)
         /\ puts' = puts \cup
              { [src |-> g, dst |-> h, round |-> n, tile |-> t, row |-> i,
                 term |-> term[g][<< Slot(n), t >>]] : i \in Row }
         /\ UNCHANGED << iteration, reducing, term, gathered, signals, landed >>
         /\ \A f \in Gpu : \A m, s :
              /\ Produced(f, m, s)' <=> Produced(f, m, s)
              /\ Summed(f, m, s)' <=> Summed(f, m, s)
              /\ Summing(f, m, s)' <=> Summing(f, m, s)
              /\ \A k : Copied(f, m, s, k)' <=>
                   Copied(f, m, s, k) \/ << f, m, s, k >> = << g, n, t, h >>
  BY CopyEffect
<1>2. \A f \in Gpu : \A m : Reduced(f, m)' <=> Reduced(f, m)
  BY <1>1 DEF Reduced, Summed
<1>3. ProducedInOrder' /\ IterationsInOrder' /\ ReducedInOrder'
  BY <1>1, <1>2 DEF OrderInv, ProducedInOrder, IterationsInOrder, ReducedInOrder
<1>4. CopiedInOrder'
  BY <1>1 DEF OrderInv, CopiedInOrder, Others
<1>5. SumsSignalled' /\ SignalsCopied'
  BY <1>1 DEF OrderInv, SumsSignalled, SignalsCopied, Signalled
<1>6. SumsOnce'
  BY <1>1 DEF OrderInv, SumsOnce
<1> QED
  BY <1>3, <1>4, <1>5, <1>6 DEF OrderInv

\* A reduce starts when all rows have been signalled.
LEMMA StartOrder ==
    ASSUME TypeOK, OrderInv, NEW g \in Gpu, NEW p \in Heads(g), StartReduce(g, p)
    PROVE  OrderInv'
<1>1. PICK n \in Round, t \in Tile :
         /\ ~Summed(g, n, t) /\ Counter(g, n, t) = NeededCounts(n)
         /\ UNCHANGED << iteration, done, term, network >>
         /\ reducing' = [reducing EXCEPT ![g] = @ \cup {<< "reduce", n, t, g >>}]
         /\ \A f \in Gpu : \A m, s :
              Summing(f, m, s)' <=> Summing(f, m, s) \/ << f, m, s >> = << g, n, t >>
  BY StartEffect
<1>2. \A h \in Others(g) : \A i \in Row : Signalled(g, n, t, h, i)
  BY <1>1, Counting
<1>3. SumsSignalled'
  <2>1. \A f \in Gpu : \A m, s : Summed(f, m, s)' <=> Summed(f, m, s)
    BY <1>1 DEF Summed
  <2>2. \A f \in Gpu : \A m, s, h, i : Signalled(f, m, s, h, i)' <=> Signalled(f, m, s, h, i)
    BY <1>1 DEF Signalled, network
  <2> QED
    BY <1>1, <1>2, <2>1, <2>2 DEF OrderInv, SumsSignalled, Others
<1>4. SumsOnce'
  <2>1. \A f \in Gpu : \A q \in reducing'[f] : q[1] = "reduce"
    BY <1>1 DEF OrderInv, SumsOnce, TypeOK
  <2>2. \A f \in Gpu : \A m, s : Summed(f, m, s)' <=> Summed(f, m, s)
    BY <1>1 DEF Summed
  <2> QED
    BY <1>1, <2>1, <2>2 DEF OrderInv, SumsOnce
<1> QED
  BY <1>1, <1>3, <1>4 DEF OrderInv, ProducedInOrder, CopiedInOrder, IterationsInOrder,
     SignalsCopied, ReducedInOrder, Produced, Copied, Summed, Reduced, Signalled, network

\* A round that is now reduced was the last to be summed of the rounds near it.
LEMMA FinishReduceOrder ==
    ASSUME TypeOK, OrderInv, NEW g \in Gpu, NEW p \in Heads(g), FinishReduce(g, p)
    PROVE  OrderInv'
<1>1. PICK n \in Round, t \in Tile :
         /\ Summing(g, n, t)
         /\ UNCHANGED << iteration, term, network >>
         /\ reducing' = [reducing EXCEPT ![g] = @ \ {<< "reduce", n, t, g >>}]
         /\ done' = [done EXCEPT ![g] = @ \cup {<< "reduce", n, t, g >>}]
         /\ \A f \in Gpu : \A m, s :
              /\ Produced(f, m, s)' <=> Produced(f, m, s)
              /\ Summed(f, m, s)' <=> Summed(f, m, s) \/ << f, m, s >> = << g, n, t >>
              /\ Summing(f, m, s)' <=> Summing(f, m, s) /\ << f, m, s >> # << g, n, t >>
              /\ \A k : Copied(f, m, s, k)' <=> Copied(f, m, s, k)
  BY FinishReduceEffect
<1>2. \A f \in Gpu : \A m : Reduced(f, m) => Reduced(f, m)'
  BY <1>1 DEF Reduced, Summed
<1>3. \A f \in Gpu : \A m, s, h, i : Signalled(f, m, s, h, i)' <=> Signalled(f, m, s, h, i)
  BY <1>1 DEF Signalled, network
<1>4. ProducedInOrder' /\ IterationsInOrder'
  BY <1>1, <1>2 DEF OrderInv, ProducedInOrder, IterationsInOrder
<1>5. CopiedInOrder' /\ SignalsCopied'
  BY <1>1, <1>3 DEF OrderInv, CopiedInOrder, SignalsCopied, Others
<1>6. SumsSignalled'
  BY <1>1, <1>3 DEF OrderInv, SumsSignalled
<1>7. SumsOnce'
  <2>1. \A f \in Gpu : \A q \in reducing'[f] : q[1] = "reduce"
    BY <1>1 DEF OrderInv, SumsOnce, TypeOK
  <2> QED
    BY <1>1, <2>1 DEF OrderInv, SumsOnce
<1>8. ReducedInOrder'
  <2> SUFFICES ASSUME NEW f \in Gpu, NEW m \in Round, NEW k \in Round,
                      Apart(m, k), Reduced(f, k)'
               PROVE  Reduced(f, m)
    BY <1>2 DEF ReducedInOrder
  <2>1. CASE Reduced(f, k)
    BY <2>1 DEF OrderInv, ReducedInOrder
  <2>2. CASE ~Reduced(f, k)
    <3>1. f = g /\ k = n
      BY <1>1, <2>2 DEF Reduced, Summed
    <3>2. PICK h \in Gpu : h # g
      BY SomeOther
    <3>3. k > 1
      BY RoundShape DEF Apart
    <3>4. Reduced(h, k - 1)
      BY <1>1, <3>1, <3>2, <3>3, SummedCopied
    <3> QED
      BY <3>1, <3>2, <3>4, Reach
  <2> QED
    BY <2>1, <2>2
<1> QED
  BY <1>4, <1>5, <1>6, <1>7, <1>8 DEF OrderInv

\* What is signalled was copied.
LEMMA SignalOrder ==
    ASSUME TypeOK, OrderInv, MessagesCopied, NEW m \in landed, Signal(m)
    PROVE  OrderInv'
<1>1. UNCHANGED << iteration, reducing, done >>
  BY DEF Signal
<1>2. /\ m.src \in Gpu /\ m.dst \in Gpu /\ m.round \in Round /\ m.tile \in Tile
      /\ m.src # m.dst /\ Copied(m.src, m.round, m.tile, m.dst)
  BY DEF TypeOK, Message, MessagesCopied
<1>3. \A g \in Gpu, n \in Round, t \in Tile, h \in Gpu, i \in Row :
         Signalled(g, n, t, h, i)' <=>
           \/ Signalled(g, n, t, h, i)
           \/ g = m.dst /\ n = m.round /\ t = m.tile /\ h = m.src /\ i = m.row
  BY SignalEffect
<1>4. \A f \in Gpu : \A n, s :
           /\ Produced(f, n, s)' <=> Produced(f, n, s)
           /\ Summed(f, n, s)' <=> Summed(f, n, s)
           /\ Summing(f, n, s)' <=> Summing(f, n, s)
           /\ Reduced(f, n)' <=> Reduced(f, n)
           /\ \A h : Copied(f, n, s, h)' <=> Copied(f, n, s, h)
  BY <1>1 DEF Produced, Summed, Summing, Reduced, Copied
<1>5. SumsSignalled'
  BY <1>3, <1>4 DEF OrderInv, SumsSignalled, Others
<1>6. SignalsCopied'
  <2> SUFFICES ASSUME NEW g \in Gpu, NEW n \in Round, NEW t \in Tile, NEW h \in Gpu,
                      NEW i \in Row, Signalled(g, n, t, h, i)'
               PROVE  h # g /\ Copied(h, n, t, g)
    BY <1>4 DEF SignalsCopied
  <2>1. CASE Signalled(g, n, t, h, i)
    BY <2>1 DEF OrderInv, SignalsCopied
  <2>2. CASE g = m.dst /\ n = m.round /\ t = m.tile /\ h = m.src
    BY <1>2, <2>2
  <2> QED
    BY <1>3, <2>1, <2>2
<1>7. SumsOnce'
  BY <1>1, <1>4 DEF OrderInv, SumsOnce
<1>8. ProducedInOrder' /\ CopiedInOrder' /\ IterationsInOrder' /\ ReducedInOrder'
  BY <1>1, <1>4 DEF OrderInv, ProducedInOrder, CopiedInOrder, IterationsInOrder,
                    ReducedInOrder
<1> QED
  BY <1>5, <1>6, <1>7, <1>8 DEF OrderInv

\* Every step keeps the order.
LEMMA OrderStep ==
    ASSUME TypeOK, OrderInv, MessagesCopied, Next
    PROVE  OrderInv'
<1>1. ASSUME NEW g \in Gpu, NEW p \in Heads(g), TaskStep(g, p) PROVE OrderInv'
  BY <1>1, ProduceOrder, CopyOrder, StartOrder, FinishReduceOrder DEF TaskStep
<1>2. ASSUME NEW m \in puts, Land(m) PROVE OrderInv'
  BY <1>2, OrderKept DEF Land
<1>3. ASSUME Terminated PROVE OrderInv'
  BY <1>3, OrderKept DEF Terminated, vars, network
<1> QED
  BY <1>1, <1>2, <1>3, BeginOrder, SignalOrder DEF Next, Step, GpuStep, NetworkStep

-----------------------------------------------------------------------------
(* Messages and what they carry.                                           *)

\* Steps that neither send nor signal keep the messages.
LEMMA MessagesKept ==
    ASSUME TypeOK, MessagesInv, puts' \cup landed' = puts \cup landed,
           puts' \cap landed' = {}, UNCHANGED signals,
           \A g \in Gpu : \A n, t, h : Copied(g, n, t, h) => Copied(g, n, t, h)'
    PROVE  MessagesInv'
<1>1. \A m \in puts \cup landed : m.src \in Gpu
  BY DEF TypeOK, Message
<1> QED
  BY <1>1 DEF MessagesInv, MessagesCopied, MessagesOnce, Signalled

\* A copy sends the term of its round, once.
LEMMA CopyMessages ==
    ASSUME TypeOK, OrderInv, MessagesInv, TermsKept,
           NEW g \in Gpu, NEW p \in Heads(g), Copy(g, p)
    PROVE  MessagesInv'
<1>1. PICK n \in Round, t \in Tile, h \in Others(g) :
         /\ ~Copied(g, n, t, h) /\ Produced(g, n, t)
         /\ puts' = puts \cup
              { [src |-> g, dst |-> h, round |-> n, tile |-> t, row |-> i,
                 term |-> term[g][<< Slot(n), t >>]] : i \in Row }
         /\ UNCHANGED << iteration, reducing, term, gathered, signals, landed >>
         /\ \A f \in Gpu : \A m, s :
              /\ Produced(f, m, s)' <=> Produced(f, m, s)
              /\ Summed(f, m, s)' <=> Summed(f, m, s)
              /\ Summing(f, m, s)' <=> Summing(f, m, s)
              /\ \A k : Copied(f, m, s, k)' <=>
                   Copied(f, m, s, k) \/ << f, m, s, k >> = << g, n, t, h >>
  BY CopyEffect
<1>2. term[g][<< Slot(n), t >>] = n
  BY <1>1 DEF TermsKept
<1>3. h \in Gpu /\ h # g
  BY DEF Others
<1>4. \A i \in Row : ~Signalled(h, n, t, g, i)
  BY <1>1, <1>3 DEF OrderInv, SignalsCopied
<1> DEFINE New == { [src |-> g, dst |-> h, round |-> n, tile |-> t, row |-> i,
                     term |-> n] : i \in Row }
<1>5. puts' = puts \cup New /\ landed' = landed /\ signals' = signals
  BY <1>1, <1>2
<1>6. \A m \in New : /\ m.src = g /\ m.dst = h /\ m.round = n /\ m.tile = t
                     /\ m.term = n /\ m.row \in Row
  OBVIOUS
<1> HIDE DEF New
<1>7. \A m \in puts \cup landed :
         /\ m.src # m.dst /\ m.term = m.round
         /\ Copied(m.src, m.round, m.tile, m.dst)
         /\ ~Signalled(m.dst, m.round, m.tile, m.src, m.row)
         /\ m.src \in Gpu
  BY DEF MessagesInv, MessagesCopied, TypeOK, Message
<1>8. \A m \in puts' \cup landed' :
         /\ m.src # m.dst /\ m.term = m.round
         /\ Copied(m.src, m.round, m.tile, m.dst)'
         /\ ~Signalled(m.dst, m.round, m.tile, m.src, m.row)
  BY <1>1, <1>3, <1>4, <1>5, <1>6, <1>7
<1>9. \A a, b, c, d, e : Signalled(a, b, c, d, e)' <=> Signalled(a, b, c, d, e)
  BY <1>5 DEF Signalled
<1>10. MessagesCopied'
  BY <1>8, <1>9 DEF MessagesCopied
<1>11. MessagesOnce'
  BY <1>1, <1>5, <1>6, <1>7 DEF MessagesInv, MessagesOnce
<1> QED
  BY <1>10, <1>11 DEF MessagesInv

\* A row is signalled once.
LEMMA SignalMessages ==
    ASSUME TypeOK, MessagesInv, NEW m \in landed, Signal(m)
    PROVE  MessagesInv'
<1>1. UNCHANGED << done, puts >> /\ landed' = landed \ {m}
  BY DEF Signal
<1>2. m \notin puts
  BY DEF MessagesInv, MessagesOnce
<1>3. \A k \in puts \cup landed : k \in Message /\ k.term = k.round
  BY DEF TypeOK, MessagesInv, MessagesCopied
<1> SUFFICES ASSUME NEW k \in puts' \cup landed'
             PROVE  /\ k.src # k.dst
                    /\ Copied(k.src, k.round, k.tile, k.dst)'
                    /\ k.term = k.round
                    /\ ~Signalled(k.dst, k.round, k.tile, k.src, k.row)'
  BY <1>1 DEF MessagesInv, MessagesCopied, MessagesOnce
<1>4. k \in puts \cup landed /\ k # m
  BY <1>1, <1>2
<1>5. k.src # k.dst /\ Copied(k.src, k.round, k.tile, k.dst)' /\ k.term = k.round
  BY <1>1, <1>4 DEF MessagesInv, MessagesCopied, Copied
<1>6. ~(k.dst = m.dst /\ k.round = m.round /\ k.tile = m.tile /\ k.src = m.src /\ k.row = m.row)
  BY <1>3, <1>4 DEF Message
<1>7. /\ k.src \in Gpu /\ k.dst \in Gpu /\ k.round \in Round /\ k.tile \in Tile /\ k.row \in Row
      /\ ~Signalled(k.dst, k.round, k.tile, k.src, k.row)
  BY <1>3, <1>4 DEF MessagesInv, MessagesCopied, Message
<1>8. ~Signalled(k.dst, k.round, k.tile, k.src, k.row)'
  BY <1>6, <1>7, SignalEffect
<1> QED
  BY <1>5, <1>8

\* Every step keeps the messages.
LEMMA MessagesStep ==
    ASSUME TypeOK, OrderInv, MessagesInv, TermsKept, Next
    PROVE  MessagesInv'
<1>1. ASSUME NEW g \in Gpu, BeginIteration(g) PROVE MessagesInv'
  BY <1>1, MessagesKept DEF BeginIteration, network, Copied, MessagesInv, MessagesOnce
<1>2. ASSUME NEW g \in Gpu, NEW p \in Heads(g), Produce(g, p) PROVE MessagesInv'
  BY <1>2, MessagesKept, FinishEffect DEF Produce, network, Copied, MessagesInv, MessagesOnce
<1>3. ASSUME NEW g \in Gpu, NEW p \in Heads(g), StartReduce(g, p) PROVE MessagesInv'
  BY <1>3, MessagesKept DEF StartReduce, network, Copied, MessagesInv, MessagesOnce
<1>4. ASSUME NEW g \in Gpu, NEW p \in Heads(g), FinishReduce(g, p) PROVE MessagesInv'
  BY <1>4, MessagesKept, FinishEffect
     DEF FinishReduce, network, Copied, MessagesInv, MessagesOnce
<1>5. ASSUME NEW m \in puts, Land(m) PROVE MessagesInv'
  BY <1>5, MessagesKept DEF Land, Copied, MessagesInv, MessagesOnce
<1>6. ASSUME Terminated PROVE MessagesInv'
  BY <1>6, MessagesKept DEF Terminated, vars, network, Copied, MessagesInv, MessagesOnce
<1> QED
  BY <1>1, <1>2, <1>3, <1>4, <1>5, <1>6, CopyMessages, SignalMessages
     DEF Next, Step, GpuStep, TaskStep, NetworkStep

\* Another round of the same slot does not produce over a term not yet copied.
LEMMA ProduceTerms ==
    ASSUME TypeOK, OrderInv, TermsKept,
           NEW g \in Gpu, NEW p \in Heads(g), Produce(g, p)
    PROVE  TermsKept'
<1>1. PICK n \in Round, t \in Tile :
         /\ ~Produced(g, n, t)
         /\ IterationOf(n) <= iteration[g] /\ AfterPrevious(g, n)
         /\ term' = [term EXCEPT ![g][<< Slot(n), t >>] = n]
         /\ UNCHANGED << iteration, reducing, network >>
         /\ \A f \in Gpu : \A m, s :
              /\ Produced(f, m, s)' <=> Produced(f, m, s) \/ << f, m, s >> = << g, n, t >>
              /\ Summed(f, m, s)' <=> Summed(f, m, s)
              /\ Summing(f, m, s)' <=> Summing(f, m, s)
              /\ \A h : Copied(f, m, s, h)' <=> Copied(f, m, s, h)
  BY ProduceEffect
<1>2. OrderInv'
  BY ProduceOrder
<1>3. n > 1 => Reduced(g, n - 1)
  <2>1. \A f \in Gpu : \A m : Reduced(f, m)' <=> Reduced(f, m)
    BY <1>1 DEF Reduced, Summed
  <2>2. Produced(g, n, t)'
    BY <1>1
  <2> QED
    BY <1>2, <2>1, <2>2 DEF OrderInv, ProducedInOrder
<1> SUFFICES ASSUME NEW f \in Gpu, NEW m \in Round, NEW s \in Tile, NEW h \in Others(f),
                    Produced(f, m, s)', ~Copied(f, m, s, h)
             PROVE  term'[f][<< Slot(m), s >>] = m
  BY <1>1 DEF TermsKept, Others
<1>4. << Slot(m), s >> \in Slots \X Tile /\ << Slot(n), t >> \in Slots \X Tile
  BY RoundShape
<1>5. CASE << f, m, s >> = << g, n, t >>
  BY <1>1, <1>4, <1>5 DEF TypeOK
<1>6. CASE << f, m, s >> # << g, n, t >>
  <2>1. Produced(f, m, s)
    BY <1>1, <1>6
  <2>2. term[f][<< Slot(m), s >>] = m
    BY <2>1 DEF TermsKept
  <2>3. ~(f = g /\ << Slot(m), s >> = << Slot(n), t >>)
    <3> SUFFICES ASSUME f = g, Slot(m) = Slot(n), s = t PROVE FALSE
      OBVIOUS
    <3>1. n \in Int /\ m \in Int /\ m # n /\ h \in Gpu /\ h # g
      BY <1>6, RoundShape DEF Others
    <3>2. CASE m < n
      <4>1. Apart(m, n) /\ n > 1
        BY <3>2, SameSlot, RoundShape
      <4>2. Reduced(h, m)
        BY <1>3, <3>1, <4>1, Reach
      <4>3. Copied(g, m, t, h)
        BY <3>1, <4>2, SummedCopied DEF Reduced, Summed
      <4> QED
        BY <4>3
    <3>3. CASE n < m
      <4>1. Apart(n, m)
        BY <3>3, SameSlot
      <4>2. Reduced(h, n)
        BY <2>1, <3>1, <4>1, ProducedReach
      <4>3. Produced(g, n, t)
        BY <3>1, <4>2, SummedCopied DEF Reduced, Summed
      <4> QED
        BY <1>1, <4>3
    <3> QED
      BY <3>1, <3>2, <3>3
  <2> QED
    BY <1>1, <1>4, <2>2, <2>3 DEF TypeOK
<1> QED
  BY <1>5, <1>6

\* Every step keeps the terms that are still to be copied.
LEMMA TermsStep ==
    ASSUME TypeOK, OrderInv, TermsKept, Next
    PROVE  TermsKept'
<1>1. ASSUME UNCHANGED term,
             \A g \in Gpu : \A n, t, h : /\ Produced(g, n, t)' <=> Produced(g, n, t)
                                         /\ Copied(g, n, t, h) => Copied(g, n, t, h)'
      PROVE  TermsKept'
  BY <1>1 DEF TermsKept
<1>2. ASSUME UNCHANGED << term, done >> PROVE TermsKept'
  BY <1>2 DEF TermsKept, Produced, Copied
<1>3. ASSUME NEW g \in Gpu, NEW p \in Heads(g), Copy(g, p) PROVE TermsKept'
  <2>1. UNCHANGED term
    BY <1>3 DEF Copy
  <2>2. \A f \in Gpu : \A q : q \in done'[f] <=> q \in done[f] \/ (f = g /\ q = p)
    BY <1>3, FinishEffect DEF Copy
  <2> QED
    BY <1>1, <1>3, <2>1, <2>2 DEF Copy, Produced, Copied
<1>4. ASSUME NEW g \in Gpu, NEW p \in Heads(g), FinishReduce(g, p) PROVE TermsKept'
  <2>1. UNCHANGED term /\ p[1] = "reduce"
    BY <1>4 DEF FinishReduce, OrderInv, SumsOnce
  <2>2. \A f \in Gpu : \A q : q \in done'[f] <=> q \in done[f] \/ (f = g /\ q = p)
    BY <1>4, FinishEffect DEF FinishReduce
  <2> QED
    BY <1>1, <2>1, <2>2 DEF Produced, Copied
<1> QED
  BY <1>2, <1>3, <1>4, ProduceTerms
     DEF Next, Step, GpuStep, TaskStep, NetworkStep, BeginIteration, StartReduce, Land, Signal,
         Terminated, vars, network

-----------------------------------------------------------------------------
(* Rows of the buffers.                                                    *)

\* A row that arrives is of a near round, or what it writes over has been summed.
LEMMA LandRows ==
    ASSUME TypeOK, OrderInv, MessagesInv, RowsKept,
           NEW m \in puts, Land(m)
    PROVE  RowsKept'
<1>1. /\ UNCHANGED << iteration, reducing, done, term, signals >>
      /\ m.src \in Gpu /\ m.dst \in Gpu /\ m.round \in Round /\ m.tile \in Tile
      /\ \A g \in Gpu : \A c \in Buffer \X Gpu \X Tile \X Row :
           gathered'[g][c] =
             IF g = m.dst /\ c = << BufferIn(m.round), m.src, m.tile, m.row >>
             THEN m.term ELSE gathered[g][c]
  BY LandEffect
<1>2. /\ m.src # m.dst /\ m.term = m.round
      /\ Copied(m.src, m.round, m.tile, m.dst)
      /\ ~Signalled(m.dst, m.round, m.tile, m.src, m.row)
  BY DEF MessagesInv, MessagesCopied
<1> SUFFICES ASSUME NEW g \in Gpu, NEW n \in Round, NEW t \in Tile, NEW h \in Gpu,
                    NEW i \in Row, Arrived(g, n, t, h, i)', ~Summed(g, n, t)
             PROVE  HoldsNear(g, n, t, h, i)'
  BY <1>1 DEF RowsKept, Summed
<1>3. << BufferIn(n), h, t, i >> \in Buffer \X Gpu \X Tile \X Row
  BY BufferType
<1>4. CASE g = m.dst /\ << BufferIn(n), h, t, i >> = << BufferIn(m.round), m.src, m.tile, m.row >>
  <2>1. gathered'[g][<< BufferIn(n), h, t, i >>] = m.round
    BY <1>1, <1>2, <1>3, <1>4
  <2>2. n = m.round \/ Arrived(g, n, t, h, i)
    BY <1>1, <1>4 DEF Land, Arrived, Signalled
  <2>3. h # g /\ h = m.src /\ t = m.tile /\ i = m.row /\ BufferIn(n) = BufferIn(m.round)
    BY <1>2, <1>4
  <2>4. ASSUME Apart(n, m.round) PROVE FALSE
    <3>1. Produced(h, m.round, t)
      BY <1>1, <1>2, <2>3 DEF OrderInv, CopiedInOrder, Others
    <3>2. Reduced(g, n)
      BY <1>1, <2>3, <2>4, <3>1, ProducedReach
    <3> QED
      BY <3>2 DEF Reduced, Summed
  <2>5. ASSUME Apart(m.round, n) PROVE FALSE
    <3>1. n # m.round
      BY <1>1, <2>5, RoundShape DEF Apart
    <3>2. Copied(h, n, t, g)
      BY <2>2, <3>1 DEF Arrived, OrderInv, SignalsCopied, MessagesInv, MessagesCopied
    <3>3. Produced(h, n, t)
      BY <2>3, <3>2 DEF OrderInv, CopiedInOrder, Others
    <3>4. Reduced(g, m.round)
      BY <1>1, <2>3, <2>5, <3>3, ProducedReach
    <3>5. Signalled(g, m.round, t, h, i)
      BY <1>1, <2>3, <3>4, SummedCopied DEF Reduced, Summed
    <3> QED
      BY <1>2, <1>4, <2>3, <3>5
  <2> QED
    BY <1>1, <2>1, <2>3, <2>4, <2>5 DEF HoldsNear, Near
<1>5. CASE ~(g = m.dst /\ << BufferIn(n), h, t, i >> = << BufferIn(m.round), m.src, m.tile, m.row >>)
  <2>1. Arrived(g, n, t, h, i)
    BY <1>1, <1>5 DEF Land, Arrived, Signalled
  <2>2. HoldsNear(g, n, t, h, i)
    BY <2>1 DEF RowsKept
  <2>3. gathered'[g][<< BufferIn(n), h, t, i >>] = gathered[g][<< BufferIn(n), h, t, i >>]
    BY <1>1, <1>3, <1>5
  <2> QED
    BY <2>2, <2>3 DEF HoldsNear
<1> QED
  BY <1>4, <1>5

\* Every step keeps the rows that are still to be summed.
LEMMA RowsStep ==
    ASSUME MultiGpuInv, RowsKept, Next
    PROVE  RowsKept'
<1>1. ASSUME UNCHANGED << gathered, signals, landed >>,
             \A g \in Gpu : \A n, t : Summed(g, n, t) => Summed(g, n, t)'
      PROVE  RowsKept'
  BY <1>1 DEF RowsKept, HoldsNear, Arrived, Signalled
<1>2. ASSUME UNCHANGED << done, network >> PROVE RowsKept'
  BY <1>1, <1>2 DEF Summed, network
<1>3. ASSUME NEW g \in Gpu, NEW p \in Heads(g), TaskStep(g, p) PROVE RowsKept'
  <2>1. UNCHANGED << gathered, signals, landed >>
    BY <1>3 DEF TaskStep, Produce, Copy, StartReduce, FinishReduce, network
  <2>2. Finish(g, p) \/ UNCHANGED done
    BY <1>3 DEF TaskStep, Produce, Copy, StartReduce, FinishReduce
  <2>3. \A f \in Gpu : done[f] \subseteq done'[f]
    BY <2>2, FinishEffect DEF MultiGpuInv
  <2> QED
    BY <1>1, <2>1, <2>3 DEF Summed
<1>4. ASSUME NEW m \in landed, Signal(m) PROVE RowsKept'
  <2>1. UNCHANGED << gathered, done >> /\ landed' = landed \ {m}
    BY <1>4 DEF Signal
  <2>2. \A g \in Gpu, n \in Round, t \in Tile, h \in Gpu, i \in Row :
           Arrived(g, n, t, h, i)' => Arrived(g, n, t, h, i)
    BY <1>4, <2>1, SignalEffect DEF Arrived, MultiGpuInv
  <2> QED
    BY <2>1, <2>2 DEF RowsKept, HoldsNear, Summed
<1> QED
  BY <1>2, <1>3, <1>4, LandRows DEF MultiGpuInv, Next, Step, GpuStep, NetworkStep,
     BeginIteration, Terminated, vars, network

-----------------------------------------------------------------------------
(* The theorems.                                                           *)

\* The invariant holds when the GPUs start.
LEMMA InitInv == Init => MultiGpuInv /\ RowsKept
<1> SUFFICES ASSUME Init PROVE MultiGpuInv /\ RowsKept
  OBVIOUS
<1>1. TypeOK
  BY Sizes DEF Init, TypeOK
<1>2. \A g \in Gpu : \A p : p \notin done[g] /\ p \notin reducing[g]
  BY DEF Init
<1>3. \A g \in Gpu : \A n, t, h : ~Produced(g, n, t) /\ ~Copied(g, n, t, h) /\ ~Summed(g, n, t)
                              /\ ~Summing(g, n, t)
  BY <1>2 DEF Produced, Copied, Summed, Summing
<1>4. \A g \in Gpu, n \in Round, t \in Tile : \A h, i : ~Signalled(g, n, t, h, i)
  BY RoundShape DEF Init, Signalled
<1>5. \A g \in Gpu : \A n : ~Reduced(g, n)
  BY <1>3, TileZero DEF Reduced, Summed
<1>6. OrderInv
  <2>1. ProducedInOrder /\ CopiedInOrder /\ ReducedInOrder
    BY <1>3, <1>5 DEF ProducedInOrder, CopiedInOrder, ReducedInOrder
  <2>2. IterationsInOrder
    BY DEF Init, IterationsInOrder
  <2>3. SumsSignalled /\ SignalsCopied
    BY <1>3, <1>4 DEF SumsSignalled, SignalsCopied
  <2>4. SumsOnce
    BY <1>2, <1>3 DEF SumsOnce
  <2> QED
    BY <2>1, <2>2, <2>3, <2>4 DEF OrderInv
<1>7. MessagesInv
  BY DEF Init, MessagesInv, MessagesCopied, MessagesOnce
<1>8. TermsKept /\ RowsKept
  BY <1>3, <1>4 DEF Init, TermsKept, RowsKept, Arrived
<1> QED
  BY <1>1, <1>6, <1>7, <1>8 DEF MultiGpuInv

\* Every step and every stutter keeps the invariant.
LEMMA InvStep == MultiGpuInv /\ [Next]_vars => MultiGpuInv'
<1>1. ASSUME MultiGpuInv, Next PROVE MultiGpuInv'
  BY <1>1, TypeStep, OrderStep, MessagesStep, TermsStep DEF MultiGpuInv, MessagesInv
<1>2. ASSUME MultiGpuInv, UNCHANGED vars PROVE MultiGpuInv'
  <2>1. TypeOK'
    BY <1>2 DEF MultiGpuInv, TypeOK, vars
  <2>2. OrderInv'
    BY <1>2, OrderKept DEF MultiGpuInv, vars
  <2>3. MessagesInv'
    BY <1>2, MessagesKept DEF MultiGpuInv, vars, Copied, MessagesInv, MessagesOnce
  <2>4. TermsKept'
    BY <1>2 DEF MultiGpuInv, TermsKept, Produced, Copied, vars
  <2> QED
    BY <2>1, <2>2, <2>3, <2>4 DEF MultiGpuInv
<1> QED
  BY <1>1, <1>2

\* The state is typed, tasks and signals come in order, and a message carries
\* the term of its round, for every number of GPUs, tiles, rows and workers.
THEOREM MultiGpuInvariant == Spec => []MultiGpuInv
<1>1. Init => MultiGpuInv
  BY InitInv
<1> QED
  BY <1>1, InvStep, PTL DEF Spec

\* The equality wait of execute_worker for an NVSHMEM event misses no value: the
\* counter does not pass what a reduce waits for before the reduce has started.
THEOREM WaitsForEquality == Spec => []NoSignalMissed
<1>1. MultiGpuInv => NoSignalMissed
  BY Counting DEF MultiGpuInv, NoSignalMissed, Summed
<1> QED
  BY <1>1, MultiGpuInvariant, PTL

\* A reduce of execute_worker starts on a number of signals; whatever the order in
\* which copies arrive, they are those of its round, from every GPU for every row.
\* reduction_kernel may find a row written over by a GPU that is ahead, as nothing
\* guards the buffers, but only by a near round, whatever all-reduces share one.
THEOREM RowsHaveCome == Spec => []RowsGathered
<1> DEFINE Inv == MultiGpuInv /\ RowsKept
<1>1. Init => Inv
  BY InitInv
<1>2. Inv /\ [Next]_vars => Inv'
  <2>1. ASSUME MultiGpuInv, RowsKept, UNCHANGED vars PROVE RowsKept'
    BY <2>1 DEF RowsKept, HoldsNear, Arrived, Signalled, Summed, vars
  <2> QED
    BY <2>1, InvStep, RowsStep
<1>3. Inv => RowsGathered
  <2> SUFFICES ASSUME MultiGpuInv, RowsKept, NEW g \in Gpu, NEW n \in Round, NEW t \in Tile,
                      Summing(g, n, t), NEW h \in Others(g), NEW i \in Row
               PROVE  Signalled(g, n, t, h, i) /\ HoldsNear(g, n, t, h, i)
    BY DEF RowsGathered, Summing, Signalled, HoldsNear
  <2>1. Signalled(g, n, t, h, i)
    BY DEF MultiGpuInv, OrderInv, SumsSignalled
  <2>2. ~Summed(g, n, t)
    BY DEF MultiGpuInv, OrderInv, SumsOnce
  <2> QED
    BY <2>1, <2>2 DEF RowsKept, Arrived, Others
<1> HIDE DEF Inv
<1> QED
  BY <1>1, <1>2, <1>3, PTL DEF Spec
=============================================================================
