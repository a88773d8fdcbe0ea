--------------------------- MODULE LinearHopperProofs ---------------------------
(***************************************************************************)
(* The pipeline of linear_kernel_hopper for every number of stages, tiles, *)
(* atoms and threads: one bit of the phase is enough, and what is read has *)
(* landed and is not copied over.                                          *)
(*                                                                         *)
(* No step counts phases: a barrier's phase is beyond the round of a tile  *)
(* exactly when what it stands for has happened to that tile.              *)
(***************************************************************************)
EXTENDS LinearHopper, TLAPS

-----------------------------------------------------------------------------
(* Slots and rounds.                                                       *)

\* Tiles are slot by slot Kstages apart, and a round apart.
LEMMA SlotFacts ==
    /\ Kstages \in Nat \ {0}
    /\ \A j \in Nat : /\ Slot(j) \in Slots /\ Round(j) \in Nat
                      /\ j < Kstages => Round(j) = 0
                      /\ Slot(j + Kstages) = Slot(j) /\ Round(j + Kstages) = Round(j) + 1
    /\ \A i, j \in Nat : Slot(i) = Slot(j) /\ i < j => i + Kstages <= j /\ Round(i) < Round(j)
<1>1. Kstages \in Nat \ {0}
  BY SizesAssumption
<1>2. ASSUME NEW j \in Nat
      PROVE  /\ Slot(j) \in Slots /\ Round(j) \in Nat
             /\ j = Kstages * Round(j) + Slot(j)
  BY <1>1 DEF Slot, Round, Slots
<1>3. ASSUME NEW q \in Int, NEW r \in Int, NEW p \in Int, NEW s \in Int,
             0 <= r, r < Kstages, 0 <= s, s < Kstages,
             Kstages * q + r = Kstages * p + s
      PROVE  q = p /\ r = s
  <2>1. CASE q < p
    <3>1. Kstages * p >= Kstages * q + Kstages
      BY <1>1, <2>1
    <3> QED
      BY <1>1, <1>3, <3>1
  <2>2. CASE p < q
    <3>1. Kstages * q >= Kstages * p + Kstages
      BY <1>1, <2>2
    <3> QED
      BY <1>1, <1>3, <3>1
  <2>3. CASE p = q
    BY <1>1, <1>3, <2>3
  <2> QED
    BY <2>1, <2>2, <2>3
<1>4. ASSUME NEW j \in Nat
      PROVE  /\ j < Kstages => Round(j) = 0
             /\ Slot(j + Kstages) = Slot(j) /\ Round(j + Kstages) = Round(j) + 1
  <2>1. /\ Slot(j) \in Int /\ 0 <= Slot(j) /\ Slot(j) < Kstages
        /\ Slot(j + Kstages) \in Int /\ 0 <= Slot(j + Kstages) /\ Slot(j + Kstages) < Kstages
    <3>1. j + Kstages \in Nat
      BY <1>1
    <3>2. Slot(j) \in Slots /\ Slot(j + Kstages) \in Slots
      BY <1>2, <3>1
    <3> HIDE DEF Slot
    <3> QED
      BY <1>1, <3>2 DEF Slots
  <2>2. ASSUME j < Kstages PROVE Round(j) = 0
    <3>1. Round(j) \in Nat /\ j = Kstages * Round(j) + Slot(j)
      BY <1>2
    <3>2. Round(j) # 0 => Kstages * Round(j) >= Kstages
      BY <1>1, <3>1
    <3> HIDE DEF Round, Slot
    <3> QED
      BY <1>1, <2>1, <2>2, <3>1, <3>2
  <2>3. Slot(j + Kstages) = Slot(j) /\ Round(j + Kstages) = Round(j) + 1
    <3>1. j + Kstages \in Nat
      BY <1>1
    <3>2. Round(j) \in Nat /\ Round(j + Kstages) \in Nat
      BY <1>2, <3>1
    <3>3. Kstages * Round(j + Kstages) + Slot(j + Kstages) = Kstages * (Round(j) + 1) + Slot(j)
      <4>1. j + Kstages = Kstages * Round(j + Kstages) + Slot(j + Kstages)
        BY <1>2, <3>1
      <4>2. j = Kstages * Round(j) + Slot(j)
        BY <1>2
      <4>3. Kstages * (Round(j) + 1) = Kstages * Round(j) + Kstages
        BY <1>1, <3>2
      <4> HIDE DEF Slot, Round
      <4> QED
        BY <4>1, <4>2, <4>3, <1>1, <2>1, <3>2
    <3> QED
      BY <1>3, <2>1, <3>2, <3>3
  <2> QED
    BY <2>2, <2>3
<1>5. ASSUME NEW i \in Nat, NEW j \in Nat, Slot(i) = Slot(j), i < j
      PROVE  i + Kstages <= j /\ Round(i) < Round(j)
  <2>1. /\ Round(i) \in Nat /\ Round(j) \in Nat /\ Slot(i) \in Int
        /\ i = Kstages * Round(i) + Slot(i) /\ j = Kstages * Round(j) + Slot(i)
    BY <1>2, <1>5 DEF Slots
  <2>2. Round(i) < Round(j)
    <3>1. ASSUME Round(j) <= Round(i) PROVE FALSE
      <4>1. Kstages * Round(j) <= Kstages * Round(i)
        BY <1>1, <2>1, <3>1
      <4> QED
        BY <1>1, <1>5, <2>1, <4>1
    <3> QED
      BY <2>1, <3>1
  <2>3. Kstages * Round(j) >= Kstages * Round(i) + Kstages
    BY <1>1, <2>1, <2>2
  <2> QED
    BY <1>1, <2>1, <2>2, <2>3
<1> QED
  BY <1>1, <1>2, <1>4, <1>5

LEMMA StagesNat == Kstages \in Nat /\ Kstages > 0
  BY SizesAssumption

LEMMA SlotRange == \A j \in Nat : Slot(j) \in Slots /\ Round(j) \in Nat
  BY SlotFacts

LEMMA FirstRound == \A j \in Nat : j < Kstages => Round(j) = 0
  BY SlotFacts

LEMMA NextRound ==
    \A j \in Nat : Slot(j + Kstages) = Slot(j) /\ Round(j + Kstages) = Round(j) + 1
  BY SlotFacts

LEMMA RoundOrder ==
    \A i, j \in Nat : Slot(i) = Slot(j) /\ i < j => i + Kstages <= j /\ Round(i) < Round(j)
  BY SlotFacts

-----------------------------------------------------------------------------
(* The barriers.                                                           *)

Idle(n) == [phase |-> n, pending |-> 1, tx |-> 0]
Busy(n) == [phase |-> n, pending |-> 0, tx |-> 1]

\* A barrier expects one arrival, and perhaps one copy: with both its phase ends.
LEMMA BarrierFacts ==
    /\ \A n : Idle(n).phase = n /\ Busy(n).phase = n
    /\ \A n \in Nat : /\ Arrive(Idle(n)) = Idle(n + 1)
                      /\ ArriveExpect(Idle(n)) = Busy(n)
                      /\ CompleteTx(Busy(n)) = Idle(n + 1)
<1>1. \A n : Idle(n).phase = n /\ Busy(n).phase = n
  BY DEF Idle, Busy
<1>2. ASSUME NEW n \in Nat
      PROVE  /\ Arrive(Idle(n)) = Idle(n + 1)
             /\ ArriveExpect(Idle(n)) = Busy(n)
             /\ CompleteTx(Busy(n)) = Idle(n + 1)
  <2>1. [Idle(n) EXCEPT !.pending = @ - 1] = [phase |-> n, pending |-> 0, tx |-> 0]
    BY DEF Idle
  <2>2. [Busy(n) EXCEPT !.tx = @ - 1] = [phase |-> n, pending |-> 0, tx |-> 0]
    BY DEF Busy
  <2>3. Completed([phase |-> n, pending |-> 0, tx |-> 0]) = Idle(n + 1)
    BY DEF Completed, NewBarrier, Idle
  <2>4. ArriveExpect(Idle(n)) = Busy(n)
    BY DEF ArriveExpect, Idle, Busy
  <2> QED
    BY <2>1, <2>2, <2>3, <2>4 DEF Arrive, CompleteTx
<1> QED
  BY <1>1, <1>2

-----------------------------------------------------------------------------
(* The inductive invariant.                                                *)

Label == {"input", "weight", "multiply", "residual", "output", "sync", "store", "drain", "end"}

HopperTypeOK ==
    /\ loaded \in Nat /\ residuals \in Nat /\ computed \in Nat
    /\ loads \subseteq Ring \X Nat
    /\ smem \in [Ring -> [Slots -> Int]]
    /\ barrier \in [Barrier -> [Slots -> {Idle(n) : n \in Nat} \cup {Busy(n) : n \in Nat}]]
    /\ pc \in [Thread -> Label] /\ atom \in [Thread -> Nat] /\ tile \in [Thread -> Nat]

Requested(ring) == IF ring = "residual" THEN residuals ELSE loaded
\* Tiles of a ring whose slots have been released; the barrier that says so.
Freed(ring) == IF ring = "residual" THEN atom[Leader] ELSE tile[Leader]
DoneOf(ring) == IF ring = "residual" THEN "residual_done" ELSE "compute_done"
Landed(ring, j) == j < Requested(ring) /\ << ring, j >> \notin loads
InFlight(ring, s) == \E load \in loads : load[1] = ring /\ Slot(load[2]) = s

\* Nothing is requested into a slot that has not been released.
NoneAhead ==
    \A ring \in Ring : /\ Requested(ring) <= Freed(ring) + Kstages
                       /\ \A j \in Nat : << ring, j >> \in loads => j < Requested(ring)

\* The phase of a barrier is beyond the round of a tile if the tile has landed
\* or, at the barriers of the consumers, if its slot has been released.
PhasesTell ==
    /\ \A ring \in Ring, j \in Nat :
         /\ barrier[ring][Slot(j)].phase > Round(j) <=> Landed(ring, j)
         /\ barrier[DoneOf(ring)][Slot(j)].phase > Round(j) <=> j < Freed(ring)
    /\ \A ring \in Ring, s \in Slots :
         /\ \E n \in Nat : barrier[ring][s] = IF InFlight(ring, s) THEN Busy(n) ELSE Idle(n)
         /\ \E n \in Nat : barrier[DoneOf(ring)][s] = Idle(n)

\* The threads are within a tile, and within an atom, of each other.
InStep ==
    /\ \A th \in Thread : /\ tile[th] <= computed /\ computed <= tile[th] + 1
                          /\ computed = tile[th] + 1 => pc[th] = "multiply"
    /\ \A th, u \in Thread : /\ atom[u] <= atom[th] + 1
                             /\ atom[u] = atom[th] + 1 => pc[th] \in {"sync", "store"}
    /\ pc[Leader] = "store" =>
         \A u \in Thread : \/ atom[u] > atom[Leader]
                           \/ atom[u] = atom[Leader] /\ pc[u] \in {"sync", "store"}

\* Whoever has passed a wait has seen the tile land.
WaitsTell ==
    /\ \A j \in Nat : j < computed => Landed("input", j) /\ Landed("weight", j)
    /\ \A th \in Thread :
         /\ pc[th] \in {"weight", "multiply"} => Landed("input", tile[th])
         /\ pc[th] = "multiply" => Landed("weight", tile[th])
         /\ \A j \in Nat : j < atom[th] => Landed("residual", j)
         /\ pc[th] \in {"output", "sync", "store"} => Landed("residual", atom[th])

\* A slot holds the last tile that has landed in it.
SlotsHold ==
    \A ring \in Ring, j \in Nat :
      Landed(ring, j) /\ ~Landed(ring, j + Kstages) => smem[ring][Slot(j)] = j

HopperInv ==
    HopperTypeOK /\ NoneAhead /\ PhasesTell /\ InStep /\ WaitsTell /\ SlotsHold

\* The rings and the barriers that go with them.
LEMMA RingFacts ==
    /\ \A ring \in Ring : DoneOf(ring) \in Barrier \ Ring /\ ring \in Barrier
    /\ \A ring, r \in Ring : DoneOf(ring) = DoneOf(r) <=> (ring = "residual" <=> r = "residual")
    /\ Leader \in Thread
BY SizesAssumption DEF Ring, Barrier, DoneOf

LEMMA TypeFacts ==
    ASSUME HopperTypeOK
    PROVE  /\ \A ring \in Ring : Requested(ring) \in Nat /\ Freed(ring) \in Nat
           /\ tile[Leader] \in Nat /\ atom[Leader] \in Nat
BY RingFacts DEF HopperTypeOK, Requested, Freed

\* A slot is released only when its tile has landed; a copy under way is the
\* last one of its slot; and nothing lands a round ahead of the releases.
LEMMA LandedFacts ==
    ASSUME HopperTypeOK, NoneAhead, InStep, WaitsTell
    PROVE  /\ \A ring \in Ring, j \in Nat : j < Freed(ring) => Landed(ring, j)
           /\ \A ring \in Ring, i, j \in Nat :
                << ring, i >> \in loads /\ j < Requested(ring) /\ Slot(i) = Slot(j) => j <= i
           /\ \A ring \in Ring, j \in Nat : Freed(ring) <= j => ~Landed(ring, j + Kstages)
<1>1. \A ring \in Ring : /\ Requested(ring) \in Nat /\ Freed(ring) \in Nat
                         /\ Requested(ring) <= Freed(ring) + Kstages
  BY TypeFacts DEF NoneAhead
<1>2. tile[Leader] \in Nat /\ tile[Leader] <= computed /\ computed \in Nat
  BY RingFacts DEF HopperTypeOK, InStep
<1>3. ASSUME NEW ring \in Ring, NEW j \in Nat, j < Freed(ring) PROVE Landed(ring, j)
  <2>1. CASE ring = "residual"
    BY <1>3, <2>1, RingFacts DEF WaitsTell, Freed
  <2>2. CASE ring # "residual"
    <3>1. j < computed
      BY <1>2, <1>3, <2>2 DEF Freed
    <3> QED
      BY <2>2, <3>1 DEF WaitsTell, Ring
  <2> QED
    BY <2>1, <2>2
<1>4. ASSUME NEW ring \in Ring, NEW i \in Nat, NEW j \in Nat,
             << ring, i >> \in loads, j < Requested(ring), Slot(i) = Slot(j), i < j
      PROVE  FALSE
  <2>1. i + Kstages <= j
    BY <1>4, RoundOrder
  <2>2. i < Freed(ring)
    BY <1>1, <1>4, <2>1, StagesNat
  <2> QED
    BY <1>3, <1>4, <2>2 DEF Landed
<1>5. ASSUME NEW ring \in Ring, NEW j \in Nat, Freed(ring) <= j, Landed(ring, j + Kstages)
      PROVE  FALSE
  BY <1>1, <1>5, StagesNat DEF Landed
<1> QED
  BY <1>3, <1>4, <1>5

LEMMA HopperInit == Init => HopperInv
<1> SUFFICES ASSUME Init PROVE HopperInv
  OBVIOUS
<1>1. NewBarrier = Idle(0) /\ \A n : Idle(n).phase = n
  BY BarrierFacts DEF NewBarrier, Idle
<1>2. \A b \in Barrier, t \in Slots : barrier[b][t] = Idle(0) /\ barrier[b][t].phase = 0
  BY <1>1 DEF Init
<1>3. HopperTypeOK
  BY <1>1 DEF Init, HopperTypeOK, Empty, Label
<1>4. \A ring \in Ring : Requested(ring) = 0 /\ Freed(ring) = 0
  BY RingFacts DEF Init, Requested, Freed
<1>5. \A ring, j : << ring, j >> \notin loads /\ ~InFlight(ring, j)
  BY DEF Init, InFlight
<1>6. NoneAhead
  BY <1>4, <1>5, StagesNat DEF NoneAhead
<1>7. \A ring \in Ring, j \in Nat : ~Landed(ring, j)
  BY <1>4 DEF Landed
<1>8. PhasesTell
  <2>1. ASSUME NEW ring \in Ring, NEW j \in Nat
        PROVE  /\ barrier[ring][Slot(j)].phase > Round(j) <=> Landed(ring, j)
               /\ barrier[DoneOf(ring)][Slot(j)].phase > Round(j) <=> j < Freed(ring)
    <3>1. barrier[ring][Slot(j)].phase = 0 /\ barrier[DoneOf(ring)][Slot(j)].phase = 0
      BY <1>2, RingFacts, SlotRange
    <3>2. Round(j) \in Nat
      BY SlotRange
    <3> QED
      BY <1>4, <1>7, <3>1, <3>2
  <2>2. ASSUME NEW ring \in Ring, NEW t \in Slots
        PROVE  /\ \E n \in Nat : barrier[ring][t] = IF InFlight(ring, t) THEN Busy(n) ELSE Idle(n)
               /\ \E n \in Nat : barrier[DoneOf(ring)][t] = Idle(n)
    BY <1>2, <1>5, RingFacts
  <2> QED
    BY <2>1, <2>2 DEF PhasesTell
<1>9. InStep /\ WaitsTell
  <2>1. InStep
    BY RingFacts DEF Init, InStep
  <2>2. WaitsTell
    BY DEF Init, WaitsTell
  <2> QED
    BY <2>1, <2>2
<1>10. SlotsHold
  BY <1>7 DEF SlotsHold
<1> QED
  BY <1>3, <1>6, <1>8, <1>9, <1>10 DEF HopperInv

-----------------------------------------------------------------------------
(* The producer and its copies.                                            *)

\* The parity the producer waits for tells it that the slot is free.
LEMMA ProducerPasses ==
    ASSUME HopperInv, NEW ring \in Ring,
           Passes(DoneOf(ring), Slot(Requested(ring)), (Round(Requested(ring)) + 1) % 2)
    PROVE  Requested(ring) < Freed(ring) + Kstages
<1> DEFINE j == Requested(ring)
           n == barrier[DoneOf(ring)][Slot(j)].phase
<1>1. HopperTypeOK /\ NoneAhead /\ PhasesTell /\ InStep /\ WaitsTell
  BY DEF HopperInv
<1>2. j \in Nat /\ Freed(ring) \in Nat /\ j <= Freed(ring) + Kstages
  BY <1>1, TypeFacts DEF NoneAhead
<1>3. /\ n \in Nat /\ n % 2 # (Round(j) + 1) % 2
      /\ \A i \in Nat : Slot(i) = Slot(j) => (n > Round(i) <=> i < Freed(ring))
  <2>1. n \in Nat
    <3>1. PICK m \in Nat : barrier[DoneOf(ring)][Slot(j)] = Idle(m)
      BY <1>1, <1>2, SlotRange DEF PhasesTell
    <3> QED
      BY <3>1, BarrierFacts
  <2> QED
    BY <1>1, <2>1 DEF PhasesTell, Passes
<1>4. ~(j < Freed(ring))
  <2>1. j < Freed(ring) => Landed(ring, j)
    BY <1>1, <1>2, LandedFacts
  <2> QED
    BY <1>2, <2>1 DEF Landed
<1> HIDE DEF j, n
<1>5. SUFFICES ASSUME j = Freed(ring) + Kstages PROVE FALSE
  <2>1. ~(j = Freed(ring) + Kstages) => j < Freed(ring) + Kstages
    BY <1>2, StagesNat
  <2> QED
    BY <2>1 DEF j
<1> DEFINE i == Freed(ring)
<1>6. i \in Nat /\ Slot(i) = Slot(j) /\ Round(j) = Round(i) + 1 /\ Round(i) \in Nat
  BY <1>2, <1>5, NextRound, SlotRange
<1>7. n <= Round(i)
  BY <1>3, <1>6
<1>8. n < Round(i)
  BY <1>3, <1>6, <1>7
<1>9. i >= Kstages
  BY <1>3, <1>6, <1>8, FirstRound, StagesNat
<1> DEFINE h == i - Kstages
<1>10. h \in Nat /\ h < Freed(ring) /\ h + Kstages = i
  BY <1>6, <1>9, StagesNat
<1> HIDE DEF h
<1>11. Slot(h) = Slot(i) /\ Round(i) = Round(h) + 1 /\ Round(h) \in Nat
  BY <1>10, NextRound, SlotRange
<1> QED
  BY <1>3, <1>6, <1>8, <1>10, <1>11

\* A request goes to slots nothing is under way to, and lands nothing.
LEMMA RequestInv ==
    ASSUME HopperInv, NEW rings \in SUBSET Ring, NEW j \in Nat,
           \A ring \in rings : Requested(ring) = j /\ j < Freed(ring) + Kstages,
           Request(rings, j), loaded' \in Nat, residuals' \in Nat,
           \A ring \in Ring : Requested(ring)' = IF ring \in rings THEN j + 1 ELSE Requested(ring),
           UNCHANGED << smem, consumerVars >>
    PROVE  HopperInv'
<1>1. HopperTypeOK /\ NoneAhead /\ PhasesTell /\ InStep /\ WaitsTell /\ SlotsHold
  BY DEF HopperInv
<1>2. /\ smem' = smem /\ pc' = pc /\ atom' = atom /\ tile' = tile /\ computed' = computed
      /\ loads' = loads \cup (rings \X {j})
      /\ barrier' = [b \in Barrier |->
                       IF b \in rings THEN [barrier[b] EXCEPT ![Slot(j)] = ArriveExpect(@)]
                       ELSE barrier[b]]
  BY DEF consumerVars, Request
<1>3. \A ring \in Ring : /\ Freed(ring)' = Freed(ring) /\ Freed(ring) \in Nat
                         /\ Requested(ring) \in Nat
  BY <1>1, <1>2, TypeFacts DEF Freed
<1>4. \A ring, i : << ring, i >> \in loads' <=> << ring, i >> \in loads \/ (ring \in rings /\ i = j)
  BY <1>2
<1>5. \A ring \in Ring, i \in Nat : Landed(ring, i)' <=> Landed(ring, i)
  <2>1. SUFFICES ASSUME NEW ring \in Ring, NEW i \in Nat
                 PROVE  /\ i < Requested(ring)' /\ << ring, i >> \notin loads'
                            <=> i < Requested(ring) /\ << ring, i >> \notin loads
    BY DEF Landed
  <2>2. CASE ring \in rings
    <3>1. Requested(ring)' = j + 1 /\ Requested(ring) = j
      BY <2>2
    <3>2. << ring, i >> \in loads' <=> << ring, i >> \in loads \/ i = j
      BY <1>4, <2>2
    <3>3. i < j + 1 /\ i # j <=> i < j
      OBVIOUS
    <3> QED
      BY <3>1, <3>2, <3>3
  <2>3. CASE ring \notin rings
    BY <1>4, <2>3
  <2> QED
    BY <2>2, <2>3
<1>6. \A ring \in rings : ~InFlight(ring, Slot(j))
  <2>1. SUFFICES ASSUME NEW ring \in rings, NEW i \in Nat, << ring, i >> \in loads, Slot(i) = Slot(j)
                 PROVE  FALSE
    <3>1. \A load \in loads : load = << load[1], load[2] >> /\ load[2] \in Nat
      BY <1>1 DEF HopperTypeOK
    <3> QED
      BY <2>1, <3>1 DEF InFlight
  <2>2. i < j
    BY <1>1, <2>1 DEF NoneAhead
  <2>3. i + Kstages <= j
    BY <2>1, <2>2, RoundOrder
  <2>4. i < Freed(ring)
    BY <1>3, <2>3, StagesNat
  <2>5. Landed(ring, i)
    BY <1>1, <2>4, LandedFacts
  <2> QED
    BY <2>1, <2>5 DEF Landed
<1>7. ASSUME NEW ring \in Ring, NEW t \in Slots
      PROVE  /\ InFlight(ring, t)' <=> InFlight(ring, t) \/ (ring \in rings /\ t = Slot(j))
             /\ \E n \in Nat : /\ barrier[ring][t] = IF InFlight(ring, t) THEN Busy(n) ELSE Idle(n)
                               /\ barrier'[ring][t] = IF InFlight(ring, t)' THEN Busy(n) ELSE Idle(n)
  <2>1. InFlight(ring, t)' <=> InFlight(ring, t) \/ (ring \in rings /\ t = Slot(j))
    <3>1. \A load \in rings \X {j} : load[2] = j /\ load[1] \in rings
      OBVIOUS
    <3>2. ring \in rings => << ring, j >> \in rings \X {j}
      OBVIOUS
    <3> QED
      BY <1>2, <3>1, <3>2 DEF InFlight
  <2>2. PICK n \in Nat : barrier[ring][t] = IF InFlight(ring, t) THEN Busy(n) ELSE Idle(n)
    BY <1>1 DEF PhasesTell
  <2>3. barrier[ring] = [x \in Slots |-> barrier[ring][x]] /\ ring \in Barrier
    BY <1>1, RingFacts DEF HopperTypeOK
  <2>4. CASE ring \in rings /\ t = Slot(j)
    <3>1. barrier[ring][t] = Idle(n)
      BY <1>6, <2>2, <2>4
    <3>2. barrier'[ring][t] = ArriveExpect(Idle(n))
      BY <1>2, <2>3, <2>4, <3>1
    <3> QED
      BY <2>1, <2>2, <2>4, <3>2, BarrierFacts
  <2>5. CASE ~(ring \in rings /\ t = Slot(j))
    <3>1. barrier'[ring][t] = barrier[ring][t]
      BY <1>2, <2>3, <2>5
    <3> QED
      BY <2>1, <2>2, <2>5, <3>1
  <2> QED
    BY <2>1, <2>4, <2>5
<1>8. \A ring \in Ring, t \in Slots : barrier'[ring][t].phase = barrier[ring][t].phase
  BY <1>7, BarrierFacts
<1>9. \A b \in Barrier \ Ring : barrier'[b] = barrier[b]
  BY <1>2
<1>10. HopperTypeOK'
  <2>1. loads' \subseteq Ring \X Nat
    BY <1>1, <1>2 DEF HopperTypeOK
  <2>2. barrier' \in [Barrier -> [Slots -> {Idle(n) : n \in Nat} \cup {Busy(n) : n \in Nat}]]
    <3> DEFINE Values == {Idle(n) : n \in Nat} \cup {Busy(n) : n \in Nat}
    <3>1. \A b \in Barrier : barrier[b] \in [Slots -> Values]
      BY <1>1 DEF HopperTypeOK
    <3>2. ASSUME NEW b \in rings PROVE barrier'[b] \in [Slots -> Values]
      <4>1. b \in Ring /\ b \in Barrier
        BY RingFacts
      <4>2. \A t \in Slots : barrier'[b][t] \in Values
        BY <1>7, <4>1
      <4> HIDE DEF Values
      <4>3. barrier'[b] = [barrier[b] EXCEPT ![Slot(j)] = ArriveExpect(@)]
        BY <1>2, <4>1
      <4>4. barrier'[b] = [t \in Slots |-> barrier'[b][t]]
        BY <3>1, <4>1, <4>3
      <4> QED
        BY <4>2, <4>4
    <3> HIDE DEF Values
    <3>3. \A b \in Barrier : barrier'[b] \in [Slots -> Values]
      BY <1>2, <3>1, <3>2
    <3>4. barrier' = [b \in Barrier |-> barrier'[b]]
      BY <1>2
    <3> QED
      BY <3>3, <3>4 DEF Values
  <2> QED
    BY <1>1, <1>2, <2>1, <2>2 DEF HopperTypeOK
<1>11. NoneAhead'
  BY <1>1, <1>3, <1>4, StagesNat DEF NoneAhead
<1>12. PhasesTell'
  <2>1. ASSUME NEW ring \in Ring, NEW i \in Nat
        PROVE  /\ barrier'[ring][Slot(i)].phase > Round(i) <=> Landed(ring, i)'
               /\ barrier'[DoneOf(ring)][Slot(i)].phase > Round(i) <=> i < Freed(ring)'
    BY <1>1, <1>3, <1>5, <1>8, <1>9, RingFacts, SlotRange DEF PhasesTell
  <2>2. ASSUME NEW ring \in Ring, NEW t \in Slots
        PROVE  /\ \E n \in Nat : barrier'[ring][t] = IF InFlight(ring, t)' THEN Busy(n) ELSE Idle(n)
               /\ \E n \in Nat : barrier'[DoneOf(ring)][t] = Idle(n)
    BY <1>1, <1>7, <1>9, RingFacts DEF PhasesTell
  <2> QED
    BY <2>1, <2>2 DEF PhasesTell
<1>13. InStep' /\ WaitsTell'
  <2>1. "input" \in Ring /\ "weight" \in Ring /\ "residual" \in Ring
    BY DEF Ring
  <2>2. \A th \in Thread : tile[th] \in Nat /\ atom[th] \in Nat
    BY <1>1 DEF HopperTypeOK
  <2>3. InStep'
    BY <1>1, <1>2 DEF InStep
  <2>4. WaitsTell'
    BY <1>1, <1>2, <1>5, <2>1, <2>2 DEF WaitsTell
  <2> QED
    BY <2>3, <2>4
<1>14. SlotsHold'
  BY <1>1, <1>2, <1>5, StagesNat DEF SlotsHold
<1> QED
  BY <1>10, <1>11, <1>12, <1>13, <1>14 DEF HopperInv

LEMMA ProduceInv == HopperInv /\ Produce => HopperInv'
<1> SUFFICES ASSUME HopperInv, Produce PROVE HopperInv'
  OBVIOUS
<1>1. loaded \in Nat /\ residuals \in Nat
  BY DEF HopperInv, HopperTypeOK
<1>2. CASE LoadResidual
  <2>1. Requested("residual") = residuals /\ DoneOf("residual") = "residual_done" /\ "residual" \in Ring
    BY DEF Requested, DoneOf, Ring
  <2>2. residuals < Freed("residual") + Kstages
    BY <1>2, <2>1, ProducerPasses DEF LoadResidual
  <2>3. \A ring \in Ring : Requested(ring)' = IF ring \in {"residual"} THEN residuals + 1 ELSE Requested(ring)
    BY <1>2 DEF LoadResidual, Requested
  <2> QED
    BY <1>1, <1>2, <2>1, <2>2, <2>3, RequestInv DEF LoadResidual
<1>3. CASE LoadTile
  <2>1. \A ring \in {"input", "weight"} :
          Requested(ring) = loaded /\ DoneOf(ring) = "compute_done" /\ ring \in Ring
    BY DEF Requested, DoneOf, Ring
  <2>2. \A ring \in {"input", "weight"} : loaded < Freed(ring) + Kstages
    BY <1>3, <2>1, ProducerPasses DEF LoadTile, ProducerParity
  <2>3. \A ring \in Ring : Requested(ring)' = IF ring \in {"input", "weight"} THEN loaded + 1 ELSE Requested(ring)
    BY <1>3 DEF LoadTile, Requested, Ring
  <2> QED
    BY <1>1, <1>3, <2>1, <2>2, <2>3, RequestInv DEF LoadTile
<1> QED
  BY <1>2, <1>3 DEF Produce

\* A barrier that is not beyond the round of tile j, but beyond that of the tile
\* before it in the slot, is in that round; its next phase is beyond j too.
LEMMA NextPhase ==
    ASSUME NEW n \in Nat, NEW j \in Nat, n <= Round(j),
           j >= Kstages => n > Round(j - Kstages)
    PROVE  /\ n = Round(j)
           /\ \A i \in Nat : Slot(i) = Slot(j) => /\ n > Round(i) <=> i < j
                                                  /\ n + 1 > Round(i) <=> i < j + 1
<1>1. Round(j) \in Nat /\ Kstages \in Nat
  BY SlotRange, StagesNat
<1>2. n = Round(j)
  <2>1. CASE j < Kstages
    BY <1>1, <2>1, FirstRound
  <2>2. CASE j >= Kstages
    <3> DEFINE h == j - Kstages
    <3>1. h \in Nat /\ h + Kstages = j
      BY <1>1, <2>2
    <3> HIDE DEF h
    <3>2. Round(h + Kstages) = Round(h) + 1 /\ Round(h) \in Nat
      BY <3>1, NextRound, SlotRange
    <3>3. n > Round(h)
      BY <2>2 DEF h
    <3> QED
      BY <1>1, <3>1, <3>2, <3>3
  <2> QED
    BY <1>1, <2>1, <2>2
<1>3. ASSUME NEW i \in Nat, Slot(i) = Slot(j)
      PROVE  /\ n > Round(i) <=> i < j
             /\ n + 1 > Round(i) <=> i < j + 1
  <2>1. Round(i) \in Nat
    BY SlotRange
  <2>2. i < j => Round(i) < Round(j)
    BY <1>3, RoundOrder
  <2>3. j < i => Round(j) < Round(i)
    BY <1>3, RoundOrder
  <2>4. i = j => Round(i) = Round(j)
    OBVIOUS
  <2> QED
    BY <1>1, <1>2, <2>1, <2>2, <2>3, <2>4
<1> QED
  BY <1>2, <1>3

\* A slot of an array of barriers is set to a barrier.
LEMMA SetBarrier ==
    ASSUME HopperTypeOK, NEW b \in Barrier, NEW t \in Slots, NEW n \in Nat,
           barrier' = [barrier EXCEPT ![b][t] = Idle(n)]
    PROVE  /\ barrier' \in [Barrier -> [Slots -> {Idle(m) : m \in Nat} \cup {Busy(m) : m \in Nat}]]
           /\ barrier'[b][t] = Idle(n)
           /\ \A c \in Barrier, u \in Slots : c # b \/ u # t => barrier'[c][u] = barrier[c][u]
<1> DEFINE Values == {Idle(m) : m \in Nat} \cup {Busy(m) : m \in Nat}
<1>1. barrier \in [Barrier -> [Slots -> Values]] /\ Idle(n) \in Values
  BY DEF HopperTypeOK
<1> HIDE DEF Values
<1> QED
  BY <1>1 DEF Values

\* A copy that lands ends the phase of its slot, and the tile is there.
LEMMA LandInv == ASSUME HopperInv, NEW load \in loads, Land(load) PROVE HopperInv'
<1> DEFINE r == load[1]
           j == load[2]
           t == Slot(j)
<1>1. HopperTypeOK /\ NoneAhead /\ PhasesTell /\ InStep /\ WaitsTell /\ SlotsHold
  BY DEF HopperInv
<1>2. load = << r, j >> /\ r \in Ring /\ j \in Nat /\ t \in Slots /\ r \in Barrier
  BY <1>1, SlotRange, RingFacts DEF HopperTypeOK
<1>3. /\ loads' = loads \ {<< r, j >>} /\ loaded' = loaded /\ residuals' = residuals
      /\ smem' = [smem EXCEPT ![r][t] = j]
      /\ barrier' = [barrier EXCEPT ![r][t] = CompleteTx(@)]
      /\ pc' = pc /\ atom' = atom /\ tile' = tile /\ computed' = computed
  BY <1>2 DEF Land, consumerVars
<1>4. << r, j >> \in loads
  BY <1>2
<1> HIDE DEF r, j
<1>5. \A ring \in Ring : /\ Freed(ring)' = Freed(ring) /\ Freed(ring) \in Nat
                         /\ Requested(ring)' = Requested(ring) /\ Requested(ring) \in Nat
  BY <1>1, <1>3, TypeFacts DEF Freed, Requested
<1>6. j < Requested(r) /\ Requested(r) <= Freed(r) + Kstages /\ ~Landed(r, j)
  BY <1>1, <1>2, <1>4 DEF NoneAhead, Landed
<1>7. \A ring \in Ring, i \in Nat : Landed(ring, i)' <=> Landed(ring, i) \/ (ring = r /\ i = j)
  <2>1. SUFFICES ASSUME NEW ring \in Ring, NEW i \in Nat
                 PROVE  /\ i < Requested(ring) /\ << ring, i >> \notin loads'
                            <=> \/ i < Requested(ring) /\ << ring, i >> \notin loads
                                \/ ring = r /\ i = j
    BY <1>5 DEF Landed
  <2>2. << ring, i >> \in loads' <=> << ring, i >> \in loads /\ ~(ring = r /\ i = j)
    BY <1>3
  <2> QED
    BY <1>6, <2>2
<1>8. PICK n \in Nat : barrier[r][t] = Busy(n)
  <2>1. InFlight(r, t)
    BY <1>2, <1>4 DEF InFlight
  <2> QED
    BY <1>1, <1>2, <2>1 DEF PhasesTell
<1>9. \A i \in Nat : Slot(i) = t => (n > Round(i) <=> Landed(r, i))
  BY <1>1, <1>2, <1>8, BarrierFacts DEF PhasesTell
<1>10. /\ n = Round(j)
       /\ \A i \in Nat : Slot(i) = t => /\ n > Round(i) <=> i < j
                                        /\ n + 1 > Round(i) <=> i < j + 1
  <2>1. n <= Round(j)
    <3>1. Round(j) \in Nat
      BY <1>2, SlotRange
    <3>2. ~(n > Round(j))
      BY <1>2, <1>6, <1>9
    <3> QED
      BY <3>1, <3>2
  <2>2. ASSUME j >= Kstages PROVE n > Round(j - Kstages)
    <3>1. PICK h \in Nat : h = j - Kstages
      BY <1>2, <2>2, StagesNat
    <3>2. h + Kstages = j
      BY <1>2, <3>1, StagesNat
    <3>3. Slot(h) = t /\ h < Freed(r)
      BY <1>2, <1>5, <1>6, <3>2, NextRound, StagesNat
    <3>4. Landed(r, h)
      BY <1>1, <1>2, <3>3, LandedFacts
    <3> QED
      BY <1>9, <3>1, <3>3, <3>4
  <2> QED
    BY <1>2, <2>1, <2>2, NextPhase
<1>11. barrier' = [barrier EXCEPT ![r][t] = Idle(n + 1)]
  BY <1>3, <1>8, BarrierFacts
<1>12. /\ barrier' \in [Barrier -> [Slots -> {Idle(m) : m \in Nat} \cup {Busy(m) : m \in Nat}]]
       /\ barrier'[r][t] = Idle(n + 1)
       /\ \A c \in Barrier, u \in Slots : c # r \/ u # t => barrier'[c][u] = barrier[c][u]
  <2>1. n + 1 \in Nat
    OBVIOUS
  <2> QED
    BY <1>1, <1>2, <1>11, <2>1, SetBarrier
<1>13. \A ring \in Ring, u \in Slots :
         InFlight(ring, u)' <=> InFlight(ring, u) /\ ~(ring = r /\ u = t)
  <2>1. \A l \in loads : l = << l[1], l[2] >> /\ l[1] \in Ring /\ l[2] \in Nat
    BY <1>1 DEF HopperTypeOK
  <2>2. ASSUME NEW l \in loads, l # << r, j >>, l[1] = r, Slot(l[2]) = t PROVE FALSE
    <3>1. << r, l[2] >> \in loads /\ l[2] \in Nat /\ l[2] # j
      BY <2>1, <2>2
    <3>2. l[2] < Requested(r)
      BY <1>1, <1>2, <3>1 DEF NoneAhead
    <3>3. l[2] <= j
      BY <1>1, <1>2, <1>4, <2>2, <3>1, <3>2, LandedFacts
    <3>4. j <= l[2]
      BY <1>1, <1>2, <1>6, <2>2, <3>1, LandedFacts
    <3> QED
      BY <1>2, <3>1, <3>3, <3>4
  <2>3. \A l : l \in loads' <=> l \in loads /\ l # << r, j >>
    BY <1>3
  <2>4. << r, j >>[1] = r /\ Slot(<< r, j >>[2]) = t
    OBVIOUS
  <2> HIDE DEF t
  <2> QED
    BY <2>2, <2>3, <2>4 DEF InFlight
<1>14. HopperTypeOK'
  <2>1. loads' \subseteq Ring \X Nat
    BY <1>1, <1>3 DEF HopperTypeOK
  <2>2. smem' \in [Ring -> [Slots -> Int]]
    BY <1>1, <1>2, <1>3 DEF HopperTypeOK
  <2> QED
    BY <1>1, <1>3, <1>12, <2>1, <2>2 DEF HopperTypeOK
<1>15. NoneAhead'
  BY <1>1, <1>3, <1>5 DEF NoneAhead
<1>16. PhasesTell'
  <2>1. ASSUME NEW ring \in Ring, NEW i \in Nat
        PROVE  barrier'[ring][Slot(i)].phase > Round(i) <=> Landed(ring, i)'
    <3>1. CASE ring = r /\ Slot(i) = t
      <4>1. barrier'[ring][Slot(i)].phase = n + 1
        BY <1>12, <3>1, BarrierFacts
      <4>2. Landed(r, i) <=> i < j
        BY <1>9, <1>10, <3>1
      <4>3. i < j \/ i = j <=> i < j + 1
        BY <1>2
      <4> HIDE DEF t
      <4> QED
        BY <1>7, <1>10, <3>1, <4>1, <4>2, <4>3
    <3>2. CASE ~(ring = r /\ Slot(i) = t)
      <4>1. barrier'[ring][Slot(i)] = barrier[ring][Slot(i)]
        BY <1>12, <3>2, SlotRange, RingFacts
      <4> QED
        BY <1>1, <1>7, <3>2, <4>1 DEF PhasesTell
    <3> QED
      BY <3>1, <3>2
  <2>2. \A ring \in Ring, u \in Slots : barrier'[DoneOf(ring)][u] = barrier[DoneOf(ring)][u]
    BY <1>2, <1>12, RingFacts
  <2>3. ASSUME NEW ring \in Ring, NEW i \in Nat
        PROVE  barrier'[DoneOf(ring)][Slot(i)].phase > Round(i) <=> i < Freed(ring)'
    BY <1>1, <1>5, <2>2, SlotRange DEF PhasesTell
  <2>4. ASSUME NEW ring \in Ring, NEW u \in Slots
        PROVE  \E m \in Nat : barrier'[ring][u] = IF InFlight(ring, u)' THEN Busy(m) ELSE Idle(m)
    <3>1. CASE ring = r /\ u = t
      <4>1. ~InFlight(ring, u)'
        BY <1>2, <1>13, <3>1
      <4> QED
        BY <1>12, <3>1, <4>1
    <3>2. CASE ~(ring = r /\ u = t)
      <4>1. barrier'[ring][u] = barrier[ring][u] /\ (InFlight(ring, u)' <=> InFlight(ring, u))
        BY <1>12, <1>13, <3>2, RingFacts
      <4> QED
        BY <1>1, <4>1 DEF PhasesTell
    <3> QED
      BY <3>1, <3>2
  <2> QED
    BY <1>1, <2>1, <2>2, <2>3, <2>4 DEF PhasesTell
<1>17. InStep'
  BY <1>1, <1>3 DEF InStep
<1>18. WaitsTell'
  <2>1. "input" \in Ring /\ "weight" \in Ring /\ "residual" \in Ring
    BY DEF Ring
  <2>2. \A th \in Thread : tile[th] \in Nat /\ atom[th] \in Nat
    BY <1>1 DEF HopperTypeOK
  <2> QED
    BY <1>1, <1>3, <1>7, <2>1, <2>2 DEF WaitsTell
<1>19. SlotsHold'
  <2>1. SUFFICES ASSUME NEW ring \in Ring, NEW i \in Nat,
                        Landed(ring, i)', ~Landed(ring, i + Kstages)'
                 PROVE  smem'[ring][Slot(i)] = i
    BY DEF SlotsHold
  <2>2. i + Kstages \in Nat /\ Slot(i + Kstages) = Slot(i) /\ Slot(i) \in Slots
    BY NextRound, SlotRange, StagesNat
  <2>3. smem' \in [Ring -> [Slots -> Int]] /\ smem \in [Ring -> [Slots -> Int]]
    BY <1>1, <1>14 DEF HopperTypeOK
  <2>4. ~Landed(ring, i + Kstages) /\ ~(ring = r /\ i + Kstages = j)
    BY <1>7, <2>1, <2>2
  <2>5. CASE ring = r /\ i = j
    BY <1>2, <1>3, <2>3, <2>5
  <2>6. CASE ~(ring = r /\ i = j)
    <3>1. Landed(ring, i)
      BY <1>7, <2>1, <2>6
    <3>2. smem[ring][Slot(i)] = i
      BY <1>1, <2>4, <3>1 DEF SlotsHold
    <3>3. ASSUME ring = r, Slot(i) = t PROVE FALSE
      <4>1. i < j
        BY <1>9, <1>10, <3>1, <3>3
      <4>2. i + Kstages <= j
        BY <1>2, <3>3, <4>1, RoundOrder
      <4>3. i + Kstages < j
        BY <1>2, <2>2, <2>4, <3>3, <4>2
      <4>4. Landed(r, i + Kstages)
        BY <1>9, <1>10, <2>2, <3>3, <4>3
      <4> QED
        BY <2>4, <3>3, <4>4
    <3>4. smem'[ring][Slot(i)] = smem[ring][Slot(i)]
      BY <1>2, <1>3, <2>2, <2>3, <3>3
    <3> QED
      BY <3>2, <3>4
  <2> QED
    BY <2>5, <2>6
<1> QED
  BY <1>14, <1>15, <1>16, <1>17, <1>18, <1>19 DEF HopperInv

-----------------------------------------------------------------------------
(* The consumers: what they do to a barrier is to release a slot.          *)

LEMMA LandedSame ==
    ASSUME UNCHANGED producerVars
    PROVE  /\ \A ring, j : Landed(ring, j)' <=> Landed(ring, j)
           /\ \A ring : Requested(ring)' = Requested(ring)
           /\ \A ring, t : InFlight(ring, t)' <=> InFlight(ring, t)
<1>1. loaded' = loaded /\ residuals' = residuals /\ loads' = loads
  BY DEF producerVars
<1> QED
  BY <1>1 DEF Landed, Requested, InFlight

\* What the producer and its copies keep up is kept up without a release.
LEMMA NoRelease ==
    ASSUME HopperInv, UNCHANGED << producerVars, barrier >>,
           tile'[Leader] = tile[Leader], atom'[Leader] = atom[Leader]
    PROVE  NoneAhead' /\ PhasesTell' /\ SlotsHold'
<1>1. /\ NoneAhead /\ PhasesTell /\ SlotsHold
      /\ loads' = loads /\ smem' = smem /\ barrier' = barrier
  BY DEF HopperInv, producerVars
<1>2. /\ \A ring, j : Landed(ring, j)' <=> Landed(ring, j)
      /\ \A ring : Requested(ring)' = Requested(ring)
      /\ \A ring, t : InFlight(ring, t)' <=> InFlight(ring, t)
  BY LandedSame
<1>3. \A ring : Freed(ring)' = Freed(ring)
  BY DEF Freed
<1>4. NoneAhead'
  BY <1>1, <1>2, <1>3 DEF NoneAhead
<1>5. PhasesTell'
  BY <1>1, <1>2, <1>3 DEF PhasesTell
<1>6. SlotsHold'
  BY <1>1, <1>2 DEF SlotsHold
<1> QED
  BY <1>4, <1>5, <1>6

\* A release ends the phase of the slot at the barrier of the consumers.
LEMMA ReleaseKeeps ==
    ASSUME HopperInv, NEW r \in Ring, UNCHANGED producerVars,
           barrier' = [barrier EXCEPT ![DoneOf(r)][Slot(Freed(r))] = Arrive(@)],
           \A ring \in Ring :
             Freed(ring)' = IF DoneOf(ring) = DoneOf(r) THEN Freed(r) + 1 ELSE Freed(ring)
    PROVE  /\ barrier' \in [Barrier -> [Slots -> {Idle(m) : m \in Nat} \cup {Busy(m) : m \in Nat}]]
           /\ NoneAhead' /\ PhasesTell' /\ SlotsHold'
<1> DEFINE j == Freed(r)
           t == Slot(j)
           d == DoneOf(r)
<1>1. /\ HopperTypeOK /\ NoneAhead /\ PhasesTell /\ InStep /\ WaitsTell /\ SlotsHold
      /\ loads' = loads /\ smem' = smem
  BY DEF HopperInv, producerVars
<1>2. /\ \A ring, i : Landed(ring, i)' <=> Landed(ring, i)
      /\ \A ring : Requested(ring)' = Requested(ring)
      /\ \A ring, u : InFlight(ring, u)' <=> InFlight(ring, u)
  BY LandedSame
<1>3. \A ring \in Ring : Requested(ring) \in Nat /\ Freed(ring) \in Nat
  BY <1>1, TypeFacts
<1>4. j \in Nat /\ t \in Slots /\ d \in Barrier /\ d \notin Ring
  BY <1>3, SlotRange, RingFacts
<1>5. \A ring \in Ring : DoneOf(ring) = d => Freed(ring) = j
  BY RingFacts DEF Freed
<1>6. \A ring \in Ring : Freed(ring)' = IF DoneOf(ring) = d THEN j + 1 ELSE Freed(ring)
  OBVIOUS
<1>7. PICK n \in Nat : barrier[d][t] = Idle(n)
  BY <1>1, <1>4 DEF PhasesTell
<1>8. \A i \in Nat : Slot(i) = t => (n > Round(i) <=> i < j)
  BY <1>1, <1>7, BarrierFacts DEF PhasesTell
<1>9. barrier' = [barrier EXCEPT ![d][t] = Idle(n + 1)]
  BY <1>7, BarrierFacts
<1> HIDE DEF j, d
<1>10. /\ n = Round(j)
       /\ \A i \in Nat : Slot(i) = t => (n + 1 > Round(i) <=> i < j + 1)
  <2>1. n <= Round(j)
    <3>1. Round(j) \in Nat
      BY <1>4, SlotRange
    <3>2. ~(n > Round(j))
      BY <1>4, <1>8
    <3> QED
      BY <3>1, <3>2
  <2>2. ASSUME j >= Kstages PROVE n > Round(j - Kstages)
    <3>1. PICK h \in Nat : h = j - Kstages
      BY <1>4, <2>2, StagesNat
    <3>2. h + Kstages = j
      BY <1>4, <3>1, StagesNat
    <3>3. Slot(h) = t /\ h < j
      BY <1>4, <3>2, NextRound, StagesNat
    <3> QED
      BY <1>8, <3>1, <3>3
  <2> QED
    BY <1>4, <2>1, <2>2, NextPhase
<1>11. /\ barrier' \in [Barrier -> [Slots -> {Idle(m) : m \in Nat} \cup {Busy(m) : m \in Nat}]]
       /\ barrier'[d][t] = Idle(n + 1)
       /\ \A c \in Barrier, u \in Slots : c # d \/ u # t => barrier'[c][u] = barrier[c][u]
  <2>1. n + 1 \in Nat
    OBVIOUS
  <2> QED
    BY ONLY <1>1, <1>4, <1>9, <2>1, SetBarrier
<1>12. NoneAhead'
  <2>1. ASSUME NEW ring \in Ring PROVE Requested(ring)' <= Freed(ring)' + Kstages
    <3>1. Requested(ring) <= Freed(ring) + Kstages
      BY <1>1 DEF NoneAhead
    <3>2. Freed(ring)' = Freed(ring) \/ Freed(ring)' = Freed(ring) + 1
      BY <1>5, <1>6
    <3>3. Requested(ring) \in Nat /\ Freed(ring) \in Nat /\ Requested(ring)' = Requested(ring)
      BY <1>2, <1>3
    <3> QED
      BY <3>1, <3>2, <3>3, StagesNat
  <2> QED
    BY <1>1, <1>2, <2>1 DEF NoneAhead
<1>13. PhasesTell'
  <2>1. \A ring \in Ring, u \in Slots : barrier'[ring][u] = barrier[ring][u]
    BY <1>4, <1>11, RingFacts
  <2>2. ASSUME NEW ring \in Ring, NEW i \in Nat
        PROVE  barrier'[ring][Slot(i)].phase > Round(i) <=> Landed(ring, i)'
    <3>1. barrier'[ring][Slot(i)] = barrier[ring][Slot(i)]
      BY <2>1, SlotRange
    <3>2. barrier[ring][Slot(i)].phase > Round(i) <=> Landed(ring, i)
      BY <1>1 DEF PhasesTell
    <3> QED
      BY <1>2, <3>1, <3>2
  <2>3. ASSUME NEW ring \in Ring, NEW i \in Nat
        PROVE  barrier'[DoneOf(ring)][Slot(i)].phase > Round(i) <=> i < Freed(ring)'
    <3>1. barrier[DoneOf(ring)][Slot(i)].phase > Round(i) <=> i < Freed(ring)
      BY <1>1 DEF PhasesTell
    <3>2. CASE DoneOf(ring) # d
      BY <1>6, <1>11, <3>1, <3>2, SlotRange, RingFacts
    <3>3. CASE DoneOf(ring) = d /\ Slot(i) = t
      <4>1. barrier'[DoneOf(ring)][Slot(i)].phase = n + 1
        BY <1>11, <3>3, BarrierFacts
      <4> HIDE DEF t
      <4> QED
        BY <1>6, <1>10, <3>3, <4>1
    <3>4. CASE DoneOf(ring) = d /\ Slot(i) # t
      <4>1. barrier'[DoneOf(ring)][Slot(i)] = barrier[DoneOf(ring)][Slot(i)]
        BY <1>11, <3>4, SlotRange, RingFacts
      <4>2. i < j <=> i < j + 1
        <5>1. i # j
          BY <3>4
        <5> QED
          BY <1>4, <5>1
      <4> HIDE DEF t
      <4> QED
        BY <1>5, <1>6, <3>1, <3>4, <4>1, <4>2
    <3> QED
      BY <3>2, <3>3, <3>4
  <2>4. ASSUME NEW ring \in Ring, NEW u \in Slots
        PROVE  \E m \in Nat : barrier'[ring][u] = IF InFlight(ring, u)' THEN Busy(m) ELSE Idle(m)
    BY <1>1, <1>2, <2>1 DEF PhasesTell
  <2>5. ASSUME NEW ring \in Ring, NEW u \in Slots
        PROVE  \E m \in Nat : barrier'[DoneOf(ring)][u] = Idle(m)
    <3>1. CASE DoneOf(ring) = d /\ u = t
      <4>1. n + 1 \in Nat
        OBVIOUS
      <4> QED
        BY <1>11, <3>1, <4>1
    <3>2. CASE ~(DoneOf(ring) = d /\ u = t)
      <4>1. barrier'[DoneOf(ring)][u] = barrier[DoneOf(ring)][u]
        BY <1>11, <3>2, RingFacts
      <4> QED
        BY <1>1, <4>1 DEF PhasesTell
    <3> QED
      BY <3>1, <3>2
  <2> QED
    BY <2>2, <2>3, <2>4, <2>5 DEF PhasesTell
<1>14. SlotsHold'
  BY <1>1, <1>2 DEF SlotsHold
<1> QED
  BY <1>11, <1>12, <1>13, <1>14

\* A wait for a copy passes only if the tile has landed: the parity cannot be
\* that of the round before, which the thread has seen land, nor of the next.
LEMMA WaitPasses ==
    ASSUME HopperInv, NEW ring \in Ring, NEW j \in Nat, Freed(ring) <= j,
           \A i \in Nat : i < j => Landed(ring, i),
           Passes(ring, Slot(j), Round(j) % 2)
    PROVE  Landed(ring, j)
<1> DEFINE n == barrier[ring][Slot(j)].phase
<1>1. HopperTypeOK /\ NoneAhead /\ PhasesTell /\ InStep /\ WaitsTell
  BY DEF HopperInv
<1>2. Round(j) \in Nat /\ Slot(j) \in Slots /\ j + Kstages \in Nat
  BY SlotRange, StagesNat
<1>3. n \in Nat
  <2>1. PICK m \in Nat : barrier[ring][Slot(j)] = IF InFlight(ring, Slot(j)) THEN Busy(m) ELSE Idle(m)
    BY <1>1, <1>2 DEF PhasesTell
  <2> QED
    BY <2>1, BarrierFacts
<1>4. \A i \in Nat : Slot(i) = Slot(j) => (n > Round(i) <=> Landed(ring, i))
  BY <1>1 DEF PhasesTell
<1>5. n % 2 # Round(j) % 2
  BY DEF Passes
<1> HIDE DEF n
<1>6. SUFFICES ASSUME ~Landed(ring, j) PROVE FALSE
  OBVIOUS
<1>7. n <= Round(j)
  BY <1>2, <1>3, <1>4, <1>6
<1>8. ASSUME j >= Kstages PROVE n > Round(j - Kstages)
  <2>1. PICK h \in Nat : h = j - Kstages
    BY <1>8, StagesNat
  <2>2. h + Kstages = j
    BY <2>1, StagesNat
  <2>3. Slot(h) = Slot(j) /\ h < j
    BY <2>2, NextRound, StagesNat
  <2> QED
    BY <1>4, <2>1, <2>3
<1>9. n = Round(j)
  BY <1>3, <1>7, <1>8, NextPhase
<1> QED
  BY <1>5, <1>9

LEMMA WaitTileInv == ASSUME HopperInv, NEW th \in Thread, WaitTile(th) PROVE HopperInv'
<1>1. HopperTypeOK /\ InStep /\ WaitsTell
  BY DEF HopperInv
<1>2. /\ UNCHANGED << producerVars, barrier, atom, tile, computed >>
      /\ loaded' = loaded /\ residuals' = residuals /\ loads' = loads /\ smem' = smem
  BY DEF WaitTile, producerVars
<1>3. \A ring, j : Landed(ring, j)' <=> Landed(ring, j)
  BY <1>2, LandedSame
<1>4. \/ pc[th] = "input" /\ pc' = [pc EXCEPT ![th] = "weight"] /\ Landed("input", tile[th])
      \/ pc[th] = "weight" /\ pc' = [pc EXCEPT ![th] = "multiply"] /\ Landed("weight", tile[th])
  <2>1. pc[th] # "multiply" => tile[Leader] <= tile[th] /\ tile[th] = computed
    <3>1. /\ tile[th] <= computed /\ computed <= tile[th] + 1 /\ tile[Leader] <= computed
          /\ computed = tile[th] + 1 => pc[th] = "multiply"
      BY <1>1, RingFacts DEF InStep
    <3>2. computed \in Nat /\ tile[th] \in Nat /\ tile[Leader] \in Nat
      BY <1>1, RingFacts DEF HopperTypeOK
    <3> QED
      BY <3>1, <3>2
  <2>2. ASSUME NEW ring \in {"input", "weight"}, pc[th] = ring,
               Passes(ring, Slot(tile[th]), Round(tile[th]) % 2)
        PROVE  Landed(ring, tile[th])
    <3>1. tile[th] \in Nat /\ ring \in Ring /\ ring # "residual"
      BY <1>1 DEF HopperTypeOK, Ring
    <3>2. Freed(ring) <= tile[th]
      BY <2>1, <2>2, <3>1 DEF Freed
    <3>3. \A i \in Nat : i < tile[th] => Landed(ring, i)
      BY <1>1, <2>1, <2>2 DEF WaitsTell
    <3> QED
      BY <2>2, <3>1, <3>2, <3>3, WaitPasses
  <2> QED
    BY <2>2 DEF WaitTile, Goto
<1>5. HopperTypeOK'
  BY <1>1, <1>2, <1>4 DEF HopperTypeOK, Label
<1>6. NoneAhead' /\ PhasesTell' /\ SlotsHold'
  BY <1>2, NoRelease
<1>7. \A u \in Thread : pc'[u] = IF u = th THEN pc'[th] ELSE pc[u]
  BY <1>1, <1>4 DEF HopperTypeOK
<1>8. \/ pc[th] = "input" /\ pc'[th] = "weight" /\ Landed("input", tile[th])
      \/ pc[th] = "weight" /\ pc'[th] = "multiply" /\ Landed("weight", tile[th])
  BY <1>1, <1>4 DEF HopperTypeOK
<1>9. InStep'
  BY <1>1, <1>2, <1>7, <1>8, RingFacts DEF InStep, HopperTypeOK
<1>10. WaitsTell'
  BY <1>1, <1>2, <1>3, <1>7, <1>8 DEF WaitsTell
<1> QED
  BY <1>5, <1>6, <1>9, <1>10 DEF HopperInv

LEMMA MultiplyInv == HopperInv /\ Multiply => HopperInv'
<1> SUFFICES ASSUME HopperInv, Multiply PROVE HopperInv'
  OBVIOUS
<1>1. HopperTypeOK /\ InStep /\ WaitsTell
  BY DEF HopperInv
<1>2. /\ UNCHANGED << producerVars, barrier, atom, tile, pc >> /\ computed' = computed + 1
      /\ loaded' = loaded /\ residuals' = residuals /\ loads' = loads /\ smem' = smem
  BY DEF Multiply, producerVars
<1>3. \A ring, j : Landed(ring, j)' <=> Landed(ring, j)
  BY <1>2, LandedSame
<1>4. \A th \in Thread : pc[th] = "multiply" /\ tile[th] = computed
  BY DEF Multiply
<1>5. HopperTypeOK'
  BY <1>1, <1>2 DEF HopperTypeOK
<1>6. NoneAhead' /\ PhasesTell' /\ SlotsHold'
  BY <1>2, NoRelease
<1>7. InStep'
  BY <1>1, <1>2, <1>4, RingFacts DEF InStep, HopperTypeOK
<1>8. WaitsTell'
  <2>1. Landed("input", computed) /\ Landed("weight", computed)
    BY <1>1, <1>4, RingFacts DEF WaitsTell
  <2>2. \A j \in Nat : j < computed' => j < computed \/ j = computed
    BY <1>1, <1>2 DEF HopperTypeOK
  <2>3. \A j \in Nat : j < computed' => Landed("input", j)' /\ Landed("weight", j)'
    BY <1>1, <1>3, <2>1, <2>2 DEF WaitsTell
  <2> QED
    BY <1>1, <1>2, <1>3, <2>3 DEF WaitsTell
<1> QED
  BY <1>5, <1>6, <1>7, <1>8 DEF HopperInv

LEMMA ReleaseInv == ASSUME HopperInv, NEW th \in Thread, Release(th) PROVE HopperInv'
<1>1. HopperTypeOK /\ InStep /\ WaitsTell
  BY DEF HopperInv
<1>2. /\ UNCHANGED << producerVars, atom, computed >> /\ tile' = [tile EXCEPT ![th] = @ + 1]
      /\ loaded' = loaded /\ residuals' = residuals /\ loads' = loads /\ smem' = smem
  BY DEF Release, producerVars
<1>3. \A ring, j : Landed(ring, j)' <=> Landed(ring, j)
  BY <1>2, LandedSame
<1>4. pc[th] = "multiply" /\ computed = tile[th] + 1
  BY <1>1 DEF Release, ProductDone, HopperTypeOK, InStep
<1>5. /\ \A u \in Thread : pc'[u] = IF u = th THEN pc'[th] ELSE pc[u]
      /\ pc'[th] \in {"residual", "input"} /\ pc' \in [Thread -> Label]
  BY <1>1 DEF Release, Goto, HopperTypeOK, Label
<1>6. \A u \in Thread : tile'[u] = IF u = th THEN computed ELSE tile[u]
  BY <1>1, <1>2, <1>4 DEF HopperTypeOK
<1>7. /\ barrier' \in [Barrier -> [Slots -> {Idle(m) : m \in Nat} \cup {Busy(m) : m \in Nat}]]
      /\ NoneAhead' /\ PhasesTell' /\ SlotsHold'
  <2>1. CASE th = Leader
    <3>1. /\ "input" \in Ring /\ DoneOf("input") = "compute_done"
          /\ Freed("input") = tile[th] /\ atom'[Leader] = atom[Leader]
          /\ tile'[Leader] = tile[th] + 1
      BY <1>2, <1>4, <1>6, <2>1 DEF Ring, DoneOf, Freed
    <3>2. barrier' = [barrier EXCEPT ![DoneOf("input")][Slot(Freed("input"))] = Arrive(@)]
      BY <2>1, <3>1 DEF Release, Releases
    <3>3. \A ring \in Ring : Freed(ring)' = IF DoneOf(ring) = DoneOf("input")
                                            THEN Freed("input") + 1 ELSE Freed(ring)
      BY <3>1 DEF Freed, DoneOf
    <3> QED
      BY <1>2, <3>1, <3>2, <3>3, ReleaseKeeps
  <2>2. CASE th # Leader
    <3>1. barrier' = barrier
      BY <2>2 DEF Release, Releases
    <3>2. tile'[Leader] = tile[Leader] /\ atom'[Leader] = atom[Leader]
      BY <1>2, <1>6, <2>2, RingFacts
    <3> QED
      BY <1>1, <1>2, <3>1, <3>2, NoRelease DEF HopperTypeOK
  <2> QED
    BY <2>1, <2>2
<1>8. HopperTypeOK'
  <2>1. tile' \in [Thread -> Nat]
    BY <1>1, <1>2 DEF HopperTypeOK
  <2> QED
    BY <1>1, <1>2, <1>5, <1>7, <2>1 DEF HopperTypeOK
<1>9. InStep'
  BY <1>1, <1>2, <1>4, <1>5, <1>6, RingFacts DEF InStep, HopperTypeOK
<1>10. WaitsTell'
  BY <1>1, <1>2, <1>3, <1>5, <1>6 DEF WaitsTell
<1> QED
  BY <1>7, <1>8, <1>9, <1>10 DEF HopperInv

\* Between the waits and the store a thread only moves on.
LEMMA MoveInv ==
    ASSUME HopperInv, NEW th \in Thread, NEW label \in Label, Goto(th, label),
           UNCHANGED << producerVars, barrier, atom, tile, computed >>,
           \/ pc[th] = "residual" /\ label = "output" /\ Landed("residual", atom[th])
           \/ pc[th] = "output" /\ label = "sync"
           \/ pc[th] = "drain" /\ label = "end"
    PROVE  HopperInv'
<1>1. HopperTypeOK /\ InStep /\ WaitsTell
  BY DEF HopperInv
<1>2. loaded' = loaded /\ residuals' = residuals /\ loads' = loads /\ smem' = smem
  BY DEF producerVars
<1>3. \A ring, j : Landed(ring, j)' <=> Landed(ring, j)
  BY LandedSame
<1>4. pc' = [pc EXCEPT ![th] = label]
  BY DEF Goto
<1>5. \A u \in Thread : pc'[u] = IF u = th THEN label ELSE pc[u]
  BY <1>1, <1>4 DEF HopperTypeOK
<1>6. HopperTypeOK'
  BY <1>1, <1>2, <1>4 DEF HopperTypeOK
<1>7. NoneAhead' /\ PhasesTell' /\ SlotsHold'
  BY NoRelease
<1>8. InStep'
  BY <1>1, <1>5, RingFacts DEF InStep, HopperTypeOK
<1>9. WaitsTell'
  BY <1>1, <1>3, <1>5 DEF WaitsTell
<1> QED
  BY <1>6, <1>7, <1>8, <1>9 DEF HopperInv

\* The wait for the residual.
LEMMA WaitResidualInv == ASSUME HopperInv, NEW th \in Thread, WaitResidual(th) PROVE HopperInv'
<1>1. HopperTypeOK /\ InStep /\ WaitsTell
  BY DEF HopperInv
<1>2. /\ pc[th] = "residual" /\ Goto(th, "output")
      /\ UNCHANGED << producerVars, barrier, atom, tile, computed >>
      /\ Passes("residual", Slot(atom[th]), Round(atom[th]) % 2)
  BY DEF WaitResidual
<1>3. atom[th] \in Nat /\ atom[Leader] <= atom[th]
  BY <1>1, <1>2, RingFacts DEF HopperTypeOK, InStep
<1>4. Freed("residual") <= atom[th] /\ "residual" \in Ring
  BY <1>3 DEF Freed, Ring
<1>5. \A i \in Nat : i < atom[th] => Landed("residual", i)
  BY <1>1 DEF WaitsTell
<1>6. Landed("residual", atom[th])
  BY <1>2, <1>3, <1>4, <1>5, WaitPasses
<1> QED
  BY <1>2, <1>6, MoveInv DEF Label

LEMMA NextAtom == \A n, j \in Nat : j < n + 1 <=> j < n \/ j = n
  OBVIOUS

LEMMA SyncInv == ASSUME HopperInv, NEW th \in Thread, SyncAndStore(th) PROVE HopperInv'
<1>1. HopperTypeOK /\ InStep /\ WaitsTell
  BY DEF HopperInv
<1>2. /\ UNCHANGED << producerVars, barrier, tile, computed >>
      /\ loaded' = loaded /\ residuals' = residuals /\ loads' = loads /\ smem' = smem
      /\ pc[th] = "sync"
      /\ \A u \in Thread : atom[u] > atom[th] \/ (atom[u] = atom[th] /\ pc[u] \in {"sync", "store"})
  BY DEF SyncAndStore, producerVars
<1>3. \A ring, j : Landed(ring, j)' <=> Landed(ring, j)
  BY <1>2, LandedSame
<1>4. CASE th = Leader
  <2>1. pc' = [pc EXCEPT ![th] = "store"] /\ atom' = atom
    BY <1>4 DEF SyncAndStore, Goto
  <2>2. \A u \in Thread : pc'[u] = IF u = th THEN "store" ELSE pc[u]
    BY <1>1, <2>1 DEF HopperTypeOK
  <2>3. HopperTypeOK'
    BY <1>1, <1>2, <2>1 DEF HopperTypeOK, Label
  <2>4. NoneAhead' /\ PhasesTell' /\ SlotsHold'
    BY <1>2, <2>1, NoRelease
  <2>5. InStep'
    BY <1>1, <1>2, <1>4, <2>1, <2>2, RingFacts DEF InStep, HopperTypeOK
  <2>6. WaitsTell'
    BY <1>1, <1>2, <1>3, <2>1, <2>2 DEF WaitsTell
  <2> QED
    BY <2>3, <2>4, <2>5, <2>6 DEF HopperInv
<1>5. CASE th # Leader
  <2>1. /\ atom' = [atom EXCEPT ![th] = @ + 1]
        /\ \E label \in {"drain", "input"} : pc' = [pc EXCEPT ![th] = label]
    BY <1>5 DEF SyncAndStore, Goto
  <2>2. PICK label \in {"drain", "input"} : pc' = [pc EXCEPT ![th] = label]
    BY <2>1
  <2>3. \A u \in Thread : /\ pc'[u] = IF u = th THEN label ELSE pc[u]
                          /\ atom'[u] = IF u = th THEN atom[th] + 1 ELSE atom[u]
    BY <1>1, <2>1, <2>2 DEF HopperTypeOK
  <2>4. HopperTypeOK'
    BY <1>1, <1>2, <2>1, <2>2 DEF HopperTypeOK, Label
  <2>5. NoneAhead' /\ PhasesTell' /\ SlotsHold'
    BY <1>2, <1>5, <2>3, RingFacts, NoRelease
  <2>6. InStep'
    BY <1>1, <1>2, <1>5, <2>2, <2>3, RingFacts DEF InStep, HopperTypeOK
  <2>7. WaitsTell'
    <3>1. \A i \in Nat : i < atom[th] + 1 => Landed("residual", i)
      BY <1>1, <1>2, NextAtom DEF WaitsTell, HopperTypeOK
    <3>2. /\ label \notin {"weight", "multiply", "output", "sync", "store"}
          /\ computed' = computed /\ tile' = tile
      BY <1>2
    <3> QED
      BY <1>1, <1>3, <2>3, <3>1, <3>2 DEF WaitsTell
  <2> QED
    BY <2>4, <2>5, <2>6, <2>7 DEF HopperInv
<1> QED
  BY <1>4, <1>5

LEMMA StoreInv == HopperInv /\ Store => HopperInv'
<1> SUFFICES ASSUME HopperInv, Store PROVE HopperInv'
  OBVIOUS
<1>1. HopperTypeOK /\ InStep /\ WaitsTell /\ Leader \in Thread
  BY RingFacts DEF HopperInv
<1>2. /\ UNCHANGED << producerVars, tile, computed >>
      /\ loaded' = loaded /\ residuals' = residuals /\ loads' = loads /\ smem' = smem
      /\ pc[Leader] = "store" /\ atom' = [atom EXCEPT ![Leader] = @ + 1]
      /\ \E label \in {"drain", "input"} : pc' = [pc EXCEPT ![Leader] = label]
  BY DEF Store, producerVars, Goto
<1>3. \A ring, j : Landed(ring, j)' <=> Landed(ring, j)
  BY <1>2, LandedSame
<1>4. PICK label \in {"drain", "input"} : pc' = [pc EXCEPT ![Leader] = label]
  BY <1>2
<1>5. \A u \in Thread : /\ pc'[u] = IF u = Leader THEN label ELSE pc[u]
                        /\ atom'[u] = IF u = Leader THEN atom[Leader] + 1 ELSE atom[u]
  BY <1>1, <1>2, <1>4 DEF HopperTypeOK
<1>6. /\ barrier' \in [Barrier -> [Slots -> {Idle(m) : m \in Nat} \cup {Busy(m) : m \in Nat}]]
      /\ NoneAhead' /\ PhasesTell' /\ SlotsHold'
  <2>1. /\ "residual" \in Ring /\ DoneOf("residual") = "residual_done"
        /\ Freed("residual") = atom[Leader] /\ tile'[Leader] = tile[Leader]
        /\ atom'[Leader] = atom[Leader] + 1
    BY <1>1, <1>2, <1>5 DEF Ring, DoneOf, Freed
  <2>2. barrier' = [barrier EXCEPT ![DoneOf("residual")][Slot(Freed("residual"))] = Arrive(@)]
    BY <2>1 DEF Store
  <2>3. \A ring \in Ring : Freed(ring)' = IF DoneOf(ring) = DoneOf("residual")
                                          THEN Freed("residual") + 1 ELSE Freed(ring)
    BY <2>1 DEF Freed, DoneOf
  <2> QED
    BY <1>2, <2>1, <2>2, <2>3, ReleaseKeeps
<1>7. HopperTypeOK'
  <2>1. atom' \in [Thread -> Nat] /\ pc' \in [Thread -> Label]
    BY <1>1, <1>2, <1>4 DEF HopperTypeOK, Label
  <2> QED
    BY <1>1, <1>2, <1>6, <2>1 DEF HopperTypeOK
<1>8. InStep'
  BY <1>1, <1>2, <1>4, <1>5 DEF InStep, HopperTypeOK
<1>9. WaitsTell'
  BY <1>1, <1>2, <1>3, <1>4, <1>5, NextAtom DEF WaitsTell, HopperTypeOK
<1> QED
  BY <1>6, <1>7, <1>8, <1>9 DEF HopperInv

-----------------------------------------------------------------------------
(* The invariant and what follows from it.                                 *)

LEMMA HopperStep == HopperInv /\ [Next]_vars => HopperInv'
<1> SUFFICES ASSUME HopperInv, [Next]_vars PROVE HopperInv'
  OBVIOUS
<1>1. ASSUME UNCHANGED << producerVars, barrier, pc, atom, tile, computed >> PROVE HopperInv'
  <2>1. HopperTypeOK /\ InStep /\ WaitsTell /\ \A ring, j : Landed(ring, j)' <=> Landed(ring, j)
    BY <1>1, LandedSame DEF HopperInv
  <2>2. loaded' = loaded /\ residuals' = residuals /\ loads' = loads /\ smem' = smem
    BY <1>1 DEF producerVars
  <2>3. HopperTypeOK' /\ InStep'
    BY <1>1, <2>1, <2>2 DEF HopperTypeOK, InStep
  <2>4. WaitsTell'
    BY <1>1, <2>1 DEF WaitsTell
  <2>5. NoneAhead' /\ PhasesTell' /\ SlotsHold'
    BY <1>1, NoRelease
  <2> QED
    BY <2>3, <2>4, <2>5 DEF HopperInv
<1>2. CASE Produce
  BY <1>2, ProduceInv
<1>3. CASE Multiply
  BY <1>3, MultiplyInv
<1>4. CASE Store
  BY <1>4, StoreInv
<1>5. ASSUME NEW load \in loads, Land(load) PROVE HopperInv'
  BY <1>5, LandInv
<1>6. ASSUME NEW n \in stores, Stored(n) PROVE HopperInv'
  BY <1>1, <1>6 DEF Stored
<1>7. ASSUME NEW th \in Thread, Consume(th) PROVE HopperInv'
  <2>1. CASE WaitTile(th)
    BY <2>1, WaitTileInv
  <2>2. CASE Release(th)
    BY <2>2, ReleaseInv
  <2>3. CASE WaitResidual(th)
    BY <2>3, WaitResidualInv
  <2>4. CASE WriteOutput(th)
    BY <2>4, MoveInv DEF WriteOutput, Label
  <2>5. CASE SyncAndStore(th)
    BY <2>5, SyncInv
  <2>6. CASE Drain(th)
    BY <2>6, MoveInv DEF Drain, Label
  <2> QED
    BY <1>7, <2>1, <2>2, <2>3, <2>4, <2>5, <2>6 DEF Consume
<1>8. CASE UNCHANGED vars
  BY <1>1, <1>8 DEF vars, producerVars
<1> QED
  BY <1>2, <1>3, <1>4, <1>5, <1>6, <1>7, <1>8 DEF Next, Returned

\* The barriers count the rounds of the ring together with the program: the
\* invariant holds of every execution of linear_kernel_hopper.
THEOREM HopperInvariant == Spec => []HopperInv
<1>1. Init => HopperInv
  BY HopperInit
<1>2. HopperInv /\ [Next]_vars => HopperInv'
  BY HopperStep
<1> QED
  BY <1>1, <1>2, PTL DEF Spec

\* A barrier beyond the round before that of tile j, and not beyond the next.
LEMMA PhaseWithin ==
    ASSUME NEW n \in Nat, NEW j \in Nat, n <= Round(j + Kstages),
           j >= Kstages => n > Round(j - Kstages)
    PROVE  n - Round(j) \in {0, 1}
<1>1. Round(j) \in Nat /\ Round(j + Kstages) = Round(j) + 1
  BY SlotRange, NextRound
<1>2. n >= Round(j)
  <2>1. CASE j < Kstages
    BY <1>1, <2>1, FirstRound
  <2>2. CASE j >= Kstages
    <3>1. PICK h \in Nat : h = j - Kstages
      BY <2>2, StagesNat
    <3>2. h + Kstages = j
      BY <3>1, StagesNat
    <3>3. Round(h + Kstages) = Round(h) + 1 /\ Round(h) \in Nat
      BY NextRound, SlotRange
    <3>4. n > Round(h)
      BY <2>2, <3>1
    <3> QED
      BY <1>1, <3>2, <3>3, <3>4
  <2> QED
    BY <2>1, <2>2, StagesNat
<1> QED
  BY <1>1, <1>2

\* A tile back by a round in the slot.
LEMMA RoundBefore ==
    ASSUME NEW j \in Nat, j >= Kstages
    PROVE  /\ j - Kstages \in Nat /\ Slot(j - Kstages) = Slot(j)
           /\ Round(j) = Round(j - Kstages) + 1 /\ (j - Kstages) + Kstages = j
<1>1. PICK h \in Nat : h = j - Kstages
  BY StagesNat
<1>2. h + Kstages = j
  BY <1>1, StagesNat
<1>3. Slot(h + Kstages) = Slot(h) /\ Round(h + Kstages) = Round(h) + 1
  BY NextRound
<1> QED
  BY <1>1, <1>2, <1>3

\* The producer finds the barrier in the round of its tile or the one before.
LEMMA ProducerWaits ==
    ASSUME HopperInv, NEW ring \in Ring
    PROVE  Phase(DoneOf(ring), Requested(ring)) \in {-1, 0}
<1> DEFINE j == Requested(ring)
           n == barrier[DoneOf(ring)][Slot(j)].phase
<1>1. HopperTypeOK /\ NoneAhead /\ PhasesTell /\ InStep /\ WaitsTell
  BY DEF HopperInv
<1>2. j \in Nat /\ Freed(ring) \in Nat /\ j <= Freed(ring) + Kstages /\ ~(j < Freed(ring))
  <2>1. j < Freed(ring) => Landed(ring, j)
    BY <1>1, TypeFacts, LandedFacts
  <2> QED
    BY <1>1, <2>1, TypeFacts DEF NoneAhead, Landed
<1>3. /\ n \in Nat
      /\ \A i \in Nat : Slot(i) = Slot(j) => (n > Round(i) <=> i < Freed(ring))
  <2>1. PICK m \in Nat : barrier[DoneOf(ring)][Slot(j)] = Idle(m)
    BY <1>1, <1>2, SlotRange DEF PhasesTell
  <2> QED
    BY <1>1, <2>1, BarrierFacts DEF PhasesTell
<1>4. n - Round(j) = Phase(DoneOf(ring), Requested(ring))
  BY DEF Phase
<1> HIDE DEF j, n
<1>5. Round(j) \in Nat /\ n <= Round(j)
  BY <1>2, <1>3, SlotRange
<1>6. CASE j < Kstages
  BY <1>2, <1>3, <1>4, <1>5, <1>6, FirstRound
<1>7. CASE j >= Kstages
  <2>1. PICK h \in Nat : h = j - Kstages
    BY <1>2, <1>7, StagesNat
  <2>2. Slot(h) = Slot(j) /\ Round(j) = Round(h) + 1 /\ h + Kstages = j
    BY <1>2, <1>7, <2>1, RoundBefore
  <2>3. h >= Kstages => n > Round(h - Kstages)
    <3>1. ASSUME h >= Kstages PROVE n > Round(h - Kstages)
      <4>1. PICK g \in Nat : g = h - Kstages
        BY <3>1, StagesNat
      <4>2. Slot(g) = Slot(j) /\ g + Kstages = h
        BY <2>2, <3>1, <4>1, RoundBefore
      <4>3. g < Freed(ring)
        BY <1>2, <2>2, <4>2, StagesNat
      <4> QED
        BY <1>3, <4>1, <4>2, <4>3
    <3> QED
      BY <3>1
  <2>4. n - Round(h) \in {0, 1}
    BY <1>3, <1>5, <2>2, <2>3, PhaseWithin
  <2>5. Round(h) \in Nat
    BY SlotRange
  <2> QED
    BY <1>3, <1>4, <2>2, <2>4, <2>5
<1> QED
  BY <1>2, <1>6, <1>7, StagesNat

\* A consumer finds the barrier in the round of its tile or the next.
LEMMA ConsumerWaits ==
    ASSUME HopperInv, NEW ring \in Ring, NEW j \in Nat, Freed(ring) <= j,
           \A i \in Nat : i < j => Landed(ring, i)
    PROVE  Phase(ring, j) \in {0, 1}
<1> DEFINE n == barrier[ring][Slot(j)].phase
<1>1. HopperTypeOK /\ NoneAhead /\ PhasesTell /\ InStep /\ WaitsTell
  BY DEF HopperInv
<1>2. /\ n \in Nat
      /\ \A i \in Nat : Slot(i) = Slot(j) => (n > Round(i) <=> Landed(ring, i))
  <2>1. PICK m \in Nat : barrier[ring][Slot(j)] = IF InFlight(ring, Slot(j)) THEN Busy(m) ELSE Idle(m)
    BY <1>1, SlotRange DEF PhasesTell
  <2> QED
    BY <1>1, <2>1, BarrierFacts DEF PhasesTell
<1>3. n - Round(j) = Phase(ring, j)
  BY DEF Phase
<1> HIDE DEF n
<1>4. n <= Round(j + Kstages)
  <2>1. j + Kstages \in Nat
    BY StagesNat
  <2>2. ~Landed(ring, j + Kstages)
    BY <1>1, LandedFacts
  <2> QED
    BY <1>2, <2>1, <2>2, NextRound, SlotRange
<1>5. ASSUME j >= Kstages PROVE n > Round(j - Kstages)
  <2>1. PICK h \in Nat : h = j - Kstages
    BY <1>5, StagesNat
  <2>2. Slot(h) = Slot(j) /\ h < j
    BY <1>5, <2>1, RoundBefore, StagesNat
  <2> QED
    BY <1>2, <2>1, <2>2
<1> QED
  BY <1>2, <1>3, <1>4, <1>5, PhaseWithin

\* A tile that has landed and not been released is in its slot for good.
LEMMA LandedHolds ==
    ASSUME HopperInv, NEW ring \in Ring, NEW j \in Nat, Landed(ring, j), Freed(ring) <= j
    PROVE  Holds(ring, j)
<1>1. HopperTypeOK /\ NoneAhead /\ PhasesTell /\ InStep /\ WaitsTell /\ SlotsHold
  BY DEF HopperInv
<1>2. smem[ring][Slot(j)] = j
  BY <1>1, LandedFacts DEF SlotsHold
<1>3. ASSUME NEW load \in loads, load[1] = ring, Slot(load[2]) = Slot(j) PROVE FALSE
  <2>1. PICK i \in Nat : << ring, i >> \in loads /\ Slot(i) = Slot(j)
    <3>1. load = << load[1], load[2] >> /\ load[2] \in Nat
      BY <1>1 DEF HopperTypeOK
    <3> HIDE DEF Slot
    <3> QED
      BY <1>3, <3>1
  <2>2. j < Requested(ring) /\ i # j
    BY <2>1 DEF Landed
  <2>3. j <= i
    BY <1>1, <2>1, <2>2, LandedFacts
  <2>4. j + Kstages <= i
    BY <2>1, <2>2, <2>3, RoundOrder
  <2>5. i < Requested(ring) /\ Requested(ring) <= Freed(ring) + Kstages
    BY <1>1, <2>1 DEF NoneAhead
  <2> QED
    BY <1>1, <2>4, <2>5, StagesNat, TypeFacts
<1> QED
  BY <1>2, <1>3 DEF Holds

\* The leader has released no tile, and no residual, others still wait for.
LEMMA LeaderBehind ==
    ASSUME HopperInv, NEW th \in Thread
    PROVE  /\ pc[th] # "multiply" \/ tile[th] = computed =>
                tile[th] = computed /\ Freed("input") <= tile[th] /\ Freed("weight") <= tile[th]
           /\ pc[th] \notin {"sync", "store"} => Freed("residual") <= atom[th]
<1>1. /\ tile[th] <= computed /\ computed <= tile[th] + 1 /\ tile[Leader] <= computed
      /\ computed = tile[th] + 1 => pc[th] = "multiply"
      /\ atom[Leader] <= atom[th] + 1
      /\ atom[Leader] = atom[th] + 1 => pc[th] \in {"sync", "store"}
  BY RingFacts DEF HopperInv, InStep
<1>2. /\ computed \in Nat /\ tile[th] \in Nat /\ tile[Leader] \in Nat
      /\ atom[th] \in Nat /\ atom[Leader] \in Nat
  BY RingFacts DEF HopperInv, HopperTypeOK
<1>3. /\ Freed("input") = tile[Leader] /\ Freed("weight") = tile[Leader]
      /\ Freed("residual") = atom[Leader]
  BY DEF Freed
<1> QED
  BY <1>1, <1>2, <1>3

\* One bit of the phase is enough for every wait of linear_kernel_hopper.
THEOREM HopperParity == Spec => []ParityUnambiguous
<1>1. HopperInv => ParityUnambiguous
  <2> SUFFICES ASSUME HopperInv PROVE ParityUnambiguous
    OBVIOUS
  <2>1. Phase("compute_done", loaded) \in {-1, 0} /\ Phase("residual_done", residuals) \in {-1, 0}
    <3>1. /\ Requested("input") = loaded /\ DoneOf("input") = "compute_done"
          /\ Requested("residual") = residuals /\ DoneOf("residual") = "residual_done"
          /\ "input" \in Ring /\ "residual" \in Ring
      BY DEF Requested, DoneOf, Ring
    <3>2. /\ Phase(DoneOf("input"), Requested("input")) \in {-1, 0}
          /\ Phase(DoneOf("residual"), Requested("residual")) \in {-1, 0}
      BY <3>1, ProducerWaits
    <3> QED
      BY <3>1, <3>2
  <2>2. ASSUME NEW th \in Thread, NEW ring \in {"input", "weight"}, pc[th] = ring
        PROVE  Phase(ring, tile[th]) \in {0, 1}
    <3>1. tile[th] \in Nat /\ ring \in Ring
      BY DEF HopperInv, HopperTypeOK, Ring
    <3>2. tile[th] = computed /\ Freed(ring) <= tile[th]
      BY <2>2, LeaderBehind
    <3>3. \A i \in Nat : i < tile[th] => Landed(ring, i)
      BY <3>2 DEF HopperInv, WaitsTell
    <3> QED
      BY <3>1, <3>2, <3>3, ConsumerWaits
  <2>3. ASSUME NEW th \in Thread, pc[th] = "residual"
        PROVE  Phase("residual", atom[th]) \in {0, 1}
    <3>1. atom[th] \in Nat /\ "residual" \in Ring
      BY DEF HopperInv, HopperTypeOK, Ring
    <3>2. Freed("residual") <= atom[th]
      BY <2>3, LeaderBehind
    <3>3. \A i \in Nat : i < atom[th] => Landed("residual", i)
      BY DEF HopperInv, WaitsTell
    <3> QED
      BY <3>1, <3>2, <3>3, ConsumerWaits
  <2> QED
    BY <2>1, <2>2, <2>3 DEF ParityUnambiguous
<1> QED
  BY <1>1, HopperInvariant, PTL

\* The tensor cores and the threads read tiles that have landed and that no
\* copy overwrites, however the producer runs ahead.
THEOREM HopperLoads == Spec => []LoadsIntact
<1>1. HopperInv => LoadsIntact
  <2> SUFFICES ASSUME HopperInv, NEW th \in Thread
               PROVE  /\ pc[th] = "multiply" /\ tile[th] = computed =>
                           Holds("input", tile[th]) /\ Holds("weight", tile[th])
                      /\ pc[th] = "output" => Holds("residual", atom[th])
    BY DEF LoadsIntact
  <2>1. tile[th] \in Nat /\ atom[th] \in Nat /\ {"input", "weight", "residual"} \subseteq Ring
    BY DEF HopperInv, HopperTypeOK, Ring
  <2>2. ASSUME pc[th] = "multiply", tile[th] = computed
        PROVE  Holds("input", tile[th]) /\ Holds("weight", tile[th])
    <3>1. Landed("input", tile[th]) /\ Landed("weight", tile[th])
      BY <2>2 DEF HopperInv, WaitsTell
    <3>2. Freed("input") <= tile[th] /\ Freed("weight") <= tile[th]
      BY <2>2, LeaderBehind
    <3> QED
      BY <2>1, <3>1, <3>2, LandedHolds
  <2>3. ASSUME pc[th] = "output" PROVE Holds("residual", atom[th])
    <3>1. Landed("residual", atom[th])
      BY <2>3 DEF HopperInv, WaitsTell
    <3>2. Freed("residual") <= atom[th]
      BY <2>3, LeaderBehind
    <3> QED
      BY <2>1, <3>1, <3>2, LandedHolds
  <2> QED
    BY <2>2, <2>3
<1> QED
  BY <1>1, HopperInvariant, PTL

-----------------------------------------------------------------------------
(* The stores, when no slot of mm_output is used twice.                    *)

\* The thread has written its part of atom n.
Wrote(th, n) == n < atom[th] \/ (n = atom[th] /\ pc[th] \in {"sync", "store"})

OutputsInv ==
    /\ output \in [Slots -> [Thread -> Int]]
    /\ stores \subseteq 0 .. NUM_ITER_N - 1
    /\ \A th \in Thread : /\ atom[th] <= NUM_ITER_N
                          /\ pc[th] \notin {"drain", "end"} => atom[th] < NUM_ITER_N
    /\ \A th \in Thread, n \in Nat : Wrote(th, n) => output[Slot(n)][th] = n
    /\ \A n \in stores, th \in Thread : Wrote(th, n)

\* What a step may do to the threads as far as the outputs are concerned: nobody
\* takes back what it has written, and the atoms are counted up to NUM_ITER_N.
LEMMA OutputsKept ==
    ASSUME OutputsInv, HopperTypeOK, HopperTypeOK', output' = output, stores' \subseteq stores,
           \A th \in Thread, n \in Nat : Wrote(th, n)' <=> Wrote(th, n),
           \A th \in Thread : /\ atom'[th] <= NUM_ITER_N
                              /\ pc'[th] \notin {"drain", "end"} => atom'[th] < NUM_ITER_N
    PROVE  OutputsInv'
<1>1. 0 .. NUM_ITER_N - 1 \subseteq Nat
  BY SizesAssumption
<1> QED
  BY <1>1 DEF OutputsInv

LEMMA OutputsStep ==
    ASSUME NUM_ITER_N <= Kstages, HopperInv, HopperInv', OutputsInv, [Next]_vars
    PROVE  OutputsInv'
<1>1. /\ HopperTypeOK /\ HopperTypeOK' /\ InStep /\ NUM_ITER_N \in Nat /\ NUM_ITER_N > 0
      /\ Leader \in Thread
  BY SizesAssumption DEF HopperInv
<1>2. \A th \in Thread : atom[th] \in Nat /\ atom'[th] \in Nat
  BY <1>1 DEF HopperTypeOK
<1>3. ASSUME atom' = atom, output' = output, stores' \subseteq stores, NEW th \in Thread,
             \A u \in Thread \ {th} : pc'[u] = pc[u],
             pc'[th] \in {"drain", "end"} <=> pc[th] \in {"drain", "end"},
             pc'[th] \in {"sync", "store"} <=> pc[th] \in {"sync", "store"}
      PROVE  OutputsInv'
  <2>1. \A u \in Thread : /\ pc'[u] \in {"drain", "end"} <=> pc[u] \in {"drain", "end"}
                          /\ pc'[u] \in {"sync", "store"} <=> pc[u] \in {"sync", "store"}
    BY <1>3
  <2>2. \A u \in Thread, n \in Nat : Wrote(u, n)' <=> Wrote(u, n)
    BY <1>3, <2>1 DEF Wrote
  <2>3. \A u \in Thread : /\ atom'[u] <= NUM_ITER_N
                          /\ pc'[u] \notin {"drain", "end"} => atom'[u] < NUM_ITER_N
    BY <1>3, <2>1 DEF OutputsInv
  <2> QED
    BY <1>1, <1>3, <2>2, <2>3, OutputsKept
<1>4. ASSUME UNCHANGED << atom, pc, output >>, stores' \subseteq stores PROVE OutputsInv'
  BY <1>1, <1>3, <1>4
<1>5. CASE Produce
  BY <1>4, <1>5 DEF Produce, LoadResidual, LoadTile, consumerVars
<1>6. CASE Multiply
  BY <1>4, <1>6 DEF Multiply
<1>7. ASSUME NEW load \in loads, Land(load) PROVE OutputsInv'
  BY <1>4, <1>7 DEF Land, consumerVars
<1>8. ASSUME NEW n \in stores, Stored(n) PROVE OutputsInv'
  BY <1>4, <1>8 DEF Stored
<1>9. CASE UNCHANGED vars
  BY <1>4, <1>9 DEF vars
\* A thread that goes on to the next atom has written the one it leaves.
<1>10. ASSUME NEW th \in Thread, pc[th] \in {"sync", "store"}, output' = output,
              atom' = [atom EXCEPT ![th] = @ + 1],
              pc' = [pc EXCEPT ![th] = IF atom[th] + 1 = NUM_ITER_N THEN "drain" ELSE "input"],
              stores' \subseteq stores \cup {atom[th]},
              atom[th] \in stores' => \A u \in Thread : Wrote(u, atom[th])
       PROVE  OutputsInv'
  <2> DEFINE label == IF atom[th] + 1 = NUM_ITER_N THEN "drain" ELSE "input"
  <2>1. \A u \in Thread : /\ atom'[u] = IF u = th THEN atom[th] + 1 ELSE atom[u]
                          /\ pc'[u] = IF u = th THEN label ELSE pc[u]
    BY <1>1, <1>10 DEF HopperTypeOK
  <2>2. atom[th] < NUM_ITER_N
    BY <1>10 DEF OutputsInv
  <2>3. label \notin {"sync", "store"} /\ (label # "drain" => atom[th] + 1 # NUM_ITER_N)
    OBVIOUS
  <2> HIDE DEF label
  <2>4. \A u \in Thread, n \in Nat : Wrote(u, n)' <=> Wrote(u, n)
    <3>1. \A n \in Nat : Wrote(th, n)' <=> Wrote(th, n)
      BY <1>2, <1>10, <2>1, <2>3, NextAtom DEF Wrote
    <3>2. \A u \in Thread \ {th}, n \in Nat : Wrote(u, n)' <=> Wrote(u, n)
      BY <2>1 DEF Wrote
    <3> QED
      BY <3>1, <3>2
  <2>5. \A u \in Thread : /\ atom'[u] <= NUM_ITER_N
                          /\ pc'[u] \notin {"drain", "end"} => atom'[u] < NUM_ITER_N
    <3>1. /\ atom'[th] <= NUM_ITER_N
          /\ pc'[th] \notin {"drain", "end"} => atom'[th] < NUM_ITER_N
      BY <1>1, <1>2, <2>1, <2>2, <2>3
    <3>2. \A u \in Thread \ {th} : /\ atom'[u] <= NUM_ITER_N
                                   /\ pc'[u] \notin {"drain", "end"} => atom'[u] < NUM_ITER_N
      BY <2>1 DEF OutputsInv
    <3> QED
      BY <3>1, <3>2
  <2>6. stores' \subseteq 0 .. NUM_ITER_N - 1
    <3>1. atom[th] \in 0 .. NUM_ITER_N - 1
      BY <1>1, <1>2, <2>2
    <3> QED
      BY <1>10, <3>1 DEF OutputsInv
  <2>7. \A n \in stores', u \in Thread : Wrote(u, n)'
    <3>1. \A n \in stores' : n \in Nat
      BY <1>1, <2>6
    <3>2. \A n \in stores', u \in Thread : Wrote(u, n)
      BY <1>10 DEF OutputsInv
    <3> QED
      BY <2>4, <3>1, <3>2
  <2>8. \A u \in Thread, n \in Nat : Wrote(u, n)' => output'[Slot(n)][u] = n
    BY <1>10, <2>4 DEF OutputsInv
  <2>9. output' \in [Slots -> [Thread -> Int]]
    BY <1>10 DEF OutputsInv
  <2> QED
    BY <2>5, <2>6, <2>7, <2>8, <2>9 DEF OutputsInv
<1>11. CASE Store
  <2>1. \A u \in Thread : Wrote(u, atom[Leader])
    BY <1>1, <1>2, <1>11 DEF Store, InStep, Wrote
  <2> QED
    BY <1>1, <1>10, <1>11, <2>1 DEF Store, Goto
\* The slot a thread writes held no atom before, as there are stages enough.
<1>12. ASSUME NEW th \in Thread, WriteOutput(th) PROVE OutputsInv'
  <2> DEFINE a == atom[th]
  <2>1. /\ a \in Nat /\ a < NUM_ITER_N /\ pc[th] = "output" /\ Slot(a) \in Slots
        /\ atom' = atom /\ stores' = stores
        /\ output' = [output EXCEPT ![Slot(a)][th] = a] /\ pc' = [pc EXCEPT ![th] = "sync"]
    BY <1>2, <1>12, SlotRange DEF WriteOutput, Goto, OutputsInv
  <2>2. \A u \in Thread : pc'[u] = IF u = th THEN "sync" ELSE pc[u]
    BY <1>1, <2>1 DEF HopperTypeOK
  <2>3. output' \in [Slots -> [Thread -> Int]]
    BY <2>1 DEF OutputsInv
  <2>4. \A t \in Slots, u \in Thread :
          output'[t][u] = IF t = Slot(a) /\ u = th THEN a ELSE output[t][u]
    BY <2>1 DEF OutputsInv
  <2>5. ASSUME NEW u \in Thread, NEW n \in Nat, Wrote(u, n)'
        PROVE  output'[Slot(n)][u] = n
    <3>1. CASE u = th /\ n = a
      BY <2>1, <2>4, <3>1
    <3>2. CASE ~(u = th /\ n = a)
      <4>1. Wrote(u, n)
        BY <2>1, <2>2, <2>5, <3>2 DEF Wrote
      <4>2. u = th => n < a
        BY <2>1, <3>2, <4>1 DEF Wrote
      <4>3. u = th => Slot(n) # Slot(a)
        <5>1. ASSUME n < a, Slot(n) = Slot(a) PROVE FALSE
          <6>1. n + Kstages <= a
            BY <2>1, <5>1, RoundOrder
          <6> QED
            BY <1>1, <2>1, <6>1, StagesNat
        <5> QED
          BY <4>2, <5>1
      <4>4. output'[Slot(n)][u] = output[Slot(n)][u]
        BY <2>4, <4>3, SlotRange
      <4> QED
        BY <4>1, <4>4 DEF OutputsInv
    <3> QED
      BY <3>1, <3>2
  <2>6. \A n \in stores', u \in Thread : Wrote(u, n)'
    <3>1. \A n \in stores, u \in Thread : Wrote(u, n)
      BY DEF OutputsInv
    <3> QED
      BY <2>1, <2>2, <3>1 DEF Wrote
  <2>7. \A u \in Thread : /\ atom'[u] <= NUM_ITER_N
                          /\ pc'[u] \notin {"drain", "end"} => atom'[u] < NUM_ITER_N
    BY <2>1, <2>2 DEF OutputsInv
  <2>8. stores' \subseteq 0 .. NUM_ITER_N - 1
    BY <2>1 DEF OutputsInv
  <2> HIDE DEF a
  <2> QED
    BY <2>3, <2>5, <2>6, <2>7, <2>8 DEF OutputsInv
<1>13. ASSUME NEW th \in Thread, Consume(th) PROVE OutputsInv'
  <2>1. CASE WaitTile(th)
    BY <1>1, <1>3, <2>1 DEF WaitTile, Goto, HopperTypeOK
  <2>2. CASE Release(th)
    BY <1>1, <1>3, <2>2 DEF Release, Goto, HopperTypeOK
  <2>3. CASE WaitResidual(th)
    BY <1>1, <1>3, <2>3 DEF WaitResidual, Goto, HopperTypeOK
  <2>4. CASE WriteOutput(th)
    BY <1>12, <2>4
  <2>5. CASE SyncAndStore(th)
    <3>1. CASE th = Leader
      BY <1>1, <1>3, <2>5, <3>1 DEF SyncAndStore, Goto, HopperTypeOK
    <3>2. CASE th # Leader
      <4>1. /\ pc[th] = "sync" /\ output' = output /\ stores' = stores
            /\ atom' = [atom EXCEPT ![th] = @ + 1]
            /\ pc' = [pc EXCEPT ![th] = IF atom[th] + 1 = NUM_ITER_N THEN "drain" ELSE "input"]
        BY <2>5, <3>2 DEF SyncAndStore, Goto
      <4>2. \A n \in stores, u \in Thread : Wrote(u, n)
        BY DEF OutputsInv
      <4> QED
        BY <1>10, <4>1, <4>2
    <3> QED
      BY <3>1, <3>2
  <2>6. CASE Drain(th)
    BY <1>1, <1>3, <2>6 DEF Drain, Goto, HopperTypeOK
  <2> QED
    BY <1>13, <2>1, <2>2, <2>3, <2>4, <2>5, <2>6 DEF Consume
<1> QED
  BY <1>5, <1>6, <1>7, <1>8, <1>9, <1>11, <1>13 DEF Next, Returned

\* With no more atoms than stages every store reads what all threads wrote for
\* its atom: the condition under which one waiting thread is enough.
THEOREM HopperStores ==
    ASSUME NUM_ITER_N <= Kstages PROVE Spec => []StoresIntact
<1>1. Init => OutputsInv
  <2>1. NUM_ITER_N \in Nat /\ NUM_ITER_N > 0
    BY SizesAssumption
  <2> QED
    BY <2>1 DEF Init, OutputsInv, Wrote, Empty
<1>2. HopperInv /\ HopperInv' /\ OutputsInv /\ [Next]_vars => OutputsInv'
  BY OutputsStep
<1>3. OutputsInv => StoresIntact
  <2>1. 0 .. NUM_ITER_N - 1 \subseteq Nat
    BY SizesAssumption
  <2> QED
    BY <2>1 DEF OutputsInv, StoresIntact
<1> QED
  BY <1>1, <1>2, <1>3, HopperInvariant, PTL DEF Spec
=============================================================================
