------------------------------ MODULE XcdProofs ------------------------------
(***************************************************************************)
(* What the blocks of the XCDs are given, for every number of blocks and   *)
(* every shape: their roles in a launch, and their tiles in a gang.        *)
(*                                                                         *)
(* The launch (LaunchInv).  The election gives each XCD one scheduler, so  *)
(* each XCD keeps a block that is no worker, and no more than NumWorkers   *)
(* blocks become workers; as each of them is counted once, the count says  *)
(* NumWorkers only when all have written their XCD to the map.             *)
(*                                                                         *)
(* The gangs.  The windowed traversal is a bijection between the tile      *)
(* numbers and the tiles of the output (WindowedOnce), also over all XCDs  *)
(* (MTilingOnce): TileNumber is its inverse.  The other decodings are      *)
(* quotients and remainders, which a number has one of each (Unique).  The *)
(* split-K layer has one finisher for each tile, and what the counting     *)
(* warp adds is complete (SplitKInv): the counter says how many blocks     *)
(* have passed it, so the block that takes it to K_SPLITS finds the terms  *)
(* of every block's warp 0 in the workspace.                               *)
(***************************************************************************)
EXTENDS KernelLaunch, GangTiles, FiniteSetTheorems, TLAPS

\* The split-K layer's own constants and variables; its pc is of a warp.
CONSTANTS NumTiles, K_SPLITS, NumWarps, MaxLayers
VARIABLES layer, warp_pc, is_last, workspace, done_counter, output
SK == INSTANCE SplitK WITH pc <- warp_pc

-----------------------------------------------------------------------------
(* The launch: its invariant.                                              *)

\* A block behind the boot handshake, and the workers that are.
Passed(b) == pc[b] \in {"run", "returned"}
Reported == {b \in Workers : Passed(b)}

\* The election of a combined launch: what is known of a block at each point.
Elected ==
    /\ \A x \in Xcd : xcd_scheduler_claimed[x] # -1 =>
         /\ xcd_scheduler_claimed[x] \in Schedulers
         /\ hw_xcd[xcd_scheduler_claimed[x]] = x
    /\ \A b \in Schedulers : /\ xcd_scheduler_claimed[hw_xcd[b]] = b
                             /\ my_id[b] = hw_xcd[b]
    /\ \A b \in Block : pc[b] # "claim" => xcd_scheduler_claimed[hw_xcd[b]] # -1
    /\ \A b \in Workers : my_id[b] \in 0 .. dynamic_worker_id_counter - 1
    /\ \A b, c \in Workers : my_id[b] = my_id[c] => b = c
    /\ dynamic_worker_id_counter = Cardinality(Workers)

\* The types that hold by themselves; the bounds of the two counters are counted below.
Typed ==
    /\ split_worker_scheduler \in BOOLEAN
    /\ launches \in 0 .. MaxLaunches
    /\ hw_xcd \in [Block -> Xcd] /\ hw_xcd \in Placements[split_worker_scheduler]
    /\ pc \in [Block -> {"claim", "number", "map", "ready", "boot", "run", "returned"}]
    /\ my_role \in [Block -> {"none", "worker", "scheduler"}]
    /\ my_id \in [Block -> Nat \cup {-1}]
    /\ my_workers \in [Block -> SUBSET WorkerId]
    /\ xcd_scheduler_claimed \in [Xcd -> Block \cup {-1}]
    /\ dynamic_worker_id_counter \in Nat
    /\ worker_xcd_map \in [WorkerId -> Xcd \cup {-1}]
    /\ worker_xcd_ready_count \in Nat

\* Before the first launch nothing runs; after it a block's role says where it can be,
\* and is given by its index or elected.
RolesOK ==
    IF launches = 0
    THEN /\ \A b \in Block : /\ pc[b] = "returned"
                            /\ my_role[b] = EntryRole(b) /\ my_id[b] = EntryId(b)
         /\ dynamic_worker_id_counter = 0 /\ worker_xcd_ready_count = 0
    ELSE /\ \A b \in Block :
              /\ my_role[b] = "none" <=> pc[b] \in {"claim", "number"}
              /\ pc[b] = "boot" => my_role[b] = "scheduler"
              /\ pc[b] \in {"map", "ready"} => my_role[b] = "worker"
         /\ IF split_worker_scheduler
            THEN /\ \A b \in Block : my_role[b] = EntryRole(b) /\ my_id[b] = EntryId(b)
                 /\ dynamic_worker_id_counter = 0
            ELSE Elected
         /\ worker_xcd_ready_count = Cardinality(Reported)

\* What the workers have written to the map, and what a scheduler that has collected
\* its workers has seen: all of them.
CollectedOK ==
    launches > 0 =>
      /\ \A b \in Workers : pc[b] # "map" /\ my_id[b] \in WorkerId =>
           worker_xcd_map[my_id[b]] = hw_xcd[b]
      /\ \A s \in Schedulers : Passed(s) =>
           /\ worker_xcd_ready_count >= NumWorkers
           /\ my_workers[s] = {w \in WorkerId : worker_xcd_map[w] = hw_xcd[s]}

LaunchInv == Typed /\ RolesOK

-----------------------------------------------------------------------------

\* How many blocks, workers and XCDs there are.
LEMMA BlockFacts ==
    /\ IsFiniteSet(Block) /\ Cardinality(Block) = NumWorkers + NumXcds
    /\ IsFiniteSet(WorkerId) /\ Cardinality(WorkerId) = NumWorkers
    /\ IsFiniteSet(Xcd) /\ Cardinality(Xcd) = NumXcds
<1>1. NumWorkers \in Nat \ {0} /\ NumXcds \in Nat \ {0}
  BY LaunchAssumption
<1>2. ASSUME NEW n \in Nat \ {0}
      PROVE  IsFiniteSet(0 .. n - 1) /\ Cardinality(0 .. n - 1) = n
  <2>1. 0 \in Int /\ n - 1 \in Int /\ ~(0 > n - 1) /\ n - 1 - 0 + 1 = n
    OBVIOUS
  <2> QED BY <2>1, FS_Interval
<1>3. NumWorkers + NumXcds \in Nat \ {0}
  BY <1>1
<1> QED BY <1>1, <1>2, <1>3 DEF Block, WorkerId, Xcd

\* The workers, and those of them that have reported, can be counted.
LEMMA SetFacts ==
    /\ IsFiniteSet(Workers) /\ Cardinality(Workers) \in Nat
    /\ Cardinality(Workers) <= NumWorkers + NumXcds
    /\ IsFiniteSet(Reported) /\ Cardinality(Reported) \in Nat
    /\ Cardinality(Reported) <= Cardinality(Workers)
    /\ Reported # Workers => Cardinality(Reported) < Cardinality(Workers)
<1>1. Workers \subseteq Block /\ Reported \subseteq Workers
  BY DEF Workers, Reported
<1>2. /\ IsFiniteSet(Workers) /\ Cardinality(Workers) <= Cardinality(Block)
  BY <1>1, BlockFacts, FS_Subset
<1>3. IsFiniteSet(Reported) /\ Cardinality(Reported) <= Cardinality(Workers)
      /\ (Cardinality(Reported) = Cardinality(Workers) => Reported = Workers)
  BY <1>1, <1>2, FS_Subset
<1>4. Cardinality(Workers) \in Nat /\ Cardinality(Reported) \in Nat
  BY <1>2, <1>3, FS_CardinalityType
<1> QED BY <1>2, <1>3, <1>4, BlockFacts

\* The invariant holds initially.
LEMMA LaunchInit ==
    Init => LaunchInv
BY LaunchAssumption
   DEF Init, LaunchInv, Typed, RolesOK, EntryRole, EntryId, Block, IsWorkerBlock

\* A launch resets what the last one has left.
LEMMA LaunchStep == ASSUME LaunchInv, Launch PROVE LaunchInv'
<1> USE LaunchAssumption
<1>1. Typed'
  BY DEF LaunchInv, Typed, Launch, EntryPoint, EntryRole, EntryId, Block, Xcd,
     IsWorkerBlock,
         ReadyAfterPrepare, ClaimedAfterPrepare
<1>2. Reported' = {} /\ (~split_worker_scheduler => Workers' = {})
  BY DEF LaunchInv, Typed, Launch, Reported, Workers, Passed, EntryPoint, EntryRole
<1>3. Cardinality({}) = 0
  BY FS_EmptySet
<1>4. launches' > 0 /\ launches' # 0
  BY DEF LaunchInv, Typed, Launch
<1>5. /\ \A b \in Block : /\ pc'[b] = EntryPoint(b)
                          /\ my_role'[b] = EntryRole(b) /\ my_id'[b] = EntryId(b)
      /\ split_worker_scheduler' = split_worker_scheduler
      /\ dynamic_worker_id_counter' = 0 /\ worker_xcd_ready_count' = 0
      /\ \A x \in Xcd : xcd_scheduler_claimed'[x] = -1
  BY DEF Launch, ReadyAfterPrepare, ClaimedAfterPrepare
<1>6. ASSUME split_worker_scheduler PROVE RolesOK'
  BY <1>1, <1>2, <1>3, <1>4, <1>5, <1>6 DEF RolesOK, EntryPoint, EntryRole, EntryId
<1>7. ASSUME ~split_worker_scheduler PROVE RolesOK'
  <2>1. Elected'
    BY <1>1, <1>2, <1>3, <1>4, <1>5, <1>7
       DEF Elected, EntryPoint, EntryRole, EntryId, Schedulers
  <2> QED BY <2>1, <1>1, <1>2, <1>3, <1>4, <1>5, <1>7
             DEF RolesOK, EntryPoint, EntryRole, EntryId
<1> QED BY <1>1, <1>6, <1>7 DEF LaunchInv

\* A block that is at work is in a launch, and a step of it leaves the host's
\* variables alone.
LEMMA AtWork ==
    ASSUME LaunchInv, NEW b \in Block, pc[b] # "returned"
    PROVE  /\ launches # 0 /\ launches > 0
           /\ \A c \in Block :
                /\ my_role[c] = "none" <=> pc[c] \in {"claim", "number"}
                /\ pc[c] = "boot" => my_role[c] = "scheduler"
                /\ pc[c] \in {"map", "ready"} => my_role[c] = "worker"
           /\ split_worker_scheduler =>
                /\ \A c \in Block : my_role[c] = EntryRole(c) /\ my_id[c] = EntryId(c)
                /\ dynamic_worker_id_counter = 0
           /\ ~split_worker_scheduler => Elected
           /\ worker_xcd_ready_count = Cardinality(Reported)
<1>1. launches # 0
  BY DEF LaunchInv, RolesOK
<1>2. launches \in Nat
  BY LaunchAssumption DEF LaunchInv, Typed
<1> QED BY <1>1, <1>2 DEF LaunchInv, RolesOK

\* When neither a role nor a number changes, only where the blocks are.
LEMMA OnlyPlaces ==
    ASSUME LaunchInv, NEW b \in Block, pc[b] # "returned", Typed',
           UNCHANGED << host, my_role, my_id, election >>,
           \A c \in Block : c # b => pc'[c] = pc[c],
           pc'[b] \notin {"claim", "number"}, pc[b] # "claim", my_role[b] # "none",
           my_role[b] = "scheduler" => pc'[b] \notin {"map", "ready"},
           my_role[b] = "worker" => pc'[b] # "boot",
           worker_xcd_ready_count' = Cardinality(Reported')
    PROVE  LaunchInv'
<1>1. /\ launches # 0 /\ launches' # 0
      /\ \A c \in Block : c # b => pc'[c] = pc[c]
      /\ Workers' = Workers /\ Schedulers' = Schedulers
  BY AtWork DEF LaunchInv, Typed, host, Workers, Schedulers
<1>2. \A c \in Block : EntryRole(c)' = EntryRole(c) /\ EntryId(c)' = EntryId(c)
  BY DEF EntryRole, EntryId, host
<1>3. ~split_worker_scheduler => Elected'
  BY <1>1, AtWork DEF Elected, host, election
<1>4. \A c \in Block :
                /\ my_role'[c] = "none" <=> pc'[c] \in {"claim", "number"}
                /\ pc'[c] = "boot" => my_role'[c] = "scheduler"
                /\ pc'[c] \in {"map", "ready"} => my_role'[c] = "worker"
  <2> TAKE c \in Block
  <2>1. my_role[c] \in {"none", "worker", "scheduler"} /\ my_role' = my_role
    BY DEF LaunchInv, Typed
  <2> QED BY <2>1, <1>1, AtWork
<1>5. split_worker_scheduler => /\ \A c \in Block : /\ my_role'[c] = EntryRole(c)'
                                                   /\ my_id'[c] = EntryId(c)'
                                /\ dynamic_worker_id_counter' = 0
  BY <1>2, AtWork DEF election
<1>6. split_worker_scheduler' = split_worker_scheduler
  BY DEF host
<1> QED BY <1>1, <1>3, <1>4, <1>5, <1>6 DEF LaunchInv, RolesOK

\* The first block of an XCD becomes its scheduler, the others go on for a number.
LEMMA ClaimStep ==
    ASSUME LaunchInv, NEW b \in Block, ClaimScheduler(b)
    PROVE  LaunchInv'
<1> USE LaunchAssumption
<1> DEFINE x == hw_xcd[b]
<1>0. pc[b] = "claim" /\ pc[b] # "returned" /\ my_role[b] = "none" /\ x \in Xcd
      /\ launches # 0 /\ ~split_worker_scheduler /\ Elected
  <2>1. pc[b] = "claim" /\ x \in Xcd
    BY DEF ClaimScheduler, LaunchInv, Typed
  <2>2. my_role[b] = "none" /\ launches # 0
    BY <2>1, AtWork
  <2>3. ~split_worker_scheduler
    BY <2>1, <2>2, AtWork DEF EntryRole
  <2> QED BY <2>1, <2>2, <2>3, AtWork
<1>1. Typed'
  <2>1. x \in Nat
    BY <1>0 DEF Xcd
  <2>2. /\ UNCHANGED << host, my_workers, dynamic_worker_id_counter, placement >>
        /\ pc' = [pc EXCEPT ![b] = pc'[b]] /\ pc'[b] \in {"boot", "number"}
    BY DEF ClaimScheduler, LaunchInv, Typed
  <2>3. my_role' \in [Block -> {"none", "worker", "scheduler"}]
    BY DEF ClaimScheduler, LaunchInv, Typed
  <2>4. my_id' \in [Block -> Nat \cup {-1}]
    BY <2>1 DEF ClaimScheduler, LaunchInv, Typed
  <2>5. xcd_scheduler_claimed' \in [Xcd -> Block \cup {-1}]
    BY <1>0 DEF ClaimScheduler, LaunchInv, Typed
  <2>6. pc' \in [Block -> {"claim", "number", "map", "ready", "boot", "run", "returned"}]
    BY <2>2 DEF LaunchInv, Typed
  <2> QED BY <2>2, <2>3, <2>4, <2>5, <2>6 DEF LaunchInv, Typed, host, placement
<1>2. CASE xcd_scheduler_claimed[x] = -1
  <2>1. /\ \A c \in Block : /\ pc'[c] = IF c = b THEN "boot" ELSE pc[c]
                            /\ my_role'[c] = IF c = b THEN "scheduler" ELSE my_role[c]
                            /\ my_id'[c] = IF c = b THEN x ELSE my_id[c]
        /\ \A y \in Xcd : xcd_scheduler_claimed'[y] = IF y = x THEN b ELSE xcd_scheduler_claimed[y]
        /\ UNCHANGED << host, my_workers, dynamic_worker_id_counter, placement >>
    BY <1>0, <1>2 DEF LaunchInv, Typed, ClaimScheduler
  <2>2. Workers' = Workers /\ Reported' = Reported /\ Schedulers' = Schedulers \cup {b}
    BY <2>1, <1>0 DEF Workers, Reported, Passed, Schedulers
  <2>3. hw_xcd' = hw_xcd /\ hw_xcd \in [Block -> Xcd] /\ b \notin Workers /\ b \notin Schedulers
    BY <2>1, <1>0 DEF host, LaunchInv, Typed, Workers, Schedulers
  <2>4. -1 \notin Block
    BY DEF Block
  <2>5. Elected'
    <3>1. \A y \in Xcd : xcd_scheduler_claimed'[y] # -1 =>
                   /\ xcd_scheduler_claimed'[y] \in Schedulers'
                   /\ hw_xcd'[xcd_scheduler_claimed'[y]] = y
      BY <2>1, <2>2, <2>3, <1>0 DEF Elected
    <3>2. \A c \in Schedulers' : /\ xcd_scheduler_claimed'[hw_xcd'[c]] = c
                                 /\ my_id'[c] = hw_xcd'[c]
      <4> TAKE c \in Schedulers'
      <4>1. CASE c = b
        BY <4>1, <2>1, <2>3, <1>0
      <4>2. CASE c # b
        <5>1. c \in Schedulers /\ c \in Block /\ hw_xcd[c] \in Xcd
          BY <4>2, <2>2, <2>3 DEF Schedulers
        <5>2. xcd_scheduler_claimed[hw_xcd[c]] = c /\ my_id[c] = hw_xcd[c]
          BY <5>1, <1>0 DEF Elected
        <5>3. hw_xcd[c] # x
          BY <5>1, <5>2, <1>2, <2>4
        <5> QED BY <5>1, <5>2, <5>3, <4>2, <2>1, <2>3
      <4> QED BY <4>1, <4>2
    <3>3. \A c \in Block : pc'[c] # "claim" => xcd_scheduler_claimed'[hw_xcd'[c]] # -1
      BY <2>1, <2>3, <2>4, <1>0 DEF Elected
    <3>4. /\ \A c \in Workers' : my_id'[c] \in 0 .. dynamic_worker_id_counter' - 1
          /\ \A c, d \in Workers' : my_id'[c] = my_id'[d] => c = d
          /\ dynamic_worker_id_counter' = Cardinality(Workers')
      <4>1. \A c \in Workers : c \in Block /\ c # b
        BY <2>3 DEF Workers
      <4> QED BY <4>1, <2>1, <2>2, <1>0 DEF Elected
    <3> QED BY <3>1, <3>2, <3>3, <3>4 DEF Elected
  <2>6. worker_xcd_ready_count' = Cardinality(Reported')
    BY <2>1, <2>2, <1>0, AtWork DEF placement
  <2>7. launches' # 0 /\ ~split_worker_scheduler'
    BY <2>1, <1>0 DEF host
  <2>8. \A c \in Block :
                /\ my_role'[c] = "none" <=> pc'[c] \in {"claim", "number"}
                /\ pc'[c] = "boot" => my_role'[c] = "scheduler"
                /\ pc'[c] \in {"map", "ready"} => my_role'[c] = "worker"
    BY <2>1, <1>0, AtWork
  <2> QED BY <1>1, <2>5, <2>6, <2>7, <2>8 DEF LaunchInv, RolesOK
<1>3. CASE xcd_scheduler_claimed[x] # -1
  <2>1. /\ \A c \in Block : pc'[c] = IF c = b THEN "number" ELSE pc[c]
        /\ UNCHANGED << xcd_scheduler_claimed, my_role, my_id >>
        /\ UNCHANGED << host, my_workers, dynamic_worker_id_counter, placement >>
    BY <1>0, <1>3 DEF LaunchInv, Typed, ClaimScheduler
  <2>2. Workers' = Workers /\ Reported' = Reported /\ Schedulers' = Schedulers
    BY <2>1, <1>0 DEF Workers, Reported, Passed, Schedulers
  <2>3. hw_xcd' = hw_xcd
    BY <2>1 DEF host
  <2>5. Elected'
    BY <2>1, <2>2, <2>3, <1>0, <1>3 DEF Elected
  <2>6. worker_xcd_ready_count' = Cardinality(Reported')
    BY <2>1, <2>2, <1>0, AtWork DEF placement
  <2>7. launches' # 0 /\ ~split_worker_scheduler'
    BY <2>1, <1>0 DEF host
  <2>8. \A c \in Block :
                /\ my_role'[c] = "none" <=> pc'[c] \in {"claim", "number"}
                /\ pc'[c] = "boot" => my_role'[c] = "scheduler"
                /\ pc'[c] \in {"map", "ready"} => my_role'[c] = "worker"
    BY <2>1, <1>0, AtWork
  <2> QED BY <1>1, <2>5, <2>6, <2>7, <2>8 DEF LaunchInv, RolesOK
<1> QED BY <1>2, <1>3

\* A worker takes a number that no worker has.
LEMMA NumberStep ==
    ASSUME LaunchInv, NEW b \in Block, TakeWorkerId(b)
    PROVE  LaunchInv'
<1> USE LaunchAssumption
<1>0. pc[b] = "number" /\ pc[b] # "returned" /\ my_role[b] = "none"
      /\ launches # 0 /\ ~split_worker_scheduler /\ Elected /\ dynamic_worker_id_counter \in Nat
  <2>1. pc[b] = "number" /\ dynamic_worker_id_counter \in Nat
    BY DEF TakeWorkerId, LaunchInv, Typed
  <2>2. my_role[b] = "none" /\ launches # 0
    BY <2>1, AtWork
  <2>3. ~split_worker_scheduler
    BY <2>1, <2>2, AtWork DEF EntryRole
  <2> QED BY <2>1, <2>2, <2>3, AtWork
<1>1. Typed'
  BY <1>0 DEF LaunchInv, Typed, TakeWorkerId, host, placement, Xcd, Block
<1>2. /\ \A c \in Block : /\ pc'[c] = IF c = b THEN "map" ELSE pc[c]
                          /\ my_role'[c] = IF c = b THEN "worker" ELSE my_role[c]
                          /\ my_id'[c] = IF c = b THEN dynamic_worker_id_counter ELSE my_id[c]
      /\ dynamic_worker_id_counter' = dynamic_worker_id_counter + 1
      /\ UNCHANGED << host, my_workers, xcd_scheduler_claimed, placement >>
      /\ hw_xcd' = hw_xcd
  BY <1>0 DEF LaunchInv, Typed, TakeWorkerId, host
<1>3. /\ Workers' = Workers \cup {b} /\ b \notin Workers /\ b \notin Schedulers
      /\ Reported' = Reported /\ Schedulers' = Schedulers
  BY <1>2, <1>0 DEF Workers, Reported, Passed, Schedulers
<1>4. Cardinality(Workers') = Cardinality(Workers) + 1
  BY <1>3, SetFacts, FS_AddElement
<1>5. Elected'
  <2>1. \A c \in Workers : my_id[c] \in 0 .. dynamic_worker_id_counter - 1 /\ c \in Block /\ c # b
    BY <1>0, <1>3 DEF Elected, Workers
  <2>2. \A c \in Workers' : my_id'[c] \in 0 .. dynamic_worker_id_counter' - 1
    BY <2>1, <1>0, <1>2, <1>3
  <2>3. \A c, d \in Workers' : my_id'[c] = my_id'[d] => c = d
    <3> TAKE c, d \in Workers'
    <3>1. \A e \in Workers : my_id'[e] = my_id[e] /\ my_id[e] # dynamic_worker_id_counter
      BY <2>1, <1>2, <1>0
    <3>2. my_id'[b] = dynamic_worker_id_counter
      BY <1>2
    <3>3. \A e, f \in Workers : my_id[e] = my_id[f] => e = f
      BY <1>0 DEF Elected
    <3> QED BY <3>1, <3>2, <3>3, <1>3
  <2>4. \A y \in Xcd : xcd_scheduler_claimed'[y] # -1 =>
                   /\ xcd_scheduler_claimed'[y] \in Schedulers'
                   /\ hw_xcd'[xcd_scheduler_claimed'[y]] = y
    BY <1>0, <1>2, <1>3 DEF Elected
  <2>5. \A c \in Schedulers' : /\ xcd_scheduler_claimed'[hw_xcd'[c]] = c
                               /\ my_id'[c] = hw_xcd'[c]
    BY <1>0, <1>2, <1>3 DEF Elected, Schedulers
  <2>6. \A c \in Block : pc'[c] # "claim" => xcd_scheduler_claimed'[hw_xcd'[c]] # -1
    BY <1>0, <1>2 DEF Elected
  <2>7. dynamic_worker_id_counter' = Cardinality(Workers')
    BY <1>0, <1>2, <1>4 DEF Elected
  <2> QED BY <2>2, <2>3, <2>4, <2>5, <2>6, <2>7 DEF Elected
<1>6. worker_xcd_ready_count' = Cardinality(Reported')
  BY <1>2, <1>3, <1>0, AtWork DEF placement
<1>7. launches' # 0 /\ ~split_worker_scheduler'
  BY <1>2, <1>0 DEF host
<1>8. \A c \in Block :
                /\ my_role'[c] = "none" <=> pc'[c] \in {"claim", "number"}
                /\ pc'[c] = "boot" => my_role'[c] = "scheduler"
                /\ pc'[c] \in {"map", "ready"} => my_role'[c] = "worker"
  BY <1>2, <1>0, AtWork
<1> QED BY <1>1, <1>5, <1>6, <1>7, <1>8 DEF LaunchInv, RolesOK

\* A worker writes its XCD to the map.
LEMMA MapStep == ASSUME LaunchInv, NEW b \in Block, MapXcd(b) PROVE LaunchInv'
<1>0. pc[b] = "map" /\ pc[b] # "returned" /\ pc[b] # "claim"
      /\ my_role[b] = "worker" /\ my_role[b] # "none"
  BY AtWork DEF MapXcd
<1>1. Typed'
  BY <1>0, LaunchAssumption
     DEF LaunchInv, Typed, MapXcd, host, election, Xcd, Block, WorkerId
<1>2. Reported' = Reported
  BY <1>0 DEF LaunchInv, Typed, MapXcd, Reported, Passed, Workers
<1>3. worker_xcd_ready_count' = Cardinality(Reported')
  BY <1>0, <1>2, AtWork DEF MapXcd
<1>4. /\ UNCHANGED << host, my_role, my_id, election >>
      /\ \A c \in Block : c # b => pc'[c] = pc[c]
      /\ pc'[b] = "ready"
  BY DEF MapXcd, LaunchInv, Typed
<1> QED BY <1>0, <1>1, <1>3, <1>4, LaunchAssumption, OnlyPlaces

\* A worker is counted once.
LEMMA ReportStep ==
    ASSUME LaunchInv, NEW b \in Block, ReportReady(b)
    PROVE  LaunchInv'
<1>0. pc[b] = "ready" /\ pc[b] # "returned" /\ pc[b] # "claim"
      /\ my_role[b] = "worker" /\ my_role[b] # "none"
  BY AtWork DEF ReportReady
<1>1. Typed'
  BY <1>0 DEF LaunchInv, Typed, ReportReady, host, election
<1>2. Reported' = Reported \cup {b} /\ b \notin Reported
  BY <1>0 DEF LaunchInv, Typed, ReportReady, Reported, Passed, Workers
<1>3. worker_xcd_ready_count' = Cardinality(Reported')
  <2>1. Cardinality(Reported') = Cardinality(Reported) + 1
    BY <1>2, SetFacts, FS_AddElement
  <2> QED BY <2>1, <1>0, AtWork DEF ReportReady
<1>4. /\ UNCHANGED << host, my_role, my_id, election >>
      /\ \A c \in Block : c # b => pc'[c] = pc[c]
      /\ pc'[b] = "run"
  BY DEF ReportReady, LaunchInv, Typed
<1> QED BY <1>0, <1>1, <1>3, <1>4, LaunchAssumption, OnlyPlaces

\* A scheduler collects its workers.
LEMMA CollectStep ==
    ASSUME LaunchInv, NEW b \in Block, CollectWorkers(b)
    PROVE  LaunchInv'
<1>0. pc[b] = "boot" /\ pc[b] # "returned" /\ pc[b] # "claim"
      /\ my_role[b] = "scheduler" /\ my_role[b] # "none"
  BY AtWork DEF CollectWorkers
<1>1. Typed'
  BY <1>0, LaunchAssumption
     DEF LaunchInv, Typed, CollectWorkers, host, election, placement, Xcd, Block,
         WorkerId
<1>2. Reported' = Reported
  BY <1>0 DEF LaunchInv, Typed, CollectWorkers, Reported, Passed, Workers
<1>3. worker_xcd_ready_count' = Cardinality(Reported')
  BY <1>0, <1>2, AtWork DEF CollectWorkers, placement
<1>4. /\ UNCHANGED << host, my_role, my_id, election >>
      /\ \A c \in Block : c # b => pc'[c] = pc[c]
      /\ pc'[b] = "run"
  BY DEF CollectWorkers, LaunchInv, Typed
<1> QED BY <1>0, <1>1, <1>3, <1>4, LaunchAssumption, OnlyPlaces

\* A block that returns keeps its role and its number.
LEMMA ReturnStep ==
    ASSUME LaunchInv, NEW b \in Block, SchedulerReturns(b) \/ WorkerReturns(b)
    PROVE  LaunchInv'
<1>0. pc[b] = "run" /\ pc[b] # "returned" /\ pc[b] # "claim" /\ my_role[b] # "none"
      /\ pc' = [pc EXCEPT ![b] = "returned"]
      /\ UNCHANGED << host, my_role, my_id, my_workers, election, placement >>
  BY AtWork DEF SchedulerReturns, WorkerReturns
<1>1. Typed'
  BY <1>0, LaunchAssumption DEF LaunchInv, Typed, host, election, placement
<1>2. Reported' = Reported
  BY <1>0 DEF LaunchInv, Typed, Reported, Passed, Workers
<1>3. worker_xcd_ready_count' = Cardinality(Reported')
  BY <1>0, <1>2, AtWork DEF placement
<1>4. /\ UNCHANGED << host, my_role, my_id, election >>
      /\ \A c \in Block : c # b => pc'[c] = pc[c]
      /\ pc'[b] = "returned"
  BY <1>0 DEF LaunchInv, Typed
<1> QED BY <1>0, <1>1, <1>3, <1>4, LaunchAssumption, OnlyPlaces

-----------------------------------------------------------------------------
(* Who has which number.                                                    *)

\* Before the first launch the roles are those of the kernels, or none.
LEMMA RolesKnown ==
    ASSUME LaunchInv
    PROVE  /\ split_worker_scheduler =>
                \A b \in Block : my_role[b] = EntryRole(b) /\ my_id[b] = EntryId(b)
           /\ ~split_worker_scheduler => Elected \/ \A b \in Block : my_role[b] = "none"
BY DEF LaunchInv, RolesOK, EntryRole

\* No two blocks with the same role have the same number.
LEMMA IdsDiffer ==
    ASSUME LaunchInv
    PROVE  /\ \A b, c \in Workers : my_id[b] = my_id[c] => b = c
           /\ \A b, c \in Schedulers : my_id[b] = my_id[c] => b = c
<1>1. CASE split_worker_scheduler
  <2>1. \A b \in Block : my_role[b] = EntryRole(b) /\ my_id[b] = EntryId(b) /\ b \in Int
    BY <1>1, RolesKnown DEF Block
  <2>2. NumWorkers \in Nat
    BY LaunchAssumption
  <2> QED BY <1>1, <2>1, <2>2 DEF EntryRole, EntryId, Workers, Schedulers
<1>2. CASE ~split_worker_scheduler
  <2>1. Elected \/ \A b \in Block : my_role[b] = "none"
    BY <1>2, RolesKnown
  <2> QED BY <2>1 DEF Elected, Workers, Schedulers
<1> QED BY <1>1, <1>2

\* Every XCD keeps a block that is not a worker.
LEMMA EnoughWorkers ==
    ASSUME EveryXcdServed, LaunchInv
    PROVE  /\ Cardinality(Workers) <= NumWorkers
           /\ \A b \in Workers : my_id[b] \in WorkerId
           /\ \A b \in Schedulers : my_id[b] \in Xcd /\ hw_xcd[b] = my_id[b]
<1>1. NumWorkers \in Nat \ {0} /\ NumXcds \in Nat \ {0}
  BY LaunchAssumption
<1>2. CASE split_worker_scheduler
  <2>1. \A b \in Block : /\ my_role[b] = EntryRole(b) /\ my_id[b] = EntryId(b)
                         /\ b \in 0 .. NumWorkers + NumXcds - 1
    BY <1>2, RolesKnown DEF Block
  <2>2. \A b \in Block : /\ b \in Workers <=> b < NumWorkers
                         /\ b \in Workers => my_id[b] = b
                         /\ b \in Schedulers <=> b >= NumWorkers
                         /\ b \in Schedulers => my_id[b] = b - NumWorkers
    BY <1>2, <2>1, <1>1 DEF EntryRole, EntryId, Workers, Schedulers, IsWorkerBlock
  <2>3. Workers = WorkerId
    <3>1. \A b : b \in Workers <=> b \in Block /\ b < NumWorkers
      BY <2>2 DEF Workers
    <3>2. \A b : b \in WorkerId <=> b \in Block /\ b < NumWorkers
      BY <1>1 DEF WorkerId, Block
    <3> QED BY <3>1, <3>2
  <2>4. ASSUME NEW b \in Schedulers PROVE my_id[b] \in Xcd /\ hw_xcd[b] = my_id[b]
    <3>1. b \in Block /\ b \in 0 .. NumWorkers + NumXcds - 1 /\ b >= NumWorkers /\ my_id[b] = b - NumWorkers
      BY <2>1, <2>2 DEF Schedulers
    <3>2. b - NumWorkers \in Xcd /\ NumWorkers + (b - NumWorkers) = b
      BY <3>1, <1>1 DEF Xcd
    <3>3. hw_xcd \in Placements[TRUE]
      BY <1>2 DEF LaunchInv, Typed
    <3>4. hw_xcd[NumWorkers + (b - NumWorkers)] = b - NumWorkers
      BY <3>2, <3>3 DEF EveryXcdServed
    <3> QED BY <3>1, <3>2, <3>4
  <2>5. Cardinality(Workers) <= NumWorkers
    BY <2>3, BlockFacts, <1>1
  <2>6. \A b \in Workers : my_id[b] \in WorkerId
    BY <2>2, <2>3 DEF Workers
  <2> QED BY <2>4, <2>5, <2>6
<1>3. CASE \A b \in Block : my_role[b] = "none"
  <2>1. Workers = {} /\ Schedulers = {}
    BY <1>3 DEF Workers, Schedulers
  <2> QED BY <1>1, <2>1, FS_EmptySet
<1>4. CASE ~split_worker_scheduler /\ Elected
  <2>1. Elected /\ hw_xcd \in Placements[FALSE] /\ hw_xcd \in [Block -> Xcd]
        /\ xcd_scheduler_claimed \in [Xcd -> Block \cup {-1}]
    BY <1>4 DEF LaunchInv, Typed
  <2>2. ASSUME NEW x \in Xcd
        PROVE  \E b \in Block \ Workers : hw_xcd[b] = x
    <3>1. CASE xcd_scheduler_claimed[x] # -1
      BY <2>1, <3>1 DEF Elected, Schedulers, Workers
    <3>2. CASE xcd_scheduler_claimed[x] = -1
      <4>1. PICK b \in Block : hw_xcd[b] = x
        BY <2>1 DEF EveryXcdServed
      <4>2. pc[b] = "claim"
        BY <2>1, <3>2, <4>1 DEF Elected
      <4>3. my_role[b] = "none"
        <5>1. launches # 0
          BY <4>2 DEF LaunchInv, RolesOK
        <5> QED BY <4>2, <5>1 DEF LaunchInv, RolesOK
      <4> QED BY <4>1, <4>3 DEF Workers
    <3> QED BY <3>1, <3>2
  <2> DEFINE rep == [x \in Xcd |-> CHOOSE b \in Block \ Workers : hw_xcd[b] = x]
  <2>3. \A x \in Xcd : rep[x] \in Block \ Workers /\ hw_xcd[rep[x]] = x
    BY <2>2
  <2>4. rep \in Injection(Xcd, Block \ Workers)
    <3>1. rep \in [Xcd -> Block \ Workers]
      BY <2>3
    <3>2. \A x, y \in Xcd : rep[x] = rep[y] => x = y
      <4> TAKE x, y \in Xcd
      <4>1. hw_xcd[rep[x]] = x /\ hw_xcd[rep[y]] = y
        BY <2>3
      <4> HIDE DEF rep
      <4> QED BY <4>1
    <3> HIDE DEF rep
    <3> QED BY <3>1, <3>2 DEF Injection, IsInjective
  <2> HIDE DEF rep
  <2>5. /\ IsFiniteSet(Block \ Workers)
        /\ Cardinality(Block \ Workers) = Cardinality(Block) - Cardinality(Workers)
    <3>1. Block \cap Workers = Workers
      BY DEF Workers
    <3>2. /\ IsFiniteSet(Block \ Workers)
          /\ Cardinality(Block \ Workers) = Cardinality(Block) - Cardinality(Block \cap Workers)
      BY BlockFacts, FS_Difference, Zenon
    <3> QED BY <3>1, <3>2
  <2>6. Cardinality(Xcd) <= Cardinality(Block \ Workers)
    BY <2>4, <2>5, FS_Injection
  <2>7. Cardinality(Workers) <= NumWorkers
    BY <2>5, <2>6, BlockFacts, SetFacts, <1>1
  <2>8. \A b \in Workers : my_id[b] \in WorkerId
    <3>1. dynamic_worker_id_counter = Cardinality(Workers) /\ Cardinality(Workers) \in Nat
      BY <2>1, SetFacts DEF Elected
    <3>2. \A b \in Workers : my_id[b] \in 0 .. dynamic_worker_id_counter - 1
      BY <2>1 DEF Elected
    <3> QED BY <3>1, <3>2, <2>7, <1>1 DEF WorkerId
  <2>9. \A b \in Schedulers : my_id[b] \in Xcd /\ hw_xcd[b] = my_id[b]
    BY <2>1 DEF Elected, Schedulers
  <2> QED BY <2>7, <2>8, <2>9
<1> QED BY <1>2, <1>3, <1>4, RolesKnown

\* When NumWorkers have reported, all numbers are given out and nobody is still to come.
LEMMA AllThere ==
    ASSUME EveryXcdServed, LaunchInv, launches # 0, worker_xcd_ready_count >= NumWorkers
    PROVE  /\ \A b \in Workers : Passed(b)
           /\ \A w \in WorkerId : \E b \in Workers : my_id[b] = w
<1>1. worker_xcd_ready_count = Cardinality(Reported)
  BY DEF LaunchInv, RolesOK
<1>2. Cardinality(Workers) = NumWorkers /\ Reported = Workers
  BY <1>1, EnoughWorkers, SetFacts, LaunchAssumption
<1> DEFINE f == [b \in Workers |-> my_id[b]]
<1>3. f \in Injection(Workers, WorkerId)
  <2>1. f \in [Workers -> WorkerId]
    BY EnoughWorkers
  <2>2. \A b, c \in Workers : f[b] = f[c] => b = c
    BY IdsDiffer
  <2> HIDE DEF f
  <2> QED BY <2>1, <2>2 DEF Injection, IsInjective
<1>4. f \in Surjection(Workers, WorkerId)
  BY <1>2, <1>3, BlockFacts, FS_Injection
<1>5. \A w \in WorkerId : \E b \in Workers : f[b] = w
  BY <1>4 DEF Surjection
<1> QED BY <1>2, <1>5 DEF Reported

-----------------------------------------------------------------------------
(* The schedulers' workers.                                                 *)

\* No step of a block spoils what a scheduler has collected: a worker that has still
\* to write to the map is not counted, so no scheduler has passed.
LEMMA CollectKept ==
    ASSUME EveryXcdServed, LaunchInv, LaunchInv', CollectedOK, NEW b \in Block, BlockStep(b)
    PROVE  CollectedOK'
<1> SUFFICES ASSUME launches' > 0 PROVE CollectedOK'
  BY DEF CollectedOK
<1>0. /\ launches' = launches /\ hw_xcd' = hw_xcd /\ launches # 0 /\ launches > 0
      /\ pc \in [Block -> {"claim", "number", "map", "ready", "boot", "run", "returned"}]
      /\ my_role \in [Block -> {"none", "worker", "scheduler"}]
  BY DEF BlockStep, ClaimScheduler, TakeWorkerId, MapXcd, ReportReady,
     CollectWorkers,
         SchedulerReturns, WorkerReturns, Poll, host, vars, LaunchInv, Typed
<1>1. CASE ClaimScheduler(b)
  <2>1. my_role[b] = "none" /\ pc[b] = "claim"
    BY <1>1, AtWork DEF ClaimScheduler
  <2>2. /\ \A c \in Block \ {b} : pc'[c] = pc[c] /\ my_role'[c] = my_role[c] /\ my_id'[c] = my_id[c]
        /\ pc'[b] \in {"boot", "number"} /\ my_role'[b] # "worker"
        /\ UNCHANGED << placement, my_workers >>
    BY <1>0, <1>1, <2>1 DEF ClaimScheduler, LaunchInv, Typed
  <2> QED BY <1>0, <2>1, <2>2
             DEF CollectedOK, Workers, Schedulers, Passed, placement
<1>2. CASE TakeWorkerId(b)
  <2>1. my_role[b] = "none" /\ pc[b] = "number"
    BY <1>2, AtWork DEF TakeWorkerId
  <2>2. /\ \A c \in Block \ {b} : pc'[c] = pc[c] /\ my_role'[c] = my_role[c] /\ my_id'[c] = my_id[c]
        /\ pc'[b] = "map" /\ my_role'[b] = "worker"
        /\ UNCHANGED << placement, my_workers >>
    BY <1>0, <1>2, <2>1 DEF TakeWorkerId, LaunchInv, Typed
  <2> QED BY <1>0, <2>1, <2>2
             DEF CollectedOK, Workers, Schedulers, Passed, placement
<1>3. CASE MapXcd(b)
  <2>1. my_role[b] = "worker" /\ pc[b] = "map" /\ b \in Workers
    BY <1>3, AtWork DEF MapXcd, Workers
  <2>2. /\ \A c \in Block \ {b} : pc'[c] = pc[c]
        /\ pc'[b] = "ready" /\ Workers' = Workers /\ Schedulers' = Schedulers
        /\ UNCHANGED << my_role, my_id, my_workers, worker_xcd_ready_count >>
        /\ \A w \in WorkerId : worker_xcd_map'[w] = IF w = my_id[b] THEN hw_xcd[b] ELSE worker_xcd_map[w]
    BY <1>0, <1>3, <2>1 DEF MapXcd, LaunchInv, Typed, Workers, Schedulers
  <2>3. ~(worker_xcd_ready_count >= NumWorkers)
    BY <1>0, <2>1, AllThere DEF Passed
  <2>4. \A s \in Schedulers' : ~Passed(s)'
    BY <1>0, <2>1, <2>2, <2>3 DEF CollectedOK, Passed, Schedulers
  <2>5. ASSUME NEW c \in Workers', pc'[c] # "map", my_id'[c] \in WorkerId
        PROVE  worker_xcd_map'[my_id'[c]] = hw_xcd'[c]
    <3>1. CASE c = b
      BY <3>1, <2>2, <2>5, <1>0
    <3>2. CASE c # b
      <4>1. c \in Workers /\ c \in Block /\ pc[c] # "map" /\ my_id[c] \in WorkerId
        BY <3>2, <2>2, <2>5 DEF Workers
      <4>2. my_id[c] # my_id[b]
        BY <4>1, <3>2, <2>1, <1>0, IdsDiffer
      <4> QED BY <4>1, <4>2, <2>2, <1>0 DEF CollectedOK
    <3> QED BY <3>1, <3>2
  <2> QED BY <2>4, <2>5 DEF CollectedOK
<1>4. CASE ReportReady(b)
  <2>1. my_role[b] = "worker" /\ pc[b] = "ready"
    BY <1>4, AtWork DEF ReportReady
  <2>2. /\ \A c \in Block \ {b} : pc'[c] = pc[c]
        /\ pc'[b] = "run" /\ worker_xcd_ready_count' = worker_xcd_ready_count + 1
        /\ UNCHANGED << my_role, my_id, my_workers, worker_xcd_map >>
        /\ worker_xcd_ready_count \in Nat
    BY <1>0, <1>4, <2>1 DEF ReportReady, LaunchInv, Typed
  <2>3. Workers' = Workers /\ Schedulers' = Schedulers /\ \A s \in Schedulers : s # b /\ s \in Block
    BY <2>1, <2>2 DEF Workers, Schedulers
  <2>4. \A s \in Schedulers' : Passed(s)' =>
           /\ worker_xcd_ready_count' >= NumWorkers
           /\ my_workers'[s] = {w \in WorkerId : worker_xcd_map'[w] = hw_xcd'[s]}
    <3> SUFFICES ASSUME NEW s \in Schedulers, Passed(s)
                 PROVE  /\ worker_xcd_ready_count + 1 >= NumWorkers
                        /\ my_workers[s] = {w \in WorkerId : worker_xcd_map[w] = hw_xcd[s]}
      BY <2>2, <2>3, <1>0 DEF Passed
    <3>1. worker_xcd_ready_count >= NumWorkers
          /\ my_workers[s] = {w \in WorkerId : worker_xcd_map[w] = hw_xcd[s]}
      BY <1>0 DEF CollectedOK
    <3> QED BY <3>1, <2>2, LaunchAssumption
  <2>5. \A c \in Workers' : pc'[c] # "map" /\ my_id'[c] \in WorkerId =>
           worker_xcd_map'[my_id'[c]] = hw_xcd'[c]
    <3>1. \A c \in Workers : c \in Block /\ (pc'[c] # "map" => pc[c] # "map")
      BY <2>1, <2>2 DEF Workers
    <3> QED BY <3>1, <2>2, <2>3, <1>0 DEF CollectedOK
  <2> QED BY <2>4, <2>5 DEF CollectedOK
<1>5. CASE CollectWorkers(b)
  <2>1. my_role[b] = "scheduler" /\ pc[b] = "boot" /\ b \in Schedulers /\ worker_xcd_ready_count >= NumWorkers
    BY <1>5, AtWork DEF CollectWorkers, Schedulers, AllReady
  <2>2. /\ \A c \in Block \ {b} : pc'[c] = pc[c] /\ my_workers'[c] = my_workers[c]
        /\ my_workers'[b] = {w \in WorkerId : worker_xcd_map[w] = hw_xcd[b]}
        /\ pc'[b] = "run"
        /\ UNCHANGED << my_role, my_id, placement >>
    BY <1>0, <1>5, <2>1 DEF CollectWorkers, LaunchInv, Typed
  <2>3. \A s \in Schedulers' : Passed(s)' =>
           /\ worker_xcd_ready_count' >= NumWorkers
           /\ my_workers'[s] = {w \in WorkerId : worker_xcd_map'[w] = hw_xcd'[s]}
    <3> TAKE s \in Schedulers'
    <3>1. s \in Schedulers /\ s \in Block /\ worker_xcd_map' = worker_xcd_map
          /\ worker_xcd_ready_count' = worker_xcd_ready_count
      BY <2>2 DEF Schedulers, placement
    <3>2. CASE s = b
      BY <3>1, <3>2, <2>1, <2>2, <1>0
    <3>3. CASE s # b
      BY <3>1, <3>3, <2>1, <2>2, <1>0 DEF CollectedOK, Passed
    <3> QED BY <3>2, <3>3
  <2>4. \A c \in Workers' : pc'[c] # "map" /\ my_id'[c] \in WorkerId =>
           worker_xcd_map'[my_id'[c]] = hw_xcd'[c]
    <3>1. \A c \in Workers' : c \in Workers /\ c \in Block /\ c # b
      BY <2>1, <2>2 DEF Workers
    <3> QED BY <3>1, <2>2, <1>0 DEF CollectedOK, placement
  <2> QED BY <2>3, <2>4 DEF CollectedOK
<1>6. CASE SchedulerReturns(b) \/ WorkerReturns(b)
  <2>1. /\ \A c \in Block \ {b} : pc'[c] = pc[c]
        /\ pc[b] = "run" /\ pc'[b] = "returned"
        /\ UNCHANGED << my_role, my_id, my_workers, placement >>
    BY <1>0, <1>6 DEF SchedulerReturns, WorkerReturns
  <2>2. \A c \in Block : /\ Passed(c)' => Passed(c)
                         /\ pc'[c] # "map" => pc[c] # "map"
    BY <2>1 DEF Passed
  <2>3. Workers' = Workers /\ Schedulers' = Schedulers /\ Workers \subseteq Block /\ Schedulers \subseteq Block
    BY <2>1 DEF Workers, Schedulers
  <2> QED BY <2>1, <2>2, <2>3, <1>0 DEF CollectedOK, placement
<1>7. CASE Poll(b)
  BY <1>0, <1>7
     DEF CollectedOK, Poll, vars, host, blockVars, placement, Workers, Schedulers,
         Passed
<1> QED BY <1>1, <1>2, <1>3, <1>4, <1>5, <1>6, <1>7 DEF BlockStep

\* In a new launch no scheduler has collected anything.
LEMMA CollectLaunch == ASSUME LaunchInv, Launch PROVE CollectedOK'
<1>1. \A b \in Block : /\ pc'[b] = EntryPoint(b) /\ my_role'[b] = EntryRole(b)
                       /\ pc'[b] \notin {"run", "returned"}
                       /\ my_role'[b] = "worker" => pc'[b] = "map"
  BY DEF Launch, EntryPoint, EntryRole
<1> QED BY <1>1 DEF CollectedOK, Workers, Schedulers, Passed

\* Every step keeps the invariant.
LEMMA LaunchNext ==
    LaunchInv /\ [Next]_(vars) => LaunchInv'
<1> SUFFICES ASSUME LaunchInv, [Next]_(vars) PROVE LaunchInv'
  OBVIOUS
<1>1. CASE UNCHANGED vars
  BY <1>1
     DEF vars, host, blockVars, election, placement, LaunchInv, Typed, RolesOK,
         Elected,
       Reported, Workers, Schedulers, Passed, EntryRole, EntryId
<1>2. ASSUME NEW b \in Block, BlockStep(b) PROVE LaunchInv'
  <2>1. CASE Poll(b)
    BY <2>1, <1>1 DEF Poll
  <2> QED BY <1>2, <2>1, ClaimStep, NumberStep, MapStep, ReportStep, CollectStep,
             ReturnStep DEF BlockStep
<1> QED BY <1>1, <1>2, LaunchStep DEF Next, Finished

\* Every step keeps what the schedulers have collected.
LEMMA CollectNext ==
    ASSUME EveryXcdServed
    PROVE  LaunchInv /\ LaunchInv' /\ CollectedOK /\ [Next]_(vars) => CollectedOK'
<1> SUFFICES ASSUME LaunchInv, LaunchInv', CollectedOK, [Next]_(vars) PROVE CollectedOK'
  OBVIOUS
<1>1. CASE UNCHANGED vars
  BY <1>1
     DEF vars, host, blockVars, placement, CollectedOK, Workers, Schedulers, Passed
<1> QED BY <1>1, CollectKept, CollectLaunch DEF Next, Finished

\* launch_persistent_kernel: types; the counters stay below the number of blocks,
\* and nothing is said here of where the hardware puts them.
THEOREM LaunchTypeCorrect ==
    Spec => []TypeOK
<1>1. ASSUME LaunchInv PROVE TypeOK
  <2>1. dynamic_worker_id_counter \in 0 .. NumWorkers + NumXcds
    <3>1. dynamic_worker_id_counter = 0 \/ dynamic_worker_id_counter = Cardinality(Workers)
      BY <1>1 DEF LaunchInv, RolesOK, Elected
    <3> QED BY <3>1, SetFacts, LaunchAssumption
  <2>2. worker_xcd_ready_count \in 0 .. NumWorkers + NumXcds
    <3>1. worker_xcd_ready_count = 0 \/ worker_xcd_ready_count = Cardinality(Reported)
      BY <1>1 DEF LaunchInv, RolesOK
    <3> QED BY <3>1, SetFacts, LaunchAssumption
  <2> QED BY <1>1, <2>1, <2>2 DEF LaunchInv, Typed, TypeOK
<1> QED BY <1>1, LaunchInit, LaunchNext, PTL DEF Spec

\* The two invariants hold in every reachable state, when every XCD is served.
LEMMA LaunchInvHolds ==
    ASSUME EveryXcdServed
    PROVE  Spec => [](LaunchInv /\ CollectedOK)
<1>1. Init => LaunchInv /\ CollectedOK
  BY LaunchInit DEF Init, CollectedOK
<1>2. LaunchInv /\ CollectedOK /\ [Next]_(vars) => (LaunchInv /\ CollectedOK)'
  BY LaunchNext, CollectNext
<1> QED BY <1>1, <1>2, PTL DEF Spec

\* persistent_kernel's election: no two workers and no two schedulers have the same
\* number, the workers' numbers are below NumWorkers, and every XCD has one scheduler
\* with its number, whatever the order in which the blocks arrive, in every launch.
THEOREM RolesGivenOnce == ASSUME EveryXcdServed PROVE Spec => []RolesAndNumbers
<1>1. ASSUME LaunchInv PROVE RolesAndNumbers
  <2>1. NumbersDiffer
    <3>1. \A b, c \in Block : b # c /\ my_role[b] = my_role[c] /\ my_role[b] # "none"
                                => my_id[b] # my_id[c]
      <4>1. \A b \in Block : my_role[b] # "none" => b \in Workers \/ b \in Schedulers
        BY <1>1 DEF LaunchInv, Typed, Workers, Schedulers
      <4> QED BY <4>1, <1>1, IdsDiffer DEF Workers, Schedulers
    <3> QED BY <3>1, <1>1, EnoughWorkers DEF NumbersDiffer
  <2>2. OneSchedulerPerXcd
    <3> SUFFICES ASSUME \A b \in Block : my_role[b] # "none" /\ pc[b] # "claim", NEW x \in Xcd
                 PROVE  \E b \in Schedulers : /\ my_id[b] = x /\ hw_xcd[b] = x
                                              /\ \A c \in Schedulers \ {b} : hw_xcd[c] # x
      BY DEF OneSchedulerPerXcd
    <3>1. \A b, c \in Schedulers : hw_xcd[b] = hw_xcd[c] => b = c
      BY <1>1, EnoughWorkers, IdsDiffer
    <3>2. \E b \in Schedulers : hw_xcd[b] = x
      <4>1. CASE split_worker_scheduler
        <5>1. NumWorkers + x \in Block /\ ~(NumWorkers + x < NumWorkers)
          BY LaunchAssumption DEF Block, Xcd
        <5>2. NumWorkers + x \in Schedulers
          BY <1>1, <4>1, <5>1, RolesKnown DEF EntryRole, IsWorkerBlock, Schedulers
        <5>3. hw_xcd \in Placements[TRUE]
          BY <1>1, <4>1 DEF LaunchInv, Typed
        <5> QED BY <5>2, <5>3 DEF EveryXcdServed
      <4>2. CASE ~split_worker_scheduler
        <5>1. Elected /\ hw_xcd \in Placements[FALSE]
          <6>1. 0 \in Block
            BY LaunchAssumption DEF Block
          <6> QED BY <1>1, <4>2, <6>1, RolesKnown DEF LaunchInv, Typed
        <5>2. PICK b \in Block : hw_xcd[b] = x
          BY <5>1 DEF EveryXcdServed
        <5> QED BY <5>1, <5>2 DEF Elected
      <4> QED BY <4>1, <4>2
    <3>3. PICK b \in Schedulers : hw_xcd[b] = x
      BY <3>2
    <3> QED BY <3>1, <3>3, <1>1, EnoughWorkers
  <2> QED BY <2>1, <2>2 DEF RolesAndNumbers
<1> QED BY <1>1, LaunchInvHolds, PTL

\* The boot handshake: a scheduler that goes on behind worker_xcd_ready_count has
\* found exactly the workers on its XCD, in every launch.
THEOREM BootFindsWorkers == ASSUME EveryXcdServed PROVE Spec => []WorkersFound
<1>1. ASSUME LaunchInv, CollectedOK PROVE WorkersFound
  <2> SUFFICES ASSUME NEW s \in Schedulers, pc[s] \in {"run", "returned"}, launches > 0
               PROVE  my_workers[s] = {my_id[b] : b \in {c \in Workers : hw_xcd[c] = my_id[s]}}
    BY DEF WorkersFound
  <2>1. launches # 0
    BY <1>1, LaunchAssumption DEF LaunchInv, Typed
  <2>2. /\ worker_xcd_ready_count >= NumWorkers
        /\ my_workers[s] = {w \in WorkerId : worker_xcd_map[w] = hw_xcd[s]}
    BY <1>1 DEF CollectedOK, Passed
  <2>3. hw_xcd[s] = my_id[s]
    BY <1>1, <2>1, EnoughWorkers
  <2>4. \A c \in Workers : my_id[c] \in WorkerId /\ worker_xcd_map[my_id[c]] = hw_xcd[c]
    <3>1. \A c \in Workers : my_id[c] \in WorkerId /\ pc[c] # "map"
      BY <1>1, <2>1, <2>2, EnoughWorkers, AllThere DEF Passed
    <3> QED BY <3>1, <1>1 DEF CollectedOK
  <2>5. \A w \in WorkerId : \E c \in Workers : my_id[c] = w
    BY <1>1, <2>1, <2>2, AllThere
  <2>6. \A w : w \in my_workers[s] <=> \E c \in Workers : my_id[c] = w /\ hw_xcd[c] = my_id[s]
    BY <2>2, <2>3, <2>4, <2>5
  <2> QED BY <2>6
<1> QED BY <1>1, LaunchInvHolds, PTL

-----------------------------------------------------------------------------
(* Integer division.                                                       *)

\* Quotient and remainder make up the number.
LEMMA Euclid ==
    ASSUME NEW a \in Int, NEW d \in Nat \ {0}
    PROVE  /\ a \div d \in Int
           /\ a % d \in 0 .. d - 1
           /\ a = (a \div d) * d + (a % d)
BY SMT

\* Multiples of d lie at least d apart.
LEMMA Mult ==
    ASSUME NEW d \in Nat \ {0}, NEW x \in Int, NEW y \in Int, x < y
    PROVE  x * d + d <= y * d
<1>1. y - x - 1 \in Nat  BY SMT
<1>2. (y - x - 1) * d >= 0  BY <1>1, SMT
<1>3. (y - x - 1) * d = y * d - x * d - d  BY SMT
<1> QED  BY <1>2, <1>3, SMT

\* A larger factor gives a multiple that is no smaller.
LEMMA Monotone ==
    ASSUME NEW d \in Nat \ {0}, NEW x \in Int, NEW y \in Int, x <= y
    PROVE  x * d <= y * d /\ x * d \in Int /\ y * d \in Int
<1>1. x * d \in Int /\ y * d \in Int  BY SMT
<1>2. CASE x = y  BY <1>1, <1>2, SMT
<1>3. CASE x < y  BY <1>1, <1>3, Mult, SMT
<1> QED  BY <1>2, <1>3, SMT

\* A number has one quotient and one remainder.
LEMMA Unique ==
    ASSUME NEW d \in Nat \ {0}, NEW q \in Int, NEW p \in Int,
           NEW r \in 0 .. d - 1, NEW s \in 0 .. d - 1, q * d + r = p * d + s
    PROVE  q = p /\ r = s
<1>1. ~ (q < p)  BY Mult, SMT
<1>2. ~ (p < q)  BY Mult, SMT
<1> QED  BY <1>1, <1>2, SMT

\* So q * d + r is taken apart into q and r.
LEMMA DivMod ==
    ASSUME NEW d \in Nat \ {0}, NEW q \in Int, NEW r \in 0 .. d - 1
    PROVE  (q * d + r) \div d = q /\ (q * d + r) % d = r
<1> DEFINE a == q * d + r
<1>1. a \in Int  BY SMT
<1> QED  BY <1>1, Euclid, Unique

\* A number below k * d is one of d in one of k shares.
LEMMA Share ==
    ASSUME NEW d \in Nat \ {0}, NEW k \in Nat \ {0}, NEW n \in 0 .. k * d - 1
    PROVE  /\ n \div d \in 0 .. k - 1 /\ n % d \in 0 .. d - 1
           /\ n = (n \div d) * d + (n % d)
<1> DEFINE q == n \div d
           r == n % d
<1>1. n \in Int /\ n >= 0 /\ n < k * d  BY Monotone
<1>2. q \in Int /\ r \in 0 .. d - 1 /\ n = q * d + r  BY <1>1, Euclid
<1> HIDE DEF q, r
<1>3. ~ (q < 0)
  <2>1. q < 0 => q * d + d <= 0 * d  BY <1>2, Mult
  <2> QED  BY <1>1, <1>2, <2>1, SMT
<1>4. ~ (k <= q)
  <2>1. k <= q => k * d <= q * d  BY <1>2, Monotone
  <2>2. q * d \in Int /\ k * d \in Int  BY <1>2, Monotone
  <2> QED  BY <1>1, <1>2, <2>1, <2>2, SMT
<1>5. q \in 0 .. k - 1  BY <1>2, <1>3, <1>4, SMT
<1> QED  BY <1>2, <1>5 DEF q, r

-----------------------------------------------------------------------------
(* The windowed traversal.                                                 *)

\* The height of the windows that precede the last.
Height(fast, wg) == IF wg > 0 /\ wg < fast THEN wg ELSE fast

\* The tile number of a tile of the windowed traversal.
TileNumber(fast, slow, wg, i, j) ==
    LET W == Height(fast, wg)
        first == (i \div W) * W
    IN  first * slow + j * WindowHeight(fast - first, W) + (i - first)

\* Every tile number is decoded into one tile of the output, whose number it is.
LEMMA WindowedDecodes ==
    ASSUME NEW fast \in Nat \ {0}, NEW slow \in Nat \ {0}, NEW wg \in Int
    PROVE  \A t \in 0 .. fast * slow - 1 :
             \E i \in 0 .. fast - 1, j \in 0 .. slow - 1 :
               /\ Windowed(fast, slow, wg, t) = {<< i, j >>}
               /\ t = TileNumber(fast, slow, wg, i, j)
<1> TAKE t \in 0 .. fast * slow - 1
<1> DEFINE W == Height(fast, wg)
           D == W * slow
           g == t \div D
           first == g * W
           h == WindowHeight(fast - first, W)
           local == t % D
           i == first + (local % h)
           j == local \div h
<1>1. W \in Nat \ {0} /\ W <= fast  BY SMT DEF Height
<1>2. D \in Nat \ {0} /\ t \in Nat  BY <1>1, SMT
<1> HIDE DEF W, D
<1>3. g \in Int /\ local \in 0 .. D - 1 /\ t = g * D + local  BY <1>2, Euclid, SMT
<1>4. g >= 0
  <2>1. SUFFICES ASSUME g < 0 PROVE FALSE  BY <1>3
  <2>2. g * D + D <= 0 * D  BY <2>1, <1>2, <1>3, Mult
  <2> QED  BY <2>2, <1>2, <1>3, SMT
<1> HIDE DEF g, local
<1>5. first \in Nat /\ g * D = first * slow
  <2>1. g * (W * slow) = (g * W) * slow  BY <1>1, <1>3, <1>4, SMT
  <2> QED  BY <2>1, <1>1, <1>3, <1>4, SMT DEF D
<1>6. first < fast
  <2>1. SUFFICES ASSUME fast <= first PROVE FALSE  BY <1>5, SMT
  <2>2. fast * slow <= first * slow  BY <2>1, <1>5, Monotone
  <2> QED  BY <2>2, <1>2, <1>3, <1>5, SMT
<1>7. h \in 1 .. W /\ h <= fast - first /\ (h = W \/ h = fast - first)
  BY <1>1, <1>5, <1>6, SMT DEF WindowHeight
<1>8. local < h * slow
  <2>1. CASE h = W
    <3>1. local < D  BY <1>2, <1>3, SMT
    <3> QED  BY <2>1, <3>1 DEF D
  <2>2. CASE h = fast - first
    <3>1. (fast - first) * slow = fast * slow - first * slow  BY <1>5, SMT
    <3> QED  BY <2>2, <3>1, <1>3, <1>5, <1>2, SMT
  <2> QED  BY <2>1, <2>2, <1>7
<1> HIDE DEF h
<1>9. j \in Int /\ local % h \in 0 .. h - 1 /\ local = j * h + (local % h)
  BY <1>3, <1>7, Euclid, SMT
<1> HIDE DEF j
<1>10. j \in 0 .. slow - 1
  <2>1. ~ (j < 0)
    <3>1. SUFFICES ASSUME j < 0 PROVE FALSE  OBVIOUS
    <3>2. j * h + h <= 0 * h  BY <3>1, <1>7, <1>9, Mult
    <3> QED  BY <3>2, <1>3, <1>7, <1>9, SMT
  <2>2. ~ (slow <= j)
    <3>1. SUFFICES ASSUME slow <= j PROVE FALSE  OBVIOUS
    <3>0. h \in Nat \ {0} /\ slow \in Int /\ j \in Int  BY <1>1, <1>7, <1>9
    <3>2. slow * h <= j * h  BY <3>0, <3>1, Monotone
    <3> QED  BY <3>2, <1>8, <1>7, <1>9, SMT
  <2> QED  BY <2>1, <2>2, <1>9, SMT
<1>11. i \in 0 .. fast - 1  BY <1>5, <1>7, <1>9, SMT
<1>12. Windowed(fast, slow, wg, t) = {<< i, j >>}
  BY <1>8 DEF Windowed, W, Height, D, g, local, h, j
<1>13. i \div W = g
  <2>1. local % h \in 0 .. W - 1  BY <1>1, <1>7, <1>9, SMT
  <2> QED  BY <2>1, <1>1, <1>3, DivMod
<1>14. t = TileNumber(fast, slow, wg, i, j)
  <2>1. TileNumber(fast, slow, wg, i, j) = first * slow + j * h + (i - first)
    BY <1>13 DEF TileNumber, W, h
  <2>2. i - first = local % h  BY <1>5, <1>7, <1>9, SMT
  <2>3. t = first * slow + local  BY <1>3, <1>5
  <2>4. j * h \in Int /\ first * slow \in Int  BY <1>5, <1>7, <1>9, SMT
  <2> QED  BY <2>1, <2>2, <2>3, <2>4, <1>9, SMT
<1> HIDE DEF i
<1> QED  BY <1>10, <1>11, <1>12, <1>14

\* The number of every tile of the output is in range, and is decoded into it.
LEMMA WindowedEncodes ==
    ASSUME NEW fast \in Nat \ {0}, NEW slow \in Nat \ {0}, NEW wg \in Int
    PROVE  \A i \in 0 .. fast - 1, j \in 0 .. slow - 1 :
             /\ TileNumber(fast, slow, wg, i, j) \in 0 .. fast * slow - 1
             /\ Windowed(fast, slow, wg, TileNumber(fast, slow, wg, i, j)) = {<< i, j >>}
<1> TAKE i \in 0 .. fast - 1, j \in 0 .. slow - 1
<1> DEFINE W == Height(fast, wg)
           D == W * slow
           g == i \div W
           first == g * W
           h == WindowHeight(fast - first, W)
           r == i % W
           local == j * h + r
           t == TileNumber(fast, slow, wg, i, j)
<1>1. W \in Nat \ {0} /\ W <= fast  BY SMT DEF Height
<1>2. D \in Nat \ {0}  BY <1>1, SMT
<1> HIDE DEF W, D
<1>3. g \in Int /\ r \in 0 .. W - 1 /\ i = first + r  BY <1>1, Euclid, SMT
<1> HIDE DEF g, r
<1>4. g >= 0
  <2>1. SUFFICES ASSUME g < 0 PROVE FALSE  BY <1>3
  <2>2. g * W + W <= 0 * W  BY <2>1, <1>1, <1>3, Mult
  <2> QED  BY <2>2, <1>1, <1>3, SMT
<1>5. first \in Nat /\ first <= i /\ g * D = first * slow
  <2>1. g * (W * slow) = (g * W) * slow  BY <1>1, <1>3, <1>4, SMT
  <2> QED  BY <2>1, <1>1, <1>3, <1>4, SMT DEF D
<1>7. h \in 1 .. W /\ h <= fast - first /\ (h = W \/ h = fast - first) /\ r < h
  BY <1>1, <1>3, <1>5, SMT DEF WindowHeight
<1> HIDE DEF h
<1>8. local \in Nat /\ local < h * slow
  <2>1. j * h + h <= slow * h  BY <1>7, Mult
  <2>2. j * h \in Nat /\ slow * h = h * slow  BY <1>7, SMT
  <2> QED  BY <2>1, <2>2, <1>3, <1>7, SMT
<1>9. local \in 0 .. D - 1
  <2>1. h * slow <= W * slow  BY <1>1, <1>7, SMT
  <2> QED  BY <2>1, <1>8, <1>1, <1>7, SMT DEF D
<1>10. t = g * D + local
  <2>1. t = first * slow + j * h + (i - first)  BY DEF TileNumber, W, g, h
  <2>2. j * h \in Int /\ first * slow \in Int  BY <1>5, <1>7, SMT
  <2> QED  BY <2>1, <2>2, <1>3, <1>5, SMT
<1>11. t \div D = g /\ t % D = local
  <2>1. (g * D + local) \div D = g /\ (g * D + local) % D = local
    BY <1>2, <1>3, <1>9, DivMod
  <2> QED  BY <2>1, <1>10
<1>12. local % h = r /\ local \div h = j
  <2>1. h \in Nat \ {0} /\ r \in 0 .. h - 1  BY <1>1, <1>3, <1>7, SMT
  <2> QED  BY <2>1, DivMod
<1>13. t \in 0 .. fast * slow - 1
  <2>1. first * slow + h * slow = (first + h) * slow  BY <1>5, <1>7, SMT
  <2>2. (first + h) * slow <= fast * slow  BY <1>5, <1>7, SMT
  <2>3. t = first * slow + local /\ first * slow \in Nat /\ h * slow \in Nat
    BY <1>5, <1>7, <1>10, SMT
  <2> QED  BY <2>1, <2>2, <2>3, <1>5, <1>7, <1>8, SMT
<1> HIDE DEF t, local
<1>14. Windowed(fast, slow, wg, t) = {<< first + (local % h), local \div h >>}
  BY <1>8, <1>11 DEF Windowed, W, Height, D, h
<1>15. Windowed(fast, slow, wg, t) = {<< i, j >>}  BY <1>3, <1>12, <1>14
<1> QED  BY <1>13, <1>15 DEF t

\* gang_linear_kernel and the other windowed kernels: the tile numbers from 0 to
\* fast * slow - 1 are the tiles of the output, each computed by one number and
\* none twice, for every window, also one that does not divide the tiles.
THEOREM WindowedOnce ==
    ASSUME NEW fast \in Nat \ {0}, NEW slow \in Nat \ {0}, NEW wg \in Int
    PROVE  /\ \A t \in 0 .. fast * slow - 1 : \A tile \in Windowed(fast, slow, wg, t) :
                \E i \in 0 .. fast - 1, j \in 0 .. slow - 1 : tile = << i, j >>
           /\ \A i \in 0 .. fast - 1, j \in 0 .. slow - 1 :
                \E t \in 0 .. fast * slow - 1 : \A u \in 0 .. fast * slow - 1 :
                  << i, j >> \in Windowed(fast, slow, wg, u) <=> u = t
<1>1. \A t \in 0 .. fast * slow - 1 : \E i \in 0 .. fast - 1, j \in 0 .. slow - 1 :
        /\ Windowed(fast, slow, wg, t) = {<< i, j >>}
        /\ t = TileNumber(fast, slow, wg, i, j)
  BY WindowedDecodes, Zenon
<1>2. \A i \in 0 .. fast - 1, j \in 0 .. slow - 1 :
        /\ TileNumber(fast, slow, wg, i, j) \in 0 .. fast * slow - 1
        /\ Windowed(fast, slow, wg, TileNumber(fast, slow, wg, i, j)) = {<< i, j >>}
  BY WindowedEncodes, Zenon
<1>3. ASSUME NEW i \in 0 .. fast - 1, NEW j \in 0 .. slow - 1
      PROVE  \E t \in 0 .. fast * slow - 1 : \A u \in 0 .. fast * slow - 1 :
               << i, j >> \in Windowed(fast, slow, wg, u) <=> u = t
  <2>1. ASSUME NEW u \in 0 .. fast * slow - 1, << i, j >> \in Windowed(fast, slow, wg, u)
        PROVE  u = TileNumber(fast, slow, wg, i, j)
    <3>1. PICK k \in 0 .. fast - 1, l \in 0 .. slow - 1 :
            /\ Windowed(fast, slow, wg, u) = {<< k, l >>}
            /\ u = TileNumber(fast, slow, wg, k, l)
      BY <1>1, Zenon
    <3>2. << i, j >> = << k, l >>  BY <2>1, <3>1, Zenon
    <3>3. i = k /\ j = l  BY <3>2, SMT
    <3> QED  BY <3>1, <3>3, Zenon
  <2>2. << i, j >> \in Windowed(fast, slow, wg, TileNumber(fast, slow, wg, i, j))
    BY <1>2, Zenon
  <2> QED  BY <1>2, <2>1, <2>2, Zenon
<1>4. ASSUME NEW t \in 0 .. fast * slow - 1, NEW tile \in Windowed(fast, slow, wg, t)
      PROVE  \E i \in 0 .. fast - 1, j \in 0 .. slow - 1 : tile = << i, j >>
  BY <1>1, Zenon
<1> QED  BY <1>3, <1>4, Zenon

\* A gang's share of an XCD: gang_linear_kernel on all XCDs together computes
\* every tile of the output, each by one XCD and one tile number of its own.
THEOREM MTilingOnce ==
    ASSUME NEW m_tiles \in Nat \ {0}, NEW n_tiles \in Nat \ {0},
           NEW num_xcds \in Nat \ {0}, NEW wgm \in Int
    PROVE  \A m \in 0 .. m_tiles - 1, n \in 0 .. num_xcds * n_tiles - 1 :
             \E b \in 0 .. num_xcds - 1, t \in 0 .. m_tiles * n_tiles - 1 :
               \A c \in 0 .. num_xcds - 1, u \in 0 .. m_tiles * n_tiles - 1 :
                 << m, n >> \in MTiling(m_tiles, n_tiles, wgm, c, u) <=> c = b /\ u = t
<1> TAKE m \in 0 .. m_tiles - 1, n \in 0 .. num_xcds * n_tiles - 1
<1> DEFINE b == n \div n_tiles
           j == n % n_tiles
<1>1. b \in 0 .. num_xcds - 1 /\ j \in 0 .. n_tiles - 1 /\ n = b * n_tiles + j
  BY Share
<1> HIDE DEF b, j
<1>2. PICK t \in 0 .. m_tiles * n_tiles - 1 : \A u \in 0 .. m_tiles * n_tiles - 1 :
        << m, j >> \in Windowed(m_tiles, n_tiles, wgm, u) <=> u = t
  BY <1>1, WindowedOnce, Zenon
<1>3. \A u \in 0 .. m_tiles * n_tiles - 1 : \A tile \in Windowed(m_tiles, n_tiles, wgm, u) :
        \E k \in 0 .. m_tiles - 1, l \in 0 .. n_tiles - 1 : tile = << k, l >>
  BY WindowedOnce, Zenon
<1>4. ASSUME NEW c \in 0 .. num_xcds - 1, NEW u \in 0 .. m_tiles * n_tiles - 1
      PROVE  << m, n >> \in MTiling(m_tiles, n_tiles, wgm, c, u) <=> c = b /\ u = t
  <2> DEFINE tiles == Windowed(m_tiles, n_tiles, wgm, u)
  <2>1. \A tile \in tiles :
          \E k \in 0 .. m_tiles - 1, l \in 0 .. n_tiles - 1 : tile = << k, l >>
    BY <1>3, Zenon
  <2>2. MTiling(m_tiles, n_tiles, wgm, c, u) =
          {<< tile[1], c * n_tiles + tile[2] >> : tile \in tiles}
    BY DEF MTiling
  <2> HIDE DEF tiles
  <2>3. << m, n >> \in MTiling(m_tiles, n_tiles, wgm, c, u) <=>
          \E l \in 0 .. n_tiles - 1 : << m, l >> \in tiles /\ n = c * n_tiles + l
    <3>1. ASSUME << m, n >> \in MTiling(m_tiles, n_tiles, wgm, c, u)
          PROVE  \E l \in 0 .. n_tiles - 1 : << m, l >> \in tiles /\ n = c * n_tiles + l
      <4>1. PICK tile \in tiles : << m, n >> = << tile[1], c * n_tiles + tile[2] >>
        BY <2>2, <3>1, Zenon
      <4>2. PICK k \in 0 .. m_tiles - 1, l \in 0 .. n_tiles - 1 : tile = << k, l >>
        BY <2>1
      <4>3. k = m /\ n = c * n_tiles + l  BY <4>1, <4>2
      <4> QED  BY <4>1, <4>2, <4>3
    <3>2. ASSUME NEW l \in 0 .. n_tiles - 1, << m, l >> \in tiles, n = c * n_tiles + l
          PROVE  << m, n >> \in MTiling(m_tiles, n_tiles, wgm, c, u)
      <4>1. << m, n >> = << << m, l >>[1], c * n_tiles + << m, l >>[2] >>  BY <3>2
      <4> QED  BY <2>2, <3>2, <4>1, Zenon
    <3> QED  BY <3>1, <3>2, Zenon
  <2>4. \A l \in 0 .. n_tiles - 1 : n = c * n_tiles + l <=> c = b /\ l = j
    BY <1>1, Unique
  <2>5. << m, j >> \in tiles <=> u = t  BY <1>2 DEF tiles
  <2> QED  BY <1>1, <2>3, <2>4, <2>5, Zenon
<1>5. b \in 0 .. num_xcds - 1  BY <1>1
<1> QED  BY <1>2, <1>4, <1>5, Zenon

\* gang_linear_n_tiling_kernel, which sweeps the columns first: likewise.
THEOREM NTilingOnce ==
    ASSUME NEW m_tiles \in Nat \ {0}, NEW n_tiles \in Nat \ {0},
           NEW num_xcds \in Nat \ {0}, NEW wgn \in Int
    PROVE  \A m \in 0 .. m_tiles - 1, n \in 0 .. num_xcds * n_tiles - 1 :
             \E b \in 0 .. num_xcds - 1, t \in 0 .. n_tiles * m_tiles - 1 :
               \A c \in 0 .. num_xcds - 1, u \in 0 .. n_tiles * m_tiles - 1 :
                 << m, n >> \in NTiling(m_tiles, n_tiles, wgn, c, u) <=> c = b /\ u = t
<1> TAKE m \in 0 .. m_tiles - 1, n \in 0 .. num_xcds * n_tiles - 1
<1> DEFINE b == n \div n_tiles
           j == n % n_tiles
<1>1. b \in 0 .. num_xcds - 1 /\ j \in 0 .. n_tiles - 1 /\ n = b * n_tiles + j
  BY Share
<1> HIDE DEF b, j
<1>2. PICK t \in 0 .. n_tiles * m_tiles - 1 : \A u \in 0 .. n_tiles * m_tiles - 1 :
        << j, m >> \in Windowed(n_tiles, m_tiles, wgn, u) <=> u = t
  BY <1>1, WindowedOnce, Zenon
<1>3. \A u \in 0 .. n_tiles * m_tiles - 1 : \A tile \in Windowed(n_tiles, m_tiles, wgn, u) :
        \E l \in 0 .. n_tiles - 1, k \in 0 .. m_tiles - 1 : tile = << l, k >>
  BY WindowedOnce, Zenon
<1>4. ASSUME NEW c \in 0 .. num_xcds - 1, NEW u \in 0 .. n_tiles * m_tiles - 1
      PROVE  << m, n >> \in NTiling(m_tiles, n_tiles, wgn, c, u) <=> c = b /\ u = t
  <2> DEFINE tiles == Windowed(n_tiles, m_tiles, wgn, u)
  <2>1. \A tile \in tiles :
          \E l \in 0 .. n_tiles - 1, k \in 0 .. m_tiles - 1 : tile = << l, k >>
    BY <1>3, Zenon
  <2>2. NTiling(m_tiles, n_tiles, wgn, c, u) =
          {<< tile[2], c * n_tiles + tile[1] >> : tile \in tiles}
    BY DEF NTiling
  <2> HIDE DEF tiles
  <2>3. << m, n >> \in NTiling(m_tiles, n_tiles, wgn, c, u) <=>
          \E l \in 0 .. n_tiles - 1 : << l, m >> \in tiles /\ n = c * n_tiles + l
    <3>1. ASSUME << m, n >> \in NTiling(m_tiles, n_tiles, wgn, c, u)
          PROVE  \E l \in 0 .. n_tiles - 1 : << l, m >> \in tiles /\ n = c * n_tiles + l
      <4>1. PICK tile \in tiles : << m, n >> = << tile[2], c * n_tiles + tile[1] >>
        BY <2>2, <3>1, Zenon
      <4>2. PICK l \in 0 .. n_tiles - 1, k \in 0 .. m_tiles - 1 : tile = << l, k >>
        BY <2>1
      <4>3. k = m /\ n = c * n_tiles + l  BY <4>1, <4>2
      <4> QED  BY <4>1, <4>2, <4>3
    <3>2. ASSUME NEW l \in 0 .. n_tiles - 1, << l, m >> \in tiles, n = c * n_tiles + l
          PROVE  << m, n >> \in NTiling(m_tiles, n_tiles, wgn, c, u)
      <4>1. << m, n >> = << << l, m >>[2], c * n_tiles + << l, m >>[1] >>  BY <3>2
      <4> QED  BY <2>2, <3>2, <4>1, Zenon
    <3> QED  BY <3>1, <3>2, Zenon
  <2>4. \A l \in 0 .. n_tiles - 1 : n = c * n_tiles + l <=> c = b /\ l = j
    BY <1>1, Unique
  <2>5. << j, m >> \in tiles <=> u = t  BY <1>2 DEF tiles
  <2> QED  BY <1>1, <2>3, <2>4, <2>5, Zenon
<1>5. b \in 0 .. num_xcds - 1  BY <1>1
<1> QED  BY <1>2, <1>4, <1>5, Zenon

\* The output tile that reads a tile of an XCD's weight, two gate and two up
\* tiles in turn.
OutputTile(v) == (v \div 4) * 2 + (v % 2)

\* An XCD's n_tiles output tiles, in pairs, and its twice as many weight tiles
\* fit together.
LEMMA Interleaved ==
    ASSUME NEW n_tiles \in Nat \ {0}, n_tiles % 2 = 0,
           NEW v \in 0 .. 2 * n_tiles - 1
    PROVE  /\ OutputTile(v) \in 0 .. n_tiles - 1
           /\ \A o \in 0 .. n_tiles - 1 :
                /\ GateTile(o) \in 0 .. 2 * n_tiles - 1 /\ UpTile(o) \in 0 .. 2 * n_tiles - 1
                /\ v \in {GateTile(o), UpTile(o)} <=> o = OutputTile(v)
<1>1. OutputTile(v) \in 0 .. n_tiles - 1  BY SMT DEF OutputTile
<1>2. ASSUME NEW o \in 0 .. n_tiles - 1
      PROVE  /\ GateTile(o) \in 0 .. 2 * n_tiles - 1 /\ UpTile(o) \in 0 .. 2 * n_tiles - 1
             /\ v \in {GateTile(o), UpTile(o)} <=> o = OutputTile(v)
  BY <1>2, SMT DEF GateTile, UpTile, OutputTile
<1> QED  BY <1>1, <1>2

\* gang_linear_silu_kernel: every tile of the weight is read by one XCD and one
\* tile number, so no gate or up column is left out of the fused output or goes
\* into it twice.  An XCD has an even number of output tiles, as its weight comes
\* in groups of 128 rows, two tiles, of the gate and of the up projection in turn.
THEOREM SiluWeightsOnce ==
    ASSUME NEW m_tiles \in Nat \ {0}, NEW n_tiles \in Nat \ {0}, n_tiles % 2 = 0,
           NEW num_xcds \in Nat \ {0}, NEW wgm \in Int
    PROVE  \A m \in 0 .. m_tiles - 1, n \in 0 .. num_xcds * (2 * n_tiles) - 1 :
             \E b \in 0 .. num_xcds - 1, t \in 0 .. m_tiles * n_tiles - 1 :
               \A c \in 0 .. num_xcds - 1, u \in 0 .. m_tiles * n_tiles - 1 :
                 << m, n >> \in SiluWeights(m_tiles, n_tiles, wgm, c, u) <=> c = b /\ u = t
<1> TAKE m \in 0 .. m_tiles - 1, n \in 0 .. num_xcds * (2 * n_tiles) - 1
<1> DEFINE share == 2 * n_tiles
           b == n \div share
           v == n % share
           j == OutputTile(v)
<1>0. share \in Nat \ {0} /\ \A c \in Int : 2 * c * n_tiles = c * share  BY SMT
<1>1. b \in 0 .. num_xcds - 1 /\ v \in 0 .. share - 1 /\ n = b * share + v
  BY <1>0, Share
<1>i. /\ j \in 0 .. n_tiles - 1
      /\ \A o \in 0 .. n_tiles - 1 :
           /\ GateTile(o) \in 0 .. share - 1 /\ UpTile(o) \in 0 .. share - 1
           /\ v \in {GateTile(o), UpTile(o)} <=> o = j
  <2>1. v \in 0 .. 2 * n_tiles - 1  BY <1>1
  <2> HIDE DEF v
  <2> QED  BY <2>1, Interleaved
<1> HIDE DEF b, v, j, share
<1>2. PICK t \in 0 .. m_tiles * n_tiles - 1 : \A u \in 0 .. m_tiles * n_tiles - 1 :
        << m, j >> \in Windowed(m_tiles, n_tiles, wgm, u) <=> u = t
  BY <1>i, WindowedOnce, Zenon
<1>3. \A u \in 0 .. m_tiles * n_tiles - 1 : \A tile \in Windowed(m_tiles, n_tiles, wgm, u) :
        \E k \in 0 .. m_tiles - 1, l \in 0 .. n_tiles - 1 : tile = << k, l >>
  BY WindowedOnce, Zenon
<1>4. ASSUME NEW c \in 0 .. num_xcds - 1, NEW u \in 0 .. m_tiles * n_tiles - 1
      PROVE  << m, n >> \in SiluWeights(m_tiles, n_tiles, wgm, c, u) <=> c = b /\ u = t
  <2> DEFINE tiles == Windowed(m_tiles, n_tiles, wgm, u)
             Reads(tile) == {<< tile[1], 2 * c * n_tiles + GateTile(tile[2]) >>,
                             << tile[1], 2 * c * n_tiles + UpTile(tile[2]) >>}
  <2>1. \A tile \in tiles :
          \E k \in 0 .. m_tiles - 1, l \in 0 .. n_tiles - 1 : tile = << k, l >>
    BY <1>3, Zenon
  <2>2. SiluWeights(m_tiles, n_tiles, wgm, c, u) = UNION {Reads(tile) : tile \in tiles}
    BY DEF SiluWeights
  <2> HIDE DEF tiles
  <2>3. \A l \in 0 .. n_tiles - 1 : << m, n >> \in Reads(<< m, l >>) <=> c = b /\ l = j
    <3> TAKE l \in 0 .. n_tiles - 1
    <3>1. 2 * c * n_tiles = c * share  BY <1>0
    <3>2. << m, n >> \in Reads(<< m, l >>) <=>
            n = c * share + GateTile(l) \/ n = c * share + UpTile(l)
      BY <3>1
    <3> DEFINE gate == GateTile(l)
               up == UpTile(l)
    <3>r. gate \in 0 .. share - 1 /\ up \in 0 .. share - 1  BY <1>i
    <3> HIDE DEF gate, up
    <3>3. n = c * share + gate <=> c = b /\ v = gate  BY <1>0, <1>1, <3>r, Unique
    <3>4. n = c * share + up <=> c = b /\ v = up  BY <1>0, <1>1, <3>r, Unique
    <3>5. v = GateTile(l) \/ v = UpTile(l) <=> l = j  BY <1>i
    <3> HIDE DEF Reads
    <3> QED  BY <3>2, <3>3, <3>4, <3>5, Zenon DEF gate, up
  <2>4. \A k \in 0 .. m_tiles - 1, l \in 0 .. n_tiles - 1 :
          << m, n >> \in Reads(<< k, l >>) => k = m
    OBVIOUS
  <2> HIDE DEF Reads
  <2>5. << m, n >> \in SiluWeights(m_tiles, n_tiles, wgm, c, u) <=>
          \E l \in 0 .. n_tiles - 1 : << m, l >> \in tiles /\ << m, n >> \in Reads(<< m, l >>)
    <3>1. ASSUME << m, n >> \in SiluWeights(m_tiles, n_tiles, wgm, c, u)
          PROVE  \E l \in 0 .. n_tiles - 1 :
                   << m, l >> \in tiles /\ << m, n >> \in Reads(<< m, l >>)
      <4>1. PICK tile \in tiles : << m, n >> \in Reads(tile)  BY <2>2, <3>1, Zenon
      <4>2. PICK k \in 0 .. m_tiles - 1, l \in 0 .. n_tiles - 1 : tile = << k, l >>
        BY <2>1, Zenon
      <4>3. k = m  BY <2>4, <4>1, <4>2, Zenon
      <4> QED  BY <4>1, <4>2, <4>3, Zenon
    <3>2. ASSUME NEW l \in 0 .. n_tiles - 1, << m, l >> \in tiles,
                 << m, n >> \in Reads(<< m, l >>)
          PROVE  << m, n >> \in SiluWeights(m_tiles, n_tiles, wgm, c, u)
      BY <2>2, <3>2, Zenon
    <3> QED  BY <3>1, <3>2, Zenon
  <2>6. << m, j >> \in tiles <=> u = t  BY <1>2 DEF tiles
  <2> QED  BY <1>i, <2>3, <2>5, <2>6, Zenon
<1>5. b \in 0 .. num_xcds - 1  BY <1>1
<1> QED  BY <1>2, <1>4, <1>5, Zenon

\* gang_linear_msplit_kernel: XCD b takes rows b \div n_groups and the columns of
\* group b % n_groups; on m_tiles * n_groups XCDs every tile is computed once.
THEOREM MSplitOnce ==
    ASSUME NEW m_tiles \in Nat \ {0}, NEW n_groups \in Nat \ {0}, NEW n_tiles \in Nat \ {0}
    PROVE  \A m \in 0 .. m_tiles - 1, n \in 0 .. n_groups * n_tiles - 1 :
             \E b \in 0 .. m_tiles * n_groups - 1, t \in 0 .. n_tiles - 1 :
               \A c \in 0 .. m_tiles * n_groups - 1, u \in 0 .. n_tiles - 1 :
                 << m, n >> \in MSplit(n_groups, n_tiles, c, u) <=> c = b /\ u = t
<1> TAKE m \in 0 .. m_tiles - 1, n \in 0 .. n_groups * n_tiles - 1
<1> DEFINE g == n \div n_tiles
           t == n % n_tiles
           b == m * n_groups + g
<1>1. g \in 0 .. n_groups - 1 /\ t \in 0 .. n_tiles - 1 /\ n = g * n_tiles + t
  BY Share
<1>2. b \in 0 .. m_tiles * n_groups - 1
  <2>1. m * n_groups + n_groups <= m_tiles * n_groups  BY Mult
  <2>2. m * n_groups \in Nat /\ m_tiles * n_groups \in Nat  BY SMT
  <2> HIDE DEF g
  <2> QED  BY <1>1, <2>1, <2>2, SMT
<1> HIDE DEF g, t
<1>3. ASSUME NEW c \in 0 .. m_tiles * n_groups - 1, NEW u \in 0 .. n_tiles - 1
      PROVE  << m, n >> \in MSplit(n_groups, n_tiles, c, u) <=> c = b /\ u = t
  <2> DEFINE row == c \div n_groups
             group == c % n_groups
  <2>1. /\ row \in 0 .. m_tiles - 1 /\ group \in 0 .. n_groups - 1
        /\ c = row * n_groups + group
    BY Share
  <2>2. << m, n >> \in MSplit(n_groups, n_tiles, c, u) <=>
          m = row /\ n = group * n_tiles + u
    BY SMT DEF MSplit
  <2> HIDE DEF row, group
  <2>3. n = group * n_tiles + u <=> group = g /\ u = t  BY <1>1, <2>1, Unique
  <2>4. m = row /\ group = g <=> c = b  BY <1>1, <2>1, Unique
  <2> HIDE DEF b
  <2> QED  BY <2>2, <2>3, <2>4, Zenon
<1> QED  BY <1>1, <1>2, <1>3

\* gang_splitk_linear_res_kernel: for every column tile, every part of its sum is
\* computed by one XCD and one tile number, so nothing is added twice.
THEOREM SplitKPartOnce ==
    ASSUME NEW n_tiles \in Nat \ {0}, NEW k_splits \in Nat \ {0}, NEW num_xcds \in Nat \ {0}
    PROVE  \A n \in 0 .. num_xcds * n_tiles - 1, k \in 0 .. k_splits - 1 :
             \E b \in 0 .. num_xcds - 1, t \in 0 .. n_tiles * k_splits - 1 :
               \A c \in 0 .. num_xcds - 1, u \in 0 .. n_tiles * k_splits - 1 :
                 << n, k >> \in SplitKPart(n_tiles, k_splits, c, u) <=> c = b /\ u = t
<1> TAKE n \in 0 .. num_xcds * n_tiles - 1, k \in 0 .. k_splits - 1
<1> DEFINE b == n \div n_tiles
           j == n % n_tiles
           t == j * k_splits + k
<1>1. b \in 0 .. num_xcds - 1 /\ j \in 0 .. n_tiles - 1 /\ n = b * n_tiles + j
  BY Share
<1> HIDE DEF b, j
<1>2. t \in 0 .. n_tiles * k_splits - 1
  <2>1. j * k_splits + k_splits <= n_tiles * k_splits  BY <1>1, Mult
  <2>2. j * k_splits \in Nat /\ n_tiles * k_splits \in Nat  BY <1>1, SMT
  <2> QED  BY <2>1, <2>2, SMT
<1>3. ASSUME NEW c \in 0 .. num_xcds - 1, NEW u \in 0 .. n_tiles * k_splits - 1
      PROVE  << n, k >> \in SplitKPart(n_tiles, k_splits, c, u) <=> c = b /\ u = t
  <2> DEFINE column == u \div k_splits
             part == u % k_splits
  <2>1. /\ column \in 0 .. n_tiles - 1 /\ part \in 0 .. k_splits - 1
        /\ u = column * k_splits + part
    BY Share
  <2>2. << n, k >> \in SplitKPart(n_tiles, k_splits, c, u) <=>
          n = c * n_tiles + column /\ k = part
    BY <2>1, SMT DEF SplitKPart
  <2> HIDE DEF column, part
  <2>3. n = c * n_tiles + column <=> c = b /\ column = j  BY <1>1, <2>1, Unique
  <2>4. column = j /\ k = part <=> u = t  BY <1>1, <2>1, Unique
  <2> HIDE DEF t
  <2> QED  BY <2>2, <2>3, <2>4, Zenon
<1> QED  BY <1>1, <1>2, <1>3

\* The XCDs' shares, rounded up, hold all the items.
LEMMA SharesSuffice ==
    ASSUME NEW items \in Nat \ {0}, NEW num_xcds \in Nat \ {0}
    PROVE  /\ ItemsPerXcd(items, num_xcds) \in Nat \ {0}
           /\ items <= num_xcds * ItemsPerXcd(items, num_xcds)
<1> DEFINE a == items + num_xcds - 1
           q == a \div num_xcds
           r == a % num_xcds
<1>1. a \in Int /\ a >= num_xcds  BY SMT
<1>2. q \in Int /\ r \in 0 .. num_xcds - 1 /\ a = q * num_xcds + r  BY <1>1, Euclid
<1>3. ItemsPerXcd(items, num_xcds) = q  BY DEF ItemsPerXcd
<1>4. a = items + num_xcds - 1  OBVIOUS
<1> HIDE DEF a, q, r
<1>5. q > 0
  <2>1. q <= 0 => q * num_xcds <= 0 * num_xcds  BY <1>2, Monotone
  <2>2. q * num_xcds \in Int  BY <1>2, SMT
  <2> QED  BY <1>1, <1>2, <2>1, <2>2, SMT
<1>6. items <= num_xcds * q
  <2>1. num_xcds * q = q * num_xcds /\ q * num_xcds \in Int  BY <1>2, SMT
  <2> QED  BY <1>2, <1>4, <2>1, SMT
<1> QED  BY <1>2, <1>3, <1>5, <1>6

\* gang_attention_split_kv_kernel: every chunk of the keys, for every head of
\* every request, is attended to by one XCD and one of its tile numbers, also
\* when the items do not divide among the XCDs.
THEOREM AttentionItemOnce ==
    ASSUME NEW requests \in Nat \ {0}, NEW heads \in Nat \ {0}, NEW chunks \in Nat \ {0},
           NEW num_xcds \in Nat \ {0}, NEW items, items = requests * (heads * chunks),
           NEW per_xcd, per_xcd = ItemsPerXcd(items, num_xcds)
    PROVE  \A q \in 0 .. requests - 1, h \in 0 .. heads - 1, k \in 0 .. chunks - 1 :
             \E b \in 0 .. num_xcds - 1, t \in 0 .. per_xcd - 1 :
               \A c \in 0 .. num_xcds - 1, u \in 0 .. per_xcd - 1 :
                 << q, h, k >> \in AttentionItem(items, heads, chunks,
                                                 AttentionStart(c, per_xcd) + u)
                   <=> c = b /\ u = t
<1> TAKE q \in 0 .. requests - 1, h \in 0 .. heads - 1, k \in 0 .. chunks - 1
<1> DEFINE of_request == heads * chunks
           item == (q * heads + h) * chunks + k
           b == item \div per_xcd
           t == item % per_xcd
<1>1. of_request \in Nat \ {0} /\ items \in Nat \ {0}  BY SMT
<1>2. per_xcd \in Nat \ {0} /\ items <= num_xcds * per_xcd  BY <1>1, SharesSuffice
<1>3. \A p \in 0 .. requests * heads - 1 :
        /\ p \div heads \in 0 .. requests - 1 /\ p % heads \in 0 .. heads - 1
        /\ p = (p \div heads) * heads + (p % heads)
  BY Share
<1>4. item \in 0 .. items - 1
  <2>1. q * heads + heads <= requests * heads  BY Mult
  <2> DEFINE p == q * heads + h
             P == requests * heads
  <2>2. p \in Nat /\ P \in Nat /\ p < P  BY <2>1, SMT
  <2>3. items = P * chunks  BY SMT
  <2> HIDE DEF p, P
  <2>4. p * chunks + chunks <= P * chunks  BY <2>2, Mult
  <2>5. p * chunks \in Nat  BY <2>2, SMT
  <2>6. item = p * chunks + k  BY DEF p
  <2> QED  BY <1>1, <2>3, <2>4, <2>5, <2>6, SMT
<1>5. b \in 0 .. num_xcds - 1 /\ t \in 0 .. per_xcd - 1 /\ item = b * per_xcd + t
  <2>1. item \in 0 .. num_xcds * per_xcd - 1
    <3>1. num_xcds * per_xcd \in Int  BY <1>2, SMT
    <3> HIDE DEF item
    <3> QED  BY <1>1, <1>2, <1>4, <3>1, SMT
  <2> HIDE DEF item
  <2> QED  BY <1>2, <2>1, Share
<1>6. ASSUME NEW x \in 0 .. items - 1
      PROVE  << q, h, k >> \in AttentionItem(items, heads, chunks, x) <=> x = item
  <2> DEFINE p == x \div chunks
             chunk == x % chunks
             request == x \div (chunks * heads)
             P == requests * heads
  <2>1. P \in Nat \ {0} /\ items = P * chunks  BY SMT
  <2>2. x \in 0 .. P * chunks - 1  BY <2>1
  <2> HIDE DEF P
  <2>3. p \in 0 .. P - 1 /\ chunk \in 0 .. chunks - 1 /\ x = p * chunks + chunk
    BY <2>1, <2>2, Share
  <2>4. /\ p \div heads \in 0 .. requests - 1 /\ p % heads \in 0 .. heads - 1
        /\ p = (p \div heads) * heads + (p % heads)
    BY <1>3, <2>3 DEF P
  <2>5. << q, h, k >> \in AttentionItem(items, heads, chunks, x) <=>
          q = request /\ h = p % heads /\ k = chunk
    BY SMT DEF AttentionItem
  <2> HIDE DEF p, chunk, item
  <2>6. request = p \div heads
    <3> DEFINE d == chunks * heads
               y == p \div heads
               z == p % heads
               s == z * chunks + chunk
    <3>1. d \in Nat \ {0}  BY SMT
    <3>2. y \in Nat /\ z \in 0 .. heads - 1 /\ p = y * heads + z  BY <2>4
    <3> HIDE DEF y, z
    <3>3. s \in 0 .. d - 1
      <4>1. z * chunks + chunks <= heads * chunks  BY <3>2, Mult
      <4>2. z * chunks \in Nat /\ heads * chunks = d  BY <3>2, SMT
      <4> HIDE DEF d
      <4> QED  BY <2>3, <3>1, <4>1, <4>2, SMT
    <3>4. x = y * d + s
      <4>1. (y * heads + z) * chunks = y * (chunks * heads) + z * chunks  BY <3>2, SMT
      <4>2. y * (chunks * heads) \in Int /\ z * chunks \in Int  BY <3>2, SMT
      <4> QED  BY <2>3, <3>2, <4>1, <4>2, SMT
    <3> HIDE DEF d, s
    <3>5. (y * d + s) \div d = y  BY <3>1, <3>2, <3>3, DivMod
    <3>6. request = x \div d  BY DEF d
    <3> QED  BY <3>4, <3>5, <3>6 DEF y
  <2> HIDE DEF request
  <2>7. x = item <=> p = q * heads + h /\ chunk = k
    <3>1. q * heads + h \in Int  BY SMT
    <3>2. item = (q * heads + h) * chunks + k  BY DEF item
    <3> QED  BY <2>3, <3>1, <3>2, Unique
  <2>8. p = q * heads + h <=> p \div heads = q /\ p % heads = h
    <3> DEFINE y == p \div heads
               z == p % heads
    <3>1. y \in Int /\ z \in 0 .. heads - 1 /\ p = y * heads + z  BY <2>4
    <3> HIDE DEF y, z
    <3>2. p = q * heads + h <=> y = q /\ z = h  BY <3>1, Unique
    <3> QED  BY <3>2 DEF y, z
  <2> QED  BY <2>5, <2>6, <2>7, <2>8
<1>7. ASSUME NEW c \in 0 .. num_xcds - 1, NEW u \in 0 .. per_xcd - 1
      PROVE  << q, h, k >> \in AttentionItem(items, heads, chunks, AttentionStart(c, per_xcd) + u)
               <=> c = b /\ u = t
  <2> DEFINE x == c * per_xcd + u
  <2>1. x \in Nat /\ AttentionStart(c, per_xcd) + u = x  BY <1>2, SMT DEF AttentionStart
  <2>2. x = item <=> c = b /\ u = t
    <3> HIDE DEF item, b, t
    <3> QED  BY <1>2, <1>5, Unique
  <2> HIDE DEF x, item, b, t
  <2>3. CASE x < items
    <3>1. x \in 0 .. items - 1  BY <1>1, <2>1, <2>3, SMT
    <3> QED  BY <1>6, <2>1, <2>2, <3>1
  <2>4. CASE ~ (x < items)
    <3>1. AttentionItem(items, heads, chunks, x) = {}  BY <2>4 DEF AttentionItem
    <3>2. x # item  BY <1>1, <1>4, <2>1, <2>4, SMT
    <3> QED  BY <2>1, <2>2, <3>1, <3>2
  <2> QED  BY <2>3, <2>4
<1>8. b \in 0 .. num_xcds - 1 /\ t \in 0 .. per_xcd - 1  BY <1>5
<1> HIDE DEF b, t
<1> QED  BY <1>7, <1>8, Zenon

\* gang_moe_w13_linear_kernel and gang_moe_w2_linear_kernel: an XCD has the tile
\* numbers of max_experts experts, an XCD's share of all experts rounded up, so
\* that all XCDs have enough for those that are activated.  Every tile of every
\* activated expert is computed by one XCD and one number, however few there are.
THEOREM ExpertTileOnce ==
    ASSUME NEW activated \in Nat, NEW n_tiles \in Nat \ {0}, NEW rows \in Nat \ {0},
           NEW num_xcds \in Nat \ {0}, NEW max_experts \in Nat \ {0},
           activated <= max_experts * num_xcds,
           NEW per_expert, per_expert = rows * n_tiles
    PROVE  \A e \in 0 .. activated - 1, m \in 0 .. rows - 1, n \in 0 .. n_tiles - 1 :
             \E b \in 0 .. num_xcds - 1, t \in 0 .. max_experts * per_expert - 1 :
               \A c \in 0 .. num_xcds - 1, u \in 0 .. max_experts * per_expert - 1 :
                 << e, m, n >> \in ExpertTile(activated, n_tiles, rows, per_expert,
                                              num_xcds, c, u)
                   <=> c = b /\ u = t
<1> TAKE e \in 0 .. activated - 1, m \in 0 .. rows - 1, n \in 0 .. n_tiles - 1
<1> DEFINE turn == e \div num_xcds
           b == e % num_xcds
           within == m * n_tiles + n
           t == turn * per_expert + within
<1>1. per_expert \in Nat \ {0}  BY SMT
<1>2. turn \in 0 .. max_experts - 1 /\ b \in 0 .. num_xcds - 1 /\ e = turn * num_xcds + b
  <2>1. max_experts * num_xcds \in Int  BY SMT
  <2>2. e \in 0 .. max_experts * num_xcds - 1  BY <2>1, SMT
  <2> QED  BY <2>2, Share
<1> HIDE DEF turn, b
<1>3. within \in 0 .. per_expert - 1
  <2>1. m * n_tiles + n_tiles <= rows * n_tiles  BY Mult
  <2>2. m * n_tiles \in Nat  BY SMT
  <2> QED  BY <1>1, <2>1, <2>2, SMT
<1>4. t \in 0 .. max_experts * per_expert - 1
  <2>1. turn * per_expert + per_expert <= max_experts * per_expert  BY <1>1, <1>2, Mult
  <2>2. turn * per_expert \in Nat /\ max_experts * per_expert \in Nat  BY <1>1, <1>2, SMT
  <2> HIDE DEF within
  <2> QED  BY <1>1, <1>3, <2>1, <2>2, SMT
<1>5. ASSUME NEW c \in 0 .. num_xcds - 1, NEW u \in 0 .. max_experts * per_expert - 1
      PROVE  << e, m, n >> \in ExpertTile(activated, n_tiles, rows, per_expert, num_xcds, c, u)
               <=> c = b /\ u = t
  <2> DEFINE k == u \div per_expert
             w == u % per_expert
             row == w \div n_tiles
             column == w % n_tiles
  <2>1. k \in 0 .. max_experts - 1 /\ w \in 0 .. per_expert - 1 /\ u = k * per_expert + w
    BY <1>1, Share
  <2> HIDE DEF k, w
  <2>2. /\ row \in 0 .. rows - 1 /\ column \in 0 .. n_tiles - 1
        /\ w = row * n_tiles + column
    BY <2>1, Share
  <2>3. << e, m, n >> \in ExpertTile(activated, n_tiles, rows, per_expert, num_xcds, c, u) <=>
          e = c + k * num_xcds /\ m = row /\ n = column
    <3>1. ExpertTile(activated, n_tiles, rows, per_expert, num_xcds, c, u) =
            IF c + k * num_xcds < activated /\ row < rows
            THEN {<< c + k * num_xcds, row, column >>} ELSE {}
      BY DEF ExpertTile, k, w
    <3> HIDE DEF row, column
    <3> QED  BY <2>2, <3>1, SMT
  <2> HIDE DEF row, column
  <2>4. e = c + k * num_xcds <=> k = turn /\ c = b
    <3>1. c + k * num_xcds = k * num_xcds + c  BY <2>1, SMT
    <3> QED  BY <1>2, <2>1, <3>1, Unique
  <2>5. m = row /\ n = column <=> w = within  BY <2>2, Unique
  <2> HIDE DEF within
  <2>6. k = turn /\ w = within <=> u = t  BY <1>1, <1>2, <1>3, <2>1, Unique
  <2> HIDE DEF t
  <2> QED  BY <2>3, <2>4, <2>5, <2>6, Zenon
<1> QED  BY <1>2, <1>4, <1>5

-----------------------------------------------------------------------------
(* Split-K: a tile's blocks, its counter and its finisher.                 *)

\* The blocks of tile n that thread 0 has counted.
Counted(n) == {k \in SK!Split : warp_pc[<< n, k >>][0] \notin {"gemm", "count"}}

\* Row r of tile n is finished: written, and zeroed.
Written(n, r) == \E k \in SK!Split : is_last[<< n, k >>] /\ warp_pc[<< n, k >>][r] \in {"zero", "exit"}
Zeroed(n, r) == \E k \in SK!Split : is_last[<< n, k >>] /\ warp_pc[<< n, k >>][r] = "exit"

\* The warps of a block pass the barrier together, and only the last goes on.
Phases ==
    \A b \in SK!Block :
      /\ \/ \A w \in SK!Warp : warp_pc[b][w] \in {"gemm", "count", "barrier"}
         \/ \A w \in SK!Warp : is_last[b] /\ warp_pc[b][w] \in {"read", "zero", "exit"}
         \/ \A w \in SK!Warp : ~ is_last[b] /\ warp_pc[b][w] = "exit"
      /\ is_last[b] => warp_pc[b][0] \notin {"gemm", "count"}

\* The counter is the number of blocks counted, until the finisher resets it;
\* there is one finisher, from when all are counted.
CountingOf(n) ==
    /\ done_counter[n] = IF Zeroed(n, 0) THEN 0 ELSE Cardinality(Counted(n))
    /\ \A k \in SK!Split : is_last[<< n, k >>] => Counted(n) = SK!Split
    /\ Counted(n) = SK!Split => \E k \in SK!Split : is_last[<< n, k >>]
    /\ \A k, l \in SK!Split : is_last[<< n, k >>] /\ is_last[<< n, l >>] => k = l
Counting == \A n \in SK!Tile : CountingOf(n)

\* The blocks whose warp 0 has added its terms are in warp 0's columns, until
\* they are zeroed.
Added(n) == {k \in SK!Split : warp_pc[<< n, k >>][0] # "gemm"}
SumsOf(n, r) ==
    /\ workspace[<< n, 0, r >>] = IF Zeroed(n, r) THEN {} ELSE {layer} \X Added(n)
    /\ Written(n, r) => output[<< n, 0, r >>] = SK!LayerTerms
Sums == \A n \in SK!Tile, r \in SK!Warp : SumsOf(n, r)

SplitKInv == SK!TypeOK /\ Phases /\ Counting /\ Sums

\* Counting all blocks is counting K_SPLITS of them.
LEMMA CountAll ==
    ASSUME SK!SplitKConstants, NEW S \in SUBSET SK!Split
    PROVE  /\ IsFiniteSet(S) /\ Cardinality(S) \in Nat
           /\ Cardinality(S) = K_SPLITS <=> S = SK!Split
<1>1. IsFiniteSet(SK!Split) /\ Cardinality(SK!Split) = K_SPLITS
  BY FS_Interval DEF SK!SplitKConstants, SK!Split
<1>2. IsFiniteSet(S) /\ Cardinality(S) \in Nat  BY <1>1, FS_Subset, FS_CardinalityType
<1>3. Cardinality(S) = K_SPLITS => S = SK!Split  BY <1>1, FS_Subset
<1> QED  BY <1>1, <1>2, <1>3

\* The invariant holds in the initial state: nothing is counted or added.
LEMMA SplitKInit == ASSUME SK!SplitKConstants, SK!Init PROVE SplitKInv
<1> USE DEF SK!Init
<1>1. 0 \in SK!Warp /\ 0 \in SK!Split  BY DEF SK!Warp, SK!Split, SK!SplitKConstants
<1>2. SK!TypeOK  BY DEF SK!TypeOK, SK!SplitKConstants
<1>3. Phases  BY <1>1 DEF Phases
<1>4. Counting
  <2>1. \A n \in SK!Tile : Counted(n) = {}  BY <1>1 DEF Counted, SK!Block
  <2>2. \A n \in SK!Tile, k \in SK!Split : ~ is_last[<< n, k >>]  BY DEF SK!Block
  <2> QED  BY <1>1, <2>1, <2>2, FS_EmptySet DEF Counting, CountingOf, Zeroed
<1>5. Sums
  <2>1. \A n \in SK!Tile : Added(n) = {}  BY <1>1 DEF Added, SK!Block
  <2>2. \A n \in SK!Tile, r \in SK!Warp : ~ Written(n, r) /\ ~ Zeroed(n, r)
    BY DEF SK!Block, Written, Zeroed
  <2>3. \A n \in SK!Tile, r \in SK!Warp : workspace[<< n, 0, r >>] = {}  BY <1>1 DEF SK!Cell
  <2> QED  BY <2>1, <2>2, <2>3 DEF Sums, SumsOf
<1> QED  BY <1>2, <1>3, <1>4, <1>5 DEF SplitKInv

Label == {"gemm", "count", "barrier", "read", "zero", "exit"}

\* Goto moves one warp of one block.
LEMMA GotoMoves ==
    ASSUME SK!TypeOK, NEW b \in SK!Block, NEW w \in SK!Warp, NEW l \in Label, SK!Goto(b, w, l)
    PROVE  /\ warp_pc' \in [SK!Block -> [SK!Warp -> Label]]
           /\ warp_pc'[b][w] = l
           /\ \A c \in SK!Block, v \in SK!Warp : c # b \/ v # w => warp_pc'[c][v] = warp_pc[c][v]
BY DEF SK!TypeOK, SK!Goto, Label

\* What the invariant says of the tile of a block at work.
LEMMA Blocks ==
    /\ SK!SplitKConstants => 0 \in SK!Warp /\ 0 \in SK!Split
    /\ \A b \in SK!Block : b = << b[1], b[2] >> /\ b[1] \in SK!Tile /\ b[2] \in SK!Split
    /\ \A n \in SK!Tile, k \in SK!Split : /\ << n, k >> \in SK!Block
                                   /\ << n, k >>[1] = n /\ << n, k >>[2] = k
    /\ \A n \in SK!Tile, v \in SK!Warp, r \in SK!Warp : << n, v, r >> \in SK!Cell
BY DEF SK!SplitKConstants, SK!Warp, SK!Split, SK!Block, SK!Cell

\* While a block is not counted, its tile has no finisher.
LEMMA NoFinisherYet ==
    ASSUME SK!SplitKConstants, SplitKInv, NEW b \in SK!Block, warp_pc[b][0] \in {"gemm", "count"}
    PROVE  /\ \A k \in SK!Split : ~ is_last[<< b[1], k >>]
           /\ ~ is_last[b] /\ b[2] \notin Counted(b[1])
           /\ \A r \in SK!Warp : ~ Zeroed(b[1], r) /\ ~ Written(b[1], r)
           /\ \A w \in SK!Warp : warp_pc[b][w] \in {"gemm", "count", "barrier"}
<1>1. b[2] \notin Counted(b[1])  BY Blocks DEF Counted
<1>2. \A k \in SK!Split : ~ is_last[<< b[1], k >>]  BY <1>1, Blocks DEF SplitKInv, Counting, CountingOf
<1>3. \A r \in SK!Warp : ~ Zeroed(b[1], r) /\ ~ Written(b[1], r)  BY <1>2 DEF Zeroed, Written
<1>4. \A w \in SK!Warp : warp_pc[b][w] \in {"gemm", "count", "barrier"}
  BY Blocks DEF SplitKInv, Phases
<1> QED  BY <1>1, <1>2, <1>3, <1>4, Blocks

\* A block that reads or zeroes is its tile's finisher, after all were counted.
LEMMA Finisher ==
    ASSUME SK!SplitKConstants, SplitKInv, NEW b \in SK!Block, NEW r \in SK!Warp,
           warp_pc[b][r] \in {"read", "zero"}
    PROVE  /\ is_last[b] /\ Counted(b[1]) = SK!Split /\ Added(b[1]) = SK!Split
           /\ \A k \in SK!Split : is_last[<< b[1], k >>] => k = b[2]
           /\ \A w \in SK!Warp : warp_pc[b][w] \in {"read", "zero", "exit"}
           /\ ~ Zeroed(b[1], r)
<1>1. is_last[b] /\ \A w \in SK!Warp : warp_pc[b][w] \in {"read", "zero", "exit"}
  BY DEF SplitKInv, Phases
<1>2. Counted(b[1]) = SK!Split  BY <1>1, Blocks DEF SplitKInv, Counting, CountingOf
<1>3. Added(b[1]) = SK!Split  BY <1>2 DEF Counted, Added
<1>4. \A k \in SK!Split : is_last[<< b[1], k >>] => k = b[2]
  BY <1>1, Blocks DEF SplitKInv, Counting, CountingOf
<1>5. ~ Zeroed(b[1], r)
  <2>1. ASSUME NEW k \in SK!Split, is_last[<< b[1], k >>] PROVE warp_pc[<< b[1], k >>][r] # "exit"
    <3>1. << b[1], k >> = b  BY <1>4, <2>1, Blocks
    <3> QED  BY <3>1
  <2> QED  BY <2>1 DEF Zeroed
<1> QED  BY <1>1, <1>2, <1>3, <1>4, <1>5

\* Every step keeps the types.
LEMMA TypeStep ==
    ASSUME SK!SplitKConstants, SK!TypeOK, [SK!Next]_(SK!vars)
    PROVE  SK!TypeOK'
<1> USE DEF SK!TypeOK
<1>1. ASSUME NEW b \in SK!Block, NEW w \in SK!Warp, SK!AddTerms(b, w) PROVE SK!TypeOK'
  <2>1. << layer, b[2] >> \in SK!Term  BY Blocks DEF SK!Term
  <2>2. workspace' \in [SK!Cell -> SUBSET SK!Term]  BY <1>1, <2>1 DEF SK!AddTerms
  <2>3. warp_pc' \in [SK!Block -> [SK!Warp -> Label]]
    <3> DEFINE l == IF w = 0 THEN "count" ELSE "barrier"
    <3>1. l \in Label /\ SK!Goto(b, w, l)  BY <1>1 DEF SK!AddTerms, Label
    <3> HIDE DEF l
    <3> QED  BY <3>1, GotoMoves
  <2> QED  BY <1>1, <2>2, <2>3 DEF SK!AddTerms, Label
<1>2. ASSUME NEW b \in SK!Block, NEW w \in SK!Warp, SK!WriteOutput(b, w) PROVE SK!TypeOK'
  BY <1>2, GotoMoves DEF SK!WriteOutput, Label
<1>3. ASSUME NEW b \in SK!Block, NEW w \in SK!Warp, SK!ZeroWorkspace(b, w) PROVE SK!TypeOK'
  BY <1>3, GotoMoves DEF SK!ZeroWorkspace, Label
<1>4. ASSUME NEW b \in SK!Block, SK!CountBlock(b) PROVE SK!TypeOK'
  BY <1>4, GotoMoves, Blocks DEF SK!CountBlock, Label
<1>5. ASSUME NEW b \in SK!Block, SK!PassBarrier(b) PROVE SK!TypeOK'
  BY <1>5 DEF SK!PassBarrier
<1>6. CASE SK!NextLayer  BY <1>6 DEF SK!NextLayer, SK!SplitKConstants
<1>7. CASE UNCHANGED SK!vars  BY <1>7 DEF SK!vars
<1> QED  BY <1>1, <1>2, <1>3, <1>4, <1>5, <1>6, <1>7 DEF SK!Next

\* What a step leaves of the tiles it is not about, and of the rows.
LEMMA SameTile ==
    ASSUME NEW n \in SK!Tile,
           \A k \in SK!Split :
             /\ is_last'[<< n, k >>] = is_last[<< n, k >>]
             /\ (warp_pc'[<< n, k >>][0] \in {"gemm", "count"}) =
                  (warp_pc[<< n, k >>][0] \in {"gemm", "count"})
             /\ (warp_pc'[<< n, k >>][0] = "exit") = (warp_pc[<< n, k >>][0] = "exit"),
           done_counter'[n] = done_counter[n],
           CountingOf(n)
    PROVE  CountingOf(n)'
<1>1. Counted(n)' = Counted(n)  BY DEF Counted
<1>2. Zeroed(n, 0)' <=> Zeroed(n, 0)  BY DEF Zeroed
<1> QED  BY <1>1, <1>2 DEF CountingOf

\* A step that leaves a row's cells, and who added to it, leaves its sums.
LEMMA SameRow ==
    ASSUME NEW n \in SK!Tile, NEW r \in SK!Warp, SumsOf(n, r), layer' = layer,
           Added(n)' = Added(n),
           workspace'[<< n, 0, r >>] = workspace[<< n, 0, r >>],
           output'[<< n, 0, r >>] = output[<< n, 0, r >>],
           (Zeroed(n, r)' <=> Zeroed(n, r)), (Written(n, r)' <=> Written(n, r))
    PROVE  SumsOf(n, r)'
BY DEF SumsOf, SK!LayerTerms

\* A warp's additions: only those of warp 0 matter, to an unfinished tile.
LEMMA AddTermsStep ==
    ASSUME SK!SplitKConstants, SplitKInv, SK!TypeOK', NEW b \in SK!Block, NEW w \in SK!Warp, SK!AddTerms(b, w)
    PROVE  SplitKInv'
<1> DEFINE l == IF w = 0 THEN "count" ELSE "barrier"
<1> USE DEF SplitKInv
<1>1. l \in Label /\ SK!Goto(b, w, l) /\ is_last' = is_last /\ output' = output
      /\ layer' = layer /\ done_counter' = done_counter /\ warp_pc[b][w] = "gemm"
  BY DEF SK!AddTerms, Label
<1>2. /\ l \in {"count", "barrier"} /\ (w = 0 => l = "count")
      /\ warp_pc'[b][w] = l
      /\ \A c \in SK!Block, v \in SK!Warp : c # b \/ v # w => warp_pc'[c][v] = warp_pc[c][v]
  BY <1>1, GotoMoves
<1> HIDE DEF l
<1>3. Phases'
  <2>1. ASSUME NEW c \in SK!Block PROVE is_last[c] => warp_pc'[c][0] \notin {"gemm", "count"}
    BY <1>1, <1>2, Blocks DEF Phases
  <2>2. ASSUME NEW c \in SK!Block, c # b
        PROVE  \A v \in SK!Warp : warp_pc'[c][v] = warp_pc[c][v]
    BY <1>2, <2>2
  <2>3. \A v \in SK!Warp : warp_pc[b][v] \in {"gemm", "count", "barrier"}  BY <1>1 DEF Phases
  <2>4. \A v \in SK!Warp : warp_pc'[b][v] \in {"gemm", "count", "barrier"}  BY <1>2, <2>3
  <2> QED  BY <1>1, <2>1, <2>2, <2>4 DEF Phases
<1>4. Counting'
  <2>1. \A c \in SK!Block : /\ (warp_pc'[c][0] \in {"gemm", "count"}) = (warp_pc[c][0] \in {"gemm", "count"})
                            /\ (warp_pc'[c][0] = "exit") = (warp_pc[c][0] = "exit")
    BY <1>1, <1>2, Blocks
  <2> QED  BY <1>1, <2>1, SameTile, Blocks DEF Counting
<1>5. Sums'
  <2>1. \A c \in SK!Block, r \in SK!Warp :
          (warp_pc'[c][r] \in {"zero", "exit"} <=> warp_pc[c][r] \in {"zero", "exit"})
          /\ (warp_pc'[c][r] = "exit" <=> warp_pc[c][r] = "exit")
    BY <1>1, <1>2
  <2>2. ASSUME NEW n \in SK!Tile, NEW r \in SK!Warp
        PROVE  (Written(n, r)' <=> Written(n, r)) /\ (Zeroed(n, r)' <=> Zeroed(n, r))
    BY <1>1, <2>1, Blocks DEF Written, Zeroed
  <2>3. SK!LayerTerms' = SK!LayerTerms  BY <1>1 DEF SK!LayerTerms
  <2>4. ASSUME NEW n \in SK!Tile, NEW r \in SK!Warp, w # 0 \/ n # b[1]
        PROVE  workspace'[<< n, 0, r >>] = workspace[<< n, 0, r >>] /\ Added(n)' = Added(n)
    <3>1. workspace'[<< n, 0, r >>] = workspace[<< n, 0, r >>]
      BY <2>4, Blocks DEF SK!AddTerms, SK!TypeOK
    <3>2. \A k \in SK!Split : warp_pc'[<< n, k >>][0] = warp_pc[<< n, k >>][0]
      BY <1>2, <2>4, Blocks
    <3> QED  BY <3>1, <3>2 DEF Added
  <2>5. ASSUME NEW r \in SK!Warp, w = 0
        PROVE  workspace'[<< b[1], 0, r >>] = {layer} \X Added(b[1])'
    <3>1. ~ Zeroed(b[1], r)  BY <1>1, <2>5, NoFinisherYet
    <3>2. workspace[<< b[1], 0, r >>] = {layer} \X Added(b[1])  BY <3>1, Blocks DEF Sums, SumsOf
    <3>3. workspace'[<< b[1], 0, r >>] = workspace[<< b[1], 0, r >>] \cup {<< layer, b[2] >>}
      BY <2>5, Blocks DEF SK!AddTerms
    <3>4. Added(b[1])' = Added(b[1]) \cup {b[2]}
      <4>1. \A k \in SK!Split : k # b[2] => warp_pc'[<< b[1], k >>][0] = warp_pc[<< b[1], k >>][0]
        BY <1>2, Blocks
      <4>2. warp_pc'[<< b[1], b[2] >>][0] = "count"  BY <1>2, <2>5, Blocks
      <4> QED  BY <4>1, <4>2, Blocks DEF Added
    <3> QED  BY <3>2, <3>3, <3>4
  <2>6. ASSUME NEW n \in SK!Tile, NEW r \in SK!Warp
        PROVE  SumsOf(n, r)'
    <3>1. Written(n, r)' => output'[<< n, 0, r >>] = SK!LayerTerms'
      BY <1>1, <2>2, <2>3 DEF Sums, SumsOf
    <3>2. CASE w # 0 \/ n # b[1]  BY <1>1, <2>2, <2>4, <3>2, SameRow DEF Sums
    <3>3. CASE w = 0 /\ n = b[1]
      <4>1. ~ Zeroed(n, r)'  BY <1>1, <2>2, <3>3, NoFinisherYet
      <4> QED  BY <1>1, <2>5, <3>1, <3>3, <4>1 DEF SumsOf
    <3> QED  BY <3>2, <3>3
  <2> QED  BY <2>6 DEF Sums
<1> QED  BY <1>3, <1>4, <1>5

\* Counting: the block that makes the count K_SPLITS, and no other, is last.
LEMMA CountBlockStep ==
    ASSUME SK!SplitKConstants, SplitKInv, SK!TypeOK', NEW b \in SK!Block, SK!CountBlock(b)
    PROVE  SplitKInv'
<1> USE DEF SplitKInv
<1> DEFINE n == b[1]
           k == b[2]
<1>1. /\ warp_pc[b][0] = "count" /\ 0 \in SK!Warp
      /\ layer' = layer /\ workspace' = workspace /\ output' = output
      /\ \A m \in SK!Tile : m # n => done_counter'[m] = done_counter[m]
      /\ done_counter'[n] = done_counter[n] + 1
      /\ \A c \in SK!Block : c # b => is_last'[c] = is_last[c]
      /\ is_last'[b] = (done_counter[n] = K_SPLITS - 1)
  BY Blocks DEF SK!CountBlock, SK!TypeOK
<1>2. /\ warp_pc'[b][0] = "barrier"
      /\ \A c \in SK!Block, v \in SK!Warp : c # b \/ v # 0 => warp_pc'[c][v] = warp_pc[c][v]
  BY <1>1, GotoMoves DEF SK!CountBlock, Label
<1>3. /\ \A l \in SK!Split : ~ is_last[<< n, l >>]
      /\ ~ is_last[b] /\ k \notin Counted(n)
      /\ \A r \in SK!Warp : ~ Zeroed(n, r) /\ ~ Written(n, r)
      /\ \A w \in SK!Warp : warp_pc[b][w] \in {"gemm", "count", "barrier"}
  BY <1>1, NoFinisherYet
<1>4. n \in SK!Tile /\ k \in SK!Split /\ b = << n, k >>  BY Blocks
<1> HIDE DEF n, k
<1>5. \A w \in SK!Warp : warp_pc'[b][w] \in {"gemm", "count", "barrier"}  BY <1>2, <1>3
<1>6. Phases'
  <2>1. ASSUME NEW c \in SK!Block, c # b
        PROVE  is_last'[c] = is_last[c] /\ \A v \in SK!Warp : warp_pc'[c][v] = warp_pc[c][v]
    BY <1>1, <1>2, <2>1
  <2> QED  BY <1>1, <1>2, <1>5, <2>1 DEF Phases
<1>7. Counting'
  <2>1. ASSUME NEW m \in SK!Tile, m # n PROVE CountingOf(m)'
    <3>1. \A l \in SK!Split : /\ << m, l >> # b /\ << m, l >> \in SK!Block
                          /\ is_last'[<< m, l >>] = is_last[<< m, l >>]
                          /\ warp_pc'[<< m, l >>][0] = warp_pc[<< m, l >>][0]
      BY <1>1, <1>2, <1>4, <2>1, Blocks
    <3> QED  BY <1>1, <2>1, <3>1, SameTile DEF Counting
  <2>2. \A l \in SK!Split : l # k => /\ warp_pc'[<< n, l >>][0] = warp_pc[<< n, l >>][0]
                                 /\ ~ is_last'[<< n, l >>]
    BY <1>1, <1>2, <1>3, <1>4, Blocks
  <2>3. Counted(n)' = Counted(n) \cup {k}
    <3>1. warp_pc'[<< n, k >>][0] = "barrier"  BY <1>2, <1>4
    <3> QED  BY <1>4, <2>2, <3>1 DEF Counted
  <2>4. IsFiniteSet(Counted(n)) /\ Cardinality(Counted(n)) \in Nat
    BY CountAll DEF Counted
  <2>5. Cardinality(Counted(n)') = Cardinality(Counted(n)) + 1
    BY <1>3, <2>3, <2>4, FS_AddElement
  <2>6. done_counter[n] = Cardinality(Counted(n))
    BY <1>1, <1>3, <1>4 DEF Counting, CountingOf
  <2>7. Cardinality(Counted(n)') = K_SPLITS <=> Counted(n)' = SK!Split
    <3>1. Counted(n)' \in SUBSET SK!Split  BY DEF Counted
    <3> HIDE DEF Counted
    <3> QED  BY <3>1, CountAll
  <2>8. is_last'[<< n, k >>] <=> Counted(n)' = SK!Split
    <3>1. done_counter[n] = K_SPLITS - 1 <=> Cardinality(Counted(n)') = K_SPLITS
      BY <2>4, <2>5, <2>6 DEF SK!SplitKConstants
    <3>2. is_last'[<< n, k >>] <=> done_counter[n] = K_SPLITS - 1  BY <1>1, <1>4
    <3> QED  BY <2>7, <3>1, <3>2
  <2>9. ~ Zeroed(n, 0)'
    <3>1. warp_pc'[<< n, k >>][0] # "exit"  BY <1>2, <1>4
    <3> QED  BY <2>2, <3>1 DEF Zeroed
  <2>10. CountingOf(n)'
    BY <1>1, <1>4, <2>2, <2>5, <2>6, <2>8, <2>9 DEF CountingOf
  <2> QED  BY <2>1, <2>10 DEF Counting
<1>8. Sums'
  <2>1. ASSUME NEW m \in SK!Tile PROVE Added(m)' = Added(m)
    <3>1. \A c \in SK!Block : (warp_pc'[c][0] # "gemm") = (warp_pc[c][0] # "gemm")  BY <1>1, <1>2
    <3> QED  BY <3>1, Blocks DEF Added
  <2>2. ASSUME NEW m \in SK!Tile, NEW r \in SK!Warp
        PROVE  (Zeroed(m, r)' <=> Zeroed(m, r)) /\ (Written(m, r)' <=> Written(m, r))
    <3>1. CASE m = n
      <4>1. \A l \in SK!Split : l # k => ~ is_last'[<< n, l >>]  BY <1>1, <1>3, <1>4, Blocks
      <4>2. warp_pc'[<< n, k >>][r] \in {"gemm", "count", "barrier"}  BY <1>4, <1>5
      <4>3. ~ Zeroed(n, r)' /\ ~ Written(n, r)'  BY <4>1, <4>2 DEF Zeroed, Written
      <4> QED  BY <1>3, <3>1, <4>3
    <3>2. CASE m # n
      <4>1. \A l \in SK!Split : /\ is_last'[<< m, l >>] = is_last[<< m, l >>]
                            /\ warp_pc'[<< m, l >>][r] = warp_pc[<< m, l >>][r]
        BY <1>1, <1>2, <1>4, <3>2, Blocks
      <4> QED  BY <4>1 DEF Zeroed, Written
    <3> QED  BY <3>1, <3>2
  <2> QED  BY <1>1, <2>1, <2>2, SameRow DEF Sums
<1> QED  BY <1>6, <1>7, <1>8

\* The barrier: no row is written or zeroed by it.
LEMMA PassBarrierStep ==
    ASSUME SK!SplitKConstants, SplitKInv, SK!TypeOK', NEW b \in SK!Block, SK!PassBarrier(b)
    PROVE  SplitKInv'
<1> USE DEF SplitKInv
<1>1. /\ \A w \in SK!Warp : warp_pc[b][w] = "barrier"
      /\ \A w \in SK!Warp : warp_pc'[b][w] = IF is_last[b] THEN "read" ELSE "exit"
      /\ \A c \in SK!Block : c # b => warp_pc'[c] = warp_pc[c]
      /\ layer' = layer /\ is_last' = is_last /\ workspace' = workspace
      /\ done_counter' = done_counter /\ output' = output
  BY DEF SK!PassBarrier, SK!TypeOK
<1>2. Phases'
  <2>1. ASSUME NEW c \in SK!Block, c # b PROVE warp_pc'[c] = warp_pc[c]  BY <1>1, <2>1
  <2> QED  BY <1>1, <2>1, Blocks DEF Phases
<1>3. \A c \in SK!Block, r \in SK!Warp :
        is_last[c] => /\ (warp_pc'[c][r] \in {"zero", "exit"}) = (warp_pc[c][r] \in {"zero", "exit"})
                      /\ (warp_pc'[c][r] = "exit") = (warp_pc[c][r] = "exit")
  BY <1>1
<1>4. ASSUME NEW n \in SK!Tile, NEW r \in SK!Warp
      PROVE  (Zeroed(n, r)' <=> Zeroed(n, r)) /\ (Written(n, r)' <=> Written(n, r))
  <2>1. \A k \in SK!Split :
          is_last[<< n, k >>] =>
            /\ (warp_pc'[<< n, k >>][r] \in {"zero", "exit"}) = (warp_pc[<< n, k >>][r] \in {"zero", "exit"})
            /\ (warp_pc'[<< n, k >>][r] = "exit") = (warp_pc[<< n, k >>][r] = "exit")
    BY <1>3, Blocks
  <2> QED  BY <1>1, <2>1 DEF Zeroed, Written
<1>5. Counting'
  <2>1. \A n \in SK!Tile : Counted(n)' = Counted(n)  BY <1>1, Blocks DEF Counted
  <2> QED  BY <1>1, <1>4, <2>1, Blocks DEF Counting, CountingOf
<1>6. Sums'
  <2>1. \A n \in SK!Tile : Added(n)' = Added(n)  BY <1>1, Blocks DEF Added
  <2> QED  BY <1>1, <1>4, <2>1, SameRow DEF Sums
<1> QED  BY <1>2, <1>5, <1>6

\* The finisher writes a row that holds the terms of all blocks.
LEMMA WriteOutputStep ==
    ASSUME SK!SplitKConstants, SplitKInv, SK!TypeOK', NEW b \in SK!Block, NEW s \in SK!Warp, SK!WriteOutput(b, s)
    PROVE  SplitKInv'
<1> USE DEF SplitKInv
<1> DEFINE n == b[1]
<1>1. /\ warp_pc[b][s] = "read" /\ 0 \in SK!Warp /\ n \in SK!Tile /\ b = << n, b[2] >>
      /\ layer' = layer /\ workspace' = workspace /\ is_last' = is_last
      /\ done_counter' = done_counter
      /\ \A m \in SK!Tile, r \in SK!Warp :
           output'[<< m, 0, r >>] = IF m = n /\ r = s THEN workspace[<< m, 0, r >>]
                                    ELSE output[<< m, 0, r >>]
  BY Blocks DEF SK!WriteOutput, SK!RowsOf
<1>2. /\ warp_pc'[b][s] = "zero"
      /\ \A c \in SK!Block, v \in SK!Warp : c # b \/ v # s => warp_pc'[c][v] = warp_pc[c][v]
  BY GotoMoves DEF SK!WriteOutput, Label
<1>3. /\ is_last[b] /\ Added(n) = SK!Split /\ ~ Zeroed(n, s)
      /\ \A w \in SK!Warp : warp_pc[b][w] \in {"read", "zero", "exit"}
  BY <1>1, Finisher
<1> HIDE DEF n
<1>4. /\ \A c \in SK!Block, r \in SK!Warp : (warp_pc'[c][r] = "exit") = (warp_pc[c][r] = "exit")
      /\ \A c \in SK!Block : /\ (warp_pc'[c][0] \in {"gemm", "count"}) = (warp_pc[c][0] \in {"gemm", "count"})
                             /\ (warp_pc'[c][0] # "gemm") = (warp_pc[c][0] # "gemm")
  BY <1>1, <1>2
<1>5. Phases'
  <2>1. ASSUME NEW c \in SK!Block, c # b PROVE \A v \in SK!Warp : warp_pc'[c][v] = warp_pc[c][v]
    BY <1>2, <2>1
  <2>2. \A v \in SK!Warp : warp_pc'[b][v] \in {"read", "zero", "exit"}  BY <1>2, <1>3
  <2> QED  BY <1>1, <1>3, <2>1, <2>2 DEF Phases
<1>6. Counting'
  BY <1>1, <1>4, SameTile, Blocks DEF Counting
<1>7. Sums'
  <2>1. ASSUME NEW m \in SK!Tile PROVE Added(m)' = Added(m)  BY <1>4, Blocks DEF Added
  <2>2. ASSUME NEW m \in SK!Tile, NEW r \in SK!Warp PROVE Zeroed(m, r)' <=> Zeroed(m, r)
    BY <1>1, <1>4, Blocks DEF Zeroed
  <2>3. ASSUME NEW m \in SK!Tile, NEW r \in SK!Warp, m # n \/ r # s
        PROVE  Written(m, r)' <=> Written(m, r)
    <3>1. \A l \in SK!Split : warp_pc'[<< m, l >>][r] = warp_pc[<< m, l >>][r]
      BY <1>1, <1>2, <2>3, Blocks
    <3> QED  BY <1>1, <3>1 DEF Written
  <2>4. output'[<< n, 0, s >>] = SK!LayerTerms'
    <3>1. workspace[<< n, 0, s >>] = {layer} \X Added(n)
      BY <1>1, <1>3 DEF Sums, SumsOf
    <3> QED  BY <1>1, <1>3, <3>1 DEF SK!LayerTerms
  <2>5. ASSUME NEW m \in SK!Tile, NEW r \in SK!Warp PROVE SumsOf(m, r)'
    <3>1. CASE m # n \/ r # s  BY <1>1, <2>1, <2>2, <2>3, <3>1, SameRow DEF Sums
    <3>2. CASE m = n /\ r = s
      <4>1. ~ Zeroed(n, s)'  BY <1>1, <1>3, <2>2
      <4>2. workspace'[<< n, 0, s >>] = {layer'} \X Added(n)'
        <5>1. workspace[<< n, 0, s >>] = {layer} \X Added(n)
          BY <1>1, <1>3 DEF Sums, SumsOf
        <5>2. Added(n)' = Added(n)  BY <1>1, <2>1
        <5> QED  BY <1>1, <5>1, <5>2
      <4> QED  BY <2>4, <3>2, <4>1, <4>2 DEF SumsOf
    <3> QED  BY <3>1, <3>2
  <2> QED  BY <2>5 DEF Sums
<1> QED  BY <1>5, <1>6, <1>7

\* It zeroes the row, and with its own row thread 0 the counter.
LEMMA ZeroWorkspaceStep ==
    ASSUME SK!SplitKConstants, SplitKInv, SK!TypeOK', NEW b \in SK!Block, NEW s \in SK!Warp,
           SK!ZeroWorkspace(b, s)
    PROVE  SplitKInv'
<1> USE DEF SplitKInv
<1> DEFINE n == b[1]
<1>1. /\ warp_pc[b][s] = "zero" /\ 0 \in SK!Warp /\ n \in SK!Tile /\ b = << n, b[2] >> /\ b[2] \in SK!Split
      /\ layer' = layer /\ output' = output /\ is_last' = is_last
      /\ \A m \in SK!Tile : done_counter'[m] = IF m = n /\ s = 0 THEN 0 ELSE done_counter[m]
      /\ \A m \in SK!Tile, r \in SK!Warp :
           workspace'[<< m, 0, r >>] = IF m = n /\ r = s THEN {} ELSE workspace[<< m, 0, r >>]
  BY Blocks DEF SK!ZeroWorkspace, SK!RowsOf, SK!TypeOK
<1>2. /\ warp_pc'[b][s] = "exit"
      /\ \A c \in SK!Block, v \in SK!Warp : c # b \/ v # s => warp_pc'[c][v] = warp_pc[c][v]
  BY GotoMoves DEF SK!ZeroWorkspace, Label
<1>3. /\ is_last[b]
      /\ \A w \in SK!Warp : warp_pc[b][w] \in {"read", "zero", "exit"}
  BY <1>1, Finisher
<1> HIDE DEF n
<1>4. /\ \A c \in SK!Block, r \in SK!Warp :
           (warp_pc'[c][r] \in {"zero", "exit"}) = (warp_pc[c][r] \in {"zero", "exit"})
      /\ \A c \in SK!Block : /\ (warp_pc'[c][0] \in {"gemm", "count"}) = (warp_pc[c][0] \in {"gemm", "count"})
                             /\ (warp_pc'[c][0] # "gemm") = (warp_pc[c][0] # "gemm")
  BY <1>1, <1>2
<1>5. Phases'
  <2>1. ASSUME NEW c \in SK!Block, c # b PROVE \A v \in SK!Warp : warp_pc'[c][v] = warp_pc[c][v]
    BY <1>2, <2>1
  <2>2. \A v \in SK!Warp : warp_pc'[b][v] \in {"read", "zero", "exit"}  BY <1>2, <1>3
  <2> QED  BY <1>1, <1>3, <2>1, <2>2 DEF Phases
<1>6. ASSUME NEW m \in SK!Tile, NEW r \in SK!Warp, m # n \/ r # s
      PROVE  Zeroed(m, r)' <=> Zeroed(m, r)
  <2>1. \A l \in SK!Split : warp_pc'[<< m, l >>][r] = warp_pc[<< m, l >>][r]
    BY <1>1, <1>2, <1>6, Blocks
  <2> QED  BY <1>1, <2>1 DEF Zeroed
<1>7. Zeroed(n, s)'  BY <1>1, <1>2, <1>3 DEF Zeroed
<1>8. Counting'
  <2>1. ASSUME NEW m \in SK!Tile PROVE Counted(m)' = Counted(m)  BY <1>4, Blocks DEF Counted
  <2>2. ASSUME NEW m \in SK!Tile
        PROVE  done_counter'[m] = IF Zeroed(m, 0)' THEN 0 ELSE Cardinality(Counted(m)')
    <3>1. CASE m # n \/ 0 # s  BY <1>1, <1>6, <2>1, <3>1 DEF Counting, CountingOf
    <3>2. CASE m = n /\ s = 0  BY <1>1, <1>7, <3>2
    <3> QED  BY <3>1, <3>2
  <2> QED  BY <1>1, <2>1, <2>2 DEF Counting, CountingOf
<1>9. Sums'
  <2>1. ASSUME NEW m \in SK!Tile PROVE Added(m)' = Added(m)  BY <1>4, Blocks DEF Added
  <2>2. ASSUME NEW m \in SK!Tile, NEW r \in SK!Warp PROVE Written(m, r)' <=> Written(m, r)
    BY <1>1, <1>4, Blocks DEF Written
  <2>3. ASSUME NEW m \in SK!Tile, NEW r \in SK!Warp PROVE SumsOf(m, r)'
    <3>1. CASE m # n \/ r # s  BY <1>1, <1>6, <2>1, <2>2, <3>1, SameRow DEF Sums
    <3>2. CASE m = n /\ r = s
      <4>1. Written(n, s)' => output'[<< n, 0, s >>] = SK!LayerTerms'
        BY <1>1, <2>2 DEF Sums, SumsOf, SK!LayerTerms
      <4> QED  BY <1>1, <1>7, <3>2, <4>1 DEF SumsOf
    <3> QED  BY <3>1, <3>2
  <2> QED  BY <2>3 DEF Sums
<1> QED  BY <1>5, <1>8, <1>9

\* A layer that is done is written, and its workspace and counters are zero.
LEMMA DoneLayer ==
    ASSUME SK!SplitKConstants, SplitKInv, SK!LayerDone
    PROVE  \A n \in SK!Tile : /\ \E k \in SK!Split : is_last[<< n, k >>]
                          /\ done_counter[n] = 0
                          /\ \A r \in SK!Warp : /\ workspace[<< n, 0, r >>] = {}
                                            /\ output[<< n, 0, r >>] = SK!LayerTerms
<1> USE DEF SplitKInv
<1> TAKE n \in SK!Tile
<1>1. 0 \in SK!Warp /\ \A k \in SK!Split, w \in SK!Warp : warp_pc[<< n, k >>][w] = "exit"
  BY Blocks DEF SK!LayerDone
<1>2. Counted(n) = SK!Split  BY <1>1 DEF Counted
<1>3. PICK k \in SK!Split : is_last[<< n, k >>]  BY <1>2 DEF Counting, CountingOf
<1>4. \A r \in SK!Warp : Zeroed(n, r) /\ Written(n, r)  BY <1>1, <1>3 DEF Zeroed, Written
<1> QED  BY <1>1, <1>3, <1>4 DEF Counting, CountingOf, Sums, SumsOf

\* So the next layer begins as the first.
LEMMA NextLayerStep ==
    ASSUME SK!SplitKConstants, SplitKInv, SK!TypeOK', SK!NextLayer
    PROVE  SplitKInv'
<1> USE DEF SplitKInv
<1>1. 0 \in SK!Warp /\ 0 \in SK!Split  BY Blocks
<1>2. /\ \A b \in SK!Block, w \in SK!Warp : warp_pc'[b][w] = "gemm" /\ ~ is_last'[b]
      /\ workspace' = workspace /\ done_counter' = done_counter
  BY DEF SK!NextLayer
<1>3. \A n \in SK!Tile : /\ done_counter'[n] = 0
                         /\ \A r \in SK!Warp : workspace'[<< n, 0, r >>] = {}
  BY <1>2, DoneLayer DEF SK!NextLayer
<1>4. \A n \in SK!Tile : Counted(n)' = {} /\ Added(n)' = {}
  BY <1>1, <1>2, Blocks DEF Counted, Added
<1>5. \A n \in SK!Tile, r \in SK!Warp : ~ Written(n, r)' /\ ~ Zeroed(n, r)'
  BY <1>2, Blocks DEF Written, Zeroed
<1>6. Phases'  BY <1>1, <1>2 DEF Phases
<1>7. Counting'
  <2>1. \A n \in SK!Tile, k \in SK!Split : ~ is_last'[<< n, k >>]  BY <1>2, Blocks
  <2>2. ASSUME NEW n \in SK!Tile PROVE CountingOf(n)'
    BY <1>1, <1>3, <1>4, <1>5, <2>1, FS_EmptySet DEF CountingOf
  <2> QED  BY <2>2 DEF Counting
<1>8. Sums'
  <2>1. ASSUME NEW n \in SK!Tile, NEW r \in SK!Warp PROVE SumsOf(n, r)'
    BY <1>3, <1>4, <1>5 DEF SumsOf
  <2> QED  BY <2>1 DEF Sums
<1> QED  BY <1>6, <1>7, <1>8

\* Every step keeps the invariant.
LEMMA SplitKStep ==
    ASSUME SK!SplitKConstants, SplitKInv, [SK!Next]_(SK!vars)
    PROVE  SplitKInv'
<1> USE DEF SplitKInv
<1>0. SK!TypeOK'  BY TypeStep
<1>1. ASSUME NEW b \in SK!Block, NEW w \in SK!Warp, SK!AddTerms(b, w) PROVE SplitKInv'
  BY <1>0, <1>1, AddTermsStep
<1>2. ASSUME NEW b \in SK!Block, NEW w \in SK!Warp, SK!WriteOutput(b, w) PROVE SplitKInv'
  BY <1>0, <1>2, WriteOutputStep
<1>3. ASSUME NEW b \in SK!Block, NEW w \in SK!Warp, SK!ZeroWorkspace(b, w) PROVE SplitKInv'
  BY <1>0, <1>3, ZeroWorkspaceStep
<1>4. ASSUME NEW b \in SK!Block, SK!CountBlock(b) PROVE SplitKInv'
  BY <1>0, <1>4, CountBlockStep
<1>5. ASSUME NEW b \in SK!Block, SK!PassBarrier(b) PROVE SplitKInv'
  BY <1>0, <1>5, PassBarrierStep
<1>6. CASE SK!NextLayer  BY <1>0, <1>6, NextLayerStep
<1>7. CASE UNCHANGED SK!vars
  <2>1. Phases'  BY <1>7 DEF Phases, SK!vars
  <2>2. Counting'
    BY <1>7 DEF Counting, CountingOf, Counted, Zeroed, SK!vars
  <2>3. Sums'
    BY <1>7 DEF Sums, SumsOf, Added, Zeroed, Written, SK!LayerTerms, SK!vars
  <2> QED  BY <1>0, <2>1, <2>2, <2>3
<1> QED  BY <1>1, <1>2, <1>3, <1>4, <1>5, <1>6, <1>7 DEF SK!Next

\* SplitKInv holds in every reachable state.
LEMMA SplitKInvariant == ASSUME SK!SplitKConstants PROVE SK!Spec => []SplitKInv
<1>1. SK!Init => SplitKInv  BY SplitKInit
<1>2. SplitKInv /\ [SK!Next]_(SK!vars) => SplitKInv'  BY SplitKStep
<1> QED  BY <1>1, <1>2, PTL DEF SK!Spec

\* The done counter of a tile picks exactly one of its blocks to finish it, after
\* all of them were counted, and is back at 0 when the layer is done: for every
\* number of tiles, splits, warps and layers that share the counters.
THEOREM SplitKOneFinisher ==
    ASSUME SK!SplitKConstants
    PROVE  SK!Spec => []SK!OneFinisher
<1>1. SplitKInv => SK!OneFinisher
  <2> SUFFICES ASSUME SplitKInv PROVE SK!OneFinisher
    OBVIOUS
  <2>1. ASSUME NEW b \in SK!Block, NEW c \in SK!Block, b[1] = c[1], is_last[b], is_last[c]
        PROVE  b = c
    <3>1. is_last[<< b[1], b[2] >>] /\ is_last[<< b[1], c[2] >>]  BY <2>1, Blocks
    <3>2. b[2] = c[2]  BY <3>1, Blocks DEF SplitKInv, Counting, CountingOf
    <3> QED  BY <2>1, <3>2, Blocks
  <2>2. SK!LayerDone => \A n \in SK!Tile : /\ \E k \in SK!Split : is_last[<< n, k >>]
                                    /\ done_counter[n] = 0
    BY DoneLayer
  <2> QED  BY <2>1, <2>2 DEF SK!OneFinisher
<1> QED  BY <1>1, SplitKInvariant, PTL

\* The terms of the warp whose thread counts the block are never missed and
\* never left for the next layer; the other warps' are not covered
\* (OutputComplete is violated by them).
THEOREM SplitKCountingWarp ==
    ASSUME SK!SplitKConstants
    PROVE  SK!Spec => []SK!CountingWarpComplete
<1>1. SplitKInv => SK!CountingWarpComplete
  <2> SUFFICES ASSUME SplitKInv, SK!LayerDone, NEW c \in SK!Cell, c[2] = 0
               PROVE  output[c] = SK!LayerTerms
    BY DEF SK!CountingWarpComplete
  <2>1. c[1] \in SK!Tile /\ c[3] \in SK!Warp /\ c = << c[1], 0, c[3] >>  BY DEF SK!Cell
  <2> QED  BY <2>1, DoneLayer
<1> QED  BY <1>1, SplitKInvariant, PTL
=============================================================================
