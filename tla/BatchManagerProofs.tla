-------------------------- MODULE BatchManagerProofs --------------------------
(***************************************************************************)
(* Continuous batching, for every number of requests, slots and pages,     *)
(* every budget and every prompt: the page table that is compacted in      *)
(* place, the ring of free pages and the cache stay consistent.            *)
(*                                                                         *)
(* The table is rewritten while it is read, so an invariant about          *)
(* kv_indices alone does not survive a step.  It is stated of what each    *)
(* slot holds (Table): its row is read from the copy as long as the slot   *)
(* is still to be visited, and ends at num_pages where the next row has    *)
(* not been started.  Of these rows and the ring, Consistent says that     *)
(* every page is in exactly one place.  Taking pages from the ring and     *)
(* giving them back keeps it (TakePages, GivePages); that there are pages  *)
(* to take, which the code never asks, is a matter of counting             *)
(* (RoomForMore) and rests on the assumption that the pool suffices for a  *)
(* full batch of the longest sequences.                                    *)
(***************************************************************************)
EXTENDS BatchManager, FiniteSetTheorems, TLAPS

-----------------------------------------------------------------------------
(* What a slot of the batch holds, at every point of prepare_next_batch.    *)

MaxPages == PagesFor(MaxSeqLength)

\* The table is being rewritten, slot after slot.
Growing == pc \in {"continue", "admit"}
\* A slot that the compaction has still to visit: the old batch's.
Behind(s) == pc = "continue" /\ s >= slot
\* Slots that hold a request: of the new batch those in front of num_reqs.
Holder(s) == IF Growing /\ ~Behind(s) THEN s < num_reqs ELSE request_ids[s] # NoRequest
\* The end of a slot's row is the start of the next, or where the next will start.
PagesEnd(s) == IF Growing /\ s + 1 = num_reqs THEN num_pages ELSE kv_indptr[s + 1]
Pages(s) == PagesEnd(s) - kv_indptr[s]
TokensEnd(s) == IF Growing /\ s + 1 = num_reqs THEN num_tokens ELSE qo_indptr[s + 1]
Tokens(s) == TokensEnd(s) - qo_indptr[s]
\* Page k of a slot, from the copy as long as the slot is still to be visited.
Entry(s, k) == IF Behind(s) THEN smem_kv_indices[kv_indptr[s] + k] ELSE PageOf(s, k)
\* The slot's new tokens are scheduled and not yet part of the request's step.
Planned(s) == ~Behind(s) /\ (pc = "finalize" => s >= slot)
\* The tokens the slot's pages are for, and those that are in the cache.
Length(s) == step[request_ids[s]] + (IF Planned(s) THEN Tokens(s) ELSE 0)
Cached(s) == IF pc = "finalize" THEN Length(s) ELSE step[request_ids[s]]
\* The pages of each slot.
Table == [s \in Slot |-> IF Holder(s) THEN [k \in 0 .. Pages(s) - 1 |-> Entry(s, k)] ELSE << >>]

-----------------------------------------------------------------------------
(* The inductive invariant.                                                 *)

\* Every page is in exactly one place, of a slot or between head and tail of the
\* ring, and no slot has more than the longest sequence needs.
Consistent(table, queue, head, tail) ==
  /\ head <= tail
  /\ \A s \in Slot : \A k \in DOMAIN table[s] : k \in 0 .. MaxPages - 1 /\ table[s][k] \in Page
  /\ \A s, t \in Slot : \A k \in DOMAIN table[s], l \in DOMAIN table[t] :
       table[s][k] = table[t][l] => s = t /\ k = l
  /\ \A i, j \in head .. tail - 1 : queue[i % NumPages] = queue[j % NumPages] => i = j
  /\ \A i \in head .. tail - 1 : \A s \in Slot : \A k \in DOMAIN table[s] :
       queue[i % NumPages] # table[s][k]
  /\ \A p \in Page : \/ \E i \in head .. tail - 1 : queue[i % NumPages] = p
                     \/ \E s \in Slot : \E k \in DOMAIN table[s] : table[s][k] = p

PagesOK == Consistent(Table, page_queue, page_queue_head, page_queue_tail)

\* The counters of the batch: they start at zero, a new batch has tokens as soon as
\* it has a request (so one without tokens is the end), and behind the batch there
\* are neither tokens nor pages.
LocalsOK ==
  /\ pc = "finalize" => num_reqs = 0 /\ num_tokens = 0 /\ num_pages = 0
  /\ pc = "continue" => num_reqs <= slot
  /\ Growing => num_pages <= num_reqs * MaxPages /\ (num_reqs > 0 <=> num_tokens > 0)
  /\ pc = "finished" => num_pages = 0 /\ next_request_id = TotalNumRequests
                        /\ \A s \in Slot : ~Holder(s)
  /\ pc = "run" => /\ qo_indptr[MaxBatchedRequests] = num_tokens
                   /\ kv_indptr[MaxBatchedRequests] = num_pages
                   /\ num_tokens > 0
                   /\ \A s \in Slot : ~Holder(s) => Tokens(s) = 0 /\ Pages(s) = 0

\* The rows of the table: none ends behind what is copied or counted, and together
\* they fill the part of kv_indices that is in use.
TableOK ==
  /\ pc \in {"run", "finalize"} =>
       \A s \in Slot : kv_indptr[s + 1] <= kv_indptr[MaxBatchedRequests]
  /\ \A s \in Slot : Holder(s) /\ Behind(s) => 0 .. PagesEnd(s) - 1 \subseteq DOMAIN smem_kv_indices
  /\ Growing => \A s \in 0 .. num_reqs - 1 : PagesEnd(s) <= num_pages
  /\ Growing \/ pc = "run" => \A i \in 0 .. num_pages - 1 :
       \E s \in Slot : ~Behind(s) /\ Holder(s) /\ i \in kv_indptr[s] .. PagesEnd(s) - 1

\* A slot that is held has an admitted request that is not done, the pages of its
\* sequence, and tokens to run that are known.
SlotOK(s) ==
  /\ request_ids[s] \in 0 .. next_request_id - 1
  /\ Length(s) \in 1 .. MaxSeqLength
  /\ Pages(s) = PagesFor(Length(s))
  /\ step[request_ids[s]] > 0 => ~Complete(request_ids[s])
  /\ Planned(s) =>
       /\ Tokens(s) \in 0 .. MaxTokensPerRequest
       /\ last_page_len[s] = LastPageLen(Length(s))
       /\ \A p \in step[request_ids[s]] .. Length(s) - 1 : tokens[request_ids[s]][p] # "none"
SlotsOK == \A s \in Slot : Holder(s) => SlotOK(s)

\* A request has one slot at most; one that was admitted and has none is done; and
\* the tokens up to its step, or its prompt, are known and no others.
RequestsOK ==
  /\ \A s, t \in Slot : Holder(s) /\ Holder(t) /\ request_ids[s] = request_ids[t] => s = t
  /\ \A r \in Request :
       /\ r >= next_request_id => step[r] = 0
       /\ r < next_request_id => Complete(r) \/ \E s \in Slot : Holder(s) /\ request_ids[s] = r
       /\ \A p \in Position :
            tokens[r][p] = "none" <=> p > step[r] /\ p >= prompt_length[r]

\* What is in the cache for a request is where its slot's pages say.
CacheOK ==
  \A s \in Slot : Holder(s) => \A p \in 0 .. Cached(s) - 1 :
     kv_cache[Entry(s, p \div PageSize)][p % PageSize] = << request_ids[s], p >>

IInv == TypeOK /\ LocalsOK /\ TableOK /\ SlotsOK /\ RequestsOK /\ PagesOK /\ CacheOK

-----------------------------------------------------------------------------
(* Arithmetic of pages and positions.                                       *)

\* Quotient and remainder make up the number.
LEMMA Euclid ==
    ASSUME NEW a \in Int, NEW d \in Nat \ {0}
    PROVE  /\ a \div d \in Int
           /\ a % d \in 0 .. d - 1
           /\ a = (a \div d) * d + (a % d)
BY SMT

\* Multiples of d lie at least d apart.
LEMMA Mult ==
    ASSUME NEW d \in Nat \ {0}, NEW x \in Int, NEW y \in Int, x < y
    PROVE  x * d + d <= y * d
<1>1. y - x - 1 \in Nat  BY SMT
<1>2. (y - x - 1) * d >= 0  BY <1>1, SMT
<1>3. (y - x - 1) * d = y * d - x * d - d  BY SMT
<1> QED  BY <1>2, <1>3, SMT

\* A larger factor gives a multiple that is no smaller.
LEMMA Monotone ==
    ASSUME NEW d \in Nat \ {0}, NEW x \in Int, NEW y \in Int, x <= y
    PROVE  x * d <= y * d /\ x * d \in Int /\ y * d \in Int
<1>1. x * d \in Int /\ y * d \in Int  BY SMT
<1>2. CASE x = y  BY <1>1, <1>2, SMT
<1>3. CASE x < y  BY <1>1, <1>3, Mult, SMT
<1> QED  BY <1>2, <1>3, SMT

\* A number has one quotient and one remainder.
LEMMA Unique ==
    ASSUME NEW d \in Nat \ {0}, NEW q \in Int, NEW p \in Int,
           NEW r \in 0 .. d - 1, NEW s \in 0 .. d - 1, q * d + r = p * d + s
    PROVE  q = p /\ r = s
<1>1. ~ (q < p)  BY Mult, SMT
<1>2. ~ (p < q)  BY Mult, SMT
<1> QED  BY <1>1, <1>2, SMT

\* So q * d + r is taken apart into q and r.
LEMMA DivMod ==
    ASSUME NEW d \in Nat \ {0}, NEW q \in Int, NEW r \in 0 .. d - 1
    PROVE  (q * d + r) \div d = q /\ (q * d + r) % d = r
<1> DEFINE a == q * d + r
<1>1. a \in Int  BY SMT
<1> QED  BY <1>1, Euclid, Unique

-----------------------------------------------------------------------------
\* Two positions less than a ring apart are stored in different slots.
LEMMA SlotsDiffer ==
    ASSUME NEW Q \in Nat \ {0}, NEW i \in Nat, NEW j \in Nat,
           i < j, j < i + Q
    PROVE  i % Q # j % Q
<1>1. /\ i \div Q \in Int /\ i % Q \in Int /\ i = Q * (i \div Q) + (i % Q)
      /\ j \div Q \in Int /\ j % Q \in Int /\ j = Q * (j \div Q) + (j % Q)
  BY SMT
<1>2. ASSUME NEW a \in Int, NEW b \in Int, 0 < Q * b - Q * a, Q * b - Q * a < Q
      PROVE  FALSE
  <2>1. Q * b - Q * a = Q * (b - a)
    BY SMT
  <2>2. CASE b - a <= 0
    <3>1. Q * (b - a) <= 0
      BY <2>2, SMT
    <3> QED BY <3>1, <2>1, <1>2, SMT
  <2>3. CASE b - a >= 1
    <3>1. Q * (b - a) >= Q
      BY <2>3, SMT
    <3> QED BY <3>1, <2>1, <1>2, SMT
  <2> QED BY <2>2, <2>3, SMT
<1>3. SUFFICES ASSUME i % Q = j % Q PROVE FALSE
  OBVIOUS
<1>4. 0 < Q * (j \div Q) - Q * (i \div Q) /\ Q * (j \div Q) - Q * (i \div Q) < Q
  <2> DEFINE qi == Q * (i \div Q)  qj == Q * (j \div Q)
  <2>1. qi \in Int /\ qj \in Int
    BY <1>1, SMT
  <2>2. i = qi + (i % Q) /\ j = qj + (i % Q)
    BY <1>1, <1>3
  <2> HIDE DEF qi, qj
  <2>3. 0 < qj - qi /\ qj - qi < Q
    BY <2>1, <2>2, <1>1, SMT
  <2> QED BY <2>3 DEF qi, qj
<1> QED BY <1>1, <1>2, <1>4

\* The constants of the module are positive, and the pages suffice.
LEMMA Sizes ==
    /\ TotalNumRequests \in Nat
    /\ MaxSeqLength \in Nat \ {0} /\ MaxBatchedRequests \in Nat \ {0}
    /\ MaxBatchedTokens \in Nat \ {0} /\ MaxTokensPerRequest \in Nat \ {0}
    /\ PageSize \in Nat \ {0} /\ NumPages \in Nat \ {0}
    /\ MaxBatchedRequests * MaxPages <= NumPages
BY BatchAssumption DEF MaxPages

\* A sequence of n tokens fills all its pages but the last, and that one from its
\* first token to LastPageLen.
LEMMA PagesFill ==
    ASSUME NEW n \in Nat \ {0}
    PROVE  /\ PagesFor(n) \in Nat \ {0}
           /\ LastPageLen(n) \in 1 .. PageSize
           /\ (PagesFor(n) - 1) * PageSize + LastPageLen(n) = n
<1> DEFINE d == PageSize  q == n \div d  r == n % d
<1>0. d \in Nat \ {0}  BY Sizes
<1> HIDE DEF d
<1>1. q \in Int /\ r \in 0 .. d - 1 /\ n = q * d + r  BY <1>0, Euclid, SMT
<1>2. (q + 1) * d = q * d + d /\ (q - 1) * d = q * d - d /\ q * d \in Int
  BY <1>0, <1>1, SMT
<1> HIDE DEF q, r
<1>3. CASE r = 0
  <2>1. n + d - 1 = q * d + (d - 1)  BY <1>1, <1>2, <1>3, <1>0, SMT
  <2>2. (n + d - 1) \div d = q  BY <2>1, <1>0, <1>1, DivMod, d - 1 \in 0 .. d - 1
  <2>3. q >= 1
    <3>1. q <= 0 => q * d <= 0 * d  BY <1>0, <1>1, Monotone
    <3> QED  BY <3>1, <1>0, <1>1, <1>3, SMT
  <2>4. PagesFor(n) = q /\ LastPageLen(n) = d
    BY <2>2, <1>3 DEF PagesFor, LastPageLen, d, r
  <2> QED  BY <2>3, <2>4, <1>0, <1>1, <1>2, <1>3, SMT DEF d
<1>4. CASE r # 0
  <2>1. n + d - 1 = (q + 1) * d + (r - 1)  BY <1>1, <1>2, <1>0, SMT
  <2>2. r - 1 \in 0 .. d - 1 /\ q + 1 \in Int  BY <1>1, <1>4, <1>0, SMT
  <2>3. (n + d - 1) \div d = q + 1  BY <2>1, <2>2, <1>0, DivMod
  <2>4. q >= 0
    <3>1. q <= -1 => q * d <= (-1) * d  BY <1>0, <1>1, Monotone
    <3> QED  BY <3>1, <1>0, <1>1, SMT
  <2>5. PagesFor(n) = q + 1 /\ LastPageLen(n) = r
    BY <2>3, <1>4 DEF PagesFor, LastPageLen, d, r
  <2> QED  BY <2>4, <2>5, <1>0, <1>1, <1>2, <1>4, SMT DEF d
<1> QED  BY <1>3, <1>4

\* A position of a sequence lies in one of its pages.
LEMMA PageOfPosition ==
    ASSUME NEW n \in Nat, NEW p \in 0 .. n - 1
    PROVE  /\ p \div PageSize \in 0 .. PagesFor(n) - 1
           /\ p % PageSize \in 0 .. PageSize - 1
           /\ p = (p \div PageSize) * PageSize + (p % PageSize)
<1> DEFINE d == PageSize  q == p \div d  r == p % d  m == PagesFor(n)  l == LastPageLen(n)
<1>0. d \in Nat \ {0}  BY Sizes
<1>1. n \in Nat \ {0} /\ p \in Int  BY SMT
<1>2. m \in Nat \ {0} /\ l \in 1 .. d /\ (m - 1) * d + l = n  BY <1>1, PagesFill
<1> HIDE DEF d, m, l
<1>3. q \in Int /\ r \in 0 .. d - 1 /\ p = q * d + r  BY <1>0, <1>1, Euclid
<1> HIDE DEF q, r
<1>4. m - 1 \in Int /\ q * d \in Int /\ (m - 1) * d \in Int  BY <1>0, <1>2, <1>3, SMT
<1>5. q < m
  <2>1. m - 1 < q => (m - 1) * d + d <= q * d  BY <1>0, <1>3, <1>4, Mult
  <2> QED  BY <2>1, <1>0, <1>2, <1>3, <1>4, SMT
<1>6. q >= 0
  <2>1. q <= -1 => q * d <= (-1) * d  BY <1>0, <1>3, Monotone
  <2> QED  BY <2>1, <1>0, <1>3, <1>4, SMT
<1> QED  BY <1>2, <1>3, <1>5, <1>6 DEF d, q, r, m

\* A longer sequence has no fewer pages; none is longer than MaxSeqLength.
LEMMA PagesGrow ==
    ASSUME NEW n \in Nat, NEW m \in Nat, n <= m
    PROVE  PagesFor(n) \in Nat /\ PagesFor(m) \in Nat /\ PagesFor(n) <= PagesFor(m)
<1>1. CASE n = 0
  <2>1. PagesFor(0) = 0
    <3> DEFINE d == PageSize
    <3>1. d \in Nat \ {0}  BY Sizes
    <3> HIDE DEF d
    <3>2. 0 + d - 1 = 0 * d + (d - 1) /\ d - 1 \in 0 .. d - 1  BY <3>1, SMT
    <3>3. (0 + d - 1) \div d = 0  BY <3>1, <3>2, DivMod
    <3> QED  BY <3>3 DEF PagesFor, d
  <2>2. m = 0 \/ PagesFor(m) \in Nat \ {0}  BY PagesFill
  <2> QED  BY <1>1, <2>1, <2>2, SMT
<1>2. CASE n # 0
  <2>1. PagesFor(n) \in Nat \ {0} /\ PagesFor(m) \in Nat \ {0}  BY <1>2, PagesFill, SMT
  <2>2. /\ LastPageLen(n) \in 1 .. PageSize /\ LastPageLen(m) \in 1 .. PageSize
        /\ (PagesFor(n) - 1) * PageSize + LastPageLen(n) = n
        /\ (PagesFor(m) - 1) * PageSize + LastPageLen(m) = m
    BY <1>2, PagesFill, SMT
  <2> DEFINE a == PagesFor(n) - 1  b == PagesFor(m) - 1  d == PageSize
  <2>3. a \in Int /\ b \in Int /\ d \in Nat \ {0}  BY <2>1, Sizes, SMT
  <2>4. b < a => b * d + d <= a * d  BY <2>3, Mult
  <2>5. a * d \in Int /\ b * d \in Int  BY <2>3, SMT
  <2>6. /\ LastPageLen(n) \in 1 .. d /\ LastPageLen(m) \in 1 .. d
        /\ a * d + LastPageLen(n) = n /\ b * d + LastPageLen(m) = m
    BY <2>2
  <2>7. PagesFor(n) = a + 1 /\ PagesFor(m) = b + 1  BY <2>1, SMT
  <2> HIDE DEF a, b, d
  <2>8. a <= b  BY <2>3, <2>4, <2>5, <2>6, SMT
  <2> QED  BY <2>1, <2>3, <2>7, <2>8, SMT
<1> QED  BY <1>1, <1>2

-----------------------------------------------------------------------------
(* The pages: a table of the pages each slot holds, and the ring of the     *)
(* free ones between its head and its tail.                                 *)

\* The places of the ring that are in use are different ones.
LEMMA RingFits ==
    ASSUME NEW table, NEW queue, NEW head \in Nat, NEW tail \in Nat,
           Consistent(table, queue, head, tail)
    PROVE  /\ tail - head <= NumPages
           /\ \A i \in head .. tail - 1 : i % NumPages \in Page
<1>1. NumPages \in Nat \ {0}  BY Sizes
<1>2. tail - head <= NumPages
  <2>1. SUFFICES ASSUME head + NumPages < tail  PROVE FALSE  BY <1>1, SMT
  <2>2. head \in head .. tail - 1 /\ head + NumPages \in head .. tail - 1 /\ head + NumPages # head
    BY <1>1, <2>1, SMT
  <2>3. (head + NumPages) % NumPages = head % NumPages
    <3> DEFINE d == NumPages  q == head \div d  r == head % d
    <3>1. d \in Nat \ {0} /\ head \in Int  BY <1>1
    <3> HIDE DEF d
    <3>2. q \in Int /\ r \in 0 .. d - 1 /\ head = q * d + r  BY <3>1, Euclid
    <3> HIDE DEF q, r
    <3>3. head + d = (q + 1) * d + r /\ q + 1 \in Int  BY <3>1, <3>2, SMT
    <3>4. (head + d) % d = r  BY <3>1, <3>2, <3>3, DivMod
    <3> QED  BY <3>4 DEF d, r
  <2> QED  BY <2>2, <2>3 DEF Consistent
<1>3. ASSUME NEW i \in head .. tail - 1  PROVE i % NumPages \in Page
  BY <1>1, SMT DEF Page
<1> QED  BY <1>2, <1>3

\* Pages that no slot holds yet, up to a full batch of the longest requests, are
\* free: there are no fewer in the ring.
LEMMA RoomForMore ==
    ASSUME NEW table, NEW queue, NEW head \in Nat, NEW tail \in Nat,
           Consistent(table, queue, head, tail),
           NEW x \in Slot, NEW a \in Nat, NEW b \in Nat, a <= b, b <= MaxPages,
           \A k \in a .. b - 1 : k \notin DOMAIN table[x]
    PROVE  b - a <= tail - head
<1> DEFINE Pairs == Slot \X (0 .. MaxPages - 1)
           Fresh == {x} \X (a .. b - 1)
           Ring == {NoRequest} \X (head .. tail - 1)
           Owners == (Pairs \ Fresh) \cup Ring
           InRing(p, i) == queue[i % NumPages] = p
           InTable(p, s, k) == k \in DOMAIN table[s] /\ table[s][k] = p
           owner == [p \in Page |-> CHOOSE y \in Owners :
                        \/ y[1] = NoRequest /\ InRing(p, y[2])
                        \/ y[1] # NoRequest /\ InTable(p, y[1], y[2])]
<1>0. PICK B \in Nat \ {0}, M \in Nat \ {0}, P \in Nat \ {0} :
        B = MaxBatchedRequests /\ M = MaxPages /\ P = NumPages /\ B * M <= P
  <2>1. MaxPages \in Nat \ {0}  BY Sizes, PagesFill DEF MaxPages
  <2> QED  BY <2>1, Sizes
<1>1. IsFiniteSet(Slot) /\ Cardinality(Slot) = B
  <2>1. IsFiniteSet(0 .. B - 1) /\ Cardinality(0 .. B - 1) = B  BY FS_Interval, <1>0
  <2> QED  BY <2>1, <1>0 DEF Slot
<1>2. IsFiniteSet(0 .. MaxPages - 1) /\ Cardinality(0 .. MaxPages - 1) = M
  <2>1. IsFiniteSet(0 .. M - 1) /\ Cardinality(0 .. M - 1) = M  BY FS_Interval, <1>0
  <2> QED  BY <2>1, <1>0
<1>3. IsFiniteSet(Pairs) /\ Cardinality(Pairs) = B * M
  <2>1. /\ IsFiniteSet(Slot \X (0 .. MaxPages - 1))
        /\ Cardinality(Slot \X (0 .. MaxPages - 1))
             = Cardinality(Slot) * Cardinality(0 .. MaxPages - 1)
    BY <1>1, <1>2, FS_Product
  <2> QED  BY <2>1, <1>1, <1>2
<1>4. IsFiniteSet(a .. b - 1) /\ Cardinality(a .. b - 1) = b - a
  <2>1. PICK c \in Int : c = b - 1  BY SMT
  <2>0. a \in Int  OBVIOUS
  <2>2. IsFiniteSet(a .. c) /\ Cardinality(a .. c) = IF a > c THEN 0 ELSE c - a + 1
    BY <2>0, FS_Interval, Zenon
  <2>3. (IF a > c THEN 0 ELSE c - a + 1) = b - a  BY <2>1, SMT
  <2> QED  BY <2>1, <2>2, <2>3
<1>5. IsFiniteSet(Fresh) /\ Cardinality(Fresh) = b - a
  <2>1. IsFiniteSet({x}) /\ Cardinality({x}) = 1  BY FS_Singleton
  <2>2. IsFiniteSet(Fresh) /\ Cardinality(Fresh) = 1 * Cardinality(a .. b - 1)
    BY <2>1, <1>4, FS_Product
  <2> QED  BY <2>2, <1>4, SMT
<1>6. head <= tail  BY DEF Consistent
<1>7. IsFiniteSet(Ring) /\ Cardinality(Ring) = tail - head
  <2>1. IsFiniteSet({NoRequest}) /\ Cardinality({NoRequest}) = 1  BY FS_Singleton
  <2>2. IsFiniteSet(head .. tail - 1) /\ Cardinality(head .. tail - 1) = tail - head
    <3>1. PICK c \in Int : c = tail - 1  BY SMT
    <3>0. head \in Int  OBVIOUS
    <3>2. IsFiniteSet(head .. c) /\ Cardinality(head .. c) = IF head > c THEN 0 ELSE c - head + 1
      BY <3>0, FS_Interval, Zenon
    <3>3. (IF head > c THEN 0 ELSE c - head + 1) = tail - head  BY <1>6, <3>1, SMT
    <3> QED  BY <3>1, <3>2, <3>3
  <2>3. IsFiniteSet(Ring) /\ Cardinality(Ring) = 1 * Cardinality(head .. tail - 1)
    BY <2>1, <2>2, FS_Product
  <2> QED  BY <2>2, <2>3, SMT
<1>8. IsFiniteSet(Page) /\ Cardinality(Page) = P
  <2>1. IsFiniteSet(0 .. P - 1) /\ Cardinality(0 .. P - 1) = P  BY FS_Interval, <1>0
  <2> QED  BY <2>1, <1>0 DEF Page
<1>9. Fresh \subseteq Pairs
  BY <1>0, SMT
<1>10. IsFiniteSet(Pairs \ Fresh) /\ Cardinality(Pairs \ Fresh) = B * M - (b - a)
  <2>1. Pairs \cap Fresh = Fresh  BY <1>9
  <2> HIDE DEF Pairs, Fresh
  <2>2. /\ IsFiniteSet(Pairs \ Fresh)
        /\ Cardinality(Pairs \ Fresh) = Cardinality(Pairs) - Cardinality(Pairs \cap Fresh)
    BY <1>3, FS_Difference
  <2> QED  BY <2>1, <2>2, <1>3, <1>5
<1>11. IsFiniteSet(Owners) /\ Cardinality(Owners) <= B * M - (b - a) + (tail - head)
  <2> DEFINE Rest == Pairs \ Fresh
  <2>1. IsFiniteSet(Rest) /\ Cardinality(Rest) = B * M - (b - a)  BY <1>10
  <2> HIDE DEF Rest, Ring
  <2>2. /\ IsFiniteSet(Rest \cup Ring)
        /\ Cardinality(Rest \cup Ring) = Cardinality(Rest) + Cardinality(Ring)
                                          - Cardinality(Rest \cap Ring)
    BY <2>1, <1>7, FS_Union
  <2>3. Cardinality(Rest \cap Ring) \in Nat
    <3>1. IsFiniteSet(Rest \cap Ring)  BY <2>1, FS_Intersection
    <3> QED  BY <3>1, FS_CardinalityType
  <2>4. B * M \in Int  BY <1>0, SMT
  <2>5. Owners = Rest \cup Ring  BY DEF Rest
  <2> HIDE DEF Owners
  <2> QED  BY <2>1, <2>2, <2>3, <2>4, <2>5, <1>6, <1>7, SMT
<1>12. NoRequest \notin Slot
  BY <1>0, SMT DEF NoRequest, Slot
<1>13. ASSUME NEW p \in Page
       PROVE  /\ owner[p] \in Owners
              /\ \/ owner[p][1] = NoRequest /\ InRing(p, owner[p][2])
                 \/ owner[p][1] # NoRequest /\ InTable(p, owner[p][1], owner[p][2])
  <2>1. \E y \in Owners : \/ y[1] = NoRequest /\ InRing(p, y[2])
                          \/ y[1] # NoRequest /\ InTable(p, y[1], y[2])
    <3>1. CASE \E i \in head .. tail - 1 : queue[i % NumPages] = p
      <4>1. PICK i \in head .. tail - 1 : queue[i % NumPages] = p  BY <3>1
      <4>2. << NoRequest, i >> \in Owners  OBVIOUS
      <4>3. << NoRequest, i >>[1] = NoRequest /\ InRing(p, << NoRequest, i >>[2])  BY <4>1
      <4> QED  BY <4>2, <4>3
    <3>2. CASE \E s \in Slot : \E k \in DOMAIN table[s] : table[s][k] = p
      <4>1. PICK s \in Slot : \E k \in DOMAIN table[s] : table[s][k] = p  BY <3>2
      <4>2. PICK k \in DOMAIN table[s] : table[s][k] = p  BY <4>1
      <4>3. k \in 0 .. MaxPages - 1  BY <4>2 DEF Consistent
      <4>4. << s, k >> \in Pairs /\ << s, k >> \notin Fresh  BY <4>2, <4>3
      <4>5. << s, k >>[1] # NoRequest /\ InTable(p, << s, k >>[1], << s, k >>[2])
        BY <4>2, <1>12
      <4> QED  BY <4>4, <4>5
    <3> QED  BY <3>1, <3>2 DEF Consistent
  <2> HIDE DEF Owners, InRing, InTable
  <2> QED  BY <2>1
<1>14. owner \in Injection(Page, Owners)
  <2>1. owner \in [Page -> Owners]  BY <1>13
  <2>2. ASSUME NEW p \in Page, NEW q \in Page, owner[p] = owner[q]  PROVE p = q
    <3> HIDE DEF owner, Owners
    <3>1. PICK y : y = owner[p] /\ y = owner[q]  BY <2>2
    <3>2. CASE y[1] = NoRequest
      <4>1. queue[y[2] % NumPages] = p /\ queue[y[2] % NumPages] = q  BY <1>13, <3>1, <3>2
      <4> QED  BY <4>1
    <3>3. CASE y[1] # NoRequest
      <4>1. table[y[1]][y[2]] = p /\ table[y[1]][y[2]] = q  BY <1>13, <3>1, <3>3
      <4> QED  BY <4>1
    <3> QED  BY <3>2, <3>3
  <2> HIDE DEF owner, Owners
  <2> QED  BY <2>1, <2>2 DEF Injection, IsInjective
<1>15. P <= Cardinality(Owners)
  <2> HIDE DEF owner, Owners
  <2> QED  BY <1>8, <1>11, <1>14, FS_Injection
<1>16. Cardinality(Owners) \in Nat  BY <1>11, FS_CardinalityType
<1> HIDE DEF Owners
<1>17. B * M \in Int  BY <1>0, SMT
<1> QED  BY <1>0, <1>6, <1>11, <1>15, <1>16, <1>17, SMT

\* The pages of a slot fit into the ring behind the free ones.
LEMMA RoomToFree ==
    ASSUME NEW table, NEW queue \in [Page -> Page], NEW head \in Nat, NEW tail \in Nat,
           Consistent(table, queue, head, tail),
           NEW s \in Slot, NEW n \in Nat, DOMAIN table[s] = 0 .. n - 1
    PROVE  tail + n - head <= NumPages
<1> DEFINE f == [i \in head .. tail + n - 1 |->
                   IF i < tail THEN queue[i % NumPages] ELSE table[s][i - tail]]
<1>0. NumPages \in Nat \ {0} /\ head <= tail  BY Sizes DEF Consistent
<1>1. ASSUME NEW i \in head .. tail + n - 1
      PROVE  \/ i < tail /\ i \in head .. tail - 1 /\ i % NumPages \in Page
             \/ ~(i < tail) /\ i - tail \in DOMAIN table[s]
  <2>1. CASE i < tail
    <3>1. i \in head .. tail - 1  BY <2>1, SMT
    <3> QED  BY <2>1, <3>1, RingFits
  <2>2. CASE ~(i < tail)
    <3>1. i - tail \in 0 .. n - 1  BY <2>2, SMT
    <3> QED  BY <2>2, <3>1
  <2> QED  BY <2>1, <2>2
<1>2. ASSUME NEW i \in head .. tail + n - 1  PROVE f[i] \in Page
  <2>1. CASE i < tail  BY <1>1, <2>1
  <2>2. CASE ~(i < tail)  BY <1>1, <2>2 DEF Consistent
  <2> QED  BY <2>1, <2>2
<1>3. ASSUME NEW i \in head .. tail + n - 1, NEW j \in head .. tail + n - 1, f[i] = f[j]
      PROVE  i = j
  <2>1. CASE i < tail /\ j < tail  BY <1>1, <1>3, <2>1 DEF Consistent
  <2>2. CASE i < tail /\ ~(j < tail)  BY <1>1, <1>3, <2>2 DEF Consistent
  <2>3. CASE ~(i < tail) /\ j < tail  BY <1>1, <1>3, <2>3 DEF Consistent
  <2>4. CASE ~(i < tail) /\ ~(j < tail)
    <3>1. i - tail = j - tail  BY <1>1, <1>3, <2>4 DEF Consistent
    <3> QED  BY <3>1, SMT
  <2> QED  BY <2>1, <2>2, <2>3, <2>4
<1>4. f \in Injection(head .. tail + n - 1, Page)
  <2>1. f \in [head .. tail + n - 1 -> Page]  BY <1>2
  <2> HIDE DEF f
  <2> QED  BY <2>1, <1>3 DEF Injection, IsInjective
<1>5. IsFiniteSet(Page) /\ Cardinality(Page) = NumPages
  <2>1. PICK P \in Nat \ {0} : P = NumPages  BY <1>0
  <2>2. PICK c \in Int : c = P - 1  OBVIOUS
  <2>3. IsFiniteSet(0 .. c) /\ Cardinality(0 .. c) = IF 0 > c THEN 0 ELSE c - 0 + 1
    BY FS_Interval, 0 \in Int, Zenon
  <2>4. (IF 0 > c THEN 0 ELSE c - 0 + 1) = P  BY <2>2, SMT
  <2> QED  BY <2>1, <2>2, <2>3, <2>4 DEF Page
<1> HIDE DEF f
<1>6. Cardinality(head .. tail + n - 1) <= NumPages  BY <1>4, <1>5, FS_Injection
<1>7. PICK b \in Int : b = tail + n - 1  BY SMT
<1>8. Cardinality(head .. b) = IF head > b THEN 0 ELSE b - head + 1  BY FS_Interval
<1> QED  BY <1>0, <1>6, <1>7, <1>8, SMT

\* Slot `to` takes over the pages of slot `from`, which may be itself, and gets
\* more from the head of the ring.
Takes(next, table, queue, head, tail, to, from, old, pages) ==
    /\ old <= pages /\ pages <= MaxPages /\ pages - old <= tail - head
    /\ DOMAIN table[from] = 0 .. old - 1
    /\ to # from => DOMAIN table[to] = {}
    /\ \A s \in Slot \ {to, from} : next[s] = table[s]
    /\ to # from => DOMAIN next[from] = {}
    /\ DOMAIN next[to] = 0 .. pages - 1
    /\ \A k \in 0 .. old - 1 : next[to][k] = table[from][k]
    /\ \A k \in old .. pages - 1 : next[to][k] = queue[(head + k - old) % NumPages]

\* Slot `to` gets the pages of slot `from` and pages - old more from the head of the
\* ring: what is consistent stays so.
LEMMA TakePages ==
    ASSUME NEW table, NEW queue, queue \in [Page -> Page],
           NEW head, head \in Nat, NEW tail, tail \in Nat,
           NEW from, from \in Slot, NEW to, to \in Slot,
           NEW old, old \in Nat, NEW pages, pages \in Nat,
           Consistent(table, queue, head, tail),
           NEW next, Takes(next, table, queue, head, tail, to, from, old, pages)
    PROVE  Consistent(next, queue, head + pages - old, tail)
<1>t. /\ old <= pages /\ pages <= MaxPages /\ pages - old <= tail - head
      /\ DOMAIN table[from] = 0 .. old - 1
      /\ to # from => DOMAIN table[to] = {}
      /\ \A s \in Slot \ {to, from} : next[s] = table[s]
      /\ to # from => DOMAIN next[from] = {}
      /\ DOMAIN next[to] = 0 .. pages - 1
      /\ \A k \in 0 .. old - 1 : next[to][k] = table[from][k]
      /\ \A k \in old .. pages - 1 : next[to][k] = queue[(head + k - old) % NumPages]
  BY DEF Takes
<1> USE <1>t
<1> DEFINE last == head + pages - old
<1>a. \A s \in Slot : \A k \in DOMAIN table[s] : k \in 0 .. MaxPages - 1 /\ table[s][k] \in Page
  BY DEF Consistent
<1>b. \A s, t \in Slot : \A k \in DOMAIN table[s], l \in DOMAIN table[t] :
        table[s][k] = table[t][l] => s = t /\ k = l
  BY DEF Consistent
<1>c. \A i, j \in head .. tail - 1 : queue[i % NumPages] = queue[j % NumPages] => i = j
  BY DEF Consistent
<1>d. \A i \in head .. tail - 1 : \A s \in Slot : \A k \in DOMAIN table[s] :
        queue[i % NumPages] # table[s][k]
  BY DEF Consistent
<1>e. \A p \in Page : \/ \E i \in head .. tail - 1 : queue[i % NumPages] = p
                      \/ \E s \in Slot : \E k \in DOMAIN table[s] : table[s][k] = p
  BY DEF Consistent
<1>0. NumPages \in Nat \ {0} /\ head <= tail /\ last \in Nat /\ head <= last /\ last <= tail
  BY Sizes, SMT DEF Consistent
<1>1. ASSUME NEW k \in DOMAIN next[to]
      PROVE  \/ k \in DOMAIN table[from] /\ next[to][k] = table[from][k]
             \/ /\ k \in old .. pages - 1 /\ head + k - old \in head .. last - 1
                /\ next[to][k] = queue[(head + k - old) % NumPages]
  <2>1. CASE k < old
    <3>1. k \in 0 .. old - 1  BY <2>1, SMT
    <3> QED  BY <3>1
  <2>2. CASE ~(k < old)
    <3>1. k \in old .. pages - 1 /\ head + k - old \in head .. last - 1  BY <2>2, SMT
    <3> QED  BY <3>1
  <2> QED  BY <2>1, <2>2
<1>2. ASSUME NEW s \in Slot, NEW k \in DOMAIN next[s]
      PROVE  \/ s # to /\ s # from /\ next[s] = table[s] /\ k \in DOMAIN table[s]
             \/ s = to
  BY <1>2
<1>3. \A i \in last .. tail - 1 : i \in head .. tail - 1
  BY <1>0, SMT
<1>4. \A i \in head .. last - 1 : i \in head .. tail - 1 /\ i \notin last .. tail - 1
  BY <1>0, SMT
<1>5. \A i \in head .. tail - 1 : i % NumPages \in Page
  BY RingFits
<1> HIDE DEF last
<1>6. ASSUME NEW s \in Slot, NEW k \in DOMAIN next[s]
      PROVE  k \in 0 .. MaxPages - 1 /\ next[s][k] \in Page
  <2>1. CASE s = to
    <3>1. k \in 0 .. MaxPages - 1
      <4>1. MaxPages \in Nat  BY Sizes, PagesFill DEF MaxPages
      <4> QED  BY <2>1, <4>1, SMT
    <3>2. next[s][k] \in Page  BY <2>1, <1>1, <1>4, <1>5, <1>a
    <3> QED  BY <3>1, <3>2
  <2>2. CASE s # to  BY <1>2, <2>2, <1>a
  <2> QED  BY <2>1, <2>2
<1>7. ASSUME NEW i \in last .. tail - 1, NEW s \in Slot, NEW k \in DOMAIN next[s]
      PROVE  queue[i % NumPages] # next[s][k]
  <2>1. CASE s = to
    <3>1. CASE k \in DOMAIN table[from] /\ next[to][k] = table[from][k]
      BY <2>1, <3>1, <1>3, <1>d
    <3>2. CASE /\ head + k - old \in head .. last - 1
               /\ next[to][k] = queue[(head + k - old) % NumPages]
      <4>1. PICK j : j = head + k - old  OBVIOUS
      <4>2. j \in head .. tail - 1 /\ j # i  BY <3>2, <4>1, <1>4
      <4>3. queue[j % NumPages] # queue[i % NumPages]  BY <4>2, <1>3, <1>c
      <4> QED  BY <2>1, <3>2, <4>1, <4>3
    <3> QED  BY <2>1, <3>1, <3>2, <1>1
  <2>2. CASE s # to  BY <1>2, <1>3, <2>2, <1>d
  <2> QED  BY <2>1, <2>2
<1>8. ASSUME NEW s \in Slot, NEW t \in Slot, NEW k \in DOMAIN next[s], NEW l \in DOMAIN next[t],
             next[s][k] = next[t][l], s # t
      PROVE  FALSE
  <2>1. CASE s # to /\ t # to  BY <1>2, <1>8, <2>1, <1>b
  <2>2. ASSUME NEW u \in Slot, NEW x \in DOMAIN next[u], NEW y \in DOMAIN next[to],
               u # to, next[u][x] = next[to][y]
        PROVE  FALSE
    <3>1. u # from /\ next[u] = table[u] /\ x \in DOMAIN table[u]  BY <1>2, <2>2
    <3>2. CASE y \in DOMAIN table[from] /\ next[to][y] = table[from][y]
      BY <2>2, <3>1, <3>2, <1>b
    <3>3. CASE /\ head + y - old \in head .. last - 1
               /\ next[to][y] = queue[(head + y - old) % NumPages]
      BY <2>2, <3>1, <3>3, <1>4, <1>d
    <3> QED  BY <3>2, <3>3, <1>1
  <2>3. CASE s = to  BY <1>8, <2>2, <2>3
  <2>4. CASE t = to  BY <1>8, <2>2, <2>4
  <2> QED  BY <2>1, <2>3, <2>4
<1>9. ASSUME NEW k \in DOMAIN next[to], NEW l \in DOMAIN next[to], next[to][k] = next[to][l]
      PROVE  k = l
  <2>1. ASSUME NEW x \in DOMAIN next[to], NEW y \in DOMAIN next[to],
               x \in DOMAIN table[from], next[to][x] = table[from][x],
               head + y - old \in head .. last - 1,
               next[to][y] = queue[(head + y - old) % NumPages]
        PROVE  next[to][x] # next[to][y]
    BY <2>1, <1>4, <1>d
  <2>2. CASE /\ k \in DOMAIN table[from] /\ next[to][k] = table[from][k]
             /\ l \in DOMAIN table[from] /\ next[to][l] = table[from][l]
    <3>1. table[from][k] = table[from][l]  BY <1>9, <2>2
    <3>2. \A x, y \in DOMAIN table[from] : table[from][x] = table[from][y] => x = y
      <4> SUFFICES ASSUME NEW x \in DOMAIN table[from], NEW y \in DOMAIN table[from],
                          table[from][x] = table[from][y]
                   PROVE  x = y
        OBVIOUS
      <4>1. from \in Slot  OBVIOUS
      <4> QED  BY <4>1, <1>b
    <3> QED  BY <2>2, <3>1, <3>2, Zenon
  <2>3. CASE /\ k \in old .. pages - 1 /\ head + k - old \in head .. last - 1
             /\ next[to][k] = queue[(head + k - old) % NumPages]
             /\ l \in old .. pages - 1 /\ head + l - old \in head .. last - 1
             /\ next[to][l] = queue[(head + l - old) % NumPages]
    <3>1. head + k - old = head + l - old  BY <1>9, <2>3, <1>4, <1>c
    <3> QED  BY <2>3, <3>1, SMT
  <2> DEFINE Kept(x) == x \in DOMAIN table[from] /\ next[to][x] = table[from][x]
             New(x) == /\ x \in old .. pages - 1 /\ head + x - old \in head .. last - 1
                       /\ next[to][x] = queue[(head + x - old) % NumPages]
  <2>4. (Kept(k) \/ New(k)) /\ (Kept(l) \/ New(l))  BY <1>1
  <2>5. CASE Kept(k) /\ New(l)  BY <1>9, <2>1, <2>5
  <2>6. CASE New(k) /\ Kept(l)  BY <1>9, <2>1, <2>6
  <2>7. CASE Kept(k) /\ Kept(l)  BY <2>2, <2>7
  <2>8. CASE New(k) /\ New(l)  BY <2>3, <2>8
  <2> HIDE DEF Kept, New
  <2> QED  BY <2>4, <2>5, <2>6, <2>7, <2>8
<1>10. ASSUME NEW p \in Page
       PROVE  \/ \E i \in last .. tail - 1 : queue[i % NumPages] = p
              \/ \E s \in Slot : \E k \in DOMAIN next[s] : next[s][k] = p
  <2>1. ASSUME NEW i \in head .. tail - 1, queue[i % NumPages] = p, ~(last <= i)
        PROVE  \E k \in DOMAIN next[to] : next[to][k] = p
    <3> DEFINE k == i - head + old
    <3>1. k \in old .. pages - 1 /\ head + k - old = i /\ k \in 0 .. pages - 1
      BY <1>0, <2>1, SMT DEF last
    <3> HIDE DEF k
    <3> QED  BY <2>1, <3>1
  <2>2. ASSUME NEW s \in Slot, NEW k \in DOMAIN table[s], table[s][k] = p
        PROVE  \E t \in Slot : \E l \in DOMAIN next[t] : next[t][l] = p
    <3>1. CASE s = from
      <4>1. k \in DOMAIN next[to] /\ next[to][k] = p
        <5>1. k \in 0 .. old - 1 /\ k \in 0 .. pages - 1  BY <2>2, <3>1, SMT
        <5> QED  BY <2>2, <3>1, <5>1
      <4> QED  BY <4>1
    <3>2. CASE s # from
      <4>1. s # to  BY <2>2, <3>2
      <4> QED  BY <2>2, <3>2, <4>1
    <3> QED  BY <3>1, <3>2
  <2>3. ASSUME NEW i \in head .. tail - 1, last <= i  PROVE i \in last .. tail - 1
    BY <1>0, <2>3, SMT
  <2>4. CASE \E i \in head .. tail - 1 : queue[i % NumPages] = p  BY <2>1, <2>3, <2>4
  <2>5. CASE \E s \in Slot : \E k \in DOMAIN table[s] : table[s][k] = p  BY <2>2, <2>5
  <2> QED  BY <2>4, <2>5, <1>e
<1>11. \A i, j \in last .. tail - 1 : queue[i % NumPages] = queue[j % NumPages] => i = j
  BY <1>3, <1>c
<1>12. last <= tail  BY <1>0
<1>13. \A s, t \in Slot : \A k \in DOMAIN next[s], l \in DOMAIN next[t] :
         next[s][k] = next[t][l] => s = t /\ k = l
  <2> SUFFICES ASSUME NEW s \in Slot, NEW t \in Slot, NEW k \in DOMAIN next[s],
                      NEW l \in DOMAIN next[t], next[s][k] = next[t][l]
               PROVE  s = t /\ k = l
    OBVIOUS
  <2>1. s = t  BY <1>8
  <2>2. CASE s = to  BY <2>1, <2>2, <1>9
  <2>3. CASE s # to  BY <2>1, <2>3, <1>2, <1>b
  <2> QED  BY <2>1, <2>2, <2>3
<1>14. Consistent(next, queue, last, tail)
  BY <1>6, <1>7, <1>10, <1>11, <1>12, <1>13 DEF Consistent
<1> QED  BY <1>14 DEF last

\* Slot s gives its n pages back, behind the tail of the ring.
Gives(next, ring, table, queue, head, tail, s, n) ==
    /\ DOMAIN table[s] = 0 .. n - 1
    /\ \A t \in Slot \ {s} : next[t] = table[t]
    /\ DOMAIN next[s] = {}
    /\ \A i \in head .. tail - 1 : ring[i % NumPages] = queue[i % NumPages]
    /\ \A k \in 0 .. n - 1 : ring[(tail + k) % NumPages] = table[s][k]

\* Giving the pages of a slot back to the ring keeps it and the table consistent.
LEMMA GivePages ==
    ASSUME NEW table, NEW queue \in [Page -> Page], NEW head \in Nat, NEW tail \in Nat,
           Consistent(table, queue, head, tail),
           NEW s \in Slot, NEW n \in Nat, NEW next, NEW ring,
           Gives(next, ring, table, queue, head, tail, s, n)
    PROVE  Consistent(next, ring, head, tail + n)
<1>g. /\ DOMAIN table[s] = 0 .. n - 1
      /\ \A t \in Slot \ {s} : next[t] = table[t]
      /\ DOMAIN next[s] = {}
      /\ \A i \in head .. tail - 1 : ring[i % NumPages] = queue[i % NumPages]
      /\ \A k \in 0 .. n - 1 : ring[(tail + k) % NumPages] = table[s][k]
  BY DEF Gives
<1> USE <1>g
<1> DEFINE last == tail + n
<1>a. \A u \in Slot : \A k \in DOMAIN table[u] : k \in 0 .. MaxPages - 1 /\ table[u][k] \in Page
  BY DEF Consistent
<1>b. \A u, v \in Slot : \A k \in DOMAIN table[u], l \in DOMAIN table[v] :
        table[u][k] = table[v][l] => u = v /\ k = l
  BY DEF Consistent
<1>c. \A i, j \in head .. tail - 1 : queue[i % NumPages] = queue[j % NumPages] => i = j
  BY DEF Consistent
<1>d. \A i \in head .. tail - 1 : \A u \in Slot : \A k \in DOMAIN table[u] :
        queue[i % NumPages] # table[u][k]
  BY DEF Consistent
<1>e. \A p \in Page : \/ \E i \in head .. tail - 1 : queue[i % NumPages] = p
                      \/ \E u \in Slot : \E k \in DOMAIN table[u] : table[u][k] = p
  BY DEF Consistent
<1>0. head <= tail /\ last \in Nat /\ tail <= last  BY SMT DEF Consistent
<1>1. ASSUME NEW i \in head .. last - 1
      PROVE  \/ i \in head .. tail - 1 /\ ring[i % NumPages] = queue[i % NumPages]
             \/ \E k \in DOMAIN table[s] : i = tail + k /\ ring[i % NumPages] = table[s][k]
  <2>1. CASE i < tail
    <3>1. i \in head .. tail - 1  BY <2>1, SMT
    <3> QED  BY <3>1
  <2>2. CASE ~(i < tail)
    <3>1. PICK k \in 0 .. n - 1 : i = tail + k
      <4>1. i - tail \in 0 .. n - 1 /\ i = tail + (i - tail)  BY <2>2, SMT
      <4> QED  BY <4>1
    <3> QED  BY <3>1
  <2> QED  BY <2>1, <2>2
<1>2. ASSUME NEW t \in Slot, NEW k \in DOMAIN next[t]
      PROVE  t # s /\ next[t] = table[t] /\ k \in DOMAIN table[t]
  BY <1>2
<1>3. ASSUME NEW i \in head .. tail - 1  PROVE i \in head .. last - 1
  BY <1>0, SMT
<1>4. ASSUME NEW k \in DOMAIN table[s]  PROVE tail + k \in head .. last - 1
  BY <1>0, SMT
<1> HIDE DEF last
<1>5. \A t \in Slot : \A k \in DOMAIN next[t] : k \in 0 .. MaxPages - 1 /\ next[t][k] \in Page
  BY <1>2, <1>a
<1>6. \A t, u \in Slot : \A k \in DOMAIN next[t], l \in DOMAIN next[u] :
        next[t][k] = next[u][l] => t = u /\ k = l
  BY <1>2, <1>b
<1>7. ASSUME NEW i \in head .. last - 1, NEW j \in head .. last - 1,
             ring[i % NumPages] = ring[j % NumPages]
      PROVE  i = j
  <2>1. CASE /\ i \in head .. tail - 1 /\ ring[i % NumPages] = queue[i % NumPages]
             /\ j \in head .. tail - 1 /\ ring[j % NumPages] = queue[j % NumPages]
    BY <1>7, <2>1, <1>c
  <2>2. ASSUME NEW x \in head .. tail - 1, ring[x % NumPages] = queue[x % NumPages],
               NEW y, NEW k \in DOMAIN table[s], ring[y % NumPages] = table[s][k]
        PROVE  ring[x % NumPages] # ring[y % NumPages]
    BY <2>2, <1>d
  <2>3. ASSUME NEW k \in DOMAIN table[s], i = tail + k, ring[i % NumPages] = table[s][k],
               NEW l \in DOMAIN table[s], j = tail + l, ring[j % NumPages] = table[s][l]
        PROVE  i = j
    BY <1>7, <2>3, <1>b
  <2> QED  BY <1>1, <1>7, <2>1, <2>2, <2>3
<1>8. ASSUME NEW i \in head .. last - 1, NEW t \in Slot, NEW k \in DOMAIN next[t]
      PROVE  ring[i % NumPages] # next[t][k]
  <2>1. t # s /\ next[t] = table[t] /\ k \in DOMAIN table[t]  BY <1>2
  <2>2. CASE i \in head .. tail - 1 /\ ring[i % NumPages] = queue[i % NumPages]
    BY <2>1, <2>2, <1>d
  <2>3. CASE \E l \in DOMAIN table[s] : i = tail + l /\ ring[i % NumPages] = table[s][l]
    BY <2>1, <2>3, <1>b
  <2> QED  BY <1>1, <2>2, <2>3
<1>9. ASSUME NEW p \in Page
      PROVE  \/ \E i \in head .. last - 1 : ring[i % NumPages] = p
             \/ \E t \in Slot : \E k \in DOMAIN next[t] : next[t][k] = p
  <2>1. CASE \E i \in head .. tail - 1 : queue[i % NumPages] = p  BY <2>1, <1>3
  <2>2. ASSUME NEW t \in Slot, NEW k \in DOMAIN table[t], table[t][k] = p
        PROVE  \/ \E i \in head .. last - 1 : ring[i % NumPages] = p
               \/ \E u \in Slot : \E l \in DOMAIN next[u] : next[u][l] = p
    <3>1. CASE t = s  BY <2>2, <3>1, <1>4
    <3>2. CASE t # s  BY <2>2, <3>2
    <3> QED  BY <3>1, <3>2
  <2> QED  BY <2>1, <2>2, <1>e
<1>10. head <= last  BY <1>0, SMT
<1> QED  BY <1>5, <1>6, <1>7, <1>8, <1>9, <1>10 DEF Consistent, last

-----------------------------------------------------------------------------
(* The rows of the table, before and after a step.                          *)

\* A row of the table, by what its slot holds.
LEMMA Rows ==
    ASSUME NEW s \in Slot
    PROVE  /\ Holder(s) => /\ DOMAIN Table[s] = 0 .. Pages(s) - 1
                           /\ \A k \in 0 .. Pages(s) - 1 : Table[s][k] = Entry(s, k)
           /\ ~Holder(s) => DOMAIN Table[s] = {}
<1>1. Table[s] = IF Holder(s) THEN [k \in 0 .. Pages(s) - 1 |-> Entry(s, k)] ELSE << >>
  BY DEF Table
<1>2. DOMAIN << >> = {}  OBVIOUS
<1> QED  BY <1>1, <1>2

\* A row of the table after a step.
LEMMA NextRows ==
    ASSUME NEW s \in Slot
    PROVE  /\ Holder(s)' => /\ DOMAIN Table'[s] = 0 .. Pages(s)' - 1
                            /\ \A k \in 0 .. Pages(s)' - 1 : Table'[s][k] = Entry(s, k)'
           /\ ~Holder(s)' => DOMAIN Table'[s] = {}
<1>1. Table'[s] = IF Holder(s)' THEN [k \in 0 .. Pages(s)' - 1 |-> Entry(s, k)'] ELSE << >>
  BY DEF Table
<1>2. DOMAIN << >> = {}  OBVIOUS
<1> QED  BY <1>1, <1>2

\* A step after which every slot holds the same request and the same pages keeps
\* all that is said of slots, requests and pages.
LEMMA NothingMoves ==
    ASSUME SlotsOK, RequestsOK, PagesOK,
           UNCHANGED requestVars,
           UNCHANGED << page_queue, page_queue_head, page_queue_tail >>,
           \A s \in Slot : (Holder(s)' <=> Holder(s)),
           \A s \in Slot : Holder(s) =>
             /\ request_ids'[s] = request_ids[s]
             /\ Pages(s)' = Pages(s)
             /\ Length(s)' = Length(s)
             /\ Planned(s)' => /\ Planned(s)
                               /\ Tokens(s)' = Tokens(s)
                               /\ last_page_len'[s] = last_page_len[s]
             /\ \A k \in 0 .. Pages(s) - 1 : Entry(s, k)' = Entry(s, k)
    PROVE  SlotsOK' /\ RequestsOK' /\ PagesOK'
<1>1. UNCHANGED << tokens, prompt_length, step, next_request_id >>
  BY DEF requestVars
<1>2. SlotsOK'
  <2> SUFFICES ASSUME NEW s \in Slot, Holder(s)'  PROVE SlotOK(s)'
    BY DEF SlotsOK
  <2>1. Holder(s) /\ request_ids'[s] = request_ids[s] /\ SlotOK(s)  BY DEF SlotsOK
  <2>2. Complete(request_ids[s])' = Complete(request_ids[s])  BY <1>1, <2>1 DEF Complete
  <2>3. PagesFor(Length(s))' = PagesFor(Length(s))  BY <2>1 DEF PagesFor
  <2>4. LastPageLen(Length(s))' = LastPageLen(Length(s))  BY <2>1 DEF LastPageLen
  <2> QED  BY <1>1, <2>1, <2>2, <2>3, <2>4 DEF SlotOK
<1>3. RequestsOK'
  <2>1. \A r \in Request : Complete(r)' = Complete(r)  BY <1>1 DEF Complete
  <2>2. \A s, t \in Slot : Holder(s)' /\ Holder(t)' /\ request_ids'[s] = request_ids'[t] => s = t
    BY DEF RequestsOK
  <2>3. ASSUME NEW r \in Request, r < next_request_id'
        PROVE  Complete(r)' \/ \E s \in Slot : Holder(s)' /\ request_ids'[s] = r
    <3>1. Complete(r) \/ \E s \in Slot : Holder(s) /\ request_ids[s] = r
      BY <1>1, <2>3 DEF RequestsOK
    <3> QED  BY <3>1, <2>1
  <2>4. \A r \in Request : (r >= next_request_id => step[r] = 0)
          /\ \A p \in Position : tokens[r][p] = "none" <=> p > step[r] /\ p >= prompt_length[r]
    BY DEF RequestsOK
  <2> QED  BY <1>1, <2>2, <2>3, <2>4 DEF RequestsOK
<1>4. PagesOK'
  <2>1. Table' = Table
    <3>1. ASSUME NEW s \in Slot
          PROVE  (IF Holder(s)' THEN [k \in 0 .. Pages(s)' - 1 |-> Entry(s, k)'] ELSE << >>)
                   = (IF Holder(s) THEN [k \in 0 .. Pages(s) - 1 |-> Entry(s, k)] ELSE << >>)
      OBVIOUS
    <3> QED  BY <3>1 DEF Table
  <2>2. Consistent(Table, page_queue, page_queue_head, page_queue_tail)  BY DEF PagesOK
  <2> HIDE DEF Table
  <2> QED  BY <2>1, <2>2 DEF PagesOK, Consistent
<1> QED  BY <1>2, <1>3, <1>4

\* What a slot that is held says of its request.
LEMMA HeldSlot ==
    ASSUME TypeOK, SlotsOK, NEW s \in Slot, Holder(s)
    PROVE  /\ SlotOK(s)
           /\ request_ids[s] \in Request /\ request_ids[s] < next_request_id
           /\ step[request_ids[s]] \in Nat /\ Length(s) \in Nat
           /\ step[request_ids[s]] <= Length(s) /\ Cached(s) \in 0 .. Length(s)
<1>1. SlotOK(s)  BY DEF SlotsOK
<1>2. request_ids[s] \in Request /\ request_ids[s] < next_request_id
  <2>1. request_ids[s] \in 0 .. next_request_id - 1  BY <1>1 DEF SlotOK
  <2>2. next_request_id \in 0 .. TotalNumRequests  BY DEF TypeOK
  <2> QED  BY <2>1, <2>2, Sizes, SMT DEF Request
<1>3. step[request_ids[s]] \in Nat
  <2>1. step \in [Request -> 0 .. MaxSeqLength]  BY DEF TypeOK
  <2> QED  BY <1>2, <2>1, Sizes, SMT
<1>4. Planned(s) => Tokens(s) \in Nat  BY <1>1, Sizes, SMT DEF SlotOK
<1>5. Length(s) = step[request_ids[s]] + (IF Planned(s) THEN Tokens(s) ELSE 0)  BY DEF Length
<1>6. Length(s) \in Nat /\ step[request_ids[s]] <= Length(s)
  BY <1>3, <1>4, <1>5, SMT
<1>7. Cached(s) \in 0 .. Length(s)
  <2>1. Cached(s) = Length(s) \/ Cached(s) = step[request_ids[s]]  BY DEF Cached
  <2> QED  BY <1>3, <1>6, <2>1, SMT
<1> QED  BY <1>1, <1>2, <1>3, <1>6, <1>7

\* The cache stays right when nothing moves and nothing is written.
LEMMA CacheStays ==
    ASSUME TypeOK, SlotsOK, CacheOK, kv_cache' = kv_cache,
           \A s \in Slot : Holder(s)' =>
             /\ Holder(s)
             /\ request_ids'[s] = request_ids[s]
             /\ Cached(s)' = Cached(s)
             /\ \A k \in 0 .. Pages(s) - 1 : Entry(s, k)' = Entry(s, k)
    PROVE  CacheOK'
<1> SUFFICES ASSUME NEW s \in Slot, Holder(s)', NEW p \in 0 .. Cached(s)' - 1
             PROVE  kv_cache'[Entry(s, p \div PageSize)'][p % PageSize] = << request_ids'[s], p >>
  BY DEF CacheOK
<1>1. Holder(s) /\ p \in 0 .. Cached(s) - 1  OBVIOUS
<1>2. SlotOK(s) /\ Length(s) \in Nat /\ Cached(s) \in 0 .. Length(s)  BY <1>1, HeldSlot
<1>3. p \in 0 .. Length(s) - 1  BY <1>1, <1>2, SMT
<1>4. p \div PageSize \in 0 .. Pages(s) - 1  BY <1>2, <1>3, PageOfPosition DEF SlotOK
<1>5. kv_cache[Entry(s, p \div PageSize)][p % PageSize] = << request_ids[s], p >>
  BY <1>1 DEF CacheOK
<1> QED  BY <1>1, <1>4, <1>5

-----------------------------------------------------------------------------
(* A request is scheduled into slot d, where it takes the pages it has in   *)
(* slot `from` with it.                                                     *)

Moved(d, from, r, n, old, pages) ==
    /\ Growing /\ Growing'
    /\ d \in Slot /\ from \in Slot /\ r \in Request /\ n \in 0 .. MaxTokensPerRequest
    /\ UNCHANGED << tokens, prompt_length, step >>
    /\ UNCHANGED << page_queue, page_queue_tail, kv_cache >>
    /\ next_request_id' \in Nat /\ r < next_request_id' /\ next_request_id <= next_request_id'
    /\ \A q \in Request : q < next_request_id' => q < next_request_id \/ q = r
    /\ step[r] + n \in 1 .. MaxSeqLength
    /\ \A p \in step[r] .. step[r] + n - 1 : tokens[r][p] # "none"
    /\ step[r] > 0 => ~Complete(r)'
    /\ old = PagesFor(step[r]) /\ pages = PagesFor(step[r] + n)
    /\ DOMAIN Table[from] = 0 .. old - 1
    /\ Holder(from) => request_ids[from] = r
    /\ \A s \in Slot : Holder(s) /\ request_ids[s] = r => s = from
    /\ from # d => ~Holder(d) /\ ~Holder(from)'
    /\ request_ids' = [request_ids EXCEPT ![d] = r]
    /\ page_queue_head' = page_queue_head + pages - old
    /\ Holder(d)'
    /\ \A s \in Slot \ {d, from} : Holder(s)' <=> Holder(s)
    /\ \A s \in Slot \ {d, from} : Holder(s) =>
         /\ Pages(s)' = Pages(s)
         /\ Length(s)' = Length(s)
         /\ Planned(s)' => /\ Planned(s)
                           /\ Tokens(s)' = Tokens(s)
                           /\ last_page_len'[s] = last_page_len[s]
         /\ \A k \in 0 .. Pages(s) - 1 : Entry(s, k)' = Entry(s, k)
    /\ Pages(d)' = pages /\ Length(d)' = step[r] + n /\ Tokens(d)' = n
    /\ last_page_len'[d] = LastPageLen(step[r] + n)
    /\ \A k \in 0 .. old - 1 : Entry(d, k)' = Table[from][k]
    /\ \A k \in old .. pages - 1 :
         Entry(d, k)' = page_queue[(page_queue_head + k - old) % NumPages]

\* Scheduling a request into a slot keeps what is said of slots, requests, pages and
\* the cache.
LEMMA Scheduled ==
    ASSUME TypeOK, SlotsOK, RequestsOK, PagesOK, CacheOK,
           NEW d, NEW from, NEW r, NEW n, NEW old, NEW pages,
           Moved(d, from, r, n, old, pages)
    PROVE  SlotsOK' /\ RequestsOK' /\ PagesOK' /\ CacheOK'
<1>m. /\ Growing /\ Growing'
      /\ d \in Slot /\ from \in Slot /\ r \in Request /\ n \in 0 .. MaxTokensPerRequest
      /\ UNCHANGED << tokens, prompt_length, step >>
      /\ UNCHANGED << page_queue, page_queue_tail, kv_cache >>
      /\ next_request_id' \in Nat /\ r < next_request_id' /\ next_request_id <= next_request_id'
      /\ \A q \in Request : q < next_request_id' => q < next_request_id \/ q = r
      /\ step[r] + n \in 1 .. MaxSeqLength
      /\ \A p \in step[r] .. step[r] + n - 1 : tokens[r][p] # "none"
      /\ step[r] > 0 => ~Complete(r)'
      /\ old = PagesFor(step[r]) /\ pages = PagesFor(step[r] + n)
      /\ DOMAIN Table[from] = 0 .. old - 1
      /\ Holder(from) => request_ids[from] = r
      /\ \A s \in Slot : Holder(s) /\ request_ids[s] = r => s = from
      /\ from # d => ~Holder(d) /\ ~Holder(from)'
      /\ request_ids' = [request_ids EXCEPT ![d] = r]
      /\ page_queue_head' = page_queue_head + pages - old
      /\ Holder(d)'
      /\ \A s \in Slot \ {d, from} : Holder(s)' <=> Holder(s)
      /\ \A s \in Slot \ {d, from} : Holder(s) =>
           /\ Pages(s)' = Pages(s)
           /\ Length(s)' = Length(s)
           /\ Planned(s)' => /\ Planned(s)
                             /\ Tokens(s)' = Tokens(s)
                             /\ last_page_len'[s] = last_page_len[s]
           /\ \A k \in 0 .. Pages(s) - 1 : Entry(s, k)' = Entry(s, k)
      /\ Pages(d)' = pages /\ Length(d)' = step[r] + n /\ Tokens(d)' = n
      /\ last_page_len'[d] = LastPageLen(step[r] + n)
      /\ \A k \in 0 .. old - 1 : Entry(d, k)' = Table[from][k]
      /\ \A k \in old .. pages - 1 :
           Entry(d, k)' = page_queue[(page_queue_head + k - old) % NumPages]
  BY DEF Moved
<1> USE <1>m
<1>1. /\ old \in Nat /\ pages \in Nat /\ old <= pages /\ pages <= MaxPages
      /\ step[r] \in Nat
  <2>1. step[r] \in Nat  BY SMT DEF TypeOK
  <2>2. step[r] + n \in Nat /\ step[r] <= step[r] + n /\ step[r] + n <= MaxSeqLength /\ MaxSeqLength \in Nat
    BY <2>1, Sizes, SMT
  <2> QED  BY <2>1, <2>2, PagesGrow DEF MaxPages
<1>2. PagesOK'
  <2>1. Consistent(Table, page_queue, page_queue_head, page_queue_tail)  BY DEF PagesOK
  <2>2. /\ page_queue \in [Page -> Page] /\ page_queue_head \in Nat /\ page_queue_tail \in Nat
    BY DEF TypeOK
  <2>3. PICK table : table = Table  OBVIOUS
  <2>4. PICK next : next = Table'  OBVIOUS
  <2>5. pages - old <= page_queue_tail - page_queue_head
    <3>1. \A k \in old .. pages - 1 : k \notin DOMAIN table[from]  BY <1>1, <2>3, SMT
    <3> QED  BY <1>1, <2>1, <2>2, <2>3, <3>1, RoomForMore
  <2>6. \A s \in Slot \ {d, from} : next[s] = table[s]
    <3> SUFFICES ASSUME NEW s \in Slot \ {d, from}  PROVE Table'[s] = Table[s]  BY <2>3, <2>4
    <3>1. /\ Table[s] = IF Holder(s) THEN [k \in 0 .. Pages(s) - 1 |-> Entry(s, k)] ELSE << >>
          /\ Table'[s] = IF Holder(s)' THEN [k \in 0 .. Pages(s)' - 1 |-> Entry(s, k)'] ELSE << >>
      BY DEF Table
    <3>2. CASE Holder(s)  BY <3>1, <3>2
    <3>3. CASE ~Holder(s)  BY <3>1, <3>3
    <3> QED  BY <3>2, <3>3
  <2>7. DOMAIN next[d] = 0 .. pages - 1 /\ \A k \in 0 .. pages - 1 : next[d][k] = Entry(d, k)'
    BY <2>4, NextRows
  <2>8. /\ from # d => DOMAIN table[d] = {}
        /\ from # d => DOMAIN next[from] = {}
        /\ DOMAIN table[from] = 0 .. old - 1
    BY <2>3, <2>4, Rows, NextRows
  <2>9. \A k \in 0 .. old - 1 : next[d][k] = table[from][k]
    <3>1. \A k \in 0 .. old - 1 : k \in 0 .. pages - 1  BY <1>1, SMT
    <3> QED  BY <2>3, <2>7, <3>1
  <2>10. \A k \in old .. pages - 1 : next[d][k] = page_queue[(page_queue_head + k - old) % NumPages]
    <3>1. \A k \in old .. pages - 1 : k \in 0 .. pages - 1  BY <1>1, SMT
    <3> QED  BY <2>7, <3>1
  <2>11. Consistent(next, page_queue, page_queue_head + pages - old, page_queue_tail)
    <3>1. Consistent(table, page_queue, page_queue_head, page_queue_tail)  BY <2>1, <2>3
    <3>2. PICK h \in Nat, t \in Nat : h = page_queue_head /\ t = page_queue_tail  BY <2>2
    <3>3. PICK q \in [Page -> Page] : q = page_queue  BY <2>2
    <3>4. Consistent(table, q, h, t)  BY <3>1, <3>2, <3>3
    <3>5. Takes(next, table, q, h, t, d, from, old, pages)
      BY <1>1, <2>5, <2>6, <2>7, <2>8, <2>9, <2>10, <3>2, <3>3 DEF Takes
    <3>6. Consistent(next, q, h + pages - old, t)
      BY <1>1, <3>4, <3>5, TakePages, Zenon
    <3> QED  BY <3>2, <3>3, <3>6
  <2> HIDE DEF Table
  <2> QED  BY <2>4, <2>11 DEF PagesOK, Consistent
<1>3. /\ request_ids'[d] = r
      /\ \A s \in Slot \ {d} : request_ids'[s] = request_ids[s]
  BY DEF TypeOK
<1>4. ASSUME NEW q \in Request, q < next_request_id  PROVE Complete(q)' = Complete(q)
  <2>1. q < next_request_id'
    <3>1. q \in Nat /\ next_request_id \in Nat  BY SMT DEF TypeOK, Request
    <3> QED  BY <1>4, <3>1, SMT
  <2> QED  BY <1>4, <2>1 DEF Complete
<1>5. SlotsOK'
  <2> SUFFICES ASSUME NEW s \in Slot, Holder(s)'  PROVE SlotOK(s)'
    BY DEF SlotsOK
  <2>1. CASE s = d
    <3>1. PagesFor(Length(s))' = PagesFor(step[r] + n) /\ LastPageLen(Length(s))' = LastPageLen(step[r] + n)
      BY <2>1 DEF PagesFor, LastPageLen
    <3>2. r \in 0 .. next_request_id' - 1
      <4>1. r \in Nat  BY Sizes, SMT DEF Request
      <4>2. PICK x \in Nat : x = next_request_id'  OBVIOUS
      <4>3. r < x  BY <4>2
      <4>4. r \in 0 .. x - 1  BY <4>1, <4>3, SMT
      <4> QED  BY <4>2, <4>4
    <3>3. Complete(request_ids[s])' = Complete(r)'  BY <1>3, <2>1 DEF Complete
    <3>4. Length(s)' = step[r] + n /\ Pages(s)' = pages /\ Tokens(s)' = n  BY <2>1
    <3>5. request_ids'[s] = r /\ last_page_len'[s] = LastPageLen(step[r] + n)  BY <1>3, <2>1
    <3>6. Pages(s)' = PagesFor(Length(s))' /\ last_page_len'[s] = LastPageLen(Length(s))'
      BY <3>1, <3>4, <3>5
    <3>7. step'[request_ids'[s]] > 0 => ~Complete(request_ids[s])'  BY <3>3, <3>5
    <3>8. \A p \in step'[request_ids'[s]] .. Length(s)' - 1 : tokens'[request_ids'[s]][p] # "none"
      <4>1. PICK len : len = Length(s)'  OBVIOUS
      <4>2. len = step[r] + n  BY <3>4, <4>1
      <4>3. step'[request_ids'[s]] = step[r] /\ tokens'[request_ids'[s]] = tokens[r]  BY <3>5
      <4>4. \A p \in step'[request_ids'[s]] .. len - 1 : tokens'[request_ids'[s]][p] # "none"
        <5>0. n \in Int  BY SMT
        <5>a. PICK x \in Int : x = step[r]  BY <1>1
        <5>b. len = x + n  BY <4>2, <5>a
        <5>c. len - 1 = x + (n - 1)  BY <5>0, <5>b, SMT
        <5>1. len - 1 = step[r] + (n - 1)  BY <5>a, <5>c
        <5> QED  BY <4>3, <5>1
      <4> QED  BY <4>1, <4>4
    <3> HIDE DEF Length, Pages, Tokens, Planned, Complete, PagesFor, LastPageLen
    <3> QED  BY <3>2, <3>4, <3>5, <3>6, <3>7, <3>8 DEF SlotOK
  <2>2. CASE s # d
    <3>1. s \in Slot \ {d, from} /\ Holder(s)  BY <2>2
    <3>2. SlotOK(s)  BY <3>1 DEF SlotsOK
    <3>3. request_ids'[s] = request_ids[s]  BY <1>3, <3>1
    <3>4. /\ request_ids[s] \in 0 .. next_request_id - 1 /\ request_ids[s] \in 0 .. next_request_id' - 1
          /\ request_ids[s] \in Request /\ request_ids[s] < next_request_id
      <4>1. request_ids[s] \in 0 .. next_request_id - 1  BY <3>2 DEF SlotOK
      <4>2. next_request_id \in 0 .. TotalNumRequests  BY DEF TypeOK
      <4> QED  BY <4>1, <4>2, Sizes, SMT DEF Request
    <3>5. Complete(request_ids[s])' = Complete(request_ids[s])
      <4>1. Complete(request_ids[s])' <=>
              /\ request_ids[s] < next_request_id'
              /\ \/ step[request_ids[s]] + 1 >= MaxSeqLength
                 \/ /\ tokens[request_ids[s]][step[request_ids[s]]] = "eos"
                    /\ step[request_ids[s]] >= prompt_length[request_ids[s]]
        BY <3>3 DEF Complete
      <4>2. request_ids[s] < next_request_id'  BY <3>4, SMT
      <4> QED  BY <4>1, <4>2, <3>4 DEF Complete
    <3>6. PagesFor(Length(s))' = PagesFor(Length(s))  BY <3>1 DEF PagesFor
    <3>7. LastPageLen(Length(s))' = LastPageLen(Length(s))  BY <3>1 DEF LastPageLen
    <3> QED  BY <3>1, <3>2, <3>3, <3>4, <3>5, <3>6, <3>7 DEF SlotOK
  <2> QED  BY <2>1, <2>2
<1>6. RequestsOK'
  <2>1. ASSUME NEW s \in Slot, NEW t \in Slot, Holder(s)', Holder(t)', request_ids'[s] = request_ids'[t]
        PROVE  s = t
    <3>1. \A u \in Slot : Holder(u)' /\ u # d => Holder(u) /\ u # from /\ request_ids'[u] = request_ids[u]
      BY <1>3
    <3>2. \A u \in Slot : Holder(u)' /\ request_ids'[u] = r => u = d
      BY <3>1
    <3>3. CASE s = d \/ t = d  BY <1>3, <2>1, <3>2, <3>3
    <3>4. CASE s # d /\ t # d  BY <2>1, <3>1, <3>4 DEF RequestsOK
    <3> QED  BY <3>3, <3>4
  <2>2. ASSUME NEW q \in Request, q < next_request_id'
        PROVE  Complete(q)' \/ \E s \in Slot : Holder(s)' /\ request_ids'[s] = q
    <3>1. CASE q = r  BY <1>3, <3>1
    <3>2. CASE q # r
      <4>1. q < next_request_id  BY <2>2, <3>2
      <4>2. CASE Complete(q)  BY <1>4, <4>1, <4>2
      <4>3. CASE \E s \in Slot : Holder(s) /\ request_ids[s] = q
        <5>1. PICK s \in Slot : Holder(s) /\ request_ids[s] = q  BY <4>3
        <5>2. s # from /\ s # d  BY <5>1, <3>2
        <5>3. Holder(s)' /\ request_ids'[s] = q  BY <5>1, <5>2, <1>3
        <5> QED  BY <5>3
      <4> QED  BY <4>1, <4>2, <4>3 DEF RequestsOK
    <3> QED  BY <3>1, <3>2
  <2>3. ASSUME NEW q \in Request
        PROVE  /\ q >= next_request_id' => step'[q] = 0
               /\ \A p \in Position :
                    tokens'[q][p] = "none" <=> p > step'[q] /\ p >= prompt_length'[q]
    <3>1. q >= next_request_id' => q >= next_request_id
      <4>1. q \in Nat /\ next_request_id \in Nat  BY SMT DEF TypeOK, Request
      <4> QED  BY <4>1, SMT
    <3> QED  BY <3>1 DEF RequestsOK
  <2> QED  BY <2>1, <2>2, <2>3 DEF RequestsOK
<1>7. CacheOK'
  <2>1. pc # "finalize" /\ pc' # "finalize"  BY DEF Growing
  <2> SUFFICES ASSUME NEW s \in Slot, Holder(s)', NEW p \in 0 .. step'[request_ids'[s]] - 1
               PROVE  kv_cache'[Entry(s, p \div PageSize)'][p % PageSize] = << request_ids'[s], p >>
    BY <2>1 DEF CacheOK, Cached
  <2>2. \A u \in Slot : Holder(u) => \A x \in 0 .. step[request_ids[u]] - 1 :
          kv_cache[Entry(u, x \div PageSize)][x % PageSize] = << request_ids[u], x >>
    BY <2>1 DEF CacheOK, Cached
  <2>3. CASE s = d
    <3>1. p \in 0 .. step[r] - 1  BY <1>3, <2>3
    <3>2. p \div PageSize \in 0 .. old - 1  BY <3>1, <1>1, PageOfPosition
    <3>3. Entry(d, p \div PageSize)' = Table[from][p \div PageSize]  BY <3>2
    <3>4. Holder(from)  BY <3>2, Rows
    <3>5. Table[from][p \div PageSize] = Entry(from, p \div PageSize)  BY <3>2, <3>4, Rows
    <3>6. kv_cache[Entry(from, p \div PageSize)][p % PageSize] = << r, p >>  BY <2>2, <3>1, <3>4
    <3> QED  BY <1>3, <2>3, <3>3, <3>5, <3>6
  <2>4. CASE s # d
    <3>1. s \in Slot \ {d, from} /\ Holder(s) /\ request_ids'[s] = request_ids[s]  BY <1>3, <2>4
    <3>2. SlotOK(s)  BY <3>1 DEF SlotsOK
    <3>3. step[request_ids[s]] \in Nat /\ step[request_ids[s]] <= Length(s) /\ Length(s) \in Nat
      <4>1. request_ids[s] \in Request /\ step \in [Request -> 0 .. MaxSeqLength]
        <5>1. request_ids[s] \in 0 .. next_request_id - 1  BY <3>2 DEF SlotOK
        <5>2. next_request_id \in 0 .. TotalNumRequests  BY DEF TypeOK
        <5>3. request_ids[s] \in Request  BY <5>1, <5>2, Sizes, SMT DEF Request
        <5> QED  BY <5>3 DEF TypeOK
      <4>2. Planned(s) => Tokens(s) \in Nat  BY <3>2, Sizes, SMT DEF SlotOK
      <4>3. Length(s) = step[request_ids[s]] + (IF Planned(s) THEN Tokens(s) ELSE 0)  BY DEF Length
      <4>4. step[request_ids[s]] \in Nat  BY <4>1, Sizes, SMT
      <4> HIDE DEF Planned, Tokens, Length
      <4> QED  BY <4>2, <4>3, <4>4, SMT
    <3>4. p \in 0 .. Length(s) - 1 /\ p \in 0 .. step[request_ids[s]] - 1  BY <3>1, <3>3, SMT
    <3>5. p \div PageSize \in 0 .. Pages(s) - 1  BY <3>2, <3>3, <3>4, PageOfPosition DEF SlotOK
    <3> QED  BY <2>2, <3>1, <3>4, <3>5
  <2> QED  BY <2>3, <2>4
<1> QED  BY <1>2, <1>5, <1>6, <1>7

-----------------------------------------------------------------------------
(* What Schedule does, for a request that moves down and for a new one.     *)

\* The slot num_reqs is given to r with n more tokens; it had its pages in `from`,
\* at `first` of the old table.
Placed(r, n, from, first, old) ==
    /\ r \in Request /\ n \in Nat
    /\ n <= MaxTokensPerRequest /\ n <= MaxBatchedTokens - num_tokens
    /\ num_reqs = 0 => n > 0
    /\ num_reqs \in Slot /\ from \in Slot /\ num_reqs <= from
    /\ step[r] + n \in 1 .. MaxSeqLength
    /\ old = PagesFor(step[r])
    /\ DOMAIN Table[from] = 0 .. old - 1
    /\ \A k \in 0 .. old - 1 : smem_kv_indices[first + k] = Table[from][k]
    /\ Growing /\ Growing'
    /\ pc' = "continue" => num_reqs + 1 <= slot'
    /\ \A s \in Slot : (Behind(s)' <=> Behind(s) /\ s # from) /\ (Behind(s) => s >= from)
    /\ Schedule(r, n, step[r], first, old)
    /\ request_ids' = [request_ids EXCEPT ![num_reqs] = r]
    /\ UNCHANGED << tokens, prompt_length, step, page_queue, page_queue_tail,
                    smem_kv_indices, kv_cache >>

\* The bounds of what is placed.
LEMMA PlacedBounds ==
    ASSUME TypeOK, LocalsOK, NEW r, NEW n, NEW from, NEW first, NEW old,
           Placed(r, n, from, first, old)
    PROVE  /\ step[r] \in Nat /\ old \in Nat
           /\ PagesFor(step[r] + n) \in Nat /\ old <= PagesFor(step[r] + n)
           /\ PagesFor(step[r] + n) <= MaxPages
           /\ num_reqs \in Nat /\ num_reqs + 1 <= MaxBatchedRequests
           /\ num_pages \in Nat /\ num_tokens \in Nat
           /\ num_pages + PagesFor(step[r] + n) <= (num_reqs + 1) * MaxPages
           /\ num_pages + PagesFor(step[r] + n) <= NumPages
<1>1. step[r] \in Nat /\ n \in Nat /\ step[r] + n \in 1 .. MaxSeqLength
  BY SMT DEF TypeOK, Placed
<1>2. old \in Nat /\ PagesFor(step[r] + n) \in Nat /\ old <= PagesFor(step[r] + n)
  <2>1. step[r] + n \in Nat /\ step[r] <= step[r] + n  BY <1>1, SMT
  <2>2. old = PagesFor(step[r])  BY DEF Placed
  <2> QED  BY <1>1, <2>1, <2>2, PagesGrow
<1>3. PagesFor(step[r] + n) <= MaxPages
  <2>1. step[r] + n \in Nat /\ step[r] + n <= MaxSeqLength /\ MaxSeqLength \in Nat
    BY <1>1, Sizes, SMT
  <2> QED  BY <2>1, PagesGrow DEF MaxPages
<1>4. num_reqs \in Nat /\ num_reqs + 1 <= MaxBatchedRequests /\ num_pages \in Nat /\ num_tokens \in Nat
  <2>1. num_reqs \in Slot  BY DEF Placed
  <2>2. num_pages \in 0 .. NumPages /\ num_tokens \in 0 .. MaxBatchedTokens  BY DEF TypeOK
  <2> QED  BY <2>1, <2>2, Sizes, SMT DEF Slot
<1>5. num_pages <= num_reqs * MaxPages  BY DEF LocalsOK, Placed
<1>6. PICK B \in Nat \ {0}, M \in Nat \ {0}, P \in Nat \ {0} :
        B = MaxBatchedRequests /\ M = MaxPages /\ P = NumPages /\ B * M <= P
  <2>1. MaxPages \in Nat \ {0}  BY Sizes, PagesFill DEF MaxPages
  <2> QED  BY <2>1, Sizes
<1>7. PICK d \in Nat : d = num_reqs  BY <1>4
<1>8. PICK m \in Nat : m = PagesFor(step[r] + n)  BY <1>2
<1>9. PICK k \in Nat : k = num_pages  BY <1>4
<1>10. m <= M /\ d + 1 <= B /\ k <= d * M  BY <1>3, <1>4, <1>5, <1>6, <1>7, <1>8, <1>9
<1>11. (d + 1) * M = d * M + M /\ d * M \in Int  BY <1>6, SMT
<1>12. (d + 1) * M <= B * M  BY <1>6, <1>10, Monotone
<1>13. k + m <= (d + 1) * M /\ k + m <= P
  <2>1. (d + 1) * M \in Int /\ B * M \in Int  BY <1>6, SMT
  <2> QED  BY <1>6, <1>10, <1>11, <1>12, <2>1, SMT
<1> QED  BY <1>1, <1>2, <1>3, <1>4, <1>6, <1>7, <1>8, <1>9, <1>13

\* The slots before and after.
LEMMA PlacedHolders ==
    ASSUME TypeOK, LocalsOK, NEW r, NEW n, NEW from, NEW first, NEW old,
           Placed(r, n, from, first, old), NEW d, d = num_reqs
    PROVE  /\ ~Behind(d)' /\ ~Behind(from)'
           /\ Holder(d)'
           /\ from # d => ~Holder(d) /\ ~Holder(from)'
           /\ \A s \in Slot \ {d, from} :
                /\ (Holder(s)' <=> Holder(s)) /\ (Behind(s)' <=> Behind(s))
                /\ request_ids'[s] = request_ids[s]
           /\ \A s \in Slot : ~Behind(s) /\ Holder(s) => s < d
           /\ \A s \in Slot : Behind(s) => s > d \/ s = from
<1>1. /\ d \in Slot /\ from \in Slot /\ d <= from
      /\ Growing /\ Growing'
      /\ \A s \in Slot : (Behind(s)' <=> Behind(s) /\ s # from) /\ (Behind(s) => s >= from)
      /\ num_reqs' = d + 1
      /\ request_ids' = [request_ids EXCEPT ![d] = r]
  BY DEF Placed, Schedule
<1>2. Slot \subseteq Nat  BY Sizes, SMT DEF Slot
<1>3. ~Behind(d)' /\ ~Behind(from)'
  BY <1>1, <1>2, SMT
<1>4. \A s \in Slot : request_ids'[s] = IF s = d THEN r ELSE request_ids[s]
  BY <1>1 DEF TypeOK
<1>5. \A s \in Slot : /\ Holder(s) <=> IF Behind(s) THEN request_ids[s] # NoRequest ELSE s < d
                      /\ Holder(s)' <=> IF Behind(s)' THEN request_ids'[s] # NoRequest
                                        ELSE s < d + 1
  BY <1>1 DEF Holder
<1>6. ASSUME NEW s \in Slot \ {d, from}
      PROVE  (Holder(s)' <=> Holder(s)) /\ (Behind(s)' <=> Behind(s)) /\ request_ids'[s] = request_ids[s]
  <2>1. request_ids'[s] = request_ids[s] /\ (Behind(s)' <=> Behind(s))  BY <1>1, <1>4
  <2>2. s < d + 1 <=> s < d  BY <1>1, <1>2, SMT
  <2> QED  BY <1>5, <2>1, <2>2
<1>7. Holder(d)'
  <2>1. d < d + 1  BY <1>1, <1>2, SMT
  <2> QED  BY <1>1, <1>3, <1>5, <2>1
<1>8. ASSUME from # d  PROVE ~Holder(d) /\ ~Holder(from)'
  <2>1. ~(from < d + 1) /\ ~(d >= from) /\ ~(d < d)
    BY <1>1, <1>2, <1>8, SMT
  <2> QED  BY <1>1, <1>3, <1>5, <2>1
<1>9. \A s \in Slot : ~Behind(s) /\ Holder(s) => s < d  BY <1>5
<1>10. \A s \in Slot : Behind(s) => s > d \/ s = from
  <2> TAKE s \in Slot
  <2>1. s \in Nat /\ d \in Nat /\ from \in Nat  BY <1>1, <1>2
  <2> QED  BY <1>1, <2>1, SMT
<1> QED  BY <1>3, <1>6, <1>7, <1>8, <1>9, <1>10

\* The slots that are not concerned keep their pages and tokens.
LEMMA PlacedOthers ==
    ASSUME TypeOK, LocalsOK, TableOK, NEW r, NEW n, NEW from, NEW first, NEW old,
           Placed(r, n, from, first, old),
           NEW s \in Slot \ {num_reqs, from}, Holder(s)
    PROVE  /\ PagesEnd(s)' = PagesEnd(s) /\ kv_indptr'[s] = kv_indptr[s]
           /\ Pages(s)' = Pages(s) /\ Length(s)' = Length(s)
           /\ (Planned(s)' <=> Planned(s)) /\ Tokens(s)' = Tokens(s)
           /\ last_page_len'[s] = last_page_len[s]
           /\ \A k \in 0 .. Pages(s) - 1 : Entry(s, k)' = Entry(s, k)
<1> DEFINE pages == PagesFor(step[r] + n)
<1>1. Growing /\ Growing' /\ Schedule(r, n, step[r], first, old)
      /\ UNCHANGED << step, smem_kv_indices >>
  BY DEF Placed
<1>2. /\ num_reqs' = num_reqs + 1
      /\ qo_indptr' = [qo_indptr EXCEPT ![num_reqs] = num_tokens]
      /\ kv_indptr' = [kv_indptr EXCEPT ![num_reqs] = num_pages]
      /\ last_page_len' = [last_page_len EXCEPT ![num_reqs] = LastPageLen(step[r] + n)]
      /\ kv_indices' = [j \in Page |->
                LET k == j - num_pages
                IN  IF k \in 0 .. old - 1 THEN OldPage(first + k)
                    ELSE IF k \in old .. pages - 1
                    THEN page_queue[(page_queue_head + k - old) % NumPages]
                    ELSE kv_indices[j]]
  BY <1>1 DEF Schedule
<1> HIDE DEF pages
<1>3. s \in Nat /\ num_reqs \in Nat /\ s + 1 \in 0 .. MaxBatchedRequests /\ s \in 0 .. MaxBatchedRequests
      /\ s # num_reqs
  BY PlacedBounds, Sizes, SMT DEF Slot
<1>4. /\ kv_indptr'[s] = kv_indptr[s] /\ qo_indptr'[s] = qo_indptr[s]
      /\ kv_indptr'[s + 1] = IF s + 1 = num_reqs THEN num_pages ELSE kv_indptr[s + 1]
      /\ qo_indptr'[s + 1] = IF s + 1 = num_reqs THEN num_tokens ELSE qo_indptr[s + 1]
      /\ last_page_len'[s] = last_page_len[s]
  BY <1>2, <1>3 DEF TypeOK
<1>5. s + 1 # num_reqs'  BY <1>2, <1>3, SMT
<1>6. PagesEnd(s)' = PagesEnd(s) /\ TokensEnd(s)' = TokensEnd(s)
  BY <1>1, <1>4, <1>5 DEF PagesEnd, TokensEnd
<1>7. Pages(s)' = Pages(s) /\ Tokens(s)' = Tokens(s)  BY <1>4, <1>6 DEF Pages, Tokens
<1>8. (Behind(s)' <=> Behind(s)) /\ request_ids'[s] = request_ids[s]  BY PlacedHolders
<1>9. (Planned(s)' <=> Planned(s))  BY <1>1, <1>8 DEF Planned, Growing
<1>10. Length(s)' = Length(s)  BY <1>1, <1>7, <1>8, <1>9 DEF Length
<1>11. ASSUME NEW k \in 0 .. Pages(s) - 1  PROVE Entry(s, k)' = Entry(s, k)
  <2>1. CASE Behind(s)  BY <1>1, <1>4, <1>8, <2>1 DEF Entry
  <2>2. CASE ~Behind(s)
    <3>1. s < num_reqs  BY <2>2, PlacedHolders
    <3>2. PagesEnd(s) <= num_pages
      <4>1. s \in 0 .. num_reqs - 1  BY <1>3, <3>1, SMT
      <4> QED  BY <1>1, <4>1 DEF TableOK
    <3>3. PICK a \in 0 .. NumPages, e \in 0 .. NumPages, m \in 0 .. NumPages :
            a = kv_indptr[s] /\ e = PagesEnd(s) /\ m = num_pages
      BY <1>3 DEF TypeOK, PagesEnd
    <3>4. Pages(s) = e - a  BY <3>3 DEF Pages
    <3> DEFINE j == a + k
    <3>5. j \in 0 .. NumPages - 1 /\ j < m
      <4>1. k \in 0 .. e - a - 1 /\ e <= m  BY <3>2, <3>3, <3>4
      <4> QED  BY <3>3, <4>1, Sizes, SMT
    <3> HIDE DEF j
    <3>6. j \in Page /\ j - m \notin 0 .. old - 1 /\ j - m \notin old .. pages - 1
      <4>1. old \in Nat  BY PlacedBounds
      <4> QED  BY <3>3, <3>5, <4>1, SMT DEF Page
    <3>7. kv_indices'[j] = kv_indices[j]  BY <1>2, <3>3, <3>6
    <3> QED  BY <1>4, <1>8, <2>2, <3>3, <3>7 DEF Entry, PageOf, j
  <2> QED  BY <2>1, <2>2
<1> QED  BY <1>4, <1>6, <1>7, <1>9, <1>10, <1>11

\* The slot that is filled.
LEMMA PlacedOne ==
    ASSUME TypeOK, LocalsOK, NEW r, NEW n, NEW from, NEW first, NEW old,
           Placed(r, n, from, first, old), NEW d, d = num_reqs
    PROVE  /\ PagesEnd(d)' = num_pages' /\ kv_indptr'[d] = num_pages
           /\ Pages(d)' = PagesFor(step[r] + n)
           /\ Tokens(d)' = n /\ Length(d)' = step[r] + n
           /\ last_page_len'[d] = LastPageLen(step[r] + n)
           /\ \A k \in 0 .. old - 1 : Entry(d, k)' = Table[from][k]
           /\ \A k \in old .. PagesFor(step[r] + n) - 1 :
                Entry(d, k)' = page_queue[(page_queue_head + k - old) % NumPages]
<1> DEFINE pages == PagesFor(step[r] + n)
<1>1. /\ Growing /\ Growing' /\ Schedule(r, n, step[r], first, old)
      /\ UNCHANGED << step, smem_kv_indices >> /\ d \in Slot /\ n \in Nat
      /\ request_ids' = [request_ids EXCEPT ![d] = r]
      /\ \A k \in 0 .. old - 1 : smem_kv_indices[first + k] = Table[from][k]
  BY DEF Placed
<1>2. /\ num_reqs' = d + 1
      /\ num_tokens' = num_tokens + n
      /\ num_pages' = num_pages + pages
      /\ qo_indptr' = [qo_indptr EXCEPT ![d] = num_tokens]
      /\ kv_indptr' = [kv_indptr EXCEPT ![d] = num_pages]
      /\ last_page_len' = [last_page_len EXCEPT ![d] = LastPageLen(step[r] + n)]
      /\ kv_indices' = [j \in Page |->
                LET k == j - num_pages
                IN  IF k \in 0 .. old - 1 THEN OldPage(first + k)
                    ELSE IF k \in old .. pages - 1
                    THEN page_queue[(page_queue_head + k - old) % NumPages]
                    ELSE kv_indices[j]]
  BY <1>1 DEF Schedule
<1>3. /\ pages \in Nat /\ old \in Nat /\ old <= pages /\ num_pages \in Nat /\ num_tokens \in Nat
      /\ num_pages + pages <= NumPages /\ d \in Nat /\ step[r] \in Nat
  BY PlacedBounds
<1> HIDE DEF pages
<1>4. d \in 0 .. MaxBatchedRequests  BY <1>1, Sizes, SMT DEF Slot
<1>5. kv_indptr'[d] = num_pages /\ qo_indptr'[d] = num_tokens /\ request_ids'[d] = r
      /\ last_page_len'[d] = LastPageLen(step[r] + n)
  BY <1>1, <1>2, <1>4 DEF TypeOK
<1>6. PagesEnd(d)' = num_pages' /\ TokensEnd(d)' = num_tokens'
  BY <1>1, <1>2 DEF PagesEnd, TokensEnd
<1>7. Pages(d)' = pages /\ Tokens(d)' = n
  <2>1. Pages(d)' = num_pages' - num_pages /\ Tokens(d)' = num_tokens' - num_tokens
    BY <1>5, <1>6 DEF Pages, Tokens
  <2>2. num_pages' - num_pages = pages /\ num_tokens' - num_tokens = n
    BY <1>1, <1>2, <1>3, SMT
  <2> QED  BY <2>1, <2>2
<1>8. ~Behind(d)' /\ Planned(d)'
  <2>1. ~Behind(d)'  BY PlacedHolders
  <2> QED  BY <1>1, <2>1 DEF Planned, Growing
<1>9. Length(d)' = step[r] + n
  BY <1>1, <1>5, <1>7, <1>8 DEF Length
<1>10. ASSUME NEW k \in 0 .. pages - 1
       PROVE  Entry(d, k)' = IF k \in 0 .. old - 1 THEN smem_kv_indices[first + k]
                             ELSE page_queue[(page_queue_head + k - old) % NumPages]
  <2>1. PICK m \in Nat, P \in Nat : m = num_pages /\ P = NumPages  BY <1>3, Sizes
  <2> DEFINE j == m + k
  <2>2. j \in 0 .. P - 1 /\ j - m = k /\ (k \in 0 .. old - 1 \/ k \in old .. pages - 1)
    <3>1. m + pages <= P  BY <1>3, <2>1
    <3> QED  BY <1>3, <2>1, <3>1, SMT
  <2> HIDE DEF j
  <2>3. j \in Page  BY <2>1, <2>2 DEF Page
  <2>4. kv_indices'[j] = IF k \in 0 .. old - 1 THEN smem_kv_indices[first + k]
                         ELSE page_queue[(page_queue_head + k - old) % NumPages]
    BY <1>2, <2>1, <2>2, <2>3 DEF OldPage
  <2>5. Entry(d, k)' = kv_indices'[j]
    BY <1>5, <1>8, <2>1 DEF Entry, PageOf, j
  <2> QED  BY <2>4, <2>5
<1>11. ASSUME NEW k \in 0 .. old - 1  PROVE Entry(d, k)' = Table[from][k]
  <2>1. k \in 0 .. pages - 1  BY <1>3, SMT
  <2> QED  BY <1>1, <1>10, <2>1
<1>12. ASSUME NEW k \in old .. pages - 1
       PROVE  Entry(d, k)' = page_queue[(page_queue_head + k - old) % NumPages]
  <2>1. k \in 0 .. pages - 1 /\ k \notin 0 .. old - 1  BY <1>3, SMT
  <2> QED  BY <1>10, <2>1
<1> QED  BY <1>5, <1>6, <1>7, <1>9, <1>11, <1>12 DEF pages

-----------------------------------------------------------------------------
(* The steps that place a request keep the invariant.                       *)

\* Schedule stays within the types, the ends of the arrays and the pool included.
LEMMA PlacedTypes ==
    ASSUME TypeOK, LocalsOK, PagesOK, NEW r, NEW n, NEW from, NEW first, NEW old,
           Placed(r, n, from, first, old),
           slot' \in Slot, next_request_id' \in 0 .. TotalNumRequests,
           prompt_length' = prompt_length
    PROVE  TypeOK'
<1> DEFINE pages == PagesFor(step[r] + n)
<1>1. /\ Growing' /\ Schedule(r, n, step[r], first, old)
      /\ UNCHANGED << tokens, step, page_queue, page_queue_tail, smem_kv_indices >>
      /\ r \in Request /\ from \in Slot /\ num_reqs \in Slot /\ n \in Nat
      /\ n <= MaxBatchedTokens - num_tokens
      /\ request_ids' = [request_ids EXCEPT ![num_reqs] = r]
      /\ \A k \in 0 .. old - 1 : smem_kv_indices[first + k] = Table[from][k]
      /\ DOMAIN Table[from] = 0 .. old - 1
      /\ step[r] + n \in 1 .. MaxSeqLength
  BY DEF Placed
<1>2. /\ num_reqs' = num_reqs + 1
      /\ num_tokens' = num_tokens + n
      /\ num_pages' = num_pages + pages
      /\ page_queue_head' = HeadAfter(pages, old)
      /\ qo_indptr' = [qo_indptr EXCEPT ![num_reqs] = num_tokens]
      /\ kv_indptr' = [kv_indptr EXCEPT ![num_reqs] = num_pages]
      /\ last_page_len' = [last_page_len EXCEPT ![num_reqs] = LastPageLen(step[r] + n)]
      /\ kv_indices' = [j \in Page |->
                LET k == j - num_pages
                IN  IF k \in 0 .. old - 1 THEN OldPage(first + k)
                    ELSE IF k \in old .. pages - 1
                    THEN page_queue[(page_queue_head + k - old) % NumPages]
                    ELSE kv_indices[j]]
  BY <1>1 DEF Schedule
<1>3. /\ pages \in Nat /\ old \in Nat /\ old <= pages /\ num_pages \in Nat /\ num_tokens \in Nat
      /\ num_pages + pages <= NumPages /\ num_reqs \in Nat /\ num_reqs + 1 <= MaxBatchedRequests
  BY PlacedBounds
<1> HIDE DEF pages
<1>4. num_reqs' \in 0 .. MaxBatchedRequests
  BY <1>2, <1>3, Sizes, SMT
<1>5. num_tokens \in 0 .. MaxBatchedTokens /\ num_pages \in 0 .. NumPages  BY DEF TypeOK
<1>6. num_tokens' \in 0 .. MaxBatchedTokens /\ num_pages' \in 0 .. NumPages
  BY <1>1, <1>2, <1>3, <1>5, Sizes, SMT
<1>7. LastPageLen(step[r] + n) \in 0 .. PageSize
  <2>1. step[r] + n \in Nat \ {0}  BY <1>1, SMT
  <2>2. LastPageLen(step[r] + n) \in 1 .. PageSize  BY <2>1, PagesFill
  <2> QED  BY <2>2, Sizes, SMT
<1>8. kv_indices' \in [Page -> Page]
  <2> SUFFICES ASSUME NEW j \in Page  PROVE kv_indices'[j] \in Page
    BY <1>2
  <2>1. PICK k : k = j - num_pages  OBVIOUS
  <2>2. kv_indices'[j] = IF k \in 0 .. old - 1 THEN smem_kv_indices[first + k]
                         ELSE IF k \in old .. pages - 1
                         THEN page_queue[(page_queue_head + k - old) % NumPages]
                         ELSE kv_indices[j]
    BY <1>2, <2>1 DEF OldPage
  <2>3. kv_indices[j] \in Page  BY DEF TypeOK
  <2>4. CASE k \in 0 .. old - 1
    <3>1. Table[from][k] \in Page  BY <1>1, <2>4 DEF PagesOK, Consistent
    <3> QED  BY <1>1, <2>2, <2>4, <3>1
  <2>5. CASE k \notin 0 .. old - 1 /\ k \in old .. pages - 1
    <3>1. PICK h \in Nat : h = page_queue_head  BY DEF TypeOK
    <3>2. PICK P \in Nat \ {0} : P = NumPages  BY Sizes
    <3>3. h + k - old \in Int  BY <1>3, <2>5, <3>1, SMT
    <3>4. (h + k - old) % P \in 0 .. P - 1  BY <3>2, <3>3, Euclid
    <3>5. page_queue \in [0 .. P - 1 -> Page]  BY <3>2 DEF TypeOK, Page
    <3> QED  BY <2>2, <2>5, <3>1, <3>2, <3>4, <3>5
  <2> QED  BY <2>2, <2>3, <2>4, <2>5
<1>9. page_queue_head' \in Nat
  <2>1. page_queue_head \in Nat  BY DEF TypeOK
  <2> QED  BY <1>2, <1>3, <2>1, SMT DEF HeadAfter
<1>10. pc' \in {"finalize", "continue", "admit", "run", "finished"}  BY <1>1 DEF Growing
<1>11. /\ qo_indptr' \in [0 .. MaxBatchedRequests -> 0 .. MaxBatchedTokens]
       /\ kv_indptr' \in [0 .. MaxBatchedRequests -> 0 .. NumPages]
       /\ last_page_len' \in [Slot -> 0 .. PageSize]
       /\ request_ids' \in [Slot -> Request \cup {NoRequest}]
  BY <1>1, <1>2, <1>5, <1>7 DEF TypeOK
<1> QED  BY <1>1, <1>4, <1>6, <1>8, <1>9, <1>10, <1>11 DEF TypeOK

\* Schedule keeps the counters and the rows of the table.
LEMMA PlacedLocals ==
    ASSUME TypeOK, LocalsOK, TableOK, NEW r, NEW n, NEW from, NEW first, NEW old,
           Placed(r, n, from, first, old), slot' \in Slot
    PROVE  LocalsOK' /\ TableOK'
<1> DEFINE pages == PagesFor(step[r] + n)
<1>1. /\ Growing /\ Growing' /\ Schedule(r, n, step[r], first, old)
      /\ smem_kv_indices' = smem_kv_indices /\ n \in Nat /\ (num_reqs = 0 => n > 0)
      /\ pc' = "continue" => num_reqs + 1 <= slot'
      /\ num_reqs \in Slot /\ from \in Slot /\ num_reqs <= from
      /\ \A s \in Slot : (Behind(s)' <=> Behind(s) /\ s # from) /\ (Behind(s) => s >= from)
  BY DEF Placed
<1>2. /\ num_reqs' = num_reqs + 1
      /\ num_tokens' = num_tokens + n
      /\ num_pages' = num_pages + pages
  BY <1>1 DEF Schedule
<1>3. /\ pages \in Nat /\ num_pages \in Nat /\ num_tokens \in Nat
      /\ num_pages + pages <= (num_reqs + 1) * MaxPages /\ num_reqs \in Nat
  BY PlacedBounds
<1> HIDE DEF pages
<1>4. pc' \in {"continue", "admit"} /\ pc \in {"continue", "admit"}  BY <1>1 DEF Growing
<1>5. LocalsOK'
  <2>1. num_reqs > 0 => num_tokens > 0  BY <1>1 DEF LocalsOK
  <2>2. num_tokens' > 0 /\ num_reqs' > 0  BY <1>1, <1>2, <1>3, <2>1, SMT
  <2>3. num_pages' <= num_reqs' * MaxPages  BY <1>2, <1>3
  <2>4. (num_pages <= num_reqs * MaxPages)' /\ (num_reqs > 0 <=> num_tokens > 0)'
    BY <2>2, <2>3 DEF MaxPages, PagesFor
  <2>5. pc' = "continue" => num_reqs' <= slot'  BY <1>1, <1>2
  <2> QED  BY <1>4, <2>4, <2>5 DEF LocalsOK, MaxPages, PagesFor
<1>6. PICK d \in Slot : d = num_reqs  BY <1>1
<1>7. Slot \subseteq Nat  BY Sizes, SMT DEF Slot
<1>8. PagesEnd(d)' = num_pages' /\ kv_indptr'[d] = num_pages /\ Holder(d)' /\ ~Behind(d)'
  BY <1>6, PlacedOne, PlacedHolders
<1>9. \A s \in Slot \ {d, from} :
        /\ Holder(s)' <=> Holder(s)
        /\ Behind(s)' <=> Behind(s)
        /\ Holder(s) => PagesEnd(s)' = PagesEnd(s) /\ kv_indptr'[s] = kv_indptr[s]
  BY <1>6, PlacedHolders, PlacedOthers
<1>10. TableOK'
  <2>1. ASSUME NEW s \in Slot, Holder(s)', Behind(s)'
        PROVE  0 .. PagesEnd(s)' - 1 \subseteq DOMAIN smem_kv_indices'
    <3>1. s \in Slot \ {d, from} /\ Holder(s) /\ Behind(s)  BY <1>1, <1>8, <1>9, <2>1
    <3>2. 0 .. PagesEnd(s) - 1 \subseteq DOMAIN smem_kv_indices  BY <3>1 DEF TableOK
    <3>3. PagesEnd(s)' = PagesEnd(s)  BY <1>9, <3>1
    <3> QED  BY <1>1, <3>2, <3>3
  <2>2. \A s \in Slot : s < d => s \in 0 .. num_reqs - 1 /\ Holder(s) /\ ~Behind(s) /\ s \in Slot \ {d, from}
    <3> SUFFICES ASSUME NEW s \in Slot, s < d
                 PROVE  s \in 0 .. num_reqs - 1 /\ Holder(s) /\ ~Behind(s) /\ s \in Slot \ {d, from}
      OBVIOUS
    <3>1. s \in 0 .. num_reqs - 1 /\ s # d /\ s # from /\ ~(s >= from)
      BY <1>1, <1>6, <1>7, SMT
    <3>2. ~Behind(s)  BY <1>1, <3>1
    <3> QED  BY <1>1, <1>6, <3>1, <3>2 DEF Holder
  <2>3. ASSUME NEW s \in 0 .. num_reqs' - 1  PROVE PagesEnd(s)' <= num_pages'
    <3>1. CASE s = d
      <4>1. num_pages' \in Nat  BY <1>2, <1>3, SMT
      <4>2. PICK x \in Nat : x = num_pages'  BY <4>1
      <4>3. x <= x  OBVIOUS
      <4> QED  BY <1>8, <3>1, <4>2, <4>3
    <3>2. CASE s # d
      <4>1. s \in Slot /\ s < d
        <5>1. s \in 0 .. d  BY <1>2, <1>6, <1>3, SMT
        <5> QED  BY <3>2, <5>1, <1>6, Sizes, SMT DEF Slot
      <4>2. PagesEnd(s) <= num_pages  BY <1>1, <2>2, <4>1 DEF TableOK
      <4>3. PagesEnd(s)' = PagesEnd(s)  BY <1>9, <2>2, <4>1
      <4>4. PagesEnd(s) \in Nat
        <5>1. s + 1 \in 0 .. MaxBatchedRequests  BY <4>1, Sizes, SMT DEF Slot
        <5> QED  BY <5>1, <1>3, Sizes, SMT DEF PagesEnd, TypeOK
      <4>5. PICK e \in Nat : e = PagesEnd(s)  BY <4>4
      <4>6. e <= num_pages + pages  BY <1>3, <4>2, <4>5, SMT
      <4> QED  BY <1>2, <4>3, <4>5, <4>6
    <3> QED  BY <3>1, <3>2
  <2>4. ASSUME NEW i \in 0 .. num_pages' - 1
        PROVE  \E s \in Slot : ~Behind(s)' /\ Holder(s)' /\ i \in kv_indptr'[s] .. PagesEnd(s)' - 1
    <3>1. CASE i < num_pages
      <4>1. i \in 0 .. num_pages - 1  BY <1>3, <3>1, SMT
      <4>2. PICK s \in Slot : ~Behind(s) /\ Holder(s) /\ i \in kv_indptr[s] .. PagesEnd(s) - 1
        BY <1>1, <4>1 DEF TableOK
      <4>3. s < d  BY <1>6, <4>2, PlacedHolders
      <4>4. s \in Slot \ {d, from}  BY <2>2, <4>3
      <4>5. ~Behind(s)' /\ Holder(s)' /\ PagesEnd(s)' = PagesEnd(s) /\ kv_indptr'[s] = kv_indptr[s]
        BY <1>9, <4>2, <4>4
      <4> QED  BY <4>2, <4>5
    <3>2. CASE ~(i < num_pages)
      <4>1. i \in num_pages .. num_pages' - 1  BY <1>2, <1>3, <3>2, SMT
      <4> QED  BY <1>8, <4>1
    <3> QED  BY <3>1, <3>2
  <2> QED  BY <1>4, <2>1, <2>3, <2>4 DEF TableOK
<1> QED  BY <1>5, <1>10

\* Schedule keeps the invariant, given what its two callers know of the request.
LEMMA PlacedKeeps ==
    ASSUME IInv, NEW r, NEW n, NEW from, NEW first, NEW old,
           Placed(r, n, from, first, old),
           slot' \in Slot, next_request_id' \in 0 .. TotalNumRequests,
           prompt_length' = prompt_length,
           r < next_request_id', next_request_id <= next_request_id',
           \A q \in Request : q < next_request_id' => q < next_request_id \/ q = r,
           \A p \in step[r] .. step[r] + n - 1 : tokens[r][p] # "none",
           step[r] > 0 => ~Complete(r)',
           Holder(from) => request_ids[from] = r,
           \A s \in Slot : Holder(s) /\ request_ids[s] = r => s = from
    PROVE  IInv'
<1>1. TypeOK /\ LocalsOK /\ TableOK /\ SlotsOK /\ RequestsOK /\ PagesOK /\ CacheOK  BY DEF IInv
<1>2. TypeOK' /\ LocalsOK' /\ TableOK'  BY <1>1, PlacedTypes, PlacedLocals
<1>3. PICK d \in Slot : d = num_reqs  BY DEF Placed
<1>4. PICK pages : pages = PagesFor(step[r] + n)  OBVIOUS
<1>5. /\ Growing /\ Growing' /\ from \in Slot /\ r \in Request /\ n \in 0 .. MaxTokensPerRequest
      /\ UNCHANGED << tokens, prompt_length, step >>
      /\ UNCHANGED << page_queue, page_queue_tail, kv_cache >>
      /\ step[r] + n \in 1 .. MaxSeqLength /\ old = PagesFor(step[r])
      /\ DOMAIN Table[from] = 0 .. old - 1
      /\ request_ids' = [request_ids EXCEPT ![d] = r]
  <2>1. n \in 0 .. MaxTokensPerRequest  BY Sizes, SMT DEF Placed
  <2> QED  BY <1>3, <2>1 DEF Placed
<1>6. page_queue_head' = page_queue_head + pages - old
  <2>1. page_queue_head' = HeadAfter(pages, old)  BY <1>4 DEF Placed, Schedule
  <2>2. pages \in Nat /\ old \in Nat /\ old <= pages  BY <1>1, <1>4, PlacedBounds
  <2>3. page_queue_head \in Nat  BY <1>1 DEF TypeOK
  <2> QED  BY <2>1, <2>2, <2>3, SMT DEF HeadAfter
<1>7. /\ Holder(d)'
      /\ from # d => ~Holder(d) /\ ~Holder(from)'
      /\ \A s \in Slot \ {d, from} : Holder(s)' <=> Holder(s)
  BY <1>1, <1>3, PlacedHolders
<1>8. \A s \in Slot \ {d, from} : Holder(s) =>
        /\ Pages(s)' = Pages(s)
        /\ Length(s)' = Length(s)
        /\ Planned(s)' => /\ Planned(s)
                          /\ Tokens(s)' = Tokens(s)
                          /\ last_page_len'[s] = last_page_len[s]
        /\ \A k \in 0 .. Pages(s) - 1 : Entry(s, k)' = Entry(s, k)
  BY <1>1, <1>3, PlacedOthers
<1>9. /\ Pages(d)' = pages /\ Length(d)' = step[r] + n /\ Tokens(d)' = n
      /\ last_page_len'[d] = LastPageLen(step[r] + n)
      /\ \A k \in 0 .. old - 1 : Entry(d, k)' = Table[from][k]
      /\ \A k \in old .. pages - 1 :
           Entry(d, k)' = page_queue[(page_queue_head + k - old) % NumPages]
  BY <1>1, <1>3, <1>4, PlacedOne
<1>10. next_request_id' \in Nat  BY Sizes, SMT
<1>11. Moved(d, from, r, n, old, pages)
  BY <1>4, <1>5, <1>6, <1>7, <1>8, <1>9, <1>10 DEF Moved
<1>12. SlotsOK' /\ RequestsOK' /\ PagesOK' /\ CacheOK'  BY <1>1, <1>11, Scheduled, Zenon
<1> QED  BY <1>2, <1>12 DEF IInv

-----------------------------------------------------------------------------
(* Step 3 of prepare_next_batch.                                            *)

\* ContinueRequest moves a request down in the batch and keeps the invariant.
LEMMA ContinueKeeps ==
    ASSUME IInv, ContinueRequest
    PROVE  IInv'
<1>0. TypeOK /\ LocalsOK /\ TableOK /\ SlotsOK /\ RequestsOK /\ PagesOK /\ CacheOK  BY DEF IInv
<1>1. PICK from \in Slot : from = slot  BY <1>0 DEF TypeOK
<1>2. PICK r : r = request_ids[slot]  OBVIOUS
<1>3. PICK n : n = TokensToSchedule(r)  OBVIOUS
<1>4. PICK first : first = kv_indptr[slot]  OBVIOUS
<1>5. PICK old : old = PageCount(slot)  OBVIOUS
<1>6. /\ pc = "continue" /\ r # NoRequest
      /\ Schedule(r, n, step[r], first, old)
      /\ request_ids' = [request_ids EXCEPT ![num_reqs] = r]
      /\ AfterContinue
      /\ UNCHANGED << requestVars, page_queue, page_queue_tail, smem_kv_indices, kv_cache >>
  BY <1>2, <1>3, <1>4, <1>5 DEF ContinueRequest
<1>7. UNCHANGED << tokens, prompt_length, step, next_request_id >>  BY <1>6 DEF requestVars
<1>8. from \in Nat /\ num_reqs \in Nat /\ num_reqs <= from /\ num_reqs \in Slot
  <2>1. from \in 0 .. MaxBatchedRequests - 1  BY DEF Slot
  <2>2. num_reqs \in 0 .. MaxBatchedRequests /\ num_reqs <= from  BY <1>0, <1>1, <1>6 DEF TypeOK, LocalsOK
  <2> QED  BY <2>1, <2>2, Sizes, SMT DEF Slot
<1>9. Growing /\ Behind(from) /\ Holder(from) /\ ~Planned(from)
  <2>1. from >= slot  BY <1>1, <1>8, SMT
  <2> QED  BY <1>1, <1>2, <1>6, <2>1 DEF Growing, Behind, Holder, Planned
<1>10. /\ SlotOK(from) /\ r \in Request /\ r < next_request_id /\ step[r] \in Nat
       /\ Length(from) = step[r]
  <2>1. SlotOK(from) /\ request_ids[from] \in Request /\ request_ids[from] < next_request_id
        /\ step[request_ids[from]] \in Nat
    BY <1>0, <1>9, HeldSlot
  <2>2. Length(from) = step[request_ids[from]] + 0  BY <1>9 DEF Length
  <2> QED  BY <1>1, <1>2, <2>1, <2>2, SMT
<1>11. step[r] \in 1 .. MaxSeqLength /\ ~Complete(r) /\ Pages(from) = PagesFor(step[r])
  <2>1. step[r] \in 1 .. MaxSeqLength /\ (step[r] > 0 => ~Complete(r)) /\ Pages(from) = PagesFor(step[r])
    BY <1>1, <1>2, <1>10 DEF SlotOK
  <2> QED  BY <2>1, SMT
<1>12. Pages(from) = old
  <2>1. from + 1 # num_reqs  BY <1>8, SMT
  <2> QED  BY <1>1, <1>5, <2>1 DEF Pages, PagesEnd, PageCount
<1>13. step[r] + 1 < MaxSeqLength  BY <1>10, <1>11, Sizes, SMT DEF Complete
<1>14. prompt_length[r] \in 1 .. MaxSeqLength /\ num_tokens \in 0 .. MaxBatchedTokens
  BY <1>0, <1>10 DEF TypeOK
<1>15. num_reqs = 0 => num_tokens = 0
  <2>1. num_reqs > 0 <=> num_tokens > 0  BY <1>0, <1>9 DEF LocalsOK
  <2> QED  BY <1>8, <1>14, <2>1, SMT
<1>16. PICK L \in Nat \ {0}, T \in Nat \ {0}, R \in Nat \ {0} :
         L = MaxSeqLength /\ T = MaxBatchedTokens /\ R = MaxTokensPerRequest
  BY Sizes
<1>17. PICK at \in Nat, t \in Nat, m \in Nat :
         at = step[r] /\ t = num_tokens /\ m = prompt_length[r] /\ m <= L /\ t <= T /\ at + 1 < L
  <2>1. num_tokens \in Nat /\ num_tokens <= T  BY <1>14, <1>16, SMT
  <2>2. prompt_length[r] \in Nat /\ prompt_length[r] <= L  BY <1>14, <1>16, SMT
  <2> QED  BY <1>10, <1>13, <1>16, <2>1, <2>2
<1>18. n = IF m - at > 0 THEN Minimum(m - at, Minimum(R, T - t)) ELSE Minimum(1, T - t)
  BY <1>3, <1>16, <1>17 DEF TokensToSchedule, PrefillTokens
<1>19. /\ n \in Nat /\ n <= R /\ n <= T - t /\ (t = 0 => n > 0) /\ at + n \in 1 .. L
       /\ (m - at > 0 => at + n <= m) /\ (~(m - at > 0) => n <= 1)
  <2>1. at >= 1  BY <1>11, <1>17, SMT
  <2> QED  BY <1>16, <1>17, <1>18, <2>1, SMT DEF Minimum
<1>20. \A p \in step[r] .. step[r] + n - 1 : tokens[r][p] # "none"
  <2> SUFFICES ASSUME NEW p \in at .. at + n - 1  PROVE tokens[r][p] # "none"  BY <1>17
  <2>1. p \in Position  BY <1>16, <1>17, <1>19, SMT DEF Position
  <2>2. ~(p > at /\ p >= m)  BY <1>17, <1>19, SMT
  <2> QED  BY <1>0, <1>10, <1>17, <2>1, <2>2 DEF RequestsOK
<1>21. /\ DOMAIN Table[from] = 0 .. old - 1
       /\ \A k \in 0 .. old - 1 : smem_kv_indices[first + k] = Table[from][k]
  BY <1>1, <1>4, <1>9, <1>12, Rows DEF Entry
<1>22. AfterContinue => \/ slot' = slot + 1 /\ pc' = pc /\ slot + 1 < MaxBatchedRequests
                        \/ slot' = 0 /\ pc' = "admit" /\ ~(slot + 1 < MaxBatchedRequests)
  BY DEF AfterContinue
<1>23. /\ Growing' /\ slot' \in Slot
       /\ pc' = "continue" => num_reqs + 1 <= slot'
       /\ \A s \in Slot : (Behind(s)' <=> Behind(s) /\ s # from) /\ (Behind(s) => s >= from)
  <2>0. Slot = 0 .. MaxBatchedRequests - 1 /\ MaxBatchedRequests \in Nat \ {0}  BY Sizes DEF Slot
  <2>1. CASE slot' = slot + 1 /\ pc' = pc /\ slot + 1 < MaxBatchedRequests
    <3>1. slot' \in Slot /\ num_reqs + 1 <= slot'  BY <1>1, <1>8, <2>0, <2>1, SMT
    <3>2. \A s \in Slot : (s >= slot' <=> s >= from /\ s # from)  BY <1>1, <1>8, <2>0, <2>1, SMT
    <3> QED  BY <1>1, <1>6, <2>1, <3>1, <3>2 DEF Behind, Growing
  <2>2. CASE slot' = 0 /\ pc' = "admit" /\ ~(slot + 1 < MaxBatchedRequests)
    <3>1. slot' \in Slot  BY <2>0, <2>2, SMT
    <3>2. \A s \in Slot : s >= from => s = from  BY <1>1, <1>8, <2>0, <2>2, SMT
    <3> QED  BY <1>1, <1>6, <2>2, <3>1, <3>2 DEF Behind, Growing
  <2> QED  BY <1>6, <1>22, <2>1, <2>2
<1>24. Placed(r, n, from, first, old)
  <2>1. /\ n <= MaxTokensPerRequest /\ n <= MaxBatchedTokens - num_tokens
        /\ num_reqs = 0 => n > 0
        /\ step[r] + n \in 1 .. MaxSeqLength
    BY <1>15, <1>16, <1>17, <1>19
  <2> QED  BY <1>6, <1>7, <1>8, <1>9, <1>10, <1>11, <1>12, <1>19, <1>21, <1>23, <2>1 DEF Placed
<1>25. /\ next_request_id' \in 0 .. TotalNumRequests
       /\ prompt_length' = prompt_length
       /\ r < next_request_id' /\ next_request_id <= next_request_id'
       /\ \A q \in Request : q < next_request_id' => q < next_request_id \/ q = r
  <2>1. next_request_id \in 0 .. TotalNumRequests  BY <1>0 DEF TypeOK
  <2>2. next_request_id <= next_request_id  BY <2>1, Sizes, SMT
  <2> QED  BY <1>7, <1>10, <2>1, <2>2
<1>26. ~Complete(r)'  BY <1>7, <1>11 DEF Complete
<1>27. \A s \in Slot : Holder(s) /\ request_ids[s] = r => s = from
  BY <1>0, <1>1, <1>2, <1>9 DEF RequestsOK
<1>28. Holder(from) => request_ids[from] = r  BY <1>1, <1>2
<1> QED  BY <1>20, <1>23, <1>24, <1>25, <1>26, <1>27, <1>28, PlacedKeeps

\* AdmitRequest puts a new request behind the others and keeps the invariant.
LEMMA AdmitKeeps ==
    ASSUME IInv, AdmitRequest
    PROVE  IInv'
<1>0. TypeOK /\ LocalsOK /\ TableOK /\ SlotsOK /\ RequestsOK /\ PagesOK /\ CacheOK  BY DEF IInv
<1>1. PICK r : r = next_request_id  OBVIOUS
<1>2. PICK n : n = PrefillTokens(prompt_length[r])  OBVIOUS
<1>3. /\ pc = "admit" /\ CanAdmit
      /\ Schedule(r, n, 0, 0, 0)
      /\ request_ids' = [request_ids EXCEPT ![num_reqs] = r]
      /\ next_request_id' = r + 1
      /\ UNCHANGED << tokens, prompt_length, step, page_queue, page_queue_tail,
                      pc, slot, smem_kv_indices, kv_cache >>
  BY <1>1, <1>2 DEF AdmitRequest
<1>4. r \in Request /\ r \in Nat /\ r + 1 \in 0 .. TotalNumRequests
  <2>1. r \in 0 .. TotalNumRequests /\ r < TotalNumRequests  BY <1>0, <1>1, <1>3 DEF TypeOK, CanAdmit
  <2> QED  BY <2>1, Sizes, SMT DEF Request
<1>5. num_reqs \in Slot /\ num_reqs \in Nat
  <2>1. num_reqs \in 0 .. MaxBatchedRequests /\ num_reqs < MaxBatchedRequests
    BY <1>0, <1>3 DEF TypeOK, CanAdmit
  <2> QED  BY <2>1, Sizes, SMT DEF Slot
<1>6. PICK from \in Slot : from = num_reqs  BY <1>5
<1>7. Growing /\ Growing' /\ \A s \in Slot : ~Behind(s) /\ ~Behind(s)'
  BY <1>3 DEF Growing, Behind
<1>8. ~Holder(from)
  <2>1. ~(num_reqs < num_reqs)  BY <1>5, SMT
  <2> QED  BY <1>6, <1>7, <2>1 DEF Holder
<1>9. step[r] = 0
  <2>1. r >= next_request_id  BY <1>1, <1>4, SMT
  <2> QED  BY <1>0, <1>4, <2>1 DEF RequestsOK
<1>10. PagesFor(0) = 0
  <2> DEFINE d == PageSize
  <2>1. d \in Nat \ {0}  BY Sizes
  <2> HIDE DEF d
  <2>2. 0 + d - 1 = 0 * d + (d - 1) /\ d - 1 \in 0 .. d - 1  BY <2>1, SMT
  <2>3. (0 + d - 1) \div d = 0  BY <2>1, <2>2, DivMod
  <2> QED  BY <2>3 DEF PagesFor, d
<1>11. PICK L \in Nat \ {0}, T \in Nat \ {0}, R \in Nat \ {0} :
         L = MaxSeqLength /\ T = MaxBatchedTokens /\ R = MaxTokensPerRequest
  BY Sizes
<1>12. PICK t \in Nat, m \in Nat :
         t = num_tokens /\ m = prompt_length[r] /\ m >= 1 /\ m <= L /\ t < T
  <2>1. num_tokens \in 0 .. MaxBatchedTokens /\ num_tokens < MaxBatchedTokens
    BY <1>0, <1>3 DEF TypeOK, CanAdmit
  <2>2. prompt_length[r] \in 1 .. MaxSeqLength  BY <1>0, <1>4 DEF TypeOK
  <2>3. num_tokens \in Nat /\ prompt_length[r] \in Nat /\ prompt_length[r] >= 1 /\ prompt_length[r] <= L
    BY <1>11, <2>1, <2>2, SMT
  <2> QED  BY <1>11, <2>1, <2>3
<1>13. n = Minimum(m, Minimum(R, T - t))  BY <1>2, <1>11, <1>12 DEF PrefillTokens
<1>14. n \in Nat /\ n <= R /\ n <= T - t /\ n > 0 /\ n <= m /\ 0 + n \in 1 .. L
  BY <1>11, <1>12, <1>13, SMT DEF Minimum
<1>15. \A p \in step[r] .. step[r] + n - 1 : tokens[r][p] # "none"
  <2> SUFFICES ASSUME NEW p \in 0 .. 0 + n - 1  PROVE tokens[r][p] # "none"  BY <1>9
  <2>1. p \in Position /\ ~(p >= m)  BY <1>11, <1>12, <1>14, SMT DEF Position
  <2> QED  BY <1>0, <1>4, <1>12, <2>1 DEF RequestsOK
<1>16. DOMAIN Table[from] = 0 .. 0 - 1 /\ \A k \in 0 .. 0 - 1 : smem_kv_indices[0 + k] = Table[from][k]
  <2>1. DOMAIN Table[from] = {}  BY <1>8, Rows
  <2>2. 0 .. 0 - 1 = {}  BY SMT
  <2> QED  BY <2>1, <2>2
<1>17. Placed(r, n, from, 0, 0)
  <2>1. /\ n <= MaxTokensPerRequest /\ n <= MaxBatchedTokens - num_tokens
        /\ num_reqs = 0 => n > 0
        /\ step[r] + n \in 1 .. MaxSeqLength
    BY <1>9, <1>11, <1>12, <1>14
  <2>2. 0 = PagesFor(step[r])  BY <1>9, <1>10
  <2>3. Schedule(r, n, step[r], 0, 0)  BY <1>3, <1>9
  <2>4. num_reqs <= from  BY <1>5, <1>6, SMT
  <2>5. ~(pc' = "continue")  BY <1>3
  <2> QED  BY <1>3, <1>4, <1>5, <1>6, <1>7, <1>14, <1>16, <2>1, <2>2, <2>3, <2>4, <2>5 DEF Placed
<1>18. /\ next_request_id' \in 0 .. TotalNumRequests /\ slot' \in Slot
       /\ prompt_length' = prompt_length
       /\ r < next_request_id' /\ next_request_id <= next_request_id'
       /\ \A q \in Request : q < next_request_id' => q < next_request_id \/ q = r
  <2>1. \A q \in Request : q < r + 1 => q < r \/ q = r  BY <1>4, Sizes, SMT DEF Request
  <2>2. r < r + 1 /\ r <= r + 1  BY <1>4, SMT
  <2>3. slot' \in Slot  BY <1>0, <1>3 DEF TypeOK
  <2> QED  BY <1>1, <1>3, <1>4, <2>1, <2>2, <2>3
<1>19. \A s \in Slot : Holder(s) /\ request_ids[s] = r => s = from
  <2> SUFFICES ASSUME NEW s \in Slot, Holder(s), request_ids[s] = r  PROVE FALSE  OBVIOUS
  <2>1. request_ids[s] < next_request_id  BY <1>0, HeldSlot
  <2> QED  BY <1>1, <1>4, <2>1, SMT
<1>20. ~(step[r] > 0)  BY <1>9, SMT
<1> QED  BY <1>8, <1>15, <1>17, <1>18, <1>19, <1>20, PlacedKeeps

\* SkipDoneSlot passes a slot that holds nothing.
LEMMA SkipDoneKeeps ==
    ASSUME IInv, SkipDoneSlot
    PROVE  IInv'
<1>0. TypeOK /\ LocalsOK /\ TableOK /\ SlotsOK /\ RequestsOK /\ PagesOK /\ CacheOK  BY DEF IInv
<1>1. /\ pc = "continue" /\ request_ids[slot] = NoRequest /\ AfterContinue
      /\ UNCHANGED << requestVars, batchVars, pageVars, smem_kv_indices, num_reqs,
                      num_tokens, num_pages, kv_cache >>
  BY DEF SkipDoneSlot
<1>2. UNCHANGED << tokens, prompt_length, step, next_request_id, request_ids, qo_indptr,
                   kv_indptr, last_page_len, kv_indices, page_queue, page_queue_head,
                   page_queue_tail, smem_kv_indices, num_reqs, num_tokens, num_pages, kv_cache >>
  BY <1>1 DEF requestVars, batchVars, pageVars
<1>3. slot \in Slot /\ slot \in Nat /\ num_reqs \in Nat /\ num_reqs <= slot
  BY <1>0, <1>1, Sizes, SMT DEF TypeOK, LocalsOK, Slot
<1>4. \/ slot' = slot + 1 /\ pc' = pc /\ slot + 1 < MaxBatchedRequests
      \/ slot' = 0 /\ pc' = "admit" /\ ~(slot + 1 < MaxBatchedRequests)
  BY <1>1 DEF AfterContinue
<1>5. /\ Growing /\ Growing' /\ slot' \in Slot
      /\ pc' = "continue" => num_reqs <= slot'
      /\ \A s \in Slot : (Behind(s)' <=> Behind(s) /\ s # slot) /\ (Behind(s) <=> s >= slot)
  <2>0. Slot = 0 .. MaxBatchedRequests - 1 /\ MaxBatchedRequests \in Nat \ {0}  BY Sizes DEF Slot
  <2>1. CASE slot' = slot + 1 /\ pc' = pc /\ slot + 1 < MaxBatchedRequests
    <3>1. slot' \in Slot /\ num_reqs <= slot'  BY <1>3, <2>0, <2>1, SMT
    <3>2. \A s \in Slot : (s >= slot' <=> s >= slot /\ s # slot)  BY <1>3, <2>0, <2>1, SMT
    <3> QED  BY <1>1, <2>1, <3>1, <3>2 DEF Behind, Growing
  <2>2. CASE slot' = 0 /\ pc' = "admit" /\ ~(slot + 1 < MaxBatchedRequests)
    <3>1. slot' \in Slot  BY <2>0, <2>2, SMT
    <3>2. \A s \in Slot : s >= slot => s = slot  BY <1>3, <2>0, <2>2, SMT
    <3> QED  BY <1>1, <2>2, <3>1, <3>2 DEF Behind, Growing
  <2> QED  BY <1>4, <2>1, <2>2
<1>6. ASSUME NEW s \in Slot  PROVE Holder(s)' <=> Holder(s)
  <2>1. CASE s = slot
    <3>1. ~(s < num_reqs) /\ s >= slot  BY <1>3, <2>1, SMT
    <3> QED  BY <1>1, <1>2, <1>5, <2>1, <3>1 DEF Holder
  <2>2. CASE s # slot  BY <1>2, <1>5, <2>2 DEF Holder
  <2> QED  BY <2>1, <2>2
<1>7. ASSUME NEW s \in Slot, Holder(s)  PROVE s # slot /\ (Behind(s)' <=> Behind(s))
  <2>1. slot >= slot  BY <1>3, SMT
  <2>2. s # slot  BY <1>1, <1>5, <1>7, <2>1 DEF Holder
  <2> QED  BY <1>5, <2>2
<1>8. ASSUME NEW s \in Slot
      PROVE  /\ PagesEnd(s)' = PagesEnd(s) /\ Pages(s)' = Pages(s) /\ Tokens(s)' = Tokens(s)
  BY <1>2, <1>5 DEF PagesEnd, Pages, TokensEnd, Tokens
<1>9. pc # "finalize" /\ pc' # "finalize"  BY <1>5 DEF Growing
<1>10. ASSUME NEW s \in Slot, Holder(s)
       PROVE  /\ request_ids'[s] = request_ids[s]
              /\ Pages(s)' = Pages(s)
              /\ Length(s)' = Length(s)
              /\ Cached(s)' = Cached(s)
              /\ Planned(s)' => /\ Planned(s)
                                /\ Tokens(s)' = Tokens(s)
                                /\ last_page_len'[s] = last_page_len[s]
              /\ \A k \in 0 .. Pages(s) - 1 : Entry(s, k)' = Entry(s, k)
  <2>1. Planned(s)' <=> Planned(s)  BY <1>7, <1>9, <1>10 DEF Planned
  <2>2. Length(s)' = Length(s)  BY <1>2, <1>8, <2>1 DEF Length
  <2>3. Cached(s)' = Cached(s)  BY <1>2, <1>9 DEF Cached
  <2>4. \A k \in 0 .. Pages(s) - 1 : Entry(s, k)' = Entry(s, k)  BY <1>2, <1>7, <1>10 DEF Entry, PageOf
  <2> QED  BY <1>2, <1>8, <2>1, <2>2, <2>3, <2>4
<1>11. SlotsOK' /\ RequestsOK' /\ PagesOK'
  <2>1. UNCHANGED requestVars  BY <1>1
  <2>2. UNCHANGED << page_queue, page_queue_head, page_queue_tail >>  BY <1>2
  <2> QED  BY <1>0, <1>6, <1>10, <2>1, <2>2, NothingMoves
<1>12. CacheOK'  BY <1>0, <1>2, <1>6, <1>10, CacheStays
<1>13. TypeOK'
  <2>1. pc' \in {"finalize", "continue", "admit", "run", "finished"}  BY <1>5 DEF Growing
  <2> QED  BY <1>0, <1>2, <1>5, <2>1 DEF TypeOK
<1>14. LocalsOK'
  <2>1. pc' \in {"continue", "admit"}  BY <1>5 DEF Growing
  <2> QED  BY <1>0, <1>2, <1>5, <2>1 DEF LocalsOK, MaxPages, PagesFor
<1>15. TableOK'
  <2>1. pc' \in {"continue", "admit"}  BY <1>5 DEF Growing
  <2>2. \A s \in Slot : Holder(s)' /\ Behind(s)' => 0 .. PagesEnd(s)' - 1 \subseteq DOMAIN smem_kv_indices'
    BY <1>0, <1>2, <1>6, <1>7, <1>8 DEF TableOK
  <2>3. \A s \in 0 .. num_reqs' - 1 : PagesEnd(s)' <= num_pages'
    <3> SUFFICES ASSUME NEW s \in 0 .. num_reqs - 1  PROVE PagesEnd(s)' <= num_pages  BY <1>2
    <3>1. s \in Slot  BY <1>3, Sizes, SMT DEF Slot
    <3>2. PagesEnd(s)' = PagesEnd(s)  BY <1>8, <3>1
    <3> QED  BY <1>0, <1>5, <3>2 DEF TableOK
  <2>4. ASSUME NEW i \in 0 .. num_pages' - 1
        PROVE  \E s \in Slot : ~Behind(s)' /\ Holder(s)' /\ i \in kv_indptr'[s] .. PagesEnd(s)' - 1
    <3>1. PICK s \in Slot : ~Behind(s) /\ Holder(s) /\ i \in kv_indptr[s] .. PagesEnd(s) - 1
      BY <1>0, <1>2, <1>5 DEF TableOK
    <3>2. ~Behind(s)' /\ Holder(s)' /\ PagesEnd(s)' = PagesEnd(s)  BY <1>6, <1>7, <1>8, <3>1
    <3> QED  BY <1>2, <3>1, <3>2
  <2> QED  BY <2>1, <2>2, <2>3, <2>4 DEF TableOK
<1> QED  BY <1>11, <1>12, <1>13, <1>14, <1>15 DEF IInv

-----------------------------------------------------------------------------
(* Steps 4 and 5.                                                           *)

\* FinishBatch clears the unused slots; without a token, all requests are done.
LEMMA FinishKeeps ==
    ASSUME IInv, FinishBatch
    PROVE  IInv'
<1>0. TypeOK /\ LocalsOK /\ TableOK /\ SlotsOK /\ RequestsOK /\ PagesOK /\ CacheOK  BY DEF IInv
<1>1. /\ pc = "admit" /\ ~CanAdmit
      /\ request_ids' = UnusedSlots
      /\ qo_indptr' = [s \in 0 .. MaxBatchedRequests |->
                         IF s < num_reqs THEN qo_indptr[s] ELSE num_tokens]
      /\ kv_indptr' = [s \in 0 .. MaxBatchedRequests |->
                         IF s < num_reqs THEN kv_indptr[s] ELSE num_pages]
      /\ pc' = IF num_tokens = 0 THEN "finished" ELSE "run"
      /\ UNCHANGED << requestVars, last_page_len, pageVars, slot, smem_kv_indices,
                      num_reqs, num_tokens, num_pages, kv_cache >>
  BY DEF FinishBatch
<1>2. UNCHANGED << tokens, prompt_length, step, next_request_id, last_page_len, kv_indices,
                   page_queue, page_queue_head, page_queue_tail, slot, smem_kv_indices,
                   num_reqs, num_tokens, num_pages, kv_cache >>
  BY <1>1 DEF requestVars, pageVars
<1>3. PICK B \in Nat \ {0}, R \in Nat, T \in Nat, P \in Nat :
        /\ B = MaxBatchedRequests /\ R = num_reqs /\ T = num_tokens /\ P = num_pages /\ R <= B
        /\ T \in 0 .. MaxBatchedTokens /\ P \in 0 .. NumPages
  <2>1. /\ num_reqs \in 0 .. MaxBatchedRequests /\ num_tokens \in 0 .. MaxBatchedTokens
        /\ num_pages \in 0 .. NumPages
    BY <1>0 DEF TypeOK
  <2>2. num_reqs \in Nat /\ num_tokens \in Nat /\ num_pages \in Nat /\ num_reqs <= MaxBatchedRequests
    BY <2>1, Sizes, SMT
  <2> QED  BY <2>1, <2>2, Sizes
<1>4. \A s \in Slot : s \in Nat /\ s < B /\ s \in 0 .. B /\ s + 1 \in 0 .. B
  BY <1>3, SMT DEF Slot
<1>5. ASSUME NEW s \in Slot
      PROVE  /\ request_ids'[s] = IF s < R THEN request_ids[s] ELSE NoRequest
             /\ qo_indptr'[s] = IF s < R THEN qo_indptr[s] ELSE T
             /\ kv_indptr'[s] = IF s < R THEN kv_indptr[s] ELSE P
             /\ qo_indptr'[s + 1] = IF s + 1 < R THEN qo_indptr[s + 1] ELSE T
             /\ kv_indptr'[s + 1] = IF s + 1 < R THEN kv_indptr[s + 1] ELSE P
  BY <1>1, <1>3, <1>4 DEF UnusedSlots
<1>6. qo_indptr'[B] = T /\ kv_indptr'[B] = P
  <2>1. B \in 0 .. B /\ ~(B < R)  BY <1>3, SMT
  <2> QED  BY <1>1, <1>3, <2>1
<1>7. /\ Growing /\ ~Growing' /\ pc' # "finalize" /\ pc' # "continue"
      /\ \A s \in Slot : ~Behind(s) /\ ~Behind(s)' /\ Planned(s) /\ Planned(s)'
  BY <1>1 DEF Growing, Behind, Planned
<1>8. ASSUME NEW s \in Slot  PROVE (Holder(s)' <=> Holder(s)) /\ (Holder(s) <=> s < R)
  <2>1. Holder(s) <=> s < R  BY <1>3, <1>7 DEF Holder
  <2>2. Holder(s) => request_ids[s] \in Request  BY <1>0, HeldSlot
  <2>3. NoRequest \notin Request  BY Sizes, SMT DEF NoRequest, Request
  <2>4. Holder(s)' <=> request_ids'[s] # NoRequest  BY <1>7 DEF Holder
  <2> QED  BY <1>5, <2>1, <2>2, <2>3, <2>4
<1>9. ASSUME NEW s \in Slot, s < R
      PROVE  /\ request_ids'[s] = request_ids[s]
             /\ kv_indptr'[s] = kv_indptr[s] /\ qo_indptr'[s] = qo_indptr[s]
             /\ PagesEnd(s)' = PagesEnd(s) /\ TokensEnd(s)' = TokensEnd(s)
             /\ PagesEnd(s)' = kv_indptr'[s + 1]
  <2>1. s + 1 < R \/ s + 1 = R  BY <1>3, <1>4, <1>9, SMT
  <2>2. ~(R < R)  BY <1>3, SMT
  <2>3. PagesEnd(s)' = kv_indptr'[s + 1] /\ TokensEnd(s)' = qo_indptr'[s + 1]
    BY <1>7 DEF PagesEnd, TokensEnd
  <2>4. /\ PagesEnd(s) = IF s + 1 = R THEN P ELSE kv_indptr[s + 1]
        /\ TokensEnd(s) = IF s + 1 = R THEN T ELSE qo_indptr[s + 1]
    BY <1>3, <1>7 DEF PagesEnd, TokensEnd
  <2> QED  BY <1>5, <1>9, <2>1, <2>2, <2>3, <2>4
<1>10. ASSUME NEW s \in Slot, Holder(s)
       PROVE  /\ request_ids'[s] = request_ids[s]
              /\ Pages(s)' = Pages(s)
              /\ Length(s)' = Length(s)
              /\ Cached(s)' = Cached(s)
              /\ Planned(s)' => /\ Planned(s)
                                /\ Tokens(s)' = Tokens(s)
                                /\ last_page_len'[s] = last_page_len[s]
              /\ \A k \in 0 .. Pages(s) - 1 : Entry(s, k)' = Entry(s, k)
  <2>1. s < R  BY <1>8, <1>10
  <2>2. Pages(s)' = Pages(s) /\ Tokens(s)' = Tokens(s)  BY <1>9, <2>1 DEF Pages, Tokens
  <2>3. Length(s)' = Length(s)  BY <1>2, <1>7, <1>9, <2>1, <2>2 DEF Length
  <2>4. Cached(s)' = Cached(s)  BY <1>1, <1>2, <1>7, <1>9, <2>1 DEF Cached
  <2>5. \A k \in 0 .. Pages(s) - 1 : Entry(s, k)' = Entry(s, k)
    BY <1>2, <1>7, <1>9, <2>1 DEF Entry, PageOf
  <2> QED  BY <1>2, <1>7, <1>9, <2>1, <2>2, <2>3, <2>4, <2>5
<1>11. SlotsOK' /\ RequestsOK' /\ PagesOK'
  <2>1. UNCHANGED requestVars  BY <1>1
  <2>2. UNCHANGED << page_queue, page_queue_head, page_queue_tail >>  BY <1>2
  <2> QED  BY <1>0, <1>8, <1>10, <2>1, <2>2, NothingMoves
<1>12. CacheOK'  BY <1>0, <1>2, <1>8, <1>10, CacheStays
<1>13. TypeOK'
  <2>1. pc' \in {"finalize", "continue", "admit", "run", "finished"}  BY <1>1
  <2>2. request_ids' \in [Slot -> Request \cup {NoRequest}]  BY <1>0, <1>1 DEF TypeOK, UnusedSlots
  <2>3. /\ qo_indptr' \in [0 .. MaxBatchedRequests -> 0 .. MaxBatchedTokens]
        /\ kv_indptr' \in [0 .. MaxBatchedRequests -> 0 .. NumPages]
    BY <1>0, <1>1, <1>3 DEF TypeOK
  <2> QED  BY <1>0, <1>2, <2>1, <2>2, <2>3 DEF TypeOK
<1>14. LocalsOK'
  <2>1. CASE T = 0
    <3>1. pc' = "finished"  BY <1>1, <1>3, <2>1
    <3>2. R = 0
      <4>1. num_reqs > 0 <=> num_tokens > 0  BY <1>0, <1>7 DEF LocalsOK
      <4> QED  BY <1>3, <2>1, <4>1, SMT
    <3>3. P = 0
      <4>1. num_pages <= num_reqs * MaxPages  BY <1>0, <1>7 DEF LocalsOK
      <4>2. PICK M \in Nat : M = MaxPages  BY Sizes, PagesFill DEF MaxPages
      <4>3. P <= 0 * M  BY <1>3, <3>2, <4>1, <4>2
      <4> QED  BY <1>3, <4>3, <4>2, SMT
    <3>4. next_request_id = TotalNumRequests
      <4>1. num_reqs < MaxBatchedRequests /\ num_tokens < MaxBatchedTokens
        BY <1>3, <2>1, <3>2, Sizes, SMT
      <4>2. next_request_id \in 0 .. TotalNumRequests  BY <1>0 DEF TypeOK
      <4> QED  BY <1>1, <4>1, <4>2, Sizes, SMT DEF CanAdmit
    <3>5. \A s \in Slot : ~Holder(s)'  BY <1>4, <1>8, <3>2, SMT
    <3> QED  BY <1>2, <1>3, <1>7, <3>1, <3>3, <3>4, <3>5 DEF LocalsOK
  <2>2. CASE T # 0
    <3>1. pc' = "run"  BY <1>1, <1>3, <2>2
    <3>2. T > 0  BY <1>3, <2>2, SMT
    <3>3. ASSUME NEW s \in Slot, ~Holder(s)'  PROVE Tokens(s)' = 0 /\ Pages(s)' = 0
      <4>1. ~(s < R) /\ ~(s + 1 < R)  BY <1>3, <1>4, <1>8, <3>3, SMT
      <4>2. qo_indptr'[s + 1] = T /\ qo_indptr'[s] = T /\ kv_indptr'[s + 1] = P /\ kv_indptr'[s] = P
        BY <1>5, <4>1
      <4>3. T - T = 0 /\ P - P = 0  BY <1>3, SMT
      <4>4. PagesEnd(s)' = kv_indptr'[s + 1] /\ TokensEnd(s)' = qo_indptr'[s + 1]
        BY <1>7 DEF PagesEnd, TokensEnd
      <4> QED  BY <4>2, <4>3, <4>4 DEF Pages, Tokens
    <3>4. /\ qo_indptr'[MaxBatchedRequests] = num_tokens' /\ num_tokens' > 0
          /\ kv_indptr'[MaxBatchedRequests] = num_pages'
      BY <1>2, <1>3, <1>6, <3>2
    <3> QED  BY <1>7, <3>1, <3>3, <3>4 DEF LocalsOK
  <2> QED  BY <2>1, <2>2
<1>15. TableOK'
  <2>1. ASSUME NEW s \in Slot  PROVE kv_indptr'[s + 1] <= kv_indptr'[MaxBatchedRequests]
    <3>1. CASE s + 1 < R
      <4>1. s < R /\ s \in 0 .. num_reqs - 1  BY <1>3, <1>4, <3>1, SMT
      <4>2. PagesEnd(s) <= num_pages  BY <1>0, <1>7, <4>1 DEF TableOK
      <4>3. PagesEnd(s)' = PagesEnd(s) /\ PagesEnd(s)' = kv_indptr'[s + 1]  BY <1>9, <4>1
      <4> QED  BY <1>3, <1>6, <4>2, <4>3
    <3>2. CASE ~(s + 1 < R)
      <4>1. P <= P  BY <1>3, SMT
      <4> QED  BY <1>3, <1>5, <1>6, <3>2, <4>1
    <3> QED  BY <3>1, <3>2
  <2>2. ASSUME NEW i \in 0 .. num_pages' - 1
        PROVE  \E s \in Slot : ~Behind(s)' /\ Holder(s)' /\ i \in kv_indptr'[s] .. PagesEnd(s)' - 1
    <3>1. PICK s \in Slot : ~Behind(s) /\ Holder(s) /\ i \in kv_indptr[s] .. PagesEnd(s) - 1
      BY <1>0, <1>2, <1>7 DEF TableOK
    <3>2. Holder(s)' /\ PagesEnd(s)' = PagesEnd(s) /\ kv_indptr'[s] = kv_indptr[s]
      BY <1>8, <1>9, <3>1
    <3> QED  BY <1>7, <3>1, <3>2
  <2> QED  BY <1>7, <2>1, <2>2 DEF TableOK
<1> QED  BY <1>11, <1>12, <1>13, <1>14, <1>15 DEF IInv

-----------------------------------------------------------------------------
(* The run of the batch.                                                    *)

\* What the kernels derive from the page table of a running batch is right.
LEMMA Positions ==
    ASSUME TypeOK, LocalsOK, SlotsOK, pc = "run", NEW s \in Slot
    PROVE  /\ ~Behind(s) /\ Planned(s)
           /\ Pages(s) = PageCount(s) /\ Tokens(s) = NewTokens(s)
           /\ Holder(s) <=> s \in Active
           /\ ~Holder(s) => NewTokens(s) = 0
           /\ SeqLen(s) \in Int
           /\ Holder(s) => /\ SeqLen(s) = Length(s)
                           /\ NewTokens(s) \in 0 .. MaxTokensPerRequest
                           /\ SeqLen(s) = step[request_ids[s]] + NewTokens(s)
<1>1. ~Growing /\ ~Behind(s) /\ Planned(s) /\ pc # "finalize"  BY DEF Growing, Behind, Planned
<1>2. Pages(s) = PageCount(s) /\ Tokens(s) = NewTokens(s)
  BY <1>1 DEF Pages, PagesEnd, PageCount, Tokens, TokensEnd, NewTokens
<1>3. Holder(s) <=> s \in Active  BY <1>1 DEF Holder, Active
<1>4. ~Holder(s) => NewTokens(s) = 0  BY <1>2 DEF LocalsOK
<1>5. SeqLen(s) \in Int
  <2>1. s \in 0 .. MaxBatchedRequests /\ s + 1 \in 0 .. MaxBatchedRequests  BY Sizes, SMT DEF Slot
  <2>2. kv_indptr[s] \in 0 .. NumPages /\ kv_indptr[s + 1] \in 0 .. NumPages  BY <2>1 DEF TypeOK
  <2>3. kv_indptr[s] \in Int /\ kv_indptr[s + 1] \in Int  BY <2>2, Sizes, SMT
  <2>4. PICK q \in Int : q = PageCount(s) - 1
    <3>1. PageCount(s) - 1 \in Int  BY <2>3, SMT DEF PageCount
    <3> QED  BY <3>1
  <2>5. PICK d \in Nat : d = PageSize  BY Sizes
  <2>6. last_page_len[s] \in 0 .. d  BY <2>5 DEF TypeOK
  <2>7. q * d \in Int  BY <2>4, <2>5, SMT
  <2>8. q * d + last_page_len[s] \in Int  BY <2>5, <2>6, <2>7, SMT
  <2> QED  BY <2>4, <2>5, <2>8 DEF SeqLen
<1>6. ASSUME Holder(s)
      PROVE  /\ SeqLen(s) = Length(s)
             /\ NewTokens(s) \in 0 .. MaxTokensPerRequest
             /\ Length(s) = step[request_ids[s]] + NewTokens(s)
  <2>1. SlotOK(s)  BY <1>6, HeldSlot
  <2>2. Length(s) \in Nat \ {0}
    <3>1. Length(s) \in 1 .. MaxSeqLength  BY <2>1 DEF SlotOK
    <3> QED  BY <3>1, Sizes, SMT
  <2>3. Pages(s) = PagesFor(Length(s)) /\ last_page_len[s] = LastPageLen(Length(s))
        /\ Tokens(s) \in 0 .. MaxTokensPerRequest
    BY <1>1, <2>1 DEF SlotOK
  <2>4. (PagesFor(Length(s)) - 1) * PageSize + LastPageLen(Length(s)) = Length(s)  BY <2>2, PagesFill
  <2>5. SeqLen(s) = Length(s)  BY <1>2, <2>3, <2>4 DEF SeqLen
  <2>6. Length(s) = step[request_ids[s]] + NewTokens(s)  BY <1>1, <1>2 DEF Length
  <2> QED  BY <1>2, <2>3, <2>5, <2>6
<1> QED  BY <1>1, <1>2, <1>3, <1>4, <1>5, <1>6

\* The tokens of the batch whose key and value go to offset o of page p.
Writes(p, o) ==
    {w \in Slot \X Position :
       /\ w[2] \in SeqLen(w[1]) - NewTokens(w[1]) .. SeqLen(w[1]) - 1
       /\ PageOf(w[1], w[2] \div PageSize) = p
       /\ w[2] % PageSize = o}

\* No two tokens of a batch have the same place in the cache, and none has the
\* place of a token of an earlier batch.
LEMMA OneWriter ==
    ASSUME TypeOK, LocalsOK, SlotsOK, PagesOK, pc = "run",
           NEW s \in Slot, Holder(s), NEW p \in 0 .. Length(s) - 1,
           NEW w \in Writes(Entry(s, p \div PageSize), p % PageSize)
    PROVE  w = << s, p >>
<1>1. PICK t \in Slot, q \in Position : w = << t, q >>  BY DEF Writes
<1>2. /\ q \in SeqLen(t) - NewTokens(t) .. SeqLen(t) - 1
      /\ PageOf(t, q \div PageSize) = Entry(s, p \div PageSize)
      /\ q % PageSize = p % PageSize
  BY <1>1 DEF Writes
<1>3. Holder(t)
  <2> SUFFICES ASSUME ~Holder(t)  PROVE FALSE  OBVIOUS
  <2>1. NewTokens(t) = 0 /\ SeqLen(t) \in Int  BY Positions
  <2> QED  BY <1>2, <2>1, SMT
<1>4. /\ SeqLen(t) = Length(t) /\ Length(t) = step[request_ids[t]] + NewTokens(t)
      /\ step[request_ids[t]] \in Nat /\ Length(t) \in Nat /\ NewTokens(t) \in Int
  <2>1. SeqLen(t) = Length(t) /\ SeqLen(t) = step[request_ids[t]] + NewTokens(t)
        /\ NewTokens(t) \in 0 .. MaxTokensPerRequest
    BY <1>3, Positions
  <2>2. step[request_ids[t]] \in Nat /\ Length(t) \in Nat  BY <1>3, HeldSlot
  <2> QED  BY <2>1, <2>2, Sizes, SMT
<1>5. q \in 0 .. Length(t) - 1
  <2>1. PICK a \in Nat, l \in Nat, n \in Int : a = step[request_ids[t]] /\ l = Length(t) /\ n = NewTokens(t)
    BY <1>4
  <2>2. q \in l - n .. l - 1 /\ l = a + n  BY <1>2, <1>4, <2>1
  <2>3. q \in 0 .. l - 1  BY <2>1, <2>2, SMT
  <2> QED  BY <2>1, <2>3
<1>6. Length(s) \in Nat /\ SlotOK(s) /\ SlotOK(t)  BY <1>3, HeldSlot
<1>7. /\ q \div PageSize \in 0 .. Pages(t) - 1 /\ q = (q \div PageSize) * PageSize + (q % PageSize)
      /\ p \div PageSize \in 0 .. Pages(s) - 1 /\ p = (p \div PageSize) * PageSize + (p % PageSize)
  BY <1>4, <1>5, <1>6, PageOfPosition DEF SlotOK
<1>8. /\ Table[s][p \div PageSize] = Entry(s, p \div PageSize)
      /\ Table[t][q \div PageSize] = PageOf(t, q \div PageSize)
      /\ p \div PageSize \in DOMAIN Table[s] /\ q \div PageSize \in DOMAIN Table[t]
  <2>1. ~Behind(t)  BY Positions
  <2>2. Entry(t, q \div PageSize) = PageOf(t, q \div PageSize)  BY <2>1 DEF Entry
  <2> QED  BY <1>3, <1>7, <2>2, Rows
<1>9. t = s /\ q \div PageSize = p \div PageSize
  <2>1. \A u, v \in Slot : \A k \in DOMAIN Table[u], l \in DOMAIN Table[v] :
          Table[u][k] = Table[v][l] => u = v /\ k = l
    BY DEF PagesOK, Consistent
  <2> HIDE DEF Table
  <2> QED  BY <1>2, <1>8, <2>1
<1> QED  BY <1>1, <1>2, <1>7, <1>9

\* RunBatch writes each scheduled token where its request will look for it, and
\* nothing else that is needed.
LEMMA RunKeeps ==
    ASSUME IInv, RunBatch
    PROVE  IInv'
<1>0. TypeOK /\ LocalsOK /\ TableOK /\ SlotsOK /\ RequestsOK /\ PagesOK /\ CacheOK  BY DEF IInv
<1>1. /\ pc = "run" /\ pc' = "finalize" /\ slot' = 0
      /\ num_reqs' = 0 /\ num_tokens' = 0 /\ num_pages' = 0
      /\ UNCHANGED << requestVars, batchVars, pageVars, smem_kv_indices >>
  BY DEF RunBatch
<1>2. UNCHANGED << tokens, prompt_length, step, next_request_id, request_ids, qo_indptr,
                   kv_indptr, last_page_len, kv_indices, page_queue, page_queue_head,
                   page_queue_tail, smem_kv_indices >>
  BY <1>1 DEF requestVars, batchVars, pageVars
<1>3. kv_cache' = [p \in Page |-> [o \in 0 .. PageSize - 1 |->
                     IF Writes(p, o) = {} THEN kv_cache[p][o]
                     ELSE LET w == CHOOSE w \in Writes(p, o) : TRUE
                          IN  << request_ids[w[1]], w[2] >>]]
  BY DEF RunBatch, Writes
<1>4. /\ ~Growing /\ ~Growing' /\ pc # "finalize" /\ pc # "continue"
      /\ \A s \in Slot : ~Behind(s) /\ ~Behind(s)' /\ Planned(s) /\ Planned(s)'
  <2>1. \A s \in Slot : s >= 0  BY Sizes, SMT DEF Slot
  <2> QED  BY <1>1, <2>1 DEF Growing, Behind, Planned
<1>5. ASSUME NEW s \in Slot
      PROVE  /\ Holder(s)' <=> Holder(s)
             /\ PagesEnd(s)' = PagesEnd(s) /\ Pages(s)' = Pages(s) /\ Tokens(s)' = Tokens(s)
             /\ Length(s)' = Length(s)
             /\ \A k \in 0 .. Pages(s) - 1 : Entry(s, k)' = Entry(s, k)
  <2>1. /\ Holder(s)' <=> Holder(s)
        /\ PagesEnd(s)' = PagesEnd(s) /\ TokensEnd(s)' = TokensEnd(s)
    BY <1>2, <1>4 DEF Holder, PagesEnd, TokensEnd
  <2>2. Pages(s)' = Pages(s) /\ Tokens(s)' = Tokens(s)  BY <1>2, <2>1 DEF Pages, Tokens
  <2>3. Length(s)' = Length(s)  BY <1>2, <1>4, <2>2 DEF Length
  <2>4. \A k \in 0 .. Pages(s) - 1 : Entry(s, k)' = Entry(s, k)  BY <1>2, <1>4 DEF Entry, PageOf
  <2> QED  BY <2>1, <2>2, <2>3, <2>4
<1>6. SlotsOK' /\ RequestsOK' /\ PagesOK'
  <2>1. UNCHANGED requestVars  BY <1>1
  <2>2. UNCHANGED << page_queue, page_queue_head, page_queue_tail >>  BY <1>2
  <2> QED  BY <1>0, <1>2, <1>4, <1>5, <2>1, <2>2, NothingMoves
<1>7. CacheOK'
  <2>1. \A s \in Slot : Cached(s)' = Length(s) /\ Cached(s) = step[request_ids[s]]
    BY <1>1, <1>4, <1>5 DEF Cached
  <2> SUFFICES ASSUME NEW s \in Slot, Holder(s), NEW p \in 0 .. Length(s) - 1
               PROVE  kv_cache'[Entry(s, p \div PageSize)][p % PageSize] = << request_ids[s], p >>
    <3> SUFFICES ASSUME NEW s \in Slot, Holder(s)', NEW p \in 0 .. Cached(s)' - 1
                 PROVE  kv_cache'[Entry(s, p \div PageSize)'][p % PageSize] = << request_ids'[s], p >>
      BY DEF CacheOK
    <3>1. Holder(s) /\ p \in 0 .. Length(s) - 1  BY <1>5, <2>1
    <3>2. p \div PageSize \in 0 .. Pages(s) - 1
      <4>1. Length(s) \in Nat /\ SlotOK(s)  BY <1>0, <3>1, HeldSlot
      <4> QED  BY <3>1, <4>1, PageOfPosition DEF SlotOK
    <3>3. Entry(s, p \div PageSize)' = Entry(s, p \div PageSize)  BY <1>5, <3>2
    <3>4. kv_cache'[Entry(s, p \div PageSize)][p % PageSize] = << request_ids[s], p >>
      BY <3>1
    <3> QED  BY <1>2, <3>3, <3>4
  <2>2. Length(s) \in Nat /\ SlotOK(s) /\ step[request_ids[s]] \in Nat  BY <1>0, HeldSlot
  <2>3. p \div PageSize \in 0 .. Pages(s) - 1 /\ p % PageSize \in 0 .. PageSize - 1
    BY <2>2, PageOfPosition DEF SlotOK
  <2> DEFINE pg == Entry(s, p \div PageSize)
             o == p % PageSize
             ws == Writes(pg, o)
  <2>4. pg \in Page
    <3>1. Table[s][p \div PageSize] \in Page /\ Table[s][p \div PageSize] = pg
      BY <1>0, <2>3, Rows DEF PagesOK, Consistent
    <3> QED  BY <3>1
  <2>5. kv_cache'[pg][o] = IF ws = {} THEN kv_cache[pg][o]
                           ELSE LET w == CHOOSE w \in ws : TRUE
                                IN  << request_ids[w[1]], w[2] >>
    <3> HIDE DEF pg, o
    <3> QED  BY <1>3, <2>3, <2>4 DEF o
  <2>6. \A w \in ws : w = << s, p >>  BY <1>0, <1>1, OneWriter
  <2>7. p >= step[request_ids[s]] => << s, p >> \in ws
    <3> SUFFICES ASSUME p >= step[request_ids[s]]  PROVE << s, p >> \in ws  OBVIOUS
    <3>1. SeqLen(s) = Length(s) /\ SeqLen(s) = step[request_ids[s]] + NewTokens(s)
          /\ NewTokens(s) \in 0 .. MaxTokensPerRequest
      BY <1>0, <1>1, Positions
    <3>2. p \in Position
      <4>1. Length(s) \in 1 .. MaxSeqLength  BY <2>2 DEF SlotOK
      <4> QED  BY <2>2, <4>1, Sizes, SMT DEF Position
    <3>3. p \in SeqLen(s) - NewTokens(s) .. SeqLen(s) - 1
      <4>1. PICK a \in Nat, l \in Nat, n \in Int :
              a = step[request_ids[s]] /\ l = Length(s) /\ n = NewTokens(s)
        BY <2>2, <3>1, Sizes, SMT
      <4>2. p \in 0 .. l - 1 /\ p >= a /\ l = a + n  BY <3>1, <4>1
      <4>3. p \in l - n .. l - 1  BY <4>1, <4>2, SMT
      <4> QED  BY <3>1, <4>1, <4>3
    <3>4. PageOf(s, p \div PageSize) = pg  BY <1>4 DEF Entry
    <3> QED  BY <3>2, <3>3, <3>4 DEF Writes
  <2> HIDE DEF ws
  <2>8. CASE ws = {}
    <3>1. ~(p >= step[request_ids[s]])  BY <2>7, <2>8
    <3>2. p \in 0 .. step[request_ids[s]] - 1  BY <2>2, <3>1, SMT
    <3>3. kv_cache[pg][o] = << request_ids[s], p >>  BY <1>0, <2>1, <3>2 DEF CacheOK
    <3> QED  BY <2>5, <2>8, <3>3
  <2>9. CASE ws # {}
    <3>1. (CHOOSE w \in ws : TRUE) = << s, p >>  BY <2>6, <2>9
    <3>2. PICK c : c = CHOOSE w \in ws : TRUE  OBVIOUS
    <3>3. c[1] = s /\ c[2] = p
      <4>1. c = << s, p >>  BY <3>1, <3>2
      <4> QED  BY <4>1
    <3>4. kv_cache'[pg][o] = << request_ids[c[1]], c[2] >>  BY <2>5, <2>9, <3>2
    <3> QED  BY <3>3, <3>4
  <2> QED  BY <2>8, <2>9
<1>8. TypeOK'
  <2>1. /\ pc' \in {"finalize", "continue", "admit", "run", "finished"} /\ slot' \in Slot
        /\ num_reqs' \in 0 .. MaxBatchedRequests /\ num_tokens' \in 0 .. MaxBatchedTokens
        /\ num_pages' \in 0 .. NumPages
    BY <1>1, Sizes, SMT DEF Slot
  <2> QED  BY <1>0, <1>2, <2>1 DEF TypeOK
<1>9. LocalsOK'  BY <1>1, <1>4 DEF LocalsOK
<1>10. TableOK'
  <2>1. \A s \in Slot : kv_indptr'[s + 1] <= kv_indptr'[MaxBatchedRequests]
    BY <1>0, <1>1, <1>2 DEF TableOK
  <2> QED  BY <1>1, <1>4, <2>1 DEF TableOK
<1> QED  BY <1>6, <1>7, <1>8, <1>9, <1>10 DEF IInv

-----------------------------------------------------------------------------
(* Step 1.                                                                  *)

\* Moving on from a slot changes neither the table nor, when the old table is
\* copied behind the last slot, what is read of it.
LEMMA Advanced ==
    ASSUME TypeOK, LocalsOK, TableOK, PagesOK, pc = "finalize", AfterFinalize,
           UNCHANGED << qo_indptr, kv_indptr, last_page_len, kv_indices,
                        num_reqs, num_tokens, num_pages >>
    PROVE  /\ slot' \in Slot /\ pc' \in {"finalize", "continue"}
           /\ DOMAIN smem_kv_indices' \subseteq Page
           /\ TableOK'
           /\ pc' = "finalize" => num_reqs' = 0 /\ num_tokens' = 0 /\ num_pages' = 0
           /\ pc' = "continue" => num_reqs' <= slot'
           /\ Growing' => /\ (num_pages <= num_reqs * MaxPages)'
                          /\ (num_reqs > 0 <=> num_tokens > 0)'
           /\ \A s \in Slot :
                /\ Holder(s) <=> request_ids[s] # NoRequest
                /\ Holder(s)' <=> request_ids'[s] # NoRequest
                /\ Pages(s) = PageCount(s) /\ Pages(s)' = Pages(s)
                /\ Tokens(s) = NewTokens(s) /\ Tokens(s)' = Tokens(s)
                /\ Planned(s)' <=> Planned(s) /\ s # slot
                /\ s = slot => Planned(s)
                /\ \A k \in 0 .. Pages(s) - 1 : Entry(s, k) = PageOf(s, k) /\ Entry(s, k)' = Entry(s, k)
<1>1. \/ /\ slot' = slot + 1 /\ slot + 1 < MaxBatchedRequests
         /\ UNCHANGED << pc, smem_kv_indices >>
      \/ /\ slot' = 0 /\ pc' = "continue" /\ ~(slot + 1 < MaxBatchedRequests)
         /\ smem_kv_indices' = [j \in 0 .. kv_indptr[MaxBatchedRequests] - 1 |-> kv_indices[j]]
  BY DEF AfterFinalize
<1>2. PICK B \in Nat \ {0}, f \in Nat : B = MaxBatchedRequests /\ f = slot /\ f < B /\ Slot = 0 .. B - 1
  <2>1. slot \in 0 .. MaxBatchedRequests - 1  BY DEF TypeOK, Slot
  <2>2. slot \in Nat /\ slot < MaxBatchedRequests  BY <2>1, Sizes, SMT
  <2> QED  BY <2>2, Sizes DEF Slot
<1>3. num_reqs = 0 /\ num_tokens = 0 /\ num_pages = 0  BY DEF LocalsOK
<1>4. num_reqs' = 0 /\ num_tokens' = 0 /\ num_pages' = 0  BY <1>3
<1>5. slot' \in Slot /\ pc' \in {"finalize", "continue"}
  <2>1. f + 1 < B => f + 1 \in 0 .. B - 1  BY <1>2, SMT
  <2>2. 0 \in 0 .. B - 1  BY <1>2, SMT
  <2> QED  BY <1>1, <1>2, <2>1, <2>2
<1>6. ASSUME NEW s \in Slot
      PROVE  /\ s \in Nat /\ s + 1 \in 0 .. B /\ s \in 0 .. B /\ s + 1 # num_reqs /\ s + 1 # num_reqs'
             /\ kv_indptr[s] \in Nat /\ kv_indptr[s + 1] \in Nat /\ kv_indptr[s + 1] <= kv_indptr[B]
  <2>1. s \in Nat /\ s + 1 \in 0 .. B /\ s \in 0 .. B /\ s + 1 # 0  BY <1>2, SMT
  <2>2. kv_indptr[s] \in 0 .. NumPages /\ kv_indptr[s + 1] \in 0 .. NumPages
    BY <1>2, <2>1 DEF TypeOK
  <2>3. kv_indptr[s] \in Nat /\ kv_indptr[s + 1] \in Nat  BY <2>2, Sizes, SMT
  <2> QED  BY <1>2, <1>3, <1>4, <2>1, <2>3 DEF TableOK
<1>7. kv_indptr[B] \in Nat /\ kv_indptr[B] <= NumPages
  <2>1. B \in 0 .. B  BY <1>2, SMT
  <2>2. kv_indptr[B] \in 0 .. NumPages  BY <1>2, <2>1 DEF TypeOK
  <2> QED  BY <2>2, Sizes, SMT
<1>8. ~Growing /\ \A s \in Slot : ~Behind(s)  BY DEF Growing, Behind
<1>9. ASSUME NEW s \in Slot
      PROVE  Behind(s)' <=> pc' = "continue"
  <2>1. s >= 0  BY <1>6, SMT
  <2> QED  BY <1>1, <2>1 DEF Behind
<1>10. ASSUME NEW s \in Slot
       PROVE  /\ Holder(s) <=> request_ids[s] # NoRequest
              /\ Holder(s)' <=> request_ids'[s] # NoRequest
              /\ PagesEnd(s) = kv_indptr[s + 1] /\ PagesEnd(s)' = PagesEnd(s)
              /\ Pages(s) = PageCount(s) /\ Pages(s)' = Pages(s)
              /\ Tokens(s) = NewTokens(s) /\ Tokens(s)' = Tokens(s)
  <2>1. Growing' => Behind(s)'  BY <1>5, <1>9 DEF Growing
  <2>2. /\ Holder(s) <=> request_ids[s] # NoRequest
        /\ Holder(s)' <=> request_ids'[s] # NoRequest
    BY <1>8, <2>1 DEF Holder
  <2>3. PagesEnd(s) = kv_indptr[s + 1] /\ PagesEnd(s)' = PagesEnd(s)
        /\ TokensEnd(s) = qo_indptr[s + 1] /\ TokensEnd(s)' = TokensEnd(s)
    BY <1>6 DEF PagesEnd, TokensEnd
  <2> QED  BY <2>2, <2>3 DEF Pages, PageCount, Tokens, NewTokens
<1>11. ASSUME NEW s \in Slot
       PROVE  (Planned(s)' <=> Planned(s) /\ s # slot) /\ (s = slot => Planned(s))
  <2>1. Planned(s) <=> s >= f  BY <1>2, <1>8 DEF Planned
  <2>2. s = f => s >= f  BY <1>2, SMT
  <2>3. CASE pc' = "continue"
    <3>1. s >= f => s = f  BY <1>1, <1>2, <1>6, <2>3, SMT
    <3>2. ~Planned(s)'  BY <1>9, <2>3 DEF Planned
    <3> QED  BY <1>2, <2>1, <2>2, <3>1, <3>2
  <2>4. CASE pc' # "continue"
    <3>1. slot' = f + 1 /\ pc' = "finalize"  BY <1>1, <1>2, <2>4
    <3>2. Planned(s)' <=> s >= f + 1  BY <1>9, <2>4, <3>1 DEF Planned
    <3>3. s >= f + 1 <=> s >= f /\ s # f  BY <1>2, <1>6, SMT
    <3> QED  BY <1>2, <2>1, <2>2, <3>2, <3>3
  <2> QED  BY <2>3, <2>4
<1>12. ASSUME NEW s \in Slot, NEW k \in 0 .. Pages(s) - 1
       PROVE  Entry(s, k) = PageOf(s, k) /\ Entry(s, k)' = Entry(s, k)
  <2>1. Entry(s, k) = PageOf(s, k)  BY <1>8 DEF Entry
  <2>2. CASE pc' # "continue"  BY <1>8, <1>9, <2>2 DEF Entry, PageOf
  <2>3. CASE pc' = "continue"
    <3>1. smem_kv_indices' = [j \in 0 .. kv_indptr[B] - 1 |-> kv_indices[j]]  BY <1>1, <1>2, <2>3
    <3>2. kv_indptr[s] + k \in 0 .. kv_indptr[B] - 1
      <4>1. PICK a \in Nat, b \in Nat, c \in Nat :
              a = kv_indptr[s] /\ b = kv_indptr[s + 1] /\ c = kv_indptr[B] /\ b <= c
        BY <1>6, <1>7
      <4>2. Pages(s) = b - a  BY <1>10, <4>1 DEF PageCount
      <4>3. k \in 0 .. b - a - 1  BY <4>2
      <4>4. a + k \in 0 .. c - 1  BY <4>1, <4>3, SMT
      <4> QED  BY <4>1, <4>4
    <3>3. Entry(s, k)' = smem_kv_indices'[kv_indptr[s] + k]  BY <1>9, <2>3 DEF Entry
    <3> QED  BY <2>1, <3>1, <3>2, <3>3 DEF PageOf
  <2> QED  BY <2>1, <2>2, <2>3
<1>13. DOMAIN smem_kv_indices' \subseteq Page
  <2>1. DOMAIN smem_kv_indices \subseteq Page  BY DEF TypeOK
  <2>2. 0 .. kv_indptr[B] - 1 \subseteq Page  BY <1>7, Sizes, SMT DEF Page
  <2>3. CASE pc' # "continue"  BY <1>1, <2>1, <2>3
  <2>4. CASE pc' = "continue"
    <3>1. DOMAIN smem_kv_indices' = 0 .. kv_indptr[B] - 1  BY <1>1, <1>2, <2>4
    <3> QED  BY <2>2, <3>1
  <2> QED  BY <2>3, <2>4
<1>14. TableOK'
  <2>1. \A s \in Slot : kv_indptr'[s + 1] <= kv_indptr'[MaxBatchedRequests]  BY <1>2, <1>6
  <2>2. ASSUME NEW s \in Slot, Behind(s)'
        PROVE  0 .. PagesEnd(s)' - 1 \subseteq DOMAIN smem_kv_indices'
    <3>1. pc' = "continue"  BY <1>9, <2>2
    <3>2. DOMAIN smem_kv_indices' = 0 .. kv_indptr[B] - 1  BY <1>1, <1>2, <3>1
    <3>3. PICK b \in Nat, c \in Nat : b = kv_indptr[s + 1] /\ c = kv_indptr[B] /\ b <= c
      BY <1>6, <1>7
    <3>4. 0 .. b - 1 \subseteq 0 .. c - 1  BY <3>3, SMT
    <3> QED  BY <1>10, <3>2, <3>3, <3>4
  <2>3. 0 .. num_reqs' - 1 = {} /\ 0 .. num_pages' - 1 = {}
    <3>1. 0 .. 0 - 1 = {}  BY SMT
    <3> QED  BY <1>4, <3>1
  <2>4. pc' # "run"  BY <1>5
  <2> QED  BY <2>1, <2>2, <2>3, <2>4 DEF TableOK
<1>15. pc' = "continue" => num_reqs' <= slot'
  <2>1. 0 <= 0  BY SMT
  <2> QED  BY <1>1, <1>4, <2>1
<1>16. (num_pages <= num_reqs * MaxPages)' /\ (num_reqs > 0 <=> num_tokens > 0)'
  <2>1. MaxPages \in Nat  BY Sizes, PagesFill DEF MaxPages
  <2>2. 0 <= 0 * MaxPages /\ (0 > 0 <=> 0 > 0)  BY <2>1, SMT
  <2>3. MaxPages' = MaxPages  BY DEF MaxPages, PagesFor
  <2> QED  BY <1>4, <2>2, <2>3
<1> QED  BY <1>4, <1>5, <1>10, <1>11, <1>12, <1>13, <1>14, <1>15, <1>16

\* SkipEmptySlot passes a slot that holds nothing.
LEMMA SkipEmptyKeeps ==
    ASSUME IInv, SkipEmptySlot
    PROVE  IInv'
<1>0. TypeOK /\ LocalsOK /\ TableOK /\ SlotsOK /\ RequestsOK /\ PagesOK /\ CacheOK  BY DEF IInv
<1>1. /\ pc = "finalize" /\ request_ids[slot] = NoRequest /\ AfterFinalize
      /\ UNCHANGED << requestVars, batchVars, pageVars, num_reqs, num_tokens, num_pages, kv_cache >>
  BY DEF SkipEmptySlot
<1>2. UNCHANGED << tokens, prompt_length, step, next_request_id, request_ids, qo_indptr,
                   kv_indptr, last_page_len, kv_indices, page_queue, page_queue_head,
                   page_queue_tail, num_reqs, num_tokens, num_pages, kv_cache >>
  BY <1>1 DEF requestVars, batchVars, pageVars
<1>3. UNCHANGED << qo_indptr, kv_indptr, last_page_len, kv_indices,
                   num_reqs, num_tokens, num_pages >>
  BY <1>2
<1>4. /\ slot' \in Slot /\ pc' \in {"finalize", "continue"}
      /\ DOMAIN smem_kv_indices' \subseteq Page
      /\ TableOK'
      /\ pc' = "finalize" => num_reqs' = 0 /\ num_tokens' = 0 /\ num_pages' = 0
      /\ pc' = "continue" => num_reqs' <= slot'
      /\ Growing' => /\ (num_pages <= num_reqs * MaxPages)'
                     /\ (num_reqs > 0 <=> num_tokens > 0)'
  BY <1>0, <1>1, <1>3, Advanced
<1>5. ASSUME NEW s \in Slot
      PROVE  /\ Holder(s) <=> request_ids[s] # NoRequest
             /\ Holder(s)' <=> request_ids'[s] # NoRequest
             /\ Pages(s)' = Pages(s) /\ Tokens(s)' = Tokens(s)
             /\ Planned(s)' <=> Planned(s) /\ s # slot
             /\ \A k \in 0 .. Pages(s) - 1 : Entry(s, k)' = Entry(s, k)
  BY <1>0, <1>1, <1>3, Advanced
<1>6. ASSUME NEW s \in Slot  PROVE Holder(s)' <=> Holder(s)
  BY <1>2, <1>5
<1>7. ASSUME NEW s \in Slot, Holder(s)
      PROVE  /\ request_ids'[s] = request_ids[s]
             /\ Pages(s)' = Pages(s)
             /\ Length(s)' = Length(s)
             /\ Cached(s)' = Cached(s)
             /\ Planned(s)' => /\ Planned(s)
                               /\ Tokens(s)' = Tokens(s)
                               /\ last_page_len'[s] = last_page_len[s]
             /\ \A k \in 0 .. Pages(s) - 1 : Entry(s, k)' = Entry(s, k)
  <2>1. Planned(s)' <=> Planned(s)  BY <1>1, <1>5, <1>7
  <2>2. Length(s)' = Length(s)  BY <1>2, <1>5, <2>1 DEF Length
  <2>3. Cached(s) = Length(s)  BY <1>1 DEF Cached
  <2>4. Cached(s)' = Length(s)'
    <3>1. CASE pc' = "finalize"  BY <3>1 DEF Cached
    <3>2. CASE pc' = "continue"
      <4>1. ~Planned(s)'
        <5>1. s >= 0  BY Sizes, SMT DEF Slot
        <5>2. slot' = 0  BY <1>1, <3>2 DEF AfterFinalize
        <5> QED  BY <3>2, <5>1, <5>2 DEF Planned, Behind
      <4>2. Length(s)' = step[request_ids[s]] + 0  BY <1>2, <4>1 DEF Length
      <4>3. Cached(s)' = step[request_ids[s]]  BY <1>2, <3>2 DEF Cached
      <4>4. step[request_ids[s]] \in Nat  BY <1>0, <1>7, HeldSlot
      <4> QED  BY <4>2, <4>3, <4>4, SMT
    <3> QED  BY <1>4, <3>1, <3>2
  <2> QED  BY <1>2, <1>5, <2>1, <2>2, <2>3, <2>4
<1>8. SlotsOK' /\ RequestsOK' /\ PagesOK'
  <2>1. UNCHANGED requestVars  BY <1>1
  <2>2. UNCHANGED << page_queue, page_queue_head, page_queue_tail >>  BY <1>2
  <2> QED  BY <1>0, <1>6, <1>7, <2>1, <2>2, NothingMoves
<1>9. CacheOK'  BY <1>0, <1>2, <1>6, <1>7, CacheStays
<1>10. TypeOK'
  <2>1. pc' \in {"finalize", "continue", "admit", "run", "finished"}  BY <1>4
  <2> QED  BY <1>0, <1>2, <1>4, <2>1 DEF TypeOK
<1>11. LocalsOK'
  <2>1. pc' # "finished" /\ pc' # "run"  BY <1>4
  <2> QED  BY <1>4, <2>1 DEF LocalsOK
<1> QED  BY <1>4, <1>8, <1>9, <1>10, <1>11 DEF IInv

\* The page ring after slot s has given its pages back, and what is left of it.
LEMMA Freed ==
    ASSUME TypeOK, PagesOK, NEW s \in Slot, NEW n \in Nat, n = PageCount(s),
           DOMAIN Table[s] = 0 .. n - 1,
           \A k \in 0 .. n - 1 : Table[s][k] = PageOf(s, k)
    PROVE  /\ FreePages(s) \in [Page -> Page]
           /\ \A i \in page_queue_head .. page_queue_tail - 1 :
                FreePages(s)[i % NumPages] = page_queue[i % NumPages]
           /\ \A k \in 0 .. n - 1 : FreePages(s)[(page_queue_tail + k) % NumPages] = Table[s][k]
<1>1. PICK h \in Nat, t \in Nat, P \in Nat \ {0}, queue \in [Page -> Page] :
        /\ h = page_queue_head /\ t = page_queue_tail /\ P = NumPages /\ queue = page_queue
  <2>1. page_queue_head \in Nat /\ page_queue_tail \in Nat /\ page_queue \in [Page -> Page]
    BY DEF TypeOK
  <2> QED  BY <2>1, Sizes
<1>2. PICK table : table = Table  OBVIOUS
<1>3. Consistent(table, queue, h, t)  BY <1>1, <1>2 DEF PagesOK
<1>4. t + n - h <= P /\ h <= t
  <2>1. DOMAIN table[s] = 0 .. n - 1  BY <1>2
  <2>2. t + n - h <= NumPages  BY <1>1, <1>3, <2>1, RoomToFree, Zenon
  <2> QED  BY <1>1, <1>3, <2>2 DEF Consistent
<1>5. Page = 0 .. P - 1  BY <1>1 DEF Page
<1>6. \A k \in 0 .. n - 1 : PageOf(s, k) \in Page
  <2> SUFFICES ASSUME NEW k \in 0 .. n - 1  PROVE PageOf(s, k) \in Page  OBVIOUS
  <2>1. table[s][k] \in Page  BY <1>2, <1>3 DEF Consistent
  <2> QED  BY <1>2, <2>1
<1>7. ASSUME NEW k \in 0 .. n - 1  PROVE (t + k) % P \in Page
  <2>1. t + k \in Int  BY <1>1, SMT
  <2> QED  BY <1>1, <1>5, <2>1, Euclid
<1>8. ASSUME NEW k \in 0 .. n - 1, NEW l \in 0 .. n - 1, (t + k) % P = (t + l) % P
      PROVE  k = l
  <2>1. ASSUME NEW x \in 0 .. n - 1, NEW y \in 0 .. n - 1, x < y
        PROVE  (t + x) % P # (t + y) % P
    <3>1. t + x \in Nat /\ t + y \in Nat /\ t + x < t + y /\ t + y < t + x + P
      BY <1>1, <1>4, <2>1, SMT
    <3> QED  BY <1>1, <3>1, SlotsDiffer
  <2>2. ~(k < l) /\ ~(l < k)  BY <1>8, <2>1
  <2> QED  BY <2>2, SMT
<1>9. ASSUME NEW i \in h .. t - 1, NEW k \in 0 .. n - 1
      PROVE  (t + k) % P # i % P
  <2>1. t + k \in Nat /\ i \in Nat /\ i < t + k /\ t + k < i + P
    BY <1>1, <1>4, SMT
  <2> QED  BY <1>1, <2>1, SlotsDiffer
<1>10. ASSUME NEW j \in Page
       PROVE  FreePages(s)[j] =
                IF \E k \in 0 .. n - 1 : (t + k) % P = j
                THEN PageOf(s, CHOOSE k \in 0 .. n - 1 : (t + k) % P = j)
                ELSE queue[j]
  BY <1>1 DEF FreePages
<1>11. FreePages(s) \in [Page -> Page]
  <2>1. ASSUME NEW j \in Page  PROVE FreePages(s)[j] \in Page
    <3>1. CASE \E k \in 0 .. n - 1 : (t + k) % P = j
      <4>1. PICK k : k = CHOOSE x \in 0 .. n - 1 : (t + x) % P = j  OBVIOUS
      <4>2. k \in 0 .. n - 1  BY <3>1, <4>1
      <4>3. FreePages(s)[j] = PageOf(s, k)  BY <1>10, <3>1, <4>1
      <4> QED  BY <1>6, <4>2, <4>3
    <3>2. CASE ~ \E k \in 0 .. n - 1 : (t + k) % P = j  BY <1>1, <1>10, <3>2
    <3> QED  BY <3>1, <3>2
  <2>2. FreePages(s) = [j \in Page |-> FreePages(s)[j]]  BY DEF FreePages
  <2> HIDE DEF FreePages
  <2> QED  BY <2>1, <2>2
<1>12. ASSUME NEW i \in h .. t - 1  PROVE FreePages(s)[i % P] = queue[i % P]
  <2>1. i \in Int  BY <1>1, SMT
  <2>2. i % P \in Page  BY <1>1, <1>5, <2>1, Euclid
  <2>3. ~ \E k \in 0 .. n - 1 : (t + k) % P = i % P  BY <1>9
  <2> QED  BY <1>10, <2>2, <2>3
<1>13. ASSUME NEW k \in 0 .. n - 1  PROVE FreePages(s)[(t + k) % P] = Table[s][k]
  <2>1. PICK j \in Page : j = (t + k) % P  BY <1>7
  <2>2. (CHOOSE x \in 0 .. n - 1 : (t + x) % P = j) = k
    <3>1. PICK x : x = CHOOSE y \in 0 .. n - 1 : (t + y) % P = j  OBVIOUS
    <3>2. x \in 0 .. n - 1 /\ (t + x) % P = j  BY <2>1, <3>1
    <3>3. x = k  BY <1>8, <2>1, <3>2
    <3> QED  BY <3>1, <3>3
  <2>3. FreePages(s)[j] = PageOf(s, k)  BY <1>10, <2>1, <2>2
  <2> QED  BY <2>1, <2>3
<1> QED  BY <1>1, <1>11, <1>12, <1>13

\* FinalizeSlot moves a request on by its tokens, or retires it with its pages.
LEMMA FinalizeKeeps ==
    ASSUME IInv, FinalizeSlot
    PROVE  IInv'
<1>0. TypeOK /\ LocalsOK /\ TableOK /\ SlotsOK /\ RequestsOK /\ PagesOK /\ CacheOK  BY DEF IInv
<1>1. PICK f \in Slot : f = slot  BY <1>0 DEF TypeOK
<1>2. PICK r : r = request_ids[f]  OBVIOUS
<1>3. PICK at : at = step[r] + NewTokens(f)  OBVIOUS
<1>4. PICK output \in {"word", "eos"} : \E x :
        /\ x = [p \in Position |-> IF p \in step[r] + 1 .. at /\ IsOutput(r, p)
                                   THEN output ELSE tokens[r][p]]
        /\ tokens' = [tokens EXCEPT ![r] = x]
        /\ IF Done(r, at, IF at < MaxSeqLength THEN x[at] ELSE "none")
           THEN /\ request_ids' = [request_ids EXCEPT ![f] = NoRequest]
                /\ page_queue' = FreePages(f)
                /\ page_queue_tail' = page_queue_tail + PageCount(f)
           ELSE UNCHANGED << request_ids, page_queue, page_queue_tail >>
  BY <1>1, <1>2, <1>3 DEF FinalizeSlot
<1>n. PICK new :
        /\ new = [p \in Position |-> IF p \in step[r] + 1 .. at /\ IsOutput(r, p)
                                     THEN output ELSE tokens[r][p]]
        /\ tokens' = [tokens EXCEPT ![r] = new]
        /\ IF Done(r, at, IF at < MaxSeqLength THEN new[at] ELSE "none")
           THEN /\ request_ids' = [request_ids EXCEPT ![f] = NoRequest]
                /\ page_queue' = FreePages(f)
                /\ page_queue_tail' = page_queue_tail + PageCount(f)
           ELSE UNCHANGED << request_ids, page_queue, page_queue_tail >>
  BY <1>4
<1>5. /\ pc = "finalize" /\ r # NoRequest /\ AfterFinalize
      /\ step' = [step EXCEPT ![r] = at]
      /\ UNCHANGED << prompt_length, next_request_id, qo_indptr, kv_indptr,
                      last_page_len, kv_indices, page_queue_head, num_reqs,
                      num_tokens, num_pages, kv_cache >>
  BY <1>1, <1>2, <1>3 DEF FinalizeSlot
<1>6. UNCHANGED << qo_indptr, kv_indptr, last_page_len, kv_indices,
                   num_reqs, num_tokens, num_pages >>
  BY <1>5
<1>7. /\ slot' \in Slot /\ pc' \in {"finalize", "continue"}
      /\ DOMAIN smem_kv_indices' \subseteq Page
      /\ TableOK'
      /\ pc' = "finalize" => num_reqs' = 0 /\ num_tokens' = 0 /\ num_pages' = 0
      /\ pc' = "continue" => num_reqs' <= slot'
      /\ Growing' => /\ (num_pages <= num_reqs * MaxPages)'
                     /\ (num_reqs > 0 <=> num_tokens > 0)'
  BY <1>0, <1>5, <1>6, Advanced
<1>8. ASSUME NEW s \in Slot
      PROVE  /\ Holder(s) <=> request_ids[s] # NoRequest
             /\ Holder(s)' <=> request_ids'[s] # NoRequest
             /\ Pages(s) = PageCount(s) /\ Pages(s)' = Pages(s)
             /\ Tokens(s) = NewTokens(s) /\ Tokens(s)' = Tokens(s)
             /\ Planned(s)' <=> Planned(s) /\ s # f
             /\ s = f => Planned(s)
             /\ \A k \in 0 .. Pages(s) - 1 : Entry(s, k) = PageOf(s, k) /\ Entry(s, k)' = Entry(s, k)
  BY <1>0, <1>1, <1>5, <1>6, Advanced
<1>9. Holder(f) /\ SlotOK(f) /\ r \in Request /\ r < next_request_id /\ step[r] \in Nat
      /\ Length(f) \in Nat /\ step[r] <= Length(f)
  <2>1. Holder(f)  BY <1>2, <1>5, <1>8
  <2> QED  BY <1>0, <1>2, <2>1, HeldSlot
<1>10. Length(f) = at
  BY <1>2, <1>3, <1>8 DEF Length
<1>11. PICK L \in Nat \ {0}, b \in Nat, m \in Nat :
         L = MaxSeqLength /\ b = step[r] /\ m = prompt_length[r] /\ m \in 1 .. L
         /\ at \in Nat /\ b <= at /\ at \in 1 .. L
  <2>1. prompt_length[r] \in 1 .. MaxSeqLength  BY <1>0, <1>9 DEF TypeOK
  <2>2. prompt_length[r] \in Nat  BY <2>1, Sizes, SMT
  <2>3. Length(f) \in 1 .. MaxSeqLength  BY <1>9 DEF SlotOK
  <2> QED  BY <1>9, <1>10, <2>1, <2>2, <2>3, Sizes
<1>12. /\ step'[r] = at /\ tokens'[r] = new
       /\ \A q \in Request : q # r => step'[q] = step[q] /\ tokens'[q] = tokens[q]
  BY <1>0, <1>n, <1>5, <1>9 DEF TypeOK
<1>13. Position = 0 .. L - 1  BY <1>11 DEF Position
<1>14. ASSUME NEW q \in Request, q # r  PROVE Complete(q)' <=> Complete(q)
  BY <1>5, <1>12, <1>14 DEF Complete
<1>15. Complete(r)' <=> \/ at + 1 >= L
                        \/ new[at] = "eos" /\ at >= m
  BY <1>5, <1>9, <1>11, <1>12 DEF Complete
<1> DEFINE done == Done(r, at, IF at < MaxSeqLength THEN new[at] ELSE "none")
<1>16. done <=> Complete(r)'
  <2>1. done <=> \/ at + 1 >= L
                 \/ (IF at < L THEN new[at] ELSE "none") = "eos" /\ at >= m
    BY <1>11 DEF Done
  <2>2. at < L \/ at + 1 >= L  BY <1>11, SMT
  <2> HIDE DEF done
  <2> QED  BY <1>15, <2>1, <2>2
<1> HIDE DEF done
<1>17. IF done
       THEN /\ request_ids' = [request_ids EXCEPT ![f] = NoRequest]
            /\ page_queue' = FreePages(f)
            /\ page_queue_tail' = page_queue_tail + PageCount(f)
       ELSE UNCHANGED << request_ids, page_queue, page_queue_tail >>
  BY <1>n DEF done
<1>18. ASSUME NEW s \in Slot, s # f
       PROVE  request_ids'[s] = request_ids[s] /\ (Holder(s)' <=> Holder(s))
  <2>1. request_ids'[s] = request_ids[s]
    <3>1. CASE done  BY <1>0, <1>17, <1>18, <3>1 DEF TypeOK
    <3>2. CASE ~done  BY <1>17, <3>2
    <3> QED  BY <3>1, <3>2
  <2> QED  BY <1>8, <2>1
<1>19. (Holder(f)' <=> ~done) /\ (~done => request_ids'[f] = r)
  <2>1. CASE done
    <3>1. request_ids'[f] = NoRequest  BY <1>0, <1>17, <2>1 DEF TypeOK
    <3> QED  BY <1>8, <2>1, <3>1
  <2>2. CASE ~done  BY <1>2, <1>5, <1>8, <1>17, <2>2
  <2> QED  BY <2>1, <2>2
<1>20. ASSUME NEW s \in Slot, s # f, Holder(s)
       PROVE  request_ids[s] \in Request /\ request_ids[s] # r
  <2>1. request_ids[s] \in Request  BY <1>0, <1>20, HeldSlot
  <2>2. request_ids[s] # r  BY <1>0, <1>2, <1>9, <1>20 DEF RequestsOK
  <2> QED  BY <2>1, <2>2
<1>21. ASSUME NEW s \in Slot, Holder(s)'
       PROVE  /\ Holder(s)
              /\ request_ids'[s] = request_ids[s]
              /\ Length(s)' = Length(s)
  <2>1. CASE s = f
    <3>1. ~done /\ request_ids'[s] = r  BY <1>19, <1>21, <2>1
    <3>2. ~Planned(s)'  BY <1>8, <2>1
    <3>3. Length(s)' = at + 0  BY <1>12, <3>1, <3>2 DEF Length
    <3>4. at + 0 = at  BY <1>11, SMT
    <3> QED  BY <1>2, <1>9, <1>10, <2>1, <3>1, <3>3, <3>4
  <2>2. CASE s # f
    <3>1. Holder(s) /\ request_ids'[s] = request_ids[s]  BY <1>18, <1>21, <2>2
    <3>2. step'[request_ids[s]] = step[request_ids[s]]  BY <1>12, <1>20, <2>2, <3>1
    <3>3. Planned(s)' <=> Planned(s)  BY <1>8, <2>2
    <3>4. Tokens(s)' = Tokens(s)  BY <1>8
    <3>5. Length(s)' = Length(s)  BY <3>1, <3>2, <3>3, <3>4 DEF Length
    <3> QED  BY <3>1, <3>5
  <2> QED  BY <2>1, <2>2
<1>22. SlotsOK'
  <2> SUFFICES ASSUME NEW s \in Slot, Holder(s)'  PROVE SlotOK(s)'
    BY DEF SlotsOK
  <2>1. Holder(s) /\ request_ids'[s] = request_ids[s] /\ Length(s)' = Length(s)  BY <1>21
  <2>2. SlotOK(s)  BY <1>0, <2>1 DEF SlotsOK
  <2>3. PagesFor(Length(s))' = PagesFor(Length(s)) /\ LastPageLen(Length(s))' = LastPageLen(Length(s))
    BY <2>1 DEF PagesFor, LastPageLen
  <2>4. Pages(s)' = Pages(s) /\ Tokens(s)' = Tokens(s)  BY <1>8
  <2>5. /\ request_ids'[s] \in 0 .. next_request_id' - 1
        /\ Length(s)' \in 1 .. MaxSeqLength
        /\ Pages(s)' = PagesFor(Length(s))'
    BY <1>5, <2>1, <2>2, <2>3, <2>4 DEF SlotOK
  <2>6. step'[request_ids'[s]] > 0 => ~Complete(request_ids[s])'
    <3>1. CASE s = f
      <4>1. request_ids'[s] = r /\ ~done  BY <1>19, <3>1
      <4>2. Complete(request_ids[s])' <=> Complete(r)'  BY <4>1 DEF Complete
      <4> QED  BY <1>16, <4>1, <4>2
    <3>2. CASE s # f
      <4>1. PICK q \in Request : q = request_ids[s] /\ q # r  BY <1>20, <2>1, <3>2
      <4>2. Complete(request_ids[s])' <=> Complete(q)'  BY <2>1, <4>1 DEF Complete
      <4>3. step[q] > 0 => ~Complete(q)  BY <2>2, <4>1 DEF SlotOK
      <4> QED  BY <1>12, <1>14, <2>1, <4>1, <4>2, <4>3
    <3> QED  BY <3>1, <3>2
  <2>7. ASSUME Planned(s)'
        PROVE  /\ Tokens(s)' \in 0 .. MaxTokensPerRequest
               /\ last_page_len'[s] = LastPageLen(Length(s))'
               /\ \A p \in step'[request_ids'[s]] .. Length(s)' - 1 : tokens'[request_ids'[s]][p] # "none"
    <3>1. Planned(s) /\ s # f  BY <1>8, <2>7
    <3>2. PICK q \in Request : q = request_ids[s] /\ q # r  BY <1>20, <2>1, <3>1
    <3>3. step'[q] = step[q] /\ tokens'[q] = tokens[q]  BY <1>12, <3>2
    <3>4. /\ Tokens(s) \in 0 .. MaxTokensPerRequest
          /\ last_page_len[s] = LastPageLen(Length(s))
          /\ \A p \in step[q] .. Length(s) - 1 : tokens[q][p] # "none"
      BY <2>2, <3>1, <3>2 DEF SlotOK
    <3> HIDE DEF Length, LastPageLen, Tokens
    <3> QED  BY <1>5, <2>1, <2>3, <2>4, <3>2, <3>3, <3>4
  <2> HIDE DEF Length, Pages, Tokens, Planned, Complete, PagesFor, LastPageLen
  <2> QED  BY <2>5, <2>6, <2>7 DEF SlotOK
<1>23. RequestsOK'
  <2>1. ASSUME NEW s \in Slot, NEW t \in Slot, Holder(s)', Holder(t)', request_ids'[s] = request_ids'[t]
        PROVE  s = t
    BY <1>0, <1>21, <2>1 DEF RequestsOK
  <2>2. ASSUME NEW q \in Request, q < next_request_id'
        PROVE  Complete(q)' \/ \E s \in Slot : Holder(s)' /\ request_ids'[s] = q
    <3>1. CASE q = r
      BY <1>16, <1>19, <3>1
    <3>2. CASE q # r
      <4>1. Complete(q) \/ \E s \in Slot : Holder(s) /\ request_ids[s] = q
        BY <1>0, <1>5, <2>2 DEF RequestsOK
      <4>2. CASE Complete(q)  BY <1>14, <3>2, <4>2
      <4>3. CASE \E s \in Slot : Holder(s) /\ request_ids[s] = q
        <5>1. PICK s \in Slot : Holder(s) /\ request_ids[s] = q  BY <4>3
        <5>2. s # f  BY <1>2, <3>2, <5>1
        <5> QED  BY <1>18, <5>1, <5>2
      <4> QED  BY <4>1, <4>2, <4>3
    <3> QED  BY <3>1, <3>2
  <2>3. ASSUME NEW q \in Request, NEW p \in Position
        PROVE  tokens'[q][p] = "none" <=> p > step'[q] /\ p >= prompt_length'[q]
    <3>1. tokens[q][p] = "none" <=> p > step[q] /\ p >= prompt_length[q]  BY <1>0 DEF RequestsOK
    <3>2. CASE q # r  BY <1>5, <1>12, <3>1, <3>2
    <3>3. CASE q = r
      <4>1. tokens'[q][p] = IF p \in b + 1 .. at /\ p >= m /\ p < L THEN output ELSE tokens[q][p]
        BY <1>n, <1>11, <1>12, <3>3 DEF IsOutput
      <4>2. tokens[q][p] = "none" <=> p > b /\ p >= m  BY <1>11, <3>1, <3>3
      <4>3. output # "none"  OBVIOUS
      <4>4. p \in Int /\ p < L  BY <1>11, <1>13, SMT
      <4>5. p \in b + 1 .. at <=> p > b /\ p <= at  BY <1>11, <4>4, SMT
      <4>6. (p <= at <=> ~(p > at)) /\ (p > at => p > b)  BY <1>11, <4>4, SMT
      <4>7. tokens'[q][p] = "none" <=> p > at /\ p >= m
        BY <4>1, <4>2, <4>3, <4>4, <4>5, <4>6
      <4> QED  BY <1>5, <1>11, <1>12, <3>3, <4>7
    <3> QED  BY <3>2, <3>3
  <2>4. ASSUME NEW q \in Request, q >= next_request_id'  PROVE step'[q] = 0
    <3>1. q # r
      <4>1. q \in Int /\ next_request_id \in Int
        <5>1. next_request_id \in 0 .. TotalNumRequests  BY <1>0 DEF TypeOK
        <5> QED  BY <5>1, Sizes, SMT DEF Request
      <4>2. ~(q < next_request_id)  BY <1>5, <2>4, <4>1, SMT
      <4> QED  BY <1>9, <4>2
    <3> QED  BY <1>0, <1>5, <1>12, <2>4, <3>1 DEF RequestsOK
  <2> QED  BY <2>1, <2>2, <2>3, <2>4 DEF RequestsOK
<1>24. PICK n \in Nat : /\ n = PageCount(f) /\ DOMAIN Table[f] = 0 .. n - 1
                        /\ \A k \in 0 .. n - 1 : Table[f][k] = PageOf(f, k)
  <2>1. Pages(f) = PagesFor(Length(f)) /\ Pages(f) = PageCount(f)  BY <1>8, <1>9 DEF SlotOK
  <2>2. PagesFor(Length(f)) \in Nat
    <3>1. Length(f) \in Nat \ {0}  BY <1>9, <1>10, <1>11, SMT
    <3> QED  BY <3>1, PagesFill
  <2>3. DOMAIN Table[f] = 0 .. Pages(f) - 1 /\ \A k \in 0 .. Pages(f) - 1 : Table[f][k] = PageOf(f, k)
    BY <1>8, <1>9, Rows
  <2> QED  BY <2>1, <2>2, <2>3
<1>25. /\ FreePages(f) \in [Page -> Page]
       /\ \A i \in page_queue_head .. page_queue_tail - 1 :
            FreePages(f)[i % NumPages] = page_queue[i % NumPages]
       /\ \A k \in 0 .. n - 1 : FreePages(f)[(page_queue_tail + k) % NumPages] = Table[f][k]
  BY <1>0, <1>24, Freed
<1>26. page_queue \in [Page -> Page] /\ page_queue_head \in Nat /\ page_queue_tail \in Nat
  BY <1>0 DEF TypeOK
<1>27. ASSUME NEW s \in Slot, Holder(s)' <=> Holder(s)  PROVE Table'[s] = Table[s]
  <2>1. Pages(s)' = Pages(s) /\ \A k \in 0 .. Pages(s) - 1 : Entry(s, k)' = Entry(s, k)  BY <1>8
  <2>2. /\ Table'[s] = IF Holder(s)' THEN [k \in 0 .. Pages(s)' - 1 |-> Entry(s, k)'] ELSE << >>
        /\ Table[s] = IF Holder(s) THEN [k \in 0 .. Pages(s) - 1 |-> Entry(s, k)] ELSE << >>
    BY DEF Table
  <2>3. CASE Holder(s)  BY <1>27, <2>1, <2>2, <2>3
  <2>4. CASE ~Holder(s)  BY <1>27, <2>2, <2>4
  <2> QED  BY <2>3, <2>4
<1>28. PagesOK'
  <2>1. PICK table, next : table = Table /\ next = Table'  OBVIOUS
  <2>2. Consistent(table, page_queue, page_queue_head, page_queue_tail)  BY <1>0, <2>1 DEF PagesOK
  <2>3. \A s \in Slot \ {f} : next[s] = table[s]  BY <1>18, <1>27, <2>1
  <2>4. CASE done
    <3>1. DOMAIN next[f] = {}  BY <1>19, <2>1, <2>4, NextRows
    <3>2. PICK h \in Nat, t \in Nat, queue \in [Page -> Page], ring \in [Page -> Page] :
            /\ h = page_queue_head /\ t = page_queue_tail /\ queue = page_queue /\ ring = FreePages(f)
      BY <1>25, <1>26
    <3>3. Consistent(table, queue, h, t)  BY <2>2, <3>2
    <3>4. /\ DOMAIN table[f] = 0 .. n - 1
          /\ \A i \in h .. t - 1 : ring[i % NumPages] = queue[i % NumPages]
          /\ \A k \in 0 .. n - 1 : ring[(t + k) % NumPages] = table[f][k]
      BY <1>24, <1>25, <2>1, <3>2
    <3>5. Consistent(next, ring, h, t + n)
      <4>1. Gives(next, ring, table, queue, h, t, f, n)  BY <2>3, <3>1, <3>4 DEF Gives
      <4> QED  BY <3>3, <4>1, GivePages, Zenon
    <3>6. page_queue' = ring /\ page_queue_head' = h /\ page_queue_tail' = t + n
      BY <1>5, <1>17, <1>24, <2>4, <3>2
    <3> HIDE DEF Table
    <3> QED  BY <2>1, <3>5, <3>6 DEF PagesOK, Consistent
  <2>5. CASE ~done
    <3>1. next[f] = table[f]  BY <1>9, <1>19, <1>27, <2>1, <2>5
    <3>2. \A s \in Slot : next[s] = table[s]  BY <2>3, <3>1
    <3>3. page_queue' = page_queue /\ page_queue_head' = page_queue_head
          /\ page_queue_tail' = page_queue_tail
      BY <1>5, <1>17, <2>5
    <3>4. Consistent(next, page_queue, page_queue_head, page_queue_tail)
      BY <2>2, <3>2 DEF Consistent
    <3> HIDE DEF Table
    <3> QED  BY <2>1, <3>3, <3>4 DEF PagesOK, Consistent
  <2> QED  BY <2>4, <2>5
<1>29. CacheOK'
  <2>1. ASSUME NEW s \in Slot, Holder(s)'
        PROVE  Cached(s)' = Cached(s)
    <3>1. Cached(s) = Length(s)  BY <1>5 DEF Cached
    <3>2. Cached(s)' = Length(s)'
      <4>1. CASE pc' = "finalize"  BY <4>1 DEF Cached
      <4>2. CASE pc' = "continue"
        <5>1. ~Planned(s)'
          <6>1. s >= 0  BY Sizes, SMT DEF Slot
          <6>2. slot' = 0  BY <1>5, <4>2 DEF AfterFinalize
          <6> QED  BY <4>2, <6>1, <6>2 DEF Planned, Behind
        <5>2. Length(s)' = step'[request_ids'[s]] + 0  BY <5>1 DEF Length
        <5>3. Cached(s)' = step'[request_ids'[s]]  BY <4>2 DEF Cached
        <5>4. step'[request_ids'[s]] \in Nat
          <6>1. Holder(s) /\ request_ids'[s] = request_ids[s]  BY <1>21, <2>1
          <6>2. request_ids[s] \in Request /\ step[request_ids[s]] \in Nat  BY <1>0, <6>1, HeldSlot
          <6> QED  BY <1>11, <1>12, <6>1, <6>2
        <5> QED  BY <5>2, <5>3, <5>4, SMT
      <4> QED  BY <1>7, <4>1, <4>2
    <3> QED  BY <1>21, <2>1, <3>1, <3>2
  <2> QED  BY <1>0, <1>5, <1>8, <1>21, <2>1, CacheStays
<1>30. TypeOK'
  <2>1. pc' \in {"finalize", "continue", "admit", "run", "finished"}  BY <1>7
  <2>2. new \in [Position -> {"none", "word", "eos"}]
    <3>1. tokens[r] \in [Position -> {"none", "word", "eos"}]  BY <1>0, <1>9 DEF TypeOK
    <3> QED  BY <1>n, <3>1
  <2>3. tokens' \in [Request -> [Position -> {"none", "word", "eos"}]]
    BY <1>0, <1>n, <1>9, <2>2 DEF TypeOK
  <2>4. step' \in [Request -> 0 .. MaxSeqLength]
    <3>1. at \in 0 .. MaxSeqLength  BY <1>11, SMT
    <3> QED  BY <1>0, <1>5, <1>9, <3>1 DEF TypeOK
  <2>5. request_ids' \in [Slot -> Request \cup {NoRequest}]
    <3>1. CASE done  BY <1>0, <1>17, <3>1 DEF TypeOK
    <3>2. CASE ~done  BY <1>0, <1>17, <3>2 DEF TypeOK
    <3> QED  BY <3>1, <3>2
  <2>6. page_queue' \in [Page -> Page] /\ page_queue_tail' \in Nat
    <3>1. CASE done
      <4>1. page_queue_tail + n \in Nat  BY <1>26, SMT
      <4> QED  BY <1>17, <1>24, <1>25, <3>1, <4>1
    <3>2. CASE ~done  BY <1>17, <1>26, <3>2
    <3> QED  BY <3>1, <3>2
  <2> QED  BY <1>0, <1>5, <1>7, <2>1, <2>3, <2>4, <2>5, <2>6 DEF TypeOK
<1>31. LocalsOK'
  <2>1. pc' # "finished" /\ pc' # "run"  BY <1>7
  <2> QED  BY <1>7, <2>1 DEF LocalsOK
<1> QED  BY <1>7, <1>22, <1>23, <1>28, <1>29, <1>30, <1>31 DEF IInv

-----------------------------------------------------------------------------
(* The invariant.                                                           *)

\* The invariant holds when init_kernel is done.
LEMMA InitHolds ==
    ASSUME Init
    PROVE  IInv
<1>1. /\ prompt_length \in [Request -> 1 .. MaxSeqLength]
      /\ tokens = [r \in Request |-> [p \in Position |->
                     IF p < prompt_length[r] THEN "word" ELSE "none"]]
      /\ step = [r \in Request |-> 0]
      /\ next_request_id = 0
      /\ request_ids = [s \in Slot |-> NoRequest]
      /\ qo_indptr = [s \in 0 .. MaxBatchedRequests |-> 0]
      /\ kv_indptr = [s \in 0 .. MaxBatchedRequests |-> 0]
      /\ kv_indices = [j \in Page |-> 0]
      /\ last_page_len = [s \in Slot |-> 0]
      /\ page_queue = [j \in Page |-> j]
      /\ page_queue_head = 0 /\ page_queue_tail = NumPages
      /\ pc = "finalize" /\ slot = 0 /\ smem_kv_indices = << >>
      /\ num_reqs = 0 /\ num_tokens = 0 /\ num_pages = 0
  BY DEF Init
<1>2. /\ 0 \in Page /\ 0 \in Slot /\ 0 \in 0 .. MaxSeqLength /\ 0 \in 0 .. TotalNumRequests
      /\ 0 \in 0 .. MaxBatchedRequests /\ 0 \in 0 .. MaxBatchedTokens /\ 0 \in 0 .. NumPages
      /\ 0 \in 0 .. PageSize /\ NumPages \in Nat
  BY Sizes, SMT DEF Page, Slot
<1>3. ~Growing /\ \A s \in Slot : ~Holder(s) /\ ~Behind(s)
  BY <1>1 DEF Growing, Holder, Behind
<1>4. TypeOK
  <2>1. tokens \in [Request -> [Position -> {"none", "word", "eos"}]]  BY <1>1
  <2>2. DOMAIN smem_kv_indices = {}  BY <1>1
  <2> QED  BY <1>1, <1>2, <2>1, <2>2 DEF TypeOK
<1>5. LocalsOK  BY <1>1, <1>3 DEF LocalsOK
<1>6. TableOK
  <2>1. \A s \in Slot : kv_indptr[s + 1] <= kv_indptr[MaxBatchedRequests]
    <3>1. \A s \in Slot : s + 1 \in 0 .. MaxBatchedRequests  BY Sizes, SMT DEF Slot
    <3>2. MaxBatchedRequests \in 0 .. MaxBatchedRequests /\ 0 <= 0  BY Sizes, SMT
    <3> QED  BY <1>1, <3>1, <3>2
  <2> QED  BY <1>1, <1>3, <2>1 DEF TableOK
<1>7. SlotsOK /\ CacheOK  BY <1>3 DEF SlotsOK, CacheOK
<1>8. RequestsOK
  <2>1. \A r \in Request : step[r] = 0 /\ ~(r < next_request_id)
    <3>1. \A r \in Request : ~(r < 0)  BY Sizes, SMT DEF Request
    <3> QED  BY <1>1, <3>1
  <2>2. ASSUME NEW r \in Request, NEW p \in Position
        PROVE  tokens[r][p] = "none" <=> p > step[r] /\ p >= prompt_length[r]
    <3>1. tokens[r][p] = IF p < prompt_length[r] THEN "word" ELSE "none"  BY <1>1
    <3>2. p \in Nat /\ prompt_length[r] \in Nat /\ prompt_length[r] >= 1
      BY <1>1, Sizes, SMT DEF Position
    <3>3. p < prompt_length[r] <=> ~(p >= prompt_length[r])  BY <3>2, SMT
    <3>4. p >= prompt_length[r] => p > 0  BY <3>2, SMT
    <3> QED  BY <2>1, <3>1, <3>3, <3>4
  <2> QED  BY <1>3, <2>1, <2>2 DEF RequestsOK
<1>9. PagesOK
  <2>1. \A s \in Slot : DOMAIN Table[s] = {}  BY <1>3, Rows
  <2>2. PICK P \in Nat \ {0} : P = NumPages  BY Sizes
  <2>3. ASSUME NEW i \in 0 .. P - 1  PROVE i % P = i /\ page_queue[i % P] = i
    <3>1. i = 0 * P + i /\ 0 \in Int  BY <2>2, SMT
    <3>2. (0 * P + i) % P = i  BY <2>2, DivMod
    <3>3. i \in Page  BY <2>2 DEF Page
    <3> QED  BY <1>1, <3>1, <3>2, <3>3
  <2>4. \A p \in Page : p \in 0 .. P - 1  BY <2>2 DEF Page
  <2>5. 0 <= P  BY <2>2, SMT
  <2> HIDE DEF Table
  <2>6. Consistent(Table, page_queue, 0, P)
    BY <2>1, <2>2, <2>3, <2>4, <2>5 DEF Consistent
  <2> QED  BY <1>1, <2>2, <2>6 DEF PagesOK
<1> QED  BY <1>4, <1>5, <1>6, <1>7, <1>8, <1>9 DEF IInv

\* The invariant is about the variables only.
LEMMA StutterKeeps ==
    ASSUME IInv, UNCHANGED vars
    PROVE  IInv'
<1>0. TypeOK /\ LocalsOK /\ TableOK /\ SlotsOK /\ RequestsOK /\ PagesOK /\ CacheOK  BY DEF IInv
<1>1. UNCHANGED << tokens, prompt_length, step, next_request_id, request_ids, qo_indptr,
                   kv_indptr, last_page_len, kv_indices, page_queue, page_queue_head,
                   page_queue_tail, pc, slot, smem_kv_indices, num_reqs, num_tokens,
                   num_pages, kv_cache >>
  BY DEF vars, requestVars, batchVars, pageVars, loopVars
<1>2. Growing' <=> Growing  BY <1>1 DEF Growing
<1>3. ASSUME NEW s \in Slot
      PROVE  /\ Holder(s)' <=> Holder(s)
             /\ Behind(s)' <=> Behind(s)
             /\ PagesEnd(s)' = PagesEnd(s) /\ Pages(s)' = Pages(s) /\ Tokens(s)' = Tokens(s)
             /\ Planned(s)' <=> Planned(s)
             /\ Length(s)' = Length(s) /\ Cached(s)' = Cached(s)
             /\ \A k \in 0 .. Pages(s) - 1 : Entry(s, k)' = Entry(s, k)
  <2>1. Behind(s)' <=> Behind(s)  BY <1>1 DEF Behind
  <2>2. Holder(s)' <=> Holder(s)  BY <1>1, <1>2, <2>1 DEF Holder
  <2>3. PagesEnd(s)' = PagesEnd(s) /\ TokensEnd(s)' = TokensEnd(s)
    BY <1>1, <1>2 DEF PagesEnd, TokensEnd
  <2>4. Pages(s)' = Pages(s) /\ Tokens(s)' = Tokens(s)  BY <1>1, <2>3 DEF Pages, Tokens
  <2>5. Planned(s)' <=> Planned(s)  BY <1>1, <2>1 DEF Planned
  <2>6. Length(s)' = Length(s)  BY <1>1, <2>4, <2>5 DEF Length
  <2>7. Cached(s)' = Cached(s)  BY <1>1, <2>6 DEF Cached
  <2>8. \A k \in 0 .. Pages(s) - 1 : Entry(s, k)' = Entry(s, k)  BY <1>1, <2>1 DEF Entry, PageOf
  <2> QED  BY <2>1, <2>2, <2>3, <2>4, <2>5, <2>6, <2>7, <2>8
<1>4. SlotsOK' /\ RequestsOK' /\ PagesOK'
  <2>1. UNCHANGED requestVars  BY <1>1 DEF requestVars
  <2>2. UNCHANGED << page_queue, page_queue_head, page_queue_tail >>  BY <1>1
  <2>3. \A s \in Slot : Holder(s) =>
             /\ request_ids'[s] = request_ids[s]
             /\ Pages(s)' = Pages(s)
             /\ Length(s)' = Length(s)
             /\ Planned(s)' => /\ Planned(s)
                               /\ Tokens(s)' = Tokens(s)
                               /\ last_page_len'[s] = last_page_len[s]
             /\ \A k \in 0 .. Pages(s) - 1 : Entry(s, k)' = Entry(s, k)
    BY <1>1, <1>3
  <2>4. \A s \in Slot : Holder(s)' <=> Holder(s)  BY <1>3
  <2> QED  BY <1>0, <2>1, <2>2, <2>3, <2>4, NothingMoves
<1>5. CacheOK'
  <2>1. \A s \in Slot : Holder(s)' =>
             /\ Holder(s)
             /\ request_ids'[s] = request_ids[s]
             /\ Cached(s)' = Cached(s)
             /\ \A k \in 0 .. Pages(s) - 1 : Entry(s, k)' = Entry(s, k)
    BY <1>1, <1>3
  <2> QED  BY <1>0, <1>1, <2>1, CacheStays
<1>6. TypeOK'  BY <1>0, <1>1 DEF TypeOK
<1>7. MaxPages' = MaxPages  BY DEF MaxPages, PagesFor
<1>8. LocalsOK'  BY <1>0, <1>1, <1>2, <1>3, <1>7 DEF LocalsOK
<1>9. TableOK'
  <2>1. pc \in {"run", "finalize"} => \A s \in Slot : kv_indptr[s + 1] <= kv_indptr[MaxBatchedRequests]
    BY <1>0 DEF TableOK
  <2>2. \A s \in Slot : Holder(s)' /\ Behind(s)' => 0 .. PagesEnd(s)' - 1 \subseteq DOMAIN smem_kv_indices'
    BY <1>0, <1>1, <1>3 DEF TableOK
  <2>3. Growing => \A s \in 0 .. num_reqs - 1 : PagesEnd(s)' <= num_pages
    <3> SUFFICES ASSUME Growing, NEW s \in 0 .. num_reqs - 1  PROVE PagesEnd(s)' <= num_pages
      OBVIOUS
    <3>1. s \in Slot
      <4>1. num_reqs \in 0 .. MaxBatchedRequests  BY <1>0 DEF TypeOK
      <4> QED  BY <4>1, Sizes, SMT DEF Slot
    <3>2. PagesEnd(s)' = PagesEnd(s)  BY <1>3, <3>1
    <3> QED  BY <1>0, <3>2 DEF TableOK
  <2>4. ASSUME Growing \/ pc = "run", NEW i \in 0 .. num_pages - 1
        PROVE  \E s \in Slot : ~Behind(s)' /\ Holder(s)' /\ i \in kv_indptr'[s] .. PagesEnd(s)' - 1
    <3>1. PICK s \in Slot : ~Behind(s) /\ Holder(s) /\ i \in kv_indptr[s] .. PagesEnd(s) - 1
      BY <1>0, <2>4 DEF TableOK
    <3>2. ~Behind(s)' /\ Holder(s)' /\ PagesEnd(s)' = PagesEnd(s)  BY <1>3, <3>1
    <3> QED  BY <1>1, <3>1, <3>2
  <2> QED  BY <1>1, <1>2, <2>1, <2>2, <2>3, <2>4 DEF TableOK
<1> QED  BY <1>4, <1>5, <1>6, <1>8, <1>9 DEF IInv

\* Every step keeps the invariant.
LEMMA StepKeeps ==
    ASSUME IInv, [Next]_vars
    PROVE  IInv'
<1>1. CASE FinalizeSlot  BY <1>1, FinalizeKeeps
<1>2. CASE SkipEmptySlot  BY <1>2, SkipEmptyKeeps
<1>3. CASE ContinueRequest  BY <1>3, ContinueKeeps
<1>4. CASE SkipDoneSlot  BY <1>4, SkipDoneKeeps
<1>5. CASE AdmitRequest  BY <1>5, AdmitKeeps
<1>6. CASE FinishBatch  BY <1>6, FinishKeeps
<1>7. CASE RunBatch  BY <1>7, RunKeeps
<1>8. CASE Finished
  <2>1. UNCHANGED vars  BY <1>8 DEF Finished
  <2> QED  BY <2>1, StutterKeeps
<1>9. CASE UNCHANGED vars  BY <1>9, StutterKeeps
<1> QED  BY <1>1, <1>2, <1>3, <1>4, <1>5, <1>6, <1>7, <1>8, <1>9 DEF Next

\* The invariant holds at every point of prepare_next_batch and the runs between.
THEOREM BatchInvariant == Spec => []IInv
<1>1. Init => IInv  BY InitHolds
<1>2. IInv /\ [Next]_vars => IInv'  BY StepKeeps
<1> QED  BY <1>1, <1>2, PTL DEF Spec

-----------------------------------------------------------------------------
(* What it says of the batch.                                               *)

\* The buffers and locals of prepare_next_batch stay within their bounds: a batch has no
\* more requests, tokens or pages than its arrays have room for.
THEOREM BatchTypeCorrect == Spec => []TypeOK
<1>1. IInv => TypeOK  BY DEF IInv
<1> QED  BY <1>1, BatchInvariant, PTL

\* A page is in use once or free once.
LEMMA OnePlace ==
    ASSUME IInv, pc \in {"run", "finished"}, NEW p \in Page
    PROVE  Cardinality({i \in 0 .. num_pages - 1 : kv_indices[i] = p})
             + Cardinality({i \in FreePlaces : page_queue[i] = p}) = 1
<1> DEFINE used == {i \in 0 .. num_pages - 1 : kv_indices[i] = p}
           free == {i \in FreePlaces : page_queue[i] = p}
<1>0. TypeOK /\ LocalsOK /\ TableOK /\ SlotsOK /\ PagesOK  BY DEF IInv
<1>1. /\ \A s, t \in Slot : \A k \in DOMAIN Table[s], l \in DOMAIN Table[t] :
           Table[s][k] = Table[t][l] => s = t /\ k = l
      /\ \A i, j \in page_queue_head .. page_queue_tail - 1 :
           page_queue[i % NumPages] = page_queue[j % NumPages] => i = j
      /\ \A i \in page_queue_head .. page_queue_tail - 1 : \A s \in Slot : \A k \in DOMAIN Table[s] :
           page_queue[i % NumPages] # Table[s][k]
      /\ \A q \in Page : \/ \E i \in page_queue_head .. page_queue_tail - 1 : page_queue[i % NumPages] = q
                         \/ \E s \in Slot : \E k \in DOMAIN Table[s] : Table[s][k] = q
  BY <1>0 DEF PagesOK, Consistent
<1>2. ASSUME NEW i \in used
      PROVE  \E s \in Slot : \E k \in DOMAIN Table[s] : Table[s][k] = p /\ i = kv_indptr[s] + k
  <2>1. pc = "run"
    <3>1. pc = "finished" => num_pages = 0  BY <1>0 DEF LocalsOK
    <3>2. 0 .. 0 - 1 = {}  BY SMT
    <3> QED  BY <3>1, <3>2
  <2>2. PICK s \in Slot : Holder(s) /\ i \in kv_indptr[s] .. PagesEnd(s) - 1
    BY <1>0, <2>1 DEF TableOK
  <2>3. PICK a \in Nat, b \in Nat : a = kv_indptr[s] /\ b = PagesEnd(s)
    <3>1. s + 1 \in 0 .. MaxBatchedRequests /\ s \in 0 .. MaxBatchedRequests
      BY Sizes, SMT DEF Slot
    <3>2. kv_indptr[s] \in 0 .. NumPages /\ kv_indptr[s + 1] \in 0 .. NumPages  BY <1>0, <3>1 DEF TypeOK
    <3>3. PagesEnd(s) = kv_indptr[s + 1]  BY <2>1 DEF PagesEnd, Growing
    <3> QED  BY <3>2, <3>3, Sizes, SMT
  <2>4. PICK k \in 0 .. b - a - 1 : i = a + k
    <3>1. i \in a .. b - 1  BY <2>2, <2>3
    <3>2. i - a \in 0 .. b - a - 1 /\ i = a + (i - a)  BY <2>3, <3>1, SMT
    <3> QED  BY <3>2
  <2>5. k \in 0 .. Pages(s) - 1  BY <2>3, <2>4 DEF Pages
  <2>6. Entry(s, k) = kv_indices[i]
    <3>1. ~Behind(s)  BY <2>1 DEF Behind
    <3> QED  BY <2>3, <2>4, <3>1 DEF Entry, PageOf
  <2>7. k \in DOMAIN Table[s] /\ Table[s][k] = kv_indices[i]  BY <2>2, <2>5, <2>6, Rows
  <2> QED  BY <2>3, <2>4, <2>7
<1>3. ASSUME NEW s \in Slot, NEW k \in DOMAIN Table[s], Table[s][k] = p
      PROVE  kv_indptr[s] + k \in used
  <2>1. Holder(s) /\ k \in 0 .. Pages(s) - 1 /\ Entry(s, k) = p  BY <1>3, Rows
  <2>2. pc = "run"  BY <1>0, <2>1 DEF LocalsOK
  <2>3. ~Behind(s) /\ PagesEnd(s) = kv_indptr[s + 1]  BY <2>2 DEF Behind, PagesEnd, Growing
  <2>4. s + 1 \in 0 .. MaxBatchedRequests /\ s \in 0 .. MaxBatchedRequests
    BY Sizes, SMT DEF Slot
  <2>5. PICK a \in Nat, b \in Nat, c \in Nat :
          a = kv_indptr[s] /\ b = kv_indptr[s + 1] /\ c = num_pages /\ b <= c
    <3>1. kv_indptr[s] \in 0 .. NumPages /\ kv_indptr[s + 1] \in 0 .. NumPages /\ num_pages \in 0 .. NumPages
      BY <1>0, <2>4 DEF TypeOK
    <3>2. kv_indptr[s + 1] <= num_pages  BY <1>0, <2>2 DEF TableOK, LocalsOK
    <3>3. kv_indptr[s] \in Nat /\ kv_indptr[s + 1] \in Nat /\ num_pages \in Nat  BY <3>1, Sizes, SMT
    <3> QED  BY <3>2, <3>3
  <2>6. k \in 0 .. b - a - 1  BY <2>1, <2>3, <2>5 DEF Pages
  <2>7. a + k \in 0 .. c - 1  BY <2>5, <2>6, SMT
  <2>8. kv_indices[a + k] = p  BY <2>1, <2>3, <2>5 DEF Entry, PageOf
  <2> QED  BY <2>5, <2>7, <2>8
<1>4. \A i \in free : \E j \in page_queue_head .. page_queue_tail - 1 :
        i = j % NumPages /\ page_queue[j % NumPages] = p
  BY DEF FreePlaces
<1>5. \A j \in page_queue_head .. page_queue_tail - 1 :
        page_queue[j % NumPages] = p => j % NumPages \in free
  BY DEF FreePlaces
<1> HIDE DEF used, free, Table
<1>6. ASSUME NEW S, NEW e \in S, \A x \in S : x = e  PROVE Cardinality(S) = 1
  <2>1. S = {e}  BY <1>6
  <2> QED  BY <2>1, FS_Singleton
<1>7. ASSUME NEW S, \A x \in S : FALSE  PROVE Cardinality(S) = 0
  <2>1. S = {}  BY <1>7
  <2> QED  BY <2>1, FS_EmptySet
<1>8. CASE \E j \in page_queue_head .. page_queue_tail - 1 : page_queue[j % NumPages] = p
  <2>1. PICK j \in page_queue_head .. page_queue_tail - 1 : page_queue[j % NumPages] = p  BY <1>8
  <2>2. j % NumPages \in free  BY <1>5, <2>1
  <2>3. \A x \in free : x = j % NumPages  BY <1>1, <1>4, <2>1
  <2>4. \A x \in used : FALSE  BY <1>1, <1>2, <2>1
  <2>5. Cardinality(free) = 1 /\ Cardinality(used) = 0  BY <1>6, <1>7, <2>2, <2>3, <2>4
  <2> QED  BY <2>5, SMT DEF used, free
<1>9. CASE \E s \in Slot : \E k \in DOMAIN Table[s] : Table[s][k] = p
  <2>1. PICK s \in Slot : \E k \in DOMAIN Table[s] : Table[s][k] = p  BY <1>9
  <2>2. PICK k \in DOMAIN Table[s] : Table[s][k] = p  BY <2>1
  <2>3. kv_indptr[s] + k \in used  BY <1>3, <2>2
  <2>4. \A x \in used : x = kv_indptr[s] + k
    <3> SUFFICES ASSUME NEW x \in used  PROVE x = kv_indptr[s] + k  OBVIOUS
    <3>1. PICK t \in Slot : \E l \in DOMAIN Table[t] : Table[t][l] = p /\ x = kv_indptr[t] + l  BY <1>2
    <3>2. PICK l \in DOMAIN Table[t] : Table[t][l] = p /\ x = kv_indptr[t] + l  BY <3>1
    <3>3. t = s /\ l = k  BY <1>1, <2>2, <3>2
    <3> QED  BY <3>2, <3>3
  <2>5. \A x \in free : FALSE  BY <1>1, <1>4, <2>2
  <2>6. Cardinality(used) = 1 /\ Cardinality(free) = 0  BY <1>6, <1>7, <2>3, <2>4, <2>5
  <2> QED  BY <2>6, SMT DEF used, free
<1> QED  BY <1>1, <1>8, <1>9

\* The ring and the page table account for every page: whatever is retired, compacted
\* and admitted, no page is lost or given to two requests.
THEOREM PagesNeverLost == Spec => []PagesAccountedFor
<1>1. ASSUME IInv  PROVE PagesAccountedFor
  <2>1. TypeOK /\ PagesOK  BY <1>1 DEF IInv
  <2>2. page_queue_head \in Nat /\ page_queue_tail \in Nat  BY <2>1 DEF TypeOK
  <2>3. page_queue_head <= page_queue_tail  BY <2>1 DEF PagesOK, Consistent
  <2>4. page_queue_tail - page_queue_head <= NumPages
    <3>1. PICK h \in Nat, t \in Nat : h = page_queue_head /\ t = page_queue_tail  BY <2>2
    <3>2. PICK table : table = Table  OBVIOUS
    <3>3. Consistent(table, page_queue, h, t)  BY <2>1, <3>1, <3>2 DEF PagesOK
    <3>4. t - h <= NumPages  BY <3>3, RingFits, Zenon
    <3> QED  BY <3>1, <3>4
  <2> QED  BY <1>1, <2>3, <2>4, OnePlace DEF PagesAccountedFor
<1> QED  BY <1>1, BatchInvariant, PTL

\* The compaction in place leaves each request the pages that hold its keys and values.
THEOREM CacheStaysIntact == Spec => []CacheIntact
<1>1. ASSUME IInv  PROVE CacheIntact
  <2>0. TypeOK /\ LocalsOK /\ SlotsOK /\ CacheOK  BY <1>1 DEF IInv
  <2> SUFFICES ASSUME pc = "run", NEW s \in Active, NEW p \in 0 .. step[request_ids[s]] - 1
               PROVE  kv_cache[PageOf(s, p \div PageSize)][p % PageSize] = << request_ids[s], p >>
    BY DEF CacheIntact
  <2>1. s \in Slot  BY DEF Active
  <2>2. Holder(s) /\ ~Behind(s)  BY <2>0, <2>1, Positions
  <2>3. Cached(s) = step[request_ids[s]]  BY DEF Cached
  <2>4. Entry(s, p \div PageSize) = PageOf(s, p \div PageSize)  BY <2>2 DEF Entry
  <2> QED  BY <2>0, <2>1, <2>2, <2>3, <2>4 DEF CacheOK
<1> QED  BY <1>1, BatchInvariant, PTL

\* A batch that is run is within the budgets, and the kernels derive from the page
\* table the positions of tokens that are known.
THEOREM BatchReady == Spec => []InputsKnown
<1>1. ASSUME IInv  PROVE InputsKnown
  <2>0. TypeOK /\ LocalsOK /\ SlotsOK  BY <1>1 DEF IInv
  <2> SUFFICES ASSUME pc = "run"
               PROVE  /\ \A s \in Active :
                           /\ SeqLen(s) = step[request_ids[s]] + NewTokens(s)
                           /\ \A p \in step[request_ids[s]] .. step[request_ids[s]] + NewTokens(s) - 1 :
                                tokens[request_ids[s]][p] # "none"
                      /\ qo_indptr[MaxBatchedRequests] \in 1 .. MaxBatchedTokens
                      /\ \A s \in Slot : NewTokens(s) \in 0 .. MaxTokensPerRequest
                      /\ \A s \in Slot \ Active : NewTokens(s) = 0 /\ PageCount(s) = 0
    BY DEF InputsKnown
  <2>1. ASSUME NEW s \in Active
        PROVE  /\ SeqLen(s) = step[request_ids[s]] + NewTokens(s)
               /\ \A p \in step[request_ids[s]] .. step[request_ids[s]] + NewTokens(s) - 1 :
                    tokens[request_ids[s]][p] # "none"
    <3>1. s \in Slot  BY DEF Active
    <3>2. Holder(s) /\ Planned(s) /\ SeqLen(s) = Length(s) /\ SeqLen(s) = step[request_ids[s]] + NewTokens(s)
      BY <2>0, <3>1, Positions
    <3>3. \A p \in step[request_ids[s]] .. Length(s) - 1 : tokens[request_ids[s]][p] # "none"
      BY <2>0, <3>1, <3>2 DEF SlotsOK, SlotOK
    <3>4. PICK a, n, l : a = step[request_ids[s]] /\ n = NewTokens(s) /\ l = Length(s)  OBVIOUS
    <3>5. l - 1 = a + n - 1
      <4>1. a \in Nat /\ l \in Nat  BY <2>0, <3>1, <3>2, <3>4, HeldSlot
      <4>2. NewTokens(s) \in 0 .. MaxTokensPerRequest  BY <2>0, <3>1, <3>2, Positions
      <4>3. n \in Int  BY <3>4, <4>2, Sizes, SMT
      <4>4. l = a + n  BY <3>2, <3>4
      <4> QED  BY <4>1, <4>3, <4>4, SMT
    <3>6. \A p \in a .. a + n - 1 : tokens[request_ids[s]][p] # "none"  BY <3>3, <3>4, <3>5
    <3> QED  BY <3>2, <3>4, <3>6
  <2>2. qo_indptr[MaxBatchedRequests] \in 1 .. MaxBatchedTokens
    <3>1. qo_indptr[MaxBatchedRequests] = num_tokens /\ num_tokens > 0 /\ num_tokens \in 0 .. MaxBatchedTokens
      BY <2>0 DEF LocalsOK, TypeOK
    <3> QED  BY <3>1, Sizes, SMT
  <2>3. ASSUME NEW s \in Slot, s \notin Active  PROVE NewTokens(s) = 0 /\ PageCount(s) = 0
    <3>1. ~Holder(s) /\ Pages(s) = PageCount(s) /\ Tokens(s) = NewTokens(s)  BY <2>0, <2>3, Positions
    <3> QED  BY <2>0, <3>1 DEF LocalsOK
  <2>4. ASSUME NEW s \in Slot  PROVE NewTokens(s) \in 0 .. MaxTokensPerRequest
    <3>1. CASE s \in Active  BY <2>0, <3>1, Positions
    <3>2. CASE s \notin Active
      <4>1. 0 \in 0 .. MaxTokensPerRequest  BY Sizes, SMT
      <4> QED  BY <2>3, <3>2, <4>1
    <3> QED  BY <3>1, <3>2
  <2> QED  BY <2>1, <2>2, <2>3, <2>4
<1> QED  BY <1>1, BatchInvariant, PTL

\* No request drops out of the batch before it is done, and none stays in it; at the end
\* all are done.  A request of maximal length one would be done before it is run.
THEOREM NoneDropped ==
    ASSUME MaxSeqLength > 1
    PROVE  Spec => []NoRequestDropped
<1>1. ASSUME IInv  PROVE NoRequestDropped
  <2>0. TypeOK /\ LocalsOK /\ SlotsOK /\ RequestsOK  BY <1>1 DEF IInv
  <2> SUFFICES ASSUME pc \in {"run", "finished"}
               PROVE  /\ \A s, t \in Active : s # t => request_ids[s] # request_ids[t]
                      /\ \A r \in Request : r < next_request_id =>
                           (Complete(r) <=> ~\E s \in Active : request_ids[s] = r)
                      /\ pc = "finished" => \A r \in Request : Complete(r)
    BY DEF NoRequestDropped
  <2>1. \A s : s \in Active <=> s \in Slot /\ Holder(s)  BY DEF Active, Holder, Growing
  <2>2. \A s, t \in Active : s # t => request_ids[s] # request_ids[t]
    BY <2>0, <2>1 DEF RequestsOK
  <2>3. ASSUME NEW s \in Active  PROVE ~Complete(request_ids[s])
    <3>1. SlotOK(s) /\ request_ids[s] \in Request /\ step[request_ids[s]] \in Nat
      BY <2>0, <2>1, HeldSlot
    <3>2. CASE step[request_ids[s]] > 0  BY <3>1, <3>2 DEF SlotOK
    <3>3. CASE ~(step[request_ids[s]] > 0)
      <4>1. step[request_ids[s]] = 0  BY <3>1, <3>3, SMT
      <4>2. ~(0 + 1 >= MaxSeqLength)  BY Sizes, SMT
      <4>3. prompt_length[request_ids[s]] \in 1 .. MaxSeqLength  BY <2>0, <3>1 DEF TypeOK
      <4>4. ~(0 >= prompt_length[request_ids[s]])  BY <4>3, Sizes, SMT
      <4> QED  BY <4>1, <4>2, <4>4 DEF Complete
    <3> QED  BY <3>2, <3>3
  <2>4. ASSUME NEW r \in Request, r < next_request_id
        PROVE  Complete(r) <=> ~\E s \in Active : request_ids[s] = r
    <3>1. Complete(r) \/ \E s \in Active : request_ids[s] = r
      BY <2>0, <2>1, <2>4 DEF RequestsOK
    <3> QED  BY <2>3, <3>1
  <2>5. ASSUME pc = "finished", NEW r \in Request  PROVE Complete(r)
    <3>1. next_request_id = TotalNumRequests /\ \A s \in Slot : ~Holder(s)  BY <2>0, <2>5 DEF LocalsOK
    <3>2. r < TotalNumRequests  BY Sizes, SMT DEF Request
    <3> QED  BY <2>1, <2>4, <3>1, <3>2
  <2> QED  BY <2>2, <2>4, <2>5
<1> QED  BY <1>1, BatchInvariant, PTL

\* No step changes a token of a prompt or an output.
THEOREM TokensStay == Spec => TokensKept
<1> DEFINE Kept == \A r \in Request, p \in Position :
                     tokens[r][p] # "none" => tokens'[r][p] = tokens[r][p]
<1>1. ASSUME IInv, [Next]_vars  PROVE [Kept]_vars
  <2>1. CASE tokens' = tokens  BY <2>1
  <2>2. CASE FinalizeSlot
    <3> SUFFICES ASSUME NEW q \in Request, NEW p \in Position, tokens[q][p] # "none"
                 PROVE  tokens'[q][p] = tokens[q][p]
      OBVIOUS
    <3>0. TypeOK /\ RequestsOK  BY <1>1 DEF IInv
    <3>1. PICK r, at : r = request_ids[slot] /\ at = step[r] + NewTokens(slot)  OBVIOUS
    <3>2. PICK output \in {"word", "eos"} :
            tokens' = [tokens EXCEPT ![r] =
                         [y \in Position |-> IF y \in step[r] + 1 .. at /\ IsOutput(r, y)
                                             THEN output ELSE tokens[r][y]]]
      BY <2>2, <3>1 DEF FinalizeSlot
    <3>3. CASE q # r  BY <3>0, <3>2, <3>3 DEF TypeOK
    <3>4. CASE q = r
      <4>1. tokens'[r][p] = IF p \in step[r] + 1 .. at /\ IsOutput(r, p)
                            THEN output ELSE tokens[r][p]
        BY <3>0, <3>2, <3>4 DEF TypeOK
      <4>2. ~(p > step[r] /\ p >= prompt_length[r])  BY <3>0, <3>4 DEF RequestsOK
      <4>3. p \in step[r] + 1 .. at => p > step[r]
        <5>1. step[r] \in Int  BY <3>0, <3>4, Sizes, SMT DEF TypeOK
        <5> QED  BY <5>1, SMT
      <4>4. ~(p \in step[r] + 1 .. at /\ IsOutput(r, p))  BY <4>2, <4>3 DEF IsOutput
      <4> QED  BY <3>4, <4>1, <4>4
    <3> QED  BY <3>3, <3>4
  <2>3. \/ FinalizeSlot \/ tokens' = tokens
    BY <1>1 DEF Next, SkipEmptySlot, ContinueRequest, SkipDoneSlot, AdmitRequest,
                FinishBatch, RunBatch, Finished, vars, requestVars
  <2> QED  BY <2>1, <2>2, <2>3
<1>2. TokensKept <=> [][Kept]_vars  BY DEF TokensKept
<1> QED  BY <1>1, <1>2, BatchInvariant, PTL DEF Spec

=============================================================================
