----------------------------- MODULE BatchManager -----------------------------
(***************************************************************************)
(* Continuous batching of offline requests (init_kernel, and               *)
(* prepare_next_batch of MODE_OFFLINE): between two runs of the task graph *)
(* one scheduler thread collects the tokens of the last run, retires the   *)
(* requests that are done, compacts the batch in place, admits new         *)
(* requests within the token budget, and hands the pages of the key-value  *)
(* cache out of a ring of free pages and back into it.                     *)
(*                                                                         *)
(* Megakernel's barrier is why nothing else runs meanwhile; the run itself *)
(* is one action here, in which every scheduled token writes its key and   *)
(* value where kv_cache_update_impl puts them.  The loops over the slots   *)
(* of the batch are actions, one per slot.                                 *)
(***************************************************************************)
EXTENDS Integers, FiniteSets

CONSTANTS
    TotalNumRequests,     \* config.total_num_requests
    MaxSeqLength,         \* config.max_seq_length, MPK_MAX_SEQ_LENGTH
    MaxBatchedRequests,   \* MPK_MAX_NUM_BATCHED_REQUESTS
    MaxBatchedTokens,     \* MPK_MAX_NUM_BATCHED_TOKENS
    MaxTokensPerRequest,  \* MPK_MAX_TOKENS_PER_REQUEST
    PageSize, NumPages    \* MPK_PAGE_SIZE, MPK_MAX_NUM_PAGES

Request == 0 .. TotalNumRequests - 1
Slot == 0 .. MaxBatchedRequests - 1
Page == 0 .. NumPages - 1
Position == 0 .. MaxSeqLength - 1
NoRequest == -1
Minimum(a, b) == IF a < b THEN a ELSE b
PagesFor(n) == (n + PageSize - 1) \div PageSize

\* The code never asks whether a page is free: the pages must suffice for a full
\* batch of requests of maximal length.
ASSUME BatchAssumption ==
    /\ TotalNumRequests \in Nat
    /\ {MaxSeqLength, MaxBatchedRequests, MaxBatchedTokens,
        MaxTokensPerRequest, PageSize, NumPages} \subseteq Nat \ {0}
    /\ MaxBatchedRequests * PagesFor(MaxSeqLength) <= NumPages

VARIABLES
    \* RuntimeConfig's buffers
    tokens, prompt_length, step, next_request_id,
    request_ids, qo_indptr, kv_indptr, kv_indices, last_page_len,
    page_queue, page_queue_head, page_queue_tail,
    \* locals of prepare_next_batch
    pc, slot, smem_kv_indices, num_reqs, num_tokens, num_pages,
    \* the key-value cache: whose key and value each page holds at each offset
    kv_cache

requestVars == << tokens, prompt_length, step, next_request_id >>
batchVars == << request_ids, qo_indptr, kv_indptr, last_page_len >>
pageVars == << kv_indices, page_queue, page_queue_head, page_queue_tail >>
loopVars == << pc, slot, smem_kv_indices, num_reqs, num_tokens, num_pages >>
vars == << requestVars, batchVars, pageVars, loopVars, kv_cache >>

\* init_kernel, and the prompts the host has put into tokens: any lengths.
Init ==
    /\ prompt_length \in [Request -> 1 .. MaxSeqLength]
    /\ tokens = [r \in Request |-> [p \in Position |->
                   IF p < prompt_length[r] THEN "word" ELSE "none"]]
    /\ step = [r \in Request |-> 0]
    /\ next_request_id = 0
    /\ request_ids = [s \in Slot |-> NoRequest]
    /\ qo_indptr = [s \in 0 .. MaxBatchedRequests |-> 0]
    /\ kv_indptr = [s \in 0 .. MaxBatchedRequests |-> 0]
    /\ kv_indices = [j \in Page |-> 0]
    /\ last_page_len = [s \in Slot |-> 0]
    /\ page_queue = [j \in Page |-> j]
    /\ page_queue_head = 0
    /\ page_queue_tail = NumPages
    /\ pc = "finalize"
    /\ slot = 0
    /\ smem_kv_indices = << >>
    /\ num_reqs = 0 /\ num_tokens = 0 /\ num_pages = 0
    /\ kv_cache = [p \in Page |-> [o \in 0 .. PageSize - 1 |-> << >>]]

NewTokens(s) == qo_indptr[s + 1] - qo_indptr[s]
PageCount(s) == kv_indptr[s + 1] - kv_indptr[s]
PageOf(s, j) == kv_indices[kv_indptr[s] + j]

-----------------------------------------------------------------------------
(* Step 1: finalize the previous batch.                                     *)


\* A request is done at the end of its tokens, or after an end-of-sequence.
Done(r, at, token) ==
    \/ at + 1 >= MaxSeqLength
    \/ token = "eos" /\ at >= prompt_length[r]

\* Mutant: the output of every token is kept, also inside the prompt.
MutIsOutput(r, p) == p < MaxSeqLength
IsOutput(r, p) == p >= prompt_length[r] /\ p < MaxSeqLength

\* Mutant: the freed pages all go to the same place of the ring.
MutFreePages(s) == [page_queue EXCEPT ![page_queue_tail % NumPages] = PageOf(s, 0)]

\* The pages of a slot, pushed to the ring of free pages one after the other.
FreePages(s) ==
    [j \in Page |->
       IF \E k \in 0 .. PageCount(s) - 1 : (page_queue_tail + k) % NumPages = j
       THEN PageOf(s, CHOOSE k \in 0 .. PageCount(s) - 1 :
                        (page_queue_tail + k) % NumPages = j)
       ELSE page_queue[j]]

\* Move on to the next slot; behind the last one, keep a copy of the page table
\* (step 2) and go to the compaction.
AfterFinalize ==
    IF slot + 1 < MaxBatchedRequests
    THEN /\ slot' = slot + 1
         /\ UNCHANGED << pc, smem_kv_indices >>
    ELSE /\ slot' = 0
         /\ pc' = "continue"
         /\ smem_kv_indices' = [j \in 0 .. kv_indptr[MaxBatchedRequests] - 1 |->
                                  kv_indices[j]]

FinalizeSlot ==
    /\ pc = "finalize"
    /\ request_ids[slot] # NoRequest
    /\ LET r == request_ids[slot]
           n == NewTokens(slot)
           at == step[r] + n
       IN  \E output \in {"word", "eos"} :
             LET new == [p \in Position |->
                           IF p \in step[r] + 1 .. at /\ IsOutput(r, p)
                           THEN output ELSE tokens[r][p]]
             IN  /\ tokens' = [tokens EXCEPT ![r] = new]
                 /\ step' = [step EXCEPT ![r] = at]
                 /\ IF Done(r, at, IF at < MaxSeqLength THEN new[at] ELSE "none")
                    THEN /\ request_ids' = [request_ids EXCEPT ![slot] = NoRequest]
                         /\ page_queue' = FreePages(slot)
                         /\ page_queue_tail' = page_queue_tail + PageCount(slot)
                    ELSE UNCHANGED << request_ids, page_queue, page_queue_tail >>
    /\ AfterFinalize
    /\ UNCHANGED << prompt_length, next_request_id, qo_indptr, kv_indptr,
                    last_page_len, kv_indices, page_queue_head, num_reqs,
                    num_tokens, num_pages, kv_cache >>

SkipEmptySlot ==
    /\ pc = "finalize"
    /\ request_ids[slot] = NoRequest
    /\ AfterFinalize
    /\ UNCHANGED << requestVars, batchVars, pageVars, num_reqs, num_tokens,
                    num_pages, kv_cache >>

-----------------------------------------------------------------------------
(* Step 3: prepare the next batch.                                          *)

\* Mutant: the budget of a prompt is only that of the request.
MutPrefillTokens(left) == Minimum(left, MaxTokensPerRequest)

\* How many tokens of a request to schedule: of its prompt as many as the two
\* caps allow, afterwards one if the budget allows.
PrefillTokens(left) ==
    Minimum(left, Minimum(MaxTokensPerRequest, MaxBatchedTokens - num_tokens))
\* Mutant: the case of a request behind its prompt is missing.
MutTokensToSchedule(r) == PrefillTokens(prompt_length[r] - step[r])
TokensToSchedule(r) ==
    LET left == prompt_length[r] - step[r]
    IN  IF left > 0 THEN PrefillTokens(left)
        ELSE Minimum(1, MaxBatchedTokens - num_tokens)

\* Mutant: a full last page is said to be empty.
MutLastPageLen(len) == len % PageSize
LastPageLen(len) == IF len % PageSize = 0 THEN PageSize ELSE len % PageSize

\* Mutant: the old pages are read from the table that is being rewritten.
MutOldPage(j) == kv_indices[j]
OldPage(j) == smem_kv_indices[j]

HeadAfter(pages, old) == page_queue_head + (IF pages > old THEN pages - old ELSE 0)

\* Request r takes slot num_reqs with n new tokens behind the first `from`; it
\* keeps its `old` pages, at `first` of the old table, and gets the rest from
\* the ring.
Schedule(r, n, from, first, old) ==
    LET len == from + n
        pages == PagesFor(len)
    IN  /\ qo_indptr' = [qo_indptr EXCEPT ![num_reqs] = num_tokens]
        /\ kv_indptr' = [kv_indptr EXCEPT ![num_reqs] = num_pages]
        /\ last_page_len' = [last_page_len EXCEPT ![num_reqs] = LastPageLen(len)]
        /\ kv_indices' =
             [j \in Page |->
                LET k == j - num_pages
                IN  IF k \in 0 .. old - 1 THEN OldPage(first + k)
                    ELSE IF k \in old .. pages - 1
                    THEN page_queue[(page_queue_head + k - old) % NumPages]
                    ELSE kv_indices[j]]
        /\ page_queue_head' = HeadAfter(pages, old)
        /\ num_reqs' = num_reqs + 1
        /\ num_tokens' = num_tokens + n
        /\ num_pages' = num_pages + pages

AfterContinue ==
    IF slot + 1 < MaxBatchedRequests THEN slot' = slot + 1 /\ UNCHANGED pc
    ELSE slot' = 0 /\ pc' = "admit"

\* A request that is not done moves to the next free slot of the batch.  The
\* number of its old pages is read before that slot's entry is rewritten.
ContinueRequest ==
    /\ pc = "continue"
    /\ request_ids[slot] # NoRequest
    /\ LET r == request_ids[slot]
       IN  /\ Schedule(r, TokensToSchedule(r), step[r], kv_indptr[slot], PageCount(slot))
           /\ request_ids' = [request_ids EXCEPT ![num_reqs] = r]
    /\ AfterContinue
    /\ UNCHANGED << requestVars, page_queue, page_queue_tail, smem_kv_indices,
                    kv_cache >>

SkipDoneSlot ==
    /\ pc = "continue"
    /\ request_ids[slot] = NoRequest
    /\ AfterContinue
    /\ UNCHANGED << requestVars, batchVars, pageVars, smem_kv_indices, num_reqs,
                    num_tokens, num_pages, kv_cache >>

CanAdmit == /\ num_reqs < MaxBatchedRequests
            /\ num_tokens < MaxBatchedTokens
            /\ next_request_id < TotalNumRequests

\* A new request, from the start of its prompt.
AdmitRequest ==
    /\ pc = "admit"
    /\ CanAdmit
    /\ Schedule(next_request_id, PrefillTokens(prompt_length[next_request_id]), 0, 0, 0)
    /\ request_ids' = [request_ids EXCEPT ![num_reqs] = next_request_id]
    /\ next_request_id' = next_request_id + 1
    /\ UNCHANGED << tokens, prompt_length, step, page_queue, page_queue_tail,
                    pc, slot, smem_kv_indices, kv_cache >>

\* Mutant: the slots behind the batch keep their request.
MutUnusedSlots == request_ids
UnusedSlots == [s \in Slot |-> IF s < num_reqs THEN request_ids[s] ELSE NoRequest]

\* Steps 4 and 5: the unused slots; and whether there is anything to run.
FinishBatch ==
    /\ pc = "admit"
    /\ ~CanAdmit
    /\ request_ids' = UnusedSlots
    /\ qo_indptr' = [s \in 0 .. MaxBatchedRequests |->
                       IF s < num_reqs THEN qo_indptr[s] ELSE num_tokens]
    /\ kv_indptr' = [s \in 0 .. MaxBatchedRequests |->
                       IF s < num_reqs THEN kv_indptr[s] ELSE num_pages]
    /\ pc' = IF num_tokens = 0 THEN "finished" ELSE "run"
    /\ UNCHANGED << requestVars, last_page_len, pageVars, slot, smem_kv_indices,
                    num_reqs, num_tokens, num_pages, kv_cache >>

-----------------------------------------------------------------------------
(* The run of the task graph on the batch.                                  *)

\* The length of a slot's sequence as the kernels compute it from its pages.
SeqLen(s) == (PageCount(s) - 1) * PageSize + last_page_len[s]

\* Every scheduled token writes its key and value at its position's page.
RunBatch ==
    /\ pc = "run"
    /\ kv_cache' =
         [p \in Page |-> [o \in 0 .. PageSize - 1 |->
            LET writers == {w \in Slot \X Position :
                              /\ w[2] \in SeqLen(w[1]) - NewTokens(w[1]) .. SeqLen(w[1]) - 1
                              /\ PageOf(w[1], w[2] \div PageSize) = p
                              /\ w[2] % PageSize = o}
            IN  IF writers = {} THEN kv_cache[p][o]
                ELSE LET w == CHOOSE w \in writers : TRUE
                     IN  << request_ids[w[1]], w[2] >>]]
    /\ pc' = "finalize"
    /\ slot' = 0
    /\ num_reqs' = 0 /\ num_tokens' = 0 /\ num_pages' = 0
    /\ UNCHANGED << requestVars, batchVars, pageVars, smem_kv_indices >>

Finished == pc = "finished" /\ UNCHANGED vars

Next == \/ FinalizeSlot \/ SkipEmptySlot
        \/ ContinueRequest \/ SkipDoneSlot
        \/ AdmitRequest \/ FinishBatch
        \/ RunBatch \/ Finished

Spec == Init /\ [][Next]_vars
\* A single thread, and a run that ends (Termination of Megakernel's iteration).
FairSpec == Spec /\ WF_vars(Next)

-----------------------------------------------------------------------------
(* Properties.                                                              *)

Active == {s \in Slot : request_ids[s] # NoRequest}
\* Free pages, by their places in the ring.
FreePlaces == {i % NumPages : i \in page_queue_head .. page_queue_tail - 1}
\* Requests that have been admitted and are done.
Complete(r) == /\ r < next_request_id
               /\ \/ step[r] + 1 >= MaxSeqLength
                  \/ tokens[r][step[r]] = "eos" /\ step[r] >= prompt_length[r]

\* Types of the buffers and locals (RuntimeConfig, prepare_next_batch).
TypeOK ==
    /\ tokens \in [Request -> [Position -> {"none", "word", "eos"}]]
    /\ prompt_length \in [Request -> 1 .. MaxSeqLength]
    /\ step \in [Request -> 0 .. MaxSeqLength]
    /\ next_request_id \in 0 .. TotalNumRequests
    /\ request_ids \in [Slot -> Request \cup {NoRequest}]
    /\ qo_indptr \in [0 .. MaxBatchedRequests -> 0 .. MaxBatchedTokens]
    /\ kv_indptr \in [0 .. MaxBatchedRequests -> 0 .. NumPages]
    /\ kv_indices \in [Page -> Page]
    /\ last_page_len \in [Slot -> 0 .. PageSize]
    /\ page_queue \in [Page -> Page]
    /\ page_queue_head \in Nat /\ page_queue_tail \in Nat
    /\ pc \in {"finalize", "continue", "admit", "run", "finished"}
    /\ slot \in Slot
    /\ DOMAIN smem_kv_indices \subseteq Page
    /\ num_reqs \in 0 .. MaxBatchedRequests
    /\ num_tokens \in 0 .. MaxBatchedTokens
    /\ num_pages \in 0 .. NumPages

\* Pages are neither lost nor given out twice: when a batch runs, every page is
\* either in the page table of exactly one request, once, or free, in exactly
\* one place of the ring.
PagesAccountedFor ==
    pc \in {"run", "finished"} =>
      /\ page_queue_head <= page_queue_tail
      /\ page_queue_tail - page_queue_head <= NumPages
      /\ \A p \in Page :
           Cardinality({i \in 0 .. num_pages - 1 : kv_indices[i] = p})
             + Cardinality({i \in FreePlaces : page_queue[i] = p}) = 1

\* The keys and values a request computed in earlier batches are still where the
\* kernels of this batch look for them, though the page table has been compacted
\* in place and pages of other requests have changed hands.
CacheIntact ==
    pc = "run" => \A s \in Active : \A p \in 0 .. step[request_ids[s]] - 1 :
      kv_cache[PageOf(s, p \div PageSize)][p % PageSize] = << request_ids[s], p >>

\* The batch is what the kernels rely on.  They derive a token's position from the
\* page table: it is the position of the token that was copied to the input, and
\* that token is known, part of the prompt or an output of an earlier batch.  And
\* they are compiled for so many tokens of a batch and of one request in it.
InputsKnown ==
    pc = "run" =>
      /\ \A s \in Active :
           LET r == request_ids[s]
           IN  /\ SeqLen(s) = step[r] + NewTokens(s)
               /\ \A p \in step[r] .. step[r] + NewTokens(s) - 1 : tokens[r][p] # "none"
      /\ qo_indptr[MaxBatchedRequests] \in 1 .. MaxBatchedTokens
      /\ \A s \in Slot : NewTokens(s) \in 0 .. MaxTokensPerRequest
      /\ \A s \in Slot \ Active : NewTokens(s) = 0 /\ PageCount(s) = 0

\* A request is in one slot at most, and no request that was admitted and is not
\* done drops out of the batch; only complete ones are out of it at the end.
NoRequestDropped ==
    pc \in {"run", "finished"} =>
      /\ \A s, t \in Active : s # t => request_ids[s] # request_ids[t]
      /\ \A r \in Request : r < next_request_id =>
           (Complete(r) <=> ~\E s \in Active : request_ids[s] = r)
      /\ pc = "finished" => \A r \in Request : Complete(r)

\* What has been written to a request's tokens, prompt or output, stays.
TokensKept ==
    [][\A r \in Request, p \in Position :
         tokens[r][p] # "none" => tokens'[r][p] = tokens[r][p]]_vars

\* Every request is served to its end, also when the prompts of others use up the
\* token budget and it is scheduled with no token at all.
AllServed == \A r \in Request : <>Complete(r)
=============================================================================
