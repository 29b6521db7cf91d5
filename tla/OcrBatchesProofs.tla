--------------------------- MODULE OcrBatchesProofs ---------------------------
(***************************************************************************)
(* Proofs about OcrBatches: the types, that a batch runs with a predictor  *)
(* of the sizes it asked for, and that the CPU is the last resort, for any *)
(* number of requests, batch sizes and amounts of free memory.             *)
(***************************************************************************)
EXTENDS OcrBatches, TLAPS

(***************************************************************************)
(* The inductive invariant.                                                *)
(***************************************************************************)

\* What a batch left in the cache has the sizes it is found under, and no caller of
\* run_doctr_batch leaves anything there.
CacheInv ==
    \A s \in Sizes : cache[s] # None =>
        /\ cache[s].by = "batch" => cache[s].for = s
        /\ cache[s].by # "caller"

\* A request that is not started is as Init made it, and without the models nobody gets
\* a predictor but who brings one.
StartInv(r) ==
    /\ r.pc = "idle" => r = Idle
    /\ r.pc \in Fetching => models /\ r.kind # "direct"
    /\ r.pred # None /\ r.kind # "direct" => models

\* A batch keeps what it asked for beside what it got; once the loop has backed off, it
\* asks for what it runs with.
BatchInv(r) ==
    r.kind = "batch" =>
        /\ r.pc = "run" => r.tries > 0
        /\ r.pc = "submitted" => r.tries = 0
        /\ r.pred # None => r.pred.by # "caller"
        /\ r.pc \in {"submitted", "run"} /\ r.pred # None /\ r.pred.by = "batch"
           => r.pred.for = r.want
        /\ r.pc \in {"run"} \cup Fetching /\ r.tries > 1 => r.want = r.sizes
        /\ r.pc = "cpu" /\ r.pred # None
           => r.pred.for.det = 1 \/ r.tries = 1 \/ r.pred.by = "page"

CallInv == \A c \in Calls : StartInv(call[c]) /\ BatchInv(call[c])

IInv == TypeOK /\ CacheInv /\ CallInv

-------------------------------------------------------------------------------
(* The sizes.                                                              *)

LEMMA DetPickType ==
    ASSUME NEW device \in Devices, NEW free \in Probes
    PROVE  DetPick(device, free) \in DetSizes
  <1>1. CASE free \in 0..MaxFree
    BY <1>1, OcrAssumption DEF DetPick, DetSizes, Greater, Lesser
  <1>2. CASE free = None
    BY <1>2 DEF DetPick, DetSizes, Greater, Lesser
  <1> QED  BY <1>1, <1>2 DEF Probes

\* Whatever the memory probe says, run_ocr_batch and run_doctr_batch pick sizes that
\* exist: no det_bs of 0 where no page fits.
LEMMA PickType ==
    ASSUME NEW device \in Devices, NEW free \in Probes, NEW n \in Chunks \cup {1}
    PROVE  Pick(device, n, free) \in Sizes
  <1>1. Lesser(512, Greater(128, 48 * n)) \in RecoSizes
    <2>1. CASE n \in Chunks
      BY <2>1 DEF RecoSizes
    <2>2. CASE n = 1
      BY <2>2 DEF RecoSizes, Lesser, Greater
    <2> QED  BY <2>1, <2>2
  <1>2. 128 \in RecoSizes
    BY DEF RecoSizes
  <1> QED  BY <1>1, <1>2, DetPickType DEF Pick, Sizes

LEMMA SmallerType ==
    ASSUME NEW s \in Sizes
    PROVE  /\ [s EXCEPT !.det = Smaller(s.det)] \in Sizes
           /\ AtFloor(s.det) => s.det = 1
  BY DEF Sizes, DetSizes, Smaller, Greater, AtFloor

LEMMA IdleType == Idle \in Call /\ DefaultSizes \in Sizes
  BY DEF Idle, Call, DefaultSizes, Sizes, DetSizes, RecoSizes, Devices, MaxTries

-------------------------------------------------------------------------------

\* One request takes a step to r, and the cache stays good.
LEMMA OneCall ==
    ASSUME IInv, NEW c \in Calls, NEW r, r \in Call, StartInv(r), BatchInv(r),
           call' = [call EXCEPT ![c] = r], UNCHANGED models,
           cache' \in [Sizes -> Predictors \cup {None}], CacheInv'
    PROVE  IInv'
  <1>1. TypeOK'
    BY DEF IInv, TypeOK
  <1>2. \A e \in Calls : call'[e] = r \/ call'[e] = call[e]
    BY DEF IInv, TypeOK
  <1>3. CallInv'
    BY <1>2 DEF IInv, CallInv, StartInv, BatchInv
  <1> QED  BY <1>1, <1>3 DEF IInv

LEMMA SameCache ==
    ASSUME IInv, UNCHANGED cache
    PROVE  cache' \in [Sizes -> Predictors \cup {None}] /\ CacheInv'
  BY DEF IInv, TypeOK, CacheInv

\* A request that has its predictor, from the cache or built by itself.
LEMMA FetchedInv ==
    ASSUME IInv, NEW c \in Calls, call[c].pc \in Fetching,
           NEW p \in Predictors \cup {None}, p # None => p.by # "caller",
           p # None /\ p.by = "batch" => p.for = call[c].want,
           Fetched(c, p), UNCHANGED models,
           cache' \in [Sizes -> Predictors \cup {None}], CacheInv'
    PROVE  IInv'
  <1> DEFINE r == [call[c] EXCEPT !.pred = p,
                                  !.pc = IF call[c].kind = "batch" /\ call[c].tries = 0
                                         THEN "submitted" ELSE "run"]
  <1>1. r \in Call
    BY DEF IInv, TypeOK, Call
  <1>2. StartInv(r)
    BY DEF IInv, TypeOK, Call, CallInv, StartInv
  <1>3. BatchInv(r)
    BY DEF IInv, TypeOK, Call, CallInv, BatchInv, Fetching
  <1>4. call' = [call EXCEPT ![c] = r]
    BY DEF Fetched, IInv, TypeOK, Call
  <1> HIDE DEF r
  <1> QED  BY <1>1, <1>2, <1>3, <1>4, OneCall

\* A request that ends forgets everything.
LEMMA EndInv ==
    ASSUME IInv, NEW c \in Calls, NEW pc \in Ended, End(c, pc), UNCHANGED <<models, cache>>
    PROVE  IInv'
  <1> DEFINE r == [Idle EXCEPT !.pc = pc]
  <1>1. r \in Call /\ StartInv(r) /\ BatchInv(r)
    BY IdleType DEF Idle, Call, StartInv, BatchInv, Ended, Fetching
  <1>2. call' = [call EXCEPT ![c] = r]
    BY DEF End
  <1> HIDE DEF r
  <1> QED  BY <1>1, <1>2, OneCall, SameCache

LEMMA IInvInit == Init => IInv
  BY IdleType DEF Init, IInv, TypeOK, CacheInv, CallInv, StartInv, BatchInv, Idle, Fetching

LEMMA StartPageInv ==
    ASSUME IInv, NEW c \in Calls, NEW device \in Devices, StartPage(c, device)
    PROVE  IInv'
  <1> call[c].pc = "idle"
    BY DEF StartPage
  <1>1. call[c] \in Call /\ call[c].pred = None
    BY DEF IInv, TypeOK, CallInv, StartInv, Idle
  <1>2. CASE call' = [call EXCEPT ![c] = [@ EXCEPT !.kind = "page", !.device = device,
                                                   !.pages = 1, !.pc = "cpu"]]
    <2> DEFINE r == [call[c] EXCEPT !.kind = "page", !.device = device, !.pages = 1, !.pc = "cpu"]
    <2>1. r \in Call /\ r.kind = "page" /\ r.pc = "cpu" /\ r.pred = None
      BY <1>1 DEF Call
    <2>2. call' = [call EXCEPT ![c] = r]
      BY <1>2
    <2> HIDE DEF r
    <2>3. StartInv(r) /\ BatchInv(r)
      BY <2>1 DEF StartInv, BatchInv, Fetching
    <2> QED  BY <2>1, <2>2, <2>3, OneCall, SameCache DEF StartPage
  <1>3. CASE /\ models
             /\ \E free \in Probes :
                   call' = [call EXCEPT ![c] = [@ EXCEPT !.kind = "page", !.device = device,
                                                         !.pages = 1, !.pc = "fetch",
                                                         !.want = Pick(device, 1, free)]]
    <2>1. PICK free \in Probes :
             call' = [call EXCEPT ![c] = [@ EXCEPT !.kind = "page", !.device = device,
                                                   !.pages = 1, !.pc = "fetch",
                                                   !.want = Pick(device, 1, free)]]
      BY <1>3
    <2> DEFINE w == Pick(device, 1, free)
    <2> DEFINE r == [call[c] EXCEPT !.kind = "page", !.device = device,
                                    !.pages = 1, !.pc = "fetch", !.want = w]
    <2>2. w \in Sizes
      BY PickType
    <2> HIDE DEF w
    <2>3. r \in Call /\ r.kind = "page" /\ r.pc = "fetch"
      BY <1>1, <2>2 DEF Call, Fetching
    <2>4. call' = [call EXCEPT ![c] = r]
      BY <2>1 DEF w
    <2> HIDE DEF r
    <2>5. StartInv(r) /\ BatchInv(r)
      BY <1>3, <2>3 DEF StartInv, BatchInv
    <2> QED  BY <2>3, <2>4, <2>5, OneCall, SameCache DEF StartPage
  <1> QED  BY <1>2, <1>3 DEF StartPage

LEMMA StartBatchInv ==
    ASSUME IInv, NEW c \in Calls, NEW device \in Devices, NEW n \in Chunks, StartBatch(c, device, n)
    PROVE  IInv'
  <1>1. call[c] \in Call /\ call[c].pred = None /\ call[c].tries = 0
    BY DEF IInv, TypeOK, CallInv, StartInv, StartBatch, Idle
  <1>2. PICK free \in Probes :
          call' = [call EXCEPT ![c] =
                     [@ EXCEPT !.kind = "batch", !.device = device, !.pages = n,
                               !.want = Pick(device, n, free),
                               !.pc = IF models THEN "fetch" ELSE "submitted"]]
    BY DEF StartBatch
  <1> DEFINE w == Pick(device, n, free)
  <1> DEFINE r == [call[c] EXCEPT !.kind = "batch", !.device = device, !.pages = n, !.want = w,
                                  !.pc = IF models THEN "fetch" ELSE "submitted"]
  <1>3. w \in Sizes
    BY PickType
  <1> HIDE DEF w
  <1>4. /\ r \in Call /\ r.pred = None /\ r.tries = 0
        /\ r.pc = (IF models THEN "fetch" ELSE "submitted") /\ r.kind = "batch"
    BY <1>1, <1>3 DEF Call, Fetching, InLoop
  <1>5. call' = [call EXCEPT ![c] = r]
    BY <1>2 DEF w
  <1> HIDE DEF r
  <1>6. StartInv(r) /\ BatchInv(r)
    BY <1>4 DEF StartInv, BatchInv, Fetching
  <1> QED  BY <1>4, <1>5, <1>6, OneCall, SameCache DEF StartBatch

\* A direct call of run_doctr_batch fetches nothing from the cache.
LEMMA StartDirectInv ==
    ASSUME IInv, NEW c \in Calls, NEW device \in Devices, NEW n \in Chunks,
           StartDirect(c, device, n)
    PROVE  IInv'
  <1>1. call[c] \in Call
    BY DEF IInv, TypeOK
  <1>2. PICK p \in {None, [for |-> DefaultSizes, by |-> "caller"]} :
          call' = [call EXCEPT ![c] = [@ EXCEPT !.kind = "direct", !.device = device, !.pages = n,
                                                !.pred = p, !.pc = "submitted"]]
    BY DEF StartDirect
  <1> DEFINE r == [call[c] EXCEPT !.kind = "direct", !.device = device, !.pages = n,
                                  !.pred = p, !.pc = "submitted"]
  <1>3. p \in Predictors \cup {None}
    BY IdleType DEF Predictors
  <1>4. r \in Call /\ r.kind = "direct" /\ r.pc = "submitted"
    BY <1>1, <1>3 DEF Call, InLoop
  <1>5. call' = [call EXCEPT ![c] = r]
    BY <1>2
  <1> HIDE DEF r
  <1>6. StartInv(r) /\ BatchInv(r)
    BY <1>4 DEF StartInv, BatchInv, Fetching
  <1> QED  BY <1>4, <1>5, <1>6, OneCall, SameCache DEF StartDirect

LEMMA BuildInv ==
    ASSUME IInv, NEW c \in Calls, Build(c)
    PROVE  IInv'
  <1>1. /\ Built(c) \in Predictors
        /\ Built(c).by = "batch" => Built(c).for = call[c].want
        /\ Built(c).by # "caller"
        /\ call[c].want \in Sizes
    <2>1. call[c] \in Call /\ call[c].kind \in {"page", "batch"}
      BY DEF Build, IInv, TypeOK, CallInv, StartInv, Fetching, Call, InLoop
    <2> QED  BY <2>1, IdleType DEF Built, Predictors, Call
  <1>2. cache' = [cache EXCEPT ![call[c].want] = Built(c)]
    BY DEF Build, Key
  <1>3. cache' \in [Sizes -> Predictors \cup {None}] /\ CacheInv'
    BY <1>1, <1>2 DEF IInv, TypeOK, CacheInv
  <1> QED  BY <1>1, <1>3, FetchedInv DEF Build, Fetching

LEMMA StartLoopInv ==
    ASSUME IInv, NEW c \in Calls, StartLoop(c)
    PROVE  IInv'
  <1>1. /\ call[c] \in Call /\ StartInv(call[c]) /\ BatchInv(call[c])
        /\ call[c].pc = "submitted"
    BY DEF IInv, TypeOK, CallInv, StartLoop
  <1>2. PICK free \in Probes :
          call' = [call EXCEPT ![c] = [@ EXCEPT !.pc = "run", !.tries = 1,
                                         !.sizes = Pick(call[c].device, call[c].pages, free)]]
    BY DEF StartLoop
  <1> DEFINE w == Pick(call[c].device, call[c].pages, free)
  <1> DEFINE r == [call[c] EXCEPT !.pc = "run", !.tries = 1, !.sizes = w]
  <1>3. w \in Sizes /\ 1 \in 0..MaxTries
    BY <1>1, PickType DEF Call, MaxTries
  <1> HIDE DEF w
  <1>4. /\ r \in Call /\ r.pc = "run" /\ r.tries = 1
        /\ r.kind = call[c].kind /\ r.want = call[c].want /\ r.pred = call[c].pred
    BY <1>1, <1>3 DEF Call
  <1>5. call' = [call EXCEPT ![c] = r]
    BY <1>2 DEF w
  <1> HIDE DEF r
  <1>6. StartInv(r) /\ BatchInv(r)
    BY <1>1, <1>4 DEF StartInv, BatchInv, Fetching
  <1> QED  BY <1>4, <1>5, <1>6, OneCall, SameCache DEF StartLoop

LEMMA BacksOffInv ==
    ASSUME IInv, NEW c \in Calls, BacksOff(c)
    PROVE  IInv'
  <1> DEFINE smaller == [call[c].sizes EXCEPT !.det = Smaller(call[c].sizes.det)]
  <1> DEFINE t == Lesser(MaxTries, call[c].tries + 1)
  <1> DEFINE r == [call[c] EXCEPT !.sizes = smaller, !.want = smaller,
                                  !.pc = IF models THEN "fetch" ELSE "run", !.tries = t]
  <1>1. /\ call[c] \in Call /\ StartInv(call[c]) /\ BatchInv(call[c])
        /\ call[c].pc = "run" /\ call[c].kind = "batch"
    BY DEF IInv, TypeOK, CallInv, BacksOff
  <1>2. smaller \in Sizes
    BY <1>1, SmallerType DEF Call
  <1>3. t \in 0..MaxTries /\ t > 1 /\ t > 0
    BY <1>1 DEF Call, BatchInv, Lesser, MaxTries
  <1>4. call' = [call EXCEPT ![c] = r]
    BY DEF BacksOff
  <1> HIDE DEF smaller, t
  <1>5. r \in Call
    BY <1>1, <1>2, <1>3 DEF Call, Fetching
  <1>6. /\ r.tries > 1 /\ r.tries > 0 /\ r.want = r.sizes /\ r.pred = call[c].pred
        /\ r.kind = call[c].kind
        /\ r.pc = IF models THEN "fetch" ELSE "run"
    <2>1. DOMAIN call[c] = {"pc", "kind", "device", "pages", "want", "sizes", "pred", "tries"}
      BY <1>1 DEF Call
    <2> QED  BY <1>3, <2>1
  <1> HIDE DEF r
  <1>7. StartInv(r) /\ BatchInv(r)
    BY <1>1, <1>6 DEF StartInv, BatchInv, Fetching
  <1> QED  BY <1>4, <1>5, <1>7, OneCall, SameCache DEF BacksOff

\* A step that changes the pc alone: a miss, and the two ways back to the CPU.
LEMMA GotoInv ==
    ASSUME IInv, NEW c \in Calls, Miss(c) \/ FallsBack(c) \/ GivesUp(c)
    PROVE  IInv'
  <1>1. PICK pc \in {"build", "cpu"} :
          /\ call' = [call EXCEPT ![c].pc = pc] /\ UNCHANGED <<models, cache>>
          /\ pc = "build" => call[c].pc = "fetch"
          /\ pc = "cpu" => /\ call[c].pc = "run"
                           /\ call[c].kind = "batch" => AtFloor(call[c].sizes.det)
    BY DEF Miss, FallsBack, GivesUp, Goto
  <1> DEFINE r == [call[c] EXCEPT !.pc = pc]
  <1>2. call[c] \in Call /\ StartInv(call[c]) /\ BatchInv(call[c])
    BY DEF IInv, TypeOK, CallInv
  <1>3. /\ r \in Call /\ r.pc = pc /\ r.kind = call[c].kind /\ r.tries = call[c].tries
        /\ r.want = call[c].want /\ r.sizes = call[c].sizes /\ r.pred = call[c].pred
    BY <1>1, <1>2 DEF Call, Fetching
  <1>4. /\ call[c].sizes \in Sizes
        /\ pc = "cpu" /\ call[c].kind = "batch" => call[c].sizes.det = 1
        /\ call[c].tries \in Nat
    <2>1. call[c].sizes \in Sizes /\ call[c].tries \in Nat
      BY <1>2 DEF Call, MaxTries
    <2>2. AtFloor(call[c].sizes.det) => call[c].sizes.det = 1
      BY <2>1, SmallerType
    <2> QED  BY <1>1, <2>1, <2>2
  <1>5. call[c].pred # None => call[c].pred.by \in {"page", "batch", "caller"}
    BY <1>2 DEF Call, Predictors
  <1>8. call' = [call EXCEPT ![c] = r]
    BY <1>1
  <1> HIDE DEF r
  <1>6. StartInv(r)
    BY <1>1, <1>2, <1>3 DEF StartInv, Fetching
  <1>7. BatchInv(r)
    BY <1>1, <1>2, <1>3, <1>4, <1>5 DEF BatchInv, Fetching
  <1> QED  BY <1>1, <1>3, <1>6, <1>7, <1>8, OneCall, SameCache

LEMMA IInvNext == IInv /\ [Next]_vars => IInv'
  <1> SUFFICES ASSUME IInv, [Next]_vars
               PROVE  IInv'
    OBVIOUS
  <1>1. ASSUME NEW c \in Calls, NEW device \in Devices, StartPage(c, device)
        PROVE  IInv'
    BY <1>1, StartPageInv
  <1>10. ASSUME NEW c \in Calls, NEW device \in Devices, NEW n \in Chunks, StartDirect(c, device, n)
         PROVE  IInv'
    BY <1>10, StartDirectInv
  <1>2. ASSUME NEW c \in Calls, NEW device \in Devices, NEW n \in Chunks, StartBatch(c, device, n)
        PROVE  IInv'
    BY <1>2, StartBatchInv
  <1>3. ASSUME NEW c \in Calls, Hit(c)
        PROVE  IInv'
    <2>1. call[c].want \in Sizes
      BY DEF IInv, TypeOK, Call
    <2>2. /\ cache[call[c].want] \in Predictors \cup {None}
          /\ cache[call[c].want] # None /\ cache[call[c].want].by = "batch"
             => cache[call[c].want].for = call[c].want
          /\ cache[call[c].want] # None => cache[call[c].want].by # "caller"
      BY <2>1 DEF IInv, TypeOK, CacheInv
    <2> QED  BY <1>3, <2>2, FetchedInv, SameCache DEF Hit, Key, Fetching
  <1>4. ASSUME NEW c \in Calls, Miss(c) \/ FallsBack(c) \/ GivesUp(c)
        PROVE  IInv'
    BY <1>4, GotoInv
  <1>5. ASSUME NEW c \in Calls, Build(c)
        PROVE  IInv'
    BY <1>5, BuildInv
  <1>6. ASSUME NEW c \in Calls, FetchFails(c) \/ Succeeds(c) \/ Fails(c)
        PROVE  IInv'
    BY <1>6, EndInv DEF FetchFails, Succeeds, Fails, Ended
  <1>7. ASSUME NEW c \in Calls, StartLoop(c)
        PROVE  IInv'
    BY <1>7, StartLoopInv
  <1>8. ASSUME NEW c \in Calls, BacksOff(c)
        PROVE  IInv'
    BY <1>8, BacksOffInv
  <1>9. CASE UNCHANGED vars
    BY <1>9 DEF vars, IInv, TypeOK, CacheInv, CallInv, StartInv, BatchInv
  <1> QED
    BY <1>1, <1>2, <1>3, <1>4, <1>5, <1>6, <1>7, <1>8, <1>9, <1>10 DEF Next, Step

LEMMA IInvAlways == Spec => []IInv
  BY IInvInit, IInvNext, PTL DEF Spec

-------------------------------------------------------------------------------
(* The theorems.                                                           *)

\* Requests, the sizes they pick and halve and the predictor cache keep their types: no
\* det_bs of 0 is ever asked for (pick_doctr_batch_sizes, run_doctr_batch).
THEOREM TypeCorrect == Spec => []TypeOK
  BY IInvAlways, PTL DEF IInv

\* However many batches and single pages share _predictor_cache, unlocked: a batch that
\* got a predictor from a batch has one of the sizes it asked for.
THEOREM BatchesGetTheirSizes == Spec => []BatchPredictorsFit
  <1>1. IInv => BatchPredictorsFit
    BY DEF IInv, CallInv, BatchInv, BatchPredictorsFit
  <1> QED  BY IInvAlways, <1>1, PTL

\* A batch comes down to the CPU with a predictor of det_bs 1, unless its first pick was 1
\* or a single page's predictor was in the cache (run_doctr_batch).
THEOREM CpuIsTheLastResort == Spec => []FallsBackLast
  <1>1. IInv => FallsBackLast
    BY DEF IInv, CallInv, BatchInv, FallsBackLast
  <1> QED  BY IInvAlways, <1>1, PTL
===============================================================================
