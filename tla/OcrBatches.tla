------------------------------ MODULE OcrBatches ------------------------------
(***************************************************************************)
(* Local OCR: single pages through the ("ocr", device) stages              *)
(* (gpu/local_stage.py, gpu/default_stages.py), batches through            *)
(* run_ocr_batch and run_doctr_batch (gpu/doctr_batch.py), and the         *)
(* predictor cache the two share.                                          *)
(*                                                                         *)
(* run_ocr_batch picks sizes and fetches a predictor on the event loop;    *)
(* run_doctr_batch picks sizes again in an executor thread and, when out   *)
(* of memory, halves its own det_bs and fetches another predictor there.   *)
(* Programs that call run_doctr_batch themselves bring their predictor and *)
(* may leave out the callback for smaller ones.                            *)
(* Single pages fetch theirs in an executor thread.  Nothing locks the     *)
(* cache: two calls may miss and build at the same time.  Free memory is   *)
(* counted in pages (of 1.2 GB); it changes at any moment, so each probe   *)
(* may find any amount.                                                    *)
(***************************************************************************)
EXTENDS Integers

CONSTANTS
    Calls,      \* OCR requests
    Chunks,     \* numbers of pages in a batch
    MaxFree,    \* bound on the pages that fit into free memory
    None        \* no predictor (stock weights); no answer from the memory probe

ASSUME OcrAssumption == Chunks \subseteq Nat \ {0} /\ MaxFree \in Nat /\ None \notin 0..MaxFree

Devices == {"cpu", "local", "mps"}

\* What _cuda_free_bytes says: the pages that fit, or nothing.
Probes == 0..MaxFree \cup {None}

VARIABLES
    models,     \* the finetuned models can be imported
    cache,      \* _predictor_cache
    call

vars == <<models, cache, call>>

Lesser(a, b) == IF a < b THEN a ELSE b
Greater(a, b) == IF a < b THEN b ELSE a

DetSizes == 1..8
RecoSizes == {128} \cup {Lesser(512, Greater(128, 48 * n)) : n \in Chunks}
Sizes == [det : DetSizes, reco : RecoSizes]
Predictors == [for : Sizes, by : {"page", "batch", "caller"}]
MaxTries == 5    \* tries are counted up to here
Fetching == {"fetch", "build"}
InLoop == {"batch", "direct"}    \* the kinds that run run_doctr_batch
Ended == {"answered", "raised"}

Call == [pc : {"idle", "submitted", "run", "cpu"} \cup Fetching \cup Ended,
         kind : {"page"} \cup InLoop,
         device : Devices, pages : Chunks \cup {1},
         want : Sizes,                     \* what the predictor was asked for
         sizes : Sizes,                    \* det_bs, reco_bs of run_doctr_batch
         pred : Predictors \cup {None},
         tries : 0..MaxTries]

TypeOK ==
    /\ models \in BOOLEAN
    /\ cache \in [Sizes -> Predictors \cup {None}]
    /\ call \in [Calls -> Call]

-------------------------------------------------------------------------------
(* Helpers.  Op_Something is a plausible bug in Op, used by no             *)
(* specification.                                                          *)

DetPick_NoFloor(device, free) ==
    IF device = "cpu" THEN 1 ELSE IF free = None THEN 2 ELSE Lesser(8, free)

DetPick(device, free) ==
    IF device = "cpu" THEN 1 ELSE IF free = None THEN 2 ELSE Greater(1, Lesser(8, free))

\* pick_doctr_batch_sizes
Pick(device, pages, free) ==
    [det |-> DetPick(device, free),
     reco |-> IF device = "cpu" \/ free = None THEN 128
              ELSE Lesser(512, Greater(128, 48 * pages))]

\* The sizes get_finetuned_torch_doctr_predictor takes when it is given none.
DefaultSizes == [det |-> 2, reco |-> 128]

\* _make_doctr_finetuned_sync builds without sizes.
Built(c) == [for |-> IF call[c].kind = "page" THEN DefaultSizes ELSE call[c].want,
             by |-> call[c].kind]

Key_NoDet(sizes) == [sizes EXCEPT !.det = 1]     \* det_bs not part of the key

Key(sizes) == sizes

Smaller(det) == Greater(1, det \div 2)

AtFloor_Early(det) == det <= 2

AtFloor_Never(det) == det < 1     \* off by one

AtFloor(det) == det <= 1

\* run_ocr_batch has the event loop until its predictor is there: nothing else is
\* started meanwhile.
LoopFree == ~ \E c \in Calls : /\ call[c].kind = "batch" /\ call[c].tries = 0
                               /\ call[c].pc \in Fetching

Idle == [pc |-> "idle", kind |-> "page", device |-> "cpu", pages |-> 1,
         want |-> DefaultSizes, sizes |-> DefaultSizes, pred |-> None, tries |-> 0]

\* The answer, or an exception; the locals are gone.
End(c, pc) == call' = [call EXCEPT ![c] = [Idle EXCEPT !.pc = pc]]

Goto(c, pc) == call' = [call EXCEPT ![c].pc = pc]

\* What follows when c has its predictor.
Fetched(c, p) ==
    call' = [call EXCEPT ![c].pred = p,
                         ![c].pc = IF call[c].kind = "batch" /\ call[c].tries = 0
                                   THEN "submitted" ELSE "run"]

-------------------------------------------------------------------------------

\* run_stage("ocr"): on the CPU, or with the finetuned models; without them
\* (resolve_ocr_models raises) it falls through to the CPU.
StartPage(c, device) ==
    /\ call[c].pc = "idle" /\ LoopFree
    /\ \/ call' = [call EXCEPT ![c] = [@ EXCEPT !.kind = "page", !.device = device,
                                                !.pages = 1, !.pc = "cpu"]]
       \/ /\ device # "cpu" /\ models
          /\ \E free \in Probes :
                call' = [call EXCEPT ![c] = [@ EXCEPT !.kind = "page", !.device = device,
                                                      !.pages = 1, !.pc = "fetch",
                                                      !.want = Pick(device, 1, free)]]
    /\ UNCHANGED <<models, cache>>

\* run_ocr_batch, up to the predictor.
StartBatch(c, device, n) ==
    /\ call[c].pc = "idle" /\ LoopFree
    /\ \E free \in Probes :
          call' = [call EXCEPT ![c] =
                     [@ EXCEPT !.kind = "batch", !.device = device, !.pages = n,
                               !.want = Pick(device, n, free),
                               !.pc = IF models THEN "fetch" ELSE "submitted"]]
    /\ UNCHANGED <<models, cache>>

\* run_doctr_batch, called by itself: with a predictor of the caller's and no callback.
StartDirect(c, device, n) ==
    /\ call[c].pc = "idle"
    /\ \E pred \in {None, [for |-> DefaultSizes, by |-> "caller"]} :
          call' = [call EXCEPT ![c] = [@ EXCEPT !.kind = "direct", !.device = device, !.pages = n,
                                                !.pred = pred, !.pc = "submitted"]]
    /\ UNCHANGED <<models, cache>>

Hit(c) ==
    /\ call[c].pc = "fetch" /\ cache[Key(call[c].want)] # None
    /\ Fetched(c, cache[Key(call[c].want)])
    /\ UNCHANGED <<models, cache>>

Miss(c) ==
    /\ call[c].pc = "fetch" /\ cache[Key(call[c].want)] = None
    /\ Goto(c, "build")
    /\ UNCHANGED <<models, cache>>

\* The predictor is built and stored, over one that somebody else stored meanwhile.
Build(c) ==
    /\ call[c].pc = "build"
    /\ cache' = [cache EXCEPT ![Key(call[c].want)] = Built(c)]
    /\ Fetched(c, Built(c))
    /\ UNCHANGED models

\* The models cannot be resolved, or not be loaded into memory.
FetchFails(c) ==
    /\ call[c].pc \in Fetching
    /\ End(c, "raised")
    /\ UNCHANGED <<models, cache>>

\* run_doctr_batch starts in an executor thread, and picks sizes of its own.
StartLoop(c) ==
    /\ call[c].pc = "submitted"
    /\ \E free \in Probes :
          call' = [call EXCEPT ![c] = [@ EXCEPT !.pc = "run", !.tries = 1,
                                         !.sizes = Pick(call[c].device, call[c].pages, free)]]
    /\ UNCHANGED <<models, cache>>

Succeeds(c) ==
    /\ call[c].pc \in {"run", "cpu"}
    /\ End(c, "answered")
    /\ UNCHANGED <<models, cache>>

\* Anything but an exhausted memory; for a single page and for the CPU fallback, that too.
Fails(c) ==
    /\ call[c].pc \in {"run", "cpu"}
    /\ End(c, "raised")
    /\ UNCHANGED <<models, cache>>

\* Out of memory at the floor: every image by itself, on the CPU.
FallsBack(c) ==
    /\ call[c].pc = "run" /\ call[c].kind \in InLoop /\ AtFloor(call[c].sizes.det)
    /\ Goto(c, "cpu")
    /\ UNCHANGED <<models, cache>>

\* Out of memory above it: det_bs is halved and a predictor of that size fetched.
BacksOff(c) ==
    LET smaller == [call[c].sizes EXCEPT !.det = Smaller(call[c].sizes.det)] IN
    /\ call[c].pc = "run" /\ call[c].kind = "batch" /\ ~AtFloor(call[c].sizes.det)
    /\ call' = [call EXCEPT ![c] =
                  [@ EXCEPT !.sizes = smaller, !.want = smaller,
                            !.pc = IF models THEN "fetch" ELSE "run",
                            !.tries = Lesser(MaxTries, call[c].tries + 1)]]
    /\ UNCHANGED <<models, cache>>

\* Out of memory above it, and no build_smaller to call.
GivesUp(c) ==
    /\ call[c].pc = "run" /\ call[c].kind = "direct" /\ ~AtFloor(call[c].sizes.det)
    /\ Goto(c, "cpu")
    /\ UNCHANGED <<models, cache>>

Init ==
    /\ models \in BOOLEAN
    /\ cache = [s \in Sizes |-> None]
    /\ call = [c \in Calls |-> Idle]

Step(c) ==
    \/ Hit(c) \/ Miss(c) \/ Build(c) \/ FetchFails(c) \/ StartLoop(c)
    \/ Succeeds(c) \/ Fails(c) \/ FallsBack(c) \/ BacksOff(c) \/ GivesUp(c)

Next ==
    \/ \E c \in Calls, device \in Devices : StartPage(c, device)
    \/ \E c \in Calls, device \in Devices, n \in Chunks :
          StartBatch(c, device, n) \/ StartDirect(c, device, n)
    \/ \E c \in Calls : Step(c)

Spec == Init /\ [][Next]_vars

\* Fairness: the event loop and the executor threads run.
FairSpec == Spec /\ \A c \in Calls : WF_vars(Step(c))

-------------------------------------------------------------------------------
(* Properties.                                                             *)

\* A batch that fetched a predictor some batch had built got one of the sizes it
\* asked for, whoever else filled or overwrote the cache meanwhile.
BatchPredictorsFit ==
    \A c \in Calls :
        /\ call[c].kind = "batch" /\ call[c].pc \in {"submitted", "run"}
        /\ call[c].pred # None /\ call[c].pred.by = "batch"
        => call[c].pred.for = call[c].want

\* Every request is answered or raises, however often memory runs out.
RequestsEnd ==
    \A c \in Calls : call[c].pc # "idle" ~> call[c].pc \in Ended

\* run_doctr_batch: "det_bs == 1 still OOM -> per-image CPU fallback".  The predictor
\* that ran out of memory had a det_bs of 1, unless the loop's own pick was 1 from the
\* start, or a single page had left a predictor of other sizes in the cache.  (A direct
\* call without build_smaller leaves the GPU at its first exhausted memory.)
FallsBackLast ==
    \A c \in Calls :
        call[c].kind = "batch" /\ call[c].pc = "cpu" /\ call[c].pred # None
        => call[c].pred.for.det = 1 \/ call[c].tries = 1 \/ call[c].pred.by = "page"
===============================================================================
