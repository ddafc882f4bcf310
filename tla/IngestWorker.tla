---------------------------- MODULE IngestWorker ----------------------------
(***************************************************************************)
(* Asynchronous chunked import of findings: the routes that create, poll   *)
(* and cancel ingest_job rows, and the one background worker that takes    *)
(* the oldest unfinished job and works through its chunks.                 *)
(*                                                                         *)
(* Jobs are numbered in the order of created_at.  Items of a job are       *)
(* numbered from 1; a finding is identified by its job and item, since     *)
(* create_finding upserts.                                                 *)
(***************************************************************************)
EXTENDS Naturals, FiniteSets

CONSTANTS
  MaxJobs,         \* a bound on the jobs created
  Sizes,           \* lengths of raw_data
  ChunkSizes,      \* the chunk_size asked for, clamped to 1 .. 50 by the route
  SmallImport,     \* _SMALL_IMPORT_THRESHOLD: 5 in the code
  MaxConsecutive,  \* _MAX_CONSECUTIVE_FAILURES: 3 in the code
  MaxFaults        \* a bound on failed model calls, worker errors and restarts

ASSUME PositiveSizes == Sizes \subseteq Nat \ {0} /\ ChunkSizes \subseteq 1 .. 50
ASSUME Limits ==
  MaxJobs \in Nat /\ SmallImport \in Nat /\ MaxConsecutive \in Nat \ {0} /\ MaxFaults \in Nat

VARIABLES
  job,         \* the ingest_job rows
  produced,    \* the items a finding was created for, per job
  blank,       \* jobs with a chunk that gave neither findings nor errors
  cancelling,  \* jobs whose cancel handler has passed its status check
  worker,      \* the worker: where it is, its job, chunk, failure count
  faults       \* faults so far, for the bound

vars == <<job, produced, blank, cancelling, worker, faults>>

Job == 1 .. MaxJobs
Unfinished == {"pending", "processing"}
Finished == {"completed", "failed", "cancelled"}
JobStatus == {"absent"} \cup Unfinished \cup Finished

Absent == [status |-> "absent", size |-> 0, chunk |-> 0, total |-> 0, done |-> 0]
AtPoll == [pc |-> "poll", job |-> 0, chunk |-> 0, failures |-> 0]

-----------------------------------------------------------------------------
(* Helpers. *)

CeilDiv(a, b) == (a + b - 1) \div b

\* The chunk size the worker uses, which may differ from the row's.
WorkerChunk(j) == IF job[j].size <= SmallImport THEN 1 ELSE job[j].chunk
WorkerTotal(j) == CeilDiv(job[j].size, WorkerChunk(j))

\* The items of the worker's i-th chunk, counting chunks from 0.
ItemsOf(j, i) ==
  {n \in 1 .. job[j].size : i * WorkerChunk(j) < n /\ n <= (i + 1) * WorkerChunk(j)}

Oldest(S) == CHOOSE j \in S : \A k \in S : j <= k

UnfinishedJobs == {j \in Job : job[j].status \in Unfinished}

SetStatus(j, s) == job' = [job EXCEPT ![j].status = s]

Fault == faults < MaxFaults /\ faults' = faults + 1

-----------------------------------------------------------------------------
Init ==
  /\ job = [j \in Job |-> Absent]
  /\ produced = [j \in Job |-> {}]
  /\ blank = {}
  /\ cancelling = {}
  /\ worker = AtPoll
  /\ faults = 0

-----------------------------------------------------------------------------
(* Users. *)

\* POST /findings/ingest.
CreateIngestJob ==
  /\ \E j \in Job, n \in Sizes, c \in ChunkSizes :
       /\ job[j].status = "absent"
       /\ \A k \in 1 .. j - 1 : job[k].status # "absent"
       /\ job' = [job EXCEPT ![j] = [status |-> "pending", size |-> n, chunk |-> c,
                                     total |-> CeilDiv(n, c), done |-> 0]]
  /\ UNCHANGED <<produced, blank, cancelling, worker, faults>>

\* POST .../cancel reads the row ...
CancelCheck(j) ==
  /\ job[j].status \in Unfinished
  /\ j \notin cancelling
  /\ cancelling' = cancelling \cup {j}
  /\ UNCHANGED <<job, produced, blank, worker, faults>>

\* ... and writes 'cancelled' an await later, whatever the row says by then.
CancelWrite(j) ==
  /\ j \in cancelling
  /\ cancelling' = cancelling \ {j}
  /\ SetStatus(j, "cancelled")
  /\ UNCHANGED <<produced, blank, worker, faults>>

-----------------------------------------------------------------------------
(* The worker. *)

\* Mutation: the newest first.
PollNewest ==
  /\ worker.pc = "poll"
  /\ UnfinishedJobs # {}
  /\ \E j \in UnfinishedJobs :
       /\ \A k \in UnfinishedJobs : k <= j
       /\ worker' = [AtPoll EXCEPT !.pc = "prepare", !.job = j]
  /\ UNCHANGED <<job, produced, blank, cancelling, faults>>

\* get_next_pending_job_id: pending, or left processing by an earlier attempt.
Poll ==
  /\ worker.pc = "poll"
  /\ UnfinishedJobs # {}
  /\ worker' = [AtPoll EXCEPT !.pc = "prepare", !.job = Oldest(UnfinishedJobs)]
  /\ UNCHANGED <<job, produced, blank, cancelling, faults>>

\* Raw data, provider and model are there: the job is marked processing, unconditionally.
StartProcessing ==
  /\ worker.pc = "prepare"
  /\ SetStatus(worker.job, "processing")
  /\ worker' = [worker EXCEPT !.pc = "check"]
  /\ UNCHANGED <<produced, blank, cancelling, faults>>

\* No usable provider or model: terminally failed.
NoProvider ==
  /\ worker.pc = "prepare"
  /\ SetStatus(worker.job, "failed")
  /\ worker' = AtPoll
  /\ UNCHANGED <<produced, blank, cancelling, faults>>

\* Before each chunk, and once more before the final status, the row is read.
CheckCancelled ==
  /\ worker.pc = "check"
  /\ worker' =
       IF job[worker.job].status = "cancelled" THEN AtPoll
       ELSE [worker EXCEPT !.pc = IF worker.chunk < WorkerTotal(worker.job)
                                    THEN "normalize" ELSE "finish"]
  /\ UNCHANGED <<job, produced, blank, cancelling, faults>>

\* normalize_findings: the items that come back as valid findings, at most one each, and
\* whether it reports errors (an item dropped, answers cut, a model call that failed).
Normalized(items) == [valid : SUBSET items, errors : BOOLEAN]

\* Mutation: an error-only chunk counts as completed.
NormalizeCountingErrors ==
  /\ worker.pc = "normalize"
  /\ \E answer \in Normalized(ItemsOf(worker.job, worker.chunk)) :
       /\ produced' = [produced EXCEPT ![worker.job] = @ \cup answer.valid]
       /\ job' = [job EXCEPT ![worker.job].done = @ + 1]
       /\ blank' = IF answer.valid = {} /\ ~answer.errors THEN blank \cup {worker.job} ELSE blank
  /\ worker' = [worker EXCEPT !.pc = "check", !.chunk = @ + 1, !.failures = 0]
  /\ UNCHANGED <<cancelling, faults>>

\* normalize_findings answers, directly or item by item, and what it found valid is
\* upserted; a chunk with a finding, or with nothing wrong, counts as completed.
NormalizeChunk ==
  /\ worker.pc = "normalize"
  /\ \E answer \in Normalized(ItemsOf(worker.job, worker.chunk)) :
       /\ produced' = [produced EXCEPT ![worker.job] = @ \cup answer.valid]
       /\ job' = IF answer.valid # {} \/ ~answer.errors
                   THEN [job EXCEPT ![worker.job].done = @ + 1] ELSE job
       /\ blank' = IF answer.valid = {} /\ ~answer.errors THEN blank \cup {worker.job} ELSE blank
  /\ worker' = [worker EXCEPT !.pc = "check", !.chunk = @ + 1, !.failures = 0]
  /\ UNCHANGED <<cancelling, faults>>

\* Mutation: off by one in the limit on consecutive failures.
NormalizeFailsLate ==
  /\ worker.pc = "normalize"
  /\ Fault
  /\ IF worker.failures >= MaxConsecutive
       THEN /\ SetStatus(worker.job, "pending")
            /\ worker' = AtPoll
       ELSE /\ worker' = [worker EXCEPT !.pc = "check", !.chunk = @ + 1, !.failures = @ + 1]
            /\ UNCHANGED job
  /\ UNCHANGED <<produced, blank, cancelling>>

\* The model call raises.  The job goes back to pending after so many in a row, and the next
\* poll takes it again, from its first chunk.
NormalizeFails ==
  /\ worker.pc = "normalize"
  /\ Fault
  /\ IF worker.failures + 1 >= MaxConsecutive
       THEN /\ SetStatus(worker.job, "pending")
            /\ worker' = AtPoll
       ELSE /\ worker' = [worker EXCEPT !.pc = "check", !.chunk = @ + 1, !.failures = @ + 1]
            /\ UNCHANGED job
  /\ UNCHANGED <<produced, blank, cancelling>>

\* Mutation: the job is left processing when nothing was created.
FinishSkippingFailed ==
  /\ worker.pc = "finish"
  /\ IF job[worker.job].done = 0
       THEN UNCHANGED job
       ELSE SetStatus(worker.job, "completed")
  /\ worker' = AtPoll
  /\ UNCHANGED <<produced, blank, cancelling, faults>>

\* The final status keys off completed_chunks, an earlier attempt's included.
FinishJob ==
  /\ worker.pc = "finish"
  /\ SetStatus(worker.job, IF job[worker.job].done = 0 THEN "failed" ELSE "completed")
  /\ worker' = AtPoll
  /\ UNCHANGED <<produced, blank, cancelling, faults>>

\* A restart of the process, or an unexpected error caught by the worker's loop: the row
\* stays as it is, with some of a chunk's findings created perhaps; a restart also loses the
\* cancel handlers.
Interrupt ==
  /\ worker.pc # "poll"
  /\ Fault
  /\ worker' = AtPoll
  /\ cancelling' \in {cancelling, {}}
  /\ IF worker.pc = "normalize"
       THEN \E some \in SUBSET ItemsOf(worker.job, worker.chunk) :
              produced' = [produced EXCEPT ![worker.job] = @ \cup some]
       ELSE UNCHANGED produced
  /\ UNCHANGED <<job, blank>>

WorkerStep ==
  \/ Poll \/ StartProcessing \/ NoProvider \/ CheckCancelled
  \/ NormalizeChunk \/ NormalizeFails \/ FinishJob

Next ==
  \/ CreateIngestJob
  \/ \E j \in Job : CancelCheck(j) \/ CancelWrite(j)
  \/ WorkerStep
  \/ Interrupt

Spec == Init /\ [][Next]_vars

\* The loop polls every second and each of its awaits ends.
Fairness == WF_vars(WorkerStep)
FairSpec == Spec /\ Fairness

-----------------------------------------------------------------------------
(* Properties. *)

TypeOK ==
  /\ job \in [Job -> [status : JobStatus, size : Nat, chunk : Nat, total : Nat, done : Nat]]
  /\ \A j \in Job : produced[j] \subseteq 1 .. job[j].size
  /\ blank \subseteq Job
  /\ cancelling \subseteq Job
  /\ worker \in [pc : {"poll", "prepare", "check", "normalize", "finish"},
                 job : Job \cup {0}, chunk : Nat, failures : 0 .. MaxConsecutive - 1]
  /\ worker.pc # "poll" => worker.job \in Job
  /\ faults \in 0 .. MaxFaults

\* A job of all-bad data never finishes 'completed' (_process_job, the comment on counting a
\* chunk): a completed job created a finding, or had a chunk with nothing to create, counting
\* every attempt at it.
CompletedMeansProgress ==
  \A j \in Job : job[j].status = "completed" => produced[j] # {} \/ j \in blank

\* Oldest first: the worker never works on a job while an older one is unfinished, whatever
\* pauses, interruptions and cancellations come between.
OldestFirst ==
  worker.pc # "poll" => \A j \in Job : j < worker.job => job[j].status \in Finished

\* Every job ends, as long as the model does not fail for ever.
EveryJobEnds ==
  \A j \in Job : job[j].status \in Unfinished ~> job[j].status \in Finished
=============================================================================
