------------------------ MODULE IngestWorker_proofs ------------------------
(***************************************************************************)
(* The way of a finding in and out.  First the safety of the ingest worker *)
(* for any number of jobs, any sizes and thresholds and any number of      *)
(* faults; then of the dashboard and the Issues page that show a finding,  *)
(* for any evidence, agents and reasons and any number of days.            *)
(***************************************************************************)
EXTENDS IngestWorker, Dashboard, FiniteSetTheorems, TLAPS

Row == [status : JobStatus, size : Nat, chunk : Nat, total : Nat, done : Nat]
WorkerType == [pc : {"poll", "prepare", "check", "normalize", "finish"},
               job : Job \cup {0}, chunk : Nat, failures : 0 .. MaxConsecutive - 1]

\* Rows are inserted in the order of their numbers.
RowsInOrder ==
  \A j, k \in Job : k < j /\ job[j].status # "absent" => job[k].status # "absent"

\* Nothing refers to a row that is not there.
RowsExist ==
  /\ worker.pc # "poll" => job[worker.job].status # "absent"
  /\ \A j \in cancelling : job[j].status # "absent"
  /\ \A j \in Job : job[j].status = "absent" => produced[j] = {}

\* What completed_chunks counts.
CountedIsProgress == \A j \in Job : job[j].done # 0 => produced[j] # {} \/ j \in blank

IInv ==
  /\ TypeOK
  /\ produced \in [Job -> SUBSET Nat]
  /\ RowsInOrder
  /\ RowsExist
  /\ CountedIsProgress
  /\ CompletedMeansProgress
  /\ OldestFirst

-----------------------------------------------------------------------------
(* The operators. *)

LEMMA CeilDivIsNat ==
  ASSUME NEW a \in Nat, NEW c \in 1 .. 50
  PROVE  CeilDiv(a, c) \in Nat
BY Z3 DEF CeilDiv

\* A non-empty set of numbers has a least one: of the intervals 0 .. k, a minimal one.
LEMMA OldestIsLeast ==
  ASSUME NEW S \in SUBSET Nat, S # {}
  PROVE  Oldest(S) \in S /\ \A k \in S : Oldest(S) <= k
<1> DEFINE T == {0 .. k : k \in S}
           R == StrictSubsetOrdering(Nat)
<1>1. \A k \in Nat : 0 .. k \in FiniteSubsetsOf(Nat)
  BY FS_Interval DEF FiniteSubsetsOf
<1>2. T \subseteq FiniteSubsetsOf(Nat) /\ T # {}
  BY <1>1
<1>3. IsWellFoundedOn(R, FiniteSubsetsOf(Nat))
  BY FS_StrictSubsetOrderingWellFounded
<1> HIDE DEF R, T
<1>4. \E x \in T : \A y \in T : ~ (<<y, x>> \in R)
  BY <1>2, <1>3, WFMin
<1>5. \A j, k \in Nat : j < k => <<0 .. j, 0 .. k>> \in R
  <2> SUFFICES ASSUME NEW j \in Nat, NEW k \in Nat, j < k PROVE <<0 .. j, 0 .. k>> \in R
    OBVIOUS
  <2>1. /\ 0 .. j \in SUBSET Nat /\ 0 .. k \in SUBSET Nat /\ 0 .. j \subseteq 0 .. k
        /\ k \in 0 .. k /\ k \notin 0 .. j
    OBVIOUS
  <2> QED
    BY <2>1 DEF R, StrictSubsetOrdering
<1>6. PICK m \in S : \A y \in T : ~ (<<y, 0 .. m>> \in R)
  BY <1>4 DEF T
<1>7. \A k \in S : m <= k
  <2> SUFFICES ASSUME NEW k \in S, k < m PROVE FALSE
    OBVIOUS
  <2>1. 0 .. k \in T
    BY DEF T
  <2> QED
    BY <2>1, <1>5, <1>6
<1> QED
  BY <1>7 DEF Oldest

LEMMA SetStatusKeeps ==
  ASSUME TypeOK, NEW j \in Job, NEW s \in JobStatus, SetStatus(j, s)
  PROVE  /\ job' \in [Job -> Row]
         /\ \A k \in Job \ {j} : job'[k] = job[k]
         /\ job'[j].status = s /\ job'[j].size = job[j].size /\ job'[j].done = job[j].done
<1> DEFINE new == [job[j] EXCEPT !.status = s]
<1>1. job \in [Job -> Row] /\ job[j] \in Row
  BY DEF TypeOK, Row
<1>2. job' = [job EXCEPT ![j] = new]
  BY DEF SetStatus
<1>3. new \in Row /\ new.status = s /\ new.size = job[j].size /\ new.done = job[j].done
  BY <1>1 DEF Row
<1> HIDE DEF new
<1>4. QED
  BY <1>1, <1>2, <1>3

LEMMA CountKeeps ==
  ASSUME TypeOK, NEW j \in Job, job' = [job EXCEPT ![j].done = @ + 1]
  PROVE  /\ job' \in [Job -> Row]
         /\ \A k \in Job \ {j} : job'[k] = job[k]
         /\ job'[j].status = job[j].status /\ job'[j].size = job[j].size
<1> DEFINE new == [job[j] EXCEPT !.done = @ + 1]
<1>1. job \in [Job -> Row] /\ job[j] \in Row
  BY DEF TypeOK, Row
<1>2. job' = [job EXCEPT ![j] = new]
  OBVIOUS
<1>3. new \in Row /\ new.status = job[j].status /\ new.size = job[j].size
  BY <1>1 DEF Row
<1> HIDE DEF new
<1>4. QED
  BY <1>1, <1>2, <1>3

LEMMA ItemsAreItems ==
  ASSUME TypeOK, NEW j \in Job, NEW i
  PROVE  ItemsOf(j, i) \subseteq 1 .. job[j].size
BY DEF ItemsOf

LEMMA Typed ==
  ASSUME TypeOK
  PROVE  /\ job \in [Job -> Row] /\ worker \in WorkerType
         /\ \A j \in Job : job[j] \in Row
BY DEF TypeOK, Row, WorkerType

LEMMA AtPollType == AtPoll \in WorkerType /\ AtPoll.pc = "poll"
BY Limits DEF AtPoll, WorkerType

\* On to the next chunk, the failures in a row counted on or forgotten.
LEMMA MovesOn ==
  ASSUME worker \in WorkerType, NEW f \in 0 .. MaxConsecutive - 1,
         worker' = [worker EXCEPT !.pc = "check", !.chunk = @ + 1, !.failures = f]
  PROVE  worker' \in WorkerType /\ worker'.job = worker.job /\ worker'.pc = "check"
<1>1. worker.chunk + 1 \in Nat
  BY DEF WorkerType
<1> DEFINE c == worker.chunk + 1
<1>2. worker' = [worker EXCEPT !.pc = "check", !.chunk = c, !.failures = f]
  OBVIOUS
<1> HIDE DEF c
<1>3. QED
  BY <1>1, <1>2 DEF WorkerType, c

LEMMA FaultKeeps == TypeOK /\ Fault => faults' \in 0 .. MaxFaults
BY Limits DEF TypeOK, Fault

-----------------------------------------------------------------------------
LEMMA InitIInv == Init => IInv
BY Limits, AtPollType
   DEF Init, IInv, TypeOK, RowsInOrder, RowsExist, CountedIsProgress, CompletedMeansProgress,
       OldestFirst, Absent, AtPoll, JobStatus

-----------------------------------------------------------------------------
(* Each step keeps the invariant. *)

LEMMA CreateKeeps == IInv /\ CreateIngestJob => IInv'
<1> SUFFICES ASSUME IInv, CreateIngestJob PROVE IInv'
  OBVIOUS
<1>a. TypeOK /\ RowsInOrder /\ RowsExist
  BY DEF IInv
<1>1. PICK j \in Job, n \in Sizes, c \in ChunkSizes :
        /\ job[j].status = "absent"
        /\ \A k \in 1 .. j - 1 : job[k].status # "absent"
        /\ job' = [job EXCEPT ![j] = [status |-> "pending", size |-> n, chunk |-> c,
                                      total |-> CeilDiv(n, c), done |-> 0]]
  BY DEF CreateIngestJob
<1> DEFINE new == [status |-> "pending", size |-> n, chunk |-> c,
                   total |-> CeilDiv(n, c), done |-> 0]
<1>2. new \in Row /\ new.status = "pending" /\ new.done = 0
  <2>1. n \in Nat /\ c \in Nat /\ c \in 1 .. 50
    BY PositiveSizes
  <2>2. CeilDiv(n, c) \in Nat
    BY <2>1, CeilDivIsNat
  <2> QED
    BY <2>1, <2>2 DEF Row, JobStatus, Unfinished
<1>3. job' = [job EXCEPT ![j] = new]
  BY <1>1
<1> HIDE DEF new
<1>4. /\ job' \in [Job -> Row] /\ job'[j] = new
      /\ \A k \in Job \ {j} : job'[k] = job[k]
  BY <1>2, <1>3, <1>a, Typed
<1>5. UNCHANGED <<produced, blank, cancelling, worker, faults>>
  BY DEF CreateIngestJob
<1>6. produced[j] = {}
  BY <1>1, <1>a DEF RowsExist
<1>7. TypeOK'
  BY <1>4, <1>5, <1>6, <1>a DEF TypeOK, Row
<1>8. RowsInOrder'
  BY <1>1, <1>2, <1>4, <1>a DEF RowsInOrder, Job
<1>9. RowsExist'
  BY <1>1, <1>2, <1>4, <1>5, <1>a DEF RowsExist, TypeOK
<1>10. OldestFirst'
  <2>1. ASSUME worker.pc # "poll", j < worker.job PROVE FALSE
    BY <1>1, <2>1, <1>a DEF RowsInOrder, RowsExist, TypeOK
  <2> QED
    BY <1>4, <1>5, <2>1 DEF OldestFirst, IInv, TypeOK
<1>11. CountedIsProgress' /\ CompletedMeansProgress' /\ (produced \in [Job -> SUBSET Nat])'
  BY <1>2, <1>4, <1>5 DEF IInv, CountedIsProgress, CompletedMeansProgress
<1> QED
  BY <1>7, <1>8, <1>9, <1>10, <1>11 DEF IInv

\* A status written to a row that is there: all but what the new status itself claims.
LEMMA StatusKeeps ==
  ASSUME IInv, NEW j \in Job, NEW s \in JobStatus \ {"absent"}, SetStatus(j, s),
         job[j].status # "absent", UNCHANGED <<produced, blank>>,
         s = "completed" => produced[j] # {} \/ j \in blank,
         worker' \in WorkerType, worker'.pc # "poll" => worker'.job \in Job,
         worker'.pc # "poll" => job[worker'.job].status # "absent",
         cancelling' \subseteq cancelling, faults' \in 0 .. MaxFaults
  PROVE  /\ TypeOK' /\ RowsInOrder' /\ RowsExist' /\ CountedIsProgress'
         /\ CompletedMeansProgress' /\ (produced \in [Job -> SUBSET Nat])'
<1>a. TypeOK /\ RowsInOrder /\ RowsExist
  BY DEF IInv
<1>1. /\ job' \in [Job -> Row]
      /\ \A k \in Job \ {j} : job'[k] = job[k]
      /\ job'[j].status = s /\ job'[j].size = job[j].size /\ job'[j].done = job[j].done
  BY <1>a, SetStatusKeeps
<1>2. TypeOK'
  BY <1>1, <1>a DEF TypeOK, Row, WorkerType
<1>3. RowsInOrder'
  BY <1>1, <1>a DEF RowsInOrder
<1>4. RowsExist'
  BY <1>1, <1>a DEF RowsExist, TypeOK
<1>5. CountedIsProgress' /\ CompletedMeansProgress' /\ (produced \in [Job -> SUBSET Nat])'
  BY <1>1 DEF IInv, CountedIsProgress, CompletedMeansProgress
<1> QED
  BY <1>2, <1>3, <1>4, <1>5

\* A step that leaves the rows, and what they made, alone.
LEMMA PlaceKeeps ==
  ASSUME IInv, UNCHANGED <<job, produced, blank>>,
         worker' \in WorkerType, worker'.pc # "poll" => worker'.job \in Job,
         worker'.pc # "poll" => job[worker'.job].status # "absent",
         \A j \in cancelling' : j \in Job /\ job[j].status # "absent",
         faults' \in 0 .. MaxFaults
  PROVE  /\ TypeOK' /\ RowsInOrder' /\ RowsExist' /\ CountedIsProgress'
         /\ CompletedMeansProgress' /\ (produced \in [Job -> SUBSET Nat])'
<1>2. TypeOK'
  BY DEF IInv, TypeOK, Row, WorkerType
<1>3. RowsInOrder'
  BY DEF IInv, RowsInOrder
<1>4. RowsExist'
  BY DEF IInv, RowsExist, TypeOK
<1>5. CountedIsProgress' /\ CompletedMeansProgress' /\ (produced \in [Job -> SUBSET Nat])'
  BY DEF IInv, CountedIsProgress, CompletedMeansProgress
<1> QED
  BY <1>2, <1>3, <1>4, <1>5

LEMMA CancelKeeps ==
  ASSUME IInv, NEW j \in Job, CancelCheck(j) \/ CancelWrite(j)
  PROVE  IInv'
<1>a. TypeOK /\ RowsExist /\ worker \in WorkerType
  BY Typed DEF IInv
<1>1. CASE CancelCheck(j)
  <2>1. job[j].status # "absent"
    BY <1>1 DEF CancelCheck, Unfinished
  <2>2. OldestFirst'
    BY <1>1 DEF CancelCheck, IInv, OldestFirst
  <2>3. \A k \in cancelling' : k \in Job /\ job[k].status # "absent"
    BY <1>1, <1>a, <2>1 DEF CancelCheck, TypeOK, RowsExist
  <2>4. UNCHANGED <<job, produced, blank, worker, faults>>
    BY <1>1 DEF CancelCheck
  <2> QED
    BY <2>2, <2>3, <2>4, <1>a, PlaceKeeps DEF IInv, TypeOK, RowsExist
<1>2. CASE CancelWrite(j)
  <2>1. job[j].status # "absent" /\ "cancelled" \in JobStatus \ {"absent"}
    BY <1>2, <1>a DEF CancelWrite, RowsExist, JobStatus, Finished
  <2>2. SetStatus(j, "cancelled") /\ cancelling' \subseteq cancelling
        /\ UNCHANGED <<produced, blank, worker, faults>>
    BY <1>2 DEF CancelWrite
  <2>3. OldestFirst'
    BY <2>1, <2>2, <1>a, SetStatusKeeps DEF OldestFirst, IInv, TypeOK, Finished
  <2> QED
    BY <2>1, <2>2, <2>3, <1>a, StatusKeeps DEF IInv, TypeOK, RowsExist
<1> QED
  BY <1>1, <1>2

\* An older row than the oldest unfinished one is over: it exists, since rows come in order.
LEMMA PollKeeps == IInv /\ Poll => IInv'
<1> SUFFICES ASSUME IInv, Poll PROVE IInv'
  OBVIOUS
<1>a. TypeOK /\ RowsExist /\ RowsInOrder
  BY DEF IInv
<1> DEFINE j == Oldest(UnfinishedJobs)
<1>1. UnfinishedJobs \in SUBSET Nat /\ UnfinishedJobs # {}
  BY DEF Poll, UnfinishedJobs, Job
<1>2. j \in UnfinishedJobs /\ \A k \in UnfinishedJobs : j <= k
  BY <1>1, OldestIsLeast
<1>3. worker' = [AtPoll EXCEPT !.pc = "prepare", !.job = j]
      /\ UNCHANGED <<job, produced, blank, cancelling, faults>>
  BY DEF Poll
<1> HIDE DEF j
<1>4. j \in Job /\ job[j].status # "absent"
  BY <1>2 DEF UnfinishedJobs, Unfinished
<1>5. worker' \in WorkerType /\ worker'.job = j
  <2>1. worker' = [pc |-> "prepare", job |-> j, chunk |-> 0, failures |-> 0]
    BY <1>3 DEF AtPoll
  <2> QED
    BY <2>1, <1>4, Limits DEF WorkerType
<1>6. OldestFirst'
  <2> SUFFICES ASSUME NEW k \in Job, k < j PROVE job[k].status \in Finished
    BY <1>3, <1>5 DEF OldestFirst
  <2>1. k \notin UnfinishedJobs
    BY <1>2, <1>4 DEF Job, UnfinishedJobs
  <2>2. job[k].status # "absent" /\ job[k].status \in JobStatus
    BY <1>4, <1>a DEF RowsInOrder, TypeOK
  <2> QED
    BY <2>1, <2>2 DEF UnfinishedJobs, JobStatus
<1> QED
  BY <1>3, <1>4, <1>5, <1>6, <1>a, PlaceKeeps DEF IInv, TypeOK, RowsExist

\* The steps that write the worker's own row: the worker is at it, and then further on at
\* it, or back at its poll.
LEMMA OwnStatusKeeps ==
  ASSUME IInv, worker.pc # "poll", NEW s \in JobStatus \ {"absent"}, SetStatus(worker.job, s),
         UNCHANGED <<produced, blank, cancelling>>,
         s = "completed" => job[worker.job].done # 0,
         worker' \in WorkerType, worker'.pc = "poll" \/ worker'.job = worker.job,
         faults' \in 0 .. MaxFaults
  PROVE  IInv'
<1>a. TypeOK /\ RowsExist /\ worker.job \in Job
  BY DEF IInv, TypeOK
<1>1. job[worker.job].status # "absent"
  BY <1>a DEF RowsExist
<1>2. s = "completed" => produced[worker.job] # {} \/ worker.job \in blank
  BY <1>a DEF IInv, CountedIsProgress
<1>3. OldestFirst'
  <2> SUFFICES ASSUME worker'.pc # "poll", NEW k \in Job, k < worker.job
               PROVE  job'[k].status \in Finished
    BY DEF OldestFirst
  <2>1. k # worker.job
    BY <1>a DEF Job
  <2> QED
    BY <2>1, <1>a, SetStatusKeeps DEF IInv, OldestFirst
<1> QED
  BY <1>1, <1>2, <1>3, <1>a, StatusKeeps DEF IInv

\* The steps that only move the worker on.
LEMMA OwnPlaceKeeps ==
  ASSUME IInv, worker.pc # "poll", UNCHANGED <<job, produced, blank>>,
         worker' \in WorkerType, worker'.pc = "poll" \/ worker'.job = worker.job,
         cancelling' \subseteq cancelling, faults' \in 0 .. MaxFaults
  PROVE  IInv'
<1>a. TypeOK /\ RowsExist /\ worker.job \in Job
  BY DEF IInv, TypeOK
<1>1. OldestFirst'
  BY DEF OldestFirst, IInv
<1>2. \A j \in cancelling' : j \in Job /\ job[j].status # "absent"
  BY <1>a DEF TypeOK, RowsExist
<1>3. worker'.pc # "poll" => worker'.job \in Job /\ job[worker'.job].status # "absent"
  BY <1>a DEF RowsExist
<1> QED
  BY <1>1, <1>2, <1>3, PlaceKeeps DEF IInv

LEMMA ProduceKeeps ==
  ASSUME IInv, worker.pc # "poll", NEW some \in SUBSET ItemsOf(worker.job, worker.chunk),
         produced' = [produced EXCEPT ![worker.job] = @ \cup some],
         UNCHANGED <<job, blank>>,
         worker' \in WorkerType, worker'.pc = "poll" \/ worker'.job = worker.job,
         cancelling' \subseteq cancelling, faults' \in 0 .. MaxFaults
  PROVE  IInv'
<1>a. TypeOK /\ RowsExist /\ worker.job \in Job /\ job[worker.job] \in Row
  BY Typed DEF IInv, TypeOK
<1>1. job[worker.job].status # "absent"
  BY <1>a DEF RowsExist
<1>2. some \subseteq 1 .. job[worker.job].size
  BY <1>a, ItemsAreItems
<1>3. some \subseteq Nat
  BY <1>2
<1>4. /\ produced' \in [Job -> SUBSET Nat]
      /\ \A k \in Job : produced[k] \subseteq produced'[k]
      /\ \A k \in Job \ {worker.job} : produced'[k] = produced[k]
      /\ produced'[worker.job] = produced[worker.job] \cup some
  BY <1>3, <1>a DEF IInv
<1>5. TypeOK'
  BY <1>2, <1>4, <1>a DEF TypeOK, WorkerType
<1>6. RowsInOrder' /\ RowsExist' /\ OldestFirst'
  BY <1>1, <1>4, <1>a DEF IInv, RowsInOrder, RowsExist, OldestFirst, TypeOK
<1>7. CountedIsProgress' /\ CompletedMeansProgress'
  BY <1>4 DEF IInv, CountedIsProgress, CompletedMeansProgress
<1> QED
  BY <1>4, <1>5, <1>6, <1>7 DEF IInv

\* The normalized chunk: what it created, and whether it counts.
LEMMA NormalizeKeeps == IInv /\ NormalizeChunk => IInv'
<1> SUFFICES ASSUME IInv, NormalizeChunk PROVE IInv'
  OBVIOUS
<1> DEFINE w == worker.job
<1>a. TypeOK /\ RowsExist /\ RowsInOrder /\ w \in Job /\ worker \in WorkerType
  BY Typed DEF IInv, TypeOK, NormalizeChunk
<1>1. worker.pc = "normalize" /\ job[w].status # "absent"
  BY <1>a DEF NormalizeChunk, RowsExist
<1>2. PICK answer \in Normalized(ItemsOf(w, worker.chunk)) :
        /\ produced' = [produced EXCEPT ![w] = @ \cup answer.valid]
        /\ job' = IF answer.valid # {} \/ ~answer.errors
                    THEN [job EXCEPT ![w].done = @ + 1] ELSE job
        /\ blank' = IF answer.valid = {} /\ ~answer.errors THEN blank \cup {w} ELSE blank
  BY DEF NormalizeChunk
<1> DEFINE some == answer.valid
<1>3. some \subseteq 1 .. job[w].size
  BY <1>2, <1>a, ItemsAreItems DEF Normalized
<1>4. /\ produced' \in [Job -> SUBSET Nat]
      /\ \A k \in Job : produced[k] \subseteq produced'[k]
      /\ \A k \in Job \ {w} : produced'[k] = produced[k]
      /\ produced'[w] = produced[w] \cup some
  <2>1. some \subseteq Nat
    BY <1>3
  <2> HIDE DEF some, w
  <2> QED
    BY <1>2, <1>a, <2>1 DEF IInv, some
<1>5. /\ job' \in [Job -> Row]
      /\ \A k \in Job \ {w} : job'[k] = job[k]
      /\ job'[w].status = job[w].status /\ job'[w].size = job[w].size
      /\ job'[w].done # job[w].done => some # {} \/ w \in blank'
  <2>1. CASE some # {} \/ ~answer.errors
    <3>1. job' = [job EXCEPT ![w].done = @ + 1]
      BY <2>1, <1>2
    <3>2. some # {} \/ w \in blank'
      BY <2>1, <1>2
    <3> QED
      BY <3>1, <3>2, <1>a, CountKeeps
  <2>2. CASE ~(some # {} \/ ~answer.errors)
    BY <2>2, <1>2, <1>a, Typed
  <2> QED
    BY <2>1, <2>2
<1>6. blank \subseteq blank' /\ blank' \subseteq Job
  BY <1>2, <1>a DEF TypeOK
<1>7. /\ worker' \in WorkerType /\ worker'.job = w /\ worker'.pc = "check"
      /\ UNCHANGED <<cancelling, faults>>
  <2>1. 0 \in 0 .. MaxConsecutive - 1
    BY Limits
  <2> QED
    BY <1>a, <2>1, MovesOn DEF NormalizeChunk
<1> HIDE DEF some, w
<1>8. TypeOK'
  BY <1>3, <1>4, <1>5, <1>6, <1>7, <1>a DEF TypeOK, Row, WorkerType
<1>9. RowsInOrder' /\ RowsExist' /\ OldestFirst'
  BY <1>1, <1>4, <1>5, <1>7, <1>a DEF IInv, RowsInOrder, RowsExist, OldestFirst, TypeOK, w
<1>10. CountedIsProgress' /\ CompletedMeansProgress'
  BY <1>4, <1>5, <1>6 DEF IInv, CountedIsProgress, CompletedMeansProgress
<1> QED
  BY <1>4, <1>8, <1>9, <1>10 DEF IInv

LEMMA InterruptKeeps == IInv /\ Interrupt => IInv'
<1> SUFFICES ASSUME IInv, Interrupt PROVE IInv'
  OBVIOUS
<1>1. /\ faults' \in 0 .. MaxFaults /\ worker.pc # "poll" /\ cancelling' \subseteq cancelling
      /\ worker' \in WorkerType /\ worker'.pc = "poll" /\ UNCHANGED <<job, blank>>
  BY FaultKeeps, AtPollType DEF IInv, Interrupt
<1>2. CASE worker.pc = "normalize"
  <2>1. PICK some \in SUBSET ItemsOf(worker.job, worker.chunk) :
          produced' = [produced EXCEPT ![worker.job] = @ \cup some]
    BY <1>2 DEF Interrupt
  <2> QED
    BY <1>1, <2>1, ProduceKeeps
<1>3. CASE worker.pc # "normalize"
  BY <1>1, <1>3, OwnPlaceKeeps DEF Interrupt
<1> QED
  BY <1>2, <1>3

LEMMA WorkerKeeps ==
  ASSUME IInv, StartProcessing \/ NoProvider \/ CheckCancelled \/ NormalizeFails \/ FinishJob
  PROVE  IInv'
<1>a. TypeOK /\ worker \in WorkerType /\ AtPoll \in WorkerType /\ AtPoll.pc = "poll"
      /\ faults \in 0 .. MaxFaults
  BY Typed, AtPollType DEF IInv, TypeOK
<1>b. {"processing", "failed", "completed", "pending"} \subseteq JobStatus \ {"absent"}
  BY DEF JobStatus, Unfinished, Finished
<1>1. CASE StartProcessing
  <2>1. worker' \in WorkerType /\ worker'.job = worker.job
    BY <1>1, <1>a DEF StartProcessing, WorkerType
  <2> QED
    BY <1>1, <2>1, <1>a, <1>b, OwnStatusKeeps DEF StartProcessing
<1>2. CASE NoProvider
  BY <1>2, <1>a, <1>b, OwnStatusKeeps DEF NoProvider
<1>3. CASE CheckCancelled
  <2>1. worker' \in WorkerType /\ (worker'.pc = "poll" \/ worker'.job = worker.job)
    BY <1>3, <1>a DEF CheckCancelled, WorkerType
  <2> QED
    BY <1>3, <2>1, <1>a, OwnPlaceKeeps DEF CheckCancelled
<1>4. CASE NormalizeFails
  <2>1. faults' \in 0 .. MaxFaults
    BY <1>4, <1>a, FaultKeeps DEF NormalizeFails
  <2>2. CASE worker.failures + 1 >= MaxConsecutive
    BY <1>4, <2>1, <2>2, <1>a, <1>b, OwnStatusKeeps DEF NormalizeFails
  <2>3. CASE ~(worker.failures + 1 >= MaxConsecutive)
    <3>1. worker.failures + 1 \in 0 .. MaxConsecutive - 1
      BY <2>3, <1>a, Limits DEF WorkerType
    <3>2. worker' = [worker EXCEPT !.pc = "check", !.chunk = @ + 1,
                                   !.failures = worker.failures + 1]
      BY <1>4, <2>3 DEF NormalizeFails
    <3>3. worker' \in WorkerType /\ worker'.job = worker.job
      BY <3>1, <3>2, <1>a, MovesOn
    <3> QED
      BY <1>4, <2>1, <2>3, <3>3, OwnPlaceKeeps DEF NormalizeFails
  <2> QED
    BY <2>2, <2>3
<1>5. CASE FinishJob
  <2> DEFINE s == IF job[worker.job].done = 0 THEN "failed" ELSE "completed"
  <2>1. s \in JobStatus \ {"absent"} /\ (s = "completed" => job[worker.job].done # 0)
    BY <1>b
  <2>2. SetStatus(worker.job, s)
    BY <1>5 DEF FinishJob
  <2> HIDE DEF s
  <2> QED
    BY <1>5, <2>1, <2>2, <1>a, OwnStatusKeeps DEF FinishJob
<1> QED
  BY <1>1, <1>2, <1>3, <1>4, <1>5

LEMMA Invariance == Spec => []IInv
<1>1. IInv /\ [Next]_vars => IInv'
  <2>1. IInv /\ UNCHANGED vars => IInv'
    <3> SUFFICES ASSUME IInv, UNCHANGED vars PROVE IInv'
      OBVIOUS
    <3> QED
      BY DEF vars, IInv, TypeOK, RowsInOrder, RowsExist, CountedIsProgress,
             CompletedMeansProgress, OldestFirst
  <2> QED
    BY <2>1, CreateKeeps, CancelKeeps, PollKeeps, NormalizeKeeps, InterruptKeeps, WorkerKeeps
       DEF Next, WorkerStep
<1> QED
  BY <1>1, InitIInv, PTL DEF Spec

\* Rows, worker and counters keep their types, for any number of jobs of any size.
THEOREM TypeCorrect == Spec => []TypeOK
<1>1. IInv => TypeOK
  BY DEF IInv
<1> QED
  BY <1>1, Invariance, PTL

\* The worker never works on a job while an older one is unfinished (get_next_pending_job_id),
\* whatever it pauses, gives up or is told to cancel.
THEOREM WorkIsOldestFirst == Spec => []OldestFirst
<1>1. IInv => OldestFirst
  BY DEF IInv
<1> QED
  BY <1>1, Invariance, PTL

\* A job that ends 'completed' created a finding or had a chunk with nothing to create
\* (_process_job's final status), whatever attempts it took.
THEOREM CompletionIsProgress == Spec => []CompletedMeansProgress
<1>1. IInv => CompletedMeansProgress
  BY DEF IInv
<1> QED
  BY <1>1, Invariance, PTL

-----------------------------------------------------------------------------
(* Dashboard: the inductive invariant is the types of the rows. *)

\* The rows of an issue.  Nothing here gives it the status "passed", which derive() has no rule for.
IssueRow ==
  [status : FindingStatus \ {"passed"}, reason : Reason \cup {"accepted_risk"},
   ws : BOOLEAN, parked : BOOLEAN, run : [Agent -> RunStatus], plan : BOOLEAN,
   verdict : BOOLEAN, pr : [status : PrStatus, branch : BOOLEAN, url : BOOLEAN]]

BoardInv ==
  /\ evidence \in EvidenceSpace /\ others \in {0, HighTarget} /\ finding \in Finding
  /\ day \in 0..MaxDay /\ updated \in 0..day
  /\ issue \in IssueRow

-----------------------------------------------------------------------------
LEMMA AdvancedIsForward ==
  ASSUME NEW s \in FindingStatus \ {"passed"}, NEW t \in {"in_progress", "remediated", "validated"}
  PROVE  /\ Advanced(s, t) \in {s, t}
         /\ s \in {"exception", "validated", "closed"} => Advanced(s, t) = s
BY DEF Advanced, Ordinal, FindingStatus

\* What one step of the issue's rows may do to them.
LEMMA IssueRowKept ==
  ASSUME issue \in IssueRow, IssueStep
  PROVE  issue' \in IssueRow
<1> USE DEF IssueRow
<1>1. CASE Park
  BY <1>1 DEF Park
<1>2. CASE Resume
  BY <1>2 DEF Resume
<1>3. CASE Synthesize
  BY <1>3 DEF Synthesize
<1>4. ASSUME NEW a \in Agent, StartRun(a)
      PROVE  issue' \in IssueRow
  BY <1>4 DEF StartRun, SetRun, RunStatus
<1>5. ASSUME NEW a \in Agent, Complete(a)
      PROVE  issue' \in IssueRow
  <2> DEFINE done == [issue EXCEPT !.run = SetRun(a, "completed")]
  <2>1. done \in IssueRow
    BY DEF SetRun, RunStatus
  <2>2. /\ Advanced(done.status, "in_progress") \in FindingStatus \ {"passed"}
        /\ Advanced(done.status, "remediated") \in FindingStatus \ {"passed"}
        /\ Advanced(done.status, "validated") \in FindingStatus \ {"passed"}
    BY <2>1, AdvancedIsForward DEF FindingStatus
  <2>3. \/ issue' = [done EXCEPT !.verdict = TRUE]
        \/ issue' = [done EXCEPT !.plan = TRUE, !.status = Advanced(@, "in_progress")]
        \/ \E s \in PrStatus \ {"none"}, branch \in BOOLEAN :
              issue' = [done EXCEPT
                   !.pr = [status |-> s, branch |-> branch, url |-> s = "pr_created"],
                   !.status = IF s = "pr_created" THEN Advanced(@, "remediated") ELSE @]
        \/ \E fixed \in BOOLEAN :
              issue' = [done EXCEPT !.status = IF fixed THEN Advanced(@, "validated") ELSE @]
        \/ issue' = done
    BY <1>5 DEF Complete
  <2> HIDE DEF done
  <2>4. ASSUME NEW s \in PrStatus \ {"none"}, NEW branch \in BOOLEAN,
               issue' = [done EXCEPT
                   !.pr = [status |-> s, branch |-> branch, url |-> s = "pr_created"],
                   !.status = IF s = "pr_created" THEN Advanced(@, "remediated") ELSE @]
        PROVE  issue' \in IssueRow
    BY <2>1, <2>2, <2>4
  <2>5. CASE issue' = [done EXCEPT !.plan = TRUE, !.status = Advanced(@, "in_progress")]
    BY <2>1, <2>2, <2>5
  <2>6. ASSUME NEW fixed \in BOOLEAN,
               issue' = [done EXCEPT !.status = IF fixed THEN Advanced(@, "validated") ELSE @]
        PROVE  issue' \in IssueRow
    BY <2>1, <2>2, <2>6
  <2>7. CASE issue' = [done EXCEPT !.verdict = TRUE] \/ issue' = done
    BY <2>1, <2>7
  <2>8. QED
    BY <2>3, <2>4, <2>5, <2>6, <2>7
<1>6. ASSUME NEW a \in Agent, EndBadly(a)
      PROVE  issue' \in IssueRow
  <2>1. PICK s \in {"failed", "rate_limited", "cancelled"} :
          issue' = [issue EXCEPT !.run = SetRun(a, s), !.parked = FALSE]
    BY <1>6 DEF EndBadly
  <2>2. SetRun(a, s) \in [Agent -> RunStatus]
    BY DEF SetRun, RunStatus
  <2>3. QED
    BY <2>1, <2>2
<1>7. ASSUME NEW start \in BOOLEAN, OpenWorkspace(start)
      PROVE  issue' \in IssueRow
  BY <1>7 DEF OpenWorkspace, FindingStatus
<1>8. CASE UserAccepts
  BY <1>8 DEF UserAccepts, FindingStatus
<1>9. CASE UserRejects
  BY <1>9 DEF UserRejects, FindingStatus
<1>10. CASE UserResolves
  BY <1>10 DEF UserResolves, FindingStatus
<1>11. CASE UserReopens
  BY <1>11 DEF UserReopens, FindingStatus
<1>12. QED
  BY <1>1, <1>2, <1>3, <1>4, <1>5, <1>6, <1>7, <1>8, <1>9, <1>10, <1>11
     DEF IssueStep, AgentStep

LEMMA BoardInvInit == BoardInit => BoardInv
BY DayIsNat DEF BoardInit, BoardInv, IssueInit, NewIssue, IssueRow, FindingStatus, RunStatus,
     NoPr, PrStatus

LEMMA BoardInvKept == BoardInv /\ [BoardNext]_boardVars => BoardInv'
<1> SUFFICES ASSUME BoardInv, [BoardNext]_boardVars PROVE BoardInv'
  OBVIOUS
<1> USE DEF BoardInv
<1>1. CASE Assess
  <2>1. Changed[evidence] \subseteq EvidenceSpace
    BY DEF Changed
  <2>2. QED
    BY <1>1, <2>1 DEF Assess
<1>2. CASE IssueMoves
  BY <1>2, IssueRowKept DEF IssueMoves
<1>3. CASE NextDay
  BY <1>3, DayIsNat DEF NextDay
<1>4. CASE UNCHANGED boardVars
  BY <1>4 DEF boardVars
<1>5. QED
  BY <1>1, <1>2, <1>3, <1>4 DEF BoardNext

\* Whatever scans, agents and the user do, the issue's rows, the evidence and the dates keep
\* the values the pages are written for; in particular the issue never has the status "passed".
THEOREM BoardInvariance == BoardSpec => []BoardInv
BY BoardInvInit, BoardInvKept, PTL DEF BoardSpec

\* Every page is computed from values it knows, and derive() answers one of the four sections.
THEOREM BoardTypeCorrect == BoardSpec => []BoardTypeOK
<1>1. ASSUME BoardInv PROVE BoardTypeOK
  <2>1. Derive(issue).section \in {"todo", "in_progress", "review", "done"}
    BY DEF Derive, DeriveInProgress, DeriveNew, Shown
  <2>2. NeedsYou \in {"plans_waiting", "prs_ready", "critical_todo", "nothing"}
    BY DEF NeedsYou
  <2>3. QED
    BY <1>1, <2>1, <2>2, EvidenceIsSeen DEF BoardInv, BoardTypeOK, IssueRow
<1>2. QED
  BY <1>1, BoardInvariance, PTL

-----------------------------------------------------------------------------
(* The views. *)

\* Only the three advisory checks ever answer "advisory".
LEMMA AdvisoryByName ==
  ASSUME NEW e \in Evidence, NEW c \in DOMAIN Results(e), Results(e)[c] = "advisory"
  PROVE  c \in AdvisoryChecks
<1> USE DEF Results, PassIf
<1>1. c \in {"branch_protection", "no_force_pushes", "no_secrets_in_code", "security_md",
             "lockfile_present", "dependabot_config", "signed_commits", "code_owners_exists",
             "secret_scanning_enabled", "actions_pinned_to_sha", "trusted_action_sources",
             "workflow_trigger_scope", "stale_collaborators", "broad_team_permissions",
             "default_branch_permissions"}
  OBVIOUS
<1>2. BranchProtection(e) # "advisory" /\ NoForcePushes(e) # "advisory"
  BY DEF BranchProtection, NoForcePushes
<1>3. DefaultBranchPermissions(e) # "advisory"
  BY <1>2 DEF DefaultBranchPermissions
<1>4. /\ NoSecretsInCode(e) # "advisory" /\ SecurityMd(e) # "advisory"
      /\ LockfilePresent(e) # "advisory" /\ Dependabot(e) # "advisory"
      /\ CodeOwners(e) # "advisory"
  BY DEF NoSecretsInCode, SecurityMd, LockfilePresent, Dependabot, CodeOwners
<1>5. /\ SecretScanning(e) # "advisory" /\ PinnedActions(e) # "advisory"
      /\ TrustedActions(e) # "advisory" /\ StaleCollaborators(e) # "advisory"
  BY DEF SecretScanning, PinnedActions, TrustedActions, StaleCollaborators
<1>6. QED
  BY <1>1, <1>2, <1>3, <1>4, <1>5 DEF AdvisoryChecks

\* The card's counters, by the checks' names, are the payload's, by the rows' grade impact.
LEMMA CardAgrees ==
  ASSUME evidence \in Evidence
  PROVE  CardCounts = PayloadCounts
<1> DEFINE results == Results(evidence)
           rows == Rows
           counting == {c \in DOMAIN rows : rows[c].impact = "counts"}
<1>1. DOMAIN rows = {d \in DOMAIN results : results[d] # "unknown"}
  BY DEF Rows, PostureRows
<1>2. ASSUME NEW c \in DOMAIN rows
      PROVE  /\ rows[c].impact = IF c \in AdvisoryChecks THEN "advisory" ELSE "counts"
             /\ Wire(rows[c]) = "pass" <=> rows[c].impact = "counts" /\ rows[c].status = "passed"
  <2>1. rows[c] = [status |-> IF results[c] = "pass" THEN "passed" ELSE "new",
                   impact |-> IF c \in AdvisoryChecks \/ results[c] = "advisory"
                                THEN "advisory" ELSE "counts"]
    BY <1>1 DEF Rows, PostureRows
  <2>2. results[c] = "advisory" => c \in AdvisoryChecks
    BY <1>1, AdvisoryByName
  <2> HIDE DEF rows, results
  <2>3. QED
    BY <2>1, <2>2 DEF Wire
<1> HIDE DEF rows
<1>3. counting = DOMAIN rows \ AdvisoryChecks
  BY <1>2
<1>4. {c \in DOMAIN rows : Wire(rows[c]) = "pass"} = {c \in counting : rows[c].status = "passed"}
  BY <1>2
<1>5. CardCounts = <<Cardinality(DOMAIN rows \ AdvisoryChecks),
                     Cardinality({c \in DOMAIN rows : Wire(rows[c]) = "pass"})>>
  BY DEF CardCounts, rows
<1>6. PayloadCounts = <<Cardinality(counting), Cardinality({c \in counting : rows[c].status = "passed"})>>
  BY DEF PayloadCounts, rows
<1>7. QED
  BY <1>3, <1>4, <1>5, <1>6

\* The Issues page's "done" is the three settled statuses.
LEMMA DoneIsSettled ==
  ASSUME NEW i \in IssueRow
  PROVE  Derive(i).section = "done" <=> i.status \in {"exception", "validated", "closed"}
BY DEF Derive, DeriveInProgress, DeriveNew, Shown, IssueRow, FindingStatus

\* The posture card and the payload count the same checks, and the findings card, the trend
\* chart and the "done" section of the Issues page agree on whether the finding is open.
THEOREM TheViewsAgree == BoardSpec => []ViewsAgree
<1>1. ASSUME BoardInv PROVE ViewsAgree
  <2>1. CardCounts = PayloadCounts
    BY <1>1, CardAgrees, EvidenceIsSeen DEF BoardInv
  <2>2. OpenIssues[day] <=> issue.status \notin TerminalStatuses
    <3>1. day \in 0..day /\ updated <= day
      BY <1>1, DayIsNat DEF BoardInv
    <3>2. OpenIssues[day] = OpenOn(day)
      BY <3>1, Zenon DEF OpenIssues
    <3>3. QED
      BY <3>1, <3>2 DEF OpenOn
  <2>3. issue.status \in FindingStatus \ {"passed"}
    BY <1>1 DEF BoardInv, IssueRow
  <2>4. OpenIssues[day] <=> Derive(issue).section # "done"
    BY <1>1, <2>2, <2>3, DoneIsSettled DEF BoardInv, TerminalStatuses
  <2>5. InScope => (IsOpen <=> OpenIssues[day])
    BY <2>2, <2>3 DEF IsOpen, OpenStatuses, TerminalStatuses, FindingStatus
  <2>6. QED
    BY <2>1, <2>4, <2>5 DEF ViewsAgree
<1>2. QED
  BY <1>1, BoardInvariance, PTL

-----------------------------------------------------------------------------
(* The grade. *)

\* An element more makes a set at most one larger.
LEMMA AddOne ==
  ASSUME NEW S, NEW x, NEW n \in Nat, IsFiniteSet(S), Cardinality(S) <= n
  PROVE  IsFiniteSet(S \cup {x}) /\ Cardinality(S \cup {x}) <= n + 1
<1>1. Cardinality(S) \in Nat
  BY FS_CardinalityType
<1>2. /\ IsFiniteSet(S \cup {x})
      /\ Cardinality(S \cup {x}) = IF x \in S THEN Cardinality(S) ELSE Cardinality(S) + 1
  BY FS_AddElement, Zenon
<1>3. QED
  BY <1>1, <1>2

\* An element that was not there makes it exactly one larger.
LEMMA OneMore ==
  ASSUME NEW S, NEW x, IsFiniteSet(S), x \notin S
  PROVE  IsFiniteSet(S \cup {x}) /\ Cardinality(S \cup {x}) = Cardinality(S) + 1
BY FS_AddElement, Zenon

\* There are ten criteria; without the critical one, nine.
LEMMA TenCriteria ==
  /\ IsFiniteSet(Criteria) /\ Cardinality(Criteria) = 10
  /\ Cardinality(Criteria \ {"no_critical_vulns"}) = 9
<1> DEFINE S1 == {} \cup {"security_md"}
           S2 == S1 \cup {"dependabot_config"}
           S3 == S2 \cup {"branch_protection"}
           S4 == S3 \cup {"no_secrets_in_code"}
           S5 == S4 \cup {"actions_pinned_to_sha"}
           S6 == S5 \cup {"stale_collaborators"}
           S7 == S6 \cup {"code_owners_exists"}
           S8 == S7 \cup {"secret_scanning_enabled"}
           S9 == S8 \cup {"no_high_vulns"}
<1>1. Criteria = S9 \cup {"no_critical_vulns"} /\ Criteria \ {"no_critical_vulns"} = S9
  BY DEF Criteria, PostureCriteria
<1>2. /\ "dependabot_config" \notin S1 /\ "branch_protection" \notin S2
      /\ "no_secrets_in_code" \notin S3 /\ "actions_pinned_to_sha" \notin S4
      /\ "stale_collaborators" \notin S5 /\ "code_owners_exists" \notin S6
      /\ "secret_scanning_enabled" \notin S7 /\ "no_high_vulns" \notin S8
      /\ "no_critical_vulns" \notin S9
  OBVIOUS
<1> HIDE DEF S1, S2, S3, S4, S5, S6, S7, S8, S9
<1>3. IsFiniteSet({}) /\ Cardinality({}) = 0
  BY FS_EmptySet
<1>4. IsFiniteSet(S1) /\ Cardinality(S1) = 1
  <2>1. S1 = {"security_md"}
    BY DEF S1
  <2>2. QED
    BY <2>1, FS_Singleton
<1>5. IsFiniteSet(S2) /\ Cardinality(S2) = 2
  BY <1>2, <1>4, OneMore DEF S2
<1>6. IsFiniteSet(S3) /\ Cardinality(S3) = 3
  BY <1>2, <1>5, OneMore DEF S3
<1>7. IsFiniteSet(S4) /\ Cardinality(S4) = 4
  BY <1>2, <1>6, OneMore DEF S4
<1>8. IsFiniteSet(S5) /\ Cardinality(S5) = 5
  BY <1>2, <1>7, OneMore DEF S5
<1>9. IsFiniteSet(S6) /\ Cardinality(S6) = 6
  BY <1>2, <1>8, OneMore DEF S6
<1>10. IsFiniteSet(S7) /\ Cardinality(S7) = 7
  BY <1>2, <1>9, OneMore DEF S7
<1>11. IsFiniteSet(S8) /\ Cardinality(S8) = 8
  BY <1>2, <1>10, OneMore DEF S8
<1>12. IsFiniteSet(S9) /\ Cardinality(S9) = 9
  BY <1>2, <1>11, OneMore DEF S9
<1>13. /\ IsFiniteSet(S9 \cup {"no_critical_vulns"})
       /\ Cardinality(S9 \cup {"no_critical_vulns"}) = Cardinality(S9) + 1
  BY <1>2, <1>12, OneMore, Zenon
<1>14. QED
  BY <1>1, <1>12, <1>13

\* An unmet critical criterion keeps the grade below "A".
LEMMA CriticalBelowA ==
  ASSUME NEW e \in Evidence, "critical" \in e.severities
  PROVE  /\ "no_critical_vulns" \notin Met(Snapshot(e))
         /\ Grade(Snapshot(e)) # "A"
<1>1. "no_critical_vulns" \in Criteria
  BY DEF Criteria
<1>2. Snapshot(e)["no_critical_vulns"] = "unmet"
  BY <1>1 DEF Snapshot, MetIf
<1>3. Met(Snapshot(e)) \subseteq Criteria \ {"no_critical_vulns"}
  BY <1>2 DEF Met
<1>4. MetCount(Snapshot(e)) \in Nat /\ MetCount(Snapshot(e)) <= 9
  <2>1. IsFiniteSet(Criteria \ {"no_critical_vulns"})
    BY TenCriteria, FS_Subset
  <2>2. QED
    BY <1>3, <2>1, TenCriteria, FS_Subset, FS_CardinalityType DEF MetCount
<1>5. MetCount(Snapshot(e)) # 10
  BY <1>4
<1>6. QED
  BY <1>3, <1>5 DEF Grade

\* An open critical finding of the latest assessment has its gate in the level-up panel.
THEOREM CriticalsAreShown == BoardSpec => []CriticalIsNeverHidden
<1>1. ASSUME BoardInv PROVE CriticalIsNeverHidden
  <2> SUFFICES ASSUME IsOpen, finding.severity = "critical"
               PROVE  \E g \in Gates : g.id = "criticals_open"
    BY DEF CriticalIsNeverHidden
  <2>1. /\ "no_critical_vulns" \notin Met(Snapshot(evidence))
        /\ Level # "A"
    BY <1>1, CriticalBelowA, EvidenceIsSeen DEF BoardInv, IsOpen, InScope, Level
  <2>2. [id |-> "criticals_open", status |-> GateStatus] \in CriticalGate(Met(Snapshot(evidence)))
    BY <2>1 DEF CriticalGate, Gate
  <2>3. CriticalGate(Met(Snapshot(evidence))) \subseteq Gates
    BY <2>1 DEF Gates
  <2>4. QED
    BY <2>2, <2>3
<1>2. QED
  BY <1>1, BoardInvariance, PTL

\* The grade "A" is for all ten criteria met: neither an unknown answer nor a vulnerability
\* of unknown severity is good enough.
THEOREM AIsForEverything ==
  BoardSpec => [](Level = "A" <=> \A c \in Criteria : Snapshot(evidence)[c] = "met")
<1>1. Level = "A" <=> \A c \in Criteria : Snapshot(evidence)[c] = "met"
  <2> DEFINE met == Met(Snapshot(evidence))
  <2>1. met \subseteq Criteria
    BY DEF Met
  <2>2. Cardinality(met) = 10 <=> met = Criteria
    BY <2>1, TenCriteria, FS_Subset
  <2>3. Level = "A" <=> Cardinality(met) = 10
    BY DEF Level, Grade, MetCount
  <2>4. QED
    BY <2>2, <2>3 DEF Met
<1>2. QED
  BY <1>1, PTL

\* A set of one element at most makes another one larger at most.
LEMMA AddAtMostOne ==
  ASSUME NEW S, NEW T, NEW x, T = {} \/ T = {x}, NEW n \in Nat,
         IsFiniteSet(S), Cardinality(S) <= n
  PROVE  IsFiniteSet(S \cup T) /\ Cardinality(S \cup T) <= n + 1
<1>1. CASE T = {x}
  BY <1>1, AddOne
<1>2. CASE T = {}
  <2>1. S \cup T = S
    BY <1>2
  <2>2. Cardinality(S) \in Nat
    BY FS_CardinalityType
  <2>3. QED
    BY <2>1, <2>2
<1>3. QED
  BY <1>1, <1>2

\* The level-up panel never has more than four gates, so that the cap derive_level_up ends in
\* cuts none of them: no open critical drops out of the panel for being the most expensive.
THEOREM CapCutsNoGate == BoardSpec => [](IsFiniteSet(Gates) /\ Cardinality(Gates) <= 4)
<1>1. IsFiniteSet(Gates) /\ Cardinality(Gates) <= 4
  <2> DEFINE met == Met(Snapshot(evidence))
             G1 == {} \cup CriticalGate(met)
             G2 == G1 \cup HighGate(met)
             G3 == G2 \cup SecretGate(met)
             G4 == G3 \cup PostureGate(UnmetPosture)
  <2>1. Gates = {} \/ Gates = G4
    BY DEF Gates
  <2>2. IsFiniteSet({}) /\ Cardinality({}) = 0 /\ Cardinality({}) <= 0
    BY FS_EmptySet
  <2> HIDE DEF met, G1, G2, G3, G4
  <2>3. IsFiniteSet(G1) /\ Cardinality(G1) <= 1
    <3>1. PICK x : CriticalGate(met) = {} \/ CriticalGate(met) = {x}
      BY DEF CriticalGate, Gate
    <3>2. IsFiniteSet(G1) /\ Cardinality(G1) <= 0 + 1
      BY <2>2, <3>1, AddAtMostOne, 0 \in Nat DEF G1
    <3>3. QED
      BY <3>2
  <2>4. IsFiniteSet(G2) /\ Cardinality(G2) <= 2
    <3>1. PICK x : HighGate(met) = {} \/ HighGate(met) = {x}
      BY DEF HighGate, Gate
    <3>2. IsFiniteSet(G2) /\ Cardinality(G2) <= 1 + 1
      BY <2>3, <3>1, AddAtMostOne, 1 \in Nat DEF G2
    <3>3. QED
      BY <3>2
  <2>5. IsFiniteSet(G3) /\ Cardinality(G3) <= 3
    <3>1. PICK x : SecretGate(met) = {} \/ SecretGate(met) = {x}
      BY DEF SecretGate, Gate
    <3>2. IsFiniteSet(G3) /\ Cardinality(G3) <= 2 + 1
      BY <2>4, <3>1, AddAtMostOne, 2 \in Nat DEF G3
    <3>3. QED
      BY <3>2
  <2>6. IsFiniteSet(G4) /\ Cardinality(G4) <= 4
    <3>1. PICK x : PostureGate(UnmetPosture) = {} \/ PostureGate(UnmetPosture) = {x}
      BY DEF PostureGate, Gate
    <3>2. IsFiniteSet(G4) /\ Cardinality(G4) <= 3 + 1
      BY <2>5, <3>1, AddAtMostOne, 3 \in Nat DEF G4
    <3>3. QED
      BY <3>2
  <2>7. QED
    BY <2>1, <2>2, <2>6
<1>2. QED
  BY <1>1, PTL

-----------------------------------------------------------------------------
(* Failures and decisions. *)

\* An issue whose triage or remediation failed, with nothing running and nothing produced,
\* is shown in "review" as failed.
THEOREM FailuresAreShown == BoardSpec => []FailureIsShown
<1>1. ASSUME BoardInv PROVE FailureIsShown
  <2> DEFINE failed(agents) == \E a \in agents \cap Agent : issue.run[a] \in {"failed", "rate_limited"}
  <2>1. ~ SomeRunning(issue, Agent) =>
          /\ ~ SomeRunning(issue, TriageAgents)
          /\ ~ Running(issue, "remediation_executor")
    BY PipelineAgents DEF SomeRunning
  <2>2. ASSUME issue.status = "new", ~ SomeRunning(issue, Agent), ~ issue.verdict, failed(TriageAgents)
        PROVE  Derive(issue) = Shown("review", "failed")
    <3>1. SomeFailed(issue, TriageAgents)
      BY <2>2 DEF SomeFailed, Failed
    <3>2. QED
      BY <2>1, <2>2, <3>1 DEF Derive, DeriveNew
  <2>3. ASSUME issue.status = "in_progress", ~ SomeRunning(issue, Agent), ~ issue.plan,
               issue.pr = NoPr,
               failed(PrerequisiteAgents \cup {"remediation_planner", "remediation_executor"})
        PROVE  Derive(issue) = Shown("review", "failed")
    <3>1. \/ Failed(issue, "remediation_executor")
          \/ Failed(issue, "remediation_planner")
          \/ SomeFailed(issue, PrerequisiteAgents)
      BY <2>3 DEF SomeFailed, Failed
    <3>2. issue.pr.url = FALSE /\ issue.pr.branch = FALSE /\ issue.pr.status = "none"
      BY <2>3 DEF NoPr
    <3>3. DeriveInProgress(issue) = Shown("review", "failed")
      BY <2>1, <2>3, <3>1, <3>2 DEF DeriveInProgress
    <3>4. QED
      BY <2>3, <3>3 DEF Derive
  <2>4. QED
    BY <2>2, <2>3 DEF FailureIsShown
<1>2. QED
  BY <1>1, BoardInvariance, PTL

\* A check that cannot be answered any more is no criterion met.
LEMMA MetShrinks ==
  ASSUME NEW e \in Evidence, NEW f, Blinded(e, f)
  PROVE  Met(Snapshot(f)) \subseteq Met(Snapshot(e))
<1>1. ASSUME NEW g
      PROVE  /\ Snapshot(g)["no_critical_vulns"] = MetIf(g.severities \cap {"critical", "unknown"} = {})
             /\ Snapshot(g)["no_high_vulns"] = MetIf(g.severities = {})
             /\ \A c \in PostureCriteria : Snapshot(g)[c] = TriState(Results(g)[c])
  BY DEF Snapshot, Criteria, PostureCriteria
<1>2. ASSUME NEW g
      PROVE  /\ Results(g)["security_md"] = SecurityMd(g)
             /\ Results(g)["dependabot_config"] = Dependabot(g)
             /\ Results(g)["branch_protection"] = BranchProtection(g)
             /\ Results(g)["no_secrets_in_code"] = NoSecretsInCode(g)
             /\ Results(g)["actions_pinned_to_sha"] = PinnedActions(g)
             /\ Results(g)["stale_collaborators"] = StaleCollaborators(g)
             /\ Results(g)["code_owners_exists"] = CodeOwners(g)
             /\ Results(g)["secret_scanning_enabled"] = SecretScanning(g)
  BY DEF Results
<1>3. /\ f.files = e.files /\ f.workflows = e.workflows /\ f.severities = e.severities
      /\ f.active = e.active
      /\ f.protection = e.protection \/ f.protection = "unable"
      /\ f.info = e.info \/ f.info = "unable"
      /\ f.listed = e.listed \/ f.listed = FALSE
  BY DEF Blinded, Evidence
<1>4. /\ SecurityMd(f) = SecurityMd(e) /\ Dependabot(f) = Dependabot(e)
      /\ NoSecretsInCode(f) = NoSecretsInCode(e) /\ CodeOwners(f) = CodeOwners(e)
      /\ PinnedActions(f) = PinnedActions(e)
  BY <1>3 DEF SecurityMd, Dependabot, NoSecretsInCode, CodeOwners, PinnedActions
<1>5. /\ BranchProtection(f) \in {BranchProtection(e), "unknown"}
      /\ StaleCollaborators(f) \in {StaleCollaborators(e), "unknown"}
      /\ SecretScanning(f) \in {SecretScanning(e), "unknown"}
  BY <1>3 DEF BranchProtection, StaleCollaborators, SecretScanning
<1>6. ASSUME NEW c \in PostureCriteria PROVE Results(f)[c] \in {Results(e)[c], "unknown"}
  BY <1>2, <1>4, <1>5 DEF PostureCriteria
<1>7. ASSUME NEW c \in PostureCriteria, Snapshot(f)[c] = "met" PROVE Snapshot(e)[c] = "met"
  BY <1>1, <1>6, <1>7 DEF TriState
<1>8. /\ Snapshot(f)["no_critical_vulns"] = Snapshot(e)["no_critical_vulns"]
      /\ Snapshot(f)["no_high_vulns"] = Snapshot(e)["no_high_vulns"]
  BY <1>1, <1>3
<1>9. QED
  BY <1>7, <1>8 DEF Met, Criteria

\* An answer of GitHub that falls out of sight never raises the number of criteria met.
THEOREM BlindnessIsNoMerit == BoardSpec => LosingSightNeverHelps
<1>1. ASSUME BoardInv, [BoardNext]_boardVars, Blinded(evidence, evidence')
      PROVE  MetCount(Snapshot(evidence)') <= MetCount(Snapshot(evidence))
  <2>1. Met(Snapshot(evidence')) \subseteq Met(Snapshot(evidence))
    BY <1>1, MetShrinks, EvidenceIsSeen DEF BoardInv
  <2>2. IsFiniteSet(Met(Snapshot(evidence)))
    BY TenCriteria, FS_Subset DEF Met
  <2>3. MetCount(Snapshot(evidence')) <= MetCount(Snapshot(evidence))
    BY <2>1, <2>2, FS_Subset DEF MetCount
  <2>4. QED
    BY <2>3
<1>2. QED
  BY <1>1, BoardInvariance, PTL DEF BoardSpec, LosingSightNeverHelps

\* What is settled an agent leaves as it is.
LEMMA AgentsLeaveTheSettled ==
  ASSUME issue \in IssueRow, issue.status \in {"exception", "validated", "closed"}, AgentStep
  PROVE  issue'.status = issue.status
<1> USE DEF IssueRow
<1>1. CASE Park \/ Resume \/ Synthesize
  BY <1>1 DEF Park, Resume, Synthesize
<1>2. ASSUME NEW a \in Agent, StartRun(a) \/ EndBadly(a)
      PROVE  issue'.status = issue.status
  BY <1>2 DEF StartRun, EndBadly
<1>3. ASSUME NEW a \in Agent, Complete(a)
      PROVE  issue'.status = issue.status
  <2>1. \A t \in {"in_progress", "remediated", "validated"} : Advanced(issue.status, t) = issue.status
    BY AdvancedIsForward
  <2>2. QED
    BY <1>3, <2>1 DEF Complete
<1>4. QED
  BY <1>1, <1>2, <1>3 DEF AgentStep

\* No step of an agent takes an issue out of "done".
THEOREM DecisionsStand == BoardSpec => DecisionStands
<1>1. ASSUME BoardInv, [BoardNext]_boardVars
      PROVE  Derive(issue).section = "done" /\ Derive(issue').section # "done" => ~ AgentStep
  <2>1. issue \in IssueRow /\ issue' \in IssueRow
    BY <1>1, BoardInvKept DEF BoardInv
  <2>2. QED
    BY <2>1, DoneIsSettled, AgentsLeaveTheSettled
<1>2. QED
  BY <1>1, BoardInvariance, PTL DEF BoardSpec, DecisionStands
=============================================================================
