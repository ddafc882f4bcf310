------------------------ MODULE AgentExecutor_proofs ------------------------
(***************************************************************************)
(* The safety of AgentExecutor for every set of rows, tasks and agents.    *)
(* IInv is the inductive invariant: what a task's pc says of its run, its  *)
(* verdict and its answer.  Then, of AiConnect, the key and the model a    *)
(* run is given: for every set of rows, requests, sessions and providers.  *)
(***************************************************************************)
EXTENDS AgentExecutor, AiConnect, TLAPS

\* A task holds a run id exactly from the INSERT, or from a permission request.
HoldsRun(t) == pc[t] \in Owning \cup {"resume_requested"}

RunsExist ==
  /\ \A t \in Task : HoldsRun(t) => run[t] \in Run /\ status[run[t]] # "absent"
  /\ \A r \in Run : parked[r] => status[r] # "absent"
  /\ \A r \in cancelling : status[r] # "absent"

\* Nothing of the process survives a crash but the rows.
DownIsIdle == server = "down" => (\A t \in Task : pc[t] = "idle") /\ cancelling = {}

\* Past verification a task holds a verified answer, and its stores are written in order.
Persisting == {"persist", "sidebar", "read_finding", "write_finding"}
FinalizeOrder ==
  \A t \in Task :
    /\ pc[t] \in Persisting => verdict[t] = "completed" /\ answer[t] # "pr_bogus"
    /\ pc[t] \in {"sidebar", "read_finding", "write_finding"} => run[t] \in logged
    /\ pc[t] \in {"read_finding", "write_finding"} => run[t] \in mirrored
    /\ pc[t] = "write_finding" => AdvanceTarget(agent[run[t]], answer[t]) # "none"
    /\ pc[t] = "close" /\ verdict[t] = "completed" => run[t] \in logged /\ run[t] \in mirrored
    /\ pc[t] = "fail" => verdict[t] # "completed"
    /\ pc[t] \in {"close", "fail"} => verdict[t] \notin {"absent", "running"}

IInv ==
  /\ TypeOK
  /\ RunsExist
  /\ DownIsIdle
  /\ FinalizeOrder
  /\ NoWedgedRun
  /\ CompletedIsPersisted
  /\ NoHallucinatedPr

-----------------------------------------------------------------------------
LEMMA AdvanceTargetType ==
  ASSUME NEW a, NEW ans
  PROVE  AdvanceTarget(a, ans) \in FindingStatus \cup {"none"}
BY DEF AdvanceTarget, FindingStatus

LEMMA AnswersType ==
  ASSUME NEW a
  PROVE  AnswersOf(a) \subseteq Answer \ {"none"}
BY DEF AnswersOf, Answer

LEMMA InitIInv == Init => IInv
BY NoRunIsNoRun
   DEF Init, IInv, TypeOK, RunsExist, HoldsRun, DownIsIdle, FinalizeOrder, NoWedgedRun,
       CompletedIsPersisted, NoHallucinatedPr, RowStatus, PcSet, Owning, Persisting, Answer,
       PrUrl, FindingStatus

-----------------------------------------------------------------------------
(* Type correctness of each step. *)

LEMMA TypeStep == IInv /\ [Next]_vars => TypeOK'
<1> SUFFICES ASSUME IInv, [Next]_vars PROVE TypeOK'
  OBVIOUS
<1>a. TypeOK /\ FinalizeOrder
  BY DEF IInv
<1>b. \A t \in Task : pc[t] \in Owning => run[t] \in Run
  BY DEF IInv, RunsExist, HoldsRun
<1> USE DEF TypeOK, rows, locals, outputs, Goto, EndTask, PcSet, Owning, RowStatus
<1>1. ASSUME NEW t \in Task, Execute(t) PROVE TypeOK'
  <2>1. CASE CheckNotBusy(t)
    BY <2>1, <1>a DEF CheckNotBusy
  <2>2. CASE CreateAgentRun(t)
    BY <2>2, <1>a DEF CreateAgentRun
  <2>3. CASE StartWork(t)
    BY <2>3, <1>a DEF StartWork
  <2>4. CASE ModelAnswers(t)
    BY <2>4, <1>a, AnswersType DEF ModelAnswers
  <2>5. CASE ParkForPermission(t)
    BY <2>5, <1>a DEF ParkForPermission, Answer, PrUrl
  <2>6. QED
    BY <1>1, <2>1, <2>2, <2>3, <2>4, <2>5 DEF Execute
<1>2. ASSUME NEW t \in Task, Finalize(t) PROVE TypeOK'
  <2>1. CASE VerifyPrUrl(t)
    BY <2>1, <1>a DEF VerifyPrUrl
  <2>2. CASE UpdateContext(t)
    BY <2>2, <1>a, <1>b DEF UpdateContext
  <2>3. CASE MapAndUpsert(t)
    BY <2>3, <1>a, <1>b DEF MapAndUpsert
  <2>4. CASE ReadFinding(t)
    BY <2>4, <1>a DEF ReadFinding, Answer
  <2>5. CASE WriteFinding(t)
    <3>1. AdvanceTarget(agent[run[t]], answer[t]) \in FindingStatus
      BY <2>5, <1>a, AdvanceTargetType DEF WriteFinding, FinalizeOrder
    <3>2. finding' \in [status : FindingStatus, pr_url : PrUrl]
      BY <2>5, <3>1, <1>a DEF WriteFinding, PrUrl
    <3>3. QED
      BY <2>5, <3>2, <1>a DEF WriteFinding, Answer, PrUrl
  <2>6. CASE CloseRun(t)
    BY <2>6, <1>a DEF CloseRun, Answer, PrUrl
  <2>7. CASE Raise(t)
    BY <2>7, <1>a DEF Raise
  <2>8. CASE FailRun(t)
    BY <2>8, <1>a DEF FailRun, Answer, PrUrl
  <2>9. QED
    BY <1>2, <2>1, <2>2, <2>3, <2>4, <2>5, <2>6, <2>7, <2>8 DEF Finalize
<1>3. ASSUME NEW t \in Task, Resume(t) PROVE TypeOK'
  <2>1. CASE ResumeRead(t)
    BY <2>1, <1>a DEF ResumeRead, Answer, PrUrl
  <2>2. CASE ResumeReadHistory(t)
    BY <2>2, <1>a DEF ResumeReadHistory
  <2>3. CASE ResumeClear(t)
    BY <2>3, <1>a DEF ResumeClear
  <2>4. QED
    BY <1>3, <2>1, <2>2, <2>3 DEF Resume
<1>4. CASE User
  <2>1. ASSUME NEW t \in Task, RequestExecute(t) \/ RespondToPermission(t) PROVE TypeOK'
    BY <2>1, <1>a DEF RequestExecute, RespondToPermission
  <2>2. ASSUME NEW r \in Run, CancelCheck(r) \/ CancelWrite(r) PROVE TypeOK'
    BY <2>2, <1>a DEF CancelCheck, CancelWrite
  <2>3. CASE PatchFinding
    BY <2>3, <1>a, UserPatches DEF PatchFinding, PrUrl
  <2>4. QED
    BY <1>4, <2>1, <2>2, <2>3 DEF User
<1>5. CASE Crash
  BY <1>5, <1>a DEF Crash, Answer, PrUrl
<1>6. CASE Boot
  BY <1>6, <1>a DEF Boot
<1>7. CASE UNCHANGED vars
  BY <1>7, <1>a DEF vars
<1>8. QED
  BY <1>1, <1>2, <1>3, <1>4, <1>5, <1>6, <1>7 DEF Next, TaskStep

-----------------------------------------------------------------------------
(* The other conjuncts, one lemma each. *)

LEMMA RunsExistStep == IInv /\ [Next]_vars => RunsExist'
<1> SUFFICES ASSUME IInv, [Next]_vars PROVE RunsExist'
  OBVIOUS
<1>a. TypeOK /\ RunsExist /\ DownIsIdle /\ FinalizeOrder /\ NoWedgedRun /\ CompletedIsPersisted
      /\ NoHallucinatedPr
  BY DEF IInv
<1> USE <1>a DEF TypeOK, rows, locals, outputs, Goto, EndTask, Owning, RunsExist, HoldsRun
<1>1. ASSUME NEW t \in Task, CheckNotBusy(t) PROVE RunsExist'
  BY <1>1 DEF CheckNotBusy
<1>2. ASSUME NEW t \in Task, CreateAgentRun(t) PROVE RunsExist'
  BY <1>2 DEF CreateAgentRun
<1>3. ASSUME NEW t \in Task, StartWork(t) PROVE RunsExist'
  BY <1>3 DEF StartWork
<1>4. ASSUME NEW t \in Task, ModelAnswers(t) PROVE RunsExist'
  BY <1>4 DEF ModelAnswers
<1>5. ASSUME NEW t \in Task, ParkForPermission(t) PROVE RunsExist'
  BY <1>5 DEF ParkForPermission
<1>6. ASSUME NEW t \in Task, VerifyPrUrl(t) PROVE RunsExist'
  BY <1>6 DEF VerifyPrUrl
<1>7. ASSUME NEW t \in Task, UpdateContext(t) PROVE RunsExist'
  BY <1>7 DEF UpdateContext
<1>8. ASSUME NEW t \in Task, MapAndUpsert(t) PROVE RunsExist'
  BY <1>8 DEF MapAndUpsert
<1>9. ASSUME NEW t \in Task, ReadFinding(t) PROVE RunsExist'
  BY <1>9 DEF ReadFinding
<1>10. ASSUME NEW t \in Task, WriteFinding(t) PROVE RunsExist'
  BY <1>10 DEF WriteFinding
<1>11. ASSUME NEW t \in Task, CloseRun(t) PROVE RunsExist'
  BY <1>11 DEF CloseRun, FinalizeOrder
<1>12. ASSUME NEW t \in Task, Raise(t) PROVE RunsExist'
  BY <1>12 DEF Raise
<1>13. ASSUME NEW t \in Task, FailRun(t) PROVE RunsExist'
  BY <1>13 DEF FailRun, FinalizeOrder
<1>14. ASSUME NEW t \in Task, ResumeRead(t) PROVE RunsExist'
  BY <1>14 DEF ResumeRead
<1>15. ASSUME NEW t \in Task, ResumeReadHistory(t) PROVE RunsExist'
  BY <1>15 DEF ResumeReadHistory
<1>16. ASSUME NEW t \in Task, ResumeClear(t) PROVE RunsExist'
  BY <1>16 DEF ResumeClear
<1>17. ASSUME NEW t \in Task, RequestExecute(t) PROVE RunsExist'
  BY <1>17 DEF RequestExecute
<1>18. ASSUME NEW t \in Task, RespondToPermission(t) PROVE RunsExist'
  BY <1>18 DEF RespondToPermission
<1>19. ASSUME NEW r \in Run, CancelCheck(r) PROVE RunsExist'
  BY <1>19 DEF CancelCheck
<1>20. ASSUME NEW r \in Run, CancelWrite(r) PROVE RunsExist'
  BY <1>20 DEF CancelWrite
<1>21. CASE PatchFinding
  BY <1>21 DEF PatchFinding
<1>22. CASE Crash
  BY <1>22 DEF Crash
<1>23. CASE Boot
  BY <1>23 DEF Boot
<1>24. CASE UNCHANGED vars
  BY <1>24 DEF vars
<1>25. QED
  BY <1>1, <1>2, <1>3, <1>4, <1>5, <1>6, <1>7, <1>8, <1>9, <1>10, <1>11, <1>12, <1>13, <1>14, <1>15, <1>16, <1>17, <1>18, <1>19, <1>20, <1>21, <1>22, <1>23, <1>24
     DEF Next, TaskStep, Execute, Finalize, Resume, User

LEMMA DownIsIdleStep == IInv /\ [Next]_vars => DownIsIdle'
<1> SUFFICES ASSUME IInv, [Next]_vars PROVE DownIsIdle'
  OBVIOUS
<1>a. TypeOK /\ RunsExist /\ DownIsIdle /\ FinalizeOrder /\ NoWedgedRun /\ CompletedIsPersisted
      /\ NoHallucinatedPr
  BY DEF IInv
<1> USE <1>a DEF TypeOK, rows, locals, outputs, Goto, EndTask, Owning, RunsExist, HoldsRun, DownIsIdle
<1>1. ASSUME NEW t \in Task, CheckNotBusy(t) PROVE DownIsIdle'
  BY <1>1 DEF CheckNotBusy
<1>2. ASSUME NEW t \in Task, CreateAgentRun(t) PROVE DownIsIdle'
  BY <1>2 DEF CreateAgentRun
<1>3. ASSUME NEW t \in Task, StartWork(t) PROVE DownIsIdle'
  BY <1>3 DEF StartWork
<1>4. ASSUME NEW t \in Task, ModelAnswers(t) PROVE DownIsIdle'
  BY <1>4 DEF ModelAnswers
<1>5. ASSUME NEW t \in Task, ParkForPermission(t) PROVE DownIsIdle'
  BY <1>5 DEF ParkForPermission
<1>6. ASSUME NEW t \in Task, VerifyPrUrl(t) PROVE DownIsIdle'
  BY <1>6 DEF VerifyPrUrl
<1>7. ASSUME NEW t \in Task, UpdateContext(t) PROVE DownIsIdle'
  BY <1>7 DEF UpdateContext
<1>8. ASSUME NEW t \in Task, MapAndUpsert(t) PROVE DownIsIdle'
  BY <1>8 DEF MapAndUpsert
<1>9. ASSUME NEW t \in Task, ReadFinding(t) PROVE DownIsIdle'
  BY <1>9 DEF ReadFinding
<1>10. ASSUME NEW t \in Task, WriteFinding(t) PROVE DownIsIdle'
  BY <1>10 DEF WriteFinding
<1>11. ASSUME NEW t \in Task, CloseRun(t) PROVE DownIsIdle'
  BY <1>11 DEF CloseRun
<1>12. ASSUME NEW t \in Task, Raise(t) PROVE DownIsIdle'
  BY <1>12 DEF Raise
<1>13. ASSUME NEW t \in Task, FailRun(t) PROVE DownIsIdle'
  BY <1>13 DEF FailRun
<1>14. ASSUME NEW t \in Task, ResumeRead(t) PROVE DownIsIdle'
  BY <1>14 DEF ResumeRead
<1>15. ASSUME NEW t \in Task, ResumeReadHistory(t) PROVE DownIsIdle'
  BY <1>15 DEF ResumeReadHistory
<1>16. ASSUME NEW t \in Task, ResumeClear(t) PROVE DownIsIdle'
  BY <1>16 DEF ResumeClear
<1>17. ASSUME NEW t \in Task, RequestExecute(t) PROVE DownIsIdle'
  BY <1>17 DEF RequestExecute
<1>18. ASSUME NEW t \in Task, RespondToPermission(t) PROVE DownIsIdle'
  BY <1>18 DEF RespondToPermission
<1>19. ASSUME NEW r \in Run, CancelCheck(r) PROVE DownIsIdle'
  BY <1>19 DEF CancelCheck
<1>20. ASSUME NEW r \in Run, CancelWrite(r) PROVE DownIsIdle'
  BY <1>20 DEF CancelWrite
<1>21. CASE PatchFinding
  BY <1>21 DEF PatchFinding
<1>22. CASE Crash
  BY <1>22 DEF Crash
<1>23. CASE Boot
  BY <1>23 DEF Boot
<1>24. CASE UNCHANGED vars
  BY <1>24 DEF vars
<1>25. QED
  BY <1>1, <1>2, <1>3, <1>4, <1>5, <1>6, <1>7, <1>8, <1>9, <1>10, <1>11, <1>12, <1>13, <1>14, <1>15, <1>16, <1>17, <1>18, <1>19, <1>20, <1>21, <1>22, <1>23, <1>24
     DEF Next, TaskStep, Execute, Finalize, Resume, User

LEMMA FinalizeOrderStep == IInv /\ [Next]_vars => FinalizeOrder'
<1> SUFFICES ASSUME IInv, [Next]_vars PROVE FinalizeOrder'
  OBVIOUS
<1>a. TypeOK /\ RunsExist /\ DownIsIdle /\ FinalizeOrder /\ NoWedgedRun /\ CompletedIsPersisted
      /\ NoHallucinatedPr
  BY DEF IInv
<1> USE <1>a DEF TypeOK, rows, locals, outputs, Goto, EndTask, Owning, RunsExist, HoldsRun, FinalizeOrder, Persisting
<1>1. ASSUME NEW t \in Task, CheckNotBusy(t) PROVE FinalizeOrder'
  BY <1>1 DEF CheckNotBusy
<1>2. ASSUME NEW t \in Task, CreateAgentRun(t) PROVE FinalizeOrder'
  BY <1>2 DEF CreateAgentRun
<1>3. ASSUME NEW t \in Task, StartWork(t) PROVE FinalizeOrder'
  BY <1>3 DEF StartWork
<1>4. ASSUME NEW t \in Task, ModelAnswers(t) PROVE FinalizeOrder'
  BY <1>4 DEF ModelAnswers
<1>5. ASSUME NEW t \in Task, ParkForPermission(t) PROVE FinalizeOrder'
  BY <1>5 DEF ParkForPermission
<1>6. ASSUME NEW t \in Task, VerifyPrUrl(t) PROVE FinalizeOrder'
  BY <1>6 DEF VerifyPrUrl
<1>7. ASSUME NEW t \in Task, UpdateContext(t) PROVE FinalizeOrder'
  BY <1>7 DEF UpdateContext
<1>8. ASSUME NEW t \in Task, MapAndUpsert(t) PROVE FinalizeOrder'
  BY <1>8 DEF MapAndUpsert
<1>9. ASSUME NEW t \in Task, ReadFinding(t) PROVE FinalizeOrder'
  BY <1>9 DEF ReadFinding
<1>10. ASSUME NEW t \in Task, WriteFinding(t) PROVE FinalizeOrder'
  BY <1>10 DEF WriteFinding
<1>11. ASSUME NEW t \in Task, CloseRun(t) PROVE FinalizeOrder'
  BY <1>11 DEF CloseRun
<1>12. ASSUME NEW t \in Task, Raise(t) PROVE FinalizeOrder'
  BY <1>12 DEF Raise
<1>13. ASSUME NEW t \in Task, FailRun(t) PROVE FinalizeOrder'
  BY <1>13 DEF FailRun
<1>14. ASSUME NEW t \in Task, ResumeRead(t) PROVE FinalizeOrder'
  BY <1>14 DEF ResumeRead
<1>15. ASSUME NEW t \in Task, ResumeReadHistory(t) PROVE FinalizeOrder'
  BY <1>15 DEF ResumeReadHistory
<1>16. ASSUME NEW t \in Task, ResumeClear(t) PROVE FinalizeOrder'
  BY <1>16 DEF ResumeClear
<1>17. ASSUME NEW t \in Task, RequestExecute(t) PROVE FinalizeOrder'
  BY <1>17 DEF RequestExecute
<1>18. ASSUME NEW t \in Task, RespondToPermission(t) PROVE FinalizeOrder'
  BY <1>18 DEF RespondToPermission
<1>19. ASSUME NEW r \in Run, CancelCheck(r) PROVE FinalizeOrder'
  BY <1>19 DEF CancelCheck
<1>20. ASSUME NEW r \in Run, CancelWrite(r) PROVE FinalizeOrder'
  BY <1>20 DEF CancelWrite
<1>21. CASE PatchFinding
  BY <1>21 DEF PatchFinding
<1>22. CASE Crash
  BY <1>22 DEF Crash
<1>23. CASE Boot
  BY <1>23 DEF Boot
<1>24. CASE UNCHANGED vars
  BY <1>24 DEF vars
<1>25. QED
  BY <1>1, <1>2, <1>3, <1>4, <1>5, <1>6, <1>7, <1>8, <1>9, <1>10, <1>11, <1>12, <1>13, <1>14, <1>15, <1>16, <1>17, <1>18, <1>19, <1>20, <1>21, <1>22, <1>23, <1>24
     DEF Next, TaskStep, Execute, Finalize, Resume, User

LEMMA NoWedgedRunStep == IInv /\ [Next]_vars => NoWedgedRun'
<1> SUFFICES ASSUME IInv, [Next]_vars PROVE NoWedgedRun'
  OBVIOUS
<1>a. TypeOK /\ RunsExist /\ DownIsIdle /\ FinalizeOrder /\ NoWedgedRun /\ CompletedIsPersisted
      /\ NoHallucinatedPr
  BY DEF IInv
<1> USE <1>a DEF TypeOK, rows, locals, outputs, Goto, EndTask, Owning, RunsExist, HoldsRun, NoWedgedRun, Owned, Owns, FinalizeOrder, DownIsIdle
<1>1. ASSUME NEW t \in Task, CheckNotBusy(t) PROVE NoWedgedRun'
  BY <1>1 DEF CheckNotBusy
<1>2. ASSUME NEW t \in Task, CreateAgentRun(t) PROVE NoWedgedRun'
  BY <1>2 DEF CreateAgentRun
<1>3. ASSUME NEW t \in Task, StartWork(t) PROVE NoWedgedRun'
  BY <1>3 DEF StartWork
<1>4. ASSUME NEW t \in Task, ModelAnswers(t) PROVE NoWedgedRun'
  BY <1>4 DEF ModelAnswers
<1>5. ASSUME NEW t \in Task, ParkForPermission(t) PROVE NoWedgedRun'
  BY <1>5 DEF ParkForPermission
<1>6. ASSUME NEW t \in Task, VerifyPrUrl(t) PROVE NoWedgedRun'
  BY <1>6 DEF VerifyPrUrl
<1>7. ASSUME NEW t \in Task, UpdateContext(t) PROVE NoWedgedRun'
  BY <1>7 DEF UpdateContext
<1>8. ASSUME NEW t \in Task, MapAndUpsert(t) PROVE NoWedgedRun'
  BY <1>8 DEF MapAndUpsert
<1>9. ASSUME NEW t \in Task, ReadFinding(t) PROVE NoWedgedRun'
  BY <1>9 DEF ReadFinding
<1>10. ASSUME NEW t \in Task, WriteFinding(t) PROVE NoWedgedRun'
  BY <1>10 DEF WriteFinding
<1>11. ASSUME NEW t \in Task, CloseRun(t) PROVE NoWedgedRun'
  BY <1>11 DEF CloseRun
<1>12. ASSUME NEW t \in Task, Raise(t) PROVE NoWedgedRun'
  BY <1>12 DEF Raise
<1>13. ASSUME NEW t \in Task, FailRun(t) PROVE NoWedgedRun'
  BY <1>13 DEF FailRun
<1>14. ASSUME NEW t \in Task, ResumeRead(t) PROVE NoWedgedRun'
  BY <1>14 DEF ResumeRead
<1>15. ASSUME NEW t \in Task, ResumeReadHistory(t) PROVE NoWedgedRun'
  BY <1>15 DEF ResumeReadHistory
<1>16. ASSUME NEW t \in Task, ResumeClear(t) PROVE NoWedgedRun'
  BY <1>16 DEF ResumeClear
<1>17. ASSUME NEW t \in Task, RequestExecute(t) PROVE NoWedgedRun'
  BY <1>17 DEF RequestExecute
<1>18. ASSUME NEW t \in Task, RespondToPermission(t) PROVE NoWedgedRun'
  BY <1>18 DEF RespondToPermission
<1>19. ASSUME NEW r \in Run, CancelCheck(r) PROVE NoWedgedRun'
  BY <1>19 DEF CancelCheck
<1>20. ASSUME NEW r \in Run, CancelWrite(r) PROVE NoWedgedRun'
  BY <1>20 DEF CancelWrite
<1>21. CASE PatchFinding
  BY <1>21 DEF PatchFinding
<1>22. CASE Crash
  BY <1>22 DEF Crash
<1>23. CASE Boot
  BY <1>23 DEF Boot
<1>24. CASE UNCHANGED vars
  BY <1>24 DEF vars
<1>25. QED
  BY <1>1, <1>2, <1>3, <1>4, <1>5, <1>6, <1>7, <1>8, <1>9, <1>10, <1>11, <1>12, <1>13, <1>14, <1>15, <1>16, <1>17, <1>18, <1>19, <1>20, <1>21, <1>22, <1>23, <1>24
     DEF Next, TaskStep, Execute, Finalize, Resume, User

LEMMA CompletedStep == IInv /\ [Next]_vars => CompletedIsPersisted'
<1> SUFFICES ASSUME IInv, [Next]_vars PROVE CompletedIsPersisted'
  OBVIOUS
<1>a. TypeOK /\ RunsExist /\ DownIsIdle /\ FinalizeOrder /\ NoWedgedRun /\ CompletedIsPersisted
      /\ NoHallucinatedPr
  BY DEF IInv
<1> USE <1>a DEF TypeOK, rows, locals, outputs, Goto, EndTask, Owning, RunsExist, HoldsRun, CompletedIsPersisted, FinalizeOrder
<1>1. ASSUME NEW t \in Task, CheckNotBusy(t) PROVE CompletedIsPersisted'
  BY <1>1 DEF CheckNotBusy
<1>2. ASSUME NEW t \in Task, CreateAgentRun(t) PROVE CompletedIsPersisted'
  BY <1>2 DEF CreateAgentRun
<1>3. ASSUME NEW t \in Task, StartWork(t) PROVE CompletedIsPersisted'
  BY <1>3 DEF StartWork
<1>4. ASSUME NEW t \in Task, ModelAnswers(t) PROVE CompletedIsPersisted'
  BY <1>4 DEF ModelAnswers
<1>5. ASSUME NEW t \in Task, ParkForPermission(t) PROVE CompletedIsPersisted'
  BY <1>5 DEF ParkForPermission
<1>6. ASSUME NEW t \in Task, VerifyPrUrl(t) PROVE CompletedIsPersisted'
  BY <1>6 DEF VerifyPrUrl
<1>7. ASSUME NEW t \in Task, UpdateContext(t) PROVE CompletedIsPersisted'
  BY <1>7 DEF UpdateContext
<1>8. ASSUME NEW t \in Task, MapAndUpsert(t) PROVE CompletedIsPersisted'
  BY <1>8 DEF MapAndUpsert
<1>9. ASSUME NEW t \in Task, ReadFinding(t) PROVE CompletedIsPersisted'
  BY <1>9 DEF ReadFinding
<1>10. ASSUME NEW t \in Task, WriteFinding(t) PROVE CompletedIsPersisted'
  BY <1>10 DEF WriteFinding
<1>11. ASSUME NEW t \in Task, CloseRun(t) PROVE CompletedIsPersisted'
  BY <1>11 DEF CloseRun
<1>12. ASSUME NEW t \in Task, Raise(t) PROVE CompletedIsPersisted'
  BY <1>12 DEF Raise
<1>13. ASSUME NEW t \in Task, FailRun(t) PROVE CompletedIsPersisted'
  BY <1>13 DEF FailRun
<1>14. ASSUME NEW t \in Task, ResumeRead(t) PROVE CompletedIsPersisted'
  BY <1>14 DEF ResumeRead
<1>15. ASSUME NEW t \in Task, ResumeReadHistory(t) PROVE CompletedIsPersisted'
  BY <1>15 DEF ResumeReadHistory
<1>16. ASSUME NEW t \in Task, ResumeClear(t) PROVE CompletedIsPersisted'
  BY <1>16 DEF ResumeClear
<1>17. ASSUME NEW t \in Task, RequestExecute(t) PROVE CompletedIsPersisted'
  BY <1>17 DEF RequestExecute
<1>18. ASSUME NEW t \in Task, RespondToPermission(t) PROVE CompletedIsPersisted'
  BY <1>18 DEF RespondToPermission
<1>19. ASSUME NEW r \in Run, CancelCheck(r) PROVE CompletedIsPersisted'
  BY <1>19 DEF CancelCheck
<1>20. ASSUME NEW r \in Run, CancelWrite(r) PROVE CompletedIsPersisted'
  BY <1>20 DEF CancelWrite
<1>21. CASE PatchFinding
  BY <1>21 DEF PatchFinding
<1>22. CASE Crash
  BY <1>22 DEF Crash
<1>23. CASE Boot
  BY <1>23 DEF Boot
<1>24. CASE UNCHANGED vars
  BY <1>24 DEF vars
<1>25. QED
  BY <1>1, <1>2, <1>3, <1>4, <1>5, <1>6, <1>7, <1>8, <1>9, <1>10, <1>11, <1>12, <1>13, <1>14, <1>15, <1>16, <1>17, <1>18, <1>19, <1>20, <1>21, <1>22, <1>23, <1>24
     DEF Next, TaskStep, Execute, Finalize, Resume, User

LEMMA NoHallucinatedStep == IInv /\ [Next]_vars => NoHallucinatedPr'
<1> SUFFICES ASSUME IInv, [Next]_vars PROVE NoHallucinatedPr'
  OBVIOUS
<1>a. TypeOK /\ RunsExist /\ DownIsIdle /\ FinalizeOrder /\ NoWedgedRun /\ CompletedIsPersisted
      /\ NoHallucinatedPr
  BY DEF IInv
<1> USE <1>a DEF TypeOK, rows, locals, outputs, Goto, EndTask, Owning, RunsExist, HoldsRun, NoHallucinatedPr, FinalizeOrder, Persisting, AdvanceTarget
<1>1. ASSUME NEW t \in Task, CheckNotBusy(t) PROVE NoHallucinatedPr'
  BY <1>1 DEF CheckNotBusy
<1>2. ASSUME NEW t \in Task, CreateAgentRun(t) PROVE NoHallucinatedPr'
  BY <1>2 DEF CreateAgentRun
<1>3. ASSUME NEW t \in Task, StartWork(t) PROVE NoHallucinatedPr'
  BY <1>3 DEF StartWork
<1>4. ASSUME NEW t \in Task, ModelAnswers(t) PROVE NoHallucinatedPr'
  BY <1>4 DEF ModelAnswers
<1>5. ASSUME NEW t \in Task, ParkForPermission(t) PROVE NoHallucinatedPr'
  BY <1>5 DEF ParkForPermission
<1>6. ASSUME NEW t \in Task, VerifyPrUrl(t) PROVE NoHallucinatedPr'
  BY <1>6 DEF VerifyPrUrl
<1>7. ASSUME NEW t \in Task, UpdateContext(t) PROVE NoHallucinatedPr'
  BY <1>7 DEF UpdateContext
<1>8. ASSUME NEW t \in Task, MapAndUpsert(t) PROVE NoHallucinatedPr'
  BY <1>8 DEF MapAndUpsert
<1>9. ASSUME NEW t \in Task, ReadFinding(t) PROVE NoHallucinatedPr'
  BY <1>9 DEF ReadFinding
<1>10. ASSUME NEW t \in Task, WriteFinding(t) PROVE NoHallucinatedPr'
  BY <1>10 DEF WriteFinding
<1>11. ASSUME NEW t \in Task, CloseRun(t) PROVE NoHallucinatedPr'
  BY <1>11 DEF CloseRun
<1>12. ASSUME NEW t \in Task, Raise(t) PROVE NoHallucinatedPr'
  BY <1>12 DEF Raise
<1>13. ASSUME NEW t \in Task, FailRun(t) PROVE NoHallucinatedPr'
  BY <1>13 DEF FailRun
<1>14. ASSUME NEW t \in Task, ResumeRead(t) PROVE NoHallucinatedPr'
  BY <1>14 DEF ResumeRead
<1>15. ASSUME NEW t \in Task, ResumeReadHistory(t) PROVE NoHallucinatedPr'
  BY <1>15 DEF ResumeReadHistory
<1>16. ASSUME NEW t \in Task, ResumeClear(t) PROVE NoHallucinatedPr'
  BY <1>16 DEF ResumeClear
<1>17. ASSUME NEW t \in Task, RequestExecute(t) PROVE NoHallucinatedPr'
  BY <1>17 DEF RequestExecute
<1>18. ASSUME NEW t \in Task, RespondToPermission(t) PROVE NoHallucinatedPr'
  BY <1>18 DEF RespondToPermission
<1>19. ASSUME NEW r \in Run, CancelCheck(r) PROVE NoHallucinatedPr'
  BY <1>19 DEF CancelCheck
<1>20. ASSUME NEW r \in Run, CancelWrite(r) PROVE NoHallucinatedPr'
  BY <1>20 DEF CancelWrite
<1>21. CASE PatchFinding
  BY <1>21, UserPatches DEF PatchFinding
<1>22. CASE Crash
  BY <1>22 DEF Crash
<1>23. CASE Boot
  BY <1>23 DEF Boot
<1>24. CASE UNCHANGED vars
  BY <1>24 DEF vars
<1>25. QED
  BY <1>1, <1>2, <1>3, <1>4, <1>5, <1>6, <1>7, <1>8, <1>9, <1>10, <1>11, <1>12, <1>13, <1>14, <1>15, <1>16, <1>17, <1>18, <1>19, <1>20, <1>21, <1>22, <1>23, <1>24
     DEF Next, TaskStep, Execute, Finalize, Resume, User

-----------------------------------------------------------------------------
(* The theorems. *)

LEMMA Invariance == Spec => []IInv
<1>1. IInv /\ [Next]_vars => IInv'
  BY TypeStep, RunsExistStep, DownIsIdleStep, FinalizeOrderStep, NoWedgedRunStep,
     CompletedStep, NoHallucinatedStep DEF IInv
<1>2. QED
  BY InitIInv, <1>1, PTL DEF Spec

\* Type correctness, for every set of rows, tasks and agents.
THEOREM TypeCorrect == Spec => []TypeOK
<1>1. IInv => TypeOK
  BY DEF IInv
<1>2. QED
  BY Invariance, <1>1, PTL

\* However requests, double permissions, cancellations and crashes interleave, a running
\* row that does not wait for the user has a task that will end it.
THEOREM NoRunIsWedged == Spec => []NoWedgedRun
<1>1. IInv => NoWedgedRun
  BY DEF IInv
<1>2. QED
  BY Invariance, <1>1, PTL

\* A completed row's output is in the context directory and in the sidebar.
THEOREM CompletedRunsArePersisted == Spec => []CompletedIsPersisted
<1>1. IInv => CompletedIsPersisted
  BY DEF IInv
<1>2. QED
  BY Invariance, <1>1, PTL

\* No made-up pull request reaches the finding.
THEOREM FindingPrIsReal == Spec => []NoHallucinatedPr
<1>1. IInv => NoHallucinatedPr
  BY DEF IInv
<1>2. QED
  BY Invariance, <1>1, PTL

-----------------------------------------------------------------------------
(* The action property. *)

\* A terminal row that nobody drives, cancels or can resume is never written again.
THEOREM OverStaysOver == Spec => OverIsFinal
<1>1. ASSUME IInv, [Next]_vars, NEW r \in Run, Over(r)
      PROVE  status'[r] = status[r] /\ parked'[r] = parked[r]
  <2>a. TypeOK /\ RunsExist
    BY <1>1 DEF IInv
  <2> USE <1>1, <2>a DEF TypeOK, rows, locals, outputs, Over, Owned, Owns, Reviving, Owning
  <2>1. ASSUME NEW t \in Task, CheckNotBusy(t) PROVE status'[r] = status[r] /\ parked'[r] = parked[r]
    BY <2>1 DEF CheckNotBusy
  <2>2. ASSUME NEW t \in Task, CreateAgentRun(t) PROVE status'[r] = status[r] /\ parked'[r] = parked[r]
    BY <2>2 DEF CreateAgentRun
  <2>3. ASSUME NEW t \in Task, StartWork(t) PROVE status'[r] = status[r] /\ parked'[r] = parked[r]
    BY <2>3 DEF StartWork
  <2>4. ASSUME NEW t \in Task, ModelAnswers(t) PROVE status'[r] = status[r] /\ parked'[r] = parked[r]
    BY <2>4 DEF ModelAnswers
  <2>5. ASSUME NEW t \in Task, ParkForPermission(t) PROVE status'[r] = status[r] /\ parked'[r] = parked[r]
    BY <2>5 DEF ParkForPermission
  <2>6. ASSUME NEW t \in Task, VerifyPrUrl(t) PROVE status'[r] = status[r] /\ parked'[r] = parked[r]
    BY <2>6 DEF VerifyPrUrl
  <2>7. ASSUME NEW t \in Task, UpdateContext(t) PROVE status'[r] = status[r] /\ parked'[r] = parked[r]
    BY <2>7 DEF UpdateContext
  <2>8. ASSUME NEW t \in Task, MapAndUpsert(t) PROVE status'[r] = status[r] /\ parked'[r] = parked[r]
    BY <2>8 DEF MapAndUpsert
  <2>9. ASSUME NEW t \in Task, ReadFinding(t) PROVE status'[r] = status[r] /\ parked'[r] = parked[r]
    BY <2>9 DEF ReadFinding
  <2>10. ASSUME NEW t \in Task, WriteFinding(t) PROVE status'[r] = status[r] /\ parked'[r] = parked[r]
    BY <2>10 DEF WriteFinding
  <2>11. ASSUME NEW t \in Task, CloseRun(t) PROVE status'[r] = status[r] /\ parked'[r] = parked[r]
    BY <2>11 DEF CloseRun
  <2>12. ASSUME NEW t \in Task, Raise(t) PROVE status'[r] = status[r] /\ parked'[r] = parked[r]
    BY <2>12 DEF Raise
  <2>13. ASSUME NEW t \in Task, FailRun(t) PROVE status'[r] = status[r] /\ parked'[r] = parked[r]
    BY <2>13 DEF FailRun
  <2>14. ASSUME NEW t \in Task, ResumeRead(t) PROVE status'[r] = status[r] /\ parked'[r] = parked[r]
    BY <2>14 DEF ResumeRead
  <2>15. ASSUME NEW t \in Task, ResumeReadHistory(t) PROVE status'[r] = status[r] /\ parked'[r] = parked[r]
    BY <2>15 DEF ResumeReadHistory
  <2>16. ASSUME NEW t \in Task, ResumeClear(t) PROVE status'[r] = status[r] /\ parked'[r] = parked[r]
    BY <2>16 DEF ResumeClear
  <2>17. ASSUME NEW t \in Task, RequestExecute(t) PROVE status'[r] = status[r] /\ parked'[r] = parked[r]
    BY <2>17 DEF RequestExecute
  <2>18. ASSUME NEW t \in Task, RespondToPermission(t) PROVE status'[r] = status[r] /\ parked'[r] = parked[r]
    BY <2>18 DEF RespondToPermission
  <2>19. ASSUME NEW q \in Run, CancelCheck(q) PROVE status'[r] = status[r] /\ parked'[r] = parked[r]
    BY <2>19 DEF CancelCheck
  <2>20. ASSUME NEW q \in Run, CancelWrite(q) PROVE status'[r] = status[r] /\ parked'[r] = parked[r]
    BY <2>20 DEF CancelWrite
  <2>21. CASE PatchFinding
    BY <2>21 DEF PatchFinding
  <2>22. CASE Crash
    BY <2>22 DEF Crash
  <2>23. CASE Boot
    BY <2>23 DEF Boot
  <2>24. CASE UNCHANGED vars
    BY <2>24 DEF vars
  <2>25. QED
    BY <2>1, <2>2, <2>3, <2>4, <2>5, <2>6, <2>7, <2>8, <2>9, <2>10, <2>11, <2>12, <2>13, <2>14, <2>15, <2>16, <2>17, <2>18, <2>19, <2>20, <2>21, <2>22, <2>23, <2>24
       DEF Next, TaskStep, Execute, Finalize, Resume, User
<1>2. IInv /\ [Next]_vars => [\A r \in Run : Over(r) => status'[r] = status[r] /\ parked'[r] = parked[r]]_vars
  BY <1>1
<1>3. QED
  BY Invariance, <1>2, PTL DEF Spec, OverIsFinal

-----------------------------------------------------------------------------
(* Refinement of RunLifecycle.  Only the INSERT gives birth to a run and only a resume    *)
(* takes one back from the user; every other step cuts runs off or leaves them alone.     *)

PhasesOnlyEnd ==
  \A r \in Run :
    \/ Phase(r)' = Phase(r)
    \/ Phase(r) = "live" /\ Phase(r)' \in {"parked", "over"}
    \/ Phase(r) = "parked" /\ Phase(r)' = "over"

LEMMA EndingIsInterrupt == PhasesOnlyEnd => Lifecycle!Interrupt
BY DEF PhasesOnlyEnd, Lifecycle!Interrupt, Lifecycle!Phases, Phase

LEMMA BirthIsStart ==
  ASSUME IInv, NEW t \in Task, CreateAgentRun(t)
  PROVE  \E r \in Run : Lifecycle!Start(r)
<1>1. TypeOK /\ RunsExist
  BY DEF IInv
<1>2. PICK r \in Run, a \in AgentType :
        status[r] = "absent" /\ status' = [status EXCEPT ![r] = "running"]
        /\ run' = [run EXCEPT ![t] = r]
  BY DEF CreateAgentRun
<1>3. pc' = [pc EXCEPT ![t] = "inserted"] /\ parked' = parked /\ pc[t] = "checked"
  BY DEF CreateAgentRun, Goto
<1>4. Phase(r) = "unborn" /\ Phase(r)' = "live"
  BY <1>1, <1>2, <1>3 DEF Phase, Owned, Owns, Owning, TypeOK
<1>5. ASSUME NEW q \in Run, q # r PROVE Phase(q)' = Phase(q)
  BY <1>1, <1>2, <1>3, <1>5 DEF Phase, Owned, Owns, Owning, TypeOK
<1>6. Lifecycle!Start(r)
  BY <1>4, <1>5 DEF Lifecycle!Start
<1>7. QED
  BY <1>6

LEMMA ResumeIsResume ==
  ASSUME IInv, NEW t \in Task, ResumeRead(t)
  PROVE  PhasesOnlyEnd \/ \E r \in Run : Lifecycle!Resume(r)
<1>1. TypeOK /\ RunsExist /\ run[t] \in Run /\ status[run[t]] # "absent"
  BY DEF IInv, RunsExist, HoldsRun, ResumeRead
<1>2. status' = status /\ parked' = parked /\ pc[t] = "resume_requested"
  BY DEF ResumeRead, rows
<1>3. PICK r \in Run : r = run[t]
  BY <1>1
<1>4. CASE parked[r]
  <2>1. pc' = [pc EXCEPT ![t] = "resume_read"] /\ run' = run
    BY <1>3, <1>4 DEF ResumeRead, Goto, locals
  <2>2. Phase(r) \in {"parked", "live"} /\ Phase(r)' = "live"
    BY <1>1, <1>2, <1>3, <1>4, <2>1 DEF Phase, Owned, Owns, Owning, TypeOK
  <2>3. ASSUME NEW q \in Run, q # r PROVE Phase(q)' = Phase(q)
    BY <1>1, <1>2, <1>3, <2>1, <2>3 DEF Phase, Owned, Owns, Owning, TypeOK
  <2>4. CASE Phase(r) = "live"
    <3>1. PhasesOnlyEnd
      BY <2>2, <2>3, <2>4 DEF PhasesOnlyEnd
    <3>2. QED
      BY <3>1
  <2>5. CASE Phase(r) = "parked"
    <3>1. Lifecycle!Resume(r)
      BY <2>2, <2>3, <2>5 DEF Lifecycle!Resume
    <3>2. QED
      BY <3>1
  <2>6. QED
    BY <2>2, <2>4, <2>5
<1>5. CASE ~parked[r]
  <2>1. PhasesOnlyEnd
    BY <1>1, <1>2, <1>3, <1>5
       DEF ResumeRead, EndTask, Goto, PhasesOnlyEnd, Phase, Owned, Owns, Owning, TypeOK
  <2>2. QED
    BY <2>1
<1>6. QED
  BY <1>4, <1>5

LEMMA QuietSteps ==
  ASSUME IInv, [Next]_vars,
         \A t \in Task : ~CreateAgentRun(t) /\ ~ResumeRead(t)
  PROVE  PhasesOnlyEnd
<1>a. TypeOK /\ RunsExist /\ DownIsIdle /\ FinalizeOrder
  BY DEF IInv
<1> USE <1>a DEF TypeOK, RunsExist, HoldsRun, rows, locals, outputs, Goto, EndTask, Owning,
                 PhasesOnlyEnd, Phase, Owned, Owns
<1>1. ASSUME NEW t \in Task, CheckNotBusy(t) PROVE PhasesOnlyEnd
  BY <1>1 DEF CheckNotBusy
<1>2. ASSUME NEW t \in Task, StartWork(t) PROVE PhasesOnlyEnd
  BY <1>2 DEF StartWork
<1>3. ASSUME NEW t \in Task, ModelAnswers(t) PROVE PhasesOnlyEnd
  BY <1>3 DEF ModelAnswers
<1>4. ASSUME NEW t \in Task, VerifyPrUrl(t) PROVE PhasesOnlyEnd
  BY <1>4 DEF VerifyPrUrl
<1>5. ASSUME NEW t \in Task, UpdateContext(t) PROVE PhasesOnlyEnd
  BY <1>5 DEF UpdateContext
<1>6. ASSUME NEW t \in Task, MapAndUpsert(t) PROVE PhasesOnlyEnd
  BY <1>6 DEF MapAndUpsert
<1>7. ASSUME NEW t \in Task, ReadFinding(t) PROVE PhasesOnlyEnd
  BY <1>7 DEF ReadFinding
<1>8. ASSUME NEW t \in Task, WriteFinding(t) PROVE PhasesOnlyEnd
  BY <1>8 DEF WriteFinding
<1>9. ASSUME NEW t \in Task, Raise(t) PROVE PhasesOnlyEnd
  BY <1>9 DEF Raise
<1>10. ASSUME NEW t \in Task, ResumeReadHistory(t) PROVE PhasesOnlyEnd
  BY <1>10 DEF ResumeReadHistory
<1>11. ASSUME NEW t \in Task, ResumeClear(t) PROVE PhasesOnlyEnd
  BY <1>11 DEF ResumeClear
<1>12. ASSUME NEW t \in Task, RequestExecute(t) PROVE PhasesOnlyEnd
  BY <1>12 DEF RequestExecute
<1>13. ASSUME NEW t \in Task, RespondToPermission(t) PROVE PhasesOnlyEnd
  BY <1>13 DEF RespondToPermission
<1>14. ASSUME NEW t \in Task, ParkForPermission(t) PROVE PhasesOnlyEnd
  BY <1>14 DEF ParkForPermission
<1>15. ASSUME NEW t \in Task, CloseRun(t) PROVE PhasesOnlyEnd
  BY <1>15 DEF CloseRun, FinalizeOrder
<1>16. ASSUME NEW t \in Task, FailRun(t) PROVE PhasesOnlyEnd
  BY <1>16 DEF FailRun, FinalizeOrder
<1>17. ASSUME NEW q \in Run, CancelCheck(q) PROVE PhasesOnlyEnd
  BY <1>17 DEF CancelCheck
<1>18. ASSUME NEW q \in Run, CancelWrite(q) PROVE PhasesOnlyEnd
  BY <1>18 DEF CancelWrite
<1>19. CASE PatchFinding
  BY <1>19 DEF PatchFinding
<1>20. CASE Crash
  BY <1>20 DEF Crash
<1>21. CASE Boot
  BY <1>21 DEF Boot, DownIsIdle
<1>22. CASE UNCHANGED vars
  BY <1>22 DEF vars
<1>23. QED
  BY <1>1, <1>2, <1>3, <1>4, <1>5, <1>6, <1>7, <1>8, <1>9, <1>10, <1>11, <1>12, <1>13, <1>14, <1>15, <1>16, <1>17, <1>18, <1>19, <1>20, <1>21, <1>22
     DEF Next, TaskStep, Execute, Finalize, Resume, User

\* Whatever interleaves, a run is born once, is driven or waits for the user, and stays
\* over once it is over: the executor implements RunLifecycle.
THEOREM ImplementsLifecycle == Spec => LifecycleSpec
<1>1. Init => Lifecycle!Init
  BY DEF Init, Lifecycle!Init, Phase
<1>2. IInv /\ [Next]_vars => [Lifecycle!Next]_([r \in Run |-> Phase(r)])
  <2> SUFFICES ASSUME IInv, [Next]_vars
               PROVE  Lifecycle!Next
    OBVIOUS
  <2>1. CASE \E t \in Task : CreateAgentRun(t)
    BY <2>1, BirthIsStart DEF Lifecycle!Next
  <2>2. CASE \E t \in Task : ResumeRead(t)
    BY <2>2, ResumeIsResume, EndingIsInterrupt DEF Lifecycle!Next
  <2>3. CASE \A t \in Task : ~CreateAgentRun(t) /\ ~ResumeRead(t)
    BY <2>3, QuietSteps, EndingIsInterrupt DEF Lifecycle!Next
  <2>4. QED
    BY <2>1, <2>2, <2>3
<1>3. QED
  BY Invariance, <1>1, <1>2, PTL DEF Spec, LifecycleSpec, Lifecycle!Spec

-----------------------------------------------------------------------------
(* AiConnect: the key and the model a run is given. *)

\* Between its change of the rows and its hook a request leaves the cache behind them.
Refreshing == {"store", "insert", "sync", "hook"}
Settled == ~behind /\ \A a \in Actors : req[a].pc \notin Refreshing

\* The key an agent run should be given, and the model, or nothing.
Unreadable == vault = "none" \/ EnvRaises
RightKey == IF Unreadable THEN NoId ELSE EnvOf
RightModel == IF Unreadable THEN "none" ELSE ModelOf

\* Someone has refreshed the key and has the model still to do.
HalfWay == probe.pc = "model" \/ \E a \in Actors : req[a].pc = "cached"

KeyIsRight == Settled => cache.id = RightKey
ModelIsRight == Settled /\ ~HalfWay => cache.model = RightModel
HalfWayIsReadable == Settled /\ HalfWay => ~EnvRaises

\* A process without a vault serves none of these requests.
NoVaultNoRequest ==
  vault = "none" =>
    /\ \A a \in Actors : req[a].pc = "idle"
    /\ \A s \in Sessions : ~sess[s].up
    /\ probe.pc \in {"env", "done"}

\* The row a save holds is of the provider it saves, if it is there.
SaveHoldsItsRow ==
  \A a \in Actors : req[a].pc \in {"store", "insert"} =>
    req[a].id \in Id /\ (Live(req[a].id) => cfg[req[a].id] = req[a].prov)

AiInv ==
  /\ AiTypeOK /\ ai \in Seq(Id)
  /\ NoVaultNoRequest /\ SaveHoldsItsRow
  /\ KeyIsRight /\ ModelIsRight /\ HalfWayIsReadable

-----------------------------------------------------------------------------
(* The operators. *)

\* The connected integrations have a row each, of different providers.
Connected(c, s) ==
  /\ \A k \in DOMAIN s : s[k] \in Id /\ c[s[k]] # "none"
  /\ \A j, k \in DOMAIN s : j # k => c[s[j]] # c[s[k]]

\* Taking one out keeps the others, whose rows are as they were.
LEMMA WithoutKeeps ==
  ASSUME NEW s \in Seq(Id), NEW i, NEW c, NEW d, Connected(c, s),
         \A k \in DOMAIN s : s[k] # i => d[s[k]] = c[s[k]]
  PROVE  /\ Without(s, i) \in Seq(Id) /\ Connected(d, Without(s, i))
         /\ \A k \in DOMAIN Without(s, i) :
              \E j \in DOMAIN s : s[j] # i /\ Without(s, i)[k] = s[j]
<1>1. CASE \A k \in DOMAIN s : s[k] # i
  <2>1. Without(s, i) = s
    BY <1>1 DEF Without
  <2>2. QED
    BY <1>1, <2>1 DEF Connected
<1>2. CASE ~ (\A k \in DOMAIN s : s[k] # i)
  <2> DEFINE gone == CHOOSE k \in DOMAIN s : s[k] = i
             at(k) == IF k < gone THEN k ELSE k + 1
  <2>1. gone \in DOMAIN s /\ s[gone] = i
    BY <1>2
  <2>2. Without(s, i) = [k \in 1..(Len(s) - 1) |-> s[at(k)]]
    BY <1>2 DEF Without
  <2> HIDE DEF gone
  <2>3. Len(s) \in Nat /\ DOMAIN s = 1..Len(s) /\ gone \in 1..Len(s)
    BY <2>1
  <2>4. ASSUME NEW k \in 1..(Len(s) - 1)
        PROVE  at(k) \in DOMAIN s /\ at(k) # gone
    BY <2>3
  <2>5. ASSUME NEW k \in DOMAIN s, k # gone
        PROVE  s[k] # i
    BY <2>1, <2>5 DEF Connected
  <2>6. \A j, k \in 1..(Len(s) - 1) : j # k => at(j) # at(k)
    BY <2>3
  <2>7. DOMAIN Without(s, i) = 1..(Len(s) - 1) /\ Len(s) - 1 \in Nat
    BY <2>2, <2>3
  <2>8. \A k \in 1..(Len(s) - 1) :
          at(k) \in DOMAIN s /\ s[at(k)] # i /\ Without(s, i)[k] = s[at(k)]
    BY <2>2, <2>4, <2>5
  <2> HIDE DEF at
  <2>9. Without(s, i) \in Seq(Id)
    <3>1. Without(s, i) \in [1..(Len(s) - 1) -> Id]
      BY <2>2, <2>8 DEF Connected
    <3>2. QED
      BY <2>7, <3>1
  <2>10. Connected(d, Without(s, i))
    BY <2>6, <2>7, <2>8 DEF Connected
  <2>11. QED
    BY <2>7, <2>8, <2>9, <2>10
<1>3. QED
  BY <1>1, <1>2

\* The active integration has a row.
LEMMA ActiveHasARow ==
  ASSUME VaultTypeOK, ai \in Seq(Id), Active # NoId
  PROVE  Active \in Id /\ Live(Active) /\ InAi(Active) /\ cfg[Active] \in Providers
<1>1. ai # <<>> /\ Active = ai[Len(ai)]
  BY DEF Active
<1>2. Len(ai) \in DOMAIN ai
  BY <1>1
<1>3. QED
  BY <1>1, <1>2 DEF VaultTypeOK, Live, InAi

\* What an agent run should be given is read off the rows and the setting.
LEMMA RowsDecide ==
  ASSUME UNCHANGED <<cfg, cred, ai, vault>>
  PROVE  /\ Active' = Active /\ EnvRaises' = EnvRaises /\ EnvOf' = EnvOf
         /\ Unreadable' = Unreadable /\ RightKey' = RightKey
         /\ UNCHANGED setting => ModelOf' = ModelOf /\ RightModel' = RightModel
<1>1. Active' = Active
  BY DEF Active
<1>2. EnvRaises' = EnvRaises
  BY <1>1 DEF EnvRaises, Undecryptable, Missing
<1>3. EnvOf' = EnvOf
  BY <1>1 DEF EnvOf, HasEnv, Missing
<1>4. UNCHANGED setting => ModelOf' = ModelOf
  BY <1>1 DEF ModelOf, Canonical
<1>5. QED
  BY <1>1, <1>2, <1>3, <1>4 DEF Unreadable, RightKey, RightModel

-----------------------------------------------------------------------------
(* The steps. *)

\* The pcs of a request that has not touched a row.
Early == {"idle", "drop", "remove", "model", "exchange"}

\* The routes and the OAuth sessions read the rows and the caches and change neither.
Talk ==
  \/ \E r \in Requests : Route(r)
  \/ \E s \in Sessions : OAuth(s)

LEMMA StepsOfAiNext ==
  ASSUME AiNext
  PROVE  \/ Talk
         \/ \E a \in Actors, i \in Id : SaveDrop(a, i)
         \/ \E a \in Actors : SaveStore(a) \/ SaveInsert(a) \/ SaveSync(a)
         \/ \E a \in Actors : Remove(a) \/ StoreModel(a)
         \/ \E a \in Actors : HookEnv(a) \/ HookModel(a)
         \/ Probe \/ Restart
         \/ SettingsRoute /\ UNCHANGED memVars
BY DEF AiNext, Talk, Save, Hook, Actors

\* What such a step does to the requests and the sessions.
SessionRow == [st : Terminal \cup {"none", "waiting"}, up : BOOLEAN]
SessionsServed ==
  \A s \in Sessions : /\ sess[s].st = "waiting" => sess[s].up
                      /\ sess[s].up => vault # "none"
SessionsOK == sess \in [Sessions -> SessionRow] /\ SessionsServed

TalkStep(a) ==
  /\ RouteRest /\ SessionsOK'
  /\ \/ UNCHANGED req
     \/ /\ req[a].pc \in {"idle", "exchange"} /\ vault # "none"
        /\ \E to \in Early, id \in Id \cup {NoId}, p \in Providers \cup {"none"} :
             req' = [req EXCEPT ![a] = [pc |-> to, id |-> id, prov |-> p]]

LEMMA ActiveType ==
  ASSUME VaultTypeOK, ai \in Seq(Id)
  PROVE  Active \in Id \cup {NoId}
BY ActiveHasARow

LEMMA SessionsAreOK ==
  ASSUME AiInv
  PROVE  SessionsOK
BY DEF AiInv, AiTypeOK, NoVaultNoRequest, SessionsOK, SessionsServed, SessionRow

LEMMA EndsKeepsSessions ==
  ASSUME SessionsOK, UNCHANGED vault, NEW a, NEW outcome \in Terminal, Ends(a, outcome)
  PROVE  SessionsOK'
BY DEF Ends, SessionsOK, SessionsServed, SessionRow, Terminal

\* A route or an OAuth step is such a step of its actor.
LEMMA TalkShape ==
  ASSUME AiInv, Talk
  PROVE  \E a \in Actors : TalkStep(a)
<1>1. /\ Active \in Id \cup {NoId} /\ NoId \in Id \cup {NoId}
      /\ Active # NoId => cfg[Active] \in Providers
      /\ "openrouter" \in Providers /\ Requests \subseteq Actors /\ Sessions \subseteq Actors
      /\ SessionsOK
  BY ActiveType, ActiveHasARow, CatalogKnown, SessionsAreOK DEF AiInv, AiTypeOK, Actors
<1>2. ASSUME RouteRest, UNCHANGED sess
      PROVE  SessionsOK'
  BY <1>1, <1>2 DEF RouteRest, dbVars, SessionsOK, SessionsServed
<1>3. ASSUME NEW r \in Requests, NEW p \in Providers, NEW v, Connect(r, p, v)
      PROVE  TalkStep(r)
  BY <1>1, <1>2, <1>3 DEF Connect, Begins, TalkStep, Early
<1>4. ASSUME NEW r \in Requests, Disconnect(r)
      PROVE  TalkStep(r)
  BY <1>1, <1>2, <1>4 DEF Disconnect, Begins, TalkStep, Early
<1>5. ASSUME NEW r \in Requests, SetModel(r)
      PROVE  TalkStep(r)
  BY <1>1, <1>2, <1>5 DEF SetModel, Begins, TalkStep, Early
<1>6. ASSUME NEW s \in Sessions, OAuthCallback(s)
      PROVE  TalkStep(s)
  BY <1>1, <1>2, <1>6 DEF OAuthCallback, Begins, TalkStep, Early, SessionsOK, SessionsServed
<1>7. ASSUME NEW s \in Sessions, OAuthExchange(s)
      PROVE  TalkStep(s)
  <2>1. vault # "none" /\ req[s].pc = "exchange" /\ RouteRest /\ UNCHANGED vault
    BY <1>1, <1>7 DEF OAuthExchange, AiInv, NoVaultNoRequest, Actors, RouteRest, dbVars
  <2>2. CASE Begins(s, "drop", Active, "openrouter") /\ UNCHANGED sess
    BY <1>1, <1>2, <2>1, <2>2 DEF Begins, TalkStep, Early
  <2>3. CASE Ends(s, "error")
    <3>1. SessionsOK'
      BY <1>1, <2>1, <2>3, EndsKeepsSessions DEF Terminal
    <3>2. QED
      BY <1>1, <2>1, <2>3, <3>1 DEF Ends, IdleReq, TalkStep, Early
  <2>4. QED
    BY <1>7, <2>2, <2>3 DEF OAuthExchange
<1>8. ASSUME NEW s \in Sessions, OAuthStart(s) \/ OAuthStray(s) \/ OAuthTimer(s) \/ OAuthPoll(s)
      PROVE  TalkStep(s)
  <2>1. RouteRest /\ UNCHANGED req /\ UNCHANGED vault
    BY <1>8 DEF OAuthStart, OAuthStray, OAuthTimer, OAuthPoll, RouteRest, dbVars
  <2>2. CASE OAuthStart(s)
    BY <1>1, <2>1, <2>2 DEF OAuthStart, TalkStep, SessionsOK, SessionsServed, SessionRow
  <2>3. CASE OAuthStray(s)
    BY <1>1, <2>1, <2>3 DEF OAuthStray, TalkStep, SessionsOK, SessionsServed, SessionRow, Terminal
  <2>4. CASE OAuthTimer(s)
    BY <1>1, <2>1, <2>4 DEF OAuthTimer, TalkStep, SessionsOK, SessionsServed, SessionRow, Terminal
  <2>5. CASE OAuthPoll(s)
    BY <1>1, <2>1, <2>5 DEF OAuthPoll, TalkStep, SessionsOK, SessionsServed, SessionRow, Terminal
  <2>6. QED
    BY <1>8, <2>2, <2>3, <2>4, <2>5
<1>9. QED
  BY <1>1, <1>3, <1>4, <1>5, <1>6, <1>7, <1>8
     DEF Talk, Route, Byok, Adopt, Detectable, OAuth

-----------------------------------------------------------------------------
(* Types. *)

RowsOK == VaultTypeOK /\ ai \in Seq(Id)
MemoryOK ==
  /\ setting \in Providers \cup {"none"}
  /\ cache \in [id : Id \cup {NoId}, model : Providers \cup {"none"}]
  /\ ready \in BOOLEAN /\ legacy \in BOOLEAN
  /\ req \in [Actors -> [pc : Early \cup Refreshing \cup {"cached"},
                         id : Id \cup {NoId}, prov : Providers \cup {"none"}]]
  /\ probe \in [pc : {"done", "env", "model", "ask"}, id : Id \cup {NoId}]

\* AiTypeOK by its parts: the rows, the memory of the service and the OAuth sessions.
LEMMA TypesSplit == AiTypeOK /\ ai \in Seq(Id) /\ NoVaultNoRequest <=>
                      RowsOK /\ MemoryOK /\ SessionsOK /\ NoVaultNoRequest
<1>1. {"idle", "drop", "store", "insert", "sync", "remove", "model", "hook", "cached", "exchange"}
        = Early \cup Refreshing \cup {"cached"}
  BY DEF Early, Refreshing
<1>2. QED
  BY <1>1 DEF AiTypeOK, RowsOK, MemoryOK, SessionsOK, SessionsServed, SessionRow,
              NoVaultNoRequest

\* What a run is given has a row, and its model is the provider's.
SettingOK == setting \in Providers \cup {"none"}
GivenOK ==
  /\ EnvOf \in Id \cup {NoId} /\ ModelOf \in Providers \cup {"none"}
  /\ EnvOf # NoId => EnvOf = Active /\ InAi(EnvOf)
  /\ Active # NoId => ModelOf \in {cfg[Active], "none"}

LEMMA GivenTypes == RowsOK /\ SettingOK => GivenOK
BY ActiveHasARow DEF RowsOK, SettingOK, GivenOK, EnvOf, ModelOf, Canonical, DefaultOf

LEMMA GivenTypesNext == (RowsOK /\ SettingOK)' => GivenOK'
BY GivenTypes, PTL

\* A deleted integration takes its key and its connection along.
LEMMA CascadeKeepsRows ==
  ASSUME RowsOK, NEW i, Cascade(i), UNCHANGED vault, behind' \in BOOLEAN
  PROVE  RowsOK'
<1>1. Connected(cfg, ai)
  BY DEF RowsOK, VaultTypeOK, Connected, Live
<1>2. \A k \in DOMAIN ai : ai[k] # i => cfg'[ai[k]] = cfg[ai[k]]
  BY DEF RowsOK, VaultTypeOK, Cascade
<1>3. ai' \in Seq(Id) /\ Connected(cfg', ai')
  BY <1>1, <1>2, WithoutKeeps DEF Cascade, RowsOK
<1>4. /\ cfg' \in [Id -> Providers \cup {"none"}]
      /\ cred' \in [Id -> [enc : KeySources, val : Values] \cup {NoCred}]
      /\ \A j \in Id : cred'[j] # NoCred => cfg'[j] # "none"
  BY DEF RowsOK, VaultTypeOK, Cascade, Live
<1>5. QED
  BY <1>3, <1>4 DEF RowsOK, VaultTypeOK, Connected, Live

\* A key stored for a row that is there.
LEMMA EncryptedKeepsRows ==
  ASSUME RowsOK, NEW i \in Id, Live(i), NEW v \in Values, Encrypted(i, v),
         UNCHANGED <<cfg, ai, vault>>, behind' \in BOOLEAN
  PROVE  RowsOK'
BY DEF RowsOK, VaultTypeOK, Encrypted, Live

\* Nothing happens to the rows.
LEMMA RowsAlone ==
  ASSUME RowsOK, UNCHANGED <<cfg, cred, ai, vault>>, behind' \in BOOLEAN
  PROVE  RowsOK'
BY DEF RowsOK, VaultTypeOK, Live

\* A save takes out what was active and takes a row number for itself.
LEMMA DropKeepsRows ==
  ASSUME AiInv, NEW a \in Actors, NEW i \in Id, SaveDrop(a, i)
  PROVE  RowsOK'
<1> DEFINE old == req[a].id
<1>1. RowsOK /\ req[a].prov \in Providers \cup {"none"}
  BY DEF AiInv, AiTypeOK, RowsOK
<1>2. /\ cfg' = [j \in Id |-> IF j = i THEN req[a].prov ELSE IF j = old THEN "none" ELSE cfg[j]]
      /\ cred' = [j \in Id |-> IF j = old THEN NoCred ELSE cred[j]]
      /\ ai' = Without(ai, old)
      /\ UNCHANGED <<vault, behind>> /\ cfg[i] = "none" /\ i # old
  BY DEF SaveDrop, SaveRest, Fresh, Live
<1>3. Connected(cfg, ai)
  BY <1>1 DEF RowsOK, VaultTypeOK, Connected, Live
<1>4. \A k \in DOMAIN ai : ai[k] # old => cfg'[ai[k]] = cfg[ai[k]]
  BY <1>2, <1>3 DEF Connected
<1>5. ai' \in Seq(Id) /\ Connected(cfg', ai')
  BY <1>1, <1>2, <1>3, <1>4, WithoutKeeps DEF RowsOK
<1>6. /\ cfg' \in [Id -> Providers \cup {"none"}]
      /\ cred' \in [Id -> [enc : KeySources, val : Values] \cup {NoCred}]
      /\ \A j \in Id : cred'[j] # NoCred => cfg'[j] # "none"
  BY <1>1, <1>2, CatalogKnown DEF RowsOK, VaultTypeOK, Live
<1>7. QED
  BY <1>1, <1>2, <1>5, <1>6 DEF RowsOK, VaultTypeOK, Connected, Live

\* The foreign key and the unique index hold of an inserted row.
LEMMA InsertKeepsRows ==
  ASSUME AiInv, NEW a \in Actors, SaveInsert(a)
  PROVE  RowsOK'
<1>1. RowsOK /\ req[a].id \in Id
  BY DEF AiInv, AiTypeOK, RowsOK, SaveHoldsItsRow, SaveInsert
<1>2. CASE Insertable(a)
  <2>1. /\ ai' = Append(ai, req[a].id) /\ UNCHANGED <<cfg, cred, vault, behind>>
        /\ Live(req[a].id) /\ cfg[req[a].id] = req[a].prov
        /\ \A k \in DOMAIN ai : cfg[ai[k]] # cfg[req[a].id]
    BY <1>2 DEF SaveInsert, SaveRest, Insertable, AiInv, SaveHoldsItsRow
  <2>2. ai \in Seq(Id) /\ ai' \in Seq(Id)
    BY <1>1, <2>1 DEF RowsOK
  <2>3. \A k \in DOMAIN ai' : IF k \in DOMAIN ai THEN ai'[k] = ai[k]
                              ELSE k = Len(ai) + 1 /\ ai'[k] = req[a].id
    BY <1>1, <2>1, <2>2
  <2>4. Connected(cfg, ai)
    BY <1>1 DEF RowsOK, VaultTypeOK, Connected, Live
  <2>5. Connected(cfg, ai')
    BY <1>1, <2>1, <2>3, <2>4 DEF Connected, Live
  <2>6. QED
    BY <1>1, <2>1, <2>2, <2>5 DEF RowsOK, VaultTypeOK, Connected, Live
<1>3. CASE ~ Insertable(a)
  BY <1>1, <1>3, RowsAlone DEF SaveInsert, SaveRest, Fails
<1>4. QED
  BY <1>2, <1>3

\* A start leaves the rows as they are, or migrates a legacy key into rows of its own.
LEMMA RestartKeepsRows ==
  ASSUME RowsOK, Restart
  PROVE  RowsOK'
<1>1. vault' \in KeySources /\ behind' = FALSE
  BY DEF Restart, Resolved
<1>2. CASE UNCHANGED <<cfg, cred, ai, setting>>
  BY <1>1, <1>2 DEF RowsOK, VaultTypeOK, Live
<1>3. ASSUME NEW i \in Id, ~ Live(i), Migrated(i), vault' # "none"
      PROVE  RowsOK'
  <2>1. ai' = <<i>> /\ cfg'[i] = "openrouter"
    BY <1>3 DEF Migrated
  <2>2. ai' \in Seq(Id) /\ DOMAIN ai' = {1} /\ ai'[1] = i
    BY <1>3, <2>1
  <2>3. /\ cfg' \in [Id -> Providers \cup {"none"}]
        /\ cred' \in [Id -> [enc : KeySources, val : Values] \cup {NoCred}]
        /\ \A j \in Id : cred'[j] # NoCred => cfg'[j] # "none"
    <3> DEFINE old == Active
    <3>1. /\ cfg' = [j \in Id |-> IF j = i THEN "openrouter" ELSE IF j = old THEN "none" ELSE cfg[j]]
          /\ cred' = [j \in Id |-> IF j = i THEN [enc |-> vault', val |-> "key"]
                                   ELSE IF j = old THEN NoCred ELSE cred[j]]
      BY <1>3 DEF Migrated
    <3> HIDE DEF old
    <3>2. QED
      BY <1>1, <3>1, CatalogKnown DEF RowsOK, VaultTypeOK, Values, Live
  <2>4. QED
    BY <1>1, <2>1, <2>2, <2>3, CatalogKnown DEF RowsOK, VaultTypeOK, Live
<1>4. QED
  BY <1>2, <1>3 DEF Restart, Migrates

\* No step of the process leaves the rows inconsistent.
LEMMA RowsKept == AiInv /\ [AiNext]_aiVars => RowsOK'
<1> SUFFICES ASSUME AiInv, [AiNext]_aiVars PROVE RowsOK'
  OBVIOUS
<1>1. RowsOK /\ behind \in BOOLEAN /\ vault \in KeySources
  BY DEF AiInv, AiTypeOK, RowsOK, VaultTypeOK
<1>2. CASE Talk
  BY <1>1, <1>2, TalkShape, RowsAlone DEF TalkStep, RouteRest, dbVars
<1>3. ASSUME NEW a \in Actors, NEW i \in Id, SaveDrop(a, i)
      PROVE  RowsOK'
  BY <1>3, DropKeepsRows
<1>4. ASSUME NEW a \in Actors, SaveStore(a)
      PROVE  RowsOK'
  <2>1. CASE Live(req[a].id)
    BY <1>1, <1>4, <2>1, EncryptedKeepsRows
       DEF SaveStore, SaveRest, AiInv, SaveHoldsItsRow, Values
  <2>2. CASE ~ Live(req[a].id)
    BY <1>1, <1>4, <2>2, RowsAlone DEF SaveStore, SaveRest, Fails
  <2>3. QED
    BY <2>1, <2>2
<1>5. ASSUME NEW a \in Actors, SaveInsert(a)
      PROVE  RowsOK'
  BY <1>5, InsertKeepsRows
<1>6. ASSUME NEW a \in Actors, SaveSync(a) \/ StoreModel(a) \/ HookEnv(a) \/ HookModel(a)
      PROVE  RowsOK'
  BY <1>1, <1>6, RowsAlone DEF SaveSync, SaveRest, StoreModel, HookEnv, HookModel, Fails, dbVars
<1>7. ASSUME NEW a \in Actors, Remove(a)
      PROVE  RowsOK'
  BY <1>1, <1>7, CascadeKeepsRows DEF Remove
<1>8. CASE Probe
  BY <1>1, <1>8, RowsAlone DEF Probe, ProbeEnv, ProbeModel, ProbeAnswer, ProbeRest
<1>9. CASE Restart
  BY <1>1, <1>9, RestartKeepsRows
<1>10. CASE SettingsRoute
  <2>1. ASSUME NEW i \in Id, SettingsDelete(i)
        PROVE  RowsOK'
    BY <1>1, <2>1, CascadeKeepsRows DEF SettingsDelete
  <2>2. ASSUME NEW i \in Id, SettingsForget(i)
        PROVE  RowsOK'
    BY <1>1, <2>2 DEF SettingsForget, RowsOK, VaultTypeOK, Live
  <2>3. ASSUME NEW i \in Id, NEW v \in Values, SettingsStore(i, v)
        PROVE  RowsOK'
    BY <1>1, <2>3, EncryptedKeepsRows DEF SettingsStore
  <2>4. QED
    BY <1>10, <2>1, <2>2, <2>3 DEF SettingsRoute
<1>11. CASE UNCHANGED aiVars
  BY <1>1, <1>11, RowsAlone DEF aiVars, dbVars
<1>12. QED
  BY <1>2, <1>3, <1>4, <1>5, <1>6, <1>7, <1>8, <1>9, <1>10, <1>11, StepsOfAiNext

\* The requests, the sessions, the probe and the caches.
ServedOK == MemoryOK /\ SessionsOK /\ NoVaultNoRequest /\ SaveHoldsItsRow

LEMMA ServedNow ==
  ASSUME AiInv
  PROVE  RowsOK /\ ServedOK
BY TypesSplit DEF AiInv, ServedOK

LEMMA CanonicalType ==
  ASSUME MemoryOK, NEW p \in Providers \cup {"none"}
  PROVE  Canonical(p) \in {p, "none"}
BY DEF Canonical, DefaultOf

\* A request goes on in the service, whose vault is there.
LEMMA ActingHasVault ==
  ASSUME ServedOK, NEW a \in Actors, req[a].pc # "idle"
  PROVE  vault # "none"
BY DEF ServedOK, NoVaultNoRequest

LEMMA ServedKept == AiInv /\ [AiNext]_aiVars => ServedOK'
<1> SUFFICES ASSUME AiInv, [AiNext]_aiVars PROVE ServedOK'
  OBVIOUS
<1>1. RowsOK /\ ServedOK
  BY ServedNow
<1>2. /\ EnvOf \in Id \cup {NoId} /\ ModelOf \in Providers \cup {"none"}
  BY <1>1, GivenTypes DEF ServedOK, MemoryOK, SettingOK, GivenOK
<1>3. CASE Talk
  <2>1. PICK a \in Actors : TalkStep(a)
    BY <1>3, TalkShape
  <2>2. UNCHANGED <<cfg, cred, ai, vault, behind, setting, cache, ready, probe, legacy>> /\ SessionsOK'
    BY <2>1 DEF TalkStep, RouteRest, dbVars
  <2>3. CASE UNCHANGED req
    BY <1>1, <2>2, <2>3 DEF ServedOK, MemoryOK, SessionsOK, SessionsServed, NoVaultNoRequest,
         SaveHoldsItsRow, Live
  <2>4. ASSUME vault # "none", NEW to \in Early, NEW id \in Id \cup {NoId},
               NEW p \in Providers \cup {"none"},
               req' = [req EXCEPT ![a] = [pc |-> to, id |-> id, prov |-> p]]
        PROVE  ServedOK'
    <3>1. MemoryOK'
      BY <1>1, <2>2, <2>4 DEF ServedOK, MemoryOK
    <3>2. SaveHoldsItsRow'
      BY <1>1, <2>2, <2>4 DEF ServedOK, SaveHoldsItsRow, Live, MemoryOK, Early
    <3>3. QED
      BY <2>2, <2>4, <3>1, <3>2 DEF ServedOK, NoVaultNoRequest
  <2>5. QED
    BY <2>1, <2>3, <2>4 DEF TalkStep
<1>4. ASSUME NEW a \in Actors, NEW i \in Id, SaveDrop(a, i)
      PROVE  ServedOK'
  <2>1. /\ req' = [req EXCEPT ![a].pc = "store", ![a].id = i]
        /\ cfg' = [j \in Id |-> IF j = i THEN req[a].prov ELSE IF j = req[a].id THEN "none" ELSE cfg[j]]
        /\ UNCHANGED <<behind, setting, sess, vault, cache, ready, probe, legacy>>
        /\ \A b \in Actors : req[b].id # i
        /\ req[a].pc = "drop"
    BY <1>4 DEF SaveDrop, SaveRest, Fresh
  <2>2. vault # "none"
    BY <1>1, <2>1, ActingHasVault
  <2>3. MemoryOK' /\ SessionsOK'
    BY <1>1, <2>1 DEF ServedOK, MemoryOK, Refreshing, SessionsOK, SessionsServed
  <2>4. SaveHoldsItsRow'
    BY <1>1, <2>1 DEF ServedOK, MemoryOK, SaveHoldsItsRow, Live
  <2>5. QED
    BY <2>1, <2>2, <2>3, <2>4 DEF ServedOK, NoVaultNoRequest
<1>5. ASSUME NEW a \in Actors, SaveStore(a) \/ SaveInsert(a) \/ SaveSync(a) \/ StoreModel(a)
                                 \/ HookEnv(a) \/ HookModel(a) \/ Remove(a)
      PROVE  ServedOK'
  <2>1. req[a].pc # "idle" /\ vault # "none" /\ UNCHANGED <<vault, probe, legacy>>
    BY <1>1, <1>5, ActingHasVault
       DEF SaveStore, SaveInsert, SaveSync, StoreModel, HookEnv, HookModel, Remove, SaveRest, dbVars
  <2>2. /\ req[a] \in [pc : Early \cup Refreshing \cup {"cached"}, id : Id \cup {NoId},
                       prov : Providers \cup {"none"}]
        /\ IdleReq \in [pc : Early \cup Refreshing \cup {"cached"}, id : Id \cup {NoId},
                        prov : Providers \cup {"none"}]
    BY <1>1 DEF ServedOK, MemoryOK, IdleReq, Early
  <2>3. /\ \/ \E to \in {"insert", "sync", "hook", "cached"} :
                req' = [req EXCEPT ![a].pc = to] /\ (to = "insert" => req[a].pc = "store") /\ UNCHANGED sess
           \/ (\E to \in {"idle", "hook"} : req' = [req EXCEPT ![a] = [IdleReq EXCEPT !.pc = to]])
                /\ UNCHANGED sess
           \/ \E outcome \in Terminal : Ends(a, outcome)
    BY <1>5 DEF SaveStore, SaveInsert, SaveSync, StoreModel, HookEnv, HookModel, Remove,
         Goes, Fails, AfterRemove, AfterModel, Terminal
  <2>4. \/ UNCHANGED cfg
        \/ \E i : cfg' = [cfg EXCEPT ![i] = "none"]
    BY <1>5 DEF SaveStore, SaveInsert, SaveSync, StoreModel, HookEnv, HookModel, Remove, Cascade,
         dbVars
  <2>5. SessionsOK'
    BY <1>1, <2>1, <2>3, EndsKeepsSessions DEF ServedOK, SessionsOK, SessionsServed
  <2>6. req' \in [Actors -> [pc : Early \cup Refreshing \cup {"cached"},
                             id : Id \cup {NoId}, prov : Providers \cup {"none"}]]
    BY <1>1, <2>2, <2>3 DEF ServedOK, MemoryOK, Ends, IdleReq, Early, Refreshing
  <2>7. SaveHoldsItsRow'
    <3>1. ASSUME NEW b \in Actors, req'[b].pc \in {"store", "insert"}
          PROVE  /\ req[b].pc \in {"store", "insert"}
                 /\ req'[b].id = req[b].id /\ req'[b].prov = req[b].prov
      BY <1>1, <2>2, <2>3, <3>1 DEF ServedOK, MemoryOK, Ends, IdleReq
    <3>2. ASSUME NEW b \in Actors, req'[b].pc \in {"store", "insert"}
          PROVE  req[b].id \in Id /\ (cfg[req[b].id] # "none" => cfg[req[b].id] = req[b].prov)
      BY <1>1, <3>1, <3>2 DEF ServedOK, SaveHoldsItsRow, Live
    <3>3. cfg \in [Id -> Providers \cup {"none"}]
      BY <1>1 DEF RowsOK, VaultTypeOK
    <3>4. \A j \in Id : cfg'[j] # "none" => cfg'[j] = cfg[j]
      BY <2>4, <3>3
    <3>5. QED
      BY <3>1, <3>2, <3>4 DEF SaveHoldsItsRow, Live
  <2>8. /\ setting' \in Providers \cup {"none"}
        /\ cache' \in [id : Id \cup {NoId}, model : Providers \cup {"none"}]
        /\ ready' \in BOOLEAN
    BY <1>1, <1>2, <1>5, <2>2, CanonicalType
       DEF ServedOK, MemoryOK, SaveStore, SaveInsert, SaveSync, StoreModel, HookEnv, HookModel,
           Remove, SaveRest
  <2>9. QED
    BY <1>1, <2>1, <2>5, <2>6, <2>7, <2>8 DEF ServedOK, MemoryOK, NoVaultNoRequest
<1>6. CASE Probe
  <2>1. UNCHANGED <<cfg, cred, ai, vault, setting, req, sess, legacy>>
    BY <1>6 DEF Probe, ProbeEnv, ProbeModel, ProbeAnswer, ProbeRest
  <2>2. /\ cache' \in [id : Id \cup {NoId}, model : Providers \cup {"none"}]
        /\ ready' \in BOOLEAN
        /\ probe' \in [pc : {"done", "env", "model", "ask"}, id : Id \cup {NoId}]
    <3>1. CASE ProbeEnv
      <4>1. ready' = ready \/ ready' = FALSE
        BY <3>1 DEF ProbeEnv
      <4>2. cache' \in [id : Id \cup {NoId}, model : Providers \cup {"none"}]
        BY <1>1, <1>2, <3>1 DEF ServedOK, MemoryOK, ProbeEnv, EmptyCache
      <4>3. probe' \in [pc : {"done", "env", "model", "ask"}, id : Id \cup {NoId}]
        BY <3>1 DEF ProbeEnv, NoProbe
      <4>4. QED
        BY <1>1, <4>1, <4>2, <4>3 DEF ServedOK, MemoryOK
    <3>2. CASE ProbeModel
      <4>1. ready' \in BOOLEAN
        BY <1>1, <3>2 DEF ServedOK, MemoryOK, ProbeModel
      <4>2. cache' \in [id : Id \cup {NoId}, model : Providers \cup {"none"}]
        BY <1>1, <1>2, <3>2 DEF ServedOK, MemoryOK, ProbeModel
      <4>3. probe' \in [pc : {"done", "env", "model", "ask"}, id : Id \cup {NoId}]
        BY <1>1, <1>2, <3>2 DEF ServedOK, MemoryOK, ProbeModel, NoProbe
      <4>4. QED
        BY <4>1, <4>2, <4>3
    <3>3. ASSUME NEW v, ProbeAnswer(v)
          PROVE  /\ cache' \in [id : Id \cup {NoId}, model : Providers \cup {"none"}]
                 /\ ready' \in BOOLEAN
                 /\ probe' \in [pc : {"done", "env", "model", "ask"}, id : Id \cup {NoId}]
      <4>1. cache' = cache /\ ready' \in BOOLEAN /\ probe' = NoProbe
        BY <3>3 DEF ProbeAnswer
      <4>2. QED
        BY <1>1, <4>1 DEF ServedOK, MemoryOK, NoProbe
    <3>4. QED
      BY <1>6, <3>1, <3>2, <3>3 DEF Probe
  <2>3. vault = "none" => probe'.pc \in {"env", "done"}
    BY <1>1, <1>6 DEF ServedOK, NoVaultNoRequest, Probe, ProbeEnv, ProbeModel, ProbeAnswer, NoProbe
  <2>4. QED
    BY <1>1, <2>1, <2>2, <2>3 DEF ServedOK, MemoryOK, SessionsOK, SessionsServed,
         NoVaultNoRequest, SaveHoldsItsRow, Live
<1>7. CASE Restart
  <2>1. /\ req' = [a \in Actors |-> IdleReq] /\ sess' = [s \in Sessions |-> NoSession]
        /\ probe' = [pc |-> "env", id |-> NoId] /\ UNCHANGED legacy
        /\ setting' = setting \/ setting' = Canonical("openrouter")
    BY <1>7 DEF Restart, Migrated
  <2>2. setting' \in Providers \cup {"none"}
    BY <1>1, <2>1, CanonicalType, CatalogKnown DEF ServedOK, MemoryOK
  <2>3. RowsOK'
    BY RowsKept
  <2>4. EnvOf' \in Id \cup {NoId} /\ ModelOf' \in Providers \cup {"none"}
    BY <2>2, <2>3, GivenTypesNext DEF SettingOK, GivenOK
  <2>5. cache' \in [id : Id \cup {NoId}, model : Providers \cup {"none"}] /\ ready' \in BOOLEAN
    <3>1. WarmUp
      BY <1>7 DEF Restart
    <3>2. CASE Warmed(NoId, "none")
      BY <3>2 DEF Warmed
    <3>3. CASE Warmed(EnvOf', ModelOf')
      <4>1. cache' = [id |-> EnvOf', model |-> ModelOf'] /\ ready' = (EnvOf' # NoId)
        BY <3>3 DEF Warmed
      <4>2. ready' \in BOOLEAN
        BY <4>1
      <4>3. QED
        BY <2>4, <4>1, <4>2
    <3>4. QED
      BY <3>1, <3>2, <3>3 DEF WarmUp
  <2>6. QED
    BY <1>1, <2>1, <2>2, <2>5 DEF ServedOK, MemoryOK, SessionsOK, SessionsServed, SessionRow,
         NoSession, IdleReq, NoVaultNoRequest, SaveHoldsItsRow, Early
<1>8. CASE SettingsRoute /\ UNCHANGED memVars
  <2>1. UNCHANGED <<vault, setting, cache, ready, req, sess, probe, legacy>>
    BY <1>8 DEF SettingsRoute, SettingsDelete, SettingsForget, SettingsStore, memVars
  <2>2. UNCHANGED cfg \/ \E i \in Id : cfg' = [cfg EXCEPT ![i] = "none"]
    BY <1>8 DEF SettingsRoute, SettingsDelete, SettingsForget, SettingsStore, Cascade
  <2>3. cfg \in [Id -> Providers \cup {"none"}]
    BY <1>1 DEF RowsOK, VaultTypeOK
  <2>4. \A j \in Id : cfg'[j] # "none" => cfg'[j] = cfg[j]
    BY <2>2, <2>3
  <2>5. QED
    BY <1>1, <2>1, <2>4 DEF ServedOK, MemoryOK, SessionsOK, SessionsServed, NoVaultNoRequest,
         SaveHoldsItsRow, Live
<1>9. CASE UNCHANGED aiVars
  BY <1>1, <1>9 DEF aiVars, dbVars, memVars, ServedOK, MemoryOK, SessionsOK, SessionsServed,
       NoVaultNoRequest, SaveHoldsItsRow, Live
<1>10. QED
  BY <1>3, <1>4, <1>5, <1>6, <1>7, <1>8, <1>9, StepsOfAiNext

-----------------------------------------------------------------------------
(* The caches. *)

CachesRight == KeyIsRight /\ ModelIsRight /\ HalfWayIsReadable

\* Before its hook a request that changed the rows, and a change no hook follows, excuse
\* the caches.
LEMMA Unsettled ==
  ASSUME \/ behind' = TRUE
         \/ \E a \in Actors : req'[a].pc \in Refreshing
  PROVE  CachesRight'
BY DEF CachesRight, KeyIsRight, ModelIsRight, HalfWayIsReadable, Settled

\* Neither the rows nor the caches change, and no request begins or ends a refresh.
LEMMA CachesAlone ==
  ASSUME CachesRight, UNCHANGED <<cfg, cred, ai, vault, behind, setting, cache>>,
         \A a \in Actors : req'[a].pc = req[a].pc
                             \/ (req'[a].pc \in Early /\ req[a].pc \in Early),
         probe'.pc = "model" <=> probe.pc = "model"
  PROVE  CachesRight'
<1>1. \A a \in Actors : /\ req'[a].pc \in Refreshing <=> req[a].pc \in Refreshing
                        /\ req'[a].pc = "cached" <=> req[a].pc = "cached"
  BY DEF Early, Refreshing
<1>2. (Settled' <=> Settled) /\ (HalfWay' <=> HalfWay)
  BY <1>1 DEF Settled, HalfWay
<1>3. EnvRaises' = EnvRaises /\ RightKey' = RightKey /\ RightModel' = RightModel
  BY RowsDecide
<1>4. QED
  BY <1>2, <1>3 DEF CachesRight, KeyIsRight, ModelIsRight, HalfWayIsReadable

\* The invariant of the caches, action by action.
LEMMA CachesKept == AiInv /\ [AiNext]_aiVars => CachesRight'
<1> SUFFICES ASSUME AiInv, [AiNext]_aiVars PROVE CachesRight'
  OBVIOUS
<1>1. RowsOK /\ ServedOK /\ CachesRight
  BY ServedNow DEF AiInv, CachesRight
<1>2. /\ req \in [Actors -> [pc : Early \cup Refreshing \cup {"cached"},
                             id : Id \cup {NoId}, prov : Providers \cup {"none"}]]
      /\ cache \in [id : Id \cup {NoId}, model : Providers \cup {"none"}]
  BY <1>1 DEF ServedOK, MemoryOK
<1>3. CASE Talk
  <2>1. PICK a \in Actors : TalkStep(a)
    BY <1>3, TalkShape
  <2>2. UNCHANGED <<cfg, cred, ai, vault, behind, setting, cache, probe>>
    BY <2>1 DEF TalkStep, RouteRest, dbVars
  <2>3. \A b \in Actors : req'[b].pc = req[b].pc \/ (req'[b].pc \in Early /\ req[b].pc \in Early)
    BY <1>2, <2>1 DEF TalkStep, Early
  <2>4. QED
    BY <1>1, <2>2, <2>3, CachesAlone
<1>4. ASSUME NEW a \in Actors,
             (\E i \in Id : SaveDrop(a, i)) \/ SaveStore(a) \/ SaveInsert(a) \/ SaveSync(a)
               \/ Remove(a) \/ StoreModel(a)
      PROVE  CachesRight'
  <2>1. behind' = TRUE \/ req'[a].pc \in Refreshing
    <3>1. ASSUME NEW i \in Id, SaveDrop(a, i)
          PROVE  req'[a].pc = "store"
      BY <1>2, <3>1 DEF SaveDrop
    <3>2. SaveStore(a) \/ SaveInsert(a) \/ SaveSync(a) =>
            behind' = TRUE \/ req'[a].pc \in {"insert", "sync", "hook"}
      BY <1>2 DEF SaveStore, SaveInsert, SaveSync, Fails, Goes
    <3>3. Remove(a) \/ StoreModel(a) => req'[a] = [IdleReq EXCEPT !.pc = "hook"]
      BY <1>2 DEF Remove, StoreModel, AfterRemove, AfterModel
    <3>4. [IdleReq EXCEPT !.pc = "hook"].pc = "hook"
      BY DEF IdleReq
    <3>5. QED
      BY <1>4, <3>1, <3>2, <3>3, <3>4 DEF Refreshing
  <2>2. QED
    BY <2>1, Unsettled
<1>5. ASSUME NEW a \in Actors, HookEnv(a)
      PROVE  CachesRight'
  <2>1. CASE EnvRaises
    BY <1>5, <2>1, Unsettled DEF HookEnv, Fails
  <2>2. CASE ~ EnvRaises
    <3>1. /\ cache' = [cache EXCEPT !.id = EnvOf] /\ req' = [req EXCEPT ![a].pc = "cached"]
          /\ UNCHANGED <<cfg, cred, ai, vault, setting>>
          /\ req[a].pc = "hook"
      BY <1>5, <2>2 DEF HookEnv, Goes
    <3>2. vault # "none"
      BY <1>1, <3>1, ActingHasVault
    <3>3. ~ EnvRaises' /\ cache'.id = EnvOf /\ RightKey' = EnvOf
      BY <1>2, <2>2, <3>1, <3>2, RowsDecide DEF RightKey, Unreadable
    <3>4. HalfWay'
      BY <1>2, <3>1 DEF HalfWay
    <3>5. QED
      BY <3>3, <3>4 DEF CachesRight, KeyIsRight, ModelIsRight, HalfWayIsReadable
  <2>3. QED
    BY <2>1, <2>2
<1>6. ASSUME NEW a \in Actors, HookModel(a)
      PROVE  CachesRight'
  <2>1. /\ cache' = [cache EXCEPT !.model = ModelOf] /\ req' = [req EXCEPT ![a] = IdleReq]
        /\ UNCHANGED <<cfg, cred, ai, vault, behind, setting, probe>>
        /\ req[a].pc = "cached"
    BY <1>6 DEF HookModel, Ends, dbVars
  <2>2. vault # "none"
    BY <1>1, <2>1, ActingHasVault
  <2>3. HalfWay /\ (Settled' => Settled)
    BY <1>2, <2>1 DEF HalfWay, Settled, Refreshing
  <2>4. Settled' => ~ EnvRaises' /\ RightModel' = ModelOf /\ cache.id = RightKey'
    BY <1>1, <2>1, <2>2, <2>3, RowsDecide
       DEF CachesRight, KeyIsRight, HalfWayIsReadable, RightModel, Unreadable
  <2>5. cache'.model = ModelOf /\ cache'.id = cache.id
    BY <1>2, <2>1
  <2>6. QED
    BY <2>4, <2>5 DEF CachesRight, KeyIsRight, ModelIsRight, HalfWayIsReadable
<1>7. CASE ProbeEnv
  <2>1. UNCHANGED <<cfg, cred, ai, vault, setting, req>>
    BY <1>7 DEF ProbeEnv, ProbeRest
  <2>2. CASE Unreadable
    <3>1. cache' = EmptyCache /\ probe' = NoProbe /\ UNCHANGED behind /\ probe.pc = "env"
      BY <1>7, <2>2 DEF ProbeEnv, Unreadable
    <3>2. RightKey' = NoId /\ RightModel' = "none" /\ EnvRaises' = EnvRaises
      BY <2>1, <2>2, RowsDecide DEF RightKey, RightModel
    <3>3. (Settled' <=> Settled) /\ (HalfWay' <=> HalfWay)
      BY <2>1, <3>1 DEF Settled, HalfWay, NoProbe
    <3>4. QED
      BY <1>1, <3>1, <3>2, <3>3
         DEF CachesRight, KeyIsRight, ModelIsRight, HalfWayIsReadable, EmptyCache
  <2>3. CASE ~ Unreadable
    <3>1. /\ cache' = [cache EXCEPT !.id = EnvOf] /\ probe' = [pc |-> "model", id |-> NoId]
          /\ ~ EnvRaises
      BY <1>7, <2>3 DEF ProbeEnv, Unreadable
    <3>2. ~ EnvRaises' /\ cache'.id = EnvOf /\ RightKey' = EnvOf
      BY <1>2, <2>1, <2>3, <3>1, RowsDecide DEF RightKey
    <3>3. HalfWay'
      BY <3>1 DEF HalfWay
    <3>4. QED
      BY <3>2, <3>3 DEF CachesRight, KeyIsRight, ModelIsRight, HalfWayIsReadable
  <2>4. QED
    BY <2>2, <2>3
<1>8. CASE ProbeModel
  <2>1. /\ probe.pc = "model" /\ cache' = [cache EXCEPT !.model = ModelOf]
        /\ UNCHANGED <<cfg, cred, ai, vault, behind, setting, req>>
    BY <1>8 DEF ProbeModel, ProbeRest
  <2>2. vault # "none"
    BY <1>1, <2>1 DEF ServedOK, NoVaultNoRequest
  <2>3. HalfWay /\ (Settled' => Settled)
    BY <2>1 DEF HalfWay, Settled
  <2>4. Settled' => ~ EnvRaises' /\ RightModel' = ModelOf /\ cache.id = RightKey'
    BY <1>1, <2>1, <2>2, <2>3, RowsDecide
       DEF CachesRight, KeyIsRight, HalfWayIsReadable, RightModel, Unreadable
  <2>5. cache'.model = ModelOf /\ cache'.id = cache.id
    BY <1>2, <2>1
  <2>6. QED
    BY <2>4, <2>5 DEF CachesRight, KeyIsRight, ModelIsRight, HalfWayIsReadable
<1>9. ASSUME NEW v, ProbeAnswer(v)
      PROVE  CachesRight'
  <2>1. /\ UNCHANGED <<cfg, cred, ai, vault, behind, setting, cache, req>>
        /\ probe.pc = "ask" /\ probe' = NoProbe
    BY <1>9 DEF ProbeAnswer, ProbeRest
  <2>2. QED
    BY <1>1, <2>1, CachesAlone DEF NoProbe
<1>10. CASE Restart
  <2>1. WarmUp /\ req' = [a \in Actors |-> IdleReq] /\ probe' = [pc |-> "env", id |-> NoId]
    BY <1>10 DEF Restart
  <2>2. EnvRaises' <=> /\ Active' # NoId /\ Keyed(cfg'[Active']) /\ cred'[Active'] # NoCred
                       /\ cred'[Active'].enc # vault'
    BY DEF EnvRaises, Undecryptable, Missing, Keyed
  <2>3. IF Unreadable' THEN Warmed(NoId, "none") ELSE Warmed(EnvOf', ModelOf')
    BY <2>1, <2>2 DEF WarmUp, Unreadable
  <2>4. cache' = [id |-> RightKey', model |-> RightModel']
    BY <2>3 DEF Warmed, RightKey, RightModel
  <2>5. ~ HalfWay'
    BY <2>1 DEF HalfWay, IdleReq
  <2>6. QED
    BY <2>4, <2>5 DEF CachesRight, KeyIsRight, ModelIsRight, HalfWayIsReadable
<1>11. CASE SettingsRoute
  BY <1>11, Unsettled DEF SettingsRoute, SettingsDelete, SettingsForget, SettingsStore
<1>12. CASE UNCHANGED aiVars
  BY <1>1, <1>12, CachesAlone DEF aiVars, dbVars, memVars
<1>13. QED
  BY <1>3, <1>4, <1>5, <1>6, <1>7, <1>8, <1>9, <1>10, <1>11, <1>12, StepsOfAiNext DEF Probe

LEMMA AiInvInit == AiInit => AiInv
<1> SUFFICES ASSUME AiInit PROVE AiInv
  OBVIOUS
<1>1. ai \in Seq(Id) /\ DOMAIN ai = {}
  BY DEF AiInit, VaultInit
<1>2. Active = NoId /\ ~ EnvRaises /\ EnvOf = NoId /\ ModelOf = "none"
  BY DEF AiInit, VaultInit, Active, EnvRaises, EnvOf, ModelOf
<1>3. AiTypeOK
  BY <1>1 DEF AiInit, VaultInit, AiTypeOK, VaultTypeOK, EmptyCache, IdleReq, NoSession, NoProbe
<1>4. NoVaultNoRequest /\ SaveHoldsItsRow
  BY DEF AiInit, NoVaultNoRequest, SaveHoldsItsRow, IdleReq, NoSession, NoProbe
<1>5. CachesRight
  BY <1>2 DEF AiInit, CachesRight, KeyIsRight, ModelIsRight, HalfWayIsReadable, EmptyCache,
       RightKey, RightModel
<1>6. QED
  BY <1>1, <1>3, <1>4, <1>5 DEF AiInv, CachesRight

LEMMA AiInvParts == RowsOK /\ ServedOK /\ CachesRight => AiInv
BY TypesSplit DEF ServedOK, CachesRight, AiInv

LEMMA AiInvPartsNext == (RowsOK /\ ServedOK /\ CachesRight)' => AiInv'
BY AiInvParts, PTL

LEMMA AiInvKept == AiInv /\ [AiNext]_aiVars => AiInv'
<1> SUFFICES ASSUME AiInv, [AiNext]_aiVars PROVE AiInv'
  OBVIOUS
<1>1. RowsOK' /\ ServedOK' /\ CachesRight'
  BY RowsKept, ServedKept, CachesKept
<1>2. QED
  BY <1>1, AiInvPartsNext

\* The cached key is the active provider's (none, when it cannot be read) except between a
\* change and its hook; the cached model is that key's except between the two halves of a
\* refresh, which never takes place over a key that cannot be read; a save under way holds
\* a row of its own provider or none; and without a vault no request is under way.
THEOREM AiInvariance == AiSpec => []AiInv
BY AiInvInit, AiInvKept, PTL DEF AiSpec

\* The rows respect the schema's unique index and foreign keys, and a session that waits has
\* its listener, whatever saves, disconnects, settings routes and restarts interleave.
THEOREM AiTypeCorrect == AiSpec => []AiTypeOK
<1>1. AiInv => AiTypeOK
  BY DEF AiInv
<1>2. QED
  BY <1>1, AiInvariance, PTL

\* With no change under way a run is given the active provider's key and the model chosen for
\* it, or nothing when the vault cannot read them, and with both it can be built.
THEOREM TheCacheIsCurrent == AiSpec => []CacheIsCurrent
<1>1. ASSUME AiInv PROVE CacheIsCurrent
  <2> SUFFICES ASSUME Quiet, ~ behind
               PROVE  /\ cache = IF vault = "none" \/ EnvRaises THEN EmptyCache
                                 ELSE [id |-> EnvOf, model |-> ModelOf]
                      /\ cache.id # NoId /\ cache.model # "none" => Builds
    BY DEF CacheIsCurrent
  <2>1. Settled /\ ~ HalfWay
    BY DEF Quiet, Settled, HalfWay, Refreshing
  <2>2. cache.id = RightKey /\ cache.model = RightModel
    BY <1>1, <2>1 DEF AiInv, KeyIsRight, ModelIsRight
  <2>3. cache \in [id : Id \cup {NoId}, model : Providers \cup {"none"}] /\ GivenOK
    BY <1>1, ServedNow, GivenTypes DEF ServedOK, MemoryOK, SettingOK
  <2>4. cache = [id |-> RightKey, model |-> RightModel]
    BY <2>2, <2>3
  <2>5. cache = IF vault = "none" \/ EnvRaises THEN EmptyCache
                ELSE [id |-> EnvOf, model |-> ModelOf]
    BY <2>4 DEF RightKey, RightModel, Unreadable, EmptyCache
  <2>6. ASSUME cache.id # NoId, cache.model # "none"
        PROVE  Builds
    BY <2>2, <2>3, <2>6 DEF Builds, RightKey, RightModel, GivenOK
  <2>7. QED
    BY <2>5, <2>6
<1>2. QED
  BY <1>1, AiInvariance, PTL

\* A key whose row is gone is handed to runs only until the hook of a change under way, or
\* after a change that no hook follows.
THEOREM KeysGoWithTheirRows == AiSpec => []NoKeyOutlivesItsRow
<1>1. ASSUME AiInv PROVE NoKeyOutlivesItsRow
  <2>1. GivenOK
    BY <1>1, ServedNow, GivenTypes DEF ServedOK, MemoryOK, SettingOK
  <2>2. Settled /\ cache.id # NoId => InAi(cache.id)
    BY <1>1, <2>1 DEF AiInv, KeyIsRight, RightKey, GivenOK
  <2>3. QED
    BY <2>2 DEF NoKeyOutlivesItsRow, Settled, Refreshing
<1>2. QED
  BY <1>1, AiInvariance, PTL

\* The migration of a legacy key never replaces what the user has connected.
THEOREM RestartsKeepTheProvider == AiSpec => RestartKeepsTheProvider
<1>1. [AiNext]_aiVars => (Restart /\ ai # <<>> => ai' = ai)
  BY DEF Restart, Migrates, NothingConnected
<1>2. QED
  BY <1>1, PTL DEF AiSpec, RestartKeepsTheProvider
=============================================================================
