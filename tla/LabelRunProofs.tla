--------------------------- MODULE LabelRunProofs ---------------------------
(* PrintRun implements LabelRun, for any set of tape widths, any number of *)
(* labels, either model, with and without idle polling.                    *)
EXTENDS PrintRunProofs

(* A job fails only on its way out.                                        *)
LEMMA JobStepInv ==
    ASSUME TypeOK, OwnerInv, PendingInv, JobInv, [Next]_vars
    PROVE  JobInv'
<1>0. Extended' = Extended /\ Extended \in BOOLEAN
  BY DEF Next, vars, Extended
<1> USE <1>0 DEF TypeOK, Batches, JobStates, Records, Processing, JobSteps,
    CutSteps, queue, poller, printer, history, NoJob, NewJob, PolicyFor,
    Nothing, Policies, JobInv, PendingInv, OwnerInv
<1>1. CASE BeginJob
  BY <1>1 DEF BeginJob, NewJob, PolicyFor
<1>2. CASE Cancel
  BY <1>2 DEF Cancel
<1>3. CASE RefuseJob
  BY <1>3 DEF RefuseJob
<1>4. CASE AcceptJob
  BY <1>4 DEF AcceptJob
<1>5. CASE AllocBatch
  BY <1>5 DEF AllocBatch, NewBatch
<1>6. CASE RejectPage
  BY <1>6 DEF RejectPage, FailJob
<1>7. CASE StopWaiting
  BY <1>7 DEF StopWaiting, FailJob
<1>8. CASE ReadChain
  BY <1>8 DEF ReadChain, ChainOpen
<1>9. CASE ClaimRun
  BY <1>9 DEF ClaimRun
<1>10. CASE SetupPage
  BY <1>10 DEF SetupPage, Autocut
<1>11. CASE SetupFails
  BY <1>11 DEF SetupFails, FailJob
<1>12. CASE ReleaseAdvanced
  BY <1>12 DEF ReleaseAdvanced
<1>13. CASE ReleaseLabel
  BY <1>13 DEF ReleaseLabel
<1>14. CASE ReleaseInterrupted
  BY <1>14 DEF ReleaseInterrupted, ReleaseFails, FailJob, NoBatch, NewBatch
<1>15. CASE LabelReady
  BY <1>15 DEF LabelReady, RunAfterRelease, NoBatch, NewBatch
<1>16. CASE LabelNotReady
  BY <1>16 DEF LabelNotReady, ReleaseFails, FailJob, NoBatch, NewBatch
<1>17. CASE WriteRows
  BY <1>17 DEF WriteRows
<1>18. CASE RowsFail
  BY <1>18 DEF RowsFail, FailJob
<1>19. CASE EndPage
  BY <1>19 DEF EndPage
<1>20. CASE EndPageCanceled
  BY <1>20 DEF EndPageCanceled, FailJob
<1>21. CASE EndInput
  BY <1>21 DEF EndInput, FailJob
<1>22. CASE EndJob
  BY <1>22 DEF EndJob, EndsNormally, NoBatch, NewBatch
<1>23. CASE FinishJob
  BY <1>23 DEF FinishJob
<1>24. CASE BeginCut
  BY <1>24 DEF BeginCut
<1>25. CASE CutRecheck
  BY <1>25 DEF CutRecheck, EndCut
<1>26. CASE CutClaim
  BY <1>26 DEF CutClaim
<1>27. CASE CutWrite
  BY <1>27 DEF CutWrite
<1>28. CASE CutReady
  BY <1>28 DEF CutReady, EndCut
<1>29. CASE CutFails
  BY <1>29 DEF CutFails, EndCut
<1>30. CASE PollBegin
  BY <1>30 DEF PollBegin
<1>31. CASE PollCount
  BY <1>31 DEF PollCount
<1>32. CASE PollAbsent
  BY <1>32 DEF PollAbsent, BreakChain
<1>33. CASE PollOpen
  BY <1>33 DEF PollOpen
<1>34. CASE PollRefused
  BY <1>34 DEF PollRefused
<1>35. CASE PollPublish
  BY <1>35 DEF PollPublish, PublishTape, BreakChain
<1>36. CASE SwapTape
  BY <1>36 DEF SwapTape
<1>37. CASE Disconnect
  BY <1>37 DEF Disconnect
<1>38. CASE Reconnect
  BY <1>38 DEF Reconnect
<1>39. CASE Restart
  BY <1>39 DEF Restart, NoBatch, NewBatch
<1>40. ASSUME NEW t \in Tapes, StartPage(t) PROVE JobInv'
  BY <1>40 DEF StartPage, TakePage
<1>41. ASSUME NEW r \in Readings, RefreshMedia(r) PROVE JobInv'
  BY <1>41 DEF RefreshMedia, PublishTape, BreakChain, Seen
<1>42. ASSUME NEW r \in Readings, WaitTape(r) PROVE JobInv'
  BY <1>42 DEF WaitTape, PublishTape, BreakChain, Seen, TakePage
<1>43. ASSUME NEW r \in Readings, CutRead(r) PROVE JobInv'
  BY <1>43 DEF CutRead, PublishTape, BreakChain, EndCut
<1>44. ASSUME NEW r \in Readings, PollRead(r) PROVE JobInv'
  BY <1>44 DEF PollRead
<1>45. CASE UNCHANGED vars
  BY <1>45 DEF vars
<1> QED
  BY <1>1, <1>2, <1>3, <1>4, <1>5, <1>6, <1>7, <1>8, <1>9, <1>10, <1>11,
     <1>12, <1>13, <1>14, <1>15, <1>16, <1>17, <1>18, <1>19, <1>20, <1>21,
     <1>22, <1>23, <1>24, <1>25, <1>26, <1>27, <1>28, <1>29, <1>30, <1>31,
     <1>32, <1>33, <1>34, <1>35, <1>36, <1>37, <1>38, <1>39, <1>40, <1>41,
     <1>42, <1>43, <1>44, <1>45
     DEF Next, JobStep, CutStep, PollStep, World

(* Labels are released one by one, each after it was accepted.             *)
LEMMA CountStep ==
    ASSUME TypeOK, OwnerInv, PendingInv, UncertainInv, JobInv, CountInv, [Next]_vars
    PROVE  CountInv'
<1>0. Extended' = Extended /\ Extended \in BOOLEAN
  BY DEF Next, vars, Extended
<1> USE <1>0 DEF TypeOK, Batches, JobStates, Records, Processing, JobSteps,
    CutSteps, queue, poller, printer, history, NoJob, NewJob, PolicyFor,
    Nothing, Policies, JobInv, PendingInv, OwnerInv, UncertainInv, CountInv
<1>1. CASE BeginJob
  BY <1>1 DEF BeginJob, NewJob, PolicyFor
<1>2. CASE Cancel
  BY <1>2 DEF Cancel
<1>3. CASE RefuseJob
  BY <1>3 DEF RefuseJob
<1>4. CASE AcceptJob
  BY <1>4 DEF AcceptJob
<1>5. CASE AllocBatch
  <2>1. done.labels = 0 /\ done.emitted = 0 /\ pc' = "between" /\ done' = done
    BY <1>5 DEF AllocBatch, NewBatch
  <2>2. ~batch'.pending
    BY <1>5 DEF AllocBatch, NewBatch
  <2> QED BY <2>1, <2>2
<1>6. CASE RejectPage
  BY <1>6 DEF RejectPage, FailJob
<1>7. CASE StopWaiting
  BY <1>7 DEF StopWaiting, FailJob
<1>8. CASE ReadChain
  BY <1>8 DEF ReadChain, ChainOpen
<1>9. CASE ClaimRun
  BY <1>9 DEF ClaimRun
<1>10. CASE SetupPage
  BY <1>10 DEF SetupPage, Autocut
<1>11. CASE SetupFails
  BY <1>11 DEF SetupFails, FailJob
<1>12. CASE ReleaseAdvanced
  BY <1>12 DEF ReleaseAdvanced
<1>13. CASE ReleaseLabel
  BY <1>13 DEF ReleaseLabel
<1>14. CASE ReleaseInterrupted
  BY <1>14 DEF ReleaseInterrupted, ReleaseFails, FailJob, NoBatch, NewBatch
<1>15. CASE LabelReady
  BY <1>15 DEF LabelReady, RunAfterRelease, NoBatch, NewBatch
<1>16. CASE LabelNotReady
  BY <1>16 DEF LabelNotReady, ReleaseFails, FailJob, NoBatch, NewBatch
<1>17. CASE WriteRows
  BY <1>17 DEF WriteRows
<1>18. CASE RowsFail
  BY <1>18 DEF RowsFail, FailJob
<1>19. CASE EndPage
  BY <1>19 DEF EndPage
<1>20. CASE EndPageCanceled
  BY <1>20 DEF EndPageCanceled, FailJob
<1>21. CASE EndInput
  BY <1>21 DEF EndInput, FailJob
<1>22. CASE EndJob
  BY <1>22 DEF EndJob, EndsNormally, NoBatch, NewBatch
<1>23. CASE FinishJob
  BY <1>23 DEF FinishJob
<1>24. CASE BeginCut
  BY <1>24 DEF BeginCut
<1>25. CASE CutRecheck
  BY <1>25 DEF CutRecheck, EndCut
<1>26. CASE CutClaim
  BY <1>26 DEF CutClaim
<1>27. CASE CutWrite
  BY <1>27 DEF CutWrite
<1>28. CASE CutReady
  BY <1>28 DEF CutReady, EndCut
<1>29. CASE CutFails
  BY <1>29 DEF CutFails, EndCut
<1>30. CASE PollBegin
  BY <1>30 DEF PollBegin
<1>31. CASE PollCount
  BY <1>31 DEF PollCount
<1>32. CASE PollAbsent
  BY <1>32 DEF PollAbsent, BreakChain
<1>33. CASE PollOpen
  BY <1>33 DEF PollOpen
<1>34. CASE PollRefused
  BY <1>34 DEF PollRefused
<1>35. CASE PollPublish
  BY <1>35 DEF PollPublish, PublishTape, BreakChain
<1>36. CASE SwapTape
  BY <1>36 DEF SwapTape
<1>37. CASE Disconnect
  BY <1>37 DEF Disconnect
<1>38. CASE Reconnect
  BY <1>38 DEF Reconnect
<1>39. CASE Restart
  BY <1>39 DEF Restart, NoBatch, NewBatch
<1>40. ASSUME NEW t \in Tapes, StartPage(t) PROVE CountInv'
  <2>1. done'.labels = done.labels + 1 /\ done'.emitted = done.emitted
    BY <1>40 DEF StartPage, TakePage
  <2>2. batch'.pending = batch.pending /\ job'.final = job.final /\ ~job.final
    BY <1>40 DEF StartPage, TakePage
  <2>3. done.labels = done.emitted + (IF batch.pending THEN 1 ELSE 0)
    BY <1>40 DEF StartPage, TakePage
  <2>4. pc' = "wait" => ~batch.pending
    BY <1>40 DEF StartPage, TakePage
  <2>5. \/ pc' = "wait" \/ pc' = "rows" \/ (pc' = "relcmd" /\ batch.pending)
        \/ (pc' = "chain" /\ ~batch.pending)
    BY <1>40 DEF StartPage, TakePage
  <2>6. done.emitted \in Nat /\ done.labels \in Nat
    OBVIOUS
  <2> QED BY <2>1, <2>2, <2>3, <2>4, <2>5, <2>6
<1>41. ASSUME NEW r \in Readings, RefreshMedia(r) PROVE CountInv'
  BY <1>41 DEF RefreshMedia, PublishTape, BreakChain, Seen
<1>42. ASSUME NEW r \in Readings, WaitTape(r) PROVE CountInv'
  BY <1>42 DEF WaitTape, PublishTape, BreakChain, Seen, TakePage
<1>43. ASSUME NEW r \in Readings, CutRead(r) PROVE CountInv'
  BY <1>43 DEF CutRead, PublishTape, BreakChain, EndCut
<1>44. ASSUME NEW r \in Readings, PollRead(r) PROVE CountInv'
  BY <1>44 DEF PollRead
<1>45. CASE UNCHANGED vars
  BY <1>45 DEF vars
<1> QED
  BY <1>1, <1>2, <1>3, <1>4, <1>5, <1>6, <1>7, <1>8, <1>9, <1>10, <1>11,
     <1>12, <1>13, <1>14, <1>15, <1>16, <1>17, <1>18, <1>19, <1>20, <1>21,
     <1>22, <1>23, <1>24, <1>25, <1>26, <1>27, <1>28, <1>29, <1>30, <1>31,
     <1>32, <1>33, <1>34, <1>35, <1>36, <1>37, <1>38, <1>39, <1>40, <1>41,
     <1>42, <1>43, <1>44, <1>45
     DEF Next, JobStep, CutStep, PollStep, World

(* Nothing precedes the first label; a label precedes every other.         *)
LEMMA FirstStep ==
    ASSUME TypeOK, PendingInv, JobInv, CountInv, FirstInv, CutInv, [Next]_vars
    PROVE  FirstInv'
<1>0. Extended' = Extended /\ Extended \in BOOLEAN
  BY DEF Next, vars, Extended
<1> USE <1>0 DEF TypeOK, Batches, JobStates, Records, Processing, JobSteps,
    CutSteps, queue, poller, printer, history, NoJob, NewJob, PolicyFor,
    Nothing, Policies, CutInv, JobInv, PendingInv, CountInv, FirstInv
<1>1. CASE BeginJob
  BY <1>1 DEF BeginJob, NewJob, PolicyFor
<1>2. CASE Cancel
  BY <1>2 DEF Cancel
<1>3. CASE RefuseJob
  BY <1>3 DEF RefuseJob
<1>4. CASE AcceptJob
  BY <1>4 DEF AcceptJob
<1>5. CASE AllocBatch
  BY <1>5 DEF AllocBatch, NewBatch
<1>6. CASE RejectPage
  BY <1>6 DEF RejectPage, FailJob
<1>7. CASE StopWaiting
  BY <1>7 DEF StopWaiting, FailJob
<1>8. CASE ReadChain
  BY <1>8 DEF ReadChain, ChainOpen
<1>9. CASE ClaimRun
  BY <1>9 DEF ClaimRun
<1>10. CASE SetupPage
  BY <1>10 DEF SetupPage, Autocut
<1>11. CASE SetupFails
  BY <1>11 DEF SetupFails, FailJob
<1>12. CASE ReleaseAdvanced
  BY <1>12 DEF ReleaseAdvanced
<1>13. CASE ReleaseLabel
  BY <1>13 DEF ReleaseLabel
<1>14. CASE ReleaseInterrupted
  BY <1>14 DEF ReleaseInterrupted, ReleaseFails, FailJob, NoBatch, NewBatch
<1>15. CASE LabelReady
  BY <1>15 DEF LabelReady, RunAfterRelease, NoBatch, NewBatch
<1>16. CASE LabelNotReady
  BY <1>16 DEF LabelNotReady, ReleaseFails, FailJob, NoBatch, NewBatch
<1>17. CASE WriteRows
  BY <1>17 DEF WriteRows
<1>18. CASE RowsFail
  BY <1>18 DEF RowsFail, FailJob
<1>19. CASE EndPage
  BY <1>19 DEF EndPage
<1>20. CASE EndPageCanceled
  BY <1>20 DEF EndPageCanceled, FailJob
<1>21. CASE EndInput
  BY <1>21 DEF EndInput, FailJob
<1>22. CASE EndJob
  BY <1>22 DEF EndJob, EndsNormally, NoBatch, NewBatch
<1>23. CASE FinishJob
  BY <1>23 DEF FinishJob
<1>24. CASE BeginCut
  BY <1>24 DEF BeginCut
<1>25. CASE CutRecheck
  BY <1>25 DEF CutRecheck, EndCut
<1>26. CASE CutClaim
  BY <1>26 DEF CutClaim
<1>27. CASE CutWrite
  BY <1>27 DEF CutWrite
<1>28. CASE CutReady
  BY <1>28 DEF CutReady, EndCut
<1>29. CASE CutFails
  BY <1>29 DEF CutFails, EndCut
<1>30. CASE PollBegin
  BY <1>30 DEF PollBegin
<1>31. CASE PollCount
  BY <1>31 DEF PollCount
<1>32. CASE PollAbsent
  BY <1>32 DEF PollAbsent, BreakChain
<1>33. CASE PollOpen
  BY <1>33 DEF PollOpen
<1>34. CASE PollRefused
  BY <1>34 DEF PollRefused
<1>35. CASE PollPublish
  BY <1>35 DEF PollPublish, PublishTape, BreakChain
<1>36. CASE SwapTape
  BY <1>36 DEF SwapTape
<1>37. CASE Disconnect
  BY <1>37 DEF Disconnect
<1>38. CASE Reconnect
  BY <1>38 DEF Reconnect
<1>39. CASE Restart
  BY <1>39 DEF Restart, NoBatch, NewBatch
<1>40. ASSUME NEW t \in Tapes, StartPage(t) PROVE FirstInv'
  BY <1>40 DEF StartPage, TakePage
<1>41. ASSUME NEW r \in Readings, RefreshMedia(r) PROVE FirstInv'
  BY <1>41 DEF RefreshMedia, PublishTape, BreakChain, Seen
<1>42. ASSUME NEW r \in Readings, WaitTape(r) PROVE FirstInv'
  BY <1>42 DEF WaitTape, PublishTape, BreakChain, Seen, TakePage
<1>43. ASSUME NEW r \in Readings, CutRead(r) PROVE FirstInv'
  BY <1>43 DEF CutRead, PublishTape, BreakChain, EndCut
<1>44. ASSUME NEW r \in Readings, PollRead(r) PROVE FirstInv'
  BY <1>44 DEF PollRead
<1>45. CASE UNCHANGED vars
  BY <1>45 DEF vars
<1> QED
  BY <1>1, <1>2, <1>3, <1>4, <1>5, <1>6, <1>7, <1>8, <1>9, <1>10, <1>11,
     <1>12, <1>13, <1>14, <1>15, <1>16, <1>17, <1>18, <1>19, <1>20, <1>21,
     <1>22, <1>23, <1>24, <1>25, <1>26, <1>27, <1>28, <1>29, <1>30, <1>31,
     <1>32, <1>33, <1>34, <1>35, <1>36, <1>37, <1>38, <1>39, <1>40, <1>41,
     <1>42, <1>43, <1>44, <1>45
     DEF Next, JobStep, CutStep, PollStep, World

(* The label held back is cut off the one before as the policy says.       *)
LEMMA CutLabelStep ==
    ASSUME TypeOK, OwnerInv, PendingInv, JobInv, CountInv, FirstInv, CutInv, [Next]_vars
    PROVE  CutInv'
<1>0. Extended' = Extended /\ Extended \in BOOLEAN
  BY DEF Next, vars, Extended
<1> USE <1>0 DEF TypeOK, Batches, JobStates, Records, Processing, JobSteps,
    CutSteps, queue, poller, printer, history, NoJob, NewJob, PolicyFor,
    Nothing, Policies, OwnerInv, JobInv, PendingInv, CountInv, FirstInv,
    CutInv, SetUp
<1>1. CASE BeginJob
  BY <1>1 DEF BeginJob, NewJob, PolicyFor
<1>2. CASE Cancel
  BY <1>2 DEF Cancel
<1>3. CASE RefuseJob
  BY <1>3 DEF RefuseJob
<1>4. CASE AcceptJob
  BY <1>4 DEF AcceptJob
<1>5. CASE AllocBatch
  BY <1>5 DEF AllocBatch, NewBatch
<1>6. CASE RejectPage
  BY <1>6 DEF RejectPage, FailJob
<1>7. CASE StopWaiting
  BY <1>7 DEF StopWaiting, FailJob
<1>8. CASE ReadChain
  BY <1>8 DEF ReadChain, ChainOpen
<1>9. CASE ClaimRun
  BY <1>9 DEF ClaimRun
<1>10. CASE SetupPage
  BY <1>10 DEF SetupPage, Autocut
<1>11. CASE SetupFails
  BY <1>11 DEF SetupFails, FailJob
<1>12. CASE ReleaseAdvanced
  BY <1>12 DEF ReleaseAdvanced
<1>13. CASE ReleaseLabel
  BY <1>13 DEF ReleaseLabel
<1>14. CASE ReleaseInterrupted
  BY <1>14 DEF ReleaseInterrupted, ReleaseFails, FailJob, NoBatch, NewBatch
<1>15. CASE LabelReady
  BY <1>15 DEF LabelReady, RunAfterRelease, NoBatch, NewBatch
<1>16. CASE LabelNotReady
  BY <1>16 DEF LabelNotReady, ReleaseFails, FailJob, NoBatch, NewBatch
<1>17. CASE WriteRows
  BY <1>17 DEF WriteRows
<1>18. CASE RowsFail
  BY <1>18 DEF RowsFail, FailJob
<1>19. CASE EndPage
  BY <1>19 DEF EndPage
<1>20. CASE EndPageCanceled
  BY <1>20 DEF EndPageCanceled, FailJob
<1>21. CASE EndInput
  BY <1>21 DEF EndInput, FailJob
<1>22. CASE EndJob
  BY <1>22 DEF EndJob, EndsNormally, NoBatch, NewBatch
<1>23. CASE FinishJob
  BY <1>23 DEF FinishJob
<1>24. CASE BeginCut
  BY <1>24 DEF BeginCut
<1>25. CASE CutRecheck
  BY <1>25 DEF CutRecheck, EndCut
<1>26. CASE CutClaim
  BY <1>26 DEF CutClaim
<1>27. CASE CutWrite
  BY <1>27 DEF CutWrite
<1>28. CASE CutReady
  BY <1>28 DEF CutReady, EndCut
<1>29. CASE CutFails
  BY <1>29 DEF CutFails, EndCut
<1>30. CASE PollBegin
  BY <1>30 DEF PollBegin
<1>31. CASE PollCount
  BY <1>31 DEF PollCount
<1>32. CASE PollAbsent
  BY <1>32 DEF PollAbsent, BreakChain
<1>33. CASE PollOpen
  BY <1>33 DEF PollOpen
<1>34. CASE PollRefused
  BY <1>34 DEF PollRefused
<1>35. CASE PollPublish
  BY <1>35 DEF PollPublish, PublishTape, BreakChain
<1>36. CASE SwapTape
  BY <1>36 DEF SwapTape
<1>37. CASE Disconnect
  BY <1>37 DEF Disconnect
<1>38. CASE Reconnect
  BY <1>38 DEF Reconnect
<1>39. CASE Restart
  BY <1>39 DEF Restart, NoBatch, NewBatch
<1>40. ASSUME NEW t \in Tapes, StartPage(t) PROVE CutInv'
  BY <1>40 DEF StartPage, TakePage
<1>41. ASSUME NEW r \in Readings, RefreshMedia(r) PROVE CutInv'
  BY <1>41 DEF RefreshMedia, PublishTape, BreakChain, Seen
<1>42. ASSUME NEW r \in Readings, WaitTape(r) PROVE CutInv'
  BY <1>42 DEF WaitTape, PublishTape, BreakChain, Seen, TakePage
<1>43. ASSUME NEW r \in Readings, CutRead(r) PROVE CutInv'
  BY <1>43 DEF CutRead, PublishTape, BreakChain, EndCut
<1>44. ASSUME NEW r \in Readings, PollRead(r) PROVE CutInv'
  BY <1>44 DEF PollRead
<1>45. CASE UNCHANGED vars
  BY <1>45 DEF vars
<1> QED
  BY <1>1, <1>2, <1>3, <1>4, <1>5, <1>6, <1>7, <1>8, <1>9, <1>10, <1>11,
     <1>12, <1>13, <1>14, <1>15, <1>16, <1>17, <1>18, <1>19, <1>20, <1>21,
     <1>22, <1>23, <1>24, <1>25, <1>26, <1>27, <1>28, <1>29, <1>30, <1>31,
     <1>32, <1>33, <1>34, <1>35, <1>36, <1>37, <1>38, <1>39, <1>40, <1>41,
     <1>42, <1>43, <1>44, <1>45
     DEF Next, JobStep, CutStep, PollStep, World

(* Nothing is under way when the queue starts.                             *)
LEMMA InitLabels == Init => LabelInv
<1> SUFFICES ASSUME Init PROVE LabelInv
  OBVIOUS
<1>1. pc = "free" /\ job = NoJob /\ done = Nothing /\ ~batch.pending
      /\ ~job.aborted /\ ~job.final
  BY DEF Init, NoBatch, NewBatch, NoJob, NewJob
<1>2. done.precuts = {}
  BY <1>1 DEF Nothing
<1> QED
  BY <1>1, <1>2 DEF LabelInv, JobInv, CountInv, FirstInv, CutInv, SetUp

(* The whole inductive invariant: run, step and printer, and the labels.   *)
THEOREM IInvCorrect == Spec => []IInv
<1>1. TypeOK /\ CoreInv /\ LabelInv /\ [Next]_vars => LabelInv'
  BY JobStepInv, CountStep, FirstStep, CutLabelStep DEF CoreInv, LabelInv
<1> QED
  BY <1>1, InitLabels, CoreCorrect, TypeCorrect, PTL DEF Spec, IInv

(* A job that keeps its progress looks the same to clients.                *)
LEMMA SameJob ==
    ASSUME Processing' <=> Processing, Failed' <=> Failed,
           job'.policy = job.policy, done'.labels = done.labels,
           done'.emitted = done.emitted, Cuts' = Cuts
    PROVE  UNCHANGED Labels!job
<1>1. Processing' = Processing /\ Failed' = Failed
  BY DEF Processing, Failed
<1> QED BY <1>1 DEF Labels!job, Labels!labels

(* A job that has just been created has no labels yet.                     *)
LEMMA NoLabelsStep == done' = Nothing => Labels!NoLabels
BY DEF Nothing, Cuts, Labels!NoLabels

(* A queue with nothing in progress looks idle.                            *)
LEMMA NoJobStep ==
    ASSUME ~Processing', job' = NoJob, done' = Nothing
    PROVE  Labels!NoJob
<1>1. ("NONE" \in {"CHAIN", "EACH"}) = FALSE
      /\ ("NONE" \in {"EACH", "END"}) = FALSE
  OBVIOUS
<1>2. job'.policy = Labels!NoPolicy
  BY <1>1 DEF NoJob, NewJob, PolicyFor, Labels!NoPolicy
<1>3. Processing' = FALSE /\ Failed' = FALSE
  BY DEF NoJob, NewJob, Failed
<1> QED BY <1>2, <1>3, NoLabelsStep DEF Labels!NoJob

(* The label queue of a step that changes no job and no end.               *)
LEMMA StutterStep ==
    ASSUME Processing' <=> Processing, Failed' <=> Failed,
           job'.policy = job.policy, done'.labels = done.labels,
           done'.emitted = done.emitted, Cuts' = Cuts,
           run' = run, lost' = lost, Feeding' <=> Feeding,
           Underway' <=> Underway
    PROVE  UNCHANGED Labels!vars
<1>1. UNCHANGED Labels!job
  BY SameJob
<1>2. Tail' = Tail
  BY DEF Tail
<1>3. Feeding' = Feeding /\ Underway' = Underway
  BY DEF Feeding, Underway
<1> QED BY <1>1, <1>2, <1>3 DEF Labels!vars

(* A healthy run is closed over: the queue sees a change at the printer.   *)
LEMMA ObserveStep ==
    ASSUME Processing' <=> Processing, Failed' <=> Failed,
           job'.policy = job.policy, done'.labels = done.labels,
           done'.emitted = done.emitted, Cuts' = Cuts,
           run \in Runs, run' = IF run = "UNCERTAIN" THEN run ELSE "CLOSED",
           lost' = lost, Feeding' <=> Feeding, Underway' <=> Underway
    PROVE  Labels!Next
<1>1. UNCHANGED Labels!job
  BY SameJob
<1>2. Tail' = IF Tail = "unknown" THEN Tail ELSE "none"
  BY DEF Tail, Runs
<1>3. Feeding' = Feeding /\ Underway' = Underway
  BY DEF Feeding, Underway
<1> QED BY <1>1, <1>2, <1>3 DEF Labels!Next, Labels!Observe, Labels!Forget

(* A job is given up, with or without a look at the printer.               *)
LEMMA FailStep ==
    ASSUME Processing, Processing', Failed',
           job'.policy = job.policy, done'.labels = done.labels,
           done'.emitted = done.emitted, Cuts' = Cuts,
           run \in Runs,
           run' = run \/ run' = (IF run = "UNCERTAIN" THEN run ELSE "CLOSED"),
           lost' = lost, Underway' => Underway
    PROVE  Labels!Next
<1>1. Processing' = Processing /\ Failed' = TRUE
  BY DEF Failed
<1>2. Tail' = Tail \/ Tail' = IF Tail = "unknown" THEN Tail ELSE "none"
  BY DEF Tail, Runs
<1>3. Feeding' = Feeding
  BY DEF Feeding, Processing, JobSteps
<1>4. Underway' = Underway \/ Underway' = FALSE
  BY DEF Underway
<1> QED
  BY <1>1, <1>2, <1>3, <1>4
     DEF Labels!Next, Labels!FailJob, Labels!MayForget, Labels!Forget,
         Labels!labels

(* Every step of the threads is one of LabelRun's, or invisible to it.     *)
LEMMA RefineStep ==
    ASSUME TypeOK, IInv, [Next]_vars
    PROVE  [Labels!Next]_(Labels!vars)
<1>0. Extended' = Extended /\ Extended \in BOOLEAN
  BY DEF Next, vars, Extended
<1> USE <1>0 DEF TypeOK, Batches, JobStates, Records, Processing, JobSteps,
    CutSteps, queue, poller, printer, history, Feeding, Underway, Failed,
    Cuts, IInv, CoreInv, LabelInv, JobInv, OwnerInv
<1>1. CASE BeginJob
  <2>1. ~Processing /\ Processing' = TRUE /\ ~Feeding /\ ~Feeding'
        /\ ~Underway /\ ~Underway' /\ Tail' = Tail /\ lost' = lost
    BY <1>1 DEF BeginJob, Tail
  <2>2. PICK mode \in Modes : job' = NewJob(PolicyFor(mode))
    BY <1>1 DEF BeginJob
  <2>3. job'.policy \in Labels!Policies /\ Failed' = FALSE
    BY <2>2 DEF PolicyFor, Labels!Policies, NewJob, Failed
  <2>4. done' = Nothing
    BY <1>1 DEF BeginJob
  <2> QED
    BY <2>1, <2>3, <2>4, NoLabelsStep
       DEF Labels!Next, Labels!BeginJob, Feeding, Underway
<1>2. CASE Cancel
  BY <1>2, FailStep DEF Cancel
<1>3. CASE RefuseJob
  BY <1>3, FailStep DEF RefuseJob
<1>4. CASE AcceptJob
  BY <1>4, StutterStep DEF AcceptJob
<1>5. CASE AllocBatch
  BY <1>5, StutterStep DEF AllocBatch, NewBatch
<1>6. CASE RejectPage
  BY <1>6, FailStep DEF RejectPage, FailJob
<1>7. CASE StopWaiting
  BY <1>7, FailStep DEF StopWaiting, FailJob
<1>8. CASE ReadChain
  BY <1>8, StutterStep DEF ReadChain, ChainOpen
<1>9. CASE ClaimRun
  <2>1. Processing /\ ~lost /\ Tail' = "unknown" /\ lost' = lost
    BY <1>9 DEF ClaimRun, LossInv, Tail
  <2>2. done.emitted < done.labels
    BY <1>9, LabelsAssumption DEF ClaimRun, CountInv
  <2>3. UNCHANGED <<Feeding, Underway, Labels!job>>
    BY <1>9, SameJob DEF ClaimRun
  <2> QED BY <2>1, <2>2, <2>3 DEF Labels!Next, Labels!BeginLabel
<1>10. CASE SetupPage
  <2>1. done'.labels = done.labels /\ done'.emitted = done.emitted
        /\ done.labels = done.emitted + 1
    BY <1>10 DEF SetupPage, CountInv
  <2>2. done'.precuts \in {done.precuts, done.precuts \cup {done.labels}}
    BY <1>10 DEF SetupPage
  <2>3. Cuts' = Cuts
    BY <2>1, <2>2 DEF Cuts
  <2> QED BY <1>10, <2>1, <2>3, StutterStep DEF SetupPage
<1>11. CASE SetupFails
  BY <1>11, FailStep DEF SetupFails, FailJob
<1>12. CASE ReleaseAdvanced
  BY <1>12, StutterStep DEF ReleaseAdvanced
<1>13. CASE ReleaseLabel
  <2> DEFINE n == done.emitted + 1
  <2>1. Processing /\ Processing' = Processing /\ ~Failed /\ Failed' = Failed
    BY <1>13 DEF ReleaseLabel, Failed
  <2>2. ~lost /\ lost' = lost /\ Tail = "unknown" /\ Tail' = Tail
    BY <1>13 DEF ReleaseLabel, LossInv, UncertainInv, Tail
  <2>3. ~Underway /\ Underway' = TRUE /\ Feeding' = Feeding
    BY <1>13 DEF ReleaseLabel
  <2>4. n \in done.precuts <=> done.emitted = 0 \/ job.policy.cut_between
    BY <1>13 DEF ReleaseLabel, CutInv, SetUp, PendingInv
  <2>5. n \in Nat /\ done.emitted < done.labels
    BY <1>13, LabelsAssumption DEF ReleaseLabel, CountInv
  <2>6. done'.precuts = done.precuts /\ done'.emitted = n
        /\ done'.labels = done.labels /\ job' = job
    BY <1>13 DEF ReleaseLabel
  <2>7. Cuts' = IF done.emitted = 0 \/ job.policy.cut_between
                THEN Cuts \cup {done'.emitted} ELSE Cuts
    <3>1. Cuts' = IF n \in done.precuts THEN Cuts \cup {n} ELSE Cuts
      BY <2>5, <2>6 DEF Cuts
    <3> QED BY <2>4, <2>6, <3>1
  <2> QED
    BY <2>1, <2>2, <2>3, <2>5, <2>6, <2>7 DEF Labels!Next, Labels!ReleaseLabel
<1>14. CASE ReleaseInterrupted
  BY <1>14, FailStep DEF ReleaseInterrupted, ReleaseFails, FailJob, NoBatch,
     NewBatch
<1>15. CASE LabelReady
  <2>1. Processing /\ Underway /\ Underway' = FALSE /\ Feeding' = Feeding
    BY <1>15 DEF LabelReady
  <2>2. done.emitted = done.labels <=> job.final
    BY <1>15 DEF LabelReady, CountInv
  <2>3. Tail' = (IF job.final /\ job.policy.cut_at_end THEN "none" ELSE "user")
    BY <1>15 DEF LabelReady, RunAfterRelease, Cutting, Tail
  <2>4. lost' = lost /\ UNCHANGED Labels!job
    BY <1>15, SameJob DEF LabelReady
  <2> QED
    BY <2>1, <2>2, <2>3, <2>4 DEF Labels!Next, Labels!ConfirmLabel
<1>16. CASE LabelNotReady
  BY <1>16, FailStep DEF LabelNotReady, ReleaseFails, FailJob, NoBatch,
     NewBatch
<1>17. CASE WriteRows
  BY <1>17, StutterStep DEF WriteRows
<1>18. CASE RowsFail
  BY <1>18, FailStep DEF RowsFail, FailJob
<1>19. CASE EndPage
  BY <1>19, StutterStep DEF EndPage
<1>20. CASE EndPageCanceled
  BY <1>20, FailStep DEF EndPageCanceled, FailJob
<1>21. CASE EndInput
  BY <1>21, FailStep, StutterStep DEF EndInput, FailJob
<1>22. CASE EndJob
  BY <1>22, StutterStep DEF EndJob, EndsNormally, NoBatch, NewBatch
<1>23. CASE FinishJob
  <2>1. Processing /\ ~Underway /\ ~Underway' /\ ~Feeding /\ ~Feeding'
    BY <1>23 DEF FinishJob
  <2>2. Failed \/ (/\ done.emitted = done.labels
                  /\ done.labels > 0 /\ Tail /= "unknown")
    BY <1>23 DEF FinishJob, CountInv, FirstInv, Failed, Tail, Runs
  <2>3. lost' = (lost \/ Tail = "unknown") /\ Tail' = Tail
    BY <1>23 DEF FinishJob, Tail, Runs
  <2>4. ~Processing' /\ job' = NoJob /\ done' = Nothing
    BY <1>23 DEF FinishJob
  <2>5. Labels!NoJob
    BY <2>4, NoJobStep
  <2> QED
    BY <2>1, <2>2, <2>3, <2>5 DEF Labels!Next, Labels!FinishJob
<1>24. CASE BeginCut
  BY <1>24, StutterStep DEF BeginCut
<1>25. CASE CutRecheck
  <2>1. lost' = lost
    BY <1>25 DEF CutRecheck, EndCut, HoldsUserContent, ClaimInv
  <2>2. CASE run = "OPEN"
    <3>1. ~Processing /\ ~Feeding /\ Feeding' = TRUE /\ Underway' = Underway
      BY <1>25, <2>2 DEF CutRecheck, HoldsUserContent
    <3>2. ~lost /\ Tail = "user" /\ Tail' = Tail
      BY <1>25, <2>2 DEF CutRecheck, LossInv, Tail
    <3>3. UNCHANGED Labels!job
      BY <1>25, <2>2, SameJob DEF CutRecheck, HoldsUserContent
    <3> QED
      BY <2>1, <3>1, <3>2, <3>3 DEF Labels!Next, Labels!DecideCut
  <2>3. CASE ~(run = "OPEN")
    BY <1>25, <2>1, <2>3, StutterStep DEF CutRecheck, EndCut, HoldsUserContent
  <2> QED BY <2>2, <2>3
<1>26. CASE CutClaim
  <2>1. Feeding /\ Feeding' = Feeding /\ Underway' = Underway
    BY <1>26 DEF CutClaim
  <2>2. Tail' = "unknown" /\ lost' = lost
    BY <1>26 DEF CutClaim, Tail, UncertainInv
  <2>3. UNCHANGED Labels!job
    BY <1>26, SameJob DEF CutClaim
  <2> QED BY <2>1, <2>2, <2>3 DEF Labels!Next, Labels!BeginCut
<1>27. CASE CutWrite
  <2>1. Feeding /\ Feeding' = Feeding /\ ~Underway /\ Underway' = TRUE
    BY <1>27 DEF CutWrite
  <2>2. Tail = "unknown" /\ Tail' = Tail /\ lost' = lost
    BY <1>27 DEF CutWrite, Tail, UncertainInv
  <2>3. UNCHANGED Labels!job
    BY <1>27, SameJob DEF CutWrite
  <2> QED BY <2>1, <2>2, <2>3 DEF Labels!Next, Labels!FeedBlank
<1>28. CASE CutReady
  <2>1. Feeding /\ Feeding' = FALSE /\ Underway /\ Underway' = FALSE
    BY <1>28 DEF CutReady, EndCut
  <2>2. Tail' = "blank" /\ lost' = lost
    BY <1>28 DEF CutReady, EndCut, Tail, UncertainInv
  <2>3. UNCHANGED Labels!job
    BY <1>28, SameJob DEF CutReady, EndCut
  <2> QED BY <2>1, <2>2, <2>3 DEF Labels!Next, Labels!ConfirmBlank
<1>29. CASE CutFails
  <2>1. Feeding /\ Feeding' = FALSE /\ Underway' = FALSE
    BY <1>29 DEF CutFails, EndCut
  <2>2. Tail = "unknown" /\ Tail' = Tail /\ lost' = TRUE
    BY <1>29 DEF CutFails, EndCut, Tail, UncertainInv
  <2>3. UNCHANGED Labels!job
    BY <1>29, SameJob DEF CutFails, EndCut
  <2> QED BY <2>1, <2>2, <2>3 DEF Labels!Next, Labels!FailCut
<1>30. CASE PollBegin
  BY <1>30, StutterStep DEF PollBegin
<1>31. CASE PollCount
  BY <1>31, StutterStep DEF PollCount
<1>32. CASE PollAbsent
  BY <1>32, ObserveStep, StutterStep DEF PollAbsent, BreakChain
<1>33. CASE PollOpen
  BY <1>33, StutterStep DEF PollOpen
<1>34. CASE PollRefused
  BY <1>34, StutterStep DEF PollRefused
<1>35. CASE PollPublish
  BY <1>35, ObserveStep, StutterStep DEF PollPublish, PublishTape,
     BreakChain
<1>36. CASE SwapTape
  BY <1>36, StutterStep DEF SwapTape
<1>37. CASE Disconnect
  BY <1>37, StutterStep DEF Disconnect
<1>38. CASE Reconnect
  BY <1>38, StutterStep DEF Reconnect
<1>39. CASE Restart
  <2>1. ~Processing' /\ job' = NoJob /\ done' = Nothing
    BY <1>39 DEF Restart
  <2>2. Labels!NoJob
    BY <2>1, NoJobStep
  <2>3. Tail' = "none" /\ lost' = FALSE /\ Feeding' = FALSE /\ Underway' = FALSE
    BY <1>39 DEF Restart, Tail
  <2> QED BY <2>2, <2>3 DEF Labels!Next, Labels!Restart
<1>40. ASSUME NEW t \in Tapes, StartPage(t)
       PROVE  [Labels!Next]_(Labels!vars)
  <2>1. Processing /\ ~Failed
    BY <1>40 DEF StartPage, Failed
  <2>2. done.labels \in {0, done.emitted + 1}
    BY <1>40 DEF StartPage, CountInv, FirstInv, PendingInv
  <2>3. UNCHANGED <<Processing, Feeding, Underway>>
    BY <1>40 DEF StartPage, TakePage
  <2>4. /\ job'.policy = job.policy /\ job'.aborted = job.aborted
        /\ job'.canceled = job.canceled /\ done'.labels = done.labels + 1
        /\ done'.emitted = done.emitted /\ done'.precuts = done.precuts
    BY <1>40 DEF StartPage
  <2>5. Failed' = Failed /\ Cuts' = Cuts
    BY <2>4 DEF Failed, Cuts
  <2>6. Tail' = Tail /\ lost' = lost
    BY <1>40 DEF StartPage, Tail
  <2> QED
    BY <2>1, <2>2, <2>3, <2>4, <2>5, <2>6 DEF Labels!Next, Labels!AcceptLabel
<1>41. ASSUME NEW r \in Readings, RefreshMedia(r)
       PROVE  [Labels!Next]_(Labels!vars)
  BY <1>41, FailStep, ObserveStep, StutterStep DEF RefreshMedia,
     PublishTape, BreakChain, Seen
<1>42. ASSUME NEW r \in Readings, WaitTape(r)
       PROVE  [Labels!Next]_(Labels!vars)
  BY <1>42, ObserveStep, StutterStep DEF WaitTape, PublishTape, BreakChain,
     Seen, TakePage
<1>43. ASSUME NEW r \in Readings, CutRead(r)
       PROVE  [Labels!Next]_(Labels!vars)
  <2>1. lost' = lost /\ r \in Readings
    BY <1>43 DEF CutRead, EndCut, PublishTape, BreakChain, ClaimInv, LossInv
  <2> QED
    BY <1>43, <2>1, ObserveStep, StutterStep
       DEF CutRead, EndCut, PublishTape, BreakChain
<1>44. ASSUME NEW r \in Readings, PollRead(r)
       PROVE  [Labels!Next]_(Labels!vars)
  BY <1>44, StutterStep DEF PollRead
<1>45. CASE UNCHANGED vars
  BY <1>45, StutterStep DEF vars
<1> QED
  BY <1>1, <1>2, <1>3, <1>4, <1>5, <1>6, <1>7, <1>8, <1>9, <1>10, <1>11,
     <1>12, <1>13, <1>14, <1>15, <1>16, <1>17, <1>18, <1>19, <1>20, <1>21,
     <1>22, <1>23, <1>24, <1>25, <1>26, <1>27, <1>28, <1>29, <1>30, <1>31,
     <1>32, <1>33, <1>34, <1>35, <1>36, <1>37, <1>38, <1>39, <1>40, <1>41,
     <1>42, <1>43, <1>44, <1>45
     DEF Next, JobStep, CutStep, PollStep, World

(* However callbacks, cuts, polls, faults and restarts interleave, what    *)
(* clients see is a behaviour of the queue of labels.                      *)
THEOREM LabelsKept == Spec => Implements
<1>1. Init => Labels!Init
  <2> SUFFICES ASSUME Init PROVE Labels!Init
    OBVIOUS
  <2>1. ~Processing /\ ~Feeding /\ ~Underway /\ job = NoJob /\ done = Nothing
    BY DEF Init, Processing, JobSteps, Feeding, Underway
  <2>2. ("NONE" \in {"CHAIN", "EACH"}) = FALSE
        /\ ("NONE" \in {"EACH", "END"}) = FALSE
    OBVIOUS
  <2>3. job.policy = Labels!NoPolicy /\ Failed = FALSE
    BY <2>1, <2>2 DEF NoJob, NewJob, PolicyFor, Labels!NoPolicy, Failed
  <2>4. done.labels = 0 /\ done.emitted = 0 /\ Cuts = {}
    BY <2>1 DEF Nothing, Cuts
  <2>5. Tail = "none" /\ lost = FALSE
    BY DEF Init, Tail
  <2> QED BY <2>1, <2>3, <2>4, <2>5 DEF Labels!Init
<1>2. TypeOK /\ IInv /\ [Next]_vars => [Labels!Next]_(Labels!vars)
  BY RefineStep
<1> QED
  BY <1>1, <1>2, IInvCorrect, TypeCorrect, PTL
     DEF Spec, Implements, Labels!Spec

=============================================================================
