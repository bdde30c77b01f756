--------------------------- MODULE PrintRunProofs ---------------------------
(* Proofs about PrintRun for any set of tape widths, any number of labels, *)
(* either model, with and without idle polling.                            *)
EXTENDS PrintRun, TLAPS

(* The actions that touch neither the run nor anything an invariant below  *)
(* relates to it are grouped, the others are taken one by one.             *)

(* Every variable keeps its type.                                          *)
LEMMA InitType == Init => TypeOK
<1>1. NoJob \in JobStates
  BY DEF NoJob, NewJob, JobStates, PolicyFor, Policies
<1>2. NoBatch \in Batches
  BY DEF NoBatch, NewBatch, Batches
<1>3. Nothing \in Records
  BY LabelsAssumption DEF Nothing, Records
<1> QED
  BY <1>1, <1>2, <1>3 DEF Init, TypeOK, Runs, Readings, Unreadable

(* The helpers that several actions share keep the types.                  *)
LEMMA PublishType ==
    ASSUME TypeOK, NEW r \in Readings, NEW more \in SUBSET {"needed"},
           PublishTape(r, more)
    PROVE  /\ run' \in Runs /\ media_ready' \in Tapes
           /\ reasons' \subseteq {"offline", "empty", "needed", "other"}
<1>1. run' \in Runs
  BY DEF PublishTape, EndsRun, BreakChain, TypeOK, Runs
<1>2. media_ready' \in Tapes
  BY DEF PublishTape, Publishable, TypeOK
<1>3. ReasonsFor(r) \subseteq {"offline", "empty", "needed", "other"}
  BY TapesAssumption DEF ReasonsFor, Readings, Unreadable, Unusable
<1> QED BY <1>1, <1>2, <1>3 DEF PublishTape

(* Failing a job leaves the batch and the job well typed.                  *)
LEMMA FailJobType ==
    ASSUME TypeOK, NEW failed \in BOOLEAN, FailJob(failed)
    PROVE  batch' \in Batches /\ job' \in JobStates /\ pc' = "endjob"
BY DEF FailJob, TypeOK, Batches, JobStates

(* The values of an idle queue: no batch, no job, nothing done.            *)
LEMMA NoBatchType == NoBatch \in Batches /\ NoJob \in JobStates /\ Nothing \in Records
BY LabelsAssumption DEF NoBatch, NewBatch, Batches, NoJob, NewJob, JobStates,
                        PolicyFor, Policies, Nothing, Records

(* Neither way of failing a release leaves the types.                      *)
LEMMA ReleaseFailsType ==
    ASSUME TypeOK, ReleaseFails
    PROVE  batch' \in Batches /\ job' \in JobStates /\ pc' \in {"endjob", "finish"}
<1>1. CASE job.final
  BY <1>1, NoBatchType DEF ReleaseFails, TypeOK, JobStates
<1>2. CASE ~job.final
  BY <1>2, FailJobType DEF ReleaseFails
<1> QED BY <1>1, <1>2

(* Taking a page up stores the awaited width and picks the next step.      *)
LEMMA TakePageType ==
    ASSUME TypeOK, NEW mm \in Tapes \cup {NoTape}, TakePage(mm)
    PROVE  batch' \in Batches /\ pc' \in {"rows", "relcmd", "chain"}
BY DEF TakePage, TypeOK, Batches, Extended

(* Type correctness: every handler, the poll and the world keep the types, *)
(* whatever the tape table, the number of labels and the model.            *)
LEMMA TypeStep == TypeOK /\ [Next]_vars => TypeOK'
<1> SUFFICES ASSUME TypeOK, [Next]_vars PROVE TypeOK'
  OBVIOUS
<1>0. model' \in Models
  BY DEF Next, vars, TypeOK
<1> USE <1>0 DEF queue, poller, printer, history
<1>1. CASE BeginJob
  BY <1>1 DEF BeginJob, TypeOK, JobSteps, CutSteps, NewJob, PolicyFor, JobStates, Policies
<1>2. CASE Cancel
  <2>1. job' \in JobStates
    BY <1>2 DEF Cancel, TypeOK, JobStates
  <2> QED
    BY <1>2, <2>1 DEF Cancel, TypeOK, JobSteps, Processing
<1>3. CASE RefuseJob
  <2>1. job' \in JobStates
    BY <1>3 DEF RefuseJob, TypeOK, JobStates
  <2> QED
    BY <1>3, <2>1 DEF RefuseJob, TypeOK, JobSteps, Processing
<1>4. CASE AcceptJob
  BY <1>4 DEF AcceptJob, TypeOK, JobSteps, CutSteps
<1>5. CASE AllocBatch
  BY <1>5 DEF AllocBatch, TypeOK, JobSteps, CutSteps, NewBatch, Batches
<1>6. CASE ReadChain
  <2>1. ChainOpen \in BOOLEAN
    BY DEF ChainOpen
  <2>2. job' \in JobStates
    BY <1>6, <2>1 DEF ReadChain, TypeOK, JobStates
  <2> QED
    BY <1>6, <2>2 DEF ReadChain, TypeOK, JobSteps
<1>7. CASE ClaimRun
  BY <1>7 DEF ClaimRun, TypeOK, JobSteps, CutSteps, Runs
<1>8. CASE SetupPage
  <2>1. done' \in Records
    BY <1>8 DEF SetupPage, TypeOK, Records
  <2>2. job' \in JobStates /\ batch' \in Batches
    BY <1>8 DEF SetupPage, TypeOK, JobStates, Batches, Extended
  <2> QED
    BY <1>8, <2>1, <2>2 DEF SetupPage, TypeOK, JobSteps
<1>9. CASE ReleaseAdvanced
  BY <1>9 DEF ReleaseAdvanced, TypeOK, JobSteps, CutSteps
<1>10. CASE ReleaseLabel
  BY <1>10 DEF ReleaseLabel, TypeOK, JobSteps, CutSteps, Records
<1>11. CASE WriteRows
  BY <1>11 DEF WriteRows, TypeOK, JobSteps, CutSteps
<1>12. CASE EndPage
  <2>1. batch' \in Batches /\ pc' \in {"relcmd", "chain", "between"}
    BY <1>12 DEF EndPage, TypeOK, Batches
  <2> QED
    BY <1>12, <2>1 DEF EndPage, TypeOK, JobSteps
<1>13. CASE EndJob
  <2>1. job' \in JobStates /\ batch' \in Batches
    BY <1>13, NoBatchType DEF EndJob, TypeOK, JobStates
  <2>2. pc' \in {"reladv", "relcmd", "finish"}
    BY <1>13 DEF EndJob
  <2> QED
    BY <1>13, <2>1, <2>2 DEF EndJob, TypeOK, JobSteps
<1>14. CASE FinishJob
  BY <1>14, NoBatchType DEF FinishJob, TypeOK, JobSteps, CutSteps
<1>15. CASE BeginCut
  BY <1>15 DEF BeginCut, TypeOK, JobSteps, CutSteps
<1>16. CASE CutRecheck
  <2>1. /\ pc' \in {"cutset", "free"} /\ lost' \in BOOLEAN
        /\ reasons' \subseteq {"offline", "empty", "needed", "other"}
    BY <1>16 DEF CutRecheck, EndCut, TypeOK
  <2> QED
    BY <1>16, <2>1 DEF CutRecheck, TypeOK, CutSteps
<1>17. CASE CutClaim
  BY <1>17 DEF CutClaim, TypeOK, JobSteps, CutSteps, Runs
<1>18. CASE CutWrite
  BY <1>18 DEF CutWrite, TypeOK, JobSteps, CutSteps
<1>19. CASE CutReady
  BY <1>19 DEF CutReady, TypeOK, JobSteps, CutSteps, EndCut, Runs
<1>20. CASE CutFails
  BY <1>20 DEF CutFails, TypeOK, JobSteps, CutSteps, EndCut
<1>21. CASE PollBegin
  <2>1. /\ poll' \in {poll, "enum"}
        /\ reasons' \subseteq {"offline", "empty", "needed", "other"}
    BY <1>21 DEF PollBegin, TypeOK
  <2> QED
    BY <1>21, <2>1 DEF PollBegin, TypeOK
<1>22. CASE PollCount
  BY <1>22 DEF PollCount, TypeOK, JobSteps, CutSteps
<1>23. CASE PollAbsent
  BY <1>23 DEF PollAbsent, TypeOK, JobSteps, CutSteps, BreakChain, Runs
<1>24. CASE PollOpen
  <2>1. /\ pc' \in {pc, "poll"} /\ link' \in BOOLEAN
        /\ poll' \in {"read", "unopened", "busy"}
    BY <1>24 DEF PollOpen, TypeOK
  <2> QED
    BY <1>24, <2>1 DEF PollOpen, TypeOK
<1>25. CASE PollRefused
  BY <1>25 DEF PollRefused, TypeOK, JobSteps, CutSteps
<1>26. CASE SwapTape
  BY <1>26 DEF SwapTape, TypeOK, JobSteps, CutSteps
<1>27. CASE Disconnect
  <2>1. present' \in BOOLEAN /\ link' \in BOOLEAN /\ upset' \in BOOLEAN
    BY <1>27 DEF Disconnect
  <2> QED
    BY <1>27, <2>1 DEF Disconnect, TypeOK
<1>28. CASE Reconnect
  <2>1. /\ present' \in BOOLEAN /\ orphaned' \in BOOLEAN
        /\ buffer' \in {buffer, "empty"} /\ held' \in {held, "none"}
    BY <1>28 DEF Reconnect, TypeOK
  <2> QED
    BY <1>28, <2>1 DEF Reconnect, TypeOK
<1>29. CASE Restart
  BY <1>29, NoBatchType DEF Restart, TypeOK, JobSteps, CutSteps, Runs, Readings, Unreadable
<1>30. ASSUME NEW t \in Tapes, StartPage(t) PROVE TypeOK'
  <2>1. done' \in Records
    BY <1>30, LabelsAssumption DEF StartPage, TypeOK, Records
  <2>2. /\ batch' \in Batches /\ job' \in JobStates
        /\ pc' \in {"rows", "relcmd", "chain", "wait"}
    <3>1. CASE t = batch.tape_mm
      BY <1>30, <3>1, TakePageType DEF StartPage, TypeOK
    <3>2. CASE t # batch.tape_mm
      BY <1>30, <3>2 DEF StartPage, TypeOK, JobStates
    <3> QED BY <3>1, <3>2
  <2> QED
    BY <1>30, <2>1, <2>2 DEF StartPage, TypeOK, JobSteps
<1>31. CASE RejectPage
  <2>1. batch' \in Batches /\ job' \in JobStates /\ pc' = "endjob"
    BY <1>31, FailJobType DEF RejectPage
  <2> QED
    BY <1>31, <2>1 DEF RejectPage, TypeOK, JobSteps
<1>32. CASE StopWaiting
  <2>1. batch' \in Batches /\ job' \in JobStates /\ pc' = "endjob"
    BY <1>32, FailJobType DEF StopWaiting
  <2> QED
    BY <1>32, <2>1 DEF StopWaiting, TypeOK, JobSteps
<1>33. CASE SetupFails
  <2>1. batch' \in Batches /\ job' \in JobStates /\ pc' = "endjob"
    BY <1>33, FailJobType DEF SetupFails
  <2>2. done' \in Records
    BY <1>33 DEF SetupFails, TypeOK, Records
  <2>3. /\ buffer' = "torn"
        /\ UNCHANGED <<queue, poller, held, tape, present, link, history>>
    BY <1>33 DEF SetupFails
  <2> QED
    BY <2>1, <2>2, <2>3 DEF TypeOK, JobSteps
<1>34. CASE RowsFail
  <2>1. batch' \in Batches /\ job' \in JobStates /\ pc' = "endjob"
    BY <1>34, FailJobType DEF RowsFail
  <2> QED
    BY <1>34, <2>1 DEF RowsFail, TypeOK, JobSteps
<1>35. CASE EndPageCanceled
  <2>1. batch' \in Batches /\ job' \in JobStates /\ pc' = "endjob"
    BY <1>35, FailJobType DEF EndPageCanceled
  <2> QED
    BY <1>35, <2>1 DEF EndPageCanceled, TypeOK, JobSteps
<1>36. CASE EndInput
  <2>1. batch' \in Batches /\ job' \in JobStates /\ pc' = "endjob"
    BY <1>36, FailJobType DEF EndInput, TypeOK
  <2> QED
    BY <1>36, <2>1 DEF EndInput, TypeOK, JobSteps
<1>37. CASE ReleaseInterrupted
  <2>1. batch' \in Batches /\ job' \in JobStates /\ pc' \in {"endjob", "finish"}
    BY <1>37, ReleaseFailsType DEF ReleaseInterrupted
  <2> QED
    BY <1>37, <2>1 DEF ReleaseInterrupted, TypeOK, JobSteps
<1>38. CASE LabelNotReady
  <2>1. batch' \in Batches /\ job' \in JobStates /\ pc' \in {"endjob", "finish"}
    BY <1>38, ReleaseFailsType DEF LabelNotReady
  <2> QED
    BY <1>38, <2>1 DEF LabelNotReady, TypeOK, JobSteps
<1>39. CASE LabelReady
  <2>1. batch' \in Batches
    BY <1>39, NoBatchType DEF LabelReady, TypeOK, Batches
  <2>2. run' \in Runs
    BY <1>39 DEF LabelReady, RunAfterRelease, Runs
  <2> QED
    BY <1>39, <2>1, <2>2 DEF LabelReady, TypeOK, JobSteps
<1>40. ASSUME NEW r \in Readings, RefreshMedia(r) PROVE TypeOK'
  <2>1. /\ run' \in Runs /\ media_ready' \in Tapes
        /\ reasons' \subseteq {"offline", "empty", "needed", "other"}
    BY <1>40, PublishType DEF RefreshMedia
  <2>2. done' \in Records
    BY <1>40 DEF RefreshMedia, Seen, TypeOK, Records
  <2>3. /\ job' \in JobStates
        /\ pc' \in {"filter", "startjob", "alloc", "finish", "refresh"}
    BY <1>40 DEF RefreshMedia, TypeOK, JobStates
  <2> QED
    BY <1>40, <2>1, <2>2, <2>3 DEF RefreshMedia, TypeOK, JobSteps
<1>41. ASSUME NEW r \in Readings, WaitTape(r) PROVE TypeOK'
  <2>1. /\ run' \in Runs /\ media_ready' \in Tapes
        /\ reasons' \subseteq {"offline", "empty", "needed", "other"}
    BY <1>41, PublishType DEF WaitTape
  <2>2. done' \in Records
    BY <1>41 DEF WaitTape, Seen, TypeOK, Records
  <2>3. job' \in JobStates
    BY <1>41 DEF WaitTape, TypeOK, JobStates
  <2>4. batch' \in Batches /\ pc' \in {"rows", "relcmd", "chain", "wait"}
    <3>1. CASE Awaited(r)
      <4>1. r \in Tapes \cup {NoTape}
        BY <3>1 DEF Awaited, TypeOK, JobStates
      <4> QED BY <1>41, <3>1, <4>1, TakePageType DEF WaitTape
    <3>2. CASE ~Awaited(r)
      BY <1>41, <3>2 DEF WaitTape, TypeOK
    <3> QED BY <3>1, <3>2
  <2> QED
    BY <1>41, <2>1, <2>2, <2>3, <2>4 DEF WaitTape, TypeOK, JobSteps
<1>42. ASSUME NEW r \in Readings, CutRead(r) PROVE TypeOK'
  <2>1. /\ run' \in Runs /\ media_ready' \in Tapes
        /\ reasons' \subseteq {"offline", "empty", "needed", "other"}
    BY <1>42, PublishType DEF CutRead
  <2>2. pc' \in {"cutget", "free"} /\ lost' \in BOOLEAN
    BY <1>42 DEF CutRead, EndCut, TypeOK
  <2> QED
    BY <1>42, <2>1, <2>2 DEF CutRead, TypeOK, CutSteps
<1>43. ASSUME NEW r \in Readings, PollRead(r) PROVE TypeOK'
  BY <1>43 DEF PollRead, TypeOK
<1>44. CASE PollPublish
  <2>1. /\ run' \in Runs /\ media_ready' \in Tapes
        /\ reasons' \subseteq {"offline", "empty", "needed", "other"}
    BY <1>44, PublishType DEF PollPublish, TypeOK
  <2> QED
    BY <1>44, <2>1 DEF PollPublish, TypeOK, Readings, Unreadable
<1>45. CASE UNCHANGED vars
  BY <1>45 DEF vars, TypeOK
<1> QED
  BY <1>1, <1>2, <1>3, <1>4, <1>5, <1>6, <1>7, <1>8, <1>9, <1>10, <1>11,
     <1>12, <1>13, <1>14, <1>15, <1>16, <1>17, <1>18, <1>19, <1>20, <1>21,
     <1>22, <1>23, <1>24, <1>25, <1>26, <1>27, <1>28, <1>29, <1>30, <1>31,
     <1>32, <1>33, <1>34, <1>35, <1>36, <1>37, <1>38, <1>39, <1>40, <1>41,
     <1>42, <1>43, <1>44, <1>45 DEF Next, JobStep, CutStep, PollStep, World

(* Every reachable state of the queue, its owner, the poll and the printer *)
(* is well typed.                                                          *)
THEOREM TypeCorrect == Spec => []TypeOK
BY InitType, TypeStep, PTL DEF Spec

(* Nothing lifts the refusal that follows a lost operation.                *)
LEMMA LossStep == LossInv /\ [Next]_vars => LossInv'
<1> SUFFICES ASSUME LossInv, [Next]_vars PROVE LossInv'
  OBVIOUS
<1> USE DEF LossInv, queue, poller, printer, history
<1>1. CASE BeginJob
  BY <1>1 DEF BeginJob
<1>2. CASE Cancel
  BY <1>2 DEF Cancel
<1>3. CASE RefuseJob
  BY <1>3 DEF RefuseJob
<1>4. CASE AcceptJob
  BY <1>4 DEF AcceptJob, RecoveryRequired
<1>5. CASE AllocBatch
  BY <1>5 DEF AllocBatch
<1>6. CASE RejectPage
  BY <1>6 DEF RejectPage, FailJob
<1>7. CASE StopWaiting
  BY <1>7 DEF StopWaiting, FailJob
<1>8. CASE ReadChain
  BY <1>8 DEF ReadChain
<1>9. CASE ClaimRun
  BY <1>9 DEF ClaimRun
<1>10. CASE SetupPage
  BY <1>10 DEF SetupPage
<1>11. CASE SetupFails
  BY <1>11 DEF SetupFails, FailJob
<1>12. CASE ReleaseAdvanced
  BY <1>12 DEF ReleaseAdvanced
<1>13. CASE ReleaseLabel
  BY <1>13 DEF ReleaseLabel
<1>14. CASE ReleaseInterrupted
  BY <1>14 DEF ReleaseInterrupted, ReleaseFails, FailJob
<1>15. CASE LabelReady
  BY <1>15 DEF LabelReady
<1>16. CASE LabelNotReady
  BY <1>16 DEF LabelNotReady, ReleaseFails, FailJob
<1>17. CASE WriteRows
  BY <1>17 DEF WriteRows
<1>18. CASE RowsFail
  BY <1>18 DEF RowsFail, FailJob
<1>19. CASE EndPage
  BY <1>19 DEF EndPage
<1>20. CASE EndPageCanceled
  BY <1>20 DEF EndPageCanceled, FailJob
<1>21. CASE EndInput
  BY <1>21 DEF EndInput, FailJob
<1>22. CASE EndJob
  BY <1>22 DEF EndJob
<1>23. CASE FinishJob
  BY <1>23 DEF FinishJob
<1>24. CASE BeginCut
  BY <1>24 DEF BeginCut
<1>25. CASE CutRecheck
  BY <1>25 DEF CutRecheck, EndCut, HoldsUserContent
<1>26. CASE CutClaim
  BY <1>26 DEF CutClaim
<1>27. CASE CutWrite
  BY <1>27 DEF CutWrite
<1>28. CASE CutReady
  BY <1>28 DEF CutReady, EndCut
<1>29. CASE CutFails
  BY <1>29 DEF CutFails, EndCut
<1>30. CASE PollBegin
  BY <1>30 DEF PollBegin
<1>31. CASE PollCount
  BY <1>31 DEF PollCount
<1>32. CASE PollAbsent
  BY <1>32 DEF PollAbsent, BreakChain
<1>33. CASE PollOpen
  BY <1>33 DEF PollOpen
<1>34. CASE PollRefused
  BY <1>34 DEF PollRefused
<1>35. CASE PollPublish
  BY <1>35 DEF PollPublish, PublishTape, EndsRun, BreakChain
<1>36. CASE SwapTape
  BY <1>36 DEF SwapTape
<1>37. CASE Disconnect
  BY <1>37 DEF Disconnect
<1>38. CASE Reconnect
  BY <1>38 DEF Reconnect
<1>39. CASE Restart
  BY <1>39 DEF Restart
<1>40. ASSUME NEW t \in Tapes, StartPage(t) PROVE LossInv'
  BY <1>40 DEF StartPage, TakePage
<1>41. ASSUME NEW r \in Readings, RefreshMedia(r) PROVE LossInv'
  BY <1>41 DEF RefreshMedia, PublishTape, EndsRun, BreakChain, RecoveryRequired
<1>42. ASSUME NEW r \in Readings, WaitTape(r) PROVE LossInv'
  BY <1>42 DEF WaitTape, PublishTape, TakePage
<1>43. ASSUME NEW r \in Readings, CutRead(r) PROVE LossInv'
  BY <1>43 DEF CutRead, PublishTape, EndsRun, BreakChain, EndCut
<1>44. ASSUME NEW r \in Readings, PollRead(r) PROVE LossInv'
  BY <1>44 DEF PollRead
<1>45. CASE UNCHANGED vars
  BY <1>45 DEF vars
<1> QED
  BY <1>1, <1>2, <1>3, <1>4, <1>5, <1>6, <1>7, <1>8, <1>9, <1>10, <1>11,
     <1>12, <1>13, <1>14, <1>15, <1>16, <1>17, <1>18, <1>19, <1>20, <1>21,
     <1>22, <1>23, <1>24, <1>25, <1>26, <1>27, <1>28, <1>29, <1>30, <1>31,
     <1>32, <1>33, <1>34, <1>35, <1>36, <1>37, <1>38, <1>39, <1>40, <1>41,
     <1>42, <1>43, <1>44, <1>45 DEF Next, JobStep, CutStep, PollStep, World

(* Once an operation ended with unconfirmed output, the queue stays        *)
(* uncertain and no step that could print, feed or cut is reached until    *)
(* the server restarts, whatever polls, readings and requests arrive.      *)
THEOREM LossSafe == Spec => [](LossLatched /\ NoOutputAfterLoss)
<1>1. Init => LossInv
  BY DEF Init, LossInv
<1>2. LossInv => LossLatched /\ NoOutputAfterLoss
  BY DEF LossInv, LossLatched, NoOutputAfterLoss, OutputSteps
<1> QED
  BY <1>1, <1>2, LossStep, PTL DEF Spec

(* A poll holds the device for exactly as long as it reads the status.     *)
LEMMA OwnerStepInv == OwnerInv /\ [Next]_vars => OwnerInv'
<1> SUFFICES ASSUME OwnerInv, [Next]_vars PROVE OwnerInv'
  OBVIOUS
<1> USE DEF OwnerInv, poller
<1>1. CASE BeginJob
  BY <1>1 DEF BeginJob
<1>2. CASE Cancel
  BY <1>2 DEF Cancel, Processing, JobSteps
<1>3. CASE RefuseJob
  BY <1>3 DEF RefuseJob
<1>4. CASE AcceptJob
  BY <1>4 DEF AcceptJob
<1>5. CASE AllocBatch
  BY <1>5 DEF AllocBatch
<1>6. CASE RejectPage
  BY <1>6 DEF RejectPage, FailJob
<1>7. CASE StopWaiting
  BY <1>7 DEF StopWaiting, FailJob
<1>8. CASE ReadChain
  BY <1>8 DEF ReadChain
<1>9. CASE ClaimRun
  BY <1>9 DEF ClaimRun
<1>10. CASE SetupPage
  BY <1>10 DEF SetupPage
<1>11. CASE SetupFails
  BY <1>11 DEF SetupFails, FailJob
<1>12. CASE ReleaseAdvanced
  BY <1>12 DEF ReleaseAdvanced
<1>13. CASE ReleaseLabel
  BY <1>13 DEF ReleaseLabel
<1>14. CASE ReleaseInterrupted
  BY <1>14 DEF ReleaseInterrupted, ReleaseFails, FailJob
<1>15. CASE LabelReady
  BY <1>15 DEF LabelReady
<1>16. CASE LabelNotReady
  BY <1>16 DEF LabelNotReady, ReleaseFails, FailJob
<1>17. CASE WriteRows
  BY <1>17 DEF WriteRows
<1>18. CASE RowsFail
  BY <1>18 DEF RowsFail, FailJob
<1>19. CASE EndPage
  BY <1>19 DEF EndPage
<1>20. CASE EndPageCanceled
  BY <1>20 DEF EndPageCanceled, FailJob
<1>21. CASE EndInput
  BY <1>21 DEF EndInput, FailJob
<1>22. CASE EndJob
  BY <1>22 DEF EndJob
<1>23. CASE FinishJob
  BY <1>23 DEF FinishJob
<1>24. CASE BeginCut
  BY <1>24 DEF BeginCut
<1>25. CASE CutRecheck
  BY <1>25 DEF CutRecheck, EndCut
<1>26. CASE CutClaim
  BY <1>26 DEF CutClaim
<1>27. CASE CutWrite
  BY <1>27 DEF CutWrite
<1>28. CASE CutReady
  BY <1>28 DEF CutReady, EndCut
<1>29. CASE CutFails
  BY <1>29 DEF CutFails, EndCut
<1>30. CASE PollBegin
  BY <1>30 DEF PollBegin
<1>31. CASE PollCount
  BY <1>31 DEF PollCount
<1>32. CASE PollAbsent
  BY <1>32 DEF PollAbsent
<1>33. CASE PollOpen
  BY <1>33 DEF PollOpen
<1>34. CASE PollRefused
  BY <1>34 DEF PollRefused
<1>35. CASE PollPublish
  BY <1>35 DEF PollPublish
<1>36. CASE SwapTape
  BY <1>36 DEF SwapTape
<1>37. CASE Disconnect
  BY <1>37 DEF Disconnect
<1>38. CASE Reconnect
  BY <1>38 DEF Reconnect
<1>39. CASE Restart
  BY <1>39 DEF Restart
<1>40. ASSUME NEW t \in Tapes, StartPage(t) PROVE OwnerInv'
  BY <1>40 DEF StartPage, TakePage
<1>41. ASSUME NEW r \in Readings, RefreshMedia(r) PROVE OwnerInv'
  BY <1>41 DEF RefreshMedia
<1>42. ASSUME NEW r \in Readings, WaitTape(r) PROVE OwnerInv'
  BY <1>42 DEF WaitTape, TakePage
<1>43. ASSUME NEW r \in Readings, CutRead(r) PROVE OwnerInv'
  BY <1>43 DEF CutRead, EndCut
<1>44. ASSUME NEW r \in Readings, PollRead(r) PROVE OwnerInv'
  BY <1>44 DEF PollRead
<1>45. CASE UNCHANGED vars
  BY <1>45 DEF vars
<1> QED
  BY <1>1, <1>2, <1>3, <1>4, <1>5, <1>6, <1>7, <1>8, <1>9, <1>10, <1>11,
     <1>12, <1>13, <1>14, <1>15, <1>16, <1>17, <1>18, <1>19, <1>20, <1>21,
     <1>22, <1>23, <1>24, <1>25, <1>26, <1>27, <1>28, <1>29, <1>30, <1>31,
     <1>32, <1>33, <1>34, <1>35, <1>36, <1>37, <1>38, <1>39, <1>40, <1>41,
     <1>42, <1>43, <1>44, <1>45 DEF Next, JobStep, CutStep, PollStep, World

(* The same of every reachable state, for the lemmas that rely on it.      *)
LEMMA OwnerCorrect == Spec => []OwnerInv
<1>1. Init => OwnerInv
  BY DEF Init, OwnerInv
<1> QED
  BY <1>1, OwnerStepInv, PTL DEF Spec

(* An uncertain run always has a culprit: the owner is still at the output *)
(* it claimed the run for, or the loss has been recorded.                  *)
LEMMA ClaimStep == TypeOK /\ OwnerInv /\ ClaimInv /\ [Next]_vars => ClaimInv'
<1> SUFFICES ASSUME TypeOK, OwnerInv, ClaimInv, [Next]_vars PROVE ClaimInv'
  OBVIOUS
<1> USE DEF ClaimInv, Processing, JobSteps, queue, poller, printer, history
<1>1. CASE BeginJob
  BY <1>1 DEF BeginJob
<1>2. CASE Cancel
  BY <1>2 DEF Cancel
<1>3. CASE RefuseJob
  BY <1>3 DEF RefuseJob
<1>4. CASE AcceptJob
  BY <1>4 DEF AcceptJob, RecoveryRequired
<1>5. CASE AllocBatch
  BY <1>5 DEF AllocBatch
<1>6. CASE RejectPage
  BY <1>6 DEF RejectPage, FailJob
<1>7. CASE StopWaiting
  BY <1>7 DEF StopWaiting, FailJob
<1>8. CASE ReadChain
  BY <1>8 DEF ReadChain
<1>9. CASE ClaimRun
  BY <1>9 DEF ClaimRun
<1>10. CASE SetupPage
  BY <1>10 DEF SetupPage, TypeOK, Records
<1>11. CASE SetupFails
  BY <1>11 DEF SetupFails, FailJob, TypeOK, Records
<1>12. CASE ReleaseAdvanced
  BY <1>12 DEF ReleaseAdvanced
<1>13. CASE ReleaseLabel
  BY <1>13 DEF ReleaseLabel
<1>14. CASE ReleaseInterrupted
  BY <1>14 DEF ReleaseInterrupted, ReleaseFails, FailJob
<1>15. CASE LabelReady
  BY <1>15 DEF LabelReady, RunAfterRelease
<1>16. CASE LabelNotReady
  BY <1>16 DEF LabelNotReady, ReleaseFails, FailJob
<1>17. CASE WriteRows
  BY <1>17 DEF WriteRows
<1>18. CASE RowsFail
  BY <1>18 DEF RowsFail, FailJob
<1>19. CASE EndPage
  BY <1>19 DEF EndPage
<1>20. CASE EndPageCanceled
  BY <1>20 DEF EndPageCanceled, FailJob
<1>21. CASE EndInput
  BY <1>21 DEF EndInput, FailJob
<1>22. CASE EndJob
  BY <1>22 DEF EndJob
<1>23. CASE FinishJob
  BY <1>23 DEF FinishJob
<1>24. CASE BeginCut
  BY <1>24 DEF BeginCut
<1>25. CASE CutRecheck
  BY <1>25 DEF CutRecheck, EndCut, HoldsUserContent
<1>26. CASE CutClaim
  BY <1>26 DEF CutClaim
<1>27. CASE CutWrite
  BY <1>27 DEF CutWrite
<1>28. CASE CutReady
  BY <1>28 DEF CutReady, EndCut
<1>29. CASE CutFails
  BY <1>29 DEF CutFails, EndCut
<1>30. CASE PollBegin
  BY <1>30 DEF PollBegin
<1>31. CASE PollCount
  BY <1>31 DEF PollCount
<1>32. CASE PollAbsent
  BY <1>32 DEF PollAbsent, BreakChain
<1>33. CASE PollOpen
  BY <1>33 DEF PollOpen
<1>34. CASE PollRefused
  BY <1>34 DEF PollRefused
<1>35. CASE PollPublish
  BY <1>35 DEF PollPublish, PublishTape, EndsRun, BreakChain
<1>36. CASE SwapTape
  BY <1>36 DEF SwapTape
<1>37. CASE Disconnect
  BY <1>37 DEF Disconnect
<1>38. CASE Reconnect
  BY <1>38 DEF Reconnect
<1>39. CASE Restart
  BY <1>39 DEF Restart
<1>40. ASSUME NEW t \in Tapes, StartPage(t) PROVE ClaimInv'
  BY <1>40 DEF StartPage, TakePage, TypeOK, Records
<1>41. ASSUME NEW r \in Readings, RefreshMedia(r) PROVE ClaimInv'
  BY <1>41 DEF RefreshMedia, PublishTape, EndsRun, BreakChain, Seen
<1>42. ASSUME NEW r \in Readings, WaitTape(r) PROVE ClaimInv'
  BY <1>42 DEF WaitTape, PublishTape, EndsRun, BreakChain, TakePage, Seen,
     TypeOK, Records
<1>43. ASSUME NEW r \in Readings, CutRead(r) PROVE ClaimInv'
  BY <1>43 DEF CutRead, PublishTape, EndsRun, BreakChain, EndCut
<1>44. ASSUME NEW r \in Readings, PollRead(r) PROVE ClaimInv'
  BY <1>44 DEF PollRead, OwnerInv
<1>45. CASE UNCHANGED vars
  BY <1>45 DEF vars
<1> QED
  BY <1>1, <1>2, <1>3, <1>4, <1>5, <1>6, <1>7, <1>8, <1>9, <1>10, <1>11,
     <1>12, <1>13, <1>14, <1>15, <1>16, <1>17, <1>18, <1>19, <1>20, <1>21,
     <1>22, <1>23, <1>24, <1>25, <1>26, <1>27, <1>28, <1>29, <1>30, <1>31,
     <1>32, <1>33, <1>34, <1>35, <1>36, <1>37, <1>38, <1>39, <1>40, <1>41,
     <1>42, <1>43, <1>44, <1>45 DEF Next, JobStep, CutStep, PollStep, World

(* A job that never sent print bytes leaves the run as healthy as it found *)
(* it: rejected, canceled, out of tape or unreadable, it costs nothing.    *)
THEOREM RejectionIsHarmless == Spec => []RejectedKeepsRun
<1>1. Init => ClaimInv
  BY DEF Init, ClaimInv
<1>2. ClaimInv => RejectedKeepsRun
  BY DEF ClaimInv, RejectedKeepsRun
<1> QED
  BY <1>1, <1>2, ClaimStep, TypeCorrect, OwnerCorrect, PTL DEF Spec

(* The queue and the cutter agree about the tape end that is held there.   *)
LEMMA HeldStep == HeldInv /\ [Next]_vars => HeldInv'
<1> SUFFICES ASSUME HeldInv, [Next]_vars PROVE HeldInv'
  OBVIOUS
<1> USE DEF HeldInv, HeldMatchesRun, queue, poller, printer, history
<1>1. CASE BeginJob
  BY <1>1 DEF BeginJob
<1>2. CASE Cancel
  BY <1>2 DEF Cancel, Processing, JobSteps
<1>3. CASE RefuseJob
  BY <1>3 DEF RefuseJob
<1>4. CASE AcceptJob
  BY <1>4 DEF AcceptJob
<1>5. CASE AllocBatch
  BY <1>5 DEF AllocBatch
<1>6. CASE RejectPage
  BY <1>6 DEF RejectPage, FailJob
<1>7. CASE StopWaiting
  BY <1>7 DEF StopWaiting, FailJob
<1>8. CASE ReadChain
  BY <1>8 DEF ReadChain
<1>9. CASE ClaimRun
  BY <1>9 DEF ClaimRun
<1>10. CASE SetupPage
  BY <1>10 DEF SetupPage
<1>11. CASE SetupFails
  BY <1>11 DEF SetupFails, FailJob
<1>12. CASE ReleaseAdvanced
  BY <1>12 DEF ReleaseAdvanced
<1>13. CASE ReleaseLabel
  BY <1>13 DEF ReleaseLabel
<1>14. CASE ReleaseInterrupted
  BY <1>14 DEF ReleaseInterrupted, ReleaseFails, FailJob
<1>15. CASE LabelReady
  BY <1>15 DEF LabelReady, RunAfterRelease, Cutting
<1>16. CASE LabelNotReady
  BY <1>16 DEF LabelNotReady, ReleaseFails, FailJob
<1>17. CASE WriteRows
  BY <1>17 DEF WriteRows
<1>18. CASE RowsFail
  BY <1>18 DEF RowsFail, FailJob
<1>19. CASE EndPage
  BY <1>19 DEF EndPage
<1>20. CASE EndPageCanceled
  BY <1>20 DEF EndPageCanceled, FailJob
<1>21. CASE EndInput
  BY <1>21 DEF EndInput, FailJob
<1>22. CASE EndJob
  BY <1>22 DEF EndJob
<1>23. CASE FinishJob
  BY <1>23 DEF FinishJob
<1>24. CASE BeginCut
  BY <1>24 DEF BeginCut
<1>25. CASE CutRecheck
  BY <1>25 DEF CutRecheck, EndCut, HoldsUserContent
<1>26. CASE CutClaim
  BY <1>26 DEF CutClaim
<1>27. CASE CutWrite
  BY <1>27 DEF CutWrite
<1>28. CASE CutReady
  BY <1>28 DEF CutReady, EndCut
<1>29. CASE CutFails
  BY <1>29 DEF CutFails, EndCut
<1>30. CASE PollBegin
  BY <1>30 DEF PollBegin
<1>31. CASE PollCount
  BY <1>31 DEF PollCount
<1>32. CASE PollAbsent
  BY <1>32 DEF PollAbsent, BreakChain
<1>33. CASE PollOpen
  BY <1>33 DEF PollOpen
<1>34. CASE PollRefused
  BY <1>34 DEF PollRefused
<1>35. CASE PollPublish
  BY <1>35 DEF PollPublish, PublishTape, EndsRun, BreakChain
<1>36. CASE SwapTape
  BY <1>36 DEF SwapTape
<1>37. CASE Disconnect
  BY <1>37 DEF Disconnect
<1>38. CASE Reconnect
  BY <1>38 DEF Reconnect
<1>39. CASE Restart
  BY <1>39 DEF Restart
<1>40. ASSUME NEW t \in Tapes, StartPage(t) PROVE HeldInv'
  BY <1>40 DEF StartPage, TakePage
<1>41. ASSUME NEW r \in Readings, RefreshMedia(r) PROVE HeldInv'
  BY <1>41 DEF RefreshMedia, PublishTape, EndsRun, BreakChain
<1>42. ASSUME NEW r \in Readings, WaitTape(r) PROVE HeldInv'
  BY <1>42 DEF WaitTape, PublishTape, EndsRun, BreakChain, TakePage
<1>43. ASSUME NEW r \in Readings, CutRead(r) PROVE HeldInv'
  BY <1>43 DEF CutRead, PublishTape, EndsRun, BreakChain, EndCut
<1>44. ASSUME NEW r \in Readings, PollRead(r) PROVE HeldInv'
  BY <1>44 DEF PollRead
<1>45. CASE UNCHANGED vars
  BY <1>45 DEF vars
<1> QED
  BY <1>1, <1>2, <1>3, <1>4, <1>5, <1>6, <1>7, <1>8, <1>9, <1>10, <1>11,
     <1>12, <1>13, <1>14, <1>15, <1>16, <1>17, <1>18, <1>19, <1>20, <1>21,
     <1>22, <1>23, <1>24, <1>25, <1>26, <1>27, <1>28, <1>29, <1>30, <1>31,
     <1>32, <1>33, <1>34, <1>35, <1>36, <1>37, <1>38, <1>39, <1>40, <1>41,
     <1>42, <1>43, <1>44, <1>45 DEF Next, JobStep, CutStep, PollStep, World

(* An OPEN run holds user content and an OPEN_BLANK run only the tail of a *)
(* cut, unless the cassette, the link or the server was disturbed since    *)
(* the last confirmed release.                                             *)
THEOREM HeldSafe == Spec => []HeldMatchesRun
<1>1. Init => HeldInv
  BY DEF Init, HeldInv, HeldMatchesRun
<1>2. HeldInv => HeldMatchesRun
  BY DEF HeldInv
<1> QED
  BY <1>1, <1>2, HeldStep, PTL DEF Spec

(* The blank continuation of an explicit cut feeds tape only over user     *)
(* content, whatever polls and swaps come between the reading, the recheck *)
(* and the cut.                                                            *)
THEOREM CutFeedsHeldContent == Spec => []CutOnlyHeldContent
<1>1. Init => HeldInv
  BY DEF Init, HeldInv, HeldMatchesRun
<1>2. HeldInv => CutOnlyHeldContent
  BY DEF HeldInv, CutOnlyHeldContent
<1> QED
  BY <1>1, <1>2, HeldStep, PTL DEF Spec

(* The pending label and the failed flag follow the steps of the job.      *)
LEMMA PendingStep ==
    TypeOK /\ OwnerInv /\ PendingInv /\ [Next]_vars => PendingInv'
<1> SUFFICES ASSUME TypeOK, OwnerInv, PendingInv, [Next]_vars PROVE PendingInv'
  OBVIOUS
<1>0. Extended' = Extended /\ Extended \in BOOLEAN
  BY DEF Next, vars, Extended
<1> USE <1>0
    DEF TypeOK, Batches, OwnerInv, PendingInv, Processing, JobSteps,
        CutSteps, poller, printer, queue, history
<1>1. CASE BeginJob
  BY <1>1 DEF BeginJob
<1>2. CASE Cancel
  BY <1>2 DEF Cancel
<1>3. CASE RefuseJob
  BY <1>3 DEF RefuseJob
<1>4. CASE AcceptJob
  BY <1>4 DEF AcceptJob
<1>5. CASE AllocBatch
  BY <1>5 DEF AllocBatch, NewBatch
<1>6. CASE RejectPage
  BY <1>6 DEF RejectPage, FailJob
<1>7. CASE StopWaiting
  BY <1>7 DEF StopWaiting, FailJob
<1>8. CASE ReadChain
  BY <1>8 DEF ReadChain
<1>9. CASE ClaimRun
  BY <1>9 DEF ClaimRun
<1>10. CASE SetupPage
  BY <1>10 DEF SetupPage
<1>11. CASE SetupFails
  BY <1>11 DEF SetupFails, FailJob
<1>12. CASE ReleaseAdvanced
  BY <1>12 DEF ReleaseAdvanced
<1>13. CASE ReleaseLabel
  BY <1>13 DEF ReleaseLabel
<1>14. CASE ReleaseInterrupted
  BY <1>14 DEF ReleaseInterrupted, ReleaseFails, FailJob, NoBatch, NewBatch
<1>15. CASE LabelReady
  BY <1>15 DEF LabelReady, NoBatch, NewBatch
<1>16. CASE LabelNotReady
  BY <1>16 DEF LabelNotReady, ReleaseFails, FailJob, NoBatch, NewBatch
<1>17. CASE WriteRows
  BY <1>17 DEF WriteRows
<1>18. CASE RowsFail
  BY <1>18 DEF RowsFail, FailJob
<1>19. CASE EndPage
  BY <1>19 DEF EndPage
<1>20. CASE EndPageCanceled
  BY <1>20 DEF EndPageCanceled, FailJob
<1>21. CASE EndInput
  BY <1>21 DEF EndInput, FailJob
<1>22. CASE EndJob
  BY <1>22 DEF EndJob, NoBatch, NewBatch, EndsNormally
<1>23. CASE FinishJob
  BY <1>23 DEF FinishJob
<1>24. CASE BeginCut
  BY <1>24 DEF BeginCut
<1>25. CASE CutRecheck
  BY <1>25 DEF CutRecheck, EndCut, HoldsUserContent
<1>26. CASE CutClaim
  BY <1>26 DEF CutClaim
<1>27. CASE CutWrite
  BY <1>27 DEF CutWrite
<1>28. CASE CutReady
  BY <1>28 DEF CutReady, EndCut
<1>29. CASE CutFails
  BY <1>29 DEF CutFails, EndCut
<1>30. CASE PollBegin
  BY <1>30 DEF PollBegin
<1>31. CASE PollCount
  BY <1>31 DEF PollCount
<1>32. CASE PollAbsent
  BY <1>32 DEF PollAbsent
<1>33. CASE PollOpen
  BY <1>33 DEF PollOpen
<1>34. CASE PollRefused
  BY <1>34 DEF PollRefused
<1>35. CASE PollPublish
  BY <1>35 DEF PollPublish
<1>36. CASE SwapTape
  BY <1>36 DEF SwapTape
<1>37. CASE Disconnect
  BY <1>37 DEF Disconnect
<1>38. CASE Reconnect
  BY <1>38 DEF Reconnect
<1>39. CASE Restart
  BY <1>39 DEF Restart, NoBatch, NewBatch
<1>40. ASSUME NEW t \in Tapes, StartPage(t) PROVE PendingInv'
  BY <1>40 DEF StartPage, TakePage
<1>41. ASSUME NEW r \in Readings, RefreshMedia(r) PROVE PendingInv'
  BY <1>41 DEF RefreshMedia
<1>42. ASSUME NEW r \in Readings, WaitTape(r) PROVE PendingInv'
  BY <1>42 DEF WaitTape, TakePage
<1>43. ASSUME NEW r \in Readings, CutRead(r) PROVE PendingInv'
  BY <1>43 DEF CutRead, EndCut
<1>44. ASSUME NEW r \in Readings, PollRead(r) PROVE PendingInv'
  BY <1>44 DEF PollRead
<1>45. CASE UNCHANGED vars
  BY <1>45 DEF vars
<1> QED
  BY <1>1, <1>2, <1>3, <1>4, <1>5, <1>6, <1>7, <1>8, <1>9, <1>10, <1>11,
     <1>12, <1>13, <1>14, <1>15, <1>16, <1>17, <1>18, <1>19, <1>20, <1>21,
     <1>22, <1>23, <1>24, <1>25, <1>26, <1>27, <1>28, <1>29, <1>30, <1>31,
     <1>32, <1>33, <1>34, <1>35, <1>36, <1>37, <1>38, <1>39, <1>40, <1>41,
     <1>42, <1>43, <1>44, <1>45 DEF Next, JobStep, CutStep, PollStep, World

(* Between the claim and the confirmed release the run is uncertain.       *)
LEMMA UncertainStep ==
    TypeOK /\ PendingInv /\ UncertainInv /\ [Next]_vars => UncertainInv'
<1> SUFFICES ASSUME TypeOK, PendingInv, UncertainInv, [Next]_vars PROVE UncertainInv'
  OBVIOUS
<1>0. Extended' = Extended /\ Extended \in BOOLEAN
  BY DEF Next, vars, Extended
<1> USE <1>0
    DEF TypeOK, Batches, PendingInv, UncertainInv, Processing, JobSteps,
        queue, poller, printer, history
<1>1. CASE BeginJob
  BY <1>1 DEF BeginJob
<1>2. CASE Cancel
  BY <1>2 DEF Cancel
<1>3. CASE RefuseJob
  BY <1>3 DEF RefuseJob
<1>4. CASE AcceptJob
  BY <1>4 DEF AcceptJob
<1>5. CASE AllocBatch
  BY <1>5 DEF AllocBatch, NewBatch
<1>6. CASE RejectPage
  BY <1>6 DEF RejectPage, FailJob
<1>7. CASE StopWaiting
  BY <1>7 DEF StopWaiting, FailJob
<1>8. CASE ReadChain
  BY <1>8 DEF ReadChain, ChainOpen
<1>9. CASE ClaimRun
  BY <1>9 DEF ClaimRun
<1>10. CASE SetupPage
  BY <1>10 DEF SetupPage, Fresh
<1>11. CASE SetupFails
  BY <1>11 DEF SetupFails, FailJob
<1>12. CASE ReleaseAdvanced
  BY <1>12 DEF ReleaseAdvanced
<1>13. CASE ReleaseLabel
  BY <1>13 DEF ReleaseLabel
<1>14. CASE ReleaseInterrupted
  BY <1>14 DEF ReleaseInterrupted, ReleaseFails, FailJob, NoBatch, NewBatch
<1>15. CASE LabelReady
  BY <1>15 DEF LabelReady, NoBatch, NewBatch, RunAfterRelease
<1>16. CASE LabelNotReady
  BY <1>16 DEF LabelNotReady, ReleaseFails, FailJob, NoBatch, NewBatch
<1>17. CASE WriteRows
  BY <1>17 DEF WriteRows
<1>18. CASE RowsFail
  BY <1>18 DEF RowsFail, FailJob
<1>19. CASE EndPage
  BY <1>19 DEF EndPage
<1>20. CASE EndPageCanceled
  BY <1>20 DEF EndPageCanceled, FailJob
<1>21. CASE EndInput
  BY <1>21 DEF EndInput, FailJob
<1>22. CASE EndJob
  BY <1>22 DEF EndJob, NoBatch, NewBatch, EndsNormally
<1>23. CASE FinishJob
  BY <1>23 DEF FinishJob
<1>24. CASE BeginCut
  BY <1>24 DEF BeginCut
<1>25. CASE CutRecheck
  BY <1>25 DEF CutRecheck, EndCut, HoldsUserContent
<1>26. CASE CutClaim
  BY <1>26 DEF CutClaim
<1>27. CASE CutWrite
  BY <1>27 DEF CutWrite
<1>28. CASE CutReady
  BY <1>28 DEF CutReady, EndCut
<1>29. CASE CutFails
  BY <1>29 DEF CutFails, EndCut
<1>30. CASE PollBegin
  BY <1>30 DEF PollBegin
<1>31. CASE PollCount
  BY <1>31 DEF PollCount
<1>32. CASE PollAbsent
  BY <1>32 DEF PollAbsent, BreakChain
<1>33. CASE PollOpen
  BY <1>33 DEF PollOpen
<1>34. CASE PollRefused
  BY <1>34 DEF PollRefused
<1>35. CASE PollPublish
  BY <1>35 DEF PollPublish, PublishTape, EndsRun, BreakChain
<1>36. CASE SwapTape
  BY <1>36 DEF SwapTape
<1>37. CASE Disconnect
  BY <1>37 DEF Disconnect
<1>38. CASE Reconnect
  BY <1>38 DEF Reconnect, HeldInv
<1>39. CASE Restart
  BY <1>39 DEF Restart, NoBatch, NewBatch
<1>40. ASSUME NEW t \in Tapes, StartPage(t) PROVE UncertainInv'
  BY <1>40 DEF StartPage, TakePage
<1>41. ASSUME NEW r \in Readings, RefreshMedia(r) PROVE UncertainInv'
  BY <1>41 DEF RefreshMedia, PublishTape, EndsRun, BreakChain
<1>42. ASSUME NEW r \in Readings, WaitTape(r) PROVE UncertainInv'
  BY <1>42 DEF WaitTape, PublishTape, EndsRun, BreakChain, TakePage
<1>43. ASSUME NEW r \in Readings, CutRead(r) PROVE UncertainInv'
  BY <1>43 DEF CutRead, PublishTape, EndsRun, BreakChain, EndCut
<1>44. ASSUME NEW r \in Readings, PollRead(r) PROVE UncertainInv'
  BY <1>44 DEF PollRead
<1>45. CASE UNCHANGED vars
  BY <1>45 DEF vars
<1> QED
  BY <1>1, <1>2, <1>3, <1>4, <1>5, <1>6, <1>7, <1>8, <1>9, <1>10, <1>11,
     <1>12, <1>13, <1>14, <1>15, <1>16, <1>17, <1>18, <1>19, <1>20, <1>21,
     <1>22, <1>23, <1>24, <1>25, <1>26, <1>27, <1>28, <1>29, <1>30, <1>31,
     <1>32, <1>33, <1>34, <1>35, <1>36, <1>37, <1>38, <1>39, <1>40, <1>41,
     <1>42, <1>43, <1>44, <1>45 DEF Next, JobStep, CutStep, PollStep, World

(* The buffer is what the run state and the step say it is.                *)
LEMMA BufferStep ==
    TypeOK /\ OwnerInv /\ PendingInv /\ UncertainInv /\ HeldInv /\ BufferInv /\ [Next]_vars => BufferInv'
<1> SUFFICES ASSUME TypeOK, OwnerInv, PendingInv, UncertainInv, HeldInv, BufferInv, [Next]_vars PROVE BufferInv'
  OBVIOUS
<1>0. Extended' = Extended /\ Extended \in BOOLEAN
  BY DEF Next, vars, Extended
<1> USE <1>0
    DEF TypeOK, Batches, JobStates, OwnerInv, PendingInv, UncertainInv, BufferInv,
        Processing, JobSteps,        HealthyMeansEmpty, ChainOpen, queue, poller, printer, history
<1>1. CASE BeginJob
  BY <1>1 DEF BeginJob
<1>2. CASE Cancel
  BY <1>2 DEF Cancel
<1>3. CASE RefuseJob
  BY <1>3 DEF RefuseJob
<1>4. CASE AcceptJob
  BY <1>4 DEF AcceptJob
<1>5. CASE AllocBatch
  BY <1>5 DEF AllocBatch, NewBatch
<1>6. CASE RejectPage
  BY <1>6 DEF RejectPage, FailJob
<1>7. CASE StopWaiting
  BY <1>7 DEF StopWaiting, FailJob
<1>8. CASE ReadChain
  BY <1>8 DEF ReadChain, ChainOpen
<1>9. CASE ClaimRun
  BY <1>9 DEF ClaimRun
<1>10. CASE SetupPage
  BY <1>10 DEF SetupPage, Fresh
<1>11. CASE SetupFails
  BY <1>11 DEF SetupFails, FailJob
<1>12. CASE ReleaseAdvanced
  BY <1>12 DEF ReleaseAdvanced
<1>13. CASE ReleaseLabel
  BY <1>13 DEF ReleaseLabel
<1>14. CASE ReleaseInterrupted
  BY <1>14 DEF ReleaseInterrupted, ReleaseFails, FailJob, NoBatch, NewBatch
<1>15. CASE LabelReady
  BY <1>15 DEF LabelReady, NoBatch, NewBatch, RunAfterRelease
<1>16. CASE LabelNotReady
  BY <1>16 DEF LabelNotReady, ReleaseFails, FailJob, NoBatch, NewBatch
<1>17. CASE WriteRows
  BY <1>17 DEF WriteRows
<1>18. CASE RowsFail
  BY <1>18 DEF RowsFail, FailJob
<1>19. CASE EndPage
  BY <1>19 DEF EndPage
<1>20. CASE EndPageCanceled
  BY <1>20 DEF EndPageCanceled, FailJob
<1>21. CASE EndInput
  BY <1>21 DEF EndInput, FailJob
<1>22. CASE EndJob
  BY <1>22 DEF EndJob, NoBatch, NewBatch, EndsNormally
<1>23. CASE FinishJob
  BY <1>23 DEF FinishJob
<1>24. CASE BeginCut
  BY <1>24 DEF BeginCut
<1>25. CASE CutRecheck
  BY <1>25 DEF CutRecheck, EndCut, HoldsUserContent
<1>26. CASE CutClaim
  BY <1>26 DEF CutClaim
<1>27. CASE CutWrite
  BY <1>27 DEF CutWrite
<1>28. CASE CutReady
  BY <1>28 DEF CutReady, EndCut
<1>29. CASE CutFails
  BY <1>29 DEF CutFails, EndCut
<1>30. CASE PollBegin
  BY <1>30 DEF PollBegin
<1>31. CASE PollCount
  BY <1>31 DEF PollCount
<1>32. CASE PollAbsent
  BY <1>32 DEF PollAbsent, BreakChain
<1>33. CASE PollOpen
  BY <1>33 DEF PollOpen
<1>34. CASE PollRefused
  BY <1>34 DEF PollRefused
<1>35. CASE PollPublish
  BY <1>35 DEF PollPublish, PublishTape, EndsRun, BreakChain
<1>36. CASE SwapTape
  BY <1>36 DEF SwapTape
<1>37. CASE Disconnect
  BY <1>37 DEF Disconnect
<1>38. CASE Reconnect
  BY <1>38 DEF Reconnect, HeldInv
<1>39. CASE Restart
  BY <1>39 DEF Restart, NoBatch, NewBatch
<1>40. ASSUME NEW t \in Tapes, StartPage(t) PROVE BufferInv'
  BY <1>40 DEF StartPage, TakePage
<1>41. ASSUME NEW r \in Readings, RefreshMedia(r) PROVE BufferInv'
  BY <1>41 DEF RefreshMedia, PublishTape, EndsRun, BreakChain
<1>42. ASSUME NEW r \in Readings, WaitTape(r) PROVE BufferInv'
  BY <1>42 DEF WaitTape, PublishTape, EndsRun, BreakChain, TakePage
<1>43. ASSUME NEW r \in Readings, CutRead(r) PROVE BufferInv'
  BY <1>43 DEF CutRead, PublishTape, EndsRun, BreakChain, EndCut
<1>44. ASSUME NEW r \in Readings, PollRead(r) PROVE BufferInv'
  BY <1>44 DEF PollRead
<1>45. CASE UNCHANGED vars
  BY <1>45 DEF vars
<1> QED
  BY <1>1, <1>2, <1>3, <1>4, <1>5, <1>6, <1>7, <1>8, <1>9, <1>10, <1>11,
     <1>12, <1>13, <1>14, <1>15, <1>16, <1>17, <1>18, <1>19, <1>20, <1>21,
     <1>22, <1>23, <1>24, <1>25, <1>26, <1>27, <1>28, <1>29, <1>30, <1>31,
     <1>32, <1>33, <1>34, <1>35, <1>36, <1>37, <1>38, <1>39, <1>40, <1>41,
     <1>42, <1>43, <1>44, <1>45 DEF Next, JobStep, CutStep, PollStep, World

(* The part of the inductive invariant that is about run, step and printer.*)
THEOREM CoreCorrect == Spec => []CoreInv
<1>1. Init => LossInv /\ ClaimInv /\ HeldInv /\ OwnerInv
  BY DEF Init, LossInv, ClaimInv, HeldInv, HeldMatchesRun, OwnerInv
<1>2. Init => PendingInv /\ UncertainInv /\ BufferInv
  <2> SUFFICES ASSUME Init PROVE PendingInv /\ UncertainInv /\ BufferInv
    OBVIOUS
  <2>1. ~batch.pending /\ ~batch.failed
    BY DEF Init, NoBatch, NewBatch
  <2>2. PendingInv /\ UncertainInv
    BY <2>1 DEF Init, PendingInv, UncertainInv, Processing, JobSteps
  <2>3. BufferInv
    BY <2>1 DEF Init, BufferInv, HealthyMeansEmpty, ChainOpen
  <2> QED BY <2>2, <2>3
<1> QED
  BY <1>1, <1>2, LossStep, ClaimStep, HeldStep, OwnerStepInv, PendingStep,
     UncertainStep, BufferStep, TypeCorrect, PTL DEF Spec, CoreInv

(* A run the queue calls healthy leaves no raster in the printer.          *)
THEOREM BufferSafe == Spec => []HealthyMeansEmpty
<1>1. CoreInv => HealthyMeansEmpty
  BY DEF CoreInv, BufferInv
<1> QED
  BY <1>1, CoreCorrect, PTL

(* Every release acts on exactly one complete label, and the blank         *)
(* continuation of a cut on an empty buffer.                               *)
THEOREM WholeLabels == Spec => []ReleasesWholeLabels
<1>1. CoreInv => ReleasesWholeLabels
  BY DEF CoreInv, UncertainInv, PendingInv, BufferInv, ReleasesWholeLabels
<1> QED
  BY <1>1, CoreCorrect, PTL

(* Without idle polling nobody but the owner publishes.                    *)
LEMMA QuietStep ==
    ASSUME ~Polling, QuietInv, [Next]_vars PROVE QuietInv'
<1> USE DEF QuietInv, JobSteps, queue, poller, printer, history
<1>1. ~PollStep
  BY DEF QuietInv, PollStep, PollBegin, PollCount, PollAbsent, PollOpen,
         PollRefused, PollRead, PollPublish
<1>2. CASE BeginJob
  BY <1>2 DEF BeginJob
<1>3. CASE Cancel
  BY <1>3 DEF Cancel, Processing, JobSteps
<1>4. CASE RefuseJob
  BY <1>4 DEF RefuseJob
<1>5. CASE AcceptJob
  BY <1>5 DEF AcceptJob
<1>6. CASE AllocBatch
  BY <1>6 DEF AllocBatch, NewBatch
<1>7. CASE RejectPage
  BY <1>7 DEF RejectPage, FailJob
<1>8. CASE StopWaiting
  BY <1>8 DEF StopWaiting, FailJob
<1>9. CASE ReadChain
  BY <1>9 DEF ReadChain
<1>10. CASE ClaimRun
  BY <1>10 DEF ClaimRun
<1>11. CASE SetupPage
  BY <1>11 DEF SetupPage
<1>12. CASE SetupFails
  BY <1>12 DEF SetupFails, FailJob
<1>13. CASE ReleaseAdvanced
  BY <1>13 DEF ReleaseAdvanced
<1>14. CASE ReleaseLabel
  BY <1>14 DEF ReleaseLabel
<1>15. CASE ReleaseInterrupted
  BY <1>15 DEF ReleaseInterrupted, ReleaseFails, FailJob
<1>16. CASE LabelReady
  BY <1>16 DEF LabelReady, RunAfterRelease, Cutting
<1>17. CASE LabelNotReady
  BY <1>17 DEF LabelNotReady, ReleaseFails, FailJob
<1>18. CASE WriteRows
  BY <1>18 DEF WriteRows
<1>19. CASE RowsFail
  BY <1>19 DEF RowsFail, FailJob
<1>20. CASE EndPage
  BY <1>20 DEF EndPage
<1>21. CASE EndPageCanceled
  BY <1>21 DEF EndPageCanceled, FailJob
<1>22. CASE EndInput
  BY <1>22 DEF EndInput, FailJob
<1>23. CASE EndJob
  BY <1>23 DEF EndJob, EndsNormally
<1>24. CASE FinishJob
  BY <1>24 DEF FinishJob
<1>25. CASE BeginCut
  BY <1>25 DEF BeginCut
<1>26. CASE CutRecheck
  BY <1>26 DEF CutRecheck, EndCut, HoldsUserContent
<1>27. CASE CutClaim
  BY <1>27 DEF CutClaim
<1>28. CASE CutWrite
  BY <1>28 DEF CutWrite
<1>29. CASE CutReady
  BY <1>29 DEF CutReady, EndCut
<1>30. CASE CutFails
  BY <1>30 DEF CutFails, EndCut
<1>31. CASE SwapTape
  BY <1>31 DEF SwapTape
<1>32. CASE Disconnect
  BY <1>32 DEF Disconnect
<1>33. CASE Reconnect
  BY <1>33 DEF Reconnect
<1>34. CASE Restart
  BY <1>34 DEF Restart
<1>35. ASSUME NEW t \in Tapes, StartPage(t) PROVE QuietInv'
  BY <1>35 DEF StartPage, TakePage
<1>36. ASSUME NEW r \in Readings, RefreshMedia(r) PROVE QuietInv'
  BY <1>36 DEF RefreshMedia, PublishTape, EndsRun, BreakChain, Publishable, Seen
<1>37. ASSUME NEW r \in Readings, WaitTape(r) PROVE QuietInv'
  BY <1>37 DEF WaitTape, PublishTape, EndsRun, BreakChain, Publishable, Seen, TakePage, Awaited
<1>38. ASSUME NEW r \in Readings, CutRead(r) PROVE QuietInv'
  BY <1>38 DEF CutRead, PublishTape, EndsRun, BreakChain, Publishable, EndCut
<1>39. CASE UNCHANGED vars
  BY <1>39 DEF vars
<1> QED
  BY <1>1, <1>2, <1>3, <1>4, <1>5, <1>6, <1>7, <1>8, <1>9, <1>10, <1>11,
     <1>12, <1>13, <1>14, <1>15, <1>16, <1>17, <1>18, <1>19, <1>20, <1>21,
     <1>22, <1>23, <1>24, <1>25, <1>26, <1>27, <1>28, <1>29, <1>30, <1>31,
     <1>32, <1>33, <1>34, <1>35, <1>36, <1>37, <1>38, <1>39 DEF Next,
     JobStep, CutStep, World

(* An undisturbed open run stays open until its end is cut: every reading  *)
(* that could end it would be of another tape than the loaded one.         *)
LEMMA ForgetStep ==
    ASSUME ~Polling, TypeOK, QuietInv, ForgetInv, [Next]_vars PROVE ForgetInv'
<1> USE DEF ForgetInv, HeldNotForgotten, ChainOpen, queue, poller, printer, history
<1>1. ~PollStep
  BY DEF QuietInv, PollStep, PollBegin, PollCount, PollAbsent, PollOpen,
         PollRefused, PollRead, PollPublish
<1>2. CASE BeginJob
  BY <1>2 DEF BeginJob
<1>3. CASE Cancel
  BY <1>3 DEF Cancel, Processing, JobSteps
<1>4. CASE RefuseJob
  BY <1>4 DEF RefuseJob
<1>5. CASE AcceptJob
  BY <1>5 DEF AcceptJob
<1>6. CASE AllocBatch
  BY <1>6 DEF AllocBatch, NewBatch
<1>7. CASE RejectPage
  BY <1>7 DEF RejectPage, FailJob
<1>8. CASE StopWaiting
  BY <1>8 DEF StopWaiting, FailJob
<1>9. CASE ReadChain
  BY <1>9 DEF ReadChain
<1>10. CASE ClaimRun
  BY <1>10 DEF ClaimRun
<1>11. CASE SetupPage
  BY <1>11 DEF SetupPage
<1>12. CASE SetupFails
  BY <1>12 DEF SetupFails, FailJob
<1>13. CASE ReleaseAdvanced
  BY <1>13 DEF ReleaseAdvanced
<1>14. CASE ReleaseLabel
  BY <1>14 DEF ReleaseLabel
<1>15. CASE ReleaseInterrupted
  BY <1>15 DEF ReleaseInterrupted, ReleaseFails, FailJob
<1>16. CASE LabelReady
  BY <1>16 DEF LabelReady, RunAfterRelease, Cutting
<1>17. CASE LabelNotReady
  BY <1>17 DEF LabelNotReady, ReleaseFails, FailJob
<1>18. CASE WriteRows
  BY <1>18 DEF WriteRows
<1>19. CASE RowsFail
  BY <1>19 DEF RowsFail, FailJob
<1>20. CASE EndPage
  BY <1>20 DEF EndPage
<1>21. CASE EndPageCanceled
  BY <1>21 DEF EndPageCanceled, FailJob
<1>22. CASE EndInput
  BY <1>22 DEF EndInput, FailJob
<1>23. CASE EndJob
  BY <1>23 DEF EndJob, EndsNormally
<1>24. CASE FinishJob
  BY <1>24 DEF FinishJob
<1>25. CASE BeginCut
  BY <1>25 DEF BeginCut
<1>26. CASE CutRecheck
  BY <1>26 DEF CutRecheck, EndCut, HoldsUserContent
<1>27. CASE CutClaim
  BY <1>27 DEF CutClaim
<1>28. CASE CutWrite
  BY <1>28 DEF CutWrite
<1>29. CASE CutReady
  BY <1>29 DEF CutReady, EndCut
<1>30. CASE CutFails
  BY <1>30 DEF CutFails, EndCut
<1>31. CASE SwapTape
  BY <1>31 DEF SwapTape
<1>32. CASE Disconnect
  BY <1>32 DEF Disconnect
<1>33. CASE Reconnect
  BY <1>33 DEF Reconnect
<1>34. CASE Restart
  BY <1>34 DEF Restart
<1>35. ASSUME NEW t \in Tapes, StartPage(t) PROVE ForgetInv'
  BY <1>35 DEF StartPage, TakePage
<1>36. ASSUME NEW r \in Readings, RefreshMedia(r) PROVE ForgetInv'
  <2>1. r \in Tapes \cup {NoTape} => r = tape
    BY <1>36, TapesAssumption DEF RefreshMedia, LiveReadings, Unreadable, Unusable,
                                 Readings
  <2>2. ~upset /\ ChainOpen => ~EndsRun(r)
    BY <2>1, TapesAssumption DEF EndsRun, TypeOK
  <2>3. EndsRun(r) \/ run' = run
    BY <1>36 DEF RefreshMedia, PublishTape
  <2>4. run' \in {run, "CLOSED"} /\ (run = "UNCERTAIN" => run' = run)
    BY <1>36 DEF RefreshMedia, PublishTape, BreakChain
  <2>5. (r \in Tapes /\ media_ready' = tape) \/ media_ready' = media_ready
    BY <1>36, <2>1 DEF RefreshMedia, PublishTape, Publishable
  <2>6. UNCHANGED <<held, tape, upset>>
    BY <1>36 DEF RefreshMedia
  <2>7. HeldNotForgotten'
    BY <2>2, <2>3, <2>4, <2>6 DEF TypeOK, Runs
  <2>8. ~upset' /\ ChainOpen' => tape' = media_ready'
    BY <2>4, <2>5, <2>6
  <2> QED
    BY <2>7, <2>8
<1>37. ASSUME NEW r \in Readings, WaitTape(r) PROVE ForgetInv'
  <2>1. r \in Tapes \cup {NoTape} => r = tape
    BY <1>37, TapesAssumption DEF WaitTape, LiveReadings, Unreadable, Unusable,
                                 Readings
  <2>2. ~upset /\ ChainOpen => ~EndsRun(r)
    BY <2>1, TapesAssumption DEF EndsRun, TypeOK
  <2>3. EndsRun(r) \/ run' = run
    BY <1>37 DEF WaitTape, PublishTape
  <2>4. run' \in {run, "CLOSED"} /\ (run = "UNCERTAIN" => run' = run)
    BY <1>37 DEF WaitTape, PublishTape, BreakChain
  <2>5. (r \in Tapes /\ media_ready' = tape) \/ media_ready' = media_ready
    BY <1>37, <2>1 DEF WaitTape, PublishTape, Publishable
  <2>6. UNCHANGED <<held, tape, upset>>
    BY <1>37 DEF WaitTape
  <2>7. HeldNotForgotten'
    BY <2>2, <2>3, <2>4, <2>6 DEF TypeOK, Runs
  <2>8. ~upset' /\ ChainOpen' => tape' = media_ready'
    BY <2>4, <2>5, <2>6
  <2> QED
    BY <2>7, <2>8
<1>38. ASSUME NEW r \in Readings, CutRead(r) PROVE ForgetInv'
  <2>1. r \in Tapes \cup {NoTape} => r = tape
    BY <1>38, TapesAssumption DEF CutRead, LiveReadings, Unreadable, Unusable,
                                 Readings
  <2>2. ~upset /\ ChainOpen => ~EndsRun(r)
    BY <2>1, TapesAssumption DEF EndsRun, TypeOK
  <2>3. EndsRun(r) \/ run' = run
    BY <1>38 DEF CutRead, PublishTape
  <2>4. run' \in {run, "CLOSED"} /\ (run = "UNCERTAIN" => run' = run)
    BY <1>38 DEF CutRead, PublishTape, BreakChain
  <2>5. (r \in Tapes /\ media_ready' = tape) \/ media_ready' = media_ready
    BY <1>38, <2>1 DEF CutRead, PublishTape, Publishable
  <2>6. UNCHANGED <<held, tape, upset>>
    BY <1>38 DEF CutRead
  <2>7. HeldNotForgotten'
    BY <2>2, <2>3, <2>4, <2>6 DEF TypeOK, Runs
  <2>8. ~upset' /\ ChainOpen' => tape' = media_ready'
    BY <2>4, <2>5, <2>6
  <2> QED
    BY <2>7, <2>8
<1>39. CASE UNCHANGED vars
  BY <1>39 DEF vars
<1> QED
  BY <1>1, <1>2, <1>3, <1>4, <1>5, <1>6, <1>7, <1>8, <1>9, <1>10, <1>11,
     <1>12, <1>13, <1>14, <1>15, <1>16, <1>17, <1>18, <1>19, <1>20, <1>21,
     <1>22, <1>23, <1>24, <1>25, <1>26, <1>27, <1>28, <1>29, <1>30, <1>31,
     <1>32, <1>33, <1>34, <1>35, <1>36, <1>37, <1>38, <1>39 DEF Next,
     JobStep, CutStep, World

(* The batch is bound to the tape the job reads, and a label that waits    *)
(* takes the one it has waited for.                                        *)
LEMMA ConfirmStep ==
    ASSUME ~Polling, TypeOK, QuietInv, ConfirmInv, [Next]_vars PROVE ConfirmInv'
<1> USE DEF ConfirmInv, queue, poller, printer, history
<1>1. ~PollStep
  BY DEF QuietInv, PollStep, PollBegin, PollCount, PollAbsent, PollOpen,
         PollRefused, PollRead, PollPublish
<1>2. CASE BeginJob
  BY <1>2 DEF BeginJob
<1>3. CASE Cancel
  BY <1>3 DEF Cancel, Processing, JobSteps
<1>4. CASE RefuseJob
  BY <1>4 DEF RefuseJob
<1>5. CASE AcceptJob
  BY <1>5 DEF AcceptJob
<1>6. CASE AllocBatch
  BY <1>6 DEF AllocBatch, NewBatch
<1>7. CASE RejectPage
  BY <1>7 DEF RejectPage, FailJob
<1>8. CASE StopWaiting
  BY <1>8 DEF StopWaiting, FailJob
<1>9. CASE ReadChain
  BY <1>9 DEF ReadChain
<1>10. CASE ClaimRun
  BY <1>10 DEF ClaimRun
<1>11. CASE SetupPage
  BY <1>11 DEF SetupPage
<1>12. CASE SetupFails
  BY <1>12 DEF SetupFails, FailJob
<1>13. CASE ReleaseAdvanced
  BY <1>13 DEF ReleaseAdvanced
<1>14. CASE ReleaseLabel
  BY <1>14 DEF ReleaseLabel
<1>15. CASE ReleaseInterrupted
  BY <1>15 DEF ReleaseInterrupted, ReleaseFails, FailJob, TypeOK, JobStates
<1>16. CASE LabelReady
  BY <1>16 DEF LabelReady, RunAfterRelease, Cutting
<1>17. CASE LabelNotReady
  BY <1>17 DEF LabelNotReady, ReleaseFails, FailJob, TypeOK, JobStates
<1>18. CASE WriteRows
  BY <1>18 DEF WriteRows
<1>19. CASE RowsFail
  BY <1>19 DEF RowsFail, FailJob
<1>20. CASE EndPage
  BY <1>20 DEF EndPage, TypeOK, Batches
<1>21. CASE EndPageCanceled
  BY <1>21 DEF EndPageCanceled, FailJob
<1>22. CASE EndInput
  BY <1>22 DEF EndInput, FailJob, TypeOK, JobStates
<1>23. CASE EndJob
  BY <1>23 DEF EndJob, EndsNormally
<1>24. CASE FinishJob
  BY <1>24 DEF FinishJob
<1>25. CASE BeginCut
  BY <1>25 DEF BeginCut
<1>26. CASE CutRecheck
  BY <1>26 DEF CutRecheck, EndCut, HoldsUserContent
<1>27. CASE CutClaim
  BY <1>27 DEF CutClaim
<1>28. CASE CutWrite
  BY <1>28 DEF CutWrite
<1>29. CASE CutReady
  BY <1>29 DEF CutReady, EndCut
<1>30. CASE CutFails
  BY <1>30 DEF CutFails, EndCut
<1>31. CASE SwapTape
  BY <1>31 DEF SwapTape
<1>32. CASE Disconnect
  BY <1>32 DEF Disconnect
<1>33. CASE Reconnect
  BY <1>33 DEF Reconnect
<1>34. CASE Restart
  BY <1>34 DEF Restart
<1>35. ASSUME NEW t \in Tapes, StartPage(t) PROVE ConfirmInv'
  <2>1. /\ batch.tape_mm = done.seen /\ done'.seen = done.seen
        /\ pc' \in {"rows", "relcmd", "chain", "wait"}
    BY <1>35 DEF StartPage, TakePage, TypeOK, Records
  <2>2. pc' = "wait" => job'.want \in Tapes
    BY <1>35 DEF StartPage, TakePage, TypeOK, JobStates
  <2>3. pc' # "wait" => batch'.tape_mm = batch.tape_mm
    BY <1>35 DEF StartPage, TakePage, TypeOK, Batches
  <2> QED
    BY <2>1, <2>2, <2>3
<1>36. ASSUME NEW r \in Readings, RefreshMedia(r) PROVE ConfirmInv'
  BY <1>36 DEF RefreshMedia, PublishTape, EndsRun, BreakChain, Publishable, Seen
<1>37. ASSUME NEW r \in Readings, WaitTape(r) PROVE ConfirmInv'
  <2>1. CASE Awaited(r)
    <3>1. r \in Tapes /\ done'.seen = r
      BY <1>37, <2>1 DEF WaitTape, Awaited, Seen, TypeOK, Records
    <3>2. batch'.tape_mm = r /\ pc' \in {"rows", "relcmd", "chain"}
      BY <1>37, <2>1 DEF WaitTape, TakePage, TypeOK, Batches
    <3> QED
      BY <3>1, <3>2
  <2>2. CASE ~Awaited(r)
    BY <1>37, <2>2 DEF WaitTape
  <2> QED
    BY <2>1, <2>2
<1>38. ASSUME NEW r \in Readings, CutRead(r) PROVE ConfirmInv'
  BY <1>38 DEF CutRead, PublishTape, EndsRun, BreakChain, Publishable, EndCut
<1>39. CASE UNCHANGED vars
  BY <1>39 DEF vars
<1> QED
  BY <1>1, <1>2, <1>3, <1>4, <1>5, <1>6, <1>7, <1>8, <1>9, <1>10, <1>11,
     <1>12, <1>13, <1>14, <1>15, <1>16, <1>17, <1>18, <1>19, <1>20, <1>21,
     <1>22, <1>23, <1>24, <1>25, <1>26, <1>27, <1>28, <1>29, <1>30, <1>31,
     <1>32, <1>33, <1>34, <1>35, <1>36, <1>37, <1>38, <1>39 DEF Next,
     JobStep, CutStep, World

(* With polling disabled nothing forgets what the cutter holds and every   *)
(* page is set up for the tape its job read.                               *)
THEOREM NoPollCorrect == ASSUME ~Polling PROVE Spec => []NoPollInv
<1>1. Init => NoPollInv
  <2> SUFFICES ASSUME Init PROVE NoPollInv
    OBVIOUS
  <2> QED
    BY DEF Init, NoPollInv, QuietInv, ForgetInv, HeldNotForgotten, ChainOpen,
           ConfirmInv
<1>2. TypeOK /\ NoPollInv /\ [Next]_vars => NoPollInv'
  BY QuietStep, ForgetStep, ConfirmStep DEF NoPollInv
<1> QED
  BY <1>1, <1>2, TypeCorrect, PTL DEF Spec

(* Healthy held content is never forgotten: a CLOSED run that no swap, no  *)
(* lost link and no restart disturbed has nothing at the cutter.           *)
THEOREM HeldIsRemembered == ASSUME ~Polling PROVE Spec => []HeldNotForgotten
<1>1. NoPollInv => HeldNotForgotten
  BY DEF NoPollInv, ForgetInv
<1> QED
  BY <1>1, NoPollCorrect, PTL

(* A page is set up only for the tape its job read last, on a first label  *)
(* after pt_wait_for_tape as on any other.                                 *)
THEOREM PageIsForTapeRead == ASSUME ~Polling PROVE Spec => []PageOnConfirmedTape
<1>1. NoPollInv => PageOnConfirmedTape
  BY DEF NoPollInv, ConfirmInv, PageOnConfirmedTape
<1> QED
  BY <1>1, NoPollCorrect, PTL
=============================================================================
