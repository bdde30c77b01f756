-------------------------- MODULE DeviceQueueProofs --------------------------
(* Proofs about DeviceQueue for any number of jobs, cuts and threads, with *)
(* and without interruptions.                                              *)
EXTENDS DeviceQueue, SequenceTheorems, TLAPS

(* Every variable but the queue of cuts keeps its type.                    *)
LEMMA ShapeStep ==
    ASSUME Shape, [Next]_vars
    PROVE  Shape'
<1> USE JobsAssumption, ThreadsAssumption DEF Shape, Jobs, Slots, None,
    ThreadSteps, Terminal, jobs, printer
<1>1. CASE AcceptJob
  BY <1>1 DEF AcceptJob
<1>2. ASSUME NEW j \in Jobs, ReleaseJob(j) PROVE Shape'
  BY <1>2 DEF ReleaseJob, CheckJobs
<1>3. ASSUME NEW j \in Jobs, StreamJob(j) PROVE Shape'
  BY <1>3 DEF StreamJob
<1>4. ASSUME NEW j \in Jobs, CancelJob(j) PROVE Shape'
  BY <1>4 DEF CancelJob, Active
<1>5. ASSUME NEW c \in Cuts, AdmitCut(c) PROVE Shape'
  BY <1>5 DEF AdmitCut
<1>6. CASE PausePrinter
  BY <1>6 DEF PausePrinter
<1>7. CASE ResumePrinter
  BY <1>7 DEF ResumePrinter, CheckJobs
<1>8. CASE Shutdown
  BY <1>8 DEF Shutdown
<1>9. ASSUME NEW j \in Jobs, NEW s \in Slots, GiveUpStart(j, s) PROVE Shape'
  BY <1>9 DEF GiveUpStart, GivenUp
<1>10. ASSUME NEW j \in Jobs, NEW s \in Slots, StartJob(j, s) PROVE Shape'
  BY <1>10 DEF StartJob, GivenUp, MustWait
<1>11. ASSUME NEW j \in Jobs, NEW s \in Slots, OpenDevice(j, s) PROVE Shape'
  BY <1>11 DEF OpenDevice
<1>12. ASSUME NEW j \in Jobs, NEW s \in Slots, OpenFails(j, s) PROVE Shape'
  BY <1>12 DEF OpenFails
<1>13. ASSUME NEW j \in Jobs, NEW s \in Slots, EndProcessing(j, s) PROVE Shape'
  BY <1>13 DEF EndProcessing, GivenUp
<1>14. ASSUME NEW j \in Jobs, NEW s \in Slots, FinishJob(j, s) PROVE Shape'
  BY <1>14 DEF FinishJob, OwnedBy, FinalState
<1>15. ASSUME NEW j \in Jobs, NEW s \in Slots, CloseAfterJob(j, s) PROVE Shape'
  BY <1>15 DEF CloseAfterJob, MayClose
<1>16. ASSUME NEW j \in Jobs, NEW s \in Slots, CheckAfterJob(j, s) PROVE Shape'
  BY <1>16 DEF CheckAfterJob, CheckJobs
<1>17. ASSUME NEW c \in Cuts, AcquireCut(c) PROVE Shape'
  BY <1>17 DEF AcquireCut, MayAcquire
<1>18. ASSUME NEW c \in Cuts, CutOpenFails(c) PROVE Shape'
  BY <1>18 DEF CutOpenFails, MayAcquire, CheckJobs
<1>19. ASSUME NEW c \in Cuts, AbandonCut(c) PROVE Shape'
  BY <1>19 DEF AbandonCut
<1>20. ASSUME NEW c \in Cuts, FinishCut(c) PROVE Shape'
  BY <1>20 DEF FinishCut, CloseDevice, CheckJobs
<1>21. CASE OpenForPoll
  BY <1>21 DEF OpenForPoll
<1>22. CASE ClosePoll
  BY <1>22 DEF ClosePoll, CloseDevice, CheckJobs
<1>23. CASE UNCHANGED vars
  BY <1>23 DEF vars
<1> QED
  BY <1>1, <1>2, <1>3, <1>4, <1>5, <1>6, <1>7, <1>8, <1>9, <1>10, <1>11,
     <1>12, <1>13, <1>14, <1>15, <1>16, <1>17, <1>18, <1>19, <1>20, <1>21,
     <1>22, <1>23
     DEF Next, ClientStep, ThreadStep, CutStep

(* The threads after a step that scans the queue: some may end, and those  *)
(* that start are threads of pending jobs.                                 *)
OnlyStarts ==
    \A u \in Jobs, r \in Slots :
        \/ thread'[<<u, r>>] \in {thread[<<u, r>>], "none"}
        \/ thread'[<<u, r>>] = "start" /\ state'[u] = "pending"

(* A scan of the queue only ever starts threads of pending jobs.           *)
LEMMA Dispatch ==
    ASSUME Shape,
           \/ \E j \in Jobs : ReleaseJob(j)
           \/ ResumePrinter
           \/ \E j \in Jobs, s \in Slots : CheckAfterJob(j, s)
           \/ \E c \in Cuts : CutOpenFails(c) \/ FinishCut(c)
           \/ ClosePoll
    PROVE  OnlyStarts
<1> USE DEF Shape, OnlyStarts, CheckJobs, Newest, Scanned, jobs
<1>1. ASSUME NEW j \in Jobs, ReleaseJob(j) PROVE OnlyStarts
  BY <1>1 DEF ReleaseJob
<1>2. CASE ResumePrinter
  BY <1>2 DEF ResumePrinter
<1>3. ASSUME NEW j \in Jobs, NEW s \in Slots, CheckAfterJob(j, s) PROVE OnlyStarts
  BY <1>3 DEF CheckAfterJob
<1>4. ASSUME NEW c \in Cuts, CutOpenFails(c) PROVE OnlyStarts
  BY <1>4 DEF CutOpenFails
<1>5. ASSUME NEW c \in Cuts, FinishCut(c) PROVE OnlyStarts
  BY <1>5 DEF FinishCut, CloseDevice
<1>6. CASE ClosePoll
  BY <1>6 DEF ClosePoll, CloseDevice
<1> QED
  BY <1>1, <1>2, <1>3, <1>4, <1>5, <1>6

(* A job has no thread before it is released, and is done with once its    *)
(* thread completes it.                                                    *)
LEMMA JobStep ==
    ASSUME Shape, JobInv, [Next]_vars
    PROVE  JobInv'
<1> USE JobsAssumption, ThreadsAssumption, ShapeStep DEF Shape, JobInv,
    JobKept, ThreadKept, Jobs, Slots, None, ThreadSteps, Terminal, GivenUp,
    jobs, printer
<1>1. CASE AcceptJob
  BY <1>1 DEF AcceptJob
<1>2. ASSUME NEW j \in Jobs, ReleaseJob(j) PROVE JobInv'
  <2>1. OnlyStarts
    BY <1>2, Dispatch
  <2>2. /\ state[j] = "held" /\ state' = [state EXCEPT ![j] = "pending"]
        /\ UNCHANGED <<next_job_id, is_canceled, processing_job, running, printed>>
    BY <1>2 DEF ReleaseJob
  <2>3. ASSUME NEW u \in Jobs PROVE JobKept(u)'
    <3>1. CASE u = j
      BY <2>2, <3>1
    <3>2. CASE u # j
      BY <2>2, <3>2
    <3> QED
      BY <3>1, <3>2
  <2>4. ASSUME NEW u \in Jobs, NEW r \in Slots PROVE ThreadKept(u, r)'
    <3>1. CASE u = j
      <4>1. state'[u] = "pending" /\ thread[<<u, r>>] = "none"
        BY <2>2, <3>1
      <4>2. thread'[<<u, r>>] \in {"none", "start"}
        BY <2>1, <4>1 DEF OnlyStarts
      <4> QED
        BY <4>1, <4>2
    <3>2. CASE u # j
      <4>1. state'[u] = state[u]
        BY <2>2, <3>2
      <4> QED
        BY <2>1, <2>2, <4>1 DEF OnlyStarts
    <3> QED
      BY <3>1, <3>2
  <2> QED
    BY <2>3, <2>4
<1>3. ASSUME NEW j \in Jobs, StreamJob(j) PROVE JobInv'
  <2>1. ASSUME NEW u \in Jobs PROVE JobKept(u)'
    BY <1>3 DEF StreamJob
  <2>2. ASSUME NEW u \in Jobs, NEW r \in Slots PROVE ThreadKept(u, r)'
    BY <1>3 DEF StreamJob
  <2> QED
    BY <2>1, <2>2
<1>4. ASSUME NEW j \in Jobs, CancelJob(j) PROVE JobInv'
  BY <1>4 DEF CancelJob, Active
<1>5. ASSUME NEW c \in Cuts, AdmitCut(c) PROVE JobInv'
  BY <1>5 DEF AdmitCut
<1>6. CASE PausePrinter
  BY <1>6 DEF PausePrinter
<1>7. CASE ResumePrinter
  <2>1. OnlyStarts
    BY <1>7, Dispatch
  <2>2. UNCHANGED <<next_job_id, state, is_canceled, processing_job, running,
                    printed>>
    BY <1>7 DEF ResumePrinter
  <2>3. ASSUME NEW u \in Jobs PROVE JobKept(u)'
    BY <2>2
  <2>4. ASSUME NEW u \in Jobs, NEW r \in Slots PROVE ThreadKept(u, r)'
    BY <2>1, <2>2 DEF OnlyStarts
  <2> QED
    BY <2>3, <2>4
<1>8. CASE Shutdown
  BY <1>8 DEF Shutdown
<1>9. ASSUME NEW j \in Jobs, NEW s \in Slots, GiveUpStart(j, s) PROVE JobInv'
  BY <1>9 DEF GiveUpStart, GivenUp
<1>10. ASSUME NEW j \in Jobs, NEW s \in Slots, StartJob(j, s) PROVE JobInv'
  BY <1>10 DEF StartJob, GivenUp, MustWait
<1>11. ASSUME NEW j \in Jobs, NEW s \in Slots, OpenDevice(j, s) PROVE JobInv'
  BY <1>11 DEF OpenDevice
<1>12. ASSUME NEW j \in Jobs, NEW s \in Slots, OpenFails(j, s) PROVE JobInv'
  BY <1>12 DEF OpenFails
<1>13. ASSUME NEW j \in Jobs, NEW s \in Slots, EndProcessing(j, s) PROVE JobInv'
  BY <1>13 DEF EndProcessing, GivenUp
<1>14. ASSUME NEW j \in Jobs, NEW s \in Slots, FinishJob(j, s) PROVE JobInv'
  BY <1>14 DEF FinishJob, OwnedBy, FinalState
<1>15. ASSUME NEW j \in Jobs, NEW s \in Slots, CloseAfterJob(j, s) PROVE JobInv'
  BY <1>15 DEF CloseAfterJob, MayClose
<1>16. ASSUME NEW j \in Jobs, NEW s \in Slots, CheckAfterJob(j, s) PROVE JobInv'
  <2>1. OnlyStarts
    BY <1>16, Dispatch
  <2>2. UNCHANGED <<next_job_id, state, is_canceled, processing_job, running,
                    printed>>
    BY <1>16 DEF CheckAfterJob
  <2>3. ASSUME NEW u \in Jobs PROVE JobKept(u)'
    BY <2>2
  <2>4. ASSUME NEW u \in Jobs, NEW r \in Slots PROVE ThreadKept(u, r)'
    BY <2>1, <2>2 DEF OnlyStarts
  <2> QED
    BY <2>3, <2>4
<1>17. ASSUME NEW c \in Cuts, AcquireCut(c) PROVE JobInv'
  BY <1>17 DEF AcquireCut, MayAcquire
<1>18. ASSUME NEW c \in Cuts, CutOpenFails(c) PROVE JobInv'
  <2>1. OnlyStarts
    BY <1>18, Dispatch
  <2>2. UNCHANGED <<next_job_id, state, is_canceled, processing_job, running,
                    printed>>
    BY <1>18 DEF CutOpenFails, MayAcquire
  <2>3. ASSUME NEW u \in Jobs PROVE JobKept(u)'
    BY <2>2
  <2>4. ASSUME NEW u \in Jobs, NEW r \in Slots PROVE ThreadKept(u, r)'
    BY <2>1, <2>2 DEF OnlyStarts
  <2> QED
    BY <2>3, <2>4
<1>19. ASSUME NEW c \in Cuts, AbandonCut(c) PROVE JobInv'
  BY <1>19 DEF AbandonCut
<1>20. ASSUME NEW c \in Cuts, FinishCut(c) PROVE JobInv'
  <2>1. OnlyStarts
    BY <1>20, Dispatch
  <2>2. UNCHANGED <<next_job_id, state, is_canceled, processing_job, running,
                    printed>>
    BY <1>20 DEF FinishCut, CloseDevice
  <2>3. ASSUME NEW u \in Jobs PROVE JobKept(u)'
    BY <2>2
  <2>4. ASSUME NEW u \in Jobs, NEW r \in Slots PROVE ThreadKept(u, r)'
    BY <2>1, <2>2 DEF OnlyStarts
  <2> QED
    BY <2>3, <2>4
<1>21. CASE OpenForPoll
  BY <1>21 DEF OpenForPoll
<1>22. CASE ClosePoll
  <2>1. OnlyStarts
    BY <1>22, Dispatch
  <2>2. UNCHANGED <<next_job_id, state, is_canceled, processing_job, running,
                    printed>>
    BY <1>22 DEF ClosePoll, CloseDevice
  <2>3. ASSUME NEW u \in Jobs PROVE JobKept(u)'
    BY <2>2
  <2>4. ASSUME NEW u \in Jobs, NEW r \in Slots PROVE ThreadKept(u, r)'
    BY <2>1, <2>2 DEF OnlyStarts
  <2> QED
    BY <2>3, <2>4
<1>23. CASE UNCHANGED vars
  BY <1>23 DEF vars
<1> QED
  BY <1>1, <1>2, <1>3, <1>4, <1>5, <1>6, <1>7, <1>8, <1>9, <1>10, <1>11,
     <1>12, <1>13, <1>14, <1>15, <1>16, <1>17, <1>18, <1>19, <1>20, <1>21,
     <1>22, <1>23
     DEF Next, ClientStep, ThreadStep, CutStep

(* Only one thread acts for the job that has the printer.                  *)
LEMMA ActStep ==
    ASSUME Shape, JobInv, ActInv, [Next]_vars
    PROVE  ActInv'
<1> USE JobsAssumption, ThreadsAssumption, ShapeStep DEF Shape, JobInv,
    JobKept, ThreadKept, ActInv, Acts, Regular, Jobs, Slots, None,
    ThreadSteps, Terminal, GivenUp, jobs, printer
<1>1. CASE AcceptJob
  BY <1>1 DEF AcceptJob
<1>2. ASSUME NEW j \in Jobs, ReleaseJob(j) PROVE ActInv'
  <2>1. OnlyStarts
    BY <1>2, Dispatch
  <2>2. UNCHANGED <<processing_job, is_canceled, running>>
    BY <1>2 DEF ReleaseJob
  <2>3. \A u \in Jobs, r \in Slots : Acts(u, r)' => Acts(u, r)
    BY <2>1, <2>2 DEF OnlyStarts
  <2> QED
    BY <2>2, <2>3
<1>3. ASSUME NEW j \in Jobs, StreamJob(j) PROVE ActInv'
  BY <1>3 DEF StreamJob
<1>4. ASSUME NEW j \in Jobs, CancelJob(j) PROVE ActInv'
  BY <1>4 DEF CancelJob, Active
<1>5. ASSUME NEW c \in Cuts, AdmitCut(c) PROVE ActInv'
  BY <1>5 DEF AdmitCut
<1>6. CASE PausePrinter
  BY <1>6 DEF PausePrinter
<1>7. CASE ResumePrinter
  <2>1. OnlyStarts
    BY <1>7, Dispatch
  <2>2. UNCHANGED <<processing_job, is_canceled, running>>
    BY <1>7 DEF ResumePrinter
  <2>3. \A u \in Jobs, r \in Slots : Acts(u, r)' => Acts(u, r)
    BY <2>1, <2>2 DEF OnlyStarts
  <2> QED
    BY <2>2, <2>3
<1>8. CASE Shutdown
  BY <1>8 DEF Shutdown
<1>9. ASSUME NEW j \in Jobs, NEW s \in Slots, GiveUpStart(j, s) PROVE ActInv'
  BY <1>9 DEF GiveUpStart, GivenUp
<1>10. ASSUME NEW j \in Jobs, NEW s \in Slots, StartJob(j, s) PROVE ActInv'
  BY <1>10 DEF StartJob, GivenUp, MustWait
<1>11. ASSUME NEW j \in Jobs, NEW s \in Slots, OpenDevice(j, s) PROVE ActInv'
  BY <1>11 DEF OpenDevice
<1>12. ASSUME NEW j \in Jobs, NEW s \in Slots, OpenFails(j, s) PROVE ActInv'
  BY <1>12 DEF OpenFails
<1>13. ASSUME NEW j \in Jobs, NEW s \in Slots, EndProcessing(j, s) PROVE ActInv'
  BY <1>13 DEF EndProcessing, GivenUp
<1>14. ASSUME NEW j \in Jobs, NEW s \in Slots, FinishJob(j, s) PROVE ActInv'
  <2>1. UNCHANGED <<is_canceled, running>>
    BY <1>14 DEF FinishJob, OwnedBy, FinalState
  <2>2. \A u \in Jobs, r \in Slots :
           Acts(u, r)' => Acts(u, r) /\ <<u, r>> # <<j, s>>
    <3>1. processing_job' \in {processing_job, None}
      BY <1>14 DEF FinishJob, OwnedBy, FinalState
    <3>2. thread' = [thread EXCEPT ![<<j, s>>] = thread'[<<j, s>>]]
          /\ thread'[<<j, s>>] \in {"close", "check"}
      BY <1>14 DEF FinishJob, OwnedBy, FinalState
    <3>3. ASSUME NEW u \in Jobs, NEW r \in Slots, Acts(u, r)'
          PROVE  Acts(u, r) /\ <<u, r>> # <<j, s>>
      <4>1. <<u, r>> # <<j, s>>
        BY <3>2, <3>3
      <4>2. thread'[<<u, r>>] = thread[<<u, r>>]
        BY <3>2, <4>1
      <4> QED
        BY <3>1, <3>3, <4>1, <4>2
    <3> QED
      BY <3>3
  <2>3. CASE processing_job = j
    <3>1. processing_job' = None /\ Acts(j, s)
      BY <1>14, <2>3 DEF FinishJob, OwnedBy, FinalState
    <3>2. Regular => \A u \in Jobs, r \in Slots : Acts(u, r) => <<u, r>> = <<j, s>>
      BY <2>3, <3>1
    <3> QED
      BY <2>1, <2>2, <3>2
  <2>4. CASE processing_job # j
    <3>1. processing_job' = processing_job
      BY <1>14, <2>4 DEF FinishJob, OwnedBy, FinalState
    <3> QED
      BY <2>1, <2>2, <3>1
  <2> QED
    BY <2>3, <2>4
<1>15. ASSUME NEW j \in Jobs, NEW s \in Slots, CloseAfterJob(j, s) PROVE ActInv'
  BY <1>15 DEF CloseAfterJob, MayClose
<1>16. ASSUME NEW j \in Jobs, NEW s \in Slots, CheckAfterJob(j, s) PROVE ActInv'
  <2>1. OnlyStarts
    BY <1>16, Dispatch
  <2>2. UNCHANGED <<processing_job, is_canceled, running>>
    BY <1>16 DEF CheckAfterJob
  <2>3. \A u \in Jobs, r \in Slots : Acts(u, r)' => Acts(u, r)
    BY <2>1, <2>2 DEF OnlyStarts
  <2> QED
    BY <2>2, <2>3
<1>17. ASSUME NEW c \in Cuts, AcquireCut(c) PROVE ActInv'
  BY <1>17 DEF AcquireCut, MayAcquire
<1>18. ASSUME NEW c \in Cuts, CutOpenFails(c) PROVE ActInv'
  <2>1. OnlyStarts
    BY <1>18, Dispatch
  <2>2. UNCHANGED <<processing_job, is_canceled, running>>
    BY <1>18 DEF CutOpenFails, MayAcquire
  <2>3. \A u \in Jobs, r \in Slots : Acts(u, r)' => Acts(u, r)
    BY <2>1, <2>2 DEF OnlyStarts
  <2> QED
    BY <2>2, <2>3
<1>19. ASSUME NEW c \in Cuts, AbandonCut(c) PROVE ActInv'
  BY <1>19 DEF AbandonCut
<1>20. ASSUME NEW c \in Cuts, FinishCut(c) PROVE ActInv'
  <2>1. OnlyStarts
    BY <1>20, Dispatch
  <2>2. UNCHANGED <<processing_job, is_canceled, running>>
    BY <1>20 DEF FinishCut, CloseDevice
  <2>3. \A u \in Jobs, r \in Slots : Acts(u, r)' => Acts(u, r)
    BY <2>1, <2>2 DEF OnlyStarts
  <2> QED
    BY <2>2, <2>3
<1>21. CASE OpenForPoll
  BY <1>21 DEF OpenForPoll
<1>22. CASE ClosePoll
  <2>1. OnlyStarts
    BY <1>22, Dispatch
  <2>2. UNCHANGED <<processing_job, is_canceled, running>>
    BY <1>22 DEF ClosePoll, CloseDevice
  <2>3. \A u \in Jobs, r \in Slots : Acts(u, r)' => Acts(u, r)
    BY <2>1, <2>2 DEF OnlyStarts
  <2> QED
    BY <2>2, <2>3
<1>23. CASE UNCHANGED vars
  BY <1>23 DEF vars
<1> QED
  BY <1>1, <1>2, <1>3, <1>4, <1>5, <1>6, <1>7, <1>8, <1>9, <1>10, <1>11,
     <1>12, <1>13, <1>14, <1>15, <1>16, <1>17, <1>18, <1>19, <1>20, <1>21,
     <1>22, <1>23
     DEF Next, ClientStep, ThreadStep, CutStep

(* A printing thread, a cut and a poll each have the open device to        *)
(* themselves.                                                             *)
LEMMA UseStep ==
    ASSUME Shape, JobInv, ActInv, UseInv, [Next]_vars
    PROVE  UseInv'
<1> USE JobsAssumption, CutsAssumption, ThreadsAssumption, ShapeStep DEF
    Shape, ActInv, UseInv, Acts, Regular, Jobs, Slots, None, ThreadSteps,
    jobs, printer
<1>1. CASE AcceptJob
  BY <1>1 DEF AcceptJob
<1>2. ASSUME NEW j \in Jobs, ReleaseJob(j) PROVE UseInv'
  <2>1. OnlyStarts
    BY <1>2, Dispatch
  <2>2. \A u \in Jobs, r \in Slots :
           thread'[<<u, r>>] = "print" => thread[<<u, r>>] = "print"
    BY <2>1 DEF OnlyStarts
  <2>3. UNCHANGED <<is_canceled, owner, device, printer_state, running, cut>>
    BY <1>2 DEF ReleaseJob
  <2> QED
    BY <2>2, <2>3
<1>3. ASSUME NEW j \in Jobs, StreamJob(j) PROVE UseInv'
  BY <1>3 DEF StreamJob
<1>4. ASSUME NEW j \in Jobs, CancelJob(j) PROVE UseInv'
  BY <1>4 DEF CancelJob, Active
<1>5. ASSUME NEW c \in Cuts, AdmitCut(c) PROVE UseInv'
  BY <1>5 DEF AdmitCut
<1>6. CASE PausePrinter
  BY <1>6 DEF PausePrinter
<1>7. CASE ResumePrinter
  <2>1. OnlyStarts
    BY <1>7, Dispatch
  <2>2. \A u \in Jobs, r \in Slots :
           thread'[<<u, r>>] = "print" => thread[<<u, r>>] = "print"
    BY <2>1 DEF OnlyStarts
  <2> QED
    BY <1>7, <2>2 DEF ResumePrinter
<1>8. CASE Shutdown
  BY <1>8 DEF Shutdown
<1>9. ASSUME NEW j \in Jobs, NEW s \in Slots, GiveUpStart(j, s) PROVE UseInv'
  BY <1>9 DEF GiveUpStart, GivenUp
<1>10. ASSUME NEW j \in Jobs, NEW s \in Slots, StartJob(j, s) PROVE UseInv'
  BY <1>10 DEF StartJob, GivenUp, MustWait
<1>11. ASSUME NEW j \in Jobs, NEW s \in Slots, OpenDevice(j, s) PROVE UseInv'
  BY <1>11 DEF OpenDevice
<1>12. ASSUME NEW j \in Jobs, NEW s \in Slots, OpenFails(j, s) PROVE UseInv'
  BY <1>12 DEF OpenFails
<1>13. ASSUME NEW j \in Jobs, NEW s \in Slots, EndProcessing(j, s) PROVE UseInv'
  BY <1>13 DEF EndProcessing, GivenUp
<1>14. ASSUME NEW j \in Jobs, NEW s \in Slots, FinishJob(j, s) PROVE UseInv'
  <2>1. UNCHANGED <<is_canceled, running, owner, device, cut>>
    BY <1>14 DEF FinishJob, OwnedBy, FinalState
  <2>2. \A u \in Jobs, r \in Slots : thread'[<<u, r>>] = "print" =>
           thread[<<u, r>>] = "print" /\ <<u, r>> # <<j, s>>
    BY <1>14 DEF FinishJob, OwnedBy, FinalState
  <2>3. processing_job # j => printer_state' = printer_state
    BY <1>14 DEF FinishJob, OwnedBy, FinalState
  <2>4. processing_job = j => Acts(j, s)
    BY <1>14 DEF FinishJob
  <2>5. Regular /\ processing_job = j =>
           \A u \in Jobs, r \in Slots : thread[<<u, r>>] = "print" => <<u, r>> = <<j, s>>
    BY <2>4
  <2> QED
    BY <2>1, <2>2, <2>3, <2>5
<1>15. ASSUME NEW j \in Jobs, NEW s \in Slots, CloseAfterJob(j, s) PROVE UseInv'
  BY <1>15 DEF CloseAfterJob, MayClose
<1>16. ASSUME NEW j \in Jobs, NEW s \in Slots, CheckAfterJob(j, s) PROVE UseInv'
  <2>1. OnlyStarts
    BY <1>16, Dispatch
  <2>2. \A u \in Jobs, r \in Slots :
           thread'[<<u, r>>] = "print" => thread[<<u, r>>] = "print"
    BY <2>1 DEF OnlyStarts
  <2> QED
    BY <1>16, <2>2 DEF CheckAfterJob
<1>17. ASSUME NEW c \in Cuts, AcquireCut(c) PROVE UseInv'
  BY <1>17 DEF AcquireCut, MayAcquire
<1>18. ASSUME NEW c \in Cuts, CutOpenFails(c) PROVE UseInv'
  <2>1. OnlyStarts
    BY <1>18, Dispatch
  <2>2. \A u \in Jobs, r \in Slots :
           thread'[<<u, r>>] = "print" => thread[<<u, r>>] = "print"
    BY <2>1 DEF OnlyStarts
  <2> QED
    BY <1>18, <2>2 DEF CutOpenFails, MayAcquire
<1>19. ASSUME NEW c \in Cuts, AbandonCut(c) PROVE UseInv'
  BY <1>19 DEF AbandonCut
<1>20. ASSUME NEW c \in Cuts, FinishCut(c) PROVE UseInv'
  <2>1. OnlyStarts
    BY <1>20, Dispatch
  <2>2. \A u \in Jobs, r \in Slots :
           thread'[<<u, r>>] = "print" => thread[<<u, r>>] = "print"
    BY <2>1 DEF OnlyStarts
  <2> QED
    BY <1>20, <2>2 DEF FinishCut, CloseDevice
<1>21. CASE OpenForPoll
  BY <1>21 DEF OpenForPoll
<1>22. CASE ClosePoll
  <2>1. OnlyStarts
    BY <1>22, Dispatch
  <2>2. \A u \in Jobs, r \in Slots :
           thread'[<<u, r>>] = "print" => thread[<<u, r>>] = "print"
    BY <2>1 DEF OnlyStarts
  <2> QED
    BY <1>22, <2>2 DEF ClosePoll, CloseDevice
<1>23. CASE UNCHANGED vars
  BY <1>23 DEF vars
<1> QED
  BY <1>1, <1>2, <1>3, <1>4, <1>5, <1>6, <1>7, <1>8, <1>9, <1>10, <1>11,
     <1>12, <1>13, <1>14, <1>15, <1>16, <1>17, <1>18, <1>19, <1>20, <1>21,
     <1>22, <1>23
     DEF Next, ClientStep, ThreadStep, CutStep

(* What is left of a list whose i-th element is taken out.                 *)
LEMMA Removed ==
    ASSUME NEW S, NEW list \in Seq(S), NEW i \in 1 .. Len(list)
    PROVE  /\ RemoveAt(list, i) \in Seq(S)
           /\ Len(RemoveAt(list, i)) = Len(list) - 1
           /\ \A k \in 1 .. Len(list) - 1 :
                 RemoveAt(list, i)[k] = list[IF k < i THEN k ELSE k + 1]
<1> DEFINE front == SubSeq(list, 1, i - 1)  back == SubSeq(list, i + 1, Len(list))
<1>1. /\ front \in Seq(S) /\ Len(front) = i - 1
      /\ \A k \in 1 .. i - 1 : front[k] = list[k]
  BY SubSeqProperties
<1>2. /\ back \in Seq(S) /\ Len(back) = Len(list) - i
      /\ \A k \in 1 .. Len(list) - i : back[k] = list[k + i]
  BY SubSeqProperties
<1>3. RemoveAt(list, i) = front \o back
  BY DEF RemoveAt
<1> HIDE DEF front, back
<1>4. /\ front \o back \in Seq(S) /\ Len(front \o back) = Len(list) - 1
      /\ \A k \in 1 .. Len(list) - 1 :
            (front \o back)[k] = IF k <= i - 1 THEN front[k] ELSE back[k - (i - 1)]
  BY <1>1, <1>2, ConcatProperties
<1>5. ASSUME NEW k \in 1 .. Len(list) - 1
      PROVE  (front \o back)[k] = list[IF k < i THEN k ELSE k + 1]
  <2>1. CASE k < i
    BY <1>1, <1>4, <2>1
  <2>2. CASE k >= i
    <3>1. k - (i - 1) \in 1 .. Len(list) - i /\ (k - (i - 1)) + i = k + 1
      BY <2>2
    <3>2. back[k - (i - 1)] = list[k + 1]
      BY <1>2, <3>1
    <3> QED
      BY <1>4, <2>2, <3>2
  <2>3. k < i \/ k >= i
    OBVIOUS
  <2> QED
    BY <2>1, <2>2, <2>3
<1>6. front \o back \in Seq(S) /\ Len(front \o back) = Len(list) - 1
  BY <1>4
<1> QED
  BY <1>3, <1>5, <1>6

(* What waits is a cut and a number of jobs.                               *)
LEMMA WaiterTypes ==
    ASSUME waiters \in Seq(Waiters), NEW i \in DOMAIN waiters
    PROVE  waiters[i].cut \in Cuts /\ waiters[i].job_id \in Nat
<1>1. waiters[i] \in Waiters
  OBVIOUS
<1> QED
  BY <1>1, JobsAssumption DEF Waiters

(* A step that leaves the list alone and brings no job to the printer      *)
(* keeps the queue.                                                        *)
LEMMA QueueKept ==
    ASSUME QueueInv, UNCHANGED <<waiters, cut, next_job_id, printed>>,
           \A j \in Jobs, s \in Slots :
              thread'[<<j, s>>] = "open" => thread[<<j, s>>] = "open"
    PROVE  QueueInv'
  BY DEF QueueInv, WaiterKept

(* A cut that leaves the queue, from wherever it waited.                   *)
LEMMA QueueLeft ==
    ASSUME QueueInv, Shape, NEW c \in Cuts, cut[c] = "waiting",
           waiters' = Without(c), NEW answer \in {"owned", "busy"},
           cut' = [cut EXCEPT ![c] = answer], UNCHANGED <<next_job_id, printed>>,
           \A j \in Jobs, s \in Slots :
              thread'[<<j, s>>] = "open" => thread[<<j, s>>] = "open"
    PROVE  QueueInv'
<1> DEFINE p == Place(c)
<1>1. p \in 1 .. Len(waiters) /\ waiters[p].cut = c
  BY DEF QueueInv, Place
<1>2. waiters \in Seq(Waiters)
  BY DEF QueueInv
<1> HIDE DEF p
<1>3. waiters' = RemoveAt(waiters, p)
  BY DEF Without, p
<1> DEFINE old(k) == IF k < p THEN k ELSE k + 1
<1>4. /\ waiters' \in Seq(Waiters) /\ Len(waiters') = Len(waiters) - 1
      /\ \A k \in 1 .. Len(waiters) - 1 : waiters'[k] = waiters[old(k)]
  BY <1>1, <1>2, <1>3, Removed
<1>5. Len(waiters) \in Nat /\ p \in Nat
  BY <1>1, <1>2
<1>6. \A k \in DOMAIN waiters' :
         /\ old(k) \in DOMAIN waiters /\ old(k) # p /\ waiters'[k] = waiters[old(k)]
         /\ \A m \in DOMAIN waiters' : k < m => old(k) < old(m)
  BY <1>2, <1>4, <1>5
<1>7. \A i \in DOMAIN waiters : i # p => \E k \in DOMAIN waiters' : old(k) = i
  <2> SUFFICES ASSUME NEW i \in DOMAIN waiters, i # p
               PROVE  \E k \in DOMAIN waiters' : old(k) = i
    OBVIOUS
  <2>1. CASE i < p
    BY <1>1, <1>2, <1>4, <1>5, <2>1
  <2>2. CASE i > p
    <3>1. i - 1 \in DOMAIN waiters' /\ old(i - 1) = i
      BY <1>1, <1>2, <1>4, <1>5, <2>2
    <3> QED
      BY <3>1
  <2> QED
    BY <1>2, <1>5, <2>1, <2>2
<1> HIDE DEF old
<1>8. \A i \in DOMAIN waiters : i # p => waiters[i].cut # c
  <2> SUFFICES ASSUME NEW i \in DOMAIN waiters, i # p PROVE waiters[i].cut # c
    OBVIOUS
  <2>1. i < p \/ p < i
    BY <1>1, <1>2
  <2> QED
    BY <1>1, <1>2, <2>1 DEF QueueInv, WaiterKept
<1>9. \A i \in DOMAIN waiters : waiters[i].cut \in Cuts
  BY <1>2, WaiterTypes
<1>10. ASSUME NEW k \in DOMAIN waiters' PROVE WaiterKept(k)'
  <2>1. WaiterKept(old(k))
    BY <1>6 DEF QueueInv
  <2>2. waiters'[k] = waiters[old(k)] /\ waiters'[k].cut # c /\ waiters'[k].cut \in Cuts
    BY <1>6, <1>8, <1>9
  <2>3. cut'[waiters'[k].cut] = "waiting"
    BY <2>1, <2>2 DEF WaiterKept, Shape
  <2>4. \A m \in DOMAIN waiters' : k < m =>
           /\ waiters'[k].cut # waiters'[m].cut
           /\ waiters'[k].job_id <= waiters'[m].job_id
    BY <1>6, <2>1 DEF WaiterKept
  <2> QED
    BY <2>1, <2>2, <2>3, <2>4 DEF WaiterKept
<1>11. ASSUME NEW d \in Cuts, cut'[d] = "waiting"
       PROVE  \E k \in DOMAIN waiters' : waiters'[k].cut = d
  <2>1. d # c /\ cut[d] = "waiting"
    BY <1>11 DEF Shape
  <2>2. PICK i \in DOMAIN waiters : waiters[i].cut = d
    BY <2>1 DEF QueueInv
  <2>3. i # p
    BY <1>1, <2>1, <2>2
  <2> QED
    BY <1>6, <1>7, <2>2, <2>3
<1> QED
  BY <1>4, <1>10, <1>11 DEF QueueInv

(* A cut that joins the queue is behind all jobs there are.                *)
LEMMA QueueJoined ==
    ASSUME QueueInv, Shape, JobInv, NEW c \in Cuts, AdmitCut(c)
    PROVE  QueueInv'
<1> DEFINE w == [cut |-> c, job_id |-> next_job_id - 1]
<1>1. /\ cut[c] = "none" /\ waiters' = Append(waiters, w)
      /\ cut' = [cut EXCEPT ![c] = "waiting"]
      /\ UNCHANGED <<next_job_id, thread, printed, state>>
  BY DEF AdmitCut, jobs
<1>2. waiters \in Seq(Waiters) /\ next_job_id \in 1 .. MaxJobs + 1 /\ w \in Waiters
  BY JobsAssumption DEF QueueInv, Shape, Waiters
<1> PICK n \in Nat : n = Len(waiters)
  BY <1>2
<1>3. w.cut = c /\ w.job_id = next_job_id - 1
  OBVIOUS
<1> HIDE DEF w
<1>4. /\ waiters' \in Seq(Waiters) /\ Len(waiters') = n + 1
      /\ \A i \in 1 .. n : waiters'[i] = waiters[i]
      /\ waiters'[n + 1] = w
  BY <1>1, <1>2, AppendProperties
<1>5. \A i \in 1 .. n :
         /\ waiters[i].cut \in Cuts /\ waiters[i].cut # c
         /\ waiters[i].job_id \in Nat /\ waiters[i].job_id < next_job_id
         /\ WaiterKept(i)
  BY <1>1, <1>2, WaiterTypes DEF QueueInv, WaiterKept
<1>6. \A j \in Jobs, s \in Slots :
         j \in printed \/ thread[<<j, s>>] = "open" => j <= w.job_id
  BY <1>2, <1>3 DEF JobInv, JobKept, ThreadKept, Jobs, Terminal
<1>7. 1 \in Slots
  BY ThreadsAssumption DEF Slots
<1>8. ASSUME NEW i \in 1 .. n PROVE WaiterKept(i)'
  <2>1. WaiterKept(i) /\ waiters'[i] = waiters[i] /\ i \in DOMAIN waiters
    BY <1>2, <1>4, <1>5
  <2>2. cut'[waiters'[i].cut] = "waiting" /\ waiters'[i].job_id < next_job_id'
    BY <1>1, <1>5, <2>1 DEF WaiterKept, Shape
  <2>3. \A k \in DOMAIN waiters' : i < k =>
           /\ waiters'[i].cut # waiters'[k].cut
           /\ waiters'[i].job_id <= waiters'[k].job_id
    <3> SUFFICES ASSUME NEW k \in DOMAIN waiters', i < k
                 PROVE  /\ waiters'[i].cut # waiters'[k].cut
                        /\ waiters'[i].job_id <= waiters'[k].job_id
      OBVIOUS
    <3>1. CASE k = n + 1
      BY <1>2, <1>3, <1>4, <1>5, <3>1
    <3>2. CASE k # n + 1
      <4>1. k \in 1 .. n
        BY <1>2, <1>4, <3>2
      <4> QED
        BY <1>2, <1>4, <2>1, <4>1 DEF WaiterKept
    <3> QED
      BY <3>1, <3>2
  <2> QED
    BY <1>1, <2>1, <2>2, <2>3 DEF WaiterKept
<1>9. WaiterKept(n + 1)'
  <2>1. cut'[waiters'[n + 1].cut] = "waiting"
    BY <1>1, <1>3, <1>4 DEF Shape
  <2>2. waiters'[n + 1].job_id < next_job_id'
    BY <1>1, <1>2, <1>3, <1>4
  <2>3. \A k \in DOMAIN waiters' : ~ (n + 1 < k)
    BY <1>2, <1>4
  <2>4. \A j \in Jobs, s \in Slots :
           j \in printed' \/ thread'[<<j, s>>] = "open"
              => j <= waiters'[n + 1].job_id
    BY <1>1, <1>4, <1>6
  <2> QED
    BY <1>7, <2>1, <2>2, <2>3, <2>4 DEF WaiterKept
<1>10. ASSUME NEW d \in Cuts, cut'[d] = "waiting"
       PROVE  \E k \in DOMAIN waiters' : waiters'[k].cut = d
  <2>1. CASE d = c
    BY <1>2, <1>3, <1>4, <2>1
  <2>2. CASE d # c
    <3>1. PICK i \in DOMAIN waiters : waiters[i].cut = d
      BY <1>1, <1>10, <2>2 DEF Shape, QueueInv
    <3> QED
      BY <1>2, <1>4, <3>1
  <2> QED
    BY <2>1, <2>2
<1>11. \A i \in DOMAIN waiters' : WaiterKept(i)'
  <2>1. \A i \in DOMAIN waiters' : i \in 1 .. n \/ i = n + 1
    BY <1>2, <1>4
  <2> QED
    BY <1>8, <1>9, <2>1
<1> QED
  BY <1>4, <1>10, <1>11 DEF QueueInv

(* The queue is in order, and no job passes a cut that was there before it.*)
LEMMA QueueStep ==
    ASSUME Shape, JobInv, QueueInv, [Next]_vars
    PROVE  QueueInv'
<1> USE DEF jobs, printer
<1>1. CASE AcceptJob
  <2>1. /\ UNCHANGED <<waiters, cut, thread, printed>>
        /\ next_job_id' = next_job_id + 1 /\ next_job_id \in Nat
    BY <1>1, JobsAssumption DEF AcceptJob, Shape
  <2>2. \A i \in DOMAIN waiters : waiters[i].job_id \in Nat
    BY WaiterTypes DEF QueueInv
  <2> QED
    BY <2>1, <2>2 DEF QueueInv, WaiterKept
<1>2. CASE \/ \E j \in Jobs : ReleaseJob(j)
           \/ ResumePrinter
           \/ \E j \in Jobs, s \in Slots : CheckAfterJob(j, s)
           \/ ClosePoll
  <2>1. OnlyStarts
    BY <1>2, Dispatch
  <2>2. UNCHANGED <<waiters, cut, next_job_id, printed>>
    BY <1>2 DEF ReleaseJob, ResumePrinter, CheckAfterJob, ClosePoll
  <2> QED
    BY <2>1, <2>2, QueueKept DEF OnlyStarts
<1>3. ASSUME NEW c \in Cuts, FinishCut(c) PROVE QueueInv'
  <2>1. OnlyStarts
    BY <1>3, Dispatch
  <2>2. /\ cut[c] = "owned" /\ cut' = [cut EXCEPT ![c] = "ok"]
        /\ UNCHANGED <<waiters, next_job_id, printed>>
    BY <1>3 DEF FinishCut
  <2>3. \A d \in Cuts : cut'[d] = "waiting" <=> cut[d] = "waiting"
    BY <2>2 DEF Shape
  <2>4. \A i \in DOMAIN waiters : waiters[i].cut \in Cuts
    BY WaiterTypes DEF QueueInv
  <2> QED
    BY <2>1, <2>2, <2>3, <2>4 DEF QueueInv, WaiterKept, OnlyStarts
<1>4. CASE \/ \E j \in Jobs : StreamJob(j) \/ CancelJob(j)
           \/ PausePrinter \/ Shutdown \/ OpenForPoll
  <2>1. UNCHANGED <<waiters, cut, next_job_id, printed>>
    BY <1>4 DEF StreamJob, CancelJob, PausePrinter, Shutdown, OpenForPoll
  <2>2. \A j \in Jobs, s \in Slots :
           thread'[<<j, s>>] = "open" => thread[<<j, s>>] = "open"
    BY <1>4 DEF StreamJob, CancelJob, PausePrinter, Shutdown, OpenForPoll, Shape
  <2> QED
    BY <2>1, <2>2, QueueKept
<1>5. ASSUME NEW c \in Cuts, AdmitCut(c) PROVE QueueInv'
  BY <1>5, QueueJoined
<1>6. ASSUME NEW j \in Jobs, NEW s \in Slots,
             \/ GiveUpStart(j, s) \/ OpenFails(j, s) \/ EndProcessing(j, s)
             \/ FinishJob(j, s) \/ CloseAfterJob(j, s)
      PROVE  QueueInv'
  <2>1. UNCHANGED <<waiters, cut, next_job_id, printed>>
    BY <1>6 DEF GiveUpStart, OpenFails, EndProcessing, FinishJob, CloseAfterJob
  <2>2. \A k \in Jobs, r \in Slots :
           thread'[<<k, r>>] = "open" => thread[<<k, r>>] = "open"
    BY <1>6 DEF GiveUpStart, OpenFails, EndProcessing, FinishJob, CloseAfterJob,
                Shape
  <2> QED
    BY <2>1, <2>2, QueueKept
<1>7. ASSUME NEW j \in Jobs, NEW s \in Slots, StartJob(j, s) PROVE QueueInv'
  <2>1. /\ UNCHANGED <<waiters, cut, next_job_id, printed>>
        /\ thread' = [thread EXCEPT ![<<j, s>>] = "open"]
        /\ ~CutBarrier(j, waiters)
    BY <1>7 DEF StartJob, MustWait
  <2>2. \A k \in Jobs, r \in Slots :
           thread'[<<k, r>>] = "open" => thread[<<k, r>>] = "open" \/ k = j
    BY <2>1 DEF Shape
  <2>3. \A i \in DOMAIN waiters : j <= waiters[i].job_id
    <3> SUFFICES ASSUME NEW i \in DOMAIN waiters PROVE j <= waiters[i].job_id
      OBVIOUS
    <3>1. /\ waiters \in Seq(Waiters) /\ 1 \in DOMAIN waiters
          /\ waiters[1].job_id \in Nat /\ waiters[i].job_id \in Nat /\ j \in Nat
      BY WaiterTypes DEF QueueInv, Jobs
    <3>2. Head(waiters) = waiters[1] /\ waiters # <<>>
      BY <3>1
    <3>3. j <= waiters[1].job_id
      BY <2>1, <3>1, <3>2 DEF CutBarrier
    <3>4. i = 1 \/ 1 < i
      BY <3>1
    <3>5. waiters[1].job_id <= waiters[i].job_id
      BY <3>1, <3>4 DEF QueueInv, WaiterKept
    <3> QED
      BY <3>1, <3>3, <3>5
  <2> QED
    BY <2>1, <2>2, <2>3 DEF QueueInv, WaiterKept
<1>8. ASSUME NEW j \in Jobs, NEW s \in Slots, OpenDevice(j, s) PROVE QueueInv'
  <2>1. /\ UNCHANGED <<waiters, cut, next_job_id>> /\ thread[<<j, s>>] = "open"
        /\ printed' = printed \cup {j}
        /\ thread' = [thread EXCEPT ![<<j, s>>] = "print"]
    BY <1>8 DEF OpenDevice
  <2>2. \A k \in Jobs, r \in Slots :
           thread'[<<k, r>>] = "open" => thread[<<k, r>>] = "open"
    BY <2>1 DEF Shape
  <2> QED
    BY <2>1, <2>2 DEF QueueInv, WaiterKept
<1>9. ASSUME NEW c \in Cuts, AcquireCut(c) PROVE QueueInv'
  <2>1. /\ cut[c] = "waiting" /\ waiters' = Without(c)
        /\ cut' = [cut EXCEPT ![c] = "owned"]
        /\ UNCHANGED <<next_job_id, thread, printed>>
    BY <1>9 DEF AcquireCut, MayAcquire
  <2> QED
    BY <2>1, QueueLeft
<1>10. ASSUME NEW c \in Cuts, CutOpenFails(c) PROVE QueueInv'
  <2>1. OnlyStarts
    BY <1>10, Dispatch
  <2>2. /\ cut[c] = "waiting" /\ waiters' = Without(c)
        /\ cut' = [cut EXCEPT ![c] = "busy"]
        /\ UNCHANGED <<next_job_id, printed>>
    BY <1>10 DEF CutOpenFails, MayAcquire
  <2> QED
    BY <2>1, <2>2, QueueLeft DEF OnlyStarts
<1>11. ASSUME NEW c \in Cuts, AbandonCut(c) PROVE QueueInv'
  <2>1. /\ cut[c] = "waiting" /\ waiters' = Without(c)
        /\ cut' = [cut EXCEPT ![c] = "busy"]
        /\ UNCHANGED <<next_job_id, thread, printed>>
    BY <1>11 DEF AbandonCut
  <2> QED
    BY <2>1, QueueLeft
<1>12. CASE UNCHANGED vars
  BY <1>12, QueueKept DEF vars
<1> QED
  BY <1>1, <1>2, <1>3, <1>4, <1>5, <1>6, <1>7, <1>8, <1>9, <1>10, <1>11, <1>12
     DEF Next, ClientStep, ThreadStep, CutStep

(* No job comes to the device for a second time.                           *)
LEMMA OpenStep ==
    ASSUME Shape, JobInv, ActInv, OpenInv, [Next]_vars
    PROVE  OpenInv'
<1> USE DEF jobs, printer
<1>1. Regular' => Regular
  <2>1. CASE UNCHANGED vars
    BY <2>1 DEF vars, Regular
  <2>2. CASE ClientStep
    BY <2>2 DEF ClientStep, AcceptJob, ReleaseJob, StreamJob, CancelJob,
       AdmitCut, PausePrinter, ResumePrinter, Shutdown, Regular, Shape
  <2>3. ASSUME NEW j \in Jobs, NEW s \in Slots, ThreadStep(j, s)
        PROVE  UNCHANGED <<running, is_canceled>>
    BY <2>3 DEF ThreadStep, GiveUpStart, StartJob, OpenDevice, OpenFails,
       EndProcessing, FinishJob, CloseAfterJob, CheckAfterJob
  <2>4. ASSUME NEW c \in Cuts, CutStep(c) PROVE UNCHANGED <<running, is_canceled>>
    BY <2>4 DEF CutStep, AcquireCut, CutOpenFails, AbandonCut, FinishCut
  <2>5. CASE OpenForPoll \/ ClosePoll
    BY <2>5 DEF OpenForPoll, ClosePoll, Regular
  <2> QED
    BY <2>1, <2>2, <2>3, <2>4, <2>5 DEF Next, Regular
<1>2. ASSUME UNCHANGED printed,
             \A u \in Jobs, r \in Slots :
                thread'[<<u, r>>] = "open" => thread[<<u, r>>] = "open"
      PROVE  OpenInv'
  BY <1>1, <1>2 DEF OpenInv
<1>3. CASE \/ \E j \in Jobs : ReleaseJob(j)
           \/ ResumePrinter
           \/ \E j \in Jobs, s \in Slots : CheckAfterJob(j, s)
           \/ \E c \in Cuts : CutOpenFails(c) \/ FinishCut(c)
           \/ ClosePoll
  <2>1. OnlyStarts
    BY <1>3, Dispatch
  <2>2. UNCHANGED printed
    BY <1>3 DEF ReleaseJob, ResumePrinter, CheckAfterJob, CutOpenFails,
                FinishCut, ClosePoll
  <2> QED
    BY <1>2, <2>1, <2>2 DEF OnlyStarts
<1>4. CASE \/ AcceptJob \/ PausePrinter \/ Shutdown \/ OpenForPoll
           \/ \E j \in Jobs : CancelJob(j)
           \/ \E c \in Cuts : AdmitCut(c) \/ AcquireCut(c) \/ AbandonCut(c)
  <2>1. UNCHANGED <<printed, thread>>
    BY <1>4 DEF AcceptJob, PausePrinter, Shutdown, OpenForPoll, CancelJob,
                AdmitCut, AcquireCut, AbandonCut
  <2> QED
    BY <1>2, <2>1
<1>5. ASSUME NEW j \in Jobs, StreamJob(j) PROVE OpenInv'
  BY <1>2, <1>5 DEF StreamJob, Shape
<1>6. ASSUME NEW j \in Jobs, NEW s \in Slots,
             \/ GiveUpStart(j, s) \/ OpenFails(j, s) \/ EndProcessing(j, s)
             \/ FinishJob(j, s) \/ CloseAfterJob(j, s)
      PROVE  OpenInv'
  BY <1>2, <1>6 DEF GiveUpStart, OpenFails, EndProcessing, FinishJob,
                    CloseAfterJob, Shape
<1>7. ASSUME NEW j \in Jobs, NEW s \in Slots, StartJob(j, s) PROVE OpenInv'
  <2>1. /\ processing_job = None /\ state[j] \notin Terminal /\ UNCHANGED printed
        /\ thread' = [thread EXCEPT ![<<j, s>>] = "open"]
    BY <1>7 DEF StartJob, GivenUp, MustWait
  <2>2. j \notin printed
    BY <2>1 DEF JobInv, JobKept, Jobs, None
  <2>3. \A u \in Jobs, r \in Slots :
           thread'[<<u, r>>] = "open" => thread[<<u, r>>] = "open" \/ u = j
    BY <2>1 DEF Shape
  <2> QED
    BY <1>1, <2>1, <2>2, <2>3 DEF OpenInv
<1>8. ASSUME NEW j \in Jobs, NEW s \in Slots, OpenDevice(j, s) PROVE OpenInv'
  <2>1. /\ thread[<<j, s>>] = "open" /\ printed' = printed \cup {j}
        /\ thread' = [thread EXCEPT ![<<j, s>>] = "print"]
    BY <1>8 DEF OpenDevice
  <2>2. \A u \in Jobs, r \in Slots : thread'[<<u, r>>] = "open" =>
           thread[<<u, r>>] = "open" /\ <<u, r>> # <<j, s>>
    BY <2>1 DEF Shape
  <2>3. Regular => \A u \in Jobs, r \in Slots : thread'[<<u, r>>] = "open" => u # j
    BY <2>1, <2>2 DEF ActInv, Acts
  <2> QED
    BY <1>1, <2>1, <2>2, <2>3 DEF OpenInv
<1>9. CASE UNCHANGED vars
  BY <1>2, <1>9 DEF vars
<1> QED
  BY <1>3, <1>4, <1>5, <1>6, <1>7, <1>8, <1>9
     DEF Next, ClientStep, ThreadStep, CutStep

(* The inductive invariant: the types, and what jobs, threads and users of *)
(* the device have to do with one another and with the waiting cuts.       *)
IInv == Shape /\ JobInv /\ ActInv /\ UseInv /\ OpenInv /\ QueueInv

(* The inductive invariant holds of every reachable state.                 *)
THEOREM IInvCorrect == Spec => []IInv
<1>1. Init => IInv
  <2> SUFFICES ASSUME Init PROVE IInv
    OBVIOUS
  <2>1. \A j \in Jobs, s \in Slots : thread[<<j, s>>] = "none"
    BY DEF Init
  <2>2. Shape
    <3>1. thread \in [Jobs \X Slots -> ThreadSteps]
      BY DEF Init, ThreadSteps
    <3>2. next_job_id \in 1 .. MaxJobs + 1
      BY JobsAssumption DEF Init
    <3> QED
      BY <3>1, <3>2 DEF Init, Shape
  <2>3. JobInv /\ ActInv
    BY <2>1 DEF Init, JobInv, JobKept, ThreadKept, ActInv, Acts, Jobs, None
  <2>4. UseInv
    BY <2>1 DEF Init, UseInv
  <2>5. OpenInv /\ QueueInv
    BY <2>1 DEF Init, OpenInv, QueueInv
  <2> QED
    BY <2>2, <2>3, <2>4, <2>5 DEF IInv
<1>2. IInv /\ [Next]_vars => IInv'
  BY ShapeStep, JobStep, ActStep, UseStep, OpenStep, QueueStep DEF IInv
<1> QED
  BY <1>1, <1>2, PTL DEF Spec

(* The device has one user at a time, a printing thread, a cut or a poll:  *)
(* papplPrinterOpenDeviceQueued, papplPrinterOpenDevice and start_job      *)
(* exclude one another.                                                    *)
THEOREM UserAlone == Spec => []OneUser
<1>1. IInv => OneUser
  <2> SUFFICES ASSUME IInv, Regular PROVE Exclusive
    BY DEF OneUser
  <2>1. ASSUME NEW t \in Printing, NEW u \in Printing PROVE t = u
    <3>1. PICK j \in Jobs, s \in Slots : t = <<j, s>>
      BY DEF Printing
    <3>2. PICK k \in Jobs, r \in Slots : u = <<k, r>>
      BY DEF Printing
    <3>3. Acts(j, s) /\ Acts(k, r)
      BY <3>1, <3>2 DEF Printing, Acts
    <3>4. j = k
      BY <3>3 DEF IInv, ActInv
    <3> QED
      BY <3>1, <3>2, <3>3, <3>4 DEF IInv, ActInv
  <2>2. ASSUME NEW t \in Printing PROVE owner = "none"
    <3>1. PICK j \in Jobs, s \in Slots : t = <<j, s>>
      BY DEF Printing
    <3> QED
      BY <3>1 DEF Printing, IInv, UseInv
  <2> QED
    BY <2>1, <2>2 DEF Exclusive
<1> QED
  BY <1>1, IInvCorrect, PTL

(* Whoever uses the device has it open: finish_job, which closes it after  *)
(* the last job, never closes it under a cut, a poll or a later job.       *)
THEOREM DeviceStaysOpen == Spec => []DeviceKept
<1>1. IInv => DeviceKept
  <2> SUFFICES ASSUME IInv, Regular, Printing # {} \/ owner # "none" PROVE device
    BY DEF DeviceKept
  <2>1. ASSUME NEW t \in Printing PROVE device
    <3>1. PICK j \in Jobs, s \in Slots : t = <<j, s>>
      BY DEF Printing
    <3> QED
      BY <3>1 DEF Printing, IInv, UseInv
  <2> QED
    BY <2>1 DEF IInv, UseInv
<1> QED
  BY <1>1, IInvCorrect, PTL

(* The completion of a job that never had the printer leaves               *)
(* processing_job and printer-state to the job that has it.                *)
THEOREM OwnershipStays == Spec => []OwnershipKept
<1>1. IInv => OwnershipKept
  BY DEF IInv, ActInv, Acts, UseInv, OwnershipKept
<1> QED
  BY <1>1, IInvCorrect, PTL

(* However often the scheduler dispatches a job, it gets the printer once, *)
(* in the interrupted runs too.                                            *)
THEOREM NoSecondPrint == Spec => PrintedOnce
<1>1. IInv /\ [Next]_vars =>
        [\A j \in Jobs : processing_job' = j /\ processing_job # j
                            => j \notin printed]_vars
  <2> SUFFICES ASSUME IInv, [Next]_vars, NEW j \in Jobs,
                      processing_job' = j, processing_job # j
      PROVE  j \notin printed
    OBVIOUS
  <2>1. PICK s \in Slots : StartJob(j, s)
    <3> USE DEF jobs, printer, Jobs, None
    <3>1. CASE UNCHANGED vars
      BY <3>1 DEF vars
    <3>2. CASE ClientStep
      BY <3>2 DEF ClientStep, AcceptJob, ReleaseJob, StreamJob, CancelJob,
         AdmitCut, PausePrinter, ResumePrinter, Shutdown
    <3>3. ASSUME NEW k \in Jobs, NEW s \in Slots, ThreadStep(k, s)
          PROVE  k = j /\ StartJob(j, s)
      BY <3>3, JobsAssumption DEF ThreadStep, GiveUpStart, StartJob, OpenDevice,
         OpenFails, EndProcessing, FinishJob, CloseAfterJob, CheckAfterJob
    <3>4. ASSUME NEW c \in Cuts, CutStep(c) PROVE FALSE
      BY <3>4 DEF CutStep, AcquireCut, CutOpenFails, AbandonCut, FinishCut
    <3>5. CASE OpenForPoll \/ ClosePoll
      BY <3>5 DEF OpenForPoll, ClosePoll
    <3> QED
      BY <3>1, <3>2, <3>3, <3>4, <3>5 DEF Next
  <2>2. state[j] \notin {"processing"} \cup Terminal
    BY <2>1 DEF StartJob, GivenUp, MustWait, IInv, JobInv, JobKept, Shape, Jobs, None
  <2> QED
    BY <2>2 DEF IInv, JobInv, JobKept
<1> QED
  BY <1>1, IInvCorrect, PTL DEF Spec, PrintedOnce

(* A cut gets the device when every job accepted before it has ended, and  *)
(* before any job accepted after it has reached the printer, however the   *)
(* other cuts, polls and dispatches fall.                                  *)
THEOREM CutsInOrder == Spec => CutInOrder
<1>1. IInv /\ [Next]_vars =>
        [\A c \in Cuts : owner' = c /\ owner # c =>
           \A i \in DOMAIN waiters : waiters[i].cut = c =>
             /\ Active' \cap (1 .. waiters[i].job_id) = {}
             /\ printed' \subseteq 1 .. waiters[i].job_id]_vars
  <2> SUFFICES ASSUME IInv, [Next]_vars, NEW c \in Cuts, owner' = c, owner # c,
                      NEW i \in DOMAIN waiters, waiters[i].cut = c
      PROVE  /\ Active' \cap (1 .. waiters[i].job_id) = {}
             /\ printed' \subseteq 1 .. waiters[i].job_id
    OBVIOUS
  <2>1. AcquireCut(c)
    <3> USE CutsAssumption DEF jobs, printer
    <3>1. CASE UNCHANGED vars
      BY <3>1 DEF vars
    <3>2. CASE ClientStep
      BY <3>2 DEF ClientStep, AcceptJob, ReleaseJob, StreamJob, CancelJob,
         AdmitCut, PausePrinter, ResumePrinter, Shutdown
    <3>3. ASSUME NEW j \in Jobs, NEW s \in Slots, ThreadStep(j, s) PROVE FALSE
      BY <3>3 DEF ThreadStep, GiveUpStart, StartJob, OpenDevice,
         OpenFails, EndProcessing, FinishJob, CloseAfterJob, CheckAfterJob
    <3>4. ASSUME NEW d \in Cuts, CutStep(d) PROVE AcquireCut(c)
      BY <3>4 DEF CutStep, AcquireCut, CutOpenFails, AbandonCut, FinishCut,
         CloseDevice
    <3>5. CASE OpenForPoll \/ ClosePoll
      BY <3>5 DEF OpenForPoll, ClosePoll, CloseDevice
    <3> QED
      BY <3>1, <3>2, <3>3, <3>4, <3>5 DEF Next
  <2>2. /\ Head(waiters).cut = c /\ WaiterReady(Head(waiters))
        /\ UNCHANGED <<state, printed>>
    BY <2>1 DEF AcquireCut, MayAcquire, jobs
  <2>3. waiters \in Seq(Waiters) /\ waiters # <<>> /\ WaiterKept(1) /\ WaiterKept(i)
    BY DEF IInv, QueueInv
  <2>4. i = 1
    <3>1. Head(waiters) = waiters[1] /\ i \in 1 .. Len(waiters) /\ 1 \in DOMAIN waiters
      BY <2>3
    <3>2. CASE 1 < i
      BY <2>2, <2>3, <3>1, <3>2 DEF WaiterKept
    <3> QED
      BY <3>1, <3>2
  <2>5. \A j \in Active : j > waiters[i].job_id
    BY <2>2, <2>3, <2>4 DEF WaiterReady
  <2>6. Active' = Active
    BY <2>2 DEF Active
  <2>7. waiters[i].job_id \in Nat /\ Active \subseteq Nat /\ printed \subseteq Jobs
    BY <2>3, WaiterTypes DEF Active, Jobs, IInv, Shape
  <2>8. \A j \in printed : j <= waiters[i].job_id
    BY <2>3, <2>7 DEF WaiterKept
  <2> QED
    BY <2>2, <2>5, <2>6, <2>7, <2>8 DEF Jobs
<1> QED
  BY <1>1, IInvCorrect, PTL DEF Spec, CutInOrder

(* A scan of the queue touches free threads only.                          *)
LEMMA ScanKeeps ==
    ASSUME NEW threads \in [Jobs \X Slots -> ThreadSteps], NEW status,
           NEW queued, NEW idle \in BOOLEAN, NEW u \in Jobs, NEW r \in Slots
    PROVE  CheckJobs(threads, status, queued, idle)[<<u, r>>] = "print"
              <=> threads[<<u, r>>] = "print"
  BY DEF CheckJobs, FreeSlot

(* A step that brings no job to print and ends none.                       *)
SamePrinting ==
    \A u \in Jobs, r \in Slots :
        thread'[<<u, r>>] = "print" <=> thread[<<u, r>>] = "print"

(* A step that only scans the queue, or ends a thread, ends no printing.   *)
LEMMA ScanPrints ==
    ASSUME Shape,
           \/ \E j \in Jobs : ReleaseJob(j)
           \/ ResumePrinter
           \/ \E j \in Jobs, s \in Slots : CheckAfterJob(j, s)
           \/ \E c \in Cuts : CutOpenFails(c) \/ FinishCut(c)
           \/ ClosePoll
    PROVE  SamePrinting
<1> USE DEF SamePrinting, jobs
<1>1. ASSUME NEW threads \in [Jobs \X Slots -> ThreadSteps], NEW status,
             NEW queued, NEW idle \in BOOLEAN,
             thread' = CheckJobs(threads, status, queued, idle),
             \A u \in Jobs, r \in Slots :
                threads[<<u, r>>] = "print" <=> thread[<<u, r>>] = "print"
      PROVE  SamePrinting
  <2> SUFFICES ASSUME NEW u \in Jobs, NEW r \in Slots
               PROVE  thread'[<<u, r>>] = "print" <=> thread[<<u, r>>] = "print"
    OBVIOUS
  <2>1. CheckJobs(threads, status, queued, idle)[<<u, r>>] = "print"
           <=> threads[<<u, r>>] = "print"
    BY ScanKeeps
  <2> QED
    BY <1>1, <2>1
<1>2. Idle \in BOOLEAN /\ thread \in [Jobs \X Slots -> ThreadSteps]
  BY DEF Idle, Shape
<1>3. ASSUME NEW j \in Jobs, ReleaseJob(j) PROVE SamePrinting
  BY <1>1, <1>2, <1>3 DEF ReleaseJob
<1>4. CASE ResumePrinter
  BY <1>1, <1>2, <1>4 DEF ResumePrinter
<1>5. ASSUME NEW j \in Jobs, NEW s \in Slots, CheckAfterJob(j, s) PROVE SamePrinting
  <2>1. PICK threads \in [Jobs \X Slots -> ThreadSteps] :
           /\ threads = [thread EXCEPT ![<<j, s>>] = "none"]
           /\ thread' = CheckJobs(threads, state, waiters, Idle)
    BY <1>5 DEF CheckAfterJob, Shape, ThreadSteps
  <2>2. \A u \in Jobs, r \in Slots :
           threads[<<u, r>>] = "print" <=> thread[<<u, r>>] = "print"
    BY <1>5, <2>1 DEF CheckAfterJob, Shape
  <2> QED
    BY <1>1, <1>2, <2>1, <2>2
<1>6. ASSUME NEW c \in Cuts, CutOpenFails(c) PROVE SamePrinting
  BY <1>1, <1>2, <1>6 DEF CutOpenFails
<1>7. ASSUME NEW c \in Cuts, FinishCut(c) PROVE SamePrinting
  BY <1>1, <1>2, <1>7 DEF FinishCut, CloseDevice
<1>8. CASE ClosePoll
  BY <1>1, <1>2, <1>8 DEF ClosePoll, CloseDevice
<1> QED
  BY <1>3, <1>4, <1>5, <1>6, <1>7, <1>8

(* Such a step leaves the device to its user, whose job is the one that    *)
(* has the printer.                                                        *)
LEMMA UserKept ==
    ASSUME SamePrinting, owner' = owner,
           Printing # {} => processing_job' = processing_job
    PROVE  User' = User
<1>1. Printing' = Printing
  BY DEF SamePrinting, Printing
<1> QED
  BY <1>1 DEF User

(* Outside interruptions a printing thread is the only one that acts, and  *)
(* no cut or poll has the device.                                          *)
LEMMA PrintsAlone ==
    ASSUME IInv, Regular, NEW j \in Jobs, NEW s \in Slots,
           thread[<<j, s>>] = "print"
    PROVE  /\ processing_job = j /\ state[j] = "processing" /\ owner = "none"
           /\ \A k \in Jobs, r \in Slots : Acts(k, r) => k = j /\ r = s
<1>1. Acts(j, s) /\ processing_job = j
  BY DEF Acts, IInv, ActInv
<1>2. \A k \in Jobs, r \in Slots : Acts(k, r) => k = j /\ r = s
  BY <1>1 DEF IInv, ActInv
<1>3. owner = "none"
  BY DEF IInv, UseInv
<1>4. state[j] = "processing"
  BY <1>1 DEF IInv, JobInv, JobKept
<1> QED
  BY <1>1, <1>2, <1>3, <1>4

(* The device is free unless somebody prints, cuts or polls.               *)
LEMMA FreeDevice ==
    ASSUME Printing = {}, owner = "none"
    PROVE  Turns!Free /\ User = <<>>
  BY DEF User, Turns!Free

(* The first waiter, whose turn is the next cut's.                         *)
LEMMA FirstWaiter ==
    ASSUME IInv, NEW c \in Cuts, MayAcquire(c)
    PROVE  /\ waiters # <<>> /\ Head(waiters).cut = c
           /\ Without(c) = Tail(waiters)
<1>1. /\ waiters \in Seq(Waiters) /\ Head(waiters).cut = c
      /\ \E i \in DOMAIN waiters : waiters[i].cut = c
  BY DEF IInv, QueueInv, MayAcquire
<1>2. waiters # <<>> /\ Len(waiters) \in Nat \ {0} /\ 1 \in DOMAIN waiters
      /\ Head(waiters) = waiters[1] /\ DOMAIN waiters = 1 .. Len(waiters)
  BY <1>1
<1>3. ASSUME NEW i \in DOMAIN waiters, waiters[i].cut = c PROVE i = 1
  <2>1. CASE 1 < i
    BY <1>1, <1>2, <1>3, <2>1 DEF IInv, QueueInv, WaiterKept
  <2> QED
    BY <1>2, <2>1
<1>4. Place(c) = 1
  BY <1>1, <1>3 DEF Place
<1>5. RemoveAt(waiters, 1) = Tail(waiters)
  <2>1. SubSeq(waiters, 1, 0) = <<>>
    BY SubSeqEmpty
  <2>2. Tail(waiters) \in Seq(Waiters) /\ Tail(waiters) = SubSeq(waiters, 2, Len(waiters))
    BY <1>1, <1>2, HeadTailProperties, TailIsSubSeq
  <2>3. <<>> \o Tail(waiters) = Tail(waiters)
    BY <2>2, ConcatEmptySeq
  <2> QED
    BY <2>1, <2>2, <2>3 DEF RemoveAt
<1> QED
  BY <1>1, <1>2, <1>4, <1>5 DEF Without

(* A step that moves no job, cut or poll takes no turn.                    *)
LEMMA NoTurn ==
    ASSUME SamePrinting, Active' = Active,
           UNCHANGED <<owner, next_job_id, printed, waiters>>,
           Printing # {} => processing_job' = processing_job
    PROVE  UNCHANGED Turns!turns
  BY UserKept DEF Turns!turns

(* Who has the device, as a turn.                                          *)
LEMMA Users ==
    /\ Printing # {} => User = <<"job", processing_job>>
    /\ Printing = {} /\ owner = "poll" => User = <<"poll">>
    /\ Printing = {} /\ owner \in Cuts => User = <<"cut", owner>>
  BY CutsAssumption DEF User

(* A job has the device for as long as its thread prints, and no other job *)
(* or later thread of it comes between: start_job .. finish_job.           *)
LEMMA JobTurns ==
    ASSUME IInv, Regular, NEW j \in Jobs, NEW s \in Slots, ThreadStep(j, s)
    PROVE  [Turns!Next]_(Turns!turns)
<1> USE DEF jobs, printer
<1>a. Shape
  BY DEF IInv
<1>b. processing_job = None => Printing = {}
  BY PrintsAlone DEF Printing, Jobs, None
<1>1. CASE GiveUpStart(j, s) \/ OpenFails(j, s) \/ CloseAfterJob(j, s)
  <2>1. SamePrinting
    BY <1>a, <1>1 DEF GiveUpStart, OpenFails, CloseAfterJob, SamePrinting, Shape
  <2>2. UNCHANGED <<owner, state, next_job_id, printed, waiters, processing_job>>
    BY <1>1 DEF GiveUpStart, OpenFails, CloseAfterJob
  <2>3. Active' = Active
    BY <2>2 DEF Active
  <2> QED
    BY <2>1, <2>2, <2>3, NoTurn
<1>2. CASE CheckAfterJob(j, s)
  <2>1. SamePrinting
    BY <1>a, <1>2, ScanPrints
  <2>2. UNCHANGED <<owner, state, next_job_id, printed, waiters, processing_job>>
    BY <1>2 DEF CheckAfterJob
  <2>3. Active' = Active
    BY <2>2 DEF Active
  <2> QED
    BY <2>1, <2>2, <2>3, NoTurn
<1>3. CASE StartJob(j, s)
  <2>1. /\ thread[<<j, s>>] = "start" /\ ~GivenUp(j) /\ processing_job = None
        /\ state' = [state EXCEPT ![j] = "processing"]
        /\ thread' = [thread EXCEPT ![<<j, s>>] = "open"]
        /\ UNCHANGED <<owner, next_job_id, printed, waiters>>
    BY <1>3 DEF StartJob, MustWait
  <2>2. state[j] \in {"pending", "processing"}
    BY <2>1 DEF IInv, Shape, JobInv, ThreadKept, GivenUp
  <2>3. Active' = Active
    BY <1>a, <2>1, <2>2 DEF Active, Shape
  <2>4. SamePrinting
    BY <1>a, <2>1 DEF SamePrinting, Shape
  <2> QED
    BY <1>b, <2>1, <2>3, <2>4, NoTurn
<1>4. CASE OpenDevice(j, s)
  <2>1. /\ thread[<<j, s>>] = "open" /\ owner = "none"
        /\ printed' = printed \cup {j}
        /\ thread' = [thread EXCEPT ![<<j, s>>] = "print"]
        /\ UNCHANGED <<owner, state, next_job_id, waiters, processing_job>>
    BY <1>4 DEF OpenDevice
  <2>2. Printing = {}
    <3> SUFFICES ASSUME NEW k \in Jobs, NEW r \in Slots, thread[<<k, r>>] = "print"
                 PROVE  FALSE
      BY DEF Printing
    <3>1. Acts(j, s)
      BY <2>1 DEF Acts
    <3>2. k = j /\ r = s
      BY <3>1, PrintsAlone
    <3> QED
      BY <2>1, <3>2
  <2>3. Printing' # {}
    BY <1>a, <2>1 DEF Printing, Shape
  <2>4. processing_job = j
    BY <2>1 DEF IInv, ActInv, Acts
  <2>5. User' = <<"job", j>>
    BY <2>1, <2>3, <2>4 DEF User
  <2>6. j \in Active \ printed /\ Active' = Active
    BY <2>1, <2>4 DEF IInv, JobInv, JobKept, OpenInv, Active
  <2>7. \A i \in DOMAIN waiters : j <= waiters[i].job_id
    BY <2>1 DEF IInv, QueueInv, WaiterKept
  <2>8. Turns!BeginJob(j)
    BY <2>1, <2>2, <2>5, <2>6, <2>7, FreeDevice DEF Turns!BeginJob
  <2> QED
    BY <2>8 DEF Turns!Next
<1>5. CASE EndProcessing(j, s)
  <2>1. /\ thread' = [thread EXCEPT ![<<j, s>>] = "finish"]
        /\ UNCHANGED <<owner, state, next_job_id, printed, waiters, processing_job>>
    BY <1>5 DEF EndProcessing
  <2>2. Active' = Active
    BY <2>1 DEF Active
  <2>3. CASE thread[<<j, s>>] = "print"
    <3>1. owner = "none" /\ Printing # {}
      BY <2>3, PrintsAlone DEF Printing
    <3>2. Printing' = {}
      <4>1. \A u \in Jobs, r \in Slots : thread'[<<u, r>>] = "print" =>
               thread[<<u, r>>] = "print" /\ <<u, r>> # <<j, s>>
        BY <1>a, <2>1 DEF Shape
      <4>2. \A u \in Jobs, r \in Slots : Acts(u, r) => u = j /\ r = s
        BY <2>3, PrintsAlone
      <4> QED
        BY <4>1, <4>2 DEF Printing, Acts
    <3>3. User' = <<>>
      BY <2>1, <3>1, <3>2 DEF User
    <3>4. User # <<>>
      BY <3>1, Users
    <3>5. Turns!GiveBack
      BY <2>1, <2>2, <3>3, <3>4 DEF Turns!GiveBack, Turns!Free
    <3> QED
      BY <3>5 DEF Turns!Next
  <2>4. CASE thread[<<j, s>>] # "print"
    <3>1. SamePrinting
      BY <1>a, <2>1, <2>4 DEF SamePrinting, Shape
    <3> QED
      BY <2>1, <2>2, <3>1, NoTurn
  <2> QED
    BY <2>3, <2>4
<1>6. CASE FinishJob(j, s)
  <2>1. /\ thread[<<j, s>>] = "finish"
        /\ state' = [state EXCEPT ![j] = FinalState(j)]
        /\ processing_job # j => processing_job' = processing_job
        /\ UNCHANGED <<owner, next_job_id, printed, waiters>>
    BY <1>6 DEF FinishJob, OwnedBy
  <2>2. SamePrinting
    BY <1>a, <1>6 DEF FinishJob, OwnedBy, SamePrinting, Shape
  <2>3. Printing # {} => processing_job # j
    <3> SUFFICES ASSUME NEW t \in Printing, processing_job = j PROVE FALSE
      OBVIOUS
    <3>1. PICK k \in Jobs, r \in Slots : t = <<k, r>>
      BY DEF Printing
    <3>2. Acts(j, s)
      BY <2>1 DEF Acts
    <3> QED
      BY <2>1, <3>1, <3>2, PrintsAlone DEF Printing
  <2>4. User' = User
    BY <2>1, <2>2, <2>3, UserKept
  <2>5. User # <<"job", j>>
    BY <2>3, CutsAssumption, Users DEF User
  <2>6. FinalState(j) \notin {"held", "pending", "processing"}
    BY <1>a, <2>1 DEF FinalState, IInv, JobInv, ThreadKept, Shape, Terminal
  <2>7. Active' = Active \ {j}
    BY <1>a, <2>1, <2>6 DEF Active, Shape
  <2>8. CASE j \in Active
    <3>1. Turns!EndJob(j)
      BY <2>1, <2>4, <2>5, <2>7, <2>8 DEF Turns!EndJob
    <3> QED
      BY <3>1 DEF Turns!Next
  <2>9. CASE j \notin Active
    BY <2>1, <2>4, <2>7, <2>9 DEF Turns!turns
  <2> QED
    BY <2>8, <2>9
<1> QED
  BY <1>1, <1>2, <1>3, <1>4, <1>5, <1>6 DEF ThreadStep

(* A cut has the device in its turn, or leaves the line without it:        *)
(* papplPrinterOpenDeviceQueued .. papplPrinterCloseDevice.                *)
LEMMA CutTurns ==
    ASSUME IInv, Regular, NEW c \in Cuts, CutStep(c)
    PROVE  [Turns!Next]_(Turns!turns)
<1> USE DEF jobs, printer
<1>a. Shape
  BY DEF IInv
<1>b. processing_job = None => Printing = {}
  BY PrintsAlone DEF Printing, Jobs, None
<1>1. CASE AcquireCut(c)
  <2>1. /\ MayAcquire(c) /\ owner = "none" /\ processing_job = None
        /\ WaiterReady(Head(waiters))
        /\ owner' = c /\ waiters' = Without(c)
        /\ UNCHANGED <<thread, state, next_job_id, printed>>
    BY <1>1 DEF AcquireCut, MayAcquire
  <2>2. waiters # <<>> /\ Head(waiters).cut = c /\ waiters' = Tail(waiters)
    BY <2>1, FirstWaiter
  <2>3. Printing = {} /\ Printing' = {} /\ Active' = Active
    BY <1>b, <2>1 DEF Printing, Active
  <2>4. User' = <<"cut", c>>
    BY <2>1, <2>3, CutsAssumption DEF User
  <2>5. Turns!Due
    BY <2>1, <2>2 DEF Turns!Due, WaiterReady
  <2>6. Turns!BeginCut
    BY <2>1, <2>2, <2>3, <2>4, <2>5, FreeDevice DEF Turns!BeginCut
  <2> QED
    BY <2>6 DEF Turns!Next
<1>2. CASE CutOpenFails(c) \/ AbandonCut(c)
  <2>1. /\ cut[c] = "waiting" /\ waiters' = Without(c)
        /\ UNCHANGED <<owner, state, next_job_id, printed, processing_job>>
    BY <1>2 DEF CutOpenFails, AbandonCut, MayAcquire
  <2>2. SamePrinting
    <3>1. CASE CutOpenFails(c)
      BY <1>a, <3>1, ScanPrints
    <3>2. CASE AbandonCut(c)
      BY <3>2 DEF AbandonCut, SamePrinting
    <3> QED
      BY <1>2, <3>1, <3>2
  <2>3. Place(c) \in DOMAIN waiters
    BY <2>1 DEF IInv, QueueInv, Place
  <2>4. User' = User /\ Active' = Active
    BY <2>1, <2>2, UserKept DEF Active
  <2>5. Turns!LeaveLine(Place(c))
    BY <2>1, <2>3, <2>4 DEF Turns!LeaveLine, Without, RemoveAt, Turns!RemoveAt
  <2> QED
    BY <2>3, <2>5 DEF Turns!Next
<1>3. CASE FinishCut(c)
  <2>1. /\ cut[c] = "owned" /\ owner' = "none"
        /\ UNCHANGED <<state, next_job_id, printed, waiters>>
    BY <1>3 DEF FinishCut, CloseDevice
  <2>2. owner = c /\ c # "none"
    BY <2>1, CutsAssumption DEF IInv, UseInv
  <2>3. Printing = {} /\ Printing' = {}
    <3>1. Printing = {}
      BY <2>2, PrintsAlone DEF Printing
    <3>2. SamePrinting
      BY <1>a, <1>3, ScanPrints
    <3> QED
      BY <3>1, <3>2 DEF Printing, SamePrinting
  <2>4. User # <<>> /\ User' = <<>>
    BY <2>1, <2>2, <2>3, Users DEF User
  <2>5. Turns!GiveBack
    BY <2>1, <2>4 DEF Turns!GiveBack, Turns!Free, Active
  <2> QED
    BY <2>5 DEF Turns!Next
<1> QED
  BY <1>1, <1>2, <1>3 DEF CutStep

(* A status poll has the device only while no cut is due.                  *)
LEMMA PollTurns ==
    ASSUME IInv, Regular, OpenForPoll \/ ClosePoll
    PROVE  [Turns!Next]_(Turns!turns)
<1> USE DEF jobs, printer
<1>1. CASE OpenForPoll
  <2>1. /\ owner = "none" /\ processing_job = None /\ ~CutIsDue /\ owner' = "poll"
        /\ UNCHANGED <<thread, state, next_job_id, printed, waiters>>
    BY <1>1 DEF OpenForPoll
  <2>2. Printing = {} /\ Printing' = {} /\ Active' = Active
    BY <2>1, PrintsAlone DEF Printing, Active, Jobs, None
  <2>3. User' = <<"poll">>
    BY <2>1, <2>2 DEF User
  <2>4. ~Turns!Due
    BY <2>1 DEF Turns!Due, CutIsDue, WaiterReady
  <2>5. Turns!BeginPoll
    BY <2>1, <2>2, <2>3, <2>4, FreeDevice DEF Turns!BeginPoll
  <2> QED
    BY <2>5 DEF Turns!Next
<1>2. CASE ClosePoll
  <2>1. /\ owner = "poll" /\ owner' = "none"
        /\ UNCHANGED <<state, next_job_id, printed, waiters>>
    BY <1>2 DEF ClosePoll, CloseDevice
  <2>2. Printing = {} /\ Printing' = {}
    <3>1. Printing = {}
      BY <2>1, PrintsAlone DEF Printing
    <3>2. SamePrinting
      BY <1>2, ScanPrints DEF IInv
    <3> QED
      BY <3>1, <3>2 DEF Printing, SamePrinting
  <2>3. User # <<>> /\ User' = <<>>
    BY <2>1, <2>2, Users DEF User
  <2>4. Turns!GiveBack
    BY <2>1, <2>3 DEF Turns!GiveBack, Turns!Free, Active
  <2> QED
    BY <2>4 DEF Turns!Next
<1> QED
  BY <1>1, <1>2

(* Clients add to the jobs and the line and end jobs that do not print.    *)
LEMMA ClientTurns ==
    ASSUME IInv, Regular, ClientStep
    PROVE  [Turns!Next]_(Turns!turns)
<1> USE DEF jobs, printer
<1>a. Shape
  BY DEF IInv
<1>1. CASE AcceptJob
  <2>1. /\ next_job_id \in Jobs /\ state' = [state EXCEPT ![next_job_id] = "held"]
        /\ next_job_id' = next_job_id + 1
        /\ UNCHANGED <<owner, thread, processing_job, printed, waiters>>
    BY <1>a, <1>1, JobsAssumption DEF AcceptJob, Shape, Jobs
  <2>2. SamePrinting
    BY <2>1 DEF SamePrinting
  <2>3. User' = User
    BY <2>1, <2>2, UserKept
  <2>4. Active' = Active \cup {next_job_id}
    BY <1>a, <2>1 DEF Active, Shape
  <2>5. (next_job_id - 1) + 1 = next_job_id /\ (next_job_id + 1) - 1 = next_job_id
    BY <2>1 DEF Jobs
  <2>6. Turns!Accept
    BY <2>1, <2>3, <2>4, <2>5 DEF Turns!Accept
  <2> QED
    BY <2>6 DEF Turns!Next
<1>2. ASSUME NEW j \in Jobs, ReleaseJob(j) PROVE UNCHANGED Turns!turns
  <2>1. /\ state[j] = "held" /\ state' = [state EXCEPT ![j] = "pending"]
        /\ UNCHANGED <<owner, next_job_id, processing_job, printed, waiters>>
    BY <1>2 DEF ReleaseJob
  <2>2. Active' = Active
    BY <1>a, <2>1 DEF Active, Shape
  <2>3. SamePrinting
    BY <1>a, <1>2, ScanPrints
  <2> QED
    BY <2>1, <2>2, <2>3, NoTurn
<1>3. ASSUME NEW j \in Jobs, StreamJob(j) PROVE UNCHANGED Turns!turns
  <2>1. /\ state[j] = "held" /\ state' = [state EXCEPT ![j] = "pending"]
        /\ thread' = [thread EXCEPT ![<<j, 1>>] = "start"]
        /\ UNCHANGED <<owner, next_job_id, processing_job, printed, waiters>>
    BY <1>3 DEF StreamJob
  <2>2. Active' = Active
    BY <1>a, <2>1 DEF Active, Shape
  <2>3. \A r \in Slots : thread[<<j, r>>] = "none"
    BY <2>1 DEF IInv, JobInv, ThreadKept
  <2>4. SamePrinting
    BY <1>a, <2>1, <2>3 DEF SamePrinting, Shape
  <2> QED
    BY <2>1, <2>2, <2>4, NoTurn
<1>4. ASSUME NEW j \in Jobs, CancelJob(j) PROVE [Turns!Next]_(Turns!turns)
  <2>1. UNCHANGED <<owner, thread, next_job_id, processing_job, printed, waiters>>
    BY <1>4 DEF CancelJob
  <2>2. SamePrinting
    BY <2>1 DEF SamePrinting
  <2>3. CASE state' = state
    <3>1. Active' = Active
      BY <2>3 DEF Active
    <3> QED
      BY <2>1, <2>2, <3>1, NoTurn
  <2>4. CASE state' # state
    <3>1. j \in Active /\ state[j] # "processing"
          /\ state' = [state EXCEPT ![j] = "canceled"]
      BY <1>4, <2>4 DEF CancelJob
    <3>2. Active' = Active \ {j}
      BY <1>a, <3>1 DEF Active, Shape
    <3>3. processing_job # j
      BY <3>1 DEF IInv, JobInv, JobKept
    <3>4. User # <<"job", j>> /\ User' = User
      BY <2>1, <2>2, <3>3, UserKept, Users DEF User
    <3>5. Turns!EndJob(j)
      BY <2>1, <3>1, <3>2, <3>4 DEF Turns!EndJob
    <3> QED
      BY <3>5 DEF Turns!Next
  <2> QED
    BY <2>3, <2>4
<1>5. ASSUME NEW c \in Cuts, AdmitCut(c) PROVE [Turns!Next]_(Turns!turns)
  <2>1. /\ cut[c] = "none"
        /\ waiters' = Append(waiters, [cut |-> c, job_id |-> next_job_id - 1])
        /\ UNCHANGED <<owner, state, thread, next_job_id, processing_job, printed>>
    BY <1>5 DEF AdmitCut
  <2>2. User' = User /\ Active' = Active
    BY <2>1, UserKept DEF SamePrinting, Active
  <2>3. \A i \in DOMAIN waiters : waiters[i].cut # c
    BY <2>1 DEF IInv, QueueInv, WaiterKept
  <2>4. Turns!JoinLine(c)
    BY <2>1, <2>2, <2>3 DEF Turns!JoinLine
  <2> QED
    BY <2>4 DEF Turns!Next
<1>6. CASE PausePrinter \/ ResumePrinter \/ Shutdown
  <2>1. UNCHANGED <<owner, state, next_job_id, processing_job, printed, waiters>>
    BY <1>6 DEF PausePrinter, ResumePrinter, Shutdown
  <2>2. SamePrinting
    <3>1. CASE ResumePrinter
      BY <1>a, <3>1, ScanPrints
    <3>2. CASE PausePrinter \/ Shutdown
      BY <3>2 DEF PausePrinter, Shutdown, SamePrinting
    <3> QED
      BY <1>6, <3>1, <3>2
  <2>3. Active' = Active
    BY <2>1 DEF Active
  <2> QED
    BY <2>1, <2>2, <2>3, NoTurn
<1> QED
  BY <1>1, <1>2, <1>3, <1>4, <1>5, <1>6 DEF ClientStep

(* The queue implements DeviceTurns: however threads, cancels, cuts and    *)
(* polls interleave, the device is taken in turns.                         *)
THEOREM TurnsTaken == Spec => TakesTurns
<1>1. Init => Turns!Init
  <2> SUFFICES ASSUME Init PROVE Turns!Init
    OBVIOUS
  <2>1. Printing = {} /\ Active = {} /\ next_job_id - 1 = 0
    BY DEF Init, Printing, Active
  <2>2. Turns!Free
    BY <2>1, FreeDevice DEF Init
  <2> QED
    BY <2>1, <2>2 DEF Init, Turns!Init
<1>2. IInv /\ [Next]_vars => [Regular => [Turns!Next]_(Turns!turns)]_vars
  <2> SUFFICES ASSUME IInv, Next, Regular PROVE [Turns!Next]_(Turns!turns)
    OBVIOUS
  <2> QED
    BY JobTurns, CutTurns, PollTurns, ClientTurns DEF Next
<1> QED
  BY <1>1, <1>2, IInvCorrect, PTL DEF Spec, TakesTurns
==============================================================================
