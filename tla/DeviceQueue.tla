---------------------------- MODULE DeviceQueue ----------------------------
(***************************************************************************)
(* Who may use the printer, and when: PAPPL's job scheduling as patched by *)
(* patches/pappl-1.4.11-printer-operations.patch, with the queued device   *)
(* acquisition of an explicit cut, idle status polls and the life of a job *)
(* around them.  What a job or a cut does with the device is PrintRun.     *)
(*                                                                         *)
(* Each action is one section under the printer's lock.  A job is its      *)
(* job-id.  A PNG job is dispatched by the scheduler on a thread of its    *)
(* own; a streaming raster job runs on its client's request thread.  A     *)
(* dispatched job is still pending while its thread waits in start_job, so *)
(* the scheduler may dispatch it again: a job can have several threads.    *)
(***************************************************************************)
EXTENDS Naturals, Sequences, SequencesExt

CONSTANTS
    MaxJobs,     \* bound: jobs accepted in a run
    Cuts,        \* the Ptouch-Cut requests, each made once
    MaxThreads,  \* bound: threads dispatched for one job
    Interrupts   \* FALSE: no job is canceled and the server stays up

ASSUME JobsAssumption == MaxJobs \in Nat
ASSUME CutsAssumption == Cuts \cap {"none", "poll"} = {}
ASSUME ThreadsAssumption == MaxThreads \in Nat \ {0} /\ Interrupts \in BOOLEAN

Jobs  == 1 .. MaxJobs
None  == 0               \* no job is processing
Slots == 1 .. MaxThreads

VARIABLES
    next_job_id, state, streaming, is_canceled,   \* the jobs
    thread,                  \* the threads in start_job .. finish_job
    processing_job, waiters, \* the printer: its job, queued acquisitions
    owner,                   \* device_in_use, and by whom
    device,                  \* printer->device is open
    printer_state, is_stopped, running,
    cut,                     \* the cut requests
    printed                  \* history: jobs that have reached the printer

jobs    == <<next_job_id, state, streaming, is_canceled>>
printer == <<printer_state, is_stopped, running>>
vars    == <<jobs, thread, processing_job, waiters, owner, device, printer,
             cut, printed>>

(* retired: off the active list while still pending, after a shutdown.     *)
Terminal == {"completed", "canceled", "retired"}
Active   == {j \in Jobs : state[j] \in {"held", "pending", "processing"}}

Waiters == [cut : Cuts, job_id : 0 .. MaxJobs]

ThreadSteps == {"none", "start", "open", "print", "finish", "close", "check"}

TypeOK ==
    /\ next_job_id \in 1 .. MaxJobs + 1
    /\ state \in [Jobs -> {"none", "held", "pending", "processing"} \cup Terminal]
    /\ streaming \in [Jobs -> BOOLEAN] /\ is_canceled \in [Jobs -> BOOLEAN]
    /\ thread \in [Jobs \X Slots -> ThreadSteps]
    /\ processing_job \in Jobs \cup {None}
    /\ waiters \in Seq(Waiters)
    /\ owner \in Cuts \cup {"none", "poll"} /\ device \in BOOLEAN
    /\ printer_state \in {"idle", "processing", "stopped"}
    /\ is_stopped \in BOOLEAN /\ running \in BOOLEAN
    /\ cut \in [Cuts -> {"none", "waiting", "owned", "ok", "busy"}]
    /\ printed \subseteq Jobs

Init ==
    /\ next_job_id = 1
    /\ state = [j \in Jobs |-> "none"]
    /\ streaming = [j \in Jobs |-> FALSE] /\ is_canceled = [j \in Jobs |-> FALSE]
    /\ thread = [t \in Jobs \X Slots |-> "none"]
    /\ processing_job = None /\ waiters = <<>> /\ owner = "none" /\ device = FALSE
    /\ printer_state = "idle" /\ is_stopped = FALSE /\ running = TRUE
    /\ cut = [c \in Cuts |-> "none"] /\ printed = {}

-----------------------------------------------------------------------------
(* The scheduler.                                                          *)

(* Deliberate bug: no job waits for a cut.                                 *)
CutBarrier_None(j, queued) == FALSE

(* _papplPrinterCutBarrierNoLock: the oldest waiting cut is before the job *)
CutBarrier(j, queued) == queued # <<>> /\ j > Head(queued).job_id

(* waiter_ready_no_lock: nothing accepted before the cut is still active.  *)
WaiterReady(waiter) == \A j \in Active : j > waiter.job_id

(* The scan passes the jobs held behind a cut.                             *)
Scanned(status, queued) ==
    {j \in Jobs : status[j] = "pending" /\ ~CutBarrier(j, queued)}

Newest(found) == {j \in found : \A k \in found : k <= j}

FreeSlot(j, s, threads) ==
    /\ threads[<<j, s>>] = "none"
    /\ \A r \in Slots : r < s => threads[<<j, r>>] # "none"

(* _papplPrinterCheckJobsNoLock over the given values: newest first, it    *)
(* dispatches the first job that is not behind a cut, and stops at a       *)
(* streaming one, which starts itself.                                     *)
CheckJobs(threads, status, queued, idle) ==
    [t \in Jobs \X Slots |->
        IF /\ idle
           /\ t[1] \in Newest(Scanned(status, queued)) /\ ~streaming[t[1]]
           /\ FreeSlot(t[1], t[2], threads)
        THEN "start" ELSE threads[t]]

Idle == owner = "none" /\ processing_job = None /\ printer_state # "stopped"

-----------------------------------------------------------------------------
(* Clients: jobs are accepted, released, streamed and canceled.            *)

(* Accepted with its job-id, its document still to come or the job held.   *)
AcceptJob ==
    /\ next_job_id <= MaxJobs /\ running
    /\ state' = [state EXCEPT ![next_job_id] = "held"]
    /\ next_job_id' = next_job_id + 1
    /\ UNCHANGED <<streaming, is_canceled, thread, processing_job, waiters,
                   owner, device, printer, cut, printed>>

ReleaseJob(j) ==
    /\ state[j] = "held" /\ running
    /\ state' = [state EXCEPT ![j] = "pending"]
    /\ thread' = CheckJobs(thread, state', waiters, Idle)
    /\ UNCHANGED <<next_job_id, streaming, is_canceled, processing_job, waiters,
                   owner, device, printer, cut, printed>>

StreamJob(j) ==
    /\ state[j] = "held" /\ running
    /\ state' = [state EXCEPT ![j] = "pending"]
    /\ streaming' = [streaming EXCEPT ![j] = TRUE]
    /\ thread' = [thread EXCEPT ![<<j, 1>>] = "start"]
    /\ UNCHANGED <<next_job_id, is_canceled, processing_job, waiters, owner,
                   device, printer, cut, printed>>

(* papplJobCancel: a job whose thread will complete it is only marked.     *)
CancelJob(j) ==
    /\ Interrupts /\ j \in Active /\ ~is_canceled[j]
    /\ IF state[j] = "processing" \/ (streaming[j] /\ state[j] = "pending")
       THEN is_canceled' = [is_canceled EXCEPT ![j] = TRUE] /\ UNCHANGED state
       ELSE state' = [state EXCEPT ![j] = "canceled"] /\ UNCHANGED is_canceled
    /\ UNCHANGED <<next_job_id, streaming, thread, processing_job, waiters,
                   owner, device, printer, cut, printed>>

-----------------------------------------------------------------------------
(* start_job and finish_job, on a thread <<j, s>> of job j.                *)

(* Deliberate bug: the wait is for cuts only, not for the job in progress. *)
MustWait_CutOnly(j) == CutBarrier(j, waiters)

MustWait(j) == processing_job # None \/ CutBarrier(j, waiters)

(* Deliberate bug: a thread does not see that its job has already ended.   *)
GivenUp_Canceled(j) == is_canceled[j] \/ ~running

GivenUp(j) == is_canceled[j] \/ state[j] \in Terminal \/ ~running

(* Canceled, ended or shut down while waiting: no ownership, no output.    *)
GiveUpStart(j, s) ==
    /\ thread[<<j, s>>] = "start" /\ GivenUp(j)
    /\ thread' = [thread EXCEPT ![<<j, s>>] = "finish"]
    /\ UNCHANGED <<jobs, processing_job, waiters, owner, device, printer, cut,
                   printed>>

StartJob(j, s) ==
    /\ thread[<<j, s>>] = "start" /\ ~GivenUp(j) /\ ~MustWait(j)
    /\ state' = [state EXCEPT ![j] = "processing"]
    /\ processing_job' = j
    /\ thread' = [thread EXCEPT ![<<j, s>>] = "open"]
    /\ UNCHANGED <<next_job_id, streaming, is_canceled, waiters, owner, device,
                   printer, cut, printed>>

(* A device left open by the preceding job is reused.                      *)
OpenDevice(j, s) ==
    /\ thread[<<j, s>>] = "open" /\ owner = "none" /\ ~is_canceled[j] /\ running
    /\ device' = TRUE
    /\ printer_state' = "processing"
    /\ printed' = printed \cup {j}
    /\ thread' = [thread EXCEPT ![<<j, s>>] = "print"]
    /\ UNCHANGED <<jobs, processing_job, waiters, owner, is_stopped, running,
                   cut>>

(* Retried every five seconds, the printer stopped meanwhile.              *)
OpenFails(j, s) ==
    /\ thread[<<j, s>>] = "open" /\ owner = "none" /\ ~device
    /\ printer_state # "stopped" /\ printer_state' = "stopped"
    /\ UNCHANGED <<jobs, thread, processing_job, waiters, owner, device,
                   is_stopped, running, cut, printed>>

(* The job ends, or is canceled or shut down before the device opened.     *)
EndProcessing(j, s) ==
    /\ thread[<<j, s>>] = "print" \/ (thread[<<j, s>>] = "open" /\ GivenUp(j))
    /\ thread' = [thread EXCEPT ![<<j, s>>] = "finish"]
    /\ UNCHANGED <<jobs, processing_job, waiters, owner, device, printer, cut,
                   printed>>

(* Deliberate bug: every completion resets the printer.                    *)
OwnedBy_Anyone(j) == TRUE

OwnedBy(j) == processing_job = j

FinalState(j) ==
    CASE is_canceled[j]          -> "canceled"
      [] ~is_canceled[j] /\ state[j] = "processing" -> "completed"
      [] ~is_canceled[j] /\ state[j] = "pending"    -> "retired"
      [] OTHER                   -> state[j]

FinishJob(j, s) ==
    /\ thread[<<j, s>>] = "finish"
    /\ state' = [state EXCEPT ![j] = FinalState(j)]
    /\ IF OwnedBy(j)
       THEN /\ processing_job' = None
            /\ printer_state' = IF is_stopped THEN "stopped" ELSE "idle"
            /\ is_stopped' = FALSE
            /\ thread' = [thread EXCEPT ![<<j, s>>] = "close"]
       ELSE /\ thread' = [thread EXCEPT ![<<j, s>>] = "check"]
            /\ UNCHANGED <<processing_job, printer_state, is_stopped>>
    /\ UNCHANGED <<next_job_id, streaming, is_canceled, waiters, owner, device,
                   running, cut, printed>>

(* Deliberate bug: the device is closed whoever has it by now.             *)
MayClose_Always == TRUE

MayClose == processing_job = None /\ owner = "none"

(* The lock was released in between: the last job may no longer be the     *)
(* last, and the device may be another's.                                  *)
CloseAfterJob(j, s) ==
    /\ thread[<<j, s>>] = "close"
    /\ device' = (device /\ ~(Active = {} /\ MayClose))
    /\ thread' = [thread EXCEPT ![<<j, s>>] = "check"]
    /\ UNCHANGED <<jobs, processing_job, waiters, owner, printer, cut, printed>>

(* Deliberate bug: only the completion of a job that had the printer       *)
(* resumes the scheduler.                                                  *)
CheckAfterJob_Printed(j, s) ==
    /\ thread[<<j, s>>] = "check"
    /\ thread' = CheckJobs([thread EXCEPT ![<<j, s>>] = "none"], state, waiters,
                           Idle /\ j \in printed)
    /\ UNCHANGED <<jobs, processing_job, waiters, owner, device, printer, cut,
                   printed>>

CheckAfterJob(j, s) ==
    /\ thread[<<j, s>>] = "check"
    /\ thread' = CheckJobs([thread EXCEPT ![<<j, s>>] = "none"], state, waiters, Idle)
    /\ UNCHANGED <<jobs, processing_job, waiters, owner, device, printer, cut,
                   printed>>

-----------------------------------------------------------------------------
(* Cuts: papplPrinterOpenDeviceQueued and papplPrinterCloseDevice.         *)

AdmitCut(c) ==
    /\ cut[c] = "none" /\ running
    /\ waiters' = Append(waiters, [cut |-> c, job_id |-> next_job_id - 1])
    /\ cut' = [cut EXCEPT ![c] = "waiting"]
    /\ UNCHANGED <<jobs, thread, processing_job, owner, device, printer,
                   printed>>

MayAcquire(c) ==
    /\ cut[c] = "waiting" /\ running
    /\ Head(waiters).cut = c /\ WaiterReady(Head(waiters))
    /\ owner = "none" /\ processing_job = None

(* The list without the cut's own waiter, wherever it is.                  *)
Place(c)   == CHOOSE i \in DOMAIN waiters : waiters[i].cut = c
Without(c) == RemoveAt(waiters, Place(c))

(* Its turn: a device a finished job left open is closed and reopened.     *)
AcquireCut(c) ==
    /\ MayAcquire(c)
    /\ device' = TRUE /\ owner' = c
    /\ waiters' = Without(c)
    /\ cut' = [cut EXCEPT ![c] = "owned"]
    /\ UNCHANGED <<jobs, thread, processing_job, printer, printed>>

(* Its turn, but the device does not open: later jobs may start.           *)
CutOpenFails(c) ==
    /\ MayAcquire(c)
    /\ device' = FALSE
    /\ waiters' = Without(c)
    /\ cut' = [cut EXCEPT ![c] = "busy"]
    /\ thread' = CheckJobs(thread, state, waiters', Idle)
    /\ UNCHANGED <<jobs, processing_job, owner, printer, printed>>

AbandonCut(c) ==
    /\ cut[c] = "waiting" /\ ~running
    /\ waiters' = Without(c)
    /\ cut' = [cut EXCEPT ![c] = "busy"]
    /\ UNCHANGED <<jobs, thread, processing_job, owner, device, printer,
                   printed>>

(* papplPrinterCloseDevice, for a cut or a poll.                           *)
CloseDevice ==
    /\ device' = FALSE /\ owner' = "none"
    /\ thread' = CheckJobs(thread, state, waiters,
                           processing_job = None /\ printer_state # "stopped")

FinishCut(c) ==
    /\ cut[c] = "owned"
    /\ CloseDevice
    /\ cut' = [cut EXCEPT ![c] = "ok"]
    /\ UNCHANGED <<jobs, processing_job, waiters, printer, printed>>

-----------------------------------------------------------------------------
(* Idle polls, pause and resume, shutdown.                                 *)

(* Deliberate bug: a poll may take the device a waiting cut is due.        *)
CutIsDue_Never == FALSE

CutIsDue == waiters # <<>> /\ WaiterReady(Head(waiters))

(* papplPrinterOpenDevice: a status read while the printer is idle.        *)
OpenForPoll ==
    /\ printer_state # "processing" /\ owner = "none" /\ processing_job = None
    /\ ~CutIsDue
    /\ owner' = "poll" /\ device' = TRUE
    /\ UNCHANGED <<jobs, thread, processing_job, waiters, printer, cut, printed>>

ClosePoll ==
    /\ owner = "poll"
    /\ CloseDevice
    /\ UNCHANGED <<jobs, processing_job, waiters, printer, cut, printed>>

PausePrinter ==
    /\ running /\ printer_state # "stopped"
    /\ IF processing_job # None
       THEN is_stopped' = TRUE /\ UNCHANGED printer_state
       ELSE printer_state' = "stopped" /\ UNCHANGED is_stopped
    /\ UNCHANGED <<jobs, thread, processing_job, waiters, owner, device, running,
                   cut, printed>>

ResumePrinter ==
    /\ running /\ (printer_state = "stopped" \/ is_stopped)
    /\ is_stopped' = FALSE
    /\ printer_state' = IF processing_job # None THEN "processing" ELSE "idle"
    /\ thread' = CheckJobs(thread, state, waiters,
                           owner = "none" /\ processing_job = None)
    /\ UNCHANGED <<jobs, processing_job, waiters, owner, device, running, cut,
                   printed>>

(* The system stops or the printer is deleted.                             *)
Shutdown ==
    /\ Interrupts /\ running /\ running' = FALSE
    /\ UNCHANGED <<jobs, thread, processing_job, waiters, owner, device,
                   printer_state, is_stopped, cut, printed>>

-----------------------------------------------------------------------------
ClientStep ==
    \/ AcceptJob
    \/ \E j \in Jobs : ReleaseJob(j) \/ StreamJob(j) \/ CancelJob(j)
    \/ \E c \in Cuts : AdmitCut(c)
    \/ PausePrinter \/ ResumePrinter \/ Shutdown

ThreadStep(j, s) ==
    \/ GiveUpStart(j, s) \/ StartJob(j, s)
    \/ OpenDevice(j, s) \/ OpenFails(j, s) \/ EndProcessing(j, s)
    \/ FinishJob(j, s) \/ CloseAfterJob(j, s) \/ CheckAfterJob(j, s)

CutStep(c) == AcquireCut(c) \/ CutOpenFails(c) \/ AbandonCut(c) \/ FinishCut(c)

Next ==
    \/ ClientStep
    \/ \E j \in Jobs, s \in Slots : ThreadStep(j, s)
    \/ \E c \in Cuts : CutStep(c)
    \/ OpenForPoll \/ ClosePoll

Spec == Init /\ [][Next]_vars

-----------------------------------------------------------------------------
(* Properties.                                                             *)

Printing == {t \in Jobs \X Slots : thread[t] = "print"}

(* The device has one user: a printing job, a cut or a poll.  What the     *)
(* patch promises; does not hold of a job dispatched twice, canceled or    *)
(* shut down while it prints, since its second thread then completes it    *)
(* as if it had the printer.                                               *)
Exclusive ==
    /\ \A t, u \in Printing : t = u
    /\ Printing # {} => owner = "none"

(* Outside that case: every job has one thread, or nothing was interrupted *)
Regular == MaxThreads = 1 \/ (running /\ \A j \in Jobs : ~is_canceled[j])

(* One user of the device, outside the case above.                         *)
OneUser == Regular => Exclusive

(* Whoever uses the device has it open: the cleanup of an earlier job,     *)
(* which releases the lock before it closes the device, never takes it.    *)
DeviceKept == Regular /\ (Printing # {} \/ owner # "none") => device

(* The completion of a job that never had the printer, canceled or already *)
(* ended, leaves processing_job and printer-state to the job that has it.  *)
OwnershipKept ==
    Regular => \A j \in Jobs, s \in Slots :
        /\ thread[<<j, s>>] \in {"open", "print"} => processing_job = j
        /\ thread[<<j, s>>] = "print" => printer_state # "idle"

(* A job dispatched more than once reaches the printer once.               *)
PrintedOnce ==
    [][\A j \in Jobs : processing_job' = j /\ processing_job # j
                          => j \notin printed]_vars

(* A cut gets the device after every job accepted before it has ended, and *)
(* before any job accepted after it has reached the printer.               *)
CutInOrder ==
    [][\A c \in Cuts : owner' = c /\ owner # c =>
         \A i \in DOMAIN waiters : waiters[i].cut = c =>
             /\ Active' \cap (1 .. waiters[i].job_id) = {}
             /\ printed' \subseteq 1 .. waiters[i].job_id]_vars

(* The user of the device, as the jobs, cuts and polls see it.             *)
User == CASE Printing # {}                       -> <<"job", processing_job>>
          [] Printing = {} /\ owner = "none"      -> <<>>
          [] Printing = {} /\ owner = "poll"      -> <<"poll">>
          [] OTHER                               -> <<"cut", owner>>

Turns == INSTANCE DeviceTurns
         WITH user <- User, accepted <- next_job_id - 1, active <- Active,
              begun <- printed, line <- waiters

(* However threads, cancels, cuts and polls interleave, the device is      *)
(* taken in turns: one user, each job once, cuts in their place among the  *)
(* jobs (start_job, papplPrinterOpenDeviceQueued and papplPrinterOpenDevice *)
(* together).  Outside the case above.                                     *)
TakesTurns ==
    Turns!Init /\ [][Regular => [Turns!Next]_(Turns!turns)]_vars

-----------------------------------------------------------------------------
(* Inductive strengthenings of the invariants above (DeviceQueueProofs).   *)

(* The types of everything but the queue of cuts.                          *)
Shape ==
    /\ next_job_id \in 1 .. MaxJobs + 1
    /\ state \in [Jobs -> {"none", "held", "pending", "processing"} \cup Terminal]
    /\ is_canceled \in [Jobs -> BOOLEAN]
    /\ thread \in [Jobs \X Slots -> ThreadSteps]
    /\ processing_job \in Jobs \cup {None}
    /\ owner \in Cuts \cup {"none", "poll"} /\ device \in BOOLEAN
    /\ running \in BOOLEAN
    /\ cut \in [Cuts -> {"none", "waiting", "owned", "ok", "busy"}]
    /\ printed \subseteq Jobs

(* A job has no thread before it is pending, and has had the printer for   *)
(* good once it printed.                                                   *)
JobKept(j) ==
    /\ j >= next_job_id => state[j] = "none"
    /\ state[j] = "processing" <=> processing_job = j
    /\ j \in printed => state[j] \in {"processing"} \cup Terminal
ThreadKept(j, s) ==
    /\ state[j] \in {"none", "held"} => thread[<<j, s>>] = "none"
    /\ thread[<<j, s>>] \in {"open", "print"}
          => state[j] \in {"processing"} \cup Terminal
    /\ thread[<<j, s>>] = "finish" => GivenUp(j) \/ processing_job = j
JobInv == \A j \in Jobs : JobKept(j) /\ \A s \in Slots : ThreadKept(j, s)

(* One thread acts for the job that has the printer.                       *)
Acts(j, s) == \/ thread[<<j, s>>] \in {"open", "print"}
              \/ thread[<<j, s>>] = "finish" /\ processing_job = j
ActInv ==
    Regular => \A j \in Jobs, s \in Slots : Acts(j, s) =>
        /\ processing_job = j
        /\ \A r \in Slots : Acts(j, r) => r = s

(* A job that has the printer and not yet the device has not had it before.*)
OpenInv ==
    Regular => \A j \in Jobs, s \in Slots :
        thread[<<j, s>>] = "open" => j \notin printed

(* What it uses is open and nobody else's.                                 *)
UseInv ==
    /\ \A c \in Cuts : cut[c] = "owned" => owner = c
    /\ Regular =>
        /\ owner # "none" => device
        /\ \A j \in Jobs, s \in Slots : thread[<<j, s>>] = "print" =>
              owner = "none" /\ device /\ printer_state # "idle"

(* The waiting cuts are queued in the order of the jobs before them, and   *)
(* nothing accepted after one of them has started.                         *)
WaiterKept(i) ==
    /\ cut[waiters[i].cut] = "waiting"
    /\ waiters[i].job_id < next_job_id
    /\ \A k \in DOMAIN waiters : i < k =>
          /\ waiters[i].cut # waiters[k].cut
          /\ waiters[i].job_id <= waiters[k].job_id
    /\ \A j \in Jobs : j \in printed => j <= waiters[i].job_id
    /\ \A j \in Jobs, s \in Slots :
          thread[<<j, s>>] = "open" => j <= waiters[i].job_id
QueueInv ==
    /\ waiters \in Seq(Waiters)
    /\ \A i \in DOMAIN waiters : WaiterKept(i)
    /\ \A c \in Cuts : cut[c] = "waiting" =>
          \E i \in DOMAIN waiters : waiters[i].cut = c

-----------------------------------------------------------------------------
(* Fairness: every thread runs; a printing job, a cut and a poll end, and  *)
(* a failed open need never succeed.  Clients and the owner owe nothing.   *)

FairSpec ==
    /\ Spec
    /\ \A j \in Jobs, s \in Slots :
           WF_vars(ThreadStep(j, s) /\ ~(OpenDevice(j, s) /\ printer_state = "stopped"))
    /\ \A c \in Cuts : WF_vars(CutStep(c))
    /\ WF_vars(ClosePoll)

Stopped == printer_state = "stopped"

(* A cut is answered, however often the printer is polled, unless a job    *)
(* accepted before it stays held or cannot reach a stopped printer.        *)
CutServed ==
    \A c \in Cuts : []<>
        \/ cut[c] # "waiting"
        \/ \E j \in Active : state[j] = "held" \/ Stopped

(* A released job starts, unless the printer stays stopped, the server     *)
(* shuts down, or a cut waits for a job that stays held.                   *)
PendingServed ==
    \A j \in Jobs : []<>
        \/ state[j] # "pending"
        \/ Stopped \/ ~running
        \/ waiters # <<>> /\ \E k \in Active : state[k] = "held"
=============================================================================
