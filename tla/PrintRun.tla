------------------------------ MODULE PrintRun ------------------------------
(***************************************************************************)
(* The print queue of one P-touch printer: src/src/driver.c's run state,   *)
(* batch state and callbacks, the explicit cut, and idle status polling.   *)
(*                                                                         *)
(* One thread at a time owns the device (a job, a cut or an idle poll) and *)
(* walks through the steps named by pc.  A second thread, the idle poll,   *)
(* also writes the queue's state without owning the device: before it      *)
(* opens it and after it has closed it.  The printer is external: its      *)
(* command buffer, the tape end it holds, the cassette and the link.       *)
(*                                                                         *)
(* Tape widths are model values, a label is its number in the job.  The    *)
(* flag media_confirmed is left out: nothing in src/ reads it.             *)
(***************************************************************************)
EXTENDS Naturals

CONSTANTS
    Tapes,       \* widths in the tape table (pt_tape_geometry succeeds)
    NoTape,      \* width zero: no cassette, or a batch not yet allocated
    MaxLabels,   \* bound: labels of one job
    Polling      \* FALSE: PTOUCH_IDLE_POLL_SECONDS = 0

Unreadable == {"error", "partial", "silent"}     \* no parsed status
Unusable   == {"fault", "unsupported"}           \* parsed, not printable
Readings   == Unreadable \cup Unusable \cup Tapes \cup {NoTape}

ASSUME TapesAssumption ==
    /\ Tapes # {} /\ NoTape \notin Tapes
    /\ (Unreadable \cup Unusable) \cap (Tapes \cup {NoTape}) = {}
ASSUME LabelsAssumption == MaxLabels \in Nat \ {0}
ASSUME PollingAssumption == Polling \in BOOLEAN

VARIABLES
    model,                       \* pt_state's model: fixed by the driver
    run, media_ready, reasons,   \* the queue: pt_printer_state and PAPPL's
    pc, job, batch,              \* the device owner, its job and pt_batch
    poll, live,                  \* the idle poll and the status it read
    buffer, held,                \* the printer: raster and tape end it holds
    tape, present, link,         \* its cassette, its presence, the open handle
    done,                        \* history: what the current job has done
    lost, upset, orphaned        \* history: see the properties

queue   == <<run, media_ready, reasons>>
poller  == <<poll, live>>
printer == <<buffer, held, tape, present, link>>
history == <<lost, upset, orphaned>>
vars    == <<model, queue, pc, job, batch, poller, printer, done, history>>

-----------------------------------------------------------------------------
(* The model, the policies (cutter.c), the PAPPL job and the driver's batch. *)

Models == {"PT-P710BT", "PT-2730"}
Extended == model = "PT-P710BT"    \* stages pages and cuts; a PT-2730 does not

Modes == {"NONE", "CHAIN", "EACH", "END"}
PolicyFor(mode) == [cut_between |-> mode \in {"CHAIN", "EACH"},
                    cut_at_end  |-> mode \in {"EACH", "END"}]

Autocut(policy, first_label) == first_label \/ policy.cut_between

(* aborted is PAPPL's job state; want, continuation and final are locals   *)
(* of the callback in progress.                                            *)
Policies == [cut_between : BOOLEAN, cut_at_end : BOOLEAN]
JobStates == [policy : Policies, canceled : BOOLEAN, aborted : BOOLEAN,
              want : Tapes \cup {NoTape}, continuation : BOOLEAN,
              final : BOOLEAN]
NewJob(policy) == [policy |-> policy, canceled |-> FALSE, aborted |-> FALSE,
                   want |-> NoTape, continuation |-> FALSE, final |-> FALSE]
NoJob == NewJob(PolicyFor("NONE"))

Batches == [tape_mm : Tapes \cup {NoTape}, first_label : BOOLEAN,
            page_active : BOOLEAN, pending : BOOLEAN, failed : BOOLEAN]
NewBatch(mm, first) == [tape_mm |-> mm, first_label |-> first,
                        page_active |-> FALSE, pending |-> FALSE,
                        failed |-> FALSE]
NoBatch == NewBatch(NoTape, FALSE)

(* labels: accepted by r_startpage; emitted: released; precuts: labels set *)
(* up with a cut before them; seen: tape last read by the job; wrote: it   *)
(* sent print bytes.                                                       *)
Records == [labels : 0 .. MaxLabels, emitted : Nat,
            precuts : SUBSET (0 .. MaxLabels), seen : Tapes \cup {NoTape},
            wrote : BOOLEAN]
Nothing == [labels |-> 0, emitted |-> 0, precuts |-> {}, seen |-> NoTape,
            wrote |-> FALSE]

Runs == {"CLOSED", "OPEN", "OPEN_BLANK", "UNCERTAIN"}
ChainOpen == run \in {"OPEN", "OPEN_BLANK"}                 \* pt_chain_get
RecoveryRequired == run = "UNCERTAIN"

JobSteps == {"filter", "startjob", "refresh", "alloc", "between", "wait",
             "chain", "claim", "setup", "rows", "endpage", "reladv",
             "relcmd", "relwait", "endjob", "finish"}
CutSteps == {"cutread", "cutget", "cutset", "cutwrite", "cutwait"}
Processing == pc \in JobSteps              \* printer-state is 'processing'

TypeOK ==
    /\ model \in Models
    /\ run \in Runs /\ media_ready \in Tapes
    /\ reasons \subseteq {"offline", "empty", "needed", "other"}
    /\ pc \in JobSteps \cup CutSteps \cup {"free", "poll"}
    /\ job \in JobStates /\ batch \in Batches /\ done \in Records
    /\ poll \in {"idle", "enum", "gone", "twins", "open", "unopened", "busy",
                 "read", "publish"}
    /\ live \in Readings
    /\ buffer \in {"empty", "rows", "page", "printing", "torn"}
    /\ held \in {"none", "user", "blank"} /\ tape \in Tapes \cup {NoTape}
    /\ present \in BOOLEAN /\ link \in BOOLEAN
    /\ lost \in BOOLEAN /\ upset \in BOOLEAN /\ orphaned \in BOOLEAN

Init ==
    /\ model \in Models
    /\ run = "CLOSED" /\ media_ready \in Tapes /\ reasons = {}
    /\ pc = "free" /\ job = NoJob /\ batch = NoBatch
    /\ poll = "idle" /\ live = "silent"
    /\ buffer = "empty" /\ held = "none" /\ tape \in Tapes \cup {NoTape}
    /\ present \in BOOLEAN /\ link = FALSE
    /\ done = Nothing
    /\ lost = FALSE /\ upset = ~present /\ orphaned = FALSE

-----------------------------------------------------------------------------
(* Live status and its publication.                                        *)

(* What one status exchange over the open handle can return.               *)
LiveReadings ==
    IF link THEN Unreadable \cup Unusable \cup {tape} ELSE {"error", "silent"}

ReasonsFor(r) ==
    CASE r \in Unreadable    -> {"offline"}
      [] r = "fault"         -> {"other"}
      [] r = NoTape          -> {"empty"}
      [] r = "unsupported"   -> {"needed", "other"}
      [] OTHER               -> {}

(* Deliberate bug: forgets that an uncertain run must stay uncertain.      *)
BreakChain_Forgets == run' = "CLOSED"

(* pt_chain_set(printer, false): an uncertain run is left alone.           *)
BreakChain == run' = IF run = "UNCERTAIN" THEN run ELSE "CLOSED"

(* Deliberate bug: an unanswered request ends the run too.                 *)
EndsRun_OnSilence(r) == r # media_ready

EndsRun(r) == r = NoTape \/ (r \in Tapes /\ r # media_ready)

(* Deliberate bug: publishes the width of an empty printer, zero.          *)
Publishable_Zero(r) == r \in Tapes \cup {NoTape}

Publishable(r) == r \in Tapes

PublishTape(r, more) ==
    /\ IF EndsRun(r) THEN BreakChain ELSE UNCHANGED run
    /\ media_ready' = IF Publishable(r) THEN r ELSE media_ready
    /\ reasons' = ReasonsFor(r) \cup more

Seen(r) == done' = IF r \in Tapes \cup {NoTape}
                   THEN [done EXCEPT !.seen = r] ELSE done

-----------------------------------------------------------------------------
(* A job: PAPPL's start_job, then r_startjob.                              *)

BeginJob ==
    /\ pc = "free" /\ present
    /\ pc' \in {"filter", "startjob"} /\ link' = TRUE
    /\ \E mode \in Modes : job' = NewJob(PolicyFor(mode))
    /\ UNCHANGED <<queue, batch, poller, buffer, held, tape, present, done,
                   history>>

Cancel ==
    /\ Processing /\ ~job.canceled
    /\ job' = [job EXCEPT !.canceled = TRUE]
    /\ UNCHANGED <<queue, pc, batch, poller, printer, done, history>>

(* Unsupported finishing, raster copies, a canceled job, recovery.         *)
RefuseJob ==
    /\ pc \in {"filter", "startjob"}
    /\ \/ UNCHANGED reasons
       \/ RecoveryRequired /\ reasons' = reasons \cup {"other"}
    /\ job' = [job EXCEPT !.aborted = TRUE]
    /\ pc' = "finish"
    /\ UNCHANGED <<run, media_ready, batch, poller, printer, done, history>>

AcceptJob ==
    /\ pc = "startjob" /\ ~job.canceled /\ ~RecoveryRequired
    /\ pc' = "refresh"
    /\ UNCHANGED <<queue, job, batch, poller, printer, done, history>>

(* pt_refresh_ready_media: one attempt of its bounded retry loop.  The PNG *)
(* filter calls it before r_startjob does.                                 *)
RefreshMedia(r) ==
    /\ pc \in {"filter", "refresh"} /\ ~RecoveryRequired /\ r \in LiveReadings
    /\ PublishTape(r, {}) /\ Seen(r)
    /\ \/ /\ r \in Tapes /\ UNCHANGED job
          /\ pc' = IF pc = "filter" THEN "startjob" ELSE "alloc"
       \/ r \notin Tapes /\ pc' = "finish" /\ job' = [job EXCEPT !.aborted = TRUE]
       \/ r = "silent" /\ ~job.canceled /\ UNCHANGED <<pc, job>>
    /\ UNCHANGED <<batch, poller, printer, history>>

AllocBatch ==
    /\ pc = "alloc"
    /\ batch' = NewBatch(media_ready, TRUE)
    /\ pc' = "between"
    /\ UNCHANGED <<queue, job, poller, printer, done, history>>

-----------------------------------------------------------------------------
(* r_startpage.                                                            *)

(* pt_fail_job; PAPPL aborts the job and calls r_endjob.                   *)
FailJob(failed) ==
    /\ batch' = [batch EXCEPT !.failed = @ \/ failed]
    /\ job' = [job EXCEPT !.aborted = TRUE]
    /\ pc' = "endjob"

(* Deliberate bug: the awaited width is not stored.                        *)
TakePage_StaleWidth(mm) ==
    /\ batch' = [batch EXCEPT !.page_active = Extended]
    /\ pc' = IF Extended THEN "rows"
             ELSE IF batch.pending THEN "relcmd" ELSE "chain"

(* The tape is right: stage the page, or release the label before it.      *)
TakePage(mm) ==
    /\ batch' = [batch EXCEPT !.tape_mm = mm, !.page_active = Extended]
    /\ pc' = IF Extended THEN "rows"
             ELSE IF batch.pending THEN "relcmd" ELSE "chain"

StartPage(t) ==
    /\ pc = "between" /\ done.labels < MaxLabels
    /\ ~batch.failed /\ ~batch.page_active /\ ~job.canceled
    /\ t = batch.tape_mm \/ batch.first_label
    /\ ~(RecoveryRequired /\ batch.first_label)
    /\ IF t = batch.tape_mm
       THEN TakePage(t) /\ UNCHANGED job
       ELSE pc' = "wait" /\ job' = [job EXCEPT !.want = t] /\ UNCHANGED batch
    /\ done' = [done EXCEPT !.labels = @ + 1]
    /\ UNCHANGED <<queue, poller, printer, history>>

(* Deliberate bug: every rejected page is treated as uncertain output.     *)
RejectPage_Claims ==
    /\ pc = "between" /\ done.labels < MaxLabels
    /\ FailJob(TRUE)
    /\ run' = "UNCERTAIN"
    /\ UNCHANGED <<media_ready, reasons, poller, printer, done, history>>

(* Bad geometry or margins, a later label on another tape, a cancel.       *)
RejectPage ==
    /\ pc = "between" /\ done.labels < MaxLabels
    /\ FailJob(TRUE)
    /\ UNCHANGED <<queue, poller, printer, done, history>>

(* Deliberate bug: compares with the width the wait started from.          *)
Awaited_Before(r) == r = batch.tape_mm

Awaited(r) == r = job.want

(* pt_wait_for_tape: one turn of its loop.                                 *)
WaitTape(r) ==
    /\ pc = "wait" /\ ~job.canceled /\ r \in LiveReadings \ {"error"}
    /\ PublishTape(r, IF Awaited(r) THEN {} ELSE {"needed"}) /\ Seen(r)
    /\ IF Awaited(r) THEN TakePage(r) ELSE UNCHANGED <<pc, batch>>
    /\ job' = IF Awaited(r) THEN [job EXCEPT !.want = NoTape] ELSE job
    /\ UNCHANGED <<poller, printer, history>>

(* A cancel, or a read that fails outright.                                *)
StopWaiting ==
    /\ pc = "wait"
    /\ reasons' = reasons \ {"needed"}
    /\ FailJob(TRUE)
    /\ UNCHANGED <<run, media_ready, poller, printer, done, history>>

-----------------------------------------------------------------------------
(* Page setup.  pt_dev_write confirms transfer, so a failed write may have *)
(* delivered any prefix of its bytes: the printer's buffer is torn.        *)

(* pt_chain_get and pt_run_set(UNCERTAIN): two critical sections.          *)
ReadChain ==
    /\ pc = "chain"
    /\ job' = [job EXCEPT !.continuation = ChainOpen]
    /\ pc' = "claim"
    /\ UNCHANGED <<queue, batch, poller, printer, done, history>>

(* Deliberate bug: only the first label of a job claims the run.           *)
ClaimRun_FirstOnly ==
    /\ pc = "claim"
    /\ run' = IF batch.first_label THEN "UNCERTAIN" ELSE run
    /\ pc' = "setup"
    /\ UNCHANGED <<media_ready, reasons, job, batch, poller, printer, done,
                   history>>

ClaimRun ==
    /\ pc = "claim"
    /\ run' = "UNCERTAIN"
    /\ pc' = "setup"
    /\ UNCHANGED <<media_ready, reasons, job, batch, poller, printer, done,
                   history>>

Fresh == batch.first_label /\ ~job.continuation      \* initialize the printer

(* Initialization, precut mode and, on a PT-P710BT, every staged row.      *)
(* Whatever an uninitialized buffer still held comes out with the page.    *)
SetupPage ==
    /\ pc = "setup" /\ link
    /\ buffer' = IF ~Fresh /\ buffer # "empty" THEN "torn"
                 ELSE IF Extended THEN "page" ELSE "rows"
    /\ held' = IF Fresh THEN "none" ELSE held
    /\ orphaned' = (orphaned /\ ~Fresh)
    /\ done' = [done EXCEPT !.wrote = TRUE, !.precuts =
                   IF Autocut(job.policy, batch.first_label)
                   THEN @ \cup {done.labels} ELSE @]
    /\ job' = [job EXCEPT !.continuation = FALSE]
    /\ batch' = [batch EXCEPT !.first_label = FALSE, !.page_active = ~Extended,
                              !.pending = Extended]
    /\ pc' = IF Extended THEN "between" ELSE "rows"
    /\ UNCHANGED <<queue, poller, tape, present, link, lost, upset>>

SetupFails ==
    /\ pc = "setup"
    /\ buffer' = "torn" /\ done' = [done EXCEPT !.wrote = TRUE]
    /\ FailJob(TRUE)
    /\ UNCHANGED <<queue, poller, held, tape, present, link, history>>

-----------------------------------------------------------------------------
(* pt_print_pending: FF holds the end, EJECT after "no chain" cuts it.     *)

Cutting == job.final /\ job.policy.cut_at_end

(* Deliberate bug: the result of the final release is ignored.             *)
ReleaseFails_Ignored ==
    IF job.final THEN batch' = NoBatch /\ pc' = "finish" /\ UNCHANGED job
    ELSE FailJob(TRUE)

(* A page callback fails the job; r_endjob just frees the batch.           *)
ReleaseFails ==
    IF job.final
    THEN /\ job' = [job EXCEPT !.aborted = TRUE] /\ batch' = NoBatch
         /\ pc' = "finish"
    ELSE FailJob(TRUE)

ReleaseAdvanced ==
    /\ pc = "reladv" /\ ~job.canceled /\ link
    /\ pc' = "relcmd"
    /\ UNCHANGED <<queue, job, batch, poller, printer, done, history>>

ReleaseLabel ==
    /\ pc = "relcmd" /\ ~job.canceled /\ link
    /\ buffer' = "printing"
    /\ done' = [done EXCEPT !.emitted = @ + 1]
    /\ pc' = "relwait"
    /\ UNCHANGED <<queue, job, batch, poller, held, tape, present, link,
                   history>>

(* A write fails, or a cancel is seen before it.                           *)
ReleaseInterrupted ==
    /\ pc \in {"reladv", "relcmd"}
    /\ buffer' = "torn" \/ (job.canceled /\ UNCHANGED buffer)
    /\ ReleaseFails
    /\ UNCHANGED <<queue, poller, held, tape, present, link, done, history>>

(* Deliberate bug: the run stays open after a final cut.                   *)
RunAfterRelease_Open == "OPEN"

RunAfterRelease == IF Cutting THEN "CLOSED" ELSE "OPEN"

(* pt_wait_ready saw receiving-ready: the page has left the buffer.        *)
LabelReady ==
    /\ pc = "relwait" /\ link
    /\ buffer' = "empty" /\ held' = IF Cutting THEN "none" ELSE "user"
    /\ upset' = (tape # media_ready)
    /\ run' = RunAfterRelease
    /\ batch' = IF job.final THEN NoBatch ELSE [batch EXCEPT !.pending = FALSE]
    /\ pc' = IF job.final THEN "finish" ELSE "chain"
    /\ UNCHANGED <<media_ready, reasons, job, poller, tape, present, link,
                   done, lost, orphaned>>

(* Deliberate bug: readiness is awaited without a deadline on a dead link. *)
LabelNotReady_NoDeadline ==
    /\ pc = "relwait" /\ link
    /\ ReleaseFails
    /\ UNCHANGED <<queue, poller, printer, done, history>>

(* Error bits, invalid status, a read error, 20 seconds, or a cancel.      *)
LabelNotReady ==
    /\ pc = "relwait"
    /\ ReleaseFails
    /\ UNCHANGED <<queue, poller, printer, done, history>>

-----------------------------------------------------------------------------
(* r_writeline over a page, r_endpage, the end of input, r_endjob.         *)

(* All rows of the page; a PT-P710BT only stages them.                     *)
WriteRows ==
    /\ pc = "rows" /\ ~job.canceled /\ ~batch.failed /\ batch.page_active
    /\ Extended \/ link
    /\ buffer' = IF ~Extended /\ buffer = "rows" THEN "page" ELSE buffer
    /\ pc' = "endpage"
    /\ UNCHANGED <<queue, job, batch, poller, held, tape, present, link, done,
                   history>>

(* A failed write, ink in an end margin, a short raster, a cancel.         *)
RowsFail ==
    /\ pc = "rows"
    /\ UNCHANGED buffer \/ (~Extended /\ buffer' = "torn")
    /\ \E failed \in BOOLEAN : FailJob(failed)
    /\ UNCHANGED <<queue, poller, held, tape, present, link, done, history>>

(* Deliberate bug: the staged page is sent without releasing the one before*)
EndPage_NoRelease ==
    /\ pc = "endpage" /\ ~batch.failed /\ batch.page_active /\ ~job.canceled
    /\ pc' = "chain"
    /\ UNCHANGED <<queue, job, batch, poller, printer, done, history>>

EndPage ==
    /\ pc = "endpage" /\ ~batch.failed /\ batch.page_active /\ ~job.canceled
    /\ IF Extended
       THEN /\ pc' = IF batch.pending THEN "relcmd" ELSE "chain"
            /\ UNCHANGED batch
       ELSE /\ pc' = "between"
            /\ batch' = [batch EXCEPT !.page_active = FALSE, !.pending = TRUE]
    /\ UNCHANGED <<queue, job, poller, printer, done, history>>

EndPageCanceled ==
    /\ pc = "endpage" /\ job.canceled
    /\ FailJob(TRUE)
    /\ UNCHANGED <<queue, poller, printer, done, history>>

(* Clean end of input after a label; a cancel or a malformed next header.  *)
EndInput ==
    /\ pc = "between"
    /\ \/ batch.pending /\ pc' = "endjob" /\ UNCHANGED <<job, batch>>
       \/ FailJob(FALSE)
    /\ UNCHANGED <<queue, poller, printer, done, history>>

EndsNormally == ~batch.failed /\ ~job.canceled /\ ~job.aborted

EndJob ==
    /\ pc = "endjob"
    /\ IF EndsNormally /\ ~batch.page_active /\ batch.pending
       THEN /\ job' = [job EXCEPT !.final = TRUE]
            /\ pc' = IF job.policy.cut_at_end THEN "reladv" ELSE "relcmd"
            /\ UNCHANGED batch
       ELSE pc' = "finish" /\ batch' = NoBatch /\ UNCHANGED job
    /\ UNCHANGED <<queue, poller, printer, done, history>>

FinishJob ==
    /\ pc = "finish"
    /\ pc' = "free" /\ job' = NoJob /\ done' = Nothing
    /\ lost' = (lost \/ run = "UNCERTAIN")
    /\ UNCHANGED <<queue, batch, poller, printer, upset, orphaned>>

-----------------------------------------------------------------------------
(* pt_cut, with the device acquired through papplPrinterOpenDeviceQueued.  *)

BeginCut ==
    /\ Extended /\ pc = "free" /\ present
    /\ pc' = IF run = "OPEN" THEN "cutread" ELSE "cutget"
    /\ link' = TRUE
    /\ UNCHANGED <<queue, job, batch, poller, buffer, held, tape, present,
                   done, history>>

EndCut == pc' = "free" /\ lost' = (lost \/ run' = "UNCERTAIN")

CutRead(r) ==
    /\ pc = "cutread" /\ r \in LiveReadings
    /\ PublishTape(r, {})
    /\ IF r \in Tapes THEN pc' = "cutget" /\ UNCHANGED lost ELSE EndCut
    /\ UNCHANGED <<job, batch, poller, printer, done, upset, orphaned>>

(* Deliberate bug: a blank tail is released again.                         *)
HoldsUserContent_Blank == ChainOpen

HoldsUserContent == run = "OPEN"

(* Refused when uncertain; nothing to do when closed or blank.             *)
CutRecheck ==
    /\ pc = "cutget"
    /\ reasons' = IF RecoveryRequired THEN reasons \cup {"other"} ELSE reasons
    /\ UNCHANGED <<run, media_ready>>
    /\ IF HoldsUserContent THEN pc' = "cutset" /\ UNCHANGED lost ELSE EndCut
    /\ UNCHANGED <<job, batch, poller, printer, done, upset, orphaned>>

CutClaim ==
    /\ pc = "cutset"
    /\ run' = "UNCERTAIN"
    /\ pc' = "cutwrite"
    /\ UNCHANGED <<media_ready, reasons, job, batch, poller, printer, done,
                   history>>

(* The blank continuation: one white row and FF.                           *)
CutWrite ==
    /\ pc = "cutwrite" /\ link
    /\ buffer' = "printing"
    /\ pc' = "cutwait"
    /\ UNCHANGED <<queue, job, batch, poller, held, tape, present, link, done,
                   history>>

CutReady ==
    /\ pc = "cutwait" /\ link
    /\ run' = "OPEN_BLANK"
    /\ buffer' = "empty" /\ held' = "blank" /\ upset' = (tape # media_ready)
    /\ EndCut
    /\ UNCHANGED <<media_ready, reasons, job, batch, poller, tape, present,
                   link, done, orphaned>>

(* Deliberate bug: a read error while awaiting readiness is retried.       *)
CutFails_RetriesForever ==
    /\ pc = "cutwrite"
    /\ buffer' = "torn"
    /\ UNCHANGED queue
    /\ EndCut
    /\ UNCHANGED <<job, batch, poller, held, tape, present, link, done, upset,
                   orphaned>>

CutFails ==
    /\ pc \in {"cutwrite", "cutwait"}
    /\ buffer' = "torn"
    /\ UNCHANGED queue
    /\ EndCut
    /\ UNCHANGED <<job, batch, poller, held, tape, present, link, done, upset,
                   orphaned>>

-----------------------------------------------------------------------------
(* status_cb, on a thread of its own.                                      *)

PollBegin ==
    /\ Polling /\ poll = "idle" /\ ~Processing
    /\ IF RecoveryRequired
       THEN reasons' = reasons \cup {"other"} /\ UNCHANGED poll
       ELSE poll' = "enum" /\ UNCHANGED reasons
    /\ UNCHANGED <<run, media_ready, pc, job, batch, live, printer, done,
                   history>>

(* USB counts matching devices; Bluetooth always goes on to connect.       *)
PollCount ==
    /\ poll = "enum"
    /\ poll' \in {"open", IF present THEN "twins" ELSE "gone"}
    /\ UNCHANGED <<queue, pc, job, batch, live, printer, done, history>>

PollAbsent ==
    /\ poll \in {"gone", "twins"}
    /\ IF poll = "gone" THEN BreakChain ELSE UNCHANGED run
    /\ reasons' = {"offline"}
    /\ poll' = "idle"
    /\ UNCHANGED <<media_ready, pc, job, batch, live, printer, done, history>>

PollOpen ==
    /\ poll = "open"
    /\ IF pc = "free" /\ present
       THEN pc' = "poll" /\ link' = TRUE /\ poll' = "read"
       ELSE /\ poll' = IF pc = "free" THEN "unopened" ELSE "busy"
            /\ UNCHANGED <<pc, link>>
    /\ UNCHANGED <<queue, job, batch, live, buffer, held, tape, present, done,
                   history>>

PollRefused ==
    /\ poll \in {"unopened", "busy"}
    /\ reasons' = IF Processing THEN reasons ELSE {"offline"}
    /\ poll' = "idle"
    /\ UNCHANGED <<run, media_ready, pc, job, batch, live, printer, done,
                   history>>

(* The device is closed as soon as the reply is read; publishing follows.  *)
PollRead(r) ==
    /\ poll = "read" /\ r \in LiveReadings
    /\ live' = r
    /\ poll' = "publish" /\ pc' = "free"
    /\ UNCHANGED <<queue, job, batch, printer, done, history>>

PollPublish ==
    /\ poll = "publish"
    /\ PublishTape(live, {})
    /\ poll' = "idle" /\ live' = "silent"
    /\ UNCHANGED <<pc, job, batch, printer, done, history>>

-----------------------------------------------------------------------------
(* The world: the cassette, the cable, the power and the server process.   *)

SwapTape ==
    /\ tape' \in (Tapes \cup {NoTape}) \ {tape}
    /\ upset' = TRUE
    /\ UNCHANGED <<queue, pc, job, batch, poller, buffer, held, present, link,
                   done, lost, orphaned>>

Disconnect ==
    /\ present
    /\ present' = FALSE /\ link' = FALSE /\ upset' = TRUE
    /\ UNCHANGED <<queue, pc, job, batch, poller, buffer, held, tape, done,
                   lost, orphaned>>

(* Back on the bus, with the power kept or cycled.                         *)
Reconnect ==
    /\ ~present
    /\ present' = TRUE
    /\ \/ UNCHANGED <<buffer, held, orphaned>>
       \/ buffer' = "empty" /\ held' = "none" /\ orphaned' = FALSE
    /\ UNCHANGED <<queue, pc, job, batch, poller, tape, link, done, lost,
                   upset>>

(* The process stops at any point and starts again: run state is not kept, *)
(* and an unfinished job comes back as aborted history.                    *)
Restart ==
    /\ run' = "CLOSED" /\ media_ready' \in Tapes /\ reasons' = {}
    /\ pc' = "free" /\ job' = NoJob /\ batch' = NoBatch /\ done' = Nothing
    /\ poll' = "idle" /\ live' = "silent"
    /\ link' = FALSE
    /\ lost' = FALSE /\ upset' = TRUE
    /\ orphaned' = (orphaned \/ buffer # "empty")
    /\ UNCHANGED <<buffer, held, tape, present>>

-----------------------------------------------------------------------------
JobStep ==
    \/ RefuseJob \/ AcceptJob \/ AllocBatch
    \/ \E r \in Readings : RefreshMedia(r) \/ WaitTape(r)
    \/ \E t \in Tapes : StartPage(t)
    \/ RejectPage \/ StopWaiting \/ ReadChain \/ ClaimRun
    \/ SetupPage \/ SetupFails
    \/ ReleaseAdvanced \/ ReleaseLabel \/ ReleaseInterrupted
    \/ LabelReady \/ LabelNotReady
    \/ WriteRows \/ RowsFail \/ EndPage \/ EndPageCanceled
    \/ EndInput \/ EndJob \/ FinishJob

CutStep ==
    \/ \E r \in Readings : CutRead(r)
    \/ CutRecheck \/ CutClaim \/ CutWrite \/ CutReady \/ CutFails

PollStep ==
    \/ PollBegin \/ PollCount \/ PollAbsent \/ PollOpen \/ PollRefused
    \/ \E r \in Readings : PollRead(r)
    \/ PollPublish

World == SwapTape \/ Disconnect \/ Reconnect \/ Restart

Next ==
    /\ \/ BeginJob \/ Cancel \/ JobStep \/ BeginCut \/ CutStep \/ PollStep
       \/ World
    /\ UNCHANGED model

Spec == Init /\ [][Next]_vars

-----------------------------------------------------------------------------
(* Properties.                                                             *)

(* Steps from which the owner's next action may send print bytes.          *)
OutputSteps == {"setup", "rows", "reladv", "relcmd", "relwait",
                "cutwrite", "cutwait"}

(* Once an operation has ended with its output unconfirmed (lost), nothing *)
(* is printed, fed or cut until the server restarts: r_startjob and pt_cut *)
(* refuse, and no other thread lifts the refusal.                          *)
NoOutputAfterLoss == lost => pc \notin OutputSteps

(* A clean status reply, a new cassette, an unplugged or reopened device   *)
(* never clears the uncertain state (pt_chain_set, status_cb).             *)
LossLatched == lost => run = "UNCERTAIN"

(* While the queue calls a run healthy the printer holds no raster that    *)
(* was never released: whoever sends page setup claims the run first, and  *)
(* only a confirmed release gives it back.  orphaned: the server restarted *)
(* over a buffer it knew to be dirty, without the power cycle it asks for. *)
HealthyMeansEmpty == run # "UNCERTAIN" /\ ~orphaned => buffer = "empty"

(* FF or EJECT is about to act on one complete label, and the blank        *)
(* continuation on an empty buffer: no label is released twice, and no     *)
(* partial label is released.                                              *)
ReleasesWholeLabels ==
    link => /\ pc = "relcmd" => buffer = "page"
            /\ pc = "cutwrite" => buffer = "empty"

(* The queue's idea of what is at the cutter is right unless a swap, a     *)
(* disconnection or a restart came since the last release confirmed on the *)
(* published tape (upset): OPEN holds user content, OPEN_BLANK the tail.   *)
HeldMatchesRun ==
    ~upset => /\ run = "OPEN" => held = "user"
              /\ run = "OPEN_BLANK" => held = "blank"

(* The blank continuation feeds tape only when there is user content to    *)
(* release, however cuts, jobs and polls interleave (pt_cut rechecks).     *)
CutOnlyHeldContent == pc = "cutwrite" => held = "user" \/ upset

(* Healthy held content is never forgotten: a CLOSED run that nothing      *)
(* disturbed has nothing at the cutter, so no later job discards a leader  *)
(* over it and no cut request passes it by.  Holds with polling disabled.  *)
HeldNotForgotten == ~upset /\ run = "CLOSED" => held = "none"

(* A job that sent no output never turns the run uncertain, however it     *)
(* ended: rejection, cancel, tape wait, read error.                        *)
RejectedKeepsRun == pc = "finish" /\ ~done.wrote /\ ~lost => run # "UNCERTAIN"

(* A page is set up only for the tape the job itself read last.            *)
PageOnConfirmedTape ==
    pc \in {"chain", "claim", "setup", "endpage"} => batch.tape_mm = done.seen

(* A poll that finds the device owned by a job or a cut does not call the  *)
(* printer offline.  The code only looks at printer-state, which a cut     *)
(* never sets and a job may have left again: does not hold.                *)
BusyIsNotOffline ==
    [][poll = "busy" /\ poll' # "busy" /\ "offline" \in reasons'
         => "offline" \in reasons]_vars

(* The queue of labels that clients see.  A label counts once its release  *)
(* is commanded, with the cut set up before it; a cancel fails the job.    *)
Tail == CASE run = "CLOSED"     -> "none"
          [] run = "OPEN"       -> "user"
          [] run = "OPEN_BLANK" -> "blank"
          [] OTHER              -> "unknown"

Failed   == job.aborted \/ job.canceled
Cuts     == done.precuts \cap 1 .. done.emitted
Feeding  == pc \in {"cutset", "cutwrite", "cutwait"}
Underway == pc \in {"relwait", "cutwait"}

Labels == INSTANCE LabelRun
          WITH tail <- Tail, stopped <- lost,
               active <- Processing, failed <- Failed, policy <- job.policy,
               accepted <- done.labels, released <- done.emitted,
               cuts <- Cuts, feeding <- Feeding, underway <- Underway

(* However callbacks, cuts, polls and failures interleave, labels come out *)
(* once, in order and cut as asked, no failed job releases any, an end is  *)
(* known only from a confirmed release, and doubt stops the queue.         *)
Implements == Labels!Spec

-----------------------------------------------------------------------------
(* Inductive strengthenings of the invariants above (PrintRunProofs).      *)

(* The poll thread is reading exactly while the poll owns the device.      *)
OwnerInv == poll = "read" <=> pc = "poll"

(* After a loss the owner is never past the recovery checks.               *)
LossInv ==
    lost => /\ run = "UNCERTAIN"
            /\ pc \in {"free", "poll", "filter", "startjob", "finish", "cutget"}

(* Whoever made the run uncertain is still at work, or has been recorded.  *)
ClaimInv ==
    run = "UNCERTAIN" /\ ~lost =>
        \/ pc \in {"setup", "cutwrite", "cutwait"}
        \/ Processing /\ done.wrote

(* Which run states the steps and batch flags allow.                       *)
UncertainInv ==
    /\ pc \in {"setup", "reladv", "relcmd", "relwait", "cutwrite", "cutwait"}
          => run = "UNCERTAIN"
    /\ ~Extended /\ pc \in {"rows", "endpage"} => run = "UNCERTAIN"
    /\ batch.pending => run = "UNCERTAIN"

(* A pending label belongs to a job between its pages or releasing it.     *)
PendingInv ==
    /\ batch.pending => ~batch.first_label /\ Processing
    /\ pc \in {"filter", "startjob", "refresh", "alloc", "finish", "chain",
               "claim", "setup"} => ~batch.pending
    /\ pc \in {"reladv", "relcmd", "relwait"} => batch.pending
    /\ pc \in {"between", "wait"} => batch.first_label \/ batch.pending
    /\ Extended /\ pc \in {"rows", "endpage"}
          => batch.first_label \/ batch.pending
    /\ ~Extended /\ pc \in {"rows", "endpage"}
          => ~batch.first_label /\ ~batch.pending
    /\ Processing /\ pc \notin {"filter", "startjob", "refresh", "alloc",
                               "endjob", "finish"} => ~batch.failed

(* What they say of the printer's buffer, while the link that filled it is *)
(* up where the buffer is to hold raster.                                  *)
BufferInv ==
    /\ HealthyMeansEmpty
    /\ ChainOpen => buffer = "empty"
    /\ pc \in {"cutset", "cutwrite"} => buffer = "empty"
    /\ pc \in {"chain", "claim", "setup"} /\ ~batch.first_label
          => buffer = "empty"
    /\ pc \in {"claim", "setup"} /\ job.continuation => buffer = "empty"
    /\ link /\ batch.pending /\ ~batch.failed /\ pc # "relwait"
          => buffer = "page"
    /\ link /\ ~Extended /\ pc = "rows" => buffer = "rows"
    /\ link /\ ~Extended /\ pc = "endpage" => buffer = "page"

(* What the run state and the step say of the tape end at the cutter.      *)
HeldInv ==
    /\ HeldMatchesRun
    /\ pc \in {"cutset", "cutwrite"} => held = "user" \/ upset
    /\ ~present => upset /\ ~link
    /\ pc = "setup" => run = "UNCERTAIN"

CoreInv == OwnerInv /\ LossInv /\ ClaimInv /\ UncertainInv /\ PendingInv
           /\ BufferInv /\ HeldInv

(* A job that is not being given up has not failed; final is its last      *)
(* release; a thread without a job has left nothing of one behind.         *)
JobInv ==
    /\ ~Processing => job = NoJob /\ done = Nothing
    /\ job.aborted => pc \in {"endjob", "finish"}
    /\ job.final => pc \in {"reladv", "relcmd", "relwait", "finish"}
    /\ pc = "reladv" => job.final
    /\ pc = "between" => ~batch.page_active
    /\ pc = "wait" => batch.first_label
    /\ pc = "endjob" /\ ~job.aborted => batch.pending /\ ~batch.failed
                                        /\ ~batch.page_active

(* How many labels the job has accepted beyond those it has released.      *)
CountInv ==
    /\ pc \in {"filter", "startjob", "refresh", "alloc"}
          => done.labels = 0 /\ done.emitted = 0
    /\ pc = "between" => done.labels = done.emitted + (IF batch.pending THEN 1 ELSE 0)
    /\ pc \in {"wait", "chain", "claim", "setup"} => done.labels = done.emitted + 1
    /\ pc \in {"rows", "endpage"}
          => done.labels = done.emitted + (IF batch.pending THEN 2 ELSE 1)
    /\ pc \in {"reladv", "relcmd"}
          => done.labels = done.emitted + (IF job.final THEN 1 ELSE 2)
    /\ pc = "relwait" => done.labels = done.emitted + (IF job.final THEN 0 ELSE 1)
    /\ pc = "endjob" /\ ~job.aborted => done.labels = done.emitted + 1
    /\ pc = "finish" /\ ~job.aborted /\ ~job.canceled
          => done.labels = done.emitted /\ run # "UNCERTAIN"

(* The first label is the one before which nothing was released, and the   *)
(* label that is set up and not released is cut off as the policy says.    *)
SetUp == \/ batch.pending /\ ~job.aborted /\ pc # "relwait"
         \/ ~Extended /\ pc \in {"rows", "endpage"}
FirstInv ==
    /\ batch.first_label /\ pc \in {"between", "wait", "rows", "endpage",
                                    "chain", "claim", "setup"}
          => done.emitted = 0 /\ done.precuts = {}
    /\ ~batch.first_label /\ pc \in {"chain", "claim", "setup"}
          => done.emitted > 0
    /\ pc = "relwait" => done.emitted > 0
    /\ pc = "finish" /\ ~job.aborted /\ ~job.canceled => done.emitted > 0
CutInv ==
    /\ pc \in {"filter", "startjob", "refresh", "alloc"} => done.precuts = {}
    /\ done.precuts \subseteq 1 .. done.emitted + 1
    /\ pc \in {"chain", "claim", "setup", "relwait"}
          => done.emitted + 1 \notin done.precuts
    /\ SetUp => (done.emitted + 1 \in done.precuts
                    <=> done.emitted = 0 \/ job.policy.cut_between)

LabelInv == JobInv /\ CountInv /\ FirstInv /\ CutInv

IInv == CoreInv /\ LabelInv

(* With polling disabled no poll is ever under way, ...                    *)
QuietInv == poll = "idle" /\ pc # "poll"

(* ... the published tape of an undisturbed open run is the loaded one, so *)
(* that no reading ends the run, ...                                       *)
ForgetInv ==
    /\ HeldNotForgotten
    /\ ~upset /\ ChainOpen => tape = media_ready

(* ... and what the job reads is still published when it binds the batch.  *)
ConfirmInv ==
    /\ pc = "alloc" => media_ready = done.seen
    /\ pc = "wait" => job.want \in Tapes
    /\ pc \in {"between", "rows", "endpage", "chain", "claim", "setup",
               "reladv", "relcmd", "relwait"} => batch.tape_mm = done.seen
    /\ pc = "endjob" /\ ~job.aborted => batch.tape_mm = done.seen

NoPollInv == QuietInv /\ ForgetInv /\ ConfirmInv

-----------------------------------------------------------------------------
(* Fairness: the owner's thread keeps running (every wait in it has a      *)
(* deadline), and a printer that can answer a tape wait does.  Clients and *)
(* the world owe nothing, but input a client has begun ends or fails.      *)

OwnerStep == (JobStep \/ CutStep) /\ UNCHANGED model
WantedTapeRead == WaitTape(job.want) /\ UNCHANGED model

FairSpec ==
    /\ Spec
    /\ WF_vars(OwnerStep)
    /\ WF_vars(WantedTapeRead)

(* A canceled job ends, also while it waits for tape or for readiness.     *)
CancelEnds == Processing /\ job.canceled ~> ~Processing

(* An admitted cut is answered.                                            *)
CutAnswered == pc \in CutSteps ~> pc \notin CutSteps

(* A tape wait ends once the wanted tape is loaded and readable for good.  *)
WaitEnds ==
    <>[](pc = "wait" => tape = job.want /\ link) => []<>(pc # "wait")
=============================================================================
