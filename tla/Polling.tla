------------------------------ MODULE Polling -------------------------------
(***************************************************************************)
(* Idle status polling and the transports it opens: status_cb,             *)
(* pt_idle_poll_due and pt_publish_tape of src/src/driver.c statement by   *)
(* statement, with the open and close ladders of device_usb.c and          *)
(* device_bt.c.                                                            *)
(*                                                                         *)
(* Each thread answers a status query or runs a job; a job confirms the    *)
(* tape, prints and holds its end (its steps are PrintRun's).  PAPPL keeps *)
(* the device to one owner.  Libusb, the kernel, the bus, the printer and  *)
(* the clock are external; while faulty, any call to them may fail, those  *)
(* whose result the code ignores included.                                 *)
(***************************************************************************)
EXTENDS Integers

CONSTANTS
    Threads,     \* server threads: each answers status queries
    JobThread,   \* the one of them that also runs jobs
    Nobody,      \* no thread
    Widths,      \* supported tape widths
    NoTape,      \* no cassette
    Settings,    \* transports with PTOUCH_IDLE_POLL_SECONDS (-1: absent)
    LongAgo      \* bound: ticks after which a poll is due whatever is set

ASSUME ThreadsAssumption == JobThread \in Threads /\ Nobody \notin Threads
ASSUME WidthsAssumption == NoTape \notin Widths
ASSUME SettingsAssumption ==
    /\ Settings \subseteq {"usb", "bt"} \X (Nat \cup {-1})
    /\ LongAgo \in Nat /\ \A s \in Settings : s[2] <= LongAgo

VARIABLES
    transport, seconds,                  \* configuration
    run, media_ready, reasons,           \* the queue
    since,                               \* ticks since last_idle_poll, if any
    pc, live, old,                       \* each thread, its reading, its copy
    owner, processing, conn,             \* the device, and what is open of it
    devices, kernel, tape, faulty,       \* the world
    age, opened                          \* history: see the properties

config  == <<transport, seconds>>
queue   == <<run, media_ready, reasons>>
locals  == <<live, old>>
device  == <<owner, processing, conn>>
world   == <<devices, kernel, tape, faulty>>
history == <<age, opened>>
vars == <<config, queue, since, pc, locals, device, world, history>>

(* fault: an error bit, or a width outside the table.                      *)
Readings == {"silent", "fault", NoTape} \cup Widths
LadderSteps == {"find", "open", "detach", "claim", "connect", "alloc"}
Steps == {"idle", "count", "gone", "unclear", "forget", "try", "refused",
          "read", "copy", "media", "compare", "drop", "reasons",
          "print", "end"} \cup LadderSteps
(* Interface 0 has its kernel driver, has been taken from it, or stays     *)
(* without: the kernel refused to attach it again.                         *)
Drivers == {"bound", "detached", "refused"}
Resources == {"context", "handle", "detached", "claimed", "stale", "socket"}

TypeOK ==
    /\ <<transport, seconds>> \in Settings
    /\ run \in {"CLOSED", "OPEN"} /\ media_ready \in Widths
    /\ reasons \subseteq {"offline", "empty", "other"}
    /\ since \in 0 .. LongAgo /\ pc \in [Threads -> Steps]
    /\ live \in [Threads -> Readings] /\ old \in [Threads -> Widths \cup {NoTape}]
    /\ owner \in Threads \cup {Nobody} /\ processing \in BOOLEAN
    /\ conn \subseteq Resources
    /\ devices \in 0 .. 2 /\ kernel \in Drivers
    /\ tape \in Widths \cup {NoTape} /\ faulty \in BOOLEAN
    /\ age \in 0 .. LongAgo /\ opened \in Widths \cup {NoTape}

Init ==
    /\ \E s \in Settings : transport = s[1] /\ seconds = s[2]
    /\ devices \in 0 .. 1 /\ kernel = "bound" /\ tape \in Widths
    /\ faulty = FALSE
    /\ run = "CLOSED" /\ media_ready \in Widths
    /\ reasons = IF transport = "usb" /\ devices # 1 THEN {"offline"} ELSE {}
    /\ since = LongAgo /\ pc = [t \in Threads |-> "idle"]
    /\ live = [t \in Threads |-> "silent"]
    /\ old = [t \in Threads |-> NoTape]
    /\ owner = Nobody /\ processing = FALSE /\ conn = {}
    /\ age = LongAgo /\ opened = NoTape

Goto(t, step) == pc' = [pc EXCEPT ![t] = step]
BreakChain == run' = "CLOSED" /\ opened' = NoTape
KeepRun == UNCHANGED <<run, opened>>

-----------------------------------------------------------------------------
(* status_cb up to its open.                                               *)

Due == seconds < 0 \/ (seconds > 0 /\ since >= seconds)

(* Deliberate bug: a poll takes the slot but leaves its time as it was.    *)
Stamped_Never == since

Stamped == 0                                           \* last_idle_poll: now

(* A query: nothing is due while a job prints, or before the next slot.    *)
Query(t) ==
    /\ pc[t] = "idle" /\ ~processing
    /\ Due /\ since' = Stamped /\ age' = 0
    /\ Goto(t, IF transport = "usb" THEN "count" ELSE "try")
    /\ UNCHANGED <<config, queue, locals, device, world, opened>>

(* pt_usb_count, in a context of its own; unclear: twins, or libusb fails. *)
CountDevices(t) ==
    /\ pc[t] = "count"
    /\ \/ devices = 1 /\ Goto(t, "try")
       \/ devices = 0 /\ Goto(t, "gone")
       \/ (devices > 1 \/ faulty) /\ Goto(t, "unclear")
    /\ UNCHANGED <<config, queue, since, locals, device, world, history>>

ReportAbsent(t) ==
    /\ pc[t] \in {"gone", "unclear"}
    /\ reasons' = {"offline"}
    /\ Goto(t, IF pc[t] = "gone" THEN "forget" ELSE "idle")
    /\ UNCHANGED <<config, run, media_ready, since, locals, device, world,
                   history>>

ForgetRun(t) ==
    /\ pc[t] = "forget" /\ BreakChain /\ Goto(t, "idle")
    /\ UNCHANGED <<config, media_ready, reasons, since, locals, device, world,
                   age>>

-----------------------------------------------------------------------------
(* The device: papplPrinterOpenDevice under PAPPL's lock, start_job, and   *)
(* the transports' open and close.                                         *)

OwnedByJob(t) == processing /\ owner = t
FirstRung == IF transport = "usb" THEN "find" ELSE "connect"

OpenForPoll(t) ==
    /\ pc[t] = "try"
    /\ IF owner = Nobody THEN owner' = t /\ Goto(t, FirstRung)
       ELSE Goto(t, "refused") /\ UNCHANGED owner
    /\ UNCHANGED <<config, queue, since, locals, processing, conn, world,
                   history>>

OpenForJob(t) ==
    /\ t = JobThread /\ pc[t] = "idle" /\ owner = Nobody
    /\ owner' = t /\ processing' = TRUE /\ Goto(t, FirstRung)
    /\ UNCHANGED <<config, queue, since, locals, conn, world, history>>

Stale == "stale" \in conn               \* the device behind the handle is gone

(* libusb_attach_kernel_driver, its result ignored: while faulty it may    *)
(* fail, and the next open finds no driver to detach.                      *)
Reattached ==
    IF "detached" \notin conn \/ Stale THEN {kernel}
    ELSE {"bound"} \cup (IF faulty THEN {"refused"} ELSE {})

(* pt_usb_close, pt_bt_close and every early return of the two opens.      *)
Release == conn' = {} /\ kernel' \in Reattached /\ owner' = Nobody

AfterFailure(t) == IF OwnedByJob(t) THEN "idle" ELSE "refused"

(* Deliberate bug: a refused claim is unwound without the driver.          *)
OpenFails_KeepsDetached(t) ==
    /\ conn' = {} /\ owner' = Nobody /\ processing' = FALSE
    /\ kernel' \in IF pc[t] = "claim" THEN {kernel} ELSE Reattached
    /\ Goto(t, AfterFailure(t))

OpenFails(t) == Release /\ processing' = FALSE /\ Goto(t, AfterFailure(t))

Acquire(t, resources, step) ==
    /\ conn' = conn \cup resources /\ Goto(t, step)
    /\ UNCHANGED <<owner, processing>>

(* A fresh context each time: it sees what is on the bus now.              *)
UsbFind(t)    == pc[t] = "find" /\ devices = 1
                 /\ Acquire(t, {"context"}, "open") /\ UNCHANGED kernel
UsbOpen(t)    == pc[t] = "open" /\ devices > 0
                 /\ Acquire(t, {"handle"}, "detach") /\ UNCHANGED kernel
BtConnect(t)  == pc[t] = "connect" /\ devices > 0
                 /\ Acquire(t, {"socket"}, "alloc") /\ UNCHANGED kernel
Allocate(t)   == pc[t] = "alloc" /\ Acquire(t, {}, "read") /\ UNCHANGED kernel

(* Nothing to detach, or a failing call, leads to the claim all the same.  *)
UsbDetach(t) ==
    /\ pc[t] = "detach"
    /\ \/ /\ kernel = "bound" /\ ~Stale /\ kernel' = "detached"
          /\ Acquire(t, {"detached"}, "claim")
       \/ /\ kernel # "bound" \/ faulty \/ Stale
          /\ Acquire(t, {}, "claim") /\ UNCHANGED kernel

(* The interface is free for a claim only without its kernel driver.       *)
UsbClaim(t) ==
    /\ pc[t] = "claim" /\ ~Stale /\ kernel # "bound"
    /\ Acquire(t, {"claimed"}, "alloc") /\ UNCHANGED kernel

(* Where a call can fail without a fault: the device went, is not ours, or *)
(* has its driver still, whose detaching failed.                           *)
LosesDevice(t) ==
    \/ pc[t] = "find" /\ devices # 1
    \/ pc[t] = "open" /\ devices = 0
    \/ pc[t] = "connect" /\ devices = 0
    \/ pc[t] = "claim" /\ (Stale \/ kernel = "bound")

Ladder(t) ==
    /\ \/ UsbFind(t) \/ UsbOpen(t) \/ UsbDetach(t) \/ UsbClaim(t)
       \/ BtConnect(t) \/ Allocate(t)
       \/ pc[t] \in LadderSteps \ {"detach"} /\ (faulty \/ LosesDevice(t))
          /\ OpenFails(t)
    /\ UNCHANGED <<config, queue, since, locals, devices, tape, faulty,
                   history>>

(* The device was refused: PAPPL is asked for printer-state once more.     *)
Refused(t) ==
    /\ pc[t] = "refused" /\ Goto(t, "idle")
    /\ reasons' = IF processing THEN reasons ELSE {"offline"}
    /\ UNCHANGED <<config, run, media_ready, since, locals, device, world,
                   history>>

-----------------------------------------------------------------------------
(* pt_read_live_tape and pt_publish_tape, by a poll or a job.  A poll      *)
(* closes the device in between, a job keeps it.                           *)

LiveReadings ==
    (IF Stale THEN {} ELSE {tape})
    \cup (IF faulty \/ Stale THEN {"silent"} ELSE {})
    \cup (IF faulty THEN {"fault"} ELSE {})

FirstStep(r) == CASE r \in Widths -> "copy"
                  [] r = NoTape   -> "drop"
                  [] OTHER        -> "reasons"

ReadTape(t) ==
    /\ pc[t] = "read"
    /\ \E r \in LiveReadings :
         live' = [live EXCEPT ![t] = r] /\ Goto(t, FirstStep(r))
    /\ IF OwnedByJob(t) THEN UNCHANGED <<owner, conn, kernel>> ELSE Release
    /\ UNCHANGED <<config, queue, since, old, processing, devices, tape, faulty,
                   history>>

CopyDriverData(t) ==
    /\ pc[t] = "copy" /\ Goto(t, "media")
    /\ old' = [old EXCEPT ![t] = media_ready]
    /\ UNCHANGED <<config, queue, since, live, device, world, history>>

SetReadyMedia(t) ==
    /\ pc[t] = "media" /\ Goto(t, "compare")
    /\ media_ready' = live[t]
    /\ UNCHANGED <<config, run, reasons, since, locals, device, world, history>>

(* Deliberate bug: the old width is fetched after the new one was set.     *)
Changed_Reread(t) == media_ready # live[t]

Changed(t) == old[t] # live[t]

EndRun(t) ==
    /\ pc[t] \in {"compare", "drop"} /\ Goto(t, "reasons")
    /\ IF pc[t] = "drop" \/ Changed(t) THEN BreakChain ELSE KeepRun
    /\ old' = [old EXCEPT ![t] = NoTape]
    /\ UNCHANGED <<config, media_ready, reasons, since, live, device, world,
                   age>>

(* Deliberate bug: a clean reading only takes media reasons back.          *)
ReasonsFor_KeepsOffline(r) ==
    CASE r = "silent" -> {"offline"}
      [] r = "fault"  -> {"other"}
      [] r = NoTape   -> {"empty"}
      [] OTHER        -> reasons \ {"empty", "other"}

ReasonsFor(r) ==
    CASE r = "silent" -> {"offline"}
      [] r = "fault"  -> {"other"}
      [] r = NoTape   -> {"empty"}
      [] OTHER        -> {}

(* A job goes on to print, reads again after a mere timeout, or gives up.  *)
SetReasons(t) ==
    /\ pc[t] = "reasons"
    /\ reasons' = ReasonsFor(live[t])
    /\ \E step \in {"idle", "print", "read", "end"} :
         /\ (step = "idle") = ~OwnedByJob(t)
         /\ (step = "print") = (OwnedByJob(t) /\ live[t] \in Widths)
         /\ step = "read" => live[t] = "silent" /\ ~Stale
         /\ Goto(t, step)
         /\ live' = IF step = "print" THEN live
                    ELSE [live EXCEPT ![t] = "silent"]
    /\ UNCHANGED <<config, run, media_ready, since, old, device, world, history>>

-----------------------------------------------------------------------------
(* A job prints and holds its end, or ends without output.                 *)
Crossing(t) == media_ready # live[t]
               \/ \E u \in Threads : pc[u] \in {"media", "compare"}

PrintLabels(t) ==
    /\ pc[t] = "print" /\ Goto(t, "end")
    /\ \/ /\ run' = "OPEN"
          /\ opened' = IF Crossing(t) THEN NoTape ELSE live[t]
       \/ KeepRun
    /\ live' = [live EXCEPT ![t] = "silent"]
    /\ UNCHANGED <<config, media_ready, reasons, since, old, device, world,
                   age>>

FinishJob(t) ==
    /\ pc[t] = "end" /\ Release /\ processing' = FALSE /\ Goto(t, "idle")
    /\ UNCHANGED <<config, queue, since, locals, devices, tape, faulty,
                   history>>

(* The bus (or the radio), the cassette, faults of an attached printer or  *)
(* of libusb that come and go, time.                                       *)
Unplug ==
    /\ devices > 0 /\ devices' = devices - 1 /\ faulty' = FALSE
    /\ \/ devices > 1 /\ UNCHANGED <<conn, kernel>>
       \/ /\ kernel' = "bound"
          /\ conn' = IF conn \cap {"handle", "socket"} = {} THEN conn
                     ELSE conn \cup {"stale"}
    /\ UNCHANGED <<config, queue, since, pc, locals, owner, processing, tape,
                   history>>

Plug ==
    /\ devices < (IF transport = "usb" THEN 2 ELSE 1)
    /\ devices' = devices + 1 /\ faulty' = FALSE
    /\ UNCHANGED <<config, queue, since, pc, locals, device, kernel, tape,
                   history>>

SwapTape ==
    /\ tape' \in (Widths \cup {NoTape}) \ {tape}
    /\ UNCHANGED <<config, queue, since, pc, locals, device, devices, kernel,
                   faulty, history>>

FaultsChange ==
    /\ devices = 1 /\ faulty' = ~faulty
    /\ UNCHANGED <<config, queue, since, pc, locals, device, devices, kernel,
                   tape, history>>

Tick ==
    /\ seconds > 0 /\ (since < LongAgo \/ age < LongAgo)
    /\ since' = IF since < LongAgo THEN since + 1 ELSE since
    /\ age' = IF age < LongAgo THEN age + 1 ELSE age
    /\ UNCHANGED <<config, queue, pc, locals, device, world, opened>>

Step(t) ==
    \/ CountDevices(t) \/ ReportAbsent(t) \/ ForgetRun(t)
    \/ OpenForPoll(t) \/ Ladder(t) \/ Refused(t) \/ ReadTape(t)
    \/ CopyDriverData(t) \/ SetReadyMedia(t) \/ EndRun(t)
    \/ SetReasons(t) \/ PrintLabels(t) \/ FinishJob(t)

Next ==
    \/ \E t \in Threads : Query(t) \/ OpenForJob(t) \/ Step(t)
    \/ Unplug \/ Plug \/ SwapTape \/ FaultsChange \/ Tick

Spec == Init /\ [][Next]_vars

-----------------------------------------------------------------------------
(* Properties.                                                             *)

(* Whatever fails or is unplugged at whatever rung, a device nobody owns   *)
(* has no handle, socket or context open, and the driver this server       *)
(* detached has been attached again, unless the kernel refused just that.  *)
Restored == owner = Nobody => conn = {} /\ kernel # "detached"

(* Polls start at most once in an interval, failed ones included, however  *)
(* many clients ask, and never with 0; jobs do not touch the slot.         *)
PollsSpaced ==
    [][\A t \in Threads : pc[t] = "idle" /\ pc'[t] \in {"count", "try"}
         => seconds # 0 /\ age >= seconds]_vars

(* The width a run was opened on stays the published one until a reading   *)
(* of another ends the run, so no swap a reading shows is missed, unless a *)
(* publication that already had its copy crossed the opening (Crossing).   *)
OpenRunIsPublished ==
    opened # NoTape /\ (\A t \in Threads : pc[t] # "compare")
        => run = "OPEN" /\ media_ready = opened

(* Inductive strengthenings of the invariants above (PollingProofs).       *)

(* A thread is on a rung or reads exactly while it owns the device; only a *)
(* job keeps it longer.                                                    *)
OwnerInv ==
    /\ processing => owner = JobThread
    /\ \A t \in Threads :
        /\ pc[t] \in LadderSteps \cup {"read"} => owner = t
        /\ pc[t] \in {"print", "end"} => OwnedByJob(t)
        /\ pc[t] \in {"idle", "count", "gone", "unclear", "forget", "try",
                      "refused"} => owner # t
        /\ pc[t] \in {"copy", "media", "compare", "drop", "reasons"}
              /\ ~processing => owner # t

(* Only its owner has something open, and a driver to attach is remembered.*)
ConnInv ==
    /\ owner = Nobody => conn = {}
    /\ kernel = "detached" => "detached" \in conn /\ ~Stale

(* Over an open run every publication under way starts from its width, or  *)
(* some thread is about to notice the change.                              *)
Noticed == \E t \in Threads : pc[t] = "compare" /\ Changed(t)
PublishInv ==
    /\ \A t \in Threads : pc[t] \in {"copy", "media", "compare", "print"}
                          => live[t] \in Widths
    /\ opened # NoTape =>
        /\ run = "OPEN"
        /\ \/ Noticed
           \/ /\ media_ready = opened
              /\ \A t \in Threads : pc[t] \in {"media", "compare"}
                                    => old[t] = opened

SlotInv == since = age

(* Fairness: every thread goes on (each wait is bounded), time passes, and *)
(* clients keep asking.                                                    *)
FairSpec ==
    /\ Spec
    /\ \A t \in Threads : WF_vars(Step(t))
    /\ WF_vars(\E t \in Threads : Query(t)) /\ WF_vars(Tick)

(* Once one healthy printer stays attached with a tape, its tape is        *)
(* published again and again, whatever was reported before.                *)
Settled == devices = 1 /\ ~faulty /\ tape \in Widths /\ seconds # 0
StatusRecovers ==
    <>[]Settled /\ <>[][UNCHANGED tape]_vars
        => []<>(reasons = {} /\ media_ready = tape)
=============================================================================
