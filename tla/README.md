# TLA+ models of the P-touch print server

The server in `src/` is a PAPPL printer application for two Brother label
printers, the PT-2730 (USB) and the PT-P710BT (USB or Bluetooth). One queue
drives one printer. The printer keeps state of its own that nobody can read
back: raster in its command buffer, and the end of tape it holds at its cutter
between jobs. The server's hard part is to keep its idea of that state right
while jobs, explicit cuts, status polls, cassette swaps, lost links and
restarts interleave, and to refuse output once it no longer knows.

## Inventory

| Component | State | Operations | Talks to |
|---|---|---|---|
| Print run, `driver.c` | `pt_printer_state.run` (CLOSED, OPEN, OPEN_BLANK, UNCERTAIN); `pt_batch` of the current job | `r_startjob`, `r_startpage`, `r_writeline`, `r_endpage`, `r_endjob`, `pt_print_pending`, `pt_wait_for_tape` | called back by PAPPL's job thread; writes to the device |
| Explicit cut, `driver.c` | none of its own | `pt_cut_op_cb`, `pt_cut` | a client's request thread; queued device acquisition; the run |
| Idle polling, `driver.c` | `idle_polled`, `last_idle_poll` | `status_cb`, `pt_idle_poll_due`, `pt_publish_tape` | any status request's thread; the device; the run and the published media |
| Status exchange, `driver.c`, `status.c` | bytes waiting on the connection | `pt_read_live_tape`, `pt_await_ready`, `pt_parse_status` | the transports |
| Device queue, printer-operations patch | `processing_job`, `waiters`, `device`, `device_in_use`, job states | `start_job`, `finish_job`, `papplJobCancel`, the scheduler's scan, `papplPrinterOpenDevice(Queued)` | job threads, request threads, polls |
| Finishing selection, `driver.c`, `cutter.c`, finishings patch | printer defaults | `pt_job_policy`, `pt_cut_policy_for`, `pt_cut_autocut` | IPP attributes; the batch |
| Page geometry, `tables.c`, `raster.c`, `driver.c`, raster patch | header, margins and staged rows of one page | `pt_tape_geometry`, `pt_resolve_page_margins`, the page checks, `pt_pack_window` | the PNG filter, PAPPL's raster loop |
| PNG filter, `filter_png.c` | one page description | `pt_preflight_png`, `pt_filter_png`, length and orientation | refreshes the media, then runs the raster callbacks for each copy |
| Transports, `device_usb.c`, `device_bt.c` | one open handle; whether the kernel's driver is detached | list, count, open, close, read, read status, write | libusb, RFCOMM sockets |
| Commands, `protocol.c` | none | encoders and lookups | |
| Start, `main.c`, `config.c` | the environment; the saved printer identity | `main`'s checks, `system_cb`, `pt_driver_cb`, `run_smoke` | PAPPL's saved state |
| Job history patch | the state file and the spool directory | save, load, the abort of unfinished jobs | PAPPL's jobs |
| Raster patches | one page header | header checks, short reads | PAPPL and CUPS |

What makes each correct:

* print run: a healthy state means an empty buffer and a known tape end; each
  label is released once and whole; cuts fall where the policy says; uncertain
  output stays uncertain; a job that sent nothing costs the run nothing;
* cut: feeds only over held user content, ends, and takes its turn among the
  jobs accepted before and after it;
* polling: never publishes over a job's own reading, never calls a busy printer
  offline, never forgets held content; keeps its distance however many
  clients ask; misses no swap a reading shows; recovers once the printer does;
* transports: whatever fails or is unplugged at whatever rung of open, nothing
  stays open and the kernel gets its driver back, if it takes it;
* status exchange: a snapshot answers its request, readiness is that of the
  page just released, every read ends;
* finishing: what was admitted is printed, with the cuts it means; the two
  representations of the default never disagree;
* page geometry: what fits is accepted, what is accepted is printed whole and in
  its place, and the feed at the ends is part of the page's length;
* start and history: a server drives the printer it is configured for, and no
  stop at any point replays a job, loses its outcome or invents one;
* device queue: one owner, nobody's cleanup takes another's device, order, and
  no job or cut left behind.

## Modules

| Module | Models | State and actions |
|---|---|---|
| `LabelRun` | what the queue promises of its labels | the abstract specification: the end at the cutter (`tail`), whether doubt has stopped the queue, one job's accepted, released and cut labels, one explicit cut. No threads, pages, packets, cassettes or models. |
| `PrintRun` | the run, the batch, the cut and the poll over one printer | `pc` is the step of whoever owns the device. `queue` is `pt_printer_state` and PAPPL's ready media and reasons, `batch` is `pt_batch`, `printer` is external. One action per section between two points where another thread or the printer can get in: `r_startpage` is `StartPage`, `RejectPage`, `WaitTape`, `StopWaiting`, then the common set-up `ReadChain`, `ClaimRun`, `SetupPage`. |
| `DeviceTurns` | what the queue promises of its device | an abstract specification: the one `user`, the jobs accepted, active and `begun`, the `line` of cuts. No threads, printer states or scheduler. |
| `DeviceQueue` | who has the device and when | each action is one section under the printer's lock. Threads `<<job, slot>>` walk from `start_job` to `finish_job`; cuts wait in `waiters`. |
| `StatusRead` | one exchange and one readiness wait | `wire` is what arrived, `owed` what the printer will still send; packets are two fragments. |
| `Finishing` | which cuts a job gets | `default` is both representations of the printer's default, `saved` the state file, `update` what a request has validated and not yet stored, `job` one job between admission and start. PAPPL's rules (`TrimSelection` and its users) and the driver's (`JobPolicy`) are separate operators, as in the code. |
| `Geometry` | one page from its document to the head's pins | a pipeline: `page` is the media and header of the print options, `image` the PNG's pixels, `raster` the page's ink, `sent` the rows transmitted. One action per function that may refuse the page. |
| `Polling` | `status_cb` statement by statement, with the transports' open and close | each thread's `pc` is a statement of `status_cb`, `pt_publish_tape` or a rung of `pt_usb_open` or `pt_bt_open`; `conn` is what is open (context, handle, socket, detached driver), `kernel` the driver of interface 0 (bound, detached, or refused by the kernel when it was to be attached again), `since` the time since `last_idle_poll`. A job is reduced to reading, publishing and holding an end. |
| `History` | jobs and the printer across restarts | memory (`printer`, `jobs`, `active`, `canceling`) and disk (`saved`, `spooled`); the load is one job a step, so that a stop can fall between two. |
| `MCPrintRun`, `MCDeviceQueue`, `MCStatusRead`, `MCFinishing`, `MCGeometry`, `MCPolling`, `MCHistory` | instances for TLC | |
| `PrintRunProofs` | theorems about `PrintRun` | |
| `LabelRunProofs` | `PrintRun` implements `LabelRun` | |
| `DeviceQueueProofs`, `PollingProofs`, `StatusReadProofs`, `HistoryProofs`, `FinishingProofs`, `GeometryProofs` | theorems about the module each is named after | |

How they fit together: `DeviceQueue` shows that a job, a cut and a poll have the
device one at a time, which is `PrintRun`'s single `pc` (`PollOpen` and
`BeginCut` need `pc = "free"`); where that fails (`two_threads`) `PrintRun` says
nothing. `DeviceQueue!TakesTurns` maps the queue to `DeviceTurns`: `User` is read
off the printing threads and `owner`, `begun` is `printed`, `line` is `waiters`.
A job's turn begins at `OpenDevice` and ends at `EndProcessing`, a cut's and a
poll's at their acquisition and close; a job ends at `FinishJob` or `CancelJob`,
and the rest is invisible. `DeviceTurns` is what `PrintRun` takes as given: a
turn is what its `BeginJob`, `BeginCut` and `PollOpen` begin from a free `pc`.
`StatusRead` shows what `PrintRun` assumes of `LiveReadings` and
`LabelReady`: readiness is of this page, and a reading is the tape of now unless
a reply to an earlier request was still under way when the drain ended.

`Finishing` gives the policy that `PrintRun!NewJob` takes as given, and `Geometry`
says which pages `StartPage` and `WriteRows` refuse, which `PrintRun` leaves open
(`RejectPage`, `RowsFail`).

`PrintRun!Implements` maps `PrintRun` to `LabelRun`: `Tail` reads the run state
(UNCERTAIN is an unknown end), `Cuts` are the labels released with a cut before
them, a canceled job counts as failed, `Feeding` and `Underway` are read off
`pc`. A page step maps to a label step where its effect shows: `StartPage`
accepts, `ClaimRun` makes the end unknown, `ReleaseLabel` releases, `LabelReady`
confirms, every refusal, cancel and error is `FailJob`, a poll or a media
refresh that breaks the chain is `Observe`, `CutRecheck` to `CutReady` are the
explicit cut, and the rest is invisible. The constant `PT-2730` or `PT-P710BT`
is chosen at `Init` (`model`), so both are in every run of `PrintRun`.

`Polling` refines the two actions in which `PrintRun` publishes a reading: there
the copy of the driver data, the new ready media, the comparison and the reasons
are separate statements of threads that run at once, and jobs are reduced to
what they publish. `OpenRunIsPublished` is what the comparison is for. It leaves
one case out and names it, `Crossing`: a publisher that copied the old width
before a run was opened on a new one compares with that copy (`driver.c:782`),
so the run can be open over another published width, and a later swap back goes
unseen; the comment at `driver.c:905` and `tests/test_driver.c:1943` deal with
the case without threads. UNCERTAIN runs are `PrintRun`'s.

`History` takes a job only from admission to its end; the order of jobs and
threads is `DeviceQueue`'s. Two things it shows on the way: the input of a job
whose saved record is older than its document, or of a job saved as terminal
before `finish_job` removed the input, can stay in the spool directory after a
stop (`NothingReplayed` says which input is gone); and a printer that
`pt_driver_cb` does not take leaves a running server without any printer.

In `Geometry` ink is a set of dots, so in a run one dot on either side of each
boundary stands for any content; the theorems hold for any ink on its page. A
page goes through named stages (`LabelPage`, `HeaderPage`, `Upright`, `Placed`,
`Staged`, `Transmitted`), one for each function that transforms it, so that the
proofs can say what each variable is at each step. Printed dots may be off their
pixel by rounding: half a pixel and one and a half dots along the tape, two dots
across, a pixel and two dots when a full-width canvas was compacted, and nothing
on a 180 dpi canvas. A smaller tolerance was true at 180, 300 and 360 dpi and
turned out false at others, 200 and 203 dpi among them. The integer arithmetic
is the code's, in 1/100 mm and dots, over unbounded integers: the code computes
pixel products in 64 bits and checks lengths before it uses them; a sum of
submitted margins above 119 m would wrap an `int`, which the model does not show.
PAPPL's centred placement and sampling (`PrintOptions`, `Samples`, `Turned`) are
external.

Two things in `PrintRun` deserve a word. `ReadChain` and `ClaimRun` are two
actions, because the code takes the run's lock twice and a poll that has
already closed the device may still publish in between. `PollRead` frees the
device and `PollPublish` comes later, because `status_cb` closes the device
first. `media_confirmed` is left out: nothing in `src/` reads it.

Variables that no code keeps say what the properties need: `lost` (an operation
ended uncertain since the server started), `upset` (a swap, a lost link or a
restart since the last release confirmed on the published tape), `orphaned` (a
restart over a dirty buffer), `done` (what the current job has done);
`DeviceQueue`'s `printed`, `StatusRead`'s `settled` and `answered`, `Polling`'s
`age` and `opened`, `History`'s `target`, `started` and `current`.

`StatusRead` assumes of the rest: output follows a parsed status or a confirmed
page on the same connection (`r_startjob`, `pt_cut`), and an uncertain run is
left only by the power-cycle and restart the message asks for (`LossSafe`).

## Runs

| Run | Question | Bounds |
|---|---|---|
| `print_run` | all safety of a queue with polling, on either model, and that it implements `LabelRun` | two widths and no tape, 3 labels a job |
| `nopoll` | held content and tape confirmation when polling is disabled; cancels, cuts and tape waits end | 2 labels, fair, no symmetry |
| `stale_poll` | (violated) a page on the tape the job read | 1 label |
| `busy_poll` | (violated) a busy printer is not offline | 1 label |
| `order` | cuts in order, each job printed once; unless a job is interrupted one user, and the queue implements `DeviceTurns` | 2 jobs, 2 cuts, 2 threads a job |
| `queue_fair` | cuts answered, jobs started, whatever is canceled or interrupted | 2 jobs, 1 cut, 1 thread a job |
| `two_threads` | (violated) one user with jobs dispatched twice and interrupted | 2 jobs, 1 cut, 2 threads |
| `defaults` | what PAPPL admits the driver prints as meant; defaults agree; a restart keeps the saved one | 2 clients, up to 3 values in a selection |
| `geometry` | fitting pages accepted; ink in place; the rows sent are those declared, in the bytes of their headers | every tape, width within 0.01 mm, 180, 300 and 360 dpi, 5 orientations, lengths and dots at each limit |
| `status` | readiness, framing and snapshots over a stream with late replies; reads end | 3 reads, 4 requests, 3 pages |
| `polling` | nothing left open, or detached unless the kernel refuses its driver; polls spaced; no swap missed; status recovers | 2 threads, one of them also a job's; two widths; USB at every query and never, Bluetooth once a tick; 2 devices on the bus |
| `history` | no job replayed, lost or called completed without printing; the configured printer served | 2 jobs, 7 environments, any number of stops |

Why these bounds are enough. A job's labels differ only as first, later and
last, so 3 labels have all of them; jobs, cuts, polls, swaps and restarts are
not bounded in `PrintRun`. Two widths tell "the same tape" from "another". In
`DeviceQueue` an order question is about one job before and one after one cut;
two cuts show the order among cuts. Two clients are
enough to interleave an update with another, and three values of a selection
show that their order does not matter. `geometry` takes every tape and puts
sizes, lengths and ink on both sides of each comparison; across and along the
tape are varied in separate families, as no computation mixes them. In `polling`
every race on the slot, the device or the publication is between two threads,
and a third would repeat one of them; two devices are enough to be ambiguous;
the clock counts up to `LongAgo`, at least every interval.
In `history` one job may be unfinished while another is terminal, and each
environment is there for one way to be accepted or refused. The read
budget is 10 in the code; 3 is small enough to be used up by what earlier requests left.

Fairness. `PrintRun!FairSpec`: the owner's thread keeps running, and every wait
in it has a deadline in the code (`PT_MEDIA_REFRESH_MS`,
`PT_PRINT_READY_TIMEOUT_MS`, the transports' timeouts) except the tape wait,
which polls every two seconds, so a wanted tape that is loaded and readable is
read. `DeviceQueue!FairSpec`: threads run, a job that has the printer ends, as
`PrintRun` shows for canceled ones; a failed open is never required to succeed.
`StatusRead!FairSpec`: the reader runs and its deadline passes.
`Polling!FairSpec`: threads go on, time passes and clients keep asking, since
nothing polls unless a client asks; the fault that hid the printer need not
happen again. Elsewhere clients and the world owe nothing. One bound is an
assumption about the kernel: after connecting, the Bluetooth socket is blocking
again and `send` has no deadline (`device_bt.c:148`), so "a write ends" is up to
the link's own supervision.

### What the violated runs say

* `stale_poll`. `status_cb` closes the device, then publishes. A job can start,
  read the tape itself and publish it, and only then the poll publishes its
  older reading; `r_startjob` reads the width back from the ready media and the
  batch is bound to the older tape. `printer-device/spec.md:75` asks for
  validation against the confirmed tape. Disabling polling removes it (`nopoll`).
* `busy_poll`. A poll refused because a cut has the device finds printer-state
  idle and reports a present printer offline, against
  `server-architecture/spec.md:106`. So does one whose job ends in between.
* `two_threads`. A waiting PNG job is still pending, so each scan dispatches it
  again. If it is canceled while its first thread prints, the second completes
  it: `processing_job == job` is true of both. `Regular` names the case;
  `OneUser`, `DeviceKept`, `OwnershipKept` and `TakesTurns` hold outside it.

`HeldNotForgotten` also needs polling off: a poll publishes and closes the run
without owning the device, so a count of zero or an older reading may arrive
after the release that filled the cutter.

## Proofs

`PrintRunProofs` and `LabelRunProofs` prove, for every set of widths, number of
labels, model and polling setting:

* `TypeCorrect`: the type invariant;
* `LossSafe`: `LossLatched` and `NoOutputAfterLoss`;
* `RejectionIsHarmless`: `RejectedKeepsRun`;
* `HeldSafe`: `HeldMatchesRun`, and `CutFeedsHeldContent`: `CutOnlyHeldContent`;
* `BufferSafe`: `HealthyMeansEmpty`, and `WholeLabels`: `ReleasesWholeLabels`;
* `HeldIsRemembered` and `PageIsForTapeRead`: `HeldNotForgotten` and
  `PageOnConfirmedTape`, when polling is disabled;
* `IInvCorrect`: the whole inductive invariant;
* `LabelsKept`: `Spec => Implements`, every behaviour of the threads, the
  printer and the world is one of `LabelRun`.

They rest on the named assumptions of `PrintRun` about its constants (widths
and readings are different values, at least one label), and on nothing else.

The argument. None of the properties is inductive: that the buffer is empty in
a healthy run depends on nobody leaving UNCERTAIN without a confirmed release,
which depends on where each thread stands. `IInv` says it in parts, each proved
to be preserved with the ones before it. `CoreInv` is about run, step and
printer: `OwnerInv` (the poll thread reads exactly while it owns the device),
`LossInv` (after a loss no owner is past the recovery checks), `ClaimInv`
(whoever made the run uncertain is still at work or has been recorded),
`PendingInv` (a pending label belongs to a job between its pages),
`UncertainInv` (between claim and confirmed release the run is uncertain),
`BufferInv` and `HeldInv` (what that means for the printer). The key step is
that a poll can only take a run to CLOSED, never out of UNCERTAIN. `LabelInv` is
about the labels: `JobInv` (a failed job is on its way out, a final release is
the last), `CountInv` (how many labels each step is ahead of the released ones:
a PT-P710BT holds one back and stages the next, a PT-2730 holds one back),
`FirstInv` and `CutInv` (the label held back has its cut set up as the policy
says). TLC checks `IInv` in `print_run`. The two theorems for a queue without
polls add `NoPollInv`: no poll ever has the device (`QuietInv`), the published
tape of an undisturbed open run is the loaded one, so that no reading ends it
(`ForgetInv`), and what a job has read is still published when it binds its
batch (`ConfirmInv`).

The refinement: each action either changes nothing `LabelRun` sees
(`StutterStep`), gives the job up (`FailStep`), sees the printer change
(`ObserveStep`), or is a label step of its own; `RefineStep` takes the actions
one by one, with `IInv`. Where it needs the invariant: the released label is the
next accepted one (`CountInv`), its cut is the policy's (`CutInv`), a job that
finishes without having failed has released all it accepted (`CountInv`), and a
cut that is refused in an uncertain run loses nothing new (`ClaimInv`).

`DeviceQueueProofs` proves, for every number of jobs, cuts and threads a job may
have, with and without interruptions: `UserAlone` (`OneUser`), `DeviceStaysOpen`
(`DeviceKept`), `OwnershipStays` (`OwnershipKept`), `NoSecondPrint`
(`PrintedOnce`) and `CutsInOrder` (`CutInOrder`). The first three are stated
outside the case `two_threads` shows. The inductive invariant has these parts:
`Shape` (types but for the queue of cuts), `JobInv` (a job has no thread before
it is released, is processing exactly while it is `processing_job`, and has
ended for good once a thread that had the printer leaves it: this alone makes a
second dispatch harmless), `ActInv` (in a regular run at most one thread acts
for `processing_job`; it needs `GivenUp` of every other thread that reaches
finish_job) and `UseInv` (an owned cut and an owner have the device open, and a
printing thread excludes both). `Dispatch` says of all six places that scan the
queue that they only start threads of pending jobs. The order of cuts adds
`QueueInv`: a waiting cut is in `waiters` once, at its place among those
accepted before and after it, and leaving the queue takes out that place
(`Place`) and keeps the rest in order.

`TurnsTaken` proves the refinement, `Spec => TakesTurns`, likewise outside that
case. It adds `OpenInv`: a job that has the printer and not yet the device has
not had the device before, because only a pending job starts and a printed one
is never pending again. Every step is then a turn or invisible (`JobTurns`, `CutTurns`,
`PollTurns`, `ClientTurns`). Where it needs the invariant: the thread that opens
the device is the only one that acts, so nobody else prints (`ActInv`), and its
job is not behind any waiting cut (`QueueInv`); a thread that completes a job it
does not own leaves the user alone (`PrintsAlone`); a cut that acquires is the
first in line and takes itself out of its place (`FirstWaiter`); a scan of the
queue ends no printing (`ScanPrints`).

`PollingProofs` proves, for every number of threads, set of widths, interval
and transport: `TypeCorrect`, `NothingLeftOpen` (`Restored`), `NoSwapMissed`
(`OpenRunIsPublished`) and `SlotKept` (`PollsSpaced`). `OwnerInv` and `ConnInv`
say which steps hold the device and that whatever is open, a detached kernel
driver included, is in what the owner has to undo: also on the rung between
detaching and claiming, where a claim refused is unwound by `device_usb.c:171`.
The code ignores what `libusb_attach_kernel_driver` returns (`:171`, `:185`,
`:205`). When it fails, the device is left without a driver until it is plugged
in again (`kernel = "refused"`), the next open detaches nothing, and `Restored`
excepts that case: it says that every driver this server detached has been given
back to the kernel, not that the kernel took it. `PublishInv` is the reason no
swap is missed: over an open run either the published width and every copy a
thread has taken are the run's, or some thread about to compare holds a copy
that differs and will close it. The assumptions are those of the modules:
`Nobody` is no thread, `NoTape` no width, and the cap on the clock is at least
every interval.

`StatusReadProofs` proves, for every read budget and number of requests and
pages: `TypeCorrect`, `ReadinessIsThePages` (`ReadyIsCurrent`), `WaitsInStep`
(`AwaitInStep`) and `StatusAnswersRequest` (`SnapshotIsRequested`). The stream
is what the reader has collected, what has arrived and what the printer still
owes, in this order. `PairInv` counts a fragment from the end of the stream,
which reads do not move: the last fragment of a packet is an even distance
away, so a reader that has seen a whole packet begins with a whole one.
`NoticeInv` is the order of packets: outside a page's wait no notification
follows a reply, so that an exchange that parsed a reply has none left before
it; during the wait every notification is the page's and readiness comes last,
so whoever sees it has emptied the stream. `SnapshotInv` says that a request
sent into an empty stream meets only its own answer. Each part is proved once
for a read of any length (`PairedRead`, `OfPageRead`), then action by action.

`HistoryProofs` proves, for any number of jobs and any configurations:
`NothingReplayedCorrect`, `CompletedWasStartedCorrect`, `HistoryKeptCorrect` and
`ServesConfiguredCorrect`. The invariant is memory and disk side by side:
`MemoryInv` (what a stopped or loading server has in memory), `PrinterInv`
(every job, in memory or saved, is of the printer beside it, and what is served
is what the environment asked for), `NumberInv` (job numbers are given out
once, also across a stop), `RecordInv` (what any record may say), `LoadInv` (a
job of an earlier server is as its saved record was loaded, and a saved outcome
is still its outcome) and `SpoolInv` (what was interrupted has lost its input).
A stop may come at any step, the load included, so the parts about the disk
hold at every step and not only between requests.

`FinishingProofs` proves, for any number of values in a selection:
`PrintsAsAsked` (`AcceptedPrintsAsAsked`), `RepresentationsAgree`
(`DefaultsAgree`) and `RestartLoadsSaved` (`RestartKeepsDefault`). `DefaultInv`
says the two representations are of one supported selection, `StoredInv` that
the state file and every update waiting to be stored hold supported ones, and
`JobInv` that a job between admission and start was admissible. The folds over a selection
are turned into first-order statements by the least index at which one could
fail; no induction over data is needed.

`GeometryProofs` proves, for any set of jobs (every resolution, size, margin,
orientation and ink): `FittingPagesAccepted` (`FittingAccepted`),
`InkInPlaceCorrect` (`InkInPlace`) and `RowsExactCorrect` (`RowsExact`). `IInv`
says that at each stage the variables are what the stages before it make of the
job (`RequestInv`, `PageInv`, `ImageInv`, `HeaderInv`, `OutputInv`). The work is
in lemmas on rounding: what `Dots`, `Scaled` and `Samples` return lies within a
bound of the exact quotient, so that a length rounded up and back loses no dot,
a centred sample is the pixel it should be, and a row clear of the margins stays
so. What depends on the tape is by cases of the five tapes. Transmission is a
bijection on dots, so none is lost and none is printed twice.

The assumptions of these three are those of the modules: `None` is no record,
the bound on values is positive, and a job's numbers are numbers or left out and
its ink lies on its page (`JobsAssumption`).

Every invariant and action property that a passing run checks is stated by a
theorem, two of them for a queue without polls (above). Only model-checked is
liveness, `CutServed`, `PendingServed`, `StatusRecovers`, `ReadsEnd`,
`CancelEnds`, `CutAnswered` and `WaitEnds`: the prover has neither ENABLED nor
fairness. No module has a RECURSIVE operator.

## Not modelled

The socket test sink; the bulk write loops of the transports, which `PrintRun`
has as one write that succeeds or delivers any part; the discovery listing,
which keeps no state; the
`smoke` and `probe` subcommands, which have no queue; base PAPPL beyond what the
patches and the driver call (marked external); the fixed bytes of commands, the
wording of messages, logging, IPP attribute layout; the character loops of the
configuration parsers; libusb, sockets; the container and Pi deployment.

Abstractions to know about. In `PrintRun` and the publication of its polls
`pt_publish_tape` is one action, and one idle poll is under way at a time, at
any moment; `Polling` takes both apart. Shutdown leaves waiting jobs in a state
named `retired` in `DeviceQueue`; what is saved of them is in `History`, without
PAPPL's limit on retained jobs and its numbering of jobs after a lost state
file. `Finishing` has one job between two restarts and
a restart drops it; the state file may be older than the last default.
`Geometry` covers print-scaling none, the default; with any other scaling
`pt_preflight_png` leaves the page to PAPPL. Submitted top and bottom margins,
decoding, bit depths and copies are left out, and the page is taken to wait for
its tape (`PrintRun`), so that the loaded tape is the matching one.

## Plan

Done: `LabelRun`, `PrintRun`, `DeviceTurns`, `DeviceQueue`, `Polling`,
`StatusRead`, `Finishing`, `Geometry` and `History`, with proofs of their
safety, and the refinements of `LabelRun` by `PrintRun` and of `DeviceTurns` by
`DeviceQueue`. Next, in order:

1. The other side of `DeviceTurns`: that `PrintRun`'s `pc` takes turns as well,
   so that the two detailed modules meet in one specification.
2. The transports' write loops, with timeouts and short writes.
3. Submitted top and bottom margins and the other values of print-scaling in
   `Geometry`.

The suite is kept to a dozen runs and some forty properties that finish within
minutes: a new module's properties replace those that a theorem or a refinement
has come to cover, and small runs of related modules are merged.
