------------------------------ MODULE History -------------------------------
(***************************************************************************)
(* Jobs across restarts: the configuration main.c accepts, the identity    *)
(* the server starts with, the saved state and its load (job-history       *)
(* patch), and how jobs end (finish_job).                                  *)
(*                                                                         *)
(* The state file is saved now and then and survives a stop at any point;  *)
(* memory does not.  A job has one thread here; how threads share the      *)
(* printer is DeviceQueue's.  PAPPL's limit on retained jobs is left out.  *)
(***************************************************************************)
EXTENDS Naturals, Sequences, FiniteSets

CONSTANTS
    Configurations,    \* environments the server is started with
    MaxJobs,           \* bound: jobs ever accepted
    None               \* no override, no address, no printer, no job

Supported == {"PT-2730", "PT-P710BT"}
Ptouch(model) == <<"ptouch", model>>               \* URIs: scheme, the rest
Bluetooth(address) == <<"ptouch-bt", address>>

ASSUME ConfigurationsAssumption ==
    \A c \in Configurations :
        DOMAIN c = {"model", "override", "address", "idle_poll"}
ASSUME JobsAssumption == MaxJobs \in Nat

VARIABLES
    config,        \* the environment of the next start
    server,        \* "down", "loading", "up" or "stopping"
    printer,       \* its only printer, or None
    jobs, active,  \* jobs in memory, and which of them are active
    canceling,     \* is_canceled
    saved,         \* the state file
    spooled,       \* jobs whose input is in the spool directory
    target,        \* history: the printer each job was accepted for
    started,       \* history: jobs that had the printer
    current        \* history: jobs accepted since the server started

memory  == <<printer, jobs, active, canceling>>
disk    == <<saved, spooled>>
history == <<target, started, current>>
vars == <<config, server, memory, disk, history>>

Jobs == 1 .. MaxJobs
Terminal == {"canceled", "aborted", "completed"}   \* state >= CANCELED

(* document: its format and file are known.  A message is the sequence of  *)
(* things it says.                                                         *)
Records == [state : {"held", "pending", "processing"} \cup Terminal,
            document : BOOLEAN,
            message : {<<>>, <<"diagnostic">>, <<"interrupted">>,
                       <<"interrupted", "diagnostic">>},
            reasons : SUBSET {"aborted-by-system"}]

ASSUME NoneAssumption == None \notin Records

NewJob == [state |-> "held", document |-> FALSE, message |-> <<>>,
           reasons |-> {}]
NoJobs == [id \in Jobs |-> None]
Known  == {id \in Jobs : jobs[id] # None}
FreshDirectory == [printer |-> None, jobs |-> NoJobs]

Init ==
    /\ config \in Configurations /\ server = "down"
    /\ printer = None /\ jobs = NoJobs /\ active = {} /\ canceling = {}
    /\ saved = FreshDirectory /\ spooled = {}
    /\ target = NoJobs /\ started = {} /\ current = {}

-----------------------------------------------------------------------------
(* The environment: main, system_cb, pt_driver_cb.                         *)

(* main refuses to start with anything else.                               *)
Accepted(c) ==
    /\ c.model \in Supported
    /\ c.override # None /\ c.override[1] = "ptouch" => c.override[2] = c.model
    /\ c.address # None =>
          /\ c.address # "malformed" /\ c.override = None
          /\ c.model = "PT-P710BT"
    /\ c.idle_poll # "malformed"

Identity(c) ==
    [model |-> c.model,
     uri   |-> IF c.override # None THEN c.override
               ELSE IF c.address # None THEN Bluetooth(c.address)
               ELSE Ptouch(c.model)]

(* pt_driver_cb, when a printer is created or loaded.                      *)
Drives(id) ==
    /\ id.model \in Supported
    /\ id.uri[1] = "ptouch" => id.uri[2] = id.model
    /\ id.uri[1] = "ptouch-bt" =>
          id.uri[2] # "malformed" /\ id.model = "PT-P710BT"

Configure ==
    /\ server = "down" /\ config' \in Configurations
    /\ UNCHANGED <<server, memory, disk, history>>

(* The operator's way out of a conflict.                                   *)
MoveAside ==
    /\ server = "down" /\ saved' = FreshDirectory /\ spooled' = {}
    /\ UNCHANGED <<config, server, memory, history>>

-----------------------------------------------------------------------------
(* Start: papplSystemLoadState reads the saved printer and its jobs one by *)
(* one; then the identity is compared, or a printer created.               *)

BeginLoad ==
    /\ server = "down" /\ Accepted(config) /\ server' = "loading"
    /\ printer' = saved.printer
    /\ UNCHANGED <<config, jobs, active, canceling, disk, history>>

(* Deliberate bug: a record needs a document format (PAPPL as released).   *)
Loadable_WithFormat(record) == record # None /\ record.document

Loadable(record) == record # None       \* id, name and owner are always saved

(* Deliberate bug: unfinished jobs come back as they were.                 *)
Restored_Resumes(record) == record

(* Unfinished work is never scheduled again.                               *)
Restored(record) ==
    IF record.state \in Terminal THEN record
    ELSE [record EXCEPT !.state = "aborted",
                        !.message = <<"interrupted">> \o @,
                        !.reasons = @ \cup {"aborted-by-system"}]

LoadJob(id) ==
    /\ server = "loading" /\ id \notin Known
    /\ saved.jobs[id] # None /\ Loadable(saved.jobs[id])
    /\ jobs' = [jobs EXCEPT ![id] = Restored(saved.jobs[id])]
    /\ spooled' = IF saved.jobs[id].state \notin Terminal
                     /\ saved.jobs[id].document
                  THEN spooled \ {id} ELSE spooled
    /\ UNCHANGED <<config, server, printer, active, canceling, saved, history>>

Loaded == server = "loading" /\ \A id \in Jobs \ Known :
              saved.jobs[id] = None \/ ~Loadable(saved.jobs[id])

(* Deliberate bug: the restored printer's URI is not compared.             *)
Conflicts_ModelOnly == printer # None /\ printer.model # config.model

Conflicts == printer # None /\ printer # Identity(config)

Forget ==
    /\ server' = "down" /\ printer' = None /\ jobs' = NoJobs
    /\ active' = {} /\ canceling' = {} /\ current' = {}

RefuseStart ==
    /\ Loaded /\ Conflicts /\ Forget
    /\ UNCHANGED <<config, disk, target, started>>

(* A printer the driver does not take leaves a server without any.         *)
Start ==
    /\ Loaded /\ ~Conflicts /\ server' = "up"
    /\ printer' = IF printer = None /\ Drives(Identity(config))
                  THEN Identity(config) ELSE printer
    /\ UNCHANGED <<config, jobs, active, canceling, disk, history>>

-----------------------------------------------------------------------------
(* A running server.                                                       *)

Running == server \in {"up", "stopping"}
Active(id, states) == Running /\ id \in active /\ jobs[id].state \in states

AcceptJob(id) ==
    /\ server = "up" /\ printer # None
    /\ id = Cardinality({i \in Jobs : target[i] # None}) + 1
    /\ jobs' = [jobs EXCEPT ![id] = NewJob]
    /\ active' = active \cup {id} /\ current' = current \cup {id}
    /\ target' = [target EXCEPT ![id] = printer]
    /\ UNCHANGED <<config, server, printer, canceling, disk, started>>

ReceiveDocument(id) ==
    /\ Active(id, {"held"}) /\ id \notin canceling
    /\ jobs' = [jobs EXCEPT ![id].document = TRUE, ![id].state = "pending"]
    /\ spooled' = spooled \cup {id}
    /\ UNCHANGED <<config, server, printer, active, canceling, saved, history>>

StartJob(id) ==
    /\ Active(id, {"pending"}) /\ id \notin canceling /\ server = "up"
    /\ \A i \in active : jobs[i].state # "processing"
    /\ jobs' = [jobs EXCEPT ![id].state = "processing"]
    /\ started' = started \cup {id}
    /\ UNCHANGED <<config, server, printer, active, canceling, disk, target,
                   current>>

(* A callback says what it waits for or why it fails, and may fail.        *)
ReportJob(id) ==
    /\ Active(id, {"processing"})
    /\ \E message \in {jobs[id].message, <<"diagnostic">>},
          state \in {"processing", "aborted"} :
         jobs' = [jobs EXCEPT ![id].message = message, ![id].state = state,
                    ![id].reasons = IF state = "aborted"
                                    THEN @ \cup {"aborted-by-system"} ELSE @]
    /\ UNCHANGED <<config, server, printer, active, canceling, disk, history>>

CancelJob(id) ==
    /\ Running /\ id \in active /\ canceling' = canceling \cup {id}
    /\ UNCHANGED <<config, server, printer, jobs, active, disk, history>>

(* Deliberate bug: whatever was not canceled is taken to have printed.     *)
FinalState_Completed(id) ==
    IF id \in canceling THEN "canceled" ELSE "completed"

FinalState(id) ==
    IF id \in canceling THEN "canceled"
    ELSE IF jobs[id].state = "processing" THEN "completed" ELSE jobs[id].state

(* finish_job: after the job, or when start_job gives it up for a cancel   *)
(* or the shutdown.  Only a finished job loses its input.                  *)
FinishJob(id) ==
    /\ Running /\ id \in active
    /\ \/ jobs[id].state \in {"processing", "aborted"} \/ id \in canceling
       \/ jobs[id].state = "pending" /\ server = "stopping"
    /\ jobs' = [jobs EXCEPT ![id].state = FinalState(id)]
    /\ active' = active \ {id}
    /\ spooled' = IF FinalState(id) \in Terminal THEN spooled \ {id}
                  ELSE spooled
    /\ UNCHANGED <<config, server, printer, canceling, saved, history>>

Save ==
    /\ Running /\ saved' = [printer |-> printer, jobs |-> jobs]
    /\ UNCHANGED <<config, server, memory, spooled, history>>

BeginShutdown ==
    /\ server = "up" /\ server' = "stopping"
    /\ UNCHANGED <<config, memory, disk, history>>

(* An exit, a crash, a power cut, an unreadable state file.                *)
Stop ==
    /\ server # "down" /\ Forget
    /\ UNCHANGED <<config, disk, target, started>>

Next ==
    \/ Configure \/ MoveAside \/ BeginLoad \/ RefuseStart \/ Start
    \/ \E id \in Jobs : \/ LoadJob(id) \/ AcceptJob(id) \/ ReceiveDocument(id)
                        \/ StartJob(id) \/ ReportJob(id) \/ CancelJob(id)
                        \/ FinishJob(id)
    \/ Save \/ BeginShutdown \/ Stop

Spec == Init /\ [][Next]_vars

-----------------------------------------------------------------------------
(* Properties.                                                             *)

Identities == {Identity(c) : c \in Configurations}

TypeOK ==
    /\ config \in Configurations
    /\ server \in {"down", "loading", "up", "stopping"}
    /\ printer \in Identities \cup {None}
    /\ jobs \in [Jobs -> Records \cup {None}]
    /\ active \subseteq Known /\ canceling \subseteq Known
    /\ saved \in [printer : Identities \cup {None},
                  jobs : [Jobs -> Records \cup {None}]]
    /\ spooled \subseteq Jobs /\ started \subseteq Jobs
    /\ current \subseteq Known
    /\ target \in [Jobs -> Identities \cup {None}]

(* Nothing an earlier server accepted can be scheduled or printed again,   *)
(* whatever the state file said of it and wherever the load was cut short; *)
(* the input of unfinished work that the state file knew of is gone before *)
(* the server runs.                                                        *)
NothingReplayed ==
    Running => \A id \in Known \ current :
        /\ id \notin active /\ jobs[id].state \in Terminal
        /\ id \in spooled /\ jobs[id].document =>
              \A n \in DOMAIN jobs[id].message :
                  jobs[id].message[n] # "interrupted"

(* What the state file once said of a job it says for good: an outcome     *)
(* stays with its message and reasons through any stops, loads and refused *)
(* starts, and what was unfinished becomes an abort that says so once and  *)
(* still carries its last diagnostic.  Only the operator discards history. *)
(* A job that fails while it is canceled may be saved in between.          *)
Interrupted(new, old) ==
    /\ new # None /\ new.state = "aborted"
    /\ \A i \in DOMAIN old.message : \E n \in DOMAIN new.message :
          new.message[n] = old.message[i]
    /\ Cardinality({n \in DOMAIN new.message :
                       new.message[n] = "interrupted"}) = 1

HistoryKept ==
    [][saved' # FreshDirectory =>
         \A id \in Jobs : saved.jobs[id] \notin {None, saved'.jobs[id]} =>
             /\ saved.jobs[id].state \notin Terminal \/ id \in canceling
             /\ id \in current \/ Interrupted(saved'.jobs[id], saved.jobs[id])
      ]_vars

(* No job is called completed that never had the printer: one given up by  *)
(* the shutdown stays unfinished and comes back as interrupted.            *)
CompletedWasStarted ==
    \A id \in Jobs : \A record \in {jobs[id], saved.jobs[id]} :
        record # None /\ record.state = "completed" => id \in started

(* A server drives only the printer it is configured for, and has only     *)
(* history of that printer.                                                *)
ServesConfigured ==
    Running /\ printer # None =>
        /\ printer = Identity(config) /\ Drives(printer)
        /\ \A id \in Known : target[id] = printer

-----------------------------------------------------------------------------
(* Inductive strengthenings of the invariants above (HistoryProofs).       *)

(* A server that is down remembers nothing, one that loads has accepted    *)
(* nothing, and only what this server has accepted is active.              *)
MemoryInv ==
    /\ server = "down" => printer = None /\ jobs = NoJobs
    /\ ~Running => active = {} /\ canceling = {} /\ current = {}
    /\ server = "loading" => printer = saved.printer
    /\ active \subseteq current

(* Every job, in memory or saved, is of the printer beside it, and numbers *)
(* are given out once.                                                     *)
PrinterInv ==
    /\ printer # None => Drives(printer)
    /\ saved.printer # None => Drives(saved.printer)
    /\ Running /\ printer # None => printer = Identity(config)
    /\ \A id \in Known : printer # None /\ target[id] = printer
    /\ \A id \in Jobs : saved.jobs[id] # None =>
          saved.printer # None /\ target[id] = saved.printer
NumberInv ==
    \E n \in 0 .. MaxJobs : \A id \in Jobs : target[id] # None <=> id <= n

(* What any record of a job may say.                                       *)
RecordInv ==
    \A id \in Jobs : \A record \in {jobs[id], saved.jobs[id]} : record # None =>
        /\ record.state \notin Terminal =>
              record.message \in {<<>>, <<"diagnostic">>}
        /\ record.state \in {"processing", "completed"} => id \in started

(* A job of an earlier server is as its saved record was loaded; a saved   *)
(* outcome of a job of this one is still its outcome.                      *)
LoadInv ==
    /\ \A id \in Known \ current :
          saved.jobs[id] # None /\ jobs[id] = Restored(saved.jobs[id])
    /\ Running => \A id \in Jobs \ current : saved.jobs[id] # None => id \in Known
    /\ \A id \in current :
          saved.jobs[id] # None /\ saved.jobs[id].state \in Terminal
             => jobs[id] = saved.jobs[id] \/ id \in canceling

(* What was interrupted has lost its input, and no job of this server was. *)
WasInterrupted(record) ==
    record # None /\ \E n \in DOMAIN record.message :
                         record.message[n] = "interrupted"
SpoolInv ==
    /\ \A id \in Jobs : WasInterrupted(saved.jobs[id]) /\ saved.jobs[id].document
                         => id \notin spooled
    /\ \A id \in Jobs : WasInterrupted(jobs[id]) /\ jobs[id].document
                         => id \notin spooled
    /\ \A id \in current : ~WasInterrupted(jobs[id])
                            /\ ~WasInterrupted(saved.jobs[id])

IInv == TypeOK /\ MemoryInv /\ PrinterInv /\ NumberInv /\ RecordInv
        /\ LoadInv /\ SpoolInv
=============================================================================
