---------------------------- MODULE HistoryProofs ----------------------------
(* Proofs about History for any environments and number of jobs.           *)
EXTENDS History, FiniteSetTheorems, SequenceTheorems, TLAPS

(* A record that may be loaded: what was not finished carries at most its  *)
(* last diagnostic.                                                        *)
Saveable(record) ==
    /\ record \in Records
    /\ record.state \notin Terminal => record.message \in {<<>>, <<"diagnostic">>}

(* The messages of a load.                                                 *)
LEMMA Prefixed ==
    /\ <<"interrupted">> \o <<>> = <<"interrupted">>
    /\ <<"interrupted">> \o <<"diagnostic">> = <<"interrupted", "diagnostic">>
<1> DEFINE S == {"interrupted", "diagnostic"}
           a == <<"interrupted">>  b == <<"diagnostic">>
           ab == <<"interrupted", "diagnostic">>
<1>1. a \in Seq(S) /\ b \in Seq(S) /\ ab \in Seq(S)
  OBVIOUS
<1>2. Len(a) = 1 /\ Len(b) = 1 /\ Len(ab) = 2
  OBVIOUS
<1>3. /\ a \o b \in Seq(S) /\ Len(a \o b) = 2
      /\ (a \o b)[1] = a[1] /\ (a \o b)[2] = b[1]
  <2> HIDE DEF S, a, b
  <2>1. /\ a \o b \in Seq(S) /\ Len(a \o b) = Len(a) + Len(b)
        /\ \A i \in 1 .. Len(a) + Len(b) :
              (a \o b)[i] = IF i <= Len(a) THEN a[i] ELSE b[i - Len(a)]
    BY <1>1, ConcatProperties, Zenon
  <2> QED
    BY <1>2, <2>1
<1>4. ab[1] = a[1] /\ ab[2] = b[1]
  OBVIOUS
<1>5. \A i \in 1 .. 2 : (a \o b)[i] = ab[i]
  BY <1>3, <1>4
<1>6. a \o b = ab
  <2> HIDE DEF a, b, ab
  <2> QED
    BY <1>1, <1>2, <1>3, <1>5, SeqEqual
<1>7. a \o <<>> = a
  BY <1>1, ConcatEmptySeq
<1> QED
  BY <1>6, <1>7

(* What a load makes of a record: finished work is as it was, and the rest *)
(* is an abort that says so.                                               *)
LEMMA RestoredRecord ==
    ASSUME NEW record, Saveable(record)
    PROVE  LET r == Restored(record)
           IN  /\ Saveable(r) /\ r.state \in Terminal /\ Restored(r) = r
               /\ r.document = record.document
               /\ record.state \in Terminal => r = record
               /\ record.state \notin Terminal =>
                     r.state = "aborted" /\ r.message = <<"interrupted">> \o record.message
<1>1. CASE record.state \in Terminal
  BY <1>1 DEF Saveable, Restored
<1>2. CASE record.state \notin Terminal
  <2>1. Restored(record) = [record EXCEPT !.state = "aborted",
                               !.message = <<"interrupted">> \o record.message,
                               !.reasons = record.reasons \cup {"aborted-by-system"}]
    BY <1>2 DEF Restored
  <2>2. <<"interrupted">> \o record.message
           \in {<<"interrupted">>, <<"interrupted", "diagnostic">>}
    BY <1>2, Prefixed DEF Saveable
  <2>3. /\ Restored(record).state = "aborted"
        /\ Restored(record).message = <<"interrupted">> \o record.message
        /\ Restored(record).document = record.document
        /\ Restored(record) \in Records
    <3> DEFINE m == <<"interrupted">> \o record.message
    <3>1. record \in Records
      BY DEF Saveable
    <3>2. m \in {<<"interrupted">>, <<"interrupted", "diagnostic">>}
      BY <2>2
    <3>3. Restored(record) = [record EXCEPT !.state = "aborted", !.message = m,
                                 !.reasons = record.reasons \cup {"aborted-by-system"}]
      BY <2>1
    <3> HIDE DEF m
    <3>4. Restored(record) = [state |-> "aborted", document |-> record.document,
                               message |-> m,
                               reasons |-> record.reasons \cup {"aborted-by-system"}]
      BY <3>1, <3>3 DEF Records
    <3>5. /\ record.document \in BOOLEAN
          /\ record.reasons \cup {"aborted-by-system"} \in SUBSET {"aborted-by-system"}
      BY <3>1 DEF Records
    <3>6. Restored(record) \in Records
      BY <3>2, <3>4, <3>5 DEF Records, Terminal
    <3> QED
      BY <3>4, <3>6 DEF m
  <2> QED
    BY <1>2, <2>3 DEF Saveable, Restored, Terminal
<1> QED
  BY <1>1, <1>2

(* Numbers are given out in order, so the next one is free.                *)
LEMMA NextNumber ==
    ASSUME NumberInv, NEW id \in Jobs, MaxJobs \in Nat,
           id = Cardinality({i \in Jobs : target[i] # None}) + 1
    PROVE  \A i \in Jobs : target[i] # None <=> i < id
<1>1. PICK n \in 0 .. MaxJobs : \A i \in Jobs : target[i] # None <=> i <= n
  BY DEF NumberInv
<1>2. {i \in Jobs : target[i] # None} = 1 .. n
  BY <1>1 DEF Jobs
<1>3. Cardinality(1 .. n) = n
  BY <1>1, FS_Interval
<1> QED
  <2>1. id = n + 1
    BY <1>1, <1>2, <1>3
  <2> QED
    BY <1>1, <2>1 DEF Jobs

(* Every record there is may be loaded.                                    *)
LEMMA AllSaveable ==
    ASSUME TypeOK, RecordInv, NEW id \in Jobs
    PROVE  /\ jobs[id] # None => Saveable(jobs[id])
           /\ saved.jobs[id] # None => Saveable(saved.jobs[id])
  BY DEF TypeOK, RecordInv, Saveable

LEMMA SaveableKnown == ASSUME NEW record, Saveable(record) PROVE record # None
  BY NoneAssumption DEF Saveable

(* What a document, a start, a report and the end of a job have in common: *)
(* they change one active job, whose outcome is only changed by a cancel.  *)
Work(id) == ReceiveDocument(id) \/ StartJob(id) \/ ReportJob(id) \/ FinishJob(id)

LEMMA Worked ==
    ASSUME IInv, NEW id \in Jobs, Work(id)
    PROVE  /\ Running /\ id \in active /\ id \in current /\ jobs[id] # None
           /\ UNCHANGED <<config, server, printer, saved, target, current,
                          canceling>>
           /\ jobs' \in [Jobs -> Records \cup {None}] /\ active' \subseteq active
           /\ \A i \in Jobs \ {id} : jobs'[i] = jobs[i]
           /\ Saveable(jobs'[id]) /\ ~WasInterrupted(jobs'[id])
           /\ started \subseteq started' /\ started' \subseteq Jobs
           /\ jobs'[id].state \in {"processing", "completed"} => id \in started'
           /\ jobs[id].state \in Terminal => jobs'[id] = jobs[id] \/ id \in canceling
           /\ spooled' \subseteq spooled \cup {id}
<1>1. Running /\ id \in active
  BY DEF Work, ReceiveDocument, StartJob, ReportJob, FinishJob, Active
<1>2. id \in current /\ jobs[id] # None /\ jobs[id] \in Records
  BY <1>1 DEF IInv, TypeOK, MemoryInv, Known
<1>3. Saveable(jobs[id]) /\ ~WasInterrupted(jobs[id])
  BY <1>2, AllSaveable DEF IInv, SpoolInv
<1>4. \A m \in {jobs[id].message, <<"diagnostic">>} :
         \A n \in DOMAIN m : m[n] # "interrupted"
  BY <1>2, <1>3 DEF WasInterrupted
<1>5. jobs[id].state \in {"processing", "completed"} => id \in started
  BY <1>2 DEF IInv, RecordInv
<1>6. CASE ReceiveDocument(id)
  <2>1. jobs' = [jobs EXCEPT ![id] = [jobs[id] EXCEPT !.document = TRUE,
                                                     !.state = "pending"]]
    BY <1>2, <1>6 DEF ReceiveDocument, IInv, TypeOK
  <2>2. jobs[id].state = "held"
    BY <1>6 DEF ReceiveDocument, Active
  <2>3. /\ jobs'[id] \in Records /\ jobs'[id].state = "pending"
        /\ jobs'[id].message = jobs[id].message
    BY <1>2, <2>1 DEF IInv, TypeOK, Records
  <2>4. Saveable(jobs'[id]) /\ ~WasInterrupted(jobs'[id])
    BY <1>3, <1>4, <2>2, <2>3 DEF Saveable, WasInterrupted, Terminal
  <2> QED
    BY <1>1, <1>2, <1>6, <2>1, <2>2, <2>3, <2>4
       DEF ReceiveDocument, IInv, TypeOK, Terminal, history
<1>7. CASE StartJob(id)
  <2>1. jobs' = [jobs EXCEPT ![id] = [jobs[id] EXCEPT !.state = "processing"]]
    BY <1>2, <1>7 DEF StartJob, IInv, TypeOK
  <2>2. jobs[id].state = "pending"
    BY <1>7 DEF StartJob, Active
  <2>3. /\ jobs'[id] \in Records /\ jobs'[id].state = "processing"
        /\ jobs'[id].message = jobs[id].message
    BY <1>2, <2>1 DEF IInv, TypeOK, Records
  <2>4. Saveable(jobs'[id]) /\ ~WasInterrupted(jobs'[id])
    BY <1>3, <1>4, <2>2, <2>3 DEF Saveable, WasInterrupted, Terminal
  <2> QED
    BY <1>1, <1>2, <1>7, <2>1, <2>2, <2>3, <2>4
       DEF StartJob, IInv, TypeOK, Terminal, disk
<1>8. CASE ReportJob(id)
  <2>0. id \in DOMAIN jobs
    BY <1>2 DEF IInv, TypeOK
  <2>1. PICK message \in {jobs[id].message, <<"diagnostic">>},
             state \in {"processing", "aborted"} :
           jobs' = [jobs EXCEPT ![id] =
                       [jobs[id] EXCEPT !.message = message, !.state = state,
                          !.reasons = IF state = "aborted"
                                      THEN @ \cup {"aborted-by-system"} ELSE @]]
    <3>1. PICK message \in {jobs[id].message, <<"diagnostic">>},
               state \in {"processing", "aborted"} :
             jobs' = [jobs EXCEPT ![id].message = message, ![id].state = state,
                        ![id].reasons = IF state = "aborted"
                                        THEN @ \cup {"aborted-by-system"} ELSE @]
      BY <1>8, Zenon DEF ReportJob
    <3> WITNESS message \in {jobs[id].message, <<"diagnostic">>},
                state \in {"processing", "aborted"}
    <3> QED
      BY <2>0, <3>1
  <2>2. jobs[id].state = "processing"
    BY <1>8 DEF ReportJob, Active
  <2>3. message \in {<<>>, <<"diagnostic">>}
    <3>1. jobs[id].message \in {<<>>, <<"diagnostic">>}
      BY <1>3, <2>2 DEF Saveable, Terminal
    <3> QED
      BY <3>1
  <2>4. /\ jobs'[id] \in Records /\ jobs'[id].state = state
        /\ jobs'[id].message = message
    BY <1>2, <2>1, <2>3 DEF IInv, TypeOK, Records, Terminal
  <2>5. Saveable(jobs'[id]) /\ ~WasInterrupted(jobs'[id])
    BY <1>4, <2>3, <2>4 DEF Saveable, WasInterrupted
  <2> QED
    BY <1>1, <1>2, <1>5, <1>8, <2>1, <2>2, <2>4, <2>5
       DEF ReportJob, IInv, TypeOK, Terminal, disk, history
<1>9. CASE FinishJob(id)
  <2>1. jobs' = [jobs EXCEPT ![id] = [jobs[id] EXCEPT !.state = FinalState(id)]]
    BY <1>2, <1>9 DEF FinishJob, IInv, TypeOK
  <2>2. FinalState(id) \in {"canceled", "completed", jobs[id].state}
    BY DEF FinalState
  <2>3. /\ jobs'[id] \in Records /\ jobs'[id].state = FinalState(id)
        /\ jobs'[id].message = jobs[id].message
    BY <1>2, <2>1, <2>2 DEF IInv, TypeOK, Records, Terminal
  <2>4. Saveable(jobs'[id]) /\ ~WasInterrupted(jobs'[id])
    BY <1>3, <1>4, <2>2, <2>3 DEF Saveable, WasInterrupted, Terminal
  <2>5. FinalState(id) \in {"processing", "completed"} => id \in started
    BY <1>5 DEF FinalState
  <2>6. jobs[id].state \in Terminal => jobs'[id] = jobs[id] \/ id \in canceling
    <3> SUFFICES ASSUME jobs[id].state \in Terminal, id \notin canceling
                 PROVE  jobs'[id] = jobs[id]
      OBVIOUS
    <3>1. FinalState(id) = jobs[id].state
      BY DEF FinalState, Terminal
    <3> QED
      BY <1>2, <2>1, <3>1 DEF IInv, TypeOK, Records
  <2> QED
    BY <1>1, <1>2, <1>9, <2>1, <2>3, <2>4, <2>5, <2>6
       DEF FinishJob, IInv, TypeOK, history
<1> QED
  BY <1>6, <1>7, <1>8, <1>9 DEF Work

(* The inductive invariant holds of every reachable state.                 *)
LEMMA IInvStep == IInv /\ [Next]_vars => IInv'
<1> SUFFICES ASSUME IInv, [Next]_vars PROVE IInv'
  OBVIOUS
<1> USE DEF memory, disk, history
<1>1. CASE Configure
  <2>1. TypeOK'
    BY <1>1 DEF Configure, IInv, TypeOK, Known
  <2>2. MemoryInv' /\ PrinterInv'
    BY <1>1 DEF Configure, IInv, MemoryInv, PrinterInv, Running, Known
  <2>3. NumberInv' /\ RecordInv' /\ SpoolInv'
    BY <1>1 DEF Configure, IInv, NumberInv, RecordInv, SpoolInv
  <2>4. LoadInv'
    BY <1>1 DEF Configure, IInv, LoadInv, Running, Known
  <2> QED
    BY <2>1, <2>2, <2>3, <2>4 DEF IInv
<1>2. CASE MoveAside
  <2>1. saved'.printer = None /\ \A id \in Jobs : saved'.jobs[id] = None
    BY <1>2 DEF MoveAside, FreshDirectory, NoJobs
  <2>2. TypeOK'
    BY <1>2 DEF MoveAside, FreshDirectory, NoJobs, IInv, TypeOK, Known
  <2>3. MemoryInv' /\ PrinterInv'
    BY <1>2, <2>1 DEF MoveAside, IInv, MemoryInv, PrinterInv, Running, Known
  <2>4. NumberInv' /\ RecordInv'
    BY <1>2, <2>1 DEF MoveAside, IInv, NumberInv, RecordInv
  <2>5. jobs = NoJobs /\ current = {}
    BY <1>2 DEF MoveAside, IInv, MemoryInv, Running
  <2>6. LoadInv' /\ SpoolInv'
    BY <1>2, <2>1, <2>5 DEF MoveAside, IInv, LoadInv, SpoolInv, NoJobs, Known,
                            Running, WasInterrupted
  <2> QED
    BY <2>2, <2>3, <2>4, <2>6 DEF IInv
<1>3. CASE BeginLoad
  <2>1. TypeOK'
    BY <1>3 DEF BeginLoad, IInv, TypeOK, Known
  <2>2. jobs = NoJobs /\ current = {} /\ Known = {}
    BY <1>3 DEF BeginLoad, IInv, MemoryInv, Running, NoJobs, Known
  <2>3. MemoryInv' /\ PrinterInv'
    BY <1>3, <2>2 DEF BeginLoad, IInv, MemoryInv, PrinterInv, Running, Known
  <2>4. NumberInv' /\ RecordInv' /\ SpoolInv'
    BY <1>3 DEF BeginLoad, IInv, NumberInv, RecordInv, SpoolInv
  <2>5. LoadInv'
    BY <1>3, <2>2 DEF BeginLoad, IInv, LoadInv, Running, Known
  <2> QED
    BY <2>1, <2>3, <2>4, <2>5 DEF IInv
<1>4. CASE RefuseStart \/ Stop
  <2>1. Forget /\ UNCHANGED <<config, disk, target, started>>
    BY <1>4 DEF RefuseStart, Stop
  <2>2. \A id \in Jobs : jobs'[id] = None
    BY <2>1 DEF Forget, NoJobs
  <2>3. TypeOK'
    BY <2>1 DEF Forget, NoJobs, IInv, TypeOK, Known
  <2>4. MemoryInv' /\ PrinterInv'
    BY <2>1, <2>2 DEF Forget, IInv, MemoryInv, PrinterInv, Running, Known
  <2>5. NumberInv' /\ RecordInv' /\ SpoolInv'
    BY <2>1, <2>2 DEF Forget, IInv, NumberInv, RecordInv, SpoolInv,
                      WasInterrupted
  <2>6. LoadInv'
    BY <2>1, <2>2 DEF Forget, IInv, LoadInv, Running, Known
  <2> QED
    BY <2>3, <2>4, <2>5, <2>6 DEF IInv
<1>5. CASE Start
  <2>1. TypeOK'
    BY <1>5 DEF Start, Loaded, IInv, TypeOK, Known, Identities
  <2>2. MemoryInv'
    BY <1>5 DEF Start, Loaded, IInv, MemoryInv, Running
  <2>3. printer = None => Known = {}
    BY DEF IInv, PrinterInv
  <2>4. PrinterInv'
    BY <1>5, <2>3 DEF Start, Loaded, Conflicts, IInv, PrinterInv, Known, Running
  <2>5. NumberInv' /\ RecordInv' /\ SpoolInv'
    BY <1>5 DEF Start, IInv, NumberInv, RecordInv, SpoolInv
  <2>6. \A id \in Jobs : saved.jobs[id] # None => id \in Known
    BY <1>5 DEF Start, Loaded, Loadable
  <2>7. LoadInv'
    BY <1>5, <2>6 DEF Start, IInv, LoadInv, Running, Known
  <2> QED
    BY <2>1, <2>2, <2>4, <2>5, <2>7 DEF IInv
<1>6. ASSUME NEW id \in Jobs, LoadJob(id) PROVE IInv'
  <2> DEFINE r == saved.jobs[id]
  <2>1. /\ server = "loading" /\ id \notin Known /\ r # None
        /\ jobs' = [jobs EXCEPT ![id] = Restored(r)]
        /\ spooled' = IF r.state \notin Terminal /\ r.document
                      THEN spooled \ {id} ELSE spooled
        /\ UNCHANGED <<config, server, printer, active, canceling, saved,
                       history>>
    BY <1>6 DEF LoadJob
  <2>2. Saveable(r) /\ Saveable(Restored(r)) /\ Restored(r) # None
    BY <2>1, AllSaveable, RestoredRecord, SaveableKnown DEF IInv
  <2>3. /\ jobs' \in [Jobs -> Records \cup {None}] /\ jobs'[id] = Restored(r)
        /\ \A i \in Jobs \ {id} : jobs'[i] = jobs[i]
    BY <2>1, <2>2 DEF IInv, TypeOK, Saveable
  <2>4. Known' = Known \cup {id} /\ current = {} /\ active = {}
    BY <2>1, <2>2, <2>3 DEF Known, IInv, MemoryInv, Running
  <2> HIDE DEF r
  <2>5. TypeOK'
    BY <2>1, <2>3, <2>4 DEF IInv, TypeOK
  <2>6. MemoryInv'
    BY <2>1 DEF IInv, MemoryInv, Running
  <2>7. saved.printer # None /\ target[id] = saved.printer /\ printer = saved.printer
    BY <2>1 DEF IInv, PrinterInv, MemoryInv, r
  <2>8. PrinterInv'
    BY <2>1, <2>4, <2>7 DEF IInv, PrinterInv, Running
  <2>9. NumberInv'
    BY <2>1 DEF IInv, NumberInv
  <2>10. RecordInv'
    <3>1. /\ r.state \in {"processing", "completed"} => id \in started
          /\ Restored(r).state \in {"processing", "completed"}
                => r.state = "completed"
      BY <2>1, <2>2, RestoredRecord DEF IInv, RecordInv, Terminal, r
    <3> QED
      BY <2>1, <2>2, <2>3, <3>1 DEF IInv, RecordInv, Saveable
  <2>11. LoadInv'
    <3>1. saved' = saved /\ current' = {} /\ ~Running'
      BY <2>1, <2>4 DEF Running
    <3>2. \A i \in Known' :
             saved'.jobs[i] # None /\ jobs'[i] = Restored(saved'.jobs[i])
      BY <2>1, <2>3, <2>4, <3>1 DEF IInv, LoadInv, r, Known
    <3> QED
      BY <3>1, <3>2 DEF LoadInv
  <2>12. SpoolInv'
    <3>1. Restored(r).document /\ WasInterrupted(Restored(r)) => id \notin spooled'
      BY <2>1, <2>2, RestoredRecord DEF IInv, SpoolInv, r
    <3>2. spooled' \subseteq spooled
      BY <2>1
    <3> QED
      BY <2>1, <2>3, <2>4, <3>1, <3>2 DEF IInv, SpoolInv
  <2> QED
    BY <2>5, <2>6, <2>8, <2>9, <2>10, <2>11, <2>12 DEF IInv
<1>7. ASSUME NEW id \in Jobs, AcceptJob(id) PROVE IInv'
  <2>1. /\ server = "up" /\ printer # None
        /\ id = Cardinality({i \in Jobs : target[i] # None}) + 1
        /\ jobs' = [jobs EXCEPT ![id] = NewJob]
        /\ active' = active \cup {id} /\ current' = current \cup {id}
        /\ target' = [target EXCEPT ![id] = printer]
        /\ UNCHANGED <<config, server, printer, canceling, disk, started>>
    BY <1>7 DEF AcceptJob
  <2>2. \A i \in Jobs : target[i] # None <=> i < id
    BY <2>1, NextNumber, JobsAssumption DEF IInv
  <2>3. target[id] = None /\ id \notin Known /\ saved.jobs[id] = None
    BY <2>2 DEF IInv, PrinterInv, Jobs
  <2>4. Saveable(NewJob) /\ NewJob # None /\ ~WasInterrupted(NewJob)
    <3>1. NewJob \in Records /\ NewJob.message = <<>>
      BY DEF NewJob, Records
    <3>2. Saveable(NewJob)
      BY <3>1 DEF Saveable
    <3>3. DOMAIN NewJob.message = {}
      BY <3>1
    <3> QED
      BY <3>2, <3>3, SaveableKnown DEF WasInterrupted
  <2>5. /\ jobs' \in [Jobs -> Records \cup {None}] /\ jobs'[id] = NewJob
        /\ \A i \in Jobs \ {id} : jobs'[i] = jobs[i]
    BY <2>1, <2>4 DEF IInv, TypeOK, Saveable
  <2>6. Known' = Known \cup {id}
    BY <2>4, <2>5 DEF Known
  <2>7. /\ target' \in [Jobs -> Identities \cup {None}] /\ target'[id] = printer
        /\ \A i \in Jobs \ {id} : target'[i] = target[i]
    BY <2>1 DEF IInv, TypeOK
  <2>8. TypeOK'
    BY <2>1, <2>5, <2>6, <2>7 DEF IInv, TypeOK
  <2>9. MemoryInv'
    BY <2>1 DEF IInv, MemoryInv, Running
  <2>10. PrinterInv'
    BY <2>1, <2>3, <2>6, <2>7 DEF IInv, PrinterInv, Running, Known
  <2>11. NumberInv'
    <3>1. \A i \in Jobs : target'[i] # None <=> i <= id
      BY <2>1, <2>2, <2>7, JobsAssumption DEF Jobs
    <3> QED
      BY <3>1, JobsAssumption DEF NumberInv, Jobs
  <2>12. RecordInv'
    BY <2>1, <2>4, <2>5 DEF IInv, RecordInv, NewJob
  <2>13. LoadInv'
    BY <2>1, <2>3, <2>5, <2>6 DEF IInv, LoadInv, Running
  <2>14. SpoolInv'
    BY <2>1, <2>3, <2>4, <2>5 DEF IInv, SpoolInv, WasInterrupted
  <2> QED
    BY <2>8, <2>9, <2>10, <2>11, <2>12, <2>13, <2>14 DEF IInv
<1>8. ASSUME NEW id \in Jobs, Work(id) PROVE IInv'
  <2>1. /\ Running /\ id \in active /\ id \in current /\ jobs[id] # None
        /\ UNCHANGED <<config, server, printer, saved, target, current,
                       canceling>>
        /\ jobs' \in [Jobs -> Records \cup {None}] /\ active' \subseteq active
        /\ \A i \in Jobs \ {id} : jobs'[i] = jobs[i]
        /\ Saveable(jobs'[id]) /\ ~WasInterrupted(jobs'[id])
        /\ started \subseteq started' /\ started' \subseteq Jobs
        /\ jobs'[id].state \in {"processing", "completed"} => id \in started'
        /\ jobs[id].state \in Terminal => jobs'[id] = jobs[id] \/ id \in canceling
        /\ spooled' \subseteq spooled \cup {id}
    BY <1>8, Worked
  <2>2. jobs'[id] # None /\ Known' = Known
    BY <2>1, SaveableKnown DEF Known
  <2>3. TypeOK'
    BY <2>1, <2>2 DEF IInv, TypeOK
  <2>4. MemoryInv'
    BY <2>1 DEF IInv, MemoryInv, Running
  <2>5. PrinterInv'
    BY <2>1, <2>2 DEF IInv, PrinterInv, Running
  <2>6. NumberInv'
    BY <2>1 DEF IInv, NumberInv
  <2>7. RecordInv'
    BY <2>1 DEF IInv, RecordInv, Saveable
  <2>8. LoadInv'
    <3>1. \A i \in Known' \ current' : jobs'[i] = jobs[i]
      BY <2>1, <2>2 DEF Known
    <3>2. saved.jobs[id] # None /\ saved.jobs[id].state \in Terminal
             => jobs'[id] = saved.jobs[id] \/ id \in canceling
      BY <2>1 DEF IInv, LoadInv
    <3> QED
      BY <2>1, <2>2, <3>1, <3>2 DEF IInv, LoadInv, Running, TypeOK, Known
  <2>9. SpoolInv'
    <3>1. ~WasInterrupted(jobs'[id]) /\ ~WasInterrupted(saved'.jobs[id])
      BY <2>1 DEF IInv, SpoolInv
    <3>2. \A i \in Jobs \ {id} : i \notin spooled => i \notin spooled'
      BY <2>1
    <3>3. \A i \in Jobs : WasInterrupted(jobs'[i]) /\ jobs'[i].document => i \notin spooled'
      BY <2>1, <3>1, <3>2 DEF IInv, SpoolInv
    <3>4. \A i \in Jobs : WasInterrupted(saved'.jobs[i]) /\ saved'.jobs[i].document
                            => i \notin spooled'
      BY <2>1, <3>1, <3>2 DEF IInv, SpoolInv
    <3>5. \A i \in current' : ~WasInterrupted(jobs'[i]) /\ ~WasInterrupted(saved'.jobs[i])
      BY <2>1, <3>1 DEF IInv, SpoolInv, TypeOK, Known
    <3> QED
      BY <3>3, <3>4, <3>5 DEF SpoolInv
  <2> QED
    BY <2>3, <2>4, <2>5, <2>6, <2>7, <2>8, <2>9 DEF IInv
<1>9. ASSUME NEW id \in Jobs, CancelJob(id) PROVE IInv'
  <2>1. TypeOK'
    BY <1>9 DEF CancelJob, IInv, TypeOK, Known
  <2>2. MemoryInv' /\ PrinterInv'
    BY <1>9 DEF CancelJob, IInv, MemoryInv, PrinterInv, Running, Known
  <2>3. NumberInv' /\ RecordInv' /\ SpoolInv'
    BY <1>9 DEF CancelJob, IInv, NumberInv, RecordInv, SpoolInv
  <2>4. LoadInv'
    BY <1>9 DEF CancelJob, IInv, LoadInv, Running, Known
  <2> QED
    BY <2>1, <2>2, <2>3, <2>4 DEF IInv
<1>10. CASE Save
  <2>1. /\ Running /\ saved'.printer = printer /\ saved'.jobs = jobs
        /\ UNCHANGED <<config, server, memory, spooled, history>>
    BY <1>10 DEF Save
  <2>2. TypeOK'
    BY <1>10 DEF Save, IInv, TypeOK, Known
  <2>3. MemoryInv' /\ NumberInv'
    BY <2>1 DEF IInv, MemoryInv, NumberInv, Running
  <2>4. PrinterInv'
    BY <2>1 DEF IInv, PrinterInv, Running, Known
  <2>5. RecordInv' /\ SpoolInv'
    BY <2>1 DEF IInv, RecordInv, SpoolInv
  <2>6. \A id \in Known \ current : jobs[id] = Restored(jobs[id])
    BY AllSaveable, RestoredRecord DEF IInv, LoadInv, Known
  <2>7. LoadInv'
    BY <2>1, <2>6 DEF LoadInv, Known, Running
  <2> QED
    BY <2>2, <2>3, <2>4, <2>5, <2>7 DEF IInv
<1>11. CASE BeginShutdown
  <2>1. TypeOK'
    BY <1>11 DEF BeginShutdown, IInv, TypeOK, Known
  <2>2. MemoryInv' /\ PrinterInv'
    BY <1>11 DEF BeginShutdown, IInv, MemoryInv, PrinterInv, Running, Known
  <2>3. NumberInv' /\ RecordInv' /\ SpoolInv'
    BY <1>11 DEF BeginShutdown, IInv, NumberInv, RecordInv, SpoolInv
  <2>4. LoadInv'
    BY <1>11 DEF BeginShutdown, IInv, LoadInv, Running, Known
  <2> QED
    BY <2>1, <2>2, <2>3, <2>4 DEF IInv
<1>12. CASE UNCHANGED vars
  BY <1>12 DEF vars, IInv, TypeOK, MemoryInv, PrinterInv, NumberInv, RecordInv,
               LoadInv, SpoolInv, Running, Known
<1> QED
  BY <1>1, <1>2, <1>3, <1>4, <1>5, <1>6, <1>7, <1>8, <1>9, <1>10, <1>11, <1>12
     DEF Next, Work

THEOREM IInvCorrect == Spec => []IInv
<1>1. Init => IInv
  <2> SUFFICES ASSUME Init PROVE IInv
    OBVIOUS
  <2>1. /\ \A id \in Jobs : jobs[id] = None /\ saved.jobs[id] = None /\ target[id] = None
        /\ Known = {} /\ saved.printer = None
    BY DEF Init, NoJobs, FreshDirectory, Known
  <2>2. TypeOK
    BY <2>1 DEF Init, TypeOK, NoJobs, FreshDirectory
  <2>3. MemoryInv /\ PrinterInv
    BY <2>1 DEF Init, MemoryInv, PrinterInv, Running
  <2>4. NumberInv
    BY <2>1, JobsAssumption DEF NumberInv, Jobs
  <2>5. RecordInv /\ LoadInv /\ SpoolInv
    BY <2>1 DEF Init, RecordInv, LoadInv, SpoolInv, WasInterrupted, Running
  <2> QED
    BY <2>2, <2>3, <2>4, <2>5 DEF IInv
<1> QED
  BY <1>1, IInvStep, PTL DEF Spec

(* All variables stay within their types: no record of a job says anything *)
(* but what PAPPL and the load put there, and only known jobs are active.  *)
THEOREM TypeCorrect == Spec => []TypeOK
<1>1. IInv => TypeOK
  BY DEF IInv
<1> QED
  BY <1>1, IInvCorrect, PTL

(* No job of an earlier server is scheduled or printed again, and input of *)
(* interrupted work is gone: what is not of this server is as its record   *)
(* was loaded, and a load leaves nothing unfinished.                       *)
THEOREM NothingReplayedCorrect == Spec => []NothingReplayed
<1>1. IInv => NothingReplayed
  <2> SUFFICES ASSUME IInv, Running, NEW id \in Known \ current
               PROVE  /\ id \notin active /\ jobs[id].state \in Terminal
                      /\ id \in spooled /\ jobs[id].document =>
                            \A n \in DOMAIN jobs[id].message :
                                jobs[id].message[n] # "interrupted"
    BY DEF NothingReplayed
  <2>1. id \in Jobs /\ jobs[id] # None
    BY DEF Known
  <2>2. id \notin active
    BY DEF IInv, MemoryInv
  <2>3. saved.jobs[id] # None /\ jobs[id] = Restored(saved.jobs[id])
    BY DEF IInv, LoadInv
  <2>4. jobs[id].state \in Terminal
    BY <2>1, <2>3, AllSaveable, RestoredRecord DEF IInv
  <2>5. id \in spooled /\ jobs[id].document => ~WasInterrupted(jobs[id])
    BY <2>1 DEF IInv, SpoolInv
  <2> QED
    BY <2>1, <2>2, <2>4, <2>5 DEF WasInterrupted
<1> QED
  BY <1>1, IInvCorrect, PTL

(* Nothing is called completed, in memory or in the state file, that never *)
(* had the printer.                                                        *)
THEOREM CompletedWasStartedCorrect == Spec => []CompletedWasStarted
<1>1. IInv => CompletedWasStarted
  BY DEF IInv, RecordInv, CompletedWasStarted
<1> QED
  BY <1>1, IInvCorrect, PTL

(* A running server drives the printer of its environment and no other and *)
(* has only jobs of that printer, whatever state file it found.            *)
THEOREM ServesConfiguredCorrect == Spec => []ServesConfigured
<1>1. IInv => ServesConfigured
  BY DEF IInv, PrinterInv, ServesConfigured
<1> QED
  BY <1>1, IInvCorrect, PTL

(* What a load makes of unfinished work says that it was interrupted, once,*)
(* and what it said before.                                                *)
LEMMA RestoredInterrupted ==
    ASSUME NEW record, Saveable(record), record.state \notin Terminal
    PROVE  Interrupted(Restored(record), record)
<1> DEFINE new == Restored(record)
<1>1. /\ new # None /\ new.state = "aborted"
      /\ new.message = <<"interrupted">> \o record.message
  BY RestoredRecord, SaveableKnown
<1>2. record.message \in {<<>>, <<"diagnostic">>}
  BY DEF Saveable
<1>3. /\ 1 \in DOMAIN new.message
      /\ \A n \in DOMAIN new.message : new.message[n] = "interrupted" <=> n = 1
      /\ \A i \in DOMAIN record.message :
            \E n \in DOMAIN new.message : new.message[n] = record.message[i]
  <2>1. CASE record.message = <<>>
    <3>1. new.message = <<"interrupted">>
      BY <1>1, <2>1, Prefixed
    <3> HIDE DEF new
    <3> QED
      BY <2>1, <3>1
  <2>2. CASE record.message = <<"diagnostic">>
    <3>1. new.message = <<"interrupted", "diagnostic">>
      BY <1>1, <2>2, Prefixed
    <3> HIDE DEF new
    <3>2. DOMAIN new.message = {1, 2} /\ new.message[1] = "interrupted"
          /\ new.message[2] = "diagnostic"
      BY <3>1
    <3>3. DOMAIN record.message = {1} /\ record.message[1] = "diagnostic"
      BY <2>2
    <3> QED
      BY <3>2, <3>3
  <2> QED
    BY <1>2, <2>1, <2>2
<1> HIDE DEF new
<1>4. {n \in DOMAIN new.message : new.message[n] = "interrupted"} = {1}
  BY <1>3
<1>5. Cardinality({1}) = 1
  BY FS_Singleton
<1> QED
  BY <1>1, <1>3, <1>4, <1>5 DEF Interrupted, new

(* What the state file once said of a job it says for good, through stops  *)
(* at any point of a load, refused starts and saves at any time: only what *)
(* was unfinished changes, into an abort that says so once, or while it is *)
(* canceled.                                                               *)
THEOREM HistoryKeptCorrect == Spec => HistoryKept
<1> DEFINE Kept == saved' # FreshDirectory =>
              \A id \in Jobs : saved.jobs[id] \notin {None, saved'.jobs[id]} =>
                  /\ saved.jobs[id].state \notin Terminal \/ id \in canceling
                  /\ id \in current \/ Interrupted(saved'.jobs[id], saved.jobs[id])
<1>1. IInv /\ [Next]_vars => [Kept]_vars
  <2> SUFFICES ASSUME IInv, [Next]_vars, saved' # FreshDirectory,
                      NEW id \in Jobs, saved.jobs[id] # None,
                      saved.jobs[id] # saved'.jobs[id]
               PROVE  /\ saved.jobs[id].state \notin Terminal \/ id \in canceling
                      /\ id \in current
                            \/ Interrupted(saved'.jobs[id], saved.jobs[id])
    OBVIOUS
  <2> DEFINE old == saved.jobs[id]
  <2>1. Save
    <3>1. saved' # saved
      OBVIOUS
    <3> QED
      BY <3>1 DEF Next, vars, disk, memory, Configure, MoveAside, BeginLoad,
                  RefuseStart, Start, LoadJob, AcceptJob, ReceiveDocument,
                  StartJob, ReportJob, CancelJob, FinishJob, BeginShutdown, Stop
  <2>2. Running /\ saved'.jobs[id] = jobs[id]
    BY <2>1 DEF Save
  <2>3. Saveable(old)
    BY AllSaveable DEF IInv
  <2>4. id \notin current =>
           /\ old.state \notin Terminal
           /\ jobs[id] = Restored(old)
    BY <2>2, <2>3, RestoredRecord DEF IInv, LoadInv
  <2>5. id \in current => old.state \notin Terminal \/ id \in canceling
    BY <2>2 DEF IInv, LoadInv
  <2> QED
    BY <2>2, <2>3, <2>4, <2>5, RestoredInterrupted
<1> QED
  BY <1>1, IInvCorrect, PTL DEF Spec, HistoryKept
=============================================================================
