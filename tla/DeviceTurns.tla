----------------------------- MODULE DeviceTurns -----------------------------
(***************************************************************************)
(* What the queue promises of its device, without threads, printer states  *)
(* or a scheduler: one user at a time; a job has it once; a cut has it     *)
(* after every job accepted before it and before any job accepted after    *)
(* it, cuts in the order they were accepted; a poll never ahead of a cut   *)
(* that is due.                                                            *)
(*                                                                         *)
(* DeviceQueue implements it (DeviceQueue!TakesTurns).                     *)
(***************************************************************************)
EXTENDS Naturals, Sequences, SequencesExt

CONSTANTS Jobs, Cuts     \* jobs are numbered in the order of acceptance

VARIABLES
    user,       \* <<"job", j>>, <<"cut", c>>, <<"poll">> or <<>>
    accepted,   \* how many jobs have been accepted
    active,     \* jobs accepted and not ended
    begun,      \* jobs that have had the device
    line        \* the cuts waiting, each with the last job before it

turns == <<user, accepted, active, begun, line>>

Free == user = <<>>

Init == Free /\ accepted = 0 /\ active = {} /\ begun = {} /\ line = <<>>

Due == line # <<>> /\ \A j \in active : j > Head(line).job_id

Accept ==
    /\ accepted + 1 \in Jobs
    /\ accepted' = accepted + 1
    /\ active' = active \cup {accepted + 1}
    /\ UNCHANGED <<user, begun, line>>

(* Not behind any waiting cut, and not for a second time.                  *)
BeginJob(j) ==
    /\ Free /\ j \in active \ begun
    /\ \A i \in DOMAIN line : j <= line[i].job_id
    /\ user' = <<"job", j>>
    /\ begun' = begun \cup {j}
    /\ UNCHANGED <<accepted, active, line>>

(* A job without the device ends: it was canceled, or has been printed.    *)
EndJob(j) ==
    /\ j \in active /\ user # <<"job", j>>
    /\ active' = active \ {j}
    /\ UNCHANGED <<user, accepted, begun, line>>

JoinLine(c) ==
    /\ \A i \in DOMAIN line : line[i].cut # c
    /\ line' = Append(line, [cut |-> c, job_id |-> accepted])
    /\ UNCHANGED <<user, accepted, active, begun>>

(* The server stops, or the device does not open when it is the cut's turn *)
LeaveLine(i) ==
    /\ line' = RemoveAt(line, i)
    /\ UNCHANGED <<user, accepted, active, begun>>

BeginCut ==
    /\ Free /\ Due
    /\ user' = <<"cut", Head(line).cut>>
    /\ line' = Tail(line)
    /\ UNCHANGED <<accepted, active, begun>>

BeginPoll ==
    /\ Free /\ ~Due
    /\ user' = <<"poll">>
    /\ UNCHANGED <<accepted, active, begun, line>>

GiveBack ==
    /\ ~Free /\ user' = <<>>
    /\ UNCHANGED <<accepted, active, begun, line>>

Next ==
    \/ Accept \/ BeginCut \/ BeginPoll \/ GiveBack
    \/ \E j \in Jobs : BeginJob(j) \/ EndJob(j)
    \/ \E c \in Cuts : JoinLine(c)
    \/ \E i \in DOMAIN line : LeaveLine(i)

Spec == Init /\ [][Next]_turns
==============================================================================
