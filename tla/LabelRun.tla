------------------------------ MODULE LabelRun ------------------------------
(***************************************************************************)
(* What the print queue promises about its labels, without threads, pages, *)
(* packets, cassettes or models: each accepted label is released once and  *)
(* in order, with the cuts its job asked for; an end called known is known *)
(* from a confirmed release; and after an operation that ended in doubt    *)
(* nothing is released until the server restarts.                          *)
(*                                                                         *)
(* PrintRun implements it (PrintRun!Implements).                           *)
(***************************************************************************)
EXTENDS Naturals

VARIABLES
    tail,       \* what the queue says is at the cutter
    stopped,    \* an operation ended in doubt
    active, failed, policy,      \* the job in progress, if there is one
    accepted, released, cuts,    \* its labels, and those cut off before
    feeding,    \* an explicit cut has found content to release
    underway    \* a release is commanded and not confirmed

labels == <<accepted, released, cuts>>
job    == <<active, failed, policy, labels>>
vars   == <<tail, stopped, job, feeding, underway>>

Policies == [cut_between : BOOLEAN, cut_at_end : BOOLEAN]
NoPolicy == [cut_between |-> FALSE, cut_at_end |-> FALSE]

NoLabels == accepted' = 0 /\ released' = 0 /\ cuts' = {}
NoJob    == active' = FALSE /\ failed' = FALSE /\ policy' = NoPolicy /\ NoLabels

Init ==
    /\ tail = "none" /\ stopped = FALSE
    /\ active = FALSE /\ failed = FALSE /\ policy = NoPolicy
    /\ accepted = 0 /\ released = 0 /\ cuts = {}
    /\ feeding = FALSE /\ underway = FALSE

(* A healthy end may be given up at any time; an unknown one never is.     *)
Forget == tail' = IF tail = "unknown" THEN tail ELSE "none"
MayForget == UNCHANGED tail \/ Forget

BeginJob ==
    /\ ~active /\ ~feeding
    /\ active' = TRUE /\ failed' = FALSE /\ policy' \in Policies /\ NoLabels
    /\ UNCHANGED <<tail, stopped, feeding, underway>>

(* The first label, or one more while the label before it is held back.    *)
AcceptLabel ==
    /\ active /\ ~failed /\ accepted \in {0, released + 1}
    /\ accepted' = accepted + 1
    /\ UNCHANGED <<tail, stopped, active, failed, policy, released, cuts,
                   feeding, underway>>

(* From the first byte of a label on, the end at the cutter is in doubt.   *)
BeginLabel ==
    /\ active /\ ~stopped /\ released < accepted
    /\ tail' = "unknown"
    /\ UNCHANGED <<stopped, job, feeding, underway>>

ReleaseLabel ==
    /\ active /\ ~failed /\ ~stopped /\ ~underway
    /\ tail = "unknown" /\ released < accepted
    /\ released' = released + 1
    /\ cuts' = IF released = 0 \/ policy.cut_between
               THEN cuts \cup {released'} ELSE cuts
    /\ underway' = TRUE
    /\ UNCHANGED <<tail, stopped, active, failed, policy, accepted, feeding>>

(* Only the last label of the input is cut off behind.                     *)
ConfirmLabel ==
    /\ active /\ underway
    /\ tail' = IF released = accepted /\ policy.cut_at_end THEN "none" ELSE "user"
    /\ underway' = FALSE
    /\ UNCHANGED <<stopped, job, feeding>>

(* A refusal, a cancel, an error; what was commanded stays unconfirmed.    *)
FailJob ==
    /\ active
    /\ failed' = TRUE
    /\ underway' \in {underway, FALSE}
    /\ MayForget /\ UNCHANGED <<stopped, active, policy, labels, feeding>>

(* A job that did not fail has printed all it accepted, without a doubt.   *)
FinishJob ==
    /\ active /\ ~underway
    /\ failed \/ (released = accepted /\ accepted > 0 /\ tail # "unknown")
    /\ NoJob
    /\ stopped' = (stopped \/ tail = "unknown")
    /\ UNCHANGED <<tail, feeding, underway>>

(* The explicit cut feeds a blank end over user content, once.  It decides *)
(* to before it makes the end unknown: what it saw may be forgotten by then*)
DecideCut ==
    /\ ~active /\ ~feeding /\ ~stopped /\ tail = "user"
    /\ feeding' = TRUE
    /\ UNCHANGED <<tail, stopped, job, underway>>

BeginCut ==
    /\ feeding /\ tail' = "unknown"
    /\ UNCHANGED <<stopped, job, feeding, underway>>

FeedBlank ==
    /\ feeding /\ ~underway /\ tail = "unknown"
    /\ underway' = TRUE
    /\ UNCHANGED <<tail, stopped, job, feeding>>

ConfirmBlank ==
    /\ feeding /\ underway
    /\ tail' = "blank" /\ underway' = FALSE /\ feeding' = FALSE
    /\ UNCHANGED <<stopped, job>>

FailCut ==
    /\ feeding /\ tail = "unknown"
    /\ stopped' = TRUE /\ underway' = FALSE /\ feeding' = FALSE
    /\ UNCHANGED <<tail, job>>

(* The cassette or the printer was seen to change.                         *)
Observe == Forget /\ UNCHANGED <<stopped, job, feeding, underway>>

Restart ==
    /\ tail' = "none" /\ stopped' = FALSE /\ NoJob
    /\ feeding' = FALSE /\ underway' = FALSE

Next ==
    \/ BeginJob \/ AcceptLabel \/ BeginLabel \/ ReleaseLabel \/ ConfirmLabel
    \/ FailJob \/ FinishJob
    \/ DecideCut \/ BeginCut \/ FeedBlank \/ ConfirmBlank \/ FailCut
    \/ Observe \/ Restart

Spec == Init /\ [][Next]_vars
=============================================================================
