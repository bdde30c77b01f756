------------------------------ MODULE Finishing ------------------------------
(***************************************************************************)
(* Which cut mode a job gets.  Two programs decide: the patched PAPPL      *)
(* admits a job's selection and keeps the printer's default in two         *)
(* representations, and much later pt_job_policy resolves the selection of *)
(* the admitted job again, by rules of its own, or reads the default that  *)
(* then holds.  Several clients change the default meanwhile, and the      *)
(* server saves it and restarts.                                           *)
(***************************************************************************)
EXTENDS Naturals, Sequences, SequencesExt

CONSTANTS
    Clients,    \* threads that serve Set-Printer-Attributes
    MaxValues   \* bound: enum values in one selection

ASSUME BoundsAssumption == MaxValues \in Nat \ {0}

VARIABLES
    default,   \* finishings-default and finishings-col-default
    saved,     \* finishings-default in the state file, 0 if none was saved
    update,    \* by client: the validated value it is about to store, or 0
    job        \* a job from its submission to its start

vars == <<default, saved, update, job>>

-----------------------------------------------------------------------------
(* pt_finishings, the one table behind what the driver advertises.         *)

Mode == [v \in {3, 11, 60, 63} |->
            CASE v = 3 -> "none" [] v \in {11, 60} -> "each" [] v = 63 -> "end"]
Supported == DOMAIN Mode

TemplateMode == [t \in {"trim", "trim-after-pages", "trim-after-job",
                        "ptouch-chain"} |->
                    CASE t = "trim-after-job" -> "end"
                      [] t = "ptouch-chain"   -> "chain"
                      [] OTHER                -> "each"]
Templates == DOMAIN TemplateMode

(* ippEnumString of the IPP registry, which does not know ptouch-chain.    *)
Registered == [v \in {11, 60, 63} |->
                CASE v = 11 -> "trim" [] v = 60 -> "trim-after-pages"
                  [] v = 63 -> "trim-after-job"]

(* A representation of a selection as a client may submit it: enum values, *)
(* collections (the first with these finishing-template values and perhaps *)
(* further members), an out-of-band no-value, or nothing.                  *)
Absent  == [tag |-> "absent"]
NoValue == [tag |-> "no-value"]
Enum(values) == [tag |-> "enum", values |-> values]
Col(templates, others, count) ==
    [tag |-> "collection", templates |-> templates, others |-> others,
     count |-> count]

EnumInputs == {Enum(s) : s \in UNION {[1 .. n -> Supported \cup {4}] :
                                         n \in 1 .. MaxValues}}
                  \cup {Absent}
ColInputs  == {Col(<<t>>, FALSE, 1) : t \in Templates \cup {"bale"}}
                  \cup {Col(<<>>, FALSE, 1), Col(<<"trim">>, TRUE, 1),
                        Col(<<"trim", "trim-after-job">>, FALSE, 1),
                        Col(<<"trim">>, FALSE, 2), Absent, NoValue}

-----------------------------------------------------------------------------
(* The patched PAPPL.  Results are those of the C functions with the -1 of *)
(* an invalid selection written Invalid; 0 is a template without an enum.  *)

Invalid == 99

(* The loop of _papplTrimSelection: 60 before 11 before 63 before none.    *)
Prefer(result, value) ==
    IF value # 3 /\ (\/ result = 3
                     \/ result = 63 /\ value \in {11, 60}
                     \/ value = 60)
    THEN value ELSE result

EnumOf(template) ==
    IF \E v \in DOMAIN Registered : Registered[v] = template
    THEN CHOOSE v \in DOMAIN Registered : Registered[v] = template
    ELSE 0

TrimSelection(sel) ==
    CASE sel.tag = "no-value" -> 3
      [] sel.tag = "enum" /\ \A i \in DOMAIN sel.values : sel.values[i] \in Supported
            -> FoldLeft(Prefer, 3, sel.values)
      [] /\ sel.tag = "collection" /\ sel.count = 1 /\ ~sel.others
         /\ Len(sel.templates) = 1 /\ sel.templates[1] \in Templates
            -> EnumOf(sel.templates[1])
      [] OTHER -> Invalid

(* _papplSameTrimSelection: 11 is an alias of 60.                          *)
Same(a, b) == a = b \/ {a, b} = {11, 60}

Representable(sel) == TrimSelection(sel) \in Supported

(* _papplTrimDefault: both representations may be given if they agree.     *)
TrimDefault(enums, col) ==
    IF \/ enums # Absent /\ ~Representable(enums)
       \/ col # Absent /\ ~Representable(col)
       \/ /\ enums # Absent /\ col # Absent
          /\ ~Same(TrimSelection(enums), TrimSelection(col))
    THEN Invalid
    ELSE TrimSelection(IF enums # Absent THEN enums ELSE col)

(* Deliberate bug: none is not taken for a default.                        *)
TrimDefaultString_NotNone(numbers) ==
    IF numbers # <<>> /\ numbers # <<3>> THEN TrimSelection(Enum(numbers))
    ELSE Invalid

(* _papplTrimDefaultString: a comma-separated list of numbers.             *)
TrimDefaultString(numbers) ==
    IF numbers # <<>> /\ Len(numbers) <= 32 THEN TrimSelection(Enum(numbers))
    ELSE Invalid

(* Deliberate bug: none leaves the collection that was there.              *)
BothDefaults_KeepsCollection(value) ==
    [enum |-> value,
     col  |-> IF value = 3 THEN default.col
              ELSE Col(<<Registered[value]>>, FALSE, 1)]

(* _papplSetTrimDefault, under the printer's write lock.                   *)
BothDefaults(value) ==
    [enum |-> value,
     col  |-> IF value = 3 THEN NoValue
              ELSE Col(<<Registered[value]>>, FALSE, 1)]

(* valid_job_attributes: at most one representation, and a known choice.   *)
Admissible(enums, col) ==
    /\ enums = Absent \/ col = Absent
    /\ enums = Absent \/ TrimSelection(enums) # Invalid
    /\ col   = Absent \/ TrimSelection(col)   # Invalid

-----------------------------------------------------------------------------
(* The driver.                                                             *)

(* Deliberate bug: none among other values takes them back.                *)
Combine_NoneResets(mode, value) ==
    IF Mode[value] \in {"each", "none"} \/ mode = "none" THEN Mode[value] ELSE mode

(* The loop of pt_job_policy over the modes of the enum values.            *)
Combine(mode, value) ==
    IF Mode[value] = "each" \/ mode = "none" THEN Mode[value] ELSE mode

(* pt_job_policy; "no" is its return value false.                          *)
JobPolicy(enums, col) ==
    CASE enums # Absent /\ col # Absent -> "no"
      [] enums = Absent /\ col.tag = "no-value" -> "none"
      [] enums = Absent /\ col.tag = "collection" ->
            IF /\ col.count = 1 /\ Len(col.templates) = 1
               /\ col.templates[1] \in Templates
            THEN TemplateMode[col.templates[1]] ELSE "no"
      [] enums # Absent /\ col = Absent ->
            IF \A i \in DOMAIN enums.values : enums.values[i] \in Supported
            THEN FoldLeft(Combine, "none", enums.values) ELSE "no"
      [] OTHER ->
            IF default.enum \in Supported THEN Mode[default.enum] ELSE "no"

-----------------------------------------------------------------------------
NoJob == [state |-> "none"]

(* pt_finishing_attrs advertises trim, and papplPrinterSetDriverData puts  *)
(* that default in both representations.                                   *)
Advertised == BothDefaults(TrimDefault(Enum(<<11>>), Col(<<"trim">>, FALSE, 1)))

Init ==
    /\ default = Advertised
    /\ saved = 0
    /\ update = [c \in Clients |-> 0]
    /\ job = NoJob

(* What an update of either or both representations comes to, and what an  *)
(* option list does.                                                       *)
Requestable == {TrimDefault(i[1], i[2]) :
                   i \in (EnumInputs \X ColInputs) \ {<<Absent, Absent>>}}
Listable    == {TrimDefaultString(e.values) : e \in EnumInputs \ {Absent}}

(* Set-Printer-Attributes checks both representations under the read lock; *)
(* a refused update ends here.                                             *)
ValidateUpdate(c) ==
    /\ update[c] = 0
    /\ \E value \in Requestable \ {Invalid} :
          update' = [update EXCEPT ![c] = value]
    /\ UNCHANGED <<default, saved, job>>

(* ... and stores its result under the write lock, after the other         *)
(* attributes of the request.                                              *)
StoreUpdate(c) ==
    /\ update[c] # 0
    /\ default' = BothDefaults(update[c])
    /\ update' = [update EXCEPT ![c] = 0]
    /\ UNCHANGED <<saved, job>>

(* papplPrinterSetDriverDefaults with a finishings option: checked and     *)
(* stored under one lock.                                                  *)
SetDriverDefaults ==
    /\ \E value \in Listable \ {Invalid} : default' = BothDefaults(value)
    /\ UNCHANGED <<saved, update, job>>

(* The state file, written at a time of PAPPL's choosing.                  *)
SaveState ==
    /\ saved' = default.enum
    /\ UNCHANGED <<default, update, job>>

LoadedDefault ==
    IF saved # 0 /\ TrimDefaultString(<<saved>>) # Invalid
    THEN BothDefaults(TrimDefaultString(<<saved>>))
    ELSE Advertised

(* The server starts again, with the state it saved or an older one; the   *)
(* jobs it had are not printed.                                            *)
Restart ==
    /\ default' = LoadedDefault
    /\ update' = [c \in Clients |-> 0]
    /\ job' = NoJob
    /\ UNCHANGED saved

(* Print-Job and Create-Job.  A refused request leaves no job.  Bound: one *)
(* job between two restarts.                                               *)
SubmitJob ==
    /\ job = NoJob
    /\ \E enums \in EnumInputs, col \in ColInputs :
          /\ Admissible(enums, col)
          /\ job' = [state |-> "accepted", enums |-> enums, col |-> col]
    /\ UNCHANGED <<default, saved, update>>

(* r_startjob resolves the policy of the job; false aborts it.             *)
StartJob ==
    /\ job.state = "accepted"
    /\ job' = [state  |-> IF JobPolicy(job.enums, job.col) = "no"
                          THEN "aborted" ELSE "started",
               enums  |-> job.enums, col |-> job.col,
               policy |-> JobPolicy(job.enums, job.col),
               default |-> default]
    /\ UNCHANGED <<default, saved, update>>

Next ==
    \/ \E c \in Clients : ValidateUpdate(c) \/ StoreUpdate(c)
    \/ SetDriverDefaults \/ SaveState \/ Restart
    \/ SubmitJob \/ StartJob

Spec == Init /\ [][Next]_vars

-----------------------------------------------------------------------------
(* Reference: what a selection means, whatever the order of its values.    *)

ModesOf(sel) ==
    CASE sel.tag = "no-value"   -> {"none"}
      [] sel.tag = "enum"       -> {Mode[sel.values[i]] : i \in DOMAIN sel.values}
      [] sel.tag = "collection" -> {TemplateMode[sel.templates[1]]}

Meaning(sel) ==
    CHOOSE m \in ModesOf(sel) :
        \/ m \in {"each", "chain"}
        \/ m = "end" /\ "each" \notin ModesOf(sel)
        \/ ModesOf(sel) = {"none"}

(* What PAPPL admits the driver prints, and with the cuts the selection    *)
(* means: cuts between labels win over a final cut only, which wins over   *)
(* none; 11 and 60 are one; and a job that selects nothing follows the     *)
(* default of its start in the representation a client may have looked at. *)
AcceptedPrintsAsAsked ==
    /\ job.state # "aborted"
    /\ job.state = "started" =>
          /\ job.enums # Absent => job.policy = Meaning(job.enums)
          /\ job.col   # Absent =>
                /\ job.policy = Meaning(job.col)
                /\ job.col.tag = "collection" =>
                      job.col.templates = <<job.col.templates[1]>> /\ ~job.col.others
          /\ job.enums = Absent /\ job.col = Absent =>
                job.policy = Meaning(job.default.col)

(* The two representations of the default always mean the same, however    *)
(* updates of either, in whatever form, interleave.                        *)
DefaultsAgree ==
    Meaning(Enum(<<default.enum>>)) = Meaning(default.col)

(* Every default the server can save it can also load: a restart brings    *)
(* back what was saved last and never falls back to the advertised one.    *)
RestartKeepsDefault ==
    [][Restart /\ saved # 0 => default'.enum = saved]_vars

-----------------------------------------------------------------------------
(* Inductive strengthening of the invariants above (FinishingProofs).  The *)
(* default, what is saved of it and what is about to be stored are values  *)
(* of the table, and both representations come from one value; a job is as *)
(* it was admitted until it starts.                                        *)
DefaultInv == \E value \in Supported : default = BothDefaults(value)
StoredInv ==
    /\ saved \in Supported \cup {0}
    /\ update \in [Clients -> Supported \cup {0}]
JobInv ==
    \/ job = NoJob
    \/ \E enums \in EnumInputs, col \in ColInputs :
          /\ Admissible(enums, col)
          /\ job = [state |-> "accepted", enums |-> enums, col |-> col]
    \/ job.state = "started"

IInv == DefaultInv /\ StoredInv /\ JobInv /\ AcceptedPrintsAsAsked
==============================================================================
