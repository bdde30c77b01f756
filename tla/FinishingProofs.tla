--------------------------- MODULE FinishingProofs ---------------------------
(* Proofs about Finishing for any clients and selections of any length.    *)
EXTENDS Finishing, WellFoundedInduction, TLAPS

-----------------------------------------------------------------------------
(* Folds over the values of a selection.                                   *)

(* Every set of natural numbers has a least element.                       *)
LEMMA Least ==
    ASSUME NEW T \in SUBSET Nat, T # {}
    PROVE  \E m \in T : \A k \in T : ~ (k < m)
<1>1. \E m \in T : \A k \in T : ~ (<<k, m>> \in OpToRel(<, Nat))
  BY NatLessThanWellFounded, WFMin
<1> QED
  BY <1>1 DEF OpToRel

LEMMA MaxIsMember ==
    ASSUME NEW n \in Nat, NEW s \in SUBSET (1 .. n), s # {}
    PROVE  Max(s) \in s
<1> DEFINE T == {k \in Nat : \E i \in s : k = n - i}
<1>1. PICK m \in T : \A k \in T : ~ (k < m)
  <2>1. PICK i \in s : TRUE
    OBVIOUS
  <2>2. n - i \in T
    BY <2>1
  <2> HIDE DEF T
  <2>3. T \in SUBSET Nat
    BY DEF T
  <2> QED
    BY <2>2, <2>3, Least
<1>2. PICK i \in s : m = n - i
  BY <1>1
<1>3. \A j \in s : i >= j
  BY <1>1, <1>2
<1> QED
  BY <1>3 DEF Max

LEMMA MaxOfInterval == \A k \in Nat \ {0} : Max(1 .. k) = k
  BY DEF Max

(* Two functions that agree before the first value and go on in the same   *)
(* way at each agree after the last.                                       *)
LEMMA SameFold ==
    ASSUME NEW n \in Nat, NEW f, NEW g, f[{}] = g[{}],
           \A k \in 1 .. n : f[1 .. (k - 1)] = g[1 .. (k - 1)] =>
                                f[1 .. k] = g[1 .. k]
    PROVE  f[1 .. n] = g[1 .. n]
<1> DEFINE T == {k \in 0 .. n : f[1 .. k] # g[1 .. k]}
<1> SUFFICES ASSUME T # {} PROVE FALSE
  OBVIOUS
<1>1. PICK m \in T : \A k \in T : ~ (k < m)
  <2>1. T \in SUBSET Nat
    OBVIOUS
  <2> HIDE DEF T
  <2> QED
    BY <2>1, Least
<1>2. m # 0
  <2>1. 1 .. 0 = {}
    OBVIOUS
  <2> QED
    BY <2>1
<1>3. m \in 1 .. n /\ m - 1 \in 0 .. n /\ m - 1 < m
  BY <1>2
<1>4. f[1 .. (m - 1)] = g[1 .. (m - 1)]
  BY <1>1, <1>3
<1> QED
  BY <1>3, <1>4

(* What PAPPL keeps of several values, whatever their order.               *)
Best(values) == IF 60 \in values THEN 60 ELSE IF 11 \in values THEN 11
                ELSE IF 63 \in values THEN 63 ELSE 3

LEMMA PreferBest ==
    ASSUME NEW values \in SUBSET Supported, NEW value \in Supported
    PROVE  Best(values \cup {value}) = Prefer(Best(values), value)
  BY DEF Best, Prefer, Supported, Mode

LEMMA PreferFold ==
    ASSUME NEW n \in Nat, NEW values \in [1 .. n -> Supported]
    PROVE  FoldLeft(Prefer, 3, values) = Best({values[i] : i \in 1 .. n})
<1> DEFINE iter == CHOOSE f : f = [s \in SUBSET (1 .. n) |->
                      IF s = {} THEN 3
                      ELSE Prefer(f[s \ {Max(s)}], values[Max(s)])]
           best == [s \in SUBSET (1 .. n) |-> Best({values[i] : i \in s})]
<1>1. FoldLeft(Prefer, 3, values) = iter[1 .. n]
  BY DEF FoldLeft, MapThenFoldSet
<1>2. \A s \in SUBSET (1 .. n) :
         best[s] = IF s = {} THEN 3
                   ELSE Prefer(best[s \ {Max(s)}], values[Max(s)])
  <2> SUFFICES ASSUME NEW s \in SUBSET (1 .. n)
               PROVE  best[s] = IF s = {} THEN 3
                                ELSE Prefer(best[s \ {Max(s)}], values[Max(s)])
    OBVIOUS
  <2>1. CASE s = {}
    BY <2>1 DEF Best
  <2>2. CASE s # {}
    <3>1. Max(s) \in s
      BY <2>2, MaxIsMember
    <3>2. {values[i] : i \in s} = {values[i] : i \in s \ {Max(s)}} \cup {values[Max(s)]}
      BY <3>1
    <3>3. /\ {values[i] : i \in s \ {Max(s)}} \in SUBSET Supported
          /\ values[Max(s)] \in Supported
      BY <3>1
    <3>4. Best({values[i] : i \in s}) =
             Prefer(Best({values[i] : i \in s \ {Max(s)}}), values[Max(s)])
      BY <3>2, <3>3, PreferBest
    <3> QED
      BY <2>2, <3>4
  <2> QED
    BY <2>1, <2>2
<1>3. best = [s \in SUBSET (1 .. n) |->
                IF s = {} THEN 3 ELSE Prefer(best[s \ {Max(s)}], values[Max(s)])]
  BY <1>2
<1> HIDE DEF best
<1>4. iter = [s \in SUBSET (1 .. n) |->
                IF s = {} THEN 3 ELSE Prefer(iter[s \ {Max(s)}], values[Max(s)])]
  BY <1>3
<1> HIDE DEF iter
<1>5. \A s \in SUBSET (1 .. n) :
         iter[s] = IF s = {} THEN 3
                   ELSE Prefer(iter[s \ {Max(s)}], values[Max(s)])
  BY <1>4, Zenon
<1>6. iter[{}] = best[{}]
  BY <1>2, <1>5
<1>7. ASSUME NEW k \in 1 .. n, iter[1 .. (k - 1)] = best[1 .. (k - 1)]
      PROVE  iter[1 .. k] = best[1 .. k]
  <2>1. Max(1 .. k) = k /\ (1 .. k) \ {k} = 1 .. (k - 1)
    BY MaxOfInterval
  <2>2. 1 .. k \in SUBSET (1 .. n)
    OBVIOUS
  <2>3. 1 \in 1 .. k
    OBVIOUS
  <2>4. /\ iter[1 .. k] = Prefer(iter[1 .. (k - 1)], values[k])
        /\ best[1 .. k] = Prefer(best[1 .. (k - 1)], values[k])
    BY <1>2, <1>5, <2>1, <2>2, <2>3
  <2> QED
    BY <1>7, <2>4
<1>8. iter[1 .. n] = best[1 .. n]
  BY <1>6, <1>7, SameFold
<1> QED
  BY <1>1, <1>8 DEF best

(* What the driver makes of the modes of several values.                   *)
Strongest(modes) == IF "each" \in modes THEN "each"
                    ELSE IF "end" \in modes THEN "end" ELSE "none"

ValueModes == {"none", "each", "end"}

LEMMA ModeRange == \A value \in Supported : Mode[value] \in ValueModes
  BY DEF Mode, Supported, ValueModes

LEMMA CombineStrongest ==
    ASSUME NEW modes \in SUBSET ValueModes, NEW value \in Supported
    PROVE  Strongest(modes \cup {Mode[value]}) = Combine(Strongest(modes), value)
  BY DEF Strongest, Combine, Supported, Mode

LEMMA CombineFold ==
    ASSUME NEW n \in Nat, NEW values \in [1 .. n -> Supported]
    PROVE  FoldLeft(Combine, "none", values) =
              Strongest({Mode[values[i]] : i \in 1 .. n})
<1> DEFINE iter == CHOOSE f : f = [s \in SUBSET (1 .. n) |->
                      IF s = {} THEN "none"
                      ELSE Combine(f[s \ {Max(s)}], values[Max(s)])]
           best == [s \in SUBSET (1 .. n) |-> Strongest({Mode[values[i]] : i \in s})]
<1>1. FoldLeft(Combine, "none", values) = iter[1 .. n]
  BY DEF FoldLeft, MapThenFoldSet
<1>2. \A s \in SUBSET (1 .. n) :
         best[s] = IF s = {} THEN "none"
                   ELSE Combine(best[s \ {Max(s)}], values[Max(s)])
  <2> SUFFICES ASSUME NEW s \in SUBSET (1 .. n)
               PROVE  best[s] = IF s = {} THEN "none"
                                ELSE Combine(best[s \ {Max(s)}], values[Max(s)])
    OBVIOUS
  <2>1. CASE s = {}
    BY <2>1 DEF Strongest
  <2>2. CASE s # {}
    <3>1. Max(s) \in s
      BY <2>2, MaxIsMember
    <3>2. {Mode[values[i]] : i \in s} =
             {Mode[values[i]] : i \in s \ {Max(s)}} \cup {Mode[values[Max(s)]]}
      BY <3>1
    <3>3. /\ {Mode[values[i]] : i \in s \ {Max(s)}} \in SUBSET ValueModes
          /\ values[Max(s)] \in Supported
      BY <3>1, ModeRange
    <3>4. Strongest({Mode[values[i]] : i \in s}) =
             Combine(Strongest({Mode[values[i]] : i \in s \ {Max(s)}}), values[Max(s)])
      BY <3>2, <3>3, CombineStrongest
    <3> QED
      BY <2>2, <3>4
  <2> QED
    BY <2>1, <2>2
<1>3. best = [s \in SUBSET (1 .. n) |->
                IF s = {} THEN "none" ELSE Combine(best[s \ {Max(s)}], values[Max(s)])]
  BY <1>2
<1> HIDE DEF best
<1>4. iter = [s \in SUBSET (1 .. n) |->
                IF s = {} THEN "none" ELSE Combine(iter[s \ {Max(s)}], values[Max(s)])]
  BY <1>3
<1> HIDE DEF iter
<1>5. \A s \in SUBSET (1 .. n) :
         iter[s] = IF s = {} THEN "none"
                   ELSE Combine(iter[s \ {Max(s)}], values[Max(s)])
  BY <1>4, Zenon
<1>6. iter[{}] = best[{}]
  BY <1>2, <1>5
<1>7. ASSUME NEW k \in 1 .. n, iter[1 .. (k - 1)] = best[1 .. (k - 1)]
      PROVE  iter[1 .. k] = best[1 .. k]
  <2>1. Max(1 .. k) = k /\ (1 .. k) \ {k} = 1 .. (k - 1)
    BY MaxOfInterval
  <2>2. 1 .. k \in SUBSET (1 .. n)
    OBVIOUS
  <2>3. 1 \in 1 .. k
    OBVIOUS
  <2>4. /\ iter[1 .. k] = Combine(iter[1 .. (k - 1)], values[k])
        /\ best[1 .. k] = Combine(best[1 .. (k - 1)], values[k])
    BY <1>2, <1>5, <2>1, <2>2, <2>3
  <2> QED
    BY <1>7, <2>4
<1>8. iter[1 .. n] = best[1 .. n]
  BY <1>6, <1>7, SameFold
<1> QED
  BY <1>1, <1>8 DEF best

-----------------------------------------------------------------------------
(* Selections.                                                             *)

LEMMA StrongestMeant ==
    ASSUME NEW sel, ModesOf(sel) \in SUBSET ValueModes, ModesOf(sel) # {}
    PROVE  Meaning(sel) = Strongest(ModesOf(sel))
  BY DEF Meaning, Strongest, ValueModes

LEMMA EnumSelection ==
    ASSUME NEW n \in Nat \ {0}, NEW values \in [1 .. n -> Supported]
    PROVE  /\ TrimSelection(Enum(values)) = Best({values[i] : i \in 1 .. n})
           /\ TrimSelection(Enum(values)) \in Supported
           /\ FoldLeft(Combine, "none", values) = Meaning(Enum(values))
<1>1. TrimSelection(Enum(values)) = FoldLeft(Prefer, 3, values)
  BY DEF TrimSelection, Enum
<1>2. FoldLeft(Prefer, 3, values) = Best({values[i] : i \in 1 .. n})
  BY PreferFold
<1>3. Best({values[i] : i \in 1 .. n}) \in Supported
  BY DEF Best, Supported, Mode
<1>4. ModesOf(Enum(values)) = {Mode[values[i]] : i \in 1 .. n}
  BY DEF ModesOf, Enum
<1>5. /\ {Mode[values[i]] : i \in 1 .. n} \in SUBSET ValueModes
      /\ Mode[values[1]] \in {Mode[values[i]] : i \in 1 .. n}
  BY ModeRange
<1>6. Meaning(Enum(values)) = Strongest({Mode[values[i]] : i \in 1 .. n})
  BY <1>4, <1>5, StrongestMeant
<1> QED
  BY <1>1, <1>2, <1>3, <1>6, CombineFold

(* One value means itself.                                                 *)
LEMMA OneValue ==
    ASSUME NEW value \in Supported
    PROVE  TrimSelection(Enum(<<value>>)) = value
           /\ Meaning(Enum(<<value>>)) = Mode[value]
<1> DEFINE values == <<value>>
<1>1. values \in [1 .. 1 -> Supported] /\ values[1] = value
  OBVIOUS
<1>2. {values[i] : i \in 1 .. 1} = {value}
  BY <1>1
<1>3. Best({value}) = value
  BY DEF Best, Supported, Mode
<1>4. TrimSelection(Enum(values)) = value
  <2> HIDE DEF values
  <2>1. 1 \in Nat \ {0}
    OBVIOUS
  <2>2. TrimSelection(Enum(values)) = Best({values[i] : i \in 1 .. 1})
    BY <1>1, <2>1, EnumSelection
  <2> QED
    BY <1>2, <1>3, <2>2
<1>5. ModesOf(Enum(values)) = {Mode[value]}
  <2> HIDE DEF values
  <2>1. DOMAIN values = 1 .. 1
    BY <1>1
  <2> QED
    BY <1>1, <2>1 DEF ModesOf, Enum
<1>6. Meaning(Enum(values)) = Strongest({Mode[value]})
  BY <1>5, ModeRange, StrongestMeant
<1>7. Strongest({Mode[value]}) = Mode[value]
  BY ModeRange DEF Strongest, ValueModes
<1> QED
  BY <1>4, <1>6, <1>7

(* The values of an admitted enumeration.                                  *)
LEMMA EnumInput ==
    ASSUME NEW enums \in EnumInputs, enums # Absent
    PROVE  \E n \in Nat \ {0} :
              \E values \in [1 .. n -> Supported \cup {4}] : enums = Enum(values)
  BY BoundsAssumption DEF EnumInputs

(* Both updates of the default come to a value of the table.               *)
LEMMA RequestableSupported == Requestable \ {Invalid} \subseteq Supported
<1> SUFFICES ASSUME NEW enums \in EnumInputs, NEW col \in ColInputs,
                    enums # Absent \/ col # Absent,
                    TrimDefault(enums, col) # Invalid
             PROVE  TrimDefault(enums, col) \in Supported
  BY DEF Requestable
<1> QED
  BY DEF TrimDefault, Representable

LEMMA ListableSupported == Listable \ {Invalid} \subseteq Supported
<1> SUFFICES ASSUME NEW enums \in EnumInputs, enums # Absent,
                    TrimDefaultString(enums.values) # Invalid
             PROVE  TrimDefaultString(enums.values) \in Supported
  BY DEF Listable
<1>1. PICK n \in Nat \ {0} :
         \E values \in [1 .. n -> Supported \cup {4}] : enums = Enum(values)
  BY EnumInput
<1> PICK values \in [1 .. n -> Supported \cup {4}] : enums = Enum(values)
  BY <1>1
<1>2. enums.values = values
  BY DEF Enum
<1>3. TrimDefaultString(values) = TrimSelection(Enum(values))
  BY <1>2 DEF TrimDefaultString
<1>4. \A i \in 1 .. n : values[i] \in Supported
  BY <1>2, <1>3 DEF TrimSelection, Enum
<1>5. values \in [1 .. n -> Supported]
  BY <1>4
<1> QED
  BY <1>2, <1>3, <1>5, EnumSelection

(* A saved default is loaded as it was.                                    *)
LEMMA SavedLoads ==
    ASSUME NEW value \in Supported
    PROVE  TrimDefaultString(<<value>>) = value
<1>1. Len(<<value>>) = 1 /\ <<value>> # <<>>
  OBVIOUS
<1> QED
  BY <1>1, OneValue DEF TrimDefaultString

(* What the driver advertises is one of the defaults.                      *)
LEMMA AdvertisedDefault == Advertised = BothDefaults(11)
<1> DEFINE enums == Enum(<<11>>)  col == Col(<<"trim">>, FALSE, 1)
<1>1. 11 \in Supported
  BY DEF Supported, Mode
<1>2. TrimSelection(enums) = 11
  BY <1>1, OneValue
<1>3. EnumOf("trim") = 11
  BY DEF EnumOf, Registered
<1>4. TrimSelection(col) = 11
  <2>1. /\ col.tag = "collection" /\ col.count = 1 /\ ~col.others
        /\ Len(col.templates) = 1 /\ col.templates[1] = "trim"
    BY DEF Col
  <2>2. "trim" \in Templates
    BY DEF Templates, TemplateMode
  <2> HIDE DEF col
  <2> QED
    BY <1>3, <2>1, <2>2 DEF TrimSelection
<1>5. enums # Absent /\ enums.tag = "enum"
  BY DEF Enum, Absent
<1> HIDE DEF enums, col
<1>6. TrimDefault(enums, col) = 11
  BY <1>1, <1>2, <1>4, <1>5 DEF TrimDefault, Representable, Same
<1> QED
  BY <1>6 DEF Advertised, enums, col

(* Both representations of a default mean its mode.                        *)
LEMMA DefaultMeans ==
    ASSUME NEW value \in Supported
    PROVE  /\ BothDefaults(value).enum = value
           /\ Meaning(BothDefaults(value).col) = Mode[value]
<1>1. BothDefaults(value).enum = value
  BY DEF BothDefaults
<1>2. CASE value = 3
  <2>1. ModesOf(NoValue) = {"none"}
    BY DEF ModesOf, NoValue
  <2>2. Meaning(NoValue) = "none"
    BY <2>1, StrongestMeant DEF Strongest, ValueModes
  <2> QED
    BY <1>1, <1>2, <2>2 DEF BothDefaults, Mode
<1>3. CASE value # 3
  <2> DEFINE col == Col(<<Registered[value]>>, FALSE, 1)
  <2>1. col.tag = "collection" /\ col.templates[1] = Registered[value]
    BY DEF Col
  <2> HIDE DEF col
  <2>2. ModesOf(col) = {TemplateMode[Registered[value]]}
    BY <2>1 DEF ModesOf
  <2>3. TemplateMode[Registered[value]] = Mode[value]
    BY <1>3 DEF TemplateMode, Registered, Mode, Supported
  <2>4. Meaning(col) = Strongest({Mode[value]})
    BY <2>2, <2>3, ModeRange, StrongestMeant
  <2> QED
    BY <1>1, <1>3, <2>4, ModeRange DEF BothDefaults, col, Strongest, ValueModes
<1> QED
  BY <1>2, <1>3

-----------------------------------------------------------------------------
(* The invariant.                                                          *)

(* An admitted job is started with the cuts its selection means: the two   *)
(* programs read every admissible selection alike.                         *)
LEMMA PolicyOfAdmitted ==
    ASSUME DefaultInv, NEW enums \in EnumInputs, NEW col \in ColInputs,
           Admissible(enums, col)
    PROVE  /\ JobPolicy(enums, col) # "no"
           /\ enums # Absent => JobPolicy(enums, col) = Meaning(enums)
           /\ col # Absent =>
                 /\ JobPolicy(enums, col) = Meaning(col)
                 /\ col.tag = "collection" =>
                       col.templates = <<col.templates[1]>> /\ ~col.others
           /\ enums = Absent /\ col = Absent =>
                 JobPolicy(enums, col) = Meaning(default.col)
<1>1. CASE enums = Absent /\ col = Absent
  <2>1. PICK value \in Supported : default = BothDefaults(value)
    BY DEF DefaultInv
  <2>2. JobPolicy(enums, col) = Mode[value]
    BY <1>1, <2>1, DefaultMeans DEF JobPolicy, Absent
  <2> QED
    BY <1>1, <2>1, <2>2, DefaultMeans, ModeRange DEF ValueModes
<1>2. CASE enums # Absent /\ col = Absent
  <2>1. PICK n \in Nat \ {0} :
           \E values \in [1 .. n -> Supported \cup {4}] : enums = Enum(values)
    BY <1>2, EnumInput
  <2> PICK values \in [1 .. n -> Supported \cup {4}] : enums = Enum(values)
    BY <2>1
  <2>2. enums.tag = "enum" /\ enums.values = values
    BY DEF Enum
  <2>3. \A i \in 1 .. n : values[i] \in Supported
    BY <1>2, <2>2 DEF Admissible, TrimSelection
  <2>4. values \in [1 .. n -> Supported]
    BY <2>3
  <2>5. JobPolicy(enums, col) = FoldLeft(Combine, "none", values)
    BY <1>2, <2>2, <2>3 DEF JobPolicy
  <2>6. JobPolicy(enums, col) = Meaning(enums)
    BY <2>4, <2>5, EnumSelection
  <2>7. Meaning(enums) \in ValueModes
    BY <2>4, <2>5, <2>6, CombineFold DEF Strongest, ValueModes
  <2> QED
    BY <1>2, <2>6, <2>7 DEF ValueModes
<1>3. CASE enums = Absent /\ col = NoValue
  <2>1. Meaning(col) = "none"
    <3>1. 3 \in Supported /\ Mode[3] = "none"
      BY DEF Supported, Mode
    <3>2. BothDefaults(3).col = NoValue
      BY DEF BothDefaults
    <3> QED
      BY <1>3, <3>1, <3>2, DefaultMeans
  <2> QED
    BY <1>3, <2>1 DEF JobPolicy, NoValue, Absent
<1>4. CASE enums = Absent /\ col \notin {Absent, NoValue}
  <2>1. col.tag = "collection"
    BY <1>4 DEF ColInputs, Col
  <2>2. /\ col.count = 1 /\ ~col.others /\ Len(col.templates) = 1
        /\ col.templates[1] \in Templates
    BY <1>4, <2>1 DEF Admissible, TrimSelection
  <2>3. col.templates = <<col.templates[1]>>
    BY <1>4, <2>2 DEF ColInputs, Col
  <2>4. JobPolicy(enums, col) = TemplateMode[col.templates[1]]
    BY <1>4, <2>1, <2>2 DEF JobPolicy
  <2>5. ModesOf(col) = {TemplateMode[col.templates[1]]}
    BY <2>1 DEF ModesOf
  <2>6. TemplateMode[col.templates[1]] \in {"each", "end", "chain"}
    BY <2>2 DEF Templates, TemplateMode
  <2>7. Meaning(col) = TemplateMode[col.templates[1]]
    BY <2>5, <2>6 DEF Meaning
  <2> QED
    BY <1>4, <2>1, <2>2, <2>3, <2>4, <2>6, <2>7
<1> QED
  BY <1>1, <1>2, <1>3, <1>4 DEF Admissible

THEOREM IInvCorrect == Spec => []IInv
<1>1. Init => IInv
  <2> SUFFICES ASSUME Init PROVE IInv
    OBVIOUS
  <2>1. 11 \in Supported
    BY DEF Supported, Mode
  <2>2. DefaultInv
    BY <2>1, AdvertisedDefault DEF Init, DefaultInv
  <2> QED
    BY <2>2 DEF Init, IInv, StoredInv, JobInv, AcceptedPrintsAsAsked, NoJob
<1>2. IInv /\ [Next]_vars => IInv'
  <2> SUFFICES ASSUME IInv, [Next]_vars PROVE IInv'
    OBVIOUS
  <2>1. ASSUME NEW c \in Clients, ValidateUpdate(c) PROVE IInv'
    <3>1. PICK value \in Supported : update' = [update EXCEPT ![c] = value]
      BY <2>1, RequestableSupported DEF ValidateUpdate
    <3>2. StoredInv'
      BY <2>1, <3>1 DEF ValidateUpdate, IInv, StoredInv
    <3> QED
      BY <2>1, <3>2 DEF ValidateUpdate, IInv, DefaultInv, JobInv,
                        AcceptedPrintsAsAsked, BothDefaults
  <2>2. ASSUME NEW c \in Clients, StoreUpdate(c) PROVE IInv'
    <3>1. update[c] \in Supported
      BY <2>2 DEF StoreUpdate, IInv, StoredInv
    <3>2. DefaultInv' /\ StoredInv'
      BY <2>2, <3>1 DEF StoreUpdate, IInv, StoredInv, DefaultInv, BothDefaults
    <3> QED
      BY <2>2, <3>2 DEF StoreUpdate, IInv, JobInv, AcceptedPrintsAsAsked
  <2>3. CASE SetDriverDefaults
    <3>1. DefaultInv' /\ StoredInv'
      BY <2>3, ListableSupported
         DEF SetDriverDefaults, IInv, StoredInv, DefaultInv, BothDefaults
    <3> QED
      BY <2>3, <3>1 DEF SetDriverDefaults, IInv, JobInv, AcceptedPrintsAsAsked
  <2>4. CASE SaveState
    <3>1. saved' \in Supported
      BY <2>4, DefaultMeans DEF SaveState, IInv, DefaultInv
    <3> QED
      BY <2>4, <3>1 DEF SaveState, IInv, StoredInv, DefaultInv, JobInv,
                        AcceptedPrintsAsAsked, BothDefaults
  <2>5. CASE Restart
    <3>1. PICK value \in Supported : LoadedDefault = BothDefaults(value)
      <4>1. 11 \in Supported
        BY DEF Supported, Mode
      <4>2. saved # 0 => TrimDefaultString(<<saved>>) \in Supported
        BY SavedLoads DEF IInv, StoredInv
      <4> QED
        BY <4>1, <4>2, AdvertisedDefault DEF LoadedDefault
    <3>2. DefaultInv' /\ StoredInv'
      BY <2>5, <3>1 DEF Restart, IInv, StoredInv, DefaultInv, BothDefaults
    <3> QED
      BY <2>5, <3>2 DEF Restart, IInv, JobInv, AcceptedPrintsAsAsked, NoJob
  <2>6. CASE SubmitJob
    <3>1. PICK enums \in EnumInputs, col \in ColInputs :
             /\ Admissible(enums, col)
             /\ job' = [state |-> "accepted", enums |-> enums, col |-> col]
      BY <2>6 DEF SubmitJob
    <3>2. JobInv' /\ AcceptedPrintsAsAsked'
      BY <3>1 DEF JobInv, AcceptedPrintsAsAsked
    <3> QED
      BY <2>6, <3>2 DEF SubmitJob, IInv, StoredInv, DefaultInv, BothDefaults
  <2>7. CASE StartJob
    <3>1. PICK enums \in EnumInputs, col \in ColInputs :
             /\ Admissible(enums, col)
             /\ job = [state |-> "accepted", enums |-> enums, col |-> col]
      BY <2>7 DEF StartJob, IInv, JobInv, NoJob
    <3>2. JobPolicy(enums, col) # "no"
      BY <3>1, PolicyOfAdmitted DEF IInv
    <3>3. job' = [state |-> "started", enums |-> enums, col |-> col,
                  policy |-> JobPolicy(enums, col), default |-> default]
      BY <2>7, <3>1, <3>2 DEF StartJob
    <3>4. JobInv' /\ AcceptedPrintsAsAsked'
      BY <3>1, <3>3, PolicyOfAdmitted DEF IInv, JobInv, AcceptedPrintsAsAsked
    <3> QED
      BY <2>7, <3>4 DEF StartJob, IInv, StoredInv, DefaultInv, BothDefaults
  <2>8. CASE UNCHANGED vars
    BY <2>8 DEF vars, IInv, StoredInv, DefaultInv, JobInv, BothDefaults,
                AcceptedPrintsAsAsked
  <2> QED
    BY <2>1, <2>2, <2>3, <2>4, <2>5, <2>6, <2>7, <2>8 DEF Next
<1> QED
  BY <1>1, <1>2, PTL DEF Spec

(* What PAPPL admits the driver prints, with the cuts the selection means, *)
(* for selections of any number of values in any order and whatever the    *)
(* clients do to the default between submission and start.                 *)
THEOREM PrintsAsAsked == Spec => []AcceptedPrintsAsAsked
<1>1. IInv => AcceptedPrintsAsAsked
  BY DEF IInv
<1> QED
  BY <1>1, IInvCorrect, PTL

(* The two representations of the default mean the same, however the       *)
(* updates of any number of clients interleave.                            *)
THEOREM RepresentationsAgree == Spec => []DefaultsAgree
<1>1. IInv => DefaultsAgree
  BY DefaultMeans, OneValue DEF IInv, DefaultInv, DefaultsAgree
<1> QED
  BY <1>1, IInvCorrect, PTL

(* A restart brings back the default that was saved last.                  *)
THEOREM RestartLoadsSaved == Spec => RestartKeepsDefault
<1>1. IInv /\ [Next]_vars => [Restart /\ saved # 0 => default'.enum = saved]_vars
  <2> SUFFICES ASSUME IInv, Restart, saved # 0 PROVE default'.enum = saved
    OBVIOUS
  <2>1. TrimDefaultString(<<saved>>) = saved /\ saved \in Supported
    BY SavedLoads DEF IInv, StoredInv
  <2>2. default' = BothDefaults(saved)
    BY <2>1 DEF Restart, LoadedDefault, Invalid, Supported, Mode
  <2> QED
    BY <2>1, <2>2, DefaultMeans
<1> QED
  BY <1>1, IInvCorrect, PTL DEF Spec, RestartKeepsDefault
=============================================================================
