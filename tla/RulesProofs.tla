----------------------------- MODULE RulesProofs -----------------------------
(***************************************************************************)
(* Theorems about the rules of db-qbs: a run that is opened loses nothing,   *)
(* a suggested table is accepted (ColumnRules), and the moments shown for a  *)
(* cron expression are those at which it fires (Cron).                       *)
(***************************************************************************)
EXTENDS ColumnRules, Cron, NaturalsInduction, WellFoundedInduction, TLAPS

-----------------------------------------------------------------------------
(* Columns: the invariant *)

\* A described type: a NUMBER without precision is <<"NUMBER", 0>>.
IsDescribed(type) ==
    /\ type[1] = "NUMBER" => type[2] \in Nat /\ (type[2] # 0 => type[3] \in Int)
    /\ type[1] \in {"CHAR", "TIMESTAMP"} => type[2] \in Nat

RuleTypes ==
    /\ stage \in {"drafting", "ready", "asked", "answered", "opened", "refused"}
    /\ \A c \in DOMAIN selected : IsDescribed(selected[c])
    /\ primaryKey \subseteq DOMAIN selected
    /\ \A c \in DOMAIN table.columns : IsColumn(table.columns[c])
    /\ stage \notin {"drafting", "ready"} =>
         reading \in [Unshaped -> Digits \X Digits] /\ present \in [Unshaped -> Digits \X Digits]
    /\ stage \in {"drafting", "ready"} => ~altered
    /\ fromDdl \in BOOLEAN /\ altered \in BOOLEAN
    /\ stage \in {"drafting", "ready"} /\ table = NoTable => ~fromDdl
    /\ IF stage = "drafting" THEN table = NoTable ELSE DOMAIN selected # {}

\* As long as nobody touches the table, what was asked for is what it would be asked again, ...
AskedInv ==
    /\ stage \in {"asked", "answered"} /\ ~altered => asked = RangeColumns
    /\ stage = "answered" => results = {c \in DOMAIN asked : Invalid(present[c], asked[c])}

\* ... and a run is opened on a table without issues, into which every value read fits.
FitInv ==
    stage = "opened" /\ ~altered =>
        /\ Issues = {}
        /\ present = reading => \A c \in DOMAIN RangeColumns : ~Invalid(reading[c], RangeColumns[c])

RuleInv == RuleTypes /\ AskedInv /\ FitInv /\ DdlPasses

-----------------------------------------------------------------------------
(* What the suggested table looks like, and why the agent accepts it. *)

LEMMA ClassifyShapes ==
    ASSUME NEW type, IsDescribed(type)
    PROVE  \/ Classify(type) = NeedsPrecision /\ type[1] = "NUMBER" /\ type[2] = 0
           \/ Classify(type) = Rejected
           \/ /\ type[1] = "NUMBER" /\ type[2] # 0 /\ Classify(type) = DeriveNumberShape(type[2], type[3])
              /\ IsSupportedDecimalShape(Classify(type)) /\ Classify(type).kind = "decimal"
              /\ Classify(type).precision \in Int /\ Classify(type).scale \in Int
           \/ type[1] = "CHAR" /\ Classify(type) = Varchar(type[2])
           \/ type[1] = "DATE" /\ Classify(type) = Datetime(0)
           \/ type[1] = "TIMESTAMP" /\ type[2] <= MaxFsp /\ Classify(type) = Datetime(MaxFsp)
<1>1. CASE type[1] = "NUMBER" /\ type[2] = 0
  BY <1>1 DEF Classify
<1>2. CASE type[1] = "NUMBER" /\ type[2] # 0
  <2> DEFINE shape == DeriveNumberShape(type[2], type[3])
  <2>1. shape.kind = "decimal" /\ shape.precision \in Int /\ shape.scale \in Int
    BY <1>2 DEF IsDescribed, DeriveNumberShape, Decimal
  <2>2. Classify(type) = IF IsSupportedDecimalShape(shape) THEN shape ELSE Rejected
    BY <1>2 DEF Classify
  <2>3. QED
    BY <1>2, <2>1, <2>2
<1>3. CASE type[1] = "CHAR"
  BY <1>3 DEF Classify
<1>4. CASE type[1] = "DATE"
  BY <1>4 DEF Classify
<1>5. CASE type[1] = "TIMESTAMP"
  BY <1>5 DEF Classify
<1>6. CASE type[1] \notin {"NUMBER", "CHAR", "DATE", "TIMESTAMP"}
  BY <1>6 DEF Classify
<1>7. QED
  BY <1>1, <1>2, <1>3, <1>4, <1>5, <1>6

\* NUMBER(p,s) holds at most p - s digits before the point and s after it; so does its shape.
LEMMA ShapeHolds ==
    ASSUME NEW p \in Nat, NEW s \in Int, NEW target, target.precision \in Nat, target.scale \in Nat,
           IsSupportedDecimalShape(DeriveNumberShape(p, s)), DecimalHolds(DeriveNumberShape(p, s), target),
           NEW before \in Nat, before <= p - s \/ before = 0,
           NEW after \in Nat, after <= s \/ after = 0
    PROVE  after <= target.scale /\ before + target.scale <= target.precision
<1> DEFINE shape == DeriveNumberShape(p, s)
<1>0. /\ shape.scale \in 0 .. MaxScale /\ shape.scale <= shape.precision
      /\ target.scale >= shape.scale
      /\ target.precision - target.scale >= shape.precision - shape.scale
  BY DEF IsSupportedDecimalShape, DecimalHolds
<1>1. CASE s < 0
  <2>1. shape.precision = p - s /\ shape.scale = 0
    BY <1>1 DEF DeriveNumberShape, Decimal
  <2>2. QED
    BY <1>0, <1>1, <2>1
<1>2. CASE s > p
  <2>1. shape.precision = s /\ shape.scale = s
    BY <1>2 DEF DeriveNumberShape, Decimal
  <2>2. QED
    BY <1>0, <1>2, <2>1
<1>3. CASE 0 <= s /\ s <= p
  <2>1. shape.precision = p /\ shape.scale = s
    BY <1>3 DEF DeriveNumberShape, Decimal
  <2>2. QED
    BY <1>0, <1>3, <2>1
<1>4. QED
  BY <1>1, <1>2, <1>3

\* What the source derives satisfies what the agent demands, column by column.
LEMMA DdlColumnHolds ==
    ASSUME RuleTypes, NEW hint, hint[1] \in Int, hint[2] \in Int, DdlGenerates(hint), NEW c \in DOMAIN selected
    PROVE  LET column == [shape |-> DdlShape(selected[c], hint), utf8mb4 |-> TRUE,
                          nullable |-> c \notin primaryKey, filled |-> FALSE]
           IN TypeHolds(selected[c], column) /\ IsColumn(column)
<1> DEFINE type == selected[c]
           shape == DdlShape(type, hint)
           column == [shape |-> shape, utf8mb4 |-> TRUE, nullable |-> c \notin primaryKey, filled |-> FALSE]
<1>0. IsDescribed(type) /\ MaxPrecision \in Nat /\ MaxScale \in Nat /\ MaxFsp \in Nat
  BY RuleAssumption DEF RuleTypes
<1>1. Unshaped = {d \in DOMAIN selected : Classify(selected[d]) = NeedsPrecision}
  BY DEF Unshaped
<1>2. CASE Classify(type) = NeedsPrecision
  <2>1. shape = Decimal(hint[1], hint[2]) /\ IsSupportedDecimalShape(shape)
    BY <1>1, <1>2 DEF DdlShape, DdlGenerates
  <2>2. shape.kind = "decimal" /\ shape.precision \in Nat /\ shape.scale \in Nat
    BY <1>0, <2>1 DEF Decimal, IsSupportedDecimalShape
  <2>3. NeedsPrecision # Rejected /\ NeedsPrecision.kind \notin {"decimal", "varchar"}
    BY DEF NeedsPrecision, Rejected
  <2>4. column.shape.kind = "decimal"
    BY <2>2
  <2> HIDE DEF column, type
  <2>5. TypeHolds(type, column)
    BY <1>2, <2>3, <2>4 DEF TypeHolds
  <2>6. IsColumn(column)
    BY <2>2 DEF IsColumn, column
  <2>7. QED
    BY <2>5, <2>6 DEF column, type
<1>3. CASE Classify(type) # NeedsPrecision
  <2>1. shape = Classify(type) /\ shape # Rejected
    BY <1>1, <1>3 DEF DdlShape, DdlGenerates
  <2>2. CASE shape.kind = "decimal" /\ IsSupportedDecimalShape(shape) /\ shape.precision \in Int /\ shape.scale \in Int
    <3>1. DecimalHolds(shape, shape)
      BY <2>2 DEF DecimalHolds
    <3>2. shape.precision \in Nat /\ shape.scale \in Nat
      BY <1>0, <2>2 DEF IsSupportedDecimalShape
    <3>3. QED
      BY <1>3, <2>1, <2>2, <3>1, <3>2 DEF TypeHolds, IsColumn
  <2>3. CASE type[1] = "CHAR" /\ shape = Varchar(type[2])
    BY <1>0, <1>3, <2>1, <2>3 DEF TypeHolds, IsColumn, Varchar, IsDescribed
  <2>4. CASE \E n \in Nat : shape = Datetime(n)
    BY <1>3, <2>1, <2>4 DEF TypeHolds, IsColumn, Datetime
  <2>5. QED
    BY <1>0, <1>3, <2>1, <2>2, <2>3, <2>4, ClassifyShapes
<1>4. QED
  BY <1>2, <1>3

LEMMA DdlHasNoIssues ==
    ASSUME RuleTypes, NEW hint, hint[1] \in Int, hint[2] \in Int, DdlGenerates(hint),
           table' = DdlTable(hint, FALSE), UNCHANGED <<selected, primaryKey>>
    PROVE  Issues' = {}
<1>1. /\ DOMAIN table'.columns = DOMAIN selected /\ table'.keys = {primaryKey} \ {{}} /\ table'.long = FALSE
      /\ \A c \in DOMAIN selected :
           /\ TypeHolds(selected[c], table'.columns[c])
           /\ table'.columns[c].nullable = (c \notin primaryKey)
  BY DdlColumnHolds DEF DdlTable
<1>2. ColumnIssues' = {}
  BY <1>1 DEF ColumnIssues
<1>3. UnmappedIssues' = {}
  BY <1>1 DEF UnmappedIssues
<1>4. KeyIssues' = {}
  <2>1. CASE primaryKey = {}
    BY <1>1, <2>1 DEF KeyIssues
  <2>2. CASE primaryKey # {}
    <3>1. primaryKey \in table'.keys
      BY <1>1, <2>2
    <3>2. \A d \in primaryKey : d \in DOMAIN selected /\ ~table'.columns[d].nullable
      BY <1>1 DEF RuleTypes
    <3>3. QED
      BY <2>2, <3>1, <3>2 DEF KeyIssues
  <2>3. QED
    BY <2>1, <2>2
<1>5. QED
  BY <1>1, <1>2, <1>3, <1>4 DEF Issues

\* The verdict looks at the task and the table only.
LEMMA SameIssues ==
    ASSUME UNCHANGED <<selected, primaryKey, table>>
    PROVE  Issues' = Issues /\ RangeColumns' = RangeColumns /\ Unshaped' = Unshaped
<1>1. Unshaped' = Unshaped
  BY DEF Unshaped
<1>2. RangeColumns' = RangeColumns
  BY <1>1 DEF RangeColumns
<1>3. Issues' = Issues
  BY DEF Issues, ColumnIssues, UnmappedIssues, KeyIssues
<1>4. QED
  BY <1>1, <1>2, <1>3

-----------------------------------------------------------------------------
(* Columns: the steps *)

LEMMA RulesStart == RuleInit => RuleInv
<1> SUFFICES ASSUME RuleInit PROVE RuleInv
  OBVIOUS
<1>1. DOMAIN selected = {} /\ DOMAIN table.columns = {}
  BY DEF RuleInit, NoTable
<1>2. RuleTypes
  BY <1>1 DEF RuleInit, RuleTypes
<1>3. AskedInv /\ FitInv /\ DdlPasses
  BY DEF RuleInit, AskedInv, FitInv, DdlPasses
<1>4. QED
  BY <1>2, <1>3 DEF RuleInv

LEMMA DraftKeeps ==
    ASSUME RuleInv, NEW columns \in Selections, NEW key, Draft(columns, key)
    PROVE  RuleInv'
<1> USE DEF RuleInv
<1>1. ASSUME NEW c \in DOMAIN columns PROVE IsDescribed(Described(columns[c]))
  <2>1. IsType(columns[c])
    BY RuleAssumption
  <2>2. QED
    BY <2>1 DEF IsType, IsDescribed, Described
<1>2. RuleTypes'
  <2>1. DOMAIN selected' = DOMAIN columns /\ DOMAIN columns # {}
    BY RuleAssumption DEF Draft
  <2>2. \A c \in DOMAIN selected' : IsDescribed(selected'[c])
    BY <1>1, <2>1 DEF Draft
  <2>3. QED
    BY <2>1, <2>2 DEF RuleTypes, Draft
<1>3. AskedInv' /\ FitInv' /\ DdlPasses'
  BY DEF Draft, AskedInv, FitInv, DdlPasses, RuleTypes
<1>4. QED
  BY <1>2, <1>3

LEMMA CreateKeeps ==
    ASSUME RuleInv, NEW hint \in Hints, NEW long \in BOOLEAN, Create(hint, long)
    PROVE  RuleInv'
<1> USE DEF RuleInv
<1>0. hint[1] \in Int /\ hint[2] \in Int /\ DdlGenerates(hint) /\ stage = "ready"
  BY RuleAssumption DEF Create
<1>1. /\ DOMAIN table'.columns = DOMAIN selected /\ table'.long = long
      /\ \A c \in DOMAIN selected : IsColumn(table'.columns[c])
  BY <1>0, DdlColumnHolds DEF Create, DdlTable
<1>2. RuleTypes'
  <2>1. table' # NoTable
    <3>1. DOMAIN NoTable.columns = {}
      BY DEF NoTable
    <3>2. QED
      BY <1>0, <1>1, <3>1 DEF RuleTypes
  <2>2. QED
    BY <1>0, <1>1, <2>1 DEF RuleTypes, Create
<1>3. AskedInv' /\ FitInv'
  BY <1>0 DEF Create, AskedInv, FitInv
<1>4. DdlPasses'
  <2>1. CASE long
    BY <1>1, <2>1 DEF DdlPasses
  <2>2. CASE ~long
    <3>1. table' = DdlTable(hint, FALSE)
      BY <2>2 DEF Create
    <3>2. QED
      BY <1>0, <3>1, DdlHasNoIssues DEF DdlPasses, Create
  <2>3. QED
    BY <2>1, <2>2
<1>5. QED
  BY <1>2, <1>3, <1>4

LEMMA AdoptKeeps ==
    ASSUME RuleInv, NEW t \in Tables, Adopt(t)
    PROVE  RuleInv'
<1> USE DEF RuleInv
<1>1. \A c \in DOMAIN t.columns : IsColumn(t.columns[c])
  BY RuleAssumption
<1>2. RuleTypes' /\ ~fromDdl'
  BY <1>1 DEF RuleTypes, Adopt
<1>3. AskedInv' /\ FitInv' /\ DdlPasses'
  BY <1>2 DEF Adopt, AskedInv, FitInv, DdlPasses
<1>4. QED
  BY <1>2, <1>3

LEMMA AlterKeeps ==
    ASSUME RuleInv, NEW t \in Changed, Alter(t)
    PROVE  RuleInv'
<1> USE DEF RuleInv
<1>1. \A c \in DOMAIN t.columns : IsColumn(t.columns[c])
  BY RuleAssumption
<1>2. Unshaped' = Unshaped
  BY DEF Alter, Unshaped
<1>3. RuleTypes'
  BY <1>1, <1>2 DEF RuleTypes, Alter
<1>4. AskedInv' /\ FitInv' /\ DdlPasses'
  BY DEF Alter, AskedInv, FitInv, DdlPasses, Invalid
<1>5. QED
  BY <1>3, <1>4

LEMMA EditKeeps ==
    ASSUME RuleInv, Edit
    PROVE  RuleInv'
<1> USE DEF RuleInv
<1>1. Issues' = Issues /\ RangeColumns' = RangeColumns /\ Unshaped' = Unshaped
  BY SameIssues DEF Edit
<1>2. RuleTypes'
  BY <1>1 DEF RuleTypes, Edit
<1>3. AskedInv' /\ FitInv' /\ DdlPasses'
  BY <1>1 DEF Edit, AskedInv, FitInv, DdlPasses
<1>4. QED
  BY <1>2, <1>3

LEMMA OpenKeeps ==
    ASSUME RuleInv, Open
    PROVE  RuleInv'
<1> USE DEF RuleInv
<1>1. Issues' = Issues /\ RangeColumns' = RangeColumns /\ Unshaped' = Unshaped
  BY SameIssues DEF Open
<1>2. stage' \in {"asked", "opened", "refused"} /\ ~altered' /\ stage = "ready"
  BY DEF Open, Verdict, RuleTypes
<1>3. RuleTypes'
  BY <1>1, <1>2 DEF RuleTypes, Open
<1>4. AskedInv'
  BY <1>1, <1>2 DEF Open, Verdict, AskedInv
<1>5. FitInv'
  BY <1>1 DEF Open, Verdict, FitInv
<1>6. DdlPasses'
  BY <1>1 DEF Open, DdlPasses
<1>7. QED
  BY <1>3, <1>4, <1>5, <1>6

LEMMA RangeCheckKeeps ==
    ASSUME RuleInv, RangeCheck
    PROVE  RuleInv'
<1> USE DEF RuleInv
<1>1. Issues' = Issues /\ RangeColumns' = RangeColumns /\ Unshaped' = Unshaped
  BY SameIssues DEF RangeCheck
<1>2. RuleTypes'
  BY <1>1 DEF RuleTypes, RangeCheck
<1>3. AskedInv'
  BY <1>1 DEF RangeCheck, AskedInv, Invalid
<1>4. FitInv' /\ DdlPasses'
  BY <1>1 DEF RangeCheck, FitInv, DdlPasses
<1>5. QED
  BY <1>2, <1>3, <1>4

\* The results that let a run be opened are about the very columns and shapes it is opened with.
LEMMA OpenWithResultsKeeps ==
    ASSUME RuleInv, OpenWithResults
    PROVE  RuleInv'
<1> USE DEF RuleInv
<1>1. Issues' = Issues /\ RangeColumns' = RangeColumns /\ Unshaped' = Unshaped
  BY SameIssues DEF OpenWithResults
<1>2. stage' \in {"opened", "refused"}
  BY DEF OpenWithResults, Verdict
<1>3. RuleTypes'
  BY <1>1, <1>2 DEF RuleTypes, OpenWithResults
<1>4. AskedInv'
  BY <1>2 DEF AskedInv
<1>5. FitInv'
  <2>1. SUFFICES ASSUME stage' = "opened", ~altered'
                 PROVE  /\ Issues = {}
                        /\ present = reading => \A c \in DOMAIN RangeColumns : ~Invalid(reading[c], RangeColumns[c])
    BY <1>1 DEF FitInv, OpenWithResults, Invalid
  <2>2. Issues = {} /\ (DOMAIN RangeColumns = {} \/ results = {})
    BY <2>1 DEF OpenWithResults, Verdict
  <2>3. asked = RangeColumns /\ results = {c \in DOMAIN asked : Invalid(present[c], asked[c])}
    BY <2>1 DEF OpenWithResults, AskedInv
  <2>4. QED
    BY <2>2, <2>3
<1>6. DdlPasses'
  BY <1>1 DEF OpenWithResults, DdlPasses
<1>7. QED
  BY <1>3, <1>4, <1>5, <1>6

LEMMA RulesStep == RuleInv /\ [RuleNext]_ruleVars => RuleInv'
<1> SUFFICES ASSUME RuleInv, [RuleNext]_ruleVars PROVE RuleInv'
  OBVIOUS
<1>1. CASE UNCHANGED ruleVars
  <2>1. Issues' = Issues /\ RangeColumns' = RangeColumns /\ Unshaped' = Unshaped
    BY <1>1, SameIssues DEF ruleVars
  <2>2. RuleTypes' /\ AskedInv'
    BY <1>1, <2>1 DEF RuleInv, RuleTypes, AskedInv, ruleVars, Invalid
  <2>3. FitInv' /\ DdlPasses'
    BY <1>1, <2>1 DEF RuleInv, FitInv, DdlPasses, ruleVars
  <2>4. QED
    BY <2>2, <2>3 DEF RuleInv
<1>2. QED
  BY <1>1, DraftKeeps, CreateKeeps, AdoptKeeps, AlterKeeps, EditKeeps, OpenKeeps, RangeCheckKeeps,
     OpenWithResultsKeeps DEF RuleNext

-----------------------------------------------------------------------------
(* Columns: what the invariant means *)

LEMMA KindsApart ==
    /\ NeedsPrecision # Rejected
    /\ NeedsPrecision.kind = "needs precision" /\ Rejected.kind = "rejected"
    /\ \A n : Varchar(n).kind = "varchar" /\ Varchar(n).length = n
    /\ \A n : Datetime(n).kind = "datetime" /\ Datetime(n).fsp = n
BY DEF NeedsPrecision, Rejected, Varchar, Datetime

LEMMA ArrivesWhole ==
    ASSUME RuleInv, stage = "opened", ~altered, present = reading,
           NEW c \in DOMAIN selected, c \in DOMAIN table.columns,
           TypeHolds(selected[c], table.columns[c])
    PROVE  Arrives(c)
<1> DEFINE type == selected[c]
           column == table.columns[c]
           target == column.shape
<1>0. IsDescribed(type) /\ IsColumn(column) /\ MaxFsp \in Nat
  BY RuleAssumption DEF RuleInv, RuleTypes
<1>1. CASE Classify(type) = NeedsPrecision /\ type[1] = "NUMBER"
  <2>1. c \in Unshaped
    BY <1>1 DEF Unshaped
  <2>2. target.kind = "decimal"
    <3> HIDE DEF type, column
    <3>1. QED
      BY <1>1, KindsApart DEF TypeHolds, type, column
  <2>3. c \in DOMAIN RangeColumns /\ RangeColumns[c] = target
    BY <2>1, <2>2 DEF RangeColumns
  <2>4. ~Invalid(reading[c], target) /\ reading[c] \in Digits \X Digits
    BY <2>1, <2>3 DEF RuleInv, FitInv, RuleTypes
  <2>5. reading[c][1] \in Nat /\ reading[c][2] \in Nat /\ target.precision \in Nat /\ target.scale \in Nat
    BY <1>0, <2>2, <2>4, RuleAssumption DEF IsColumn
  <2>6. reading[c][2] <= target.scale /\ reading[c][1] + target.scale <= target.precision
    BY <2>4, <2>5 DEF Invalid
  <2>7. QED
    BY <1>1, <2>1, <2>2, <2>6 DEF Arrives, ValuesOf
<1>2. CASE /\ type[1] = "NUMBER" /\ type[2] # 0 /\ Classify(type) = DeriveNumberShape(type[2], type[3])
           /\ IsSupportedDecimalShape(Classify(type)) /\ Classify(type).kind = "decimal"
  <2>1. c \notin Unshaped /\ Classify(type) # NeedsPrecision /\ Classify(type) # Rejected
    BY <1>2, KindsApart DEF Unshaped
  <2>2. target.kind = "decimal" /\ DecimalHolds(Classify(type), target)
    BY <1>2, <2>1 DEF TypeHolds
  <2>3. type[2] \in Nat /\ type[3] \in Int /\ target.precision \in Nat /\ target.scale \in Nat
    BY <1>0, <1>2, <2>2 DEF IsDescribed, IsColumn
  <2>4. ASSUME NEW v \in ValuesOf(c)
        PROVE  v[2] <= target.scale /\ v[1] + target.scale <= target.precision
    <3>1. /\ v[1] \in Nat /\ (v[1] <= type[2] - type[3] \/ v[1] = 0)
          /\ v[2] \in Nat /\ (v[2] <= type[3] \/ v[2] = 0)
      BY <2>1, <2>3, <2>4 DEF ValuesOf
    <3> HIDE DEF type, target
    <3>2. QED
      BY <1>2, <2>2, <2>3, <3>1, ShapeHolds
  <2>5. QED
    BY <1>2, <2>2, <2>4 DEF Arrives
<1>3. CASE type[1] = "CHAR" /\ Classify(type) = Varchar(type[2])
  <2>1. target.kind = "varchar" /\ target.length >= type[2]
    BY <1>3, KindsApart DEF TypeHolds
  <2>2. type[2] <= target.length
    BY <1>0, <1>3, <2>1 DEF IsDescribed, IsColumn
  <2>3. QED
    BY <1>3, <2>1, <2>2 DEF Arrives
<1>4. CASE type[1] = "DATE" /\ Classify(type) = Datetime(0)
  BY <1>0, <1>4, KindsApart DEF TypeHolds, Arrives, IsDescribed
<1>5. CASE type[1] = "TIMESTAMP" /\ type[2] <= MaxFsp /\ Classify(type) = Datetime(MaxFsp)
  <2>1. target = Datetime(MaxFsp)
    BY <1>5, KindsApart DEF TypeHolds
  <2>2. target.kind = "datetime" /\ type[2] <= target.fsp
    BY <1>5, <2>1, KindsApart
  <2>3. QED
    BY <1>5, <2>2 DEF Arrives
<1>6. Classify(type) # Rejected
  BY KindsApart DEF TypeHolds
<1>7. QED
  BY <1>0, <1>1, <1>2, <1>3, <1>4, <1>5, <1>6, ClassifyShapes

LEMMA OpenedIsSound == RuleInv => OpenedSound
<1> SUFFICES ASSUME RuleInv, stage = "opened", ~altered, present = reading
             PROVE  /\ \A c \in DOMAIN selected :
                          /\ c \in DOMAIN table.columns /\ Arrives(c)
                          /\ table.columns[c].nullable <=> c \notin primaryKey
                    /\ \A c \in DOMAIN table.columns \ DOMAIN selected :
                           table.columns[c].nullable \/ table.columns[c].filled
                    /\ IF primaryKey = {} THEN table.keys = {} ELSE primaryKey \in table.keys
  BY DEF OpenedSound
<1>1. ColumnIssues = {} /\ UnmappedIssues = {} /\ KeyIssues = {}
  BY DEF RuleInv, FitInv, Issues
<1>2. ASSUME NEW c \in DOMAIN selected
      PROVE  /\ c \in DOMAIN table.columns /\ TypeHolds(selected[c], table.columns[c])
             /\ table.columns[c].nullable \/ c \in primaryKey
  BY <1>1 DEF ColumnIssues
<1>3. \A c \in DOMAIN table.columns \ DOMAIN selected : table.columns[c].nullable \/ table.columns[c].filled
  BY <1>1 DEF UnmappedIssues
<1>4. \A c \in primaryKey \cap DOMAIN table.columns : ~table.columns[c].nullable
  BY <1>1 DEF KeyIssues
<1>5. IF primaryKey = {} THEN table.keys = {} ELSE primaryKey \in table.keys
  BY <1>1 DEF KeyIssues
<1>6. QED
  BY <1>2, <1>3, <1>4, <1>5, ArrivesWhole

LEMMA RulesHold == RuleSpec => []RuleInv
BY RulesStart, RulesStep, PTL DEF RuleSpec

\* A run that was opened loses nothing: whatever the types, the table, the values and the range check,
\* what precheck_with_primary_key and the two openings let through fits digit for digit, and the key
\* is one.  Tables altered and rows edited while the range check is on its way are excepted.
THEOREM OpenedLosesNothing == RuleSpec => []OpenedSound
BY RulesHold, OpenedIsSound, PTL

\* What generate_target_ddl suggests passes the precheck of the agent for every selection, key and hint
\* it accepts, except for the length of the name: two programs derive and judge, and do not drift.
THEOREM SuggestedTablesPass == RuleSpec => []DdlPasses
<1>1. RuleInv => DdlPasses
  BY DEF RuleInv
<1>2. QED
  BY <1>1, RulesHold, PTL

-----------------------------------------------------------------------------
(* Numbers: least elements, quotients and remainders *)

LEMMA LessWellFounded ==
    \E R : IsWellFoundedOn(R, Nat) /\ \A x, y \in Nat : <<y, x>> \in R <=> y < x
<1>1. IsWellFoundedOn(OpToRel(<, Nat), Nat)
  BY NatLessThanWellFounded, Zenon
<1>2. \A x, y \in Nat : <<y, x>> \in OpToRel(<, Nat) <=> y < x
  BY Zenon DEF OpToRel
<1>3. QED
  BY <1>1, <1>2, Zenon

LEMMA LeastOf ==
    ASSUME NEW T \in SUBSET Nat, T # {}
    PROVE  \E x \in T : \A y \in T : x <= y
<1>1. ASSUME NEW R, IsWellFoundedOn(R, Nat), \A x, y \in Nat : <<y, x>> \in R <=> y < x
      PROVE  \E x \in T : \A y \in T : ~(y < x)
  <2>1. \E x \in T : \A y \in T : <<y, x>> \notin R
    BY <1>1, WFMin, Zenon
  <2>2. QED
    BY <1>1, <2>1, Zenon
<1>2. \E x \in T : \A y \in T : ~(y < x)
  BY <1>1, LessWellFounded, Zenon
<1>3. QED
  BY <1>2

LEMMA MinIsLeast ==
    ASSUME NEW T \in SUBSET Nat, T # {}
    PROVE  Min(T) \in T /\ \A x \in T : Min(T) <= x
BY LeastOf DEF Min

LEMMA Monotone ==
    ASSUME NEW x \in Nat, NEW y \in Nat, NEW s \in Nat, x <= y
    PROVE  x * s \in Nat /\ y * s \in Nat /\ x * s <= y * s
<1>1. y - x \in Nat /\ y = x + (y - x)
  OBVIOUS
<1>2. (y - x) * s \in Nat /\ x * s \in Nat
  BY <1>1
<1>3. y * s = x * s + (y - x) * s
  BY <1>1
<1>4. QED
  BY <1>2, <1>3

LEMMA DivMod ==
    ASSUME NEW a \in Nat, NEW b \in Nat \ {0}
    PROVE  /\ a \div b \in Nat /\ a % b \in 0 .. b - 1 /\ a = b * (a \div b) + (a % b)
OBVIOUS
LEMMA ModUnique ==
    ASSUME NEW q \in Nat, NEW b \in Nat \ {0}, NEW r \in 0 .. b - 1
    PROVE  (b * q + r) % b = r /\ (b * q + r) \div b = q
OBVIOUS
LEMMA ModSmall ==
    ASSUME NEW b \in Nat \ {0}, NEW r \in 0 .. b - 1
    PROVE  r % b = r /\ r \div b = 0
OBVIOUS

LEMMA ModShift ==
    ASSUME NEW a \in Nat, NEW n \in Nat, NEW c \in Nat \ {0}
    PROVE  ((a % c) + n) % c = (a + n) % c
<1> DEFINE q == a \div c
           r == a % c
           p == (r + n) \div c
           s == (r + n) % c
<1>1. q \in Nat /\ r \in 0 .. c - 1 /\ a = c * q + r
  BY DivMod
<1>2. r + n \in Nat
  BY <1>1
<1>3. p \in Nat /\ s \in 0 .. c - 1 /\ r + n = c * p + s
  BY <1>2, DivMod
<1> HIDE DEF q, r, p, s
<1>4. a + n = c * (q + p) + s
  BY <1>1, <1>3
<1>5. (a + n) % c = s
  <2>1. q + p \in Nat
    BY <1>1, <1>3
  <2>2. (c * (q + p) + s) % c = s
    BY <2>1, <1>3, ModUnique
  <2>3. QED
    BY <2>2, <1>4
<1>6. QED
  BY <1>5 DEF s, r

LEMMA ModNest ==
    ASSUME NEW t \in Nat, NEW m \in Nat \ {0}, NEW h \in Nat \ {0}
    PROVE  (t % (m * h)) % m = t % m
<1> DEFINE q == t \div (m * h)
           r == t % (m * h)
           a == r \div m
           b == r % m
<1>1. m * h \in Nat \ {0}
  OBVIOUS
<1>2. q \in Nat /\ r \in 0 .. m * h - 1 /\ t = (m * h) * q + r
  BY <1>1, DivMod
<1> HIDE DEF q, r
<1>3. a \in Nat /\ b \in 0 .. m - 1 /\ r = m * a + b
  <2>1. r \in Nat
    BY <1>1, <1>2
  <2>2. QED
    BY <2>1, DivMod
<1> HIDE DEF a, b
<1>4. (m * h) * q = m * (h * q) /\ h * q \in Nat
  BY <1>2
<1>5. t = m * (h * q + a) + b
  BY <1>2, <1>3, <1>4
<1>6. t % m = b
  <2>1. h * q + a \in Nat
    BY <1>3, <1>4
  <2>2. (m * (h * q + a) + b) % m = b
    BY <2>1, <1>3, ModUnique
  <2>3. QED
    BY <2>2, <1>5
<1>7. QED
  BY <1>6 DEF b, r

-----------------------------------------------------------------------------
(* Cron: the bits of a field are the values the expression names *)

\* The loop of parse_field ends, and marks every step-th value from low to high and nothing else.
LEMMA ItemBitsAre ==
    ASSUME NEW low \in Nat, NEW high \in Nat, NEW step \in Nat \ {0},
           low <= high, high + step < StepWidth
    PROVE  \A v : v \in ItemBits(low, high, step)
                      <=> v \in low .. high /\ (v - low) % step = 0
<1> DEFINE at(n) == (low + n * step) % StepWidth
           T == {n \in Nat : low + n * step > high}
           Stops(n) == at(n) > high /\ \A m \in 1 .. n - 1 : at(m) <= high
<1>0. StepWidth \in Nat \ {0}
  BY CalendarAssumption
<1>1. PICK k \in T : \A y \in T : k <= y
  <2>1. (high + 1) * 1 <= (high + 1) * step
    BY Monotone
  <2>2. high + 1 \in T
    BY <2>1
  <2>3. QED
    BY <2>2, LeastOf
<1>2. \A n \in Nat : n < k <=> low + n * step <= high
  <2>1. ASSUME NEW n \in Nat, n < k
        PROVE  low + n * step <= high
    BY <2>1, <1>1
  <2>2. ASSUME NEW n \in Nat, k <= n
        PROVE  ~(low + n * step <= high)
    <3>1. k * step <= n * step /\ k * step \in Nat /\ n * step \in Nat
      BY <2>2, Monotone, <1>1
    <3>2. QED
      BY <3>1, <1>1
  <2>3. QED
    BY <2>1, <2>2, <1>1
<1>3. k \in Nat \ {0}
  BY <1>1
<1>4. \A n \in 0 .. k - 1 : at(n) = low + n * step /\ at(n) <= high
  <2>1. TAKE n \in 0 .. k - 1
  <2>2. n * step \in Nat /\ low + n * step <= high
    BY <1>2, <1>3
  <2>3. QED
    BY <2>2, <1>0, ModSmall
<1>5. at(k) = low + k * step /\ at(k) > high
  <2>1. low + (k - 1) * step <= high
    BY <1>2, <1>3
  <2>2. k * step = (k - 1) * step + step /\ k * step \in Nat /\ (k - 1) * step \in Nat
    BY <1>3
  <2>3. low + k * step < StepWidth
    BY <2>1, <2>2, <1>0
  <2>4. QED
    BY <2>2, <2>3, <1>0, <1>1, ModSmall
<1>6. k <= StepWidth
  <2>1. (k - 1) * 1 <= (k - 1) * step
    <3>1. (k - 1) \in Nat
      BY <1>3
    <3>2. 1 * (k - 1) <= step * (k - 1)
      BY <3>1, Monotone
    <3>3. QED
      BY <3>1, <3>2
  <2>2. low + (k - 1) * step <= high /\ (k - 1) * step \in Nat
    BY <1>2, <1>3
  <2>3. QED
    BY <2>1, <2>2, <1>0, <1>3
<1> HIDE DEF at, T
<1>7. Stops(k) /\ k \in 1 .. StepWidth
  BY <1>3, <1>4, <1>5, <1>6
<1>8. \A n \in 1 .. StepWidth : Stops(n) => n = k
  <2>1. TAKE n \in 1 .. StepWidth
  <2>2. HAVE Stops(n)
  <2>3. CASE n < k
    BY <2>2, <2>3, <1>3, <1>4
  <2>4. CASE k < n
    BY <2>2, <2>4, <1>3, <1>5
  <2>5. QED
    BY <2>3, <2>4, <1>3
<1> DEFINE stop == CHOOSE n \in 1 .. StepWidth : Stops(n)
<1>9. stop = k
  <2> HIDE DEF Stops
  <2>1. stop \in 1 .. StepWidth /\ Stops(stop)
    BY <1>7, Zenon
  <2>2. QED
    BY <2>1, <1>8
<1>10. ItemBits(low, high, step) = {at(n) : n \in 0 .. k - 1}
  <2>1. ItemBits(low, high, step) = {at(n) : n \in 0 .. stop - 1}
    BY DEF ItemBits, at
  <2>2. QED
    BY <2>1, <1>9, Zenon
<1>11. \A n \in 0 .. k - 1 : at(n) = low + n * step
  BY <1>4
<1>12. ASSUME NEW v, v \in ItemBits(low, high, step)
       PROVE  v \in low .. high /\ (v - low) % step = 0
  <2>1. PICK n \in 0 .. k - 1 : v = low + n * step
    BY <1>12, <1>10, <1>11
  <2>2. n * step \in Nat /\ low + n * step <= high /\ n \in Nat
    BY <1>2, <1>3
  <2>3. v \in low .. high /\ v - low = n * step
    BY <2>1, <2>2
  <2>4. (step * n + 0) % step = 0
    BY <2>2, ModUnique
  <2>5. v - low = step * n + 0
    BY <2>2, <2>3
  <2>6. QED
    BY <2>3, <2>4, <2>5
<1>13. ASSUME NEW v, v \in low .. high, (v - low) % step = 0
       PROVE  v \in ItemBits(low, high, step)
  <2> DEFINE q == (v - low) \div step
  <2>1. v - low \in Nat
    BY <1>13
  <2>2. q \in Nat /\ v - low = step * q + 0
    BY <2>1, <1>13, DivMod
  <2> HIDE DEF q
  <2>3. v = low + q * step
    BY <2>1, <2>2, <1>13
  <2>4. q \in 0 .. k - 1
    BY <2>2, <2>3, <1>2, <1>3, <1>13
  <2>5. QED
    BY <2>3, <2>4, <1>10, <1>11
<1>14. QED
  BY <1>12, <1>13

\* What upcoming is asked with: an expression that parsed, its steps too small to wrap.
Given == typed \in Expressions /\ Parses(typed) /\ ~Wraps

LEMMA CalendarNumbers ==
    /\ MinutesAnHour \in Nat \ {0} /\ HoursADay \in Nat \ {0} /\ WeekLength \in Nat \ {0}
    /\ MonthsAYear \in Nat \ {0} /\ LongestMonth \in Nat \ {0} /\ LookaheadDays \in Nat \ {0}
    /\ StepWidth \in Nat \ {0} /\ PreviewCount \in Nat \ {0} /\ MinutesADay \in Nat \ {0}
BY CalendarAssumption DEF MinutesADay

LEMMA BoundsAre ==
    /\ DOMAIN Bounds = {"minute", "hour", "day", "month", "weekday"}
    /\ \A f \in DOMAIN Bounds : Bounds[f][1] \in Nat /\ Bounds[f][2] \in Nat
    /\ Bounds["day"] = <<1, LongestMonth>> /\ Bounds["weekday"] = <<0, WeekLength>>
BY CalendarNumbers DEF Bounds

LEMMA ItemOrdered ==
    ASSUME Given, NEW f \in DOMAIN Bounds, NEW i \in typed[f]
    PROVE  /\ Low(i, Bounds[f]) \in Nat /\ High(i, Bounds[f]) \in Nat /\ Step(i) \in Nat \ {0}
           /\ Low(i, Bounds[f]) <= High(i, Bounds[f])
           /\ High(i, Bounds[f]) + Step(i) < StepWidth
<1>1. i \in Items
  BY ExpressionAssumption DEF Given
<1>2. Low(i, Bounds[f]) \in Nat /\ High(i, Bounds[f]) \in Nat
  BY <1>1, BoundsAre DEF Low, High, Items
<1>3. ItemParses(i, Bounds[f])
  BY DEF Given, Parses
<1>4. Step(i) \in Nat \ {0}
  BY <1>1, <1>3 DEF Step, Items, Unwritten, ItemParses
<1>5. ~(Bounds[f][2] + Step(i) >= StepWidth)
  BY DEF Given, Wraps
<1>6. QED
  BY <1>2, <1>3, <1>4, <1>5, BoundsAre, CalendarNumbers DEF ItemParses

\* A parsed field holds a value exactly when the expression, read word for word, does.
LEMMA FieldBitsSay ==
    ASSUME Given, NEW f \in DOMAIN Bounds, NEW v \in Nat
    PROVE  v \in FieldBits(typed[f], Bounds[f]) <=> Says(f, v)
<1>1. ASSUME NEW i \in typed[f]
      PROVE  v \in ItemBits(Low(i, Bounds[f]), High(i, Bounds[f]), Step(i))
                 <=> /\ Low(i, Bounds[f]) <= v /\ v <= High(i, Bounds[f])
                     /\ (v - Low(i, Bounds[f])) % Step(i) = 0
  <2> DEFINE low == Low(i, Bounds[f])
             high == High(i, Bounds[f])
             step == Step(i)
  <2>1. low \in Nat /\ high \in Nat /\ step \in Nat \ {0} /\ low <= high /\ high + step < StepWidth
    BY <1>1, ItemOrdered
  <2> HIDE DEF low, high, step
  <2>2. v \in ItemBits(low, high, step) <=> v \in low .. high /\ (v - low) % step = 0
    BY <2>1, ItemBitsAre
  <2>3. v \in ItemBits(low, high, step) <=> low <= v /\ v <= high /\ (v - low) % step = 0
    BY <2>1, <2>2
  <2>4. QED
    BY <2>3 DEF low, high, step
<1>2. v \in FieldBits(typed[f], Bounds[f])
          <=> \E i \in typed[f] : v \in ItemBits(Low(i, Bounds[f]), High(i, Bounds[f]), Step(i))
  BY DEF FieldBits
<1>3. QED
  BY <1>1, <1>2 DEF Says

\* Sunday may be written either way.
LEMMA NormalWeekSays ==
    ASSUME Given, NEW v \in 0 .. WeekLength - 1
    PROVE  v \in NormalWeek(FieldBits(typed["weekday"], Bounds["weekday"]))
               <=> Says("weekday", v) \/ (v = 0 /\ Says("weekday", WeekLength))
<1> DEFINE bits == FieldBits(typed["weekday"], Bounds["weekday"])
<1>1. "weekday" \in DOMAIN Bounds /\ v \in Nat /\ WeekLength \in Nat /\ v # WeekLength
  BY BoundsAre, CalendarNumbers
<1>2. (v \in bits <=> Says("weekday", v)) /\ (WeekLength \in bits <=> Says("weekday", WeekLength))
  BY <1>1, FieldBitsSay
<1> HIDE DEF bits
<1>3. v \in NormalWeek(bits) <=> v \in bits \/ (v = 0 /\ WeekLength \in bits)
  BY <1>1 DEF NormalWeek
<1>4. QED
  BY <1>2, <1>3 DEF bits

\* A star says everything, which is why date_matches may leave unrestricted fields out.
LEMMA StarSays ==
    ASSUME NEW f \in DOMAIN Bounds, typed[f] = StarField,
           NEW v \in Bounds[f][1] .. Bounds[f][2]
    PROVE  Says(f, v)
<1> DEFINE star == [kind |-> "star", low |-> 0, high |-> 0, step |-> Unwritten]
<1>1. star \in typed[f]
  BY DEF StarField
<1>2. Low(star, Bounds[f]) = Bounds[f][1] /\ High(star, Bounds[f]) = Bounds[f][2] /\ Step(star) = 1
  BY DEF Low, High, Step, Unwritten
<1>3. Bounds[f][1] <= v /\ v <= Bounds[f][2] /\ (v - Bounds[f][1]) % 1 = 0
  BY BoundsAre
<1>4. QED
  BY <1>1, <1>2, <1>3 DEF Says

-----------------------------------------------------------------------------
(* Cron: the calendar *)

LEMMA MonthStartsAre ==
    /\ Len(MonthStarts) \in Nat /\ Len(MonthStarts) >= 2
    /\ \A k \in 1 .. Len(MonthStarts) : MonthStarts[k] \in Nat
    /\ CycleDays \in Nat \ {0}
<1>1. Len(MonthStarts) \in Nat /\ Len(MonthStarts) >= 2
  BY CalendarAssumption DEF Months
<1>2. \A k \in 1 .. Len(MonthStarts) : MonthStarts[k] \in Nat
  BY CalendarAssumption
<1> DEFINE T == {k \in Nat : 2 <= k /\ k <= Len(MonthStarts) /\ MonthStarts[k] <= 0}
<1>3. T = {}
  <2>1. SUFFICES ASSUME T # {} PROVE FALSE
    OBVIOUS
  <2>2. PICK k \in T : \A y \in T : k <= y
    BY <2>1, LeastOf
  <2>3. k - 1 \in Months /\ k - 1 \in Nat /\ k - 1 \in 1 .. Len(MonthStarts) /\ (k - 1) + 1 = k
    BY <2>2, <1>1 DEF Months
  <2>4. MonthStarts[k] - MonthStarts[k - 1] \in 1 .. LongestMonth
    BY <2>3, CalendarAssumption
  <2>5. MonthStarts[k - 1] \in Nat /\ MonthStarts[k] \in Nat
    BY <2>2, <2>3, <1>1, <1>2
  <2>6. QED
    BY <2>2, <2>4, <2>5, CalendarNumbers
<1>4. QED
  BY <1>1, <1>2, <1>3 DEF CycleDays

\* Every day lies in one month of the calendar.
LEMMA MonthIsThere ==
    ASSUME NEW day \in Nat
    PROVE  /\ MonthAt(day) \in Months
           /\ MonthStarts[MonthAt(day)] <= day % CycleDays
           /\ day % CycleDays < MonthStarts[MonthAt(day) + 1]
<1> DEFINE d == day % CycleDays
           T == {k \in Nat : 1 <= k /\ k <= Len(MonthStarts) /\ MonthStarts[k] > d}
<1>1. d \in Nat /\ d < CycleDays
  <2>1. d \in 0 .. CycleDays - 1
    BY MonthStartsAre, DivMod
  <2>2. QED
    BY <2>1, MonthStartsAre
<1>2. Len(MonthStarts) \in T
  BY <1>1, MonthStartsAre DEF CycleDays
<1>3. PICK k \in T : \A y \in T : k <= y
  BY <1>2, LeastOf
<1>4. k # 1
  BY <1>1, <1>3, CalendarAssumption
<1>5. k - 1 \in Months /\ MonthStarts[k - 1] <= d /\ d < MonthStarts[(k - 1) + 1]
  <2>1. k - 1 \in Nat /\ k - 1 \in 1 .. Len(MonthStarts) /\ (k - 1) + 1 = k /\ k - 1 \in Months
    BY <1>3, <1>4, MonthStartsAre DEF Months
  <2>2. k - 1 \notin T
    BY <1>3, <2>1
  <2>3. MonthStarts[k - 1] \in Nat
    BY <2>1, MonthStartsAre
  <2>4. QED
    BY <1>1, <1>3, <2>1, <2>2, <2>3
<1> HIDE DEF T
<1>6. QED
  BY <1>5, Zenon DEF MonthAt, d

LEMMA DayInMonth ==
    ASSUME NEW day \in Nat
    PROVE  /\ DayOfMonth(day) \in 1 .. LongestMonth /\ Month(day) \in Nat
           /\ Weekday(day) \in 0 .. WeekLength - 1
<1> DEFINE k == MonthAt(day)
           d == day % CycleDays
<1>1. k \in Months /\ MonthStarts[k] <= d /\ d < MonthStarts[k + 1]
  BY MonthIsThere
<1>2. d \in Nat
  BY MonthStartsAre, DivMod
<1> HIDE DEF k, d
<1>3. k \in Nat \ {0} /\ k \in 1 .. Len(MonthStarts) /\ k + 1 \in 1 .. Len(MonthStarts)
  BY <1>1, MonthStartsAre DEF Months
<1>4. MonthStarts[k + 1] - MonthStarts[k] \in 1 .. LongestMonth
  BY <1>1, CalendarAssumption
<1>5. MonthStarts[k] \in Nat /\ MonthStarts[k + 1] \in Nat
  BY <1>3, MonthStartsAre
<1>6. d - MonthStarts[k] + 1 \in 1 .. LongestMonth
  BY <1>1, <1>2, <1>4, <1>5, CalendarNumbers
<1>7. DayOfMonth(day) = d - MonthStarts[k] + 1
  BY DEF DayOfMonth, d, k
<1>8. Month(day) = ((k - 1) % MonthsAYear) + 1
  BY DEF Month, k
<1>9. ((k - 1) % MonthsAYear) \in Nat
  <2>1. k - 1 \in Nat
    BY <1>3
  <2>2. QED
    BY <2>1, CalendarNumbers, DivMod
<1>10. Weekday(day) \in 0 .. WeekLength - 1
  BY CalendarNumbers, DivMod DEF Weekday
<1>11. QED
  BY <1>6, <1>7, <1>8, <1>9, <1>10

LEMMA SameDate ==
    ASSUME NEW a, NEW b, a % CycleDays = b % CycleDays
    PROVE  Month(a) = Month(b) /\ DayOfMonth(a) = DayOfMonth(b)
<1>1. MonthAt(a) = MonthAt(b)
  BY DEF MonthAt
<1>2. QED
  BY <1>1 DEF Month, DayOfMonth

\* date_matches is the date part of what the expression means.
LEMMA DateMatchesSays ==
    ASSUME Given, NEW day \in Nat
    PROVE  DateMatches(Parsed(typed), day) <=>
               /\ Says("month", Month(day))
               /\ LET byDay == Says("day", DayOfMonth(day))
                      byWeek == Says("weekday", Weekday(day))
                                    \/ (Weekday(day) = 0 /\ Says("weekday", WeekLength))
                  IN IF StarField \in {typed.day, typed.weekday} THEN byDay /\ byWeek
                                                                 ELSE byDay \/ byWeek
<1> DEFINE s == Parsed(typed)
           byDay == DayOfMonth(day) \in s.day.bits
           byWeek == Weekday(day) \in s.weekday.bits
           saysDay == Says("day", DayOfMonth(day))
           saysWeek == Says("weekday", Weekday(day))
                           \/ (Weekday(day) = 0 /\ Says("weekday", WeekLength))
           starDay == typed["day"] = StarField
           starWeek == typed["weekday"] = StarField
<1>1. /\ s.day.bits = FieldBits(typed["day"], Bounds["day"]) /\ s.day.restricted = ~starDay
      /\ s.month.bits = FieldBits(typed["month"], Bounds["month"])
      /\ s.weekday.bits = NormalWeek(FieldBits(typed["weekday"], Bounds["weekday"]))
      /\ s.weekday.restricted = ~starWeek
  BY BoundsAre DEF Parsed
<1>2. Month(day) \in s.month.bits <=> Says("month", Month(day))
  BY <1>1, DayInMonth, FieldBitsSay, BoundsAre
<1>3. byDay <=> saysDay
  BY <1>1, DayInMonth, FieldBitsSay, BoundsAre
<1>4. byWeek <=> saysWeek
  BY <1>1, DayInMonth, NormalWeekSays
<1>5. starDay => saysDay
  BY DayInMonth, StarSays, BoundsAre
<1>6. starWeek => saysWeek
  <2>1. Weekday(day) \in 0 .. WeekLength
    BY DayInMonth, CalendarNumbers
  <2>2. QED
    BY <2>1, StarSays, BoundsAre
<1>7. DateMatches(s, day) <=>
          /\ Month(day) \in s.month.bits
          /\ CASE ~starDay /\ ~starWeek -> byDay \/ byWeek
               [] ~starDay /\ ~~starWeek -> byDay
               [] ~~starDay /\ ~starWeek -> byWeek
               [] OTHER -> TRUE
  BY <1>1, Zenon DEF DateMatches
<1> HIDE DEF s, byDay, byWeek, saysDay, saysWeek
<1>8. DateMatches(s, day) <=>
          /\ Says("month", Month(day))
          /\ IF StarField \in {typed["day"], typed["weekday"]} THEN saysDay /\ saysWeek
                                                               ELSE saysDay \/ saysWeek
  <2>1. CASE starDay /\ starWeek
    BY <2>1, <1>2, <1>3, <1>4, <1>5, <1>6, <1>7
  <2>2. CASE ~starDay /\ starWeek
    BY <2>2, <1>2, <1>3, <1>4, <1>5, <1>6, <1>7
  <2>3. CASE starDay /\ ~starWeek
    BY <2>3, <1>2, <1>3, <1>4, <1>5, <1>6, <1>7
  <2>4. CASE ~starDay /\ ~starWeek
    BY <2>4, <1>2, <1>3, <1>4, <1>5, <1>6, <1>7
  <2>5. QED
    BY <2>1, <2>2, <2>3, <2>4
<1>9. QED
  BY <1>8 DEF s, saysDay, saysWeek

-----------------------------------------------------------------------------
(* Cron: the next moment *)

\* The hour and the minute of a minute of the day are ones the expression names.
AtTheMinute(m) == Says("hour", m \div MinutesAnHour) /\ Says("minute", m % MinutesAnHour)

LEMMA ClockSays ==
    ASSUME Given, NEW m \in Nat
    PROVE  (m \div MinutesAnHour \in Parsed(typed).hour.bits /\ m % MinutesAnHour \in Parsed(typed).minute.bits)
               <=> AtTheMinute(m)
<1>1. m \div MinutesAnHour \in Nat /\ m % MinutesAnHour \in Nat
  <2>1. m % MinutesAnHour \in 0 .. MinutesAnHour - 1 /\ m \div MinutesAnHour \in Nat
    BY CalendarNumbers, DivMod
  <2>2. QED
    BY <2>1, CalendarNumbers
<1>2. /\ Parsed(typed).hour.bits = FieldBits(typed["hour"], Bounds["hour"])
      /\ Parsed(typed).minute.bits = FieldBits(typed["minute"], Bounds["minute"])
  BY BoundsAre DEF Parsed
<1>3. m \div MinutesAnHour \in Parsed(typed).hour.bits <=> Says("hour", m \div MinutesAnHour)
  BY <1>1, <1>2, FieldBitsSay, BoundsAre
<1>4. m % MinutesAnHour \in Parsed(typed).minute.bits <=> Says("minute", m % MinutesAnHour)
  BY <1>1, <1>2, FieldBitsSay, BoundsAre
<1>5. QED
  BY <1>3, <1>4 DEF AtTheMinute

\* An expression fires at a moment when its date matches and its time does.
LEMMA FiresIs ==
    ASSUME Given, NEW t \in Nat
    PROVE  Fires(t) <=> DateMatches(Parsed(typed), t \div MinutesADay) /\ AtTheMinute(t % MinutesADay)
<1>1. t \div MinutesADay \in Nat
  BY CalendarNumbers, DivMod
<1>2. (t % MinutesADay) % MinutesAnHour = t % MinutesAnHour
  BY CalendarNumbers, ModNest DEF MinutesADay
<1>3. QED
  BY <1>1, <1>2, DateMatchesSays DEF Fires, AtTheMinute

\* A day and a minute of it make a moment.
LEMMA SplitMoment ==
    ASSUME NEW d \in Nat, NEW m \in 0 .. MinutesADay - 1
    PROVE  /\ d * MinutesADay + m \in Nat
           /\ (d * MinutesADay + m) \div MinutesADay = d /\ (d * MinutesADay + m) % MinutesADay = m
<1>1. (MinutesADay * d + m) % MinutesADay = m /\ (MinutesADay * d + m) \div MinutesADay = d
  BY CalendarNumbers, ModUnique
<1>2. MinutesADay * d = d * MinutesADay /\ d * MinutesADay \in Nat
  BY CalendarNumbers
<1>3. QED
  BY <1>1, <1>2, CalendarNumbers

\* The order of moments is that of the days, and of the minutes of one day.
LEMMA MomentOrder ==
    ASSUME NEW s \in Nat, NEW t \in Nat
    PROVE  /\ s \div MinutesADay < t \div MinutesADay => s < t
           /\ s \div MinutesADay = t \div MinutesADay =>
                  (s <= t <=> s % MinutesADay <= t % MinutesADay)
<1> DEFINE D == MinutesADay
           a == s \div D
           b == t \div D
           p == s % D
           q == t % D
<1>1. D \in Nat \ {0}
  BY CalendarNumbers
<1> HIDE DEF D
<1>2. /\ a \in Nat /\ p \in 0 .. D - 1 /\ s = D * a + p
      /\ b \in Nat /\ q \in 0 .. D - 1 /\ t = D * b + q
  BY <1>1, DivMod
<1> HIDE DEF a, b, p, q
<1>3. a * D \in Nat /\ b * D \in Nat /\ D * a = a * D /\ D * b = b * D
  BY <1>1, <1>2
<1>4. ASSUME a < b PROVE s < t
  <2>1. (a + 1) * D <= b * D
    BY <1>1, <1>2, <1>4, Monotone
  <2>2. (a + 1) * D = a * D + D
    BY <1>1, <1>2
  <2>3. QED
    BY <2>1, <2>2, <1>1, <1>2, <1>3
<1>5. ASSUME a = b PROVE s <= t <=> p <= q
  BY <1>1, <1>2, <1>3, <1>5
<1>6. QED
  BY <1>4, <1>5 DEF D, a, b, p, q

\* The days searched hold one of every date and of every weekday of a month.
LEMMA DateComesAgain ==
    ASSUME Given, NEW first \in Nat, NEW day \in Nat, DateMatches(Parsed(typed), day)
    PROVE  \E n \in 1 .. LookaheadDays - 1 : DateMatches(Parsed(typed), first + n)
<1> DEFINE now == first % CycleDays
           that == day % CycleDays
           today == first % WeekLength
           saysDay(d) == Says("day", DayOfMonth(d))
           saysWeek(d) == Says("weekday", Weekday(d))
                              \/ (Weekday(d) = 0 /\ Says("weekday", WeekLength))
           star == StarField \in {typed.day, typed.weekday}
<1>1. /\ now \in 0 .. CycleDays - 1 /\ that \in 0 .. CycleDays - 1 /\ now \in Nat /\ that \in Nat
      /\ today \in 0 .. WeekLength - 1 /\ Weekday(day) \in 0 .. WeekLength - 1
  <2>1. now \in 0 .. CycleDays - 1 /\ that \in 0 .. CycleDays - 1
    BY MonthStartsAre, DivMod
  <2>2. today \in 0 .. WeekLength - 1
    BY CalendarNumbers, DivMod
  <2>3. QED
    BY <2>1, <2>2, DayInMonth, MonthStartsAre
<1>2. Month(that) = Month(day) /\ DayOfMonth(that) = DayOfMonth(day)
  <2>1. that % CycleDays = day % CycleDays
    BY <1>1, MonthStartsAre, ModSmall
  <2>2. QED
    BY <2>1, SameDate
<1>3. \A n \in Nat : /\ Month(now + n) = Month(first + n)
                     /\ DayOfMonth(now + n) = DayOfMonth(first + n)
                     /\ (today + n) % WeekLength = Weekday(first + n)
  <2>1. TAKE n \in Nat
  <2>2. (now + n) % CycleDays = (first + n) % CycleDays
    BY MonthStartsAre, ModShift
  <2>3. (today + n) % WeekLength = (first + n) % WeekLength
    <3>1. WeekLength \in Nat \ {0}
      BY CalendarNumbers
    <3>2. QED
      BY <3>1, ModShift
  <2>4. QED
    BY <2>2, <2>3, SameDate DEF Weekday
<1>4. 1 .. LookaheadDays - 1 \subseteq Nat
  BY CalendarNumbers
<1>5. \E n \in 1 .. LookaheadDays - 1 : Month(first + n) = Month(day) /\ DayOfMonth(first + n) = DayOfMonth(day)
  <2>1. \E n \in 1 .. LookaheadDays - 1 : Month(now + n) = Month(that) /\ DayOfMonth(now + n) = DayOfMonth(that)
    BY <1>1, LookaheadAssumption
  <2>2. QED
    BY <2>1, <1>2, <1>3, <1>4
<1>6. \E n \in 1 .. LookaheadDays - 1 : Month(first + n) = Month(day) /\ Weekday(first + n) = Weekday(day)
  <2>1. \E n \in 1 .. LookaheadDays - 1 : Month(now + n) = Month(that) /\ (today + n) % WeekLength = Weekday(day)
    BY <1>1, LookaheadAssumption
  <2>2. QED
    BY <2>1, <1>2, <1>3, <1>4
<1> HIDE DEF now, that, today
<1>7. \A d \in Nat : DateMatches(Parsed(typed), d) <=>
                         /\ Says("month", Month(d))
                         /\ IF star THEN saysDay(d) /\ saysWeek(d) ELSE saysDay(d) \/ saysWeek(d)
  BY DateMatchesSays
<1>8. \A n \in 1 .. LookaheadDays - 1 : first + n \in Nat
  BY CalendarNumbers
<1>9. \A d \in Nat : /\ typed["day"] = StarField => saysDay(d)
                     /\ typed["weekday"] = StarField => saysWeek(d)
  <2>1. TAKE d \in Nat
  <2>2. DayOfMonth(d) \in Bounds["day"][1] .. Bounds["day"][2]
    BY DayInMonth, BoundsAre
  <2>3. Weekday(d) \in Bounds["weekday"][1] .. Bounds["weekday"][2]
    BY DayInMonth, BoundsAre, CalendarNumbers
  <2>4. QED
    BY <2>2, <2>3, StarSays, BoundsAre
<1>10. ASSUME NEW n \in 1 .. LookaheadDays - 1, Month(first + n) = Month(day),
              DayOfMonth(first + n) = DayOfMonth(day)
       PROVE  /\ Says("month", Month(first + n)) <=> Says("month", Month(day))
              /\ saysDay(first + n) <=> saysDay(day)
  BY <1>10
<1>11. ASSUME NEW n \in 1 .. LookaheadDays - 1, Month(first + n) = Month(day),
              Weekday(first + n) = Weekday(day)
       PROVE  /\ Says("month", Month(first + n)) <=> Says("month", Month(day))
              /\ saysWeek(first + n) <=> saysWeek(day)
  BY <1>11
<1> HIDE DEF saysDay, saysWeek
<1>12. CASE typed["weekday"] = StarField \/ (~star /\ saysDay(day))
  BY <1>5, <1>7, <1>8, <1>9, <1>10, <1>12
<1>13. CASE typed["day"] = StarField \/ (~star /\ saysWeek(day))
  BY <1>6, <1>7, <1>8, <1>9, <1>11, <1>13
<1>14. QED
  BY <1>7, <1>12, <1>13

\* What one turn of the loop of upcoming finds: the first moment after at which the expression
\* fires, or that there is none.
LEMMA NextAfterIs ==
    ASSUME Given, NEW after \in Nat
    PROVE  LET next == NextAfter(Parsed(typed), after)
           IN \/ next = NoMoment /\ \A t \in Nat : after < t => ~Fires(t)
              \/ /\ next \in Nat /\ after < next /\ Fires(next)
                 /\ \A t \in after + 1 .. next - 1 : ~Fires(t)
<1> DEFINE s == Parsed(typed)
           D == MinutesADay
           start == after + 1
           first == start \div D
           days == {d \in first .. first + LookaheadDays - 1 : DateMatches(s, d)}
           From(d) == IF d = first THEN start % D ELSE 0
           minutes(d) == {m \in From(d) .. D - 1 :
                              m \div MinutesAnHour \in s.hour.bits /\ m % MinutesAnHour \in s.minute.bits}
           hits == {d \in days : minutes(d) # {}}
           day == Min(hits)
           minute == Min(minutes(day))
<1>1. /\ start \in Nat /\ first \in Nat /\ start % D \in 0 .. D - 1 /\ D \in Nat \ {0}
      /\ first + LookaheadDays - 1 \in Nat
  <2>1. start \in Nat /\ D \in Nat \ {0}
    BY CalendarNumbers
  <2>2. first \in Nat /\ start % D \in 0 .. D - 1
    BY <2>1, DivMod
  <2>3. QED
    BY <2>1, <2>2, CalendarNumbers
<1>2. NextAfter(s, after) = IF hits = {} THEN NoMoment ELSE day * D + minute
  BY DEF NextAfter
<1>3. days \subseteq Nat /\ hits \subseteq days
  BY <1>1
<1>4. \A d \in Nat : From(d) \in 0 .. D - 1
  BY <1>1
<1>5. \A d \in Nat : \A m : m \in minutes(d) <=> m \in From(d) .. D - 1 /\ AtTheMinute(m)
  <2>1. TAKE d \in Nat
  <2>2. \A m \in From(d) .. D - 1 : m \in Nat
    BY <1>1, <1>4
  <2>3. QED
    BY <2>2, ClockSays
<1>6. ASSUME NEW t \in Nat, after < t, Fires(t), t \div D \in days
      PROVE  t \div D \in hits /\ t % D \in minutes(t \div D)
  <2>1. t \div D \in Nat /\ t % D \in 0 .. D - 1
    BY <1>1, DivMod
  <2>2. AtTheMinute(t % D)
    BY <1>6, FiresIs
  <2>3. t % D \in From(t \div D) .. D - 1
    <3>1. start <= t
      BY <1>6, <1>1
    <3>2. t \div D = first => start % D <= t % D
      BY <3>1, <1>1, MomentOrder
    <3>3. QED
      BY <3>2, <2>1, <1>1
  <2>4. QED
    BY <2>1, <2>2, <2>3, <1>5, <1>6
<1>7. CASE hits = {}
  <2>1. SUFFICES ASSUME NEW t \in Nat, after < t, Fires(t)
                 PROVE  FALSE
    BY <1>7, <1>2
  <2>2. t \div D \in Nat /\ t % D \in 0 .. D - 1
    BY <1>1, DivMod
  <2>3. DateMatches(s, t \div D) /\ AtTheMinute(t % D)
    BY <2>1, FiresIs
  <2>4. PICK n \in 1 .. LookaheadDays - 1 : DateMatches(s, first + n)
    BY <2>2, <2>3, <1>1, DateComesAgain
  <2>5. first + n \in days /\ first + n # first /\ first + n \in Nat
    BY <2>4, <1>1, CalendarNumbers
  <2>6. t % D \in minutes(first + n)
    <3>1. From(first + n) = 0
      BY <2>5
    <3>2. t % D \in From(first + n) .. D - 1
      BY <3>1, <2>2
    <3>3. QED
      BY <3>2, <2>3, <2>5, <1>5
  <2>7. QED
    BY <2>5, <2>6, <1>7
<1>8. CASE hits # {}
  <2>1. day \in hits /\ \A d \in hits : day <= d
    BY <1>8, <1>3, MinIsLeast
  <2>2. day \in Nat /\ day \in days /\ minutes(day) # {} /\ first <= day
    BY <2>1, <1>3, <1>1
  <2>3. minutes(day) \subseteq 0 .. D - 1
    BY <2>2, <1>1, <1>4
  <2>4. minute \in minutes(day) /\ \A m \in minutes(day) : minute <= m
    <3>1. minutes(day) \in SUBSET Nat
      BY <2>3, <1>1
    <3>2. QED
      BY <2>2, <3>1, MinIsLeast
  <2>5. minute \in 0 .. D - 1 /\ From(day) <= minute /\ AtTheMinute(minute)
    <3>1. minute \in From(day) .. D - 1 /\ AtTheMinute(minute)
      BY <2>2, <2>4, <1>5
    <3>2. minute \in 0 .. D - 1
      BY <2>3, <2>4
    <3>3. From(day) \in Nat
      BY <2>2, <1>4, <1>1
    <3> HIDE DEF day, minute, From
    <3>4. From(day) <= minute
      BY <3>1, <3>2, <3>3, <1>1
    <3>5. QED
      BY <3>1, <3>2, <3>4
  <2> DEFINE next == day * D + minute
  <2>6. next \in Nat /\ next \div D = day /\ next % D = minute
    BY <2>2, <2>5, SplitMoment
  <2>7. NextAfter(s, after) = next
    BY <1>2, <1>8
  <2> HIDE DEF day, minute, next, hits, minutes, From
  <2>8. Fires(next)
    <3>1. DateMatches(s, day)
      BY <2>2
    <3>2. QED
      BY <3>1, <2>5, <2>6, FiresIs
  <2>9. after < next
    <3>1. CASE first < day
      <4>1. start < next
        BY <3>1, <2>6, <1>1, MomentOrder
      <4>2. QED
        BY <4>1, <2>6
    <3>2. CASE first = day
      <4>1. start % D <= minute
        BY <3>2, <2>5 DEF From
      <4>2. start <= next
        BY <3>2, <4>1, <2>6, <1>1, MomentOrder
      <4>3. QED
        BY <4>2, <2>6
    <3>3. QED
      BY <3>1, <3>2, <2>2, <1>1
  <2>10. ASSUME NEW t \in after + 1 .. next - 1, Fires(t)
         PROVE  FALSE
    <3>1. t \in Nat /\ after < t /\ t < next /\ start <= t
      BY <2>6
    <3>2. t \div D \in Nat /\ t % D \in 0 .. D - 1
      BY <3>1, <1>1, DivMod
    <3>3. first <= t \div D
      <4>1. t \div D < first => t < start
        BY <3>1, <1>1, MomentOrder
      <4>2. QED
        BY <4>1, <3>1, <3>2, <1>1
    <3>4. t \div D <= day
      BY <3>1, <3>2, <2>2, <2>6, MomentOrder
    <3>5. DateMatches(s, t \div D)
      BY <3>1, <2>10, FiresIs
    <3>6. t \div D \in days
      <4>1. day <= first + LookaheadDays - 1
        BY <2>2
      <4>2. t \div D \in first .. first + LookaheadDays - 1
        BY <4>1, <3>2, <3>3, <3>4, <2>2, <1>1, CalendarNumbers
      <4>3. QED
        BY <4>2, <3>5
    <3>7. t \div D \in hits /\ t % D \in minutes(t \div D)
      BY <3>1, <3>6, <2>10, <1>6
    <3>8. t \div D = day
      BY <3>7, <3>4, <3>2, <2>1, <2>2
    <3>9. minute <= t % D
      BY <3>7, <3>8, <2>4
    <3>10. next <= t
      BY <3>1, <3>8, <3>9, <2>6, MomentOrder
    <3>11. QED
      BY <3>1, <3>10, <2>6
  <2>11. QED
    BY <2>6, <2>7, <2>8, <2>9, <2>10
<1>9. QED
  BY <1>7, <1>8

-----------------------------------------------------------------------------
(* Cron: the invariant *)

CronTypes ==
    /\ typedAt \in Nat /\ upcoming \in Seq(Nat)
    /\ answer \in {"none yet", "counting", "refused", "complete"}
    /\ answer = "none yet" => upcoming = <<>>
    /\ answer \in {"counting", "complete"} => typed \in Expressions /\ Parses(typed)

\* The n-th moment shown is the first after the one before, ...
NextShown(n) ==
    LET before == IF n = 1 THEN typedAt ELSE upcoming[n - 1]
    IN /\ before < upcoming[n] /\ Fires(upcoming[n])
       /\ \A t \in before + 1 .. upcoming[n] - 1 : ~Fires(t)

ShownInv == answer \in {"counting", "complete"} /\ ~Wraps => \A n \in DOMAIN upcoming : NextShown(n)

\* ... and when the list ends early there is none left, ever: stronger than UpcomingTrue, which TLC
\* can only follow for one turn of the calendar and the week.
EndInv ==
    answer = "complete" /\ ~Wraps /\ Len(upcoming) < PreviewCount =>
        \A t \in Nat : LastShown < t => ~Fires(t)

CronInv == CronTypes /\ ShownInv /\ EndInv

LEMMA NextAfterNat ==
    ASSUME NEW s, NEW after \in Nat
    PROVE  NextAfter(s, after) \in Nat \cup {NoMoment}
<1> DEFINE D == MinutesADay
           start == after + 1
           first == start \div D
           days == {d \in first .. first + LookaheadDays - 1 : DateMatches(s, d)}
           From(d) == IF d = first THEN start % D ELSE 0
           minutes(d) == {m \in From(d) .. D - 1 :
                              m \div MinutesAnHour \in s.hour.bits /\ m % MinutesAnHour \in s.minute.bits}
           hits == {d \in days : minutes(d) # {}}
<1>1. start \in Nat /\ D \in Nat \ {0}
  BY CalendarNumbers
<1>2. first \in Nat /\ start % D \in 0 .. D - 1
  BY <1>1, DivMod
<1>3. NextAfter(s, after) = IF hits = {} THEN NoMoment ELSE Min(hits) * D + Min(minutes(Min(hits)))
  BY DEF NextAfter
<1>4. hits \subseteq Nat /\ \A d \in Nat : minutes(d) \subseteq Nat
  BY <1>1, <1>2, CalendarNumbers
<1>5. ASSUME hits # {}
      PROVE  Min(hits) * D + Min(minutes(Min(hits))) \in Nat
  <2>1. Min(hits) \in hits
    BY <1>4, <1>5, MinIsLeast
  <2>2. Min(hits) \in Nat /\ minutes(Min(hits)) # {}
    BY <2>1, <1>4
  <2>3. minutes(Min(hits)) \in SUBSET Nat
    BY <2>2, <1>4
  <2>4. Min(minutes(Min(hits))) \in Nat
    BY <2>2, <2>3, MinIsLeast
  <2> HIDE DEF D, hits, minutes
  <2>5. QED
    BY <2>2, <2>4, <1>1
<1> HIDE DEF D, hits, minutes
<1>6. QED
  BY <1>3, <1>5

LEMMA LastOfSeq ==
    ASSUME NEW q \in Seq(Nat), q # <<>>
    PROVE  Len(q) \in DOMAIN q /\ q[Len(q)] \in Nat
OBVIOUS

LEMMA LastShownNat == CronTypes => LastShown \in Nat
<1>1. CronTypes => upcoming \in Seq(Nat) /\ typedAt \in Nat
  BY DEF CronTypes
<1>2. QED
  BY <1>1, LastOfSeq DEF LastShown

LEMMA CronInvTrue == CronInv => UpcomingTrue
<1>1. SUFFICES ASSUME CronInv, answer \in {"counting", "complete"}, ~Wraps
               PROVE  UpcomingTrue
  BY DEF UpcomingTrue
<1>2. \A n \in DOMAIN upcoming : NextShown(n)
  BY <1>1 DEF CronInv, ShownInv
<1>3. ASSUME answer = "complete", Len(upcoming) < PreviewCount,
             NEW t \in LastShown + 1 .. LastShown + CycleDays * WeekLength * MinutesADay
      PROVE  ~Fires(t)
  <2>1. LastShown \in Nat
    BY <1>1, LastShownNat DEF CronInv
  <2>2. t \in Nat /\ LastShown < t
    <3>1. CycleDays * WeekLength * MinutesADay \in Nat
      BY CalendarNumbers, MonthStartsAre
    <3>2. QED
      BY <2>1, <3>1
  <2>3. QED
    BY <1>1, <1>3, <2>2 DEF CronInv, EndInv
<1>4. QED
  BY <1>2, <1>3 DEF UpcomingTrue, NextShown

LEMMA CronStart == CronInit => CronInv
<1>1. <<>> \in Seq(Nat)
  OBVIOUS
<1>2. ASSUME CronInit
      PROVE  CronTypes
  <2>1. upcoming \in Seq(Nat)
    BY <1>1, <1>2, Zenon DEF CronInit
  <2>2. QED
    BY <1>2, <2>1 DEF CronInit, CronTypes
<1>3. CronInit => ShownInv /\ EndInv
  BY DEF CronInit, ShownInv, EndInv
<1>4. QED
  BY <1>2, <1>3 DEF CronInv

LEMMA TypeKeeps ==
    ASSUME CronInv, NEW e \in Expressions, NEW now \in Moments, Type(e, now)
    PROVE  CronInv'
<1>1. CronTypes'
  BY ExpressionAssumption DEF CronInv, CronTypes, Type
<1>2. upcoming' = <<>> /\ answer' # "complete"
  BY DEF CronInv, CronTypes, Type
<1>3. QED
  BY <1>1, <1>2 DEF CronInv, ShownInv, EndInv

LEMMA ShowKeeps ==
    ASSUME CronInv, Show
    PROVE  CronInv'
<1> DEFINE next == NextAfter(Parsed(typed), LastShown)
<1>1. /\ typed' = typed /\ typedAt' = typedAt /\ answer = "counting" /\ answer' \in {"counting", "complete"}
      /\ typed \in Expressions /\ Parses(typed) /\ typedAt \in Nat /\ upcoming \in Seq(Nat)
      /\ LastShown \in Nat
  BY LastShownNat DEF CronInv, CronTypes, Show
<1>2. Wraps' = Wraps /\ \A t : Fires(t)' = Fires(t)
  BY <1>1 DEF Wraps, Fires, Says
<1>3. CASE Wraps
  <2>1. upcoming' \in Seq(Nat)
    BY <1>1, NextAfterNat DEF Show
  <2>2. QED
    BY <1>1, <1>2, <1>3, <2>1 DEF CronInv, CronTypes, ShownInv, EndInv
<1>4. CASE ~Wraps /\ next = NoMoment
  <2>1. upcoming' = upcoming /\ LastShown' = LastShown
    BY <1>1, <1>4 DEF Show, LastShown
  <2>2. \A t \in Nat : LastShown < t => ~Fires(t)
    BY <1>1, <1>4, NextAfterIs DEF Given, NoMoment
  <2>3. ShownInv'
    BY <1>1, <1>2, <1>4, <2>1 DEF CronInv, ShownInv, NextShown
  <2>4. EndInv'
    BY <1>2, <2>1, <2>2 DEF EndInv
  <2>5. QED
    BY <1>1, <2>1, <2>3, <2>4 DEF CronInv, CronTypes
<1>5. CASE ~Wraps /\ next # NoMoment
  <2>1. next \in Nat /\ LastShown < next /\ Fires(next) /\ \A t \in LastShown + 1 .. next - 1 : ~Fires(t)
    BY <1>1, <1>5, NextAfterIs DEF Given, NoMoment
  <2>2. PICK shown \in Nat, last \in Nat : shown = next /\ last = LastShown
    BY <1>1, <2>1
  <2>3. /\ upcoming' = Append(upcoming, shown)
        /\ answer' = "complete" => Len(upcoming) + 1 = PreviewCount
    BY <1>1, <1>5, <2>2 DEF Show
  <2>4. last < shown /\ Fires(shown) /\ \A t \in last + 1 .. shown - 1 : ~Fires(t)
    BY <2>1, <2>2
  <2> HIDE DEF next
  <2>5. /\ Len(upcoming') = Len(upcoming) + 1 /\ upcoming'[Len(upcoming) + 1] = shown
        /\ \A n \in DOMAIN upcoming : upcoming'[n] = upcoming[n]
        /\ DOMAIN upcoming' = DOMAIN upcoming \cup {Len(upcoming) + 1}
        /\ upcoming' \in Seq(Nat)
    BY <1>1, <2>3
  <2>6. ASSUME NEW n \in DOMAIN upcoming
        PROVE  NextShown(n)'
    <3>1. NextShown(n)
      BY <1>1, <1>5 DEF CronInv, ShownInv
    <3>2. upcoming'[n] = upcoming[n] /\ n # 1 => upcoming'[n - 1] = upcoming[n - 1]
      BY <1>1, <2>5
    <3>3. QED
      BY <1>1, <1>2, <3>1, <3>2, <2>5 DEF NextShown
  <2>7. ASSUME NEW n, n = Len(upcoming) + 1
        PROVE  NextShown(n)'
    <3>1. (IF n = 1 THEN typedAt' ELSE upcoming'[n - 1]) = last
      <4>1. CASE upcoming = <<>>
        BY <1>1, <2>2, <2>7, <4>1 DEF LastShown
      <4>2. CASE upcoming # <<>>
        <5>1. n # 1 /\ n - 1 = Len(upcoming) /\ n - 1 \in DOMAIN upcoming
          BY <1>1, <2>7, <4>2, LastOfSeq
        <5>2. QED
          BY <5>1, <4>2, <2>2, <2>5 DEF LastShown
      <4>3. QED
        BY <4>1, <4>2
    <3>2. upcoming'[n] = shown
      BY <2>5, <2>7
    <3>3. Fires(shown)' /\ \A t \in last + 1 .. shown - 1 : ~(Fires(t)')
      BY <2>4, <1>2, Zenon
    <3>4. QED
      BY <3>1, <3>2, <3>3, <2>4 DEF NextShown
  <2>8. ShownInv'
    <3>1. \A n \in DOMAIN upcoming' : n \in DOMAIN upcoming \/ n = Len(upcoming) + 1
      BY <2>5
    <3>2. \A n \in DOMAIN upcoming' : NextShown(n)'
      BY <3>1, <2>6, <2>7, Zenon
    <3>3. QED
      BY <3>2, Zenon DEF ShownInv
  <2>9. EndInv'
    BY <1>1, <2>3, <2>5, CalendarNumbers DEF EndInv
  <2>10. QED
    BY <1>1, <2>5, <2>8, <2>9 DEF CronInv, CronTypes
<1>6. QED
  BY <1>3, <1>4, <1>5

\* The preview of a schedule tells the truth: whatever the calendar, the expression and the moment, the
\* moments of next_fire_times are those at which the expression fires next, none skipped and none added,
\* and a list that stops early stops because the expression never fires again.
THEOREM UpcomingMoments == CronSpec => []UpcomingTrue
<1>1. CronInv /\ [CronNext]_cronVars => CronInv'
  <2>1. SUFFICES ASSUME CronInv, [CronNext]_cronVars
                 PROVE  CronInv'
    OBVIOUS
  <2>2. CASE \E e \in Expressions, now \in Moments : Type(e, now)
    BY <2>1, <2>2, TypeKeeps
  <2>3. CASE Show
    BY <2>1, <2>3, ShowKeeps
  <2>4. CASE UNCHANGED cronVars
    <3>1. typed' = typed /\ typedAt' = typedAt /\ upcoming' = upcoming /\ answer' = answer
      BY <2>4 DEF cronVars
    <3>2. Wraps' = Wraps /\ LastShown' = LastShown /\ \A t : Fires(t)' = Fires(t)
      BY <3>1 DEF Wraps, LastShown, Fires, Says
    <3>3. \A n : NextShown(n)' <=> NextShown(n)
      BY <3>1, <3>2 DEF NextShown
    <3>4. CronTypes'
      BY <2>1, <3>1 DEF CronInv, CronTypes
    <3>5. ShownInv' /\ EndInv'
      BY <2>1, <3>1, <3>2, <3>3 DEF CronInv, ShownInv, EndInv
    <3>6. QED
      BY <3>4, <3>5 DEF CronInv
  <2>5. QED
    BY <2>1, <2>2, <2>3, <2>4 DEF CronNext
<1>2. QED
  BY CronStart, CronInvTrue, <1>1, PTL DEF CronSpec

=============================================================================
