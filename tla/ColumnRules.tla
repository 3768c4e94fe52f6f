----------------------------- MODULE ColumnRules -----------------------------
(***************************************************************************)
(* What may be transferred into what: the shape derived from a source column  *)
(* (crates/shared/src/target_shape.rs), the table the task form suggests      *)
(* (crates/source/src/target_ddl.rs), the agent's check of the table that is  *)
(* there (crates/sink/src/precheck.rs), and the range check of the columns    *)
(* whose declaration bounds nothing, which the run child answers between two  *)
(* openings (transfer.rs, oracle_source.rs, service.rs).  Names are compared  *)
(* without case and no two columns of a task have the same (task_spec.rs).    *)
(***************************************************************************)
EXTENDS Integers, FiniteSets

CONSTANTS
    MaxPrecision, MaxScale,     \* DECIMAL(65,30)
    MaxFsp,                     \* DATETIME(6)
    Selections,                 \* columns a task may select, name -> Oracle type: <<"NUMBER", p, s>>,
                                \* <<"CHAR", n>>, <<"DATE">>, <<"TIMESTAMP", n>>
    Tables,                     \* target tables that may be there already, ...
    Changed,                    \* ... and what they may be changed into meanwhile
    Hints,                      \* [precision, scale] given for columns without one
    Digits                      \* bound: digits before and after the point of a value

\* What Oracle describes: a precision, a length or fractional digits are never negative, a scale may be.
IsType(type) ==
    /\ type[1] = "NUMBER" => type[2] \in Nat /\ type[3] \in Int
    /\ type[1] \in {"CHAR", "TIMESTAMP"} => type[2] \in Nat

\* What MySQL reports of a column.
IsColumn(column) ==
    /\ column.shape.kind = "decimal" => column.shape.precision \in Nat /\ column.shape.scale \in Nat
    /\ column.shape.kind = "varchar" => column.shape.length \in Nat
    /\ {column.utf8mb4, column.nullable, column.filled} \subseteq BOOLEAN

ASSUME RuleAssumption ==
    /\ {MaxPrecision, MaxScale, MaxFsp} \subseteq Nat /\ Digits \subseteq Nat
    /\ \A columns \in Selections : DOMAIN columns # {} /\ \A c \in DOMAIN columns : IsType(columns[c])
    /\ \A t \in Tables \cup Changed : \A c \in DOMAIN t.columns : IsColumn(t.columns[c])
    /\ \A hint \in Hints : hint[1] \in Int /\ hint[2] \in Int

VARIABLES
    stage,          \* "drafting", "ready", "asked", "answered", "opened" or "refused"
    selected,       \* the described columns
    primaryKey,     \* TaskSpec.primary_key
    table,          \* the target table: its columns, unique keys and whether its name is long
    fromDdl,        \* it was made with the suggested statement
    reading,        \* the digits of the value the cursor delivers, by column without precision
    present,        \* the same in the source as it is now
    asked,          \* the shapes of the RangeCheckNeeded answer
    results,        \* columns with invalid rows, as the range check found
    altered         \* the target table changed after the range check was asked for

ruleVars == <<stage, selected, primaryKey, table, fromDdl, reading, present, asked, results, altered>>

-----------------------------------------------------------------------------
(* Shapes *)

Decimal(p, s) == [kind |-> "decimal", precision |-> p, scale |-> s]
Varchar(n) == [kind |-> "varchar", length |-> n]
Datetime(n) == [kind |-> "datetime", fsp |-> n]
NeedsPrecision == [kind |-> "needs precision"]
Rejected == [kind |-> "rejected"]

DeriveNumberShape(p, s) ==
    CASE s < 0 -> Decimal(p - s, 0)
      [] s > p -> Decimal(s, s)
      [] OTHER -> Decimal(p, s)

IsSupportedDecimalShape(shape) ==
    shape.precision \in 1 .. MaxPrecision /\ shape.scale \in 0 .. MaxScale /\ shape.scale <= shape.precision

\* describe_column: whatever scale comes with it, a precision of 0 is none declared.
Described(type) == IF type[1] = "NUMBER" /\ type[2] = 0 THEN <<"NUMBER", 0>> ELSE type

\* classify_column, of a described column.
Classify(type) ==
    CASE type[1] = "NUMBER" /\ type[2] = 0 -> NeedsPrecision
      [] type[1] = "NUMBER" /\ type[2] # 0 ->
             LET shape == DeriveNumberShape(type[2], type[3])
             IN IF IsSupportedDecimalShape(shape) THEN shape ELSE Rejected
      [] type[1] = "CHAR" -> Varchar(type[2])
      [] type[1] = "DATE" -> Datetime(0)
      [] type[1] = "TIMESTAMP" /\ type[2] <= MaxFsp -> Datetime(MaxFsp)
      [] OTHER -> Rejected

Unshaped == {c \in DOMAIN selected : Classify(selected[c]) = NeedsPrecision}

-----------------------------------------------------------------------------
(* The suggested table *)

\* target_column_type; without a hint the statement has a gap and cannot be run.
DdlShape(type, hint) == IF Classify(type) = NeedsPrecision THEN Decimal(hint[1], hint[2]) ELSE Classify(type)

DdlGenerates(hint) ==
    \A c \in DOMAIN selected :
        IF c \in Unshaped THEN IsSupportedDecimalShape(Decimal(hint[1], hint[2]))
        ELSE Classify(selected[c]) # Rejected

SlipDdlTable(hint, long) ==
    [columns |-> [c \in DOMAIN selected |->
                     [shape |-> DdlShape(selected[c], hint), utf8mb4 |-> TRUE,
                      nullable |-> TRUE, filled |-> FALSE]],
     keys |-> {primaryKey} \ {{}}, long |-> long]

\* generate_target_ddl: key columns NOT NULL, the others NULL; a key if there is one.
DdlTable(hint, long) ==
    [columns |-> [c \in DOMAIN selected |->
                     [shape |-> DdlShape(selected[c], hint), utf8mb4 |-> TRUE,
                      nullable |-> c \notin primaryKey, filled |-> FALSE]],
     keys |-> {primaryKey} \ {{}}, long |-> long]

-----------------------------------------------------------------------------
(* precheck_with_primary_key: the columns and rules that are broken *)

SlipDecimalHolds(shape, target) == target.scale >= shape.scale /\ target.precision >= shape.precision

\* target_satisfies_number_lower_bound
DecimalHolds(shape, target) ==
    /\ target.scale >= shape.scale
    /\ target.precision - target.scale >= shape.precision - shape.scale

\* validate_source_type: number, unshaped number, varchar and datetime.
TypeHolds(type, column) ==
    LET shape == Classify(type)
        target == column.shape
    IN CASE shape = Rejected -> FALSE
         [] shape = NeedsPrecision -> target.kind = "decimal"
         [] shape.kind = "decimal" -> target.kind = "decimal" /\ DecimalHolds(shape, target)
         [] shape.kind = "varchar" ->
                target.kind = "varchar" /\ target.length >= shape.length /\ column.utf8mb4
         [] OTHER -> target = shape

ColumnIssues ==
    LET missing == DOMAIN selected \ DOMAIN table.columns
        mapped == DOMAIN selected \cap DOMAIN table.columns
    IN {<<c, "missing">> : c \in missing}
       \cup {<<c, "type">> : c \in {d \in mapped : ~TypeHolds(selected[d], table.columns[d])}}
       \cup {<<c, "not null">> : c \in {d \in mapped : ~table.columns[d].nullable /\ d \notin primaryKey}}

UnmappedIssues ==
    {<<c, "unmapped">> : c \in {d \in DOMAIN table.columns \ DOMAIN selected :
                                   ~table.columns[d].nullable /\ ~table.columns[d].filled}}

\* validate_primary_key, or validate_no_primary_key for a task that appends.
KeyIssues ==
    IF primaryKey = {} THEN {<<"key", "present">> : k \in table.keys}
    ELSE {<<c, "nullable key">> : c \in {d \in primaryKey \cap DOMAIN table.columns : table.columns[d].nullable}}
         \cup (IF primaryKey \in table.keys THEN {} ELSE {<<"key", "absent">>})

Issues == ColumnIssues \cup UnmappedIssues \cup KeyIssues
              \cup (IF table.long THEN {<<"table", "long">>} ELSE {})

\* range_check_columns: with the shape the target has now.
RangeColumns ==
    LET columns == {c \in Unshaped \cap DOMAIN table.columns : table.columns[c].shape.kind = "decimal"}
    IN [c \in columns |-> table.columns[c].shape]

-----------------------------------------------------------------------------
(* A task and its table *)

Draft(columns, key) ==
    /\ stage = "drafting" /\ key \subseteq DOMAIN columns
    /\ selected' = [c \in DOMAIN columns |-> Described(columns[c])] /\ primaryKey' = key
    /\ stage' = "ready"
    /\ UNCHANGED <<table, fromDdl, reading, present, asked, results, altered>>

NoTable == [columns |-> << >>, keys |-> {}, long |-> FALSE]

Create(hint, long) ==
    /\ stage = "ready" /\ table = NoTable
    /\ DdlGenerates(hint)
    /\ table' = DdlTable(hint, long) /\ fromDdl' = TRUE
    /\ UNCHANGED <<stage, selected, primaryKey, reading, present, asked, results, altered>>

Adopt(t) ==
    /\ stage = "ready" /\ table = NoTable
    /\ table' = t
    /\ UNCHANGED <<stage, selected, primaryKey, fromDdl, reading, present, asked, results, altered>>

\* While the range check is on its way the table may be changed by its owner, ...
Alter(t) ==
    /\ stage \in {"asked", "answered"} /\ ~altered
    /\ table' = t /\ altered' = TRUE
    /\ UNCHANGED <<stage, selected, primaryKey, fromDdl, reading, present, asked, results>>

\* ... and rows may change: the cursor of the run was opened before.
Edit ==
    /\ stage = "asked" /\ present = reading
    /\ present' \in [Unshaped -> Digits \X Digits] /\ present' # present
    /\ UNCHANGED <<stage, selected, primaryKey, table, fromDdl, reading, asked, results, altered>>

-----------------------------------------------------------------------------
(* Opening the run *)

Verdict == stage' = IF Issues = {} THEN "opened" ELSE "refused"

\* The first opening: with columns to check it asks for that before anything it found.
Open ==
    /\ stage = "ready" /\ table # NoTable
    /\ reading' \in [Unshaped -> Digits \X Digits] /\ present' = reading'
    /\ IF DOMAIN RangeColumns = {} THEN Verdict /\ UNCHANGED asked
       ELSE stage' = "asked" /\ asked' = RangeColumns
    /\ UNCHANGED <<selected, primaryKey, table, fromDdl, results, altered>>

\* The condition of build_range_check_query.
Invalid(value, shape) == value[2] > shape.scale \/ value[1] > shape.precision - shape.scale

\* On a connection of its own, of the rows as they are now.
RangeCheck ==
    /\ stage = "asked"
    /\ results' = {c \in DOMAIN asked : Invalid(present[c], asked[c])}
    /\ stage' = "answered"
    /\ UNCHANGED <<selected, primaryKey, table, fromDdl, reading, present, asked, altered>>

\* The second opening reads the table anew; the results must be of the columns it would
\* ask for, and carry no shape.
OpenWithResults ==
    /\ stage = "answered"
    /\ IF DOMAIN RangeColumns = {} THEN Verdict
       ELSE IF DOMAIN RangeColumns # DOMAIN asked \/ results # {} THEN stage' = "refused"
       ELSE Verdict
    /\ UNCHANGED <<selected, primaryKey, table, fromDdl, reading, present, asked, results, altered>>

RuleInit ==
    /\ stage = "drafting" /\ selected = << >> /\ primaryKey = {} /\ table = NoTable
    /\ fromDdl = FALSE /\ reading = << >> /\ present = << >> /\ asked = << >>
    /\ results = {} /\ altered = FALSE

RuleNext ==
    \/ \E columns \in Selections : \E key \in SUBSET DOMAIN columns : Draft(columns, key)
    \/ \E hint \in Hints, long \in BOOLEAN : Create(hint, long)
    \/ \E t \in Tables : Adopt(t)
    \/ \E t \in Changed : Alter(t)
    \/ Open \/ Edit \/ RangeCheck \/ OpenWithResults

RuleSpec == RuleInit /\ [][RuleNext]_ruleVars

-----------------------------------------------------------------------------
(* Properties *)

\* The digits of the values of a number column: NUMBER(p,s) holds n * 10^-s, |n| < 10^p.
ValuesOf(c) ==
    LET type == selected[c]
        atMost(n) == 0 .. IF n < 0 THEN 0 ELSE n
    IN IF c \in Unshaped THEN {reading[c]} ELSE atMost(type[2] - type[3]) \X atMost(type[3])

Arrives(c) ==
    LET type == selected[c]
        target == table.columns[c].shape
    IN CASE type[1] = "NUMBER" ->
               target.kind = "decimal" /\ \A v \in ValuesOf(c) : v[2] <= target.scale /\ v[1] + target.scale <= target.precision
         [] type[1] = "CHAR" -> target.kind = "varchar" /\ type[2] <= target.length
         [] type[1] = "DATE" -> target.kind = "datetime"
         [] type[1] = "TIMESTAMP" -> target.kind = "datetime" /\ type[2] <= target.fsp
         [] OTHER -> FALSE

\* A run that was opened loses nothing on the way: every value of every column fits its
\* target column digit for digit, so may a NULL outside of the key; columns of the table
\* that are not written fill themselves; and a task with a key meets it as a unique key
\* that cannot be NULL, one without meets none.  Rows or a table that change while the
\* range check is on its way are not seen.
OpenedSound ==
    stage = "opened" /\ ~altered /\ present = reading =>
        /\ \A c \in DOMAIN selected : /\ c \in DOMAIN table.columns /\ Arrives(c)
                                      /\ table.columns[c].nullable <=> c \notin primaryKey
        /\ \A c \in DOMAIN table.columns \ DOMAIN selected :
               table.columns[c].nullable \/ table.columns[c].filled
        /\ IF primaryKey = {} THEN table.keys = {} ELSE primaryKey \in table.keys

\* The agent accepts the table the source suggests: one derives, the other judges, and
\* they do not drift; but a name that is too long is found by the agent only.
DdlPasses == fromDdl /\ ~altered /\ ~table.long => Issues = {}

=============================================================================
