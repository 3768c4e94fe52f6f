------------------------------ MODULE MCRecords ------------------------------
(***************************************************************************)
(* The parent's records and rules: four machines that share no state, checked *)
(* in one run.  The first step picks the one that moves from then on.         *)
(***************************************************************************)
EXTENDS Registry, RunLog, Cron, ColumnRules, TLC

CONSTANTS a, b, u, v, x, y, d, t, p, q, c1, c2

VARIABLE part

Alike == Permutations(Callers) \cup Permutations(Agents) \cup Permutations(Instances)

-----------------------------------------------------------------------------
(* Run log *)

MCOwnerOf == [r \in RunIds |-> 1]

-----------------------------------------------------------------------------
(* Cron: a day of two hours of two minutes, a week of three days, a year of two *)
(* months, every second one with a leap day *)

MCMonthStarts == <<0, 4, 7, 11, 15>>

Item(kind, low, high, step) == [kind |-> kind, low |-> low, high |-> high, step |-> step]
One(n) == Item("value", n, n, Unwritten)
Span(l, h) == Item("range", l, h, Unwritten)
Every(n) == Item("star", 0, 0, n)

MCExpressions ==
    [minute : {StarField, {One(1)}, {Every(2)}},
     hour : {StarField, {One(1)}, {Item("value", 0, 0, 2)}},
     day : {StarField, {One(4)}, {One(1), Span(2, 3)}, {Every(2)}, {Every(1)}, {Span(3, 2)}},
     month : {StarField, {One(2)}, {Span(1, 2)}},
     weekday : {StarField, {One(0)}, {One(3)}, {Span(2, 3)}, {Item("range", 1, 3, 2)}, {Item("range", 1, 2, 15)}}]

MCMoments == {0, 22, 27}

-----------------------------------------------------------------------------
(* Column rules: a date column and one of every type, into tables with those two, *)
(* with a third column, or with the second alone *)

MCTypes == ({"NUMBER"} \X (1 .. 3) \X (-1 .. 4)) \cup ({"CHAR", "TIMESTAMP"} \X (1 .. 3))
               \cup {<<"NUMBER", 0, 0>>, <<"NUMBER", 0, -1>>, <<"DATE">>, <<"BLOB">>}
MCSelections == {"k" :> <<"DATE">> @@ "v" :> type : type \in MCTypes}
MCHints == {<<2, 1>>, <<3, 0>>, <<2, 3>>}

Shaped(shape, nullable) == [shape |-> shape, utf8mb4 |-> TRUE, nullable |-> nullable, filled |-> FALSE]
Shapes == {Decimal(n[1], n[2]) : n \in {m \in (1 .. 3) \X (0 .. 2) : m[2] <= m[1]}}
              \cup {Varchar(1), Varchar(2), Datetime(0), Datetime(2)}
Values == {Shaped(shape, n) : shape \in Shapes, n \in BOOLEAN}
              \cup {[Shaped(Varchar(2), TRUE) EXCEPT !.utf8mb4 = FALSE]}
Table(columns, keys) == [columns |-> columns, keys |-> keys, long |-> FALSE]
Key(n) == "k" :> Shaped(Datetime(0), n)

MCTables ==
    {Table(Key(n) @@ "v" :> w, keys) :
        n \in BOOLEAN, w \in Values, keys \in {{}, {{"k"}}, {{"v"}}, {{"k", "v"}}}}
    \cup {Table(Key(FALSE) @@ "v" :> w @@ "x" :> [Shaped(Varchar(1), FALSE) EXCEPT !.filled = f], {{"k"}}) :
             w \in Values, f \in BOOLEAN}
    \cup {Table("v" :> w, {}) : w \in Values}
MCChanged == {Table(Key(FALSE) @@ "v" :> Shaped(shape, TRUE), {{"k"}}) : shape \in {Decimal(1, 0), Varchar(1)}}

-----------------------------------------------------------------------------

StillRegistry == UNCHANGED registryVars
StillLog == UNCHANGED runLogVars
StillCron == UNCHANGED cronVars
StillRules == UNCHANGED ruleVars

Init == part = "none" /\ RegistryInit /\ RunLogInit /\ CronInit /\ RuleInit

Pick ==
    /\ part = "none" /\ part' \in {"registry", "run log", "cron", "rules"}
    /\ StillRegistry /\ StillLog /\ StillCron /\ StillRules

Next ==
    \/ Pick
    \/ part = "registry" /\ RegistryNext /\ StillLog /\ StillCron /\ StillRules /\ UNCHANGED part
    \/ part = "run log" /\ RunLogNext /\ StillRegistry /\ StillCron /\ StillRules /\ UNCHANGED part
    \/ part = "cron" /\ CronNext /\ StillRegistry /\ StillLog /\ StillRules /\ UNCHANGED part
    \/ part = "rules" /\ RuleNext /\ StillRegistry /\ StillLog /\ StillCron /\ UNCHANGED part

Spec == Init /\ [][Next]_<<part, registryVars, runLogVars, cronVars, ruleVars>>

=============================================================================
