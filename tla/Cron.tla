--------------------------------- MODULE Cron ---------------------------------
(***************************************************************************)
(* Five-field cron expressions (crates/source/src/cron.rs) over a calendar *)
(* given by constants: an expression is parsed into sets of values, asked  *)
(* for the next moment strictly after another, and the task form shows the *)
(* next few (http.rs, handle_schedule_preview).  A moment is a minute      *)
(* counted from the first of the calendar, which repeats.                  *)
(***************************************************************************)
EXTENDS Integers, Sequences, FiniteSetsExt

CONSTANTS
    MinutesAnHour, HoursADay,
    WeekLength,         \* days of a week; day 0 of the calendar is a Sunday
    MonthStarts,        \* the day each month begins on, and the one the calendar repeats on
    MonthsAYear,
    LongestMonth,       \* 31
    LookaheadDays,      \* MAX_LOOKAHEAD_DAYS
    StepWidth,          \* 2^32: a step is added to a value modulo this
    PreviewCount,       \* SCHEDULE_PREVIEW_COUNT
    Expressions,        \* the expressions typed, ...
    Moments             \* ... and the moments at which they are

VARIABLES
    typed,              \* the expression, once there is one
    typedAt,            \* when it was typed
    upcoming,           \* next_fire_times so far
    answer              \* "none yet", "counting", "refused" or "complete"

cronVars == <<typed, typedAt, upcoming, answer>>

-----------------------------------------------------------------------------
(* The calendar, as chrono has it *)

MinutesADay == MinutesAnHour * HoursADay
Months == 1 .. Len(MonthStarts) - 1
CycleDays == MonthStarts[Len(MonthStarts)]
MonthAt(day) == CHOOSE k \in Months :
                    MonthStarts[k] <= day % CycleDays /\ day % CycleDays < MonthStarts[k + 1]
DayOfMonth(day) == (day % CycleDays) - MonthStarts[MonthAt(day)] + 1
Month(day) == ((MonthAt(day) - 1) % MonthsAYear) + 1
Weekday(day) == day % WeekLength

ASSUME CalendarAssumption ==
    /\ {MinutesAnHour, HoursADay, WeekLength, MonthsAYear, LongestMonth, LookaheadDays,
        StepWidth, PreviewCount} \subseteq Nat \ {0}
    /\ MonthStarts \in Seq(Nat) /\ Months # {} /\ MonthStarts[1] = 0
    /\ \A k \in Months : MonthStarts[k + 1] - MonthStarts[k] \in 1 .. LongestMonth

\* Why the search may give up after MAX_LOOKAHEAD_DAYS: by then every date of the year has come
\* again (eight years for a 29th of February), and every day of the week in every month.
ASSUME LookaheadAssumption ==
    \A now, day \in 0 .. CycleDays - 1 :
        /\ \E n \in 1 .. LookaheadDays - 1 :
               Month(now + n) = Month(day) /\ DayOfMonth(now + n) = DayOfMonth(day)
        /\ \A today, weekday \in 0 .. WeekLength - 1 :
               \E n \in 1 .. LookaheadDays - 1 :
                   Month(now + n) = Month(day) /\ (today + n) % WeekLength = weekday

-----------------------------------------------------------------------------
(* Parsing.  A field is a set of items [kind, low, high, step], the items its *)
(* commas separate: "star", "value" (low = high) or "range".  No item is      *)
(* written twice: "*,*", which the code takes for a restricted field and "*"  *)
(* for one that is not, is left out.                                          *)

Unwritten == -1
StarField == {[kind |-> "star", low |-> 0, high |-> 0, step |-> Unwritten]}

\* The bounds of the fields; the week takes both its ends for Sunday.
Bounds == [minute |-> <<0, MinutesAnHour - 1>>, hour |-> <<0, HoursADay - 1>>,
           day |-> <<1, LongestMonth>>, month |-> <<1, MonthsAYear>>,
           weekday |-> <<0, WeekLength>>]

Low(item, bounds) == IF item.kind = "star" THEN bounds[1] ELSE item.low
High(item, bounds) == IF item.kind = "star" THEN bounds[2] ELSE item.high
Step(item) == IF item.step = Unwritten THEN 1 ELSE item.step

\* Numbers are written without a sign; a missing step is Unwritten.
Items == [kind : {"star", "value", "range"}, low : Nat, high : Nat, step : Nat \cup {Unwritten}]

ASSUME ExpressionAssumption ==
    /\ \A e \in Expressions : \A f \in DOMAIN Bounds : \A item \in e[f] : item \in Items
    /\ Moments \subseteq Nat

\* parse_item: values within their bounds, ranges forwards, a positive step and only
\* after * or a range.
ItemParses(item, bounds) ==
    /\ Step(item) > 0
    /\ item.kind = "value" => item.step = Unwritten
    /\ bounds[1] <= Low(item, bounds) /\ Low(item, bounds) <= High(item, bounds)
    /\ High(item, bounds) <= bounds[2]

Parses(e) == \A f \in DOMAIN Bounds : \A item \in e[f] : ItemParses(item, Bounds[f])

\* The loop of parse_field: add the step, with a wrap, for as long as the value is in range.
ItemBits(low, high, step) ==
    LET at(n) == (low + n * step) % StepWidth
        stop == CHOOSE n \in 1 .. StepWidth : at(n) > high /\ \A m \in 1 .. n - 1 : at(m) <= high
    IN {at(n) : n \in 0 .. stop - 1}

FieldBits(field, bounds) ==
    UNION {ItemBits(Low(i, bounds), High(i, bounds), Step(i)) : i \in field}

\* normalize_week: Sunday is 0.
NormalWeek(bits) == IF WeekLength \in bits THEN (bits \ {WeekLength}) \cup {0} ELSE bits

Parsed(e) ==
    [f \in DOMAIN Bounds |->
        [bits |-> IF f = "weekday" THEN NormalWeek(FieldBits(e[f], Bounds[f])) ELSE FieldBits(e[f], Bounds[f]),
         restricted |-> e[f] # StarField]]

-----------------------------------------------------------------------------
(* The next moment *)

DateMatches(s, day) ==
    LET byDay == DayOfMonth(day) \in s.day.bits
        byWeek == Weekday(day) \in s.weekday.bits
    IN /\ Month(day) \in s.month.bits
       /\ CASE s.day.restricted /\ s.weekday.restricted -> byDay \/ byWeek
            [] s.day.restricted /\ ~s.weekday.restricted -> byDay
            [] ~s.day.restricted /\ s.weekday.restricted -> byWeek
            [] OTHER -> TRUE

NoMoment == -1

SlipNextAfter(s, after) ==
    LET start == after + 1
        first == start \div MinutesADay
        days == {d \in first .. first + LookaheadDays - 1 : DateMatches(s, d)}
        minutes == {m \in 0 .. MinutesADay - 1 :
                        m \div MinutesAnHour \in s.hour.bits /\ m % MinutesAnHour \in s.minute.bits}
    IN IF days = {} \/ minutes = {} THEN NoMoment ELSE Min(days) * MinutesADay + Min(minutes)

\* next_after: day by day, on the first day from the minute after, on the others from midnight.
NextAfter(s, after) ==
    LET start == after + 1
        first == start \div MinutesADay
        days == {d \in first .. first + LookaheadDays - 1 : DateMatches(s, d)}
        minutes(d) == {m \in (IF d = first THEN start % MinutesADay ELSE 0) .. MinutesADay - 1 :
                           m \div MinutesAnHour \in s.hour.bits /\ m % MinutesAnHour \in s.minute.bits}
        hits == {d \in days : minutes(d) # {}}
    IN IF hits = {} THEN NoMoment ELSE Min(hits) * MinutesADay + Min(minutes(Min(hits)))

-----------------------------------------------------------------------------
(* The form *)

Type(e, now) ==
    /\ answer = "none yet"
    /\ typed' = e /\ typedAt' = now
    /\ answer' = IF Parses(e) THEN "counting" ELSE "refused"
    /\ UNCHANGED upcoming

LastShown == IF upcoming = <<>> THEN typedAt ELSE upcoming[Len(upcoming)]

\* One turn of the loop of upcoming.
Show ==
    /\ answer = "counting"
    /\ LET next == NextAfter(Parsed(typed), LastShown) IN
        /\ upcoming' = IF next = NoMoment THEN upcoming ELSE Append(upcoming, next)
        /\ answer' = IF next = NoMoment \/ Len(upcoming) + 1 = PreviewCount THEN "complete" ELSE answer
    /\ UNCHANGED <<typed, typedAt>>

CronInit == typed = {} /\ typedAt = 0 /\ upcoming = <<>> /\ answer = "none yet"

CronNext == (\E e \in Expressions, now \in Moments : Type(e, now)) \/ Show

CronSpec == CronInit /\ [][CronNext]_cronVars

-----------------------------------------------------------------------------
(* What an expression means, word for word: every field must hold, but of a   *)
(* day of the month and a day of the week that are both given one suffices.    *)

Says(f, v) ==
    \E i \in typed[f] : /\ Low(i, Bounds[f]) <= v /\ v <= High(i, Bounds[f])
                        /\ (v - Low(i, Bounds[f])) % Step(i) = 0

Fires(t) ==
    LET day == t \div MinutesADay
        byDay == Says("day", DayOfMonth(day))
        byWeek == Says("weekday", Weekday(day)) \/ (Weekday(day) = 0 /\ Says("weekday", WeekLength))
    IN /\ Says("minute", t % MinutesAnHour) /\ Says("hour", (t % MinutesADay) \div MinutesAnHour)
       /\ Says("month", Month(day))
       /\ IF StarField \in {typed.day, typed.weekday} THEN byDay /\ byWeek ELSE byDay \/ byWeek

\* A step so large that adding it wraps marks values outside its range.
Wraps == \E f \in DOMAIN Bounds : \E i \in typed[f] : Bounds[f][2] + Step(i) >= StepWidth

\* The moments shown are the next ones: each is the first after the one before at which the
\* expression fires, over ends of months, leap days and Sundays written either way, and when
\* there are fewer than asked for the expression never fires again.
UpcomingTrue ==
    answer \in {"counting", "complete"} /\ ~Wraps =>
        /\ \A n \in DOMAIN upcoming :
               LET before == IF n = 1 THEN typedAt ELSE upcoming[n - 1]
               IN /\ before < upcoming[n] /\ Fires(upcoming[n])
                  /\ \A t \in before + 1 .. upcoming[n] - 1 : ~Fires(t)
        /\ answer = "complete" /\ Len(upcoming) < PreviewCount =>
               \A t \in LastShown + 1 .. LastShown + CycleDays * WeekLength * MinutesADay : ~Fires(t)

=============================================================================
