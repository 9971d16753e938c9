----------------------------- MODULE ArchiveDate -----------------------------
(***************************************************************************)
(* internal/domain/archivedate.go: what the server makes of the dates      *)
(* people write down, and the items that carry them.                       *)
(*                                                                         *)
(* A partial date is <<year>>, <<year, month>> or <<year, month, day>>,    *)
(* and << >> is an absent one: the length says how much was written.  An   *)
(* instant is a number of ticks since the start of year 0, and a tick      *)
(* stands for a nanosecond: all that matters of it is that it is the       *)
(* least difference between two instants.  Days are real days of the       *)
(* Gregorian calendar.  A Duration holds 292 years at most, and            *)
(* subtracting instants further apart gives just that.                     *)
(***************************************************************************)
EXTENDS Integers, Sequences

CONSTANTS
    Item,
    Body,          \* the date objects a PATCH may carry
    Window,        \* the days that time windows start and end on
    TicksPerDay,
    MaxDays,       \* the longest Duration, in days: 106751
    LaterRule,     \* how later releases may infer a circa date's unit
    NoDate

CircaUnit == {"month", "3-months", "year", "5-years", "decade", "century"}
Inference == [1..3 -> CircaUnit]
NoUnit == ""

\* The zero of every field is the empty value.
Date == [kind : {"exact", "range", "circa"},
         date : Seq(Nat), start : Seq(Nat), end : Seq(Nat),
         unit : CircaUnit \cup {NoUnit}]

\* What a body may hold before it is validated.
DateObject == [kind : STRING, date : Seq(Nat), start : Seq(Nat), end : Seq(Nat),
               unit : STRING]

\* A Duration holds the widest circa date, a century.
ASSUME DateAssumption ==
    /\ Body \subseteq DateObject
    /\ Window \subseteq Int
    /\ TicksPerDay \in Nat \ {0, 1}
    /\ MaxDays \in Nat /\ MaxDays >= 36524
    /\ LaterRule \subseteq Inference
    /\ NoDate \notin Date

VARIABLES
    date,    \* each item's stored date, NoDate when it has none
    norm,    \* what was derived from it when it was last saved
    rule     \* the release's inference

vars == <<date, norm, rule>>

-----------------------------------------------------------------------------
(***************************************************************************)
(* The calendar, as package time has it.                                   *)
(***************************************************************************)
IsLeap(y) == y % 4 = 0 /\ (y % 100 # 0 \/ y % 400 = 0)

\* Days from the start of year 0 to the start of year y.
DaysBefore(y) ==
    365 * y + (y + 3) \div 4 - (y + 99) \div 100 + (y + 399) \div 400

MonthEnds == <<31, 59, 90, 120, 151, 181, 212, 243, 273, 304, 334, 365>>

\* Days of year y up to the end of month m.
DaysThrough(y, m) ==
    IF m = 0 THEN 0
    ELSE IF m >= 2 /\ IsLeap(y) THEN MonthEnds[m] + 1 ELSE MonthEnds[m]

DaysIn(y, m) == DaysThrough(y, m) - DaysThrough(y, m - 1)

FirstDay(p) ==
    CASE Len(p) = 1 -> DaysBefore(p[1])
      [] Len(p) = 2 -> DaysBefore(p[1]) + DaysThrough(p[1], p[2] - 1)
      [] Len(p) = 3 -> DaysBefore(p[1]) + DaysThrough(p[1], p[2] - 1) + p[3] - 1

\* AddDate(1, 0, 0), AddDate(0, 1, 0), AddDate(0, 0, 1).
DayAfter(p) ==
    CASE Len(p) = 1 -> DaysBefore(p[1] + 1)
      [] Len(p) = 2 -> DaysBefore(p[1]) + DaysThrough(p[1], p[2])
      [] Len(p) = 3 -> FirstDay(p) + 1

\* formatInstant is of fixed width for these, and Overlaps reads back no others.
FourDigitYears == 0 .. DaysBefore(10000) * TicksPerDay - 1

-----------------------------------------------------------------------------
(***************************************************************************)
(* Validate and Normalize.                                                 *)
(***************************************************************************)

\* parsePartial accepts it.
Parses(p) ==
    /\ Len(p) \in 1..3
    /\ p[1] <= 9999
    /\ Len(p) > 1 => p[2] \in 1..12
    /\ Len(p) > 2 => p[3] \in 1..DaysIn(p[1], p[2])

\* parsePartial's span, to the nanosecond.
Earliest(p) == FirstDay(p) * TicksPerDay
Latest(p) == DayAfter(p) * TicksPerDay - 1

AnyOrder(d) == TRUE                                           \* mutant
InOrder(d) == Earliest(d.start) <= Latest(d.end)

Validate(d) ==
    \/ /\ d.kind = "exact"
       /\ d.start = <<>> /\ d.end = <<>> /\ d.unit = NoUnit
       /\ Parses(d.date)
    \/ /\ d.kind = "range"
       /\ d.date = <<>> /\ d.unit = NoUnit
       /\ Parses(d.start) /\ Parses(d.end)
       /\ InOrder(d)
    \/ /\ d.kind = "circa"
       /\ d.start = <<>> /\ d.end = <<>>
       /\ Parses(d.date)
       /\ d.unit \in CircaUnit \cup {NoUnit}

\* ResolvedUnit: one notch wider than what was written, unless it is stated.
SameNotch == <<"year", "month", "month">>                     \* mutant
Inferred == <<"5-years", "3-months", "month">>

ResolvedUnit(d) == IF d.unit # NoUnit THEN d.unit ELSE rule[Len(d.date)]

ResolveAtReadTime(d) == d                                     \* mutant
Resolve(d) == IF d.kind = "circa" THEN [d EXCEPT !.unit = ResolvedUnit(d)] ELSE d

HalfWidth(unit) ==
    CASE unit = "month"    -> 15
      [] unit = "3-months" -> 46
      [] unit = "year"     -> 183
      [] unit = "5-years"  -> 913
      [] unit = "decade"   -> 1826
      [] unit = "century"  -> 18262

WrappingSub(later, earlier) ==                                \* mutant
    LET limit == MaxDays * TicksPerDay
    IN  ((later - earlier + limit) % (2 * limit)) - limit

\* Time.Sub saturates.
Sub(later, earlier) ==
    IF later - earlier <= MaxDays * TicksPerDay THEN later - earlier
    ELSE MaxDays * TicksPerDay

Midpoint(earliest, latest) == earliest + Sub(latest, earliest) \div 2

Centre(p) == Midpoint(Earliest(p), Latest(p))

\* The bounds of a date whose unit is resolved.
Bounds(d) ==
    CASE d.kind = "exact" ->
            [earliest |-> Earliest(d.date), latest |-> Latest(d.date)]
      [] d.kind = "range" ->
            [earliest |-> Earliest(d.start), latest |-> Latest(d.end)]
      [] d.kind = "circa" ->
            LET half == HalfWidth(ResolvedUnit(d)) * TicksPerDay
            IN  [earliest |-> Centre(d.date) - half, latest |-> Centre(d.date) + half]

\* The first label whose limit holds the span.
Label(span, labels, limits) ==
    labels[CHOOSE n \in DOMAIN labels :
              /\ n \in DOMAIN limits => span <= limits[n]
              /\ \A m \in 1..n - 1 : span > limits[m]]

\* precisionFor, whose first limit is 5.6 days.
Precision(span) ==
    Label(10 * span, <<"day", "month", "year", "decade", "century">>,
          <<56 * TicksPerDay, 1060 * TicksPerDay, 11540 * TicksPerDay,
            115440 * TicksPerDay>>)

CommonYearBandTier(span) ==                                   \* mutant
    Label(span, <<"month", "3-months", "year", "5-years", "decade", "century">>,
          <<31 * TicksPerDay, 93 * TicksPerDay, 365 * TicksPerDay,
            1825 * TicksPerDay, 3650 * TicksPerDay>>)

\* bandTierFor.
BandTier(span) ==
    Label(span, <<"month", "3-months", "year", "5-years", "decade", "century">>,
          <<31 * TicksPerDay, 93 * TicksPerDay, 366 * TicksPerDay,
            1827 * TicksPerDay, 3653 * TicksPerDay>>)

Normalize(d) ==
    LET b == Bounds(d)
        span == Sub(b.latest, b.earliest)
    IN  [sort |-> Midpoint(b.earliest, b.latest),
         earliest |-> b.earliest, latest |-> b.latest,
         precision |-> Precision(span), bandTier |-> BandTier(span)]

\* The zero Time, which leaves that side of a window open: year 1 begins.
Open == DaysBefore(1) * TicksPerDay

Within(n, from, to) ==                                        \* mutant
    /\ n.earliest \in FourDigitYears /\ n.latest \in FourDigitYears
    /\ from # Open => n.earliest >= from
    /\ to # Open => n.latest <= to

\* Overlaps, with instants that cannot be read back overlapping nothing.
Overlaps(n, from, to) ==
    /\ n.earliest \in FourDigitYears /\ n.latest \in FourDigitYears
    /\ to # Open => n.earliest <= to
    /\ from # Open => n.latest >= from

-----------------------------------------------------------------------------
(***************************************************************************)
(* Items.  Every save resolves and normalizes the date it saves.           *)
(***************************************************************************)
Init ==
    /\ date = [i \in Item |-> NoDate]
    /\ norm = [i \in Item |-> NoDate]
    /\ rule = Inferred

Save(i, d) ==
    /\ date' = [date EXCEPT ![i] = IF d = NoDate THEN NoDate ELSE Resolve(d)]
    /\ norm' = [norm EXCEPT ![i] = IF d = NoDate THEN NoDate ELSE Normalize(Resolve(d))]
    /\ rule' = rule

\* buildPatch: null clears, and so does an object without a kind.
IsCleared(body) == body.kind = ""

PatchDate(i, body) ==
    IF IsCleared(body) THEN Save(i, NoDate)
    ELSE IF Validate(body) THEN Save(i, body)
    ELSE UNCHANGED vars

ClearDate(i) == Save(i, NoDate)

\* A mutation that leaves the date alone saves it again.
EditOtherwise(i) == Save(i, date[i])

\* A release with another inference rule.
Deploy(later) ==
    /\ rule' = later
    /\ UNCHANGED <<date, norm>>

Next ==
    \/ \E i \in Item :
          ClearDate(i) \/ EditOtherwise(i) \/ \E body \in Body : PatchDate(i, body)
    \/ \E later \in LaterRule : Deploy(later)

Spec == Init /\ [][Next]_vars

-----------------------------------------------------------------------------
(***************************************************************************)
(* Properties.                                                             *)
(***************************************************************************)
Dated == {i \in Item : date[i] # NoDate}

\* What is stored has a unit if it needs one, and sorts inside its bounds at
\* an instant that formats at the index's fixed width.
TypeOK ==
    /\ date \in [Item -> Date \cup {NoDate}]
    /\ rule \in {Inferred} \cup LaterRule
    /\ \A i \in Item :
          IF date[i] = NoDate THEN norm[i] = NoDate
          ELSE /\ date[i].kind = "circa" <=> date[i].unit # NoUnit
               /\ norm[i].sort \in FourDigitYears
               /\ norm[i].sort \in norm[i].earliest .. norm[i].latest

\* The index's order is coherent: a date that begins no later and ends no
\* later than another does not sort after it, of whatever kinds they are and
\* however wide.
SortFollowsTheBounds ==
    \A i, j \in Dated :
        norm[i].earliest <= norm[j].earliest /\ norm[i].latest <= norm[j].latest
        => norm[i].sort <= norm[j].sort

\* Resolve's promise: what a date means changes only when somebody changes
\* the date, not when a later release infers otherwise and the item is saved
\* again.
MeaningIsKept ==
    [][\A i \in Dated : date'[i] = date[i] => norm'[i] = norm[i]]_vars

\* "circa 1960" says something looser than "1960", on both sides.
CircaIsLooserThanExact ==
    \A i \in Dated :
        /\ date[i].kind = "circa"
        /\ date[i].unit = Inferred[Len(date[i].date)]
        => /\ norm[i].earliest < Earliest(date[i].date)
           /\ norm[i].latest > Latest(date[i].date)

\* How many whole years a range of years covers.
Years(d) == d.end[1] - d.start[1] + 1
IsRangeOfYears(d) == d.kind = "range" /\ Len(d.start) = 1 /\ Len(d.end) = 1

\* The bands' limits leave room for the longest month, leap years and leap
\* days: a circa date is drawn as wide as its unit, and so is what covers
\* exactly that many whole months or years, wherever in the calendar.
BandsHoldTheirUnits ==
    \A i \in Dated :
        LET d == date[i]
            n == norm[i]
        IN  /\ d.kind = "circa" => n.bandTier = d.unit
            /\ d.kind = "exact" =>
                  /\ n.bandTier = <<"year", "month", "month">>[Len(d.date)]
                  /\ n.precision = <<"year", "month", "day">>[Len(d.date)]
            /\ IsRangeOfYears(d) =>
                  n.bandTier = CASE Years(d) = 1       -> "year"
                                 [] Years(d) \in 2..5  -> "5-years"
                                 [] Years(d) \in 6..10 -> "decade"
                                 [] Years(d) > 10      -> "century"

\* Overlaps is the intersection of intervals, as Normalized's comment has it,
\* for every window but one that starts or ends as year 1 begins, and every
\* date whose bounds have years of four digits; the others, circa dates at
\* either end of the calendar, overlap nothing.
OverlapsIsIntersection ==
    \A i \in Dated, from, to \in {w * TicksPerDay : w \in Window} \ {Open} :
        norm[i].earliest \in FourDigitYears /\ norm[i].latest \in FourDigitYears
        /\ from <= to
        => /\ Overlaps(norm[i], from, to) <=>
                 \E t \in {norm[i].earliest, from} :
                     t \in from..to /\ t \in norm[i].earliest .. norm[i].latest
           /\ Overlaps(norm[i], from, Open) <=> from <= norm[i].latest
           /\ Overlaps(norm[i], Open, to) <=> norm[i].earliest <= to
=============================================================================
