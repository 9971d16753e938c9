-------------------------- MODULE ArchiveDateProofs --------------------------
(***************************************************************************)
(* Proofs about ArchiveDate, for every set of bodies, of windows and of    *)
(* inference rules: what is stored is well formed and sorts at an instant  *)
(* the index can hold, its order follows the bounds, a stored date keeps   *)
(* its meaning across releases, and what is shown of it (its band, its     *)
(* precision, how far a circa date reaches) holds in every year there is.  *)
(*                                                                         *)
(* The argument: a stored date was validated and then resolved, and the    *)
(* bounds of such a date do not mention the release's rule (FixedBounds).  *)
(***************************************************************************)
EXTENDS ArchiveDate, TLAPS

\* The bounds of a date, from the date alone.
FixedBounds(d) ==
    CASE d.kind = "exact" ->
            [earliest |-> Earliest(d.date), latest |-> Latest(d.date)]
      [] d.kind = "range" ->
            [earliest |-> Earliest(d.start), latest |-> Latest(d.end)]
      [] d.kind = "circa" ->
            LET half == HalfWidth(d.unit) * TicksPerDay
            IN  [earliest |-> Centre(d.date) - half, latest |-> Centre(d.date) + half]

NormOf(b) ==
    [sort |-> Midpoint(b.earliest, b.latest),
     earliest |-> b.earliest, latest |-> b.latest,
     precision |-> Precision(Sub(b.latest, b.earliest)),
     bandTier |-> BandTier(Sub(b.latest, b.earliest))]

Means(d) == NormOf(FixedBounds(d))

\* A date that was validated and resolved.
Settled(d) ==
    /\ d \in Date
    /\ Validate(d)
    /\ d.kind = "circa" <=> d.unit # NoUnit

IInv ==
    /\ date \in [Item -> Date \cup {NoDate}]
    /\ DOMAIN norm = Item
    /\ rule \in {Inferred} \cup LaterRule
    /\ \A i \in Item :
          IF date[i] = NoDate THEN norm[i] = NoDate
          ELSE Settled(date[i]) /\ norm[i] = Means(date[i])

End == DaysBefore(10000)

YearLength(y) == IF IsLeap(y) THEN 366 ELSE 365

-----------------------------------------------------------------------------
(***************************************************************************)
(* The calendar.                                                           *)
(***************************************************************************)

\* A year has 365 days, or 366 if it is a leap year.
LEMMA YearsGrow ==
    ASSUME NEW y \in Nat, NEW z \in Nat, z = y + 1
    PROVE  /\ DaysBefore(y) \in Nat
           /\ DaysBefore(z) \in Nat
           /\ DaysBefore(z) = DaysBefore(y) + YearLength(y)
<1>1. DaysBefore(y) \in Nat /\ DaysBefore(z) \in Nat
  BY DEF DaysBefore
<1>2. /\ (y + 1 + 3) \div 4 = (y + 3) \div 4 + (IF y % 4 = 0 THEN 1 ELSE 0)
      /\ (y + 1 + 99) \div 100 = (y + 99) \div 100 + (IF y % 100 = 0 THEN 1 ELSE 0)
      /\ (y + 1 + 399) \div 400 = (y + 399) \div 400 + (IF y % 400 = 0 THEN 1 ELSE 0)
  OBVIOUS
<1>3. /\ y % 400 = 0 => y % 100 = 0
      /\ y % 100 = 0 => y % 4 = 0
  OBVIOUS
<1>4. DaysBefore(z) = DaysBefore(y) + YearLength(y)
  BY <1>2, <1>3 DEF DaysBefore, IsLeap, YearLength
<1> QED BY <1>1, <1>4

\* No year before 10000 begins after it.
LEMMA YearsEnd ==
    ASSUME NEW y \in Nat, y <= 10000
    PROVE  DaysBefore(y) <= End
<1>1. End = 3652425
  BY DEF End, DaysBefore
<1> QED BY <1>1 DEF DaysBefore

\* The months of a year follow one another within it.
LEMMA MonthsGrow ==
    ASSUME NEW y \in Nat, NEW m \in 1..12
    PROVE  /\ DaysThrough(y, m - 1) \in Nat
           /\ DaysThrough(y, m) \in Nat
           /\ DaysThrough(y, m - 1) < DaysThrough(y, m)
           /\ DaysThrough(y, m) <= YearLength(y)
<1>1. \A n \in 1..12 : MonthEnds[n] \in 31..365
  BY DEF MonthEnds
<1>2. \A n \in 2..12 : MonthEnds[n - 1] < MonthEnds[n] - 27
  BY DEF MonthEnds
<1>3. CASE m = 1
  BY <1>1, <1>3 DEF DaysThrough, YearLength, IsLeap
<1>4. CASE m # 1
  <2>1. m \in 2..12 /\ m - 1 \in 1..12 /\ m - 1 # 0
    BY <1>4
  <2>2. PICK a \in 31..365, b \in 31..365 :
           /\ a = MonthEnds[m - 1] /\ b = MonthEnds[m]
           /\ a < b - 27
    <3>1. MonthEnds[m] \in 31..365 /\ MonthEnds[m - 1] \in 31..365
      BY <2>1, <1>1
    <3>2. MonthEnds[m - 1] < MonthEnds[m] - 27
      BY <2>1, <1>2
    <3> QED BY <3>1, <3>2
  <2>3. PICK x, z : x = DaysThrough(y, m - 1) /\ z = DaysThrough(y, m)
    OBVIOUS
  <2>4. CASE IsLeap(y)
    <3>1. z = b + 1 /\ x \in {a, a + 1} /\ YearLength(y) = 366
      BY <2>1, <2>2, <2>3, <2>4 DEF DaysThrough, YearLength
    <3>2. x \in Nat /\ z \in Nat /\ x < z /\ z <= 366
      BY <2>2, <3>1
    <3> QED BY <2>3, <3>1, <3>2
  <2>5. CASE ~IsLeap(y)
    <3>1. z = b /\ x = a /\ YearLength(y) = 365
      BY <2>1, <2>2, <2>3, <2>5 DEF DaysThrough, YearLength
    <3>2. x \in Nat /\ z \in Nat /\ x < z /\ z <= 365
      BY <2>2, <3>1
    <3> QED BY <2>3, <3>1, <3>2
  <2> QED BY <2>4, <2>5
<1> QED BY <1>3, <1>4

\* What parsePartial accepts spans at least a day of the calendar's years.
LEMMA SpansAreDays ==
    ASSUME NEW p \in Seq(Nat), Parses(p)
    PROVE  /\ FirstDay(p) \in Nat
           /\ DayAfter(p) \in Nat
           /\ FirstDay(p) < DayAfter(p)
           /\ DayAfter(p) <= End
<1>1. Len(p) \in 1..3 /\ p[1] \in Nat /\ p[1] <= 9999
  BY DEF Parses
<1>y. PICK y \in Nat : y = p[1] /\ y <= 9999
  BY <1>1
<1>m. PICK m : m = p[2]
  OBVIOUS
<1>2. PICK z \in Nat : z = y + 1
  OBVIOUS
<1>3. PICK start \in Nat, next \in Nat, length \in {365, 366}, last \in Nat :
         /\ start = DaysBefore(y) /\ next = DaysBefore(z)
         /\ length = YearLength(y) /\ last = End
         /\ next = start + length /\ next <= last
  <2>1. End \in Nat
    BY DEF End, DaysBefore
  <2>2. YearLength(y) \in {365, 366}
    BY DEF YearLength
  <2>3. y <= 9999
    BY <1>y
  <2>4. /\ DaysBefore(y) \in Nat
        /\ DaysBefore(z) \in Nat
        /\ DaysBefore(z) = DaysBefore(y) + YearLength(y)
        /\ DaysBefore(z) <= End
    <3>1. DaysBefore(y) \in Nat /\ DaysBefore(z) \in Nat
      BY DEF DaysBefore
    <3>2. DaysBefore(z) = DaysBefore(y) + YearLength(y)
      BY <1>2, YearsGrow
    <3>3. DaysBefore(z) <= End
      BY <1>2, <2>3, YearsEnd
    <3> QED BY <3>1, <3>2, <3>3
  <2> QED BY <2>1, <2>2, <2>4
<1>4. CASE Len(p) = 1
  <2>1. FirstDay(p) = start /\ DayAfter(p) = next
    BY <1>y, <1>2, <1>3, <1>4 DEF FirstDay, DayAfter
  <2> QED BY <1>3, <2>1
<1>5. CASE Len(p) \in {2, 3}
  <2>1. m \in 1..12
    BY <1>m, <1>5 DEF Parses
  <2>2. PICK a \in Nat, b \in Nat :
           /\ a = DaysThrough(y, m - 1) /\ b = DaysThrough(y, m)
           /\ a < b /\ b <= length
    BY <1>3, <2>1, MonthsGrow, Zenon
  <2>3. CASE Len(p) = 2
    <3>1. FirstDay(p) = start + a /\ DayAfter(p) = start + b
      BY <1>y, <1>m, <1>3, <2>2, <2>3 DEF FirstDay, DayAfter
    <3>2. start + a < start + b /\ start + b <= last
      BY <1>3, <2>2
    <3> QED BY <1>3, <3>1, <3>2
  <2>4. CASE Len(p) = 3
    <3>1. PICK day \in 1..(b - a) : day = p[3]
      BY <1>y, <1>m, <2>2, <2>4 DEF Parses, DaysIn
    <3>2. FirstDay(p) = start + a + day - 1 /\ DayAfter(p) = start + a + day
      BY <1>y, <1>m, <1>3, <2>2, <2>4, <3>1 DEF FirstDay, DayAfter
    <3>3. a + day \in Nat /\ a + day <= length /\ day >= 1
      BY <2>2, <3>1
    <3>4. /\ start + a + day - 1 \in Nat /\ start + a + day \in Nat
          /\ start + a + day - 1 < start + a + day
          /\ start + a + day <= last
      BY <1>3, <3>3
    <3>5. FirstDay(p) \in Nat /\ DayAfter(p) \in Nat /\ FirstDay(p) < DayAfter(p)
      BY <3>2, <3>4
    <3>6. DayAfter(p) <= End
      BY <1>3, <3>2, <3>4
    <3> QED BY <3>5, <3>6
  <2> QED BY <1>5, <2>3, <2>4
<1> QED BY <1>1, <1>4, <1>5

-----------------------------------------------------------------------------
(***************************************************************************)
(* Instants.                                                               *)
(***************************************************************************)

\* Ticks are ordered as the days they belong to.
LEMMA TicksFollowDays ==
    ASSUME NEW a \in Int, NEW b \in Int, a <= b
    PROVE  /\ a * TicksPerDay \in Int
           /\ b * TicksPerDay \in Int
           /\ a * TicksPerDay <= b * TicksPerDay
<1>1. TicksPerDay \in Nat
  BY DateAssumption
<1>2. (b - a) * TicksPerDay >= 0
  BY <1>1
<1>3. (b - a) * TicksPerDay = b * TicksPerDay - a * TicksPerDay
  BY <1>1
<1> QED BY <1>1, <1>2, <1>3

\* The first and the last instant of a partial date have years of four digits.
LEMMA InstantsAreInYears ==
    ASSUME NEW p \in Seq(Nat), Parses(p)
    PROVE  /\ Earliest(p) \in Int
           /\ Latest(p) \in Int
           /\ 0 <= Earliest(p)
           /\ Earliest(p) <= Latest(p)
           /\ Latest(p) <= End * TicksPerDay - 1
<1>1. /\ FirstDay(p) \in Nat
      /\ DayAfter(p) \in Nat
      /\ FirstDay(p) + 1 <= DayAfter(p)
      /\ DayAfter(p) <= End
  BY SpansAreDays
<1>2. End \in Nat
  BY DEF End, DaysBefore
<1>3. TicksPerDay \in Nat /\ TicksPerDay > 1
  BY DateAssumption
<1>4. (FirstDay(p) + 1) * TicksPerDay = FirstDay(p) * TicksPerDay + TicksPerDay
  BY <1>1, <1>3
<1>5. /\ FirstDay(p) * TicksPerDay \in Int
      /\ 0 * TicksPerDay <= FirstDay(p) * TicksPerDay
  BY <1>1, TicksFollowDays
<1>6. /\ (FirstDay(p) + 1) * TicksPerDay <= DayAfter(p) * TicksPerDay
      /\ DayAfter(p) * TicksPerDay \in Int
  BY <1>1, TicksFollowDays
<1>7. /\ DayAfter(p) * TicksPerDay <= End * TicksPerDay
      /\ End * TicksPerDay \in Int
  BY <1>1, <1>2, TicksFollowDays
<1>8. 0 * TicksPerDay = 0
  BY <1>3
<1> QED BY <1>3, <1>4, <1>5, <1>6, <1>7, <1>8 DEF Earliest, Latest

Limit == MaxDays * TicksPerDay

\* The limit of a Duration is a number, and a century fits under it.
LEMMA LimitIsACentury ==
    Limit \in Nat /\ 36524 * TicksPerDay <= Limit
<1>1. MaxDays \in Nat /\ MaxDays >= 36524 /\ TicksPerDay \in Nat
  BY DateAssumption
<1>2. MaxDays * TicksPerDay \in Nat
  BY <1>1
<1>3. 36524 * TicksPerDay <= MaxDays * TicksPerDay
  BY <1>1, TicksFollowDays
<1> QED BY <1>2, <1>3 DEF Limit

\* Saturated or not, a midpoint lies between its ends.
LEMMA MidpointIsBetween ==
    ASSUME NEW e \in Int, NEW l \in Int, e <= l
    PROVE  Midpoint(e, l) \in Int /\ e <= Midpoint(e, l) /\ Midpoint(e, l) <= l
<1>1. Limit \in Nat
  BY LimitIsACentury
<1>2. Sub(l, e) = IF l - e <= Limit THEN l - e ELSE Limit
  BY DEF Sub, Limit
<1>3. Sub(l, e) \in Nat /\ Sub(l, e) <= l - e
  BY <1>1, <1>2
<1>4. Sub(l, e) \div 2 \in Nat /\ Sub(l, e) \div 2 <= l - e
  BY <1>3
<1> QED BY <1>4 DEF Midpoint

\* Saturated or not, it moves with its ends.
LEMMA MidpointIsMonotone ==
    ASSUME NEW e \in Int, NEW l \in Int, NEW f \in Int, NEW m \in Int,
           e <= f, l <= m
    PROVE  Midpoint(e, l) <= Midpoint(f, m)
<1>1. Limit \in Nat
  BY LimitIsACentury
<1>2. /\ Sub(l, e) = IF l - e <= Limit THEN l - e ELSE Limit
      /\ Sub(m, f) = IF m - f <= Limit THEN m - f ELSE Limit
  BY DEF Sub, Limit
<1>3. Sub(l, e) \in Int /\ Sub(m, f) \in Int
  BY <1>1, <1>2
<1>4. 2 * e + Sub(l, e) <= 2 * f + Sub(m, f)
  BY <1>1, <1>2
<1>5. /\ e + Sub(l, e) \div 2 = (2 * e + Sub(l, e)) \div 2
      /\ f + Sub(m, f) \div 2 = (2 * f + Sub(m, f)) \div 2
  BY <1>3
<1> QED BY <1>3, <1>4, <1>5 DEF Midpoint

-----------------------------------------------------------------------------
(***************************************************************************)
(* Dates.                                                                  *)
(***************************************************************************)

\* A settled date's bounds do not depend on the rule.
LEMMA BoundsAreFixed ==
    ASSUME NEW d, Settled(d)
    PROVE  Normalize(d) = Means(d)
<1>1. d.kind \in {"exact", "range", "circa"}
  BY DEF Settled, Validate
<1>2. d.kind = "circa" => ResolvedUnit(d) = d.unit
  BY DEF Settled, ResolvedUnit
<1>3. Bounds(d) = FixedBounds(d)
  BY <1>1, <1>2 DEF Bounds, FixedBounds
<1> QED BY <1>3 DEF Normalize, Means, NormOf

\* Resolving what passed validation settles it.
LEMMA ResolvingSettles ==
    ASSUME NEW d \in DateObject, Validate(d), rule \in {Inferred} \cup LaterRule
    PROVE  Settled(Resolve(d))
<1>1. CASE d.kind # "circa"
  <2>1. Resolve(d) = d /\ d.unit = NoUnit
    BY <1>1 DEF Resolve, Validate
  <2>2. d \in Date
    BY <2>1 DEF DateObject, Date, Validate, NoUnit
  <2> QED BY <1>1, <2>1, <2>2 DEF Settled
<1>2. CASE d.kind = "circa"
  <2> DEFINE u == ResolvedUnit(d)
  <2>1. /\ d.unit \in CircaUnit \cup {NoUnit}
        /\ d.start = <<>> /\ d.end = <<>> /\ Parses(d.date)
    BY <1>2 DEF Validate
  <2>2. Inferred \in Inference
    BY DEF Inferred, Inference, CircaUnit
  <2>3. rule \in Inference
    BY <2>2, DateAssumption
  <2>4. Len(d.date) \in 1..3
    BY <2>1 DEF Parses
  <2>5. u \in CircaUnit
    BY <2>1, <2>3, <2>4 DEF ResolvedUnit, Inference
  <2>6. NoUnit \notin CircaUnit
    BY DEF NoUnit, CircaUnit
  <2> HIDE DEF u
  <2>7. Resolve(d) = [d EXCEPT !.unit = u]
    BY <1>2 DEF Resolve, u
  <2>8. /\ Resolve(d).kind = "circa"
        /\ Resolve(d).date = d.date
        /\ Resolve(d).start = <<>>
        /\ Resolve(d).end = <<>>
        /\ Resolve(d).unit = u
    BY <1>2, <2>1, <2>7 DEF DateObject
  <2>9. Resolve(d) \in Date
    BY <1>2, <2>5, <2>7 DEF DateObject, Date
  <2>10. Validate(Resolve(d))
    BY <2>1, <2>5, <2>8 DEF Validate
  <2> QED BY <2>5, <2>6, <2>8, <2>9, <2>10 DEF Settled
<1> QED BY <1>1, <1>2

\* Resolving again changes nothing.
LEMMA SettledIsResolved ==
    ASSUME NEW d, Settled(d)
    PROVE  Resolve(d) = d
<1>1. CASE d.kind # "circa"
  BY <1>1 DEF Resolve
<1>2. CASE d.kind = "circa"
  <2>1. ResolvedUnit(d) = d.unit
    BY <1>2 DEF Settled, ResolvedUnit
  <2> QED BY <1>2, <2>1 DEF Resolve, Settled, Date
<1> QED BY <1>1, <1>2

\* What is derived from a settled date is in order, and its sort instant can
\* be formatted.
LEMMA MeaningIsInOrder ==
    ASSUME NEW d, Settled(d)
    PROVE  /\ Means(d).earliest \in Int
           /\ Means(d).latest \in Int
           /\ Means(d).sort = Midpoint(Means(d).earliest, Means(d).latest)
           /\ Means(d).sort \in FourDigitYears
           /\ Means(d).sort \in Means(d).earliest .. Means(d).latest
<1> DEFINE b == FixedBounds(d)
           last == End * TicksPerDay - 1
<1>1. last \in Int /\ FourDigitYears = 0..last
  <2>1. End \in Int /\ TicksPerDay \in Int
    BY DateAssumption DEF End, DaysBefore
  <2> QED BY <2>1 DEF FourDigitYears, End
<1>2. SUFFICES /\ b.earliest \in Int /\ b.latest \in Int
               /\ b.earliest <= b.latest
               /\ Midpoint(b.earliest, b.latest) \in 0..last
  <2>1. /\ Means(d).earliest = b.earliest
        /\ Means(d).latest = b.latest
        /\ Means(d).sort = Midpoint(b.earliest, b.latest)
    BY DEF Means, NormOf
  <2>2. /\ Midpoint(b.earliest, b.latest) \in Int
        /\ b.earliest <= Midpoint(b.earliest, b.latest)
        /\ Midpoint(b.earliest, b.latest) <= b.latest
    BY <1>2, MidpointIsBetween
  <2> HIDE DEF b, last
  <2> QED BY <1>1, <1>2, <2>1, <2>2
<1>3. d.date \in Seq(Nat) /\ d.start \in Seq(Nat) /\ d.end \in Seq(Nat)
  BY DEF Settled, Date
<1>4. CASE d.kind = "exact"
  <2>1. b = [earliest |-> Earliest(d.date), latest |-> Latest(d.date)]
    BY <1>4 DEF FixedBounds
  <2>2. Parses(d.date)
    BY <1>4 DEF Settled, Validate
  <2>3. /\ Earliest(d.date) \in Int /\ Latest(d.date) \in Int
        /\ 0 <= Earliest(d.date) /\ Earliest(d.date) <= Latest(d.date)
        /\ Latest(d.date) <= last
    BY <1>3, <2>2, InstantsAreInYears
  <2>4. /\ Midpoint(Earliest(d.date), Latest(d.date)) \in Int
        /\ Earliest(d.date) <= Midpoint(Earliest(d.date), Latest(d.date))
        /\ Midpoint(Earliest(d.date), Latest(d.date)) <= Latest(d.date)
    BY <2>3, MidpointIsBetween
  <2> HIDE DEF last
  <2> QED BY <1>1, <2>1, <2>3, <2>4
<1>5. CASE d.kind = "range"
  <2>1. b = [earliest |-> Earliest(d.start), latest |-> Latest(d.end)]
    BY <1>5 DEF FixedBounds
  <2>2. Parses(d.start) /\ Parses(d.end) /\ Earliest(d.start) <= Latest(d.end)
    BY <1>5 DEF Settled, Validate, InOrder
  <2>3. /\ Earliest(d.start) \in Int /\ 0 <= Earliest(d.start)
        /\ Latest(d.end) \in Int /\ Latest(d.end) <= last
    BY <1>3, <2>2, InstantsAreInYears
  <2>4. /\ Midpoint(Earliest(d.start), Latest(d.end)) \in Int
        /\ Earliest(d.start) <= Midpoint(Earliest(d.start), Latest(d.end))
        /\ Midpoint(Earliest(d.start), Latest(d.end)) <= Latest(d.end)
    BY <2>2, <2>3, MidpointIsBetween
  <2> HIDE DEF last
  <2> QED BY <1>1, <2>1, <2>2, <2>3, <2>4
<1>6. CASE d.kind = "circa"
  <2> DEFINE c == Centre(d.date)
             half == HalfWidth(d.unit) * TicksPerDay
  <2>1. b = [earliest |-> c - half, latest |-> c + half]
    BY <1>6 DEF FixedBounds
  <2>2. Parses(d.date) /\ d.unit \in CircaUnit
    BY <1>6 DEF Settled, Validate
  <2>3. c \in Int /\ 0 <= c /\ c <= last
    <3>1. /\ Earliest(d.date) \in Int /\ Latest(d.date) \in Int
          /\ 0 <= Earliest(d.date) /\ Earliest(d.date) <= Latest(d.date)
          /\ Latest(d.date) <= last
      BY <1>3, <2>2, InstantsAreInYears
    <3>2. /\ c \in Int /\ Earliest(d.date) <= c /\ c <= Latest(d.date)
      BY <3>1, MidpointIsBetween DEF Centre
    <3> HIDE DEF c, last
    <3> QED BY <1>1, <3>1, <3>2
  <2>w. PICK w : w = HalfWidth(d.unit)
    OBVIOUS
  <2>4. w \in 0..18262
    BY <2>2, <2>w DEF CircaUnit, HalfWidth
  <2>5. half \in Int /\ 0 <= half /\ 2 * half <= Limit
    <3>1. PICK t \in Nat : t = TicksPerDay
      BY DateAssumption
    <3>2. PICK h : h = half
      OBVIOUS
    <3>3. h = w * t
      BY <2>w, <3>1, <3>2
    <3>4. w * t \in Nat /\ w * t <= 18262 * t
      <4>1. w * t \in Nat /\ (18262 - w) * t \in Nat
        BY <2>4
      <4>2. (18262 - w) * t = 18262 * t - w * t
        BY <2>4
      <4> QED BY <4>1, <4>2
    <3>5. 36524 * t <= Limit /\ Limit \in Nat
      BY <3>1, LimitIsACentury
    <3> HIDE DEF half
    <3>6. h \in Nat /\ h <= 18262 * t
      BY <3>3, <3>4
    <3>7. 2 * h <= Limit
      BY <3>5, <3>6
    <3> QED BY <3>2, <3>6, <3>7
  <2> HIDE DEF c, half
  <2>6. Midpoint(c - half, c + half) = c
    <3>1. (c + half) - (c - half) = 2 * half
      BY <2>3, <2>5
    <3>2. Sub(c + half, c - half) = 2 * half
      BY <2>5, <3>1 DEF Sub, Limit
    <3>3. (2 * half) \div 2 = half
      BY <2>5
    <3> QED BY <2>3, <2>5, <3>2, <3>3 DEF Midpoint
  <2> HIDE DEF last
  <2> QED BY <1>1, <2>1, <2>3, <2>5, <2>6
<1>7. d.kind \in {"exact", "range", "circa"}
  BY DEF Settled, Date
<1> QED BY <1>4, <1>5, <1>6, <1>7

-----------------------------------------------------------------------------
(***************************************************************************)
(* Items.                                                                  *)
(***************************************************************************)

\* A save of no date, or of a settled or freshly validated one.
LEMMA SavingKeepsIInv ==
    ASSUME IInv, NEW i \in Item, NEW d, Save(i, d),
           d = NoDate \/ Settled(Resolve(d))
    PROVE  IInv'
<1>1. CASE d = NoDate
  <2>1. /\ date' = [date EXCEPT ![i] = NoDate]
        /\ norm' = [norm EXCEPT ![i] = NoDate]
        /\ rule' = rule
    BY <1>1 DEF Save
  <2> QED BY <2>1 DEF IInv
<1>2. CASE d # NoDate
  <2> DEFINE r == Resolve(d)
  <2>1. Settled(r) /\ r \in Date /\ r # NoDate
    BY <1>2, DateAssumption DEF Settled
  <2>2. Normalize(r) = Means(r)
    BY <2>1, BoundsAreFixed
  <2>3. /\ date' = [date EXCEPT ![i] = r]
        /\ norm' = [norm EXCEPT ![i] = Means(r)]
        /\ rule' = rule
    BY <1>2, <2>2 DEF Save
  <2> HIDE DEF r
  <2> QED BY <2>1, <2>3 DEF IInv
<1> QED BY <1>1, <1>2

\* Every stored date is settled, and its derived fields are its meaning.
THEOREM DatesAreSettled == Spec => []IInv
<1>1. Init => IInv
  BY DEF Init, IInv
<1>2. IInv /\ [Next]_vars => IInv'
  <2> SUFFICES ASSUME IInv, [Next]_vars PROVE IInv'
    OBVIOUS
  <2>1. CASE UNCHANGED vars
    BY <2>1 DEF IInv, vars
  <2>2. ASSUME NEW i \in Item, ClearDate(i) PROVE IInv'
    BY <2>2, SavingKeepsIInv DEF ClearDate
  <2>3. ASSUME NEW i \in Item, EditOtherwise(i) PROVE IInv'
    <3>1. date[i] = NoDate \/ Settled(Resolve(date[i]))
      BY SettledIsResolved DEF IInv
    <3> QED BY <2>3, <3>1, SavingKeepsIInv DEF EditOtherwise
  <2>4. ASSUME NEW i \in Item, NEW body \in Body, PatchDate(i, body) PROVE IInv'
    <3>1. CASE IsCleared(body)
      BY <2>4, <3>1, SavingKeepsIInv DEF PatchDate
    <3>2. CASE ~IsCleared(body) /\ Validate(body)
      <4>1. body \in DateObject
        BY DateAssumption
      <4>2. Settled(Resolve(body))
        BY <3>2, <4>1, ResolvingSettles DEF IInv
      <4> QED BY <2>4, <3>2, <4>2, SavingKeepsIInv DEF PatchDate
    <3>3. CASE ~IsCleared(body) /\ ~Validate(body)
      BY <2>4, <3>3, <2>1 DEF PatchDate
    <3> QED BY <3>1, <3>2, <3>3
  <2>5. ASSUME NEW later \in LaterRule, Deploy(later) PROVE IInv'
    BY <2>5 DEF Deploy, IInv
  <2> QED BY <2>1, <2>2, <2>3, <2>4, <2>5 DEF Next
<1> QED BY <1>1, <1>2, PTL DEF Spec

\* TypeOK: a stored date has the unit it needs and sorts within its bounds, at
\* an instant of four-digit year.
THEOREM DateTypes == Spec => []TypeOK
<1>1. IInv => TypeOK
  <2> SUFFICES ASSUME IInv, NEW i \in Item, date[i] # NoDate
               PROVE  /\ date[i].kind = "circa" <=> date[i].unit # NoUnit
                      /\ norm[i].sort \in FourDigitYears
                      /\ norm[i].sort \in norm[i].earliest .. norm[i].latest
    BY DEF IInv, TypeOK
  <2>1. Settled(date[i]) /\ norm[i] = Means(date[i])
    BY DEF IInv
  <2> QED BY <2>1, MeaningIsInOrder DEF Settled
<1> QED BY <1>1, DatesAreSettled, PTL

\* SortFollowsTheBounds: of any two stored dates, the one that begins and ends
\* no later does not sort later.
THEOREM OrderFollowsTheBounds == Spec => []SortFollowsTheBounds
<1>1. IInv => SortFollowsTheBounds
  <2> SUFFICES ASSUME IInv, NEW i \in Dated, NEW j \in Dated,
                      norm[i].earliest <= norm[j].earliest,
                      norm[i].latest <= norm[j].latest
               PROVE  norm[i].sort <= norm[j].sort
    BY DEF SortFollowsTheBounds
  <2>1. /\ Settled(date[i]) /\ norm[i] = Means(date[i])
        /\ Settled(date[j]) /\ norm[j] = Means(date[j])
    BY DEF IInv, Dated
  <2>2. /\ norm[i].earliest \in Int /\ norm[i].latest \in Int
        /\ norm[i].sort = Midpoint(norm[i].earliest, norm[i].latest)
    BY <2>1, MeaningIsInOrder
  <2>3. /\ norm[j].earliest \in Int /\ norm[j].latest \in Int
        /\ norm[j].sort = Midpoint(norm[j].earliest, norm[j].latest)
    BY <2>1, MeaningIsInOrder
  <2> QED BY <2>2, <2>3, MidpointIsMonotone
<1> QED BY <1>1, DatesAreSettled, PTL

\* MeaningIsKept: while a stored date stays the same, so do the fields derived
\* from it, whatever releases come and however often the item is saved.
THEOREM MeaningStays == Spec => MeaningIsKept
<1>1. IInv /\ IInv' =>
         [\A i \in Dated : date'[i] = date[i] => norm'[i] = norm[i]]_vars
  BY DEF IInv, Dated
<1> QED BY <1>1, DatesAreSettled, PTL DEF MeaningIsKept

\* Overlaps compares ends of intervals, which finds what they have in common
\* because no stored interval is empty (Bounds, InOrder).
THEOREM OverlapIsIntersection == Spec => []OverlapsIsIntersection
<1>1. IInv => OverlapsIsIntersection
  <2> SUFFICES ASSUME IInv, NEW i \in Dated,
                      NEW from \in {w * TicksPerDay : w \in Window} \ {Open},
                      NEW to \in {w * TicksPerDay : w \in Window} \ {Open},
                      norm[i].earliest \in FourDigitYears,
                      norm[i].latest \in FourDigitYears,
                      from <= to
               PROVE  /\ Overlaps(norm[i], from, to) <=>
                            \E t \in {norm[i].earliest, from} :
                                t \in from..to /\ t \in norm[i].earliest .. norm[i].latest
                      /\ Overlaps(norm[i], from, Open) <=> from <= norm[i].latest
                      /\ Overlaps(norm[i], Open, to) <=> norm[i].earliest <= to
    BY DEF OverlapsIsIntersection
  <2>1. Settled(date[i]) /\ norm[i] = Means(date[i])
    BY DEF IInv, Dated
  <2>2. /\ norm[i].earliest \in Int /\ norm[i].latest \in Int
        /\ norm[i].earliest <= norm[i].latest
    <3>1. norm[i].sort \in norm[i].earliest .. norm[i].latest
      BY <2>1, MeaningIsInOrder
    <3> QED  BY <2>1, <3>1, MeaningIsInOrder
  <2>3. from \in Int /\ to \in Int /\ from # Open /\ to # Open
    <3>1. from # Open /\ to # Open
      OBVIOUS
    <3>2. PICK v, w \in Window : from = v * TicksPerDay /\ to = w * TicksPerDay
      OBVIOUS
    <3> QED  BY <3>1, <3>2, DateAssumption
  <2> HIDE DEF Overlaps
  <2> QED
    BY <2>2, <2>3 DEF Overlaps
<1> QED BY <1>1, DatesAreSettled, PTL

-----------------------------------------------------------------------------
(***************************************************************************)
(* Bands and precisions: their limits leave room for the longest month and *)
(* for every leap day, and keep apart what should be told apart.           *)
(***************************************************************************)

\* Label is the one label whose limit holds the span and whose predecessor's
\* does not.
LEMMA LabelIsUnique ==
    ASSUME NEW span \in Int, NEW labels, NEW limits, NEW k \in DOMAIN labels,
           \A n \in DOMAIN labels : n \in Nat \ {0},
           \A m, n \in DOMAIN labels :
              m < n => m \in DOMAIN limits /\ limits[m] \in Int,
           k \in DOMAIN limits => span <= limits[k],
           \A m \in 1..k - 1 : span > limits[m]
    PROVE  Label(span, labels, limits) = labels[k]
<1> DEFINE Fits(n) == /\ n \in DOMAIN limits => span <= limits[n]
                      /\ \A m \in 1..n - 1 : span > limits[m]
<1>1. Fits(k)
  OBVIOUS
<1>2. \A n \in DOMAIN labels : Fits(n) => n = k
  <2> SUFFICES ASSUME NEW n \in DOMAIN labels, Fits(n), n # k PROVE FALSE
    OBVIOUS
  <2>0. n \in Nat \ {0} /\ k \in Nat \ {0}
    OBVIOUS
  <2>1. CASE n < k
    <3>1. n \in 1..k - 1 /\ n \in DOMAIN limits /\ limits[n] \in Int
      BY <2>0, <2>1
    <3> QED BY <3>1
  <2>2. CASE k < n
    <3>1. k \in 1..n - 1 /\ k \in DOMAIN limits /\ limits[k] \in Int
      BY <2>0, <2>2
    <3> QED BY <3>1
  <2> QED BY <2>0, <2>1, <2>2
<1>3. (CHOOSE n \in DOMAIN labels : Fits(n)) = k
  <2> HIDE DEF Fits
  <2> QED BY <1>1, <1>2
<1> QED BY <1>3 DEF Label

\* A leap day comes every four years at most: five years hold two of them, and
\* ten years three.
LEMMA YearsSpan ==
    ASSUME NEW y \in Nat, NEW n \in Nat
    PROVE  /\ DaysBefore(y + n) \in Nat /\ DaysBefore(y) \in Nat
           /\ DaysBefore(y + n) - DaysBefore(y) >= 365 * n
           /\ n <= 5 => DaysBefore(y + n) - DaysBefore(y) <= 365 * n + 2
           /\ n <= 10 => DaysBefore(y + n) - DaysBefore(y) <= 365 * n + 3
<1>1. PICK a \in Nat, b \in Nat, c \in Nat :
         a = (y + 3) \div 4 /\ b = (y + 99) \div 100 /\ c = (y + 399) \div 400
  OBVIOUS
<1>2. PICK d \in Nat, e \in Nat, f \in Nat :
         d = (y + n + 3) \div 4 /\ e = (y + n + 99) \div 100
         /\ f = (y + n + 399) \div 400
  OBVIOUS
<1>3. /\ b = (a + 24) \div 25 /\ c = (b + 3) \div 4
      /\ e = (d + 24) \div 25 /\ f = (e + 3) \div 4
  BY <1>1, <1>2
<1>4. d - a >= 0
  BY <1>1, <1>2
<1>5. e - b >= 0 /\ e - b <= d - a
  BY <1>3, <1>4
<1>6. f - c >= 0 /\ f - c <= e - b
  BY <1>3, <1>5
<1>7. /\ n <= 5 => d - a <= 2
      /\ n <= 10 => d - a <= 3
  BY <1>1, <1>2
<1>8. /\ DaysBefore(y) = 365 * y + a - b + c
      /\ DaysBefore(y + n) = 365 * (y + n) + d - e + f
  BY <1>1, <1>2 DEF DaysBefore
<1>9. DaysBefore(y) \in Nat /\ DaysBefore(y + n) \in Nat
  BY DEF DaysBefore
<1> QED BY <1>4, <1>5, <1>6, <1>7, <1>8, <1>9

\* No month is shorter than 28 days or longer than 31.
LEMMA MonthsSpan ==
    ASSUME NEW y \in Nat, NEW m \in 1..12
    PROVE  DaysThrough(y, m) - DaysThrough(y, m - 1) \in 28..31
<1>1. \A n \in 1..12 : MonthEnds[n] \in 31..365
  BY DEF MonthEnds
<1>2. \A n \in 2..12 : MonthEnds[n] - MonthEnds[n - 1] \in 28..31
  BY DEF MonthEnds
<1>5. MonthEnds[1] = 31 /\ MonthEnds[2] = 59
  BY DEF MonthEnds
<1>3. CASE m = 1
  <2>1. DaysThrough(y, m - 1) = 0 /\ DaysThrough(y, m) = 31
    BY <1>3, <1>5 DEF DaysThrough
  <2> QED BY <2>1
<1>4. CASE m # 1
  <2>1. m \in 2..12 /\ m - 1 \in 1..12 /\ m - 1 # 0
    BY <1>4
  <2>2. PICK a \in 31..365, b \in 31..365 :
           /\ a = MonthEnds[m - 1] /\ b = MonthEnds[m]
           /\ b - a \in 28..31
           /\ (m = 2 => b - a = 28)
    <3>1. MonthEnds[m] \in 31..365 /\ MonthEnds[m - 1] \in 31..365
      BY <2>1, <1>1
    <3>2. MonthEnds[m] - MonthEnds[m - 1] \in 28..31
      BY <2>1, <1>2
    <3>3. m = 2 => MonthEnds[m] - MonthEnds[m - 1] = 28
      BY <1>5
    <3> QED BY <3>1, <3>2, <3>3
  <2>3. CASE m = 2
    <3>1. DaysThrough(y, m - 1) = a
      BY <2>1, <2>2, <2>3 DEF DaysThrough
    <3>2. DaysThrough(y, m) \in {b, b + 1}
      BY <2>1, <2>2, <2>3 DEF DaysThrough
    <3> QED BY <2>2, <2>3, <3>1, <3>2
  <2>4. CASE m # 2
    <3>1. m >= 2 /\ m - 1 >= 2 /\ m # 0
      BY <2>1, <2>4
    <3> DEFINE leap == IF IsLeap(y) THEN 1 ELSE 0
    <3>2. DaysThrough(y, m) = b + leap /\ DaysThrough(y, m - 1) = a + leap
      BY <2>1, <2>2, <3>1 DEF DaysThrough
    <3>3. leap \in 0..1
      OBVIOUS
    <3> HIDE DEF leap
    <3> QED BY <2>2, <3>2, <3>3
  <2> QED BY <2>3, <2>4
<1> QED BY <1>3, <1>4

\* The whole days a partial date covers.
DaysOf(p) == DayAfter(p) - FirstDay(p)

\* A year, a month or a day, as much as was written.
LEMMA DatesSpan ==
    ASSUME NEW p \in Seq(Nat), Parses(p)
    PROVE  /\ DaysOf(p) \in 1..366
           /\ Len(p) = 1 => DaysOf(p) \in 365..366
           /\ Len(p) = 2 => DaysOf(p) \in 28..31
           /\ Len(p) = 3 => DaysOf(p) = 1
<1>1. Len(p) \in 1..3 /\ p[1] \in Nat
  BY DEF Parses
<1>2. CASE Len(p) = 1
  <2>1. PICK y \in Nat, z \in Nat : y = p[1] /\ z = y + 1
    BY <1>1
  <2>2. /\ DaysBefore(y) \in Nat /\ DaysBefore(z) \in Nat
        /\ DaysBefore(z) = DaysBefore(y) + YearLength(y)
    BY <2>1, YearsGrow
  <2>3. DaysOf(p) = DaysBefore(z) - DaysBefore(y)
    BY <1>2, <2>1 DEF DaysOf, DayAfter, FirstDay
  <2>4. YearLength(y) \in 365..366
    BY DEF YearLength
  <2> QED BY <1>2, <2>2, <2>3, <2>4
<1>3. CASE Len(p) = 2
  <2>1. PICK y \in Nat, m \in 1..12 : y = p[1] /\ m = p[2]
    BY <1>1, <1>3 DEF Parses
  <2>2. PICK s \in Nat, a \in Nat, b \in Nat :
           s = DaysBefore(y) /\ a = DaysThrough(y, m - 1) /\ b = DaysThrough(y, m)
           /\ b - a \in 28..31
    <3>1. DaysBefore(y) \in Nat
      BY DEF DaysBefore
    <3>2. DaysThrough(y, m - 1) \in Nat /\ DaysThrough(y, m) \in Nat
      BY MonthsGrow
    <3> QED BY <3>1, <3>2, MonthsSpan
  <2>3. DaysOf(p) = (s + b) - (s + a)
    BY <1>3, <2>1, <2>2 DEF DaysOf, DayAfter, FirstDay
  <2>4. b - a \in 28..31
    BY <2>2
  <2>5. (s + b) - (s + a) = b - a
    OBVIOUS
  <2> QED BY <1>3, <2>3, <2>4, <2>5
<1>4. CASE Len(p) = 3
  <2>1. DayAfter(p) = FirstDay(p) + 1
    BY <1>4 DEF DayAfter
  <2>2. FirstDay(p) \in Nat
    BY SpansAreDays
  <2> QED BY <1>4, <2>1, <2>2 DEF DaysOf
<1> QED BY <1>1, <1>2, <1>3, <1>4

\* Between its first instant and its last there is a tick less than its days.
LEMMA DatesLast ==
    ASSUME NEW p \in Seq(Nat), Parses(p)
    PROVE  Latest(p) - Earliest(p) = DaysOf(p) * TicksPerDay - 1
<1>1. FirstDay(p) \in Nat /\ DayAfter(p) \in Nat
  BY SpansAreDays
<1>2. PICK a \in Nat, b \in Nat, t \in Nat :
         a = FirstDay(p) /\ b = DayAfter(p) /\ t = TicksPerDay
  BY <1>1, DateAssumption
<1>3. (b - a) * t = b * t - a * t
  OBVIOUS
<1>4. b * t \in Nat /\ a * t \in Nat
  OBVIOUS
<1> QED BY <1>2, <1>3, <1>4 DEF DaysOf, Latest, Earliest

\* The labels and limits of BandTier and of Precision, named.
BandLabels == <<"month", "3-months", "year", "5-years", "decade", "century">>
BandLimits == <<31 * TicksPerDay, 93 * TicksPerDay, 366 * TicksPerDay,
                1827 * TicksPerDay, 3653 * TicksPerDay>>
PrecisionLabels == <<"day", "month", "year", "decade", "century">>
PrecisionLimits == <<56 * TicksPerDay, 1060 * TicksPerDay, 11540 * TicksPerDay,
                     115440 * TicksPerDay>>

\* The band of a span, from the two limits it lies between.
LEMMA BandIs ==
    ASSUME NEW span \in Int, NEW k \in 1..6,
           k \in 1..5 => span <= BandLimits[k],
           k # 1 => span > BandLimits[k - 1]
    PROVE  BandTier(span) = BandLabels[k]
<1>1. PICK t \in Nat : t = TicksPerDay
  BY DateAssumption
<1>2. DOMAIN BandLabels = 1..6 /\ DOMAIN BandLimits = 1..5
  BY DEF BandLabels, BandLimits
<1>3. /\ BandLimits[1] = 31 * t /\ BandLimits[2] = 93 * t
      /\ BandLimits[3] = 366 * t /\ BandLimits[4] = 1827 * t
      /\ BandLimits[5] = 3653 * t
  BY <1>1 DEF BandLimits
<1>4. \A m \in 1..5 : BandLimits[m] \in Int
  BY <1>3
<1>5. \A m \in 1..k - 1 : span > BandLimits[m]
  <2>1. \A m \in 2..5 : BandLimits[m - 1] <= BandLimits[m]
    BY <1>3
  <2>2. \A m, n \in 1..5 : m <= n => BandLimits[m] <= BandLimits[n]
    BY <1>3
  <2> SUFFICES ASSUME NEW m \in 1..k - 1 PROVE span > BandLimits[m]
    OBVIOUS
  <2>3. k - 1 \in 1..5 /\ m \in 1..5 /\ m <= k - 1 /\ k # 1
    OBVIOUS
  <2>4. BandLimits[m] <= BandLimits[k - 1]
    BY <2>2, <2>3
  <2>5. BandLimits[m] \in Int /\ BandLimits[k - 1] \in Int
    BY <1>4, <2>3
  <2> QED BY <2>3, <2>4, <2>5
<1>6. Label(span, BandLabels, BandLimits) = BandLabels[k]
  <2>1. k \in DOMAIN BandLabels
    BY <1>2
  <2>4. k \in DOMAIN BandLimits => span <= BandLimits[k]
    BY <1>2
  <2>2. \A n \in DOMAIN BandLabels : n \in Nat \ {0}
    BY <1>2
  <2>3. \A m, n \in DOMAIN BandLabels :
           m < n => m \in DOMAIN BandLimits /\ BandLimits[m] \in Int
    BY <1>2, <1>4
  <2> QED BY <1>5, <2>1, <2>2, <2>3, <2>4, LabelIsUnique, Zenon
<1> QED BY <1>6 DEF BandTier, BandLabels, BandLimits

\* The precision of a span in tenths of ticks, the same way, and in ticks.
LEMMA PrecisionLabelIs ==
    ASSUME NEW tenths \in Int, NEW k \in 1..5,
           k \in 1..4 => tenths <= PrecisionLimits[k],
           k # 1 => tenths > PrecisionLimits[k - 1]
    PROVE  Label(tenths, PrecisionLabels, PrecisionLimits) = PrecisionLabels[k]
<1>1. PICK t \in Nat : t = TicksPerDay
  BY DateAssumption
<1>2. DOMAIN PrecisionLabels = 1..5 /\ DOMAIN PrecisionLimits = 1..4
  BY DEF PrecisionLabels, PrecisionLimits
<1>3. /\ PrecisionLimits[1] = 56 * t /\ PrecisionLimits[2] = 1060 * t
      /\ PrecisionLimits[3] = 11540 * t /\ PrecisionLimits[4] = 115440 * t
  BY <1>1 DEF PrecisionLimits
<1>4. \A m \in 1..4 : PrecisionLimits[m] \in Int
  BY <1>3
<1>5. \A m \in 1..k - 1 : tenths > PrecisionLimits[m]
  <2>2. \A m, n \in 1..4 : m <= n => PrecisionLimits[m] <= PrecisionLimits[n]
    BY <1>3
  <2> SUFFICES ASSUME NEW m \in 1..k - 1 PROVE tenths > PrecisionLimits[m]
    OBVIOUS
  <2>3. k - 1 \in 1..4 /\ m \in 1..4 /\ m <= k - 1 /\ k # 1
    OBVIOUS
  <2>4. PrecisionLimits[m] <= PrecisionLimits[k - 1]
    BY <2>2, <2>3
  <2>5. PrecisionLimits[m] \in Int /\ PrecisionLimits[k - 1] \in Int
    BY <1>4, <2>3
  <2> QED BY <2>3, <2>4, <2>5
<1> QED
  <2>1. k \in DOMAIN PrecisionLabels
    BY <1>2
  <2>4. k \in DOMAIN PrecisionLimits => tenths <= PrecisionLimits[k]
    BY <1>2
  <2>2. \A n \in DOMAIN PrecisionLabels : n \in Nat \ {0}
    BY <1>2
  <2>3. \A m, n \in DOMAIN PrecisionLabels :
           m < n => m \in DOMAIN PrecisionLimits /\ PrecisionLimits[m] \in Int
    BY <1>2, <1>4
  <2> QED BY <1>5, <2>1, <2>2, <2>3, <2>4, LabelIsUnique, Zenon

LEMMA PrecisionIs ==
    ASSUME NEW span \in Int, NEW k \in 1..5,
           k \in 1..4 => 10 * span <= PrecisionLimits[k],
           k # 1 => 10 * span > PrecisionLimits[k - 1]
    PROVE  Precision(span) = PrecisionLabels[k]
<1>1. PICK tenths \in Int : tenths = 10 * span
  OBVIOUS
<1>2. Label(tenths, PrecisionLabels, PrecisionLimits) = PrecisionLabels[k]
  BY <1>1, PrecisionLabelIs
<1> QED BY <1>1, <1>2 DEF Precision, PrecisionLabels, PrecisionLimits

\* A circa date as wide as Inferred makes it reaches past both ends of what
\* was written: half the unit is more than half the date.
LEMMA InferredIsWider ==
    ASSUME NEW p \in Seq(Nat), Parses(p)
    PROVE  LET half == HalfWidth(Inferred[Len(p)]) * TicksPerDay
           IN  /\ Centre(p) - half < Earliest(p)
               /\ Centre(p) + half > Latest(p)
<1>d. PICK days \in 1..366 : days = DaysOf(p)
  BY DatesSpan
<1>w. PICK w \in Nat : w = HalfWidth(Inferred[Len(p)]) /\ days < 2 * w
  <2>1. Len(p) \in 1..3
    BY DEF Parses
  <2>2. CASE Len(p) = 1
    <3>1. HalfWidth(Inferred[Len(p)]) = 913
      BY <2>2 DEF Inferred, HalfWidth
    <3>2. days < 2 * 913
      OBVIOUS
    <3> QED BY <3>1, <3>2
  <2>3. CASE Len(p) = 2
    <3>1. HalfWidth(Inferred[Len(p)]) = 46
      BY <2>3 DEF Inferred, HalfWidth
    <3>2. days < 2 * 46
      BY <1>d, <2>3, DatesSpan
    <3> QED BY <3>1, <3>2
  <2>4. CASE Len(p) = 3
    <3>1. HalfWidth(Inferred[Len(p)]) = 15
      BY <2>4 DEF Inferred, HalfWidth
    <3>2. days < 2 * 15
      BY <1>d, <2>4, DatesSpan
    <3> QED BY <3>1, <3>2
  <2> QED BY <2>1, <2>2, <2>3, <2>4
<1>t. PICK t \in Nat : t = TicksPerDay /\ t >= 2
  BY DateAssumption
<1>1. PICK e \in Int, l \in Int : e = Earliest(p) /\ l = Latest(p)
  BY InstantsAreInYears
<1>2. PICK span \in Nat, half \in Nat :
         /\ span = days * t - 1 /\ half = w * t
         /\ span + 1 <= 366 * t
         /\ span + 1 + t <= 2 * half
  <2>1. PICK a \in Nat, b \in Nat, c \in Nat :
           a = days - 1 /\ b = 366 - days /\ c = 2 * w - days - 1
    <3>1. days - 1 \in Nat /\ 366 - days \in Nat /\ 2 * w - days - 1 \in Nat
      BY <1>w
    <3> QED BY <3>1
  <2>2. a * t \in Nat /\ b * t \in Nat /\ c * t \in Nat /\ w * t \in Nat
    OBVIOUS
  <2>3. /\ a * t = days * t - t
        /\ b * t = 366 * t - days * t
        /\ c * t = 2 * (w * t) - days * t - t
    <3>1. (days - 1) * t = days * t - t
      OBVIOUS
    <3>2. (366 - days) * t = 366 * t - days * t
      OBVIOUS
    <3>3. (2 * w - days - 1) * t = 2 * (w * t) - days * t - t
      OBVIOUS
    <3> QED BY <2>1, <3>1, <3>2, <3>3
  <2>4. days * t \in Nat
    OBVIOUS
  <2>5. /\ days * t - 1 \in Nat
        /\ days * t <= 366 * t
        /\ days * t + t <= 2 * (w * t)
    BY <1>t, <2>2, <2>3, <2>4
  <2> QED BY <2>2, <2>4, <2>5
<1>3. l - e = span
  BY <1>t, <1>d, <1>1, <1>2, DatesLast
<1>4. span <= Limit
  <2>1. 36524 * t <= Limit /\ Limit \in Nat
    BY <1>t, LimitIsACentury
  <2> QED BY <1>2, <2>1
<1>5. Sub(l, e) = span
  BY <1>3, <1>4 DEF Sub, Limit
<1>6. Centre(p) = e + span \div 2
  BY <1>1, <1>5 DEF Centre, Midpoint
<1>7. span \div 2 < half /\ span - span \div 2 < half
  BY <1>t, <1>2
<1>8. e + span \div 2 - half < e /\ e + span \div 2 + half > l
  BY <1>3, <1>7
<1> QED BY <1>w, <1>t, <1>1, <1>2, <1>6, <1>8

\* CircaIsLooserThanExact: "circa" a date, with the unit inferred for it, begins
\* before that date does and ends after it.
THEOREM CircaIsLooser == Spec => []CircaIsLooserThanExact
<1>1. IInv => CircaIsLooserThanExact
  <2> SUFFICES ASSUME IInv, NEW i \in Dated, date[i].kind = "circa",
                      date[i].unit = Inferred[Len(date[i].date)]
               PROVE  /\ norm[i].earliest < Earliest(date[i].date)
                      /\ norm[i].latest > Latest(date[i].date)
    BY DEF CircaIsLooserThanExact
  <2>1. Settled(date[i]) /\ norm[i] = Means(date[i])
    BY DEF IInv, Dated
  <2>2. PICK p \in Seq(Nat) : p = date[i].date /\ Parses(p)
    BY <2>1 DEF Settled, Validate, Date
  <2>3. PICK half : half = HalfWidth(Inferred[Len(p)]) * TicksPerDay
    OBVIOUS
  <2>4. norm[i].earliest = Centre(p) - half /\ norm[i].latest = Centre(p) + half
    BY <2>1, <2>2, <2>3 DEF Means, NormOf, FixedBounds
  <2>5. Centre(p) - half < Earliest(p) /\ Centre(p) + half > Latest(p)
    BY <2>2, <2>3, InferredIsWider
  <2> QED BY <2>2, <2>4, <2>5
<1> QED BY <1>1, DatesAreSettled, PTL

\* A circa date is exactly as wide as its unit, and that width falls in the
\* unit's band.
LEMMA CircaBand ==
    ASSUME NEW u \in CircaUnit, NEW c \in Int,
           NEW half, half = HalfWidth(u) * TicksPerDay
    PROVE  BandTier(Sub(c + half, c - half)) = u
<1>t. PICK t \in Nat : t = TicksPerDay /\ t >= 2
  BY DateAssumption
<1>1. PICK w \in Nat, k \in 1..6 :
         /\ w = HalfWidth(u) /\ w <= 18262
         /\ u = BandLabels[k]
         /\ k = 1 => w = 15
         /\ k = 2 => w = 46
         /\ k = 3 => w = 183
         /\ k = 4 => w = 913
         /\ k = 5 => w = 1826
         /\ k = 6 => w = 18262
  <2>1. CASE u = "month"
    BY <2>1 DEF HalfWidth, BandLabels
  <2>2. CASE u = "3-months"
    BY <2>2 DEF HalfWidth, BandLabels
  <2>3. CASE u = "year"
    BY <2>3 DEF HalfWidth, BandLabels
  <2>4. CASE u = "5-years"
    BY <2>4 DEF HalfWidth, BandLabels
  <2>5. CASE u = "decade"
    BY <2>5 DEF HalfWidth, BandLabels
  <2>6. CASE u = "century"
    BY <2>6 DEF HalfWidth, BandLabels
  <2> QED BY <2>1, <2>2, <2>3, <2>4, <2>5, <2>6 DEF CircaUnit
<1>2. half \in Nat /\ half = w * t
  <2>1. w * t \in Nat
    OBVIOUS
  <2> QED BY <1>t, <1>1, <2>1
<1>3. 2 * half <= Limit
  <2>1. PICK x \in Nat : x = 18262 - w
    BY <1>1
  <2>2. x * t \in Nat
    OBVIOUS
  <2>3. (18262 - w) * t = 18262 * t - w * t
    OBVIOUS
  <2>4. half <= 18262 * t
    BY <1>2, <2>1, <2>2, <2>3
  <2>5. 36524 * t <= Limit /\ Limit \in Nat
    BY <1>t, LimitIsACentury
  <2> QED BY <1>2, <2>4, <2>5
<1>4. Sub(c + half, c - half) = 2 * half
  <2>1. (c + half) - (c - half) = 2 * half
    BY <1>2
  <2> QED BY <1>3, <2>1 DEF Sub, Limit
<1>5. /\ BandLimits[1] = 31 * t /\ BandLimits[2] = 93 * t
      /\ BandLimits[3] = 366 * t /\ BandLimits[4] = 1827 * t
      /\ BandLimits[5] = 3653 * t
  BY <1>t DEF BandLimits
<1>6. /\ k \in 1..5 => 2 * half <= BandLimits[k]
      /\ k # 1 => 2 * half > BandLimits[k - 1]
  <2>1. CASE k = 1
    BY <1>t, <1>1, <1>2, <1>5, <2>1
  <2>2. CASE k = 2
    BY <1>t, <1>1, <1>2, <1>5, <2>2
  <2>3. CASE k = 3
    BY <1>t, <1>1, <1>2, <1>5, <2>3
  <2>4. CASE k = 4
    BY <1>t, <1>1, <1>2, <1>5, <2>4
  <2>5. CASE k = 5
    BY <1>t, <1>1, <1>2, <1>5, <2>5
  <2>6. CASE k = 6
    BY <1>t, <1>1, <1>2, <1>5, <2>6
  <2> QED BY <2>1, <2>2, <2>3, <2>4, <2>5, <2>6
<1>7. BandTier(2 * half) = BandLabels[k]
  <2>1. PICK span \in Int : span = 2 * half
    BY <1>2
  <2> QED BY <1>6, <2>1, BandIs
<1> QED BY <1>1, <1>4, <1>7

\* An exact date is drawn, and said to be, as precise as what was written.
LEMMA ExactBand ==
    ASSUME NEW p \in Seq(Nat), Parses(p)
    PROVE  /\ BandTier(Sub(Latest(p), Earliest(p)))
                = <<"year", "month", "month">>[Len(p)]
           /\ Precision(Sub(Latest(p), Earliest(p)))
                = <<"year", "month", "day">>[Len(p)]
<1>d. PICK days \in 1..366 :
         /\ days = DaysOf(p)
         /\ Len(p) = 1 => days >= 365
         /\ Len(p) = 2 => days \in 28..31
         /\ Len(p) = 3 => days = 1
  <2>1. /\ DaysOf(p) \in 1..366
        /\ Len(p) = 1 => DaysOf(p) \in 365..366
        /\ Len(p) = 2 => DaysOf(p) \in 28..31
        /\ Len(p) = 3 => DaysOf(p) = 1
    BY DatesSpan
  <2> QED BY <2>1
<1>t. PICK t \in Nat : t = TicksPerDay /\ t >= 2
  BY DateAssumption
<1>1. PICK span \in Nat : span = days * t - 1
  <2>1. PICK a \in Nat : a = days - 1
    OBVIOUS
  <2>2. a * t \in Nat /\ (days - 1) * t = days * t - t
    OBVIOUS
  <2> QED BY <1>t, <2>1, <2>2
<1>2. span <= 366 * t - 1
  <2>1. PICK a \in Nat : a = 366 - days
    OBVIOUS
  <2>2. a * t \in Nat /\ (366 - days) * t = 366 * t - days * t
    OBVIOUS
  <2> QED BY <1>1, <2>1, <2>2
<1>3. Sub(Latest(p), Earliest(p)) = span
  <2>1. Latest(p) - Earliest(p) = span
    BY <1>d, <1>t, <1>1, DatesLast
  <2>2. span <= Limit
    <3>1. 36524 * t <= Limit /\ Limit \in Nat
      BY <1>t, LimitIsACentury
    <3> QED BY <1>2, <3>1
  <2> QED BY <2>1, <2>2 DEF Sub, Limit
<1>4. /\ BandLimits[1] = 31 * t /\ BandLimits[2] = 93 * t
      /\ BandLimits[3] = 366 * t
      /\ PrecisionLimits[1] = 56 * t /\ PrecisionLimits[2] = 1060 * t
      /\ PrecisionLimits[3] = 11540 * t
  BY <1>t DEF BandLimits, PrecisionLimits
<1>5. /\ BandLabels[1] = "month" /\ BandLabels[3] = "year"
      /\ PrecisionLabels[1] = "day" /\ PrecisionLabels[2] = "month"
      /\ PrecisionLabels[3] = "year"
  BY DEF BandLabels, PrecisionLabels
<1>6. CASE Len(p) = 1
  <2>1. span >= 365 * t - 1
    <3>1. PICK a \in Nat : a = days - 365
      BY <1>d, <1>6
    <3>2. a * t \in Nat /\ (days - 365) * t = days * t - 365 * t
      OBVIOUS
    <3> QED BY <1>1, <3>1, <3>2
  <2>2. span <= BandLimits[3] /\ span > BandLimits[2]
    BY <1>t, <1>2, <1>4, <2>1
  <2>3. BandTier(span) = BandLabels[3]
    BY <2>2, BandIs
  <2>4. 10 * span <= PrecisionLimits[3] /\ 10 * span > PrecisionLimits[2]
    BY <1>t, <1>2, <1>4, <2>1
  <2>5. Precision(span) = PrecisionLabels[3]
    BY <2>4, PrecisionIs
  <2> QED BY <1>3, <1>5, <1>6, <2>3, <2>5
<1>7. CASE Len(p) = 2
  <2>1. span >= 28 * t - 1 /\ span <= 31 * t - 1
    <3>1. PICK a \in Nat, b \in Nat : a = days - 28 /\ b = 31 - days
      BY <1>d, <1>7
    <3>2. /\ a * t \in Nat /\ (days - 28) * t = days * t - 28 * t
          /\ b * t \in Nat /\ (31 - days) * t = 31 * t - days * t
      OBVIOUS
    <3> QED BY <1>1, <3>1, <3>2
  <2>2. span <= BandLimits[1]
    BY <1>t, <1>4, <2>1
  <2>3. BandTier(span) = BandLabels[1]
    BY <2>2, BandIs
  <2>4. 10 * span <= PrecisionLimits[2] /\ 10 * span > PrecisionLimits[1]
    BY <1>t, <1>4, <2>1
  <2>5. Precision(span) = PrecisionLabels[2]
    BY <2>4, PrecisionIs
  <2> QED BY <1>3, <1>5, <1>7, <2>3, <2>5
<1>8. CASE Len(p) = 3
  <2>1. span = t - 1
    BY <1>d, <1>1, <1>8
  <2>2. span <= BandLimits[1]
    BY <1>t, <1>4, <2>1
  <2>3. BandTier(span) = BandLabels[1]
    BY <2>2, BandIs
  <2>4. 10 * span <= PrecisionLimits[1]
    BY <1>t, <1>4, <2>1
  <2>5. Precision(span) = PrecisionLabels[1]
    BY <2>4, PrecisionIs
  <2> QED BY <1>3, <1>5, <1>8, <2>3, <2>5
<1>9. Len(p) \in 1..3
  BY DEF Parses
<1> QED BY <1>6, <1>7, <1>8, <1>9

\* A valid range of years covers one at least, and those it names.
LEMMA RangesCoverYears ==
    ASSUME NEW d \in Date, Validate(d), IsRangeOfYears(d)
    PROVE  /\ d.start[1] \in Nat /\ Years(d) \in Nat \ {0}
           /\ Latest(d.end) - Earliest(d.start)
                = (DaysBefore(d.start[1] + Years(d)) - DaysBefore(d.start[1]))
                     * TicksPerDay - 1
<1>1. /\ Parses(d.start) /\ Parses(d.end) /\ InOrder(d)
      /\ Len(d.start) = 1 /\ Len(d.end) = 1
      /\ d.start \in Seq(Nat) /\ d.end \in Seq(Nat)
  BY DEF Validate, IsRangeOfYears, Date
<1>2. PICK y \in Nat, z \in Nat : y = d.start[1] /\ z = d.end[1]
  BY <1>1
<1>3. PICK a \in Nat, b \in Nat : a = DaysBefore(y) /\ b = DaysBefore(z + 1)
  BY DEF DaysBefore
<1>4. Earliest(d.start) = a * TicksPerDay /\ Latest(d.end) = b * TicksPerDay - 1
  BY <1>1, <1>2, <1>3 DEF Earliest, Latest, FirstDay, DayAfter
<1>t. PICK t \in Nat : t = TicksPerDay /\ t >= 2
  BY DateAssumption
<1>5. a * t \in Nat /\ b * t \in Nat /\ (b - a) * t = b * t - a * t
  OBVIOUS
<1>6. a * t <= b * t - 1
  BY <1>1, <1>4, <1>t DEF InOrder
<1>7. y <= z
  <2> SUFFICES ASSUME z + 1 <= y PROVE FALSE
    BY <1>2
  <2>1. PICK n \in Nat : n = y - (z + 1)
    OBVIOUS
  <2>2. z + 1 \in Nat /\ y = (z + 1) + n
    BY <2>1
  <2>3. DaysBefore((z + 1) + n) - DaysBefore(z + 1) >= 365 * n
    BY <2>2, YearsSpan
  <2>4. a - b >= 0
    BY <1>3, <2>1, <2>2, <2>3
  <2>5. b * TicksPerDay <= a * TicksPerDay
    BY <2>4, TicksFollowDays
  <2> QED BY <1>t, <1>5, <1>6, <2>5
<1>8. PICK n \in Nat \ {0} : n = z - y + 1 /\ y + n = z + 1
  <2>1. z - y + 1 \in Nat \ {0} /\ y + (z - y + 1) = z + 1
    BY <1>7
  <2> QED BY <2>1
<1>9. Years(d) = n
  BY <1>2, <1>8 DEF Years
<1>10. Latest(d.end) - Earliest(d.start) = (b - a) * t - 1
  BY <1>4, <1>5, <1>t
<1> QED BY <1>2, <1>3, <1>8, <1>9, <1>10, <1>t

\* A range of years is drawn as wide as the years it covers.
LEMMA RangeBand ==
    ASSUME NEW d \in Date, Validate(d), IsRangeOfYears(d)
    PROVE  BandTier(Sub(Latest(d.end), Earliest(d.start)))
             = CASE Years(d) = 1       -> "year"
                 [] Years(d) \in 2..5  -> "5-years"
                 [] Years(d) \in 6..10 -> "decade"
                 [] Years(d) > 10      -> "century"
<1>1. PICK y \in Nat, n \in Nat \ {0} : y = d.start[1] /\ n = Years(d)
  BY RangesCoverYears
<1>2. PICK days \in Nat :
         /\ days = DaysBefore(y + n) - DaysBefore(y)
         /\ days >= 365 * n
         /\ n <= 5 => days <= 365 * n + 2
         /\ n <= 10 => days <= 365 * n + 3
         /\ n = 1 => days <= 366
  <2>1. /\ DaysBefore(y + n) \in Nat /\ DaysBefore(y) \in Nat
        /\ DaysBefore(y + n) - DaysBefore(y) >= 365 * n
        /\ n <= 5 => DaysBefore(y + n) - DaysBefore(y) <= 365 * n + 2
        /\ n <= 10 => DaysBefore(y + n) - DaysBefore(y) <= 365 * n + 3
    BY YearsSpan
  <2>2. n = 1 => DaysBefore(y + n) - DaysBefore(y) <= 366
    <3>1. PICK z \in Nat : z = y + 1
      OBVIOUS
    <3>2. DaysBefore(z) = DaysBefore(y) + YearLength(y) /\ DaysBefore(y) \in Nat
      BY <3>1, YearsGrow
    <3>3. YearLength(y) \in 365..366
      BY DEF YearLength
    <3> QED BY <3>1, <3>2, <3>3
  <2>3. DaysBefore(y + n) - DaysBefore(y) \in Nat
    BY <2>1
  <2> QED BY <2>1, <2>2, <2>3
<1>t. PICK t \in Nat : t = TicksPerDay /\ t >= 2
  BY DateAssumption
<1>3. PICK length \in Nat :
         /\ length = days * t - 1
         /\ \A k \in Nat : days <= k => length <= k * t - 1
         /\ \A k \in Nat : k <= days => k * t - 1 <= length
  <2>1. days # 0
    BY <1>2
  <2>2. \A k, m \in Nat : k <= m => k * t <= m * t
    <3> TAKE k \in Nat, m \in Nat
    <3> HAVE k <= m
    <3>1. PICK a \in Nat : a = m - k
      OBVIOUS
    <3>2. a * t \in Nat /\ (m - k) * t = m * t - k * t /\ m * t \in Nat /\ k * t \in Nat
      OBVIOUS
    <3> QED BY <3>1, <3>2
  <2>3. \A k \in Nat : k * t \in Nat
    OBVIOUS
  <2>4. 1 * t <= days * t /\ 1 * t = t /\ days * t \in Nat
    BY <2>1, <2>2, <2>3
  <2>5. days * t - 1 \in Nat
    BY <1>t, <2>4
  <2>6. \A k \in Nat : days <= k => days * t - 1 <= k * t - 1
    BY <2>2, <2>3
  <2>7. \A k \in Nat : k <= days => k * t - 1 <= days * t - 1
    BY <2>2, <2>3
  <2> QED BY <2>5, <2>6, <2>7
<1>4. PICK span \in Nat :
         /\ span = Sub(Latest(d.end), Earliest(d.start))
         /\ span = length \/ (span <= length /\ 36524 * t <= span)
  <2>1. Latest(d.end) - Earliest(d.start) = length
    BY <1>1, <1>2, <1>3, <1>t, RangesCoverYears
  <2>2. Limit \in Nat /\ 36524 * t <= Limit
    BY <1>t, LimitIsACentury
  <2>3. Sub(Latest(d.end), Earliest(d.start)) = IF length <= Limit THEN length ELSE Limit
    BY <2>1 DEF Sub, Limit
  <2> QED BY <2>2, <2>3
<1>5. /\ BandLimits[2] = 93 * t /\ BandLimits[3] = 366 * t
      /\ BandLimits[4] = 1827 * t /\ BandLimits[5] = 3653 * t
  BY <1>t DEF BandLimits
<1>6. /\ BandLabels[3] = "year" /\ BandLabels[4] = "5-years"
      /\ BandLabels[5] = "decade" /\ BandLabels[6] = "century"
  BY DEF BandLabels
<1>7. CASE n = 1
  <2>1. length <= 366 * t - 1 /\ 365 * t - 1 <= length
    <3>1. 365 <= days /\ days <= 366
      BY <1>2, <1>7
    <3> QED BY <1>3, <3>1
  <2>2. span <= BandLimits[3] /\ span > BandLimits[2]
    BY <1>4, <1>5, <1>t, <2>1
  <2>3. BandTier(span) = BandLabels[3]
    BY <2>2, BandIs
  <2> QED BY <1>1, <1>4, <1>6, <1>7, <2>3
<1>8. CASE n \in 2..5
  <2>1. length <= 1827 * t - 1 /\ 730 * t - 1 <= length
    <3>1. 730 <= days /\ days <= 1827
      BY <1>2, <1>8
    <3> QED BY <1>3, <3>1
  <2>2. span <= BandLimits[4] /\ span > BandLimits[3]
    BY <1>4, <1>5, <1>t, <2>1
  <2>3. BandTier(span) = BandLabels[4]
    BY <2>2, BandIs
  <2> QED BY <1>1, <1>4, <1>6, <1>8, <2>3
<1>9. CASE n \in 6..10
  <2>1. length <= 3653 * t - 1 /\ 2190 * t - 1 <= length
    <3>1. 2190 <= days /\ days <= 3653
      BY <1>2, <1>9
    <3> QED BY <1>3, <3>1
  <2>2. span <= BandLimits[5] /\ span > BandLimits[4]
    BY <1>4, <1>5, <1>t, <2>1
  <2>3. BandTier(span) = BandLabels[5]
    BY <2>2, BandIs
  <2> QED BY <1>1, <1>4, <1>6, <1>9, <2>3
<1>10. CASE n > 10
  <2>1. 4015 * t - 1 <= length
    <3>1. 4015 <= days
      BY <1>2, <1>10
    <3> QED BY <1>3, <3>1
  <2>2. span > BandLimits[5]
    BY <1>4, <1>5, <1>t, <2>1
  <2>3. BandTier(span) = BandLabels[6]
    BY <2>2, BandIs
  <2> QED BY <1>1, <1>4, <1>6, <1>10, <2>3
<1>11. n = 1 \/ n \in 2..5 \/ n \in 6..10 \/ n > 10
  OBVIOUS
<1> QED BY <1>7, <1>8, <1>9, <1>10, <1>11

\* BandsHoldTheirUnits: whatever the year, a circa date is drawn as its unit,
\* an exact date as the year, month or day it is, and a range of years as the
\* least band with room for them.
THEOREM BandsFit == Spec => []BandsHoldTheirUnits
<1> DEFINE Fits(d, n) ==
             /\ d.kind = "circa" => n.bandTier = d.unit
             /\ d.kind = "exact" =>
                   /\ n.bandTier = <<"year", "month", "month">>[Len(d.date)]
                   /\ n.precision = <<"year", "month", "day">>[Len(d.date)]
             /\ IsRangeOfYears(d) =>
                   n.bandTier = CASE Years(d) = 1       -> "year"
                                  [] Years(d) \in 2..5  -> "5-years"
                                  [] Years(d) \in 6..10 -> "decade"
                                  [] Years(d) > 10      -> "century"
<1>1. IInv => \A i \in Dated : Fits(date[i], norm[i])
  <2> HIDE DEF Fits
  <2> SUFFICES ASSUME IInv, NEW i \in Dated PROVE Fits(date[i], norm[i])
    OBVIOUS
  <2> SUFFICES ASSUME NEW d, d = date[i], NEW n, n = norm[i] PROVE Fits(d, n)
    OBVIOUS
  <2> USE DEF Fits
  <2>1. Settled(d) /\ n = Means(d)
    BY DEF IInv, Dated
  <2>2. d \in Date /\ Validate(d)
    BY <2>1 DEF Settled
  <2>3. ASSUME d.kind = "circa" PROVE n.bandTier = d.unit
    <3>1. /\ d.date \in Seq(Nat) /\ Parses(d.date)
          /\ d.unit \in CircaUnit
      BY <2>1, <2>3 DEF Settled, Validate, Date
    <3>2. PICK c, half : c = Centre(d.date) /\ half = HalfWidth(d.unit) * TicksPerDay
      OBVIOUS
    <3>3. c \in Int
      <4>1. /\ Earliest(d.date) \in Int /\ Latest(d.date) \in Int
            /\ Earliest(d.date) <= Latest(d.date)
        BY <3>1, InstantsAreInYears
      <4> QED BY <3>2, <4>1, MidpointIsBetween DEF Centre
    <3>4. FixedBounds(d) = [earliest |-> c - half, latest |-> c + half]
      BY <2>3, <3>2 DEF FixedBounds
    <3>5. n.bandTier = BandTier(Sub(c + half, c - half))
      BY <2>1, <3>4 DEF Means, NormOf
    <3> QED BY <3>1, <3>2, <3>3, <3>5, CircaBand
  <2>4. ASSUME d.kind = "exact"
        PROVE  /\ n.bandTier = <<"year", "month", "month">>[Len(d.date)]
               /\ n.precision = <<"year", "month", "day">>[Len(d.date)]
    <3>1. d.date \in Seq(Nat) /\ Parses(d.date)
      BY <2>2, <2>4 DEF Validate, Date
    <3>2. FixedBounds(d) = [earliest |-> Earliest(d.date), latest |-> Latest(d.date)]
      BY <2>4 DEF FixedBounds
    <3>3. /\ n.bandTier = BandTier(Sub(Latest(d.date), Earliest(d.date)))
          /\ n.precision = Precision(Sub(Latest(d.date), Earliest(d.date)))
      BY <2>1, <3>2 DEF Means, NormOf
    <3> QED BY <3>1, <3>3, ExactBand
  <2>5. ASSUME IsRangeOfYears(d)
        PROVE  n.bandTier = CASE Years(d) = 1       -> "year"
                              [] Years(d) \in 2..5  -> "5-years"
                              [] Years(d) \in 6..10 -> "decade"
                              [] Years(d) > 10      -> "century"
    <3>1. FixedBounds(d) = [earliest |-> Earliest(d.start), latest |-> Latest(d.end)]
      BY <2>5 DEF FixedBounds, IsRangeOfYears
    <3>2. n.bandTier = BandTier(Sub(Latest(d.end), Earliest(d.start)))
      BY <2>1, <3>1 DEF Means, NormOf
    <3>3. BandTier(Sub(Latest(d.end), Earliest(d.start)))
             = CASE Years(d) = 1       -> "year"
                 [] Years(d) \in 2..5  -> "5-years"
                 [] Years(d) \in 6..10 -> "decade"
                 [] Years(d) > 10      -> "century"
      BY <2>2, <2>5, RangeBand
    <3> QED BY <3>2, <3>3, Zenon
  <2> QED BY <2>3, <2>4, <2>5, Zenon
<1>2. IInv => BandsHoldTheirUnits
  BY <1>1, Zenon DEF BandsHoldTheirUnits
<1> QED BY <1>2, DatesAreSettled, PTL
=============================================================================
