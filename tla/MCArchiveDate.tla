---------------------------- MODULE MCArchiveDate ----------------------------
(***************************************************************************)
(* Dates at both ends of the calendar, around leap days, and five and ten  *)
(* years with as many leap days as fit in them.                            *)
(***************************************************************************)
EXTENDS ArchiveDate

MCYears == {<<0>>, <<1700>>, <<1996>>, <<2000>>, <<2005>>, <<9999>>}
MCPartial == MCYears \cup
    {<<2000, 2>>, <<2000, 4>>, <<2000, 2, 29>>, <<9999, 12, 31>>}
MCUnparsable == {<<>>, <<1900, 2, 29>>, <<2000, 13>>, <<2000, 1, 1, 1>>}

MCExact(p) == [kind |-> "exact", date |-> p, start |-> <<>>, end |-> <<>>, unit |-> ""]
MCCirca(p, u) == [kind |-> "circa", date |-> p, start |-> <<>>, end |-> <<>>, unit |-> u]
MCRange(p, q) == [kind |-> "range", date |-> <<>>, start |-> p, end |-> q, unit |-> ""]

MCBody ==
    {MCExact(p) : p \in MCPartial \cup MCUnparsable}
    \cup {MCCirca(p, u) : p \in MCPartial, u \in {"", "month", "century"}}
    \cup {MCCirca(<<2000, 2>>, u) : u \in CircaUnit \cup {"decades"}}
    \cup {MCRange(p, q) : p \in MCPartial, q \in MCPartial}
    \cup {[MCExact(<<2000>>) EXCEPT !.start = <<1996>>],
          [MCExact(<<2000>>) EXCEPT !.unit = "year"],
          [MCRange(<<1996>>, <<2000>>) EXCEPT !.date = <<1996>>],
          [MCCirca(<<2000>>, "") EXCEPT !.kind = ""],
          [MCCirca(<<2000>>, "") EXCEPT !.kind = "whenever"]}

MCWindow == {DaysBefore(y) : y \in {1, 1700, 1996, 2005, 2006}} \cup {DaysBefore(2000) + 60}

MCLaterRule == {<<"decade", "year", "3-months">>}
=============================================================================
