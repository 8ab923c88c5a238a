------------------------------- MODULE Dates -------------------------------
(***************************************************************************)
(* Dates in texts.  A memory's temporal references are read off its text   *)
(* and the day it was created (memory_refresh_temporal_refs); a query's    *)
(* constraint is read off its text and today                               *)
(* (memory_parse_temporal_constraint).  Two pieces of code work out what   *)
(* "3 days ago" means, and a memory is found when they agree.              *)
(*                                                                         *)
(* A token is a word, or a number with its digits.  Days are counted from  *)
(* 1 January 2023, a Sunday; timegm and gmtime go from a day to its date   *)
(* and back.  Numbers next to a month are at most 31.                      *)
(***************************************************************************)
EXTENDS Integers, Sequences, SequencesExt, FiniteSetsExt

CONSTANTS
  Sayings,     \* the texts memories and queries consist of
  Days,        \* bound: the days of a run
  Span         \* bound: how long after a memory a query is asked

VARIABLES
  today, born, \* today, and the day the memory was created
  said, refs,  \* the memory's text and its references
  asked, want, \* the query and its constraint
  hits         \* the references that meet it

vars == <<today, born, said, refs, asked, want, hits>>
-----------------------------------------------------------------------------
(* A date, to the year (1), the month (2) or the day (3), and the tokens it took. *)
Found(y, m, d, gran, used) == [y |-> y, m |-> m, d |-> d, gran |-> gran, used |-> used]
NoDate == Found(0, 0, 0, 0, 0)

Leap(y) == y % 4 = 0
YearStart(y) == 365 * (y - 2023) + (IF y > 2024 THEN 1 ELSE 0)
Cumulated == <<0, 31, 59, 90, 120, 151, 181, 212, 243, 273, 304, 334>>
MonthStart(y, m) == YearStart(y) + Cumulated[m] + IF Leap(y) /\ m > 2 THEN 1 ELSE 0
DayOf(d) == MonthStart(d.y, d.m) + d.d - 1
DateOf(n) ==
  LET y == CHOOSE y \in 2021 .. 2026 : YearStart(y) <= n /\ n < YearStart(y + 1)
      m == CHOOSE m \in 1 .. 12 : MonthStart(y, m) <= n /\ (m < 12 => n < MonthStart(y, m + 1))
  IN  Found(y, m, n - MonthStart(y, m) + 1, 3, 0)

Word(w, len) == [w |-> w, n |-> 0, len |-> len]
Num(n, len) == [w |-> "#", n |-> n, len |-> len]

MonthNames ==
  <<"january", "february", "march", "april", "may", "june", "july", "august", "september",
    "october", "november", "december", "jan", "feb", "mar", "apr", "jun", "jul", "aug", "sep",
    "sept", "oct", "nov", "dec">>
WeekdayNames ==
  <<"sunday", "monday", "tuesday", "wednesday", "thursday", "friday", "saturday">>

IsMonth(t) == Contains(MonthNames, t.w)
IsWeekday(t) == Contains(WeekdayNames, t.w)
IsNum(t) == t.w = "#"

(* "may" has no short form, so the short forms from "jun" to "sep" are one off. *)
MonthNumber(t) ==
  LET i == CHOOSE i \in DOMAIN MonthNames : MonthNames[i] = t.w
  IN  IF i <= 12 THEN i ELSE i - 12
Weekday(t) == (CHOOSE i \in DOMAIN WeekdayNames : WeekdayNames[i] = t.w) - 1

(* memory_parse_date_tokens *)
DateAt(ts, i) ==
  LET has(k) == i + k <= Len(ts)
      at(k) == ts[i + k]
      iso == /\ has(2) /\ \A k \in 0 .. 2 : IsNum(at(k))
             /\ at(0).len = 4 /\ at(1).len = 2 /\ at(2).len = 2
      monthDay == has(1) /\ IsMonth(at(0)) /\ IsNum(at(1)) /\ at(1).n > 0
      dayMonth == has(1) /\ IsNum(at(0)) /\ IsMonth(at(1)) /\ at(0).n > 0
      month == MonthNumber(IF IsMonth(at(0)) THEN at(0) ELSE at(1))
      day == IF IsMonth(at(0)) THEN at(1).n ELSE at(0).n
  IN  IF i > Len(ts) THEN NoDate
      ELSE IF iso THEN Found(at(0).n, at(1).n, at(2).n, 3, 3)
      ELSE IF (monthDay \/ dayMonth) /\ has(2) /\ IsNum(at(2)) /\ at(2).len = 4
        THEN Found(at(2).n, month, day, 3, 3)
      ELSE IF monthDay \/ dayMonth THEN Found(0, month, day, 2, 2)
      ELSE IF IsMonth(at(0)) THEN Found(0, MonthNumber(at(0)), 0, 2, 1)
      ELSE IF IsNum(at(0)) /\ at(0).len = 4 THEN Found(at(0).n, 0, 0, 1, 1)
      ELSE NoDate
-----------------------------------------------------------------------------
(* The references of a memory. *)
Ref(key, gran) == [key |-> key, gran |-> gran]
DayRef(n) ==
  LET d == DateOf(n) IN Ref(<<Num(d.y, 4), Num(d.m, 2), Num(d.d, 2)>>, "absolute_day")
DateRef(y, m, d) == Ref(<<Num(y, 4), Num(m, 2), Num(d, 2)>>, "absolute_day")

Is(ts, i, words) == i \in DOMAIN ts /\ ts[i].w \in words

DayWords(ts, i, day) ==
  IF ~Is(ts, i, {"today", "yesterday", "tomorrow"}) THEN {}
  ELSE {Ref(<<ts[i]>>, "relative"),
        DayRef(day + CASE ts[i].w = "yesterday" -> -1 [] ts[i].w = "tomorrow" -> 1 [] OTHER -> 0)}

MonthRefs(ts, i, day) ==
  IF ~IsMonth(ts[i]) THEN {}
  ELSE {Ref(<<ts[i]>>, "month")}
       \cup (IF i < Len(ts) /\ ts[i + 1].len <= 4
             THEN {Ref(<<ts[i], ts[i + 1]>>, "date_phrase")} ELSE {})
       \cup (IF i < Len(ts) /\ IsNum(ts[i + 1]) /\ ts[i + 1].n \in 1 .. 31
             THEN {DateRef(DateOf(day).y, MonthNumber(ts[i]), ts[i + 1].n)} ELSE {})

PlainRefs(ts, i) ==
  CASE IsWeekday(ts[i]) -> {Ref(<<ts[i]>>, "weekday")}
    [] IsNum(ts[i]) /\ ts[i].len = 4 -> {Ref(<<ts[i]>>, "year")}
    [] OTHER -> {}

MonthBefore(y, m) == IF m = 1 THEN [y |-> y - 1, m |-> 12] ELSE [y |-> y, m |-> m - 1]

(* "last week", "last month", "last year", "last Tuesday". *)
LastRefs(ts, i, day) ==
  LET now == DateOf(day)
      before == MonthBefore(now.y, now.m)
      back == ((day % 7) - Weekday(ts[i + 1])) % 7
  IN  IF ~(Is(ts, i, {"last"}) /\ i < Len(ts)) THEN {}
      ELSE CASE Is(ts, i + 1, {"week"}) -> {DayRef(day - 7), Ref(<<ts[i], ts[i + 1]>>, "relative_phrase")}
             [] Is(ts, i + 1, {"month"}) ->
                  {DateRef(before.y, before.m, 1), Ref(<<ts[i], ts[i + 1]>>, "relative_phrase")}
             [] Is(ts, i + 1, {"year"}) ->
                  {Ref(<<Num(now.y - 1, 4)>>, "year"), Ref(<<ts[i], ts[i + 1]>>, "relative_phrase")}
             [] IsWeekday(ts[i + 1]) -> {DayRef(day - (IF back = 0 THEN 7 ELSE back))}
             [] OTHER -> {}

OrderRefs(ts, i) ==
  (IF Is(ts, i, {"before", "after", "during", "first", "last", "recently"})
   THEN {Ref(<<ts[i]>>, "relative")} ELSE {})
  \cup (IF Is(ts, i, {"before", "after", "during"}) /\ i < Len(ts)
        THEN {Ref(<<ts[i], ts[i + 1]>>, "ordering")} ELSE {})

(* The "between" of the code stands inside the branch of the words of OrderRefs, which it *)
(* is not one of: no range is ever stored. *)

MonthsBack(date, n) ==
  LET index == date.y * 12 + date.m - 1 - n IN [y |-> index \div 12, m |-> (index % 12) + 1]

AgoRefs(ts, i, day) ==
  IF ~(Is(ts, i + 2, {"ago"}) /\ IsNum(ts[i]) /\ ts[i].n > 0) \/ ts[i].len = 4 THEN {}
  ELSE LET back == MonthsBack(DateOf(day), ts[i].n)
           d == DateOf(day).d
           at == CASE Is(ts, i + 1, {"day", "days"}) -> {DayRef(day - ts[i].n)}
                   [] Is(ts, i + 1, {"week", "weeks"}) -> {DayRef(day - 7 * ts[i].n)}
                   [] Is(ts, i + 1, {"month", "months"}) ->
                        {DateRef(back.y, back.m, IF d > 28 THEN 28 ELSE d)}
                   [] OTHER -> {}
       IN  IF at = {} THEN {} ELSE at \cup {Ref(<<ts[i + 2]>>, "relative")}

(* memory_refresh_temporal_refs, of a memory created on that day. *)
TemporalRefs(ts, day) ==
  UNION {DayWords(ts, i, day) \cup MonthRefs(ts, i, day) \cup PlainRefs(ts, i)
         \cup LastRefs(ts, i, day) \cup OrderRefs(ts, i) \cup AgoRefs(ts, i, day)
         : i \in DOMAIN ts}
-----------------------------------------------------------------------------
(* The constraint of a query. *)
Constraint(mode, first, second) == [mode |-> mode, first |-> first, second |-> second]
NoConstraint == Constraint("none", NoDate, NoDate)
Match(d) == Constraint("match", d, NoDate)

(* memory_add_months from day 0 of a month: the day becomes 1, and the date one of a day. *)
AddMonths(day, n) ==
  LET at == MonthsBack(DateOf(day), -n) IN Found(at.y, at.m, 1, 3, 0)

(* Mutant: the week begins on its Sunday. *)
SundayWeek(day) == day - (day % 7)

WeekStart(day) == day - (IF day % 7 = 0 THEN 6 ELSE (day % 7) - 1)

(* "last" and "next"; {} if the words mean nothing. *)
Beside(ts, i, day) ==
  LET delta == IF ts[i].w = "last" THEN -1 ELSE 1
  IN  IF ~(Is(ts, i, {"last", "next"}) /\ i < Len(ts)) THEN {}
      ELSE CASE Is(ts, i + 1, {"week"}) ->
                  {Constraint("between", DateOf(WeekStart(day) + 7 * delta),
                              DateOf(WeekStart(day) + 7 * delta + 6))}
             [] Is(ts, i + 1, {"month"}) -> {Match(AddMonths(day, delta))}
             [] Is(ts, i + 1, {"year"}) -> {Match(Found(DateOf(day).y + delta, 0, 0, 1, 0))}
             [] IsWeekday(ts[i + 1]) ->
                  {Match(DateOf(day + Weekday(ts[i + 1]) - (day % 7) + 7 * delta))}
             [] OTHER -> {}

Ago(ts, i, day) ==
  IF ~(Is(ts, i + 2, {"ago"}) /\ IsNum(ts[i]) /\ ts[i].n > 0) THEN {}
  ELSE CASE Is(ts, i + 1, {"day", "days"}) -> {Match(DateOf(day - ts[i].n))}
         [] Is(ts, i + 1, {"week", "weeks"}) -> {Match(DateOf(day - 7 * ts[i].n))}
         [] Is(ts, i + 1, {"month", "months"}) -> {Match(AddMonths(day, -ts[i].n))}
         [] OTHER -> {}

(* memory_parse_relative_temporal_constraint, at a place. *)
Relative(ts, i, day) ==
  CASE Is(ts, i, {"today"}) -> {Match(DateOf(day))}
    [] Is(ts, i, {"yesterday"}) -> {Match(DateOf(day - 1))}
    [] Is(ts, i, {"tomorrow"}) -> {Match(DateOf(day + 1))}
    [] OTHER -> IF Beside(ts, i, day) # {} THEN Beside(ts, i, day) ELSE Ago(ts, i, day)

AfterAnd(ts, i) ==
  LET rest == {k \in i .. Len(ts) : ts[k].w # "and"} IN IF rest = {} THEN Len(ts) + 1 ELSE Min(rest)

(* The words that order dates, at a place. *)
Ordered(ts, i) ==
  LET first == DateAt(ts, i + 1)
      second == DateAt(ts, AfterAnd(ts, i + 1 + first.used))
  IN  IF first = NoDate THEN {}
      ELSE CASE Is(ts, i, {"between"}) ->
                  IF second = NoDate THEN {} ELSE {Constraint("between", first, second)}
             [] Is(ts, i, {"before", "until"}) -> {Constraint("before", first, NoDate)}
             [] Is(ts, i, {"after", "since"}) -> {Constraint("after", first, NoDate)}
             [] OTHER -> {}

(* What the first place says that says anything. *)
FirstPlace(says) ==
  LET places == {i \in DOMAIN says : says[i] # {}}
  IN  IF places = {} THEN {} ELSE says[Min(places)]

(* memory_parse_temporal_constraint: what is relative to today before all else, then the *)
(* words that order, then any date. *)
ConstraintOf(ts, day) ==
  LET relative == FirstPlace([i \in DOMAIN ts |-> Relative(ts, i, day)])
      ordered == FirstPlace([i \in DOMAIN ts |-> Ordered(ts, i)])
      dated == [i \in DOMAIN ts |-> IF DateAt(ts, i) = NoDate THEN {} ELSE {Match(DateAt(ts, i))}]
      plain == FirstPlace(dated)
      found == CASE relative # {} -> relative [] ordered # {} -> ordered [] OTHER -> plain
  IN  IF found = {} THEN NoConstraint ELSE CHOOSE c \in found : TRUE

(* memory_date_compare: to the coarser of the two precisions. *)
Compare(a, b) ==
  LET sign(x, y) == IF x < y THEN -1 ELSE IF x > y THEN 1 ELSE 0
      precision == IF a.gran < b.gran THEN a.gran ELSE b.gran
  IN  IF a.y # b.y \/ precision = 1 THEN sign(a.y, b.y)
      ELSE IF a.m # b.m \/ precision = 2 THEN sign(a.m, b.m)
      ELSE sign(a.d, b.d)

(* memory_temporal_constraint_score is positive. *)
Meets(c, d) ==
  CASE c.mode = "match" -> Compare(d, c.first) = 0
    [] c.mode = "before" -> Compare(d, c.first) < 0
    [] c.mode = "after" -> Compare(d, c.first) > 0
    [] c.mode = "between" -> Compare(d, c.first) >= 0 /\ Compare(d, c.second) <= 0
    [] OTHER -> FALSE

(* memory_parse_temporal_ref_date and the loop of memory_temporal_bonus. *)
Hits(c, some) == {r \in some : DateAt(r.key, 1) # NoDate /\ Meets(c, DateAt(r.key, 1))}
-----------------------------------------------------------------------------
Init ==
  /\ said \in Sayings /\ born \in Days
  /\ today = born /\ refs = TemporalRefs(said, born)
  /\ asked = <<>> /\ want = NoConstraint /\ hits = {}

Sleep ==
  /\ today < born + Span
  /\ today' = today + 1
  /\ asked' = <<>> /\ want' = NoConstraint /\ hits' = {}
  /\ UNCHANGED <<born, said, refs>>

Ask(query) ==
  /\ asked = <<>>
  /\ asked' = query /\ want' = ConstraintOf(query, today) /\ hits' = Hits(want', refs)
  /\ UNCHANGED <<today, born, said, refs>>

Next == Sleep \/ \E query \in Sayings : Ask(query)

Spec == Init /\ [][Next]_vars
-----------------------------------------------------------------------------
\* A constraint and the references it meets are of the query and the memory at hand.
TypeOK == hits \subseteq refs /\ today \in born .. born + Span

(* The day a text points to; the texts that point to one. *)
Denotes(ts, day) ==
  CASE ts[1].w = "today" -> {day} [] ts[1].w = "yesterday" -> {day - 1}
    [] ts[1].w = "tomorrow" -> {day + 1}
    [] Is(ts, 2, {"days"}) -> {day - ts[1].n} [] Is(ts, 2, {"weeks"}) -> {day - 7 * ts[1].n}
    [] OTHER -> {}

\* A memory whose text points to a day relative to its creation is found by a query that
\* points to the same day relative to today, and by no query that points to another.
SameDayIsFound ==
  \A a \in Denotes(said, born) : \A q \in (IF asked = <<>> THEN {} ELSE Denotes(asked, today)) :
    a = q <=> hits # {}

\* "last week" is found a week later by the days of that week, Monday to Sunday, and by no
\* others.
LastWeekIsAWeek ==
  asked # <<>> /\ Is(asked, 2, {"week"}) /\ asked[1].w = "last" =>
    \A a \in Denotes(said, born) : ((a - 1) \div 7 = (today - 8) \div 7) <=> hits # {}

\* "last week", "last month" and "last year", said and asked on the same day, meet.
LastAgrees ==
  asked = said /\ today = born /\ Is(said, 1, {"last"}) /\ Is(said, 2, {"week", "month", "year"})
    => hits # {}
=============================================================================
