------------------------- MODULE EntitlementWindows --------------------------
(***************************************************************************)
(* The window arithmetic of entitlements: when a duration preset ends, where  *)
(* a new purchase starts while its product is still covered, and which later *)
(* purchases move up when an earlier one is taken away.                       *)
(*                                                                          *)
(* An instant is a whole UTC day, counted from 1 January 2025; the time of   *)
(* day is left out. A month is counted from January 2025 as well.            *)
(***************************************************************************)
EXTENDS Naturals, SequencesExt

\* A null expiresAt. No window ends on day 0, so 0 is free to mean it.
Forever == 0
\* DurationPreset: the months it stands for, none for LIFETIME.
Lifetime == 0
Presets == {Lifetime, 1, 3, 6, 12}

\* The first day of a month. The third year, 2028, and every fourth year after
\* it has a 29 February; the calendar leaves one out only in 2100.
BeforeMonth == <<0, 31, 59, 90, 120, 151, 181, 212, 243, 273, 304, 334>>
FirstDay(month) ==
  LET year == month \div 12
      before == month % 12
  IN  365 * year + (year \div 4) + BeforeMonth[before + 1]
        + (IF year % 4 = 3 /\ before >= 2 THEN 1 ELSE 0)

\* No month is shorter than 28 days.
MonthOf(day) == Max({month \in 0..(day \div 28): FirstDay(month) <= day})

\* setUTCMonth keeps the day of the month, and runs over into the next month
\* when there is no such day: 31 January and one month is 3 March.
ExpiresAt(duration, start) ==
  IF duration = Lifetime THEN Forever
  ELSE FirstDay(MonthOf(start) + duration) + (start - FirstDay(MonthOf(start)))

\* ends holds the expiresAt of the rows that overlap now.
StackWindow(duration, now, ends) ==
  LET anchor == Max({now} \cup {end \in ends: end > now})
  IN  IF duration = Lifetime \/ Forever \in ends
        THEN [startsAt |-> now, expiresAt |-> Forever]
        ELSE [startsAt |-> anchor, expiresAt |-> ExpiresAt(duration, anchor)]

\* A walk goes over groups [order, startsAt, expiresAt, duration], one purchase
\* each: cursor is the end of the cover so far, done an end that never comes.
Cover(walk, group, cursor) ==
  IF group.expiresAt = Forever THEN [walk EXCEPT !.done = TRUE]
                               ELSE [walk EXCEPT !.cursor = cursor]

MoveUp(walk, group) ==
  LET end == ExpiresAt(group.duration, walk.cursor)
      plan == [order |-> group.order, previousStartsAt |-> group.startsAt,
               startsAt |-> walk.cursor, expiresAt |-> end]
  IN  [cursor |-> end, done |-> end = Forever,
       plans |-> Append(walk.plans, plan)]

\* Mutant: a future group is moved to the cursor even when that is later.
ReanchorOne_MovesLater(now, walk, group) ==
  IF walk.done THEN walk
  ELSE IF group.startsAt <= now
    THEN Cover(walk, group, Max({walk.cursor, group.expiresAt}))
  ELSE MoveUp(walk, group)

ReanchorOne(now, walk, group) ==
  IF walk.done THEN walk
  ELSE IF group.startsAt <= now
    THEN Cover(walk, group, Max({walk.cursor, group.expiresAt}))
  ELSE IF walk.cursor >= group.startsAt THEN Cover(walk, group, group.expiresAt)
  ELSE MoveUp(walk, group)

\* reanchorEntitlementGroups: the moves, the groups taken in order of their starts.
Latest(groups) == CHOOSE g \in groups: \A h \in groups: h.startsAt <= g.startsAt

Reanchor(groups, now) ==
  MapThenFoldSet(LAMBDA group, walk: ReanchorOne(now, walk, group),
                 [cursor |-> now, done |-> FALSE, plans |-> <<>>],
                 LAMBDA group: group, Latest, groups).plans
=============================================================================
