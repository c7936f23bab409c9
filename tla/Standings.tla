----------------------------- MODULE Standings ------------------------------
(***************************************************************************)
(* The group tables of the API (getStandings).  No table names the groups: *)
(* they are the connected components of "who played whom", and only proven *)
(* matches count.  A match is [home, away, proven, p1, p2] with an id;     *)
(* every match has both its teams, numbered in the order of their codes.   *)
(***************************************************************************)
EXTENDS Projection, Sums

CONSTANT Calendars   (* the group stages the database may hold             *)

ASSUME CalendarsAssumption ==
  \A matches \in Calendars :
    /\ IsFiniteSet(matches)
    /\ \A f \in matches : /\ {f.id, f.home, f.away, f.p1, f.p2} \subseteq Nat
                          /\ f.proven \in BOOLEAN /\ f.home # f.away

Teams(matches) == {f.home : f \in matches} \cup {f.away : f \in matches}

Opponents(matches, t) ==
  {f.away : f \in {g \in matches : g.home = t}}
    \cup {f.home : f \in {g \in matches : g.away = t}}

\* One team is popped; of its opponents those not seen before are pushed.  The
\* order of the stack is left out.
Popped(matches, s) ==
  LET cur == CHOOSE t \in s.stack : TRUE
      new == Opponents(matches, cur) \ s.seen
  IN  [stack |-> (s.stack \ {cur}) \cup new, comp |-> s.comp \cup {cur},
       seen |-> s.seen \cup new]

\* The search of one component, with as many turns as there are teams.
Search(matches, code, seen) ==
  LET after[k \in 0..Cardinality(Teams(matches))] ==
        IF k = 0 THEN [stack |-> {code}, comp |-> {}, seen |-> seen \cup {code}]
        ELSE IF after[k - 1].stack = {} THEN after[k - 1]
        ELSE Popped(matches, after[k - 1])
  IN  after[Cardinality(Teams(matches))]

\* Each team that is in no component yet starts one.
Groups(matches) ==
  LET found[k \in 0..Cardinality(Teams(matches))] ==
        IF k = 0 THEN {}
        ELSE LET rest == Teams(matches) \ UNION found[k - 1]
             IN  IF rest = {} THEN found[k - 1]
                 ELSE found[k - 1] \cup
                        {Search(matches, CHOOSE t \in rest : TRUE, UNION found[k - 1]).comp}
  IN  found[Cardinality(Teams(matches))]

-----------------------------------------------------------------------------
(* The table of a group *)

\* Mutant of Counted: a match without a proof counts with what it shows.
CountedAll(f) == TRUE

Counted(f) == f.proven

\* what one match adds to the row of team t.
Result(f, t) ==
  LET for     == IF t = f.home THEN f.p1 ELSE f.p2
      against == IF t = f.home THEN f.p2 ELSE f.p1
  IN  [played |-> 1, gf |-> for, ga |-> against,
       won |-> IF for > against THEN 1 ELSE 0,
       drawn |-> IF for = against THEN 1 ELSE 0,
       lost |-> IF for < against THEN 1 ELSE 0,
       points |-> IF for > against THEN 3 ELSE IF for = against THEN 1 ELSE 0]

Tally(matches, t, column) ==
  LET own == {f \in matches : Counted(f) /\ t \in {f.home, f.away}}
  IN  Sum([f \in own |-> Result(f, t)[column]], own)

TableRow(matches, t) ==
  LET Of(column) == Tally(matches, t, column)
  IN  [team |-> t, played |-> Of("played"), won |-> Of("won"), drawn |-> Of("drawn"),
       lost |-> Of("lost"), gf |-> Of("gf"), ga |-> Of("ga"),
       gd |-> Of("gf") - Of("ga"), points |-> Of("points")]

\* the order of a table; names decide between equals.
Above(x, y) ==
  \/ x.points > y.points
  \/ x.points = y.points /\ x.gd > y.gd
  \/ x.points = y.points /\ x.gd = y.gd /\ x.gf > y.gf
  \/ x.points = y.points /\ x.gd = y.gd /\ x.gf = y.gf /\ x.team < y.team

\* The matches of a group, and the rows of the teams that play in them.
Inside(matches, group) == {f \in matches : {f.home, f.away} \subseteq group}

Lines(matches, group) ==
  {TableRow(Inside(matches, group), t) : t \in Teams(Inside(matches, group))}

Table(matches, group) ==
  LET list == Lines(matches, group)
  IN  [n \in 1..Cardinality(list) |->
         CHOOSE x \in list : Cardinality({y \in list : y = x \/ Above(y, x)}) = n]

-----------------------------------------------------------------------------
(* Correctness *)

\* No match is played across a set of teams that has one of them and not the other.
Together(matches, s, t) ==
  \A C \in SUBSET Teams(matches) :
    s \in C /\ (\A f \in matches : f.home \in C <=> f.away \in C) => t \in C

\* Every team is in one group, and two teams are in the same one exactly if a chain
\* of matches joins them.
GroupsAreComponents ==
  \A matches \in Calendars :
    /\ UNION Groups(matches) = Teams(matches)
    /\ \A g, h \in Groups(matches) : g = h \/ g \cap h = {}
    /\ \A s, t \in Teams(matches) :
         (\E g \in Groups(matches) : {s, t} \subseteq g) <=> Together(matches, s, t)

\* A table has every team of its group once, with all its matches, in a strict order;
\* goals and points balance; and an unproven match changes nothing ("Unprovable
\* matches are counted as UNPLAYED", queries.ts:366).
TablesAddUp ==
  \A matches \in Calendars : \A g \in Groups(matches) :
    LET table   == Table(matches, g)
        counted == {f \in Inside(matches, g) : f.proven}
        All(column) == Sum([t \in g |-> Tally(matches, t, column)], g)
    IN  /\ DOMAIN table = 1..Cardinality(g)
        /\ {table[i] : i \in DOMAIN table} = {TableRow(matches, t) : t \in g}
        /\ \A i, j \in DOMAIN table : i < j => Above(table[i], table[j])
        /\ All("gf") = All("ga") /\ All("won") = All("lost")
        /\ All("played") = 2 * Cardinality(counted)
        /\ All("points") = 3 * All("won") + All("drawn")
        /\ \A t \in g : TableRow(matches, t) = TableRow(counted, t)

\* The fixture row as the standings read it.
Followed == [id |-> 1, home |-> 1, away |-> 2, proven |-> fixture.proof = "proven",
             p1 |-> IF fixture.score = Truth THEN 2 ELSE 0, p2 |-> 1]

\* "No group table is typed in by hand, so none can be wrong" (queries.ts:363-366):
\* they add up, and the followed match counts for nobody before a script has
\* stored it as proven, whatever scores the feed and the flushes brought.
TablesAreSound ==
  /\ GroupsAreComponents /\ TablesAddUp
  /\ ~declared => \A t \in 1..2 : TableRow({Followed}, t).played = 0
=============================================================================
