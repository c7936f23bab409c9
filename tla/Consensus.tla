------------------------------ MODULE Consensus -----------------------------
(***************************************************************************)
(* Sharp against crowd: the consensus line taken from the odds feed, the   *)
(* snapshots that record it next to the pools, and the series the site     *)
(* reads from them.  Probabilities are per mille, a consensus is its three *)
(* values and their sum, by which they are to be divided.                  *)
(***************************************************************************)
EXTENDS Feeds, Sequences, Sums

CONSTANTS
  None,         (* no percentages, no line                                   *)
  Odds,         (* the demargined probabilities TxLINE may publish           *)
  Quotations,   (* the lists of quotes it may answer with                    *)
  PoolShapes    (* the pools of a market with three outcomes                 *)

\* The order of the 1X2 market's outcomes, and those a row may have them in.
Names  == <<"part1", "draw", "part2">>
Orders == {f \in [1..3 -> 1..3] : \A i, j \in 1..3 : f[i] = f[j] => i = j}

Quote == [type : {"1X2", "other"}, demargined : BOOLEAN, ts : Nat, order : Orders,
          odds : Odds, pct : BOOLEAN]

\* A probability of one, in the unit of the prices: its inverse per mille.
Unity == 1000000

\* The row of the feed that quotes them, with its own percentages or without.
Row(q) ==
  [type |-> q.type, demargined |-> q.demargined, ts |-> q.ts,
   names |-> [i \in 1..3 |-> Names[q.order[i]]],
   prices |-> [i \in 1..3 |-> Unity \div q.odds[q.order[i]]],
   pct |-> IF q.pct THEN [i \in 1..3 |-> q.odds[q.order[i]]] ELSE None]

ASSUME OddsAssumption ==
  \A p \in Odds : p \in [1..3 -> 1..1000] /\ p[1] + p[2] + p[3] = 1000
ASSUME QuotationsAssumption == Quotations \subseteq Seq(Quote)
ASSUME PoolsAssumption == PoolShapes \subseteq [1..3 -> Nat]
ASSUME NoneAssumption ==
  /\ None \notin [1..3 -> Int]
  /\ None \notin [pct : [1..3 -> Int], sum : Int, ts : Int]

IsConsensusBook(r) ==
  r.type = "1X2" /\ r.demargined /\ Len(r.prices) = 3

\* Where a name stands in a row, or 0.
IndexOf(r, name) == LET at == {i \in DOMAIN r.names : r.names[i] = name}
                    IN  IF at = {} THEN 0 ELSE CHOOSE i \in at : \A j \in at : i <= j

\* TxLINE's own percentage of a price, or the inverse of the price.
Implied(r, i) == IF r.pct = None THEN Unity \div r.prices[i] ELSE r.pct[i]

Added(p) == p[1] + p[2] + p[3]

\* Mutant of Aligned: the prices are taken in the row's own order.
AlignedAsListed(r) == [i \in 1..3 |-> Implied(r, i)]

Aligned(r) == [i \in 1..3 |-> Implied(r, IndexOf(r, Names[i]))]

\* The line of a row that names the three outcomes, if they add up to about one.
LineOf(r) ==
  IF (\E i \in 1..3 : IndexOf(r, Names[i]) = 0) \/ Added(Aligned(r)) \notin 900..1150
  THEN None
  ELSE [pct |-> Aligned(r), sum |-> Added(Aligned(r)), ts |-> r.ts]

\* The newest row of the consensus book; of several as new, the first.
Newest(rows) ==
  LET book == {i \in DOMAIN rows : IsConsensusBook(rows[i])}
  IN  {i \in book : \A j \in book :
         rows[j].ts < rows[i].ts \/ (rows[j].ts = rows[i].ts /\ i <= j)}

consensusFor1x2(rows) ==
  IF Newest(rows) = {} THEN None ELSE LineOf(rows[CHOOSE i \in Newest(rows) : TRUE])

-----------------------------------------------------------------------------
(* The snapshots, each of a market's pools and perhaps the line *)

Snapshot(m, pools, line) == [market |-> m, pools |-> pools, line |-> line]

\* The line goes to a market with three outcomes, whichever market it is.
LineFor(pools, c) == IF Len(pools) = 3 THEN c ELSE None

\* One tick off the stream: the fixture's open and locked markets.
recordOddsTick(markets, row) ==
  LET c == consensusFor1x2(<<row>>)
  IN  IF c = None THEN {}
      ELSE {Snapshot(m, markets[m].pools, c) : m \in
              {n \in DOMAIN markets : /\ markets[n].status \in {"open", "locked"}
                                      /\ Len(markets[n].pools) = 3}}

\* The timer's poll, near kickoff: the crowd is recorded with the line or
\* without.
syncOdds(markets, rows, near) ==
  LET c == consensusFor1x2(rows)
  IN  {Snapshot(m, markets[m].pools, LineFor(markets[m].pools, c)) : m \in
         {n \in DOMAIN markets : near /\ markets[n].status \in {"open", "locked"}}}

\* The projection saw another total: the crowd alone.
PoolSnapshot(m, pools) == Snapshot(m, pools, None)

-----------------------------------------------------------------------------
(* The series, and what the site says of it *)

Total(pools) == Sum(pools, DOMAIN pools)

crowdImplied(pools) ==
  [i \in DOMAIN pools |-> IF Total(pools) = 0 THEN 0
                          ELSE (1000 * pools[i]) \div Total(pools)]

\* The snapshots with a line, and the newest line recorded.
Lined(series) == {i \in DOMAIN series : series[i].line # None}

Sharp(series) ==
  IF Lined(series) = {} THEN None
  ELSE series[CHOOSE i \in Lined(series) : \A j \in Lined(series) : j <= i].line

Share(line, i) == (1000 * line.pct[i]) \div line.sum

\* latest of getOddsSeries: the crowd now against the newest line.
Divergence(series, pools) ==
  IF Sharp(series) = None THEN None
  ELSE [i \in DOMAIN pools |-> crowdImplied(pools)[i] - Share(Sharp(series), i)]

Favourite(p) == CHOOSE i \in DOMAIN p : \A j \in DOMAIN p :
                  p[j] < p[i] \/ (p[j] = p[i] /\ i <= j)

Gap(x) == IF x < 0 THEN -x ELSE x

\* readMarket: whether crowd and line agree, the outcome they differ most on,
\* unless by less than a point, and how far the line has moved on it.
readMarket(series, pools) ==
  LET line  == Sharp(series)
      first == CHOOSE i \in Lined(series) : \A j \in Lined(series) : i <= j
      gaps  == [i \in DOMAIN pools |-> Gap(Divergence(series, pools)[i])]
      edge  == Favourite(gaps)
      sharp == [i \in DOMAIN pools |-> Share(line, i)]
  IN  IF line = None THEN [sharp |-> FALSE]
      ELSE [sharp |-> TRUE,
            agree |-> Favourite(crowdImplied(pools)) = Favourite(sharp),
            edge  |-> IF gaps[edge] < 10 THEN 0 ELSE edge,
            drift |-> IF Cardinality(Lined(series)) < 2 THEN 0
                      ELSE sharp[edge] - Share(series[first].line, edge)]

-----------------------------------------------------------------------------
(* Correctness properties *)

\* What is shown as the probability of an outcome is what the feed says of that
\* outcome, to a fifth of a percent: in whatever order the row lists them, with or
\* without percentages, and of all rows from one of the newest that has no margin.
LineIsTheOutcomes ==
  \A quotes \in Quotations :
    LET line == consensusFor1x2([i \in DOMAIN quotes |-> Row(quotes[i])])
        book == {i \in DOMAIN quotes : quotes[i].type = "1X2" /\ quotes[i].demargined}
    IN  IF book = {} THEN line = None
        ELSE \E i \in book :
               /\ \A j \in book : quotes[j].ts <= quotes[i].ts
               /\ line # None /\ line.ts = quotes[i].ts
               /\ \A k \in 1..3 :
                    Share(line, k) \in (quotes[i].odds[k] - 2)..(quotes[i].odds[k] + 2)

\* A bet records the crowd alone, and so does a poll that finds the odds gone:
\* neither makes the site forget the line it has, or read another edge into it.
LineOutlivesTheBets ==
  \A pools, later \in PoolShapes, quotes \in Quotations : \A k \in DOMAIN quotes :
    LET market == [m \in {"m"} |-> [status |-> "open", pools |-> pools]]
        tick   == recordOddsTick(market, Row(quotes[k]))
        polled == syncOdds(market, <<>>, TRUE)
    IN  \A t \in tick, p \in polled :
          LET series == <<t, PoolSnapshot("m", later), p>>
          IN  /\ Divergence(series, pools) = Divergence(<<t>>, pools)
              /\ readMarket(series, pools) = readMarket(<<t>>, pools)
              /\ readMarket(<<t, t>>, pools).drift = 0

\* While the keeper records odds the line that is shown is the feed's, and stays.
LineIsSound == process = "running" => LineIsTheOutcomes /\ LineOutlivesTheBets
=============================================================================
