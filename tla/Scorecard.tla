------------------------------ MODULE Scorecard ------------------------------
(***************************************************************************)
(* What a validation scorecard says of the sessions of a historical replay *)
(* (engine/validation/scorecard_engine.py and regime_policy.py): labels of *)
(* the market, totals, percentiles, and how each session did, both against *)
(* all sessions and against those before it.                               *)
(*                                                                         *)
(* Dollars count cents, percentages and the levels the labels depend on    *)
(* hundredths, days are numbers.  The normalized vectors of a scorecard    *)
(* are a function of the same sessions and no decision rests on them: they *)
(* are left out.                                                           *)
(***************************************************************************)
EXTENDS Integers, Sequences, FiniteSets, FiniteSetsExt, SequencesExt

CONSTANTS
  Absent,
  MINIMUM_BENCHMARK   \* observations a percentile takes: 10 in the code

\* SessionPerformanceFact: what a session made, and the market it had.
SessionFacts ==
  [day : Nat, pnl : Int, drawdown : Nat,
   trades : Nat, winning : Nat, losing : Nat, breakeven : Nat,
   market_return : Int, vix : Int \cup {Absent}, rate_change : Int \cup {Absent},
   event_count : Nat]

\* SessionPerformanceFact.validate_counts_and_cents
Reconciles(f) == f.trades = f.winning + f.losing + f.breakeven

\* RegimePolicyV1.classify; the labels overlap.
classify(f) ==
  {IF f.market_return >= 100 THEN "BULL" ELSE IF f.market_return <= -100 THEN "BEAR"
   ELSE "SIDEWAYS"}
  \cup {l \in {"HIGH_VOL"} : f.vix # Absent /\ f.vix >= 2500}
  \cup {l \in {"LOW_VOL"} : f.vix # Absent /\ f.vix <= 1500}
  \cup {l \in {"RATE_SHOCK"} :
          f.rate_change # Absent /\ (f.rate_change >= 2500 \/ f.rate_change <= -2500)}
  \cup {l \in {"EVENT_HEAVY"} : f.event_count >= 3}

Regimes == {"BULL", "BEAR", "HIGH_VOL", "LOW_VOL", "RATE_SHOCK", "EVENT_HEAVY", "SIDEWAYS"}

\* The sessions' results, in the order of the sessions.
Results(facts) == [i \in DOMAIN facts |-> facts[i].pnl]

\* sorted: the k-th is the least value that no less than k of them reach up to.
Ordered(values) ==
  [k \in DOMAIN values |->
     Min({v \in Range(values) : k <= Cardinality({i \in DOMAIN values : values[i] <= v})})]

\* distribution: a percentile of sorted values, between the two nearest ones,
\* in hundredths of a cent.
Percentile(ordered, percent) ==
  LET position == percent * (Len(ordered) - 1)
      low == position \div 100
      high == IF low + 1 < Len(ordered) THEN low + 1 ELSE low
  IN 100 * ordered[low + 1] + (ordered[high + 1] - ordered[low + 1]) * (position % 100)

Percents == <<10, 25, 50, 75, 90, 99>>

distribution(values) ==
  IF Len(values) < MINIMUM_BENCHMARK
  THEN [sample_count |-> Len(values), status |-> "INSUFFICIENT_EVIDENCE", percentiles |-> << >>]
  ELSE [sample_count |-> Len(values), status |-> "SUFFICIENT",
        percentiles |-> [i \in 1..6 |-> Percentile(Ordered(values), Percents[i])]]

\* The share of the benchmark that is not above the value, rounded half up.
percentile_rank(value, benchmark) ==
  LET count == Cardinality({i \in DOMAIN benchmark : benchmark[i] <= value})
      n == Len(benchmark)
  IN IF n < MINIMUM_BENCHMARK THEN Absent ELSE (20000 * count + n) \div (2 * n)

performance_band(rank) ==
  IF rank = Absent THEN Absent
  ELSE IF rank >= 9000 THEN "EXCEPTIONAL"
  ELSE IF rank >= 7500 THEN "STRONG"
  ELSE IF rank >= 4000 THEN "NOMINAL"
  ELSE IF rank >= 1000 THEN "COMPROMISED"
  ELSE "CRITICAL"

\* What a session may be compared with as of its day: the sessions before it.
AsOf(values, i) == SubSeq(values, 1, i - 1)

\* _distributions: the whole sample first, then one as of every session.
Distributions(facts) ==
  <<distribution(Results(facts))>>
    \o [i \in DOMAIN facts |-> distribution(AsOf(Results(facts), i))]

\* _bands
Bands(facts) ==
  LET all == Results(facts) IN
  [i \in DOMAIN facts |->
     LET retrospective == percentile_rank(all[i], all)
         as_of == percentile_rank(all[i], AsOf(all, i))
     IN [retrospective |-> performance_band(retrospective), as_of_percentile |-> as_of,
         as_of |-> performance_band(as_of), labels |-> classify(facts[i])]]

\* The sum of a number of each session.
Sum(number(_), facts) == MapThenSumSet(LAMBDA i : number(facts[i]), DOMAIN facts)

\* The longest run of sessions in a row that lost.
LongestLosingStreak(facts) ==
  Max({n \in 0..Len(facts) :
         n = 0 \/ \E i \in 1..(Len(facts) - n + 1) : \A k \in i..(i + n - 1) : facts[k].pnl < 0})

\* _summary
Summary(facts) ==
  LET gross_profit == Sum(LAMBDA f : IF f.pnl > 0 THEN f.pnl ELSE 0, facts)
      gross_loss == Sum(LAMBDA f : IF f.pnl < 0 THEN 0 - f.pnl ELSE 0, facts)
  IN [total_sessions |-> Len(facts), total_trades |-> Sum(LAMBDA f : f.trades, facts),
      winning_trades |-> Sum(LAMBDA f : f.winning, facts),
      gross_profit |-> gross_profit, gross_loss |-> gross_loss, net |-> gross_profit - gross_loss,
      max_drawdown |-> Max({facts[i].drawdown : i \in DOMAIN facts}),
      longest_losing_streak |-> LongestLosingStreak(facts)]

\* _slices: the sessions of a label on their own, for the labels that occur.
Slices(facts) ==
  LET Has(l) == SelectSeq(facts, LAMBDA f : l \in classify(f))
  IN [l \in {l \in Regimes : Has(l) # << >>} |-> Summary(Has(l))]

\* Sessions as the engine takes them: some, one a day, in order.
Chronicle(facts) ==
  /\ facts # << >>
  /\ \A i \in DOMAIN facts : Reconciles(facts[i])
  /\ \A i \in 1..(Len(facts) - 1) : facts[i].day < facts[i + 1].day

\* The rows of a scorecard, and the manifest that commits them.  The manifest
\* covers all of it: facts and executed_at say as much here.
ScorecardOf(facts, at) ==
  [manifest |-> [facts |-> facts, executed_at |-> at],
   first |-> facts[1].day, last |-> facts[Len(facts)].day,
   summary |-> Summary(facts), slices |-> Slices(facts),
   distributions |-> Distributions(facts), bands |-> Bands(facts)]

=============================================================================
