---------------------------- MODULE ResearchScores ----------------------------
(***************************************************************************)
(* How the research surface scores predictions: the predictors of          *)
(* evaluation/research_predictors.py, the execution costs of execution.py, *)
(* the outcome rule of replay_stats.py and the tables and the verdict of   *)
(* research_analysis.py.  Prices are counted in points, spreads in even    *)
(* numbers of points; None stands for a missing number.                    *)
(***************************************************************************)
EXTENDS Integers, FiniteSets, FiniteSetsExt

CONSTANTS Half,     \* the price 0.5
          FlatEps,  \* FLAT_EPS
          SlipCap,  \* SLIPPAGE_CAP
          Impact,   \* SLIPPAGE_COEFF * STANDARD_STAKE
          MinSample \* MIN_PROSPECTIVE_SAMPLE

ASSUME ScoresAssumption == FlatEps \in Nat /\ SlipCap \in Nat /\ Impact \in Nat

None == -1
Known(x) == x # None
Call == {"up", "down"}    \* a directional call; "none" is no call
Size(x) == IF x < 0 THEN -x ELSE x

-----------------------------------------------------------------------------
(* The predictors.  Each reads only what an entry froze.                   *)

(* _implied: the side of one half the frozen price is on. *)
Implied(e) == IF ~Known(e.price) THEN "none" ELSE IF e.price > Half THEN "up" ELSE "down"

(* _first: the first of two readings that is a call. *)
FirstCall(a, b) == IF a \in Call THEN a ELSE b

Baselines(e) ==
    [always_up       |-> "up",
     always_down     |-> "down",
     momentum        |-> e.momentum,
     price_z_only    |-> e.momentum,
     current_implied |-> Implied(e),
     order_book_only |-> e.book,
     trade_flow_only |-> e.flow,
     full_arepo      |-> e.direction,
     full_arepo_no_momentum |-> FirstCall(e.book, e.flow)]

Ablations(e) ==
    [full_model         |-> e.direction,
     without_price      |-> FirstCall(e.book, e.flow),
     without_momentum   |-> FirstCall(e.book, e.flow),
     without_order_book |-> FirstCall(e.momentum, e.flow),
     without_trade_flow |-> FirstCall(e.momentum, e.book),
     price_only         |-> e.momentum,
     momentum_only      |-> e.momentum,
     order_book_only    |-> e.book,
     trade_flow_only    |-> e.flow]

-----------------------------------------------------------------------------
(* One observation o is an entry with the quote seen at a horizon.         *)
HasMove(o) == Known(o.entry.mid) /\ Known(o.mid)
Move(o) == o.mid - o.entry.mid
Signed(call, o) == IF call = "up" THEN Move(o) ELSE -Move(o)

(* classify_directional: a small move is flat whatever was called. *)
Outcome(call, o) ==
    CASE ~HasMove(o) -> "pending"
      [] HasMove(o) /\ Size(Move(o)) <= FlatEps -> "flat"
      [] HasMove(o) /\ Size(Move(o)) > FlatEps /\ call \notin Call -> "abstained"
      [] OTHER -> IF (Move(o) > 0) = (call = "up") THEN "correct" ELSE "incorrect"

(* slippage_points and _spread_cross: the cost of one side of a trade. *)
Costable(depth) == Known(depth) /\ depth > 0
Slippage(depth) == Min({SlipCap, Impact \div depth})
Crossing(spread) == IF Known(spread) THEN spread \div 2 ELSE 0

(* evaluate_execution: the exit side falls back to the entry's depth and    *)
(* spread; without a measurable depth on both sides there is no cost and no *)
(* executable move.                                                         *)
ExitDepth(o) == IF Known(o.depth) THEN o.depth ELSE o.entry.depth
ExitSpread(o) == IF Known(o.spread) THEN o.spread ELSE o.entry.spread
Executable(call, o) ==
    call \in Call /\ HasMove(o) /\ Costable(o.entry.depth) /\ Costable(ExitDepth(o))
ExecutableMove(call, o) ==
    Signed(call, o) - (Crossing(o.entry.spread) + Slippage(o.entry.depth))
                    - (Crossing(ExitSpread(o)) + Slippage(ExitDepth(o)))

-----------------------------------------------------------------------------
SumOver(f) == MapThenSumSet(LAMBDA x : f[x], DOMAIN f)

(* score_predictor: obs maps each market to its observation, call to the *)
(* predictor's call on it.  Means are kept as a sum and a count.         *)
Score(call, obs) ==
    LET With(k) == {m \in DOMAIN obs : Outcome(call[m], obs[m]) = k}
        paid == {m \in DOMAIN obs : Executable(call[m], obs[m])}
    IN [correct   |-> Cardinality(With("correct")),
        incorrect |-> Cardinality(With("incorrect")),
        flat      |-> Cardinality(With("flat")),
        evaluated |-> Cardinality(With("correct") \cup With("incorrect")),
        executed  |-> Cardinality(paid),
        net       |-> SumOver([m \in paid |-> ExecutableMove(call[m], obs[m])])]

(* _score_no_change predicts a flat market and is right when it is one. *)
ScoreNoChange(obs) ==
    LET moved == {m \in DOMAIN obs : HasMove(obs[m])}
        still == {m \in moved : Size(Move(obs[m])) <= FlatEps}
    IN [evaluated |-> Cardinality(moved), correct |-> Cardinality(still),
        incorrect |-> Cardinality(moved) - Cardinality(still)]

Calls(predictors(_), p, obs) == [m \in DOMAIN obs |-> predictors(obs[m].entry)[p]]

(* baseline_table and ablation_table. *)
BaselineScore(p, obs) == Score(Calls(Baselines, p, obs), obs)
AblationScore(p, obs) == Score(Calls(Ablations, p, obs), obs)

(* agreement_rate of two predictors, as agreeing and comparable entries. *)
Agreement(a, b) ==
    LET both == {m \in DOMAIN a : a[m] \in Call /\ b[m] \in Call}
    IN [agree |-> Cardinality({m \in both : a[m] = b[m]}), of |-> Cardinality(both)]

-----------------------------------------------------------------------------
(* hit_rate is None without an evaluated call; fractions are cross-multiplied. *)
Beats(a, b) ==
    a.evaluated > 0 /\ b.evaluated > 0 /\ a.correct * b.evaluated > b.correct * a.evaluated
BeatsExecutable(a, b) ==
    a.executed > 0 /\ b.executed > 0 /\ a.net * b.executed > b.net * a.executed

(* wilson_interval with z = 1.96: its lower end lies above one half exactly  *)
(* when the successes k of n exceed one half by more than z standard errors. *)
IntervalAboveHalf(k, n) == 2 * k > n /\ 10000 * (2 * k - n) * (2 * k - n) > 38416 * n

(* edge_verdict as status calls it: the criteria that are not met.  The four *)
(* attestations are passed as None, which counts as not met.                 *)
Unmet(obs) ==
    LET arepo == BaselineScore("full_arepo", obs)
        adds == BeatsExecutable(AblationScore("full_model", obs),
                                AblationScore("momentum_only", obs))
        met == [meets_minimum_sample |-> Cardinality(DOMAIN obs) >= MinSample,
                positive_after_costs |-> arepo.executed >= MinSample /\ arepo.net > 0,
                interval_supports_positive |-> IntervalAboveHalf(arepo.correct, arepo.evaluated),
                beats_momentum |-> Beats(arepo, BaselineScore("momentum", obs)),
                beats_price_only |-> Beats(arepo, BaselineScore("price_z_only", obs)),
                beats_current_implied |-> Beats(arepo, BaselineScore("current_implied", obs)),
                ablation_adds_value |-> adds,
                walk_forward_stable |-> FALSE, not_dominated_by_category |-> FALSE,
                thresholds_unchanged |-> FALSE, adversarial_passed |-> FALSE]
    IN {c \in DOMAIN met : ~met[c]}

=============================================================================
