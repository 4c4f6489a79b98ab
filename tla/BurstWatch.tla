----------------------------- MODULE BurstWatch -----------------------------
(***************************************************************************)
(* One look of the burst lane at one armed symbol                           *)
(* (PipelineRunner._process_momentum_burst_scalps): what it does with the   *)
(* symbol's watch when it meets the newest 10-second bar. The watch is the  *)
(* symbol's slice of WarriorWatchBook. A bar is described by the answers of *)
(* the pattern functions: which contexts they return, where the bar's high  *)
(* is in relation to the window high, how the bar confirms.                 *)
(*                                                                         *)
(* Ages are counted in bars: age 0 is the bar the lane looks at.            *)
(***************************************************************************)
EXTENDS Integers, FiniteSets

CONSTANTS
  MaxEntries,   \* warrior_squeeze_max_entries
  Patience,     \* bars a pending breakout stays worth buying
  Contexts      \* the sets of contexts a bar may show at once

ASSUME BurstAssumption ==
  /\ MaxEntries \in Nat \ {0}
  /\ Patience \in Nat

Modes == {"cycle", "hit_run", "warrior"}

(* Each context stands for the entry trigger of its name. "clwt" is a level
   pull-away with the CLWT variant. The triggers left out, early_10s, smooth
   and failed-spike reclaims, belong to the same sets as "high_base". *)
TrendContexts ==
  {"first_pullback", "low_price_proof", "high_base", "stair_step",
   "parabolic", "trend_pullback", "first_impulse", "second_leg_vwap"}
LaneContexts ==
  {"clwt", "level_pullaway", "curl", "second_leg", "prior_runner",
   "post_target", "fresh_continuation", "equal_high", "level_break",
   "failed_recovery", "halt_resume"}
EntryTriggers == TrendContexts \cup LaneContexts

ASSUME ContextsAssumption ==
  \A S \in Contexts : /\ S \subseteq EntryTriggers
                      /\ Cardinality(S \cap TrendContexts) <= 1

InitialStarters ==
  {"level_break", "first_pullback", "low_price_proof", "high_base",
   "parabolic", "second_leg_vwap", "halt_resume"}
HighBaseConfirms == (TrendContexts \ {"first_impulse"}) \cup {"halt_resume"}
FreshReclaims ==
  (TrendContexts \ {"trend_pullback"})
    \cup {"post_target", "fresh_continuation", "halt_resume"}

NoPending == [trig |-> "none", age |-> 0, born |-> 0, rebased |-> FALSE]

NoWatch ==
  [armed |-> FALSE, high |-> FALSE, pend |-> NoPending, count |-> 0,
   cooling |-> FALSE, wins |-> "none", allowed |-> 0, failed |-> FALSE,
   blocked |-> FALSE]

(* What the pattern functions and the executor say of a bar: the contexts it
   shows; its high in relation to the window high; how it confirms a breakout
   ("sour" is the bar of warrior_failed_burst_watch_reason, "bad" the recent bad
   tape); whether the continuation base holds; whether the checks of
   _execute_momentum_burst_scalp pass and the order fills; whether the symbol is
   held; why a hit-run symbol stops trading. *)
BarsOf(warrior, hitRun, held) ==
  [ctx : IF warrior THEN Contexts ELSE {{}},
   rel : {"stale", "near", "above"},
   tape : {"confirms"} \cup
          (IF warrior THEN {"sour", "bad"} ELSE {"weak", "chasing"}),
   base : BOOLEAN, buys : IF held THEN {FALSE} ELSE BOOLEAN, held : {held},
   stops : {"no"} \cup (IF hitRun THEN {"late", "dump", "extended"} ELSE {})]
Bars ==
  [mode \in Modes |->
     [held \in BOOLEAN |-> BarsOf(mode = "warrior", mode = "hit_run", held)]]

Trend(x) ==
  IF x.ctx \cap TrendContexts = {} THEN "none"
  ELSE CHOOSE t \in x.ctx \cap TrendContexts : TRUE
Shows(x, c) == c \in x.ctx

Breakout(t, age) ==
  [trig |-> t, age |-> age, born |-> age, rebased |-> FALSE]
Arm(w, t, age) == [w EXCEPT !.pend = Breakout(t, age)]
ArmHigh(w, t, age) == [Arm(w, t, age) EXCEPT !.high = TRUE]
Drop(w) == [w EXCEPT !.pend = NoPending]

Skip(w) == [w |-> w, buy |-> "none", age |-> 0]
Buy(w, t, age) == [w |-> w, buy |-> t, age |-> age]

-----------------------------------------------------------------------------
(* The watch window of a symbol ends: what is known of the day's burst goes,
   the wins and the day block stay. *)
WindowEnds(w) ==
  [w EXCEPT !.armed = FALSE, !.high = FALSE, !.pend = NoPending, !.count = 0,
            !.cooling = FALSE, !.failed = FALSE]

\* WarriorWatchBook.clear_watch_symbol: the eviction of the weakest symbol.
Evicted(w) ==
  [WindowEnds(w) EXCEPT !.wins = "none", !.allowed = 0]

(* A failed first burst keeps the symbol out until one of three contexts
   forgives it; each arms a breakout that the same bar may confirm. *)
Forgive(w, t) ==
  [Arm(w, t, 1) EXCEPT !.failed = FALSE, !.cooling = FALSE]
ForgiveHigh(w, t) == [Forgive(w, t) EXCEPT !.high = TRUE]
Recover(w, x) ==
  Skip(IF Trend(x) = "second_leg_vwap" THEN Forgive(w, "second_leg_vwap")
       ELSE IF Shows(x, "halt_resume") THEN ForgiveHigh(w, "halt_resume")
       ELSE IF Shows(x, "failed_recovery") THEN ForgiveHigh(w, "failed_recovery")
       ELSE Drop(w))

(* What a hit-run window asks of clock and tape besides: the Warrior book does
   not. Without a fresh base a dump drops the breakout; an extended price and a
   re-entry only wait. *)
HitRunStops(w, x) ==
  x.stops = "late" \/ ((x.stops # "no" \/ w.count > 0) /\ ~x.base)
HitRunStop(w, x) ==
  CASE x.stops = "late" -> [Drop(w) EXCEPT !.armed = FALSE, !.high = FALSE]
    [] x.stops = "dump" -> Drop(w)
    [] OTHER -> w

(* After a banked target only five contexts arm again. The first of them falls
   through to the confirmation of the same look. *)
AfterTargetFree(w, x) ==
  IF Shows(x, "post_target") THEN Skip(Arm(w, "post_target", 1))
  ELSE IF Trend(x) = "parabolic" THEN Skip(Arm(w, "parabolic", 1))
  ELSE Skip(Drop(w))
AfterTarget(w, x) ==
  IF Shows(x, "post_target") /\ w.allowed > 0 THEN Skip(Arm(w, "post_target", 1))
  ELSE IF Trend(x) = "parabolic" THEN Skip(Arm(w, "parabolic", 1))
  ELSE IF Shows(x, "fresh_continuation") /\ x.rel = "above"
       THEN Skip(ArmHigh(w, "fresh_continuation", 0))
  ELSE IF Shows(x, "second_leg") THEN Skip(ArmHigh(w, "second_leg", 0))
  ELSE Skip(Drop(w))

(* Before the first entry a starter context replaces whatever is pending, and
   the bar that shows it may be bought at once. *)
Starter(w, x) ==
  LET t == IF Shows(x, "level_break") THEN "level_break" ELSE Trend(x)
  IN  IF w.count = 0 /\ t \in InitialStarters THEN Arm(w, t, 1) ELSE w
Unspoilt(w) == IF w.pend.born > Patience THEN Drop(w) ELSE w

(* Which context confirms the pending breakout of a Warrior window. A breakout
   that a lane armed is its own confirmation. *)
Confirmation(w, x) ==
  IF Shows(x, "clwt") THEN "clwt"
  ELSE IF Trend(x) \in {"first_pullback", "low_price_proof"} THEN Trend(x)
  ELSE IF w.pend.trig \in EntryTriggers THEN w.pend.trig
  ELSE IF Shows(x, "level_pullaway") THEN "level_pullaway"
  ELSE IF Shows(x, "curl") THEN "curl"
  ELSE IF Shows(x, "equal_high") THEN "equal_high"
  ELSE IF Trend(x) \in HighBaseConfirms THEN Trend(x)
  ELSE "none"

(* A rejected breakout is watched once more, from the fresh micro-base, with
   the age of the original one. *)
Rebases(w, x, t) == t # "post_target" /\ ~w.pend.rebased /\ x.base
RebaseYoung(w, t) ==
  [w EXCEPT !.high = TRUE,
            !.pend = [trig |-> t, age |-> 0, born |-> 0, rebased |-> TRUE]]
Rebase(w, t) ==
  [w EXCEPT !.high = TRUE,
            !.pend = [trig |-> t, age |-> 0, born |-> w.pend.born,
                      rebased |-> TRUE]]

Unconfirmed(mode, w, x) ==
  Skip(IF mode = "hit_run" /\ x.tape = "weak" /\ Rebases(w, x, w.pend.trig)
       THEN Rebase(w, w.pend.trig)
       ELSE [Drop(w) EXCEPT
               !.failed = w.failed \/ (mode = "warrior" /\ x.tape = "sour")])

(* Recent bad tape postpones every Warrior entry but those of three variants. *)
BadTape(w, x, t) ==
  x.tape = "bad" /\ t \notin {"clwt", "low_price_proof", "second_leg_vwap"}
AfterBadTape(w, x, t) == Skip(IF Rebases(w, x, t) THEN Rebase(w, t) ELSE Drop(w))

(* The look that meets a pending breakout. *)
Confirm(mode, w, x) ==
  LET t == IF mode = "warrior" THEN Confirmation(w, x) ELSE w.pend.trig
      rejected == IF mode = "warrior" THEN t = "none" ELSE x.tape # "confirms"
  IN  IF w.pend.age = 0 THEN Skip(w)
      ELSE IF /\ mode = "warrior" /\ w.wins = "fresh"
              /\ w.pend.trig \notin EntryTriggers
           THEN Skip(Drop(w))
      ELSE IF rejected THEN Unconfirmed(mode, w, x)
      ELSE IF mode = "warrior" /\ BadTape(w, x, t) THEN AfterBadTape(w, x, t)
      ELSE IF x.buys THEN Buy(Drop(w), t, w.pend.born)
      ELSE Skip(Drop(w))

(* No breakout pending and the bar stays below the window high. The prior-runner
   context waits for the next bar here, for none at all after a target. *)
Pullaway(x) == IF Shows(x, "clwt") THEN "clwt" ELSE "level_pullaway"
Pulls(x) == Shows(x, "clwt") \/ Shows(x, "level_pullaway")
PriorRunnerBelow(w) == Arm(w, "prior_runner", 0)
ResetHigh(w, x) ==
  Skip(IF x.rel = "stale" /\ x.base THEN ArmHigh(w, "generic", 0) ELSE w)
BelowWarrior(w, x, prior(_)) ==
  IF w.count = 0 /\ Shows(x, "equal_high") /\ x.buys THEN Buy(w, "equal_high", 0)
  ELSE IF Shows(x, "prior_runner") THEN Skip(prior(w))
  ELSE IF Trend(x) # "none" THEN Skip(Arm(w, Trend(x), 1))
  ELSE IF (w.wins = "fresh" \/ w.count > 0) /\ Shows(x, "second_leg")
       THEN Skip(ArmHigh(w, "second_leg", 0))
  ELSE IF w.wins = "fresh" THEN Skip(Drop(w))
  ELSE IF w.count > 0 /\ x.rel = "near" /\ Pulls(x) /\ x.buys
       THEN Buy(w, Pullaway(x), 0)
  ELSE ResetHigh(w, x)
Below(mode, w, x) ==
  IF mode = "warrior" THEN BelowWarrior(w, x, PriorRunnerBelow)
  ELSE IF mode = "hit_run" THEN ResetHigh(w, x)
  ELSE Skip(w)

(* A fresh high: it becomes the window high and arms a breakout, unless a
   target is banked; after the first entry a pull-away may be bought at once. *)
AboveAfterTarget(w, x) ==
  Skip(IF Shows(x, "prior_runner") THEN Arm(w, "prior_runner", 0)
       ELSE [Drop(w) EXCEPT !.high = TRUE])
FreshTrigger(mode, w, x) ==
  IF mode # "warrior" \/ w.count > 0 THEN "generic"
  ELSE IF Shows(x, "clwt") THEN "clwt"
  ELSE IF Trend(x) \in FreshReclaims THEN Trend(x)
  ELSE "generic"
Above(mode, w, x) ==
  IF mode = "warrior" /\ w.wins = "fresh" THEN AboveAfterTarget(w, x)
  ELSE IF mode = "warrior" /\ w.count > 0 /\ Pulls(x) /\ x.buys
       THEN Buy([w EXCEPT !.high = TRUE], Pullaway(x), 0)
  ELSE Skip(ArmHigh(w, FreshTrigger(mode, w, x), 0))

(* The look behind the gates: first what a banked target allows, then the
   starter, then the pending breakout or the window high. *)
Judge(mode, w, x) ==
  LET w1 == IF mode = "warrior" THEN Starter(w, x) ELSE w
      w2 == Unspoilt(w1)
  IN  IF w2.pend # NoPending THEN Confirm(mode, w2, x)
      ELSE IF w2.high /\ x.rel # "above" THEN Below(mode, w2, x)
      ELSE Above(mode, w2, x)
Banked(mode, w) ==
  mode = "warrior" /\ w.wins = "fresh" /\ w.high /\ w.pend = NoPending
(* Fault: the wait after an exit is skipped. *)
RestsUncooled(mode, w, x) == (mode # "cycle" /\ w.count >= MaxEntries) \/ x.held
Rests(mode, w, x) ==
  (mode # "cycle" /\ w.count >= MaxEntries) \/ w.cooling \/ x.held
Live(mode, w, x) ==
  IF mode # "cycle" /\ w.blocked THEN Skip(Drop(w))
  ELSE IF mode = "warrior" /\ w.failed /\ w.wins = "none" THEN Recover(w, x)
  ELSE IF Rests(mode, w, x) THEN Skip(w)
  ELSE IF mode = "hit_run" /\ HitRunStops(w, x)
       THEN Skip(HitRunStop(w, x))
  ELSE IF mode = "warrior" /\ w.wins = "stale" THEN Skip(Drop(w))
  ELSE IF Banked(mode, w)
       THEN IF Shows(x, "prior_runner")
            THEN Judge(mode, Arm(w, "prior_runner", 1), x)
            ELSE AfterTarget(w, x)
  ELSE Judge(mode, w, x)

-----------------------------------------------------------------------------
(* The fill of a burst entry, and its end as _record_trade_exit learns of it: a
   target, another exit with a profit, a stop that lost nothing, or a loss; and
   whether the symbol is ahead for the day after it. *)
Filled(mode, w, t) ==
  IF mode = "cycle" THEN [w EXCEPT !.armed = FALSE, !.high = FALSE, !.cooling = TRUE]
  ELSE [w EXCEPT !.count = w.count + 1,
                 !.allowed = IF t = "post_target" THEN 0 ELSE w.allowed]

Outcomes == {"target", "win", "stopped", "loss"}
TargetExit(w, ahead) ==
  [Drop(w) EXCEPT !.high = TRUE, !.cooling = TRUE,
                  !.wins = IF ahead THEN "fresh" ELSE w.wins,
                  !.failed = w.failed /\ ~ahead,
                  !.blocked = w.blocked \/ ~ahead]
LossExit(w, outcome, ahead) ==
  LET gaveBack == outcome = "loss" /\ w.wins # "none"
  IN  [w EXCEPT !.cooling = TRUE,
                !.failed = w.failed \/ w.wins = "none",
                !.allowed = IF gaveBack /\ ahead THEN 1 ELSE w.allowed,
                !.blocked = w.blocked \/ (gaveBack /\ ~ahead)]
Exited(mode, w, outcome, ahead) ==
  IF mode = "cycle" THEN w
  ELSE IF mode = "hit_run" \/ outcome = "win" THEN [w EXCEPT !.cooling = TRUE]
  ELSE IF outcome = "target" THEN TargetExit(w, ahead)
  ELSE LossExit(w, outcome, ahead)

(* A scanner hit (or, on the Warrior book, an alert of the tick tracker or a hot
   watch mover) arms the symbol. *)
Armed(mode, w) ==
  IF mode # "cycle" /\ w.blocked THEN w ELSE [w EXCEPT !.armed = TRUE, !.high = TRUE]
(* A hit that the Warrior book rejects puts the symbol on watch all the same. *)
ArmedRejected(w) == [w EXCEPT !.armed = TRUE, !.high = TRUE]
=============================================================================
