----------------------------- MODULE BurstReplay -----------------------------
(***************************************************************************)
(* The backtest's copy of the burst lane                                    *)
(* (PipelineBacktestDriver._maybe_execute_momentum_burst_replay), written   *)
(* from the driver's own code over the watches and bars of BurstWatch, and  *)
(* the places where it is known to part from the live lane.                 *)
(***************************************************************************)
EXTENDS BurstWatch

(* A failed first burst in the replay. *)
ReplayForgiven(w, t, high) ==
  [w EXCEPT !.failed = FALSE, !.cooling = FALSE, !.high = high,
            !.pend = Breakout(t, 1)]
ReplayRecover(w, x) ==
  Skip(CASE Trend(x) = "second_leg_vwap" -> ReplayForgiven(w, "second_leg_vwap", w.high)
         [] Trend(x) # "second_leg_vwap" /\ Shows(x, "halt_resume") ->
              ReplayForgiven(w, "halt_resume", TRUE)
         [] Trend(x) # "second_leg_vwap" /\ ~Shows(x, "halt_resume")
              /\ Shows(x, "failed_recovery") ->
              ReplayForgiven(w, "failed_recovery", TRUE)
         [] OTHER -> [w EXCEPT !.pend = NoPending])

(* Clock and tape stop a hit-run symbol. *)
ReplayStops(w, x) ==
  \/ x.stops = "late"
  \/ x.stops \in {"dump", "extended"} /\ ~x.base
  \/ w.count > 0 /\ ~x.base
ReplayStop(w, x) ==
  IF x.stops = "late"
  THEN [w EXCEPT !.armed = FALSE, !.high = FALSE, !.pend = NoPending]
  ELSE IF x.stops = "dump" THEN [w EXCEPT !.pend = NoPending]
  ELSE w

(* What a banked target lets the replay arm, in the order it asks. *)
ReplayAfterTarget(w, x) ==
  LET may == [post_target |-> Shows(x, "post_target") /\ w.allowed > 0,
              parabolic |-> Trend(x) = "parabolic",
              fresh |-> Shows(x, "fresh_continuation") /\ x.rel = "above",
              second |-> Shows(x, "second_leg")]
  IN  Skip(IF may.post_target THEN [w EXCEPT !.pend = Breakout("post_target", 1)]
           ELSE IF may.parabolic THEN [w EXCEPT !.pend = Breakout("parabolic", 1)]
           ELSE IF may.fresh
                THEN [w EXCEPT !.high = TRUE,
                               !.pend = Breakout("fresh_continuation", 0)]
           ELSE IF may.second
                THEN [w EXCEPT !.high = TRUE, !.pend = Breakout("second_leg", 0)]
           ELSE [w EXCEPT !.pend = NoPending])

ReplayStarter(w, x) ==
  LET t == IF Shows(x, "level_break") THEN "level_break" ELSE Trend(x)
  IN  IF t \in InitialStarters /\ w.count = 0
      THEN [w EXCEPT !.pend = Breakout(t, 1)] ELSE w
ReplayUnspoilt(w) ==
  IF w.pend # NoPending /\ w.pend.born > Patience
  THEN [w EXCEPT !.pend = NoPending] ELSE w

(* The contexts that may confirm, strongest first; the breakout's own trigger
   comes third. *)
ReplayConfirmations(w, x) ==
  << {"clwt"} \cap x.ctx,
     {"first_pullback", "low_price_proof"} \cap x.ctx,
     {w.pend.trig} \cap EntryTriggers,
     {"level_pullaway"} \cap x.ctx,
     {"curl"} \cap x.ctx,
     {"equal_high"} \cap x.ctx,
     HighBaseConfirms \cap TrendContexts \cap x.ctx >>
ReplayConfirmation(w, x) ==
  LET found == {i \in 1..7 : ReplayConfirmations(w, x)[i] # {}}
      first == CHOOSE i \in found : \A j \in found : i <= j
  IN  IF found = {} THEN "none"
      ELSE CHOOSE t \in ReplayConfirmations(w, x)[first] : TRUE

ReplayRebases(w, x, t, mode) ==
  mode # "cycle" /\ t # "post_target" /\ ~w.pend.rebased /\ x.base
ReplayRebase(w, t) ==
  [w EXCEPT !.high = TRUE,
            !.pend = [w.pend EXCEPT !.trig = t, !.age = 0, !.rebased = TRUE]]

(* The breakout is taken off the watch as soon as it is confirmed; bad tape may
   put it back. *)
ReplayBuys(mode, w, x, t) ==
  LET off == [w EXCEPT !.pend = NoPending]
      bad == /\ mode = "warrior"
             /\ x.tape = "bad"
             /\ t \notin {"clwt", "low_price_proof", "second_leg_vwap"}
  IN  IF bad /\ ReplayRebases(w, x, t, mode) THEN Skip(ReplayRebase(w, t))
      ELSE IF bad \/ ~x.buys THEN Skip(off)
      ELSE Buy(off, t, w.pend.born)
ReplayRejects(mode, w, x) ==
  LET weak == mode # "warrior" /\ x.tape = "weak"
      off == [w EXCEPT !.pend = NoPending]
  IN  Skip(IF weak /\ ReplayRebases(w, x, w.pend.trig, mode)
           THEN ReplayRebase(w, w.pend.trig)
           ELSE IF mode = "warrior" /\ x.tape = "sour"
           THEN [off EXCEPT !.failed = TRUE]
           ELSE off)
ReplayConfirm(mode, w, x) ==
  LET t == IF mode = "warrior" THEN ReplayConfirmation(w, x) ELSE w.pend.trig
  IN  IF w.pend.age = 0 THEN Skip(w)
      ELSE IF mode = "warrior" /\ w.wins = "fresh" /\ w.pend.trig = "generic"
           THEN Skip([w EXCEPT !.pend = NoPending])
      ELSE IF t = "none" \/ (mode # "warrior" /\ x.tape # "confirms")
           THEN ReplayRejects(mode, w, x)
      ELSE ReplayBuys(mode, w, x, t)

(* Below the window high the prior-runner context may be confirmed by the very
   next look. *)
ReplayResetHigh(w, x) ==
  IF x.rel = "stale" /\ x.base
  THEN [w EXCEPT !.high = TRUE, !.pend = Breakout("generic", 0)]
  ELSE w
ReplayBelowRest(w, x) ==
  LET add == w.count > 0
  IN  IF (add \/ w.wins = "fresh") /\ Shows(x, "second_leg")
      THEN Skip([w EXCEPT !.high = TRUE, !.pend = Breakout("second_leg", 0)])
      ELSE IF w.wins = "fresh" THEN Skip([w EXCEPT !.pend = NoPending])
      ELSE IF add /\ x.rel = "near" /\ Pulls(x) /\ x.buys
      THEN Buy(w, Pullaway(x), 0)
      ELSE Skip(ReplayResetHigh(w, x))
ReplayBelow(mode, w, x) ==
  CASE mode = "cycle" -> Skip(w)
    [] mode = "hit_run" -> Skip(ReplayResetHigh(w, x))
    [] OTHER ->
         IF w.count = 0 /\ Shows(x, "equal_high") /\ x.buys THEN Buy(w, "equal_high", 0)
         ELSE IF Shows(x, "prior_runner")
         THEN Skip([w EXCEPT !.pend = Breakout("prior_runner", 1)])
         ELSE IF Trend(x) # "none"
         THEN Skip([w EXCEPT !.pend = Breakout(Trend(x), 1)])
         ELSE ReplayBelowRest(w, x)

ReplayAboveAfterTarget(w, x) ==
  Skip(IF Shows(x, "prior_runner")
       THEN [w EXCEPT !.pend = Breakout("prior_runner", 0)]
       ELSE [w EXCEPT !.high = TRUE, !.pend = NoPending])
ReplayTrigger(mode, w, x) ==
  LET first == mode = "warrior" /\ w.count = 0
  IN  IF first /\ Shows(x, "clwt") THEN "clwt"
      ELSE IF first /\ Trend(x) \in FreshReclaims THEN Trend(x)
      ELSE "generic"
ReplayAbove(mode, w, x) ==
  LET up == [w EXCEPT !.high = TRUE]
  IN  IF mode = "warrior" /\ w.wins = "fresh" THEN ReplayAboveAfterTarget(w, x)
      ELSE IF mode = "warrior" /\ w.count > 0 /\ Pulls(x) /\ x.buys
      THEN Buy(up, Pullaway(x), 0)
      ELSE Skip([up EXCEPT !.pend = Breakout(ReplayTrigger(mode, w, x), 0)])

ReplayJudge(mode, w, x) ==
  LET warm == ReplayUnspoilt(IF mode = "warrior" THEN ReplayStarter(w, x) ELSE w)
  IN  IF warm.pend # NoPending THEN ReplayConfirm(mode, warm, x)
      ELSE IF x.rel # "above" /\ warm.high THEN ReplayBelow(mode, warm, x)
      ELSE ReplayAbove(mode, warm, x)

(* The driver's gates, in its order: held and tracked symbols are passed over
   before a failed burst is looked at. *)
Replay(mode, w, x) ==
  LET fast == mode # "cycle"
      warrior == mode = "warrior"
  IN  IF w.blocked /\ fast THEN Skip([w EXCEPT !.pend = NoPending])
      ELSE IF x.held THEN Skip(w)
      ELSE IF warrior /\ w.failed /\ w.wins = "none" THEN ReplayRecover(w, x)
      ELSE IF w.cooling \/ (fast /\ w.count >= MaxEntries) THEN Skip(w)
      ELSE IF mode = "hit_run" /\ ReplayStops(w, x) THEN Skip(ReplayStop(w, x))
      ELSE IF warrior /\ w.wins = "stale" THEN Skip([w EXCEPT !.pend = NoPending])
      ELSE IF /\ warrior /\ w.wins = "fresh" /\ w.high
              /\ w.pend = NoPending /\ ~Shows(x, "prior_runner")
           THEN ReplayAfterTarget(w, x)
      ELSE IF warrior /\ w.wins = "fresh" /\ w.high /\ w.pend = NoPending
           THEN ReplayJudge(mode, [w EXCEPT !.pend = Breakout("prior_runner", 1)], x)
      ELSE ReplayJudge(mode, w, x)

ReplayWindowEnds(w) ==
  [NoWatch EXCEPT !.wins = w.wins, !.allowed = w.allowed, !.blocked = w.blocked]
ReplayArmed(w) == [w EXCEPT !.armed = TRUE, !.high = TRUE]

ReplayFilled(w, t) ==
  [w EXCEPT !.count = @ + 1, !.allowed = IF t = "post_target" THEN 0 ELSE @]

(* The end of a bracket: whatever is not a target counts as a failure of the
   first burst. *)
ReplayTargetExit(w, ahead) ==
  LET done == [w EXCEPT !.pend = NoPending, !.high = TRUE, !.cooling = TRUE]
  IN  IF ahead THEN [done EXCEPT !.wins = "fresh", !.failed = FALSE]
      ELSE [done EXCEPT !.blocked = TRUE]
ReplayExited(mode, w, outcome, ahead) ==
  LET warrior == mode = "warrior"
      done == [w EXCEPT !.cooling = TRUE]
  IN  CASE mode = "cycle" -> w
        [] warrior /\ outcome = "target" -> ReplayTargetExit(w, ahead)
        [] warrior /\ outcome # "target" /\ w.wins = "none" ->
             [done EXCEPT !.failed = TRUE]
        [] warrior /\ outcome = "loss" /\ w.wins # "none" ->
             IF ahead THEN [done EXCEPT !.allowed = 1]
             ELSE [done EXCEPT !.blocked = TRUE]
        [] OTHER -> done
=============================================================================
