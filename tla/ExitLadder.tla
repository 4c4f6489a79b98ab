----------------------------- MODULE ExitLadder -----------------------------
(***************************************************************************)
(* The stop of one long position, from the entry fill to the last exit:    *)
(* the rules of ExitManager._check_position, run by the main loop once a    *)
(* second, the tick-level trail the runner applies between two checks, the *)
(* outcome of each exit order, and the shares added to a winner through    *)
(* the 10-second execution timer. The position-sync thread may correct the *)
(* share count, drop the tracker or adopt the position anew at any moment.  *)
(*                                                                         *)
(* Prices are integer levels and the percentages of the code are distances *)
(* in levels. Exits that depend on candles, volume or holding time only    *)
(* sell everything, so they are a choice the model leaves open. Shorts     *)
(* never reach the ladder (every rung asks for a long) and are left out.   *)
(* The bot always tracks a position with a first target and runs with the  *)
(* step-trail and give-room options off, their defaults.                   *)
(***************************************************************************)
EXTENDS Integers

CONSTANTS
  MaxPrice,      \* bound on the price levels
  MaxQty,        \* bound on the shares of a position
  MaxRisk,       \* bound on the distance from the entry to its first stop
  QuickGap,      \* QUICK_SCALP_PARTIAL_PCT: gain that pays a quick partial
  LockGap,       \* STEP_PCT: gain that moves the stop to the entry
  StepGap,       \* STEP_PCT_AFTER_HALF: size of a step after the partial
  ConfirmGap,    \* RUNNER_MIN_CONFIRM_PCT: run that confirms a runner
  TrailGap,      \* RUNNER_TRAIL_PCT: distance a confirmed runner trails
  TickGap,       \* distance of the tick trail of an ordinary scalp
  ExtensionGap,  \* extension_threshold: gain sold into the spike
  MaxLoss,       \* max_unrealized_loss, in levels times shares
  AddRiskGap,    \* max_add_risk_pct: distance a re-add may risk
  MaxScaleUps    \* max_scale_ups of the re-add configuration

ASSUME LadderAssumption ==
  /\ MaxPrice \in Nat \ {0}
  /\ MaxQty \in Nat \ {0}
  /\ MaxRisk \in Nat \ {0}
  /\ QuickGap \in Nat \ {0}
  /\ LockGap \in Nat \ {0}
  /\ StepGap \in Nat \ {0}
  /\ ConfirmGap \in Nat
  /\ TrailGap \in Nat
  /\ TickGap \in Nat
  /\ ExtensionGap \in Nat
  /\ MaxLoss \in Nat \ {0}
  /\ AddRiskGap \in Nat
  /\ MaxScaleUps \in Nat

Price == 1..MaxPrice
Shares == 1..MaxQty

Higher(m, n) == IF m > n THEN m ELSE n
Lower(m, n) == IF m < n THEN m ELSE n

(* What the wording of an entry decides: "scalp" takes a quick partial,     *)
(* "base" sells everything at it, "target" waits for the first target,      *)
(* "full" sells everything there, "vwap" is never locked at breakeven.      *)
Kinds == {"scalp", "base", "target", "full", "vwap"}

VARIABLES
  open,       \* is the position tracked?
  kind,       \* the kind of its entry
  candidate,  \* runner_candidate
  entry,      \* entry_price
  stop,       \* stop_loss
  risk,       \* risk_per_share
  target,     \* first_target_price
  high,       \* highest_price
  remaining,  \* remaining_qty
  soldHalf,   \* sold_half
  locked,     \* breakeven_locked
  confirmed,  \* runner_confirmed
  step,       \* current_step
  selling,    \* the exit order the main loop waits for: none, part or all
  asked,      \* shares of that order
  readd,      \* stop of the re-add waiting in the execution timer, 0 if none
  scaled,     \* PositionScaler._scale_counts
  adds        \* history: re-adds filled since the position was opened

setup   == <<kind, candidate, risk, target>>
levels  == <<entry, stop, high>>
flags   == <<soldHalf, locked, confirmed, step>>
tracker == <<open, setup, levels, remaining, flags, adds>>
orders  == <<selling, asked>>
scaling == <<readd, scaled>>
vars == <<tracker, orders, scaling>>

TypeOK ==
  /\ open \in BOOLEAN
  /\ kind \in Kinds
  /\ candidate \in BOOLEAN
  /\ entry \in Price
  /\ stop \in Int
  /\ risk \in 1..MaxRisk
  /\ target \in Nat
  /\ high \in Price
  /\ remaining \in 0..MaxQty
  /\ open => remaining > 0
  /\ soldHalf \in BOOLEAN
  /\ locked \in BOOLEAN
  /\ confirmed \in BOOLEAN
  /\ step \in Nat
  /\ selling \in {"none", "part", "all"}
  /\ asked \in 0..MaxQty
  /\ readd \in 0..MaxPrice
  /\ scaled \in 0..MaxScaleUps
  /\ adds \in 0..MaxScaleUps

(* A fresh tracker, or what stands for one while nothing is tracked. *)
Fresh(k, c, e, r, t, q) ==
  /\ kind' = k
  /\ candidate' = c
  /\ entry' = e
  /\ stop' = e - r
  /\ risk' = r
  /\ target' = t
  /\ high' = e
  /\ remaining' = q
  /\ soldHalf' = FALSE
  /\ locked' = FALSE
  /\ confirmed' = FALSE
  /\ step' = 0
  /\ adds' = 0

Untracked ==
  /\ open' = FALSE
  /\ Fresh("target", FALSE, 1, 1, 2, 0)

Init ==
  /\ open = FALSE
  /\ kind = "target"
  /\ candidate = FALSE
  /\ entry = 1
  /\ stop = 0
  /\ risk = 1
  /\ target = 2
  /\ high = 1
  /\ remaining = 0
  /\ soldHalf = FALSE
  /\ locked = FALSE
  /\ confirmed = FALSE
  /\ step = 0
  /\ selling = "none"
  /\ asked = 0
  /\ readd = 0
  /\ scaled = 0
  /\ adds = 0

-----------------------------------------------------------------------------
(* Opening and correcting a tracker.                                       *)

(* An entry fills: the stop adjustment keeps a positive risk below the fill *)
(* price and the first target is one risk above it, or the planned one.     *)
Register(k, c, e, r, t, q) ==
  /\ ~open
  /\ selling = "none"
  /\ r < e
  /\ t = e + r \/ t > e
  /\ open' = TRUE
  /\ Fresh(k, c, e, r, t, q)
  /\ UNCHANGED <<orders, scaling>>

(* The reconciler finds a position nobody tracks. *)
Adopt(e, r, q) ==
  /\ ~open
  /\ r < e
  /\ open' = TRUE
  /\ Fresh("target", FALSE, e, r, e + r, q)
  /\ UNCHANGED <<orders, scaling>>

(* The reconciler believes the broker's share count, or that it is flat. *)
SyncQty(q) ==
  /\ open
  /\ q # remaining
  /\ remaining' = q
  /\ UNCHANGED <<open, setup, levels, flags, adds, orders, scaling>>

Vanish ==
  /\ open
  /\ Untracked
  /\ UNCHANGED <<orders, scaling>>

-----------------------------------------------------------------------------
(* One check of the position at price p.                                   *)

Seen(p) == Higher(high, p)
Level(k) == entry + k * StepGap

MustSellAll(p) ==
  \/ p <= stop
  \/ p - entry >= ExtensionGap
  \/ (entry - p) * remaining >= MaxLoss
  \/ kind = "full" /\ ~soldHalf /\ p >= target

PartialDue(p) ==
  /\ ~soldHalf
  /\ kind # "full"
  /\ \/ kind \in {"scalp", "base"} /\ remaining > 1 /\ p >= entry + QuickGap
     \/ p >= target

(* Fault: a partial always sells at least two shares. *)
FirstPartialQtyTwo == Higher(2, remaining \div 2)

FirstPartialQty ==
  CASE kind = "base" -> remaining
    [] kind # "base" /\ candidate -> Higher(1, remaining \div 3)
    [] kind # "base" /\ ~candidate -> Higher(1, remaining \div 2)

Ask(what, q) ==
  /\ selling' = what
  /\ asked' = q

Checked(p) == open /\ selling = "none"

(* Everything is sold: a stop, the dollar stop, the extension, a full       *)
(* target, or one of the candle, volume, stale and range exits.             *)
CheckSellsAll(p) ==
  /\ Checked(p)
  /\ Ask("all", remaining)
  /\ Untracked
  /\ UNCHANGED scaling

MaybeConfirmRunner(p) ==
  confirmed' = (confirmed \/ (candidate /\ Seen(p) - entry >= ConfirmGap))

(* Fault: the rest goes back to the stop planned at the entry. *)
PostPartialStopPlanned ==
  /\ stop' = entry - risk
  /\ locked' = TRUE

(* _apply_post_partial_stop: the rest rides with its stop at the entry. *)
PostPartialStop ==
  /\ stop' = entry
  /\ locked' = TRUE

CheckPartial(p) ==
  /\ Checked(p)
  /\ ~MustSellAll(p)
  /\ PartialDue(p)
  /\ IF FirstPartialQty = remaining
     THEN Ask("all", remaining) /\ Untracked
     ELSE /\ Ask("part", FirstPartialQty)
          /\ remaining' = remaining - FirstPartialQty
          /\ soldHalf' = TRUE
          /\ high' = Seen(p)
          /\ MaybeConfirmRunner(p)
          /\ PostPartialStop
          /\ UNCHANGED <<open, setup, entry, step, adds>>
  /\ UNCHANGED scaling

(* Before the partial the stop moves once, to breakeven. *)
CheckWaits(p) ==
  /\ Checked(p)
  /\ ~MustSellAll(p)
  /\ ~soldHalf
  /\ ~PartialDue(p)
  /\ high' = Seen(p)
  /\ IF ~locked /\ kind # "vwap" /\ p >= entry + LockGap
     THEN stop' = entry /\ locked' = TRUE
     ELSE UNCHANGED <<stop, locked>>
  /\ UNCHANGED <<open, setup, entry, remaining, soldHalf, confirmed, step, adds, orders,
                 scaling>>

(* After it, a confirmed runner trails behind its high... *)
CheckTrails(p) ==
  /\ Checked(p)
  /\ ~MustSellAll(p)
  /\ soldHalf
  /\ confirmed
  /\ high' = Seen(p)
  /\ stop' = Higher(stop, high' - TrailGap)
  /\ UNCHANGED <<open, setup, entry, remaining, flags, adds, orders, scaling>>

(* Fault: the steps are climbed by confirmed runners as well. *)
CheckStepsAll(p) ==
  /\ Checked(p)
  /\ ~MustSellAll(p)
  /\ soldHalf
  /\ high' = Seen(p)
  /\ p >= Level(step + 1)
  /\ step' = step + 1
  /\ stop' = Level(step')
  /\ UNCHANGED <<open, setup, entry, remaining, soldHalf, locked, confirmed, adds, orders,
                 scaling>>

(* ...and any other position climbs every step the price has reached. The   *)
(* recursive check sells when the price sits on the stop it has just set,    *)
(* which CheckSellsAll allows.                                               *)
CheckSteps(p) ==
  /\ Checked(p)
  /\ ~MustSellAll(p)
  /\ soldHalf
  /\ ~confirmed
  /\ high' = Seen(p)
  /\ IF p < Level(step + 1)
     THEN UNCHANGED <<stop, step>>
     ELSE /\ step' = (p - entry) \div StepGap
          /\ stop' = Level(step')
          /\ p > stop'
  /\ UNCHANGED <<open, setup, entry, remaining, soldHalf, locked, confirmed, adds, orders,
                 scaling>>

-----------------------------------------------------------------------------
(* The exit order comes back.                                              *)

(* A recorded exit cancels the re-add still waiting in the timer, and       *)
(* untracks the position if the portfolio is flat. Only the slow cycle      *)
(* clears the scale count, after a full exit.                               *)
ExitFills ==
  /\ selling # "none"
  /\ Ask("none", 0)
  /\ readd' = 0
  /\ \/ UNCHANGED tracker
     \/ open /\ Untracked
  /\ \/ UNCHANGED scaled
     \/ selling = "all" /\ scaled' = 0

(* Fault: the rollback forgets that the half is not sold. *)
ExitUnfilledKeepsHalf ==
  /\ selling # "none"
  /\ Ask("none", 0)
  /\ IF open /\ soldHalf
     THEN /\ remaining' = Lower(remaining + asked, MaxQty)
          /\ stop' = entry - risk
          /\ locked' = FALSE
          /\ UNCHANGED <<open, setup, entry, high, soldHalf, confirmed, step, adds>>
     ELSE UNCHANGED tracker
  /\ UNCHANGED scaling

(* Both orders fail. A partial is rolled back if its tracker is still there; *)
(* a position sold entirely is untracked already.                            *)
ExitUnfilled ==
  /\ selling # "none"
  /\ Ask("none", 0)
  /\ IF open /\ soldHalf
     THEN /\ soldHalf' = FALSE
          /\ remaining' = Lower(remaining + asked, MaxQty)
          /\ stop' = entry - risk
          /\ locked' = FALSE
          /\ UNCHANGED <<open, setup, entry, high, confirmed, step, adds>>
     ELSE UNCHANGED tracker
  /\ UNCHANGED scaling

-----------------------------------------------------------------------------
(* A tick between two checks.                                              *)

TickStop(h) == Higher(stop, h - (IF confirmed THEN TrailGap ELSE TickGap))

(* The high and, after the partial, the stop follow the tick. *)
TickFollows(p) ==
  /\ Checked(p)
  /\ locked
  /\ high' = Seen(p)
  /\ IF soldHalf THEN stop' = TickStop(high') ELSE UNCHANGED stop
  /\ UNCHANGED <<open, setup, entry, remaining, flags, adds, orders, scaling>>

(* The trail is hit, the tape turns or a 10-second candle closes red: the   *)
(* order is sent at once and the tracker goes only when it fills.            *)
TickExits ==
  /\ open
  /\ selling = "none"
  /\ Untracked
  /\ readd' = 0
  /\ UNCHANGED <<orders, scaled>>

-----------------------------------------------------------------------------
(* Adding to a winner.                                                     *)

(* The scaler asks for shares with stop s, not below the entry: the signal   *)
(* waits in the execution timer, unless one is waiting there already.        *)
QueueReadd(p, s) ==
  /\ Checked(p)
  /\ soldHalf
  /\ locked
  /\ stop >= entry
  /\ scaled < MaxScaleUps
  /\ entry < p /\ p < high
  /\ entry <= s /\ s < p
  /\ p - s <= AddRiskGap
  /\ scaled' = scaled + 1
  /\ readd' = IF readd = 0 THEN s ELSE readd
  /\ UNCHANGED <<tracker, orders>>

(* The timer releases it and the order fills at p: the entry becomes an      *)
(* average e and the stop the one the signal was made with.                  *)
ReaddFills(p, q, e) ==
  /\ readd # 0
  /\ open
  /\ selling = "none"
  /\ soldHalf
  /\ locked
  /\ adds < MaxScaleUps
  /\ remaining + q <= MaxQty
  /\ Lower(entry, p) <= e /\ e <= Higher(entry, p)
  /\ remaining' = remaining + q
  /\ entry' = e
  /\ stop' = readd
  /\ adds' = adds + 1
  /\ readd' = 0
  /\ UNCHANGED <<open, setup, high, flags, orders, scaled>>

(* The timer gives up, a guard rejects it or the order does not fill. *)
ReaddDropped ==
  /\ readd # 0
  /\ readd' = 0
  /\ UNCHANGED <<tracker, orders, scaled>>

-----------------------------------------------------------------------------
Enter ==
  \E e \in Price, r \in 1..MaxRisk, q \in Shares :
    \/ Adopt(e, r, q)
    \/ \E k \in Kinds, c \in BOOLEAN, t \in Price : Register(k, c, e, r, t, q)

Check ==
  \E p \in Price :
    \/ CheckSellsAll(p)
    \/ CheckPartial(p)
    \/ CheckWaits(p)
    \/ CheckTrails(p)
    \/ CheckSteps(p)

ScaleUp ==
  \/ \E p, s \in Price : QueueReadd(p, s)
  \/ \E p, e \in Price, q \in Shares : ReaddFills(p, q, e)
  \/ ReaddDropped

Next ==
  \/ Enter
  \/ \E q \in Shares : SyncQty(q)
  \/ Vanish
  \/ Check
  \/ ExitFills
  \/ ExitUnfilled
  \/ \E p \in Price : TickFollows(p)
  \/ TickExits
  \/ ScaleUp

Spec == Init /\ [][Next]_vars

-----------------------------------------------------------------------------
(* A position never risks more than was planned at its entry, and nothing   *)
(* at all from the moment its stop was locked at breakeven or its first     *)
(* partial was paid: no rung of the ladder, tick or rollback puts the stop  *)
(* below that floor while no shares were added to the position.              *)
RiskBounded ==
  open /\ adds = 0 => stop >= IF locked \/ soldHalf THEN entry ELSE entry - risk

(* The back half follows one ladder only: a confirmed runner, which trails,  *)
(* has never locked a step, and a position that climbs steps never turns    *)
(* into a runner, through failed partials and re-adds too.                    *)
OneLadder == ~(confirmed /\ step > 0)

(* Partials, locks, trails and ticks never give back a stop the position    *)
(* already had: only a new step, added shares, or the rollback of a partial  *)
(* that was not sold can lower it.                                            *)
StopKept ==
  [][open /\ open' /\ adds' = adds /\ step' = step /\ (soldHalf => soldHalf')
       => stop' >= stop]_vars
=============================================================================
