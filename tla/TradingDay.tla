----------------------------- MODULE TradingDay -----------------------------
(***************************************************************************)
(* The runner across trading days: the main loop of AlpacaRunner.run, what *)
(* it does at the boundaries of the day (the daily reset, the end of day   *)
(* flatten, the nightly report), the timed entries that may still be       *)
(* waiting when a boundary passes, the position sync thread, the dashboard *)
(* thread's emergency close, and the process stopping and starting again.  *)
(*                                                                         *)
(* Which symbols trade, at which price and for which profit is left out: a *)
(* position is held or not.  The clock has one value for each interval in  *)
(* which every time test of the code has one answer.                       *)
(***************************************************************************)
EXTENDS Naturals, FiniteSets

CONSTANTS
    Symbols,     \* what may be traded
    LastDay,     \* days are 1..LastDay
    Holidays,    \* weekends and market holidays
    FirstTimes,  \* the times at which the history may begin
    MaxBoots     \* bound on the starts of the process

ASSUME DayAssumption == /\ LastDay \in Nat \ {0}
                        /\ Holidays \subseteq 1..LastDay
                        /\ FirstTimes \subseteq 0..7
                        /\ MaxBoots \in Nat \ {0}

VARIABLES
    clock,       \* [day, time]: Eastern time
    afterHours,  \* AFTER_HOURS_ENABLED, fixed for a run
    loop,        \* where the main thread is
    seen,        \* now_et of this iteration
    resetDay,    \* _last_session_reset_day, 0 for None
    lastPhase,   \* last_market_phase
    flattened,   \* _eod_flattened
    memDay,      \* _nightly_analysis_day, 0 for None
    marker,      \* days whose .nightly-*.done file exists
    held,        \* symbols with a position at the broker
    tracked,     \* symbols of exit_manager.tracked
    closing,     \* symbols with an accepted market close not yet executed
    waiting,     \* symbols of the pending timed entries
    buying,      \* the entry past its checks, not yet submitted
    paused,      \* hub.trading_paused
    answer,      \* the emergency close: pressed, or read as flat
    flight,      \* history: the entry past its checks when it was pressed
    boots,       \* starts of the process so far
    reports,     \* history: nightly reports run for each day
    lost,        \* history: processes that died with the report unmarked
    excused      \* history: positions with a reason to outlive the flatten

process == <<loop, seen, resetDay, lastPhase, flattened, memDay>>
account == <<held, tracked, closing, excused>>
entries == <<waiting, buying>>
desk    == <<paused, answer, flight>>
files   == <<marker, reports, lost>>
life    == <<boots, afterHours>>
vars    == <<clock, process, account, entries, desk, files, life>>

Days  == 1..LastDay

(* Midnight, 4:00, 9:30, 15:30, 16:00, 16:05, 20:00 and 20:05 begin the    *)
(* eight intervals of a day.                                               *)
night == 0
pre == 1
open == 2
late == 3
close == 4
after == 5
evening == 6
dark == 7
Times  == night..dark
Clock  == [day : Days, time : Times]
Stages == {"down", "top", "flatten", "close", "nightly", "mark", "phase",
           "orders", "submit"}
Phases == {"CLOSED", "PRE-MARKET", "OPEN", "AFTER-HOURS"}

-----------------------------------------------------------------------------
(* The calendar tests of the code. *)

TradingDayOf(c) == c.day \notin Holidays

MarketPhase(c) ==
    IF ~TradingDayOf(c)                  THEN "CLOSED"
    ELSE IF c.time \in {open, late}      THEN "OPEN"
    ELSE IF c.time = pre                 THEN "PRE-MARKET"
    ELSE IF c.time \in {close, after}    THEN "AFTER-HOURS"
    ELSE "CLOSED"

LastTradingTime == IF afterHours THEN after ELSE open

InTradingWindow(c) == TradingDayOf(c) /\ c.time \in pre..LastTradingTime

FlattenDue(c) == TradingDayOf(c) /\ c.time > LastTradingTime

(* Fault: the cutoff itself is the last moment, not the first. *)
NightlyDueBefore(c) ==
    TradingDayOf(c) /\ c.time > (IF afterHours THEN dark ELSE after)

NightlyDue(c) ==
    /\ TradingDayOf(c)
    /\ c.time >= (IF afterHours THEN dark ELSE after)

(* Fault: the reset is considered only before the market opens. *)
ResetBeforeOpenOnly(c, phase, force) ==
    /\ TradingDayOf(c) /\ resetDay # c.day
    /\ force \/ (c.time >= pre /\ phase = "PRE-MARKET")

ResetDue(c, phase, force) ==
    /\ TradingDayOf(c)
    /\ resetDay # c.day
    /\ force \/ (c.time >= pre /\ phase \in {"PRE-MARKET", "OPEN"})

(* The broker: entries are extended hours limit orders, closes are market  *)
(* orders for the day.                                                     *)
Tradable(c)   == TradingDayOf(c) /\ c.time \in pre..after
MarketOpen(c) == TradingDayOf(c) /\ c.time \in {open, late}
-----------------------------------------------------------------------------
Init ==
    /\ clock \in [day : {1}, time : FirstTimes]
    /\ afterHours \in BOOLEAN
    /\ loop = "down" /\ seen = clock
    /\ resetDay = 0 /\ lastPhase = "CLOSED" /\ flattened = FALSE
    /\ memDay = 0 /\ marker = {}
    /\ held = {} /\ tracked = {} /\ closing = {}
    /\ waiting = {} /\ buying = {}
    /\ paused = FALSE /\ answer = "none" /\ flight = {}
    /\ boots = 0
    /\ reports = [d \in Days |-> 0] /\ lost = [d \in Days |-> 0]
    /\ excused = {}

(* A start: account read (which may fail), first cycle whatever the time,  *)
(* if history loaded; a start in market hours counts as the day's reset.   *)
Boot ==
    /\ loop = "down" /\ boots < MaxBoots
    /\ loop' = "top"
    /\ seen' = clock
    /\ boots' = boots + 1
    /\ tracked' \in {held, {}}
    /\ \E picks \in SUBSET (Symbols \ tracked') :
          /\ picks # {} => TradingDayOf(clock) /\ clock.time > night
          /\ waiting' = picks
    /\ lastPhase' = MarketPhase(clock)
    /\ resetDay' = IF MarketPhase(clock) = "OPEN" THEN clock.day ELSE 0
    /\ flattened' = FALSE /\ memDay' = 0
    /\ UNCHANGED <<clock, afterHours, held, closing, excused, buying, desk,
                   files>>

(* The process ends with the day's report run and no marker on disk. *)
Unmarked(d) ==
    /\ d \notin marker
    /\ memDay = d \/ (loop = "mark" /\ seen.day = d)

ProcessEnds ==
    /\ loop' = "down"
    /\ lost' = [d \in Days |-> lost[d] + (IF Unmarked(d) THEN 1 ELSE 0)]
    /\ tracked' = {} /\ waiting' = {} /\ buying' = {}
    /\ paused' = FALSE /\ answer' = "none" /\ flight' = {}
    /\ seen' = clock /\ resetDay' = 0 /\ lastPhase' = "CLOSED"
    /\ flattened' = FALSE /\ memDay' = 0
    /\ UNCHANGED <<clock, held, excused, marker, reports, life>>

Crash ==
    /\ loop # "down"
    /\ ProcessEnds
    /\ UNCHANGED closing

(* A stop at the end of an iteration may close the account first. *)
Shutdown ==
    /\ loop = "top"
    /\ ProcessEnds
    /\ closing' \in {closing} \cup SUBSET held
-----------------------------------------------------------------------------
(* One iteration of the main loop. *)

(* Fault: the reset of the flatten flag is forgotten. *)
ResetKeepsFlattened(d) == resetDay' = d /\ UNCHANGED flattened

SessionReset(d) == resetDay' = d /\ flattened' = FALSE

Top ==
    /\ loop = "top"
    /\ seen' = clock
    /\ IF ResetDue(clock, MarketPhase(clock), FALSE)
       THEN SessionReset(clock.day)
       ELSE UNCHANGED <<resetDay, flattened>>
    /\ loop' = IF ~InTradingWindow(clock) /\ ~flattened' /\ FlattenDue(clock)
               THEN "flatten" ELSE "nightly"
    /\ UNCHANGED <<clock, lastPhase, memDay, account, entries, desk, files,
                   life>>

(* Only what is tracked is looked at; what is tracked is let go before the *)
(* broker is asked to close.                                               *)
Flatten ==
    /\ loop = "flatten"
    /\ IF tracked = {}
       THEN /\ loop' = "nightly" /\ flattened' = TRUE
            /\ excused' = excused \cup held
       ELSE /\ loop' = "close"
            /\ UNCHANGED <<flattened, excused>>
    /\ tracked' = {}
    /\ UNCHANGED <<clock, seen, resetDay, lastPhase, memDay, held, closing,
                   entries, desk, files, life>>

(* The call raises, or the broker refuses some of the positions: nobody    *)
(* looks at the answer.                                                    *)
CloseAll ==
    /\ loop = "close"
    /\ \E accepted \in SUBSET held :
          /\ closing' = accepted
          /\ excused' = excused \cup (IF MarketOpen(clock)
                                      THEN held \ accepted ELSE held)
    /\ flattened' = TRUE /\ loop' = "nightly"
    /\ UNCHANGED <<clock, seen, resetDay, lastPhase, memDay, held, tracked,
                   entries, desk, files, life>>

NightlyAlreadyRan(d) == memDay = d \/ d \in marker

Nightly ==
    /\ loop = "nightly"
    /\ IF /\ NightlyDue(seen)
          /\ ~NightlyAlreadyRan(seen.day)
          /\ tracked = {}
       THEN /\ reports' = [reports EXCEPT ![seen.day] = @ + 1]
            /\ loop' = "mark"
       ELSE /\ loop' = "phase"
            /\ UNCHANGED reports
    /\ UNCHANGED <<clock, seen, resetDay, lastPhase, flattened, memDay,
                   account, entries, desk, marker, lost, life>>

(* Fault: only the file remembers that the report ran. *)
MarkFileOnly ==
    /\ loop = "mark"
    /\ marker' \in {marker \cup {seen.day}, marker}
    /\ loop' = "phase"
    /\ UNCHANGED <<clock, seen, resetDay, lastPhase, flattened, memDay,
                   account, entries, desk, reports, lost, life>>

(* The memory first, then the file, whose failure is ignored. *)
MarkNightlyRan ==
    /\ loop = "mark"
    /\ memDay' = seen.day
    /\ marker' \in {marker \cup {seen.day}, marker}
    /\ loop' = "phase"
    /\ UNCHANGED <<clock, seen, resetDay, lastPhase, flattened, account,
                   entries, desk, reports, lost, life>>

(* At most once a minute, with the time taken at the top of the loop. *)
PhaseCheck ==
    /\ loop = "phase"
    /\ LET phase == MarketPhase(clock)
           enters == phase = "PRE-MARKET" /\ lastPhase # "PRE-MARKET"
       IN  /\ IF enters /\ ResetDue(seen, phase, TRUE)
              THEN SessionReset(seen.day)
              ELSE UNCHANGED <<resetDay, flattened>>
           /\ lastPhase' = phase
    /\ loop' = "orders"
    /\ UNCHANGED <<clock, seen, memDay, account, entries, desk, files, life>>

PhaseCheckSkipped ==
    /\ loop = "phase"
    /\ loop' = "orders"
    /\ UNCHANGED <<clock, seen, resetDay, lastPhase, flattened, memDay,
                   account, entries, desk, files, life>>

(* A timed entry released or timed out: execute_timed_signal up to its     *)
(* last check, which never asks what time it is.                           *)
(* Fault: the pause is not asked. *)
EntersWhilePaused(s) == s \notin tracked

MayEnter(s) == ~paused /\ s \notin tracked

ReleaseEntry(s) ==
    /\ loop = "orders" /\ s \in waiting
    /\ waiting' = waiting \ {s}
    /\ IF MayEnter(s) THEN buying' = {s} /\ loop' = "submit"
                      ELSE UNCHANGED <<buying, loop>>
    /\ UNCHANGED <<clock, seen, resetDay, lastPhase, flattened, memDay,
                   account, desk, files, life>>

(* A breakout or burst scalp: bought at once, only inside the window. *)
Scalp(s) ==
    /\ loop = "orders" /\ waiting = {} /\ InTradingWindow(seen)
    /\ MayEnter(s)
    /\ buying' = {s} /\ loop' = "submit"
    /\ UNCHANGED <<clock, seen, resetDay, lastPhase, flattened, memDay,
                   account, waiting, desk, files, life>>

(* The submission sweeps the open orders of the symbol first. *)
Submit ==
    /\ loop = "submit"
    /\ \E filled \in {buying, {}} :
          /\ filled # {} => Tradable(clock)
          /\ held' = held \cup filled
          /\ tracked' = tracked \cup filled
          /\ excused' = excused \cup (closing \cap buying)
                         \cup (IF InTradingWindow(seen) THEN {} ELSE filled)
    /\ closing' = closing \ buying
    /\ buying' = {} /\ loop' = "orders"
    /\ UNCHANGED <<clock, seen, resetDay, lastPhase, flattened, memDay,
                   waiting, desk, files, life>>

(* What an exit of s leaves: its sweep has cancelled close orders, and it  *)
(* has sold.  A position that lost its close has a reason to stay.  The    *)
(* tracker is let go of before the order, unless the exit is partial.      *)
Exited(s, swept, sold) ==
    /\ closing' = closing \ swept
    /\ held' = held \ sold
    /\ excused' = (excused \cup swept) \ sold
    /\ tracked' \in {tracked, tracked \ {s}}

(* Fault: the sell leaves the open close order of the symbol standing. *)
SellsUnswept(s) ==
    /\ loop = "orders" /\ s \in tracked
    /\ \E sold \in SUBSET ({s} \cap held) :
          /\ sold # {} => Tradable(clock)
          /\ Exited(s, {}, sold)
    /\ UNCHANGED <<clock, process, entries, desk, files, life>>

(* The exit manager sells what it tracks: each of the two orders it may    *)
(* send sweeps the open orders of the symbol, then fills, is refused or    *)
(* times out. A sweep may fail, and its close then holds the shares. No    *)
(* order goes out for a position the account read does not show.           *)
SellTracked(s) ==
    /\ loop = "orders" /\ s \in tracked
    /\ \E swept \in SUBSET ({s} \cap closing), sold \in SUBSET ({s} \cap held) :
          /\ sold # {} => Tradable(clock) /\ s \notin closing \ swept
          /\ Exited(s, swept, sold)
    /\ UNCHANGED <<clock, process, entries, desk, files, life>>

(* The scan: its signals are deferred to the execution timer.  A pending   *)
(* entry, a pause or the window keep it from running.                      *)
RunCycle ==
    /\ loop = "orders"
    /\ \E picks \in SUBSET (Symbols \ tracked) :
          /\ picks # {} => waiting = {} /\ ~paused /\ InTradingWindow(seen)
          /\ waiting' = waiting \cup picks
    /\ loop' = "top"
    /\ UNCHANGED <<clock, seen, resetDay, lastPhase, flattened, memDay,
                   account, buying, desk, files, life>>
-----------------------------------------------------------------------------
(* The other threads, the broker and the clock. *)

(* The position sync thread adopts what the broker shows and, after some   *)
(* reads, drops what it does not show.                                     *)
SyncPositions ==
    /\ loop # "down"
    /\ \E missing \in {tracked \ held, {}} : tracked' = held \cup missing
    /\ UNCHANGED <<clock, process, held, closing, excused, entries, desk,
                   files, life>>

(* /api/force-close: pause first, *)
PressForceClose ==
    /\ loop # "down"
    /\ answer # "pressed"
    /\ paused' = TRUE /\ answer' = "pressed" /\ flight' = buying
    /\ UNCHANGED <<clock, process, account, entries, files, life>>

(* then cancel and close until the account reads flat.  A read that fails  *)
(* returns an empty list, and is answered as flat.                         *)
EmergencyClose ==
    /\ answer = "pressed"
    /\ \E left \in SUBSET held, blind \in BOOLEAN :
          LET flat == ~blind /\ left = {}
          IN  /\ left # held => MarketOpen(clock)
              /\ held' = left
              /\ closing' = IF blind THEN closing \cap left ELSE left
              /\ excused' = excused \cap left
              /\ answer' = IF flat THEN "flat" ELSE "none"
              /\ flight' = IF flat THEN flight ELSE {}
              /\ tracked' = IF flat \/ blind THEN {} ELSE tracked
    /\ UNCHANGED <<clock, process, entries, paused, files, life>>

Resume ==
    /\ paused /\ answer # "pressed"
    /\ paused' = FALSE /\ answer' = "none" /\ flight' = {}
    /\ UNCHANGED <<clock, process, account, entries, files, life>>

Executes(s) ==
    /\ s \in closing /\ MarketOpen(clock)
    /\ held' = held \ {s} /\ closing' = closing \ {s}
    /\ excused' = excused \ {s}
    /\ UNCHANGED <<clock, process, tracked, entries, desk, files, life>>

(* An iteration spans at most one boundary of the clock.  Orders for the   *)
(* day lapse at 16:00.                                                     *)
NextInterval ==
    IF clock.time < dark THEN [clock EXCEPT !.time = @ + 1]
                         ELSE [day |-> clock.day + 1, time |-> night]

Tick ==
    /\ clock # [day |-> LastDay, time |-> dark]
    /\ loop \in {"top", "down"} \/ seen = clock
    /\ clock' = NextInterval
    /\ IF clock.time = late
       THEN closing' = {} /\ excused' = excused \cup closing
       ELSE UNCHANGED <<closing, excused>>
    /\ UNCHANGED <<process, held, tracked, entries, desk, files, life>>

LoopStep ==
    \/ Top \/ Flatten \/ CloseAll \/ Nightly \/ MarkNightlyRan
    \/ PhaseCheck \/ PhaseCheckSkipped \/ Submit \/ RunCycle

Next ==
    \/ Boot \/ Crash \/ Shutdown
    \/ LoopStep
    \/ \E s \in Symbols : ReleaseEntry(s) \/ Scalp(s) \/ SellTracked(s)
    \/ SyncPositions
    \/ PressForceClose \/ EmergencyClose \/ Resume
    \/ \E s \in Symbols : Executes(s)
    \/ Tick

(* The main loop is never blocked for long and the sync thread wakes every *)
(* three seconds; the broker and the dashboard owe nothing.                *)
Spec == /\ Init /\ [][Next]_vars
        /\ WF_vars(LoopStep) /\ WF_vars(SyncPositions) /\ WF_vars(Tick)
-----------------------------------------------------------------------------
ClockTypes ==
    /\ clock \in Clock /\ seen \in Clock
    /\ resetDay \in 0..LastDay /\ memDay \in 0..LastDay

LoopTypes ==
    /\ loop \in Stages /\ lastPhase \in Phases
    /\ flattened \in BOOLEAN /\ afterHours \in BOOLEAN
    /\ paused \in BOOLEAN /\ answer \in {"none", "pressed", "flat"}

AccountTypes ==
    /\ held \subseteq Symbols /\ tracked \subseteq Symbols
    /\ closing \subseteq held /\ excused \subseteq held
    /\ waiting \subseteq Symbols /\ buying \subseteq Symbols
    /\ flight \subseteq Symbols

FileTypes ==
    /\ marker \subseteq Days /\ boots \in 0..MaxBoots
    /\ reports \in [Days -> Nat] /\ lost \in [Days -> Nat]

TypeOK == ClockTypes /\ LoopTypes /\ AccountTypes /\ FileTypes

(* The nightly report and retrain run once for a day, and once more only   *)
(* for each process that died with the day's marker unwritten.             *)
NightlyOnce == \A d \in Days : reports[d] <= 1 + lost[d]

(* Orders go out inside the window only on a session state of this day:    *)
(* the daily reset ran, whatever was slept through.  Only in the after     *)
(* hours session a loop that slept through the market has not reset.       *)
ResetInTime ==
    loop \in {"orders", "submit"} /\ InTradingWindow(seen)
        => resetDay = seen.day \/ seen.time >= close

(* A position still held after the close by a process that says it has     *)
(* flattened has a reason: the flatten did not track it, the broker        *)
(* refused or did not execute the close, another order swept the close (an *)
(* entry, or an exit of the adopted position that did not sell it), or it  *)
(* was bought outside the window.                                          *)
OvernightExplained ==
    clock.time >= close /\ flattened /\ ~afterHours => held \subseteq excused

(* A flat answer of the emergency close that was read from the broker      *)
(* stays true until trading resumes, but for one entry that had passed its *)
(* pause check when the button was pressed.                                *)
FlatStaysFlat == answer = "flat" => held \subseteq flight

(* The report of a day is not forgotten: a process that stays up through   *)
(* the end of the last day runs it, unless positions stay open.            *)
Reported ==
    (clock = [day |-> LastDay, time |-> dark] /\ TradingDayOf(clock))
        ~> (loop = "down" \/ tracked # {} \/ NightlyAlreadyRan(LastDay))
=============================================================================
