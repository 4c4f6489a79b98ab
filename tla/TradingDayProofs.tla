-------------------------- MODULE TradingDayProofs --------------------------
(* The safety properties of the trading day for every calendar, any        *)
(* symbols and any number of process starts.                               *)
EXTENDS TradingDay, TLAPS

(* Why a report is not run again for day d: it is marked on disk, or       *)
(* remembered, or about to be; or the loop has moved past the day.         *)
Done(d) ==
    \/ d \in marker
    \/ memDay = d
    \/ loop = "mark" /\ seen.day = d
    \/ d < seen.day

(* The inductive invariant behind NightlyOnce. *)
ReportsBound ==
    /\ seen.day <= clock.day /\ memDay <= seen.day
    /\ loop = "down" => memDay = 0
    /\ \A d \in Days : reports[d] <= lost[d] + (IF Done(d) THEN 1 ELSE 0)

(* The clock keeps to the calendar. *)
LEMMA ClockType ==
    ASSUME clock \in Clock, clock # [day |-> LastDay, time |-> dark]
    PROVE  /\ NextInterval \in Clock
           /\ clock.day <= NextInterval.day
<1>1. clock.day \in 1..LastDay /\ clock.time \in 0..7
  BY DEF Clock, Days, Times, night, dark
<1>2. CASE clock.time < dark
  <2>1. NextInterval = [clock EXCEPT !.time = clock.time + 1]
    BY <1>2 DEF NextInterval
  <2>2. clock.time + 1 \in 0..7
    BY <1>1, <1>2 DEF dark
  <2> QED BY <1>1, <2>1, <2>2, DayAssumption DEF Clock, Days, Times, night, dark
<1>3. CASE ~(clock.time < dark)
  <2>1. NextInterval = [day |-> clock.day + 1, time |-> night]
    BY <1>3 DEF NextInterval
  <2>2. clock.time = dark
    BY <1>1, <1>3 DEF dark
  <2>3. clock = [day |-> clock.day, time |-> clock.time]
    BY DEF Clock
  <2>4. clock.day # LastDay
    BY <2>2, <2>3
  <2>5. clock.day + 1 \in 1..LastDay
    BY <1>1, <2>4, DayAssumption
  <2> QED BY <1>1, <2>1, <2>5, DayAssumption DEF Clock, Days, Times, night, dark
<1> QED BY <1>2, <1>3

LEMMA PhaseType == \A c : MarketPhase(c) \in Phases
BY DEF MarketPhase, Phases

LEMMA DaysOfClocks ==
    ASSUME ClockTypes
    PROVE  /\ clock.day \in 1..LastDay /\ seen.day \in 1..LastDay
           /\ clock.day \in 0..LastDay /\ seen.day \in 0..LastDay
BY DayAssumption DEF ClockTypes, Clock, Days

LEMMA TypeInit == Init => TypeOK
<1> SUFFICES ASSUME Init PROVE TypeOK
  OBVIOUS
<1>1. ClockTypes
  <2>1. clock \in Clock
    <3>1. clock \in [day : {1}, time : FirstTimes]
      BY DEF Init
    <3>2. 1 \in Days /\ FirstTimes \subseteq Times
      BY DayAssumption DEF Days, Times, night, dark
    <3> QED BY <3>1, <3>2 DEF Clock
  <2>2. seen = clock /\ resetDay = 0 /\ memDay = 0
    BY DEF Init
  <2>3. 0 \in 0..LastDay
    BY DayAssumption
  <2> QED BY <2>1, <2>2, <2>3 DEF ClockTypes
<1>2. LoopTypes
  BY DEF Init, LoopTypes, Stages, Phases
<1>3. AccountTypes
  BY DEF Init, AccountTypes
<1>4. FileTypes
  BY DayAssumption DEF Init, FileTypes
<1> QED BY <1>1, <1>2, <1>3, <1>4 DEF TypeOK

LEMMA ClockTypesStep == TypeOK /\ [Next]_vars => ClockTypes'
<1> SUFFICES ASSUME TypeOK, [Next]_vars PROVE ClockTypes'
  OBVIOUS
<1> USE DEF TypeOK, ClockTypes, process, account, entries, desk, files, life
<1>1. CASE Boot
  <2>1. seen' = clock /\ clock' = clock /\ memDay' = 0
    BY <1>1 DEF Boot
  <2>2. resetDay' \in {clock.day, 0}
    BY <1>1 DEF Boot
  <2>3. 0 \in 0..LastDay /\ clock.day \in 0..LastDay
    BY DaysOfClocks, DayAssumption
  <2> QED BY <2>1, <2>2, <2>3
<1>2. CASE Crash
  BY <1>2, DayAssumption DEF Crash, ProcessEnds
<1>3. CASE Shutdown
  BY <1>3, DayAssumption DEF Shutdown, ProcessEnds
<1>4. CASE Top
  BY <1>4, DaysOfClocks DEF Top, SessionReset
<1>5. CASE Flatten
  BY <1>5 DEF Flatten
<1>6. CASE CloseAll
  BY <1>6 DEF CloseAll
<1>7. CASE Nightly
  BY <1>7 DEF Nightly
<1>8. CASE MarkNightlyRan
  BY <1>8, DaysOfClocks DEF MarkNightlyRan
<1>9. CASE PhaseCheck
  BY <1>9, DaysOfClocks DEF PhaseCheck, SessionReset
<1>10. CASE PhaseCheckSkipped
  BY <1>10 DEF PhaseCheckSkipped
<1>11. CASE Submit
  BY <1>11 DEF Submit
<1>12. CASE RunCycle
  BY <1>12 DEF RunCycle
<1>13. CASE SyncPositions
  BY <1>13 DEF SyncPositions
<1>14. CASE PressForceClose
  BY <1>14 DEF PressForceClose
<1>15. CASE EmergencyClose
  BY <1>15 DEF EmergencyClose
<1>16. CASE Resume
  BY <1>16 DEF Resume
<1>17. CASE Tick
  BY <1>17, ClockType DEF Tick
<1>18. ASSUME NEW s \in Symbols, ReleaseEntry(s) PROVE ClockTypes'
  BY <1>18 DEF ReleaseEntry
<1>19. ASSUME NEW s \in Symbols, Scalp(s) PROVE ClockTypes'
  BY <1>19 DEF Scalp
<1>20. ASSUME NEW s \in Symbols, SellTracked(s) PROVE ClockTypes'
  BY <1>20 DEF SellTracked, Exited
<1>21. ASSUME NEW s \in Symbols, Executes(s) PROVE ClockTypes'
  BY <1>21 DEF Executes
<1>22. CASE UNCHANGED vars
  BY <1>22 DEF vars
<1> QED
  BY <1>1, <1>2, <1>3, <1>4, <1>5, <1>6, <1>7, <1>8, <1>9, <1>10, <1>11,
     <1>12, <1>13, <1>14, <1>15, <1>16, <1>17, <1>18, <1>19, <1>20, <1>21,
     <1>22 DEF Next, LoopStep

LEMMA LoopTypesStep == TypeOK /\ [Next]_vars => LoopTypes'
<1> SUFFICES ASSUME TypeOK, [Next]_vars PROVE LoopTypes'
  OBVIOUS
<1> USE DEF TypeOK, LoopTypes, Stages, process, account, entries, desk, files, life
<1>1. CASE Boot
  BY <1>1, PhaseType DEF Boot
<1>2. CASE Crash
  BY <1>2 DEF Crash, ProcessEnds, Phases
<1>3. CASE Shutdown
  BY <1>3 DEF Shutdown, ProcessEnds, Phases
<1>4. CASE Top
  BY <1>4 DEF Top, SessionReset
<1>5. CASE Flatten
  BY <1>5 DEF Flatten
<1>6. CASE CloseAll
  BY <1>6 DEF CloseAll
<1>7. CASE Nightly
  BY <1>7 DEF Nightly
<1>8. CASE MarkNightlyRan
  BY <1>8 DEF MarkNightlyRan
<1>9. CASE PhaseCheck
  BY <1>9, PhaseType DEF PhaseCheck, SessionReset
<1>10. CASE PhaseCheckSkipped
  BY <1>10 DEF PhaseCheckSkipped
<1>11. CASE Submit
  BY <1>11 DEF Submit
<1>12. CASE RunCycle
  BY <1>12 DEF RunCycle
<1>13. CASE SyncPositions
  BY <1>13 DEF SyncPositions
<1>14. CASE PressForceClose
  BY <1>14 DEF PressForceClose
<1>15. CASE EmergencyClose
  BY <1>15 DEF EmergencyClose
<1>16. CASE Resume
  BY <1>16 DEF Resume
<1>17. CASE Tick
  BY <1>17 DEF Tick
<1>18. ASSUME NEW s \in Symbols, ReleaseEntry(s) PROVE LoopTypes'
  BY <1>18 DEF ReleaseEntry
<1>19. ASSUME NEW s \in Symbols, Scalp(s) PROVE LoopTypes'
  BY <1>19 DEF Scalp
<1>20. ASSUME NEW s \in Symbols, SellTracked(s) PROVE LoopTypes'
  BY <1>20 DEF SellTracked, Exited
<1>21. ASSUME NEW s \in Symbols, Executes(s) PROVE LoopTypes'
  BY <1>21 DEF Executes
<1>22. CASE UNCHANGED vars
  BY <1>22 DEF vars
<1> QED
  BY <1>1, <1>2, <1>3, <1>4, <1>5, <1>6, <1>7, <1>8, <1>9, <1>10, <1>11,
     <1>12, <1>13, <1>14, <1>15, <1>16, <1>17, <1>18, <1>19, <1>20, <1>21,
     <1>22 DEF Next, LoopStep

LEMMA AccountTypesStep == TypeOK /\ [Next]_vars => AccountTypes'
<1> SUFFICES ASSUME TypeOK, [Next]_vars PROVE AccountTypes'
  OBVIOUS
<1> USE DEF TypeOK, AccountTypes, process, account, entries, desk, files, life
<1>1. CASE Boot
  BY <1>1 DEF Boot
<1>2. CASE Crash
  BY <1>2 DEF Crash, ProcessEnds
<1>3. CASE Shutdown
  BY <1>3 DEF Shutdown, ProcessEnds
<1>4. CASE Top
  BY <1>4 DEF Top
<1>5. CASE Flatten
  BY <1>5 DEF Flatten
<1>6. CASE CloseAll
  BY <1>6 DEF CloseAll
<1>7. CASE Nightly
  BY <1>7 DEF Nightly
<1>8. CASE MarkNightlyRan
  BY <1>8 DEF MarkNightlyRan
<1>9. CASE PhaseCheck
  BY <1>9 DEF PhaseCheck
<1>10. CASE PhaseCheckSkipped
  BY <1>10 DEF PhaseCheckSkipped
<1>11. CASE Submit
  BY <1>11 DEF Submit
<1>12. CASE RunCycle
  BY <1>12 DEF RunCycle
<1>13. CASE SyncPositions
  BY <1>13 DEF SyncPositions
<1>14. CASE PressForceClose
  BY <1>14 DEF PressForceClose
<1>15. CASE EmergencyClose
  BY <1>15 DEF EmergencyClose
<1>16. CASE Resume
  BY <1>16 DEF Resume
<1>17. CASE Tick
  BY <1>17 DEF Tick
<1>18. ASSUME NEW s \in Symbols, ReleaseEntry(s) PROVE AccountTypes'
  BY <1>18 DEF ReleaseEntry
<1>19. ASSUME NEW s \in Symbols, Scalp(s) PROVE AccountTypes'
  BY <1>19 DEF Scalp
<1>20. ASSUME NEW s \in Symbols, SellTracked(s) PROVE AccountTypes'
  BY <1>20 DEF SellTracked, Exited
<1>21. ASSUME NEW s \in Symbols, Executes(s) PROVE AccountTypes'
  BY <1>21 DEF Executes
<1>22. CASE UNCHANGED vars
  BY <1>22 DEF vars
<1> QED
  BY <1>1, <1>2, <1>3, <1>4, <1>5, <1>6, <1>7, <1>8, <1>9, <1>10, <1>11,
     <1>12, <1>13, <1>14, <1>15, <1>16, <1>17, <1>18, <1>19, <1>20, <1>21,
     <1>22 DEF Next, LoopStep

LEMMA FileTypesStep == TypeOK /\ [Next]_vars => FileTypes'
<1> SUFFICES ASSUME TypeOK, [Next]_vars PROVE FileTypes'
  OBVIOUS
<1> USE DEF TypeOK, FileTypes, process, account, entries, desk, files, life
<1>1. CASE Boot
  BY <1>1, DayAssumption DEF Boot
<1>2. CASE Crash
  BY <1>2 DEF Crash, ProcessEnds
<1>3. CASE Shutdown
  BY <1>3 DEF Shutdown, ProcessEnds
<1>4. CASE Top
  BY <1>4 DEF Top
<1>5. CASE Flatten
  BY <1>5 DEF Flatten
<1>6. CASE CloseAll
  BY <1>6 DEF CloseAll
<1>7. CASE Nightly
  BY <1>7 DEF Nightly
<1>8. CASE MarkNightlyRan
  BY <1>8, DaysOfClocks DEF MarkNightlyRan, ClockTypes, Days
<1>9. CASE PhaseCheck
  BY <1>9 DEF PhaseCheck
<1>10. CASE PhaseCheckSkipped
  BY <1>10 DEF PhaseCheckSkipped
<1>11. CASE Submit
  BY <1>11 DEF Submit
<1>12. CASE RunCycle
  BY <1>12 DEF RunCycle
<1>13. CASE SyncPositions
  BY <1>13 DEF SyncPositions
<1>14. CASE PressForceClose
  BY <1>14 DEF PressForceClose
<1>15. CASE EmergencyClose
  BY <1>15 DEF EmergencyClose
<1>16. CASE Resume
  BY <1>16 DEF Resume
<1>17. CASE Tick
  BY <1>17 DEF Tick
<1>18. ASSUME NEW s \in Symbols, ReleaseEntry(s) PROVE FileTypes'
  BY <1>18 DEF ReleaseEntry
<1>19. ASSUME NEW s \in Symbols, Scalp(s) PROVE FileTypes'
  BY <1>19 DEF Scalp
<1>20. ASSUME NEW s \in Symbols, SellTracked(s) PROVE FileTypes'
  BY <1>20 DEF SellTracked, Exited
<1>21. ASSUME NEW s \in Symbols, Executes(s) PROVE FileTypes'
  BY <1>21 DEF Executes
<1>22. CASE UNCHANGED vars
  BY <1>22 DEF vars
<1> QED
  BY <1>1, <1>2, <1>3, <1>4, <1>5, <1>6, <1>7, <1>8, <1>9, <1>10, <1>11,
     <1>12, <1>13, <1>14, <1>15, <1>16, <1>17, <1>18, <1>19, <1>20, <1>21,
     <1>22 DEF Next, LoopStep

LEMMA TypeStep == TypeOK /\ [Next]_vars => TypeOK'
BY ClockTypesStep, LoopTypesStep, AccountTypesStep, FileTypesStep DEF TypeOK

(* Every reachable state has the declared types; a close order or a reason *)
(* is kept only for a position that is held.                               *)
THEOREM TypeCorrect == Spec => []TypeOK
<1>1. Init => TypeOK
  BY TypeInit
<1>2. TypeOK /\ [Next]_vars => TypeOK'
  BY TypeStep
<1> QED BY <1>1, <1>2, PTL DEF Spec

(* A step that runs and marks no report, and ends no process, keeps the    *)
(* bound: a reason not to run again is never lost within a process.        *)
LEMMA BoundKept ==
    ASSUME TypeOK, ReportsBound, loop # "mark", loop' \notin {"mark", "down"},
           UNCHANGED <<reports, lost, marker, memDay>>,
           seen.day <= seen'.day, seen'.day <= clock'.day,
           seen'.day \in Days, clock'.day \in Days
    PROVE  ReportsBound'
<1>1. \A d \in Days : Done(d) => Done(d)'
  <2> SUFFICES ASSUME NEW d \in Days, Done(d) PROVE Done(d)'
    OBVIOUS
  <2>1. d \in Nat /\ seen.day \in Nat /\ seen'.day \in Nat
    BY DaysOfClocks, DayAssumption DEF TypeOK, Days
  <2> QED BY <2>1 DEF Done
<1>2. \A d \in Days : reports[d] \in Nat /\ lost[d] \in Nat
  BY DEF TypeOK, FileTypes
<1>3. \A d \in Days :
        reports'[d] <= lost'[d] + (IF Done(d)' THEN 1 ELSE 0)
  BY <1>1, <1>2 DEF ReportsBound
<1>4. seen'.day <= clock'.day /\ memDay' <= seen'.day /\ loop' # "down"
  BY DaysOfClocks, DayAssumption DEF ReportsBound, TypeOK, ClockTypes, Days
<1> QED BY <1>3, <1>4 DEF ReportsBound, Done

(* A step that leaves the report's variables and the look of the loop      *)
(* alone, keeps the loop out of "mark" or in it, and ends no process.      *)
LEMMA BoundUntouched ==
    ASSUME TypeOK, ReportsBound,
           UNCHANGED <<reports, lost, marker, memDay, seen>>,
           clock.day <= clock'.day, clock'.day \in Days,
           loop = "mark" <=> loop' = "mark", loop' = "down" => loop = "down"
    PROVE  ReportsBound'
<1>1. seen.day \in Nat /\ clock.day \in Nat /\ clock'.day \in Nat
  BY DaysOfClocks, DayAssumption DEF TypeOK, Days
<1>2. \A d \in Days : Done(d) <=> Done(d)'
  BY DEF Done
<1> QED BY <1>1, <1>2 DEF ReportsBound

(* The process ends: what only its memory knew is lost, and counted. *)
LEMMA BoundAtEnd == TypeOK /\ ReportsBound /\ ProcessEnds => ReportsBound'
<1> SUFFICES ASSUME TypeOK, ReportsBound, ProcessEnds PROVE ReportsBound'
  OBVIOUS
<1>1. clock' = clock /\ seen' = clock /\ reports' = reports /\ marker' = marker
  BY DEF ProcessEnds, life
<1>2. clock.day \in Nat /\ seen.day \in Nat /\ seen.day <= clock.day
  BY DaysOfClocks, DayAssumption DEF TypeOK, ReportsBound
<1>a. loop' = "down" /\ memDay' = 0
  BY DEF ProcessEnds
<1> SUFFICES ASSUME NEW d \in Days
             PROVE  reports[d] <= lost'[d] + (IF Done(d)' THEN 1 ELSE 0)
  BY <1>1, <1>2, <1>a DEF ReportsBound, Done
<1>3. reports[d] \in Nat /\ lost[d] \in Nat /\ d \in Nat
  BY DEF TypeOK, FileTypes, Days
<1>4. reports[d] <= lost[d] + (IF Done(d) THEN 1 ELSE 0)
  BY DEF ReportsBound
<1>5. lost'[d] = lost[d] + (IF Unmarked(d) THEN 1 ELSE 0)
  BY DEF ProcessEnds
<1>6. Done(d) => Unmarked(d) \/ Done(d)'
  BY <1>1, <1>2, <1>3 DEF Done, Unmarked
<1> QED BY <1>3, <1>4, <1>5, <1>6

(* The report runs only for a day without a reason, and leaves one. *)
LEMMA BoundAtNightly == TypeOK /\ ReportsBound /\ Nightly => ReportsBound'
<1> SUFFICES ASSUME TypeOK, ReportsBound, Nightly PROVE ReportsBound'
  OBVIOUS
<1>1. clock' = clock /\ seen' = seen /\ lost' = lost /\ marker' = marker
      /\ memDay' = memDay /\ loop = "nightly"
  BY DEF Nightly, life, account, entries, desk
<1>2. seen.day \in Nat /\ seen.day \in Days
  BY DaysOfClocks, DayAssumption DEF TypeOK, Days
<1>a. loop' # "down" /\ seen.day <= clock.day /\ memDay <= seen.day
  BY DEF Nightly, ReportsBound
<1> SUFFICES ASSUME NEW d \in Days
             PROVE  reports'[d] <= lost[d] + (IF Done(d)' THEN 1 ELSE 0)
  BY <1>1, <1>a DEF ReportsBound, Done
<1>3. reports[d] \in Nat /\ lost[d] \in Nat /\ d \in Nat
  BY DEF TypeOK, FileTypes, Days
<1>4. reports[d] <= lost[d] + (IF Done(d) THEN 1 ELSE 0)
  BY DEF ReportsBound
<1>5. Done(d) => Done(d)'
  BY <1>1 DEF Done
<1>6. CASE reports'[d] = reports[d]
  BY <1>3, <1>4, <1>5, <1>6
<1>7. CASE reports'[d] # reports[d]
  <2>1. /\ d = seen.day /\ ~NightlyAlreadyRan(d) /\ loop' = "mark"
        /\ reports'[d] = reports[d] + 1
    BY <1>2, <1>7 DEF Nightly, TypeOK, FileTypes
  <2>2. ~Done(d) /\ Done(d)'
    BY <1>1, <1>3, <2>1 DEF Done, NightlyAlreadyRan
  <2> QED BY <1>3, <1>4, <2>1, <2>2
<1> QED BY <1>6, <1>7

(* Memory keeps the reason even when the file cannot be written. *)
LEMMA BoundAtMark == TypeOK /\ ReportsBound /\ MarkNightlyRan => ReportsBound'
<1> SUFFICES ASSUME TypeOK, ReportsBound, MarkNightlyRan PROVE ReportsBound'
  OBVIOUS
<1>1. clock' = clock /\ seen' = seen /\ lost' = lost /\ reports' = reports
      /\ memDay' = seen.day /\ marker \subseteq marker' /\ loop = "mark"
  BY DEF MarkNightlyRan, life, account, entries, desk
<1>2. \A d \in Days : reports[d] \in Nat /\ lost[d] \in Nat
  BY DEF TypeOK, FileTypes
<1>3. seen.day \in Nat /\ memDay \in Nat /\ memDay <= seen.day
      /\ seen.day <= clock.day
  BY DaysOfClocks, DayAssumption DEF TypeOK, ClockTypes, ReportsBound
<1>4. \A d \in Days : Done(d) => Done(d)'
  <2> SUFFICES ASSUME NEW d \in Days, Done(d) PROVE Done(d)'
    OBVIOUS
  <2>1. d \in Nat
    BY DEF Days
  <2> QED BY <1>1, <1>3, <2>1 DEF Done
<1>5. \A d \in Days :
        reports'[d] <= lost'[d] + (IF Done(d)' THEN 1 ELSE 0)
  BY <1>1, <1>2, <1>4 DEF ReportsBound
<1>6. loop' # "down"
  BY DEF MarkNightlyRan
<1> QED BY <1>1, <1>3, <1>5, <1>6 DEF ReportsBound, Done

LEMMA BoundInit == Init => ReportsBound
<1> SUFFICES ASSUME Init PROVE ReportsBound
  OBVIOUS
<1>1. TypeOK
  BY TypeInit
<1>2. seen = clock /\ memDay = 0
      /\ \A d \in Days : reports[d] = 0 /\ lost[d] = 0
  BY DEF Init
<1>3. seen.day \in Nat
  BY <1>1, DaysOfClocks, DayAssumption DEF TypeOK
<1> QED BY <1>2, <1>3 DEF ReportsBound

LEMMA BoundStep == TypeOK /\ ReportsBound /\ [Next]_vars => ReportsBound'
<1> SUFFICES ASSUME TypeOK, ReportsBound, [Next]_vars PROVE ReportsBound'
  OBVIOUS
<1> USE DEF process, account, entries, desk, files, life
<1>0. clock.day \in Days /\ seen.day \in Days /\ clock.day \in Nat
      /\ seen.day \in Nat /\ clock.day <= clock.day
  BY DaysOfClocks, DayAssumption DEF TypeOK, Days
<1>1. CASE Boot
  BY <1>0, <1>1, BoundKept DEF Boot, ReportsBound
<1>2. CASE Crash
  BY <1>2, BoundAtEnd DEF Crash
<1>3. CASE Shutdown
  BY <1>3, BoundAtEnd DEF Shutdown
<1>4. CASE Top
  BY <1>0, <1>4, BoundKept DEF Top, ReportsBound
<1>5. CASE Flatten
  BY <1>0, <1>5, BoundUntouched DEF Flatten
<1>6. CASE CloseAll
  BY <1>0, <1>6, BoundUntouched DEF CloseAll
<1>7. CASE Nightly
  BY <1>7, BoundAtNightly
<1>8. CASE MarkNightlyRan
  BY <1>8, BoundAtMark
<1>9. CASE PhaseCheck
  BY <1>0, <1>9, BoundUntouched DEF PhaseCheck
<1>10. CASE PhaseCheckSkipped
  BY <1>0, <1>10, BoundUntouched DEF PhaseCheckSkipped
<1>11. CASE Submit
  BY <1>0, <1>11, BoundUntouched DEF Submit
<1>12. CASE RunCycle
  BY <1>0, <1>12, BoundKept DEF RunCycle, ReportsBound
<1>13. CASE SyncPositions
  BY <1>0, <1>13, BoundUntouched DEF SyncPositions
<1>14. CASE PressForceClose
  BY <1>0, <1>14, BoundUntouched DEF PressForceClose
<1>15. CASE EmergencyClose
  BY <1>0, <1>15, BoundUntouched DEF EmergencyClose
<1>16. CASE Resume
  BY <1>0, <1>16, BoundUntouched DEF Resume
<1>17. CASE Tick
  <2>1. clock'.day \in Days /\ clock.day <= clock'.day
    BY <1>17, ClockType DEF Tick, TypeOK, ClockTypes, Clock
  <2> QED BY <2>1, <1>17, BoundUntouched DEF Tick
<1>18. ASSUME NEW s \in Symbols, ReleaseEntry(s) PROVE ReportsBound'
  BY <1>0, <1>18, BoundUntouched DEF ReleaseEntry
<1>19. ASSUME NEW s \in Symbols, Scalp(s) PROVE ReportsBound'
  BY <1>0, <1>19, BoundUntouched DEF Scalp
<1>20. ASSUME NEW s \in Symbols, SellTracked(s) PROVE ReportsBound'
  BY <1>0, <1>20, BoundUntouched DEF SellTracked, Exited
<1>21. ASSUME NEW s \in Symbols, Executes(s) PROVE ReportsBound'
  BY <1>0, <1>21, BoundUntouched DEF Executes
<1>22. CASE UNCHANGED vars
  BY <1>0, <1>22, BoundUntouched DEF vars
<1> QED
  BY <1>1, <1>2, <1>3, <1>4, <1>5, <1>6, <1>7, <1>8, <1>9, <1>10, <1>11,
     <1>12, <1>13, <1>14, <1>15, <1>16, <1>17, <1>18, <1>19, <1>20, <1>21,
     <1>22 DEF Next, LoopStep

(* For every calendar, crash and failed write: the report of a day runs    *)
(* once, and once more for each process that died without its marker.      *)
THEOREM ReportedOnce == Spec => []NightlyOnce
<1>1. Init => TypeOK /\ ReportsBound
  BY TypeInit, BoundInit
<1>2. TypeOK /\ ReportsBound /\ [Next]_vars => TypeOK' /\ ReportsBound'
  BY TypeStep, BoundStep
<1>3. TypeOK /\ ReportsBound => NightlyOnce
  <2> SUFFICES ASSUME TypeOK, ReportsBound, NEW d \in Days
               PROVE  reports[d] <= 1 + lost[d]
    BY DEF NightlyOnce
  <2>1. reports[d] \in Nat /\ lost[d] \in Nat
    BY DEF TypeOK, FileTypes
  <2> QED BY <2>1 DEF ReportsBound
<1> QED BY <1>1, <1>2, <1>3, PTL DEF Spec
-----------------------------------------------------------------------------
(* Behind ResetInTime and OvernightExplained: the loop looks at a moment   *)
(* that is past, the flatten stage is entered late in a trading day, and   *)
(* past the top of the loop the session state is of the day it looks at.   *)
Calendar ==
    /\ resetDay <= seen.day
    /\ \/ seen.day < clock.day
       \/ seen.day = clock.day /\ seen.time <= clock.time

FlattenStage == loop \in {"flatten", "close"} => FlattenDue(seen)

ResetDone ==
    loop \notin {"top", "down"} /\ InTradingWindow(seen)
        => resetDay = seen.day \/ seen.time >= close

(* A day that is reset and flattened is over: it buys nothing any more. *)
FlattenedLate ==
    flattened /\ ~afterHours /\ resetDay = seen.day /\ TradingDayOf(seen)
        => seen.time >= late

Session == Calendar /\ FlattenStage /\ ResetDone /\ FlattenedLate

(* Until the market closes, a close that was accepted explains a position. *)
Explained ==
    flattened /\ ~afterHours =>
        /\ held \ excused \subseteq closing
        /\ held \subseteq excused \/ MarketOpen(clock)

(* While the button's answer stands, entries are paused, so only what was  *)
(* in flight when it was pressed can still buy.                            *)
FlatKept ==
    /\ answer # "none" => paused /\ buying \subseteq flight
    /\ answer = "flat" => held \subseteq flight

LEMMA TimesOfClocks ==
    ASSUME ClockTypes
    PROVE  /\ clock.time \in 0..7 /\ seen.time \in 0..7
           /\ clock.day \in Nat /\ seen.day \in Nat
           /\ resetDay \in Nat
  BY DayAssumption DEF ClockTypes, Clock, Days, Times, night, dark

(* Steps that leave the clock, the look and the session state alone and    *)
(* move the loop neither past its top nor into the flatten.                *)
LEMMA SessionQuiet ==
    ASSUME Session, UNCHANGED <<clock, afterHours, seen, resetDay, flattened>>,
           loop' \in {"flatten", "close"} => loop \in {"flatten", "close"},
           loop' \notin {"top", "down"} => loop \notin {"top", "down"}
    PROVE  Session'
  BY DEF Session, Calendar, FlattenStage, ResetDone, FlattenedLate,
         FlattenDue, InTradingWindow, TradingDayOf, LastTradingTime

(* A process begins or ends: it looks at the present and has no flatten. *)
LEMMA SessionAfresh ==
    ASSUME TypeOK, Session, clock' = clock, seen' = clock, flattened' = FALSE,
           resetDay' \in {0, clock.day}, loop' \in {"top", "down"}
    PROVE  Session'
<1>1. clock.day \in Nat /\ clock.time \in 0..7
  BY TimesOfClocks DEF TypeOK
<1>2. Calendar'
  BY <1>1 DEF Calendar
<1> QED
  BY <1>2 DEF Session, FlattenStage, ResetDone, FlattenedLate

(* The top of the loop looks at the clock and resets when it must. *)
LEMMA SessionAtTop == TypeOK /\ Session /\ Top => Session'
<1> SUFFICES ASSUME TypeOK, Session, Top PROVE Session'
  OBVIOUS
<1>1. /\ clock' = clock /\ seen' = clock /\ afterHours' = afterHours
      /\ clock.day \in Nat /\ clock.time \in 0..7 /\ seen.day \in Nat
      /\ seen.time \in 0..7 /\ resetDay \in Nat
  BY TimesOfClocks DEF Top, TypeOK, life
<1>2. loop' \in {"flatten", "nightly"}
      /\ (loop' = "flatten" => FlattenDue(clock) /\ ~flattened')
  BY DEF Top
<1>3. FlattenStage'
  BY <1>1, <1>2
     DEF FlattenStage, FlattenDue, TradingDayOf, LastTradingTime
<1>4. CASE ResetDue(clock, MarketPhase(clock), FALSE)
  <2>1. resetDay' = clock.day /\ flattened' = FALSE
    BY <1>4 DEF Top, SessionReset
  <2> QED
    BY <1>1, <1>3, <2>1 DEF Session, Calendar, ResetDone, FlattenedLate
<1>5. CASE ~ResetDue(clock, MarketPhase(clock), FALSE)
  <2>1. resetDay' = resetDay /\ flattened' = flattened
    BY <1>5 DEF Top
  <2>2. Calendar'
    BY <1>1, <2>1 DEF Session, Calendar
  <2>3. TradingDayOf(clock) /\ clock.time \in {pre, open, late}
          => resetDay = clock.day
    BY <1>1, <1>5
       DEF ResetDue, MarketPhase, night, pre, open, late, close, after, evening, dark
  <2>4. ResetDone'
    BY <1>1, <2>1, <2>3
       DEF ResetDone, InTradingWindow, TradingDayOf, LastTradingTime,
           pre, open, late, close, after
  <2>5. FlattenedLate'
    BY <1>1, <2>1 DEF Session, Calendar, FlattenedLate, TradingDayOf, late
  <2> QED
    BY <1>3, <2>2, <2>4, <2>5 DEF Session
<1> QED
  BY <1>4, <1>5

(* The flatten ends with its flag up, and only a late hour leads into it. *)
LEMMA SessionAtFlatten ==
    ASSUME TypeOK, Session, loop \in {"flatten", "close"},
           UNCHANGED <<clock, afterHours, seen, resetDay>>,
           flattened' \in {flattened, TRUE}, loop' \in {"close", "nightly"}
    PROVE  Session'
<1>1. FlattenDue(seen) /\ seen.time \in 0..7
  BY TimesOfClocks DEF TypeOK, Session, FlattenStage
<1>2. Calendar' /\ FlattenStage' /\ ResetDone'
  BY <1>1 DEF Session, Calendar, FlattenStage, ResetDone, FlattenDue,
              InTradingWindow, TradingDayOf, LastTradingTime
<1>3. FlattenedLate'
  BY <1>1 DEF FlattenedLate, FlattenDue, TradingDayOf, LastTradingTime, open, late, after
<1> QED
  BY <1>2, <1>3 DEF Session

LEMMA SessionAtPhase == TypeOK /\ Session /\ PhaseCheck => Session'
<1> SUFFICES ASSUME TypeOK, Session, PhaseCheck PROVE Session'
  OBVIOUS
<1>1. /\ UNCHANGED <<clock, afterHours, seen>> /\ loop = "phase" /\ loop' = "orders"
      /\ seen.day \in Nat
  BY TimesOfClocks DEF PhaseCheck, TypeOK, life
<1>2. \/ resetDay' = seen.day /\ flattened' = FALSE
      \/ UNCHANGED <<resetDay, flattened>>
  BY DEF PhaseCheck, SessionReset
<1>3. CASE resetDay' = seen.day /\ flattened' = FALSE
  BY <1>1, <1>3 DEF Session, Calendar, FlattenStage, ResetDone, FlattenedLate
<1>4. CASE UNCHANGED <<resetDay, flattened>>
  BY <1>1, <1>4, SessionQuiet
<1> QED
  BY <1>2, <1>3, <1>4

LEMMA SessionAtTick == TypeOK /\ Session /\ Tick => Session'
<1> SUFFICES ASSUME TypeOK, Session, Tick PROVE Session'
  OBVIOUS
<1>1. UNCHANGED <<process, afterHours>> /\ clock' = NextInterval
  BY DEF Tick, life
<1>2. /\ clock.time \in 0..7 /\ clock.day \in Nat
      /\ seen.time \in 0..7 /\ seen.day \in Nat
  BY TimesOfClocks DEF TypeOK
<1>3. \/ clock'.day = clock.day /\ clock'.time = clock.time + 1
      \/ clock'.day = clock.day + 1
  <2>1. CASE clock.time < dark
    BY <1>1, <2>1 DEF NextInterval, TypeOK, ClockTypes, Clock
  <2>2. CASE ~(clock.time < dark)
    BY <1>1, <2>2 DEF NextInterval
  <2> QED
    BY <2>1, <2>2
<1>4. Calendar'
  BY <1>1, <1>2, <1>3 DEF Session, Calendar, process
<1> QED
  BY <1>1, <1>4 DEF Session, FlattenStage, ResetDone, FlattenedLate, process,
     FlattenDue, InTradingWindow, TradingDayOf, LastTradingTime

LEMMA SessionInit == Init => Session
<1> SUFFICES ASSUME Init PROVE Session
  OBVIOUS
<1>1. TypeOK
  BY TypeInit
<1>2. clock.day \in Nat /\ clock.time \in 0..7
  BY <1>1, TimesOfClocks DEF TypeOK
<1> QED
  BY <1>2 DEF Init, Session, Calendar, FlattenStage, ResetDone, FlattenedLate

LEMMA SessionStep == TypeOK /\ Session /\ [Next]_vars => Session'
<1> SUFFICES ASSUME TypeOK, Session, [Next]_vars PROVE Session'
  OBVIOUS
<1> USE DEF process, account, entries, desk, files, life
<1>1. CASE Boot
  BY <1>1, SessionAfresh DEF Boot
<1>2. CASE Crash \/ Shutdown
  BY <1>2, SessionAfresh DEF Crash, Shutdown, ProcessEnds
<1>3. CASE Top
  BY <1>3, SessionAtTop
<1>4. CASE Flatten
  BY <1>4, SessionAtFlatten DEF Flatten
<1>5. CASE CloseAll
  BY <1>5, SessionAtFlatten DEF CloseAll
<1>6. CASE Nightly
  BY <1>6, SessionQuiet DEF Nightly
<1>7. CASE MarkNightlyRan
  BY <1>7, SessionQuiet DEF MarkNightlyRan
<1>8. CASE PhaseCheck
  BY <1>8, SessionAtPhase
<1>9. CASE PhaseCheckSkipped
  BY <1>9, SessionQuiet DEF PhaseCheckSkipped
<1>10. CASE Submit
  BY <1>10, SessionQuiet DEF Submit
<1>11. CASE RunCycle
  BY <1>11, SessionQuiet DEF RunCycle
<1>12. CASE SyncPositions
  BY <1>12, SessionQuiet DEF SyncPositions
<1>13. CASE PressForceClose \/ Resume
  BY <1>13, SessionQuiet DEF PressForceClose, Resume
<1>14. CASE EmergencyClose
  BY <1>14, SessionQuiet DEF EmergencyClose
<1>15. CASE Tick
  BY <1>15, SessionAtTick
<1>16. ASSUME NEW s \in Symbols, ReleaseEntry(s) PROVE Session'
  BY <1>16, SessionQuiet DEF ReleaseEntry
<1>17. ASSUME NEW s \in Symbols, Scalp(s) PROVE Session'
  BY <1>17, SessionQuiet DEF Scalp
<1>18. ASSUME NEW s \in Symbols, SellTracked(s) PROVE Session'
  BY <1>18, SessionQuiet DEF SellTracked, Exited
<1>19. ASSUME NEW s \in Symbols, Executes(s) PROVE Session'
  BY <1>19, SessionQuiet DEF Executes
<1>20. CASE UNCHANGED vars
  BY <1>20, SessionQuiet DEF vars
<1> QED
  BY <1>1, <1>2, <1>3, <1>4, <1>5, <1>6, <1>7, <1>8, <1>9, <1>10, <1>11,
     <1>12, <1>13, <1>14, <1>15, <1>16, <1>17, <1>18, <1>19, <1>20
     DEF Next, LoopStep

(* Whatever is slept through, crashed or started again: orders go out in   *)
(* the window only on a session state of the day (_daily_session_reset).   *)
THEOREM ResetsInTime == Spec => []ResetInTime
<1>1. Init => TypeOK /\ Session
  BY TypeInit, SessionInit
<1>2. TypeOK /\ Session /\ [Next]_vars => TypeOK' /\ Session'
  BY TypeStep, SessionStep
<1>3. Session => ResetInTime
  BY DEF Session, ResetDone, ResetInTime
<1> QED BY <1>1, <1>2, <1>3, PTL DEF Spec

-----------------------------------------------------------------------------
(* No step of the loop between its top and its orders opens a position. *)
LEMMA ExplainedQuiet ==
    ASSUME Explained,
           UNCHANGED <<clock, afterHours, held, closing, excused>>,
           flattened' => flattened
    PROVE  Explained'
  BY DEF Explained, MarketOpen, TradingDayOf

(* A position that ends takes its close order and its reason with it. *)
LEMMA ExplainedLess ==
    ASSUME Explained, NEW s, UNCHANGED <<clock, afterHours, flattened>>,
           held' = held \ {s}, closing' = closing \ {s},
           excused' = excused \ {s}
    PROVE  Explained'
  BY DEF Explained, MarketOpen, TradingDayOf

(* An exit that sweeps a close and does not sell leaves a reason for it. *)
LEMMA ExplainedAtExit ==
    ASSUME Explained, NEW s \in Symbols, SellTracked(s)
    PROVE  Explained'
<1>1. PICK swept \in SUBSET ({s} \cap closing), sold \in SUBSET ({s} \cap held) :
        Exited(s, swept, sold)
  BY DEF SellTracked
<1>2. UNCHANGED <<clock, afterHours, flattened>>
  BY DEF SellTracked, process, life
<1>3. /\ held' = held \ sold /\ closing' = closing \ swept
      /\ excused' = (excused \cup swept) \ sold
  BY <1>1 DEF Exited
<1>4. MarketOpen(clock)' <=> MarketOpen(clock)
  BY <1>2 DEF MarketOpen, TradingDayOf
<1> QED
  BY <1>2, <1>3, <1>4 DEF Explained

(* An order inside the window finds the flatten flag down; outside it, what *)
(* it buys and the close it sweeps count as reasons.                        *)
LEMMA ExplainedAtSubmit ==
    TypeOK /\ Session /\ Explained /\ Submit => Explained'
<1> SUFFICES ASSUME TypeOK, Session, Explained, Submit, flattened', ~afterHours'
             PROVE  /\ held' \ excused' \subseteq closing'
                    /\ held' \subseteq excused' \/ MarketOpen(clock)'
  BY DEF Explained
<1>1. UNCHANGED <<clock, afterHours, flattened, seen>> /\ loop = "submit"
  BY DEF Submit, life
<1>2. flattened /\ ~afterHours
  BY <1>1
<1>3. ~InTradingWindow(seen)
  <2> SUFFICES ASSUME InTradingWindow(seen) PROVE FALSE
    OBVIOUS
  <2>1. seen.time \in 0..7
    BY TimesOfClocks DEF TypeOK
  <2>2. TradingDayOf(seen) /\ seen.time \in pre..open
    BY <1>2 DEF InTradingWindow, LastTradingTime
  <2>3. resetDay = seen.day
    BY <1>1, <2>1, <2>2 DEF Session, ResetDone, pre, open, close
  <2> QED
    BY <1>2, <2>1, <2>2, <2>3 DEF Session, FlattenedLate, pre, open, late
<1>4. PICK filled \in {buying, {}} :
        /\ held' = held \cup filled
        /\ excused' = excused \cup (closing \cap buying) \cup filled
        /\ closing' = closing \ buying
  BY <1>3 DEF Submit
<1>5. /\ held \ excused \subseteq closing
      /\ held \subseteq excused \/ MarketOpen(clock)
  BY <1>2 DEF Explained
<1>6. MarketOpen(clock)' <=> MarketOpen(clock)
  BY <1>1 DEF MarketOpen, TradingDayOf
<1>7. held' \ excused' \subseteq closing'
  BY <1>4, <1>5
<1>8. held \subseteq excused => held' \subseteq excused'
  BY <1>4
<1> QED
  BY <1>5, <1>6, <1>7, <1>8

(* The flatten leaves an accepted close or a reason for every position. *)
LEMMA ExplainedAtFlatten ==
    TypeOK /\ Explained /\ (Flatten \/ CloseAll) => Explained'
<1>1. ASSUME Explained, Flatten PROVE Explained'
  BY <1>1 DEF Flatten, Explained, life, MarketOpen, TradingDayOf
<1>2. ASSUME CloseAll PROVE Explained'
  <2>1. PICK accepted \in SUBSET held :
          /\ closing' = accepted
          /\ excused' = excused \cup (IF MarketOpen(clock)
                                      THEN held \ accepted ELSE held)
    BY <1>2 DEF CloseAll
  <2>2. UNCHANGED <<clock, held>>
    BY <1>2 DEF CloseAll
  <2>3. MarketOpen(clock)' <=> MarketOpen(clock)
    BY <2>2 DEF MarketOpen, TradingDayOf
  <2> QED
    BY <2>1, <2>2, <2>3 DEF Explained
<1> QED
  BY <1>1, <1>2

(* The desk's close leaves positions only with their reason or a close. *)
LEMMA ExplainedAtEmergency ==
    TypeOK /\ Explained /\ EmergencyClose => Explained'
<1> SUFFICES ASSUME TypeOK, Explained, EmergencyClose PROVE Explained'
  OBVIOUS
<1>1. PICK left \in SUBSET held :
        /\ held' = left /\ excused' = excused \cap left
        /\ closing' \in {closing \cap left, left}
  BY DEF EmergencyClose
<1>2. UNCHANGED <<clock, afterHours, flattened>>
  BY DEF EmergencyClose, process, life
<1>3. MarketOpen(clock)' <=> MarketOpen(clock)
  BY <1>2 DEF MarketOpen, TradingDayOf
<1> QED
  BY <1>1, <1>2, <1>3 DEF Explained

(* The market closes only by the tick that turns open closes into reasons. *)
LEMMA ExplainedAtTick == TypeOK /\ Explained /\ Tick => Explained'
<1> SUFFICES ASSUME TypeOK, Explained, Tick PROVE Explained'
  OBVIOUS
<1>1. UNCHANGED <<afterHours, flattened, held>> /\ clock' = NextInterval
  BY DEF Tick, process, life
<1>2. clock.time \in 0..7 /\ clock.day \in Nat
  BY TimesOfClocks DEF TypeOK
<1>3. CASE clock.time = late
  BY <1>1, <1>3 DEF Tick, Explained
<1>4. CASE clock.time # late
  <2>1. UNCHANGED <<closing, excused>>
    BY <1>4 DEF Tick
  <2>2. MarketOpen(clock) => MarketOpen(clock)'
    <3> SUFFICES ASSUME MarketOpen(clock) PROVE MarketOpen(clock)'
      OBVIOUS
    <3>1. clock.time = open
      BY <1>4 DEF MarketOpen
    <3>2. clock' = [clock EXCEPT !.time = clock.time + 1]
      BY <1>1, <3>1 DEF NextInterval, open, dark
    <3>3. clock'.time = late /\ clock'.day = clock.day
      BY <3>1, <3>2 DEF TypeOK, ClockTypes, Clock, open, late
    <3> QED
      BY <3>3 DEF MarketOpen, TradingDayOf
  <2> QED
    BY <1>1, <2>1, <2>2 DEF Explained
<1> QED
  BY <1>3, <1>4

LEMMA ExplainedStep ==
    TypeOK /\ Session /\ Explained /\ [Next]_vars => Explained'
<1> SUFFICES ASSUME TypeOK, Session, Explained, [Next]_vars PROVE Explained'
  OBVIOUS
<1> USE DEF process, account, entries, desk, files, life
<1>1. CASE Boot
  BY <1>1 DEF Boot, Explained
<1>2. CASE Crash \/ Shutdown
  BY <1>2 DEF Crash, Shutdown, ProcessEnds, Explained
<1>3. CASE Top
  BY <1>3, ExplainedQuiet DEF Top, SessionReset
<1>4. CASE Flatten \/ CloseAll
  BY <1>4, ExplainedAtFlatten
<1>5. CASE Nightly
  BY <1>5, ExplainedQuiet DEF Nightly
<1>6. CASE MarkNightlyRan
  BY <1>6, ExplainedQuiet DEF MarkNightlyRan
<1>7. CASE PhaseCheck
  BY <1>7, ExplainedQuiet DEF PhaseCheck, SessionReset
<1>8. CASE PhaseCheckSkipped
  BY <1>8, ExplainedQuiet DEF PhaseCheckSkipped
<1>9. CASE Submit
  BY <1>9, ExplainedAtSubmit
<1>10. CASE RunCycle
  BY <1>10, ExplainedQuiet DEF RunCycle
<1>11. CASE SyncPositions
  BY <1>11, ExplainedQuiet DEF SyncPositions
<1>12. CASE PressForceClose \/ Resume
  BY <1>12, ExplainedQuiet DEF PressForceClose, Resume
<1>13. CASE EmergencyClose
  BY <1>13, ExplainedAtEmergency
<1>14. CASE Tick
  BY <1>14, ExplainedAtTick
<1>15. ASSUME NEW s \in Symbols, ReleaseEntry(s) PROVE Explained'
  BY <1>15, ExplainedQuiet DEF ReleaseEntry
<1>16. ASSUME NEW s \in Symbols, Scalp(s) PROVE Explained'
  BY <1>16, ExplainedQuiet DEF Scalp
<1>17. ASSUME NEW s \in Symbols, SellTracked(s) PROVE Explained'
  BY <1>17, ExplainedAtExit
<1>18. ASSUME NEW s \in Symbols, Executes(s) PROVE Explained'
  BY <1>18, ExplainedLess DEF Executes
<1>19. CASE UNCHANGED vars
  BY <1>19, ExplainedQuiet DEF vars
<1> QED
  BY <1>1, <1>2, <1>3, <1>4, <1>5, <1>6, <1>7, <1>8, <1>9, <1>10, <1>11,
     <1>12, <1>13, <1>14, <1>15, <1>16, <1>17, <1>18, <1>19
     DEF Next, LoopStep

(* What a process that has flattened still holds after the close has a     *)
(* reason, for any number of symbols, days, holidays and restarts.         *)
THEOREM NothingHeldUnexplained == Spec => []OvernightExplained
<1>1. Init => TypeOK /\ Session /\ Explained
  BY TypeInit, SessionInit DEF Init, Explained
<1>2. TypeOK /\ Session /\ Explained /\ [Next]_vars
        => TypeOK' /\ Session' /\ Explained'
  BY TypeStep, SessionStep, ExplainedStep
<1>3. TypeOK /\ Explained => OvernightExplained
  <2> SUFFICES ASSUME TypeOK, Explained, clock.time >= close, flattened,
                      ~afterHours
               PROVE  held \subseteq excused
    BY DEF OvernightExplained
  <2>1. ~MarketOpen(clock)
    BY TimesOfClocks DEF TypeOK, MarketOpen, open, late, close
  <2> QED BY <2>1 DEF Explained
<1> QED BY <1>1, <1>2, <1>3, PTL DEF Spec

-----------------------------------------------------------------------------
LEMMA FlatQuiet ==
    ASSUME FlatKept, UNCHANGED <<answer, flight, paused>>,
           buying' \subseteq buying, held' \subseteq held
    PROVE  FlatKept'
  BY DEF FlatKept

LEMMA FlatStep == FlatKept /\ [Next]_vars => FlatKept'
<1> SUFFICES ASSUME FlatKept, [Next]_vars PROVE FlatKept'
  OBVIOUS
<1> USE DEF process, account, entries, desk, files, life
<1>1. CASE Boot
  BY <1>1, FlatQuiet DEF Boot
<1>2. CASE Crash \/ Shutdown
  BY <1>2 DEF Crash, Shutdown, ProcessEnds, FlatKept
<1>3. CASE Top \/ Flatten
  BY <1>3, FlatQuiet DEF Top, Flatten
<1>4. CASE CloseAll
  BY <1>4, FlatQuiet DEF CloseAll
<1>5. CASE Nightly
  BY <1>5, FlatQuiet DEF Nightly
<1>6. CASE MarkNightlyRan
  BY <1>6, FlatQuiet DEF MarkNightlyRan
<1>7. CASE PhaseCheck \/ PhaseCheckSkipped
  BY <1>7, FlatQuiet DEF PhaseCheck, PhaseCheckSkipped
<1>8. CASE Submit
  <2>1. held' \subseteq held \cup buying /\ buying' = {}
        /\ UNCHANGED <<answer, flight, paused>>
    BY <1>8 DEF Submit
  <2> QED BY <2>1 DEF FlatKept
<1>9. CASE RunCycle
  BY <1>9, FlatQuiet DEF RunCycle
<1>10. CASE SyncPositions
  BY <1>10, FlatQuiet DEF SyncPositions
<1>11. CASE PressForceClose \/ Resume
  BY <1>11 DEF PressForceClose, Resume, FlatKept
<1>12. CASE EmergencyClose
  <2>1. /\ answer = "pressed" /\ UNCHANGED <<buying, paused>>
        /\ \/ answer' = "flat" /\ held' = {} /\ flight' = flight
           \/ answer' = "none"
    BY <1>12 DEF EmergencyClose
  <2> QED BY <2>1 DEF FlatKept
<1>13. CASE Tick
  BY <1>13, FlatQuiet DEF Tick
<1>14. ASSUME NEW s \in Symbols, ReleaseEntry(s) \/ Scalp(s) PROVE FlatKept'
  <2>1. /\ buying' = buying \/ ~paused
        /\ UNCHANGED <<answer, flight, paused, held>>
    BY <1>14 DEF ReleaseEntry, Scalp, MayEnter
  <2> QED BY <2>1 DEF FlatKept
<1>15. ASSUME NEW s \in Symbols, SellTracked(s) \/ Executes(s) PROVE FlatKept'
  BY <1>15, FlatQuiet DEF SellTracked, Exited, Executes
<1>16. CASE UNCHANGED vars
  BY <1>16, FlatQuiet DEF vars
<1> QED
  BY <1>1, <1>2, <1>3, <1>4, <1>5, <1>6, <1>7, <1>8, <1>9, <1>10, <1>11,
     <1>12, <1>13, <1>14, <1>15, <1>16 DEF Next, LoopStep

(* A flat answer that was read stays true until trading resumes, but for   *)
(* the entry in flight (force_close_all and the gates of the entries).     *)
THEOREM FlatIsKept == Spec => []FlatStaysFlat
<1>1. Init => FlatKept
  BY DEF Init, FlatKept
<1>2. FlatKept => FlatStaysFlat
  BY DEF FlatKept, FlatStaysFlat
<1> QED BY <1>1, <1>2, FlatStep, PTL DEF Spec
=============================================================================
