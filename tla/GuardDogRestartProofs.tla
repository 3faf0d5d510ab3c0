------------------------ MODULE GuardDogRestartProofs ------------------------
(***************************************************************************)
(* GuardDogRestart for every value of the intervals, the cap and the       *)
(* number of crashes, however runs overlap and are killed: types, the      *)
(* grace period and the cooldown, and the daily cap.                       *)
(***************************************************************************)
EXTENDS GuardDogRestart, TLAPS

USE GuardDogAssumption DEF GuardDogAssumption

LEMMA Constants ==
    /\ MinUptime \in Nat /\ StartGrace \in Nat /\ Grace \in Nat /\ Cooldown \in Nat
    /\ AlertEvery \in Nat /\ Window \in Nat /\ MaxDaily \in Nat /\ MaxFails \in Nat
    /\ ProcFails \in Nat /\ MaxCrashes \in Nat
OBVIOUS

LEMMA LongestFacts == Longest \in Nat /\ Grace <= Longest
BY Constants DEF Longest

(***************************************************************************)
(* The dates.                                                              *)
(***************************************************************************)
Dates == {"boot", "tak", "restart", "cooldown", "window", "alert"}

SinceOK == DOMAIN since = Dates /\ \A x \in Dates : since[x] \in 0..Limit[x]

LEMMA LimitFacts ==
    /\ DOMAIN Limit = Dates
    /\ Limit["boot"] = MinUptime /\ Limit["tak"] = StartGrace /\ Limit["restart"] = Grace
    /\ Limit["cooldown"] = Cooldown /\ Limit["window"] = Window /\ Limit["alert"] = AlertEvery
BY DEF Limit, Dates

LEMMA LimitNat == \A x \in Dates : Limit[x] \in Nat
BY LimitFacts, Constants DEF Dates

LEMMA DateType == ASSUME SinceOK, NEW x \in Dates, Date(x) PROVE SinceOK'
BY LimitNat DEF SinceOK, Date, Limit

LEMMA UndateType == ASSUME SinceOK, NEW x \in Dates, Undate(x) PROVE SinceOK'
BY LimitNat DEF SinceOK, Undate, Limit

LEMMA CapDatesType == ASSUME SinceOK, NEW also, CapDates(also) PROVE SinceOK'
BY LimitNat DEF SinceOK, CapDates

LEMMA SinceInit == Init => SinceOK
<1> SUFFICES ASSUME Init PROVE SinceOK
    OBVIOUS
<1>1. DOMAIN since = Dates
    BY LimitFacts DEF Init
<1>2. \A x \in Dates : since[x] = 0 \/ since[x] = Limit[x]
    BY LimitFacts DEF Init, Dates
<1>3. QED
    BY <1>1, <1>2, LimitNat DEF SinceOK

(***************************************************************************)
(* Types.  A run that is about to restart has read a counter below the cap. *)
(***************************************************************************)
States == {"idle", "cap", "take", "date", "count", "stop", "kill", "start", "unlock"}

RunsOK == /\ pc \in [Monitors -> States] /\ daily \in [Monitors -> 0..MaxDaily]
          /\ \A w \in Monitors : pc[w] \in {"take", "date", "count"} => daily[w] < MaxDaily

CountsOK == /\ count \in 0..MaxDaily /\ fails \in 0..MaxFails /\ procFails \in 0..ProcFails
            /\ crashes \in 0..MaxCrashes /\ done \in 0..MaxDaily + 1
            /\ tookAgo \in [Monitors -> 0..Longest]

WorldOK == /\ tak \in {"active", "failed", "stopped"} /\ bad \subseteq {"port", "procs", "oom"}
           /\ lock \in BOOLEAN /\ oomState \in BOOLEAN /\ leaked \in BOOLEAN /\ raced \in BOOLEAN

StaleOK == stale \subseteq Lockers

Types == SinceOK /\ RunsOK /\ CountsOK /\ WorldOK /\ StaleOK

LEMMA TypesInit == Init => Types
<1> SUFFICES ASSUME Init PROVE Types
    OBVIOUS
<1>1. RunsOK
    BY Constants DEF Init, RunsOK, States
<1>2. CountsOK
    BY Constants, LongestFacts DEF Init, CountsOK
<1>3. WorldOK
    BY DEF Init, WorldOK
<1>4. StaleOK
    BY DEF Init, StaleOK
<1>5. QED
    BY <1>1, <1>2, <1>3, <1>4, SinceInit DEF Types

LEMMA BadKinds ==
    Types => /\ bad \subseteq {"port", "procs", "oom"}
             /\ Faults \subseteq {"port", "procs", "oom"}
BY DEF Types, WorldOK

LEMMA SinceStep ==
    ASSUME Types, [Next]_vars
    PROVE  SinceOK'
<1> USE Constants DEF takVars, lockVars, failVars, runVars, histVars, Types
<1>1. CASE UNCHANGED vars
    BY <1>1 DEF vars, SinceOK
<1>2. CASE Check8089
    BY <1>2 DEF Check8089, Gates8089, MayCheck, Goto, UpTo, SinceOK
<1>3. CASE Cap8089
    <2>1. since' = since => SinceOK'
        BY DEF SinceOK
    <2>2. since' = since \/ CapDates({"cooldown"}) \/ CapDates({})
        BY <1>3 DEF Cap8089
    <2>3. QED
        BY <2>1, <2>2, CapDatesType
<1>4. CASE CheckFailedUnit \/ CheckStoppedUnit
    BY <1>4 DEF CheckFailedUnit, CheckStoppedUnit, MayCheck, Goto, SinceOK
<1>5. CASE CheckProcesses
    <2>1. since' = since => SinceOK'
        BY DEF SinceOK
    <2>2. since' = since \/ Date("alert") \/ Undate("alert")
        BY <1>5 DEF CheckProcesses
    <2>3. QED
        BY <2>1, <2>2, DateType, UndateType DEF Dates
<1>6. CASE CheckOom
    BY <1>6 DEF CheckOom, MayCheck, Goto, SinceOK
<1>7. CASE OperatorStop \/ OperatorStart
    BY <1>7, DateType DEF OperatorStop, OperatorStart, UnitStart, Dates, SinceOK
<1>8. CASE Reboot
    BY <1>8, LimitNat, LimitFacts DEF Reboot, SinceOK, Dates
<1>9. CASE Tick
    BY <1>9, LimitNat DEF Tick, UpTo, SinceOK
<1>10. ASSUME NEW w \in Monitors, CapOther(w) PROVE SinceOK'
    BY <1>10, CapDatesType DEF CapOther
<1>11. ASSUME NEW w \in Monitors, TouchLock(w) PROVE SinceOK'
    BY <1>11 DEF TouchLock, SinceOK
<1>12. ASSUME NEW w \in Monitors, DateRestart(w) PROVE SinceOK'
    BY <1>12, DateType DEF DateRestart, Dates
<1>13. ASSUME NEW w \in Monitors, CountRestart(w) PROVE SinceOK'
    BY <1>13 DEF CountRestart, SinceOK
<1>14. ASSUME NEW w \in Monitors, Stop(w) \/ KillOrphans(w) PROVE SinceOK'
    BY <1>14 DEF Stop, KillOrphans, Goto, SinceOK
<1>15. ASSUME NEW w \in Monitors, Start(w) PROVE SinceOK'
    BY <1>15, DateType DEF Start, UnitStart, Dates, SinceOK
<1>16. ASSUME NEW w \in Monitors, Unlock(w) PROVE SinceOK'
    BY <1>16 DEF Unlock, Goto, SinceOK
<1>17. ASSUME NEW w \in Monitors, CrashMonitor(w) PROVE SinceOK'
    BY <1>17 DEF CrashMonitor, Killed, SinceOK
<1>18. ASSUME NEW b \in {"port", "procs", "oom"}, Break(b) \/ Mend(b) PROVE SinceOK'
    BY <1>18 DEF Break, Mend, SinceOK
<1>19. QED
    BY <1>1, <1>2, <1>3, <1>4, <1>5, <1>6, <1>7, <1>8, <1>9, <1>10, <1>11, <1>12, <1>13, <1>14,
       <1>15, <1>16, <1>17, <1>18, BadKinds DEF Next, Act

LEMMA RunsStep ==
    ASSUME Types, [Next]_vars
    PROVE  RunsOK'
<1> USE Constants DEF takVars, lockVars, failVars, runVars, histVars, Types, RunsOK, CountsOK,
        Monitors,
                    Lockers, States
<1>1. CASE UNCHANGED vars
    BY <1>1 DEF vars
<1>2. CASE Check8089
    BY <1>2 DEF Check8089, Gates8089, MayCheck, Goto, UpTo
<1>3. CASE Cap8089
    BY <1>3 DEF Cap8089, RollWindow, EndAtCap, GoOn, Goto
<1>4. CASE CheckFailedUnit \/ CheckStoppedUnit
    BY <1>4 DEF CheckFailedUnit, CheckStoppedUnit, MayCheck, Goto
<1>5. CASE CheckProcesses
    BY <1>5 DEF CheckProcesses, MayCheck, Goto, UpTo
<1>6. CASE CheckOom
    BY <1>6 DEF CheckOom, MayCheck, Goto
<1>7. CASE OperatorStop \/ OperatorStart
    BY <1>7 DEF OperatorStop, OperatorStart, UnitStart
<1>8. CASE Reboot
    BY <1>8 DEF Reboot, Killed
<1>9. CASE Tick
    BY <1>9 DEF Tick, UpTo
<1>10. ASSUME NEW w \in Monitors, CapOther(w) PROVE RunsOK'
    BY <1>10 DEF CapOther, RollWindow, EndAtCap, GoOn, Goto
<1>11. ASSUME NEW w \in Monitors, TouchLock(w) PROVE RunsOK'
    BY <1>11 DEF TouchLock, Goto
<1>12. ASSUME NEW w \in Monitors, DateRestart(w) PROVE RunsOK'
    BY <1>12 DEF DateRestart, Blind, Goto
<1>13. ASSUME NEW w \in Monitors, CountRestart(w) PROVE RunsOK'
    BY <1>13 DEF CountRestart, UpTo, Goto
<1>14. ASSUME NEW w \in Monitors, Stop(w) \/ KillOrphans(w) PROVE RunsOK'
    BY <1>14 DEF Stop, KillOrphans, Goto
<1>15. ASSUME NEW w \in Monitors, Start(w) PROVE RunsOK'
    BY <1>15 DEF Start, UnitStart, Goto
<1>16. ASSUME NEW w \in Monitors, Unlock(w) PROVE RunsOK'
    BY <1>16 DEF Unlock, Goto
<1>17. ASSUME NEW w \in Monitors, CrashMonitor(w) PROVE RunsOK'
    BY <1>17 DEF CrashMonitor, Killed
<1>18. ASSUME NEW b \in {"port", "procs", "oom"}, Break(b) \/ Mend(b) PROVE RunsOK'
    BY <1>18 DEF Break, Mend
<1>19. QED
    BY <1>1, <1>2, <1>3, <1>4, <1>5, <1>6, <1>7, <1>8, <1>9, <1>10, <1>11, <1>12, <1>13, <1>14,
       <1>15, <1>16, <1>17, <1>18, BadKinds DEF Next, Act

LEMMA CountsStep ==
    ASSUME Types, [Next]_vars
    PROVE  CountsOK'
<1> USE Constants, LongestFacts DEF takVars, lockVars, failVars, runVars, histVars, Types, RunsOK,
                                  CountsOK, Counting
<1>1. CASE UNCHANGED vars
    BY <1>1 DEF vars
<1>2. CASE Check8089
    BY <1>2 DEF Check8089, Gates8089, MayCheck, Goto, UpTo
<1>3. CASE Cap8089
    BY <1>3 DEF Cap8089, RollWindow, EndAtCap, GoOn, Goto
<1>4. CASE CheckFailedUnit \/ CheckStoppedUnit
    BY <1>4 DEF CheckFailedUnit, CheckStoppedUnit, MayCheck, Goto
<1>5. CASE CheckProcesses
    BY <1>5 DEF CheckProcesses, MayCheck, Goto, UpTo
<1>6. CASE CheckOom
    BY <1>6 DEF CheckOom, MayCheck, Goto
<1>7. CASE OperatorStop \/ OperatorStart
    BY <1>7 DEF OperatorStop, OperatorStart, UnitStart
<1>8. CASE Reboot
    BY <1>8 DEF Reboot, Killed
<1>9. CASE Tick
    BY <1>9 DEF Tick, UpTo
<1>10. ASSUME NEW w \in Monitors, CapOther(w) PROVE CountsOK'
    BY <1>10 DEF CapOther, RollWindow, EndAtCap, GoOn, Goto
<1>11. ASSUME NEW w \in Monitors, TouchLock(w) PROVE CountsOK'
    BY <1>11 DEF TouchLock, Goto
<1>12. ASSUME NEW w \in Monitors, DateRestart(w) PROVE CountsOK'
    BY <1>12 DEF DateRestart, Blind, Goto
<1>13. ASSUME NEW w \in Monitors, CountRestart(w) PROVE CountsOK'
    BY <1>13 DEF CountRestart, UpTo, Goto
<1>14. ASSUME NEW w \in Monitors, Stop(w) \/ KillOrphans(w) PROVE CountsOK'
    BY <1>14 DEF Stop, KillOrphans, Goto
<1>15. ASSUME NEW w \in Monitors, Start(w) PROVE CountsOK'
    BY <1>15 DEF Start, UnitStart, Goto
<1>16. ASSUME NEW w \in Monitors, Unlock(w) PROVE CountsOK'
    BY <1>16 DEF Unlock, Goto
<1>17. ASSUME NEW w \in Monitors, CrashMonitor(w) PROVE CountsOK'
    BY <1>17 DEF CrashMonitor, Killed
<1>18. ASSUME NEW b \in {"port", "procs", "oom"}, Break(b) \/ Mend(b) PROVE CountsOK'
    BY <1>18 DEF Break, Mend
<1>19. QED
    BY <1>1, <1>2, <1>3, <1>4, <1>5, <1>6, <1>7, <1>8, <1>9, <1>10, <1>11, <1>12, <1>13, <1>14,
       <1>15, <1>16, <1>17, <1>18, BadKinds DEF Next, Act

LEMMA WorldStep ==
    ASSUME Types, [Next]_vars
    PROVE  WorldOK'
<1> USE Constants DEF takVars, lockVars, failVars, runVars, histVars, Types, WorldOK
<1>1. CASE UNCHANGED vars
    BY <1>1 DEF vars
<1>2. CASE Check8089
    BY <1>2 DEF Check8089, Gates8089, MayCheck, Goto, UpTo
<1>3. CASE Cap8089
    BY <1>3 DEF Cap8089, RollWindow, EndAtCap, GoOn, Goto
<1>4. CASE CheckFailedUnit \/ CheckStoppedUnit
    BY <1>4 DEF CheckFailedUnit, CheckStoppedUnit, MayCheck, Goto
<1>5. CASE CheckProcesses
    BY <1>5 DEF CheckProcesses, MayCheck, Goto, UpTo
<1>6. CASE CheckOom
    BY <1>6 DEF CheckOom, MayCheck, Goto
<1>7. CASE OperatorStop \/ OperatorStart
    BY <1>7 DEF OperatorStop, OperatorStart, UnitStart
<1>8. CASE Reboot
    BY <1>8 DEF Reboot, Killed
<1>9. CASE Tick
    BY <1>9 DEF Tick, UpTo
<1>10. ASSUME NEW w \in Monitors, CapOther(w) PROVE WorldOK'
    BY <1>10 DEF CapOther, RollWindow, EndAtCap, GoOn, Goto
<1>11. ASSUME NEW w \in Monitors, TouchLock(w) PROVE WorldOK'
    BY <1>11 DEF TouchLock, Goto
<1>12. ASSUME NEW w \in Monitors, DateRestart(w) PROVE WorldOK'
    BY <1>12 DEF DateRestart, Blind, Goto
<1>13. ASSUME NEW w \in Monitors, CountRestart(w) PROVE WorldOK'
    BY <1>13 DEF CountRestart, UpTo, Goto
<1>14. ASSUME NEW w \in Monitors, Stop(w) \/ KillOrphans(w) PROVE WorldOK'
    BY <1>14 DEF Stop, KillOrphans, Goto
<1>15. ASSUME NEW w \in Monitors, Start(w) PROVE WorldOK'
    BY <1>15 DEF Start, UnitStart, Goto
<1>16. ASSUME NEW w \in Monitors, Unlock(w) PROVE WorldOK'
    BY <1>16 DEF Unlock, Goto
<1>17. ASSUME NEW w \in Monitors, CrashMonitor(w) PROVE WorldOK'
    BY <1>17 DEF CrashMonitor, Killed
<1>18. ASSUME NEW b \in {"port", "procs", "oom"}, Break(b) \/ Mend(b) PROVE WorldOK'
    BY <1>18 DEF Break, Mend
<1>19. QED
    BY <1>1, <1>2, <1>3, <1>4, <1>5, <1>6, <1>7, <1>8, <1>9, <1>10, <1>11, <1>12, <1>13, <1>14,
       <1>15, <1>16, <1>17, <1>18, BadKinds DEF Next, Act

LEMMA StaleStep ==
    ASSUME Types, [Next]_vars
    PROVE  StaleOK'
<1> USE  DEF takVars, lockVars, failVars, runVars, histVars, Types, StaleOK
<1>1. CASE UNCHANGED vars
    BY <1>1 DEF vars
<1>2. CASE Check8089
    BY <1>2 DEF Check8089, Gates8089, MayCheck, Goto, UpTo
<1>3. CASE Cap8089
    BY <1>3 DEF Cap8089, RollWindow, EndAtCap, GoOn, Goto
<1>4. CASE CheckFailedUnit \/ CheckStoppedUnit
    BY <1>4 DEF CheckFailedUnit, CheckStoppedUnit, MayCheck, Goto
<1>5. CASE CheckProcesses
    BY <1>5 DEF CheckProcesses, MayCheck, Goto, UpTo
<1>6. CASE CheckOom
    BY <1>6 DEF CheckOom, MayCheck, Goto
<1>7. CASE OperatorStop \/ OperatorStart
    BY <1>7 DEF OperatorStop, OperatorStart, UnitStart
<1>8. CASE Reboot
    BY <1>8 DEF Reboot, Killed
<1>9. CASE Tick
    BY <1>9 DEF Tick, UpTo
<1>10. ASSUME NEW w \in Monitors, CapOther(w) PROVE StaleOK'
    BY <1>10 DEF CapOther, RollWindow, EndAtCap, GoOn, Goto
<1>11. ASSUME NEW w \in Monitors, TouchLock(w) PROVE StaleOK'
    BY <1>11 DEF TouchLock, Goto
<1>12. ASSUME NEW w \in Monitors, DateRestart(w) PROVE StaleOK'
    BY <1>12 DEF DateRestart, Blind, Goto
<1>13. ASSUME NEW w \in Monitors, CountRestart(w) PROVE StaleOK'
    BY <1>13 DEF CountRestart, UpTo, Goto
<1>14. ASSUME NEW w \in Monitors, Stop(w) \/ KillOrphans(w) PROVE StaleOK'
    BY <1>14 DEF Stop, KillOrphans, Goto
<1>15. ASSUME NEW w \in Monitors, Start(w) PROVE StaleOK'
    BY <1>15 DEF Start, UnitStart, Goto
<1>16. ASSUME NEW w \in Monitors, Unlock(w) PROVE StaleOK'
    BY <1>16 DEF Unlock, Goto
<1>17. ASSUME NEW w \in Monitors, CrashMonitor(w) PROVE StaleOK'
    BY <1>17 DEF CrashMonitor, Killed
<1>18. ASSUME NEW b \in {"port", "procs", "oom"}, Break(b) \/ Mend(b) PROVE StaleOK'
    BY <1>18 DEF Break, Mend
<1>19. QED
    BY <1>1, <1>2, <1>3, <1>4, <1>5, <1>6, <1>7, <1>8, <1>9, <1>10, <1>11, <1>12, <1>13, <1>14,
       <1>15, <1>16, <1>17, <1>18, BadKinds DEF Next, Act

LEMMA TypesStep == Types /\ [Next]_vars => Types'
BY SinceStep, RunsStep, CountsStep, WorldStep, StaleStep DEF Types

\* Every variable keeps its type: above all, the shared counter never passes the cap, though
\* three scripts read and write it in different steps.
THEOREM TypeCorrect == Spec => []TypeOK
<1>1. Types => TypeOK
    BY LimitFacts DEF Types, SinceOK, RunsOK, CountsOK, WorldOK, StaleOK, TypeOK, States, Dates
<1>2. QED
    BY <1>1, TypesInit, TypesStep, PTL DEF Spec

(***************************************************************************)
(* The grace period and the cooldown.  The file of the 8089 monitor's own  *)
(* cooldown is dated before the mails; what keeps the restarts of the two  *)
(* lockers apart is last_restart_time.                                     *)
(***************************************************************************)
Dated == \A o \in Lockers : since["restart"] <= tookAgo[o]

\* A run that goes on has waited since every restart its check could see.
HasWaited(w) == pc[w] \in {"cap", "take", "date"}
                => \A o \in Lockers : w = o \/ w \notin stale => tookAgo[o] >= Grace
Waited == \A w \in Lockers : HasWaited(w)

LEMMA RestartPast == ASSUME Types, Past("restart") PROVE since["restart"] >= Grace
BY LimitFacts DEF Past

LEMMA RestartAge == ASSUME Types PROVE since["restart"] \in 0..Grace
BY LimitFacts DEF Types, SinceOK, Dates

LEMMA DatedStep ==
    ASSUME Types, Dated, [Next]_vars
    PROVE  Dated'
<1> USE Constants, LongestFacts DEF takVars, lockVars, failVars, runVars, histVars, Types,
        SinceOK, RunsOK, CountsOK, Dated, Monitors, Lockers, Dates
<1>1. CASE UNCHANGED vars
    BY <1>1 DEF vars
<1>2. CASE Check8089
    BY <1>2 DEF Check8089, Gates8089, MayCheck, Goto, UpTo
<1>3. CASE Cap8089
    BY <1>3, RestartAge DEF Cap8089, CapDates
<1>4. CASE CheckFailedUnit \/ CheckStoppedUnit
    BY <1>4 DEF CheckFailedUnit, CheckStoppedUnit, MayCheck, Goto
<1>5. CASE CheckProcesses
    BY <1>5 DEF CheckProcesses, Date, Undate
<1>6. CASE CheckOom
    BY <1>6 DEF CheckOom, MayCheck, Goto
<1>7. CASE OperatorStop \/ OperatorStart
    BY <1>7 DEF OperatorStop, OperatorStart, UnitStart, Date
<1>8. CASE Reboot
    BY <1>8 DEF Reboot, Killed
<1>9. CASE Tick
    BY <1>9, RestartAge, LimitFacts DEF Tick, UpTo
<1>10. ASSUME NEW w \in Monitors, CapOther(w) PROVE Dated'
    BY <1>10, RestartAge DEF CapOther, CapDates
<1>11. ASSUME NEW w \in Monitors, TouchLock(w) PROVE Dated'
    BY <1>11 DEF TouchLock
<1>12. ASSUME NEW w \in Monitors, DateRestart(w) PROVE Dated'
    BY <1>12, RestartAge DEF DateRestart, Date
<1>13. ASSUME NEW w \in Monitors, CountRestart(w) PROVE Dated'
    BY <1>13 DEF CountRestart
<1>14. ASSUME NEW w \in Monitors, Stop(w) \/ KillOrphans(w) PROVE Dated'
    BY <1>14 DEF Stop, KillOrphans, Goto
<1>15. ASSUME NEW w \in Monitors, Start(w) PROVE Dated'
    BY <1>15 DEF Start, UnitStart, Date
<1>16. ASSUME NEW w \in Monitors, Unlock(w) PROVE Dated'
    BY <1>16 DEF Unlock, Goto
<1>17. ASSUME NEW w \in Monitors, CrashMonitor(w) PROVE Dated'
    BY <1>17 DEF CrashMonitor, Killed
<1>18. ASSUME NEW b \in {"port", "procs", "oom"}, Break(b) \/ Mend(b) PROVE Dated'
    BY <1>18 DEF Break, Mend
<1>19. QED
    BY <1>1, <1>2, <1>3, <1>4, <1>5, <1>6, <1>7, <1>8, <1>9, <1>10, <1>11, <1>12, <1>13, <1>14,
       <1>15, <1>16, <1>17, <1>18, BadKinds DEF Next, Act

LEMMA WaitedStep ==
    ASSUME Types, Dated, Waited, [Next]_vars
    PROVE  Waited'
<1> USE Constants, LongestFacts, RestartPast, RestartAge DEF takVars, lockVars, failVars, runVars,
        histVars, Types, RunsOK, CountsOK, StaleOK, Dated, Waited, HasWaited, Monitors, Lockers
<1>1. CASE UNCHANGED vars
    BY <1>1 DEF vars
<1>2. CASE Check8089
    BY <1>2 DEF Check8089, Gates8089, MayCheck, Goto, UpTo
<1>3. CASE Cap8089
    BY <1>3 DEF Cap8089, RollWindow, EndAtCap, GoOn, Goto
<1>4. CASE CheckFailedUnit \/ CheckStoppedUnit
    BY <1>4 DEF CheckFailedUnit, CheckStoppedUnit, MayCheck, Goto
<1>5. CASE CheckProcesses
    BY <1>5 DEF CheckProcesses, MayCheck, Goto, UpTo
<1>6. CASE CheckOom
    BY <1>6 DEF CheckOom, MayCheck, Goto
<1>7. CASE OperatorStop \/ OperatorStart
    BY <1>7 DEF OperatorStop, OperatorStart, UnitStart
<1>8. CASE Reboot
    BY <1>8 DEF Reboot, Killed
<1>9. CASE Tick
    BY <1>9 DEF Tick, UpTo
<1>10. ASSUME NEW w \in Monitors, CapOther(w) PROVE Waited'
    BY <1>10 DEF CapOther, RollWindow, EndAtCap, GoOn, Goto
<1>11. ASSUME NEW w \in Monitors, TouchLock(w) PROVE Waited'
    BY <1>11 DEF TouchLock, Goto
<1>12. ASSUME NEW w \in Monitors, DateRestart(w) PROVE Waited'
    BY <1>12 DEF DateRestart, Blind, Goto
<1>13. ASSUME NEW w \in Monitors, CountRestart(w) PROVE Waited'
    BY <1>13 DEF CountRestart, UpTo, Goto
<1>14. ASSUME NEW w \in Monitors, Stop(w) \/ KillOrphans(w) PROVE Waited'
    BY <1>14 DEF Stop, KillOrphans, Goto
<1>15. ASSUME NEW w \in Monitors, Start(w) PROVE Waited'
    BY <1>15 DEF Start, UnitStart, Goto
<1>16. ASSUME NEW w \in Monitors, Unlock(w) PROVE Waited'
    BY <1>16 DEF Unlock, Goto
<1>17. ASSUME NEW w \in Monitors, CrashMonitor(w) PROVE Waited'
    BY <1>17 DEF CrashMonitor, Killed
<1>18. ASSUME NEW b \in {"port", "procs", "oom"}, Break(b) \/ Mend(b) PROVE Waited'
    BY <1>18 DEF Break, Mend
<1>19. QED
    BY <1>1, <1>2, <1>3, <1>4, <1>5, <1>6, <1>7, <1>8, <1>9, <1>10, <1>11, <1>12, <1>13, <1>14,
       <1>15, <1>16, <1>17, <1>18, BadKinds DEF Next, Act

LEMMA WaitedInit == Init => Dated /\ Waited
<1>1. Init => since["restart"] = Grace
    BY LimitFacts DEF Init, Dates
<1>2. QED
    BY <1>1, LongestFacts, Constants DEF Init, Dated, Waited, HasWaited, Lockers, Monitors

\* The two monitors that date their restarts leave themselves and each other the grace period,
\* however their runs overlap and are killed, unless the other's restart came after the check.
THEOREM GraceIsKept == Spec => LockersKeepGrace
<1>1. Types /\ Dated /\ [Next]_vars => Dated'
    BY DatedStep
<1>2. Types /\ Dated /\ Waited /\ [Next]_vars => Waited'
    BY WaitedStep
<1>3. Types /\ Waited
      => [\A w, o \in Lockers :
            Takes(w) /\ (w = o \/ w \notin stale) => tookAgo[o] >= Grace]_vars
    BY DEF Waited, HasWaited, Takes
<1>4. QED
    BY <1>1, <1>2, <1>3, WaitedInit, TypesInit, TypesStep, PTL DEF Spec, LockersKeepGrace

\* "At most one TAK Server restart per 15 minutes from the 8089 monitor", however the runs of
\* the three monitors overlap and are killed, if the grace period is no shorter.
THEOREM CooldownIsKept ==
    ASSUME Cooldown <= Grace
    PROVE  Spec => CooldownKept
<1>1. Types /\ Dated /\ [Next]_vars => Dated'
    BY DatedStep
<1>2. Types /\ Dated /\ Waited /\ [Next]_vars => Waited'
    BY WaitedStep
<1>3. Types /\ Waited => [Takes("8089") => tookAgo["8089"] >= Cooldown]_vars
    BY Constants, LongestFacts DEF Waited, HasWaited, Types, CountsOK, Monitors, Lockers, Takes
<1>4. QED
    BY <1>1, <1>2, <1>3, WaitedInit, TypesInit, TypesStep, PTL DEF Spec, CooldownKept

(***************************************************************************)
(* The cap.  As long as no run reads the counter between another's reading *)
(* and writing it, what a run has read is what the counter still says.     *)
(***************************************************************************)
Alone  == \A w, o \in Counting : w = o
Fresh  == \A w \in Counting : daily[w] = count
Capped == ~raced => Alone /\ Fresh /\ done <= count

\* What a look at the cap does to the counters and the runs.
LEMMA LookStep ==
    ASSUME Types, Capped, NEW w \in Monitors, pc[w] = "cap", RollWindow,
           \/ Goto(w, "idle") /\ UNCHANGED daily
           \/ Goto(w, "take") /\ daily' = [daily EXCEPT ![w] = count']
    PROVE  Capped'
<1> SUFFICES ASSUME ~raced' PROVE (Alone /\ Fresh /\ done <= count)'
    BY DEF Capped
<1>1. Counting = {} /\ (~raced \/ Past("window"))
    BY ZenonT(20) DEF RollWindow
<1>2. (done <= count)'
    BY <1>1 DEF RollWindow, Capped, Types, CountsOK
<1>3. \A o \in Monitors \ {w} : pc'[o] = pc[o]
    BY DEF Goto, Types, RunsOK
<1>4. Counting' \subseteq {w}
    BY <1>1, <1>3 DEF Counting
<1>5. w \in Counting' => daily'[w] = count'
    BY DEF Counting, Goto, Types, RunsOK
<1>6. QED
    BY <1>2, <1>4, <1>5 DEF Alone, Fresh

LEMMA CappedStep ==
    ASSUME Types, Capped, [Next]_vars
    PROVE  Capped'
<1> USE Constants DEF takVars, lockVars, failVars, runVars, histVars, Types, RunsOK, CountsOK,
        Capped, Alone, Fresh, Counting, Monitors, Lockers
<1>1. CASE UNCHANGED vars
    BY <1>1 DEF vars
<1>2. CASE Check8089
    BY <1>2 DEF Check8089, Gates8089, MayCheck, Goto, UpTo
<1>3. CASE Cap8089
    <2>1. CASE Past("cooldown")
        BY <1>3, <2>1, LookStep DEF Cap8089, EndAtCap, GoOn
    <2>2. CASE ~Past("cooldown")
        BY <1>3, <2>2 DEF Cap8089, EndAtCap, Goto
    <2>3. QED
        BY <2>1, <2>2
<1>4. CASE CheckFailedUnit \/ CheckStoppedUnit
    BY <1>4 DEF CheckFailedUnit, CheckStoppedUnit, MayCheck, Goto
<1>5. CASE CheckProcesses
    BY <1>5 DEF CheckProcesses, MayCheck, Goto, UpTo
<1>6. CASE CheckOom
    BY <1>6 DEF CheckOom, MayCheck, Goto
<1>7. CASE OperatorStop \/ OperatorStart
    BY <1>7 DEF OperatorStop, OperatorStart, UnitStart
<1>8. CASE Reboot
    BY <1>8 DEF Reboot, Killed
<1>9. CASE Tick
    BY <1>9 DEF Tick, UpTo
<1>10. ASSUME NEW w \in Monitors, CapOther(w) PROVE Capped'
    BY <1>10, LookStep DEF CapOther, EndAtCap, GoOn
<1>11. ASSUME NEW w \in Monitors, TouchLock(w) PROVE Capped'
    BY <1>11 DEF TouchLock, Goto
<1>12. ASSUME NEW w \in Monitors, DateRestart(w) PROVE Capped'
    BY <1>12 DEF DateRestart, Blind, Goto
<1>13. ASSUME NEW w \in Monitors, CountRestart(w) PROVE Capped'
    BY <1>13 DEF CountRestart, UpTo, Goto
<1>14. ASSUME NEW w \in Monitors, Stop(w) \/ KillOrphans(w) PROVE Capped'
    BY <1>14 DEF Stop, KillOrphans, Goto
<1>15. ASSUME NEW w \in Monitors, Start(w) PROVE Capped'
    BY <1>15 DEF Start, UnitStart, Goto
<1>16. ASSUME NEW w \in Monitors, Unlock(w) PROVE Capped'
    BY <1>16 DEF Unlock, Goto
<1>17. ASSUME NEW w \in Monitors, CrashMonitor(w) PROVE Capped'
    BY <1>17 DEF CrashMonitor, Killed
<1>18. ASSUME NEW b \in {"port", "procs", "oom"}, Break(b) \/ Mend(b) PROVE Capped'
    BY <1>18 DEF Break, Mend
<1>19. QED
    BY <1>1, <1>2, <1>3, <1>4, <1>5, <1>6, <1>7, <1>8, <1>9, <1>10, <1>11, <1>12, <1>13, <1>14,
       <1>15, <1>16, <1>17, <1>18, BadKinds DEF Next, Act

\* "All TAK Guard Dog scripts share a single restart counter": the restarts of one window never
\* exceed the cap, through killed runs and reboots, unless one run of that window read the
\* counter between another's reading and writing it.
THEOREM CapIsKept == Spec => []CapKept
<1>1. Init => Capped
    BY DEF Init, Capped, Alone, Fresh, Counting
<1>2. Types /\ Capped /\ [Next]_vars => Capped'
    BY CappedStep
<1>3. Types /\ Capped => CapKept
    BY Constants DEF Types, CountsOK, Capped, CapKept
<1>4. QED
    BY <1>1, <1>2, <1>3, TypesInit, TypesStep, PTL DEF Spec

=============================================================================
