--------------------------- MODULE ClientGateProofs ---------------------------
(***************************************************************************)
(* ClientGate for any number of clients, boots, faults and starts of TAK,  *)
(* and any of the scripts' constants: types, that the port is shut at most *)
(* in the first start of a boot, that post-start leaves nothing stopped,   *)
(* and that no session is left that the API does not know.                 *)
(***************************************************************************)
EXTENDS ClientGate, TLAPS

USE GateAssumption DEF GateAssumption

States == {"idle", "insert", "state", "verify", "rules", "file", "stop", "db", "authentik",
           "port", "api", "recycle", "start", "done", "dead", "traprules", "orphan"}

(***************************************************************************)
(* The sequencer takes a start for the boot only if it is the first one:   *)
(* nothing but it has run then.                                            *)
(***************************************************************************)
Gating == {"insert", "state", "verify", "rules", "file", "stop"}

FirstStart ==
    /\ pc["seq"] \in Gating /\ "mark" \notin excused => starts = 1 /\ pc["post"] = "idle"
    /\ pc["seq"] \in {"insert", "state"} => uptime < BootUptime
    /\ pc["seq"] # "idle" => tak = "off"
    /\ starts = 0 => pc["post"] = "idle" /\ pc["seq"] = "idle"
    /\ uptime < BootUptime /\ ~marked /\ "mark" \notin excused => starts = 0

LEMMA Constants ==
    /\ BootUptime \in Nat /\ MaxUptime \in Nat /\ MaxBoots \in Nat
    /\ MaxFaults \in Nat /\ MaxStarts \in Nat /\ 0 < BootUptime
OBVIOUS

\* Where the scripts stand, and everything else.
Flags == drop \in BOOLEAN /\ marked \in BOOLEAN /\ apiReady \in BOOLEAN

Rest == /\ file \in {"none", "this", "old"} /\ at \in 0..(BootUptime - 1)
        /\ uptime \in 0..MaxUptime /\ boots \in 1..(MaxBoots + 1)
        /\ faults \in 0..MaxFaults /\ starts \in 0..MaxStarts
        /\ tak \in {"off", "starting", "listening", "ready"} /\ stopped \subseteq Services
        /\ conn \in [Clients -> {"out", "early", "in"}] /\ early \subseteq Clients
        /\ excused \subseteq Clients \cup Services \cup {"mark"}

LEMMA TypeParts == TypeOK <=> pc \in [Actors -> States] /\ Flags /\ Rest
BY DEF TypeOK, Flags, Rest, States

LEMMA TypeInit == Init => TypeOK /\ FirstStart
<1> SUFFICES ASSUME Init PROVE TypeOK /\ FirstStart
    OBVIOUS
<1>1. pc \in [Actors -> States]
    BY DEF Init, States
<1>2. Flags
    BY DEF Init, Flags
<1>3. Rest
    BY Constants DEF Init, Rest
<1>4. FirstStart
    BY DEF Init, FirstStart, Gating, Actors
<1>5. QED
    BY <1>1, <1>2, <1>3, <1>4, TypeParts

LEMMA PcType ==
    ASSUME pc \in [Actors -> States], Flags, Rest, FirstStart, [Next]_vars
    PROVE  (pc \in [Actors -> States])'
<1> USE Constants DEF files, gate, clock, sess, Actors, States
<1>1. CASE UNCHANGED vars
    BY <1>1 DEF vars
<1>2. CASE SeqBegins
    BY <1>2 DEF SeqBegins, Touch, Fault, Goto
<1>3. CASE InsertRule \/ InsertFailsOpen \/ InsertState \/ InsertVerifies
    BY <1>3 DEF InsertRule, InsertFailsOpen, InsertState, InsertVerifies, Goto
<1>4. CASE SeqEnds
    BY <1>4 DEF SeqEnds, Goto
<1>5. CASE PostBegins \/ PortWaited \/ TrapReleases
    BY <1>5 DEF PostBegins, PortWaited, TrapReleases, Goto
<1>6. CASE ApiAnswers \/ ApiWaitEnds
    BY <1>6 DEF ApiAnswers, ApiWaitEnds, Goto
<1>7. CASE TimerFires \/ SweepReads \/ SweepFindsOrphan
    BY <1>7 DEF TimerFires, SweepReads, SweepFindsOrphan, Goto
<1>8. CASE TakProgress \/ TakStops
    BY <1>8 DEF TakProgress, TakStops, Goto
<1>9. CASE Tick
    BY <1>9 DEF Tick, Goto
<1>10. CASE SeqDies
    BY <1>10 DEF SeqDies, Fault, Goto
<1>11. CASE Reboot
    BY <1>11 DEF Reboot, Goto
<1>12. ASSUME NEW p \in Actors, Release(p) PROVE (pc \in [Actors -> States])'
    BY <1>12 DEF Release, ReleaseRules, ReleaseFile, AfterRelease, Fault, Goto
<1>13. ASSUME NEW S \in SUBSET Services, StopServices(S) PROVE (pc \in [Actors -> States])'
    BY <1>13 DEF StopServices, Goto
<1>14. ASSUME NEW b \in BOOLEAN, StartAuthentik(b) \/ StartServices(b)
       PROVE  (pc \in [Actors -> States])'
    BY <1>14 DEF StartAuthentik, StartServices, Starts, Goto
<1>15. ASSUME NEW r \in SUBSET Clients, Recycle(r) PROVE (pc \in [Actors -> States])'
    BY <1>15 DEF Recycle, Goto
<1>16. ASSUME NEW c \in Clients, Connect(c) \/ Leave(c) PROVE (pc \in [Actors -> States])'
    BY <1>16 DEF Connect, Leave, Goto
<1>17. ASSUME NEW b \in BOOLEAN, PostDies(b) PROVE (pc \in [Actors -> States])'
    BY <1>17 DEF PostDies, Fault, Goto
<1>18. QED
    BY <1>1, <1>2, <1>3, <1>4, <1>5, <1>6, <1>7, <1>8, <1>9, <1>10, <1>11, <1>12, <1>13, <1>14,
       <1>15, <1>16, <1>17
       DEF Next, SeqStep, PostStep, TimerStep, SweepStep, Actors

LEMMA FlagsType ==
    ASSUME pc \in [Actors -> States], Flags, Rest, FirstStart, [Next]_vars
    PROVE  Flags'
<1> USE Constants DEF files, gate, clock, sess, Flags
<1>1. CASE UNCHANGED vars
    BY <1>1 DEF vars
<1>2. CASE SeqBegins
    BY <1>2 DEF SeqBegins, Touch, Fault, Goto
<1>3. CASE InsertRule \/ InsertFailsOpen \/ InsertState \/ InsertVerifies
    BY <1>3 DEF InsertRule, InsertFailsOpen, InsertState, InsertVerifies, Goto
<1>4. CASE SeqEnds
    BY <1>4 DEF SeqEnds, Goto
<1>5. CASE PostBegins \/ PortWaited \/ TrapReleases
    BY <1>5 DEF PostBegins, PortWaited, TrapReleases, Goto
<1>6. CASE ApiAnswers \/ ApiWaitEnds
    BY <1>6 DEF ApiAnswers, ApiWaitEnds, Goto
<1>7. CASE TimerFires \/ SweepReads \/ SweepFindsOrphan
    BY <1>7 DEF TimerFires, SweepReads, SweepFindsOrphan, Goto
<1>8. CASE TakProgress \/ TakStops
    BY <1>8 DEF TakProgress, TakStops, Goto
<1>9. CASE Tick
    BY <1>9 DEF Tick, Goto
<1>10. CASE SeqDies
    BY <1>10 DEF SeqDies, Fault, Goto
<1>11. CASE Reboot
    BY <1>11 DEF Reboot, Goto
<1>12. ASSUME NEW p \in Actors, Release(p) PROVE Flags'
    BY <1>12 DEF Release, ReleaseRules, ReleaseFile, AfterRelease, Fault, Goto
<1>13. ASSUME NEW S \in SUBSET Services, StopServices(S) PROVE Flags'
    BY <1>13 DEF StopServices, Goto
<1>14. ASSUME NEW b \in BOOLEAN, StartAuthentik(b) \/ StartServices(b) PROVE Flags'
    BY <1>14 DEF StartAuthentik, StartServices, Starts, Goto
<1>15. ASSUME NEW r \in SUBSET Clients, Recycle(r) PROVE Flags'
    BY <1>15 DEF Recycle, Goto
<1>16. ASSUME NEW c \in Clients, Connect(c) \/ Leave(c) PROVE Flags'
    BY <1>16 DEF Connect, Leave, Goto
<1>17. ASSUME NEW b \in BOOLEAN, PostDies(b) PROVE Flags'
    BY <1>17 DEF PostDies, Fault, Goto
<1>18. QED
    BY <1>1, <1>2, <1>3, <1>4, <1>5, <1>6, <1>7, <1>8, <1>9, <1>10, <1>11, <1>12, <1>13, <1>14,
       <1>15, <1>16, <1>17
       DEF Next, SeqStep, PostStep, TimerStep, SweepStep, Actors

LEMMA RestType ==
    ASSUME pc \in [Actors -> States], Flags, Rest, FirstStart, [Next]_vars
    PROVE  Rest'
<1> USE Constants DEF files, gate, clock, sess, Rest, FirstStart, Services
<1>1. CASE UNCHANGED vars
    BY <1>1 DEF vars
<1>2. CASE SeqBegins
    BY <1>2 DEF SeqBegins, Touch, Fault, Goto
<1>3. CASE InsertRule \/ InsertFailsOpen \/ InsertState \/ InsertVerifies
    <2>1. CASE InsertRule \/ InsertFailsOpen \/ InsertVerifies
        BY <2>1 DEF InsertRule, InsertFailsOpen, InsertVerifies, Goto
    <2>2. CASE InsertState
        <3>1. uptime < BootUptime /\ at' = uptime
            BY <2>2 DEF InsertState, Goto
        <3>2. at' \in 0..(BootUptime - 1)
            BY <3>1
        <3>3. QED
            BY <2>2, <3>2 DEF InsertState
    <2>3. QED
        BY <1>3, <2>1, <2>2
<1>4. CASE SeqEnds
    BY <1>4 DEF SeqEnds, Goto
<1>5. CASE PostBegins \/ PortWaited \/ TrapReleases
    BY <1>5 DEF PostBegins, PortWaited, TrapReleases, Goto
<1>6. CASE ApiAnswers \/ ApiWaitEnds
    BY <1>6 DEF ApiAnswers, ApiWaitEnds, Goto
<1>7. CASE TimerFires \/ SweepReads \/ SweepFindsOrphan
    BY <1>7 DEF TimerFires, SweepReads, SweepFindsOrphan, Goto
<1>8. CASE TakProgress \/ TakStops
    BY <1>8 DEF TakProgress, TakStops, Goto
<1>9. CASE Tick
    BY <1>9 DEF Tick, Goto
<1>10. CASE SeqDies
    BY <1>10 DEF SeqDies, Fault, Goto
<1>11. CASE Reboot
    BY <1>11 DEF Reboot, Goto
<1>12. ASSUME NEW p \in Actors, Release(p) PROVE Rest'
    BY <1>12 DEF Release, ReleaseRules, ReleaseFile, AfterRelease, Fault, Goto
<1>13. ASSUME NEW S \in SUBSET Services, StopServices(S) PROVE Rest'
    BY <1>13 DEF StopServices, Goto
<1>14. ASSUME NEW b \in BOOLEAN, StartAuthentik(b) \/ StartServices(b) PROVE Rest'
    BY <1>14 DEF StartAuthentik, StartServices, Starts, Goto
<1>15. ASSUME NEW r \in SUBSET Clients, Recycle(r) PROVE Rest'
    BY <1>15 DEF Recycle, Goto
<1>16. ASSUME NEW c \in Clients, Connect(c) \/ Leave(c) PROVE Rest'
    BY <1>16 DEF Connect, Leave, Goto
<1>17. ASSUME NEW b \in BOOLEAN, PostDies(b) PROVE Rest'
    BY <1>17 DEF PostDies, Fault, Goto
<1>18. QED
    BY <1>1, <1>2, <1>3, <1>4, <1>5, <1>6, <1>7, <1>8, <1>9, <1>10, <1>11, <1>12, <1>13, <1>14,
       <1>15, <1>16, <1>17
       DEF Next, SeqStep, PostStep, TimerStep, SweepStep, Actors

LEMMA TypeStep == TypeOK /\ FirstStart /\ [Next]_vars => TypeOK'
<1> SUFFICES ASSUME TypeOK, FirstStart, [Next]_vars PROVE TypeOK'
    OBVIOUS
<1>1. (pc \in [Actors -> States])' /\ Flags' /\ Rest'
    BY TypeParts, PcType, FlagsType, RestType
<1>2. QED
    BY <1>1 DEF TypeOK, Flags, Rest, States

LEMMA FirstStartStep ==
    ASSUME TypeOK, FirstStart, [Next]_vars
    PROVE  FirstStart'
<1> USE DEF files, gate, clock, sess, TypeOK, FirstStart, Actors, Gating
<1>1. CASE UNCHANGED vars
    BY <1>1 DEF vars
<1>2. CASE SeqBegins
    BY <1>2 DEF SeqBegins, Touch, Fault, Goto
<1>3. CASE InsertRule \/ InsertFailsOpen \/ InsertState \/ InsertVerifies
    BY <1>3 DEF InsertRule, InsertFailsOpen, InsertState, InsertVerifies, Goto
<1>4. CASE SeqEnds
    BY <1>4 DEF SeqEnds, Goto
<1>5. CASE PostBegins \/ PortWaited \/ TrapReleases
    BY <1>5 DEF PostBegins, PortWaited, TrapReleases, Goto
<1>6. CASE ApiAnswers \/ ApiWaitEnds
    BY <1>6 DEF ApiAnswers, ApiWaitEnds, Goto
<1>7. CASE TimerFires \/ SweepReads \/ SweepFindsOrphan
    BY <1>7 DEF TimerFires, SweepReads, SweepFindsOrphan, Goto
<1>8. CASE TakProgress \/ TakStops
    BY <1>8 DEF TakProgress, TakStops, Goto
<1>9. CASE Tick
    BY <1>9 DEF Tick, Goto
<1>10. CASE SeqDies
    BY <1>10 DEF SeqDies, Fault, Goto
<1>11. CASE Reboot
    BY <1>11 DEF Reboot, Goto
<1>12. ASSUME NEW p \in Actors, Release(p) PROVE FirstStart'
    BY <1>12 DEF Release, ReleaseRules, ReleaseFile, AfterRelease, Fault, Goto
<1>13. ASSUME NEW S \in SUBSET Services, StopServices(S) PROVE FirstStart'
    BY <1>13 DEF StopServices, Goto
<1>14. ASSUME NEW b \in BOOLEAN, StartAuthentik(b) \/ StartServices(b) PROVE FirstStart'
    BY <1>14 DEF StartAuthentik, StartServices, Starts, Goto
<1>15. ASSUME NEW r \in SUBSET Clients, Recycle(r) PROVE FirstStart'
    BY <1>15 DEF Recycle, Goto
<1>16. ASSUME NEW c \in Clients, Connect(c) \/ Leave(c) PROVE FirstStart'
    BY <1>16 DEF Connect, Leave, Goto
<1>17. ASSUME NEW b \in BOOLEAN, PostDies(b) PROVE FirstStart'
    BY <1>17 DEF PostDies, Fault, Goto
<1>18. QED
    BY <1>1, <1>2, <1>3, <1>4, <1>5, <1>6, <1>7, <1>8, <1>9, <1>10, <1>11, <1>12, <1>13, <1>14,
       <1>15, <1>16, <1>17
       DEF Next, SeqStep, PostStep, TimerStep, SweepStep, Actors

\* Every variable keeps its type; the date in the state file is that of a boot's first
\* minutes, so it always goes stale.
THEOREM TypeCorrect == Spec => []TypeOK
<1>1. QED
    BY TypeInit, TypeStep, FirstStartStep, PTL DEF Spec

LEMMA ShutsInFirstStart ==
    ASSUME TypeOK, FirstStart, [Next]_vars, ~drop, drop', "mark" \notin excused
    PROVE  pc["post"] = "idle" /\ starts = 1
<1> USE DEF files, gate, clock, sess
<1>1. CASE UNCHANGED vars
    BY <1>1 DEF vars
<1>2. CASE SeqBegins
    BY <1>2 DEF SeqBegins, Touch, Fault, Goto
<1>3. CASE InsertRule \/ InsertFailsOpen \/ InsertState \/ InsertVerifies
    BY <1>3 DEF InsertRule, InsertFailsOpen, InsertState, InsertVerifies, Goto, TypeOK,
       FirstStart, Gating
<1>4. CASE SeqEnds
    BY <1>4 DEF SeqEnds, Goto
<1>5. CASE PostBegins \/ PortWaited \/ TrapReleases
    BY <1>5 DEF PostBegins, PortWaited, TrapReleases, Goto
<1>6. CASE ApiAnswers \/ ApiWaitEnds
    BY <1>6 DEF ApiAnswers, ApiWaitEnds, Goto
<1>7. CASE TimerFires \/ SweepReads \/ SweepFindsOrphan
    BY <1>7 DEF TimerFires, SweepReads, SweepFindsOrphan, Goto
<1>8. CASE TakProgress \/ TakStops
    BY <1>8 DEF TakProgress, TakStops, Goto
<1>9. CASE Tick
    BY <1>9 DEF Tick, Goto
<1>10. CASE SeqDies
    BY <1>10 DEF SeqDies, Fault, Goto
<1>11. CASE Reboot
    BY <1>11 DEF Reboot, Goto
<1>12. ASSUME NEW p \in Actors, Release(p) PROVE FALSE
    BY <1>12 DEF Release, ReleaseRules, ReleaseFile, AfterRelease, Fault
<1>13. ASSUME NEW S \in SUBSET Services, StopServices(S) PROVE FALSE
    BY <1>13 DEF StopServices
<1>14. ASSUME NEW b \in BOOLEAN, StartAuthentik(b) \/ StartServices(b) PROVE FALSE
    BY <1>14 DEF StartAuthentik, StartServices, Starts
<1>15. ASSUME NEW r \in SUBSET Clients, Recycle(r) PROVE FALSE
    BY <1>15 DEF Recycle
<1>16. ASSUME NEW c \in Clients, Connect(c) \/ Leave(c) PROVE FALSE
    BY <1>16 DEF Connect, Leave
<1>17. ASSUME NEW b \in BOOLEAN, PostDies(b) PROVE FALSE
    BY <1>17 DEF PostDies, Fault
<1>18. QED
    BY <1>1, <1>2, <1>3, <1>4, <1>5, <1>6, <1>7, <1>8, <1>9, <1>10, <1>11, <1>12, <1>13, <1>14,
       <1>15, <1>16, <1>17
       DEF Next, SeqStep, PostStep, TimerStep, SweepStep, Actors

\* The port is shut at most in the first start of TAK of a boot, before post-start has
\* begun, whatever is killed and however often TAK is restarted, if the mark can be made.
THEOREM GateStaysOpen == Spec => NeverShutAgain
<1>1. TypeOK /\ FirstStart /\ [Next]_vars
      => [~drop /\ drop' /\ "mark" \notin excused => pc["post"] = "idle" /\ starts = 1]_vars
    BY ShutsInFirstStart
<1>2. QED
    BY <1>1, TypeInit, TypeStep, FirstStartStep, PTL DEF Spec, NeverShutAgain

(***************************************************************************)
(* What the sequencer stopped.                                             *)
(***************************************************************************)
Restarted ==
    "mark" \notin excused =>
      /\ pc["post"] \in {"port", "api", "rules", "file", "recycle", "start", "done"}
           => ("authentik" \in stopped => "authentik" \in excused)
      /\ pc["post"] = "done" => ("others" \in stopped => "others" \in excused)

LEMMA RestartedStep ==
    ASSUME TypeOK, FirstStart, Restarted, [Next]_vars
    PROVE  Restarted'
<1> USE DEF files, gate, clock, sess, TypeOK, FirstStart, Actors, Gating, Services, Restarted
<1>1. CASE UNCHANGED vars
    BY <1>1 DEF vars
<1>2. CASE SeqBegins
    BY <1>2 DEF SeqBegins, Touch, Fault, Goto
<1>3. CASE InsertRule \/ InsertFailsOpen \/ InsertState \/ InsertVerifies
    BY <1>3 DEF InsertRule, InsertFailsOpen, InsertState, InsertVerifies, Goto
<1>4. CASE SeqEnds
    BY <1>4 DEF SeqEnds, Goto
<1>5. CASE PostBegins \/ PortWaited \/ TrapReleases
    BY <1>5 DEF PostBegins, PortWaited, TrapReleases, Goto
<1>6. CASE ApiAnswers \/ ApiWaitEnds
    BY <1>6 DEF ApiAnswers, ApiWaitEnds, Goto
<1>7. CASE TimerFires \/ SweepReads \/ SweepFindsOrphan
    BY <1>7 DEF TimerFires, SweepReads, SweepFindsOrphan, Goto
<1>8. CASE TakProgress \/ TakStops
    BY <1>8 DEF TakProgress, TakStops, Goto
<1>9. CASE Tick
    BY <1>9 DEF Tick, Goto
<1>10. CASE SeqDies
    BY <1>10 DEF SeqDies, Fault, Goto
<1>11. CASE Reboot
    BY <1>11 DEF Reboot, Goto
<1>12. ASSUME NEW p \in Actors, Release(p) PROVE Restarted'
    BY <1>12 DEF Release, ReleaseRules, ReleaseFile, AfterRelease, Fault, Goto
<1>13. ASSUME NEW S \in SUBSET Services, StopServices(S) PROVE Restarted'
    BY <1>13 DEF StopServices, Goto
<1>14. ASSUME NEW b \in BOOLEAN, StartAuthentik(b) \/ StartServices(b) PROVE Restarted'
    BY <1>14 DEF StartAuthentik, StartServices, Starts, Goto
<1>15. ASSUME NEW r \in SUBSET Clients, Recycle(r) PROVE Restarted'
    BY <1>15 DEF Recycle, Goto
<1>16. ASSUME NEW c \in Clients, Connect(c) \/ Leave(c) PROVE Restarted'
    BY <1>16 DEF Connect, Leave, Goto
<1>17. ASSUME NEW b \in BOOLEAN, PostDies(b) PROVE Restarted'
    BY <1>17 DEF PostDies, Fault, Goto
<1>18. QED
    BY <1>1, <1>2, <1>3, <1>4, <1>5, <1>6, <1>7, <1>8, <1>9, <1>10, <1>11, <1>12, <1>13, <1>14,
       <1>15, <1>16, <1>17
       DEF Next, SeqStep, PostStep, TimerStep, SweepStep, Actors

\* When post-start is done everything the sequencer stopped runs again, but for what it
\* skipped or could not start, however often TAK is restarted meanwhile.
THEOREM NothingStaysStopped == Spec => []NothingLeftStopped
<1>1. Init => Restarted
    BY DEF Init, Restarted, Actors
<1>2. TypeOK /\ Restarted => NothingLeftStopped
    BY DEF TypeOK, Restarted, NothingLeftStopped, Services
<1>3. QED
    BY <1>1, <1>2, TypeInit, TypeStep, FirstStartStep, RestartedStep, PTL DEF Spec

(***************************************************************************)
(* The sessions that raced the API.                                        *)
(***************************************************************************)
Known ==
    apiReady => /\ tak = "ready" \/ Clients \subseteq excused
                /\ \A c \in Clients : conn[c] = "early" =>
                      \/ c \in excused
                      \/ c \in early /\ pc["post"] \notin {"start", "done"}

LEMMA KnownStep ==
    ASSUME TypeOK, FirstStart, Known, [Next]_vars
    PROVE  Known'
<1> USE DEF files, gate, clock, sess, TypeOK, FirstStart, Actors, Known
<1>1. CASE UNCHANGED vars
    BY <1>1 DEF vars
<1>2. CASE SeqBegins
    BY <1>2 DEF SeqBegins, Touch, Fault, Goto
<1>3. CASE InsertRule \/ InsertFailsOpen \/ InsertState \/ InsertVerifies
    BY <1>3 DEF InsertRule, InsertFailsOpen, InsertState, InsertVerifies, Goto
<1>4. CASE SeqEnds
    BY <1>4 DEF SeqEnds, Goto
<1>5. CASE PostBegins \/ PortWaited \/ TrapReleases
    BY <1>5 DEF PostBegins, PortWaited, TrapReleases, Goto
<1>6. CASE ApiAnswers \/ ApiWaitEnds
    BY <1>6 DEF ApiAnswers, ApiWaitEnds, Goto
<1>7. CASE TimerFires \/ SweepReads \/ SweepFindsOrphan
    BY <1>7 DEF TimerFires, SweepReads, SweepFindsOrphan, Goto
<1>8. CASE TakProgress \/ TakStops
    BY <1>8 DEF TakProgress, TakStops, Goto
<1>9. CASE Tick
    BY <1>9 DEF Tick, Goto
<1>10. CASE SeqDies
    BY <1>10 DEF SeqDies, Fault, Goto
<1>11. CASE Reboot
    BY <1>11 DEF Reboot, Goto
<1>12. ASSUME NEW p \in Actors, Release(p) PROVE Known'
    BY <1>12 DEF Release, ReleaseRules, ReleaseFile, AfterRelease, Fault, Goto
<1>13. ASSUME NEW S \in SUBSET Services, StopServices(S) PROVE Known'
    BY <1>13 DEF StopServices, Goto
<1>14. ASSUME NEW b \in BOOLEAN, StartAuthentik(b) \/ StartServices(b) PROVE Known'
    BY <1>14 DEF StartAuthentik, StartServices, Starts, Goto
<1>15. ASSUME NEW r \in SUBSET Clients, Recycle(r) PROVE Known'
    BY <1>15 DEF Recycle, Goto
<1>16. ASSUME NEW c \in Clients, Connect(c) \/ Leave(c) PROVE Known'
    BY <1>16 DEF Connect, Leave, Goto
<1>17. ASSUME NEW b \in BOOLEAN, PostDies(b) PROVE Known'
    BY <1>17 DEF PostDies, Fault, Goto
<1>18. QED
    BY <1>1, <1>2, <1>3, <1>4, <1>5, <1>6, <1>7, <1>8, <1>9, <1>10, <1>11, <1>12, <1>13, <1>14,
       <1>15, <1>16, <1>17
       DEF Next, SeqStep, PostStep, TimerStep, SweepStep, Actors

\* No session that was made before the API could know of it outlives post-start, unless the
\* kernel refused to cut it or TAK was restarted behind its back.
THEOREM RacersAreRecycled == Spec => []RacersRecycled
<1>1. Init => Known
    BY DEF Init, Known
<1>2. Known => RacersRecycled
    BY DEF Known, RacersRecycled
<1>3. QED
    BY <1>1, <1>2, TypeInit, TypeStep, FirstStartStep, KnownStep, PTL DEF Spec

=============================================================================
