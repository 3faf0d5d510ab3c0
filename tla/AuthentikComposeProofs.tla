----------------------- MODULE AuthentikComposeProofs -----------------------
(***************************************************************************)
(* AuthentikCompose for any number of updates and other operations and any *)
(* timing: type correctness, that `docker compose` is run on Authentik by  *)
(* one of them at a time, except for what has gone adrift, that a watchdog *)
(* spares an update it could have known of, and that the watcher's         *)
(* restarts back off.                                                      *)
(***************************************************************************)
EXTENDS AuthentikCompose, FiniteSetTheorems, TLAPS

USE ComposeAssumption DEF ComposeAssumption

States == {"idle", "pinned", "wait", "held", "half", "confirm", "settle",
           "failed", "over", "probe", "record", "look", "fire"}

\* A step of one user of the lock moves that user alone.
LEMMA GotoMoves ==
    ASSUME NEW p \in Ops \cup Dogs, NEW here, NEW there, Goto(p, here, there),
           pc \in [Ops \cup Dogs -> States]
    PROVE  /\ pc[p] = here /\ pc'[p] = there
           /\ \A q \in Ops \cup Dogs : q # p => pc'[q] = pc[q]
BY DEF Goto

LEMMA GotoType ==
    ASSUME NEW p \in Ops \cup Dogs, NEW here, NEW there \in States, Goto(p, here, there),
           pc \in [Ops \cup Dogs -> States]
    PROVE  pc' \in [Ops \cup Dogs -> States]
BY DEF Goto

LEMMA OlderType ==
    ASSUME NEW max \in Nat, NEW top \in Nat, max <= top, NEW a \in Ages(top)
    PROVE  Older(a, max) \in Ages(top)
<1>1. CASE a = Absent \/ a >= max
    BY <1>1 DEF Older
<1>2. CASE ~(a = Absent \/ a >= max)
    <2>1. a \in 0..top /\ a < max
        BY <1>2 DEF Ages, Absent
    <2>2. a + 1 \in 0..top
        BY <2>1
    <2>3. QED
        BY <1>2, <2>2 DEF Older, Ages
<1>3. QED
    BY <1>1, <1>2

LEMMA TypeInit == Init => TypeOK
<1> SUFFICES ASSUME Init PROVE TypeOK
    OBVIOUS
<1>1. \A max \in Nat : Absent \in Ages(max)
    BY DEF Ages
<1>2. since \in [{"cooldown", "hold", "migrate"} -> Ages(CooldownMax + HoldMax + MigrateHoldMax)]
    BY <1>1 DEF Init
<1>3. marker \in Ages(UpdateMax) /\ age \in [Updates -> Ages(UpdateMax)]
      /\ tookAgo \in Ages(HistoryWindow + 1)
    BY <1>1 DEF Init
<1>4. /\ late \in [Dogs -> SUBSET Updates] /\ robbed \subseteq Updates
      /\ recent \subseteq 0..HistoryWindow
    BY DEF Init
<1>5. fails \in 0..MaxFails /\ unhealthy \in 0..1 /\ faults \in 0..MaxFaults
    BY DEF Init
<1>6. QED
    BY <1>2, <1>3, <1>4, <1>5 DEF Init, TypeOK, States, Users, Ops, Dogs, Results

(***************************************************************************)
(* Steps of the console keep the types.                                    *)
(***************************************************************************)
LEMMA LockType ==
    ASSUME TypeOK, NEW p \in Users, Acquire(p) \/ Down(p)
    PROVE  TypeOK'
<1>1. CASE Acquire(p)
    BY <1>1 DEF Acquire, Goto, TypeOK, Users, Dogs, consoleVars, watchVars, histVars
<1>2. CASE Down(p)
    <2>1. tookAgo' \in Ages(HistoryWindow + 1)
        BY <1>2 DEF Down, Taken, TypeOK, Ages
    <2>2. unrecorded' \in BOOLEAN
        BY <1>2 DEF Down, Taken, TypeOK
    <2>3. QED
        BY <1>2, <2>1, <2>2 DEF Down, Goto, TypeOK, Users, Dogs, Results, consoleVars, watchVars
<1>3. QED
    BY <1>1, <1>2

LEMMA StartedType ==
    ASSUME NEW s \in Results, Started(s), image \in {"old", "new"}
    PROVE  stack' \in Results /\ image' \in {"old", "new"}
BY DEF Started

LEMMA DriftsType ==
    ASSUME TypeOK, NEW p \in Ops
    PROVE  Drifts(p) \subseteq {"none", "down", "old", "new"}
BY DEF TypeOK, Drifts

LEMMA TimesOutType ==
    ASSUME TypeOK, NEW p \in Ops, NEW there \in States, TimesOut(p, there)
    PROVE  /\ adrift' \in [Ops -> {"none", "down", "old", "new"}]
           /\ pc' \in [Ops \cup Dogs -> States] /\ lock' \in Users \cup {"free"}
           /\ faults' \in 0..MaxFaults
<1>1. adrift' \in [Ops -> {"none", "down", "old", "new"}]
    BY DriftsType DEF TimesOut, TypeOK
<1>2. QED
    BY <1>1 DEF TimesOut, TypeOK, States

LEMMA HealerType ==
    ASSUME TypeOK, NEW h \in Healers,
           HealerBegins(h) \/ HealerGivesUp(h) \/ HealerEnds(h) \/ HealerTimesOut(h)
    PROVE  TypeOK'
<1>1. CASE HealerBegins(h)
    BY <1>1 DEF HealerBegins, Goto, TypeOK, Ops, consoleVars, watchVars, histVars
<1>2. CASE HealerGivesUp(h)
    BY <1>2 DEF HealerGivesUp, Goto, TypeOK, Ops, consoleVars, watchVars, histVars
<1>3. CASE HealerEnds(h)
    <2>1. stack' \in Results /\ image' \in {"old", "new"}
        BY <1>3, StartedType DEF HealerEnds, TypeOK
    <2>2. QED
        BY <1>3, <2>1 DEF HealerEnds, Goto, TypeOK, Ops, watchVars, histVars
<1>4. CASE HealerTimesOut(h)
    <2>1. /\ adrift' \in [Ops -> {"none", "down", "old", "new"}]
          /\ pc' \in [Ops \cup Dogs -> States] /\ lock' \in Users \cup {"free"}
          /\ faults' \in 0..MaxFaults
        BY <1>4, TimesOutType DEF HealerTimesOut, Ops, States
    <2>2. QED
        BY <1>4, <2>1 DEF HealerTimesOut, TypeOK, watchVars, histVars, States
<1>5. QED
    BY <1>1, <1>2, <1>3, <1>4

LEMMA MarkerType ==
    ASSUME TypeOK, NEW u \in Updates, MarkerSet(u) \/ MarkerUnset(u)
    PROVE  marker' \in Ages(UpdateMax) /\ age' \in [Updates -> Ages(UpdateMax)]
           /\ robbed' \subseteq Updates
<1>1. Absent \in Ages(UpdateMax) /\ 0 \in Ages(UpdateMax)
    BY DEF Ages
<1>2. QED
    BY <1>1 DEF MarkerSet, MarkerUnset, TypeOK

LEMMA LateType ==
    ASSUME TypeOK, NEW u \in Updates, MarkerUnset(u)
    PROVE  late' \in [Dogs -> SUBSET Updates]
BY DEF MarkerUnset, TypeOK

LEMMA UpdateType ==
    ASSUME TypeOK, NEW u \in Updates,
           \/ Pin(u) \/ VerifyFails(u) \/ Begin(u) \/ UpdateGivesUp(u) \/ PullFails(u)
           \/ UpdateUp(u) \/ UpdateRollsBack(u) \/ UpdateTimesOut(u) \/ Confirm(u) \/ Settled(u)
    PROVE  TypeOK'
<1> USE DEF TypeOK, Ops
<1>1. CASE Pin(u)
    BY <1>1 DEF Pin, Goto, watchVars, histVars
<1>2. CASE VerifyFails(u)
    BY <1>2 DEF VerifyFails, Goto, RestorePin, watchVars, histVars
<1>3. CASE Begin(u)
    <2>1. marker' \in Ages(UpdateMax) /\ age' \in [Updates -> Ages(UpdateMax)]
          /\ robbed' \subseteq Updates
        BY <1>3, MarkerType DEF Begin
    <2>2. late' \in [Dogs -> SUBSET Updates]
        BY <1>3 DEF Begin
    <2>3. QED
        BY <1>3, <2>1, <2>2 DEF Begin, Goto, watchVars
<1>4. CASE UpdateUp(u)
    <2>1. stack' \in Results /\ image' \in {"old", "new"}
        BY <1>4, StartedType DEF UpdateUp
    <2>2. QED
        BY <1>4, <2>1 DEF UpdateUp, Goto, watchVars, histVars
<1>5. ASSUME MarkerUnset(u),
             UpdateGivesUp(u) \/ PullFails(u) \/ UpdateRollsBack(u) \/ UpdateTimesOut(u)
             \/ Confirm(u) \/ Settled(u)
      PROVE  TypeOK'
    <2>1. marker' \in Ages(UpdateMax) /\ age' \in [Updates -> Ages(UpdateMax)]
          /\ robbed' \subseteq Updates /\ late' \in [Dogs -> SUBSET Updates]
        BY <1>5, MarkerType, LateType
    <2>2. CASE UpdateGivesUp(u)
        BY <2>1, <2>2 DEF UpdateGivesUp, Goto, RestorePin, watchVars
    <2>3. CASE PullFails(u)
        BY <2>1, <2>3 DEF PullFails, Goto, RestorePin, watchVars, Results
    <2>4. CASE UpdateRollsBack(u)
        BY <2>1, <2>4 DEF UpdateRollsBack, Goto, RestorePin, watchVars
    <2>5. CASE UpdateTimesOut(u)
        <3>1. /\ adrift' \in [Ops -> {"none", "down", "old", "new"}]
              /\ pc' \in [Ops \cup Dogs -> States] /\ lock' \in Users \cup {"free"}
              /\ faults' \in 0..MaxFaults
            BY <2>5, TimesOutType DEF UpdateTimesOut, States
        <3>2. QED
            BY <2>1, <2>5, <3>1 DEF UpdateTimesOut, RestorePin, watchVars, States
    <2>6. CASE Confirm(u)
        BY <2>1, <2>6 DEF Confirm, Goto, watchVars
    <2>7. CASE Settled(u)
        BY <2>1, <2>7 DEF Settled, Goto, watchVars
    <2>8. QED
        BY <1>5, <2>2, <2>3, <2>4, <2>5, <2>6, <2>7
<1>6. CASE Confirm(u) /\ ~MarkerUnset(u)
    BY <1>6 DEF Confirm, Goto, watchVars
<1>7. QED
    BY <1>1, <1>2, <1>3, <1>4, <1>5, <1>6 DEF UpdateGivesUp, PullFails, UpdateRollsBack,
       UpdateTimesOut, Settled

LEMMA DriftType ==
    ASSUME TypeOK, NEW p \in Ops, DriftEnds(p)
    PROVE  TypeOK'
<1>1. stack' \in Results /\ image' \in {"old", "new"}
    BY DEF DriftEnds, TypeOK, Results
<1>2. adrift' \in [Ops -> {"none", "down", "old", "new"}]
    BY DEF DriftEnds, TypeOK
<1>3. QED
    BY <1>1, <1>2 DEF DriftEnds, TypeOK, watchVars, histVars

(***************************************************************************)
(* So do those of the watchdogs, the faults and time.                      *)
(***************************************************************************)
LEMMA SetType ==
    ASSUME NEW top \in Nat, since \in [{"cooldown", "hold", "migrate"} -> Ages(top)],
           NEW x \in {"cooldown", "hold", "migrate"}, NEW a \in Ages(top), Set(x, a)
    PROVE  since' \in [{"cooldown", "hold", "migrate"} -> Ages(top)]
BY DEF Set

LEMMA WatchType ==
    ASSUME TypeOK,
           \/ Look \/ ProbeHeldByMigration \/ (\E b \in BOOLEAN : ProbeOk(b) \/ ProbeFails(b))
           \/ WatchRestarts \/ WatchUp \/ WatchGivesUp \/ Record
    PROVE  TypeOK'
<1> DEFINE top == CooldownMax + HoldMax + MigrateHoldMax
<1> USE DEF TypeOK, Dogs
<1>1. top \in Nat /\ Absent \in Ages(top) /\ 0 \in Ages(top) /\ Absent \in Ages(UpdateMax)
    BY DEF Ages
<1>2. CASE Look
    BY <1>1, <1>2 DEF Look, Goto
<1>3. CASE ProbeHeldByMigration
    <2>1. since' \in [{"cooldown", "hold", "migrate"} -> Ages(top)]
        BY <1>1, <1>3 DEF ProbeHeldByMigration, Set
    <2>2. QED
        BY <1>3, <2>1 DEF ProbeHeldByMigration, Goto, consoleVars, histVars
<1>4. ASSUME NEW b \in BOOLEAN, ProbeOk(b) PROVE TypeOK'
    <2>1. since' \in [{"cooldown", "hold", "migrate"} -> Ages(top)]
        BY <1>1, <1>4 DEF ProbeOk
    <2>2. mode' \in {"none", "server-worker", "full"} /\ pc' \in [Ops \cup Dogs -> States]
        BY <1>4 DEF ProbeOk, PickMode, Goto, States
    <2>3. QED
        BY <1>4, <2>1, <2>2 DEF ProbeOk, consoleVars, histVars, States
<1>5. ASSUME NEW b \in BOOLEAN, ProbeFails(b) PROVE TypeOK'
    <2>1. since' \in [{"cooldown", "hold", "migrate"} -> Ages(top)]
        BY <1>1, <1>5 DEF ProbeFails, Set
    <2>2. mode' \in {"none", "server-worker", "full"} /\ pc' \in [Ops \cup Dogs -> States]
        BY <1>5 DEF ProbeFails, PickMode, Goto, States
    <2>3. fails' \in 0..MaxFails
        BY <1>5 DEF ProbeFails
    <2>4. QED
        BY <1>5, <2>1, <2>2, <2>3 DEF ProbeFails, consoleVars, histVars, States
<1>6. CASE WatchRestarts
    <2>1. tookAgo' \in Ages(HistoryWindow + 1)
        BY <1>6 DEF WatchRestarts, Taken, Ages
    <2>2. QED
        BY <1>6, <2>1 DEF WatchRestarts, Taken, Goto, consoleVars, watchVars, Results
<1>7. CASE WatchUp
    <2>1. stack' \in Results /\ image' \in {"old", "new"}
        BY <1>7, StartedType DEF WatchUp
    <2>2. pc' \in [Ops \cup Dogs -> States]
        BY <1>7, GotoType DEF WatchUp, States
    <2>3. QED
        BY <1>7, <2>1, <2>2 DEF WatchUp, watchVars, histVars, States
<1>8. CASE WatchGivesUp
    BY <1>8 DEF WatchGivesUp, Goto, consoleVars, watchVars, histVars
<1>9. CASE Record
    <2>1. since' \in [{"cooldown", "hold", "migrate"} -> Ages(top)]
        BY <1>1, <1>9 DEF Record, Set
    <2>2. QED
        <3>1. pc' \in [Ops \cup Dogs -> States]
            BY <1>9, GotoType DEF Record, States
        <3>2. recent' = recent \cup {0} /\ fails' = 0 /\ mode' = "none" /\ unrecorded' = FALSE
            BY <1>9 DEF Record
        <3>3. recent' \subseteq 0..HistoryWindow /\ fails' \in 0..MaxFails
            BY <3>2
        <3>4. UNCHANGED <<lock, stack, consoleVars, unhealthy, faults, late, robbed, tookAgo>>
            BY <1>9 DEF Record
        <3>5. QED
            BY <2>1, <3>1, <3>2, <3>3, <3>4 DEF consoleVars, States
<1>10. QED
    BY <1>2, <1>3, <1>4, <1>5, <1>6, <1>7, <1>8, <1>9

LEMMA PoolType ==
    ASSUME TypeOK, PoolLooks \/ PoolInspects \/ PoolFires
    PROVE  TypeOK'
<1> USE DEF TypeOK, Dogs
<1>1. CASE PoolLooks
    BY <1>1 DEF PoolLooks, Goto, consoleVars, watchVars
<1>2. CASE PoolInspects
    <2>1. unhealthy' \in 0..1
        BY <1>2 DEF PoolInspects
    <2>2. QED
        BY <1>2, <2>1 DEF PoolInspects, Goto, consoleVars, watchVars, histVars
<1>3. CASE PoolFires
    BY <1>3 DEF PoolFires, Goto, consoleVars, watchVars, histVars
<1>4. QED
    BY <1>1, <1>2, <1>3

LEMMA WorldType ==
    ASSUME TypeOK, Sicken \/ Heal \/ ConsoleDies \/ WatchDies \/ Tick
    PROVE  TypeOK'
<1> USE DEF TypeOK
<1>1. CASE Sicken \/ Heal
    BY <1>1 DEF Sicken, Heal, Results, consoleVars, watchVars, histVars
<1>2. CASE ConsoleDies
    <2>1. age' \in [Updates -> Ages(UpdateMax)] /\ late' \in [Dogs -> SUBSET Updates]
        BY <1>2 DEF ConsoleDies, Ages
    <2>2. pc' \in [Ops \cup Dogs -> States]
        BY <1>2 DEF ConsoleDies, States
    <2>3. lock' \in Users \cup {"free"} /\ faults' \in 0..MaxFaults
        BY <1>2 DEF ConsoleDies, Killed
    <2>4. adrift' \in [Ops -> {"none", "down", "old", "new"}] /\ robbed' \subseteq Updates
          /\ unhealthy' \in 0..1
        BY <1>2 DEF ConsoleDies
    <2>5. QED
        BY <1>2, <2>1, <2>2, <2>3, <2>4 DEF ConsoleDies, watchVars, States
<1>3. CASE WatchDies
    BY <1>3 DEF WatchDies, Killed, consoleVars, watchVars, histVars, Dogs
<1>4. CASE Tick
    <2>1. marker' \in Ages(UpdateMax) /\ tookAgo' \in Ages(HistoryWindow + 1)
          /\ age' \in [Updates -> Ages(UpdateMax)]
        BY <1>4, OlderType DEF Tick
    <2> DEFINE top == CooldownMax + HoldMax + MigrateHoldMax
    <2>2. since' \in [{"cooldown", "hold", "migrate"} -> Ages(top)]
        <3>1. /\ Older(since["cooldown"], CooldownMax) \in Ages(top)
              /\ Older(since["hold"], HoldMax) \in Ages(top)
              /\ Older(since["migrate"], MigrateHoldMax) \in Ages(top)
            BY OlderType
        <3>2. QED
            BY <1>4, <3>1 DEF Tick
    <2>3. recent' \subseteq 0..HistoryWindow
        BY <1>4 DEF Tick
    <2>4. QED
        BY <1>4, <2>1, <2>2, <2>3 DEF Tick
<1>5. QED
    BY <1>1, <1>2, <1>3, <1>4

LEMMA TypeStep == TypeOK /\ [Next]_vars => TypeOK'
<1> SUFFICES ASSUME TypeOK, [Next]_vars PROVE TypeOK'
    OBVIOUS
<1>1. CASE UNCHANGED vars
    BY <1>1 DEF TypeOK, vars, consoleVars, watchVars, histVars
<1>2. ASSUME NEW u \in Updates, Pin(u) \/ UpdateStep(u) PROVE TypeOK'
    BY <1>2, UpdateType, LockType DEF UpdateStep, Users, Ops
<1>3. ASSUME NEW h \in Healers, HealerBegins(h) \/ HealerStep(h) PROVE TypeOK'
    BY <1>3, HealerType, LockType DEF HealerStep, Users, Ops
<1>4. CASE WatchStep
    BY <1>4, WatchType, LockType DEF WatchStep, Users
<1>5. CASE \/ PoolLooks \/ PoolInspects \/ PoolFires
           \/ Sicken \/ Heal \/ ConsoleDies \/ WatchDies \/ Tick
    BY <1>5, PoolType, WorldType
<1>6. ASSUME NEW p \in Ops, DriftEnds(p) PROVE TypeOK'
    BY <1>6, DriftType
<1>7. QED
    BY <1>1, <1>2, <1>3, <1>4, <1>5, <1>6 DEF Next

\* Every variable keeps its type, for any number of operations and any timing.
THEOREM TypeCorrect == Spec => []TypeOK
<1>1. QED
    BY TypeInit, TypeStep, PTL DEF Spec

(***************************************************************************)
(* One compose operation at a time, but for what is adrift.  Both parts of *)
(* ComposeExclusive are inductive: who is between its commands holds the   *)
(* lock, which only the holder gives back, or the kernel when the holder   *)
(* dies; and a command goes adrift only as its console gives it up.        *)
(***************************************************************************)
Locked    == \A p \in Users : Composing(p) => lock = p
Abandoned == \A p \in Ops : adrift[p] # "none" => pc[p] \in {"failed", "over"}

LEMMA ExclusiveInit == Init => Locked
BY DEF Init, Locked, Composing, Users, Ops, Dogs

LEMMA ExclusiveLock ==
    ASSUME TypeOK, Locked, NEW p \in Users, Acquire(p) \/ Down(p)
    PROVE  Locked'
<1>1. p \in Ops \cup Dogs /\ pc \in [Ops \cup Dogs -> States] /\ Users \subseteq Ops \cup Dogs
    BY DEF TypeOK, States, Users, Dogs
<1>2. "free" \notin Users
    BY DEF Users, Ops
<1>3. CASE Acquire(p)
    <2>1. \A q \in Users : q # p => pc'[q] = pc[q] /\ ~Composing(q)
        BY <1>1, <1>2, <1>3 DEF Acquire, Goto, Locked
    <2>2. QED
        BY <1>3, <2>1 DEF Acquire, Locked, Composing
<1>4. CASE Down(p)
    BY <1>1, <1>4 DEF Down, Goto, Locked, Composing
<1>5. QED
    BY <1>3, <1>4

\* A step that ends a command of p and one that leaves the lock and commands alone.
Leaves(p) == /\ pc[p] \in {"held", "half"} /\ pc'[p] \notin {"held", "half"}
             /\ \A q \in Users : q # p => pc'[q] = pc[q]
             /\ lock' = "free"

Aside == /\ \A q \in Users : Composing(q)' => Composing(q)
         /\ lock' = lock

LEMMA ExclusiveLeft ==
    ASSUME Locked, NEW p \in Users, Leaves(p)
    PROVE  Locked'
<1>1. \A q \in Users : q # p => ~Composing(q)
    BY DEF Locked, Composing, Leaves
<1>2. QED
    BY <1>1 DEF Locked, Composing, Leaves

LEMMA ExclusiveAside == Locked /\ Aside => Locked'
BY DEF Locked, Aside

LEMMA ExclusiveStep == TypeOK /\ Locked /\ [Next]_vars => Locked'
<1> SUFFICES ASSUME TypeOK, Locked, [Next]_vars PROVE Locked'
    OBVIOUS
<1> USE DEF Composing
<1>1. pc \in [Ops \cup Dogs -> States] /\ Users \subseteq Ops \cup Dogs
    BY DEF TypeOK, States, Users, Dogs
<1>2. CASE UNCHANGED vars
    BY <1>2 DEF Locked, vars
<1>3. ASSUME NEW u \in Updates, Pin(u) \/ UpdateStep(u) PROVE Locked'
    <2>1. u \in Users /\ u \in Ops \cup Dogs
        BY DEF Users, Ops
    <2>2. CASE Acquire(u) \/ Down(u)
        BY <2>1, <2>2, ExclusiveLock
    <2>3. CASE PullFails(u) \/ UpdateUp(u) \/ UpdateRollsBack(u) \/ UpdateTimesOut(u)
        <3>1. Leaves(u)
            BY <1>1, <2>1, <2>3 DEF PullFails, UpdateUp, UpdateRollsBack, UpdateTimesOut,
               TimesOut, Goto, Leaves
        <3>2. QED
            BY <2>1, <3>1, ExclusiveLeft
    <2>4. CASE Pin(u) \/ VerifyFails(u) \/ Begin(u) \/ UpdateGivesUp(u) \/ Confirm(u) \/ Settled(u)
        <3>1. Aside
            BY <1>1, <2>1, <2>4 DEF Pin, VerifyFails, Begin, UpdateGivesUp, Confirm, Settled,
               Goto, Aside
        <3>2. QED
            BY <3>1, ExclusiveAside
    <2>5. QED
        BY <1>3, <2>2, <2>3, <2>4 DEF UpdateStep
<1>4. ASSUME NEW h \in Healers, HealerBegins(h) \/ HealerStep(h) PROVE Locked'
    <2>1. h \in Users /\ h \in Ops \cup Dogs
        BY DEF Users, Ops
    <2>2. CASE Acquire(h) \/ Down(h)
        BY <2>1, <2>2, ExclusiveLock
    <2>3. CASE HealerEnds(h) \/ HealerTimesOut(h)
        <3>1. Leaves(h)
            BY <1>1, <2>1, <2>3 DEF HealerEnds, HealerTimesOut, TimesOut, Goto, Leaves
        <3>2. QED
            BY <2>1, <3>1, ExclusiveLeft
    <2>4. CASE HealerBegins(h) \/ HealerGivesUp(h)
        <3>1. Aside
            BY <1>1, <2>1, <2>4 DEF HealerBegins, HealerGivesUp, Goto, Aside
        <3>2. QED
            BY <3>1, ExclusiveAside
    <2>5. QED
        BY <1>4, <2>2, <2>3, <2>4 DEF HealerStep
<1>5. CASE WatchStep
    <2>1. "watch" \in Users /\ "watch" \in Ops \cup Dogs
        BY DEF Users, Dogs
    <2>2. CASE Acquire("watch") \/ Down("watch")
        BY <2>1, <2>2, ExclusiveLock
    <2>3. CASE WatchRestarts \/ WatchUp
        <3>1. Leaves("watch")
            BY <1>1, <2>1, <2>3 DEF WatchRestarts, WatchUp, Goto, Leaves
        <3>2. QED
            BY <2>1, <3>1, ExclusiveLeft
    <2>4. CASE Look \/ ProbeHeldByMigration \/ WatchGivesUp \/ Record
        <3>1. Aside
            BY <1>1, <2>1, <2>4 DEF Look, ProbeHeldByMigration, WatchGivesUp, Record, Goto, Aside
        <3>2. QED
            BY <3>1, ExclusiveAside
    <2>5. ASSUME NEW b \in BOOLEAN, ProbeOk(b) \/ ProbeFails(b) PROVE Locked'
        <3>1. Aside
            BY <1>1, <2>1, <2>5 DEF ProbeOk, ProbeFails, Goto, Aside
        <3>2. QED
            BY <3>1, ExclusiveAside
    <2>6. QED
        BY <1>5, <2>2, <2>3, <2>4, <2>5 DEF WatchStep
<1>6. CASE PoolLooks \/ PoolInspects \/ PoolFires \/ Sicken \/ Heal \/ Tick
    <2>1. "pool" \in Dogs /\ "pool" \notin Users
        BY DEF Users, Ops, Dogs
    <2>2. Aside
        BY <1>1, <1>6, <2>1 DEF PoolLooks, PoolInspects, PoolFires, Sicken, Heal, Tick, Goto,
           Aside
    <2>3. QED
        BY <2>2, ExclusiveAside
<1>7. CASE ConsoleDies
    <2>1. \A q \in Users : Composing(q)' => q = "watch" /\ Composing(q)
        BY <1>1, <1>7 DEF ConsoleDies, Users, Ops
    <2>2. QED
        BY <1>7, <2>1 DEF ConsoleDies, Killed, Locked, Ops
<1>8. CASE WatchDies
    <2>1. "watch" \in Ops \cup Dogs
        BY DEF Dogs
    <2>2. QED
        BY <1>1, <1>8, <2>1 DEF WatchDies, Killed, Locked
<1>9. ASSUME NEW p \in Ops, DriftEnds(p) PROVE Locked'
    BY <1>9 DEF DriftEnds, Locked
<1>10. QED
    BY <1>2, <1>3, <1>4, <1>5, <1>6, <1>7, <1>8, <1>9 DEF Next

\* The steps that send nothing adrift and take nothing up again.
Anchored == \A p \in Ops : adrift'[p] # "none" => adrift[p] # "none" /\ pc'[p] = pc[p]

LEMMA AbandonedAnchored == Abandoned /\ Anchored => Abandoned'
BY DEF Abandoned, Anchored

\* A step of p, between a state it had to be in and another, moves nobody else.
LEMMA AnchoredGoto ==
    ASSUME TypeOK, Abandoned, NEW p \in Ops \cup Dogs, NEW there,
           NEW here \in States \ {"failed", "over"}, Goto(p, here, there), UNCHANGED adrift
    PROVE  Anchored
<1>1. pc \in [Ops \cup Dogs -> States]
    BY DEF TypeOK, States
<1>2. QED
    BY <1>1, GotoMoves DEF Anchored, Abandoned

LEMMA AbandonedTimesOut ==
    ASSUME TypeOK, Abandoned, NEW p \in Ops, NEW there \in {"failed", "over"}, TimesOut(p, there)
    PROVE  Abandoned'
<1>1. pc \in [Ops \cup Dogs -> States] /\ adrift \in [Ops -> {"none", "down", "old", "new"}]
    BY DEF TypeOK, States
<1>2. QED
    BY <1>1 DEF TimesOut, Abandoned

LEMMA AbandonedConsoleDies ==
    ASSUME TypeOK, Abandoned, ConsoleDies
    PROVE  Abandoned'
<1>1. pc \in [Ops \cup Dogs -> States] /\ "watch" \notin Ops /\ "pool" \notin Ops
    BY DEF TypeOK, States, Ops
<1>2. \A p \in Ops : adrift'[p] \in Drifts(p)
    BY DEF ConsoleDies
<1>3. \A p \in Ops : adrift'[p] # "none" => pc[p] # "idle"
    BY <1>2 DEF Drifts, Abandoned
<1>4. QED
    BY <1>1, <1>3 DEF ConsoleDies, Abandoned

LEMMA AbandonedStep == TypeOK /\ Abandoned /\ [Next]_vars => Abandoned'
<1> SUFFICES ASSUME TypeOK, Abandoned, [Next]_vars PROVE Abandoned'
    OBVIOUS
<1> USE DEF Ops, Dogs, consoleVars
<1>1. CASE UNCHANGED vars
    BY <1>1 DEF vars, Abandoned
<1>2. ASSUME NEW u \in Updates, Pin(u) \/ UpdateStep(u) PROVE Abandoned'
    <2>1. CASE UpdateTimesOut(u)
        BY <2>1, AbandonedTimesOut DEF UpdateTimesOut
    <2>2. CASE ~UpdateTimesOut(u)
        <3>1. UNCHANGED adrift /\ \E here \in States \ {"failed", "over"}, there \in States :
                                   Goto(u, here, there)
            BY <1>2, <2>2 DEF UpdateStep, Pin, VerifyFails, Begin, UpdateGivesUp, PullFails,
               UpdateUp, UpdateRollsBack, Confirm, Settled, Acquire, Down, States
        <3>2. QED
            BY <3>1, AnchoredGoto, AbandonedAnchored
    <2>3. QED
        BY <2>1, <2>2
<1>3. ASSUME NEW h \in Healers, HealerBegins(h) \/ HealerStep(h) PROVE Abandoned'
    <2>1. CASE HealerTimesOut(h)
        BY <2>1, AbandonedTimesOut DEF HealerTimesOut
    <2>2. CASE ~HealerTimesOut(h)
        <3>1. UNCHANGED adrift /\ \E here \in States \ {"failed", "over"}, there \in States :
                                   Goto(h, here, there)
            BY <1>3, <2>2 DEF HealerStep, HealerBegins, HealerGivesUp, HealerEnds, Acquire, Down,
               States
        <3>2. QED
            BY <3>1, AnchoredGoto, AbandonedAnchored
    <2>3. QED
        BY <2>1, <2>2
<1>4. CASE WatchStep
    <2>1. UNCHANGED adrift /\ (UNCHANGED pc \/ \E here \in States \ {"failed", "over"},
                                                  there \in States : Goto("watch", here, there))
        BY <1>4 DEF WatchStep, Look, ProbeOk, ProbeFails, ProbeHeldByMigration, WatchRestarts,
           WatchUp, WatchGivesUp, Record, Acquire, Down, States
    <2>2. Anchored
        BY <2>1, AnchoredGoto DEF Anchored
    <2>3. QED
        BY <2>2, AbandonedAnchored
<1>5. CASE PoolLooks \/ PoolInspects \/ PoolFires
    <2>1. UNCHANGED adrift /\ (UNCHANGED pc \/ \E here \in States \ {"failed", "over"},
                                                  there \in States : Goto("pool", here, there))
        BY <1>5 DEF PoolLooks, PoolInspects, PoolFires, States
    <2>2. Anchored
        BY <2>1, AnchoredGoto DEF Anchored
    <2>3. QED
        BY <2>2, AbandonedAnchored
<1>6. CASE Sicken \/ Heal \/ Tick
    BY <1>6 DEF Sicken, Heal, Tick, Abandoned
<1>7. CASE WatchDies
    <2>1. Anchored
        BY <1>7 DEF WatchDies, Anchored, TypeOK
    <2>2. QED
        BY <2>1, AbandonedAnchored
<1>8. CASE ConsoleDies
    BY <1>8, AbandonedConsoleDies
<1>9. ASSUME NEW p \in Ops, DriftEnds(p) PROVE Abandoned'
    BY <1>9 DEF DriftEnds, Abandoned, TypeOK
<1>10. QED
    BY <1>1, <1>2, <1>3, <1>4, <1>5, <1>6, <1>7, <1>8, <1>9 DEF Next

\* "never proceed unlocked": whoever is between its `docker compose` commands holds the
\* lock, so two operations are never there at once, whichever of them is killed when; and a
\* command that runs without it is one that its console gave up, by a timeout or its death.
THEOREM OneComposeAtATime == Spec => []ComposeExclusive
<1>1. Init => Locked /\ Abandoned
    BY ExclusiveInit DEF Init, Abandoned
<1>2. Locked /\ Abandoned => ComposeExclusive
    BY DEF Locked, Abandoned, ComposeExclusive
<1>3. QED
    BY <1>1, <1>2, TypeInit, TypeStep, ExclusiveStep, AbandonedStep, PTL DEF Spec

(***************************************************************************)
(* Watchdogs spare updates.  The marker is no older than an update that    *)
(* still counts on it, and from its look for a marker to the end of its    *)
(* restart a watchdog has noted every such update.                         *)
(***************************************************************************)
Counts(u) == InProgress(u) /\ Fresh(age[u], UpdateMax) /\ u \notin robbed

Noted == \A u \in Updates : Counts(u) =>
            /\ marker \in 0..age[u]
            /\ \A w \in Dogs : pc[w] # "idle" => u \in late[w]

\* A step that leaves marker and ages alone and ends no watchdog's look.
Quiet == \A u \in Updates : Counts(u)' =>
            /\ Counts(u) /\ marker' = marker /\ age'[u] = age[u]
            /\ \A w \in Dogs : pc'[w] # "idle" =>
                  pc[w] # "idle" /\ (u \in late[w] => u \in late'[w])

LEMMA NotedInit == Init => Noted
BY DEF Init, Noted, Counts, InProgress, Ops

LEMMA NotedQuiet == Noted /\ Quiet => Noted'
BY DEF Noted, Quiet

\* With an update that counts goes a fresh marker.
LEMMA NotedFresh ==
    ASSUME TypeOK, Noted, NEW u \in Updates, Counts(u)
    PROVE  Fresh(marker, UpdateMax)
BY DEF TypeOK, Noted, Counts, Fresh, Ages, Absent

\* Once the marker has been taken away, no update counts on it any more.
LEMMA UnsetQuiet ==
    ASSUME TypeOK, NEW u \in Updates, MarkerUnset(u), ~InProgress(u)',
           \A v \in Updates : v # u => pc'[v] = pc[v]
    PROVE  Quiet
<1>1. \A v \in Updates : ~Counts(v)'
    BY DEF MarkerUnset, Counts, InProgress
<1>2. QED
    BY <1>1 DEF Quiet

\* The steps of an update and of another operation are quiet, but for the beginning.
LEMMA UpdateQuiet ==
    ASSUME TypeOK, NEW u \in Updates, Pin(u) \/ UpdateStep(u), ~Begin(u)
    PROVE  Quiet
<1>1. u \in Ops \cup Dogs /\ u \notin Dogs /\ pc \in [Ops \cup Dogs -> States]
      /\ Updates \subseteq Ops \cup Dogs
    BY DEF TypeOK, States, Ops, Dogs
<1>2. CASE UpdateGivesUp(u) \/ PullFails(u) \/ UpdateRollsBack(u) \/ UpdateTimesOut(u)
           \/ Settled(u) \/ (Confirm(u) /\ pc'[u] # "settle")
    <2>1. MarkerUnset(u) /\ ~InProgress(u)' /\ \A v \in Updates : v # u => pc'[v] = pc[v]
        BY <1>1, <1>2 DEF UpdateGivesUp, PullFails, UpdateRollsBack, UpdateTimesOut, TimesOut,
           Settled, Confirm, Goto, InProgress
    <2>2. QED
        BY <2>1, UnsetQuiet
<1>3. CASE Pin(u) \/ VerifyFails(u) \/ UpdateUp(u) \/ Acquire(u) \/ Down(u)
           \/ (Confirm(u) /\ pc'[u] = "settle")
    <2>1. /\ UNCHANGED <<marker, age, robbed, late>>
          /\ \A v \in Updates : InProgress(v)' => InProgress(v)
          /\ \A w \in Dogs : pc'[w] = pc[w]
        BY <1>1, <1>3 DEF Pin, VerifyFails, UpdateUp, Confirm, Acquire, Down, Goto, InProgress,
           histVars, consoleVars
    <2>2. QED
        BY <2>1 DEF Quiet, Counts
<1>4. QED
    BY <1>2, <1>3 DEF UpdateStep

LEMMA HealerQuiet ==
    ASSUME TypeOK, NEW h \in Healers, HealerBegins(h) \/ HealerStep(h)
    PROVE  Quiet
<1>1. h \in Ops \cup Dogs /\ h \notin Dogs /\ h \notin Updates /\ pc \in [Ops \cup Dogs -> States]
      /\ Updates \subseteq Ops \cup Dogs
    BY DEF TypeOK, States, Ops, Dogs
<1>2. /\ UNCHANGED <<marker, age, robbed, late>>
      /\ \A q \in Updates \cup Dogs : pc'[q] = pc[q]
    BY <1>1 DEF HealerStep, HealerBegins, HealerGivesUp, HealerEnds, HealerTimesOut, TimesOut,
       Acquire, Down, Goto, histVars, consoleVars
<1>3. QED
    BY <1>2 DEF Quiet, Counts, InProgress

\* So are those of the watcher after its look.
LEMMA WatchQuiet ==
    ASSUME TypeOK, WatchStep, ~Look
    PROVE  Quiet
<1>1. /\ "watch" \in Dogs /\ "watch" \in Ops \cup Dogs /\ "watch" \notin Updates
      /\ pc \in [Ops \cup Dogs -> States] /\ Updates \cup Dogs \subseteq Ops \cup Dogs
    BY DEF TypeOK, States, Ops, Dogs
<1>2. UNCHANGED <<marker, age, robbed, late>>
    BY DEF WatchStep, ProbeHeldByMigration, ProbeOk, ProbeFails, WatchGivesUp, Record,
       WatchRestarts, WatchUp, Acquire, Down, histVars, consoleVars
<1>3. pc["watch"] # "idle" /\ \A q \in Updates \cup Dogs : q # "watch" => pc'[q] = pc[q]
    BY <1>1 DEF WatchStep, ProbeHeldByMigration, ProbeOk, ProbeFails, WatchGivesUp, Record,
       WatchRestarts, WatchUp, Acquire, Down, Goto
<1>4. QED
    BY <1>1, <1>2, <1>3 DEF Quiet, Counts, InProgress

LEMMA WorldQuiet ==
    ASSUME TypeOK, \/ PoolInspects \/ PoolFires \/ Sicken \/ Heal \/ ConsoleDies \/ WatchDies
                   \/ \E p \in Ops : DriftEnds(p)
    PROVE  Quiet
<1>1. /\ Dogs \subseteq Ops \cup Dogs /\ "pool" \notin Updates /\ "watch" \notin Ops
      /\ pc \in [Ops \cup Dogs -> States] /\ Updates \subseteq Ops \cup Dogs
      /\ "watch" \notin Updates /\ Updates \subseteq Ops
    BY DEF TypeOK, States, Ops, Dogs
<1> USE DEF Quiet, Counts, InProgress, histVars, consoleVars, Dogs
<1>2. CASE PoolInspects
    BY <1>1, <1>2 DEF PoolInspects, Goto
<1>3. CASE PoolFires
    BY <1>1, <1>3 DEF PoolFires, Goto
<1>4. CASE Sicken \/ Heal \/ \E p \in Ops : DriftEnds(p)
    BY <1>1, <1>4 DEF Sicken, Heal, DriftEnds
<1>5. CASE ConsoleDies
    <2>1. \A u \in Updates : ~InProgress(u)'
        BY <1>1, <1>5 DEF ConsoleDies
    <2>2. QED
        BY <2>1
<1>6. CASE WatchDies
    BY <1>1, <1>6 DEF WatchDies
<1>7. QED
    BY <1>2, <1>3, <1>4, <1>5, <1>6

\* Time makes the marker and the updates that count on it older alike.
LEMMA NotedTick ==
    ASSUME TypeOK, Noted, Tick
    PROVE  Noted'
<1> SUFFICES ASSUME NEW u \in Updates, Counts(u)'
             PROVE  /\ marker' \in 0..age'[u]
                    /\ \A w \in Dogs : pc'[w] # "idle" => u \in late'[w]
    BY DEF Noted
<1>1. age[u] \in Ages(UpdateMax) /\ age'[u] = Older(age[u], UpdateMax)
      /\ UNCHANGED <<pc, robbed, late>> /\ marker' = Older(marker, UpdateMax)
    BY DEF TypeOK, Tick
<1>2. Fresh(age'[u], UpdateMax) /\ InProgress(u) /\ u \notin robbed
    BY <1>1 DEF Counts, InProgress
<1>3. Fresh(age[u], UpdateMax)
    BY <1>1, <1>2 DEF Fresh, Older, Ages, Absent
<1>4. Counts(u)
    BY <1>2, <1>3 DEF Counts
<1>5. marker' \in 0..age'[u]
    BY <1>1, <1>3, <1>4 DEF Noted, Fresh, Older, Ages, Absent
<1>6. QED
    BY <1>1, <1>4, <1>5 DEF Noted

\* A watchdog that goes on after its look has seen no fresh marker.
LEMMA NotedLook ==
    ASSUME TypeOK, Noted, Look \/ PoolLooks
    PROVE  Noted'
<1>1. /\ Dogs \subseteq Ops \cup Dogs /\ pc \in [Ops \cup Dogs -> States]
      /\ Updates \subseteq (Ops \cup Dogs) \ Dogs
    BY DEF TypeOK, States, Ops, Dogs
<1>2. \A u \in Updates : Counts(u)' => Counts(u)
    BY <1>1 DEF Look, PoolLooks, Goto, Counts, InProgress, consoleVars, Dogs
<1>3. CASE \A u \in Updates : ~Counts(u)
    BY <1>2, <1>3 DEF Noted
<1>4. CASE \E u \in Updates : Counts(u)
    <2>1. Fresh(marker, UpdateMax)
        BY <1>4, NotedFresh
    <2>2. UNCHANGED <<pc, late, marker, age>>
        BY <2>1 DEF Look, PoolLooks, BusyReason, consoleVars
    <2>3. Quiet
        BY <1>2, <2>2 DEF Quiet
    <2>4. QED
        BY <2>3, NotedQuiet
<1>5. QED
    BY <1>3, <1>4

LEMMA NotedBegin ==
    ASSUME TypeOK, Noted, NEW u \in Updates, Begin(u)
    PROVE  Noted'
<1>1. /\ Dogs \subseteq Ops \cup Dogs /\ u \notin Dogs /\ pc \in [Ops \cup Dogs -> States]
      /\ Updates \subseteq Ops \cup Dogs /\ late \in [Dogs -> SUBSET Updates]
      /\ age \in [Updates -> Ages(UpdateMax)]
    BY DEF TypeOK, States, Ops, Dogs
<1>2. /\ marker' = 0 /\ age'[u] = 0
      /\ \A w \in Dogs : pc'[w] # "idle" => u \in late'[w]
    BY <1>1 DEF Begin, Goto, MarkerSet
<1>3. ASSUME NEW v \in Updates, v # u, Counts(v)'
      PROVE  /\ marker' \in 0..age'[v]
             /\ \A w \in Dogs : pc'[w] # "idle" => v \in late'[w]
    <2>1. Counts(v) /\ age'[v] = age[v]
        BY <1>1, <1>3 DEF Begin, Goto, MarkerSet, Counts, InProgress
    <2>2. \A w \in Dogs : pc[w] # "idle" => v \in late[w]
        BY <2>1 DEF Noted
    <2>3. \A w \in Dogs : pc'[w] # "idle" => v \in late'[w]
        BY <1>1, <2>2 DEF Begin, Goto
    <2>4. 0 \in 0..age[v]
        BY <1>1, <2>1 DEF Counts, Fresh, Ages, Absent
    <2>5. QED
        BY <1>2, <2>1, <2>3, <2>4
<1>4. 0 \in 0..0
    OBVIOUS
<1>5. QED
    BY <1>2, <1>3, <1>4 DEF Noted

LEMMA NotedStep == TypeOK /\ Noted /\ [Next]_vars => Noted'
<1> SUFFICES ASSUME TypeOK, Noted, [Next]_vars PROVE Noted'
    OBVIOUS
<1>1. CASE UNCHANGED vars
    BY <1>1 DEF Noted, Counts, vars, consoleVars, histVars, InProgress
<1>2. ASSUME NEW u \in Updates, Pin(u) \/ UpdateStep(u) PROVE Noted'
    BY <1>2, NotedBegin, UpdateQuiet, NotedQuiet
<1>3. ASSUME NEW h \in Healers, HealerBegins(h) \/ HealerStep(h) PROVE Noted'
    BY <1>3, HealerQuiet, NotedQuiet
<1>4. CASE WatchStep
    BY <1>4, WatchQuiet, NotedLook, NotedQuiet
<1>5. CASE \/ PoolLooks \/ PoolInspects \/ PoolFires \/ Sicken \/ Heal
           \/ ConsoleDies \/ WatchDies \/ \E p \in Ops : DriftEnds(p)
    BY <1>5, NotedLook, WorldQuiet, NotedQuiet
<1>6. CASE Tick
    BY <1>6, NotedTick
<1>7. QED
    BY <1>1, <1>2, <1>3, <1>4, <1>5, <1>6 DEF Next

\* A restart by the watcher or the pool watchdog lands in no update that has had its marker
\* for less than the time it counts, unless that update began after the watchdog had looked
\* or lost the marker to another update's end; for any number of updates at once.
THEOREM UpdatesAreSpared == Spec => SparesUpdates
<1>1. TypeOK /\ Noted =>
        [\A w \in Dogs : Restarts(w) =>
           \A u \in Updates : InProgress(u) /\ Fresh(age[u], UpdateMax)
              => u \in late[w] \cup robbed]_vars
    BY DEF Noted, Counts, Restarts
<1>2. TypeOK /\ Noted /\ [Next]_vars => Noted'
    BY NotedStep
<1>3. QED
    BY <1>1, <1>2, TypeInit, TypeStep, NotedInit, PTL DEF Spec, SparesUpdates

(***************************************************************************)
(* Restarts back off.  Powers of two are counted as sets of subsets, since *)
(* that is what the library says of them.                                  *)
(***************************************************************************)
LEMMA PowerIsSubsets ==
    ASSUME NEW n \in Nat
    PROVE  /\ IsFiniteSet(SUBSET (1..n))
           /\ Cardinality(SUBSET (1..n)) = 2^n /\ 2^n \in Nat
<1>1. IsFiniteSet(1..n) /\ Cardinality(1..n) = n
    <2>1. 1 \in Int /\ n \in Int
        OBVIOUS
    <2>2. IsFiniteSet(1..n) /\ Cardinality(1..n) = IF 1 > n THEN 0 ELSE n - 1 + 1
        BY <2>1, FS_Interval, Zenon
    <2>3. QED
        BY <2>2
<1>2. IsFiniteSet(SUBSET (1..n)) /\ Cardinality(SUBSET (1..n)) = 2^n
    BY <1>1, FS_SUBSET, Zenon
<1>3. QED
    BY <1>2, FS_CardinalityType, Zenon

LEMMA PowerGrows ==
    ASSUME NEW m \in Nat, NEW n \in Nat, m <= n
    PROVE  2^m <= 2^n
<1>1. SUBSET (1..m) \in SUBSET (SUBSET (1..n))
    <2>1. 1..m \subseteq 1..n
        OBVIOUS
    <2>2. QED
        BY <2>1, Zenon
<1>2. Cardinality(SUBSET (1..m)) <= Cardinality(SUBSET (1..n))
    BY <1>1, PowerIsSubsets, FS_Subset, Zenon
<1>3. QED
    BY <1>2, PowerIsSubsets

\* A longer history never asks for less.
LEMMA BackoffGrows ==
    ASSUME NEW m \in Nat, NEW n \in Nat, m <= n
    PROVE  Backoff(m) \in Nat /\ Backoff(n) \in Nat /\ Backoff(m) <= Backoff(n)
<1>1. 2^m \in Nat /\ 2^n \in Nat /\ 2^m <= 2^n
    BY PowerIsSubsets, PowerGrows
<1>2. \A a, b, c \in Nat : a <= b => c * a <= c * b /\ c * a \in Nat /\ c * b \in Nat
    OBVIOUS
<1>3. Cooldown * 2^m \in Nat /\ Cooldown * 2^n \in Nat /\ Cooldown * 2^m <= Cooldown * 2^n
    BY <1>1, <1>2
<1>4. QED
    BY <1>3 DEF Backoff

LEMMA HistoryFinite ==
    ASSUME TypeOK
    PROVE  IsFiniteSet(recent) /\ Cardinality(recent) \in Nat
<1>1. IsFiniteSet(0..HistoryWindow)
    BY FS_Interval
<1>2. QED
    BY <1>1, FS_Subset, FS_CardinalityType DEF TypeOK

\* What a tick leaves of the history is no longer than it was.
LEMMA HistoryShrinks ==
    ASSUME TypeOK, Tick
    PROVE  Cardinality(recent') \in Nat /\ Cardinality(recent') <= Cardinality(recent)
<1> DEFINE back == [a \in recent' |-> a - 1]
<1>1. recent \subseteq Int /\ recent' = {a + 1 : a \in {b \in recent : b < HistoryWindow}}
    BY DEF TypeOK, Tick
<1>2. back \in Injection(recent', recent)
    <2>1. \A a \in recent' : a \in Int /\ a - 1 \in recent
        BY <1>1
    <2>2. back \in [recent' -> recent]
        BY <2>1
    <2>3. \A a, b \in recent' : back[a] = back[b] => a = b
        BY <2>1
    <2>4. QED
        BY <2>2, <2>3 DEF Injection, IsInjective
<1>3. IsFiniteSet(recent') /\ Cardinality(recent') <= Cardinality(recent)
    BY <1>2, HistoryFinite, FS_Injection, Zenon
<1>4. QED
    BY <1>3, FS_CardinalityType

\* Between two restarts, the date and the entry of the last one hold the next one back; a
\* restart that is decided on is far enough from the last.
Waited == \A n \in {1, Cardinality(recent)} : tookAgo >= Backoff(n)

Paced ==
    ~unrecorded /\ tookAgo \in 0..HistoryWindow =>
        /\ since["cooldown"] \in 0..tookAgo /\ \E a \in recent : a <= tookAgo
        /\ pc["watch"] \in {"wait", "held"} => Waited

LEMMA PacedInit == Init => Paced
BY DEF Init, Paced, Absent

\* The steps that leave the watcher's pace alone.
Unpaced == /\ UNCHANGED <<tookAgo, recent, since["cooldown"], unrecorded>>
           /\ pc'["watch"] \in {"wait", "held"} => pc["watch"] \in {"wait", "held"}

LEMMA PacedUnpaced == Paced /\ Unpaced => Paced'
BY DEF Paced, Unpaced, Waited

\* A cooldown that is over is at least what the history asks for.
LEMMA PacedDecision ==
    ASSUME TypeOK, Paced, CooledDown,
           ~unrecorded, tookAgo \in 0..HistoryWindow
    PROVE  Waited
<1>1. since["cooldown"] \in 0..tookAgo /\ recent # {}
    BY DEF Paced
<1>2. since["cooldown"] >= Backoff(Cardinality(recent))
    BY <1>1 DEF CooledDown, Absent
<1>3. Cardinality(recent) \in Nat /\ 1 <= Cardinality(recent)
    <2>1. Cardinality(recent) # 0
        BY <1>1, HistoryFinite, FS_EmptySet, Zenon
    <2>2. QED
        BY <2>1, HistoryFinite
<1>4. Backoff(1) \in Nat /\ Backoff(Cardinality(recent)) \in Nat
      /\ Backoff(1) <= Backoff(Cardinality(recent))
    BY <1>3, BackoffGrows
<1>5. QED
    BY <1>1, <1>2, <1>4 DEF Waited

LEMMA PacedWatch ==
    ASSUME TypeOK, Paced, WatchStep
    PROVE  Paced'
<1>1. "watch" \in Ops \cup Dogs /\ pc \in [Ops \cup Dogs -> States]
    BY DEF TypeOK, States, Dogs
<1>2. since \in [{"cooldown", "hold", "migrate"} -> Ages(CooldownMax + HoldMax + MigrateHoldMax)]
    BY DEF TypeOK
<1> USE DEF Goto
<1>3. CASE Look \/ ProbeHeldByMigration \/ WatchUp \/ WatchGivesUp \/ Acquire("watch")
    <2>1. Unpaced
        BY <1>1, <1>2, <1>3 DEF Look, ProbeHeldByMigration, WatchUp, WatchGivesUp, Acquire, Set,
           Unpaced, watchVars, histVars
    <2>2. QED
        BY <2>1, PacedUnpaced
<1>4. ASSUME NEW b \in BOOLEAN, ProbeOk(b) \/ ProbeFails(b) PROVE Paced'
    <2>1. /\ pc["watch"] = "probe" /\ UNCHANGED <<tookAgo, recent, unrecorded>>
          /\ since'["cooldown"] = since["cooldown"]
        BY <1>1, <1>2, <1>4 DEF ProbeOk, ProbeFails, Set, histVars
    <2>2. CASE pc'["watch"] = "idle"
        <3>1. Unpaced
            BY <2>1, <2>2 DEF Unpaced
        <3>2. QED
            BY <3>1, PacedUnpaced
    <2>3. CASE pc'["watch"] # "idle"
        <3>1. CooledDown /\ pc'["watch"] = "wait"
            BY <1>1, <1>4, <2>3 DEF ProbeOk, ProbeFails
        <3>2. ~unrecorded /\ tookAgo \in 0..HistoryWindow => Waited
            BY <2>1, <3>1, PacedDecision
        <3>3. QED
            BY <2>1, <3>1, <3>2 DEF Paced, Waited
    <2>4. QED
        BY <2>2, <2>3
<1>5. CASE WatchRestarts \/ Down("watch")
    <2>1. unrecorded'
        BY <1>5 DEF WatchRestarts, Down, Taken
    <2>2. QED
        BY <2>1 DEF Paced
<1>6. CASE Record
    <2>1. pc'["watch"] = "idle" /\ since'["cooldown"] = 0 /\ 0 \in recent' /\ tookAgo' = tookAgo
        BY <1>1, <1>2, <1>6 DEF Record, Set
    <2>2. QED
        BY <2>1 DEF Paced
<1>7. QED
    BY <1>3, <1>4, <1>5, <1>6 DEF WatchStep

\* Time makes the last restart, its date and its entry older alike.
LEMMA PacedTick ==
    ASSUME TypeOK, Paced, Tick
    PROVE  Paced'
<1> SUFFICES ASSUME ~unrecorded', tookAgo' \in 0..HistoryWindow
             PROVE  /\ since'["cooldown"] \in 0..tookAgo' /\ \E a \in recent' : a <= tookAgo'
                    /\ pc'["watch"] \in {"wait", "held"} => Waited'
    BY DEF Paced
<1>1. tookAgo \in 0..HistoryWindow /\ tookAgo' = tookAgo + 1 /\ ~unrecorded /\ pc' = pc
    BY DEF Tick, Older, TypeOK, Ages, Absent
<1>2. since'["cooldown"] \in 0..tookAgo' /\ \E a \in recent' : a <= tookAgo'
    <2>1. since["cooldown"] \in 0..tookAgo
        BY <1>1 DEF Paced
    <2>2. since'["cooldown"] \in 0..tookAgo'
        <3>1. since'["cooldown"] \in {since["cooldown"], since["cooldown"] + 1}
            BY DEF Tick, Older
        <3>2. QED
            BY <1>1, <2>1, <3>1
    <2>3. PICK a \in recent : a <= tookAgo
        BY <1>1 DEF Paced
    <2>4. a \in Int /\ a < HistoryWindow /\ a + 1 <= tookAgo'
        BY <1>1, <2>3 DEF TypeOK
    <2>5. a + 1 \in recent'
        BY <2>4 DEF Tick
    <2>6. QED
        BY <2>2, <2>4, <2>5
<1>3. CASE pc["watch"] \in {"wait", "held"}
    <2>1. Waited
        BY <1>1, <1>3 DEF Paced
    <2>2. /\ Backoff(Cardinality(recent')) \in Nat /\ Backoff(Cardinality(recent)) \in Nat
          /\ Backoff(1) \in Nat
          /\ Backoff(Cardinality(recent')) <= Backoff(Cardinality(recent))
        BY HistoryShrinks, HistoryFinite, BackoffGrows
    <2>3. tookAgo >= Backoff(1) /\ tookAgo >= Backoff(Cardinality(recent))
        BY <2>1 DEF Waited
    <2>4. tookAgo' >= Backoff(1) /\ tookAgo' >= Backoff(Cardinality(recent'))
        BY <1>1, <2>2, <2>3
    <2>5. \A n \in {1, Cardinality(recent')} : tookAgo' >= Backoff(n)
        BY <2>4, Zenon
    <2>6. QED
        BY <1>2, <2>5 DEF Waited
<1>4. QED
    BY <1>1, <1>2, <1>3

LEMMA PacedStep == TypeOK /\ Paced /\ [Next]_vars => Paced'
<1> SUFFICES ASSUME TypeOK, Paced, [Next]_vars PROVE Paced'
    OBVIOUS
<1>1. pc \in [Ops \cup Dogs -> States] /\ "watch" \in Ops \cup Dogs /\ "watch" \notin Ops
    BY DEF TypeOK, States, Ops, Dogs
<1> USE DEF Unpaced, Goto, consoleVars, watchVars, histVars
<1>2. CASE UNCHANGED vars
    BY <1>2, PacedUnpaced DEF vars
<1>3. ASSUME NEW u \in Updates, Pin(u) \/ UpdateStep(u) PROVE Paced'
    <2>1. u \in Ops \cup Dogs /\ u # "watch"
        BY DEF Ops
    <2>2. Unpaced
        BY <1>1, <1>3, <2>1 DEF UpdateStep, Pin, VerifyFails, Begin, UpdateGivesUp, PullFails,
           UpdateUp, UpdateRollsBack, UpdateTimesOut, TimesOut, Confirm, Settled, Acquire, Down
    <2>3. QED
        BY <2>2, PacedUnpaced
<1>4. ASSUME NEW h \in Healers, HealerBegins(h) \/ HealerStep(h) PROVE Paced'
    <2>1. h \in Ops \cup Dogs /\ h # "watch"
        BY DEF Ops
    <2>2. Unpaced
        BY <1>1, <1>4, <2>1 DEF HealerStep, HealerBegins, HealerGivesUp, HealerEnds,
           HealerTimesOut, TimesOut, Acquire, Down
    <2>3. QED
        BY <2>2, PacedUnpaced
<1>5. CASE WatchStep
    BY <1>5, PacedWatch
<1>6. CASE \/ PoolLooks \/ PoolInspects \/ PoolFires \/ Sicken \/ Heal
           \/ \E p \in Ops : DriftEnds(p)
    <2>1. Unpaced
        BY <1>1, <1>6 DEF PoolLooks, PoolInspects, PoolFires, Sicken, Heal, DriftEnds, Dogs
    <2>2. QED
        BY <2>1, PacedUnpaced
<1>7. CASE ConsoleDies \/ WatchDies
    <2>1. Unpaced
        BY <1>1, <1>7 DEF ConsoleDies, WatchDies
    <2>2. QED
        BY <2>1, PacedUnpaced
<1>8. CASE Tick
    BY <1>8, PacedTick
<1>9. QED
    BY <1>2, <1>3, <1>4, <1>5, <1>6, <1>7, <1>8 DEF Next

\* The watcher's restarts are as far apart as the doubling back-off over its history asks,
\* at the start of the restart and not just when it is decided on, however long the lock
\* kept it waiting; for any intervals, whoever is killed and whatever times out, except
\* after a restart whose own tick was killed before it was recorded.
THEOREM RestartsBackOff == Spec => BackoffKept
<1>1. TypeOK /\ Paced =>
        [Restarts("watch") /\ tookAgo \in 0..HistoryWindow /\ ~unrecorded
         => \A n \in {1, Cardinality(recent)} : tookAgo >= Backoff(n)]_vars
    BY DEF Paced, Waited, Restarts
<1>2. QED
    BY <1>1, TypeInit, TypeStep, PacedInit, PacedStep, PTL DEF Spec, BackoffKept
=============================================================================
