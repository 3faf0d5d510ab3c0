------------------------- MODULE FeedReconcileProofs -------------------------
(***************************************************************************)
(* FeedReconcile for every value of its constants: type correctness, that  *)
(* no DELETE is hasty, and that no shape the feed deleted is dropped from  *)
(* the sweep before devices are told.  The second rests on one fact: no    *)
(* streak is older than the last answer of the source that held its UID.   *)
(* The third is a count: what is sent before a tombstone, every tick that  *)
(* it waits, is among the sends that the others still have (WaitPays).     *)
(***************************************************************************)
EXTENDS FeedReconcile, FiniteSetTheorems, TLAPS

StreaksAreYoung == \A u \in Uids : misses[u] <= seen[u]

USE FeedAssumption DEF FeedAssumption, None

Slots == Layers \cup {Whole}

LEMMA ManagedUids == Managed \subseteq Uids /\ \A l \in Slots : Matches(l) \subseteq Managed
BY DEF Matches

\* What a pass may delete or send is among what it holds.
LEMMA OldestIn == ASSUME NEW S, NEW age, NEW n, NEW T \in Oldest(S, age, n) PROVE T \subseteq S
BY DEF Oldest

LEMMA PassUpdate ==
    ASSUME NEW p \in Pass, NEW f \in SUBSET Managed, NEW b \in BOOLEAN, NEW s \in SUBSET Uids
    PROVE  /\ [p EXCEPT !.feats = f, !.ok = b] \in Pass
           /\ [p EXCEPT !.read = TRUE, !.snap = s] \in Pass
           /\ [p EXCEPT !.read = TRUE] \in Pass
BY DEF Pass

LEMMA AgeNat ==
    ASSUME NEW cap \in Nat, NEW f \in [Uids -> 0 .. cap]
    PROVE  Age(f, cap) \in [Uids -> 0 .. cap]
<1>1. \A u \in Uids : (IF f[u] \in {None, cap} THEN f[u] ELSE f[u] + 1) \in 0 .. cap
    <2>1. \A u \in Uids : f[u] \in 0 .. cap
        OBVIOUS
    <2>2. QED
        BY <2>1
<1>2. QED
    BY <1>1, Zenon DEF Age

LEMMA AgeType ==
    ASSUME NEW cap \in Nat, NEW f \in [Uids -> None .. cap]
    PROVE  Age(f, cap) \in [Uids -> None .. cap]
BY DEF Age

\* What a run of FN_RECONCILE writes, for one choice of what it deletes.
LEMMA ReconcileType ==
    ASSUME TypeOK, NEW l \in Slots, Reconcile(l)
    PROVE  TypeOK'
<1> USE DEF TypeOK
<1>1. PICK p \in passes : /\ p.layer = l /\ p.read
                          /\ passes' = passes \ {p}
                          /\ wait' = IF p.feats \subseteq p.snap THEN wait
                                     ELSE [wait EXCEPT ![l] = p.feats \ p.snap]
                          /\ seen' = IF p.ok
                                     THEN [u \in Uids |-> IF u \in p.feats THEN 0 ELSE seen[u]]
                                     ELSE seen
                          /\ \E due \in Deletes(p) :
                               /\ misses' = Streaks(p, due)
                               /\ delq' = delq \cup due
                               /\ purge' = (purge /\ ~(Answered(p) /\ due = Ripe(p)))
                               /\ Sweep(p, due)
    BY Zenon DEF Reconcile
<1>2. PICK due \in Deletes(p) : /\ misses' = Streaks(p, due)
                                /\ delq' = delq \cup due
                                /\ purge' = (purge /\ ~(Answered(p) /\ due = Ripe(p)))
                                /\ Sweep(p, due)
    BY <1>1, Zenon
<1>3. p \in Pass /\ p.feats \subseteq Managed /\ p.snap \subseteq Uids
    BY DEF Pass
<1>4. due \subseteq p.snap
    <2>1. due \subseteq Ripe(p)
        BY OldestIn DEF Deletes
    <2>2. QED
        BY <2>1 DEF Ripe, Candidates
<1>5. passes' \subseteq Pass /\ delq' \subseteq Uids /\ purge' \in BOOLEAN
    BY <1>1, <1>2, <1>3, <1>4
<1>6. wait' \in [Slots -> SUBSET Managed]
    BY <1>1, <1>3 DEF Slots
<1>7. seen' \in [Uids -> 0 .. MassAbsence]
    BY <1>1
<1>8. misses' \in [Uids -> None .. MassAbsence]
    BY <1>2 DEF Streaks, Missed
<1>9. Tombstones(due) \in [Uids -> None .. TombTTL + 1]
    BY DEF Tombstones
<1>10. /\ tombs' \in [Uids -> None .. TombTTL + 1] /\ swept' \in BOOLEAN
       /\ sends' \in [Uids -> 0 .. TombMaxSends] /\ owed' \subseteq Uids
    <2>1. NowOwed(p, due) \subseteq Uids
        BY <1>3, <1>4 DEF NowOwed
    <2>2. CASE swept
        BY <1>2, <1>9, <2>1, <2>2 DEF Sweep
    <2>3. CASE ~swept
        <3>1. PICK sent \in Oldest(Sendable(p, due), Tombstones(due), TombMaxPerSweep) :
                /\ tombs' = [u \in Uids |-> IF u \in Kept(p, due) THEN Tombstones(due)[u]
                                            ELSE None]
                /\ sends' = [u \in Uids |-> IF u \in sent THEN sends[u] + 1
                                            ELSE IF u \in Kept(p, due) \/ Tombstones(due)[u] = None
                                            THEN sends[u] ELSE 0]
                /\ swept' = (sent # {})
                /\ owed' = NowOwed(p, due) \ sent
            BY <1>2, <2>3, Zenon DEF Sweep
        <3>2. \A u \in sent : sends[u] < TombMaxSends
            BY OldestIn DEF Sendable
        <3>3. sends' \in [Uids -> 0 .. TombMaxSends]
            BY <3>1, <3>2
        <3>4. tombs' \in [Uids -> None .. TombTTL + 1]
            BY <3>1, <1>9
        <3>5. QED
            BY <3>1, <3>3, <3>4, <2>1
    <2>4. QED
        BY <2>2, <2>3
<1>11. UNCHANGED <<mode, source, mission, polled, put, changes, faults>>
    BY DEF Reconcile, count
<1>12. QED
    BY <1>5, <1>6, <1>7, <1>8, <1>10, <1>11 DEF Slots

LEMMA TypeInit == Init => TypeOK
<1> SUFFICES ASSUME Init PROVE TypeOK
    OBVIOUS
<1>1. mission \subseteq Uids /\ source \subseteq Managed
    BY ManagedUids DEF Init
<1>2. /\ misses \in [Uids -> None .. MassAbsence] /\ tombs \in [Uids -> None .. TombTTL + 1]
      /\ sends \in [Uids -> 0 .. TombMaxSends] /\ seen \in [Uids -> 0 .. MassAbsence]
    BY DEF Init
<1>3. /\ wait \in [Slots -> SUBSET Managed] /\ put \in [Slots -> SUBSET Managed]
    BY DEF Init, Slots
<1>4. /\ polled \in BOOLEAN /\ purge \in BOOLEAN /\ swept \in BOOLEAN /\ passes \subseteq Pass
      /\ mode \in Modes /\ delq \subseteq Uids /\ owed \subseteq Uids
    BY Zenon DEF Init
<1>5. {changes, faults} \subseteq Nat
    BY DEF Init
<1>6. QED
    BY <1>1, <1>2, <1>3, <1>4, <1>5, Zenon DEF TypeOK, Slots

LEMMA TypeStep == TypeOK /\ [Next]_vars => TypeOK'
<1> SUFFICES ASSUME TypeOK, [Next]_vars PROVE TypeOK'
    OBVIOUS
<1> USE DEF TypeOK, feed, sweep, queue, count
<1>1. CASE StartPoll
    <2>1. \A l \in Slots : Request(l) \in Pass
        BY ManagedUids DEF Request, Pass, Slots
    <2>2. passes' \subseteq Pass
        BY <1>1, <2>1 DEF StartPoll, LayersNow, Slots
    <2>3. QED
        BY <1>1, <2>2 DEF StartPoll
<1>2. CASE SourceFails
    <2>1. passes' \subseteq Pass
        <3>1. PICK p \in passes, feats \in SUBSET Managed, ok \in BOOLEAN :
                passes' = (passes \ {p}) \cup {[p EXCEPT !.feats = feats, !.ok = ok]}
            BY <1>2, Zenon DEF SourceFails
        <3>2. [p EXCEPT !.feats = feats, !.ok = ok] \in Pass
            BY PassUpdate
        <3>3. QED
            BY <3>1, <3>2
    <2>2. QED
        BY <1>2, <2>1 DEF SourceFails, Fault
<1>3. CASE DeleteUid
    BY <1>3 DEF DeleteUid
<1>4. CASE DeleteFails
    BY <1>4 DEF DeleteFails, Fault
<1>5. ASSUME NEW l \in Slots, ReadMission(l) PROVE TypeOK'
    <2>1. passes' \subseteq Pass
        <3>1. PICK p \in passes :
                passes' = (passes \ {p}) \cup {[p EXCEPT !.read = TRUE, !.snap = mission]}
            BY <1>5, Zenon DEF ReadMission
        <3>2. [p EXCEPT !.read = TRUE, !.snap = mission] \in Pass
            BY PassUpdate
        <3>3. QED
            BY <3>1, <3>2
    <2>2. QED
        BY <1>5, <2>1 DEF ReadMission
<1>6. ASSUME NEW l \in Slots, MissionUnread(l) PROVE TypeOK'
    <2>1. passes' \subseteq Pass
        BY <1>6, PassUpdate DEF MissionUnread
    <2>2. QED
        BY <1>6, <2>1 DEF MissionUnread, Fault
<1>7. ASSUME NEW l \in Slots, Reconcile(l) PROVE TypeOK'
    BY <1>7, ReconcileType
<1>8. ASSUME NEW l \in Slots, StartChain(l) PROVE TypeOK'
    BY <1>8 DEF StartChain, Slots
<1>9. ASSUME NEW l \in Slots, PutUid(l) PROVE TypeOK'
    BY <1>9, ManagedUids DEF PutUid, Slots
<1>10. ASSUME NEW l \in Slots, PutFails(l) PROVE TypeOK'
    BY <1>10 DEF PutFails, Fault, Slots
<1>11. CASE Tick
    <2>1. misses' \in [Uids -> None .. MassAbsence] /\ tombs' \in [Uids -> None .. TombTTL + 1]
        <3>1. MassAbsence \in Nat /\ TombTTL + 1 \in Nat
            OBVIOUS
        <3>2. misses' = Age(misses, MassAbsence) /\ tombs' = Age(tombs, TombTTL + 1)
            BY <1>11 DEF Tick
        <3>3. QED
            BY <3>1, <3>2, AgeType, Zenon
    <2>2. seen' \in [Uids -> 0 .. MassAbsence]
        <3>1. seen' = Age(seen, MassAbsence)
            BY <1>11 DEF Tick
        <3>2. MassAbsence \in Nat /\ seen \in [Uids -> 0 .. MassAbsence]
            BY DEF TypeOK
        <3>3. QED
            BY <3>1, <3>2, AgeNat, Zenon
    <2>3. {changes', faults'} \subseteq Nat
        BY <1>11 DEF Tick, Fault
    <2>4. QED
        BY <1>11, <2>1, <2>2, <2>3 DEF Tick
<1>12. CASE QueuePurge
    <2>1. purge' \in BOOLEAN /\ polled' \in BOOLEAN
        BY <1>12, Zenon DEF QueuePurge
    <2>2. {changes', faults'} \subseteq Nat
        BY <1>12 DEF QueuePurge
    <2>3. QED
        BY <1>12, <2>1, <2>2 DEF QueuePurge
<1>13. CASE ChangeSource
    BY <1>13 DEF ChangeSource
<1>14. CASE Restart
    BY <1>14 DEF Restart, Fault, Slots
<1>15. CASE UNCHANGED vars
    BY <1>15 DEF vars
<1>16. QED
    BY <1>1, <1>2, <1>3, <1>4, <1>5, <1>6, <1>7, <1>8, <1>9, <1>10, <1>11, <1>12, <1>13,
       <1>14, <1>15 DEF Next, Slots

\* Type correctness.
THEOREM TypeCorrect == Spec => []TypeOK
BY TypeInit, TypeStep, PTL DEF Spec

LEMMA YoungStep == TypeOK /\ StreaksAreYoung /\ [Next]_vars => StreaksAreYoung'
<1> SUFFICES ASSUME TypeOK, StreaksAreYoung, [Next]_vars, NEW u \in Uids
             PROVE  misses'[u] <= seen'[u]
    BY DEF StreaksAreYoung
<1> USE DEF TypeOK, StreaksAreYoung
<1>1. ASSUME NEW l \in Slots, Reconcile(l) PROVE misses'[u] <= seen'[u]
    <2>1. PICK p \in passes, due \in SUBSET Uids :
            /\ misses' = Streaks(p, due)
            /\ seen' = IF p.ok THEN [v \in Uids |-> IF v \in p.feats THEN 0 ELSE seen[v]]
                       ELSE seen
        <3>1. PICK p \in passes :
                /\ seen' = IF p.ok THEN [v \in Uids |-> IF v \in p.feats THEN 0 ELSE seen[v]]
                           ELSE seen
                /\ \E due \in Deletes(p) : misses' = Streaks(p, due)
            BY <1>1, Zenon DEF Reconcile
        <3>2. PICK due \in Deletes(p) : misses' = Streaks(p, due)
            BY <3>1, Zenon
        <3>3. due \subseteq Uids
            BY OldestIn DEF Deletes, Ripe, Candidates, Pass
        <3>4. QED
            BY <3>1, <3>2, <3>3
    <2>2. CASE p.ok /\ u \in p.feats
        BY <2>1, <2>2 DEF Streaks, Answered
    <2>3. CASE ~(p.ok /\ u \in p.feats)
        <3>1. seen'[u] = seen[u]
            BY <2>1, <2>3
        <3>2. misses'[u] \in {None, 0, misses[u]}
            BY <2>1 DEF Streaks, Missed
        <3>3. QED
            BY <3>1, <3>2
    <2>4. QED
        BY <2>2, <2>3
<1>2. CASE Tick
    BY <1>2 DEF Tick, Age
<1>3. CASE UNCHANGED <<misses, seen>>
    BY <1>3
<1>4. QED
    BY <1>1, <1>2, <1>3 DEF Next, Slots, StartPoll, SourceFails, DeleteUid, DeleteFails,
       ReadMission, MissionUnread, StartChain, PutUid, PutFails, QueuePurge, ChangeSource,
       Restart, vars, feed

\* Without a purge, what a pass deletes no answer of the source has held for MinAbsence, nor
\* for MassAbsence when the pass claims that much of the mission is gone.
THEOREM NoDeleteIsHasty == Spec => NoHastyDelete
<1> DEFINE Old(p) == \A u \in delq' \ delq :
                       purge \/ seen[u] >= (IF MassClaim(p) THEN MassAbsence ELSE MinAbsence)
<1>1. Init => StreaksAreYoung
    BY DEF Init, StreaksAreYoung
<1>2. TypeOK /\ StreaksAreYoung /\ [Next]_vars => [\A p \in passes \ passes' : Old(p)]_vars
    <2> SUFFICES ASSUME TypeOK, StreaksAreYoung, Next, NEW q \in passes \ passes'
                 PROVE  Old(q)
        BY DEF vars
    <2>1. ASSUME NEW l \in Slots, Reconcile(l) PROVE Old(q)
        <3>1. PICK p \in passes : /\ passes' = passes \ {p}
                                  /\ \E due \in Deletes(p) : delq' = delq \cup due
            BY <2>1, Zenon DEF Reconcile
        <3>2. p = q
            BY <3>1
        <3>3. delq' \ delq \subseteq Ripe(q)
            BY <3>1, <3>2, OldestIn DEF Deletes
        <3>4. \A u \in Ripe(q) : u \in Uids /\ (purge \/ Missed(q)[u] >= NeedAbsent(q))
            BY DEF Ripe, Candidates, TypeOK, Pass
        <3>5. \A u \in Uids : Missed(q)[u] <= seen[u]
            BY DEF Missed, StreaksAreYoung, TypeOK
        <3>6. ASSUME NEW u \in delq' \ delq, ~purge PROVE seen[u] >= NeedAbsent(q)
            <4>1. u \in Uids /\ Missed(q)[u] >= NeedAbsent(q) /\ Missed(q)[u] <= seen[u]
                BY <3>3, <3>4, <3>5, <3>6
            <4>2. Missed(q)[u] \in Int /\ seen[u] \in Int /\ NeedAbsent(q) \in Int
                BY <4>1 DEF Missed, NeedAbsent, TypeOK
            <4>3. QED
                BY <4>1, <4>2
        <3>7. QED
            BY <3>6, Zenon DEF NeedAbsent
    <2>2. CASE delq' \subseteq delq
        BY <2>2
    <2>3. QED
        BY <2>1, <2>2 DEF Next, Slots, StartPoll, SourceFails, DeleteUid, DeleteFails,
           ReadMission, MissionUnread, StartChain, PutUid, PutFails, Tick, QueuePurge,
           ChangeSource, Restart, queue
<1>3. QED
    BY <1>1, <1>2, YoungStep, TypeCorrect, PTL DEF Spec, NoHastyDelete

(***************************************************************************)
(* No ghost is forgotten.                                                  *)
(***************************************************************************)
\* What a sweep may send before u: the sends that each tombstone as old as u's has left.
Waiting(u) == {w \in (Uids \ {u}) \X (0 .. TombMaxSends - 1) :
                 /\ tombs[w[1]] \in 0 .. TombTTL /\ tombs[w[1]] >= tombs[u]
                 /\ sends[w[1]] <= w[2]}

\* Is the sweep of this tick still to come?
Late == IF swept \/ (polled /\ passes = {}) THEN 0 ELSE 1

\* The tombstones of all other UIDs take this many sends together.
AllSends == (Cardinality(Uids) - 1) * TombMaxSends

\* Three days of sweeps send everything there can be, and some sweeps may be missed.
SweepsInTime ==
    /\ Layers # {} /\ 0 < TombMaxSends /\ 0 < TombMaxPerSweep
    /\ AllSends + TombMaxPerSweep * MaxFaults < TombMaxPerSweep * TombTTL

\* Every tick that u has waited a sweep has sent TombMaxPerSweep of what was waiting before
\* it, or a fault is to blame, or the sweep is still to come.
WaitPays(u) ==
    tombs[u] = 0 \/ TombMaxPerSweep * tombs[u] + Cardinality(Waiting(u))
                    <= AllSends + TombMaxPerSweep * (faults + Late)

GhostInv ==
    /\ faults <= MaxFaults
    /\ \A u \in owed : sends[u] = 0 /\ tombs[u] \in 0 .. TombTTL /\ WaitPays(u)

LEMMA TimesMonotone ==
    ASSUME NEW n \in Nat, NEW a \in Int, NEW b \in Int, a <= b PROVE n * a <= n * b
<1>1. n * (b - a) >= 0
    OBVIOUS
<1>2. n * (b - a) = n * b - n * a
    OBVIOUS
<1>3. QED
    BY <1>1, <1>2

LEMMA UidsFinite == /\ Cardinality(Uids) \in Nat /\ AllSends \in Int
                    /\ \A u \in Uids : /\ IsFiniteSet(Uids \ {u})
                                       /\ Cardinality(Uids \ {u}) = Cardinality(Uids) - 1
BY FS_CardinalityType, FS_RemoveElement DEF AllSends

LEMMA BoundsNat == /\ TombMaxSends \in Nat /\ TombMaxPerSweep \in Nat /\ TombTTL \in Nat
                   /\ MaxFaults \in Nat
OBVIOUS

LEMMA PairsFinite ==
    ASSUME NEW u \in Uids, NEW W \in SUBSET ((Uids \ {u}) \X (0 .. TombMaxSends - 1))
    PROVE  IsFiniteSet(W) /\ Cardinality(W) \in Nat /\ Cardinality(W) <= AllSends
<1> HIDE FeedAssumption DEF FeedAssumption
<1>1. 0 \in Int /\ TombMaxSends - 1 \in Int
    BY BoundsNat
<1>2. IsFiniteSet(0 .. TombMaxSends - 1) /\ Cardinality(0 .. TombMaxSends - 1) = TombMaxSends
    BY <1>1, BoundsNat, FS_Interval
<1> DEFINE Others == Uids \ {u}
           Turns == 0 .. TombMaxSends - 1
<1>3. /\ IsFiniteSet(Others) /\ Cardinality(Others) = Cardinality(Uids) - 1
      /\ IsFiniteSet(Turns) /\ Cardinality(Turns) = TombMaxSends /\ W \in SUBSET (Others \X Turns)
    BY <1>2, UidsFinite
<1> HIDE DEF Others, Turns
<1>4. IsFiniteSet(Others \X Turns) /\ Cardinality(Others \X Turns) = AllSends
    BY <1>3, FS_Product DEF AllSends
<1>5. QED
    BY <1>3, <1>4, FS_Subset, FS_CardinalityType

LEMMA WaitingFinite ==
    ASSUME NEW u \in Uids
    PROVE  /\ IsFiniteSet(Waiting(u)) /\ Cardinality(Waiting(u)) \in Nat
           /\ Cardinality(Waiting(u)) <= AllSends
BY PairsFinite DEF Waiting

LEMMA WaitingFiniteNext ==
    ASSUME NEW u \in Uids
    PROVE  /\ IsFiniteSet(Waiting(u)') /\ Cardinality(Waiting(u)') \in Nat
           /\ Cardinality(Waiting(u)') <= AllSends
BY PairsFinite DEF Waiting

\* Whoever has paid for its wait is within the life of a tombstone.
LEMMA PaidIsAlive ==
    ASSUME SweepsInTime, NEW t \in Nat, NEW w \in Nat, NEW f \in Nat, NEW l \in {0, 1},
           f <= MaxFaults, TombMaxPerSweep * t + w <= AllSends + TombMaxPerSweep * (f + l)
    PROVE  t \in 0 .. TombTTL
<1>1. TombMaxPerSweep * (f + l) <= TombMaxPerSweep * (MaxFaults + 1)
    BY TimesMonotone
<1>2. TombMaxPerSweep * (MaxFaults + 1) = TombMaxPerSweep * MaxFaults + TombMaxPerSweep
    OBVIOUS
<1>3. TombMaxPerSweep * (TombTTL + 1) = TombMaxPerSweep * TombTTL + TombMaxPerSweep
    OBVIOUS
<1>4. TombMaxPerSweep * t < TombMaxPerSweep * (TombTTL + 1)
    BY <1>1, <1>2, <1>3, UidsFinite DEF SweepsInTime
<1>5. ~(TombTTL + 1 <= t)
    BY <1>4, TimesMonotone
<1>6. QED
    BY <1>5

\* A step that leaves the tombstones alone, and owes a fault for a sweep it takes away.
LEMMA GhostQuiet ==
    ASSUME TypeOK, GhostInv, UNCHANGED <<tombs, sends, owed>>, faults' \in Nat,
           faults' <= MaxFaults, faults + Late <= faults' + Late'
    PROVE  GhostInv'
<1>1. faults \in Nat /\ Late \in {0, 1} /\ Late' \in {0, 1}
    BY DEF TypeOK, Late
<1>2. TombMaxPerSweep * (faults + Late) <= TombMaxPerSweep * (faults' + Late')
    BY <1>1, TimesMonotone
<1>3. ASSUME NEW u \in owed PROVE WaitPays(u)'
    <2>1. u \in Uids /\ Waiting(u)' = Waiting(u) /\ WaitPays(u) /\ tombs[u] \in Int
        BY <1>3 DEF TypeOK, Waiting, GhostInv
    <2>2. Cardinality(Waiting(u)) \in Nat /\ TombMaxPerSweep * tombs[u] \in Int
        BY <2>1, WaitingFinite
    <2>3. QED
        BY <1>1, <1>2, <2>1, <2>2, UidsFinite DEF WaitPays, AllSends
<1>4. QED
    BY <1>3 DEF GhostInv

\* A tick without a sweep is a fault.
LEMMA GhostTick == ASSUME TypeOK, GhostInv, SweepsInTime, Tick PROVE GhostInv'
<1>1. /\ faults \in Nat /\ Late \in {0, 1} /\ Late' = 1
      /\ faults' \in Nat /\ faults' <= MaxFaults /\ faults + Late + 1 <= faults' + Late'
    BY DEF TypeOK, Late, Tick, OnTime, Fault, count, GhostInv
<1>2. TombMaxPerSweep * (faults + Late) + TombMaxPerSweep
      <= TombMaxPerSweep * (faults' + Late')
    <2>1. TombMaxPerSweep * (faults + Late + 1) <= TombMaxPerSweep * (faults' + Late')
        <3>1. faults + Late + 1 \in Int /\ faults' + Late' \in Int
            BY <1>1
        <3>2. QED
            BY <1>1, <3>1, BoundsNat, TimesMonotone
    <2>2. TombMaxPerSweep * (faults + Late + 1)
          = TombMaxPerSweep * (faults + Late) + TombMaxPerSweep
        BY <1>1
    <2>3. QED
        BY <2>1, <2>2
<1>3. owed' = owed /\ sends' = sends
    BY DEF Tick
<1>4. \A v \in Uids : tombs'[v] = IF tombs[v] \in {None, TombTTL + 1} THEN tombs[v]
                                  ELSE tombs[v] + 1
    BY DEF Tick, Age
<1>5. ASSUME NEW u \in owed PROVE tombs'[u] \in 0 .. TombTTL /\ WaitPays(u)'
    <2>1. u \in Uids /\ tombs[u] \in 0 .. TombTTL /\ tombs'[u] = tombs[u] + 1 /\ WaitPays(u)
        BY <1>4, <1>5 DEF TypeOK, GhostInv
    <2>2. Waiting(u)' \subseteq Waiting(u)
        BY <1>3, <1>4, <2>1 DEF Waiting, TypeOK
    <2>3. /\ Cardinality(Waiting(u)) \in Nat /\ Cardinality(Waiting(u)') \in Nat
          /\ Cardinality(Waiting(u)') <= Cardinality(Waiting(u))
          /\ Cardinality(Waiting(u)') <= AllSends
        BY <2>1, <2>2, WaitingFinite, WaitingFiniteNext, FS_Subset
    <2>4. TombMaxPerSweep * tombs'[u] = TombMaxPerSweep * tombs[u] + TombMaxPerSweep
        BY <2>1
    <2>5. TombMaxPerSweep * tombs'[u] + Cardinality(Waiting(u)')
          <= AllSends + TombMaxPerSweep * (faults' + Late')
        <3>1. TombMaxPerSweep * tombs[u] \in Int /\ TombMaxPerSweep * (faults + Late) \in Nat
              /\ TombMaxPerSweep * (faults' + Late') \in Int
            BY <1>1, <2>1
        <3>2. CASE tombs[u] = 0
            BY <1>2, <2>3, <2>4, <3>1, <3>2, UidsFinite
        <3>3. CASE tombs[u] # 0
            BY <1>2, <2>1, <2>3, <2>4, <3>1, <3>3, UidsFinite DEF WaitPays
        <3>4. QED
            BY <3>2, <3>3
    <2>6. QED
        BY <1>1, <2>1, <2>3, <2>5, PaidIsAlive DEF WaitPays
<1>6. QED
    BY <1>1, <1>3, <1>5 DEF GhostInv

\* A sweep that does not send u removes as much of what waits before it as a sweep can.
LEMMA SweepPays ==
    ASSUME NEW u \in Uids, NEW sent \in SUBSET (Uids \ {u}),
           Cardinality(sent) = TombMaxPerSweep, Waiting(u)' \subseteq Waiting(u),
           \A v \in sent : <<v, sends[v]>> \in Waiting(u) /\ sends'[v] = sends[v] + 1,
           \A v \in sent : sends[v] \in Nat
    PROVE  Cardinality(Waiting(u)') + TombMaxPerSweep <= Cardinality(Waiting(u))
<1> DEFINE Gone == Waiting(u) \ Waiting(u)'
           turn == [v \in sent |-> <<v, sends[v]>>]
<1>1. \A v \in sent : <<v, sends[v]>> \in Gone
    BY DEF Waiting
<1>2. turn \in Injection(sent, Gone)
    BY <1>1 DEF Injection, IsInjective
<1>3. /\ IsFiniteSet(Waiting(u)) /\ Cardinality(Waiting(u)) \in Nat
      /\ IsFiniteSet(Waiting(u)') /\ Cardinality(Waiting(u)') \in Nat
    BY WaitingFinite, WaitingFiniteNext
<1>4. /\ IsFiniteSet(Gone) /\ Cardinality(Gone) \in Nat
      /\ Cardinality(Gone) = Cardinality(Waiting(u)) - Cardinality(Waiting(u) \cap Waiting(u)')
    BY <1>3, FS_Difference, FS_CardinalityType
<1>5. Waiting(u) \cap Waiting(u)' = Waiting(u)'
    OBVIOUS
<1>6. TombMaxPerSweep <= Cardinality(Gone)
    <2> HIDE DEF turn, Gone
    <2>1. QED
        BY <1>2, <1>4, FS_Injection
<1>7. Cardinality(Gone) = Cardinality(Waiting(u)) - Cardinality(Waiting(u)')
    BY <1>4, <1>5
<1> HIDE DEF Gone
<1>8. QED
    BY <1>3, <1>4, <1>6, <1>7, BoundsNat

\* A run of FN_RECONCILE: a shape it deletes starts its wait; a shape it does not send
\* keeps its place, and everything it does send was there before it.
LEMMA GhostReconcile ==
    ASSUME TypeOK, GhostInv, SweepsInTime, NEW l \in Slots, Reconcile(l)
    PROVE  GhostInv'
<1> USE DEF TypeOK
<1>1. PICK p \in passes : /\ p.read /\ passes' = passes \ {p}
                          /\ \E due \in Deletes(p) : Sweep(p, due)
    BY Zenon DEF Reconcile
<1>2. PICK due \in Deletes(p) : Sweep(p, due)
    BY <1>1, Zenon
<1>3. p \in Pass /\ due \subseteq p.snap \ p.feats /\ due \subseteq Uids
    BY <1>1, OldestIn DEF Deletes, Ripe, Candidates, Pass
<1>4. UNCHANGED <<polled, faults>>
    BY DEF Reconcile, count
<1> DEFINE Tombs == Tombstones(due)
<1>5. \A v \in Uids : Tombs[v] = IF v \in due THEN 0 ELSE tombs[v]
    BY DEF Tombstones
<1>6. faults \in Nat /\ Late \in {0, 1} /\ Late' \in {0, 1} /\ faults <= MaxFaults
    BY DEF Late, GhostInv
<1>7. ASSUME NEW u \in NowOwed(p, due)
      PROVE  /\ u \in Uids /\ sends[u] = 0 /\ Tombs[u] \in 0 .. TombTTL
             /\ u \in Sendable(p, due)
             /\ u \notin due => u \in owed
    <2>1. u \in Uids /\ sends[u] = 0 /\ (u \notin due => u \in owed)
          /\ u \notin p.feats /\ u \notin p.snap \ due
        BY <1>3, <1>7 DEF NowOwed, GhostInv
    <2>2. Tombs[u] \in 0 .. TombTTL
        BY <1>5, <2>1 DEF GhostInv
    <2>3. QED
        BY <2>1, <2>2 DEF Sendable, Kept, Existing, SweepsInTime
<1>8. CASE swept
    <2>1. tombs' = Tombs /\ owed' = NowOwed(p, due) /\ sends' = sends /\ swept'
        BY <1>2, <1>8 DEF Sweep
    <2>2. Late = 0 /\ Late' = 0
        BY <1>8, <2>1 DEF Late
    <2>3. ASSUME NEW u \in owed'
          PROVE  sends'[u] = 0 /\ tombs'[u] \in 0 .. TombTTL /\ WaitPays(u)'
        <3>1. /\ u \in Uids /\ sends'[u] = 0 /\ tombs'[u] \in 0 .. TombTTL
              /\ u \notin due => u \in owed
            BY <1>7, <2>1, <2>3
        <3>2. CASE tombs'[u] = 0
            BY <3>1, <3>2 DEF WaitPays
        <3>3. CASE tombs'[u] # 0
            <4>1. u \notin due /\ u \in owed /\ tombs'[u] = tombs[u] /\ tombs[u] > 0
                BY <1>5, <2>1, <3>1, <3>3
            <4>2. Waiting(u)' \subseteq Waiting(u)
                BY <1>5, <2>1, <3>1, <4>1 DEF Waiting
            <4>3. /\ Cardinality(Waiting(u)) \in Nat /\ Cardinality(Waiting(u)') \in Nat
                  /\ Cardinality(Waiting(u)') <= Cardinality(Waiting(u))
                BY <3>1, <4>2, WaitingFinite, WaitingFiniteNext, FS_Subset
            <4>4. WaitPays(u)
                BY <4>1 DEF GhostInv
            <4>5. TombMaxPerSweep * tombs[u] \in Int /\ TombMaxPerSweep * faults \in Int
                BY <1>6, <4>1
            <4>6. QED
                BY <1>4, <1>6, <2>2, <3>1, <4>1, <4>3, <4>4, <4>5, UidsFinite DEF WaitPays
        <3>4. QED
            BY <3>1, <3>2, <3>3
    <2>4. QED
        BY <1>4, <1>6, <2>3 DEF GhostInv
<1>9. CASE ~swept
    <2>1. PICK sent \in Oldest(Sendable(p, due), Tombs, TombMaxPerSweep) :
            /\ tombs' = [v \in Uids |-> IF v \in Kept(p, due) THEN Tombs[v] ELSE None]
            /\ sends' = [v \in Uids |-> IF v \in sent THEN sends[v] + 1
                                        ELSE IF v \in Kept(p, due) \/ Tombs[v] = None
                                        THEN sends[v] ELSE 0]
            /\ swept' = (sent # {})
            /\ owed' = NowOwed(p, due) \ sent
        BY <1>2, <1>9, Zenon DEF Sweep
    <2>2. /\ sent \subseteq Sendable(p, due)
          /\ sent = Sendable(p, due) \/ Cardinality(sent) = TombMaxPerSweep
          /\ \A v \in sent, x \in Sendable(p, due) \ sent : Tombs[v] >= Tombs[x]
        BY DEF Oldest
    <2>3. \A v \in Sendable(p, due) : /\ v \in Kept(p, due) /\ v \in Uids
                                      /\ Tombs[v] \in 0 .. TombTTL /\ sends[v] < TombMaxSends
        BY DEF Sendable, Kept
    <2>4. ASSUME NEW u \in owed'
          PROVE  sends'[u] = 0 /\ tombs'[u] \in 0 .. TombTTL /\ WaitPays(u)'
        <3>1. /\ u \in Uids /\ sends[u] = 0 /\ Tombs[u] \in 0 .. TombTTL
              /\ u \in Sendable(p, due) \ sent /\ u \in Kept(p, due)
              /\ u \notin due => u \in owed
            BY <1>7, <2>1, <2>3, <2>4
        <3>2. sends'[u] = 0 /\ tombs'[u] = Tombs[u]
            BY <2>1, <3>1
        <3>3. CASE tombs'[u] = 0
            BY <3>1, <3>2, <3>3 DEF WaitPays
        <3>4. CASE tombs'[u] # 0
            <4>1. u \notin due /\ u \in owed /\ tombs'[u] = tombs[u] /\ tombs[u] > 0
                BY <1>5, <3>1, <3>2, <3>4
            <4>2. Cardinality(sent) = TombMaxPerSweep /\ swept'
                <5>1. Cardinality(sent) = TombMaxPerSweep
                    BY <2>2, <3>1
                <5>2. sent # {}
                    <6>1. TombMaxPerSweep # 0
                        BY SweepsInTime DEF SweepsInTime
                    <6>2. QED
                        BY <5>1, <6>1, FS_EmptySet, Zenon
                <5>3. QED
                    BY <2>1, <5>1, <5>2, Zenon
            <4>3. ASSUME NEW v \in Uids, tombs'[v] \in 0 .. TombTTL, tombs'[v] >= tombs'[u]
                  PROVE  tombs[v] = tombs'[v] /\ (sends'[v] = sends[v] \/ sends'[v] = sends[v] + 1)
                <5>1. v \in Kept(p, due) /\ tombs'[v] = Tombs[v]
                    BY <2>1, <4>3
                <5>2. v \notin due /\ tombs[v] = tombs'[v]
                    BY <1>5, <4>1, <4>3, <5>1
                <5>3. QED
                    BY <2>1, <5>1, <5>2
            <4>4. Waiting(u)' \subseteq Waiting(u)
                BY <4>1, <4>3 DEF Waiting
            <4>5. ASSUME NEW v \in sent
                  PROVE  <<v, sends[v]>> \in Waiting(u) /\ sends'[v] = sends[v] + 1
                <5>1. v \in Uids /\ v # u /\ Tombs[v] \in 0 .. TombTTL /\ Tombs[v] >= Tombs[u]
                      /\ sends[v] \in 0 .. TombMaxSends - 1 /\ v \in Kept(p, due)
                    BY <2>2, <2>3, <3>1, <4>5
                <5>2. tombs'[v] = Tombs[v] /\ tombs[v] = Tombs[v]
                    BY <2>1, <3>2, <4>3, <5>1
                <5>3. QED
                    BY <2>1, <3>2, <4>1, <5>1, <5>2 DEF Waiting
            <4>6. sent \in SUBSET (Uids \ {u}) /\ \A v \in sent : sends[v] \in Nat
                BY <2>2, <2>3, <3>1
            <4>7. Cardinality(Waiting(u)') + TombMaxPerSweep <= Cardinality(Waiting(u))
                BY <3>1, <4>2, <4>4, <4>5, <4>6, SweepPays
            <4>8. Cardinality(Waiting(u)) \in Nat /\ Cardinality(Waiting(u)') \in Nat
                BY <3>1, WaitingFinite, WaitingFiniteNext
            <4>9. Late' = 0 /\ WaitPays(u)
                BY <4>1, <4>2 DEF Late, GhostInv
            <4>10. /\ TombMaxPerSweep * tombs[u] \in Int /\ TombMaxPerSweep * faults \in Int
                   /\ TombMaxPerSweep * (faults + Late)
                      <= TombMaxPerSweep * faults + TombMaxPerSweep
                <5>1. TombMaxPerSweep * (faults + Late) <= TombMaxPerSweep * (faults + 1)
                    BY <1>6, TimesMonotone
                <5>2. TombMaxPerSweep * (faults + 1) = TombMaxPerSweep * faults + TombMaxPerSweep
                    BY <1>6
                <5>3. QED
                    BY <1>6, <4>1, <5>1, <5>2
            <4>11. TombMaxPerSweep * tombs[u] + Cardinality(Waiting(u)')
                   <= AllSends + TombMaxPerSweep * faults
                <5>1. TombMaxPerSweep * (faults + Late) \in Int
                    BY <1>6
                <5>2. QED
                    BY <4>1, <4>7, <4>8, <4>9, <4>10, <5>1, UidsFinite DEF WaitPays
            <4>12. QED
                BY <1>4, <1>6, <3>1, <3>2, <4>1, <4>9, <4>11 DEF WaitPays
        <3>5. QED
            BY <3>1, <3>2, <3>3, <3>4
    <2>5. QED
        BY <1>4, <1>6, <2>4 DEF GhostInv
<1>10. QED
    BY <1>8, <1>9

LEMMA GhostStep == SweepsInTime /\ TypeOK /\ GhostInv /\ [Next]_vars => GhostInv'
<1> SUFFICES ASSUME SweepsInTime, TypeOK, GhostInv, [Next]_vars PROVE GhostInv'
    OBVIOUS
<1>1. faults \in Nat /\ faults <= MaxFaults
    BY DEF TypeOK, GhostInv
<1>2. CASE StartPoll
    <2>1. LayersNow # {} /\ passes' # {}
        BY <1>2 DEF StartPoll, LayersNow, SweepsInTime
    <2>2. QED
        BY <1>1, <1>2, <2>1, GhostQuiet DEF StartPoll, sweep, count, Late
<1>3. CASE UNCHANGED <<tombs, sends, owed, swept, polled, passes>>
           /\ (UNCHANGED faults \/ Fault)
    BY <1>1, <1>3, GhostQuiet DEF Fault, Late
<1>4. CASE Restart \/ SourceFails \/ \E l \in Slots : MissionUnread(l)
    <2>1. UNCHANGED <<tombs, sends, owed, swept, polled>> /\ Fault
        BY <1>4 DEF Restart, SourceFails, MissionUnread, sweep
    <2>2. faults' = faults + 1 /\ faults' <= MaxFaults
        BY <1>1, <2>1 DEF Fault
    <2>3. faults + Late <= faults' + Late'
        BY <1>1, <2>2 DEF Late
    <2>4. QED
        BY <1>1, <2>1, <2>2, <2>3, GhostQuiet
<1>5. ASSUME NEW l \in Slots, ReadMission(l) PROVE GhostInv'
    <2>1. passes # {} /\ passes' # {}
        BY <1>5 DEF ReadMission
    <2>2. UNCHANGED <<tombs, sends, owed, swept, polled, faults>>
        BY <1>5 DEF ReadMission, sweep, count
    <2>3. QED
        BY <1>1, <2>1, <2>2, GhostQuiet DEF Late
<1>6. ASSUME NEW l \in Slots, Reconcile(l) PROVE GhostInv'
    BY <1>6, GhostReconcile
<1>7. CASE Tick
    BY <1>7, GhostTick
<1>8. CASE QueuePurge
    <2>1. UNCHANGED <<tombs, sends, owed, swept, faults, passes>> /\ polled' = FALSE
        BY <1>8 DEF QueuePurge, sweep
    <2>2. QED
        BY <1>1, <2>1, GhostQuiet DEF Late
<1>9. CASE UNCHANGED vars
    BY <1>3, <1>9 DEF vars, sweep, count
<1>10. CASE DeleteUid \/ DeleteFails \/ ChangeSource
            \/ \E l \in Slots : StartChain(l) \/ PutUid(l) \/ PutFails(l)
    BY <1>3, <1>10 DEF DeleteUid, DeleteFails, ChangeSource, StartChain, PutUid, PutFails,
       sweep, count
<1>11. QED
    BY <1>2, <1>4, <1>5, <1>6, <1>7, <1>8, <1>9, <1>10, Zenon DEF Next, Slots

\* When the life of a tombstone is long enough for the sweeps to send all there is to send,
\* missed sweeps included, no shape the feed deleted is dropped before devices are told.
THEOREM GhostsAreKept == ASSUME SweepsInTime PROVE Spec => []GhostsKept
<1>1. Init => GhostInv
    BY DEF Init, GhostInv
<1>2. TypeOK /\ GhostInv /\ [Next]_vars => GhostInv'
    BY GhostStep
<1>3. GhostInv => GhostsKept
    BY DEF GhostInv, GhostsKept, SweepsInTime
<1>4. QED
    BY <1>1, <1>2, <1>3, TypeCorrect, PTL DEF Spec
=============================================================================
