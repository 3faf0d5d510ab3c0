------------------------- MODULE SettingsStoreProofs -------------------------
(***************************************************************************)
(* SettingsStore for every value of its constants.  The guard's promises   *)
(* rest on what a job's dict is worth at each place (JobOK): the lock is   *)
(* what lets "the file at the guard's read" be "the file at the write".    *)
(* That a load is current rests on the stamps alone (StampsOK), and needs  *)
(* every save to change the stamp.                                         *)
(***************************************************************************)
EXTENDS SettingsStore, TLAPS

\* What the guard leaves in the dict of a job that is about to write.
Ready(j) ==
    /\ "id" \in want[j] => dict[j] = want[j]
    /\ blind[j] \/ "id" \in dict[j] \/ "id" \notin disk
    /\ torn[j] /\ ~blind[j] /\ ~heal[j] => disk \subseteq dict[j]

JobOK(j) ==
    /\ pc[j] \in {"idle", "stat"} => dict[j] = {}
    /\ pc[j] \in {"idle", "stat", "read"} => ~torn[j]
    /\ pc[j] \in {"loaded", "dirty"} /\ torn[j] /\ ~heal[j]
         => "id" \notin dict[j]
    /\ pc[j] \in {"dirty", "guard"} => dict[j] = want[j]
    /\ pc[j] \in {"guard", "write"} => lock = j
    /\ pc[j] = "guard" => "id" \notin dict[j]
    /\ pc[j] = "write" => Ready(j)

GuardInv == TypeOK /\ \A j \in Jobs : JobOK(j)

\* A stamp is the version it was made with, and a copy is never older than its stamp.
StampOf(j) ==
    /\ pc[j] # "idle" => key[j] = floor[j] /\ floor[j] <= ver
    /\ pc[j] = "read" \/ (pc[j] = "loaded" /\ ~torn[j]) => base[j] >= floor[j]

StampsOK == stamp = ver /\ cache.ver >= cache.key /\ \A j \in Jobs : StampOf(j)

USE SettingsAssumption DEF SettingsAssumption

LEMMA TypeInit == Init => TypeOK
<1> SUFFICES ASSUME Init PROVE TypeOK
    OBVIOUS
<1>1. torn \in [Jobs -> BOOLEAN] /\ heal \in [Jobs -> BOOLEAN] /\ blind \in [Jobs -> BOOLEAN]
    BY Zenon DEF Init
<1>2. dict \in [Jobs -> SUBSET AllKeys] /\ want \in [Jobs -> SUBSET AllKeys]
    BY DEF Init
<1>3. disk \subseteq AllKeys /\ cache \in Cached /\ pc \in [Jobs -> Places]
    BY DEF Init, Cached, NoCache, AllKeys, Places
<1>4. key \in [Jobs -> Nat] /\ base \in [Jobs -> Nat] /\ floor \in [Jobs -> Nat]
    BY DEF Init
<1>5. QED
    <2>1. ver \in Nat /\ stamp \in Nat /\ faults \in 0 .. MaxFaults
        <3>1. ver = 0 /\ stamp = 0 /\ faults = 0
            BY Zenon DEF Init
        <3>2. QED
            BY <3>1
    <2>2. healed \in BOOLEAN /\ lock \in Jobs \cup {"free"}
        BY Zenon DEF Init
    <2>3. QED
        BY <1>1, <1>2, <1>3, <1>4, <2>1, <2>2, Zenon DEF TypeOK

LEMMA ClearedType ==
    ASSUME NEW S, NEW f \in [Jobs -> S], NEW J, NEW v \in S
    PROVE  Cleared(f, J, v) \in [Jobs -> S]
BY Zenon DEF Cleared

\* A job that returns leaves its variables in their types.
LEMMA ForgetType ==
    ASSUME TypeOK, NEW J, Forget(J)
    PROVE  /\ key' \in [Jobs -> Nat] /\ base' \in [Jobs -> Nat] /\ floor' \in [Jobs -> Nat]
           /\ dict' \in [Jobs -> SUBSET AllKeys] /\ want' \in [Jobs -> SUBSET AllKeys]
           /\ torn' \in [Jobs -> BOOLEAN] /\ heal' \in [Jobs -> BOOLEAN]
           /\ blind' \in [Jobs -> BOOLEAN]
<1>1. 0 \in Nat /\ {} \in SUBSET AllKeys /\ FALSE \in BOOLEAN
    OBVIOUS
<1>2. QED
    BY <1>1, ClearedType, Zenon DEF TypeOK, Forget

LEMMA TypeStep == TypeOK /\ [Next]_vars => TypeOK'
<1> SUFFICES ASSUME TypeOK, [Next]_vars PROVE TypeOK'
    OBVIOUS
<1> USE DEF TypeOK, Places, Step, file, flags, local
<1>1. ASSUME NEW j \in Jobs, LoadStat(j) PROVE TypeOK'
    BY <1>1 DEF LoadStat
<1>2. ASSUME NEW j \in Jobs, LoadHit(j) PROVE TypeOK'
    BY <1>2 DEF LoadHit, Cached
<1>3. ASSUME NEW j \in Jobs, LoadRead(j) PROVE TypeOK'
    BY <1>3 DEF LoadRead
<1>4. ASSUME NEW j \in Jobs, LoadPublish(j) PROVE TypeOK'
    BY <1>4 DEF LoadPublish, Cached
<1>5. ASSUME NEW j \in Jobs, LoadFails(j) PROVE TypeOK'
    BY <1>5 DEF LoadFails, Fault
<1>6. ASSUME NEW j \in Jobs, NEW s \in SUBSET AllKeys, Change(j, s) PROVE TypeOK'
    BY <1>6 DEF Change
<1>7. ASSUME NEW j \in Jobs, Modify(j) PROVE TypeOK'
    BY <1>6, <1>7 DEF Modify, AllKeys
<1>8. ASSUME NEW j \in Jobs, HealCore(j) PROVE TypeOK'
    BY <1>6, <1>8 DEF HealCore, AllKeys
<1>9. ASSUME NEW j \in Jobs, OnlyReads(j) PROVE TypeOK'
    BY <1>9, ForgetType DEF OnlyReads, Return
<1>10. ASSUME NEW j \in Jobs, TakeLock(j) PROVE TypeOK'
    BY <1>10 DEF TakeLock
<1>11. ASSUME NEW j \in Jobs, GuardRefill(j) PROVE TypeOK'
    BY <1>11 DEF GuardRefill, Refilled
<1>12. ASSUME NEW j \in Jobs, GuardBlind(j) PROVE TypeOK'
    BY <1>12 DEF GuardBlind, Fault
<1>13. ASSUME NEW j \in Jobs, Replace(j) PROVE TypeOK'
    BY <1>13, ForgetType DEF Replace, Return
<1>14. ASSUME NEW j \in Jobs, SaveFails(j) PROVE TypeOK'
    BY <1>14, ForgetType DEF SaveFails, Return, Fault
<1>15. CASE Crash
    <2>1. pc' \in [Jobs -> Places] /\ cache' \in Cached /\ faults' \in 0 .. MaxFaults
        BY <1>15 DEF Crash, Fault, Cached, NoCache
    <2>2. disk' = disk /\ ver' = ver /\ stamp' = stamp /\ lock' = "free" /\ healed' = FALSE
          /\ Forget(Jobs)
        BY <1>15, Zenon DEF Crash
    <2>3. QED
        BY <2>1, <2>2, ForgetType, Zenon
<1>16. CASE UNCHANGED vars
    BY <1>16 DEF vars
<1>17. QED
    BY <1>1, <1>2, <1>3, <1>4, <1>5, <1>7, <1>8, <1>9, <1>10, <1>11, <1>12, <1>13, <1>14,
       <1>15, <1>16 DEF Next

\* Type correctness.
THEOREM TypeCorrect == Spec => []TypeOK
BY TypeInit, TypeStep, PTL DEF Spec

(***************************************************************************)
(* What the guard promises.                                                *)
(***************************************************************************)
LEMMA JobsInit == Init => \A j \in Jobs : JobOK(j)
BY DEF Init, JobOK

LEMMA JobsStep == GuardInv /\ [Next]_vars => \A j \in Jobs : JobOK(j)'
<1> SUFFICES ASSUME GuardInv, [Next]_vars, NEW i \in Jobs PROVE JobOK(i)'
    OBVIOUS
<1> USE DEF GuardInv, TypeOK, Places, JobOK, Ready, Step, file, flags, local
<1>1. ASSUME NEW j \in Jobs, LoadStat(j) PROVE JobOK(i)'
    BY <1>1 DEF LoadStat
<1>2. ASSUME NEW j \in Jobs, LoadHit(j) PROVE JobOK(i)'
    BY <1>2 DEF LoadHit
<1>3. ASSUME NEW j \in Jobs, LoadRead(j) PROVE JobOK(i)'
    BY <1>3 DEF LoadRead
<1>4. ASSUME NEW j \in Jobs, LoadPublish(j) PROVE JobOK(i)'
    BY <1>4 DEF LoadPublish
<1>5. ASSUME NEW j \in Jobs, LoadFails(j) PROVE JobOK(i)'
    BY <1>5 DEF LoadFails
<1>7. ASSUME NEW j \in Jobs, Modify(j) PROVE JobOK(i)'
    <2>1. PICK k \in Keys : Change(j, dict[j] \cup {k}) \/ Change(j, dict[j] \ {k})
        BY <1>7 DEF Modify
    <2>2. ~heal[j] /\ k # "id"
        BY <1>7 DEF Modify
    <2>3. CASE Change(j, dict[j] \cup {k})
        BY <2>2, <2>3 DEF Change
    <2>4. CASE Change(j, dict[j] \ {k})
        BY <2>2, <2>4 DEF Change
    <2>5. QED
        BY <2>1, <2>3, <2>4
<1>8. ASSUME NEW j \in Jobs, HealCore(j) PROVE JobOK(i)'
    BY <1>8 DEF HealCore, Change
<1>9. ASSUME NEW j \in Jobs, OnlyReads(j) PROVE JobOK(i)'
    BY <1>9 DEF OnlyReads, Return, Forget, Cleared
<1>10. ASSUME NEW j \in Jobs, TakeLock(j) PROVE JobOK(i)'
    BY <1>10 DEF TakeLock
<1>11. ASSUME NEW j \in Jobs, GuardRefill(j) PROVE JobOK(i)'
    BY <1>11 DEF GuardRefill, Refilled
<1>12. ASSUME NEW j \in Jobs, GuardBlind(j) PROVE JobOK(i)'
    BY <1>12 DEF GuardBlind
<1>13. ASSUME NEW j \in Jobs, Replace(j) PROVE JobOK(i)'
    BY <1>13 DEF Replace, Return, Forget, Cleared
<1>14. ASSUME NEW j \in Jobs, SaveFails(j) PROVE JobOK(i)'
    BY <1>14 DEF SaveFails, Return, Forget, Cleared
<1>15. CASE Crash
    BY <1>15 DEF Crash, Forget, Cleared
<1>16. CASE UNCHANGED vars
    BY <1>16 DEF vars
<1>17. QED
    BY <1>1, <1>2, <1>3, <1>4, <1>5, <1>7, <1>8, <1>9, <1>10, <1>11, <1>12, <1>13, <1>14,
       <1>15, <1>16 DEF Next

LEMMA GuardInvariant == Spec => []GuardInv
<1>1. Init => GuardInv
    BY TypeInit, JobsInit DEF GuardInv
<1>2. GuardInv /\ [Next]_vars => GuardInv'
    BY TypeStep, JobsStep DEF GuardInv
<1>3. QED
    BY <1>1, <1>2, PTL DEF Spec

\* A step that saves for a job is that job's Replace: it writes the job's dict.
LEMMA SavesWrites ==
    ASSUME GuardInv, Next, NEW j \in Jobs, Saves(j)
    PROVE  disk' = dict[j]
<1> USE DEF GuardInv, TypeOK, Saves, Step, file
<1>1. ASSUME NEW i \in Jobs, Replace(i) PROVE disk' = dict[j]
    BY <1>1 DEF Replace, Return, JobOK
<1>2. ver' = ver \/ \E i \in Jobs : Replace(i)
    BY DEF Next, LoadStat, LoadHit, LoadRead, LoadPublish, LoadFails, Modify, HealCore, Change,
       OnlyReads, TakeLock, GuardRefill, GuardBlind, SaveFails, Crash
<1>3. QED
    BY <1>1, <1>2

\* The core keys survive every save whose guard could read the file.
THEOREM CoreIsKept == Spec => CoreKept
<1>1. GuardInv /\ [Next]_vars =>
        [\A j \in Jobs : Saves(j) /\ ~blind[j] /\ "id" \in disk => "id" \in disk']_vars
    BY SavesWrites DEF GuardInv, JobOK, Ready, Saves
<1>2. QED
    BY <1>1, GuardInvariant, PTL DEF Spec, CoreKept

\* A job that loaded nothing loses nothing of the file.
THEOREM TornSavesAreRefilled == Spec => TornSaveKeepsRest
<1>1. GuardInv /\ [Next]_vars =>
        [\A j \in Jobs : Saves(j) /\ torn[j] /\ ~blind[j] /\ ~heal[j]
                         => disk \subseteq disk']_vars
    BY SavesWrites DEF GuardInv, JobOK, Ready, Saves
<1>2. QED
    BY <1>1, GuardInvariant, PTL DEF Spec, TornSaveKeepsRest

\* The guard leaves a dict with its core keys alone, so what was removed stays removed.
THEOREM DeletesAreHonoured == Spec => DeletesHonoured
<1>1. GuardInv /\ [Next]_vars =>
        [\A j \in Jobs : Saves(j) /\ "id" \in want[j] /\ base[j] = ver
                         => disk' = want[j]]_vars
    BY SavesWrites DEF GuardInv, JobOK, Ready, Saves
<1>2. QED
    BY <1>1, GuardInvariant, PTL DEF Spec, DeletesHonoured

(***************************************************************************)
(* What the cache promises, when no save leaves the stamp as it was.       *)
(***************************************************************************)
LEMMA StampsStep == TypeOK /\ ~SameStamp /\ StampsOK /\ [Next]_vars => StampsOK'
<1> SUFFICES ASSUME TypeOK, ~SameStamp, StampsOK, [Next]_vars PROVE StampsOK'
    OBVIOUS
<1> USE DEF TypeOK, Cached, Places, StampsOK, StampOf, Step, file, flags, local
<1>1. ASSUME NEW j \in Jobs, LoadStat(j) PROVE StampsOK'
    BY <1>1 DEF LoadStat
<1>2. ASSUME NEW j \in Jobs, LoadHit(j) PROVE StampsOK'
    BY <1>2 DEF LoadHit
<1>3. ASSUME NEW j \in Jobs, LoadRead(j) PROVE StampsOK'
    BY <1>3 DEF LoadRead
<1>4. ASSUME NEW j \in Jobs, LoadPublish(j) PROVE StampsOK'
    <2>1. cache'.ver = base[j] /\ cache'.key = key[j] /\ base[j] >= key[j]
        BY <1>4 DEF LoadPublish
    <2>2. QED
        BY <1>4, <2>1 DEF LoadPublish
<1>5. ASSUME NEW j \in Jobs, LoadFails(j) PROVE StampsOK'
    BY <1>5 DEF LoadFails
<1>7. ASSUME NEW j \in Jobs, Modify(j) \/ HealCore(j) PROVE StampsOK'
    BY <1>7 DEF Modify, HealCore, Change
<1>9. ASSUME NEW j \in Jobs, OnlyReads(j) PROVE StampsOK'
    BY <1>9 DEF OnlyReads, Return, Forget, Cleared
<1>10. ASSUME NEW j \in Jobs, TakeLock(j) PROVE StampsOK'
    BY <1>10 DEF TakeLock
<1>11. ASSUME NEW j \in Jobs, GuardRefill(j) PROVE StampsOK'
    BY <1>11 DEF GuardRefill
<1>12. ASSUME NEW j \in Jobs, GuardBlind(j) PROVE StampsOK'
    BY <1>12 DEF GuardBlind
<1>13. ASSUME NEW j \in Jobs, Replace(j) PROVE StampsOK'
    BY <1>13 DEF Replace, Return, Forget, Cleared
<1>14. ASSUME NEW j \in Jobs, SaveFails(j) PROVE StampsOK'
    BY <1>14 DEF SaveFails, Return, Forget, Cleared
<1>15. CASE Crash
    BY <1>15 DEF Crash, Forget, Cleared, NoCache
<1>16. CASE UNCHANGED vars
    BY <1>16 DEF vars
<1>17. QED
    BY <1>1, <1>2, <1>3, <1>4, <1>5, <1>7, <1>9, <1>10, <1>11, <1>12, <1>13, <1>14,
       <1>15, <1>16 DEF Next

\* If every save changes the stamp, no load is older than the file it found.
THEOREM ReadsAreCurrent ==
    ASSUME ~SameStamp PROVE Spec => []ReadsCurrent
<1>1. Init => StampsOK
    BY DEF Init, StampsOK, StampOf, NoCache
<1>2. TypeOK /\ StampsOK /\ [Next]_vars => StampsOK'
    BY StampsStep
<1>3. StampsOK => ReadsCurrent
    BY DEF StampsOK, StampOf, ReadsCurrent
<1>4. QED
    BY <1>1, <1>2, <1>3, TypeCorrect, PTL DEF Spec
=============================================================================
