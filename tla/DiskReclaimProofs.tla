-------------------------- MODULE DiskReclaimProofs --------------------------
(***************************************************************************)
(* DiskReclaim for any number of requests and files, whatever fails or is  *)
(* cut short: types; that docker comes back; and, until two folds overlap, *)
(* that no file is lost that a fold could copy, and that /home, its volume *)
(* and its fstab line stay together.                                       *)
(***************************************************************************)
EXTENDS DiskReclaim, TLAPS

USE ReclaimAssumption DEF ReclaimAssumption

Busy(r) == pc[r] \notin Ended \cup {"idle"}

States == Ended \cup {"idle", "measured", "cleared", "staged", "archived", "stopped",
                      "released", "edited", "unmounted", "removed", "extended", "growing"}

PcOK == pc \in [Requests -> States] /\ Folds \subseteq Requests /\ Grows \subseteq Requests
        /\ \A r \in Grows : r \notin Folds

LEMMA PcFacts == TypeOK => PcOK
BY DEF TypeOK, PcOK, States, Requests

(***************************************************************************)
(* Types.                                                                  *)
(***************************************************************************)
\* The fstab backup that a roll-back reads has been written.
Backed == \A r \in Folds : pc[r] \in {"edited", "unmounted"} => fstabBak # "none"

LEMMA TypeInit == Init => TypeOK /\ Backed
BY DEF Init, TypeOK, Backed, Ended, Requests

LEMMA AtType ==
    ASSUME PcOK, NEW r \in Requests, NEW here, NEW there \in States, At(r, here, there)
    PROVE  pc' \in [Requests -> States]
BY DEF PcOK, At

LEMMA CopyingType ==
    ASSUME TypeOK, NEW r \in Folds,
           Measure(r) \/ ClearStage(r) \/ Stage(r) \/ Archive(r) \/ StopDocker(r)
    PROVE  TypeOK'
<1> USE DEF volVars, copyVars, confVars, hostVars, histVars
<1>1. PcOK
    BY PcFacts
<1>2. pc' \in [Requests -> States]
    BY <1>1, AtType DEF Measure, ClearStage, Stage, Archive, StopDocker, TimesOut, States,
       Ended, PcOK
<1>3. CASE Measure(r)
    BY <1>2, <1>3 DEF Measure, TypeOK, States
<1>4. CASE ClearStage(r)
    BY <1>2, <1>4 DEF ClearStage, TypeOK, States
<1>5. CASE Stage(r)
    BY <1>2, <1>5 DEF Stage, Home, TypeOK, States
<1>6. CASE Archive(r)
    BY <1>2, <1>6 DEF Archive, TypeOK, States
<1>7. CASE StopDocker(r)
    BY <1>2, <1>7 DEF StopDocker, TypeOK, States
<1>8. QED
    BY <1>3, <1>4, <1>5, <1>6, <1>7

LEMMA ReleasingType ==
    ASSUME TypeOK, NEW r \in Folds,
           Backed,
           \/ RefuseHolders(r) \/ ReleaseHome(r) \/ EditFstab(r) \/ EditFstabFails(r)
           \/ Umount(r) \/ UmountFails(r) \/ UmountTimesOut(r)
    PROVE  TypeOK'
<1> USE DEF volVars, copyVars, confVars, hostVars, histVars
<1>1. PcOK
    BY PcFacts
<1>2. pc' \in [Requests -> States]
    BY <1>1, AtType DEF RefuseHolders, ReleaseHome, EditFstab, EditFstabFails, Umount,
       UmountFails, UmountTimesOut, TimesOut, States, Ended, PcOK
<1>3. CASE RefuseHolders(r)
    BY <1>2, <1>3 DEF RefuseHolders, RestoreDocker, TypeOK, States
<1>4. CASE ReleaseHome(r)
    BY <1>2, <1>4 DEF ReleaseHome, TypeOK, States
<1>5. CASE EditFstab(r)
    BY <1>2, <1>5 DEF EditFstab, TypeOK, States
<1>6. CASE EditFstabFails(r)
    BY <1>2, <1>6 DEF EditFstabFails, RestoreFstab, RestoreDocker, TypeOK, States
<1>7. CASE Umount(r) \/ UmountTimesOut(r)
    BY <1>2, <1>7 DEF Umount, UmountTimesOut, TypeOK, States
<1>8. CASE UmountFails(r)
    BY <1>2, <1>8 DEF UmountFails, RestoreFstab, RestoreDocker, TypeOK, States
<1>9. QED
    BY <1>3, <1>4, <1>5, <1>6, <1>7, <1>8

LEMMA RemovingType ==
    ASSUME TypeOK, NEW r \in Folds,
           Backed,
           \/ LvRemove(r) \/ LvRemoveFails(r) \/ RemountFails(r) \/ LvRemoveTimesOut(r)
           \/ LvExtend(r) \/ LvExtendFails(r) \/ CopyBack(r)
    PROVE  TypeOK'
<1> USE DEF volVars, copyVars, confVars, hostVars, histVars
<1>1. PcOK
    BY PcFacts
<1>2. pc' \in [Requests -> States]
    BY <1>1, AtType DEF LvRemove, LvRemoveFails, RemountFails, LvRemoveTimesOut, LvExtend,
                        LvExtendFails, CopyBack, TimesOut, States, Ended, PcOK
<1>3. CASE LvRemove(r) \/ LvRemoveTimesOut(r)
    BY <1>2, <1>3 DEF LvRemove, LvRemoveTimesOut, TypeOK, States
<1>4. CASE LvRemoveFails(r)
    BY <1>2, <1>4 DEF LvRemoveFails, RestoreFstab, RestoreDocker, TypeOK, States
<1>5. CASE LvExtend(r)
    BY <1>2, <1>5 DEF LvExtend, TypeOK, States
<1>6. CASE LvExtendFails(r)
    BY <1>2, <1>6 DEF LvExtendFails, RestoreDocker, TypeOK, States
<1>7. CASE CopyBack(r)
    BY <1>2, <1>7 DEF CopyBack, RestoreDocker, TypeOK, States
<1>8. CASE RemountFails(r)
    BY <1>2, <1>8 DEF RemountFails, RestoreDocker, At, Backed, TypeOK, States
<1>9. QED
    BY <1>3, <1>4, <1>5, <1>6, <1>7, <1>8

LEMMA OtherType ==
    ASSUME TypeOK,
           \/ \E r \in Grows : GrowCheck(r) \/ GrowExtend(r)
           \/ \E h \in {"shell", "service"} : Hold(h) \/ Release(h)
           \/ \E f \in Files : Save(f)
           \/ Kill
    PROVE  TypeOK'
<1> USE DEF volVars, copyVars, confVars, hostVars, histVars
<1>1. PcOK
    BY PcFacts
<1>2. ASSUME NEW r \in Grows, GrowCheck(r) \/ GrowExtend(r) PROVE TypeOK'
    <2>1. pc' \in [Requests -> States]
        BY <1>1, <1>2, AtType DEF GrowCheck, GrowExtend, States, Ended, PcOK
    <2>2. QED
        BY <1>2, <2>1 DEF GrowCheck, GrowExtend, TypeOK, States
<1>3. ASSUME NEW h \in {"shell", "service"}, Hold(h) \/ Release(h) PROVE TypeOK'
    BY <1>3 DEF Hold, Release, TypeOK
<1>4. ASSUME NEW f \in Files, Save(f) PROVE TypeOK'
    BY <1>4 DEF Save, TypeOK
<1>5. CASE Kill
    BY <1>5 DEF Kill, TypeOK, Ended
<1>6. QED
    BY <1>2, <1>3, <1>4, <1>5

LEMMA BackedStep == TypeOK /\ Backed /\ [Next]_vars => Backed'
<1> SUFFICES ASSUME TypeOK, Backed, [Next]_vars PROVE Backed'
    OBVIOUS
<1> USE DEF volVars, copyVars, confVars, hostVars, histVars, Backed
<1>1. PcOK
    BY PcFacts
<1>2. CASE UNCHANGED vars
    BY <1>2 DEF vars
<1>3. ASSUME NEW r \in Folds, Fold(r) PROVE Backed'
    <2>1. CASE Measure(r) \/ ClearStage(r) \/ Stage(r) \/ Archive(r) \/ StopDocker(r)
        BY <1>1, <2>1 DEF Measure, ClearStage, Stage, Archive, StopDocker, TimesOut, At, PcOK
    <2>2. CASE RefuseHolders(r) \/ ReleaseHome(r) \/ EditFstab(r) \/ EditFstabFails(r)
        BY <1>1, <2>2 DEF RefuseHolders, ReleaseHome, EditFstab, EditFstabFails, At, PcOK, TypeOK
    <2>3. CASE Umount(r) \/ UmountFails(r) \/ UmountTimesOut(r)
        BY <1>1, <2>3 DEF Umount, UmountFails, UmountTimesOut, TimesOut, At, PcOK
    <2>4. CASE LvRemove(r) \/ LvRemoveFails(r) \/ RemountFails(r) \/ LvRemoveTimesOut(r)
        BY <1>1, <2>4
        DEF LvRemove, LvRemoveFails, RemountFails, LvRemoveTimesOut, TimesOut, At, PcOK
    <2>5. CASE LvExtend(r) \/ LvExtendFails(r) \/ CopyBack(r)
        BY <1>1, <2>5 DEF LvExtend, LvExtendFails, CopyBack, At, PcOK
    <2>6. QED
        BY <1>3, <2>1, <2>2, <2>3, <2>4, <2>5 DEF Fold
<1>4. ASSUME NEW r \in Grows, GrowCheck(r) \/ GrowExtend(r) PROVE Backed'
    BY <1>1, <1>4 DEF GrowCheck, GrowExtend, At, PcOK
<1>5. ASSUME NEW h \in {"shell", "service"}, Hold(h) \/ Release(h) PROVE Backed'
    BY <1>5 DEF Hold, Release
<1>6. ASSUME NEW f \in Files, Save(f) PROVE Backed'
    BY <1>6 DEF Save
<1>7. CASE Kill
    BY <1>1, <1>7 DEF Kill, PcOK
<1>8. QED
    BY <1>2, <1>3, <1>4, <1>5, <1>6, <1>7 DEF Next

LEMMA TypeStep == TypeOK /\ Backed /\ [Next]_vars => TypeOK'
<1> SUFFICES ASSUME TypeOK, Backed, [Next]_vars PROVE TypeOK'
    OBVIOUS
<1>1. CASE UNCHANGED vars
    BY <1>1 DEF TypeOK, vars, volVars, copyVars, confVars, hostVars, histVars
<1>2. ASSUME NEW r \in Folds, Fold(r) PROVE TypeOK'
    BY <1>2, CopyingType, ReleasingType, RemovingType DEF Fold
<1>3. CASE \/ \E r \in Grows : GrowCheck(r) \/ GrowExtend(r)
           \/ \E h \in {"shell", "service"} : Hold(h) \/ Release(h)
           \/ \E f \in Files : Save(f)
           \/ Kill
    BY <1>3, OtherType
<1>4. QED
    BY <1>1, <1>2, <1>3 DEF Next

\* Every variable keeps its type: above all, a roll-back never writes a table that was not
\* backed up.
THEOREM TypeCorrect == Spec => []TypeOK
<1>1. QED
    BY TypeInit, TypeStep, BackedStep, PTL DEF Spec

(***************************************************************************)
(* Docker.  It is down only while a fold that found it running is on its   *)
(* way, or after one was cut short.                                        *)
(***************************************************************************)
Later == {"stopped", "released", "edited", "unmounted", "removed", "extended"}

OwesDocker(r) == pc[r] \in Later /\ wasActive[r] = TRUE

DockerOwed == docker \/ CutShort \/ \E r \in Folds : OwesDocker(r)

\* One request moves, from a state it may move from.
Steps(r) == /\ pc[r] \notin Ended
            /\ \A s \in Requests : s # r => pc'[s] = pc[s]

LEMMA CutStays ==
    ASSUME NEW r \in Requests, Steps(r), CutShort
    PROVE  CutShort'
BY DEF Steps, CutShort, Ended

\* A step that leaves docker and the debt of its fold as they are.
LEMMA DebtStays ==
    ASSUME PcOK, DockerOwed, NEW r \in Folds, Steps(r), docker' = docker, wasActive' = wasActive,
           \/ pc[r] \in Later /\ pc'[r] \in Later
           \/ pc[r] \notin Later
           \/ pc'[r] = "raised"
    PROVE  DockerOwed'
<1>1. r \in Requests
    BY DEF PcOK
<1>2. CASE docker
    BY <1>2 DEF DockerOwed
<1>3. CASE CutShort
    BY <1>1, <1>3, CutStays DEF DockerOwed
<1>4. CASE pc'[r] = "raised"
    BY <1>1, <1>4 DEF DockerOwed, CutShort
<1>5. ASSUME NEW s \in Folds, OwesDocker(s), pc'[r] # "raised" PROVE DockerOwed'
    BY <1>5 DEF DockerOwed, OwesDocker, Steps, PcOK
<1>6. QED
    BY <1>2, <1>3, <1>4, <1>5 DEF DockerOwed

\* A fold that ends pays its debt.
LEMMA DebtPaid ==
    ASSUME TypeOK, PcOK, DockerOwed, NEW r \in Folds, Steps(r), RestoreDocker(r),
           wasActive' = wasActive
    PROVE  DockerOwed'
<1>1. r \in Requests
    BY DEF PcOK
<1>2. CASE docker
    BY <1>2 DEF DockerOwed, RestoreDocker
<1>3. CASE CutShort
    BY <1>1, <1>3, CutStays DEF DockerOwed
<1>4. ASSUME NEW s \in Folds, OwesDocker(s) PROVE DockerOwed'
    <2>1. CASE s = r
        BY <1>4, <2>1 DEF DockerOwed, RestoreDocker, OwesDocker
    <2>2. CASE s # r
        BY <1>4, <2>2 DEF DockerOwed, OwesDocker, Steps, PcOK
    <2>3. QED
        BY <2>1, <2>2
<1>5. QED
    BY <1>2, <1>3, <1>4 DEF DockerOwed

LEMMA DebtMade ==
    ASSUME TypeOK, PcOK, DockerOwed, NEW r \in Folds, StopDocker(r)
    PROVE  DockerOwed'
<1>1. r \in Requests /\ pc[r] = "archived" /\ Steps(r) /\ wasActive'[r] = docker
      /\ \A s \in Folds : s # r => wasActive'[s] = wasActive[s]
    BY DEF StopDocker, TimesOut, At, Steps, PcOK, Ended, TypeOK
<1>2. CASE At(r, "archived", "raised")
    BY <1>1, <1>2 DEF DockerOwed, CutShort, At, PcOK
<1>3. CASE At(r, "archived", "stopped")
    <2>1. CASE docker
        <3>1. pc'[r] \in Later /\ wasActive'[r] = TRUE
            BY <1>1, <1>3, <2>1 DEF At, PcOK, Later, TypeOK
        <3>2. QED
            BY <3>1 DEF DockerOwed, OwesDocker
    <2>2. CASE CutShort
        BY <1>1, <2>2, CutStays DEF DockerOwed
    <2>3. ASSUME NEW s \in Folds, OwesDocker(s) PROVE DockerOwed'
        <3>1. s # r
            BY <1>1, <2>3 DEF OwesDocker, Later
        <3>2. QED
            BY <1>1, <2>3, <3>1 DEF DockerOwed, OwesDocker, Steps, PcOK
    <2>4. QED
        BY <2>1, <2>2, <2>3 DEF DockerOwed
<1>4. QED
    BY <1>2, <1>3 DEF StopDocker, TimesOut

LEMMA DockerStep == TypeOK /\ DockerOwed /\ [Next]_vars => DockerOwed'
<1> SUFFICES ASSUME TypeOK, DockerOwed, [Next]_vars PROVE DockerOwed'
    OBVIOUS
<1> USE DEF volVars, copyVars, confVars, hostVars, histVars
<1>1. PcOK
    BY PcFacts
<1>2. CASE UNCHANGED vars
    BY <1>2 DEF vars, DockerOwed, OwesDocker, CutShort
<1>3. ASSUME NEW r \in Folds, Fold(r) PROVE DockerOwed'
    <2>1. CASE Measure(r) \/ ClearStage(r) \/ Stage(r) \/ Archive(r)
        BY <1>1, <2>1, DebtStays
           DEF Measure, ClearStage, Stage, Archive, TimesOut, At, PcOK, Steps, Later, Ended
    <2>2. CASE StopDocker(r)
        BY <1>1, <2>2, DebtMade
    <2>3. CASE ReleaseHome(r) \/ EditFstab(r) \/ Umount(r) \/ UmountTimesOut(r)
        BY <1>1, <2>3, DebtStays
           DEF ReleaseHome, EditFstab, Umount, UmountTimesOut, TimesOut, At, PcOK, Steps, Later,
              Ended
    <2>4. CASE LvRemove(r) \/ LvRemoveTimesOut(r) \/ LvExtend(r)
        BY <1>1, <2>4, DebtStays
           DEF LvRemove, LvRemoveTimesOut, LvExtend, TimesOut, At, PcOK, Steps, Later, Ended
    <2>5. CASE \/ RefuseHolders(r) \/ EditFstabFails(r) \/ UmountFails(r)
               \/ LvRemoveFails(r) \/ RemountFails(r) \/ LvExtendFails(r) \/ CopyBack(r)
        <3>1. RestoreDocker(r) /\ wasActive' = wasActive
            BY <2>5 DEF RefuseHolders, EditFstabFails, UmountFails, LvRemoveFails,
                        RemountFails, LvExtendFails, CopyBack
        <3>2. Steps(r)
            BY <1>1, <2>5 DEF RefuseHolders, EditFstabFails, UmountFails, LvRemoveFails,
                              RemountFails, LvExtendFails, CopyBack, At, PcOK, Steps, Ended
        <3>3. QED
            BY <1>1, <3>1, <3>2, DebtPaid
    <2>6. QED
        BY <1>3, <2>1, <2>2, <2>3, <2>4, <2>5 DEF Fold
<1>4. ASSUME NEW r \in Grows, GrowCheck(r) \/ GrowExtend(r) PROVE DockerOwed'
    <2>1. Steps(r) /\ r \in Requests /\ docker' = docker /\ wasActive' = wasActive
        BY <1>1, <1>4 DEF GrowCheck, GrowExtend, At, PcOK, Steps, Ended
    <2>2. CutShort => CutShort'
        BY <2>1, CutStays
    <2>3. \A s \in Folds : OwesDocker(s) => OwesDocker(s)'
        BY <1>1, <2>1 DEF OwesDocker, Steps, PcOK
    <2>4. QED
        BY <2>1, <2>2, <2>3 DEF DockerOwed
<1>5. ASSUME NEW h \in {"shell", "service"}, Hold(h) \/ Release(h) PROVE DockerOwed'
    BY <1>5 DEF Hold, Release, DockerOwed, OwesDocker, CutShort
<1>6. ASSUME NEW f \in Files, Save(f) PROVE DockerOwed'
    BY <1>6 DEF Save, DockerOwed, OwesDocker, CutShort
<1>7. CASE Kill
    BY <1>1, <1>7 DEF Kill, Running, DockerOwed, CutShort, PcOK
<1>8. QED
    BY <1>2, <1>3, <1>4, <1>5, <1>6, <1>7 DEF Next

\* Whatever refuses or fails, and however many folds overlap: once all requests have come
\* to their own end the containers are up.
THEOREM DockerIsBack == Spec => []DockerComesBack
<1>1. Init => DockerOwed
    BY DEF Init, DockerOwed
<1>2. TypeOK /\ DockerOwed => DockerComesBack
    <2>1. TypeOK => \A r \in Folds : OwesDocker(r) => r \in Running
        BY DEF OwesDocker, Later, Running, Requests, Ended
    <2>2. QED
        BY <2>1 DEF DockerOwed, DockerComesBack
<1>3. QED
    BY <1>1, <1>2, TypeInit, TypeStep, BackedStep, DockerStep, PTL DEF Spec

(***************************************************************************)
(* Until two folds overlap, one fold at most is under way; until it        *)
(* unmounts, the volume is mounted.                                        *)
(***************************************************************************)
Alone == \A r, s \in Folds : Busy(r) /\ Busy(s) => r = s

Before == {"measured", "cleared", "staged", "archived", "stopped", "released", "edited"}

Mounted == /\ mounted => lvExists
           /\ \A r \in Folds : pc[r] \in Before => mounted

LEMMA CrossedStays == [Next]_vars /\ crossed => crossed'
BY Zenon DEF Next, Fold, Measure, ClearStage, Stage, Archive, StopDocker, RefuseHolders,
   ReleaseHome, EditFstab, EditFstabFails, Umount, UmountFails, UmountTimesOut, LvRemove,
   LvRemoveFails, RemountFails, LvRemoveTimesOut, LvExtend, LvExtendFails, CopyBack, GrowCheck,
   GrowExtend, Hold, Release, Save, Kill, vars, hostVars, histVars

LEMMA AloneStep ==
    ASSUME TypeOK, Alone, [Next]_vars, ~crossed'
    PROVE  Alone'
<1> USE DEF volVars, copyVars, confVars, hostVars, histVars, Alone, Busy, Ended
<1>1. PcOK /\ TypeOK
    BY PcFacts
<1>2. CASE UNCHANGED vars
    BY <1>1, <1>2 DEF vars
<1>3. ASSUME NEW r \in Folds, Fold(r) PROVE Alone'
    <2>1. CASE Measure(r)
        BY <1>1, <2>1 DEF Measure, Running, Requests, At, PcOK
    <2>2. CASE ClearStage(r) \/ Stage(r)
        BY <1>1, <2>2 DEF ClearStage, Stage, Home, TimesOut, At, PcOK
    <2>3. CASE Archive(r)
        BY <1>1, <2>3 DEF Archive, TimesOut, At, PcOK
    <2>4. CASE StopDocker(r) \/ RefuseHolders(r) \/ ReleaseHome(r)
        BY <1>1, <2>4 DEF StopDocker, RefuseHolders, ReleaseHome, TimesOut, At, PcOK
    <2>5. CASE EditFstab(r) \/ EditFstabFails(r)
        BY <1>1, <2>5 DEF EditFstab, EditFstabFails, RestoreFstab, At, PcOK
    <2>6. CASE Umount(r) \/ UmountFails(r) \/ UmountTimesOut(r)
        BY <1>1, <2>6 DEF Umount, UmountFails, UmountTimesOut, RestoreFstab, TimesOut, At, PcOK
    <2>7. CASE LvRemove(r) \/ LvRemoveTimesOut(r)
        BY <1>1, <2>7 DEF LvRemove, LvRemoveTimesOut, TimesOut, At, PcOK
    <2>8. CASE LvRemoveFails(r) \/ RemountFails(r)
        BY <1>1, <2>8 DEF LvRemoveFails, RemountFails, RestoreFstab, At, PcOK
    <2>9. CASE LvExtend(r) \/ LvExtendFails(r)
        BY <1>1, <2>9 DEF LvExtend, LvExtendFails, At, PcOK
    <2>10. CASE CopyBack(r)
        BY <1>1, <2>10 DEF CopyBack, At, PcOK
    <2>11. QED
        BY <1>3, <2>1, <2>2, <2>3, <2>4, <2>5, <2>6, <2>7, <2>8, <2>9, <2>10 DEF Fold
<1>4. ASSUME NEW r \in Grows, GrowCheck(r) \/ GrowExtend(r) PROVE Alone'
    BY <1>1, <1>4 DEF GrowCheck, GrowExtend, At, PcOK
<1>5. ASSUME NEW h \in {"shell", "service"}, Hold(h) \/ Release(h) PROVE Alone'
    BY <1>5 DEF Hold, Release
<1>6. ASSUME NEW f \in Files, Save(f) PROVE Alone'
    BY <1>1, <1>6 DEF Save, Running, Requests
<1>7. CASE Kill
    BY <1>1, <1>7 DEF Kill, Running, PcOK, Requests
<1>8. QED
    BY <1>2, <1>3, <1>4, <1>5, <1>6, <1>7 DEF Next

LEMMA MountedStep ==
    ASSUME TypeOK, Alone, Mounted, [Next]_vars, ~crossed'
    PROVE  Mounted'
<1> USE DEF volVars, copyVars, confVars, hostVars, histVars, Alone, Busy, Ended, Mounted,
           Before, TypeOK
<1>1. PcOK /\ TypeOK
    BY PcFacts
<1>2. CASE UNCHANGED vars
    BY <1>1, <1>2 DEF vars
<1>3. ASSUME NEW r \in Folds, Fold(r) PROVE Mounted'
    <2>1. CASE Measure(r)
        BY <1>1, <2>1 DEF Measure, Running, Requests, At, PcOK
    <2>2. CASE ClearStage(r) \/ Stage(r)
        BY <1>1, <2>2 DEF ClearStage, Stage, Home, TimesOut, At, PcOK
    <2>3. CASE Archive(r)
        BY <1>1, <2>3 DEF Archive, TimesOut, At, PcOK
    <2>4. CASE StopDocker(r) \/ RefuseHolders(r) \/ ReleaseHome(r)
        BY <1>1, <2>4 DEF StopDocker, RefuseHolders, ReleaseHome, TimesOut, At, PcOK
    <2>5. CASE EditFstab(r) \/ EditFstabFails(r)
        BY <1>1, <2>5 DEF EditFstab, EditFstabFails, RestoreFstab, At, PcOK
    <2>6. CASE Umount(r) \/ UmountFails(r) \/ UmountTimesOut(r)
        BY <1>1, <2>6 DEF Umount, UmountFails, UmountTimesOut, RestoreFstab, TimesOut, At, PcOK
    <2>7. CASE LvRemove(r) \/ LvRemoveTimesOut(r)
        BY <1>1, <2>7 DEF LvRemove, LvRemoveTimesOut, TimesOut, At, PcOK
    <2>8. CASE LvRemoveFails(r) \/ RemountFails(r)
        BY <1>1, <2>8 DEF LvRemoveFails, RemountFails, RestoreFstab, At, PcOK
    <2>9. CASE LvExtend(r) \/ LvExtendFails(r)
        BY <1>1, <2>9 DEF LvExtend, LvExtendFails, At, PcOK
    <2>10. CASE CopyBack(r)
        BY <1>1, <2>10 DEF CopyBack, At, PcOK
    <2>11. QED
        BY <1>3, <2>1, <2>2, <2>3, <2>4, <2>5, <2>6, <2>7, <2>8, <2>9, <2>10 DEF Fold
<1>4. ASSUME NEW r \in Grows, GrowCheck(r) \/ GrowExtend(r) PROVE Mounted'
    BY <1>1, <1>4 DEF GrowCheck, GrowExtend, At, PcOK
<1>5. ASSUME NEW h \in {"shell", "service"}, Hold(h) \/ Release(h) PROVE Mounted'
    BY <1>5 DEF Hold, Release
<1>6. ASSUME NEW f \in Files, Save(f) PROVE Mounted'
    BY <1>1, <1>6 DEF Save, Running, Requests
<1>7. CASE Kill
    BY <1>1, <1>7 DEF Kill, Running, PcOK, Requests
<1>8. QED
    BY <1>2, <1>3, <1>4, <1>5, <1>6, <1>7 DEF Next

(***************************************************************************)
(* No file is lost: what was saved is on the volume as long as there is    *)
(* one, and what a fold could copy is in the archive from the tar on.      *)
(***************************************************************************)
Archived == {"archived", "stopped", "released", "edited", "unmounted"}

Safe == /\ IF lvExists THEN written \subseteq lv ELSE written \ late \subseteq plain \cup backup
        /\ \A r \in Folds : (pc[r] = "staged" => written \ late \subseteq stage)
        /\ \A r \in Folds : (pc[r] \in Archived => written \ late \subseteq backup)

LEMMA SafeStep ==
    ASSUME TypeOK, Alone, Mounted, Safe, [Next]_vars, ~crossed'
    PROVE  Safe'
<1> USE DEF volVars, copyVars, confVars, hostVars, histVars, Alone, Busy, Ended, Mounted,
           Before, Archived, Copied, Safe
<1>1. PcOK /\ TypeOK
    BY PcFacts
<1>2. CASE UNCHANGED vars
    BY <1>1, <1>2 DEF vars
<1>3. ASSUME NEW r \in Folds, Fold(r) PROVE Safe'
    <2>1. CASE Measure(r)
        BY <1>1, <2>1 DEF Measure, Running, Requests, At, PcOK
    <2>2. CASE ClearStage(r) \/ Stage(r)
        BY <1>1, <2>2 DEF ClearStage, Stage, Home, TimesOut, At, PcOK
    <2>3. CASE Archive(r)
        BY <1>1, <2>3 DEF Archive, TimesOut, At, PcOK
    <2>4. CASE StopDocker(r) \/ RefuseHolders(r) \/ ReleaseHome(r)
        BY <1>1, <2>4 DEF StopDocker, RefuseHolders, ReleaseHome, TimesOut, At, PcOK
    <2>5. CASE EditFstab(r) \/ EditFstabFails(r)
        BY <1>1, <2>5 DEF EditFstab, EditFstabFails, RestoreFstab, At, PcOK
    <2>6. CASE Umount(r) \/ UmountFails(r) \/ UmountTimesOut(r)
        BY <1>1, <2>6 DEF Umount, UmountFails, UmountTimesOut, RestoreFstab, TimesOut, At, PcOK
    <2>7. CASE LvRemove(r) \/ LvRemoveTimesOut(r)
        BY <1>1, <2>7 DEF LvRemove, LvRemoveTimesOut, TimesOut, At, PcOK
    <2>8. CASE LvRemoveFails(r) \/ RemountFails(r)
        BY <1>1, <2>8 DEF LvRemoveFails, RemountFails, RestoreFstab, At, PcOK
    <2>9. CASE LvExtend(r) \/ LvExtendFails(r)
        BY <1>1, <2>9 DEF LvExtend, LvExtendFails, At, PcOK
    <2>10. CASE CopyBack(r)
        BY <1>1, <2>10 DEF CopyBack, At, PcOK
    <2>11. QED
        BY <1>3, <2>1, <2>2, <2>3, <2>4, <2>5, <2>6, <2>7, <2>8, <2>9, <2>10 DEF Fold
<1>4. ASSUME NEW r \in Grows, GrowCheck(r) \/ GrowExtend(r) PROVE Safe'
    BY <1>1, <1>4 DEF GrowCheck, GrowExtend, At, PcOK
<1>5. ASSUME NEW h \in {"shell", "service"}, Hold(h) \/ Release(h) PROVE Safe'
    BY <1>5 DEF Hold, Release
<1>6. ASSUME NEW f \in Files, Save(f) PROVE Safe'
    BY <1>1, <1>6 DEF Save, Running, Requests
<1>7. CASE Kill
    BY <1>1, <1>7 DEF Kill, Running, PcOK, Requests
<1>8. QED
    BY <1>2, <1>3, <1>4, <1>5, <1>6, <1>7 DEF Next

\* A fold loses no file that it could copy, whatever fails, times out or is killed, and
\* whichever folds come after it, until two of them overlap.
THEOREM DataIsKept == Spec => []HomeDataKept
<1> DEFINE Inv == crossed \/ (Alone /\ Mounted /\ Safe)
<1>1. Init => Inv
    BY DEF Init, Alone, Mounted, Safe, Busy, Before, Archived, Requests
<1>2. TypeOK /\ Inv /\ [Next]_vars => Inv'
    BY AloneStep, MountedStep, SafeStep, CrossedStays
<1>3. TypeOK /\ Inv => HomeDataKept
    BY DEF Safe, HomeDataKept, NoneLost, TypeOK
<1>4. QED
    BY <1>1, <1>2, <1>3, TypeInit, TypeStep, BackedStep, PTL DEF Spec

(***************************************************************************)
(* /home, its volume and its fstab line, unless a request was cut short.   *)
(***************************************************************************)
Together ==
    /\ "fstab" \in broken \/ fstabBak \in {"none", "active"}
    /\ (\A r \in Folds : pc[r] \notin {"edited", "unmounted"}) => HomeInOrder
    /\ \A r \in Folds : pc[r] \in {"edited", "unmounted"} =>
          /\ fstab = "commented" /\ lvExists
          /\ "fstab" \in broken \/ fstabBak = "active"
          /\ pc[r] = "unmounted" => ~mounted

Whole == CutShort \/ Together

LEMMA WholeStep ==
    ASSUME TypeOK, Alone, Mounted, Whole, [Next]_vars, ~crossed'
    PROVE  Whole'
<1> USE DEF volVars, copyVars, confVars, hostVars, histVars, Alone, Busy, Ended, Mounted,
           Before, Whole, Together, HomeInOrder, CutShort, TypeOK
<1>1. PcOK /\ TypeOK
    BY PcFacts
<1>2. CASE UNCHANGED vars
    BY <1>1, <1>2 DEF vars
<1>3. ASSUME NEW r \in Folds, Fold(r) PROVE Whole'
    <2>1. CASE Measure(r)
        BY <1>1, <2>1 DEF Measure, Running, Requests, At, PcOK
    <2>2. CASE ClearStage(r) \/ Stage(r)
        BY <1>1, <2>2 DEF ClearStage, Stage, Home, TimesOut, At, PcOK
    <2>3. CASE Archive(r)
        BY <1>1, <2>3 DEF Archive, TimesOut, At, PcOK
    <2>4. CASE StopDocker(r) \/ RefuseHolders(r) \/ ReleaseHome(r)
        BY <1>1, <2>4 DEF StopDocker, RefuseHolders, ReleaseHome, TimesOut, At, PcOK
    <2>5. CASE EditFstab(r) \/ EditFstabFails(r)
        BY <1>1, <2>5 DEF EditFstab, EditFstabFails, RestoreFstab, At, PcOK
    <2>6. CASE Umount(r) \/ UmountFails(r) \/ UmountTimesOut(r)
        BY <1>1, <2>6 DEF Umount, UmountFails, UmountTimesOut, RestoreFstab, TimesOut, At, PcOK
    <2>7. CASE LvRemove(r) \/ LvRemoveTimesOut(r)
        BY <1>1, <2>7 DEF LvRemove, LvRemoveTimesOut, TimesOut, At, PcOK
    <2>8. CASE LvRemoveFails(r) \/ RemountFails(r)
        BY <1>1, <2>8 DEF LvRemoveFails, RemountFails, RestoreFstab, At, PcOK
    <2>9. CASE LvExtend(r) \/ LvExtendFails(r)
        BY <1>1, <2>9 DEF LvExtend, LvExtendFails, At, PcOK
    <2>10. CASE CopyBack(r)
        BY <1>1, <2>10 DEF CopyBack, At, PcOK
    <2>11. QED
        BY <1>3, <2>1, <2>2, <2>3, <2>4, <2>5, <2>6, <2>7, <2>8, <2>9, <2>10 DEF Fold
<1>4. ASSUME NEW r \in Grows, GrowCheck(r) \/ GrowExtend(r) PROVE Whole'
    BY <1>1, <1>4 DEF GrowCheck, GrowExtend, At, PcOK
<1>5. ASSUME NEW h \in {"shell", "service"}, Hold(h) \/ Release(h) PROVE Whole'
    BY <1>5 DEF Hold, Release
<1>6. ASSUME NEW f \in Files, Save(f) PROVE Whole'
    BY <1>1, <1>6 DEF Save, Running, Requests
<1>7. CASE Kill
    BY <1>1, <1>7 DEF Kill, Running, PcOK, Requests
<1>8. QED
    BY <1>2, <1>3, <1>4, <1>5, <1>6, <1>7 DEF Next

\* Once all requests have come to their own end, the next boot finds /home, whichever of
\* the commands failed, unless it was the write of the table; and a spared volume is mounted
\* again, unless it was the mount.
THEOREM HomeIsBack == Spec => []HomeComesBack
<1> DEFINE Inv == crossed \/ (Alone /\ Mounted /\ Whole)
<1>1. Init => Inv
    BY DEF Init, Alone, Mounted, Whole, Together, HomeInOrder, Busy, Before, Requests
<1>2. TypeOK /\ Inv /\ [Next]_vars => Inv'
    BY AloneStep, MountedStep, WholeStep, CrossedStays
<1>3. TypeOK /\ Inv => HomeComesBack
    BY DEF Whole, Together, HomeComesBack, Running, Requests, Ended
<1>4. QED
    BY <1>1, <1>2, <1>3, TypeInit, TypeStep, BackedStep, PTL DEF Spec
=============================================================================
