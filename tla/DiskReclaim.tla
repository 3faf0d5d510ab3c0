----------------------------- MODULE DiskReclaim -----------------------------
(***************************************************************************)
(* The broker's disk_reclaim operation (broker/takwerx_broker.py,          *)
(* _do_disk_reclaim): "grow_free" extends the root volume into free        *)
(* extents, "fold_home" copies /home aside, unmounts it, removes its       *)
(* volume, gives the space to root and puts the files back.                *)
(*                                                                         *)
(* A request runs in a handler thread of its own and takes no lock, so     *)
(* requests interleave command by command with each other and with the    *)
(* users of /home.  Each command may succeed, fail with a return code the  *)
(* code may look at, or be interrupted: a subprocess timeout raises out of *)
(* the operation, and a kill of the daemon ends it on the spot.            *)
(***************************************************************************)
EXTENDS Naturals

CONSTANTS
    Folds,          \* the fold_home requests
    Grows,          \* the grow_free requests
    Files,          \* the files users may write under /home
    CloseShells,    \* close_shells of the fold requests
    Interruptions   \* what may cut a request short

ASSUME ReclaimAssumption ==
    /\ Folds \cap Grows = {}
    /\ CloseShells \in BOOLEAN
    /\ Interruptions \subseteq {"timeout", "kill"}

VARIABLES
    pc,        \* where each request stands
    wasActive, \* docker_was_active of each fold
    lv,        \* files on the /home volume
    lvExists,  \* the /home volume exists
    mounted,   \* ... and is mounted on /home
    plain,     \* files in the plain directory /home of the root file system
    stage,     \* files in home-fold/stage
    backup,    \* files in home-fold/takwerx-home-backup.tar.gz
    fstab,     \* the /home line of /etc/fstab: "active", "commented", or the file "empty"
    fstabBak,  \* the same in /etc/fstab.takwerx-bak, or "none"
    docker,    \* the docker service runs
    holders,   \* what else holds /home: subset of {"shell", "service"}
    free,      \* the volume group has free extents
    written,   \* history: every file a user has saved under /home
    late,      \* history: those saved since a fold copied /home, while it went on
    crossed,   \* history: a fold began while another one was under way
    broken     \* history: "fstab" when /etc/fstab or its backup could not be written,
               \*          "mount" when `mount /home` failed; nobody reads either result

volVars  == <<lv, lvExists, mounted, free>>
copyVars == <<plain, stage, backup>>
confVars == <<fstab, fstabBak>>
histVars == <<written, late, crossed, broken>>
hostVars == <<docker, holders, histVars>>
vars == <<pc, wasActive, volVars, copyVars, confVars, hostVars>>

Requests == Folds \cup Grows
Ended    == {"refused", "failed", "ok", "raised", "dead"}
Running  == {r \in Requests : pc[r] \notin Ended \cup {"idle"}}

Home == IF mounted THEN lv ELSE plain

Init ==
    /\ pc = [r \in Requests |-> "idle"] /\ wasActive = [r \in Folds |-> FALSE]
    /\ lv \in SUBSET Files /\ written = lv /\ lvExists = TRUE /\ mounted = TRUE
    /\ plain = {} /\ stage = {} /\ backup = {}
    /\ fstab = "active" /\ fstabBak = "none"
    /\ docker = TRUE /\ holders = {} /\ free \in BOOLEAN
    /\ late = {} /\ crossed = FALSE /\ broken = {}

At(r, here, there) == pc[r] = here /\ pc' = [pc EXCEPT ![r] = there]

RestoreDocker(r) == docker' = (docker \/ wasActive[r])

\* _restore_fstab from a backup that reads bak.  When the table cannot be written, or the
\* backup is itself cut short, that is logged and nothing else.
RestoreFstab(bak) ==
    \/ bak # "none" /\ fstab' = bak
       /\ broken' = IF bak = "empty" THEN broken \cup {"fstab"} ELSE broken
    \/ bak = "none" /\ UNCHANGED <<fstab, broken>>
    \/ fstab' \in {fstab, "empty"} /\ broken' = broken \cup {"fstab"}

\* subprocess.run(timeout=...) raises out of the operation.
TimesOut(r, here) ==
    /\ "timeout" \in Interruptions
    /\ At(r, here, "raised")

(***************************************************************************)
(* fold_home.                                                              *)
(***************************************************************************)
\* /home must be a mounted volume of root's group, small enough, and confirmed.
Measure(r) ==
    /\ \/ mounted /\ At(r, "idle", "measured")
          /\ crossed' = (crossed \/ Running \cap Folds # {})
       \/ At(r, "idle", "refused") /\ UNCHANGED crossed
    /\ UNCHANGED <<wasActive, volVars, copyVars, confVars, docker, holders, written, late, broken>>

\* stage is emptied, whoever filled it.  How the `rm -rf` ended is not looked at.
ClearStage(r) ==
    /\ At(r, "measured", "cleared") \/ TimesOut(r, "measured")
    /\ stage' \in {stage, {}}
    /\ UNCHANGED <<wasActive, volVars, plain, backup, confVars, hostVars>>

Stage(r) ==
    /\ \/ At(r, "cleared", "staged") /\ stage' = stage \cup Home /\ late' = {}
       \/ At(r, "cleared", "failed") /\ UNCHANGED <<stage, late>>
       \/ TimesOut(r, "cleared") /\ UNCHANGED <<stage, late>>
    /\ UNCHANGED <<wasActive, volVars, plain, backup, confVars, docker, holders, written,
                   crossed, broken>>

Archive_IgnoresRc(r) ==   \* mutant: the fold goes on after a failed tar
    /\ At(r, "staged", "archived")
    /\ backup' \in {stage, {}}
    /\ UNCHANGED <<wasActive, volVars, plain, stage, confVars, hostVars>>

\* The old archive is unlinked before tar writes the new one.
Archive(r) ==
    /\ \/ At(r, "staged", "archived") /\ backup' = stage
       \/ At(r, "staged", "failed") /\ backup' = {}
       \/ TimesOut(r, "staged") /\ backup' = {}
    /\ UNCHANGED <<wasActive, volVars, plain, stage, confVars, hostVars>>

\* Whether docker did stop is not looked at.
StopDocker(r) ==
    /\ At(r, "archived", "stopped") \/ TimesOut(r, "archived")
    /\ wasActive' = [wasActive EXCEPT ![r] = docker]
    /\ docker' \in {docker, FALSE}
    /\ UNCHANGED <<volVars, copyVars, confVars, holders, histVars>>

RefuseHolders_LeavesDocker(r) ==   \* mutant: a refusal that forgets the containers
    /\ At(r, "stopped", "refused")
    /\ holders # {}
    /\ UNCHANGED <<wasActive, volVars, copyVars, confVars, hostVars>>

\* A service, a shell the caller may not close, or one that would not go: refused.
RefuseHolders(r) ==
    /\ At(r, "stopped", "refused")
    /\ holders # {}
    /\ RestoreDocker(r)
    /\ UNCHANGED <<wasActive, volVars, copyVars, confVars, holders, histVars>>

\* Shells are signed out if the caller allowed it.
ReleaseHome(r) ==
    /\ At(r, "stopped", "released")
    /\ "service" \notin holders /\ ("shell" \in holders => CloseShells)
    /\ holders' = {}
    /\ UNCHANGED <<wasActive, volVars, copyVars, confVars, docker, histVars>>

EditFstab(r) ==
    /\ At(r, "released", "edited")
    /\ fstabBak' = fstab /\ fstab' = "commented"
    /\ UNCHANGED <<wasActive, volVars, copyVars, hostVars>>

\* The table could not be read or its backup not opened, the backup was cut short, or the
\* new table: in each case what the backup then is, an older one perhaps, is put back.
EditFstabFails(r) ==
    /\ At(r, "released", "failed")
    /\ fstabBak' \in {fstabBak, "empty", fstab}
    /\ RestoreFstab(fstabBak')
    /\ RestoreDocker(r)
    /\ UNCHANGED <<wasActive, volVars, copyVars, holders, written, late, crossed>>

Umount(r) ==
    /\ At(r, "edited", "unmounted")
    /\ mounted /\ holders = {} /\ ~docker
    /\ mounted' = FALSE
    /\ UNCHANGED <<wasActive, lv, lvExists, free, copyVars, confVars, hostVars>>

UmountFails(r) ==
    /\ At(r, "edited", "failed")
    /\ RestoreFstab(fstabBak) /\ RestoreDocker(r)
    /\ UNCHANGED <<wasActive, volVars, copyVars, fstabBak, holders, written, late, crossed>>

\* The command is killed before or after it had its effect.
UmountTimesOut(r) ==
    /\ TimesOut(r, "edited")
    /\ mounted' \in {mounted, mounted /\ (docker \/ holders # {})}
    /\ UNCHANGED <<wasActive, lv, lvExists, free, copyVars, confVars, hostVars>>

LvRemove(r) ==
    /\ At(r, "unmounted", "removed")
    /\ lvExists /\ ~mounted
    /\ lvExists' = FALSE /\ lv' = {} /\ free' = TRUE
    /\ UNCHANGED <<wasActive, mounted, copyVars, confVars, hostVars>>

LvRemoveFails_MountsFirst(r) ==   \* mutant: `mount /home` before the line is back
    /\ At(r, "unmounted", "failed")
    /\ mounted' = (mounted \/ (lvExists /\ fstab = "active"))
    /\ RestoreFstab(fstabBak)
    /\ RestoreDocker(r)
    /\ UNCHANGED <<wasActive, lv, lvExists, free, copyVars, fstabBak, holders, written, late,
                   crossed>>

\* The fstab line is put back first: `mount /home` reads it.
LvRemoveFails(r) ==
    /\ At(r, "unmounted", "failed")
    /\ RestoreFstab(fstabBak)
    /\ mounted' = (mounted \/ (lvExists /\ fstab' = "active"))
    /\ RestoreDocker(r)
    /\ UNCHANGED <<wasActive, lv, lvExists, free, copyVars, fstabBak, holders, written, late,
                   crossed>>

\* ... and may fail all the same, which is not looked at.
RemountFails(r) ==
    /\ At(r, "unmounted", "failed")
    /\ fstab' \in {fstabBak, fstab, "empty"}
    /\ broken' = broken \cup {"mount"} \cup IF fstab' = fstabBak /\ fstab' # "empty"
                                            THEN {} ELSE {"fstab"}
    /\ RestoreDocker(r)
    /\ UNCHANGED <<wasActive, volVars, copyVars, fstabBak, holders, written, late, crossed>>

LvRemoveTimesOut(r) ==
    /\ TimesOut(r, "unmounted")
    /\ \/ UNCHANGED volVars
       \/ ~mounted /\ lvExists' = FALSE /\ lv' = {} /\ free' = TRUE /\ UNCHANGED mounted
    /\ UNCHANGED <<wasActive, copyVars, confVars, hostVars>>

LvExtend(r) ==
    /\ At(r, "removed", "extended")
    /\ free /\ free' = FALSE
    /\ UNCHANGED <<wasActive, lv, lvExists, mounted, copyVars, confVars, hostVars>>

LvExtendFails(r) ==
    /\ At(r, "removed", "failed")
    /\ RestoreDocker(r)
    /\ UNCHANGED <<wasActive, volVars, copyVars, confVars, holders, histVars>>

\* Nobody looks at the return codes of the file system grow and of this rsync.
CopyBack(r) ==
    /\ At(r, "extended", "ok")
    /\ plain' \in {plain \cup stage, plain}
    /\ RestoreDocker(r)
    /\ UNCHANGED <<wasActive, volVars, stage, backup, confVars, holders, histVars>>

Fold(r) ==
    \/ Measure(r) \/ ClearStage(r) \/ Stage(r) \/ Archive(r) \/ StopDocker(r)
    \/ RefuseHolders(r) \/ ReleaseHome(r) \/ EditFstab(r) \/ EditFstabFails(r)
    \/ Umount(r) \/ UmountFails(r) \/ UmountTimesOut(r)
    \/ LvRemove(r) \/ LvRemoveFails(r) \/ RemountFails(r) \/ LvRemoveTimesOut(r)
    \/ LvExtend(r) \/ LvExtendFails(r) \/ CopyBack(r)

(***************************************************************************)
(* grow_free.                                                              *)
(***************************************************************************)
GrowCheck(r) ==
    /\ IF free THEN At(r, "idle", "growing") ELSE At(r, "idle", "refused")
    /\ UNCHANGED <<wasActive, volVars, copyVars, confVars, hostVars>>

GrowExtend(r) ==
    /\ \/ At(r, "growing", "ok") /\ free
       \/ At(r, "growing", "failed") /\ ~free
    /\ free' = FALSE
    /\ UNCHANGED <<wasActive, lv, lvExists, mounted, copyVars, confVars, hostVars>>

(***************************************************************************)
(* The rest of the box.                                                    *)
(***************************************************************************)
\* SIGTERM or a crash takes the daemon and all its requests.
Kill ==
    /\ "kill" \in Interruptions /\ Running # {}
    /\ pc' = [r \in Requests |-> IF r \in Running THEN "dead" ELSE pc[r]]
    /\ UNCHANGED <<wasActive, volVars, copyVars, confVars, hostVars>>

Hold(h) ==
    /\ mounted /\ holders' = holders \cup {h}
    /\ UNCHANGED <<pc, wasActive, volVars, copyVars, confVars, docker, histVars>>

Release(h) ==
    /\ holders' = holders \ {h}
    /\ UNCHANGED <<pc, wasActive, volVars, copyVars, confVars, docker, histVars>>

Copied == {"staged", "archived", "stopped", "released", "edited", "unmounted"}

\* A container, a shell or a service saves a file, whether or not a fold is under way.
Save(f) ==
    /\ mounted /\ (docker \/ holders # {})
    /\ lv' = lv \cup {f} /\ written' = written \cup {f}
    /\ late' = IF \E r \in Folds : pc[r] \in Copied THEN late \cup {f} ELSE late
    /\ UNCHANGED <<pc, wasActive, lvExists, mounted, free, copyVars, confVars, docker, holders,
                   crossed, broken>>

Next ==
    \/ \E r \in Folds : Fold(r)
    \/ \E r \in Grows : GrowCheck(r) \/ GrowExtend(r)
    \/ \E h \in {"shell", "service"} : Hold(h) \/ Release(h)
    \/ \E f \in Files : Save(f)
    \/ Kill

Spec == Init /\ [][Next]_vars

-----------------------------------------------------------------------------
TypeOK ==
    /\ pc \in [Requests -> Ended \cup {"idle", "measured", "cleared", "staged", "archived",
                 "stopped", "released", "edited", "unmounted", "removed", "extended",
                 "growing"}]
    /\ wasActive \in [Folds -> BOOLEAN]
    /\ lv \subseteq Files /\ plain \subseteq Files /\ stage \subseteq Files
    /\ backup \subseteq Files /\ written \subseteq Files /\ late \subseteq Files
    /\ crossed \in BOOLEAN /\ broken \subseteq {"fstab", "mount"}
    /\ lvExists \in BOOLEAN /\ mounted \in BOOLEAN /\ docker \in BOOLEAN /\ free \in BOOLEAN
    /\ fstab \in {"active", "commented", "empty"}
    /\ fstabBak \in {"none", "active", "commented", "empty"}
    /\ holders \subseteq {"shell", "service"}

\* No file saved under /home is ever only a memory: it is on the /home volume, in the
\* plain /home directory or in the archive, whatever failed, timed out, was killed or was
\* folded again after it ("nothing destroyed", "data is safe in" the archive).  Files saved
\* after a fold's copy are not protected, nor any when two folds overlap (FoldDocTwice).
NoneLost == written \ late \subseteq lv \cup plain \cup backup

HomeDataKept == crossed \/ NoneLost

CutShort == \E r \in Requests : pc[r] \in {"raised", "dead"}

HomeInOrder == /\ "fstab" \in broken \/ lvExists = (fstab = "active")
               /\ broken # {} \/ lvExists = mounted

\* Once every request has come to its own end, the next boot finds /home: its fstab line
\* is there exactly if its volume is, unless a write of the table failed; and a volume that
\* was spared is mounted again, unless that very mount failed.
HomeComesBack == Running = {} /\ ~CutShort /\ ~crossed => HomeInOrder

\* ... and so it is when one was cut short, says the comment at the roll-back.
HomeSurvivesCut == Running = {} => HomeInOrder

\* Once every request has come to its own end, the containers are up again, refusals and
\* failures included.
DockerComesBack == Running = {} /\ ~CutShort => docker

\* "/home contents restored", in the words of the log: a fold that reports success left
\* every archived file in /home.
OkMeansRestored == \A r \in Folds : pc[r] = "ok" => backup \subseteq plain
=============================================================================
