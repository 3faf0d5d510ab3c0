--------------------------- MODULE GuardDogRestart ---------------------------
(***************************************************************************)
(* The three Guard Dog monitors that restart TAK Server                    *)
(* (scripts/guarddog/tak-8089-watch.sh, tak-process-watch.sh and           *)
(* tak-oom-watch.sh) and the files under /var/lib/takguard they coordinate *)
(* through: restart.lock, last_restart_time, last_restart, and the daily   *)
(* counter tak_restart_count_24h with its tak_restart_window.              *)
(*                                                                         *)
(* Each monitor is a oneshot unit run by a timer, so it never overlaps     *)
(* itself, but nothing keeps two monitors apart except those files.  A run *)
(* checks, looks at the daily cap, mails (which takes as long as the mail  *)
(* server likes), takes the restart file by file, stops, kills and starts  *)
(* TAK Server.  A run that ends without touching anything is not a step.   *)
(***************************************************************************)
EXTENDS Integers

CONSTANTS
    MinUptime, StartGrace, Grace, Cooldown, AlertEvery, Window,
                   \* the scripts' intervals, in ticks
    MaxDaily,      \* MAX_DAILY_RESTARTS
    MaxFails,      \* MAX_FAILS of the 8089 monitor
    ProcFails,     \* failing checks before the process monitor acts
    Faults,        \* what may go wrong with a running TAK Server
    MaxCrashes     \* bound on the reboots and killed monitors

ASSUME GuardDogAssumption ==
    /\ {MinUptime, StartGrace, Grace, Cooldown, AlertEvery, Window} \subseteq Nat
    /\ {MaxDaily, MaxFails, ProcFails, MaxCrashes} \subseteq Nat
    /\ MaxFails > 0 /\ ProcFails > 0
    /\ Faults \subseteq {"port", "procs", "oom"}

VARIABLES
    since,        \* how long ago each thing the scripts date happened
    tak,          \* takserver.service: "active", "failed" or "stopped"
    bad,          \* what is wrong: subset of {"port", "procs", "oom"}
    lock,         \* restart.lock exists
    count,        \* tak_restart_count_24h
    fails,        \* 8089.failcount
    procFails,    \* process_fail_count
    oomState,     \* /var/run/tak_oom.state exists
    pc,           \* where each monitor's run stands
    daily,        \* _daily of each run
    crashes,
    done,         \* history: restarts in this window, up to MaxDaily + 1
    tookAgo,      \* history: how long ago each monitor last took a restart
    raced,        \* history: in this window, a run read the counter that another had read
                  \*          and not yet written
    stale,        \* history: the lockers whose check is older than a restart of the other
    leaked        \* history: a run was killed with the lock in its hand

takVars  == <<tak, bad>>
lockVars == <<lock, count>>
failVars == <<fails, procFails, oomState>>
runVars  == <<pc, daily>>
histVars == <<done, tookAgo, raced, stale, leaked>>
vars == <<since, takVars, lockVars, failVars, runVars, crashes, histVars>>

Monitors == {"8089", "process", "oom"}
Lockers  == {"8089", "process"}      \* the two that look at restart.lock

\* How long each date matters.  An age stops there, and a file that is missing has it.
Limit == [boot     |-> MinUptime,   \* /proc/uptime
          tak      |-> StartGrace,  \* ActiveEnterTimestampMonotonic of takserver
          restart  |-> Grace,       \* last_restart_time
          cooldown |-> Cooldown,    \* last_restart
          window   |-> Window,      \* tak_restart_window
          alert    |-> AlertEvery]  \* process_alert_sent
Longest == IF Grace >= Cooldown THEN Grace ELSE Cooldown

Past(x)    == since[x] >= Limit[x]
Date(x)    == since' = [since EXCEPT ![x] = 0]
Undate(x)  == since' = [since EXCEPT ![x] = Limit[x]]
UpTo(n, m) == IF n < m THEN n + 1 ELSE n

Init ==
    /\ tak \in {"active", "failed"} /\ bad = {}
    /\ since = [Limit EXCEPT !.boot = 0, !.tak = IF tak = "active" THEN 0 ELSE @]
    /\ lock = FALSE /\ count = 0
    /\ fails = 0 /\ procFails = 0 /\ oomState = FALSE
    /\ pc = [w \in Monitors |-> "idle"] /\ daily = [w \in Monitors |-> 0]
    /\ done = 0 /\ crashes = 0 /\ tookAgo = [w \in Monitors |-> Longest]
    /\ raced = FALSE /\ stale = {} /\ leaked = FALSE

\* The gates all three scripts open with.
MayCheck(w) == pc[w] = "idle" /\ Past("boot") /\ Past("tak")

Goto(w, there) == pc' = [pc EXCEPT ![w] = there]

(***************************************************************************)
(* The checks.                                                             *)
(***************************************************************************)
Gates8089_NoGrace ==   \* mutant: the cooldown file alone keeps restarts apart
    MayCheck("8089") /\ tak = "active" /\ ~lock

Gates8089 == MayCheck("8089") /\ Past("restart") /\ tak = "active" /\ ~lock

Check8089 ==
    /\ Gates8089
    /\ IF "port" \in bad
       THEN /\ fails' = UpTo(fails, MaxFails)
            /\ IF fails' >= MaxFails THEN Goto("8089", "cap") ELSE UNCHANGED pc
       ELSE fails' = 0 /\ UNCHANGED pc
    /\ UNCHANGED <<since, takVars, lockVars, procFails, oomState, daily, crashes, histVars>>

\* The unit failed to start: the process monitor starts it again.
CheckFailedUnit ==
    /\ MayCheck("process") /\ tak = "failed"
    /\ procFails' = 0
    /\ IF ~lock /\ Past("restart") THEN Goto("process", "cap") ELSE UNCHANGED pc
    /\ UNCHANGED <<since, takVars, lockVars, fails, oomState, daily, crashes, histVars>>

CheckStoppedUnit ==
    /\ MayCheck("process") /\ tak = "stopped"
    /\ procFails' = 0
    /\ UNCHANGED <<since, takVars, lockVars, fails, oomState, runVars, crashes, histVars>>

\* The alert is sent, and its file touched, before the cap is looked at.
CheckProcesses ==
    /\ MayCheck("process") /\ tak = "active" /\ Past("restart")
    /\ IF "procs" \in bad
       THEN /\ procFails' = UpTo(procFails, ProcFails)
            /\ IF procFails' >= ProcFails /\ ~lock /\ Past("alert")
               THEN Date("alert") /\ Goto("process", "cap")
               ELSE UNCHANGED <<since, pc>>
       ELSE procFails' = 0 /\ Undate("alert") /\ UNCHANGED pc
    /\ UNCHANGED <<takVars, lockVars, fails, oomState, daily, crashes, histVars>>

\* The same for an OutOfMemoryError: state file and mail come first.
CheckOom ==
    /\ MayCheck("oom")
    /\ IF "oom" \notin bad
       THEN oomState' = FALSE /\ UNCHANGED pc
       ELSE ~oomState /\ oomState' = TRUE /\ Goto("oom", "cap")
    /\ UNCHANGED <<since, takVars, lockVars, fails, procFails, daily, crashes, histVars>>

(***************************************************************************)
(* The daily cap: read here, written by CountRestart.                      *)
(***************************************************************************)
\* The runs that have read the counter and not yet written it.
Counting == {w \in Monitors : pc[w] \in {"take", "date", "count"}}

\* A window that has run out is started anew; `done` follows it.
RollWindow == /\ IF Past("window") THEN count' = 0 /\ done' = 0 ELSE UNCHANGED <<count, done>>
              /\ raced' = (Counting # {} \/ (raced /\ ~Past("window")))

\* The dates a run that goes on, or stops at the cap, leaves behind.
CapDates(also) ==
    since' = [x \in DOMAIN since |->
                IF x \in also \/ (x = "window" /\ Past("window")) THEN 0 ELSE since[x]]

\* A run that ends at the cap, or before it.
EndAtCap(w) == Goto(w, "idle") /\ stale' = stale \ {w} /\ UNCHANGED daily

GoOn(w) == Goto(w, "take") /\ daily' = [daily EXCEPT ![w] = count'] /\ UNCHANGED stale

Cap8089 ==
    /\ pc["8089"] = "cap"
    /\ IF ~Past("cooldown")
       THEN EndAtCap("8089") /\ UNCHANGED <<since, count, fails, done, raced>>
       ELSE /\ RollWindow
            /\ IF count' < MaxDaily
               THEN CapDates({"cooldown"}) /\ fails' = 0 /\ GoOn("8089")
               ELSE CapDates({}) /\ EndAtCap("8089") /\ UNCHANGED fails
    /\ UNCHANGED <<takVars, lock, procFails, oomState, crashes, tookAgo, leaked>>

CapOther_Unread(w) ==   \* mutant: the counter is written but never looked at
    /\ pc[w] = "cap" /\ w # "8089"
    /\ RollWindow /\ CapDates({}) /\ GoOn(w)
    /\ UNCHANGED <<takVars, lock, failVars, crashes, tookAgo, leaked>>

CapOther(w) ==
    /\ pc[w] = "cap" /\ w # "8089"
    /\ RollWindow /\ CapDates({})
    /\ IF count' < MaxDaily THEN GoOn(w) ELSE EndAtCap(w)
    /\ UNCHANGED <<takVars, lock, failVars, crashes, tookAgo, leaked>>

(***************************************************************************)
(* The restart.  The OOM monitor has neither lock nor date.                *)
(***************************************************************************)
TouchLock(w) ==
    /\ w \in Lockers /\ pc[w] = "take" /\ Goto(w, "date")
    /\ lock' = TRUE
    /\ UNCHANGED <<since, takVars, count, failVars, daily, crashes, histVars>>

\* A locker that has made its check and not yet dated its own restart will not look again.
Blind(w) == {o \in Lockers \ {w} : pc[o] \in {"cap", "take", "date"}}

DateRestart_Forgets(w) ==   \* mutant: the restart is not dated for the grace period
    /\ pc[w] = "date" /\ Goto(w, "count")
    /\ tookAgo' = [tookAgo EXCEPT ![w] = 0] /\ stale' = (stale \ {w}) \cup Blind(w)
    /\ UNCHANGED <<since, takVars, lockVars, failVars, daily, crashes, done, raced, leaked>>

DateRestart(w) ==
    /\ pc[w] = "date" /\ Goto(w, "count")
    /\ Date("restart")
    /\ tookAgo' = [tookAgo EXCEPT ![w] = 0] /\ stale' = (stale \ {w}) \cup Blind(w)
    /\ UNCHANGED <<takVars, lockVars, failVars, daily, crashes, done, raced, leaked>>

CountRestart_OomUncounted(w) ==   \* mutant: the OOM monitor keeps a count of its own
    /\ pc[w] = (IF w \in Lockers THEN "count" ELSE "take") /\ Goto(w, "stop")
    /\ count' = (IF w \in Lockers THEN daily[w] + 1 ELSE count)
    /\ daily' = [daily EXCEPT ![w] = 0] /\ done' = UpTo(done, MaxDaily + 1)
    /\ tookAgo' = IF w \in Lockers THEN tookAgo ELSE [tookAgo EXCEPT ![w] = 0]
    /\ UNCHANGED <<since, takVars, lock, failVars, crashes, raced, stale, leaked>>

CountRestart(w) ==
    /\ pc[w] = (IF w \in Lockers THEN "count" ELSE "take") /\ Goto(w, "stop")
    /\ count' = daily[w] + 1 /\ daily' = [daily EXCEPT ![w] = 0]
    /\ done' = UpTo(done, MaxDaily + 1)
    /\ tookAgo' = IF w \in Lockers THEN tookAgo ELSE [tookAgo EXCEPT ![w] = 0]
    /\ UNCHANGED <<since, takVars, lock, failVars, crashes, raced, stale, leaked>>

Stop(w) ==
    /\ pc[w] = "stop" /\ Goto(w, "kill")
    /\ tak' = "stopped"
    /\ UNCHANGED <<since, bad, lockVars, failVars, daily, crashes, histVars>>

\* `pkill -9 -u tak`, whoever started what it kills; the OOM monitor then rotates its log.
KillOrphans(w) ==
    /\ pc[w] = "kill" /\ Goto(w, "start")
    /\ bad' = (IF tak = "active" THEN bad \cup {"port", "procs"} ELSE bad)
              \ (IF w = "oom" THEN {"oom"} ELSE {})
    /\ UNCHANGED <<since, tak, lockVars, failVars, daily, crashes, histVars>>

\* A start can run into the unit's TimeoutStartSec, and need not cure anything.
UnitStart ==
    \/ tak = "active" /\ UNCHANGED <<since, takVars>>
    \/ /\ tak # "active" /\ tak' = "active" /\ Date("tak")
       /\ bad' \in {bad, bad \ {"port", "procs"}}
    \/ tak # "active" /\ tak' = "failed" /\ UNCHANGED <<since, bad>>

Start(w) ==
    /\ pc[w] = "start" /\ Goto(w, IF w \in Lockers THEN "unlock" ELSE "idle")
    /\ UnitStart
    /\ UNCHANGED <<lockVars, failVars, daily, crashes, histVars>>

Unlock_Forgets(w) ==   \* mutant: a run that ends without removing the lock
    /\ pc[w] = "unlock" /\ Goto(w, "idle")
    /\ procFails' = IF w = "process" THEN 0 ELSE procFails
    /\ UNCHANGED <<since, takVars, lockVars, fails, oomState, daily, crashes, histVars>>

Unlock(w) ==
    /\ pc[w] = "unlock" /\ Goto(w, "idle")
    /\ lock' = FALSE
    /\ procFails' = IF w = "process" THEN 0 ELSE procFails
    /\ UNCHANGED <<since, takVars, count, fails, oomState, daily, crashes, histVars>>

\* The rest of a run once its check has decided to act.
Act(w) == \/ CapOther(w) \/ TouchLock(w) \/ DateRestart(w) \/ CountRestart(w)
          \/ Stop(w) \/ KillOrphans(w) \/ Start(w) \/ Unlock(w)

(***************************************************************************)
(* TAK Server, the operator, and the box.                                  *)
(***************************************************************************)
Break(b) ==
    /\ tak = "active" /\ bad' = bad \cup {b}
    /\ UNCHANGED <<since, tak, lockVars, failVars, runVars, crashes, histVars>>

\* A port or process that comes back, a log TAK Server rotates itself.
Mend(b) ==
    /\ bad' = bad \ {b}
    /\ UNCHANGED <<since, tak, lockVars, failVars, runVars, crashes, histVars>>

OperatorStop ==
    /\ tak' = "stopped"
    /\ UNCHANGED <<since, bad, lockVars, failVars, runVars, crashes, histVars>>

OperatorStart ==
    /\ UnitStart
    /\ UNCHANGED <<lockVars, failVars, runVars, crashes, histVars>>

Holding == {w \in Lockers : pc[w] \in {"date", "count", "stop", "kill", "start", "unlock"}}

Killed(W) ==
    /\ crashes < MaxCrashes /\ crashes' = crashes + 1
    /\ pc' = [w \in Monitors |-> IF w \in W THEN "idle" ELSE pc[w]]
    /\ daily' = [w \in Monitors |-> IF w \in W THEN 0 ELSE daily[w]]
    /\ stale' = stale \ W /\ leaked' = (leaked \/ Holding \cap W # {})
    /\ UNCHANGED <<lockVars, fails, procFails, done, tookAgo, raced>>

CrashMonitor(w) ==
    /\ pc[w] # "idle" /\ Killed({w})
    /\ UNCHANGED <<since, takVars, oomState>>

\* /var/lib survives, /var/run does not.
Reboot ==
    /\ Killed(Monitors)
    /\ oomState' = FALSE
    /\ tak' \in {"active", "failed"} /\ bad' = bad \cap {"oom"}
    /\ since' = [since EXCEPT !.boot = 0,
                             !.tak = IF tak' = "active" THEN 0 ELSE Limit.tak]

Tick == /\ since' = [x \in DOMAIN since |-> UpTo(since[x], Limit[x])]
        /\ tookAgo' = [w \in Monitors |-> UpTo(tookAgo[w], Longest)]
        /\ UNCHANGED <<takVars, lockVars, failVars, runVars, crashes, done, raced, stale, leaked>>

Next ==
    \/ Check8089 \/ Cap8089 \/ CheckFailedUnit \/ CheckStoppedUnit
    \/ CheckProcesses \/ CheckOom
    \/ \E w \in Monitors : Act(w) \/ CrashMonitor(w)
    \/ \E b \in Faults : Break(b)
    \/ \E b \in bad : Mend(b)
    \/ OperatorStop \/ OperatorStart \/ Reboot \/ Tick

Spec == Init /\ [][Next]_vars

\* A run that has begun goes on; nothing is assumed of the timers that begin it.
FairSpec == Spec /\ WF_vars(Cap8089) /\ \A w \in Monitors : WF_vars(Act(w))
-----------------------------------------------------------------------------
TypeOK ==
    /\ DOMAIN since = DOMAIN Limit /\ \A x \in DOMAIN Limit : since[x] \in 0..Limit[x]
    /\ tak \in {"active", "failed", "stopped"} /\ bad \subseteq {"port", "procs", "oom"}
    /\ lock \in BOOLEAN /\ oomState \in BOOLEAN /\ crashes \in 0..MaxCrashes
    /\ count \in 0..MaxDaily /\ fails \in 0..MaxFails /\ procFails \in 0..ProcFails
    /\ pc \in [Monitors -> {"idle", "cap", "take", "date", "count",
                            "stop", "kill", "start", "unlock"}]
    /\ daily \in [Monitors -> 0..MaxDaily]
    /\ done \in 0..MaxDaily + 1 /\ tookAgo \in [Monitors -> 0..Longest]
    /\ raced \in BOOLEAN /\ leaked \in BOOLEAN /\ stale \subseteq Lockers

\* GUARDDOG.md: "All TAK Guard Dog scripts share a single restart counter [...] After 3
\* restarts in 24 hours, Guard Dog logs SKIP".  Restarts taken in one window of the
\* counter never exceed the cap, whatever is killed or rebooted, unless in that window one
\* run read the counter between another's reading and writing it.
CapKept == raced \/ done <= MaxDaily

\* The same of every window.
CapAlwaysKept == done <= MaxDaily

Takes(w) == pc[w] = "date" /\ pc'[w] = "count"

\* "At most one TAK Server restart per 15 minutes from the 8089 monitor", whatever the
\* other monitors, the mail server and reboots do in between.
CooldownKept == [][Takes("8089") => tookAgo["8089"] >= Cooldown]_vars

\* The two monitors that keep last_restart_time leave themselves and each other the grace
\* period, however long their mails take, unless the other's restart came after the check.
LockersKeepGrace ==
    [][\A w, o \in Lockers :
         Takes(w) /\ (w = o \/ w \notin stale) => tookAgo[o] >= Grace]_vars

\* "After Guard Dog (or anything) restarts TAK Server, no monitor will trigger another
\* restart for 15 minutes": true of no pair that includes the OOM monitor.
GraceKept ==
    [][\A w \in Lockers, o \in Monitors :
         Takes(w) /\ w \notin stale => tookAgo[o] >= Grace]_vars

Restarting == {w \in Monitors : pc[w] \in {"stop", "kill", "start"}}

\* "Only one monitor can perform a restart at a time.  Others see the lock and skip."
OneRestartAtATime == \A w, o \in Restarting \cap Lockers : w = o

\* "Wait 30 seconds then remove lock": however the runs of the monitors overlap, a lock
\* that was taken is given back, unless a run is killed with the lock in its hand.
LockReleased == lock ~> ~lock \/ leaked

\* The same of every run, also of one that does not get to its end.
LockNeverStays == lock ~> ~lock
=============================================================================
