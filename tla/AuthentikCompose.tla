--------------------------- MODULE AuthentikCompose ---------------------------
(***************************************************************************)
(* Who may run `docker compose` on Authentik, and when: the console        *)
(* (app.py) updates it and recreates it, Guard Dog's watcher               *)
(* (scripts/guarddog/tak-authentik-watch.sh) restarts it every minute it   *)
(* finds it dead, and the console's channels-pool watchdog restarts the    *)
(* server container.  They share a flock, the console's update marker and  *)
(* nothing else.                                                           *)
(*                                                                         *)
(* A compose operation takes the server away (Down) and brings it back, or *)
(* not (Up).  After an update the server migrates its database first, and  *)
(* answers 503 until that is done.  The console runs its commands through  *)
(* sudo or the broker, which do not hold its flock: when it stops waiting  *)
(* for one, or dies, the lock is free and the command goes on, adrift.     *)
(***************************************************************************)
EXTENDS Integers, FiniteSets

CONSTANTS
    Updates,        \* runs of the console's Authentik update
    Healers,        \* other compose operations of the console, each run once
    UpdateMax,      \* UPDATE_MAX_SECS = _GD_AUTHENTIK_UPDATE_MAX_S, in ticks
    MigrateHoldMax, HoldMax, Cooldown, CooldownMax, HistoryWindow, MaxFails,
                    \* constants of the watcher
    MaxFaults       \* bound on kills of the console or of a tick and on commands timed out

ASSUME ComposeAssumption ==
    /\ Updates \cap Healers = {}
    /\ {"watch", "pool", "free", "none"} \cap (Updates \cup Healers) = {}
    /\ {UpdateMax, MigrateHoldMax, HoldMax, Cooldown, CooldownMax, HistoryWindow} \subseteq Nat
    /\ MaxFails \in Nat \ {0} /\ MaxFaults \in Nat /\ Cooldown <= CooldownMax

VARIABLES
    lock,       \* holder of /tmp/takwerx-authentik-compose.lock, or "free"
    pc,         \* where each operation, the watcher and the pool watchdog stand
    stack,      \* the server: "up", "sick" (503), "migrating" (503) or "down"
    pinner,     \* the update whose tag pin is in the compose files, or "none"
    image,      \* the version that was started last: "old" or "new"
    marker,     \* age of the update marker and of _AK_UPDATE_INPROC, or Absent
    age,        \* of each update that is under way, since it set the marker
    adrift,     \* what a command without the lock will do: "none", "down", "old", "new"
    since,      \* age of the watcher's other dates, Absent when there is no file
    recent,     \* ages in RESTART_HIST that lie in the window
    fails,      \* FAIL_HTTP
    mode,       \* MODE of the restart the watcher has decided on
    unhealthy,  \* _consecutive_unhealthy of the pool watchdog
    faults,
    late,       \* history: updates begun since each watchdog looked for one
    robbed,     \* history: updates whose marker another one removed
    tookAgo,    \* history: age of the watcher's last restart, or Absent
    unrecorded  \* history: is that restart not in the watcher's files?

consoleVars == <<pinner, image, marker, age, adrift>>
watchVars   == <<since, recent, fails, mode>>
histVars    == <<late, robbed, tookAgo, unrecorded>>
vars == <<lock, pc, stack, consoleVars, watchVars, unhealthy, faults, histVars>>

Absent == -1
Ops    == Updates \cup Healers
Users  == Ops \cup {"watch"}        \* of the lock
Dogs   == {"watch", "pool"}

InProgress(u) == pc[u] \in {"wait", "held", "half", "confirm", "settle"}
Composing(p)  == pc[p] \in {"held", "half"}
HttpOk        == stack = "up"
Goto(p, here, there) == pc[p] = here /\ pc' = [pc EXCEPT ![p] = there]
Fresh(a, max) == a # Absent /\ a < max
Older(a, max) == IF a = Absent \/ a >= max THEN a ELSE a + 1

Init ==
    /\ lock = "free" /\ pc = [p \in Ops \cup Dogs |-> "idle"] /\ stack \in {"up", "sick"}
    /\ pinner = "none" /\ image = "old" /\ marker = Absent
    /\ age = [u \in Updates |-> Absent] /\ adrift = [p \in Ops |-> "none"]
    /\ since = [x \in {"cooldown", "hold", "migrate"} |-> Absent]
    /\ recent = {} /\ fails = 0 /\ mode = "none" /\ unhealthy = 0 /\ faults = 0
    /\ late = [w \in Dogs |-> {}] /\ robbed = {} /\ tookAgo = Absent /\ unrecorded = FALSE

(***************************************************************************)
(* The lock: _authentik_compose_lock and _ak_compose_locked.               *)
(***************************************************************************)
Acquire(p) ==
    /\ Goto(p, "wait", "held")
    /\ lock = "free" /\ lock' = p
    /\ UNCHANGED <<stack, consoleVars, watchVars, unhealthy, faults, histVars>>

\* The watcher restarts the server, and has yet to write so.
Taken == tookAgo' = 0 /\ unrecorded' = TRUE

\* docker compose down, or the first half of a recreate.
Down(p) ==
    /\ Goto(p, "held", "half")
    /\ p = "watch" => mode = "full"
    /\ stack' = "down"
    /\ IF p = "watch" THEN Taken ELSE UNCHANGED <<tookAgo, unrecorded>>
    /\ UNCHANGED <<lock, consoleVars, watchVars, unhealthy, faults, late, robbed>>

\* docker compose up -d starts what the tag pin says, if it starts anything.
Started(s) ==
    /\ stack' = s
    /\ image' = IF s = "down" THEN image ELSE IF pinner = "none" THEN "old" ELSE "new"

Results == {"up", "sick", "migrating", "down"}

(***************************************************************************)
(* Commands adrift: subprocess.run kills sudo or the broker's client at    *)
(* its timeout, and a console that dies takes no more than these along.    *)
(***************************************************************************)
\* The rest of the chain is the console's and is not run.  An `up` has read the tag
\* before or after another operation moved the pin.
Drifts(p) == IF pc[p] = "held" THEN {"down"}
             ELSE IF pc[p] # "half" THEN {adrift[p]}
             ELSE IF pinner = "none" THEN {"old"} ELSE {"old", "new"}

\* subprocess.run raises TimeoutExpired, and the lock is given back.
TimesOut(p, there) ==
    /\ faults < MaxFaults /\ faults' = faults + 1
    /\ Composing(p) /\ pc' = [pc EXCEPT ![p] = there]
    /\ \E c \in Drifts(p) : adrift' = [adrift EXCEPT ![p] = c]
    /\ lock' = "free"

\* A pull, or a down that is cut off, changes nothing.
DriftEnds(p) ==
    /\ adrift[p] # "none" /\ adrift' = [adrift EXCEPT ![p] = "none"]
    /\ IF adrift[p] = "down"
       THEN stack' \in {stack, "down"} /\ UNCHANGED image
       ELSE stack' \in Results /\ image' = IF stack' = "down" THEN image ELSE adrift[p]
    /\ UNCHANGED <<lock, pc, pinner, marker, age, watchVars, unhealthy, faults, histVars>>

(***************************************************************************)
(* Console operations under the lock: start, stop, restart, recreate, heal. *)
(***************************************************************************)
HealerBegins(h) ==
    /\ Goto(h, "idle", "wait")
    /\ UNCHANGED <<lock, stack, consoleVars, watchVars, unhealthy, faults, histVars>>

HealerGivesUp_Unlocked(h) ==   \* mutant: the operation runs although the lock is busy
    /\ Goto(h, "wait", "held") /\ lock # "free"
    /\ UNCHANGED <<lock, stack, consoleVars, watchVars, unhealthy, faults, histVars>>

HealerGivesUp(h) ==
    /\ Goto(h, "wait", "over") /\ lock # "free"
    /\ UNCHANGED <<lock, stack, consoleVars, watchVars, unhealthy, faults, histVars>>

HealerEnds(h) ==
    /\ Goto(h, "half", "over")
    /\ \E s \in Results : Started(s)
    /\ lock' = "free"
    /\ UNCHANGED <<pinner, marker, age, adrift, watchVars, unhealthy, faults, histVars>>

HealerTimesOut(h) ==
    /\ TimesOut(h, "over")
    /\ UNCHANGED <<stack, pinner, image, marker, age, watchVars, unhealthy, histVars>>

(***************************************************************************)
(* The console's update.                                                   *)
(***************************************************************************)
\* The compose files get the new tag, unless another update has put it there.
Pin(u) ==
    /\ Goto(u, "idle", "pinned")
    /\ pinner' = IF pinner = "none" THEN u ELSE pinner
    /\ UNCHANGED <<lock, stack, image, marker, age, adrift, watchVars, unhealthy, faults, histVars>>

RestorePin(u) == pinner' = IF pinner = u THEN "none" ELSE pinner

\* `docker compose config` fails, or resolves another tag.
VerifyFails(u) ==
    /\ Goto(u, "pinned", "failed")
    /\ RestorePin(u)
    /\ UNCHANGED <<lock, stack, image, marker, age, adrift, watchVars, unhealthy, faults, histVars>>

\* _guarddog_authentik_update_begin and _end: there is one marker for all updates.
MarkerSet(u) == /\ marker' = 0 /\ age' = [age EXCEPT ![u] = 0]
                /\ UNCHANGED robbed
MarkerUnset(u) == /\ marker' = Absent /\ age' = [age EXCEPT ![u] = Absent]
                  /\ robbed' = (robbed \cup {v \in Updates : InProgress(v)}) \ {u}
                  /\ late' = [w \in Dogs |-> late[w] \ {u}]

Begin(u) ==
    /\ Goto(u, "pinned", "wait")
    /\ MarkerSet(u)
    /\ late' = [w \in Dogs |-> IF pc[w] = "idle" THEN {} ELSE late[w] \cup {u}]
    /\ UNCHANGED <<lock, stack, pinner, image, adrift, watchVars, unhealthy, faults,
                   tookAgo, unrecorded>>

UpdateGivesUp(u) ==
    /\ Goto(u, "wait", "failed") /\ lock # "free"
    /\ RestorePin(u) /\ MarkerUnset(u)
    /\ UNCHANGED <<lock, stack, image, adrift, watchVars, unhealthy, faults, tookAgo, unrecorded>>

\* A failed pull leaves the old containers; a failed down may have stopped them.
PullFails(u) ==
    /\ Goto(u, "held", "failed")
    /\ RestorePin(u) /\ MarkerUnset(u)
    /\ stack' \in {stack, "down"} /\ lock' = "free"
    /\ UNCHANGED <<image, adrift, watchVars, unhealthy, faults, tookAgo, unrecorded>>

UpdateUp(u) ==
    /\ Goto(u, "half", "confirm")
    /\ \E s \in Results \ {"down"} : Started(s)
    /\ lock' = "free"
    /\ UNCHANGED <<pinner, marker, age, adrift, watchVars, unhealthy, faults, histVars>>

\* A failed `up` is followed by one on the old pin, which may fail too.
UpdateRollsBack(u) ==
    /\ Goto(u, "half", "failed")
    /\ RestorePin(u) /\ MarkerUnset(u)
    /\ stack' \in Results
    /\ image' = IF stack' = "down" THEN image ELSE IF pinner' = "none" THEN "old" ELSE "new"
    /\ lock' = "free"
    /\ UNCHANGED <<adrift, watchVars, unhealthy, faults, tookAgo, unrecorded>>

\* The exception restores the pin and clears the marker under a command that goes on.
UpdateTimesOut(u) ==
    /\ TimesOut(u, "failed")
    /\ RestorePin(u) /\ MarkerUnset(u)
    /\ UNCHANGED <<stack, image, watchVars, unhealthy, tookAgo, unrecorded>>

\* The running image is the new one: the marker is left to a thread that waits for health.
Confirm(u) ==
    /\ \/ /\ Goto(u, "confirm", "settle") /\ image = "new" /\ stack # "down"
          /\ UNCHANGED <<marker, age, late, robbed>>
       \/ /\ Goto(u, "confirm", "over") /\ (image = "old" \/ stack = "down")
          /\ MarkerUnset(u)
    /\ UNCHANGED <<lock, stack, pinner, image, adrift, watchVars, unhealthy, faults,
                   tookAgo, unrecorded>>

\* _guarddog_authentik_update_end_when_healthy
Settled(u) ==
    /\ Goto(u, "settle", "over")
    /\ HttpOk \/ ~Fresh(age[u], UpdateMax)
    /\ MarkerUnset(u)
    /\ UNCHANGED <<lock, stack, pinner, image, adrift, watchVars, unhealthy, faults,
                   tookAgo, unrecorded>>

(***************************************************************************)
(* Guard Dog's watcher: one tick a minute.                                 *)
(***************************************************************************)
Set(x, a) == since' = [since EXCEPT ![x] = a]

Look_NoMarker ==   \* mutant: the tick does not look for the marker
    /\ Goto("watch", "idle", "probe")
    /\ UNCHANGED <<marker, fails>>
    /\ late' = [late EXCEPT !["watch"] = {}]
    /\ UNCHANGED <<lock, stack, pinner, image, age, adrift, since, recent, mode, unhealthy,
                   faults, robbed, tookAgo, unrecorded>>

Look_StaleCounts ==   \* mutant: the marker of a console that died counts for ever
    /\ IF marker # Absent
       THEN pc["watch"] = "idle" /\ fails' = 0 /\ UNCHANGED <<pc, late>>
       ELSE /\ Goto("watch", "idle", "probe") /\ UNCHANGED fails
            /\ late' = [late EXCEPT !["watch"] = {}]
    /\ UNCHANGED <<lock, stack, consoleVars, since, recent, mode, unhealthy, faults, robbed,
                   tookAgo, unrecorded>>

\* _update_in_progress: a fresh marker ends the tick, a stale one is removed.
Look ==
    /\ IF Fresh(marker, UpdateMax)
       THEN pc["watch"] = "idle" /\ fails' = 0 /\ UNCHANGED <<pc, marker, late>>
       ELSE /\ Goto("watch", "idle", "probe") /\ marker' = Absent /\ UNCHANGED fails
            /\ late' = [late EXCEPT !["watch"] = {}]
    /\ UNCHANGED <<lock, stack, pinner, image, age, adrift, since, recent, mode, unhealthy,
                   faults, robbed, tookAgo, unrecorded>>

\* _backoff_secs: doubled for every restart in the window, up to the cap.
Backoff(n) == LET s == Cooldown * 2^n IN IF s > CooldownMax THEN CooldownMax ELSE s

CooledDown == since["cooldown"] = Absent \/ since["cooldown"] >= Backoff(Cardinality(recent))

\* _ak_pick_restart_mode
PickMode == mode' = IF recent = {} /\ stack # "down" THEN "server-worker" ELSE "full"

\* HTTP answers.  A herd of LDAP flows that does not drain is restarted all the same.
ProbeOk(herd) ==
    /\ HttpOk
    /\ fails' = 0
    /\ since' = [since EXCEPT !["hold"] = Absent, !["migrate"] = Absent]
    /\ IF herd /\ CooledDown
       THEN Goto("watch", "probe", "wait") /\ PickMode
       ELSE Goto("watch", "probe", "idle") /\ UNCHANGED mode
    /\ UNCHANGED <<lock, stack, consoleVars, recent, unhealthy, faults, histVars>>

Migrating == stack = "migrating" /\ (since["migrate"] = Absent \/ since["migrate"] < MigrateHoldMax)

ProbeHeldByMigration ==
    /\ ~HttpOk /\ Migrating
    /\ Goto("watch", "probe", "idle")
    /\ Set("migrate", IF since["migrate"] = Absent THEN 0 ELSE since["migrate"])
    /\ fails' = 0
    /\ UNCHANGED <<lock, stack, consoleVars, recent, mode, unhealthy, faults, histVars>>

\* starved: a busy host whose server still listens.
ProbeFails(starved) ==
    /\ ~HttpOk /\ ~Migrating
    /\ fails' = IF fails < MaxFails THEN fails + 1 ELSE fails
    /\ IF fails' < MaxFails \/ ~CooledDown
       THEN Goto("watch", "probe", "idle") /\ UNCHANGED <<since, mode>>
       ELSE IF starved /\ stack # "down" /\ (since["hold"] = Absent \/ since["hold"] < HoldMax)
       THEN /\ Goto("watch", "probe", "idle")
            /\ Set("hold", IF since["hold"] = Absent THEN 0 ELSE since["hold"])
            /\ UNCHANGED mode
       ELSE Goto("watch", "probe", "wait") /\ Set("hold", Absent) /\ PickMode
    /\ UNCHANGED <<lock, stack, consoleVars, recent, unhealthy, faults, histVars>>

\* `restart server worker` on the containers there are: no other version, no dependencies.
WatchRestarts ==
    /\ Goto("watch", "held", "record")
    /\ mode = "server-worker"
    /\ IF stack = "down" THEN UNCHANGED stack ELSE stack' \in Results \ {"down"}
    /\ lock' = "free" /\ Taken
    /\ UNCHANGED <<consoleVars, watchVars, unhealthy, faults, late, robbed>>

WatchUp ==
    /\ Goto("watch", "half", "record")
    /\ \E s \in Results : Started(s)
    /\ lock' = "free"
    /\ UNCHANGED <<pinner, marker, age, adrift, watchVars, unhealthy, faults, histVars>>

WatchGivesUp ==
    /\ Goto("watch", "wait", "record") /\ lock # "free"
    /\ UNCHANGED <<lock, stack, consoleVars, watchVars, unhealthy, faults, histVars>>

Record_NoHistory ==   \* mutant: the restart is not added to the history
    /\ Goto("watch", "record", "idle")
    /\ fails' = 0 /\ mode' = "none"
    /\ Set("cooldown", 0) /\ unrecorded' = FALSE
    /\ UNCHANGED <<lock, stack, consoleVars, recent, unhealthy, faults, late, robbed, tookAgo>>

\* A restart that was skipped for want of the lock is recorded like one that was done.
Record ==
    /\ Goto("watch", "record", "idle")
    /\ recent' = recent \cup {0} /\ fails' = 0 /\ mode' = "none"
    /\ Set("cooldown", 0) /\ unrecorded' = FALSE
    /\ UNCHANGED <<lock, stack, consoleVars, unhealthy, faults, late, robbed, tookAgo>>

WatchStep == Look \/ (\E b \in BOOLEAN : ProbeOk(b) \/ ProbeFails(b)) \/ ProbeHeldByMigration
             \/ Acquire("watch") \/ WatchRestarts \/ Down("watch") \/ WatchUp
             \/ WatchGivesUp \/ Record

(***************************************************************************)
(* The console's channels-pool watchdog.                                   *)
(***************************************************************************)
\* _authentik_busy_reason
BusyReason == lock # "free" \/ Fresh(marker, UpdateMax)

PoolLooks ==
    /\ IF BusyReason
       THEN pc["pool"] = "idle" /\ unhealthy' = 0 /\ UNCHANGED <<pc, late>>
       ELSE /\ Goto("pool", "idle", "look") /\ UNCHANGED unhealthy
            /\ late' = [late EXCEPT !["pool"] = {}]
    /\ UNCHANGED <<lock, stack, consoleVars, watchVars, faults, robbed, tookAgo, unrecorded>>

\* docker inspect: "unhealthy" at two ticks running; or, at any tick, too many idle
\* connections or transactions.
PoolInspects ==
    /\ IF stack \notin {"sick", "migrating"} \/ unhealthy = 0
       THEN \E there \in {"idle", "fire"} : Goto("pool", "look", there)
       ELSE Goto("pool", "look", "fire")
    /\ unhealthy' = IF stack \in {"sick", "migrating"} THEN 1 - unhealthy ELSE 0
    /\ UNCHANGED <<lock, stack, consoleVars, watchVars, faults, histVars>>

\* `docker restart authentik-server-1`, without the lock; it may fail or time out.
PoolFires ==
    /\ Goto("pool", "fire", "idle")
    /\ IF stack = "down" THEN UNCHANGED stack ELSE stack' \in Results
    /\ UNCHANGED <<lock, consoleVars, watchVars, unhealthy, faults, histVars>>

(***************************************************************************)
(* The server, faults, and time.                                            *)
(***************************************************************************)
Sicken == /\ stack = "up" /\ stack' \in {"sick", "down"}
          /\ UNCHANGED <<lock, pc, consoleVars, watchVars, unhealthy, faults, histVars>>

Heal == /\ stack \in {"sick", "migrating"} /\ stack' = "up"
        /\ UNCHANGED <<lock, pc, consoleVars, watchVars, unhealthy, faults, histVars>>

\* The kernel drops the lock of a process that dies.
Killed(P) ==
    /\ faults < MaxFaults /\ faults' = faults + 1
    /\ lock' = IF lock \in P THEN "free" ELSE lock

ConsoleDies ==
    /\ Killed(Ops)
    /\ pc' = [p \in DOMAIN pc |-> IF p = "watch" THEN pc[p]
                                  ELSE IF p = "pool" \/ pc[p] = "idle" THEN "idle"
                                  ELSE IF pc[p] = "failed" THEN "failed" ELSE "over"]
    /\ \E f \in [Ops -> {"none", "down", "old", "new"}] :
          /\ \A p \in Ops : f[p] \in Drifts(p)
          /\ adrift' = f
    /\ unhealthy' = 0 /\ age' = [u \in Updates |-> Absent]
    /\ late' = [w \in Dogs |-> {}] /\ robbed' = {}
    /\ UNCHANGED <<stack, pinner, image, marker, watchVars, tookAgo, unrecorded>>

\* systemd ends the tick with the command it runs, which has inherited the lock.
WatchDies ==
    /\ pc["watch"] # "idle" /\ Killed({"watch"})
    /\ pc' = [pc EXCEPT !["watch"] = "idle"] /\ mode' = "none"
    /\ UNCHANGED <<stack, consoleVars, since, recent, fails, unhealthy, histVars>>

Tick ==
    /\ marker' = Older(marker, UpdateMax)
    /\ age' = [u \in Updates |-> Older(age[u], UpdateMax)]
    /\ since' = [cooldown |-> Older(since["cooldown"], CooldownMax),
                 hold     |-> Older(since["hold"], HoldMax),
                 migrate  |-> Older(since["migrate"], MigrateHoldMax)]
    /\ recent' = {a + 1 : a \in {b \in recent : b < HistoryWindow}}
    /\ tookAgo' = Older(tookAgo, HistoryWindow + 1)
    /\ UNCHANGED <<lock, pc, stack, pinner, image, adrift, fails, mode, unhealthy, faults,
                   late, robbed, unrecorded>>

HealerStep(h) == \/ HealerGivesUp(h) \/ HealerEnds(h) \/ HealerTimesOut(h)
                 \/ Acquire(h) \/ Down(h)
UpdateStep(u) == \/ VerifyFails(u) \/ Begin(u) \/ UpdateGivesUp(u) \/ PullFails(u)
                 \/ UpdateUp(u) \/ UpdateRollsBack(u) \/ UpdateTimesOut(u)
                 \/ Confirm(u) \/ Settled(u) \/ Acquire(u) \/ Down(u)

Next ==
    \/ \E u \in Updates : Pin(u) \/ UpdateStep(u)
    \/ \E h \in Healers : HealerBegins(h) \/ HealerStep(h)
    \/ \E p \in Ops : DriftEnds(p)
    \/ WatchStep
    \/ PoolLooks \/ PoolInspects \/ PoolFires
    \/ Sicken \/ Heal \/ ConsoleDies \/ WatchDies \/ Tick

Spec == Init /\ [][Next]_vars

\* The timer goes on firing, commands and locks take finite time, and a restart that is
\* tried again and again does some day bring the server up.
FairSpec ==
    /\ Spec
    /\ \A u \in Updates : WF_vars(UpdateStep(u))
    /\ \A h \in Healers : WF_vars(HealerStep(h))
    /\ WF_vars(WatchStep) /\ SF_vars((WatchRestarts \/ WatchUp) /\ stack' = "up") /\ WF_vars(Tick)
-----------------------------------------------------------------------------
Ages(max) == {Absent} \cup 0..max

TypeOK ==
    /\ lock \in Users \cup {"free"} /\ stack \in Results
    /\ pc \in [Ops \cup Dogs -> {"idle", "pinned", "wait", "held", "half", "confirm", "settle",
                          "failed", "over", "probe", "record", "look", "fire"}]
    /\ pinner \in Updates \cup {"none"} /\ image \in {"old", "new"}
    /\ marker \in Ages(UpdateMax) /\ age \in [Updates -> Ages(UpdateMax)]
    /\ adrift \in [Ops -> {"none", "down", "old", "new"}]
    /\ since \in [{"cooldown", "hold", "migrate"} -> Ages(CooldownMax + HoldMax + MigrateHoldMax)]
    /\ recent \subseteq 0..HistoryWindow /\ fails \in 0..MaxFails
    /\ mode \in {"none", "server-worker", "full"} /\ unhealthy \in 0..1 /\ faults \in 0..MaxFaults
    /\ late \in [Dogs -> SUBSET Updates] /\ robbed \subseteq Updates
    /\ tookAgo \in Ages(HistoryWindow + 1) /\ unrecorded \in BOOLEAN

\* Whoever is between its `docker compose` commands holds the lock ("never proceed
\* unlocked"), and a command that runs without it is one whose console has died or has
\* stopped waiting for it.
ComposeExclusive ==
    /\ \A p \in Users : Composing(p) => lock = p
    /\ \A p \in Ops : adrift[p] # "none" => pc[p] \in {"failed", "over"}

\* What the lock is for: two `docker compose` never run on Authentik at once.
Running(p) == Composing(p) \/ (p \in Ops /\ adrift[p] # "none")
ComposeAlone == \A p, q \in Users : p # q => ~(Running(p) /\ Running(q))

\* A watchdog's restart never lands in an update that has had its marker for less than the
\* time a marker counts, nor in its migrations, unless that update began after the watchdog
\* had looked for one, or another update that ended took the marker with it.
Restarts(w) == IF w = "watch" THEN pc[w] = "held" /\ pc'[w] \in {"half", "record"}
                              ELSE pc[w] = "fire" /\ pc'[w] = "idle" /\ faults' = faults
SparesUpdates ==
    [][\A w \in Dogs : Restarts(w) =>
         \A u \in Updates : InProgress(u) /\ Fresh(age[u], UpdateMax)
            => u \in late[w] \cup robbed]_vars

\* The watcher's restarts keep the distance that their history asks for, doubled for every
\* restart in the window, and one that was only recorded counts; a restart whose tick was
\* killed before it was recorded is excepted.
BackoffKept ==
    [][Restarts("watch") /\ tookAgo \in 0..HistoryWindow /\ ~unrecorded
       => \A n \in {1, Cardinality(recent)} : tookAgo >= Backoff(n)]_vars

\* "A console that dies mid-update cannot silence Guard Dog for good", and neither can a
\* busy lock, a starved host or a migration that never ends: a server that is not up is
\* brought up again.
Recovers == stack # "up" ~> stack = "up"

\* The marker of an update goes again, whoever has to remove it.
MarkerGoes == marker # Absent ~> marker = Absent

\* "A failed update must leave NOTHING changed": neither the tag pin nor what runs.
FailedUpdateChangesNothing ==
    \A u \in Updates : pc[u] = "failed" => pinner # u /\ image = "old"
=============================================================================
