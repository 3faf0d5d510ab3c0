------------------------------ MODULE ClientGate ------------------------------
(***************************************************************************)
(* A boot of the box, as far as TAK's client port is concerned.  The boot  *)
(* sequencer (tak-boot-sequencer.sh, ExecStartPre of takserver.service)    *)
(* shuts the port with a DROP rule and stops the other services; the       *)
(* post-start script (tak-post-start.sh, once per boot) starts them again, *)
(* opens the port when TAK's API answers, and cuts the sessions that raced *)
(* the API.  A timer and a sweep at every start of the console open the    *)
(* port too.  All of them run tak-client-gate.sh, without a lock.          *)
(*                                                                         *)
(* The rule dies with the boot; its state file does not.  A tick of uptime *)
(* is 5 minutes: what the scripts do within one is far shorter.            *)
(***************************************************************************)
EXTENDS Integers

CONSTANTS
    Clients,
    BootUptime,     \* MAX_BOOT_UPTIME, in ticks
    TimerAt,        \* OnBootSec of takclientgate.timer
    StaleAfter,     \* STALE_AFTER
    MaxUptime,      \* bound on the uptime that is told apart
    MaxBoots, MaxFaults, MaxStarts  \* bounds: boots, faults, starts of TAK in a boot

ASSUME GateAssumption ==
    /\ {BootUptime, TimerAt, StaleAfter, MaxUptime, MaxBoots, MaxFaults, MaxStarts} \subseteq Nat
    /\ 0 < BootUptime /\ BootUptime < TimerAt /\ TimerAt <= MaxUptime
    /\ Clients \cap {"authentik", "others", "mark"} = {}

VARIABLES
    drop,       \* is the DROP rule on 8089 in the raw table?
    file,       \* client-gate.state: "none", or written in "this" or in an "old" boot
    at,         \* its engaged_at, as an uptime
    marked,     \* /run/takguard-boot-sequenced
    uptime, boots, faults, starts,
    pc,         \* where the sequencer, post-start, the timer and the sweep stand
    tak,        \* "off", "starting", "listening" on 8089, or "ready" on 8443
    stopped,    \* services that the sequencer stopped
    conn,       \* each client: "out", "early" (before the API was ready) or "in"
    early,      \* _early of post-start
    apiReady,   \* _api_ready
    excused     \* history: services that post-start did not get up, sessions it could not
                \* cut or whose TAK was restarted, and a "mark" that could not be made

files == <<file, at>>
gate  == <<drop, files>>
clock == <<uptime, boots, faults, starts>>
sess  == <<conn, early, apiReady>>
vars  == <<gate, marked, clock, pc, tak, stopped, sess, excused>>

Services == {"authentik", "others"}
Actors   == {"seq", "post", "timer", "sweep"}
Goto(p, here, there) == pc[p] = here /\ pc' = [pc EXCEPT ![p] = there]
Fault == faults < MaxFaults /\ faults' = faults + 1

Init ==
    /\ drop = FALSE /\ file = "none" /\ at = 0 /\ marked = FALSE
    /\ uptime = 0 /\ boots = 1 /\ faults = 0 /\ starts = 0
    /\ pc = [p \in Actors |-> "idle"] /\ tak = "off" /\ stopped = {}
    /\ conn = [c \in Clients |-> "out"] /\ early = {} /\ apiReady = FALSE /\ excused = {}

(***************************************************************************)
(* _release: the rules, then the state file.                               *)
(***************************************************************************)
\* iptables -D may fail, or the script be cut short: the rule survives, the file does not.
ReleaseRules(p) ==
    /\ Goto(p, "rules", "file")
    /\ \/ drop' = FALSE /\ UNCHANGED faults
       \/ drop /\ Fault /\ UNCHANGED drop
    /\ UNCHANGED <<files, marked, uptime, boots, starts, tak, stopped, sess, excused>>

AfterRelease(p) == CASE p = "seq"   -> "stop"
                     [] p = "post"  -> IF apiReady THEN "recycle" ELSE "start"
                     [] p = "timer" -> "done"
                     [] p = "sweep" -> "idle"

ReleaseFile(p) ==
    /\ Goto(p, "file", AfterRelease(p))
    /\ file' = "none"
    /\ UNCHANGED <<drop, at, marked, clock, tak, stopped, sess, excused>>

(***************************************************************************)
(* The boot sequencer, at each start of TAK.                               *)
(***************************************************************************)
\* `touch "$_BOOT_MARK" || true`
Touch == \/ marked' = TRUE /\ UNCHANGED <<faults, excused>>
         \/ Fault /\ excused' = excused \cup {"mark"} /\ UNCHANGED marked

SeqBegins_NoMark ==   \* mutant: a second start in the first minutes passes for a boot
    /\ tak = "off" /\ starts < MaxStarts /\ starts' = starts + 1
    /\ IF uptime < BootUptime
       THEN Goto("seq", "idle", "insert") /\ Touch
       ELSE Goto("seq", "idle", "db") /\ UNCHANGED <<marked, faults, excused>>
    /\ UNCHANGED <<gate, uptime, boots, tak, stopped, sess>>

SeqBegins ==
    /\ tak = "off" /\ starts < MaxStarts /\ starts' = starts + 1
    /\ IF uptime < BootUptime /\ ~marked
       THEN Goto("seq", "idle", "insert") /\ Touch
       ELSE Goto("seq", "idle", "db") /\ UNCHANGED <<marked, faults, excused>>
    /\ UNCHANGED <<gate, uptime, boots, tak, stopped, sess>>

\* _insert up to its first rule.  It fails open: no firewall, no raw table, a refusal.
InsertRule ==
    /\ uptime < BootUptime /\ file # "this"
    /\ Goto("seq", "insert", "state")
    /\ drop' = TRUE
    /\ UNCHANGED <<files, marked, clock, tak, stopped, sess, excused>>

InsertFailsOpen ==
    /\ Goto("seq", "insert", "stop")
    /\ UNCHANGED <<gate, marked, clock, tak, stopped, sess, excused>>

InsertState ==
    /\ Goto("seq", "state", "verify")
    /\ file' = "this" /\ at' = uptime
    /\ UNCHANGED <<drop, marked, clock, tak, stopped, sess, excused>>

\* _gate_in_force, or the roll-back
InsertVerifies ==
    /\ Goto("seq", "verify", IF drop THEN "stop" ELSE "rules")
    /\ UNCHANGED <<gate, marked, clock, tak, stopped, sess, excused>>

\* With or without a compose directory: Authentik and Node-RED are then stopped by name.
\* What is not stopped is not installed, did not obey, or is held by the console's lock.
StopServices(S) ==
    /\ Goto("seq", "stop", "db")
    /\ stopped' = stopped \cup S
    /\ UNCHANGED <<gate, marked, clock, tak, sess, excused>>

SeqEnds ==
    /\ Goto("seq", "db", "idle")
    /\ tak' = "starting"
    /\ UNCHANGED <<gate, marked, clock, stopped, sess, excused>>

(***************************************************************************)
(* Post-start: After=takserver.service, RemainAfterExit.                   *)
(***************************************************************************)
PostBegins ==
    /\ starts > 0 /\ pc["seq"] = "idle"
    /\ Goto("post", "idle", "authentik")
    /\ UNCHANGED <<gate, marked, clock, tak, stopped, sess, excused>>

\* A service is skipped when no compose directory is found ("not installed") or its lock is
\* busy; else it is started, and nobody reads how that went.
Starts(s, up) ==
    /\ stopped' = IF up THEN stopped \ {s} ELSE stopped
    /\ excused' = IF up THEN excused ELSE excused \cup ({s} \cap stopped)

StartAuthentik(up) ==
    /\ Goto("post", "authentik", "port")
    /\ Starts("authentik", up)
    /\ UNCHANGED <<gate, marked, clock, tak, sess>>

\* MAX_WAIT_TAK: it goes on whether or not 8089 listens.
PortWaited ==
    /\ Goto("post", "port", "api")
    /\ UNCHANGED <<gate, marked, clock, tak, stopped, sess, excused>>

ApiAnswers_NoSnapshot ==   \* mutant: the sessions are listed after the port is opened only
    /\ tak = "ready"
    /\ Goto("post", "api", "rules")
    /\ apiReady' = TRUE /\ early' = {}
    /\ UNCHANGED <<gate, marked, clock, tak, stopped, conn, excused>>

ApiAnswers ==
    /\ tak = "ready"
    /\ Goto("post", "api", "rules")
    /\ apiReady' = TRUE /\ early' = {c \in Clients : conn[c] # "out"}
    /\ UNCHANGED <<gate, marked, clock, tak, stopped, conn, excused>>

ApiWaitEnds ==
    /\ tak # "ready"
    /\ Goto("post", "api", "rules")
    /\ UNCHANGED <<gate, marked, clock, tak, stopped, sess, excused>>

\* ss -K on those of _early that are still connected; a kernel may refuse.
Recycle(refused) ==
    /\ Goto("post", "recycle", "start")
    /\ conn' = [c \in Clients |-> IF c \in early \ refused THEN "out" ELSE conn[c]]
    /\ excused' = excused \cup refused
    /\ UNCHANGED <<gate, marked, clock, tak, stopped, early, apiReady>>

StartServices(up) ==
    /\ Goto("post", "start", "done")
    /\ Starts("others", up)
    /\ UNCHANGED <<gate, marked, clock, tak, sess>>

(***************************************************************************)
(* The timer and the console's sweep.                                      *)
(***************************************************************************)
TimerFires_NeedsFile ==   \* mutant: without a state file the timer takes the port for open
    /\ uptime >= TimerAt
    /\ Goto("timer", "idle", IF file = "none" THEN "done" ELSE "rules")
    /\ UNCHANGED <<gate, marked, clock, tak, stopped, sess, excused>>

TimerFires ==
    /\ uptime >= TimerAt
    /\ Goto("timer", "idle", "rules")
    /\ UNCHANGED <<gate, marked, clock, tak, stopped, sess, excused>>

\* _sweep reads the file, and without one looks for the rule (_release_if_orphan_rule).
SweepReads ==
    /\ \/ file = "none" /\ Goto("sweep", "idle", "orphan")
       \/ file = "old" /\ Goto("sweep", "idle", "rules")
       \/ file = "this" /\ uptime - at >= StaleAfter /\ Goto("sweep", "idle", "rules")
    /\ UNCHANGED <<gate, marked, clock, tak, stopped, sess, excused>>

SweepFindsOrphan ==
    /\ Goto("sweep", "orphan", IF drop THEN "rules" ELSE "idle")
    /\ UNCHANGED <<gate, marked, clock, tak, stopped, sess, excused>>

(***************************************************************************)
(* TAK Server, its clients, time and faults.                               *)
(***************************************************************************)
TakProgress ==
    /\ tak \in {"starting", "listening"}
    /\ tak' = IF tak = "starting" THEN "listening" ELSE "ready"
    /\ UNCHANGED <<gate, marked, clock, pc, stopped, sess, excused>>

\* A restart, by an operator or by Guard Dog: every session goes.
TakStops ==
    /\ tak # "off" /\ tak' = "off"
    /\ conn' = [c \in Clients |-> "out"] /\ early' = {}
    /\ excused' = IF apiReady THEN excused \cup Clients ELSE excused
    /\ UNCHANGED <<gate, marked, clock, pc, stopped, apiReady>>

Connect(c) ==
    /\ conn[c] = "out" /\ ~drop /\ tak \in {"listening", "ready"}
    /\ conn' = [conn EXCEPT ![c] = IF tak = "ready" THEN "in" ELSE "early"]
    /\ UNCHANGED <<gate, marked, clock, pc, tak, stopped, early, apiReady, excused>>

Leave(c) ==
    /\ conn[c] # "out" /\ conn' = [conn EXCEPT ![c] = "out"] /\ early' = early \ {c}
    /\ UNCHANGED <<gate, marked, clock, pc, tak, stopped, apiReady, excused>>

Tick ==
    /\ uptime < MaxUptime /\ uptime' = uptime + 1
    /\ pc["seq"] \notin {"insert", "state", "verify", "rules", "file"}
    /\ UNCHANGED <<gate, marked, boots, faults, starts, pc, tak, stopped, sess, excused>>

\* TimeoutStartSec of takserver.service, or a kill
SeqDies ==
    /\ pc["seq"] # "idle" /\ Fault
    /\ pc' = [pc EXCEPT !["seq"] = "idle"]
    /\ UNCHANGED <<gate, marked, uptime, boots, starts, tak, stopped, sess, excused>>

\* TimeoutStartSec=1200, a crash or a kill.  The trap releases what was not yet being
\* released, unless it is SIGKILL.
PostDies(trap) ==
    /\ pc["post"] \notin {"idle", "done", "dead"} /\ Fault
    /\ pc' = [pc EXCEPT !["post"] =
                IF trap /\ pc["post"] \in {"authentik", "port", "api"} THEN "traprules" ELSE "dead"]
    /\ UNCHANGED <<gate, marked, uptime, boots, starts, tak, stopped, sess, excused>>

TrapReleases ==
    /\ Goto("post", "traprules", "dead")
    /\ drop' = FALSE /\ file' = "none"
    /\ UNCHANGED <<at, marked, clock, tak, stopped, sess, excused>>

\* Docker starts what `restart: unless-stopped` lets it start; a service that was stopped
\* stays so.
Reboot ==
    /\ boots < MaxBoots /\ boots' = boots + 1
    /\ drop' = FALSE /\ file' = (IF file = "none" THEN "none" ELSE "old")
    /\ marked' = FALSE /\ uptime' = 0 /\ starts' = 0
    /\ pc' = [p \in Actors |-> "idle"] /\ tak' = "off"
    /\ conn' = [c \in Clients |-> "out"] /\ early' = {} /\ apiReady' = FALSE /\ excused' = {}
    /\ UNCHANGED <<at, faults, stopped>>

Release(p) == ReleaseRules(p) \/ ReleaseFile(p)

SeqStep  == InsertRule \/ InsertFailsOpen \/ InsertState \/ InsertVerifies
            \/ (\E S \in SUBSET Services : StopServices(S)) \/ SeqEnds \/ Release("seq")
PostStep == PostBegins \/ (\E b \in BOOLEAN : StartAuthentik(b) \/ StartServices(b)) \/ PortWaited
            \/ ApiAnswers \/ ApiWaitEnds \/ (\E r \in SUBSET Clients : Recycle(r))
            \/ Release("post") \/ TrapReleases
TimerStep == TimerFires \/ Release("timer")
SweepStep == SweepReads \/ SweepFindsOrphan \/ Release("sweep")

Next ==
    \/ SeqBegins \/ SeqStep \/ PostStep \/ TimerStep \/ SweepStep
    \/ TakProgress \/ TakStops \/ (\E c \in Clients : Connect(c) \/ Leave(c))
    \/ Tick \/ SeqDies \/ (\E b \in BOOLEAN : PostDies(b)) \/ Reboot

Spec == Init /\ [][Next]_vars

\* Scripts that run go on, and so do systemd's timer and the clock; TAK may never come up.
FairSpec == Spec /\ WF_vars(SeqStep) /\ WF_vars(PostStep) /\ WF_vars(TimerStep) /\ WF_vars(Tick)
-----------------------------------------------------------------------------
TypeOK ==
    /\ drop \in BOOLEAN /\ file \in {"none", "this", "old"} /\ at \in 0..(BootUptime - 1)
    /\ marked \in BOOLEAN /\ uptime \in 0..MaxUptime /\ boots \in 1..(MaxBoots + 1)
    /\ faults \in 0..MaxFaults /\ starts \in 0..MaxStarts
    /\ pc \in [Actors -> {"idle", "insert", "state", "verify", "rules", "file", "stop", "db",
                         "authentik", "port", "api", "recycle", "start", "done", "dead",
                         "traprules", "orphan"}]
    /\ tak \in {"off", "starting", "listening", "ready"} /\ stopped \subseteq Services
    /\ conn \in [Clients -> {"out", "early", "in"}] /\ early \subseteq Clients
    /\ apiReady \in BOOLEAN /\ excused \subseteq Clients \cup Services \cup {"mark"}

\* "A gate that keeps clients out must come down however the script that put it up ends":
\* with one fault anywhere (a kill, a rule that survives its deletion) the port opens again.
GateOpens == drop ~> ~drop

\* The port is shut at most in the first start of TAK of a boot: never by a restart that
\* comes after post-start, which runs once, has opened it (GH #83), unless the mark of the
\* boot could not be made.
NeverShutAgain ==
    [][~drop /\ drop' /\ "mark" \notin excused => pc["post"] = "idle" /\ starts = 1]_vars

\* When post-start is done no session is left that the API does not know, whatever let it
\* in: a gate that failed open, the timer or a sweep.
RacersRecycled ==
    pc["post"] = "done" /\ apiReady => \A c \in Clients : conn[c] = "early" => c \in excused

\* When post-start is done nothing is stopped but what it found stopped and could not start,
\* or skipped: no later start of TAK in that boot stops anything again, unless the mark of
\* the boot could not be made.
NothingLeftStopped ==
    pc["post"] = "done" /\ "mark" \notin excused => stopped \subseteq excused

\* "Boot sequence complete -- all services started" (tak-post-start.sh).
AllStarted == pc["post"] = "done" => stopped = {}

\* "It must NOT release a gate that is legitimately engaged" (the sweep).
SweepSpares ==
    [][drop /\ ~drop' /\ pc["sweep"] = "rules" /\ pc'["sweep"] = "file"
       => file # "this" \/ uptime - at >= StaleAfter]_vars
=============================================================================
