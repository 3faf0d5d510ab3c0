---------------------------- MODULE BrokerEnforce ----------------------------
(***************************************************************************)
(* How the privileged broker (broker/takwerx_broker.py) decides, once per  *)
(* process, whether its rulebook blocks (enforce) or only logs what it     *)
(* would have blocked (permissive), and how it reports its readiness.      *)
(*                                                                         *)
(* The evidence is its own audit log: a box may enforce once the log holds *)
(* CleanSecs of history without a WOULD-DENY line.  The log rotates, so it *)
(* is reduced to what the scan reads from it: the time of its oldest line  *)
(* and the times of the WOULD-DENY lines it still holds.                   *)
(***************************************************************************)
EXTENDS Integers

CONSTANTS
    CleanSecs,      \* ENFORCE_CLEAN_SECS, in ticks of the box's clock
    TTL,            \* _READINESS_TTL
    MaxTime,        \* bound on the clock
    StampMayFail,   \* may the write of ENFORCE_STATE_FILE fail?
    ThreadMayFail   \* may Thread.start() fail?

ASSUME EnforceAssumption ==
    /\ CleanSecs \in Nat \ {0} /\ TTL \in Nat /\ MaxTime \in Nat
    /\ StampMayFail \in BOOLEAN /\ ThreadMayFail \in BOOLEAN

VARIABLES
    now,         \* the clock
    env,         \* TAKWERX_BROKER_ENFORCE in the unit file
    optin,       \* ENFORCE_OPTIN_FILE exists
    stamp,       \* ENFORCE_STATE_FILE exists
    oldest,      \* time of the oldest audit line kept, or Never
    wds,         \* times of the WOULD-DENY lines kept
    mode,        \* ENFORCE of the running process, "down" between two
    cacheVal,    \* _READINESS_CACHE['val']: "none", "clean" or "dirty"
    cacheAt,     \* _READINESS_CACHE['at']
    busy,        \* _READINESS_CACHE['busy']
    scan,        \* the refresh thread: "off", "started", "failed" to, or the answer it found
    breached,    \* history: when the rulebook last failed to block, or Never
    flipped      \* history: the box has enforced by opt-in, and the stamp says so:
                 \* "no", "unstamped" or "stamped"

fileVars  == <<env, optin, stamp>>
logVars   == <<oldest, wds>>
cacheVars == <<cacheVal, cacheAt, busy, scan>>
vars == <<now, fileVars, logVars, mode, cacheVars, breached, flipped>>

Never == -1

Clean_AnyHistory ==   \* mutant: a log too short to tell passes for a clean one
    \A t \in wds : now - t >= CleanSecs

\* _audit_clean_window
Clean == /\ oldest # Never
         /\ now - oldest >= CleanSecs
         /\ \A t \in wds : now - t >= CleanSecs

Answer == IF Clean THEN "clean" ELSE "dirty"

Init == /\ now = 0 /\ env \in {"unset", "0", "1"} /\ optin \in BOOLEAN /\ stamp = FALSE
        /\ oldest = Never /\ wds = {} /\ mode = "down"
        /\ cacheVal = "none" /\ cacheAt = 0 /\ busy = FALSE /\ scan = "off"
        /\ breached = Never /\ flipped = "no"

(***************************************************************************)
(* Daemon start: _resolve_enforce, then the audit line serve() writes.     *)
(***************************************************************************)
LogLine == oldest' = IF oldest = Never THEN now ELSE oldest

Boot(m) == /\ mode = "down" /\ mode' = m
           /\ LogLine
           /\ UNCHANGED <<now, env, optin, wds, breached>>

\* The cache is empty in a new process, so serve() starts a refresh before it accepts.
WarmCache == cacheVal' = "none" /\ cacheAt' = 0 /\ busy' = TRUE /\ scan' = "started"

\* _enforce_readiness(fresh=True): the gate's own scan also fills the cache.
FillCache == cacheVal' = Answer /\ cacheAt' = now

GateScan == FillCache /\ busy' = FALSE /\ scan' = "off"

StartByEnv ==
    /\ env # "unset"
    /\ Boot(IF env = "1" THEN "enforce" ELSE "permissive")
    /\ WarmCache
    /\ UNCHANGED <<stamp, flipped>>

StartSticky ==
    /\ env = "unset" /\ stamp
    /\ Boot("enforce")
    /\ WarmCache
    /\ UNCHANGED <<stamp, flipped>>

StartWatching_NoStamp ==   \* mutant: the stamp does not keep a box enforcing
    /\ env = "unset" /\ ~(optin /\ Clean)
    /\ Boot("permissive")
    /\ GateScan
    /\ UNCHANGED <<stamp, flipped>>

StartWatching ==
    /\ env = "unset" /\ ~stamp /\ ~(optin /\ Clean)
    /\ Boot("permissive")
    /\ GateScan
    /\ UNCHANGED <<stamp, flipped>>

StartFlips_Unasked ==   \* mutant: a clean log is enough, opted in or not
    /\ env = "unset" /\ ~stamp /\ Clean
    /\ Boot("enforce")
    /\ GateScan
    /\ stamp' = TRUE /\ flipped' = "stamped"

\* A stamp that cannot be written is only a `stamp_warning`.
StartFlips ==
    /\ env = "unset" /\ ~stamp /\ optin /\ Clean
    /\ Boot("enforce")
    /\ GateScan
    /\ \/ stamp' = TRUE /\ flipped' = "stamped"
       \/ StampMayFail /\ UNCHANGED stamp /\ flipped' = "unstamped"

\* serve() cannot start one of its threads: the process ends, after its decision was
\* logged and, where it was to flip, stamped.
StartFails ==
    /\ ThreadMayFail /\ mode = "down"
    /\ LogLine
    /\ \/ UNCHANGED stamp
       \/ env = "unset" /\ optin /\ Clean /\ stamp' = TRUE
    /\ UNCHANGED <<now, env, optin, wds, mode, cacheVars, breached, flipped>>

Stop == /\ mode # "down" /\ mode' = "down"
        /\ busy' = FALSE /\ scan' = "off"
        /\ UNCHANGED <<now, fileVars, logVars, cacheVal, cacheAt, breached, flipped>>

(***************************************************************************)
(* Requests.                                                               *)
(***************************************************************************)
\* _dispatch of an exec, write or read the rulebook allows, of one it denies while
\* enforcing, of a fail-closed operation, or of an enforce_enable whose marker could not
\* be written: a line that is no WOULD-DENY.
Serve == /\ mode # "down"
         /\ LogLine
         /\ UNCHANGED <<now, fileVars, wds, mode, cacheVars, breached, flipped>>

\* _dispatch of an exec, write or read the rulebook denies while permissive.
ServeDenied ==
    /\ mode = "permissive"
    /\ LogLine
    /\ wds' = wds \cup {now} /\ breached' = now
    /\ UNCHANGED <<now, fileVars, mode, cacheVars, flipped>>

Rotate_ForgetsOldest(o) ==   \* mutant: the oldest line kept is not looked for again
    /\ mode # "down" /\ oldest # Never /\ o \in oldest..now
    /\ oldest' = now
    /\ UNCHANGED <<now, fileVars, wds, mode, cacheVars, breached, flipped>>

\* RotatingFileHandler drops its oldest file.  Lines of one second may be split
\* between the dropped file and the next.
Rotate(o) ==
    /\ mode # "down" /\ oldest # Never /\ o \in oldest..now
    /\ oldest' = o
    /\ \/ wds' = {t \in wds : t >= o}
       \/ wds' = {t \in wds : t > o}
    /\ UNCHANGED <<now, fileVars, mode, cacheVars, breached, flipped>>

EnforceEnable ==
    /\ mode # "down"
    /\ LogLine /\ optin' = TRUE
    /\ FillCache
    /\ UNCHANGED <<now, env, stamp, wds, mode, busy, scan, breached, flipped>>

Stale == cacheVal = "none" \/ now - cacheAt > TTL

\* ping: _audit_clean_window_cached answers from the cache, and when it is stale takes
\* the busy flag and starts the refresh thread.
Ping ==
    /\ mode # "down"
    /\ LogLine
    /\ \/ Stale /\ ~busy /\ busy' = TRUE /\ scan' = "started"
       \/ Stale /\ ~busy /\ busy' = TRUE /\ ThreadMayFail /\ scan' = "failed"
       \/ ~(Stale /\ ~busy) /\ UNCHANGED <<busy, scan>>
    /\ UNCHANGED <<now, fileVars, wds, mode, cacheVal, cacheAt, breached, flipped>>

\* _readiness_refresh: scan the log, later publish what was found.
ScanLog == /\ scan = "started"
           /\ scan' = Answer
           /\ UNCHANGED <<now, fileVars, logVars, mode, cacheVal, cacheAt, busy,
                          breached, flipped>>

Publish_StaysBusy ==   \* mutant: the busy flag is not given back
    /\ scan \in {"clean", "dirty"}
    /\ cacheVal' = scan /\ cacheAt' = now /\ scan' = "off"
    /\ UNCHANGED <<now, fileVars, logVars, mode, busy, breached, flipped>>

Publish == /\ scan \in {"clean", "dirty"}
           /\ cacheVal' = scan /\ cacheAt' = now /\ busy' = FALSE /\ scan' = "off"
           /\ UNCHANGED <<now, fileVars, logVars, mode, breached, flipped>>

(***************************************************************************)
(* The operator's shell, and time.                                         *)
(***************************************************************************)
SetEnv == /\ env' \in {"unset", "0", "1"} \ {env}
          /\ UNCHANGED <<now, optin, stamp, logVars, mode, cacheVars, breached, flipped>>

Tick == /\ now < MaxTime /\ now' = now + 1
        /\ UNCHANGED <<fileVars, logVars, mode, cacheVars, breached, flipped>>

Start == StartByEnv \/ StartSticky \/ StartWatching \/ StartFlips

Next == \/ Start \/ StartFails \/ Stop \/ Serve \/ ServeDenied \/ EnforceEnable
        \/ Ping \/ ScanLog \/ Publish \/ SetEnv \/ Tick
        \/ \E o \in 0..MaxTime : Rotate(o)

Spec == Init /\ [][Next]_vars

\* systemd starts the daemon, its threads run, the console pings for ever.
FairSpec == Spec /\ WF_vars(Start) /\ WF_vars(Ping) /\ WF_vars(ScanLog)
                 /\ WF_vars(Publish) /\ WF_vars(Tick)

-----------------------------------------------------------------------------
FlagsOK == {optin, stamp, busy} \subseteq BOOLEAN

ValuesOK ==
    /\ now \in 0..MaxTime /\ env \in {"unset", "0", "1"}
    /\ oldest \in {Never} \cup 0..now /\ breached \in {Never} \cup 0..now
    /\ wds \subseteq IF oldest = Never THEN {} ELSE oldest..now
    /\ mode \in {"down", "permissive", "enforce"}
    /\ cacheVal \in {"none", "clean", "dirty"} /\ cacheAt \in 0..MaxTime
    /\ scan \in {"off", "started", "failed", "clean", "dirty"}
    /\ flipped \in {"no", "unstamped", "stamped"}

TypeOK == FlagsOK /\ ValuesOK

\* A box begins to enforce of itself only when, in truth and not just in the part of
\* the log that rotation has left, CleanSecs have passed since a request the rulebook
\* denies was last executed: the flip cannot break a caller seen in that time.
FlipsOnlyWhenClean ==
    [][mode = "down" /\ mode' = "enforce" /\ env = "unset" /\ ~stamp
       => breached = Never \/ now - breached >= CleanSecs]_vars

\* Enforcement is the operator's choice: without the override in the unit file the
\* broker enforces only on a box that was opted in, whatever its log says.
NeverFlipsItself ==
    [][mode = "down" /\ mode' = "enforce" /\ env = "unset" => optin]_vars

\* "Once a box has enforced (opted-in + clean), keep enforcing across restarts even if
\* new WOULD-DENYs appear": only the kill switch brings a box back to permissive, if the
\* stamp could be written.
StickyOnceEnforced ==
    [][mode = "down" /\ mode' = "permissive" /\ flipped = "stamped" => env = "0"]_vars

\* ... and whether or not it could, in the comment's words.
StickyAlways ==
    [][mode = "down" /\ mode' = "permissive" /\ flipped # "no" => env = "0"]_vars

\* A ping's cached readiness is "the last result (refreshing it in the background once
\* older than _READINESS_TTL)": while the daemon is up and pinged, it never stays stale,
\* unless a refresh thread could not be started.
CacheRefreshes == []<>(mode = "down" \/ ~Stale \/ scan = "failed")

\* ... and even then, in the comment's words.
CacheAlwaysRefreshes == []<>(mode = "down" \/ ~Stale)
=============================================================================
