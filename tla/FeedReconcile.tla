---------------------------- MODULE FeedReconcile ----------------------------
(***************************************************************************)
(* The Node-RED engine tab of a feed (nodered/build-flows.js): at every    *)
(* poll it reads the source, reads the TAK mission, and reconciles them:   *)
(* PUTs what the mission lacks, DELETEs what the source has not returned   *)
(* for long enough, and sweeps a ForceDelete for every shape it deleted.   *)
(* Everything it sends is carried out later, by nodes of their own.        *)
(*                                                                         *)
(* A tick is one poll interval.  Dates are kept as ages in ticks, None     *)
(* when there is none, and stop at the largest age the code tells apart.   *)
(***************************************************************************)
EXTENDS Integers, FiniteSets

CONSTANTS
    Uids,               \* what a mission may hold
    Layers, LayerOf,    \* the layer of each UID with one of the feed's prefixes
    Modes,              \* the configurations of the feed: subset of ModeNames
    MinAbsence, MassAbsence,        \* MIN_ABSENCE_MS, MASS_ABSENCE_MS, in ticks
    MagFloor,                       \* MAG_FLOOR
    DelMax,                         \* DEL_MAX_PER_POLL
    TombTTL, TombMaxSends, TombMaxPerSweep,
    MaxChanges, MaxFaults   \* bounds: edits of the source and purges; faults

ModeNames == {"strict", "lenient", "layers"}
Managed   == DOMAIN LayerOf
Whole     == "whole"    \* the one pass of a feed without layers
None      == -1

ASSUME FeedAssumption ==
    /\ Managed \subseteq Uids /\ LayerOf \in [Managed -> Layers] /\ Whole \notin Layers
    /\ Modes \subseteq ModeNames /\ IsFiniteSet(Uids)
    /\ {MinAbsence, MassAbsence, MagFloor, DelMax, TombTTL, TombMaxSends, TombMaxPerSweep,
        MaxChanges, MaxFaults} \subseteq Nat
    /\ MinAbsence <= MassAbsence /\ 0 < DelMax

VARIABLES
    mode,       \* "strict" (the default), "lenient", or "layers": one pass per layer
    source,     \* UIDs the source has
    mission,    \* UIDs the mission holds
    passes,     \* passes of the running poll that have not been reconciled
    polled,     \* has a poll begun in this tick? (_lastPoll_)
    misses,     \* _missStreak: how long each UID has been missed
    tombs,      \* _tombstones
    sends,      \* _tombSends
    swept,      \* a sweep was sent in this tick (_tombSweepTs)
    purge,      \* _forcePurge
    wait, put,  \* per pass: PUT waiting for its 30 s, and what its chain has left to send
    delq,       \* DELETEs behind the rate limiter
    seen,       \* history: ticks since an answer of the source held the UID
    owed,       \* history: deleted UIDs no device has been told of
    changes, faults

feed  == <<misses, purge>>
sweep == <<tombs, sends, swept, owed>>
queue == <<wait, put, delq>>
count == <<changes, faults>>
vars  == <<mode, source, mission, passes, polled, feed, sweep, queue, seen, count>>

LayersNow == IF mode = "layers" THEN Layers ELSE {Whole}
Matches(l) == IF l = Whole THEN Managed ELSE {u \in Managed : LayerOf[u] = l}
Pass == [layer : Layers \cup {Whole}, ok : BOOLEAN, feats : SUBSET Managed,
         read : BOOLEAN, snap : SUBSET Uids]

Age(f, cap) == [u \in Uids |-> IF f[u] \in {None, cap} THEN f[u] ELSE f[u] + 1]
Fault == faults < MaxFaults /\ faults' = faults + 1 /\ UNCHANGED changes

\* The n oldest of S: what a sort by date and a slice may leave.
Oldest(S, age, n) ==
    {T \in SUBSET S : /\ T = S \/ Cardinality(T) = n
                      /\ Cardinality(T) <= n
                      /\ \A t \in T, u \in S \ T : age[t] >= age[u]}

Init ==
    /\ mode \in Modes /\ source \in SUBSET Managed
    /\ mission \in {source, source \cup (Uids \ Managed)}
    /\ passes = {} /\ polled = FALSE
    /\ misses = [u \in Uids |-> None] /\ purge = FALSE
    /\ tombs = [u \in Uids |-> None] /\ sends = [u \in Uids |-> 0] /\ swept = FALSE
    /\ wait = [l \in Layers \cup {Whole} |-> {}] /\ put = wait /\ delq = {}
    /\ seen = [u \in Uids |-> MassAbsence] /\ owed = {}
    /\ changes = 0 /\ faults = 0

(***************************************************************************)
(* A poll: one request to the source per pass, then the mission.           *)
(***************************************************************************)
Request(l) == [layer |-> l, ok |-> TRUE, feats |-> source \cap Matches(l),
               read |-> FALSE, snap |-> {}]

StartPoll ==
    /\ ~polled /\ passes = {}
    /\ polled' = TRUE
    /\ passes' = {Request(l) : l \in LayersNow}
    /\ UNCHANGED <<mode, source, mission, feed, sweep, queue, seen, count>>

\* The source refuses (no features), or answers from a stale or truncated copy.
SourceFails ==
    /\ Fault
    /\ \E p \in passes, feats \in SUBSET Managed, ok \in BOOLEAN :
         /\ ~p.read /\ p.ok
         /\ feats \subseteq Matches(p.layer) /\ (~ok => feats = {})
         /\ passes' = (passes \ {p}) \cup {[p EXCEPT !.feats = feats, !.ok = ok]}
    /\ UNCHANGED <<mode, source, mission, polled, feed, sweep, queue, seen>>

ReadMission(l) ==
    /\ \E p \in passes :
         /\ p.layer = l /\ ~p.read
         /\ passes' = (passes \ {p}) \cup {[p EXCEPT !.read = TRUE, !.snap = mission]}
    /\ UNCHANGED <<mode, source, mission, polled, feed, sweep, queue, seen, count>>

\* No mission in the answer: "existing" is empty.
MissionUnread(l) ==
    /\ Fault
    /\ \E p \in passes :
         /\ p.layer = l /\ ~p.read
         /\ passes' = (passes \ {p}) \cup {[p EXCEPT !.read = TRUE]}
    /\ UNCHANGED <<mode, source, mission, polled, feed, sweep, queue, seen>>

(***************************************************************************)
(* FN_RECONCILE, one run of a function node.                               *)
(***************************************************************************)
Answered(p) == p.ok /\ p.feats # {}   \* otherwise: "skipping deletes"

CleanOrphans == mode # "layers" /\ (mode = "strict" \/ purge)

Candidates(p) ==
    {u \in p.snap \ p.feats : CleanOrphans \/ u \in Matches(p.layer)}

MassClaim(p) ==
    /\ Cardinality(Candidates(p)) > MagFloor
    /\ 4 * Cardinality(Candidates(p)) > Cardinality(p.snap)     \* MAG_FRACTION

NeedAbsent(p) == IF MassClaim(p) THEN MassAbsence ELSE MinAbsence

Missed(p) == [u \in Uids |-> IF u \in Candidates(p) /\ misses[u] = None THEN 0 ELSE misses[u]]

Ripe(p) ==
    IF Answered(p) THEN {u \in Candidates(p) : purge \/ Missed(p)[u] >= NeedAbsent(p)} ELSE {}

Existing_AsRead(p, due) == p.snap   \* mutant: what this pass deletes still counts as live
Existing(p, due) == p.snap \ due

\* A good poll ends a streak, and so does leaving the mission.
Streaks_NeverReset(p, due) ==   \* mutant: a UID the source returns keeps its streak
    IF ~Answered(p) THEN misses
    ELSE [u \in Uids |-> IF u \in p.snap \ due THEN Missed(p)[u] ELSE None]

Streaks(p, due) ==
    IF ~Answered(p) THEN misses
    ELSE [u \in Uids |-> IF u \in p.feats \/ u \notin Existing(p, due)
                         THEN None ELSE Missed(p)[u]]

Tombstones(due) == [u \in Uids |-> IF u \in due THEN 0 ELSE tombs[u]]

\* Tombstones the sweep keeps: not expired, and of no shape that came back.
Kept(p, due) ==
    {u \in Uids : /\ Tombstones(due)[u] \in 0 .. TombTTL
                  /\ u \notin p.feats /\ u \notin Existing(p, due)}

Sendable(p, due) == {u \in Kept(p, due) : sends[u] < TombMaxSends}

\* _tombSends outlives a second DELETE of the UID: what devices were told counts.
NowOwed(p, due) == (owed \cup {u \in due : sends[u] = 0}) \ (p.feats \cup (p.snap \ due))

Sweep(p, due) ==
    IF swept
    THEN /\ tombs' = Tombstones(due) /\ owed' = NowOwed(p, due)
         /\ UNCHANGED <<sends, swept>>
    ELSE \E sent \in Oldest(Sendable(p, due), Tombstones(due), TombMaxPerSweep) :
           /\ tombs' = [u \in Uids |-> IF u \in Kept(p, due) THEN Tombstones(due)[u] ELSE None]
           /\ sends' = [u \in Uids |-> IF u \in sent THEN sends[u] + 1
                                       ELSE IF u \in Kept(p, due) \/ Tombstones(due)[u] = None
                                       THEN sends[u] ELSE 0]
           /\ swept' = (sent # {})
           /\ owed' = NowOwed(p, due) \ sent

Deletes_AllOrNone(p) ==   \* mutant: a pass with more to delete than the cap deletes nothing
    {IF Cardinality(Ripe(p)) <= DelMax THEN Ripe(p) ELSE {}}

Deletes(p) == Oldest(Ripe(p), Missed(p), DelMax)

Reconcile(l) ==
    /\ \E p \in passes :
         /\ p.layer = l /\ p.read
         /\ passes' = passes \ {p}
         /\ wait' = IF p.feats \subseteq p.snap THEN wait
                    ELSE [wait EXCEPT ![l] = p.feats \ p.snap]
         /\ seen' = IF p.ok THEN [u \in Uids |-> IF u \in p.feats THEN 0 ELSE seen[u]] ELSE seen
         /\ \E due \in Deletes(p) :
              /\ misses' = Streaks(p, due)
              /\ delq' = delq \cup due
              /\ purge' = (purge /\ ~(Answered(p) /\ due = Ripe(p)))
              /\ Sweep(p, due)
    /\ UNCHANGED <<mode, source, mission, polled, put, count>>

(***************************************************************************)
(* What the passes send, carried out.                                      *)
(***************************************************************************)
\* build_put: a newer delta supersedes the chain that is still running.
StartChain(l) ==
    /\ wait[l] # {}
    /\ put' = [put EXCEPT ![l] = wait[l]] /\ wait' = [wait EXCEPT ![l] = {}]
    /\ UNCHANGED <<mode, source, mission, passes, polled, feed, sweep, delq, seen, count>>

PutUid(l) ==
    /\ \E u \in put[l] : /\ mission' = mission \cup {u}
                         /\ put' = [put EXCEPT ![l] = @ \ {u}]
    /\ UNCHANGED <<mode, source, passes, polled, feed, sweep, wait, delq, seen, count>>

PutFails(l) ==
    /\ Fault
    /\ \E u \in put[l] : put' = [put EXCEPT ![l] = @ \ {u}]
    /\ UNCHANGED <<mode, source, mission, passes, polled, feed, sweep, wait, delq, seen>>

DeleteUid ==
    /\ \E u \in delq : delq' = delq \ {u} /\ mission' = mission \ {u}
    /\ UNCHANGED <<mode, source, passes, polled, feed, sweep, wait, put, seen, count>>

DeleteFails ==
    /\ Fault
    /\ \E u \in delq : delq' = delq \ {u}
    /\ UNCHANGED <<mode, source, mission, passes, polled, feed, sweep, wait, put, seen>>

(***************************************************************************)
(* The clock, the operator, the source, and Node-RED restarting: the flow  *)
(* context is on disk (contextStorage: localfilesystem), messages are not. *)
(***************************************************************************)
OnTime == polled /\ passes = {} /\ \A l \in LayersNow : wait[l] = {}

Tick ==
    /\ IF OnTime THEN UNCHANGED count ELSE Fault
    /\ polled' = FALSE /\ swept' = FALSE
    /\ misses' = Age(misses, MassAbsence) /\ seen' = Age(seen, MassAbsence)
    /\ tombs' = Age(tombs, TombTTL + 1)
    /\ UNCHANGED <<mode, source, mission, passes, purge, sends, owed, queue>>

QueuePurge ==
    /\ changes < MaxChanges /\ changes' = changes + 1
    /\ purge' = TRUE /\ polled' = FALSE
    /\ UNCHANGED <<mode, source, mission, passes, misses, sweep, queue, seen, faults>>

ChangeSource ==
    /\ changes < MaxChanges /\ changes' = changes + 1
    /\ \E u \in Managed : source' = (source \ {u}) \cup ({u} \ source)
    /\ UNCHANGED <<mode, mission, passes, polled, feed, sweep, queue, seen, faults>>

Restart ==
    /\ Fault
    /\ passes' = {} /\ delq' = {}
    /\ wait' = [l \in DOMAIN wait |-> {}] /\ put' = wait'
    /\ UNCHANGED <<mode, source, mission, polled, feed, sweep, seen>>

Next ==
    \/ StartPoll \/ SourceFails \/ DeleteUid \/ DeleteFails
    \/ \E l \in Layers \cup {Whole} :
         \/ ReadMission(l) \/ MissionUnread(l) \/ Reconcile(l)
         \/ StartChain(l) \/ PutUid(l) \/ PutFails(l)
    \/ Tick \/ QueuePurge \/ ChangeSource \/ Restart

Spec == Init /\ [][Next]_vars

(* Fairness: the timer of the inject node, the answers or time-outs of the *)
(* HTTP requests, and the queues of the delay nodes, which drop nothing.   *)
FairSpec ==
    /\ Spec /\ WF_vars(StartPoll) /\ WF_vars(Tick) /\ WF_vars(DeleteUid)
    /\ \A l \in Layers \cup {Whole} :
         /\ WF_vars(ReadMission(l)) /\ WF_vars(Reconcile(l))
         /\ WF_vars(StartChain(l)) /\ WF_vars(PutUid(l))

-----------------------------------------------------------------------------
TypeOK ==
    /\ mode \in Modes /\ source \subseteq Managed /\ mission \subseteq Uids
    /\ passes \subseteq Pass /\ polled \in BOOLEAN
    /\ misses \in [Uids -> None .. MassAbsence] /\ purge \in BOOLEAN
    /\ tombs \in [Uids -> None .. TombTTL + 1] /\ swept \in BOOLEAN
    /\ sends \in [Uids -> 0 .. TombMaxSends]
    /\ wait \in [Layers \cup {Whole} -> SUBSET Managed]
    /\ put \in [Layers \cup {Whole} -> SUBSET Managed] /\ delq \subseteq Uids
    /\ seen \in [Uids -> 0 .. MassAbsence] /\ owed \subseteq Uids
    /\ {changes, faults} \subseteq Nat

\* No DELETE for a blip (build-flows.js, W2 and W4): a shape is deleted only when no answer
\* of the source has held it for MinAbsence, and for MassAbsence when the pass claims that
\* much of the mission is gone, whatever polls failed, were late or were lost in between.
NoHastyDelete ==
    [][\A p \in passes \ passes' : \A u \in delq' \ delq :
         purge \/ seen[u] >= (IF MassClaim(p) THEN MassAbsence ELSE MinAbsence)]_vars

\* A shape that was deleted keeps a live tombstone until its ForceDelete is broadcast or
\* the shape is seen again: not even the sweep of the pass that deletes it may drop it.
GhostsKept ==
    \A u \in owed : tombs[u] \in 0 .. TombTTL /\ sends[u] < TombMaxSends

\* Whatever was lost on the way, the mission ends up holding what the source has; a source
\* (or layer) that has nothing is not believed, and in strict mode nothing else stays.
Converges ==
    <>[](\A l \in LayersNow :
           LET has == source \cap Matches(l) IN
           has # {} => mission \cap (IF mode = "strict" THEN Uids ELSE Matches(l)) = has)

\* The comment on the magnitude guard, "a feed that genuinely empties out is cleaned up".
EmptiesOut == <>[](source = {} => mission \cap Managed = {})
=============================================================================
