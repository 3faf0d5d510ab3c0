---------------------------- MODULE SettingsStore ----------------------------
(***************************************************************************)
(* settings.json of the console (app.py): _load_json_cached, save_settings *)
(* with its lock, its never-drop guard and its atomic write, and the heal  *)
(* at boot.  Request threads and background jobs load the file, change     *)
(* their dict and save it; only the save takes the lock.                   *)
(*                                                                         *)
(* A content is the set of its keys and a version; "id" stands for the     *)
(* keys of CORE_SETTINGS_KEYS together: it is there when all of them are.  *)
(***************************************************************************)
EXTENDS Integers

CONSTANTS
    Jobs,           \* threads
    Keys,           \* settings that are not core keys
    SameStamp,      \* may a save leave the (mtime, size) of the file as it was?
    MaxSaves, MaxFaults     \* bounds

ASSUME SettingsAssumption ==
    /\ "id" \notin Keys /\ "free" \notin Jobs /\ SameStamp \in BOOLEAN
    /\ {MaxSaves, MaxFaults} \subseteq Nat

VARIABLES
    disk,       \* keys of the file
    ver,        \* its version: the number of saves
    stamp,      \* (st_mtime_ns, st_size)
    cache,      \* the entry of _json_file_cache
    lock,       \* _settings_write_lock: its holder, or "free"
    pc,         \* per job, where it stands
    key,        \* ... the stamp its load took
    dict, base, \* ... its dict, and the version it was read from
    torn,       \* ... its load could not read the file and gave {}
    heal,       \* ... it is _heal_settings_core_keys
    blind,      \* ... its guard could not read the file
    floor,      \* history: version of the file when the load began
    want,       \* history: the dict the job asked to save
    healed, faults

file  == <<disk, ver, stamp>>
flags == <<torn, heal, blind>>
local == <<key, dict, base, flags, floor, want>>
vars  == <<file, cache, lock, pc, local, healed, faults>>

AllKeys == Keys \cup {"id"}
NoCache == [key |-> -1, keys |-> {}, ver |-> 0]
Cached  == [key : Int, keys : SUBSET AllKeys, ver : Nat]

Step(j, here, there) == pc[j] = here /\ pc' = [pc EXCEPT ![j] = there]

Cleared(f, J, v) == [j \in Jobs |-> IF j \in J THEN v ELSE f[j]]
Forget(J) ==
    /\ key' = Cleared(key, J, 0) /\ base' = Cleared(base, J, 0) /\ floor' = Cleared(floor, J, 0)
    /\ dict' = Cleared(dict, J, {}) /\ want' = Cleared(want, J, {})
    /\ torn' = Cleared(torn, J, FALSE) /\ heal' = Cleared(heal, J, FALSE)
    /\ blind' = Cleared(blind, J, FALSE)

Return(j, here) == Step(j, here, "idle") /\ Forget({j})
Fault == faults < MaxFaults /\ faults' = faults + 1

Init ==
    /\ disk \in {AllKeys, {"id"}} /\ ver = 0 /\ stamp = 0 /\ cache = NoCache /\ lock = "free"
    /\ pc = [j \in Jobs |-> "idle"]
    /\ key = [j \in Jobs |-> 0] /\ base = key /\ floor = key
    /\ dict = [j \in Jobs |-> {}] /\ want = dict
    /\ torn = [j \in Jobs |-> FALSE] /\ heal = torn /\ blind = torn
    /\ healed = FALSE /\ faults = 0

(***************************************************************************)
(* load_settings: one stat, then the cache or the file.                    *)
(***************************************************************************)
\* The heal runs once per boot.
LoadStat(j) ==
    /\ Step(j, "idle", "stat")
    /\ \E h \in BOOLEAN :
         /\ h => ~healed
         /\ healed' = (healed \/ h)
         /\ key' = [key EXCEPT ![j] = stamp]
         /\ floor' = [floor EXCEPT ![j] = ver]
         /\ heal' = [heal EXCEPT ![j] = h]
    /\ UNCHANGED <<file, cache, lock, dict, base, torn, blind, want, faults>>

LoadHit(j) ==
    /\ cache.key = key[j]
    /\ Step(j, "stat", "loaded")
    /\ dict' = [dict EXCEPT ![j] = cache.keys] /\ base' = [base EXCEPT ![j] = cache.ver]
    /\ UNCHANGED <<file, cache, lock, key, flags, floor, want, healed, faults>>

LoadRead(j) ==
    /\ cache.key # key[j]
    /\ Step(j, "stat", "read")
    /\ dict' = [dict EXCEPT ![j] = disk] /\ base' = [base EXCEPT ![j] = ver]
    /\ UNCHANGED <<file, cache, lock, key, flags, floor, want, healed, faults>>

LoadPublish_LateKey(j) ==   \* mutant: the stamp is taken after the read
    /\ Step(j, "read", "loaded")
    /\ cache' = [key |-> stamp, keys |-> dict[j], ver |-> base[j]]
    /\ UNCHANGED <<file, lock, local, healed, faults>>

LoadPublish(j) ==
    /\ Step(j, "read", "loaded")
    /\ cache' = [key |-> key[j], keys |-> dict[j], ver |-> base[j]]
    /\ UNCHANGED <<file, lock, local, healed, faults>>

\* OSError at the stat, the open or the read: {}.
LoadFails(j) ==
    /\ Fault
    /\ Step(j, "stat", "loaded")
    /\ torn' = [torn EXCEPT ![j] = TRUE]
    /\ UNCHANGED <<file, cache, lock, key, dict, base, heal, blind, floor, want, healed>>

(***************************************************************************)
(* What a job does with its dict.                                          *)
(***************************************************************************)
Change(j, s) ==
    /\ Step(j, "loaded", "dirty")
    /\ dict' = [dict EXCEPT ![j] = s] /\ want' = [want EXCEPT ![j] = s]
    /\ UNCHANGED <<file, cache, lock, key, base, flags, floor, healed, faults>>

Modify(j) ==
    /\ ~heal[j]
    /\ \E k \in Keys : Change(j, dict[j] \cup {k}) \/ Change(j, dict[j] \ {k})

\* The heal derives what core keys it can, all or not all, and puts a stale os_name or
\* os_type right.
HealCore(j) ==
    /\ heal[j]
    /\ \E s \in {{}, {"id"}} : Change(j, dict[j] \cup s)

\* A job that changes nothing, and a heal that finds nothing to put right.
OnlyReads(j) ==
    /\ Return(j, "loaded")
    /\ UNCHANGED <<file, cache, lock, healed, faults>>

(***************************************************************************)
(* save_settings.                                                          *)
(***************************************************************************)
TakeLock_AlwaysRefill(j) ==   \* mutant: the guard refills the dict of every caller
    /\ ver < MaxSaves /\ lock = "free" /\ lock' = j
    /\ Step(j, "dirty", "guard")
    /\ UNCHANGED <<file, cache, local, healed, faults>>

TakeLock(j) ==
    /\ ver < MaxSaves /\ lock = "free" /\ lock' = j
    /\ Step(j, "dirty", IF "id" \in dict[j] THEN "write" ELSE "guard")
    /\ UNCHANGED <<file, cache, local, healed, faults>>

Refilled_Nothing(j) == dict[j]   \* mutant: no guard
Refilled_CoreOnly(j) == dict[j] \cup (disk \cap {"id"})   \* mutant: before v10.1.8
Refilled(j) == dict[j] \cup disk

GuardRefill(j) ==
    /\ Step(j, "guard", "write")
    /\ dict' = [dict EXCEPT ![j] = Refilled(j)]
    /\ UNCHANGED <<file, cache, lock, key, base, flags, floor, want, healed, faults>>

GuardBlind(j) ==
    /\ Fault
    /\ Step(j, "guard", "write")
    /\ blind' = [blind EXCEPT ![j] = TRUE]
    /\ UNCHANGED <<file, cache, lock, key, dict, base, torn, heal, floor, want, healed>>

\* os.replace: a reader has the old file or the new one.
Replace(j) ==
    /\ Return(j, "write")
    /\ disk' = dict[j] /\ ver' = ver + 1 /\ lock' = "free"
    /\ stamp' \in {stamp + 1} \cup (IF SameStamp THEN {stamp} ELSE {})
    /\ UNCHANGED <<cache, healed, faults>>

\* A full disk, say: the temporary file is unlinked and the exception goes to the caller.
SaveFails(j) ==
    /\ Fault
    /\ Return(j, "write") /\ lock' = "free"
    /\ UNCHANGED <<file, cache, healed>>

\* The console dies, wherever its threads are, and boots again.
Crash ==
    /\ Fault
    /\ pc' = [j \in Jobs |-> "idle"] /\ Forget(Jobs)
    /\ lock' = "free" /\ cache' = NoCache /\ healed' = FALSE
    /\ UNCHANGED file

Next ==
    \/ \E j \in Jobs :
         \/ LoadStat(j) \/ LoadHit(j) \/ LoadRead(j) \/ LoadPublish(j) \/ LoadFails(j)
         \/ Modify(j) \/ HealCore(j) \/ OnlyReads(j)
         \/ TakeLock(j) \/ GuardRefill(j) \/ GuardBlind(j) \/ Replace(j) \/ SaveFails(j)
    \/ Crash

Spec == Init /\ [][Next]_vars

-----------------------------------------------------------------------------
Places == {"idle", "stat", "read", "loaded", "dirty", "guard", "write"}

TypeOK ==
    /\ disk \subseteq AllKeys /\ ver \in Nat /\ stamp \in Nat /\ cache \in Cached
    /\ lock \in Jobs \cup {"free"} /\ pc \in [Jobs -> Places] /\ key \in [Jobs -> Nat]
    /\ dict \in [Jobs -> SUBSET AllKeys] /\ want \in [Jobs -> SUBSET AllKeys]
    /\ base \in [Jobs -> Nat] /\ floor \in [Jobs -> Nat]
    /\ torn \in [Jobs -> BOOLEAN] /\ heal \in [Jobs -> BOOLEAN] /\ blind \in [Jobs -> BOOLEAN]
    /\ healed \in BOOLEAN /\ faults \in 0 .. MaxFaults

Saves(j) == pc[j] = "write" /\ ver' # ver /\ pc'[j] = "idle"

\* The box keeps its identity: once the core keys are in the file no save drops them,
\* however its dict was loaded, unless the guard itself could not read the file.
CoreKept ==
    [][\A j \in Jobs : Saves(j) /\ ~blind[j] /\ "id" \in disk => "id" \in disk']_vars

\* The incident of 2026-07-22: what a job saves from a load that failed drops no key of
\* the file, core or not.  (The heal is left out: see TornSaveKeepsAll.)
TornSaveKeepsRest ==
    [][\A j \in Jobs : Saves(j) /\ torn[j] /\ ~blind[j] /\ ~heal[j]
                        => disk \subseteq disk']_vars

\* A job that loaded the file that is still there saves its dict as it is: the guard
\* brings back no key that the job removed.
DeletesHonoured ==
    [][\A j \in Jobs : Saves(j) /\ "id" \in want[j] /\ base[j] = ver
                        => disk' = want[j]]_vars

\* The cache never serves a file older than the one the load found.
ReadsCurrent ==
    \A j \in Jobs : pc[j] = "loaded" /\ ~torn[j] => base[j] >= floor[j]

\* What "a missing core key is the torn-read signature" says: the guard catches every save
\* of a dict that was not loaded.  The heal fills in the core keys before it saves.
TornSaveKeepsAll ==
    [][\A j \in Jobs : Saves(j) /\ torn[j] /\ ~blind[j]
                        => disk \subseteq disk']_vars

\* What "callers can safely read-modify-write" says: no save undoes another one.
NoLostUpdate ==
    [][\A j \in Jobs : Saves(j) /\ ~torn[j] => base[j] = ver]_vars
=============================================================================
