----------------------------- MODULE DumpRestore -----------------------------
(***************************************************************************)
(* Database dumps and restores by the privileged broker                    *)
(* (broker/takwerx_broker.py): pg_dump, stack_pg_dump, pg_restore and      *)
(* stack_pg_restore.  A dump streams into its archive, then signs it with  *)
(* a key that is created on first use; a restore feeds an archive to       *)
(* pg_restore only if its signature verifies.  Nothing is locked, so the   *)
(* file operations of concurrent requests interleave, on the archives and  *)
(* on the key file alike.                                                  *)
(*                                                                         *)
(* Files are inodes.  An inode is named by the request that created it; a  *)
(* key, by the request that drew it.                                       *)
(***************************************************************************)
EXTENDS Naturals

CONSTANTS
    Dumps, Restores,  \* the requests
    Paths, PathOf,    \* the archives, and the one each request names
    OldKey,           \* the key of an earlier dump, if there is one
    CanPersist,       \* can the key file be written?
    MaxKills,         \* bound on the kills of the daemon
    NoFile            \* no such file

Requests == Dumps \cup Restores
Keys     == Requests \cup {OldKey}
Owners   == Requests \cup {OldKey}   \* inodes of the key files, by creator

Signatures == [by : Keys, of : SUBSET Dumps]   \* the key, and the bytes signed

ASSUME DumpAssumption ==
    /\ Dumps \cap Restores = {} /\ OldKey \notin Requests
    /\ NoFile \notin Keys
    /\ (\A s \in Signatures : s # NoFile) /\ \A D \in SUBSET Dumps : D # NoFile
    /\ PathOf \in [Requests -> Paths]
    /\ CanPersist \in BOOLEAN /\ MaxKills \in Nat

VARIABLES
    pc,         \* where each request stands
    key,        \* key[q]: what _dump_hmac_key returned to q
    fd,         \* fd[q]: the inode q has open for the key file it writes
    keyFile,    \* inode at dump.key
    tmpFile,    \* inode at dump.key.tmp
    keyData,    \* contents of the key inodes: a key, or NoFile for none
    file,       \* file[p]: inode of archive p, named by the dump that created it
    out,        \* out[d]: the archive inode dump d writes
    writers,    \* writers[i]: the dumps whose bytes archive inode i holds
    active,     \* active[i]: those that have not finished it
    sidecar,    \* sidecar[p]: the signature <path>.hmac, or NoFile
    want,       \* want[r]: the signature restore r read
    restored,   \* restored[r]: the archive contents pg_restore was fed
    shared,     \* history: requests met by another one for their archive
    twoKeys,    \* history: a key was drawn that may not be the key of the file
    kills

keyVars == <<key, fd, keyFile, tmpFile, keyData, twoKeys>>
arcVars == <<file, out, writers, active>>
sigVars == <<sidecar, want, restored>>
dumpVars == <<pc, keyVars, arcVars, sigVars, shared, kills>>

Ended   == {"failed", "done", "denied", "restored", "dead"}
Running == {q \in Requests : pc[q] \notin Ended \cup {"idle"}}

\* The bytes of an archive: those of the dumps in a set, or NoFile while some dump
\* still has to finish, which no later reading repeats.
Bytes(i) == IF i = NoFile \/ active[i] # {} THEN NoFile ELSE writers[i]

DumpInit ==
    /\ pc = [q \in Requests |-> "idle"]
    /\ key = [q \in Requests |-> NoFile] /\ fd = [q \in Requests |-> NoFile]
    /\ keyFile \in {NoFile, OldKey} /\ tmpFile = NoFile
    /\ keyData = [o \in Owners |-> IF o = OldKey THEN OldKey ELSE NoFile]
    /\ file = [p \in Paths |-> NoFile] /\ out = [d \in Dumps |-> NoFile]
    /\ writers = [d \in Dumps |-> {}] /\ active = [d \in Dumps |-> {}]
    /\ sidecar = [p \in Paths |-> NoFile]
    /\ want = [r \in Restores |-> NoFile] /\ restored = [r \in Restores |-> NoFile]
    /\ shared = {} /\ twoKeys = FALSE /\ kills = 0

At(q, here, there) == pc[q] = here /\ pc' = [pc EXCEPT ![q] = there]

\* Nothing keeps requests for one archive apart; those that meet there are recorded.
Meet(q) == LET here == {o \in Running : PathOf[o] = PathOf[q]} IN
           shared' = IF here = {} THEN shared ELSE shared \cup here \cup {q}

(***************************************************************************)
(* _dump_hmac_key: read the key file, or create it.                        *)
(***************************************************************************)
HaveKey == keyFile \in {o \in Owners : keyData[o] # NoFile}

KeyRead(q) ==
    /\ At(q, "key", "hash")
    /\ HaveKey
    /\ key' = [key EXCEPT ![q] = keyData[keyFile]]
    /\ UNCHANGED <<fd, keyFile, tmpFile, keyData, twoKeys, arcVars, sigVars, shared, kills>>

KeyDraw_Unset(q) ==   \* mutant: a fresh key is stored, the short one returned
    /\ At(q, "key", IF CanPersist THEN "open" ELSE "hash")
    /\ ~HaveKey
    /\ UNCHANGED <<keyVars, arcVars, sigVars, shared, kills>>

Making == {"open", "write", "replace"}   \* a key is drawn, and not yet the key of the file

\* No key of full length: draw one, and persist it if that can be done.
KeyDraw(q) ==
    /\ At(q, "key", IF CanPersist THEN "open" ELSE "hash")
    /\ ~HaveKey
    /\ key' = [key EXCEPT ![q] = q]
    /\ twoKeys' = (twoKeys \/ ~CanPersist \/ \E o \in Requests : pc[o] \in Making)
    /\ UNCHANGED <<fd, keyFile, tmpFile, keyData, arcVars, sigVars, shared, kills>>

\* O_CREAT | O_TRUNC: an existing temporary file is shared, and emptied.
KeyOpen(q) ==
    /\ At(q, "open", "write")
    /\ tmpFile' = IF tmpFile = NoFile THEN q ELSE tmpFile
    /\ fd' = [fd EXCEPT ![q] = tmpFile']
    /\ keyData' = [keyData EXCEPT ![tmpFile'] = NoFile]
    /\ UNCHANGED <<key, keyFile, twoKeys, arcVars, sigVars, shared, kills>>

KeyWrite(q) ==
    /\ At(q, "write", "replace")
    /\ keyData' = [keyData EXCEPT ![fd[q]] = key[q]]
    /\ UNCHANGED <<key, fd, keyFile, tmpFile, twoKeys, arcVars, sigVars, shared, kills>>

KeyReplace_Never(q) ==   \* mutant: the key stays in the temporary file
    /\ At(q, "replace", "hash")
    /\ UNCHANGED <<keyVars, arcVars, sigVars, shared, kills>>

\* os.replace; when another request has moved the temporary file, its error is ignored.
KeyReplace(q) ==
    /\ At(q, "replace", "hash")
    /\ IF tmpFile # NoFile THEN keyFile' = tmpFile /\ tmpFile' = NoFile
                           ELSE UNCHANGED <<keyFile, tmpFile>>
    /\ UNCHANGED <<key, fd, keyData, twoKeys, arcVars, sigVars, shared, kills>>

KeyStep(q) == KeyRead(q) \/ KeyDraw(q) \/ KeyOpen(q) \/ KeyWrite(q) \/ KeyReplace(q)

(***************************************************************************)
(* _dump_to_file.                                                          *)
(***************************************************************************)
\* O_CREAT | O_TRUNC on the archive: a dump still writing to it goes on doing so.
DumpOpen(d) ==
    LET p == PathOf[d]
        i == IF file[p] = NoFile THEN d ELSE file[p] IN
    /\ Meet(d) /\ At(d, "idle", "dumping")
    /\ file' = [file EXCEPT ![p] = i] /\ out' = [out EXCEPT ![d] = i]
    /\ writers' = [writers EXCEPT ![i] = (active[i] \cap Running) \cup {d}]
    /\ active' = [active EXCEPT ![i] = (@ \cap Running) \cup {d}]
    /\ UNCHANGED <<keyVars, sigVars, kills>>

DumpFinish(d) ==
    /\ At(d, "dumping", "dumped")
    /\ active' = [active EXCEPT ![out[d]] = @ \ {d}]
    /\ UNCHANGED <<keyVars, file, out, writers, sigVars, shared, kills>>

\* A non-zero return code, or the timeout: whatever is at the path is unlinked.
DumpFail(d) ==
    /\ At(d, "dumping", "failed")
    /\ active' = [active EXCEPT ![out[d]] = @ \ {d}]
    /\ file' = [file EXCEPT ![PathOf[d]] = NoFile]
    /\ UNCHANGED <<keyVars, out, writers, sigVars, shared, kills>>

\* The sidecar is truncated before the archive is hashed.
SidecarOpen(d) ==
    /\ At(d, "dumped", "key")
    /\ sidecar' = [sidecar EXCEPT ![PathOf[d]] = NoFile]
    /\ UNCHANGED <<keyVars, arcVars, want, restored, shared, kills>>

\* _dump_hmac: nothing verifies against the signature of a moving archive.
Sign(q) == LET b == Bytes(file[PathOf[q]]) IN
           IF b = NoFile THEN NoFile ELSE [by |-> key[q], of |-> b]

\* Hash and sign what is at the path now.  Without a file there the dump ends in error.
SidecarWrite(d) ==
    LET p == PathOf[d] IN
    /\ At(d, "hash", IF file[p] = NoFile THEN "failed" ELSE "done")
    /\ sidecar' = IF file[p] = NoFile THEN sidecar ELSE [sidecar EXCEPT ![p] = Sign(d)]
    /\ UNCHANGED <<keyVars, arcVars, want, restored, shared, kills>>

Dump(d) == DumpOpen(d) \/ DumpFinish(d) \/ DumpFail(d) \/ SidecarOpen(d) \/ SidecarWrite(d)

(***************************************************************************)
(* _do_pg_restore and _do_stack_pg_restore.                                *)
(***************************************************************************)
RestoreStart(r) ==
    LET p == PathOf[r] IN
    /\ Meet(r)
    /\ At(r, "idle", IF file[p] = NoFile \/ sidecar[p] = NoFile THEN "denied" ELSE "key")
    /\ want' = [want EXCEPT ![r] = sidecar[p]]
    /\ UNCHANGED <<keyVars, arcVars, sidecar, restored, kills>>

Verifies_KeyOnly(r) ==   \* mutant: any signature with the key will do
    want[r].by = key[r]

Verifies(r) == Sign(r) # NoFile /\ want[r] = Sign(r)

RestoreVerify(r) ==
    /\ At(r, "hash", IF Verifies(r) THEN "verified" ELSE "denied")
    /\ UNCHANGED <<keyVars, arcVars, sigVars, shared, kills>>

\* The archive is opened again, and fed to pg_restore.
RestoreFeed(r) ==
    /\ At(r, "verified", IF file[PathOf[r]] = NoFile THEN "failed" ELSE "restored")
    /\ restored' = [restored EXCEPT ![r] = Bytes(file[PathOf[r]])]
    /\ UNCHANGED <<keyVars, arcVars, sidecar, want, shared, kills>>

Restore(r) == RestoreStart(r) \/ RestoreVerify(r) \/ RestoreFeed(r)

\* A dump cut short here never finishes its archive.
Kill == /\ kills < MaxKills /\ Running # {}
        /\ pc' = [q \in Requests |-> IF q \in Running THEN "dead" ELSE pc[q]]
        /\ kills' = kills + 1
        /\ UNCHANGED <<keyVars, arcVars, sigVars, shared>>

DumpNext ==
    \/ \E d \in Dumps : Dump(d)
    \/ \E r \in Restores : Restore(r)
    \/ \E q \in Requests : KeyStep(q)
    \/ Kill

DumpSpec == DumpInit /\ [][DumpNext]_dumpVars

-----------------------------------------------------------------------------
DumpTypeOK ==
    /\ pc \in [Requests -> Ended \cup {"idle", "dumping", "dumped", "key", "open", "write",
                                       "replace", "hash", "verified"}]
    /\ key \in [Requests -> Keys \cup {NoFile}]
    /\ \A q \in Requests : pc[q] \in {"open", "write", "replace", "hash", "verified"}
                          => key[q] # NoFile
    /\ fd \in [Requests -> Owners \cup {NoFile}]
    /\ keyFile \in Owners \cup {NoFile} /\ tmpFile \in Owners \cup {NoFile}
    /\ keyData \in [Owners -> Keys \cup {NoFile}]
    /\ file \in [Paths -> Dumps \cup {NoFile}] /\ out \in [Dumps -> Dumps \cup {NoFile}]
    /\ writers \in [Dumps -> SUBSET Dumps] /\ active \in [Dumps -> SUBSET Dumps]
    /\ sidecar \in [Paths -> Signatures \cup {NoFile}]
    /\ want \in [Restores -> Signatures \cup {NoFile}]
    /\ restored \in [Restores -> {NoFile} \cup SUBSET Dumps]
    /\ shared \subseteq Requests /\ twoKeys \in BOOLEAN /\ kills \in 0..MaxKills

\* A restore that met no other request for its archive is fed a finished archive, the
\* output of one dump, or of dumps that had met each other while they wrote: what a kill,
\* a failure or a later dump leaves at the path does not pass for it.  Dumps and restores
\* that meet are not kept apart (DumpDocOverlap).
RestoresOneWholeDump ==
    \A r \in Restores \ shared :
      pc[r] = "restored" => /\ restored[r] # NoFile
                            /\ restored[r] \subseteq shared \/ \E d \in Dumps : restored[r] = {d}

\* A dump that reported success and is still what lies at its path, signature included,
\* is never refused as "not a broker-produced" archive, whatever other requests make the
\* key or end in the middle of that: unless requests met at the archive, or a key was drawn
\* that may never be the key of the file (DumpDocKeyRace).
OwnDumpsVerify ==
    [][\A r \in Restores :
         pc[r] = "hash" /\ pc'[r] = "denied" /\ r \notin shared
         => \A d \in Dumps \ shared :
              pc[d] = "done" /\ PathOf[d] = PathOf[r] /\ Bytes(file[PathOf[d]]) = {d}
              => sidecar[PathOf[d]] = NoFile \/ twoKeys]_dumpVars

\* What the comments of the code say without these exceptions.
RestoresOnlyWholeDumps ==
    \A r \in Restores : pc[r] = "restored" => \E d \in Dumps : restored[r] = {d}

OwnDumpsAlwaysVerify ==
    [][\A r \in Restores :
         pc[r] = "hash" /\ pc'[r] = "denied" /\ r \notin shared
         => \A d \in Dumps \ shared :
              pc[d] = "done" /\ PathOf[d] = PathOf[r] /\ Bytes(file[PathOf[d]]) = {d}
              => sidecar[PathOf[d]] = NoFile]_dumpVars
=============================================================================
