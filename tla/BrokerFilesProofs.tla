-------------------------- MODULE BrokerFilesProofs --------------------------
(***************************************************************************)
(* What the broker keeps in files, for every value of the constants: the   *)
(* archives it dumps and restores, the key that signs them, and the log    *)
(* that decides whether it enforces.                                       *)
(*                                                                         *)
(* DumpRestore: type correctness; and, of requests that met no other one   *)
(* at their archive, that a restore is fed one whole dump and that a       *)
(* finished dump verifies.  Both are about what such a request may rely on *)
(* while it works: nobody else moves at its archive (Alone), the archive   *)
(* is its own (Apart, OneWriter), the signature stays (WantIsCurrent), and *)
(* the key it signs with is the key of the file (KeyInv).                  *)
(*                                                                         *)
(* BrokerEnforce: type correctness, and the three properties of the step   *)
(* from permissive to enforcing, each from a one-line invariant about what *)
(* the files still say.                                                    *)
(***************************************************************************)
EXTENDS BrokerEnforce, DumpRestore, TLAPS

(***************************************************************************)
(* Dumps and restores: types.                                              *)
(***************************************************************************)
Places == Ended \cup {"idle", "dumping", "dumped", "key", "open", "write", "replace", "hash",
                      "verified"}

LEMMA AtMoves ==
    ASSUME pc \in [Requests -> Places], NEW q \in Requests, NEW here, NEW there \in Places,
           At(q, here, there)
    PROVE  /\ pc[q] = here /\ pc'[q] = there /\ pc' \in [Requests -> Places]
           /\ \A o \in Requests : o # q => pc'[o] = pc[o]
BY DEF At

LEMMA DumpTypeInit == DumpInit => DumpTypeOK
<1> SUFFICES ASSUME DumpInit PROVE DumpTypeOK
    OBVIOUS
<1> USE DumpAssumption DEF DumpAssumption, DumpInit, DumpTypeOK
<1>1. pc \in [Requests -> Places] /\ \A q \in Requests : pc[q] = "idle"
    BY DEF Places
<1>2. /\ keyData \in [Owners -> Keys \cup {NoFile}] /\ keyFile \in Owners \cup {NoFile}
      /\ tmpFile \in Owners \cup {NoFile}
    BY DEF Owners, Keys
<1>3. /\ writers \in [Dumps -> SUBSET Dumps] /\ active \in [Dumps -> SUBSET Dumps]
      /\ file \in [Paths -> Dumps \cup {NoFile}] /\ out \in [Dumps -> Dumps \cup {NoFile}]
    OBVIOUS
<1>4. /\ sidecar \in [Paths -> Signatures \cup {NoFile}]
      /\ want \in [Restores -> Signatures \cup {NoFile}]
      /\ restored \in [Restores -> {NoFile} \cup SUBSET Dumps]
    OBVIOUS
<1>5. /\ key \in [Requests -> Keys \cup {NoFile}] /\ fd \in [Requests -> Owners \cup {NoFile}]
      /\ kills \in 0..MaxKills
    OBVIOUS
<1>6. shared \subseteq Requests /\ twoKeys \in BOOLEAN
    OBVIOUS
<1>7. QED
    BY <1>1, <1>2, <1>3, <1>4, <1>5, <1>6 DEF Places

\* Two requests at one archive are recorded, and nobody is taken off the record.
LEMMA Meeting ==
    ASSUME shared \subseteq Requests, NEW q \in Requests, Meet(q)
    PROVE  /\ shared' \subseteq Requests /\ shared \subseteq shared'
           /\ \A o \in Running : PathOf[o] = PathOf[q] => o \in shared' /\ q \in shared'
<1> DEFINE here == {o \in Running : PathOf[o] = PathOf[q]}
<1>1. shared' = IF here = {} THEN shared ELSE shared \cup here \cup {q}
    BY DEF Meet
<1>2. here \subseteq Requests
    BY DEF Running
<1>3. \A o \in Running : PathOf[o] = PathOf[q] => o \in here
    OBVIOUS
<1> HIDE DEF here
<1>4. QED
    BY <1>1, <1>2, <1>3

LEMMA KeyType ==
    ASSUME DumpTypeOK, NEW q \in Requests, KeyStep(q)
    PROVE  DumpTypeOK'
<1> USE DumpAssumption DEF DumpAssumption, DumpTypeOK, keyVars, arcVars, sigVars
<1>1. pc \in [Requests -> Places] /\ Requests \subseteq Keys /\ Requests \subseteq Owners
    BY DEF Places, Keys, Owners
<1>2. CASE KeyRead(q)
    <2>1. keyFile \in Owners /\ keyData[keyFile] \in Keys /\ keyData[keyFile] # NoFile
        BY <1>2 DEF KeyRead, HaveKey
    <2>2. pc' \in [Requests -> Places] /\ pc'[q] = "hash"
          /\ \A o \in Requests : o # q => pc'[o] = pc[o]
        BY <1>1, <1>2, AtMoves DEF KeyRead, Places
    <2>3. key' \in [Requests -> Keys \cup {NoFile}] /\ key'[q] # NoFile
          /\ \A o \in Requests : o # q => key'[o] = key[o]
        BY <1>2, <2>1 DEF KeyRead
    <2>4. QED
        BY <1>2, <2>2, <2>3 DEF KeyRead, Places
<1>3. CASE KeyDraw(q)
    <2>1. pc' \in [Requests -> Places] /\ \A o \in Requests : o # q => pc'[o] = pc[o]
        BY <1>1, <1>3, AtMoves DEF KeyDraw, Places
    <2>2. key' \in [Requests -> Keys \cup {NoFile}] /\ key'[q] # NoFile
          /\ \A o \in Requests : o # q => key'[o] = key[o]
        BY <1>1, <1>3 DEF KeyDraw, Keys
    <2>3. twoKeys' \in BOOLEAN
        BY <1>3, Zenon DEF KeyDraw
    <2>4. QED
        BY <1>3, <2>1, <2>2, <2>3 DEF KeyDraw, Places
<1>4. CASE KeyOpen(q)
    <2>1. tmpFile' \in Owners
        BY <1>1, <1>4 DEF KeyOpen
    <2>2. pc' \in [Requests -> Places] /\ pc[q] = "open"
          /\ \A o \in Requests : o # q => pc'[o] = pc[o]
        BY <1>1, <1>4, AtMoves DEF KeyOpen, Places
    <2>3. fd' \in [Requests -> Owners \cup {NoFile}] /\ keyData' \in [Owners -> Keys \cup {NoFile}]
        BY <1>4, <2>1 DEF KeyOpen
    <2>4. QED
        BY <1>4, <2>1, <2>2, <2>3 DEF KeyOpen, Places
<1>5. CASE KeyWrite(q)
    <2>1. pc' \in [Requests -> Places] /\ pc[q] = "write"
          /\ \A o \in Requests : o # q => pc'[o] = pc[o]
        BY <1>1, <1>5, AtMoves DEF KeyWrite, Places
    <2>2. keyData' \in [Owners -> Keys \cup {NoFile}]
        BY <1>5 DEF KeyWrite
    <2>3. QED
        BY <1>5, <2>1, <2>2 DEF KeyWrite, Places
<1>6. CASE KeyReplace(q)
    <2>1. pc' \in [Requests -> Places] /\ pc[q] = "replace"
          /\ \A o \in Requests : o # q => pc'[o] = pc[o]
        BY <1>1, <1>6, AtMoves DEF KeyReplace, Places
    <2>2. QED
        BY <1>6, <2>1 DEF KeyReplace, Places
<1>7. QED
    BY <1>2, <1>3, <1>4, <1>5, <1>6 DEF KeyStep

\* What _dump_hmac returns: a signature, or what nothing verifies against.
LEMMA SignType ==
    ASSUME DumpTypeOK, NEW q \in Requests, pc[q] = "hash"
    PROVE  Sign(q) \in Signatures \cup {NoFile}
<1> USE DumpAssumption DEF DumpAssumption, DumpTypeOK
<1>1. key[q] \in Keys /\ PathOf[q] \in Paths
    OBVIOUS
<1>2. file[PathOf[q]] # NoFile => writers[file[PathOf[q]]] \in SUBSET Dumps
    BY <1>1
<1>3. QED
    BY <1>1, <1>2 DEF Sign, Bytes, Signatures

LEMMA DumpStepType ==
    ASSUME DumpTypeOK, NEW d \in Dumps, Dump(d)
    PROVE  DumpTypeOK'
<1> USE DumpAssumption DEF DumpAssumption, DumpTypeOK, keyVars, arcVars, sigVars
<1>1. d \in Requests /\ PathOf[d] \in Paths /\ pc \in [Requests -> Places]
    BY DEF Places, Requests
<1>2. CASE DumpOpen(d)
    <2> DEFINE i == IF file[PathOf[d]] = NoFile THEN d ELSE file[PathOf[d]]
    <2>1. i \in Dumps
        BY <1>1
    <2>2. pc' \in [Requests -> Places] /\ pc'[d] = "dumping"
          /\ \A o \in Requests : o # d => pc'[o] = pc[o]
        BY <1>1, <1>2, AtMoves DEF DumpOpen, Places
    <2>3. /\ file' = [file EXCEPT ![PathOf[d]] = i] /\ out' = [out EXCEPT ![d] = i]
          /\ writers' = [writers EXCEPT ![i] = (active[i] \cap Running) \cup {d}]
          /\ active' = [active EXCEPT ![i] = (active[i] \cap Running) \cup {d}]
        BY <1>2, <2>1 DEF DumpOpen
    <2>4. /\ file' \in [Paths -> Dumps \cup {NoFile}] /\ out' \in [Dumps -> Dumps \cup {NoFile}]
        BY <2>1, <2>3
    <2>6. (active[i] \cap Running) \cup {d} \in SUBSET Dumps
        BY <2>1
    <2>7. writers' \in [Dumps -> SUBSET Dumps] /\ active' \in [Dumps -> SUBSET Dumps]
        <3> HIDE DEF i
        <3>1. QED
            BY <2>1, <2>3, <2>6
    <2>8. shared' \subseteq Requests
        BY <1>1, <1>2, Meeting DEF DumpOpen
    <2>5. QED
        BY <1>2, <2>2, <2>4, <2>7, <2>8 DEF DumpOpen, Places
<1>3. CASE DumpFinish(d) \/ DumpFail(d)
    <2>1. pc' \in [Requests -> Places] /\ pc'[d] \in {"dumped", "failed"}
          /\ \A o \in Requests : o # d => pc'[o] = pc[o]
        BY <1>1, <1>3, AtMoves DEF DumpFinish, DumpFail, Places, Ended
    <2>2. active' \in [Dumps -> SUBSET Dumps] /\ file' \in [Paths -> Dumps \cup {NoFile}]
        BY <1>3 DEF DumpFinish, DumpFail
    <2>3. QED
        BY <1>3, <2>1, <2>2 DEF DumpFinish, DumpFail, Places, Ended
<1>4. CASE SidecarOpen(d)
    <2>1. pc' \in [Requests -> Places] /\ pc'[d] = "key"
          /\ \A o \in Requests : o # d => pc'[o] = pc[o]
        BY <1>1, <1>4, AtMoves DEF SidecarOpen, Places
    <2>2. QED
        BY <1>4, <2>1 DEF SidecarOpen, Places
<1>5. CASE SidecarWrite(d)
    <2>1. pc' \in [Requests -> Places] /\ pc'[d] \in {"failed", "done"} /\ pc[d] = "hash"
          /\ \A o \in Requests : o # d => pc'[o] = pc[o]
        BY <1>1, <1>5, AtMoves DEF SidecarWrite, Places, Ended
    <2>2. sidecar' \in [Paths -> Signatures \cup {NoFile}]
        BY <1>1, <1>5, <2>1, SignType DEF SidecarWrite
    <2>3. QED
        BY <1>5, <2>1, <2>2 DEF SidecarWrite, Places, Ended
<1>6. QED
    BY <1>2, <1>3, <1>4, <1>5 DEF Dump

LEMMA RestoreStepType ==
    ASSUME DumpTypeOK, NEW r \in Restores, Restore(r)
    PROVE  DumpTypeOK'
<1> USE DumpAssumption DEF DumpAssumption, DumpTypeOK, keyVars, arcVars, sigVars
<1>1. r \in Requests /\ PathOf[r] \in Paths /\ pc \in [Requests -> Places]
    BY DEF Places, Requests
<1>2. CASE RestoreStart(r)
    <2>1. pc' \in [Requests -> Places] /\ pc'[r] \in {"denied", "key"}
          /\ \A o \in Requests : o # r => pc'[o] = pc[o]
        BY <1>1, <1>2, AtMoves DEF RestoreStart, Places, Ended
    <2>2. want' \in [Restores -> Signatures \cup {NoFile}]
        BY <1>1, <1>2 DEF RestoreStart
    <2>3. shared' \subseteq Requests
        BY <1>1, <1>2, Meeting DEF RestoreStart
    <2>4. QED
        BY <1>2, <2>1, <2>2, <2>3 DEF RestoreStart, Places, Ended
<1>3. CASE RestoreVerify(r)
    <2>1. pc' \in [Requests -> Places] /\ pc[r] = "hash"
          /\ \A o \in Requests : o # r => pc'[o] = pc[o]
        BY <1>1, <1>3, AtMoves DEF RestoreVerify, Places, Ended
    <2>2. QED
        BY <1>3, <2>1 DEF RestoreVerify, Places, Ended
<1>4. CASE RestoreFeed(r)
    <2>1. pc' \in [Requests -> Places] /\ pc'[r] \in {"failed", "restored"}
          /\ \A o \in Requests : o # r => pc'[o] = pc[o]
        BY <1>1, <1>4, AtMoves DEF RestoreFeed, Places, Ended
    <2>2. Bytes(file[PathOf[r]]) \in {NoFile} \cup SUBSET Dumps
        BY <1>1 DEF Bytes
    <2>3. restored' \in [Restores -> {NoFile} \cup SUBSET Dumps]
        BY <1>4, <2>2 DEF RestoreFeed
    <2>4. QED
        BY <1>4, <2>1, <2>3 DEF RestoreFeed, Places, Ended
<1>5. QED
    BY <1>2, <1>3, <1>4 DEF Restore

LEMMA DumpTypeStep == DumpTypeOK /\ [DumpNext]_dumpVars => DumpTypeOK'
<1> SUFFICES ASSUME DumpTypeOK, [DumpNext]_dumpVars PROVE DumpTypeOK'
    OBVIOUS
<1>1. CASE Kill
    BY <1>1, DumpAssumption DEF Kill, DumpTypeOK, DumpAssumption, Running, Ended, keyVars,
       arcVars, sigVars
<1>2. CASE UNCHANGED dumpVars
    BY <1>2 DEF dumpVars, DumpTypeOK, keyVars, arcVars, sigVars
<1>3. QED
    BY <1>1, <1>2, DumpStepType, RestoreStepType, KeyType DEF DumpNext

\* Every file, key and signature keeps its type; a request that may sign has a key.
THEOREM DumpTypeCorrect == DumpSpec => []DumpTypeOK
BY DumpTypeInit, DumpTypeStep, PTL DEF DumpSpec

(***************************************************************************)
(* Requests that met no other one at their archive.                        *)
(***************************************************************************)
\* Where two requests are under way at one archive, both are on the record.
Alone ==
    \A q, o \in Running : PathOf[q] = PathOf[o] /\ q # o => q \in shared /\ o \in shared

\* An archive's inode is named by, and still written by, dumps of that archive only.
Apart ==
    /\ \A p \in Paths : file[p] # NoFile => PathOf[file[p]] = p
    /\ \A i \in Dumps : \A d \in active[i] : PathOf[d] = PathOf[i]

\* The bytes of an archive are those of one dump, or of dumps that had met.
Pure(D) == D \subseteq shared \/ \E d \in Dumps : D = {d}

\* What lies at a path is the output of one dump, whole or not, or of dumps that had met.
OneWriter == \A p \in Paths : file[p] # NoFile => Pure(writers[file[p]])

\* Between the check of an archive and its use, the archive stays there, and finished.
Settled ==
    \A r \in Restores \ shared :
      pc[r] = "verified" => file[PathOf[r]] # NoFile /\ active[file[PathOf[r]]] = {}

DumpInv == DumpTypeOK /\ Alone /\ Apart /\ OneWriter /\ Settled /\ RestoresOneWholeDump

\* What every step but a kill has in common: one request moves, and if it only starts
\* now, whom it meets is recorded.
Moves(q) ==
    /\ pc[q] \notin Ended
    /\ IF pc[q] = "idle" THEN Meet(q) ELSE shared' = shared
    /\ \A o \in Requests : o # q => pc'[o] = pc[o]

LEMMA KeyMoves ==
    ASSUME DumpTypeOK, NEW q \in Requests, KeyStep(q)
    PROVE  Moves(q) /\ pc[q] \in {"key", "open", "write", "replace"}
                    /\ pc'[q] \in {"open", "write", "replace", "hash"}
BY DEF DumpTypeOK, KeyStep, KeyRead, KeyDraw, KeyOpen, KeyWrite, KeyReplace, At, Moves, Ended

LEMMA DumpMoves ==
    ASSUME DumpTypeOK, NEW d \in Dumps, Dump(d)
    PROVE  Moves(d) /\ pc'[d] \notin {"verified", "restored", "denied"}
BY DEF DumpTypeOK, Dump, DumpOpen, DumpFinish, DumpFail, SidecarOpen, SidecarWrite, At, Moves,
   Ended, Requests

LEMMA RestoreMoves ==
    ASSUME DumpTypeOK, NEW r \in Restores, Restore(r)
    PROVE  Moves(r)
BY DEF DumpTypeOK, Restore, RestoreStart, RestoreVerify, RestoreFeed, At, Moves, Ended, Requests

LEMMA SharedGrows ==
    ASSUME DumpTypeOK, NEW q \in Requests, Moves(q)
    PROVE  shared \subseteq shared'
BY Meeting DEF Moves, DumpTypeOK

LEMMA AloneStep ==
    ASSUME DumpTypeOK, Alone, NEW q \in Requests, Moves(q)
    PROVE  Alone'
<1> SUFFICES ASSUME NEW a \in Running', NEW b \in Running', PathOf[a] = PathOf[b], a # b
             PROVE  a \in shared' /\ b \in shared'
    BY DEF Alone
<1>1. ASSUME NEW o \in Requests, o \in Running', o # q PROVE o \in Running
    BY <1>1 DEF Running, Moves
<1>2. ASSUME NEW o \in Running, PathOf[o] = PathOf[q], o # q PROVE o \in shared' /\ q \in shared'
    <2>1. CASE pc[q] = "idle"
        BY <1>2, <2>1, Meeting DEF Moves, DumpTypeOK
    <2>2. CASE pc[q] # "idle"
        BY <1>2, <2>2 DEF Moves, Running, Alone
    <2>3. QED
        BY <2>1, <2>2
<1>3. a \in Requests /\ b \in Requests
    BY DEF Running
<1>4. QED
    BY <1>1, <1>2, <1>3, SharedGrows DEF Alone

\* A dump that starts makes the archive its own, or shares it with those it met.
LEMMA Opens ==
    ASSUME DumpTypeOK, Apart, NEW d \in Dumps, DumpOpen(d)
    PROVE  \E i \in Dumps, D \in SUBSET Dumps :
              /\ PathOf[i] = PathOf[d]
              /\ file' = [file EXCEPT ![PathOf[d]] = i]
              /\ writers' = [writers EXCEPT ![i] = D]
              /\ active' = [active EXCEPT ![i] = D]
              /\ d \in D /\ (\A o \in D : PathOf[o] = PathOf[d])
              /\ D = {d} \/ D \subseteq shared'
<1> DEFINE i == IF file[PathOf[d]] = NoFile THEN d ELSE file[PathOf[d]]
           D == (active[i] \cap Running) \cup {d}
<1>1. d \in Requests /\ PathOf[d] \in Paths
    BY DumpAssumption DEF DumpAssumption, Requests
<1>2. i \in Dumps /\ PathOf[i] = PathOf[d]
    BY <1>1 DEF DumpTypeOK, Apart
<1>3. \A o \in active[i] \cap Running :
         PathOf[o] = PathOf[d] /\ o \in shared' /\ d \in shared'
    BY <1>1, <1>2, Meeting DEF DumpOpen, Apart, DumpTypeOK
<1>4. D \in SUBSET Dumps /\ d \in D /\ \A o \in D : PathOf[o] = PathOf[d]
    BY <1>2, <1>3 DEF DumpTypeOK
<1>5. D = {d} \/ D \subseteq shared'
    BY <1>3
<1>6. /\ file' = [file EXCEPT ![PathOf[d]] = i]
      /\ writers' = [writers EXCEPT ![i] = D]
      /\ active' = [active EXCEPT ![i] = D]
    BY DEF DumpOpen
<1> HIDE DEF i, D
<1>7. QED
    BY <1>2, <1>4, <1>5, <1>6

LEMMA ArchiveStep ==
    ASSUME DumpTypeOK, Alone, Apart, OneWriter, Settled, NEW d \in Dumps, Dump(d)
    PROVE  (Apart /\ OneWriter /\ Settled)'
<1>1. d \in Requests /\ PathOf[d] \in Paths /\ Restores \subseteq Requests
      /\ \A r \in Restores : r # d /\ PathOf[r] \in Paths
    BY DumpAssumption DEF DumpAssumption, Requests
<1>2. (\A r \in Restores : pc'[r] = pc[r]) /\ shared \subseteq shared'
    BY <1>1, DumpMoves, SharedGrows DEF Moves
<1>3. CASE DumpOpen(d)
    <2>1. PICK i \in Dumps, D \in SUBSET Dumps :
                             /\ PathOf[i] = PathOf[d]
                             /\ file' = [file EXCEPT ![PathOf[d]] = i]
                             /\ writers' = [writers EXCEPT ![i] = D]
                             /\ active' = [active EXCEPT ![i] = D]
                             /\ d \in D /\ (\A o \in D : PathOf[o] = PathOf[d])
                             /\ D = {d} \/ D \subseteq shared'
        BY <1>3, Opens
    <2>2. /\ file'[PathOf[d]] = i /\ writers'[i] = D /\ active'[i] = D
          /\ \A p \in Paths : p # PathOf[d] => file'[p] = file[p]
          /\ \A j \in Dumps : j # i => writers'[j] = writers[j] /\ active'[j] = active[j]
        BY <1>1, <2>1 DEF DumpTypeOK
    <2>3. ASSUME NEW p \in Paths, p # PathOf[d], file[p] # NoFile
          PROVE  file[p] \in Dumps /\ file[p] # i
        BY <2>1, <2>3 DEF DumpTypeOK, Apart
    <2>4. Apart'
        BY <1>1, <2>1, <2>2, <2>3 DEF Apart
    <2>5. OneWriter'
        <3>1. Pure(D)'
            BY <2>1 DEF Pure
        <3>2. ASSUME NEW p \in Paths, p # PathOf[d], file[p] # NoFile
              PROVE  Pure(writers[file[p]])'
            BY <1>2, <2>2, <2>3, <3>2 DEF OneWriter, Pure
        <3>3. QED
            BY <1>1, <2>2, <3>1, <3>2 DEF OneWriter
    <2>6. ASSUME NEW r \in Restores \ shared', pc[r] = "verified"
          PROVE  PathOf[r] # PathOf[d]
        BY <1>1, <1>3, <2>6, Meeting DEF DumpOpen, Running, Ended, DumpTypeOK
    <2>7. Settled'
        BY <1>1, <1>2, <2>2, <2>3, <2>6 DEF Settled
    <2>8. QED
        BY <2>4, <2>5, <2>7
<1>4. CASE DumpFinish(d) \/ DumpFail(d)
    <2>1. d \in Running /\ writers' = writers /\ shared' = shared
          /\ \A i \in Dumps : active'[i] \subseteq active[i]
        BY <1>1, <1>4 DEF DumpFinish, DumpFail, At, Running, Ended, DumpTypeOK
    <2>2. \/ file' = file
          \/ file' = [file EXCEPT ![PathOf[d]] = NoFile]
        BY <1>4 DEF DumpFinish, DumpFail
    <2>3. /\ \A p \in Paths : file'[p] # NoFile => file'[p] = file[p] /\ file[p] \in Dumps
          /\ \A p \in Paths : p # PathOf[d] => file'[p] = file[p]
        BY <1>1, <2>2 DEF DumpTypeOK
    <2>4. ASSUME NEW r \in Restores \ shared, pc[r] = "verified"
          PROVE  PathOf[r] # PathOf[d]
        BY <1>1, <2>1, <2>4 DEF Running, Ended, Alone
    <2>5. Apart' /\ OneWriter'
        BY <2>1, <2>3 DEF Apart, OneWriter, Pure
    <2>6. Settled'
        BY <1>1, <1>2, <2>1, <2>3, <2>4 DEF Settled, DumpTypeOK
    <2>7. QED
        BY <2>5, <2>6
<1>5. CASE SidecarOpen(d) \/ SidecarWrite(d)
    BY <1>2, <1>5 DEF SidecarOpen, SidecarWrite, arcVars, Apart, OneWriter, Pure, Settled
<1>6. QED
    BY <1>3, <1>4, <1>5 DEF Dump

LEMMA FedStep ==
    ASSUME DumpTypeOK, Settled, OneWriter, RestoresOneWholeDump, NEW r \in Restores, Restore(r)
    PROVE  (Settled /\ OneWriter /\ RestoresOneWholeDump)'
<1>1. r \in Requests /\ PathOf[r] \in Paths /\ Restores \subseteq Requests
    BY DumpAssumption DEF DumpAssumption, Requests
<1>2. /\ file' = file /\ active' = active /\ writers' = writers
      /\ \A o \in Restores : o # r => pc'[o] = pc[o]
      /\ shared \subseteq shared'
    BY <1>1, RestoreMoves, SharedGrows
    DEF Moves, Restore, RestoreStart, RestoreVerify, RestoreFeed, arcVars
<1>3. OneWriter'
    BY <1>2 DEF OneWriter, Pure
<1>4. CASE RestoreStart(r)
    <2>1. pc'[r] \notin {"verified", "restored"} /\ restored' = restored
        BY <1>1, <1>4 DEF RestoreStart, At, DumpTypeOK
    <2>2. QED
        BY <1>2, <1>3, <2>1 DEF Settled, RestoresOneWholeDump
<1>5. CASE RestoreVerify(r)
    <2>1. pc'[r] # "restored" /\ restored' = restored
        BY <1>1, <1>5 DEF RestoreVerify, At, DumpTypeOK, sigVars
    <2>2. pc'[r] = "verified" => Bytes(file[PathOf[r]]) # NoFile
        BY <1>1, <1>5 DEF RestoreVerify, At, DumpTypeOK, Verifies, Sign
    <2>3. pc'[r] = "verified" => file[PathOf[r]] # NoFile /\ active[file[PathOf[r]]] = {}
        BY <2>2 DEF Bytes
    <2>4. QED
        BY <1>2, <1>3, <2>1, <2>3 DEF Settled, RestoresOneWholeDump
<1>6. CASE RestoreFeed(r)
    <2>1. /\ pc[r] = "verified" /\ pc'[r] # "verified" /\ shared' = shared
          /\ restored' = [restored EXCEPT ![r] = Bytes(file[PathOf[r]])]
        BY <1>1, <1>6 DEF RestoreFeed, At, DumpTypeOK
    <2>2. ASSUME r \notin shared
          PROVE  Bytes(file[PathOf[r]]) # NoFile /\ Pure(Bytes(file[PathOf[r]]))
        <3>1. file[PathOf[r]] # NoFile /\ Bytes(file[PathOf[r]]) = writers[file[PathOf[r]]]
            BY <2>1, <2>2 DEF Settled, Bytes
        <3>2. writers[file[PathOf[r]]] # NoFile
            BY <1>1, <3>1, DumpAssumption DEF DumpAssumption, DumpTypeOK
        <3>3. QED
            BY <1>1, <3>1, <3>2 DEF OneWriter
    <2>3. restored'[r] = Bytes(file[PathOf[r]])
          /\ \A o \in Restores : o # r => restored'[o] = restored[o]
        BY <2>1 DEF DumpTypeOK
    <2>4. QED
        BY <1>2, <1>3, <2>1, <2>2, <2>3 DEF Settled, Pure, RestoresOneWholeDump
<1>7. QED
    BY <1>4, <1>5, <1>6 DEF Restore

LEMMA DumpInvInit == DumpInit => DumpInv
<1> SUFFICES ASSUME DumpInit PROVE DumpInv
    OBVIOUS
<1>1. \A q \in Requests : pc[q] = "idle"
    BY DEF DumpInit
<1>2. Running = {} /\ \A r \in Restores : pc[r] = "idle"
    BY <1>1 DEF Running, Requests
<1>3. (\A p \in Paths : file[p] = NoFile) /\ \A i \in Dumps : active[i] = {}
    BY DEF DumpInit
<1>4. QED
    BY <1>2, <1>3, DumpTypeInit
    DEF DumpInv, Alone, Apart, OneWriter, Settled, RestoresOneWholeDump

\* Nothing a kill leaves behind is taken for more than it is.
LEMMA KillStep ==
    ASSUME DumpTypeOK, Kill
    PROVE  /\ \A q \in Requests : pc'[q] = pc[q] \/ pc'[q] = "dead"
           /\ Running' = {}
BY DEF Kill, DumpTypeOK, Running, Ended

LEMMA DumpInvStep == DumpInv /\ [DumpNext]_dumpVars => DumpInv'
<1> SUFFICES ASSUME DumpInv, [DumpNext]_dumpVars PROVE DumpInv'
    OBVIOUS
<1> USE DEF DumpInv
<1>1. DumpTypeOK'
    BY DumpTypeStep
<1>2. CASE UNCHANGED dumpVars
    BY <1>1, <1>2 DEF dumpVars, arcVars, sigVars, Alone, Running, Apart, OneWriter, Pure, Settled,
       RestoresOneWholeDump
<1>3. CASE Kill
    <2>1. Alone'
        BY <1>3, KillStep DEF Alone
    <2>2. Restores \subseteq Requests
        BY DEF Requests
    <2>3. QED
        BY <1>1, <1>3, <2>1, <2>2, KillStep
        DEF Kill, arcVars, sigVars, Apart, OneWriter, Pure, Settled, RestoresOneWholeDump
<1>4. ASSUME NEW d \in Dumps, Dump(d) PROVE DumpInv'
    <2>1. d \in Requests /\ \A r \in Restores : r \in Requests /\ r # d
        BY DumpAssumption DEF DumpAssumption, Requests
    <2>2. Moves(d) /\ Alone' /\ shared \subseteq shared'
        BY <1>4, <2>1, DumpMoves, AloneStep, SharedGrows
    <2>3. restored' = restored /\ \A r \in Restores : pc'[r] = pc[r]
        BY <1>4, <2>1, <2>2 DEF Moves, Dump, DumpOpen, DumpFinish, DumpFail, SidecarOpen,
           SidecarWrite, sigVars
    <2>4. RestoresOneWholeDump'
        BY <2>2, <2>3 DEF RestoresOneWholeDump
    <2>5. QED
        BY <1>1, <1>4, <2>2, <2>4, ArchiveStep
<1>5. ASSUME NEW r \in Restores, Restore(r) PROVE DumpInv'
    <2>1. r \in Requests
        BY DEF Requests
    <2>2. Alone'
        BY <1>5, <2>1, RestoreMoves, AloneStep
    <2>3. Apart'
        BY <1>5 DEF Restore, RestoreStart, RestoreVerify, RestoreFeed, arcVars, Apart
    <2>4. QED
        BY <1>1, <1>5, <2>2, <2>3, FedStep
<1>6. ASSUME NEW q \in Requests, KeyStep(q) PROVE DumpInv'
    <2>1. Alone' /\ shared' = shared
        BY <1>6, KeyMoves, AloneStep DEF Moves
    <2>2. file' = file /\ active' = active /\ writers' = writers /\ restored' = restored
        BY <1>6 DEF KeyStep, KeyRead, KeyDraw, KeyOpen, KeyWrite, KeyReplace, arcVars, sigVars
    <2>3. \A r \in Restores : pc'[r] = "verified" \/ pc'[r] = "restored" => pc[r] = pc'[r]
        BY <1>6, KeyMoves DEF Moves, Requests
    <2>4. QED
        BY <1>1, <2>1, <2>2, <2>3 DEF Apart, OneWriter, Pure, Settled, RestoresOneWholeDump
<1>7. QED
    BY <1>2, <1>3, <1>4, <1>5, <1>6 DEF DumpNext

\* However many requests there are, and wherever the daemon is killed: a restore that met no
\* other request for its archive is fed one finished dump, or the mixture that dumps left
\* which had met each other.
THEOREM RestoresWhole == DumpSpec => []RestoresOneWholeDump
<1>1. DumpInit => DumpInv
    BY DumpInvInit
<1>2. DumpInv /\ [DumpNext]_dumpVars => DumpInv'
    BY DumpInvStep
<1>3. DumpInv => RestoresOneWholeDump
    BY DEF DumpInv
<1>4. QED
    BY <1>1, <1>2, <1>3, PTL DEF DumpSpec

(***************************************************************************)
(* The key an archive is signed and checked with.                          *)
(***************************************************************************)
\* While every key drawn became the key of the file or still may: only one request is
\* making a key, and the key file holds one; the maker has not replaced the file yet, and is
\* writing the temporary one; whoever signed, or is about to, has the key of the file.
OneKey ==
    /\ \A q, o \in Requests : pc[q] \in Making /\ pc[o] \in Making => q = o
    /\ keyFile # NoFile => keyData[keyFile] # NoFile
    /\ \A q \in Requests : pc[q] \in Making => keyFile = NoFile
    /\ \A q \in Requests : pc[q] \in {"write", "replace"} => fd[q] = tmpFile /\ tmpFile # NoFile
    /\ \A q \in Requests : pc[q] = "replace" => keyData[tmpFile] = key[q]
    /\ \A q \in Requests : pc[q] = "hash" => keyFile # NoFile /\ key[q] = keyData[keyFile]
    /\ \A d \in Dumps : pc[d] = "done" => keyFile # NoFile

\* A restore under way compares with the signature as it still is.
WantIsCurrent ==
    \A r \in Restores \ shared :
      pc[r] \in {"key", "open", "write", "replace", "hash"} => want[r] = sidecar[PathOf[r]]

\* A finished dump that still is what lies at its path has no signature there, or its own.
SignedByKey ==
    \A d \in Dumps :
      /\ pc[d] = "done" /\ file[PathOf[d]] # NoFile /\ writers[file[PathOf[d]]] = {d}
      => sidecar[PathOf[d]] \in {NoFile, [by |-> keyData[keyFile], of |-> {d}]}

KeyInv == twoKeys \/ (OneKey /\ SignedByKey)

SignInv == DumpInv /\ WantIsCurrent /\ KeyInv

LEMMA KeyInvKey ==
    ASSUME DumpTypeOK, OneKey, NEW q \in Requests, KeyStep(q), ~twoKeys'
    PROVE  /\ OneKey'
           /\ keyFile # NoFile => keyFile' = keyFile /\ keyData'[keyFile] = keyData[keyFile]
<1>1. /\ \A o \in Requests : o # q => pc'[o] = pc[o]
      /\ Requests \subseteq Owners /\ Dumps \subseteq Requests /\ NoFile \notin Owners
      /\ \A o \in Owners : o # NoFile
      /\ pc'[q] # "done" /\ pc[q] # "done"
    BY KeyMoves, DumpAssumption DEF Moves, DumpAssumption, Owners, Keys, Requests
<1>2. CASE KeyRead(q)
    <2>1. pc'[q] = "hash" /\ keyFile # NoFile /\ key'[q] = keyData[keyFile]
          /\ \A o \in Requests : o # q => key'[o] = key[o]
        BY <1>1, <1>2 DEF KeyRead, At, HaveKey, DumpTypeOK
    <2>2. QED
        BY <1>1, <1>2, <2>1 DEF KeyRead, OneKey, Making
<1>3. CASE KeyDraw(q)
    <2>1. keyFile = NoFile
        BY <1>3 DEF KeyDraw, HaveKey, OneKey, DumpTypeOK
    <2>5. CanPersist /\ \A o \in Requests : pc[o] \notin Making
        BY <1>3, Zenon DEF KeyDraw
    <2>2. pc'[q] = "open"
        BY <1>3, <2>5 DEF KeyDraw, At, DumpTypeOK
    <2>3. \A o \in Requests : o # q => key'[o] = key[o]
        BY <1>3 DEF KeyDraw, DumpTypeOK
    <2>4. QED
        BY <1>1, <1>3, <2>1, <2>2, <2>3, <2>5 DEF KeyDraw, OneKey, Making
<1>4. CASE KeyOpen(q)
    <2>1. pc[q] = "open" /\ pc'[q] = "write" /\ keyFile = NoFile /\ keyFile' = NoFile
          /\ key' = key
        BY <1>4 DEF KeyOpen, At, OneKey, Making, DumpTypeOK
    <2>2. tmpFile' # NoFile /\ fd'[q] = tmpFile'
        BY <1>1, <1>4 DEF KeyOpen, DumpTypeOK
    <2>3. \A o \in Requests : pc[o] \in Making => o = q
        BY <2>1 DEF OneKey, Making
    <2>4. QED
        BY <1>1, <2>1, <2>2, <2>3 DEF OneKey, Making
<1>5. CASE KeyWrite(q)
    <2>1. pc[q] = "write" /\ pc'[q] = "replace" /\ keyFile = NoFile /\ keyFile' = NoFile
          /\ key' = key /\ fd' = fd /\ tmpFile' = tmpFile /\ tmpFile # NoFile
          /\ keyData' = [keyData EXCEPT ![tmpFile] = key[q]]
        BY <1>5 DEF KeyWrite, At, OneKey, Making, DumpTypeOK
    <2>2. keyData'[tmpFile] = key[q]
        BY <2>1 DEF DumpTypeOK
    <2>3. \A o \in Requests : pc[o] \in Making => o = q
        BY <2>1 DEF OneKey, Making
    <2>4. QED
        BY <1>1, <2>1, <2>2, <2>3 DEF OneKey, Making
<1>6. CASE KeyReplace(q)
    <2>1. pc[q] = "replace" /\ pc'[q] = "hash" /\ keyFile = NoFile
        BY <1>6 DEF KeyReplace, At, OneKey, Making, DumpTypeOK
    <2>2. tmpFile # NoFile /\ keyFile' = tmpFile /\ keyData' = keyData /\ key' = key
          /\ keyData[tmpFile] = key[q] /\ key[q] # NoFile
        BY <1>6, <2>1 DEF KeyReplace, OneKey, DumpTypeOK
    <2>3. \A o \in Requests : pc[o] \in Making => o = q
        BY <2>1 DEF OneKey, Making
    <2>4. QED
        BY <1>1, <2>1, <2>2, <2>3 DEF OneKey, Making
<1>7. QED
    BY <1>2, <1>3, <1>4, <1>5, <1>6 DEF KeyStep

\* No other step touches the key.
LEMMA OneKeyOther ==
    ASSUME OneKey, UNCHANGED keyVars,
           \A q \in Requests : pc'[q] \in Making \cup {"hash"} => pc'[q] = pc[q],
           \A d \in Dumps : pc'[d] = "done" => keyFile # NoFile
    PROVE  OneKey'
<1>1. /\ keyFile' = keyFile /\ keyData' = keyData /\ tmpFile' = tmpFile /\ fd' = fd
      /\ key' = key
    BY DEF keyVars
<1>2. \A q, o \in Requests : pc'[q] \in Making /\ pc'[o] \in Making => q = o
    BY DEF OneKey
<1>3. QED
    BY <1>1, <1>2 DEF OneKey, Making

\* A step of a request on the archive leaves nobody else there with a signature in hand.
LEMMA WantDump ==
    ASSUME DumpTypeOK, Alone, WantIsCurrent, NEW d \in Dumps, Dump(d)
    PROVE  WantIsCurrent'
<1>1. d \in Requests /\ PathOf[d] \in Paths
      /\ \A r \in Restores : r \in Requests /\ r # d /\ PathOf[r] \in Paths
    BY DumpAssumption DEF DumpAssumption, Requests
<1>2. want' = want /\ shared \subseteq shared' /\ \A r \in Restores : pc'[r] = pc[r]
    BY <1>1, DumpMoves, SharedGrows DEF Moves, Dump, DumpOpen, DumpFinish, DumpFail, SidecarOpen,
       SidecarWrite, sigVars
<1>3. CASE sidecar' = sidecar
    BY <1>2, <1>3 DEF WantIsCurrent
<1>4. CASE sidecar' # sidecar
    <2>1. d \in Running /\ \A p \in Paths : p # PathOf[d] => sidecar'[p] = sidecar[p]
        BY <1>1, <1>4 DEF Dump, DumpOpen, DumpFinish, DumpFail, SidecarOpen, SidecarWrite, At,
           sigVars, Running, Ended, DumpTypeOK
    <2>2. ASSUME NEW r \in Restores \ shared,
                 pc[r] \in {"key", "open", "write", "replace", "hash"}
          PROVE  PathOf[r] # PathOf[d]
        BY <1>1, <2>1, <2>2 DEF Alone, Running, Ended
    <2>3. QED
        BY <1>1, <1>2, <2>1, <2>2 DEF WantIsCurrent
<1>5. QED
    BY <1>3, <1>4

LEMMA WantRestore ==
    ASSUME DumpTypeOK, WantIsCurrent, NEW r \in Restores, Restore(r)
    PROVE  WantIsCurrent'
<1>1. r \in Requests /\ sidecar' = sidecar /\ shared \subseteq shared'
      /\ \A o \in Restores : o # r => pc'[o] = pc[o]
    BY RestoreMoves, SharedGrows DEF Moves, Requests, Restore, RestoreStart, RestoreVerify,
       RestoreFeed, sigVars
<1>2. CASE RestoreStart(r)
    <2>1. want'[r] = sidecar[PathOf[r]] /\ \A o \in Restores : o # r => want'[o] = want[o]
        BY <1>2 DEF RestoreStart, DumpTypeOK
    <2>2. QED
        BY <1>1, <2>1 DEF WantIsCurrent
<1>3. CASE RestoreVerify(r) \/ RestoreFeed(r)
    <2>1. want' = want /\ pc'[r] \in {"verified", "denied", "failed", "restored"}
        BY <1>1, <1>3 DEF RestoreVerify, RestoreFeed, At, sigVars, DumpTypeOK
    <2>2. QED
        BY <1>1, <2>1 DEF WantIsCurrent
<1>4. QED
    BY <1>2, <1>3 DEF Restore

\* A dump that ends well leaves a signature made with the key of the file.
LEMMA SignedDump ==
    ASSUME DumpTypeOK, Apart, OneKey, SignedByKey, NEW d \in Dumps, Dump(d)
    PROVE  SignedByKey'
<1>1. d \in Requests /\ PathOf[d] \in Paths
      /\ \A o \in Dumps : o \in Requests /\ PathOf[o] \in Paths
    BY DumpAssumption DEF DumpAssumption, Requests
<1>2. keyFile' = keyFile /\ keyData' = keyData
      /\ \A o \in Dumps : o # d => pc'[o] = pc[o]
    BY <1>1, DumpMoves DEF Moves, Dump, DumpOpen, DumpFinish, DumpFail, SidecarOpen,
       SidecarWrite, keyVars
<1>3. CASE DumpOpen(d)
    <2>1. pc'[d] # "done" /\ sidecar' = sidecar
        BY <1>1, <1>3 DEF DumpOpen, At, sigVars, DumpTypeOK
    <2>2. PICK i \in Dumps, D \in SUBSET Dumps :
                             /\ PathOf[i] = PathOf[d]
                             /\ file' = [file EXCEPT ![PathOf[d]] = i]
                             /\ writers' = [writers EXCEPT ![i] = D] /\ d \in D
        BY <1>3, Opens
    <2>3. /\ file'[PathOf[d]] = i /\ writers'[i] = D
          /\ \A p \in Paths : p # PathOf[d] => file'[p] = file[p]
          /\ \A j \in Dumps : j # i => writers'[j] = writers[j]
        BY <1>1, <2>2 DEF DumpTypeOK
    <2>4. ASSUME NEW o \in Dumps, pc'[o] = "done", file'[PathOf[o]] # NoFile,
                 writers'[file'[PathOf[o]]] = {o}
          PROVE  sidecar[PathOf[o]] \in {NoFile, [by |-> keyData[keyFile], of |-> {o}]}
        <3>1. o # d /\ pc[o] = "done" /\ PathOf[o] # PathOf[d]
            BY <1>2, <2>1, <2>2, <2>3, <2>4
        <3>2. file'[PathOf[o]] = file[PathOf[o]] /\ file[PathOf[o]] \in Dumps
            BY <1>1, <2>3, <2>4, <3>1 DEF DumpTypeOK
        <3>3. file[PathOf[o]] # i
            BY <1>1, <2>2, <2>4, <3>1, <3>2 DEF Apart
        <3>4. writers[file[PathOf[o]]] = {o}
            BY <2>3, <2>4, <3>2, <3>3
        <3>5. QED
            BY <2>4, <3>1, <3>2, <3>4 DEF SignedByKey
    <2>5. QED
        BY <1>2, <2>1, <2>4 DEF SignedByKey
<1>4. CASE DumpFinish(d) \/ DumpFail(d)
    <2>1. pc'[d] # "done" /\ sidecar' = sidecar /\ writers' = writers
        BY <1>1, <1>4 DEF DumpFinish, DumpFail, At, sigVars, DumpTypeOK
    <2>2. \A p \in Paths : file'[p] # NoFile => file'[p] = file[p]
        BY <1>1, <1>4 DEF DumpFinish, DumpFail, DumpTypeOK
    <2>3. QED
        BY <1>1, <1>2, <2>1, <2>2 DEF SignedByKey
<1>5. CASE SidecarOpen(d)
    <2>1. pc'[d] # "done" /\ writers' = writers /\ file' = file
          /\ sidecar'[PathOf[d]] = NoFile
          /\ \A p \in Paths : p # PathOf[d] => sidecar'[p] = sidecar[p]
        BY <1>1, <1>5 DEF SidecarOpen, At, arcVars, DumpTypeOK
    <2>2. QED
        BY <1>1, <1>2, <2>1 DEF SignedByKey
<1>6. CASE SidecarWrite(d)
    <2> DEFINE p == PathOf[d]
    <2>1. writers' = writers /\ file' = file /\ key[d] = keyData[keyFile]
        BY <1>1, <1>6 DEF SidecarWrite, At, arcVars, OneKey
    <2>2. CASE file[p] = NoFile
        <3>1. pc'[d] # "done" /\ sidecar' = sidecar
            BY <1>1, <1>6, <2>2 DEF SidecarWrite, At, DumpTypeOK
        <3>2. QED
            BY <1>2, <2>1, <3>1 DEF SignedByKey
    <2>3. CASE file[p] # NoFile
        <3>1. sidecar'[p] = Sign(d) /\ \A x \in Paths : x # p => sidecar'[x] = sidecar[x]
            BY <1>1, <1>6, <2>3 DEF SidecarWrite, DumpTypeOK
        <3>2. Sign(d) \in {NoFile, [by |-> keyData[keyFile], of |-> writers[file[p]]]}
            BY <2>1, <2>3 DEF Sign, Bytes
        <3>3. QED
            BY <1>1, <1>2, <2>1, <3>1, <3>2 DEF SignedByKey
    <2>4. QED
        BY <2>2, <2>3
<1>7. QED
    BY <1>3, <1>4, <1>5, <1>6 DEF Dump

LEMMA SignInvInit == DumpInit => SignInv
<1> SUFFICES ASSUME DumpInit PROVE SignInv
    OBVIOUS
<1>1. \A q \in Requests : pc[q] = "idle"
    BY DEF DumpInit
<1>2. (\A r \in Restores : pc[r] = "idle") /\ \A d \in Dumps : pc[d] = "idle"
    BY <1>1 DEF Requests
<1>3. keyFile # NoFile => keyData[keyFile] # NoFile
    BY DumpAssumption DEF DumpInit, DumpAssumption, Keys, Owners
<1>4. QED
    BY <1>1, <1>2, <1>3, DumpInvInit
    DEF SignInv, KeyInv, OneKey, Making, WantIsCurrent, SignedByKey

\* Once it is set, twoKeys stays.
LEMMA TwoKeysStay == [DumpNext]_dumpVars /\ twoKeys => twoKeys'
BY Zenon DEF DumpNext, Dump, DumpOpen, DumpFinish, DumpFail, SidecarOpen, SidecarWrite, Restore,
   RestoreStart, RestoreVerify, RestoreFeed, KeyStep, KeyRead, KeyDraw, KeyOpen, KeyWrite,
   KeyReplace, Kill, dumpVars, keyVars

LEMMA WantStep == DumpInv /\ WantIsCurrent /\ [DumpNext]_dumpVars => WantIsCurrent'
<1> SUFFICES ASSUME DumpTypeOK, Alone, WantIsCurrent, [DumpNext]_dumpVars PROVE WantIsCurrent'
    BY DEF DumpInv
<1>1. CASE UNCHANGED dumpVars
    BY <1>1 DEF dumpVars, sigVars, WantIsCurrent
<1>2. CASE Kill
    <2>1. Restores \subseteq Requests
        BY DEF Requests
    <2>2. QED
        BY <1>2, <2>1, KillStep DEF Kill, sigVars, WantIsCurrent
<1>3. ASSUME NEW q \in Requests, KeyStep(q) PROVE WantIsCurrent'
    <2>1. UNCHANGED sigVars /\ shared' = shared /\ Restores \subseteq Requests
        BY <1>3, KeyMoves DEF Requests, Moves, KeyStep, KeyRead, KeyDraw, KeyOpen, KeyWrite,
           KeyReplace
    <2>2. \A r \in Restores : pc'[r] \in {"key", "open", "write", "replace", "hash"}
                              => pc[r] \in {"key", "open", "write", "replace", "hash"}
        BY <1>3, <2>1, KeyMoves DEF Moves
    <2>3. QED
        BY <2>1, <2>2 DEF sigVars, WantIsCurrent
<1>4. QED
    BY <1>1, <1>2, <1>3, WantDump, WantRestore DEF DumpNext

LEMMA OneKeyStep ==
    DumpInv /\ OneKey /\ SignedByKey /\ [DumpNext]_dumpVars /\ ~twoKeys'
    => OneKey' /\ SignedByKey'
<1> SUFFICES ASSUME DumpTypeOK, Apart, OneKey, SignedByKey, [DumpNext]_dumpVars, ~twoKeys'
             PROVE  OneKey' /\ SignedByKey'
    BY DEF DumpInv
<1>1. Dumps \subseteq Requests /\ Restores \subseteq Requests
    BY DEF Requests
<1>2. CASE UNCHANGED dumpVars
    BY <1>2 DEF dumpVars, keyVars, arcVars, sigVars, OneKey, SignedByKey
<1>3. CASE Kill
    <2>1. UNCHANGED keyVars /\ UNCHANGED arcVars /\ UNCHANGED sigVars
        BY <1>3 DEF Kill
    <2>2. /\ \A q \in Requests : pc'[q] \in Making \cup {"hash"} => pc'[q] = pc[q]
          /\ \A d \in Dumps : pc'[d] = "done" => pc[d] = "done"
        BY <1>1, <1>3, KillStep DEF Making
    <2>3. OneKey'
        <3>1. \A d \in Dumps : pc'[d] = "done" => keyFile # NoFile
            BY <2>2 DEF OneKey
        <3>2. QED
            BY <2>1, <2>2, <3>1, OneKeyOther
    <2>4. SignedByKey'
        BY <2>1, <2>2 DEF keyVars, arcVars, sigVars, SignedByKey
    <2>5. QED
        BY <2>3, <2>4
<1>4. ASSUME NEW d \in Dumps, Dump(d) PROVE OneKey' /\ SignedByKey'
    <2>1. UNCHANGED keyVars /\ \A o \in Requests : o # d => pc'[o] = pc[o]
        BY <1>1, <1>4, DumpMoves DEF Moves, Dump, DumpOpen, DumpFinish, DumpFail, SidecarOpen,
           SidecarWrite
    <2>2. pc'[d] \notin Making \cup {"hash"} /\ (pc'[d] = "done" => pc[d] = "hash")
        BY <1>1, <1>4 DEF Dump, DumpOpen, DumpFinish, DumpFail, SidecarOpen, SidecarWrite, At,
           DumpTypeOK, Making
    <2>3. OneKey'
        <3>1. \A q \in Requests : pc'[q] \in Making \cup {"hash"} => pc'[q] = pc[q]
            BY <2>1, <2>2
        <3>2. \A o \in Dumps : pc'[o] = "done" => keyFile # NoFile
            BY <1>1, <2>1, <2>2 DEF OneKey
        <3>3. QED
            BY <2>1, <3>1, <3>2, OneKeyOther
    <2>4. QED
        BY <1>4, <2>3, SignedDump
<1>5. ASSUME NEW r \in Restores, Restore(r) PROVE OneKey' /\ SignedByKey'
    <2>1. /\ UNCHANGED keyVars /\ UNCHANGED arcVars /\ sidecar' = sidecar
          /\ \A o \in Requests : o # r => pc'[o] = pc[o]
          /\ \A d \in Dumps : d # r
        BY <1>1, <1>5, RestoreMoves, DumpAssumption DEF DumpAssumption, Moves, Restore,
           RestoreStart, RestoreVerify, RestoreFeed, sigVars
    <2>2. pc'[r] \notin Making \cup {"hash"}
        BY <1>1, <1>5 DEF Restore, RestoreStart, RestoreVerify, RestoreFeed, At, DumpTypeOK,
           Making
    <2>3. \A d \in Dumps : pc'[d] = pc[d]
        BY <1>1, <2>1
    <2>4. OneKey'
        <3>1. \A q \in Requests : pc'[q] \in Making \cup {"hash"} => pc'[q] = pc[q]
            BY <2>1, <2>2
        <3>2. \A d \in Dumps : pc'[d] = "done" => keyFile # NoFile
            BY <2>3 DEF OneKey
        <3>3. QED
            BY <2>1, <3>1, <3>2, OneKeyOther
    <2>5. SignedByKey'
        BY <2>1, <2>3 DEF SignedByKey, keyVars, arcVars
    <2>6. QED
        BY <2>4, <2>5
<1>6. ASSUME NEW q \in Requests, KeyStep(q) PROVE OneKey' /\ SignedByKey'
    <2>1. /\ OneKey'
          /\ keyFile # NoFile => keyFile' = keyFile /\ keyData'[keyFile] = keyData[keyFile]
        BY <1>6, KeyInvKey
    <2>2. UNCHANGED arcVars /\ UNCHANGED sigVars
        BY <1>6 DEF KeyStep, KeyRead, KeyDraw, KeyOpen, KeyWrite, KeyReplace
    <2>3. \A d \in Dumps : pc'[d] = "done" => pc[d] = "done" /\ keyFile # NoFile
        BY <1>1, <1>6, KeyMoves DEF Moves, OneKey
    <2>4. QED
        BY <2>1, <2>2, <2>3 DEF sigVars, arcVars, SignedByKey
<1>7. QED
    BY <1>2, <1>3, <1>4, <1>5, <1>6 DEF DumpNext

LEMMA SignInvStep == SignInv /\ [DumpNext]_dumpVars => SignInv'
<1> SUFFICES ASSUME SignInv, [DumpNext]_dumpVars PROVE SignInv'
    OBVIOUS
<1>1. KeyInv'
    BY TwoKeysStay, OneKeyStep, Zenon DEF SignInv, KeyInv
<1>2. QED
    BY <1>1, DumpInvStep, WantStep DEF SignInv

\* Only its own check refuses a restore that has come as far as hashing.
LEMMA OwnDumpPasses ==
    ASSUME SignInv, NEW r \in Restores \ shared, pc[r] = "hash", pc'[r] = "denied",
           [DumpNext]_dumpVars, NEW d \in Dumps, pc[d] = "done", PathOf[d] = PathOf[r],
           Bytes(file[PathOf[d]]) = {d}, ~twoKeys
    PROVE  sidecar[PathOf[d]] = NoFile
<1>1. /\ DumpTypeOK /\ OneKey /\ SignedByKey /\ WantIsCurrent
      /\ r \in Requests /\ d \in Requests /\ NoFile # {d} /\ NoFile \notin Signatures
    BY DumpAssumption DEF DumpAssumption, Requests, SignInv, DumpInv, KeyInv
<1>2. RestoreVerify(r)
    <2>1. ~Kill
        BY <1>1 DEF Kill, DumpTypeOK
    <2>2. ASSUME NEW q \in Requests, KeyStep(q) PROVE FALSE
        BY <1>1, <2>2, KeyMoves DEF Moves
    <2>3. ASSUME NEW c \in Dumps, Dump(c) PROVE FALSE
        BY <1>1, <2>3, DumpMoves DEF Moves, Requests
    <2>4. ASSUME NEW s \in Restores, Restore(s) PROVE RestoreVerify(r)
        <3>1. s = r
            BY <1>1, <2>4, RestoreMoves DEF Moves, Requests
        <3>2. QED
            BY <1>1, <2>4, <3>1 DEF Restore, RestoreStart, RestoreFeed, At
    <2>5. QED
        BY <2>1, <2>2, <2>3, <2>4 DEF DumpNext, dumpVars
<1>3. ~Verifies(r)
    BY <1>1, <1>2 DEF RestoreVerify, At, DumpTypeOK
<1>4. file[PathOf[d]] # NoFile /\ writers[file[PathOf[d]]] = {d}
    BY <1>1 DEF Bytes
<1>5. Sign(r) = [by |-> keyData[keyFile], of |-> {d}]
    BY <1>1 DEF Sign, OneKey
<1>6. Sign(r) # NoFile
    BY <1>1, <1>5, SignType DEF Sign, Signatures, DumpTypeOK
<1>7. want[r] = sidecar[PathOf[d]]
    BY <1>1 DEF WantIsCurrent
<1>8. sidecar[PathOf[d]] \in {NoFile, [by |-> keyData[keyFile], of |-> {d}]}
    BY <1>1, <1>4 DEF SignedByKey
<1>9. QED
    BY <1>3, <1>5, <1>6, <1>7, <1>8 DEF Verifies

\* For any number of requests and kills, whether or not the key can be stored: a restore
\* that met no other request for its archive does not refuse a finished dump that is whole
\* there, and neither did; unless a key was drawn that may not be the key of the file.
THEOREM DumpsVerify == DumpSpec => OwnDumpsVerify
<1>1. SignInv /\ [DumpNext]_dumpVars
      => [\A r \in Restores :
            pc[r] = "hash" /\ pc'[r] = "denied" /\ r \notin shared
            => \A d \in Dumps \ shared :
                 pc[d] = "done" /\ PathOf[d] = PathOf[r] /\ Bytes(file[PathOf[d]]) = {d}
                 => sidecar[PathOf[d]] = NoFile \/ twoKeys]_dumpVars
    BY OwnDumpPasses
<1>2. QED
    BY <1>1, SignInvInit, SignInvStep, PTL DEF DumpSpec, OwnDumpsVerify

(***************************************************************************)
(* The enforcement gate.                                                   *)
(***************************************************************************)
\* The last executed request that the rulebook denies is still in the log, or the log no
\* longer reaches back to it: rotation never makes a box look cleaner than it was.
BreachOnRecord ==
    breached # Never => breached \in wds \/ (oldest # Never /\ breached <= oldest)

\* Only an opted-in box has ever been stamped.
StampOnlyByOptIn == stamp => optin

\* A box that was stamped when it began to enforce still has its stamp.
FlipIsStamped == flipped = "stamped" => stamp

USE EnforceAssumption DEF EnforceAssumption, Never

\* Each step keeps the flags Boolean ...
LEMMA FlagsStep == FlagsOK /\ [Next]_vars => FlagsOK'
BY Zenon DEF FlagsOK, Next, Start, StartByEnv, StartSticky, StartWatching, StartFlips,
   StartFails, Boot, WarmCache, GateScan, FillCache, Stop, Serve, ServeDenied, Rotate,
   EnforceEnable, Ping, ScanLog, Publish, SetEnv, Tick, vars, fileVars, cacheVars

\* ... and each other variable in its type.
LEMMA ValuesStep == ValuesOK /\ [Next]_vars => ValuesOK'
<1> SUFFICES ASSUME ValuesOK, [Next]_vars PROVE ValuesOK'
    OBVIOUS
<1> USE DEF ValuesOK
<1>1. CASE StartByEnv
    BY <1>1 DEF StartByEnv, Boot, LogLine, WarmCache
<1>2. CASE StartSticky
    BY <1>2 DEF StartSticky, Boot, LogLine, WarmCache
<1>3. CASE StartWatching
    BY <1>3 DEF StartWatching, Boot, LogLine, GateScan, FillCache, Answer
<1>4. CASE StartFlips
    BY <1>4 DEF StartFlips, Boot, LogLine, GateScan, FillCache, Answer
<1>5. CASE Stop
    BY <1>5 DEF Stop, fileVars, logVars
<1>6. CASE Serve
    BY <1>6 DEF Serve, LogLine, fileVars, cacheVars
<1>7. CASE ServeDenied
    BY <1>7 DEF ServeDenied, LogLine, fileVars, cacheVars
<1>8. CASE EnforceEnable
    BY <1>8 DEF EnforceEnable, LogLine, FillCache, Answer
<1>9. CASE Ping
    BY <1>9 DEF Ping, LogLine, fileVars
<1>10. CASE ScanLog
    BY <1>10 DEF ScanLog, Answer, fileVars, logVars
<1>11. CASE Publish
    BY <1>11 DEF Publish, fileVars, logVars
<1>12. CASE SetEnv
    BY <1>12 DEF SetEnv, logVars, cacheVars
<1>13. CASE Tick
    BY <1>13 DEF Tick, fileVars, logVars, cacheVars
<1>14. ASSUME NEW o \in 0..MaxTime, Rotate(o) PROVE ValuesOK'
    BY <1>14 DEF Rotate, fileVars, cacheVars
<1>15. CASE StartFails
    BY <1>15 DEF StartFails, LogLine, cacheVars
<1>16. CASE UNCHANGED vars
    BY <1>16 DEF vars, fileVars, logVars, cacheVars
<1>17. QED
    BY <1>1, <1>2, <1>3, <1>4, <1>5, <1>6, <1>7, <1>8, <1>9, <1>10, <1>11, <1>12, <1>13,
       <1>14, <1>15, <1>16 DEF Next, Start

\* The variables of the enforcement decision keep their types in every behaviour.
THEOREM TypeCorrect == Spec => []TypeOK
<1>1. Init => FlagsOK
    BY Zenon DEF Init, FlagsOK
<1>2. Init => ValuesOK
    BY DEF Init, ValuesOK
<1>3. TypeOK /\ [Next]_vars => TypeOK'
    BY FlagsStep, ValuesStep DEF TypeOK
<1>4. QED
    BY <1>1, <1>2, <1>3, PTL DEF Spec, TypeOK

(***************************************************************************)
(* The flip is safe.                                                       *)
(***************************************************************************)
LEMMA BreachStep == ValuesOK /\ BreachOnRecord /\ [Next]_vars => BreachOnRecord'
<1> SUFFICES ASSUME ValuesOK, BreachOnRecord, [Next]_vars PROVE BreachOnRecord'
    OBVIOUS
<1> USE DEF ValuesOK, BreachOnRecord
<1>1. CASE Start
    BY <1>1 DEF Start, StartByEnv, StartSticky, StartWatching, StartFlips, Boot, LogLine
<1>2. CASE StartFails \/ Serve \/ EnforceEnable \/ Ping
    BY <1>2 DEF StartFails, Serve, EnforceEnable, Ping, LogLine
<1>3. CASE ServeDenied
    BY <1>3 DEF ServeDenied
<1>4. CASE Stop \/ ScanLog \/ Publish \/ SetEnv \/ Tick \/ UNCHANGED vars
    BY <1>4 DEF Stop, ScanLog, Publish, SetEnv, Tick, vars, logVars
<1>5. ASSUME NEW o \in 0..MaxTime, Rotate(o) PROVE BreachOnRecord'
    BY <1>5 DEF Rotate
<1>6. QED
    BY <1>1, <1>2, <1>3, <1>4, <1>5 DEF Next

\* However the log is rotated, a box starts to enforce only CleanSecs after the last
\* request that the rulebook would have blocked.
THEOREM FlipIsSafe == Spec => FlipsOnlyWhenClean
<1>1. Init => BreachOnRecord
    BY DEF Init, BreachOnRecord
<1>2. Spec => []BreachOnRecord
    BY <1>1, BreachStep, TypeCorrect, PTL DEF Spec, TypeOK
<1>3. ASSUME ValuesOK, BreachOnRecord, Next,
             mode = "down", mode' = "enforce", env = "unset", ~stamp
      PROVE  breached = Never \/ now - breached >= CleanSecs
    <2>1. Clean
        BY <1>3 DEF Next, Start, StartByEnv, StartSticky, StartWatching, StartFlips, StartFails,
           Boot, Stop, Serve, ServeDenied, Rotate, EnforceEnable, Ping, ScanLog, Publish,
           SetEnv, Tick
    <2>2. QED
        BY <1>3, <2>1 DEF Clean, ValuesOK, BreachOnRecord
<1>4. ValuesOK /\ BreachOnRecord /\ [Next]_vars
      => [mode = "down" /\ mode' = "enforce" /\ env = "unset" /\ ~stamp
          => breached = Never \/ now - breached >= CleanSecs]_vars
    BY <1>3
<1>5. QED
    BY <1>2, <1>4, TypeCorrect, PTL DEF Spec, TypeOK, FlipsOnlyWhenClean

(***************************************************************************)
(* The flip is the operator's.                                             *)
(***************************************************************************)
LEMMA StampStep == StampOnlyByOptIn /\ [Next]_vars => StampOnlyByOptIn'
BY Zenon DEF StampOnlyByOptIn, Next, Start, StartByEnv, StartSticky, StartWatching, StartFlips,
   StartFails, Boot, Stop, Serve, ServeDenied, Rotate, EnforceEnable, Ping, ScanLog, Publish,
   SetEnv, Tick, vars, fileVars

\* Without the override in the unit file, no broker enforces on a box nobody opted in.
THEOREM FlipIsTheOperators == Spec => NeverFlipsItself
<1>1. Init => StampOnlyByOptIn
    BY Zenon DEF Init, StampOnlyByOptIn
<1>2. StampOnlyByOptIn /\ [Next]_vars
      => [mode = "down" /\ mode' = "enforce" /\ env = "unset" => optin]_vars
    BY Zenon DEF StampOnlyByOptIn, Next, Start, StartByEnv, StartSticky, StartWatching,
       StartFlips, StartFails, Boot, Stop, Serve, ServeDenied, Rotate, EnforceEnable, Ping,
       ScanLog, Publish, SetEnv, Tick
<1>3. QED
    BY <1>1, <1>2, StampStep, PTL DEF Spec, NeverFlipsItself

(***************************************************************************)
(* The flip lasts.                                                         *)
(***************************************************************************)
LEMMA FlippedStep == FlipIsStamped /\ [Next]_vars => FlipIsStamped'
BY Zenon DEF FlipIsStamped, Next, Start, StartByEnv, StartSticky, StartWatching, StartFlips,
   StartFails, Boot, Stop, Serve, ServeDenied, Rotate, EnforceEnable, Ping, ScanLog, Publish,
   SetEnv, Tick, vars, fileVars

\* Enforcement that was stamped is sticky: only the kill switch undoes it.
THEOREM FlipLasts == Spec => StickyOnceEnforced
<1>1. Init => FlipIsStamped
    BY Zenon DEF Init, FlipIsStamped
<1>2. FlipIsStamped /\ ValuesOK /\ [Next]_vars
      => [mode = "down" /\ mode' = "permissive" /\ flipped = "stamped" => env = "0"]_vars
    BY DEF FlipIsStamped, ValuesOK, Next, Start, StartByEnv, StartSticky, StartWatching,
       StartFlips, StartFails, Boot, Stop, Serve, ServeDenied, Rotate, EnforceEnable, Ping,
       ScanLog, Publish, SetEnv, Tick
<1>3. QED
    BY <1>1, <1>2, FlippedStep, TypeCorrect, PTL DEF Spec, TypeOK, StickyOnceEnforced
=============================================================================
