---------------------------- MODULE ProfileStore ----------------------------
(***************************************************************************)
(* One profile directory on disk and the processes that open it            *)
(* (src/sdk/profile.cpp): the check of the directory, the file lock, the    *)
(* marker, the password envelope, the encrypted keystore and atomic_write,  *)
(* system call by system call, with failing calls, processes that die and   *)
(* power losses that keep only what was flushed.  What a process does with  *)
(* the SDK between two writes is HostSession; here it is "in" the profile.  *)
(***************************************************************************)
EXTENDS Naturals, FiniteSets

CONSTANTS
    Hosts,       \* DevTools processes
    Records,     \* names of keystore records
    Keys,        \* master keys VaultCreate may draw: a bound of the model
    None,        \* no file, no key, nobody
    Torn,        \* a file whose bytes are incomplete
    MaxFaults    \* bound of the model: failed calls, crashes, power losses

ASSUME StoreAssumption ==
    /\ None \notin Hosts /\ None \notin Keys
    /\ None # Torn
    /\ MaxFaults \in Nat

Written == {"marker", "vault", "keystore"}      \* the files atomic_write replaces
Live(f) == <<f, "live">>
Pending(f) == <<f, "pending">>
Entries == (Written \X {"live", "pending"}) \cup {Live("lock"), Live("db"), Live("product")}

\* What a file says: the key it holds or is encrypted with, and records.
Content == [key : Keys \cup {None}, recs : SUBSET Records]
Says(k, r) == [key |-> k, recs |-> r]
Something == Says(None, {})                     \* a file whose content is of no account

VARIABLES
    \* the directory
    disk,       \* what processes see
    platter,    \* the directory entries a power loss cannot undo
    dirty,      \* entries whose bytes are not flushed
    holder,     \* who holds the lock on .devtools.lock
    \* each process
    at,         \* how far its start has come; "in": the session runs
    writing,    \* the atomic_write it is in, None outside
    mem,        \* key_ and records_
    \* history, not in the code
    acked,      \* the keystore last reported as written
    attempted,  \* keystores written since without such a report
    tampered,   \* somebody deleted the envelope
    drawn,      \* keys drawn so far
    faults

dirVars == <<disk, platter, dirty>>
history == <<acked, attempted, tampered, drawn>>
vars == <<dirVars, holder, at, writing, mem, history, faults>>

Writes == [file : Written, content : Content, prior : Content \cup {None},
           step : {"create", "write", "sync", "rename", "syncdir"}]

\* No file, nobody and an incomplete file are no contents and no calls.
ASSUME ContentAssumption == None \notin Content \cup Writes /\ Torn \notin Content

TypeOK ==
    /\ disk \in [Entries -> Content \cup {None, Torn}]
    /\ platter \in [Entries -> Content \cup {None, Torn}]
    /\ dirty \subseteq Entries
    /\ holder \in Hosts \cup {None}
    /\ at \in [Hosts -> {"out", "accepted", "locked", "marked", "vaulted", "in"}]
    /\ writing \in [Hosts -> Writes \cup {None}]
    /\ mem \in [Hosts -> Content \cup {None}]
    /\ \A h \in Hosts : at[h] \in {"out", "accepted", "locked"} => mem[h] = None    \* wiped
    /\ acked \in Content \cup {None} /\ attempted \subseteq Content
    /\ tampered \in BOOLEAN /\ drawn \subseteq Keys
    /\ faults \in 0..MaxFaults

\* The directory is there, and so, durably, is its own entry in its parent.
EmptyDir == [e \in Entries |-> None]

Init ==
    /\ disk \in {EmptyDir, [EmptyDir EXCEPT ![Live("product")] = Something]}
    /\ platter = disk /\ dirty = {}
    /\ holder = None
    /\ at = [h \in Hosts |-> "out"]
    /\ writing = [h \in Hosts |-> None]
    /\ mem = [h \in Hosts |-> None]
    /\ acked = None /\ attempted = {} /\ tampered = FALSE /\ drawn = {}
    /\ faults = 0

Exists(e) == disk[e] # None

Readable(d, f) == d[Live(f)] \notin {None, Torn}

Fault == faults < MaxFaults /\ faults' = faults + 1

---------------------------------------------------------------------------
(* lock_profile *)

\* Mutant: any directory is accepted.
Accept_Any(h) ==
    /\ at[h] = "out"
    /\ at' = [at EXCEPT ![h] = "accepted"]
    /\ UNCHANGED <<dirVars, holder, writing, mem, history, faults>>

\* Only an empty directory, or one with the marker; others are left alone.
Accept(h) ==
    /\ at[h] = "out"
    /\ Exists(Live("marker")) \/ disk = EmptyDir
    /\ at' = [at EXCEPT ![h] = "accepted"]
    /\ UNCHANGED <<dirVars, holder, writing, mem, history, faults>>

LockFile == [disk EXCEPT ![Live("lock")] = Something]

\* Mutant: the result of flock is not looked at.
LockFree_Ignored(h) == TRUE

LockFree(h) == holder = None

TakeLock(h) ==
    /\ at[h] = "accepted" /\ LockFree(h)
    /\ disk' = LockFile
    /\ holder' = h
    /\ at' = [at EXCEPT ![h] = "locked"]
    /\ UNCHANGED <<platter, dirty, writing, mem, history, faults>>

\* Held by another process, or inaccessible.
LockRefused(h) ==
    /\ at[h] = "accepted"
    /\ disk' \in {disk, LockFile}
    /\ at' = [at EXCEPT ![h] = "out"]
    /\ UNCHANGED <<platter, dirty, holder, writing, mem, history, faults>>

\* The call of atomic_write; prior is what a failed write callback restores.
Begin(h, f, content, prior) ==
    writing' = [writing EXCEPT ![h] = [file |-> f, content |-> content, prior |-> prior, step |-> "create"]]

Mark(h) ==
    /\ at[h] = "locked" /\ writing[h] = None
    /\ IF Exists(Live("marker"))
         THEN /\ at' = [at EXCEPT ![h] = "marked"] /\ UNCHANGED writing
         ELSE /\ Begin(h, "marker", Something, None) /\ UNCHANGED at
    /\ UNCHANGED <<dirVars, holder, mem, history, faults>>

---------------------------------------------------------------------------
(* PrepareProfile after the lock, unlock_profile *)

\* Mutant: key and records outlive the session.
Left_KeepsKey(h) ==
    /\ at' = [at EXCEPT ![h] = "out"]
    /\ writing' = [writing EXCEPT ![h] = None]
    /\ holder' = IF holder = h THEN None ELSE holder
    /\ UNCHANGED mem

\* unlock_profile: the lock goes, key and records are wiped.
Left(h) ==
    /\ at' = [at EXCEPT ![h] = "out"]
    /\ mem' = [mem EXCEPT ![h] = None]
    /\ writing' = [writing EXCEPT ![h] = None]
    /\ holder' = IF holder = h THEN None ELSE holder

\* The envelope opens with the password and the keystore with its key.
OpenVault(h) ==
    /\ at[h] = "marked" /\ writing[h] = None
    /\ Readable(disk, "vault") /\ Readable(disk, "keystore")
    /\ disk[Live("keystore")].key = disk[Live("vault")].key
    /\ mem' = [mem EXCEPT ![h] = disk[Live("keystore")]]
    /\ at' = [at EXCEPT ![h] = "in"]
    /\ UNCHANGED <<dirVars, holder, writing, history, faults>>

\* Mutant: only the envelope is looked for.
NoIdentity_VaultOnly == ~Exists(Live("vault"))

\* Without envelope a new one is made, unless identity files are there.
NoIdentity == ~Exists(Live("vault")) /\ ~Exists(Live("keystore")) /\ ~Exists(Live("db"))

CreateVault(h) ==
    /\ at[h] = "marked" /\ writing[h] = None
    /\ NoIdentity
    /\ \E k \in Keys \ drawn :
          /\ drawn' = drawn \cup {k}
          /\ mem' = [mem EXCEPT ![h] = Says(k, {})]
          /\ Begin(h, "vault", Says(k, {}), None)
    /\ UNCHANGED <<dirVars, holder, at, acked, attempted, tampered, faults>>

\* A wrong or missing password, a damaged or incomplete profile, a failing
\* SDK call: start gives up and leaves the files as they are.
PrepareFails(h) ==
    /\ at[h] = "marked" /\ writing[h] = None
    /\ Left(h)
    /\ UNCHANGED <<dirVars, history, faults>>

\* stop has detached the callbacks.
Leave(h) ==
    /\ at[h] = "in" /\ writing[h] = None
    /\ Left(h)
    /\ UNCHANGED <<dirVars, history, faults>>

---------------------------------------------------------------------------
(* The callbacks write and remove: change records_, then persist *)

Persist(h, recs) ==
    /\ at[h] = "in" /\ writing[h] = None
    /\ mem' = [mem EXCEPT ![h].recs = recs]
    /\ Begin(h, "keystore", Says(mem[h].key, recs), mem[h])
    /\ attempted' = attempted \cup {Says(mem[h].key, recs)}
    /\ UNCHANGED <<dirVars, holder, at, acked, tampered, drawn, faults>>

Write(h) == at[h] = "in" /\ \E n \in Records : Persist(h, mem[h].recs \cup {n})

Remove(h) == at[h] = "in" /\ \E n \in Records : Persist(h, mem[h].recs \ {n})

\* The SDK opens its database in the profile (OpenStore).
CreateDb(h) ==
    /\ at[h] = "in" /\ writing[h] = None /\ ~Exists(Live("db"))
    /\ disk' = [disk EXCEPT ![Live("db")] = Something]
    /\ platter' = [platter EXCEPT ![Live("db")] = Something]
    /\ UNCHANGED <<dirty, holder, at, writing, mem, history, faults>>

---------------------------------------------------------------------------
(* atomic_write *)

InStep(h, s) == writing[h] # None /\ writing[h].step = s
Then(h, s) == writing' = [writing EXCEPT ![h].step = s]
Target(h) == Live(writing[h].file)
Temp(h) == Pending(writing[h].file)

\* open(O_CREAT | O_EXCL): an empty .pending, unless one is there.
CreatePending(h) ==
    /\ InStep(h, "create") /\ ~Exists(Temp(h))
    /\ disk' = [disk EXCEPT ![Temp(h)] = Torn]
    /\ Then(h, "write")
    /\ UNCHANGED <<platter, dirty, holder, at, mem, history, faults>>

WriteBytes(h) ==
    /\ InStep(h, "write")
    /\ disk' = [disk EXCEPT ![Temp(h)] = writing[h].content]
    /\ dirty' = dirty \cup {Temp(h)}
    /\ Then(h, "sync")
    /\ UNCHANGED <<platter, holder, at, mem, history, faults>>

\* Mutant: no fsync before the rename.
Flushed_No(h) == dirty

Flushed(h) == dirty \ {Temp(h)}

SyncFile(h) ==
    /\ InStep(h, "sync")
    /\ dirty' = Flushed(h)
    /\ Then(h, "rename")
    /\ UNCHANGED <<disk, platter, holder, at, mem, history, faults>>

\* The file takes the place of the old one, flushed or not.
Rename(h) ==
    /\ InStep(h, "rename")
    /\ disk' = [disk EXCEPT ![Target(h)] = disk[Temp(h)], ![Temp(h)] = None]
    /\ dirty' = (dirty \ {Temp(h), Target(h)}) \cup (IF Temp(h) \in dirty THEN {Target(h)} ELSE {})
    /\ Then(h, "syncdir")
    /\ UNCHANGED <<platter, holder, at, mem, history, faults>>

\* Mutant: the directory is not synced.
EntriesSynced_No == platter

\* fsync of the directory: every entry survives as it is now.
EntriesSynced == disk

\* What the caller of a completed atomic_write does next.
WriteReturns(h) ==
    CASE at[h] = "locked" ->
           /\ at' = [at EXCEPT ![h] = "marked"]
           /\ writing' = [writing EXCEPT ![h] = None]
           /\ UNCHANGED <<acked, attempted>>
      [] at[h] = "marked" ->                        \* the envelope: persist()
           /\ at' = [at EXCEPT ![h] = "vaulted"]
           /\ Begin(h, "keystore", mem[h], None)
           /\ attempted' = attempted \cup {mem[h]} /\ UNCHANGED acked
      [] OTHER ->                                   \* the keystore
           /\ at' = [at EXCEPT ![h] = "in"]
           /\ writing' = [writing EXCEPT ![h] = None]
           /\ acked' = writing[h].content /\ attempted' = {}

SyncDir(h) ==
    /\ InStep(h, "syncdir")
    /\ platter' = EntriesSynced
    /\ WriteReturns(h)
    /\ UNCHANGED <<disk, dirty, holder, mem, tampered, drawn, faults>>

\* An exception of atomic_write: start gives up; a callback restores
\* records_ and reports the failure.  What is on disk stays.
WriteThrows(h) ==
    IF at[h] = "in"
      THEN /\ mem' = [mem EXCEPT ![h] = writing[h].prior]
           /\ writing' = [writing EXCEPT ![h] = None]
           /\ UNCHANGED <<at, holder>>
      ELSE Left(h)

\* A .pending is there already: it is kept for inspection.
PendingInTheWay(h) ==
    /\ InStep(h, "create") /\ Exists(Temp(h))
    /\ WriteThrows(h)
    /\ UNCHANGED <<dirVars, history, faults>>

\* One of the system calls fails; a failed write or fsync may leave anything.
CallFails(h) ==
    /\ writing[h] # None /\ Fault
    /\ disk' = IF writing[h].step \in {"write", "sync"}
                 THEN [disk EXCEPT ![Temp(h)] = Torn] ELSE disk
    /\ WriteThrows(h)
    /\ UNCHANGED <<platter, dirty, history>>

AtomicWrite(h) ==
    \/ CreatePending(h) \/ WriteBytes(h) \/ SyncFile(h) \/ Rename(h) \/ SyncDir(h)
    \/ PendingInTheWay(h) \/ CallFails(h)

---------------------------------------------------------------------------
(* The world *)

\* The process dies; the system releases its lock.
Crash(h) ==
    /\ at[h] # "out" /\ Fault
    /\ Left(h)
    /\ UNCHANGED <<dirVars, history>>

Unsynced == {e \in Entries : disk[e] # platter[e]} \cup dirty

\* What a power loss now could leave: of every entry that is not synced the
\* old or the new file, and a file that is not flushed may be torn.
Survivor(kept, torn) ==
    [e \in Entries |-> IF e \in kept \cap torn THEN Torn
                       ELSE IF e \in kept THEN disk[e] ELSE platter[e]]

Survivors == {Survivor(kept, torn) : kept \in SUBSET Unsynced, torn \in SUBSET dirty}

PowerLoss ==
    /\ Fault
    /\ disk' \in Survivors /\ platter' = disk' /\ dirty' = {}
    /\ holder' = None
    /\ at' = [h \in Hosts |-> "out"]
    /\ writing' = [h \in Hosts |-> None]
    /\ mem' = [h \in Hosts |-> None]
    /\ UNCHANGED history

\* Somebody deletes vault.enc while no process has the profile open.
LoseEnvelope ==
    /\ Exists(Live("vault")) /\ holder = None /\ Fault
    /\ disk' = [disk EXCEPT ![Live("vault")] = None]
    /\ platter' = [platter EXCEPT ![Live("vault")] = None]
    /\ tampered' = TRUE
    /\ UNCHANGED <<dirty, holder, at, writing, mem, acked, attempted, drawn>>

---------------------------------------------------------------------------

Host(h) ==
    \/ Accept(h) \/ TakeLock(h) \/ LockRefused(h) \/ Mark(h)
    \/ OpenVault(h) \/ CreateVault(h) \/ PrepareFails(h) \/ Leave(h)
    \/ Write(h) \/ Remove(h) \/ CreateDb(h)
    \/ AtomicWrite(h)
    \/ Crash(h)

Next == (\E h \in Hosts : Host(h)) \/ PowerLoss \/ LoseEnvelope

Spec == Init /\ [][Next]_vars

---------------------------------------------------------------------------
(* Properties *)

\* PrepareProfile would open the profile in this directory.
Opens(d) ==
    /\ d[Live("marker")] # None
    /\ Readable(d, "vault") /\ Readable(d, "keystore")
    /\ d[Live("keystore")].key = d[Live("vault")].key

\* An identity reported as written can be opened ever after, as long as the
\* directory itself is there: whatever fails or crashes next, and whatever a
\* power loss leaves of what is in the directory, marker,
\* envelope and keystore are there, whole and of one key, and the keystore is
\* the one reported or one written since (profile.cpp: atomic_write, persist,
\* PrepareProfile).
AcknowledgedOpens ==
    acked # None /\ ~tampered =>
        \A d \in Survivors : Opens(d) /\ d[Live("keystore")] \in {acked} \cup attempted

\* c is one of the known keystores with a record more or less.
BuildsOn(c, known) ==
    \E base \in known \ {c, None}, n \in Records :
        base.key = c.key /\ c.recs \in {base.recs \cup {n}, base.recs \ {n}}

\* Every keystore reported as written is one change away from the one reported
\* before or another one written since: no process writes over another's records
\* (profile.cpp: lock_profile, write, remove).
UpdatesBuildOn ==
    [][acked' # acked =>
          \/ acked = None /\ acked'.recs = {}
          \/ BuildsOn(acked', {acked} \cup attempted)]_vars

\* A keystore is never replaced by one of another identity, also when the
\* envelope was lost (profile.cpp: PrepareProfile).
NeverReplaced ==
    [][Readable(disk, "keystore") /\ Readable(disk', "keystore")
          => disk'[Live("keystore")].key = disk[Live("keystore")].key]_vars

\* Product data is never opened: a directory with files of somebody else and
\* no marker gets no file of ours (profile.cpp: lock_profile).
ProductUntouched ==
    Exists(Live("product")) => \A e \in Entries \ {Live("product")} : ~Exists(e)

\* A directory without the marker is refused for good, so it never holds an
\* identity: whatever crash or power loss cut a start short, neither keystore
\* nor database survives where the marker does not (profile.cpp: lock_profile,
\* atomic_write; the marker is written before any of them).
RefusedHoldsNothing ==
    \A d \in Survivors :
        d[Live("marker")] = None => d[Live("keystore")] = None /\ d[Live("db")] = None

\* A failed write keeps the original keystore: between two writes the file
\* says what records_ says (profile.cpp: the comment in persist).
MemoryMatchesFile ==
    \A h \in Hosts : at[h] = "in" /\ writing[h] = None => disk[Live("keystore")] = mem[h]
=============================================================================
