------------------------ MODULE ProfileStore_proofs ------------------------
(***************************************************************************)
(* Theorems about ProfileStore, for every set of processes, records and    *)
(* keys and any number of faults: what is in the directory and on the      *)
(* platter, how far its only writer has come, and what was reported as     *)
(* written fit together after every system call.                           *)
(***************************************************************************)
EXTENDS ProfileStore, TLAPS

Marker == Live("marker")
Vault == Live("vault")
Keystore == Live("keystore")
Db == Live("db")
Product == Live("product")

\* The envelope of a new identity is being written, or its first keystore.
Creating(h) == at[h] = "vaulted" \/ (at[h] = "marked" /\ writing[h] # None)

\* Who holds the lock, what it writes and what it has in memory.
WriterInv == \A h \in Hosts :
    /\ holder = h <=> at[h] \notin {"out", "accepted"}
    /\ at[h] = "vaulted" => writing[h] # None
    /\ at[h] = "in" \/ Creating(h) => mem[h] \in Content
    /\ Creating(h) => mem[h].recs = {}
    /\ writing[h] # None =>
          \/ at[h] = "locked" /\ writing[h].file = "marker"
          \/ at[h] = "marked" /\ writing[h].file = "vault" /\ writing[h].content = mem[h]
          \/ at[h] \in {"vaulted", "in"} /\ writing[h].file = "keystore" /\ writing[h].content = mem[h]
    /\ at[h] = "in" /\ writing[h] # None =>
          writing[h].prior \in Content /\ writing[h].prior.key = mem[h].key

\* A .pending is whole and flushed before it takes a file's place; a marker or
\* an envelope never takes the place of another.
FilesInv ==
    /\ dirty \subseteq {Pending(f) : f \in Written}
    /\ \A f \in Written : disk[Live(f)] # Torn /\ platter[Live(f)] # Torn
    /\ \A h \in Hosts : writing[h] # None =>
          /\ writing[h].step \in {"sync", "rename"} => disk[Temp(h)] = writing[h].content
          /\ writing[h].step = "rename" => Temp(h) \notin dirty
          /\ writing[h].step = "syncdir" => disk[Target(h)] = writing[h].content
          /\ writing[h].step # "syncdir" /\ at[h] # "in" => disk[Target(h)] = None

\* Nothing of ours outlives a marker.
MarkerInv ==
    /\ platter[Marker] # None => disk[Marker] # None
    /\ \A h \in Hosts : at[h] \in {"marked", "vaulted", "in"} => disk[Marker] # None
    /\ \A h \in Hosts : at[h] \in {"vaulted", "in"} => platter[Marker] # None
    /\ (\E e \in {Keystore, Db} : disk[e] # None \/ platter[e] # None) => platter[Marker] # None

\* A directory of somebody else keeps everybody out.
ProductInv ==
    /\ disk[Product] = platter[Product]
    /\ disk[Product] # None =>
          /\ \A e \in Entries \ {Product} : disk[e] = None /\ platter[e] = None
          /\ dirty = {}
          /\ \A h \in Hosts : at[h] = "out"

\* Envelope, keystore and memory have one key.
KeysInv ==
    /\ platter[Keystore] # None => disk[Keystore] # None /\ disk[Keystore].key = platter[Keystore].key
    /\ \A h \in Hosts : at[h] \in {"vaulted", "in"} => disk[Vault] # None /\ disk[Vault].key = mem[h].key
    /\ \A h \in Hosts : at[h] = "in" => disk[Keystore] # None /\ disk[Keystore].key = mem[h].key
    /\ \A h \in Hosts : Creating(h) =>
          /\ platter[Keystore] = None
          /\ disk[Keystore] = IF writing[h].file = "keystore" /\ writing[h].step = "syncdir"
                                THEN mem[h] ELSE None

Known == {acked} \cup attempted

\* What is on disk and in memory is the keystore last reported as written, or
\* one tried since.
ReportInv ==
    /\ \A d \in {disk, platter} : d[Keystore] # None => d[Keystore] \in Known
    /\ \A h \in Hosts : at[h] \in {"vaulted", "in"} => mem[h] \in Known
    /\ \A h \in Hosts : at[h] = "in" /\ writing[h] # None => mem[h] \in attempted /\ writing[h].prior \in Known
    /\ acked # None =>
          /\ platter[Keystore] # None
          /\ \A c \in attempted : c.key = acked.key
          /\ ~tampered => /\ disk[Vault] # None /\ platter[Vault] = disk[Vault]
                          /\ disk[Vault].key = acked.key
    /\ \A c \in attempted : c = acked \/ (acked = None /\ c.recs = {}) \/ BuildsOn(c, Known)

StoreInv ==
    /\ TypeOK /\ WriterInv /\ FilesInv /\ MarkerInv /\ ProductInv /\ KeysInv /\ ReportInv

---------------------------------------------------------------------------
(* The directory, contents and calls *)

\* The files of a profile are different entries of its directory.
LEMMA EntryFacts ==
    /\ {Marker, Vault, Keystore, Db, Product, Live("lock")} \subseteq Entries
    /\ \A f \in Written : Live(f) \in {Marker, Vault, Keystore} /\ Pending(f) \in Entries
    /\ \A f \in Written : Pending(f) \notin {Marker, Vault, Keystore, Db, Product, Live("lock")}
    /\ \A f, g \in Written : (Live(f) = Live(g) => f = g) /\ (Pending(f) = Pending(g) => f = g)
    /\ Marker # Vault /\ Marker # Keystore /\ Marker # Db /\ Marker # Product /\ Marker # Live("lock")
    /\ Vault # Keystore /\ Vault # Db /\ Vault # Product /\ Vault # Live("lock")
    /\ Keystore # Db /\ Keystore # Product /\ Keystore # Live("lock")
    /\ Db # Product /\ Db # Live("lock") /\ Product # Live("lock")
    /\ "marker" \in Written /\ "vault" \in Written /\ "keystore" \in Written
    /\ Live("marker") = Marker /\ Live("vault") = Vault /\ Live("keystore") = Keystore
    /\ Live("db") = Db /\ Live("product") = Product
      BY DEF Marker, Vault, Keystore, Db, Product, Live, Pending, Entries, Written

\* What Says builds, and a keystore with other records.
LEMMA ContentFacts ==
    /\ Something \in Content /\ Something # None /\ Something # Torn
    /\ \A k \in Keys, r \in SUBSET Records :
          Says(k, r) \in Content /\ Says(k, r).key = k /\ Says(k, r).recs = r
    /\ \A c \in Content, r \in SUBSET Records :
          /\ [c EXCEPT !.recs = r] = Says(c.key, r)
          /\ Says(c.key, r) \in Content /\ Says(c.key, r).key = c.key /\ Says(c.key, r).recs = r
    /\ \A c \in Content : c # None /\ c # Torn /\ c.recs \in SUBSET Records
    /\ None # Torn
<1>1. Something \in Content
      BY DEF Something, Says, Content
<1>2. \A k \in Keys, r \in SUBSET Records :
          Says(k, r) \in Content /\ Says(k, r).key = k /\ Says(k, r).recs = r
      BY DEF Says, Content
<1>3. \A c \in Content, r \in SUBSET Records :
          /\ [c EXCEPT !.recs = r] = Says(c.key, r)
          /\ Says(c.key, r) \in Content /\ Says(c.key, r).key = c.key /\ Says(c.key, r).recs = r
      BY DEF Says, Content
<1>4. \A c \in Content : c # None /\ c # Torn /\ c.recs \in SUBSET Records
      BY ContentAssumption DEF Content
<1>5. None # Torn
      BY StoreAssumption
<1> QED
      BY <1>1, <1>2, <1>3, <1>4, <1>5

Call(f, content, prior, step) == [file |-> f, content |-> content, prior |-> prior, step |-> step]

\* A call of atomic_write and its progress.
LEMMA CallFacts ==
    /\ \A f \in Written, c \in Content, p \in Content \cup {None},
          s \in {"create", "write", "sync", "rename", "syncdir"} :
          /\ Call(f, c, p, s) \in Writes /\ Call(f, c, p, s) # None
          /\ Call(f, c, p, s).file = f /\ Call(f, c, p, s).content = c
          /\ Call(f, c, p, s).prior = p /\ Call(f, c, p, s).step = s
    /\ \A w \in Writes :
          /\ w.file \in Written /\ w.content \in Content /\ w.prior \in Content \cup {None}
          /\ w.step \in {"create", "write", "sync", "rename", "syncdir"}
          /\ \A s \in {"create", "write", "sync", "rename", "syncdir"} :
                [w EXCEPT !.step = s] = Call(w.file, w.content, w.prior, s)
    /\ None \notin Writes
<1>1. \A f \in Written, c \in Content, p \in Content \cup {None},
          s \in {"create", "write", "sync", "rename", "syncdir"} :
          /\ Call(f, c, p, s) \in Writes /\ Call(f, c, p, s) # None
          /\ Call(f, c, p, s).file = f /\ Call(f, c, p, s).content = c
          /\ Call(f, c, p, s).prior = p /\ Call(f, c, p, s).step = s
  <2> SUFFICES ASSUME NEW f \in Written, NEW c \in Content, NEW p \in Content \cup {None},
                      NEW s \in {"create", "write", "sync", "rename", "syncdir"}
               PROVE  /\ Call(f, c, p, s) \in Writes /\ Call(f, c, p, s) # None
                      /\ Call(f, c, p, s).file = f /\ Call(f, c, p, s).content = c
                      /\ Call(f, c, p, s).prior = p /\ Call(f, c, p, s).step = s
      OBVIOUS
  <2>1. Call(f, c, p, s) \in Writes
        BY DEF Call, Writes
  <2>2. Call(f, c, p, s) # None
        BY <2>1, ContentAssumption
  <2> QED
        BY <2>1, <2>2 DEF Call
<1>2. \A w \in Writes :
          /\ w.file \in Written /\ w.content \in Content /\ w.prior \in Content \cup {None}
          /\ w.step \in {"create", "write", "sync", "rename", "syncdir"}
          /\ \A s \in {"create", "write", "sync", "rename", "syncdir"} :
                [w EXCEPT !.step = s] = Call(w.file, w.content, w.prior, s)
      BY DEF Call, Writes
<1>3. None \notin Writes
      BY ContentAssumption
<1> QED
      BY <1>1, <1>2, <1>3

\* Only the holder of the lock is beyond it.
LEMMA OneWriter ==
    WriterInv => \A h, g \in Hosts :
        at[h] \notin {"out", "accepted"} /\ at[g] \notin {"out", "accepted"} => h = g
      BY DEF WriterInv

\* A power loss leaves every entry old or new, or torn if it was not flushed.
LEMMA SurvivorFacts ==
    ASSUME TypeOK, NEW d \in Survivors
    PROVE  /\ d \in [Entries -> Content \cup {None, Torn}]
           /\ \A e \in Entries : d[e] \in {disk[e], platter[e]} \/ (e \in dirty /\ d[e] = Torn)
<1>1. PICK kept \in SUBSET Unsynced, torn \in SUBSET dirty : d = Survivor(kept, torn)
      BY DEF Survivors
<1> QED
      BY <1>1 DEF Survivor, TypeOK

\* lock_profile accepts an empty directory or a profile.
LEMMA AcceptStep ==
    ASSUME StoreInv, NEW h \in Hosts, Accept(h)
    PROVE  StoreInv'
<1> USE DEF StoreInv
<1>1. TypeOK'
      BY DEF Accept, dirVars, history, TypeOK, WriterInv
<1>2. WriterInv'
      BY DEF Accept, dirVars, history, TypeOK, WriterInv, Creating
<1>3. FilesInv'
      BY DEF Accept, dirVars, history, TypeOK, WriterInv, FilesInv, Temp, Target
<1>4. MarkerInv'
      BY DEF Accept, dirVars, history, TypeOK, WriterInv, MarkerInv, Creating
<1>5. ProductInv'
      BY EntryFacts DEF Accept, dirVars, history, Exists, EmptyDir, Marker, Product, TypeOK, WriterInv, ProductInv
<1>6. KeysInv'
      BY DEF Accept, dirVars, history, TypeOK, WriterInv, KeysInv, Creating
<1>7. ReportInv'
      BY DEF Accept, dirVars, history, TypeOK, WriterInv, KeysInv, ReportInv, Known, BuildsOn, Creating
<1> QED
      BY <1>1, <1>2, <1>3, <1>4, <1>5, <1>6, <1>7

\* The files written, and what is written to them.
LEMMA CallTypes ==
    ASSUME TypeOK, NEW g \in Hosts, writing[g] # None
    PROVE  /\ writing[g].file \in Written /\ writing[g].content \in Content
           /\ writing[g].prior \in Content \cup {None}
           /\ writing[g].step \in {"create", "write", "sync", "rename", "syncdir"}
           /\ writing[g] \in Writes
      BY DEF TypeOK, Writes

\* The lock file is of no account to the profile.
LEMMA LockFileFacts ==
    ASSUME TypeOK, disk' \in {disk, LockFile}
    PROVE  /\ disk' \in [Entries -> Content \cup {None, Torn}]
           /\ \A f \in Written : disk'[Live(f)] = disk[Live(f)] /\ disk'[Pending(f)] = disk[Pending(f)]
           /\ \A e \in {Marker, Vault, Keystore, Db, Product} : disk'[e] = disk[e]
<1>1. Live("lock") \in Entries /\ Something \in Content
      BY EntryFacts, ContentFacts
<1>2. /\ disk' \in [Entries -> Content \cup {None, Torn}]
      /\ \A e \in Entries : e # Live("lock") => disk'[e] = disk[e]
      BY <1>1 DEF TypeOK, LockFile
<1> QED
      BY <1>2, EntryFacts

\* lock_profile creates and locks the lock file.
LEMMA TakeLockStep ==
    ASSUME StoreInv, NEW h \in Hosts, TakeLock(h)
    PROVE  StoreInv'
<1> USE DEF StoreInv
<1>1. /\ disk' \in [Entries -> Content \cup {None, Torn}]
      /\ \A f \in Written : disk'[Live(f)] = disk[Live(f)] /\ disk'[Pending(f)] = disk[Pending(f)]
      /\ \A e \in {Marker, Vault, Keystore, Db, Product} : disk'[e] = disk[e]
      BY LockFileFacts DEF TakeLock
<1>2. \A g \in Hosts : at[g] \in {"out", "accepted"}
      BY StoreAssumption DEF TakeLock, LockFree, WriterInv, TypeOK
<1>3. TypeOK'
      BY <1>1, <1>2 DEF TakeLock, LockFree, history, TypeOK, WriterInv
<1>4. WriterInv'
      BY <1>1, <1>2 DEF TakeLock, LockFree, history, TypeOK, WriterInv, Creating
<1>5. FilesInv'
      BY <1>1, <1>2 DEF TakeLock, LockFree, history, TypeOK, WriterInv, FilesInv, Temp, Target
<1>6. MarkerInv'
      BY <1>1, <1>2 DEF TakeLock, LockFree, history, TypeOK, WriterInv, MarkerInv, Creating
<1>7. ProductInv'
      BY <1>1, <1>2, EntryFacts DEF TakeLock, LockFree, history, TypeOK, WriterInv, ProductInv
<1>8. KeysInv'
      BY <1>1, <1>2 DEF TakeLock, LockFree, history, TypeOK, WriterInv, KeysInv, Creating
<1>9. ReportInv'
      BY <1>1, <1>2 DEF TakeLock, LockFree, history, TypeOK, WriterInv, KeysInv, ReportInv, Known, BuildsOn, Creating
<1> QED
      BY <1>3, <1>4, <1>5, <1>6, <1>7, <1>8, <1>9

\* lock_profile finds the lock held, or fails.
LEMMA LockRefusedStep ==
    ASSUME StoreInv, NEW h \in Hosts, LockRefused(h)
    PROVE  StoreInv'
<1> USE DEF StoreInv
<1>1. /\ disk' \in [Entries -> Content \cup {None, Torn}]
      /\ \A f \in Written : disk'[Live(f)] = disk[Live(f)] /\ disk'[Pending(f)] = disk[Pending(f)]
      /\ \A e \in {Marker, Vault, Keystore, Db, Product} : disk'[e] = disk[e]
      BY LockFileFacts DEF LockRefused
<1>2. TypeOK'
      BY <1>1 DEF LockRefused, history, TypeOK, WriterInv
<1>3. WriterInv'
      BY <1>1 DEF LockRefused, history, TypeOK, WriterInv, Creating
<1>4. FilesInv'
      BY <1>1, CallTypes DEF LockRefused, history, TypeOK, WriterInv, FilesInv, Temp, Target
<1>5. MarkerInv'
      BY <1>1 DEF LockRefused, history, TypeOK, WriterInv, MarkerInv, Creating
<1>6. ProductInv'
      BY <1>1, EntryFacts DEF LockRefused, history, TypeOK, WriterInv, ProductInv
<1>7. KeysInv'
      BY <1>1 DEF LockRefused, history, TypeOK, WriterInv, KeysInv, Creating
<1>8. ReportInv'
      BY <1>1 DEF LockRefused, history, TypeOK, WriterInv, KeysInv, ReportInv, Known, BuildsOn, Creating
<1> QED
      BY <1>2, <1>3, <1>4, <1>5, <1>6, <1>7, <1>8

\* atomic_write is called: a call of its own, not yet begun.
LEMMA BeginFacts ==
    ASSUME TypeOK, NEW h \in Hosts, NEW f \in Written, NEW c \in Content, NEW p \in Content \cup {None},
           Begin(h, f, c, p)
    PROVE  /\ writing' \in [Hosts -> Writes \cup {None}]
           /\ \A g \in Hosts : g # h => writing'[g] = writing[g]
           /\ writing'[h] # None
           /\ writing'[h].file = f /\ writing'[h].content = c /\ writing'[h].prior = p
           /\ writing'[h].step = "create"
<1> DEFINE w == Call(f, c, p, "create")
<1>1. /\ w \in Writes /\ w # None
      /\ w.file = f /\ w.content = c /\ w.prior = p /\ w.step = "create"
      BY CallFacts
<1>2. writing' = [writing EXCEPT ![h] = w]
      BY DEF Begin, Call
<1> HIDE DEF w
<1> QED
      BY <1>1, <1>2 DEF TypeOK

\* PrepareProfile goes on from the lock: the marker is there, or is written.
LEMMA MarkStep ==
    ASSUME StoreInv, NEW h \in Hosts, Mark(h)
    PROVE  StoreInv'
<1> USE DEF StoreInv
<1>1. /\ at[h] = "locked" /\ writing[h] = None /\ UNCHANGED <<dirVars, holder, mem, history, faults>>
      /\ Live("marker") = Marker /\ "marker" \in Written
      BY EntryFacts DEF Mark
<1>2. \/ disk[Marker] # None /\ at' = [at EXCEPT ![h] = "marked"] /\ writing' = writing
      \/ /\ disk[Marker] = None /\ at' = at /\ writing' \in [Hosts -> Writes \cup {None}]
         /\ \A g \in Hosts : g # h => writing'[g] = writing[g]
         /\ writing'[h] # None /\ writing'[h].file = "marker" /\ writing'[h].step = "create"
  <2>1. Something \in Content
        BY ContentFacts
  <2> QED
        BY <1>1, <2>1, BeginFacts DEF Mark, Exists
<1>3. TypeOK'
      BY <1>1, <1>2 DEF dirVars, history, TypeOK, WriterInv
<1>4. WriterInv'
      BY <1>1, <1>2 DEF dirVars, history, TypeOK, WriterInv, Creating
<1>5. FilesInv'
      BY <1>1, <1>2 DEF dirVars, history, TypeOK, WriterInv, FilesInv, Temp, Target
<1>6. MarkerInv'
      BY <1>1, <1>2 DEF dirVars, history, TypeOK, WriterInv, MarkerInv, Creating
<1>7. ProductInv'
      BY <1>1, <1>2 DEF dirVars, history, TypeOK, WriterInv, ProductInv
<1>8. KeysInv'
      BY <1>1, <1>2 DEF dirVars, history, TypeOK, WriterInv, KeysInv, Creating
<1>9. ReportInv'
      BY <1>1, <1>2 DEF dirVars, history, TypeOK, WriterInv, KeysInv, ReportInv, Known, BuildsOn, Creating
<1> QED
      BY <1>3, <1>4, <1>5, <1>6, <1>7, <1>8, <1>9

\* PrepareProfile opens envelope and keystore with the password.
LEMMA OpenVaultStep ==
    ASSUME StoreInv, NEW h \in Hosts, OpenVault(h)
    PROVE  StoreInv'
<1> USE DEF StoreInv
<1>1. /\ at[h] = "marked" /\ writing[h] = None /\ UNCHANGED <<dirVars, holder, writing, history, faults>>
      /\ disk[Vault] # None /\ disk[Keystore] # None /\ disk[Keystore] \in Content
      /\ disk[Keystore].key = disk[Vault].key
      /\ mem' = [mem EXCEPT ![h] = disk[Keystore]] /\ at' = [at EXCEPT ![h] = "in"]
      BY EntryFacts DEF OpenVault, Readable, TypeOK
<1>2. TypeOK'
      BY <1>1 DEF dirVars, history, TypeOK, WriterInv
<1>3. WriterInv'
      BY <1>1 DEF dirVars, history, TypeOK, WriterInv, Creating
<1>4. FilesInv'
      BY <1>1 DEF dirVars, history, TypeOK, WriterInv, FilesInv, Temp, Target
<1>5. MarkerInv'
      BY <1>1 DEF dirVars, history, TypeOK, WriterInv, MarkerInv, Creating
<1>6. ProductInv'
      BY <1>1 DEF dirVars, history, TypeOK, WriterInv, ProductInv
<1>7. KeysInv'
      BY <1>1 DEF dirVars, history, TypeOK, WriterInv, KeysInv, Creating
<1>8. ReportInv'
      BY <1>1 DEF dirVars, history, TypeOK, WriterInv, KeysInv, ReportInv, Known, BuildsOn, Creating
<1> QED
      BY <1>2, <1>3, <1>4, <1>5, <1>6, <1>7, <1>8

\* A new identity: a key is drawn and its envelope written first.
LEMMA CreateVaultStep ==
    ASSUME StoreInv, NEW h \in Hosts, CreateVault(h)
    PROVE  StoreInv'
<1> USE DEF StoreInv
<1>1. PICK k \in Keys : /\ mem' = [mem EXCEPT ![h] = Says(k, {})]
                        /\ Begin(h, "vault", Says(k, {}), None)
                        /\ drawn' = drawn \cup {k}
      BY DEF CreateVault
<1>2. /\ at[h] = "marked" /\ writing[h] = None
      /\ UNCHANGED <<dirVars, holder, at, acked, attempted, tampered, faults>>
      /\ disk[Vault] = None /\ disk[Keystore] = None /\ Live("vault") = Vault /\ "vault" \in Written
      BY EntryFacts DEF CreateVault, NoIdentity, Exists
<1>3. Says(k, {}) \in Content /\ Says(k, {}).recs = {}
      BY ContentFacts
<1>4. /\ writing' \in [Hosts -> Writes \cup {None}]
      /\ \A g \in Hosts : g # h => writing'[g] = writing[g]
      /\ writing'[h] # None
      /\ writing'[h].file = "vault" /\ writing'[h].content = Says(k, {})
      /\ writing'[h].step = "create"
      BY <1>1, <1>2, <1>3, BeginFacts
<1>5. /\ mem' \in [Hosts -> Content \cup {None}]
      /\ \A g \in Hosts : g # h => mem'[g] = mem[g]
      /\ mem'[h] = Says(k, {})
      BY <1>1, <1>3 DEF TypeOK
<1>6. drawn' \subseteq Keys
      BY <1>1 DEF TypeOK
<1>7. TypeOK'
      BY <1>2, <1>3, <1>4, <1>5, <1>6 DEF dirVars, TypeOK, WriterInv
<1>8. WriterInv'
      BY <1>2, <1>3, <1>4, <1>5 DEF dirVars, TypeOK, WriterInv, Creating
<1>9. FilesInv'
      BY <1>2, <1>3, <1>4, <1>5 DEF dirVars, TypeOK, WriterInv, FilesInv, Temp, Target
<1>10. MarkerInv'
      BY <1>2, <1>3, <1>4, <1>5 DEF dirVars, TypeOK, WriterInv, MarkerInv, Creating
<1>11. ProductInv'
      BY <1>2, <1>3, <1>4, <1>5 DEF dirVars, TypeOK, WriterInv, ProductInv
<1>12. KeysInv'
      BY <1>2, <1>3, <1>4, <1>5 DEF dirVars, TypeOK, WriterInv, KeysInv, Creating
<1>13. ReportInv'
      BY <1>2, <1>3, <1>4, <1>5 DEF dirVars, TypeOK, WriterInv, KeysInv, ReportInv, Known, BuildsOn, Creating
<1> QED
      BY <1>7, <1>8, <1>9, <1>10, <1>11, <1>12, <1>13

\* Key and records are wiped and the lock released: what is on disk may stay
\* as it is, a .pending torn.
LEMMA LeftStep ==
    ASSUME StoreInv, NEW h \in Hosts, Left(h),
           at[h] # "out", disk' = disk \/ holder = h,
           \A e \in Entries : disk'[e] = disk[e] \/ \E f \in Written : e = Pending(f),
           disk' \in [Entries -> Content \cup {None, Torn}],
           faults' \in 0..MaxFaults, UNCHANGED <<platter, dirty, history>>
    PROVE  StoreInv'
<1> USE DEF StoreInv
<1>1. /\ at' = [at EXCEPT ![h] = "out"] /\ mem' = [mem EXCEPT ![h] = None]
      /\ writing' = [writing EXCEPT ![h] = None]
      /\ holder' = IF holder = h THEN None ELSE holder
      BY DEF Left
<1>2. disk[Product] = None
      BY DEF ProductInv
<1>3. \A e \in {Marker, Vault, Keystore, Db, Product} : disk'[e] = disk[e]
      BY EntryFacts
<1>4. \A f \in Written : disk'[Live(f)] = disk[Live(f)]
      BY <1>3, EntryFacts
<1>5. TypeOK'
      BY <1>1 DEF history, TypeOK, WriterInv, Creating
<1>6. WriterInv'
      BY <1>1, StoreAssumption DEF history, TypeOK, WriterInv, Creating
<1>7. FilesInv'
      BY <1>1, <1>3, <1>4, CallTypes DEF history, TypeOK, WriterInv, FilesInv, Temp, Target, Creating
<1>8. MarkerInv'
      BY <1>1, <1>3 DEF history, TypeOK, WriterInv, MarkerInv
<1>9. ProductInv'
      BY <1>1, <1>2, <1>3 DEF history, TypeOK, WriterInv, ProductInv
<1>10. KeysInv'
      BY <1>1, <1>3 DEF history, TypeOK, WriterInv, KeysInv, Creating
<1>11. ReportInv'
      BY <1>1, <1>3 DEF history, TypeOK, WriterInv, ReportInv, Known, BuildsOn, Creating
<1> QED
      BY <1>5, <1>6, <1>7, <1>8, <1>9, <1>10, <1>11

\* start gives up, stop has detached, or the process dies.
LEMMA GoneStep ==
    ASSUME StoreInv, NEW h \in Hosts, PrepareFails(h) \/ Leave(h) \/ Crash(h)
    PROVE  StoreInv'
<1>1. /\ Left(h) /\ at[h] # "out" /\ UNCHANGED <<disk, platter, dirty, history>>
      /\ faults' \in 0..MaxFaults
      BY StoreAssumption DEF PrepareFails, Leave, Crash, Fault, dirVars, StoreInv, TypeOK
<1> QED
      BY <1>1, LeftStep DEF StoreInv, TypeOK

\* A failed call ends atomic_write: start gives up, a callback restores
\* records_; only the .pending may be damaged.
LEMMA ThrowsStep ==
    ASSUME StoreInv, NEW h \in Hosts, PendingInTheWay(h) \/ CallFails(h)
    PROVE  StoreInv'
<1> USE DEF StoreInv
<1>1. /\ writing[h] # None /\ WriteThrows(h) /\ UNCHANGED <<platter, dirty, history>>
      /\ disk' = disk \/ disk' = [disk EXCEPT ![Temp(h)] = Torn]
      /\ faults' \in 0..MaxFaults
      BY StoreAssumption DEF PendingInTheWay, CallFails, InStep, Fault, dirVars, TypeOK
<1>2. /\ at[h] \notin {"out", "accepted"} /\ holder = h
      /\ writing[h].file \in Written /\ Temp(h) = Pending(writing[h].file)
      BY <1>1, CallTypes DEF WriterInv, Temp
<1>3. /\ \A e \in Entries : disk'[e] = disk[e] \/ \E f \in Written : e = Pending(f)
      /\ disk' \in [Entries -> Content \cup {None, Torn}]
      BY <1>1, <1>2 DEF TypeOK
<1>4. CASE at[h] # "in"
      BY <1>1, <1>2, <1>3, <1>4, LeftStep DEF WriteThrows
<1>5. CASE at[h] = "in"
  <2>1. /\ mem' = [mem EXCEPT ![h] = writing[h].prior]
        /\ writing' = [writing EXCEPT ![h] = None]
        /\ UNCHANGED <<at, holder>>
        /\ writing[h].prior \in Content /\ writing[h].prior.key = mem[h].key
        BY <1>1, <1>5 DEF WriteThrows, WriterInv
  <2>2. \A g \in Hosts : g # h => at[g] \in {"out", "accepted"}
        BY <1>2 DEF WriterInv
  <2>3. /\ \A e \in {Marker, Vault, Keystore, Db, Product} : disk'[e] = disk[e]
        /\ \A f \in Written : disk'[Live(f)] = disk[Live(f)]
        BY <1>3, EntryFacts
  <2>4. disk[Product] = None
        BY <1>2 DEF ProductInv
  <2>5. TypeOK'
        BY <1>1, <1>3, <1>5, <2>1 DEF TypeOK, history
  <2>6. WriterInv'
        BY <1>1, <1>5, <2>1, <2>2 DEF TypeOK, WriterInv, Creating
  <2>7. FilesInv'
        BY <1>1, <1>5, <2>1, <2>2, <2>3 DEF TypeOK, WriterInv, FilesInv
  <2>8. MarkerInv'
        BY <1>1, <1>5, <2>1, <2>3 DEF MarkerInv
  <2>9. ProductInv'
        BY <1>1, <2>1, <2>3, <2>4 DEF ProductInv
  <2>10. KeysInv'
        BY <1>1, <1>5, <2>1, <2>2, <2>3 DEF TypeOK, KeysInv, Creating
  <2>11. ReportInv'
        BY <1>1, <1>5, <2>1, <2>2, <2>3 DEF TypeOK, ReportInv, Known, BuildsOn, history
  <2> QED
        BY <2>5, <2>6, <2>7, <2>8, <2>9, <2>10, <2>11
<1> QED
      BY <1>4, <1>5

\* A callback changes one record and calls atomic_write.
LEMMA PersistStep ==
    ASSUME StoreInv, NEW h \in Hosts, at[h] = "in", NEW n \in Records,
           NEW recs \in SUBSET Records, recs \in {mem[h].recs \cup {n}, mem[h].recs \ {n}},
           Persist(h, recs)
    PROVE  StoreInv'
<1> USE DEF StoreInv
<1> DEFINE c == Says(mem[h].key, recs)
<1>1. mem[h] \in Content
      BY DEF WriterInv
<1>2. c \in Content /\ c.key = mem[h].key /\ c.recs = recs /\ [mem[h] EXCEPT !.recs = recs] = c
      BY <1>1, ContentFacts
<1>3. /\ mem' = [mem EXCEPT ![h] = c]
      BY <1>2 DEF Persist
<1>4. /\ writing[h] = None
      /\ Begin(h, "keystore", c, mem[h])
      /\ attempted' = attempted \cup {c}
      /\ UNCHANGED <<disk, platter, dirty, holder, at, acked, tampered, drawn, faults>>
      /\ "keystore" \in Written
      BY EntryFacts DEF Persist, dirVars
<1> HIDE DEF c
<1>5. /\ writing' \in [Hosts -> Writes \cup {None}]
      /\ \A g \in Hosts : g # h => writing'[g] = writing[g]
      /\ writing'[h] # None
      /\ writing'[h].file = "keystore" /\ writing'[h].content = c /\ writing'[h].prior = mem[h]
      /\ writing'[h].step = "create"
      BY <1>1, <1>2, <1>4, BeginFacts
<1>6. /\ mem' \in [Hosts -> Content \cup {None}]
      /\ \A g \in Hosts : g # h => mem'[g] = mem[g]
      /\ mem'[h] = c
      BY <1>2, <1>3 DEF TypeOK
<1>7. mem[h] \in Known /\ mem[h] # None
      BY <1>1, ContentFacts DEF ReportInv
<1>8. TypeOK'
      BY <1>2, <1>4, <1>5, <1>6 DEF TypeOK
<1>9. WriterInv'
      BY <1>1, <1>2, <1>4, <1>5, <1>6 DEF WriterInv, Creating
<1>10. FilesInv'
      BY <1>4, <1>5 DEF FilesInv, Temp, Target
<1>11. MarkerInv' /\ ProductInv'
      BY <1>4 DEF MarkerInv, ProductInv
<1>12. KeysInv'
      BY <1>2, <1>4, <1>5, <1>6 DEF KeysInv, Creating
<1>13. ReportInv'
  <2>1. Known' = Known \cup {c}
        BY <1>4 DEF Known
  <2>2. c \in Known \/ BuildsOn(c, Known \cup {c})
    <3>1. CASE mem[h] = c
          BY <1>7, <3>1
    <3>2. CASE mem[h] # c
          BY <1>2, <1>7, <3>2 DEF BuildsOn
    <3> QED
          BY <3>1, <3>2
  <2>3. \A b \in attempted : BuildsOn(b, Known) => BuildsOn(b, Known \cup {c})
        BY DEF BuildsOn
  <2>4. \A b \in attempted' : b = acked \/ (acked = None /\ b.recs = {}) \/ BuildsOn(b, Known')
    <3>1. \A b \in attempted : b = acked \/ (acked = None /\ b.recs = {}) \/ BuildsOn(b, Known')
          BY <2>1, <2>3 DEF ReportInv
    <3>2. c \in Known => c = acked \/ c \in attempted
          BY DEF Known
    <3> QED
          BY <1>4, <2>1, <2>2, <3>1, <3>2
  <2>5. acked # None => c.key = acked.key
        BY <1>2, <1>7 DEF ReportInv, Known
  <2>6. \A d \in {disk, platter} : d[Keystore] # None => d[Keystore] \in Known
        BY DEF ReportInv
  <2>7. /\ \A d \in {disk', platter'} : d[Keystore] # None => d[Keystore] \in Known'
        /\ \A g \in Hosts : at'[g] \in {"vaulted", "in"} => mem'[g] \in Known'
        BY <1>4, <1>6, <2>1, <2>6 DEF ReportInv
  <2>8. \A g \in Hosts : at'[g] = "in" /\ writing'[g] # None
                           => mem'[g] \in attempted' /\ writing'[g].prior \in Known'
        BY <1>4, <1>5, <1>6, <1>7, <2>1 DEF ReportInv
  <2>9. acked' # None =>
          /\ platter'[Keystore] # None
          /\ \A b \in attempted' : b.key = acked'.key
          /\ ~tampered' => /\ disk'[Vault] # None /\ platter'[Vault] = disk'[Vault]
                           /\ disk'[Vault].key = acked'.key
        BY <1>4, <2>5 DEF ReportInv
  <2> QED
        BY <1>4, <2>4, <2>7, <2>8, <2>9 DEF ReportInv
<1> QED
      BY <1>8, <1>9, <1>10, <1>11, <1>12, <1>13

\* The SDK creates its database beside the keystore.
LEMMA CreateDbStep ==
    ASSUME StoreInv, NEW h \in Hosts, CreateDb(h)
    PROVE  StoreInv'
<1> USE DEF StoreInv
<1>1. /\ at[h] = "in" /\ writing[h] = None
      /\ disk' = [disk EXCEPT ![Db] = Something] /\ platter' = [platter EXCEPT ![Db] = Something]
      /\ UNCHANGED <<dirty, holder, at, writing, mem, history, faults>>
      BY EntryFacts DEF CreateDb
<1>2. Something \in Content /\ Db \in Entries
      BY ContentFacts, EntryFacts
<1>3. /\ disk' \in [Entries -> Content \cup {None, Torn}] /\ platter' \in [Entries -> Content \cup {None, Torn}]
      /\ \A e \in Entries : e # Db => disk'[e] = disk[e] /\ platter'[e] = platter[e]
      BY <1>1, <1>2 DEF TypeOK
<1>4. /\ \A f \in Written : /\ disk'[Live(f)] = disk[Live(f)] /\ platter'[Live(f)] = platter[Live(f)]
                            /\ disk'[Pending(f)] = disk[Pending(f)]
      /\ \A e \in {Marker, Vault, Keystore, Product} : disk'[e] = disk[e] /\ platter'[e] = platter[e]
      BY <1>3, EntryFacts
<1>5. TypeOK'
      BY <1>1, <1>3 DEF TypeOK, history
<1>6. WriterInv'
      BY <1>1 DEF WriterInv, Creating
<1>7. FilesInv'
      BY <1>1, <1>4, CallTypes DEF FilesInv, Temp, Target
<1>8. MarkerInv'
      BY <1>1, <1>4 DEF MarkerInv
<1>9. ProductInv'
      BY <1>1, <1>4 DEF ProductInv
<1>10. KeysInv'
      BY <1>1, <1>4 DEF KeysInv, Creating
<1>11. ReportInv'
  <2>1. Known' = Known
        BY <1>1 DEF Known, history
  <2> QED
        BY <1>1, <1>4, <2>1 DEF ReportInv, history
<1> QED
      BY <1>5, <1>6, <1>7, <1>8, <1>9, <1>10, <1>11

\* atomic_write goes one system call on with the same file and content.
LEMMA ThenFacts ==
    ASSUME TypeOK, NEW h \in Hosts, writing[h] # None,
           NEW s \in {"create", "write", "sync", "rename", "syncdir"}, Then(h, s)
    PROVE  /\ writing' \in [Hosts -> Writes \cup {None}]
           /\ \A g \in Hosts : g # h => writing'[g] = writing[g]
           /\ writing'[h] # None /\ writing'[h].file = writing[h].file
           /\ writing'[h].content = writing[h].content /\ writing'[h].prior = writing[h].prior
           /\ writing'[h].step = s
<1> DEFINE w == Call(writing[h].file, writing[h].content, writing[h].prior, s)
<1>1. /\ w \in Writes /\ w # None
      /\ w.file = writing[h].file /\ w.content = writing[h].content
      /\ w.prior = writing[h].prior /\ w.step = s
      BY CallTypes, CallFacts
<1>2. [writing[h] EXCEPT !.step = s] = w
  <2>1. \A v \in Writes : [v EXCEPT !.step = s] = Call(v.file, v.content, v.prior, s)
        BY DEF Call, Writes
  <2> QED
        BY <2>1, CallTypes
<1>3. writing' = [writing EXCEPT ![h] = w]
      BY <1>2 DEF Then
<1> HIDE DEF w
<1> QED
      BY <1>1, <1>3 DEF TypeOK

\* The writer has the directory for itself.
LEMMA WriterAlone ==
    ASSUME StoreInv, NEW h \in Hosts, writing[h] # None
    PROVE  /\ holder = h /\ at[h] \notin {"out", "accepted"}
           /\ \A g \in Hosts : g # h => at[g] \in {"out", "accepted"} /\ writing[g] = None
           /\ writing[h].file \in Written /\ writing[h].content \in Content
           /\ Temp(h) = Pending(writing[h].file) /\ Target(h) = Live(writing[h].file)
           /\ Temp(h) \in Entries /\ Target(h) \in Entries
           /\ disk[Product] = None
<1>1. /\ holder = h /\ at[h] \notin {"out", "accepted"}
      /\ \A g \in Hosts : g # h => at[g] \in {"out", "accepted"} /\ writing[g] = None
      BY DEF StoreInv, WriterInv
<1>2. writing[h].file \in Written /\ writing[h].content \in Content
      BY CallTypes DEF StoreInv
<1>3. disk[Product] = None
      BY <1>1 DEF StoreInv, ProductInv
<1> QED
      BY <1>1, <1>2, <1>3, EntryFacts DEF Temp, Target

\* The .pending is created, filled, and flushed.
LEMMA PendingStep ==
    ASSUME StoreInv, NEW h \in Hosts, CreatePending(h) \/ WriteBytes(h) \/ SyncFile(h)
    PROVE  StoreInv'
<1> USE DEF StoreInv
<1>1. /\ writing[h] # None
      /\ UNCHANGED <<platter, holder, at, mem, history, faults>>
      BY DEF CreatePending, WriteBytes, SyncFile, InStep
<1>2. /\ holder = h /\ at[h] \notin {"out", "accepted"}
      /\ \A g \in Hosts : g # h => at[g] \in {"out", "accepted"} /\ writing[g] = None
      /\ writing[h].file \in Written /\ writing[h].content \in Content
      /\ Temp(h) = Pending(writing[h].file) /\ Target(h) = Live(writing[h].file)
      /\ Temp(h) \in Entries /\ disk[Product] = None
      BY <1>1, WriterAlone
<1>3. /\ writing[h].step # "syncdir"
      /\ \/ writing[h].step = "create" /\ Then(h, "write")
         \/ writing[h].step = "write" /\ Then(h, "sync")
         \/ writing[h].step = "sync" /\ Then(h, "rename")
      BY DEF CreatePending, WriteBytes, SyncFile, InStep
<1>4. /\ writing' \in [Hosts -> Writes \cup {None}]
      /\ \A g \in Hosts : g # h => writing'[g] = writing[g]
      /\ writing'[h] # None /\ writing'[h].file = writing[h].file
      /\ writing'[h].content = writing[h].content /\ writing'[h].prior = writing[h].prior
      /\ writing'[h].step \in {"write", "sync", "rename"}
      BY <1>1, <1>3, ThenFacts
<1>5. /\ disk' \in [Entries -> Content \cup {None, Torn}]
      /\ \A e \in Entries : e # Temp(h) => disk'[e] = disk[e]
      BY <1>2 DEF CreatePending, WriteBytes, SyncFile, TypeOK
<1>6. /\ \A e \in {Marker, Vault, Keystore, Db, Product} : disk'[e] = disk[e]
      /\ \A f \in Written : disk'[Live(f)] = disk[Live(f)]
      BY <1>2, <1>5, EntryFacts
<1>7. dirty' \subseteq dirty \cup {Temp(h)}
      BY DEF CreatePending, WriteBytes, SyncFile, Flushed
<1>8. /\ Temp(h)' = Temp(h) /\ Target(h)' = Target(h)
      /\ disk'[Target(h)] = disk[Target(h)]
      BY <1>2, <1>4, <1>6 DEF Temp, Target
<1>9. /\ writing'[h].step \in {"sync", "rename"} => disk'[Temp(h)] = writing[h].content
      /\ writing'[h].step = "rename" => Temp(h) \notin dirty'
  <2>1. CASE CreatePending(h)
        BY <1>1, <2>1, ThenFacts DEF CreatePending
  <2>2. CASE WriteBytes(h)
    <3>1. disk'[Temp(h)] = writing[h].content
          BY <1>2, <2>2 DEF WriteBytes, TypeOK
    <3>2. writing'[h].step = "sync"
          BY <1>1, <2>2, ThenFacts DEF WriteBytes
    <3> QED
          BY <3>1, <3>2
  <2>3. CASE SyncFile(h)
        BY <1>1, <2>3 DEF SyncFile, Flushed, FilesInv, InStep
  <2> QED
        BY <2>1, <2>2, <2>3
<1>10. TypeOK'
       BY <1>1, <1>2, <1>4, <1>5, <1>7 DEF TypeOK, history
<1>11. WriterInv'
       BY <1>1, <1>4 DEF WriterInv, Creating
<1>12. FilesInv'
  <2>1. dirty' \subseteq {Pending(f) : f \in Written}
        BY <1>2, <1>7 DEF FilesInv
  <2>2. \A f \in Written : disk'[Live(f)] # Torn /\ platter'[Live(f)] # Torn
        BY <1>1, <1>6 DEF FilesInv
  <2>3. ASSUME NEW g \in Hosts, writing'[g] # None
        PROVE  g = h
        BY <1>2, <1>4, <2>3
  <2>4. /\ writing'[h].step \in {"sync", "rename"} => disk'[Temp(h)'] = writing'[h].content
        /\ writing'[h].step = "rename" => Temp(h)' \notin dirty'
        /\ writing'[h].step # "syncdir" /\ at'[h] # "in" => disk'[Target(h)'] = None
        BY <1>1, <1>3, <1>4, <1>8, <1>9 DEF FilesInv
  <2>5. \A g \in Hosts : writing'[g] # None =>
          /\ writing'[g].step \in {"sync", "rename"} => disk'[Temp(g)'] = writing'[g].content
          /\ writing'[g].step = "rename" => Temp(g)' \notin dirty'
          /\ writing'[g].step = "syncdir" => disk'[Target(g)'] = writing'[g].content
          /\ writing'[g].step # "syncdir" /\ at'[g] # "in" => disk'[Target(g)'] = None
        BY <1>4, <2>3, <2>4
  <2> QED
        BY <2>1, <2>2, <2>5 DEF FilesInv, Temp, Target
<1>13. MarkerInv'
       BY <1>1, <1>6 DEF MarkerInv
<1>14. ProductInv'
       BY <1>1, <1>2, <1>6 DEF ProductInv
<1>15. KeysInv'
       BY <1>1, <1>2, <1>3, <1>4, <1>6 DEF KeysInv, Creating
<1>16. ReportInv'
  <2>1. Known' = Known
        BY <1>1 DEF Known, history
  <2> QED
        BY <1>1, <1>4, <1>6, <2>1 DEF ReportInv, history
<1> QED
      BY <1>10, <1>11, <1>12, <1>13, <1>14, <1>15, <1>16

\* The file takes the place of the old one.
LEMMA RenameStep ==
    ASSUME StoreInv, NEW h \in Hosts, Rename(h)
    PROVE  StoreInv'
<1> USE DEF StoreInv
<1>1. /\ writing[h] # None /\ writing[h].step = "rename"
      /\ disk' = [disk EXCEPT ![Target(h)] = disk[Temp(h)], ![Temp(h)] = None]
      /\ dirty' = (dirty \ {Temp(h), Target(h)}) \cup (IF Temp(h) \in dirty THEN {Target(h)} ELSE {})
      /\ Then(h, "syncdir")
      /\ UNCHANGED <<platter, holder, at, mem, history, faults>>
      BY DEF Rename, InStep
<1>2. /\ holder = h /\ at[h] \notin {"out", "accepted"}
      /\ \A g \in Hosts : g # h => at[g] \in {"out", "accepted"} /\ writing[g] = None
      /\ writing[h].file \in Written /\ writing[h].content \in Content
      /\ Temp(h) = Pending(writing[h].file) /\ Target(h) = Live(writing[h].file)
      /\ Temp(h) \in Entries /\ Target(h) \in Entries /\ disk[Product] = None
      BY <1>1, WriterAlone
<1>3. Target(h) # Temp(h) /\ Target(h) \in {Marker, Vault, Keystore}
      BY <1>2, EntryFacts
<1>4. disk[Temp(h)] = writing[h].content /\ Temp(h) \notin dirty
      BY <1>1 DEF FilesInv
<1>5. /\ writing' \in [Hosts -> Writes \cup {None}]
      /\ \A g \in Hosts : g # h => writing'[g] = writing[g]
      /\ writing'[h] # None /\ writing'[h].file = writing[h].file
      /\ writing'[h].content = writing[h].content /\ writing'[h].prior = writing[h].prior
      /\ writing'[h].step = "syncdir"
      BY <1>1, ThenFacts
<1>6. /\ disk' \in [Entries -> Content \cup {None, Torn}]
      /\ disk'[Target(h)] = writing[h].content
      /\ \A e \in Entries : e # Target(h) /\ e # Temp(h) => disk'[e] = disk[e]
      BY <1>1, <1>2, <1>3, <1>4 DEF TypeOK
<1>7. \A e \in {Marker, Vault, Keystore, Db, Product} :
          disk'[e] = IF e = Target(h) THEN writing[h].content ELSE disk[e]
      BY <1>2, <1>6, EntryFacts
<1>8. \A f \in Written : disk'[Live(f)] = IF f = writing[h].file THEN writing[h].content ELSE disk[Live(f)]
      BY <1>2, <1>6, EntryFacts
<1>9. dirty' \subseteq dirty
      BY <1>1, <1>4
<1>10. writing[h].content # None /\ writing[h].content # Torn
       BY <1>2, ContentFacts
<1>11. \/ at[h] = "locked" /\ Target(h) = Marker
       \/ at[h] = "marked" /\ Target(h) = Vault /\ writing[h].content = mem[h]
       \/ at[h] \in {"vaulted", "in"} /\ Target(h) = Keystore /\ writing[h].content = mem[h]
       BY <1>1, <1>2, EntryFacts DEF WriterInv
<1>12. TypeOK'
       BY <1>1, <1>5, <1>6, <1>9 DEF TypeOK, history
<1>13. WriterInv'
       BY <1>1, <1>5 DEF WriterInv, Creating
<1>14. FilesInv'
  <2>1. dirty' \subseteq {Pending(f) : f \in Written}
        BY <1>9 DEF FilesInv
  <2>2. \A f \in Written : disk'[Live(f)] # Torn /\ platter'[Live(f)] # Torn
        BY <1>1, <1>8, <1>10 DEF FilesInv
  <2>3. Target(h)' = Target(h)
        BY <1>5 DEF Target
  <2>4. \A g \in Hosts : writing'[g] # None => g = h
        BY <1>2, <1>5
  <2>5. \A g \in Hosts : writing'[g] # None =>
          /\ writing'[g].step = "syncdir"
          /\ disk'[Target(g)'] = writing'[g].content
        BY <1>5, <1>6, <2>3, <2>4
  <2> QED
        BY <2>1, <2>2, <2>5 DEF FilesInv, Temp, Target
<1>15. MarkerInv'
       BY <1>1, <1>7, <1>10, <1>11, EntryFacts DEF MarkerInv
<1>16. ProductInv'
       BY <1>1, <1>2, <1>3, <1>7, EntryFacts DEF ProductInv
<1>17. KeysInv'
  <2>1. disk'[Vault] = disk[Vault] \/ (at[h] = "marked" /\ disk'[Vault] = mem[h] /\ mem[h] # None)
        BY <1>7, <1>10, <1>11, EntryFacts
  <2>2. \/ disk'[Keystore] = disk[Keystore] /\ writing'[h].file # "keystore"
        \/ /\ at[h] \in {"vaulted", "in"} /\ disk'[Keystore] = mem[h] /\ mem[h] # None
           /\ writing'[h].file = "keystore"
    <3>1. Target(h) = Keystore <=> writing[h].file = "keystore"
          BY <1>2, EntryFacts
    <3> QED
          BY <1>5, <1>7, <1>10, <1>11, <3>1, EntryFacts
  <2>3. platter'[Keystore] # None => disk'[Keystore] # None /\ disk'[Keystore].key = platter'[Keystore].key
        BY <1>1, <2>2 DEF KeysInv, Creating
  <2>4. /\ at'[h] \in {"vaulted", "in"} => disk'[Vault] # None /\ disk'[Vault].key = mem'[h].key
        /\ at'[h] = "in" => disk'[Keystore] # None /\ disk'[Keystore].key = mem'[h].key
        BY <1>1, <2>1, <2>2 DEF KeysInv
  <2>5. ASSUME Creating(h)'
        PROVE  /\ platter'[Keystore] = None
               /\ disk'[Keystore] = IF writing'[h].file = "keystore" /\ writing'[h].step = "syncdir"
                                      THEN mem'[h] ELSE None
    <3>1. Creating(h)
          BY <1>1, <1>5, <2>5 DEF Creating
    <3> QED
          BY <1>1, <1>5, <2>2, <3>1 DEF KeysInv
  <2>6. \A g \in Hosts : g # h => at'[g] \in {"out", "accepted"} /\ ~Creating(g)'
        BY <1>1, <1>2 DEF Creating
  <2> QED
        BY <2>3, <2>4, <2>5, <2>6 DEF KeysInv
<1>18. ReportInv'
  <2>1. Known' = Known
        BY <1>1 DEF Known, history
  <2>2. disk'[Keystore] = disk[Keystore] \/ (at[h] \in {"vaulted", "in"} /\ disk'[Keystore] = mem[h])
        BY <1>7, <1>11, EntryFacts
  <2>3. disk'[Keystore] # None => disk'[Keystore] \in Known
        BY <2>2 DEF ReportInv
  <2>4. acked # None /\ ~tampered => disk'[Vault] = disk[Vault]
    <3>1. CASE Target(h) = Vault
      <4>1. disk[Vault] = None
            BY <1>1, <1>2, <1>11, <3>1, EntryFacts DEF FilesInv
      <4> QED
            BY <4>1 DEF ReportInv
    <3>2. CASE Target(h) # Vault
          BY <1>7, <3>2
    <3> QED
          BY <3>1, <3>2
  <2> QED
        BY <1>1, <1>5, <2>1, <2>3, <2>4 DEF ReportInv, history
<1> QED
      BY <1>12, <1>13, <1>14, <1>15, <1>16, <1>17, <1>18

\* The directory is flushed: atomic_write returns.  After the marker the start
\* goes on, after the envelope the first keystore follows, and a keystore is
\* reported as written.
LEMMA SyncDirStep ==
    ASSUME StoreInv, NEW h \in Hosts, SyncDir(h)
    PROVE  StoreInv'
<1> USE DEF StoreInv
<1>1. /\ writing[h] # None /\ writing[h].step = "syncdir" /\ platter' = disk
      /\ WriteReturns(h)
      /\ UNCHANGED <<disk, dirty, holder, mem, tampered, drawn, faults>>
      BY DEF SyncDir, InStep, EntriesSynced
<1>2. /\ holder = h /\ at[h] \notin {"out", "accepted"}
      /\ \A g \in Hosts : g # h => at[g] \in {"out", "accepted"} /\ writing[g] = None
      /\ writing[h].file \in Written /\ writing[h].content \in Content
      /\ Target(h) = Live(writing[h].file) /\ disk[Product] = None
      BY <1>1, WriterAlone
<1>3. disk[Target(h)] = writing[h].content
      BY <1>1 DEF FilesInv
<1>4. writing[h].content # None
      BY <1>2, ContentFacts
<1>5. \A f \in Written : disk[Live(f)] # Torn
      BY DEF FilesInv
<1>6. ProductInv'
      BY <1>1, <1>2 DEF ProductInv
<1>7. CASE at[h] = "locked"
  <2>1. /\ at' = [at EXCEPT ![h] = "marked"] /\ writing' = [writing EXCEPT ![h] = None]
        /\ UNCHANGED <<acked, attempted>>
        BY <1>1, <1>7 DEF WriteReturns
  <2>2. disk[Marker] # None
        BY <1>1, <1>2, <1>3, <1>4, <1>7, EntryFacts DEF WriterInv
  <2>3. TypeOK'
        BY <1>1, <1>7, <2>1 DEF TypeOK
  <2>4. WriterInv'
        BY <1>1, <1>2, <1>7, <2>1 DEF TypeOK, WriterInv, Creating
  <2>5. FilesInv'
        BY <1>1, <1>2, <1>5, <2>1 DEF TypeOK, FilesInv
  <2>6. MarkerInv'
        BY <1>1, <1>2, <2>1, <2>2 DEF TypeOK, MarkerInv
  <2>7. KeysInv'
        BY <1>1, <1>2, <1>7, <2>1 DEF TypeOK, KeysInv, Creating
  <2>8. ReportInv'
    <3>1. Known' = Known
          BY <2>1 DEF Known
    <3> QED
          BY <1>1, <1>2, <1>7, <2>1, <3>1 DEF TypeOK, ReportInv, KeysInv
  <2> QED
        BY <1>6, <2>3, <2>4, <2>5, <2>6, <2>7, <2>8
<1>8. CASE at[h] = "marked"
  <2>1. /\ at' = [at EXCEPT ![h] = "vaulted"] /\ Begin(h, "keystore", mem[h], None)
        /\ attempted' = attempted \cup {mem[h]} /\ acked' = acked
        BY <1>1, <1>8 DEF WriteReturns
  <2>2. /\ mem[h] \in Content /\ mem[h].recs = {} /\ writing[h].content = mem[h]
        /\ writing[h].file = "vault" /\ Creating(h)
        BY <1>1, <1>8 DEF WriterInv, Creating
  <2>3. /\ writing' \in [Hosts -> Writes \cup {None}]
        /\ \A g \in Hosts : g # h => writing'[g] = writing[g]
        /\ writing'[h] # None
        /\ writing'[h].file = "keystore" /\ writing'[h].content = mem[h]
        /\ writing'[h].step = "create"
        BY <2>1, <2>2, EntryFacts, BeginFacts
  <2>4. /\ disk[Vault] = mem[h] /\ disk[Vault] # None /\ disk[Keystore] = None
        /\ platter[Keystore] = None /\ disk[Marker] # None
        BY <1>2, <1>3, <1>4, <1>8, <2>2, EntryFacts DEF KeysInv, MarkerInv
  <2>5. acked = None
        BY <2>4 DEF ReportInv
  <2>6. at' \in [Hosts -> {"out", "accepted", "locked", "marked", "vaulted", "in"}]
        /\ at'[h] = "vaulted" /\ \A g \in Hosts : g # h => at'[g] = at[g]
        BY <2>1 DEF TypeOK
  <2>7. TypeOK'
    <3>1. attempted' \subseteq Content
          BY <2>1, <2>2 DEF TypeOK
    <3>2. \A g \in Hosts : at'[g] \in {"out", "accepted", "locked"} => mem'[g] = None
          BY <1>1, <2>6 DEF TypeOK
    <3> QED
          BY <1>1, <2>1, <2>3, <2>6, <3>1, <3>2 DEF TypeOK
  <2>8. WriterInv'
        BY <1>1, <1>2, <2>2, <2>3, <2>6 DEF WriterInv, Creating
  <2>9. FilesInv'
    <3>1. \A g \in Hosts : writing'[g] # None => g = h
          BY <1>2, <2>3
    <3>2. Target(h)' = Keystore
          BY <2>3, EntryFacts DEF Target
    <3>3. \A g \in Hosts : writing'[g] # None =>
            /\ writing'[g].step = "create"
            /\ disk'[Target(g)'] = None
          BY <1>1, <2>3, <2>4, <3>1, <3>2
    <3> QED
          BY <1>1, <1>5, <3>3 DEF FilesInv, Temp, Target
  <2>10. MarkerInv'
        BY <1>1, <1>2, <2>4, <2>6 DEF MarkerInv
  <2>11. KeysInv'
        BY <1>1, <1>2, <2>2, <2>3, <2>4, <2>6 DEF KeysInv, Creating
  <2>12. ReportInv'
    <3>1. Known' = Known \cup {mem[h]}
          BY <2>1 DEF Known
    <3>2. \A b \in attempted : BuildsOn(b, Known) => BuildsOn(b, Known')
          BY <3>1 DEF BuildsOn
    <3>3. \A b \in attempted' : b = acked' \/ (acked' = None /\ b.recs = {}) \/ BuildsOn(b, Known')
          BY <2>1, <2>2, <2>5, <3>2 DEF ReportInv
    <3>4. \A g \in Hosts : at'[g] \in {"vaulted", "in"} => mem'[g] \in Known'
          BY <1>1, <1>2, <2>6, <3>1
    <3>5. \A d \in {disk', platter'} : d[Keystore] = None
          BY <1>1, <2>4
    <3> QED
          BY <1>2, <2>1, <2>5, <2>6, <3>3, <3>4, <3>5 DEF ReportInv
  <2> QED
        BY <1>6, <2>7, <2>8, <2>9, <2>10, <2>11, <2>12
<1>9. CASE at[h] \notin {"locked", "marked"}
  <2>1. /\ at' = [at EXCEPT ![h] = "in"] /\ writing' = [writing EXCEPT ![h] = None]
        /\ acked' = writing[h].content /\ attempted' = {}
        BY <1>1, <1>9 DEF WriteReturns
  <2>2. /\ at[h] \in {"vaulted", "in"} /\ writing[h].file = "keystore" /\ writing[h].content = mem[h]
        /\ mem[h] \in Content
        BY <1>1, <1>9 DEF WriterInv, Creating
  <2>3. disk[Keystore] = mem[h] /\ mem[h] # None /\ disk[Marker] # None
        /\ disk[Vault] # None /\ disk[Vault].key = mem[h].key
        BY <1>2, <1>3, <1>4, <2>2, EntryFacts DEF KeysInv, MarkerInv
  <2>4. at' \in [Hosts -> {"out", "accepted", "locked", "marked", "vaulted", "in"}]
        /\ at'[h] = "in" /\ \A g \in Hosts : g # h => at'[g] = at[g]
        BY <2>1 DEF TypeOK
  <2>5. writing' \in [Hosts -> Writes \cup {None}] /\ \A g \in Hosts : writing'[g] = None
        BY <1>2, <2>1 DEF TypeOK
  <2>6. TypeOK'
    <3>1. \A g \in Hosts : at'[g] \in {"out", "accepted", "locked"} => mem'[g] = None
          BY <1>1, <2>4 DEF TypeOK
    <3> QED
          BY <1>1, <1>2, <2>1, <2>4, <2>5, <3>1 DEF TypeOK
  <2>7. WriterInv'
        BY <1>1, <1>2, <2>2, <2>4, <2>5 DEF WriterInv, Creating
  <2>8. FilesInv'
        BY <1>1, <1>5, <2>5 DEF FilesInv
  <2>9. MarkerInv'
        BY <1>1, <1>2, <2>3, <2>4 DEF MarkerInv
  <2>10. KeysInv'
        BY <1>1, <1>2, <2>3, <2>4, <2>5 DEF KeysInv, Creating
  <2>11. ReportInv'
    <3>1. Known' = {mem[h]}
          BY <2>1, <2>2 DEF Known
    <3> QED
          BY <1>1, <1>2, <2>1, <2>2, <2>3, <2>4, <2>5, <3>1 DEF ReportInv
  <2> QED
        BY <1>6, <2>6, <2>7, <2>8, <2>9, <2>10, <2>11
<1> QED
      BY <1>7, <1>8, <1>9

\* Entries other than a .pending survive a power loss old or new.
LEMMA SurvivorKeeps ==
    ASSUME StoreInv, NEW d \in Survivors
    PROVE  /\ \A e \in {Marker, Vault, Keystore, Db, Product} : d[e] \in {disk[e], platter[e]}
           /\ \A f \in Written : d[Live(f)] \in {disk[Live(f)], platter[Live(f)]}
           /\ disk[Product] # None => \A e \in Entries \ {Product} : d[e] = None
<1>1. \A e \in Entries : d[e] \in {disk[e], platter[e]} \/ (e \in dirty /\ d[e] = Torn)
      BY SurvivorFacts DEF StoreInv
<1>2. \A e \in {Marker, Vault, Keystore, Db, Product} : e \in Entries /\ e \notin dirty
      BY EntryFacts DEF StoreInv, FilesInv
<1>3. \A f \in Written : Live(f) \in {Marker, Vault, Keystore}
      BY EntryFacts
<1>4. disk[Product] # None => \A e \in Entries \ {Product} : d[e] = None
      BY <1>1 DEF StoreInv, ProductInv
<1> QED
      BY <1>1, <1>2, <1>3, <1>4

\* The power goes: every process is gone, and of the files what survives.
LEMMA PowerLossStep == StoreInv /\ PowerLoss => StoreInv'
<1> SUFFICES ASSUME StoreInv, PowerLoss
             PROVE  StoreInv'
    OBVIOUS
<1> USE DEF StoreInv
<1>1. /\ disk' \in Survivors /\ platter' = disk' /\ dirty' = {} /\ holder' = None
      /\ at' = [h \in Hosts |-> "out"] /\ writing' = [h \in Hosts |-> None]
      /\ mem' = [h \in Hosts |-> None] /\ faults' \in 0..MaxFaults /\ UNCHANGED history
      BY StoreAssumption DEF PowerLoss, Fault, TypeOK
<1>2. /\ disk' \in [Entries -> Content \cup {None, Torn}]
      BY <1>1, SurvivorFacts
<1>3. /\ \A e \in {Marker, Vault, Keystore, Db, Product} : disk'[e] \in {disk[e], platter[e]}
      /\ \A f \in Written : disk'[Live(f)] \in {disk[Live(f)], platter[Live(f)]}
      /\ disk[Product] # None => \A e \in Entries \ {Product} : disk'[e] = None
      BY <1>1, SurvivorKeeps
<1>4. TypeOK'
      BY <1>1, <1>2 DEF TypeOK, history
<1>5. WriterInv'
      BY <1>1, StoreAssumption DEF WriterInv, Creating
<1>6. FilesInv'
      BY <1>1, <1>3 DEF FilesInv
<1>7. MarkerInv'
      BY <1>1, <1>3 DEF MarkerInv
<1>8. ProductInv'
  <2>1. disk'[Product] = disk[Product]
        BY <1>3 DEF ProductInv
  <2> QED
        BY <1>1, <1>3, <2>1 DEF ProductInv
<1>9. KeysInv'
      BY <1>1 DEF KeysInv, Creating
<1>10. ReportInv'
  <2>1. Known' = Known
        BY <1>1 DEF Known, history
  <2>2. disk'[Keystore] # None => disk'[Keystore] \in Known
        BY <1>3 DEF ReportInv
  <2>3. acked # None => disk'[Keystore] # None
        BY <1>3 DEF ReportInv, KeysInv
  <2>4. acked # None /\ ~tampered => disk'[Vault] = disk[Vault]
        BY <1>3 DEF ReportInv
  <2> QED
        BY <1>1, <2>1, <2>2, <2>3, <2>4 DEF ReportInv, history
<1> QED
      BY <1>4, <1>5, <1>6, <1>7, <1>8, <1>9, <1>10

\* The envelope is deleted while nobody has the profile open.
LEMMA LoseEnvelopeStep == StoreInv /\ LoseEnvelope => StoreInv'
<1> SUFFICES ASSUME StoreInv, LoseEnvelope
             PROVE  StoreInv'
    OBVIOUS
<1> USE DEF StoreInv
<1>1. /\ disk[Vault] # None /\ holder = None
      /\ disk' = [disk EXCEPT ![Vault] = None] /\ platter' = [platter EXCEPT ![Vault] = None]
      /\ tampered' = TRUE /\ faults' \in 0..MaxFaults
      /\ UNCHANGED <<dirty, holder, at, writing, mem, acked, attempted, drawn>>
  <2>1. faults' \in 0..MaxFaults
        BY StoreAssumption DEF LoseEnvelope, Fault, TypeOK
  <2> QED
        BY <2>1, EntryFacts DEF LoseEnvelope, Exists
<1>2. \A g \in Hosts : at[g] \in {"out", "accepted"} /\ writing[g] = None
      BY <1>1, StoreAssumption DEF WriterInv, TypeOK
<1>3. /\ disk' \in [Entries -> Content \cup {None, Torn}] /\ platter' \in [Entries -> Content \cup {None, Torn}]
      /\ disk'[Vault] = None /\ platter'[Vault] = None
      /\ \A e \in Entries : e # Vault => disk'[e] = disk[e] /\ platter'[e] = platter[e]
      BY <1>1, EntryFacts DEF TypeOK
<1>4. \A e \in {Marker, Keystore, Db, Product} : disk'[e] = disk[e] /\ platter'[e] = platter[e]
      BY <1>3, EntryFacts
<1>5. TypeOK'
      BY <1>1, <1>3 DEF TypeOK
<1>6. WriterInv'
      BY <1>1 DEF WriterInv, Creating
<1>7. FilesInv'
  <2>1. None # Torn
        BY ContentFacts
  <2>2. \A f \in Written : disk'[Live(f)] # Torn /\ platter'[Live(f)] # Torn
        BY <1>3, <1>4, <2>1, EntryFacts DEF FilesInv
  <2> QED
        BY <1>1, <1>2, <2>2 DEF FilesInv
<1>8. MarkerInv'
      BY <1>1, <1>4 DEF MarkerInv
<1>9. ProductInv'
      BY <1>1, <1>3, <1>4, EntryFacts DEF ProductInv
<1>10. KeysInv'
      BY <1>1, <1>2, <1>4 DEF KeysInv, Creating
<1>11. ReportInv'
  <2>1. Known' = Known
        BY <1>1 DEF Known
  <2> QED
        BY <1>1, <1>2, <1>4, <2>1 DEF ReportInv
<1> QED
      BY <1>5, <1>6, <1>7, <1>8, <1>9, <1>10, <1>11

\* Every step, a crash and a loss of power among them, keeps the invariant.
LEMMA StoreInvStep == StoreInv /\ [Next]_vars => StoreInv'
<1> SUFFICES ASSUME StoreInv, [Next]_vars
             PROVE  StoreInv'
    OBVIOUS
<1>1. ASSUME NEW h \in Hosts, Host(h)
      PROVE  StoreInv'
  <2>1. CASE Accept(h) \/ TakeLock(h) \/ LockRefused(h) \/ Mark(h)
        BY <2>1, AcceptStep, TakeLockStep, LockRefusedStep, MarkStep
  <2>2. CASE OpenVault(h) \/ CreateVault(h) \/ PrepareFails(h) \/ Leave(h) \/ Crash(h)
        BY <2>2, OpenVaultStep, CreateVaultStep, GoneStep
  <2>3. CASE Write(h) \/ Remove(h)
    <3>1. at[h] = "in" /\ mem[h] \in Content
          BY <2>3 DEF Write, Remove, StoreInv, WriterInv
    <3>2. PICK n \in Records :
             Persist(h, mem[h].recs \cup {n}) \/ Persist(h, mem[h].recs \ {n})
          BY <2>3 DEF Write, Remove
    <3>3. mem[h].recs \cup {n} \in SUBSET Records /\ mem[h].recs \ {n} \in SUBSET Records
          BY <3>1, ContentFacts
    <3> QED
          BY <3>1, <3>2, <3>3, PersistStep
  <2>4. CASE CreateDb(h)
        BY <2>4, CreateDbStep
  <2>5. CASE AtomicWrite(h)
        BY <2>5, PendingStep, RenameStep, SyncDirStep, ThrowsStep DEF AtomicWrite
  <2> QED
        BY <1>1, <2>1, <2>2, <2>3, <2>4, <2>5 DEF Host
<1>2. CASE UNCHANGED vars
  <2> USE <1>2 DEF StoreInv, vars, dirVars, history
  <2>1. TypeOK' /\ WriterInv' /\ MarkerInv'
        BY DEF TypeOK, WriterInv, Creating, MarkerInv
  <2>2. FilesInv'
        BY DEF FilesInv, Temp, Target
  <2>3. ProductInv' /\ KeysInv'
        BY DEF ProductInv, KeysInv, Creating
  <2>4. ReportInv'
        BY DEF ReportInv, Known, BuildsOn
  <2> QED
        BY <2>1, <2>2, <2>3, <2>4
<1> QED
      BY <1>1, <1>2, PowerLossStep, LoseEnvelopeStep DEF Next

\* What the directory, the platter and the processes say of the identity fits
\* together after every system call, failure, crash and power loss
\* (profile.cpp: lock_profile, PrepareProfile, persist, atomic_write).
THEOREM StoreInvariant == Spec => []StoreInv
<1>1. ASSUME Init
      PROVE  StoreInv
  <2>1. /\ Something \in Content /\ Live("product") = Product /\ Product \in Entries
        BY ContentFacts, EntryFacts
  <2>2. /\ disk \in [Entries -> Content \cup {None, Torn}]
        /\ \A e \in Entries \ {Product} : disk[e] = None
        /\ platter = disk /\ dirty = {}
        BY <1>1, <2>1 DEF Init, EmptyDir
  <2>3. /\ \A e \in {Marker, Vault, Keystore, Db} : disk[e] = None
        /\ \A f \in Written : disk[Live(f)] = None
        BY <2>2, EntryFacts
  <2>4. /\ holder = None /\ at = [h \in Hosts |-> "out"]
        /\ writing = [h \in Hosts |-> None] /\ mem = [h \in Hosts |-> None]
        /\ acked = None /\ attempted = {} /\ tampered = FALSE /\ drawn = {} /\ faults = 0
        BY <1>1 DEF Init
  <2>5. TypeOK
    <3>1. /\ at \in [Hosts -> {"out", "accepted", "locked", "marked", "vaulted", "in"}]
          /\ writing \in [Hosts -> Writes \cup {None}] /\ mem \in [Hosts -> Content \cup {None}]
          /\ \A h \in Hosts : mem[h] = None
          BY <2>4
    <3>2. faults \in 0..MaxFaults
          BY <2>4, StoreAssumption
    <3>3. platter \in [Entries -> Content \cup {None, Torn}] /\ dirty \subseteq Entries
          BY <2>2
    <3> QED
          BY <2>2, <2>4, <3>1, <3>2, <3>3 DEF TypeOK
  <2>6. WriterInv
        BY <2>4, StoreAssumption DEF WriterInv, Creating
  <2>7. FilesInv
        BY <2>2, <2>3, <2>4, ContentFacts DEF FilesInv
  <2>8. MarkerInv /\ ProductInv
        BY <2>2, <2>3, <2>4 DEF MarkerInv, ProductInv
  <2>9. KeysInv
        BY <2>2, <2>3, <2>4 DEF KeysInv, Creating
  <2>10. ReportInv
        BY <2>2, <2>3, <2>4 DEF ReportInv
  <2> QED
        BY <2>5, <2>6, <2>7, <2>8, <2>9, <2>10 DEF StoreInv
<1>2. QED
      BY <1>1, StoreInvStep, PTL DEF Spec

\* The types of the directory and the processes; key and records are wiped
\* whenever no session has the profile (profile.cpp: unlock_profile).
THEOREM TypeCorrect == Spec => []TypeOK
<1>1. StoreInv => TypeOK
      BY DEF StoreInv
<1>2. QED
      BY <1>1, StoreInvariant, PTL

---------------------------------------------------------------------------
(* What a power loss may leave *)

\* An identity reported as written opens ever after, whatever fails or crashes
\* and whatever a power loss leaves of what is in the directory (profile.cpp:
\* atomic_write, persist, PrepareProfile).
THEOREM AcknowledgedIsDurable == Spec => []AcknowledgedOpens
<1>1. ASSUME StoreInv, acked # None, ~tampered, NEW d \in Survivors
      PROVE  Opens(d) /\ d[Keystore] \in Known
  <2> USE <1>1 DEF StoreInv
  <2>1. d[Marker] \in {disk[Marker], platter[Marker]} /\ d[Vault] \in {disk[Vault], platter[Vault]}
        /\ d[Keystore] \in {disk[Keystore], platter[Keystore]}
        BY SurvivorKeeps
  <2>2. /\ platter[Keystore] # None /\ disk[Keystore] # None
        /\ disk[Vault] # None /\ platter[Vault] = disk[Vault] /\ disk[Vault].key = acked.key
        /\ \A c \in Known : c.key = acked.key
        /\ disk[Keystore] \in Known /\ platter[Keystore] \in Known
        BY DEF ReportInv, KeysInv, Known
  <2>3. disk[Marker] # None /\ platter[Marker] # None
        BY <2>2 DEF MarkerInv
  <2>4. disk[Vault] # Torn /\ disk[Keystore] # Torn /\ platter[Keystore] # Torn
        BY EntryFacts DEF FilesInv
  <2>5. d[Keystore] \in Known /\ d[Keystore].key = acked.key /\ d[Keystore] \notin {None, Torn}
        BY <2>1, <2>2, <2>4
  <2>6. d[Vault].key = acked.key /\ d[Vault] \notin {None, Torn} /\ d[Marker] # None
        BY <2>1, <2>2, <2>3, <2>4
  <2> QED
        BY <2>5, <2>6, EntryFacts DEF Opens, Readable
<1>2. StoreInv => AcknowledgedOpens
      BY <1>1, EntryFacts DEF AcknowledgedOpens, Known
<1>3. QED
      BY <1>2, StoreInvariant, PTL

\* A directory of another product never gets a file of ours (profile.cpp:
\* lock_profile).
THEOREM ProductStaysUntouched == Spec => []ProductUntouched
<1>1. StoreInv => ProductUntouched
      BY EntryFacts DEF StoreInv, ProductInv, ProductUntouched, Exists
<1>2. QED
      BY <1>1, StoreInvariant, PTL

\* A directory that will be refused for want of the marker holds neither
\* keystore nor database, whatever a power loss leaves (profile.cpp:
\* lock_profile, atomic_write).
THEOREM RefusedIsEmpty == Spec => []RefusedHoldsNothing
<1>1. ASSUME StoreInv, NEW d \in Survivors, d[Marker] = None
      PROVE  d[Keystore] = None /\ d[Db] = None
  <2>1. \A e \in {Marker, Keystore, Db} : d[e] \in {disk[e], platter[e]}
        BY <1>1, SurvivorKeeps
  <2>2. platter[Marker] = None
        BY <1>1, <2>1 DEF StoreInv, MarkerInv
  <2>3. \A e \in {Keystore, Db} : disk[e] = None /\ platter[e] = None
        BY <1>1, <2>2 DEF StoreInv, MarkerInv
  <2> QED
        BY <2>1, <2>3
<1>2. StoreInv => RefusedHoldsNothing
      BY <1>1, EntryFacts DEF RefusedHoldsNothing
<1>3. QED
      BY <1>2, StoreInvariant, PTL

---------------------------------------------------------------------------
(* Steps *)

\* Only the end of atomic_write reports a keystore as written.
LEMMA OnlySyncDirReports ==
    ASSUME Next, acked' # acked
    PROVE  \E h \in Hosts : SyncDir(h)
<1>1. ASSUME NEW h \in Hosts, Host(h)
      PROVE  SyncDir(h)
  <2> USE <1>1 DEF history
  <2>1. ~Accept(h) /\ ~TakeLock(h) /\ ~LockRefused(h) /\ ~Mark(h)
        BY DEF Accept, TakeLock, LockRefused, Mark
  <2>2. ~OpenVault(h) /\ ~CreateVault(h) /\ ~PrepareFails(h) /\ ~Leave(h) /\ ~Crash(h)
        BY DEF OpenVault, CreateVault, PrepareFails, Leave, Crash
  <2>3. ~Write(h) /\ ~Remove(h) /\ ~CreateDb(h)
        BY DEF Write, Remove, Persist, CreateDb
  <2>4. ~CreatePending(h) /\ ~WriteBytes(h) /\ ~SyncFile(h) /\ ~Rename(h)
        BY DEF CreatePending, WriteBytes, SyncFile, Rename
  <2>5. ~PendingInTheWay(h) /\ ~CallFails(h)
        BY DEF PendingInTheWay, CallFails
  <2> QED
        BY <2>1, <2>2, <2>3, <2>4, <2>5 DEF Host, AtomicWrite
<1>2. ~PowerLoss /\ ~LoseEnvelope
      BY DEF PowerLoss, LoseEnvelope, history
<1> QED
      BY <1>1, <1>2 DEF Next

\* No keystore reported as written loses another's records (profile.cpp:
\* lock_profile, write, remove).
THEOREM UpdatesAreKept == Spec => UpdatesBuildOn
<1>1. ASSUME StoreInv, [Next]_vars, acked' # acked
      PROVE  (acked = None /\ acked'.recs = {}) \/ BuildsOn(acked', Known)
  <2> USE <1>1 DEF StoreInv
  <2>1. PICK h \in Hosts : SyncDir(h)
        BY OnlySyncDirReports DEF vars, history
  <2>2. /\ writing[h] # None /\ at[h] \notin {"locked", "marked"} /\ acked' = writing[h].content
        BY <2>1 DEF SyncDir, InStep, WriteReturns
  <2>3. at[h] \in {"vaulted", "in"} /\ acked' = mem[h]
        BY <2>2 DEF WriterInv
  <2>4. CASE at[h] = "vaulted"
    <3>1. platter[Keystore] = None /\ mem[h].recs = {}
          BY <2>4 DEF KeysInv, WriterInv, Creating
    <3> QED
          BY <2>3, <3>1 DEF ReportInv
  <2>5. CASE at[h] = "in"
    <3>1. mem[h] \in attempted
          BY <2>2, <2>5 DEF ReportInv
    <3> QED
          BY <2>3, <3>1 DEF ReportInv
  <2> QED
        BY <2>3, <2>4, <2>5
<1>2. StoreInv /\ [Next]_vars =>
          [acked' # acked => (acked = None /\ acked'.recs = {})
                               \/ BuildsOn(acked', {acked} \cup attempted)]_vars
      BY <1>1 DEF Known
<1>3. QED
      BY <1>2, StoreInvariant, PTL DEF Spec, UpdatesBuildOn

\* The keystore is left as it is by all but the rename and a power loss.
LEMMA KeystoreChanges ==
    ASSUME StoreInv, Next, disk'[Keystore] # disk[Keystore]
    PROVE  PowerLoss \/ \E h \in Hosts : Rename(h)
<1> USE DEF StoreInv
<1>1. Keystore \in Entries /\ Keystore # Live("lock") /\ Keystore # Live("db") /\ Keystore # Live("vault")
      /\ \A f \in Written : Keystore # Pending(f)
      BY EntryFacts
<1>2. DOMAIN disk = Entries
      BY DEF TypeOK
<1>3. ASSUME NEW h \in Hosts, Host(h)
      PROVE  Rename(h)
  <2> USE <1>1, <1>2, <1>3 DEF dirVars
  <2>1. ~Accept(h) /\ ~Mark(h) /\ ~OpenVault(h) /\ ~CreateVault(h)
        BY DEF Accept, Mark, OpenVault, CreateVault
  <2>2. ~PrepareFails(h) /\ ~Leave(h) /\ ~Crash(h) /\ ~Write(h) /\ ~Remove(h)
        BY DEF PrepareFails, Leave, Crash, Write, Remove, Persist
  <2>3. ~TakeLock(h) /\ ~LockRefused(h) /\ ~CreateDb(h)
        BY DEF TakeLock, LockRefused, LockFile, CreateDb
  <2>4. writing[h] # None => Keystore # Temp(h)
        BY CallTypes DEF Temp
  <2>5. ~CreatePending(h) /\ ~WriteBytes(h)
        BY <2>4 DEF CreatePending, WriteBytes, InStep
  <2>6. ~SyncFile(h) /\ ~SyncDir(h) /\ ~PendingInTheWay(h)
        BY DEF SyncFile, SyncDir, PendingInTheWay
  <2>7. ~CallFails(h)
        BY <2>4 DEF CallFails
  <2> QED
        BY <2>1, <2>2, <2>3, <2>5, <2>6, <2>7 DEF Host, AtomicWrite
<1>4. ~LoseEnvelope
      BY <1>1, <1>2 DEF LoseEnvelope
<1> QED
      BY <1>3, <1>4 DEF Next

\* A keystore never gives way to one of another identity (profile.cpp:
\* PrepareProfile).
THEOREM IdentityIsKept == Spec => NeverReplaced
<1>1. ASSUME StoreInv, [Next]_vars, disk[Keystore] \notin {None, Torn}, disk'[Keystore] \notin {None, Torn}
      PROVE  disk'[Keystore].key = disk[Keystore].key
  <2> USE <1>1 DEF StoreInv
  <2>1. CASE PowerLoss
    <3>1. disk'[Keystore] \in {disk[Keystore], platter[Keystore]}
          BY <2>1, SurvivorKeeps DEF PowerLoss
    <3> QED
          BY <3>1 DEF KeysInv
  <2>2. ASSUME NEW h \in Hosts, Rename(h), disk'[Keystore] # disk[Keystore]
        PROVE  disk'[Keystore].key = disk[Keystore].key
    <3>1. /\ writing[h] # None /\ writing[h].step = "rename"
          /\ disk' = [disk EXCEPT ![Target(h)] = disk[Temp(h)], ![Temp(h)] = None]
          BY <2>2 DEF Rename, InStep
    <3>2. /\ writing[h].file \in Written /\ Temp(h) = Pending(writing[h].file)
          /\ Target(h) = Live(writing[h].file) /\ at[h] \notin {"out", "accepted"}
          BY <3>1, WriterAlone
    <3>3. Keystore # Temp(h) /\ Keystore \in Entries
          BY <3>2, EntryFacts
    <3>4. Target(h) = Keystore /\ disk'[Keystore] = disk[Temp(h)]
          BY <2>2, <3>1, <3>3 DEF TypeOK
    <3>5. writing[h].file = "keystore"
          BY <3>2, <3>4, EntryFacts
    <3>6. disk'[Keystore] = mem[h] /\ at[h] \in {"vaulted", "in"}
          BY <3>1, <3>4, <3>5 DEF FilesInv, WriterInv
    <3>7. at[h] # "vaulted"
          BY <3>1, <3>5 DEF KeysInv, Creating
    <3> QED
          BY <3>6, <3>7 DEF KeysInv
  <2> QED
        BY <2>1, <2>2, KeystoreChanges DEF vars, dirVars
<1>2. StoreInv /\ [Next]_vars =>
          [Readable(disk, "keystore") /\ Readable(disk', "keystore")
             => disk'[Live("keystore")].key = disk[Live("keystore")].key]_vars
      BY <1>1, EntryFacts DEF Readable
<1>3. QED
      BY <1>2, StoreInvariant, PTL DEF Spec, NeverReplaced
=============================================================================
