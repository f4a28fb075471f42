------------------------- MODULE CredStore_proofs -------------------------
(***************************************************************************)
(* Theorems about CredStore, for every set of keys, secrets and file       *)
(* contents, every queue capacity and every number of publications.        *)
(***************************************************************************)
EXTENDS CredStore, TLAPS

(* A payload that parse accepts is a map of real keys to real secrets. *)
LEMMA ParsedIsMap == \A p : ParsesOK(p) => p \in Maps /\ p # EmptyMap
<1> SUFFICES ASSUME NEW p, ParsesOK(p) PROVE p \in Maps /\ p # EmptyMap
  OBVIOUS
<1>1. p \in Objects /\ DOMAIN p # {} /\ \A k \in DOMAIN p : k # Blank /\ p[k] # Blank
  BY DEF ParsesOK
<1>2. PICK K \in SUBSET (AccessKeys \cup {Blank}) : p \in [K -> Secrets \cup {Blank}]
  BY <1>1, PayloadAssumption
<1>3. DOMAIN p = K
  BY <1>2
<1>4. p \in Maps
  BY <1>1, <1>2, <1>3 DEF Maps
<1>5. DOMAIN EmptyMap = {}
  BY DEF EmptyMap
<1> QED BY <1>1, <1>4, <1>5

(* The legacy pair makes a map with an entry. *)
LEMMA LegacyHasEntry == LegacyMap # EmptyMap
<1>1. DOMAIN LegacyMap = {LegacyKey}
  BY DEF LegacyMap
<1>2. DOMAIN EmptyMap = {}
  BY DEF EmptyMap
<1> QED BY <1>1, <1>2

(* A relevant event is only lost from the queue by being received. *)
LEMMA TailKeepsCred ==
  ASSUME queue \in Seq(QueueKinds), queue # <<>>, queue' = Tail(queue),
         Queued("cred"), Head(queue) # "cred"
  PROVE  Queued("cred")'
<1>1. PICK i \in 1..Len(queue) : queue[i] = "cred"
  BY DEF Queued
<1>2. i # 1
  BY <1>1
<1>3. i - 1 \in 1..Len(queue') /\ queue'[i - 1] = queue[i]
  BY <1>2
<1> QED BY <1>1, <1>3 DEF Queued

LEMMA EnqueueType ==
  ASSUME queue \in Seq(QueueKinds), NEW kind \in QueueKinds, Enqueue(kind)
  PROVE  queue' \in Seq(QueueKinds)
BY DEF Enqueue, QueueKinds

LEMMA EnqueueKeepsCred ==
  ASSUME queue \in Seq(QueueKinds), NEW kind \in QueueKinds, Enqueue(kind),
         Queued("cred")
  PROVE  Queued("cred")'
<1>1. PICK i \in 1..Len(queue) : queue[i] = "cred"
  BY DEF Queued
<1>2. i \in 1..Len(queue') /\ queue'[i] = queue[i]
  BY <1>1 DEF Enqueue, QueueKinds
<1> QED BY <1>1, <1>2 DEF Queued

LEMMA EnqueueAddsCred ==
  ASSUME queue \in Seq(QueueKinds), Enqueue("cred"), Len(queue) < QueueCap
  PROVE  Queued("cred")'
<1>1. queue' = Append(queue, "cred")
  BY BoundAssumption DEF Enqueue
<1>2. Len(queue') = Len(queue) + 1 /\ queue'[Len(queue) + 1] = "cred"
  BY <1>1
<1>3. Len(queue) + 1 \in 1..Len(queue')
  BY <1>2
<1> QED BY <1>2, <1>3 DEF Queued

-----------------------------------------------------------------------------
(* Type correctness needs, beyond the types, that the version the watcher  *)
(* is about to install is one that parsed.                                 *)
ReadInv ==
  wpc = "loaded" => /\ readVer \in 1..Newest /\ ParsesOK(published[readVer])
                    /\ storeVer <= readVer

StartInv ==
  /\ proc # "serving" => wpc = "off"
  /\ proc \in {"boot", "seed", "exited"} => storeVer = 0

TInv == TypeOK /\ storeVer <= Newest /\ conf.ver <= Newest /\ ReadInv /\ StartInv

LEMMA InitTInv == Init => TInv
<1> SUFFICES ASSUME Init PROVE TInv
  OBVIOUS
<1>1. PICK p \in Payloads : published = <<p>>
  BY DEF Init
<1>2. published \in Seq(Payloads) /\ Newest = 1
  BY <1>1 DEF Newest
<1>3. EmptyMap \in StoreMaps
  BY DEF StoreMaps
<1>4. conf \in [map : StoreMaps, ver : 0..MaxPublish]
  BY <1>3, BoundAssumption DEF Init
<1>5. queue \in Seq(QueueKinds)
  BY DEF Init
<1>6. /\ env \in Envs /\ proc = "boot" /\ store \in StoreMaps /\ storeVer = 0
      /\ wpc = "off" /\ timer = "off" /\ readVer = 0 /\ stopped = FALSE
      /\ missed = "no"
  BY <1>3 DEF Init
<1>7. TypeOK
  <2>1. 0 \in 0..MaxPublish /\ 1 \in 1..MaxPublish
    BY BoundAssumption
  <2>2. stopped \in BOOLEAN
    BY <1>6
  <2> QED BY <1>2, <1>4, <1>5, <1>6, <2>1, <2>2 DEF TypeOK
<1>8. storeVer <= Newest /\ conf.ver <= Newest /\ ReadInv /\ StartInv
  BY <1>2 DEF Init, ReadInv, StartInv
<1> QED BY <1>7, <1>8 DEF TInv

(* A step that leaves the file and the process alone keeps the types of    *)
(* what it does not touch: one fact for each action of the watcher.        *)
LEMMA StepTInv == TInv /\ [Next]_vars => TInv'
<1> SUFFICES ASSUME TInv, [Next]_vars PROVE TInv'
  OBVIOUS
<1> USE BoundAssumption DEF TInv
<1>1. CASE LoadConfig
  <2>1. ASSUME NEW m \in StoreMaps, NEW v \in 0..Newest, LoadedFrom(m, v) PROVE TInv'
    <3>1. conf' \in [map : StoreMaps, ver : 0..MaxPublish] /\ conf'.ver = v
      BY <2>1 DEF LoadedFrom, TypeOK
    <3>2. TypeOK'
      BY <2>1, <3>1 DEF LoadedFrom, Unloaded, TypeOK, Newest
    <3>3. proc = "boot" /\ wpc = "off"
      BY <1>1 DEF LoadConfig, StartInv
    <3> QED BY <2>1, <3>1, <3>2, <3>3 DEF LoadedFrom, Unloaded, Newest, ReadInv, StartInv
  <2>2. FatalExit => TInv'
    BY <1>1 DEF LoadConfig, FatalExit, Unloaded, TypeOK, Newest, ReadInv, StartInv
  <2>3. \A p : ParsesOK(p) => p \in StoreMaps
    BY ParsedIsMap DEF StoreMaps
  <2>4. Newest \in 0..Newest /\ 0 \in 0..Newest
    BY DEF TypeOK
  <2> QED BY <1>1, <2>1, <2>2, <2>3, <2>4 DEF LoadConfig, StoreMaps
<1>2. CASE Seed
  BY <1>2 DEF Seed, TypeOK, Newest, ReadInv, StartInv
<1>3. CASE StartWatch
  BY <1>3 DEF StartWatch, TypeOK, Newest, ReadInv, StartInv
<1>4. CASE Receive
  <2>1. Tail(queue) \in Seq(QueueKinds)
    BY <1>4 DEF Receive, TypeOK
  <2> QED BY <1>4, <2>1 DEF Receive, WatcherKeeps, TypeOK, Newest, ReadInv, StartInv
<1>5. CASE Ripen
  BY <1>5 DEF Ripen, WatcherKeeps, TypeOK, Newest, ReadInv, StartInv
<1>6. CASE Reload
  BY <1>6 DEF Reload, WatcherKeeps, TypeOK, Newest, ReadInv, StartInv
<1>7. CASE ApplyReload
  <2>1. published[readVer] \in StoreMaps
    BY <1>7, ParsedIsMap DEF ApplyReload, ReadInv, StoreMaps
  <2> QED BY <1>7, <2>1 DEF ApplyReload, WatcherKeeps, TypeOK, Newest, ReadInv, StartInv
<1>8. CASE WatcherEnds
  BY <1>8 DEF WatcherEnds, WatcherKeeps, TypeOK, Newest, ReadInv, StartInv
<1>9. ASSUME NEW p \in Payloads, WriteFile(p) PROVE TInv'
  <2>1. published' = Append(published, p) /\ Newest < MaxPublish
    BY <1>9 DEF WriteFile
  <2>2. /\ published' \in Seq(Payloads) /\ Newest' = Newest + 1
        /\ \A i \in 1..Newest : published'[i] = published[i]
    BY <2>1 DEF TypeOK, Newest
  <2>3. queue' \in Seq(QueueKinds)
    BY <1>9, EnqueueType DEF WriteFile, TypeOK, QueueKinds
  <2>4. TypeOK'
    BY <1>9, <2>2, <2>3 DEF WriteFile, TypeOK
  <2>5. storeVer' <= Newest' /\ conf'.ver <= Newest'
    BY <1>9, <2>2 DEF WriteFile, TypeOK
  <2>6. ReadInv'
    <3> SUFFICES ASSUME wpc' = "loaded"
                 PROVE  /\ readVer' \in 1..Newest' /\ ParsesOK(published'[readVer'])
                        /\ storeVer' <= readVer'
      BY DEF ReadInv
    <3>1. wpc = "loaded" /\ readVer' = readVer /\ storeVer' = storeVer
      BY <1>9 DEF WriteFile
    <3>2. readVer \in 1..Newest /\ ParsesOK(published[readVer]) /\ storeVer <= readVer
      BY <3>1 DEF ReadInv
    <3>3. published'[readVer] = published[readVer]
      BY <2>2, <3>2
    <3> QED BY <2>2, <3>1, <3>2, <3>3 DEF TypeOK
  <2>7. StartInv'
    BY <1>9 DEF WriteFile, StartInv
  <2> QED BY <2>4, <2>5, <2>6, <2>7
<1>10. ASSUME NEW kind \in {"cred", "other"}, Touch(kind) PROVE TInv'
  <2>1. queue' \in Seq(QueueKinds)
    BY <1>10, EnqueueType DEF Touch, TypeOK, QueueKinds
  <2> QED BY <1>10, <2>1 DEF Touch, TypeOK, Newest, ReadInv, StartInv
<1>11. CASE Stop
  BY <1>11 DEF Stop, TypeOK, Newest, ReadInv, StartInv
<1>12. CASE Crash
  <2>1. EmptyMap \in StoreMaps /\ <<>> \in Seq(QueueKinds)
    BY DEF StoreMaps
  <2>2. conf' \in [map : StoreMaps, ver : 0..MaxPublish] /\ conf'.ver = 0
    BY <1>12, <2>1 DEF Crash, Reset
  <2>3. /\ env' = env /\ published' = published /\ proc' = "exited"
        /\ queue' \in Seq(QueueKinds) /\ store' \in StoreMaps /\ storeVer' = 0
        /\ wpc' = "off" /\ timer' = "off" /\ readVer' = 0 /\ stopped' = FALSE
        /\ missed' = "no"
    BY <1>12, <2>1 DEF Crash, Reset
  <2>4. TypeOK'
    BY <2>2, <2>3 DEF TypeOK, Newest
  <2>5. storeVer' <= Newest' /\ conf'.ver <= Newest'
    BY <2>2, <2>3 DEF TypeOK, Newest
  <2>6. ReadInv' /\ StartInv'
    BY <2>3 DEF ReadInv, StartInv
  <2> QED BY <2>4, <2>5, <2>6
<1>13. CASE Restart
  BY <1>13 DEF Restart, TypeOK, Newest, ReadInv, StartInv
<1>14. CASE UNCHANGED vars
  BY <1>14 DEF vars, TypeOK, Newest, ReadInv, StartInv
<1> QED BY <1>1, <1>2, <1>3, <1>4, <1>5, <1>6, <1>7, <1>8, <1>9, <1>10, <1>11,
           <1>12, <1>13, <1>14 DEF Next, ProcessStep, WatcherStep, FileStep, ProcLife

(* Type correctness: in particular the store only ever holds a map that    *)
(* parse accepted, the legacy pair or nothing (Store.Replace).             *)
THEOREM TypeCorrect == Spec => []TypeOK
<1>1. TInv => TypeOK
  BY DEF TInv
<1> QED BY InitTInv, StepTInv, <1>1, PTL DEF Spec

-----------------------------------------------------------------------------
(* Provenance. The map that LoadConfig took from the file is the file's    *)
(* content at that version, so seeding the store preserves FromOneVersion. *)
ConfInv ==
  conf.ver > 0 => conf.map = published[conf.ver] /\ ParsesOK(conf.map)

PInv == TInv /\ ConfInv /\ FromOneVersion

LEMMA StepPInv == PInv /\ [Next]_vars => PInv'
<1> SUFFICES ASSUME PInv, [Next]_vars PROVE PInv'
  OBVIOUS
<1>0. TInv /\ TInv' /\ ConfInv /\ FromOneVersion
  BY StepTInv DEF PInv
<1> SUFFICES ConfInv' /\ FromOneVersion'
  BY <1>0 DEF PInv
<1> USE <1>0
<1> DEFINE Same == UNCHANGED <<published, conf, store, storeVer>>
<1>1. Same => ConfInv' /\ FromOneVersion'
  BY DEF ConfInv, FromOneVersion, Newest
<1>2. CASE LoadConfig
  <2>1. UNCHANGED <<published, store, storeVer>>
    BY <1>2 DEF LoadConfig, LoadedFrom, FatalExit, Unloaded
  <2>2. FromOneVersion'
    BY <2>1 DEF FromOneVersion, Newest
  <2>3. ASSUME LoadedFrom(published[Newest], Newest), ParsesOK(published[Newest])
        PROVE  ConfInv'
    <3>1. conf'.map = published'[Newest] /\ conf'.ver = Newest
      BY <2>1, <2>3 DEF LoadedFrom
    <3> QED BY <2>1, <2>3, <3>1 DEF ConfInv
  <2>4. ASSUME NEW m, LoadedFrom(m, 0) PROVE ConfInv'
    BY <2>4 DEF LoadedFrom, ConfInv
  <2>5. ASSUME FatalExit PROVE ConfInv'
    BY <2>1, <2>5 DEF FatalExit, ConfInv
  <2>6. ConfInv'
    BY <1>2, <2>3, <2>4, <2>5 DEF LoadConfig
  <2> QED BY <2>2, <2>6
<1>3. CASE Seed
  <2>1. UNCHANGED <<published, conf>>
    BY <1>3 DEF Seed
  <2>2. \/ store' = conf.map /\ storeVer' = conf.ver
        \/ UNCHANGED <<store, storeVer>>
    BY <1>3 DEF Seed
  <2>3. conf.ver \in 0..Newest
    BY DEF TInv, TypeOK
  <2>4. ConfInv'
    BY <2>1 DEF ConfInv
  <2>5. FromOneVersion'
    BY <2>1, <2>2, <2>3 DEF ConfInv, FromOneVersion, Newest
  <2> QED BY <2>4, <2>5
<1>4. CASE ApplyReload
  <2>1. /\ UNCHANGED <<published, conf>> /\ store' = published[readVer]
        /\ storeVer' = readVer /\ wpc = "loaded"
    BY <1>4 DEF ApplyReload, WatcherKeeps
  <2>2. readVer \in 1..Newest /\ ParsesOK(published[readVer])
    BY <2>1 DEF TInv, ReadInv
  <2>3. ConfInv'
    BY <2>1 DEF ConfInv
  <2>4. FromOneVersion'
    BY <2>1, <2>2 DEF FromOneVersion, Newest
  <2> QED BY <2>3, <2>4
<1>5. ASSUME NEW p \in Payloads, WriteFile(p) PROVE ConfInv' /\ FromOneVersion'
  <2>1. published' = Append(published, p) /\ UNCHANGED <<conf, store, storeVer>>
    BY <1>5 DEF WriteFile
  <2>2. Newest' = Newest + 1 /\ \A i \in 1..Newest : published'[i] = published[i]
    BY <2>1 DEF TInv, TypeOK, Newest
  <2>3. conf.ver \in 0..Newest /\ storeVer \in 0..Newest
    BY DEF TInv, TypeOK
  <2>4. Newest \in Nat
    BY DEF TInv, TypeOK, Newest
  <2>5. /\ conf.ver > 0 => published'[conf.ver] = published[conf.ver]
        /\ storeVer > 0 => published'[storeVer] = published[storeVer]
    BY <2>2, <2>3, <2>4
  <2>6. conf' = conf /\ store' = store /\ storeVer' = storeVer
    BY <2>1
  <2>7. ConfInv'
    BY <2>5, <2>6 DEF ConfInv
  <2>8. FromOneVersion'
    BY <2>2, <2>3, <2>4, <2>5, <2>6 DEF FromOneVersion
  <2> QED BY <2>7, <2>8
<1>6. CASE Crash
  <2>1. conf'.ver = 0 /\ storeVer' = 0
    BY <1>6 DEF Crash, Reset
  <2> QED BY <2>1 DEF ConfInv, FromOneVersion
<1>7. CASE StartWatch \/ Receive \/ Ripen \/ Reload \/ WatcherEnds \/ Stop \/ Restart
  BY <1>1, <1>7 DEF StartWatch, Receive, Ripen, Reload, WatcherEnds, Stop, Restart, WatcherKeeps
<1>8. ASSUME NEW kind \in {"cred", "other"}, Touch(kind) PROVE Same
  BY <1>8 DEF Touch
<1>9. CASE UNCHANGED vars
  BY <1>1, <1>9 DEF vars
<1> QED BY <1>1, <1>2, <1>3, <1>4, <1>5, <1>6, <1>7, <1>8, <1>9
        DEF Next, ProcessStep, WatcherStep, FileStep, ProcLife

(* The map in force is always one whole, valid content the file has had    *)
(* (LoadFile, parse and Replace; runWatcher keeps the map on an error).    *)
THEOREM StoreFromOneVersion == Spec => []FromOneVersion
<1>1. Init => PInv
  <2>1. Init => conf.ver = 0 /\ storeVer = 0
    BY DEF Init
  <2> QED BY <2>1, InitTInv DEF PInv, ConfInv, FromOneVersion
<1>2. PInv => FromOneVersion
  BY DEF PInv
<1> QED BY <1>1, <1>2, StepPInv, PTL DEF Spec

-----------------------------------------------------------------------------
(* The three actions that can change the store. *)
LEMMA StoreWriters ==
  [Next]_vars => \/ UNCHANGED <<store, storeVer>>
                 \/ Seed \/ ApplyReload \/ (Crash /\ store' = EmptyMap /\ storeVer' = 0)
BY DEF Next, ProcessStep, WatcherStep, FileStep, ProcLife, LoadConfig, LoadedFrom,
       FatalExit, Unloaded, StartWatch, Receive, Ripen, Reload, WatcherEnds,
       WatcherKeeps, WriteFile, Touch, Stop, Crash, Reset, Restart, vars

LEMMA InitPInv == Init => PInv
<1>1. Init => conf.ver = 0 /\ storeVer = 0
  BY DEF Init
<1> QED BY <1>1, InitTInv DEF PInv, ConfInv, FromOneVersion

(* Replace never empties the store (parse refuses an empty object, main    *)
(* only seeds a map that has entries): the gate, once up, stays up.        *)
THEOREM StoreNeverEmptied == Spec => NeverEmptied
<1>1. PInv /\ [Next]_vars =>
        [store # EmptyMap /\ proc' # "exited" => store' # EmptyMap]_vars
  <2> SUFFICES ASSUME PInv, [Next]_vars, store # EmptyMap, proc' # "exited"
               PROVE  store' # EmptyMap
    OBVIOUS
  <2>1. CASE Seed
    BY <2>1 DEF Seed
  <2>2. CASE ApplyReload
    <3>1. store' = published[readVer] /\ ParsesOK(published[readVer])
      BY <2>2 DEF ApplyReload, PInv, TInv, ReadInv
    <3> QED BY <3>1, ParsedIsMap
  <2>3. ~Crash
    BY DEF Crash
  <2> QED BY <2>1, <2>2, <2>3, StoreWriters
<1> QED BY <1>1, InitPInv, StepPInv, PTL DEF Spec, NeverEmptied

(* The watcher is the store's only writer after seeding and installs what  *)
(* it read last: an older file never replaces a newer one.                 *)
THEOREM StoreNeverGoesBack == Spec => NeverGoesBack
<1>1. PInv /\ [Next]_vars => [proc' # "exited" => storeVer' >= storeVer]_vars
  <2> SUFFICES ASSUME PInv, [Next]_vars, proc' # "exited" PROVE storeVer' >= storeVer
    OBVIOUS
  <2>0. storeVer \in Nat /\ conf.ver \in Nat
    BY DEF PInv, TInv, TypeOK
  <2>1. CASE Seed
    <3>1. storeVer = 0
      BY <2>1 DEF Seed, PInv, TInv, StartInv
    <3>2. storeVer' = conf.ver \/ storeVer' = storeVer
      BY <2>1 DEF Seed
    <3> QED BY <2>0, <3>1, <3>2
  <2>2. CASE ApplyReload
    BY <2>0, <2>2 DEF ApplyReload, PInv, TInv, ReadInv, TypeOK
  <2>3. ~Crash
    BY DEF Crash
  <2> QED BY <2>0, <2>1, <2>2, <2>3, StoreWriters
<1> QED BY <1>1, InitPInv, StepPInv, PTL DEF Spec, NeverGoesBack

-----------------------------------------------------------------------------
(* Live mode, or a source of credentials. LoadConfig leaves "boot" with a  *)
(* map that has entries or is fatal, and main seeds the store before       *)
(* serving.                                                                *)
Sourced == env.file \/ env.inline \/ env.legacy

LInv ==
  ~env.dryRun \/ Sourced =>
                 /\ proc = "seed" => conf.map # EmptyMap
                 /\ proc \in {"watch", "serving"} => store # EmptyMap

LEMMA StepLInv == PInv /\ LInv /\ [Next]_vars => LInv'
<1> SUFFICES ASSUME PInv, LInv, [Next]_vars PROVE LInv'
  OBVIOUS
<1>1. CASE LoadConfig
  <2>1. env' = env
    BY <1>1 DEF LoadConfig, LoadedFrom, FatalExit, Unloaded
  <2>2. ASSUME NEW m, NEW v, LoadedFrom(m, v), m # EmptyMap \/ (env.dryRun /\ ~Sourced)
        PROVE  LInv'
    BY <2>1, <2>2 DEF LoadedFrom, LInv, Sourced
  <2>3. ASSUME FatalExit PROVE LInv'
    BY <2>3 DEF FatalExit, Unloaded, LInv, Sourced
  <2> QED BY <1>1, <2>2, <2>3, ParsedIsMap, LegacyHasEntry DEF LoadConfig, Sourced
<1>2. CASE Seed
  BY <1>2 DEF Seed, LInv, Sourced
<1>3. CASE ApplyReload
  <2>1. store' = published[readVer] /\ ParsesOK(published[readVer])
    BY <1>3 DEF ApplyReload, PInv, TInv, ReadInv
  <2>2. UNCHANGED <<env, proc, conf>>
    BY <1>3 DEF ApplyReload, WatcherKeeps
  <2> QED BY <2>1, <2>2, ParsedIsMap DEF LInv, Sourced
<1>4. CASE StartWatch
  BY <1>4 DEF StartWatch, LInv, Sourced
<1>5. CASE Crash \/ Restart
  BY <1>5 DEF Crash, Restart, LInv, Sourced
<1>6. CASE Receive \/ Ripen \/ Reload \/ WatcherEnds \/ Stop
  BY <1>6 DEF Receive, Ripen, Reload, WatcherEnds, Stop, WatcherKeeps, LInv, Sourced
<1>7. CASE FileStep
  BY <1>7 DEF FileStep, WriteFile, Touch, LInv, Sourced
<1>8. CASE UNCHANGED vars
  BY <1>8 DEF vars, LInv, Sourced
<1> QED BY <1>1, <1>2, <1>3, <1>4, <1>5, <1>6, <1>7, <1>8
        DEF Next, ProcessStep, WatcherStep, ProcLife

(* A live proxy that serves has credentials in its store (the fatal checks *)
(* of LoadConfig and loadHMACCredentials, then Seed).                      *)
THEOREM LiveProxyIsGated == Spec => []LiveIsGated
<1>1. Init => LInv
  BY DEF Init, LInv
<1>2. LInv => LiveIsGated
  BY DEF LInv, LiveIsGated
<1> QED BY <1>1, <1>2, InitPInv, StepPInv, StepLInv, PTL DEF Spec

-----------------------------------------------------------------------------
(* No lost wake-up. What makes NoLostWakeup inductive is the hand-over at  *)
(* startup: while no content was written after LoadConfig, the version     *)
(* main carries to the store is the newest one.                            *)
HandOver ==
  env.file /\ missed = "no" => /\ proc = "seed" => conf.ver = Newest
                               /\ proc = "watch" => storeVer = Newest

NInv == NoLostWakeup /\ HandOver

LEMMA HandsOver == PInv /\ HandOver /\ [Next]_vars => HandOver'
<1> SUFFICES ASSUME PInv, HandOver, [Next]_vars PROVE HandOver'
  OBVIOUS
<1>1. CASE LoadConfig
  <2>1. env' = env /\ published' = published
    BY <1>1 DEF LoadConfig, LoadedFrom, FatalExit, Unloaded
  <2>2. ASSUME NEW m, LoadedFrom(m, Newest) PROVE HandOver'
    BY <2>1, <2>2 DEF LoadedFrom, HandOver, Newest
  <2>3. ASSUME FatalExit PROVE HandOver'
    BY <2>3 DEF FatalExit, HandOver
  <2>4. CASE ~env.file
    BY <2>1, <2>4 DEF HandOver
  <2> QED BY <1>1, <2>2, <2>3, <2>4 DEF LoadConfig
<1>2. CASE Seed
  <2>1. UNCHANGED <<env, published, missed>> /\ proc = "seed" /\ proc' = "watch"
    BY <1>2 DEF Seed
  <2>2. SUFFICES ASSUME env.file, missed = "no" PROVE storeVer' = Newest
    BY <2>1 DEF HandOver, Newest
  <2>3. conf.ver = Newest /\ conf.ver > 0
    BY <2>1, <2>2 DEF HandOver, PInv, TInv, TypeOK
  <2>4. conf.map # EmptyMap
    BY <2>3, ParsedIsMap DEF PInv, ConfInv
  <2> QED BY <1>2, <2>3, <2>4 DEF Seed
<1>3. CASE StartWatch
  BY <1>3 DEF StartWatch, HandOver
<1>4. CASE WatcherStep
  <2>1. wpc = "off" => HandOver'
    BY <1>4 DEF WatcherStep, Receive, Ripen, Reload, ApplyReload, WatcherEnds,
                WatcherKeeps, HandOver, Newest
  <2>2. wpc # "off" => proc = "serving" /\ proc' = proc
    BY <1>4 DEF WatcherStep, Receive, Ripen, Reload, ApplyReload, WatcherEnds,
                WatcherKeeps, PInv, TInv, StartInv
  <2> QED BY <2>1, <2>2 DEF HandOver
<1>5. ASSUME NEW p \in Payloads, WriteFile(p) PROVE HandOver'
  <2>1. Watching => proc = "serving"
    BY DEF Watching, PInv, TInv, StartInv
  <2> QED BY <1>5, <2>1 DEF WriteFile, HandOver
<1>6. ASSUME NEW kind \in {"cred", "other"}, Touch(kind) PROVE HandOver'
  BY <1>6 DEF Touch, HandOver, Newest
<1>7. CASE Stop
  BY <1>7 DEF Stop, HandOver, Newest
<1>8. CASE Crash \/ Restart
  BY <1>8 DEF Crash, Restart, HandOver
<1>9. CASE UNCHANGED vars
  BY <1>9 DEF vars, HandOver, Newest
<1> QED BY <1>1, <1>2, <1>3, <1>4, <1>5, <1>6, <1>7, <1>8, <1>9
        DEF Next, ProcessStep, FileStep, ProcLife

LEMMA WakesUp == PInv /\ NInv /\ [Next]_vars => NoLostWakeup'
<1> SUFFICES ASSUME PInv, NInv, [Next]_vars, Watching', ParsesOK(published[Newest])',
                    missed' = "no"
             PROVE  WillNotice'
  BY DEF NoLostWakeup
<1>0. queue \in Seq(QueueKinds) /\ NoLostWakeup
  BY DEF PInv, TInv, TypeOK, NInv
<1>1. ASSUME UNCHANGED <<published, queue, storeVer, wpc, timer, readVer, missed>>,
             Watching
      PROVE  WillNotice'
  BY <1>0, <1>1 DEF NoLostWakeup, WillNotice, Newest, Queued
<1>2. ~LoadConfig /\ ~Seed /\ ~Crash /\ ~Restart /\ ~Stop /\ ~WatcherEnds
  BY DEF LoadConfig, LoadedFrom, FatalExit, Unloaded, Seed, Crash, Reset, Restart,
         Stop, WatcherEnds, Watching, PInv, TInv, StartInv
<1>3. CASE StartWatch
  BY <1>3 DEF StartWatch, NInv, HandOver, WillNotice, Newest, Watching, PInv, TInv, StartInv
<1>4. CASE Receive
  <2>1. Watching /\ missed = "no" /\ UNCHANGED <<published, storeVer, wpc, readVer>>
    BY <1>4 DEF Receive, WatcherKeeps, Watching
  <2>2. WillNotice
    BY <1>0, <2>1 DEF NoLostWakeup, Newest
  <2>3. CASE Head(queue) = "cred"
    BY <1>4, <2>3 DEF Receive, WillNotice
  <2>4. CASE Head(queue) # "cred" /\ Queued("cred")
    BY <1>0, <1>4, <2>4, TailKeepsCred DEF Receive, WillNotice
  <2>5. CASE Head(queue) # "cred" /\ ~Queued("cred")
    BY <1>4, <2>1, <2>2, <2>5 DEF Receive, WillNotice, Newest
  <2> QED BY <2>3, <2>4, <2>5
<1>5. CASE Ripen
  BY <1>5 DEF Ripen, WillNotice
<1>6. CASE Reload
  BY <1>6 DEF Reload, WatcherKeeps, WillNotice, Newest
<1>7. CASE ApplyReload
  <2>1. Watching /\ missed = "no" /\ UNCHANGED <<published, queue, timer>>
    BY <1>7 DEF ApplyReload, WatcherKeeps, Watching
  <2>2. WillNotice
    BY <1>0, <2>1 DEF NoLostWakeup, Newest
  <2>3. storeVer <= readVer /\ readVer <= Newest /\ storeVer \in Nat /\ readVer \in Nat
    BY <1>7 DEF ApplyReload, PInv, TInv, TypeOK, ReadInv
  <2>4. storeVer' = readVer
    BY <1>7 DEF ApplyReload
  <2>5. Newest' = Newest /\ Newest \in Nat
    BY <2>1 DEF Newest, PInv, TInv, TypeOK
  <2>6. CASE readVer = Newest
    BY <2>4, <2>5, <2>6 DEF WillNotice
  <2>7. CASE timer # "off" \/ Queued("cred")
    BY <2>1, <2>7 DEF WillNotice, Queued
  <2> QED BY <2>2, <2>3, <2>5, <2>6, <2>7 DEF WillNotice
<1>8. ASSUME NEW p \in Payloads, WriteFile(p) PROVE WillNotice'
  <2>1. Watching /\ Enqueue("cred") /\ timer' = timer
    BY <1>8 DEF WriteFile, Watching
  <2>2. Len(queue) < QueueCap \/ Queued("cred") \/ timer # "off"
    BY <1>8, <2>1 DEF WriteFile
  <2> QED BY <1>0, <2>1, <2>2, EnqueueAddsCred, EnqueueKeepsCred DEF WillNotice, QueueKinds
<1>9. ASSUME NEW kind \in {"cred", "other"}, Touch(kind) PROVE WillNotice'
  <2>1. Watching /\ Enqueue(kind) /\ kind \in QueueKinds
        /\ UNCHANGED <<published, storeVer, wpc, readVer, timer, missed>>
    BY <1>9 DEF Touch, QueueKinds
  <2>2. WillNotice
    BY <1>0, <2>1 DEF NoLostWakeup, Newest
  <2>3. Queued("cred") => Queued("cred")'
    BY <1>0, <2>1, EnqueueKeepsCred
  <2> QED BY <2>1, <2>2, <2>3 DEF WillNotice, Newest
<1>10. CASE UNCHANGED vars
  BY <1>1, <1>10 DEF vars, Watching
<1> QED BY <1>2, <1>3, <1>4, <1>5, <1>6, <1>7, <1>8, <1>9, <1>10
        DEF Next, ProcessStep, WatcherStep, FileStep, ProcLife

(* While the directory is watched, a valid newest content is in the store  *)
(* or on its way there, whatever the order of events, debounce timers,     *)
(* reads and replacements (Watch and runWatcher), unless it was written    *)
(* between LoadConfig and watcher.Add or the kernel's queue overflowed.    *)
THEOREM NoWakeupIsLost == Spec => []NoLostWakeup
<1>1. Init => NInv
  BY DEF Init, NInv, NoLostWakeup, HandOver, Watching
<1>2. PInv /\ NInv /\ [Next]_vars => NInv'
  BY HandsOver, WakesUp DEF NInv
<1>3. NInv => NoLostWakeup
  BY DEF NInv
<1> QED BY <1>1, <1>2, <1>3, InitPInv, StepPInv, PTL DEF Spec

-----------------------------------------------------------------------------
(* What of the convergence of the reload needs no fairness. The goroutine  *)
(* has only so much to do: every step it takes leaves it with less, a      *)
(* reload that fails included, which is not tried again.                   *)
Delay == IF timer = "armed" THEN 3 ELSE IF timer = "ripe" THEN 2 ELSE 0
Progress == IF wpc = "loaded" THEN 2 ELSE IF wpc = "select" THEN 1 ELSE 0
Work == 4 * Len(queue) + Delay + Progress

LEMMA WorkIsNat == TypeOK => Work \in Nat
BY DEF TypeOK, Work, Delay, Progress

LEMMA StepsWork ==
  ASSUME TypeOK, WatcherStep
  PROVE  Work' < Work
<1>1. Len(queue) \in Nat /\ Delay \in Nat /\ Progress \in Nat
  BY DEF TypeOK, Delay, Progress
<1>2. CASE Receive
  <2>1. queue' = Tail(queue) /\ queue # <<>> /\ wpc' = wpc
    BY <1>2 DEF Receive
  <2>2. Len(queue') = Len(queue) - 1
    BY <2>1 DEF TypeOK
  <2>3. Delay' \in Nat /\ Delay' <= Delay + 3
    BY <1>2 DEF Receive, Delay
  <2>4. Progress' = Progress
    BY <2>1 DEF Progress
  <2> HIDE DEF Delay, Progress
  <2> QED BY <1>1, <2>2, <2>3, <2>4 DEF Work
<1>3. CASE Ripen
  <2>1. queue' = queue /\ Delay' = Delay - 1 /\ Progress' = Progress
    BY <1>3 DEF Ripen, Delay, Progress
  <2> QED BY <1>1, <2>1 DEF Work
<1>4. CASE Reload
  <2>1. queue' = queue /\ Delay' = Delay - 2 /\ Progress' <= Progress + 1 /\ Progress' \in Nat
    BY <1>4 DEF Reload, Delay, Progress
  <2> QED BY <1>1, <2>1 DEF Work
<1>5. CASE ApplyReload
  <2>1. queue' = queue /\ Delay' = Delay /\ Progress' = Progress - 1
    BY <1>5 DEF ApplyReload, Delay, Progress
  <2> QED BY <1>1, <2>1 DEF Work
<1>6. CASE WatcherEnds
  <2>1. queue' = queue /\ Delay' = Delay /\ Progress' = Progress - 1
    BY <1>6 DEF WatcherEnds, Delay, Progress
  <2> QED BY <1>1, <2>1 DEF Work
<1> QED BY <1>2, <1>3, <1>4, <1>5, <1>6 DEF WatcherStep

(* Between two events in the directory the watcher comes to rest, after    *)
(* Work steps at most (the cases of runWatcher's select).                  *)
THEOREM WatcherComesToRest == Spec => [][WatcherStep => Work \in Nat /\ Work' < Work]_vars
<1>1. TypeOK /\ [Next]_vars => [WatcherStep => Work \in Nat /\ Work' < Work]_vars
  BY WorkIsNat, StepsWork
<1> QED BY <1>1, TypeCorrect, PTL DEF Spec

(* The stop function is only called while the proxy serves.                *)
StopInv == stopped => proc = "serving"

LEMMA StepStopInv == TInv /\ StopInv /\ [Next]_vars => StopInv'
<1> SUFFICES ASSUME TInv, StopInv, [Next]_vars PROVE StopInv'
  OBVIOUS
<1>1. CASE Stop
  BY <1>1 DEF Stop, Watching, TInv, StartInv, StopInv
<1>2. CASE Crash
  BY <1>2 DEF Crash, Reset, StopInv
<1>3. CASE ProcessStep \/ Restart
  BY <1>3 DEF ProcessStep, LoadConfig, LoadedFrom, FatalExit, Unloaded, Seed, StartWatch,
              Restart, StopInv
<1>4. CASE WatcherStep
  BY <1>4 DEF WatcherStep, Receive, Ripen, Reload, ApplyReload, WatcherEnds, WatcherKeeps,
              StopInv
<1>5. CASE FileStep
  BY <1>5 DEF FileStep, WriteFile, Touch, StopInv
<1>6. CASE UNCHANGED vars
  BY <1>6 DEF vars, StopInv
<1> QED BY <1>1, <1>2, <1>3, <1>4, <1>5, <1>6 DEF Next, ProcLife

(* Once stop has been called nobody gives the goroutine anything more to   *)
(* do: it has at most Work steps left before it ends (Watch, runWatcher).  *)
THEOREM StoppedRunsDown == Spec => [][stopped => Work' <= Work]_vars
<1>1. TInv /\ StopInv /\ [Next]_vars => [stopped => Work' <= Work]_vars
  <2> SUFFICES ASSUME TInv, StopInv, [Next]_vars, stopped PROVE Work' <= Work
    OBVIOUS
  <2>1. proc = "serving" /\ ~Watching /\ TypeOK
    BY DEF StopInv, Watching, TInv
  <2>2. Work \in Nat
    BY <2>1, WorkIsNat
  <2>3. Work' \in Nat
    <3>1. TypeOK'
      BY StepTInv DEF TInv
    <3> QED BY <3>1 DEF TypeOK, Work, Delay, Progress
  <2>4. CASE WatcherStep
    BY <2>1, <2>2, <2>3, <2>4, StepsWork
  <2>5. CASE Crash
    <3>1. queue' = <<>> /\ timer' = "off" /\ wpc' = "off"
      BY <2>5 DEF Crash, Reset
    <3>2. Work' = 0
      BY <3>1 DEF Work, Delay, Progress
    <3> QED BY <2>2, <3>2
  <2>6. ~ProcessStep /\ ~Restart /\ ~Stop
    BY <2>1 DEF ProcessStep, LoadConfig, Seed, StartWatch, Restart, Stop
  <2>7. CASE FileStep \/ UNCHANGED vars
    <3>1. UNCHANGED <<queue, timer, wpc>>
      BY <2>1, <2>7 DEF FileStep, WriteFile, Touch, vars
    <3>2. Work' = Work
      BY <3>1 DEF Work, Delay, Progress
    <3> QED BY <2>2, <3>2
  <2> QED BY <2>4, <2>5, <2>6, <2>7 DEF Next, ProcLife
<1>2. Init => StopInv
  BY DEF Init, StopInv
<1> QED BY <1>1, <1>2, InitTInv, StepTInv, StepStopInv, PTL DEF Spec

(* The goroutine waits in its select, and nothing is on its way to it.     *)
AtRest == wpc = "select" /\ queue = <<>> /\ timer = "off"

(* Only a stop or a new event makes it move again.                         *)
LEMMA RestIsRest == AtRest /\ WatcherStep => WatcherEnds
BY DEF AtRest, WatcherStep, Receive, Ripen, Reload, ApplyReload

(* What the watcher rests on is the newest content, if that is valid: it   *)
(* has not fallen behind a burst of updates, nor settled on one before the *)
(* last (Store.Watch).                                                     *)
RestsOnNewest ==
  AtRest /\ ~stopped /\ ParsesOK(published[Newest]) /\ missed = "no"
    => store = published[Newest]

(* Whenever the watcher is at rest, its store is up to date (runWatcher). *)
THEOREM RestIsCurrent == Spec => []RestsOnNewest
<1>1. PInv /\ NInv => RestsOnNewest
  <2> SUFFICES ASSUME PInv, NInv, AtRest, ~stopped, ParsesOK(published[Newest]), missed = "no"
               PROVE  store = published[Newest]
    BY DEF RestsOnNewest
  <2>1. Watching /\ ~Queued("cred")
    BY DEF AtRest, Watching, Queued
  <2>2. storeVer = Newest
    BY <2>1 DEF NInv, NoLostWakeup, WillNotice, AtRest
  <2>3. Newest > 0
    BY DEF PInv, TInv, TypeOK
  <2> QED BY <2>2, <2>3 DEF PInv, FromOneVersion
<1>2. Init => NInv
  BY DEF Init, NInv, NoLostWakeup, HandOver, Watching
<1>3. PInv /\ NInv /\ [Next]_vars => NInv'
  BY HandsOver, WakesUp DEF NInv
<1> QED BY <1>1, <1>2, <1>3, InitPInv, StepPInv, PTL DEF Spec
=============================================================================
