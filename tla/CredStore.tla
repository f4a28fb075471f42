---------------------------- MODULE CredStore ----------------------------
(***************************************************************************)
(* The per-client HMAC credential map of the proxy: where it is read from  *)
(* at startup (config/settings.go, main.go), the in-memory store that      *)
(* requests consult, and the goroutine that reloads the store when the     *)
(* credential file changes (pkg/credstore/credstore.go).                   *)
(*                                                                         *)
(* The environment is the credential file, whoever rewrites it (a person,  *)
(* or the kubelet renaming the ..data symlink), and the inotify queue      *)
(* behind fsnotify.                                                        *)
(***************************************************************************)
EXTENDS Naturals, Sequences

CONSTANTS
  AccessKeys,     \* access key ids
  Secrets,        \* secret keys
  Blank,          \* an empty or white-space string
  Garbage,        \* file contents that are no JSON object: absent, torn, empty
  Objects,        \* file contents that are a JSON object of strings
  InlinePayload,  \* what HMAC_CREDENTIALS holds when it is set
  LegacyKey,      \* PROXY_AWS_ACCESS_KEY_ID
  LegacySecret,   \* PROXY_AWS_SECRET_ACCESS_KEY
  Envs,           \* the environments the process may be started in
  MaxPublish,     \* bound: contents the credential file goes through
  QueueCap        \* capacity of the inotify queue

Payloads == Garbage \cup Objects

ASSUME PayloadAssumption ==
  /\ \A o \in Objects : \E K \in SUBSET (AccessKeys \cup {Blank}) :
        o \in [K -> Secrets \cup {Blank}]
  /\ Blank \notin AccessKeys \cup Secrets
  /\ InlinePayload \in Payloads

ASSUME LegacyAssumption == LegacyKey \in AccessKeys /\ LegacySecret \in Secrets

ASSUME EnvAssumption ==
  Envs \subseteq [file : BOOLEAN, inline : BOOLEAN, legacy : BOOLEAN, dryRun : BOOLEAN,
                  strict : BOOLEAN]

ASSUME BoundAssumption == MaxPublish \in Nat \ {0} /\ QueueCap \in Nat \ {0}

(* An operator whose name begins with Mut is a plausible bug in the        *)
(* definition that follows it. Nothing uses it: it is there to be put in   *)
(* that definition's place, to see that a property notices.                *)

VARIABLES
  \* environment
  env,         \* which credential sources are set, DRY_RUN, and HMAC_STRICT,
               \* set or by default, which is parsed and then never read
  published,   \* history: every content of the credential file, newest last
  queue,       \* inotify events not yet delivered to the watcher
  \* the main goroutine
  proc,        \* how far main() has come
  conf,        \* config.Config.HMACCredentials, and the version it was read at
  \* the store and the watcher goroutine
  store,       \* the map behind Store.v
  storeVer,    \* history: version of the file the map was read at, 0 if none
  wpc,         \* the watcher goroutine
  timer,       \* the debounce channel `pending`
  readVer,     \* version of the file LoadFile returned, not yet in the store
  stopped,     \* the stop function returned by Watch has been called
  missed       \* history: why the newest content raised no usable event

vars == <<env, published, queue, proc, conf, store, storeVer, wpc, timer,
          readVer, stopped, missed>>

EmptyMap == [k \in {} |-> Blank]
LegacyMap == [k \in {LegacyKey} |-> LegacySecret]

(* parse: the payload is a JSON object, has an entry, and no entry has an  *)
(* empty access key id or an empty secret.                                 *)
MutParsesEmpty(p) == p \in Objects /\ \A k \in DOMAIN p : k # Blank /\ p[k] # Blank
MutParsesBlank(p) == p \in Objects /\ DOMAIN p # {} /\ \A k \in DOMAIN p : k # Blank
ParsesOK(p) ==
  /\ p \in Objects
  /\ DOMAIN p # {}
  /\ \A k \in DOMAIN p : k # Blank /\ p[k] # Blank

(* The maps that may legitimately sit in the store. *)
Maps == {o \in Objects : /\ DOMAIN o # {} /\ DOMAIN o \subseteq AccessKeys
                          /\ \A k \in DOMAIN o : o[k] \in Secrets}
StoreMaps == Maps \cup {EmptyMap, LegacyMap}

Newest == Len(published)

QueueKinds == {"cred", "other", "overflow"}
Queued(kind) == \E i \in 1..Len(queue) : queue[i] = kind

(* The directory is watched from watcher.Add until watcher.Close. *)
Watching == wpc \in {"select", "loaded"} /\ ~stopped

TypeOK ==
  /\ env \in Envs
  /\ published \in Seq(Payloads) /\ Newest \in 1..MaxPublish
  /\ queue \in Seq(QueueKinds)
  /\ proc \in {"boot", "seed", "watch", "serving", "exited"}
  /\ conf \in [map : StoreMaps, ver : 0..MaxPublish]
  /\ store \in StoreMaps
  /\ storeVer \in 0..MaxPublish
  /\ wpc \in {"off", "select", "loaded", "ended"}
  /\ timer \in {"off", "armed", "ripe"}
  /\ readVer \in 0..MaxPublish
  /\ stopped \in BOOLEAN
  /\ missed \in {"no", "gap", "overflow"}

(* A process that has just been started: New() and empty channels. *)
Reset ==
  /\ queue' = <<>>
  /\ conf' = [map |-> EmptyMap, ver |-> 0]
  /\ store' = EmptyMap /\ storeVer' = 0
  /\ wpc' = "off" /\ timer' = "off" /\ readVer' = 0
  /\ stopped' = FALSE /\ missed' = "no"

Init ==
  /\ env \in Envs
  /\ published \in {<<p>> : p \in Payloads}
  /\ queue = <<>>
  /\ proc = "boot"
  /\ conf = [map |-> EmptyMap, ver |-> 0]
  /\ store = EmptyMap /\ storeVer = 0
  /\ wpc = "off" /\ timer = "off" /\ readVer = 0
  /\ stopped = FALSE /\ missed = "no"

-----------------------------------------------------------------------------
(* main(): LoadConfig, seed the store, start the watcher, serve.           *)

Unloaded == UNCHANGED <<env, published, queue, store, storeVer, wpc, timer,
                        readVer, stopped>>

LoadedFrom(map, ver) ==
  /\ conf' = [map |-> map, ver |-> ver]
  /\ proc' = "seed"
  /\ missed' = "no"
  /\ Unloaded

MutFatalExit == LoadedFrom(EmptyMap, 0)
FatalExit == proc' = "exited" /\ Unloaded /\ UNCHANGED <<conf, missed>>

(* loadHMACCredentials: the first source that is set wins; a source that   *)
(* is set and does not parse is fatal, and so is having none in live mode. *)
LoadConfig ==
  /\ proc = "boot"
  /\ \/ /\ env.file
        /\ \/ ParsesOK(published[Newest]) /\ LoadedFrom(published[Newest], Newest)
           \/ ~ParsesOK(published[Newest]) /\ FatalExit
     \/ /\ ~env.file /\ env.inline
        /\ \/ ParsesOK(InlinePayload) /\ LoadedFrom(InlinePayload, 0)
           \/ ~ParsesOK(InlinePayload) /\ FatalExit
     \/ /\ ~env.file /\ ~env.inline /\ env.legacy
        /\ LoadedFrom(LegacyMap, 0)
     \/ /\ ~env.file /\ ~env.inline /\ ~env.legacy
        /\ \/ env.dryRun /\ LoadedFrom(EmptyMap, 0)
           \/ ~env.dryRun /\ FatalExit

(* hmacCredentials.Replace(config.Config.HMACCredentials), if it has any. *)
Seed ==
  /\ proc = "seed"
  /\ proc' = "watch"
  /\ IF conf.map # EmptyMap
     THEN store' = conf.map /\ storeVer' = conf.ver
     ELSE UNCHANGED <<store, storeVer>>
  /\ UNCHANGED <<env, published, queue, conf, wpc, timer, readVer, stopped, missed>>

(* Store.Watch: registers the directory and starts the goroutine. Without  *)
(* a file there is nothing to watch; when fsnotify fails main logs it and  *)
(* goes on with the snapshot it has. Nothing re-reads the file here.       *)
MutStartWatch ==
  /\ proc \in {"seed", "watch"} /\ wpc = "off"
  /\ proc' = IF proc = "seed" THEN proc ELSE "serving"
  /\ wpc' = IF proc = "seed" /\ env.file THEN "select" ELSE wpc
  /\ UNCHANGED <<env, published, queue, conf, store, storeVer, timer, readVer,
                 stopped, missed>>
StartWatch ==
  /\ proc = "watch"
  /\ proc' = "serving"
  /\ \/ env.file /\ wpc' = "select"
     \/ UNCHANGED wpc
  /\ UNCHANGED <<env, published, queue, conf, store, storeVer, timer, readVer,
                 stopped, missed>>

-----------------------------------------------------------------------------
(* runWatcher, one action per case of its select. In "loaded" the          *)
(* goroutine is between LoadFile and Replace.                              *)

WatcherKeeps == UNCHANGED <<env, published, proc, conf, stopped>>

(* case ev: only Create/Write/Remove/Rename of the file or of ..data arm   *)
(* the timer; each one starts the delay anew. An overflow comes on the     *)
(* Errors channel and is logged.                                           *)
Receive ==
  /\ wpc = "select" /\ queue # <<>>
  /\ queue' = Tail(queue)
  /\ timer' = IF Head(queue) = "cred" THEN "armed" ELSE timer
  /\ UNCHANGED <<store, storeVer, wpc, readVer, missed>> /\ WatcherKeeps

(* debounceDelay has passed since the last relevant event. *)
Ripen ==
  /\ timer = "armed"
  /\ timer' = "ripe"
  /\ UNCHANGED <<queue, store, storeVer, wpc, readVer, missed>> /\ WatcherKeeps

(* case <-pending: LoadFile. A file that does not parse keeps the map. *)
Reload ==
  /\ wpc = "select" /\ timer = "ripe"
  /\ timer' = "off"
  /\ missed' = "no"
  /\ IF ParsesOK(published[Newest])
     THEN wpc' = "loaded" /\ readVer' = Newest
     ELSE UNCHANGED <<wpc, readVer>>
  /\ UNCHANGED <<queue, store, storeVer>> /\ WatcherKeeps

(* ... Replace(m). *)
MutApplyDrains ==
  /\ wpc = "loaded"
  /\ wpc' = "select"
  /\ store' = published[readVer] /\ storeVer' = readVer
  /\ readVer' = 0
  /\ queue' = <<>>
  /\ UNCHANGED <<timer, missed>> /\ WatcherKeeps
MutApplyRereads ==
  /\ wpc = "loaded"
  /\ wpc' = "select"
  /\ store' = published[Newest] /\ storeVer' = readVer
  /\ readVer' = 0
  /\ UNCHANGED <<queue, timer, missed>> /\ WatcherKeeps
ApplyReload ==
  /\ wpc = "loaded"
  /\ wpc' = "select"
  /\ store' = published[readVer] /\ storeVer' = readVer
  /\ readVer' = 0
  /\ UNCHANGED <<queue, timer, missed>> /\ WatcherKeeps

(* case <-done, or Events closed: the goroutine returns. *)
MutWatcherEnds ==
  /\ wpc = "select" /\ stopped /\ queue # <<>>
  /\ wpc' = "ended"
  /\ UNCHANGED <<queue, timer, store, storeVer, readVer, missed>> /\ WatcherKeeps
WatcherEnds ==
  /\ wpc = "select" /\ stopped
  /\ wpc' = "ended"
  /\ UNCHANGED <<queue, timer, store, storeVer, readVer, missed>> /\ WatcherKeeps

(* The stop function: close(done), watcher.Close(). The goroutine may      *)
(* still be loading, and select may still pick a ripe timer over done.     *)
Stop ==
  /\ Watching
  /\ stopped' = TRUE
  /\ UNCHANGED <<env, published, queue, proc, conf, store, storeVer, wpc, timer,
                 readVer, missed>>

-----------------------------------------------------------------------------
(* The environment.                                                        *)

(* inotify appends to a bounded queue; when it is full one overflow mark   *)
(* replaces everything that is lost.                                       *)
Enqueue(kind) ==
  queue' = IF Len(queue) > QueueCap THEN queue
           ELSE Append(queue, IF Len(queue) < QueueCap THEN kind ELSE "overflow")

(* The file gets a new content: one rename, or one step of a rewrite in    *)
(* place (then p may be garbage).                                          *)
WriteFile(p) ==
  /\ env.file /\ Newest < MaxPublish
  /\ published' = Append(published, p)
  /\ IF Watching
     THEN /\ Enqueue("cred")
          /\ missed' = IF Len(queue) < QueueCap \/ Queued("cred") \/ timer # "off"
                       THEN "no" ELSE "overflow"
     ELSE /\ UNCHANGED queue
          /\ missed' = IF proc \in {"seed", "watch"} THEN "gap" ELSE missed
  /\ UNCHANGED <<env, proc, conf, store, storeVer, wpc, timer, readVer, stopped>>

(* Something else happens in the directory: another stage of the kubelet's *)
(* update, or a file the watcher does not care about.                      *)
Touch(kind) ==
  /\ Watching
  /\ Enqueue(kind)
  /\ UNCHANGED <<env, published, proc, conf, store, storeVer, wpc, timer,
                 readVer, stopped, missed>>

(* The process dies and everything in memory with it; the file stays. *)
Crash ==
  /\ proc # "exited"
  /\ proc' = "exited"
  /\ Reset
  /\ UNCHANGED <<env, published>>

(* The pod is restarted. *)
Restart ==
  /\ proc = "exited"
  /\ proc' = "boot"
  /\ UNCHANGED <<env, published, queue, conf, store, storeVer, wpc, timer,
                 readVer, stopped, missed>>

-----------------------------------------------------------------------------
ProcessStep == LoadConfig \/ Seed \/ StartWatch
WatcherStep == Receive \/ Ripen \/ Reload \/ ApplyReload \/ WatcherEnds
FileStep == \/ \E p \in Payloads : WriteFile(p)
            \/ \E kind \in {"cred", "other"} : Touch(kind)
ProcLife == Stop \/ Crash \/ Restart

Next == ProcessStep \/ WatcherStep \/ FileStep \/ ProcLife

(* Goroutines that can run do run, and time passes. Nothing is assumed of  *)
(* whoever writes the file, of crashes or of stop.                         *)
Fairness ==
  /\ WF_vars(LoadConfig) /\ WF_vars(Seed) /\ WF_vars(StartWatch)
  /\ WF_vars(Receive) /\ WF_vars(Ripen) /\ WF_vars(Reload)
  /\ WF_vars(ApplyReload) /\ WF_vars(WatcherEnds) /\ WF_vars(Restart)

Spec == Init /\ [][Next]_vars /\ Fairness

-----------------------------------------------------------------------------
(* Properties.                                                             *)

(* Replace never installs an empty map and nothing else clears the store:  *)
(* once requests are gated (handleS3Request tests Size() > 0) they stay    *)
(* gated until the process dies.                                           *)
NeverEmptied == [][store # EmptyMap /\ proc' # "exited" => store' # EmptyMap]_vars

(* The map in force is one the file really held, whole, and it is valid: a *)
(* failed or torn read never reaches the store, nor a mix of two contents. *)
FromOneVersion ==
  storeVer > 0 => storeVer <= Newest /\ store = published[storeVer] /\ ParsesOK(store)

(* Live mode never serves without credentials (the fatal checks of         *)
(* LoadConfig and the seeding in main make the empty store a DRY_RUN-only  *)
(* state).                                                                 *)
LiveIsGated == proc = "serving" /\ ~env.dryRun => store # EmptyMap

(* main seeds before it starts the watcher, and the watcher is the only    *)
(* writer afterwards: an older map never replaces a newer one.             *)
NeverGoesBack == [][proc' # "exited" => storeVer' >= storeVer]_vars

(* No lost wake-up in debounce and select: while the file is watched, its  *)
(* newest valid content is in the store, or the watcher is about to look   *)
(* at it, unless the content was written where no event could be raised.   *)
WillNotice ==
  \/ storeVer = Newest
  \/ wpc = "loaded" /\ readVer = Newest
  \/ timer # "off"
  \/ Queued("cred")
NoLostWakeup ==
  Watching /\ ParsesOK(published[Newest]) /\ missed = "no" => WillNotice

(* The directory and the process are left alone from some point on. *)
Quiet == <>[][~(FileStep \/ ProcLife)]_vars

(* Hot reload converges: once the directory is quiet the store ends up     *)
(* with the newest valid content and stays there (credstore.go Watch).     *)
Converges ==
  Quiet => <>[](Watching /\ ParsesOK(published[Newest]) /\ missed = "no"
                  => store = published[Newest])

(* README.md:26 and credstore.go:9-11 promise this for every update: the   *)
(* only excuse kept here is an overflow of the kernel's queue. The code    *)
(* does not re-read the file after registering the watch.                  *)
EveryUpdateTakesEffect ==
  Quiet => <>[](Watching /\ ParsesOK(published[Newest]) /\ missed # "overflow"
                  => store = published[Newest])

(* The goroutine behind Watch ends after stop(), whatever it was doing.    *)
StopEndsWatcher == stopped ~> (wpc = "ended" \/ proc = "exited")
=============================================================================
