# A TLA+ model of S3Proxy4GCS

S3Proxy4GCS lets S3 clients talk to Google Cloud Storage. It checks a client's access key
against a map of HMAC keys that is reloaded while the proxy runs, translates the S3
control plane (bucket configuration, object tagging, restore) to calls of the GCS SDK,
and signs everything else again and passes it through a reverse proxy. This directory
models the parts of it where order, concurrency or failure decide whether it is correct,
model-checks them with TLC, and proves the most important invariants for every value of
the constants with TLAPS.

    tlc -workers 2 -config CredStore.cfg MCCredStore     # a run: config, MC module
    tlapm CredStore_proofs.tla                           # proofs

## The system

| Component | Source | State | Operations | Modelled in |
|---|---|---|---|---|
| Credential store, hot reload | `pkg/credstore/credstore.go`, `main.go:112-122` | the map behind `Store.v`, the watcher goroutine with its debounce timer, fsnotify's channels | `Replace`, `LoadFile`, `Watch`, stop, `runWatcher` | `CredStore` |
| Credential sources | `config/settings.go` | `Config` | `LoadConfig`, `loadHMACCredentials` | `CredStore` (the credential part) |
| Credential gate, signing identity | `main.go:327-345`, `882-946` | the pair in a request's context | gate, `validateClientCredential`, `Lookup`, the Director's choice | `CredGate`, `CredAuthority` |
| Object tagging | `main.go:1610-1755`, `translate/gcs_tagging.go` | the object in GCS; the SDK's retries | PUT, GET, DELETE `?tagging` | `ObjectTagging`, `TagRegister` |
| Bucket configuration | `main.go:1184-1608`, `translate/gcs_{lifecycle,cors,logging,website}.go` | the bucket's attributes in GCS | PUT, GET, DELETE of four subresources | `BucketConfig`, `ConfigRegister` |
| Dispatch, feature gates | `main.go:932-1144`, `233-300` | none: a function of request and flags | the gates in their order, path parsing, the Director's addressing | `Dispatch` |
| Endpoint labels | `metrics.go:199-305` | none | `classifyEndpoint` | `Dispatch` |
| Request pipeline, shutdown | `main.go:469-494`, `607-740`, `metrics.go:327-443`, `reqlog.go:66-118` | writers wrapped around each other, the in-flight gauge, throttle tokens, counters, two logs | the middlewares, `srv.Shutdown` | `RequestPipeline` |
| Lifecycle rule translation | `translate/gcs_lifecycle.go:140-367`, `s3_lifecycle.go` | the bucket's rules in GCS | `TranslateS3ToGCSLifecycle`, `TranslateGCSToS3Lifecycle` | `LifecycleTranslate` |
| Request log: the operation | `reqlog.go:144-246` | none | `InferAPIMethod` | `Dispatch` |
| Request log: retention, other fields | `reqlog.go:120-142`, `248-346` | files | `cleanOldLogs`, `ExtractAccessKey` | left out, see below |
| Operational endpoints, routers | `main.go:497-565` | none | what `/health`, `/readyz`, `/metrics` and the redirects of `http.ServeMux` keep from the S3 handler | `Dispatch` (not what they answer) |
| Headers of the data plane, restore probe, dry-run transport | `main.go` | none | | left out, see below |

A request goes through the pipeline, the gate, dispatch, and then either a control-plane
handler (which calls GCS through the SDK, under the service account) or the Director and
the reverse proxy (signed with the client's pair). The watcher goroutine shares nothing
with requests but the atomic map. Handlers share nothing with each other but the object or
bucket in GCS.

What makes it hard:

* the map is replaced while requests look at it, three times each; the file is rewritten
  while it is read; events are debounced, dropped, or overflow a queue; the process dies;
* tagging is a read-modify-write whose attempts are repeated by the SDK, or executed after
  the handler has given up, while others write the same object;
* bucket updates are unconditional, and late ones can follow newer ones;
* a panic, an abort, a rejection or a hanging body must leave gauge, tokens, counters and
  logs consistent, from six layers which each see a part;
* data plane, control plane, metrics and request log read the same URL by different rules;
* a lifecycle rule goes on acting on objects long after the request: a filter that gets lost
  in translation deletes what nobody asked to delete, and nobody is there to see an error.

## Modules

Names follow the source. An operator `Mut...` before a definition is a plausible bug in
it; nothing uses it, and putting it in that definition's place must violate a property.

**`CredStore`** — `main()` from `LoadConfig` to serving (`LoadConfig`, `Seed`,
`StartWatch`), `runWatcher` with one action per case of its `select` (`Receive`, `Ripen`
for the timer, `Reload` and `ApplyReload` for `LoadFile` and `Replace`, so that the file can
change in between, `WatcherEnds`), `Stop`; and the environment: `WriteFile` (a rename, or
one step of a rewrite in place, then the content is garbage), `Touch`, the bounded inotify
queue, `Crash` and `Restart`. `published` is the history of the file's contents, `storeVer`
the version in the store.

**`CredGate`** extends it with requests: `Gate` (the first `Size()`), `Validate` (the second
one, and the extraction of the key), `Lookup`, then `Handle` or `Sign`. **`CredAuthority`**
is what this promises: a request is decided once, against the one map in force at that moment.
`env.strict` is the documented `HMAC_STRICT`; nothing in the code reads it. What is promised
depends on it: a strict authority refuses unknown keys, one that is not may also let them
pass (`FallThrough`).

**`ObjectTagging`** — one request is `Begin`, `ReadAttrs` or `ReadFails`, and for writes an
update with attempts on their way to GCS: `cur` is the one the SDK waits for, `old` counts
abandoned ones, which GCS may still execute. `Serve`, `ServeOld`, `Drop`, `Overwrite` (new
generation, metageneration 1), `Remove` and `OtherUpdate` are GCS. **`TagRegister`** promises
one atomic register until the object is replaced by another.

**`BucketConfig`** — twelve handlers of one shape. What differs is in the four
`TranslateS3ToGCS...`: whether a document sets, clears, keeps or is refused. `out` is an
SDK call on its way, whether or not the handler still waits. **`ConfigRegister`** promises
one register per subresource.

**`LifecycleTranslate`** — a document is a set of rules, `stored` what PUT makes of it in GCS,
`shown` what GET makes of that. Requests succeed or change nothing here; how they fail is
`BucketConfig`'s subject. The second half says what rules do to an object on a day,
`GCSMatches` for GCS and `S3DoesByAge` for S3. These are the services' own meanings, not
code: a translation is right or wrong only by what its result does.

**`Dispatch`** — a request is one record; one step decides its outcome and the object it
meets there. The routers come first: `Redirect` is `http.ServeMux` cleaning a path,
`Operate` a route of its own (any verb on `/metrics`, GET on `/health` and `/readyz`,
whether or not the feature is on). `Routed` is what is left for the S3 handler. `ClassifyEndpoint` is the label metrics derive from the same request,
`InferAPIMethod` the operation the request log does, as a verb, a subresource and its target.
`Operation` is what was carried out, from the outcome; `Documented` is the table of labels in
OBSERVABILITY.md.

**`RequestPipeline`** — a request's goroutine on its way through the layers and back
(`pc`), with what each `ResponseWriter` believes (`meter`, `observed`, `logged`) and what
the client got (`wire`). The handler in the middle is abstract. `Signal`, `Drained`,
`DrainTimeout` and `ServerError` are the end of `main()`.

Modules compose in one place so far: `CredGate` runs on top of `CredStore`. The others
meet through functions of a request only, so that their product would show nothing new.

## Runs

| Run | Bounds | What it shows |
|---|---|---|
| `CredStore` | 3 contents of the file out of 6 (two keys, rotation, addition, renaming, no entry, a blank secret, garbage), queue of 2, ten environments | `FromOneVersion`, `NeverEmptied`, `NeverGoesBack`, `LiveIsGated`, `NoLostWakeup`, `Converges`, `StopEndsWatcher` |
| `CredStoreGap` | as above, one environment | **violated**: `EveryUpdateTakesEffect` |
| `CredGate` | 2 clients, 2 keys, 2-3 contents | `NoEmptyAnswer`, `SignedWithOwnPair`, `NoFallback`, `ImplementsAuthority` |
| `Tagging` | 2 requests, 2 keys, one overwrite, metageneration up to 2 by others, one abandoned attempt besides the current one | `SameMetaSameTags`, `ExactOnSameObject`, `RetryIsIdempotent`, `AnswersAreHonest`, `ImplementsRegister` |
| `TaggingABA` | the same | **violated**: `PutReplacesTagSet` |
| `BucketConfig` | 2 requests, 4 subresources, one configuration that says something | `ImplementsRegisters`, `EveryRequestAnswered` |
| `BucketConfigLogging` | one request on `?logging` is enough | **violated**: `EmptyStatusDisables` |
| `Pipeline` | 2 requests, 1 token, statuses 200, 404, 429, 500 and a 103 | `GaugeIsExact`, `TokensConserved`, `CountedAsReceived`, `LineAgreesWithLabel`, `FileTellsStatus`, `OnlyAbortsUnlogged`, `ShutdownEnds` |
| `Dispatch` | every method; no parameter, each one in both spellings, every pair; eight shapes of path (an empty segment inside and a bucket called `health` among them), with and without a bucket in the Host; copy header; four framings; all flags on, all off, each one off | `DisabledIsUnreachable`, `MeetsAddressed`, `OnlyGCSClasses`, `CountedAsDone`, `LoggedAsDone` |
| `DispatchVirtualHost` | virtual-hosted requests | **violated**: `VirtualHostedMeets` |
| `Lifecycle` | documents of up to 2 rules out of 16, 2 prefixes, 3 foreign rule sets, 22 objects and uploads, days 0 to 4 | `ActsWithinFilter`, `PlainRulesMeanTheSame`, `GetThenPutKeeps` |
| `LifecycleWidens` | one rule that aborts uploads under a prefix | **violated**: `NoScopeBroadening` |

Why the bounds are enough. The watcher keeps one bit of the past (the timer) besides the
queue and the version it has read: three contents give it an old one, one it reads and one
that appears meanwhile; a queue of two can be full, overflow and hold both kinds of events.
The gate and the tagging handlers interact in pairs through one map or object, and two of
each are all orders of two. Two tag keys tell a key that is kept from one that is removed.
A second overwrite of the object adds nothing to the first: both restart the
metageneration. In `Dispatch` the flags are independent, so that switching each off alone,
none and all covers them; two parameters are enough for one gate to hide another.
The sixteen rules hold every element a rule can have, alone and with others, filters in both
places, ages of 0, dates good and bad; rules of a document are translated independently, so two
show all there is to see. The objects are all memberships in two prefixes, tagged or not,
created before and after the dates.
The theorems below remove the bounds for every module.
The bounds are constants: `MaxPublish`, `QueueCap`, `MaxGen`, `MaxMeta`, `MaxOld`.

`CHECK_DEADLOCK FALSE` is set where the system may stop: each modelled request is made
once, and a process that has ended does not start again in `RequestPipeline`. `Lifecycle`
never stops.

## Fairness

* `CredStore`: every goroutine that can run runs, the debounce delay passes, and a pod that
  ended is restarted (the kubelet). Nothing is assumed of whoever writes the file, of
  crashes or of stop. `Converges` asks for a directory that is quiet from some point on: under a
  steady stream of events the debounce restarts without end.
* `ObjectTagging`, `BucketConfig`: a handler's SDK call returns. This is `timeGCSCall`
  (`main.go:798`), which puts a deadline on each; it needs `GCS_CALL_TIMEOUT_SEC` above 0
  (the default). Nothing is assumed of GCS or of the network.
* `RequestPipeline`: a goroutine on its way out goes on, and the 10 s of the drain pass. Handlers
  may hang for ever.

## Proofs

The seven modules `..._proofs` prove for every value of the constants, from the assumptions
named in the modules:

* **CredStore** — `TypeCorrect`, `StoreFromOneVersion`, `StoreNeverEmptied`,
  `StoreNeverGoesBack`, `LiveProxyIsGated`, `NoWakeupIsLost`, `WatcherComesToRest`,
  `StoppedRunsDown`, `RestIsCurrent`. The inductive invariant adds
  to types where main() and the watcher can be together (no watcher before main has
  seeded, nothing in the store before that), that what was read and not yet installed is
  valid, no older than the store and no newer than the file, and for `NoLostWakeup` that an
  overflow mark is the only way in which a full queue forgets a relevant event. The last three
  are what of `Converges` and `StopEndsWatcher` needs no fairness: each step of the goroutine
  lowers the measure `Work` (events queued, the stage of the timer, the place in the loop),
  after stop nothing raises it, and when nothing is left to do the newest content, if
  valid, is in force. Fairness only adds that the steps are taken.
* **CredGate** — `GateTypes`, `NeverEmptyAnswer` (a request past the first `Size()` can rely on
  the store staying filled, which is `NeverEmptied` again), `PairsAreOwnAndFresh`, `FallbackIsDead`
  (with a map configured and `HMAC_STRICT` on, the store is filled before the proxy serves), and
  `GateImplementsAuthority`, the refinement of `CredAuthority`: initial states map to initial
  states, and each action to a decision, an arrival, a reload, or a stutter.
* **ObjectTagging** — `TaggingInvariant`, with its corollaries `TypeCorrect`,
  `MetagenerationStandsForTags`, `RetriesAreIdempotent`, `AnswersTellTheTruth`, and the action property
  `UpdatesAreExact`. The invariant says that a request never knows a later (generation,
  metageneration) than the object has, that equal pairs mean equal tags, and that an
  update that was applied has left the pair it was conditional on behind. Optimistic
  concurrency rests on these three. `HandlersImplementRegister` is the refinement of
  `TagRegister`: with `AInv`, which says what a request has sent and knows by then, an attempt
  that GCS executes on the first generation is the `Take` of the register (its patch yields
  the wanted tags, by `PatchIsExact`), and everything else answers, opens or stutters. An
  attempt cannot be executed after an answer of success, as the metageneration has moved on.
* **BucketConfig** — `BucketTypes`, and `HandlersImplementRegisters`, the refinement of
  `ConfigRegister`. `BInv` says that a call is executed at most once, only while it is
  out, carries the patch its document means or none, and that success follows execution.
  Each lemma shows for one action that it keeps `BInv` and is a step of the register.
* **Dispatch** — `Types`, `Disabled`, `SameObject`, `GCSClasses`, `Counted`, `Logged`, `OneGate`.
  `DInv` relates an outcome to its request: a gate that handled or refused was the first
  that applied (so that among several subresources the label, which goes through the same list in
  the same order, is the one that stopped the request), and a request that met an object came through the routers, so that its path has no
  empty segment but the last. Without that, trimming the path (metrics, handlers) and
  splitting it (log, Director) would disagree, and neither `Counted` nor `Logged` would hold.
  Paths are of any length; that trimming such a path keeps bucket and key is a lemma.
  `OneGate` says that a request that does not pass all gates is stopped by exactly one.
* **LifecycleTranslate** — `LifecycleTypes`, `WithinFilter`, `PlainMeansTheSame`, `GetThenPut`.
  The invariant is that `stored` is the translation of `meant`, unless somebody else has set
  it. The rest is about one rule: what its translation matches, what it shows as, and
  that showing and translating a translated rule give it back.
* **RequestPipeline** — `TypeCorrect`, `GaugeExact`, `TokensKept`, `CountsWhatClientsReceive`,
  `LinesAgree`, `FileTells`, `AbortsOnly`. The invariant `PInv` has two parts. `Gauges`: gauge
  and tokens are the cardinalities of the sets of requests in the stages between increment
  and decrement; `OneMoves` says how such a cardinality changes when one request changes its
  stage. `Counts`: as long as no informational answer went out, the counting writer knows the
  status on the wire (`Agree`), an aborted answer has begun, so its label is that status,
  and an answer not begun has the label that Recoverer, or net/http at the end, is going to
  send (`Local`). After an informational answer the writer is stuck with it (`Hinted`): it is
  the label, and the client gets the implicit 200 or Recoverer's 500. `RInv` adds what the two recorders know at each stage, and that a request
  past the log has its line in the channel or the file exactly if its body did not break off.

Only model-checked: the liveness properties `Converges`, `StopEndsWatcher`,
`EveryRequestAnswered` and `ShutdownEnds`, which need `ENABLED` and are out of the prover's
reach. Every other property of a passing run is a theorem.

## Where code and documents disagree

Each is a run that TLC must find violated.

1. `CredStoreGap`: the watch starts after the file was read, and the file is not read again; an
   update in between stays unnoticed until the next one (README.md:26, credstore.go:9-11).
2. `TaggingABA`: the update is conditional on the metageneration and not on the generation. When
   the object is overwritten in between, the patch computed for the old object can match
   the new one, and a tag that should have gone stays (solutions.md:67, README.md:537).
3. `BucketConfigLogging`: PUT `?logging` without `LoggingEnabled` succeeds and changes
   nothing; an end-to-end test expects it to disable logging.
4. `DispatchVirtualHost`: the control plane takes the bucket from the path also when the
   client put it into the Host (README.md:31, 330).
5. `LifecycleWidens`: a rule that aborts unfinished uploads under a prefix is accepted and
   aborts them in the whole bucket (solutions.md:60: filters are refused "to prevent scope
   broadening"). An expiration of delete markers only (it expires current versions), a prefix in
   the rule itself instead of its filter (ignored), and a plain expiration (it also deletes
   noncurrent versions) violate `NoScopeBroadening` as well.

Smaller ones, which properties exclude by name: tagging handlers trim a slash at the end of
a key (`MeetsAddressed`); a request whose body broke off has no line in the request log
(`OnlyAbortsUnlogged`), and one whose handler panicked after its header has a 500 there that
the client never saw (`FileTellsStatus`); the throttle answers 429 where a comment says 503
(`main.go:487`); `HMAC_STRICT=false` changes nothing, as `Config.HMACStrict` is never read, though
README.md:28, CHANGELOG.md:133-137, `settings.go:97-104` and `main.go:890-893` have unknown keys
fall through to the legacy pair then (`NoFallback` and `ImplementsAuthority` promise that they are
refused for `HMAC_STRICT=true` only); the counting writer takes an informational status for the final one and
swallows the final one (`metrics.go:334`, `Inform`): `CountedAsReceived` says that such a
request is counted under the informational status, and that its client gets a 200 whatever
the handler answered, unless Recoverer sent a 500 or nothing arrived; a bucket called `health`, `readyz` or
`metrics` meets the S3 handler for some verbs (HEAD or PUT `/health`) though `main.go:498` says
that the catch-all never picks these paths up, and is counted as "other" though `metrics.go:221`
says that they "never hit this middleware", while the request log takes GET `/health`
for a ListObjects (`CountedAsDone`, `LoggedAsDone` exclude them); a path with an empty segment inside, a
legal S3 key, is answered with a redirect to another key (`main.go:565`, `Redirect`);
HEAD and DELETE of a bucket are counted as `head_object` and `delete_object`, which
OBSERVABILITY.md:206 has for "bucket + key", and `?acl`, `?versioning`, `?uploads`, `?uploadId`,
`?partNumber` and copies as the plain verb (`CountedAsDone`); the request log calls GET and PUT of
`/bucket?acl` GetObjectAcl and PutObjectAcl (`reqlog.go:184-190`), and takes `?website`, `?logging`,
`?uploadId`, copies and others for the plain operation of the verb, a DELETE of a website
configuration for a DeleteBucket (`LoggedAsDone`); a lifecycle
date becomes a condition that GCS acts on at once, and days of noncurrent versions a number of
versions (`PlainRulesMeanTheSame`).

## Not modelled

* SigV4 itself, header stripping, `x-id`, Content-MD5, the rewriting of responses, XML: data
  of one request, without state.
* Contents of CORS, logging and website configurations: only whether a document sets, clears,
  keeps or is refused. GCS is taken to replace a configuration field whole.
* `TranslateS3ToGCS` (`gcs_lifecycle.go:1-138`), an older translation that only tests call.
* Reading and defaulting environment variables; the error classes of metrics; histograms.
* `cleanOldLogs` (`reqlog.go:300-346`): one pass over file names, comparing dates. Whether a file
  stays a day longer depends on the time zone alone; there are no steps to interleave.
* What `/health`, `/readyz`, `/metrics` and pprof answer: stateless. The dry-run transport: a
  constant answer.
* Dot segments, which `http.ServeMux` removes as it does empty ones, and percent-encoded slashes,
  which look different to those who read the raw URL and those who read `URL.Path`.
* Deployment files, scripts, SDK and end-to-end tests; they were read as statements of intent.
* External code is modelled by how the source uses it and marked so: inotify's queue,
  the storage SDK's retries of conditional calls, GCS's metageneration, chi's Recoverer and
  Throttle, net/http's ResponseWriter and Shutdown, ymlog's channel.

## What could follow

Everything in which order, concurrency, failure or translation decides whether the proxy is
correct has its module. Left are the parts under "Not modelled", each the data of one
request or a single comparison, which unit tests reach better than a model.
