# Verification of schema-deletion-tool

TLA+ models of the tool that finds unused Schema Registry versions and deletes
them, checked with TLC on small instances and, where stated, proved with TLAPS
for every instance. The stake is simple: a version that some message, import or
rule still needs must not end up deletable, and a deletion must not go further
than the operator agreed to.

## The system

`scan` lists the schema versions of the selected subjects, resolves the topics
to read, scans all topics concurrently for the schema IDs their messages use,
analyses the versions nobody uses, and writes a manifest. `delete` reads the
manifest, later and perhaps repeatedly, and deletes what it calls safe and, if
agreed, what it warns about.

| Component | Code | State | Operations | Module |
|---|---|---|---|---|
| Topic scan | `pkg/consumer.go` 29-136, 201-208 | `activeSchemas`, `eofPartitions`, deadline | metadata, watermarks, assign, poll loop | `TopicScan` |
| Wire format | `pkg/consumer.go` 138-199 | none | IDs from payloads and headers | `WireFormat`, run in `Cleanup` |
| Scan pool | `cmd/root.go` 333-432 | `sem`, `results`, `collected`, endpoints | resolve, spawn, scan, send, collect, merge | `ScanPool`, `ScanReport` |
| Safety analysis | `pkg/safety.go`, `pkg/platform.go` 96-135 | `candidates` (status, reasons) | seven passes, in a fixed order | `Safety` |
| Deletion | `pkg/manifest.go` 84-221, `cmd/root.go` 177-240 | deletable list, position; the registry | refuse, prompt, soft and hard loops | `Deletion` |
| Manifest file | `pkg/manifest.go` 11-82 | the file | write, replace, read | `Cleanup`, `Deletion` |
| Naming strategies | `pkg/strategy.go`, `context_utils.go`, `utils.go` | none | subject to topic, topics to scan, subjects of failed topics | `Naming`, run in `Selection` and `Cleanup` |
| Platform adapters | `pkg/platform_cp.go`, `platform_cloud.go` | none | list clusters, topics, subjects, schemas; settings; DELETE | `Selection`; answers in `TopicScan`, `Safety`, `Deletion` |
| Cluster credentials | `pkg/context.go`, `cmd/root.go` 242-331 | `ctx.Clusters` | load, skip, refuse | `Selection` |
| Scan command | `cmd/root.go` 14-175 | none of its own | the order of the above | `Selection` up to the scan, `Cleanup` from the scan on |

They interact by calls that return values: the pool runs one topic scan per
goroutine; its report (`activeSchemas`, `failedTopics`) feeds the analysis; the
annotated candidates go through the manifest to the deletion. Concurrency is in
the pool (goroutines, two channels), and everywhere between the tool and what it
looks at: producers, transactions, compaction, and other registry clients do not
wait for it. Failures: any call of the platform or of Kafka, a topic that cannot
be scanned, a DELETE that fails or whose answer is lost, the tool being killed.
The hazards this gives rise to are in `PROJECT.json`, each at its line.

## Modules

### TopicScan

One call of `scanActiveSchemas`. `pc` follows the function (`metadata`,
`watermarks`, `loop`, `poll`, `done`, `failed`); `totalMsg`, `eof`, `active` and
`expired` are its `totalMsg`, `eofPartitions`, `activeSchemas` and the deadline.
A use is one (schema ID, key or value) pair, so the set `active` is the map of
ORed role bits. The broker and the client library are modelled from how the code
relies on them: `log` holds every partition's entries with their transactional
state; `Fetch` learns the last stable offset (both platforms configure
`read_committed`), `pos` is how far `Poll` has delivered. Each return of
`consumer.Poll` is an action: a message, an EOF, nothing or a tolerated error, a
terminal error. Producing, ending a transaction and compaction interleave with
every step; the watermark queries are one step per partition.

* `CompleteScan`: a scan without an error has seen every use of a message that
  was readable when it began and still exists. This is what makes "unused" mean
  something, and it is where EOF, the zero-message shortcut, the deadline and
  compaction could each go wrong.
* `NoPhantomUse`: only committed messages keep a schema alive.
* `ScanEnds`: the scan ends though a partition may never report EOF.

### ScanPool and ScanReport

`ScanPool` has one action per blocking point of `scanTopicsForActiveSchemas`:
resolving endpoints with the cache, acquiring the semaphore and spawning, each
goroutine's failure or scan, its send into the bounded channel, its deferred
close and release, each receive, the merge. `ScanReport` is what the function's
comment promises: nothing, or one report in which every scan counts once.
`Abstract` maps the pool to it (`status` from `pc`; `active`, `failedTopics`
as they are), and `ImplementsReport` is the refinement.

* `WorkerBound`: never more open consumers than `--workers`, clamped, allows.
* `MergedExact`: no result is lost, doubled or forgiven in the merge.
* `NeverStuck`: while the main goroutine is blocked, on the semaphore or for a
  result, the goroutine of some topic is not: the two channels never wait for each
  other. `Terminates` is what the scheduler's fairness makes of it.

### Safety

The passes of `AnalyzeCandidates`, then `CheckCompatibility`, then
`MarkUnverified`, in `runScan`'s order. The reference check is one action per
candidate, because other clients may `Register` a version between two of them. The
remaining passes are one action each: what a version holds never changes once it
is registered, and subject and global configurations, which other clients may
change, are taken as fixed for a run. A version is `[id, imports, rules]`; a rule is
its list (domain, migration, encoding), whether it encrypts, whether it is disabled, and the versions its
parameters name. The listing is a set of entries `<<key, n>>`: on Cloud, whose
listings are by prefix, a version is listed once for each selected subject that
its own begins with, and every entry becomes a candidate with a status of its own
(`copies` says how many). The code's loops are over independent candidates, or
over the candidates of one subject, so their order shows in one place only,
`LastEntry`: `candidateByKey` keeps the last candidate of a version. `block_reasons` are
kept as a set of causes. With `CallsMayFail` any subset of the calls of a pass
fails, and the code goes on without their answers. `late` is history: which
importers were registered after their target had been checked.

* `ImportersAreCandidates`, `EncryptionBlocks`, `MigrationPathIntact`,
  `UnverifiedKept`: what a deletable version cannot be. A version is deletable as
  soon as one of its entries is.
* `RuleTargetsKept`: what a rule of a version in use names, without a context, has
  its last entry blocked.
* `StatusHasCause`: a blocked or warned status names a cause that exists.
* `BlockedStaysBlocked`: no pass releases or renames an earlier block.

A subject configuration that cannot be read is an error on Confluent Platform,
but an empty configuration on Cloud: with `CallsMayFail` a pass may take a
subject with rules of its own for one that inherits the global ones.
`StatusHasCause` accepts a global rule as a cause only for subjects without
rules of their own, and holds when calls answer.

Known limits the model keeps: an importer that is itself blocked (say, for its
encryption rule) still counts as a candidate, so what it imports may be safe;
`ImportersAreCandidates` says exactly that and no more; it also exempts importers
registered after the check (`late`). That a version is blocked when a rule of a
version in use names it, as the tool's README says (line 224), is
`RuleTargetsBlocked`; no run checks it, because the code does not keep it in two
cases. A version that Cloud lists twice is a candidate twice, only the last of the
two is blocked (`LastEntry`), and the other leaves the version deletable. A
parameter that names a subject in a context is split at its first colon and not
recognised (`Qualified`). The theorem `TargetsBlocked` shows that these are the only
two when calls answer. Rules of subjects outside the listing are not read.

### Deletion

One manifest, many runs. `Start` chooses `--mode`, `--force` and
`--allow-unverified`; `SetupFails` and `RefuseUnverified` are the early returns;
`Plan` to `NoAnswer` are the prompts; the soft and hard loops are one action per
DELETE, and a failing DELETE may or may not have taken effect. `Crash` kills the
command anywhere. A candidate's status is whatever the file says (`StatusesIn`):
the code ignores a status that it does not know.
`Referenced` and `Accepts` are the registry: a version that a live one imports is
not deleted, and a permanent deletion needs a soft-deleted version.

* `OnlyConsented`: whatever is deleted was offered by the manifest, agreed to or
  forced, for this kind of deletion, and allowed if the scan was partial.
* `PermanentAfterAllSoft`: in full mode nothing is gone for good while another
  version of the run is still live.
* `DoneMeansDeleted`: a soft or full run that succeeds has deleted its list.
* `HardRunsFinish`: forced hard runs resume each other until every soft-deleted
  version that the manifest offers is gone, in whatever order the manifest has
  them. No order is promised: versions are deleted as listed, and an imported one
  listed before its live importer is refused, which ends a soft run.

### Naming

Names of topics and subjects are sequences of what stands between their hyphens,
so that "begins with `orders-`" is "`orders` is a proper prefix" and removing a
suffix removes one element. `Dotted` and `Begins` give what the code asks of the
characters of a segment. The operators are those of `strategy.go` and
`context_utils.go`; `Holds` is what the naming strategies of serializers mean by
a subject, independent of the code: by topic and record name, every topic that
begins the subject's name, since a record may be named with hyphens. So a name may
admit several topics. The code takes the longest, and `Shadowed` says that a topic
is not that one. `SubjectsForFailedTopics` is related to `Holds` by the theorem
`FailedTopicCovers`.

### Selection

`runScan` from its flags to `unverifiedSubjects`, one action per call that may
fail: `ListSubjects`, `SetupContext` (`SetupCP` takes all clusters, `SetupCloud`
may skip some and needs credentials), `ListTopics` per cluster, `ResolveTopics`,
`ListSchemas`, `ScanTopics` (any subset of the scans fails, as `ScanReport`
reports it). `CreateTopic` goes on beside it. `SchemasOf` and `SchemasUnder` are
the two listings: by subject, and on Cloud by prefix.

* `VerifiedMeansScanned`: a selected subject that is not called unverified has
  had every topic in scope scanned, in every cluster. `InScope` names what a run
  leaves out knowingly: topics beside `--topics`, skipped clusters, `_` topics and
  the second cluster of one name on CP. A topic that a longer one hides (`Hidden`)
  is taken out as well.
* `SameTopicFound`: a subject's topic is the same among all topics and among the
  scanned ones, which the code relies on without saying so.
* `UnverifiedForCause`: nothing is called unverified for another topic's failure,
  unless a longer topic hides its own.
* `ContextKept`: with `--context`, only that context is listed.
* `FailedTopicsBlock` is the code's own claim, for whatever is listed and any topic
  a name admits. It fails for what Cloud lists by prefix (`selection_prefix`), and
  for a hidden topic: with topics `orders` and `orders-eu`, record `eu-com.Order` of
  `orders` has subject `orders-eu-com.Order`, which stays safe when `orders` fails.

### WireFormat

The IDs a message carries, as functions of its bytes: magic byte and big-endian
ID (signed from `0x80`), headers with binary or decimal IDs, `ParseInt` with its
limits. It has no behaviour; `Cleanup` scans with it.

### Cleanup and Retirement

`Cleanup` is the tool as a whole. `stage` says whether the operator scans, has the
report analysed, or deletes; scans and deletions alternate over one registry and
one manifest, while producers write. The analysis is an instance of `Safety` and
the deletion an instance of `Deletion`, with all their actions. A message may be
behind an open transaction until `EndTransaction` commits or drops it. The scan is
what `TopicScan` and `ScanPool` were shown to return: per topic, at least the
messages that were readable when the scan began (`atStart`) and at most those
readable by now, or a failure. Uses come from the bytes of messages
through `WireFormat`, failed topics become subjects through `Naming`. What is
listed is decided by `Platform`: the selected subjects, or on Cloud all that begin
with one of them, once for each (`ListedFor`), while only the selected ones can be
called unverified. `WriteManifest` replaces the file, in any order of candidates,
or leaves an earlier one when there is no candidate; `AbandonScan` is a scan that
fails or is killed anywhere. A scan after a half-finished deletion lists what is
still live.

`Retirement` is the promise: versions go from live to soft to gone, and none of
`kept` does. `kept` is what messages used, by the meaning of their producers and
`Holds`, that could be read when the scan of the current manifest began.

* `ImplementsPromise`: `Cleanup` implements `Retirement`. A violation takes a
  use, a scan that misses it, an analysis, a manifest and a confirmed DELETE. It
  holds when the topics of all listed subjects are scanned, each listed subject is
  selected, and IDs are written as they are read. `cleanup_string_ids` shows the last
  condition to be needed, `selection_prefix` the one before it, and `topic_scan_all`
  why the promise is about readable messages only.

The other direction is not promised: five bytes of a payload that begin with the
magic byte are taken for an ID whatever they mean, and keep a version that nobody
uses. The instance of `cleanup` has such a message.

### Proof modules

`TopicScanProofs`, `ScanPoolProofs`, `SafetyProofs`, `DeletionProofs`,
`NamingProofs`, `WireFormatProofs`, `SelectionProofs` and `CleanupProofs` each
extend the module they are about. The last two rest on the lemmas about names and
bytes in `NamingProofs` and `WireFormatProofs`.

## Runs

| Run | Shows | Bounds, and why they are enough |
|---|---|---|
| `topic_scan` | the three properties above | two partitions (EOF of one against messages of the other), logs of two offsets: an open or committed message, a marker or a second message, and the removal of either |
| `topic_scan_all` | **violated**: "scans all messages in a topic" | one partition, two offsets |
| `scan_pool` | bound, merge, no hang, termination, refinement | five scans on two workers: more than twice the workers, so that a results channel of the semaphore's size would block; two topics exist in both clusters; `--workers` above the ceiling |
| `safety` | the seven properties, no failing calls, distinct IDs | one subject with three versions (a path needs a middle), a key subject and a record subject in a context; 63,360 combinations of rules, imports, usage, listing (everything once; or one subject, one of its versions twice), global rules and unverified subjects |
| `safety_unverified` | **violated**: an unverified importer protects what it imports | no rules, topic of `b` failed |
| `safety_shared_ids` | **violated**: an importer in use protects what it imports, when one schema is registered under two subjects | no rules, `a1` and `b1` share an ID and content |
| `safety_errors` | **violated**: encryption rules block, when calls may fail | one encryption rule |
| `selection` | the four properties of `Selection` | the three strategies, both platforms, two clusters that share a topic, topics named like a prefix or a suffix of one another, named, unnamed and equally named CP clusters, a context, each way to choose topics, one topic created meanwhile; 31,516 states |
| `selection_prefix` | **violated**: subjects of a failed topic are blocked | the runs of that instance on Cloud, by topic name |
| `cleanup` | `ImplementsPromise` | Cloud, two topics, three subjects with one version each, all selected, one listed twice and importing another; 57 messages that cover every header name, both encodings of an ID and payloads with and without data, in equal and mixed forms, and one without a schema whose bytes look like one; each may be behind an open transaction; `MaxLog` 2 (a use of one version beside another's), `MaxScans` 2 (the second over a half-cleaned registry and an old manifest), one crash; 3.0 million states |
| `cleanup_string_ids` | **violated**: a string-encoded ID counts as a use | one message, one scan |
| `deletion` | the four properties | three versions, one importing another; importer first and last in the list, a version listed twice, safe, warned, blocked and unknown statuses; two crashes, any number of runs |

The six violated runs are disagreements between the code and what it or its
README says; `findings` in `PROJECT.json` quotes the lines. Where the tool's own
checks are passed in that way, the registry's refusal to delete a referenced
version remains (`Accepts`), which covers imports, but neither the uses of messages nor
rules.

Bounds: `MaxLen` (offsets per partition), `MaxLog` (messages), `MaxScans`,
`MaxCrashes`, `Creations` (topics that may appear), the finite sets of the MC
modules. `CHECK_DEADLOCK FALSE` is set where the modelled function returns and
nothing follows; `deletion` and `cleanup` have no end and are checked for deadlock.

## Fairness

* `TopicScan!FairSpec`: weak fairness of the setup, the loop, `Poll` and the
  clock. Setup calls have timeouts of 5 and 10 s, `Poll` returns within 5 s, and
  time passes. Nothing is assumed of the broker or the fetcher.
* `ScanPool!FairSpec`: weak fairness of the main goroutine and of every spawned
  one, as the Go scheduler gives. That a scan returns is `TopicScan!ScanEnds`.
* `Deletion!FairSpec`: a run goes on (weak); the operator repeats forced hard
  runs, their setup does not always fail, and a DELETE that the registry accepts
  does not always fail (strong). Without such an operator nothing resumes, and
  the property says nothing about the soft mode, which cannot resume.
* `Safety` and `Selection` have no liveness property: their steps are finite loops.
  Neither has `Cleanup`, where everything that must end does so in a component.

## Proofs

TLAPS checks these for every value of the constants; the only assumptions are
the named ones of the modules (`ScanAssumption`, `PoolAssumption`,
`SafetyAssumption`, `DeletionAssumption`, `SelectionAssumption`,
`CleanupAssumption`), which TLC evaluates
in the runs of the module, and those a theorem states.

**`TopicScanProofs`**: `TypeCorrect`, `Complete`, `NoPhantom`, `OnlyUndecidedHide`. `CompleteScan` is
not inductive: it speaks of the end of the scan only. `IInv` adds what holds on
the way: fetches and the start offset stay within the decided prefix of the log
(`Decided`), everything committed below a position has been recorded and a
partition at EOF has passed its start offset (`ReadSoFar`), and a total of zero
means that the partitions queried hold nothing (`EmptySoFar`). The environment
is handled once: whatever it does is `LogEvolves` (the log only grows, contents
stay, decided entries never become committed again), and that preserves `IInv`.
`OnlyUndecidedHide` delimits the run `topic_scan_all`: a topic without an undecided
transaction at the start is read completely.

**`ScanPoolProofs`**: `TypeCorrect`, `Bounded`, `Exact`, `NoHang`, `Implements`.
`IInv` counts: the semaphore's value is the number of goroutines with a token
(`TokensCounted`), exactly the topics not yet reached have no goroutine
(`NotSpawned`), and a result is in the channel or received exactly from its send on
(`ResultsAccounted`); receiving as many results as topics then means all of
them. `NoHang`: a full semaphore has at least one token, because of the clamp, and
whoever holds it can go on, because the channel has room for the result of every
topic; a missing result is that of a goroutine that can go on. So the safety half
of `Terminates` holds for every number of topics. In the refinement only `Merge`
and `ResolveFails` are steps of `ScanReport`; all others stutter.

**`SafetyProofs`**: `TypeCorrect`, `Sticky`, `Kept` whatever fails;
`Encryption`, `MigrationPath`, `Targets`, `ForCause` when calls answer
(`CallsMayFail = FALSE`); `Importing` when also no two versions share an ID;
`TargetsBlocked` when calls answer, no version is listed twice and no subject is in
a context. The violated runs show the first two conditions to be needed, the section on
`Safety` the others. Every
pass `Tightens`: same candidates, no block undone. So it `Narrows` the deletable
versions, and what one check has established about them (`OwnEncryption`,
`GlobalEncryption`, `PathKept`, `TargetsKept`) survives all later passes and
registrations; `Checked` says from which `pc` on each of them holds. `Importing`
rests on `Asked`, which covers the candidates as they are asked for.

`ForCause` strengthens `StatusHasCause` to all the passes in progress: a status
and its reasons are only ever set together with what justifies them, and
registrations do not take a justification away.

**`DeletionProofs`**: `TypeCorrect`, `Done`, `Consented`, `SoftFirst`, for every
manifest, registry and number of crashes. `IInv` adds to the type what the list is
(`Listing`: what the manifest offers as safe or, with consent, as a warning), what
has been agreed to by which `pc` (`Agreed`), and how far the soft loop is
(`Passed`: no version before its index is live). That the keys of the listed
candidates are the offered ones is a fact about a recursive function over the
manifest; it is proved by induction stated with a set in place of a predicate
(`NatSetInduction`).

**`NamingProofs`**: `FailedTopicCovers`. Under each strategy, a subject that
`Holds` messages of a failed topic is in `SubjectsForFailedTopics`, unless that
topic is `Shadowed`. The case that needs an argument is topic-record-name: a topic
that begins the subject's name and that no longer one shadows is the longest, and
two topics of one length that begin the same name are the same.
The lemmas about `LongestPrefixTopic` (it exists, is unique, and stays the longest
among fewer topics as long as it is one of them) serve `Selection` too.

**`SelectionProofs`**: `TypeCorrect`, `Verified`, `SameFound`, `ForCause`,
`InOneContext`, `TopicsCovered`, `BlockedOnCP`, `UnhiddenBlockedOnCP`, for every
registry, all clusters, names and flags. `VerifiedMeansScanned` speaks of the end
of a run; `IInv` says how it comes about: the topics of a cluster never become fewer while a run goes on
(`Worlds`), of the clusters asked every topic in scope is known (`Asked`), what is
scanned is what `TopicsToScan` takes from the known (`Resolved`), what is listed
begins with a selected subject (`Listed`), and the verdict is that of
`SubjectsForFailedTopics` over the scanned topics (`Judged`). TLC checked `IInv` on
the instance of `selection` before it was proved. The hard case is
topic-record-name, where `ResolveTopics` looks among all known topics and
`SubjectsForFailedTopics` among the scanned ones: a subject's longest topic is
scanned because it is resolved, so both find the same (`SameFound`), and it is the
right one (`ForCause`). `UnhiddenBlockedOnCP` and `BlockedOnCP`
delimit the run `selection_prefix`: on Confluent Platform, where a listing is of one
subject, what it violates holds of every topic that no longer one hides, and so of
every topic unless subjects are named by topic and record.

**`WireFormatProofs`**: `TextRead`, `CarriedIsFound`, `FoundIsCarried`. The forms of
an ID are defined there without the code: `Binary` by division, `DecimalOf` by what
digits stand for, `Framed` and `InHeader` by where an ID is. For every message and
every ID from 1 to 2^31 - 1, a scan records the ID for a role exactly when the
message `Carries` it for that role. `InHeader` has to leave out texts of four
characters; that is the run `cleanup_string_ids`. The proofs have two parts:
big-endian reading inverts `Binary`, and the recursion over digits never wraps
around (`NextDigit`, `DigitsRead`), by induction over positions.

**`CleanupProofs`**: `KeepsPromise`, `SerializedKeepsPromise`. `KeepsPromise` says
that `Cleanup` implements `Retirement`, under three conditions. `Recognised`: a
scan recognises every use a message carries. `Covered`: the topics that may hold
messages of the selected subjects are scanned, and none is shadowed by a longer
one. `ListsSelected`: no listing brings in a subject that was not selected. The
run `cleanup_string_ids` violates the first; without the last, the unselected
version that `selection_prefix` shows to be safe is deleted while in use; the
instance of `cleanup` satisfies all three; `TopicsCovered` is what `Selection`
contributes to the second. `SerializedKeepsPromise` puts the first and the last in
terms of bytes and flags: each use is written in a form of `WireFormatProofs`, and
the platform is CP or all subjects are selected. What the promise protects are the
uses readable when a scan begins (`InUse(atStart)`); a transaction that is open
then is outside of it, as `read_committed` leaves it outside of the scan.

The argument follows a use through the tool. While topics are read, each version
that was in use at the start has a message whose topic is unread, failed, or whose
uses are in the report (`Scanning`). So when the analysis starts, its subject is
unverified (`FailedTopicCovers`) or it is not unused, and stays so: a candidate in
use is of an unverified subject, and after `MarkUnverified` it is blocked
(`Analysing`). Hence no line of the manifest offers it (`FileKept`), and by `IInv`
of `DeletionProofs` a DELETE that takes effect is of an offered version. Whether
other calls fail makes no difference, and neither does what earlier runs have
deleted.

Only model-checked: the liveness properties (`ScanEnds`, `Terminates`,
`HardRunsFinish`), because liveness is out of the prover's reach. Every other
property of a passing run is stated by a theorem.

## Not modelled

* HTTP requests, TLS, the Confluent CLI and the parsing of their answers, which
  make up most of the platform adapters: answers and errors are inputs.
* Printing, the JSON of the manifest, the warning about its age, and reading the
  configuration file; API keys typed in are an input of `Selection`.
* A manifest torn by a kill while it is written: it does not parse, and `delete`
  ends in `SetupFails`.
* `main.go`, the build files and the test scaffolding, which have no state.

`--scan-timeout` is the nondeterministic `Expire` of `TopicScan`.
