# TLA+ models of the AlfaGen PII proxy

AlfaGen masks personal data before a text leaves for a language model and
puts it back when the text returns. This directory models the parts of the
program whose correctness depends on the order of events: contexts shared by
concurrent requests, the generate pipeline, the Redis store, admission and
shutdown of the server, the access configuration that the admin service writes
and the proxy follows, supervised load tests and the load runs themselves, the
revocation of client certificates; and the way from a text to a masked text:
the detectors' search for fields and names, and the pipeline that turns what
they report into replacements. TLC checks small instances; TLAPS proves the main
results for all values of the constants.

## 1. Inventory

### Components and their state

| Component | Code | State | Operations |
|---|---|---|---|
| PII engine | `internal/pii/engine` | none of its own; each request carries a job, a draft and a record | `Process`, `Mask`, `Demask` |
| Memory store | `internal/pii/store/store.go` | a map of records under an RWMutex | `Get`, `CreateIfAbsent`, `Cleanup` (and unused `Put`, `Delete`) |
| Redis store, codec | `store/redis.go`, `store/codec.go` | sealed entries in Redis, the key ring of each backend | `Get`, `CreateIfAbsent`, `Seal`, `Open` |
| Proxy server | `internal/proxy`, `cmd/proxy` | semaphore, rate limiter, drain flag | admission, authentication, `/process`, `/v1/generate`, drain and shutdown |
| Provider client | `internal/llm/client.go` | none | `Generate` |
| Configuration manager | `internal/platform/config` | the published snapshot | poll, validate, publish; `ResolveSystem` |
| Admin store | `internal/admin/store.go` | backend and mock-client documents, key files, audit log | `UpsertSystem`, `RotateAPIKey`, `DeleteSystem`, `StartTest`, `SetTestEnabled`, `UpdateTest` |
| Admin PKI | `internal/admin/pki.go`, `crl.go` | `revocations.json`, `ca.crl`, `public/ca.crl`, `.pki.lock` | `IssueCertificate`, `RevokeCertificate`, `RefreshCRL` |
| nginx watcher | `scripts/nginx-crl-watch.sh` | two checksums; nginx's loaded list | poll, validate, reload |
| Mock-client supervisor | `internal/mock/client/managed.go` | status file, the active run | `advance`, `collect`, `stop` |
| Mock-client runner | `internal/mock/client/runner.go` | counters, pacer, availability tracker | `Run`, `SetConfig`, report |
| Registry, context rules, policies, overlaps, masks | `internal/pii` (`registry.go`, `context.go`, `policy`, `masking`) | the findings of one call | `collect`, `ResolveContext`, `FilterConfidence`, `Apply`, `ResolveOverlaps`, `Mask`, `verify` |
| Detectors | `internal/pii/detectors` | none | a prefilter before every expression; `collectLabelValue`, `nearestPrecedingMarkerMatch`, `Candidates` of names and addresses |
| Mock LLM, observability, web page | `internal/mock/llm`, `platform/observability`, `admin/web` | test double, counters, presentation | - |

### Interactions

* The server resolves the system of a request in the manager's snapshot, then
  calls the engine with that policy; the engine calls one of the two stores.
* `/v1/generate` is Mask, a provider call, Demask, under one identifier that
  other requests may use at the same time.
* The admin service never talks to the other processes: it writes files. The
  proxy polls the backend document and its key files, the mock-client polls
  the test document and answers through a status file, nginx's watcher polls
  the published CRL, and the CRL renewer is a second process that writes the
  same files as the admin service.

### What is hard

* Concurrency: two requests of one identifier; `Get` of the memory store is
  two critical sections; two processes rewrite the CRL files.
* Failure: lost and repeated Redis commands, a provider that never answers or
  answers anything, a crash between two renames, a status write that fails.
* Ordering and time: a context expires between two steps of a request; a stop
  arrives before the start was seen; a CRL changes between a checksum and the
  read it stands for; a shutdown overtakes requests that were let in; a policy
  is tightened while a record made under the old one is alive.
* Texts: a value runs into the next field, a marker of one field explains the
  number of another, a candidate swallows the word that begins the next one, a
  shortcut rejects what the expression would have matched.

`PROJECT.json` lists these hazards with the line at which each one bites and
the properties aimed at it.

### What makes each component correct

* Contexts: one binding of original and mask per key at a time; whatever a
  caller is told comes from one binding in force during its call; originals
  stay with the system, namespace and identifier they came under; every call
  is answered.
* Handlers: the caller receives only its own values and what the provider
  wrote (section 4 has the one exception), restored only by returned markers and
  only with permission; the provider sees no critical value; reusing a mask made
  under a laxer policy does not prolong its life.
* Load test: one run at a time, a status that never calls a sending run over,
  no replay of a recorded run, starts and stops take effect.
* Revocation: nothing is ever reinstated, an acknowledged revocation is in all
  files, no reload is lost, every recorded revocation is enforced in the end.
* Server: every slot comes back on every path; drain refuses new work and lets
  admitted work end; every request is answered; a signal stops the process.
* Access configuration: a snapshot is one written document with its key files;
  no lost update; a replaced key is refused in the end.
* Load run: every planned operation is counted once; limits hold under reloads;
  the planned rate is kept; the report and the exit status claim no more than
  what happened; the run ends.
* Detection: what is replaced is exactly what was selected; names and addresses
  are believed only on evidence from their own surroundings; a stricter profile
  never masks less; no mask leaves a value as it was.
* Detectors: a value after a label lies in the field of the label; numbers are
  explained by markers of their own field; a labelled name is always reported;
  the prefilter changes no answer.

## 2. Plan

1. Contexts over the memory store, with the abstract register - done, proved.
2. The two handlers, `/process` and `/v1/generate`, over the contexts, with
   policies that are tightened while records live - done, safety proved.
3. Redis store, refinement of the same register, liveness - done, safety
   and refinement proved.
4. Load test: admin control and supervisor - done, safety proved.
5. Revocation: PKI files, renewer, nginx watcher - done, safety proved.
6. `Server`: admission, drain and shutdown - done, safety proved.
7. `Access`: admin store against configuration manager - done, safety proved.
8. `Runner`: planning, workers, retries, report - done, safety proved.
   Left: the one-shot `Run` of `client.go`.
9. `Detection`, `Masking`: from findings to a masked text - done, overlap
   resolution, profiles, evidence and masks proved. Left: mask quality (`quality.go`).
10. `Patterns`, `Fields`, `Names`, `Detectors`: prefilter, labelled values,
    markers of numbers, names - done, proved. Left: streets and houses, dates in words,
    the checksums and windows of card numbers, phones, INN, passports and licences.
11. Admin sessions: login, expiry and the handlers in front of the store. Left.
12. Proofs: every safety property that the passing runs check - done. Liveness
    stays with TLC.

Abstract specifications: `ContextRegister` (done); for Access, an atomic
configuration register that the admin service writes and the manager follows.

## 3. Modules

| Module | Models |
|---|---|
| `Contexts` | texts, policies, records, and the pure parts of the engine |
| `Processor` | one request through the engine: `validate`, `read`, `mask`, `save`, answers, cancellation |
| `MemoryContexts` | `Processor` over `TTLStore`; extends it with the map |
| `RedisContexts` | `Processor` over `RedisStore`, the network and a key rotation |
| `ContextRegister` | abstract: a write-once register with expiry per key |
| `Generate` | `handleProcess`, `handleGenerate` and the provider, on top of `MemoryContexts` |
| `Server` | `withMiddleware`, `acquireRequest`, the drain check, `serveUntilStopped` |
| `LoadTest` | `changeTest`, the Reloader, `Supervise`, `advance`, the status file |
| `Revocation` | `RevokeCertificate`, `RefreshCRL`, the lock, the three files, nginx |
| `Access` | `UpsertSystem`, `RotateAPIKey`, `DeleteSystem` write by write; `Manager.ReloadContext` read by read |
| `Runner` | `Runner.Run`: the planning loop, `SetConfig`, workers, the availability tracker, report and exit status |
| `Masking` | the format masks of `masking/transform.go` |
| `Detection` | `Processor.mask`: registry, context rules, thresholds, policy, overlaps, replacement, verification |
| `Patterns` | the literal prefilter of `pattern.go` and the configured types of `custom_pattern.go` |
| `Fields` | the label scanner and the marker search of `helpers.go`, with the detectors of card holders, citizenship, places of birth, passport issuers, dates, CVV, PIN and postal codes |
| `Names` | `FullNameDetector` |
| `Detectors` | writes the texts and states the properties of the three modules above |
| `MC*` | constants for TLC |
| `MemoryContextsProofs` | theorems about `MemoryContexts`, its refinement of the register, and `Generate` |
| `RedisContextsProofs`, `LoadTestProofs`, `RevocationProofs`, `ServerProofs`, `AccessProofs`, `RunnerProofs`, `DetectionProofs` | theorems about the module of that name |

### Contexts and the engine

A text is the set of its fragments: words, PII values and markers. A marker is
the pair of a value and the request that drew the context's nonce, so equal
markers of different contexts differ, as in `tokens.go`. Order and repetition
are abstracted. A text that a caller sends may itself hold markers: those of an
answer that some caller got before. Detection is membership in the policy's types; how findings,
confidence and overlaps lead to that set is the subject of `Detection`.

A request runs through `read -> (evict) -> got -> mask -> save -> saved ->
respond -> done`. Each store access is one step per critical section, each
check of the request's context is a guard, and time (`clock`) may pass between
any two steps. `CtxFail`, `DetectFail` and `SaveExpired` are the error returns.

In `RedisContexts` a `SETNX` travels: its reply may be lost or late, the client
library then sends it again while earlier copies may still be on their way
(`flying` counts them), each copy may execute after the caller has its answer
or has given up, and the TTL it carries was computed when it was first sent.
`Ring` is the key ring of the backend that serves a request; during a rolling
change some backends do not know the new key. In the register, a call that
failed, or was answered from the binding of another, may therefore still take
effect later (`Bind`); one that was answered from its own does not bind again.

### Generate

`phase` follows `handleGenerate`; `handleProcess` is its one engine call and the
answer. The provider returns any part of everything it was ever sent, for this
call or another one (`Received`), with additions of its own, which may hold
anything (the instance adds a value). The engine of `MemoryContexts` runs each of the calls, so everything that
other requests, expiry and the sweeper do in between is included. A request
carries the policy of the snapshot at its arrival, so two requests of one
context may carry a lax and a strict one, in either order.

### Redis liveness

A goroutine is scheduled, and a `SETNX` that gets no reply is given up: go-redis
has a read timeout and a bounded number of retries. That is all
`EveryCallAnswered` needs; a command lost in the network is never assumed to
arrive.

### Server

`pc` follows a request through the middleware, one step for each place where
another goroutine can come in between: taking the slot, counting, the drain
check, the handler, and the deferred calls in their order. `Panic` leads to the
same deferred calls. A status is kept by its kind. `main` is
`serveUntilStopped`; `timer` counts down the drain delay and then the context
of `Shutdown`, `left` the deadline of each request. Only handlers take time: the
middleware, the drain check and the deferred calls are instantaneous on this
scale, and a handler returns at its deadline at the latest because body, engine,
store and provider all use its context. The token bucket is abstracted to a
refusal that is always possible.

### LoadTest

`changeTest` holds the store's mutex and is one step; the revision its caller
saw is `form`. The supervisor is `loop` (advance) `-> write` (WriteRunStatus)
`-> wait`; crashes may happen anywhere, `Leave` is an orderly return whose
deferred `stop` waits for the active run. `persisted` and `started` are history
variables.

### Revocation

An operation is one step that takes the lock, reads and signs, and one step per
rename. A list is identified by number and entries, as its bytes are. The
numbers come from a finite set: the model takes one that nothing holds at that
moment, which is what the time stamp of the code amounts to. `GiveUp` is a
failed write or the death of the process; the kernel then drops the flock.
`NearsExpiry` replaces the clock: the only test the code makes is whether 24
hours are left. nginx reads the list some time after the reload was signalled.

### Access

The admin store's mutex makes one change at a time: `pc` walks through its
writes, key file, backend document, mock-client document, with a failure or the
death of the process at each (`WriteFails`, `SyncFails`, `AdminCrash`). A form
holds the revision its session loaded; versions stand for the hashes that
`matchRevision` compares. Every document the store writes keeps the immutable
fields, so `immutableEqual` never refuses one and has no action. The manager
reads the document and then one key file per step, while the files change under
it. `written` (what each version means) and `retired` are history variables.

### Runner

The planning loop is `select -> plan -> launch -> select ... -> drain -> done`
with its local copies (`held`, `pending`); the configuration may be replaced
between any two of its steps. Each launched operation is a worker:
`pace -> http -> (backoff -> pace -> http) -> result -> count -> leave`. Time is
an integer; wake-ups of the ticker are coalesced as its channel of capacity one
does, and `Due` makes up for them. `Done` is the context of the requests: the
caller's, or the stop of the tracker after too many invalid results. The
latency reservoir and mask quality are left out; they enter `loadStatus` as one
free flag. `reloadRunner` stands for the two watchers of the document, that of
the continuous and that of the managed mode.

### Detection and Masking

A text is a sequence of cells: the pieces that the context rules tell apart (a
negative word, the end of a sentence, a separator, a line break, the header of a
person or of a field, other text). Offsets count cells. `normalizeText` replaces
rune by rune and keeps a table of offsets, so findings lie at the same cells
before and after it. A detector is an oracle: it reports any subset of `Spans`
of its types, each with confidence and evidence. The passes of
`ResolveContext` are one step each; `ResolveOverlaps` is a sweep with one
finding per step, `last` being the span that can still grow.

A value is the sequence of the classes of its runes, a mask the set of positions
it hides; `Replace` masks any value that `Shapes` allows for the type, and
`whole` collects the values of which a mask hid nothing. After format masks `Verify` may find
that a mask still reads as a value, and refuses the text.

### Detectors

`Patterns` works on runes: an expression is its syntax tree, `Ends` gives the
matches of a tree, `requiredLiterals` the literals that `compilePattern` derives.
Both are functions on `Trees`, a set of trees that holds the subtrees of its
members; `EndsAt` and `literalsOf` say what a tree adds to its subtrees, and
`Height` ranks a tree above them. A `Repeat` without an upper bound has the maximum
-1, as in `regexp/syntax`.
Runes fold to the members of their orbit, which for some letters has three
members; the length of a literal counts runes where the code counts bytes, which
matters only for the choice among literals that are all required.

In `Fields` and `Names` a text is a sequence of cells: a token with the
characters between it and the token before it (its gap). Tokens are kinds of
words and numbers that the expressions tell apart: a label, a marker, an
authority, a number by its digits, a date. The loops of the code are functions of
the number of rounds: `scanLabel` repeats `scanWord`, one word of
`collectLabelValue`, and `passOver` repeats `tryWord`, one turn of the loop of
`Candidates`; a round after the loop has ended changes nothing, and every round
before that consumes a cell, so the length of the text is rounds enough.
`fieldPrefix` is the part of the text in front of a number that
`nearestPrecedingMarkerMatch` cuts out, back to the last ';' or newline. `Window` is
`contextWindow` in cells instead of bytes; a marker cut in two by its edge has no
counterpart. The expression of a marker may match more than the marker: the
patterns of issuers take one character behind the word (`behindIssuerMarker`),
that of a birth year takes the white space up to the year (`yearOnly`) and a
character on either side (`isBirthYear`); the word in front of a name is read
back over hyphens (`precedingNameLabel`).

`Detectors` has no behaviour of its own: its actions write one more rune or
token, so that TLC enumerates the texts and shares their beginnings. The
properties compare what is reported with what the text says, or with what is
reported for the field alone.

## 4. Runs

| Run | Instance | Shows |
|---|---|---|
| `memory_race` | 3 requests, 2 systems, 1 identifier, clock to 2, 1 cancellation, valid and invalid policies | agreement on one binding at a time; isolation of contexts; refinement of the register |
| `generate` | 2 requests, 2 systems, one identifier, either handler, a lax and a strict policy, TTL 1, clock to 1, 1 cancellation; replies of anything the provider ever received and one value more | what callers and provider may see; reuse prolongs no lax mask |
| `redis` | 2 requests, one from a backend with each key ring of a rolling change, 2 copies of a command, TTL 2, clock to 2, 1 cancellation | the register over an unreliable connection; a 409 has a cause; every call is answered |
| `server` | 2 connections, 1 slot, timeouts 2, 1 and 2 | no lost slot; shutdown cuts no request off; every request answered; a signal stops the process |
| `load_test` | 1 session, 4 changes, 2 runs, 2 crashes | supervisor safety and liveness |
| `load_test_replay` | 1 run, 1 crash | finding: a run ID can be started twice |
| `revocation` | 1 certificate, 1 revocation, 1 fault | files and nginx never drop a revocation; no lost reload; a half-done revocation is completed by the next renewal |
| `access` | 2 systems, 2 sessions, 3 versions, 3 keys, 1 fault | snapshots are whole, keys on disk, no lost update, a replaced key is refused in the end |
| `runner` | 2 workers, 4 configurations, time to 3, 1 reload, 2 attempts, stop after 2 | counts, limits, planned rate, report and exit status, the end of the run |
| `runner_cancelled` | the same without reload, time to 2 | finding: a cancellation counts as an invalid result |
| `detection` | 5 detectors, 48 texts, 12 possible findings, 6 policies | what is replaced is what was selected; local evidence; which values a mask shows whole |
| `detectors` | texts of up to 4 tokens in three vocabularies with up to 2 unusual gaps; inputs of 3 runes for 1308 expressions | fields do not leak; labelled names are reported; the prefilter changes nothing |

No run lists a type invariant: they are theorems, or parts of the inductive
invariant of a theorem. Three properties that
follow from a single step (`EnforcedIsOnRecord`, `WithinLimits`,
`StricterSelectsMore`) are proved and are in no run either.

Why the bounds suffice: the races of the context store need two requests that
disagree and a third that observes them; with a TTL of 1 and a clock to 2 a
context can expire, be replaced and expire again. In `generate` a clock to 1 is
enough for a context to expire while the provider works and for a successor to
be made under its key. In `redis` the second copy of a command is the one that
executes after the answer to the first. Two runs and two crashes
allow a stop, a replacement and a crash on either side of the status write. In
the revocation run one fault can fall between any two writes, and the
operation that follows it is fault-free, which is where a lost revocation would
show; one process overwriting an entry of the other's shows with one certificate,
because the admin service and the renewer both write it, and the proofs cover any
number; eight CRL numbers exceed the seven places that can hold a list. In the
server run the timeouts are the tightest that `validateServer` accepts for a
request that lives longer than the delay, and the second connection meets the
full semaphore. In `access` three versions and keys allow two changes after the
first document, the second from a stale or from a fresh form. In `runner` a
configuration of each kind (duration, operation limit, slower rate, disabled)
can replace any other, and two workers give results in either order around the
stop after two invalid ones. In `detection` the four cells that vary stand
between, before and behind the findings, and the documents' findings overlap in
chains of up to four. In `detectors` four tokens hold a marker or label, a value,
a boundary and a second marker or value on either side, and exceed the window of
two; three runes exceed every literal, and two needles put the limit of
`alternateLiterals` within reach. The theorems remove the bounds for the safety properties
they cover.

`redis` runs without deadlock checking: at the bound of the clock every request
may have been answered, and there is nothing left to do; so do `server`, `runner`
and `detection`, in which the process, the run or the call ends, and `detectors`,
in which the text does. Requests and systems are interchangeable in `memory_race`
and `generate`, which use that symmetry; runs with liveness use none. A connection carries one request per unit of time,
which keeps arrivals from stopping the clock. `MaxClock`,
`MaxCancelled`, `MaxCopies`, `MaxVersion`, `MaxKey`, `MaxRun`, `MaxCrashes`, `MaxRevokes`,
`MaxFaults`, `MaxTime`, `MaxChanges`, `MaxRunes`, `MaxCells` and `MaxOdd` are the
bounds, all in guards of environment actions or counters.

### Findings

`managed.go` documents "one fresh run per ID". The supervisor starts the run
before it first writes the ID to the status file, so a crash or a failed write
in between lets the restarted process start the same ID again. What does hold
is `PersistedNeverReplayed`.

A comment of `runner.go` says "Cancellation is run control, not evidence that
the endpoint is unavailable". If the context ends while the body of the answer
to a last attempt is read, `sendAttempt` reports an invalid result, and the
tracker lengthens its streak.

### Limits met while modelling

Not contradicted by any document, and kept as the code has them:

* A context expires while the provider works, a request of the same system and
  identifier makes another, and the provider writes a marker of that one into the
  older call's reply: `Demask` restores it, for the record in force is the other's.
  `OnlyOwnValues` states that this is the only way to a foreign value.
* Between the check of `Mask` and the call of the provider nothing looks at the
  record's expiry. `ReuseProlongsNoLaxMask` therefore bounds the instants at which
  `Mask` accepts a record.
* The expressions of issuer markers end in one character that is no letter or
  digit. In `выдан;ОВД` and at the end of a line that character is the end of the
  field, so the scan of `collectLabelValue`, which stops at the next boundary
  (`helpers.go:95`), begins in the field behind it.
* The expression of a birth year allows any white space between label and year, so
  `Год рождения\n1985` is reported although `date.go:84-85` keeps the type of a
  field from a date in the next one; that sentence is about `classify`, which does.
  Of such years one character apart every second one is passed over.
* `-Клиент Иван`: the hyphen counts as part of the word in front of the name, no
  marker matches, and the name is not reported.
* `LabelledNameReported` is about markers that `nameStop` lists. A declined form
  at the beginning of a sentence ("Держателю Иван") matches the marker's
  expression but is no stop word, so it can be taken as the first word of a pair,
  which is reported only with evidence.
* Three kinds of values are left as they are by their mask (`ShownAsIs`): names
  behind a label whose words are single letters ("А Б"), because the first rune of
  each word stays; labelled words of nothing but the signs U+0482..U+0489, which
  the detectors take for letters and the masks do not; and what a configured
  expression finds without a letter and a digit.
* The year of a dotted date has four digits; a PIN marker nearer than any date
  marker makes it a PIN, whether or not the date is reported too.

### Fairness

* Contexts (`redis`): each request's goroutine is scheduled (weak fairness on its
  steps), and an unanswered command is given up. Nothing is assumed about time,
  the network or callers.
* Server: goroutines are scheduled, timers fire, and a handler at its deadline
  returns. Nothing is assumed about arrivals, and no signal need come.
* Access: the manager polls for ever, and a change that holds the mutex goes on.
  Faults are finite in number.
* Runner: goroutines are scheduled, time passes, and a request ends at its
  timeout. Go's `select` picks at random among the ready cases, so the end of the
  context and the duration timer are taken sooner or later (strong fairness).
* LoadTest: the ticker of the supervisor and the poll of the Reloader go on, a
  crashed container is restarted, and a cancelled run returns because each of
  its requests carries the cancelled context. A run nobody cancels may last.
* Revocation: an operation that holds the lock goes on, time passes, the
  renewer's ticker fires and gets the lock sooner or later (strong fairness:
  the admin's operations are short and rare), the watcher loops, nginx acts on
  the signal. Faults are finite in number.

## 5. Proofs

All proofs are checked by TLAPS for arbitrary constants under the assumptions
named in the modules (`ConstantsAssumption`, `NoRecordAssumption`,
`ServerAssumption`, `LoadTestAssumption`, `RevocationAssumption`,
`AccessAssumption`, `RunnerAssumption`, `DetectionAssumption`,
`AdditionsAssumption`, `RingAssumption`, `CopiesAssumption`, `NoEntryAssumption`, `PatternsAssumption`,
`FieldsAssumption`, `DetectorsAssumption` and those of `Processor`). That markers are
neither words nor values (`ConstantsAssumption`) is what the random nonce of
`tokens.go` is for. `AdditionsAssumption` only says that additions are texts.
`FieldsAssumption` gives `Window` its type; `PatternsAssumption` says that
`unicode.SimpleFold` leads back to the rune it began with, that `Trees` holds the
subtrees of its members and that nesting is well-founded, as the syntax trees of
`regexp/syntax` are; `DetectorsAssumption`, that the expressions are such trees.

* `MemoryContextsProofs`: `TypeCorrectness`, `OneBinding`, `ContextIsolation`.
  Neither safety property is inductive: the invariant adds what a request holds
  at each step (`HandsInv`), that any record in force in anybody's hand is the
  one in the map (`HeldInForce`, which is what the identity test in `Get` and
  the single critical section of `CreateIfAbsent` buy), and where each record
  came from (`Provenance`).
* `MemoryContextsProofs`, `Refinement`. The binding of the register is the item
  of the map while it is in force; a request has observed a binding from the
  moment it decides to answer. Eviction and sweeping are stutters, creation is
  `Bind`, the expiry checks after `Get` and `CreateIfAbsent` are `Observe`.
* `MemoryContextsProofs`, the handlers: `NoForeignValues`, `RestoredByMarker`,
  `GoneAfterExpiry`, `NoCriticalValueSent`, `LaxMaskIsBounded`, on top of the
  invariant of the engine. A record in the map, in a hand or kept as `masking` was
  made by some handler of its caller's text, under that caller's policy, and
  verified (`Origin`); this survives the second call of a handler, which replaces
  the request's job, because it speaks of the caller's text and not of the job.
  `Handler` says what the handler has asked so far. `MaskingHeld` is the heart of `GoneAfterExpiry`: as
  long as the context of `Mask` is in force it is the item of the map, and
  `Demask` neither misses nor evicts it. `Told` ties the engine's answer to the
  record it came from, and a record that `Demask` found in the place of another to
  the expiry of that one. Markers carry their value and the maker of their record,
  and a request makes one record, which nothing changes (`OneRecordEach`): a value
  that `Demask` restores is one of the text behind the record it used. That record
  is the one `Mask` used, which is of the caller's own text, or its successor,
  the exception of `NoForeignValues`. The same lemma makes the bound of
  `LaxMaskIsBounded` hold over any number of reuses.
* `RedisContextsProofs`: `TypeCorrectness`, `OneBinding`, `ConflictsAreReal`,
  `Refinement`. A command can execute long after its request was answered, so the
  invariant speaks of the command itself: it carries the record that its request
  made of its own text and keeps it at least until the record expires (`Command`,
  `MadeBy`); Redis holds what some request made under that key, and not for a
  shorter time (`Kept`); a record in force in anybody's hand, or announced to its
  maker as created, is the one in Redis (`Held`). The second part of `Held` covers
  the reply that is on its way. A request sends one command, and every record that
  is kept or held is that of its maker's command (`Sent`, `OneCommandEach`): a copy
  that executes after the answer can only bring back the record of that command,
  whose lifetime it does not extend. In the refinement the execution of a first
  `SETNX` is `Bind`, also when it comes that late.
* `LoadTestProofs`: one run at a time, truthful status, no replay. The
  invariant ties the active run to the goroutine that is alive, the supervisor's
  copy of the status to the file (equal run IDs whenever it is about to advance)
  and orders the run IDs: recorded, then known, then cached, then issued.
* `RevocationProofs`: `TypeCorrectness`, `AcknowledgedRevocations`,
  `EnforcedOnRecord`, `NoReinstatement`, `ReloadsAreNotLost`. The invariant says who is between its first read and its
  last write (`Exclusive`) and that the list in its hand covers both sources
  (`InHand`). For the watcher, a list that is not yet published differs from
  everything the watcher remembers (`NotYetSeen`), so a checksum never matches by
  accident; that a signed list is new needs more CRL numbers than the seven places
  that can hold one, which a set of time stamps has.
* `ServerProofs`: `TypeCorrectness`, `NoLeakedSlot`, `GracefulShutdown`. Slots
  are counted with the cardinality of the set of holders, which needs that only
  business requests reach the deferred release (`PathInv`). `GracefulShutdown`
  is an argument about time (`DrainInv`): during the delay a request at work has
  at most `RequestTimeout - DrainDelay` plus the rest of the delay left; when the
  delay is over that is less than `ShutdownTimeout`, and from then on both sides
  shrink together. It uses `ShutdownTimeout >= RequestTimeout`, `DrainDelay > 0`
  and the drain check.
* `AccessProofs`: `KeysOnDisk`, `UntornSnapshot`, `Serial`. The invariant says
  that nothing has happened to the document since the change in progress compared
  its revision (`OpInv`), that its key file is on disk and named by nobody before
  the commit (`KeyInv`), and that what the manager has built so far agrees with
  the version it read (`DocInv`). Key files get new names and are not overwritten,
  so a key read late is still the one the document meant.
* `RunnerProofs`: `NothingLost`, `LimitsHold`, `ReportIsHonest`, `PlannedRate`. Operations are
  counted with the cardinality of the set of workers that have not counted
  theirs; what the loop is about to launch fits into the slots it read
  (`LaunchInv`), a stop has a failure behind it (`TrackerInv`), and nothing moves
  after the report (`DoneInv`). The planned rate is arithmetic over the whole run
  (`RateInv`): some k slots have been counted, the ticker stands at the end of
  slot k + 1, none of the k lies behind the duration, and `Due` adds exactly the
  slots up to its argument.
* `DetectionProofs`: `NothingLostInOverlaps`, `MostCertainNames`,
  `ProfilesAreOrdered`. The sweep invariant: the spans built so far stand for
  exactly the findings swept so far, they are disjoint and end before the last
  span begins, and no finding still to come begins before it.
  `EvidenceStaysLocal`: suppression only takes confidence away, and the anchors
  are frozen among the sure raw findings before any promotion (`ContextInv`); the
  rest is about windows, whose ends are least and greatest elements of sets of
  numbers and exist because the naturals are well-founded. `PartIsHidden` has a
  hypothesis: the values have the shape that the detectors' patterns promise for
  their type (`Promised`; TLC evaluates it for the values of the run as
  `ShapesPromised`): a birth date has a letter or a digit, a phone more than three
  digits. Names and values of configured types are promised nothing; which of
  them stay as they are is in the conclusion (`ShownAsIs`). The promises are lower bounds, so a span that a merge has
  widened keeps them: it contains the finding it is named after.

* `DetectionProofs`, second part, about `Detectors`: texts and inputs of any
  length, any vocabulary, window, lexicon and set of expressions. The state is
  just the text so far (`WrittenOK`); the work lies in the functions that read it.
  A recursive function is first shown to satisfy its equation: `Iteration` for
  functions of rounds, `TreeRecursion` for functions on trees, by induction on the
  height. Induction itself (`Induction`) is the least element of a set of numbers
  that would violate the claim, which takes a set where the library's theorem takes
  an operator.
  * `LabelledValues`: `Scanned` holds after every round of the scan - no field
    boundary up to its position, and the value so far has no second label and no
    number but an issuer's. `AcceptWordKeeps` is the step. For the issuer it is the
    text behind the one character that its marker takes.
  * `FieldsAreApart`: everything the detectors read of a number - the prefix, the
    last marker in it, the nearest group, adjoining digits, the window of the
    address - is the same, shifted, in the field alone (`PrefixShift`,
    `LastMarkerShift`, `NearestShift`, `SequenceShift`, `PostalShift`,
    `VerdictShift`). CVV and PIN exclude each other because both name the nearest
    marker, and a token is one marker (`NotBothCodes`). The year right behind its
    label is the exception; any other number has no such finding in either text.
  * `LabelledNames`: behind a stop word no candidate that began earlier goes on, so
    the pass stands either before the marked word or behind a candidate for it
    (`PassFacts`). That is also why the property asks for markers among the stop words.
  * `PrefilterIsTransparent`: a tree that matches somewhere has one of its
    literals in the input, or none is known (`Answers`). `TreeAnswers` shows it for
    a tree from its subtrees, `EveryTreeAnswers` by height.

Only model-checked: liveness (`EveryCallAnswered`, `EveryRequestAnswered`,
`ShutdownCompletes`, `StopTakesEffect`, `StartTakesEffect`, `RevokedIsEnforced`,
`RetiredKeyRefused`, `RunEnds`), which the prover does not reach.

## 6. Not modelled

* The detectors' expressions themselves (a token is of the kind that its
  expression recognises), the lexicon of names, the characters of masks, YAML,
  JSON and X.509 encodings, ciphers: data.
* Streets and houses of the address detector, dates in words, and
  the detectors that ask for a checksum or for a marker anywhere in a window
  (cards, phones, INN, passports, licences, e-mail): left.
* `Put` and `Delete` of the memory store: no caller in the program.
* Loss of Redis writes in a crash of Redis (fsync every second): a property of
  the deployment, visible to callers as an expired context.
* The Kubernetes source of the configuration: a Secret is read whole, as the
  file is. The one-shot `Run` of `client.go`, latency and mask-quality figures.
* `ReadTimeout`, `WriteTimeout` and `IdleTimeout` of `http.Server`: they close a
  connection under a handler, which then returns as it does otherwise.
* Login and sessions of the admin page: planned. Its presentation, metrics and
  logs: no invariant depends on them.
* The mock LLM: the provider of `Generate` may reply anything already.
