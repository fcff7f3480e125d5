# Specifications of the Cortext CPA plugin

TLA+ models of `plugin/` — a Go plugin that stores the traffic of an LLM proxy
(CLIProxyAPI, "the host") in per-scope memory engines and injects recalled
memory into requests — with TLC configurations and TLAPS proofs. The reference
is the code; paths are relative to the repository, line numbers those of the
modelled commit. `PROJECT.json` maps each definition to its lines.

## 1. The system

| Component | State | Operations | Correct when |
|---|---|---|---|
| Engine table, `store.go` `Store` | `cfg`, `closed`, `engines`, `order` (LRU), `closings` (channel per retired scope), `closeWg`, `openMu`, `mu` | `ForScope`, `Prewarm`, `Reconfigure`, `DisposeAll`, detached `closeEngines` | one engine per scope, of the settings in force; its file is not reopened while it is being closed; nothing waits for ever; shutdown joins every close |
| Streams, `intercept.go` `streamStates`, `streamIngested` | a buffer and a mark per stream key (scope + hash of the request body) | `HandleStreamChunk`, `HandleResponse`, segment ingest, flush, poisoning, LRU eviction, expiry | every text stored once, none lost, no text made of two streams |
| Dedupe set, `store.go` `seen`, `seenOrder` | claimed hashes per scope, and the order of claims | `ClaimSeen`, `UnmarkSeen`, bound | a claim is backed by stored text |
| Request path, `HandleRequestBeforeAuth` | none of its own | take the staged block, ingest history, recall, ingest the query, inject, re-stage on failure | a staged block is used once or kept; history is stored once |
| Consolidation, `consol`, `writes`, `writesTotal`, `lastConsolidate` | cadence counters and a single-flight record per scope | `maybeConsolidate`, `consolidateLoop` | one run per scope at a time; a due that arrives mid-run is served; retired scopes are not resurrected |
| Interrupt bus, `bus.go` | staged text per scope | `Stage`, `Take`, `Drop`, `Clear` | bounded, newest kept |
| Scope identity, `ScopeKey`, `respScope` | response id → scope and owner | `ScopeKey`, `RememberResponseScope`, `ScopeForResponse` | tenants never share a scope; chains continue |
| Lifecycle, `main.go` | `service`, `serviceDown` under `serviceMu` | `configure`, interceptor calls, `Shutdown` | every engine of one service is closed before the next service is made; no call hangs |
| Formats, `formats.go`; text helpers, `memory.go` | none | extraction, windowing, injection, stripping, dedupe of lines | what the window cuts is stored; the block is injected once and never remembered; the prompt is the client's |
| Engines, `engine*.go` | rows in a file | `ProcessText`, `Consolidate`, `Close` | external to the models: the engine stores or fails |

**Interaction.** The host calls the interceptors concurrently, one goroutine per
call. Every interceptor takes its scope from scope identity, opens its engine
through the table, claims a text in the dedupe set, calls the engine, and
releases the claim if the engine fails. A stored text may schedule a
consolidation; a delta may stage recalled text on the bus, which the next
request takes. A drain (`Reconfigure`, `DisposeAll`) or an LRU eviction removes
engines together with the dedupe set, cadence and staged block of their scope.
`Shutdown` disposes the store under `serviceMu`; the next `register` makes a
fresh one on the same files.

**What is hard.** No operation is atomic: `mu` is released while an engine is
opened, used or closed. A configuration read before an open may be stale after
it. Channels of pending closes are read once and received from later. Two
requests with the same body share a stream key. A stream ends by a terminating
chunk, an assembled body, both, or neither; its text returns in the history of
the next request; each ingest, and each open, may fail on its own. The body of a
request passes through extraction, a window and an injection that must fit
together, and may come back rewritten. Sections 7 and 8 and the hazards of `PROJECT.json` list the particulars by line.

## 2. Modules

| Module | What it is |
|---|---|
| `ScopeLease` | abstract: what the table promises of a scope's file |
| `EngineStore` | the engine table, detailed; implements `ScopeLease` |
| `Recency` | a least-recently-used order of keys, as operators; used by `EngineStore` |
| `Recency_proofs` | lemmas about that order: stamped keys stay distinct, an eviction takes one |
| `EngineStore_proofs` | theorems of `EngineStore!Spec` and `FreshSpec`, and the refinement |
| `SeenSet` | the dedupe set of a scope, as operators |
| `Streams` | streamed responses into one scope; uses `SeenSet` |
| `Streams_proofs` | theorems of `Streams` |
| `Requests` | requests of one scope, the interrupt bus, and drains under them; uses `SeenSet` |
| `Consolidate` | the cadence and the single flight of background consolidation |
| `Consolidate_proofs` | theorems of `Consolidate` |
| `ScopeIdentity` | which memory a call belongs to: buckets, chains of responses, the cache of stream scopes |
| `Requests_proofs` | theorems of `Requests` |
| `ScopeIdentity_proofs` | theorems of `ScopeIdentity` |
| `Transcript` | bodies of the four formats: extraction, window, lines, injection, as operators |
| `Assembly` | a conversation through `HandleRequestBeforeAuth`; uses `Transcript` |
| `Assembly_proofs` | theorems of `Assembly`, and the lemmas about the operators of `Transcript` |
| `Lifecycle` | register, calls and shutdown around `serviceMu`, with the stores they make |
| `Lifecycle_proofs` | theorems of `Lifecycle` |
| `MCEngineStore`, `MCStreams`, `MCRequests`, `MCScopeIdentity`, `MCAssembly` | constants for TLC |

Each section under a mutex is one action; a lock held across sections is a
variable. A definition headed `Fault:` is used by no specification: it is a
plausible bug, put in the place of a definition to see that a property notices.

### EngineStore

`engines`, `order`, `closings`, `closed`, `cfg`, `closeWg`, `openMu` are the
fields of `Store`. Engines are `Handles` with a life: `opened` by `openEngine`,
`live` in the table, `doomed` by a drain or an eviction, `closed`; or
`discarded`, when the insert finds the store closed or the settings changed. A
channel of `closings` carries the name of the handle it was made for. `pc` walks
a request through `ForScope`:

    lookup -> lock -> pend <-> recv -> recheck -> open -> insert -> idle

and a prewarm through `start -> add -> reread -> open -> close -> done`.
`closers` are the running `closeEngines` goroutines, each with the handles it
owns; `dpc` and `dbatch` are `DisposeAll`, which closes its batch itself.
`replaced` is a history variable, read only by `FreshNext`.

`Spec` lets any reconfiguration happen. `FreshSpec` excludes those that return
to material settings once replaced; section 6 says why.

### Streams

An exchange is one streamed response: `HeaderInit`, the deltas (`Chunk`), a
terminating chunk (`Done`, possibly twice and possibly with the last delta), the
assembled body (`Respond`), and resubmits of the message (`Resend`). Calls of one exchange follow
one another, calls of different exchanges interleave. Delta `i` of exchange `e`
is `<<e, i>>`, a text is the set of the deltas in it: equality of texts is
equality of hashes, no two deltas of the model carry the same text, and the
properties ask which deltas stand in a row and of how many streams, not in which
order (a buffer appends, so the deltas of one exchange are in theirs). `bufs` and `marks`
are the two process-wide maps with their eviction orders, and `pc` goes through
one locked section at a time, among them the ones that matter:

* the poison check, the append and cut, the second poison check (`recheck`);
* claim, `ProcessText`, and the unmark of a failed one;
* the flush of the residual and the claim of the whole text, in the terminating
  chunk and in `HandleResponse`;
* the check of a poisoned buffer and the clear, at the two ends of a
  terminating chunk.

`Faults` switches on failing opens, failing ingests and the passing of time
(60 s over a poisoned buffer, 5 min over a mark). `Responses` gives the possible
answers: kinds of deltas, where a segment ends, whether a terminating chunk
comes. `SeenSet` gives the bounded dedupe set with its oldest quarter dropped.

### Requests

A request is what `HandleRequestBeforeAuth` makes of a body: the texts of the
history it may have to ingest, and the query. `pc` follows it through

    idle -> open -> ingest <-> process,  ingest -> recall -> ingest -> inject

where `Begin` takes the staged block, `open` is `ForScope`, `ingest` the claim of
the next text and `process` its `ProcessText`. A request keeps the engine it got
(`held`), while `Retire` (eviction or reconfiguration), `DrainWithoutEngine` and
`Dispose` replace the dedupe set and drop the staged block under it, and `Close`
makes the engine fail. The table itself is reduced to one scope whose engines
share a file, opened as `EngineStore` under `FreshSpec` allows: after every
pending close. A staged block is a unit and the cap counts blocks. The history
variables `own`, `copies`, `loose`, `issued`, `injected` and `dropped` hold back
no step, except that a gate stages a block once.

### Consolidate

`writes`, `writesTotal`, `lastConsolidate` and the record `consol` of one scope,
with `maybeConsolidate` in its three locked sections (`NoteDurableIngest`,
`AllowConsolidateAttempt`, `scheduleConsolidate`) and `consolidateLoop` in
rounds. A loop carries the engine it was started with and the record it was
started for; a retirement drops the record, and a loop whose record is gone ends
after its run. An ingest keeps its engine across retirements, so it may well
make the new record and start the loop on the old engine.

### ScopeIdentity

A scope is a record of what its key is made from (`mode`, `tenant`, `bucket`,
`name`), for the hashes are taken to be collision-free and the key's parts cannot
be confused; `Global` and `NoScope` stand for the two constant keys. A turn is the
request handler, then chunks and perhaps the assembled response, all with the
same identity `ids`. Each handler reads the configuration (`key`), may ask the
map of response ids in another locked section (`chain`), may cache (`cache`) and
remember the turn's response id (`remember`); between these steps other turns and
`Reconfigure` go on. `respScope` with `respOrder` is the bounded map, `scopes`
the cache in `streamStates`, which belongs to the process and outlives both the
configuration and the store.

### Transcript and Assembly

A body is a sequence of messages, each of parts — text, image, call, result,
reasoning — and a slot for the system prompt where the format has one
(`system`, `systemInstruction`, `instructions`). A text is a sequence of words;
the opening line of the block, the literal tag without it, the closing tag and
the bullet of a line are words of their own, so that a user's own
`<cortext_memory>` can be told from a block; so is what stands before a rendered
call and behind clipped arguments. What the code measures in bytes is measured in
words: the arguments of a tool are clipped to `MaxArgs` (2000 bytes), a stored
text to `MaxIngest` (16 KiB), a line to `MaxLine` (2 KiB), and a recalled text
is nearly the query when one of the two contains the other, which is longer than
`LongEcho` (40 bytes) and more than four fifths of the whole (`NearlyAll`,
`Echoes`). `Transcript` has the functions of
`formats.go` and `memory.go` on these: `ExtractMessages`, `WindowMessages` with
its orphan guards, the comparisons with the window, `FormatMemories`,
`StripMemoryBlock`, `InjectMemoryBlock`. Where the code walks a list and keeps some
of it — a window, a filter, a dedupe, the words outside a block — the model says
which positions stay (`Subsequence`, `Kept`): `InBlock`, for one, says of a word
what the scan of `stripMemoryBlock` would find out.

`Assembly` runs `HandleRequestBeforeAuth` as a whole, in the code's order: store
the history, cut it, recall, compare with what is left, inject. Between requests
the gate stages a line, the client appends a turn (`NextTurn`), or the host
sends the request again, as it came or as it was rewritten (`Retry`). The engine
recalls any sequence of stored texts. `Requests` has the interleavings and the
failures of the same handler and treats a block as a unit; `Assembly` has the
texts, one request at a time.

### Lifecycle

`serviceMu`, `service`, `serviceUp`, `serviceDown` are the variables of
`main.go`. `store[g]` is the `g`-th Store: its settings (by the number of the
configure that brought them), `closed`, `openMu`, `closeWg`, and the handles that
have the file of one scope open — in the table, `doomed` (`DisposeAll` closes it
itself), `closing` (detached closes, counted), `discarded` (opened in vain,
closed by a bare goroutine). A thread of the host goes through

    idle -> configure | intercept | shutdown
    intercept -> entry -> lookup -> miss -> wait -> recheck -> opened -> use -> idle
    shutdown -> drain -> close -> join -> idle

and the n-th configure starts prewarm n (`start -> lock -> locked -> opened ->
none`). Calls are admitted under `serviceMu` and go on without it, with the
service that they found. Prewarms, detached closes and discards are goroutines
that outlive the call that started them.

## 3. Runs

| Run | Question | Result |
|---|---|---|
| `engine_store` | Any order of lookups, opens, evictions, reconfigurations, a prewarm and `DisposeAll` | table, order and live handles agree (`TableExact`); no engine with replaced settings (`CurrentSettings`); shutdown joins (`DisposeJoins`) and nothing is added to the WaitGroup it waits for (`NoAddWhileWaiting`) |
| `engine_store_lease` | The same store with two racing requests, never reconfigured back | one miss opens one handle; each waiter has someone to signal it; `ScopeLease` is implemented, so that no handle reads a file through a lease while another does or while a close of it is pending; every `ForScope` and `DisposeAll` returns |
| `streams` | Streams without failures, on one or two stream keys | nothing is stored twice (`StoredOnce`), the assembled body is skipped only if its text is stored (`AnsweredStored`), a resent message ends up stored (`ResentIsStored`) |
| `streams_faults` | All kinds of deltas, failing opens and ingests, expiry, one buffer slot | tables bounded; two exchanges never mix in a row |
| `streams_claim` | Is a claimed text stored, when an ingest failed? (intercept.go:688-689) | no: section 8, 1 |
| `consolidate` | Two ingests schedule while the scope is evicted, drained, reopened | one loop per record (`SingleFlight`) and per engine in the table (`LiveEngineOneLoop`); throttled hints do not put an attempt off for ever (`CadenceBound`); a due leads to a run unless its engine is retired (`DueIsServed`) |
| `requests` | Two requests and a gate, with evictions, drains, failures and shutdown | a mark has its text stored or on its way (`ClaimBacked`); a text is stored once per dedupe set (`StoredOnce`); a staged block is neither lost nor injected twice (`BlocksInOnePlace`) |
| `scope_identity` | Two turns at a time of two tenants, with chains, cache, eviction and changes of `memory_scope` | tenants never share a memory but the global one (`TenantsApart`); while no id has left the map a turn keeps its memory and a chain continues in it (`OneMemoryPerTurn`, `ChainContinues`) |
| `assembly` | Conversations of the four formats with tools, literal tags, images, staged lines and retries | what the window cuts is stored, a large text by its head (`CutIsStored`), and leaves no result without its call (`NoOrphanResult`); prompts, reasoning and blocks are never remembered (`OnlyConversationStored`); one block, of this request (`OneBlock`), beside an untouched prompt (`ClientKept`); no line twice (`InjectedOnce`), none lost but echoes of the query (`RecallShown`) |
| `assembly_window` | Does the window leave an output without its call? (formats.go:79-82) | in the Responses format, with parallel calls: section 8, 2 |
| `lifecycle` | Two threads register, reconfigure, call and shut down, beside prewarms and closes | each engine that was published, and each prewarm, is closed before the next store is made (`StoresApart`); no store is forgotten open (`NoStoreLeft`); each call returns (`CallsReturn`) and each handle is closed (`HandlesAreClosed`) |
| `lifecycle_fresh` | Is nothing of the old store closing when a fresh one opens a file? (main.go:137-138) | an open overtaken by the shutdown is: section 8, 3 |

To run one: `tlc -config EngineStore.cfg MCEngineStore`; the module and
configuration of each are in `PROJECT.json`.

**Bounds.** `EngineStore.cfg`: one request at a time but three scopes, three
handles, two table slots, two configurations and a prewarm, so that evictions,
drains and closes of several handles overlap. `EngineStoreLease.cfg`: two
requests for two scopes with one slot, so that each insert evicts and two misses
of a scope race. A pending close,
a waiter, and an insert in flight fit in these sizes, and the proofs do away
with the bounds for the safety properties. `Streams.cfg`: two exchanges
that share a key or not, of two deltas, the first of which ends a segment or
not; two is what it takes for a segment, a residual, and a sibling that
poisons. `MaxSeen` is 8, above the number of texts. `StreamsFaults.cfg` makes
every table as small as it can be (one buffer, two hashes) so that eviction
strikes in mid-stream. `Consolidate.cfg`: cadence 2 and three writes, for
one scheduled attempt and one in mid-run; two engines and three records, so that
a record is dropped under its loop and replaced twice. With a cadence of 10, a
gap of 2 and 14 writes of one ingest the same properties pass (not kept as a
run). `Requests.cfg`: two requests, each with a text of history and a query, or
with nothing to store; a cap of one block with two blocks, so that a re-staging
overflows; a dedupe set of two, so that a claim order with a text twice forgets
a claim. `ScopeIdentity.cfg`: one
response id fits in the map and two exist, so every second one evicts; one entry
fits in the cache; one of the tenants also has a named session, so that a chain
leads elsewhere than the tenant's bucket. `memory_scope` is session or global;
the agent mode chooses among the same buckets, and the theorem covers it.
`Assembly.cfg`: a window of two messages over conversations of up to six, so that
it begins inside a tool turn and beside pinned prompts; one line to recall of two
found, one staged, and lines of one word, so that each cut, limit and dedupe
bites (some 150,000 states). `MaxIngest` is 6 and one user's turn has 7 words, so
that its head is stored and nearly is the query (`LongEcho` is 4), while another
turn of 5 words nearly is that head: each way of nearly being the query
happens. `MaxArgs` is 1 for calls of two words. `Lifecycle.cfg`: two threads, of which one shuts
down or registers while the other is anywhere in its call; two configures make
either two stores or one that is reconfigured. One scope is enough, for files of
different scopes do not meet; the safety properties are proved for any number.
Symmetry is used
only in runs without liveness. The stream configurations switch deadlock
checking off, as every exchange can finish; the store's do not.

**Fairness.** In `EngineStore`: weak for the steps of goroutines that hold or
need no lock, strong for taking `openMu`, because a `sync.Mutex` in starvation
mode hands itself to the longest waiter. Nothing obliges a request, a
reconfiguration or a shutdown to come. In `Streams`: weak for handlers, which
nothing blocks for ever; strong for `Resend`, because a client resends its whole
history with each request; strong for `ProcessText`, that is, the engine does not
fail for ever. `ResentIsStored` is checked without faults, where the last
assumption only says that an ingest ends. In `Consolidate`: weak for ingests and
loops, which nothing blocks; strong for the start of a run, which takes turns
with others on the lock of the engine, a `sync.Mutex`. In `Lifecycle`: weak for
goroutines, opens and closes, strong for taking `serviceMu` and `openMu`, for the
same reason as above; no call, no configure and no shutdown has to come.

## 4. What is proved

`EngineStore_proofs`, for every number of requests, prewarms, scopes, handles and
configurations, of `Spec`:

* `TypeCorrect`: the types, in particular `closeWg` never negative;
* `SettingsAreCurrent`, `MissesOpenOnce`, `DisposeAllJoins`, `NoLateAdd`: the
  properties `CurrentSettings`, `OneMissOneHandle`, `DisposeJoins` and
  `NoAddWhileWaiting`;
* `TableIsExact`: `TableExact`.

The same module, of `FreshSpec`:

* `FreshInvariant`, and from it `ClosedBeforePublished` (`PublishedAfterClose`),
  `EveryWaiterIsSignalled` (`WaitersAreSignalled`), `LeasesAreSafe`
  (`LeaseSafe`), and `StoreImplementsLease`: each step of the store is a step of
  `ScopeLease` or a stutter.

The assumptions are the named `ASSUME`s of `EngineStore`: disjoint thread sets,
`None` outside every set it marks an absence in, the prewarm key not a scope key
(scope keys begin with a letter, `.prewarm` does not), finitely many handles and
prewarms, `MaxEngines` positive.

**Argument.** None of the properties is inductive. The invariant is

    IInv == TypeIntact /\ Control /\ Table /\ Batches /\ Disposal /\ WaitGroup

`Control` ties program counters to locals and to `openMu`: whoever is past
`lock` holds it, so at most one handle is `opened` — the reason two misses of
one scope cannot both open. `Table` makes `engines` and `hst` mutually exact and
gives the settings of live handles, also for the handle in flight, compared
under the same lock that publishes it. `Batches` says that every doomed handle
belongs to exactly one `closeEngines` run and that runs are disjoint; `Disposal`
what is left after each step of `DisposeAll`; `WaitGroup` that the counter is
the number of runs plus the number of counted prewarms, from which both the
join and the absence of late additions follow. `TableIsExact` needs a second
invariant, `OrderExact`, about the list that the eviction reads: each key of the
table is in it once, none else is, and it is no longer than `MaxEngines`; the
lemmas of `Recency_proofs` say what a bump, an eviction and a drain make of it,
and give the cardinality of the table from the length of the list.
`FreshInvariant` adds

    Markers:  closings[k] = h  iff  h is retired for k and its run unfinished,
              and no marker stands beside a live engine of k, or before an
              insert that will be published

whose last clause is the one restored settings break: a drain during an open
leaves a marker, and only because the settings of that open can never be in
force again does the insert fail.

`Consolidate_proofs`, for every cadence and any number of ingests, engines,
records and loops: `TypeCorrect`, `FlightIsSingle` (`SingleFlight`) and
`LiveEngineHasOneLoop` (`LiveEngineOneLoop`). The last is not inductive: nothing
in it keeps a stale loop off the engine on which a new one starts. Its invariant
adds `StaleLoopsRetired`: a loop on the engine in the table has the record in the
store, for a retirement takes both away at once.

`ScopeIdentity_proofs`: `TenantsStayApart` (`TenantsApart`) for every mode and any
number of turns, tenants, names and ids. The invariant says that every scope a
turn has, the map holds or the cache holds is its owner's own or global
(`TurnsOwn`, `EntriesOwned`, `CacheOwned`); it is inductive because the map is
asked with the presenter's key and the cache with the whole identity.
`TypeCorrect` (`TypeOK`), `TurnsKeepTheirMemory` (`OneMemoryPerTurn`) and
`ChainsContinue` (`ChainContinues`) rest on a second invariant,

    CalmInv == TypeIntact /\ IdsUnique /\ Settled

`IdsUnique` says that no two turns have one response id, and that no client has
seen it before the request has its scope. `Settled` holds while no id has left the map and the
settings stand: the map has exactly the ids that clients have seen, with the
scope that the turn's request got (`MapSettled`); the cache has no other answer
than the map would give (`CacheSettled`); and so every handler of a turn has
what its request asked (`TurnsSettled`). The hypothesis is needed:
`ScopeIdentityCache.cfg` shows what happens when the settings change (section 8, d).

`Consolidate_proofs` also has `CadenceIsBounded` (`CadenceBound`). Its invariant,
`CounterKeepsUp`, says how far the cadence counter may lag: it is started anew
without an attempt only where the attempt is throttled, and then the last one
was less than a gap ago.

`Requests_proofs`, for any number of requests, gates, texts, blocks and engines:
`TypeCorrect`, `ClaimsAreBacked` (`ClaimBacked`) and `TextsStoredOnce`
(`StoredOnce`). `ClaimBacked` needs to know that an ingest in `process` still has
its text in hand (`Control`). `StoredOnce` counts, and a count is not inductive;
`SoleClaims` says why it stays at one: a text that was stored on a claim, or is
about to be, is marked, and nobody else holds a claim on it. It is stated for
the texts outside `loose`, whose marks left the set before their time.
`BlocksKept` (`BlocksInOnePlace`) counts, too; its invariant `BlockInv` says that
the places a block can be in — the bus, the hands of each request, injected,
dropped — have no block in common nor twice, and that together they have every
block that was issued.

`Streams_proofs`, for finitely many exchanges, with responses of any length, and
any number of stream keys:

* `TypeCorrect` (`TypeOK`), under every fault;
* `ResponsesStayApart`: `RowsUnmixed`, under every fault, while `Uncrowded`: no
  three exchanges have used one key, and no more keys have been used than
  buffers are kept;
* `AnsweredIsStored` (`AnsweredStored`), `SkipsLoseNothing` (`SkipLosesNothing`)
  and `ClaimsAreBacked` (`ClaimKeepsText`), while `Roomy` (the second half of
  `Uncrowded`), when no open and no ingest fails; marks and poison may age. The
  latter two are for `IngestAssistant` on: with it off an answer is not meant to
  be stored;
* `NothingIsStoredTwice` (`StoredOnce`), while `Roomy`, without faults, and as
  long as the dedupe set forgets nothing (`Remembers`).

The hypotheses are what the code needs. A third exchange on a key mixes two
streams (`StreamsMixed.cfg`, section 8, c). So does an eviction between two
exchanges of a key: the poison goes with the buffer, and the two meet in a fresh
one; with one slot this takes two keys and three exchanges, which is why the runs
with two exchanges do not see it. An evicted buffer loses its residual
(section 7), and a failing ingest breaks `ClaimKeepsText` in `streams_claim` and
`SkipLosesNothing` in `StreamsSkip.cfg`; the two theorems say that a failure is
the only way while buffers last. `StoredOnce` fails with an expired mark or
a failure that leaves none (section 7), with a claim dropped from the full set,
and, with two keys in use and one buffer, with an evicted mark: the theorem
excludes these four and nothing else. `SkipLosesNothing` is checked by that
configuration only.

Two invariants carry them. `UncrowdedInv` says that of two exchanges of a key
that may both still append, the buffer is poisoned (`Poisoned`), that what is
buffered is of the one exchange that may append next, and that nobody else is
between its poison check and its append (`Unmixed`), so that what is handed to an
ingest is of one exchange (`TodoUnmixed`). `DeliveryInv` follows the deltas of an
exchange alone on its key: each one the host has sent is in a row, in the buffer,
in the hands of an ingest or about to be appended (`Accounted`); after the last
flush the buffer is empty (`Emptied`); the whole text has nothing that was not
sent (`WholeTold`); and a claim is backed (`Backed`). `Phases` says which handler
can be where, `Owned` that texts stay with their keys, `Finished` that a stream
that has ended was sent to its end.

`OnceInv` carries `StoredOnce`. That two rows have no delta in common is not
inductive: what will be a row next must be apart from them, too. `SegmentsApart`
says that the rows, what is buffered for each kind of text, and the texts in the
hands of an ingest are pairwise apart, and that all of them are of deltas that
came `Earlier` than the one about to be appended. A body or a resent message
brings the whole text once more, so it must find it claimed: `MessageLoses`. And
for that `Claiming` follows an exchange through the three states of its claim:
it is `Gathering` (the buffer has the whole text so far and remembers whether
any of it was stored), or at the end of its stream (`Flushing`, `Taking`) with
the whole text in hand on its way to the claim, or `Settled`. The mark by which
`HandleResponse` knows the stream must not have failed or aged (`Clean`); `Ledger`
and `NoneFailed` are what the absence of faults amounts to.

All three invariants were model-checked before they were proved, the first two
with ingests that fail and without.

`Assembly_proofs`, for any prompts, turns and texts of the clients, any window, any
limits, and any number of turns and retries:

* `CutsAreStored` (`CutIsStored`) and `OnlyTheConversationIsStored`
  (`OnlyConversationStored`): what is stored is what the dialogue says, or the
  head of it that an ingest keeps, and all of it that the window takes away;
* `NoResultIsOrphaned` (`NoOrphanResult`) and `TheClientIsKept` (`ClientKept`):
  what the window and the injection leave of the client's body;
* `OutputsKeepTheirCalls` (`NoOrphanOutput`), for clients of the Responses format
  that call one tool at a time (`OneCallAtATime`): the parallel calls of
  `assembly_window` (section 8, 2) are the only way to lose a call;
* `TheModelGetsOneBlock` (`OneBlock`), `NothingIsInjectedTwice` (`InjectedOnce`)
  and `WhatIsRecalledIsShown` (`RecallShown`): what is put into it, of all that
  is recalled but the echoes of the query.

`CutIsStored` looks only at requests that have been handled; `HistoryInv` adds
what makes it inductive: once the present history has been handled, what may be
stored of it is stored, and the host has no other body than the client's to send
before that. It is the order of two statements (intercept.go:56-58 before 84-85)
that the proof turns on: the body whose history is stored is the one that the
client wrote, not the one that was cut.

The others follow from `ConvInv`. Its heart is

    body = client \/ Rewrites(fmt, client, body)

the body that the host presents is the client's, or what the handler makes of
the client's with *one* window and *one* block, however often it was rewritten.
That is so because a rewritten body is a fixed point of the window (which goes
left to the same head again), and because an
injection into it takes out the block that stands there, wherever in the prompt,
before it puts the new one in: window and strip undo nothing else. So `Made`
describes every body the handler returns by the client's: a window of the
messages, `PutShape`, the one content that has the block, and `Outline`, what
the block does to the texts — each is said as before, or with the block behind
it, and without the block nothing is said that was not. What is stored is then
stored from the dialogue, which no block is in (`Sayings`); what is visible
without the block is what was visible when the lines were compared; and a line
is traced through the filter, the limit and the two dedupes to the staged line
or the recalled text it was made from, or to those that displaced it
(`FromStaged`, `FromRecall`, `AllFrom`).

The operators underneath are folds and selections over sequences of any length.
The lemmas about them do without induction over formulas: `SetInduction` is
induction for a set of numbers, proved from the least element of a set, and each
lemma defines the set of the lengths for which its claim holds.

`Lifecycle_proofs`, for any number of threads, configures, stores and prewarms:
`TypeCorrect`, `StoresAreApart` (`StoresApart`), `NoStoreIsLeft` (`NoStoreLeft`).
The invariant is

    Inv == TypeIntact /\ Made /\ Warming /\ Holding /\ Ended /\ Counted

`Ended` is the property itself, made strong enough: a Store other than that of
the service is closed, has nothing in its table or doomed, and its `closeWg` is
zero. `Holding` says that whoever is in a shutdown holds `serviceMu`, that the
Store it disposes is the service's, and what is left of it after each step.
`Counted` ties `closeWg` to the detached closes and the prewarms under way, which
makes a zero mean that there are none; `Warming`, that a prewarm works on a Store
that was made. A call that outlives its service can still open a file, but finds
the Store closed when it inserts, so it adds nothing to a table or to `closeWg`.

**Only model-checked:** the liveness properties (`ForScopeReturns`,
`DisposeReturns`, `ResentIsStored`, `DueIsServed`, `CallsReturn`,
`HandlesAreClosed`), since neither fairness nor ENABLED is in the prover's reach.
Each safety property of a passing run is proved.

**Assumptions.** Each is a named `ASSUME` that TLC evaluates. Those of `Streams`:
`None` is no buffer, no mark and no key; the exchanges are finitely many;
`MaxBufs` is positive; a response is a sequence of deltas. The hypotheses
`NoFaults`, `NoFailures`, `Remembers`, `Roomy` and `Uncrowded` are no assumptions
on constants but part of the theorems, and the runs `streams` and
`streams_faults` reach states that satisfy them.

Those of `Assembly` are about what clients send, for the code trusts them in
this:

* `BodiesAssumption`: prompts are bodies and turns are sequences of messages.
* `TurnsAssumption`: a turn is complete, that is, each result in it stands behind its
  call; a window can otherwise not be blamed for an orphan.
* `AtOnceAssumption`: chat completions and Claude want the results in the
  messages right behind the call, and reject the request otherwise; between the
  two there is then no message that the window could begin with (the loops at
  formats.go:964-973 and 1003-1008 go left from a result to its call over results
  only). Without it a window may begin between a call and its late result.
* `PromptsAssumption`: a system prompt is text and images, and no client writes
  the plugin's header line, by which `stripMemoryBlock` knows its own blocks
  (formats.go:768-770).
* `ReasoningAssumption`: hidden reasoning has a word that is said nowhere else;
  otherwise it could be stored as part of something said, rightly.

## 5. Not modelled

* Prewarm's throwaway key is never a scope key; `MkdirAll`, `Chmod` and `openEngine` failures are one
  action; the order in which a drain closes its handles is left open.
* `Streams` has one scope whose engine stays the same; what a drain does to the
  dedupe set, the bus and the cadence is in `Requests` and `Consolidate`.
* A reconfiguration that changes `data_dir` under an ingest: a text claimed in
  the new set may then go to the file of the old directory. `Requests` has one
  file.
* In `Streams`: interrupt gate staging, response-chain bookkeeping and the scope cache of
  chunks do not touch the buffers; gates appear in `Streams` only as consumers.
* Only the first 16 KiB of a text are stored (intercept.go:620, 805). `Assembly`
  has that; a text of `Streams` is no larger, so that "stored" is all of it; in
  `Requests` a text is a unit, and stored means as far as an ingest keeps it. The
  hash is of the full text in each.
* In formats that render tool calls into the assembled body, body and deltas
  differ in text; `Streams` models messages where they agree.
* `Assembly`: texts are sequences of words, so the comparison is by whole words;
  case folding and white space and the choice of a cut in the middle of a rune are
  left out. What the formats only spell in two ways is one body: a string for an
  input of one item, an item without a role or type, Gemini's two keys of the system
  prompt. Recalled items are text, as all that the plugin stores; `formatMemories`
  skips items of another modality (memory.go:118-121). Of `neutralize` the model has what it does to the plugin's own tags
  (`Neutral`), not the other tags, entities and control characters. Bodies without an array of messages, and images
  and audio as things to be stored, too. A turn of the client is complete: its
  calls have their results (`TurnsAssumption`).
* `Lifecycle`: one scope; evictions, a failing drain and settings that are restored
  are in `EngineStore`. The JSON of the ABI and the buffers it hands out.
* Parsing of stream chunks, of assembled bodies (`ExtractAssistantText`) and of
  response ids; the configuration's defaults; metrics and logging, which nothing
  reads back; the engines: the native one is a C library, and the stub, for
  tests, writes its rows as one snapshot, so that a handle that closes late
  writes over what another stored — which is why the modules are about who has
  the file open, and when; the benchmark drivers and the build.
* Identity fields are given as `ResolveScopeIDs` returns them: header, body and
  metadata are not told apart. (`streamIdentityHash` appends the two metadata
  values without saying which is which, so a session in one request and an agent
  of the same name in another, with one body, share a cache entry; the tenant is
  the same.)

## 6. Restored settings

`PublishedAfterClose`, `WaitersAreSignalled` and `LeaseSafe` (`ImplementsLease`) fail under `Spec`:
a request opens under settings A; a reconfiguration to B drains an engine of the
same scope, opened before under A, and one back to A follows. `Publishable`
compares settings, not versions (store.go:364), so the insert succeeds beside
the pending marker. A later retirement overwrites that marker
(store.go:383 and 636 make a new channel), the first `closeEngines` run to end closes and deletes the
channel it finds under the key, and the waiter that read the other channel
keeps `openMu` for ever — every later miss hangs. It takes two reconfigurations
within one open. `FreshSpec` states the condition under which the store is safe;
the properties are checked and proved there.

## 7. What the properties say and do not say

`Alone(e)` means that no other exchange ever used the key of `e`. It is in
`ClaimKeepsText`, `StoredOnce`, `AnsweredStored` and `ResentIsStored` because
for exchanges that share a key text may be dropped, as the comments accept
(intercept.go:362-370); besides, `takeStreamWhole` (779-791) does not look at the
poison, so a stream poisoned after one of its segments was dropped claims a whole
text with a gap. `StoredOnce` is for terminated streams: without a terminating
chunk and with nothing left to flush, `HandleResponse` returns before claiming
the whole, and the resubmit is stored beside the segments. With failing opens,
`ClaimKeepsText`, `StoredOnce` and `AnsweredStored` fail too: a delta whose
`ForScope` failed, or the residual of a terminating chunk (541, 593), leaves no
mark. When the only buffer slot is evicted in mid-stream, `AnsweredStored` fails
and the resubmit makes up for it. With expiry `StoredOnce` fails, as documented
(704-710). `RowsUnmixed` needs none of these conditions for two exchanges.

`StoredOnce` of `Requests` leaves out the texts in `loose`, and without that it
fails in two ways. `UnmarkSeen` (store.go:514) removes a mark whoever set it: an
ingest claims, an eviction replaces the set, a second ingest claims the text in
the new one, the first fails on its closed engine and removes that mark, a third
claims and stores beside the second. And the claim order keeps the entry of a
claim that was released (497-505): a text claimed again is in it twice, and
dropping the older entry forgets the younger claim. `BlocksInOnePlace` counts a
block that the cap cut as given up. A block that a failed request stages again
comes after blocks staged meanwhile, so the cap, which keeps the newest tail
(bus.go:53), may cut the newer ones; and a request that fails after `Clear` puts
its block on the bus of a store that is closed. `DueIsServed` leaves out a due
that joined a loop started on a retired engine (store.go:585): its follow-up run
is on that engine, and the live one waits for the next attempt, which
`CadenceBound` bounds.

`NoOrphanResult` is for chat completions, Claude and Gemini (which is not
windowed); for Responses it fails, section 8. `RecallShown` is for bodies as the
client wrote them. In a body that was rewritten before, a line that stands only
in the old block is taken for visible (intercept.go:132) and then goes with that
block, which the injection replaces: the model loses it until it is recalled by
another request (`RecallAlwaysShown`, observation e). It leaves out echoes of the
query, which are dropped from the recalled texts (intercept.go:836-860) whatever
the window shows: when the latest user text is cut by the window — behind it only
messages of tools and the assistant — the model gets the query neither way; and
a recalled text that contains the query and is up to a quarter longer is dropped
with what it says beyond the query. `CutIsStored` keeps of a text over the limit of
an ingest what the code keeps, its head; the rest of it the model gets neither
from the window nor from memory. A line that was cut to its maximal length
may repeat the head of a text that the window shows: what is compared is the
whole text (`CutTo` in `InjectedOnce`).

`StoresApart` is about engines that were in a table and about prewarms.
`FreshStoreAlone`, which is the comment's claim, takes in those opened in vain;
section 8, 3 is about them, and `HandlesAreClosed` says that they are closed in
the end.

## 8. Findings

1. **A lost segment is claimed as seen** (intercept.go:691, `streams_claim`). A
   segment fails in mid-stream, the residual succeeds, and the whole text is
   claimed: the resubmit that would restore the segment is deduped.
2. **An output is sent without its call** (formats.go:1047, `assembly_window`).
   `windowOpenAIResponse` goes left while the head of the window is an output.
   Of two calls followed by their two outputs the window may begin at the second
   call, which is no output: the first output stays, its call is cut.
3. **A fresh store opens a file that the old one is closing** (store.go:361,
   `lifecycle_fresh`). A call is opening an engine when the shutdown disposes the
   store; the handle is closed by a goroutine that nothing counts. `Shutdown`
   returns, a register makes a new store, and a call opens the scope while that
   close is under way.

**Observations.** Further disagreements, each with a configuration that shows it
(TLC stops with a counterexample):

| | Configuration | What it shows |
|---|---|---|
| a | `tlc -config EngineStoreReopen.cfg MCEngineStore` | A file is opened while its previous engine is closing (store.go:328). `waitPendingClose` finds no marker; a drain retires the engine; the second lookup, at 330, misses. The insert then fails in most cases, for the settings changed, yet two engines had the file open. The comment at 281-283 argues that checking before the miss is sufficient. |
| b | `tlc -config StreamsSkip.cfg MCStreams` | The recovery path is skipped (intercept.go:233): a segment fails, `HandleResponse` flushes the residual, `streamed` becomes true in spite of the failed mark, and the body is not ingested (comment at 696-701). |
| c | `tlc -config StreamsMixed.cfg MCStreams` | Two streams in one stored text (intercept.go:557): the end of one stream clears the buffer that a second poisoned after the check at 506; a third gets a fresh one, in which the deltas of the second and third meet (comment at 367-369). Three exchanges are needed: two cannot mix, checked in `streams_faults` under every fault. |
| d | `tlc -config ScopeIdentityCache.cfg MCScopeIdentity` | A stream goes to the scope of old settings (intercept.go:325): the cache of stream scopes is never cleared and has no configuration in its key. A handler that resolved its scope before a change of `memory_scope` also remembers the response id after it, and the chain goes on in the old scope (store.go:109-111). |
| e | `tlc -config AssemblyRetry.cfg MCAssembly` | A rewritten body that is sent again loses the lines of its old block (intercept.go:132, 286-289), section 7. |

Read off the code while modelling, and not shown by a run: with settings changed
but `data_dir` the same, the discard at store.go:371 has the close in flight of
finding 3 beside the engine that replaces it. Input items of the Responses format
with role system or developer are not pinned by the window, though the comment of
`WindowMessages` says that system messages are kept. All choices of a chat stream
with `n > 1` share one buffer. "Intercepts already pass through on serviceDown"
(main.go:139) does not hold during a shutdown: `serviceDown` is set after the
engines are closed, and until then an interceptor waits for `serviceMu`.

## 9. Plan

Done, all with proofs: `ScopeLease`, `Recency` and `EngineStore`; `SeenSet`, `Streams`
and `Requests`; `Consolidate`; `ScopeIdentity`; `Lifecycle`; `Transcript` and
`Assembly`.

1. **Algorithms**: the end-of-stream rule and the stream-chunk parsers.
2. An abstract specification of what a scope's memory promises of a text
   (stored once between two drains), implemented by `Requests`.
3. The stub engine's snapshot, to show the rows that are lost when two handles
   overlap (finding 3).
