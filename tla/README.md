# Verification of NekoQ-Bootstrap

NekoQ-Bootstrap is a small bootstrap server: a registry of services that
clients register at over HTTP, replicated between the nodes of a cluster, a DNS
server, and a durable key-value store with a write-ahead log. This directory
holds TLA+ models of the stateful parts, the TLC configurations that check
them on small instances, and theorems that the TLAPS proof system checks for
every instance.

## The system

| Part | State | Operations | Hard because |
|---|---|---|---|
| Registry store, `storage.mem.go` | `services` (what queries see), `currentServices` (registered here), `dataFrom` (mirror of each peer), `dataTo` (changes pending for each watching peer) | publish, delete, and six operations for replication, all under one lock | the merged view is rebuilt from several maps; pending lists grow, are filtered against each other and are handed out once |
| Peer replication, `core.ha.go`, `core.ha.peertalk.go` | per peer a worker with two counters, a queue to a single processor, `ClientPeerMapping` with timestamps | auth, full and incremental requests; periodic full fetch; health check | three kinds of goroutines on two nodes, lost answers to a request that changes the server, timeouts, restarts with an empty store |
| Service endpoint, `endpoint.http.go` | `publicClients` with timestamps | publish handler, query handler, sweep of timed-out clients | the store is changed outside the endpoint's lock |
| Write-ahead log, `internal/wal` | files of pages, position, page count | write, rotate, initialize, replay | crash between any two writes, records of several pages |
| Durable store, `internal/service/solestorage.go`, `internal/storage` | key-value files, stored position | initialize, put, get | log, value and position are three writes, without a common lock |
| DNS service, `internal/dnscore` | cache of answers with their time to live | queries over UDP and HTTP: cache, local rules, enclosure domains, upstream | queries run concurrently and the cache's lock covers one lookup or store: what a query read may be out of date when it is stored |
| Dynamic DNS rules, `internal/dnsdyn` | one table, replaced as a whole | change of the rules, lookup | replaced while queries are under way; names in several spellings; a malformed rule panics |
| Primary/standby replication, `internal/replication`, `internal/service/spskv.go` | roles, ready standbys | sync, ship, promote | unfinished in this commit |
| RESP service, HTTP plumbing, client library, command | none of their own | dispatch | |

`main` gives one store to the endpoint, to replication and to the DNS service.
The endpoint calls the store; replication calls the store of its own node and,
over HTTP, the replication handlers of its peers; the RESP service calls the
durable store from one goroutine per connection, and the durable store calls
the log. The DNS service asks the store for its static rules and the store asks
the dynamic ones, which the client of a configuration server replaces from a
goroutine of its own.

What makes each part correct: the registry shows what is registered and nothing
else; a mirror follows its peer without skipping or repeating a change, and
recovers from whatever got lost; data stays within the cluster; a client that
is gone disappears and one that is alive does not; what a Put acknowledged
survives a crash, and a store that crashed starts again; a DNS answer is for the
name and type asked, no older than its answer records allow, and from the rules where they
have one.

## Modules

| Module | Models |
|---|---|
| `ServiceMap` | the data of the registry and the pure functions on it, flat: an item is a (service, node id) pair |
| `RegistryStore` | abstract specification of the store of one node on flat maps |
| `MemStore` | the store as coded, with nested maps and lists; implements `RegistryStore` |
| `MemStoreProofs` | theorems about `MemStore`: the refinement, and what its loops compute |
| `PeerSync` | replication between nodes, on the operators of `ServiceMap` |
| `PeerSyncProofs` | theorems about `PeerSync`: the data that is replicated |
| `PeerSyncClusterProofs` | theorems about `PeerSync`: the queue, the merged view, the credentials |
| `HttpEndpoint` | publish handlers and the sweep of timed-out clients |
| `HttpEndpointProofs` | theorems about `HttpEndpoint` |
| `Registry` | the composition of `HttpEndpoint` and `PeerSync` on one store |
| `RegistryProofs` | theorems about `Registry`: it implements `PeerSync` |
| `DiskWal` | the log: its files and the steps on them |
| `KVStorageAdv` | the durable store on top of `DiskWal` |
| `KVStorageAdvProofs` | theorems about `DiskWal` and `KVStorageAdv` |
| `DnsService` | DNS queries, the cache, static and dynamic rules |
| `DnsServiceProofs` | theorems about `DnsService` |
| `MC...` | constants for TLC |

### PeerSync

The variables have the names of the fields in the code, as functions of the
node. `wpc`, `call` and `body` say where the worker of a node for a peer is,
how far its HTTP request has got, and what the request returned; `stray` are
requests that the server still works on although nobody waits for them.
`snapshot` is a history variable: what the peer had when it last answered the
worker, `Absent` once changes for the worker got lost.

A handler is two steps, because it holds no lock between `updateClientTime`
(with the check of the credentials) and the store: `HttpClusterFullCheck` and
`HttpClusterFull`, `HttpClusterIncrementalCheck` and `HttpClusterIncremental`.
The worker's steps are its returns from calls: `StartSyncing` (Abandon, then
auth), `OnAuth`, `OnFull`, `OnIncremental`, `Poll`, and `ProcessSyncWorker`
stores what it got and answers it. The retry limit (10) and the number of polls
between full fetches (590 plus a random number below 20) are constants.
Timestamps are abstracted to fresh and stale: `Age` makes a client stale at any
moment, which covers every real timing. Environment steps: `Disconnect`,
`TransportRetry` (Go's transport repeats a GET on a reused connection), the
`Stray...` steps, and `CrashRestart`. Messages keep no order between requests.

Two conversions are left out because they lose nothing here: the JSON encoding
of maps and lists (an empty list becomes `null` and back), and the resolution
of the peer's address. Two paths of `ProcessSyncWorker` are left out because no
answer of a node that runs this code leads there: a request with neither a full
data set nor changes, which the loop would take and answer to nobody, and data
that `FullFrom` or `SyncFrom` cannot decode, which is answered with an error. The
handlers always send maps with the default key, and a body that is cut off fails
in `json.Unmarshal` before anything is queued.

### HttpEndpoint

One `Req` is a goroutine of `publishService`: `Receive` up to the password
check, `PublishService` on the store, `Track` under the lock. The sweep is
`SweepStart`, `SweepNext`, `SweepDelete`, `SweepForget`, and holds the lock from
its first to its last step. `registered` is the part of the store that the
endpoint writes.

### Registry

`Registry` extends `PeerSync` and instantiates `HttpEndpoint` at one node, `Home`,
with the refinement mapping `registered <- currentServices[Home]`: what a
handler stores and the sweep deletes (`StoreService`, `ExpireService`) is a
`PublishService` or `DeleteService` of the replicated store and a step of the
endpoint at once. `Crash` of `Home` takes the endpoint's list of clients along.

### MemStore and RegistryStore

One step per operation, since each holds the lock of the store. `out` is the
answer. The refinement mapping flattens nested maps, and lists to the last
entry for each item. `buildMemData` ranges over a Go map, so its order is
arbitrary; `IsBuiltFrom` states which results are possible. `Mirrored` are the
node ids that full data sets of peers may hold; it bounds the instance.

### DiskWal and KVStorageAdv

A page is the entry it belongs to and its type; `files` is on disk. `Put` is
the steps `Put` (takes the lock of the log), `GuaranteePage` and `WriteDataPage`
for each page, `KvPut` and `WriteVersion`; `WriteEntryFails`, `KvPutFails` (an error,
or a key of a wrong format) and `WriteVersionFails` are the errors of the three
writes, and leave what was written before them.
`Initialize` is `WalInitialize`, `ReplayIncomplete` (choice of the first file),
`ReplayPage` for each page, `ReplayFileEnd`, `InitialVersion`. `CrashRestart`
may come anywhere, also during the replay. An entry has an identity and is
written at most once, which bounds the model without a bound on crashes. Five
statuses are ends of a failed start: `panicked`, `refused` (an error of
`ReplayIncomplete` itself), `undecodable` (a page that `recoverFn` cannot decode, or
whose key it cannot store), `failed` (a write of the replay or of the position
returned an error) and `unreadable` (a version that cannot be decoded).

`diskv` is given no directory for temporary files and so writes over the old
value. A process killed while a value or the version is being written may leave it
torn (`Tear`, part of `CrashRestart`). A write that returns an error (`StoreFails`,
`StoreVersionFails`) may have changed nothing, have removed the file, or have
written it: an acknowledged value, or the position, can so be gone. `failed` is a
history variable of the Puts that ended this way, and `before` says for each Put
which others had ended, acknowledged or failed, when it began.

The position is stored under `VersionKey`, which has the format of any other key.
A Put of it, and its replay, write `PositionIn` of the entry, what its value
decodes to, over the position. Such a Put can make the next start refuse the
position, or replay too little, if it is cut short before its own position is
stored. So `ReplayNeverRefused`, `AckedNeverReverts` and `AckedNotTorn` are stated
for histories without one (`VersionKeyUntouched`); the other invariants hold with
it.

Assumed: the process dies, the machine does not (pages written are not lost and
not torn); opening a log file succeeds; a fragment of a record never decodes as an
entry by chance. The read cache of `diskv`, from which Get may answer with an old
value until the next start, is left out: `kv` is what the files hold. The term is always 1 in this code and is left out.

### DnsService

One `Req` is a query, over UDP or HTTP, in `ProcessDnsMsg`: `Receive`, `CacheGet`,
`Resolve` (or `ResolveAAAA` and, as a lookup of its own, `ResolveA`), `Exchange`
with the upstream server, `CachePut`, `WriteMsg`. There is a step wherever
another goroutine can come in between. A panic (`ExchangeFails`, an SRV rule that
is no JSON) ends the query without a reply. `OnChange` replaces `container`, the
table of the dynamic rules, in one step, as the atomic value does; a malformed
PTR rule panics before that and leaves it alone.

Rules and questions write names in several spellings; `Canonical` is what the
code's `dns.Fqdn(strings.ToLower(..))` makes of them, and `PtrFqdn` the reverse
name of an address. `Loads` are all the tables that a set of rules may become,
because two spellings of one name are merged in the random order of a Go map.
A reply keeps what properties need: its code, the question it was made for, its
value, the times to live of its answer records (`ttls`) and those of its authority
and additional records (`others`), which only upstream replies have. The cache
serves all of them and lets only the answer records decide how long
(`CacheTTL`). A question has a class, which neither the handlers nor the key of the
cache look at: replies are promised to match in name and type, not in class.

`Tick` is a second: it ages the entries of the cache, which stand for the time
stored with them. `held` is a history variable: the record types that were
configured for the name of a query all the time since it began.

Left out: the encoding of messages, HTTP headers and the requests refused with a
status, tracing.

## Runs

| Run | Instance | Result |
|---|---|---|
| `peersync_pair` | one node mirrors another; 1 item, 2 addresses, retry limit 1, full fetch after 1 or 2 polls, 2 kinds of stray requests | `TypeOK`, `PendingAgrees`, `MirrorChain`, `SyncNeverOrphaned`, `QueueMatchesWaiting`, `NoPhantomService`, `Convergence` hold |
| `peersync_latest` | two nodes mirror each other and register the same item | `LatestRegistrationStays` is violated |
| `registry_cluster` | a node with its endpoint, a peer that mirrors it, and one with another secret; 1 client, 1 service | `OnlySameCluster`, `SilentClientForgotten` hold |
| `endpoint_safety` | 2 clients, 2 services, 2 handlers | `NoImmortalService`, `OnlyTimedOutRemoved`, `SilentClientExpires` hold |
| `endpoint_race` | 2 clients, 1 service, 2 handlers | `LiveServiceStored` is violated |
| `memstore_refines` | 1 service, 2 node ids, 2 addresses, 2 mirrors, lists of 2 | `MemStore` implements `RegistryStore`; `TypeOK`, `PendingDisjoint` hold |
| `kvstore_safety` | 2 concurrent Puts, 4 entries (two for one key, one of 3 pages with a malformed key, one for `VersionKey`), 2 pages per file; 1.9 million states | seven invariants hold |
| `kvstore_recovery` | 1 Put at a time, short entries | `LoggedIsRecovered` is violated |
| `kvstore_empty_file` | the same | `EmptyFileIsClean` is violated |
| `kvstore_torn_record` | 1 Put at a time, an entry of 3 pages | `InvalidRecordIgnored` is violated |
| `dns_cache` | 2 concurrent queries for one name in two spellings and classes, 4 sets of rules, an upstream server, an enclosure rule | `TypeOK`, `NeverServedExpired`, `AnswerMatchesQuestion`, `ConfiguredIsAnswered`, `EventuallyCurrent` hold |
| `dns_leak` | an enclosure domain with a capital letter | `EnclosureNotLeaked` is violated |

Why the bounds are enough. The items of the registry do not influence each
other except through the order in which mirrors are merged, which
`memstore_refines` covers with two mirrors that disagree, and the proofs for any
number of them. A node has one peer in `peersync_pair`, so its queue never holds
two requests and its view is merged from one mirror: that answers reach the right
one of several workers, and that a view merged from several mirrors shows nothing
else, is shown by the theorems `QueueHolds` and `PhantomHolds` and, for the merging,
by `memstore_refines`. A retry limit of 1 and two polls reach each branch of the
worker; the set `stray` stands for any number of requests of a kind, so its
bound limits kinds only. `registry_cluster` has no stray requests and no retry:
`peersync_pair` has them, and they are no concern of the endpoint. It has one
client (two exceed the time of a run), so nobody else registers while that client
is silent; that other clients keep nobody in the store is what `endpoint_safety`
checks, with two. Two pages per file make a record of three pages cross files, and
two entries for one key are what it takes for a replay to bring back an
overwritten value. The record of three pages of `kvstore_safety` has the key of a
wrong format and is never acknowledged: the theorems cover longer entries that are.
`DefaultResponseTTL` is 3600 in the code and 1 in `dns_cache`: an entry is then
fresh, in its last second, or expired, and the records of an upstream answer
have two different times to live, with an additional record of a shorter one. One
of the rule sets has an AAAA record alone, so that rules that swap A for AAAA
between the two lookups of a query are among the behaviours. The queries there ask for different types
(`Asked`), so that every handler, a type without one, and the same question at the
same time are met.

Fairness. `PeerSync`: weak fairness of every worker, handler, `ProcessSyncWorker`
and `CheckPeerHealth`; they are loops and goroutines that nothing blocks
for ever. `Convergence` is conditional on registrations and faults ceasing.
`HttpEndpoint`: weak fairness of the store step and the sweep, of time passing,
and strong fairness of `Track`, which waits for a lock that the sweep takes
again and again (Go's mutex hands itself to a starving waiter). `Registry` takes
both; `SilentClientForgotten` is conditional on crashes and network faults
ceasing and on the one client registering no more; other clients may go on.
`DnsService`: weak fairness of every query, since `dns.Exchange` has a timeout and
nothing else waits, and of `Tick`; none of `OnChange` or of `CleanupJob`, which
`EventuallyCurrent` does not need. The runs of `KVStorageAdv` check safety only.

### What the violated properties show

- `LatestRegistrationStays`: the README says that of two registrations of a
  node "only the latest registration will be effect". A mirror is copied over
  the node's own data at every rebuild, so the older registration of a peer
  replaces the newer local one at the next poll.
- `LiveServiceStored`: a sweep between the two halves of `publishService`
  deletes a registration that was just renewed.
- `LoggedIsRecovered`: the position stored for an empty log is that of the
  first page, so the first entry is never replayed if the process dies before
  the value is stored.
- `EmptyFileIsClean`: a crash between the creation of a log file and its first
  page makes every later start panic.
- `InvalidRecordIgnored`: records that are marked as broken are replayed all
  the same, page by page, and the store does not start.
- `EnclosureNotLeaked`: the README says that enclosure domains "will not be
  leaked to upstream". The rules are kept as written and compared with names in
  lower case, so a rule with a capital letter encloses nothing.

## Proofs

Every invariant and every action property that a passing run checks, and both
refinements, are theorems too: the run shows them on its instance, the theorem
for every value of the constants that the named assumptions allow. TLC evaluates
those assumptions on the runs of the modules that declare them. The inductive invariants of `DnsService` and
`KVStorageAdv` were checked by TLC on the instances of `dns_cache` and
`kvstore_safety` before they were proved.

`PeerSyncProofs` proves `TypeOK`, `PendingAgrees`, `MirrorChain` and
`SyncNeverOrphaned` for every cluster, set of items and limits, from
`ConfigAssumption` and `SentinelAssumption`. The inductive invariant is `TypeOK`,
`QueueLink` (a peer is in the queue of a node at most once, and only while its
worker waits there) and, for every pair, `Link`. `MirrorChain` is not inductive:
it needs that a worker that has an answer has one of the right kind, that a
queued answer is still there, and what is pending agrees with both the snapshot
and the present data. Lemmas about `ApplyChanges`, `PendPublish` and `PendDelete`
carry the data part; each action is one step of the induction.

`PeerSyncClusterProofs` builds on that invariant and proves the other three
invariants of `PeerSync`, with any number of peers. `NoPhantomService` is inductive
together with the types: every step that drops or changes a mirror rebuilds the
view, and what `IsBuiltFrom` allows comes from the node or a mirror. For
`OnlySameCluster` the invariant is `Trusted`: an answer, a request past its check,
a stray one past its check, and a worker that waits to store an answer, all
belong to pairs with the same credentials. For `QueueMatchesWaiting`, `AllQueued`
adds to `QueueLink` that a waiting worker is in the queue; the bound on the length
is the cardinality of a finite set of peers.

`HttpEndpointProofs` proves `NoImmortalService` and `OnlyTimedOutRemoved` for any
clients, services and handlers, from `EndpointAssumption`. The invariant adds
that the clients on the list of the sweep, and its victim, are noted and stale
as long as the sweep holds the lock, and that the services still to be deleted
are among the ones noted.

`RegistryProofs` proves that the composition implements `PeerSync`: whatever the
handlers and the sweep write to the store of `Home`, the one node that registers
services (`RegistryAssumption`), is a step of `Registrations`, and their other steps
leave the replication alone. The invariant
`EndpointLink` says what that takes: a handler that is about to write has a
well-formed request, and the sweep removes known clients only. The theorems about
`PeerSync` then hold of the whole system; `OnlySameCluster`, which
`registry_cluster` checks, and `MirrorChain` are stated for it.

`MemStoreProofs` proves that `MemStore` implements `RegistryStore`, with `TypeOK` and
`PendingDisjoint`, for any services, node ids, addresses and mirrors, from
`SentinelAssumption`, `StoreAssumption` (the bounds are numbers) and
`AbsentAssumption` (the value that stands for "no entry" is not an entry). So the
flat maps on which `PeerSync` rests are what `storage.mem.go` implements. The
loops of the code are folds over lists and sets; the library's induction theorems
cannot be instantiated by the provers installed, but their premise, that a
nonempty set of numbers has a least element, can be cited: `SetInduction` and
`PrefixInduction` derive induction for sets from it, and `FoldRun` from that the
values a fold goes through. `RebuildProperty`, `RemoveAllProperty`,
`PutAllProperty`, `MergedProperty` and `CopyAllProperty` say what the loops compute:
filtering a pending list, removing and putting the entries of a list, merging two
maps, copying the mirrors over the node's own services. The last gives, for any
order of the mirrors, the condition `IsBuiltFrom` of the abstract specification.
The induction is one lemma per operation, for the invariant and the abstract step
together.

`KVStorageAdvProofs` proves the seven invariants of `kvstore_safety` for any number
of connections, entries of any number of pages and files of any size, from
`WalAssumption` and `StoreAssumption`. The log comes first: no file but the last is
empty, the position in memory is its end, records are contiguous, and every Put
knows how many of its pages are the last of the log (`LogLink`, `PutLink`,
`PutsDiffer`). `AckedNeverReverts` and `AckedNotTorn` hold only when the store
serves, so the invariant has to say what makes them true again after a crash and
half-way through a replay: a value that is out of date or torn is *restorable*
(`Restorable`), that is, the stored position is older than the log and the part of
the log not replayed yet has a page of the key that is no older than the Put in
question. It holds because what was acknowledged before a Put began is in the log
before its pages (`HistoryLink`) and the position is stored after the value
(`VersionLink`, `PendingLink`). A failed write makes a value disappear without a
crash, so the links are about the Puts that ended either way (`Done`), and allow a
missing value where some Put of the key failed since (`FailedSince`). The links that
speak of the stored position are conditional on `VersionKeyUntouched`; the log, its
types and its bounds do not depend on it.

`DnsServiceProofs` proves the four invariants of `dns_cache` for any queries, names,
rules and upstream answers, from `DnsAssumption`. None is inductive: what may be
said of a reply depends on what its query has been through. `QueryLink` says for
every place of a query what it holds and what the lookups it made rule out (one
that goes on from AAAA to A found no AAAA, one that goes upstream found nothing);
`CacheLink` that an entry answers the question it is stored for and lives no longer
than any of its answer records; `RulesLink` that the two tables come from rule sets;
`HeldLink` that the history variable is true. `ConfiguredNeverLost` is about each
type for itself: when the rules swap the A record of a name for an AAAA record
between the two lookups of a query, the query sees neither and is forwarded. The
code asks for both to be configured together (`handlers.aaaa.go:39`).

Model-checked only: the liveness properties `Convergence`, `SilentClientExpires`,
`SilentClientForgotten` and `EventuallyCurrent`, since liveness under fairness is
outside the prover's reach; and the six violated properties, which are shown by
their counterexamples.

## Not modelled, and the plan

Next, in this order:

1. `NoImmortalService` for `Registry`, where a crash takes the endpoint along. It
   needs the lemmas of `HttpEndpointProofs` again for the store of `Home`, because
   the prover cannot cite the theorems of an instance.
2. An abstract specification of a durable map, and `KVStorageAdv` against it on
   the traces without the failures above.

Left out:

- primary/standby replication: `Initialize` panics in this commit (maps that are
  never made, a type assertion that fails, log functions that panic with
  "implement me"), so there is no behaviour to model;
- the RESP and HTTP services of the durable store and the client library: only
  tests start them, and they keep no state; their connections are the Putters
  of `KVStorageAdv`. The HTTP service answers a failed PUT with 200, which is
  listed as a hazard;
- background `Sync` of the log and loss of power, and files that cannot be opened;
- reading the configuration file, signals and logging.
