# Strela: TLA+ models, checks and proofs

Strela is a mail delivery gateway. A caller posts a message over HTTP; the
gateway signs it, finds the recipient's servers, and delivers it over SMTP or
LMTP while the caller waits. The answer says what became of the message. There
is no queue and nothing about a message is persisted: everything that can go
wrong happens inside one request, in concurrency with other requests that share
the connection pool, the MX cache, the reputation of the source IPs and the rate
limiters.

This directory models that code (`internal/`, `cmd/`), model-checks it with TLC
on small instances and proves every safety property of the passing runs with TLAPS for
all instances. `PROJECT.json` maps every definition to the lines it stands for and
lists the runs, the mutants that show each property can fail, the hazards the
properties are for, the theorems, and the disagreements found between the code
and what its comments and documents say.

## Inventory

| Part | State | Operations | What is hard | What makes it correct |
|---|---|---|---|---|
| Delivery engine (`delivery/delivery.go`) | per call: loops over MX hosts, IP versions, source IPs; one connection; the request context and a close hook on it | `DeliverMessage`, `tryDeliveryWithIPVersion`, `attemptDelivery`, `performDeliveryTransaction`, `performLMTPTransaction`, `mapSMTPError` | a lost reply after the final dot; four nested retry levels; the hook racing the hand-back of the connection | never two copies that may both be accepted; the status is true; no connection is left open, but by a failed QUIT; the call returns |
| Connection setup (`dialAndHello`) | two connections, their deadlines, an atomic flag, a result channel | dial, handshake goroutine, plaintext redial, select on the context, deferred close | goroutine and function both close; late results; deferred calls | the returned connection is open, a failed one closed; both sides end |
| Connection pool (`delivery/pool.go`) | idle connections per MX host and source IP, with timestamps | `Get`, `Put`, `cleanupExpired`, `CloseAll` | NOOP outside the lock; cleanup; shutdown | one owner per connection; only open ones in the pool; no leak; the limit holds; stopping does not deadlock |
| IP reputation (`delivery/ip_reputation.go`) | degraded entries, strike lists, a gauge | `RecordDeliveryAttempt`, `MarkIPDegraded`, `MarkIPRecovered`, `Cleanup` | several critical sections per report | weak signals degrade only in the number the threshold asks for; a success restores the IP |
| MX lookup (`delivery/mx_lookup.go`) | cache with negative entries, singleflight group | `Lookup`, `InvalidateCache`, `CleanupExpiredCache` | shared queries outliving callers; expiry; panics | one query at a time; transient failures never become bounces; nobody waits for ever |
| Cluster (`cluster/cluster.go`) | membership view (memberlist), the leader's name | `NewCluster`, `updateLeader`, `IsLeader`, `Shutdown` | views differ between nodes; missed events | once the views agree, so do the leaders |
| Certificate storage (`tls/storage/*.go`) | S3 object, local file, breaker, `needsSync`, a lock held across S3 calls | `Get`, `Put`, `syncToS3`, `SyncAllToS3`, the sync worker | S3 outages, restarts, a flag set before the file exists, three writers of one object | what was stored reaches S3; nobody waits for ever |
| Domain rate limiter (`waitForDomainRateLimit`) | token bucket per domain in a `sync.Map` | take a token, cleanup | a limiter evicted between its load and its use | what eviction may add to the rate is bounded |
| Inbound admission (`handler/rate_limiter.go`, `concurrency_middleware.go`) | a counter per client and window, slots per route | `Allow`, acquire and release, cleanup | bursts at the window's edge, eviction, panics | the limit holds; slots come back |
| Server (`cmd/strela-server/main.go`, `handler/handler_new.go`) | requests in flight, four timeouts, the shutdown's stage | admission, delivery, answer; drain and stop | timeouts that must add up, requests that outlive the drain | only a slow body can cost an answer |
| Configuration (`config/reload.go`) | current configuration, callbacks | `Reload` on SIGHUP | edits and signals during a reload; readers in the middle | the reloaded components agree; a signal is not lost |
| DKIM key store (`dkim/keystore.go`) | cache of keys with expiry, selector map with its mtime | `Lookup`, `storeCacheEntry`, `maybeReloadSelectorMap` | two locks, files read outside both, a full cache | a stale key is served for a bounded time; no edit is missed; a burst of unknown domains costs at most one live key |
| Signing parameters and ARC (`handler_new.go`, `delivery.go`, `arc/arc.go`) | none | choice of key, selector and domain; instance and chain status | three sources that fall back on each other | a key of the store or of the request's DKIM goes only with its own selector and domain; the chain stays unbroken |
| SRS (`srs/srs.go`) | a counter | `Forward`, `Reverse`, `ShouldSkip` | wrap-around of the day counter, addresses rewritten several times | bounces find their way back while the address is valid |
| Error classifier (`delivery/error_classifier.go`) | none | classification, retry and deactivation verdicts | the order of keyword scans and code classes | one refusal blames the address or the IP, never both |
| DNS resolver, IP rotator | a wrapping counter each | rotation, selection, dialling | unreachable servers, degraded IPs, the wrap | every server and IP gets its turn |


The handler (`handler/handler_new.go`) calls `DeliverMessage` under a context
with a deadline that it always cancels when done. The delivery engine calls MX
lookup, the rotator and the reputation tracker, takes connections from the pool
or dials them, and reports each attempt to the tracker. Background goroutines
sweep the pool, the caches and the limiters; `main` stops them in order after
draining the server.

## Modules

| Module | Models | Runs |
|---|---|---|
| `DeliverySpec` | the promise of one delivery: copies are sent one after another's refusal, the status is true of them | refined by `Delivery` |
| `Delivery`, `MCDelivery` | one call of `DeliverMessage` | `delivery`, `delivery_other2xx` |
| `SRS` | rewriting and reversing of envelope senders (pure) | in `Forwarding` |
| `Forwarding` | `Delivery` with the envelope sender of `SRS` | `delivery` |
| `Handshake`, `MCHandshake` | `dialAndHello` after the TCP dial | `handshake`, `handshake_leak` |
| `ConnectionPool`, `MCConnectionPool` | the pool with the requests, hooks and shutdown that use it | `pool` |
| `IPReputation`, `MCIPReputation` | the tracker, for one source IP | `reputation` |
| `ErrorClassifier` | the verdict on a reply, the status and the report made of it (pure) | in `IPReputation` |
| `Rotation` | order of source IPs and DNS servers (pure) | in `IPReputation` |
| `MXLookup`, `MCMXLookup` | `Lookup`, for one domain | `mx` |
| `Cluster` | membership and leader election | in `CertCache` |
| `CertCache`, `MCCertCache` | certificate storage on all nodes, composed with `Cluster` and S3 | `certs`, `certs_sync` |
| `RateLimits`, `MCRateLimits` | the inbound limit of one client and the limit of one domain | `limits` |
| `Server`, `MCServer` | requests, slots and deadlines, hot reload, shutdown | `server` |
| `KeyStore`, `MCKeyStore` | selector map and key cache under concurrent lookups and edits | `keystore` |
| `Signing` | signing parameters and the ARC set (pure) | in `KeyStore` |
| `Delivery_proofs` | theorems about `Delivery` and, through `Forwarding`, `SRS` | |
| `ConnectionPool_proofs`, `Handshake_proofs`, `MXLookup_proofs`, `Server_proofs`, `RateLimits_proofs` | theorems about the component they are named after | |
| `IPReputation_proofs` | theorems about `IPReputation` with `ErrorClassifier` and `Rotation` | |
| `KeyStore_proofs` | theorems about `KeyStore` with `Signing` | |

The pure modules are composed with the component they serve (`Forwarding`,
`IPReputation`, `KeyStore`). Each collects, over all its bounded inputs, the
cases that go wrong (`Astray`, `Misjudged`, `Unfair`, `Misfits`), and the
component's property says that no state meets one of them.

Each `MC` module instantiates its component for TLC and defines only constants
and symmetry sets. A mutant is written just before the definition it replaces.

### Delivery

`pc` is the place in the code: `start` to `dest` the way into `DeliverMessage`,
`mx`, `pass` and `source` the three loops, `attempt` and `dial`
`attemptDelivery` and `dialAndHello`, `txn` to `quit` the transaction,
`result` what the callers do with its status. Actions are the code's steps
between two points where something else can happen: a network operation, the end
of the context, the hook's goroutine. Replies are classes of codes, statuses are
the code's strings (`"empty"` is the zero value). `txs` records every complete
copy handed to a server and what the server decided, which may happen after the
gateway stopped listening. The properties relate `txs` to the status. A QUIT
that fails leaves the connection open (`conn = "left"`): go-smtp's `Quit` returns
before it closes, and the hook has been stopped by then.

A success code that is not the expected one is in the input sets of some runs
only. With it the first three properties are false: as the final reply to an SMTP
message it makes the gateway send a second copy (run `delivery_other2xx`), as the
reply to an LMTP command it makes it report a delivery that did not happen. The
theorems assume `StandardReplies`, which excludes exactly these two cases.

### ConnectionPool

Requests take one or several attempts, each on a key; a request that fails on a
pooled connection may go on with a fresh one. The slice of a key is kept as a
set with ages, because `Put` reads the clock under the lock. A connection object
is used again after it is gone, which lets TLC explore unbounded histories.
`stop` tells an orderly shutdown (`drained`) from one that overtakes requests
(`timedOut`). `CloseAll` is three steps: it joins the cleanup goroutine, takes the
lock, closes and unlocks. `mu` says that it holds the lock; the critical sections
of requests and of the cleanup are single steps that need it free. `cleaner`
follows the goroutine from its select into `cleanupExpired` and out. `left` holds
the connections a failed QUIT left open, until the finalizer of the network
library closes them (`Collect`).

### Handshake

The goroutine and the function are separate processes; every call that closes a
connection, sets a deadline or the flag is a step, the first command after a
successful setup included.

### IPReputation

One action per critical section. Times are ages that stop at the first value
beyond every limit. The reports are the verdicts `ErrorClassifier` gives on
replies, and the tracked IP is the first peer of `Rotation`. `calm` is a history
variable for `SuccessRestores`: the last report was a success and overlapped no
other. `signals` is one for `WeakSignalsCorroborated`: the weak signals counted
since weak signals last degraded the IP or it was restored by such a success.

### MXLookup

The caller and its goroutine are separate; the goroutine runs on after the
caller has left. `sync.Map` operations are atomic, look-then-delete sequences are
two steps. A panic may end the leader's goroutine during the query, with the key
still in the group; `KeyHasLeader` and `GoroutinesEnd` name that exception.

### Cluster and CertCache

Nodes are numbers in the order of their names. memberlist is external: each
node's view may become any set that contains the node. `CertCache` extends
`Cluster` and adds, per node, the local file, the breaker, the flag and the
processes that work on them: a Put in progress, the sync worker, the background
writes; S3 is shared and may be unreachable between any two calls. A restart
keeps the file and nothing else. There is one certificate name, its contents
numbered in the order of issue. `MaxEvents` bounds Puts, outages, restarts and
changes of a view together. The breaker's clock is the state `retry` after
`open`; a background write sleeps at least until then.

### RateLimits

One client and one domain, because keys share nothing; requests of other clients
to the domain come as they like. `Allow` and its cleanup hold one lock and are
single steps. The domain limiters are objects: a request loads one and locks it
later, the cleanup looks at one and deletes the key later, so two requests may
work on different limiters of the same domain. Tokens are counted in units of
what a tick refills. A tick does not fall between the two halves of a request or
of the cleanup: it stands for seconds, they are microseconds apart.

### Server

A request has a route, an age, and the time left of its read timeout or of its
context; the drain has its own clock. A deadline is acted on before time moves
on. A configuration is a generation of the file, good, unloadable, or with
another listen address. `mx` holds the settings of `MXLookup` one by one, since
its `ReloadConfig` takes no lock. What the handler and the drain use is the
configuration of the start, as in the code. The timeouts are any positive
numbers, since the code relates none to another; `NoAnswerLost` says whose answer
can be lost, and by how much the write timeout must exceed a delivery
(`config.go:286` asks for "margin") for it to cut nobody off.

### KeyStore

One action per critical section or file access. Time is kept as what is left of
a deadline; `since` is a history variable that says how long ago a key file last
gave each answer, `lost` one that counts the live keys evicted for negative
answers since a key was last stored. A reload reads either the content the file had when it was
opened or what was written over it since; the eviction may remove any entries
the map iteration can reach.

### SRS, Signing, ErrorClassifier, Rotation

Pure functions. An SRS address is a sequence of the parts between separators,
and its hash is injective. `Reverse` calls itself in the code for the address
inside an SRS1 layer; here it is a recursive function over the part at which a
layer begins. A signing parameter is named after where it comes
from. The text of a reply is the set of keyword groups that occur in it.
`Rotation` keeps the counters' width as a constant.


## Runs, bounds and why they are enough

| Run | Properties | What it shows |
|---|---|---|
| `delivery` | `AtMostOneCopy`, `DeliveredMeansAccepted`, `FailureMeansRefused`, `NoConnectionAbandoned`, `BouncesReturn`, `PooledStaysOpen`, `Returns`, `RefinesDeliverySpec` | SMTP under every combination of IP mode, preference, zero to two source IPs per version, pool and fixed destination, and LMTP, two MX hosts, servers that may stop reading: no duplicate, true statuses, no connection left behind but by a failed QUIT, the pool safe from the hook, the call returns and implements DeliverySpec. The rewritten sender leads bounces back. |
| `delivery_other2xx` (*violation*) | `AtMostOneCopy` | An MX that answers the complete message with a success code other than 250: the message is sent again elsewhere. |
| `pool` | `ExclusiveOwner`, `IdleIsOpen`, `NoLeak`, `IdleBound`, `StoppedPoolIsEmpty`, `IdleLeavesPool`, `StopCompletes` | Two requests and two connections, a shutdown that may overtake the requests: exclusive ownership, only open connections in the pool, no leak but by a failed QUIT, the limit kept, an empty pool after an orderly shutdown; nothing idles for ever, and CloseAll and the cleanup goroutine never wait for each other. |
| `handshake` | `ReturnedIsOpen`, `FirstClosedOnFailure`, `HandshakeEnds` | Every transport, the context ending at any step: the returned connection is open, a failed one is closed, function and goroutine end. |
| `handshake_leak` (*violation*) | `NoConnectionLeft` | The context ends while the plaintext connection is being greeted: nobody closes it. |
| `reputation` | `WeakSignalsCorroborated`, `SuccessRestores`, `OneCulprit`, `EveryPeerGetsItsTurn` | Three concurrent reports with threshold 1 or 3, expiry and cleanup: weak signals degrade an IP only in the number the threshold asks for, an undisturbed success restores it; what is reported comes from sound verdicts on every reply the classifier can tell apart, and whatever the state of the IP, the rotation serves all peers. |
| `mx` | `OneQueryInFlight`, `OutcomeIsGenuine`, `KeyHasLeader`, `GoroutinesEnd`, `LookupReturns` | Two concurrent lookups of a domain with expiry, invalidation, cleanup and panics: one query at a time, genuine outcomes, a leader behind every key and no goroutine left unless the leader panicked, every call returns by its deadline. |
| `limits` | `InboundWindowBound`, `DomainBurstBound` | Three requests at a time, of one client and of others, to one domain, with both cleanups: how much a client and a domain can get through in any span of time. |
| `server` | `SlotsMatchRequests`, `NoAnswerLost`, `ConfigsAgree`, `SighupApplies` | Two requests on two routes, two edits of the configuration, SIGHUP and SIGTERM at any time, a read timeout as long as the margin of the drain: slots match requests, only a body that took the whole margin can cost an answer, the reloaded components agree on a configuration, a reload that was asked for happens. |
| `keystore` | `StaleKeyBound`, `NoEditMissed`, `SignaturesFit`, `BurstCostsOneKey` | Two lookups of three domains in a cache of two, with edits of the map and of the keys at any step: how long a stale key is served, no edit of the map missed, what a burst of unknown domains costs, and the signing parameters the request, the store and the settings lead to. |
| `certs` | `LeaderAgreement`, `SettledFlagSyncs`, `PutReturns` | Two nodes, two certificates, an outage of S3 and two changes of membership or restarts, three such events at most: a leader is agreed on, a flag that is still set gets the certificate of the file to S3, a Put never waits for ever. |
| `certs_sync` (*violation*) | `PeriodicSyncEnsures` | A periodic sync during an outage of S3 clears the flag, the background write fails once: when S3 is back, nobody ever pushes the certificate. |

Runs marked *violation* state what a comment or a document of the repository
says and show that the code does otherwise; `PROJECT.json` quotes the text.

Bounds. `Delivery` uses two MX hosts and up to two source IPs per version: a
resend needs two levels of any loop, and every loop has its second round; all
combinations of the configuration are initial states. The pool has two requests,
one key, two connections and a limit of one, so that the limit, a reuse and a
second owner all occur; keys do not interact, and two of them were checked for
safety before the liveness properties joined the run. Three concurrent reports
with thresholds one and three let a crossing be reached by, and during, other
reports. Two lookups give a leader and a waiter or a latecomer who finds the
cache or a new call; three were checked once for safety. `certs` has two nodes,
two certificates to put, one outage and two changes of membership, at most three
of these in one behaviour: a view that shrinks and grows again, a crash between
any two steps of a Put, a renewal while a sync with the old contents is under
way. `limits` has three requests, so that two hold limiters of different age
while a third stores a new one, and a cutoff of two burst intervals. `server`
has one slot per route and a read timeout equal to the drain's margin, as in the
defaults. `keystore` looks up three domains in a cache of two, with two edits: a
change of the map during a reload, and a change after it. `SRS` takes days on
both sides of the wrap-around and delays up to a whole cycle; `ErrorClassifier`
every set of keyword groups with the codes at the edge of each class; `Rotation`
all values of a counter of four bits with up to three peers, which includes a
length that does not divide the counter's range. Symmetry is used only where no
liveness is checked. `CHECK_DEADLOCK FALSE` appears where the modelled activity
ends: a call that returned, requests after a shutdown, a server that has exited,
lookups that are all done, certificate storage at rest.

## Fairness

- `Delivery`: the goroutine keeps running and network operations end by their
  timeouts, except the writes of the body and the dot, which go-smtp leaves
  without a deadline (`Stalled`). The context's deadline comes because the
  handler always sets one; a hook that started runs.
- `Handshake`: every step of the goroutine is under the handshake deadline or on
  a closed connection. The context need not end.
- `ConnectionPool`: time passes, the cleanup ticker fires, the lock is fair.
  The goroutine sees `stopCh` although its ticker may be ready each time too
  (strong fairness of `CleanerExits`): Go's select chooses at random among the
  ready cases. Requests need not finish.
- `MXLookup`: goroutines run, the resolver has its own timeout, and the
  context's deadline comes; the last is needed because a panic may leave a key
  behind.
- `Server`: handlers run, a body ends by the read timeout and a delivery by its
  context (`Returns` of `Delivery`), the SIGHUP goroutine and `main` run, time
  passes. Nobody need send a signal, and no request need arrive.
- `CertCache`: the tickers fire (leader, periodic sync), S3 calls end by their
  timeouts, locks are fair. S3 need not recover, nodes need not come back, no
  request need arrive, and background goroutines may sleep for ever.
  `certs_sync` adds that time passes and those goroutines run
  (`FairGoroutines`), so that its counterexample is not one of a node asleep.

## Proofs

Every proof module states an inductive invariant, proves that the initial states
satisfy it and each action keeps it, and draws the theorems from it. The
constants are arbitrary: any number of requests, connections, hosts, domains and
peers, any thresholds, lifetimes and timeouts that satisfy the module's `ASSUME`.
The invariants below were first checked by TLC on the instances of the runs. All
modules also prove `TypeCorrect`.

| Module | Inductive invariant | Theorems (property of a run) |
|---|---|---|
| `Delivery_proofs` | `IInv`; `ConnInv` | `NoDuplicate` (`AtMostOneCopy`), `DeliveredIsTrue` (`DeliveredMeansAccepted`), `FailureIsTrue` (`FailureMeansRefused`), `Refinement` (`RefinesDeliverySpec`), `ConnectionsAccounted` (`NoConnectionAbandoned`), `HookSparesPool` (`PooledStaysOpen`), `BouncesAlwaysReturn` (`BouncesReturn`), `ReverseForward`, `ReverseForwardTwice`, `ForwardSettles`, `ReverseVouched` |
| `ConnectionPool_proofs` | `PoolInv`; `Drained` | `OneOwner` (`ExclusiveOwner`), `PoolHoldsOpen` (`IdleIsOpen`), `NothingLeaks` (`NoLeak`), `LimitHolds` (`IdleBound`), `StopEmptiesPool` (`StoppedPoolIsEmpty`) |
| `Handshake_proofs` | `HandshakeInv` | `ReturnedStaysOpen` (`ReturnedIsOpen`), `FailureCloses` (`FirstClosedOnFailure`) |
| `MXLookup_proofs` | `LookupInv` | `QueriesAreShared` (`OneQueryInFlight`), `KeysAreLed` (`KeyHasLeader`), `OutcomesAreGenuine` (`OutcomeIsGenuine`) |
| `Server_proofs` | `ServerInv` | `SlotsAreExact` (`SlotsMatchRequests`), `AnswersReachCallers` (`NoAnswerLost`), `ShortBodiesAreDrained`, `ConfigurationsAgree` (`ConfigsAgree`) |
| `IPReputation_proofs` | `TrackerInv` | `CrossingIsCorroborated` (`WeakSignalsCorroborated`), `SuccessIsRestorative` (`SuccessRestores`), `CulpritIsOne` (`OneCulprit`), `VerdictsAreSound`, `PeersTakeTurns` (`EveryPeerGetsItsTurn`) |
| `KeyStore_proofs` | `StoreInv` | `EveryEditIsSeen` (`NoEditMissed`), `StaleKeysExpire` (`StaleKeyBound`), `CacheStaysBounded`, `BurstsCostOneKey` (`BurstCostsOneKey`), `ChainsStayUnbroken`, `SignaturesAlwaysFit` (`SignaturesFit`) |
| `RateLimits_proofs` | `LimitsInv` | `QuotaHolds` (`InboundWindowBound`), `BurstsStayBounded` (`DomainBurstBound`) |

`Delivery`. `IInv` is `TypeOK`, `CopiesInv` (all copies but the last are refused,
and the last too wherever a new one may be sent), `ResultInv` (what the status of
the attempt says about the last copy) and `StatusInv` (the same for the status
returned). `AtMostOneCopy` alone is not inductive: it does not say that a
non-final result means a refused copy, which is what makes the next attempt safe.
The theorems on copies and the step simulation of `Refinement` assume
`StandardReplies`. `ConnInv`, which ties the state of the hook to the place in the
code, needs no such assumption.

`SRS`. What `Reverse` does is proved for senders of any length over any parts,
not only those `BouncesReturn` enumerates. The recursive function is shown to
exist by going down from the end of the address, since it refers to later
positions. `ReverseForward` and `ReverseForwardTwice` give the exact result for
one and two forwarders, each with a secret of its own: the sender, if every hash
is ours and the first rewriting is at most `MaxAge` days old, and no address
otherwise, for every day and every delay below 1024 days. Their core is the age
that `validateTimestamp` computes from two days modulo 1024. `ForwardSettles` says
that an address does not grow after the second hop. `ReverseVouched` takes any
local part, well-formed or not: an address that comes out was signed with our
secret in the part of the text that carries it, with a timestamp that is still
valid. `BouncesAlwaysReturn` combines them for the senders, days and delays of
the run. It alone assumes `MaxAge + 1 < Cycle`, because the delays it looks at
must be shorter than a cycle of timestamps. `SRSAssumption` says that there is an
SRS domain and that the separator occurs in none; senders are assumed to have a
domain without the separator too.

`ConnectionPool`. `PoolInv` adds to the four properties what a request holds at
each point and which connection its hook would close: `IdleIsOpen` needs that an
armed hook belongs to a connection its request still holds, and `NoLeak` that a
request holds none where it takes one. What a failed QUIT left open has no owner,
and no hook that could reach a connection used again. `Drained` says that an orderly shutdown
leaves no request that could put a connection back. The limit uses the
cardinality facts of the library. `Conns` is assumed finite, `MaxIdle` positive.

`Handshake`. Goroutine and function each close what they believe is theirs.
`HandshakeInv` ties the flag, the channel and what each side still has to close
to the places in the code, from which both properties are read off.

`MXLookup`. `LookupInv` says that a goroutine at work behind the key is the one the
key names, so there is one query at a time; that a call has its answer before its
waiters are released; and that whatever is cached, in a channel or returned was
given by DNS to some lookup.

`Server`. `ServerInv` counts the slots by the cardinality of the set of requests
that hold one (`Requests` is assumed finite); its part `Budget` is the arithmetic
behind `NoAnswerLost`: a request delivers for at most `MaxTotal`, so the rest of
its age was its body, and none is younger than the drain, because none arrives
after SIGTERM. What is left when the drain gives up has therefore read for
`Margin` or longer. `ShortBodiesAreDrained` draws the consequence under
`ReadTimeout < Margin`, which the defaults do not satisfy: nothing is left.
`ReloadInv` says which settings are already the new ones at each step of a
reload.

`IPReputation`. `CrossingIsCorroborated` needs that the list, which is pruned in a
loop, never holds more strikes than signals were counted; `CalmInv` follows a success report through its up to four critical sections. The
verdicts are proved for every reply code, not only those at the edges of the
classes. `PeersTakeTurns` is a statement about positions modulo the number of
peers, for any width of the counter. That `2 ^ CounterWidth` is a natural number
is part of the assumption on the constants because the provers do not know
exponentiation.

`KeyStore`. `NoEditMissed` needs `MapInv`, which says of the reloads in progress
what it says of the map: no mtime is newer than the file's, and one that equals
it came with the content the file still has. `StaleKeyBound` needs `AgeInv`: the
lifetime of an entry counts from a clock that was read before the file, so what
is left of it plus the time since the file gave that answer never exceeds the
lifetime; the same is said of a lookup that has not stored its entry yet.
`BurstCostsOneKey` needs `BurstInv` and the bound on the cache: once a key was
lost, the live keys are fewer than the cache has places, and stay so until a key
is stored, so that the next negative answer replaces a negative one.
`SignaturesFit` looks at two ARC hops; `ChainsStayUnbroken` is the induction
step for any number.

`RateLimits`. The bounds are about a span of time that moves, so the invariants
speak of all shorter spans. For a client (`InboundInv`): what was let through
since the refill is what the bucket lacks, and what the window still holds of the
time before is less than the quota, because the refill itself let one through.
For a domain (`DomainInv`): what was spent in the last `n` ticks and the tokens
that can still be spent stay within two bursts and `n - 1` refills; a deleted
limiter that requests still hold is counted in. There is at most one of those:
the cleanup deletes only what was idle for `Cutoff`, and then nothing of what was
sent before counts any more. `Senders` is assumed finite, and `None` is neither a
number nor a bucket.

Facts about loops (`Only`, the sums `InLast`, the ARC chain) are proved by the
least counterexample: a set of naturals that is not empty has a smallest element,
which the library states without an operator as parameter. The recursive
functions are shown to exist in the same way.

Only model-checked: every liveness property (`Returns`, `HandshakeEnds`,
`IdleLeavesPool`, `StopCompletes`, `GoroutinesEnd`, `LookupReturns`,
`LeaderAgreement`, `SettledFlagSyncs`, `PutReturns`, `SighupApplies`), because
liveness under fairness is out of the prover's reach. Those are also all the
properties of `Cluster` and `CertCache`, which have no theorem beyond them.

## Not modelled

Text and cryptography (message building, the signatures of DKIM and ARC, header
and request parsing), the wording of errors, logging, metrics, the read-only
endpoints, the wiring at the start, the admin command-line tool (a third of the
unmodelled lines: sequential code over files and HTTP). Durations are abstracted
to whether and in which order timeouts happen, except in `Server`, `RateLimits`
and `KeyStore`, which count them. In `Delivery`, signing and the domain limiter
appear as their outcomes; the source IPs as their number. Of the TLS manager,
`Delete` and the handling of server names are left out.

## Observations without a run

Met while modelling; visible in the models or in the code next to them.

- An LMTP server that answers MAIL or RCPT with a success code other than 250 is
  reported as a delivery (`delivery.go:1976`).
- When every MX host is skipped for want of a usable IP version, the result has
  the empty status, none of those `API_EXAMPLES.md:242` lists (`delivery.go:701`).
- Status `unknown` maps to HTTP 504 (`handler_new.go:397`); `API_EXAMPLES.md:239`
  describes 504 as a timeout. Only the status tells a caller not to retry.
- In dual mode with IPv4 preferred and only IPv6 source IPs configured, the
  source IPs are not used (`delivery.go:672`).
- After a delivery whose connection does not go back to the pool, `Quit`
  (`delivery.go:990`) closes it only if the QUIT command succeeds, and the hook
  that would close it otherwise has just been stopped. The connection stays open
  until the garbage collector finds it. `NoConnectionAbandoned` and `NoLeak` name
  this exception.
- `ip_reputation.go:76` says "no new strikes are accumulated while an IP is
  actively degraded", and `ip_reputation.go:304` that the degrade "fires only
  once". The health check at line 300 is a critical section of its own: a strike
  may be recorded after a concurrent report has degraded the IP, and two weak
  reports may both cross the threshold. `WeakSignalsCorroborated` says what holds.
- The reputation gauge is set outside the lock, and `Cleanup` does not reset it
  (`ip_reputation.go:191`).
- A cached answer without MX hosts is returned as no hosts and no error
  (`mx_lookup.go:109`); the caller treats it as a missing MX.
- The sync at startup pushes any differing local file to S3: a node that comes
  back with an old certificate replaces the renewed one (`fallback_cache.go:351`).
  A periodic sync does the same to a Put that overtakes it between its read and
  its write.
- The handshake goroutine's deferred `SetDeadline(time.Time{})` runs after its
  result was sent and may clear the deadline the transaction has just set for
  its first command (`delivery.go:1389`); `config.toml.example:136` calls
  `lmtp_timeout_seconds` the "LMTP command timeout for MAIL/RCPT/DATA commands".
  The context still bounds the wait.
- The drain deadline exceeds a delivery by 30 seconds (`main.go:392`), and the
  default read timeout is 30 seconds too: a request that takes the whole of it
  to send its body as the shutdown begins leaves no time to write the answer,
  although `main.go:390` gives losing it as what the deadline is there to avoid.
  `NoAnswerLost` says that no other request is cut off. `contrib/strela.service:30`
  has systemd kill the process after 90 seconds, long before the 230 of the
  default drain.
- `max_concurrent_requests` is a limit per route, not for the server
  (`main.go:166`, `config.toml.example:31`, `config.go:64`): three routes, three
  semaphores. `SlotsMatchRequests` is about one of them.
- The handler keeps the configuration of the start. After a reload,
  `/deliver/lmtp` checks the old `default_lmtp_destination`
  (`handler_new.go:116`) while the delivery uses the new one, and
  `performLMTPTransaction` reads the configuration once more
  (`delivery.go:1949`). `ConfigsAgree` is about the components that are reloaded.
- A `per_domain_interval_seconds` above ten minutes is not enforced: an evicted
  limiter comes back full (`delivery.go:227`). A token is taken also for a
  message that is not sent in the end.
- A full cache of live signing keys loses one to the first negative answer of a
  burst of unknown From domains, and one whenever a key is stored again although
  it is present (`keystore.go:164`); the comment at `keystore.go:152` says that
  such a burst "cannot evict hot signing keys". `BurstCostsOneKey` states what
  does hold.
- `Put` sets the sync flag before it writes the local file. A periodic sync in
  between compares the old file and clears the flag, so that the new file waits
  for the background write alone. `SettledFlagSyncs` is about a flag that is
  still set.
- The SRS separator is not checked. One that occurs in domains makes `Reverse`
  return another address under a valid hash; `BouncesReturn` assumes it does
  not. An SRS1 address made from another server's SRS0 cannot be reversed,
  while `srs.go:31` describes re-forwarded addresses as ones that can be decoded;
  `BouncesReturn` is about the others.
  An expired address becomes valid again 1024 days later, and with a `max_age`
  of 1023 or more none expires. `srs.go:242` calls the timestamp "days since
  epoch / 4"; it is days modulo 1024.
- A permanent refusal for reputation has the status `hard_bounce`, although its
  category is one `IsRetryable` lists; "rbl" counts as a blocklist wherever it
  occurs in a reply, at any code.
- `handlerARC` may combine a request's ARC key with the configured selector or
  domain, which the code for DKIM avoids (`handler_new.go:337`). The configured
  DKIM key goes with a selector or domain of the request (`handler_new.go:297`).
  `SignaturesFit` forbids neither.

## Plan

1. Safety of `CertCache` worth a theorem next to its liveness, such as which
   process may hold the lock and what the flag says of the local file.
2. Compositions: `Delivery` over `ConnectionPool` and `Handshake` instead of
   their outcomes, as far as TLC can go.
