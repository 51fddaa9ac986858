# A formal model of idemlease

TLA+ models of [idemlease](../src/README.md), a Go library that gives HTTP and
gRPC handlers Idempotency-Key semantics on top of a lease protocol; TLC
configurations that check them on small instances; and TLAPS proofs for every
value of the constants. `PROJECT.json` maps every definition to the source lines
it stands for and lists runs, mutants, hazards, findings and theorems.

    tlc -config MCLease.cfg MCIdemLease        # one run
    tlapm IdemLeaseProofs.tla                     # the proofs of one module

## 1. The system

| part | source | state it keeps | operations | who uses it |
|---|---|---|---|---|
| lease core | `idemlease.go`, `record.go`, `store.go` | none (a token per call) | `Begin`, `Finish` | every adapter; calls a `Store` |
| memstore | `memstore/` | a map from key to record, under a mutex | `Reserve`, `Complete`, `Release`, `Get` | core |
| pgstore | `pgstore/` | a table with one row per key | the four, `CompleteTx` (in the handler's transaction), `Sweep` | core; handlers |
| redistore | `redistore/` | a hash per key, with a TTL | the four, as Lua scripts | core |
| HTTP middleware | `httpidem/httpidem.go`, `reservation.go`, `policy.go`, `errors.go` | per request: capture, reservation and finish flag in the context | `ServeHTTP`, `MarkFinished`, `WriteStored` | net/http, handlers |
| response capture | `httpidem/recorder.go` | status, headers, body, overflowed, abandoned | `Recorder`, `captureWriter` | middleware, Gin adapter |
| codec, key grammar, fingerprint | `httpidem/storedresponse.go`, `key.go`, `fingerprint.go` | none | `MarshalBinary`, `UnmarshalBinary`, `ParseKey`, `Fingerprint` | middleware, Gin adapter |
| gRPC interceptor | `grpcidem/` | none | `intercept`, its own key check, fingerprint and payload | gRPC server |
| Gin adapter | `ginadapter/` | per request: `captureWriter` with a pending status, over the same Recorder | `handle` | Gin |
| errtrail adapter | `errtrailadapter/` | none | a policy by error code, an error writer | applications |
| conformance suites | `idemleasetest/`, `httpidem/httpidemtest/` | - | tests for stores and handlers | tests |

A request carries a key. `Begin` draws a token and asks the Store to reserve the
key until `now + leaseTTL`. The Store claims a free or expired key (`Proceed`), or
returns the live record, which `Begin` judges: reserved means `RejectInFlight`,
completed with the same fingerprint means `Replay`, completed with another one
`RejectFingerprintMismatch`. After `Proceed` the handler runs and `Finish` either
completes the record with the response (`Persist`) or deletes it (`Discard`);
both are compare-and-set on the token, and a lost lease is reported and not an
error.

What is hard: nobody renews a lease, so an execution may outlive it and meet its
successor at the Store; answers of the Store get lost while the request takes
effect later; processes die between `Begin` and `Finish`; expiry is decided by
clocks read at different moments (by `Begin`, by a claim that waits for a row
lock, by a transaction's frozen `now()`, by Redis); the response is captured
while it is being sent, by Gin even before it is sent; a handler may finish its
reservation on its own, or report an error that contradicts its status.

What makes each part correct:

* core and stores: one valid lease per key; a holder's reservation is not touched
  by anybody else; a replay is a real, unchanged result of the same request; a
  stored result is stable until it expires; keys become free again;
* pgstore: besides, one business commit per completed record;
* capture: what is stored is what the client received, and nothing streamed,
  hijacked, cut or panicked is stored;
* codec, keys, fingerprints: a payload decodes to what was encoded or is refused;
  a header names at most one key; different scopes, keys or requests stay apart;
* adapters: every request ends, with the reservation settled; `Retry-After`
  is long enough; what must not be replayed is not.

## 2. Modules

    Record ── MemStore ── IdemLease ──┬── IdemLeaseProofs
      │                     │ └ refines LeaseContract
      │                     ├── HttpIdem (with Recorder, Policies)
      │                     │     └── GinIdem (with GinWriter) ── HttpIdemProofs
      │                     └── GrpcIdem ── GrpcIdemProofs
      ├── PgStore ── PgStoreProofs
      └── RediStore ── RediStoreProofs
            └ refines LeaseContract

    Recorder ──┬── Capture ─────────────┐         KeyGrammar ──┬── BytesProofs
               └── GinWriter ──┬─ GinCapture ─┐   Codec ───────┘
                               └─ RecorderProofs ── CaptureProofs

A `...Proofs` module extends the module it is named after, BytesProofs KeyGrammar
and Codec, HttpIdemProofs also GinIdem. HttpIdemProofs and GrpcIdemProofs extend
IdemLeaseProofs, too, and HttpIdemProofs and CaptureProofs RecorderProofs, whose
lemmas say what one call of a handler does to a capture.

**Record** (`record.go`, `Options`): records, TTL defaults and `Expired`, where
the boundary instant counts as expired. Instants are natural numbers. A call
stands for its token (128 random bits) and for its payload.

**MemStore**: the four methods as functions from the map to a new map and an
answer. Each is one mutex section, so each is atomic; `lookup`'s lazy deletion is
part of every one of them.

**LeaseContract**: the abstract specification. A key is free, leased to one call
or stores one result, and is free the very instant that runs out.

**IdemLease**: `Begin` in three steps (`Stamp`, `ReserveCall`, `JudgeExpired` or
`JudgeLive`, between which time passes), `Finish`, the adapters' second `Finish`
(`FinishAgain`), and the environment: a Store call may fail for its caller
(`ReserveError`, `FinishError`) and its request then sits in `late` and may
arrive at any time or never; `Crash`; `Inspect` (`Store.Get`); `Tick`.

**PgStore**: one step per statement. A claim takes three: `IssueClaim`, where the
host works out the lease TTL, `StartClaim`, where the server fixes `now()`, and
`Claim`; time passes between them. `ts` is `now()` of the statement or
transaction; `lock` and `pend` are the row lock and the uncommitted version of
`CompleteTx`. A claim waits for the lock, then judges the newest committed row by
its own older `ts`. `Sweep` is two steps, because its `DELETE` evaluates the
subquery first and, on meeting a row changed since, rechecks `key IN (...)` only;
`seen` remembers the version of each row it selected. A commit's answer may be lost.

**RediStore**: one step per script, plus the client. `Stamp`, `Send` and `Decode`
read the host's clock, which is `skew` ahead of Redis; a key exists up to and
including the last unit of its TTL, with PTTL 0. `Timeout` is go-redis sending a
command again, or giving up, while the first request is still on its way.

**Recorder**: the Recorder, the captureWriter and a model of what net/http does
with the same calls (`wire...`, external). **Capture** drives one captureWriter
with any sequence of calls; `streamed` remembers that a `Flush` or a `Hijack` went
through.

**GinWriter**: the Gin adapter's captureWriter over the same Recorder and a model of
Gin's writer (`gin...`, external), which notes a status and sends it with the first
body byte, on `WriteHeaderNow` or `Flush`, or when the engine is done.
**GinCapture** drives one of them; after the chain, middlewares before the adapter
may still write.

**Policies**: the default policy, errtrail's policy by error code, and errtrail's
error writer, which maps a sentinel to a code and the code to its status.

**HttpIdem**: `ServeHTTP` for several requests over IdemLease and Recorder, with
handlers that write, flush, hijack, panic, call `SetError`, or complete their own
reservation with or without `MarkFinished`. A `Finish` after a completion that was
not reported, and the best-effort `Discard` after that one failed, are steps of their
own (`FinishNoisily`, `ReleaseNoisily`). The constant `Errtrail` says which
policy and error writer are configured.

**GinIdem**: `handle` of the Gin adapter for the requests in `GinCalls`, beside
`ServeHTTP` for the others, over one Store. The steps both take alike are
HttpIdem's; its own are the writes through GinWriter, the return with `finalize`,
the replay, and what Gin does afterwards (`Recover`, `EngineSend`). Its requests are
those of matched routes, for which Gin holds status 200 when the chain starts; the
404 of unmatched ones is among the `Presets` of GinCapture and is what
`gin_late_write` is about.

**GrpcIdem**: `intercept` over IdemLease; the response goes out after `Finish`.

**KeyGrammar**: `ParseKey`, `KeyFromHeader`, gRPC's `validateKey`, the scoped store
key and both fingerprints, over sequences with one byte of each kind the code tells
apart. A digest is its preimage. **Codec**: both payload formats byte by byte, with
varints in any base of at least 2 and the loops of the decoder as recursive functions.

**MCBlocks** puts the sequential parts (Capture, GinCapture, KeyGrammar, Codec)
side by side; a behaviour exercises one of them. The other `MC*` modules add only
the symmetry sets; the `.cfg` files give the constants their values.

## 3. Runs

| run | module, cfg | bounds | shows |
|---|---|---|---|
| `lease` | `MCLease` | 3 calls, 1 key, 3 ticks, 1 late request | one valid lease, genuine replays, stable results, justified rejections; the inductive invariant; refinement of LeaseContract |
| `pg_store` | `MCPgStore` | 3 calls, 2 ticks, lease of 1, records of 2, 1 sweep | until a sweep: one lease, one business commit per record; always: a completion under a row lock is protected, no stored 409, and results are stable but for a sweep that selected an earlier version of the row; no claim with a TTL below 1; the inductive invariant |
| `pg_reserve` | `MCPgReserve` | 4 calls | `Reserve` returns |
| `redis_store` | `MCRediStore` | 2 calls, 2 skews, 3 ticks, 1 late, 1 retry | one lease, sane `Retry-After`, genuine replays; the inductive invariant; refinement of LeaseContract |
| `blocks` | `MCBlocks` | 7 calls on net/http's writer, 5 on Gin's; header values of up to 6 bytes, keys of 3; 2 bytes of query and body; varints in base 3, 2 names and values | captures agree with the connection; keys, scopes, fingerprints and payloads as section 1 asks |
| `http_middleware` | `MCHttpIdem` | 2 requests, 2 handler calls each, 1 tick, errtrail | replays equal the original, nothing forbidden is replayed, reservations are settled; the inductive invariant |
| `gin_beside_http` | `MCGinIdem` | a Gin and a net/http request, 1 handler call each, lease of 3 half seconds, FailOpen | either replays what the other sent; `Retry-After` covers the lease; requests end |
| `grpc_interceptor` | `MCGrpcIdem` | 2 calls, 2 requests, 2 messages, 1 tick, 1 late, two sets of options | only successes are replayed, unchanged; failures leave nothing; calls end; the inductive invariant |

The bounds let every interesting case happen: two calls are the least for a
successor to meet its predecessor's late request, three for a third party to be
let in by their confusion; the clock reaches the end of the lease and, in
`lease`, of the record of the first call; in `pg_store` a record outlives the lease it
was made under; `Begin`'s and `Reserve`'s three
attempts are all used (four calls in `pg_reserve`, since each vanishing row needs
one more competitor); TTLs are configured as zero where the defaults are to
apply. In `blocks` the limits of the code (255 bytes, 1024 names and values, base
128) are scaled down and inputs go past each of them: headers of every length up to
twice a legal key, three names or values where two are allowed, lengths that need a
second varint byte. Two fingerprints are used where adapters turn a mismatch into an answer;
that a replay has the request's own fingerprint is proved for any number of them.
Deadlock checking is off everywhere because requests end and the clock stops at
its bound. Symmetry is used for safety only.

**Fairness.** `GinFairSpec` (Gin and net/http requests) and `GrpcFairSpec` assume that the goroutine of a
request is scheduled, that its Store calls return or fail, and that its handler
returns, which the server cannot guarantee but without which no request ends.
Nothing is assumed of the clock, late requests, arrivals, panics or crashes. Since the
clock of a run stops, these properties do not show that `Begin` bounds its attempts;
`IInv` of `lease` does (`attempt` never passes `maxAttempts`). PgStore's `FairSpec`
assumes that a waiting or retrying `Reserve` runs when it can, that open
transactions end and that time passes.

**Mutants.** Each property of a passing run is shown to fail when one definition
is replaced by the operator before it that is marked *Mutant*: a dropped token
check, an expiry off by one, a claim without a check, a cut body, a loop that goes on
with the record it has.

## 4. Findings

Four runs expect a violation; each states what a comment or document says.

* `pg_sweep_lease`: **Sweep can delete a fresh reservation.** A `Reserve` that
  overwrites an expired row while a Sweep's `DELETE` is under way loses its row to
  it, and a second execution gets a lease while the first is valid. The same `DELETE`
  can remove a result that was just stored: it selects an expired reservation, waits
  for the row lock of that reservation's own `CompleteTx`, and deletes the completed
  row once it is committed, with no other claim involved. A retry then runs the
  business transaction again within the record's TTL, against README.md:213-218.
  `CompletedStable` therefore excepts a row whose selected version was an earlier one,
  and `OneCommit` the time after a sweep.
* `http_oversize`: captured headers are unbounded, so a stored payload can be over
  the limit of the replay, which answers 500 until the record expires.
* `redis_retry`: a retried `Complete` reports a lost lease although its result is
  stored and replayed.
* `gin_late_write`: **the Gin capture can store another status than was sent.** With
  the adapter engine-wide, a chain for an unmatched route starts with status 404 in
  Gin's writer. If it writes nothing, the client gets 404 and the capture stores an
  empty 200, which retries receive. A middleware before the adapter that changes a
  header-only response has the same effect. `GinFaithful` states what does hold.

Smaller things the models show, without a run of their own:

* `CompleteTx` succeeds on an expired lease that nobody took over, because `now()`
  is the start of the transaction. Its comment says otherwise; it is harmless for
  `OneCommit`, which `pg_store` checks.
* pgstore's `Complete` returns `ErrNotFound` where the Store contract asks for
  `ErrTokenMismatch`, when the key is completed under another token, because its
  classifying query looks at reservations only. `Finish` treats both alike.
* In the last millisecond of a TTL, redistore's `Reserve` returns a record with
  PTTL 0, which is expired when it is decoded; `Begin` then retries.
* gRPC's `retryAfter` rounds to the nearest second, so a client may be told to come
  back up to half a second before the lease ends; the HTTP adapters round up.
* A chain that leaves a 1xx as Gin's status is captured as 200; Gin sends the 1xx.
* The codec drops header names without values, and refuses on decoding what has
  more than 1024 names or values, which it encodes without complaint (`RoundTrip`).
* A gRPC key may begin with a double quote or a space; over HTTP the same bytes name
  another key or none (`KeyGrammatical` says for which keys the two agree).
* With errtrail's policy a 5xx with a permanent code is stored and replayed.

## 5. Proofs

`IdemLeaseProofs` proves for all sets of calls, keys and fingerprints, all TTLs
and all bounds (from `NoneAssumption`, `TTLAssumption` and `BoundAssumption`
only): `IInv` (with its parts `TypeOK` and `HolderIntact`), `LeaseExclusive`, `ReplayFaithful`,
`CompletedStable`, `RejectionJustified`, and that `Spec` implements
`LeaseContract`.

`LeaseExclusive` is not inductive: nothing in it says that a holder's reservation
is still in the Store. `IInv` adds this (`HolderIntact`: a call whose lease is
valid finds its reservation as `Begin` left it), that every record is one some
call of its key put there, that a completed call has no reservation left which
a late `Discard` could drop (`StoreInv`, `Completed`), that the record a `Begin`
is judging was such a record (`BeginInv`), and that a request in `late` belongs
to a call that gave up (`FinishInv`). Exclusion follows because two holders would
both find their token in the same record. One lemma per action shows that `IInv`
is kept; they rest on `SettleEffect` and `ClaimEffect`, which say what
`Complete`, `Release` and `Reserve` do to the map. In the refinement a claim is a
`Grant`, or nothing when its lease ran out on the way; deletions of expired
records are invisible; `Tick` is `Pass`.

`PgStoreProofs` proves `IInv`, `TypeOK`, `LockProtects`, `UnsweptExclusive`,
`OneCommit`, `CompletedStable` and `ConflictNeverStored` for all sets of calls and
keys, all TTLs and any number of ticks and sweeps. The difficulty is that a statement
judges a row by the `now()` of its own start. `IInv` therefore relates clocks,
locks and rows: nobody's `ts` is ahead of the clock; a row lock has the owner whose
transaction is open, and `pend` is the version that owner wrote; and until the first
sweep, what a valid lease, a business commit or a lost lease promises can be read off
the row, because a claim whose `ts` is old can only find the row *less* expired than it
is. `Sweep` breaks exactly this part, as `pg_sweep_lease` shows, which is why
`UnsweptExclusive` and `OneCommit` are about the time before it. `CompletedStable`
holds with any number of sweeps: `SweepInv`, the part of `IInv` about `seen`, says that
what a sweep selected had expired by then, so that a live row it deletes is not the
version it selected. `TypeOK` includes that a claim under way has a TTL of at least 1.

`RediStoreProofs` proves `IInv`, `TypeOK`, `LeaseExclusive`, `ReplayFaithful`,
`RetrySane` and `CompletedStable` (proved, and checked in no run), and that the
scripts implement `LeaseContract`, for all skews of the hosts' clocks and any number
of retries and late requests. `IInv` says of every hash, every reply and every
request on its way which call it belongs to and what stage that call has reached, so that a
script that runs twice or late finds its token gone. In the refinement a key that
Redis keeps through the last unit of its TTL is the contract's until one unit later.

`RecorderProofs` and `CaptureProofs` prove `CaptureFaithful`, `StatusJudged`,
`CaptureVoid` (a voided capture stays void; proved, and checked in no run) and
`GinFaithful` for any number of calls, headers, statuses and body limits. For net/http
the invariant (`Good`) is that, as long as the capture is not voided, Recorder and
connection have the same status, the same allowed headers and the same body; what was
flushed or hijacked is never storable again. For Gin
(`GinSynced`) Gin's status is the one the adapter noted, or a 1xx; before the header
is out nothing is in either body, and once it is out Recorder and connection agree;
while the chain runs, the snapshot is taken when the header goes out (`GinOpen`).
`GinInv` adds what is left of this when a middleware around the adapter writes
afterwards: what was sent before it stays sent and captured.

`GrpcIdemProofs` proves that every behaviour of the interceptor is a behaviour of
IdemLease (`DrivesCore`: each of its steps is a step of the core or leaves it alone),
so that all theorems of `IdemLeaseProofs` hold behind it; then `GrpcInv`, `GrpcTypeOK`,
`ReplaySame`, `ErrorLeavesNothing` and `SuccessSealed`. `GrpcInv` ties the stage of a
call to its `pc`, and what its handler returned to what was decided. Besides the
core's assumptions it needs that messages are none of the markers
(`GrpcAssumption`).

`HttpIdemProofs` proves `HttpInv`, `HttpTypeOK`, `ReplaySame`, `ReplayAllowed`,
`Released` and `RetryAfterCovers` for net/http requests (`HttpSpec`), and the last
four again, with `GinInv`, for requests of Gin and of net/http over one Store
(`GinSpec`), whichever of them Gin serves. It cannot build on the core's `IInv`: a
handler that completes its reservation itself may see that fail with the request
still on its way and go on to `Finish`, and the core's invariant excludes a late
completion of a running call. `MiddlewareInv` is weaker about the Store
(`HttpStoreInv`: a record was left by a call of that key which persists or
whose own completion failed) and adds where a request is (`Phase`) and what was
decided, stored and answered (`Settled`). It says nothing about writers and is shown
once, for the steps of both middlewares (`AnyNext`). The two inductive invariants add
what a capture holds: `Captured` for net/http's writer, where what was stored is
what the client has; `GinCaptured` for Gin's, where it is the snapshot that was
stored, which may still be unsent. A replay through either writer puts the same on
the wire (`StoredEffect`, `GinReplayEffect`), so all four combinations of who stored
and who replays follow. `ReplaySame` of `GinSpec` has a hypothesis: no handler writes
a 1xx (`Statuses \cap Informational = {}`). It is needed: section 4 says what Gin does
with a 1xx, and TLC refutes `ReplaySame` when `Statuses` has one.
`RetryAfterCovers` rests on the rounding of `retryAfterSeconds`, for any length of the
second.

`BytesProofs` proves `KeyGrammatical`, `ScopesApart` and `FingerprintTells` for
headers, scopes, queries and bodies of any length; and, free of the specification,
that no two accepted keys of different scopes share a store key (`StoreKeysApart`).
These are inductions over data. The library's induction theorems cannot be
instantiated, but that a nonempty set of numbers has a least member can, so each
induction takes the least length, or the first position, at which the claim fails.
Fingerprints are told apart by splitting both preimages at the first separator
(`Split`); store keys are read back from the last separator, which no accepted key
contains, because the parser's state never holds anything but printable bytes
(`SFPrintable`). `KeyGrammatical` follows the parser byte by byte: what it has read is
the serialization of the key it holds (`SFSound`), and every serialization is
accepted (`SFOpened`).

For Codec it proves `RoundTrip` and `CorruptRefused`, and behind them the general
results `ResponseReads`, `ResponseDamaged` and `MessageReads`: they hold for *every*
response and message whose numbers and lengths fit into a varint (`Encodable`,
`Sendable`), with any number of headers and bytes. The specification's own responses
are among them because a varint has at least two bytes and these hold more than
`maxHeaderValues + 1` (`CodecAssumption`; the code has ten bytes of base 128 and a
limit of 1024). The argument goes up the format: a varint reads back as the digits
written (`UvarintWritten`), then a string, a header value, the values of a name, a
name, all names in sorted order (`NamesWritten`), the response (`ContentRead`). Each
loop of the decoder is unfolded once (`ReadNamesSteps`) and then taken by `Climb`,
induction as a statement about a set of rounds. That a payload cut short is refused
needs no case distinction on where it was cut: whatever can be read can be read
with more bytes behind it, which are then left over (`BodyLonger`), but the whole
payload leaves nothing over.

Only model-checked: liveness (`RequestEnds`, `CallEnds`, `ReserveReturns`), which this prover does not reach, and what the four runs of section 4
refute. Every invariant and action property of a passing run is a theorem.

## 6. Not modelled

* Policies, error writers and key validators that applications write themselves; log
  messages and the wording of error documents.
* Collisions of SHA-256, and what protobuf does with the bytes of a message.
* Varints that overflow 64 bits, which `binary.Uvarint` refuses: no encoder of a
  length or a status writes one.
* The client's disconnection: `Finish` runs under `context.WithoutCancel`, so it
  changes nothing after `Begin`; before, it is a Store call that fails.
* 101 Switching Protocols as a final status: net/http sends it and the Recorder
  ignores it as a 1xx.
* Fractions of a millisecond. PostgreSQL and Redis get TTLs cut to whole
  milliseconds, so a lease may end up to a millisecond before the
  `LeaseExpiresAt` its holder computed.
* Loss of data by a Store (eviction, failover, a deleted table), and Redis or
  PostgreSQL clocks that jump. HttpIdem and GrpcIdem run over memstore's semantics.
* The conformance suites, which are tests.

## 7. Plan

Every component except the conformance suites has its module and its runs, and every
safety property of a run is proved. What could follow:

1. `ReplaySame` of `GinSpec` with 1xx statuses, for the responses whose last noted
   status is a final one.
2. HttpIdem and GrpcIdem over the records of PgStore and RediStore instead of
   memstore's: both stores are checked on their own, the adapters over
   memstore only.
