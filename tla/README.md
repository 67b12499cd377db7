# Formal models of mcp-authflow-resource

This directory holds TLA+ models of the resource-server library
`mcp_authflow_resource`, TLC configurations that check them on small instances,
and TLAPS proofs of the results that should hold at every size. File and line
references are to the package, e.g. `auth/token_verifier.py`.

## 1. Inventory of the system

| Component | State it keeps | Operations |
|---|---|---|
| `SlidingWindow` (`friction/window.py`) | bounded deque of records, `_counts`, incremental cost | `record`, `rate`, `total_cost` |
| `FrictionController` (`friction/controller.py`, `models.py`) | per tool: config, friction, EMA rate, saturation counter, effective target; per group: config, EMA; window, budget, last call time, warmup counter, saturated and undrained tools | `configure_tool`, `configure_group`, `check`, `record_call`, `record_unconfigured`, `restore_friction_levels`, `reset_budget`, `drain_saturation_events`, read-only status |
| `FrictionRegistry` (`friction/registry.py`) | controllers and locks by client, access order, penalty store | `check_and_record`, `record_unconfigured`, creation with eviction, capture/restore/prune of penalties, `get_client_status` |
| Friction decorators (`friction/decorator.py`) | the default registry | gate in front of a tool; recording without a gate |
| `IntrospectionTokenVerifier` (`auth/token_verifier.py`) | endpoint verdict, cache of introspections, client lock, pooled HTTP client and its context | `verify_token`, `close` |
| SSRF protection (`auth/ssrf_protection.py`) | none | classification of the introspection URL |
| Validation (`validation.py`) | none | what a tool gets of a backend's response: its list, its dict, or an error |
| Logging middleware (`middleware.py`) | per request, in closures: a body was logged; the status of the response | wrappers of `receive` and `send` |
| Path normalisation (`middleware.py`), discovery (`oauth_discovery.py`) | none | slashes after a path; metadata routes, CORS and preflights |
| Friction logging (`friction/logging.py`) | none | formats records |

How they interact. A request first goes through `verify_token`, which consults
the cache, or opens the shared client under its lock and asks the authorization
server. The token it returns supplies the client id with which a decorated tool
calls the registry; the registry finds or makes that client's controller, asks
it with `check`, and charges the call with `record_call`. Eviction carries a
client's friction to the penalty store and from there to its next controller.
Around the request stand the path normalisation, which decides what the
discovery routes see, and the logging middleware, through whose wrappers every
message of every request passes.
All of it runs in one asyncio event loop: there are no threads, and control
changes hands only where a coroutine really suspends.

What is hard to test here:

* **The verifier is concurrent.** It suspends while waiting for the client
  lock, for the client to open, for the response, and for the client to close.
  In between other verifications, `close`, cancellations and failures run, and
  the token may be revoked or expire.
* **The cache trades freshness for speed.** Whether a revoked or expired token
  is still accepted depends on a time to live, on the token's `exp` under the
  wall clock, on entries that live on the monotonic clock, and on answers that
  are processed later than they were given.
* **The registry keeps four dictionaries in step by hand**, at a limit, with a
  store that expires, over long sequences of calls by several clients.
* **The decorators stand between the two.** Between the verification of a request
  and its tool other requests run, evict its client, or revoke its token; the
  tool must run exactly when it was counted and charged.
* **The controller is a feedback loop** with warmup, dead zone, asymmetric
  decay, idle decay, saturation relief and group pressure, each at its own point
  of `_adjust_friction`.
* **Requests overlap in the logging middleware**, which is one object for all.
* **Pure functions agree with each other only by care**: what construction
  demands and what use takes for granted, the resource that is advertised and
  the audience that is accepted, the documents among themselves.

The properties that make each component correct are those of section 4; the
hazards they answer are listed with their lines in `PROJECT.json`.

## 2. Modules

| Module | Models |
|---|---|
| `FrictionControl` | the algorithm of a controller and its window, as operators on a record `c` with the controller's attributes |
| `FrictionController` | one controller driven through its API, each public method that changes state an action |
| `FrictionRegistry` | the registry over `FrictionControl` |
| `TokenVerifier` | `verify_token`, `close`, cache, lock, client, and their environment |
| `VerifierPromise` | what the verifier promises to its user, with no cache, client or lock |
| `VerifierRefinement` | the mapping under which `TokenVerifier` implements `VerifierPromise` |
| `ResourceServer` | requests through `VerifierPromise`, the decorators and `FrictionRegistry` |
| `VerboseLogging` | the logging middleware under overlapping requests |
| `UrlSafety`, `ResponseValidation`, `VerifierSetup`, `Discovery` | the functions without state, as operators |
| `Helpers` | calls of those functions with every argument of given sets |
| `OrderedDict` | the order of an `OrderedDict`: what both LRU structures do to it |
| `MC*` | values of the constants for TLC |
| `*_proofs` | theorems, see section 6 |

### FrictionControl and FrictionController

Every attribute of the controller is a field of `c`; a method that changes the
controller is an operator from `c` to its next value, written in the order of
the code (`RecordCall`: decay for idle time, price, count in window and warmup,
`AdjustFriction`, charge, remember the time). `AdjustFriction` is the pipeline
`UpdateEma`, `Steer`, `DetectSaturation`, `AggregatePressure`, cut after the
first during warmup as in the code.

Numbers: the code uses floats in `0.0 .. 1.0`; the model uses the integers
`0 .. Unit`, products rounded down. `math.exp(-rate * dt)` is the operator
`Decayed`, of which `DecayAssumption` asks only that it does not increase a
value, is monotone in it, and leaves no more after a longer time. TLC uses one
tick as the half-life.
A property is stated only if it does not depend on the rounding: order,
bounds, counts, "not raised", "back to zero" (with floats: below any threshold).

Left out: total cost and time stamps of window records (they feed a diagnostic
only), message texts (`reason` is which of the texts it is), `get_status`. The
saturation events not drained yet are a set, their order left out.

### FrictionRegistry

One call of `check_and_record` or `record_unconfigured` is one action. That is
what the code does: `_global_lock` and the per-client locks are never held
across a suspension, so they are free whenever they are asked for, and
`asyncio.Lock.acquire` on a free lock does not suspend. The double check after
`_global_lock` can therefore never find a client that the first check missed.
`GetOrCreate` works on a registry state `[live, order, store]` and follows
`_get_or_create` with `_capture_penalty`, `_restore_penalty` and
`_prune_penalties`; the eviction loop runs at most once because `Live` never
exceeds `MaxClients` (an invariant, and a theorem). `evicted` is a history
variable, used only by `ReconnectRestoresFriction`. The clock is advanced by
`Tick`; the two readings of it within one call are the same tick.

### TokenVerifier

One task per element of `Tasks`, its `pc` naming the suspension it is in:

    idle --Miss--> lock --TakeLock--> open --FinishOpen--> posted --Answer--> answered --Receive*--> idle

with short cuts when the lock is free (`Miss` goes on to `open`) and when the
client is ready (to `posted`), `RejectUnsafe` and `ServeFromCache` straight back
to `idle`, `FailOpen` and `FailExchange` for every exception that
`except Exception` turns into `None`, and `Cancel` at any suspension. `Closer`
runs `close` through `lock` and `closing`, which may raise; one `close` at a time,
and none that is cancelled while it waits for the lock. The cache is a
sequence, oldest first, and its operations belong to the step in which they
occur (the cache lock is never contended, by the argument above). The client
lock is contended, and is modelled with its queue: `asyncio.Lock` serves its
waiters in order, hands over to a waiter without letting others overtake, and a
cancelled waiter leaves the queue.

`client.context` is `_client_context` (`none`, `new`, `open`, `closed`) and
`client.ready` is `_client is not None`. The two differ after a failed opening,
and after a `close` that raised, as in the code.

The environment is external: `Answer` is the moment the server decides,
`Revoke` and `Exp` are its view of a token, `Tick` the monotonic and
`SetWallClock` the wall clock. `MaxDelay` bounds how long an exchange takes. That is an
assumption about the network and not a fact of the code: the httpx timeouts
(10 s, connect 5 s) limit single operations, not the exchange. The bound on
revocation is stated in terms of it.

Left out: parsing of scopes and the retention of `resource` in the
`AccessToken`. The URL rules appear as their verdict `safe` (settled at
construction), audience matching as `Matching`/`Audience`; the rules themselves
are in `UrlSafety` and `VerifierSetup`.

### VerifierPromise and its refinement

`VerifierPromise` says what the rest of the server may rely on: each question
is answered at most once, for the token that was asked; a token is accepted only
if it is bound to this resource and was active at some instant of the last `Lag`.
`VerifierRefinement` maps `TokenVerifier` to it: `asked` is the token of a task
that is not idle, `verdict` is `reply` without its source, and `Lag` is
`MaxDelay`, plus `CacheTTL - 1` when there is a cache. Cache, lock, client, wall
clock and the source of a reply are hidden. In the mapping `Miss` is `Ask` (or
`Refuse`, when the client turns out to be closed), `ServeFromCache` and
`ReceiveActive` are `Accept`, the failures and negative answers `Refuse`, `Cancel`
is `Abandon`, `Revoke` and `Tick` are themselves, and every other step is `Deliver`, which
forgets the last verdict. The refinement holds however the wall clock is set
forward, since that only shortens the life of entries made after it.

### ResourceServer

A composition: it EXTENDS `FrictionRegistry`, uses the registry's actions as steps of
its own, and takes `VerifierPromise` as its verifier through INSTANCE, so that
two concurrent requests, the registry and revocation fit in one state space. A request goes

    idle --Arrive--> verifying --Authenticate--> granted --FrictionControlled--> running --Finish--> idle
                                                         --RecordToolCall------>
                                                         --RunUnguarded-------->

and ends early when the verifier or the registry refuses. A wrapper does not
suspend between reading the token and starting the tool, so it is one step. `RunUnguarded` is
the wrapper without a registry (`InitFriction` has not happened) or without a
token. `ClientOf` gives a token without the claim the client "unknown". `ran`
and `spenders` are history variables. The registry is not called in most steps: `NoCall`.

### VerboseLogging

One middleware, several requests, each with what it received and sent so far and the
two closure variables. A chunk is its size and whether more come; a message of a
response is a status or a size. `enabled` is false where the constructor refused to be used in
production. `FailOpen` and `FailResponse` are headers that are not UTF-8.

### The functions without state

`UrlSafety` takes a URL as `urlparse` yields it: hosts are absent, addresses
(loopback or not) or sequences of labels. `ResponseValidation` keeps types of
data and which error text it is. `VerifierSetup` has the resolution of the
authentication method, the checks of the constructor, `_apply_client_auth`, and
audience matching, where `check_resource_allowed` is the SDK's and external.
`Discovery` has the routes and the documents with the fields that depend on the deployment.
In `Helpers` one step is one call.

## 3. Runs and bounds

| Run | Instance | Shows |
|---|---|---|
| `controller` | two tools, each controlled or not, in a group with target 0 or in none, window 2, warmup 2, saturation after 2 calls, 3 time stamps in any order, a budget that is unlimited or 0; fairness for calls of one tool at the last time stamp | counts, saturation events, targets, idle decay, what raises friction, group pressure, recovery |
| `controller_warmup` | one controlled and one free tool, window 3, warmup 3, budget 3 | a finding |
| `controller_retarget` | one controlled tool, configured with two targets | a finding |
| `registry` | 4 clients, 2 controllers, penalty time to live 2, clock to 2, no budget | eviction, penalties |
| `registry_retry` | one client | a finding |
| `verifier` | 2 tasks and `close`, 2 tokens (one expires), cache of 1, ttl 2, delay 1, clock to 3, one step of the wall clock | cache, revocation, client, lock, and the refinement |
| `verifier_liveness` | the same with a token of another resource, under fairness | termination, audience |
| `verifier_late_answer`, `verifier_burst` | 2 tasks, one token | two findings |
| `server` | 2 requests, window 2, 1 controller, a client with a token and a token that names none, a controlled and a recorded tool, budget 3, clock to 1 | what runs, what it costs, whom it counts for |
| `logging` | 2 requests, 8 bodies in one chunk or two, statuses 200 and 400, responses of up to 2 chunks | what is logged of which request |
| `helpers` | one argument of every kind that the functions tell apart | their contracts and how they agree |

Why they are enough. Four clients on two controllers leave two clients without one,
so that two penalties are in the store at once and expire at different times
while a third client is evicted, and every client can return before and after
its penalty has expired. A window of 2 fills and overflows, saturation is left
and entered again, and the time stamps include backward steps. Two tasks and
`close` give the lock a holder with two waiters. A clock to 3 lets an entry that
was made by the slowest answer live out its ttl after a revocation (1 + 2), and
the expiry of the second token falls inside the life of its entry; a cache of 1
evicts on the second token; a step of the wall clock may come between any two
of these. In `server` the one controller makes the two clients evict each
other, also between a request's verification and its tool. Sizes beyond
these are what the proofs are for. `MaxTime`, `MaxAhead`, `MaxOverdraft`, `MaxSize`, `MaxChunks`
bound the models only; `total` and saturation counters stop where the code stops
telling their values apart.

No model has a final state: deadlock is checked in every run. Symmetry is used over
clients, tasks and requests in runs that check no liveness.

Every property of a passing run has a mutant: a changed definition, kept beside
the original, under which the same run must fail.

## 4. Properties

Controller. `TypeOK`; `WindowCountsAgree` (incremental counts against the
deque); `SaturationReportedOnce`; `ConfiguredTargetSteers` and `FirstCallsAdjustNothing`
(findings); `RaisedOnlyByOvershoot` (friction rises only on a tool whose own
smoothed rate, or that of one of its groups, is over the target in force and
outside the dead zone); `ReliefIsKept`; `WaitingNeverHurts` (a later time stamp never
leaves more friction, for a call of any tool and any tool's friction, and one that
goes back no more than one that stands still):
it is stated without groups, because waiting shrinks the rates of the other
tools, and with them the share of the group's pressure that they bear: on a finer
scale TLC finds a later call that leaves more friction on the called tool;
`ColdToolSpared` (group pressure is attributed to the tools that make the rate: no
step but the restoring of a snapshot raises a tool without a rate, unless one of its
groups has no rate either and so spreads its pressure evenly);
`OtherCallsRecover` (liveness: calls of another tool bring friction back to zero).

Registry. `TypeOK`; `OrderMatchesLive`; `PenaltyOnlyForEvicted`;
`EvictionPrunes`; `ReconnectRestoresFriction` (what a returning client would
find, for every evicted client, in every state).

Verifier. `TypeOK`; `CacheBounded`; `NeverServedPastExpiry` (what the cache
serves is at most as late as the wall clock was set forward, the token's `exp`
having become a lifetime on the monotonic clock);
`RevocationTakesEffect` (a revoked token is accepted for at most one exchange
and, from the cache, less than `CacheTTL` longer);
`BoundToThisResource`; `OneOpenClient`; `ClientUsable`; `LockExcludes`;
`VerificationEnds`, `CloseEnds`; `KeepsPromise` (the refinement).

Server. `ServerTypeOK`; `WindowIsWhatRan` (a client's window holds the tools
that ran for it and no refused call); `BudgetPaysForRuns`; `NeverOverdrawn`
(the price is checked before the idle decay and charged after);
`IndependentClients` (who is refused as
blocked has run priced tools, or shares the client "unknown" with who has).

Middleware. `ErrorBodiesLogged`, `PreviewOfFirst`: each request is logged by
its own status and its own first chunk, whatever runs beside it.

Functions. `ClearTextStaysInside` and `SafetyMonotone` (URL rules: what plain HTTP
may reach; leave for localhost and the change to HTTPS make no safe URL unsafe);
`FailureIsReported` and `ListIsTheOneAskedFor` (validation);
`CredentialsPresent` (a verifier that could be constructed can authenticate, and
sends its secret once or not at all); `AdvertisedResourceAccepted` (the resource
published by the discovery is one the verifier accepts as an audience);
`DocumentsAgree`; `PreflightAnswered` (what is answered with CORS has its preflight
answered with CORS and an empty document; what is not shared takes none).

### Fairness

`FairSpec` assumes that a task which can be resumed is resumed (the event loop
runs every ready task), that an exchange ends (`Resume` includes the failure of
the exchange, which httpx's timeouts cause), and that opening and closing the
HTTP client return or raise. It does not assume that the server answers, that
anything succeeds, or that anyone calls anything. `close` waits for the lock
without a timeout, and ends because every holder gives it up.

`ReaderSpec` assumes weak fairness of calls of one free tool at the last time
stamp, so that no idle decay helps, written out with
`ReaderMoves` in place of ENABLED, which it is equivalent to and which TLC
evaluates far faster. It is a premise
of the property and not a fact of the code: a client that makes no further call
keeps its friction, since friction only changes when calls are recorded.

## 5. Findings

* `registry_retry`: idle decay is applied only when a call is recorded, and a
  refused call is not. A blocked client that waits and retries stays blocked,
  although the refusal advises to "wait before retrying" and the docs say
  friction decays during idle periods. Only another, recorded call releases it.
* `controller_retarget`: configuring a known tool again changes its reported
  target but not the effective target that steers it.
* `controller_warmup`: the call is counted before the warmup test, so of the first
  `warmup_calls` calls the last one is adjusted, and friction may rise on it. The
  docstring says "no adjustment during the first N calls" and the docs "No
  adjustment during first 20 calls"; the test of the warmup
  (`tests/friction/test_load.py:162`) describes 19 calls, as the code does.
* `verifier_late_answer`: an active answer that is processed after a later
  inactive one puts the token back into the cache. `RevocationTakesEffect` still
  holds: the delay is bounded, but the negative is not final.
* `verifier_burst`: requests with one token that overlap are not collapsed into
  one introspection; only those after the first response are.

Further observations are kept as hazards or here, without a run:

* `window_size = 0` and `max_clients = 0` are not rejected and fail on the first call.
* Tokens without `client_id` share one controller and its friction.
* A target rate below the dead zone keeps a tool's friction where it is, however
  long the client calls other tools; idle decay lowers the tools' smoothed rates
  and not the groups'.
* An evicted client comes back with its whole budget: the penalty store carries
  friction only.
* A `close` that raises leaves a closed client in place, on which every later
  verification fails.
* A `client_auth_method` outside the four is not rejected. Without a secret it
  becomes "none"; with a secret and no client id `_apply_client_auth` raises at use
  (`token_verifier.py:219`); with both, no credentials are sent.
* `is_safe_url` and its documentation differ over HTTPS. The docstring
  (`ssrf_protection.py:31`) says that any `https://` URL with a non-IP hostname is
  safe, and `docs/architecture.md:65` that HTTPS is always allowed; the code refuses
  `https://localhost` without leave, and every address but a loopback one with it. The docstring (lines 24-26) and the comment at line 69 claim that
  decimal and hexadecimal forms of addresses are handled, but `ip_address` takes
  no such text for an address: `https://2130706433/` is a name like any other and
  accepted, and so is `https://localhost./`. `UrlSafety` models what the code does.
* A path of slashes only becomes the empty path, which no route matches.
* A header that is not UTF-8 fails the request in the logging middleware.

## 6. Proofs

TLAPS checks these for every value of the constants allowed by the modules'
assumptions.

| Theorem | Says |
|---|---|
| `TokenVerifier_proofs!TypeCorrect` | `Spec => []TypeOK` |
| `TokenVerifier_proofs!RevocationBound` | `Spec => []RevocationTakesEffect` |
| `TokenVerifier_proofs!CacheStaysBounded` | `Spec => []CacheBounded` |
| `TokenVerifier_proofs!LockSafe` | `Spec => []LockExcludes` |
| `TokenVerifier_proofs!OneClient` | `Spec => []OneOpenClient` |
| `TokenVerifier_proofs!ClientStaysUsable` | `Spec => []ClientUsable` |
| `TokenVerifier_proofs!Refinement` | `Spec => KeepsPromise` |
| `TokenVerifier_proofs!AudienceBound` | `Spec => []BoundToThisResource` |
| `TokenVerifier_proofs!ExpiryRespected` | `Spec => []NeverServedPastExpiry` |
| `FrictionRegistry_proofs!OrderSafe` | `Spec => []OrderMatchesLive` |
| `FrictionRegistry_proofs!PenaltyOnce` | `Spec => []PenaltyOnlyForEvicted` |
| `FrictionRegistry_proofs!ReconnectRestores` | `Spec => []ReconnectRestoresFriction` |
| `FrictionRegistry_proofs!StorePruned` | `Spec => EvictionPrunes` |
| `FrictionRegistry_proofs!RegistryTyped` | `Spec => []TypeOK` |
| `FrictionRegistry_proofs!BudgetsHold` | `Spec => []NeverOverdrawn` |
| `FrictionController_proofs!ControllerTypes` | `Spec => []TypeOK` |
| `FrictionController_proofs!WindowCounts` | `Spec => []WindowCountsAgree` |
| `FrictionController_proofs!ReportedOnce` | `Spec => []SaturationReportedOnce` |
| `FrictionController_proofs!WaitingHelps` | `Spec => []WaitingNeverHurts` |
| `FrictionController_proofs!ReliefStays` | `Spec => ReliefIsKept` |
| `FrictionController_proofs!OvershootRaises` | `Spec => RaisedOnlyByOvershoot` |
| `FrictionController_proofs!ColdSparedAlways` | `Spec => ColdToolSpared` |
| `ResourceServer_proofs!ServerTyped` | `ServerSpec => []ServerTypeOK` |
| `ResourceServer_proofs!WindowsAreWhatRan` | `ServerSpec => []WindowIsWhatRan` |
| `ResourceServer_proofs!BudgetsPay` | `ServerSpec => []BudgetPaysForRuns` |
| `ResourceServer_proofs!ServerBudgetsHold` | `ServerSpec => []NeverOverdrawn` |
| `ResourceServer_proofs!ClientsIndependent` | `Separable` implies `ServerSpec => IndependentClients` |
| `VerboseLogging_proofs!OwnErrors` | `Spec => []ErrorBodiesLogged` |
| `VerboseLogging_proofs!OwnPreview` | `Spec => []PreviewOfFirst` |
| `Helpers_proofs!ClearText` | `Spec => []ClearTextStaysInside` |
| `Helpers_proofs!SafeStaysSafe` | `Spec => []SafetyMonotone` |
| `Helpers_proofs!FailuresReported` | `Spec => []FailureIsReported` |
| `Helpers_proofs!RightList` | `Spec => []ListIsTheOneAskedFor` |
| `Helpers_proofs!CredentialsFound` | `Spec => []CredentialsPresent` |
| `Helpers_proofs!ResourceAccepted` | `Spec => []AdvertisedResourceAccepted` |
| `Helpers_proofs!SameDocuments` | `Spec => []DocumentsAgree` |
| `Helpers_proofs!PreflightsAnswered` | `Spec => []PreflightAnswered` |

`FrictionControl_proofs` and `OrderedDict_proofs` hold the lemmas about the
algorithm and about the LRU order that the others share.

Assumptions. A module's constants are assumed to be what the code can be given.
Four assumptions go further. `ControllerAssumption` takes the weight of a group to
be no less than zero: it says how much friction overshoot adds
(`friction/models.py:48`), and with a negative one the order of the groups would
matter. `CostAssumption` and `DecayAssumption` are discussed
here and in section 2. `HelpersAssumption` takes the four documented
authentication methods (another one is accepted by the constructor, see section
5) and a client id that is not the secret, without which
"the secret is sent once" could not be told from the id being sent.

One theorem has a hypothesis of its own. `ClientsIndependent` is proved for the
deployments that are `Separable`, which is a condition on the constants that the
`server` run satisfies and TLC evaluates there. The code checks none of it, and
without any of the following a client may be refused for what it did not do. A token whose claim
reads "unknown" shares the controller of those that make no claim. A
tool with a block threshold of 0 is blocked from the start. A target below 0
(`friction/models.py:61` documents 0.0 to 1.0) raises friction without a rate, and so
does a group's. A group of a priced tool and a free or recorded one lets calls
that cost nothing make a rate whose pressure a priced tool without a rate may
bear.

Arguments.

*Types.* `TypeOK` is not inductive: a task's token must be known when its answer
is cached, and the count of open clients must be positive before one is closed.
`Supported` adds both.

*Revocation.* `RevocationTakesEffect` speaks of the last reply only. The
inductive part is `Timed`: an exchange is at most `MaxDelay` old; an active
answer was requested no later than the revocation; an entry's expiry is within
`CacheTTL` of now and, if its token is revoked, within `MaxDelay + CacheTTL` of
the revocation. The two accepting steps then bound the reply. `MaxDelay` enters
through the guard of `Tick` and is the assumption discussed above.

*Cache.* One entry per token means that removing a token's entry leaves none, so
that appending keeps entries distinct; this rests on `RemoveOneProperties` of
`OrderedDict_proofs`.

*Lock.* `LockExcludes` says nothing of the queue's order. `Ordered` adds that the
queue holds waiters, each once, never the holder, and nobody when there is no holder.
The proof has five lemmas, for what a user can do with the lock (release, enter,
enqueue, leave, be elsewhere), and each action is an instance of one. `Counted`
adds that the client is new while it is being opened and closed while it is being
closed, from which at most one is open. `ClientUsable` is inductive with the types.

*Refinement.* A step that accepts a token must be an acceptance of
`VerifierPromise`, which asks for an instant, at most `Lag` ago, at which the
token was active. `Timed` covers revocation; `Backed` adds expiry and audience:
an active answer was requested before the token's `exp`, and an entry is for a
token bound to this resource and does not outlast it. For a fresh acceptance the
instant is when the request was sent; for a cached one it is `CacheTTL +
MaxDelay` before the entry's expiry, or the start of time. Every other step
asks, refuses, lets time pass or changes nothing that the promise sees.
`PromiseAssumption` tells a task that asks from one that does not. `AudienceBound`
and `ExpiryRespected` follow from `Backed` as well.

*Registry.* `Lists` strengthens `OrderMatchesLive` with a duplicate-free order
and a finite domain, and `Apart` is `PenaltyOnlyForEvicted`; both are stated of
an intermediate registry state, kept by `Evict`, `Admit` and `MoveToEnd`, and so
by `_get_or_create`.

*Penalties.* What a returning client finds depends on the controllers, so
`Sound` says that a live controller has the registry's configuration and friction
in range on every configured tool; it is kept by the decay (`DecayAssumption`), by
every step of `_adjust_friction` (each clamps) and by restoring. `AccountsFor`
says that the store holds of each remembered eviction exactly the friction worth
keeping, or nothing if there is none or its time is over, and holds nothing else.
Capturing one client and pruning leave the accounts of the others; admitting a
client closes its own. `Booked` is the invariant, and `FindsAgain` at the
admission is `ReconnectRestoresFriction`.

*Budgets.* `check` prices a call at the friction left by the last call, and
`record_call` charges it after the idle decay. The decay only lowers friction, and
a price rises with friction, so the charge is at most the price that was
affordable. The second premise is `CostAssumption`: the documentation calls
`min_cost` a floor and `max_cost` a ceiling (`friction/models.py:62`), and the
code does not check their order.

*Controller.* `TypeOK` is not inductive: the EMA is in range only if the rate of
the window is, which rests on its counts. The invariant `IInv` has `Consistent`
(ranges, the counts of the window, and which attributes a configured tool has),
the equation of `SaturationReportedOnce`, and the absence of a group EMA without
a group. What one method does is stated once for every attribute that it may
change (`Differs`), and preserved stage by stage of `_adjust_friction`.
`WaitingNeverHurts` compares two calls that start from one controller: `Below`
says that of two controllers with equal windows and targets one has no more
friction and no more EMA on any tool; it is made by the decay, which is where
`DecayAssumption` enters, and kept by the EMA, by the correction, whose slope is
higher below the target than above it but never negative, and by the clamp.
`ReliefIsKept` is `Relieves`, that no target falls, from stage to stage.

*Groups.* A group's rate and the pressure on a tool are sums over sets, folded in
an order that is left open, and there is no induction over the set. The lemmas
take a smallest subset on which the sum is not what it should be and remove an
element from it; finite sets of groups and of their tools (`Grouped`) are all they need.
So a sum of nonnegative terms is nonnegative, a sum of zeros is zero, and a
group with a rate gives a tool without one the share zero. With that,
`ColdToolSpared` is one argument per stage: the idle decay only lowers; the
EMA of the tool being 0, its own error is no more than zero, and steering by such an error only lowers;
the push is zero. What it asks of the groups is asked after the step, where the
aggregate rate was computed. `RaisedOnlyByOvershoot` follows the same stages with
the target in place of zero: the correction of a tool within its target, or inside
the dead zone, lowers or keeps its friction, relief leaves friction alone, and the
push is a sum over groups that are all zero unless one is over its target.

*Server.* A request's step is a step of the registry or leaves it alone, so
`ServerInv` starts from the registry's own invariants. It adds for each request what
it has in hand (`CallsOK`) and for each controller that its ledger, the history variable of what
ran, agrees with its window and its budget (`LedgersMatch`). The two sides of
the ledger are kept by different actions, and eviction drops both.

*Clients apart.* `IndependentClients` needs an invariant over everyone who was not
refused. `Parted` says that a client whose claim has spent nothing either has no
controller or has one that is `Fresh`: no priced tool in its window, no rate on
one, no friction on the tools to which only calls of priced tools give any
(`Spared`), no rate of a group of such tools; and that nothing is stored for it but
zeros on those tools. A call of a tool that is not priced leaves a fresh
controller fresh (`CallUnmoved`: idle decay of nothing, EMAs of zero rates, no
pressure without a rate). Creating a controller makes it fresh, capturing a fresh
one stores nothing of those tools, restoring zeros keeps it fresh; a call of another client
touches the caller's controller, and by eviction one more, which is captured as it
was. A claim joins `spenders` with its first priced run, the step
that may end its freshness. A refusal as blocked needs friction of at least the
threshold on a controlled tool, which a fresh controller does not have.

*Logging.* The invariant `IInv` says of each request what its log and its two
closure variables hold, in terms of that request's messages and nothing else;
a step of another request leaves all of it alone. The k-th logged body is placed by
the number of nonempty ones up to it.

*Functions.* A call's record is what its function yields (`CallOK`); each
theorem is then about the functions alone, for every argument, and needs no set of
URLs, setups or deployments.

Only model-checked:

* Liveness (`VerificationEnds`, `CloseEnds`, `OtherCallsRecover`), which is out of
  the prover's reach.
* The findings, which are counterexamples.

## 7. Not modelled

Event logging (`friction/logging.py`), package exports and release tooling keep
no state and decide nothing. In the modelled components: read-only status
(`get_status`, `get_client_status`), total cost of the window, the wording of
messages, the lines that log the request line and headers with their masking of
secrets (text to text), the parsing of scopes, and the constant fields of the
discovery documents. What `urlparse`, `ip_address`, the MCP SDK, httpx,
Starlette and the authorization server do is external and modelled from its use.
`ResourceServer` does not repeat the verifier's inside: it uses its promise.
Liveness of the refinement is not claimed: `VerifierPromise` is a safety
specification, and `VerificationEnds` stands beside it.

## 8. Plan

Every invariant and action property that a passing run checks is now a theorem as
well; liveness stays with TLC. What could still be proved: `WaitingNeverHurts` for
tools that are in no group of a controller that has groups, and
`IndependentClients` from a weaker hypothesis than `Separable` where groups mix
priced and other tools.
