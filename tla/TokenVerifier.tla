--------------------------- MODULE TokenVerifier ---------------------------
(***************************************************************************)
(* IntrospectionTokenVerifier (auth/token_verifier.py): concurrent         *)
(* verifications of bearer tokens against an authorization server, the     *)
(* cache of successful introspections, and the pooled HTTP client that is  *)
(* opened on first use and closed at shutdown.                             *)
(*                                                                         *)
(* Atomicity.  A coroutine runs undisturbed from one suspension to the     *)
(* next.  The cache lock is never held across one, so each cache operation *)
(* belongs to the step it occurs in.  verify_token suspends waiting for    *)
(* the client lock ("lock"), opening the client ("open") and waiting for   *)
(* the response ("posted", and "answered" once the server has decided).    *)
(* close suspends for the lock and while the client closes ("closing").    *)
(* asyncio.Lock serves its waiters in order and lets nobody overtake them. *)
(*                                                                         *)
(* Environment.  The authorization server, the network and httpx are not   *)
(* part of the repository.  A token is active until it expires or is       *)
(* revoked, for good; an exchange ends, with a response or an error,       *)
(* within MaxDelay of its request.  A task may be cancelled whenever it is *)
(* suspended.  now is time.monotonic() and the true time; time.time() is   *)
(* now + ahead, where ahead changes when the wall clock is set.            *)
(***************************************************************************)
EXTENDS FiniteSets, OrderedDict

CONSTANTS
  Tasks, Tokens,
  Closer,           \* the task that calls close()
  None,             \* Python's None
  CacheTTL,         \* introspection_cache_ttl; 0 switches the cache off
  CacheMaxSize,     \* introspection_cache_max_size
  ValidateResource, \* validate_resource
  Matching,         \* audiences that check_resource_allowed accepts
  Audience,         \* [Tokens -> the set of audiences in its aud claim]
  Exp,              \* [Tokens -> its exp claim, or None]
  MaxDelay,         \* longest exchange with the authorization server
  MaxTime,          \* bound on the clock
  MaxAhead          \* bound on the steps of the wall clock

ASSUME VerifierAssumption ==
  /\ CacheTTL \in Nat /\ CacheMaxSize \in Nat \ {0}
  /\ ValidateResource \in BOOLEAN
  /\ Exp \in [Tokens -> Nat \cup {None}]
  /\ MaxDelay \in Nat /\ MaxTime \in Nat /\ MaxAhead \in Nat
  /\ Closer \notin Tasks /\ None \notin Tasks \cup {Closer}
  /\ None \notin Int /\ None \notin {"active", "accepted", "cache"}

VARIABLES
  safe,       \* _introspection_endpoint_is_safe, settled by __init__
  tasks,      \* [Tasks -> [pc, token, answer, sent]]
  closer,     \* where close() is: "idle", "lock" or "closing"
  cache,      \* _cache: <<[token, expiry], ...>>, least recently used first
  lock,       \* _client_lock: [holder, queue]
  client,     \* [ready: _client is set, context: state of _client_context]
  opened,     \* how many HTTP clients are open
  now, ahead,
  revokedAt,  \* [Tokens -> when the server revoked it, or None]
  reply,      \* the verification that ended in the last step
  denied,     \* history: tokens seen inactive in a response
  closeFailed \* history: the last close() raised

env == <<safe, now, ahead, revokedAt>>
http == <<closer, lock, client, opened, closeFailed>>
vars == <<tasks, cache, reply, denied, http, env>>

Idle == [pc |-> "idle", token |-> None, answer |-> None, sent |-> 0]
NoReply == [token |-> None, verdict |-> None, via |-> None]

Wall == now + ahead

Init ==
  /\ safe \in BOOLEAN
  /\ tasks = [k \in Tasks |-> Idle]
  /\ closer = "idle"
  /\ cache = <<>>
  /\ lock = [holder |-> None, queue |-> <<>>]
  /\ client = [ready |-> FALSE, context |-> "none"]
  /\ opened = 0
  /\ now = 0 /\ ahead = 0
  /\ revokedAt = [t \in Tokens |-> None]
  /\ reply = NoReply
  /\ denied = {} /\ closeFailed = FALSE

----------------------------------------------------------------------------
(* The introspection cache. *)

Entries == ToSet(cache)

Cached == {e.token : e \in Entries}

EntryOf(token) == CHOOSE e \in Entries : e.token = token

Uncached(token) ==
  RemoveOne(cache, {i \in DOMAIN cache : cache[i].token = token})

\* Mutant: an entry is still good at the instant it expires.
FreshTooLong(token) == token \in Cached /\ now <= EntryOf(token).expiry

Fresh(token) == token \in Cached /\ now < EntryOf(token).expiry

\* Mutant: the token's own expiry does not cap the lifetime.
LifetimeUncapped(token) == CacheTTL

Lifetime(token) ==
  IF Exp[token] = None \/ CacheTTL <= Exp[token] - Wall THEN CacheTTL
  ELSE Exp[token] - Wall

\* Mutant: nothing is evicted.
CachePutUnbounded(token) ==
  cache' = IF CacheTTL = 0 \/ Lifetime(token) <= 0 THEN cache
           ELSE Append(Uncached(token),
                       [token |-> token, expiry |-> now + Lifetime(token)])

\* _cache_put; at most one entry can be in excess.
CachePut(token) ==
  LET put == Append(Uncached(token),
                    [token |-> token, expiry |-> now + Lifetime(token)])
  IN  cache' = IF CacheTTL = 0 \/ Lifetime(token) <= 0 THEN cache
               ELSE IF Len(put) > CacheMaxSize THEN Tail(put) ELSE put

----------------------------------------------------------------------------
(* Ends of a verification. *)

Goto(k, pc, token) == tasks' = [tasks EXCEPT ![k].pc = pc, ![k].token = token]

End(k, token, verdict, via) ==
  /\ tasks' = [tasks EXCEPT ![k] = Idle]
  /\ reply' = [token |-> token, verdict |-> verdict, via |-> via]

----------------------------------------------------------------------------
(* The client lock and the pooled client. *)

LockFree == lock.holder = None /\ lock.queue = <<>>

Released ==
  IF lock.queue = <<>> THEN [holder |-> None, queue |-> <<>>]
  ELSE [holder |-> Head(lock.queue), queue |-> Tail(lock.queue)]

Enqueued(a) == [lock EXCEPT !.queue = Append(@, a)]

\* client.post: httpx refuses to use a client that has been closed.
Post(k, token) ==
  IF client'.context = "open"
    THEN /\ tasks' = [tasks EXCEPT ![k] =
              [pc |-> "posted", token |-> token, answer |-> None, sent |-> now]]
         /\ reply' = NoReply
    ELSE End(k, token, "refused", "error")

\* Mutant: the client is opened with the lock already released.
UseOrOpenUnlocked(k, token) ==
  /\ lock' = IF lock.holder = k THEN Released ELSE lock
  /\ IF client.ready
       THEN UNCHANGED client /\ Post(k, token)
       ELSE /\ client' = [client EXCEPT !.context = "new"]
            /\ Goto(k, "open", token)
            /\ reply' = NoReply

\* _get_client with the lock held: use the client there is, or open one.
UseOrOpen(k, token) ==
  IF client.ready
    THEN /\ lock' = IF lock.holder = k THEN Released ELSE lock
         /\ UNCHANGED client
         /\ Post(k, token)
    ELSE /\ lock' = [lock EXCEPT !.holder = k]
         /\ client' = [client EXCEPT !.context = "new"]
         /\ Goto(k, "open", token)
         /\ reply' = NoReply

----------------------------------------------------------------------------
(* verify_token. *)

RejectUnsafe(k, token) ==
  /\ tasks[k].pc = "idle" /\ ~safe
  /\ End(k, token, "refused", "error")
  /\ UNCHANGED <<cache, denied, http, env>>

ServeFromCache(k, token) ==
  /\ tasks[k].pc = "idle" /\ safe
  /\ Fresh(token)
  /\ End(k, token, "accepted", "cache")
  /\ cache' = Append(Uncached(token), EntryOf(token))
  /\ UNCHANGED <<denied, http, env>>

\* An expired entry is deleted by the look-up that finds it.
Miss(k, token) ==
  /\ tasks[k].pc = "idle" /\ safe
  /\ ~Fresh(token)
  /\ cache' = Uncached(token)
  /\ IF LockFree THEN UseOrOpen(k, token)
     ELSE /\ lock' = Enqueued(k)
          /\ Goto(k, "lock", token)
          /\ reply' = NoReply
          /\ UNCHANGED client
  /\ UNCHANGED <<closer, opened, closeFailed, denied, env>>

TakeLock(k) ==
  /\ tasks[k].pc = "lock" /\ lock.holder = k
  /\ UseOrOpen(k, tasks[k].token)
  /\ UNCHANGED <<cache, closer, opened, closeFailed, denied, env>>

FinishOpen(k) ==
  /\ tasks[k].pc = "open"
  /\ client' = [ready |-> TRUE, context |-> "open"]
  /\ opened' = opened + 1
  /\ lock' = Released
  /\ Post(k, tasks[k].token)
  /\ UNCHANGED <<cache, closer, closeFailed, denied, env>>

\* Mutant: a failed opening keeps the lock.
FailOpenLocked(k) ==
  /\ tasks[k].pc = "open"
  /\ End(k, tasks[k].token, "refused", "error")
  /\ UNCHANGED <<lock, cache, client, opened, closer, closeFailed, denied, env>>

\* __aenter__ raises: _client_context stays behind, _client is not set.
FailOpen(k) ==
  /\ tasks[k].pc = "open"
  /\ End(k, tasks[k].token, "refused", "error")
  /\ lock' = Released
  /\ UNCHANGED <<cache, client, opened, closer, closeFailed, denied, env>>

Exchanging(k) == tasks[k].pc \in {"posted", "answered"}

\* A transport error, a timeout, or a status other than 200.
FailExchange(k) ==
  /\ Exchanging(k)
  /\ End(k, tasks[k].token, "refused", "error")
  /\ UNCHANGED <<cache, denied, http, env>>

ReceiveInactive(k) ==
  LET token == tasks[k].token IN
  /\ tasks[k].pc = "answered" /\ tasks[k].answer = "inactive"
  /\ cache' = IF CacheTTL > 0 THEN Uncached(token) ELSE cache
  /\ denied' = denied \cup {token}
  /\ End(k, token, "refused", "fresh")
  /\ UNCHANGED <<http, env>>

\* _validate_resource: one of the audiences covers this server.
ResourceValid(token) == Audience[token] \cap Matching # {}

ReceiveForeign(k) ==
  LET token == tasks[k].token IN
  /\ tasks[k].pc = "answered" /\ tasks[k].answer = "active"
  /\ ValidateResource /\ ~ResourceValid(token)
  /\ End(k, token, "refused", "fresh")
  /\ UNCHANGED <<cache, denied, http, env>>

\* Mutant: an active token is accepted whatever its audience.
ReceiveActiveUnbound(k) ==
  /\ tasks[k].pc = "answered" /\ tasks[k].answer = "active"
  /\ CachePut(tasks[k].token)
  /\ End(k, tasks[k].token, "accepted", "fresh")
  /\ UNCHANGED <<denied, http, env>>

ReceiveActive(k) ==
  LET token == tasks[k].token IN
  /\ tasks[k].pc = "answered" /\ tasks[k].answer = "active"
  /\ ValidateResource => ResourceValid(token)
  /\ CachePut(token)
  /\ End(k, token, "accepted", "fresh")
  /\ UNCHANGED <<denied, http, env>>

\* Mutant: a cancelled waiter stays in the queue.
CancelInQueue(k) ==
  /\ tasks[k].pc # "idle"
  /\ lock' = IF lock.holder = k THEN Released ELSE lock
  /\ tasks' = [tasks EXCEPT ![k] = Idle]
  /\ reply' = NoReply
  /\ UNCHANGED <<cache, closer, client, opened, closeFailed, denied, env>>

\* CancelledError in a suspended verification: not caught by "except
\* Exception", while "async with" releases the lock or leaves its queue.
Cancel(k) ==
  /\ tasks[k].pc # "idle"
  /\ lock' = IF lock.holder = k THEN Released
             ELSE [lock EXCEPT !.queue =
                     RemoveOne(@, {i \in DOMAIN @ : @[i] = k})]
  /\ tasks' = [tasks EXCEPT ![k] = Idle]
  /\ reply' = NoReply
  /\ UNCHANGED <<cache, closer, client, opened, closeFailed, denied, env>>

----------------------------------------------------------------------------
(* close. *)

\* close with the lock held: nothing to do, or start __aexit__, which makes
\* the client unusable from here on.
CloseClient ==
  IF client.context = "none"
    THEN /\ closer' = "idle"
         /\ lock' = IF lock.holder = Closer THEN Released ELSE lock
         /\ UNCHANGED <<client, opened>>
    ELSE /\ closer' = "closing"
         /\ lock' = [lock EXCEPT !.holder = Closer]
         /\ client' = [client EXCEPT !.context = "closed"]
         /\ opened' = IF client.context = "open" THEN opened - 1 ELSE opened

Close ==
  /\ closer = "idle"
  /\ IF LockFree THEN CloseClient
     ELSE /\ closer' = "lock"
          /\ lock' = Enqueued(Closer)
          /\ UNCHANGED <<client, opened>>
  /\ reply' = NoReply
  /\ UNCHANGED <<tasks, cache, denied, closeFailed, env>>

TakeLockToClose ==
  /\ closer = "lock" /\ lock.holder = Closer
  /\ CloseClient
  /\ reply' = NoReply
  /\ UNCHANGED <<tasks, cache, denied, closeFailed, env>>

\* Mutant: _client is not reset.
FinishCloseKeepClient ==
  /\ closer = "closing"
  /\ closer' = "idle"
  /\ client' = [client EXCEPT !.context = "none"]
  /\ lock' = Released
  /\ closeFailed' = FALSE
  /\ reply' = NoReply
  /\ UNCHANGED <<tasks, cache, opened, denied, env>>

\* Mutant: the client is forgotten only when the next verification opens one.
FinishCloseKeepBoth ==
  /\ closer = "closing"
  /\ closer' = "idle"
  /\ lock' = Released
  /\ closeFailed' = FALSE
  /\ reply' = NoReply
  /\ UNCHANGED <<tasks, cache, client, opened, denied, env>>

FinishClose ==
  /\ closer = "closing"
  /\ closer' = "idle"
  /\ client' = [ready |-> FALSE, context |-> "none"]
  /\ lock' = Released
  /\ closeFailed' = FALSE
  /\ reply' = NoReply
  /\ UNCHANGED <<tasks, cache, opened, denied, env>>

\* Mutant: a close that raises keeps the lock.
FailCloseLocked ==
  /\ closer = "closing"
  /\ closer' = "idle"
  /\ closeFailed' = TRUE
  /\ reply' = NoReply
  /\ UNCHANGED <<tasks, cache, client, lock, opened, denied, env>>

\* __aexit__ raises, or close is cancelled while it waits for it.
FailClose ==
  /\ closer = "closing"
  /\ closer' = "idle"
  /\ lock' = Released
  /\ closeFailed' = TRUE
  /\ reply' = NoReply
  /\ UNCHANGED <<tasks, cache, client, opened, denied, env>>

----------------------------------------------------------------------------
(* The environment. *)

Active(token) ==
  revokedAt[token] = None /\ (Exp[token] = None \/ now < Exp[token])

\* The authorization server decides.
Answer(k) ==
  /\ tasks[k].pc = "posted"
  /\ tasks' = [tasks EXCEPT ![k].pc = "answered",
                            ![k].answer = IF Active(tasks[k].token)
                                          THEN "active" ELSE "inactive"]
  /\ reply' = NoReply
  /\ UNCHANGED <<cache, denied, http, env>>

Revoke(token) ==
  /\ revokedAt[token] = None
  /\ revokedAt' = [revokedAt EXCEPT ![token] = now]
  /\ reply' = NoReply
  /\ UNCHANGED <<tasks, cache, denied, http, safe, now, ahead>>

\* No exchange outlasts MaxDelay.
Tick ==
  /\ now < MaxTime
  /\ \A k \in Tasks : Exchanging(k) => now < tasks[k].sent + MaxDelay
  /\ now' = now + 1
  /\ reply' = NoReply
  /\ UNCHANGED <<tasks, cache, denied, http, safe, ahead, revokedAt>>

\* The wall clock is set forward.
SetWallClock ==
  /\ ahead < MaxAhead
  /\ ahead' = ahead + 1
  /\ reply' = NoReply
  /\ UNCHANGED <<tasks, cache, denied, http, safe, now, revokedAt>>

----------------------------------------------------------------------------
Verify(k) ==
  \/ \E token \in Tokens :
       RejectUnsafe(k, token) \/ ServeFromCache(k, token) \/ Miss(k, token)
  \/ TakeLock(k) \/ FinishOpen(k) \/ FailOpen(k)
  \/ FailExchange(k) \/ ReceiveInactive(k) \/ ReceiveForeign(k)
  \/ ReceiveActive(k) \/ Cancel(k) \/ Answer(k)

Shutdown == Close \/ TakeLockToClose \/ FinishClose \/ FailClose

Next ==
  \/ \E k \in Tasks : Verify(k)
  \/ Shutdown
  \/ \E token \in Tokens : Revoke(token)
  \/ Tick \/ SetWallClock

Spec == Init /\ [][Next]_vars

\* The event loop resumes a task whose lock is handed over or whose client
\* has opened or closed, and every exchange ends (httpx times out).
Resume(k) ==
  TakeLock(k) \/ FinishOpen(k) \/ FailOpen(k)
  \/ FailExchange(k) \/ ReceiveInactive(k) \/ ReceiveForeign(k)
  \/ ReceiveActive(k)

FairSpec ==
  /\ Spec
  /\ \A k \in Tasks : WF_vars(Resume(k))
  /\ WF_vars(TakeLockToClose) /\ WF_vars(FinishClose \/ FailClose)
----------------------------------------------------------------------------
PCs == {"idle", "lock", "open", "posted", "answered"}

Times == 0..MaxTime

TaskState == [pc : PCs, token : Tokens \cup {None},
              answer : {"active", "inactive", None}, sent : Times]

Entry == [token : Tokens, expiry : 0..(MaxTime + CacheTTL)]

LockState == [holder : Tasks \cup {Closer, None},
              queue : Seq(Tasks \cup {Closer})]

ClientState == [ready : {FALSE}, context : {"none", "new", "closed"}]
               \cup [ready : {TRUE}, context : {"open", "closed"}]

Reply == [token : Tokens \cup {None}, verdict : {"accepted", "refused", None},
          via : {"cache", "fresh", "error", None}]

\* Every variable keeps its type.
TypeOK ==
  /\ safe \in BOOLEAN
  /\ tasks \in [Tasks -> TaskState]
  /\ closer \in {"idle", "lock", "closing"}
  /\ cache \in Seq(Entry)
  /\ lock \in LockState
  /\ client \in ClientState
  /\ opened \in Nat
  /\ now \in Times /\ ahead \in 0..MaxAhead
  /\ revokedAt \in [Tokens -> Times \cup {None}]
  /\ reply \in Reply
  /\ denied \subseteq Tokens /\ closeFailed \in BOOLEAN

\* The cache holds at most one entry per token and never more entries than
\* introspection_cache_max_size, in whatever order verifications fill it.
CacheBounded ==
  /\ Len(cache) <= CacheMaxSize
  /\ Distinct([i \in DOMAIN cache |-> cache[i].token])

\* "A cached token is never served past its own expiry": an entry's lifetime is
\* taken from the wall clock and lived on the monotonic one, so the token may
\* be served late by as much as the wall clock was set forward, and no more.
NeverServedPastExpiry ==
  reply.via = "cache" /\ Exp[reply.token] # None =>
    Wall < Exp[reply.token] + ahead

\* "A revoked token may still be accepted until its cache entry expires",
\* and no longer: the delay is the time to live and one exchange.
RevocationTakesEffect ==
  reply.verdict = "accepted" /\ revokedAt[reply.token] # None =>
    now <= revokedAt[reply.token] + MaxDelay
             + (IF reply.via = "cache" THEN CacheTTL - 1 ELSE 0)

\* Audience binding (RFC 8707) holds for what the cache serves as well: no
\* token issued for another resource is accepted.
BoundToThisResource ==
  ValidateResource /\ reply.verdict = "accepted" => ResourceValid(reply.token)

\* A definitive "active: false" drops the token from the cache, and it stays
\* out of it: an authoritative negative is reflected immediately.
NegativeIsFinal == denied \cap Cached = {}

\* Concurrent first verifications share one HTTP client, and no later one
\* opens a second while the first is open.
OneOpenClient == opened <= 1

\* The client verifications use is open, unless close is at work on it or
\* the last close raised.
ClientUsable ==
  client.ready =>
    client.context = "open" \/ closer = "closing" \/ closeFailed

\* The client lock: who opens or closes the client holds it, so that no two
\* tasks do; who holds it is using it or about to; a waiter is not forgotten.
LockExcludes ==
  /\ \A k \in Tasks :
       /\ tasks[k].pc = "open" => lock.holder = k
       /\ lock.holder = k => tasks[k].pc \in {"lock", "open"}
       /\ tasks[k].pc = "lock" => lock.holder = k \/ k \in ToSet(lock.queue)
  /\ closer = "closing" => lock.holder = Closer
  /\ lock.holder = Closer => closer \in {"lock", "closing"}
  /\ closer = "lock" => lock.holder = Closer \/ Closer \in ToSet(lock.queue)

\* A burst of requests bearing the same token results in one introspection
\* rather than one per request.
OneIntrospectionPerBurst ==
  CacheTTL > 0 =>
    \A j, k \in Tasks :
      Exchanging(j) /\ Exchanging(k) /\ tasks[j].token = tasks[k].token => j = k

\* Every verification ends, whoever else holds the lock, opens or closes.
VerificationEnds ==
  \A k \in Tasks : tasks[k].pc # "idle" ~> tasks[k].pc = "idle"

\* So does close.
CloseEnds == closer # "idle" ~> closer = "idle"
============================================================================
