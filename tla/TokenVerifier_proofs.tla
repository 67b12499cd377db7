------------------------ MODULE TokenVerifier_proofs ------------------------
(* Proofs about TokenVerifier, for every number of tasks and tokens, every *)
(* time to live, cache size, expiry and audience, and every delay.         *)
(*                                                                         *)
(* Typed says what every step keeps of the types; Timed relates requests,  *)
(* answers and cache entries to the clock and to revocations.  Their       *)
(* conjunction is inductive, and the delay of a revocation follows from it *)
(* and from the step that accepts the token.  The bound of the cache       *)
(* needs Typed only.  Ordered and Counted, on the lock and the client that *)
(* it guards, follow, and last the refinement of VerifierPromise.          *)
EXTENDS VerifierRefinement, OrderedDict_proofs

\* What the types alone do not say: a verification under way has a token,
\* and a client that is open has been counted.
Supported ==
  /\ \A k \in Tasks : tasks[k].pc # "idle" => tasks[k].token \in Tokens
  /\ client.context = "open" => opened > 0

Typed == TypeOK /\ Supported

\* An exchange under way is not older than MaxDelay; an active answer was
\* requested before the token was revoked; an entry has at most CacheTTL to
\* live, and that of a revoked token not more than one exchange longer than
\* CacheTTL from the revocation.
Timed ==
  /\ \A k \in Tasks : Exchanging(k) =>
       tasks[k].sent <= now /\ now <= tasks[k].sent + MaxDelay
  /\ \A k \in Tasks :
       /\ tasks[k].pc = "answered" /\ tasks[k].answer = "active"
       /\ revokedAt[tasks[k].token] # None
       => tasks[k].sent <= revokedAt[tasks[k].token]
  /\ \A t \in Tokens : revokedAt[t] # None => revokedAt[t] <= now
  /\ \A e \in Entries :
       /\ e.expiry <= now + CacheTTL
       /\ revokedAt[e.token] # None =>
            e.expiry <= revokedAt[e.token] + MaxDelay + CacheTTL

----------------------------------------------------------------------------
(* The cache. *)

\* The elements of a sequence over a set are members of it.
LEMMA ToSetIn ==
  ASSUME NEW T, NEW s \in Seq(T)
  PROVE  ToSet(s) \subseteq T
BY ElementOfSeq, LenProperties DEF ToSet

\* A look-up finds an entry of the token.
LEMMA EntryFound ==
  ASSUME NEW token, token \in Cached
  PROVE  EntryOf(token) \in Entries /\ EntryOf(token).token = token
<1>1. \E e \in Entries : e.token = token
  BY DEF Cached
<1> QED BY <1>1 DEF EntryOf

\* Dropping a token's entry adds none, and makes room if there was one.
LEMMA UncachedKeeps ==
  ASSUME cache \in Seq(Entry), NEW token
  PROVE  /\ Uncached(token) \in Seq(Entry)
         /\ ToSet(Uncached(token)) \subseteq Entries
         /\ Len(Uncached(token)) \in Nat
         /\ Len(Uncached(token)) <= Len(cache)
         /\ token \in Cached => Len(Uncached(token)) < Len(cache)
<1> DEFINE S == {i \in DOMAIN cache : cache[i].token = token}
<1>1. Len(cache) \in Nat /\ DOMAIN cache = 1..Len(cache)
  BY LenProperties
<1>2. S \in SUBSET (1..Len(cache))
  BY <1>1
<1>3. Uncached(token) = RemoveOne(cache, S)
  BY DEF Uncached
<1>4. ASSUME token \in Cached PROVE S # {}
  BY <1>1, <1>4 DEF Cached, Entries, ToSet
<1> HIDE DEF S
<1>5. /\ RemoveOne(cache, S) \in Seq(Entry)
      /\ Len(RemoveOne(cache, S)) = IF S = {} THEN Len(cache) ELSE Len(cache) - 1
      /\ ToSet(RemoveOne(cache, S)) \subseteq ToSet(cache)
  BY <1>2, RemoveOneProperties
<1>6. Len(RemoveOne(cache, S)) \in Nat
  BY <1>5, LenProperties
<1> DEFINE m == Len(RemoveOne(cache, S))
           n == Len(cache)
<1>7. m \in Nat /\ n \in Nat /\ m = IF S = {} THEN n ELSE n - 1
  BY <1>1, <1>5, <1>6
<1> HIDE DEF m, n
<1>8. m <= n /\ (token \in Cached => m < n)
  BY <1>4, <1>7
<1> QED BY <1>3, <1>5, <1>6, <1>8 DEF Entries, m, n

\* The lifetime of an entry is at most the time to live.
LEMMA LifetimeBounded ==
  ASSUME NEW token \in Tokens, now \in Nat, ahead \in Nat
  PROVE  Lifetime(token) \in Int /\ Lifetime(token) <= CacheTTL
BY VerifierAssumption DEF Lifetime, Wall

\* What _cache_put leaves: the entries there were and the new one.
LEMMA CachePutKeeps ==
  ASSUME NEW token \in Tokens, cache \in Seq(Entry),
         now \in Times, ahead \in Nat, CachePut(token)
  PROVE  /\ cache' \in Seq(Entry)
         /\ \A e \in ToSet(cache') :
              \/ e \in Entries
              \/ e.token = token /\ e.expiry <= now + CacheTTL
<1> DEFINE e0 == [token |-> token, expiry |-> now + Lifetime(token)]
           u == Uncached(token)
           put == Append(u, e0)
<1>1. CASE CacheTTL = 0 \/ Lifetime(token) <= 0
  BY <1>1 DEF CachePut, Entries
<1>2. CASE ~(CacheTTL = 0 \/ Lifetime(token) <= 0)
  <2>1. now \in Nat /\ now <= MaxTime /\ MaxTime \in Nat /\ CacheTTL \in Nat
    BY VerifierAssumption DEF Times
  <2>2. Lifetime(token) \in Int /\ Lifetime(token) <= CacheTTL
    BY <2>1, LifetimeBounded
  <2>3. e0 \in Entry /\ e0.token = token /\ e0.expiry <= now + CacheTTL
    BY <2>1, <2>2, <1>2 DEF Entry
  <2>4. u \in Seq(Entry) /\ ToSet(u) \subseteq Entries
    BY UncachedKeeps
  <2>5. cache' = IF Len(put) > CacheMaxSize THEN Tail(put) ELSE put
    BY <1>2 DEF CachePut
  <2> HIDE DEF e0, u
  <2>6. put \in Seq(Entry) /\ ToSet(put) = ToSet(u) \cup {e0}
        /\ Len(put) = Len(u) + 1 /\ Len(u) \in Nat
    BY <2>3, <2>4, AppendKey, LenProperties
  <2>7. put # <<>>
    BY <2>6, EmptySeq
  <2> HIDE DEF put
  <2>8. Tail(put) \in Seq(Entry) /\ ToSet(Tail(put)) \subseteq ToSet(put)
    BY <2>6, <2>7, DropFirst
  <2> QED BY <2>3, <2>4, <2>5, <2>6, <2>8
<1> QED BY <1>1, <1>2

----------------------------------------------------------------------------
(* What the operators that several actions share do to the types. *)

\* The answer of a verification that ends is well typed.
LEMMA EndTyped ==
  ASSUME Typed, NEW k \in Tasks, NEW token \in Tokens,
         NEW verdict \in {"accepted", "refused"},
         NEW via \in {"cache", "fresh", "error"},
         End(k, token, verdict, via)
  PROVE  /\ tasks' \in [Tasks -> TaskState]
         /\ reply' \in Reply
         /\ \A j \in Tasks : tasks'[j].pc # "idle" => tasks'[j].token \in Tokens
<1>1. Idle \in TaskState
  BY VerifierAssumption DEF Idle, TaskState, PCs, Times
<1>2. tasks' = [tasks EXCEPT ![k] = Idle]
  BY DEF End
<1>3. tasks' \in [Tasks -> TaskState]
  BY <1>1, <1>2 DEF Typed, TypeOK
<1>4. reply' \in Reply
  BY DEF End, Reply
<1>5. \A j \in Tasks : tasks'[j].pc # "idle" => tasks'[j].token \in Tokens
  BY <1>2 DEF Typed, TypeOK, Supported, Idle
<1> QED BY <1>3, <1>4, <1>5

\* A released lock passes to the first of its waiters.
LEMMA ReleasedTyped ==
  ASSUME lock \in LockState
  PROVE  Released \in LockState
<1> DEFINE T == Tasks \cup {Closer}
<1>1. lock.queue \in Seq(T)
  BY DEF LockState
<1>2. CASE lock.queue = <<>>
  BY <1>2, <1>1, EmptySeq DEF Released, LockState
<1>3. CASE lock.queue # <<>>
  <2>1. Head(lock.queue) \in T /\ Tail(lock.queue) \in Seq(T)
    BY <1>1, <1>3, HeadTailProperties
  <2> QED BY <2>1, <1>3 DEF Released, LockState
<1> QED BY <1>2, <1>3

\* A task joins the queue of the lock.
LEMMA EnqueuedTyped ==
  ASSUME lock \in LockState, NEW a \in Tasks \cup {Closer}
  PROVE  Enqueued(a) \in LockState
<1>1. lock.queue \in Seq(Tasks \cup {Closer})
  BY DEF LockState
<1>2. Append(lock.queue, a) \in Seq(Tasks \cup {Closer})
  BY <1>1, AppendKey
<1> QED BY <1>2 DEF Enqueued, LockState

\* Sending the request, or failing to.
LEMMA PostTyped ==
  ASSUME Typed, NEW k \in Tasks, NEW token \in Tokens, Post(k, token)
  PROVE  /\ tasks' \in [Tasks -> TaskState]
         /\ reply' \in Reply
         /\ \A j \in Tasks : tasks'[j].pc # "idle" => tasks'[j].token \in Tokens
<1>1. CASE client'.context = "open"
  <2> DEFINE t0 == [pc |-> "posted", token |-> token, answer |-> None,
                    sent |-> now]
  <2>1. t0 \in TaskState
    BY DEF Typed, TypeOK, TaskState, PCs
  <2>2. tasks' = [tasks EXCEPT ![k] = t0] /\ reply' = NoReply
    BY <1>1 DEF Post
  <2>3. t0.token \in Tokens
    OBVIOUS
  <2> HIDE DEF t0
  <2>4. tasks' \in [Tasks -> TaskState]
    BY <2>1, <2>2 DEF Typed, TypeOK
  <2>5. \A j \in Tasks : tasks'[j].pc # "idle" => tasks'[j].token \in Tokens
    BY <2>2, <2>3 DEF Typed, TypeOK, Supported
  <2>6. reply' \in Reply
    BY <2>2 DEF NoReply, Reply
  <2> QED BY <2>4, <2>5, <2>6
<1>2. CASE client'.context # "open"
  <2>1. End(k, token, "refused", "error")
    BY <1>2 DEF Post
  <2> QED BY <2>1, EndTyped
<1> QED BY <1>1, <1>2

\* Moving a verification to another wait.
LEMMA GotoTyped ==
  ASSUME Typed, NEW k \in Tasks, NEW token \in Tokens, NEW pc \in PCs,
         Goto(k, pc, token)
  PROVE  /\ tasks' \in [Tasks -> TaskState]
         /\ \A j \in Tasks : tasks'[j].pc # "idle" => tasks'[j].token \in Tokens
<1>1. tasks[k] \in TaskState
  BY DEF Typed, TypeOK
<1>2. [tasks[k] EXCEPT !.pc = pc, !.token = token] \in TaskState
  BY <1>1 DEF TaskState
<1>3. tasks' = [tasks EXCEPT ![k] =
                  [tasks[k] EXCEPT !.pc = pc, !.token = token]]
  BY DEF Goto, Typed, TypeOK
<1>4. tasks' \in [Tasks -> TaskState]
  BY <1>2, <1>3 DEF Typed, TypeOK
<1>5. \A j \in Tasks : tasks'[j].pc # "idle" => tasks'[j].token \in Tokens
  BY <1>1, <1>3 DEF Typed, TypeOK, Supported, TaskState
<1> QED BY <1>4, <1>5

\* _get_client with the lock held.
LEMMA UseOrOpenTyped ==
  ASSUME Typed, NEW k \in Tasks, NEW token \in Tokens,
         UseOrOpen(k, token), UNCHANGED opened
  PROVE  /\ tasks' \in [Tasks -> TaskState]
         /\ reply' \in Reply /\ lock' \in LockState
         /\ client' \in ClientState
         /\ Supported'
<1>1. CASE client.ready
  <2>1. Post(k, token) /\ UNCHANGED client
        /\ lock' = IF lock.holder = k THEN Released ELSE lock
    BY <1>1 DEF UseOrOpen
  <2>2. lock' \in LockState
    BY <2>1, ReleasedTyped DEF Typed, TypeOK
  <2> QED BY <2>1, <2>2, PostTyped DEF Typed, TypeOK, Supported
<1>2. CASE ~client.ready
  <2>1. /\ Goto(k, "open", token) /\ reply' = NoReply
        /\ client' = [client EXCEPT !.context = "new"]
        /\ lock' = [lock EXCEPT !.holder = k]
    BY <1>2 DEF UseOrOpen
  <2>2. /\ tasks' \in [Tasks -> TaskState]
        /\ \A j \in Tasks : tasks'[j].pc # "idle" => tasks'[j].token \in Tokens
    BY <2>1, GotoTyped DEF PCs
  <2>3. client' \in ClientState /\ client'.context # "open"
    BY <1>2, <2>1 DEF Typed, TypeOK, ClientState
  <2>4. lock' \in LockState
    BY <2>1 DEF Typed, TypeOK, LockState
  <2>5. reply' \in Reply
    BY <2>1 DEF NoReply, Reply
  <2> QED BY <2>2, <2>3, <2>4, <2>5 DEF Supported
<1> QED BY <1>1, <1>2

----------------------------------------------------------------------------
(* Type correctness. *)

\* The initial state is well typed.
LEMMA TypedInit == Init => Typed
<1> SUFFICES ASSUME Init PROVE Typed
  OBVIOUS
<1>1. Idle \in TaskState /\ NoReply \in Reply /\ 0 \in Times /\ 0 \in 0..MaxAhead
  BY VerifierAssumption
     DEF Idle, TaskState, PCs, Times, NoReply, Reply
<1>2. <<>> \in Seq(Entry) /\ <<>> \in Seq(Tasks \cup {Closer})
  BY EmptySeq
<1>3. lock \in LockState /\ client \in ClientState
  BY <1>2 DEF Init, LockState, ClientState
<1>4. TypeOK
  BY <1>1, <1>2, <1>3 DEF Init, TypeOK
<1>5. Supported
  BY DEF Init, Supported, Idle
<1> QED BY <1>4, <1>5 DEF Typed

\* A verification that ends and leaves everything but the cache, what was
\* denied and its own state as it was.
LEMMA TypedEnd ==
  ASSUME Typed, NEW k \in Tasks, NEW token \in Tokens,
         NEW verdict \in {"accepted", "refused"},
         NEW via \in {"cache", "fresh", "error"},
         End(k, token, verdict, via),
         cache' \in Seq(Entry), denied' \subseteq Tokens, UNCHANGED <<http, env>>
  PROVE  Typed'
<1>1. /\ tasks' \in [Tasks -> TaskState] /\ reply' \in Reply
      /\ \A j \in Tasks : tasks'[j].pc # "idle" => tasks'[j].token \in Tokens
  BY EndTyped
<1> QED BY <1>1 DEF Typed, TypeOK, Supported, http, env

\* Every step of a verification.
LEMMA TypedVerify ==
  ASSUME Typed, NEW k \in Tasks, Verify(k)
  PROVE  Typed'
<1> USE DEF Typed
<1>0. tasks[k].pc # "idle" => tasks[k].token \in Tokens
  BY DEF Supported
<1>1. ASSUME NEW token \in Tokens, RejectUnsafe(k, token) PROVE Typed'
  BY <1>1, TypedEnd DEF RejectUnsafe, TypeOK
<1>2. ASSUME NEW token \in Tokens, ServeFromCache(k, token) PROVE Typed'
  <2>1. Uncached(token) \in Seq(Entry)
    BY UncachedKeeps DEF TypeOK
  <2>2. EntryOf(token) \in Entry
    BY <1>2, EntryFound, ToSetIn DEF ServeFromCache, Fresh, Entries, TypeOK
  <2>3. cache' \in Seq(Entry)
    BY <1>2, <2>1, <2>2, AppendKey DEF ServeFromCache
  <2> QED BY <1>2, <2>3, TypedEnd DEF ServeFromCache, TypeOK
<1>3. ASSUME NEW token \in Tokens, Miss(k, token) PROVE Typed'
  <2>1. cache' \in Seq(Entry)
    BY <1>3, UncachedKeeps DEF Miss, TypeOK
  <2>2. CASE LockFree
    <3>1. UseOrOpen(k, token) /\ UNCHANGED opened
      BY <1>3, <2>2 DEF Miss
    <3>2. /\ tasks' \in [Tasks -> TaskState] /\ reply' \in Reply
          /\ lock' \in LockState /\ client' \in ClientState /\ Supported'
      BY <3>1, UseOrOpenTyped
    <3> QED BY <1>3, <2>1, <3>2 DEF Miss, TypeOK, env
  <2>3. CASE ~LockFree
    <3>1. /\ lock' = Enqueued(k) /\ Goto(k, "lock", token) /\ reply' = NoReply
          /\ UNCHANGED client
      BY <1>3, <2>3 DEF Miss
    <3>2. /\ tasks' \in [Tasks -> TaskState]
          /\ \A j \in Tasks : tasks'[j].pc # "idle" => tasks'[j].token \in Tokens
      BY <3>1, GotoTyped DEF PCs
    <3>3. lock' \in LockState
      BY <3>1, EnqueuedTyped DEF TypeOK
    <3>4. reply' \in Reply
      BY <3>1 DEF NoReply, Reply
    <3> QED BY <1>3, <2>1, <3>1, <3>2, <3>3, <3>4 DEF Miss, TypeOK, Supported, env
  <2> QED BY <2>2, <2>3
<1>4. ASSUME TakeLock(k) PROVE Typed'
  <2>1. tasks[k].token \in Tokens /\ UseOrOpen(k, tasks[k].token)
        /\ UNCHANGED opened
    BY <1>4, <1>0 DEF TakeLock
  <2>2. /\ tasks' \in [Tasks -> TaskState] /\ reply' \in Reply
        /\ lock' \in LockState /\ client' \in ClientState /\ Supported'
    BY <2>1, UseOrOpenTyped
  <2> QED BY <1>4, <2>2 DEF TakeLock, TypeOK, env
<1>5. ASSUME FinishOpen(k) PROVE Typed'
  <2>1. /\ tasks' \in [Tasks -> TaskState] /\ reply' \in Reply
        /\ \A j \in Tasks : tasks'[j].pc # "idle" => tasks'[j].token \in Tokens
    BY <1>5, <1>0, PostTyped DEF FinishOpen
  <2>2. lock' \in LockState
    BY <1>5, ReleasedTyped DEF FinishOpen, TypeOK
  <2>3. client' \in ClientState /\ opened' \in Nat /\ opened' > 0
    BY <1>5 DEF FinishOpen, ClientState, TypeOK
  <2> QED BY <1>5, <2>1, <2>2, <2>3 DEF FinishOpen, TypeOK, Supported, env
<1>6. ASSUME FailOpen(k) PROVE Typed'
  <2>1. /\ tasks' \in [Tasks -> TaskState] /\ reply' \in Reply
        /\ \A j \in Tasks : tasks'[j].pc # "idle" => tasks'[j].token \in Tokens
    BY <1>6, <1>0, EndTyped DEF FailOpen
  <2>2. lock' \in LockState
    BY <1>6, ReleasedTyped DEF FailOpen, TypeOK
  <2> QED BY <1>6, <2>1, <2>2 DEF FailOpen, TypeOK, Supported, env
<1>7. ASSUME FailExchange(k) PROVE Typed'
  BY <1>7, <1>0, TypedEnd DEF FailExchange, Exchanging, TypeOK
<1>8. ASSUME ReceiveInactive(k) PROVE Typed'
  <2>1. cache' \in Seq(Entry) /\ denied' \subseteq Tokens
    BY <1>8, <1>0, UncachedKeeps DEF ReceiveInactive, TypeOK
  <2> QED BY <1>8, <1>0, <2>1, TypedEnd DEF ReceiveInactive
<1>9. ASSUME ReceiveForeign(k) PROVE Typed'
  BY <1>9, <1>0, TypedEnd DEF ReceiveForeign, TypeOK
<1>10. ASSUME ReceiveActive(k) PROVE Typed'
  <2>1. tasks[k].token \in Tokens /\ CachePut(tasks[k].token)
        /\ ahead \in Nat
    BY <1>10, <1>0, VerifierAssumption DEF ReceiveActive, TypeOK
  <2>2. cache' \in Seq(Entry)
    BY <2>1, CachePutKeeps DEF TypeOK
  <2> QED BY <1>10, <2>1, <2>2, TypedEnd DEF ReceiveActive, TypeOK
<1>11. ASSUME Cancel(k) PROVE Typed'
  <2> DEFINE S == {i \in DOMAIN lock.queue : lock.queue[i] = k}
             q == RemoveOne(lock.queue, S)
  <2>1. lock.queue \in Seq(Tasks \cup {Closer})
    BY DEF TypeOK, LockState
  <2>2. S \in SUBSET (1..Len(lock.queue))
    BY <2>1, LenProperties
  <2>3. lock' = IF lock.holder = k THEN Released
                ELSE [lock EXCEPT !.queue = q]
    BY <1>11 DEF Cancel
  <2> HIDE DEF S
  <2>4. q \in Seq(Tasks \cup {Closer})
    BY <2>1, <2>2, RemoveOneProperties
  <2> HIDE DEF q
  <2>5. lock' \in LockState
    BY <2>3, <2>4, ReleasedTyped DEF TypeOK, LockState
  <2>6. Idle \in TaskState /\ Idle.pc = "idle" /\ NoReply \in Reply
    BY VerifierAssumption
       DEF Idle, TaskState, PCs, Times, NoReply, Reply
  <2>7. /\ tasks' \in [Tasks -> TaskState] /\ reply' \in Reply
        /\ \A j \in Tasks : tasks'[j].pc # "idle" => tasks'[j].token \in Tokens
    BY <1>11, <2>6 DEF Cancel, TypeOK, Supported
  <2> QED BY <1>11, <2>5, <2>7 DEF Cancel, TypeOK, Supported, env
<1>12. ASSUME Answer(k) PROVE Typed'
  <2> DEFINE a == IF Active(tasks[k].token) THEN "active" ELSE "inactive"
             t0 == [tasks[k] EXCEPT !.pc = "answered", !.answer = a]
  <2>1. t0 \in TaskState /\ t0.token = tasks[k].token /\ tasks[k].pc # "idle"
    BY <1>12 DEF Answer, TypeOK, TaskState, PCs
  <2>2. tasks' = [tasks EXCEPT ![k] = t0]
    BY <1>12 DEF Answer, TypeOK
  <2> HIDE DEF t0
  <2>3. /\ tasks' \in [Tasks -> TaskState]
        /\ \A j \in Tasks : tasks'[j].pc # "idle" => tasks'[j].token \in Tokens
    BY <2>1, <2>2 DEF TypeOK, Supported
  <2>4. reply' \in Reply
    BY <1>12 DEF Answer, NoReply, Reply
  <2> QED BY <1>12, <2>3, <2>4 DEF Answer, TypeOK, Supported, http, env
<1> QED BY <1>1, <1>2, <1>3, <1>4, <1>5, <1>6, <1>7, <1>8, <1>9, <1>10, <1>11,
           <1>12 DEF Verify

\* Every step of close.
LEMMA TypedShutdown ==
  ASSUME Typed, Shutdown
  PROVE  Typed'
<1> USE DEF Typed
<1>0. reply' = NoReply /\ reply' \in Reply
  BY DEF Shutdown, Close, TakeLockToClose, FinishClose, FailClose, NoReply, Reply
<1>1. ASSUME CloseClient
      PROVE  /\ closer' \in {"idle", "lock", "closing"} /\ lock' \in LockState
             /\ client' \in ClientState /\ opened' \in Nat
             /\ client'.context # "open"
  <2>1. CASE client.context = "none"
    BY <1>1, <2>1, ReleasedTyped DEF CloseClient, TypeOK
  <2>2. CASE client.context # "none"
    <3>1. client' \in ClientState /\ client'.context # "open"
      BY <1>1, <2>2 DEF CloseClient, TypeOK, ClientState
    <3>2. lock' \in LockState
      BY <1>1, <2>2 DEF CloseClient, TypeOK, LockState
    <3>3. opened' \in Nat
      BY <1>1, <2>2 DEF CloseClient, TypeOK, Supported
    <3> QED BY <1>1, <2>2, <3>1, <3>2, <3>3 DEF CloseClient
  <2> QED BY <2>1, <2>2
<1>2. ASSUME Close PROVE Typed'
  <2>1. CASE LockFree
    BY <1>0, <1>1, <1>2, <2>1 DEF Close, TypeOK, Supported, env
  <2>2. CASE ~LockFree
    <3>1. lock' \in LockState
      BY <1>2, <2>2, EnqueuedTyped DEF Close, TypeOK
    <3> QED BY <1>0, <1>2, <2>2, <3>1 DEF Close, TypeOK, Supported, env
  <2> QED BY <2>1, <2>2
<1>3. ASSUME TakeLockToClose PROVE Typed'
  BY <1>0, <1>1, <1>3 DEF TakeLockToClose, TypeOK, Supported, env
<1>4. ASSUME FinishClose PROVE Typed'
  <2>1. lock' \in LockState /\ client' \in ClientState
        /\ client'.context # "open"
    BY <1>4, ReleasedTyped DEF FinishClose, TypeOK, ClientState
  <2> QED BY <1>0, <1>4, <2>1 DEF FinishClose, TypeOK, Supported, env
<1>5. ASSUME FailClose PROVE Typed'
  <2>1. lock' \in LockState
    BY <1>5, ReleasedTyped DEF FailClose, TypeOK
  <2> QED BY <1>0, <1>5, <2>1 DEF FailClose, TypeOK, Supported, env
<1> QED BY <1>2, <1>3, <1>4, <1>5 DEF Shutdown

\* Every step keeps the types.
LEMMA TypedStep == Typed /\ [Next]_vars => Typed'
<1> SUFFICES ASSUME Typed, [Next]_vars PROVE Typed'
  OBVIOUS
<1>0. NoReply \in Reply
  BY DEF NoReply, Reply
<1>1. ASSUME NEW k \in Tasks, Verify(k) PROVE Typed'
  BY <1>1, TypedVerify
<1>2. CASE Shutdown
  BY <1>2, TypedShutdown
<1>3. ASSUME NEW token \in Tokens, Revoke(token) PROVE Typed'
  BY <1>0, <1>3 DEF Revoke, Typed, TypeOK, Supported, http
<1>4. CASE Tick
  <2>1. now' \in Times
    BY <1>4, VerifierAssumption DEF Tick, Typed, TypeOK, Times
  <2> QED BY <1>0, <1>4, <2>1 DEF Tick, Typed, TypeOK, Supported, http
<1>5. CASE SetWallClock
  <2>1. ahead' \in 0..MaxAhead
    BY <1>5, VerifierAssumption DEF SetWallClock, Typed, TypeOK
  <2> QED BY <1>0, <1>5, <2>1 DEF SetWallClock, Typed, TypeOK, Supported, http
<1>6. CASE UNCHANGED vars
  BY <1>6 DEF vars, http, env, Typed, TypeOK, Supported
<1> QED BY <1>1, <1>2, <1>3, <1>4, <1>5, <1>6 DEF Next

\* Type correctness: every variable keeps its type, and the client that is
\* set is never one whose opening did not finish.
THEOREM TypeCorrect == Spec => []TypeOK
<1>1. Typed => TypeOK
  BY DEF Typed
<1> QED BY <1>1, TypedInit, TypedStep, PTL DEF Spec

----------------------------------------------------------------------------
(* The delay of a revocation. *)

\* Initially there is nothing to relate.
LEMMA TimedInit == Init => Timed
<1> SUFFICES ASSUME Init PROVE Timed
  OBVIOUS
<1>1. Entries = {}
  BY DEF Init, Entries, ToSet
<1>2. \A k \in Tasks : ~Exchanging(k) /\ tasks[k].pc # "answered"
  BY DEF Init, Idle, Exchanging
<1>3. \A t \in Tokens : revokedAt[t] = None
  BY DEF Init
<1> QED BY <1>1, <1>2, <1>3 DEF Timed

\* What a step may do to requests and entries without looking at the clock:
\* start a request now, end one, drop entries.
LEMMA TimedKept ==
  ASSUME Typed, Timed, UNCHANGED <<now, revokedAt>>,
         \A j \in Tasks :
           \/ tasks'[j] = tasks[j]
           \/ tasks'[j].pc \notin {"posted", "answered"}
           \/ tasks'[j].pc = "posted" /\ tasks'[j].sent = now,
         Entries' \subseteq Entries
  PROVE  Timed'
<1>1. now \in Nat /\ MaxDelay \in Nat
  BY VerifierAssumption DEF Typed, TypeOK, Times
<1>2. ASSUME NEW k \in Tasks, Exchanging(k)'
      PROVE  tasks'[k].sent <= now' /\ now' <= tasks'[k].sent + MaxDelay
  BY <1>1, <1>2 DEF Timed, Exchanging
<1>3. ASSUME NEW k \in Tasks, tasks'[k].pc = "answered",
             tasks'[k].answer = "active", revokedAt'[tasks'[k].token] # None
      PROVE  tasks'[k].sent <= revokedAt'[tasks'[k].token]
  BY <1>3 DEF Timed
<1>4. \A t \in Tokens : revokedAt'[t] # None => revokedAt'[t] <= now'
  BY DEF Timed
<1>5. \A e \in Entries' :
        /\ e.expiry <= now' + CacheTTL
        /\ revokedAt'[e.token] # None =>
             e.expiry <= revokedAt'[e.token] + MaxDelay + CacheTTL
  BY DEF Timed
<1> QED BY <1>2, <1>3, <1>4, <1>5 DEF Timed

\* The active answer that a task receives is recent enough for its entry,
\* and for its acceptance, to end in time.
LEMMA AnswerRecent ==
  ASSUME Typed, Timed, NEW k \in Tasks,
         tasks[k].pc = "answered", tasks[k].answer = "active",
         revokedAt[tasks[k].token] # None
  PROVE  /\ tasks[k].token \in Tokens
         /\ revokedAt[tasks[k].token] \in Nat
         /\ now <= revokedAt[tasks[k].token] + MaxDelay
<1>1. tasks[k].token \in Tokens /\ tasks[k].sent \in Nat /\ now \in Nat
      /\ MaxDelay \in Nat
  BY VerifierAssumption DEF Typed, Supported, TypeOK, TaskState, Times
<1>2. revokedAt[tasks[k].token] \in Nat
  BY <1>1 DEF Typed, TypeOK, Times
<1>3. now <= tasks[k].sent + MaxDelay /\ tasks[k].sent <= revokedAt[tasks[k].token]
  BY DEF Timed, Exchanging
<1> QED BY <1>1, <1>2, <1>3

\* Every step of a verification.
LEMMA TimedVerify ==
  ASSUME Typed, Timed, NEW k \in Tasks, Verify(k)
  PROVE  Timed'
<1>0. cache \in Seq(Entry) /\ tasks \in [Tasks -> TaskState]
  BY DEF Typed, TypeOK
<1> DEFINE Kept == \A j \in Tasks :
             \/ tasks'[j] = tasks[j]
             \/ tasks'[j].pc \notin {"posted", "answered"}
             \/ tasks'[j].pc = "posted" /\ tasks'[j].sent = now
<1>1. ASSUME NEW token, NEW verdict, NEW via, End(k, token, verdict, via)
      PROVE  Kept
  BY <1>0, <1>1 DEF End, Idle
<1>2. ASSUME NEW token, Post(k, token) PROVE Kept
  BY <1>0, <1>1, <1>2 DEF Post
<1>3. ASSUME NEW token, NEW pc \in {"lock", "open"}, Goto(k, pc, token)
      PROVE  Kept
  BY <1>0, <1>3 DEF Goto, TaskState
<1>4. ASSUME NEW token, UseOrOpen(k, token) PROVE Kept
  BY <1>2, <1>3, <1>4 DEF UseOrOpen
<1> HIDE DEF Kept
<1>5. ASSUME NEW token, UNCHANGED <<now, revokedAt>>, Kept,
             cache' \in {cache, Uncached(token)}
      PROVE  Timed'
  <2>1. Entries' \subseteq Entries
    BY <1>0, <1>5, UncachedKeeps DEF Entries
  <2> QED BY <1>5, <2>1, TimedKept DEF Kept
<1>6. ASSUME NEW token \in Tokens, RejectUnsafe(k, token) PROVE Timed'
  BY <1>1, <1>5, <1>6 DEF RejectUnsafe, env
<1>7. ASSUME NEW token \in Tokens, ServeFromCache(k, token) PROVE Timed'
  <2>1. Kept /\ UNCHANGED <<now, revokedAt>>
    BY <1>1, <1>7 DEF ServeFromCache, env
  <2>2. EntryOf(token) \in Entries /\ EntryOf(token) \in Entry
    BY <1>0, <1>7, EntryFound, ToSetIn DEF ServeFromCache, Fresh, Entries
  <2>3. Uncached(token) \in Seq(Entry) /\ ToSet(Uncached(token)) \subseteq Entries
    BY <1>0, UncachedKeeps
  <2>4. Entries' = ToSet(Uncached(token)) \cup {EntryOf(token)}
    BY <1>7, <2>2, <2>3, AppendKey DEF ServeFromCache, Entries
  <2> QED BY <2>1, <2>2, <2>3, <2>4, TimedKept DEF Kept
<1>8. ASSUME NEW token \in Tokens, Miss(k, token) PROVE Timed'
  <2>1. Kept
    BY <1>3, <1>4, <1>8 DEF Miss
  <2> QED BY <1>5, <1>8, <2>1 DEF Miss, env
<1>9. ASSUME TakeLock(k) PROVE Timed'
  BY <1>4, <1>5, <1>9 DEF TakeLock, env
<1>10. ASSUME FinishOpen(k) PROVE Timed'
  BY <1>2, <1>5, <1>10 DEF FinishOpen, env
<1>11. ASSUME FailOpen(k) PROVE Timed'
  BY <1>1, <1>5, <1>11 DEF FailOpen, env
<1>12. ASSUME FailExchange(k) PROVE Timed'
  BY <1>1, <1>5, <1>12 DEF FailExchange, env
<1>13. ASSUME ReceiveInactive(k) PROVE Timed'
  BY <1>1, <1>5, <1>13 DEF ReceiveInactive, env
<1>14. ASSUME ReceiveForeign(k) PROVE Timed'
  BY <1>1, <1>5, <1>14 DEF ReceiveForeign, env
<1>15. ASSUME ReceiveActive(k) PROVE Timed'
  <2> DEFINE token == tasks[k].token
  <2>1. /\ tasks[k].pc = "answered" /\ tasks[k].answer = "active"
        /\ CachePut(token) /\ UNCHANGED <<now, revokedAt>> /\ Kept
    BY <1>1, <1>15 DEF ReceiveActive, env
  <2>2. /\ token \in Tokens /\ now \in Times /\ ahead \in Nat
        /\ now \in Nat /\ CacheTTL \in Nat /\ MaxDelay \in Nat
    BY <2>1, VerifierAssumption DEF Typed, Supported, TypeOK, Times
  <2>3. \A e \in Entries' :
          \/ e \in Entries
          \/ e.token = token /\ e.expiry <= now + CacheTTL
    BY <1>0, <2>1, <2>2, CachePutKeeps DEF Entries
  <2>4. Entries' \subseteq Entry
    BY <1>0, <2>1, <2>2, CachePutKeeps, ToSetIn DEF Entries
  <2>5. ASSUME NEW e \in Entries'
        PROVE  /\ e.expiry <= now' + CacheTTL
               /\ revokedAt'[e.token] # None =>
                    e.expiry <= revokedAt'[e.token] + MaxDelay + CacheTTL
    <3>1. CASE e \in Entries
      BY <2>1, <3>1 DEF Timed
    <3>2. CASE e.token = token /\ e.expiry <= now + CacheTTL
      <4>1. e.expiry \in Nat
        BY <2>2, <2>4, VerifierAssumption DEF Entry
      <4>2. revokedAt[token] # None =>
              revokedAt[token] \in Nat /\ now <= revokedAt[token] + MaxDelay
        BY <2>1, AnswerRecent
      <4> HIDE DEF token
      <4>3. revokedAt[token] # None =>
              e.expiry <= revokedAt[token] + MaxDelay + CacheTTL
        BY <2>2, <3>2, <4>1, <4>2
      <4> QED BY <2>1, <3>2, <4>3
    <3> QED BY <2>3, <3>1, <3>2
  <2>6. \A j \in Tasks : j # k => tasks'[j] = tasks[j]
    BY <1>0, <1>15 DEF ReceiveActive, End
  <2>7. tasks'[k].pc = "idle"
    BY <1>0, <1>15 DEF ReceiveActive, End, Idle
  <2>8. \A j \in Tasks : Exchanging(j)' =>
          tasks'[j].sent <= now' /\ now' <= tasks'[j].sent + MaxDelay
    BY <2>1, <2>6, <2>7 DEF Timed, Exchanging
  <2>9. \A j \in Tasks :
          /\ tasks'[j].pc = "answered" /\ tasks'[j].answer = "active"
          /\ revokedAt'[tasks'[j].token] # None
          => tasks'[j].sent <= revokedAt'[tasks'[j].token]
    BY <2>1, <2>6, <2>7 DEF Timed
  <2>10. \A t \in Tokens : revokedAt'[t] # None => revokedAt'[t] <= now'
    BY <2>1 DEF Timed
  <2> QED BY <2>5, <2>8, <2>9, <2>10 DEF Timed
<1>16. ASSUME Cancel(k) PROVE Timed'
  <2>1. Kept
    BY <1>0, <1>16 DEF Cancel, Idle, Kept
  <2> QED BY <1>5, <1>16, <2>1 DEF Cancel, env
<1>17. ASSUME Answer(k) PROVE Timed'
  <2>1. /\ tasks[k].pc = "posted" /\ UNCHANGED <<cache, now, revokedAt>>
        /\ tasks' = [tasks EXCEPT ![k].pc = "answered",
             ![k].answer = IF Active(tasks[k].token) THEN "active" ELSE "inactive"]
    BY <1>17 DEF Answer, env
  <2>2. /\ tasks'[k].pc = "answered" /\ tasks'[k].token = tasks[k].token
        /\ tasks'[k].sent = tasks[k].sent
        /\ tasks'[k].answer = "active" => revokedAt[tasks[k].token] = None
        /\ \A j \in Tasks : j # k => tasks'[j] = tasks[j]
    BY <1>0, <2>1 DEF TaskState, Active
  <2>3. \A j \in Tasks : Exchanging(j)' =>
          tasks'[j].sent <= now' /\ now' <= tasks'[j].sent + MaxDelay
    BY <2>1, <2>2 DEF Timed, Exchanging
  <2>4. \A j \in Tasks :
          /\ tasks'[j].pc = "answered" /\ tasks'[j].answer = "active"
          /\ revokedAt'[tasks'[j].token] # None
          => tasks'[j].sent <= revokedAt'[tasks'[j].token]
    BY <2>1, <2>2 DEF Timed
  <2> QED BY <2>1, <2>3, <2>4 DEF Timed, Entries
<1> QED BY <1>6, <1>7, <1>8, <1>9, <1>10, <1>11, <1>12, <1>13, <1>14, <1>15,
           <1>16, <1>17 DEF Verify

\* Every step keeps requests, answers and entries within their times.
LEMMA TimedStep == Typed /\ Timed /\ [Next]_vars => Timed'
<1> SUFFICES ASSUME Typed, Timed, [Next]_vars PROVE Timed'
  OBVIOUS
<1>0. /\ now \in Nat /\ CacheTTL \in Nat /\ MaxDelay \in Nat
      /\ tasks \in [Tasks -> TaskState] /\ revokedAt \in [Tokens -> Times \cup {None}]
      /\ Entries \subseteq Entry
  BY VerifierAssumption, ToSetIn DEF Typed, TypeOK, Times, Entries
<1>1. ASSUME NEW k \in Tasks, Verify(k) PROVE Timed'
  BY <1>1, TimedVerify
<1>2. CASE Shutdown
  <2>1. UNCHANGED <<tasks, cache, now, revokedAt>>
    BY <1>2 DEF Shutdown, Close, TakeLockToClose, FinishClose, FailClose, env
  <2> QED BY <2>1, TimedKept DEF Entries
<1>3. ASSUME NEW token \in Tokens, Revoke(token) PROVE Timed'
  <2>1. /\ revokedAt[token] = None
        /\ revokedAt' = [revokedAt EXCEPT ![token] = now]
        /\ UNCHANGED <<tasks, cache, now>>
    BY <1>3 DEF Revoke
  <2>2. /\ revokedAt'[token] = now
        /\ \A t \in Tokens : t # token => revokedAt'[t] = revokedAt[t]
    BY <1>0, <2>1
  <2>3. ASSUME NEW j \in Tasks, tasks'[j].pc = "answered",
               tasks'[j].answer = "active", revokedAt'[tasks'[j].token] # None
        PROVE  tasks'[j].sent <= revokedAt'[tasks'[j].token]
    <3>1. tasks[j].token \in Tokens /\ tasks[j].sent <= now
      BY <2>1, <2>3 DEF Typed, Supported, Timed, Exchanging
    <3> QED BY <2>1, <2>2, <2>3, <3>1 DEF Timed
  <2>4. \A t \in Tokens : revokedAt'[t] # None => revokedAt'[t] <= now'
    BY <1>0, <2>1, <2>2 DEF Timed
  <2>5. ASSUME NEW e \in Entries'
        PROVE  /\ e.expiry <= now' + CacheTTL
               /\ revokedAt'[e.token] # None =>
                    e.expiry <= revokedAt'[e.token] + MaxDelay + CacheTTL
    <3>1. e \in Entries /\ e.token \in Tokens /\ e.expiry \in Int
      BY <1>0, <2>1 DEF Entries, Entry
    <3>2. e.expiry <= now + CacheTTL
      BY <3>1 DEF Timed
    <3>3. e.expiry <= now + MaxDelay + CacheTTL
      BY <1>0, <3>1, <3>2
    <3> QED BY <2>1, <2>2, <3>1, <3>2, <3>3 DEF Timed
  <2>6. \A k \in Tasks : Exchanging(k)' =>
          tasks'[k].sent <= now' /\ now' <= tasks'[k].sent + MaxDelay
    BY <2>1 DEF Timed, Exchanging
  <2> QED BY <2>3, <2>4, <2>5, <2>6 DEF Timed
<1>4. CASE Tick
  <2>1. /\ now' = now + 1 /\ UNCHANGED <<tasks, cache, revokedAt>>
        /\ \A k \in Tasks : Exchanging(k) => now < tasks[k].sent + MaxDelay
    BY <1>4 DEF Tick
  <2>2. \A k \in Tasks : tasks[k].sent \in Nat
    BY <1>0, VerifierAssumption DEF TaskState, Times
  <2>3. \A k \in Tasks : Exchanging(k)' =>
          tasks'[k].sent <= now' /\ now' <= tasks'[k].sent + MaxDelay
    BY <1>0, <2>1, <2>2 DEF Timed, Exchanging
  <2>4. \A t \in Tokens : revokedAt'[t] # None => revokedAt'[t] <= now'
    BY <1>0, <2>1 DEF Timed, Times
  <2>5. \A e \in Entries' :
          /\ e.expiry <= now' + CacheTTL
          /\ revokedAt'[e.token] # None =>
               e.expiry <= revokedAt'[e.token] + MaxDelay + CacheTTL
    <3> SUFFICES ASSUME NEW e \in Entries' PROVE
          /\ e.expiry <= now' + CacheTTL
          /\ revokedAt'[e.token] # None =>
               e.expiry <= revokedAt'[e.token] + MaxDelay + CacheTTL
      OBVIOUS
    <3>1. e \in Entries /\ e.expiry \in Int
      BY <1>0, <2>1 DEF Entries, Entry
    <3>2. e.expiry <= now' + CacheTTL
      BY <1>0, <2>1, <3>1 DEF Timed
    <3> QED BY <2>1, <3>1, <3>2 DEF Timed
  <2>6. \A k \in Tasks :
          /\ tasks'[k].pc = "answered" /\ tasks'[k].answer = "active"
          /\ revokedAt'[tasks'[k].token] # None
          => tasks'[k].sent <= revokedAt'[tasks'[k].token]
    BY <2>1 DEF Timed
  <2> QED BY <2>3, <2>4, <2>5, <2>6 DEF Timed
<1>5. CASE SetWallClock \/ UNCHANGED vars
  <2>1. UNCHANGED <<tasks, cache, now, revokedAt>>
    BY <1>5 DEF SetWallClock, vars, env
  <2> QED BY <2>1, TimedKept DEF Entries
<1> QED BY <1>1, <1>2, <1>3, <1>4, <1>5 DEF Next

\* Only two steps accept a token: the cache serves an entry that has not
\* expired, or an active answer arrives.
LEMMA AcceptanceInTime ==
  Typed /\ Timed /\ Next => RevocationTakesEffect'
<1> SUFFICES ASSUME Typed, Timed, Next, reply'.verdict = "accepted",
                    revokedAt'[reply'.token] # None
             PROVE  now' <= revokedAt'[reply'.token] + MaxDelay
                      + (IF reply'.via = "cache" THEN CacheTTL - 1 ELSE 0)
  BY DEF RevocationTakesEffect
<1>0. now \in Nat /\ CacheTTL \in Nat /\ MaxDelay \in Nat /\ None # "accepted"
      /\ cache \in Seq(Entry)
  BY VerifierAssumption DEF Typed, TypeOK, Times
<1>1. \A k \in Tasks : \A token, via : ~End(k, token, "refused", via)
  BY DEF End
<1>2. reply' # NoReply
  BY <1>0 DEF NoReply
<1>3. ASSUME NEW k \in Tasks, NEW token, Post(k, token) PROVE FALSE
  BY <1>1, <1>2, <1>3 DEF Post
<1>4. ASSUME NEW k \in Tasks, NEW token, UseOrOpen(k, token) PROVE FALSE
  BY <1>2, <1>3, <1>4 DEF UseOrOpen
<1>5. PICK k \in Tasks : Verify(k)
  BY <1>2 DEF Next, Shutdown, Close, TakeLockToClose, FinishClose, FailClose,
              Revoke, Tick, SetWallClock
<1>6. \/ \E token \in Tokens : ServeFromCache(k, token)
      \/ ReceiveActive(k)
  BY <1>1, <1>2, <1>3, <1>4, <1>5
     DEF Verify, RejectUnsafe, Miss, TakeLock, FinishOpen, FailOpen,
         FailExchange, ReceiveInactive, ReceiveForeign, Cancel, Answer
<1>7. ASSUME NEW token \in Tokens, ServeFromCache(k, token)
      PROVE  now' <= revokedAt'[reply'.token] + MaxDelay
               + (IF reply'.via = "cache" THEN CacheTTL - 1 ELSE 0)
  <2>1. /\ now < EntryOf(token).expiry /\ token \in Cached
        /\ now' = now /\ revokedAt' = revokedAt
        /\ reply'.token = token /\ reply'.via = "cache"
    BY <1>7 DEF ServeFromCache, Fresh, End, env
  <2>2. EntryOf(token) \in Entries /\ EntryOf(token).token = token
    BY <2>1, EntryFound
  <2>3. EntryOf(token).expiry \in Int
    <3>1. EntryOf(token) \in Entry
      BY <1>0, <2>2, ToSetIn DEF Entries
    <3> QED BY <3>1, VerifierAssumption DEF Entry
  <2>4. revokedAt[token] \in Nat
    BY <2>1 DEF Typed, TypeOK, Times
  <2>5. EntryOf(token).expiry <= revokedAt[token] + MaxDelay + CacheTTL
    BY <2>1, <2>2 DEF Timed
  <2> QED BY <1>0, <2>1, <2>3, <2>4, <2>5
<1>8. ASSUME ReceiveActive(k)
      PROVE  now' <= revokedAt'[reply'.token] + MaxDelay
               + (IF reply'.via = "cache" THEN CacheTTL - 1 ELSE 0)
  <2>1. /\ tasks[k].pc = "answered" /\ tasks[k].answer = "active"
        /\ now' = now /\ revokedAt' = revokedAt
        /\ reply'.token = tasks[k].token /\ reply'.via = "fresh"
    BY <1>8 DEF ReceiveActive, End, env
  <2>2. /\ revokedAt[tasks[k].token] \in Nat
        /\ now <= revokedAt[tasks[k].token] + MaxDelay
    BY <2>1, AnswerRecent
  <2> QED BY <1>0, <2>1, <2>2
<1> QED BY <1>6, <1>7, <1>8

\* A revoked token is not accepted later than one exchange and the time to
\* live of a cache entry after its revocation, and not later than one
\* exchange unless the cache serves it.
THEOREM RevocationBound == Spec => []RevocationTakesEffect
<1>1. Init => RevocationTakesEffect
  BY VerifierAssumption DEF Init, RevocationTakesEffect, NoReply
<1>2. RevocationTakesEffect /\ UNCHANGED vars => RevocationTakesEffect'
  BY DEF RevocationTakesEffect, vars, env
<1>3. Typed /\ Timed /\ RevocationTakesEffect /\ [Next]_vars
        => RevocationTakesEffect'
  BY <1>2, AcceptanceInTime
<1> QED BY <1>1, <1>3, TypedInit, TimedInit, TypedStep, TimedStep, PTL DEF Spec

----------------------------------------------------------------------------
(* The bound of the cache. *)

TokensDistinct(s) == Distinct([i \in DOMAIN s |-> s[i].token])

\* One entry per token: no entry twice, and no two for the same token.
LEMMA TokensDistinctIff ==
  ASSUME NEW s \in Seq(Entry)
  PROVE  TokensDistinct(s) <=>
           /\ Distinct(s)
           /\ \A d, e \in ToSet(s) : d.token = e.token => d = e
<1>1. DOMAIN s = 1..Len(s)
  BY LenProperties
<1>2. TokensDistinct(s) <=>
        \A i, j \in DOMAIN s : s[i].token = s[j].token => i = j
  BY DEF TokensDistinct, Distinct
<1>3. ASSUME TokensDistinct(s)
      PROVE  /\ Distinct(s)
             /\ \A d, e \in ToSet(s) : d.token = e.token => d = e
  BY <1>1, <1>2, <1>3 DEF Distinct, ToSet
<1>4. ASSUME Distinct(s), \A d, e \in ToSet(s) : d.token = e.token => d = e
      PROVE  TokensDistinct(s)
  BY <1>1, <1>2, <1>4 DEF Distinct, ToSet
<1> QED BY <1>3, <1>4

\* After the entry of a token is dropped there is none left.
LEMMA UncachedDistinct ==
  ASSUME cache \in Seq(Entry), TokensDistinct(cache), NEW token
  PROVE  /\ TokensDistinct(Uncached(token))
         /\ \A e \in ToSet(Uncached(token)) : e.token # token
<1> DEFINE S == {i \in DOMAIN cache : cache[i].token = token}
           u == RemoveOne(cache, S)
<1>1. DOMAIN cache = 1..Len(cache) /\ S \in SUBSET (1..Len(cache))
  BY LenProperties
<1>2. Uncached(token) = u
  BY DEF Uncached
<1>3. /\ Distinct(cache)
      /\ \A d, e \in Entries : d.token = e.token => d = e
  BY TokensDistinctIff DEF Entries
<1>4. \A i, j \in S : i = j
  BY <1>3, <1>1 DEF Distinct, Entries, ToSet
<1>5. \A e \in Entries : e.token = token => \E i \in S : cache[i] = e
  BY DEF Entries, ToSet
<1>6. \A i \in S : cache[i].token = token
  OBVIOUS
<1> HIDE DEF S
<1>7. /\ u \in Seq(Entry) /\ ToSet(u) \subseteq Entries /\ Distinct(u)
      /\ \A i \in S : S = {i} => cache[i] \notin ToSet(u)
  BY <1>1, <1>3, RemoveOneProperties DEF Entries
<1> HIDE DEF u
<1>8. ASSUME NEW e \in ToSet(u), e.token = token PROVE FALSE
  <2>1. PICK i \in S : cache[i] = e
    BY <1>5, <1>7, <1>8
  <2>2. S = {i}
    BY <1>4
  <2> QED BY <1>7, <1>8, <2>1, <2>2
<1>9. TokensDistinct(u)
  BY <1>3, <1>7, TokensDistinctIff
<1> QED BY <1>2, <1>8, <1>9

\* Putting an entry for a token that has none.
LEMMA AppendDistinct ==
  ASSUME NEW s \in Seq(Entry), NEW e0 \in Entry, TokensDistinct(s),
         \A e \in ToSet(s) : e.token # e0.token
  PROVE  TokensDistinct(Append(s, e0))
<1>1. Distinct(s) /\ \A d, e \in ToSet(s) : d.token = e.token => d = e
  BY TokensDistinctIff
<1>2. /\ Append(s, e0) \in Seq(Entry) /\ ToSet(Append(s, e0)) = ToSet(s) \cup {e0}
      /\ Distinct(Append(s, e0))
  BY <1>1, AppendKey
<1>3. \A d, e \in ToSet(Append(s, e0)) : d.token = e.token => d = e
  BY <1>1, <1>2
<1> QED BY <1>2, <1>3, TokensDistinctIff

\* The cache after _cache_put.
LEMMA CachePutBounded ==
  ASSUME NEW token \in Tokens, cache \in Seq(Entry), now \in Times,
         ahead \in Nat, CacheBounded, CachePut(token)
  PROVE  CacheBounded'
<1> DEFINE e0 == [token |-> token, expiry |-> now + Lifetime(token)]
           u == Uncached(token)
           put == Append(u, e0)
<1>0. TokensDistinct(cache) /\ Len(cache) <= CacheMaxSize /\ CacheMaxSize \in Nat
      /\ Len(cache) \in Nat
  BY VerifierAssumption, LenProperties DEF CacheBounded, TokensDistinct
<1>1. CASE CacheTTL = 0 \/ Lifetime(token) <= 0
  BY <1>1 DEF CachePut, CacheBounded
<1>2. CASE ~(CacheTTL = 0 \/ Lifetime(token) <= 0)
  <2>1. now \in Nat /\ now <= MaxTime /\ MaxTime \in Nat /\ CacheTTL \in Nat
    BY VerifierAssumption DEF Times
  <2>2. e0 \in Entry /\ e0.token = token
    BY <1>2, <2>1, LifetimeBounded DEF Entry
  <2>3. /\ u \in Seq(Entry) /\ Len(u) \in Nat /\ Len(u) <= Len(cache)
        /\ TokensDistinct(u) /\ \A e \in ToSet(u) : e.token # token
    BY <1>0, UncachedKeeps, UncachedDistinct
  <2>4. cache' = IF Len(put) > CacheMaxSize THEN Tail(put) ELSE put
    BY <1>2 DEF CachePut
  <2> HIDE DEF e0, u
  <2>5. put \in Seq(Entry) /\ Len(put) = Len(u) + 1 /\ TokensDistinct(put)
    BY <2>2, <2>3, AppendKey, AppendDistinct
  <2>6. Distinct(put) /\ \A d, e \in ToSet(put) : d.token = e.token => d = e
    BY <2>5, TokensDistinctIff
  <2>7. put # <<>>
    BY <2>3, <2>5, EmptySeq
  <2> HIDE DEF put
  <2>8. /\ Tail(put) \in Seq(Entry) /\ Len(Tail(put)) = Len(put) - 1
        /\ ToSet(Tail(put)) \subseteq ToSet(put) /\ Distinct(Tail(put))
    BY <2>5, <2>6, <2>7, DropFirst
  <2>9. TokensDistinct(Tail(put))
    BY <2>6, <2>8, TokensDistinctIff
  <2>10. TokensDistinct(cache')
    BY <2>4, <2>5, <2>9
  <2>11. Len(cache') <= CacheMaxSize
    <3>1. CASE Len(put) > CacheMaxSize
      BY <1>0, <2>3, <2>4, <2>5, <2>8, <3>1
    <3>2. CASE ~(Len(put) > CacheMaxSize)
      BY <1>0, <2>3, <2>4, <2>5, <3>2
    <3> QED BY <3>1, <3>2
  <2> QED BY <2>10, <2>11 DEF CacheBounded, TokensDistinct
<1> QED BY <1>1, <1>2

\* Every step keeps the bound: a served entry is put back in its place at the
\* end, and only an active answer adds one.
LEMMA CacheBoundedStep == Typed /\ CacheBounded /\ [Next]_vars => CacheBounded'
<1> SUFFICES ASSUME Typed, CacheBounded, [Next]_vars PROVE CacheBounded'
  OBVIOUS
<1>0. /\ cache \in Seq(Entry) /\ Len(cache) \in Nat /\ CacheMaxSize \in Nat
      /\ now \in Times /\ ahead \in Nat
      /\ TokensDistinct(cache) /\ Len(cache) <= CacheMaxSize
      /\ \A k \in Tasks : tasks[k].pc # "idle" => tasks[k].token \in Tokens
  BY VerifierAssumption, LenProperties
     DEF Typed, TypeOK, Supported, CacheBounded, TokensDistinct
<1>1. ASSUME UNCHANGED cache PROVE CacheBounded'
  BY <1>1 DEF CacheBounded
<1>2. ASSUME NEW token, cache' = Uncached(token) PROVE CacheBounded'
  <2>1. Len(cache') <= Len(cache) /\ Len(cache') \in Nat /\ TokensDistinct(cache')
    BY <1>0, <1>2, UncachedKeeps, UncachedDistinct
  <2> QED BY <1>0, <2>1 DEF CacheBounded, TokensDistinct
<1>3. ASSUME NEW k \in Tasks, NEW token \in Tokens, ServeFromCache(k, token)
      PROVE  CacheBounded'
  <2> DEFINE u == Uncached(token)
             e0 == EntryOf(token)
  <2>1. cache' = Append(u, e0) /\ token \in Cached
    BY <1>3 DEF ServeFromCache, Fresh
  <2>2. e0 \in Entry /\ e0.token = token
    BY <1>0, <2>1, EntryFound, ToSetIn DEF Entries
  <2>3. /\ u \in Seq(Entry) /\ Len(u) \in Nat /\ Len(u) < Len(cache)
        /\ TokensDistinct(u) /\ \A e \in ToSet(u) : e.token # token
    BY <1>0, <2>1, UncachedKeeps, UncachedDistinct
  <2> HIDE DEF u, e0
  <2>4. Len(Append(u, e0)) = Len(u) + 1 /\ TokensDistinct(Append(u, e0))
    BY <2>2, <2>3, AppendKey, AppendDistinct
  <2>5. Len(cache') <= CacheMaxSize
    BY <1>0, <2>1, <2>3, <2>4
  <2> QED BY <2>1, <2>4, <2>5 DEF CacheBounded, TokensDistinct
<1>4. ASSUME NEW k \in Tasks, ReceiveActive(k) PROVE CacheBounded'
  <2>1. tasks[k].token \in Tokens /\ CachePut(tasks[k].token)
    BY <1>0, <1>4 DEF ReceiveActive
  <2> QED BY <1>0, <2>1, CachePutBounded
<1>5. ASSUME NEW k \in Tasks, Verify(k) PROVE CacheBounded'
  BY <1>1, <1>2, <1>3, <1>4, <1>5
     DEF Verify, RejectUnsafe, Miss, TakeLock, FinishOpen, FailOpen,
         FailExchange, ReceiveInactive, ReceiveForeign, Cancel, Answer
<1>6. CASE UNCHANGED vars \/ Shutdown \/ Tick \/ SetWallClock
           \/ \E token \in Tokens : Revoke(token)
  BY <1>1, <1>6 DEF vars, Shutdown, Close, TakeLockToClose, FinishClose,
                   FailClose, Tick, SetWallClock, Revoke
<1> QED BY <1>5, <1>6 DEF Next

\* The cache never outgrows introspection_cache_max_size and never holds two
\* entries for one token.
THEOREM CacheStaysBounded == Spec => []CacheBounded
<1>1. Init => CacheBounded
  <2> SUFFICES ASSUME Init PROVE CacheBounded
    OBVIOUS
  <2>1. cache = <<>> /\ Len(cache) = 0 /\ DOMAIN cache = {}
    BY DEF Init
  <2> QED BY <2>1, VerifierAssumption DEF CacheBounded, Distinct
<1> QED BY <1>1, TypedInit, TypedStep, CacheBoundedStep, PTL DEF Spec

----------------------------------------------------------------------------
(* The client lock and the pooled client.  The lock does not care which of *)
(* its users verifies and which closes, so its discipline is stated, and   *)
(* kept, in terms of where each user is.                                   *)

Actors == Tasks \cup {Closer}

At(a) == IF a = Closer THEN closer ELSE tasks[a].pc

\* Where a user is between acquiring the lock and releasing it.
Inside == {"open", "closing"}

\* The lock's discipline.  Its queue lists waiters, each once and never the
\* holder, and is empty when there is no holder; whoever is inside holds the
\* lock, and whoever waits holds it or is in the queue.
Ordered ==
  /\ Distinct(lock.queue)
  /\ lock.holder \notin ToSet(lock.queue)
  /\ lock.holder = None => lock.queue = <<>>
  /\ \A a \in Actors :
       /\ a \in ToSet(lock.queue) => At(a) = "lock"
       /\ At(a) = "lock" => lock.holder = a \/ a \in ToSet(lock.queue)
       /\ At(a) \in Inside => lock.holder = a
       /\ lock.holder = a => At(a) = "lock" \/ At(a) \in Inside

\* The client is opened once, while it is new, and is closed before close
\* waits for it.
Counted ==
  /\ \A k \in Tasks : tasks[k].pc = "open" => client.context = "new"
  /\ closer = "closing" => client.context = "closed"
  /\ opened = IF client.context = "open" THEN 1 ELSE 0

----------------------------------------------------------------------------
(* What a user may do with the lock. *)

\* Release it: the first waiter becomes the holder.
LEMMA ReleaseOrdered ==
  ASSUME Ordered, lock \in LockState, NEW a \in Actors, lock.holder = a,
         lock' = Released, At(a)' \notin Inside \cup {"lock"},
         \A b \in Actors : b # a => At(b)' = At(b)
  PROVE  Ordered'
<1>0. lock.queue \in Seq(Actors) /\ None \notin Actors
  BY VerifierAssumption DEF LockState, Actors
<1>1. CASE lock.queue = <<>>
  <2>1. lock' = [holder |-> None, queue |-> <<>>] /\ ToSet(<<>>) = {}
    BY <1>1 DEF Released, ToSet
  <2>2. Distinct(<<>>)
    BY DEF Distinct
  <2> QED BY <1>0, <1>1, <2>1, <2>2 DEF Ordered
<1>2. CASE lock.queue # <<>>
  <2> DEFINE h == Head(lock.queue)
             t == Tail(lock.queue)
  <2>1. lock'.holder = h /\ lock'.queue = t
    BY <1>2 DEF Released
  <2>2. /\ h \in Actors /\ ToSet(lock.queue) = {h} \cup ToSet(t)
        /\ Distinct(t) /\ h \notin ToSet(t)
    BY <1>0, <1>2, DropFirst DEF Ordered
  <2> HIDE DEF h, t
  <2>3. a \notin ToSet(lock.queue) /\ At(h) = "lock" /\ h # a
    BY <2>2 DEF Ordered
  <2>4. ASSUME NEW b \in Actors
        PROVE  /\ b \in ToSet(t) => At(b)' = "lock"
               /\ At(b)' = "lock" => h = b \/ b \in ToSet(t)
               /\ At(b)' \in Inside => h = b
               /\ h = b => At(b)' = "lock" \/ At(b)' \in Inside
    <3>1. CASE b = a
      BY <2>2, <2>3, <3>1
    <3>2. CASE b # a
      BY <2>2, <2>3, <3>2 DEF Ordered
    <3> QED BY <3>1, <3>2
  <2> QED BY <1>0, <2>1, <2>2, <2>4 DEF Ordered
<1> QED BY <1>1, <1>2

\* Go inside, with the lock held or free.
LEMMA EnterOrdered ==
  ASSUME Ordered, lock \in LockState, NEW a \in Actors,
         lock.holder = a \/ LockFree,
         lock' = [lock EXCEPT !.holder = a], At(a)' \in Inside,
         \A b \in Actors : b # a => At(b)' = At(b)
  PROVE  Ordered'
<1>0. None \notin Actors
  BY VerifierAssumption DEF Actors
<1>1. lock'.holder = a /\ lock'.queue = lock.queue
  BY DEF LockState
<1>2. a \notin ToSet(lock.queue)
  BY DEF Ordered, LockFree, ToSet
<1>3. At(a)' # "lock"
  BY DEF Inside
<1>4. ASSUME NEW b \in Actors, b # a
      PROVE  /\ b \in ToSet(lock.queue) => At(b)' = "lock"
             /\ At(b)' = "lock" => b \in ToSet(lock.queue)
             /\ At(b)' \notin Inside
  <2>1. lock.holder # b
    BY <1>0, <1>4 DEF LockFree
  <2> QED BY <1>4, <2>1 DEF Ordered
<1> QED BY <1>0, <1>1, <1>2, <1>3, <1>4 DEF Ordered

\* Join the queue of a lock that is not free.
LEMMA EnqueueOrdered ==
  ASSUME Ordered, lock \in LockState, NEW a \in Actors, ~LockFree,
         At(a) \notin Inside \cup {"lock"}, lock' = Enqueued(a),
         At(a)' = "lock", \A b \in Actors : b # a => At(b)' = At(b)
  PROVE  Ordered'
<1>0. lock.queue \in Seq(Actors)
  BY DEF LockState, Actors
<1>1. /\ lock'.holder = lock.holder /\ lock'.queue = Append(lock.queue, a)
  BY DEF Enqueued, LockState
<1>2. lock.holder # a /\ a \notin ToSet(lock.queue) /\ lock.holder # None
  BY DEF Ordered, LockFree
<1>3. /\ ToSet(Append(lock.queue, a)) = ToSet(lock.queue) \cup {a}
      /\ Distinct(Append(lock.queue, a))
  BY <1>0, <1>2, AppendKey DEF Ordered
<1>4. "lock" \notin Inside
  BY DEF Inside
<1> QED BY <1>1, <1>2, <1>3, <1>4 DEF Ordered

\* Leave the queue, or be elsewhere to begin with.
LEMMA LeaveOrdered ==
  ASSUME Ordered, lock \in LockState, NEW a \in Actors, lock.holder # a,
         lock' = [lock EXCEPT !.queue =
                    RemoveOne(@, {i \in DOMAIN @ : @[i] = a})],
         At(a)' \notin Inside \cup {"lock"},
         \A b \in Actors : b # a => At(b)' = At(b)
  PROVE  Ordered'
<1> DEFINE q == lock.queue
           S == {i \in DOMAIN q : q[i] = a}
           r == RemoveOne(q, S)
<1>0. q \in Seq(Actors) /\ DOMAIN q = 1..Len(q) /\ S \in SUBSET (1..Len(q))
  BY LenProperties DEF LockState, Actors
<1>1. lock'.holder = lock.holder /\ lock'.queue = r
  BY DEF LockState
<1>2. Distinct(q)
  BY DEF Ordered
<1>3. \A i, j \in S : i = j
  BY <1>2 DEF Distinct
<1>4. \A b \in ToSet(q) : \E i \in 1..Len(q) : q[i] = b /\ (b = a <=> i \in S)
  BY <1>0 DEF ToSet
<1>5. S = {} => a \notin ToSet(q)
  BY <1>4
<1>6. \A i \in S : q[i] = a
  OBVIOUS
<1> HIDE DEF S, q
<1>7. /\ Distinct(r) /\ ToSet(r) \subseteq ToSet(q)
      /\ \A j \in 1..Len(q) : j \notin S => q[j] \in ToSet(r)
      /\ \A j \in S : S = {j} => q[j] \notin ToSet(r)
  BY <1>0, <1>2, RemoveOneProperties
<1> HIDE DEF r
<1>8. a \notin ToSet(r)
  <2>1. CASE S = {}
    BY <1>5, <1>7, <2>1
  <2>2. CASE S # {}
    <3>1. PICK i \in S : S = {i}
      BY <1>3, <2>2
    <3> QED BY <1>6, <1>7, <3>1
  <2> QED BY <2>1, <2>2
<1>9. \A b \in ToSet(q) : b # a => b \in ToSet(r)
  BY <1>4, <1>7
<1>10. lock.holder = None => r = <<>>
  <2>1. lock.holder = None => q = <<>> /\ S = {}
    BY <1>0 DEF Ordered, q, S
  <2> QED BY <2>1 DEF r, RemoveOne
<1>11. ASSUME NEW b \in Actors
       PROVE  /\ b \in ToSet(r) => At(b)' = "lock"
              /\ At(b)' = "lock" => lock.holder = b \/ b \in ToSet(r)
              /\ At(b)' \in Inside => lock.holder = b
              /\ lock.holder = b => At(b)' = "lock" \/ At(b)' \in Inside
  <2>1. CASE b = a
    BY <1>8, <2>1
  <2>2. CASE b # a
    BY <1>7, <1>9, <2>2 DEF Ordered, q
  <2> QED BY <2>1, <2>2
<1>12. lock.holder \notin ToSet(r)
  BY <1>7 DEF Ordered, q
<1> QED BY <1>1, <1>7, <1>10, <1>11, <1>12 DEF Ordered

\* Do something else: neither before nor after concerned with the lock.
LEMMA ElsewhereOrdered ==
  ASSUME Ordered, NEW a \in Actors, UNCHANGED lock,
         At(a) \notin Inside \cup {"lock"}, At(a)' \notin Inside \cup {"lock"},
         \A b \in Actors : b # a => At(b)' = At(b)
  PROVE  Ordered'
<1>1. lock.holder # a /\ a \notin ToSet(lock.queue)
  BY DEF Ordered
<1> QED BY <1>1 DEF Ordered

----------------------------------------------------------------------------
(* Where the steps of the program move their user. *)

\* A step of task k moves no other user.
LEMMA AtTask ==
  ASSUME tasks \in [Tasks -> TaskState], NEW k \in Tasks, NEW t0,
         tasks' = [tasks EXCEPT ![k] = t0], UNCHANGED closer
  PROVE  /\ k \in Actors /\ At(k) = tasks[k].pc /\ At(k)' = t0.pc
         /\ \A b \in Actors : b # k => At(b)' = At(b)
<1>1. k # Closer
  BY VerifierAssumption
<1> QED BY <1>1 DEF At, Actors

\* Nor does a step of close.
LEMMA AtCloser ==
  ASSUME UNCHANGED tasks
  PROVE  /\ Closer \in Actors /\ At(Closer) = closer /\ At(Closer)' = closer'
         /\ \A b \in Actors : b # Closer => At(b)' = At(b)
BY DEF At, Actors

\* Ending a verification, or sending its request, leaves the lock's users.
LEMMA AtEnd ==
  ASSUME tasks \in [Tasks -> TaskState], NEW k \in Tasks,
         NEW token, NEW verdict, NEW via, UNCHANGED closer,
         End(k, token, verdict, via) \/ Post(k, token)
  PROVE  /\ k \in Actors /\ At(k) = tasks[k].pc
         /\ At(k)' \notin Inside \cup {"lock"}
         /\ \A b \in Actors : b # k => At(b)' = At(b)
<1> DEFINE t0 == [pc |-> "posted", token |-> token, answer |-> None,
                  sent |-> now]
<1>1. tasks' = [tasks EXCEPT ![k] = Idle] \/ tasks' = [tasks EXCEPT ![k] = t0]
  BY DEF End, Post
<1>2. Idle.pc = "idle" /\ t0.pc = "posted"
  BY DEF Idle
<1> HIDE DEF t0
<1> QED BY <1>1, <1>2, AtTask DEF Inside

\* Moving it to another wait.
LEMMA AtGoto ==
  ASSUME tasks \in [Tasks -> TaskState], NEW k \in Tasks,
         NEW token, NEW pc \in PCs, UNCHANGED closer, Goto(k, pc, token)
  PROVE  /\ k \in Actors /\ At(k) = tasks[k].pc /\ At(k)' = pc
         /\ \A b \in Actors : b # k => At(b)' = At(b)
<1> DEFINE t0 == [tasks[k] EXCEPT !.pc = pc, !.token = token]
<1>1. tasks' = [tasks EXCEPT ![k] = t0]
  BY DEF Goto
<1>2. t0.pc = pc
  BY DEF TaskState
<1> HIDE DEF t0
<1> QED BY <1>1, <1>2, AtTask

\* The lock is free, or held by the waiter: _get_client uses or opens.
LEMMA UseOrOpenOrdered ==
  ASSUME Typed, Ordered, NEW k \in Tasks, NEW token, UNCHANGED closer,
         \/ LockFree /\ tasks[k].pc = "idle"
         \/ lock.holder = k,
         UseOrOpen(k, token)
  PROVE  Ordered'
<1>0. /\ tasks \in [Tasks -> TaskState] /\ lock \in LockState
      /\ k \in Actors /\ At(k) = tasks[k].pc
  BY VerifierAssumption DEF Typed, TypeOK, Actors, At
<1>1. CASE client.ready
  <2>1. Post(k, token) /\ lock' = IF lock.holder = k THEN Released ELSE lock
    BY <1>1 DEF UseOrOpen
  <2>2. At(k)' \notin Inside \cup {"lock"}
        /\ \A b \in Actors : b # k => At(b)' = At(b)
    BY <1>0, <2>1, AtEnd
  <2>3. CASE lock.holder = k
    BY <1>0, <2>1, <2>2, <2>3, ReleaseOrdered
  <2>4. CASE lock.holder # k
    <3>1. At(k) \notin Inside \cup {"lock"} /\ UNCHANGED lock
      BY <1>0, <2>1, <2>4 DEF Inside
    <3> QED BY <1>0, <2>2, <3>1, ElsewhereOrdered
  <2> QED BY <2>3, <2>4
<1>2. CASE ~client.ready
  <2>1. Goto(k, "open", token) /\ lock' = [lock EXCEPT !.holder = k]
    BY <1>2 DEF UseOrOpen
  <2>2. At(k)' \in Inside /\ \A b \in Actors : b # k => At(b)' = At(b)
    BY <1>0, <2>1, AtGoto DEF PCs, Inside
  <2> QED BY <1>0, <2>1, <2>2, EnterOrdered
<1> QED BY <1>1, <1>2

\* Nobody holds the lock at first.
LEMMA OrderedInit == Init => Ordered
<1> SUFFICES ASSUME Init PROVE Ordered
  OBVIOUS
<1>1. /\ lock.holder = None /\ lock.queue = <<>>
      /\ ToSet(lock.queue) = {} /\ Distinct(lock.queue)
  BY DEF Init, ToSet, Distinct
<1>2. \A a \in Actors : At(a) = "idle" /\ lock.holder # a
  BY <1>1, VerifierAssumption DEF Init, At, Actors, Idle
<1> QED BY <1>1, <1>2 DEF Ordered, Inside

\* Every step of a verification keeps the lock's discipline.
LEMMA OrderedVerify ==
  ASSUME Typed, Ordered, NEW k \in Tasks, Verify(k)
  PROVE  Ordered'
<1>0. /\ tasks \in [Tasks -> TaskState] /\ lock \in LockState
      /\ k \in Actors /\ At(k) = tasks[k].pc
  BY VerifierAssumption DEF Typed, TypeOK, Actors, At
<1>1. ASSUME NEW token, NEW verdict, NEW via, End(k, token, verdict, via),
             UNCHANGED <<lock, closer>>, tasks[k].pc \in {"idle", "posted", "answered"}
      PROVE  Ordered'
  <2>1. /\ At(k)' \notin Inside \cup {"lock"}
        /\ \A b \in Actors : b # k => At(b)' = At(b)
    BY <1>0, <1>1, AtEnd
  <2>2. At(k) \notin Inside \cup {"lock"}
    BY <1>0, <1>1 DEF Inside
  <2> QED BY <1>0, <1>1, <2>1, <2>2, ElsewhereOrdered
<1>2. ASSUME NEW token \in Tokens, RejectUnsafe(k, token) PROVE Ordered'
  BY <1>1, <1>2 DEF RejectUnsafe, http
<1>3. ASSUME NEW token \in Tokens, ServeFromCache(k, token) PROVE Ordered'
  BY <1>1, <1>3 DEF ServeFromCache, http
<1>4. ASSUME NEW token \in Tokens, Miss(k, token) PROVE Ordered'
  <2>1. tasks[k].pc = "idle" /\ UNCHANGED closer
    BY <1>4 DEF Miss
  <2>2. CASE LockFree
    BY <1>4, <2>1, <2>2, UseOrOpenOrdered DEF Miss
  <2>3. CASE ~LockFree
    <3>1. lock' = Enqueued(k) /\ Goto(k, "lock", token)
      BY <1>4, <2>3 DEF Miss
    <3>2. At(k)' = "lock" /\ \A b \in Actors : b # k => At(b)' = At(b)
      BY <1>0, <2>1, <3>1, AtGoto DEF PCs
    <3>3. At(k) \notin Inside \cup {"lock"}
      BY <1>0, <2>1 DEF Inside
    <3> QED BY <1>0, <2>3, <3>1, <3>2, <3>3, EnqueueOrdered
  <2> QED BY <2>2, <2>3
<1>5. ASSUME TakeLock(k) PROVE Ordered'
  BY <1>5, UseOrOpenOrdered DEF TakeLock
<1>6. ASSUME FinishOpen(k) \/ FailOpen(k) PROVE Ordered'
  <2>1. /\ tasks[k].pc = "open" /\ lock' = Released /\ UNCHANGED closer
        /\ \/ Post(k, tasks[k].token)
           \/ End(k, tasks[k].token, "refused", "error")
    BY <1>6 DEF FinishOpen, FailOpen
  <2>2. /\ At(k)' \notin Inside \cup {"lock"}
        /\ \A b \in Actors : b # k => At(b)' = At(b)
    BY <1>0, <2>1, AtEnd
  <2>3. lock.holder = k
    BY <1>0, <2>1 DEF Ordered, Inside
  <2> QED BY <1>0, <2>1, <2>2, <2>3, ReleaseOrdered
<1>7. ASSUME FailExchange(k) PROVE Ordered'
  BY <1>1, <1>7 DEF FailExchange, Exchanging, http
<1>8. ASSUME ReceiveInactive(k) PROVE Ordered'
  BY <1>1, <1>8 DEF ReceiveInactive, http
<1>9. ASSUME ReceiveForeign(k) PROVE Ordered'
  BY <1>1, <1>9 DEF ReceiveForeign, http
<1>10. ASSUME ReceiveActive(k) PROVE Ordered'
  BY <1>1, <1>10 DEF ReceiveActive, http
<1>11. ASSUME Cancel(k) PROVE Ordered'
  <2>1. tasks' = [tasks EXCEPT ![k] = Idle] /\ UNCHANGED closer /\ Idle.pc = "idle"
    BY <1>11 DEF Cancel, Idle
  <2>2. /\ At(k)' \notin Inside \cup {"lock"}
        /\ \A b \in Actors : b # k => At(b)' = At(b)
    BY <1>0, <2>1, AtTask DEF Inside
  <2>3. CASE lock.holder = k
    <3>1. lock' = Released
      BY <1>11, <2>3 DEF Cancel
    <3> QED BY <1>0, <2>2, <2>3, <3>1, ReleaseOrdered
  <2>4. CASE lock.holder # k
    <3>1. lock' = [lock EXCEPT !.queue =
                     RemoveOne(@, {i \in DOMAIN @ : @[i] = k})]
      BY <1>11, <2>4 DEF Cancel
    <3> QED BY <1>0, <2>2, <2>4, <3>1, LeaveOrdered
  <2> QED BY <2>3, <2>4
<1>12. ASSUME Answer(k) PROVE Ordered'
  <2> DEFINE a == IF Active(tasks[k].token) THEN "active" ELSE "inactive"
             t0 == [tasks[k] EXCEPT !.pc = "answered", !.answer = a]
  <2>1. t0.pc = "answered"
    BY <1>0 DEF TaskState
  <2>2. /\ tasks' = [tasks EXCEPT ![k] = t0] /\ UNCHANGED <<lock, closer>>
        /\ tasks[k].pc = "posted"
    BY <1>0, <1>12 DEF Answer, http
  <2> HIDE DEF t0
  <2>3. /\ At(k)' = "answered" /\ \A b \in Actors : b # k => At(b)' = At(b)
    BY <1>0, <2>1, <2>2, AtTask
  <2> QED BY <1>0, <2>2, <2>3, ElsewhereOrdered DEF Inside
<1> QED BY <1>2, <1>3, <1>4, <1>5, <1>6, <1>7, <1>8, <1>9, <1>10, <1>11, <1>12
       DEF Verify

\* Every step keeps the lock's discipline.
LEMMA OrderedStep == Typed /\ Ordered /\ [Next]_vars => Ordered'
<1> SUFFICES ASSUME Typed, Ordered, [Next]_vars PROVE Ordered'
  OBVIOUS
<1>0. /\ lock \in LockState /\ Closer \in Actors /\ At(Closer) = closer
      /\ closer \in {"idle", "lock", "closing"}
  BY DEF Typed, TypeOK, Actors, At
<1>1. ASSUME NEW k \in Tasks, Verify(k) PROVE Ordered'
  BY <1>1, OrderedVerify
<1>2. ASSUME UNCHANGED tasks
      PROVE  At(Closer)' = closer' /\ \A b \in Actors : b # Closer => At(b)' = At(b)
  BY <1>2, AtCloser
<1>3. ASSUME UNCHANGED tasks, CloseClient,
             lock.holder = Closer \/ (LockFree /\ closer = "idle")
      PROVE  Ordered'
  <2>1. CASE client.context # "none"
    <3>1. lock' = [lock EXCEPT !.holder = Closer] /\ closer' = "closing"
      BY <1>3, <2>1 DEF CloseClient
    <3>2. At(Closer)' \in Inside
      BY <1>2, <1>3, <3>1 DEF Inside
    <3> QED BY <1>0, <1>2, <1>3, <3>1, <3>2, EnterOrdered
  <2>2. CASE client.context = "none"
    <3>1. closer' = "idle" /\ lock' = IF lock.holder = Closer THEN Released ELSE lock
      BY <1>3, <2>2 DEF CloseClient
    <3>2. At(Closer)' \notin Inside \cup {"lock"}
      BY <1>2, <1>3, <3>1 DEF Inside
    <3>3. CASE lock.holder = Closer
      BY <1>0, <1>2, <1>3, <3>1, <3>2, <3>3, ReleaseOrdered
    <3>4. CASE lock.holder # Closer
      <4>1. At(Closer) \notin Inside \cup {"lock"} /\ UNCHANGED lock
        BY <1>0, <1>3, <3>1, <3>4 DEF Inside
      <4> QED BY <1>0, <1>2, <1>3, <3>2, <4>1, ElsewhereOrdered
    <3> QED BY <3>3, <3>4
  <2> QED BY <2>1, <2>2
<1>4. CASE Close
  <2>1. CASE LockFree
    BY <1>3, <1>4, <2>1 DEF Close
  <2>2. CASE ~LockFree
    <3>1. /\ closer = "idle" /\ closer' = "lock" /\ lock' = Enqueued(Closer)
          /\ UNCHANGED tasks
      BY <1>4, <2>2 DEF Close
    <3>2. At(Closer) \notin Inside \cup {"lock"}
      BY <1>0, <3>1 DEF Inside
    <3> QED BY <1>0, <1>2, <2>2, <3>1, <3>2, EnqueueOrdered
  <2> QED BY <2>1, <2>2
<1>5. CASE TakeLockToClose
  <2>1. UNCHANGED tasks /\ CloseClient /\ lock.holder = Closer
    BY <1>5 DEF TakeLockToClose
  <2> QED BY <1>3, <2>1
<1>6. CASE FinishClose \/ FailClose
  <2>1. /\ closer = "closing" /\ closer' = "idle" /\ lock' = Released
        /\ UNCHANGED tasks
    BY <1>6 DEF FinishClose, FailClose
  <2>2. lock.holder = Closer
    BY <1>0, <2>1 DEF Ordered, Inside
  <2>3. At(Closer)' \notin Inside \cup {"lock"}
    BY <1>2, <2>1 DEF Inside
  <2> QED BY <1>0, <1>2, <2>1, <2>2, <2>3, ReleaseOrdered
<1>7. CASE UNCHANGED vars \/ Tick \/ SetWallClock
           \/ \E token \in Tokens : Revoke(token)
  <2>1. UNCHANGED <<tasks, closer, lock>>
    BY <1>7 DEF vars, http, Tick, SetWallClock, Revoke
  <2> QED BY <2>1 DEF Ordered, At
<1> QED BY <1>1, <1>4, <1>5, <1>6, <1>7 DEF Next, Shutdown

\* Mutual exclusion: whoever opens or closes the pooled client holds the
\* client lock, whatever fails or is cancelled, and every waiter is known.
THEOREM LockSafe == Spec => []LockExcludes
<1>1. Typed /\ Ordered => LockExcludes
  <2> SUFFICES ASSUME Typed, Ordered PROVE LockExcludes
    OBVIOUS
  <2>1. \A k \in Tasks : k \in Actors /\ At(k) = tasks[k].pc
                        /\ tasks[k].pc \in PCs
    BY VerifierAssumption DEF Actors, At, Typed, TypeOK, TaskState
  <2>2. Closer \in Actors /\ At(Closer) = closer
        /\ closer \in {"idle", "lock", "closing"}
    BY DEF Actors, At, Typed, TypeOK
  <2> QED BY <2>1, <2>2 DEF Ordered, LockExcludes, PCs, Inside
<1> QED BY <1>1, OrderedInit, TypedInit, TypedStep, OrderedStep, PTL DEF Spec

----------------------------------------------------------------------------
(* The pooled client. *)

\* Whoever opens the client does so alone, so that no step counts a second.
LEMMA CountedStep ==
  Typed /\ Ordered /\ Counted /\ [Next]_vars => Counted'
<1> SUFFICES ASSUME Typed, Ordered, Counted, [Next]_vars PROVE Counted'
  OBVIOUS
<1>0. /\ tasks \in [Tasks -> TaskState] /\ client \in ClientState
      /\ opened \in {0, 1} /\ Idle.pc = "idle"
  BY DEF Typed, TypeOK, Counted, Idle
<1>1. \A k \in Tasks : tasks[k].pc = "open" => lock.holder = k
  BY VerifierAssumption DEF Ordered, Actors, At, Inside
<1>2. closer = "closing" => lock.holder = Closer
  BY DEF Ordered, Actors, At, Inside
<1>3. ASSUME UNCHANGED <<client, opened>>, closer' \in {closer, "idle", "lock"},
             \A j \in Tasks : tasks'[j] = tasks[j] \/ tasks'[j].pc # "open"
      PROVE  Counted'
  BY <1>3 DEF Counted
<1>4. ASSUME NEW k \in Tasks, NEW token, NEW verdict, NEW via,
             End(k, token, verdict, via) \/ Post(k, token)
      PROVE  \A j \in Tasks : tasks'[j].pc # "open"
                              \/ (j # k /\ tasks'[j] = tasks[j])
  BY <1>0, <1>4 DEF End, Post
<1>5. ASSUME NEW k \in Tasks, NEW token, UNCHANGED <<opened, closer>>,
             lock.holder = k \/ LockFree, UseOrOpen(k, token)
      PROVE  Counted'
  <2>1. CASE client.ready
    BY <1>3, <1>4, <1>5, <2>1 DEF UseOrOpen
  <2>2. CASE ~client.ready
    <3>1. client' = [client EXCEPT !.context = "new"] /\ Goto(k, "open", token)
      BY <1>5, <2>2 DEF UseOrOpen
    <3>2. client'.context = "new" /\ client.context # "open"
      BY <1>0, <2>2, <3>1 DEF ClientState
    <3>3. closer # "closing"
      BY <1>2, <1>5, VerifierAssumption DEF LockFree
    <3> QED BY <1>5, <3>2, <3>3 DEF Counted
  <2> QED BY <2>1, <2>2
<1>6. ASSUME NEW k \in Tasks, FinishOpen(k) PROVE Counted'
  <2>1. /\ client.context = "new" /\ client'.context = "open"
        /\ opened' = opened + 1
    BY <1>6 DEF FinishOpen, Counted
  <2>2. \A j \in Tasks : tasks'[j].pc # "open"
    BY <1>1, <1>4, <1>6, VerifierAssumption DEF FinishOpen
  <2>3. closer' # "closing"
    BY <1>1, <1>2, <1>6, VerifierAssumption DEF FinishOpen
  <2> QED BY <1>0, <2>1, <2>2, <2>3 DEF Counted
<1>7. ASSUME NEW k \in Tasks, Verify(k) PROVE Counted'
  <2>1. ASSUME NEW token, Miss(k, token) PROVE Counted'
    <3>1. CASE LockFree
      BY <1>5, <2>1, <3>1 DEF Miss
    <3>2. CASE ~LockFree
      <4>1. Goto(k, "lock", token) /\ UNCHANGED <<client, opened, closer>>
        BY <2>1, <3>2 DEF Miss
      <4>2. \A j \in Tasks : tasks'[j] = tasks[j] \/ tasks'[j].pc # "open"
        BY <1>0, <4>1 DEF Goto, TaskState
      <4> QED BY <1>3, <4>1, <4>2
    <3> QED BY <3>1, <3>2
  <2>2. ASSUME TakeLock(k) PROVE Counted'
    BY <1>5, <2>2 DEF TakeLock
  <2>3. ASSUME Cancel(k) PROVE Counted'
    BY <1>0, <1>3, <2>3 DEF Cancel
  <2>4. ASSUME Answer(k) PROVE Counted'
    <3>1. \A j \in Tasks : tasks'[j] = tasks[j] \/ tasks'[j].pc # "open"
      BY <1>0, <2>4 DEF Answer, TaskState
    <3> QED BY <1>3, <2>4, <3>1 DEF Answer, http
  <2>5. ASSUME UNCHANGED <<client, opened, closer>>, NEW token, NEW verdict, NEW via,
               End(k, token, verdict, via)
        PROVE  Counted'
    BY <1>3, <1>4, <2>5
  <2>6. ASSUME \/ \E token \in Tokens :
                    RejectUnsafe(k, token) \/ ServeFromCache(k, token)
               \/ FailOpen(k) \/ FailExchange(k)
               \/ ReceiveInactive(k) \/ ReceiveForeign(k) \/ ReceiveActive(k)
        PROVE  Counted'
    BY <2>5, <2>6 DEF RejectUnsafe, ServeFromCache, FailOpen, FailExchange,
         ReceiveInactive, ReceiveForeign, ReceiveActive, http
  <2> QED BY <1>6, <1>7, <2>1, <2>2, <2>3, <2>4, <2>6 DEF Verify
<1>8. CASE Shutdown
  <2>1. UNCHANGED tasks
    BY <1>8 DEF Shutdown, Close, TakeLockToClose, FinishClose, FailClose
  <2>2. ASSUME CloseClient, LockFree \/ lock.holder = Closer PROVE Counted'
    <3>1. \A k \in Tasks : tasks[k].pc # "open"
      BY <1>1, <2>2, VerifierAssumption DEF LockFree
    <3>2. CASE client.context = "none"
      BY <1>3, <2>1, <2>2, <3>2 DEF CloseClient
    <3>3. CASE client.context # "none"
      <4>1. /\ client'.context = "closed"
            /\ opened' = IF client.context = "open" THEN opened - 1 ELSE opened
        BY <1>0, <2>2, <3>3 DEF CloseClient, ClientState
      <4> QED BY <2>1, <3>1, <4>1 DEF Counted
    <3> QED BY <3>2, <3>3
  <2>3. CASE Close
    <3>1. CASE LockFree
      BY <2>2, <2>3, <3>1 DEF Close
    <3>2. CASE ~LockFree
      BY <1>3, <2>1, <2>3, <3>2 DEF Close
    <3> QED BY <3>1, <3>2
  <2>4. CASE TakeLockToClose
    BY <2>2, <2>4 DEF TakeLockToClose
  <2>5. CASE FailClose
    BY <1>3, <2>1, <2>5 DEF FailClose
  <2>6. CASE FinishClose
    <3>1. \A k \in Tasks : tasks[k].pc # "open"
      BY <1>1, <1>2, <2>6, VerifierAssumption DEF FinishClose
    <3>2. client.context # "open"
      BY <2>6 DEF FinishClose, Counted
    <3> QED BY <2>1, <2>6, <3>1, <3>2 DEF FinishClose, Counted
  <2> QED BY <1>8, <2>3, <2>4, <2>5, <2>6 DEF Shutdown
<1>9. CASE UNCHANGED vars \/ Tick \/ SetWallClock
           \/ \E token \in Tokens : Revoke(token)
  BY <1>3, <1>9 DEF vars, http, Tick, SetWallClock, Revoke
<1> QED BY <1>7, <1>8, <1>9 DEF Next

\* Concurrent first verifications share one HTTP client: at no time are two
\* of them open.
THEOREM OneClient == Spec => []OneOpenClient
<1>1. Init => Ordered /\ Counted
  <2> SUFFICES ASSUME Init PROVE Ordered /\ Counted
    OBVIOUS
  <2>1. Counted
    BY DEF Init, Counted, Idle
  <2> QED BY <2>1, OrderedInit
<1>2. Counted => OneOpenClient
  BY DEF Counted, OneOpenClient
<1> QED BY <1>1, <1>2, TypedInit, TypedStep, OrderedStep, CountedStep,
           PTL DEF Spec

\* The client stays usable, unless close is at work on it or has failed.
LEMMA UsableStep ==
  Typed /\ ClientUsable /\ [Next]_vars => ClientUsable'
<1> SUFFICES ASSUME Typed, ClientUsable, [Next]_vars PROVE ClientUsable'
  OBVIOUS
<1>0. client \in ClientState
  BY DEF Typed, TypeOK
<1>1. ASSUME UNCHANGED <<client, closer, closeFailed>> PROVE ClientUsable'
  BY <1>1 DEF ClientUsable
<1>2. ASSUME NEW k, NEW token, UNCHANGED <<closer, closeFailed>>, UseOrOpen(k, token)
      PROVE  ClientUsable'
  <2>1. CASE client.ready
    BY <1>1, <1>2, <2>1 DEF UseOrOpen
  <2>2. CASE ~client.ready
    BY <1>0, <1>2, <2>2 DEF UseOrOpen, ClientState, ClientUsable
  <2> QED BY <2>1, <2>2
<1>3. ASSUME NEW k \in Tasks, Verify(k) PROVE ClientUsable'
  <2>1. ASSUME NEW token, Miss(k, token) PROVE ClientUsable'
    BY <1>1, <1>2, <2>1 DEF Miss
  <2>2. CASE TakeLock(k)
    BY <1>2, <2>2 DEF TakeLock
  <2>3. CASE FinishOpen(k)
    BY <2>3 DEF FinishOpen, ClientUsable
  <2>4. ASSUME ~(TakeLock(k) \/ FinishOpen(k) \/ \E token \in Tokens : Miss(k, token))
        PROVE  UNCHANGED <<client, closer, closeFailed>>
    BY <1>3, <2>4 DEF Verify, RejectUnsafe, ServeFromCache, FailOpen, Answer, Cancel,
         FailExchange, ReceiveInactive, ReceiveForeign, ReceiveActive, http
  <2> QED BY <1>1, <2>1, <2>2, <2>3, <2>4
<1>4. CASE Shutdown
  <2>1. ASSUME CloseClient, UNCHANGED closeFailed PROVE ClientUsable'
    BY <1>0, <2>1 DEF CloseClient, ClientState, ClientUsable
  <2>2. CASE Close
    BY <2>1, <2>2 DEF Close, ClientUsable
  <2>3. CASE TakeLockToClose \/ FinishClose \/ FailClose
    BY <2>1, <2>3 DEF TakeLockToClose, FinishClose, FailClose, ClientUsable
  <2> QED BY <1>4, <2>2, <2>3 DEF Shutdown
<1>5. CASE UNCHANGED vars \/ Tick \/ SetWallClock
           \/ \E token \in Tokens : Revoke(token)
  BY <1>1, <1>5 DEF vars, http, Tick, SetWallClock, Revoke
<1> QED BY <1>3, <1>4, <1>5 DEF Next

\* Verifications never meet a closed client, unless close is at work on it
\* or its last attempt raised.
THEOREM ClientStaysUsable == Spec => []ClientUsable
<1>1. Init => ClientUsable
  BY DEF Init, ClientUsable
<1> QED BY <1>1, TypedInit, TypedStep, UsableStep, PTL DEF Spec

----------------------------------------------------------------------------
(* TokenVerifier implements VerifierPromise, however the wall clock is set *)
(* forward.  Timed ties answers and entries to revocations; Backed ties    *)
(* them to expiry and audience.  Together they name, for every acceptance, *)
(* an instant at which the token was active.                               *)

\* Only a verification under way has a token; an active answer was asked for
\* before the token expired; an entry is that of a bound token, does not
\* outlast it, and exists only if there is a cache.
Backed ==
  /\ \A k \in Tasks : tasks[k].pc = "idle" => tasks[k].token = None
  /\ \A k \in Tasks :
       /\ tasks[k].pc = "answered" /\ tasks[k].answer = "active"
       /\ Exp[tasks[k].token] # None
       => tasks[k].sent < Exp[tasks[k].token]
  /\ \A e \in Entries :
       /\ CacheTTL > 0 /\ e.token \in BoundTokens
       /\ Exp[e.token] # None => e.expiry <= Exp[e.token]

IInv == Typed /\ Timed /\ Backed

\* Initially no verification is under way and the cache is empty.
LEMMA BackedInit == Init => Backed
<1> SUFFICES ASSUME Init PROVE Backed
  OBVIOUS
<1>1. Entries = {}
  BY DEF Init, Entries, ToSet
<1>2. \A k \in Tasks : tasks[k].token = None /\ tasks[k].pc # "answered"
  BY DEF Init, Idle
<1> QED BY <1>1, <1>2 DEF Backed

\* What a step may do to tasks and entries without looking at the clock.
LEMMA BackedKept ==
  ASSUME Backed, Entries' \subseteq Entries,
         \A j \in Tasks :
           \/ tasks'[j] = tasks[j] \/ tasks'[j] = Idle
           \/ tasks'[j].pc \in {"lock", "open", "posted"}
  PROVE  Backed'
<1>1. ASSUME NEW k \in Tasks, tasks'[k].pc = "idle" PROVE tasks'[k].token = None
  BY <1>1 DEF Backed, Idle
<1>2. ASSUME NEW k \in Tasks, tasks'[k].pc = "answered",
             tasks'[k].answer = "active", Exp[tasks'[k].token] # None
      PROVE  tasks'[k].sent < Exp[tasks'[k].token]
  BY <1>2 DEF Backed, Idle
<1>3. \A e \in Entries' :
        /\ CacheTTL > 0 /\ e.token \in BoundTokens
        /\ Exp[e.token] # None => e.expiry <= Exp[e.token]
  BY DEF Backed
<1>4. BoundTokens' = BoundTokens
  BY DEF BoundTokens, ResourceValid
<1> QED BY <1>1, <1>2, <1>3, <1>4 DEF Backed

\* An entry that _cache_put makes does not outlast its token.
LEMMA CachePutBacked ==
  ASSUME NEW token \in Tokens, cache \in Seq(Entry),
         now \in Times, ahead \in Nat, CachePut(token)
  PROVE  \A e \in ToSet(cache') :
           \/ e \in Entries
           \/ /\ e.token = token /\ CacheTTL > 0
              /\ Exp[token] # None => e.expiry <= Exp[token]
<1> DEFINE e0 == [token |-> token, expiry |-> now + Lifetime(token)]
           u == Uncached(token)
           put == Append(u, e0)
<1>0. now \in Nat /\ CacheTTL \in Nat /\ MaxTime \in Nat /\ now <= MaxTime
      /\ Exp[token] \in Nat \cup {None}
  BY VerifierAssumption DEF Times
<1>1. CASE CacheTTL = 0 \/ Lifetime(token) <= 0
  BY <1>1 DEF CachePut, Entries
<1>2. CASE ~(CacheTTL = 0 \/ Lifetime(token) <= 0)
  <2>1. Lifetime(token) \in Int /\ Lifetime(token) <= CacheTTL
    BY <1>0, LifetimeBounded
  <2>2. Exp[token] # None => now + Lifetime(token) <= Exp[token]
    BY <1>0, VerifierAssumption DEF Lifetime, Wall
  <2>3. /\ e0 \in Entry /\ e0.token = token /\ CacheTTL > 0
        /\ Exp[token] # None => e0.expiry <= Exp[token]
    BY <1>0, <1>2, <2>1, <2>2 DEF Entry
  <2>4. u \in Seq(Entry) /\ ToSet(u) \subseteq Entries
    BY UncachedKeeps
  <2>5. cache' = IF Len(put) > CacheMaxSize THEN Tail(put) ELSE put
    BY <1>2 DEF CachePut
  <2> HIDE DEF e0, u
  <2>6. put \in Seq(Entry) /\ ToSet(put) = ToSet(u) \cup {e0}
        /\ Len(put) = Len(u) + 1 /\ Len(u) \in Nat
    BY <2>3, <2>4, AppendKey, LenProperties
  <2>7. put # <<>>
    BY <2>6, EmptySeq
  <2> HIDE DEF put
  <2>8. ToSet(Tail(put)) \subseteq ToSet(put)
    BY <2>6, <2>7, DropFirst
  <2> QED BY <2>3, <2>4, <2>5, <2>6, <2>8
<1> QED BY <1>1, <1>2

\* Every step of a verification keeps answers and entries backed.
LEMMA BackedVerify ==
  ASSUME IInv, NEW k \in Tasks, Verify(k)
  PROVE  Backed'
<1> USE DEF IInv
<1>0. cache \in Seq(Entry) /\ tasks \in [Tasks -> TaskState]
  BY DEF Typed, TypeOK
<1> DEFINE Kept == \A j \in Tasks :
             \/ tasks'[j] = tasks[j] \/ tasks'[j] = Idle
             \/ tasks'[j].pc \in {"lock", "open", "posted"}
<1>1. ASSUME NEW token, NEW verdict, NEW via, End(k, token, verdict, via)
      PROVE  Kept
  BY <1>0, <1>1 DEF End
<1>2. ASSUME NEW token, Post(k, token) PROVE Kept
  BY <1>0, <1>1, <1>2 DEF Post
<1>3. ASSUME NEW token, NEW pc \in {"lock", "open"}, Goto(k, pc, token)
      PROVE  Kept
  BY <1>0, <1>3 DEF Goto, TaskState
<1>4. ASSUME NEW token, UseOrOpen(k, token) PROVE Kept
  BY <1>2, <1>3, <1>4 DEF UseOrOpen
<1> HIDE DEF Kept
<1>5. ASSUME NEW token, Kept, cache' \in {cache, Uncached(token)} PROVE Backed'
  <2>1. Entries' \subseteq Entries
    BY <1>0, <1>5, UncachedKeeps DEF Entries
  <2> QED BY <1>5, <2>1, BackedKept DEF Kept
<1>6. ASSUME NEW token \in Tokens, ServeFromCache(k, token) PROVE Backed'
  <2>1. Kept
    BY <1>1, <1>6 DEF ServeFromCache
  <2>2. EntryOf(token) \in Entries /\ EntryOf(token) \in Entry
    BY <1>0, <1>6, EntryFound, ToSetIn DEF ServeFromCache, Fresh, Entries
  <2>3. Uncached(token) \in Seq(Entry) /\ ToSet(Uncached(token)) \subseteq Entries
    BY <1>0, UncachedKeeps
  <2>4. Entries' = ToSet(Uncached(token)) \cup {EntryOf(token)}
    BY <1>6, <2>2, <2>3, AppendKey DEF ServeFromCache, Entries
  <2> QED BY <2>1, <2>2, <2>3, <2>4, BackedKept DEF Kept
<1>7. ASSUME NEW token \in Tokens, RejectUnsafe(k, token) \/ Miss(k, token)
      PROVE  Backed'
  <2>1. Kept
    BY <1>1, <1>3, <1>4, <1>7 DEF RejectUnsafe, Miss
  <2> QED BY <1>5, <1>7, <2>1 DEF RejectUnsafe, Miss
<1>8. ASSUME \/ TakeLock(k) \/ FinishOpen(k) \/ FailOpen(k) \/ FailExchange(k)
             \/ ReceiveInactive(k) \/ ReceiveForeign(k)
      PROVE  Backed'
  <2>1. Kept
    BY <1>1, <1>2, <1>4, <1>8
       DEF TakeLock, FinishOpen, FailOpen, FailExchange, ReceiveInactive,
           ReceiveForeign
  <2>2. cache' \in {cache, Uncached(tasks[k].token)}
    BY <1>8 DEF TakeLock, FinishOpen, FailOpen, FailExchange, ReceiveInactive,
                ReceiveForeign
  <2> QED BY <1>5, <2>1, <2>2
<1>9. ASSUME ReceiveActive(k) PROVE Backed'
  <2> DEFINE token == tasks[k].token
  <2>1. /\ CachePut(token) /\ Kept /\ tasks[k].pc = "answered"
        /\ ValidateResource => ResourceValid(token)
    BY <1>1, <1>9 DEF ReceiveActive
  <2>2. token \in Tokens /\ now \in Times /\ ahead \in Nat
    BY <2>1, VerifierAssumption DEF Typed, Supported, TypeOK
  <2>3. token \in BoundTokens
    BY <2>1, <2>2 DEF BoundTokens
  <2>4. \A e \in Entries' :
          \/ e \in Entries
          \/ /\ e.token = token /\ CacheTTL > 0
             /\ Exp[token] # None => e.expiry <= Exp[token]
    BY <1>0, <2>1, <2>2, CachePutBacked DEF Entries
  <2> HIDE DEF token
  <2>5. \A e \in Entries' :
          /\ CacheTTL > 0 /\ e.token \in BoundTokens
          /\ Exp[e.token] # None => e.expiry <= Exp[e.token]
    BY <2>3, <2>4 DEF Backed
  <2>6. \A j \in Tasks : tasks'[j] = tasks[j] \/ tasks'[j] = Idle
    BY <1>0, <1>9 DEF ReceiveActive, End
  <2>7. BoundTokens' = BoundTokens
    BY DEF BoundTokens, ResourceValid
  <2> QED BY <2>5, <2>6, <2>7 DEF Backed, Idle
<1>10. ASSUME Cancel(k) PROVE Backed'
  <2>1. Kept /\ UNCHANGED cache
    BY <1>0, <1>10 DEF Cancel, Kept
  <2> QED BY <1>5, <2>1
<1>11. ASSUME Answer(k) PROVE Backed'
  <2> DEFINE token == tasks[k].token
  <2>1. /\ tasks[k].pc = "posted" /\ UNCHANGED cache
        /\ tasks' = [tasks EXCEPT ![k].pc = "answered",
             ![k].answer = IF Active(token) THEN "active" ELSE "inactive"]
    BY <1>11 DEF Answer
  <2>2. /\ tasks'[k].pc = "answered" /\ tasks'[k].token = token
        /\ tasks'[k].sent = tasks[k].sent
        /\ tasks'[k].answer = "active" => Active(token)
        /\ \A j \in Tasks : j # k => tasks'[j] = tasks[j]
    BY <1>0, <2>1 DEF TaskState
  <2>3. /\ token \in Tokens /\ tasks[k].sent \in Nat /\ now \in Nat
        /\ tasks[k].sent <= now /\ Exp[token] \in Nat \cup {None}
    BY <2>1, VerifierAssumption
       DEF Typed, Supported, TypeOK, TaskState, Times, Timed, Exchanging
  <2> HIDE DEF token
  <2>4. Active(token) /\ Exp[token] # None => tasks[k].sent < Exp[token]
    BY <2>3 DEF Active
  <2>5. \A j \in Tasks :
          /\ tasks'[j].pc = "answered" /\ tasks'[j].answer = "active"
          /\ Exp[tasks'[j].token] # None
          => tasks'[j].sent < Exp[tasks'[j].token]
    BY <2>2, <2>4 DEF Backed
  <2>6. \A j \in Tasks : tasks'[j].pc = "idle" => tasks'[j].token = None
    BY <2>2 DEF Backed
  <2>7. BoundTokens' = BoundTokens /\ Entries' = Entries
    BY <2>1 DEF BoundTokens, ResourceValid, Entries
  <2> QED BY <2>5, <2>6, <2>7 DEF Backed
<1> QED BY <1>6, <1>7, <1>8, <1>9, <1>10, <1>11 DEF Verify

\* Every step keeps the invariant.
LEMMA IInvStep == IInv /\ [Next]_vars => IInv'
<1> SUFFICES ASSUME IInv, [Next]_vars PROVE Backed'
  BY TypedStep, TimedStep DEF IInv
<1>1. ASSUME NEW k \in Tasks, Verify(k) PROVE Backed'
  BY <1>1, BackedVerify
<1>2. ASSUME UNCHANGED <<tasks, cache>> PROVE Backed'
  <2>1. Entries' = Entries
    BY <1>2 DEF Entries
  <2> QED BY <1>2, <2>1, BackedKept DEF IInv
<1>3. CASE UNCHANGED vars \/ Shutdown \/ Tick \/ SetWallClock
           \/ \E token \in Tokens : Revoke(token)
  BY <1>2, <1>3 DEF vars, Shutdown, Close, TakeLockToClose, FinishClose,
                   FailClose, Tick, SetWallClock, Revoke
<1> QED BY <1>1, <1>3 DEF Next

\* The invariant holds initially.
LEMMA IInvInit == Init => IInv
BY TypedInit, TimedInit, BackedInit DEF IInv

----------------------------------------------------------------------------
(* Steps of TokenVerifier as steps of VerifierPromise. *)

\* The verification of k is under way for token, and nobody else's changes.
Waits(k, token) ==
  /\ Asked' = [Asked EXCEPT ![k] = token]
  /\ Verdict' = Promise!Undecided
  /\ UNCHANGED <<revokedAt, now>>

\* A verification that ends, seen from outside.
LEMMA EndMaps ==
  ASSUME Typed, NEW k \in Tasks, NEW token, NEW verdict, NEW via,
         tasks[k].token \in {token, None},
         End(k, token, verdict, via), UNCHANGED <<revokedAt, now>>
  PROVE  Promise!Decide(k, token, verdict)
<1>1. tasks' = [tasks EXCEPT ![k] = Idle] /\ tasks \in [Tasks -> TaskState]
  BY DEF End, Typed, TypeOK
<1>2. Asked' = [Asked EXCEPT ![k] = None]
  BY <1>1 DEF Asked, Idle
<1>3. Asked[k] = tasks[k].token
  BY DEF Asked
<1>4. Verdict' = [token |-> token, outcome |-> verdict]
  BY DEF End, Verdict
<1> QED BY <1>2, <1>3, <1>4 DEF Promise!Decide

\* Every other step of a verification leaves it waiting for its token.
LEMMA WaitMaps ==
  ASSUME Typed, NEW k \in Tasks, NEW token, reply' = NoReply,
         UNCHANGED <<revokedAt, now>>,
         \E t0 : t0.token = token /\ tasks' = [tasks EXCEPT ![k] = t0]
  PROVE  Waits(k, token)
<1>1. tasks \in [Tasks -> TaskState]
  BY DEF Typed, TypeOK
<1>2. Asked' = [Asked EXCEPT ![k] = token]
  BY <1>1 DEF Asked
<1>3. Verdict' = Promise!Undecided
  BY DEF Verdict, NoReply, Promise!Undecided
<1> QED BY <1>2, <1>3 DEF Waits

\* Sending the request, or failing to.
LEMMA PostMaps ==
  ASSUME Typed, NEW k \in Tasks, NEW token, Post(k, token),
         UNCHANGED <<revokedAt, now>>
  PROVE  Waits(k, token) \/ End(k, token, "refused", "error")
<1> DEFINE t0 == [pc |-> "posted", token |-> token, answer |-> None, sent |-> now]
<1>1. CASE client'.context = "open"
  <2>1. tasks' = [tasks EXCEPT ![k] = t0] /\ reply' = NoReply /\ t0.token = token
    BY <1>1 DEF Post
  <2> QED BY <2>1, WaitMaps
<1>2. CASE client'.context # "open"
  BY <1>2 DEF Post
<1> QED BY <1>1, <1>2

\* Moving to another wait.
LEMMA GotoMaps ==
  ASSUME Typed, NEW k \in Tasks, NEW token, NEW pc, Goto(k, pc, token),
         reply' = NoReply, UNCHANGED <<revokedAt, now>>
  PROVE  Waits(k, token)
<1> DEFINE t0 == [tasks[k] EXCEPT !.pc = pc, !.token = token]
<1>1. tasks \in [Tasks -> TaskState]
  BY DEF Typed, TypeOK
<1>2. tasks' = [tasks EXCEPT ![k] = t0]
  BY <1>1 DEF Goto
<1>3. t0.token = token
  BY <1>1 DEF TaskState
<1> QED BY <1>2, <1>3, WaitMaps

\* _get_client with the lock held.
LEMMA UseOrOpenMaps ==
  ASSUME Typed, NEW k \in Tasks, NEW token, UseOrOpen(k, token),
         UNCHANGED <<revokedAt, now>>
  PROVE  Waits(k, token) \/ End(k, token, "refused", "error")
<1>1. CASE client.ready
  BY <1>1, PostMaps DEF UseOrOpen
<1>2. CASE ~client.ready
  BY <1>2, GotoMaps DEF UseOrOpen
<1> QED BY <1>1, <1>2

\* What was known of a token at an instant not longer ago than Lag suffices.
LEMMA ActiveRecently ==
  ASSUME IInv, NEW token \in BoundTokens, NEW instant \in Int,
         now - Lag <= instant, instant <= now,
         revokedAt[token] # None => instant <= revokedAt[token],
         Exp[token] # None => instant < Exp[token]
  PROVE  Promise!Acceptable(token)
<1>1. now \in Int /\ Lag \in Int
  BY VerifierAssumption DEF IInv, Typed, TypeOK, Times, Lag
<1>2. instant \in (now - Lag)..now
  BY <1>1
<1>3. Promise!ActiveAt(token, instant)
  BY DEF Promise!ActiveAt
<1> QED BY <1>2, <1>3 DEF Promise!Acceptable

\* A fresh entry speaks of the instant at which the longest exchange would
\* have been sent.
LEMMA CachedAcceptable ==
  ASSUME IInv, NEW token \in Tokens, Fresh(token)
  PROVE  Promise!Acceptable(token)
<1> DEFINE e == EntryOf(token)
           instant == e.expiry - CacheTTL - MaxDelay
<1>1. cache \in Seq(Entry) /\ now \in Nat /\ CacheTTL \in Nat /\ MaxDelay \in Nat
      /\ revokedAt[token] \in Nat \cup {None} /\ Exp[token] \in Nat \cup {None}
  BY VerifierAssumption DEF IInv, Typed, TypeOK, Times
<1>2. e \in Entries /\ e.token = token /\ now < e.expiry
  BY EntryFound DEF Fresh
<1>3. e.expiry \in Int
  <2>1. e \in Entry
    BY <1>1, <1>2, ToSetIn DEF Entries
  <2> QED BY <2>1, VerifierAssumption DEF Entry
<1>4. /\ e.expiry <= now + CacheTTL
      /\ revokedAt[token] # None =>
           e.expiry <= revokedAt[token] + MaxDelay + CacheTTL
  BY <1>2 DEF IInv, Timed
<1>5. /\ CacheTTL > 0 /\ token \in BoundTokens
      /\ Exp[token] # None => e.expiry <= Exp[token]
  BY <1>2 DEF IInv, Backed
<1> HIDE DEF e
<1>6. instant \in Int /\ instant <= now
  BY <1>1, <1>3, <1>4
<1>7. now - Lag <= instant
  BY <1>1, <1>2, <1>3, <1>5 DEF Lag
<1>8. revokedAt[token] # None => instant <= revokedAt[token]
  BY <1>1, <1>3, <1>4, PromiseAssumption
<1>9. Exp[token] # None => instant < Exp[token]
  BY <1>1, <1>3, <1>5
<1> HIDE DEF instant
<1> QED BY <1>5, <1>6, <1>7, <1>8, <1>9, ActiveRecently

\* An active answer speaks of the instant its request was sent.
LEMMA AnswerAcceptable ==
  ASSUME IInv, NEW k \in Tasks, ReceiveActive(k)
  PROVE  Promise!Acceptable(tasks[k].token)
<1> DEFINE token == tasks[k].token
           instant == tasks[k].sent
<1>1. /\ tasks[k].pc = "answered" /\ tasks[k].answer = "active"
      /\ ValidateResource => ResourceValid(token)
  BY DEF ReceiveActive
<1>2. token \in BoundTokens
  BY <1>1 DEF IInv, Typed, Supported, BoundTokens
<1>3. now \in Nat /\ CacheTTL \in Nat /\ MaxDelay \in Nat /\ instant \in Nat
  BY VerifierAssumption DEF IInv, Typed, TypeOK, TaskState, Times
<1>4. instant <= now /\ now <= instant + MaxDelay
  BY <1>1 DEF IInv, Timed, Exchanging
<1>5. /\ revokedAt[token] # None => instant <= revokedAt[token]
      /\ Exp[token] # None => instant < Exp[token]
  BY <1>1 DEF IInv, Timed, Backed
<1> HIDE DEF token, instant
<1>6. now - Lag <= instant /\ instant \in Int
  BY <1>3, <1>4 DEF Lag
<1>7. Promise!Acceptable(token)
  BY <1>2, <1>4, <1>5, <1>6, ActiveRecently
<1> QED BY <1>7 DEF token

\* Every step of a verification is one that the promise allows.
LEMMA VerifyMaps ==
  ASSUME IInv, NEW k \in Tasks, Verify(k)
  PROVE  Promise!Next
<1>0. /\ Typed /\ tasks \in [Tasks -> TaskState] /\ Asked[k] = tasks[k].token
      /\ tasks[k].pc = "idle" => tasks[k].token = None
      /\ tasks[k].pc # "idle" => tasks[k].token \in Tokens
  BY DEF IInv, Typed, TypeOK, Supported, Backed, Asked
<1>1. ASSUME NEW token \in Tokens, NEW via, tasks[k].token \in {token, None},
             End(k, token, "refused", via), UNCHANGED <<revokedAt, now>>
      PROVE  Promise!Next
  <2>1. Promise!Refuse(k, token)
    BY <1>0, <1>1, EndMaps DEF Promise!Refuse
  <2> QED BY <2>1 DEF Promise!Next
<1>2. ASSUME NEW token \in Tokens, NEW via, tasks[k].token \in {token, None},
             End(k, token, "accepted", via), UNCHANGED <<revokedAt, now>>,
             Promise!Acceptable(token)
      PROVE  Promise!Next
  <2>1. Promise!Accept(k, token)
    BY <1>0, <1>2, EndMaps DEF Promise!Accept
  <2> QED BY <2>1 DEF Promise!Next
<1>3. ASSUME NEW token \in Tokens, tasks[k].pc = "idle", Waits(k, token)
      PROVE  Promise!Next
  <2>1. Promise!Ask(k, token)
    BY <1>0, <1>3 DEF Promise!Ask, Waits
  <2> QED BY <2>1 DEF Promise!Next
<1>4. ASSUME Waits(k, tasks[k].token) PROVE Promise!Next
  <2>1. Asked' = Asked
    BY <1>0, <1>4 DEF Waits, Asked
  <2>2. Promise!Deliver
    BY <1>4, <2>1 DEF Promise!Deliver, Waits
  <2> QED BY <2>2 DEF Promise!Next
<1>5. ASSUME NEW token \in Tokens, RejectUnsafe(k, token) PROVE Promise!Next
  BY <1>0, <1>1, <1>5 DEF RejectUnsafe, env
<1>6. ASSUME NEW token \in Tokens, ServeFromCache(k, token) PROVE Promise!Next
  <2>1. Promise!Acceptable(token)
    BY <1>6, CachedAcceptable DEF ServeFromCache
  <2> QED BY <1>0, <1>2, <1>6, <2>1 DEF ServeFromCache, env
<1>7. ASSUME NEW token \in Tokens, Miss(k, token) PROVE Promise!Next
  <2>1. tasks[k].pc = "idle" /\ UNCHANGED <<revokedAt, now>>
    BY <1>7 DEF Miss, env
  <2>2. Waits(k, token) \/ End(k, token, "refused", "error")
    BY <1>0, <1>7, <2>1, UseOrOpenMaps, GotoMaps DEF Miss
  <2> QED BY <1>0, <1>1, <1>3, <2>1, <2>2
<1>8. ASSUME TakeLock(k) \/ FinishOpen(k) PROVE Promise!Next
  <2>1. tasks[k].token \in Tokens /\ UNCHANGED <<revokedAt, now>>
    BY <1>0, <1>8 DEF TakeLock, FinishOpen, env
  <2>2. \/ Waits(k, tasks[k].token)
        \/ End(k, tasks[k].token, "refused", "error")
    BY <1>0, <1>8, <2>1, UseOrOpenMaps, PostMaps DEF TakeLock, FinishOpen
  <2> QED BY <1>1, <1>4, <2>1, <2>2
<1>9. ASSUME \/ FailOpen(k) \/ FailExchange(k)
             \/ ReceiveInactive(k) \/ ReceiveForeign(k)
      PROVE  Promise!Next
  BY <1>0, <1>1, <1>9
     DEF FailOpen, FailExchange, Exchanging, ReceiveInactive, ReceiveForeign, env
<1>10. ASSUME ReceiveActive(k) PROVE Promise!Next
  <2>1. Promise!Acceptable(tasks[k].token)
    BY <1>10, AnswerAcceptable
  <2> QED BY <1>0, <1>2, <1>10, <2>1 DEF ReceiveActive, env
<1>11. ASSUME Cancel(k) PROVE Promise!Next
  <2>1. Asked[k] # None
    BY <1>0, <1>11, PromiseAssumption DEF Cancel
  <2>2. Waits(k, None)
    BY <1>0, <1>11, WaitMaps DEF Cancel, Idle, env
  <2>3. Promise!Abandon(k)
    BY <2>1, <2>2 DEF Promise!Abandon, Waits
  <2> QED BY <2>3 DEF Promise!Next
<1>12. ASSUME Answer(k) PROVE Promise!Next
  <2> DEFINE a == IF Active(tasks[k].token) THEN "active" ELSE "inactive"
             t0 == [tasks[k] EXCEPT !.pc = "answered", !.answer = a]
  <2>1. tasks' = [tasks EXCEPT ![k] = t0] /\ t0.token = tasks[k].token
    BY <1>0, <1>12 DEF Answer, TaskState
  <2> HIDE DEF t0
  <2>2. Waits(k, tasks[k].token)
    BY <1>0, <1>12, <2>1, WaitMaps DEF Answer, env
  <2> QED BY <1>4, <2>2
<1> QED BY <1>5, <1>6, <1>7, <1>8, <1>9, <1>10, <1>11, <1>12 DEF Verify

\* So is every step of close and of the environment, or it is invisible.
LEMMA StepMaps == IInv /\ [Next]_vars => [Promise!Next]_Promise!vars
<1> SUFFICES ASSUME IInv, [Next]_vars PROVE [Promise!Next]_Promise!vars
  OBVIOUS
<1>1. ASSUME NEW k \in Tasks, Verify(k) PROVE Promise!Next
  BY <1>1, VerifyMaps
<1>2. ASSUME reply' = NoReply PROVE Verdict' = Promise!Undecided
  BY <1>2 DEF Verdict, NoReply, Promise!Undecided
<1>3. ASSUME UNCHANGED tasks PROVE Asked' = Asked
  BY <1>3 DEF Asked
<1>4. CASE Shutdown \/ SetWallClock
  <2>1. reply' = NoReply /\ UNCHANGED <<tasks, revokedAt, now>>
    BY <1>4 DEF Shutdown, Close, TakeLockToClose, FinishClose, FailClose,
                SetWallClock, env
  <2> QED BY <1>2, <1>3, <2>1 DEF Promise!Next, Promise!Deliver
<1>5. CASE \E token \in Tokens : Revoke(token)
  BY <1>2, <1>3, <1>5 DEF Revoke, Promise!Next, Promise!Revoke
<1>6. CASE Tick
  BY <1>2, <1>3, <1>6 DEF Tick, Promise!Next, Promise!Tick
<1>7. CASE UNCHANGED vars
  BY <1>3, <1>7 DEF vars, env, Verdict, Promise!vars
<1> QED BY <1>1, <1>4, <1>5, <1>6, <1>7 DEF Next

\* The first state of the promise.
LEMMA InitMaps == Init => Promise!Init
BY DEF Init, Asked, Verdict, Idle, NoReply, Promise!Init, Promise!Undecided

\* TokenVerifier implements VerifierPromise: whatever caching, locking,
\* failures, cancellation and close do together, no token is accepted but one
\* bound to this resource and active at most Lag ago.
THEOREM Refinement == Spec => KeepsPromise
BY InitMaps, StepMaps, IInvInit, IInvStep, PTL DEF Spec, KeepsPromise, Promise!Spec

----------------------------------------------------------------------------
(* What follows for single properties. *)

\* A step that accepts is one of two.
LEMMA AcceptingSteps ==
  ASSUME Next, reply'.verdict = "accepted"
  PROVE  \E k \in Tasks :
           \/ \E token \in Tokens : ServeFromCache(k, token)
           \/ ReceiveActive(k)
<1>1. \A k \in Tasks : \A token, via : ~End(k, token, "refused", via)
  BY DEF End
<1>2. reply' # NoReply
  BY VerifierAssumption DEF NoReply
<1>3. ASSUME NEW k \in Tasks, NEW token, Post(k, token) PROVE FALSE
  BY <1>1, <1>2, <1>3 DEF Post
<1>4. ASSUME NEW k \in Tasks, NEW token, UseOrOpen(k, token) PROVE FALSE
  BY <1>2, <1>3, <1>4 DEF UseOrOpen
<1>5. PICK k \in Tasks : Verify(k)
  BY <1>2 DEF Next, Shutdown, Close, TakeLockToClose, FinishClose, FailClose,
              Revoke, Tick, SetWallClock
<1> QED BY <1>1, <1>2, <1>3, <1>4, <1>5
     DEF Verify, RejectUnsafe, Miss, TakeLock, FinishOpen, FailOpen,
         FailExchange, ReceiveInactive, ReceiveForeign, Cancel, Answer

\* No token issued for another resource is accepted, from the cache or fresh.
THEOREM AudienceBound == Spec => []BoundToThisResource
<1>1. Init => BoundToThisResource
  BY VerifierAssumption DEF Init, BoundToThisResource, NoReply
<1>2. IInv /\ BoundToThisResource /\ [Next]_vars => BoundToThisResource'
  <2> SUFFICES ASSUME IInv, Next, ValidateResource, reply'.verdict = "accepted"
               PROVE  ResourceValid(reply'.token)
    BY DEF BoundToThisResource, ResourceValid, vars
  <2>1. PICK k \in Tasks : \/ \E token \in Tokens : ServeFromCache(k, token)
                           \/ ReceiveActive(k)
    BY AcceptingSteps
  <2>2. ASSUME NEW token \in Tokens, ServeFromCache(k, token)
        PROVE  ResourceValid(reply'.token)
    <3>1. reply'.token = token /\ token \in Cached
      BY <2>2 DEF ServeFromCache, Fresh, End
    <3> QED BY <3>1 DEF Cached, IInv, Backed, BoundTokens
  <2>3. ASSUME ReceiveActive(k) PROVE ResourceValid(reply'.token)
    BY <2>3 DEF ReceiveActive, End
  <2> QED BY <2>1, <2>2, <2>3
<1> QED BY <1>1, <1>2, IInvInit, IInvStep, PTL DEF Spec

\* Only the look-up of a fresh entry serves from the cache.
LEMMA CacheServes ==
  ASSUME Next, reply'.via = "cache"
  PROVE  \E k \in Tasks, token \in Tokens : ServeFromCache(k, token)
<1>1. \A k \in Tasks : \A token, verdict :
        \A via \in {"fresh", "error"} : ~End(k, token, verdict, via)
  BY DEF End
<1>2. reply' # NoReply
  BY VerifierAssumption DEF NoReply
<1>3. ASSUME NEW k \in Tasks, NEW token, Post(k, token) PROVE FALSE
  BY <1>1, <1>2, <1>3 DEF Post
<1>4. ASSUME NEW k \in Tasks, NEW token, UseOrOpen(k, token) PROVE FALSE
  BY <1>2, <1>3, <1>4 DEF UseOrOpen
<1>5. PICK k \in Tasks : Verify(k)
  BY <1>2 DEF Next, Shutdown, Close, TakeLockToClose, FinishClose, FailClose,
              Revoke, Tick, SetWallClock
<1> QED BY <1>1, <1>2, <1>3, <1>4, <1>5
     DEF Verify, RejectUnsafe, Miss, TakeLock, FinishOpen, FailOpen,
         FailExchange, ReceiveInactive, ReceiveForeign, ReceiveActive, Cancel,
         Answer

\* The cache serves no token later after its expiry than the wall clock was
\* set forward, and none at all after it if the wall clock was not set.
THEOREM ExpiryRespected == Spec => []NeverServedPastExpiry
<1>1. Init => NeverServedPastExpiry
  BY VerifierAssumption DEF Init, NeverServedPastExpiry, NoReply
<1>2. IInv /\ NeverServedPastExpiry /\ [Next]_vars => NeverServedPastExpiry'
  <2>1. CASE UNCHANGED vars
    BY <2>1 DEF NeverServedPastExpiry, Wall, vars, env
  <2>2. ASSUME IInv, Next, reply'.via = "cache", Exp[reply'.token] # None
        PROVE  Wall' < Exp[reply'.token] + ahead'
    <3>1. PICK k \in Tasks, token \in Tokens : ServeFromCache(k, token)
      BY <2>2, CacheServes
    <3>2. /\ reply'.token = token /\ now' = now /\ ahead' = ahead
          /\ token \in Cached /\ now < EntryOf(token).expiry
      BY <3>1 DEF ServeFromCache, Fresh, End, env
    <3>3. EntryOf(token) \in Entries /\ EntryOf(token).token = token
      BY <3>2, EntryFound
    <3>4. EntryOf(token).expiry <= Exp[token]
      BY <2>2, <3>2, <3>3 DEF IInv, Backed
    <3>5. /\ now \in Nat /\ ahead \in Nat /\ Exp[token] \in Nat
          /\ cache \in Seq(Entry)
      BY <2>2, <3>2, VerifierAssumption DEF IInv, Typed, TypeOK, Times
    <3>6. EntryOf(token).expiry \in Nat
      <4>1. EntryOf(token) \in Entry
        BY <3>3, <3>5, ToSetIn DEF Entries
      <4> QED BY <4>1, VerifierAssumption DEF Entry
    <3> QED BY <3>2, <3>4, <3>5, <3>6 DEF Wall
  <2> QED BY <2>1, <2>2 DEF NeverServedPastExpiry
<1> QED BY <1>1, <1>2, IInvInit, IInvStep, PTL DEF Spec
============================================================================
