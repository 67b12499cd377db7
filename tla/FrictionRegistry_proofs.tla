----------------------- MODULE FrictionRegistry_proofs -----------------------
(* Proofs about FrictionRegistry, for every number of clients and tools    *)
(* and every setting, in three parts.  The first is the bookkeeping of the *)
(* registry: the domains of its dictionaries and the access order.  The    *)
(* second is the penalty store, what an evicted client finds when it comes *)
(* back, for which the friction of the controllers must stay in range.     *)
(* The third is budgets.                                                   *)
EXTENDS FrictionRegistry, OrderedDict_proofs, FrictionControl_proofs

\* What the registry keeps.  Its invariants do not depend on the reply, which
\* a user of the registry may forget in a step of its own.
registry == <<controllers, order, penalties, now, evicted>>

\* A step of the registry's own specification is one of those.
LEMMA RegistrySteps == [Next]_vars => [Next]_registry
BY DEF vars, registry

\* The access order lists the live clients, each once.  Lists is stated of
\* a registry state r, as _get_or_create passes through several.
Lists(r) ==
  /\ r.order \in Seq(Clients)
  /\ Distinct(r.order)
  /\ ToSet(r.order) = DOMAIN r.live
  /\ IsFiniteSet(DOMAIN r.live)
  /\ Cardinality(DOMAIN r.live) = Len(r.order)
  /\ Len(r.order) <= MaxClients

\* No stored penalty belongs to a live client.
Apart(r) == DOMAIN r.live \cap DOMAIN r.store = {}

----------------------------------------------------------------------------
(* Part 1, the bookkeeping: the domains of the dictionaries. *)

\* Pruning only removes entries, capturing only adds that of the client.
LEMMA CaptureDomain ==
  ASSUME NEW store, NEW client, NEW friction, NEW at
  PROVE  DOMAIN Capture(store, client, friction, at)
           \subseteq DOMAIN store \cup {client}
<1>1. DOMAIN Prune(store, at) \subseteq DOMAIN store
  BY DEF Prune, Without
<1>2. \A s, v : DOMAIN Put(s, client, v) = DOMAIN s \cup {client}
  BY DEF Put
<1> QED BY <1>1, <1>2 DEF Capture

\* Evicting the least recently used client.
LEMMA EvictKeeps ==
  ASSUME NEW r, NEW at, Lists(r), Apart(r), r.order # <<>>
  PROVE  /\ Lists(Evict(r, at)) /\ Apart(Evict(r, at))
         /\ Len(Evict(r, at).order) = Len(r.order) - 1
         /\ DOMAIN Evict(r, at).live \subseteq DOMAIN r.live
<1> DEFINE e == Evict(r, at)
           v == Head(r.order)
<1>1. /\ e.order = Tail(r.order) /\ DOMAIN e.live = DOMAIN r.live \ {v}
      /\ e.store = Capture(r.store, v, r.live[v].friction, at)
  BY DEF Evict, Without
<1>2. /\ v \in ToSet(r.order) /\ e.order \in Seq(Clients)
      /\ Len(e.order) = Len(r.order) - 1
      /\ ToSet(r.order) = {v} \cup ToSet(e.order)
      /\ Distinct(e.order) /\ v \notin ToSet(e.order)
  BY <1>1, DropFirst DEF Lists
<1>3. DOMAIN e.store \subseteq DOMAIN r.store \cup {v}
  BY <1>1, CaptureDomain
<1> HIDE DEF e, v
<1>4. /\ IsFiniteSet(DOMAIN e.live)
      /\ Cardinality(DOMAIN e.live) = Cardinality(DOMAIN r.live) - 1
  <2>1. IsFiniteSet(DOMAIN r.live) /\ v \in DOMAIN r.live
    BY <1>2 DEF Lists
  <2>2. /\ IsFiniteSet(DOMAIN r.live \ {v})
        /\ Cardinality(DOMAIN r.live \ {v}) = Cardinality(DOMAIN r.live) - 1
    BY <2>1, FS_RemoveElement
  <2> QED BY <1>1, <2>2
<1>5. Len(e.order) <= MaxClients
  <2>1. Len(r.order) \in Nat /\ MaxClients \in Nat
    BY LenProperties, RegistryAssumption DEF Lists
  <2> QED BY <1>2, <2>1 DEF Lists
<1>6. Lists(e)
  BY <1>1, <1>2, <1>4, <1>5 DEF Lists
<1>7. Apart(e)
  BY <1>1, <1>3 DEF Apart
<1> QED BY <1>1, <1>2, <1>6, <1>7 DEF e

\* Creating the controller of a client that has none, when there is room.
LEMMA AdmitKeeps ==
  ASSUME NEW r, NEW client \in Clients, NEW at, Lists(r), Apart(r),
         client \notin DOMAIN r.live, Len(r.order) < MaxClients
  PROVE  Lists(Admit(r, client, at)) /\ Apart(Admit(r, client, at))
         /\ client \in DOMAIN Admit(r, client, at).live
<1> DEFINE e == Admit(r, client, at)
<1>1. /\ e.order = Append(r.order, client)
      /\ DOMAIN e.live = DOMAIN r.live \cup {client}
      /\ DOMAIN e.store = DOMAIN r.store \ {client}
  BY DEF Admit, Put, Without
<1>2. /\ e.order \in Seq(Clients) /\ Len(e.order) = Len(r.order) + 1
      /\ ToSet(e.order) = ToSet(r.order) \cup {client} /\ Distinct(e.order)
  BY <1>1, AppendKey DEF Lists
<1> HIDE DEF e
<1>3. /\ IsFiniteSet(DOMAIN e.live)
      /\ Cardinality(DOMAIN e.live) = Cardinality(DOMAIN r.live) + 1
  <2>1. /\ IsFiniteSet(DOMAIN r.live \cup {client})
        /\ Cardinality(DOMAIN r.live \cup {client}) = Cardinality(DOMAIN r.live) + 1
    BY FS_AddElement DEF Lists
  <2> QED BY <1>1, <2>1
<1>4. Len(e.order) <= MaxClients
  <2>1. Len(r.order) \in Nat /\ MaxClients \in Nat
    BY LenProperties, RegistryAssumption DEF Lists
  <2> QED BY <1>2, <2>1
<1>5. Lists(e)
  BY <1>1, <1>2, <1>3, <1>4 DEF Lists
<1>6. Apart(e)
  BY <1>1 DEF Apart
<1> QED BY <1>1, <1>5, <1>6 DEF e

\* Marking a live client as the most recently used one.
LEMMA MoveToEndKeeps ==
  ASSUME NEW r, NEW client \in Clients, Lists(r), client \in DOMAIN r.live,
         NEW e, e = [r EXCEPT !.order = MoveToEnd(@, client)],
         r \in [live : {r.live}, order : {r.order}, store : {r.store}]
  PROVE  Lists(e) /\ e.live = r.live /\ e.store = r.store
<1> DEFINE s == r.order
           S == {i \in DOMAIN s : s[i] = client}
           u == RemoveOne(s, S)
<1>0. /\ s \in Seq(Clients) /\ DOMAIN s = 1..Len(s) /\ Len(s) \in Nat
      /\ Distinct(s) /\ client \in ToSet(s)
  BY LenProperties DEF Lists
<1>1. e.live = r.live /\ e.store = r.store /\ e.order = Append(u, client)
  BY DEF MoveToEnd
<1>2. S \in SUBSET (1..Len(s)) /\ (\A i, j \in S : i = j)
      /\ (\A i \in S : s[i] = client)
  BY <1>0 DEF Distinct
<1>3. \E i \in DOMAIN s : s[i] = client
  BY <1>0 DEF ToSet
<1>4. PICK i \in S : S = {i}
  BY <1>2, <1>3
<1>5. \A j \in 1..Len(s) : j \notin S => s[j] # client
  BY <1>0
<1> HIDE DEF S
<1>6. /\ u \in Seq(Clients) /\ Len(u) = IF S = {} THEN Len(s) ELSE Len(s) - 1
      /\ ToSet(u) \subseteq ToSet(s) /\ Distinct(u)
      /\ \A j \in 1..Len(s) : j \notin S => s[j] \in ToSet(u)
      /\ \A j \in S : S = {j} => s[j] \notin ToSet(u)
  BY <1>0, <1>2, RemoveOneProperties
<1> HIDE DEF u
<1>7. client \notin ToSet(u)
  BY <1>2, <1>4, <1>6
<1>8. ToSet(s) = ToSet(u) \cup {client}
  <2>1. ASSUME NEW j \in 1..Len(s) PROVE s[j] \in ToSet(u) \cup {client}
    BY <1>2, <1>6
  <2>2. ToSet(s) \subseteq ToSet(u) \cup {client}
    BY <1>0, <2>1 DEF ToSet
  <2> QED BY <1>0, <1>6, <2>2
<1>9. /\ e.order \in Seq(Clients) /\ Distinct(e.order)
      /\ Len(e.order) = Len(u) + 1 /\ ToSet(e.order) = ToSet(u) \cup {client}
  <2>1. /\ Append(u, client) \in Seq(Clients) /\ Distinct(Append(u, client))
        /\ Len(Append(u, client)) = Len(u) + 1
        /\ ToSet(Append(u, client)) = ToSet(u) \cup {client}
    BY <1>6, <1>7, AppendKey
  <2> QED BY <1>1, <2>1
<1>10. Len(e.order) = Len(s)
  <2>1. Len(u) = Len(s) - 1
    BY <1>4, <1>6
  <2> QED BY <1>0, <1>9, <2>1
<1> QED BY <1>1, <1>8, <1>9, <1>10 DEF Lists

\* _get_or_create.
LEMMA GetOrCreateKeeps ==
  ASSUME NEW client \in Clients, Lists(Registry), Apart(Registry)
  PROVE  LET r == GetOrCreate(Registry, client, now)
         IN  Lists(r) /\ Apart(r) /\ client \in DOMAIN r.live
<1> DEFINE r0 == Registry
           r == GetOrCreate(r0, client, now)
<1>0. r0 \in [live : {r0.live}, order : {r0.order}, store : {r0.store}]
  BY DEF Registry
<1>1. Len(r0.order) \in Nat /\ MaxClients \in Nat \ {0}
      /\ Cardinality(DOMAIN r0.live) = Len(r0.order) /\ Len(r0.order) <= MaxClients
  BY LenProperties, RegistryAssumption DEF Lists
<1>2. CASE client \in DOMAIN r0.live
  <2>1. r = [r0 EXCEPT !.order = MoveToEnd(@, client)]
    BY <1>2 DEF GetOrCreate
  <2>2. Lists(r) /\ r.live = r0.live /\ r.store = r0.store
    BY <1>0, <1>2, <2>1, MoveToEndKeeps
  <2> QED BY <1>2, <2>2 DEF Apart
<1>3. CASE client \notin DOMAIN r0.live /\ Full(r0)
  <2>1. r = Admit(Evict(r0, now), client, now)
    BY <1>3 DEF GetOrCreate
  <2>2. r0.order # <<>>
    BY <1>1, <1>3, EmptySeq DEF Full
  <2>3. /\ Lists(Evict(r0, now)) /\ Apart(Evict(r0, now))
        /\ Len(Evict(r0, now).order) = Len(r0.order) - 1
        /\ DOMAIN Evict(r0, now).live \subseteq DOMAIN r0.live
    BY <2>2, EvictKeeps
  <2>4. Len(Evict(r0, now).order) < MaxClients
    BY <1>1, <2>3
  <2>5. client \notin DOMAIN Evict(r0, now).live
    BY <1>3, <2>3
  <2> QED BY <2>1, <2>3, <2>4, <2>5, AdmitKeeps
<1>4. CASE client \notin DOMAIN r0.live /\ ~Full(r0)
  <2>1. r = Admit(r0, client, now)
    BY <1>4 DEF GetOrCreate
  <2>2. Len(r0.order) < MaxClients
    BY <1>1, <1>4 DEF Full
  <2> QED BY <1>4, <2>1, <2>2, AdmitKeeps
<1> QED BY <1>2, <1>3, <1>4

----------------------------------------------------------------------------
(* The registry's state. *)

Listed == Lists(Registry)

\* A call of either kind goes through _get_or_create and then replaces the
\* controller of its client.
LEMMA CallKeeps ==
  ASSUME Listed, PenaltyOnlyForEvicted, NEW client \in Clients, NEW c,
         Becomes(GetOrCreate(Registry, client, now), client, c)
  PROVE  Listed' /\ PenaltyOnlyForEvicted'
<1> DEFINE r == GetOrCreate(Registry, client, now)
<1>1. Lists(Registry) /\ Apart(Registry)
  BY DEF Listed, Apart, PenaltyOnlyForEvicted, Live, Registry
<1>2. Lists(r) /\ Apart(r)
  BY <1>1, GetOrCreateKeeps
<1>3. /\ controllers' = [r.live EXCEPT ![client] = c]
      /\ order' = r.order /\ penalties' = r.store
  BY DEF Becomes
<1> HIDE DEF r
<1>4. DOMAIN controllers' = DOMAIN r.live
  BY <1>3
<1>5. /\ Registry'.live = controllers' /\ Registry'.order = order'
      /\ Registry'.store = penalties'
  BY DEF Registry
<1>6. Listed'
  <2>1. /\ DOMAIN Registry'.live = DOMAIN r.live /\ Registry'.order = r.order
    BY <1>3, <1>4, <1>5
  <2> QED BY <1>2, <2>1 DEF Listed, Lists
<1>7. PenaltyOnlyForEvicted'
  BY <1>2, <1>3, <1>4 DEF Apart, PenaltyOnlyForEvicted, Live
<1> QED BY <1>6, <1>7

\* Every step keeps the bookkeeping.
LEMMA BookkeepingStep ==
  Listed /\ PenaltyOnlyForEvicted /\ [Next]_registry
    => Listed' /\ PenaltyOnlyForEvicted'
<1> SUFFICES ASSUME Listed, PenaltyOnlyForEvicted, [Next]_registry
             PROVE  Listed' /\ PenaltyOnlyForEvicted'
  OBVIOUS
<1>1. ASSUME NEW client \in Clients, NEW t \in Tools, CheckAndRecord(client, t)
      PROVE  Listed' /\ PenaltyOnlyForEvicted'
  <2>1. \E c : Becomes(GetOrCreate(Registry, client, now), client, c)
    BY <1>1 DEF CheckAndRecord
  <2> QED BY <2>1, CallKeeps
<1>2. ASSUME NEW client \in Clients, NEW t \in Tools, RecordUncontrolled(client, t)
      PROVE  Listed' /\ PenaltyOnlyForEvicted'
  <2>1. \E c : Becomes(GetOrCreate(Registry, client, now), client, c)
    BY <1>2 DEF RecordUncontrolled
  <2> QED BY <2>1, CallKeeps
<1>3. CASE Tick \/ UNCHANGED registry
  <2>1. UNCHANGED <<controllers, order, penalties>>
    BY <1>3 DEF Tick, registry
  <2> QED BY <2>1 DEF Listed, Lists, Registry, PenaltyOnlyForEvicted, Live
<1> QED BY <1>1, <1>2, <1>3 DEF Next

\* Initially there is no client.
LEMMA BookkeepingInit == Init => Listed /\ PenaltyOnlyForEvicted
<1> SUFFICES ASSUME Init PROVE Listed /\ PenaltyOnlyForEvicted
  OBVIOUS
<1>1. /\ controllers = <<>> /\ order = <<>> /\ DOMAIN <<>> = {}
  BY DEF Init
<1>2. /\ order \in Seq(Clients) /\ Len(order) = 0
      /\ Distinct(order) /\ ToSet(order) = {}
  BY <1>1, EmptySeq DEF Distinct, ToSet
<1>3. DOMAIN controllers = {}
  BY <1>1
<1>4. IsFiniteSet(DOMAIN controllers) /\ Cardinality(DOMAIN controllers) = 0
  BY <1>3, FS_EmptySet
<1>5. Listed
  BY <1>2, <1>3, <1>4, RegistryAssumption DEF Listed, Lists, Registry
<1>6. PenaltyOnlyForEvicted
  BY <1>3 DEF PenaltyOnlyForEvicted, Live
<1> QED BY <1>5, <1>6

\* _controllers and _access_order always hold the same clients, each once,
\* and at most max_clients of them.
THEOREM OrderSafe == Spec => []OrderMatchesLive
<1>1. Listed => OrderMatchesLive
  BY DEF Listed, Lists, Registry, OrderMatchesLive, Live
<1> QED BY <1>1, BookkeepingInit, BookkeepingStep, RegistrySteps, PTL DEF Spec

\* No client has a live controller and a stored penalty: a penalty is
\* restored once.
THEOREM PenaltyOnce == Spec => []PenaltyOnlyForEvicted
BY BookkeepingInit, BookkeepingStep, RegistrySteps, PTL DEF Spec

----------------------------------------------------------------------------
(* Part 2, penalties: a controller's friction stays in range.              *)

\* A controller of the registry: it has the registry's configuration, and
\* friction in range on every configured tool.
Sound(c) == Ranged(c) /\ c.config = ToolConfig

\* A recorded call, of either kind, and the drain after it.
LEMMA RecordSound ==
  ASSUME NEW c, Sound(c), NEW t, NEW ts \in 0..MaxTime
  PROVE  /\ Sound(DrainSaturation(RecordCall(c, t, ts)))
         /\ Sound(DrainSaturation(RecordUnconfigured(c, t, ts)))
<1>1. Sound(RecordCall(c, t, ts)) /\ Sound(RecordUnconfigured(c, t, ts))
  BY RecordRanged DEF Sound, KeepsRange
<1>2. ASSUME NEW d, Sound(d) PROVE Sound(DrainSaturation(d))
  BY <1>2 DEF Sound, Ranged, Fields, DrainSaturation
<1> QED BY <1>1, <1>2

----------------------------------------------------------------------------
(* A controller that is created, with what it restores. *)

\* A new controller has no friction.
LEMMA CreateSound ==
  /\ Sound(CreateController)
  /\ CreateController.friction = [t \in DOMAIN ToolConfig |-> 0]
<1>1. CreateController.friction = [t \in DOMAIN ToolConfig |-> 0]
  BY DEF CreateController, NewController
<1>2. CreateController.friction \in Levels
  BY <1>1, RegistryAssumption, ConfigAssumption, LevelsIf
<1>3. /\ DOMAIN CreateController = Fields
      /\ CreateController.config = ToolConfig /\ CreateController.last = NoTime
  BY DEF CreateController, NewController, Fields
<1> QED BY <1>1, <1>2, <1>3, RegistryAssumption DEF Sound, Ranged

\* Restoring friction gives a new controller exactly the levels restored.
LEMMA RestoreGives ==
  ASSUME NEW levels \in Levels
  PROVE  LET c == RestoreFriction(CreateController, levels)
         IN  /\ Sound(c)
             /\ \A t \in DOMAIN ToolConfig :
                  c.friction[t] = IF t \in DOMAIN levels THEN levels[t] ELSE 0
<1> DEFINE n == CreateController
           T == DOMAIN ToolConfig
           f == [t \in DOMAIN n.friction \cup DOMAIN levels |->
                   IF t \in DOMAIN levels
                     THEN Greatest(Get(n.friction, t), Clamp(levels[t]))
                   ELSE n.friction[t]]
<1>1. RestoreFriction(n, levels) = [n EXCEPT !.friction = f]
  BY DEF RestoreFriction
<1>2. Sound(n) /\ n.friction = [t \in T |-> 0]
  BY CreateSound
<1> HIDE DEF n
<1>3. DOMAIN levels \subseteq Tools /\ levels \in [DOMAIN levels -> 0..Unit]
  BY LevelsAre
<1>4. ASSUME NEW t \in DOMAIN levels
      PROVE  f[t] = levels[t] /\ levels[t] \in 0..Unit
  <2>1. levels[t] \in 0..Unit /\ Get(n.friction, t) = 0
    BY <1>2, <1>3 DEF Get
  <2>2. Clamp(levels[t]) = levels[t]
    BY <2>1 DEF Clamp
  <2> QED BY <2>1, <2>2, ConfigAssumption DEF Greatest
<1>5. ASSUME NEW t \in T, t \notin DOMAIN levels PROVE f[t] = 0
  BY <1>2, <1>5
<1>6. DOMAIN f = T \cup DOMAIN levels /\ f = [t \in DOMAIN f |-> f[t]]
  BY <1>2
<1> HIDE DEF f
<1>7. \A t \in DOMAIN f : f[t] \in 0..Unit
  BY <1>4, <1>5, <1>6, ConfigAssumption
<1>8. f \in Levels
  BY <1>3, <1>6, <1>7, RegistryAssumption, LevelsIf
<1>9. Sound([n EXCEPT !.friction = f]) /\ [n EXCEPT !.friction = f].friction = f
  BY <1>2, <1>6, <1>8 DEF Sound, Ranged, Fields
<1> QED BY <1>1, <1>4, <1>5, <1>9 DEF n

----------------------------------------------------------------------------
(* What the store keeps of an eviction. *)

\* The tools on which an evicted client had friction worth keeping.
Worth(e) == {t \in DOMAIN e.levels : e.levels[t] >= PenaltyMin}

\* The store holds of the eviction e of client what it should, or nothing
\* when there is nothing to keep or the entry has run out.
Keeps(store, client, e) ==
  /\ client \in DOMAIN store =>
       /\ PenaltyTTL # 0 /\ Worth(e) # {}
       /\ store[client] = [expiry |-> e.at + PenaltyTTL,
                           levels |-> [t \in Worth(e) |-> e.levels[t]]]
  /\ now < e.at + PenaltyTTL /\ Worth(e) # {} => client \in DOMAIN store

\* The controller c of a client that comes back after the eviction e has the
\* friction it left, where that is worth keeping and has time to run.
FindsAgain(c, e) ==
  \A t \in DOMAIN ToolConfig :
    c.friction[t] = IF now < e.at + PenaltyTTL /\ e.levels[t] >= PenaltyMin
                    THEN e.levels[t] ELSE 0

\* A remembered eviction.
IsEviction(e) ==
  /\ e.at \in 0..now
  /\ e.levels \in Levels /\ DOMAIN ToolConfig \subseteq DOMAIN e.levels

\* The registry state r accounts for the evictions h of clients that are
\* not back: their entries in the store, and no other, are kept.
AccountsFor(r, h) ==
  /\ \A c \in DOMAIN r.live : Sound(r.live[c])
  /\ DOMAIN r.store \subseteq DOMAIN h
  /\ DOMAIN h \subseteq Clients \ DOMAIN r.live
  /\ \A c \in DOMAIN h : IsEviction(h[c]) /\ Keeps(r.store, c, h[c])

\* The strengthening.
Accounted == now \in 0..MaxTime /\ AccountsFor(Registry, evicted)

\* Capturing one client's friction leaves the others' entries, but for those
\* that have run out.
LEMMA CaptureOthers ==
  ASSUME NEW store, NEW client, NEW friction, NEW at, NEW c, c # client
  PROVE  LET s == Capture(store, client, friction, at)
         IN  /\ c \in DOMAIN s => c \in DOMAIN store /\ s[c] = store[c]
             /\ c \in DOMAIN store /\ ~(store[c].expiry <= at) => c \in DOMAIN s
             /\ c \in DOMAIN s /\ PenaltyTTL # 0 => ~(store[c].expiry <= at)
<1> DEFINE p == Prune(store, at)
<1>1. /\ c \in DOMAIN p => c \in DOMAIN store /\ p[c] = store[c]
                           /\ ~(store[c].expiry <= at)
      /\ c \in DOMAIN store /\ ~(store[c].expiry <= at) => c \in DOMAIN p
  BY DEF Prune, Without
<1>2. \A v : /\ DOMAIN Put(p, client, v) = DOMAIN p \cup {client}
             /\ c \in DOMAIN p => Put(p, client, v)[c] = p[c]
  BY DEF Put
<1>3. \/ PenaltyTTL = 0 /\ Capture(store, client, friction, at) = store
      \/ PenaltyTTL # 0 /\ Capture(store, client, friction, at) = p
      \/ PenaltyTTL # 0 /\ \E v : Capture(store, client, friction, at) = Put(p, client, v)
  BY DEF Capture
<1> HIDE DEF p
<1> QED BY <1>1, <1>2, <1>3

\* The client itself gets the friction that is worth keeping.
LEMMA CaptureKeeps ==
  ASSUME NEW store, NEW client, client \notin DOMAIN store,
         NEW e, IsEviction(e), e.at = now, now \in Nat
  PROVE  Keeps(Capture(store, client, e.levels, now), client, e)
<1> DEFINE p == Prune(store, now)
           f == e.levels
           W == {t \in DOMAIN f : f[t] >= PenaltyMin}
           kept == IF client \in DOMAIN p THEN p[client].levels ELSE <<>>
           Peak(t) == Greatest(IF t \in W THEN f[t] ELSE 0, Get(kept, t))
           s == Capture(store, client, f, now)
<1>1. client \notin DOMAIN p
  BY DEF Prune, Without
<1>2. kept = <<>> /\ DOMAIN kept = {}
  BY <1>1
<1>3. W = Worth(e)
  BY DEF Worth
<1>4. s = IF PenaltyTTL = 0 THEN store
          ELSE IF W = {} THEN p
          ELSE Put(p, client, [expiry |-> now + PenaltyTTL,
                               levels |-> [t \in W \cup DOMAIN kept |-> Peak(t)]])
  BY DEF Capture
<1>5. f \in [DOMAIN f -> 0..Unit]
  BY LevelsAre DEF IsEviction
<1>6. [t \in W \cup DOMAIN kept |-> Peak(t)] = [t \in W |-> f[t]]
  <2>1. ASSUME NEW t \in W PROVE Peak(t) = f[t]
    <3>1. f[t] \in 0..Unit /\ Get(kept, t) = 0
      BY <1>2, <1>5 DEF Get
    <3> QED BY <3>1, ConfigAssumption DEF Greatest
  <2> HIDE DEF W, kept, Peak
  <2> QED BY <1>2, <2>1
<1> HIDE DEF p, W, kept, Peak, s
<1>7. CASE PenaltyTTL = 0
  <2>1. ~(now < e.at + PenaltyTTL)
    BY <1>7
  <2> QED BY <1>4, <1>7, <2>1 DEF Keeps, s
<1>8. CASE PenaltyTTL # 0 /\ W = {}
  BY <1>1, <1>3, <1>4, <1>8 DEF Keeps, s
<1>9. CASE PenaltyTTL # 0 /\ W # {}
  <2> DEFINE v == [expiry |-> now + PenaltyTTL, levels |-> [t \in W |-> f[t]]]
  <2>1. s = Put(p, client, v)
    BY <1>4, <1>6, <1>9
  <2> HIDE DEF v
  <2>2. client \in DOMAIN s /\ s[client] = v
    BY <2>1 DEF Put
  <2> QED BY <1>3, <1>9, <2>2 DEF Keeps, s, v
<1> QED BY <1>7, <1>8, <1>9

\* What a client that comes back finds, from a store that keeps its eviction.
LEMMA RestoreOfKept ==
  ASSUME NEW store, NEW client, NEW e, IsEviction(e), now \in 0..MaxTime,
         Keeps(store, client, e)
  PROVE  LET c == RestorePenalty(store, client, CreateController, now)
         IN  Sound(c) /\ FindsAgain(c, e)
<1> DEFINE W == Worth(e)
           lv == [t \in W |-> e.levels[t]]
<1>1. /\ DOMAIN e.levels \subseteq Tools /\ e.levels \in [DOMAIN e.levels -> 0..Unit]
      /\ DOMAIN ToolConfig \subseteq DOMAIN e.levels
  BY LevelsAre DEF IsEviction
<1>2. /\ now \in Int /\ e.at + PenaltyTTL \in Int
  BY ConfigAssumption, RegistryAssumption DEF IsEviction
<1>3. \A t \in DOMAIN ToolConfig : t \in W <=> e.levels[t] >= PenaltyMin
  BY <1>1 DEF Worth
<1>4. CASE client \in DOMAIN store /\ store[client].expiry > now
  <2>1. now < e.at + PenaltyTTL /\ store[client].levels = lv
    BY <1>2, <1>4 DEF Keeps
  <2>2. lv \in Levels /\ DOMAIN lv = W
    <3>1. W \subseteq DOMAIN e.levels
      BY DEF Worth
    <3> HIDE DEF W
    <3> QED BY <1>1, <3>1, LevelsIf
  <2>3. RestorePenalty(store, client, CreateController, now)
          = RestoreFriction(CreateController, lv)
    BY <1>4, <2>1 DEF RestorePenalty
  <2>4. \A t \in W : lv[t] = e.levels[t]
    OBVIOUS
  <2> HIDE DEF W, lv
  <2> QED BY <1>3, <2>1, <2>2, <2>3, <2>4, RestoreGives DEF FindsAgain
<1>5. CASE ~(client \in DOMAIN store /\ store[client].expiry > now)
  <2>1. RestorePenalty(store, client, CreateController, now) = CreateController
    BY <1>5 DEF RestorePenalty
  <2>2. ~(now < e.at + PenaltyTTL) \/ W = {}
    BY <1>2, <1>5 DEF Keeps
  <2>3. \A t \in DOMAIN ToolConfig :
          ~(now < e.at + PenaltyTTL /\ e.levels[t] >= PenaltyMin)
    BY <1>3, <2>2
  <2> QED BY <2>1, <2>3, CreateSound DEF FindsAgain
<1> QED BY <1>4, <1>5

----------------------------------------------------------------------------
(* The steps of _get_or_create. *)

\* How an eviction is remembered.
EvictionOf(client) == [at |-> now, levels |-> controllers[client].friction]

\* Evicting the client v adds its eviction to those accounted for, and what
\* is left in the store has time to run.
LEMMA EvictAccounts ==
  ASSUME Listed, Accounted, order # <<>>
  PROVE  LET v == Head(order)
             e == Evict(Registry, now)
         IN  /\ v \in Live /\ DOMAIN e.live = Live \ {v}
             /\ AccountsFor(e, Put(evicted, v, EvictionOf(v)))
             /\ \A c \in DOMAIN e.store : e.store[c].expiry > now
<1> DEFINE v == Head(order)
           e == Evict(Registry, now)
           x == EvictionOf(v)
           h == Put(evicted, v, x)
<1>1. v \in Live /\ v \in Clients
  <2>1. v \in ToSet(order)
    BY DropFirst DEF Listed, Lists, Registry
  <2>2. ToSet(order) \subseteq Clients /\ ToSet(order) = Live
    BY DEF Listed, Lists, Registry, Live, ToSet
  <2> QED BY <2>1, <2>2
<1>2. /\ DOMAIN e.live = Live \ {v} /\ (\A c \in Live \ {v} : e.live[c] = controllers[c])
      /\ e.store = Capture(penalties, v, x.levels, now)
  BY DEF Evict, Registry, Without, Live, EvictionOf
<1>3. /\ now \in 0..MaxTime /\ now \in Nat
      /\ \A c \in Live : Sound(controllers[c])
      /\ DOMAIN penalties \subseteq DOMAIN evicted
      /\ DOMAIN evicted \subseteq Clients \ Live
      /\ \A c \in DOMAIN evicted :
           IsEviction(evicted[c]) /\ Keeps(penalties, c, evicted[c])
  BY ConfigAssumption DEF Accounted, AccountsFor, Registry, Live
<1>4. IsEviction(x) /\ x.at = now
  BY <1>1, <1>3, ConfigAssumption DEF EvictionOf, IsEviction, Sound, Ranged
<1>5. Keeps(e.store, v, x)
  BY <1>1, <1>2, <1>3, <1>4, CaptureKeeps
<1>6. DOMAIN h = DOMAIN evicted \cup {v} /\ h[v] = x
      /\ \A c \in DOMAIN evicted : h[c] = evicted[c]
  BY <1>1, <1>3 DEF Put
<1>7. DOMAIN e.store \subseteq DOMAIN h
  BY <1>2, <1>3, <1>6, CaptureDomain
<1> HIDE DEF v, e, x, h
<1>8. ASSUME NEW c \in DOMAIN evicted PROVE Keeps(e.store, c, evicted[c])
  <2>1. c # v
    BY <1>1, <1>3
  <2>2. Keeps(penalties, c, evicted[c]) /\ IsEviction(evicted[c])
    BY <1>3
  <2>3. /\ c \in DOMAIN e.store => c \in DOMAIN penalties /\ e.store[c] = penalties[c]
        /\ c \in DOMAIN penalties /\ ~(penalties[c].expiry <= now) => c \in DOMAIN e.store
    BY <1>2, <2>1, CaptureOthers
  <2>4. c \in DOMAIN penalties => penalties[c].expiry = evicted[c].at + PenaltyTTL
    BY <2>2 DEF Keeps
  <2>5. evicted[c].at + PenaltyTTL \in Int
    BY <2>2, RegistryAssumption DEF IsEviction
  <2> QED BY <1>3, <2>2, <2>3, <2>4, <2>5 DEF Keeps
<1>9. AccountsFor(e, h)
  BY <1>1, <1>2, <1>3, <1>4, <1>5, <1>6, <1>7, <1>8 DEF AccountsFor
<1>10. ASSUME NEW c \in DOMAIN e.store PROVE e.store[c].expiry > now
  <2>1. CASE c = v
    BY <1>3, <1>4, <1>5, <2>1, RegistryAssumption DEF Keeps
  <2>2. CASE c # v
    <3>1. c \in DOMAIN evicted /\ Keeps(e.store, c, evicted[c]) /\ IsEviction(evicted[c])
      BY <1>3, <1>6, <1>7, <1>8, <2>2
    <3>2. PenaltyTTL # 0 /\ e.store[c].expiry = evicted[c].at + PenaltyTTL
      BY <3>1 DEF Keeps
    <3>3. e.store[c] = penalties[c] /\ ~(penalties[c].expiry <= now)
      BY <1>2, <2>2, <3>2, CaptureOthers
    <3>4. evicted[c].at + PenaltyTTL \in Int
      BY <3>1, RegistryAssumption DEF IsEviction
    <3> QED BY <1>3, <3>2, <3>3, <3>4
  <2> QED BY <2>1, <2>2
<1> QED BY <1>1, <1>2, <1>9, <1>10 DEF v, e, x, h

\* A client that is admitted gets back what is accounted for it, and nothing
\* of it stays behind.
LEMMA AdmitAccounts ==
  ASSUME NEW r, NEW h, NEW client \in Clients, client \notin DOMAIN r.live,
         now \in 0..MaxTime, AccountsFor(r, h)
  PROVE  LET a == Admit(r, client, now)
         IN  /\ DOMAIN a.live = DOMAIN r.live \cup {client}
             /\ AccountsFor(a, Without(h, {client}))
             /\ \A c \in DOMAIN a.store : c \in DOMAIN r.store /\ a.store[c] = r.store[c]
             /\ client \in DOMAIN h => FindsAgain(a.live[client], h[client])
<1> DEFINE a == Admit(r, client, now)
           g == Without(h, {client})
           n == RestorePenalty(r.store, client, CreateController, now)
<1>1. /\ DOMAIN a.live = DOMAIN r.live \cup {client}
      /\ a.live[client] = n /\ (\A c \in DOMAIN r.live : a.live[c] = r.live[c])
      /\ DOMAIN a.store = DOMAIN r.store \ {client}
      /\ \A c \in DOMAIN a.store : a.store[c] = r.store[c]
  BY DEF Admit, Put, Without
<1>2. DOMAIN g = DOMAIN h \ {client} /\ \A c \in DOMAIN g : g[c] = h[c]
  BY DEF Without
<1>3. ASSUME client \in DOMAIN h PROVE Sound(n) /\ FindsAgain(n, h[client])
  <2>1. IsEviction(h[client]) /\ Keeps(r.store, client, h[client])
    BY <1>3 DEF AccountsFor
  <2> QED BY <2>1, RestoreOfKept
<1>4. ASSUME client \notin DOMAIN h PROVE Sound(n)
  <2>1. n = CreateController
    BY <1>4 DEF AccountsFor, RestorePenalty
  <2> QED BY <2>1, CreateSound
<1> HIDE DEF a, g, n
<1>5. ASSUME NEW c \in DOMAIN g PROVE IsEviction(g[c]) /\ Keeps(a.store, c, g[c])
  BY <1>1, <1>2 DEF AccountsFor, Keeps
<1>6. AccountsFor(a, g)
  BY <1>1, <1>2, <1>3, <1>4, <1>5 DEF AccountsFor
<1>7. client \in DOMAIN h => FindsAgain(a.live[client], h[client])
  BY <1>1, <1>3
<1> QED BY <1>1, <1>6, <1>7 DEF a, g

\* What is accounted for depends on the history only client by client.
LEMMA AccountsSame ==
  ASSUME NEW r, NEW h, NEW g, AccountsFor(r, h), DOMAIN g = DOMAIN h,
         \A c \in DOMAIN h : g[c] = h[c]
  PROVE  AccountsFor(r, g)
BY DEF AccountsFor

\* _get_or_create keeps the accounts, gives a client that comes back what it
\* left, and prunes the store when it evicts.
LEMMA GetOrCreateAccounts ==
  ASSUME Listed, Accounted, NEW client \in Clients
  PROVE  LET r == GetOrCreate(Registry, client, now)
         IN  /\ AccountsFor(r, Remember(r))
             /\ client \in DOMAIN evicted => FindsAgain(r.live[client], evicted[client])
             /\ Live \ DOMAIN r.live # {} =>
                  \A c \in DOMAIN r.store : r.store[c].expiry > now
<1> DEFINE r0 == Registry
           r == GetOrCreate(r0, client, now)
<1>0. /\ r0.live = controllers /\ r0.order = order /\ r0.store = penalties
      /\ DOMAIN r0.live = Live /\ AccountsFor(r0, evicted) /\ now \in 0..MaxTime
      /\ DOMAIN evicted \cap Live = {}
  BY DEF Registry, Live, Accounted, AccountsFor
<1>1. CASE client \in DOMAIN r0.live
  <2>1. r.live = r0.live /\ r.store = r0.store
    BY <1>1 DEF GetOrCreate, Registry
  <2>2. AccountsFor(r, evicted)
    BY <1>0, <2>1 DEF AccountsFor
  <2>3. DOMAIN Remember(r) = DOMAIN evicted
        /\ \A c \in DOMAIN evicted : Remember(r)[c] = evicted[c]
    BY <1>0, <2>1 DEF Remember
  <2>4. AccountsFor(r, Remember(r))
    BY <2>2, <2>3, AccountsSame
  <2> QED BY <1>0, <1>1, <2>1, <2>4
<1>2. CASE client \notin DOMAIN r0.live /\ ~Full(r0)
  <2>1. r = Admit(r0, client, now)
    BY <1>2 DEF GetOrCreate
  <2> HIDE DEF r
  <2>2. /\ DOMAIN r.live = DOMAIN r0.live \cup {client}
        /\ AccountsFor(r, Without(evicted, {client}))
        /\ client \in DOMAIN evicted => FindsAgain(r.live[client], evicted[client])
    BY <1>0, <1>2, <2>1, AdmitAccounts
  <2>3. /\ DOMAIN Without(evicted, {client}) = DOMAIN evicted \ {client}
        /\ \A c \in DOMAIN Without(evicted, {client}) :
             Without(evicted, {client})[c] = evicted[c]
    BY DEF Without
  <2>4. /\ DOMAIN Remember(r) = DOMAIN evicted \ {client}
        /\ \A c \in DOMAIN Remember(r) : Remember(r)[c] = evicted[c]
    BY <1>0, <2>2 DEF Remember
  <2>5. AccountsFor(r, Remember(r))
    BY <2>2, <2>3, <2>4, AccountsSame
  <2> QED BY <1>0, <2>2, <2>5 DEF r
<1>3. CASE client \notin DOMAIN r0.live /\ Full(r0)
  <2> DEFINE v == Head(order)
             e == Evict(r0, now)
             h == Put(evicted, v, EvictionOf(v))
  <2>1. r = Admit(e, client, now)
    BY <1>3 DEF GetOrCreate
  <2>2. order # <<>>
    <3>1. Cardinality(DOMAIN r0.live) = Len(order)
      BY <1>0 DEF Listed, Lists
    <3>2. Cardinality(DOMAIN r0.live) >= MaxClients /\ MaxClients \in Nat \ {0}
      BY <1>3, RegistryAssumption DEF Full
    <3> QED BY <3>1, <3>2, EmptySeq
  <2>3. /\ v \in Live /\ DOMAIN e.live = Live \ {v} /\ AccountsFor(e, h)
        /\ \A c \in DOMAIN e.store : e.store[c].expiry > now
    BY <2>2, EvictAccounts
  <2>4. /\ DOMAIN h = DOMAIN evicted \cup {v} /\ h[v] = EvictionOf(v)
        /\ \A c \in DOMAIN evicted : h[c] = evicted[c]
    BY <1>0, <2>3 DEF Put
  <2> HIDE DEF v, e, h, r
  <2>5. client # v /\ client \notin DOMAIN e.live
    BY <1>0, <1>3, <2>3
  <2>6. /\ DOMAIN r.live = DOMAIN e.live \cup {client}
        /\ AccountsFor(r, Without(h, {client}))
        /\ \A c \in DOMAIN r.store : c \in DOMAIN e.store /\ r.store[c] = e.store[c]
    BY <1>0, <2>1, <2>3, <2>5, AdmitAccounts
  <2>7. client \in DOMAIN evicted => FindsAgain(r.live[client], evicted[client])
    <3>1. client \in DOMAIN evicted =>
            client \in DOMAIN h /\ h[client] = evicted[client]
      BY <2>4
    <3>2. client \in DOMAIN h => FindsAgain(r.live[client], h[client])
      BY <1>0, <2>1, <2>3, <2>5, AdmitAccounts
    <3> QED BY <3>1, <3>2
  <2>8. /\ DOMAIN Without(h, {client}) = DOMAIN h \ {client}
        /\ \A c \in DOMAIN Without(h, {client}) : Without(h, {client})[c] = h[c]
    BY DEF Without
  <2>9. Live \ DOMAIN r.live = {v}
    BY <2>3, <2>5, <2>6
  <2>10. /\ DOMAIN Remember(r) = (DOMAIN evicted \cup {v}) \ {client}
         /\ Remember(r)[v] = EvictionOf(v)
         /\ \A c \in DOMAIN Remember(r) : c # v => Remember(r)[c] = evicted[c]
    <3>1. /\ DOMAIN Remember(r)
               = (DOMAIN evicted \cup (Live \ DOMAIN r.live)) \ DOMAIN r.live
          /\ \A c \in DOMAIN Remember(r) : Remember(r)[c] =
               IF c \in Live \ DOMAIN r.live THEN EvictionOf(c) ELSE evicted[c]
      BY DEF Remember, EvictionOf
    <3>2. DOMAIN Remember(r) = (DOMAIN evicted \cup {v}) \ {client}
      BY <1>0, <2>3, <2>5, <2>6, <2>9, <3>1
    <3> QED BY <2>5, <2>9, <3>1, <3>2
  <2>11. AccountsFor(r, Remember(r))
    <3>1. DOMAIN Remember(r) = DOMAIN Without(h, {client})
      BY <2>4, <2>8, <2>10
    <3>2. \A c \in DOMAIN Without(h, {client}) :
            Remember(r)[c] = Without(h, {client})[c]
      BY <1>0, <2>3, <2>4, <2>8, <2>10
    <3> QED BY <2>6, <3>1, <3>2, AccountsSame
  <2>12. \A c \in DOMAIN r.store : r.store[c].expiry > now
    BY <2>3, <2>6
  <2> QED BY <2>7, <2>11, <2>12 DEF r
<1> QED BY <1>1, <1>2, <1>3

----------------------------------------------------------------------------
(* The registry's state. *)

\* A call of either kind, which leaves its client's controller sound.
LEMMA CallAccounts ==
  ASSUME Listed, Accounted, NEW client \in Clients, NEW c,
         Becomes(GetOrCreate(Registry, client, now), client, c),
         client \in DOMAIN GetOrCreate(Registry, client, now).live
           /\ Sound(GetOrCreate(Registry, client, now).live[client]) => Sound(c)
  PROVE  /\ Accounted'
         /\ Live \ Live' # {} => \A k \in DOMAIN penalties' : penalties'[k].expiry > now
<1> DEFINE r == GetOrCreate(Registry, client, now)
<1>1. AccountsFor(r, Remember(r))
      /\ (Live \ DOMAIN r.live # {} => \A k \in DOMAIN r.store : r.store[k].expiry > now)
  BY GetOrCreateAccounts
<1>2. client \in DOMAIN r.live
  <2>1. Apart(Registry) /\ Lists(Registry)
    BY DEF Listed, Apart, Accounted, AccountsFor, Registry
  <2> QED BY <2>1, GetOrCreateKeeps
<1>3. /\ controllers' = [r.live EXCEPT ![client] = c] /\ penalties' = r.store
      /\ evicted' = Remember(r) /\ now' = now
  BY DEF Becomes
<1>4. Sound(c)
  BY <1>1, <1>2 DEF AccountsFor
<1> HIDE DEF r
<1>5. /\ DOMAIN controllers' = DOMAIN r.live
      /\ \A k \in DOMAIN controllers' : Sound(controllers'[k])
  BY <1>1, <1>3, <1>4 DEF AccountsFor
<1>6. \A k \in DOMAIN evicted' :
        (IsEviction(evicted[k]) /\ Keeps(penalties, k, evicted[k]))'
  BY <1>1, <1>3 DEF AccountsFor, IsEviction, Keeps, Worth
<1>7. Accounted'
  <2>1. /\ Registry'.live = controllers' /\ Registry'.store = penalties'
    BY DEF Registry
  <2>2. /\ DOMAIN penalties' \subseteq DOMAIN evicted'
        /\ DOMAIN evicted' \subseteq Clients \ DOMAIN controllers'
    BY <1>1, <1>3, <1>5 DEF AccountsFor
  <2> QED BY <1>3, <1>5, <1>6, <2>1, <2>2 DEF Accounted, AccountsFor
<1> QED BY <1>1, <1>3, <1>5, <1>7 DEF Live

\* Only what has time to run survives an eviction.
Pruned == Live \ Live' # {} => \A c \in DOMAIN penalties' : penalties'[c].expiry > now

\* Every step keeps the accounts.
LEMMA AccountStep ==
  Listed /\ Accounted /\ [Next]_registry => Accounted' /\ Pruned
<1> SUFFICES ASSUME Listed, Accounted, [Next]_registry PROVE Accounted' /\ Pruned
  OBVIOUS
<1>0. now \in 0..MaxTime
  BY DEF Accounted
<1>1. ASSUME NEW client \in Clients, NEW t \in Tools, CheckAndRecord(client, t)
      PROVE  Accounted' /\ Pruned
  <2> DEFINE c == GetOrCreate(Registry, client, now).live[client]
             d == IF Check(c, t).allowed
                  THEN DrainSaturation(RecordCall(c, t, now)) ELSE c
  <2>1. Becomes(GetOrCreate(Registry, client, now), client, d)
    BY <1>1 DEF CheckAndRecord
  <2> HIDE DEF c
  <2>2. Sound(c) => Sound(d)
    BY <1>0, RecordSound
  <2> QED BY <2>1, <2>2, CallAccounts DEF c, Pruned
<1>2. ASSUME NEW client \in Clients, NEW t \in Tools, RecordUncontrolled(client, t)
      PROVE  Accounted' /\ Pruned
  <2> DEFINE c == GetOrCreate(Registry, client, now).live[client]
             d == DrainSaturation(RecordUnconfigured(c, t, now))
  <2>1. Becomes(GetOrCreate(Registry, client, now), client, d)
    BY <1>2 DEF RecordUncontrolled
  <2> HIDE DEF c
  <2>2. Sound(c) => Sound(d)
    BY <1>0, RecordSound
  <2> QED BY <2>1, <2>2, CallAccounts DEF c, Pruned
<1>3. CASE Tick
  <2>1. /\ now' = now + 1 /\ now' \in 0..MaxTime
        /\ UNCHANGED <<controllers, penalties, evicted>>
    BY <1>0, <1>3, ConfigAssumption DEF Tick
  <2>2. /\ \A c \in Live : Sound(controllers[c])
        /\ DOMAIN penalties \subseteq DOMAIN evicted
        /\ DOMAIN evicted \subseteq Clients \ Live
    BY DEF Accounted, AccountsFor, Registry, Live
  <2>3. ASSUME NEW c \in DOMAIN evicted
        PROVE  (IsEviction(evicted[c]) /\ Keeps(penalties, c, evicted[c]))'
    <3>1. IsEviction(evicted[c]) /\ Keeps(penalties, c, evicted[c])
      BY DEF Accounted, AccountsFor, Registry
    <3>2. evicted[c].at \in 0..now' /\ evicted[c].at + PenaltyTTL \in Int
      BY <1>0, <2>1, <3>1, ConfigAssumption, RegistryAssumption DEF IsEviction
    <3>3. IsEviction(evicted[c])'
      BY <2>1, <3>1, <3>2 DEF IsEviction
    <3>4. now' < evicted[c].at + PenaltyTTL => now < evicted[c].at + PenaltyTTL
      BY <1>0, <2>1, <3>2
    <3>5. Keeps(penalties, c, evicted[c])'
      BY <2>1, <3>1, <3>4 DEF Keeps, Worth
    <3> QED BY <3>3, <3>5
  <2>4. Accounted'
    BY <2>1, <2>2, <2>3 DEF Accounted, AccountsFor, Registry, Live
  <2> QED BY <2>1, <2>4 DEF Pruned, Live
<1>4. CASE UNCHANGED registry
  <2>1. UNCHANGED <<controllers, order, penalties, evicted, now>>
    BY <1>4 DEF registry
  <2>2. Accounted'
    BY <2>1 DEF Accounted, AccountsFor, Registry, IsEviction, Keeps, Worth
  <2> QED BY <2>1, <2>2 DEF Pruned, Live
<1> QED BY <1>1, <1>2, <1>3, <1>4 DEF Next

\* The invariant.
Booked == Listed /\ Accounted

\* The accounts are empty at first, and kept by every step.
LEMMA BookedInvariant ==
  /\ Init => Booked
  /\ Booked /\ [Next]_registry => Booked' /\ Pruned
<1>1. Init => Accounted
  <2> SUFFICES ASSUME Init PROVE Accounted
    OBVIOUS
  <2>1. /\ controllers = <<>> /\ penalties = <<>> /\ evicted = <<>> /\ now = 0
    BY DEF Init
  <2>2. /\ DOMAIN controllers = {} /\ DOMAIN penalties = {} /\ DOMAIN evicted = {}
    BY <2>1
  <2> QED BY <2>1, <2>2, ConfigAssumption DEF Accounted, AccountsFor, Registry
<1>2. Accounted => PenaltyOnlyForEvicted
  BY DEF Accounted, AccountsFor, Registry, PenaltyOnlyForEvicted, Live
<1> QED BY <1>1, <1>2, BookkeepingInit, BookkeepingStep, AccountStep DEF Booked

\* A client that is evicted and comes back finds on every tool the friction
\* it left, while that is worth keeping and has time to run, else none.
THEOREM ReconnectRestores == Spec => []ReconnectRestoresFriction
<1>1. Booked => ReconnectRestoresFriction
  <2> SUFFICES ASSUME Booked, NEW c \in DOMAIN evicted
               PROVE  \A t \in DOMAIN ToolConfig :
                        LET e == evicted[c]
                            due == now < e.at + PenaltyTTL /\ e.levels[t] >= PenaltyMin
                        IN  GetOrCreate(Registry, c, now).live[c].friction[t]
                              = IF due THEN e.levels[t] ELSE 0
    BY DEF ReconnectRestoresFriction
  <2>1. c \in Clients
    BY DEF Booked, Accounted, AccountsFor
  <2>2. FindsAgain(GetOrCreate(Registry, c, now).live[c], evicted[c])
    BY <2>1, GetOrCreateAccounts DEF Booked
  <2> QED BY <2>2 DEF FindsAgain
<1> QED BY <1>1, BookedInvariant, RegistrySteps, PTL DEF Spec

\* An eviction leaves in the store only penalties that have time to run.
THEOREM StorePruned == Spec => EvictionPrunes
<1>1. Pruned => [Pruned]_vars
  OBVIOUS
<1> QED BY <1>1, BookedInvariant, RegistrySteps, PTL DEF Spec, EvictionPrunes, Pruned

\* The accounts have the types of the registry's state.
LEMMA BookedTyped == Booked => TypeOK
<1> SUFFICES ASSUME Booked PROVE TypeOK
  OBVIOUS
<1>1. /\ now \in 0..MaxTime
      /\ \A c \in Live : Sound(controllers[c])
      /\ DOMAIN penalties \subseteq DOMAIN evicted
      /\ DOMAIN evicted \subseteq Clients \ Live
      /\ \A c \in DOMAIN evicted :
           IsEviction(evicted[c]) /\ Keeps(penalties, c, evicted[c])
  BY DEF Booked, Accounted, AccountsFor, Registry, Live
<1>2. order \in Seq(Clients) /\ Live \subseteq Clients
  <2>1. order \in Seq(Clients) /\ ToSet(order) = Live
    BY DEF Booked, Listed, Lists, Registry, Live
  <2> QED BY <2>1 DEF ToSet
<1>3. ASSUME NEW c \in DOMAIN penalties
      PROVE  /\ penalties[c].expiry \in 1..(MaxTime + PenaltyTTL)
             /\ penalties[c].levels \in Levels
  <2> DEFINE e == evicted[c]
  <2>0. IsEviction(e) /\ Keeps(penalties, c, e)
    BY <1>1
  <2> HIDE DEF e
  <2>1. /\ IsEviction(e) /\ PenaltyTTL # 0
        /\ penalties[c].expiry = e.at + PenaltyTTL
        /\ penalties[c].levels = [t \in Worth(e) |-> e.levels[t]]
    BY <2>0 DEF Keeps
  <2>2. Worth(e) \subseteq DOMAIN e.levels
    BY DEF Worth
  <2>3. DOMAIN e.levels \subseteq Tools /\ e.levels \in [DOMAIN e.levels -> 0..Unit]
    BY <2>1, LevelsAre DEF IsEviction
  <2>4. penalties[c].levels \in Levels
    BY <2>1, <2>2, <2>3, LevelsIf
  <2>5. e.at \in 0..MaxTime
    BY <1>1, <2>1, ConfigAssumption DEF IsEviction
  <2> QED BY <2>1, <2>4, <2>5, ConfigAssumption, RegistryAssumption
<1> QED BY <1>1, <1>2, <1>3 DEF TypeOK, Sound, Ranged

\* The registry's state keeps its types: penalties and restored friction stay
\* in range whatever the controllers do in between.
THEOREM RegistryTyped == Spec => []TypeOK
BY BookedTyped, BookedInvariant, RegistrySteps, PTL DEF Spec

----------------------------------------------------------------------------
(* Part 3, budgets.  check() prices a call at the friction a client has    *)
(* left, record_call at what remains of it after the idle decay: the price *)
(* can only have fallen, so that what was affordable still is.             *)

\* The budget of a controller is not overdrawn.
Solvent(c) == c.budget \in Nat \cup {Unlimited}

\* A price rises with friction.
LEMMA PriceMonotone ==
  ASSUME NEW t \in DOMAIN ToolConfig, NEW a \in Nat, NEW b \in Nat, a <= b
  PROVE  /\ Price(ToolConfig[t], a) \in Nat /\ Price(ToolConfig[t], b) \in Nat
         /\ Price(ToolConfig[t], a) <= Price(ToolConfig[t], b)
<1> DEFINE low == ToolConfig[t].minCost
           d == ToolConfig[t].maxCost - low
           x == a * d
           y == b * d
<1>1. low \in Nat /\ d \in Nat /\ Unit \in Nat \ {0}
  BY CostAssumption, ConfigAssumption
<1> HIDE DEF low, d
<1>2. x \in Nat /\ y \in Nat /\ x <= y
  BY <1>1
<1> HIDE DEF x, y
<1>3. x \div Unit \in Nat /\ y \div Unit \in Nat /\ x \div Unit <= y \div Unit
  BY <1>1, <1>2, DivMonotone
<1> QED BY <1>1, <1>3 DEF Price, Scale, low, d, x, y

\* The friction of a tool, configured or not.
LEMMA FrictionOf ==
  ASSUME NEW c, Sound(c), NEW t
  PROVE  Get(c.friction, t) \in Nat
BY GetLevel, ConfigAssumption DEF Sound, Ranged

\* What a call costs after the decay is no more than it cost before.
LEMMA DecayCheaper ==
  ASSUME NEW c, Sound(c), NEW ts \in 0..MaxTime, NEW t
  PROVE  /\ Check(c, t).cost \in Nat /\ Check(TimeDecay(c, ts), t).cost \in Nat
         /\ Check(TimeDecay(c, ts), t).cost <= Check(c, t).cost
<1> DEFINE d == TimeDecay(c, ts)
<1>1. Sound(d) /\ Get(d.friction, t) <= Get(c.friction, t)
  BY TimeDecayRanged DEF Sound, KeepsRange
<1> HIDE DEF d
<1>2. Get(d.friction, t) \in Nat /\ Get(c.friction, t) \in Nat
  BY <1>1, FrictionOf
<1>3. CASE t \in DOMAIN ToolConfig
  <2>1. /\ Check(c, t).cost = Price(ToolConfig[t], Get(c.friction, t))
        /\ Check(d, t).cost = Price(ToolConfig[t], Get(d.friction, t))
    BY <1>1, <1>3 DEF Check, Sound
  <2> QED BY <1>1, <1>2, <1>3, <2>1, PriceMonotone DEF d
<1>4. CASE t \notin DOMAIN ToolConfig
  <2>1. Check(c, t).cost = 0 /\ Check(d, t).cost = 0
    BY <1>1, <1>4 DEF Check, Sound
  <2> QED BY <2>1 DEF d
<1> QED BY <1>3, <1>4

----------------------------------------------------------------------------
(* What a call does to the budget. *)

\* An allowed call is charged no more than there is.
LEMMA RecordSolvent ==
  ASSUME NEW c, Sound(c), Solvent(c), NEW t, NEW ts \in 0..MaxTime
  PROVE  /\ Check(c, t).allowed => Solvent(DrainSaturation(RecordCall(c, t, ts)))
         /\ Solvent(DrainSaturation(RecordUnconfigured(c, t, ts)))
<1> DEFINE cost == Check(TimeDecay(c, ts), t).cost
           r == RecordCall(c, t, ts)
           u == RecordUnconfigured(c, t, ts)
<1>1. /\ DOMAIN r = Fields /\ r.budget = Spend(c.budget, cost)
      /\ DOMAIN u = Fields /\ u.budget = c.budget
  BY RecordDiffers DEF Sound, Ranged, Differs, Fields, Adjusted
<1>2. /\ Check(c, t).cost \in Nat /\ cost \in Nat /\ cost <= Check(c, t).cost
  BY DecayCheaper
<1>3. Check(c, t).allowed => Affordable(c, Check(c, t).cost)
  <2>1. CASE t \in DOMAIN c.config
    BY <2>1 DEF Check
  <2>2. CASE t \notin DOMAIN c.config
    <3>1. Check(c, t).cost = 0
      BY <2>2 DEF Check
    <3> QED BY <3>1 DEF Affordable, Solvent
  <2> QED BY <2>1, <2>2
<1> HIDE DEF cost, r, u
<1>4. Check(c, t).allowed => Spend(c.budget, cost) \in Nat \cup {Unlimited}
  BY <1>2, <1>3, ConfigAssumption DEF Spend, Affordable, Solvent
<1>5. DrainSaturation(r).budget = r.budget /\ DrainSaturation(u).budget = u.budget
  BY <1>1 DEF DrainSaturation, Fields
<1> QED BY <1>1, <1>4, <1>5 DEF Solvent, r, u

----------------------------------------------------------------------------
(* The registry. *)

\* A controller that is created has the default budget, restored or not.
LEMMA FreshSolvent ==
  ASSUME NEW store, NEW client, NEW at
  PROVE  Solvent(RestorePenalty(store, client, CreateController, at))
<1>1. CreateController.budget = DefaultBudget
  BY DEF CreateController, NewController
<1>2. DOMAIN CreateController = Fields
  BY CreateSound DEF Sound, Ranged
<1>3. \A levels : RestoreFriction(CreateController, levels).budget = DefaultBudget
  BY <1>1, <1>2 DEF RestoreFriction, Fields
<1> QED BY <1>1, <1>3, ConfigAssumption DEF RestorePenalty, Solvent

\* The controllers _get_or_create leaves: those there were, and a fresh one.
LEMMA GetOrCreateSolvent ==
  ASSUME \A k \in Live : Solvent(controllers[k]), NEW client
  PROVE  LET r == GetOrCreate(Registry, client, now)
         IN  \A k \in DOMAIN r.live : Solvent(r.live[k])
<1> DEFINE r0 == Registry
           r == GetOrCreate(r0, client, now)
<1>1. \A k \in DOMAIN r0.live : Solvent(r0.live[k])
  BY DEF Registry, Live
<1>2. \A k \in DOMAIN Evict(r0, now).live : Solvent(Evict(r0, now).live[k])
  BY <1>1 DEF Evict, Without
<1>3. ASSUME NEW q, \A k \in DOMAIN q.live : Solvent(q.live[k])
      PROVE  \A k \in DOMAIN Admit(q, client, now).live :
               Solvent(Admit(q, client, now).live[k])
  BY <1>3, FreshSolvent DEF Admit, Put
<1>4. CASE client \in DOMAIN r0.live
  <2>1. r.live = r0.live
    BY <1>4 DEF GetOrCreate, Registry
  <2> QED BY <1>1, <2>1
<1>5. CASE client \notin DOMAIN r0.live
  <2>1. r = Admit(IF Full(r0) THEN Evict(r0, now) ELSE r0, client, now)
    BY <1>5 DEF GetOrCreate
  <2> HIDE DEF r
  <2>2. r = Admit(Evict(r0, now), client, now) \/ r = Admit(r0, client, now)
    BY <2>1
  <2>3. \A k \in DOMAIN r.live : Solvent(r.live[k])
    BY <1>1, <1>2, <1>3, <2>2
  <2> QED BY <2>3 DEF r
<1> QED BY <1>4, <1>5

\* All budgets.
AllSolvent == \A k \in Live : Solvent(controllers[k])

\* A call that leaves its client solvent leaves all so.
LEMMA CallSolvent ==
  ASSUME Booked, AllSolvent, NEW client \in Clients, NEW c,
         Becomes(GetOrCreate(Registry, client, now), client, c),
         LET o == GetOrCreate(Registry, client, now).live[client]
         IN  Sound(o) /\ Solvent(o) => Solvent(c)
  PROVE  AllSolvent'
<1> DEFINE r == GetOrCreate(Registry, client, now)
<1>1. \A k \in DOMAIN r.live : Sound(r.live[k]) /\ Solvent(r.live[k])
  <2>1. \A k \in DOMAIN r.live : Solvent(r.live[k])
    BY GetOrCreateSolvent DEF AllSolvent
  <2>2. AccountsFor(r, Remember(r))
    BY GetOrCreateAccounts DEF Booked
  <2> QED BY <2>1, <2>2 DEF AccountsFor
<1>2. client \in DOMAIN r.live
  <2>1. Apart(Registry) /\ Lists(Registry)
    BY DEF Booked, Listed, Apart, Accounted, AccountsFor, Registry
  <2> QED BY <2>1, GetOrCreateKeeps
<1>3. Solvent(c)
  BY <1>1, <1>2
<1>4. controllers' = [r.live EXCEPT ![client] = c]
  BY DEF Becomes
<1> HIDE DEF r
<1> QED BY <1>1, <1>3, <1>4 DEF AllSolvent, Live, Solvent

\* Every step leaves every client solvent.
LEMMA SolventStep ==
  Booked /\ AllSolvent /\ [Next]_registry => AllSolvent'
<1> SUFFICES ASSUME Booked, AllSolvent, [Next]_registry PROVE AllSolvent'
  OBVIOUS
<1>0. now \in 0..MaxTime
  BY DEF Booked, Accounted
<1>1. ASSUME NEW client \in Clients, NEW t \in Tools, CheckAndRecord(client, t)
      PROVE  AllSolvent'
  <2> DEFINE c == GetOrCreate(Registry, client, now).live[client]
             d == IF Check(c, t).allowed
                  THEN DrainSaturation(RecordCall(c, t, now)) ELSE c
  <2>1. Becomes(GetOrCreate(Registry, client, now), client, d)
    BY <1>1 DEF CheckAndRecord
  <2> HIDE DEF c
  <2>2. Sound(c) /\ Solvent(c) => Solvent(d)
    BY <1>0, RecordSolvent
  <2> QED BY <2>1, <2>2, CallSolvent DEF c
<1>2. ASSUME NEW client \in Clients, NEW t \in Tools, RecordUncontrolled(client, t)
      PROVE  AllSolvent'
  <2> DEFINE c == GetOrCreate(Registry, client, now).live[client]
             d == DrainSaturation(RecordUnconfigured(c, t, now))
  <2>1. Becomes(GetOrCreate(Registry, client, now), client, d)
    BY <1>2 DEF RecordUncontrolled
  <2> HIDE DEF c
  <2>2. Sound(c) /\ Solvent(c) => Solvent(d)
    BY <1>0, RecordSolvent
  <2> QED BY <2>1, <2>2, CallSolvent DEF c
<1>3. CASE Tick \/ UNCHANGED registry
  BY <1>3 DEF Tick, registry, AllSolvent, Live, Solvent
<1> QED BY <1>1, <1>2, <1>3 DEF Next

\* No call costs more than the budget it was checked against, whatever time
\* has passed since the client's last call: no client is ever overdrawn.
THEOREM BudgetsHold == Spec => []NeverOverdrawn
<1>1. Init => AllSolvent
  BY DEF Init, AllSolvent, Live
<1>2. AllSolvent => NeverOverdrawn
  BY DEF AllSolvent, NeverOverdrawn, Solvent, Affordable
<1> QED BY <1>1, <1>2, BookedInvariant, SolventStep, RegistrySteps, PTL DEF Spec
============================================================================
