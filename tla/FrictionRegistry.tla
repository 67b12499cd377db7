-------------------------- MODULE FrictionRegistry --------------------------
(***************************************************************************)
(* FrictionRegistry (friction/registry.py): one controller per client, at  *)
(* most MaxClients of them, the least recently used one evicted to make    *)
(* room, and a store of penalties that carries an evicted client's         *)
(* friction to its next visit.                                             *)
(*                                                                         *)
(* Atomicity.  check_and_record and record_unconfigured never suspend: the *)
(* only awaits are acquisitions of asyncio locks that no task holds across *)
(* a suspension, so a lock is always free when it is asked for and a call  *)
(* runs to its end before any other task does.  One call is one action.    *)
(*                                                                         *)
(* The clock is time.monotonic().  reply is the result of the last call as *)
(* the decorated tool sees it; evicted remembers, for the properties only, *)
(* when each client was last evicted and with what friction.               *)
(***************************************************************************)
EXTENDS FrictionControl, OrderedDict

CONSTANTS
  Clients,          \* the OAuth client ids
  MaxClients, PenaltyTTL, PenaltyMin,
  ToolConfig,       \* [configured tools -> configuration]
  GroupConfig,      \* [Groups -> configuration]
  Nobody            \* before the first call

ASSUME RegistryAssumption ==
  /\ MaxClients \in Nat \ {0} /\ PenaltyTTL \in Nat /\ PenaltyMin \in 0..Unit
  /\ DOMAIN ToolConfig \subseteq Tools /\ DOMAIN GroupConfig = Groups
  /\ Nobody \notin Clients

\* The floor and the ceiling of a price are in this order, which the code
\* does not check.
ASSUME CostAssumption ==
  \A t \in DOMAIN ToolConfig :
    /\ ToolConfig[t].minCost \in Nat /\ ToolConfig[t].maxCost \in Nat
    /\ ToolConfig[t].minCost <= ToolConfig[t].maxCost

VARIABLES
  controllers,      \* _controllers: [live clients -> controller]
  order,            \* _access_order: the live clients, least recent first
  penalties,        \* _penalty_store: [clients -> [expiry, levels]]
  now,              \* time.monotonic()
  reply,            \* the last call: client, tool and result of check
  evicted           \* history: [clients -> [at, levels]] of the last eviction

vars == <<controllers, order, penalties, now, reply, evicted>>

Live == DOMAIN controllers

NoReply == [client |-> Nobody]

Without(d, keys) == [k \in DOMAIN d \ keys |-> d[k]]

Init ==
  /\ controllers = <<>> /\ order = <<>> /\ penalties = <<>>
  /\ now = 0
  /\ reply = NoReply
  /\ evicted = <<>>

----------------------------------------------------------------------------
(* The penalty store. *)

\* Mutant: an entry is pruned only after its last instant.
PruneLate(store, at) ==
  Without(store, {c \in DOMAIN store : store[c].expiry < at})

\* _prune_penalties
Prune(store, at) == Without(store, {c \in DOMAIN store : store[c].expiry <= at})

\* Mutant: the time of the eviction is stored for the expiry.
CaptureNow(store, client, friction, at) ==
  LET worth == {t \in DOMAIN friction : friction[t] >= PenaltyMin}
  IN  IF worth = {} THEN store
      ELSE Put(store, client, [expiry |-> at,
                               levels |-> [t \in worth |-> friction[t]]])

\* Mutant: friction of exactly penalty_min_friction is dropped.
CaptureAbove(store, client, friction, at) ==
  LET worth == {t \in DOMAIN friction : friction[t] > PenaltyMin}
  IN  IF worth = {} THEN Prune(store, at)
      ELSE Put(Prune(store, at), client,
               [expiry |-> at + PenaltyTTL,
                levels |-> [t \in worth |-> friction[t]]])

\* _capture_penalty: the friction worth keeping, merged with what is kept.
Capture(store, client, friction, at) ==
  LET pruned == Prune(store, at)
      worth == {t \in DOMAIN friction : friction[t] >= PenaltyMin}
      kept == IF client \in DOMAIN pruned THEN pruned[client].levels ELSE <<>>
      Peak(t) == Greatest(IF t \in worth THEN friction[t] ELSE 0, Get(kept, t))
  IN  IF PenaltyTTL = 0 THEN store
      ELSE IF worth = {} THEN pruned
      ELSE Put(pruned, client,
               [expiry |-> at + PenaltyTTL,
                levels |-> [t \in worth \cup DOMAIN kept |-> Peak(t)]])

\* _restore_penalty, on the fresh controller c; the entry is popped.
RestorePenalty(store, client, c, at) ==
  IF client \in DOMAIN store /\ store[client].expiry > at
    THEN RestoreFriction(c, store[client].levels) ELSE c

\* _create_controller
CreateController ==
  [NewController EXCEPT
     !.config = ToolConfig, !.groups = GroupConfig,
     !.friction = [t \in DOMAIN ToolConfig |-> 0],
     !.ema = [t \in DOMAIN ToolConfig |-> 0],
     !.satCount = [t \in DOMAIN ToolConfig |-> 0],
     !.target = [t \in DOMAIN ToolConfig |-> ToolConfig[t].target],
     !.groupEma = [g \in Groups |-> 0]]

----------------------------------------------------------------------------
(* _get_or_create.  A registry state is [live, order, store].  Live never  *)
(* exceeds MaxClients, so the eviction loop runs at most once.             *)

\* Mutant: a client is listed again at every call.
MoveToEndTwice(s, x) == Append(s, x)

MoveToEnd(s, x) == Append(RemoveOne(s, {i \in DOMAIN s : s[i] = x}), x)

Evict(r, at) ==
  LET victim == Head(r.order) IN
  [live  |-> Without(r.live, {victim}),
   order |-> Tail(r.order),
   store |-> Capture(r.store, victim, r.live[victim].friction, at)]

\* Mutant: the penalty is read, not popped.
AdmitKeeping(r, client, at) ==
  [live  |-> Put(r.live, client,
                 RestorePenalty(r.store, client, CreateController, at)),
   order |-> Append(r.order, client),
   store |-> r.store]

Admit(r, client, at) ==
  [live  |-> Put(r.live, client,
                 RestorePenalty(r.store, client, CreateController, at)),
   order |-> Append(r.order, client),
   store |-> Without(r.store, {client})]

Full(r) == Cardinality(DOMAIN r.live) >= MaxClients

GetOrCreate(r, client, at) ==
  IF client \in DOMAIN r.live
    THEN [r EXCEPT !.order = MoveToEnd(@, client)]
  ELSE Admit(IF Full(r) THEN Evict(r, at) ELSE r, client, at)

Registry == [live |-> controllers, order |-> order, store |-> penalties]

\* The history of evictions: forgotten once the client is back.
Remember(r) ==
  LET gone == Live \ DOMAIN r.live IN
  [c \in (DOMAIN evicted \cup gone) \ DOMAIN r.live |->
     IF c \in gone
       THEN [at |-> now, levels |-> controllers[c].friction]
     ELSE evicted[c]]

\* The registry r, in which client's controller becomes c, is the new state.
Becomes(r, client, c) ==
  /\ controllers' = [r.live EXCEPT ![client] = c]
  /\ order' = r.order
  /\ penalties' = r.store
  /\ evicted' = Remember(r)
  /\ UNCHANGED now

----------------------------------------------------------------------------
(* A refused call returns before it is recorded; drained saturation events *)
(* go to the log.                                                          *)
CheckAndRecord(client, t) ==
  LET r == GetOrCreate(Registry, client, now)
      c == r.live[client]
      result == Check(c, t)
  IN  /\ Becomes(r, client, IF result.allowed
                            THEN DrainSaturation(RecordCall(c, t, now)) ELSE c)
      /\ reply' = [client |-> client, tool |-> t, reason |-> result.reason]

RecordUncontrolled(client, t) ==
  LET r == GetOrCreate(Registry, client, now)
      c == r.live[client]
  IN  /\ Becomes(r, client, DrainSaturation(RecordUnconfigured(c, t, now)))
      /\ reply' = NoReply

\* Time passes; not part of the code.
Tick ==
  /\ now < MaxTime
  /\ now' = now + 1
  /\ reply' = NoReply
  /\ UNCHANGED <<controllers, order, penalties, evicted>>

Next ==
  \/ \E client \in Clients, t \in Tools : CheckAndRecord(client, t)
  \/ \E client \in Clients, t \in Tools : RecordUncontrolled(client, t)
  \/ Tick

Spec == Init /\ [][Next]_vars

----------------------------------------------------------------------------
\* The registry's own state keeps its types, restored friction included.
TypeOK ==
  /\ Live \subseteq Clients
  /\ \A c \in Live : controllers[c].friction \in Levels
  /\ order \in Seq(Clients)
  /\ DOMAIN penalties \subseteq Clients
  /\ \A c \in DOMAIN penalties :
       /\ penalties[c].expiry \in 1..(MaxTime + PenaltyTTL)
       /\ penalties[c].levels \in Levels
  /\ now \in 0..MaxTime
  /\ DOMAIN evicted \subseteq Clients \ Live

\* _controllers and _access_order are updated in separate statements of
\* _get_or_create: after any mix of calls and evictions they hold the same
\* clients, each once, and never more than max_clients of them.
OrderMatchesLive ==
  /\ ToSet(order) = Live
  /\ Len(order) = Cardinality(Live)
  /\ Len(order) <= MaxClients

\* A client has a controller or a stored penalty, never both: the penalty
\* leaves the store as it is restored, so it cannot be applied a second time.
PenaltyOnlyForEvicted == Live \cap DOMAIN penalties = {}

\* Nor is the store unbounded: once an eviction has pruned it, every penalty
\* left in it still has time to run.
EvictionPrunes ==
  [][Live \ Live' # {} =>
       \A c \in DOMAIN penalties' : penalties'[c].expiry > now]_vars

\* What the penalty store is for.  If an evicted client came back now, it
\* would find on each tool the friction it was evicted with, as long as that
\* was worth keeping and penalty_ttl has not passed; else it starts at zero.
ReconnectRestoresFriction ==
  \A c \in DOMAIN evicted, t \in DOMAIN ToolConfig :
    LET e == evicted[c]
        due == now < e.at + PenaltyTTL /\ e.levels[t] >= PenaltyMin
    IN  GetOrCreate(Registry, c, now).live[c].friction[t]
          = IF due THEN e.levels[t] ELSE 0

\* check() prices a call before the idle decay and record_call charges it
\* after: an allowed call never costs more than the budget it was checked
\* against, so no client is ever overdrawn.
NeverOverdrawn == \A c \in Live : Affordable(controllers[c], 0)

\* Friction decays during idle periods: a call is refused as blocked only if
\* the friction decayed for the time since the client's last call blocks it.
WaitingUnblocks ==
  reply.client \in Live /\ reply.reason = "blocked" =>
    LET c == TimeDecay(controllers[reply.client], now)
    IN  Get(c.friction, reply.tool) >= ToolConfig[reply.tool].block
============================================================================
