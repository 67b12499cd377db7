------------------------ MODULE ResourceServer_proofs ------------------------
(* Proofs about the tools of a resource server, for every number of        *)
(* requests, tokens, clients and tools.  The requests call the registry in *)
(* any order, so that what FrictionRegistry_proofs shows of its steps also *)
(* holds here; to that the proofs add that a request keeps its token and   *)
(* tool, that the ledger of the tools that ran agrees with the windows     *)
(* and the budgets of the controllers, and that what a client does leaves  *)
(* no trace on the controller or the penalty of another.                   *)
EXTENDS ResourceServer, FrictionRegistry_proofs

----------------------------------------------------------------------------
(* Part 1, the requests. *)

\* The state of a request.
CallRecord ==
  [pc : {"idle", "verifying", "granted", "running"}, token : Tokens \cup {None},
   tool : Tools \cup {None}]

\* A request that is on its way knows its tool.
CallOK(x) == x.pc \in {"verifying", "granted"} => x.tool \in Tools

\* The variables of the requests.
CallsOK ==
  /\ installed \in BOOLEAN
  /\ calls \in [Requests -> CallRecord]
  /\ \A k \in Requests : CallOK(calls[k])

\* The client of a request is one the registry may be asked about.
LEMMA ClientIsKnown ==
  ASSUME NEW token \in Tokens
  PROVE  ClientOf(token) \in Clients
BY ServerAssumption DEF ClientOf

\* Every step of the server is one of the registry's or leaves it alone.
LEMMA ServerSteps == CallsOK /\ [ServerNext]_allVars => [Next]_registry
<1> SUFFICES ASSUME CallsOK, [ServerNext]_allVars PROVE [Next]_registry
  OBVIOUS
<1>1. Verifier!Deliver => now' = now
  BY DEF Verifier!Deliver
<1>2. ASSUME NoCall, now' = now PROVE [Next]_registry
  BY <1>2 DEF NoCall, registry
<1>3. CASE InitFriction
  BY <1>1, <1>2, <1>3 DEF InitFriction
<1>4. ASSUME NEW k \in Requests, Request(k) PROVE [Next]_registry
  <2>0. calls[k] \in CallRecord /\ CallOK(calls[k])
    BY DEF CallsOK
  <2>1. ASSUME NEW token \in Tokens, NEW tool \in Tools, Arrive(k, token, tool)
        PROVE  [Next]_registry
    BY <1>2, <2>1 DEF Arrive, Verifier!Ask
  <2>2. ASSUME NEW tool \in Tools, ArriveAnonymous(k, tool) PROVE [Next]_registry
    BY <1>1, <1>2, <2>2 DEF ArriveAnonymous
  <2>3. CASE Authenticate(k)
    BY <1>2, <2>3 DEF Authenticate, Verifier!Accept, Verifier!Refuse, Verifier!Decide,
                      Verifier!Abandon
  <2>4. CASE RunUnguarded(k) \/ Finish(k)
    BY <1>1, <1>2, <2>4 DEF RunUnguarded, Granted, Finish
  <2>5. CASE FrictionControlled(k) \/ RecordToolCall(k)
    <3>1. Guarded(k)
      BY <2>5 DEF FrictionControlled, RecordToolCall
    <3>2. calls[k].token \in Tokens /\ calls[k].tool \in Tools
      BY <2>0, <3>1 DEF Guarded, Granted, CallOK, CallRecord
    <3>3. ClientOf(calls[k].token) \in Clients
      BY <3>2, ClientIsKnown
    <3> QED BY <2>5, <3>2, <3>3 DEF FrictionControlled, RecordToolCall, Next
  <2> QED BY <1>4, <2>1, <2>2, <2>3, <2>4, <2>5 DEF Request
<1>5. ASSUME NEW token \in Tokens, Revoke(token) PROVE [Next]_registry
  BY <1>2, <1>5 DEF Revoke, Verifier!Revoke
<1>6. CASE TimePasses
  BY <1>6 DEF TimePasses, Next
<1>7. CASE UNCHANGED allVars
  BY <1>7 DEF allVars, registry
<1> QED BY <1>3, <1>4, <1>5, <1>6, <1>7 DEF ServerNext

\* A step that moves one request.
LEMMA MoveKeeps ==
  ASSUME CallsOK, NEW k \in Requests, NEW x \in CallRecord, CallOK(x),
         calls' = [calls EXCEPT ![k] = x], installed' = installed
  PROVE  CallsOK'
<1>1. \A j \in Requests : calls'[j] = IF j = k THEN x ELSE calls[j]
  BY DEF CallsOK
<1>2. calls' \in [Requests -> CallRecord]
  BY DEF CallsOK
<1>3. ASSUME NEW j \in Requests PROVE CallOK(calls[j])'
  <2>1. CallOK(calls'[j])
    BY <1>1 DEF CallsOK
  <2> QED BY <2>1 DEF CallOK
<1> QED BY <1>2, <1>3 DEF CallsOK

\* A request that is over or runs its tool.
LEMMA IdleKeeps ==
  ASSUME CallsOK, NEW k \in Requests, End(k) \/ Run(k),
         installed' = installed
  PROVE  CallsOK'
<1> DEFINE r == [Idle EXCEPT !.pc = "running"]
<1>1. Idle \in CallRecord /\ r \in CallRecord
  BY DEF Idle, CallRecord
<1>2. CallOK(Idle) /\ CallOK(r)
  BY DEF Idle, CallOK
<1>3. calls' = [calls EXCEPT ![k] = Idle] \/ calls' = [calls EXCEPT ![k] = r]
  BY DEF End, Run
<1> HIDE DEF r
<1> QED BY <1>1, <1>2, <1>3, MoveKeeps DEF Idle

\* Every step keeps the requests in order.
LEMMA RequestsStep == CallsOK /\ [ServerNext]_allVars => CallsOK'
<1> SUFFICES ASSUME CallsOK, [ServerNext]_allVars PROVE CallsOK'
  OBVIOUS
<1>1. CASE InitFriction
  <2>1. calls' = calls /\ installed' = TRUE
    BY <1>1 DEF InitFriction
  <2> QED BY <2>1 DEF CallsOK
<1>2. ASSUME NEW k \in Requests, Request(k) PROVE CallsOK'
  <2> DEFINE x == calls[k]
  <2>0. x \in CallRecord /\ CallOK(x)
    BY DEF CallsOK
  <2>1. ASSUME NEW token \in Tokens, NEW tool \in Tools, Arrive(k, token, tool)
        PROVE  CallsOK'
    <3> DEFINE y == [pc |-> "verifying", token |-> token, tool |-> tool]
    <3>1. y \in CallRecord /\ CallOK(y)
      BY DEF CallRecord, CallOK
    <3>2. calls' = [calls EXCEPT ![k] = y] /\ installed' = installed
      BY <2>1 DEF Arrive
    <3> HIDE DEF y
    <3> QED BY <3>1, <3>2, MoveKeeps
  <2>2. ASSUME NEW tool \in Tools, ArriveAnonymous(k, tool) PROVE CallsOK'
    <3> DEFINE y == [Idle EXCEPT !.pc = "granted", !.tool = tool]
    <3>1. y \in CallRecord /\ CallOK(y)
      BY DEF Idle, CallRecord, CallOK
    <3>2. calls' = [calls EXCEPT ![k] = y] /\ installed' = installed
      BY <2>2 DEF ArriveAnonymous
    <3> HIDE DEF y
    <3> QED BY <3>1, <3>2, MoveKeeps
  <2>3. CASE Authenticate(k)
    <3>1. installed' = installed /\ (Move(k, "granted") \/ End(k))
      BY <2>3 DEF Authenticate
    <3>2. CASE Move(k, "granted")
      <4> DEFINE y == [x EXCEPT !.pc = "granted"]
      <4>1. y \in CallRecord /\ CallOK(y)
        BY <2>0, <2>3 DEF Authenticate, CallRecord, CallOK
      <4>2. calls' = [calls EXCEPT ![k] = y]
        BY <3>2 DEF Move
      <4> HIDE DEF y
      <4> QED BY <3>1, <4>1, <4>2, MoveKeeps
    <3> QED BY <3>1, <3>2, IdleKeeps
  <2>4. CASE RunUnguarded(k) \/ FrictionControlled(k) \/ RecordToolCall(k) \/ Finish(k)
    <3>1. (End(k) \/ Run(k)) /\ installed' = installed
      BY <2>4 DEF RunUnguarded, FrictionControlled, RecordToolCall, Finish, Guarded,
                  Granted, Start, Decline
    <3> QED BY <3>1, IdleKeeps
  <2> QED BY <1>2, <2>1, <2>2, <2>3, <2>4 DEF Request
<1>3. ASSUME NEW token \in Tokens, Revoke(token) PROVE CallsOK'
  BY <1>3 DEF Revoke, server, CallsOK
<1>4. TimePasses \/ UNCHANGED allVars => CallsOK'
  BY DEF TimePasses, server, allVars, CallsOK
<1> QED BY <1>1, <1>2, <1>3, <1>4 DEF ServerNext

----------------------------------------------------------------------------
(* Part 2, the ledger: what ran for a client since its controller was      *)
(* created, beside the controller.                                         *)

\* The ledger after one more tool.
Later(l, tool) ==
  [recent |-> Append(IF Len(l.recent) = WindowSize THEN Tail(l.recent) ELSE l.recent,
                     tool),
   paid |-> l.paid + (IF tool \in Priced THEN 1 ELSE 0)]

\* What n calls of priced tools may have cost.
PaysFor(spent, n) ==
  IF n = 0 THEN spent = 0
  ELSE /\ \E t \in Priced : n * ToolConfig[t].minCost <= spent
       /\ \E t \in Priced : spent <= n * ToolConfig[t].maxCost

\* A controller and a ledger that agree.
Matches(c, l) ==
  /\ c.window.records = l.recent
  /\ l.paid \in Nat
  /\ DefaultBudget # Unlimited =>
       c.budget \in Int /\ PaysFor(DefaultBudget - c.budget, l.paid)

\* Each live client's do, and there is no other ledger.
LedgersMatch ==
  /\ DOMAIN ran = Live
  /\ \A c \in Live : Matches(controllers[c], ran[c])

\* One call more is paid by between the least and the most such a call costs.
LEMMA PaysForMore ==
  ASSUME NEW spent \in Int, NEW n \in Nat, PaysFor(spent, n), NEW t \in Priced,
         NEW cost \in ToolConfig[t].minCost .. ToolConfig[t].maxCost
  PROVE  PaysFor(spent + cost, n + 1)
<1>0. \A u \in Priced : ToolConfig[u].minCost \in Nat /\ ToolConfig[u].maxCost \in Nat
  BY CostAssumption DEF Priced
<1>1. \E u \in Priced : (n + 1) * ToolConfig[u].minCost <= spent + cost
  <2> DEFINE m == ToolConfig[t].minCost
  <2>1. m \in Nat /\ cost \in Int /\ m <= cost
    BY <1>0
  <2>2. CASE n = 0
    <3>1. spent = 0 /\ (n + 1) * m = m
      BY <2>1, <2>2 DEF PaysFor
    <3> QED BY <2>1, <3>1
  <2>3. CASE n # 0
    <3>1. PICK u \in Priced : n * ToolConfig[u].minCost <= spent
      BY <2>3 DEF PaysFor
    <3> DEFINE k == ToolConfig[u].minCost
    <3>2. k \in Nat
      BY <1>0
    <3> HIDE DEF k, m
    <3>3. /\ n * k \in Int /\ n * m \in Int
          /\ (n + 1) * k = n * k + k /\ (n + 1) * m = n * m + m
          /\ m <= k => n * m <= n * k
      BY <2>1, <3>2, TimesMonotone
    <3>4. n * k <= spent
      BY <3>1 DEF k
    <3>5. CASE m <= k
      <4>1. (n + 1) * m <= spent + cost
        BY <2>1, <3>3, <3>4, <3>5
      <4> QED BY <4>1 DEF m
    <3>6. CASE k <= m
      <4>1. (n + 1) * k <= spent + cost
        BY <2>1, <3>2, <3>3, <3>4, <3>6
      <4> QED BY <4>1 DEF k
    <3> QED BY <2>1, <3>2, <3>5, <3>6
  <2> QED BY <2>2, <2>3
<1>2. \E u \in Priced : spent + cost <= (n + 1) * ToolConfig[u].maxCost
  <2> DEFINE m == ToolConfig[t].maxCost
  <2>1. m \in Nat /\ cost \in Int /\ cost <= m
    BY <1>0
  <2>2. CASE n = 0
    <3>1. spent = 0 /\ (n + 1) * m = m
      BY <2>1, <2>2 DEF PaysFor
    <3> QED BY <2>1, <3>1
  <2>3. CASE n # 0
    <3>1. PICK u \in Priced : spent <= n * ToolConfig[u].maxCost
      BY <2>3 DEF PaysFor
    <3> DEFINE k == ToolConfig[u].maxCost
    <3>2. k \in Nat
      BY <1>0
    <3> HIDE DEF k, m
    <3>3. /\ n * k \in Int /\ n * m \in Int
          /\ (n + 1) * k = n * k + k /\ (n + 1) * m = n * m + m
          /\ k <= m => n * k <= n * m
      BY <2>1, <3>2, TimesMonotone
    <3>4. spent <= n * k
      BY <3>1 DEF k
    <3>5. CASE k <= m
      <4>1. spent + cost <= (n + 1) * m
        BY <2>1, <3>3, <3>4, <3>5
      <4> QED BY <4>1 DEF m
    <3>6. CASE m <= k
      <4>1. spent + cost <= (n + 1) * k
        BY <2>1, <3>2, <3>3, <3>4, <3>6
      <4> QED BY <4>1 DEF k
    <3> QED BY <2>1, <3>2, <3>5, <3>6
  <2> QED BY <2>2, <2>3
<1>3. n + 1 # 0
  OBVIOUS
<1> QED BY <1>1, <1>2, <1>3 DEF PaysFor

\* The price of a configured tool lies between its floor and its ceiling.
LEMMA PriceInRange ==
  ASSUME NEW c, Sound(c), NEW t \in DOMAIN ToolConfig
  PROVE  Check(c, t).cost \in ToolConfig[t].minCost .. ToolConfig[t].maxCost
<1> DEFINE low == ToolConfig[t].minCost
           high == ToolConfig[t].maxCost
           f == Get(c.friction, t)
           d == high - low
<1>1. low \in Nat /\ high \in Nat /\ d \in Nat /\ Unit \in Nat \ {0} /\ f \in 0..Unit
  BY CostAssumption, ConfigAssumption, GetLevel DEF Sound, Ranged
<1>2. Check(c, t).cost = low + (f * d) \div Unit
  BY DEF Check, Price, Scale, Sound
<1>3. high = low + d
  BY <1>1
<1> HIDE DEF low, high, f, d
<1>4. f * d \in Nat /\ f * d <= d * Unit
  BY <1>1, TimesMonotone
<1>5. (f * d) \div Unit \in 0..d
  BY <1>1, <1>4, DivBound
<1> QED BY <1>1, <1>2, <1>3, <1>5 DEF low, high

\* A call of either kind enters the window; a call of check_and_record is also
\* charged, if the tool is configured.
LEMMA RecordMatches ==
  ASSUME NEW c, Sound(c), NEW l, Matches(c, l), NEW t, NEW ts \in 0..MaxTime
  PROVE  /\ t \in Controlled => Matches(DrainSaturation(RecordCall(c, t, ts)), Later(l, t))
         /\ t \notin Controlled =>
              Matches(DrainSaturation(RecordUnconfigured(c, t, ts)), Later(l, t))
<1> DEFINE a == TimeDecay(c, ts)
           cost == Check(a, t).cost
           r == RecordCall(c, t, ts)
           u == RecordUnconfigured(c, t, ts)
<1>1. /\ DOMAIN r = Fields /\ r.window = WindowRecord(c.window, t)
      /\ r.budget = Spend(c.budget, cost)
      /\ DOMAIN u = Fields /\ u.window = WindowRecord(c.window, t) /\ u.budget = c.budget
  <2> DEFINE d == AdjustFriction(Counted(c, t, ts))
  <2>1. DOMAIN c = Fields
    BY DEF Sound, Ranged
  <2>2. Differs(c, d, Adjusted \cup {"window", "total"})
    BY <2>1, RecordDiffers
  <2>3. Differs(d, r, {"budget", "last"}) /\ Differs(d, u, {"last"})
    BY <2>1, RecordDiffers
  <2>4. d.window = WindowRecord(c.window, t)
    BY <2>1, RecordDiffers
  <2>5. r.budget = Spend(c.budget, cost)
    BY <2>1, RecordDiffers
  <2> HIDE DEF d, r, u, cost
  <2> QED BY <2>2, <2>3, <2>4, <2>5 DEF Differs, Fields, Adjusted
<1>2. Sound(a)
  BY TimeDecayRanged DEF Sound, KeepsRange
<1>3. cost \in Int
  BY DecayCheaper
<1>4. /\ t \in DOMAIN ToolConfig => cost \in ToolConfig[t].minCost .. ToolConfig[t].maxCost
      /\ t \notin DOMAIN ToolConfig => cost = 0
  <2> HIDE DEF a
  <2>1. t \notin DOMAIN ToolConfig => Check(a, t).cost = 0
    BY <1>2 DEF Check, Sound
  <2> QED BY <1>2, <2>1, PriceInRange
<1> HIDE DEF a, cost, r, u
<1>5. /\ DrainSaturation(r).window = r.window /\ DrainSaturation(r).budget = r.budget
      /\ DrainSaturation(u).window = u.window /\ DrainSaturation(u).budget = u.budget
  BY <1>1 DEF DrainSaturation, Fields
<1>6. WindowRecord(c.window, t).records = Later(l, t).recent
  BY DEF WindowRecord, Later, Matches
<1>7. Later(l, t).paid = l.paid + (IF t \in Priced THEN 1 ELSE 0) /\ l.paid \in Nat
  BY DEF Later, Matches
<1>8. ASSUME t \in Controlled PROVE Matches(DrainSaturation(r), Later(l, t))
  <2>1. ASSUME DefaultBudget # Unlimited
        PROVE  r.budget \in Int /\ PaysFor(DefaultBudget - r.budget, Later(l, t).paid)
    <3>1. /\ DefaultBudget \in Int /\ c.budget \in Int /\ c.budget # Unlimited
          /\ PaysFor(DefaultBudget - c.budget, l.paid)
      BY <2>1, ConfigAssumption DEF Matches
    <3>2. r.budget = c.budget - cost
      BY <1>1, <3>1 DEF Spend
    <3>3. DefaultBudget - r.budget = (DefaultBudget - c.budget) + cost
          /\ r.budget \in Int /\ DefaultBudget - c.budget \in Int
      BY <1>3, <3>1, <3>2
    <3>4. CASE t \in DOMAIN ToolConfig
      <4>1. t \in Priced /\ Later(l, t).paid = l.paid + 1
        BY <1>7, <1>8, <3>4 DEF Priced
      <4> QED BY <1>4, <1>7, <3>1, <3>3, <3>4, <4>1, PaysForMore
    <3>5. CASE t \notin DOMAIN ToolConfig
      <4>1. cost = 0 /\ Later(l, t).paid = l.paid
        BY <1>4, <1>7, <3>5 DEF Priced
      <4>2. DefaultBudget - r.budget = DefaultBudget - c.budget
        BY <3>1, <3>2, <4>1
      <4> QED BY <3>1, <3>3, <4>1, <4>2
    <3> QED BY <3>4, <3>5
  <2>2. Later(l, t).paid \in Nat
    BY <1>7
  <2> QED BY <1>1, <1>5, <1>6, <2>1, <2>2 DEF Matches
<1>9. ASSUME t \notin Controlled PROVE Matches(DrainSaturation(u), Later(l, t))
  <2>1. Later(l, t).paid = l.paid
    BY <1>7, <1>9 DEF Priced
  <2> QED BY <1>1, <1>5, <1>6, <2>1 DEF Matches
<1> QED BY <1>8, <1>9 DEF r, u

\* A controller that is created, restored or not, agrees with the empty ledger.
LEMMA FreshMatches ==
  ASSUME NEW store, NEW client, NEW at
  PROVE  Matches(RestorePenalty(store, client, CreateController, at), Empty)
<1> DEFINE n == CreateController
<1>1. n.budget = DefaultBudget /\ n.window = EmptyWindow /\ DOMAIN n = Fields
  <2>1. n.budget = DefaultBudget /\ n.window = EmptyWindow
    BY DEF CreateController, NewController
  <2> QED BY <2>1, CreateSound DEF Sound, Ranged
<1> HIDE DEF n
<1>2. ASSUME NEW levels
      PROVE  /\ RestoreFriction(n, levels).budget = DefaultBudget
             /\ RestoreFriction(n, levels).window = EmptyWindow
  <2>1. \E f : RestoreFriction(n, levels) = [n EXCEPT !.friction = f]
    BY DEF RestoreFriction
  <2> QED BY <1>1, <2>1 DEF Fields
<1>3. /\ RestorePenalty(store, client, n, at).budget = DefaultBudget
      /\ RestorePenalty(store, client, n, at).window = EmptyWindow
  BY <1>1, <1>2 DEF RestorePenalty
<1>4. DefaultBudget # Unlimited => DefaultBudget \in Int /\ PaysFor(DefaultBudget - DefaultBudget, 0)
  BY ConfigAssumption DEF PaysFor
<1> QED BY <1>3, <1>4 DEF Matches, Empty, EmptyWindow, n

\* The controllers _get_or_create leaves: those there were, and a fresh one.
LEMMA GetOrCreateMatches ==
  ASSUME LedgersMatch, NEW client
  PROVE  LET r == GetOrCreate(Registry, client, now)
         IN  \A k \in DOMAIN r.live : Matches(r.live[k], Ledger(k))
<1> DEFINE r0 == Registry
           r == GetOrCreate(r0, client, now)
           Good(q) == \A k \in DOMAIN q.live : Matches(q.live[k], Ledger(k))
<1>1. Good(r0)
  BY DEF Registry, LedgersMatch, Ledger, Live
<1>2. Good(Evict(r0, now))
  BY <1>1 DEF Evict, Without
<1>3. ASSUME NEW q, Good(q), client \notin Live
      PROVE  Good(Admit(q, client, now))
  <2>1. Ledger(client) = Empty
    BY <1>3 DEF LedgersMatch, Ledger
  <2>2. Admit(q, client, now).live =
          Put(q.live, client, RestorePenalty(q.store, client, CreateController, now))
    BY DEF Admit
  <2> QED BY <1>3, <2>1, <2>2, FreshMatches DEF Put
<1>4. CASE client \in DOMAIN r0.live
  <2>1. r.live = r0.live
    BY <1>4 DEF GetOrCreate, Registry
  <2> QED BY <1>1, <2>1
<1>5. CASE client \notin DOMAIN r0.live
  <2>1. r = Admit(IF Full(r0) THEN Evict(r0, now) ELSE r0, client, now)
    BY <1>5 DEF GetOrCreate
  <2> HIDE DEF r
  <2>2. r = Admit(Evict(r0, now), client, now) \/ r = Admit(r0, client, now)
    BY <2>1
  <2>3. client \notin Live
    BY <1>5 DEF Registry, Live
  <2>4. Good(r)
    BY <1>1, <1>2, <1>3, <2>2, <2>3
  <2> QED BY <2>4 DEF r
<1> QED BY <1>4, <1>5

\* A call that agrees with what is entered for its client.
LEMMA CallMatches ==
  ASSUME Booked, LedgersMatch, NEW client \in Clients, NEW d, NEW l,
         Becomes(GetOrCreate(Registry, client, now), client, d),
         ran' = [c \in DOMAIN controllers' |-> IF c = client THEN l ELSE Ledger(c)],
         LET o == GetOrCreate(Registry, client, now).live[client]
         IN  Sound(o) /\ Matches(o, Ledger(client)) => Matches(d, l)
  PROVE  LedgersMatch' /\ client \in Live'
<1> DEFINE r == GetOrCreate(Registry, client, now)
<1>1. \A k \in DOMAIN r.live : Sound(r.live[k]) /\ Matches(r.live[k], Ledger(k))
  <2>1. \A k \in DOMAIN r.live : Matches(r.live[k], Ledger(k))
    BY GetOrCreateMatches
  <2>2. AccountsFor(r, Remember(r))
    BY GetOrCreateAccounts DEF Booked
  <2> QED BY <2>1, <2>2 DEF AccountsFor
<1>2. client \in DOMAIN r.live
  <2>1. Apart(Registry) /\ Lists(Registry)
    BY DEF Booked, Listed, Apart, Accounted, AccountsFor, Registry
  <2> QED BY <2>1, GetOrCreateKeeps
<1>3. Matches(d, l)
  BY <1>1, <1>2
<1>4. controllers' = [r.live EXCEPT ![client] = d]
  BY DEF Becomes
<1> HIDE DEF r
<1>5. DOMAIN controllers' = DOMAIN r.live /\ DOMAIN ran' = DOMAIN controllers'
  BY <1>4
<1>6. ASSUME NEW k \in DOMAIN controllers' PROVE Matches(controllers'[k], ran'[k])
  <2>1. ran'[k] = IF k = client THEN l ELSE Ledger(k)
    BY <1>6
  <2>2. controllers'[k] = IF k = client THEN d ELSE r.live[k]
    BY <1>4, <1>5, <1>6
  <2> QED BY <1>1, <1>3, <1>5, <1>6, <2>1, <2>2
<1> QED BY <1>2, <1>5, <1>6 DEF LedgersMatch, Live, Matches

\* A refused call is one that check did not allow.
LEMMA RefusedMeansDenied ==
  ASSUME NEW c, NEW t
  PROVE  Check(c, t).reason \in {"budget", "blocked"} <=> ~Check(c, t).allowed
<1>1. CASE t \notin DOMAIN c.config
  BY <1>1 DEF Check
<1>2. CASE t \in DOMAIN c.config
  <2> DEFINE b == Get(c.friction, t) >= c.config[t].block
             j == Get(c.friction, t) >= c.config[t].justify
             p == Affordable(c, Price(c.config[t], Get(c.friction, t)))
  <2>1. /\ Check(c, t).allowed <=> ~b /\ p
        /\ Check(c, t).reason = IF ~p THEN "budget" ELSE IF b THEN "blocked"
                                ELSE IF j THEN "justify" ELSE "allowed"
    BY <1>2 DEF Check
  <2> HIDE DEF b, j, p
  <2> QED BY <2>1
<1> QED BY <1>1, <1>2

\* Every step keeps the ledger; only an installed registry has clients.
LEMMA LedgersStep ==
  ASSUME Booked, CallsOK, LedgersMatch, [ServerNext]_allVars
  PROVE  /\ LedgersMatch'
         /\ (Live # {} => installed) => (Live # {} => installed)'
         /\ (spenders \subseteq Clients \cup {None})
              => (spenders \subseteq Clients \cup {None})'
<1> DEFINE Installed == Live # {} => installed
           Spenders == spenders \subseteq Clients \cup {None}
           Good == LedgersMatch' /\ (Installed => Installed') /\ (Spenders => Spenders')
<1>1. ASSUME controllers' = controllers, ran' = ran, spenders' = spenders,
             installed => installed'
      PROVE  Good
  BY <1>1 DEF LedgersMatch, Live, Matches
<1>2. ASSUME NEW k \in Requests, FrictionControlled(k) \/ RecordToolCall(k)
      PROVE  Good
  <2> DEFINE tool == calls[k].tool
             token == calls[k].token
             client == ClientOf(token)
             o == GetOrCreate(Registry, client, now).live[client]
             e == [c \in DOMAIN controllers' |->
                     IF c = client THEN Later(Ledger(c), tool) ELSE Ledger(c)]
             same == [c \in DOMAIN controllers' |-> Ledger(c)]
  <2>1. Guarded(k) /\ installed /\ installed' = installed
    BY <1>2 DEF FrictionControlled, RecordToolCall, Guarded, Granted
  <2>2. token \in Tokens /\ client \in Clients /\ now \in 0..MaxTime
        /\ ClientClaim[token] \in Clients \cup {None}
    <3>1. calls[k] \in CallRecord /\ token # None
      BY <2>1 DEF CallsOK, Guarded
    <3>2. token \in Tokens
      BY <3>1 DEF CallRecord
    <3> QED BY <3>2, ClientIsKnown, ServerAssumption DEF Booked, Accounted
  <2>3. Start(k, client) => /\ ran' = e
                            /\ spenders' \in {spenders, spenders \cup {ClientClaim[token]}}
    BY DEF Start, Later
  <2>4. Decline(k) => ran' = same /\ spenders' = spenders
    BY DEF Decline
  <2>5. CASE FrictionControlled(k)
    <3> DEFINE d == IF Check(o, tool).allowed
                    THEN DrainSaturation(RecordCall(o, tool, now)) ELSE o
    <3>1. /\ tool \in Controlled /\ CheckAndRecord(client, tool)
          /\ reply'.reason \in {"budget", "blocked"} => Decline(k)
          /\ reply'.reason \notin {"budget", "blocked"} => Start(k, client)
      BY <2>5 DEF FrictionControlled
    <3>2. /\ Becomes(GetOrCreate(Registry, client, now), client, d)
          /\ reply'.reason = Check(o, tool).reason
      BY <3>1 DEF CheckAndRecord
    <3>3. /\ Check(o, tool).allowed => Start(k, client)
          /\ ~Check(o, tool).allowed => Decline(k)
      BY <3>1, <3>2, RefusedMeansDenied
    <3> HIDE DEF o
    <3>4. CASE Check(o, tool).allowed
      <4>1. ran' = e /\ d = DrainSaturation(RecordCall(o, tool, now))
        BY <2>3, <3>3, <3>4
      <4>2. Sound(o) /\ Matches(o, Ledger(client)) => Matches(d, Later(Ledger(client), tool))
        BY <2>2, <3>1, <4>1, RecordMatches
      <4>3. ran' = [c \in DOMAIN controllers' |->
                      IF c = client THEN Later(Ledger(client), tool) ELSE Ledger(c)]
        BY <4>1
      <4> HIDE DEF d, client, e
      <4>4. LedgersMatch'
        BY <2>2, <3>2, <4>2, <4>3, CallMatches DEF o
      <4> QED BY <2>1, <2>2, <2>3, <3>3, <3>4, <4>4
    <3>5. CASE ~Check(o, tool).allowed
      <4>1. ran' = same /\ spenders' = spenders /\ d = o
        BY <2>4, <3>3, <3>5
      <4>2. ran' = [c \in DOMAIN controllers' |->
                      IF c = client THEN Ledger(client) ELSE Ledger(c)]
        BY <4>1
      <4> HIDE DEF d, client, same
      <4>3. LedgersMatch'
        BY <2>2, <3>2, <4>1, <4>2, CallMatches DEF o
      <4> QED BY <2>1, <4>1, <4>3
    <3> QED BY <3>4, <3>5
  <2>6. CASE RecordToolCall(k)
    <3> DEFINE d == DrainSaturation(RecordUnconfigured(o, tool, now))
    <3>1. tool \notin Controlled /\ RecordUncontrolled(client, tool) /\ Start(k, client)
      BY <2>6 DEF RecordToolCall
    <3>2. Becomes(GetOrCreate(Registry, client, now), client, d)
      BY <3>1 DEF RecordUncontrolled
    <3> HIDE DEF o
    <3>3. Sound(o) /\ Matches(o, Ledger(client)) => Matches(d, Later(Ledger(client), tool))
      BY <2>2, <3>1, RecordMatches
    <3>4. ran' = [c \in DOMAIN controllers' |->
                    IF c = client THEN Later(Ledger(client), tool) ELSE Ledger(c)]
      BY <2>3, <3>1
    <3> HIDE DEF d, client, e
    <3>5. LedgersMatch'
      BY <2>2, <3>2, <3>3, <3>4, CallMatches DEF o
    <3> QED BY <2>1, <2>2, <2>3, <3>1, <3>5
  <2> QED BY <1>2, <2>5, <2>6
<1>3. CASE InitFriction
  BY <1>1, <1>3 DEF InitFriction, NoCall
<1>4. ASSUME NEW k \in Requests, Request(k), ~FrictionControlled(k), ~RecordToolCall(k)
      PROVE  Good
  <2>1. controllers' = controllers /\ ran' = ran /\ spenders' = spenders
        /\ installed' = installed
    BY <1>4 DEF Request, Arrive, ArriveAnonymous, Authenticate, RunUnguarded, Granted,
                Finish, NoCall
  <2> QED BY <1>1, <2>1
<1>5. ASSUME NEW token \in Tokens, Revoke(token) PROVE Good
  BY <1>1, <1>5 DEF Revoke, NoCall, server
<1>6. CASE TimePasses
  BY <1>1, <1>6 DEF TimePasses, Tick, server
<1>7. CASE UNCHANGED allVars
  BY <1>1, <1>7 DEF allVars, server
<1>8. Good
  BY <1>2, <1>3, <1>4, <1>5, <1>6, <1>7 DEF ServerNext
<1> QED BY <1>8

----------------------------------------------------------------------------
(* Part 3, clients apart: the controller of a client for which no priced   *)
(* tool has run has friction on none.  This supposes Separable.            *)

\* The claim that the tokens of a client make.
ClaimOf(client) == IF client = Unknown THEN None ELSE client

\* The tools to which only calls of priced tools can give friction or a rate.
Spared == {t \in Tools : t \in DOMAIN ToolConfig => t \in Controlled}

\* A controller of this registry in which nothing priced has happened.
Fresh(c) == Unmoved(c, Spared, Priced)

\* A controller of this registry.
Ours(c) ==
  /\ Consistent(c) /\ Grouped(c)
  /\ c.config = ToolConfig /\ c.groups = GroupConfig

\* What may be stored for client c.
Kept(levels, c, s) ==
  /\ DOMAIN levels \subseteq Tools
  /\ ClaimOf(c) \notin s => \A t \in Spared : Get(levels, t) = 0

\* In the registry state r, whoever is not among the claims s has spent
\* nothing, nor is any friction stored for it.
Parted(r, s) ==
  /\ \A c \in DOMAIN r.live :
       Ours(r.live[c]) /\ (ClaimOf(c) \notin s => Fresh(r.live[c]))
  /\ \A c \in DOMAIN r.store : Kept(r.store[c].levels, c, s)

\* A token makes the claim of the client it is taken for.
LEMMA ClaimOfClient ==
  ASSUME Separable, NEW token \in Tokens
  PROVE  ClaimOf(ClientOf(token)) = ClientClaim[token]
BY DEF Separable, ClaimOf, ClientOf

\* What Separable says of the tools that groups press on.
LEMMA GroupsSpared ==
  ASSUME Separable, NEW c, Ours(c)
  PROVE  /\ Priced \subseteq Tools /\ Spared \cap DOMAIN c.config \subseteq Priced
         /\ \A g \in DOMAIN c.groups :
              c.groups[g].tools \subseteq Spared /\ c.groups[g].target \in Nat
<1>1. DOMAIN c.groups = Groups /\ c.groups = GroupConfig /\ c.config = ToolConfig
  BY RegistryAssumption DEF Ours
<1>2. Priced \subseteq Tools /\ Spared \cap DOMAIN ToolConfig \subseteq Priced
  BY RegistryAssumption DEF Priced, Spared
<1>3. ASSUME NEW g \in Groups
      PROVE  GroupConfig[g].tools \subseteq Spared /\ GroupConfig[g].target \in Nat
  BY <1>3 DEF Separable, Spared
<1> QED BY <1>1, <1>2, <1>3

\* Draining the events of saturated tools changes none of this.
LEMMA DrainOurs ==
  ASSUME NEW c, Ours(c)
  PROVE  Ours(DrainSaturation(c)) /\ (Fresh(c) => Fresh(DrainSaturation(c)))
<1> DEFINE d == DrainSaturation(c)
<1>1. Consistent(d) /\ Differs(c, d, {"pending"})
  BY DrainConsistent DEF Ours
<1> HIDE DEF d
<1>2. /\ d.config = c.config /\ d.groups = c.groups /\ d.groupEma = c.groupEma
      /\ d.friction = c.friction /\ d.ema = c.ema /\ d.window = c.window
  BY <1>1 DEF Differs, Fields
<1>3. Ours(d)
  BY <1>1, <1>2 DEF Ours, Grouped
<1>4. Fresh(c) => Fresh(d)
  BY <1>2 DEF Fresh, Unmoved
<1> QED BY <1>3, <1>4 DEF d

\* A recorded call keeps a controller ours, and fresh if the tool has no price.
LEMMA RecordOurs ==
  ASSUME Separable, NEW c, Ours(c), NEW t \in Tools, NEW ts \in 0..MaxTime,
         NEW d \in {RecordCall(c, t, ts), RecordUnconfigured(c, t, ts)}
  PROVE  Ours(d) /\ (t \notin Priced /\ Fresh(c) => Fresh(d))
<1>1. Consistent(c) /\ Grouped(c) /\ Steerable(c) /\ Counting(c.window)
  BY DEF Ours, Consistent
<1>2. Consistent(d) /\ d.config = c.config
  BY <1>1, RecordConsistent
<1>3. Grouped(d) /\ d.groups = c.groups
  BY <1>1, CallGrouped
<1>4. Ours(d)
  BY <1>2, <1>3 DEF Ours
<1>5. ASSUME t \notin Priced, Fresh(c) PROVE Fresh(d)
  BY <1>1, <1>5, GroupsSpared, CallUnmoved DEF Fresh
<1> QED BY <1>4, <1>5

\* A controller that is created is ours and fresh,
LEMMA CreateOurs ==
  ASSUME Separable
  PROVE  Ours(CreateController) /\ Fresh(CreateController)
<1> DEFINE c == CreateController
           T == DOMAIN ToolConfig
           zero == [t \in T |-> 0]
           targets == [t \in T |-> ToolConfig[t].target]
           none == [g \in Groups |-> 0]
<1>1. /\ DOMAIN c = Fields /\ c.config = ToolConfig /\ c.groups = GroupConfig
      /\ c.window = EmptyWindow /\ c.total = 0 /\ c.friction = zero /\ c.ema = zero
      /\ c.last = NoTime /\ c.satCount = zero /\ c.target = targets
      /\ c.saturated = {} /\ c.pending = {} /\ c.groupEma = none
  BY DEF CreateController, NewController, Fields
<1> HIDE DEF c
<1>2. T \subseteq Tools /\ DOMAIN GroupConfig = Groups /\ 0 \in 0..Unit /\ 0 \in 0..SatWindow
      /\ 0 \in 0..Warmup /\ IsFiniteSet(Groups)
  BY RegistryAssumption, ConfigAssumption
<1>3. /\ DOMAIN zero = T /\ zero \in [T -> 0..Unit] /\ zero \in [T -> 0..SatWindow]
      /\ \A t : Get(zero, t) = 0
  BY <1>2 DEF Get
<1>4. DOMAIN targets = T /\ targets \in [T -> 0..Unit]
      /\ \A t \in T : ToolConfig[t].target \in 0..Unit
  BY DEF Separable
<1>5. DOMAIN none = Groups /\ none \in [Groups -> Nat] /\ \A g : Get(none, g) = 0
  BY DEF Get
<1> HIDE DEF T, zero, targets, none
<1>6. zero \in Levels /\ targets \in Levels /\ zero \in Partial(Tools, 0..SatWindow)
  BY <1>2, <1>3, <1>4, LevelsIf, PartialIs
<1>7. Ranged(c)
  BY <1>1, <1>2, <1>3, <1>6 DEF Ranged, T
<1>8. Steerable(c)
  BY <1>1, <1>4, <1>6, <1>7 DEF Steerable, T
<1>9. Consistent(c)
  BY <1>1, <1>2, <1>3, <1>4, <1>5, <1>6, <1>8, NothingCounted DEF Consistent
<1>10. Grouped(c)
  BY <1>1, <1>2, <1>5 DEF Grouped, Separable
<1>11. Ours(c)
  BY <1>1, <1>9, <1>10 DEF Ours
<1>12. \A t \in Priced : EmptyWindow.counts[t] = 0
  BY GroupsSpared, <1>11 DEF EmptyWindow
<1>13. Fresh(c)
  BY <1>1, <1>3, <1>5, <1>12 DEF Fresh, Unmoved
<1> QED BY <1>11, <1>13 DEF c

\* and it stays fresh if nothing is restored on the spared tools.
LEMMA RestoreOurs ==
  ASSUME Separable, NEW levels, DOMAIN levels \subseteq Tools
  PROVE  LET d == RestoreFriction(CreateController, levels)
         IN  Ours(d) /\ ((\A t \in Spared : Get(levels, t) = 0) => Fresh(d))
<1> DEFINE c == CreateController
           d == RestoreFriction(c, levels)
           f == [t \in DOMAIN c.friction \cup DOMAIN levels |->
                   IF t \in DOMAIN levels
                     THEN Greatest(Get(c.friction, t), Clamp(levels[t]))
                   ELSE c.friction[t]]
<1>1. Ours(c) /\ Fresh(c)
  BY CreateOurs
<1>2. d = [c EXCEPT !.friction = f]
  BY DEF RestoreFriction
<1> HIDE DEF c
<1>3. Consistent(d) /\ Differs(c, d, {"friction"})
  BY <1>1, RestoreConsistent DEF Ours
<1>4. DOMAIN c = Fields
  BY <1>1 DEF Ours, Consistent, Steerable, Ranged
<1> HIDE DEF d, f
<1>5. /\ d.config = c.config /\ d.groups = c.groups /\ d.groupEma = c.groupEma
      /\ d.ema = c.ema /\ d.window = c.window /\ d.friction = f
  BY <1>2, <1>3, <1>4 DEF Differs, Fields
<1>6. Ours(d)
  BY <1>1, <1>3, <1>5 DEF Ours, Grouped
<1>7. ASSUME \A t \in Spared : Get(levels, t) = 0 PROVE Fresh(d)
  <2>1. ASSUME NEW t \in Spared PROVE Get(f, t) = 0
    <3>1. Get(c.friction, t) = 0
      BY <1>1 DEF Fresh, Unmoved
    <3>2. Clamp(0) = 0 /\ Greatest(0, 0) = 0
      BY ConfigAssumption DEF Clamp, Greatest
    <3>3. CASE t \in DOMAIN levels
      <4>1. levels[t] = 0
        BY <1>7, <3>3 DEF Get
      <4> QED BY <3>1, <3>2, <3>3, <4>1 DEF Get, f
    <3>4. CASE t \notin DOMAIN levels
      <4>1. Get(f, t) = Get(c.friction, t)
        BY <3>4 DEF Get, f
      <4> QED BY <3>1, <4>1
    <3> QED BY <3>3, <3>4
  <2> QED BY <1>1, <1>5, <2>1 DEF Fresh, Unmoved
<1> QED BY <1>6, <1>7 DEF d, c

\* What is stored of a client that is evicted.
LEMMA CaptureParted ==
  ASSUME NEW store, NEW client, NEW f \in Levels, NEW at, NEW s, Kept(f, client, s),
         \A c \in DOMAIN store : Kept(store[c].levels, c, s)
  PROVE  LET e == Capture(store, client, f, at)
         IN  \A c \in DOMAIN e : Kept(e[c].levels, c, s)
<1> DEFINE p == Prune(store, at)
           W == {t \in DOMAIN f : f[t] >= PenaltyMin}
           kept == IF client \in DOMAIN p THEN p[client].levels ELSE <<>>
           Peak(t) == Greatest(IF t \in W THEN f[t] ELSE 0, Get(kept, t))
           lv == [t \in W \cup DOMAIN kept |-> Peak(t)]
           v == [expiry |-> at + PenaltyTTL, levels |-> lv]
           e == Capture(store, client, f, at)
<1>1. e \in {store, p, Put(p, client, v)}
  BY DEF Capture
<1>2. \A c \in DOMAIN p : Kept(p[c].levels, c, s)
  BY DEF Prune, Without
<1>3. Kept(kept, client, s)
  <2>1. DOMAIN <<>> = {}
    OBVIOUS
  <2>2. Kept(<<>>, client, s)
    BY <2>1 DEF Kept, Get
  <2> QED BY <1>2, <2>2
<1> HIDE DEF p, kept, e
<1>4. Kept(lv, client, s)
  <2>1. DOMAIN lv \subseteq Tools
    BY <1>3, LevelsAre DEF Kept
  <2>2. ASSUME ClaimOf(client) \notin s, NEW t \in Spared PROVE Get(lv, t) = 0
    <3>1. Get(f, t) = 0 /\ Get(kept, t) = 0
      BY <1>3, <2>2 DEF Kept
    <3>2. t \in W => f[t] = 0
      BY <3>1 DEF Get
    <3>3. Peak(t) = 0
      BY <3>1, <3>2 DEF Greatest
    <3> QED BY <3>3 DEF Get
  <2> QED BY <2>1, <2>2 DEF Kept
<1>5. v.levels = lv
  OBVIOUS
<1> HIDE DEF v, lv
<1>6. \A c \in DOMAIN Put(p, client, v) : Kept(Put(p, client, v)[c].levels, c, s)
  BY <1>2, <1>4, <1>5 DEF Put
<1> QED BY <1>1, <1>2, <1>6 DEF e

\* The client that is admitted finds a fresh controller, or what it left.
LEMMA AdmitParted ==
  ASSUME Separable, NEW r, NEW s, Parted(r, s), NEW client, NEW at
  PROVE  Parted(Admit(r, client, at), s)
<1> DEFINE n == RestorePenalty(r.store, client, CreateController, at)
           e == Admit(r, client, at)
<1>1. e.live = Put(r.live, client, n) /\ e.store = Without(r.store, {client})
  BY DEF Admit
<1>2. Ours(n) /\ (ClaimOf(client) \notin s => Fresh(n))
  <2>1. CASE client \in DOMAIN r.store /\ r.store[client].expiry > at
    <3> DEFINE levels == r.store[client].levels
    <3>1. n = RestoreFriction(CreateController, levels) /\ Kept(levels, client, s)
      BY <2>1 DEF RestorePenalty, Parted
    <3> HIDE DEF n, levels
    <3> QED BY <3>1, RestoreOurs DEF Kept
  <2>2. CASE ~(client \in DOMAIN r.store /\ r.store[client].expiry > at)
    <3>1. n = CreateController
      BY <2>2 DEF RestorePenalty
    <3> QED BY <3>1, CreateOurs
  <2> QED BY <2>1, <2>2
<1> HIDE DEF n, e
<1>3. ASSUME NEW c \in DOMAIN e.live
      PROVE  Ours(e.live[c]) /\ (ClaimOf(c) \notin s => Fresh(e.live[c]))
  <2>1. e.live[c] = IF c = client THEN n ELSE r.live[c]
    BY <1>1, <1>3 DEF Put
  <2>2. c # client => c \in DOMAIN r.live
    BY <1>1, <1>3 DEF Put
  <2> QED BY <1>2, <2>1, <2>2 DEF Parted
<1>4. ASSUME NEW c \in DOMAIN e.store PROVE Kept(e.store[c].levels, c, s)
  BY <1>1, <1>4 DEF Without, Parted
<1> QED BY <1>3, <1>4 DEF Parted, e

\* _get_or_create keeps clients apart.
LEMMA GetOrCreateParted ==
  ASSUME Separable, Booked, NEW s, Parted(Registry, s), NEW client
  PROVE  Parted(GetOrCreate(Registry, client, now), s)
<1> DEFINE r0 == Registry
           r == GetOrCreate(r0, client, now)
<1>0. /\ r0.live = controllers /\ r0.order = order /\ r0.store = penalties
      /\ DOMAIN r0.live = Live
  BY DEF Registry, Live
<1>1. CASE client \in DOMAIN r0.live
  <2>1. r.live = r0.live /\ r.store = r0.store
    BY <1>1 DEF GetOrCreate, Registry
  <2> QED BY <2>1 DEF Parted
<1>2. CASE client \notin DOMAIN r0.live /\ ~Full(r0)
  <2>1. r = Admit(r0, client, now)
    BY <1>2 DEF GetOrCreate
  <2> QED BY <2>1, AdmitParted
<1>3. CASE client \notin DOMAIN r0.live /\ Full(r0)
  <2> DEFINE v == Head(order)
             e == Evict(r0, now)
             f == r0.live[v].friction
  <2>1. r = Admit(e, client, now)
    BY <1>3 DEF GetOrCreate
  <2>2. order # <<>>
    <3>1. Cardinality(DOMAIN r0.live) = Len(order)
      BY <1>0 DEF Booked, Listed, Lists
    <3>2. Cardinality(DOMAIN r0.live) >= MaxClients /\ MaxClients \in Nat \ {0}
      BY <1>3, RegistryAssumption DEF Full
    <3> QED BY <3>1, <3>2, EmptySeq
  <2>3. v \in DOMAIN r0.live
    BY <1>0, <2>2, EvictAccounts DEF Booked
  <2>4. /\ e.live = Without(r0.live, {v})
        /\ e.store = Capture(r0.store, v, f, now)
    BY <1>0 DEF Evict
  <2> HIDE DEF v, e, f, r
  <2>5. f \in Levels /\ Kept(f, v, s)
    <3>1. Ours(r0.live[v]) /\ (ClaimOf(v) \notin s => Fresh(r0.live[v]))
      BY <2>3 DEF Parted
    <3>2. r0.live[v].friction \in Levels
      BY <3>1 DEF Ours, Consistent, Steerable, Ranged
    <3>3. DOMAIN r0.live[v].friction \subseteq Tools
      BY <3>2, LevelsAre
    <3> QED BY <3>1, <3>2, <3>3 DEF Kept, Fresh, Unmoved, f
  <2>6. \A c \in DOMAIN e.store : Kept(e.store[c].levels, c, s)
    BY <2>4, <2>5, CaptureParted DEF Parted
  <2>7. Parted(e, s)
    BY <2>4, <2>6 DEF Parted, Without
  <2>8. Parted(r, s)
    BY <2>1, <2>7, AdmitParted
  <2> QED BY <2>8 DEF r
<1> QED BY <1>1, <1>2, <1>3

\* A call whose client is left as it should be.
LEMMA CallParted ==
  ASSUME Separable, Booked, NEW s, NEW t, s \subseteq t, Parted(Registry, s),
         NEW client \in Clients, NEW d,
         Becomes(GetOrCreate(Registry, client, now), client, d),
         Ours(d), ClaimOf(client) \notin t => Fresh(d)
  PROVE  Parted(Registry', t)
<1> DEFINE r == GetOrCreate(Registry, client, now)
<1>1. Parted(r, s)
  BY GetOrCreateParted
<1>2. controllers' = [r.live EXCEPT ![client] = d] /\ penalties' = r.store
  BY DEF Becomes
<1> HIDE DEF r
<1>3. Registry'.live = controllers' /\ Registry'.store = penalties'
  BY DEF Registry
<1>4. DOMAIN controllers' = DOMAIN r.live
  BY <1>2
<1>5. ASSUME NEW c \in DOMAIN controllers'
      PROVE  Ours(controllers'[c]) /\ (ClaimOf(c) \notin t => Fresh(controllers'[c]))
  <2>1. controllers'[c] = IF c = client THEN d ELSE r.live[c]
    BY <1>2, <1>4
  <2> QED BY <1>1, <1>4, <2>1 DEF Parted
<1>6. ASSUME NEW c \in DOMAIN penalties' PROVE Kept(penalties'[c].levels, c, t)
  BY <1>1, <1>2, <1>6 DEF Parted, Kept
<1> QED BY <1>3, <1>5, <1>6 DEF Parted

\* A client from which nothing was taken is not refused as blocked.
LEMMA FreshUnblocked ==
  ASSUME Separable, NEW c, Ours(c), Fresh(c), NEW t \in Controlled
  PROVE  Check(c, t).reason # "blocked"
<1>1. CASE t \notin DOMAIN c.config
  BY <1>1 DEF Check
<1>2. CASE t \in DOMAIN c.config
  <2> DEFINE b == Get(c.friction, t) >= c.config[t].block
             j == Get(c.friction, t) >= c.config[t].justify
             p == Affordable(c, Price(c.config[t], Get(c.friction, t)))
  <2>1. t \in Priced /\ t \in Spared /\ c.config = ToolConfig
    BY <1>2, RegistryAssumption DEF Ours, Priced, Spared
  <2>2. Get(c.friction, t) = 0 /\ c.config[t].block \in Nat \ {0}
    BY <2>1 DEF Fresh, Unmoved, Separable
  <2>3. ~b
    BY <2>2
  <2>4. Check(c, t).reason = IF ~p THEN "budget" ELSE IF b THEN "blocked"
                             ELSE IF j THEN "justify" ELSE "allowed"
    BY <1>2 DEF Check
  <2> HIDE DEF b, j, p
  <2> QED BY <2>3, <2>4
<1> QED BY <1>1, <1>2

\* Every step of the server keeps clients apart, and refuses as blocked only
\* whom it may.
LEMMA PartedStep ==
  ASSUME Separable, Booked, CallsOK, Parted(Registry, spenders),
         [ServerNext]_allVars
  PROVE  /\ Parted(Registry, spenders)'
         /\ \A k \in Requests :
              calls[k].pc = "granted" /\ calls'[k].pc = "idle"
                /\ reply'.reason = "blocked"
                  => ClientClaim[calls[k].token] \in spenders
<1> DEFINE Refused(k) == /\ calls[k].pc = "granted" /\ calls'[k].pc = "idle"
                         /\ reply'.reason = "blocked"
           Right == \A k \in Requests :
                      Refused(k) => ClientClaim[calls[k].token] \in spenders
           Good == Parted(Registry, spenders)' /\ Right
<1>1. ASSUME controllers' = controllers, penalties' = penalties, spenders' = spenders
      PROVE  Parted(Registry, spenders)'
  <2>1. Registry'.live = Registry.live /\ Registry'.store = Registry.store
    BY <1>1 DEF Registry
  <2>2. Parted(Registry', spenders)
    BY <2>1 DEF Parted
  <2> QED BY <1>1, <2>2
<1>2. ASSUME NEW k \in Requests, FrictionControlled(k) \/ RecordToolCall(k)
      PROVE  Good
  <2> DEFINE tool == calls[k].tool
             token == calls[k].token
             client == ClientOf(token)
             r == GetOrCreate(Registry, client, now)
             o == r.live[client]
  <2>1. Guarded(k)
    BY <1>2 DEF FrictionControlled, RecordToolCall
  <2>2. /\ token \in Tokens /\ client \in Clients /\ now \in 0..MaxTime
        /\ tool \in Tools /\ ClaimOf(client) = ClientClaim[token]
    <3>1. calls[k] \in CallRecord /\ token # None /\ CallOK(calls[k])
          /\ calls[k].pc = "granted"
      BY <2>1 DEF CallsOK, Guarded, Granted
    <3>2. token \in Tokens /\ tool \in Tools
      BY <3>1 DEF CallRecord, CallOK
    <3> QED BY <3>2, ClientIsKnown, ClaimOfClient DEF Booked, Accounted
  <2>3. Parted(r, spenders) /\ client \in DOMAIN r.live
    <3>1. Apart(Registry) /\ Lists(Registry)
      BY DEF Booked, Listed, Apart, Accounted, AccountsFor, Registry
    <3> QED BY <2>2, <3>1, GetOrCreateParted, GetOrCreateKeeps
  <2>4. Ours(o) /\ (ClaimOf(client) \notin spenders => Fresh(o))
    BY <2>3 DEF Parted
  <2>5. Start(k, client) =>
          spenders' = IF tool \in Priced THEN spenders \cup {ClaimOf(client)}
                      ELSE spenders
    BY <2>2 DEF Start
  <2>6. /\ Start(k, client) => calls' = [calls EXCEPT ![k] = [Idle EXCEPT !.pc = "running"]]
        /\ Decline(k) => calls' = [calls EXCEPT ![k] = Idle] /\ spenders' = spenders
    BY DEF Start, Run, Decline, End
  <2>7. DOMAIN calls = Requests
    BY DEF CallsOK
  <2>8. ASSUME NEW j \in Requests, j # k PROVE ~Refused(j)
    <3>1. Start(k, client) \/ Decline(k)
      BY <1>2 DEF FrictionControlled, RecordToolCall
    <3>2. calls'[j] = calls[j]
      BY <2>6, <2>7, <2>8, <3>1
    <3> QED BY <3>2
  <2>9. ASSUME Start(k, client) PROVE ~Refused(k)
    <3>1. calls'[k] = [Idle EXCEPT !.pc = "running"]
      BY <2>6, <2>7, <2>9
    <3>2. calls'[k].pc = "running"
      BY <3>1 DEF Idle
    <3> QED BY <3>2
  <2>10. ASSUME NEW x \in {RecordCall(o, tool, now), RecordUnconfigured(o, tool, now)},
                Becomes(r, client, DrainSaturation(x)), Start(k, client)
         PROVE  Good
    <3> DEFINE d == DrainSaturation(x)
    <3>1. Ours(x) /\ (tool \notin Priced /\ Fresh(o) => Fresh(x))
      BY <2>2, <2>4, <2>10, RecordOurs
    <3>2. Ours(d) /\ (Fresh(x) => Fresh(d))
      BY <3>1, DrainOurs
    <3>3. spenders \subseteq spenders' /\ (ClaimOf(client) \notin spenders' => Fresh(d))
      BY <2>4, <2>5, <2>10, <3>1, <3>2
    <3> HIDE DEF d
    <3>4. Parted(Registry', spenders')
      BY <2>2, <2>10, <3>2, <3>3, CallParted DEF d
    <3> QED BY <2>8, <2>9, <2>10, <3>4
  <2>11. CASE FrictionControlled(k)
    <3> DEFINE d == IF Check(o, tool).allowed
                    THEN DrainSaturation(RecordCall(o, tool, now)) ELSE o
    <3>1. /\ tool \in Controlled /\ CheckAndRecord(client, tool)
          /\ reply'.reason \in {"budget", "blocked"} => Decline(k)
          /\ reply'.reason \notin {"budget", "blocked"} => Start(k, client)
      BY <2>11 DEF FrictionControlled
    <3>2. Becomes(r, client, d) /\ reply'.reason = Check(o, tool).reason
      BY <3>1 DEF CheckAndRecord
    <3>3. /\ Check(o, tool).allowed => Start(k, client)
          /\ ~Check(o, tool).allowed => Decline(k)
      BY <3>1, <3>2, RefusedMeansDenied
    <3>4. CASE Check(o, tool).allowed
      <4>1. d = DrainSaturation(RecordCall(o, tool, now))
        BY <3>4
      <4>2. Becomes(r, client, DrainSaturation(RecordCall(o, tool, now)))
        BY <3>2, <4>1
      <4> QED BY <2>10, <3>3, <3>4, <4>2
    <3>5. CASE ~Check(o, tool).allowed
      <4>1. Becomes(r, client, o) /\ Decline(k) /\ spenders' = spenders
        BY <2>6, <3>2, <3>3, <3>5
      <4>2. Parted(Registry', spenders)
        BY <2>2, <2>4, <4>1, CallParted
      <4>3. Refused(k) => ClaimOf(client) \in spenders
        BY <2>4, <3>1, <3>2, FreshUnblocked
      <4> QED BY <2>2, <2>8, <4>1, <4>2, <4>3
    <3> QED BY <3>4, <3>5
  <2>12. CASE RecordToolCall(k)
    <3>1. /\ RecordUncontrolled(client, tool) /\ Start(k, client)
      BY <2>12 DEF RecordToolCall
    <3>2. Becomes(r, client, DrainSaturation(RecordUnconfigured(o, tool, now)))
      BY <3>1 DEF RecordUncontrolled
    <3> QED BY <2>10, <3>1, <3>2
  <2> QED BY <1>2, <2>11, <2>12
<1>3. ASSUME calls' = calls PROVE Right
  BY <1>3
<1>4. CASE InitFriction
  BY <1>1, <1>3, <1>4 DEF InitFriction, NoCall
<1>5. ASSUME NEW k \in Requests, Request(k), ~FrictionControlled(k), ~RecordToolCall(k)
      PROVE  Good
  <2>1. controllers' = controllers /\ penalties' = penalties /\ spenders' = spenders
    BY <1>5 DEF Request, Arrive, ArriveAnonymous, Authenticate, RunUnguarded, Granted,
                Finish, NoCall
  <2>2. DOMAIN calls = Requests
    BY DEF CallsOK
  <2>3. \E x : calls' = [calls EXCEPT ![k] = x]
    BY <1>5 DEF Request, Arrive, ArriveAnonymous, Authenticate, RunUnguarded, Finish,
                Move, End, Run
  <2>4. \A j \in Requests : j # k => calls'[j] = calls[j]
    BY <2>2, <2>3
  <2>5. ~Refused(k)
    <3>1. ASSUME RunUnguarded(k) PROVE ~Refused(k)
      <4>1. calls' = [calls EXCEPT ![k] = [Idle EXCEPT !.pc = "running"]]
        BY <3>1 DEF RunUnguarded, Run
      <4>2. calls'[k].pc = "running"
        BY <2>2, <4>1 DEF Idle
      <4> QED BY <4>2
    <3>2. ASSUME calls[k].pc # "granted" PROVE ~Refused(k)
      BY <3>2
    <3> QED BY <1>5, <3>1, <3>2
          DEF Request, Arrive, ArriveAnonymous, Authenticate, Finish
  <2>6. Right
    BY <2>4, <2>5
  <2> QED BY <1>1, <2>1, <2>6
<1>6. ASSUME NEW token \in Tokens, Revoke(token) PROVE Good
  BY <1>1, <1>3, <1>6 DEF Revoke, NoCall, server
<1>7. CASE TimePasses
  BY <1>1, <1>3, <1>7 DEF TimePasses, Tick, server
<1>8. CASE UNCHANGED allVars
  BY <1>1, <1>3, <1>8 DEF allVars, server
<1>9. Good
  BY <1>2, <1>4, <1>5, <1>6, <1>7, <1>8 DEF ServerNext
<1> QED BY <1>9

----------------------------------------------------------------------------
(* Part 4, the specification. *)

\* The invariant.
ServerInv ==
  /\ Booked /\ AllSolvent /\ CallsOK /\ LedgersMatch
  /\ Live # {} => installed
  /\ spenders \subseteq Clients \cup {None}

\* It holds at first,
LEMMA ServerInitInv == ServerInit => ServerInv
<1> SUFFICES ASSUME ServerInit PROVE ServerInv
  OBVIOUS
<1>1. /\ Init /\ installed = FALSE /\ calls = [k \in Requests |-> Idle]
      /\ ran = <<>> /\ spenders = {}
      /\ controllers = <<>> /\ now = 0
  BY DEF ServerInit, Init, Verifier!Init
<1>2. DOMAIN controllers = {} /\ DOMAIN ran = {} /\ Live = {}
  BY <1>1 DEF Live
<1>3. Booked
  BY <1>1, BookedInvariant
<1>4. AllSolvent /\ LedgersMatch
  BY <1>2 DEF AllSolvent, LedgersMatch
<1>5. CallsOK
  <2>1. Idle \in CallRecord
    BY DEF Idle, CallRecord
  <2>2. CallOK(Idle)
    BY <1>1 DEF CallOK, Idle
  <2> QED BY <1>1, <2>1, <2>2 DEF CallsOK
<1> QED BY <1>1, <1>2, <1>3, <1>4, <1>5 DEF ServerInv

\* and every step keeps it.
LEMMA ServerStepInv == ServerInv /\ [ServerNext]_allVars => ServerInv'
<1> SUFFICES ASSUME ServerInv, [ServerNext]_allVars PROVE ServerInv'
  OBVIOUS
<1>1. [Next]_registry
  BY ServerSteps DEF ServerInv
<1>2. Booked' /\ AllSolvent'
  BY <1>1, BookedInvariant, SolventStep DEF ServerInv
<1>3. CallsOK'
  BY RequestsStep DEF ServerInv
<1>4. LedgersMatch' /\ (Live # {} => installed)' /\ (spenders \subseteq Clients \cup {None})'
  BY LedgersStep DEF ServerInv
<1> QED BY <1>2, <1>3, <1>4 DEF ServerInv

\* So it always holds.
THEOREM AlwaysServerInv == ServerSpec => []ServerInv
BY ServerInitInv, ServerStepInv, PTL DEF ServerSpec

\* Every variable keeps its type, the registry's included, and no client has
\* a controller before the registry is installed.
THEOREM ServerTyped == ServerSpec => []ServerTypeOK
<1>1. ServerInv => ServerTypeOK
  BY BookedTyped DEF ServerInv, CallsOK, CallRecord, LedgersMatch, ServerTypeOK
<1> QED BY <1>1, AlwaysServerInv, PTL

\* A client's window holds the tools that ran for it, and no refused call.
THEOREM WindowsAreWhatRan == ServerSpec => []WindowIsWhatRan
<1>1. ServerInv => WindowIsWhatRan
  BY DEF ServerInv, LedgersMatch, Matches, WindowIsWhatRan
<1> QED BY <1>1, AlwaysServerInv, PTL

\* A client's budget pays for every priced tool that ran for it, and for
\* nothing else.
THEOREM BudgetsPay == ServerSpec => []BudgetPaysForRuns
<1>1. ServerInv => BudgetPaysForRuns
  BY DEF ServerInv, LedgersMatch, Matches, PaysFor, BudgetPaysForRuns
<1> QED BY <1>1, AlwaysServerInv, PTL

\* Nor is any client overdrawn when requests run side by side.
THEOREM ServerBudgetsHold == ServerSpec => []NeverOverdrawn
<1>1. ServerInv => NeverOverdrawn
  BY DEF ServerInv, AllSolvent, NeverOverdrawn, Solvent, Affordable
<1> QED BY <1>1, AlwaysServerInv, PTL

\* A request is refused as blocked only if priced tools have run under the
\* claim of its token: whatever the other clients do, and whoever is evicted
\* and comes back, no friction passes from one client to another.
THEOREM ClientsIndependent ==
  ASSUME Separable
  PROVE  ServerSpec => IndependentClients
<1> DEFINE P == Parted(Registry, spenders)
<1>1. ServerInit => P
  <2> SUFFICES ASSUME ServerInit PROVE P
    OBVIOUS
  <2>1. controllers = <<>> /\ penalties = <<>>
    BY DEF ServerInit, Init
  <2>2. DOMAIN Registry.live = {} /\ DOMAIN Registry.store = {}
    BY <2>1 DEF Registry
  <2> QED BY <2>2 DEF Parted
<1>2. ServerInv /\ P /\ [ServerNext]_allVars => P'
  BY PartedStep DEF ServerInv
<1> DEFINE Right == \A k \in Requests :
                      calls[k].pc = "granted" /\ calls'[k].pc = "idle"
                        /\ reply'.reason = "blocked"
                          => ClientClaim[calls[k].token] \in spenders
<1>3. ServerInv /\ P /\ [ServerNext]_allVars => [Right]_allVars
  BY PartedStep DEF ServerInv
<1> HIDE DEF P
<1> QED BY <1>1, <1>2, <1>3, AlwaysServerInv, PTL DEF ServerSpec, IndependentClients
============================================================================
