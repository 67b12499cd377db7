---------------------- MODULE FrictionController_proofs ----------------------
(* Proofs about one controller under its own API, for every number of      *)
(* tools and groups, every setting, and calls, restores, resets and drains *)
(* in every order.                                                         *)
EXTENDS FrictionController, FrictionControl_proofs

----------------------------------------------------------------------------
(* Part 1, the steps of a call, tool by tool, and the order they keep.     *)

\* Without groups nothing presses on a tool: the sum over no group is zero.
LEMMA NoPush ==
  ASSUME NEW c, NEW t, DOMAIN c.groups = {}
  PROVE  PushOn(c, t) = 0
BY PushOfGroups, FS_EmptySet

\* So the friction stays as it is.
LEMMA NoPressure ==
  ASSUME NEW c, Ranged(c), DOMAIN c.groups = {}
  PROVE  AggregatePressure(c).friction = c.friction
<1> DEFINE e == [c EXCEPT !.groupEma = [g \in DOMAIN @ \cup DOMAIN c.groups |->
                   IF g \in DOMAIN c.groups
                     THEN Ema(Get(@, g), AggregateRate(c, c.groups[g])) ELSE @[g]]]
           S == {t \in DOMAIN c.config : PushOn(e, t) > 0}
           f == [t \in DOMAIN e.friction \cup S |->
                   IF t \in S THEN Clamp(Get(c.friction, t) + PushOn(e, t))
                   ELSE e.friction[t]]
<1>1. AggregatePressure(c) = [e EXCEPT !.friction = f]
  BY DEF AggregatePressure
<1>2. DOMAIN e = Fields /\ e.friction = c.friction /\ DOMAIN e.groups = {}
  BY DEF Ranged, Fields
<1> HIDE DEF e
<1>3. S = {}
  BY <1>2, NoPush
<1> HIDE DEF S
<1>4. c.friction \in [DOMAIN c.friction -> 0..Unit]
  BY LevelsAre DEF Ranged
<1>5. f = c.friction
  BY <1>2, <1>3, <1>4
<1> HIDE DEF f
<1> QED BY <1>1, <1>2, <1>5 DEF Fields

\* d is a controller like c, with at most the friction and the rates of c.
Below(d, c) ==
  /\ Steerable(d) /\ Steerable(c) /\ Differs(c, d, {"friction", "ema"})
  /\ \A t : Get(d.friction, t) <= Get(c.friction, t) /\ Get(d.ema, t) <= Get(c.ema, t)

\* A longer idle time leaves less, and so does any, compared with none.
LEMMA DecayBelow ==
  ASSUME NEW c, Steerable(c), NEW early \in 0..MaxTime, NEW late \in 0..MaxTime,
         early <= late \/ ~Waited(c, early)
  PROVE  Below(TimeDecay(c, late), TimeDecay(c, early))
<1> DEFINE a == TimeDecay(c, early)
           b == TimeDecay(c, late)
           Left(v, t, ts) == IF Waited(c, ts) /\ t \in DOMAIN c.friction
                             THEN Decayed(v, ts - c.last) ELSE v
<1>1. /\ Ranged(c) /\ c.ema \in Levels /\ c.friction \in Levels /\ DOMAIN c = Fields
      /\ c.last \in 0..MaxTime \cup {NoTime}
  BY DEF Steerable, Ranged
<1>2. /\ a.ema \in Levels /\ b.ema \in Levels
      /\ \A t : /\ Get(a.friction, t) = Left(Get(c.friction, t), t, early)
                /\ Get(b.friction, t) = Left(Get(c.friction, t), t, late)
                /\ Get(a.ema, t) = Left(Get(c.ema, t), t, early)
                /\ Get(b.ema, t) = Left(Get(c.ema, t), t, late)
  BY <1>1, DecayGives
<1>3. ASSUME NEW v \in 0..Unit, NEW t
      PROVE  Left(v, t, late) <= Left(v, t, early)
  <2>1. v <= v /\ MaxTime \in Nat /\ NoTime \notin Int
    BY <1>3, ConfigAssumption
  <2>2. CASE ~Waited(c, early) \/ t \notin DOMAIN c.friction
    <3>1. Waited(c, late) => Decayed(v, late - c.last) \in 0..v
      <4>1. Waited(c, late) => late - c.last \in 0..MaxTime
        BY <1>1, <2>1 DEF Waited
      <4> QED BY <1>3, <4>1, DecayAssumption
    <3> QED BY <2>1, <2>2, <3>1, ConfigAssumption
  <2>3. CASE Waited(c, early) /\ t \in DOMAIN c.friction
    <3>1. Waited(c, late) /\ early - c.last \in 0..MaxTime
          /\ late - c.last \in (early - c.last)..MaxTime
      BY <1>1, <2>1, <2>3 DEF Waited
    <3>2. Decayed(v, late - c.last) <= Decayed(v, early - c.last)
      BY <3>1, DecayAssumption
    <3> QED BY <2>3, <3>1, <3>2
  <2> QED BY <2>2, <2>3
<1>4. /\ Differs(c, a, {"friction", "ema"}) /\ Differs(c, b, {"friction", "ema"})
      /\ Ranged(a) /\ Ranged(b)
  BY <1>1, TimeDecayDiffers, TimeDecayRanged DEF KeepsRange
<1> HIDE DEF a, b, Left
<1>5. \A t : Get(c.friction, t) \in 0..Unit /\ Get(c.ema, t) \in 0..Unit
  BY <1>1, GetLevel
<1>6. \A t : Get(b.friction, t) <= Get(a.friction, t) /\ Get(b.ema, t) <= Get(a.ema, t)
  BY <1>2, <1>3, <1>5
<1>7. Differs(a, b, {"friction", "ema"}) /\ Steerable(a) /\ Steerable(b)
  BY <1>2, <1>4 DEF Differs, Fields, Steerable
<1> QED BY <1>6, <1>7 DEF Below, a, b

\* Steerable says nothing of the attributes that a step touches here.
LEMMA SteerableKept ==
  ASSUME NEW c, Steerable(c), NEW d, NEW S, Differs(c, d, S), Ranged(d),
         S \cap {"config", "target"} = {}, d.ema \in Levels
  PROVE  Steerable(d)
BY DEF Steerable, Differs, Fields

\* A step that gives both the same.
LEMMA CountBelow ==
  ASSUME NEW c, NEW d, Below(d, c), NEW t
  PROVE  Below(CountCall(d, t), CountCall(c, t))
<1> DEFINE x == CountCall(d, t)
           y == CountCall(c, t)
<1>1. DOMAIN c = Fields /\ DOMAIN d = Fields /\ d.window = c.window /\ d.total = c.total
  BY DEF Below, Steerable, Ranged, Differs, Fields
<1>2. /\ Differs(d, x, {"window", "total"}) /\ Differs(c, y, {"window", "total"})
      /\ x.window = y.window /\ x.total = y.total
  BY <1>1, CountCallDiffers
<1> HIDE DEF x, y
<1>3. Ranged(x) /\ Ranged(y)
  BY <1>2, SameRanged DEF KeepsRange, Below, Steerable
<1>4. x.ema = d.ema /\ y.ema = c.ema /\ x.friction = d.friction /\ y.friction = c.friction
  BY <1>2 DEF Differs, Fields
<1>5. Steerable(x) /\ Steerable(y)
  BY <1>2, <1>3, <1>4, SteerableKept DEF Below, Steerable
<1>6. Differs(y, x, {"friction", "ema"})
  BY <1>2 DEF Below, Differs, Fields
<1> QED BY <1>4, <1>5, <1>6 DEF Below, x, y

\* Smoothing the rates of both with the same window.
LEMMA EmaBelow ==
  ASSUME NEW c, NEW d, Below(d, c), Counting(c.window)
  PROVE  Below(UpdateEma(d), UpdateEma(c))
<1> DEFINE x == UpdateEma(d)
           y == UpdateEma(c)
           E(v, t) == IF t \in DOMAIN c.config THEN Ema(v, WindowRate(c.window, t)) ELSE v
<1>1. /\ DOMAIN c = Fields /\ DOMAIN d = Fields
      /\ d.window = c.window /\ d.config = c.config /\ DOMAIN c.config \subseteq Tools
      /\ c.ema \in Levels /\ d.ema \in Levels
  BY DEF Below, Steerable, Ranged, Differs, Fields
<1>2. /\ x.ema \in Levels /\ y.ema \in Levels
      /\ \A t : Get(x.ema, t) = E(Get(d.ema, t), t) /\ Get(y.ema, t) = E(Get(c.ema, t), t)
  BY <1>1, EmaGives
<1>3. ASSUME NEW t PROVE E(Get(d.ema, t), t) <= E(Get(c.ema, t), t)
  <2>1. Get(d.ema, t) \in 0..Unit /\ Get(c.ema, t) \in 0..Unit
        /\ Get(d.ema, t) <= Get(c.ema, t)
    BY <1>1, GetLevel DEF Below
  <2>2. t \in DOMAIN c.config => WindowRate(c.window, t) \in 0..Unit
    BY <1>1, RateInRange
  <2> QED BY <2>1, <2>2, EmaMonotone
<1>4. Differs(d, x, {"ema"}) /\ Differs(c, y, {"ema"})
  BY <1>1, UpdateEmaDiffers
<1> HIDE DEF x, y, E
<1>5. Ranged(x) /\ Ranged(y)
  BY <1>4, SameRanged DEF KeepsRange, Below, Steerable
<1>6. x.friction = d.friction /\ y.friction = c.friction
  BY <1>4 DEF Differs, Fields
<1>7. Steerable(x) /\ Steerable(y)
  BY <1>2, <1>4, <1>5, SteerableKept DEF Below
<1>8. Differs(y, x, {"friction", "ema"})
  BY <1>4 DEF Below, Differs, Fields
<1>9. \A t : Get(x.ema, t) <= Get(y.ema, t) /\ Get(x.friction, t) <= Get(y.friction, t)
  BY <1>2, <1>3, <1>6 DEF Below
<1> QED BY <1>7, <1>8, <1>9 DEF Below, x, y

\* Steering both to the same targets.
LEMMA SteerBelow ==
  ASSUME NEW c, NEW d, Below(d, c)
  PROVE  Below(Steer(d), Steer(c))
<1> DEFINE x == Steer(d)
           y == Steer(c)
           Off(z, t) == Get(z.ema, t) - EffectiveTarget(z, t)
           F(z, t) == IF t \in DOMAIN z.config
                      THEN Steered(Get(z.friction, t), Off(z, t)) ELSE Get(z.friction, t)
<1>1. /\ DOMAIN c = Fields /\ DOMAIN d = Fields /\ Ranged(c) /\ Ranged(d)
      /\ d.config = c.config /\ d.target = c.target
      /\ c.ema \in Levels /\ d.ema \in Levels /\ c.friction \in Levels /\ d.friction \in Levels
  BY DEF Below, Steerable, Ranged, Differs, Fields
<1>2. \A t : Get(x.friction, t) = F(d, t) /\ Get(y.friction, t) = F(c, t)
  BY <1>1, SteerGives
<1>3. ASSUME NEW t PROVE F(d, t) <= F(c, t)
  <2>1. /\ Get(d.ema, t) \in 0..Unit /\ Get(c.ema, t) \in 0..Unit
        /\ Get(d.friction, t) \in 0..Unit /\ Get(c.friction, t) \in 0..Unit
        /\ Get(d.ema, t) <= Get(c.ema, t) /\ Get(d.friction, t) <= Get(c.friction, t)
    BY <1>1, GetLevel DEF Below
  <2>2. EffectiveTarget(d, t) = EffectiveTarget(c, t)
    BY <1>1 DEF EffectiveTarget
  <2>3. t \in DOMAIN c.config => EffectiveTarget(c, t) \in 0..Unit
    BY TargetInRange DEF Below
  <2>4. CASE t \in DOMAIN c.config
    <3>1. Off(d, t) \in Int /\ Off(c, t) \in Int /\ Off(d, t) <= Off(c, t)
      BY <2>1, <2>2, <2>3, <2>4, ConfigAssumption
    <3> HIDE DEF Off
    <3> QED BY <1>1, <2>1, <2>4, <3>1, SteeredMonotone
  <2>5. CASE t \notin DOMAIN c.config
    BY <1>1, <2>1, <2>5
  <2> QED BY <2>4, <2>5
<1>4. Differs(d, x, {"friction"}) /\ Differs(c, y, {"friction"}) /\ Ranged(x) /\ Ranged(y)
  BY <1>1, SteerDiffers, SteerRanged DEF KeepsRange
<1> HIDE DEF x, y, F
<1>5. x.ema = d.ema /\ y.ema = c.ema
  BY <1>4 DEF Differs, Fields
<1>6. Steerable(x) /\ Steerable(y)
  BY <1>1, <1>4, <1>5, SteerableKept DEF Below
<1>7. Differs(y, x, {"friction", "ema"})
  BY <1>4 DEF Below, Differs, Fields
<1>8. \A t : Get(x.ema, t) <= Get(y.ema, t) /\ Get(x.friction, t) <= Get(y.friction, t)
  BY <1>2, <1>3, <1>5 DEF Below
<1> QED BY <1>6, <1>7, <1>8 DEF Below, x, y

\* Without groups, the friction an adjustment leaves.
LEMMA AdjustFrictionIs ==
  ASSUME NEW c, Ranged(c), DOMAIN c.groups = {}
  PROVE  AdjustFriction(c).friction =
           IF c.total < Warmup THEN UpdateEma(c).friction
           ELSE Steer(UpdateEma(c)).friction
<1> DEFINE u == UpdateEma(c)
           s == Steer(u)
           z == DetectSaturation(s)
<1>1. Differs(c, u, {"ema"}) /\ Ranged(u)
  BY UpdateEmaDiffers, SameRanged DEF KeepsRange, Ranged
<1>2. AdjustFriction(c) = IF c.total < Warmup THEN u ELSE AggregatePressure(z)
  BY DEF AdjustFriction
<1> HIDE DEF u
<1>3. Differs(u, s, {"friction"}) /\ Ranged(s)
  BY <1>1, SteerDiffers, SteerRanged DEF KeepsRange, Ranged
<1> HIDE DEF s
<1>4. Differs(s, z, {"satCount", "target", "pending", "saturated"})
  BY <1>3, DetectDiffers DEF Differs
<1> HIDE DEF z
<1>5. Ranged(z)
  BY <1>3, <1>4, SameRanged DEF KeepsRange
<1>6. z.friction = s.friction /\ DOMAIN z.groups = {}
  BY <1>1, <1>3, <1>4 DEF Differs, Fields
<1>7. AggregatePressure(z).friction = z.friction
  BY <1>5, <1>6, NoPressure
<1> QED BY <1>2, <1>6, <1>7 DEF u, s

\* Two calls of which one finds less friction: it also leaves less.
LEMMA AdjustBelow ==
  ASSUME NEW c, NEW d, Below(d, c), Counting(c.window), DOMAIN c.groups = {}, NEW t
  PROVE  Get(AdjustFriction(d).friction, t) <= Get(AdjustFriction(c).friction, t)
<1>1. /\ Ranged(c) /\ Ranged(d) /\ DOMAIN d.groups = {} /\ d.total = c.total
  BY DEF Below, Steerable, Differs, Fields
<1>2. Below(UpdateEma(d), UpdateEma(c))
  BY EmaBelow
<1>3. Below(Steer(UpdateEma(d)), Steer(UpdateEma(c)))
  BY <1>2, SteerBelow
<1> QED BY <1>1, <1>2, <1>3, AdjustFrictionIs DEF Below

----------------------------------------------------------------------------
(* Part 2, the specification.                                              *)

\* The invariant.  A tool is configured with one of its configurations, and
\* reported says of each tool whether it was found saturated and drained.
IInv ==
  /\ Consistent(ctl)
  /\ \A t \in DOMAIN ctl.config :
       t \in DOMAIN ToolConfigs /\ ctl.config[t] \in ToolConfigs[t]
  /\ ctl.last \in Stamps \cup {NoTime}
  /\ ctl.budget \in Int \cup {Unlimited}
  /\ reported = [t \in Tools |-> IF t \in ctl.saturated \ ctl.pending THEN 1 ELSE 0]

\* configure_tool: what is new to the tool starts afresh, and a tool that has
\* friction already keeps everything but its configuration.
LEMMA ConfigureConsistent ==
  ASSUME NEW c, Consistent(c), NEW t \in Tools, NEW tc, tc.target \in 0..Unit
  PROVE  LET d == ConfigureTool(c, t, tc) IN
         /\ Consistent(d) /\ Relieves(c, d)
         /\ d.config = Put(c.config, t, tc) /\ d.last = c.last /\ d.budget = c.budget
<1> DEFINE known == t \in DOMAIN c.friction
           Reset(x, v) == IF known THEN x ELSE Put(x, t, v)
           cf == Put(c.config, t, tc)
           fr == Reset(c.friction, 0)
           em == Reset(c.ema, 0)
           sc == Reset(c.satCount, 0)
           ta == Reset(c.target, tc.target)
           sa == IF known THEN c.saturated ELSE c.saturated \ {t}
           d == ConfigureTool(c, t, tc)
<1>1. d = [c EXCEPT !.config = cf, !.friction = fr, !.ema = em, !.satCount = sc,
                    !.target = ta, !.saturated = sa]
  BY DEF ConfigureTool
<1>2. /\ DOMAIN c = Fields /\ DOMAIN c.config \subseteq Tools
      /\ DOMAIN c.config \subseteq DOMAIN c.friction /\ c.friction \in Levels
      /\ c.last \in 0..MaxTime \cup {NoTime} /\ c.ema \in Levels /\ c.target \in Levels
      /\ DOMAIN c.target \subseteq DOMAIN c.friction
      /\ c.saturated \subseteq DOMAIN c.config
      /\ c.satCount \in Partial(Tools, 0..SatWindow)
      /\ \A u \in DOMAIN c.config : c.config[u].target \in 0..Unit
  BY DEF Consistent, Steerable, Ranged
<1>3. 0 \in 0..Unit /\ 0 \in 0..SatWindow
  BY ConfigAssumption
<1>4. DOMAIN cf = DOMAIN c.config \cup {t}
      /\ \A u \in DOMAIN cf : cf[u] = IF u = t THEN tc ELSE c.config[u]
  BY DEF Put
<1>5. fr \in Levels /\ DOMAIN fr = DOMAIN c.friction \cup {t} /\ em \in Levels
  BY <1>2, <1>3, PutLevel
<1>6. sc \in Partial(Tools, 0..SatWindow)
  BY <1>2, <1>3, PutPartial
<1>7. /\ ta \in Levels /\ DOMAIN ta \subseteq DOMAIN fr
      /\ \A u \in DOMAIN c.target : u \in DOMAIN ta /\ ta[u] = c.target[u]
  <2>1. CASE known
    BY <1>2, <1>5, <2>1
  <2>2. CASE ~known
    <3>1. /\ ta = Put(c.target, t, tc.target) /\ ta \in Levels
          /\ DOMAIN ta = DOMAIN c.target \cup {t}
      BY <1>2, <2>2, PutLevel
    <3> QED BY <1>2, <1>5, <2>2, <3>1 DEF Put
  <2> QED BY <2>1, <2>2
<1>8. sa = c.saturated
  BY <1>2
<1> HIDE DEF cf, fr, em, sc, ta, sa
<1>9. /\ DOMAIN d = Fields /\ d.config = cf /\ d.friction = fr /\ d.ema = em
      /\ d.satCount = sc /\ d.target = ta /\ d.saturated = sa
      /\ d.window = c.window /\ d.total = c.total /\ d.last = c.last
      /\ d.pending = c.pending /\ d.groups = c.groups /\ d.groupEma = c.groupEma
      /\ d.budget = c.budget
  BY <1>1, <1>2 DEF Fields
<1> HIDE DEF d
<1>10. Ranged(d)
  BY <1>2, <1>4, <1>5, <1>9 DEF Ranged
<1>11. Steerable(d)
  BY <1>2, <1>4, <1>5, <1>7, <1>9, <1>10 DEF Steerable
<1>12. Consistent(d)
  BY <1>2, <1>4, <1>6, <1>7, <1>8, <1>9, <1>11 DEF Consistent
<1>13. Relieves(c, d)
  <2>1. \A u \in DOMAIN c.target : c.target[u] \in 0..Unit
    BY <1>2, LevelsAre
  <2> QED BY <1>7, <1>8, <1>9, <2>1, ConfigAssumption DEF Relieves
<1> QED BY <1>9, <1>12, <1>13 DEF d, cf

\* configure_aggregate.
LEMMA GroupConsistent ==
  ASSUME NEW c, Consistent(c), NEW g \in Groups, NEW gc
  PROVE  LET d == ConfigureGroup(c, g, gc) IN
         Consistent(d) /\ Relieves(c, d) /\ Differs(c, d, {"groups", "groupEma"})
<1> DEFINE gs == Put(c.groups, g, gc)
           ge == IF g \in DOMAIN c.groupEma THEN c.groupEma ELSE Put(c.groupEma, g, 0)
           d == ConfigureGroup(c, g, gc)
<1>1. d = [c EXCEPT !.groups = gs, !.groupEma = ge]
  BY DEF ConfigureGroup
<1>2. DOMAIN gs = DOMAIN c.groups \cup {g} /\ DOMAIN ge = DOMAIN c.groupEma \cup {g}
  BY DEF Put
<1> HIDE DEF gs, ge
<1>3. Ranged(c) /\ DOMAIN c = Fields
  BY DEF Consistent, Steerable, Ranged
<1>4. Differs(c, d, {"groups", "groupEma"}) /\ d.groups = gs /\ d.groupEma = ge
  BY <1>1, <1>3 DEF Differs, Fields
<1> HIDE DEF d
<1>5. KeepsRange(c, d)
  BY <1>3, <1>4, SameRanged
<1>6. d.window = c.window /\ d.total = c.total /\ d.ema = c.ema
  BY <1>4 DEF Differs, Fields
<1>7. Consistent(d) /\ Relieves(c, d)
  BY <1>2, <1>4, <1>5, <1>6, ConsistentKept DEF Consistent, Steerable
<1> QED BY <1>4, <1>7 DEF d

\* reset_budget.
LEMMA RefillConsistent ==
  ASSUME NEW c, Consistent(c), NEW b
  PROVE  LET d == ResetBudget(c, b) IN
         /\ Consistent(d) /\ Relieves(c, d)
         /\ Differs(c, d, {"budget"}) /\ d.budget = b
<1> DEFINE d == ResetBudget(c, b)
<1>1. Ranged(c) /\ DOMAIN c = Fields
  BY DEF Consistent, Steerable, Ranged
<1>2. Differs(c, d, {"budget"}) /\ d.budget = b
  BY <1>1 DEF ResetBudget, Differs, Fields
<1> HIDE DEF d
<1>3. KeepsRange(c, d)
  BY <1>1, <1>2, SameRanged
<1>4. d.window = c.window /\ d.total = c.total /\ d.ema = c.ema /\ d.groups = c.groups
      /\ d.groupEma = c.groupEma
  BY <1>2 DEF Differs, Fields
<1>5. Consistent(d) /\ Relieves(c, d)
  BY <1>2, <1>3, <1>4, ConsistentKept DEF Consistent, Steerable
<1> QED BY <1>2, <1>5 DEF d

\* The price of a call is a number.
LEMMA PriceIsInt ==
  ASSUME NEW c, Steerable(c), NEW t,
         \A u \in DOMAIN c.config : /\ c.config[u].minCost \in Int
                                    /\ c.config[u].maxCost \in Int
  PROVE  Check(c, t).cost \in Int
<1>1. Get(c.friction, t) \in 0..Unit
  BY GetLevel DEF Steerable, Ranged
<1>2. Unit \in Nat \ {0}
  BY ConfigAssumption
<1>3. CASE t \notin DOMAIN c.config
  <2>1. Check(c, t).cost = 0
    BY <1>3 DEF Check
  <2> QED BY <2>1
<1>4. CASE t \in DOMAIN c.config
  <2> DEFINE m == c.config[t].minCost
             x == c.config[t].maxCost
             f == Get(c.friction, t)
  <2>1. Check(c, t).cost = m + (f * (x - m)) \div Unit
    BY <1>4 DEF Check, Price, Scale
  <2>2. m \in Int /\ x \in Int /\ f \in Int
    BY <1>1, <1>2, <1>4
  <2> HIDE DEF m, x, f
  <2>3. f * (x - m) \in Int
    BY <2>2
  <2>4. (f * (x - m)) \div Unit \in Int
    BY <1>2, <2>3
  <2> QED BY <2>1, <2>2, <2>4
<1> QED BY <1>3, <1>4

\* What a call leaves of the budget is a number, or still unlimited.
LEMMA RecordCharges ==
  ASSUME NEW c, Consistent(c), NEW t \in Tools, NEW ts \in 0..MaxTime,
         c.budget \in Int \cup {Unlimited},
         \A u \in DOMAIN c.config : /\ c.config[u].minCost \in Int
                                    /\ c.config[u].maxCost \in Int
  PROVE  \A e \in {RecordCall(c, t, ts), RecordUnconfigured(c, t, ts)} :
           e.last = ts /\ e.budget \in Int \cup {Unlimited}
<1> DEFINE a == TimeDecay(c, ts)
           d == AdjustFriction(Counted(c, t, ts))
           p == Check(a, t).cost
           r == RecordCall(c, t, ts)
           u == RecordUnconfigured(c, t, ts)
<1>1. Steerable(c) /\ DOMAIN c = Fields
  BY DEF Consistent, Steerable, Ranged
<1>2. Steerable(a) /\ a.config = c.config
  <2>1. Steerable(a)
    BY <1>1, DecayBelow, ConfigAssumption DEF Below
  <2>2. Differs(c, a, {"friction", "ema"})
    BY <1>1, TimeDecayDiffers
  <2> HIDE DEF a
  <2> QED BY <2>1, <2>2 DEF Differs, Fields
<1>3. p \in Int
  <2> HIDE DEF a
  <2> QED BY <1>2, PriceIsInt
<1>4. /\ Differs(c, d, Adjusted \cup {"window", "total"})
      /\ Differs(d, u, {"last"})
  BY <1>1, RecordDiffers
<1>5. r.last = ts /\ u.last = ts /\ r.budget = Spend(c.budget, p)
  BY <1>1, RecordDiffers
<1> HIDE DEF a, d, p, r, u
<1>6. u.budget = c.budget
  BY <1>4 DEF Differs, Fields, Adjusted
<1>7. \A e \in {r, u} : e.last = ts /\ e.budget \in Int \cup {Unlimited}
  BY <1>3, <1>5, <1>6, ConfigAssumption DEF Spend
<1> QED BY <1>7 DEF r, u

\* A new controller.
LEMMA InitIInv == Init => IInv
<1> SUFFICES ASSUME Init PROVE IInv
  OBVIOUS
<1> DEFINE c == NewController
           w == EmptyWindow
<1>1. /\ DOMAIN c = Fields /\ c.config = <<>> /\ c.groups = <<>> /\ c.window = w
      /\ c.total = 0 /\ c.friction = <<>> /\ c.ema = <<>> /\ c.last = NoTime
      /\ c.satCount = <<>> /\ c.target = <<>> /\ c.saturated = {} /\ c.pending = {}
      /\ c.groupEma = <<>> /\ c.budget = DefaultBudget
  BY DEF NewController, Fields
<1> HIDE DEF c
<1>2. <<>> \in Levels /\ <<>> \in Partial(Tools, 0..SatWindow)
      /\ DOMAIN <<>> = {}
  <2>1. DOMAIN <<>> = {} /\ <<>> \in [{} -> 0..Unit] /\ <<>> \in [{} -> 0..SatWindow]
    OBVIOUS
  <2> QED BY <2>1, LevelsIf, PartialIs
<1>3. Counting(w)
  BY NothingCounted
<1> HIDE DEF w
<1>4. Steerable(c)
  BY <1>1, <1>2 DEF Steerable, Ranged
<1>5. Consistent(c)
  BY <1>1, <1>2, <1>3, <1>4, ConfigAssumption DEF Consistent
<1>6. DefaultBudget \in Int \cup {Unlimited}
  BY ConfigAssumption
<1>7. ctl = c /\ reported = [t \in Tools |-> IF t \in c.saturated \ c.pending THEN 1 ELSE 0]
  BY <1>1 DEF Init, c
<1> QED BY <1>1, <1>2, <1>5, <1>6, <1>7 DEF IInv

\* Every step keeps the invariant, and no step takes relief back.
LEMMA NextIInv ==
  ASSUME IInv, [Next]_vars
  PROVE  IInv' /\ \A t \in DOMAIN ctl.target : ctl'.target[t] >= ctl.target[t]
<1> DEFINE Relief(c, d) == \A t \in DOMAIN c.target : d.target[t] >= c.target[t]
           Drained(c) == [t \in Tools |-> IF t \in c.saturated \ c.pending THEN 1 ELSE 0]
           Known(c) == \A t \in DOMAIN c.config :
                         t \in DOMAIN ToolConfigs /\ c.config[t] \in ToolConfigs[t]
<1>0. /\ Consistent(ctl) /\ Known(ctl) /\ ctl.last \in Stamps \cup {NoTime}
      /\ ctl.budget \in Int \cup {Unlimited} /\ reported = Drained(ctl)
      /\ Stamps \subseteq 0..MaxTime
  BY ControllerAssumption DEF IInv
<1>1. ASSUME NEW t \in DOMAIN ToolConfigs, NEW tc \in ToolConfigs[t], Configure(t, tc)
      PROVE  IInv' /\ Relief(ctl, ctl')
  <2>1. t \in Tools /\ tc.target \in 0..Unit
    BY <1>1, ControllerAssumption
  <2>2. /\ Consistent(ctl') /\ Relieves(ctl, ctl')
        /\ ctl'.config = Put(ctl.config, t, tc) /\ ctl'.last = ctl.last
        /\ ctl'.budget = ctl.budget /\ reported' = reported
    BY <1>0, <1>1, <2>1, ConfigureConsistent DEF Configure
  <2>3. Known(ctl')
    BY <1>0, <1>1, <2>2 DEF Put
  <2>4. Drained(ctl') = Drained(ctl)
    BY <2>2 DEF Relieves
  <2> QED BY <1>0, <2>2, <2>3, <2>4 DEF IInv, Relieves
<1>2. ASSUME NEW g \in Groups, Group(g)
      PROVE  IInv' /\ Relief(ctl, ctl')
  <2>1. /\ Consistent(ctl') /\ Relieves(ctl, ctl') /\ reported' = reported
        /\ Differs(ctl, ctl', {"groups", "groupEma"})
    BY <1>0, <1>2, GroupConsistent DEF Group
  <2>2. ctl'.config = ctl.config /\ ctl'.last = ctl.last /\ ctl'.budget = ctl.budget
    BY <2>1 DEF Differs, Fields
  <2>3. Drained(ctl') = Drained(ctl)
    BY <2>1 DEF Relieves
  <2> QED BY <1>0, <2>1, <2>2, <2>3 DEF IInv, Relieves
<1>3. ASSUME NEW t \in Tools, NEW ts \in Stamps, Call(t, ts) \/ UncontrolledCall(t, ts)
      PROVE  IInv' /\ Relief(ctl, ctl')
  <2>1. ctl' \in {RecordCall(ctl, t, ts), RecordUnconfigured(ctl, t, ts)}
        /\ reported' = reported
    BY <1>3 DEF Call, UncontrolledCall
  <2>2. Consistent(ctl') /\ Relieves(ctl, ctl') /\ ctl'.config = ctl.config
    BY <1>0, <2>1, RecordConsistent
  <2>3. ctl'.last = ts /\ ctl'.budget \in Int \cup {Unlimited}
    <3>1. \A u \in DOMAIN ctl.config : /\ ctl.config[u].minCost \in Int
                                       /\ ctl.config[u].maxCost \in Int
      BY <1>0, ControllerAssumption
    <3> QED BY <1>0, <2>1, <3>1, RecordCharges
  <2>4. Drained(ctl') = Drained(ctl)
    BY <2>2 DEF Relieves
  <2> QED BY <1>0, <1>3, <2>1, <2>2, <2>3, <2>4 DEF IInv, Relieves
<1>4. ASSUME NEW levels \in Restorable, Restore(levels)
      PROVE  IInv' /\ Relief(ctl, ctl')
  <2>1. /\ Consistent(ctl') /\ Relieves(ctl, ctl') /\ reported' = reported
        /\ Differs(ctl, ctl', {"friction"})
    BY <1>0, <1>4, RestoreConsistent, ControllerAssumption DEF Restore
  <2>2. ctl'.config = ctl.config /\ ctl'.last = ctl.last /\ ctl'.budget = ctl.budget
    BY <2>1 DEF Differs, Fields
  <2>3. Drained(ctl') = Drained(ctl)
    BY <2>1 DEF Relieves
  <2> QED BY <1>0, <2>1, <2>2, <2>3 DEF IInv, Relieves
<1>5. ASSUME NEW b \in Budgets, Refill(b)
      PROVE  IInv' /\ Relief(ctl, ctl')
  <2>1. /\ Consistent(ctl') /\ Relieves(ctl, ctl') /\ reported' = reported
        /\ Differs(ctl, ctl', {"budget"}) /\ ctl'.budget \in Int \cup {Unlimited}
    BY <1>0, <1>5, RefillConsistent, ControllerAssumption DEF Refill
  <2>2. ctl'.config = ctl.config /\ ctl'.last = ctl.last
    BY <2>1 DEF Differs, Fields
  <2>3. Drained(ctl') = Drained(ctl)
    BY <2>1 DEF Relieves
  <2> QED BY <1>0, <2>1, <2>2, <2>3 DEF IInv, Relieves
<1>6. ASSUME Drain
      PROVE  IInv' /\ Relief(ctl, ctl')
  <2>1. Consistent(ctl') /\ Differs(ctl, ctl', {"pending"}) /\ ctl'.pending = {}
    BY <1>0, <1>6, DrainConsistent DEF Drain
  <2>2. ctl'.config = ctl.config /\ ctl'.last = ctl.last /\ ctl'.budget = ctl.budget
        /\ ctl'.target = ctl.target /\ ctl'.saturated = ctl.saturated
    BY <2>1 DEF Differs, Fields
  <2>3. reported' = Drained(ctl')
    <3>1. reported' = [t \in Tools |-> IF t \in ctl.pending
                         THEN Least(reported[t] + 1, 2) ELSE reported[t]]
      BY <1>6 DEF Drain
    <3>2. ctl.pending \subseteq ctl.saturated
      BY <1>0 DEF Consistent
    <3>3. \A t \in Tools : reported[t] = IF t \in ctl.saturated \ ctl.pending THEN 1 ELSE 0
      BY <1>0
    <3>4. Drained(ctl') = [t \in Tools |-> IF t \in ctl.saturated THEN 1 ELSE 0]
      BY <2>1, <2>2
    <3> QED BY <3>1, <3>2, <3>3, <3>4 DEF Least
  <2>4. Relief(ctl, ctl')
    BY <1>0, <2>2, LevelsAre, ConfigAssumption DEF Consistent, Steerable
  <2> QED BY <1>0, <2>1, <2>2, <2>3, <2>4 DEF IInv
<1>7. CASE UNCHANGED vars
  <2>1. Relief(ctl, ctl')
    BY <1>0, <1>7, LevelsAre, ConfigAssumption DEF Consistent, Steerable, vars
  <2> QED BY <1>0, <1>7, <2>1 DEF IInv, vars
<1> QED BY <1>1, <1>2, <1>3, <1>4, <1>5, <1>6, <1>7 DEF Next

\* So it always holds.
THEOREM AlwaysIInv == Spec => []IInv
<1>1. Init => IInv
  BY InitIInv
<1>2. IInv /\ [Next]_vars => IInv'
  BY NextIInv
<1> QED BY <1>1, <1>2, PTL DEF Spec

\* A group that is configured is one of those, and the rates of all groups are
\* natural numbers, however they are summed up and smoothed.
THEOREM AlwaysGrouped == Spec => []Grouped(ctl)
<1>1. ASSUME Init PROVE Grouped(ctl)
  <2>1. ctl.groups = <<>> /\ ctl.groupEma = <<>>
    BY <1>1 DEF Init, NewController
  <2> QED BY <2>1, FS_EmptySet DEF Grouped
<1>2. ASSUME IInv, Grouped(ctl), [Next]_vars PROVE Grouped(ctl')
  <2>0. /\ Consistent(ctl) /\ Steerable(ctl) /\ Counting(ctl.window) /\ DOMAIN ctl = Fields
        /\ Stamps \subseteq 0..MaxTime
    BY <1>2, ControllerAssumption DEF IInv, Consistent, Steerable, Ranged
  <2>1. ASSUME NEW t \in Tools, NEW ts \in Stamps, Call(t, ts) \/ UncontrolledCall(t, ts)
        PROVE  Grouped(ctl')
    BY <1>2, <2>0, <2>1, CallGrouped DEF Call, UncontrolledCall
  <2>2. ASSUME NEW g \in Groups, Group(g) PROVE Grouped(ctl')
    <3> DEFINE gc == GroupConfigs[g]
               m == IF g \in DOMAIN ctl.groupEma THEN ctl.groupEma
                    ELSE Put(ctl.groupEma, g, 0)
    <3>1. ctl' = [ctl EXCEPT !.groups = Put(@, g, gc), !.groupEma = m]
      BY <2>2 DEF Group, ConfigureGroup
    <3> HIDE DEF gc, m
    <3>2. ctl'.groups = Put(ctl.groups, g, gc) /\ ctl'.groupEma = m
      BY <2>0, <3>1 DEF Fields
    <3>3. DOMAIN ctl'.groups = DOMAIN ctl.groups \cup {g}
      BY <3>2 DEF Put
    <3>4. IsFiniteSet(DOMAIN ctl'.groups)
      BY <1>2, <3>3, FS_AddElement DEF Grouped
    <3>5. gc.tools \subseteq Tools /\ gc.target \in Int /\ gc.weight \in Int
      BY ControllerAssumption DEF gc
    <3>6. \A h \in DOMAIN ctl'.groups :
            ctl'.groups[h] = IF h = g THEN gc ELSE ctl.groups[h]
      BY <3>2 DEF Put
    <3>7. DOMAIN m = DOMAIN ctl.groupEma \cup {g} /\ m \in [DOMAIN m -> Nat]
      BY <1>2 DEF m, Put, Grouped
    <3> QED BY <1>2, <3>2, <3>3, <3>4, <3>5, <3>6, <3>7 DEF Grouped
  <2>3. ctl'.groups = ctl.groups /\ ctl'.groupEma = ctl.groupEma => Grouped(ctl')
    BY <1>2 DEF Grouped
  <2>4. ASSUME NEW t, NEW tc, Configure(t, tc) PROVE Grouped(ctl')
    <3>1. \E cf, fr, em, sc, ta, sa :
            ctl' = [ctl EXCEPT !.config = cf, !.friction = fr, !.ema = em,
                               !.satCount = sc, !.target = ta, !.saturated = sa]
      BY <2>4 DEF Configure, ConfigureTool
    <3> QED BY <2>0, <2>3, <3>1 DEF Fields
  <2>5. ASSUME NEW levels \in Restorable, Restore(levels) PROVE Grouped(ctl')
    <3>1. Differs(ctl, ctl', {"friction"})
      BY <2>0, <2>5, RestoreConsistent, ControllerAssumption DEF Restore
    <3> QED BY <2>3, <3>1 DEF Differs, Fields
  <2>6. ASSUME NEW b \in Budgets, Refill(b) PROVE Grouped(ctl')
    <3>1. Differs(ctl, ctl', {"budget"})
      BY <2>0, <2>6, RefillConsistent DEF Refill
    <3> QED BY <2>3, <3>1 DEF Differs, Fields
  <2>7. ASSUME Drain PROVE Grouped(ctl')
    <3>1. Differs(ctl, ctl', {"pending"})
      BY <2>0, <2>7, DrainConsistent DEF Drain
    <3> QED BY <2>3, <3>1 DEF Differs, Fields
  <2>8. CASE UNCHANGED vars
    BY <2>3, <2>8 DEF vars
  <2> QED BY <1>2, <2>1, <2>2, <2>4, <2>5, <2>6, <2>7, <2>8 DEF Next
<1> DEFINE G == Grouped(ctl)
<1>3. Init => G
  BY <1>1
<1>4. IInv /\ G /\ [Next]_vars => G'
  BY <1>2
<1>5. Spec => []IInv
  BY AlwaysIInv
<1> HIDE DEF G
<1>6. Spec => []G
  BY <1>3, <1>4, <1>5, PTL DEF Spec
<1> QED BY <1>6 DEF G

\* The attributes of a controller keep their types.
THEOREM ControllerTypes == Spec => []TypeOK
<1>1. ASSUME IInv, Grouped(ctl) PROVE TypeOK
  <2>1. /\ Steerable(ctl) /\ Ranged(ctl) /\ ctl.friction \in Levels
        /\ ctl.ema \in Levels /\ ctl.target \in Levels
        /\ DOMAIN ctl.config \subseteq Tools
    BY <1>1 DEF IInv, Consistent, Steerable, Ranged
  <2>2. ctl.saturated \subseteq Tools /\ ctl.pending \subseteq Tools
    BY <1>1, <2>1 DEF IInv, Consistent
  <2>3. reported \in [Tools -> 0..2]
    BY <1>1 DEF IInv
  <2>4. /\ DOMAIN ctl.groupEma \subseteq Groups
        /\ \A g \in DOMAIN ctl.groupEma : ctl.groupEma[g] \in Nat
    BY <1>1 DEF IInv, Consistent, Grouped
  <2> QED BY <1>1, <2>1, <2>2, <2>3, <2>4 DEF IInv, Consistent, TypeOK
<1> QED BY <1>1, AlwaysIInv, AlwaysGrouped, PTL

\* The counts of the window are those of its records.
THEOREM WindowCounts == Spec => []WindowCountsAgree
<1>1. IInv => WindowCountsAgree
  BY DEF IInv, Consistent, Counting, WindowCountsAgree, At
<1> QED BY <1>1, AlwaysIInv, PTL

\* A saturated tool is reported once, however long it stays saturated and
\* whenever the events are drained.
THEOREM ReportedOnce == Spec => []SaturationReportedOnce
<1>1. IInv => SaturationReportedOnce
  <2> SUFFICES ASSUME IInv, NEW t \in Tools
               PROVE  reported[t] + (IF t \in ctl.pending THEN 1 ELSE 0) =
                        (IF t \in ctl.saturated THEN 1 ELSE 0)
    BY DEF SaturationReportedOnce
  <2>1. reported[t] = IF t \in ctl.saturated \ ctl.pending THEN 1 ELSE 0
    BY DEF IInv
  <2>2. ctl.pending \subseteq ctl.saturated
    BY DEF IInv, Consistent
  <2> QED BY <2>1, <2>2
<1> QED BY <1>1, AlwaysIInv, PTL

\* What a call leaves, compared with a call that finds the tools less idle.
LEMMA WaitingLeavesLess ==
  ASSUME NEW c, Consistent(c), DOMAIN c.groups = {}, NEW t \in Tools, NEW u,
         NEW early \in 0..MaxTime, NEW late \in 0..MaxTime,
         early <= late \/ ~Waited(c, early)
  PROVE  Get(RecordCall(c, t, late).friction, u)
           <= Get(RecordCall(c, t, early).friction, u)
<1> DEFINE x == Counted(c, t, early)
           y == Counted(c, t, late)
<1>1. Steerable(c) /\ DOMAIN c = Fields /\ Counting(c.window)
  BY DEF Consistent, Steerable, Ranged
<1>2. Below(y, x)
  BY <1>1, DecayBelow, CountBelow DEF Counted
<1>3. Counting(x.window) /\ DOMAIN x.groups = {}
  <2> DEFINE a == TimeDecay(c, early)
  <2>1. Differs(c, a, {"friction", "ema"})
    BY <1>1, TimeDecayDiffers
  <2>2. x = CountCall(a, t)
    BY DEF Counted
  <2> HIDE DEF a, x
  <2>3. Differs(a, x, {"window", "total"}) /\ x.window = WindowRecord(a.window, t)
    BY <2>1, <2>2, CountCallDiffers DEF Differs
  <2>4. a.window = c.window /\ x.groups = c.groups
    BY <2>1, <2>3 DEF Differs, Fields
  <2> QED BY <1>1, <2>3, <2>4, RecordCounts
<1>4. Get(AdjustFriction(y).friction, u) <= Get(AdjustFriction(x).friction, u)
  BY <1>2, <1>3, AdjustBelow
<1>5. /\ Differs(AdjustFriction(x), RecordCall(c, t, early), {"budget", "last"})
      /\ Differs(AdjustFriction(y), RecordCall(c, t, late), {"budget", "last"})
  BY <1>1, RecordDiffers
<1> QED BY <1>4, <1>5 DEF Differs, Fields

\* A client that waits longer is not left with more friction, and a time
\* stamp that goes back leaves no more than one that stands still.
THEOREM WaitingHelps == Spec => []WaitingNeverHurts
<1>1. ASSUME IInv PROVE WaitingNeverHurts
  <2> DEFINE Left(t, u, ts) == Get(RecordCall(ctl, t, ts).friction, u)
  <2>1. /\ Consistent(ctl) /\ Stamps \subseteq 0..MaxTime
        /\ ctl.last \in Stamps \cup {NoTime}
    BY <1>1, ControllerAssumption DEF IInv
  <2>2. ASSUME DOMAIN ctl.groups = {}, NEW t \in Tools, NEW u \in Tools,
               NEW early \in Stamps, NEW late \in Stamps
        PROVE  /\ early <= late => Left(t, u, late) <= Left(t, u, early)
               /\ ctl.last # NoTime => Left(t, u, early) <= Left(t, u, ctl.last)
    <3>1. early <= late => Left(t, u, late) <= Left(t, u, early)
      BY <2>1, <2>2, WaitingLeavesLess
    <3>2. ASSUME ctl.last # NoTime PROVE Left(t, u, early) <= Left(t, u, ctl.last)
      <4>1. ctl.last \in 0..MaxTime
        BY <2>1, <3>2
      <4>2. \A n \in 0..MaxTime : ~(n > n)
        BY ConfigAssumption
      <4>3. ~Waited(ctl, ctl.last)
        BY <4>1, <4>2 DEF Waited
      <4> QED BY <2>1, <2>2, <4>1, <4>3, WaitingLeavesLess
    <3> QED BY <3>1, <3>2
  <2> HIDE DEF Left
  <2>3. DOMAIN ctl.groups = {} =>
          \A t, u \in Tools, early, late \in Stamps :
             /\ early <= late => Left(t, u, late) <= Left(t, u, early)
             /\ ctl.last # NoTime => Left(t, u, early) <= Left(t, u, ctl.last)
    BY <2>2
  <2> QED BY <2>3 DEF WaitingNeverHurts, Left
<1> QED BY <1>1, AlwaysIInv, PTL

\* Relief raises targets, and no step lowers one.
THEOREM ReliefStays == Spec => ReliefIsKept
<1>1. IInv /\ [Next]_vars => [\A t \in DOMAIN ctl.target : ctl'.target[t] >= ctl.target[t]]_vars
  BY NextIInv
<1> QED BY <1>1, AlwaysIInv, PTL DEF Spec, ReliefIsKept

\* A step that is no call changes a friction only by restoring it.
LEMMA OnlyCallsSteer ==
  ASSUME IInv, [Next]_vars, NEW u
  PROVE  \/ \E t \in Tools, ts \in Stamps : Call(t, ts) \/ UncontrolledCall(t, ts)
         \/ \E levels \in Restorable : ctl' = RestoreFriction(ctl, levels)
         \/ Get(ctl'.friction, u) = Get(ctl.friction, u)
<1>0. Consistent(ctl) /\ DOMAIN ctl = Fields
  BY DEF IInv, Consistent, Steerable, Ranged
<1>1. ASSUME NEW t, NEW tc, Configure(t, tc)
      PROVE  Get(ctl'.friction, u) = Get(ctl.friction, u)
  <2> DEFINE f == IF t \in DOMAIN ctl.friction THEN ctl.friction
                  ELSE Put(ctl.friction, t, 0)
  <2>1. \E cf, em, sc, ta, sa :
          ctl' = [ctl EXCEPT !.config = cf, !.friction = f, !.ema = em,
                             !.satCount = sc, !.target = ta, !.saturated = sa]
    BY <1>1 DEF Configure, ConfigureTool
  <2>2. Get(f, u) = Get(ctl.friction, u)
    BY DEF Put, Get
  <2> HIDE DEF f
  <2>3. ctl'.friction = f
    BY <1>0, <2>1 DEF Fields
  <2> QED BY <2>2, <2>3
<1>2. ASSUME NEW g \in Groups, Group(g) PROVE ctl'.friction = ctl.friction
  <2>1. Differs(ctl, ctl', {"groups", "groupEma"})
    BY <1>0, <1>2, GroupConsistent DEF Group
  <2> QED BY <2>1 DEF Differs, Fields
<1>3. ASSUME NEW b \in Budgets, Refill(b) PROVE ctl'.friction = ctl.friction
  <2>1. Differs(ctl, ctl', {"budget"})
    BY <1>0, <1>3, RefillConsistent DEF Refill
  <2> QED BY <2>1 DEF Differs, Fields
<1>4. ASSUME Drain PROVE ctl'.friction = ctl.friction
  <2>1. Differs(ctl, ctl', {"pending"})
    BY <1>0, <1>4, DrainConsistent DEF Drain
  <2> QED BY <2>1 DEF Differs, Fields
<1> QED BY <1>1, <1>2, <1>3, <1>4 DEF Next, vars, Restore

\* Group pressure does not fall on a tool that makes no part of the rate, and
\* its own target, whatever relief has made of it, only lowers its friction.
THEOREM ColdSparedAlways == Spec => ColdToolSpared
<1> DEFINE Cold(t) == /\ Get(ctl'.ema, t) = 0
                      /\ \A g \in DOMAIN ctl.groups : t \in ctl.groups[g].tools =>
                           AggregateRate(ctl', ctl.groups[g]) > 0
           Spared(t) ==
             \/ Get(ctl'.friction, t) <= Get(ctl.friction, t)
             \/ \E levels \in Restorable : ctl' = RestoreFriction(ctl, levels)
<1>1. ASSUME IInv, Grouped(ctl), [Next]_vars, NEW u, Cold(u) PROVE Spared(u)
  <2>0. /\ Steerable(ctl) /\ Counting(ctl.window) /\ Stamps \subseteq 0..MaxTime
        /\ Get(ctl.friction, u) \in Int
    BY <1>1, ControllerAssumption, GetLevel, ConfigAssumption
       DEF IInv, Consistent, Steerable, Ranged
  <2>1. ASSUME NEW t \in Tools, NEW ts \in Stamps, Call(t, ts) \/ UncontrolledCall(t, ts)
        PROVE  Spared(u)
    <3>1. ctl' \in {RecordCall(ctl, t, ts), RecordUnconfigured(ctl, t, ts)}
      BY <2>1 DEF Call, UncontrolledCall
    <3>2. Get(ctl'.friction, u) <= Get(ctl.friction, u)
      BY <1>1, <2>0, <3>1, ColdSpared
    <3> QED BY <3>2
  <2>2. Get(ctl'.friction, u) = Get(ctl.friction, u) => Spared(u)
    BY <2>0
  <2> QED BY <1>1, <2>1, <2>2, OnlyCallsSteer
<1>2. IInv /\ Grouped(ctl) /\ [Next]_vars =>
        [\A t \in DOMAIN ctl.config : Cold(t) => Spared(t)]_vars
  BY <1>1
<1> QED BY <1>2, AlwaysIInv, AlwaysGrouped, PTL DEF Spec, ColdToolSpared

\* Friction rises only on a tool that is over its target, or a group of which
\* is; a snapshot apart, nothing else raises any.
THEOREM OvershootRaises == Spec => RaisedOnlyByOvershoot
<1> DEFINE Over(t) ==
             \/ /\ t \in DOMAIN ctl.config
                /\ Get(ctl'.ema, t) - EffectiveTarget(ctl, t) >= DeadZone
             \/ \E g \in DOMAIN ctl.groups :
                  /\ t \in ctl.groups[g].tools
                  /\ Get(ctl'.groupEma, g) - ctl.groups[g].target > DeadZone
           Raised(t) == ~(Get(ctl'.friction, t) <= Get(ctl.friction, t))
           Restored == \E levels \in Restorable : ctl' = RestoreFriction(ctl, levels)
<1>1. ASSUME IInv, Grouped(ctl), [Next]_vars, NEW u, Raised(u) PROVE Over(u) \/ Restored
  <2>0. /\ Steerable(ctl) /\ Counting(ctl.window) /\ Stamps \subseteq 0..MaxTime
        /\ Get(ctl.friction, u) \in Int
    BY <1>1, ControllerAssumption, GetLevel, ConfigAssumption
       DEF IInv, Consistent, Steerable, Ranged
  <2>1. ASSUME NEW t \in Tools, NEW ts \in Stamps, Call(t, ts) \/ UncontrolledCall(t, ts)
        PROVE  Over(u)
    <3>1. ctl' \in {RecordCall(ctl, t, ts), RecordUnconfigured(ctl, t, ts)}
      BY <2>1 DEF Call, UncontrolledCall
    <3>2. Consistent(ctl')
      BY <1>1, <2>0, <3>1, RecordConsistent DEF IInv
    <3>3. Get(ctl'.ema, u) \in Int
      BY <3>2, GetLevel, ConfigAssumption DEF Consistent, Steerable
    <3>4. ASSUME ~Over(u) PROVE Moderate(ctl, u, Get(ctl'.ema, u))
      <4>1. u \in DOMAIN ctl.config => EffectiveTarget(ctl, u) \in 0..Unit
        BY <2>0, TargetInRange
      <4> QED BY <3>3, <3>4, <4>1, ConfigAssumption DEF Moderate
    <3>5. ~Over(u) => Get(ctl'.friction, u) <= Get(ctl.friction, u)
      BY <1>1, <2>0, <3>1, <3>4, CallRaises
    <3> QED BY <1>1, <3>5
  <2>2. Get(ctl'.friction, u) # Get(ctl.friction, u)
    BY <1>1, <2>0
  <2> QED BY <1>1, <2>1, <2>2, OnlyCallsSteer
<1> DEFINE A ==
      \A t \in Tools :
         \/ Get(ctl'.friction, t) <= Get(ctl.friction, t)
         \/ /\ t \in DOMAIN ctl.config
            /\ Get(ctl'.ema, t) - EffectiveTarget(ctl, t) >= DeadZone
         \/ \E g \in DOMAIN ctl.groups :
              /\ t \in ctl.groups[g].tools
              /\ Get(ctl'.groupEma, g) - ctl.groups[g].target > DeadZone
         \/ \E levels \in Restorable : ctl' = RestoreFriction(ctl, levels)
<1>2. IInv /\ Grouped(ctl) /\ [Next]_vars => [A]_vars
  BY <1>1
<1>3. Spec => [][A]_vars
  BY <1>2, AlwaysIInv, AlwaysGrouped, PTL DEF Spec
<1> QED BY <1>3 DEF RaisedOnlyByOvershoot
============================================================================
