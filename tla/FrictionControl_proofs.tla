----------------------- MODULE FrictionControl_proofs -----------------------
(* What the operators of FrictionControl do to a controller: which of its  *)
(* attributes each of them touches, and the ranges they keep.  The proofs  *)
(* about one controller and about the registry of controllers rest on it.  *)
EXTENDS FrictionControl, FiniteSetTheorems, SequenceTheorems, TLAPS

\* The attributes of a controller.
Fields ==
  {"config", "groups", "window", "total", "friction", "ema", "last",
   "satCount", "target", "saturated", "pending", "groupEma", "budget"}

\* d is a controller like c but for the named attributes.
Differs(c, d, names) ==
  DOMAIN d = Fields /\ \A f \in Fields \ names : d[f] = c[f]

\* A controller whose configured tools have friction, in range.
Ranged(c) ==
  /\ DOMAIN c = Fields
  /\ DOMAIN c.config \subseteq Tools
  /\ c.friction \in Levels /\ DOMAIN c.config \subseteq DOMAIN c.friction
  /\ c.last \in 0..MaxTime \cup {NoTime}

----------------------------------------------------------------------------
(* Arithmetic and dictionaries. *)

\* A dictionary from some of S to T is what its name says.
LEMMA PartialIs ==
  ASSUME NEW S, NEW T, NEW f
  PROVE  f \in Partial(S, T) <=> DOMAIN f \subseteq S /\ f \in [DOMAIN f -> T]
BY DEF Partial

\* Friction levels are functions from some tools to 0..Unit.
LEMMA LevelsAre ==
  ASSUME NEW f \in Levels
  PROVE  DOMAIN f \subseteq Tools /\ f \in [DOMAIN f -> 0..Unit]
BY PartialIs DEF Levels

\* And such functions are friction levels.
LEMMA LevelsIf ==
  ASSUME NEW f, DOMAIN f \subseteq Tools, f \in [DOMAIN f -> 0..Unit]
  PROVE  f \in Levels
BY PartialIs DEF Levels

\* What .get reads of them.
LEMMA GetLevel ==
  ASSUME NEW f \in Levels, NEW t
  PROVE  Get(f, t) \in 0..Unit
BY LevelsAre, ConfigAssumption DEF Get

\* Setting a key of a dictionary.
LEMMA PutPartial ==
  ASSUME NEW S, NEW T, NEW f \in Partial(S, T), NEW k \in S, NEW v \in T
  PROVE  Put(f, k, v) \in Partial(S, T) /\ DOMAIN Put(f, k, v) = DOMAIN f \cup {k}
<1>1. DOMAIN f \subseteq S /\ f \in [DOMAIN f -> T]
  BY PartialIs
<1>2. /\ DOMAIN Put(f, k, v) = DOMAIN f \cup {k}
      /\ Put(f, k, v) \in [DOMAIN f \cup {k} -> T]
  BY <1>1 DEF Put
<1> QED BY <1>1, <1>2, PartialIs

\* Setting the friction, or another level, of a tool.
LEMMA PutLevel ==
  ASSUME NEW f \in Levels, NEW t \in Tools, NEW v \in 0..Unit
  PROVE  Put(f, t, v) \in Levels /\ DOMAIN Put(f, t, v) = DOMAIN f \cup {t}
<1> DEFINE U == 0..Unit
<1>1. Levels = Partial(Tools, U)
  BY DEF Levels
<1> HIDE DEF U
<1>2. f \in Partial(Tools, U) /\ v \in U
  BY <1>1 DEF U
<1>3. Put(f, t, v) \in Partial(Tools, U) /\ DOMAIN Put(f, t, v) = DOMAIN f \cup {t}
  BY <1>2, PutPartial
<1> QED BY <1>1, <1>3

\* Whatever is added to friction, clamping keeps it in range.
LEMMA ClampInRange == ASSUME NEW x PROVE Clamp(x) \in 0..Unit
BY ConfigAssumption DEF Clamp

\* Clamping keeps the order, and what is in range.
LEMMA ClampMonotone ==
  ASSUME NEW x \in Int, NEW y \in Int, x <= y
  PROVE  Clamp(x) <= Clamp(y) /\ (x \in 0..Unit => Clamp(x) = x)
BY ConfigAssumption DEF Clamp

\* Division by a positive number keeps the order.
LEMMA DivMonotone ==
  ASSUME NEW x \in Int, NEW y \in Int, NEW n \in Nat \ {0}, x <= y
  PROVE  x \div n \in Int /\ y \div n \in Int /\ x \div n <= y \div n
OBVIOUS

\* A number below n times m, divided by n, is at most m.
LEMMA DivBound ==
  ASSUME NEW x \in Nat, NEW n \in Nat \ {0}, NEW m \in Nat, x <= m * n
  PROVE  x \div n \in 0..m
<1>1. (m * n) \div n = m /\ m * n \in Nat
  OBVIOUS
<1>2. x \div n <= (m * n) \div n
  BY <1>1, DivMonotone
<1>3. x \div n \in Nat
  OBVIOUS
<1> QED BY <1>1, <1>2, <1>3

\* So does multiplication by a number that is not negative.
LEMMA TimesMonotone ==
  ASSUME NEW x \in Int, NEW y \in Int, NEW n \in Nat, x <= y
  PROVE  n * x \in Int /\ n * y \in Int /\ n * x <= n * y
OBVIOUS

\* A smoothed rate is in range.
LEMMA EmaInRange ==
  ASSUME NEW old \in 0..Unit, NEW new \in 0..Unit
  PROVE  Ema(old, new) \in 0..Unit
<1> DEFINE a == Alpha * new
           b == (Unit - Alpha) * old
<1>1. Unit \in Nat \ {0} /\ Alpha \in Nat /\ Unit - Alpha \in Nat
  BY ConfigAssumption
<1>2. a \in Nat /\ a <= Alpha * Unit
  BY <1>1, TimesMonotone
<1>3. b \in Nat /\ b <= (Unit - Alpha) * Unit
  BY <1>1, TimesMonotone
<1>4. Alpha * Unit + (Unit - Alpha) * Unit = Unit * Unit
  BY <1>1
<1>5. Alpha * Unit \in Nat /\ (Unit - Alpha) * Unit \in Nat
  BY <1>1
<1> HIDE DEF a, b
<1>6. a + b \in Nat /\ a + b <= Unit * Unit
  BY <1>2, <1>3, <1>4, <1>5
<1>7. (a + b) \div Unit \in 0..Unit
  BY <1>1, <1>6, DivBound
<1> QED BY <1>7 DEF Ema, a, b

\* And it rises with the rate it starts from.
LEMMA EmaMonotone ==
  ASSUME NEW old \in 0..Unit, NEW other \in 0..Unit, NEW new \in 0..Unit,
         old <= other
  PROVE  Ema(old, new) <= Ema(other, new)
<1> DEFINE a == Alpha * new
           b == (Unit - Alpha) * old
           c == (Unit - Alpha) * other
<1>1. Unit \in Nat \ {0} /\ Alpha \in Nat /\ Unit - Alpha \in Nat
  BY ConfigAssumption
<1>2. a \in Int /\ b \in Int /\ c \in Int /\ b <= c
  BY <1>1, TimesMonotone
<1> HIDE DEF a, b, c
<1>3. (a + b) \div Unit <= (a + c) \div Unit
  BY <1>1, <1>2, DivMonotone
<1> QED BY <1>3 DEF Ema, a, b, c
----------------------------------------------------------------------------
(* Which attributes the steps of a call touch. *)

\* Attributes that neither of two steps touches.
LEMMA DiffersTwice ==
  ASSUME NEW c, NEW d, NEW e, NEW S, NEW T, Differs(c, d, S), Differs(d, e, T)
  PROVE  Differs(c, e, S \cup T)
BY DEF Differs

\* _apply_time_decay.
LEMMA TimeDecayDiffers ==
  ASSUME NEW c, DOMAIN c = Fields, NEW ts
  PROVE  Differs(c, TimeDecay(c, ts), {"friction", "ema"})
<1>1. CASE c.last = NoTime \/ ts <= c.last
  BY <1>1 DEF TimeDecay, Differs
<1>2. CASE ~(c.last = NoTime \/ ts <= c.last)
  <2>1. \E f, e : TimeDecay(c, ts) = [c EXCEPT !.friction = f, !.ema = e]
    BY <1>2 DEF TimeDecay
  <2> QED BY <2>1 DEF Differs, Fields
<1> QED BY <1>1, <1>2

\* The count of a call.
LEMMA CountCallDiffers ==
  ASSUME NEW c, DOMAIN c = Fields, NEW t
  PROVE  /\ Differs(c, CountCall(c, t), {"window", "total"})
         /\ CountCall(c, t).window = WindowRecord(c.window, t)
         /\ CountCall(c, t).total = Least(c.total + 1, Warmup)
<1> DEFINE w == WindowRecord(c.window, t)
           n == Least(c.total + 1, Warmup)
<1>1. CountCall(c, t) = [c EXCEPT !.window = w, !.total = n]
  BY DEF CountCall
<1> HIDE DEF w, n
<1>2. /\ Differs(c, [c EXCEPT !.window = w, !.total = n], {"window", "total"})
      /\ [c EXCEPT !.window = w, !.total = n].window = w
      /\ [c EXCEPT !.window = w, !.total = n].total = n
  BY DEF Differs, Fields
<1> QED BY <1>1, <1>2 DEF w, n

\* The parts of _adjust_friction.
LEMMA UpdateEmaDiffers ==
  ASSUME NEW c, DOMAIN c = Fields
  PROVE  Differs(c, UpdateEma(c), {"ema"})
<1>1. \E e : UpdateEma(c) = [c EXCEPT !.ema = e]
  BY DEF UpdateEma
<1> QED BY <1>1 DEF Differs, Fields

\* Steering moves friction and nothing else: no counter, target or rate.
LEMMA SteerDiffers ==
  ASSUME NEW c, DOMAIN c = Fields
  PROVE  Differs(c, Steer(c), {"friction"})
<1>1. \E f : Steer(c) = [c EXCEPT !.friction = f]
  BY DEF Steer
<1> QED BY <1>1 DEF Differs, Fields

\* Detection touches what it keeps of saturation, and the targets it relieves;
\* friction is left where steering put it.
LEMMA DetectDiffers ==
  ASSUME NEW c, DOMAIN c = Fields
  PROVE  Differs(c, DetectSaturation(c),
                 {"satCount", "target", "pending", "saturated"})
<1>1. \/ DetectSaturation(c) = c
      \/ \E n, r, p, s : DetectSaturation(c) =
           [c EXCEPT !.satCount = n, !.target = r, !.pending = p, !.saturated = s]
  BY DEF DetectSaturation
<1> QED BY <1>1 DEF Differs, Fields

\* Pressure smooths the rates of the groups and moves friction; the targets
\* are left as detection made them.
LEMMA PressureDiffers ==
  ASSUME NEW c, DOMAIN c = Fields
  PROVE  Differs(c, AggregatePressure(c), {"groupEma", "friction"})
<1>1. \E e, f : AggregatePressure(c) = [[c EXCEPT !.groupEma = e] EXCEPT !.friction = f]
  BY DEF AggregatePressure
<1> QED BY <1>1 DEF Differs, Fields

\* The attributes that an adjustment may touch.
Adjusted ==
  {"friction", "ema", "satCount", "target", "pending", "saturated", "groupEma"}

\* An adjustment leaves the window, the counters of calls, the budget, the
\* time of the last call and every configuration alone.
LEMMA AdjustDiffers ==
  ASSUME NEW c, DOMAIN c = Fields
  PROVE  Differs(c, AdjustFriction(c), Adjusted)
<1> DEFINE u == UpdateEma(c)
           s == Steer(u)
           z == DetectSaturation(s)
           p == AggregatePressure(z)
<1>1. Differs(c, u, {"ema"})
  BY UpdateEmaDiffers
<1>2. AdjustFriction(c) \in {u, p}
  BY DEF AdjustFriction
<1> HIDE DEF u
<1>3. Differs(u, s, {"friction"})
  BY <1>1, SteerDiffers DEF Differs
<1> HIDE DEF s
<1>4. Differs(s, z, {"satCount", "target", "pending", "saturated"})
  BY <1>3, DetectDiffers DEF Differs
<1> HIDE DEF z
<1>5. Differs(z, p, {"groupEma", "friction"})
  BY <1>4, PressureDiffers DEF Differs
<1> HIDE DEF p
<1> QED BY <1>1, <1>2, <1>3, <1>4, <1>5 DEF Differs, Adjusted

\* A recorded call, of either kind, is a decay, a count and an adjustment;
\* then the price is charged and the time remembered.
Counted(c, t, ts) == CountCall(TimeDecay(c, ts), t)

\* Between the adjusted controller and the recorded one are only the charge
\* and the time, and the charge is the price after the idle decay.
LEMMA RecordDiffers ==
  ASSUME NEW c, DOMAIN c = Fields, NEW t, NEW ts
  PROVE  LET d == AdjustFriction(Counted(c, t, ts))
             r == RecordCall(c, t, ts)
             u == RecordUnconfigured(c, t, ts)
         IN  /\ Differs(c, d, Adjusted \cup {"window", "total"})
             /\ d.window = WindowRecord(c.window, t)
             /\ d.total = Least(c.total + 1, Warmup)
             /\ Differs(d, r, {"budget", "last"}) /\ r.last = ts
             /\ r.budget = Spend(c.budget, Check(TimeDecay(c, ts), t).cost)
             /\ Differs(d, u, {"last"}) /\ u.last = ts
<1> DEFINE a == TimeDecay(c, ts)
           b == CountCall(a, t)
           d == AdjustFriction(b)
           v == Spend(d.budget, Check(a, t).cost)
           r == RecordCall(c, t, ts)
           u == RecordUnconfigured(c, t, ts)
<1>1. /\ r = [d EXCEPT !.budget = v, !.last = ts] /\ u = [d EXCEPT !.last = ts]
      /\ d = AdjustFriction(Counted(c, t, ts))
      /\ v = Spend(d.budget, Check(TimeDecay(c, ts), t).cost)
  BY DEF RecordCall, RecordUnconfigured, Counted
<1>2. Differs(c, a, {"friction", "ema"})
  BY TimeDecayDiffers
<1> HIDE DEF a
<1>3. /\ Differs(a, b, {"window", "total"})
      /\ b.window = WindowRecord(a.window, t) /\ b.total = Least(a.total + 1, Warmup)
  BY <1>2, CountCallDiffers DEF Differs
<1> HIDE DEF b
<1>4. Differs(b, d, Adjusted)
  BY <1>3, AdjustDiffers DEF Differs
<1> HIDE DEF d, v, r, u
<1>5. /\ Differs(c, d, Adjusted \cup {"window", "total"})
      /\ d.window = WindowRecord(c.window, t) /\ d.total = Least(c.total + 1, Warmup)
      /\ d.budget = c.budget
  BY <1>2, <1>3, <1>4 DEF Differs, Adjusted, Fields
<1>6. /\ Differs(d, r, {"budget", "last"}) /\ r.budget = v /\ r.last = ts
      /\ Differs(d, u, {"last"}) /\ u.last = ts
  BY <1>1, <1>4 DEF Differs, Fields
<1>7. v = Spend(c.budget, Check(TimeDecay(c, ts), t).cost)
  BY <1>1, <1>5
<1> QED BY <1>1, <1>5, <1>6, <1>7 DEF r, u
----------------------------------------------------------------------------
(* Friction stays in range, on the tools that have it. *)

\* d is a controller as sound as c, with friction on the same tools.
KeepsRange(c, d) ==
  Ranged(d) /\ d.config = c.config /\ DOMAIN d.friction = DOMAIN c.friction

\* A step that leaves the friction, the configuration and the time alone.
LEMMA SameRanged ==
  ASSUME NEW c, Ranged(c), NEW d, NEW S, Differs(c, d, S),
         S \cap {"config", "friction", "last"} = {}
  PROVE  KeepsRange(c, d)
<1>1. DOMAIN d = Fields /\ d.config = c.config /\ d.friction = c.friction /\ d.last = c.last
  BY DEF Differs, Fields
<1> QED BY <1>1 DEF Ranged, KeepsRange

\* A step that gives new levels to some of the tools that have friction.
LEMMA MovedRanged ==
  ASSUME NEW c, Ranged(c), NEW d, DOMAIN d = Fields,
         d.config = c.config, d.last \in 0..MaxTime \cup {NoTime},
         d.friction \in [DOMAIN c.friction -> 0..Unit]
  PROVE  KeepsRange(c, d)
<1>1. DOMAIN d.friction = DOMAIN c.friction /\ DOMAIN c.friction \subseteq Tools
  BY LevelsAre DEF Ranged
<1>2. d.friction \in Levels
  BY <1>1, LevelsIf
<1> QED BY <1>1, <1>2 DEF Ranged, KeepsRange

\* The idle decay: it lowers the friction of a tool or leaves it.
LEMMA TimeDecayRanged ==
  ASSUME NEW c, Ranged(c), NEW ts \in 0..MaxTime
  PROVE  LET d == TimeDecay(c, ts)
         IN  /\ KeepsRange(c, d)
             /\ \A t : Get(d.friction, t) <= Get(c.friction, t)
<1> DEFINE d == TimeDecay(c, ts)
<1>0. \A t : Get(c.friction, t) \in 0..Unit
  BY GetLevel DEF Ranged
<1>1. CASE c.last = NoTime \/ ts <= c.last
  <2>1. d = c
    BY <1>1 DEF TimeDecay
  <2>2. \A t : Get(c.friction, t) <= Get(c.friction, t)
    BY <1>0, ConfigAssumption
  <2> QED BY <2>1, <2>2 DEF KeepsRange
<1>2. CASE ~(c.last = NoTime \/ ts <= c.last)
  <2> DEFINE f == [t \in DOMAIN c.friction |-> Decayed(c.friction[t], ts - c.last)]
             Aged(x) == [t \in DOMAIN x |-> IF t \in DOMAIN c.friction
                           THEN Decayed(x[t], ts - c.last) ELSE x[t]]
  <2>1. c.last \in 0..MaxTime /\ ts - c.last \in 0..MaxTime
    BY <1>2, ConfigAssumption DEF Ranged
  <2>2. c.friction \in [DOMAIN c.friction -> 0..Unit]
    BY LevelsAre DEF Ranged
  <2>3. ASSUME NEW t \in DOMAIN c.friction
        PROVE  f[t] \in 0..Unit /\ f[t] <= c.friction[t]
    <3>1. c.friction[t] \in 0..Unit
      BY <2>2
    <3>2. Decayed(c.friction[t], ts - c.last) \in 0..c.friction[t]
      BY <2>1, <3>1, DecayAssumption
    <3> QED BY <3>1, <3>2, ConfigAssumption
  <2>4. Aged(c.friction) = f
    OBVIOUS
  <2>5. d = [c EXCEPT !.friction = f, !.ema = Aged(@)]
    BY <1>2, <2>4 DEF TimeDecay
  <2>6. f \in [DOMAIN c.friction -> 0..Unit]
    BY <2>3
  <2> HIDE DEF f, Aged
  <2>7. DOMAIN d = Fields /\ d.config = c.config /\ d.last = c.last /\ d.friction = f
    BY <2>5 DEF Ranged, Fields
  <2> HIDE DEF d
  <2>8. KeepsRange(c, d)
    BY <2>1, <2>6, <2>7, MovedRanged
  <2>9. \A t : Get(d.friction, t) <= Get(c.friction, t)
    BY <1>0, <2>3, <2>6, <2>7 DEF Get
  <2> QED BY <2>8, <2>9 DEF d
<1> QED BY <1>1, <1>2

\* Steering by the rate of a tool.
LEMMA SteerRanged ==
  ASSUME NEW c, Ranged(c)
  PROVE  KeepsRange(c, Steer(c))
<1> DEFINE Error(t) == Get(c.ema, t) - EffectiveTarget(c, t)
           P(t) == Get(c.friction, t) + Correction(Error(t))
           S == {t \in DOMAIN c.config : ~(Error(t) < DeadZone /\ -Error(t) < DeadZone)}
           f == [t \in DOMAIN c.friction \cup S |->
                   IF t \in S THEN Clamp(P(t)) ELSE c.friction[t]]
           d == Steer(c)
<1>1. d = [c EXCEPT !.friction = f]
  BY DEF Steer
<1>2. S \subseteq DOMAIN c.friction
  BY DEF Ranged
<1> HIDE DEF S, P
<1>3. \A t \in S : Clamp(P(t)) \in 0..Unit
  BY ClampInRange
<1>4. c.friction \in [DOMAIN c.friction -> 0..Unit]
  BY LevelsAre DEF Ranged
<1>5. f \in [DOMAIN c.friction -> 0..Unit]
  BY <1>2, <1>3, <1>4
<1> HIDE DEF f
<1>6. DOMAIN d = Fields /\ d.config = c.config /\ d.last = c.last /\ d.friction = f
  BY <1>1 DEF Ranged, Fields
<1> HIDE DEF d
<1>7. KeepsRange(c, d)
  BY <1>5, <1>6, MovedRanged DEF Ranged
<1> QED BY <1>7 DEF d

\* The pressure of the groups.
LEMMA PressureRanged ==
  ASSUME NEW c, Ranged(c)
  PROVE  KeepsRange(c, AggregatePressure(c))
<1> DEFINE e == [c EXCEPT !.groupEma = [g \in DOMAIN @ \cup DOMAIN c.groups |->
                   IF g \in DOMAIN c.groups
                     THEN Ema(Get(@, g), AggregateRate(c, c.groups[g])) ELSE @[g]]]
           S == {t \in DOMAIN c.config : PushOn(e, t) > 0}
           f == [t \in DOMAIN e.friction \cup S |->
                   IF t \in S THEN Clamp(Get(c.friction, t) + PushOn(e, t))
                   ELSE e.friction[t]]
           d == AggregatePressure(c)
<1>1. d = [e EXCEPT !.friction = f]
  BY DEF AggregatePressure
<1>2. DOMAIN e = Fields /\ e.config = c.config /\ e.friction = c.friction /\ e.last = c.last
  BY DEF Ranged, Fields
<1>3. S \subseteq DOMAIN c.friction
  BY DEF Ranged
<1> HIDE DEF S, e
<1>4. \A t \in S : Clamp(Get(c.friction, t) + PushOn(e, t)) \in 0..Unit
  BY ClampInRange
<1>5. c.friction \in [DOMAIN c.friction -> 0..Unit]
  BY LevelsAre DEF Ranged
<1>6. f \in [DOMAIN c.friction -> 0..Unit]
  BY <1>2, <1>3, <1>4, <1>5
<1> HIDE DEF f
<1>7. DOMAIN d = Fields /\ d.config = c.config /\ d.last = c.last /\ d.friction = f
  BY <1>1, <1>2 DEF Fields
<1> HIDE DEF d
<1>8. KeepsRange(c, d)
  BY <1>6, <1>7, MovedRanged DEF Ranged
<1> QED BY <1>8 DEF d

\* _adjust_friction.
LEMMA AdjustRanged ==
  ASSUME NEW c, Ranged(c)
  PROVE  KeepsRange(c, AdjustFriction(c))
<1> DEFINE u == UpdateEma(c)
           s == Steer(u)
           z == DetectSaturation(s)
<1>1. KeepsRange(c, u)
  BY UpdateEmaDiffers, SameRanged DEF Ranged
<1>2. KeepsRange(u, s)
  BY <1>1, SteerRanged DEF KeepsRange
<1>3. KeepsRange(s, z)
  <2>1. Ranged(s) /\ DOMAIN s = Fields
    BY <1>2 DEF KeepsRange, Ranged
  <2> HIDE DEF s
  <2>2. Differs(s, z, {"satCount", "target", "pending", "saturated"})
    BY <2>1, DetectDiffers
  <2> QED BY <2>1, <2>2, SameRanged
<1>4. KeepsRange(z, AggregatePressure(z))
  BY <1>3, PressureRanged DEF KeepsRange
<1>5. AdjustFriction(c) \in {u, AggregatePressure(z)}
  BY DEF AdjustFriction
<1> HIDE DEF u, s, z
<1> QED BY <1>1, <1>2, <1>3, <1>4, <1>5 DEF KeepsRange

\* A recorded call, of either kind.
LEMMA RecordRanged ==
  ASSUME NEW c, Ranged(c), NEW t, NEW ts \in 0..MaxTime
  PROVE  /\ KeepsRange(c, Counted(c, t, ts))
         /\ KeepsRange(c, AdjustFriction(Counted(c, t, ts)))
         /\ KeepsRange(c, RecordCall(c, t, ts))
         /\ KeepsRange(c, RecordUnconfigured(c, t, ts))
<1> DEFINE a == TimeDecay(c, ts)
           b == Counted(c, t, ts)
           d == AdjustFriction(b)
           r == RecordCall(c, t, ts)
           u == RecordUnconfigured(c, t, ts)
<1>1. KeepsRange(c, a)
  BY TimeDecayRanged
<1>2. KeepsRange(a, b)
  <2>1. Ranged(a) /\ DOMAIN a = Fields
    BY <1>1 DEF KeepsRange, Ranged
  <2>2. Differs(a, b, {"window", "total"})
    BY <2>1, CountCallDiffers DEF Counted
  <2> HIDE DEF a, b
  <2> QED BY <2>1, <2>2, SameRanged
<1>3. KeepsRange(b, d)
  BY <1>2, AdjustRanged DEF KeepsRange
<1>4. /\ Differs(d, r, {"budget", "last"}) /\ r.last = ts
      /\ Differs(d, u, {"last"}) /\ u.last = ts
  BY RecordDiffers DEF Ranged
<1> HIDE DEF a, b, d, r, u
<1>5. KeepsRange(c, d)
  BY <1>1, <1>2, <1>3 DEF KeepsRange
<1>6. KeepsRange(c, b)
  BY <1>1, <1>2 DEF KeepsRange
<1>7. KeepsRange(c, r) /\ KeepsRange(c, u)
  <2>1. /\ DOMAIN r = Fields /\ r.config = d.config /\ r.friction = d.friction
        /\ DOMAIN u = Fields /\ u.config = d.config /\ u.friction = d.friction
    BY <1>4 DEF Differs, Fields
  <2> QED BY <1>4, <1>5, <2>1 DEF KeepsRange, Ranged
<1> QED BY <1>5, <1>6, <1>7 DEF b, d, r, u

----------------------------------------------------------------------------
(* The window.  record updates the counts call by call; they stay  *)
(* those of the records.                                                   *)

\* The places at which t occurs in s.
At(s, t) == {i \in DOMAIN s : s[i] = t}

\* A window whose counts are those of its records.
Counting(w) ==
  /\ w.records \in Seq(Tools) /\ Len(w.records) <= WindowSize
  /\ w.counts \in [Tools -> Nat]
  /\ \A t \in Tools : w.counts[t] = Cardinality(At(w.records, t))

\* There are finitely many such places, at most the length.
LEMMA AtFinite ==
  ASSUME NEW s \in Seq(Tools), NEW t
  PROVE  /\ IsFiniteSet(At(s, t)) /\ At(s, t) \subseteq 1..Len(s)
         /\ Cardinality(At(s, t)) \in 0..Len(s)
<1>1. Len(s) \in Nat /\ DOMAIN s = 1..Len(s)
  BY LenProperties
<1>2. IsFiniteSet(1..Len(s)) /\ Cardinality(1..Len(s)) = Len(s)
  BY <1>1, FS_Interval
<1>3. At(s, t) \in SUBSET (1..Len(s))
  BY <1>1 DEF At
<1>4. IsFiniteSet(At(s, t)) /\ Cardinality(At(s, t)) <= Len(s)
  BY <1>2, <1>3, FS_Subset
<1>5. Cardinality(At(s, t)) \in Nat
  BY <1>4, FS_CardinalityType
<1> QED BY <1>1, <1>3, <1>4, <1>5

\* Appending a name adds one place of it.
LEMMA AtAppend ==
  ASSUME NEW s \in Seq(Tools), NEW t \in Tools, NEW u \in Tools
  PROVE  Cardinality(At(Append(s, t), u))
           = Cardinality(At(s, u)) + (IF u = t THEN 1 ELSE 0)
<1> DEFINE a == Append(s, t)
           n == Len(s) + 1
<1>1. /\ a \in Seq(Tools) /\ Len(a) = n /\ Len(s) \in Nat
      /\ DOMAIN s = 1..Len(s) /\ DOMAIN a = 1..n
      /\ (\A i \in 1..Len(s) : a[i] = s[i]) /\ a[n] = t
  BY AppendProperties, LenProperties
<1>2. IsFiniteSet(At(s, u)) /\ At(s, u) \subseteq 1..Len(s)
      /\ Cardinality(At(s, u)) \in Nat
  BY <1>1, AtFinite
<1> HIDE DEF a
<1>3. CASE u = t
  <2>1. At(a, u) = At(s, u) \cup {n}
    BY <1>1, <1>3 DEF At
  <2>2. n \notin At(s, u)
    BY <1>1, <1>2
  <2>3. Cardinality(At(s, u) \cup {n}) = Cardinality(At(s, u)) + 1
    BY <1>2, <2>2, FS_AddElement
  <2> QED BY <1>3, <2>1, <2>3 DEF a
<1>4. CASE u # t
  <2>1. At(a, u) = At(s, u)
    BY <1>1, <1>4 DEF At
  <2> QED BY <1>2, <1>4, <2>1 DEF a
<1> QED BY <1>3, <1>4

\* Dropping the first name removes one place of it and shifts the others.
LEMMA AtTail ==
  ASSUME NEW s \in Seq(Tools), s # <<>>, NEW u \in Tools
  PROVE  Cardinality(At(Tail(s), u))
           = Cardinality(At(s, u)) - (IF u = Head(s) THEN 1 ELSE 0)
<1> DEFINE r == Tail(s)
           n == Len(s)
           A == At(s, u)
           B == At(s, u) \ {1}
           f == [i \in At(r, u) |-> i + 1]
<1>1. /\ r \in Seq(Tools) /\ Len(r) = n - 1 /\ n \in Nat \ {0}
      /\ DOMAIN s = 1..n /\ DOMAIN r = 1..(n - 1)
      /\ (\A i \in 1..(n - 1) : r[i] = s[i + 1]) /\ Head(s) = s[1]
  BY HeadTailProperties, LenProperties, EmptySeq
<1> HIDE DEF r
<1>2. IsFiniteSet(A) /\ Cardinality(A) \in Nat /\ IsFiniteSet(At(r, u))
  <2>1. IsFiniteSet(A) /\ Cardinality(A) \in 0..n
    BY AtFinite
  <2> QED BY <1>1, <2>1, AtFinite
<1>3. f \in Bijection(At(r, u), B)
  <2>1. At(r, u) = {i \in 1..(n - 1) : s[i + 1] = u}
    BY <1>1 DEF At
  <2>2. B = {i \in 2..n : s[i] = u}
    BY <1>1 DEF At
  <2>3. f \in [At(r, u) -> B]
    BY <1>1, <2>1, <2>2
  <2>4. \A i, j \in At(r, u) : f[i] = f[j] => i = j
    BY <1>1, <2>1
  <2>5. ASSUME NEW k \in B PROVE \E i \in At(r, u) : f[i] = k
    <3>1. k - 1 \in At(r, u) /\ f[k - 1] = k
      BY <1>1, <2>1, <2>2
    <3> QED BY <3>1
  <2> QED BY <2>3, <2>4, <2>5 DEF Bijection, Injection, Surjection, IsInjective
<1>4. Cardinality(B) = Cardinality(At(r, u))
  BY <1>2, <1>3, FS_Bijection DEF ExistsBijection
<1>5. Cardinality(B) = IF 1 \in A THEN Cardinality(A) - 1 ELSE Cardinality(A)
  BY <1>2, FS_RemoveElement
<1>6. 1 \in A <=> u = Head(s)
  BY <1>1 DEF At
<1> QED BY <1>2, <1>4, <1>5, <1>6 DEF r

\* SlidingWindow.record.
LEMMA RecordCounts ==
  ASSUME NEW w, Counting(w), NEW t \in Tools
  PROVE  Counting(WindowRecord(w, t))
<1> DEFINE full == Len(w.records) = WindowSize
           s == IF full THEN Tail(w.records) ELSE w.records
           left == IF full THEN [w.counts EXCEPT ![Head(w.records)] = @ - 1]
                   ELSE w.counts
           v == WindowRecord(w, t)
<1>1. v.records = Append(s, t) /\ v.counts = [left EXCEPT ![t] = @ + 1]
  BY DEF WindowRecord
<1>2. /\ s \in Seq(Tools) /\ Len(s) < WindowSize /\ Len(s) \in Nat
      /\ left \in [Tools -> Int]
      /\ \A u \in Tools : left[u] = Cardinality(At(s, u))
  <2>1. CASE full
    <3>1. w.records \in Seq(Tools) /\ w.records # <<>> /\ Len(w.records) \in Nat \ {0}
      BY <2>1, EmptySeq, LenProperties, ConfigAssumption DEF Counting
    <3>2. Tail(w.records) \in Seq(Tools) /\ Len(Tail(w.records)) = Len(w.records) - 1
      BY <3>1, HeadTailProperties
    <3>3. \A u \in Tools :
            Cardinality(At(Tail(w.records), u))
              = w.counts[u] - (IF u = Head(w.records) THEN 1 ELSE 0)
      BY <3>1, AtTail DEF Counting
    <3>4. /\ left \in [Tools -> Int]
          /\ \A u \in Tools :
               left[u] = w.counts[u] - (IF u = Head(w.records) THEN 1 ELSE 0)
      <4> DEFINE h == Head(w.records)
                 k == w.counts
      <4>1. left = [k EXCEPT ![h] = @ - 1] /\ k \in [Tools -> Nat]
        BY <2>1 DEF Counting
      <4> HIDE DEF h, k, left
      <4>2. left = [u \in Tools |-> IF u = h THEN k[u] - 1 ELSE k[u]]
        BY <4>1
      <4>3. \A u \in Tools : k[u] \in Int /\ k[u] - 1 \in Int
        BY <4>1
      <4>4. left \in [Tools -> Int]
        BY <4>2, <4>3
      <4>5. \A u \in Tools : left[u] = k[u] - (IF u = h THEN 1 ELSE 0)
        BY <4>2, <4>3
      <4> QED BY <4>4, <4>5 DEF h, k
    <3> QED BY <2>1, <3>1, <3>2, <3>3, <3>4
  <2>2. CASE ~full
    <3>1. w.records \in Seq(Tools) /\ Len(w.records) \in Nat /\ Len(w.records) < WindowSize
      BY <2>2, LenProperties, ConfigAssumption DEF Counting
    <3> QED BY <2>2, <3>1 DEF Counting
  <2> QED BY <2>1, <2>2
<1> HIDE DEF s, left, v
<1>3. v.records \in Seq(Tools) /\ Len(v.records) <= WindowSize
  <2>1. Append(s, t) \in Seq(Tools) /\ Len(Append(s, t)) = Len(s) + 1
    BY <1>2, AppendProperties
  <2> QED BY <1>1, <1>2, <2>1, ConfigAssumption
<1>4. /\ v.counts \in [Tools -> Int]
      /\ \A u \in Tools : v.counts[u] = left[u] + (IF u = t THEN 1 ELSE 0)
  BY <1>1, <1>2
<1>5. \A u \in Tools : v.counts[u] = Cardinality(At(v.records, u))
  <2>1. \A u \in Tools : Cardinality(At(v.records, u))
          = Cardinality(At(s, u)) + (IF u = t THEN 1 ELSE 0)
    BY <1>1, <1>2, AtAppend
  <2> QED BY <1>2, <1>4, <2>1
<1>6. \A u \in Tools : v.counts[u] \in Nat
  <2>1. \A u \in Tools : Cardinality(At(v.records, u)) \in Nat
    BY <1>3, AtFinite, LenProperties
  <2> QED BY <1>5, <2>1
<1> QED BY <1>3, <1>4, <1>5, <1>6 DEF Counting, v

\* A rate is at most 1.0, for a tool occurs no more often than there are calls.
LEMMA RateInRange ==
  ASSUME NEW w, Counting(w), NEW t \in Tools
  PROVE  WindowRate(w, t) \in 0..Unit
<1> DEFINE n == Len(w.records)
           k == w.counts[t]
<1>1. CASE w.records = <<>>
  BY <1>1, ConfigAssumption DEF WindowRate
<1>2. CASE w.records # <<>>
  <2>1. n \in Nat \ {0} /\ k \in 0..n
    BY <1>2, AtFinite, EmptySeq DEF Counting
  <2>2. WindowRate(w, t) = (k * Unit) \div n
    BY <1>2 DEF WindowRate
  <2> HIDE DEF n, k
  <2>3. Unit \in Nat /\ k * Unit \in Nat /\ k * Unit <= Unit * n
    BY <2>1, ConfigAssumption
  <2> QED BY <2>1, <2>2, <2>3, DivBound
<1> QED BY <1>1, <1>2

----------------------------------------------------------------------------
(* The steps of a call, tool by tool.                                      *)

\* The time since the last call, if the time stamp is later than that.
Waited(c, ts) == c.last # NoTime /\ ts > c.last

\* What the idle decay leaves of friction and rates.
LEMMA DecayGives ==
  ASSUME NEW c, Ranged(c), c.ema \in Levels, NEW ts \in 0..MaxTime
  PROVE  LET d == TimeDecay(c, ts)
             Left(v, t) == IF Waited(c, ts) /\ t \in DOMAIN c.friction
                           THEN Decayed(v, ts - c.last) ELSE v
         IN  /\ d.ema \in Levels
             /\ \A t : /\ Get(d.friction, t) = Left(Get(c.friction, t), t)
                       /\ Get(d.ema, t) = Left(Get(c.ema, t), t)
<1> DEFINE d == TimeDecay(c, ts)
           dt == ts - c.last
           Aged(x) == [t \in DOMAIN x |-> IF t \in DOMAIN c.friction
                         THEN Decayed(x[t], dt) ELSE x[t]]
<1>1. CASE ~Waited(c, ts)
  <2>1. c.last = NoTime \/ ts <= c.last
    BY <1>1, ConfigAssumption DEF Waited, Ranged
  <2>2. d = c
    BY <2>1 DEF TimeDecay
  <2> QED BY <1>1, <2>2
<1>2. CASE Waited(c, ts)
  <2>1. ~(c.last = NoTime \/ ts <= c.last) /\ dt \in 0..MaxTime
    BY <1>2, ConfigAssumption DEF Waited, Ranged
  <2>2. d = [c EXCEPT !.friction = Aged(@), !.ema = Aged(@)]
    BY <2>1 DEF TimeDecay
  <2>3. ASSUME NEW v \in 0..Unit
        PROVE  Decayed(v, dt) \in 0..Unit /\ Decayed(0, dt) = 0
    <3>1. Decayed(v, dt) \in 0..v /\ Decayed(0, dt) \in 0..0
      BY <2>1, <2>3, ConfigAssumption, DecayAssumption
    <3> QED BY <3>1, ConfigAssumption
  <2>4. ASSUME NEW x \in Levels
        PROVE  /\ Aged(x) \in Levels
               /\ \A t : Get(Aged(x), t) = IF t \in DOMAIN c.friction
                                           THEN Decayed(Get(x, t), dt) ELSE Get(x, t)
    <3>1. DOMAIN x \subseteq Tools /\ x \in [DOMAIN x -> 0..Unit]
      BY LevelsAre
    <3>2. Aged(x) \in [DOMAIN x -> 0..Unit]
      BY <2>3, <3>1
    <3>3. Aged(x) \in Levels
      BY <3>1, <3>2, LevelsIf
    <3>4. Decayed(0, dt) = 0
      BY <2>3, ConfigAssumption
    <3> QED BY <3>3, <3>4 DEF Get
  <2> HIDE DEF Aged
  <2>5. d.friction = Aged(c.friction) /\ d.ema = Aged(c.ema)
    BY <2>2 DEF Ranged, Fields
  <2> HIDE DEF d
  <2>6. c.friction \in Levels
    BY DEF Ranged
  <2> QED BY <1>2, <2>4, <2>5, <2>6 DEF d
<1> QED BY <1>1, <1>2

\* The smoothed rates.
LEMMA EmaGives ==
  ASSUME NEW c, DOMAIN c = Fields, DOMAIN c.config \subseteq Tools,
         c.ema \in Levels, Counting(c.window)
  PROVE  LET d == UpdateEma(c)
         IN  /\ d.ema \in Levels
             /\ \A t : Get(d.ema, t) =
                  IF t \in DOMAIN c.config
                  THEN Ema(Get(c.ema, t), WindowRate(c.window, t)) ELSE Get(c.ema, t)
<1> DEFINE D == DOMAIN c.ema \cup DOMAIN c.config
           E(t) == Ema(Get(c.ema, t), WindowRate(c.window, t))
           e == [t \in D |-> IF t \in DOMAIN c.config THEN E(t) ELSE c.ema[t]]
<1>1. UpdateEma(c) = [c EXCEPT !.ema = e]
  BY DEF UpdateEma
<1>2. DOMAIN c.ema \subseteq Tools /\ c.ema \in [DOMAIN c.ema -> 0..Unit]
  BY LevelsAre
<1>3. \A t \in DOMAIN c.config : E(t) \in 0..Unit
  <2> SUFFICES ASSUME NEW t \in DOMAIN c.config PROVE E(t) \in 0..Unit
    OBVIOUS
  <2>1. Get(c.ema, t) \in 0..Unit /\ WindowRate(c.window, t) \in 0..Unit
    BY GetLevel, RateInRange
  <2> QED BY <2>1, EmaInRange
<1> HIDE DEF E
<1>4. e \in [D -> 0..Unit] /\ D \subseteq Tools /\ DOMAIN e = D
  BY <1>2, <1>3
<1>5. e \in Levels
  BY <1>4, LevelsIf
<1>6. \A t : Get(e, t) = IF t \in DOMAIN c.config THEN E(t) ELSE Get(c.ema, t)
  BY DEF Get
<1> HIDE DEF e
<1>7. UpdateEma(c).ema = e
  BY <1>1 DEF Fields
<1> QED BY <1>5, <1>6, <1>7 DEF E

\* The friction of a tool that is off its target by e.
Steered(f, e) ==
  IF e < DeadZone /\ -e < DeadZone THEN f ELSE Clamp(f + Correction(e))

\* Steering, tool by tool: a configured tool's friction is steered by how far
\* its rate is off its effective target, any other tool's stays.
LEMMA SteerGives ==
  ASSUME NEW c, Ranged(c)
  PROVE  \A t : Get(Steer(c).friction, t) =
           IF t \in DOMAIN c.config
           THEN Steered(Get(c.friction, t), Get(c.ema, t) - EffectiveTarget(c, t))
           ELSE Get(c.friction, t)
<1> DEFINE Error(t) == Get(c.ema, t) - EffectiveTarget(c, t)
           P(t) == Clamp(Get(c.friction, t) + Correction(Error(t)))
           S == {t \in DOMAIN c.config : ~(Error(t) < DeadZone /\ -Error(t) < DeadZone)}
           f == [t \in DOMAIN c.friction \cup S |-> IF t \in S THEN P(t) ELSE c.friction[t]]
<1>1. Steer(c) = [c EXCEPT !.friction = f]
  BY DEF Steer
<1>2. DOMAIN c = Fields /\ DOMAIN c.config \subseteq DOMAIN c.friction
  BY DEF Ranged
<1>3. \A t \in S : Get(f, t) = P(t)
  BY DEF Get
<1>4. \A t : t \notin S => Get(f, t) = Get(c.friction, t)
  BY DEF Get
<1> HIDE DEF f
<1>5. Steer(c).friction = f
  BY <1>1, <1>2 DEF Fields
<1> QED BY <1>3, <1>4, <1>5 DEF Steered

\* A correction rises with the error, and has its sign.
LEMMA CorrectionMonotone ==
  ASSUME NEW e \in Int, NEW h \in Int, e <= h
  PROVE  /\ Correction(e) \in Int /\ Correction(h) \in Int
         /\ Correction(e) <= Correction(h)
         /\ (e < 0 => Correction(e) <= 0) /\ (h >= 0 => Correction(h) >= 0)
<1> DEFINE s == Scale(AdjustmentRate, e)
           r == Scale(AdjustmentRate, h)
<1>1. Unit \in Nat \ {0} /\ AdjustmentRate \in Nat /\ AsymmetricDecay \in Nat
  BY ConfigAssumption
<1>2. s \in Int /\ r \in Int /\ s <= r
  <2>1. /\ AdjustmentRate * e \in Int /\ AdjustmentRate * h \in Int
        /\ AdjustmentRate * e <= AdjustmentRate * h
    BY <1>1, TimesMonotone
  <2> QED BY <1>1, <2>1, DivMonotone DEF Scale
<1>3. e < 0 => s <= 0
  <2>1. e < 0 => AdjustmentRate * e \in Int /\ AdjustmentRate * e <= AdjustmentRate * 0
    BY <1>1, TimesMonotone
  <2>2. AdjustmentRate * 0 = 0 /\ 0 \div Unit = 0
    BY <1>1
  <2>3. e < 0 => (AdjustmentRate * e) \div Unit <= 0 \div Unit
    BY <1>1, <2>1, <2>2, DivMonotone
  <2> QED BY <2>2, <2>3 DEF Scale
<1>4. h >= 0 => r >= 0
  <2>1. h >= 0 => AdjustmentRate * h \in Nat
    BY <1>1
  <2> QED BY <1>1, <2>1 DEF Scale
<1>5. /\ Correction(e) = IF e < 0 THEN AsymmetricDecay * s ELSE s
      /\ Correction(h) = IF h < 0 THEN AsymmetricDecay * r ELSE r
  BY DEF Correction
<1> HIDE DEF s, r
<1>6. /\ AsymmetricDecay * s \in Int /\ AsymmetricDecay * r \in Int
      /\ AsymmetricDecay * s <= AsymmetricDecay * r
      /\ s <= 0 => AsymmetricDecay * s <= AsymmetricDecay * 0
  BY <1>1, <1>2, TimesMonotone
<1>7. AsymmetricDecay * 0 = 0
  BY <1>1
<1> QED BY <1>2, <1>3, <1>4, <1>5, <1>6, <1>7

\* Less friction and a smaller error leave less friction.
LEMMA SteeredMonotone ==
  ASSUME NEW f \in 0..Unit, NEW g \in 0..Unit, f <= g,
         NEW e \in Int, NEW h \in Int, e <= h
  PROVE  Steered(f, e) <= Steered(g, h)
<1> DEFINE a == Correction(e)
           b == Correction(h)
<1>1. /\ a \in Int /\ b \in Int /\ a <= b
      /\ (e < 0 => a <= 0) /\ (h >= 0 => b >= 0)
  BY CorrectionMonotone
<1>2. DeadZone \in Nat /\ Unit \in Nat
  BY ConfigAssumption
<1> HIDE DEF a, b
<1>3. Clamp(f + a) <= Clamp(g + b)
  BY <1>1, <1>2, ClampMonotone
<1>4. Clamp(f) = f /\ Clamp(g) = g
  BY <1>2 DEF Clamp
<1>5. a <= 0 => Clamp(f + a) <= g
  <2>1. a <= 0 => f + a <= g
    BY <1>1, <1>2
  <2> QED BY <1>1, <1>2, <1>4, <2>1, ClampMonotone
<1>6. b >= 0 => f <= Clamp(g + b)
  <2>1. b >= 0 => f <= g + b
    BY <1>1, <1>2
  <2> QED BY <1>1, <1>2, <1>4, <2>1, ClampMonotone
<1>7. Steered(f, e) = IF e < DeadZone /\ -e < DeadZone THEN f ELSE Clamp(f + a)
  BY DEF Steered, a
<1>8. Steered(g, h) = IF h < DeadZone /\ -h < DeadZone THEN g ELSE Clamp(g + b)
  BY DEF Steered, b
<1> QED BY <1>1, <1>2, <1>3, <1>5, <1>6, <1>7, <1>8

\* What a recorded call needs of the controller it is recorded in.
Steerable(c) ==
  /\ Ranged(c) /\ c.ema \in Levels /\ c.target \in Levels
  /\ \A t \in DOMAIN c.config : c.config[t].target \in 0..Unit

\* A tool is steered by a target in range.
LEMMA TargetInRange ==
  ASSUME NEW c, Steerable(c), NEW t \in DOMAIN c.config
  PROVE  EffectiveTarget(c, t) \in 0..Unit
BY LevelsAre DEF Steerable, EffectiveTarget

----------------------------------------------------------------------------
(* The groups.  Their rates and pushes are sums over a set: what a sum is  *)
(* follows from its parts by taking a smallest subset for which it does    *)
(* not.                                                                    *)

\* The element that MapThenSumSet takes out of s.
First(s) == CHOOSE x \in s : TRUE

\* The sum of v over the subsets of S, as MapThenSumSet unfolds it: what it
\* makes of f.
Unfold(v, S, f) ==
  [s \in SUBSET S |->
     IF s = {} THEN 0
     ELSE v[First(s)] + f[s \ {First(s)}]]

\* f gives that sum.
Sums(v, S, f) == f = Unfold(v, S, f)

\* Of some subsets of a finite set one has no other below it.
LEMMA Smallest ==
  ASSUME NEW S, IsFiniteSet(S), NEW T \in SUBSET (SUBSET S), T # {}
  PROVE  \E s \in T : \A u \in T : ~(u \subseteq s /\ u # s)
<1> DEFINE R == StrictSubsetOrdering(S)
<1>1. IsWellFoundedOn(R, SUBSET S)
  BY FS_StrictSubsetOrderingWellFounded, FS_FiniteSubsetsOfFinite
<1> HIDE DEF R
<1>2. PICK s \in T : \A u \in T : ~(<<u, s>> \in R)
  BY <1>1, WFMin
<1>3. ASSUME NEW u \in T, u \subseteq s, u # s
      PROVE  <<u, s>> \in R
  <2>1. u \in SUBSET S /\ s \in SUBSET S
    OBVIOUS
  <2>2. <<u, s>> \in (SUBSET S) \X (SUBSET S)
    BY <2>1
  <2> QED BY <1>3, <2>2 DEF R, StrictSubsetOrdering
<1>4. \A u \in T : ~(u \subseteq s /\ u # s)
  BY <1>2, <1>3
<1> QED BY <1>4

\* Where an unfolding is defined.
LEMMA UnfoldAt ==
  ASSUME NEW v, NEW S, NEW f, Sums(v, S, f), NEW s \in SUBSET S
  PROVE  /\ s = {} => f[s] = 0
         /\ s # {} => First(s) \in s /\ f[s] = v[First(s)] + f[s \ {First(s)}]
<1>1. f[s] = IF s = {} THEN 0 ELSE v[First(s)] + f[s \ {First(s)}]
  BY DEF Sums, Unfold
<1>2. s # {} => First(s) \in s
  BY DEF First
<1> QED BY <1>1, <1>2

\* Two sums agree where both are defined.
LEMMA SumsAgree ==
  ASSUME NEW v, NEW S, NEW R, IsFiniteSet(S), S \subseteq R,
         NEW f, Sums(v, S, f), NEW g, Sums(v, R, g)
  PROVE  \A s \in SUBSET S : f[s] = g[s]
<1> DEFINE T == {s \in SUBSET S : f[s] # g[s]}
<1>0. T \in SUBSET (SUBSET S)
  OBVIOUS
<1> SUFFICES ASSUME T # {} PROVE FALSE
  OBVIOUS
<1> HIDE DEF T
<1>1. PICK s \in T : \A u \in T : ~(u \subseteq s /\ u # s)
  BY <1>0, Smallest
<1> USE DEF T
<1>2. s \in SUBSET S /\ s \in SUBSET R
  OBVIOUS
<1>3. CASE s = {}
  BY <1>2, <1>3, UnfoldAt
<1>4. CASE s # {}
  <2> DEFINE x == First(s)
  <2>1. x \in s /\ f[s] = v[x] + f[s \ {x}]
    BY <1>2, <1>4, UnfoldAt
  <2>2. g[s] = v[x] + g[s \ {x}]
    BY <1>2, <1>4, UnfoldAt
  <2> HIDE DEF x
  <2>3. f[s \ {x}] = g[s \ {x}]
    BY <1>1, <1>2, <2>1
  <2> QED BY <2>1, <2>2, <2>3
<1> QED BY <1>3, <1>4

\* Every finite set has its sums.
LEMMA SumsExist ==
  ASSUME NEW v, NEW S, IsFiniteSet(S)
  PROVE  \E f : Sums(v, S, f)
<1> DEFINE T == {s \in SUBSET S : ~\E f : Sums(v, s, f)}
<1>0. T \in SUBSET (SUBSET S)
  OBVIOUS
<1>1. SUFFICES ASSUME T # {} PROVE FALSE
  OBVIOUS
<1> HIDE DEF T
<1>2. PICK s \in T : \A u \in T : ~(u \subseteq s /\ u # s)
  BY <1>0, <1>1, Smallest
<1> USE DEF T
<1> DEFINE g(u) == CHOOSE f : Sums(v, u, f)
           x == First(s)
           f == [u \in SUBSET s |->
                   IF u # s THEN g(u)[u]
                   ELSE IF s = {} THEN 0
                   ELSE v[x] + g(s \ {x})[s \ {x}]]
<1>3. ASSUME NEW u, u \subseteq s, u # s PROVE Sums(v, u, g(u)) /\ IsFiniteSet(u)
  <2>1. u \in SUBSET S /\ u \notin T
    BY <1>2, <1>3
  <2>2. \E h : Sums(v, u, h)
    BY <2>1
  <2> QED BY <2>1, <2>2, FS_Subset
<1> HIDE DEF g, T
<1>4. ASSUME NEW u \in SUBSET s
      PROVE  f[u] = IF u = {} THEN 0
                    ELSE v[First(u)] + f[u \ {First(u)}]
  <2> DEFINE z == First(u)
  <2>1. CASE u = {}
    <3>1. CASE u = s
      BY <2>1, <3>1
    <3>2. CASE u # s
      <4>1. Sums(v, u, g(u))
        BY <1>3, <3>2
      <4>2. g(u)[u] = 0
        BY <2>1, <4>1, UnfoldAt
      <4> QED BY <2>1, <3>2, <4>2
    <3> QED BY <3>1, <3>2
  <2>2. CASE u # {}
    <3>1. z \in u
      BY <2>2 DEF First
    <3>2. u \ {z} \in SUBSET s /\ u \ {z} # s /\ u \ {z} \subseteq s
      BY <3>1
    <3>3. f[u \ {z}] = g(u \ {z})[u \ {z}]
      BY <3>2
    <3>4. CASE u = s
      <4>1. f[u] = v[z] + g(u \ {z})[u \ {z}]
        BY <2>2, <3>4
      <4> QED BY <2>2, <3>3, <4>1
    <3>5. CASE u # s
      <4>1. Sums(v, u, g(u)) /\ Sums(v, u \ {z}, g(u \ {z})) /\ IsFiniteSet(u \ {z})
        BY <1>3, <3>2, <3>5
      <4>2. g(u)[u] = v[z] + g(u)[u \ {z}]
        BY <2>2, <4>1, UnfoldAt
      <4>3. g(u \ {z})[u \ {z}] = g(u)[u \ {z}]
        BY <4>1, SumsAgree
      <4>4. f[u] = g(u)[u]
        BY <3>5
      <4> HIDE DEF f, z
      <4>5. f[u] = v[z] + f[u \ {z}]
        BY <3>3, <4>2, <4>3, <4>4
      <4> QED BY <2>2, <4>5 DEF z
    <3> QED BY <3>4, <3>5
  <2> QED BY <2>1, <2>2
<1>5. f = [u \in SUBSET s |-> f[u]]
  OBVIOUS
<1> HIDE DEF f
<1>6. Sums(v, s, f)
  BY <1>4, <1>5 DEF Sums, Unfold
<1> QED BY <1>2, <1>6 DEF T

\* The sum of naturals is one, and is zero if they all are.
LEMMA SumsOfNaturals ==
  ASSUME NEW v, NEW S, IsFiniteSet(S), NEW f, Sums(v, S, f),
         \A x \in S : v[x] \in Nat
  PROVE  f[S] \in Nat /\ ((\A x \in S : v[x] = 0) => f[S] = 0)
<1> DEFINE Good(s) == f[s] \in Nat /\ ((\A x \in S : v[x] = 0) => f[s] = 0)
           T == {s \in SUBSET S : ~Good(s)}
<1>0. T \in SUBSET (SUBSET S)
  OBVIOUS
<1> SUFFICES ASSUME T # {} PROVE FALSE
  OBVIOUS
<1> HIDE DEF T
<1>1. PICK s \in T : \A u \in T : ~(u \subseteq s /\ u # s)
  BY <1>0, Smallest
<1> USE DEF T
<1>2. s \in SUBSET S
  OBVIOUS
<1>3. ~Good(s)
  OBVIOUS
<1> HIDE DEF T, Good
<1>4. CASE s = {}
  <2>1. f[s] = 0
    BY <1>2, <1>4, UnfoldAt
  <2> QED BY <1>3, <2>1 DEF Good
<1>5. CASE s # {}
  <2> DEFINE x == First(s)
  <2>1. x \in s /\ f[s] = v[x] + f[s \ {x}]
    BY <1>2, <1>5, UnfoldAt
  <2> HIDE DEF x
  <2>2. s \ {x} \in SUBSET S /\ s \ {x} \subseteq s /\ s \ {x} # s
    BY <1>2, <2>1
  <2>3. Good(s \ {x}) /\ v[x] \in Nat
    BY <1>1, <1>2, <2>1, <2>2 DEF T
  <2> QED BY <1>2, <1>3, <2>1, <2>3 DEF Good
<1> QED BY <1>4, <1>5

\* The rate of a group is a natural number, and is zero if no tool has one.
LEMMA RateOfGroup ==
  ASSUME NEW c, \A t : Get(c.ema, t) \in Nat, NEW gc, IsFiniteSet(gc.tools)
  PROVE  /\ AggregateRate(c, gc) \in Nat
         /\ (\A t \in gc.tools : Get(c.ema, t) = 0) => AggregateRate(c, gc) = 0
<1> DEFINE S == gc.tools
           v == [x \in S |-> Get(c.ema, x)]
           Sum(f) == [s \in SUBSET S |-> IF s = {} THEN 0
                        ELSE Get(c.ema, First(s)) + f[s \ {First(s)}]]
           Good(f) == f[S] \in Nat
                        /\ ((\A t \in S : Get(c.ema, t) = 0) => f[S] = 0)
<1>1. ASSUME NEW f PROVE Sum(f) = Unfold(v, S, f)
  <2>1. ASSUME NEW s \in SUBSET S, s # {}
        PROVE  v[First(s)] = Get(c.ema, First(s))
    <3>1. First(s) \in s
      BY <2>1 DEF First
    <3> QED BY <3>1
  <2> HIDE DEF v
  <2> QED BY <2>1 DEF Unfold
<1>2. \E f : f = Sum(f)
  <2>1. PICK f : Sums(v, S, f)
    BY SumsExist
  <2> QED BY <1>1, <2>1 DEF Sums
<1>3. ASSUME NEW f, f = Sum(f) PROVE Good(f)
  <2>1. Sums(v, S, f)
    BY <1>1, <1>3 DEF Sums
  <2>2. \A x \in S : v[x] = Get(c.ema, x)
    OBVIOUS
  <2> HIDE DEF v, Sum
  <2> QED BY <2>1, <2>2, SumsOfNaturals
<1> QED BY <1>2, <1>3 DEF AggregateRate, MapThenSumSet, MapThenFoldSet, First

\* Where no group pushes a tool, their sum does not.
LEMMA PushOfGroups ==
  ASSUME NEW c, NEW t, IsFiniteSet(DOMAIN c.groups),
         \A g \in DOMAIN c.groups : GroupPush(c, g, t) = 0
  PROVE  PushOn(c, t) = 0
<1> DEFINE S == DOMAIN c.groups
           v == [g \in S |-> GroupPush(c, g, t)]
           Sum(f) == [s \in SUBSET S |-> IF s = {} THEN 0
                        ELSE GroupPush(c, First(s), t) + f[s \ {First(s)}]]
<1>1. ASSUME NEW f PROVE Sum(f) = Unfold(v, S, f)
  <2>1. ASSUME NEW s \in SUBSET S, s # {}
        PROVE  v[First(s)] = GroupPush(c, First(s), t)
    <3>1. First(s) \in s
      BY <2>1 DEF First
    <3> QED BY <3>1
  <2> HIDE DEF v
  <2> QED BY <2>1 DEF Unfold
<1>2. \E f : f = Sum(f)
  <2>1. PICK f : Sums(v, S, f)
    BY SumsExist
  <2> QED BY <1>1, <2>1 DEF Sums
<1>3. ASSUME NEW f, f = Sum(f) PROVE f[S] = 0
  <2>1. Sums(v, S, f)
    BY <1>1, <1>3 DEF Sums
  <2>2. \A x \in S : v[x] = 0
    OBVIOUS
  <2> HIDE DEF v, Sum
  <2> QED BY <2>1, <2>2, SumsOfNaturals
<1> QED BY <1>2, <1>3 DEF PushOn, MapThenSumSet, MapThenFoldSet, First

\* A controller whose groups are configured with known tools and with numbers,
\* and smoothed rates that are natural numbers.
Grouped(c) ==
  /\ IsFiniteSet(DOMAIN c.groups)
  /\ \A g \in DOMAIN c.groups :
       /\ c.groups[g].tools \subseteq Tools
       /\ c.groups[g].target \in Int /\ c.groups[g].weight \in Int
  /\ DOMAIN c.groups \subseteq DOMAIN c.groupEma
  /\ c.groupEma \in [DOMAIN c.groupEma -> Nat]

\* What AggregatePressure starts with: the groups' rates, smoothed.
Smoothed(c) ==
  [c EXCEPT !.groupEma = [g \in DOMAIN @ \cup DOMAIN c.groups |->
     IF g \in DOMAIN c.groups
       THEN Ema(Get(@, g), AggregateRate(c, c.groups[g])) ELSE @[g]]]

\* A smoothed natural number is one.
LEMMA EmaNatural ==
  ASSUME NEW old \in Nat, NEW new \in Nat
  PROVE  Ema(old, new) \in Nat
<1>1. Unit \in Nat \ {0} /\ Alpha \in Nat /\ Unit - Alpha \in Nat
  BY ConfigAssumption
<1>2. Alpha * new \in Nat /\ (Unit - Alpha) * old \in Nat
  BY <1>1
<1> QED BY <1>1, <1>2 DEF Ema

\* Only the rates of tools count.
LEMMA RateFrom ==
  ASSUME NEW c, NEW d, c.ema = d.ema, NEW gc
  PROVE  AggregateRate(c, gc) = AggregateRate(d, gc)
<1> DEFINE R(m) == MapThenSumSet(LAMBDA t : Get(m, t), gc.tools)
<1>1. AggregateRate(c, gc) = R(c.ema) /\ AggregateRate(d, gc) = R(d.ema)
  BY DEF AggregateRate
<1> HIDE DEF R
<1> QED BY <1>1

\* Only the groups' rates are smoothed, to numbers again.
LEMMA SmoothedKeeps ==
  ASSUME NEW c, DOMAIN c = Fields, c.ema \in Levels, Grouped(c)
  PROVE  /\ Differs(c, Smoothed(c), {"groupEma"}) /\ Grouped(Smoothed(c))
         /\ \A g : Get(Smoothed(c).groupEma, g) =
              IF g \in DOMAIN c.groups
              THEN Ema(Get(c.groupEma, g), AggregateRate(c, c.groups[g]))
              ELSE Get(c.groupEma, g)
<1> DEFINE N(g) == Ema(Get(c.groupEma, g), AggregateRate(c, c.groups[g]))
           m == [g \in DOMAIN c.groupEma \cup DOMAIN c.groups |->
                   IF g \in DOMAIN c.groups THEN N(g) ELSE c.groupEma[g]]
<1>1. Smoothed(c) = [c EXCEPT !.groupEma = m]
  BY DEF Smoothed
<1>2. \A t : Get(c.ema, t) \in Nat
  BY GetLevel, ConfigAssumption
<1>3. ASSUME NEW g \in DOMAIN c.groups PROVE N(g) \in Nat
  <2>1. IsFiniteSet(c.groups[g].tools)
    BY FS_Subset, ConfigAssumption DEF Grouped
  <2>2. AggregateRate(c, c.groups[g]) \in Nat /\ Get(c.groupEma, g) \in Nat
    BY <1>2, <2>1, RateOfGroup DEF Grouped, Get
  <2> QED BY <2>2, EmaNatural
<1> HIDE DEF N
<1>4. \A g : Get(m, g) = IF g \in DOMAIN c.groups THEN N(g) ELSE Get(c.groupEma, g)
  BY DEF Get
<1>5. DOMAIN c.groups \subseteq DOMAIN m /\ m \in [DOMAIN m -> Nat]
  BY <1>3 DEF Grouped
<1> HIDE DEF m
<1>6. Differs(c, Smoothed(c), {"groupEma"}) /\ Smoothed(c).groupEma = m
  BY <1>1 DEF Differs, Fields
<1>7. Smoothed(c).groups = c.groups
  BY <1>6 DEF Differs, Fields
<1>8. Smoothed(c).groupEma \in [DOMAIN m -> Nat]
  BY <1>6, <1>5
<1>9. Grouped(Smoothed(c))
  BY <1>6, <1>7, <1>8, <1>5 DEF Grouped
<1> QED BY <1>4, <1>6, <1>9 DEF N

\* The pressure, tool by tool.
LEMMA PressureGives ==
  ASSUME NEW c, Ranged(c), c.ema \in Levels, Grouped(c)
  PROVE  LET d == AggregatePressure(c)
             e == Smoothed(c)
         IN  /\ d.groupEma = e.groupEma
             /\ \A t : Get(d.friction, t) =
                  IF t \in DOMAIN c.config /\ PushOn(e, t) > 0
                  THEN Clamp(Get(c.friction, t) + PushOn(e, t))
                  ELSE Get(c.friction, t)
<1> DEFINE e == Smoothed(c)
           S == {t \in DOMAIN c.config : PushOn(e, t) > 0}
           f == [t \in DOMAIN e.friction \cup S |->
                   IF t \in S THEN Clamp(Get(c.friction, t) + PushOn(e, t))
                   ELSE e.friction[t]]
<1>1. AggregatePressure(c) = [e EXCEPT !.friction = f]
  BY DEF AggregatePressure, Smoothed
<1>2. DOMAIN e = Fields /\ e.friction = c.friction
  BY SmoothedKeeps DEF Ranged, Differs, Fields
<1> HIDE DEF e
<1>3. \A t : Get(f, t) = IF t \in S THEN Clamp(Get(c.friction, t) + PushOn(e, t))
                         ELSE Get(c.friction, t)
  BY <1>2 DEF Get
<1> HIDE DEF f
<1>4. AggregatePressure(c).friction = f /\ AggregatePressure(c).groupEma = e.groupEma
  BY <1>1, <1>2 DEF Fields
<1> QED BY <1>3, <1>4 DEF e

\* A group pushes no tool that makes no part of its rate, unless it has none.
LEMMA NoPushOnCold ==
  ASSUME NEW c, c.ema \in Levels, Grouped(c), NEW g \in DOMAIN c.groups, NEW t,
         Get(c.ema, t) = 0,
         t \in c.groups[g].tools => AggregateRate(c, c.groups[g]) > 0
  PROVE  GroupPush(c, g, t) = 0
<1> DEFINE gc == c.groups[g]
           rate == AggregateRate(c, gc)
           error == c.groupEma[g] - gc.target
           weighted == AdjustmentRate * error * gc.weight
<1>1. CASE t \notin gc.tools \/ error <= DeadZone
  BY <1>1 DEF GroupPush
<1>2. CASE ~(t \notin gc.tools \/ error <= DeadZone)
  <2>1. GroupPush(c, g, t) = (weighted * Get(c.ema, t)) \div (rate * Unit * Unit)
    BY <1>2 DEF GroupPush
  <2>2. rate \in Nat /\ rate > 0
    <3>1. \A u : Get(c.ema, u) \in Nat
      BY GetLevel, ConfigAssumption
    <3>2. IsFiniteSet(gc.tools)
      BY FS_Subset, ConfigAssumption DEF Grouped
    <3> QED BY <1>2, <3>1, <3>2, RateOfGroup
  <2>3. weighted \in Int
    <3>1. Get(c.groupEma, g) = c.groupEma[g]
      BY DEF Grouped, Get
    <3>2. c.groupEma[g] \in Nat /\ gc.target \in Int /\ gc.weight \in Int
      BY <3>1 DEF Grouped
    <3> QED BY <3>2, ConfigAssumption
  <2> HIDE DEF weighted, rate
  <2>4. rate * Unit * Unit \in Nat \ {0}
    BY <2>2, ConfigAssumption
  <2>5. weighted * 0 = 0 /\ 0 \div (rate * Unit * Unit) = 0
    BY <2>3, <2>4
  <2> QED BY <2>1, <2>5
<1> QED BY <1>1, <1>2

\* So a tool without a rate keeps its friction under the pressure.
LEMMA ColdKept ==
  ASSUME NEW c, Ranged(c), c.ema \in Levels, Grouped(c), NEW t, Get(c.ema, t) = 0,
         \A g \in DOMAIN c.groups : t \in c.groups[g].tools =>
           AggregateRate(c, c.groups[g]) > 0
  PROVE  Get(AggregatePressure(c).friction, t) = Get(c.friction, t)
<1> DEFINE e == Smoothed(c)
<1>1. Differs(c, e, {"groupEma"}) /\ Grouped(e)
  BY SmoothedKeeps DEF Ranged
<1> HIDE DEF e
<1>2. e.ema = c.ema /\ e.groups = c.groups
  BY <1>1 DEF Differs, Fields
<1>3. \A g \in DOMAIN e.groups : GroupPush(e, g, t) = 0
  BY <1>1, <1>2, RateFrom, NoPushOnCold
<1>4. PushOn(e, t) = 0
  BY <1>1, <1>3, PushOfGroups DEF Grouped
<1> QED BY <1>4, PressureGives DEF e

\* Within the dead zone or below its target, a tool's friction does not rise.
LEMMA SteeredDown ==
  ASSUME NEW f \in 0..Unit, NEW e \in Int, e <= 0 \/ e < DeadZone
  PROVE  Steered(f, e) <= f
<1>1. CASE e <= 0
  <2>1. Steered(f, e) <= Steered(f, 0)
    BY <1>1, SteeredMonotone, ConfigAssumption
  <2>2. Correction(0) = 0
    <3>1. AdjustmentRate * 0 = 0 /\ 0 \div Unit = 0
      BY ConfigAssumption
    <3> QED BY <3>1 DEF Correction, Scale
  <2>3. Clamp(f + 0) = f
    BY ConfigAssumption DEF Clamp
  <2>4. Steered(f, 0) = f
    BY <2>2, <2>3 DEF Steered
  <2> QED BY <2>1, <2>4
<1>2. CASE ~(e <= 0)
  <2>1. e < DeadZone /\ -e < DeadZone
    BY <1>2, ConfigAssumption
  <2> QED BY <2>1 DEF Steered
<1> QED BY <1>1, <1>2

\* The rate m of a tool is not over its target, or is within the dead zone.
Moderate(c, u, m) ==
  u \in DOMAIN c.config =>
    \/ m - EffectiveTarget(c, u) <= 0
    \/ m - EffectiveTarget(c, u) < DeadZone

\* A recorded call up to the pressure of the groups, for a tool that it leaves
\* with a moderate rate, or with none.
LEMMA CallSteersDown ==
  ASSUME NEW c, Steerable(c), Counting(c.window), NEW t \in Tools,
         NEW ts \in 0..MaxTime, NEW u
  PROVE  LET b == Counted(c, t, ts)
             e == UpdateEma(b)
             z == DetectSaturation(Steer(e))
         IN  /\ Ranged(z) /\ z.ema = e.ema /\ e.ema \in Levels
             /\ z.groups = c.groups /\ z.groupEma = c.groupEma
             /\ Differs(b, e, {"ema"})
             /\ Get(b.friction, u) <= Get(c.friction, u)
             /\ Get(e.ema, u) = 0 => Get(z.friction, u) <= Get(c.friction, u)
             /\ Moderate(c, u, Get(e.ema, u)) =>
                  Get(z.friction, u) <= Get(c.friction, u)
<1> DEFINE a == TimeDecay(c, ts)
           b == CountCall(a, t)
           e == UpdateEma(b)
           s == Steer(e)
           z == DetectSaturation(s)
<1>1. Ranged(c) /\ DOMAIN c = Fields /\ c.ema \in Levels
  BY DEF Steerable, Ranged
<1>2. /\ Differs(c, a, {"friction", "ema"}) /\ Ranged(a) /\ a.ema \in Levels
      /\ Get(a.friction, u) <= Get(c.friction, u)
  BY <1>1, TimeDecayDiffers, TimeDecayRanged, DecayGives DEF KeepsRange
<1> HIDE DEF a
<1>3. /\ Differs(a, b, {"window", "total"}) /\ Ranged(b)
      /\ b.window = WindowRecord(a.window, t)
  BY <1>2, CountCallDiffers, SameRanged DEF KeepsRange, Ranged
<1> HIDE DEF b
<1>4. /\ b.ema \in Levels /\ b.friction = a.friction /\ Counting(b.window)
      /\ b.groups = c.groups /\ b.groupEma = c.groupEma
      /\ b.config = c.config /\ b.target = c.target
  <2>1. a.window = c.window
    BY <1>2 DEF Differs, Fields
  <2>2. Counting(b.window)
    BY <1>3, <2>1, RecordCounts
  <2> QED BY <1>2, <1>3, <2>2 DEF Differs, Fields
<1>5. Differs(b, e, {"ema"}) /\ Ranged(e) /\ e.ema \in Levels
  BY <1>3, <1>4, UpdateEmaDiffers, SameRanged, EmaGives DEF KeepsRange, Ranged
<1> HIDE DEF e
<1>6. /\ e.friction = a.friction /\ e.groups = c.groups /\ e.groupEma = c.groupEma
      /\ e.config = c.config /\ e.target = c.target
  BY <1>4, <1>5 DEF Differs, Fields
<1>7. Steerable(e)
  BY <1>5, <1>6 DEF Steerable
<1>8. Differs(e, s, {"friction"}) /\ Ranged(s)
  BY <1>5, SteerDiffers, SteerRanged DEF KeepsRange, Ranged
<1>9. Moderate(c, u, Get(e.ema, u)) => Get(s.friction, u) <= Get(c.friction, u)
  <2>1. Get(e.friction, u) <= Get(c.friction, u)
    BY <1>2, <1>6
  <2>2. Get(e.friction, u) \in 0..Unit /\ Get(c.friction, u) \in 0..Unit
    BY <1>1, <1>5, GetLevel DEF Ranged
  <2>3. ASSUME u \in DOMAIN e.config, Moderate(c, u, Get(e.ema, u))
        PROVE  Get(s.friction, u) <= Get(e.friction, u)
    <3> DEFINE error == Get(e.ema, u) - EffectiveTarget(e, u)
    <3>1. EffectiveTarget(c, u) = EffectiveTarget(e, u)
      BY <1>6 DEF EffectiveTarget
    <3>2. error \in Int
      BY <1>5, <1>7, <2>3, TargetInRange, GetLevel, ConfigAssumption
    <3>3. error <= 0 \/ error < DeadZone
      BY <1>6, <2>3, <3>1 DEF Moderate
    <3>4. Get(s.friction, u) = Steered(Get(e.friction, u), error)
      BY <1>5, <2>3, SteerGives
    <3> HIDE DEF error
    <3> QED BY <2>2, <3>2, <3>3, <3>4, SteeredDown
  <2>4. u \notin DOMAIN e.config => Get(s.friction, u) = Get(e.friction, u)
    BY <1>5, SteerGives
  <2>5. u \in DOMAIN e.config /\ Moderate(c, u, Get(e.ema, u)) =>
          Get(s.friction, u) \in 0..Unit /\ Get(s.friction, u) <= Get(e.friction, u)
    BY <1>8, <2>3, GetLevel DEF Ranged
  <2> QED BY <2>1, <2>2, <2>4, <2>5, ConfigAssumption
<1>10. Get(e.ema, u) = 0 => Moderate(c, u, Get(e.ema, u))
  <2>1. u \in DOMAIN c.config => EffectiveTarget(c, u) \in 0..Unit
    BY TargetInRange
  <2> QED BY <2>1, ConfigAssumption DEF Moderate
<1> HIDE DEF s
<1>11. Differs(s, z, {"satCount", "target", "pending", "saturated"}) /\ Ranged(z)
  BY <1>8, DetectDiffers, SameRanged DEF KeepsRange, Ranged
<1> HIDE DEF z
<1>12. /\ z.friction = s.friction /\ z.ema = e.ema
       /\ z.groups = c.groups /\ z.groupEma = c.groupEma
  BY <1>6, <1>8, <1>11 DEF Differs, Fields
<1> QED BY <1>2, <1>4, <1>5, <1>9, <1>11, <1>12, <1>10 DEF a, b, e, s, z, Counted

\* A recorded call keeps the groups as they are configured.
LEMMA CallGrouped ==
  ASSUME NEW c, Steerable(c), Counting(c.window), Grouped(c), NEW t \in Tools,
         NEW ts \in 0..MaxTime,
         NEW d \in {RecordCall(c, t, ts), RecordUnconfigured(c, t, ts)}
  PROVE  Grouped(d) /\ d.groups = c.groups
<1> DEFINE b == Counted(c, t, ts)
           e == UpdateEma(b)
           z == DetectSaturation(Steer(e))
           p == AggregatePressure(z)
           x == AdjustFriction(b)
<1>1. /\ Ranged(z) /\ z.ema \in Levels /\ z.groups = c.groups /\ z.groupEma = c.groupEma
      /\ Differs(b, e, {"ema"})
  BY CallSteersDown
<1>2. DOMAIN c = Fields
  BY DEF Steerable, Ranged
<1>3. Differs(x, d, {"budget", "last"}) /\ Differs(c, x, Adjusted \cup {"window", "total"})
  BY <1>2, RecordDiffers DEF Differs
<1>4. x = IF b.total < Warmup THEN e ELSE p
  BY DEF AdjustFriction
<1>5. Differs(c, b, {"friction", "ema", "window", "total"})
  <2>1. Differs(c, TimeDecay(c, ts), {"friction", "ema"})
    BY <1>2, TimeDecayDiffers
  <2>2. Differs(TimeDecay(c, ts), b, {"window", "total"})
    BY <2>1, CountCallDiffers DEF Counted, Differs
  <2> HIDE DEF b
  <2> QED BY <2>1, <2>2 DEF Differs
<1> HIDE DEF b, e, z, x
<1>6. Grouped(z)
  BY <1>1 DEF Grouped
<1>7. p.groupEma = Smoothed(z).groupEma /\ Grouped(Smoothed(z))
      /\ Smoothed(z).groups = z.groups
  <2>1. Differs(z, Smoothed(z), {"groupEma"}) /\ Grouped(Smoothed(z))
    BY <1>1, <1>6, SmoothedKeeps DEF Ranged
  <2>2. Smoothed(z).groups = z.groups
    BY <2>1 DEF Differs, Fields
  <2> QED BY <1>1, <1>6, <2>1, <2>2, PressureGives
<1>8. d.groups = c.groups /\ d.groupEma = x.groupEma
  BY <1>3 DEF Differs, Fields, Adjusted
<1>9. x.groupEma \in {c.groupEma, Smoothed(z).groupEma}
  BY <1>1, <1>4, <1>5, <1>7 DEF Differs, Fields
<1>10. x.groupEma = c.groupEma => Grouped(d)
  BY <1>8 DEF Grouped
<1>11. x.groupEma = Smoothed(z).groupEma => Grouped(d)
  BY <1>1, <1>7, <1>8 DEF Grouped
<1> QED BY <1>8, <1>9, <1>10, <1>11

\* A recorded call that leaves a tool without a rate, but each of its groups
\* with one, does not raise that tool's friction.
LEMMA ColdSpared ==
  ASSUME NEW c, Steerable(c), Counting(c.window), Grouped(c), NEW t \in Tools,
         NEW ts \in 0..MaxTime, NEW u,
         NEW d \in {RecordCall(c, t, ts), RecordUnconfigured(c, t, ts)},
         Get(d.ema, u) = 0,
         \A g \in DOMAIN c.groups : u \in c.groups[g].tools =>
           AggregateRate(d, c.groups[g]) > 0
  PROVE  Get(d.friction, u) <= Get(c.friction, u)
<1> DEFINE b == Counted(c, t, ts)
           e == UpdateEma(b)
           z == DetectSaturation(Steer(e))
           p == AggregatePressure(z)
           x == AdjustFriction(b)
<1>1. /\ Ranged(z) /\ z.ema = e.ema /\ e.ema \in Levels
      /\ z.groups = c.groups /\ z.groupEma = c.groupEma
      /\ Differs(b, e, {"ema"})
      /\ Get(b.friction, u) <= Get(c.friction, u)
      /\ Get(e.ema, u) = 0 => Get(z.friction, u) <= Get(c.friction, u)
  BY CallSteersDown
<1>2. DOMAIN c = Fields
  BY DEF Steerable, Ranged
<1>3. Differs(x, d, {"budget", "last"})
  BY <1>2, RecordDiffers DEF Differs
<1>4. x = IF b.total < Warmup THEN e ELSE p
  BY DEF AdjustFriction
<1> HIDE DEF b, e, z, x
<1>5. d.friction = x.friction /\ d.ema = x.ema
  BY <1>3 DEF Differs, Fields
<1>6. CASE b.total < Warmup
  BY <1>1, <1>4, <1>5, <1>6 DEF Differs, Fields
<1>7. CASE ~(b.total < Warmup)
  <2>1. x = p
    BY <1>4, <1>7
  <2>2. Differs(z, p, {"groupEma", "friction"})
    BY <1>1, PressureDiffers DEF Ranged
  <2>3. p.ema = z.ema
    BY <2>2 DEF Differs, Fields
  <2>4. Grouped(z)
    BY <1>1 DEF Grouped
  <2>5. \A g \in DOMAIN z.groups : u \in z.groups[g].tools =>
          AggregateRate(z, z.groups[g]) > 0
    BY <1>1, <1>5, <2>1, <2>3, RateFrom
  <2>6. Get(z.ema, u) = 0
    BY <1>5, <2>1, <2>3
  <2>7. Get(p.friction, u) = Get(z.friction, u)
    BY <1>1, <2>4, <2>5, <2>6, ColdKept
  <2> QED BY <1>1, <1>5, <2>1, <2>6, <2>7
<1> QED BY <1>6, <1>7

\* Groups that are not over their targets push no tool of theirs.
LEMMA NoPushWithoutOvershoot ==
  ASSUME NEW c, NEW t, Grouped(c),
         \A g \in DOMAIN c.groups : t \in c.groups[g].tools =>
           ~(Get(c.groupEma, g) - c.groups[g].target > DeadZone)
  PROVE  PushOn(c, t) = 0
<1>1. ASSUME NEW g \in DOMAIN c.groups PROVE GroupPush(c, g, t) = 0
  <2> DEFINE error == c.groupEma[g] - c.groups[g].target
  <2>1. Get(c.groupEma, g) = c.groupEma[g]
    BY DEF Grouped, Get
  <2>2. c.groupEma[g] \in Nat /\ c.groups[g].target \in Int
    BY <2>1 DEF Grouped
  <2>3. t \notin c.groups[g].tools \/ error <= DeadZone
    BY <2>1, <2>2, ConfigAssumption
  <2> HIDE DEF error
  <2> QED BY <2>3 DEF GroupPush, error
<1> QED BY <1>1, PushOfGroups DEF Grouped

\* A recorded call raises the friction of a tool only if it leaves the tool, or
\* one of its groups, over the target.
LEMMA CallRaises ==
  ASSUME NEW c, Steerable(c), Counting(c.window), Grouped(c), NEW t \in Tools,
         NEW ts \in 0..MaxTime, NEW u,
         NEW d \in {RecordCall(c, t, ts), RecordUnconfigured(c, t, ts)},
         Moderate(c, u, Get(d.ema, u)),
         \A g \in DOMAIN c.groups : u \in c.groups[g].tools =>
           ~(Get(d.groupEma, g) - c.groups[g].target > DeadZone)
  PROVE  Get(d.friction, u) <= Get(c.friction, u)
<1> DEFINE b == Counted(c, t, ts)
           e == UpdateEma(b)
           z == DetectSaturation(Steer(e))
           m == Smoothed(z)
           p == AggregatePressure(z)
           x == AdjustFriction(b)
<1>1. /\ Ranged(z) /\ z.ema = e.ema /\ e.ema \in Levels
      /\ z.groups = c.groups /\ z.groupEma = c.groupEma
      /\ Differs(b, e, {"ema"})
      /\ Get(b.friction, u) <= Get(c.friction, u)
      /\ Moderate(c, u, Get(e.ema, u)) => Get(z.friction, u) <= Get(c.friction, u)
  BY CallSteersDown
<1>2. DOMAIN c = Fields
  BY DEF Steerable, Ranged
<1>3. Differs(x, d, {"budget", "last"})
  BY <1>2, RecordDiffers DEF Differs
<1>4. x = IF b.total < Warmup THEN e ELSE p
  BY DEF AdjustFriction
<1> HIDE DEF b, e, z, x
<1>5. d.friction = x.friction /\ d.ema = x.ema /\ d.groupEma = x.groupEma
  BY <1>3 DEF Differs, Fields
<1>6. CASE b.total < Warmup
  BY <1>1, <1>4, <1>5, <1>6 DEF Differs, Fields
<1>7. CASE ~(b.total < Warmup)
  <2>1. x = p
    BY <1>4, <1>7
  <2>2. Differs(z, p, {"groupEma", "friction"})
    BY <1>1, PressureDiffers DEF Ranged
  <2>3. p.ema = z.ema
    BY <2>2 DEF Differs, Fields
  <2>4. Grouped(z)
    BY <1>1 DEF Grouped
  <2>5. Differs(z, m, {"groupEma"}) /\ Grouped(m)
    BY <1>1, <2>4, SmoothedKeeps DEF Ranged
  <2>6. p.groupEma = m.groupEma
    BY <1>1, <2>4, PressureGives
  <2> HIDE DEF m
  <2>7. m.groups = c.groups
    BY <1>1, <2>5 DEF Differs, Fields
  <2>8. PushOn(m, u) = 0
    BY <1>5, <2>1, <2>5, <2>6, <2>7, NoPushWithoutOvershoot
  <2>9. Get(p.friction, u) = Get(z.friction, u)
    BY <1>1, <2>4, <2>8, PressureGives DEF m
  <2>10. Get(z.friction, u) <= Get(c.friction, u)
    BY <1>1, <1>5, <2>1, <2>3
  <2> HIDE DEF p
  <2> QED BY <1>5, <2>1, <2>9, <2>10
<1> QED BY <1>6, <1>7

----------------------------------------------------------------------------
(* Saturation, and what else every step of a controller keeps.             *)

\* A controller after any sequence of calls of its API.
Consistent(c) ==
  /\ Steerable(c) /\ Counting(c.window) /\ c.total \in 0..Warmup
  /\ DOMAIN c.target \subseteq DOMAIN c.friction
  /\ c.satCount \in Partial(Tools, 0..SatWindow)
  /\ c.pending \subseteq c.saturated /\ c.saturated \subseteq DOMAIN c.config
  /\ DOMAIN c.groups \subseteq Groups /\ DOMAIN c.groupEma \subseteq Groups

\* From c to d no raised target falls, and no tool found to be saturated is
\* taken for one that was reported, nor the other way round.
Relieves(c, d) ==
  /\ \A t \in DOMAIN c.target : t \in DOMAIN d.target /\ d.target[t] >= c.target[t]
  /\ d.saturated \ d.pending = c.saturated \ c.pending

\* Targets are numbers, so two steps that raise them are one.
LEMMA RelievesTwice ==
  ASSUME NEW c, Consistent(c), NEW d, Consistent(d), NEW e, Consistent(e),
         Relieves(c, d), Relieves(d, e)
  PROVE  Relieves(c, e)
<1>1. \A x \in {c, d, e} : x.target \in [DOMAIN x.target -> 0..Unit]
  BY LevelsAre DEF Consistent, Steerable
<1>2. Unit \in Nat
  BY ConfigAssumption
<1> QED BY <1>1, <1>2 DEF Relieves

\* A step that has nothing to do with saturation.
LEMMA ConsistentKept ==
  ASSUME NEW c, Consistent(c), NEW d, KeepsRange(c, d), NEW S, Differs(c, d, S),
         S \cap {"target", "satCount", "pending", "saturated"} = {},
         d.ema \in Levels, Counting(d.window), d.total \in 0..Warmup,
         DOMAIN d.groups \subseteq Groups, DOMAIN d.groupEma \subseteq Groups
  PROVE  Consistent(d) /\ Relieves(c, d)
<1>1. /\ d.target = c.target /\ d.satCount = c.satCount /\ d.pending = c.pending
      /\ d.saturated = c.saturated
  BY DEF Differs, Fields
<1>2. Ranged(d) /\ d.config = c.config /\ DOMAIN d.friction = DOMAIN c.friction
  BY DEF KeepsRange
<1>3. Steerable(d)
  BY <1>1, <1>2 DEF Consistent, Steerable
<1>4. \A t \in DOMAIN c.target : c.target[t] >= c.target[t]
  BY LevelsAre, ConfigAssumption DEF Consistent, Steerable
<1> QED BY <1>1, <1>2, <1>3, <1>4 DEF Consistent, Relieves

\* The smoothed rates.
LEMMA EmaConsistent ==
  ASSUME NEW c, Consistent(c)
  PROVE  LET d == UpdateEma(c) IN
         Consistent(d) /\ Relieves(c, d) /\ d.config = c.config
<1> DEFINE d == UpdateEma(c)
<1>1. /\ Ranged(c) /\ DOMAIN c = Fields /\ DOMAIN c.config \subseteq Tools
      /\ c.ema \in Levels /\ Counting(c.window)
  BY DEF Consistent, Steerable, Ranged
<1>2. Differs(c, d, {"ema"}) /\ d.ema \in Levels
  BY <1>1, UpdateEmaDiffers, EmaGives
<1> HIDE DEF d
<1>3. KeepsRange(c, d)
  BY <1>1, <1>2, SameRanged
<1>4. d.window = c.window /\ d.total = c.total /\ d.groups = c.groups
      /\ d.groupEma = c.groupEma
  BY <1>2 DEF Differs, Fields
<1>5. Consistent(d) /\ Relieves(c, d)
  BY <1>2, <1>3, <1>4, ConsistentKept DEF Consistent
<1> QED BY <1>3, <1>5 DEF KeepsRange, d

\* The steered friction.
LEMMA SteerConsistent ==
  ASSUME NEW c, Consistent(c)
  PROVE  LET d == Steer(c) IN
         Consistent(d) /\ Relieves(c, d) /\ d.config = c.config
<1> DEFINE d == Steer(c)
<1>1. Ranged(c) /\ DOMAIN c = Fields
  BY DEF Consistent, Steerable, Ranged
<1>2. Differs(c, d, {"friction"}) /\ KeepsRange(c, d)
  BY <1>1, SteerDiffers, SteerRanged
<1> HIDE DEF d
<1>3. d.window = c.window /\ d.total = c.total /\ d.groups = c.groups
      /\ d.groupEma = c.groupEma /\ d.ema = c.ema
  BY <1>2 DEF Differs, Fields
<1>4. Consistent(d) /\ Relieves(c, d)
  BY <1>2, <1>3, ConsistentKept DEF Consistent, Steerable
<1> QED BY <1>2, <1>4 DEF KeepsRange, d

\* The pressure of the groups.
LEMMA PressureConsistent ==
  ASSUME NEW c, Consistent(c)
  PROVE  LET d == AggregatePressure(c) IN
         Consistent(d) /\ Relieves(c, d) /\ d.config = c.config
<1> DEFINE d == AggregatePressure(c)
<1>1. Ranged(c) /\ DOMAIN c = Fields
  BY DEF Consistent, Steerable, Ranged
<1>2. Differs(c, d, {"groupEma", "friction"}) /\ KeepsRange(c, d)
  BY <1>1, PressureDiffers, PressureRanged
<1>3. DOMAIN d.groupEma = DOMAIN c.groupEma \cup DOMAIN c.groups
  <2> DEFINE ge == [g \in DOMAIN c.groupEma \cup DOMAIN c.groups |->
                      IF g \in DOMAIN c.groups
                      THEN Ema(Get(c.groupEma, g), AggregateRate(c, c.groups[g]))
                      ELSE c.groupEma[g]]
             e == [c EXCEPT !.groupEma = ge]
  <2>1. DOMAIN ge = DOMAIN c.groupEma \cup DOMAIN c.groups
    OBVIOUS
  <2>2. \E f : d = [e EXCEPT !.friction = f]
    BY DEF AggregatePressure
  <2> HIDE DEF ge, d
  <2>3. d.groupEma = ge
    BY <1>1, <2>2 DEF Fields
  <2> QED BY <2>1, <2>3 DEF d
<1> HIDE DEF d
<1>4. d.window = c.window /\ d.total = c.total /\ d.groups = c.groups /\ d.ema = c.ema
  BY <1>2 DEF Differs, Fields
<1>5. Consistent(d) /\ Relieves(c, d)
  BY <1>2, <1>3, <1>4, ConsistentKept DEF Consistent, Steerable
<1> QED BY <1>2, <1>5 DEF KeepsRange, d

\* The detection of saturated tools: it raises targets, up to 1.0, and has
\* reported none of the tools it finds.
LEMMA DetectConsistent ==
  ASSUME NEW c, Consistent(c)
  PROVE  LET d == DetectSaturation(c) IN
         Consistent(d) /\ Relieves(c, d) /\ d.config = c.config
<1> DEFINE tools == DOMAIN c.config
           Count(t) == IF Get(c.friction, t) >= SatThreshold
                       THEN Least(Get(c.satCount, t) + 1, SatWindow) ELSE 0
           sustained == {t \in tools : Count(t) >= SatWindow}
           n == [t \in DOMAIN c.satCount \cup tools |->
                   IF t \in tools THEN Count(t) ELSE c.satCount[t]]
           Up(t) == Least(EffectiveTarget(c, t) + SatRelief, Unit)
           r == [t \in DOMAIN c.target \cup sustained |->
                   IF t \in sustained THEN Up(t) ELSE c.target[t]]
           d == DetectSaturation(c)
<1>1. /\ Steerable(c) /\ Ranged(c) /\ DOMAIN c = Fields
      /\ tools \subseteq Tools /\ tools \subseteq DOMAIN c.friction
      /\ DOMAIN c.target \subseteq Tools /\ c.target \in [DOMAIN c.target -> 0..Unit]
      /\ DOMAIN c.satCount \subseteq Tools
      /\ c.satCount \in [DOMAIN c.satCount -> 0..SatWindow]
      /\ Unit \in Nat /\ SatWindow \in Nat /\ SatRelief \in Nat
      /\ \A t \in DOMAIN c.target : c.target[t] >= c.target[t]
  BY LevelsAre, PartialIs, ConfigAssumption DEF Consistent, Steerable, Ranged
<1>2. CASE SatWindow = 0
  <2>1. d = c
    BY <1>2 DEF DetectSaturation
  <2> QED BY <1>1, <2>1 DEF Relieves
<1>3. CASE SatWindow # 0
  <2>1. d = [c EXCEPT !.satCount = n, !.target = r,
               !.pending = @ \cup (sustained \ c.saturated),
               !.saturated = @ \cup sustained]
    BY <1>3 DEF DetectSaturation
  <2>2. sustained \subseteq tools
    OBVIOUS
  <2>3. \A t \in tools : Count(t) \in 0..SatWindow
    <3>1. \A t : Get(c.satCount, t) \in 0..SatWindow
      BY <1>1 DEF Get
    <3> QED BY <1>1, <3>1 DEF Least
  <2>4. \A t \in tools : Up(t) \in 0..Unit
                         /\ (t \in DOMAIN c.target => Up(t) >= c.target[t])
    <3>1. \A t \in tools : /\ EffectiveTarget(c, t) \in 0..Unit
                           /\ t \in DOMAIN c.target => EffectiveTarget(c, t) = c.target[t]
      BY <1>1, TargetInRange DEF EffectiveTarget
    <3> QED BY <1>1, <3>1 DEF Least
  <2> HIDE DEF sustained, Count, Up
  <2>5. n \in [DOMAIN n -> 0..SatWindow] /\ DOMAIN n = DOMAIN c.satCount \cup tools
    BY <1>1, <2>3
  <2>6. /\ r \in [DOMAIN r -> 0..Unit] /\ DOMAIN r = DOMAIN c.target \cup sustained
        /\ \A t \in DOMAIN c.target : r[t] >= c.target[t]
    BY <1>1, <2>2, <2>4
  <2>7. /\ n \in Partial(Tools, 0..SatWindow)
        /\ r \in Levels /\ DOMAIN r \subseteq DOMAIN c.friction
    BY <1>1, <2>2, <2>5, <2>6, LevelsIf, PartialIs DEF Consistent
  <2> HIDE DEF n, r
  <2>8. /\ d.satCount = n /\ d.target = r /\ d.saturated = c.saturated \cup sustained
        /\ d.pending = c.pending \cup (sustained \ c.saturated)
        /\ Differs(c, d, {"satCount", "target", "pending", "saturated"})
    BY <1>1, <2>1 DEF Fields, Differs
  <2> HIDE DEF d
  <2>9. d.config = c.config /\ d.friction = c.friction /\ d.window = c.window
        /\ d.total = c.total /\ d.groups = c.groups /\ d.groupEma = c.groupEma
        /\ d.ema = c.ema
    BY <2>8 DEF Differs, Fields
  <2>10. Ranged(d)
    BY <1>1, <2>8, SameRanged DEF KeepsRange
  <2>11. Steerable(d)
    BY <1>1, <2>7, <2>8, <2>9, <2>10 DEF Steerable
  <2>12. Consistent(d)
    BY <2>2, <2>7, <2>8, <2>9, <2>11 DEF Consistent
  <2>13. Relieves(c, d)
    BY <2>6, <2>8 DEF Relieves, Consistent
  <2> QED BY <2>9, <2>12, <2>13 DEF d
<1> QED BY <1>2, <1>3

\* _adjust_friction, in warmup and after it.
LEMMA AdjustConsistent ==
  ASSUME NEW c, Consistent(c)
  PROVE  LET d == AdjustFriction(c) IN
         Consistent(d) /\ Relieves(c, d) /\ d.config = c.config
<1> DEFINE u == UpdateEma(c)
           s == Steer(u)
           z == DetectSaturation(s)
           p == AggregatePressure(z)
           Good(x, y) == Consistent(y) /\ Relieves(x, y) /\ y.config = x.config
<1>1. Good(c, u)
  BY EmaConsistent
<1>2. AdjustFriction(c) \in {u, p}
  BY DEF AdjustFriction
<1> HIDE DEF u
<1>3. Good(u, s)
  BY <1>1, SteerConsistent
<1> HIDE DEF s
<1>4. Good(s, z)
  BY <1>3, DetectConsistent
<1> HIDE DEF z
<1>5. Good(z, p)
  BY <1>4, PressureConsistent
<1> HIDE DEF p
<1>6. Good(c, s)
  BY <1>1, <1>3, RelievesTwice
<1>7. Good(c, z)
  BY <1>4, <1>6, RelievesTwice
<1>8. Good(c, p)
  BY <1>5, <1>7, RelievesTwice
<1> QED BY <1>1, <1>2, <1>8

\* A recorded call, of either kind.
LEMMA RecordConsistent ==
  ASSUME NEW c, Consistent(c), NEW t \in Tools, NEW ts \in 0..MaxTime
  PROVE  \A d \in {RecordCall(c, t, ts), RecordUnconfigured(c, t, ts)} :
           Consistent(d) /\ Relieves(c, d) /\ d.config = c.config
<1> DEFINE a == TimeDecay(c, ts)
           b == CountCall(a, t)
           d == AdjustFriction(b)
           Good(x, y) == Consistent(y) /\ Relieves(x, y) /\ y.config = x.config
<1>1. Steerable(c) /\ Ranged(c) /\ DOMAIN c = Fields /\ c.ema \in Levels
  BY DEF Consistent, Steerable, Ranged
<1>2. /\ Differs(c, a, {"friction", "ema"}) /\ KeepsRange(c, a) /\ a.ema \in Levels
  BY <1>1, TimeDecayDiffers, TimeDecayRanged, DecayGives
<1>3. Good(c, a)
  <2> HIDE DEF a
  <2>1. a.window = c.window /\ a.total = c.total /\ a.groups = c.groups
        /\ a.groupEma = c.groupEma
    BY <1>2 DEF Differs, Fields
  <2>2. Consistent(a) /\ Relieves(c, a)
    BY <1>2, <2>1, ConsistentKept DEF Consistent
  <2> QED BY <1>2, <2>2 DEF KeepsRange
<1> HIDE DEF a
<1>4. /\ Differs(a, b, {"window", "total"})
      /\ b.window = WindowRecord(a.window, t) /\ b.total = Least(a.total + 1, Warmup)
  BY <1>2, CountCallDiffers DEF Differs
<1> HIDE DEF b
<1>5. Good(a, b)
  <2>1. KeepsRange(a, b)
    BY <1>3, <1>4, SameRanged DEF Consistent, Steerable
  <2>2. b.ema = a.ema /\ b.groups = a.groups /\ b.groupEma = a.groupEma
    BY <1>4 DEF Differs, Fields
  <2>3. Counting(b.window)
    BY <1>3, <1>4, RecordCounts DEF Consistent
  <2>4. b.total \in 0..Warmup
    BY <1>3, <1>4, ConfigAssumption DEF Least, Consistent
  <2>5. Consistent(b) /\ Relieves(a, b)
    BY <1>3, <1>4, <2>1, <2>2, <2>3, <2>4, ConsistentKept DEF Consistent, Steerable
  <2> QED BY <2>1, <2>5 DEF KeepsRange
<1>6. Good(b, d)
  BY <1>5, AdjustConsistent
<1> HIDE DEF d
<1>7. Good(c, d)
  <2>1. Good(c, b)
    BY <1>3, <1>5, RelievesTwice
  <2> QED BY <1>6, <2>1, RelievesTwice
<1>8. ASSUME NEW e \in {RecordCall(c, t, ts), RecordUnconfigured(c, t, ts)}
      PROVE  Good(c, e)
  <2>1. Differs(d, e, {"budget", "last"}) /\ e.last = ts
    BY <1>1, RecordDiffers DEF Differs, Counted, a, b, d
  <2>2. d.config = e.config /\ d.friction = e.friction
        /\ e.ema = d.ema /\ e.window = d.window /\ e.total = d.total
        /\ e.groups = d.groups /\ e.groupEma = d.groupEma
    BY <2>1 DEF Differs, Fields
  <2>3. KeepsRange(d, e)
    BY <1>7, <2>1, <2>2 DEF KeepsRange, Ranged, Consistent, Steerable, Differs
  <2>4. Consistent(e) /\ Relieves(d, e)
    BY <1>7, <2>1, <2>2, <2>3, ConsistentKept DEF Consistent, Steerable
  <2>5. Good(d, e)
    BY <2>2, <2>4
  <2> QED BY <1>7, <2>5, RelievesTwice
<1> QED BY <1>8

\* restore_friction_levels: it may give friction to tools not configured yet.
LEMMA RestoreConsistent ==
  ASSUME NEW c, Consistent(c), NEW levels, DOMAIN levels \subseteq Tools
  PROVE  LET d == RestoreFriction(c, levels) IN
         Consistent(d) /\ Relieves(c, d) /\ Differs(c, d, {"friction"})
<1> DEFINE D == DOMAIN c.friction \cup DOMAIN levels
           V(t) == Greatest(Get(c.friction, t), Clamp(levels[t]))
           f == [t \in D |-> IF t \in DOMAIN levels THEN V(t) ELSE c.friction[t]]
           d == RestoreFriction(c, levels)
<1>1. d = [c EXCEPT !.friction = f]
  BY DEF RestoreFriction
<1>2. /\ Steerable(c) /\ Ranged(c) /\ DOMAIN c = Fields /\ c.friction \in Levels
      /\ c.target \in Levels
  BY DEF Consistent, Steerable, Ranged
<1>3. c.friction \in [DOMAIN c.friction -> 0..Unit] /\ DOMAIN c.friction \subseteq Tools
  BY <1>2, LevelsAre
<1>4. \A t \in DOMAIN levels : V(t) \in 0..Unit
  BY <1>2, GetLevel, ClampInRange DEF Greatest
<1> HIDE DEF V
<1>5. f \in [D -> 0..Unit] /\ DOMAIN f = D
  BY <1>3, <1>4
<1>6. f \in Levels
  BY <1>3, <1>5, LevelsIf
<1> HIDE DEF f
<1>7. Differs(c, d, {"friction"}) /\ d.friction = f
  BY <1>1, <1>2 DEF Differs, Fields
<1> HIDE DEF d
<1>8. /\ DOMAIN d = Fields /\ d.config = c.config /\ d.ema = c.ema
      /\ d.satCount = c.satCount /\ d.target = c.target /\ d.saturated = c.saturated
      /\ d.window = c.window /\ d.total = c.total /\ d.last = c.last
      /\ d.pending = c.pending /\ d.groups = c.groups /\ d.groupEma = c.groupEma
  BY <1>7 DEF Differs, Fields
<1>9. Steerable(d)
  BY <1>2, <1>5, <1>6, <1>7, <1>8 DEF Ranged, Steerable
<1>10. Consistent(d)
  BY <1>5, <1>7, <1>8, <1>9 DEF Consistent
<1>11. Relieves(c, d)
  BY <1>2, <1>8, LevelsAre, ConfigAssumption DEF Relieves
<1> QED BY <1>7, <1>10, <1>11 DEF d

\* drain_saturation_events.
LEMMA DrainConsistent ==
  ASSUME NEW c, Consistent(c)
  PROVE  LET d == DrainSaturation(c) IN
         Consistent(d) /\ Differs(c, d, {"pending"}) /\ d.pending = {}
<1> DEFINE d == DrainSaturation(c)
<1>1. Ranged(c) /\ DOMAIN c = Fields
  BY DEF Consistent, Steerable, Ranged
<1>2. Differs(c, d, {"pending"}) /\ d.pending = {}
  BY <1>1 DEF DrainSaturation, Differs, Fields
<1> HIDE DEF d
<1>3. KeepsRange(c, d)
  BY <1>1, <1>2, SameRanged
<1>4. d.window = c.window /\ d.total = c.total /\ d.ema = c.ema /\ d.groups = c.groups
      /\ d.groupEma = c.groupEma /\ d.target = c.target /\ d.satCount = c.satCount
      /\ d.saturated = c.saturated
  BY <1>2 DEF Differs, Fields
<1>5. Steerable(d)
  BY <1>3, <1>4 DEF KeepsRange, Consistent, Steerable
<1>6. Consistent(d)
  BY <1>2, <1>3, <1>4, <1>5 DEF KeepsRange, Consistent
<1> QED BY <1>2, <1>6 DEF d

----------------------------------------------------------------------------
(* Tools that were not called.                                             *)

\* The counts of an empty window are those of its records.
LEMMA NothingCounted == Counting(EmptyWindow)
<1> DEFINE w == EmptyWindow
<1>1. w.records = <<>> /\ w.counts = [t \in Tools |-> 0]
  BY DEF EmptyWindow
<1>2. \A t \in Tools : At(<<>>, t) = {}
  BY DEF At
<1>3. Cardinality({}) = 0 /\ Len(<<>>) = 0 /\ <<>> \in Seq(Tools) /\ WindowSize >= 0
  BY FS_EmptySet, EmptySeq, ConfigAssumption
<1> HIDE DEF w
<1>4. w.counts \in [Tools -> Nat]
  BY <1>1
<1>5. ASSUME NEW t \in Tools PROVE w.counts[t] = Cardinality(At(w.records, t))
  <2>1. w.counts[t] = 0 /\ At(w.records, t) = {}
    BY <1>1, <1>2
  <2> QED BY <1>3, <2>1
<1>6. Counting(w)
  BY <1>1, <1>3, <1>4, <1>5 DEF Counting
<1> QED BY <1>6 DEF w

\* A tool of which the window holds no call has no rate,
LEMMA NoRate ==
  ASSUME NEW w, NEW t, Counting(w), w.counts[t] = 0
  PROVE  WindowRate(w, t) = 0
<1>1. w.records = <<>> \/ Len(w.records) \in Nat \ {0}
  BY EmptySeq, LenProperties DEF Counting
<1>2. 0 * Unit = 0 /\ \A n \in Nat \ {0} : 0 \div n = 0
  BY ConfigAssumption
<1> QED BY <1>1, <1>2 DEF WindowRate

\* and a call of another tool does not change that.
LEMMA StillNotCounted ==
  ASSUME NEW w, Counting(w), NEW t \in Tools, NEW u \in Tools, u # t, w.counts[u] = 0
  PROVE  WindowRecord(w, t).counts[u] = 0
<1> DEFINE full == Len(w.records) = WindowSize
           h == Head(w.records)
           left == IF full THEN [w.counts EXCEPT ![h] = @ - 1] ELSE w.counts
           v == WindowRecord(w, t)
<1>1. v.counts = [left EXCEPT ![t] = @ + 1] /\ DOMAIN left = Tools
  BY DEF WindowRecord, Counting
<1>2. v.counts[u] = left[u]
  BY <1>1
<1>3. Counting(v) /\ v.counts[u] \in Nat
  BY RecordCounts DEF Counting
<1>4. left[u] \in {0, 0 - 1}
  BY DEF Counting
<1> HIDE DEF left, v
<1>5. v.counts[u] \in {0, 0 - 1}
  BY <1>2, <1>4
<1> QED BY <1>3, <1>5 DEF v

\* A controller in which no tool of S has friction or a rate, none of P is in
\* the window, and no group has a rate.
Unmoved(c, S, P) ==
  /\ \A t \in S : Get(c.friction, t) = 0 /\ Get(c.ema, t) = 0
  /\ \A t \in P : c.window.counts[t] = 0
  /\ \A g \in DOMAIN c.groups : Get(c.groupEma, g) = 0

\* A group without a rate, that asks for none below zero, pushes no tool.
LEMMA NoPressureWithoutRate ==
  ASSUME NEW c, NEW t, Grouped(c),
         \A g \in DOMAIN c.groups :
           c.groups[g].target \in Nat /\ Get(c.groupEma, g) = 0
  PROVE  PushOn(c, t) = 0
<1>1. \A n \in Nat : ~(0 - n > DeadZone)
  BY ConfigAssumption
<1> QED BY <1>1, NoPushWithoutOvershoot

\* A call of a tool outside P leaves such a controller so, if all that S has
\* to fear are calls of the tools in P.
LEMMA CallUnmoved ==
  ASSUME NEW c, Consistent(c), Grouped(c), NEW S, NEW P, P \subseteq Tools,
         S \cap DOMAIN c.config \subseteq P,
         \A g \in DOMAIN c.groups :
           c.groups[g].tools \subseteq S /\ c.groups[g].target \in Nat,
         Unmoved(c, S, P), NEW t \in Tools, t \notin P, NEW ts \in 0..MaxTime,
         NEW d \in {RecordCall(c, t, ts), RecordUnconfigured(c, t, ts)}
  PROVE  Unmoved(d, S, P)
<1> DEFINE a == TimeDecay(c, ts)
           b == Counted(c, t, ts)
           e == UpdateEma(b)
           z == DetectSaturation(Steer(e))
           m == Smoothed(z)
           p == AggregatePressure(z)
           x == AdjustFriction(b)
<1>1. /\ Steerable(c) /\ Counting(c.window) /\ Ranged(c) /\ DOMAIN c = Fields
      /\ c.ema \in Levels /\ c.friction \in Levels
      /\ DOMAIN c.config \subseteq Tools
  BY DEF Consistent, Steerable, Ranged
<1>2. /\ Ranged(z) /\ z.ema = e.ema /\ z.ema \in Levels
      /\ z.groups = c.groups /\ z.groupEma = c.groupEma
      /\ Differs(b, e, {"ema"})
      /\ \A u : /\ Get(b.friction, u) <= Get(c.friction, u)
                /\ Get(e.ema, u) = 0 => Get(z.friction, u) <= Get(c.friction, u)
  BY <1>1, CallSteersDown
<1>3. /\ Differs(c, a, {"friction", "ema"}) /\ Ranged(a) /\ a.ema \in Levels
      /\ \A u : Get(c.ema, u) = 0 => Get(a.ema, u) = 0
  <2>1. Differs(c, a, {"friction", "ema"}) /\ Ranged(a)
    BY <1>1, TimeDecayDiffers, TimeDecayRanged DEF KeepsRange
  <2>2. a.ema \in Levels
    BY <1>1, DecayGives
  <2>3. ASSUME NEW u, Get(c.ema, u) = 0 PROVE Get(a.ema, u) = 0
    <3>1. Get(a.ema, u) = IF Waited(c, ts) /\ u \in DOMAIN c.friction
                          THEN Decayed(0, ts - c.last) ELSE 0
      BY <1>1, <2>3, DecayGives
    <3>2. Waited(c, ts) => ts - c.last \in 0..MaxTime
      BY <1>1, ConfigAssumption DEF Waited, Ranged
    <3>3. Waited(c, ts) => Decayed(0, ts - c.last) \in 0..0
      BY <3>2, DecayAssumption, ConfigAssumption
    <3> QED BY <3>1, <3>3
  <2> QED BY <2>1, <2>2, <2>3
<1>4. Differs(a, b, {"window", "total"}) /\ b.window = WindowRecord(a.window, t)
  BY <1>3, CountCallDiffers DEF Counted, Differs
<1>5. Differs(x, d, {"budget", "last"}) /\ Differs(c, x, Adjusted \cup {"window", "total"})
      /\ x.window = WindowRecord(c.window, t)
  BY <1>1, RecordDiffers DEF Differs
<1>6. x = IF b.total < Warmup THEN e ELSE p
  BY DEF AdjustFriction
<1> HIDE DEF a, b, e, z, x
<1>7. /\ b.window = WindowRecord(c.window, t) /\ b.ema = a.ema
      /\ b.config = c.config /\ b.groupEma = c.groupEma /\ b.groups = c.groups
      /\ DOMAIN b = Fields
  BY <1>3, <1>4 DEF Differs, Fields
<1>8. /\ Counting(b.window)
      /\ \A u \in P : b.window.counts[u] = 0
  BY <1>1, <1>7, RecordCounts, StillNotCounted DEF Unmoved
<1>9. ASSUME NEW u \in S PROVE Get(e.ema, u) = 0
  <2>1. Get(b.ema, u) = 0
    BY <1>3, <1>7 DEF Unmoved
  <2>2. Get(e.ema, u) = IF u \in DOMAIN c.config
                        THEN Ema(0, WindowRate(b.window, u)) ELSE 0
    BY <1>1, <1>3, <1>7, <1>8, <2>1, EmaGives DEF e
  <2>3. u \in DOMAIN c.config => WindowRate(b.window, u) = 0
    BY <1>8, NoRate
  <2>4. Ema(0, 0) = 0
    <3>1. Alpha * 0 = 0 /\ (Unit - Alpha) * 0 = 0 /\ 0 \div Unit = 0
      BY ConfigAssumption
    <3> QED BY <3>1 DEF Ema
  <2> QED BY <2>2, <2>3, <2>4
<1>10. ASSUME NEW u \in S PROVE Get(z.friction, u) = 0 /\ Get(e.friction, u) = 0
  <2>1. Get(z.friction, u) \in 0..Unit /\ Get(z.friction, u) <= 0
    BY <1>2, <1>9, GetLevel DEF Unmoved, Ranged
  <2>2. e.friction = b.friction /\ b.friction = a.friction
    BY <1>2, <1>4 DEF Differs, Fields
  <2>3. Get(b.friction, u) \in 0..Unit /\ Get(b.friction, u) <= 0
    BY <1>2, <1>3, <2>2, GetLevel DEF Unmoved, Ranged
  <2> QED BY <2>1, <2>2, <2>3, ConfigAssumption
<1>11. Grouped(z)
  BY <1>2 DEF Grouped
<1>12. /\ Grouped(m) /\ m.groups = c.groups /\ p.groupEma = m.groupEma
       /\ \A g \in DOMAIN c.groups : Get(m.groupEma, g) = 0
  <2>1. /\ Differs(z, m, {"groupEma"}) /\ Grouped(m)
        /\ \A g \in DOMAIN z.groups : Get(m.groupEma, g) =
             Ema(Get(z.groupEma, g), AggregateRate(z, z.groups[g]))
    BY <1>2, <1>11, SmoothedKeeps DEF Ranged
  <2> HIDE DEF m
  <2>2. m.groups = c.groups
    BY <1>2, <2>1 DEF Differs, Fields
  <2>3. ASSUME NEW g \in DOMAIN c.groups PROVE Get(m.groupEma, g) = 0
    <3>1. \A u : Get(z.ema, u) \in Nat
      BY <1>2, GetLevel, ConfigAssumption
    <3>2. \A u \in c.groups[g].tools : Get(z.ema, u) = 0
      BY <1>2, <1>9
    <3>3. IsFiniteSet(c.groups[g].tools)
      BY FS_Subset, ConfigAssumption DEF Grouped
    <3>4. AggregateRate(z, c.groups[g]) = 0
      BY <3>1, <3>2, <3>3, RateOfGroup
    <3>5. Ema(0, 0) = 0
      <4>1. Alpha * 0 = 0 /\ (Unit - Alpha) * 0 = 0 /\ 0 \div Unit = 0
        BY ConfigAssumption
      <4> QED BY <4>1 DEF Ema
    <3>6. Get(z.groupEma, g) = 0
      BY <1>2 DEF Unmoved
    <3> QED BY <1>2, <2>1, <3>4, <3>5, <3>6
  <2>4. p.groupEma = m.groupEma
    BY <1>2, <1>11, PressureGives DEF m
  <2> QED BY <2>1, <2>2, <2>3, <2>4
<1> HIDE DEF m
<1>13. ASSUME NEW u \in S PROVE Get(p.friction, u) = 0
  <2>1. PushOn(m, u) = 0
    BY <1>12, NoPressureWithoutRate
  <2> QED BY <1>2, <1>10, <1>11, <2>1, PressureGives DEF m
<1>14. p.ema = e.ema
  <2>1. Differs(z, p, {"groupEma", "friction"})
    BY <1>2, PressureDiffers DEF Ranged
  <2> QED BY <1>2, <2>1 DEF Differs, Fields
<1> HIDE DEF p
<1>15. /\ d.friction = x.friction /\ d.ema = x.ema /\ d.groupEma = x.groupEma
       /\ d.window = x.window /\ d.groups = c.groups
  BY <1>5 DEF Differs, Fields, Adjusted
<1>16. x = e => x.groupEma = c.groupEma
  BY <1>2, <1>7 DEF Differs, Fields
<1>17. \A u \in S : Get(x.friction, u) = 0 /\ Get(x.ema, u) = 0
  BY <1>6, <1>9, <1>10, <1>13, <1>14
<1>18. \A g \in DOMAIN c.groups : Get(x.groupEma, g) = 0
  BY <1>6, <1>12, <1>16 DEF Unmoved
<1>19. \A u \in P : x.window.counts[u] = 0
  BY <1>5, <1>7, <1>8
<1> QED BY <1>15, <1>17, <1>18, <1>19 DEF Unmoved
============================================================================
