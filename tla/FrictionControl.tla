-------------------------- MODULE FrictionControl --------------------------
(***************************************************************************)
(* The algorithm of one FrictionController (friction/controller.py) and of *)
(* the SlidingWindow it keeps (friction/window.py), as operators on a      *)
(* record c that holds the controller's attributes.  FrictionController    *)
(* drives them through the public API of one controller, FrictionRegistry  *)
(* through the registry that owns one controller per client.               *)
(*                                                                         *)
(* Numbers.  The code computes with floats in 0.0 .. 1.0.  Here such a     *)
(* number is an integer in 0 .. Unit, a product is rounded down, and the   *)
(* idle decay math.exp(-rate * dt) is the operator Decayed, of which only  *)
(* DecayAssumption is used.  Dictionaries read with .get(name, 0.0) are    *)
(* functions on their keys, and .get is the operator Get.                  *)
(*                                                                         *)
(* Bounds.  total stops counting at Warmup and a saturation counter at     *)
(* SatWindow: the code only asks whether they have reached these values.   *)
(***************************************************************************)
EXTENDS Integers, Sequences, FiniteSets, FiniteSetsExt

CONSTANTS
  Tools,            \* the tool names a call may carry
  Groups,           \* the names of the aggregate groups
  Unit,             \* the number that stands for 1.0
  WindowSize, Alpha, AdjustmentRate, AsymmetricDecay, DeadZone, Warmup,
  SatThreshold, SatWindow, SatRelief,   \* the fields of ControllerConfig
  DefaultBudget,    \* a natural number, or Unlimited
  Unlimited,        \* float("inf")
  NoTime,           \* None, for _last_call_time
  MaxTime,          \* bound on the clock
  Decayed(_, _)     \* Decayed(v, dt) stands for v * exp(-rate * dt)

ASSUME ConfigAssumption ==
  /\ Unit \in Nat \ {0} /\ WindowSize \in Nat \ {0}
  /\ Alpha \in 0..Unit /\ AdjustmentRate \in Nat /\ AsymmetricDecay \in Nat
  /\ DeadZone \in Nat /\ Warmup \in Nat /\ MaxTime \in Nat
  /\ SatThreshold \in Nat /\ SatWindow \in Nat /\ SatRelief \in Nat
  /\ Unlimited \notin Int /\ DefaultBudget \in Nat \cup {Unlimited}
  /\ NoTime \notin Int
  /\ IsFiniteSet(Tools) /\ IsFiniteSet(Groups)

ASSUME DecayAssumption ==
  \A dt \in 0..MaxTime :
    /\ \A v \in 0..Unit : Decayed(v, dt) \in 0..v
    /\ \A v, w \in 0..Unit : v <= w => Decayed(v, dt) <= Decayed(w, dt)
    /\ \A v \in 0..Unit, more \in dt..MaxTime : Decayed(v, more) <= Decayed(v, dt)

----------------------------------------------------------------------------
(* Arithmetic and dictionaries. *)

Scale(a, b) == (a * b) \div Unit

Least(a, b) == IF a <= b THEN a ELSE b

Greatest(a, b) == IF a >= b THEN a ELSE b

\* Mutant: the upper bound is forgotten.
ClampBelow(x) == IF x < 0 THEN 0 ELSE x

\* max(0.0, min(1.0, x))
Clamp(x) == IF x \in 0..Unit THEN x ELSE IF x < 0 THEN 0 ELSE Unit

\* d.get(k, 0.0)
Get(d, k) == IF k \in DOMAIN d THEN d[k] ELSE 0

\* d[k] = v
Put(d, k, v) == [x \in DOMAIN d \cup {k} |-> IF x = k THEN v ELSE d[x]]

\* The dictionaries with keys in S and values in T; levels of friction.
Partial(S, T) == UNION {[D -> T] : D \in SUBSET S}

Levels == Partial(Tools, 0..Unit)

\* alpha * new + (1 - alpha) * old
Ema(old, new) == (Alpha * new + (Unit - Alpha) * old) \div Unit

----------------------------------------------------------------------------
(* The sliding window: the last WindowSize tool names, and how often each  *)
(* of them occurs.  A name whose count falls to zero leaves the dict; here *)
(* it keeps the count 0 that .get reads.                                   *)

EmptyWindow == [records |-> <<>>, counts |-> [t \in Tools |-> 0]]

\* Mutant: the call that leaves the window stays in the counts.
WindowRecordLeak(w, t) ==
  [records |-> Append(IF Len(w.records) = WindowSize THEN Tail(w.records)
                      ELSE w.records, t),
   counts  |-> [w.counts EXCEPT ![t] = @ + 1]]

WindowRecord(w, t) ==
  LET full == Len(w.records) = WindowSize
      oldest == Head(w.records)
      left == IF full THEN [w.counts EXCEPT ![oldest] = @ - 1] ELSE w.counts
  IN  [records |-> Append(IF full THEN Tail(w.records) ELSE w.records, t),
       counts  |-> [left EXCEPT ![t] = @ + 1]]

WindowRate(w, t) ==
  IF w.records = <<>> THEN 0 ELSE (w.counts[t] * Unit) \div Len(w.records)

----------------------------------------------------------------------------
(* A controller, and its configuration.  A tool's configuration is a       *)
(* record [target, minCost, maxCost, justify, block]; a group's is         *)
(* [tools, target, weight].                                                *)

NewController ==
  [config    |-> <<>>, groups |-> <<>>, window |-> EmptyWindow, total |-> 0,
   friction  |-> <<>>, ema |-> <<>>, last |-> NoTime,
   satCount  |-> <<>>, target |-> <<>>, saturated |-> {}, pending |-> {},
   groupEma  |-> <<>>, budget |-> DefaultBudget]

ConfigureTool(c, t, tc) ==
  LET known == t \in DOMAIN c.friction
      Reset(d, v) == IF known THEN d ELSE Put(d, t, v)
  IN  [c EXCEPT !.config = Put(@, t, tc),
                !.friction = Reset(@, 0), !.ema = Reset(@, 0),
                !.satCount = Reset(@, 0), !.target = Reset(@, tc.target),
                !.saturated = IF known THEN @ ELSE @ \ {t}]

ConfigureGroup(c, g, gc) ==
  [c EXCEPT !.groups = Put(@, g, gc),
            !.groupEma = IF g \in DOMAIN @ THEN @ ELSE Put(@, g, 0)]

\* The target that steers a tool: the one configured, or its raised value.
EffectiveTarget(c, t) ==
  IF t \in DOMAIN c.target THEN c.target[t] ELSE c.config[t].target

----------------------------------------------------------------------------
(* check(): what a proposed call would cost and whether it may run. *)

Price(tc, friction) == tc.minCost + Scale(friction, tc.maxCost - tc.minCost)

Affordable(c, cost) == IF c.budget = Unlimited THEN TRUE ELSE c.budget >= cost

Level(tc, friction) ==
  IF friction >= tc.block THEN "BLOCKED"
  ELSE IF friction >= tc.justify THEN "HIGH"
  ELSE IF 10 * friction > 3 * Unit THEN "MEDIUM"
  ELSE IF friction > 0 THEN "LOW" ELSE "NONE"

\* reason abstracts the message: which of its four texts it is.
Check(c, t) ==
  IF t \notin DOMAIN c.config
    THEN [allowed |-> TRUE, cost |-> 0, level |-> "NONE", friction |-> 0,
          justification |-> FALSE, reason |-> "unconfigured"]
    ELSE LET tc == c.config[t]
             friction == Get(c.friction, t)
             cost == Price(tc, friction)
             blocked == friction >= tc.block
             justify == friction >= tc.justify
         IN  [allowed |-> ~blocked /\ Affordable(c, cost),
              cost |-> cost, level |-> Level(tc, friction),
              friction |-> friction, justification |-> justify,
              reason |-> IF ~Affordable(c, cost) THEN "budget"
                         ELSE IF blocked THEN "blocked"
                         ELSE IF justify THEN "justify" ELSE "allowed"]

----------------------------------------------------------------------------
(* Recording a call: decay for the idle time, count the call, adjust. *)

\* Mutant: a time stamp before the last one is not noticed.
TimeDecayBackwards(c, ts) ==
  IF c.last = NoTime THEN c
  ELSE [c EXCEPT !.friction = [t \in DOMAIN @ |-> Decayed(@[t], ts - c.last)]]

TimeDecay(c, ts) ==
  IF c.last = NoTime \/ ts <= c.last THEN c
  ELSE LET Aged(d) == [t \in DOMAIN d |-> IF t \in DOMAIN c.friction
                         THEN Decayed(d[t], ts - c.last) ELSE d[t]]
       IN  [c EXCEPT !.friction = Aged(@), !.ema = Aged(@)]

\* Mutant: friction is only ever raised.
CorrectionUpOnly(error) ==
  IF error < 0 THEN 0 ELSE Scale(AdjustmentRate, error)

\* adjustment_rate * error, amplified when it lowers friction.
Correction(error) ==
  IF error < 0 THEN AsymmetricDecay * Scale(AdjustmentRate, error)
  ELSE Scale(AdjustmentRate, error)

\* The configured tools' EMA rates follow the window, warmup or not.
UpdateEma(c) ==
  [c EXCEPT !.ema = [t \in DOMAIN @ \cup DOMAIN c.config |->
     IF t \in DOMAIN c.config
       THEN Ema(Get(@, t), WindowRate(c.window, t)) ELSE @[t]]]

Steer(c) ==
  LET Error(t) == Get(c.ema, t) - EffectiveTarget(c, t)
      InDeadZone(t) == Error(t) < DeadZone /\ -Error(t) < DeadZone
      moved == {t \in DOMAIN c.config : ~InDeadZone(t)}
  IN  [c EXCEPT !.friction = [t \in DOMAIN @ \cup moved |->
         IF t \in moved THEN Clamp(Get(c.friction, t) + Correction(Error(t)))
         ELSE @[t]]]

\* Mutant: a tool that stays saturated is detected again at every call.
DetectSaturationAgain(c) ==
  LET high == {t \in DOMAIN c.config : Get(c.friction, t) >= SatThreshold}
      sustained == {t \in high : Get(c.satCount, t) + 1 >= SatWindow}
  IN  [c EXCEPT
        !.satCount = [t \in DOMAIN @ \cup DOMAIN c.config |->
          IF t \in high THEN Least(Get(c.satCount, t) + 1, SatWindow) ELSE 0],
        !.pending = @ \cup sustained, !.saturated = @ \cup sustained]

\* Mutant: the target falls back when a tool is no longer saturated.
DetectSaturationFallBack(c) ==
  LET high == {t \in DOMAIN c.config : Get(c.friction, t) >= SatThreshold}
  IN  [c EXCEPT !.target = [t \in DOMAIN @ \cup high |->
         IF t \in high THEN Least(EffectiveTarget(c, t) + SatRelief, Unit)
         ELSE c.config[t].target]]

\* SatWindow = 0 switches the detection off.
DetectSaturation(c) ==
  IF SatWindow = 0 THEN c
  ELSE LET tools == DOMAIN c.config
           Count(t) == IF Get(c.friction, t) >= SatThreshold
                       THEN Least(Get(c.satCount, t) + 1, SatWindow) ELSE 0
           sustained == {t \in tools : Count(t) >= SatWindow}
           raised == DOMAIN c.target \cup sustained
       IN  [c EXCEPT
             !.satCount = [t \in DOMAIN @ \cup tools |->
                             IF t \in tools THEN Count(t) ELSE @[t]],
             !.target = [t \in raised |-> IF t \in sustained
                           THEN Least(EffectiveTarget(c, t) + SatRelief, Unit)
                           ELSE @[t]],
             !.pending = @ \cup (sustained \ c.saturated),
             !.saturated = @ \cup sustained]

AggregateRate(c, gc) == MapThenSumSet(LAMBDA t : Get(c.ema, t), gc.tools)

\* Mutant: the group's overshoot is shared out equally.
GroupPushEqual(c, g, t) ==
  LET gc == c.groups[g]
      error == c.groupEma[g] - gc.target
  IN  IF t \notin gc.tools \/ error <= DeadZone THEN 0
      ELSE (AdjustmentRate * error * gc.weight)
             \div (Cardinality(gc.tools) * Unit * Unit)

\* Mutant: the group's rate is compared before it is smoothed.
GroupPushRaw(c, g, t) ==
  LET gc == c.groups[g]
      rate == AggregateRate(c, gc)
      weighted == AdjustmentRate * (rate - gc.target) * gc.weight
  IN  IF t \notin gc.tools \/ rate - gc.target <= DeadZone THEN 0
      ELSE (weighted * Get(c.ema, t)) \div (rate * Unit * Unit)

\* The friction one group adds to one of its tools.
GroupPush(c, g, t) ==
  LET gc == c.groups[g]
      rate == AggregateRate(c, gc)
      error == c.groupEma[g] - gc.target
      weighted == AdjustmentRate * error * gc.weight
  IN  IF t \notin gc.tools \/ error <= DeadZone THEN 0
      ELSE IF rate > 0 THEN (weighted * Get(c.ema, t)) \div (rate * Unit * Unit)
      ELSE weighted \div (Cardinality(gc.tools) * Unit * Unit)

\* A weight says how much friction overshoot adds, so no push is negative, and
\* adding them up and clamping once is what the loop over the groups does, in
\* whatever order it visits them.
PushOn(c, t) == MapThenSumSet(LAMBDA g : GroupPush(c, g, t), DOMAIN c.groups)

AggregatePressure(c) ==
  LET e == [c EXCEPT !.groupEma = [g \in DOMAIN @ \cup DOMAIN c.groups |->
              IF g \in DOMAIN c.groups
                THEN Ema(Get(@, g), AggregateRate(c, c.groups[g])) ELSE @[g]]]
      pushed == {t \in DOMAIN c.config : PushOn(e, t) > 0}
  IN  [e EXCEPT !.friction = [t \in DOMAIN @ \cup pushed |->
         IF t \in pushed THEN Clamp(Get(c.friction, t) + PushOn(e, t)) ELSE @[t]]]

AdjustFriction(c) ==
  IF c.total < Warmup THEN UpdateEma(c)
  ELSE AggregatePressure(DetectSaturation(Steer(UpdateEma(c))))

Spend(budget, cost) == IF budget = Unlimited THEN budget ELSE budget - cost

CountCall(c, t) ==
  [c EXCEPT !.window = WindowRecord(@, t), !.total = Least(@ + 1, Warmup)]

\* Mutant: the call is charged at the price it leads to.
RecordCallChargedAfter(c, t, ts) ==
  LET d == AdjustFriction(CountCall(TimeDecay(c, ts), t))
  IN  [d EXCEPT !.budget = Spend(@, Check(d, t).cost), !.last = ts]

RecordCall(c, t, ts) ==
  LET d == TimeDecay(c, ts)
      cost == Check(d, t).cost
  IN  [AdjustFriction(CountCall(d, t)) EXCEPT
         !.budget = Spend(@, cost), !.last = ts]

RecordUnconfigured(c, t, ts) ==
  [AdjustFriction(CountCall(TimeDecay(c, ts), t)) EXCEPT !.last = ts]

----------------------------------------------------------------------------
(* Carrying friction over an eviction, and the rest of the API. *)

RestoreFriction(c, levels) ==
  [c EXCEPT !.friction = [t \in DOMAIN @ \cup DOMAIN levels |->
     IF t \in DOMAIN levels
       THEN Greatest(Get(c.friction, t), Clamp(levels[t])) ELSE @[t]]]

ResetBudget(c, budget) == [c EXCEPT !.budget = budget]

DrainSaturation(c) == [c EXCEPT !.pending = {}]
============================================================================
