------------------------- MODULE FrictionController -------------------------
(***************************************************************************)
(* One FrictionController, driven through its public API in any order:     *)
(* tools and groups are configured, calls are recorded with the time stamp *)
(* the caller passes, friction is restored, the budget is reset, and the   *)
(* saturation events are drained.  check() and get_status() change nothing *)
(* and are the operator Check of FrictionControl.                          *)
(*                                                                         *)
(* reported counts the drained events of each tool; it is what the log of  *)
(* the program shows, and stops at 2.                                      *)
(***************************************************************************)
EXTENDS FrictionControl

CONSTANTS
  ToolConfigs,      \* [tool -> the configurations it may be given]
  GroupConfigs,     \* [Groups -> configuration]
  Restorable,       \* the snapshots restore_friction_levels may be given
  Budgets,          \* the budgets reset_budget may be given
  Stamps,           \* the time stamps record_call may be given
  MaxOverdraft,     \* bound: no call is recorded past this overdraft
  Reader            \* a tool of which the client may keep making calls

ASSUME ControllerAssumption ==
  /\ Stamps \subseteq 0..MaxTime /\ Reader \in Tools /\ MaxOverdraft \in Nat
  /\ DOMAIN ToolConfigs \subseteq Tools /\ DOMAIN GroupConfigs = Groups
  /\ \A t \in DOMAIN ToolConfigs : \A tc \in ToolConfigs[t] :
       tc.target \in 0..Unit /\ tc.minCost \in Int /\ tc.maxCost \in Int
  /\ \A g \in Groups : /\ GroupConfigs[g].tools \subseteq Tools
                       /\ GroupConfigs[g].target \in Int
                       /\ GroupConfigs[g].weight \in Nat
  /\ \A levels \in Restorable : DOMAIN levels \subseteq Tools
  /\ Budgets \subseteq Int \cup {Unlimited}

VARIABLES ctl, reported

vars == <<ctl, reported>>

Init ==
  /\ ctl = NewController
  /\ reported = [t \in Tools |-> 0]

Configure(t, tc) ==
  /\ tc \in ToolConfigs[t]
  /\ ctl' = ConfigureTool(ctl, t, tc)
  /\ UNCHANGED reported

Group(g) ==
  /\ ctl' = ConfigureGroup(ctl, g, GroupConfigs[g])
  /\ UNCHANGED reported

Call(t, ts) ==
  /\ Affordable(ctl, -MaxOverdraft)
  /\ ctl' = RecordCall(ctl, t, ts)
  /\ UNCHANGED reported

UncontrolledCall(t, ts) ==
  /\ ctl' = RecordUnconfigured(ctl, t, ts)
  /\ UNCHANGED reported

Restore(levels) ==
  /\ ctl' = RestoreFriction(ctl, levels)
  /\ UNCHANGED reported

Refill(budget) ==
  /\ ctl' = ResetBudget(ctl, budget)
  /\ UNCHANGED reported

Drain ==
  /\ reported' = [t \in Tools |-> IF t \in ctl.pending
                    THEN Least(reported[t] + 1, 2) ELSE reported[t]]
  /\ ctl' = DrainSaturation(ctl)

Next ==
  \/ \E t \in DOMAIN ToolConfigs : \E tc \in ToolConfigs[t] : Configure(t, tc)
  \/ \E g \in Groups : Group(g)
  \/ \E t \in Tools, ts \in Stamps : Call(t, ts)
  \/ \E t \in Tools, ts \in Stamps : UncontrolledCall(t, ts)
  \/ \E levels \in Restorable : Restore(levels)
  \/ \E budget \in Budgets : Refill(budget)
  \/ Drain

Spec == Init /\ [][Next]_vars

\* The client never stops making calls of the tool Reader, even if no time
\* passes from one to the next: weak fairness of that action, written out.
\* Such a call is a step unless it leaves the controller as it is.
ReaderCalls == ctl.last # NoTime /\ UncontrolledCall(Reader, ctl.last)

ReaderMoves ==
  ctl.last # NoTime /\ RecordUnconfigured(ctl, Reader, ctl.last) # ctl

ReaderSpec ==
  /\ Spec
  /\ []<>~ReaderMoves \/ []<><<ReaderCalls>>_vars

----------------------------------------------------------------------------
\* The attributes of a controller keep their types: friction and EMA rates
\* stay within 0.0 .. 1.0 whatever is recorded, configured or restored.
TypeOK ==
  /\ ctl.friction \in Levels /\ ctl.ema \in Levels /\ ctl.target \in Levels
  /\ ctl.satCount \in Partial(Tools, 0..SatWindow)
  /\ DOMAIN ctl.groupEma \subseteq Groups
  /\ \A g \in DOMAIN ctl.groupEma : ctl.groupEma[g] \in Nat
  /\ ctl.saturated \subseteq Tools /\ ctl.pending \subseteq Tools
  /\ ctl.total \in 0..Warmup
  /\ ctl.last \in Stamps \cup {NoTime}
  /\ ctl.budget \in Int \cup {Unlimited}
  /\ reported \in [Tools -> 0..2]

\* SlidingWindow keeps _counts beside _records and updates it call by call:
\* after any sequence of calls it counts exactly the calls in the window.
WindowCountsAgree ==
  LET w == ctl.window IN
  /\ Len(w.records) <= WindowSize
  /\ \A t \in Tools :
       w.counts[t] = Cardinality({i \in DOMAIN w.records : w.records[i] = t})

\* drain_saturation_events reports a tool once in the life of a controller,
\* and exactly the tools detected as saturated are reported or to be drained.
SaturationReportedOnce ==
  \A t \in Tools :
    /\ reported[t] + (IF t \in ctl.pending THEN 1 ELSE 0) =
         (IF t \in ctl.saturated THEN 1 ELSE 0)

\* Only saturation relief takes the target that steers a tool away from the
\* target the tool is configured with.
ConfiguredTargetSteers ==
  \A t \in DOMAIN ctl.config \ ctl.saturated :
    EffectiveTarget(ctl, t) = ctl.config[t].target

\* "No adjustment during the first N calls": none of them raises the friction
\* of any tool.  total counts the calls up to N.
FirstCallsAdjustNothing ==
  [][ctl'.total > ctl.total =>
       \A t \in Tools : Get(ctl'.friction, t) <= Get(ctl.friction, t)]_vars

\* Relief never takes a raised target back, however friction moves later.
ReliefIsKept ==
  [][\A t \in DOMAIN ctl.target : ctl'.target[t] >= ctl.target[t]]_vars

\* A client that waits longer before its next call is never left with more
\* friction on any tool by it, and a time stamp that goes back leaves no more
\* than one that stands still.  Not so with groups: waiting shrinks the rates
\* of the other tools, and the share of the group's pressure that the called
\* tool bears grows by it.
WaitingNeverHurts ==
  DOMAIN ctl.groups = {} =>
    \A t, u \in Tools, early, late \in Stamps :
      LET Left(ts) == Get(RecordCall(ctl, t, ts).friction, u) IN
      /\ early <= late => Left(late) <= Left(early)
      /\ ctl.last # NoTime => Left(early) <= Left(ctl.last)

\* Aggregate pressure falls on the tools that make the group's rate: a tool
\* with no rate of its own is not charged for what the others of its groups
\* do.  What a snapshot says of it is restored all the same.
ColdToolSpared ==
  [][\A t \in DOMAIN ctl.config :
       /\ Get(ctl'.ema, t) = 0
       /\ \A g \in DOMAIN ctl.groups : t \in ctl.groups[g].tools =>
            AggregateRate(ctl', ctl.groups[g]) > 0
       => \/ Get(ctl'.friction, t) <= Get(ctl.friction, t)
          \/ \E levels \in Restorable : ctl' = RestoreFriction(ctl, levels)]_vars

\* Friction is raised on a tool that is used more than it should be, and on no
\* other: its smoothed rate or that of a group it belongs to is over the target
\* in force, and outside the dead zone.  Neither idle time nor relief, nor the
\* configuration of a tool or a group raises any; only a snapshot does.
RaisedOnlyByOvershoot ==
  [][\A t \in Tools :
       \/ Get(ctl'.friction, t) <= Get(ctl.friction, t)
       \/ /\ t \in DOMAIN ctl.config
          /\ Get(ctl'.ema, t) - EffectiveTarget(ctl, t) >= DeadZone
       \/ \E g \in DOMAIN ctl.groups :
            /\ t \in ctl.groups[g].tools
            /\ Get(ctl'.groupEma, g) - ctl.groups[g].target > DeadZone
       \/ \E levels \in Restorable : ctl' = RestoreFriction(ctl, levels)]_vars

\* A client that from some point on only calls another tool gets the friction
\* of the rest back to zero: asymmetric decay traps nobody, and neither does
\* the rate of the group that the other tool belongs to.
OtherCallsRecover ==
  LET OnlyReads == \E ts \in Stamps : Call(Reader, ts) \/ UncontrolledCall(Reader, ts)
  IN  <>(ctl.last # NoTime) /\ <>[][OnlyReads \/ Drain]_vars
        => <>[](\A t \in DOMAIN ctl.config \ {Reader} : Get(ctl.friction, t) = 0)
============================================================================
