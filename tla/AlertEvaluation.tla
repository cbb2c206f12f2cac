--------------------------- MODULE AlertEvaluation ---------------------------
(***************************************************************************)
(* One alert rule on one stream: its scheduled evaluation after each       *)
(* publication, the catch-up of missed days, and the edits of its owner,   *)
(* while StateTimeline publishes, corrects and rebuilds underneath.  The   *)
(* rule is a STATE rule (continuous or crossing) or a VALUE rule on the    *)
(* stored indicator snapshots.                                             *)
(*                                                                         *)
(* An evaluation holds the rule row exclusively and the stream row shared  *)
(* until its single commit, so it is one step; a worker that dies before   *)
(* the commit takes no step, and nothing forces an evaluation to happen    *)
(* between two publications.                                               *)
(***************************************************************************)
EXTENDS StateTimeline

CONSTANTS MaxChanges,   \* bound on editions of the readings and of the rule together
          MaxTriggers   \* bound on triggers of the rule on other securities

VARIABLES condition_type,  \* "STATE" or "VALUE"
          snapshot,        \* the rule's variant in indicator_snapshots, per day
          demand_pending,  \* demand_generation is ahead of the published one
          rule,            \* the alert_rules row
          inst,            \* its alert_instances row on this security
          notifications,   \* outbox rows enqueued for this security
          announced        \* edition with which a day was first published
alertVars == <<condition_type, snapshot, demand_pending, rule, inst, notifications, announced>>

NoSnapshot == [side |-> "none", edition |-> 0, restated |-> FALSE]
Unpublished == -1
NoInstance == [status |-> "none", rule_version |-> 0, trigger_sequence |-> 0,
               last_evaluated_trade_date |-> None, last_consumed_state_seq |-> 0,
               baseline |-> None]
HasInstance == inst.status # "none"
Snapshot == [side : Sides, edition : Nat, restated : BOOLEAN]
Rule == [enabled : BOOLEAN, rule_version : Nat, trigger_sequence : Nat, here : BOOLEAN]
Instance == [status : {"none", "ACTIVE", "RESET"}, rule_version : Nat, trigger_sequence : Nat,
             last_evaluated_trade_date : 0..MaxDay, last_consumed_state_seq : Nat,
             baseline : 0..MaxDay]
Notification == [seq : Nat, rule_version : Nat, day : Days]

AlertInit ==
    /\ Init
    /\ condition_type \in {"STATE", "VALUE"} /\ (edge_mode => condition_type = "STATE")
    /\ snapshot = [d \in Days |-> NoSnapshot] /\ demand_pending = FALSE
    /\ rule = [enabled |-> TRUE, rule_version |-> 1, trigger_sequence |-> 0, here |-> TRUE]
    /\ inst = NoInstance /\ notifications = {}
    /\ announced = [d \in Days |-> Unpublished]

AlertTypeOK ==
    /\ TypeOK
    /\ condition_type \in {"STATE", "VALUE"} /\ snapshot \in [Days -> Snapshot]
    /\ demand_pending \in BOOLEAN /\ rule \in Rule /\ inst \in Instance
    /\ notifications \in SUBSET Notification
    /\ announced \in [Days -> Nat \union {Unpublished}]

-----------------------------------------------------------------------------
(* The environment of the rule: bars arrive and publications write the      *)
(* snapshots of the rewritten range.  A snapshot carries the watermark of   *)
(* the publication before; a first publication restates everything.         *)
RestatedThrough(latest) == IF state_through = None THEN latest ELSE state_through

WriteSnapshots(start, latest) ==
    snapshot' = [d \in Days |->
                   IF start <= d /\ d <= latest
                     THEN IF d \in Traded
                            THEN [side |-> reading[d].side, edition |-> reading[d].edition,
                                  restated |-> d <= RestatedThrough(latest)]
                            ELSE NoSnapshot
                     ELSE snapshot[d]]
Announce(latest) ==
    announced' = [d \in Days |-> IF d <= latest /\ announced[d] = Unpublished
                                   THEN reading[d].edition ELSE announced[d]]

(* Bound: corrections and edits share one budget.                           *)
WithinBudget == edition + rule.rule_version <= MaxChanges

Arrival ==
    /\ WithinBudget
    /\ \E first \in Days, sides \in [Days -> Sides] : StoreReadings(first, sides)
    /\ UNCHANGED alertVars
Publication(end, force) ==
    /\ Materialize(end, force)
    /\ WriteSnapshots(StartDay(force), state_through') /\ Announce(state_through')
    /\ demand_pending' = FALSE
    /\ UNCHANGED <<condition_type, rule, inst, notifications>>
NothingToPublish(end) ==
    /\ UpToDate(end) /\ demand_pending /\ demand_pending' = FALSE
    /\ UNCHANGED <<condition_type, snapshot, rule, inst, notifications, announced>>

-----------------------------------------------------------------------------
(* AlertObservationService                                                  *)
publication_is_current == state_through # None /\ dirty_from = None /\ ~demand_pending

LatestSnapshot == {d \in Days : IsGreatest(d, {x \in Days : snapshot[x].side # "none"})}

(* The day observed and whether the condition holds on it; no element when  *)
(* the target has no known observation.                                     *)
ResolveState ==
    IF current.day = None \/ current.status = "UNKNOWN" THEN {}
    ELSE {[day |-> current.day,
           active |-> current.status = "ACTIVE" /\ (edge_mode => current.transition)]}
ResolveValue == {[day |-> d, active |-> snapshot[d].side = "high"] : d \in LatestSnapshot}
Resolve == IF ~publication_is_current THEN {}
           ELSE IF condition_type = "STATE" THEN ResolveState ELSE ResolveValue

-----------------------------------------------------------------------------
(* alert_replay.catch_up: what each missed day does, in date order.         *)

LastSeen == inst.last_evaluated_trade_date
MissedEvents(day) ==
    {e \in Valid : /\ LastSeen < e.day /\ e.day <= day
                   /\ inst.last_consumed_state_seq < e.seq /\ e.status # "UNKNOWN"}
MissedSnapshots(day) ==
    {d \in Days : LastSeen < d /\ d <= day /\ snapshot[d].side # "none"}

(* A fresh ENTER is proof of a new occurrence; a restatement is not one.    *)
AnyEntry(e) == e.kind = "ENTER"
FreshEntry(e) == e.kind = "ENTER" /\ ~e.restated

(* Status left by the last missed event; a crossing is active only on its   *)
(* own day.                                                                 *)
StatusFromEvents(day) ==
    IF MissedEvents(day) = {} THEN inst.status
    ELSE LET e == LastDay(MissedEvents(day))
         IN IF (IF edge_mode THEN FreshEntry(e) ELSE e.status = "ACTIVE")
              THEN "ACTIVE" ELSE "RESET"

(* A VALUE rule triggers on a day that satisfies it after one that did not; *)
(* restated days move the status silently.                                  *)
StatusBefore(day, d) ==
    LET before == {x \in MissedSnapshots(day) : x < d}
    IN IF before = {} THEN inst.status
       ELSE IF snapshot[CHOOSE x \in before : \A y \in before : y <= x].side = "high"
              THEN "ACTIVE" ELSE "RESET"
Fires(day, d) == snapshot[d].side = "high" /\ StatusBefore(day, d) # "ACTIVE"
SilentWhenRestated(d) == ~snapshot[d].restated
TrustsActiveBit(day) ==
    IF condition_type = "STATE"
      THEN {e.day : e \in {e \in MissedEvents(day) : FreshEntry(e) /\ inst.status = "RESET"}}
      ELSE {d \in MissedSnapshots(day) : Fires(day, d) /\ SilentWhenRestated(d)}
CatchUpDays(day) ==
    IF condition_type = "STATE" THEN {e.day : e \in {e \in MissedEvents(day) : FreshEntry(e)}}
    ELSE {d \in MissedSnapshots(day) : Fires(day, d) /\ SilentWhenRestated(d)}
CatchUpStatus(day) ==
    IF condition_type = "STATE" THEN StatusFromEvents(day) ELSE StatusBefore(day, day + 1)

-----------------------------------------------------------------------------
(* _enqueue_trigger: numbers are issued from the locked rule row.           *)
NextTrigger == Later(rule.trigger_sequence,
                     IF HasInstance THEN inst.trigger_sequence ELSE rule.trigger_sequence)
Enqueue(days) ==
    /\ notifications' = notifications \union
         {[seq |-> NextTrigger + Cardinality({x \in days : x <= d}),
           rule_version |-> rule.rule_version, day |-> d] : d \in days}
    /\ rule' = IF days = {} THEN rule
               ELSE [rule EXCEPT !.trigger_sequence = NextTrigger + Cardinality(days)]
IssuedBy(days) == IF days = {} THEN (IF HasInstance THEN inst.trigger_sequence
                                     ELSE rule.trigger_sequence)
                  ELSE NextTrigger + Cardinality(days)

Activity(active) == IF active THEN "ACTIVE" ELSE "RESET"
Settle(status, day, consumed, days, baseline) ==
    inst' = [status |-> status, rule_version |-> rule.rule_version,
             trigger_sequence |-> IssuedBy(days), last_evaluated_trade_date |-> day,
             last_consumed_state_seq |-> consumed, baseline |-> baseline]

Current == HasInstance /\ inst.rule_version = rule.rule_version
Evaluable == rule.here /\ rule.enabled
(* Consumed is only maintained for STATE rules.                             *)
ConsumedNow == IF condition_type = "STATE" THEN event_sequence
               ELSE IF HasInstance THEN inst.last_consumed_state_seq ELSE 0

(* _evaluate_rule with an observation of the scheduled day.                 *)

(* No baseline yet (new, edited or moved): the edge is taken from RESET.    *)
EvaluateFirst(o) ==
    /\ Current => LastSeen = None
    /\ LET days == IF o.active THEN {o.day} ELSE {}
       IN /\ Enqueue(days)
          /\ Settle(Activity(o.active), o.day, ConsumedNow, days, o.day)

(* Earlier observation dates are replays of the past; the same date again   *)
(* only corrects the status.                                                *)
EvaluateAgain(o) ==
    /\ Current /\ LastSeen # None /\ o.day <= LastSeen
    /\ inst' = IF o.day = LastSeen THEN [inst EXCEPT !.status = Activity(o.active)] ELSE inst
    /\ UNCHANGED <<rule, notifications>>

ForgetsWatermark(day, status, consumed) ==
    LET days == CatchUpDays(day)
    IN Enqueue(days) /\ Settle(status, LastSeen, consumed, days, inst.baseline)
CatchUp(day, status, consumed) ==
    LET days == CatchUpDays(day)
    IN Enqueue(days) /\ Settle(status, day, consumed, days, inst.baseline)
EvaluateNew(o) ==
    /\ Current /\ LastSeen # None /\ LastSeen < o.day
    /\ CatchUp(o.day, IF condition_type = "STATE" THEN Activity(o.active)
                      ELSE CatchUpStatus(o.day), ConsumedNow)

(* _unavailable_observation: a published day without a known observation is *)
(* checked off; a day still to be published is not.                         *)
Unavailable(day) ==
    /\ publication_is_current /\ state_through = day
    /\ IF Current /\ LastSeen # None /\ LastSeen < day
         THEN CatchUp(day, CatchUpStatus(day), ConsumedNow)
         ELSE /\ IF ~Current THEN Settle("RESET", day, event_sequence, {}, day)
                 ELSE inst' = IF LastSeen = None \/ LastSeen <= day
                                THEN [inst EXCEPT !.last_evaluated_trade_date = day,
                                                  !.last_consumed_state_seq = event_sequence,
                                                  !.baseline = IF LastSeen = None THEN day ELSE @]
                                ELSE inst
              /\ UNCHANGED <<rule, notifications>>

Evaluate(day) ==
    /\ Evaluable
    /\ \/ \E o \in Resolve : /\ o.day = day
                             /\ EvaluateFirst(o) \/ EvaluateAgain(o) \/ EvaluateNew(o)
       \/ /\ \A o \in Resolve : o.day # day
          /\ Unavailable(day)
    /\ UNCHANGED <<vars, condition_type, snapshot, demand_pending, announced>>

-----------------------------------------------------------------------------
(* AlertService.update.  A changed signature is a new version whose         *)
(* baseline is forgotten; a changed security drops the instance.            *)
ResetInstance ==
    IF HasInstance THEN [inst EXCEPT !.status = "RESET", !.rule_version = rule.rule_version + 1,
                                     !.last_evaluated_trade_date = None, !.baseline = None]
    ELSE inst
Edit(enabled) ==
    /\ WithinBudget /\ rule.here
    /\ rule' = [rule EXCEPT !.enabled = enabled, !.rule_version = @ + 1]
    /\ inst' = ResetInstance
    /\ demand_pending' = TRUE
    /\ UNCHANGED <<vars, condition_type, snapshot, notifications, announced>>
Retarget ==
    /\ WithinBudget
    /\ rule' = [rule EXCEPT !.here = ~@, !.rule_version = @ + 1]
    /\ inst' = NoInstance
    /\ demand_pending' = TRUE
    /\ UNCHANGED <<vars, condition_type, snapshot, notifications, announced>>
TriggerElsewhere ==
    /\ ~rule.here /\ rule.enabled /\ rule.trigger_sequence < MaxTriggers
    /\ rule' = [rule EXCEPT !.trigger_sequence = @ + 1]
    /\ UNCHANGED <<vars, condition_type, snapshot, demand_pending, inst, notifications, announced>>

-----------------------------------------------------------------------------
AlertNext ==
    \/ Arrival
    \/ \E end \in Days, force \in BOOLEAN : Publication(end, force)
    \/ \E end \in Days : NothingToPublish(end)
    \/ \E day \in Days : Evaluate(day)
    \/ \E enabled \in BOOLEAN : Edit(enabled)
    \/ Retarget
    \/ TriggerElsewhere

AlertSpec == AlertInit /\ [][AlertNext]_<<vars, alertVars>>

-----------------------------------------------------------------------------
(* Properties.                                                              *)

(* Whatever is corrected, rebuilt, edited, moved away and back: trigger     *)
(* numbers never repeat, and within one version of the rule they follow the *)
(* dates, so a day is announced at most once ("A retry reads the cursor and *)
(* cannot re-enqueue the same timeline").                                   *)
TriggersFollowDates ==
    /\ \A m, n \in notifications : m.seq = n.seq => m = n
    /\ \A m, n \in notifications :
         m.rule_version = n.rule_version => (m.seq < n.seq <=> m.day < n.day)

(* However long the rule was not evaluated, a fresh entry between its       *)
(* baseline and its watermark was announced, unless a correction retired    *)
(* it.  For a VALUE rule: a live day that satisfies the condition after a   *)
(* live one that does not.                                                  *)
EveryLiveEntryAnnounced ==
    Current /\ LastSeen # None =>
        \A d \in Days :
            /\ inst.baseline < d /\ d <= LastSeen
            /\ IF condition_type = "STATE"
                 THEN \E e \in Valid : e.day = d /\ e.kind = "ENTER" /\ ~e.restated
                 ELSE /\ snapshot[d].side = "high" /\ ~snapshot[d].restated
                      /\ d - 1 \in Days /\ snapshot[d - 1].side = "low"
                      /\ ~snapshot[d - 1].restated
            => \E n \in notifications : n.day = d /\ n.rule_version = rule.rule_version

(* After its baseline a rule only announces days whose readings are still   *)
(* the ones first published: a correction, a late bar or a rebuild of the   *)
(* past is never sent as news ("historical restatement is not a new market  *)
(* event").                                                                 *)
CorrectionsAreSilent ==
    [][\A n \in notifications' \ notifications :
         n.day # inst'.baseline => announced[n.day] = snapshot[n.day].edition]_<<vars, alertVars>>
=============================================================================
