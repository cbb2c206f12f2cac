---------------------------- MODULE StateTimeline ----------------------------
(***************************************************************************)
(* The compact state timeline of one stream and one demanded state target: *)
(* which state_events a publication writes, retires and re-sequences, and  *)
(* the current_indicator_states row it leaves.  Readings arrive late and   *)
(* are corrected or deleted; publications are partial, cut off or forced.  *)
(*                                                                         *)
(* A reading abstracts the indicator values of a traded day to the side of *)
(* the state's threshold they are on and the edition of the bars they come *)
(* from.  Task overlap and fencing are in AnalysisStream: here a           *)
(* publication is the one transaction under the stream lock, and stored    *)
(* readings change between publications.  A configuration change that      *)
(* keeps the target is a forced publication.                               *)
(***************************************************************************)
EXTENDS Integers, FiniteSets

CONSTANTS MaxDay,      \* trading days considered
          MaxEdition,  \* bound on changes of the stored readings
          MaxGeneration  \* bound on publications that change what is read

ASSUME TimelineAssumption ==
    /\ MaxDay \in Nat \ {0}
    /\ MaxEdition \in Nat /\ MaxGeneration \in Nat

VARIABLES edge_mode,       \* TRUE: a crossing state, FALSE: a continuous one
          edition,
          reading,         \* indicator readings of the stored bars
          dirty_from, state_through, event_sequence, state_generation,  \* stream row
          events,          \* state_events, retired ones included
          current          \* the target's current_indicator_states row
vars == <<edge_mode, edition, reading, dirty_from, state_through,
          event_sequence, state_generation, events, current>>

Days == 1..MaxDay
None == 0
Sides == {"none", "low", "high"}
Reading == [side : Sides, edition : Nat]
NoReading == [side |-> "none", edition |-> 0]
Traded == {d \in Days : reading[d].side # "none"}

Statuses == {"ACTIVE", "INACTIVE", "UNKNOWN"}
Kinds == {"BASELINE", "ENTER", "EXIT", "UNKNOWN", "RECOVER"}
Event == [day : Days, kind : Kinds, status : Statuses, transition : BOOLEAN, meta : Nat,
          seq : Nat, restated : BOOLEAN, valid : BOOLEAN]
Row == [day : 0..MaxDay, status : Statuses, transition : BOOLEAN,
        since : 0..MaxDay, observed : 0..MaxDay]
NoRow == [day |-> None, status |-> "UNKNOWN", transition |-> FALSE,
          since |-> None, observed |-> None]

IsGreatest(x, S) == x \in S /\ \A y \in S : y <= x
Earlier(a, b) == IF a <= b THEN a ELSE b
Later(a, b) == IF a <= b THEN b ELSE a
LastDay(S) == CHOOSE r \in S : \A q \in S : q.day <= r.day

Init ==
    /\ edge_mode \in BOOLEAN
    /\ edition = 0 /\ reading = [d \in Days |-> NoReading]
    /\ dirty_from = None /\ state_through = None
    /\ event_sequence = 0 /\ state_generation = 0
    /\ events = {} /\ current = NoRow

TypeOK ==
    /\ edge_mode \in BOOLEAN /\ edition \in Nat /\ reading \in [Days -> Reading]
    /\ dirty_from \in 0..MaxDay /\ state_through \in 0..MaxDay
    /\ event_sequence \in Nat /\ state_generation \in Nat
    /\ events \in SUBSET Event /\ current \in Row

-----------------------------------------------------------------------------
(* A Hub transaction stores new or corrected bars from day first on, and a  *)
(* rebase may drop days between; every later reading depends on them.  The  *)
(* stream row is marked dirty in the same transaction.                      *)
StoreReadings(first, sides) ==
    /\ edition < MaxEdition /\ sides[first] # "none"
    /\ \A d \in Days : d < first => sides[d] = reading[d].side
    /\ \A d \in Traded : \E e \in Days : d <= e /\ sides[e] # "none"
    /\ edition' = edition + 1
    /\ reading' = [d \in Days |->
                     CASE d < first -> reading[d]
                       [] first <= d /\ sides[d] = "none" -> NoReading
                       [] OTHER -> [side |-> sides[d], edition |-> edition + 1]]
    /\ dirty_from' = IF dirty_from = None THEN first ELSE Earlier(dirty_from, first)
    /\ UNCHANGED <<edge_mode, state_through, event_sequence, state_generation,
                   events, current>>

-----------------------------------------------------------------------------
(* StateService.calculate                                                   *)

Valid == {e \in events : e.valid}

(* A day whose previous open day has no reading proves nothing.             *)
Status(d) ==
    IF d = 1 \/ (d - 1) \notin Traded THEN "UNKNOWN"
    ELSE IF reading[d].side = "high" THEN "ACTIVE" ELSE "INACTIVE"

(* seed_at: the last valid event strictly before a rewritten range.         *)
AnchorEvents(start) == {e \in Valid : e.day < start}
SeedStatus(start) ==
    IF AnchorEvents(start) = {} THEN "none" ELSE LastDay(AnchorEvents(start)).status

(* The status of the previous open day: recomputed in this pass, or seeded. *)
PriorStatus(start, d) == IF start < d THEN Status(d - 1) ELSE SeedStatus(start)

(* evaluate_state: a crossing is proven by two readings, entering a         *)
(* continuous state only by a known inactive predecessor.                   *)
EdgesOnly(start, d) == Status(d) = "ACTIVE" /\ reading[d - 1].side = "low"
Transition(start, d) ==
    /\ Status(d) = "ACTIVE"
    /\ IF edge_mode THEN reading[d - 1].side = "low" /\ PriorStatus(start, d) # "ACTIVE"
                   ELSE PriorStatus(start, d) = "INACTIVE"

-----------------------------------------------------------------------------
(* StateEventRepository.publish                                             *)

(* The status a rewritten day is compared with: that of the day rewritten   *)
(* before it, or of the anchor.                                             *)
Compared(start, days, d) ==
    LET before == {x \in days : x < d}
    IN IF before = {} THEN SeedStatus(start)
       ELSE Status(CHOOSE x \in before : \A y \in before : y <= x)

Kind(prior, status, provable) ==
    CASE prior = "none" -> "BASELINE"
      [] prior = status -> "none"
      [] prior \notin {"none", status} /\ status = "UNKNOWN" -> "UNKNOWN"
      [] prior = "UNKNOWN" /\ status # "UNKNOWN" ->
            IF status = "ACTIVE" /\ provable THEN "ENTER" ELSE "RECOVER"
      [] OTHER -> IF status = "ACTIVE" THEN "ENTER" ELSE "EXIT"

Payload(e) == [day |-> e.day, kind |-> e.kind, status |-> e.status,
               transition |-> e.transition, meta |-> e.meta]
Changes(start, days) ==
    {p \in {[day |-> d,
             kind |-> Kind(Compared(start, days, d), Status(d), Transition(start, d)),
             status |-> Status(d), transition |-> Transition(start, d),
             meta |-> reading[d].edition] : d \in days} : p.kind # "none"}

(* The valid events a publication replaces; no start: the whole timeline.   *)
Superseded(start, latest) == {e \in Valid : start <= e.day /\ e.day <= latest}

(* An event of a day that was already published is a restatement.           *)
RestatedBefore(day) == current.day = None \/ day < current.day
Restated(day) == current.day = None \/ day <= current.day

(* An unchanged suffix keeps its events and sequence numbers; a changed one *)
(* is retired as a whole and numbered anew in date order.                   *)
NumberedAfterKept(old, new) ==
    /\ events' = (events \ old)
           \union {[e EXCEPT !.valid = FALSE] : e \in old}
           \union {[day |-> p.day, kind |-> p.kind, status |-> p.status,
                    transition |-> p.transition, meta |-> p.meta,
                    seq |-> Cardinality(Valid \ old) + Cardinality({q \in new : q.day <= p.day}),
                    restated |-> Restated(p.day), valid |-> TRUE] : p \in new}
    /\ event_sequence' = Cardinality(Valid \ old) + Cardinality(new)
ReplaceSuffix(old, new) ==
    IF {Payload(e) : e \in old} = new
      THEN UNCHANGED <<events, event_sequence>>
      ELSE /\ events' = (events \ old)
                \union {[e EXCEPT !.valid = FALSE] : e \in old}
                \union {[day |-> p.day, kind |-> p.kind, status |-> p.status,
                         transition |-> p.transition, meta |-> p.meta,
                         seq |-> event_sequence + Cardinality({q \in new : q.day <= p.day}),
                         restated |-> Restated(p.day), valid |-> TRUE] : p \in new}
           /\ event_sequence' = event_sequence + Cardinality(new)

(* The pagination version: the set of valid events changed, even to fewer,  *)
(* or the current observation advanced and moved the default window.        *)
VersionBySequence(old, new, latest) == IF new # {} THEN state_generation + 1 ELSE state_generation
Version(old, new, latest) ==
    IF {Payload(e) : e \in old} # new \/ current.day # latest
      THEN state_generation + 1 ELSE state_generation

(* The current row: status of the last observation; since and observed_from *)
(* of the last event, which an unchanged status inherits from the anchor.   *)
SinceLost(start, new, latest) ==
    [day |-> latest, status |-> Status(latest), transition |-> Transition(start, latest),
     observed |-> latest, since |-> None]
CurrentRow(start, new, latest) ==
    LET last == LastDay({Payload(e) : e \in AnchorEvents(start)} \union new)
    IN [day |-> latest, status |-> Status(latest), transition |-> Transition(start, latest),
        observed |-> last.day,
        since |-> IF last.kind \in {"ENTER", "EXIT"} THEN last.day ELSE None]

Publish(start, days, latest) ==
    LET old == Superseded(start, latest)
        new == Changes(start, days)
    IN /\ ReplaceSuffix(old, new)
       /\ state_generation' = Version(old, new, latest)
       /\ current' = IF days = {} THEN NoRow ELSE CurrentRow(start, new, latest)

-----------------------------------------------------------------------------
(* AnalysisService.materialize with a cutoff.  The rebuilt range is the     *)
(* whole history (None) when forced or never published, else from the       *)
(* dirty date.  If that leaves no day to rewrite, publish is called with no *)
(* observations and no start.                                               *)
StartDay(force) == IF force \/ state_through = None THEN None ELSE dirty_from

UpToDate(end) ==
    /\ dirty_from = None /\ state_through # None
    /\ \E latest \in Days : IsGreatest(latest, {d \in Traded : d <= end})
                              /\ state_through <= latest
    /\ UNCHANGED vars

Materialize(end, force) ==
    /\ state_generation < MaxGeneration
    /\ force \/ state_through = None \/ dirty_from # None
    /\ \E latest \in Days :
         LET start == StartDay(force)
             days == {d \in Traded : start <= d /\ d <= latest}
         IN /\ IsGreatest(latest, {d \in Traded : d <= end})
            /\ state_through <= latest
            /\ Publish(IF days = {} THEN None ELSE start, days, latest)
            /\ state_through' = latest
            /\ dirty_from' = IF \E d \in Traded : latest < d THEN dirty_from ELSE None
    /\ UNCHANGED <<edge_mode, edition, reading>>

-----------------------------------------------------------------------------
Next ==
    \/ \E first \in Days, sides \in [Days -> Sides] : StoreReadings(first, sides)
    \/ \E end \in Days, force \in BOOLEAN : Materialize(end, force)
    \/ \E end \in Days : UpToDate(end)

Spec == Init /\ [][Next]_vars

-----------------------------------------------------------------------------
(* Properties.                                                              *)

(* What the days from origin on should leave, stated without anchors: an    *)
(* event where the status differs from that of the last traded day.         *)
Reference(origin, through) ==
    LET days == {d \in Traded : origin <= d /\ d <= through}
        before(d) == IF d = origin THEN "none"
                     ELSE Status(CHOOSE x \in days : x < d /\ \A y \in days : y < d => y <= x)
        proven(d) == /\ Status(d) = "ACTIVE"
                     /\ IF edge_mode THEN reading[d - 1].side = "low"
                                    ELSE d # origin /\ Status(d - 1) = "INACTIVE"
    IN {[day |-> d, kind |-> Kind(before(d), Status(d), proven(d)), status |-> Status(d),
         transition |-> proven(d), meta |-> reading[d].edition] :
            d \in {d \in days : before(d) # Status(d)}}

(* However many corrected, deleted, cut-off, forced and repeated partial    *)
(* publications came before: the valid events before the dirty date are     *)
(* exactly those of a single pass over the stored readings that starts at   *)
(* the first event, so an incremental publication loses or invents no       *)
(* change of state at the seam; and the current row is the last of them,    *)
(* "since" only for a proven entry or exit, although that event may be      *)
(* older than the rewritten range.                                          *)
IncrementalEqualsOnePass ==
    LET clean == IF dirty_from = None THEN state_through
                 ELSE Earlier(state_through, dirty_from - 1)
    IN
    /\ \A first \in Valid :
         (\A e \in Valid : first.day <= e.day) /\ first.day <= clean =>
            {Payload(e) : e \in {e \in Valid : e.day <= clean}} = Reference(first.day, clean)
    /\ current # NoRow =>
         \E e \in Valid :
            /\ \A f \in Valid : f.day <= e.day
            /\ current.status = e.status /\ current.observed = e.day
            /\ current.since = IF e.kind \in {"ENTER", "EXIT"} THEN e.day ELSE None

(* Sequence order of the valid events is date order, one event per day, and *)
(* no number was issued twice: a consumer that only remembers the highest   *)
(* number it has seen misses no change.                                     *)
SequenceFollowsDates ==
    /\ \A e, f \in Valid : e.day < f.day <=> e.seq < f.seq
    /\ \A e, f \in events : e.seq = f.seq => e = f

(* A day is announced as live news at most once, whatever is republished:   *)
(* "Historical replacements must not masquerade as new live edges".         *)
LiveAtMostOnce ==
    \A e, f \in events : ~e.restated /\ ~f.restated /\ e.day = f.day => e = f

=============================================================================
