------------------------- MODULE AlertEvaluationProofs -------------------------
(***************************************************************************)
(* The event timeline and the alert rule that follows it, proved for any   *)
(* number of days, corrections, publications and edits.                    *)
(***************************************************************************)
EXTENDS AlertEvaluation, EventPaging, FiniteSetTheorems, FunctionTheorems, WellFoundedInduction, NaturalsInduction, TLAPS

(* What every publication can rely on: no event is newer than the           *)
(* watermark, none has a number above the stream's, and the current row, if *)
(* there is one, is of the watermark's day.                                 *)
TimelineInv ==
    /\ TypeOK
    /\ current.day \in {None, state_through}
    /\ \A e \in events : 1 <= e.seq /\ e.seq <= event_sequence /\ e.day <= state_through
    /\ \A e \in events : e.kind = "ENTER" => e.status = "ACTIVE"
    /\ SequenceFollowsDates
    /\ LiveAtMostOnce

(* What is stored of a day was first announced with the same readings,      *)
(* unless it is marked as a restatement.                                    *)
PublishedInv ==
    /\ \A d \in Days : announced[d] = Unpublished <=> state_through < d
    /\ \A d \in Days : snapshot[d].side # "none" => d <= state_through
    /\ \A d \in Days : snapshot[d].side # "none" /\ ~snapshot[d].restated =>
                          announced[d] = snapshot[d].edition
    /\ \A e \in Valid : /\ snapshot[e.day].edition = e.meta
                        /\ ~e.restated => announced[e.day] = e.meta

(* The cursors of an instance: its watermark is at most the stream's, and   *)
(* the events it has consumed are not newer than its watermark.             *)
CursorInv ==
    /\ inst.last_evaluated_trade_date <= state_through
    /\ inst.last_consumed_state_seq <= event_sequence
    /\ HasInstance /\ LastSeen = None => inst.status = "RESET"
    /\ ~HasInstance => LastSeen = None
    /\ HasInstance => inst.trigger_sequence <= rule.trigger_sequence
    /\ condition_type = "STATE" /\ LastSeen # None =>
         \A e \in events : e.seq <= inst.last_consumed_state_seq => e.day <= LastSeen
    /\ /\ condition_type = "VALUE" /\ LastSeen # None
       /\ snapshot[LastSeen].side = "low" /\ ~snapshot[LastSeen].restated
       => inst.status # "ACTIVE"

(* Numbers are issued below the rule's counter; the announced days of the   *)
(* current version are behind the instance's watermark.                     *)
NumbersInv ==
    /\ \A n \in notifications : n.seq <= rule.trigger_sequence /\ n.rule_version <= rule.rule_version
    /\ \A n \in notifications : n.rule_version = rule.rule_version => Current /\ n.day <= LastSeen
    /\ TriggersFollowDates

AlertInv ==
    /\ AlertTypeOK /\ TimelineInv /\ PublishedInv /\ CursorInv /\ NumbersInv
    /\ EveryLiveEntryAnnounced

-----------------------------------------------------------------------------
(* Lemmas on days and numbers.                                              *)

LEMMA DaysAreNumbers == Days \subseteq Nat /\ \A d \in Days : 1 <= d /\ d <= MaxDay
BY TimelineAssumption DEF Days

LEMMA LeastExists ==
    ASSUME NEW T \in SUBSET Nat, T # {}
    PROVE  \E x \in T : \A y \in T : x <= y
<1>1. PICK m \in T : \A n \in T : ~(<<n, m>> \in OpToRel(<, Nat))
  BY NatLessThanWellFounded, WFMin
<1>2. ASSUME NEW n \in T PROVE m <= n
  <2>1. n < m => <<n, m>> \in OpToRel(<, Nat) BY DEF OpToRel
  <2>2. ~(n < m) BY <1>1, <2>1, Zenon
  <2> QED BY <2>2
<1> QED BY <1>2

LEMMA GreatestExists ==
    ASSUME NEW T \in SUBSET Days, T # {}
    PROVE  \E x \in T : \A y \in T : y <= x
<1> DEFINE Left == {MaxDay - x : x \in T}
<1>1. Left \in SUBSET Nat /\ Left # {}
  <2>1. \A x \in T : MaxDay - x \in Nat BY TimelineAssumption, DaysAreNumbers
  <2>2. \A x \in T : MaxDay - x \in Left OBVIOUS
  <2> QED BY <2>1, <2>2
<1>2. PICK m \in Left : \A n \in Left : m <= n
  <2> HIDE DEF Left
  <2> QED BY <1>1, LeastExists
<1>3. PICK x \in T : m = MaxDay - x OBVIOUS
<1>4. ASSUME NEW y \in T PROVE y <= x
  <2>1. MaxDay - x <= MaxDay - y BY <1>2, <1>3
  <2> QED BY <2>1, TimelineAssumption, DaysAreNumbers
<1> QED BY <1>4

(* A set with one more element has a greater cardinality.                   *)
LEMMA CountGrows ==
    ASSUME NEW S, IsFiniteSet(S), NEW A \in SUBSET S, NEW B \in SUBSET S, A \subseteq B
    PROVE  /\ Cardinality(A) \in Nat /\ Cardinality(B) \in Nat
           /\ Cardinality(A) <= Cardinality(B)
           /\ A # B => Cardinality(A) < Cardinality(B)
<1>1. IsFiniteSet(A) /\ IsFiniteSet(B) BY FS_Subset
<1>2. Cardinality(A) \in Nat /\ Cardinality(B) \in Nat BY <1>1, FS_CardinalityType
<1>3. A \in SUBSET B OBVIOUS
<1>4. Cardinality(A) <= Cardinality(B) /\ (Cardinality(B) = Cardinality(A) => B = A)
  BY <1>1, <1>3, FS_Subset
<1> QED BY <1>2, <1>4

(* Numbers counted by day: distinct days get distinct numbers in date order.*)
Number(new, p) == Cardinality({q \in new : q.day <= p.day})
OnePerDay(new) == (\A p \in new : p.day \in Days) /\ \A p, q \in new : p.day = q.day => p = q

LEMMA NumbersFollowDays ==
    ASSUME NEW new, OnePerDay(new)
    PROVE  /\ Cardinality(new) \in Nat
           /\ \A p \in new : Number(new, p) \in Nat /\ 1 <= Number(new, p)
                               /\ Number(new, p) <= Cardinality(new)
           /\ \A p, q \in new : p.day < q.day => Number(new, p) < Number(new, q)
<1>0. \A p \in new : p.day \in Nat BY DaysAreNumbers DEF OnePerDay
<1>1. IsFiniteSet(new)
  <2> DEFINE f == [p \in new |-> p.day]
  <2>1. f \in Injection(new, Days) BY DEF OnePerDay, Injection, IsInjective
  <2>2. IsFiniteSet(Days) BY TimelineAssumption, FS_Interval DEF Days
  <2> QED BY <2>1, <2>2, FS_Injection
<1> DEFINE upTo(p) == {q \in new : q.day <= p.day}
<1>2. ASSUME NEW p \in new
      PROVE  Number(new, p) \in Nat /\ 1 <= Number(new, p) /\ Number(new, p) <= Cardinality(new)
             /\ Cardinality(new) \in Nat
  <2>1. {} \in SUBSET new /\ upTo(p) \in SUBSET new /\ p \in upTo(p) BY <1>0
  <2>2. Cardinality(upTo(p)) \in Nat /\ Cardinality({}) < Cardinality(upTo(p))
    BY <1>1, <2>1, CountGrows
  <2>3. Cardinality(upTo(p)) <= Cardinality(new) /\ Cardinality(new) \in Nat
    BY <1>1, <2>1, CountGrows
  <2> QED BY <2>2, <2>3, FS_EmptySet DEF Number
<1>3. ASSUME NEW p \in new, NEW q \in new, p.day < q.day PROVE Number(new, p) < Number(new, q)
  <2>1. upTo(p) \in SUBSET new /\ upTo(q) \in SUBSET new OBVIOUS
  <2>2. upTo(p) \subseteq upTo(q) BY <1>0, <1>3
  <2>3. q \in upTo(q) /\ q \notin upTo(p) BY <1>0, <1>3
  <2>4. upTo(p) # upTo(q) BY <2>3
  <2> HIDE DEF upTo
  <2>5. Cardinality(upTo(p)) < Cardinality(upTo(q)) BY <1>1, <2>1, <2>2, <2>4, CountGrows
  <2> QED BY <2>5 DEF Number, upTo
<1>4. Cardinality(new) \in Nat BY <1>1, FS_CardinalityType
<1> QED BY <1>2, <1>3, <1>4

-----------------------------------------------------------------------------
(* Publication of the timeline.                                             *)

LEMMA KindOfStatus ==
    ASSUME NEW prior, NEW status \in Statuses, NEW provable \in BOOLEAN
    PROVE  /\ Kind(prior, status, provable) \in Kinds \union {"none"}
           /\ Kind(prior, status, provable) = "ENTER" => status = "ACTIVE"
           /\ prior = "none" => Kind(prior, status, provable) = "BASELINE"
BY DEF Kind, Kinds, Statuses

(* The changes of a pass: one per rewritten day, with that day's reading.   *)
ChangeOf(start, days, d) ==
    [day |-> d, kind |-> Kind(Compared(start, days, d), Status(d), Transition(start, d)),
     status |-> Status(d), transition |-> Transition(start, d), meta |-> reading[d].edition]

LEMMA ChangeShape ==
    ASSUME TypeOK, NEW start, NEW days \in SUBSET Days, NEW d \in days
    PROVE  LET p == ChangeOf(start, days, d)
           IN /\ p.day = d /\ p.kind \in Kinds \union {"none"} /\ p.status = Status(d)
              /\ p.status \in Statuses /\ p.transition \in BOOLEAN
              /\ p.meta = reading[d].edition /\ p.meta \in Nat
              /\ p.kind = "ENTER" => p.status = "ACTIVE"
<1>1. Status(d) \in Statuses BY DEF Status, Statuses
<1>2. Transition(start, d) \in BOOLEAN BY DEF Transition
<1>3. reading[d].edition \in Nat BY DEF TypeOK, Reading
<1> QED BY <1>1, <1>2, <1>3, KindOfStatus DEF ChangeOf

LEMMA ChangesShape ==
    ASSUME TypeOK, NEW start, NEW days \in SUBSET Days
    PROVE  /\ OnePerDay(Changes(start, days))
           /\ \A p \in Changes(start, days) :
                /\ p.day \in days /\ p = ChangeOf(start, days, p.day)
                /\ p.kind \in Kinds /\ p.status \in Statuses /\ p.transition \in BOOLEAN
                /\ p.meta = reading[p.day].edition /\ p.meta \in Nat
                /\ p.kind = "ENTER" => p.status = "ACTIVE"
           /\ \A d \in days : ChangeOf(start, days, d).kind # "none" =>
                ChangeOf(start, days, d) \in Changes(start, days)
<1>1. Changes(start, days) = {p \in {ChangeOf(start, days, d) : d \in days} : p.kind # "none"}
  BY DEF Changes, ChangeOf
<1>2. ASSUME NEW p \in Changes(start, days)
      PROVE  /\ p.day \in days /\ p = ChangeOf(start, days, p.day) /\ p.kind \in Kinds
             /\ p.status \in Statuses /\ p.transition \in BOOLEAN
             /\ p.meta = reading[p.day].edition /\ p.meta \in Nat
             /\ p.kind = "ENTER" => p.status = "ACTIVE"
  <2>1. PICK d \in days : p = ChangeOf(start, days, d) /\ p.kind # "none" BY <1>1
  <2> QED BY <2>1, ChangeShape
<1>3. OnePerDay(Changes(start, days)) BY <1>2 DEF OnePerDay
<1> QED BY <1>1, <1>2, <1>3

(* The events a changed suffix leaves: those kept, those retired, new ones. *)
Retired(e) == [e EXCEPT !.valid = FALSE]
NewEvent(new, p) ==
    [day |-> p.day, kind |-> p.kind, status |-> p.status, transition |-> p.transition,
     meta |-> p.meta, seq |-> event_sequence + Number(new, p), restated |-> Restated(p.day),
     valid |-> TRUE]

LEMMA RetiredShape ==
    ASSUME NEW e \in Event
    PROVE  /\ Retired(e) \in Event /\ Retired(e).day = e.day /\ Retired(e).seq = e.seq
           /\ Retired(e).restated = e.restated /\ Retired(e).kind = e.kind
           /\ Retired(e).status = e.status /\ ~Retired(e).valid
BY DEF Retired, Event

(* What replacing the suffix from start leaves, for any set of changes with *)
(* one per day in the replaced range.                                       *)
LEMMA SuffixReplaced ==
    ASSUME TimelineInv, NEW start \in 0..MaxDay, NEW latest \in Days, state_through <= latest,
           NEW new, OnePerDay(new),
           \A p \in new : /\ start <= p.day /\ p.day <= latest
                          /\ p.kind \in Kinds /\ p.status \in Statuses
                          /\ p.transition \in BOOLEAN /\ p.meta \in Nat
                          /\ p.kind = "ENTER" => p.status = "ACTIVE",
           NEW old, old = Superseded(start, latest),
           events' = (events \ old) \union {Retired(e) : e \in old} \union {NewEvent(new, p) : p \in new},
           event_sequence' = event_sequence + Cardinality(new)
    PROVE  /\ events' \in SUBSET Event /\ event_sequence' \in Nat /\ event_sequence <= event_sequence'
           /\ \A e \in events' : 1 <= e.seq /\ e.seq <= event_sequence' /\ e.day <= latest
           /\ \A e \in events' : e.kind = "ENTER" => e.status = "ACTIVE"
           /\ SequenceFollowsDates' /\ LiveAtMostOnce'
           /\ \A e \in Valid' : \/ e \in Valid /\ e.day < start
                                \/ \E p \in new : e = NewEvent(new, p)
           /\ \A e \in events' : e.seq <= event_sequence => \E f \in events : f.seq = e.seq /\ f.day = e.day
<1>0. /\ TypeOK /\ SequenceFollowsDates /\ LiveAtMostOnce /\ current.day \in {None, state_through}
      /\ \A e \in events : /\ 1 <= e.seq /\ e.seq <= event_sequence /\ e.day <= state_through
                           /\ e.kind = "ENTER" => e.status = "ACTIVE"
  BY DEF TimelineInv
<1>1. /\ event_sequence \in Nat /\ state_through \in Nat /\ start \in Nat /\ latest \in Nat
      /\ \A e \in events : e \in Event /\ e.seq \in Nat /\ e.day \in Nat
  <2>1. event_sequence \in Nat /\ state_through \in 0..MaxDay /\ events \in SUBSET Event
    BY <1>0 DEF TypeOK
  <2>2. \A e \in Event : e.seq \in Nat /\ e.day \in Nat BY DaysAreNumbers DEF Event
  <2> QED BY <2>1, <2>2, DaysAreNumbers, TimelineAssumption
<1>2. /\ Cardinality(new) \in Nat
      /\ \A p \in new : Number(new, p) \in Nat /\ 1 <= Number(new, p) /\ Number(new, p) <= Cardinality(new)
      /\ \A p, q \in new : p.day < q.day => Number(new, p) < Number(new, q)
  BY NumbersFollowDays
<1>3. \A p \in new : p.day \in Days /\ p.day \in Nat BY DaysAreNumbers DEF OnePerDay
<1>4. old \subseteq events /\ \A e \in events : e.valid /\ e \notin old => e.day < start
  BY <1>0, <1>1 DEF Superseded, Valid
<1> DEFINE K == events \ old
           R == {Retired(e) : e \in old}
           N == {NewEvent(new, p) : p \in new}
<1>5. ASSUME NEW p \in new
      PROVE  LET x == NewEvent(new, p)
             IN /\ x \in Event /\ x.day = p.day /\ x.valid /\ x.kind = p.kind /\ x.status = p.status
                /\ x.seq = event_sequence + Number(new, p)
                /\ ~x.restated => current.day # None /\ current.day < p.day
  <2>1. Restated(p.day) \in BOOLEAN BY DEF Restated
  <2>2. event_sequence + Number(new, p) \in Nat BY <1>1, <1>2
  <2>3. current.day \in Nat BY <1>0, <1>1 DEF None
  <2>4. ~Restated(p.day) => current.day # None /\ current.day < p.day BY <1>3, <2>3 DEF Restated
  <2> QED BY <1>3, <2>1, <2>2, <2>4 DEF NewEvent, Event
<1>6. events' = K \union R \union N OBVIOUS
<1>7. \A x \in K : x \in events /\ x \notin old OBVIOUS
<1>8. \A x \in R : \E e \in old : x = Retired(e) /\ x \in Event /\ x.day = e.day /\ x.seq = e.seq
                     /\ x.restated = e.restated /\ ~x.valid /\ x.kind = e.kind /\ x.status = e.status
  BY <1>1, <1>4, RetiredShape
<1>9. \A x \in N : \E p \in new : /\ x = NewEvent(new, p) /\ x \in Event /\ x.day = p.day /\ x.valid
                                  /\ x.kind = p.kind /\ x.status = p.status
                                  /\ x.seq = event_sequence + Number(new, p)
                                  /\ ~x.restated => current.day # None /\ current.day < p.day
  BY <1>5
<1> HIDE DEF K, R, N
<1>10. \A x \in K \union R : \E f \in events : f.seq = x.seq /\ f.day = x.day /\ f.restated = x.restated
  BY <1>4, <1>7, <1>8
<1>11. \A x \in N : x.seq \in Nat /\ event_sequence < x.seq /\ x.seq <= event_sequence' /\ 1 <= x.seq
  BY <1>1, <1>2, <1>9
<1>12. events' \in SUBSET Event BY <1>1, <1>6, <1>7, <1>8, <1>9
<1>13. event_sequence' \in Nat /\ event_sequence <= event_sequence' BY <1>1, <1>2
<1>14. ASSUME NEW e \in events'
       PROVE  1 <= e.seq /\ e.seq <= event_sequence' /\ e.day <= latest
              /\ (e.kind = "ENTER" => e.status = "ACTIVE")
  <2>1. CASE e \in K BY <1>0, <1>1, <1>7, <1>13, <2>1
  <2>2. CASE e \in R BY <1>0, <1>1, <1>4, <1>8, <1>13, <2>2
  <2>3. CASE e \in N BY <1>9, <1>11, <2>3
  <2> QED BY <1>6, <2>1, <2>2, <2>3
<1>15. \A x \in Valid' : (x \in K /\ x \in Valid /\ x.day < start) \/ x \in N
  BY <1>4, <1>6, <1>7, <1>8 DEF Valid
<1>16. \A x, y \in N : x.day = y.day => x = y
  <2> SUFFICES ASSUME NEW x \in N, NEW y \in N, x.day = y.day PROVE x = y OBVIOUS
  <2>1. PICK p \in new : x = NewEvent(new, p) /\ x.day = p.day BY <1>9
  <2>2. PICK q \in new : y = NewEvent(new, q) /\ y.day = q.day BY <1>9
  <2> QED BY <2>1, <2>2 DEF OnePerDay
<1>17. \A x, y \in N : x.day < y.day => x.seq < y.seq
  <2> SUFFICES ASSUME NEW x \in N, NEW y \in N, x.day < y.day PROVE x.seq < y.seq OBVIOUS
  <2>1. PICK p \in new : x.day = p.day /\ x.seq = event_sequence + Number(new, p) BY <1>9
  <2>2. PICK q \in new : y.day = q.day /\ y.seq = event_sequence + Number(new, q) BY <1>9
  <2> QED BY <1>1, <1>2, <2>1, <2>2
<1>18. \A x \in N : x.day \in Nat /\ start <= x.day BY <1>3, <1>9
<1>19. \A e, f \in Valid' : e.day < f.day <=> e.seq < f.seq
  <2> SUFFICES ASSUME NEW e \in Valid', NEW f \in Valid' PROVE e.day < f.day <=> e.seq < f.seq
    OBVIOUS
  <2>1. CASE e \in Valid /\ f \in Valid BY <1>0, <2>1 DEF SequenceFollowsDates
  <2>2. CASE e \in K /\ e.day < start /\ f \in N
    BY <1>0, <1>1, <1>7, <1>11, <1>18, <2>2
  <2>3. CASE e \in N /\ f \in K /\ f.day < start
    BY <1>0, <1>1, <1>7, <1>11, <1>18, <2>3
  <2>4. CASE e \in N /\ f \in N BY <1>11, <1>16, <1>17, <1>18, <2>4
  <2> QED BY <1>15, <2>1, <2>2, <2>3, <2>4
<1>20. \A e, f \in events' : e.seq = f.seq => e = f
  <2> SUFFICES ASSUME NEW e \in events', NEW f \in events', e.seq = f.seq PROVE e = f OBVIOUS
  <2>0. \A x, y \in events : x.seq = y.seq => x = y BY <1>0 DEF SequenceFollowsDates
  <2>1. CASE e \in K /\ f \in K BY <1>7, <2>0, <2>1
  <2>2. CASE (e \in K /\ f \in R) \/ (e \in R /\ f \in K) BY <1>4, <1>7, <1>8, <2>0, <2>2
  <2>3. CASE e \in R /\ f \in R BY <1>4, <1>8, <2>0, <2>3
  <2>4. CASE e \in N /\ f \in N BY <1>11, <1>16, <1>17, <1>18, <2>4
  <2>5. CASE (e \in K \union R /\ f \in N) \/ (e \in N /\ f \in K \union R)
    BY <1>0, <1>1, <1>10, <1>11, <2>5
  <2> QED BY <1>6, <2>1, <2>2, <2>3, <2>4, <2>5
<1>21. \A e, f \in events' : ~e.restated /\ ~f.restated /\ e.day = f.day => e = f
  <2> SUFFICES ASSUME NEW e \in events', NEW f \in events', ~e.restated, ~f.restated, e.day = f.day
               PROVE  e = f
    OBVIOUS
  <2>0. \A x, y \in events : ~x.restated /\ ~y.restated /\ x.day = y.day => x = y
    BY <1>0 DEF LiveAtMostOnce
  <2>1. CASE e \in K /\ f \in K BY <1>7, <2>0, <2>1
  <2>2. CASE (e \in K /\ f \in R) \/ (e \in R /\ f \in K) BY <1>4, <1>7, <1>8, <2>0, <2>2
  <2>3. CASE e \in R /\ f \in R BY <1>4, <1>8, <2>0, <2>3
  <2>4. CASE e \in N /\ f \in N BY <1>16, <2>4
  <2>5. \A x \in N : ~x.restated => state_through < x.day BY <1>0, <1>9
  <2>6. \A x \in K \union R : x.day <= state_through BY <1>0, <1>10
  <2>7. CASE (e \in K \union R /\ f \in N) \/ (e \in N /\ f \in K \union R)
    BY <1>1, <1>10, <1>18, <2>5, <2>6, <2>7
  <2> QED BY <1>6, <2>1, <2>2, <2>3, <2>4, <2>7
<1>22. \A e \in events' : e.seq <= event_sequence => \E f \in events : f.seq = e.seq /\ f.day = e.day
  BY <1>1, <1>6, <1>10, <1>11
<1>23. \A e \in Valid' : (e \in Valid /\ e.day < start) \/ \E p \in new : e = NewEvent(new, p)
  BY <1>9, <1>15
<1> QED BY <1>12, <1>13, <1>14, <1>19, <1>20, <1>21, <1>22, <1>23 DEF SequenceFollowsDates, LiveAtMostOnce

(* The last of a set of records with days.                                  *)
LEMMA LastDayOf ==
    ASSUME NEW S, S # {}, \A r \in S : r.day \in Days
    PROVE  LastDay(S) \in S /\ \A q \in S : q.day <= LastDay(S).day
<1> DEFINE T == {r.day : r \in S}
<1>1. T \in SUBSET Days /\ T # {} OBVIOUS
<1>2. PICK x \in T : \A y \in T : y <= x
  <2> HIDE DEF T
  <2> QED BY <1>1, GreatestExists
<1>3. PICK r \in S : r.day = x OBVIOUS
<1>4. \A q \in S : q.day <= r.day BY <1>2, <1>3
<1> QED BY <1>4 DEF LastDay

(* The row a publication leaves is of its last observation, dated by an     *)
(* event of the anchor or of this pass.                                     *)
LEMMA RowShape ==
    ASSUME TypeOK, NEW start \in 0..MaxDay, NEW days \in SUBSET Days, days # {}, NEW latest \in Days
    PROVE  /\ CurrentRow(start, Changes(start, days), latest) \in Row
           /\ CurrentRow(start, Changes(start, days), latest).day = latest
<1> DEFINE S == {Payload(e) : e \in AnchorEvents(start)} \union Changes(start, days)
<1>1. \A r \in S : r.day \in Days
  <2>1. \A e \in AnchorEvents(start) : Payload(e).day \in Days
    BY DEF AnchorEvents, Valid, TypeOK, Event, Payload
  <2> QED BY <2>1, ChangesShape
<1>2. S # {}
  <2>1. CASE AnchorEvents(start) # {} BY <2>1
  <2>2. CASE AnchorEvents(start) = {}
    <3>1. PICK m \in days : \A d \in days : m <= d
      <4>1. days \in SUBSET Nat BY DaysAreNumbers
      <4> QED BY <4>1, LeastExists
    <3>2. {x \in days : x < m} = {}
      <4>1. \A x \in days : ~(x < m) BY <3>1, DaysAreNumbers
      <4> QED BY <4>1
    <3>3. Compared(start, days, m) = "none" BY <2>2, <3>2 DEF Compared, SeedStatus
    <3>4. Status(m) \in Statuses /\ Transition(start, m) \in BOOLEAN
      BY DEF Status, Statuses, Transition
    <3>5. ChangeOf(start, days, m).kind = "BASELINE" BY <3>3, <3>4, KindOfStatus DEF ChangeOf
    <3> QED BY <3>5, ChangesShape
  <2> QED BY <2>1, <2>2
<1>3. LastDay(S).day \in Days
  <2> HIDE DEF S
  <2> QED BY <1>1, <1>2, LastDayOf
<1>4. Status(latest) \in Statuses /\ Transition(start, latest) \in BOOLEAN
  BY DEF Status, Statuses, Transition
<1>5. None \in 0..MaxDay /\ Days \subseteq 0..MaxDay BY TimelineAssumption DEF Days, None
<1> QED BY <1>3, <1>4, <1>5 DEF CurrentRow, Row

(* What a publication does to the timeline, seen from the rows around it.   *)
Rewritten(start) ==
    /\ state_through' \in Days /\ state_through <= state_through'
    /\ event_sequence <= event_sequence'
    /\ UNCHANGED <<edge_mode, edition, reading>>
    /\ \A e \in Valid' :
         \/ e \in Valid /\ e.day < start
         \/ /\ start <= e.day /\ e.day <= state_through' /\ e.day \in Traded
            /\ e.meta = reading[e.day].edition
            /\ e.restated \/ e \in Valid \/ state_through < e.day
    /\ \A e \in events' : e.seq <= event_sequence => \E f \in events : f.seq = e.seq /\ f.day = e.day

(* The part of TimelineInv about the events.                                *)
EventsKept ==
    /\ events \in SUBSET Event /\ event_sequence \in Nat
    /\ \A e \in events : 1 <= e.seq /\ e.seq <= event_sequence /\ e.day <= state_through
    /\ \A e \in events : e.kind = "ENTER" => e.status = "ACTIVE"
    /\ SequenceFollowsDates /\ LiveAtMostOnce

LEMMA MaterializeKeeps ==
    ASSUME TimelineInv, NEW end \in Days, NEW force \in BOOLEAN, Materialize(end, force)
    PROVE  TimelineInv' /\ Rewritten(StartDay(force))
<1>0. /\ TypeOK /\ SequenceFollowsDates /\ LiveAtMostOnce /\ current.day \in {None, state_through}
      /\ \A e \in events : /\ 1 <= e.seq /\ e.seq <= event_sequence /\ e.day <= state_through
                           /\ e.kind = "ENTER" => e.status = "ACTIVE"
  BY DEF TimelineInv
<1> DEFINE start == StartDay(force)
<1>1. PICK latest \in Days :
        LET days == {d \in Traded : start <= d /\ d <= latest}
        IN /\ IsGreatest(latest, {d \in Traded : d <= end})
           /\ state_through <= latest
           /\ Publish(IF days = {} THEN None ELSE start, days, latest)
           /\ state_through' = latest
           /\ dirty_from' = IF \E d \in Traded : latest < d THEN dirty_from ELSE None
  BY DEF Materialize
<1> DEFINE days == {d \in Traded : start <= d /\ d <= latest}
           origin == IF days = {} THEN None ELSE start
           new == Changes(origin, days)
           old == Superseded(origin, latest)
<1>2. UNCHANGED <<edge_mode, edition, reading>> BY DEF Materialize
<1>3. /\ ReplaceSuffix(old, new) /\ state_generation' = Version(old, new, latest)
      /\ current' = IF days = {} THEN NoRow ELSE CurrentRow(origin, new, latest)
  BY <1>1 DEF Publish
<1>4. /\ start \in 0..MaxDay /\ origin \in 0..MaxDay /\ days \in SUBSET Days /\ days \subseteq Traded
      /\ state_through \in Nat /\ event_sequence \in Nat /\ None = 0
      /\ \A d \in days : start <= d /\ origin <= d /\ d <= latest
  <2>1. start \in 0..MaxDay BY <1>0, TimelineAssumption DEF StartDay, TypeOK, None
  <2>2. days \in SUBSET Days /\ days \subseteq Traded BY DEF Traded
  <2> QED BY <1>0, <2>1, <2>2, TimelineAssumption DEF TypeOK, None
<1>5. /\ OnePerDay(new)
      /\ \A p \in new : /\ p.day \in days /\ p.kind \in Kinds /\ p.status \in Statuses
                        /\ p.transition \in BOOLEAN /\ p.meta = reading[p.day].edition /\ p.meta \in Nat
                        /\ p.kind = "ENTER" => p.status = "ACTIVE"
  BY <1>0, <1>4, ChangesShape
<1>6. \A p \in new : start <= p.day /\ origin <= p.day /\ p.day <= latest BY <1>4, <1>5
<1>7. \A e \in events : e \in Event /\ e.day \in Nat /\ e.seq \in Nat
  BY <1>0, DaysAreNumbers DEF TypeOK, Event
<1>8. \A e \in Valid : e.day < origin => e.day < start
  <2>1. ASSUME NEW e \in Valid, e.day < origin PROVE days # {}
    BY <1>4, <1>7, <2>1 DEF Valid
  <2> QED BY <2>1
<1> HIDE DEF days, origin, new, old, start
<1>9. ASSUME {Payload(e) : e \in old} = new PROVE Rewritten(start) /\ EventsKept'
  <2>1. UNCHANGED <<events, event_sequence>> BY <1>3, <1>9 DEF ReplaceSuffix
  <2>2. Valid' = Valid BY <2>1 DEF Valid
  <2>3. ASSUME NEW e \in Valid
        PROVE  \/ e.day < start
               \/ /\ start <= e.day /\ e.day <= latest /\ e.day \in Traded
                  /\ e.meta = reading[e.day].edition
    <3>1. CASE e \in old
      <4>1. Payload(e) \in new BY <1>9, <3>1
      <4>2. Payload(e).day = e.day /\ Payload(e).meta = e.meta BY DEF Payload
      <4> QED BY <1>4, <1>5, <1>6, <4>1, <4>2
    <3>2. CASE e \notin old
      <4>1. e.day <= latest BY <1>0, <1>1, <1>4, <1>7, DaysAreNumbers DEF Valid
      <4>2. ~(origin <= e.day) BY <3>2, <4>1 DEF old, Superseded
      <4>3. e.day < origin BY <1>4, <1>7, <4>2 DEF Valid
      <4> QED BY <1>8, <4>3
    <3> QED BY <3>1, <3>2
  <2>4. \A e \in events : e.day <= latest BY <1>0, <1>1, <1>4, <1>7, DaysAreNumbers
  <2>5. Rewritten(start)
    BY <1>1, <1>2, <1>4, <2>1, <2>2, <2>3 DEF Rewritten
  <2>6. EventsKept'
    BY <1>0, <1>1, <1>4, <1>7, <2>1, <2>2, <2>4 DEF SequenceFollowsDates, LiveAtMostOnce, EventsKept
  <2> QED BY <2>5, <2>6
<1>10. ASSUME {Payload(e) : e \in old} # new PROVE Rewritten(start) /\ EventsKept'
  <2>1. /\ events' = (events \ old) \union {Retired(e) : e \in old} \union {NewEvent(new, p) : p \in new}
        /\ event_sequence' = event_sequence + Cardinality(new)
    BY <1>3, <1>10 DEF ReplaceSuffix, Retired, NewEvent, Number
  <2>2. old = Superseded(origin, latest) BY DEF old
  <2>3. /\ events' \in SUBSET Event /\ event_sequence' \in Nat /\ event_sequence <= event_sequence'
        /\ \A e \in events' : 1 <= e.seq /\ e.seq <= event_sequence' /\ e.day <= latest
        /\ \A e \in events' : e.kind = "ENTER" => e.status = "ACTIVE"
        /\ SequenceFollowsDates' /\ LiveAtMostOnce'
        /\ \A e \in Valid' : \/ e \in Valid /\ e.day < origin
                             \/ \E p \in new : e = NewEvent(new, p)
        /\ \A e \in events' : e.seq <= event_sequence => \E f \in events : f.seq = e.seq /\ f.day = e.day
    BY <1>1, <1>4, <1>5, <1>6, <2>1, <2>2, SuffixReplaced
  <2>4. ASSUME NEW e \in Valid', NEW p \in new, e = NewEvent(new, p)
        PROVE  /\ start <= e.day /\ e.day <= latest /\ e.day \in Traded
               /\ e.meta = reading[e.day].edition
               /\ e.restated \/ state_through < e.day
    <3>1. e.day = p.day /\ e.meta = p.meta /\ e.restated = Restated(p.day) BY <2>4 DEF NewEvent
    <3>2. p.day \in Nat BY <1>4, <1>5, DaysAreNumbers
    <3>3. ~Restated(p.day) => state_through < p.day BY <1>0, <1>4, <3>2 DEF Restated
    <3> QED BY <1>4, <1>5, <1>6, <3>1, <3>3
  <2>5. Rewritten(start) BY <1>1, <1>2, <1>8, <2>3, <2>4 DEF Rewritten
  <2>6. EventsKept' BY <1>1, <2>3 DEF EventsKept
  <2> QED BY <2>5, <2>6
<1>11. /\ current' \in Row /\ current'.day \in {None, state_through'}
  <2>1. CASE days = {} BY <1>3, <2>1, TimelineAssumption DEF NoRow, Row, Statuses, None
  <2>2. CASE days # {}
    <3>1. current' = CurrentRow(origin, Changes(origin, days), latest) BY <1>3, <2>2 DEF new
    <3> QED BY <1>0, <1>1, <1>4, <2>2, <3>1, RowShape
  <2> QED BY <2>1, <2>2
<1>12. state_generation' \in Nat /\ dirty_from' \in 0..MaxDay /\ state_through' \in 0..MaxDay
  BY <1>0, <1>1, <1>3, <1>4, TimelineAssumption, DaysAreNumbers DEF TypeOK, Version
<1>13. TypeOK'
  <2>1. edge_mode' \in BOOLEAN /\ edition' \in Nat /\ reading' \in [Days -> Reading]
    BY <1>0, <1>2 DEF TypeOK
  <2> QED BY <1>9, <1>10, <1>11, <1>12, <2>1 DEF TypeOK, EventsKept
<1> QED BY <1>9, <1>10, <1>11, <1>13 DEF TimelineInv, EventsKept, start

(* Arriving readings leave the published rows alone.                        *)
LEMMA StoreReadingsKeeps ==
    ASSUME TimelineInv, NEW first \in Days, NEW sides \in [Days -> Sides], StoreReadings(first, sides)
    PROVE  TimelineInv' /\ UNCHANGED <<edge_mode, state_through, event_sequence, events, current>>
<1>0. TypeOK BY DEF TimelineInv
<1>1. UNCHANGED <<edge_mode, state_through, event_sequence, state_generation, events, current>>
  BY DEF StoreReadings
<1>2. edition' \in Nat BY <1>0 DEF StoreReadings, TypeOK
<1>3. reading' \in [Days -> Reading]
  <2>1. NoReading \in Reading BY DEF NoReading, Reading, Sides
  <2>2. ASSUME NEW d \in Days
        PROVE  /\ reading[d] \in Reading
               /\ [side |-> sides[d], edition |-> edition + 1] \in Reading
    BY <1>0 DEF TypeOK, Reading
  <2>3. \A d \in Days : (CASE d < first -> reading[d]
                           [] first <= d /\ sides[d] = "none" -> NoReading
                           [] OTHER -> [side |-> sides[d], edition |-> edition + 1]) \in Reading
    BY <2>1, <2>2
  <2> QED BY <2>3 DEF StoreReadings
<1>4. dirty_from' \in 0..MaxDay
  BY <1>0, DaysAreNumbers, TimelineAssumption DEF StoreReadings, Earlier, TypeOK
<1>5. TypeOK' BY <1>0, <1>1, <1>2, <1>3, <1>4 DEF TypeOK
<1>6. Valid' = Valid BY <1>1 DEF Valid
<1> QED BY <1>1, <1>5, <1>6 DEF TimelineInv, SequenceFollowsDates, LiveAtMostOnce

LEMMA TimelineStutters == ASSUME TimelineInv, UNCHANGED vars PROVE TimelineInv'
<1>1. Valid' = Valid BY DEF Valid, vars
<1> QED BY <1>1 DEF vars, TimelineInv, TypeOK, SequenceFollowsDates, LiveAtMostOnce

LEMMA TimelineStarts == Init => TimelineInv
<1> SUFFICES ASSUME Init PROVE TimelineInv OBVIOUS
<1>1. NoReading \in Reading BY DEF NoReading, Reading, Sides
<1>2. NoRow \in Row /\ NoRow.day = None BY TimelineAssumption DEF NoRow, Row, Statuses, None
<1>3. None \in 0..MaxDay BY TimelineAssumption DEF None
<1>4. TypeOK BY <1>1, <1>2, <1>3 DEF Init, TypeOK
<1>5. events = {} /\ Valid = {} /\ current.day = None BY <1>2 DEF Init, Valid
<1> QED BY <1>4, <1>5 DEF TimelineInv, SequenceFollowsDates, LiveAtMostOnce

LEMMA TimelineInvariant == Spec => []TimelineInv
<1>1. TimelineInv /\ [Next]_vars => TimelineInv'
  BY StoreReadingsKeeps, MaterializeKeeps, TimelineStutters DEF Next, UpToDate
<1> QED BY <1>1, TimelineStarts, PTL DEF Spec

-----------------------------------------------------------------------------
(* Theorems on the timeline.                                                *)

(* Events, the current row and the stream's cursors keep their types.       *)
THEOREM TimelineTypeCorrect == Spec => []TypeOK
BY TimelineInvariant, PTL DEF TimelineInv

(* Whatever is corrected, cut off, forced and published again, numbers      *)
(* follow dates among the valid events and are never issued twice: no valid *)
(* event lies after the rewritten range, and the numbers above the counter  *)
(* are free.                                                                *)
THEOREM EventsAreNumberedByDate == Spec => []SequenceFollowsDates
BY TimelineInvariant, PTL DEF TimelineInv

(* No day is announced live twice: the current row, while there is one, is  *)
(* of the watermark's day, and no event is newer.                           *)
THEOREM EventsAreLiveOnce == Spec => []LiveAtMostOnce
BY TimelineInvariant, PTL DEF TimelineInv

-----------------------------------------------------------------------------
(* Incremental publication against a single pass.                           *)

(* The reference, day by day.                                               *)
Span(o, c) == {d \in Traded : o <= d /\ d <= c}
Before(o, c, d) ==
    IF d = o THEN "none"
    ELSE Status(CHOOSE x \in Span(o, c) : x < d /\ \A y \in Span(o, c) : y < d => y <= x)
Proven(o, d) ==
    /\ Status(d) = "ACTIVE"
    /\ IF edge_mode THEN reading[d - 1].side = "low" ELSE d # o /\ Status(d - 1) = "INACTIVE"
OnePass(o, c, d) ==
    [day |-> d, kind |-> Kind(Before(o, c, d), Status(d), Proven(o, d)), status |-> Status(d),
     transition |-> Proven(o, d), meta |-> reading[d].edition]

LEMMA ReferenceForm ==
    ASSUME NEW o, NEW c
    PROVE  Reference(o, c) = {OnePass(o, c, d) : d \in {d \in Span(o, c) : Before(o, c, d) # Status(d)}}
BY DEF Reference, Span, Before, Proven, OnePass

LEMMA ReferenceMembers ==
    ASSUME NEW o, NEW c
    PROVE  /\ \A p \in Reference(o, c) : /\ p.day \in Span(o, c) /\ p = OnePass(o, c, p.day)
                                         /\ Before(o, c, p.day) # Status(p.day)
           /\ \A d \in Span(o, c) : Before(o, c, d) # Status(d) => OnePass(o, c, d) \in Reference(o, c)
<1>1. \A d : OnePass(o, c, d).day = d BY DEF OnePass
<1> QED BY <1>1, ReferenceForm

LEMMA SpanShape ==
    ASSUME NEW o, NEW c
    PROVE  /\ Span(o, c) \in SUBSET Days /\ Span(o, c) \in SUBSET Nat
           /\ \A d \in Span(o, c) : d \in Traded /\ o <= d /\ d <= c
           /\ \A d \in Traded : d \in Days /\ d \in Nat /\ (o <= d /\ d <= c => d \in Span(o, c))
BY DaysAreNumbers DEF Span, Traded

LEMMA StatusKnown == \A d : Status(d) \in Statuses /\ Status(d) # "none"
BY DEF Status, Statuses

(* A day's predecessor in a span is unique.                                 *)
LEMMA PriorDay ==
    ASSUME NEW o, NEW c, NEW d, d # o,
           NEW x \in Span(o, c), x < d, \A y \in Span(o, c) : y < d => y <= x
    PROVE  Before(o, c, d) = Status(x)
<1> DEFINE P(z) == z < d /\ \A y \in Span(o, c) : y < d => y <= z
           z == CHOOSE z \in Span(o, c) : P(z)
<1>1. z \in Span(o, c) /\ P(z) OBVIOUS
<1>2. z <= x /\ x <= z BY <1>1
<1>3. z \in Nat /\ x \in Nat BY <1>1, SpanShape
<1>4. z = x BY <1>2, <1>3
<1>5. Before(o, c, d) = Status(z) BY DEF Before
<1> QED BY <1>4, <1>5

LEMMA PriorExists ==
    ASSUME NEW o \in Traded, NEW c \in Nat, NEW d \in Nat, o < d, o <= c
    PROVE  \E x \in Span(o, c) : x < d /\ \A y \in Span(o, c) : y < d => y <= x
<1> DEFINE S == {y \in Span(o, c) : y < d}
<1>1. o \in Nat /\ o <= o /\ o \in Span(o, c) BY SpanShape
<1>2. S \in SUBSET Days /\ S # {} BY <1>1, SpanShape
<1> HIDE DEF S
<1>3. PICK x \in S : \A y \in S : y <= x BY <1>2, GreatestExists
<1> QED BY <1>3 DEF S

LEMMA BeforeWithin ==
    ASSUME NEW o \in Traded, NEW b \in Nat, NEW c \in Nat, b <= c, NEW d \in Span(o, b)
    PROVE  d \in Span(o, c) /\ Before(o, b, d) = Before(o, c, d)
<1>1. d \in Nat /\ o \in Nat /\ d \in Traded /\ o <= d /\ d <= b BY SpanShape
<1>2. d \in Span(o, c) BY <1>1, SpanShape
<1>3. CASE d = o BY <1>2, <1>3 DEF Before
<1>4. CASE d # o
  <2>1. o < d /\ o <= b BY <1>1, <1>4
  <2>2. PICK x \in Span(o, b) : x < d /\ \A y \in Span(o, b) : y < d => y <= x
    BY <1>1, <2>1, PriorExists
  <2>3. x \in Span(o, c)
    <3>1. x \in Nat /\ x \in Traded /\ o <= x /\ x <= b BY SpanShape
    <3>2. x <= c BY <3>1
    <3> QED BY <3>1, <3>2, SpanShape
  <2>4. \A y \in Span(o, c) : y < d => y <= x
    <3> SUFFICES ASSUME NEW y \in Span(o, c), y < d PROVE y <= x OBVIOUS
    <3>1. y \in Nat /\ y \in Traded /\ o <= y BY SpanShape
    <3>2. y <= b BY <1>1, <3>1
    <3>3. y \in Span(o, b) BY <3>1, <3>2, SpanShape
    <3> QED BY <2>2, <3>3
  <2>5. Before(o, b, d) = Status(x) BY <1>4, <2>2, PriorDay
  <2>6. Before(o, c, d) = Status(x) BY <1>4, <2>2, <2>3, <2>4, PriorDay
  <2> QED BY <1>2, <2>5, <2>6
<1> QED BY <1>3, <1>4

(* A pass that stops earlier finds the same changes up to there.            *)
LEMMA ReferencePrefix ==
    ASSUME NEW o \in Traded, NEW b \in Nat, NEW c \in Nat, b <= c
    PROVE  Reference(o, b) = {p \in Reference(o, c) : p.day <= b}
<1>1. ASSUME NEW d \in Span(o, b)
      PROVE  d \in Span(o, c) /\ d <= b /\ OnePass(o, b, d) = OnePass(o, c, d) /\ Before(o, b, d) = Before(o, c, d)
  BY BeforeWithin, SpanShape DEF OnePass
<1>2. ASSUME NEW p \in Reference(o, b) PROVE p \in Reference(o, c) /\ p.day <= b
  <2>1. p.day \in Span(o, b) /\ p = OnePass(o, b, p.day) /\ Before(o, b, p.day) # Status(p.day)
    BY ReferenceMembers
  <2>2. p = OnePass(o, c, p.day) /\ p.day \in Span(o, c) /\ Before(o, c, p.day) # Status(p.day) /\ p.day <= b
    BY <1>1, <2>1
  <2>3. OnePass(o, c, p.day) \in Reference(o, c) BY <2>2, ReferenceMembers
  <2> QED BY <2>2, <2>3
<1>3. ASSUME NEW p \in Reference(o, c), p.day <= b PROVE p \in Reference(o, b)
  <2>1. p.day \in Span(o, c) /\ p = OnePass(o, c, p.day) /\ Before(o, c, p.day) # Status(p.day)
    BY ReferenceMembers
  <2>2. p.day \in Span(o, b) BY <1>3, <2>1, SpanShape
  <2>3. p = OnePass(o, b, p.day) /\ Before(o, b, p.day) # Status(p.day) BY <1>1, <2>1, <2>2
  <2>4. OnePass(o, b, p.day) \in Reference(o, b) BY <2>2, <2>3, ReferenceMembers
  <2> QED BY <2>3, <2>4
<1> QED BY <1>2, <1>3

LEMMA ReferenceSame ==
    ASSUME NEW o, NEW b, NEW c, Span(o, b) = Span(o, c)
    PROVE  Reference(o, b) = Reference(o, c)
BY ReferenceForm DEF Before, OnePass

(* The first day of a pass is its first change.                             *)
LEMMA ReferenceStarts ==
    ASSUME NEW o \in Traded, NEW c \in Nat, o <= c
    PROVE  /\ \E p \in Reference(o, c) : p.day = o
           /\ \A p \in Reference(o, c) : o <= p.day /\ p.day \in Traded
<1>1. o \in Span(o, c)
  <2>1. o \in Nat BY SpanShape
  <2> QED BY <2>1, SpanShape
<1>2. Before(o, c, o) # Status(o) BY StatusKnown DEF Before
<1>3. OnePass(o, c, o) \in Reference(o, c) /\ OnePass(o, c, o).day = o
  BY <1>1, <1>2, ReferenceMembers DEF OnePass
<1>4. \A p \in Reference(o, c) : o <= p.day /\ p.day \in Traded BY ReferenceMembers, SpanShape
<1> QED BY <1>3, <1>4

(* The last change up to a day tells its status: between changes nothing    *)
(* changes, day after day.                                                  *)
Told(o, c, d) ==
    \E p \in Reference(o, c) : /\ p.day <= d /\ p.status = Status(d)
                               /\ \A q \in Reference(o, c) : q.day <= d => q.day <= p.day

LEMMA ReferenceTells ==
    ASSUME NEW o \in Traded, NEW c \in Nat
    PROVE  \A d \in Span(o, c) : Told(o, c, d)
<1> DEFINE Bad == {d \in Span(o, c) : ~Told(o, c, d)}
<1>1. SUFFICES ASSUME Bad # {} PROVE FALSE OBVIOUS
<1>2. Bad \in SUBSET Nat BY SpanShape
<1>3. PICK m \in Bad : \A n \in Bad : m <= n
  <2> HIDE DEF Bad
  <2> QED BY <1>1, <1>2, LeastExists
<1>4. m \in Span(o, c) /\ ~Told(o, c, m) OBVIOUS
<1>5. m \in Nat /\ o \in Nat /\ o <= m /\ m <= c BY <1>4, SpanShape
<1>6. ASSUME NEW q \in Reference(o, c)
      PROVE  q.day \in Span(o, c) /\ q.day \in Nat /\ Before(o, c, q.day) # Status(q.day)
  BY ReferenceMembers, SpanShape
<1>7. CASE Before(o, c, m) # Status(m)
  <2> DEFINE p == OnePass(o, c, m)
  <2>1. p \in Reference(o, c) /\ p.day = m /\ p.status = Status(m)
    BY <1>4, <1>7, ReferenceMembers DEF OnePass
  <2>2. p.day <= m BY <1>5, <2>1
  <2> HIDE DEF p
  <2>3. Told(o, c, m) BY <2>1, <2>2 DEF Told
  <2> QED BY <1>4, <2>3
<1>8. CASE Before(o, c, m) = Status(m)
  <2>1. m # o BY <1>8, StatusKnown DEF Before
  <2>2. o < m /\ o <= c BY <1>5, <2>1
  <2>3. PICK x \in Span(o, c) : x < m /\ \A y \in Span(o, c) : y < m => y <= x
    BY <1>5, <2>2, PriorExists
  <2>4. Before(o, c, m) = Status(x) BY <2>1, <2>3, PriorDay
  <2>5. x \in Nat BY SpanShape
  <2>6. Told(o, c, x)
    <3>1. ~(m <= x) BY <1>5, <2>3, <2>5
    <3> QED BY <1>3, <3>1
  <2>7. PICK p \in Reference(o, c) : /\ p.day <= x /\ p.status = Status(x)
                                     /\ \A q \in Reference(o, c) : q.day <= x => q.day <= p.day
    BY <2>6 DEF Told
  <2>8. p.day <= m /\ p.status = Status(m) BY <1>5, <1>6, <1>8, <2>3, <2>4, <2>5, <2>7
  <2>9. \A q \in Reference(o, c) : q.day <= m => q.day <= p.day
    <3> SUFFICES ASSUME NEW q \in Reference(o, c), q.day <= m PROVE q.day <= p.day OBVIOUS
    <3>1. q.day # m BY <1>6, <1>8
    <3>2. q.day < m BY <1>5, <1>6, <3>1
    <3>3. q.day <= x BY <1>6, <2>3, <3>2
    <3> QED BY <2>7, <3>3
  <2>10. Told(o, c, m) BY <2>8, <2>9 DEF Told
  <2> QED BY <1>4, <2>10
<1> QED BY <1>7, <1>8

(* A kind marks a change exactly when the status differs from the one before.*)
LEMMA KindOfChange ==
    ASSUME NEW prior \in Statuses \union {"none"}, NEW status \in Statuses, NEW provable \in BOOLEAN
    PROVE  Kind(prior, status, provable) # "none" <=> prior # status
BY DEF Kind, Statuses

LEMMA BeforeKnown == \A o, c, d : Before(o, c, d) \in Statuses \union {"none"}
BY StatusKnown DEF Before

(* What is kept of the timeline before a range, and the last of it.         *)
Kept(start) == {Payload(e) : e \in AnchorEvents(start)}

LEMMA AnchorShape ==
    ASSUME TimelineInv, NEW start
    PROVE  /\ \A e \in AnchorEvents(start) : e \in Valid /\ e.day \in Days /\ e.day < start
           /\ \A e, f \in AnchorEvents(start) : e.day = f.day => e = f
<1>1. \A e \in AnchorEvents(start) : e \in Valid /\ e \in events /\ e.day < start BY DEF AnchorEvents, Valid
<1>2. \A e \in events : e.day \in Days /\ e.seq \in Nat BY DEF TimelineInv, TypeOK, Event
<1>3. ASSUME NEW e \in AnchorEvents(start), NEW f \in AnchorEvents(start), e.day = f.day PROVE e = f
  <2>1. e.day \in Nat /\ ~(e.day < f.day) /\ ~(f.day < e.day)
    <3>1. e.day \in Nat BY <1>1, <1>2, DaysAreNumbers
    <3> QED BY <1>3, <3>1
  <2>2. ~(e.seq < f.seq) /\ ~(f.seq < e.seq) BY <1>1, <2>1 DEF TimelineInv, SequenceFollowsDates
  <2>3. e.seq = f.seq BY <1>1, <1>2, <2>2
  <2> QED BY <1>1, <2>3 DEF TimelineInv, SequenceFollowsDates
<1> QED BY <1>1, <1>2, <1>3

(* seed_at proves the status of the last observation before the range.      *)
LEMMA SeedTells ==
    ASSUME TimelineInv, NEW start \in Nat, AnchorEvents(start) # {}, NEW o \in Traded, o < start,
           Kept(start) = Reference(o, start - 1),
           NEW x \in Span(o, start - 1), \A y \in Span(o, start - 1) : y <= x
    PROVE  SeedStatus(start) = Status(x)
<1> DEFINE A == AnchorEvents(start)
           e == LastDay(A)
<1>1. /\ \A f \in A : f.day \in Days /\ f.day \in Nat
      /\ \A f, g \in A : f.day = g.day => f = g
  BY AnchorShape, DaysAreNumbers
<1>2. e \in A /\ \A f \in A : f.day <= e.day
  <2> HIDE DEF A
  <2>1. A # {} BY DEF A
  <2> QED BY <1>1, <2>1, LastDayOf
<1>3. start - 1 \in Nat
  <2>1. o \in Nat BY SpanShape
  <2> QED BY <2>1
<1>4. PICK p \in Reference(o, start - 1) :
        p.day <= x /\ p.status = Status(x) /\ \A q \in Reference(o, start - 1) : q.day <= x => q.day <= p.day
  BY <1>3, ReferenceTells DEF Told
<1>5. PICK f \in A : p = Payload(f) BY <1>4 DEF Kept
<1>6. Payload(e) \in Reference(o, start - 1) BY <1>2 DEF Kept
<1>7. Payload(e).day \in Span(o, start - 1) BY <1>6, ReferenceMembers
<1>8. e.day <= p.day BY <1>4, <1>6, <1>7 DEF Payload
<1>9. p.day = f.day /\ p.status = f.status BY <1>5 DEF Payload
<1>10. f = e
  <2>1. f.day <= e.day /\ e.day <= f.day BY <1>2, <1>8, <1>9
  <2>2. f.day \in Nat /\ e.day \in Nat BY <1>1, <1>2
  <2>3. f.day = e.day BY <2>1, <2>2
  <2> QED BY <1>1, <1>2, <2>3
<1>11. SeedStatus(start) = e.status BY DEF SeedStatus
<1> QED BY <1>4, <1>9, <1>10, <1>11

(* Where a publication's pass starts in the reference: at its first day when *)
(* nothing is kept, otherwise at the first event of the kept part, which is  *)
(* what a single pass leaves there.                                          *)
Joins(start, days, o) ==
    \/ AnchorEvents(start) = {} /\ o \in days /\ \A d \in days : o <= d
    \/ AnchorEvents(start) # {} /\ o < start /\ Kept(start) = Reference(o, start - 1)

LEMMA ComparedIsBefore ==
    ASSUME TimelineInv, NEW start \in 0..MaxDay, NEW latest \in Days, NEW o \in Traded,
           NEW days, days = Span(start, latest), Joins(start, days, o), NEW d \in days
    PROVE  Compared(start, days, d) = Before(o, latest, d)
<1>0. /\ start \in Nat /\ latest \in Nat /\ o \in Nat /\ d \in Nat /\ d \in Traded
      /\ start <= d /\ d <= latest
  BY TimelineAssumption, SpanShape, DaysAreNumbers
<1>1. o <= d BY <1>0 DEF Joins
<1> DEFINE before == {x \in days : x < d}
<1>2. CASE before = {} /\ AnchorEvents(start) = {}
  <2>1. Compared(start, days, d) = "none" BY <1>2 DEF Compared, SeedStatus
  <2>2. d = o
    <3>1. o \in days /\ o <= d BY <1>2 DEF Joins
    <3>2. ~(o < d) BY <1>2, <3>1
    <3> QED BY <1>0, <3>1, <3>2
  <2> QED BY <2>1, <2>2 DEF Before
<1>3. CASE before = {} /\ AnchorEvents(start) # {}
  <2>1. o < start /\ Kept(start) = Reference(o, start - 1) BY <1>3 DEF Joins
  <2>2. o < d /\ o <= latest /\ d # o BY <1>0, <2>1
  <2>3. PICK x \in Span(o, latest) : x < d /\ \A y \in Span(o, latest) : y < d => y <= x
    BY <1>0, <2>2, PriorExists
  <2>4. x \in Nat /\ x \in Traded /\ o <= x /\ x <= latest BY SpanShape
  <2>5. x < start
    <3>1. start <= x => x \in before BY <2>3, <2>4, SpanShape
    <3>2. ~(start <= x) BY <1>3, <3>1
    <3> QED BY <1>0, <2>4, <3>2
  <2>6. x \in Span(o, start - 1) BY <1>0, <2>4, <2>5, SpanShape
  <2>7. \A y \in Span(o, start - 1) : y <= x
    <3> SUFFICES ASSUME NEW y \in Span(o, start - 1) PROVE y <= x OBVIOUS
    <3>1. y \in Nat /\ y \in Traded /\ o <= y /\ y <= start - 1 BY SpanShape
    <3>2. y < d /\ y <= latest BY <1>0, <3>1
    <3>3. y \in Span(o, latest) BY <3>1, <3>2, SpanShape
    <3> QED BY <2>3, <3>2, <3>3
  <2>8. SeedStatus(start) = Status(x) BY <1>0, <1>3, <2>1, <2>6, <2>7, SeedTells
  <2>9. Compared(start, days, d) = SeedStatus(start) BY <1>3 DEF Compared
  <2>10. Before(o, latest, d) = Status(x) BY <2>2, <2>3, PriorDay
  <2> QED BY <2>8, <2>9, <2>10
<1>4. CASE before # {}
  <2> DEFINE x == CHOOSE x \in before : \A y \in before : y <= x
  <2>1. before \in SUBSET Days BY SpanShape
  <2>2. \E z \in before : \A y \in before : y <= z
    <3> HIDE DEF before
    <3> QED BY <1>4, <2>1, GreatestExists
  <2>3. x \in before /\ \A y \in before : y <= x BY <2>2
  <2>4. Compared(start, days, d) = Status(x) BY <1>4 DEF Compared
  <2> HIDE DEF x
  <2>5. x \in days /\ x < d BY <2>3
  <2>6. x \in Nat /\ x \in Traded /\ start <= x /\ x <= latest BY <2>5, SpanShape
  <2>7. o <= x BY <1>0, <2>5, <2>6 DEF Joins
  <2>8. x \in Span(o, latest) BY <2>6, <2>7, SpanShape
  <2>9. \A y \in Span(o, latest) : y < d => y <= x
    <3> SUFFICES ASSUME NEW y \in Span(o, latest), y < d PROVE y <= x OBVIOUS
    <3>1. y \in Nat /\ y \in Traded /\ y <= latest BY SpanShape
    <3>2. CASE start <= y
      <4>1. y \in before BY <3>1, <3>2, SpanShape
      <4> QED BY <2>3, <4>1
    <3>3. CASE ~(start <= y) BY <1>0, <2>6, <3>1, <3>3
    <3> QED BY <3>2, <3>3
  <2>10. d # o BY <1>0, <2>5, <2>6, <2>7
  <2>11. Before(o, latest, d) = Status(x) BY <2>5, <2>8, <2>9, <2>10, PriorDay
  <2> QED BY <2>4, <2>11
<1> QED BY <1>2, <1>3, <1>4

LEMMA TransitionIsProven ==
    ASSUME TimelineInv, NEW start \in 0..MaxDay, NEW latest \in Days, NEW o \in Traded,
           NEW days, days = Span(start, latest), Joins(start, days, o), NEW d \in days
    PROVE  Transition(start, d) = Proven(o, d)
<1>0. /\ start \in Nat /\ latest \in Nat /\ o \in Nat /\ d \in Nat /\ d \in Traded
      /\ start <= d /\ d <= latest
  BY TimelineAssumption, SpanShape, DaysAreNumbers
<1>1. Transition(start, d) \in BOOLEAN /\ Proven(o, d) \in BOOLEAN BY DEF Transition, Proven
<1>2. CASE Status(d) # "ACTIVE" BY <1>2 DEF Transition, Proven
<1>3. CASE Status(d) = "ACTIVE"
  <2>1. d # 1 /\ d - 1 \in Traded BY <1>3 DEF Status
  <2>2. d - 1 \in Nat BY <2>1, SpanShape
  <2>3. reading[d - 1].side = "low" => Status(d - 1) # "ACTIVE" BY DEF Status
  <2>4. CASE d # o /\ PriorStatus(start, d) = Status(d - 1)
    BY <1>1, <1>3, <2>3, <2>4 DEF Transition, Proven
  <2>5. CASE d = o /\ PriorStatus(start, d) = "none"
    BY <1>1, <1>3, <2>5 DEF Transition, Proven
  <2>6. CASE start < d
    <3>1. PriorStatus(start, d) = Status(d - 1) BY <2>6 DEF PriorStatus
    <3>2. d - 1 \in days BY <1>0, <2>1, <2>2, <2>6, SpanShape
    <3>3. o <= d - 1 BY <1>0, <2>2, <2>6, <3>2 DEF Joins
    <3>4. d # o BY <1>0, <3>3
    <3> QED BY <2>4, <3>1, <3>4
  <2>7. CASE ~(start < d) /\ AnchorEvents(start) = {}
    <3>1. PriorStatus(start, d) = "none" BY <2>7 DEF PriorStatus, SeedStatus
    <3>2. o \in days /\ o <= d BY <2>7 DEF Joins
    <3>3. start <= o BY <3>2, SpanShape
    <3>4. d = o BY <1>0, <2>7, <3>2, <3>3
    <3> QED BY <2>5, <3>1, <3>4
  <2>8. CASE ~(start < d) /\ AnchorEvents(start) # {}
    <3>1. PriorStatus(start, d) = SeedStatus(start) BY <2>8 DEF PriorStatus
    <3>2. o < start /\ Kept(start) = Reference(o, start - 1) BY <2>8 DEF Joins
    <3>3. d = start BY <1>0, <2>8
    <3>4. d - 1 \in Span(o, start - 1) BY <1>0, <2>1, <2>2, <3>2, <3>3, SpanShape
    <3>5. \A y \in Span(o, start - 1) : y <= d - 1 BY <3>3, SpanShape
    <3>6. SeedStatus(start) = Status(d - 1) BY <1>0, <2>8, <3>2, <3>4, <3>5, SeedTells
    <3>7. d # o BY <1>0, <3>2, <3>3
    <3> QED BY <2>4, <3>1, <3>6, <3>7
  <2> QED BY <2>6, <2>7, <2>8
<1> QED BY <1>2, <1>3

(* The seam: what is kept and what the pass writes are together what a       *)
(* single pass from the first event writes.                                  *)
LEMMA PassIsReference ==
    ASSUME TimelineInv, NEW start \in 0..MaxDay, NEW latest \in Days, NEW o \in Traded,
           NEW days, days = Span(start, latest), days # {}, Joins(start, days, o)
    PROVE  Kept(start) \union Changes(start, days) = Reference(o, latest)
<1>0. start \in Nat /\ latest \in Nat /\ o \in Nat BY TimelineAssumption, SpanShape, DaysAreNumbers
<1>1. TypeOK /\ days \in SUBSET Days BY SpanShape DEF TimelineInv
<1>2. ASSUME NEW d \in days
      PROVE  /\ ChangeOf(start, days, d) = OnePass(o, latest, d)
             /\ ChangeOf(start, days, d).kind # "none" <=> Before(o, latest, d) # Status(d)
             /\ d \in Span(o, latest) /\ start <= d
  <2>1. Compared(start, days, d) = Before(o, latest, d) BY ComparedIsBefore
  <2>2. Transition(start, d) = Proven(o, d) BY TransitionIsProven
  <2>3. Transition(start, d) \in BOOLEAN BY DEF Transition
  <2>4. Kind(Before(o, latest, d), Status(d), Transition(start, d)) # "none" <=>
            Before(o, latest, d) # Status(d)
    BY <2>3, BeforeKnown, StatusKnown, KindOfChange
  <2>5. ChangeOf(start, days, d).kind = Kind(Before(o, latest, d), Status(d), Transition(start, d))
    BY <2>1 DEF ChangeOf
  <2>6. ChangeOf(start, days, d) = OnePass(o, latest, d) BY <2>1, <2>2 DEF ChangeOf, OnePass
  <2>7. d \in Span(o, latest) /\ start <= d
    <3>1. d \in Nat /\ d \in Traded /\ start <= d /\ d <= latest BY SpanShape
    <3>2. o <= d BY <1>0, <3>1 DEF Joins
    <3> QED BY <3>1, <3>2, SpanShape
  <2> QED BY <2>4, <2>5, <2>6, <2>7
<1>3. /\ \A p \in Changes(start, days) : p.day \in days /\ p = ChangeOf(start, days, p.day) /\ p.kind \in Kinds
      /\ \A d \in days : ChangeOf(start, days, d).kind # "none" =>
            ChangeOf(start, days, d) \in Changes(start, days)
  BY <1>1, ChangesShape
<1>4. Changes(start, days) = {p \in Reference(o, latest) : start <= p.day}
  <2>1. ASSUME NEW p \in Changes(start, days) PROVE p \in Reference(o, latest) /\ start <= p.day
    <3>1. p.day \in days /\ p = ChangeOf(start, days, p.day) /\ p.kind # "none" BY <1>3 DEF Kinds
    <3>2. /\ p = OnePass(o, latest, p.day) /\ Before(o, latest, p.day) # Status(p.day)
          /\ p.day \in Span(o, latest) /\ start <= p.day
      BY <1>2, <3>1
    <3> QED BY <3>2, ReferenceMembers
  <2>2. ASSUME NEW p \in Reference(o, latest), start <= p.day PROVE p \in Changes(start, days)
    <3>1. p.day \in Span(o, latest) /\ p = OnePass(o, latest, p.day) /\ Before(o, latest, p.day) # Status(p.day)
      BY ReferenceMembers
    <3>2. p.day \in days BY <2>2, <3>1, SpanShape
    <3>3. p = ChangeOf(start, days, p.day) /\ ChangeOf(start, days, p.day).kind # "none" BY <1>2, <3>1, <3>2
    <3> QED BY <1>3, <3>2, <3>3
  <2> QED BY <2>1, <2>2
<1>5. Kept(start) = {p \in Reference(o, latest) : ~(start <= p.day)}
  <2>1. CASE AnchorEvents(start) = {}
    <3>1. Kept(start) = {} BY <2>1 DEF Kept
    <3>2. ASSUME NEW p \in Reference(o, latest) PROVE start <= p.day
      <4>1. p.day \in Nat /\ o <= p.day BY ReferenceMembers, SpanShape
      <4>2. start <= o BY <2>1, SpanShape DEF Joins
      <4> QED BY <1>0, <4>1, <4>2
    <3> QED BY <3>1, <3>2
  <2>2. CASE AnchorEvents(start) # {}
    <3>1. o < start /\ Kept(start) = Reference(o, start - 1) BY <2>2 DEF Joins
    <3>2. start - 1 \in Nat /\ start - 1 <= latest
      <4>1. \E d \in days : d \in Nat /\ start <= d /\ d <= latest BY SpanShape
      <4> QED BY <1>0, <3>1, <4>1
    <3> DEFINE b == start - 1
    <3>3. b \in Nat /\ b <= latest BY <3>2
    <3> HIDE DEF b
    <3>4. Reference(o, b) = {p \in Reference(o, latest) : p.day <= b}
      BY <1>0, <3>3, ReferencePrefix
    <3>5. \A p \in Reference(o, latest) : p.day <= b <=> ~(start <= p.day)
      <4>1. \A p \in Reference(o, latest) : p.day \in Nat BY ReferenceMembers, SpanShape
      <4> QED BY <1>0, <4>1 DEF b
    <3> QED BY <3>1, <3>4, <3>5 DEF b
  <2> QED BY <2>1, <2>2
<1> QED BY <1>4, <1>5

(* A pass over days whose readings do not change finds the same.            *)
LEMMA ReferenceStable ==
    ASSUME NEW o \in Traded, NEW c \in Nat, o <= c, UNCHANGED edge_mode,
           \A d \in Days : d <= c => reading'[d] = reading[d]
    PROVE  Reference(o, c)' = Reference(o, c)
<1>1. \A d \in Days : d <= c => (d \in Traded' <=> d \in Traded) BY DEF Traded
<1>2. Span(o, c)' = Span(o, c) BY <1>1 DEF Span, Traded
<1>3. ASSUME NEW d \in Days, d <= c PROVE Status(d)' = Status(d)
  <2>1. CASE d = 1 BY <2>1 DEF Status
  <2>2. CASE d # 1
    <3>1. d - 1 \in Days /\ d - 1 <= c BY <1>3, <2>2, TimelineAssumption DEF Days
    <3>2. d - 1 \in Traded' <=> d - 1 \in Traded BY <1>1, <3>1
    <3> QED BY <1>3, <3>2 DEF Status
  <2> QED BY <2>1, <2>2
<1>4. ASSUME NEW d \in Days, d <= c PROVE Proven(o, d)' <=> Proven(o, d)
  <2>1. CASE d = 1
    <3>1. Status(1) # "ACTIVE" /\ Status(1)' # "ACTIVE" BY DEF Status
    <3> QED BY <2>1, <3>1 DEF Proven
  <2>2. CASE d # 1
    <3>1. d - 1 \in Days /\ d - 1 <= c BY <1>4, <2>2, TimelineAssumption DEF Days
    <3>2. Status(d - 1)' = Status(d - 1) /\ reading'[d - 1] = reading[d - 1] /\ Status(d)' = Status(d)
      BY <1>3, <1>4, <3>1
    <3> QED BY <3>2 DEF Proven
  <2> QED BY <2>1, <2>2
<1>5. ASSUME NEW d \in Span(o, c) PROVE Before(o, c, d)' = Before(o, c, d)
  <2>1. CASE d = o BY <2>1 DEF Before
  <2>2. CASE d # o
    <3> DEFINE S == Span(o, c)
               z == CHOOSE x \in S : x < d /\ \A y \in S : y < d => y <= x
    <3>1. o < d /\ o <= c /\ d \in Nat
      <4>1. d \in Nat /\ o \in Nat /\ o <= d /\ d <= c BY SpanShape
      <4> QED BY <2>2, <4>1
    <3>2. z \in S BY <3>1, PriorExists
    <3>3. z \in Days /\ z <= c BY <3>2, SpanShape
    <3>4. S' = S BY <1>2
    <3>5. Before(o, c, d) = Status(z) BY <2>2 DEF Before
    <3>6. Before(o, c, d)' = Status(z)' BY <2>2 DEF Before
    <3>7. z' = z BY <3>4
    <3> HIDE DEF z
    <3>8. Status(z)' = Status(z) BY <1>1, <1>3, <3>3, <3>7 DEF Status
    <3> QED BY <3>5, <3>6, <3>8
  <2> QED BY <2>1, <2>2
<1>6. ASSUME NEW d \in Span(o, c)
      PROVE  Status(d)' = Status(d) /\ OnePass(o, c, d)' = OnePass(o, c, d)
  <2>1. d \in Days /\ d <= c BY SpanShape
  <2>2. Status(d)' = Status(d) /\ (Proven(o, d)' <=> Proven(o, d)) /\ reading'[d] = reading[d]
    BY <1>3, <1>4, <2>1
  <2>3. Proven(o, d)' = Proven(o, d)
    <3>1. Proven(o, d) \in BOOLEAN /\ Proven(o, d)' \in BOOLEAN BY DEF Proven
    <3> QED BY <2>2, <3>1
  <2> QED BY <1>5, <2>2, <2>3 DEF OnePass
<1>7. Reference(o, c)' = {OnePass(o, c, d)' : d \in {d \in Span(o, c)' : Before(o, c, d)' # Status(d)'}}
  BY DEF Reference, Span, Before, Proven, OnePass
<1> QED BY <1>2, <1>5, <1>6, <1>7, ReferenceForm
(* What a publication leaves valid: the changes it kept and those it wrote. *)
LEMMA PublishedPayloads ==
    ASSUME TimelineInv, NEW start \in 0..MaxDay, NEW latest \in Days, state_through <= latest,
           NEW days \in SUBSET Days, ReplaceSuffix(Superseded(start, latest), Changes(start, days))
    PROVE  {Payload(e) : e \in Valid'} = Kept(start) \union Changes(start, days)
<1> DEFINE old == Superseded(start, latest)
           new == Changes(start, days)
<1>1. TypeOK /\ \A e \in events : e \in Event /\ e.day \in Nat /\ e.day <= latest
  <2>1. TypeOK /\ events \in SUBSET Event /\ state_through \in Nat /\ latest \in Nat
    BY DaysAreNumbers, TimelineAssumption DEF TimelineInv, TypeOK
  <2>2. \A e \in events : e.day \in Nat /\ e.day <= state_through
    BY <2>1, DaysAreNumbers DEF TimelineInv, Event
  <2> QED BY <2>1, <2>2
<1>2. start \in Nat BY TimelineAssumption
<1>3. AnchorEvents(start) = Valid \ old /\ old \subseteq Valid
  BY <1>1, <1>2 DEF AnchorEvents, Superseded, Valid
<1>4. \A p \in new : p = ChangeOf(start, days, p.day) BY <1>1, ChangesShape
<1> HIDE DEF old, new
<1>5. CASE {Payload(e) : e \in old} = new
  <2>1. Valid' = Valid BY <1>5 DEF ReplaceSuffix, Valid, old, new
  <2>2. Valid = AnchorEvents(start) \union old BY <1>3
  <2> QED BY <1>5, <2>1, <2>2 DEF Kept, new
<1>6. CASE {Payload(e) : e \in old} # new
  <2>1. events' = (events \ old) \union {Retired(e) : e \in old} \union {NewEvent(new, p) : p \in new}
    BY <1>6 DEF ReplaceSuffix, Retired, NewEvent, Number, old, new
  <2>2. \A e \in old : ~Retired(e).valid BY <1>1, <1>3, RetiredShape DEF Valid
  <2>3. \A p \in new : NewEvent(new, p).valid BY DEF NewEvent
  <2>4. Valid' = AnchorEvents(start) \union {NewEvent(new, p) : p \in new}
    BY <1>3, <2>1, <2>2, <2>3 DEF Valid
  <2>5. \A p \in new : Payload(NewEvent(new, p)) = p BY <1>4 DEF NewEvent, Payload, ChangeOf
  <2>6. {Payload(e) : e \in Valid'} = Kept(start) \union {Payload(NewEvent(new, p)) : p \in new}
    BY <2>4 DEF Kept
  <2> QED BY <2>5, <2>6 DEF new
<1> QED BY <1>5, <1>6

(* No reading lies after the watermark but the dirty date covers it.        *)
LateDaysAreDirty == \A d \in Traded : state_through < d => dirty_from # None /\ dirty_from <= d

(* How far the published events speak for the stored readings.              *)
Clean == IF dirty_from = None THEN state_through ELSE Earlier(state_through, dirty_from - 1)

(* IncrementalEqualsOnePass in parts: the events and the row.               *)
OnePassUpTo(c) ==
    \A first \in Valid : (\A e \in Valid : first.day <= e.day) /\ first.day <= c =>
        {Payload(e) : e \in {e \in Valid : e.day <= c}} = Reference(first.day, c)
EventsAreOnePass == \A c \in Nat : c = Clean => OnePassUpTo(c)
RowIsOfTheLast ==
    current # NoRow =>
         \E e \in Valid :
            /\ \A f \in Valid : f.day <= e.day
            /\ current.status = e.status /\ current.observed = e.day
            /\ current.since = IF e.kind \in {"ENTER", "EXIT"} THEN e.day ELSE None
OnePassInv == TimelineInv /\ LateDaysAreDirty /\ EventsAreOnePass /\ RowIsOfTheLast

LEMMA CleanShape ==
    ASSUME TypeOK
    PROVE  /\ Clean \in Nat /\ Clean <= state_through /\ state_through \in Nat /\ dirty_from \in Nat
           /\ dirty_from # None => Clean < dirty_from
BY TimelineAssumption DEF TypeOK, Clean, Earlier, None

LEMMA OnePassParts == TypeOK => (IncrementalEqualsOnePass <=> EventsAreOnePass /\ RowIsOfTheLast)
BY CleanShape DEF IncrementalEqualsOnePass, EventsAreOnePass, OnePassUpTo, RowIsOfTheLast, Clean

(* Arriving readings only draw the clean part back to before them.          *)
LEMMA StoreReadingsKeepsPass ==
    ASSUME OnePassInv, TimelineInv', NEW first \in Days, NEW sides \in [Days -> Sides],
           StoreReadings(first, sides)
    PROVE  OnePassInv'
<1>1. /\ UNCHANGED <<edge_mode, state_through, events, current>> /\ Valid' = Valid
      /\ dirty_from' = IF dirty_from = None THEN first ELSE Earlier(dirty_from, first)
      /\ first \in Nat /\ 1 <= first /\ TypeOK /\ TypeOK'
  BY DaysAreNumbers DEF StoreReadings, Valid, OnePassInv, TimelineInv
<1>2. /\ Clean \in Nat /\ Clean' \in Nat /\ dirty_from \in Nat /\ dirty_from' \in Nat /\ state_through \in Nat
      /\ dirty_from' # None => Clean' < dirty_from'
  BY <1>1, CleanShape DEF Clean, TypeOK, Earlier, None
<1>3. dirty_from' # None /\ dirty_from' <= first /\ (dirty_from # None => dirty_from' <= dirty_from)
  BY <1>1, <1>2 DEF Earlier, None
<1>4. Clean' <= Clean /\ Clean' < first BY <1>1, <1>2, <1>3 DEF Clean, Earlier, None
<1>5. ASSUME NEW d \in Days, d < first PROVE reading'[d] = reading[d]
  <2>1. reading'[d] = CASE d < first -> reading[d]
                        [] first <= d /\ sides[d] = "none" -> NoReading
                        [] OTHER -> [side |-> sides[d], edition |-> edition + 1]
    BY DEF StoreReadings
  <2>2. ~(first <= d) BY <1>1, <1>5, DaysAreNumbers
  <2> QED BY <1>5, <2>1, <2>2
<1>6. LateDaysAreDirty'
  <2> SUFFICES ASSUME NEW d \in Traded', state_through < d PROVE dirty_from' <= d
    BY <1>1, <1>3 DEF LateDaysAreDirty
  <2>1. d \in Days /\ d \in Nat /\ reading'[d].side # "none" BY DaysAreNumbers DEF Traded
  <2>2. CASE d < first
    <3>1. d \in Traded BY <1>5, <2>1, <2>2 DEF Traded
    <3>2. dirty_from # None /\ dirty_from <= d BY <3>1 DEF OnePassInv, LateDaysAreDirty
    <3> QED BY <1>2, <1>3, <2>1, <3>2
  <2>3. CASE ~(d < first) BY <1>1, <1>2, <1>3, <2>1, <2>3
  <2> QED BY <2>2, <2>3
<1>7. EventsAreOnePass'
  <2> SUFFICES ASSUME NEW b \in Nat, b = Clean' PROVE OnePassUpTo(b)' BY DEF EventsAreOnePass
  <2> SUFFICES ASSUME NEW f \in Valid, \A e \in Valid : f.day <= e.day, f.day <= b
               PROVE  {Payload(e) : e \in {e \in Valid : e.day <= b}} = Reference(f.day, b)'
    BY <1>1 DEF OnePassUpTo, Payload
  <2>0. PICK c \in Nat : c = Clean BY <1>2
  <2>1. \A e \in Valid : e.day \in Nat BY <1>1, DaysAreNumbers DEF Valid, TypeOK, Event
  <2>2. f.day <= c BY <1>2, <1>4, <2>0, <2>1 DEF Valid
  <2>3. {Payload(e) : e \in {e \in Valid : e.day <= c}} = Reference(f.day, c)
    BY <2>0, <2>2 DEF OnePassInv, EventsAreOnePass, OnePassUpTo
  <2>4. f.day \in Traded
    <3>1. Payload(f) \in Reference(f.day, c) BY <2>2, <2>3
    <3>2. Payload(f).day = f.day BY DEF Payload
    <3> QED BY <3>1, <3>2, ReferenceMembers, SpanShape
  <2>5. b \in Nat /\ c \in Nat /\ b <= c /\ b < first BY <1>2, <1>4, <2>0
  <2>6. Reference(f.day, b) = {p \in Reference(f.day, c) : p.day <= b} BY <2>4, <2>5, ReferencePrefix
  <2>7. {Payload(e) : e \in {e \in Valid : e.day <= b}} = {p \in Reference(f.day, c) : p.day <= b}
    <3>1. \A e \in Valid : Payload(e).day = e.day /\ (e.day <= b => e.day <= c)
      BY <2>1, <2>5 DEF Payload
    <3> QED BY <2>3, <3>1
  <2>8. Reference(f.day, b)' = Reference(f.day, b)
    <3>1. ASSUME NEW d \in Days, d <= b PROVE reading'[d] = reading[d]
      <4>1. d < first BY <1>1, <2>5, <3>1, DaysAreNumbers
      <4> QED BY <1>5, <4>1
    <3> QED BY <1>1, <2>4, <2>5, <3>1, ReferenceStable
  <2> QED BY <2>6, <2>7, <2>8
<1>8. RowIsOfTheLast' BY <1>1 DEF OnePassInv, RowIsOfTheLast
<1> QED BY <1>6, <1>7, <1>8 DEF OnePassInv

(* Where an incremental publication joins the single pass.                  *)
LEMMA PassJoins ==
    ASSUME OnePassInv, NEW force \in BOOLEAN, NEW start, start = StartDay(force), NEW latest \in Days,
           force \/ state_through = None \/ dirty_from # None,
           NEW days, days = Span(start, latest), days # {}
    PROVE  \E o \in Traded : Joins(start, days, o) /\ o <= latest
<1>1. /\ TypeOK /\ latest \in Nat /\ Clean \in Nat /\ Clean <= state_through /\ state_through \in Nat
      /\ dirty_from \in Nat /\ (dirty_from # None => Clean < dirty_from) /\ start \in Nat
  BY CleanShape, DaysAreNumbers DEF OnePassInv, TimelineInv, StartDay, None
<1>2. CASE AnchorEvents(start) = {}
  <2>1. days \in SUBSET Nat BY SpanShape
  <2>2. PICK o \in days : \A d \in days : o <= d BY <2>1, LeastExists
  <2>3. o \in Traded /\ o <= latest BY SpanShape
  <2> QED BY <1>2, <2>2, <2>3 DEF Joins
<1>3. CASE AnchorEvents(start) # {}
  <2>1. \A e \in Valid : e.day \in Days /\ e.day \in Nat /\ 1 <= e.day /\ e.day <= state_through
    BY <1>1, DaysAreNumbers DEF OnePassInv, TimelineInv, TypeOK, Valid, Event
  <2>2. start = dirty_from /\ dirty_from # None
    <3>1. start # None
      <4>1. PICK e \in AnchorEvents(start) : e \in Valid /\ e.day < start BY <1>3 DEF AnchorEvents
      <4> QED BY <1>1, <2>1, <4>1 DEF None
    <3> QED BY <3>1 DEF StartDay
  <2> DEFINE T == {e.day : e \in Valid}
  <2>3. PICK t \in T : \A y \in T : t <= y
    <3>1. T # {} /\ T \in SUBSET Nat BY <1>3, <2>1 DEF AnchorEvents
    <3> HIDE DEF T
    <3> QED BY <3>1, LeastExists
  <2>4. PICK f \in Valid : t = f.day BY <2>3
  <2>5. \A e \in Valid : f.day <= e.day BY <2>3, <2>4
  <2>6. f.day < start
    <3>1. PICK e \in AnchorEvents(start) : e \in Valid /\ e.day < start BY <1>3 DEF AnchorEvents
    <3> QED BY <1>1, <2>1, <2>5, <3>1
  <2>7. PICK c \in Nat : c = Clean BY <1>1
  <2>8. c = Earlier(state_through, start - 1) BY <2>2, <2>7 DEF Clean
  <2>9. f.day <= c BY <1>1, <2>1, <2>6, <2>8 DEF Earlier
  <2>10. {Payload(e) : e \in {e \in Valid : e.day <= c}} = Reference(f.day, c)
    BY <2>5, <2>7, <2>9 DEF OnePassInv, EventsAreOnePass, OnePassUpTo
  <2>11. AnchorEvents(start) = {e \in Valid : e.day <= c}
    <3>1. \A e \in Valid : e.day < start <=> e.day <= c BY <1>1, <2>1, <2>8 DEF Earlier
    <3> QED BY <3>1 DEF AnchorEvents
  <2>12. Span(f.day, c) = Span(f.day, start - 1)
    <3>1. \A d \in Traded : state_through < d => start <= d
      BY <2>2 DEF OnePassInv, LateDaysAreDirty
    <3>2. \A d \in Traded : d \in Nat BY SpanShape
    <3>3. \A d \in Traded : d <= c <=> d <= start - 1 BY <1>1, <2>8, <3>1, <3>2 DEF Earlier
    <3> QED BY <3>3 DEF Span
  <2>13. Kept(start) = Reference(f.day, start - 1)
    <3>1. Reference(f.day, c) = Reference(f.day, start - 1) BY <2>12, ReferenceSame
    <3> QED BY <2>10, <2>11, <3>1 DEF Kept
  <2>14. f.day \in Traded
    <3>1. Payload(f) \in Reference(f.day, c) BY <2>9, <2>10
    <3>2. Payload(f).day = f.day BY DEF Payload
    <3> QED BY <3>1, <3>2, ReferenceMembers, SpanShape
  <2>15. f.day <= latest
    <3>1. PICK d \in days : d \in Nat /\ start <= d /\ d <= latest BY SpanShape
    <3> QED BY <1>1, <2>1, <2>6, <3>1
  <2> QED BY <1>3, <2>6, <2>13, <2>14, <2>15 DEF Joins
<1> QED BY <1>2, <1>3

(* The row a publication writes is of the last change of the single pass.   *)
LEMMA RowOfTheLast ==
    ASSUME TimelineInv, NEW start \in 0..MaxDay, NEW latest \in Traded, NEW o \in Traded, o <= latest,
           NEW new, Kept(start) \union new = Reference(o, latest)
    PROVE  \E p \in Reference(o, latest) :
             LET row == CurrentRow(start, new, latest)
             IN /\ \A q \in Reference(o, latest) : q.day <= p.day
                /\ row.status = p.status /\ row.observed = p.day
                /\ row.since = IF p.kind \in {"ENTER", "EXIT"} THEN p.day ELSE None
<1> DEFINE S == Reference(o, latest)
<1>1. latest \in Nat /\ latest \in Span(o, latest)
  <2>1. latest \in Nat BY SpanShape
  <2> QED BY <2>1, SpanShape
<1>2. PICK p \in S : /\ p.day <= latest /\ p.status = Status(latest)
                     /\ \A q \in S : q.day <= latest => q.day <= p.day
  BY <1>1, ReferenceTells DEF Told
<1>3. \A q \in S : /\ q.day \in Nat /\ q.day \in Days /\ q.day <= latest
                   /\ q = OnePass(o, latest, q.day)
  BY ReferenceMembers, SpanShape
<1>4. \A q \in S : q.day <= p.day BY <1>2, <1>3
<1> DEFINE last == LastDay(S)
<1>5. last \in S /\ \A q \in S : q.day <= last.day
  <2>1. S # {} /\ \A r \in S : r.day \in Days BY <1>2, <1>3
  <2> HIDE DEF S
  <2> QED BY <2>1, LastDayOf
<1>6. last = p
  <2>1. last.day <= p.day /\ p.day <= last.day BY <1>2, <1>4, <1>5
  <2>2. last.day \in Nat /\ p.day \in Nat BY <1>2, <1>3, <1>5
  <2>3. last.day = p.day BY <2>1, <2>2
  <2> QED BY <1>2, <1>3, <1>5, <2>3
<1>7. CurrentRow(start, new, latest) =
        [day |-> latest, status |-> Status(latest), transition |-> Transition(start, latest),
         observed |-> last.day,
         since |-> IF last.kind \in {"ENTER", "EXIT"} THEN last.day ELSE None]
  BY DEF CurrentRow, Kept
<1> HIDE DEF last
<1> QED BY <1>2, <1>4, <1>6, <1>7

(* A publication leaves the events of a single pass over the same readings. *)
LEMMA MaterializeKeepsPass ==
    ASSUME OnePassInv, TimelineInv', NEW end \in Days, NEW force \in BOOLEAN, Materialize(end, force)
    PROVE  OnePassInv'
<1> DEFINE start == StartDay(force)
<1>1. PICK latest \in Days :
        LET days == {d \in Traded : start <= d /\ d <= latest}
        IN /\ IsGreatest(latest, {d \in Traded : d <= end})
           /\ state_through <= latest
           /\ Publish(IF days = {} THEN None ELSE start, days, latest)
           /\ state_through' = latest
           /\ dirty_from' = IF \E d \in Traded : latest < d THEN dirty_from ELSE None
  BY DEF Materialize
<1> DEFINE days == Span(start, latest)
           origin == IF days = {} THEN None ELSE start
           new == Changes(origin, days)
<1>2. /\ force \/ state_through = None \/ dirty_from # None
      /\ UNCHANGED <<edge_mode, edition, reading>>
  BY DEF Materialize
<1>3. /\ ReplaceSuffix(Superseded(origin, latest), new)
      /\ current' = IF days = {} THEN NoRow ELSE CurrentRow(origin, new, latest)
  BY <1>1 DEF Publish, Span
<1>4. /\ start \in 0..MaxDay /\ origin \in 0..MaxDay /\ start \in Nat /\ None = 0
      /\ latest \in Nat /\ latest \in Traded /\ days \in SUBSET Days
  <2>1. start \in 0..MaxDay
    BY TimelineAssumption DEF StartDay, OnePassInv, TimelineInv, TypeOK, None
  <2> QED BY <1>1, <2>1, DaysAreNumbers, SpanShape, TimelineAssumption DEF IsGreatest, None
<1>5. {Payload(e) : e \in Valid'} = Kept(origin) \union new
  BY <1>1, <1>3, <1>4, PublishedPayloads DEF OnePassInv
<1>6. Traded' = Traded BY <1>2 DEF Traded
<1>7. LateDaysAreDirty'
  <2> SUFFICES ASSUME NEW d \in Traded, latest < d PROVE dirty_from' # None /\ dirty_from' <= d
    BY <1>1, <1>6 DEF LateDaysAreDirty
  <2>1. dirty_from' = dirty_from BY <1>1
  <2>2. state_through < d
    <3>1. d \in Nat /\ state_through \in Nat BY SpanShape, CleanShape DEF OnePassInv, TimelineInv
    <3> QED BY <1>1, <1>4, <3>1
  <2> QED BY <2>1, <2>2 DEF OnePassInv, LateDaysAreDirty
<1>8. /\ Clean' \in Nat /\ Clean' <= latest
  BY <1>1, CleanShape DEF Clean, Earlier, TypeOK, TimelineInv, None
<1> HIDE DEF days, origin, new, start
<1>9. CASE days = {}
  <2>1. AnchorEvents(origin) = {}
    <3>1. \A e \in Valid : e.day \in Nat BY DaysAreNumbers DEF OnePassInv, TimelineInv, TypeOK, Valid, Event
    <3> QED BY <1>4, <1>9, <3>1 DEF AnchorEvents, origin
  <2>2. new = {} BY <1>9 DEF new, Changes
  <2>3. Valid' = {} BY <1>5, <2>1, <2>2 DEF Kept
  <2>4. current' = NoRow BY <1>3, <1>9
  <2>5. EventsAreOnePass' BY <2>3 DEF EventsAreOnePass, OnePassUpTo
  <2>6. RowIsOfTheLast' BY <2>4 DEF RowIsOfTheLast, NoRow
  <2> QED BY <1>7, <2>5, <2>6 DEF OnePassInv
<1>10. CASE days # {}
  <2>1. origin = start BY <1>10 DEF origin
  <2>2. PICK o \in Traded : Joins(start, days, o) /\ o <= latest
    BY <1>2, <1>10, PassJoins DEF days, start
  <2>3. Kept(start) \union Changes(start, days) = Reference(o, latest)
    BY <1>4, <1>10, <2>2, PassIsReference DEF days, OnePassInv
  <2>4. {Payload(e) : e \in Valid'} = Reference(o, latest) BY <1>5, <2>1, <2>3 DEF new
  <2>5. \A e \in Valid' : Payload(e).day = e.day /\ Payload(e).status = e.status /\ Payload(e).kind = e.kind
    BY DEF Payload
  <2>6. o \in Nat /\ \A e \in Valid' : e.day \in Nat /\ o <= e.day
    <3>1. o \in Nat BY SpanShape
    <3>2. \A p \in Reference(o, latest) : o <= p.day /\ p.day \in Nat
      BY <1>4, <2>2, ReferenceStarts, SpanShape
    <3> QED BY <2>4, <2>5, <3>1, <3>2
  <2>7. EventsAreOnePass'
    <3> SUFFICES ASSUME NEW b \in Nat, b = Clean' PROVE OnePassUpTo(b)' BY DEF EventsAreOnePass
    <3> SUFFICES ASSUME NEW f \in Valid', \A e \in Valid' : f.day <= e.day, f.day <= b
                 PROVE  {Payload(e) : e \in {e \in Valid' : e.day <= b}} = Reference(f.day, b)'
      BY DEF OnePassUpTo, Payload
    <3>1. f.day = o
      <4>1. PICK p \in Reference(o, latest) : p.day = o BY <1>4, <2>2, ReferenceStarts
      <4>2. PICK e \in Valid' : p = Payload(e) BY <2>4
      <4>3. e.day = o BY <2>5, <4>1, <4>2
      <4>4. f.day <= o /\ o <= f.day BY <2>6, <4>3
      <4> QED BY <2>6, <4>4
    <3>2. b <= latest BY <1>8
    <3>3. Reference(o, b) = {p \in Reference(o, latest) : p.day <= b} BY <1>4, <3>2, ReferencePrefix
    <3>4. {Payload(e) : e \in {e \in Valid' : e.day <= b}} = {p \in Reference(o, latest) : p.day <= b}
      BY <2>4, <2>5
    <3>5. o <= b BY <3>1
    <3>6. Reference(o, b)' = Reference(o, b) BY <1>2, <3>5, ReferenceStable
    <3> QED BY <3>1, <3>3, <3>4, <3>6
  <2>8. RowIsOfTheLast'
    <3>1. Kept(start) \union new = Reference(o, latest) BY <2>1, <2>3 DEF new
    <3>2. current' = CurrentRow(start, new, latest) BY <1>3, <1>10, <2>1
    <3>3. PICK p \in Reference(o, latest) :
             /\ \A q \in Reference(o, latest) : q.day <= p.day
             /\ current'.status = p.status /\ current'.observed = p.day
             /\ current'.since = IF p.kind \in {"ENTER", "EXIT"} THEN p.day ELSE None
      BY <1>4, <2>2, <3>1, <3>2, RowOfTheLast DEF OnePassInv
    <3>4. PICK e \in Valid' : p = Payload(e) BY <2>4
    <3>5. \A g \in Valid' : g.day <= e.day BY <2>4, <2>5, <3>3, <3>4
    <3>6. e.day = p.day /\ e.status = p.status /\ e.kind = p.kind BY <2>5, <3>4
    <3> QED BY <3>3, <3>5, <3>6 DEF RowIsOfTheLast
  <2> QED BY <1>7, <2>7, <2>8 DEF OnePassInv
<1> QED BY <1>9, <1>10

LEMMA OnePassInvariant == Spec => []OnePassInv
<1>1. ASSUME Init PROVE OnePassInv
  <2>1. Valid = {} /\ Traded = {} /\ current = NoRow BY <1>1 DEF Init, Valid, Traded, NoReading
  <2>2. LateDaysAreDirty /\ EventsAreOnePass /\ RowIsOfTheLast
    BY <2>1 DEF LateDaysAreDirty, EventsAreOnePass, OnePassUpTo, RowIsOfTheLast
  <2> QED BY <1>1, <2>2, TimelineStarts DEF OnePassInv
<1>2. ASSUME OnePassInv, UNCHANGED vars, TimelineInv' PROVE OnePassInv'
  <2>1. Valid' = Valid /\ Traded' = Traded /\ Clean' = Clean BY <1>2 DEF Valid, Traded, Clean, vars
  <2>2. LateDaysAreDirty' BY <1>2, <2>1 DEF OnePassInv, LateDaysAreDirty, vars
  <2>3. RowIsOfTheLast' BY <1>2, <2>1 DEF OnePassInv, RowIsOfTheLast, vars
  <2>4. EventsAreOnePass'
    <3> SUFFICES ASSUME NEW b \in Nat, b = Clean' PROVE OnePassUpTo(b)' BY DEF EventsAreOnePass
    <3>1. OnePassUpTo(b) BY <1>2, <2>1 DEF OnePassInv, EventsAreOnePass
    <3>2. \A o : Reference(o, b)' = Reference(o, b) BY <1>2 DEF Reference, Status, Traded, vars
    <3> QED BY <2>1, <3>1, <3>2 DEF OnePassUpTo, Payload
  <2> QED BY <1>2, <2>2, <2>3, <2>4 DEF OnePassInv
<1>3. OnePassInv /\ TimelineInv' /\ [Next]_vars => OnePassInv'
  BY <1>2, StoreReadingsKeepsPass, MaterializeKeepsPass DEF Next, UpToDate
<1> QED BY <1>1, <1>3, TimelineInvariant, PTL DEF Spec

(* However many corrected, deleted, cut-off, forced and repeated partial    *)
(* publications came before, the events before the dirty date are exactly   *)
(* those of one pass over the stored readings, and the current row is of    *)
(* the last of them: the publication's seed, the last valid event before    *)
(* the rewritten range, stands for every day it does not read.              *)
THEOREM IncrementalIsOnePass == Spec => []IncrementalEqualsOnePass
<1>1. OnePassInv => IncrementalEqualsOnePass BY OnePassParts DEF OnePassInv, TimelineInv
<1> QED BY <1>1, OnePassInvariant, PTL

-----------------------------------------------------------------------------
(* A client that pages through the timeline.                                *)

(* While the version is the one the client saw, its pages hold the events of *)
(* the window up to its cursor.                                             *)
PagingInv ==
    /\ TimelineInv
    /\ reader.phase \in {"idle", "paging", "done"}
    /\ reader.phase = "paging" =>
          /\ reader.generation \in Nat /\ reader.generation <= state_generation /\ reader.cursor \in Nat
          /\ SameVersion => reader.pages = {e \in InWindow : e.seq <= reader.cursor}

(* A publication that keeps the version keeps the window and its events.    *)
LEMMA VersionOfWindow ==
    ASSUME TimelineInv, NEW end \in Days, NEW force \in BOOLEAN, Materialize(end, force)
    PROVE  /\ state_generation' \in Nat /\ state_generation <= state_generation'
           /\ state_generation' = state_generation => InWindow' = InWindow
<1> DEFINE start == StartDay(force)
<1>1. PICK latest \in Days :
        LET days == {d \in Traded : start <= d /\ d <= latest}
        IN /\ state_through <= latest
           /\ Publish(IF days = {} THEN None ELSE start, days, latest)
           /\ state_through' = latest
  BY DEF Materialize
<1> DEFINE days == {d \in Traded : start <= d /\ d <= latest}
           origin == IF days = {} THEN None ELSE start
           new == Changes(origin, days)
           old == Superseded(origin, latest)
<1>2. /\ ReplaceSuffix(old, new) /\ state_generation' = Version(old, new, latest)
      /\ current' = IF days = {} THEN NoRow ELSE CurrentRow(origin, new, latest)
  BY <1>1 DEF Publish
<1> HIDE DEF days, origin, new, old
<1>3. state_generation \in Nat BY DEF TimelineInv, TypeOK
<1>4. ASSUME state_generation' = state_generation PROVE InWindow' = InWindow
  <2>1. {Payload(e) : e \in old} = new /\ current.day = latest BY <1>2, <1>3, <1>4 DEF Version
  <2>2. Valid' = Valid BY <1>2, <2>1 DEF ReplaceSuffix, Valid
  <2>3. CASE days = {}
    <3>1. new = {} BY <2>3 DEF new, Changes
    <3>2. old = {} BY <2>1, <3>1
    <3>3. \A e \in Valid : None <= e.day /\ e.day <= latest
      <4> SUFFICES ASSUME NEW e \in Valid PROVE None <= e.day /\ e.day <= latest OBVIOUS
      <4>1. e.day \in Days /\ e.day <= state_through BY DEF TimelineInv, TypeOK, Valid, Event
      <4>2. state_through \in 0..MaxDay BY DEF TimelineInv, TypeOK
      <4>3. e.day \in Nat /\ state_through \in Nat /\ latest \in Nat
        <5>1. e.day \in Nat /\ latest \in Nat BY <4>1, DaysAreNumbers
        <5>2. \A n \in 0..MaxDay : n \in Nat BY TimelineAssumption
        <5> QED BY <4>2, <5>1, <5>2
      <4> QED BY <1>1, <4>1, <4>3 DEF None
    <3>4. Valid = {} BY <2>3, <3>2, <3>3 DEF old, origin, Superseded
    <3> QED BY <2>2, <3>4 DEF InWindow
  <2>4. CASE days # {}
    <3>1. current'.day = latest BY <1>2, <2>4 DEF CurrentRow
    <3>2. latest # None BY DaysAreNumbers DEF None
    <3>3. WindowEnd' = WindowEnd BY <2>1, <3>1, <3>2 DEF WindowEnd
    <3> QED BY <2>2, <3>3 DEF InWindow
  <2> QED BY <2>3, <2>4
<1> QED BY <1>2, <1>3, <1>4 DEF Version

(* The window's events: few enough to count, numbered from 1.               *)
LEMMA WindowShape ==
    ASSUME TimelineInv
    PROVE  /\ IsFiniteSet(InWindow)
           /\ \A e \in InWindow : e.seq \in Nat /\ 1 <= e.seq
           /\ \A e, f \in InWindow : e.seq = f.seq => e = f
<1>1. \A e \in InWindow : e \in events /\ e \in Valid /\ e.day \in Days /\ e.seq \in Nat /\ 1 <= e.seq
  BY DEF TimelineInv, TypeOK, Event, InWindow, Valid
<1>2. \A e, f \in InWindow : e.seq = f.seq => e = f BY <1>1 DEF TimelineInv, SequenceFollowsDates
<1>3. \A e, f \in InWindow : e.day = f.day => e = f
  <2> SUFFICES ASSUME NEW e \in InWindow, NEW f \in InWindow, e.day = f.day PROVE e = f OBVIOUS
  <2>1. e.day \in Nat /\ ~(e.day < f.day) /\ ~(f.day < e.day)
    <3>1. e.day \in Nat BY <1>1, DaysAreNumbers
    <3> QED BY <3>1
  <2>2. ~(e.seq < f.seq) /\ ~(f.seq < e.seq) BY <1>1, <2>1 DEF TimelineInv, SequenceFollowsDates
  <2> QED BY <1>1, <1>2, <2>2
<1>4. IsFiniteSet(InWindow)
  <2> DEFINE f == [e \in InWindow |-> e.day]
  <2>1. f \in Injection(InWindow, Days) BY <1>1, <1>3 DEF Injection, IsInjective
  <2>2. IsFiniteSet(Days) BY TimelineAssumption, FS_Interval DEF Days
  <2> QED BY <2>1, <2>2, FS_Injection
<1> QED BY <1>1, <1>2, <1>4

(* A page is the rows up to one of them, the last one if rows are left over. *)
LEMMA PageShape ==
    ASSUME TimelineInv, PagingAssumption, NEW after \in Nat,
           Page(after) # {e \in InWindow : after < e.seq}
    PROVE  LET last == CHOOSE e \in Page(after) : \A f \in Page(after) : f.seq <= e.seq
           IN /\ last \in InWindow /\ after < last.seq
              /\ Page(after) = {e \in InWindow : after < e.seq /\ e.seq <= last.seq}
<1> DEFINE rows == {e \in InWindow : after < e.seq}
           Ahead(e) == {f \in rows : f.seq < e.seq}
           page == Page(after)
           last == CHOOSE e \in page : \A f \in page : f.seq <= e.seq
<1>1. page = {e \in rows : Cardinality(Ahead(e)) < PageLimit} BY DEF Page
<1>2. IsFiniteSet(rows) /\ rows \subseteq InWindow /\ \A e \in rows : e.seq \in Nat
  BY WindowShape, FS_Subset
<1> HIDE DEF page
<1>3. PICK first \in rows : \A e \in rows : first.seq <= e.seq
  <2> DEFINE numbers == {e.seq : e \in rows}
  <2>1. numbers \in SUBSET Nat /\ numbers # {} BY <1>1, <1>2 DEF page
  <2>2. PICK m \in numbers : \A n \in numbers : m <= n
    <3> HIDE DEF numbers
    <3> QED BY <2>1, LeastExists
  <2> QED BY <2>2
<1>4. first \in page
  <2>1. Ahead(first) = {} BY <1>2, <1>3
  <2>2. Cardinality(Ahead(first)) = 0 BY <2>1, FS_EmptySet
  <2> QED BY <1>1, <2>2 DEF PagingAssumption
<1>5. \E e \in page : \A f \in page : f.seq <= e.seq
  <2> DEFINE numbers == {e.seq : e \in page}
             Above(e) == {f \in page : e.seq < f.seq}
             counts == {Cardinality(Above(e)) : e \in page}
  <2>1. page \subseteq rows /\ IsFiniteSet(page) BY <1>1, <1>2, FS_Subset
  <2>2. \A e \in page : IsFiniteSet(Above(e)) /\ Cardinality(Above(e)) \in Nat
    BY <2>1, FS_Subset, FS_CardinalityType
  <2>3. counts \in SUBSET Nat /\ counts # {} BY <1>4, <2>2
  <2>4. PICK c \in counts : \A d \in counts : c <= d
    <3> HIDE DEF counts
    <3> QED BY <2>3, LeastExists
  <2>5. PICK e \in page : c = Cardinality(Above(e)) OBVIOUS
  <2>6. ASSUME NEW f \in page, ~(f.seq <= e.seq) PROVE FALSE
    <3>1. f.seq \in Nat /\ e.seq \in Nat BY <1>2, <2>1
    <3>2. Above(f) \in SUBSET page /\ Above(e) \in SUBSET page OBVIOUS
    <3>3. Above(f) \subseteq Above(e) /\ f \in Above(e) /\ f \notin Above(f) BY <1>2, <2>1, <2>6, <3>1
    <3>4. Above(f) # Above(e) BY <3>3
    <3>5. Cardinality(Above(f)) < Cardinality(Above(e))
      <4> HIDE DEF Above
      <4> QED BY <2>1, <3>2, <3>3, <3>4, CountGrows
    <3>6. c <= Cardinality(Above(f)) BY <2>4
    <3>7. Cardinality(Above(f)) \in Nat /\ Cardinality(Above(e)) \in Nat BY <2>2
    <3> HIDE DEF Above, counts
    <3> QED BY <2>5, <3>5, <3>6, <3>7
  <2> QED BY <2>6
<1>6. last \in page /\ \A f \in page : f.seq <= last.seq BY <1>5
<1> HIDE DEF last
<1>7. last \in rows /\ Cardinality(Ahead(last)) < PageLimit BY <1>1, <1>6
<1>8. ASSUME NEW e \in rows, e.seq <= last.seq PROVE e \in page
  <2>1. Ahead(e) \in SUBSET rows /\ Ahead(last) \in SUBSET rows OBVIOUS
  <2>2. Ahead(e) \subseteq Ahead(last) BY <1>2, <1>7, <1>8
  <2>3. /\ Cardinality(Ahead(e)) \in Nat /\ Cardinality(Ahead(last)) \in Nat
        /\ Cardinality(Ahead(e)) <= Cardinality(Ahead(last))
    <3> HIDE DEF Ahead, rows
    <3> QED BY <1>2, <2>1, <2>2, CountGrows
  <2>4. Cardinality(Ahead(e)) < PageLimit BY <1>7, <2>3 DEF PagingAssumption
  <2> QED BY <1>1, <2>4
<1>9. page = {e \in rows : e.seq <= last.seq} BY <1>1, <1>6, <1>8
<1> QED BY <1>7, <1>9 DEF page, last

(* A page leaves the client with the window up to its new cursor, or with   *)
(* all of it.                                                               *)
LEMMA ReadPageStep ==
    ASSUME TimelineInv, PagingAssumption, NEW after \in Nat, NEW collected, ReadPage(after, collected),
           collected = {e \in InWindow : e.seq <= after}
    PROVE  PagingInv' /\ (reader'.phase = "done" => reader'.pages = InWindow)
<1> DEFINE page == Page(after)
           rows == {e \in InWindow : after < e.seq}
           last == CHOOSE e \in page : \A f \in page : f.seq <= e.seq
           more == page # rows
<1>1. UNCHANGED vars BY DEF ReadPage
<1>2. TimelineInv' BY <1>1, TimelineStutters
<1>3. InWindow' = InWindow /\ state_generation' = state_generation
  BY <1>1 DEF vars, InWindow, Valid, WindowEnd
<1>4. reader' = [phase |-> IF more THEN "paging" ELSE "done", generation |-> state_generation,
                 cursor |-> IF more THEN last.seq ELSE 0, pages |-> collected \union page]
  BY DEF ReadPage
<1>5. state_generation \in Nat BY DEF TimelineInv, TypeOK
<1>6. \A e \in InWindow : e.seq \in Nat BY WindowShape
<1>7. CASE more
  <2>1. /\ last \in InWindow /\ after < last.seq
        /\ page = {e \in InWindow : after < e.seq /\ e.seq <= last.seq}
    BY <1>7, PageShape
  <2> HIDE DEF page, last, more
  <2>2. /\ reader'.phase = "paging" /\ reader'.generation = state_generation
        /\ reader'.cursor = last.seq /\ reader'.pages = collected \union page
    BY <1>4, <1>7
  <2>3. last.seq \in Nat /\ collected \union page = {e \in InWindow : e.seq <= last.seq} BY <1>6, <2>1
  <2> QED BY <1>2, <1>3, <1>5, <2>2, <2>3 DEF PagingInv
<1>8. CASE ~more
  <2>1. reader'.phase = "done" /\ reader'.pages = collected \union rows BY <1>4, <1>8
  <2>2. collected \union rows = InWindow BY <1>6
  <2> QED BY <1>2, <2>1, <2>2 DEF PagingInv
<1> QED BY <1>7, <1>8

LEMMA FirstPageStep ==
    ASSUME TimelineInv, PagingAssumption, FirstPage
    PROVE  PagingInv' /\ (reader'.phase = "done" => reader'.pages = InWindow)
<1>1. {} = {e \in InWindow : e.seq <= 0} BY WindowShape
<1> QED BY <1>1, ReadPageStep DEF FirstPage

(* The client's position is always consistent with the version it names.    *)
THEOREM PagingInvariant ==
    ASSUME PagingAssumption
    PROVE  PagingSpec => []PagingInv
<1>1. PagingInit => PagingInv BY TimelineStarts DEF PagingInit, NoReader, PagingInv
<1>2. PagingInv /\ [PagingNext]_pagingVars => PagingInv'
  <2> SUFFICES ASSUME PagingInv, [PagingNext]_pagingVars PROVE PagingInv' OBVIOUS
  <2>0. TimelineInv /\ state_generation \in Nat BY DEF PagingInv, TimelineInv, TypeOK
  <2>1. ASSUME UNCHANGED reader, TimelineInv', state_generation' \in Nat,
               state_generation <= state_generation',
               state_generation' = state_generation => InWindow' = InWindow
        PROVE  PagingInv'
    BY <2>0, <2>1 DEF PagingInv, SameVersion
  <2>2. ASSUME NEW first \in Days, NEW sides \in [Days -> Sides], StoreReadings(first, sides),
               UNCHANGED reader
        PROVE  PagingInv'
    <3>1. TimelineInv' /\ UNCHANGED <<state_through, state_generation, events, current>>
      BY <2>0, <2>2, StoreReadingsKeeps DEF StoreReadings
    <3>2. InWindow' = InWindow BY <3>1 DEF InWindow, Valid, WindowEnd
    <3> QED BY <2>0, <2>1, <2>2, <3>1, <3>2
  <2>3. ASSUME NEW end \in Days, NEW force \in BOOLEAN, Materialize(end, force), UNCHANGED reader
        PROVE  PagingInv'
    <3>1. TimelineInv' BY <2>0, <2>3, MaterializeKeeps
    <3> QED BY <2>0, <2>1, <2>3, <3>1, VersionOfWindow
  <2>4. CASE UNCHANGED vars /\ UNCHANGED reader
    <3>1. InWindow' = InWindow /\ state_generation' = state_generation
      BY <2>4 DEF vars, InWindow, Valid, WindowEnd
    <3> QED BY <2>0, <2>1, <2>4, <3>1, TimelineStutters
  <2>5. CASE FirstPage BY <2>0, <2>5, FirstPageStep
  <2>6. CASE NextPage
    <3>1. reader.cursor \in Nat /\ reader.pages = {e \in InWindow : e.seq <= reader.cursor}
      BY <2>6 DEF NextPage, PagingInv
    <3> QED BY <2>0, <2>6, <3>1, ReadPageStep DEF NextPage
  <2> QED BY <2>2, <2>3, <2>4, <2>5, <2>6 DEF PagingNext, Next, UpToDate, pagingVars
<1> QED BY <1>1, <1>2, PTL DEF PagingSpec

(* A client that completes a pagination holds the window of one publication, *)
(* whatever was published between its requests.                             *)
THEOREM PagesAreOneTimeline ==
    ASSUME PagingAssumption
    PROVE  PagingSpec => PagesAreOnePublication
<1>1. PagingInv /\ [PagingNext]_pagingVars =>
        [reader' # reader /\ reader'.phase = "done" => reader'.pages = InWindow]_pagingVars
  <2> SUFFICES ASSUME PagingInv, PagingNext, reader' # reader, reader'.phase = "done"
               PROVE  reader'.pages = InWindow
    BY DEF pagingVars
  <2>1. TimelineInv BY DEF PagingInv
  <2>2. CASE FirstPage BY <2>1, <2>2, FirstPageStep
  <2>3. CASE NextPage
    <3>1. reader.cursor \in Nat /\ reader.pages = {e \in InWindow : e.seq <= reader.cursor}
      BY <2>3 DEF NextPage, PagingInv
    <3> QED BY <2>1, <2>3, <3>1, ReadPageStep DEF NextPage
  <2> QED BY <2>2, <2>3 DEF PagingNext
<1> QED BY <1>1, PagingInvariant, PTL DEF PagingSpec, PagesAreOnePublication

-----------------------------------------------------------------------------
(* Issuing trigger numbers.                                                 *)

CountTo(days, d) == Cardinality({x \in days : x <= d})

LEMMA EnqueuedDay ==
    ASSUME NEW days, Enqueue(days), NEW n \in notifications', n \notin notifications
    PROVE  n.day \in days
<1>1. PICK d \in days : n = [seq |-> NextTrigger + Cardinality({x \in days : x <= d}),
                             rule_version |-> rule.rule_version, day |-> d]
  BY DEF Enqueue
<1> QED BY <1>1

LEMMA DatesCounted ==
    ASSUME NEW days \in SUBSET Days
    PROVE  /\ Cardinality(days) \in Nat
           /\ \A d \in days : CountTo(days, d) \in Nat /\ 1 <= CountTo(days, d)
                                /\ CountTo(days, d) <= Cardinality(days)
           /\ \A c, d \in days : c < d => CountTo(days, c) < CountTo(days, d)
<1>0. days \in SUBSET Nat BY DaysAreNumbers
<1>1. IsFiniteSet(days)
  <2>1. IsFiniteSet(Days) BY TimelineAssumption, FS_Interval DEF Days
  <2> QED BY <2>1, FS_Subset
<1> DEFINE upTo(d) == {x \in days : x <= d}
<1>2. ASSUME NEW d \in days
      PROVE  /\ CountTo(days, d) \in Nat /\ 1 <= CountTo(days, d)
             /\ CountTo(days, d) <= Cardinality(days)
  <2>1. {} \in SUBSET days /\ upTo(d) \in SUBSET days /\ d \in upTo(d) BY <1>0
  <2>2. Cardinality(upTo(d)) \in Nat /\ Cardinality({}) < Cardinality(upTo(d))
    BY <1>1, <2>1, CountGrows
  <2>3. Cardinality(upTo(d)) <= Cardinality(days) BY <1>1, <2>1, CountGrows
  <2> QED BY <2>2, <2>3, FS_EmptySet DEF CountTo
<1>3. ASSUME NEW c \in days, NEW d \in days, c < d PROVE CountTo(days, c) < CountTo(days, d)
  <2>1. upTo(c) \in SUBSET days /\ upTo(d) \in SUBSET days OBVIOUS
  <2>2. upTo(c) \subseteq upTo(d)
    <3> SUFFICES ASSUME NEW x \in days, x <= c PROVE x <= d OBVIOUS
    <3>1. x \in Nat /\ c \in Nat /\ d \in Nat BY <1>0
    <3> QED BY <1>3, <3>1
  <2>3. d \in upTo(d) /\ d \notin upTo(c) BY <1>0, <1>3
  <2>4. upTo(c) # upTo(d) BY <2>3
  <2> HIDE DEF upTo
  <2>5. Cardinality(upTo(c)) < Cardinality(upTo(d)) BY <1>1, <2>1, <2>2, <2>4, CountGrows
  <2> QED BY <2>5 DEF CountTo, upTo
<1>4. Cardinality(days) \in Nat BY <1>1, FS_CardinalityType
<1> QED BY <1>2, <1>3, <1>4

(* The row of one announced day.                                            *)
Announcement(days, d) ==
    [seq |-> rule.trigger_sequence + CountTo(days, d), rule_version |-> rule.rule_version, day |-> d]

(* Days later than every announced one of this version get the next free    *)
(* numbers in date order.                                                   *)
LEMMA EnqueueKeeps ==
    ASSUME AlertTypeOK, CursorInv, NumbersInv, NEW days \in SUBSET Days, Enqueue(days),
           \A n \in notifications : n.rule_version = rule.rule_version => \A d \in days : n.day < d
    PROVE  /\ notifications' \in SUBSET Notification /\ rule' \in Rule
           /\ rule'.rule_version = rule.rule_version
           /\ IssuedBy(days) \in Nat /\ IssuedBy(days) <= rule'.trigger_sequence
           /\ \A n \in notifications' : n.seq <= rule'.trigger_sequence /\ n.rule_version <= rule'.rule_version
           /\ \A n \in notifications' : n \in notifications \/ n.day \in days
           /\ notifications \subseteq notifications'
           /\ \A d \in days : \E n \in notifications' : n.day = d /\ n.rule_version = rule.rule_version
           /\ TriggersFollowDates'
<1>1. /\ rule \in Rule /\ inst \in Instance /\ notifications \in SUBSET Notification
      /\ rule.trigger_sequence \in Nat /\ rule.rule_version \in Nat /\ inst.trigger_sequence \in Nat
  BY DEF AlertTypeOK, Rule, Instance
<1>2. \A n \in notifications : n \in Notification /\ n.seq \in Nat /\ n.day \in Nat /\ n.day \in Days /\ n.rule_version \in Nat
  BY <1>1, DaysAreNumbers DEF Notification
<1>3. NextTrigger = rule.trigger_sequence
  BY <1>1 DEF CursorInv, NextTrigger, Later
<1>4. /\ Cardinality(days) \in Nat
      /\ \A d \in days : CountTo(days, d) \in Nat /\ 1 <= CountTo(days, d)
                           /\ CountTo(days, d) <= Cardinality(days)
      /\ \A c, d \in days : c < d => CountTo(days, c) < CountTo(days, d)
  BY DatesCounted
<1> DEFINE N == {Announcement(days, d) : d \in days}
<1>5. notifications' = notifications \union N
  BY <1>3 DEF Enqueue, CountTo, Announcement
<1>6. \A x \in N : \E d \in days :
         /\ x = Announcement(days, d) /\ x.day = d /\ x.rule_version = rule.rule_version
         /\ x.seq = rule.trigger_sequence + CountTo(days, d)
         /\ x \in Notification /\ x.seq \in Nat /\ rule.trigger_sequence < x.seq
         /\ x.seq <= rule.trigger_sequence + Cardinality(days)
  BY <1>1, <1>4 DEF Announcement, Notification
<1>7. \A d \in days : \E x \in N : x.day = d /\ x.rule_version = rule.rule_version
  <2>1. \A d \in days : Announcement(days, d) \in N OBVIOUS
  <2>2. \A d \in days : /\ Announcement(days, d).day = d
                        /\ Announcement(days, d).rule_version = rule.rule_version
    BY DEF Announcement
  <2> HIDE DEF N
  <2> QED BY <2>1, <2>2
<1>8. ASSUME days # {}
      PROVE  /\ rule' \in Rule /\ rule'.rule_version = rule.rule_version
             /\ rule'.trigger_sequence = rule.trigger_sequence + Cardinality(days)
             /\ IssuedBy(days) = rule'.trigger_sequence
  <2>1. rule' = [rule EXCEPT !.trigger_sequence = rule.trigger_sequence + Cardinality(days)]
    BY <1>3, <1>8 DEF Enqueue
  <2>2. IssuedBy(days) = rule.trigger_sequence + Cardinality(days) BY <1>3, <1>8 DEF IssuedBy
  <2> QED BY <1>1, <1>4, <2>1, <2>2 DEF Rule
<1>9. ASSUME days = {}
      PROVE  rule' = rule /\ IssuedBy(days) \in Nat /\ IssuedBy(days) <= rule.trigger_sequence
  BY <1>1, <1>9 DEF Enqueue, IssuedBy, CursorInv
<1> HIDE DEF N
<1>10. /\ rule' \in Rule /\ rule'.rule_version = rule.rule_version
       /\ IssuedBy(days) \in Nat /\ IssuedBy(days) <= rule'.trigger_sequence
       /\ rule'.trigger_sequence \in Nat /\ rule.trigger_sequence <= rule'.trigger_sequence
       /\ \A x \in N : x.seq <= rule'.trigger_sequence
  <2>1. CASE days # {} BY <1>1, <1>4, <1>6, <1>8, <2>1
  <2>2. CASE days = {} BY <1>1, <1>6, <1>9, <2>2
  <2> QED BY <2>1, <2>2
<1>11. notifications' \in SUBSET Notification BY <1>1, <1>5, <1>6
<1>12. \A n \in notifications : n.seq <= rule.trigger_sequence /\ n.rule_version <= rule.rule_version
  BY DEF NumbersInv
<1>13. \A n \in notifications' : n.seq <= rule'.trigger_sequence /\ n.rule_version <= rule'.rule_version
  BY <1>1, <1>2, <1>5, <1>6, <1>10, <1>12
<1>14. \A n \in notifications' : n \in notifications \/ n.day \in days BY <1>5, <1>6
<1>15. \A d \in days : \E n \in notifications' : n.day = d /\ n.rule_version = rule.rule_version
  BY <1>5, <1>7
<1>16. \A m, n \in N : /\ m.seq = n.seq => m = n
                       /\ m.seq < n.seq <=> m.day < n.day
  <2> SUFFICES ASSUME NEW m \in N, NEW n \in N
               PROVE  (m.seq = n.seq => m = n) /\ (m.seq < n.seq <=> m.day < n.day)
    OBVIOUS
  <2>1. PICK c \in days : m = Announcement(days, c) /\ m.day = c /\ m.seq = rule.trigger_sequence + CountTo(days, c)
    BY <1>6
  <2>2. PICK d \in days : n = Announcement(days, d) /\ n.day = d /\ n.seq = rule.trigger_sequence + CountTo(days, d)
    BY <1>6
  <2>3. c \in Nat /\ d \in Nat /\ CountTo(days, c) \in Nat /\ CountTo(days, d) \in Nat
    BY <1>4, DaysAreNumbers
  <2>4. c = d \/ c < d \/ d < c BY <2>3
  <2> QED BY <1>1, <1>4, <2>1, <2>2, <2>3, <2>4
<1>17. ASSUME NEW m \in notifications, NEW n \in N
       PROVE  /\ m.seq < n.seq
              /\ m.rule_version = n.rule_version => m.day < n.day
  BY <1>1, <1>2, <1>6, <1>12
<1>18. \A x \in N : x.day \in Nat /\ x.seq \in Nat BY <1>6, DaysAreNumbers
<1>19. TriggersFollowDates BY DEF NumbersInv
<1>20. TriggersFollowDates'
  <2> SUFFICES ASSUME NEW m \in notifications', NEW n \in notifications'
               PROVE  /\ m.seq = n.seq => m = n
                      /\ m.rule_version = n.rule_version => (m.seq < n.seq <=> m.day < n.day)
    BY DEF TriggersFollowDates
  <2>1. CASE m \in notifications /\ n \in notifications BY <1>19, <2>1 DEF TriggersFollowDates
  <2>2. CASE m \in notifications /\ n \in N BY <1>2, <1>17, <1>18, <2>2
  <2>3. CASE m \in N /\ n \in notifications BY <1>2, <1>17, <1>18, <2>3
  <2>4. CASE m \in N /\ n \in N BY <1>16, <2>4
  <2> QED BY <1>5, <2>1, <2>2, <2>3, <2>4
<1> QED BY <1>5, <1>10, <1>11, <1>13, <1>14, <1>15, <1>20

-----------------------------------------------------------------------------
(* Catching up.                                                             *)

LiveEntry(d) ==
    IF condition_type = "STATE"
      THEN \E e \in Valid : e.day = d /\ e.kind = "ENTER" /\ ~e.restated
      ELSE /\ snapshot[d].side = "high" /\ ~snapshot[d].restated
           /\ d - 1 \in Days /\ snapshot[d - 1].side = "low" /\ ~snapshot[d - 1].restated

(* The status a VALUE rule has before day d, when the day before it is      *)
(* observable or the last one seen.                                         *)
LEMMA StatusAfterLow ==
    ASSUME NEW day \in Nat, NEW d \in Nat, d - 1 \in MissedSnapshots(day)
    PROVE  StatusBefore(day, d) = Activity(snapshot[d - 1].side = "high")
<1> DEFINE before == {x \in MissedSnapshots(day) : x < d}
<1>1. \A x \in before : x \in Nat /\ x < d BY DaysAreNumbers DEF MissedSnapshots
<1>2. d - 1 \in before /\ \A x \in before : x <= d - 1 BY <1>1, DaysAreNumbers DEF MissedSnapshots
<1>3. (CHOOSE x \in before : \A y \in before : y <= x) = d - 1
  <2>1. \A x \in before : (\A y \in before : y <= x) => x = d - 1 BY <1>1, <1>2
  <2> HIDE DEF before
  <2> QED BY <1>2, <2>1
<1> HIDE DEF before
<1>4. before # {} BY <1>2
<1> QED BY <1>3, <1>4 DEF StatusBefore, Activity, before

LEMMA StatusOfSnapshots ==
    ASSUME NEW day, NEW d, inst.status \in {"ACTIVE", "RESET"}
    PROVE  StatusBefore(day, d) \in {"ACTIVE", "RESET"}
BY DEF StatusBefore

(* The days a catch-up announces are new, were first published with the     *)
(* readings stored now, and include every live entry it passes.             *)
LEMMA CatchUpShape ==
    ASSUME AlertTypeOK, TimelineInv, PublishedInv, CursorInv, Current, LastSeen # None,
           NEW day \in Days, LastSeen < day
    PROVE  /\ CatchUpDays(day) \in SUBSET Days
           /\ \A d \in CatchUpDays(day) : /\ LastSeen < d /\ d <= day
                                          /\ announced[d] = snapshot[d].edition
           /\ \A d \in Days : LastSeen < d /\ d <= day /\ LiveEntry(d) => d \in CatchUpDays(day)
           /\ CatchUpStatus(day) \in {"ACTIVE", "RESET"}
           /\ condition_type = "VALUE" /\ snapshot[day].side = "low" => CatchUpStatus(day) = "RESET"
<1>0. /\ inst \in Instance /\ LastSeen \in Nat /\ day \in Nat /\ inst.status \in {"ACTIVE", "RESET"}
      /\ condition_type \in {"STATE", "VALUE"} /\ inst.last_consumed_state_seq \in Nat
      /\ snapshot \in [Days -> Snapshot]
  <2>1. inst \in Instance BY DEF AlertTypeOK
  <2>2. inst.status # "none" BY DEF Current, HasInstance
  <2> QED BY <2>1, <2>2, DaysAreNumbers, TimelineAssumption DEF Instance, LastSeen, AlertTypeOK
<1>1. \A e \in Valid : e \in Event /\ e \in events /\ e.day \in Days /\ e.seq \in Nat
  BY DEF TimelineInv, TypeOK, Valid, Event
<1>2. ASSUME condition_type = "STATE"
      PROVE  /\ CatchUpDays(day) \in SUBSET Days
             /\ \A d \in CatchUpDays(day) : /\ LastSeen < d /\ d <= day
                                            /\ announced[d] = snapshot[d].edition
             /\ \A d \in Days : LastSeen < d /\ d <= day /\ LiveEntry(d) => d \in CatchUpDays(day)
             /\ CatchUpStatus(day) \in {"ACTIVE", "RESET"}
  <2>1. CatchUpDays(day) = {e.day : e \in {e \in MissedEvents(day) : FreshEntry(e)}}
    BY <1>2 DEF CatchUpDays
  <2>2. \A e \in MissedEvents(day) : e \in Valid /\ LastSeen < e.day /\ e.day <= day
    BY DEF MissedEvents
  <2>3. \A e \in Valid : ~e.restated => announced[e.day] = snapshot[e.day].edition
    BY DEF PublishedInv
  <2>4. \A d \in CatchUpDays(day) : \E e \in MissedEvents(day) : d = e.day /\ ~e.restated
    BY <2>1 DEF FreshEntry
  <2>5. ASSUME NEW d \in Days, LastSeen < d, d <= day, LiveEntry(d) PROVE d \in CatchUpDays(day)
    <3>1. PICK e \in Valid : e.day = d /\ e.kind = "ENTER" /\ ~e.restated
      BY <1>2, <2>5 DEF LiveEntry
    <3>2. e.status = "ACTIVE" BY <1>1, <3>1 DEF TimelineInv
    <3>3. ~(e.seq <= inst.last_consumed_state_seq)
      <4>1. e.seq <= inst.last_consumed_state_seq => e.day <= LastSeen
        BY <1>1, <1>2 DEF CursorInv
      <4> QED BY <1>0, <1>1, <2>5, <3>1, <4>1, DaysAreNumbers
    <3>4. inst.last_consumed_state_seq < e.seq BY <1>0, <1>1, <3>3
    <3>5. e \in MissedEvents(day) BY <2>5, <3>1, <3>2, <3>4 DEF MissedEvents
    <3> QED BY <2>1, <3>1, <3>5 DEF FreshEntry
  <2>6. CatchUpStatus(day) \in {"ACTIVE", "RESET"}
    BY <1>0, <1>2 DEF CatchUpStatus, StatusFromEvents
  <2> QED BY <1>1, <2>2, <2>3, <2>4, <2>5, <2>6
<1>3. ASSUME condition_type = "VALUE"
      PROVE  /\ CatchUpDays(day) \in SUBSET Days
             /\ \A d \in CatchUpDays(day) : /\ LastSeen < d /\ d <= day
                                            /\ announced[d] = snapshot[d].edition
             /\ \A d \in Days : LastSeen < d /\ d <= day /\ LiveEntry(d) => d \in CatchUpDays(day)
             /\ CatchUpStatus(day) \in {"ACTIVE", "RESET"}
             /\ snapshot[day].side = "low" => CatchUpStatus(day) = "RESET"
  <2>1. CatchUpDays(day) = {d \in MissedSnapshots(day) : Fires(day, d) /\ SilentWhenRestated(d)}
    BY <1>3 DEF CatchUpDays
  <2>2. \A d \in MissedSnapshots(day) : d \in Days /\ LastSeen < d /\ d <= day /\ snapshot[d].side # "none"
    BY DEF MissedSnapshots
  <2>3. \A d \in Days : snapshot[d].side # "none" /\ ~snapshot[d].restated => announced[d] = snapshot[d].edition
    BY DEF PublishedInv
  <2>4. ASSUME NEW d \in Days, LastSeen < d, d <= day, LiveEntry(d) PROVE d \in CatchUpDays(day)
    <3>1. /\ snapshot[d].side = "high" /\ ~snapshot[d].restated
          /\ d - 1 \in Days /\ snapshot[d - 1].side = "low" /\ ~snapshot[d - 1].restated
      BY <1>3, <2>4 DEF LiveEntry
    <3>2. d \in MissedSnapshots(day) BY <2>4, <3>1 DEF MissedSnapshots
    <3>3. d \in Nat /\ d - 1 \in Nat /\ d - 1 < d /\ d - 1 <= day BY <1>0, <2>4, <3>1, DaysAreNumbers
    <3>4. CASE LastSeen < d - 1
      <4>1. d - 1 \in MissedSnapshots(day) BY <3>1, <3>3, <3>4 DEF MissedSnapshots
      <4>2. StatusBefore(day, d) = Activity(snapshot[d - 1].side = "high")
        BY <1>0, <3>3, <4>1, StatusAfterLow
      <4>3. StatusBefore(day, d) = "RESET" BY <3>1, <4>2 DEF Activity
      <4> QED BY <2>1, <3>1, <3>2, <4>3 DEF Fires, SilentWhenRestated
    <3>5. CASE ~(LastSeen < d - 1)
      <4>1. LastSeen = d - 1 BY <1>0, <2>4, <3>3, <3>5
      <4>2. inst.status # "ACTIVE" BY <1>3, <3>1, <4>1 DEF CursorInv
      <4>3. \A x \in MissedSnapshots(day) : ~(x < d)
        <5> SUFFICES ASSUME NEW x \in MissedSnapshots(day) PROVE ~(x < d) OBVIOUS
        <5>1. x \in Nat /\ LastSeen < x BY <2>2, DaysAreNumbers
        <5>2. d - 1 < x BY <4>1, <5>1
        <5> QED BY <3>3, <5>1, <5>2
      <4>4. {x \in MissedSnapshots(day) : x < d} = {} BY <4>3
      <4>5. StatusBefore(day, d) = inst.status BY <4>4 DEF StatusBefore
      <4> QED BY <2>1, <3>1, <3>2, <4>2, <4>5 DEF Fires, SilentWhenRestated
    <3> QED BY <3>4, <3>5
  <2>5. CatchUpStatus(day) = StatusBefore(day, day + 1) BY <1>3 DEF CatchUpStatus
  <2>6. CatchUpStatus(day) \in {"ACTIVE", "RESET"} BY <1>0, <2>5, StatusOfSnapshots
  <2>7. ASSUME snapshot[day].side = "low" PROVE CatchUpStatus(day) = "RESET"
    <3>1. day + 1 \in Nat /\ (day + 1) - 1 = day BY <1>0
    <3>2. day \in MissedSnapshots(day) BY <1>0, <2>7 DEF MissedSnapshots
    <3>3. StatusBefore(day, day + 1) = Activity(snapshot[(day + 1) - 1].side = "high")
      BY <1>0, <3>1, <3>2, StatusAfterLow
    <3> QED BY <2>5, <2>7, <3>1, <3>3 DEF Activity
  <2> QED BY <2>1, <2>2, <2>3, <2>4, <2>6, <2>7 DEF SilentWhenRestated
<1> QED BY <1>0, <1>2, <1>3

-----------------------------------------------------------------------------
(* Evaluations.                                                             *)

(* Everything but the rule and its instance is left alone.                  *)
OnlyTheRule ==
    UNCHANGED <<vars, condition_type, snapshot, announced>> /\ demand_pending' \in BOOLEAN

LEMMA PublicationUntouched ==
    ASSUME TimelineInv, PublishedInv, OnlyTheRule
    PROVE  /\ TimelineInv' /\ PublishedInv' /\ Valid' = Valid
           /\ \A d : LiveEntry(d)' = LiveEntry(d)
           /\ UNCHANGED <<state_through, event_sequence, events, condition_type, snapshot, announced>>
<1>1. UNCHANGED vars BY DEF OnlyTheRule
<1>2. TimelineInv' BY <1>1, TimelineStutters
<1>3. UNCHANGED <<state_through, event_sequence, events, condition_type, snapshot, announced>>
  BY DEF OnlyTheRule, vars
<1>4. Valid' = Valid BY <1>3 DEF Valid
<1>5. PublishedInv' BY <1>3, <1>4 DEF PublishedInv
<1>6. \A d : LiveEntry(d)' = LiveEntry(d) BY <1>3, <1>4 DEF LiveEntry
<1> QED BY <1>2, <1>3, <1>4, <1>5, <1>6

(* The instance, once it is settled on a published day with the live        *)
(* entries up to that day announced.                                        *)
LEMMA SettleKeeps ==
    ASSUME AlertInv, OnlyTheRule, NEW days \in SUBSET Days, Enqueue(days),
           NEW status \in {"ACTIVE", "RESET"}, NEW day \in Days, day <= state_through,
           NEW consumed \in Nat, consumed <= event_sequence, NEW baseline \in 0..MaxDay,
           Settle(status, day, consumed, days, baseline),
           condition_type = "STATE" => day = state_through,
           condition_type = "VALUE" /\ snapshot[day].side = "low" => status = "RESET",
           \A d \in days : d <= day,
           \A n \in notifications : n.rule_version = rule.rule_version =>
               n.day <= day /\ \A d \in days : n.day < d,
           \A d \in Days : baseline < d /\ d <= day /\ LiveEntry(d) =>
               \/ d \in days
               \/ \E n \in notifications : n.day = d /\ n.rule_version = rule.rule_version
    PROVE  AlertInv'
<1>0. AlertTypeOK /\ TimelineInv /\ PublishedInv /\ CursorInv /\ NumbersInv BY DEF AlertInv
<1>1. /\ TimelineInv' /\ PublishedInv' /\ Valid' = Valid
      /\ \A d : LiveEntry(d)' = LiveEntry(d)
      /\ UNCHANGED <<state_through, event_sequence, events, condition_type, snapshot, announced>>
  BY <1>0, PublicationUntouched
<1>2. /\ notifications' \in SUBSET Notification /\ rule' \in Rule
      /\ rule'.rule_version = rule.rule_version
      /\ IssuedBy(days) \in Nat /\ IssuedBy(days) <= rule'.trigger_sequence
      /\ \A n \in notifications' : n.seq <= rule'.trigger_sequence /\ n.rule_version <= rule'.rule_version
      /\ \A n \in notifications' : n \in notifications \/ n.day \in days
      /\ notifications \subseteq notifications'
      /\ \A d \in days : \E n \in notifications' : n.day = d /\ n.rule_version = rule.rule_version
      /\ TriggersFollowDates'
  BY <1>0, EnqueueKeeps
<1>3. day \in Nat /\ day # None /\ day \in 0..MaxDay /\ rule.rule_version \in Nat
  BY <1>0, DaysAreNumbers, TimelineAssumption DEF None, AlertTypeOK, Rule
<1>4. /\ inst' \in Instance /\ inst'.status = status /\ inst'.rule_version = rule.rule_version
      /\ inst'.trigger_sequence = IssuedBy(days) /\ inst'.last_evaluated_trade_date = day
      /\ inst'.last_consumed_state_seq = consumed /\ inst'.baseline = baseline
  BY <1>2, <1>3 DEF Settle, Instance
<1>5. Current' /\ HasInstance' /\ LastSeen' = day BY <1>2, <1>4 DEF Current, HasInstance, LastSeen
<1>6. AlertTypeOK'
  <2>1. UNCHANGED <<condition_type, snapshot, announced>> /\ demand_pending' \in BOOLEAN
    BY DEF OnlyTheRule
  <2>2. TypeOK' BY <1>1 DEF TimelineInv
  <2> QED BY <1>0, <1>2, <1>4, <2>1, <2>2 DEF AlertTypeOK
<1>7. CursorInv'
  <2>1. \A e \in events : e.day <= state_through BY <1>0 DEF TimelineInv
  <2>2. condition_type' = "STATE" => \A e \in events' : e.day <= LastSeen' BY <1>1, <1>5, <2>1
  <2>3. condition_type' = "VALUE" /\ snapshot'[LastSeen'].side = "low" => inst'.status # "ACTIVE"
    BY <1>1, <1>4, <1>5
  <2> QED BY <1>1, <1>2, <1>3, <1>4, <1>5, <2>2, <2>3 DEF CursorInv
<1>8. NumbersInv'
  <2>1. \A n \in notifications' : n.rule_version = rule'.rule_version => n.day <= LastSeen'
    BY <1>2, <1>5
  <2> QED BY <1>2, <1>5, <2>1 DEF NumbersInv
<1>9. EveryLiveEntryAnnounced'
  <2>1. ASSUME NEW d \in Days, baseline < d, d <= day, LiveEntry(d)'
        PROVE  \E n \in notifications' : n.day = d /\ n.rule_version = rule'.rule_version
    <3>1. LiveEntry(d) BY <1>1, <2>1
    <3> QED BY <1>2, <2>1, <3>1
  <2> QED BY <1>4, <1>5, <2>1 DEF EveryLiveEntryAnnounced, LiveEntry
<1> QED BY <1>1, <1>6, <1>7, <1>8, <1>9 DEF AlertInv

(* An observed day is published; a STATE rule observes the watermark's.     *)
LEMMA ObservedDay ==
    ASSUME AlertTypeOK, TimelineInv, PublishedInv, NEW o \in Resolve
    PROVE  /\ o.day \in Days /\ o.day <= state_through /\ o.active \in BOOLEAN
           /\ condition_type = "STATE" => o.day = state_through
           /\ condition_type = "VALUE" /\ snapshot[o.day].side = "low" => ~o.active
<1>0. condition_type \in {"STATE", "VALUE"} /\ publication_is_current
  BY DEF AlertTypeOK, Resolve
<1>1. CASE condition_type = "STATE"
  <2>1. o \in ResolveState BY <1>0, <1>1 DEF Resolve
  <2>2. /\ current.day # None
        /\ o = [day |-> current.day,
                active |-> current.status = "ACTIVE" /\ (edge_mode => current.transition)]
    BY <2>1 DEF ResolveState
  <2>3. current.day = state_through BY <2>2 DEF TimelineInv
  <2>4. state_through \in 0..MaxDay BY DEF TimelineInv, TypeOK
  <2>5. state_through \in Days /\ state_through <= state_through
    BY <2>2, <2>3, <2>4, TimelineAssumption DEF Days, None
  <2> QED BY <1>1, <2>2, <2>3, <2>5
<1>2. CASE condition_type = "VALUE"
  <2>1. o \in ResolveValue BY <1>0, <1>2 DEF Resolve
  <2>2. PICK d \in LatestSnapshot : o = [day |-> d, active |-> snapshot[d].side = "high"]
    BY <2>1 DEF ResolveValue
  <2>3. d \in Days /\ snapshot[d].side # "none" BY DEF LatestSnapshot, IsGreatest
  <2>4. d <= state_through BY <2>3 DEF PublishedInv
  <2> QED BY <1>2, <2>2, <2>3, <2>4
<1> QED BY <1>0, <1>1, <1>2

LEMMA ConsumedBounds ==
    ASSUME AlertTypeOK, CursorInv
    PROVE  ConsumedNow \in Nat /\ ConsumedNow <= event_sequence
<1>1. event_sequence \in Nat /\ inst.last_consumed_state_seq \in Nat
  BY DEF AlertTypeOK, TypeOK, Instance
<1> QED BY <1>1 DEF CursorInv, ConsumedNow

LEMMA FirstKeeps ==
    ASSUME AlertInv, OnlyTheRule, NEW o \in Resolve, EvaluateFirst(o)
    PROVE  AlertInv'
<1>0. AlertTypeOK /\ TimelineInv /\ PublishedInv /\ CursorInv /\ NumbersInv BY DEF AlertInv
<1>1. /\ o.day \in Days /\ o.day <= state_through /\ o.active \in BOOLEAN
      /\ condition_type = "STATE" => o.day = state_through
      /\ condition_type = "VALUE" /\ snapshot[o.day].side = "low" => ~o.active
  BY <1>0, ObservedDay
<1> DEFINE days == IF o.active THEN {o.day} ELSE {}
<1>2. Enqueue(days) /\ Settle(Activity(o.active), o.day, ConsumedNow, days, o.day)
  BY DEF EvaluateFirst
<1>3. days \in SUBSET Days /\ \A d \in days : d <= o.day
  <2>1. o.day \in Nat BY <1>1, DaysAreNumbers
  <2>2. o.day <= o.day BY <2>1
  <2> QED BY <1>1, <2>2
<1>4. \A n \in notifications : n.rule_version # rule.rule_version
  <2> SUFFICES ASSUME NEW n \in notifications, n.rule_version = rule.rule_version PROVE FALSE
    OBVIOUS
  <2>1. Current /\ n.day <= LastSeen BY <1>0 DEF NumbersInv
  <2>2. LastSeen = 0 BY <2>1 DEF EvaluateFirst, None
  <2>3. n.day \in Days BY <1>0 DEF AlertTypeOK, Notification
  <2>4. n.day \in Nat /\ 1 <= n.day BY <2>3, DaysAreNumbers
  <2> QED BY <2>1, <2>2, <2>4
<1>5. o.day \in 0..MaxDay /\ \A d \in Days : ~(o.day < d /\ d <= o.day)
  <2>1. o.day \in Nat /\ o.day <= MaxDay /\ MaxDay \in Nat BY <1>1, DaysAreNumbers, TimelineAssumption
  <2>2. \A d \in Days : d \in Nat BY DaysAreNumbers
  <2> QED BY <2>1, <2>2
<1>6. ConsumedNow \in Nat /\ ConsumedNow <= event_sequence BY <1>0, ConsumedBounds
<1>7. /\ Activity(o.active) \in {"ACTIVE", "RESET"}
      /\ condition_type = "VALUE" /\ snapshot[o.day].side = "low" => Activity(o.active) = "RESET"
  BY <1>1 DEF Activity
<1> HIDE DEF days
<1> QED BY <1>1, <1>2, <1>3, <1>4, <1>5, <1>6, <1>7, SettleKeeps

LEMMA CatchUpKeeps ==
    ASSUME AlertInv, OnlyTheRule, Current, LastSeen # None,
           NEW day \in Days, LastSeen < day, day <= state_through,
           NEW status \in {"ACTIVE", "RESET"}, CatchUp(day, status, ConsumedNow),
           condition_type = "STATE" => day = state_through,
           condition_type = "VALUE" => status = CatchUpStatus(day)
    PROVE  AlertInv'
<1>0. AlertTypeOK /\ TimelineInv /\ PublishedInv /\ CursorInv /\ NumbersInv /\ EveryLiveEntryAnnounced
  BY DEF AlertInv
<1> DEFINE days == CatchUpDays(day)
<1>1. /\ days \in SUBSET Days
      /\ \A d \in days : LastSeen < d /\ d <= day
      /\ \A d \in Days : LastSeen < d /\ d <= day /\ LiveEntry(d) => d \in days
      /\ condition_type = "VALUE" /\ snapshot[day].side = "low" => CatchUpStatus(day) = "RESET"
  BY <1>0, CatchUpShape
<1>2. Enqueue(days) /\ Settle(status, day, ConsumedNow, days, inst.baseline) BY DEF CatchUp
<1>3. ConsumedNow \in Nat /\ ConsumedNow <= event_sequence BY <1>0, ConsumedBounds
<1> HIDE DEF days
<1>4. LastSeen \in Nat /\ inst.baseline \in 0..MaxDay
  BY <1>0, TimelineAssumption DEF AlertTypeOK, Instance, LastSeen
<1>5. ASSUME NEW n \in notifications, n.rule_version = rule.rule_version
      PROVE  n.day <= day /\ \A d \in days : n.day < d
  <2>1. n.day <= LastSeen BY <1>0, <1>5 DEF NumbersInv
  <2>2. n.day \in Nat BY <1>0, DaysAreNumbers DEF AlertTypeOK, Notification
  <2>3. day \in Nat /\ \A d \in days : d \in Nat BY <1>1, DaysAreNumbers
  <2> QED BY <1>1, <1>4, <2>1, <2>2, <2>3
<1>6. ASSUME NEW d \in Days, inst.baseline < d, d <= day, LiveEntry(d)
      PROVE  \/ d \in days
             \/ \E n \in notifications : n.day = d /\ n.rule_version = rule.rule_version
  <2>1. CASE LastSeen < d BY <1>1, <1>6, <2>1
  <2>2. CASE ~(LastSeen < d)
    <3>1. d <= LastSeen BY <1>4, <2>2, DaysAreNumbers
    <3> QED BY <1>0, <1>6, <3>1 DEF EveryLiveEntryAnnounced, LiveEntry
  <2> QED BY <2>1, <2>2
<1> QED BY <1>1, <1>2, <1>3, <1>4, <1>5, <1>6, SettleKeeps

LEMMA AgainKeeps ==
    ASSUME AlertInv, OnlyTheRule, NEW o \in Resolve, EvaluateAgain(o)
    PROVE  AlertInv'
<1>0. /\ AlertTypeOK /\ TimelineInv /\ PublishedInv /\ CursorInv /\ NumbersInv
      /\ EveryLiveEntryAnnounced
  BY DEF AlertInv
<1>1. /\ TimelineInv' /\ PublishedInv' /\ Valid' = Valid
      /\ \A d : LiveEntry(d)' = LiveEntry(d)
      /\ UNCHANGED <<state_through, event_sequence, events, condition_type, snapshot, announced>>
  BY <1>0, PublicationUntouched
<1>2. /\ o.active \in BOOLEAN
      /\ condition_type = "VALUE" /\ snapshot[o.day].side = "low" => ~o.active
  BY <1>0, ObservedDay
<1>3. Current /\ LastSeen # None /\ UNCHANGED <<rule, notifications>> BY DEF EvaluateAgain
<1>4. inst \in Instance BY <1>0 DEF AlertTypeOK
<1>5. /\ inst' \in Instance /\ inst'.status \in {"ACTIVE", "RESET"}
      /\ inst'.rule_version = inst.rule_version /\ inst'.trigger_sequence = inst.trigger_sequence
      /\ inst'.last_evaluated_trade_date = LastSeen
      /\ inst'.last_consumed_state_seq = inst.last_consumed_state_seq
      /\ inst'.baseline = inst.baseline
      /\ inst'.status = inst.status \/ (o.day = LastSeen /\ inst'.status = Activity(o.active))
  <2>1. CASE o.day = LastSeen
    <3>1. inst' = [inst EXCEPT !.status = Activity(o.active)] BY <2>1 DEF EvaluateAgain
    <3>2. Activity(o.active) \in {"ACTIVE", "RESET"} BY DEF Activity
    <3> QED BY <1>4, <2>1, <3>1, <3>2 DEF Instance, LastSeen
  <2>2. CASE o.day # LastSeen
    <3>1. inst' = inst BY <2>2 DEF EvaluateAgain
    <3> QED BY <1>3, <1>4, <3>1 DEF Instance, LastSeen, Current, HasInstance
  <2> QED BY <2>1, <2>2
<1>6. Current' /\ HasInstance' /\ LastSeen' = LastSeen BY <1>3, <1>5 DEF Current, HasInstance, LastSeen
<1>7. AlertTypeOK'
  <2>1. UNCHANGED <<condition_type, snapshot, announced>> /\ demand_pending' \in BOOLEAN
    BY DEF OnlyTheRule
  <2>2. TypeOK' BY <1>1 DEF TimelineInv
  <2> QED BY <1>0, <1>3, <1>5, <2>1, <2>2 DEF AlertTypeOK
<1>8. CursorInv'
  <2>1. ASSUME condition_type = "VALUE", snapshot[LastSeen].side = "low", ~snapshot[LastSeen].restated
        PROVE  inst'.status # "ACTIVE"
    BY <1>0, <1>2, <1>3, <1>5, <2>1 DEF CursorInv, Activity
  <2>2. HasInstance BY <1>3 DEF Current
  <2> QED BY <1>0, <1>1, <1>3, <1>5, <1>6, <2>1, <2>2 DEF CursorInv, LastSeen
<1>9. NumbersInv' BY <1>0, <1>3, <1>6 DEF NumbersInv, TriggersFollowDates
<1>10. EveryLiveEntryAnnounced'
  <2>1. ASSUME NEW d \in Days, inst.baseline < d, d <= LastSeen, LiveEntry(d)'
        PROVE  \E n \in notifications : n.day = d /\ n.rule_version = rule.rule_version
    <3>1. LiveEntry(d) BY <1>1, <2>1
    <3> QED BY <1>0, <1>3, <2>1, <3>1 DEF EveryLiveEntryAnnounced, LiveEntry
  <2> QED BY <1>3, <1>5, <1>6, <2>1 DEF EveryLiveEntryAnnounced, LiveEntry
<1> QED BY <1>1, <1>7, <1>8, <1>9, <1>10 DEF AlertInv

LEMMA NewKeeps ==
    ASSUME AlertInv, OnlyTheRule, NEW o \in Resolve, EvaluateNew(o)
    PROVE  AlertInv'
<1>0. AlertTypeOK /\ TimelineInv /\ PublishedInv /\ CursorInv BY DEF AlertInv
<1>1. /\ o.day \in Days /\ o.day <= state_through /\ o.active \in BOOLEAN
      /\ condition_type = "STATE" => o.day = state_through
  BY <1>0, ObservedDay
<1> DEFINE status == IF condition_type = "STATE" THEN Activity(o.active) ELSE CatchUpStatus(o.day)
<1>2. Current /\ LastSeen # None /\ LastSeen < o.day /\ CatchUp(o.day, status, ConsumedNow)
  BY DEF EvaluateNew
<1>3. CatchUpStatus(o.day) \in {"ACTIVE", "RESET"} BY <1>0, <1>1, <1>2, CatchUpShape
<1>4. status \in {"ACTIVE", "RESET"} BY <1>3 DEF Activity
<1>5. condition_type = "VALUE" => status = CatchUpStatus(o.day) OBVIOUS
<1> HIDE DEF status
<1> QED BY <1>1, <1>2, <1>4, <1>5, CatchUpKeeps

LEMMA UnavailableKeeps ==
    ASSUME AlertInv, OnlyTheRule, NEW day \in Days, Unavailable(day)
    PROVE  AlertInv'
<1>0. /\ AlertTypeOK /\ TimelineInv /\ PublishedInv /\ CursorInv /\ NumbersInv
      /\ EveryLiveEntryAnnounced
  BY DEF AlertInv
<1>1. state_through = day /\ day \in Nat /\ day <= day /\ day # None /\ day \in 0..MaxDay
  BY DaysAreNumbers, TimelineAssumption DEF Unavailable, None
<1>2. /\ inst \in Instance /\ event_sequence \in Nat /\ LastSeen \in Nat /\ LastSeen <= day
      /\ rule \in Rule /\ \A n \in notifications : n \in Notification /\ n.day \in Nat /\ 1 <= n.day
  <2>1. inst \in Instance /\ event_sequence \in Nat /\ rule \in Rule /\ notifications \in SUBSET Notification
    BY <1>0 DEF AlertTypeOK, TypeOK
  <2>2. LastSeen \in Nat BY <2>1, TimelineAssumption DEF Instance, LastSeen
  <2>3. LastSeen <= day BY <1>0, <1>1 DEF CursorInv, LastSeen
  <2>4. \A n \in Notification : n.day \in Nat /\ 1 <= n.day BY DaysAreNumbers DEF Notification
  <2> QED BY <2>1, <2>2, <2>3, <2>4
<1>3. CASE Current /\ LastSeen # None /\ LastSeen < day
  <2>1. CatchUp(day, CatchUpStatus(day), ConsumedNow) BY <1>3 DEF Unavailable
  <2>2. CatchUpStatus(day) \in {"ACTIVE", "RESET"} BY <1>0, <1>3, CatchUpShape
  <2> QED BY <1>1, <1>3, <2>1, <2>2, CatchUpKeeps
<1>4. CASE ~Current
  <2>1. Settle("RESET", day, event_sequence, {}, day) /\ UNCHANGED <<rule, notifications>>
    BY <1>4 DEF Unavailable
  <2>2. Enqueue({}) BY <2>1 DEF Enqueue
  <2>3. \A n \in notifications : n.rule_version # rule.rule_version BY <1>0, <1>4 DEF NumbersInv
  <2>4. \A d \in Days : ~(day < d /\ d <= day) BY <1>1, DaysAreNumbers
  <2>5. event_sequence <= event_sequence /\ {} \in SUBSET Days BY <1>2
  <2> QED BY <1>1, <1>2, <2>1, <2>2, <2>3, <2>4, <2>5, SettleKeeps
<1>5. CASE Current /\ (LastSeen = None \/ LastSeen = day)
  <2>0. /\ inst' = [inst EXCEPT !.last_evaluated_trade_date = day,
                                !.last_consumed_state_seq = event_sequence,
                                !.baseline = IF LastSeen = None THEN day ELSE @]
        /\ UNCHANGED <<rule, notifications>>
    BY <1>1, <1>5 DEF Unavailable
  <2>1. /\ TimelineInv' /\ PublishedInv' /\ Valid' = Valid
        /\ \A d : LiveEntry(d)' = LiveEntry(d)
        /\ UNCHANGED <<state_through, event_sequence, events, condition_type, snapshot, announced>>
    BY <1>0, PublicationUntouched
  <2>2. /\ inst' \in Instance /\ inst'.status = inst.status
        /\ inst'.rule_version = inst.rule_version /\ inst'.trigger_sequence = inst.trigger_sequence
        /\ inst'.last_evaluated_trade_date = day
        /\ inst'.last_consumed_state_seq = event_sequence
        /\ inst'.baseline = IF LastSeen = None THEN day ELSE inst.baseline
    BY <1>1, <1>2, <2>0 DEF Instance
  <2>3. HasInstance /\ HasInstance' /\ Current' /\ LastSeen' = day
    BY <1>5, <2>0, <2>2 DEF Current, HasInstance, LastSeen
  <2>4. AlertTypeOK'
    <3>1. UNCHANGED <<condition_type, snapshot, announced>> /\ demand_pending' \in BOOLEAN
    BY DEF OnlyTheRule
    <3>2. TypeOK' BY <2>1 DEF TimelineInv
    <3> QED BY <1>0, <2>0, <2>2, <3>1, <3>2 DEF AlertTypeOK
  <2>5. CursorInv'
    <3>1. \A e \in events : e.day <= state_through BY <1>0 DEF TimelineInv
    <3>2. ASSUME condition_type = "VALUE", snapshot[day].side = "low", ~snapshot[day].restated
          PROVE  inst.status # "ACTIVE"
      <4>1. CASE LastSeen = None BY <1>0, <2>3, <4>1 DEF CursorInv
      <4>2. CASE LastSeen = day BY <1>0, <1>1, <3>2, <4>2 DEF CursorInv
      <4> QED BY <1>5, <4>1, <4>2
    <3>3. inst.trigger_sequence <= rule.trigger_sequence BY <1>0, <2>3 DEF CursorInv
    <3>4. event_sequence <= event_sequence BY <1>2
    <3> QED BY <1>1, <2>0, <2>1, <2>2, <2>3, <3>1, <3>2, <3>3, <3>4 DEF CursorInv
  <2>6. NumbersInv'
    <3>1. \A n \in notifications : n.rule_version = rule.rule_version => n.day <= LastSeen
      BY <1>0 DEF NumbersInv
    <3>2. \A n \in notifications : n.rule_version = rule.rule_version => n.day <= day
      BY <1>1, <1>2, <3>1
    <3> QED BY <1>0, <2>0, <2>3, <3>2 DEF NumbersInv, TriggersFollowDates
  <2>7. EveryLiveEntryAnnounced'
    <3>1. ASSUME NEW d \in Days, inst'.baseline < d, d <= day, LiveEntry(d)'
          PROVE  \E n \in notifications : n.day = d /\ n.rule_version = rule.rule_version
      <4>0. LiveEntry(d) BY <2>1, <3>1
      <4>1. CASE LastSeen = None
        <5>1. day < d /\ d \in Nat BY <2>2, <3>1, <4>1, DaysAreNumbers
        <5> QED BY <1>1, <3>1, <5>1
      <4>2. CASE LastSeen = day
        <5>1. inst.baseline < d /\ LastSeen # None BY <1>1, <2>2, <3>1, <4>2
        <5> QED BY <1>0, <1>5, <3>1, <4>0, <4>2, <5>1 DEF EveryLiveEntryAnnounced, LiveEntry
      <4> QED BY <1>5, <4>1, <4>2
    <3> QED BY <2>0, <2>3, <3>1 DEF EveryLiveEntryAnnounced, LiveEntry
  <2> QED BY <2>1, <2>4, <2>5, <2>6, <2>7 DEF AlertInv
<1>6. LastSeen < day \/ LastSeen = day BY <1>1, <1>2
<1> QED BY <1>3, <1>4, <1>5, <1>6

LEMMA EvaluateKeeps ==
    ASSUME AlertInv, NEW day \in Days, Evaluate(day)
    PROVE  AlertInv'
<1>1. OnlyTheRule BY DEF Evaluate, OnlyTheRule, AlertInv, AlertTypeOK
<1> QED BY <1>1, FirstKeeps, AgainKeeps, NewKeeps, UnavailableKeeps DEF Evaluate

-----------------------------------------------------------------------------
(* The publications under the rule.                                         *)

(* What a rewritten range leaves of a day that was published before is      *)
(* marked as restated.                                                      *)
LEMMA SnapshotsWritten ==
    ASSUME AlertTypeOK, TimelineInv, NEW start \in 0..MaxDay, Rewritten(start),
           WriteSnapshots(start, state_through')
    PROVE  /\ snapshot' \in [Days -> Snapshot]
           /\ \A d \in Days : \/ snapshot'[d] = snapshot[d] /\ ~(start <= d /\ d <= state_through')
                              \/ /\ start <= d /\ d <= state_through'
                                 /\ d \notin Traded /\ snapshot'[d] = NoSnapshot
                              \/ /\ start <= d /\ d <= state_through' /\ d \in Traded
                                 /\ snapshot'[d].edition = reading[d].edition
                                 /\ snapshot'[d].restated \/ state_through < d
<1>0. /\ state_through' \in Days /\ state_through' \in Nat /\ state_through \in 0..MaxDay /\ state_through \in Nat
      /\ reading \in [Days -> Reading] /\ snapshot \in [Days -> Snapshot]
  BY DaysAreNumbers, TimelineAssumption DEF Rewritten, TimelineInv, TypeOK, AlertTypeOK
<1> DEFINE fresh(d) == [side |-> reading[d].side, edition |-> reading[d].edition,
                        restated |-> d <= RestatedThrough(state_through')]
<1>1. snapshot' = [d \in Days |->
                     IF start <= d /\ d <= state_through'
                       THEN IF d \in Traded THEN fresh(d) ELSE NoSnapshot
                       ELSE snapshot[d]]
  BY DEF WriteSnapshots
<1>2. ASSUME NEW d \in Days
      PROVE  /\ fresh(d) \in Snapshot /\ NoSnapshot \in Snapshot
             /\ fresh(d).edition = reading[d].edition
             /\ d <= state_through' => fresh(d).restated \/ state_through < d
  <2>1. d \in Nat BY DaysAreNumbers
  <2>2. (d <= RestatedThrough(state_through')) \in BOOLEAN BY <1>0, <2>1 DEF RestatedThrough
  <2>3. d <= state_through' => d <= RestatedThrough(state_through') \/ state_through < d
    BY <1>0, <2>1 DEF RestatedThrough
  <2>4. fresh(d) \in Snapshot BY <1>0, <2>2 DEF Snapshot, Reading
  <2>5. NoSnapshot \in Snapshot BY DEF NoSnapshot, Snapshot, Sides
  <2> QED BY <2>3, <2>4, <2>5
<1> HIDE DEF fresh
<1>3. snapshot' \in [Days -> Snapshot] BY <1>0, <1>1, <1>2
<1> QED BY <1>1, <1>2, <1>3

LEMMA PublicationKeeps ==
    ASSUME AlertInv, NEW end \in Days, NEW force \in BOOLEAN, Publication(end, force)
    PROVE  AlertInv'
<1>0. /\ AlertTypeOK /\ TimelineInv /\ PublishedInv /\ CursorInv /\ NumbersInv
      /\ EveryLiveEntryAnnounced
  BY DEF AlertInv
<1> DEFINE start == StartDay(force)
<1>1. TimelineInv' /\ Rewritten(start) BY <1>0, MaterializeKeeps DEF Publication
<1>2. /\ WriteSnapshots(start, state_through') /\ Announce(state_through') /\ demand_pending' = FALSE
      /\ UNCHANGED <<condition_type, rule, inst, notifications>>
  BY DEF Publication
<1>3. start \in 0..MaxDay
  BY <1>0, TimelineAssumption DEF StartDay, TimelineInv, TypeOK, None
<1> HIDE DEF start
<1>4. /\ state_through' \in Days /\ state_through' \in Nat /\ state_through \in Nat
      /\ state_through <= state_through' /\ event_sequence <= event_sequence'
      /\ event_sequence \in Nat /\ event_sequence' \in Nat /\ start \in Nat
      /\ UNCHANGED <<edge_mode, edition, reading>>
  <2>1. /\ state_through \in 0..MaxDay /\ event_sequence \in Nat /\ event_sequence' \in Nat
    BY <1>0, <1>1 DEF TimelineInv, TypeOK
  <2> QED BY <1>1, <1>3, <2>1, DaysAreNumbers, TimelineAssumption DEF Rewritten
<1>5. /\ snapshot' \in [Days -> Snapshot]
      /\ \A d \in Days : \/ snapshot'[d] = snapshot[d] /\ ~(start <= d /\ d <= state_through')
                         \/ /\ start <= d /\ d <= state_through'
                            /\ d \notin Traded /\ snapshot'[d] = NoSnapshot
                         \/ /\ start <= d /\ d <= state_through' /\ d \in Traded
                            /\ snapshot'[d].edition = reading[d].edition
                            /\ snapshot'[d].restated \/ state_through < d
  BY <1>0, <1>1, <1>2, <1>3, SnapshotsWritten
<1>6. \A d \in Days : announced[d] = Unpublished <=> state_through < d BY <1>0 DEF PublishedInv
<1>7. \A d \in Days : d \in Nat /\ reading[d].edition \in Nat
  BY <1>0, DaysAreNumbers DEF TimelineInv, TypeOK, Reading
<1>8. /\ announced' \in [Days -> Nat \union {Unpublished}]
      /\ \A d \in Days : /\ d <= state_through => announced'[d] = announced[d] /\ announced'[d] # Unpublished
                         /\ state_through < d /\ d <= state_through' => announced'[d] = reading[d].edition
                         /\ state_through' < d => announced'[d] = Unpublished
  <2>1. announced' = [d \in Days |-> IF d <= state_through' /\ announced[d] = Unpublished
                                       THEN reading[d].edition ELSE announced[d]]
    BY <1>2 DEF Announce
  <2>2. announced \in [Days -> Nat \union {Unpublished}] BY <1>0 DEF AlertTypeOK
  <2>3. ASSUME NEW d \in Days
        PROVE  /\ d <= state_through => announced'[d] = announced[d] /\ announced'[d] # Unpublished
               /\ state_through < d /\ d <= state_through' => announced'[d] = reading[d].edition
               /\ state_through' < d => announced'[d] = Unpublished
               /\ announced'[d] \in Nat \union {Unpublished}
    <3>1. d \in Nat /\ reading[d].edition \in Nat BY <1>7
    <3>2. announced'[d] = IF d <= state_through' /\ announced[d] = Unpublished
                            THEN reading[d].edition ELSE announced[d]
      BY <2>1
    <3>3. announced[d] = Unpublished <=> state_through < d BY <1>6
    <3> QED BY <1>4, <2>2, <3>1, <3>2, <3>3
  <2>4. announced' \in [Days -> Nat \union {Unpublished}] BY <2>1, <2>3
  <2> QED BY <2>3, <2>4
<1>9. ASSUME NEW d \in Days, d <= state_through, snapshot'[d].side # "none", ~snapshot'[d].restated
      PROVE  snapshot'[d] = snapshot[d]
  BY <1>4, <1>5, <1>7, <1>9 DEF NoSnapshot
<1>10. ASSUME NEW d \in Days, snapshot'[d].side # "none" PROVE d <= state_through'
  <2>1. snapshot'[d] = snapshot[d] => d <= state_through BY <1>0, <1>10 DEF PublishedInv
  <2>2. CASE start <= d /\ d <= state_through' BY <2>2
  <2>3. CASE ~(start <= d /\ d <= state_through')
    <3>1. snapshot'[d] = snapshot[d] BY <1>5, <2>3
    <3> QED BY <1>4, <1>7, <2>1, <3>1
  <2> QED BY <2>2, <2>3
<1>11. ASSUME NEW d \in Days, snapshot'[d].side # "none", ~snapshot'[d].restated
       PROVE  announced'[d] = snapshot'[d].edition
  <2>1. CASE d <= state_through
    BY <1>0, <1>8, <1>9, <1>11, <2>1 DEF PublishedInv
  <2>2. CASE state_through < d
    <3>1. d <= state_through' BY <1>10, <1>11
    <3>2. snapshot'[d] # snapshot[d]
      <4>1. snapshot[d].side # "none" => d <= state_through BY <1>0 DEF PublishedInv
      <4> QED BY <1>4, <1>7, <1>11, <2>2, <4>1
    <3>3. snapshot'[d].edition = reading[d].edition BY <1>5, <1>11, <3>2 DEF NoSnapshot
    <3> QED BY <1>8, <2>2, <3>1, <3>3
  <2> QED BY <1>4, <1>7, <2>1, <2>2
<1>12. ASSUME NEW e \in Valid'
       PROVE  /\ snapshot'[e.day].edition = e.meta
              /\ ~e.restated => announced'[e.day] = e.meta
              /\ ~e.restated /\ e.day <= state_through => e \in Valid
  <2>0. \A f \in Valid : /\ f.day \in Days /\ f.day <= state_through
                         /\ snapshot[f.day].edition = f.meta
                         /\ ~f.restated => announced[f.day] = f.meta
    BY <1>0 DEF PublishedInv, TimelineInv, TypeOK, Valid, Event
  <2>1. e.day \in Days BY <1>1 DEF TimelineInv, TypeOK, Valid, Event
  <2>2. CASE e \in Valid /\ e.day < start
    <3>1. snapshot'[e.day] = snapshot[e.day]
      <4>1. e.day \in Nat BY <1>7, <2>1
      <4>2. ~(start <= e.day) BY <1>4, <2>2, <4>1
      <4> QED BY <1>5, <2>1, <4>2
    <3> QED BY <1>8, <2>0, <2>2, <3>1
  <2>3. CASE /\ start <= e.day /\ e.day <= state_through' /\ e.day \in Traded
             /\ e.meta = reading[e.day].edition
             /\ e.restated \/ e \in Valid \/ state_through < e.day
    <3>1. snapshot'[e.day].edition = e.meta BY <1>5, <2>1, <2>3
    <3>2. e.day \in Nat BY <1>7, <2>1
    <3> QED BY <1>4, <1>8, <2>0, <2>1, <2>3, <3>1, <3>2
  <2> QED BY <1>1, <2>2, <2>3 DEF Rewritten
<1>13. PublishedInv'
  <2>1. \A d \in Days : announced'[d] = Unpublished <=> state_through' < d
    <3> SUFFICES ASSUME NEW d \in Days PROVE announced'[d] = Unpublished <=> state_through' < d
      OBVIOUS
    <3>1. \A n \in Nat : n # Unpublished BY DEF Unpublished
    <3>2. d \in Nat /\ reading[d].edition # Unpublished BY <1>7, <3>1
    <3>3. d <= state_through \/ (state_through < d /\ d <= state_through') \/ state_through' < d
      BY <1>4, <3>2
    <3>4. CASE d <= state_through
      <4>1. announced'[d] # Unpublished BY <1>8, <3>4
      <4> QED BY <1>4, <3>2, <3>4, <4>1
    <3>5. CASE state_through < d /\ d <= state_through'
      <4>1. announced'[d] # Unpublished BY <1>8, <3>2, <3>5
      <4> QED BY <1>4, <3>2, <3>5, <4>1
    <3>6. CASE state_through' < d BY <1>8, <3>6
    <3> QED BY <3>3, <3>4, <3>5, <3>6
  <2> QED BY <1>10, <1>11, <1>12, <2>1 DEF PublishedInv
<1>14. AlertTypeOK'
  <2>1. TypeOK' BY <1>1 DEF TimelineInv
  <2> QED BY <1>0, <1>2, <1>5, <1>8, <2>1 DEF AlertTypeOK
<1>15. LastSeen' = LastSeen /\ HasInstance' = HasInstance /\ Current' = Current /\ LastSeen \in Nat
       /\ LastSeen <= state_through /\ inst.last_consumed_state_seq \in Nat
       /\ (LastSeen # None => LastSeen \in Days)
  <2>1. inst \in Instance BY <1>0 DEF AlertTypeOK
  <2>2. LastSeen \in 0..MaxDay /\ inst.last_consumed_state_seq \in Nat BY <2>1 DEF Instance, LastSeen
  <2>3. LastSeen <= state_through BY <1>0 DEF CursorInv, LastSeen
  <2> QED BY <1>2, <2>2, <2>3, TimelineAssumption DEF LastSeen, HasInstance, Current, None, Days
<1>16. CursorInv'
  <2>1. LastSeen <= state_through' /\ inst.last_consumed_state_seq <= event_sequence'
    BY <1>0, <1>4, <1>15 DEF CursorInv
  <2>2. ASSUME condition_type = "STATE", LastSeen # None, NEW e \in events',
               e.seq <= inst.last_consumed_state_seq
        PROVE  e.day <= LastSeen
    <3>1. e.seq \in Nat BY <1>1 DEF TimelineInv, TypeOK, Event
    <3>2. inst.last_consumed_state_seq <= event_sequence BY <1>0 DEF CursorInv
    <3>3. e.seq <= event_sequence BY <1>4, <1>15, <2>2, <3>1, <3>2
    <3>4. PICK f \in events : f.seq = e.seq /\ f.day = e.day BY <1>1, <3>3 DEF Rewritten
    <3> QED BY <1>0, <2>2, <3>4 DEF CursorInv
  <2>3. ASSUME condition_type = "VALUE", LastSeen # None,
               snapshot'[LastSeen].side = "low", ~snapshot'[LastSeen].restated
        PROVE  inst.status # "ACTIVE"
    <3>1. snapshot'[LastSeen] = snapshot[LastSeen] BY <1>9, <1>15, <2>3
    <3> QED BY <1>0, <2>3, <3>1 DEF CursorInv
  <2>4. /\ HasInstance /\ LastSeen = None => inst.status = "RESET"
        /\ HasInstance => inst.trigger_sequence <= rule.trigger_sequence
        /\ ~HasInstance => LastSeen = None
    BY <1>0 DEF CursorInv
  <2> QED BY <1>2, <1>15, <2>1, <2>2, <2>3, <2>4 DEF CursorInv, LastSeen
<1>17. NumbersInv' BY <1>0, <1>2, <1>15 DEF NumbersInv, TriggersFollowDates
<1>18. EveryLiveEntryAnnounced'
  <2>1. ASSUME Current, LastSeen # None, NEW d \in Days, inst.baseline < d, d <= LastSeen, LiveEntry(d)'
        PROVE  \E n \in notifications : n.day = d /\ n.rule_version = rule.rule_version
    <3>0. d \in Nat /\ d <= state_through
      <4>1. d \in Nat BY <1>7
      <4> QED BY <1>4, <1>15, <2>1, <4>1
    <3>1. LiveEntry(d)
      <4>1. CASE condition_type = "STATE"
        <5>1. PICK e \in Valid' : e.day = d /\ e.kind = "ENTER" /\ ~e.restated
          BY <1>2, <2>1, <4>1 DEF LiveEntry
        <5>2. e \in Valid BY <1>12, <3>0, <5>1
        <5> QED BY <4>1, <5>1, <5>2 DEF LiveEntry
      <4>2. CASE condition_type # "STATE"
        <5>1. /\ snapshot'[d].side = "high" /\ ~snapshot'[d].restated
              /\ d - 1 \in Days /\ snapshot'[d - 1].side = "low" /\ ~snapshot'[d - 1].restated
          BY <1>2, <2>1, <4>2 DEF LiveEntry
        <5>2. d - 1 <= state_through BY <1>4, <3>0
        <5>3. snapshot'[d] = snapshot[d] /\ snapshot'[d - 1] = snapshot[d - 1]
          BY <1>9, <3>0, <5>1, <5>2
        <5> QED BY <4>2, <5>1, <5>3 DEF LiveEntry
      <4> QED BY <4>1, <4>2
    <3> QED BY <1>0, <2>1, <3>1 DEF EveryLiveEntryAnnounced, LiveEntry
  <2> QED BY <1>2, <1>15, <2>1 DEF EveryLiveEntryAnnounced, LiveEntry
<1> QED BY <1>1, <1>13, <1>14, <1>16, <1>17, <1>18 DEF AlertInv

-----------------------------------------------------------------------------
(* Steps that leave the rule, or everything else, alone.                    *)

LEMMA RuleUntouched ==
    ASSUME AlertInv, TimelineInv', demand_pending' \in BOOLEAN,
           UNCHANGED <<state_through, event_sequence, events, condition_type, snapshot,
                       rule, inst, notifications, announced>>
    PROVE  AlertInv'
<1>0. /\ AlertTypeOK /\ TimelineInv /\ PublishedInv /\ CursorInv /\ NumbersInv
      /\ EveryLiveEntryAnnounced
  BY DEF AlertInv
<1>1. Valid' = Valid BY DEF Valid
<1>2. LastSeen' = LastSeen /\ HasInstance' = HasInstance /\ Current' = Current
  BY DEF LastSeen, HasInstance, Current
<1>3. AlertTypeOK'
  <2>1. TypeOK' BY DEF TimelineInv
  <2> QED BY <1>0, <2>1 DEF AlertTypeOK
<1>4. PublishedInv' BY <1>0, <1>1 DEF PublishedInv
<1>5. CursorInv' BY <1>0, <1>2 DEF CursorInv
<1>6. NumbersInv' BY <1>0, <1>2 DEF NumbersInv, TriggersFollowDates
<1>7. EveryLiveEntryAnnounced' BY <1>0, <1>1, <1>2 DEF EveryLiveEntryAnnounced
<1> QED BY <1>3, <1>4, <1>5, <1>6, <1>7 DEF AlertInv

(* A new version without a watermark has announced nothing yet.             *)
LEMMA NewVersionKeeps ==
    ASSUME AlertInv, OnlyTheRule, UNCHANGED notifications, rule' \in Rule, inst' \in Instance,
           rule'.rule_version = rule.rule_version + 1,
           rule'.trigger_sequence = rule.trigger_sequence,
           inst'.last_evaluated_trade_date = None, inst'.status \in {"none", "RESET"},
           inst'.last_consumed_state_seq <= event_sequence,
           inst'.status # "none" => inst'.trigger_sequence <= rule.trigger_sequence
    PROVE  AlertInv'
<1>0. AlertTypeOK /\ TimelineInv /\ PublishedInv /\ CursorInv /\ NumbersInv BY DEF AlertInv
<1>1. /\ TimelineInv' /\ PublishedInv' /\ Valid' = Valid
      /\ UNCHANGED <<state_through, event_sequence, events, condition_type, snapshot, announced>>
  BY <1>0, PublicationUntouched
<1>2. rule.rule_version \in Nat /\ state_through \in Nat /\ None <= state_through
  <2>1. rule \in Rule /\ state_through \in 0..MaxDay BY <1>0 DEF AlertTypeOK, TypeOK
  <2> QED BY <2>1, TimelineAssumption DEF Rule, None
<1>3. AlertTypeOK'
  <2>1. UNCHANGED <<condition_type, snapshot, announced>> /\ demand_pending' \in BOOLEAN
    BY DEF OnlyTheRule
  <2>2. TypeOK' BY <1>1 DEF TimelineInv
  <2> QED BY <1>0, <2>1, <2>2 DEF AlertTypeOK
<1>4. LastSeen' = None /\ (HasInstance' <=> inst'.status # "none") BY DEF LastSeen, HasInstance
<1>5. CursorInv' BY <1>1, <1>2, <1>4 DEF CursorInv
<1>6. \A n \in notifications : n.rule_version # rule'.rule_version /\ n.rule_version <= rule'.rule_version
  <2> SUFFICES ASSUME NEW n \in notifications
               PROVE  n.rule_version # rule'.rule_version /\ n.rule_version <= rule'.rule_version
    OBVIOUS
  <2>1. n.rule_version \in Nat /\ n.rule_version <= rule.rule_version
    BY <1>0 DEF AlertTypeOK, Notification, NumbersInv
  <2> QED BY <1>2, <2>1
<1>7. NumbersInv' BY <1>0, <1>6 DEF NumbersInv, TriggersFollowDates
<1>8. EveryLiveEntryAnnounced' BY <1>4 DEF EveryLiveEntryAnnounced
<1> QED BY <1>1, <1>3, <1>5, <1>7, <1>8 DEF AlertInv

LEMMA EditKeeps ==
    ASSUME AlertInv, NEW enabled \in BOOLEAN, Edit(enabled)
    PROVE  AlertInv'
<1>0. rule \in Rule /\ inst \in Instance /\ CursorInv /\ event_sequence \in Nat
  BY DEF AlertInv, AlertTypeOK, TypeOK
<1>1. OnlyTheRule /\ UNCHANGED notifications BY DEF Edit, OnlyTheRule
<1>2. /\ rule' \in Rule /\ rule'.rule_version = rule.rule_version + 1
      /\ rule'.trigger_sequence = rule.trigger_sequence
  <2>1. rule' = [rule EXCEPT !.enabled = enabled, !.rule_version = rule.rule_version + 1] BY DEF Edit
  <2>2. rule.rule_version + 1 \in Nat BY <1>0 DEF Rule
  <2> QED BY <1>0, <2>1, <2>2 DEF Rule
<1>3. None \in 0..MaxDay BY TimelineAssumption DEF None
<1>4. CASE HasInstance
  <2>1. inst' = [inst EXCEPT !.status = "RESET", !.rule_version = rule.rule_version + 1,
                             !.last_evaluated_trade_date = None, !.baseline = None]
    BY <1>4 DEF Edit, ResetInstance
  <2>2. rule.rule_version + 1 \in Nat BY <1>0 DEF Rule
  <2>3. /\ inst' \in Instance /\ inst'.last_evaluated_trade_date = None /\ inst'.status = "RESET"
        /\ inst'.last_consumed_state_seq = inst.last_consumed_state_seq
        /\ inst'.trigger_sequence = inst.trigger_sequence
    BY <1>0, <1>3, <2>1, <2>2 DEF Instance
  <2>4. /\ inst.last_consumed_state_seq <= event_sequence
        /\ inst.trigger_sequence <= rule.trigger_sequence
    BY <1>0, <1>4 DEF CursorInv
  <2> QED BY <1>1, <1>2, <2>3, <2>4, NewVersionKeeps
<1>5. CASE ~HasInstance
  <2>1. inst' = inst /\ inst.status = "none" BY <1>5 DEF Edit, ResetInstance, HasInstance
  <2>2. inst.last_consumed_state_seq <= event_sequence BY <1>0 DEF CursorInv
  <2>3. inst.last_evaluated_trade_date = None BY <1>0, <1>5 DEF CursorInv, LastSeen
  <2> QED BY <1>0, <1>1, <1>2, <2>1, <2>2, <2>3, NewVersionKeeps
<1> QED BY <1>4, <1>5

LEMMA RetargetKeeps ==
    ASSUME AlertInv, Retarget
    PROVE  AlertInv'
<1>0. rule \in Rule /\ event_sequence \in Nat BY DEF AlertInv, AlertTypeOK, TypeOK
<1>1. OnlyTheRule /\ UNCHANGED notifications BY DEF Retarget, OnlyTheRule
<1>2. /\ rule' \in Rule /\ rule'.rule_version = rule.rule_version + 1
      /\ rule'.trigger_sequence = rule.trigger_sequence
  <2>1. PICK here \in BOOLEAN : rule' = [rule EXCEPT !.here = here, !.rule_version = rule.rule_version + 1]
    BY DEF Retarget
  <2>2. rule.rule_version + 1 \in Nat BY <1>0 DEF Rule
  <2> QED BY <1>0, <2>1, <2>2 DEF Rule
<1>3. /\ inst' \in Instance /\ inst'.last_evaluated_trade_date = None /\ inst'.status = "none"
      /\ inst'.last_consumed_state_seq = 0
  BY TimelineAssumption DEF Retarget, NoInstance, Instance, None
<1>4. 0 <= event_sequence BY <1>0
<1> QED BY <1>1, <1>2, <1>3, <1>4, NewVersionKeeps

LEMMA ElsewhereKeeps ==
    ASSUME AlertInv, TriggerElsewhere
    PROVE  AlertInv'
<1>0. /\ AlertTypeOK /\ TimelineInv /\ PublishedInv /\ CursorInv /\ NumbersInv
      /\ EveryLiveEntryAnnounced /\ rule \in Rule /\ inst \in Instance
      /\ notifications \in SUBSET Notification
  BY DEF AlertInv, AlertTypeOK
<1>1. OnlyTheRule BY <1>0 DEF TriggerElsewhere, OnlyTheRule, AlertTypeOK
<1>2. /\ TimelineInv' /\ PublishedInv' /\ Valid' = Valid
      /\ UNCHANGED <<state_through, event_sequence, events, condition_type, snapshot, announced>>
  BY <1>0, <1>1, PublicationUntouched
<1>3. /\ rule' \in Rule /\ rule'.rule_version = rule.rule_version
      /\ rule'.trigger_sequence = rule.trigger_sequence + 1 /\ rule.trigger_sequence \in Nat
      /\ UNCHANGED <<inst, notifications>>
  BY <1>0 DEF TriggerElsewhere, Rule
<1>4. LastSeen' = LastSeen /\ HasInstance' = HasInstance /\ Current' = Current
  BY <1>3 DEF LastSeen, HasInstance, Current
<1>5. AlertTypeOK'
  <2>1. UNCHANGED <<condition_type, snapshot, announced>> /\ demand_pending' \in BOOLEAN
    BY <1>1 DEF OnlyTheRule
  <2>2. TypeOK' BY <1>2 DEF TimelineInv
  <2> QED BY <1>0, <1>3, <2>1, <2>2 DEF AlertTypeOK
<1>6. CursorInv'
  <2>1. inst.trigger_sequence \in Nat BY <1>0 DEF Instance
  <2>2. HasInstance => inst.trigger_sequence <= rule'.trigger_sequence
    BY <1>0, <1>3, <2>1 DEF CursorInv
  <2> QED BY <1>0, <1>2, <1>3, <1>4, <2>2 DEF CursorInv
<1>7. NumbersInv'
  <2>1. \A n \in notifications : n.seq \in Nat BY <1>0 DEF Notification
  <2>2. \A n \in notifications : n.seq <= rule'.trigger_sequence BY <1>0, <1>3, <2>1 DEF NumbersInv
  <2> QED BY <1>0, <1>3, <1>4, <2>2 DEF NumbersInv, TriggersFollowDates
<1>8. EveryLiveEntryAnnounced' BY <1>0, <1>2, <1>3, <1>4 DEF EveryLiveEntryAnnounced
<1> QED BY <1>2, <1>5, <1>6, <1>7, <1>8 DEF AlertInv

LEMMA AlertStarts == AlertInit => AlertInv
<1> SUFFICES ASSUME AlertInit PROVE AlertInv OBVIOUS
<1>1. TimelineInv BY TimelineStarts DEF AlertInit
<1>2. /\ state_through = 0 /\ event_sequence = 0 /\ events = {} /\ Valid = {} /\ None = 0
  BY DEF AlertInit, Init, Valid, None
<1>3. /\ snapshot = [d \in Days |-> NoSnapshot] /\ announced = [d \in Days |-> Unpublished]
      /\ notifications = {} /\ inst = NoInstance /\ demand_pending = FALSE
      /\ rule = [enabled |-> TRUE, rule_version |-> 1, trigger_sequence |-> 0, here |-> TRUE]
      /\ condition_type \in {"STATE", "VALUE"}
  BY DEF AlertInit
<1>4. NoSnapshot \in Snapshot /\ NoSnapshot.side = "none" BY DEF NoSnapshot, Snapshot, Sides
<1>5. /\ inst \in Instance /\ inst.status = "none" /\ inst.last_evaluated_trade_date = 0
      /\ inst.last_consumed_state_seq = 0
  BY <1>2, <1>3, TimelineAssumption DEF NoInstance, Instance
<1>6. rule \in Rule BY <1>3 DEF Rule
<1>7. TypeOK BY <1>1 DEF TimelineInv
<1>8. AlertTypeOK BY <1>3, <1>4, <1>5, <1>6, <1>7 DEF AlertTypeOK
<1>9. PublishedInv
  <2>1. \A d \in Days : 0 < d BY DaysAreNumbers
  <2> QED BY <1>2, <1>3, <1>4, <2>1 DEF PublishedInv
<1>10. ~HasInstance /\ ~Current /\ LastSeen = None BY <1>2, <1>5 DEF HasInstance, Current, LastSeen
<1>11. CursorInv BY <1>2, <1>5, <1>10 DEF CursorInv
<1>12. NumbersInv BY <1>3 DEF NumbersInv, TriggersFollowDates
<1>13. EveryLiveEntryAnnounced BY <1>10 DEF EveryLiveEntryAnnounced
<1> QED BY <1>1, <1>8, <1>9, <1>11, <1>12, <1>13 DEF AlertInv

LEMMA AlertStep ==
    ASSUME AlertInv, [AlertNext]_<<vars, alertVars>>
    PROVE  AlertInv'
<1>0. TimelineInv /\ demand_pending \in BOOLEAN BY DEF AlertInv, AlertTypeOK
<1>1. CASE Arrival
  <2>1. TimelineInv' /\ UNCHANGED <<edge_mode, state_through, event_sequence, events, current>>
    BY <1>0, <1>1, StoreReadingsKeeps DEF Arrival
  <2> QED BY <1>0, <1>1, <2>1, RuleUntouched DEF Arrival, alertVars
<1>2. ASSUME NEW end \in Days, NEW force \in BOOLEAN, Publication(end, force) PROVE AlertInv'
  BY <1>2, PublicationKeeps
<1>3. ASSUME NEW end \in Days, NothingToPublish(end) PROVE AlertInv'
  <2>1. TimelineInv' BY <1>0, <1>3, TimelineStutters DEF NothingToPublish, UpToDate
  <2> QED BY <1>3, <2>1, RuleUntouched DEF NothingToPublish, UpToDate, vars
<1>4. ASSUME NEW day \in Days, Evaluate(day) PROVE AlertInv' BY <1>4, EvaluateKeeps
<1>5. ASSUME NEW enabled \in BOOLEAN, Edit(enabled) PROVE AlertInv' BY <1>5, EditKeeps
<1>6. CASE Retarget BY <1>6, RetargetKeeps
<1>7. CASE TriggerElsewhere BY <1>7, ElsewhereKeeps
<1>8. CASE UNCHANGED <<vars, alertVars>>
  <2>1. TimelineInv' BY <1>0, <1>8, TimelineStutters
  <2> QED BY <1>0, <1>8, <2>1, RuleUntouched DEF vars, alertVars
<1> QED BY <1>1, <1>2, <1>3, <1>4, <1>5, <1>6, <1>7, <1>8 DEF AlertNext

LEMMA AlertInvariant == AlertSpec => []AlertInv
BY AlertStarts, AlertStep, PTL DEF AlertSpec

-----------------------------------------------------------------------------
(* Theorems on the rule.                                                    *)

(* Rule, instance, snapshots and outbox rows keep their types.              *)
THEOREM AlertsTypeCorrect == AlertSpec => []AlertTypeOK
BY AlertInvariant, PTL DEF AlertInv

(* Whatever is corrected, edited or moved away and back, trigger numbers    *)
(* are never issued twice, and within one version follow the dates: what a  *)
(* version announced lies behind its watermark, and a catch-up starts there.*)
THEOREM TriggersAreNumberedByDate == AlertSpec => []TriggersFollowDates
BY AlertInvariant, PTL DEF AlertInv, NumbersInv

(* However many publications an evaluation missed, no fresh entry between   *)
(* the baseline and the watermark stays unannounced.                        *)
THEOREM NoLiveEntryIsMissed == AlertSpec => []EveryLiveEntryAnnounced
BY AlertInvariant, PTL DEF AlertInv

(* After its baseline a rule announces only days whose readings are still   *)
(* those first published.                                                   *)
THEOREM CorrectionsStaySilent == AlertSpec => CorrectionsAreSilent
<1>1. ASSUME AlertInv, [AlertNext]_<<vars, alertVars>>
      PROVE  [\A n \in notifications' \ notifications :
                n.day # inst'.baseline => announced[n.day] = snapshot[n.day].edition]_<<vars, alertVars>>
  <2>0. /\ AlertTypeOK /\ TimelineInv /\ PublishedInv /\ CursorInv /\ NumbersInv
    BY <1>1 DEF AlertInv
  <2> SUFFICES ASSUME NEW n \in notifications', n \notin notifications, n.day # inst'.baseline
               PROVE  announced[n.day] = snapshot[n.day].edition
    OBVIOUS
  <2>1. PICK day \in Days : Evaluate(day)
    BY <1>1 DEF AlertNext, alertVars, Arrival, Publication, NothingToPublish, Edit, Retarget, TriggerElsewhere
  <2>2. ASSUME NEW o \in Resolve, EvaluateFirst(o) PROVE FALSE
    <3> DEFINE days == IF o.active THEN {o.day} ELSE {}
    <3>1. Enqueue(days) /\ inst'.baseline = o.day BY <2>2 DEF EvaluateFirst, Settle
    <3>2. n.day \in days BY <3>1, EnqueuedDay
    <3> QED BY <3>1, <3>2
  <2>3. ASSUME Current, LastSeen # None, LastSeen < day,
               NEW status, NEW consumed, CatchUp(day, status, consumed)
        PROVE  announced[n.day] = snapshot[n.day].edition
    <3>1. Enqueue(CatchUpDays(day)) BY <2>3 DEF CatchUp
    <3>2. n.day \in CatchUpDays(day) BY <3>1, EnqueuedDay
    <3> QED BY <2>0, <2>3, <3>2, CatchUpShape
  <2>4. CASE \E o \in Resolve : /\ o.day = day
                                /\ EvaluateFirst(o) \/ EvaluateAgain(o) \/ EvaluateNew(o)
    BY <2>2, <2>3, <2>4 DEF EvaluateAgain, EvaluateNew
  <2>5. CASE Unavailable(day) BY <2>3, <2>5 DEF Unavailable
  <2> QED BY <2>1, <2>4, <2>5 DEF Evaluate
<1> QED BY <1>1, AlertInvariant, PTL DEF AlertSpec, CorrectionsAreSilent

(* Evaluations, edits and moves of the rule never touch the timeline they   *)
(* follow: every behaviour with a rule is one of the timeline alone.        *)
THEOREM AlertsKeepTheTimeline == AlertSpec => Spec
<1>1. AlertInit => Init BY DEF AlertInit
<1>2. ASSUME [AlertNext]_<<vars, alertVars>> PROVE [Next]_vars
  BY <1>2 DEF AlertNext, Arrival, Publication, NothingToPublish, Evaluate, Edit, Retarget,
              TriggerElsewhere, Next, vars
<1> QED BY <1>1, <1>2, PTL DEF AlertSpec, Spec
=============================================================================
