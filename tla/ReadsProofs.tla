----------------------------- MODULE ReadsProofs -----------------------------
(***************************************************************************)
(* Proofs about what users read and where it comes from, for every value   *)
(* of the constants: the components of Reads that MCReads runs on small    *)
(* instances (SecurityMaster, TableDetail, YieldColumn, TradingCalendar    *)
(* and QuoteRefresh).                                                      *)
(***************************************************************************)
EXTENDS Reads, Sequences, FiniteSets, FiniteSetTheorems, SequenceTheorems,
        WellFoundedInduction, TLAPS

-----------------------------------------------------------------------------
(* The security master.                                                    *)

FlightRecord == [state : {"unused", "running", "done"}, result : Master!Batches \union {Nothing},
                 callback : BOOLEAN, started : Int \union {Nothing}]

(* A caller x waits for a flight that began, until Timeout after it began.   *)
Waits(x) ==
    /\ x.on \in Flights /\ flight[x.on].state # "unused"
    /\ x.until = flight[x.on].started + Timeout /\ now <= x.until

(* The threads inside AKShare are those of the running flights, and a        *)
(* running flight is the one registered, with its own deadline: _flight_done *)
(* forgets it only after it ended, and a caller starts another only when     *)
(* none is registered or the registered one is done.                         *)
MasterInv ==
    /\ now \in Int
    /\ flight \in [Flights -> FlightRecord]
    /\ \A f \in Flights : flight[f].state # "unused" => flight[f].started \in Int
    /\ DOMAIN caller = Callers
    /\ thread = {f \in Flights : flight[f].state = "running"}
    /\ \A f \in thread : inflight = f /\ inflight_deadline = flight[f].started + Timeout
    /\ inflight # Nothing => inflight \in Flights /\ flight[inflight].state # "unused"
    /\ \A c \in Callers : caller[c].pc = "wait" => Waits(caller[c])

(* A step of a caller that leaves AKShare's flights alone.                   *)
LEMMA CallerStep ==
    ASSUME MasterInv, NEW c \in Callers, NEW x, caller' = [caller EXCEPT ![c] = x],
           UNCHANGED <<now, flight, thread, inflight, inflight_deadline>>,
           x.pc = "wait" => Waits(x)
    PROVE  MasterInv'
<1>1. \A k \in Callers : caller'[k] = IF k = c THEN x ELSE caller[k] BY DEF MasterInv
<1>2. \A k \in Callers : caller'[k].pc = "wait" => Waits(caller[k])'
  BY <1>1 DEF MasterInv, Waits
<1> QED BY <1>2 DEF MasterInv

(* What the composite makes of AKShare's answer never waits.                 *)
LEMMA FallbackStep ==
    ASSUME MasterInv, NEW c \in Callers,
           UNCHANGED <<now, flight, thread, inflight, inflight_deadline>>,
           \/ \E batch : Master!Fallback(c, batch)
           \/ \E code : Master!FallbackFails(c, code)
    PROVE  MasterInv'
<1>1. ASSUME NEW r, Master!Use(c, r) PROVE MasterInv'
  BY <1>1, CallerStep DEF Master!Use
<1>2. ASSUME NEW code, Master!Fail(c, code) PROVE MasterInv'
  BY <1>2, CallerStep DEF Master!Fail
<1>3. CASE \E batch : Master!Fallback(c, batch)
  BY <1>1, <1>2, <1>3 DEF Master!Fallback
<1>4. CASE \E code : Master!FallbackFails(c, code)
  BY <1>1, <1>2, <1>4 DEF Master!FallbackFails
<1> QED BY <1>3, <1>4

LEMMA JoinStep ==
    ASSUME MasterInv, Master!MasterAssumption, NEW c \in Callers, Master!Join(c)
    PROVE  MasterInv'
<1>1. CASE \E code : Master!FallbackFails(c, code) /\ UNCHANGED <<now, Master!source>>
  BY <1>1, FallbackStep DEF Master!source
<1>2. ASSUME Master!NoFlight, UNCHANGED now,
             NEW f \in Flights, flight[f].state = "unused",
             flight' = [flight EXCEPT ![f].state = "running", ![f].started = now],
             inflight' = f, inflight_deadline' = now + Timeout, thread' = thread \union {f},
             caller' = [caller EXCEPT ![c] = [pc |-> "wait", primary |-> caller[c].primary, on |-> f,
                                              until |-> now + Timeout]]
      PROVE  MasterInv'
  <2>1. thread = {}
    BY <1>2 DEF Master!NoFlight, Master!Done, Master!MasterAssumption, MasterInv
  <2>2. /\ flight'[f].state = "running" /\ flight'[f].started = now
        /\ \A g \in Flights \ {f} : flight'[g] = flight[g]
    BY <1>2 DEF MasterInv, FlightRecord
  <2>3. flight' \in [Flights -> FlightRecord] BY <1>2 DEF MasterInv, FlightRecord
  <2>4. thread' = {g \in Flights : flight'[g].state = "running"}
    BY <1>2, <2>1, <2>2 DEF MasterInv
  <2>5. \A g \in Flights : flight'[g].state # "unused" => flight'[g].started \in Int
    BY <2>2 DEF MasterInv
  <2>6. ASSUME NEW k \in Callers, caller'[k].pc = "wait" PROVE Waits(caller[k])'
    <3>1. CASE k = c
      <4>1. caller'[k].on = f /\ caller'[k].until = now + Timeout BY <1>2, <3>1 DEF MasterInv
      <4>2. now <= now + Timeout BY DEF MasterInv, Master!MasterAssumption
      <4> QED BY <1>2, <2>2, <4>1, <4>2 DEF Waits
    <3>2. CASE k # c
      <4>1. caller'[k] = caller[k] /\ Waits(caller[k]) BY <1>2, <2>6, <3>2 DEF MasterInv
      <4>2. flight'[caller[k].on] = flight[caller[k].on] BY <1>2, <2>2, <4>1 DEF Waits
      <4> QED BY <1>2, <4>1, <4>2 DEF Waits
    <3> QED BY <3>1, <3>2
  <2>7. DOMAIN caller' = Callers BY <1>2 DEF MasterInv
  <2> QED BY <1>2, <2>1, <2>2, <2>3, <2>4, <2>5, <2>6, <2>7 DEF MasterInv
<1>3. CASE /\ ~Master!NoFlight /\ UNCHANGED <<now, Master!source>> /\ ~(now >= inflight_deadline)
           /\ caller' = [caller EXCEPT ![c] = [pc |-> "wait", primary |-> caller[c].primary, on |-> inflight,
                                               until |-> inflight_deadline]]
  <2>1. inflight \in Flights /\ flight[inflight].state # "done"
    BY <1>3 DEF Master!NoFlight, Master!Done, MasterInv
  <2>2. flight[inflight].state # "unused" BY <1>3 DEF Master!NoFlight, MasterInv
  <2>3. inflight \in thread BY <2>1, <2>2 DEF MasterInv, FlightRecord
  <2> DEFINE x == [pc |-> "wait", primary |-> caller[c].primary, on |-> inflight, until |-> inflight_deadline]
  <2>4. Waits(x)
    BY <1>3, <2>3 DEF Waits, MasterInv, Master!MasterAssumption
  <2>5. /\ caller' = [caller EXCEPT ![c] = x]
        /\ UNCHANGED <<now, flight, thread, inflight, inflight_deadline>>
    BY <1>3 DEF Master!source
  <2> HIDE DEF x
  <2> QED BY <2>4, <2>5, CallerStep
<1> QED BY <1>1, <1>2, <1>3 DEF Master!Join, Master!Deadline

LEMMA FlightEndsStep ==
    ASSUME MasterInv, NEW f \in Flights, NEW r \in Master!Batches \union {Nothing},
           Master!FlightEnds(f, r)
    PROVE  MasterInv'
<1> DEFINE ended == [flight[f] EXCEPT !.state = "done", !.result = r, !.callback = TRUE]
<1>1. flight' \in [Flights -> FlightRecord]
  <2>1. flight' = [flight EXCEPT ![f] = ended] BY DEF Master!FlightEnds, MasterInv
  <2>2. ended \in FlightRecord
    <3>1. flight[f] \in FlightRecord BY DEF MasterInv
    <3> QED BY <3>1 DEF FlightRecord
  <2> HIDE DEF ended
  <2> QED BY <2>1, <2>2 DEF MasterInv
<1>2. /\ flight[f].state = "running" /\ flight'[f].state = "done"
      /\ \A g \in Flights : flight'[g].started = flight[g].started
      /\ \A g \in Flights \ {f} : flight'[g].state = flight[g].state
  BY DEF MasterInv, FlightRecord, Master!FlightEnds
<1>3. thread' = {g \in Flights : flight'[g].state = "running"}
  BY <1>2 DEF MasterInv, Master!FlightEnds
<1>4. \A c \in Callers : Waits(caller[c]) => Waits(caller[c])'
  BY <1>2 DEF Waits, Master!FlightEnds
<1> QED BY <1>1, <1>2, <1>3, <1>4 DEF MasterInv, Master!FlightEnds

LEMMA FlightDoneStep ==
    ASSUME MasterInv, NEW f \in Flights, Master!FlightDone(f)
    PROVE  MasterInv'
<1>1. flight' \in [Flights -> FlightRecord] /\ UNCHANGED <<now, thread, caller>>
  BY DEF MasterInv, FlightRecord, Master!FlightDone
<1>2. \A g \in Flights : flight'[g].state = flight[g].state /\ flight'[g].started = flight[g].started
  BY DEF MasterInv, FlightRecord, Master!FlightDone
<1>3. \A g \in thread : UNCHANGED <<inflight, inflight_deadline>>
  BY DEF MasterInv, Master!FlightDone, Master!Done, Master!Registered
<1>4. inflight' # Nothing => inflight' \in Flights /\ flight'[inflight'].state # "unused"
  BY <1>2 DEF MasterInv, Master!FlightDone
<1>5. \A c \in Callers : Waits(caller[c]) => Waits(caller[c])'
  BY <1>1, <1>2 DEF Waits
<1> QED BY <1>1, <1>2, <1>3, <1>4, <1>5 DEF MasterInv

(* Due timers fire before time goes on.                                      *)
LEMMA MasterTickStep ==
    ASSUME MasterInv, Master!MasterAssumption, Master!Tick
    PROVE  MasterInv'
<1>1. now' = now + 1 /\ UNCHANGED <<flight, thread, inflight, inflight_deadline, caller>>
  BY DEF Master!Tick, Master!source
<1>2. ASSUME NEW c \in Callers, caller[c].pc = "wait" PROVE Waits(caller[c])'
  <2>1. Waits(caller[c]) /\ flight[caller[c].on].started \in Int /\ now \in Int
    BY <1>2 DEF MasterInv, Waits
  <2>2. ~(now >= caller[c].until) BY <1>2 DEF Master!Tick, Master!Due
  <2>3. now + 1 <= caller[c].until BY <2>1, <2>2 DEF Waits, Master!MasterAssumption
  <2> QED BY <1>1, <2>1, <2>3 DEF Waits
<1> QED BY <1>1, <1>2 DEF MasterInv

(* MasterInv holds in every state of the security master.                    *)
THEOREM MasterInvariant ==
    ASSUME Master!MasterAssumption
    PROVE  Master!Spec => []MasterInv
<1>1. Master!Init => MasterInv
  BY DEF Master!Init, Master!Idle, MasterInv, FlightRecord
<1>2. MasterInv /\ [Master!Next]_(Master!vars) => MasterInv'
  <2> SUFFICES ASSUME MasterInv, [Master!Next]_(Master!vars) PROVE MasterInv'
    OBVIOUS
  <2>1. CASE Master!CloseComposite \/ Master!CloseAkshare \/ UNCHANGED Master!vars
    BY <2>1 DEF MasterInv, Waits, Master!CloseComposite, Master!CloseAkshare, Master!vars
  <2>2. ASSUME NEW c \in Callers, Master!Begin(c) PROVE MasterInv'
    BY <2>2, CallerStep DEF Master!Begin, Master!Fail, Master!source
  <2>3. ASSUME NEW c \in Callers, NEW batch, Master!PrimaryComplete(c, batch) PROVE MasterInv'
    BY <2>3, CallerStep DEF Master!PrimaryComplete, Master!Use, Master!Fail, Master!source
  <2>4. ASSUME NEW c \in Callers, NEW batch, Master!PrimaryTruncated(c, batch) PROVE MasterInv'
    BY <2>4, CallerStep DEF Master!PrimaryTruncated, Master!Fail, Master!source
  <2>5. ASSUME NEW c \in Callers, Master!PrimaryFails(c) PROVE MasterInv'
    BY <2>5, CallerStep DEF Master!PrimaryFails, Master!Fail, Master!source
  <2>6. ASSUME NEW c \in Callers, Master!Deliver(c) \/ Master!Expire(c) PROVE MasterInv'
    BY <2>6, FallbackStep DEF Master!Deliver, Master!Expire, Master!source
  <2>7. ASSUME NEW c \in Callers, Master!Reconcile(c) PROVE MasterInv'
    BY <2>7, CallerStep DEF Master!Reconcile, Master!Fail, Master!source
  <2>8. ASSUME NEW c \in Callers, Master!Respond(c) PROVE MasterInv'
    BY <2>8, CallerStep DEF Master!Respond, Master!Idle, Master!source
  <2> QED BY <2>1, <2>2, <2>3, <2>4, <2>5, <2>6, <2>7, <2>8, JoinStep, FlightEndsStep,
             FlightDoneStep, MasterTickStep DEF Master!Next
<1> QED BY <1>1, <1>2, PTL DEF Master!Spec

(* However callers time out, retry or arrive between the end of a flight and *)
(* its callback, at most one thread is inside AKShare.                       *)
THEOREM AtMostOneSourceCall ==
    ASSUME Master!MasterAssumption
    PROVE  Master!Spec => []OneSourceCall
<1>1. \A S : Master!Cardinality(S) = Cardinality(S)
  BY DEF Master!Cardinality, Cardinality
<1>2. MasterInv => OneSourceCall
  <2> SUFFICES ASSUME MasterInv PROVE Cardinality(thread) <= 1
    BY <1>1 DEF OneSourceCall, Master!OneSourceCall
  <2>1. thread = {} \/ thread = {inflight} BY DEF MasterInv
  <2>2. Cardinality({}) = 0 /\ Cardinality({inflight}) = 1
    BY FS_EmptySet, FS_Singleton
  <2> QED BY <2>1, <2>2
<1> QED BY <1>2, MasterInvariant, PTL

(* Nobody waits for an AKShare call longer than Timeout after it began: a    *)
(* caller that joins it late gets what is left of its budget.                *)
THEOREM LateCallersShareTheBudget ==
    ASSUME Master!MasterAssumption
    PROVE  Master!Spec => []BudgetIsTheFlights
<1>1. MasterInv => BudgetIsTheFlights
  BY DEF MasterInv, Waits, BudgetIsTheFlights, Master!BudgetIsTheFlights
<1> QED BY <1>1, MasterInvariant, PTL

-----------------------------------------------------------------------------
(* Finite sets of integers.                                                *)

LEMMA LeastNatural ==
    ASSUME NEW S \in SUBSET Nat, S # {}
    PROVE  \E m \in S : \A n \in S : m <= n
<1>1. PICK m \in S : \A n \in S : ~(<<n, m>> \in OpToRel(<, Nat))
  BY NatLessThanWellFounded, WFMin
<1>2. ASSUME NEW n \in S PROVE m <= n
  <2>1. n < m => <<n, m>> \in OpToRel(<, Nat) BY DEF OpToRel
  <2>2. ~(n < m) BY <1>1, <2>1, Zenon
  <2> QED BY <2>2
<1> QED BY <1>2

(* The member of a finite set with the fewest members above it is its last. *)
LEMMA LastOfFinite ==
    ASSUME NEW S \in SUBSET Int, IsFiniteSet(S), S # {}
    PROVE  \E m \in S : \A n \in S : n <= m
<1> DEFINE Above(x) == {y \in S : x < y}
           Counts == {Cardinality(Above(x)) : x \in S}
<1>1. ASSUME NEW x \in S PROVE IsFiniteSet(Above(x)) /\ Cardinality(Above(x)) \in Nat
  BY FS_Subset, FS_CardinalityType
<1>2. Counts \in SUBSET Nat /\ Counts # {} BY <1>1
<1>3. PICK c \in Counts : \A d \in Counts : c <= d
  <2> HIDE DEF Counts
  <2> QED BY <1>2, LeastNatural
<1>4. PICK m \in S : c = Cardinality(Above(m)) OBVIOUS
<1>5. ASSUME NEW n \in S PROVE n <= m
  <2> SUFFICES ASSUME m < n PROVE FALSE OBVIOUS
  <2>1. Above(n) \in SUBSET Above(m) /\ n \in Above(m) /\ n \notin Above(n)
    <3>1. n \in Int /\ m \in Int /\ ~(n < n) OBVIOUS
    <3>2. ASSUME NEW y \in S, n < y PROVE m < y
      <4>1. y \in Int OBVIOUS
      <4> QED BY <3>1, <3>2, <4>1
    <3> QED BY <3>1, <3>2
  <2>2. Cardinality(Above(n)) <= Cardinality(Above(m)) /\ Cardinality(Above(n)) # Cardinality(Above(m))
    <3> HIDE DEF Above
    <3> QED BY <1>1, <2>1, FS_Subset
  <2>3. Cardinality(Above(m)) <= Cardinality(Above(n)) BY <1>3, <1>4
  <2>4. Cardinality(Above(n)) \in Nat /\ Cardinality(Above(m)) \in Nat BY <1>1
  <2> HIDE DEF Above
  <2> QED BY <2>2, <2>3, <2>4
<1> QED BY <1>5

LEMMA FirstOfFinite ==
    ASSUME NEW S \in SUBSET Int, IsFiniteSet(S), S # {}
    PROVE  \E m \in S : \A n \in S : m <= n
<1> DEFINE Mirrored == {-x : x \in S}
<1>0. \A x \in S : x \in Int /\ -x \in Int OBVIOUS
<1>1. Mirrored \in SUBSET Int /\ Mirrored # {} BY <1>0
<1>2. IsFiniteSet(Mirrored)
  <2> DEFINE mirror == [x \in S |-> -x]
  <2>1. mirror \in Surjection(S, Mirrored) BY DEF Surjection
  <2> QED BY <2>1, FS_Surjection
<1>3. PICK m \in Mirrored : \A n \in Mirrored : n <= m
  <2> HIDE DEF Mirrored
  <2> QED BY <1>1, <1>2, LastOfFinite
<1>4. PICK x \in S : m = -x OBVIOUS
<1>5. \A n \in S : -n <= m BY <1>3
<1> QED BY <1>0, <1>4, <1>5

-----------------------------------------------------------------------------
(* The price and the dividend-yield cell.                                  *)

(* What a request read: of each security the newest row of the table, or    *)
(* Nothing.                                                                 *)
RequestRead(r) ==
    /\ r = [pc |-> r.pc, ids |-> r.ids, batch |-> r.batch, quote |-> r.quote, close |-> r.close]
    /\ r.ids \subseteq Stocks
    /\ r.quote \in [r.ids -> Yield!Times \union {Nothing}]
    /\ r.close \in [r.ids -> TradeDates \union {Nothing}]

(* Tables are finite, so the newest row of each is one of its rows.         *)
YieldInv ==
    /\ quoted \in [Stocks -> SUBSET Yield!Times] /\ closes \in [Stocks -> SUBSET TradeDates]
    /\ \A s \in Stocks : IsFiniteSet(quoted[s]) /\ IsFiniteSet(closes[s])
    /\ request.pc \in {"idle", "quotes", "closes", "dividends", "response"}
    /\ request.pc \in {"quotes", "closes", "dividends"} => RequestRead(request)
    /\ Yield!YieldIsOfItsRow

LEMMA TimesAreIntegers ==
    ASSUME Yield!YieldAssumption
    PROVE  Yield!Times \subseteq Int /\ Nothing \notin Yield!Times /\ Nothing \notin TradeDates
<1>1. TradeDates \subseteq Int /\ Nothing \notin Yield!Times /\ Nothing \notin TradeDates
  BY DEF Yield!YieldAssumption, Yield!Rows
<1>2. ASSUME NEW d \in TradeDates PROVE 2 * d \in Int /\ 2 * d + 1 \in Int
  <2>1. d \in Int BY <1>1
  <2> QED BY <2>1
<1> QED BY <1>1, <1>2 DEF Yield!Times

LEMMA NewestIsARow ==
    ASSUME Yield!YieldAssumption, NEW T, T \subseteq Int, NEW rows \in SUBSET T, IsFiniteSet(rows)
    PROVE  Yield!Newest(rows) \in T \union {Nothing}
<1>1. CASE rows = {} BY <1>1 DEF Yield!Newest
<1>2. CASE rows # {}
  <2>1. \E m \in rows : \A n \in rows : n <= m BY <1>2, LastOfFinite
  <2>2. \E m \in rows : \A n \in rows : m >= n BY <2>1
  <2> QED BY <1>2, <2>2 DEF Yield!Newest, Yield!Max
<1> QED BY <1>1, <1>2

(* _price_data and calculate_for_securities choose the same row: one says   *)
(* "the close wins unless", the other "the quote wins if".                  *)
LEMMA PricesAgree ==
    ASSUME Yield!YieldAssumption,
           NEW q \in Yield!Times \union {Nothing}, NEW c \in TradeDates \union {Nothing}
    PROVE  /\ Yield!ShownPrice(q, c) = Yield!Price(q, c)
           /\ Yield!Price(q, c) # Nothing => Yield!WindowEnd(Yield!Price(q, c)) \in Int
<1>1. q # Nothing => q \in Int /\ Yield!ShanghaiDate(q) \in Int
  BY TimesAreIntegers DEF Yield!ShanghaiDate
<1>2. c # Nothing => c \in Int BY DEF Yield!YieldAssumption
<1>3. Yield!ShownPrice(q, c) = Yield!Price(q, c)
  BY <1>1, <1>2 DEF Yield!ShownPrice, Yield!Price, Yield!Fresh
<1>4. q # Nothing => Yield!UtcDate(q) \in Int BY <1>1 DEF Yield!UtcDate
<1>5. Yield!Price(q, c) # Nothing => Yield!WindowEnd(Yield!Price(q, c)) \in Int
  BY <1>2, <1>4 DEF Yield!Price, Yield!WindowEnd
<1> QED BY <1>3, <1>5

(* The one query of a batch covers the year before each of its prices.      *)
LEMMA BatchCovers ==
    ASSUME Yield!YieldAssumption, NEW P, IsFiniteSet(P), NEW p \in P,
           \A x \in P : Yield!WindowEnd(x) \in Int
    PROVE  Yield!TtmWindow(p) \subseteq Yield!BatchRange(P)
<1> DEFINE Ends == {Yield!WindowEnd(x) : x \in P}
<1>1. Ends \in SUBSET Int /\ Yield!WindowEnd(p) \in Ends BY Zenon
<1>2. IsFiniteSet(Ends)
  <2> DEFINE end == [x \in P |-> Yield!WindowEnd(x)]
  <2>1. end \in Surjection(P, Ends) BY DEF Surjection
  <2> QED BY <2>1, FS_Surjection
<1> DEFINE first == Yield!Min(Ends)
           last == Yield!Max(Ends)
<1>3. first \in Int /\ last \in Int /\ first <= Yield!WindowEnd(p) /\ Yield!WindowEnd(p) <= last
  <2> HIDE DEF Ends
  <2>1. \E m \in Ends : \A n \in Ends : m <= n BY <1>1, <1>2, FirstOfFinite
  <2>2. first \in Ends /\ \A n \in Ends : first <= n BY <2>1 DEF Yield!Min
  <2>3. \E m \in Ends : \A n \in Ends : n <= m BY <1>1, <1>2, LastOfFinite
  <2>4. \E m \in Ends : \A n \in Ends : m >= n BY <1>1, <2>3
  <2>5. last \in Ends /\ \A n \in Ends : last >= n BY <2>4 DEF Yield!Max
  <2> QED BY <1>1, <2>2, <2>5
<1>4. Yield!BatchRange(P) = (first - Year)..last BY DEF Yield!BatchRange
<1> HIDE DEF first, last
<1> QED BY <1>1, <1>3, <1>4 DEF Yield!TtmWindow, Yield!YieldAssumption

LEMMA YieldResponds ==
    ASSUME YieldInv, Yield!YieldAssumption, Yield!ReadDividends
    PROVE  YieldInv'
<1>1. RequestRead(request) BY DEF YieldInv, Yield!ReadDividends
<1> DEFINE ids == request.ids
           prices == {Yield!PriceOf(s) : s \in ids} \ {Nothing}
<1>2. ASSUME NEW s \in ids
      PROVE  /\ Yield!ShownPrice(request.quote[s], request.close[s]) = Yield!PriceOf(s)
             /\ Yield!PriceOf(s) # Nothing => Yield!WindowEnd(Yield!PriceOf(s)) \in Int
  BY <1>1, PricesAgree DEF Yield!PriceOf, RequestRead
<1>3. IsFiniteSet(prices)
  <2> DEFINE price == [s \in ids |-> Yield!PriceOf(s)]
             all == {Yield!PriceOf(s) : s \in ids}
  <2>1. price \in Surjection(ids, all) BY DEF Surjection
  <2>2. IsFiniteSet(Stocks)
    BY DEF Yield!YieldAssumption, Yield!IsFiniteSet, IsFiniteSet
  <2>3. ids \in SUBSET Stocks BY <1>1 DEF RequestRead
  <2>4. IsFiniteSet(ids) BY <2>2, <2>3, FS_Subset
  <2>5. IsFiniteSet(all) BY <2>1, <2>4, FS_Surjection
  <2> QED BY <2>5, FS_Subset
<1>4. \A x \in prices : Yield!WindowEnd(x) \in Int BY <1>2
<1>5. ASSUME NEW s \in ids, Yield!PriceOf(s) # Nothing
      PROVE  Yield!TtmWindow(Yield!PriceOf(s)) \subseteq Yield!BatchRange(prices)
  <2>1. Yield!PriceOf(s) \in prices BY <1>5
  <2> HIDE DEF prices
  <2> QED BY <1>3, <1>4, <2>1, BatchCovers
<1> DEFINE batch == Yield!BatchYields
<1>6. ASSUME NEW s \in ids
      PROVE  /\ Yield!BatchYields[s] = Yield!Yield(dividends[s] \intersect Yield!BatchRange(prices),
                                                   Yield!PriceOf(s))
             /\ Yield!BatchYields[s] =
                   IF Yield!PriceOf(s) = Nothing THEN Yield!NoPrice
                   ELSE [price |-> Yield!PriceOf(s),
                         events |-> dividends[s] \intersect Yield!TtmWindow(Yield!PriceOf(s))]
  <2>1. Yield!BatchYields[s] = Yield!Yield(dividends[s] \intersect Yield!BatchRange(prices),
                                           Yield!PriceOf(s))
    BY DEF Yield!BatchYields
  <2>2. CASE Yield!PriceOf(s) = Nothing BY <2>1, <2>2 DEF Yield!Yield
  <2>3. CASE Yield!PriceOf(s) # Nothing
    <3> HIDE DEF prices
    <3>1. (dividends[s] \intersect Yield!BatchRange(prices)) \intersect Yield!TtmWindow(Yield!PriceOf(s))
             = dividends[s] \intersect Yield!TtmWindow(Yield!PriceOf(s))
      BY <1>5, <2>3
    <3> QED BY <2>1, <2>3, <3>1 DEF Yield!Yield, Yield!Counted
  <2> QED BY <2>1, <2>2, <2>3
<1>7. ASSUME NEW s \in ids
      PROVE  Yield!SingleYield(s) =
                   IF Yield!PriceOf(s) = Nothing THEN Yield!NoPrice
                   ELSE [price |-> Yield!PriceOf(s),
                         events |-> dividends[s] \intersect Yield!TtmWindow(Yield!PriceOf(s))]
  BY DEF Yield!SingleYield, Yield!Yield, Yield!Counted
<1>8. /\ request'.pc = "response" /\ request'.ids = ids /\ request'.stored = dividends
      /\ \A s \in ids : request'.shown[s] = Yield!ShownPrice(request.quote[s], request.close[s])
      /\ request'.yield = IF request.batch THEN Yield!BatchYields
                          ELSE [s \in ids |-> Yield!SingleYield(s)]
      /\ UNCHANGED <<quoted, closes>>
  BY DEF Yield!ReadDividends
<1>9. Yield!YieldIsOfItsRow'
  <2> SUFFICES ASSUME NEW s \in ids
               PROVE  request'.yield[s] =
                         IF request'.shown[s] = Nothing THEN Yield!NoPrice
                         ELSE [price |-> request'.shown[s],
                               events |-> request'.stored[s] \intersect Yield!TtmWindow(request'.shown[s])]
    BY <1>8 DEF Yield!YieldIsOfItsRow
  <2>1. request'.shown[s] = Yield!PriceOf(s) BY <1>2, <1>8
  <2>2. request'.yield[s] =
                   IF Yield!PriceOf(s) = Nothing THEN Yield!NoPrice
                   ELSE [price |-> Yield!PriceOf(s),
                         events |-> dividends[s] \intersect Yield!TtmWindow(Yield!PriceOf(s))]
    BY <1>6, <1>7, <1>8
  <2> QED BY <1>8, <2>1, <2>2
<1> QED BY <1>8, <1>9 DEF YieldInv

(* YieldInv holds in every state.                                            *)
THEOREM YieldInvariant ==
    ASSUME Yield!YieldAssumption
    PROVE  Yield!Spec => []YieldInv
<1>1. Yield!Init => YieldInv
  BY FS_EmptySet DEF Yield!Init, Yield!Idle, YieldInv, Yield!YieldIsOfItsRow
<1>2. YieldInv /\ [Yield!Next]_(Yield!vars) => YieldInv'
  <2> SUFFICES ASSUME YieldInv, [Yield!Next]_(Yield!vars) PROVE YieldInv'
    OBVIOUS
  <2>1. ASSUME UNCHANGED request, NEW s \in Stocks,
               \/ \E t \in Yield!Times : quoted' = [quoted EXCEPT ![s] = @ \union {t}] /\ UNCHANGED closes
               \/ \E d \in TradeDates : closes' = [closes EXCEPT ![s] = @ \union {d}] /\ UNCHANGED quoted
               \/ UNCHANGED <<quoted, closes>>
        PROVE  YieldInv'
    <3>1. quoted' \in [Stocks -> SUBSET Yield!Times] /\ closes' \in [Stocks -> SUBSET TradeDates]
      BY <2>1 DEF YieldInv
    <3>2. \A k \in Stocks : /\ quoted'[k] = quoted[k] \/ \E t : quoted'[k] = quoted[k] \union {t}
                            /\ closes'[k] = closes[k] \/ \E d : closes'[k] = closes[k] \union {d}
      BY <2>1 DEF YieldInv
    <3>3. ASSUME NEW k \in Stocks PROVE IsFiniteSet(quoted'[k]) /\ IsFiniteSet(closes'[k])
      <4>1. IsFiniteSet(quoted[k]) /\ IsFiniteSet(closes[k]) BY DEF YieldInv
      <4>2. \A t : IsFiniteSet(quoted[k] \union {t}) /\ IsFiniteSet(closes[k] \union {t})
        BY <4>1, FS_AddElement
      <4>3. quoted'[k] = quoted[k] \/ \E t : quoted'[k] = quoted[k] \union {t} BY <3>2
      <4>4. closes'[k] = closes[k] \/ \E d : closes'[k] = closes[k] \union {d} BY <3>2
      <4>5. IsFiniteSet(quoted'[k]) BY <4>1, <4>2, <4>3, Zenon
      <4>6. IsFiniteSet(closes'[k]) BY <4>1, <4>2, <4>4, Zenon
      <4> QED BY <4>5, <4>6
    <3> QED BY <2>1, <3>1, <3>3 DEF YieldInv, Yield!YieldIsOfItsRow, RequestRead
  <2>2. ASSUME NEW s \in Stocks, NEW t \in Yield!Times, Yield!StoreQuote(s, t) PROVE YieldInv'
    BY <2>1, <2>2 DEF Yield!StoreQuote
  <2>3. ASSUME NEW s \in Stocks, NEW d \in TradeDates, Yield!StoreClose(s, d) \/ Yield!StoreDividend(s, d)
        PROVE  YieldInv'
    BY <2>1, <2>3 DEF Yield!StoreClose, Yield!StoreDividend
  <2>4. ASSUME NEW ids \in SUBSET Stocks, NEW batch, Yield!Start(ids, batch) PROVE YieldInv'
    BY <2>4 DEF YieldInv, RequestRead, Yield!Start, Yield!YieldIsOfItsRow
  <2>5. CASE Yield!ReadQuotes
    <3>1. \A s \in request.ids : Yield!Newest(quoted[s]) \in Yield!Times \union {Nothing}
      BY <2>5, NewestIsARow, TimesAreIntegers DEF YieldInv, RequestRead, Yield!ReadQuotes
    <3>2. RequestRead(request') /\ request'.pc = "closes"
      BY <2>5, <3>1 DEF YieldInv, RequestRead, Yield!ReadQuotes
    <3> QED BY <2>5, <3>2 DEF YieldInv, Yield!ReadQuotes, Yield!YieldIsOfItsRow, RequestRead
  <2>6. CASE Yield!ReadCloses
    <3>1. \A s \in request.ids : Yield!Newest(closes[s]) \in TradeDates \union {Nothing}
      BY <2>6, NewestIsARow DEF YieldInv, RequestRead, Yield!ReadCloses, Yield!YieldAssumption
    <3>2. RequestRead(request') /\ request'.pc = "dividends"
      BY <2>6, <3>1 DEF YieldInv, RequestRead, Yield!ReadCloses
    <3> QED BY <2>6, <3>2 DEF YieldInv, Yield!ReadCloses, Yield!YieldIsOfItsRow, RequestRead
  <2>7. CASE Yield!Finish
    BY <2>7 DEF YieldInv, Yield!Finish, Yield!Idle, Yield!YieldIsOfItsRow
  <2>8. CASE UNCHANGED Yield!vars
    BY <2>8 DEF YieldInv, Yield!vars, Yield!YieldIsOfItsRow, RequestRead
  <2> QED BY <2>2, <2>3, <2>4, <2>5, <2>6, <2>7, <2>8, YieldResponds DEF Yield!Next
<1> QED BY <1>1, <1>2, PTL DEF Yield!Spec

(* The yield of a row divides by the price the row shows and counts exactly  *)
(* the dividends of the year before it, though the tables grow between the   *)
(* reads and one query fetches the dividends of all securities.              *)
THEOREM YieldsBelongToTheirRows ==
    ASSUME Yield!YieldAssumption
    PROVE  Yield!Spec => []YieldIsOfItsRow
<1>1. YieldInv => YieldIsOfItsRow BY DEF YieldInv, YieldIsOfItsRow
<1> QED BY <1>1, YieldInvariant, PTL

-----------------------------------------------------------------------------
(* The row of a watch table.                                               *)

ColumnRequests(cs) == {Table!RequestOf(c) : c \in cs}
(* The variant a column's request gives rise to.                            *)
VariantOf(c, n, number) ==
    [request |-> Table!RequestOf(c), values |-> Table!Values(Table!RequestOf(c), n), publication |-> number]

TableTypes ==
    /\ columns \subseteq AddedColumns /\ (\A c \in columns : Table!Valid(c)) /\ rules \subseteq Rules
    /\ bars \in 0..MaxBars /\ demand_generation \in Nat
    /\ published \in [revision : Int, generation : Int, publication : 0..MaxPublications]
    /\ published.revision <= bars /\ published.generation <= demand_generation

(* The tables hold one publication; while its revisions are current, it has  *)
(* a variant for every column's request.                                     *)
PublishedTables ==
    /\ snapshot \subseteq Table!Variants
    /\ \A v \in snapshot : v.publication = published.publication
    /\ \A v, w \in snapshot : v.request = w.request => v = w
    /\ \E active : states = Table!Observed(snapshot, active, published.publication)
    /\ Table!Current /\ published.revision >= 0 =>
          \A c \in columns : Table!Values(Table!RequestOf(c), bars) # {} =>
              VariantOf(c, bars, published.publication) \in snapshot

(* What the request has read, and that it is still so: writers wait for its  *)
(* share lock.                                                               *)
Reading ==
    /\ served.pc \in {"idle", "loaded", "locked", "indicators", "states", "response"}
    /\ served.pc # "idle" /\ served.pc # "response" =>
          served.columns \subseteq AddedColumns /\ \A c \in served.columns : Table!Valid(c)
    /\ served.pc \in {"locked", "indicators", "states"} =>
          /\ served = [pc |-> served.pc, columns |-> served.columns, kept |-> served.kept,
                       ready |-> served.ready, bars |-> bars, publication |-> published.publication,
                       variants |-> served.variants, states |-> served.states]
          /\ served.kept \subseteq served.columns \intersect columns
          /\ served.ready => Table!Current /\ published.revision >= 0
    /\ served.pc \in {"indicators", "states"} => served.variants = snapshot
    /\ served.pc = "states" => served.states = states

TableInv ==
    /\ TableTypes /\ PublishedTables /\ Reading
    /\ Table!CellsAreOnePublication /\ Table!ReadyRowsAreComplete /\ Table!ColumnStatesAreItsOwn

(* The assumption in terms of this module's operators.                      *)
LEMMA TableFacts ==
    ASSUME Table!TableAssumption
    PROVE  /\ \A S : Table!Cardinality(S) = Cardinality(S) /\ (Table!IsFiniteSet(S) <=> IsFiniteSet(S))
           /\ \A c \in AddedColumns :
                 /\ c.view \in {"STATUS", "NUMBER", "COMPOSITE"} /\ IsFiniteSet(c.periods)
                 /\ c.type = "MA" => c.periods # {} /\ (~Table!Composite(c) => c.field \in c.periods)
           /\ Rules \subseteq [type : STRING, periods : SUBSET Nat]
           /\ IsFiniteSet(DefaultPeriods) /\ Cardinality(DefaultPeriods) = 2
           /\ MaxBars \in Nat /\ MaxPublications \in Nat /\ Nothing \notin Table!Variants
<1>1. \A S : Table!Cardinality(S) = Cardinality(S) BY DEF Table!Cardinality, Cardinality
<1>2. \A S : Table!IsFiniteSet(S) <=> IsFiniteSet(S) BY DEF Table!IsFiniteSet, IsFiniteSet
<1> QED BY <1>1, <1>2 DEF Table!TableAssumption

(* The row's variants are requests, with two fields.                         *)
LEMMA VariantShape ==
    ASSUME Table!TableAssumption, NEW v \in Table!Variants
    PROVE  /\ v = [request |-> v.request, values |-> v.values, publication |-> v.publication]
           /\ v.request = [type |-> v.request.type, periods |-> v.request.periods]
<1> DEFINE all == Table!Merge({Table!RequestOf(c) : c \in AddedColumns} \union Rules)
<1>0. Table!Variants = {[request |-> r, values |-> Table!Values(r, n), publication |-> p] :
                           r \in all, n \in 0..MaxBars, p \in 0..MaxPublications}
  BY DEF Table!Variants
<1>1. PICK r \in all, n \in 0..MaxBars, p \in 0..MaxPublications :
              v = [request |-> r, values |-> Table!Values(r, n), publication |-> p]
  <2> HIDE DEF all
  <2> QED BY <1>0
<1>2. r = [type |-> r.type, periods |-> r.periods]
  BY TableFacts DEF Table!Merge, Table!RequestOf, Table!MA, Table!Other
<1> QED BY <1>1, <1>2

(* _state_matches_column lists the states of the column's own parameters:    *)
(* the default pair under a wider MA column that contains it.                *)
LEMMA MatchesItsPairs ==
    ASSUME Table!TableAssumption, NEW c \in AddedColumns, Table!Valid(c), NEW s,
           s.instance = [type |-> s.instance.type, periods |-> s.instance.periods]
    PROVE  Table!Matches(c, s) <=> s.status = "ACTIVE" /\ s.instance \in Table!Pairs(Table!RequestOf(c))
<1> DEFINE r == Table!RequestOf(c)
<1>1. r = [type |-> c.type, periods |-> c.periods] BY DEF Table!RequestOf
<1>2. CASE c.type # "MA"
  BY <1>1, <1>2 DEF Table!Matches, Table!Pairs
<1>3. CASE c.type = "MA" /\ Table!IsStatus(c)
  <2>1. Table!Cardinality(r.periods) = 2
    BY <1>1, <1>3 DEF Table!Valid, Table!PairOfPeriods
  <2> QED BY <1>1, <1>3, <2>1 DEF Table!Matches, Table!Pairs
<1>4. CASE c.type = "MA" /\ ~Table!IsStatus(c)
  <2>1. Cardinality(c.periods) \in Nat /\ (DefaultPeriods \subseteq c.periods => 2 <= Cardinality(c.periods))
    BY TableFacts, FS_CardinalityType, FS_Subset
  <2>2. Table!Cardinality(c.periods) = Cardinality(c.periods) BY TableFacts
  <2>3. s.instance = r <=> s.instance.type = "MA" /\ s.instance.periods = c.periods
    BY <1>1, <1>4
  <2>4. s.instance = Table!MA(DefaultPeriods)
           <=> s.instance.type = "MA" /\ s.instance.periods = DefaultPeriods
    BY DEF Table!MA
  <2>5. CASE Cardinality(c.periods) = 2
    BY <1>1, <1>4, <2>1, <2>2, <2>3, <2>5 DEF Table!Matches, Table!Pairs
  <2>6. CASE Cardinality(c.periods) # 2
    BY <1>1, <1>4, <2>1, <2>2, <2>4, <2>6 DEF Table!Matches, Table!Pairs
  <2> QED BY <2>5, <2>6
<1> QED BY <1>2, <1>3, <1>4

(* A published state belongs to a pair some variant gives rise to.           *)
LEMMA StateShape ==
    ASSUME TableInv, Table!TableAssumption, NEW s \in states
    PROVE  /\ s.instance = [type |-> s.instance.type, periods |-> s.instance.periods]
           /\ s.publication = published.publication
<1>1. PICK active : states = Table!Observed(snapshot, active, published.publication)
  BY DEF TableInv, PublishedTables
<1>2. PICK i \in UNION {Table!Pairs(v.request) : v \in snapshot} :
          s.instance = i /\ s.publication = published.publication
  BY <1>1 DEF Table!Observed
<1>3. PICK v \in snapshot : i \in Table!Pairs(v.request) BY <1>2
<1>4. v.request = [type |-> v.request.type, periods |-> v.request.periods]
  BY VariantShape DEF TableInv, PublishedTables
<1>5. i = [type |-> i.type, periods |-> i.periods]
  BY <1>3, <1>4 DEF Table!Pairs, Table!MA
<1> QED BY <1>2, <1>5

(* The cells of one row are of the publication it reports.                  *)
LEMMA CellPublication ==
    ASSUME TableInv, Table!TableAssumption, NEW c,
           Table!Cell(c, snapshot, states).kind \in {"value", "fields", "state"}
    PROVE  Table!Cell(c, snapshot, states).publication = published.publication
<1> DEFINE cell == Table!Cell(c, snapshot, states)
           v == Table!Select(snapshot, Table!RequestOf(c))
<1>1. v # Nothing => v.publication = published.publication
  <2> DEFINE r == Table!RequestOf(c)
             exact == {w \in snapshot : w.request = r}
             bundles == {w \in snapshot : r.type = "MA" /\ w.request.type = "MA"
                                          /\ r.periods \subseteq w.request.periods}
  <2>1. CASE exact # {}
    <3>1. v = CHOOSE w \in exact : TRUE BY <2>1 DEF Table!Select
    <3>2. v \in exact BY <2>1, <3>1
    <3> QED BY <3>2 DEF TableInv, PublishedTables
  <2>2. CASE exact = {} /\ bundles # {}
    <3> DEFINE w == CHOOSE x \in bundles : TRUE
    <3>1. v = Table!Project(w, r) BY <2>2 DEF Table!Select
    <3>2. w \in bundles BY <2>2
    <3>3. w \in snapshot BY <3>2
    <3> HIDE DEF w
    <3>4. w.publication = published.publication BY <3>3 DEF TableInv, PublishedTables
    <3>5. w \in Table!Variants BY <3>3 DEF TableInv, PublishedTables
    <3>6. w = [request |-> w.request, values |-> w.values, publication |-> w.publication]
      BY <3>5, VariantShape
    <3>7. v.publication = w.publication BY <3>1, <3>6 DEF Table!Project
    <3> QED BY <3>4, <3>7
  <2>3. CASE exact = {} /\ bundles = {} BY <2>3 DEF Table!Select
  <2> QED BY <2>1, <2>2, <2>3
<1>2. CASE cell = Table!Raises BY <1>2 DEF Table!Raises
<1>3. CASE cell = Table!StateCell(c, states)
  <2> DEFINE matched == {s \in states : s.instance = Table!RequestOf(c)}
  <2>1. matched # {} BY <1>3 DEF Table!StateCell, Table!Raises
  <2> DEFINE s == CHOOSE x \in matched : TRUE
  <2>2. s \in states BY <2>1
  <2>3. cell = [kind |-> "state", status |-> s.status, publication |-> s.publication]
    BY <1>3, <2>1 DEF Table!StateCell
  <2> HIDE DEF s
  <2>4. s.publication = published.publication BY <2>2, StateShape
  <2>5. cell.publication = s.publication BY <2>3
  <2> QED BY <2>4, <2>5
<1>4. CASE cell = Table!ValueCell(c, snapshot)
  <2> HIDE DEF v
  <2>1. /\ cell.kind # "unavailable"
        /\ cell = IF v = Nothing THEN [kind |-> "unavailable"]
                  ELSE IF c.view = "COMPOSITE"
                       THEN [kind |-> "fields", values |-> v.values, publication |-> v.publication]
                  ELSE IF (IF c.type # "MA" THEN 0 ELSE c.field) \in v.values
                       THEN [kind |-> "value", values |-> {IF c.type # "MA" THEN 0 ELSE c.field},
                             publication |-> v.publication]
                  ELSE [kind |-> "unavailable"]
    BY <1>4 DEF Table!ValueCell, v
  <2>2. v # Nothing BY <2>1
  <2>3. cell.publication = v.publication
    <3> HIDE DEF cell
    <3> QED BY <2>1, <2>2
  <2> QED BY <1>1, <2>2, <2>3
<1> QED BY <1>2, <1>3, <1>4 DEF Table!Cell

(* While the publication is current, the cell of a column whose periods the  *)
(* bars fill is there: its request has a variant of its own.                 *)
Filled(c, n) ==
    IF c.type # "MA" THEN OtherDepth <= n
    ELSE IF c.view = "NUMBER" THEN c.field <= n ELSE \A p \in c.periods : p <= n

LEMMA CurrentCellsAreThere ==
    ASSUME TableInv, Table!TableAssumption, NEW c \in columns,
           Table!Current, published.revision >= 0, Filled(c, bars)
    PROVE  LET cell == Table!Cell(c, snapshot, states) IN
           IF Table!IsStatus(c)
           THEN cell.kind = "state" \/ (c.column_type = "INDICATOR" /\ Table!Unreadable(c))
           ELSE IF c.view = "NUMBER" THEN cell.kind = "value"
           ELSE cell.kind = "fields" /\ (c.type = "MA" => cell.values = c.periods)
<1> DEFINE r == Table!RequestOf(c)
           vs == Table!Values(r, bars)
           v == VariantOf(c, bars, published.publication)
           cell == Table!Cell(c, snapshot, states)
<1>1. c \in AddedColumns /\ Table!Valid(c) BY DEF TableInv, TableTypes
<1>2. /\ c.view \in {"STATUS", "NUMBER", "COMPOSITE"}
      /\ c.type = "MA" => c.periods # {} /\ (~Table!Composite(c) => c.field \in c.periods)
  BY <1>1, TableFacts
<1>3. r.type = c.type /\ r.periods = c.periods BY DEF Table!RequestOf
<1>4. c.view = "NUMBER" /\ c.type = "MA" => c.field \in c.periods
  BY <1>1, <1>2 DEF Table!Valid, Table!FieldKnown, Table!IsStatus
<1>5. /\ vs = IF c.type = "MA" THEN {p \in c.periods : p <= bars} ELSE {0}
      /\ vs # {}
      /\ c.type = "MA" /\ c.view # "NUMBER" => vs = c.periods
      /\ c.view = "NUMBER" => (IF c.type # "MA" THEN 0 ELSE c.field) \in vs
  <2>1. vs = IF c.type = "MA" THEN {p \in c.periods : p <= bars} ELSE {0}
    BY <1>3 DEF Table!Values, Filled
  <2>2. c.type = "MA" /\ c.view # "NUMBER" => vs = c.periods BY <2>1 DEF Filled
  <2>3. c.view = "NUMBER" => (IF c.type # "MA" THEN 0 ELSE c.field) \in vs
    BY <1>4, <2>1 DEF Filled
  <2>4. vs # {} BY <1>2, <2>1, <2>2, <2>3
  <2> QED BY <2>1, <2>2, <2>3, <2>4
<1>6. v \in snapshot BY <1>5 DEF TableInv, PublishedTables
<1>7. v.request = r /\ v.values = vs BY DEF VariantOf
<1>8. v # Nothing /\ Table!Select(snapshot, r) = v
  <2> DEFINE exact == {w \in snapshot : w.request = r}
  <2>1. v \in exact BY <1>6, <1>7
  <2>2. \A w \in exact : w = v BY <1>6, <1>7 DEF TableInv, PublishedTables
  <2>3. Table!Select(snapshot, r) = CHOOSE w \in exact : TRUE BY <2>1 DEF Table!Select
  <2> HIDE DEF exact
  <2>4. (CHOOSE w \in exact : TRUE) = v BY <2>1, <2>2
  <2>5. v # Nothing BY <1>6, TableFacts DEF TableInv, PublishedTables
  <2> QED BY <2>3, <2>4, <2>5
<1>9. CASE Table!IsStatus(c) /\ ~(c.column_type = "INDICATOR" /\ Table!Unreadable(c))
  <2>1. cell = Table!StateCell(c, states) BY <1>9 DEF Table!Cell
  <2>2. r \in Table!Pairs(r)
    BY <1>1, <1>3, <1>9 DEF Table!Pairs, Table!Valid, Table!PairOfPeriods
  <2>3. PICK active : states = Table!Observed(snapshot, active, published.publication)
    BY DEF TableInv, PublishedTables
  <2>4. r \in UNION {Table!Pairs(w.request) : w \in snapshot} BY <1>6, <1>7, <2>2
  <2>5. \E s \in states : s.instance = r
    <3> DEFINE instances == UNION {Table!Pairs(w.request) : w \in snapshot}
               Known(i) == \E w \in snapshot : i \in Table!Pairs(w.request) /\ i.periods \subseteq w.values
               Mark(i) == [instance |-> i, publication |-> published.publication,
                           status |-> IF ~Known(i) THEN "UNKNOWN"
                                      ELSE IF i \in active THEN "ACTIVE" ELSE "INACTIVE"]
    <3>1. states = {Mark(i) : i \in instances} BY <2>3, Zenon DEF Table!Observed
    <3>2. Mark(r).instance = r OBVIOUS
    <3>3. r \in instances BY <2>4
    <3> HIDE DEF Mark, r, instances
    <3>4. Mark(r) \in states BY <3>1, <3>3
    <3> QED BY <3>2, <3>4
  <2>6. cell.kind = "state" BY <2>1, <2>5 DEF Table!StateCell
  <2> HIDE DEF cell
  <2>7. cell.kind = "state" \/ (c.column_type = "INDICATOR" /\ Table!Unreadable(c)) BY <2>6
  <2> QED BY <1>9, <2>7 DEF cell
<1>10. CASE Table!IsStatus(c) /\ c.column_type = "INDICATOR" /\ Table!Unreadable(c)
  BY <1>10
<1>11. CASE ~Table!IsStatus(c)
  <2>1. cell = Table!ValueCell(c, snapshot) BY <1>11 DEF Table!Cell, Table!Unreadable
  <2>2. cell = IF c.view = "COMPOSITE"
               THEN [kind |-> "fields", values |-> v.values, publication |-> v.publication]
               ELSE IF (IF c.type # "MA" THEN 0 ELSE c.field) \in v.values
                    THEN [kind |-> "value", values |-> {IF c.type # "MA" THEN 0 ELSE c.field},
                          publication |-> v.publication]
               ELSE [kind |-> "unavailable"]
    <3> HIDE DEF v, cell
    <3> QED BY <1>8, <2>1 DEF Table!ValueCell
  <2>3. c.view \in {"NUMBER", "COMPOSITE"} BY <1>2, <1>11 DEF Table!IsStatus
  <2> HIDE DEF v, cell, vs
  <2>4. CASE c.view = "NUMBER"
    <3>1. cell.kind = "value" BY <1>5, <1>7, <2>2, <2>4
    <3> QED BY <1>11, <2>4, <3>1 DEF cell
  <2>5. CASE c.view = "COMPOSITE"
    <3>1. cell.kind = "fields" /\ cell.values = vs BY <1>7, <2>2, <2>5
    <3>2. c.type = "MA" => cell.values = c.periods BY <1>5, <2>5, <3>1
    <3> QED BY <1>11, <2>5, <3>1, <3>2 DEF cell
  <2> QED BY <2>3, <2>4, <2>5
<1> QED BY <1>9, <1>10, <1>11

(* Writers run only while no request holds the share lock.                  *)
LEMMA UnlockedStep ==
    ASSUME TableInv, Table!Unlocked, UNCHANGED served, TableTypes', PublishedTables'
    PROVE  TableInv'
<1>1. served.pc \in {"idle", "loaded"} BY DEF Table!Unlocked
<1>2. Reading' BY <1>1 DEF TableInv, Reading
<1>3. ~Table!Answered' BY <1>1 DEF Table!Answered
<1> QED BY <1>2, <1>3 DEF TableInv, Table!CellsAreOnePublication, Table!ReadyRowsAreComplete,
                          Table!ColumnStatesAreItsOwn

(* A change of the demand or a new bar leaves the publication behind.        *)
LEMMA DemandStep ==
    ASSUME TableInv, Table!TableAssumption,
           \/ \E c \in AddedColumns : Table!AddColumn(c) \/ Table!DeleteColumn(c)
           \/ \E r \in Rules : Table!ToggleRule(r)
           \/ Table!StoreBar
    PROVE  TableInv'
<1>1. MaxBars \in Nat BY TableFacts
<1>2. /\ Table!Unlocked /\ UNCHANGED <<published, snapshot, states, served>>
      /\ bars' \in 0..MaxBars /\ bars <= bars'
      /\ demand_generation' \in Nat /\ demand_generation <= demand_generation'
      /\ bars < bars' \/ demand_generation < demand_generation'
  BY <1>1 DEF TableInv, TableTypes, Table!AddColumn, Table!DeleteColumn, Table!ToggleRule,
              Table!MarkDemand, Table!StoreBar
<1>3. columns' \subseteq AddedColumns /\ rules' \subseteq Rules /\ \A c \in columns' : Table!Valid(c)
  BY DEF TableInv, TableTypes, Table!AddColumn, Table!DeleteColumn, Table!ToggleRule,
         Table!MarkDemand, Table!StoreBar
<1>4. TableTypes' BY <1>1, <1>2, <1>3 DEF TableInv, TableTypes
<1>5. ~Table!Current' BY <1>1, <1>2 DEF TableInv, TableTypes, Table!Current
<1>6. PublishedTables' BY <1>2, <1>5 DEF TableInv, PublishedTables
<1> QED BY <1>2, <1>4, <1>6, UnlockedStep

(* A publication computes a variant of its own for every distinct request.   *)
LEMMA PublishStep ==
    ASSUME TableInv, Table!TableAssumption, Table!Publish
    PROVE  TableInv'
<1> DEFINE requests == Table!Merge({Table!RequestOf(c) : c \in columns} \union rules)
           number == published.publication + 1
           Variant(r) == [request |-> r, values |-> Table!Values(r, bars), publication |-> number]
           computed == {r \in requests : Table!Values(r, bars) # {}}
<1>1. /\ Table!Unlocked /\ number <= MaxPublications
      /\ published' = [revision |-> bars, generation |-> demand_generation, publication |-> number]
      /\ snapshot' = Table!Computed(requests, bars, number)
      /\ \E active : states' = Table!Observed(snapshot', active, number)
      /\ UNCHANGED <<columns, rules, bars, demand_generation, served>>
  BY DEF Table!Publish
<1>2. MaxBars \in Nat /\ MaxPublications \in Nat /\ number \in 0..MaxPublications
  BY <1>1, TableFacts DEF TableInv, TableTypes
<1>3. TableTypes' BY <1>1, <1>2 DEF TableInv, TableTypes
<1>4. snapshot' = {Variant(r) : r \in computed} BY <1>1 DEF Table!Computed
<1>5. snapshot' \subseteq Table!Variants
  <2> DEFINE all == Table!Merge({Table!RequestOf(c) : c \in AddedColumns} \union Rules)
  <2>1. Table!Variants = {[request |-> r, values |-> Table!Values(r, n), publication |-> p] :
                             r \in all, n \in 0..MaxBars, p \in 0..MaxPublications}
    BY DEF Table!Variants
  <2>2. computed \subseteq all BY DEF Table!Merge, TableInv, TableTypes
  <2>3. bars \in 0..MaxBars BY DEF TableInv, TableTypes
  <2> HIDE DEF all, computed, number
  <2> QED BY <1>2, <1>4, <2>1, <2>2, <2>3
<1>6. \A r : Variant(r).request = r /\ Variant(r).publication = number OBVIOUS
<1>7. ASSUME NEW c \in columns, Table!Values(Table!RequestOf(c), bars) # {}
      PROVE  VariantOf(c, bars, number) \in snapshot'
  <2>1. Table!RequestOf(c) \in computed BY <1>7 DEF Table!Merge
  <2>2. VariantOf(c, bars, number) = Variant(Table!RequestOf(c)) BY DEF VariantOf
  <2> HIDE DEF Variant, computed
  <2> QED BY <1>4, <2>1, <2>2
<1>8. /\ \A v \in snapshot' : v.publication = number
      /\ \A v, w \in snapshot' : v.request = w.request => v = w
  <2> HIDE DEF Variant, computed
  <2> QED BY <1>4, <1>6
<1>9. PublishedTables'
  <2>1. published'.publication = number BY <1>1
  <2> HIDE DEF number
  <2> QED BY <1>1, <1>5, <1>7, <1>8, <2>1 DEF PublishedTables
<1> QED BY <1>1, <1>3, <1>9, UnlockedStep

(* A statement of the request changes nothing but what the request holds.    *)
LEMMA ReadStep ==
    ASSUME TableInv, UNCHANGED <<columns, rules, bars, demand_generation, published, snapshot, states>>,
           Reading', served'.pc # "response"
    PROVE  TableInv'
<1>1. TableTypes' /\ PublishedTables'
  BY DEF TableInv, TableTypes, PublishedTables, Table!Current
<1>2. ~Table!Answered' BY DEF Table!Answered
<1> QED BY <1>1, <1>2 DEF TableInv, Table!CellsAreOnePublication, Table!ReadyRowsAreComplete,
                          Table!ColumnStatesAreItsOwn

LEMMA RespondStep ==
    ASSUME TableInv, Table!TableAssumption, Table!Respond
    PROVE  TableInv'
<1>1. /\ served.pc = "states" /\ UNCHANGED <<columns, rules, bars, demand_generation, published, snapshot, states>>
      /\ served' = [pc |-> "response", kept |-> served.kept, ready |-> served.ready,
                    bars |-> served.bars, publication |-> served.publication,
                    cells |-> [c \in served.columns |-> Table!Cell(c, served.variants, served.states)],
                    column_states |-> [c \in served.columns |-> {s \in served.states : Table!Matches(c, s)}],
                    states |-> Table!Visible(served.columns, served.states)]
  BY DEF Table!Respond
<1>2. /\ served.variants = snapshot /\ served.states = states
      /\ served.bars = bars /\ served.publication = published.publication
      /\ served.kept \subseteq served.columns \intersect columns
      /\ served.ready => Table!Current /\ published.revision >= 0
      /\ served.columns \subseteq AddedColumns /\ \A c \in served.columns : Table!Valid(c)
  BY <1>1 DEF TableInv, Reading
<1>3. TableTypes' /\ PublishedTables' /\ Reading'
  BY <1>1 DEF TableInv, TableTypes, PublishedTables, Reading, Table!Current
<1>4. Table!CellsAreOnePublication'
  <2>1. \A c \in DOMAIN served'.cells : served'.cells[c] = Table!Cell(c, snapshot, states)
    BY <1>1, <1>2
  <2>2. \A s \in served'.states : s \in states BY <1>1, <1>2 DEF Table!Visible
  <2>3. served'.publication = published.publication BY <1>1, <1>2
  <2>4. \A c \in DOMAIN served'.cells : served'.cells[c].kind \in {"value", "fields", "state"} =>
           served'.cells[c].publication = published.publication
    BY <2>1, CellPublication
  <2>5. \A s \in states : s.publication = published.publication BY StateShape
  <2>6. \A s \in served'.states : s.publication = served'.publication BY <2>2, <2>3, <2>5
  <2> QED BY <2>3, <2>4, <2>6 DEF Table!CellsAreOnePublication
<1>5. Table!ReadyRowsAreComplete'
  <2> SUFFICES ASSUME served.ready, NEW c \in served.kept, Table!Deep(c)'
               PROVE  LET cell == served'.cells[c] IN
                      IF Table!IsStatus(c)
                      THEN cell.kind = "state" \/ (c.column_type = "INDICATOR" /\ Table!Unreadable(c))
                      ELSE IF c.view = "NUMBER" THEN cell.kind = "value"
                      ELSE cell.kind = "fields" /\ (c.type = "MA" => cell.values = c.periods)
    BY <1>1 DEF Table!ReadyRowsAreComplete
  <2>1. served'.bars = bars BY <1>1, <1>2
  <2>2. Filled(c, bars) BY <2>1 DEF Filled, Table!Deep
  <2>3. c \in columns /\ c \in served.columns BY <1>2
  <2>4. served'.cells[c] = Table!Cell(c, snapshot, states) BY <1>1, <1>2, <2>3
  <2> QED BY <1>2, <2>2, <2>3, <2>4, CurrentCellsAreThere
<1>6. Table!ColumnStatesAreItsOwn'
  <2> SUFFICES ASSUME NEW c \in served.columns
               PROVE  served'.column_states[c] =
                        {s \in states : s.status = "ACTIVE" /\ s.instance \in Table!Pairs(Table!RequestOf(c))}
    BY <1>1 DEF Table!ColumnStatesAreItsOwn
  <2>1. served'.column_states[c] = {s \in states : Table!Matches(c, s)} BY <1>1, <1>2
  <2>2. \A s \in states : Table!Matches(c, s) <=>
                          s.status = "ACTIVE" /\ s.instance \in Table!Pairs(Table!RequestOf(c))
    BY <1>2, MatchesItsPairs, StateShape
  <2> QED BY <2>1, <2>2
<1> QED BY <1>3, <1>4, <1>5, <1>6 DEF TableInv

(* TableInv holds in every state.                                            *)
THEOREM TableInvariant ==
    ASSUME Table!TableAssumption
    PROVE  Table!Spec => []TableInv
<1>1. Table!Init => TableInv
  <2> SUFFICES ASSUME Table!Init PROVE TableInv OBVIOUS
  <2>1. TableTypes BY TableFacts DEF Table!Init, TableTypes
  <2>2. \A active : Table!Observed({}, active, published.publication) = {} BY DEF Table!Observed
  <2>3. PublishedTables BY <2>2 DEF Table!Init, PublishedTables, Table!Current
  <2>4. Reading /\ ~Table!Answered BY DEF Table!Init, Table!Idle, Reading, Table!Answered
  <2> QED BY <2>1, <2>3, <2>4 DEF TableInv, Table!CellsAreOnePublication, Table!ReadyRowsAreComplete,
                                  Table!ColumnStatesAreItsOwn
<1>2. TableInv /\ [Table!Next]_(Table!vars) => TableInv'
  <2> SUFFICES ASSUME TableInv, [Table!Next]_(Table!vars) PROVE TableInv'
    OBVIOUS
  <2>1. CASE Table!Load
    <3>1. Reading' BY <2>1 DEF Table!Load, TableInv, TableTypes, Reading
    <3> QED BY <2>1, <3>1, ReadStep DEF Table!Load
  <2>2. CASE Table!LockReads
    <3>1. Reading' BY <2>2 DEF Table!LockReads, TableInv, TableTypes, Reading, Table!Current
    <3> QED BY <2>2, <3>1, ReadStep DEF Table!LockReads
  <2>3. CASE Table!ReadIndicators
    <3>1. /\ served.pc = "locked"
          /\ UNCHANGED <<columns, rules, bars, demand_generation, published, snapshot, states>>
          /\ served' = [served EXCEPT !.pc = "indicators", !.variants = snapshot]
      BY <2>3 DEF Table!ReadIndicators
    <3>2. PICK cols, kept, ready, variants, current :
            served = [pc |-> "locked", columns |-> cols, kept |-> kept, ready |-> ready, bars |-> bars,
                      publication |-> published.publication, variants |-> variants, states |-> current]
      BY <3>1 DEF TableInv, Reading
    <3>3. served' = [pc |-> "indicators", columns |-> cols, kept |-> kept, ready |-> ready, bars |-> bars,
                     publication |-> published.publication, variants |-> snapshot, states |-> current]
      BY <3>1, <3>2
    <3>4. Reading' BY <3>1, <3>2, <3>3 DEF TableInv, Reading, Table!Current
    <3> QED BY <3>1, <3>3, <3>4, ReadStep
  <2>4. CASE Table!ReadStates
    <3>1. /\ served.pc = "indicators"
          /\ UNCHANGED <<columns, rules, bars, demand_generation, published, snapshot, states>>
          /\ served' = [served EXCEPT !.pc = "states", !.states = states]
      BY <2>4 DEF Table!ReadStates
    <3>2. PICK cols, kept, ready, variants, current :
            served = [pc |-> "indicators", columns |-> cols, kept |-> kept, ready |-> ready, bars |-> bars,
                      publication |-> published.publication, variants |-> variants, states |-> current]
      BY <3>1 DEF TableInv, Reading
    <3>3. served' = [pc |-> "states", columns |-> cols, kept |-> kept, ready |-> ready, bars |-> bars,
                     publication |-> published.publication, variants |-> variants, states |-> states]
      BY <3>1, <3>2
    <3>4. Reading' BY <3>1, <3>2, <3>3 DEF TableInv, Reading, Table!Current
    <3> QED BY <3>1, <3>3, <3>4, ReadStep
  <2>5. CASE Table!Finish
    <3>1. Reading' BY <2>5 DEF Table!Finish, Table!Idle, Reading
    <3> QED BY <2>5, <3>1, ReadStep DEF Table!Finish, Table!Idle
  <2>6. CASE UNCHANGED Table!vars
    BY <2>6 DEF Table!vars, TableInv, TableTypes, PublishedTables, Reading, Table!Current, Table!Answered,
                Table!Deep, Table!CellsAreOnePublication, Table!ReadyRowsAreComplete,
                Table!ColumnStatesAreItsOwn
  <2> QED BY <2>1, <2>2, <2>3, <2>4, <2>5, <2>6, DemandStep, PublishStep, RespondStep DEF Table!Next
<1> QED BY <1>1, <1>2, PTL DEF Table!Spec

(* The value cells, state cells and listed states of a row come from one     *)
(* publication, the one whose revision the row reports.                      *)
THEOREM RowsAreOnePublication ==
    ASSUME Table!TableAssumption
    PROVE  Table!Spec => []CellsAreOnePublication
<1>1. TableInv => CellsAreOnePublication BY DEF TableInv, CellsAreOnePublication
<1> QED BY <1>1, TableInvariant, PTL

(* A row with analysis_status READY has the cell of every column that is     *)
(* still there and whose periods the bars fill.                              *)
THEOREM ReadyRowsLackNoCell ==
    ASSUME Table!TableAssumption
    PROVE  Table!Spec => []ReadyRowsAreComplete
<1>1. TableInv => ReadyRowsAreComplete BY DEF TableInv, ReadyRowsAreComplete
<1> QED BY <1>1, TableInvariant, PTL

(* A column lists exactly the active states of its own parameters.           *)
THEOREM ColumnsListTheirStates ==
    ASSUME Table!TableAssumption
    PROVE  Table!Spec => []ColumnStatesAreItsOwn
<1>1. TableInv => ColumnStatesAreItsOwn BY DEF TableInv, ColumnStatesAreItsOwn
<1> QED BY <1>1, TableInvariant, PTL

-----------------------------------------------------------------------------
(* The trading calendar.                                                     *)

(* The days a validation has gone through.                                   *)
Passed(t) == (task[t].target - BackfillDays)..(task[t].candidate - 1)
Loop(t) ==
    /\ task[t].target \in Calendar!Targets
    /\ task[t].candidate \in (task[t].target - BackfillDays)..task[t].target
    /\ task[t].candidate \in Calendar!Days
    /\ \A d \in Passed(t) : d \in Calendar!Days /\ calendar[d] # Nothing

(* Every day a task has gone through has a row.  The row a task read is      *)
(* still there when it writes, since nothing removes one.                    *)
CalendarInv ==
    /\ calendar \in [Calendar!Days -> Calendar!Row \union {Nothing}]
    /\ DOMAIN task = Tasks
    /\ \A t \in Tasks :
          /\ task[t].pc \in {"idle", "ask", "read", "write", "done"}
          /\ task[t].pc \in {"ask", "read", "write"} => Loop(t)
          /\ task[t].pc \in {"read", "write"} => task[t].actual \in BOOLEAN
          /\ task[t].pc = "write" /\ task[t].row # Nothing =>
                task[t].row \in Calendar!Row /\ calendar[task[t].candidate] # Nothing
          /\ task[t].pc = "done" =>
                /\ task[t].target \in Calendar!Targets
                /\ \A d \in (task[t].target - BackfillDays)..task[t].target :
                      d \in Calendar!Days /\ calendar[d] # Nothing

(* The days of a window are days.                                            *)
LEMMA WindowsAreDays ==
    ASSUME Calendar!CalendarAssumption, NEW target \in Calendar!Targets
    PROVE  /\ target \in Int /\ BackfillDays \in Nat
           /\ (target - BackfillDays)..target \subseteq Calendar!Days
<1>1. target \in Calendar!Days /\ target - BackfillDays \in Calendar!Days BY DEF Calendar!Targets
<1> QED BY <1>1 DEF Calendar!CalendarAssumption

(* A row in the import's form, and one that an observation changed.          *)
LEMMA ImportedIsARow ==
    ASSUME NEW row \in Calendar!Row \union {Nothing}, NEW open \in BOOLEAN
    PROVE  Calendar!Imported(row, open) \in Calendar!Row
BY DEF Calendar!Imported, Calendar!Row, Calendar!Verdict

LEMMA ValidatedIsARow ==
    ASSUME NEW row \in Calendar!Row \union {Nothing}, NEW actual \in BOOLEAN
    PROVE  Calendar!Validated(row, actual) \in Calendar!Row
BY DEF Calendar!Validated, Calendar!Row, Calendar!Verdict

LEMMA FlushedIsARow ==
    ASSUME NEW read \in Calendar!Row, NEW new \in Calendar!Row, NEW stored_row \in Calendar!Row
    PROVE  Calendar!Flushed(read, new, stored_row) \in Calendar!Row
BY DEF Calendar!Flushed, Calendar!Row

(* A step that writes rows and leaves the tasks alone.                       *)
LEMMA RowsStep ==
    ASSUME CalendarInv, UNCHANGED task,
           calendar' \in [Calendar!Days -> Calendar!Row \union {Nothing}],
           \A d \in Calendar!Days : calendar[d] # Nothing => calendar'[d] # Nothing
    PROVE  CalendarInv'
<1>1. ASSUME NEW u \in Tasks PROVE task[u].pc \in {"ask", "read", "write"} => Loop(u) /\ Loop(u)'
  BY DEF CalendarInv, Loop, Passed
<1> QED BY <1>1 DEF CalendarInv, Loop

(* A step that moves one task on and writes at most one row.                 *)
LEMMA TaskStep ==
    ASSUME CalendarInv, NEW t \in Tasks, NEW x, task' = [task EXCEPT ![t] = x],
           calendar' \in [Calendar!Days -> Calendar!Row \union {Nothing}],
           \A d \in Calendar!Days : calendar[d] # Nothing => calendar'[d] # Nothing,
           x.pc \in {"idle", "ask", "read", "write", "done"},
           x.pc \in {"ask", "read", "write"} => Loop(t)',
           x.pc \in {"read", "write"} => x.actual \in BOOLEAN,
           x.pc = "write" /\ x.row # Nothing => x.row \in Calendar!Row /\ calendar'[x.candidate] # Nothing,
           x.pc = "done" => /\ x.target \in Calendar!Targets
                            /\ \A d \in (x.target - BackfillDays)..x.target :
                                  d \in Calendar!Days /\ calendar'[d] # Nothing
    PROVE  CalendarInv'
<1>1. task'[t] = x /\ DOMAIN task' = Tasks /\ \A u \in Tasks : u # t => task'[u] = task[u] BY DEF CalendarInv
<1>2. ASSUME NEW u \in Tasks, u # t PROVE task[u].pc \in {"ask", "read", "write"} => Loop(u) /\ Loop(u)'
  BY <1>1, <1>2 DEF CalendarInv, Loop, Passed
<1> QED BY <1>1, <1>2 DEF CalendarInv, Loop

(* The next day of a loop: the candidate's row is there.                     *)
LEMMA AnsweredStep ==
    ASSUME Calendar!CalendarAssumption, CalendarInv, NEW t \in Tasks, task[t].pc = "write", NEW status,
           Calendar!Answered(t, status),
           calendar' \in [Calendar!Days -> Calendar!Row \union {Nothing}],
           \A d \in Calendar!Days : calendar[d] # Nothing => calendar'[d] # Nothing,
           calendar'[task[t].candidate] # Nothing
    PROVE  CalendarInv'
<1> DEFINE target == task[t].target  candidate == task[t].candidate
<1>1. Loop(t) BY DEF CalendarInv
<1>2. target \in Calendar!Targets /\ candidate \in (target - BackfillDays)..target BY <1>1 DEF Loop
<1>3. target \in Int /\ BackfillDays \in Nat /\ (target - BackfillDays)..target \subseteq Calendar!Days
  BY <1>2, WindowsAreDays
<1>4. \A d \in (target - BackfillDays)..candidate : d \in Calendar!Days /\ calendar'[d] # Nothing
  <2> SUFFICES ASSUME NEW d \in (target - BackfillDays)..candidate
               PROVE  d \in Calendar!Days /\ calendar'[d] # Nothing
    OBVIOUS
  <2>1. d \in Calendar!Days BY <1>2, <1>3
  <2>2. CASE d = candidate BY <2>1, <2>2
  <2>3. CASE d # candidate
    <3>1. d \in Passed(t) BY <1>2, <1>3, <2>3 DEF Passed
    <3> QED BY <1>1, <2>1, <3>1 DEF Loop
  <2> QED BY <2>2, <2>3
<1>5. CASE Calendar!Abort(t) BY <1>5, TaskStep DEF Calendar!Abort, Calendar!Idle
<1>6. CASE candidate = target /\ task' = [task EXCEPT ![t] = [pc |-> "done", target |-> target]]
  <2>1. \A d \in (target - BackfillDays)..target : d \in Calendar!Days /\ calendar'[d] # Nothing BY <1>4, <1>6
  <2> HIDE DEF target, candidate
  <2> QED BY <1>2, <1>6, <2>1, TaskStep
<1>7. CASE candidate # target /\ Calendar!Call(t, target, candidate + 1)
  <2>1. task'[t] = [pc |-> "ask", target |-> target, candidate |-> candidate + 1]
    BY <1>7 DEF CalendarInv, Calendar!Call
  <2>2. candidate + 1 \in (target - BackfillDays)..target /\ candidate + 1 - 1 = candidate BY <1>2, <1>3, <1>7
  <2>3. Loop(t)'
    <3> HIDE DEF target, candidate
    <3> QED BY <1>2, <1>3, <1>4, <2>1, <2>2 DEF Loop, Passed
  <2> HIDE DEF target, candidate
  <2> QED BY <1>7, <2>3, TaskStep DEF Calendar!Call
<1> QED BY <1>5, <1>6, <1>7 DEF Calendar!Answered

LEMMA WriteStep ==
    ASSUME Calendar!CalendarAssumption, CalendarInv, NEW t \in Tasks, Calendar!Write(t)
    PROVE  CalendarInv'
<1> DEFINE d == task[t].candidate
           row == task[t].row
           new == Calendar!Validated(row, task[t].actual)
<1>1. task[t].pc = "write" BY DEF Calendar!Write
<1>2. /\ Loop(t) /\ task[t].actual \in BOOLEAN
      /\ row # Nothing => row \in Calendar!Row /\ calendar[d] # Nothing
      /\ calendar \in [Calendar!Days -> Calendar!Row \union {Nothing}]
  BY <1>1 DEF CalendarInv
<1>3. d \in Calendar!Days BY <1>2 DEF Loop
<1>4. new \in Calendar!Row BY <1>2, ValidatedIsARow
<1>5. Nothing \notin Calendar!Row BY DEF Calendar!CalendarAssumption
<1>6. ASSUME NEW x \in Calendar!Row, calendar' = [calendar EXCEPT ![d] = x], Calendar!Answered(t, new.status)
      PROVE  CalendarInv'
  <2>1. calendar' \in [Calendar!Days -> Calendar!Row \union {Nothing}] BY <1>2, <1>6
  <2>2. \A e \in Calendar!Days : calendar[e] # Nothing => calendar'[e] # Nothing BY <1>2, <1>3, <1>5, <1>6
  <2>3. calendar'[d] # Nothing BY <1>2, <1>3, <1>5, <1>6
  <2> HIDE DEF new
  <2> QED BY <1>1, <1>6, <2>1, <2>2, <2>3, AnsweredStep
<1>7. CASE row # Nothing /\ calendar' = [calendar EXCEPT ![d] = Calendar!Flushed(row, new, calendar[d])]
           /\ Calendar!Answered(t, new.status)
  <2>1. calendar[d] \in Calendar!Row /\ row \in Calendar!Row BY <1>2, <1>3, <1>7
  <2>2. Calendar!Flushed(row, new, calendar[d]) \in Calendar!Row
    <3> HIDE DEF new, row, d
    <3> QED BY <1>4, <2>1, FlushedIsARow
  <2> QED BY <1>6, <1>7, <2>2
<1>8. CASE calendar' = [calendar EXCEPT ![d] = new] /\ Calendar!Answered(t, new.status)
  BY <1>4, <1>6, <1>8
<1>9. CASE Calendar!Abort(t) /\ UNCHANGED calendar
  BY <1>2, <1>9, TaskStep DEF Calendar!Abort, Calendar!Idle
<1> QED BY <1>7, <1>8, <1>9 DEF Calendar!Write

LEMMA ImportStep ==
    ASSUME Calendar!CalendarAssumption, CalendarInv, Calendar!ImportCommit
    PROVE  CalendarInv'
<1> DEFINE m == import.manifest
           NewRow(d) == IF d \in m.year THEN Calendar!Imported(calendar[d], Calendar!Expected(m)[d])
                        ELSE calendar[d]
<1>1. calendar' = [d \in Calendar!Days |-> NewRow(d)] /\ UNCHANGED task BY DEF Calendar!ImportCommit
<1>2. ASSUME NEW d \in Calendar!Days
      PROVE  /\ d \in m.year => NewRow(d) \in Calendar!Row
             /\ d \notin m.year => NewRow(d) = calendar[d]
  <2>1. CASE d \in m.year
    <3>1. Calendar!Expected(m)[d] \in BOOLEAN BY <2>1 DEF Calendar!Expected
    <3>2. calendar[d] \in Calendar!Row \union {Nothing} BY DEF CalendarInv
    <3>3. Calendar!Imported(calendar[d], Calendar!Expected(m)[d]) \in Calendar!Row
      BY <3>1, <3>2, ImportedIsARow
    <3> QED BY <2>1, <3>3
  <2> QED BY <2>1
<1> HIDE DEF m, NewRow
<1>3. calendar' \in [Calendar!Days -> Calendar!Row \union {Nothing}] BY <1>1, <1>2 DEF CalendarInv
<1>4. \A d \in Calendar!Days : calendar[d] # Nothing => calendar'[d] # Nothing
  BY <1>1, <1>2 DEF Calendar!CalendarAssumption
<1> QED BY <1>1, <1>3, <1>4, RowsStep

(* CalendarInv holds in every state.                                         *)
THEOREM CalendarInvariant ==
    ASSUME Calendar!CalendarAssumption
    PROVE  Calendar!Spec => []CalendarInv
<1>1. Calendar!Init => CalendarInv
  <2> SUFFICES ASSUME Calendar!Init PROVE CalendarInv OBVIOUS
  <2>1. \A d \in Calendar!Days : Calendar!Seed(d) \in Calendar!Row
    BY DEF Calendar!Seed, Calendar!Row, Calendar!Verdict
  <2>2. calendar \in [Calendar!Days -> Calendar!Row \union {Nothing}] BY <2>1 DEF Calendar!Init
  <2> QED BY <2>2 DEF Calendar!Init, Calendar!Idle, CalendarInv
<1>2. CalendarInv /\ [Calendar!Next]_(Calendar!vars) => CalendarInv'
  <2> SUFFICES ASSUME CalendarInv, [Calendar!Next]_(Calendar!vars) PROVE CalendarInv'
    OBVIOUS
  <2>0. calendar \in [Calendar!Days -> Calendar!Row \union {Nothing}] BY DEF CalendarInv
  <2>1. CASE UNCHANGED <<calendar, task>> BY <2>0, <2>1, RowsStep
  <2>2. ASSUME NEW t \in Tasks, Calendar!AskFails(t) \/ Calendar!Finish(t) PROVE CalendarInv'
    BY <2>0, <2>2, TaskStep DEF Calendar!AskFails, Calendar!Finish, Calendar!Abort, Calendar!Idle
  <2>3. ASSUME NEW t \in Tasks, NEW target \in Calendar!Targets, Calendar!Start(t, target)
        PROVE  CalendarInv'
    <3>1. /\ UNCHANGED calendar
          /\ task' = [task EXCEPT ![t] = [pc |-> "ask", target |-> target,
                                          candidate |-> target - BackfillDays]]
      BY <2>3 DEF Calendar!Start, Calendar!Call, Calendar!BackfillStart
    <3>2. target \in Int /\ BackfillDays \in Nat BY WindowsAreDays
    <3>3. task'[t] = [pc |-> "ask", target |-> target, candidate |-> target - BackfillDays]
      BY <3>1 DEF CalendarInv
    <3>4. Loop(t)' BY <3>2, <3>3 DEF Loop, Passed, Calendar!Targets
    <3> QED BY <2>0, <3>1, <3>4, TaskStep
  <2>4. ASSUME NEW t \in Tasks, NEW actual \in BOOLEAN, Calendar!Ask(t, actual) PROVE CalendarInv'
    <3> DEFINE x == [pc |-> "read", target |-> task[t].target, candidate |-> task[t].candidate,
                     actual |-> actual]
    <3>1. task[t].pc = "ask" /\ UNCHANGED calendar /\ task' = [task EXCEPT ![t] = x] BY <2>4 DEF Calendar!Ask
    <3>2. task'[t] = x BY <3>1 DEF CalendarInv
    <3>3. Loop(t)' BY <3>1, <3>2 DEF CalendarInv, Loop, Passed
    <3>4. x.pc = "read" /\ x.actual \in BOOLEAN OBVIOUS
    <3> HIDE DEF x
    <3> QED BY <2>0, <3>1, <3>3, <3>4, TaskStep
  <2>5. ASSUME NEW t \in Tasks, Calendar!Read(t) PROVE CalendarInv'
    <3> DEFINE x == [pc |-> "write", target |-> task[t].target, candidate |-> task[t].candidate,
                     actual |-> task[t].actual, row |-> calendar[task[t].candidate]]
    <3>1. task[t].pc = "read" /\ UNCHANGED calendar /\ task' = [task EXCEPT ![t] = x] BY <2>5 DEF Calendar!Read
    <3>2. task'[t] = x BY <3>1 DEF CalendarInv
    <3>3. Loop(t) /\ task[t].actual \in BOOLEAN BY <3>1 DEF CalendarInv
    <3>4. task[t].candidate \in Calendar!Days BY <3>3 DEF Loop
    <3>5. Loop(t)' BY <3>1, <3>2, <3>3 DEF Loop, Passed
    <3>6. /\ x.pc = "write" /\ x.actual \in BOOLEAN
          /\ x.row # Nothing => x.row \in Calendar!Row /\ calendar'[x.candidate] # Nothing
      BY <2>0, <3>1, <3>3, <3>4
    <3> HIDE DEF x
    <3> QED BY <2>0, <3>1, <3>5, <3>6, TaskStep
  <2>6. CASE Calendar!ImportCommit BY <2>6, ImportStep
  <2>7. CASE Calendar!ImportFails BY <2>1, <2>7 DEF Calendar!ImportFails
  <2>8. ASSUME NEW m \in Manifests, NEW replace_existing \in BOOLEAN,
               Calendar!ImportBegin(m, replace_existing)
        PROVE  CalendarInv'
    BY <2>1, <2>8 DEF Calendar!ImportBegin
  <2>9. CASE UNCHANGED Calendar!vars BY <2>1, <2>9 DEF Calendar!vars
  <2> QED BY <2>2, <2>3, <2>4, <2>5, <2>6, <2>7, <2>8, <2>9, WriteStep DEF Calendar!Next
<1> QED BY <1>1, <1>2, PTL DEF Calendar!Spec

(* A maximum of a set of integers is the one Max chooses.                    *)
LEMMA CalendarMax ==
    ASSUME NEW S \in SUBSET Int, NEW m \in S, \A n \in S : n <= m
    PROVE  Calendar!Max(S) = m
<1>1. \A n \in S : m >= n OBVIOUS
<1>2. ASSUME NEW x \in S, \A n \in S : x >= n PROVE x = m
  <2>1. x \in Int /\ m \in Int /\ x >= m /\ x <= m BY <1>2
  <2> QED BY <2>1
<1> QED BY <1>1, <1>2 DEF Calendar!Max

(* Integers that end somewhere have a last one.                              *)
LEMMA LastBelow ==
    ASSUME NEW S \in SUBSET Int, S # {}, NEW end \in Int, \A n \in S : n <= end
    PROVE  \E m \in S : \A n \in S : n <= m
<1> DEFINE Distances == {end - n : n \in S}
<1>1. Distances \in SUBSET Nat /\ Distances # {}
  <2>1. \A n \in S : end - n \in Nat OBVIOUS
  <2> QED BY <2>1
<1>2. PICK k \in Distances : \A n \in Distances : k <= n
  <2> HIDE DEF Distances
  <2> QED BY <1>1, LeastNatural
<1>3. PICK m \in S : k = end - m OBVIOUS
<1>4. \A n \in S : n <= m BY <1>2, <1>3
<1> QED BY <1>4

(* A predecessor that is returned is the last OPEN day, and the days between *)
(* are CLOSED, so missing and disputed days cannot come between.             *)
LEMMA PredecessorsAreProven ==
    ASSUME Calendar!CalendarAssumption, NEW target \in Calendar!Days,
           Calendar!PreviousOpen(target) # Nothing,
           NEW open \in SUBSET Calendar!Days, Calendar!Possible(open)
    PROVE  Calendar!PreviousOpen(target) = Calendar!Max({d \in open : d < target})
<1> DEFINE before == Calendar!OpenBefore(target)
           previous == Calendar!Max(before)
           choices == {d \in open : d < target}
<1>1. /\ before # {} /\ Calendar!PreviousOpen(target) = previous
      /\ \A d \in Calendar!Days : previous < d /\ d < target => Calendar!Is(d, "CLOSED")
  BY DEF Calendar!PreviousOpen
<1>2. Calendar!Days \subseteq Int BY DEF Calendar!CalendarAssumption
<1>3. /\ before \in SUBSET Int /\ \A d \in before : d <= target
      /\ \A d \in before : d \in Calendar!Days /\ d < target /\ Calendar!Is(d, "OPEN")
  <2>1. \A d \in before : d \in Calendar!Days /\ d < target /\ Calendar!Is(d, "OPEN")
    BY DEF Calendar!OpenBefore
  <2> HIDE DEF before
  <2>2. ASSUME NEW d \in before PROVE d \in Int /\ d <= target
    <3>1. d \in Int /\ target \in Int BY <1>2, <2>1
    <3>2. d < target BY <2>1
    <3> QED BY <3>1, <3>2
  <2> QED BY <2>1, <2>2
<1>4. previous \in before
  <2> HIDE DEF before
  <2>1. PICK m \in before : \A d \in before : d <= m BY <1>1, <1>2, <1>3, LastBelow
  <2> QED BY <1>3, <2>1, CalendarMax
<1> HIDE DEF before, previous
<1>5. previous \in choices
  <2>1. previous \in Calendar!Days /\ previous < target /\ Calendar!Is(previous, "OPEN")
    BY <1>3, <1>4
  <2>2. Calendar!Available(previous) BY <2>1 DEF Calendar!Is, Calendar!Available
  <2> QED BY <2>1, <2>2 DEF Calendar!Possible
<1>6. ASSUME NEW d \in choices PROVE d <= previous
  <2> SUFFICES ASSUME previous < d PROVE FALSE BY <1>2, <1>3, <1>4
  <2>1. Calendar!Is(d, "CLOSED") /\ d \in Calendar!Days BY <1>1
  <2>2. Calendar!Available(d) /\ ~Calendar!Is(d, "OPEN")
    BY <2>1 DEF Calendar!Is, Calendar!Available
  <2> QED BY <2>1, <2>2 DEF Calendar!Possible
<1>7. choices \in SUBSET Int BY <1>2
<1> HIDE DEF choices
<1>8. Calendar!Max(choices) = previous BY <1>5, <1>6, <1>7, CalendarMax
<1> QED BY <1>1, <1>8 DEF choices

(* The predecessor the state engine gets is the last open day before,        *)
(* whatever missing and disputed days turn out to be; and once the           *)
(* validation of an unavailable day is through, the predecessor of the day   *)
(* is found, whatever imports and tasks wrote meanwhile.                     *)
THEOREM ValidationsAreContinuous ==
    ASSUME Calendar!CalendarAssumption
    PROVE  Calendar!Spec => []BackfillProvesContinuity
<1>1. CalendarInv => BackfillProvesContinuity
  <2> SUFFICES ASSUME CalendarInv, NEW t \in Tasks, task[t].pc = "done",
                      Calendar!Is(task[t].target, "OPEN"),
                      NEW open, open = {d \in (task[t].target - BackfillDays)..(task[t].target - 1) :
                                           Calendar!Is(d, "OPEN")},
                      open # {},
                      \A d \in (task[t].target - BackfillDays)..(task[t].target - 1) :
                          ~Calendar!Is(d, "UNKNOWN")
               PROVE  Calendar!PreviousOpen(task[t].target) = Calendar!Max(open)
    BY PredecessorsAreProven DEF BackfillProvesContinuity, Calendar!BackfillProvesContinuity
  <2> DEFINE target == task[t].target
             first == target - BackfillDays
             before == Calendar!OpenBefore(target)
  <2>1. /\ target \in Calendar!Targets
        /\ \A d \in first..target : d \in Calendar!Days /\ calendar[d] # Nothing
    BY DEF CalendarInv
  <2>2. target \in Int /\ BackfillDays \in Nat /\ first \in Int /\ Calendar!Days \subseteq Int
    BY <2>1, WindowsAreDays DEF Calendar!CalendarAssumption
  <2> HIDE DEF target
  <2>3. open \in SUBSET Int /\ open \subseteq first..(target - 1) /\ open \subseteq before
    BY <2>1, <2>2 DEF target, Calendar!OpenBefore
  <2>4. PICK last \in open : \A d \in open : d <= last
    <3>1. IsFiniteSet(first..(target - 1)) BY <2>2, FS_Interval
    <3>2. IsFiniteSet(open) BY <2>3, <3>1, FS_Subset
    <3> QED BY <2>3, <3>2, LastOfFinite
  <2>5. ASSUME NEW d \in before PROVE d <= last
    <3>1. CASE d < first
      <4>1. d \in Int BY <2>2 DEF Calendar!OpenBefore
      <4>2. last \in first..(target - 1) BY <2>3, <2>4
      <4> HIDE DEF first, before
      <4>3. last \in Int /\ first <= last BY <2>2, <4>2
      <4> QED BY <2>2, <3>1, <4>1, <4>3
    <3>2. CASE ~(d < first)
      <4>0. d \in Int /\ d < target /\ Calendar!Is(d, "OPEN") BY <2>2 DEF Calendar!OpenBefore
      <4>1. d \in first..(target - 1) BY <2>2, <3>2, <4>0
      <4>2. d \in open BY <4>0, <4>1 DEF target
      <4> QED BY <2>4, <4>2
    <3> QED BY <3>1, <3>2
  <2>6. Calendar!Max(open) = last BY <2>3, <2>4, CalendarMax
  <2>7. Calendar!Max(before) = last
    <3>1. before \in SUBSET Int /\ last \in before BY <2>2, <2>3 DEF Calendar!OpenBefore
    <3> HIDE DEF before
    <3> QED BY <2>5, <3>1, CalendarMax
  <2>8. ASSUME NEW d \in Calendar!Days, last < d, d < target PROVE Calendar!Is(d, "CLOSED")
    <3>1. d \in first..(target - 1) /\ d \in first..target /\ d \notin open
      BY <2>2, <2>3, <2>4, <2>8
    <3>2. ~Calendar!Is(d, "OPEN") /\ ~Calendar!Is(d, "UNKNOWN") BY <3>1 DEF target
    <3>3. calendar[d] \in Calendar!Row BY <2>1, <3>1 DEF CalendarInv
    <3>4. calendar[d] # Nothing /\ calendar[d].status \in {"OPEN", "CLOSED", "UNKNOWN"}
      BY <2>1, <3>1, <3>3 DEF Calendar!Row
    <3> QED BY <3>2, <3>4 DEF Calendar!Is
  <2>9. before # {} BY <2>3
  <2>10. Calendar!Is(target, "OPEN") BY DEF target
  <2>11. Calendar!PreviousOpen(target) =
           IF \A d \in Calendar!Days : Calendar!Max(before) < d /\ d < target => Calendar!Is(d, "CLOSED")
           THEN Calendar!Max(before) ELSE Nothing
    BY <2>9, <2>10, Zenon DEF Calendar!PreviousOpen
  <2>12. Calendar!PreviousOpen(target) = last
    <3> HIDE DEF before
    <3> QED BY <2>7, <2>8, <2>11
  <2> QED BY <2>6, <2>12 DEF target
<1> QED BY <1>1, CalendarInvariant, PTL

-----------------------------------------------------------------------------
(* Quotes and dividends.                                                     *)

(* The symbols of a sequence of pieces.                                      *)
Covers(pieces) == UNION {Quote!ToSet(pieces[k]) : k \in DOMAIN pieces}

LEMMA MembersOfSeq ==
    ASSUME NEW S, NEW s \in Seq(S)
    PROVE  /\ Quote!ToSet(s) = {s[k] : k \in 1..Len(s)}
           /\ Quote!ToSet(s) \in SUBSET S
           /\ Len(s) = 1 => Quote!ToSet(s) = {s[1]}
<1>1. DOMAIN s = 1..Len(s) /\ Len(s) \in Nat BY LenProperties
<1>2. \A k \in 1..Len(s) : s[k] \in S BY ElementOfSeq
<1> QED BY <1>1, <1>2 DEF Quote!ToSet

LEMMA CoversConcat ==
    ASSUME NEW S, NEW p \in Seq(Seq(S)), NEW q \in Seq(Seq(S))
    PROVE  p \o q \in Seq(Seq(S)) /\ Covers(p \o q) = Covers(p) \union Covers(q)
<1>1. /\ p \o q \in Seq(Seq(S)) /\ Len(p \o q) = Len(p) + Len(q)
      /\ \A k \in 1..(Len(p) + Len(q)) : (p \o q)[k] = IF k <= Len(p) THEN p[k] ELSE q[k - Len(p)]
  BY ConcatProperties
<1>2. /\ Len(p) \in Nat /\ Len(q) \in Nat
      /\ DOMAIN p = 1..Len(p) /\ DOMAIN q = 1..Len(q) /\ DOMAIN (p \o q) = 1..(Len(p) + Len(q))
  BY <1>1, LenProperties
<1>3. ASSUME NEW k \in DOMAIN p PROVE k \in DOMAIN (p \o q) /\ (p \o q)[k] = p[k] BY <1>1, <1>2
<1>4. ASSUME NEW k \in DOMAIN q
      PROVE  Len(p) + k \in DOMAIN (p \o q) /\ (p \o q)[Len(p) + k] = q[k]
  BY <1>1, <1>2
<1>5. ASSUME NEW k \in DOMAIN (p \o q)
      PROVE  \/ k \in DOMAIN p /\ (p \o q)[k] = p[k]
             \/ k - Len(p) \in DOMAIN q /\ (p \o q)[k] = q[k - Len(p)]
  BY <1>1, <1>2
<1>6. Covers(p \o q) \subseteq Covers(p) \union Covers(q) BY <1>5 DEF Covers
<1>7. Covers(p) \subseteq Covers(p \o q) BY <1>3 DEF Covers
<1>8. Covers(q) \subseteq Covers(p \o q) BY <1>4 DEF Covers
<1> QED BY <1>1, <1>6, <1>7, <1>8

LEMMA CoversOne ==
    ASSUME NEW S, NEW s \in Seq(S)
    PROVE  <<s>> \in Seq(Seq(S)) /\ <<s>> # <<>> /\ Covers(<<s>>) = Quote!ToSet(s)
<1>1. DOMAIN <<s>> = {1} /\ <<s>>[1] = s OBVIOUS
<1> QED BY <1>1 DEF Covers

LEMMA CoversNothing == Covers(<<>>) = {} /\ Quote!ToSet(<<>>) = {}
<1>1. DOMAIN <<>> = {} OBVIOUS
<1> QED BY <1>1 DEF Covers, Quote!ToSet

LEMMA CoversHeadTail ==
    ASSUME NEW S, NEW p \in Seq(Seq(S)), p # <<>>
    PROVE  /\ Head(p) \in Seq(S) /\ Tail(p) \in Seq(Seq(S))
           /\ Covers(p) = Quote!ToSet(Head(p)) \union Covers(Tail(p))
<1>1. Head(p) \in Seq(S) /\ Tail(p) \in Seq(Seq(S)) BY HeadTailProperties
<1>2. <<Head(p)>> \in Seq(Seq(S)) /\ Covers(<<Head(p)>>) = Quote!ToSet(Head(p)) BY <1>1, CoversOne
<1>3. p = <<Head(p)>> \o Tail(p)
  <2>1. Len(p) \in Nat \ {0} /\ Len(Tail(p)) = Len(p) - 1 BY HeadTailProperties, EmptySeq
  <2> QED BY <1>1, <2>1
<1>4. Covers(<<Head(p)>> \o Tail(p)) = Quote!ToSet(Head(p)) \union Covers(Tail(p))
  <2> DEFINE first == <<Head(p)>>
             others == Tail(p)
  <2>1. first \in Seq(Seq(S)) /\ others \in Seq(Seq(S)) BY <1>1, <1>2
  <2> HIDE DEF first, others
  <2>2. Covers(first \o others) = Covers(first) \union Covers(others) BY <2>1, CoversConcat
  <2> QED BY <1>2, <2>2 DEF first, others
<1> QED BY <1>1, <1>3, <1>4

(* Halving a piece keeps its symbols.                                        *)
LEMMA HalvesCover ==
    ASSUME NEW S, NEW s \in Seq(S)
    PROVE  Quote!Halves(s) \in Seq(Seq(S)) /\ Quote!Halves(s) # <<>>
           /\ Covers(Quote!Halves(s)) = Quote!ToSet(s)
<1> DEFINE middle == Len(s) \div 2
           left == SubSeq(s, 1, middle)
           right == SubSeq(s, middle + 1, Len(s))
<1>1. Len(s) \in Nat /\ \A k \in 1..Len(s) : s[k] \in S BY LenProperties, ElementOfSeq
<1>2. middle \in Nat /\ middle <= Len(s) BY <1>1
<1> HIDE DEF middle
<1>3. /\ left \in Seq(S) /\ Len(left) = middle /\ \A k \in 1..middle : left[k] = s[k]
  <2>1. \A k \in 1..middle : s[k] \in S BY <1>1, <1>2
  <2>2. /\ left \in Seq(S) /\ Len(left) = IF 1 <= middle THEN middle - 1 + 1 ELSE 0
        /\ \A k \in 1..(middle - 1 + 1) : left[k] = s[1 + k - 1]
    BY <1>2, <2>1, SubSeqProperties
  <2> HIDE DEF left
  <2> QED BY <1>2, <2>2
<1>4. /\ right \in Seq(S) /\ Len(right) = Len(s) - middle
      /\ \A k \in 1..(Len(s) - middle) : right[k] = s[middle + k]
  <2>1. \A k \in (middle + 1)..Len(s) : s[k] \in S BY <1>1, <1>2
  <2>2. /\ right \in Seq(S)
        /\ Len(right) = IF middle + 1 <= Len(s) THEN Len(s) - (middle + 1) + 1 ELSE 0
        /\ \A k \in 1..(Len(s) - (middle + 1) + 1) : right[k] = s[middle + 1 + k - 1]
    BY <1>1, <1>2, <2>1, SubSeqProperties
  <2> HIDE DEF right
  <2> QED BY <1>1, <1>2, <2>2
<1>5. Quote!Halves(s) = <<left, right>> BY DEF Quote!Halves, middle
<1> HIDE DEF left, right
<1>6. Quote!ToSet(s) = Quote!ToSet(left) \union Quote!ToSet(right)
  <2>1. /\ Quote!ToSet(s) = {s[k] : k \in 1..Len(s)}
        /\ Quote!ToSet(left) = {left[k] : k \in 1..middle}
        /\ Quote!ToSet(right) = {right[k] : k \in 1..(Len(s) - middle)}
    BY <1>3, <1>4, MembersOfSeq
  <2>2. \A k \in 1..middle : k \in 1..Len(s) BY <1>1, <1>2
  <2>3. \A k \in 1..(Len(s) - middle) : middle + k \in 1..Len(s) BY <1>1, <1>2
  <2>4. \A k \in 1..Len(s) : k \in 1..middle \/ (k - middle \in 1..(Len(s) - middle) /\ middle + (k - middle) = k)
    BY <1>1, <1>2
  <2>5. Quote!ToSet(left) \subseteq Quote!ToSet(s) BY <1>3, <2>1, <2>2
  <2>6. Quote!ToSet(right) \subseteq Quote!ToSet(s) BY <1>4, <2>1, <2>3
  <2>7. Quote!ToSet(s) \subseteq Quote!ToSet(left) \union Quote!ToSet(right) BY <1>3, <1>4, <2>1, <2>4
  <2> QED BY <2>5, <2>6, <2>7
<1>7. /\ <<left, right>> \in Seq(Seq(S)) /\ <<left, right>> # <<>>
      /\ DOMAIN <<left, right>> = {1, 2} /\ <<left, right>>[1] = left /\ <<left, right>>[2] = right
  BY <1>3, <1>4
<1>8. Covers(<<left, right>>) = Quote!ToSet(left) \union Quote!ToSet(right) BY <1>7 DEF Covers
<1> QED BY <1>5, <1>6, <1>7, <1>8

(* The pieces of a sequence hold all of it.                                  *)
LEMMA QuotientBounds ==
    ASSUME NEW a \in Nat, NEW n \in Nat, n > 0
    PROVE  a \div n \in Nat /\ (a \div n) * n <= a /\ a < (a \div n) * n + n
OBVIOUS

LEMMA QuotientFits ==
    ASSUME NEW p \in Nat, NEW q \in Nat, NEW n \in Nat, n > 0, p * n < q * n + n
    PROVE  p <= q
<1>1. SUFFICES ASSUME q + 1 <= p PROVE FALSE OBVIOUS
<1>2. (q + 1) * n <= p * n BY <1>1
<1>3. (q + 1) * n = q * n + n OBVIOUS
<1>4. p * n \in Nat /\ q * n \in Nat OBVIOUS
<1> QED BY <1>2, <1>3, <1>4

LEMMA MinOfTwo ==
    ASSUME NEW a \in Int, NEW b \in Int
    PROVE  Quote!Min({a, b}) = IF a <= b THEN a ELSE b
<1>1. CASE a <= b
  <2>1. \A x \in {a, b} : (\A y \in {a, b} : x <= y) => x = a BY <1>1
  <2>2. \A y \in {a, b} : a <= y BY <1>1
  <2> QED BY <1>1, <2>1, <2>2 DEF Quote!Min
<1>2. CASE ~(a <= b)
  <2>1. \A x \in {a, b} : (\A y \in {a, b} : x <= y) => x = b BY <1>2
  <2>2. \A y \in {a, b} : b <= y BY <1>2
  <2> QED BY <1>2, <2>1, <2>2 DEF Quote!Min
<1> QED BY <1>1, <1>2

LEMMA ChunksCover ==
    ASSUME NEW S, NEW s \in Seq(S), NEW n \in Nat, n > 0
    PROVE  Quote!Chunks(s, n) \in Seq(Seq(S)) /\ Covers(Quote!Chunks(s, n)) = Quote!ToSet(s)
<1> DEFINE count == (Len(s) + n - 1) \div n
           End(k) == Quote!Min({k * n, Len(s)})
           Piece(k) == SubSeq(s, (k - 1) * n + 1, End(k))
           chunks == Quote!Chunks(s, n)
<1>1. Len(s) \in Nat /\ (\A k \in 1..Len(s) : s[k] \in S) /\ Quote!ToSet(s) = {s[k] : k \in 1..Len(s)}
  BY LenProperties, ElementOfSeq, MembersOfSeq
<1>2. chunks = [k \in 1..count |-> Piece(k)] BY DEF Quote!Chunks
<1>3. Len(s) + n - 1 \in Nat BY <1>1
<1>4. count \in Nat /\ Len(s) + n - 1 < count * n + n BY <1>3, QuotientBounds
<1> HIDE DEF count, chunks
<1>5. ASSUME NEW k \in 1..count
      PROVE  /\ (k - 1) * n \in Nat /\ End(k) \in Int /\ End(k) <= Len(s)
             /\ End(k) = k * n \/ End(k) = Len(s)
             /\ Piece(k) \in Seq(S)
             /\ Quote!ToSet(Piece(k)) = {s[j] : j \in ((k - 1) * n + 1)..End(k)}
  <2>1. k - 1 \in Nat /\ k * n \in Int /\ (k - 1) * n \in Nat BY <1>4
  <2>2. End(k) = IF k * n <= Len(s) THEN k * n ELSE Len(s)
    <3> DEFINE a == k * n
    <3>1. a \in Int /\ End(k) = Quote!Min({a, Len(s)}) BY <2>1
    <3> HIDE DEF a, End
    <3>2. Quote!Min({a, Len(s)}) = IF a <= Len(s) THEN a ELSE Len(s) BY <1>1, <3>1, MinOfTwo
    <3> QED BY <3>1, <3>2 DEF a
  <2>3. End(k) \in Int /\ End(k) <= Len(s) /\ (End(k) = k * n \/ End(k) = Len(s)) BY <1>1, <2>1, <2>2
  <2> DEFINE from == (k - 1) * n + 1
             to == End(k)
  <2>4. from \in Int /\ 1 <= from /\ to \in Int /\ to <= Len(s) BY <2>1, <2>3
  <2> HIDE DEF from, to
  <2>5. \A j \in from..to : j \in 1..Len(s) /\ s[j] \in S BY <1>1, <2>4
  <2>6. /\ SubSeq(s, from, to) \in Seq(S)
        /\ Len(SubSeq(s, from, to)) = IF from <= to THEN to - from + 1 ELSE 0
        /\ \A j \in 1..(to - from + 1) : SubSeq(s, from, to)[j] = s[from + j - 1]
    BY <2>4, <2>5, SubSeqProperties
  <2>7. Quote!ToSet(SubSeq(s, from, to)) =
           {SubSeq(s, from, to)[j] : j \in 1..Len(SubSeq(s, from, to))}
    BY <2>6, MembersOfSeq
  <2>8. \A j \in 1..Len(SubSeq(s, from, to)) :
           from + j - 1 \in from..to /\ SubSeq(s, from, to)[j] = s[from + j - 1]
    BY <2>4, <2>6
  <2>9. \A j \in from..to :
           j - from + 1 \in 1..Len(SubSeq(s, from, to)) /\ SubSeq(s, from, to)[j - from + 1] = s[j]
    BY <2>4, <2>6
  <2>10. Quote!ToSet(SubSeq(s, from, to)) = {s[j] : j \in from..to}
    <3>1. Quote!ToSet(SubSeq(s, from, to)) \subseteq {s[j] : j \in from..to} BY <2>7, <2>8
    <3>2. {s[j] : j \in from..to} \subseteq Quote!ToSet(SubSeq(s, from, to)) BY <2>7, <2>9
    <3> QED BY <3>1, <3>2
  <2> QED BY <2>1, <2>3, <2>6, <2>10 DEF from, to
<1> HIDE DEF End, Piece
<1>6. chunks \in Seq(Seq(S)) /\ DOMAIN chunks = 1..count BY <1>2, <1>4, <1>5
<1>7. Covers(chunks) \subseteq Quote!ToSet(s)
  <2> SUFFICES ASSUME NEW k \in 1..count, NEW x \in Quote!ToSet(Piece(k)) PROVE x \in Quote!ToSet(s)
    BY <1>2, <1>6 DEF Covers
  <2>1. PICK j \in ((k - 1) * n + 1)..End(k) : x = s[j] BY <1>5
  <2>2. (k - 1) * n \in Nat /\ End(k) \in Int /\ End(k) <= Len(s) BY <1>5
  <2>3. j \in 1..Len(s) BY <1>1, <2>2
  <2> QED BY <1>1, <2>1, <2>3
<1>8. ASSUME NEW j \in 1..Len(s) PROVE s[j] \in Covers(chunks)
  <2> DEFINE q == (j - 1) \div n
  <2>1. j - 1 \in Nat BY <1>1
  <2>2. q \in Nat /\ q * n <= j - 1 /\ j - 1 < q * n + n BY <2>1, QuotientBounds
  <2> HIDE DEF q
  <2>3. q * n \in Nat /\ (q + 1) * n = q * n + n BY <2>2
  <2>4. (q + 1) * n < count * n + n
    <3>1. count * n \in Nat BY <1>4
    <3> QED BY <1>1, <1>4, <2>2, <2>3, <3>1
  <2>5. q + 1 <= count BY <1>4, <2>2, <2>4, QuotientFits
  <2>6. q + 1 \in 1..count /\ (q + 1) - 1 = q BY <1>4, <2>2, <2>5
  <2>7. End(q + 1) \in Int /\ (End(q + 1) = (q + 1) * n \/ End(q + 1) = Len(s)) BY <1>5, <2>6
  <2>8. j \in (q * n + 1)..End(q + 1) BY <1>1, <2>2, <2>3, <2>7
  <2>9. Quote!ToSet(Piece(q + 1)) = {s[i] : i \in (q * n + 1)..End(q + 1)}
    <3>1. ((q + 1) - 1) * n = q * n BY <2>6
    <3> QED BY <1>5, <2>6, <3>1
  <2>10. s[j] \in Quote!ToSet(Piece(q + 1)) BY <2>8, <2>9
  <2> QED BY <1>2, <1>6, <2>6, <2>10 DEF Covers
<1>9. Quote!ToSet(s) \subseteq Covers(chunks) BY <1>1, <1>8
<1> QED BY <1>6, <1>7, <1>9 DEF chunks

(* What requests are judged against.                                         *)
World == [known |-> known, defect |-> defect, clock |-> clock, quotes |-> stored["quotes"]]
Worlds == [known : SUBSET Quote!Set, defect : [Quote!Set -> {"none", "invalid", "omitted"}],
           clock : Nat, quotes : [Quote!Set -> Nat]]
Grows(w, v) ==
    /\ v.known = w.known /\ v.defect = w.defect /\ w.clock <= v.clock
    /\ \A s \in Quote!Set : w.quotes[s] <= v.quotes[s]

(* Only well-formed records are held, none older than its request.           *)
Records(r, w) ==
    \A x \in r.staged \union r.pending :
        /\ w.defect[x[1]] = "none" /\ x[1] \in Quote!ToSet(r.symbols)
        /\ r.start <= x[2] /\ x[2] <= w.clock

(* What fetching says of a symbol when nothing fails.                        *)
Said(kind, s, w) ==
    IF w.defect[s] = "invalid" THEN "INVALID_MARKET_DATA"
    ELSE IF w.defect[s] = "omitted" /\ kind = "quotes" THEN "PROVIDER_UNAVAILABLE" ELSE "success"

(* While a request fetches, each of its symbols is reported or still to      *)
(* come; a symbol reported as success has a record that waits to be stored.  *)
Fetching(r, w) ==
    /\ Covers(r.work) \union Covers(r.rest) \union DOMAIN r.items = Quote!ToSet(r.symbols)
    /\ Covers(r.work) \subseteq Quote!ToSet(r.chunk) /\ Quote!ToSet(r.chunk) \subseteq Quote!ToSet(r.symbols)
    /\ \A x \in r.staged : x[1] \in Quote!ToSet(r.chunk)
    /\ \A s \in DOMAIN r.items :
          /\ r.items[s] = "INVALID_MARKET_DATA" => w.defect[s] = "invalid"
          /\ \/ r.kind = "quotes" /\ r.items[s] = "success"
             \/ ~r.faulted /\ w.defect[s] = "none"
             => \E x \in r.staged \union r.pending : x[1] = s
          /\ ~r.faulted => r.items[s] = Said(r.kind, s, w)

(* Once it has fetched, a symbol reported as success has a record that waits *)
(* or is stored; without an outage only an unknown security is refused.      *)
Fetched(r, w) ==
    /\ DOMAIN r.items = Quote!ToSet(r.symbols) /\ r.staged = {}
    /\ r.phase = "done" => r.pending = {}
    /\ \A s \in DOMAIN r.items :
          /\ r.items[s] = "INVALID_MARKET_DATA" => w.defect[s] = "invalid"
          /\ r.kind = "quotes" /\ r.items[s] = "success" =>
                (\E x \in r.pending : x[1] = s) \/ r.start <= w.quotes[s]
          /\ ~r.faulted =>
                IF w.defect[s] = "none"
                THEN /\ s \in w.known => r.items[s] = "success"
                     /\ s \notin w.known => \/ r.items[s] = "PERSISTENCE_ERROR"
                                            \/ \E x \in r.pending : x[1] = s
                ELSE r.items[s] = Said(r.kind, s, w)

RequestInv(r, w) ==
    /\ r \in Quote!Requests /\ r.start <= w.clock /\ Records(r, w)
    /\ r.phase = "fetch" => r.work # <<>> /\ Fetching(r, w)
    /\ r.phase \in {"persist", "isolate", "done"} => Fetched(r, w)
    /\ r.phase = "isolate" => r.pending # {}

Reportable(items) == DOMAIN items \in SUBSET Quote!Set /\ items \in [DOMAIN items -> Quote!Codes]

LEMMA ReportableIsReport == ASSUME NEW items, Reportable(items) PROVE items \in Quote!Reports
BY DEF Reportable, Quote!Reports

Shaped(r) ==
    /\ r.kind \in {"quotes", "dividends"} /\ r.symbols \in Seq(Quote!Set) /\ r.start \in Nat
    /\ r.phase \in {"fetch", "persist", "isolate", "done", "error"}
    /\ r.rest \in Seq(Seq(Quote!Set)) /\ r.work \in Seq(Seq(Quote!Set))
    /\ r.chunk \in Seq(Quote!Set)
    /\ r.staged \in SUBSET (Quote!Set \X Nat) /\ r.pending \in SUBSET (Quote!Set \X Nat)
    /\ \A x \in r.staged \union r.pending : x = <<x[1], x[2]>> /\ x[1] \in Quote!Set /\ x[2] \in Nat
    /\ DOMAIN r.items \in SUBSET Quote!Set /\ Reportable(r.items)
    /\ r.faulted \in BOOLEAN

LEMMA RequestShape == ASSUME NEW r \in Quote!Requests PROVE Shaped(r)
<1>1. PICK D \in SUBSET Quote!Set : r.items \in [D -> Quote!Codes]
  BY DEF Quote!Requests, Quote!Reports
<1>2. DOMAIN r.items = D BY <1>1
<1> QED BY <1>1, <1>2 DEF Quote!Requests, Quote!Kinds, Reportable, Shaped

(* Time and newer quotes keep what is known of a request.                    *)
LEMMA GrowingKeeps ==
    ASSUME NEW w \in Worlds, NEW v \in Worlds, Grows(w, v), NEW r, RequestInv(r, w)
    PROVE  RequestInv(r, v)
<1>0. Shaped(r) BY RequestShape DEF RequestInv
<1>1. r \in Quote!Requests /\ r.start \in Nat BY <1>0 DEF RequestInv, Shaped
<1>2. \A x \in r.staged \union r.pending : x[2] \in Nat BY <1>0 DEF Shaped
<1>3. w.clock \in Nat /\ v.clock \in Nat /\ w.clock <= v.clock /\ v.defect = w.defect /\ v.known = w.known
  BY DEF Worlds, Grows
<1>4. r.start <= v.clock /\ Records(r, v) BY <1>1, <1>2, <1>3 DEF RequestInv, Records
<1>5. Fetching(r, w) => Fetching(r, v) BY <1>3 DEF Fetching, Said
<1>6. Fetched(r, w) => Fetched(r, v)
  <2> SUFFICES ASSUME Fetched(r, w) PROVE Fetched(r, v) OBVIOUS
  <2>1. DOMAIN r.items \in SUBSET Quote!Set BY <1>0 DEF Shaped
  <2>2. \A s \in DOMAIN r.items : r.start <= w.quotes[s] => r.start <= v.quotes[s]
    <3>1. \A s \in Quote!Set : w.quotes[s] \in Nat /\ v.quotes[s] \in Nat /\ w.quotes[s] <= v.quotes[s]
      BY DEF Worlds, Grows
    <3> QED BY <1>1, <2>1, <3>1
  <2>3. \A s \in DOMAIN r.items : Said(r.kind, s, v) = Said(r.kind, s, w) BY <1>3 DEF Said
  <2> QED BY <1>3, <2>2, <2>3 DEF Fetched
<1> QED BY <1>1, <1>4, <1>5, <1>6 DEF RequestInv

(* The next chunk, or the end of fetching.                                   *)
LEMMA AdvanceKeeps ==
    ASSUME NEW w \in Worlds, NEW r \in Quote!Requests, r.phase = "fetch", r.start <= w.clock,
           Records(r, w), Fetching(r, w)
    PROVE  LET x == Quote!Advance(r)
           IN RequestInv(x, w) /\ x.kind = r.kind /\ x.symbols = r.symbols /\ x.start = r.start
<1>0. Shaped(r) BY RequestShape
<1> USE <1>0 DEF Shaped
<1>1. CASE r.work # <<>> BY <1>1 DEF Quote!Advance, RequestInv
<1>2. CASE r.work = <<>> /\ r.rest # <<>>
  <2> DEFINE x == [r EXCEPT !.work = <<Head(r.rest)>>, !.chunk = Head(r.rest), !.rest = Tail(r.rest),
                            !.pending = @ \union r.staged, !.staged = {}]
  <2>1. Quote!Advance(r) = x BY <1>2 DEF Quote!Advance
  <2>2. /\ Head(r.rest) \in Seq(Quote!Set) /\ Tail(r.rest) \in Seq(Seq(Quote!Set))
        /\ Covers(r.rest) = Quote!ToSet(Head(r.rest)) \union Covers(Tail(r.rest))
    BY <1>2, CoversHeadTail
  <2>3. /\ <<Head(r.rest)>> \in Seq(Seq(Quote!Set)) /\ <<Head(r.rest)>> # <<>>
        /\ Covers(<<Head(r.rest)>>) = Quote!ToSet(Head(r.rest))
    BY <2>2, CoversOne
  <2>4. Covers(r.work) = {} BY <1>2, CoversNothing
  <2>5. x \in Quote!Requests BY <2>2, <2>3 DEF Quote!Requests
  <2>6. /\ x.kind = r.kind /\ x.symbols = r.symbols /\ x.start = r.start /\ x.phase = "fetch"
        /\ x.rest = Tail(r.rest) /\ x.work = <<Head(r.rest)>> /\ x.chunk = Head(r.rest)
        /\ x.pending = r.pending \union r.staged /\ x.staged = {} /\ x.items = r.items
        /\ x.faulted = r.faulted
    BY DEF Quote!Requests
  <2> HIDE DEF x
  <2>7. x.staged \union x.pending = r.staged \union r.pending BY <2>6
  <2>8. Records(x, w) BY <2>6, <2>7 DEF Records
  <2>9. Fetching(x, w)
    <3>1. /\ Covers(x.work) \union Covers(x.rest) \union DOMAIN x.items = Quote!ToSet(x.symbols)
          /\ Covers(x.work) \subseteq Quote!ToSet(x.chunk)
          /\ Quote!ToSet(x.chunk) \subseteq Quote!ToSet(x.symbols)
      BY <2>2, <2>3, <2>4, <2>6 DEF Fetching
    <3>2. \A s \in DOMAIN x.items : x.items[s] = r.items[s] BY <2>6
    <3>3. \A y \in x.staged : y[1] \in Quote!ToSet(x.chunk) BY <2>6
    <3>4. ASSUME NEW s \in DOMAIN x.items
          PROVE  /\ x.items[s] = "INVALID_MARKET_DATA" => w.defect[s] = "invalid"
                 /\ \/ x.kind = "quotes" /\ x.items[s] = "success"
                    \/ ~x.faulted /\ w.defect[s] = "none"
                    => \E y \in x.staged \union x.pending : y[1] = s
                 /\ ~x.faulted => x.items[s] = Said(x.kind, s, w)
      BY <2>6, <2>7, <3>2 DEF Fetching
    <3> QED BY <3>1, <3>3, <3>4 DEF Fetching
  <2> QED BY <2>1, <2>3, <2>5, <2>6, <2>8, <2>9 DEF RequestInv
<1>3. CASE r.work = <<>> /\ r.rest = <<>>
  <2> DEFINE x == [r EXCEPT !.phase = "persist", !.pending = @ \union r.staged, !.staged = {}]
  <2>1. Quote!Advance(r) = x BY <1>3 DEF Quote!Advance
  <2>2. Covers(r.work) = {} /\ Covers(r.rest) = {} BY <1>3, CoversNothing
  <2>3. x \in Quote!Requests BY DEF Quote!Requests
  <2>4. /\ x.kind = r.kind /\ x.symbols = r.symbols /\ x.start = r.start /\ x.phase = "persist"
        /\ x.pending = r.pending \union r.staged /\ x.staged = {} /\ x.items = r.items
        /\ x.faulted = r.faulted
    BY DEF Quote!Requests
  <2> HIDE DEF x
  <2>5. x.staged \union x.pending = r.staged \union r.pending /\ x.pending = r.staged \union r.pending BY <2>4
  <2>6. Records(x, w) BY <2>4, <2>5 DEF Records
  <2>7. Fetched(x, w)
    <3>1. DOMAIN x.items = Quote!ToSet(x.symbols) BY <2>2, <2>4 DEF Fetching
    <3>2. ASSUME NEW s \in DOMAIN x.items
          PROVE  /\ x.items[s] = "INVALID_MARKET_DATA" => w.defect[s] = "invalid"
                 /\ x.kind = "quotes" /\ x.items[s] = "success" => \E y \in x.pending : y[1] = s
                 /\ ~x.faulted /\ w.defect[s] = "none" =>
                       x.items[s] = "success" /\ \E y \in x.pending : y[1] = s
                 /\ ~x.faulted => x.items[s] = Said(x.kind, s, w)
      BY <2>4, <2>5, <3>2 DEF Fetching, Said
    <3> QED BY <2>4, <3>1, <3>2 DEF Fetched
  <2> QED BY <2>1, <2>3, <2>4, <2>6, <2>7 DEF RequestInv
<1> QED BY <1>1, <1>2, <1>3

LEMMA ReportIsReportable ==
    ASSUME NEW items, Reportable(items), NEW S \in SUBSET Quote!Set, NEW code \in Quote!Codes
    PROVE  Reportable(Quote!Report(items, S, code))
<1> DEFINE f == Quote!Report(items, S, code)
<1>1. f = [s \in S \union DOMAIN items |-> IF s \in S THEN code ELSE items[s]] BY DEF Quote!Report
<1>2. \A s \in S \union DOMAIN items : (IF s \in S THEN code ELSE items[s]) \in Quote!Codes
  BY DEF Reportable
<1> HIDE DEF f
<1>3. DOMAIN f = S \union DOMAIN items /\ f \in [DOMAIN f -> Quote!Codes] BY <1>1, <1>2
<1>4. Reportable(f) BY <1>3 DEF Reportable
<1> QED BY <1>4 DEF f

LEMMA ReportDomain ==
    ASSUME NEW items, NEW S, NEW code
    PROVE  DOMAIN Quote!Report(items, S, code) = S \union DOMAIN items
BY DEF Quote!Report

LEMMA ReportValues ==
    ASSUME NEW items, NEW S, NEW code
    PROVE  \A s \in S \union DOMAIN items :
              Quote!Report(items, S, code)[s] = IF s \in S THEN code ELSE items[s]
BY DEF Quote!Report

(* A new request covers its symbols.                                         *)
LEMMA NewRequestKeeps ==
    ASSUME Quote!QuoteAssumption, World \in Worlds, NEW kind \in {"quotes", "dividends"},
           NEW symbols \in Seq(Quote!Set)
    PROVE  LET x == Quote!Advance(Quote!NewRequest(kind, symbols))
           IN RequestInv(x, World) /\ x.kind = kind /\ x.symbols = symbols /\ x.start = clock
<1> DEFINE r == Quote!NewRequest(kind, symbols)
           size == IF kind = "quotes" THEN ChunkSize ELSE 1
<1>1. size \in Nat /\ size > 0 BY DEF Quote!QuoteAssumption
<1>2. /\ Quote!Chunks(symbols, size) \in Seq(Seq(Quote!Set))
      /\ Covers(Quote!Chunks(symbols, size)) = Quote!ToSet(symbols)
  BY <1>1, ChunksCover
<1>3. /\ r.kind = kind /\ r.symbols = symbols /\ r.start = clock /\ r.phase = "fetch"
      /\ r.rest = Quote!Chunks(symbols, size) /\ r.work = <<>> /\ r.chunk = <<>> /\ r.staged = {}
      /\ r.pending = {} /\ r.items = [s \in {} |-> ""] /\ r.faulted = FALSE
  BY DEF Quote!NewRequest
<1>4. clock \in Nat /\ World.clock = clock BY DEF Worlds, World
<1>5. <<>> \in Seq(Quote!Set) /\ <<>> \in Seq(Seq(Quote!Set)) BY EmptySeq
<1>6. [s \in {} |-> ""] \in [{} -> Quote!Codes] OBVIOUS
<1>7. r \in Quote!Requests
  <2>1. [s \in {} |-> ""] \in Quote!Reports BY <1>6 DEF Quote!Reports
  <2>2. r = [kind |-> kind, symbols |-> symbols, start |-> clock, phase |-> "fetch",
             rest |-> Quote!Chunks(symbols, size), work |-> <<>>, chunk |-> <<>>, staged |-> {},
             pending |-> {}, items |-> [s \in {} |-> ""], faulted |-> FALSE]
    BY DEF Quote!NewRequest
  <2> HIDE DEF r, size
  <2> QED BY <1>2, <1>4, <1>5, <2>1, <2>2 DEF Quote!Requests, Quote!Kinds
<1> HIDE DEF r, size
<1>8. Covers(r.work) = {} /\ Quote!ToSet(r.chunk) = {} BY <1>3, CoversNothing
<1>9. DOMAIN r.items = {} BY <1>3
<1>10. Records(r, World) BY <1>3 DEF Records
<1>11. Fetching(r, World) BY <1>2, <1>3, <1>8, <1>9 DEF Fetching
<1>12. r.start <= World.clock BY <1>3, <1>4
<1> QED BY <1>3, <1>7, <1>10, <1>11, <1>12, AdvanceKeeps DEF r

(* The pieces of a chunk: a piece with a malformed record is halved, or its  *)
(* symbol reported; any other is accepted whole.                             *)
LEMMA FetchKeeps ==
    ASSUME World \in Worlds, NEW r, RequestInv(r, World), r.phase = "fetch"
    PROVE  LET piece == Head(r.work)
               x == Quote!Advance(IF \E s \in Quote!ToSet(piece) : defect[s] = "invalid"
                                  THEN Quote!Isolate(r, piece) ELSE Quote!Accept(r, piece))
           IN RequestInv(x, World) /\ x.kind = r.kind /\ x.symbols = r.symbols /\ x.start = r.start
<1> DEFINE piece == Head(r.work)
           S == Quote!ToSet(piece)
<1>0. World.defect = defect /\ World.clock = clock /\ World.known = known /\ clock \in Nat
      /\ defect \in [Quote!Set -> {"none", "invalid", "omitted"}]
  BY DEF World, Worlds
<1>1. /\ r \in Quote!Requests /\ r.work # <<>> /\ r.start <= World.clock /\ Records(r, World)
      /\ Fetching(r, World)
  BY DEF RequestInv
<1>shape. Shaped(r) BY <1>1, RequestShape
<1> USE <1>1, <1>shape DEF Shaped
<1>2. /\ piece \in Seq(Quote!Set) /\ Tail(r.work) \in Seq(Seq(Quote!Set))
      /\ Covers(r.work) = S \union Covers(Tail(r.work))
  BY CoversHeadTail
<1>3. S \in SUBSET Quote!Set /\ (Len(piece) = 1 => S = {piece[1]}) BY <1>2, MembersOfSeq
<1>4. S \subseteq Quote!ToSet(r.chunk) /\ S \subseteq Quote!ToSet(r.symbols) BY <1>2 DEF Fetching
<1> HIDE DEF piece, S
<1>5. ASSUME NEW x \in Quote!Requests, x.phase = "fetch", x.start = r.start, x.kind = r.kind,
             x.symbols = r.symbols, Records(x, World), Fetching(x, World)
      PROVE  LET y == Quote!Advance(x)
             IN RequestInv(y, World) /\ y.kind = r.kind /\ y.symbols = r.symbols /\ y.start = r.start
  BY <1>5, AdvanceKeeps
<1>6. CASE \E s \in S : defect[s] = "invalid"
  <2>1. CASE Len(piece) = 1
    <3> DEFINE items == Quote!Report(r.items, S, "INVALID_MARKET_DATA")
               x == [r EXCEPT !.work = Tail(@), !.items = items]
    <3>1. Quote!Isolate(r, piece) = x BY <2>1 DEF Quote!Isolate, S
    <3>2. \A s \in S : defect[s] = "invalid" BY <1>3, <1>6, <2>1
    <3>3. /\ DOMAIN items = S \union DOMAIN r.items
          /\ items \in Quote!Reports
          /\ \A s \in S \union DOMAIN r.items :
                items[s] = IF s \in S THEN "INVALID_MARKET_DATA" ELSE r.items[s]
      <4>1. "INVALID_MARKET_DATA" \in Quote!Codes BY DEF Quote!Codes
      <4> DEFINE old == r.items
      <4>2. Reportable(old) OBVIOUS
      <4> HIDE DEF old
      <4>3. Reportable(Quote!Report(old, S, "INVALID_MARKET_DATA")) BY <1>3, <4>1, <4>2, ReportIsReportable
      <4>4. DOMAIN Quote!Report(old, S, "INVALID_MARKET_DATA") = S \union DOMAIN old BY ReportDomain
      <4>5. \A s \in S \union DOMAIN old :
                 Quote!Report(old, S, "INVALID_MARKET_DATA")[s] = IF s \in S THEN "INVALID_MARKET_DATA" ELSE old[s]
        BY ReportValues
      <4> QED BY <4>3, <4>4, <4>5, ReportableIsReport DEF old
    <3> HIDE DEF items
    <3>4. x \in Quote!Requests BY <1>2, <3>3 DEF Quote!Requests
    <3>5. /\ x.kind = r.kind /\ x.symbols = r.symbols /\ x.start = r.start /\ x.phase = "fetch"
          /\ x.rest = r.rest /\ x.work = Tail(r.work) /\ x.chunk = r.chunk
          /\ x.pending = r.pending /\ x.staged = r.staged /\ x.items = items /\ x.faulted = r.faulted
      BY DEF Quote!Requests
    <3> HIDE DEF x
    <3>6. Records(x, World) BY <3>5 DEF Records
    <3>7. Fetching(x, World)
      <4>1. /\ Covers(x.work) \union Covers(x.rest) \union DOMAIN x.items = Quote!ToSet(x.symbols)
            /\ Covers(x.work) \subseteq Quote!ToSet(x.chunk)
            /\ Quote!ToSet(x.chunk) \subseteq Quote!ToSet(x.symbols)
            /\ \A y \in x.staged : y[1] \in Quote!ToSet(x.chunk)
        BY <1>2, <3>3, <3>5 DEF Fetching
      <4>2. \A s \in DOMAIN x.items :
               /\ x.items[s] = "INVALID_MARKET_DATA" => World.defect[s] = "invalid"
               /\ \/ x.kind = "quotes" /\ x.items[s] = "success"
                  \/ ~x.faulted /\ World.defect[s] = "none"
                  => \E y \in x.staged \union x.pending : y[1] = s
               /\ ~x.faulted => x.items[s] = Said(x.kind, s, World)
        BY <1>0, <3>2, <3>3, <3>5 DEF Fetching, Said
      <4> QED BY <4>1, <4>2 DEF Fetching
    <3> QED BY <1>5, <1>6, <3>1, <3>4, <3>5, <3>6, <3>7 DEF piece, S
  <2>2. CASE Len(piece) # 1
    <3> DEFINE x == [r EXCEPT !.work = Quote!Halves(piece) \o Tail(@)]
               work == Quote!Halves(piece) \o Tail(r.work)
    <3>1. Quote!Isolate(r, piece) = x BY <2>2 DEF Quote!Isolate
    <3>2. Quote!Halves(piece) \in Seq(Seq(Quote!Set)) /\ Covers(Quote!Halves(piece)) = S
      BY <1>2, HalvesCover DEF S
    <3>3. work \in Seq(Seq(Quote!Set)) /\ Covers(work) = Covers(r.work)
      <4> DEFINE halves == Quote!Halves(piece)
                 others == Tail(r.work)
      <4>1. halves \in Seq(Seq(Quote!Set)) /\ others \in Seq(Seq(Quote!Set)) BY <1>2, <3>2
      <4> HIDE DEF halves, others
      <4>2. /\ halves \o others \in Seq(Seq(Quote!Set))
            /\ Covers(halves \o others) = Covers(halves) \union Covers(others)
        BY <4>1, CoversConcat
      <4> QED BY <1>2, <3>2, <4>2 DEF halves, others
    <3>4. x.work = work BY DEF Quote!Requests
    <3> HIDE DEF work
    <3>5. x = [r EXCEPT !.work = work] BY DEF work
    <3>6. x \in Quote!Requests BY <3>3, <3>5 DEF Quote!Requests
    <3>7. /\ x.kind = r.kind /\ x.symbols = r.symbols /\ x.start = r.start /\ x.phase = "fetch"
          /\ x.rest = r.rest /\ x.chunk = r.chunk
          /\ x.pending = r.pending /\ x.staged = r.staged /\ x.items = r.items /\ x.faulted = r.faulted
      BY DEF Quote!Requests
    <3> HIDE DEF x
    <3>8. Records(x, World) BY <3>7 DEF Records
    <3>9. Fetching(x, World) BY <3>3, <3>4, <3>7 DEF Fetching
    <3> QED BY <1>5, <1>6, <3>1, <3>6, <3>7, <3>8, <3>9 DEF piece, S
  <2> QED BY <2>1, <2>2
<1>7. CASE ~\E s \in S : defect[s] = "invalid"
  <2> DEFINE answered == {s \in S : defect[s] = "none"}
             silent == S \ answered
             code == IF r.kind = "quotes" THEN "PROVIDER_UNAVAILABLE" ELSE "success"
             reported == Quote!Report(r.items, answered, "success")
             items == Quote!Report(reported, silent, code)
             staged == {<<s, clock>> : s \in answered}
             x == [r EXCEPT !.work = Tail(@), !.staged = @ \union staged, !.items = items]
  <2>1. Quote!Accept(r, piece) = x BY DEF Quote!Accept, S
  <2>2. answered \in SUBSET Quote!Set /\ silent \in SUBSET Quote!Set /\ answered \union silent = S BY <1>3
  <2>3. \A s \in silent : defect[s] = "omitted" BY <1>0, <1>3, <1>7
  <2>4. "success" \in Quote!Codes /\ code \in Quote!Codes BY DEF Quote!Codes
  <2>5. /\ Reportable(reported) /\ DOMAIN reported = answered \union DOMAIN r.items
        /\ \A s \in answered \union DOMAIN r.items :
              reported[s] = IF s \in answered THEN "success" ELSE r.items[s]
    <3> DEFINE old == r.items
    <3>1. Reportable(old) OBVIOUS
    <3> HIDE DEF answered, old
    <3>2. Reportable(Quote!Report(old, answered, "success")) BY <2>2, <2>4, <3>1, ReportIsReportable
    <3>3. DOMAIN Quote!Report(old, answered, "success") = answered \union DOMAIN old BY ReportDomain
    <3>4. \A s \in answered \union DOMAIN old :
               Quote!Report(old, answered, "success")[s] = IF s \in answered THEN "success" ELSE old[s]
      BY ReportValues
    <3> QED BY <3>2, <3>3, <3>4 DEF old
  <2>6. /\ DOMAIN items = silent \union DOMAIN reported /\ items \in Quote!Reports
        /\ \A s \in silent \union DOMAIN reported : items[s] = IF s \in silent THEN code ELSE reported[s]
    <3> HIDE DEF silent, code, reported
    <3>1. Reportable(Quote!Report(reported, silent, code)) BY <2>2, <2>4, <2>5, ReportIsReportable
    <3>2. DOMAIN Quote!Report(reported, silent, code) = silent \union DOMAIN reported BY ReportDomain
    <3>3. \A s \in silent \union DOMAIN reported :
               Quote!Report(reported, silent, code)[s] = IF s \in silent THEN code ELSE reported[s]
      BY ReportValues
    <3> QED BY <3>1, <3>2, <3>3, ReportableIsReport
  <2>8. /\ DOMAIN items = S \union DOMAIN r.items
        /\ \A s \in S \union DOMAIN r.items :
              items[s] = IF s \in silent THEN code ELSE IF s \in answered THEN "success" ELSE r.items[s]
    <3> HIDE DEF answered, silent, code, reported, items
    <3> QED BY <2>2, <2>5, <2>6
  <2>9. staged \in SUBSET (Quote!Set \X Nat) BY <1>0, <2>2
  <2>10. \A y \in staged : y[1] \in answered /\ y[2] = clock OBVIOUS
  <2>11. \A s \in answered : <<s, clock>> \in staged /\ <<s, clock>>[1] = s OBVIOUS
  <2>12. \A s \in answered : defect[s] = "none" /\ s \in S OBVIOUS
  <2>13. \A s \in S : s \in silent \/ s \in answered OBVIOUS
  <2> HIDE DEF items, staged, answered, silent
  <2>14. x \in Quote!Requests BY <1>2, <2>6, <2>9 DEF Quote!Requests
  <2>15. /\ x.kind = r.kind /\ x.symbols = r.symbols /\ x.start = r.start /\ x.phase = "fetch"
         /\ x.rest = r.rest /\ x.work = Tail(r.work) /\ x.chunk = r.chunk
         /\ x.pending = r.pending /\ x.staged = r.staged \union staged /\ x.items = items
         /\ x.faulted = r.faulted
    BY DEF Quote!Requests
  <2> HIDE DEF x
  <2>16. Records(x, World)
    <3> SUFFICES ASSUME NEW y \in x.staged \union x.pending
                 PROVE  /\ World.defect[y[1]] = "none" /\ y[1] \in Quote!ToSet(x.symbols)
                        /\ x.start <= y[2] /\ y[2] <= World.clock
      BY DEF Records
    <3>1. CASE y \in staged BY <1>0, <1>4, <2>10, <2>12, <2>15, <3>1
    <3>2. CASE y \in r.staged \union r.pending BY <2>15, <3>2 DEF Records
    <3> QED BY <2>15, <3>1, <3>2
  <2>17. Fetching(x, World)
    <3>1. /\ Covers(x.work) \union Covers(x.rest) \union DOMAIN x.items = Quote!ToSet(x.symbols)
          /\ Covers(x.work) \subseteq Quote!ToSet(x.chunk)
          /\ Quote!ToSet(x.chunk) \subseteq Quote!ToSet(x.symbols)
      BY <1>2, <2>8, <2>15 DEF Fetching
    <3>2. \A y \in x.staged : y[1] \in Quote!ToSet(x.chunk)
      BY <1>4, <2>10, <2>12, <2>15 DEF Fetching
    <3>3. ASSUME NEW s \in DOMAIN x.items
          PROVE  /\ x.items[s] = "INVALID_MARKET_DATA" => World.defect[s] = "invalid"
                 /\ \/ x.kind = "quotes" /\ x.items[s] = "success"
                    \/ ~x.faulted /\ World.defect[s] = "none"
                    => \E y \in x.staged \union x.pending : y[1] = s
                 /\ ~x.faulted => x.items[s] = Said(x.kind, s, World)
      <4>1. CASE s \in silent BY <1>0, <2>3, <2>8, <2>15, <4>1 DEF Said
      <4>2. CASE s \in answered /\ s \notin silent
        <5>1. x.items[s] = "success" BY <2>8, <2>15, <4>2
        <5>2. \E y \in x.staged \union x.pending : y[1] = s BY <2>11, <2>15, <4>2
        <5> QED BY <1>0, <2>12, <4>2, <5>1, <5>2 DEF Said
      <4>3. CASE s \notin S
        <5>1. s \in DOMAIN r.items /\ x.items[s] = r.items[s] BY <2>2, <2>8, <2>15, <4>3
        <5> QED BY <2>15, <5>1 DEF Fetching
      <4> QED BY <2>13, <4>1, <4>2, <4>3
    <3> QED BY <3>1, <3>2, <3>3 DEF Fetching
  <2> QED BY <1>5, <1>7, <2>1, <2>14, <2>15, <2>16, <2>17 DEF piece, S
<1> QED BY <1>6, <1>7 DEF piece, S

(* An outage fails the whole chunk and forgets what it had staged.           *)
LEMMA OutageKeeps ==
    ASSUME World \in Worlds, NEW r, RequestInv(r, World), r.phase = "fetch"
    PROVE  LET x == Quote!Advance([r EXCEPT !.work = <<>>, !.staged = {}, !.faulted = TRUE,
                                 !.items = Quote!Report(@, Quote!ToSet(r.chunk), "PROVIDER_UNAVAILABLE")])
           IN RequestInv(x, World) /\ x.kind = r.kind /\ x.symbols = r.symbols /\ x.start = r.start
<1> DEFINE S == Quote!ToSet(r.chunk)
           items == Quote!Report(r.items, S, "PROVIDER_UNAVAILABLE")
           x == [r EXCEPT !.work = <<>>, !.staged = {}, !.faulted = TRUE, !.items = items]
<1>1. r \in Quote!Requests /\ r.start <= World.clock /\ Records(r, World) /\ Fetching(r, World)
  BY DEF RequestInv
<1>shape. Shaped(r) BY <1>1, RequestShape
<1> USE <1>1, <1>shape DEF Shaped
<1>2. S \in SUBSET Quote!Set BY MembersOfSeq
<1>3. /\ DOMAIN items = S \union DOMAIN r.items
      /\ items \in Quote!Reports
      /\ \A s \in S \union DOMAIN r.items :
            items[s] = IF s \in S THEN "PROVIDER_UNAVAILABLE" ELSE r.items[s]
  <2>1. "PROVIDER_UNAVAILABLE" \in Quote!Codes BY DEF Quote!Codes
  <2> DEFINE old == r.items
  <2>2. Reportable(old) OBVIOUS
  <2> HIDE DEF S, old
  <2>3. Reportable(Quote!Report(old, S, "PROVIDER_UNAVAILABLE")) BY <1>2, <2>1, <2>2, ReportIsReportable
  <2>4. DOMAIN Quote!Report(old, S, "PROVIDER_UNAVAILABLE") = S \union DOMAIN old BY ReportDomain
  <2>5. \A s \in S \union DOMAIN old :
             Quote!Report(old, S, "PROVIDER_UNAVAILABLE")[s] = IF s \in S THEN "PROVIDER_UNAVAILABLE" ELSE old[s]
    BY ReportValues
  <2> QED BY <2>3, <2>4, <2>5, ReportableIsReport DEF old
<1> HIDE DEF items
<1>4. x \in Quote!Requests BY <1>3, EmptySeq DEF Quote!Requests
<1>5. /\ x.kind = r.kind /\ x.symbols = r.symbols /\ x.start = r.start /\ x.phase = "fetch"
      /\ x.rest = r.rest /\ x.work = <<>> /\ x.chunk = r.chunk
      /\ x.pending = r.pending /\ x.staged = {} /\ x.items = items /\ x.faulted = TRUE
  BY DEF Quote!Requests
<1> HIDE DEF x
<1>6. Records(x, World) BY <1>5 DEF Records
<1>7. Covers(x.work) = {} BY <1>5, CoversNothing
<1>8. Fetching(x, World)
  <2>1. /\ Covers(x.work) \union Covers(x.rest) \union DOMAIN x.items = Quote!ToSet(x.symbols)
        /\ Covers(x.work) \subseteq Quote!ToSet(x.chunk)
        /\ Quote!ToSet(x.chunk) \subseteq Quote!ToSet(x.symbols)
    BY <1>3, <1>5, <1>7 DEF Fetching
  <2>2. ASSUME NEW s \in DOMAIN x.items
        PROVE  /\ x.items[s] = "INVALID_MARKET_DATA" => World.defect[s] = "invalid"
               /\ x.kind = "quotes" /\ x.items[s] = "success" =>
                     \E y \in x.staged \union x.pending : y[1] = s
    <3>1. CASE s \in S BY <1>3, <1>5, <3>1
    <3>2. CASE s \notin S
      <4>1. s \in DOMAIN r.items /\ x.items[s] = r.items[s] BY <1>3, <1>5, <3>2
      <4>2. \A y \in r.staged : y[1] # s BY <3>2 DEF Fetching
      <4> QED BY <1>5, <4>1, <4>2 DEF Fetching
    <3> QED BY <3>1, <3>2
  <2> QED BY <1>5, <2>1, <2>2 DEF Fetching
<1>9. /\ RequestInv(Quote!Advance(x), World) /\ Quote!Advance(x).kind = r.kind
      /\ Quote!Advance(x).symbols = r.symbols /\ Quote!Advance(x).start = r.start
  BY <1>4, <1>5, <1>6, <1>8, AdvanceKeeps
<1> QED BY <1>9 DEF x, items

(* Writing records keeps every symbol's newest quote at least as new, and    *)
(* stores a quote of each record.                                            *)
LEMMA QuoteMax ==
    ASSUME NEW S \in SUBSET Nat, IsFiniteSet(S), S # {}
    PROVE  Quote!Max(S) \in S /\ \A n \in S : n <= Quote!Max(S)
<1>1. \E m \in S : \A n \in S : n <= m BY LastOfFinite
<1> QED BY <1>1 DEF Quote!Max

Timely(records, w) ==
    /\ records \in SUBSET (Quote!Set \X Nat)
    /\ \A x \in records : x[2] <= w.clock

LEMMA TimesOfRecords ==
    ASSUME World \in Worlds, NEW records, Timely(records, World), NEW s
    PROVE  LET times == {x[2] : x \in {x \in records : x[1] = s}}
           IN /\ times \in SUBSET Nat /\ IsFiniteSet(times)
              /\ \A x \in records : x[1] = s => x[2] \in times
<1> DEFINE times == {x[2] : x \in {x \in records : x[1] = s}}
<1>1. clock \in Nat /\ World.clock = clock BY DEF World, Worlds
<1>2. \A x \in records : x[2] \in Nat /\ x[2] <= clock BY <1>1 DEF Timely
<1>3. times \in SUBSET (0..clock) BY <1>1, <1>2
<1>4. IsFiniteSet(0..clock) BY <1>1, FS_Interval
<1>5. IsFiniteSet(times) BY <1>3, <1>4, FS_Subset
<1> QED BY <1>1, <1>3, <1>5

Stores == stored \in [Quote!Kinds -> [Quote!Set -> Nat]]

LEMMA UpsertKeeps ==
    ASSUME World \in Worlds, Stores, NEW kind \in Quote!Kinds, NEW records, Timely(records, World),
           Quote!Upsert(kind, records)
    PROVE  /\ Stores'
           /\ \A s \in Quote!Set : stored["quotes"][s] <= stored'["quotes"][s]
           /\ kind = "quotes" => \A x \in records : x[2] <= stored'["quotes"][x[1]]
<1> DEFINE Times(s) == {x[2] : x \in {x \in records : x[1] = s}}
           Value(s) == IF Times(s) = {} THEN stored[kind][s] ELSE Quote!Kept(kind, Times(s), stored[kind][s])
<1>1. stored' = [stored EXCEPT ![kind] = [s \in Quote!Set |-> Value(s)]] BY DEF Quote!Upsert
<1>2. \A s \in Quote!Set : stored[kind][s] \in Nat /\ stored["quotes"][s] \in Nat BY DEF Stores, Quote!Kinds
<1>3. ASSUME NEW s \in Quote!Set
      PROVE  /\ Value(s) \in Nat
             /\ kind = "quotes" => stored[kind][s] <= Value(s)
             /\ kind = "quotes" => \A x \in records : x[1] = s => x[2] <= Value(s)
  <2>1. Times(s) \in SUBSET Nat /\ IsFiniteSet(Times(s)) /\ \A x \in records : x[1] = s => x[2] \in Times(s)
    BY TimesOfRecords
  <2> DEFINE old == stored[kind][s]
             times == Times(s)
  <2>2. old \in Nat BY <1>2
  <2>3. times \in SUBSET Nat /\ IsFiniteSet(times) /\ \A x \in records : x[1] = s => x[2] \in times BY <2>1
  <2>4. Value(s) = IF times = {} THEN old ELSE Quote!Kept(kind, times, old) OBVIOUS
  <2> HIDE DEF old, times, Value, Times
  <2>5. CASE times = {} BY <2>2, <2>3, <2>4, <2>5 DEF old
  <2>6. CASE times # {} /\ kind = "quotes"
    <3>1. times \union {old} \in SUBSET Nat /\ times \union {old} # {} BY <2>2, <2>3
    <3>2. IsFiniteSet(times \union {old}) BY <2>3, FS_AddElement
    <3>3. /\ Quote!Max(times \union {old}) \in times \union {old}
          /\ \A n \in times \union {old} : n <= Quote!Max(times \union {old})
      BY <3>1, <3>2, QuoteMax
    <3>4. Value(s) = Quote!Max(times \union {old}) BY <2>4, <2>6 DEF Quote!Kept
    <3> QED BY <2>3, <3>1, <3>3, <3>4 DEF old
  <2>7. CASE times # {} /\ kind # "quotes"
    <3>1. Quote!Max(times) \in times BY <2>3, <2>7, QuoteMax
    <3>2. Value(s) = Quote!Max(times) BY <2>4, <2>7 DEF Quote!Kept
    <3> QED BY <2>3, <2>7, <3>1, <3>2
  <2> QED BY <2>5, <2>6, <2>7
<1> HIDE DEF Value
<1>4. Stores' BY <1>1, <1>3 DEF Stores, Quote!Kinds
<1>5. CASE kind = "quotes"
  <2>1. \A s \in Quote!Set : stored'["quotes"][s] = Value(s) BY <1>1, <1>5 DEF Stores, Quote!Kinds
  <2>2. \A x \in records : x[1] \in Quote!Set BY DEF Timely
  <2> QED BY <1>3, <1>4, <1>5, <2>1, <2>2
<1>6. CASE kind # "quotes"
  <2>1. stored'["quotes"] = stored["quotes"] BY <1>1, <1>6 DEF Stores, Quote!Kinds
  <2> QED BY <1>2, <1>4, <1>6, <2>1
<1> QED BY <1>5, <1>6

(* A batch the database takes whole is stored; one it refuses is isolated.   *)
LEMMA BatchKeeps ==
    ASSUME NEW v \in Worlds, NEW r, RequestInv(r, v), r.phase = "persist",
           \A x \in r.pending : x[1] \in v.known,
           r.kind = "quotes" => \A x \in r.pending : x[2] <= v.quotes[x[1]]
    PROVE  RequestInv([r EXCEPT !.phase = "done", !.pending = {}], v)
<1> DEFINE y == [r EXCEPT !.phase = "done", !.pending = {}]
<1>0. r \in Quote!Requests /\ Fetched(r, v) /\ r.start <= v.clock /\ Records(r, v) BY DEF RequestInv
<1>shape. Shaped(r) BY <1>0, RequestShape
<1>1. y \in Quote!Requests BY <1>0 DEF Quote!Requests
<1>2. /\ y.kind = r.kind /\ y.symbols = r.symbols /\ y.start = r.start /\ y.phase = "done"
      /\ y.pending = {} /\ y.staged = r.staged /\ y.items = r.items /\ y.faulted = r.faulted
  BY <1>0 DEF Quote!Requests
<1> HIDE DEF y
<1>3. Records(y, v) BY <1>0, <1>2 DEF Records
<1>4. Fetched(y, v)
  <2>1. DOMAIN y.items = Quote!ToSet(y.symbols) /\ y.staged = {} BY <1>0, <1>2 DEF Fetched
  <2>2. ASSUME NEW s \in DOMAIN y.items
        PROVE  /\ y.items[s] = "INVALID_MARKET_DATA" => v.defect[s] = "invalid"
               /\ y.kind = "quotes" /\ y.items[s] = "success" => y.start <= v.quotes[s]
    <3>1. /\ r.items[s] = "INVALID_MARKET_DATA" => v.defect[s] = "invalid"
          /\ r.kind = "quotes" /\ r.items[s] = "success" =>
                (\E x \in r.pending : x[1] = s) \/ r.start <= v.quotes[s]
      BY <1>0, <1>2 DEF Fetched
    <3>2. ASSUME NEW x \in r.pending, x[1] = s, r.kind = "quotes" PROVE r.start <= v.quotes[s]
      <4>1. r.start <= x[2] BY <1>0 DEF Records
      <4>2. x[2] <= v.quotes[s] BY <3>2
      <4>3. r.start \in Nat /\ x[2] \in Nat BY <1>shape DEF Shaped
      <4>4. v.quotes[s] \in Nat
        <5>1. s \in Quote!Set BY <1>shape, <3>2 DEF Shaped
        <5> QED BY <5>1 DEF Worlds
      <4> QED BY <4>1, <4>2, <4>3, <4>4
    <3> QED BY <1>2, <3>1, <3>2
  <2>3. ASSUME NEW s \in DOMAIN y.items, ~y.faulted
        PROVE  IF v.defect[s] = "none"
               THEN /\ s \in v.known => y.items[s] = "success"
                    /\ s \notin v.known => y.items[s] = "PERSISTENCE_ERROR"
               ELSE y.items[s] = Said(y.kind, s, v)
    BY <1>0, <1>2, <2>3 DEF Fetched
  <2> QED BY <1>2, <2>1, <2>2, <2>3 DEF Fetched
<1> QED BY <1>0, <1>1, <1>2, <1>3, <1>4 DEF RequestInv, y

LEMMA IsolationKeeps ==
    ASSUME NEW v \in Worlds, NEW r, RequestInv(r, v), r.phase = "persist", r.pending # {}
    PROVE  RequestInv([r EXCEPT !.phase = "isolate"], v)
<1> DEFINE y == [r EXCEPT !.phase = "isolate"]
<1>0. r \in Quote!Requests /\ Fetched(r, v) /\ r.start <= v.clock /\ Records(r, v) BY DEF RequestInv
<1>1. y \in Quote!Requests BY <1>0 DEF Quote!Requests
<1>2. /\ y.kind = r.kind /\ y.symbols = r.symbols /\ y.start = r.start /\ y.phase = "isolate"
      /\ y.pending = r.pending /\ y.staged = r.staged /\ y.items = r.items /\ y.faulted = r.faulted
  BY <1>0 DEF Quote!Requests
<1> HIDE DEF y
<1>3. Records(y, v) BY <1>0, <1>2 DEF Records
<1>4. Fetched(y, v) BY <1>0, <1>2 DEF Fetched
<1> QED BY <1>0, <1>1, <1>2, <1>3, <1>4 DEF RequestInv, y

LEMMA FailureKeeps ==
    ASSUME NEW v \in Worlds, NEW r, RequestInv(r, v)
    PROVE  RequestInv([r EXCEPT !.phase = "error", !.faulted = TRUE], v)
<1> DEFINE y == [r EXCEPT !.phase = "error", !.faulted = TRUE]
<1>0. r \in Quote!Requests /\ r.start <= v.clock /\ Records(r, v) BY DEF RequestInv
<1>1. y \in Quote!Requests BY <1>0 DEF Quote!Requests
<1>2. /\ y.symbols = r.symbols /\ y.start = r.start /\ y.phase = "error"
      /\ y.pending = r.pending /\ y.staged = r.staged
  BY <1>0 DEF Quote!Requests
<1> HIDE DEF y
<1>3. Records(y, v) BY <1>0, <1>2 DEF Records
<1> QED BY <1>0, <1>1, <1>2, <1>3 DEF RequestInv, y

(* One record of an isolated batch: stored, refused, or reported as refused. *)
LEMMA OneRecordKeeps ==
    ASSUME NEW v \in Worlds, NEW r, RequestInv(r, v), r.phase = "isolate",
           NEW x \in r.pending, NEW code \in {"success", "PERSISTENCE_ERROR"},
           NEW y \in Quote!Requests,
           y.kind = r.kind, y.symbols = r.symbols, y.start = r.start,
           y.pending = r.pending \ {x}, y.staged = r.staged,
           y.phase = IF r.pending \ {x} = {} THEN "done" ELSE "isolate",
           y.items = Quote!Report(r.items, {x[1]}, code), r.faulted => y.faulted,
           r.kind = "quotes" /\ code = "success" => x[2] <= v.quotes[x[1]],
           ~y.faulted => (code = "success" <=> x[1] \in v.known)
    PROVE  RequestInv(y, v)
<1>0. r \in Quote!Requests /\ Fetched(r, v) /\ r.start <= v.clock /\ Records(r, v) BY DEF RequestInv
<1>1. Shaped(r) BY <1>0, RequestShape
<1>2. /\ x[1] \in Quote!Set /\ x[2] \in Nat /\ x[1] \in Quote!ToSet(r.symbols)
      /\ v.defect[x[1]] = "none" /\ r.start <= x[2] /\ r.start \in Nat
  BY <1>0, <1>1 DEF Shaped, Records
<1>3. Records(y, v) BY <1>0 DEF Records
<1>4. DOMAIN r.items = Quote!ToSet(r.symbols) BY <1>0 DEF Fetched
<1>5. /\ DOMAIN y.items = Quote!ToSet(y.symbols)
      /\ \A s \in DOMAIN y.items : y.items[s] = IF s = x[1] THEN code ELSE r.items[s]
  <2> DEFINE old == r.items
             S == {x[1]}
  <2>1. DOMAIN Quote!Report(old, S, code) = S \union DOMAIN old BY ReportDomain
  <2>2. \A s \in S \union DOMAIN old : Quote!Report(old, S, code)[s] = IF s \in S THEN code ELSE old[s]
    BY ReportValues
  <2>3. y.items = Quote!Report(old, S, code) OBVIOUS
  <2>4. S \union DOMAIN old = Quote!ToSet(y.symbols) BY <1>2, <1>4
  <2>5. \A s : s \in S <=> s = x[1] OBVIOUS
  <2> HIDE DEF old, S
  <2>6. DOMAIN y.items = Quote!ToSet(y.symbols) BY <2>1, <2>3, <2>4
  <2>7. \A s \in DOMAIN y.items : y.items[s] = IF s = x[1] THEN code ELSE old[s]
    BY <2>1, <2>2, <2>3, <2>5
  <2> QED BY <2>6, <2>7 DEF old
<1>6. Fetched(y, v)
  <2>1. ASSUME NEW s \in DOMAIN y.items
        PROVE  /\ y.items[s] = "INVALID_MARKET_DATA" => v.defect[s] = "invalid"
               /\ y.kind = "quotes" /\ y.items[s] = "success" =>
                     (\E z \in y.pending : z[1] = s) \/ y.start <= v.quotes[s]
    <3>1. CASE s = x[1]
      <4>1. v.quotes[s] \in Nat BY <1>2, <3>1 DEF Worlds
      <4> QED BY <1>2, <1>5, <3>1, <4>1
    <3>2. CASE s # x[1]
      <4>1. s \in DOMAIN r.items /\ y.items[s] = r.items[s] BY <1>4, <1>5, <3>2
      <4>2. (\E z \in r.pending : z[1] = s) => \E z \in y.pending : z[1] = s BY <3>2
      <4>3. /\ r.items[s] = "INVALID_MARKET_DATA" => v.defect[s] = "invalid"
            /\ r.kind = "quotes" /\ r.items[s] = "success" =>
                 (\E z \in r.pending : z[1] = s) \/ r.start <= v.quotes[s]
        BY <1>0, <4>1 DEF Fetched
      <4> QED BY <4>1, <4>2, <4>3
    <3> QED BY <3>1, <3>2
  <2>2. ASSUME NEW s \in DOMAIN y.items, ~y.faulted
        PROVE  IF v.defect[s] = "none"
               THEN /\ s \in v.known => y.items[s] = "success"
                    /\ s \notin v.known => \/ y.items[s] = "PERSISTENCE_ERROR"
                                           \/ \E z \in y.pending : z[1] = s
               ELSE y.items[s] = Said(y.kind, s, v)
    <3>1. CASE s = x[1] BY <1>2, <1>5, <2>2, <3>1
    <3>2. CASE s # x[1]
      <4>1. s \in DOMAIN r.items /\ y.items[s] = r.items[s] BY <1>4, <1>5, <3>2
      <4>2. (\E z \in r.pending : z[1] = s) => \E z \in y.pending : z[1] = s BY <3>2
      <4>3. IF v.defect[s] = "none"
            THEN /\ s \in v.known => r.items[s] = "success"
                 /\ s \notin v.known => \/ r.items[s] = "PERSISTENCE_ERROR"
                                        \/ \E z \in r.pending : z[1] = s
            ELSE r.items[s] = Said(r.kind, s, v)
        BY <1>0, <2>2, <4>1 DEF Fetched
      <4> QED BY <4>1, <4>2, <4>3
    <3> QED BY <3>1, <3>2
  <2>3. y.staged = {} /\ (y.phase = "done" => y.pending = {}) BY <1>0 DEF Fetched
  <2> QED BY <1>5, <2>1, <2>2, <2>3 DEF Fetched
<1>7. y.phase \in {"done", "isolate"} /\ (y.phase = "isolate" => y.pending # {}) OBVIOUS
<1> QED BY <1>0, <1>3, <1>6, <1>7 DEF RequestInv

(* The refresh: a symbol is malformed, or has a quote since the attempt      *)
(* began, or is in a batch to come, or in the one that is awaited.           *)
Attempts ==
    [pc : {"idle", "retry", "post", "wait", "completed"}, attempt : Nat, start : Nat,
     batches : Seq(Seq(Quote!Set)), id : Ids \union {Nothing}]
Awaited(s) == refresh.pc = "wait" /\ s \in Quote!ToSet(hub[refresh.id].symbols)
Refreshing ==
    /\ refresh \in Attempts
    /\ refresh.pc = "post" => refresh.batches # <<>>
    /\ refresh.pc = "completed" => refresh.batches = <<>>
    /\ refresh.pc = "wait" =>
          /\ refresh.id \in Ids /\ hub[refresh.id] # Nothing /\ hub[refresh.id].kind = "quotes"
          /\ refresh.start <= hub[refresh.id].start
    /\ refresh.pc \in {"post", "wait", "completed"} =>
          /\ refresh.start <= clock
          /\ \A s \in Quote!Set :
                \/ defect[s] = "invalid" \/ refresh.start <= stored["quotes"][s]
                \/ s \in Covers(refresh.batches) \/ Awaited(s)

Worked == DOMAIN hub = Ids /\ \A i \in Ids : hub[i] # Nothing => RequestInv(hub[i], World)
QuoteInv == World \in Worlds /\ Stores /\ Worked /\ Refreshing

LEMMA QuoteInit == ASSUME Quote!QuoteAssumption, Quote!Init PROVE QuoteInv
<1> USE DEF Quote!Init
<1>1. Stores BY DEF Stores
<1>2. World \in Worlds
  <2>1. stored["quotes"] \in [Quote!Set -> Nat] BY DEF Quote!Kinds
  <2> QED BY <2>1 DEF World, Worlds
<1>3. Worked BY DEF Worked
<1>4. Refreshing
  <2>1. refresh \in Attempts /\ refresh.pc = "idle" BY EmptySeq DEF Quote!NoTask, Attempts
  <2> QED BY <2>1 DEF Refreshing
<1> QED BY <1>1, <1>2, <1>3, <1>4 DEF QuoteInv

(* What a step that changes the store or the clock leaves true.              *)
LEMMA WorldSteps ==
    ASSUME QuoteInv, Stores', UNCHANGED <<known, defect>>, clock' \in Nat, clock <= clock',
           \A s \in Quote!Set : stored["quotes"][s] <= stored'["quotes"][s]
    PROVE  World' \in Worlds /\ Grows(World, World')
<1>1. stored'["quotes"] \in [Quote!Set -> Nat] BY DEF Stores, Quote!Kinds
<1>2. known \in SUBSET Quote!Set /\ defect \in [Quote!Set -> {"none", "invalid", "omitted"}]
  BY DEF QuoteInv, World, Worlds
<1>3. World' = [known |-> known', defect |-> defect', clock |-> clock', quotes |-> stored'["quotes"]]
  BY DEF World
<1>4. World' \in Worlds BY <1>1, <1>2, <1>3 DEF Worlds
<1> QED BY <1>3, <1>4 DEF Grows, World

LEMMA WorldStays ==
    ASSUME QuoteInv, UNCHANGED <<known, defect, clock, stored>>
    PROVE  World' = World /\ Stores' /\ World' \in Worlds /\ Grows(World, World')
<1>1. World' = World /\ Stores' BY DEF QuoteInv, World, Stores
<1>2. \A s \in Quote!Set : World.quotes[s] \in Nat BY DEF QuoteInv, Worlds
<1>3. World.clock \in Nat BY DEF QuoteInv, Worlds
<1> QED BY <1>1, <1>2, <1>3 DEF Grows, QuoteInv

(* A step of one request leaves the others and the refresh as they were.     *)
LEMMA HubStep ==
    ASSUME QuoteInv, NEW i \in Ids, NEW x, hub' = [hub EXCEPT ![i] = x],
           World' \in Worlds, Stores', Grows(World, World'), UNCHANGED refresh,
           x # Nothing => RequestInv(x, World'),
           refresh.pc = "wait" /\ refresh.id = i =>
              x # Nothing /\ x.kind = hub[i].kind /\ x.symbols = hub[i].symbols /\ x.start = hub[i].start
    PROVE  QuoteInv'
<1>1. DOMAIN hub' = Ids /\ hub'[i] = x /\ \A j \in Ids : j # i => hub'[j] = hub[j]
  BY DEF QuoteInv, Worked
<1>2. \A j \in Ids : j # i /\ hub[j] # Nothing => RequestInv(hub[j], World')
  BY GrowingKeeps DEF QuoteInv, Worked
<1>3. Worked' BY <1>1, <1>2 DEF Worked
<1>4. refresh.pc = "wait" =>
        /\ refresh.id \in Ids /\ hub'[refresh.id] # Nothing
        /\ hub'[refresh.id].kind = hub[refresh.id].kind
        /\ hub'[refresh.id].symbols = hub[refresh.id].symbols
        /\ hub'[refresh.id].start = hub[refresh.id].start
  BY <1>1 DEF QuoteInv, Refreshing
<1>5. /\ clock \in Nat /\ clock' \in Nat /\ clock <= clock' /\ defect' = defect
      /\ \A s \in Quote!Set : /\ stored["quotes"][s] \in Nat /\ stored'["quotes"][s] \in Nat
                              /\ stored["quotes"][s] <= stored'["quotes"][s]
  BY DEF QuoteInv, World, Worlds, Grows
<1>6. refresh \in Attempts /\ refresh.start \in Nat BY DEF QuoteInv, Refreshing, Attempts
<1>7. \A s : Awaited(s) => Awaited(s)' BY <1>4 DEF Awaited
<1>8. Refreshing' BY <1>4, <1>5, <1>6, <1>7 DEF QuoteInv, Refreshing
<1> QED BY <1>3, <1>8 DEF QuoteInv

(* What a request of the Hub holds, read off the invariant.                  *)
LEMMA HeldRequest ==
    ASSUME QuoteInv, NEW i \in Ids, hub[i] # Nothing
    PROVE  RequestInv(hub[i], World) /\ hub[i] \in Quote!Requests /\ Shaped(hub[i])
BY RequestShape DEF QuoteInv, Worked, RequestInv

LEMMA FetchStep ==
    ASSUME QuoteInv, Quote!QuoteAssumption, NEW i \in Ids, Quote!Fetch(i) \/ Quote!FetchFails(i)
    PROVE  QuoteInv'
<1> DEFINE r == hub[i]
           piece == Head(r.work)
           y == Quote!Advance(IF \E s \in Quote!ToSet(piece) : defect[s] = "invalid"
                              THEN Quote!Isolate(r, piece) ELSE Quote!Accept(r, piece))
           z == Quote!Advance([r EXCEPT !.work = <<>>, !.staged = {}, !.faulted = TRUE,
                                 !.items = Quote!Report(@, Quote!ToSet(r.chunk), "PROVIDER_UNAVAILABLE")])
<1>1. /\ r # Nothing /\ r.phase = "fetch" /\ UNCHANGED <<known, defect, clock, stored, refresh>>
      /\ hub' = [hub EXCEPT ![i] = y] \/ hub' = [hub EXCEPT ![i] = z]
  BY DEF Quote!Fetch, Quote!FetchFails
<1>2. RequestInv(r, World) /\ World \in Worlds BY <1>1, HeldRequest DEF QuoteInv
<1>3. RequestInv(y, World) /\ y.kind = r.kind /\ y.symbols = r.symbols /\ y.start = r.start
  BY <1>1, <1>2, FetchKeeps
<1>4. RequestInv(z, World) /\ z.kind = r.kind /\ z.symbols = r.symbols /\ z.start = r.start
  BY <1>1, <1>2, OutageKeeps
<1>5. World' = World /\ Stores' /\ World' \in Worlds /\ Grows(World, World') BY <1>1, WorldStays
<1>6. RequestInv(y, World') /\ RequestInv(z, World') BY <1>3, <1>4, <1>5
<1>7. y \in Quote!Requests /\ z \in Quote!Requests BY <1>3, <1>4 DEF RequestInv
<1>8. y # Nothing /\ z # Nothing BY <1>7 DEF Quote!QuoteAssumption
<1> HIDE DEF y, z
<1>9. CASE hub' = [hub EXCEPT ![i] = y] BY <1>1, <1>3, <1>5, <1>6, <1>8, <1>9, HubStep
<1>10. CASE hub' = [hub EXCEPT ![i] = z] BY <1>1, <1>4, <1>5, <1>6, <1>8, <1>10, HubStep
<1> QED BY <1>1, <1>9, <1>10

(* A write of records a request holds, by that request.                      *)
LEMMA RecordsStep ==
    ASSUME QuoteInv, NEW i \in Ids, hub[i] # Nothing, NEW records, records \subseteq hub[i].pending,
           UNCHANGED <<known, defect, clock>>, UNCHANGED stored \/ Quote!Upsert(hub[i].kind, records)
    PROVE  /\ Stores' /\ World' \in Worlds /\ Grows(World, World') /\ RequestInv(hub[i], World')
           /\ hub[i].kind = "quotes" /\ Quote!Upsert(hub[i].kind, records) =>
                \A x \in records : x[2] <= World'.quotes[x[1]]
<1> DEFINE r == hub[i]
<1>1. RequestInv(r, World) /\ Shaped(r) BY HeldRequest
<1>2. Timely(records, World) BY <1>1 DEF Shaped, RequestInv, Records, Timely
<1>3. r.kind \in Quote!Kinds BY <1>1 DEF Shaped, Quote!Kinds
<1>4. World \in Worlds /\ Stores BY DEF QuoteInv
<1>5. clock \in Nat BY <1>4 DEF World, Worlds
<1>6. /\ Stores' /\ \A s \in Quote!Set : stored["quotes"][s] <= stored'["quotes"][s]
      /\ Quote!Upsert(r.kind, records) /\ r.kind = "quotes" =>
            \A x \in records : x[2] <= stored'["quotes"][x[1]]
  <2>1. CASE UNCHANGED stored /\ ~Quote!Upsert(r.kind, records)
    <3>1. \A s \in Quote!Set : stored["quotes"][s] \in Nat BY <1>4 DEF Stores, Quote!Kinds
    <3> QED BY <1>4, <2>1, <3>1 DEF Stores
  <2>2. CASE Quote!Upsert(r.kind, records)
    <3> DEFINE kind == r.kind
    <3>1. kind \in Quote!Kinds /\ Quote!Upsert(kind, records) BY <1>3, <2>2
    <3> HIDE DEF kind
    <3>2. /\ Stores' /\ \A s \in Quote!Set : stored["quotes"][s] <= stored'["quotes"][s]
          /\ kind = "quotes" => \A x \in records : x[2] <= stored'["quotes"][x[1]]
      BY <1>2, <1>4, <3>1, UpsertKeeps
    <3> QED BY <3>2 DEF kind
  <2> QED BY <2>1, <2>2
<1>7. World' \in Worlds /\ Grows(World, World') BY <1>5, <1>6, WorldSteps
<1>8. RequestInv(r, World') BY <1>1, <1>4, <1>7, GrowingKeeps
<1>9. World'.quotes = stored'["quotes"] BY DEF World
<1> QED BY <1>6, <1>7, <1>8, <1>9

LEMMA PersistStep ==
    ASSUME QuoteInv, Quote!QuoteAssumption, NEW i \in Ids, Quote!Persist(i) \/ Quote!PersistFails(i)
    PROVE  QuoteInv'
<1> DEFINE r == hub[i]
           y1 == [r EXCEPT !.phase = "done", !.pending = {}]
           y2 == [r EXCEPT !.phase = "isolate"]
           y3 == [r EXCEPT !.phase = "error", !.faulted = TRUE]
<1>1. /\ r # Nothing /\ r.phase = "persist" /\ UNCHANGED <<known, defect, clock, refresh>>
      /\ UNCHANGED stored \/ Quote!Upsert(r.kind, r.pending)
  BY DEF Quote!Persist, Quote!PersistFails
<1>2. RequestInv(r, World) /\ r \in Quote!Requests /\ Shaped(r) BY <1>1, HeldRequest
<1>3. /\ Stores' /\ World' \in Worlds /\ Grows(World, World') /\ RequestInv(r, World')
      /\ r.kind = "quotes" /\ Quote!Upsert(r.kind, r.pending) =>
            \A x \in r.pending : x[2] <= World'.quotes[x[1]]
  BY <1>1, RecordsStep
<1>4. World'.known = known BY <1>1 DEF World
<1>5. /\ i \in DOMAIN hub /\ DOMAIN hub = Ids BY DEF QuoteInv, Worked
<1>6. /\ y1 \in Quote!Requests /\ y1.kind = r.kind /\ y1.symbols = r.symbols /\ y1.start = r.start
      /\ y2 \in Quote!Requests /\ y2.kind = r.kind /\ y2.symbols = r.symbols /\ y2.start = r.start
      /\ y3 \in Quote!Requests /\ y3.kind = r.kind /\ y3.symbols = r.symbols /\ y3.start = r.start
  BY <1>2 DEF Quote!Requests
<1>7. y1 # Nothing /\ y2 # Nothing /\ y3 # Nothing BY <1>6 DEF Quote!QuoteAssumption
<1>8. CASE Quote!SymbolsOf(r.pending) \subseteq known /\ Quote!Upsert(r.kind, r.pending)
           /\ hub' = [hub EXCEPT ![i].phase = "done", ![i].pending = {}]
  <2>1. hub' = [hub EXCEPT ![i] = y1] BY <1>5, <1>8
  <2>2. \A x \in r.pending : x[1] \in World'.known BY <1>4, <1>8 DEF Quote!SymbolsOf
  <2>3. RequestInv(y1, World')
    <3> DEFINE v == World'
    <3>1. v \in Worlds /\ RequestInv(r, v) /\ (\A x \in r.pending : x[1] \in v.known)
          /\ (r.kind = "quotes" => \A x \in r.pending : x[2] <= v.quotes[x[1]])
      BY <1>3, <1>8, <2>2
    <3> HIDE DEF v
    <3>2. RequestInv(y1, v) BY <1>1, <3>1, BatchKeeps
    <3> QED BY <3>2 DEF v
  <2> HIDE DEF y1
  <2> QED BY <1>1, <1>3, <1>6, <1>7, <2>1, <2>3, HubStep
<1>9. CASE ~Quote!SymbolsOf(r.pending) \subseteq known /\ hub' = [hub EXCEPT ![i].phase = "isolate"]
  <2>1. hub' = [hub EXCEPT ![i] = y2] BY <1>5, <1>9
  <2>2. r.pending # {} BY <1>9 DEF Quote!SymbolsOf
  <2>3. RequestInv(y2, World') BY <1>1, <1>3, <2>2, IsolationKeeps
  <2> HIDE DEF y2
  <2> QED BY <1>1, <1>3, <1>6, <1>7, <2>1, <2>3, HubStep
<1>10. CASE hub' = [hub EXCEPT ![i].phase = "error", ![i].faulted = TRUE]
  <2>1. hub' = [hub EXCEPT ![i] = y3] BY <1>5, <1>10
  <2>2. RequestInv(y3, World') BY <1>3, FailureKeeps
  <2> HIDE DEF y3
  <2> QED BY <1>1, <1>3, <1>6, <1>7, <2>1, <2>2, HubStep
<1> QED BY <1>8, <1>9, <1>10 DEF Quote!Persist, Quote!PersistFails

LEMMA PersistOneStep ==
    ASSUME QuoteInv, Quote!QuoteAssumption, NEW i \in Ids, Quote!PersistOne(i) \/ Quote!PersistOneFails(i)
    PROVE  QuoteInv'
<1> DEFINE r == hub[i]
           x == CHOOSE x \in r.pending : TRUE
           left == r.pending \ {x}
           phase == IF left = {} THEN "done" ELSE "isolate"
           y(code) == [r EXCEPT !.pending = left, !.phase = phase,
                                !.items = Quote!Report(@, {x[1]}, code)]
           z == [r EXCEPT !.pending = left, !.phase = phase,
                          !.items = Quote!Report(@, {x[1]}, "PERSISTENCE_ERROR"), !.faulted = TRUE]
<1>1. /\ r # Nothing /\ r.phase = "isolate" /\ UNCHANGED <<known, defect, clock, refresh>>
      /\ UNCHANGED stored \/ Quote!Upsert(r.kind, {x})
  BY DEF Quote!PersistOne, Quote!PersistOneFails
<1>2. RequestInv(r, World) /\ r \in Quote!Requests /\ Shaped(r) BY <1>1, HeldRequest
<1>3. x \in r.pending BY <1>1, <1>2 DEF RequestInv
<1> HIDE DEF x
<1>4. /\ Stores' /\ World' \in Worlds /\ Grows(World, World') /\ RequestInv(r, World')
      /\ r.kind = "quotes" /\ Quote!Upsert(r.kind, {x}) => x[2] <= World'.quotes[x[1]]
  <2>1. {x} \subseteq r.pending BY <1>3
  <2> DEFINE records == {x}
  <2>2. records \subseteq r.pending /\ (UNCHANGED stored \/ Quote!Upsert(r.kind, records)) BY <1>1, <2>1
  <2>3. x \in records OBVIOUS
  <2> HIDE DEF records
  <2>4. /\ Stores' /\ World' \in Worlds /\ Grows(World, World') /\ RequestInv(r, World')
        /\ r.kind = "quotes" /\ Quote!Upsert(r.kind, records) =>
              \A q \in records : q[2] <= World'.quotes[q[1]]
    BY <1>1, <2>2, RecordsStep
  <2> QED BY <2>3, <2>4 DEF records
<1>5. World'.known = known BY <1>1 DEF World
<1>6. i \in DOMAIN hub /\ DOMAIN hub = Ids BY DEF QuoteInv, Worked
<1>7. ASSUME NEW code \in {"success", "PERSISTENCE_ERROR"}
      PROVE  Quote!Report(r.items, {x[1]}, code) \in Quote!Reports
  <2> DEFINE old == r.items
             S == {x[1]}
  <2>1. Reportable(old) /\ S \in SUBSET Quote!Set /\ code \in Quote!Codes
    BY <1>2, <1>3 DEF Shaped, Quote!Codes
  <2> HIDE DEF old, S
  <2>2. Quote!Report(old, S, code) \in Quote!Reports BY <2>1, ReportIsReportable, ReportableIsReport
  <2> QED BY <2>2 DEF old, S
<1>8. ASSUME NEW code \in {"success", "PERSISTENCE_ERROR"},
             r.kind = "quotes" /\ code = "success" => x[2] <= World'.quotes[x[1]],
             code = "success" <=> x[1] \in known,
             hub' = [hub EXCEPT ![i].pending = left, ![i].phase = phase,
                                ![i].items = Quote!Report(@, {x[1]}, code)]
      PROVE  QuoteInv'
  <2>1. hub' = [hub EXCEPT ![i] = y(code)] BY <1>6, <1>8
  <2>2. y(code) \in Quote!Requests BY <1>2, <1>7 DEF Quote!Requests
  <2>3. /\ y(code).kind = r.kind /\ y(code).symbols = r.symbols /\ y(code).start = r.start
        /\ y(code).pending = left /\ y(code).staged = r.staged /\ y(code).phase = phase
        /\ y(code).items = Quote!Report(r.items, {x[1]}, code) /\ y(code).faulted = r.faulted
    BY <1>2 DEF Quote!Requests
  <2> DEFINE w == y(code)
             v == World'
  <2>4. w \in Quote!Requests /\ w # Nothing /\ hub' = [hub EXCEPT ![i] = w]
    BY <2>1, <2>2 DEF Quote!QuoteAssumption
  <2>5. /\ w.kind = r.kind /\ w.symbols = r.symbols /\ w.start = r.start
        /\ w.pending = r.pending \ {x} /\ w.staged = r.staged
        /\ w.phase = IF r.pending \ {x} = {} THEN "done" ELSE "isolate"
        /\ w.items = Quote!Report(r.items, {x[1]}, code) /\ w.faulted = r.faulted
    BY <2>3
  <2>6. /\ v \in Worlds /\ RequestInv(r, v) /\ v.known = known
        /\ r.kind = "quotes" /\ code = "success" => x[2] <= v.quotes[x[1]]
    BY <1>4, <1>5, <1>8
  <2>7. World' = v OBVIOUS
  <2> HIDE DEF w, v, y, left, phase
  <2>8. (r.faulted => w.faulted) /\ (~w.faulted => (code = "success" <=> x[1] \in v.known))
    BY <1>8, <2>5, <2>6
  <2>9. code \in {"success", "PERSISTENCE_ERROR"} BY <1>8
  <2>10. RequestInv(w, v)
    <3> HIDE DEF r
    <3> QED BY <1>1, <1>3, <2>4, <2>5, <2>6, <2>8, <2>9, OneRecordKeeps
  <2> QED BY <1>1, <1>4, <2>4, <2>5, <2>7, <2>10, HubStep
<1>9. ASSUME hub' = [hub EXCEPT ![i].pending = left, ![i].phase = phase,
                                ![i].items = Quote!Report(@, {x[1]}, "PERSISTENCE_ERROR"),
                                ![i].faulted = TRUE]
      PROVE  QuoteInv'
  <2>1. hub' = [hub EXCEPT ![i] = z] BY <1>6, <1>9
  <2>2. z \in Quote!Requests BY <1>2, <1>7 DEF Quote!Requests
  <2>3. /\ z.kind = r.kind /\ z.symbols = r.symbols /\ z.start = r.start
        /\ z.pending = left /\ z.staged = r.staged /\ z.phase = phase
        /\ z.items = Quote!Report(r.items, {x[1]}, "PERSISTENCE_ERROR") /\ z.faulted = TRUE
    BY <1>2 DEF Quote!Requests
  <2> DEFINE v == World'
             code == "PERSISTENCE_ERROR"
  <2>4. z # Nothing BY <2>2 DEF Quote!QuoteAssumption
  <2>5. /\ z.pending = r.pending \ {x} /\ z.items = Quote!Report(r.items, {x[1]}, code)
        /\ z.phase = IF r.pending \ {x} = {} THEN "done" ELSE "isolate"
        /\ code \in {"success", "PERSISTENCE_ERROR"} /\ code # "success"
    BY <2>3
  <2>6. v \in Worlds /\ RequestInv(r, v) BY <1>4
  <2>7. World' = v OBVIOUS
  <2> HIDE DEF z, v, left, phase, code
  <2>8. RequestInv(z, v) BY <1>1, <1>3, <2>2, <2>3, <2>5, <2>6, OneRecordKeeps
  <2> QED BY <1>1, <1>4, <2>1, <2>3, <2>4, <2>7, <2>8, HubStep
<1>10. CASE Quote!PersistOne(i)
  <2>1. \/ /\ x[1] \in known /\ Quote!Upsert(r.kind, {x})
           /\ hub' = [hub EXCEPT ![i].pending = left, ![i].phase = phase,
                                 ![i].items = Quote!Report(@, {x[1]}, "success")]
        \/ /\ x[1] \notin known
           /\ hub' = [hub EXCEPT ![i].pending = left, ![i].phase = phase,
                                 ![i].items = Quote!Report(@, {x[1]}, "PERSISTENCE_ERROR")]
    BY <1>10 DEF Quote!PersistOne, Quote!Refused, x
  <2> HIDE DEF left, phase
  <2>2. CASE x[1] \in known /\ Quote!Upsert(r.kind, {x})
             /\ hub' = [hub EXCEPT ![i].pending = left, ![i].phase = phase,
                                   ![i].items = Quote!Report(@, {x[1]}, "success")]
    BY <1>4, <1>8, <2>2
  <2>3. CASE x[1] \notin known
             /\ hub' = [hub EXCEPT ![i].pending = left, ![i].phase = phase,
                                   ![i].items = Quote!Report(@, {x[1]}, "PERSISTENCE_ERROR")]
    BY <1>8, <2>3
  <2> QED BY <2>1, <2>2, <2>3
<1>11. CASE Quote!PersistOneFails(i)
  <2>1. hub' = [hub EXCEPT ![i].pending = left, ![i].phase = phase,
                           ![i].items = Quote!Report(@, {x[1]}, "PERSISTENCE_ERROR"), ![i].faulted = TRUE]
    BY <1>11 DEF Quote!PersistOneFails, Quote!Refused, x
  <2> QED BY <1>9, <2>1
<1> QED BY <1>10, <1>11

LEMMA CallersStep ==
    ASSUME QuoteInv, Quote!QuoteAssumption, NEW i \in Ids,
           Quote!Drop(i) \/ \E kind \in OtherKinds : Quote!PostOther(i, kind)
    PROVE  QuoteInv'
<1>1. UNCHANGED <<known, defect, clock, stored, refresh>> BY DEF Quote!Drop, Quote!PostOther
<1>2. World' = World /\ Stores' /\ World' \in Worlds /\ Grows(World, World') BY <1>1, WorldStays
<1>3. CASE Quote!Drop(i)
  <2>1. hub' = [hub EXCEPT ![i] = Nothing] /\ refresh.id # i BY <1>3 DEF Quote!Drop
  <2> QED BY <1>1, <1>2, <2>1, HubStep
<1>4. ASSUME NEW kind \in OtherKinds, Quote!PostOther(i, kind) PROVE QuoteInv'
  <2> DEFINE x == Quote!Advance(Quote!NewRequest(kind, Monitored))
  <2>1. hub' = [hub EXCEPT ![i] = x] /\ hub[i] = Nothing BY <1>4 DEF Quote!PostOther
  <2>2. kind \in {"quotes", "dividends"} /\ Monitored \in Seq(Quote!Set)
    BY <1>4 DEF Quote!QuoteAssumption, Quote!Kinds
  <2>3. RequestInv(x, World) BY <2>2, NewRequestKeeps DEF QuoteInv
  <2>4. x # Nothing /\ RequestInv(x, World') BY <1>2, <2>3 DEF RequestInv, Quote!QuoteAssumption
  <2>5. ~(refresh.pc = "wait" /\ refresh.id = i) BY <2>1 DEF QuoteInv, Refreshing
  <2> HIDE DEF x
  <2> QED BY <1>1, <1>2, <2>1, <2>4, <2>5, HubStep
<1> QED BY <1>3, <1>4

(* The whole list of symbols is ahead of an attempt that begins.             *)
LEMMA StartStep ==
    ASSUME QuoteInv, Quote!QuoteAssumption, Quote!StartAttempt
    PROVE  QuoteInv'
<1>1. UNCHANGED <<known, defect, clock, stored, hub>> BY DEF Quote!StartAttempt
<1>2. World' = World /\ Stores' /\ World' \in Worlds BY <1>1, WorldStays
<1>3. Worked' BY <1>1, <1>2 DEF QuoteInv, Worked
<1> DEFINE batches == Quote!Chunks(Monitored, BatchSize)
<1>4. /\ Monitored \in Seq(Quote!Set) /\ BatchSize \in Nat /\ BatchSize > 0 /\ Monitored # <<>>
  BY DEF Quote!QuoteAssumption
<1>5. batches \in Seq(Seq(Quote!Set)) /\ Covers(batches) = Quote!Set BY <1>4, ChunksCover DEF Quote!Set
<1>6. Quote!Set # {}
  <2>1. Len(Monitored) \in Nat \ {0} BY <1>4, EmptySeq, LenProperties
  <2>2. 1 \in 1..Len(Monitored) BY <2>1
  <2>3. Quote!ToSet(Monitored) = {Monitored[k] : k \in 1..Len(Monitored)} BY <1>4, MembersOfSeq
  <2> QED BY <2>2, <2>3 DEF Quote!Set
<1>7. batches # <<>> BY <1>5, <1>6, CoversNothing
<1>8. refresh' = [pc |-> "post", attempt |-> refresh.attempt + 1, start |-> clock,
                  batches |-> batches, id |-> Nothing]
  BY DEF Quote!StartAttempt
<1>9. clock \in Nat /\ refresh.attempt \in Nat BY DEF QuoteInv, Refreshing, Attempts, World, Worlds
<1> HIDE DEF batches
<1>10. refresh' \in Attempts BY <1>5, <1>8, <1>9 DEF Attempts
<1>11. refresh'.pc = "post" /\ refresh'.start = clock /\ refresh'.batches = batches BY <1>8
<1>12. Refreshing' BY <1>1, <1>5, <1>7, <1>9, <1>10, <1>11 DEF Refreshing
<1> QED BY <1>2, <1>3, <1>12 DEF QuoteInv

(* Posting moves the symbols of the first batch into the awaited request.    *)
LEMMA PostStep ==
    ASSUME QuoteInv, Quote!QuoteAssumption, NEW i \in Ids, Quote!Post(i)
    PROVE  QuoteInv'
<1>1. /\ UNCHANGED <<known, defect, clock, stored>> /\ refresh.pc = "post" /\ hub[i] = Nothing
  BY DEF Quote!Post
<1>2. World' = World /\ Stores' /\ World' \in Worlds BY <1>1, WorldStays
<1>3. /\ refresh \in Attempts /\ refresh.batches # <<>> /\ refresh.start <= clock
      /\ refresh.batches \in Seq(Seq(Quote!Set)) /\ clock \in Nat
  BY <1>1 DEF QuoteInv, Refreshing, Attempts, World, Worlds
<1>4. /\ Head(refresh.batches) \in Seq(Quote!Set) /\ Tail(refresh.batches) \in Seq(Seq(Quote!Set))
      /\ Covers(refresh.batches) =
            Quote!ToSet(Head(refresh.batches)) \union Covers(Tail(refresh.batches))
  BY <1>3, CoversHeadTail
<1> DEFINE symbols == Head(refresh.batches)
           x == Quote!Advance(Quote!NewRequest("quotes", symbols))
<1>5. hub' = [hub EXCEPT ![i] = x] BY DEF Quote!Post
<1>6. refresh' = [refresh EXCEPT !.pc = "wait", !.id = i, !.batches = Tail(@)] BY DEF Quote!Post
<1>7. RequestInv(x, World) /\ x.kind = "quotes" /\ x.symbols = symbols /\ x.start = clock
  <2> HIDE DEF symbols, x
  <2>1. symbols \in Seq(Quote!Set) BY <1>4 DEF symbols
  <2>2. RequestInv(Quote!Advance(Quote!NewRequest("quotes", symbols)), World)
        /\ Quote!Advance(Quote!NewRequest("quotes", symbols)).kind = "quotes"
        /\ Quote!Advance(Quote!NewRequest("quotes", symbols)).symbols = symbols
        /\ Quote!Advance(Quote!NewRequest("quotes", symbols)).start = clock
    BY <2>1, NewRequestKeeps DEF QuoteInv
  <2> QED BY <2>2 DEF x
<1>8. x # Nothing /\ RequestInv(x, World') BY <1>2, <1>7 DEF RequestInv, Quote!QuoteAssumption
<1> HIDE DEF x
<1>9. DOMAIN hub' = Ids /\ hub'[i] = x /\ \A j \in Ids : j # i => hub'[j] = hub[j]
  BY <1>5 DEF QuoteInv, Worked
<1>10. Worked' BY <1>2, <1>8, <1>9 DEF QuoteInv, Worked
<1>11. refresh' \in Attempts BY <1>3, <1>4, <1>6 DEF Attempts
<1>12. /\ refresh'.pc = "wait" /\ refresh'.id = i /\ refresh'.batches = Tail(refresh.batches)
       /\ refresh'.start = refresh.start
  BY <1>3, <1>6 DEF Attempts
<1>13. ASSUME NEW s \in Quote!Set
       PROVE  \/ defect[s] = "invalid" \/ refresh.start <= stored["quotes"][s]
              \/ s \in Quote!ToSet(symbols) \/ s \in Covers(Tail(refresh.batches))
  BY <1>1, <1>4 DEF QuoteInv, Refreshing, Awaited
<1>14. \A s \in Quote!ToSet(symbols) : Awaited(s)' BY <1>7, <1>9, <1>12 DEF Awaited
<1>15. /\ refresh'.start <= clock'
       /\ \A s \in Quote!Set :
             \/ defect'[s] = "invalid" \/ refresh'.start <= stored'["quotes"][s]
             \/ s \in Covers(refresh'.batches) \/ Awaited(s)'
  BY <1>1, <1>3, <1>12, <1>13, <1>14
<1>16. Refreshing'
  <2>1. refresh'.id \in Ids /\ hub'[refresh'.id] # Nothing /\ hub'[refresh'.id].kind = "quotes"
        /\ refresh'.start <= hub'[refresh'.id].start
    BY <1>3, <1>7, <1>8, <1>9, <1>12
  <2> QED BY <1>11, <1>12, <1>15, <2>1 DEF Refreshing
<1> QED BY <1>2, <1>10, <1>16 DEF QuoteInv

(* An answer without a retryable item: each of its symbols is stored since   *)
(* the request began, or malformed.                                          *)
LEMMA AnswerStep ==
    ASSUME QuoteInv, Quote!Answer
    PROVE  QuoteInv'
<1> DEFINE r == hub[refresh.id]
           retry == r.phase = "error" \/ \E s \in DOMAIN r.items : r.items[s] \in Quote!Retryable
           pc == IF retry THEN "retry" ELSE IF refresh.batches = <<>> THEN "completed" ELSE "post"
<1>1. /\ UNCHANGED <<known, defect, clock, stored, hub>> /\ refresh.pc = "wait"
      /\ r # Nothing /\ r.phase \in {"done", "error"}
      /\ refresh' = [refresh EXCEPT !.id = Nothing, !.pc = pc]
  BY DEF Quote!Answer, Quote!Finished
<1>2. World' = World /\ Stores' /\ World' \in Worlds BY <1>1, WorldStays
<1>3. Worked' BY <1>1, <1>2 DEF QuoteInv, Worked
<1>4. /\ refresh \in Attempts /\ refresh.id \in Ids /\ r.kind = "quotes" /\ refresh.start <= r.start
      /\ refresh.start <= clock
  BY <1>1 DEF QuoteInv, Refreshing
<1>5. RequestInv(r, World) /\ Shaped(r) BY <1>1, <1>4, HeldRequest
<1>6. ASSUME ~retry, NEW s \in Quote!ToSet(r.symbols)
      PROVE  defect[s] = "invalid" \/ refresh.start <= stored["quotes"][s]
  <2>1. r.phase = "done" /\ Fetched(r, World) BY <1>1, <1>5, <1>6 DEF RequestInv
  <2>2. s \in DOMAIN r.items /\ r.pending = {} BY <1>6, <2>1 DEF Fetched
  <2>3. r.items[s] \in Quote!Codes /\ r.items[s] \notin Quote!Retryable
    BY <1>5, <1>6, <2>2 DEF Shaped, Reportable
  <2>4. r.items[s] = "success" \/ r.items[s] = "INVALID_MARKET_DATA"
    BY <2>3 DEF Quote!Codes, Quote!Retryable
  <2>5. World.defect[s] = "invalid" \/ r.start <= World.quotes[s] BY <1>4, <2>1, <2>2, <2>4 DEF Fetched
  <2>6. refresh.start \in Nat /\ r.start \in Nat /\ stored["quotes"][s] \in Nat
    <3>1. s \in Quote!Set BY <1>5, <2>2 DEF Shaped
    <3> QED BY <1>4, <1>5, <3>1 DEF QuoteInv, Stores, Quote!Kinds, Attempts, Shaped
  <2>7. World.defect = defect /\ World.quotes = stored["quotes"] BY DEF World
  <2> QED BY <1>4, <2>5, <2>6, <2>7
<1> HIDE DEF retry
<1>7. refresh' \in Attempts BY <1>1, <1>4 DEF Attempts
<1>8. refresh'.pc = pc /\ refresh'.batches = refresh.batches /\ refresh'.start = refresh.start
  BY <1>1, <1>4 DEF Attempts
<1>9. CASE retry
  <2>1. refresh'.pc = "retry" BY <1>8, <1>9
  <2>2. Refreshing' BY <1>7, <2>1 DEF Refreshing
  <2> QED BY <1>2, <1>3, <2>2 DEF QuoteInv
<1>10. CASE ~retry
  <2>1. \A s \in Quote!Set :
           \/ defect[s] = "invalid" \/ refresh.start <= stored["quotes"][s] \/ s \in Covers(refresh.batches)
    BY <1>1, <1>6, <1>10 DEF QuoteInv, Refreshing, Awaited
  <2>2. \A s \in Quote!Set :
           \/ defect'[s] = "invalid" \/ refresh'.start <= stored'["quotes"][s] \/ s \in Covers(refresh'.batches)
    BY <1>1, <1>8, <2>1
  <2>3. /\ refresh'.pc \in {"post", "completed"}
        /\ refresh'.pc = "completed" => refresh'.batches = <<>>
        /\ refresh'.pc = "post" => refresh'.batches # <<>>
    BY <1>8, <1>10
  <2>4. Refreshing' BY <1>1, <1>4, <1>7, <1>8, <2>2, <2>3 DEF Refreshing
  <2> QED BY <1>2, <1>3, <2>4 DEF QuoteInv
<1> QED BY <1>9, <1>10

LEMMA InterruptionStep ==
    ASSUME QuoteInv, Quote!ClientTimeout \/ Quote!HubCrash \/ Quote!Reschedule
    PROVE  QuoteInv'
<1>1. /\ UNCHANGED <<known, defect, clock, stored>> /\ (UNCHANGED hub \/ hub' = [i \in Ids |-> Nothing])
  BY DEF Quote!ClientTimeout, Quote!HubCrash, Quote!Reschedule
<1>2. World' = World /\ Stores' /\ World' \in Worlds BY <1>1, WorldStays
<1>3. Worked' BY <1>1, <1>2 DEF QuoteInv, Worked
<1>4. refresh \in Attempts BY DEF QuoteInv, Refreshing
<1>5. CASE refresh' = [refresh EXCEPT !.pc = "retry", !.id = Nothing]
  <2>1. refresh' \in Attempts /\ refresh'.pc = "retry" BY <1>4, <1>5 DEF Attempts
  <2>2. Refreshing' BY <2>1 DEF Refreshing
  <2> QED BY <1>2, <1>3, <2>2 DEF QuoteInv
<1>6. CASE refresh' = Quote!NoTask
  <2>1. refresh' \in Attempts /\ refresh'.pc = "idle" BY <1>6, EmptySeq DEF Quote!NoTask, Attempts
  <2>2. Refreshing' BY <2>1 DEF Refreshing
  <2> QED BY <1>2, <1>3, <2>2 DEF QuoteInv
<1>7. CASE refresh' = refresh /\ refresh.pc # "wait"
  <2>1. \A s : ~Awaited(s) /\ ~Awaited(s)' BY <1>7 DEF Awaited
  <2>2. Refreshing' BY <1>1, <1>7, <2>1 DEF QuoteInv, Refreshing
  <2> QED BY <1>2, <1>3, <2>2 DEF QuoteInv
<1> QED BY <1>5, <1>6, <1>7 DEF Quote!ClientTimeout, Quote!HubCrash, Quote!Reschedule

LEMMA IdleStep ==
    ASSUME QuoteInv, Quote!Tick \/ UNCHANGED Quote!vars
    PROVE  QuoteInv'
<1>1. /\ UNCHANGED <<known, defect, stored, hub, refresh>> /\ clock' \in Nat /\ clock <= clock' /\ clock \in Nat
  BY DEF Quote!Tick, Quote!vars, QuoteInv, World, Worlds
<1>2. Stores' BY <1>1 DEF QuoteInv, Stores
<1>3. \A s \in Quote!Set : stored["quotes"][s] <= stored'["quotes"][s]
  BY <1>1 DEF QuoteInv, Stores, Quote!Kinds
<1>4. World' \in Worlds /\ Grows(World, World') BY <1>1, <1>2, <1>3, WorldSteps
<1>5. Worked' BY <1>1, <1>4, GrowingKeeps DEF QuoteInv, Worked
<1>6. refresh.start \in Nat BY DEF QuoteInv, Refreshing, Attempts
<1>7. \A s : Awaited(s)' <=> Awaited(s) BY <1>1 DEF Awaited
<1>8. Refreshing' BY <1>1, <1>6, <1>7 DEF QuoteInv, Refreshing
<1> QED BY <1>2, <1>4, <1>5, <1>8 DEF QuoteInv

(* What every request and the refresh task know, for any monitored symbols,  *)
(* batch sizes, number of requests, faults and attempts: at each moment a    *)
(* symbol is reported, about to be fetched, or in a record that waits to be  *)
(* stored, and the refresh has every symbol stored, malformed, awaited or    *)
(* still to ask for.                                                         *)
THEOREM QuoteInvariant == ASSUME Quote!QuoteAssumption PROVE Quote!Spec => []QuoteInv
<1>1. Quote!Init => QuoteInv BY QuoteInit
<1>2. QuoteInv /\ [Quote!Next]_Quote!vars => QuoteInv'
  <2> SUFFICES ASSUME QuoteInv, [Quote!Next]_Quote!vars PROVE QuoteInv' OBVIOUS
  <2>1. CASE Quote!Tick \/ UNCHANGED Quote!vars BY <2>1, IdleStep
  <2>2. ASSUME NEW i \in Ids, Quote!Fetch(i) \/ Quote!FetchFails(i) PROVE QuoteInv' BY <2>2, FetchStep
  <2>3. ASSUME NEW i \in Ids, Quote!Persist(i) \/ Quote!PersistFails(i) PROVE QuoteInv'
    BY <2>3, PersistStep
  <2>4. ASSUME NEW i \in Ids, Quote!PersistOne(i) \/ Quote!PersistOneFails(i) PROVE QuoteInv'
    BY <2>4, PersistOneStep
  <2>5. ASSUME NEW i \in Ids, Quote!Drop(i) \/ \E kind \in OtherKinds : Quote!PostOther(i, kind)
        PROVE  QuoteInv'
    BY <2>5, CallersStep
  <2>6. ASSUME NEW i \in Ids, Quote!Post(i) PROVE QuoteInv' BY <2>6, PostStep
  <2>7. CASE Quote!StartAttempt BY <2>7, StartStep
  <2>8. CASE Quote!Answer BY <2>8, AnswerStep
  <2>9. CASE Quote!ClientTimeout \/ Quote!HubCrash \/ Quote!Reschedule BY <2>9, InterruptionStep
  <2> QED BY <2>1, <2>2, <2>3, <2>4, <2>5, <2>6, <2>7, <2>8, <2>9 DEF Quote!Next
<1> QED BY <1>1, <1>2, PTL DEF Quote!Spec

(* OneBadSymbolCostsNoOther: a request that met no outage reports every      *)
(* symbol, and as success exactly those that are well formed and known.      *)
THEOREM BadSymbolsStandAlone ==
    ASSUME Quote!QuoteAssumption PROVE Quote!Spec => []OneBadSymbolCostsNoOther
<1>1. QuoteInv => OneBadSymbolCostsNoOther
  <2> SUFFICES ASSUME QuoteInv, NEW i \in Ids, hub[i] # Nothing, hub[i].phase = "done", ~hub[i].faulted
               PROVE  LET r == hub[i] IN
                      /\ DOMAIN r.items = Quote!ToSet(r.symbols)
                      /\ \A s \in Quote!ToSet(r.symbols) :
                            r.items[s] = "success" <=>
                               IF r.kind = "quotes" THEN defect[s] = "none" /\ s \in known
                               ELSE defect[s] = "omitted" \/ (defect[s] = "none" /\ s \in known)
    BY DEF QuoteInv, Worked, OneBadSymbolCostsNoOther, Quote!OneBadSymbolCostsNoOther
  <2> DEFINE r == hub[i]
  <2>1. RequestInv(r, World) /\ Shaped(r) BY HeldRequest
  <2>2. Fetched(r, World) BY <2>1 DEF RequestInv
  <2>3. DOMAIN r.items = Quote!ToSet(r.symbols) /\ r.pending = {} BY <2>2 DEF Fetched
  <2>4. World.defect = defect /\ World.known = known BY DEF World
  <2>5. ASSUME NEW s \in Quote!ToSet(r.symbols)
        PROVE  IF defect[s] = "none"
               THEN /\ s \in known => r.items[s] = "success"
                    /\ s \notin known => r.items[s] = "PERSISTENCE_ERROR"
               ELSE r.items[s] = Said(r.kind, s, World)
    BY <2>2, <2>3, <2>4 DEF Fetched
  <2>6. ASSUME NEW s \in Quote!ToSet(r.symbols) PROVE defect[s] \in {"none", "invalid", "omitted"}
    <3>1. s \in Quote!Set BY <2>1, <2>3 DEF Shaped
    <3> QED BY <3>1 DEF QuoteInv, World, Worlds
  <2>7. ASSUME NEW s \in Quote!ToSet(r.symbols)
        PROVE  r.items[s] = "success" <=>
                  IF r.kind = "quotes" THEN defect[s] = "none" /\ s \in known
                  ELSE defect[s] = "omitted" \/ (defect[s] = "none" /\ s \in known)
    <3>1. CASE defect[s] = "none" BY <2>5, <3>1
    <3>2. CASE defect[s] = "invalid" BY <2>4, <2>5, <3>2 DEF Said
    <3>3. CASE defect[s] = "omitted" BY <2>4, <2>5, <3>3 DEF Said
    <3> QED BY <2>6, <3>1, <3>2, <3>3
  <2> QED BY <2>3, <2>7
<1> QED BY <1>1, QuoteInvariant, PTL

(* CompletedMeansFresh: a completed execute_quote_refresh left every symbol  *)
(* with a quote since its attempt began, except the malformed ones.          *)
THEOREM CompletedRefreshIsFresh ==
    ASSUME Quote!QuoteAssumption PROVE Quote!Spec => []CompletedMeansFresh
<1>1. QuoteInv => CompletedMeansFresh
  <2> SUFFICES ASSUME QuoteInv, refresh.pc = "completed", NEW s \in Quote!Set, defect[s] # "invalid"
               PROVE  stored["quotes"][s] >= refresh.start
    BY DEF CompletedMeansFresh, Quote!CompletedMeansFresh
  <2>1. s \notin Covers(refresh.batches) BY CoversNothing DEF QuoteInv, Refreshing
  <2>2. refresh.start <= stored["quotes"][s] BY <2>1 DEF QuoteInv, Refreshing, Awaited
  <2>3. refresh.start \in Nat /\ stored["quotes"][s] \in Nat
    BY DEF QuoteInv, Refreshing, Attempts, Stores, Quote!Kinds
  <2> QED BY <2>2, <2>3
<1> QED BY <1>1, QuoteInvariant, PTL
=============================================================================
