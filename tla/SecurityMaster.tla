---------------------------- MODULE SecurityMaster ----------------------------
(***************************************************************************)
(* The security master: the Hub's sync endpoint asks the primary source    *)
(* for the universe and AKShare for longer names, or for the universe when *)
(* the primary fails.  AKShare is a blocking call in a worker thread that  *)
(* cannot be cancelled: callers share one flight, with one deadline, and a *)
(* caller that gives up leaves it running.  The batch is reconciled in one *)
(* transaction.  The bootstrap command repeats the sync until it succeeds. *)
(*                                                                         *)
(* Callers are coroutines of one event loop: the steps below lie between   *)
(* two awaits.  Due timers fire before time goes on.                       *)
(***************************************************************************)
EXTENDS Integers, FiniteSets, FiniteSetsExt

CONSTANTS Callers,        \* requests of POST /internal/sync/securities
          Bootstrap,      \* the caller that serves run_security_bootstrap
          Symbols,
          Segments,       \* pairs of a market and a type
          Flights,        \* 1..n: AKShare calls
          Timeout,        \* seconds a flight is given; the code refuses zero
          Shrinkage,      \* tolerated loss in percent, 5 in the code
          MaxTime, MaxSyncs,
          None

\* A list of securities gives each of its symbols a market and a type.
Batches == UNION {[S -> Segments] : S \in (SUBSET Symbols) \ {{}}}
MasterAssumption == Timeout \in Nat \ {0} /\ None \notin Flights

VARIABLES clock,
          closed,         \* composite and AKShare providers refuse new work
          inflight, inflight_deadline,
          flight,         \* per flight: task state, result and, as history, when it began
          thread,         \* flights whose worker thread is inside AKShare
          caller,
          securities,     \* the ACTIVE rows: symbol -> segment
          syncs,
          bootstrap       \* state of the bootstrap command

vars == <<clock, closed, inflight, inflight_deadline, flight, thread, caller, securities, syncs, bootstrap>>
source == <<closed, inflight, inflight_deadline, flight, thread>>

Idle == [pc |-> "idle"]
Init ==
    /\ clock = 0 /\ closed = [composite |-> FALSE, akshare |-> FALSE]
    /\ inflight = None /\ inflight_deadline = None
    /\ flight = [f \in Flights |-> [state |-> "unused", result |-> None, callback |-> FALSE,
                              started |-> None]]
    /\ thread = {}
    /\ caller = [c \in Callers |-> Idle]
    /\ securities = <<>> /\ syncs = 0 /\ bootstrap = "running"

-----------------------------------------------------------------------------
(* SecurityMasterFallbackProvider.get_symbols.                             *)

Fail(c, code) == caller' = [caller EXCEPT ![c] = [pc |-> "failed", code |-> code]]
Use(c, records) == caller' = [caller EXCEPT ![c] = [pc |-> "reconcile", records |-> records]]

\* A new request.  The bootstrap command posts again after a failure that may pass.
Begin(c) ==
    /\ caller[c] = Idle /\ syncs < MaxSyncs
    /\ c = Bootstrap => bootstrap = "running"
    /\ syncs' = syncs + 1
    /\ IF closed.composite THEN Fail(c, "PROVIDER_UNAVAILABLE")
       ELSE caller' = [caller EXCEPT ![c] = [pc |-> "primary"]]
    /\ UNCHANGED <<clock, source, securities, bootstrap>>

\* The primary answers with a batch whose names are complete, or with one that may
\* hold truncated ETF names, or fails; an empty batch is a failure.
PrimaryComplete(c, batch) ==
    /\ caller[c].pc = "primary"
    /\ IF closed.composite THEN Fail(c, "PROVIDER_UNAVAILABLE")
       ELSE Use(c, batch)
    /\ UNCHANGED <<clock, source, securities, syncs, bootstrap>>
PrimaryTruncated(c, batch) ==
    /\ caller[c].pc = "primary"
    /\ IF closed.composite THEN Fail(c, "PROVIDER_UNAVAILABLE")
       ELSE caller' = [caller EXCEPT ![c] = [pc |-> "join", primary |-> batch]]
    /\ UNCHANGED <<clock, source, securities, syncs, bootstrap>>
PrimaryFails(c) ==
    /\ caller[c].pc = "primary"
    /\ IF closed.composite THEN Fail(c, "PROVIDER_UNAVAILABLE")
       ELSE caller' = [caller EXCEPT ![c] = [pc |-> "join", primary |-> <<>>]]
    /\ UNCHANGED <<clock, source, securities, syncs, bootstrap>>

\* What the composite makes of AKShare's answer: with a primary batch, longer names
\* at most (_enrich_display_names keeps symbols, markets and types; names are not
\* modelled), otherwise the batch.  A failure costs the names, or the request.
Fallback(c, batch) ==
    LET primary == caller[c].primary IN
    IF primary # <<>> THEN Use(c, primary)
    ELSE IF closed.composite THEN Fail(c, "PROVIDER_UNAVAILABLE")
    ELSE Use(c, batch)
FallbackFails(c, code) ==
    LET primary == caller[c].primary IN
    IF primary # <<>> THEN Use(c, primary) ELSE Fail(c, code)

-----------------------------------------------------------------------------
(* AkshareSecurityProvider: one flight for all callers.                    *)

Done(f) == flight[f].state = "done"
NoFlight == IF inflight = None THEN TRUE ELSE Done(inflight)

\* The deadline of a caller that joins a flight is the flight's.
OwnBudget == clock + Timeout
Deadline == inflight_deadline

\* get_symbols up to its await.
Join(c) ==
    /\ caller[c].pc = "join"
    /\ \/ /\ closed.akshare
          /\ FallbackFails(c, "PROVIDER_UNAVAILABLE")
          /\ UNCHANGED source
       \/ /\ ~closed.akshare /\ NoFlight
          /\ \E f \in Flights :
                /\ flight[f].state = "unused" /\ \A g \in Flights : g < f => flight[g].state # "unused"
                /\ flight' = [flight EXCEPT ![f].state = "running", ![f].started = clock]
                /\ inflight' = f /\ inflight_deadline' = clock + Timeout
                /\ thread' = thread \union {f}
                /\ caller' = [caller EXCEPT ![c] = [pc |-> "wait", primary |-> caller[c].primary, on |-> f,
                                                    until |-> clock + Timeout]]
          /\ UNCHANGED closed
       \/ /\ ~closed.akshare /\ ~NoFlight
          /\ IF clock >= Deadline THEN FallbackFails(c, "PROVIDER_TIMEOUT")
             ELSE caller' = [caller EXCEPT ![c] = [pc |-> "wait", primary |-> caller[c].primary, on |-> inflight,
                                                   until |-> Deadline]]
          /\ UNCHANGED source
    /\ UNCHANGED <<clock, securities, syncs, bootstrap>>

\* _fetch_batch_blocking returns or raises: the task is done, its callback is queued.
FlightEnds(f, result) ==
    /\ f \in thread
    /\ thread' = thread \ {f}
    /\ flight' = [flight EXCEPT ![f].state = "done", ![f].result = result, ![f].callback = TRUE]
    /\ UNCHANGED <<clock, closed, inflight, inflight_deadline, caller, securities, syncs, bootstrap>>

\* _flight_done: only the flight that is still registered is forgotten.
AnyFlight(f) == TRUE
Registered(f) == inflight = f
FlightDone(f) ==
    /\ Done(f) /\ flight[f].callback
    /\ flight' = [flight EXCEPT ![f].callback = FALSE]
    /\ IF Registered(f) THEN inflight' = None /\ inflight_deadline' = None
       ELSE UNCHANGED <<inflight, inflight_deadline>>
    /\ UNCHANGED <<clock, closed, thread, caller, securities, syncs, bootstrap>>

\* The awaiting caller resumes with the flight's outcome (a source may fail with a
\* timeout of its own), or with its timeout.
Deliver(c) ==
    /\ caller[c].pc = "wait" /\ Done(caller[c].on)
    /\ LET result == flight[caller[c].on].result
       IN IF result # None THEN Fallback(c, result)
          ELSE \E code \in {"PROVIDER_UNAVAILABLE", "PROVIDER_TIMEOUT"} : FallbackFails(c, code)
    /\ UNCHANGED <<clock, source, securities, syncs, bootstrap>>
\* wait_for gives up, the shielded flight goes on.
Expire(c) ==
    /\ caller[c].pc = "wait" /\ ~Done(caller[c].on) /\ clock >= caller[c].until
    /\ FallbackFails(c, "PROVIDER_TIMEOUT")
    /\ UNCHANGED <<clock, source, securities, syncs, bootstrap>>

Due == \E c \in Callers : caller[c].pc = "wait" /\ clock >= caller[c].until
Tick ==
    /\ clock < MaxTime /\ ~Due
    /\ clock' = clock + 1
    /\ UNCHANGED <<source, caller, securities, syncs, bootstrap>>

\* aclose of the composite, then of the AKShare provider; neither starts work again.
CloseComposite ==
    /\ ~closed.composite
    /\ closed' = [closed EXCEPT !.composite = TRUE]
    /\ UNCHANGED <<clock, inflight, inflight_deadline, flight, thread, caller, securities, syncs, bootstrap>>
CloseAkshare ==
    /\ closed.composite /\ ~closed.akshare
    /\ closed' = [closed EXCEPT !.akshare = TRUE]
    /\ UNCHANGED <<clock, inflight, inflight_deadline, flight, thread, caller, securities, syncs, bootstrap>>

-----------------------------------------------------------------------------
(* SecuritySyncService.sync, the endpoint and the bootstrap command.       *)

\* validate_security_snapshot: at most Shrinkage percent of the active rows are missing,
\* and no segment has shrunk by more.
Segment(rows, k) == Cardinality({s \in DOMAIN rows : rows[s] = k})
Plausible(batch) ==
    /\ 100 * Cardinality(DOMAIN securities \ DOMAIN batch) <= Shrinkage * Cardinality(DOMAIN securities)
    /\ \A k \in Segments : 100 * Segment(batch, k) >= (100 - Shrinkage) * Segment(securities, k)

\* reconcile_snapshot: under the advisory lock the batch is compared and upserted in
\* one transaction; the sources declare no authority to remove a symbol.
Reconcile(c) ==
    LET records == caller[c].records IN
    /\ caller[c].pc = "reconcile"
    /\ \/ /\ Plausible(records)
          /\ securities' = [s \in DOMAIN securities \union DOMAIN records |->
                               IF s \in DOMAIN records THEN records[s] ELSE securities[s]]
          /\ caller' = [caller EXCEPT ![c] = [pc |-> "synced"]]
       \/ /\ ~Plausible(records)
          /\ Fail(c, "PERSISTENCE_ERROR")
          /\ UNCHANGED securities
    /\ UNCHANGED <<clock, source, syncs, bootstrap>>

\* _has_retryable_error_code: every item of the failed envelope may pass.
Retryable(code) == code \in {"PROVIDER_TIMEOUT", "PROVIDER_UNAVAILABLE", "PERSISTENCE_ERROR"}
Respond(c) ==
    /\ caller[c].pc \in {"synced", "failed"}
    /\ caller' = [caller EXCEPT ![c] = Idle]
    /\ bootstrap' = IF c # Bootstrap THEN bootstrap
                    ELSE IF caller[c].pc = "synced" THEN "exit 0"
                    ELSE IF Retryable(caller[c].code) THEN "running" ELSE "exit 1"
    /\ UNCHANGED <<clock, source, securities, syncs>>

Next ==
    \/ Tick \/ CloseComposite \/ CloseAkshare
    \/ \E f \in Flights : FlightDone(f) \/ \E r \in Batches \union {None} : FlightEnds(f, r)
    \/ \E c \in Callers :
          \/ Begin(c) \/ PrimaryFails(c) \/ Join(c) \/ Deliver(c) \/ Expire(c) \/ Reconcile(c) \/ Respond(c)
          \/ \E batch \in Batches : PrimaryComplete(c, batch) \/ PrimaryTruncated(c, batch)
Spec == Init /\ [][Next]_vars

-----------------------------------------------------------------------------
(* Properties.                                                             *)

\* However callers time out, retry or arrive between the end of a flight and its
\* callback, at most one thread of the process is inside AKShare.
OneSourceCall == Cardinality(thread) <= 1

\* A late caller does not extend the budget of the call it joins: nobody waits for a
\* flight longer than Timeout after it began, however flights, callbacks and callers
\* follow on each other.
BudgetIsTheFlights ==
    \A c \in DOMAIN caller : caller[c].pc = "wait" =>
        clock <= flight[caller[c].on].started + Timeout
=============================================================================
