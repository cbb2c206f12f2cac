----------------------------- MODULE QuoteRefresh -----------------------------
(***************************************************************************)
(* Quotes and dividends: the Hub request that fetches a batch of symbols   *)
(* from the provider, isolates the malformed ones by bisection, persists   *)
(* the rest and isolates the symbols the database refuses; and the Celery  *)
(* task that refreshes the quotes of all monitored symbols batch by batch  *)
(* and starts over when a failure may pass.  The provider and the database *)
(* fail, the client gives up while the Hub goes on, and the Hub restarts.  *)
(***************************************************************************)
EXTENDS Integers, Sequences, FiniteSets, FiniteSetsExt, SequencesExt

CONSTANTS Symbols,        \* sequence of the monitored symbols, in symbol order
          BatchSize,      \* market_data_sync_batch_size of the backend
          ChunkSize,      \* batch_size of QuoteSyncService
          Ids,            \* Hub requests in flight
          OtherKinds,     \* kinds of requests other callers post
          MaxTime, MaxFaults, MaxAttempts,
          None

Set == ToSet(Symbols)
Kinds == {"quotes", "dividends"}

VARIABLES known,          \* symbols with a securities row
          defect,         \* what the provider says of a symbol
          clock,
          stored,         \* time of the newest stored quote, or of the stored dividends
          hub,            \* requests the Hub works on
          task,           \* the refresh task
          faults          \* faults so far

vars == <<known, defect, clock, stored, hub, task, faults>>

\* A request the Hub works on; times are paired with the symbols they are of.
Codes == {"success", "INVALID_MARKET_DATA", "PROVIDER_UNAVAILABLE", "PERSISTENCE_ERROR"}
Reports == UNION {[symbols -> Codes] : symbols \in SUBSET Set}
Requests ==
    [kind : Kinds, symbols : Seq(Set), start : Nat,
     phase : {"fetch", "persist", "isolate", "done", "error"},
     rest : Seq(Seq(Set)), work : Seq(Seq(Set)), chunk : Seq(Set),
     staged : SUBSET (Set \X Nat), pending : SUBSET (Set \X Nat),
     items : Reports, faulted : BOOLEAN]

\* Without a monitored symbol execute_quote_refresh is skipped; batch sizes are positive.
QuoteAssumption ==
    /\ Symbols \in Seq(Set) /\ Symbols # <<>>
    /\ BatchSize \in Nat \ {0} /\ ChunkSize \in Nat \ {0}
    /\ OtherKinds \subseteq Kinds /\ None \notin Requests

\* Sequence cut into pieces of n, as range(0, len, n) does.
Chunks(seq, n) ==
    [i \in 1..((Len(seq) + n - 1) \div n) |-> SubSeq(seq, (i - 1) * n + 1, Min({i * n, Len(seq)}))]

NoTask == [pc |-> "idle", attempt |-> 0, start |-> 0, batches |-> <<>>, id |-> None]
Init ==
    /\ known \in SUBSET Set
    /\ defect \in [Set -> {"none", "invalid", "omitted"}]
    /\ clock = 1 /\ faults = 0
    /\ stored = [k \in Kinds |-> [s \in Set |-> 0]]
    /\ hub = [i \in Ids |-> None]
    /\ task = NoTask

Tick ==
    /\ clock < MaxTime
    /\ clock' = clock + 1
    /\ UNCHANGED <<known, defect, stored, hub, task, faults>>

-----------------------------------------------------------------------------
(* The Hub request.                                                        *)

\* QuoteSyncService.sync and DividendSyncService.sync after _canonicalize_symbols:
\* quotes are fetched chunk by chunk, dividends symbol by symbol.
NewRequest(kind, symbols) ==
    [kind |-> kind, symbols |-> symbols, start |-> clock, phase |-> "fetch",
     rest |-> Chunks(symbols, IF kind = "quotes" THEN ChunkSize ELSE 1),
     work |-> <<>>, chunk |-> <<>>, staged |-> {}, pending |-> {},
     items |-> [s \in {} |-> ""], faulted |-> FALSE]

\* The next chunk, or the end of fetching, once the pieces of a chunk are done.
Advance(r) ==
    IF r.work # <<>> THEN r
    ELSE IF r.rest # <<>>
         THEN [r EXCEPT !.work = <<Head(r.rest)>>, !.chunk = Head(r.rest), !.rest = Tail(r.rest),
                        !.pending = @ \union r.staged, !.staged = {}]
         ELSE [r EXCEPT !.phase = "persist", !.pending = @ \union r.staged, !.staged = {}]

Report(items, symbols, code) == [s \in symbols \union DOMAIN items |-> IF s \in symbols THEN code ELSE items[s]]

\* _fetch_with_invalid_symbol_isolation: a piece with a malformed record is halved
\* until the record stands alone.
NoHalves(piece) == <<>>
Halves(piece) ==
    LET middle == Len(piece) \div 2
    IN <<SubSeq(piece, 1, middle), SubSeq(piece, middle + 1, Len(piece))>>
Isolate(r, piece) ==
    IF Len(piece) = 1
    THEN [r EXCEPT !.work = Tail(@), !.items = Report(@, ToSet(piece), "INVALID_MARKET_DATA")]
    ELSE [r EXCEPT !.work = Halves(piece) \o Tail(@)]

\* A piece the provider answers: an omitted quote is PROVIDER_UNAVAILABLE, a stock
\* without dividends has nothing to store.
Accept(r, piece) ==
    LET answered == {s \in ToSet(piece) : defect[s] = "none"}
        silent == ToSet(piece) \ answered
        reported == Report(r.items, answered, "success")
    IN [r EXCEPT !.work = Tail(@), !.staged = @ \union {<<s, clock>> : s \in answered},
                 !.items = Report(reported, silent, IF r.kind = "quotes" THEN "PROVIDER_UNAVAILABLE"
                                                    ELSE "success")]

Fetch(i) ==
    LET r == hub[i]
        piece == Head(r.work)
    IN
    /\ r # None /\ r.phase = "fetch"
    /\ hub' = [hub EXCEPT ![i] =
          Advance(IF \E s \in ToSet(piece) : defect[s] = "invalid" THEN Isolate(r, piece)
                  ELSE Accept(r, piece))]
    /\ UNCHANGED <<known, defect, clock, stored, task, faults>>

Fault == faults < MaxFaults /\ faults' = faults + 1

\* The provider is unavailable: the error leaves the recursion, and the whole chunk
\* fails with it.
FetchFails(i) ==
    LET r == hub[i] IN
    /\ r # None /\ r.phase = "fetch"
    /\ Fault
    /\ hub' = [hub EXCEPT ![i] =
          Advance([r EXCEPT !.work = <<>>, !.staged = {}, !.faulted = TRUE,
                            !.items = Report(@, ToSet(r.chunk), "PROVIDER_UNAVAILABLE")])]
    /\ UNCHANGED <<known, defect, clock, stored, task>>

\* upsert_many of the two repositories: a quote is a row of its own time, the amount
\* of a dividend is overwritten.
Kept(kind, times, old) == IF kind = "quotes" THEN Max(times \union {old}) ELSE Max(times)
Upsert(kind, records) ==
    stored' = [stored EXCEPT ![kind] = [s \in Set |->
        LET times == {x[2] : x \in {x \in records : x[1] = s}}
        IN IF times = {} THEN @[s] ELSE Kept(kind, times, @[s])]]

SymbolsOf(records) == {x[1] : x \in records}

\* _persist_with_isolation, the batch: a missing securities row refuses it whole.
Persist(i) ==
    LET r == hub[i] IN
    /\ r # None /\ r.phase = "persist"
    /\ \/ /\ SymbolsOf(r.pending) \subseteq known
          /\ Upsert(r.kind, r.pending)
          /\ hub' = [hub EXCEPT ![i].phase = "done", ![i].pending = {}]
       \/ /\ ~SymbolsOf(r.pending) \subseteq known
          /\ hub' = [hub EXCEPT ![i].phase = "isolate"]
          /\ UNCHANGED stored
    /\ UNCHANGED <<known, defect, clock, task, faults>>

\* A systemic database error: the request answers 503; the commit may have happened.
PersistFails(i) ==
    LET r == hub[i] IN
    /\ r # None /\ r.phase = "persist" /\ r.pending # {}
    /\ Fault
    /\ \/ UNCHANGED stored
       \/ SymbolsOf(r.pending) \subseteq known /\ Upsert(r.kind, r.pending)
    /\ hub' = [hub EXCEPT ![i].phase = "error", ![i].faulted = TRUE]
    /\ UNCHANGED <<known, defect, clock, task>>

\* _persist_with_isolation, symbol by symbol.
Refused == "PERSISTENCE_ERROR"
PersistOne(i) ==
    LET r == hub[i]
        x == CHOOSE x \in r.pending : TRUE
        left == r.pending \ {x}
        phase == IF left = {} THEN "done" ELSE "isolate"
        Outcome(code) == hub' = [hub EXCEPT ![i].pending = left, ![i].phase = phase,
                                            ![i].items = Report(@, {x[1]}, code)]
    IN
    /\ r # None /\ r.phase = "isolate"
    /\ \/ x[1] \in known /\ Upsert(r.kind, {x}) /\ Outcome("success")
       \/ x[1] \notin known /\ UNCHANGED stored /\ Outcome(Refused)
    /\ UNCHANGED <<known, defect, clock, task, faults>>

\* Any error of the single upsert is reported for its symbol, committed or not.
PersistOneFails(i) ==
    LET r == hub[i]
        x == CHOOSE x \in r.pending : TRUE
        left == r.pending \ {x}
    IN
    /\ r # None /\ r.phase = "isolate" /\ x[1] \in known
    /\ Fault
    /\ UNCHANGED stored \/ Upsert(r.kind, {x})
    /\ hub' = [hub EXCEPT ![i].pending = left, ![i].phase = IF left = {} THEN "done" ELSE "isolate",
                          ![i].items = Report(@, {x[1]}, Refused), ![i].faulted = TRUE]
    /\ UNCHANGED <<known, defect, clock, task>>

Finished(r) == r.phase \in {"done", "error"}

\* A request of another caller: dividends for the pipeline, quotes for an operator.
PostOther(i, kind) ==
    /\ hub[i] = None
    /\ hub' = [hub EXCEPT ![i] = Advance(NewRequest(kind, Symbols))]
    /\ UNCHANGED <<known, defect, clock, stored, task, faults>>
\* Nobody waits for the answer of a request.
Drop(i) ==
    /\ hub[i] # None /\ Finished(hub[i]) /\ task.id # i
    /\ hub' = [hub EXCEPT ![i] = None]
    /\ UNCHANGED <<known, defect, clock, stored, task, faults>>

-----------------------------------------------------------------------------
(* The refresh task.                                                       *)

\* _RETRYABLE_ERROR_CODES of the backend's client.
ProviderOnly == {"PROVIDER_UNAVAILABLE"}
Retryable == {"PROVIDER_UNAVAILABLE", "PERSISTENCE_ERROR"}

\* execute_quote_refresh: one attempt of the Celery task.
StartAttempt ==
    /\ task.pc \in {"idle", "retry"} /\ task.attempt < MaxAttempts
    /\ task' = [pc |-> "post", attempt |-> task.attempt + 1, start |-> clock,
                batches |-> Chunks(Symbols, BatchSize), id |-> None]
    /\ UNCHANGED <<known, defect, clock, stored, hub, faults>>

Post(i) ==
    /\ task.pc = "post" /\ hub[i] = None
    /\ hub' = [hub EXCEPT ![i] = Advance(NewRequest("quotes", Head(task.batches)))]
    /\ task' = [task EXCEPT !.pc = "wait", !.id = i, !.batches = Tail(@)]
    /\ UNCHANGED <<known, defect, clock, stored, faults>>

\* The answer: a retryable item, or a 503, raises and the task starts over.
Answer ==
    LET r == hub[task.id]
        retry == r.phase = "error" \/ \E s \in DOMAIN r.items : r.items[s] \in Retryable
    IN
    /\ task.pc = "wait" /\ r # None /\ Finished(r)
    /\ task' = [task EXCEPT !.id = None,
                            !.pc = IF retry THEN "retry"
                                   ELSE IF task.batches = <<>> THEN "completed" ELSE "post"]
    /\ UNCHANGED <<known, defect, clock, stored, hub, faults>>

\* The client's timeout: the Hub knows nothing of it and works on.
ClientTimeout ==
    /\ task.pc = "wait"
    /\ Fault
    /\ task' = [task EXCEPT !.pc = "retry", !.id = None]
    /\ UNCHANGED <<known, defect, clock, stored, hub>>

HubCrash ==
    /\ \E i \in Ids : hub[i] # None
    /\ Fault
    /\ hub' = [i \in Ids |-> None]
    /\ task' = IF task.pc = "wait" THEN [task EXCEPT !.pc = "retry", !.id = None] ELSE task
    /\ UNCHANGED <<known, defect, clock, stored>>

\* The next scheduled refresh.
Reschedule ==
    /\ task.pc = "completed" \/ (task.pc = "retry" /\ task.attempt = MaxAttempts)
    /\ task' = NoTask
    /\ UNCHANGED <<known, defect, clock, stored, hub, faults>>

Next ==
    \/ Tick
    \/ \E i \in Ids : \/ Fetch(i) \/ FetchFails(i) \/ Persist(i) \/ PersistFails(i)
                      \/ PersistOne(i) \/ PersistOneFails(i)
                      \/ Drop(i) \/ Post(i)
                      \/ \E kind \in OtherKinds : PostOther(i, kind)
    \/ StartAttempt \/ Answer \/ ClientTimeout \/ HubCrash \/ Reschedule
Spec == Init /\ [][Next]_vars

-----------------------------------------------------------------------------
(* Properties.                                                             *)

\* A Hub request that met no outage reports every symbol, and reports as success
\* exactly the symbols whose own record is well formed and whose security exists: the
\* bisection and the persistence fallback never make one symbol pay for another.
OneBadSymbolCostsNoOther ==
    \A i \in DOMAIN hub :
        LET r == hub[i] IN
        r # None /\ r.phase = "done" /\ ~r.faulted =>
            /\ DOMAIN r.items = ToSet(r.symbols)
            /\ \A s \in ToSet(r.symbols) :
                  r.items[s] = "success" <=>
                      IF r.kind = "quotes" THEN defect[s] = "none" /\ s \in known
                      ELSE defect[s] = "omitted" \/ (defect[s] = "none" /\ s \in known)

\* A completed execute_quote_refresh left every symbol with a quote taken since the
\* attempt began, except those whose record the provider itself has malformed,
\* whatever the requests of earlier attempts still write.
CompletedMeansFresh ==
    task.pc = "completed" =>
        \A s \in Set : defect[s] # "invalid" => stored["quotes"][s] >= task.start
=============================================================================
