----------------------------- MODULE YieldColumn -----------------------------
(***************************************************************************)
(* The price and the dividend-yield cell of a watch table, and the yield   *)
(* of a single security.  Quotes, bars and dividends are committed by the  *)
(* Hub while a request reads them in three statements; none of the reads   *)
(* takes a lock, because quotes and unadjusted closes are not part of an   *)
(* analysis publication.                                                   *)
(*                                                                         *)
(* Time is counted in half days: a quote taken in the first half of a day  *)
(* of Shanghai still belongs to the previous day of UTC.                   *)
(***************************************************************************)
EXTENDS Integers, FiniteSets, FiniteSetsExt

CONSTANTS Securities,
          Days,           \* trading days
          Window,         \* days a year of dividends reaches back
          MaxWrites,      \* bound on committed rows
          None

Times == {2 * d : d \in Days} \union {2 * d + 1 : d \in Days}
Rows == Times \union Days
YieldAssumption ==
    /\ IsFiniteSet(Securities) /\ Days \subseteq Int /\ Window \in Int
    /\ None \notin Rows \union [source : {"quote", "close"}, row : Rows]

VARIABLES quotes,         \* quote_snapshots: timestamps per security
          closes,         \* trade dates of the unadjusted daily bars
          dividends,      \* dates of the cash dividends
          request         \* the read being served

vars == <<quotes, closes, dividends, request>>

Idle == [pc |-> "idle"]
Init ==
    /\ quotes = [s \in Securities |-> {}] /\ closes = [s \in Securities |-> {}]
    /\ dividends = [s \in Securities |-> {}]
    /\ request = Idle

Count(f) == Cardinality(UNION {{<<s, x>> : x \in f[s]} : s \in Securities})
Writable == Count(quotes) + Count(closes) + Count(dividends) < MaxWrites

StoreQuote(s, t) ==
    /\ Writable /\ quotes' = [quotes EXCEPT ![s] = @ \union {t}]
    /\ UNCHANGED <<closes, dividends, request>>
StoreClose(s, d) ==
    /\ Writable /\ closes' = [closes EXCEPT ![s] = @ \union {d}]
    /\ UNCHANGED <<quotes, dividends, request>>
StoreDividend(s, d) ==
    /\ Writable /\ dividends' = [dividends EXCEPT ![s] = @ \union {d}]
    /\ UNCHANGED <<quotes, closes, request>>

-----------------------------------------------------------------------------
(* Price and window.                                                       *)

\* The newest row of each security, None without one.
Newest(rows) == IF rows = {} THEN None ELSE Max(rows)

ShanghaiDate(t) == t \div 2
UtcDate(t) == IF t % 2 = 0 THEN ShanghaiDate(t) - 1 ELSE ShanghaiDate(t)

\* _price_data: the close wins unless the quote is of a later day.
ShownPrice(quote, close) ==
    IF close # None /\ (quote = None \/ ShanghaiDate(quote) <= close)
    THEN [source |-> "close", row |-> close]
    ELSE IF quote = None THEN None ELSE [source |-> "quote", row |-> quote]

\* _quote_is_at_least_as_fresh.
Fresh(quote, close) == close = None \/ ShanghaiDate(quote) > close

\* The price calculate_for_securities divides by, with its source.
Price(quote, close) ==
    IF quote # None /\ Fresh(quote, close)
    THEN [source |-> "quote", row |-> quote]
    ELSE IF close = None THEN None ELSE [source |-> "close", row |-> close]

\* ttm_window, inclusive at both ends; a close is dated midnight of its trade date.
WindowEnd(price) == IF price.source = "quote" THEN UtcDate(price.row) ELSE price.row
TtmWindow(price) == (WindowEnd(price) - Window)..WindowEnd(price)

\* calculate_ttm_dividend_yield: the events it counts.
Counted(events, price) == events \intersect TtmWindow(price)

\* calculate_for_securities: one query from the earliest start to the latest end.
NarrowRange(prices) == TtmWindow(CHOOSE p \in prices : \A q \in prices : WindowEnd(p) >= WindowEnd(q))
BatchRange(prices) ==
    IF prices = {} THEN {}
    ELSE (Min({WindowEnd(p) : p \in prices}) - Window)..Max({WindowEnd(p) : p \in prices})

\* _dividend_yield_projection and calculate_for_security: without a price the cell
\* carries PRICE_NOT_FOUND.
NoPrice == [error |-> "PRICE_NOT_FOUND"]
Yield(events, price) ==
    IF price = None THEN NoPrice ELSE [price |-> price, events |-> Counted(events, price)]

-----------------------------------------------------------------------------
(* A request: a table of several securities, or one security.              *)

Start(ids, batch) ==
    /\ request.pc = "idle"
    /\ request' = [pc |-> "quotes", ids |-> ids, batch |-> batch,
                   quote |-> [s \in ids |-> None], close |-> [s \in ids |-> None]]
    /\ UNCHANGED <<quotes, closes, dividends>>

\* latest_quotes_batch, latest_quote.
ReadQuotes ==
    /\ request.pc = "quotes"
    /\ request' = [request EXCEPT !.pc = "closes", !.quote = [s \in request.ids |-> Newest(quotes[s])]]
    /\ UNCHANGED <<quotes, closes, dividends>>

\* latest_daily_bars_batch, latest_daily_bar.
ReadCloses ==
    /\ request.pc = "closes"
    /\ request' = [request EXCEPT !.pc = "dividends", !.close = [s \in request.ids |-> Newest(closes[s])]]
    /\ UNCHANGED <<quotes, closes, dividends>>

PriceOf(s) == Price(request.quote[s], request.close[s])

\* dividend_events_batch and calculate_for_securities over what was read.
BatchYields ==
    LET prices == {PriceOf(s) : s \in request.ids} \ {None}
        range == BatchRange(prices)
    IN [s \in request.ids |-> Yield(dividends[s] \intersect range, PriceOf(s))]
\* calculate_for_security: the exact window of its one security.
SingleYield(s) ==
    Yield(IF PriceOf(s) = None THEN {} ELSE dividends[s] \intersect TtmWindow(PriceOf(s)), PriceOf(s))

ReadDividends ==
    /\ request.pc = "dividends"
    /\ request' = [pc |-> "response", ids |-> request.ids,
                   shown |-> [s \in request.ids |-> ShownPrice(request.quote[s], request.close[s])],
                   yield |-> IF request.batch THEN BatchYields
                             ELSE [s \in request.ids |-> SingleYield(s)],
                   stored |-> dividends]
    /\ UNCHANGED <<quotes, closes, dividends>>

Finish ==
    /\ request.pc = "response"
    /\ request' = Idle
    /\ UNCHANGED <<quotes, closes, dividends>>

Next ==
    \/ \E s \in Securities, t \in Times : StoreQuote(s, t)
    \/ \E s \in Securities, d \in Days : StoreClose(s, d) \/ StoreDividend(s, d)
    \/ Start(Securities, TRUE)
    \/ \E s \in Securities : Start({s}, FALSE)
    \/ ReadQuotes \/ ReadCloses \/ ReadDividends \/ Finish
Spec == Init /\ [][Next]_vars

-----------------------------------------------------------------------------
(* Properties.                                                             *)

\* The yield of a row of WatchTableService.detail divides by the price the row shows,
\* from the same row of the same table, and counts exactly the dividends of the twelve
\* months before that price: though the Hub commits between the reads and one query
\* over the union of all windows fetched the dividends of every security.
YieldIsOfItsRow ==
    request.pc = "response" =>
        \A s \in request.ids :
            request.yield[s] =
                IF request.shown[s] = None THEN NoPrice
                ELSE [price |-> request.shown[s],
                      events |-> request.stored[s] \intersect TtmWindow(request.shown[s])]
=============================================================================
