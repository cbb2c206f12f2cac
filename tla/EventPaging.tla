----------------------------- MODULE EventPaging -----------------------------
(***************************************************************************)
(* A client that pages through GET /securities/{symbol}/states/events by   *)
(* sequence number while StateTimeline republishes the stream underneath.  *)
(* Each page is one request under the shared stream lock; between two      *)
(* pages anything may be published.  state_generation is the version the   *)
(* client must repeat.                                                     *)
(***************************************************************************)
EXTENDS StateTimeline

CONSTANTS WindowDays,  \* length of the default history window
          PageLimit    \* events per page: the limit of the query, at least 1

PagingAssumption == PageLimit \in Nat \ {0}

VARIABLE reader
pagingVars == <<vars, reader>>

NoReader == [phase |-> "idle", generation |-> 0, cursor |-> 0, pages |-> {}]

PagingInit == Init /\ reader = NoReader

-----------------------------------------------------------------------------
(* The default window ends at the current observation.                      *)
WindowEnd == IF current.day = None THEN state_through ELSE current.day
InWindow == {e \in Valid : WindowEnd - WindowDays < e.day /\ e.day <= WindowEnd}

(* StateEventRepository.events: the next page in sequence order.            *)
Page(after) ==
    LET rows == {e \in InWindow : after < e.seq}
    IN {e \in rows : Cardinality({f \in rows : f.seq < e.seq}) < PageLimit}

(* A stream never published, or being rebuilt, is refused.                  *)
Readable == state_through # None /\ dirty_from = None

ReadPage(after, collected) ==
    LET page == Page(after)
        more == page # {e \in InWindow : after < e.seq}
    IN /\ Readable
       /\ reader' = [phase |-> IF more THEN "paging" ELSE "done",
                     generation |-> state_generation,
                     cursor |-> IF more
                                  THEN (CHOOSE e \in page : \A f \in page : f.seq <= e.seq).seq
                                  ELSE 0,
                     pages |-> collected \union page]
       /\ UNCHANGED vars

FirstPage == ReadPage(0, {})

(* A later page is refused (409) unless it names the current version.       *)
SameVersion == reader.generation = state_generation
NextPage == reader.phase = "paging" /\ SameVersion /\ ReadPage(reader.cursor, reader.pages)

PagingNext == (Next /\ UNCHANGED reader) \/ FirstPage \/ NextPage

PagingSpec == PagingInit /\ [][PagingNext]_pagingVars

-----------------------------------------------------------------------------
(* A client that completes a pagination holds exactly the valid events of   *)
(* the window of one publication: no page of an older timeline, no gap,     *)
(* even when a correction retires an event without inserting one or the     *)
(* window moves between two of its requests.                                *)
PagesAreOnePublication ==
    [][reader' # reader /\ reader'.phase = "done" => reader'.pages = InWindow]_pagingVars
=============================================================================
