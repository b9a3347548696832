----------------------------- MODULE HistoryPages -----------------------------
(***************************************************************************)
(* One history view of the Explorer: the React hook useHistoryPages        *)
(* (apps/explorer/src/lib/use-history-pages.ts), the requests it has in    *)
(* flight, and the server's pages by date (api/query.py, the history       *)
(* routes) over rows that ingestion keeps inserting.                       *)
(*                                                                         *)
(* A page is a set of rows; its order is Precedes.  A callback sees what   *)
(* its render saw: `seen` is the state the last render closed over, `tick` *)
(* the state setTick updates.  Effects run after the render of a new key   *)
(* or of a new `enabled`, and callbacks may come in between.               *)
(***************************************************************************)
EXTENDS Integers, Sequences, FiniteSets

CONSTANTS Rows,        \* records with a date and a price type, both in Nat
          Keys,        \* what the view may show: identifier and filters
          Selects,     \* Selects[k]: the rows a key's identifier and filters match
          Limit,       \* page size
          MaxMoves,    \* bound: navigations and toggles of enabled
          NoCursor, NoReq, NoReply

ASSUME RowsAssumption == \A r \in Rows : r.date \in Nat /\ r.type \in Nat
ASSUME SelectsAssumption == Selects \in [Keys -> SUBSET Rows] /\ Keys # {}
ASSUME OneRowPerType ==
    \A k \in Keys : \A r, q \in Selects[k] : r.date = q.date /\ r.type = q.type => r = q
ASSUME BoundsAssumption == Limit \in Nat \ {0} /\ MaxMoves \in Nat

Cursors == {r.date : r \in Rows} \cup {NoCursor}
ASSUME NoCursorAssumption == NoCursor \notin {r.date : r \in Rows}

VARIABLES
    db,       \* rows in the database
    key,      \* the key of the last render
    enabled,  \* and its enabled
    tick,     \* React state of the hook
    seen,     \* the tick of the last render
    due,      \* the effect of the last render has not run yet
    cleanup,  \* the last effect that ran left a cleanup function
    first,    \* first-page request in flight, not aborted
    more,     \* loadMore request in flight, not aborted
    lost,     \* the first page came without its body
    moves     \* counter behind MaxMoves

requests == <<first, more>>
vars == <<db, key, enabled, tick, seen, due, cleanup, requests, lost, moves>>

\* base: the rows of the key that were stored when a page was asked for, and of a
\* list when each of its pages was.
Replies == [rows: SUBSET Rows, next: Cursors]
Requests == [key: Keys, cursor: Cursors, base: SUBSET Rows, reply: Replies \cup {NoReply}]
ASSUME NoReqAssumption == NoReq \notin Requests
Ticks == [key: Keys, status: {"loading", "success", "error"}, pages: Seq(SUBSET Rows),
          next: Cursors, more: BOOLEAN, base: SUBSET Rows]

TypeOK ==
    /\ db \subseteq Rows
    /\ key \in Keys /\ enabled \in BOOLEAN /\ {due, cleanup} \subseteq BOOLEAN /\ lost \in BOOLEAN
    /\ {tick, seen} \subseteq Ticks /\ requests \in (Requests \cup {NoReq}) \X (Requests \cup {NoReq})
    /\ moves \in 0..MaxMoves

LoadingTick(k) == [key |-> k, status |-> "loading", pages |-> <<>>, next |-> NoCursor,
                   more |-> FALSE, base |-> {}]

Init ==
    /\ db \in SUBSET Rows
    /\ key \in Keys /\ enabled \in BOOLEAN
    /\ tick = LoadingTick(key) /\ seen = tick /\ due = TRUE /\ cleanup = FALSE
    /\ first = NoReq /\ more = NoReq /\ lost = FALSE /\ moves = 0

-------------------------------------------------------------------------------
(* The server *)

\* Mutant: the cursor date itself belongs to no page.
WindowBeforeCursor(k, c) == {r \in db \cap Selects[k] : c = NoCursor \/ r.date < c}

\* parse_history_window and apply_history_window: a cursor lowers the end date.
Window(k, c) == {r \in db \cap Selects[k] : c = NoCursor \/ r.date <= c}

\* ORDER BY reference_date DESC, price_type ASC; DISTINCT ON leaves one row of each.
Precedes(q, r) == q.date > r.date \/ (q.date = r.date /\ q.type < r.type)

\* LIMIT limit + 1
FetchedRows(rows) == {r \in rows : Cardinality({q \in rows : Precedes(q, r)}) <= Limit}

OldestDate(rows) == CHOOSE d \in {r.date : r \in rows} : \A r \in rows : d <= r.date

\* paginate_by_date: the date a page overflows into moves to the next page as a
\* whole; a page within one date has no next page.
Paginate(fetched) ==
    LET whole == {r \in fetched : r.date # OldestDate(fetched)}
    IN  IF Cardinality(fetched) <= Limit \/ whole = {}
          THEN [rows |-> fetched, next |-> NoCursor]
          ELSE [rows |-> whole, next |-> OldestDate(fetched)]

Answered(q) ==
    [q EXCEPT !.reply = Paginate(FetchedRows(Window(q.key, q.cursor)))]

Request(c) == [key |-> key, cursor |-> c, base |-> db \cap Selects[key], reply |-> NoReply]

\* Ingestion commits a row.
Insert(r) ==
    /\ db' = db \cup {r}
    /\ UNCHANGED <<key, enabled, tick, seen, due, cleanup, requests, lost, moves>>

Answer ==
    /\ \/ first # NoReq /\ first.reply = NoReply /\ first' = Answered(first) /\ UNCHANGED more
       \/ more # NoReq /\ more.reply = NoReply /\ more' = Answered(more) /\ UNCHANGED first
    /\ UNCHANGED <<db, key, enabled, tick, seen, due, cleanup, lost, moves>>

-------------------------------------------------------------------------------
(* The hook *)

\* A render with another key or another enabled; its effect is due.
Move(k, on) ==
    /\ ~due /\ <<k, on>> # <<key, enabled>>
    /\ moves < MaxMoves /\ moves' = moves + 1
    /\ key' = k /\ enabled' = on /\ seen' = tick /\ due' = TRUE
    /\ UNCHANGED <<db, tick, cleanup, requests, lost>>

Render ==
    /\ seen # tick /\ seen' = tick
    /\ UNCHANGED <<db, key, enabled, tick, due, cleanup, requests, lost, moves>>

\* The cleanup aborts what the last effect has in flight; the effect fetches. One
\* that finds the hook disabled leaves no cleanup.
RunEffect ==
    /\ due /\ due' = FALSE /\ cleanup' = enabled
    /\ more' = (IF cleanup \/ ~enabled THEN NoReq ELSE more) /\ lost' = FALSE
    /\ first' = IF enabled THEN Request(NoCursor) ELSE NoReq
    /\ UNCHANGED <<db, key, enabled, tick, seen, moves>>

\* Mutant: the callback labels the page with the key of the moment.
DeliverFirstToCurrentKey ==
    /\ first # NoReq /\ first.reply # NoReply
    /\ tick' = [key |-> key, status |-> "success", pages |-> <<first.reply.rows>>,
                next |-> first.reply.next, more |-> FALSE, base |-> first.base]
    /\ first' = NoReq
    /\ UNCHANGED <<db, key, enabled, seen, due, cleanup, more, lost, moves>>

DeliverFirst ==
    /\ first # NoReq /\ first.reply # NoReply
    /\ tick' = [key |-> first.key, status |-> "success", pages |-> <<first.reply.rows>>,
                next |-> first.reply.next, more |-> FALSE, base |-> first.base]
    /\ first' = NoReq
    /\ UNCHANGED <<db, key, enabled, seen, due, cleanup, more, lost, moves>>

FirstFails ==
    /\ first # NoReq
    /\ tick' = [LoadingTick(first.key) EXCEPT !.status = "error"]
    /\ first' = NoReq
    /\ UNCHANGED <<db, key, enabled, seen, due, cleanup, more, lost, moves>>

\* The connection breaks within the body: apiFetch returns null, itemsOf throws
\* in the success callback, nothing handles it.
FirstBodyLost ==
    /\ first # NoReq /\ first.reply # NoReply
    /\ first' = NoReq /\ lost' = TRUE
    /\ UNCHANGED <<db, key, enabled, tick, seen, due, cleanup, more, moves>>

\* A click on the button of the last render.
LoadMore ==
    /\ enabled /\ seen.key = key /\ ~seen.more /\ seen.next # NoCursor
    /\ more' = Request(seen.next)
    /\ tick' = IF tick.key # key \/ tick.next # seen.next THEN tick
               ELSE [tick EXCEPT !.more = TRUE]
    /\ UNCHANGED <<db, key, enabled, seen, due, cleanup, first, lost, moves>>

\* Mutant: an absent next_cursor stays undefined.
AppendedUndefinedCursor(t, q) ==
    [t EXCEPT !.status = "success", !.pages = Append(@, q.reply.rows), !.more = FALSE,
              !.next = IF q.reply.next = NoCursor THEN NoReply ELSE q.reply.next,
              !.base = @ \cap q.base]

Appended(t, q) ==
    [t EXCEPT !.status = "success", !.pages = Append(@, q.reply.rows), !.next = q.reply.next,
              !.more = FALSE, !.base = @ \cap q.base]

\* Mutant: a late page is appended whatever the list has become.
DeliverMoreUnchecked ==
    /\ more # NoReq /\ more.reply # NoReply
    /\ tick' = IF tick.key # more.key THEN tick ELSE Appended(tick, more)
    /\ more' = NoReq
    /\ UNCHANGED <<db, key, enabled, seen, due, cleanup, first, lost, moves>>

\* The page is appended only to the list whose cursor asked for it.
DeliverMore ==
    /\ more # NoReq /\ more.reply # NoReply
    /\ tick' = IF tick.key # more.key \/ tick.next # more.cursor THEN tick
               ELSE Appended(tick, more)
    /\ more' = NoReq
    /\ UNCHANGED <<db, key, enabled, seen, due, cleanup, first, lost, moves>>

\* Mutant: an error leaves loadingMore set.
MoreFailsStillLoading ==
    /\ more # NoReq
    /\ tick' = [tick EXCEPT !.status = "error"]
    /\ more' = NoReq
    /\ UNCHANGED <<db, key, enabled, seen, due, cleanup, first, lost, moves>>

MoreFails ==
    /\ more # NoReq
    /\ tick' = [tick EXCEPT !.status = "error", !.more = FALSE]
    /\ more' = NoReq
    /\ UNCHANGED <<db, key, enabled, seen, due, cleanup, first, lost, moves>>

\* itemsOf(null) throws in the state updater: the render fails and the user
\* mounts the page again; a list that has moved on ignores the page.
MoreBodyLost ==
    /\ more # NoReq /\ more.reply # NoReply
    /\ IF tick.key # more.key \/ tick.next # more.cursor
         THEN UNCHANGED <<tick, seen, due, cleanup, first, lost>>
         ELSE /\ tick' = LoadingTick(key) /\ seen' = LoadingTick(key)
              /\ due' = TRUE /\ cleanup' = FALSE /\ first' = NoReq /\ lost' = FALSE
    /\ more' = NoReq
    /\ UNCHANGED <<db, key, enabled, moves>>

Next ==
    \/ \E r \in Rows \ db : Insert(r)
    \/ \E k \in Keys, on \in BOOLEAN : Move(k, on)
    \/ Answer \/ Render \/ RunEffect \/ LoadMore
    \/ DeliverFirst \/ FirstFails \/ FirstBodyLost
    \/ DeliverMore \/ MoreFails \/ MoreBodyLost

Spec == Init /\ [][Next]_vars

-------------------------------------------------------------------------------
(* Properties *)

RowsOf(t) == UNION {t.pages[i] : i \in 1..Len(t.pages)}

\* What the view shows belongs to the identifier and the filters it names,
\* whichever answers arrive after the user moved on.
ShownBelongsToKey == enabled /\ tick.key = key => RowsOf(tick) \subseteq Selects[key]

\* Page after page the dates go down: no row is shown twice and none out of
\* order, whatever was inserted between two requests, clicked twice or fetched again.
PagesDescend ==
    \A i, j \in 1..Len(tick.pages) : i < j =>
      \A r \in tick.pages[i], q \in tick.pages[j] : r.date > q.date

\* Nothing is skipped: a row that was stored when the view asked for each page of the
\* list is shown, or still to come at or below the cursor. Without a next page all are
\* shown. The first page is not always the first asked for: a click between a render
\* that enables the hook and its effect asks for a page the effect does not abort.
NothingSkipped ==
    \A r \in tick.base :
      r \in RowsOf(tick) \/ (tick.next # NoCursor /\ r.date <= tick.next)

\* A spinner always has a request behind it that will end it, unless the first
\* page came without its body.
SpinnerMeansRequest ==
    enabled /\ ~due /\ (tick.key # key \/ tick.status = "loading" \/ tick.more) =>
      first # NoReq \/ more # NoReq \/ lost
===============================================================================
