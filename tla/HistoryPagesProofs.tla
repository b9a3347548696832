-------------------------- MODULE HistoryPagesProofs --------------------------
(***************************************************************************)
(* Proofs about a history view: for any rows, keys, page size and number   *)
(* of navigations, what it shows is of its key and in order, and a spinner *)
(* has a request behind it.                                                *)
(***************************************************************************)
EXTENDS HistoryPages, NaturalSets, SequenceTheorems

-------------------------------------------------------------------------------
(* Pages of the server *)

\* OldestDate names the oldest date of a page.
LEMMA OldestIsOldest ==
    ASSUME NEW rows \in SUBSET Rows, rows # {}
    PROVE  /\ OldestDate(rows) \in {r.date : r \in rows}
           /\ \A r \in rows : OldestDate(rows) <= r.date
<1> DEFINE dates == {r.date : r \in rows}
<1>1. dates \in SUBSET Nat /\ dates # {}
  BY RowsAssumption
<1>2. PICK d \in dates : \A e \in dates : d <= e
  <2> HIDE DEF dates
  <2> QED BY ONLY <1>1, SetHasMin
<1>3. \A r \in rows : d <= r.date
  BY <1>2
<1> QED BY <1>2, <1>3 DEF OldestDate

\* A page is a subset of what was fetched, and younger than the next cursor.
LEMMA PageFacts ==
    ASSUME NEW rows \in SUBSET Rows
    PROVE  /\ Paginate(rows) \in Replies
           /\ Paginate(rows).rows \subseteq rows
           /\ Paginate(rows).next # NoCursor =>
                /\ Paginate(rows).next \in {r.date : r \in rows}
                /\ \A r \in Paginate(rows).rows : r.date > Paginate(rows).next
<1> DEFINE whole == {r \in rows : r.date # OldestDate(rows)}
<1>1. CASE Cardinality(rows) <= Limit \/ whole = {}
  <2>1. Paginate(rows) = [rows |-> rows, next |-> NoCursor]
    BY <1>1 DEF Paginate
  <2> QED BY <2>1 DEF Replies, Cursors
<1>2. CASE ~(Cardinality(rows) <= Limit \/ whole = {})
  <2>1. Paginate(rows) = [rows |-> whole, next |-> OldestDate(rows)]
    BY <1>2 DEF Paginate
  <2>2. OldestDate(rows) \in {r.date : r \in rows} /\ \A r \in rows : OldestDate(rows) <= r.date
    BY <1>2, OldestIsOldest
  <2>3. whole \in SUBSET Rows /\ OldestDate(rows) \in Cursors
    BY <2>2 DEF Cursors
  <2>4. \A r \in whole : r.date > OldestDate(rows)
    <3> SUFFICES ASSUME NEW r \in whole PROVE r.date > OldestDate(rows)
      OBVIOUS
    <3>1. r.date \in Nat /\ OldestDate(rows) \in Nat /\ OldestDate(rows) <= r.date /\ r.date # OldestDate(rows)
      BY <2>2, RowsAssumption
    <3> QED BY ONLY <3>1
  <2> HIDE DEF whole
  <2>5. Paginate(rows).rows = whole /\ Paginate(rows).next = OldestDate(rows)
    BY <2>1
  <2>6. whole \subseteq rows
    BY DEF whole
  <2>7. Paginate(rows) \in Replies
    BY <2>1, <2>3 DEF Replies
  <2> QED BY <2>2, <2>4, <2>5, <2>6, <2>7
<1> QED BY <1>1, <1>2

\* What an answered request carries is of its key, no younger than its cursor
\* and younger than the next one.
ReplyOK(q) ==
    q # NoReq /\ q.reply # NoReply =>
      /\ q.reply.rows \subseteq Selects[q.key]
      /\ \A r \in q.reply.rows :
           /\ q.cursor # NoCursor => r.date <= q.cursor
           /\ q.reply.next # NoCursor => r.date > q.reply.next
      /\ q.cursor # NoCursor /\ q.reply.next # NoCursor => q.reply.next <= q.cursor

LEMMA AnsweredFacts ==
    ASSUME NEW q \in Requests
    PROVE  /\ Answered(q) \in Requests
           /\ Answered(q).key = q.key /\ Answered(q).cursor = q.cursor
           /\ ReplyOK(Answered(q))
<1> DEFINE rows == FetchedRows(Window(q.key, q.cursor))
           page == Paginate(rows)
<1>1. /\ rows \subseteq Selects[q.key]
      /\ \A r \in rows : q.cursor # NoCursor => r.date <= q.cursor
  BY DEF FetchedRows, Window
<1>2. rows \in SUBSET Rows
  BY <1>1, SelectsAssumption DEF Requests
<1>3. /\ page \in Replies /\ page.rows \subseteq rows
      /\ page.next # NoCursor =>
           page.next \in {r.date : r \in rows} /\ \A r \in page.rows : r.date > page.next
  <2> HIDE DEF rows
  <2> QED BY <1>2, PageFacts
<1>4. Answered(q) = [q EXCEPT !.reply = page]
  BY DEF Answered
<1> HIDE DEF page, rows
<1>5. /\ Answered(q) \in Requests /\ Answered(q).key = q.key
      /\ Answered(q).cursor = q.cursor /\ Answered(q).reply = page
  BY <1>3, <1>4 DEF Requests
<1> QED BY <1>1, <1>3, <1>5 DEF ReplyOK

-------------------------------------------------------------------------------
(* The list *)

\* Every page of the list is of its key, the dates go down page after page, and
\* they stay above the cursor of the next one.
ListOK ==
    /\ \A i \in 1..Len(tick.pages) : tick.pages[i] \subseteq Selects[tick.key]
    /\ PagesDescend
    /\ tick.next # NoCursor =>
         \A i \in 1..Len(tick.pages) : \A r \in tick.pages[i] : r.date > tick.next

\* A later page always has a cursor.
RequestsOK == ReplyOK(first) /\ ReplyOK(more) /\ (more # NoReq => more.cursor # NoCursor)

IInv == TypeOK /\ ListOK /\ RequestsOK

LEMMA RequestFacts ==
    ASSUME TypeOK, NEW c \in Cursors
    PROVE  /\ Request(c) \in Requests /\ Request(c) # NoReq /\ ReplyOK(Request(c))
           /\ Request(c).cursor = c /\ Request(c).key = key
<1>1. Request(c) \in Requests
  BY SelectsAssumption DEF TypeOK, Request, Requests
<1> QED BY <1>1, NoReqAssumption DEF Request, ReplyOK

LEMMA LoadingFacts ==
    ASSUME NEW k \in Keys, NEW s \in {"loading", "success", "error"}
    PROVE  [LoadingTick(k) EXCEPT !.status = s] \in Ticks /\ LoadingTick(k) \in Ticks
<1> DEFINE none == <<>>
<1>1. none \in Seq(SUBSET Rows)
  BY EmptySeq
<1>2. LoadingTick(k) = [key |-> k, status |-> "loading", pages |-> none, next |-> NoCursor,
                        more |-> FALSE, base |-> {}]
  BY DEF LoadingTick
<1> HIDE DEF none
<1>3. LoadingTick(k) \in Ticks
  BY <1>1, <1>2 DEF Ticks, Cursors
<1> QED BY <1>3 DEF Ticks

\* Requests and ticks in flight have their types.
LEMMA StateFacts ==
    ASSUME TypeOK
    PROVE  /\ first \in Requests \cup {NoReq} /\ more \in Requests \cup {NoReq}
           /\ tick \in Ticks /\ seen \in Ticks
           /\ \A q \in Requests : /\ q.key \in Keys /\ q.cursor \in Cursors /\ q.base \in SUBSET Rows
                                  /\ q.reply # NoReply => q.reply \in Replies
BY DEF TypeOK, requests, Requests

\* The page appended to a list.
LEMMA AppendFacts ==
    ASSUME NEW t \in Ticks, NEW q \in Requests, q.reply # NoReply
    PROVE  /\ Appended(t, q) \in Ticks
           /\ Appended(t, q).key = t.key /\ Appended(t, q).next = q.reply.next
           /\ Appended(t, q).more = FALSE /\ Appended(t, q).status = "success"
           /\ Appended(t, q).base = t.base \cap q.base
           /\ Len(Appended(t, q).pages) = Len(t.pages) + 1
           /\ \A i \in 1..Len(t.pages) : Appended(t, q).pages[i] = t.pages[i]
           /\ Appended(t, q).pages[Len(t.pages) + 1] = q.reply.rows
           /\ Len(t.pages) \in Nat
<1> DEFINE pages == Append(t.pages, q.reply.rows)
           base == t.base \cap q.base
<1>1. t.pages \in Seq(SUBSET Rows) /\ q.reply.rows \in SUBSET Rows /\ q.reply.next \in Cursors
  BY DEF Ticks, Requests, Replies
<1>2. /\ pages \in Seq(SUBSET Rows) /\ Len(pages) = Len(t.pages) + 1 /\ Len(t.pages) \in Nat
      /\ \A i \in 1..Len(t.pages) : pages[i] = t.pages[i]
      /\ pages[Len(t.pages) + 1] = q.reply.rows
  BY <1>1
<1>3. base \in SUBSET Rows
  BY DEF Ticks
<1>4. Appended(t, q) = [t EXCEPT !.status = "success", !.pages = pages, !.next = q.reply.next,
                                 !.more = FALSE, !.base = base]
  BY DEF Appended
<1> HIDE DEF pages, base
<1>5. /\ Appended(t, q) \in Ticks
      /\ Appended(t, q).key = t.key /\ Appended(t, q).next = q.reply.next
      /\ Appended(t, q).more = FALSE /\ Appended(t, q).status = "success"
      /\ Appended(t, q).pages = pages /\ Appended(t, q).base = base
  BY <1>1, <1>2, <1>3, <1>4 DEF Ticks
<1>6. base = t.base \cap q.base
  BY DEF base
<1> QED BY <1>2, <1>5, <1>6

LEMMA TypeStep == ASSUME TypeOK, [Next]_vars PROVE TypeOK'
<1>0. /\ first \in Requests \cup {NoReq} /\ more \in Requests \cup {NoReq}
      /\ tick \in Ticks /\ seen \in Ticks /\ key \in Keys
      /\ \A q \in Requests : /\ q.key \in Keys /\ q.cursor \in Cursors /\ q.base \in SUBSET Rows
                             /\ q.reply # NoReply => q.reply \in Replies
  BY StateFacts DEF TypeOK
<1>1. ASSUME NEW r \in Rows, Insert(r) PROVE TypeOK'
  BY <1>1 DEF Insert, TypeOK, requests
<1>2. ASSUME NEW k \in Keys, NEW on \in BOOLEAN, Move(k, on) PROVE TypeOK'
  BY <1>2, BoundsAssumption DEF Move, TypeOK, requests
<1>3. CASE Answer
  <2>1. first' \in Requests \cup {NoReq} /\ more' \in Requests \cup {NoReq}
    BY <1>0, <1>3, AnsweredFacts DEF Answer
  <2> QED BY <1>3, <2>1 DEF Answer, TypeOK, requests
<1>4. CASE Render
  BY <1>4 DEF Render, TypeOK, requests
<1>5. CASE RunEffect
  <2>1. first' \in Requests \cup {NoReq} /\ more' \in Requests \cup {NoReq}
    BY <1>0, <1>5, RequestFacts DEF RunEffect, Cursors
  <2> QED BY <1>5, <2>1 DEF RunEffect, TypeOK, requests
<1>6. CASE DeliverFirst
  <2>1. first \in Requests /\ first.reply \in Replies
    BY <1>0, <1>6 DEF DeliverFirst
  <2>2. tick' \in Ticks
    <3>1. <<first.reply.rows>> \in Seq(SUBSET Rows) /\ first.reply.next \in Cursors
      BY <2>1 DEF Replies
    <3> QED BY <1>0, <1>6, <2>1, <3>1 DEF DeliverFirst, Ticks
  <2> QED BY <1>6, <2>2 DEF DeliverFirst, TypeOK, requests
<1>7. CASE FirstFails
  <2>1. tick' \in Ticks
    BY <1>0, <1>7, LoadingFacts DEF FirstFails
  <2> QED BY <1>7, <2>1 DEF FirstFails, TypeOK, requests
<1>8. CASE FirstBodyLost
  BY <1>8 DEF FirstBodyLost, TypeOK, requests
<1>9. CASE LoadMore
  <2>1. more' \in Requests
    BY <1>0, <1>9, RequestFacts DEF LoadMore, Ticks
  <2>2. tick' \in Ticks
    BY <1>0, <1>9 DEF LoadMore, Ticks
  <2> QED BY <1>9, <2>1, <2>2 DEF LoadMore, TypeOK, requests
<1>10. CASE DeliverMore
  <2>1. tick' \in Ticks
    BY <1>0, <1>10, AppendFacts DEF DeliverMore
  <2> QED BY <1>10, <2>1 DEF DeliverMore, TypeOK, requests
<1>11. CASE MoreFails
  <2>1. tick' \in Ticks
    BY <1>0, <1>11 DEF MoreFails, Ticks
  <2> QED BY <1>11, <2>1 DEF MoreFails, TypeOK, requests
<1>12. CASE MoreBodyLost
  <2>1. tick' \in Ticks /\ seen' \in Ticks
    BY <1>0, <1>12, LoadingFacts DEF MoreBodyLost
  <2> QED BY <1>12, <2>1 DEF MoreBodyLost, TypeOK, requests
<1>13. CASE UNCHANGED vars
  BY <1>13 DEF vars, TypeOK, requests
<1> QED
  BY <1>1, <1>2, <1>3, <1>4, <1>5, <1>6, <1>7, <1>8, <1>9, <1>10, <1>11, <1>12, <1>13 DEF Next

LEMMA RequestsStep == ASSUME TypeOK, RequestsOK, [Next]_vars PROVE RequestsOK'
<1>0. /\ first \in Requests \cup {NoReq} /\ more \in Requests \cup {NoReq}
      /\ seen \in Ticks /\ ReplyOK(NoReq)
  BY StateFacts DEF ReplyOK
<1>1. CASE Answer
  <2>1. ReplyOK(first') /\ ReplyOK(more')
    BY <1>0, <1>1, AnsweredFacts DEF Answer, RequestsOK
  <2>2. more' # NoReq => more'.cursor # NoCursor
    BY <1>0, <1>1, AnsweredFacts DEF Answer, RequestsOK
  <2> QED BY <2>1, <2>2 DEF RequestsOK, ReplyOK
<1>2. CASE RunEffect
  <2>1. ReplyOK(first') /\ more' \in {more, NoReq}
    BY <1>0, <1>2, RequestFacts DEF RunEffect, Cursors
  <2> QED BY <1>0, <2>1 DEF RequestsOK
<1>3. CASE LoadMore
  <2>1. ReplyOK(more') /\ more'.cursor # NoCursor /\ first' = first
    BY <1>0, <1>3, RequestFacts DEF LoadMore, Ticks
  <2> QED BY <2>1 DEF RequestsOK, ReplyOK
<1>4. CASE first' \in {first, NoReq} /\ more' \in {more, NoReq}
  BY <1>4 DEF RequestsOK, ReplyOK
<1>5. \/ Answer \/ RunEffect \/ LoadMore
      \/ first' \in {first, NoReq} /\ more' \in {more, NoReq}
  BY DEF Next, Insert, Move, Render, DeliverFirst, FirstFails, FirstBodyLost, DeliverMore,
         MoreFails, MoreBodyLost, vars, requests
<1> QED BY <1>1, <1>2, <1>3, <1>4, <1>5

\* An empty list is in order, and so is a single page.
LEMMA ListStep == ASSUME IInv, [Next]_vars PROVE ListOK'
<1>0. /\ first \in Requests \cup {NoReq} /\ more \in Requests \cup {NoReq} /\ tick \in Ticks
      /\ \A q \in Requests : q.reply # NoReply => q.reply \in Replies
  BY StateFacts DEF IInv
<1>1. CASE tick'.pages = tick.pages /\ tick'.key = tick.key /\ tick'.next = tick.next
  BY <1>1 DEF IInv, ListOK, PagesDescend
<1>2. CASE tick'.pages = <<>>
  BY <1>2 DEF ListOK, PagesDescend
<1>3. CASE DeliverFirst
  <2>1. /\ first # NoReq /\ first.reply # NoReply
        /\ tick'.key = first.key /\ tick'.pages = <<first.reply.rows>> /\ tick'.next = first.reply.next
    BY <1>3 DEF DeliverFirst
  <2>2. /\ first.reply.rows \subseteq Selects[first.key]
        /\ first.reply.next # NoCursor => \A r \in first.reply.rows : r.date > first.reply.next
    BY <2>1 DEF IInv, RequestsOK, ReplyOK
  <2> QED BY <2>1, <2>2 DEF ListOK, PagesDescend
<1>4. CASE DeliverMore /\ tick.key = more.key /\ tick.next = more.cursor
  <2> DEFINE n == Len(tick.pages)
  <2>1. /\ more \in Requests /\ more.reply # NoReply /\ more.reply \in Replies
        /\ more.cursor # NoCursor
        /\ tick' = Appended(tick, more)
    BY <1>0, <1>4 DEF DeliverMore, IInv, RequestsOK
  <2>2. /\ more.reply.rows \subseteq Selects[tick.key]
        /\ \A r \in more.reply.rows :
             r.date <= tick.next /\ (more.reply.next # NoCursor => r.date > more.reply.next)
        /\ more.reply.next # NoCursor => more.reply.next <= tick.next
    BY <1>4, <2>1 DEF DeliverMore, IInv, RequestsOK, ReplyOK
  <2>3. /\ tick'.key = tick.key /\ tick'.next = more.reply.next
        /\ Len(tick'.pages) = n + 1 /\ n \in Nat
        /\ \A i \in 1..n : tick'.pages[i] = tick.pages[i]
        /\ tick'.pages[n + 1] = more.reply.rows
    BY <1>0, <2>1, AppendFacts
  <2>4. /\ \A i \in 1..n : tick.pages[i] \subseteq Selects[tick.key]
        /\ \A i \in 1..n : \A r \in tick.pages[i] : r.date > tick.next
        /\ \A i, j \in 1..n : i < j => \A r \in tick.pages[i], q \in tick.pages[j] : r.date > q.date
    BY <1>4, <2>1 DEF IInv, ListOK, PagesDescend
  <2>5. \A i \in 1..n : tick.pages[i] \subseteq Rows
    BY <1>0 DEF Ticks
  <2>6. /\ tick.next \in Nat /\ (more.reply.next # NoCursor => more.reply.next \in Nat)
        /\ more.reply.rows \subseteq Rows
    BY <1>0, <1>4, <2>1, RowsAssumption DEF Ticks, Replies, Cursors
  <2> HIDE DEF n
  <2>7. \A i \in 1..(n + 1) : i = n + 1 \/ i \in 1..n
    BY <2>3
  <2>8. \A i \in 1..n : \A r \in tick.pages[i], q \in more.reply.rows : r.date > q.date
    <3> SUFFICES ASSUME NEW i \in 1..n, NEW r \in tick.pages[i], NEW q \in more.reply.rows
                 PROVE  r.date > q.date
      OBVIOUS
    <3>1. r.date \in Nat /\ q.date \in Nat /\ r.date > tick.next /\ q.date <= tick.next
      BY <2>2, <2>4, <2>5, <2>6, RowsAssumption
    <3> QED BY ONLY <3>1, <2>6
  <2>9. \A i \in 1..(n + 1) : tick'.pages[i] \subseteq Selects[tick.key]
    BY <2>2, <2>3, <2>4, <2>7
  <2>10. PagesDescend'
    <3> SUFFICES ASSUME NEW i \in 1..(n + 1), NEW j \in 1..(n + 1), i < j,
                        NEW r \in tick'.pages[i], NEW q \in tick'.pages[j]
                 PROVE  r.date > q.date
      BY <2>3 DEF PagesDescend
    <3>1. i \in 1..n /\ tick'.pages[i] = tick.pages[i]
      BY <2>3, <2>7
    <3>2. CASE j \in 1..n
      BY <2>3, <2>4, <3>1, <3>2
    <3>3. CASE j = n + 1
      BY <2>3, <2>8, <3>1, <3>3
    <3> QED BY <2>7, <3>2, <3>3
  <2>11. tick'.next # NoCursor =>
           \A i \in 1..(n + 1) : \A r \in tick'.pages[i] : r.date > tick'.next
    <3> SUFFICES ASSUME tick'.next # NoCursor, NEW i \in 1..(n + 1), NEW r \in tick'.pages[i]
                 PROVE  r.date > tick'.next
      OBVIOUS
    <3>1. CASE i = n + 1
      BY <2>2, <2>3, <3>1
    <3>2. CASE i \in 1..n
      <4>1. r \in tick.pages[i] /\ r.date > tick.next /\ r.date \in Nat
        BY <2>3, <2>4, <2>5, <3>2, RowsAssumption
      <4> QED BY <2>2, <2>3, <2>6, <4>1
    <3> QED BY <2>7, <3>1, <3>2
  <2> QED BY <2>3, <2>9, <2>10, <2>11 DEF ListOK
<1>5. \/ tick'.pages = tick.pages /\ tick'.key = tick.key /\ tick'.next = tick.next
      \/ tick'.pages = <<>> \/ DeliverFirst
      \/ DeliverMore /\ tick.key = more.key /\ tick.next = more.cursor
  <2>1. CASE LoadMore
    BY <1>0, <2>1 DEF LoadMore, Ticks
  <2>2. CASE MoreFails
    BY <1>0, <2>2 DEF MoreFails, Ticks
  <2>3. CASE FirstFails \/ MoreBodyLost
    BY <2>3 DEF FirstFails, MoreBodyLost, LoadingTick
  <2>4. CASE DeliverMore
    BY <2>4 DEF DeliverMore
  <2>5. CASE tick' = tick
    BY <2>5
  <2>6. LoadMore \/ MoreFails \/ FirstFails \/ MoreBodyLost \/ DeliverMore \/ DeliverFirst \/ tick' = tick
    BY DEF Next, Insert, Move, Answer, Render, RunEffect, FirstBodyLost, vars
  <2> QED BY <2>1, <2>2, <2>3, <2>4, <2>5, <2>6
<1> QED BY <1>1, <1>2, <1>3, <1>4, <1>5

-------------------------------------------------------------------------------
(* The spinner *)

\* Who is waiting for what: the first-page request is of the key on screen once
\* its effect has run; a stale render that may still click shows the cursor the
\* list has; a list that loads more waits for the page after its cursor.
WaitOK ==
    /\ first # NoReq /\ ~due => first.key = key
    /\ tick.more /\ ~seen.more /\ seen.key = key => seen.next = tick.next /\ tick.key = key
    /\ tick.more /\ more # NoReq => more.key = tick.key /\ more.cursor = tick.next
    /\ enabled /\ ~due /\ first = NoReq /\ ~lost =>
         tick.key = key /\ tick.status # "loading" /\ (tick.more => more # NoReq)

LEMMA WaitStep == ASSUME TypeOK, WaitOK, [Next]_vars PROVE WaitOK'
<1>0. /\ first \in Requests \cup {NoReq} /\ more \in Requests \cup {NoReq}
      /\ tick \in Ticks /\ seen \in Ticks /\ key \in Keys
      /\ \A q \in Requests : q.reply # NoReply => q.reply \in Replies
  BY StateFacts DEF TypeOK
<1>t. /\ tick.more \in BOOLEAN /\ seen.more \in BOOLEAN /\ enabled \in BOOLEAN
      /\ due \in BOOLEAN /\ lost \in BOOLEAN
  BY <1>0 DEF TypeOK, Ticks
<1>1. ASSUME NEW r \in Rows, Insert(r) PROVE WaitOK'
  BY <1>1 DEF Insert, WaitOK, requests
<1>2. ASSUME NEW k \in Keys, NEW on \in BOOLEAN, Move(k, on) PROVE WaitOK'
  BY <1>2 DEF Move, WaitOK, requests
<1>3. CASE Answer
  <2>1. /\ first # NoReq <=> first' # NoReq
        /\ more # NoReq <=> more' # NoReq
        /\ first # NoReq => first'.key = first.key
        /\ more # NoReq => more'.key = more.key /\ more'.cursor = more.cursor
    BY <1>0, <1>3, AnsweredFacts, NoReqAssumption DEF Answer
  <2> QED BY <1>3, <2>1 DEF Answer, WaitOK
<1>4. CASE Render
  BY <1>4 DEF Render, WaitOK, requests
<1>5. CASE RunEffect
  <2>1. more' \in {more, NoReq} /\ (enabled => first' # NoReq) /\ (first' # NoReq => first'.key = key)
    BY <1>5, RequestFacts DEF RunEffect, Cursors
  <2> QED BY <1>5, <2>1 DEF RunEffect, WaitOK
<1>6. CASE DeliverFirst
  BY <1>6 DEF DeliverFirst, WaitOK
<1>7. CASE FirstFails
  <2>1. tick'.key = first.key /\ tick'.status = "error" /\ tick'.more = FALSE
    BY <1>7 DEF FirstFails, LoadingTick
  <2> QED BY <1>7, <2>1 DEF FirstFails, WaitOK
<1>8. CASE FirstBodyLost
  BY <1>8 DEF FirstBodyLost, WaitOK
<1>9. CASE LoadMore
  <2>1. more' # NoReq /\ more'.key = key /\ more'.cursor = seen.next
    BY <1>0, <1>9, RequestFacts DEF LoadMore, Ticks
  <2>2. CASE tick.key # key \/ tick.next # seen.next
    <3>1. tick' = tick /\ ~tick.more
      BY <1>9, <1>t, <2>2 DEF LoadMore, WaitOK
    <3> QED BY <1>9, <2>1, <3>1 DEF LoadMore, WaitOK
  <2>3. CASE tick.key = key /\ tick.next = seen.next
    <3>1. tick'.key = tick.key /\ tick'.next = tick.next /\ tick'.status = tick.status
      BY <1>0, <1>9, <2>3 DEF LoadMore, Ticks
    <3> QED BY <1>9, <2>1, <2>3, <3>1 DEF LoadMore, WaitOK
  <2> QED BY <2>2, <2>3
<1>10. CASE DeliverMore
  <2>1. CASE tick.key # more.key \/ tick.next # more.cursor
    <3>1. tick' = tick /\ more' = NoReq /\ ~tick.more
      BY <1>10, <1>t, <2>1 DEF DeliverMore, WaitOK
    <3> QED BY <1>10, <3>1 DEF DeliverMore, WaitOK
  <2>2. CASE tick.key = more.key /\ tick.next = more.cursor
    <3>1. /\ tick'.key = tick.key /\ tick'.more = FALSE /\ tick'.status = "success"
      BY <1>0, <1>10, <2>2, AppendFacts DEF DeliverMore
    <3> QED BY <1>10, <3>1 DEF DeliverMore, WaitOK
  <2> QED BY <2>1, <2>2
<1>11. CASE MoreFails
  <2>1. tick'.key = tick.key /\ tick'.more = FALSE /\ tick'.status = "error"
    BY <1>0, <1>11 DEF MoreFails, Ticks
  <2> QED BY <1>11, <2>1 DEF MoreFails, WaitOK
<1>12. CASE MoreBodyLost
  <2>1. CASE tick.key # more.key \/ tick.next # more.cursor
    <3>1. tick' = tick /\ more' = NoReq /\ ~tick.more /\ UNCHANGED <<seen, due, first, lost>>
      BY <1>12, <1>t, <2>1 DEF MoreBodyLost, WaitOK
    <3> QED BY <1>12, <3>1 DEF MoreBodyLost, WaitOK
  <2>2. CASE tick.key = more.key /\ tick.next = more.cursor
    <3>1. tick'.more = FALSE /\ due' = TRUE /\ more' = NoReq
      BY <1>12, <2>2 DEF MoreBodyLost, LoadingTick
    <3> QED BY <1>12, <3>1 DEF MoreBodyLost, WaitOK
  <2> QED BY <2>1, <2>2
<1>13. CASE UNCHANGED vars
  BY <1>13 DEF vars, WaitOK, requests
<1> QED
  BY <1>1, <1>2, <1>3, <1>4, <1>5, <1>6, <1>7, <1>8, <1>9, <1>10, <1>11, <1>12, <1>13 DEF Next

-------------------------------------------------------------------------------
(* Theorems *)

LEMMA InvInit == Init => IInv /\ WaitOK
<1> SUFFICES ASSUME Init PROVE IInv /\ WaitOK
  OBVIOUS
<1>1. tick = LoadingTick(key) /\ seen = tick /\ tick.pages = <<>> /\ tick.next = NoCursor /\ tick.more = FALSE
  BY DEF Init, LoadingTick
<1>2. TypeOK
  <2>1. tick \in Ticks /\ seen \in Ticks
    BY <1>1, LoadingFacts DEF Init
  <2>2. 0 \in 0..MaxMoves
    BY BoundsAssumption
  <2> QED BY <2>1, <2>2 DEF Init, TypeOK, requests
<1>3. ListOK /\ RequestsOK
  BY <1>1 DEF Init, ListOK, PagesDescend, RequestsOK, ReplyOK
<1>4. WaitOK
  BY <1>1 DEF Init, WaitOK
<1> QED BY <1>2, <1>3, <1>4 DEF IInv

LEMMA Invariance == Spec => [](IInv /\ WaitOK)
<1>1. IInv /\ WaitOK /\ [Next]_vars => (IInv /\ WaitOK)'
  BY TypeStep, RequestsStep, ListStep, WaitStep DEF IInv
<1> QED BY <1>1, InvInit, PTL DEF Spec

\* The state of the hook, its requests and the replies keep their types.
THEOREM TypeCorrect == Spec => []TypeOK
<1>1. IInv => TypeOK
  BY DEF IInv
<1> QED BY <1>1, Invariance, PTL

\* A history view never shows a row of another key, whatever answers late.
THEOREM ShownSafe == Spec => []ShownBelongsToKey
<1>1. IInv => ShownBelongsToKey
  BY DEF IInv, ListOK, ShownBelongsToKey, RowsOf
<1> QED BY <1>1, Invariance, PTL

\* Its pages go down by date, with rows inserted between requests, double
\* clicks and repeated fetches.
THEOREM OrderSafe == Spec => []PagesDescend
<1>1. IInv => PagesDescend
  BY DEF IInv, ListOK
<1> QED BY <1>1, Invariance, PTL

\* A spinner has a request behind it, unless the first page lost its body.
THEOREM SpinnerSafe == Spec => []SpinnerMeansRequest
<1>1. WaitOK => SpinnerMeansRequest
  BY DEF WaitOK, SpinnerMeansRequest
<1> QED BY <1>1, Invariance, PTL

-------------------------------------------------------------------------------
(* Nothing is skipped, as long as a page has room for the rows of one date.   *)

RowsOn(k, d) == {r \in Selects[k] : r.date = d}

RoomForOneDate ==
    /\ IsFiniteSet(Rows)
    /\ \A k \in Keys : \A d \in Nat : Cardinality(RowsOn(k, d)) <= Limit

Before(rows, r) == {q \in rows : Precedes(q, r)}

LEMMA BeforeFinite ==
    ASSUME RoomForOneDate, NEW rows \in SUBSET Rows, NEW r
    PROVE  IsFiniteSet(rows) /\ IsFiniteSet(Before(rows, r)) /\ Cardinality(Before(rows, r)) \in Nat
<1>1. IsFiniteSet(rows)
  BY FS_Subset DEF RoomForOneDate
<1>2. Before(rows, r) \in SUBSET rows
  BY DEF Before
<1>3. IsFiniteSet(Before(rows, r))
  BY <1>1, <1>2, FS_Subset
<1> QED BY <1>1, <1>3, FS_CardinalityType

\* Earlier in the order means fewer rows before it.
LEMMA BeforeGrows ==
    ASSUME RoomForOneDate, NEW rows \in SUBSET Rows, NEW p \in rows, NEW r \in rows, Precedes(p, r)
    PROVE  Cardinality(Before(rows, p)) < Cardinality(Before(rows, r))
<1>1. Before(rows, p) \subseteq Before(rows, r)
  <2> SUFFICES ASSUME NEW q \in rows, Precedes(q, p) PROVE Precedes(q, r)
    BY DEF Before
  <2>1. /\ q.date \in Nat /\ p.date \in Nat /\ r.date \in Nat
        /\ q.type \in Nat /\ p.type \in Nat /\ r.type \in Nat
    BY RowsAssumption
  <2> QED BY <2>1 DEF Precedes
<1>2. p \in Before(rows, r) /\ p \notin Before(rows, p)
  <2>1. p.date \in Nat /\ p.type \in Nat
    BY RowsAssumption
  <2> QED BY <2>1 DEF Before, Precedes
<1>3. Before(rows, p) # Before(rows, r)
  BY <1>2
<1> QED BY <1>1, <1>3, BeforeFinite, FS_Subset

\* Limit + 1 rows are fetched when there are that many.
LEMMA FetchedEnough ==
    ASSUME RoomForOneDate, NEW rows \in SUBSET Rows, NEW r \in rows \ FetchedRows(rows)
    PROVE  Cardinality(FetchedRows(rows)) > Limit
<1> DEFINE left == rows \ FetchedRows(rows)
           counts == {Cardinality(Before(rows, q)) : q \in left}
<1>1. counts \in SUBSET Nat /\ counts # {}
  BY BeforeFinite
<1>2. PICK n \in counts : \A m \in counts : n <= m
  <2> HIDE DEF counts
  <2> QED BY ONLY <1>1, SetHasMin
<1>3. PICK q \in left : n = Cardinality(Before(rows, q))
  BY <1>2
<1>4. Before(rows, q) \subseteq FetchedRows(rows)
  <2> SUFFICES ASSUME NEW p \in rows, Precedes(p, q), p \in left PROVE FALSE
    BY DEF Before
  <2>1. Cardinality(Before(rows, p)) < Cardinality(Before(rows, q))
    BY BeforeGrows
  <2>2. Cardinality(Before(rows, q)) <= Cardinality(Before(rows, p))
    BY <1>2, <1>3
  <2> QED BY <2>1, <2>2, BeforeFinite
<1>5. ~(Cardinality(Before(rows, q)) <= Limit)
  BY <1>3 DEF FetchedRows, Before
<1>6. FetchedRows(rows) \in SUBSET Rows
  BY DEF FetchedRows
<1>7. Cardinality(Before(rows, q)) <= Cardinality(FetchedRows(rows))
  BY <1>4, <1>6, BeforeFinite, FS_Subset
<1>8. Cardinality(FetchedRows(rows)) \in Nat
  BY <1>6, BeforeFinite, FS_CardinalityType
<1> QED BY ONLY <1>5, <1>7, <1>8, BeforeFinite, BoundsAssumption, RoomForOneDate, rows \in SUBSET Rows

\* A page shows every row of its window or leaves it at or below its next cursor.
LEMMA PageComplete ==
    ASSUME RoomForOneDate, NEW k \in Keys, NEW rows \in SUBSET Selects[k], NEW r \in rows
    PROVE  LET page == Paginate(FetchedRows(rows))
           IN  r \in page.rows \/ (page.next # NoCursor /\ r.date <= page.next)
<1> DEFINE fetched == FetchedRows(rows)
           whole == {q \in fetched : q.date # OldestDate(fetched)}
<1>1. rows \in SUBSET Rows /\ fetched \subseteq rows /\ fetched \in SUBSET Rows
  BY SelectsAssumption DEF FetchedRows
<1>2. CASE Cardinality(fetched) <= Limit
  <2>1. Cardinality(fetched) \in Nat /\ Limit \in Nat
    BY <1>1, BeforeFinite, FS_CardinalityType, BoundsAssumption
  <2>2. r \in fetched
    BY <1>1, <1>2, <2>1, FetchedEnough
  <2> QED BY <1>2, <2>2 DEF Paginate
<1>3. CASE ~(Cardinality(fetched) <= Limit)
  <2>1. fetched # {}
    BY <1>3, FS_EmptySet, BoundsAssumption
  <2>2. OldestDate(fetched) \in {q.date : q \in fetched} /\ \A q \in fetched : OldestDate(fetched) <= q.date
    BY <1>1, <2>1, OldestIsOldest
  <2>3. OldestDate(fetched) \in Nat
    BY <1>1, <2>2, RowsAssumption
  <2>4. whole # {}
    <3> SUFFICES ASSUME whole = {} PROVE FALSE
      OBVIOUS
    <3>0. PICK d \in Nat : d = OldestDate(fetched)
      BY <2>3
    <3> DEFINE ofDate == RowsOn(k, d)
    <3>1. fetched \subseteq ofDate
      <4>1. \A q \in fetched : q.date = OldestDate(fetched)
        OBVIOUS
      <4>2. \A q \in fetched : q \in Selects[k] /\ q.date = d
        BY <1>1, <3>0, <4>1
      <4> HIDE DEF fetched
      <4> QED BY <4>2 DEF RowsOn
    <3>2. Cardinality(ofDate) <= Limit
      BY ONLY <3>0, RoomForOneDate, k \in Keys DEF RoomForOneDate
    <3>3. ofDate \in SUBSET Rows
      BY SelectsAssumption DEF RowsOn
    <3>4. IsFiniteSet(ofDate) /\ Cardinality(fetched) \in Nat /\ Cardinality(ofDate) \in Nat
      BY <1>1, <3>3, BeforeFinite, FS_CardinalityType
    <3>5. Cardinality(fetched) <= Cardinality(ofDate)
      BY <3>1, <3>4, FS_Subset
    <3> HIDE DEF ofDate, fetched
    <3> QED BY <1>3, <3>2, <3>4, <3>5, BoundsAssumption
  <2>5. Paginate(fetched) = [rows |-> whole, next |-> OldestDate(fetched)]
    BY <1>3, <2>4 DEF Paginate
  <2>6. OldestDate(fetched) # NoCursor
    BY <1>1, <2>2, NoCursorAssumption
  <2>7. r \in whole \/ r.date <= OldestDate(fetched)
    <3>1. CASE r \in fetched
      <4>1. r.date = OldestDate(fetched) => r.date <= OldestDate(fetched)
        BY <2>3
      <4> QED BY <3>1, <4>1
    <3>2. CASE r \notin fetched
      <4> SUFFICES ASSUME ~(r.date <= OldestDate(fetched)) PROVE FALSE
        OBVIOUS
      <4>1. PICK f \in fetched : f.date = OldestDate(fetched)
        BY <2>2
      <4>2. f \in rows /\ r.date \in Nat /\ f.date \in Nat
        BY <1>1, RowsAssumption
      <4>3. Precedes(r, f)
        BY <2>3, <4>1, <4>2 DEF Precedes
      <4>4. Cardinality(Before(rows, r)) < Cardinality(Before(rows, f))
        BY <1>1, <4>2, <4>3, BeforeGrows
      <4>5. Cardinality(Before(rows, f)) <= Limit /\ ~(Cardinality(Before(rows, r)) <= Limit)
        BY <3>2, <4>1 DEF FetchedRows, Before
      <4>6. Cardinality(Before(rows, f)) \in Nat /\ Cardinality(Before(rows, r)) \in Nat /\ Limit \in Nat
        BY <1>1, BeforeFinite, BoundsAssumption
      <4> QED BY ONLY <4>4, <4>5, <4>6
    <3> QED BY <3>1, <3>2
  <2> HIDE DEF whole, fetched
  <2>8. Paginate(fetched).rows = whole /\ Paginate(fetched).next = OldestDate(fetched)
    BY <2>5
  <2>9. fetched = FetchedRows(rows)
    BY DEF fetched
  <2> QED BY <2>6, <2>7, <2>8, <2>9
<1> QED BY <1>2, <1>3

\* The reply to a request shows, or leaves to come, what the request's window
\* held when it was sent.
ReplyComplete(q) ==
    q # NoReq /\ q.reply # NoReply =>
      \A r \in q.base : q.cursor = NoCursor \/ r.date <= q.cursor =>
        r \in q.reply.rows \/ (q.reply.next # NoCursor /\ r.date <= q.reply.next)

\* What was stored when a page was asked for still is.
BasesOK ==
    /\ tick.base \subseteq db \cap Selects[tick.key]
    /\ first # NoReq => first.base \subseteq db \cap Selects[first.key]
    /\ more # NoReq => more.base \subseteq db \cap Selects[more.key]

CompleteInv ==
    /\ BasesOK /\ NothingSkipped
    /\ ReplyComplete(first) /\ ReplyComplete(more)
    /\ first # NoReq => first.cursor = NoCursor

LEMMA AnsweredComplete ==
    ASSUME RoomForOneDate, NEW q \in Requests, q.base \subseteq db \cap Selects[q.key]
    PROVE  ReplyComplete(Answered(q)) /\ Answered(q).base = q.base
<1> DEFINE rows == Window(q.key, q.cursor)
           page == Paginate(FetchedRows(rows))
<1>1. q.key \in Keys /\ rows \in SUBSET Selects[q.key]
  BY DEF Requests, Window
<1>2. \A r \in rows : r \in page.rows \/ (page.next # NoCursor /\ r.date <= page.next)
  <2> HIDE DEF rows
  <2> QED BY <1>1, PageComplete
<1>3. \A r \in q.base : q.cursor = NoCursor \/ r.date <= q.cursor => r \in rows
  BY DEF Window
<1>4. Answered(q) = [q EXCEPT !.reply = page]
  BY DEF Answered
<1> HIDE DEF page, rows
<1>5. /\ Answered(q).base = q.base /\ Answered(q).cursor = q.cursor /\ Answered(q).reply = page
  BY <1>4 DEF Requests
<1> QED BY <1>2, <1>3, <1>5 DEF ReplyComplete

LEMMA CompleteStep ==
    ASSUME RoomForOneDate, IInv, CompleteInv, [Next]_vars
    PROVE  CompleteInv'
<1>0. /\ first \in Requests \cup {NoReq} /\ more \in Requests \cup {NoReq}
      /\ tick \in Ticks /\ seen \in Ticks /\ key \in Keys
      /\ \A q \in Requests : q.reply # NoReply => q.reply \in Replies
  BY StateFacts DEF IInv, TypeOK
<1>1. ASSUME NEW r \in Rows, Insert(r) PROVE CompleteInv'
  BY <1>1 DEF Insert, CompleteInv, BasesOK, NothingSkipped, RowsOf, ReplyComplete, requests
<1>2. CASE /\ UNCHANGED <<db, tick>> /\ UNCHANGED requests
  BY <1>2 DEF CompleteInv, BasesOK, NothingSkipped, RowsOf, ReplyComplete, requests
<1>3. CASE Answer
  <2>1. ASSUME NEW q \in Requests, q.base \subseteq db \cap Selects[q.key]
        PROVE  /\ ReplyComplete(Answered(q)) /\ Answered(q).base = q.base
               /\ Answered(q).key = q.key /\ Answered(q).cursor = q.cursor /\ Answered(q) # NoReq
    BY <2>1, AnsweredComplete, AnsweredFacts, NoReqAssumption
  <2>2. ReplyComplete(first)' /\ ReplyComplete(more)'
    BY <1>0, <1>3, <2>1 DEF Answer, CompleteInv, BasesOK, ReplyComplete
  <2>3. /\ UNCHANGED <<db, tick>>
        /\ first # NoReq <=> first' # NoReq
        /\ more # NoReq <=> more' # NoReq
        /\ first # NoReq => first'.key = first.key /\ first'.cursor = first.cursor /\ first'.base = first.base
        /\ more # NoReq => more'.key = more.key /\ more'.cursor = more.cursor /\ more'.base = more.base
    BY <1>0, <1>3, <2>1 DEF Answer, CompleteInv, BasesOK
  <2> QED BY <2>2, <2>3 DEF CompleteInv, BasesOK, NothingSkipped, RowsOf
<1>4. CASE RunEffect
  <2>1. /\ UNCHANGED <<db, tick>> /\ more' \in {more, NoReq}
        /\ first' # NoReq => /\ first'.cursor = NoCursor /\ first'.reply = NoReply /\ first'.key = key
                             /\ first'.base = db \cap Selects[key]
    BY <1>4 DEF RunEffect, Request
  <2> QED BY <2>1 DEF CompleteInv, BasesOK, NothingSkipped, RowsOf, ReplyComplete
<1>5. CASE LoadMore
  <2>1. /\ UNCHANGED <<db, first>>
        /\ more'.reply = NoReply /\ more'.key = key /\ more'.base = db \cap Selects[key]
    BY <1>5 DEF LoadMore, Request
  <2>2. tick'.key = tick.key /\ tick'.base = tick.base /\ tick'.pages = tick.pages /\ tick'.next = tick.next
    BY <1>0, <1>5 DEF LoadMore, Ticks
  <2> QED BY <2>1, <2>2 DEF CompleteInv, BasesOK, NothingSkipped, RowsOf, ReplyComplete
<1>6. CASE DeliverFirst
  <2>1. /\ first # NoReq /\ first.reply # NoReply /\ UNCHANGED <<db, more>> /\ first' = NoReq
        /\ tick'.key = first.key /\ tick'.base = first.base /\ tick'.next = first.reply.next
        /\ tick'.pages = <<first.reply.rows>>
    BY <1>6 DEF DeliverFirst
  <2>2. RowsOf(tick') = first.reply.rows
    BY <2>1 DEF RowsOf
  <2>3. NothingSkipped'
    BY <2>1, <2>2 DEF CompleteInv, ReplyComplete, NothingSkipped
  <2>4. BasesOK'
    BY <2>1 DEF CompleteInv, BasesOK
  <2> QED BY <2>1, <2>3, <2>4 DEF CompleteInv, ReplyComplete
<1>7. CASE FirstFails \/ FirstBodyLost \/ MoreFails \/ MoreBodyLost
  <2>1. /\ UNCHANGED db /\ first' \in {first, NoReq} /\ more' \in {more, NoReq}
        /\ \/ tick' = tick
           \/ tick'.base = {}
           \/ tick'.base = tick.base /\ tick'.key = tick.key /\ tick'.pages = tick.pages /\ tick'.next = tick.next
    <3>1. CASE FirstFails
      BY <3>1 DEF FirstFails, LoadingTick
    <3>2. CASE FirstBodyLost
      BY <3>2 DEF FirstBodyLost
    <3>3. CASE MoreFails
      BY <1>0, <3>3 DEF MoreFails, Ticks
    <3>4. CASE MoreBodyLost
      BY <3>4 DEF MoreBodyLost, LoadingTick
    <3> QED BY <1>7, <3>1, <3>2, <3>3, <3>4
  <2>2. BasesOK'
    BY <2>1 DEF CompleteInv, BasesOK
  <2>3. NothingSkipped'
    <3>1. CASE tick'.base = {}
      BY <3>1 DEF NothingSkipped
    <3>2. CASE tick'.base = tick.base /\ tick'.pages = tick.pages /\ tick'.next = tick.next
      BY <3>2 DEF CompleteInv, NothingSkipped, RowsOf
    <3> QED BY <2>1, <3>1, <3>2
  <2> QED BY <2>1, <2>2, <2>3 DEF CompleteInv, ReplyComplete
<1>8. CASE DeliverMore /\ ~(tick.key = more.key /\ tick.next = more.cursor)
  <2>1. UNCHANGED <<db, first, tick>> /\ more' = NoReq
    BY <1>8 DEF DeliverMore
  <2> QED BY <2>1 DEF CompleteInv, BasesOK, NothingSkipped, RowsOf, ReplyComplete
<1>9. CASE DeliverMore /\ tick.key = more.key /\ tick.next = more.cursor
  <2>1. /\ more \in Requests /\ more # NoReq /\ more.reply # NoReply /\ more.reply \in Replies
        /\ tick' = Appended(tick, more) /\ UNCHANGED <<db, first>> /\ more' = NoReq
    BY <1>0, <1>9 DEF DeliverMore
  <2>2. /\ tick'.key = tick.key /\ tick'.next = more.reply.next
        /\ tick'.base = tick.base \cap more.base
        /\ RowsOf(tick) \cup more.reply.rows \subseteq RowsOf(tick')
    <3>1. tick'.base = tick.base \cap more.base
      BY <1>0, <2>1, AppendFacts
    <3>2. /\ tick'.key = tick.key /\ tick'.next = more.reply.next
          /\ Len(tick'.pages) = Len(tick.pages) + 1 /\ Len(tick.pages) \in Nat
          /\ \A i \in 1..Len(tick.pages) : tick'.pages[i] = tick.pages[i]
          /\ tick'.pages[Len(tick.pages) + 1] = more.reply.rows
      BY <1>0, <2>1, AppendFacts
    <3>3. /\ \A i \in 1..Len(tick.pages) : i \in 1..(Len(tick.pages) + 1)
          /\ Len(tick.pages) + 1 \in 1..(Len(tick.pages) + 1)
      BY <3>2
    <3>4. RowsOf(tick) \subseteq RowsOf(tick') /\ more.reply.rows \subseteq RowsOf(tick')
      BY <3>2, <3>3 DEF RowsOf
    <3> QED BY <3>1, <3>2, <3>4
  <2>3. NothingSkipped'
    <3> SUFFICES ASSUME NEW r \in tick'.base, r \notin RowsOf(tick')
                 PROVE  more.reply.next # NoCursor /\ r.date <= more.reply.next
      BY <2>2 DEF NothingSkipped
    <3>1. r.date <= more.cursor
      BY <1>9, <2>2 DEF CompleteInv, NothingSkipped
    <3>2. r \in more.base
      BY <2>2
    <3> QED BY <2>1, <2>2, <3>1, <3>2 DEF CompleteInv, ReplyComplete
  <2>4. BasesOK'
    BY <2>1, <2>2 DEF CompleteInv, BasesOK
  <2> QED BY <2>1, <2>3, <2>4 DEF CompleteInv, ReplyComplete
<1>10. \/ \E r \in Rows : Insert(r)
       \/ UNCHANGED <<db, tick>> /\ UNCHANGED requests
       \/ Answer \/ RunEffect \/ LoadMore \/ DeliverFirst \/ DeliverMore
       \/ FirstFails \/ FirstBodyLost \/ MoreFails \/ MoreBodyLost
  BY DEF Next, Move, Render, vars
<1> QED BY <1>1, <1>2, <1>3, <1>4, <1>5, <1>6, <1>7, <1>8, <1>9, <1>10

\* A row that was stored when the view asked for each page of its list is shown or
\* still to come, when a page has room for all rows of one date.
THEOREM CompleteSafe == ASSUME RoomForOneDate PROVE Spec => []NothingSkipped
<1>1. Init => CompleteInv
  <2> SUFFICES ASSUME Init PROVE CompleteInv
    OBVIOUS
  <2>1. tick.base = {} /\ first = NoReq /\ more = NoReq
    BY DEF Init, LoadingTick
  <2> QED BY <2>1 DEF CompleteInv, BasesOK, NothingSkipped, ReplyComplete
<1>2. IInv /\ CompleteInv /\ [Next]_vars => CompleteInv'
  BY CompleteStep
<1>3. CompleteInv => NothingSkipped
  BY DEF CompleteInv
<1> QED BY <1>1, <1>2, <1>3, Invariance, PTL DEF Spec
===============================================================================
