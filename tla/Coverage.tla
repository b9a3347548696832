------------------------------- MODULE Coverage -------------------------------
(***************************************************************************)
(* The coverage engine over stored quotes (coverage/engine.py, store.py,   *)
(* resolve.py), its API routes (api/routes/coverage.py, api/span.py) and   *)
(* the loaders that commit while a report is being read.                   *)
(*                                                                         *)
(* A report reads its inputs with one SELECT after the other and answers   *)
(* every row of the universe from memory. PostgreSQL runs them READ        *)
(* COMMITTED: a commit between two SELECTs is seen by the second only.     *)
(* The span summary reads ids, aliases and aggregates in the same way.     *)
(***************************************************************************)
EXTENDS Integers, FiniteSets

CONSTANTS Universe,     \* rows of the CSV
          Instruments,
          Home,         \* Home[i]: the source whose loader creates i
          Known,        \* Known[i]: the <<type, value>> that loader attaches to i
          Credit,       \* B3 over-the-counter credit instruments
          Futures,      \* B3 futures
          LastDate,     \* dates are 1..LastDate
          Today,
          Batches,      \* sets of instruments a file may hold prices of
          FileSets,     \* bound: what may be had of files 187, 028, OTC trades and cadastro
          None,
          Asked,        \* <<date, public>> a report may be asked for
          MaxCommits, MaxRevision   \* bounds

Providers == {"b3", "yahoo"}
Dates == 1..LastDate
LookupTypes == {"TICKER", "SOURCE_ID"}
Types == LookupTypes \cup {"ISIN"}
PriceTypes == {"LAST", "OFFICIAL_SETTLEMENT", "CLOSE"}

ASSUME DatesAssumption == LastDate \in Nat \ {0} /\ Today \in Dates /\ Asked \subseteq Dates \X BOOLEAN
ASSUME InstrumentsAssumption ==
    /\ IsFiniteSet(Instruments)
    /\ Home \in [Instruments -> Providers] /\ None \notin Instruments
    /\ \A i \in Credit \cup Futures : i \in Instruments /\ Home[i] = "b3"
    /\ Credit \cap Futures = {} /\ Batches \subseteq SUBSET Instruments
ASSUME BoundsAssumption == MaxCommits \in Nat /\ MaxRevision \in Nat \ {0}

\* uq_instrument_identifiers_type_value_source
ASSUME IdentifiersAssumption ==
    \A i, j \in Instruments : i # j /\ Home[i] = Home[j] => Known[i] \cap Known[j] = {}

\* EXPECTED_PRICE_TYPE; None: unsupported.
Expected(row) ==
    IF row.provider = "b3" /\ row.class = "equity" THEN "LAST"
    ELSE IF row.provider = "b3" /\ row.class = "future" THEN "OFFICIAL_SETTLEMENT"
    ELSE IF row.provider = "yahoo" /\ row.class = "equity" THEN "CLOSE" ELSE None

Policies == [enabled: BOOLEAN, public: BOOLEAN]
Hits == [instrument: Instruments, type: Types, value: UNION {{k[2] : k \in Known[i]} : i \in Instruments},
         source: Providers]
Quotes == [instrument: Instruments, date: Dates, type: PriceTypes, source: Providers,
           revision: 1..MaxRevision, positive: BOOLEAN]

Spans == [min: Dates, max: Dates, count: Dates]

ASSUME NoneAssumption == None \notin Policies \cup Quotes \cup Spans \cup Providers \cup PriceTypes \cup Nat

\* The preferred provider of a row; None: any other, for which EXPECTED_PRICE_TYPE has no entry.
ASSUME UniverseAssumption == \A row \in Universe : row.provider \in Providers \cup {None}

VARIABLES
    sources,     \* sources[s]: the flags of source s, or None
    hits,        \* instrument_identifiers
    quotes,      \* instrument_quotes
    runs,        \* <<provider, requested date>> with a SUCCEEDED or PARTIAL run
    absent,      \* <<instrument, date>> with a NO_PUBLIC_PRICE event
    commits,     \* how many commits changed them
    stage,       \* the SELECT the reader is at
    ask,         \* what it was asked: date and mode, or span and source filter
    view,        \* what it has read
    began,       \* the commits, and every row's direct answer, when it began
    report,      \* the last day report
    span         \* the last span summary

db == <<sources, hits, quotes, runs, absent>>
tables == <<db, commits>>
reader == <<stage, ask, view, began, report, span>>
vars == <<tables, reader>>

\* instruments with an identifier: loaders create both in one transaction
Created == {h.instrument : h \in hits}

Reasons == {"UNSUPPORTED", "SOURCE_UNAVAILABLE", "MAPPING_ERROR", "REDISTRIBUTION_RESTRICTED",
            "INVALID_VALUE", "NO_TRADE", "STALE", "NOT_PUBLISHED_YET", "NO_DATA", "NONE"}
Answers == [reason: Reasons, price: Quotes \cup {None}, staleness: Nat \cup {None}]
Beginnings == [version: 0..MaxCommits, direct: [Universe -> Answers]]
Reports == [date: Dates, public: BOOLEAN, version: 0..MaxCommits, began: Beginnings,
            answer: [Universe -> Answers]]
Summaries == [version: 0..MaxCommits, began: 0..MaxCommits, filter: Providers \cup {None},
              own: [Universe -> Spans \cup {None}], alias: [Universe -> Spans \cup {None}]]

DayStages == {"sources", "identifiers", "instruments", "quotes", "prior", "ingest", "absent", "evaluate"}
SpanStages == {"span_instruments", "span_identifiers", "span_aliases", "span_quotes"}
NoView == [sources |-> [s \in Providers |-> None], hits |-> {}, existing |-> {}, quotes |-> {},
           prior |-> {}, ingested |-> {}, absent |-> {}, aliases |-> {}]

TypeOK ==
    /\ sources \in [Providers -> Policies \cup {None}]
    /\ hits \subseteq Hits /\ quotes \subseteq Quotes
    /\ runs \subseteq Providers \X Dates /\ absent \subseteq Instruments \X Dates
    /\ commits \in 0..MaxCommits
    /\ stage \in {"idle"} \cup DayStages \cup SpanStages
    /\ report \in Reports \cup {None} /\ span \in Summaries \cup {None}

Init ==
    /\ sources = [s \in Providers |-> None]
    /\ hits = {} /\ quotes = {} /\ runs = {} /\ absent = {} /\ commits = 0
    /\ stage = "idle" /\ ask = None /\ view = NoView /\ began = None
    /\ report = None /\ span = None

-------------------------------------------------------------------------------
(* Loaders: each action is one COMMIT *)

Commit == commits < MaxCommits /\ commits' = commits + 1 /\ UNCHANGED reader

\* get_or_create_source, then the flags every ingest sets again.
Enable(s) ==
    sources' = [sources EXCEPT ![s] =
        [enabled |-> (s = "yahoo" \/ @ = None \/ @.enabled), public |-> TRUE]]

\* What get_or_create_instrument_by_key and attach_identifier store.
Attached(is, types) ==
    {h \in Hits : /\ h.instrument \in is /\ h.type \in types
                  /\ <<h.type, h.value>> \in Known[h.instrument]
                  /\ h.source = Home[h.instrument]}

Attach(is, types) == hits' = hits \cup Attached(is, types)

Revisions(i, d, type, s) ==
    {q \in quotes : q.instrument = i /\ q.date = d /\ q.type = type /\ q.source = s}

\* best_revision of _load_quotes; ORDER BY revision DESC LIMIT 1
Newest(qs) == IF qs = {} THEN None ELSE CHOOSE q \in qs : \A p \in qs : p.revision <= q.revision

Quote(i, d, type, rev, positive) ==
    [instrument |-> i, date |-> d, type |-> type, source |-> Home[i], revision |-> rev, positive |-> positive]

\* Absences of a day: the credit instruments of the master without a LAST of that day.
Absences(d, last, master) ==
    {<<i, d>> : i \in {j \in master : j \notin last /\ Revisions(j, d, "LAST", "b3") = {}}}

\* upsert_quote: other bytes under the same identity become the next revision.
NextRevision(i, d, type) ==
    LET newest == Newest(Revisions(i, d, type, Home[i]))
    IN  IF newest = None THEN 1 ELSE newest.revision + 1

Upsert(i, d, type, positive) == Quote(i, d, type, NextRevision(i, d, type), positive)

\* the price history of instruments on some days
History(is, days, type) == {Upsert(k[1], k[2], type, TRUE) : k \in is \X days}

\* ingest_b3 and a day of backfill_b3, one transaction. Files 187, 028 and the
\* credit cadastro may be missing. A stored price of file 186 is left as it is;
\* settlements and credit trades of other bytes are revised. The instrument
\* master gives ISINs, the cadastro absences if anything traded.
CommitB3Day(d, traded, last, settled, files, other, positive) ==
    /\ Commit
    /\ Enable("b3")
    /\ hits' = hits \cup Attached(last \cup settled, IF "028" \in files THEN Types ELSE LookupTypes)
                    \cup Attached(IF "cadastro" \in files THEN Credit ELSE traded, Types)
    /\ LET new(i, type) == Revisions(i, d, type, "b3") = {}
           rows == {Quote(i, d, "LAST", 1, TRUE) : i \in {j \in last : new(j, "LAST")}}
                   \cup {Upsert(i, d, "LAST", TRUE) : i \in {j \in traded : other \/ new(j, "LAST")}}
                   \cup {Upsert(i, d, "OFFICIAL_SETTLEMENT", positive) :
                           i \in {j \in settled : other \/ new(j, "OFFICIAL_SETTLEMENT")}}
       IN  rows \subseteq Quotes /\ quotes' = quotes \cup rows
    /\ absent' = absent \cup (IF {"trades", "cadastro"} \subseteq files THEN Absences(d, traded, Credit) ELSE {})
    /\ runs' = runs \cup {<<"b3", d>>}

\* A year file committed by backfill_b3: last prices of the slice, ISINs, and a
\* run row requested for the last day of the slice.
CommitCotahist(end, days, is) ==
    /\ Commit
    /\ Enable("b3") /\ Attach(is, Types)
    /\ History(is, days, "LAST") \subseteq Quotes
    /\ quotes' = quotes \cup History(is, days, "LAST")
    /\ runs' = runs \cup {<<"b3", end>>}
    /\ UNCHANGED absent

\* ingest_yahoo: the symbols whose history could be had, at least one, and the
\* run row. A chunk of backfill_yahoo commits no run row before its last one.
CommitYahoo(is, days, run) ==
    /\ Commit /\ is # {} /\ \A r \in run, d \in days : d <= r[2]
    /\ Enable("yahoo") /\ Attach(is, LookupTypes)
    /\ History(is, days, "CLOSE") \subseteq Quotes
    /\ quotes' = quotes \cup History(is, days, "CLOSE")
    /\ runs' = runs \cup run
    /\ UNCHANGED absent

\* An operator changes the flags of a source.
SetPolicy(s, policy) ==
    /\ Commit
    /\ sources[s] # None /\ sources[s] # policy
    /\ sources' = [sources EXCEPT ![s] = policy]
    /\ UNCHANGED <<hits, quotes, runs, absent>>

\* The last prices of files 186 and COTAHIST.
B3Shares(batch) == {i \in batch \ (Futures \cup Credit) : Home[i] = "b3"}
YahooShares(batch) == {i \in batch : Home[i] = "yahoo"}

\* At most one run row in a COMMIT.
YahooRuns == {{}} \cup {{<<"yahoo", end>>} : end \in Dates}

Load ==
    \/ \E d \in Dates, batch \in Batches, files \in FileSets, other, positive \in BOOLEAN :
         /\ batch \cap Credit # {} => "trades" \in files
         /\ CommitB3Day(d, batch \cap Credit, B3Shares(batch),
                        IF "187" \in files THEN batch \cap Futures ELSE {}, files, other, positive)
    \/ \E end \in Dates, days \in SUBSET Dates, batch \in Batches :
         /\ \A d \in days : d <= end
         /\ CommitCotahist(end, days, B3Shares(batch))
    \/ \E days \in (SUBSET Dates) \ {{}}, run \in YahooRuns, batch \in Batches :
         CommitYahoo(YahooShares(batch), days, run)
    \/ \E s \in Providers, p \in Policies : SetPolicy(s, p)

-------------------------------------------------------------------------------
(* Answering a row of the CSV *)

Ids(hs, types, value, s) ==
    {h.instrument : h \in {g \in hs : g.type \in types /\ g.value = value /\ (s = None \/ g.source = s)}}

\* resolve_row: the UUID of the row, else its ISIN, else its ticker.
ResolveRow(row, hs, existing, s) ==
    LET byIsin == Ids(hs, {"ISIN"}, row.isin, s)
    IN  IF row.uuid # None THEN {row.uuid} \cap existing
        ELSE IF row.isin # None /\ byIsin # {} THEN byIsin
        ELSE IF row.ticker = None THEN {} ELSE Ids(hs, LookupTypes, row.ticker, s)

Only(ids) == IF Cardinality(ids) = 1 THEN CHOOSE i \in ids : TRUE ELSE None

DatesOf(qs) == {q.date : q \in qs}

Latest(dates) == IF dates = {} THEN None ELSE CHOOSE d \in dates : \A e \in dates : e <= d

Missing(reason, days) == [reason |-> reason, price |-> None, staleness |-> days]

\* The order of _evaluate_row's questions, from what the store answers to each:
\* its source, the ids, the quote, whether a lack of trades is on record, the last earlier date.
Answer(row, date, public, store) ==
    IF Expected(row) = None THEN Missing("UNSUPPORTED", None)
    ELSE IF store.source = None \/ ~store.source.enabled THEN Missing("SOURCE_UNAVAILABLE", None)
    ELSE IF Only(store.ids) = None THEN Missing("MAPPING_ERROR", None)
    ELSE IF store.quote # None THEN
        IF public /\ ~store.source.public THEN Missing("REDISTRIBUTION_RESTRICTED", None)
        ELSE IF ~store.quote.positive THEN Missing("INVALID_VALUE", None)
        ELSE [reason |-> "NONE", price |-> store.quote, staleness |-> None]
    ELSE IF store.noTrade THEN Missing("NO_TRADE", None)
    ELSE IF store.prior # None THEN Missing("STALE", date - store.prior)
    ELSE IF date >= Today THEN Missing("NOT_PUBLISHED_YET", None)
    ELSE Missing("NO_DATA", None)

SourceOf(row, flags) == IF row.provider = None THEN None ELSE flags[row.provider]

\* The store without a prefetch: a query on the tables for every question.
Direct(row, date, public) ==
    LET ids == ResolveRow(row, hits, Created, row.provider)
        i == Only(ids)
        of == {q \in quotes : q.instrument = i /\ q.type = Expected(row) /\ q.source = row.provider}
    IN  Answer(row, date, public,
               [source |-> SourceOf(row, sources), ids |-> ids,
                quote |-> Newest({q \in of : q.date = date}),
                noTrade |-> <<i, date>> \in absent \/ <<row.provider, date>> \in runs,
                prior |-> Latest(DatesOf({q \in of : q.date < date}))])

-------------------------------------------------------------------------------
(* The day report: prefetch_universe, then every row from memory *)

BeginReport(date, public) ==
    /\ report = None
    /\ stage = "idle" /\ stage' = "sources"
    /\ ask' = [date |-> date, public |-> public]
    /\ began' = [version |-> commits, direct |-> [row \in Universe |-> Direct(row, date, public)]]
    /\ view' = NoView
    /\ UNCHANGED <<tables, report, span>>

\* One SELECT, whose rows become v.
Select(from, to, v) ==
    /\ stage = from /\ stage' = to
    /\ view' = v
    /\ UNCHANGED <<tables, ask, began, report, span>>

\* names of prefetch_universe
Names == {row.provider : row \in Universe} \ {None}

LoadSources ==
    Select("sources", "identifiers",
           [view EXCEPT !.sources = [s \in Providers |-> IF s \in Names THEN sources[s] ELSE None]])

\* Mutant: the ticker of a row with an ISIN is not looked up.
LoadIdentifiersIsinFirst ==
    LET rows == {row \in Universe : row.uuid = None}
        values == {IF row.isin # None THEN row.isin ELSE row.ticker : row \in rows}
    IN  Select("identifiers", "instruments", [view EXCEPT !.hits = {h \in hits : h.value \in values}])

\* The ISINs and tickers of the rows without a UUID, whatever the source.
LoadIdentifiers ==
    LET rows == {row \in Universe : row.uuid = None}
        values == {row.isin : row \in rows} \cup {row.ticker : row \in rows}
    IN  Select("identifiers", "instruments", [view EXCEPT !.hits = {h \in hits : h.value \in values}])

Uuids == {row.uuid : row \in Universe} \ {None}

LoadInstruments ==
    Select("instruments", "quotes", [view EXCEPT !.existing = Uuids \cap Created])

\* resolve_row over the cache, for every row
Resolved(row) == ResolveRow(row, view.hits, view.existing, row.provider)
UniqueIds == UNION {Resolved(row) : row \in Universe}

Key(q) == <<q.instrument, q.type, q.source>>
OfKey(qs, key) == {q \in qs : Key(q) = key}

\* Mutant: the first revision met is kept.
LoadQuotesFirstMet ==
    LET found == {q \in quotes : q.instrument \in UniqueIds /\ q.date = ask.date}
    IN  Select("quotes", "prior", [view EXCEPT !.quotes = {q \in found : q.revision = 1}])

LoadQuotes ==
    LET found == {q \in quotes : q.instrument \in UniqueIds /\ q.date = ask.date}
    IN  Select("quotes", "prior",
               [view EXCEPT !.quotes = {Newest(OfKey(found, Key(q))) : q \in found}])

\* Mutant: dates after the report's count too.
LoadPriorAnyDate ==
    LET found == {q \in quotes : q.instrument \in UniqueIds /\ q.date # ask.date}
    IN  Select("prior", "ingest",
               [view EXCEPT !.prior = {<<Key(q), Latest(DatesOf(OfKey(found, Key(q))))>> : q \in found}])

\* max(reference_date) before the date, by instrument, price type and source
LoadPrior ==
    LET found == {q \in quotes : q.instrument \in UniqueIds /\ q.date < ask.date}
    IN  Select("prior", "ingest",
               [view EXCEPT !.prior = {<<Key(q), Latest(DatesOf(OfKey(found, Key(q))))>> : q \in found}])

LoadIngest ==
    Select("ingest", "absent", [view EXCEPT !.ingested = {s \in Names : <<s, ask.date>> \in runs}])

LoadNoPublic ==
    Select("absent", "evaluate", [view EXCEPT !.absent = {i \in UniqueIds : <<i, ask.date>> \in absent}])

\* _evaluate_row over the cache
Cached(row) ==
    LET ids == Resolved(row)
        key == <<Only(ids), Expected(row), row.provider>>
    IN  Answer(row, ask.date, ask.public,
               [source |-> SourceOf(row, view.sources), ids |-> ids,
                quote |-> Newest(OfKey(view.quotes, key)),
                noTrade |-> Only(ids) \in view.absent \/ row.provider \in view.ingested,
                prior |-> Latest({p[2] : p \in {r \in view.prior : r[1] = key}})])

Evaluate ==
    /\ stage = "evaluate" /\ stage' = "idle"
    /\ report' = [date |-> ask.date, public |-> ask.public, version |-> commits,
                  began |-> began, answer |-> [row \in Universe |-> Cached(row)]]
    /\ ask' = None /\ view' = NoView /\ began' = None
    /\ UNCHANGED <<tables, span>>

-------------------------------------------------------------------------------
(* The span summary *)

BeginSpan(filter) ==
    /\ span = None
    /\ stage = "idle" /\ stage' = "span_instruments"
    /\ ask' = [filter |-> filter]
    /\ began' = [version |-> commits]
    /\ view' = NoView
    /\ UNCHANGED <<tables, report, span>>

\* The two SELECTs of resolve_universe_instrument_ids.
SpanInstruments ==
    Select("span_instruments", "span_identifiers", [view EXCEPT !.existing = Uuids \cap Created])

\* Mutant: the ticker of a row with an ISIN is not looked up.
SpanIdentifiersIsinFirst ==
    LET values == {IF row.isin # None THEN row.isin ELSE row.ticker : row \in Universe}
    IN  Select("span_identifiers", IF ask.filter = "b3" THEN "span_quotes" ELSE "span_aliases",
               [view EXCEPT !.hits = {h \in hits : /\ h.value \in values
                                                   /\ ask.filter = None \/ h.source = ask.filter}])

SpanIdentifiers ==
    LET values == {row.isin : row \in Universe} \cup {row.ticker : row \in Universe}
    IN  Select("span_identifiers", IF ask.filter = "b3" THEN "span_quotes" ELSE "span_aliases",
               [view EXCEPT !.hits = {h \in hits : /\ h.value \in values
                                                   /\ ask.filter = None \/ h.source = ask.filter}])

\* resolve_yahoo_span_aliases; not asked under the b3 filter
SpanAliases ==
    Select("span_aliases", "span_quotes",
           [view EXCEPT !.aliases = {h \in hits : /\ h.value \in {row.alias : row \in Universe}
                                                  /\ h.type \in LookupTypes /\ h.source = "yahoo"}])

\* _span_source
SpanSource(row) == IF ask.filter # None THEN ask.filter ELSE row.provider

SpanOwn(row) == Only(ResolveRow(row, view.hits, view.existing, SpanSource(row)))
SpanAlias(row) == Only({h.instrument : h \in {g \in view.aliases : g.value = row.alias}})

\* load_instrument_source_spans of an instrument: quotes of sources that are public now
SpanOf(i, s) ==
    LET days == {q.date : q \in {p \in quotes : /\ p.instrument = i /\ (s = None \/ p.source = s)
                                                /\ ask.filter = None \/ p.source = ask.filter
                                                /\ sources[p.source].public}}
    IN  IF days = {} THEN None
        ELSE [min |-> CHOOSE d \in days : \A e \in days : d <= e, max |-> Latest(days),
              count |-> Cardinality(days)]

\* The last SELECT, and the item of every row and of its .SA companion.
SpanQuotes ==
    /\ stage = "span_quotes" /\ stage' = "idle"
    /\ span' = [version |-> commits, began |-> began.version, filter |-> ask.filter,
                own |-> [row \in Universe |->
                           IF ask.filter = "yahoo" /\ row.alias # None THEN None
                           ELSE SpanOf(SpanOwn(row), SpanSource(row))],
                alias |-> [row \in Universe |->
                             IF ask.filter = "b3" \/ row.alias = None THEN None
                             ELSE SpanOf(SpanAlias(row), "yahoo")]]
    /\ ask' = None /\ view' = NoView /\ began' = None
    /\ UNCHANGED <<tables, report>>

Read ==
    \/ \E question \in Asked : BeginReport(question[1], question[2])
    \/ LoadSources \/ LoadIdentifiers \/ LoadInstruments \/ LoadQuotes
    \/ LoadPrior \/ LoadIngest \/ LoadNoPublic \/ Evaluate
    \/ \E filter \in Providers \cup {None} : BeginSpan(filter)
    \/ SpanInstruments \/ SpanIdentifiers \/ SpanAliases \/ SpanQuotes

Next == Load \/ Read

Spec == Init /\ [][Next]_vars

-------------------------------------------------------------------------------
(* Properties *)

Quiet(r, first) == r # None /\ first = r.version

\* A report no commit overlapped gives, while nothing is committed, what a
\* query for each row would: the prefetch caches change the number of SELECTs
\* and nothing else (coverage/store.py, docs/COVERAGE.md "Read path").
QuietReportExact ==
    (Quiet(report, report.began.version) /\ report.version = commits) =>
        \A row \in Universe : report.answer[row] = Direct(row, report.date, report.public)

\* A price the per-row query would have given when the report began is never
\* reported as absent, stale or an older revision, whatever commits meanwhile;
\* it can only be withheld by a switch of its source or replaced by a newer one,
\* whose value may be one no report shows.
NoPriceLost ==
    report # None =>
        \A row \in Universe :
            LET first == report.began.direct[row]
                last == report.answer[row]
            IN  first.reason = "NONE" =>
                    \/ last.reason = "NONE" /\ first.price.revision <= last.price.revision
                    \/ last.reason \in {"SOURCE_UNAVAILABLE", "REDISTRIBUTION_RESTRICTED"}
                    \/ /\ last.reason = "INVALID_VALUE"
                       /\ \E q \in quotes : /\ Key(q) = Key(first.price) /\ q.date = first.price.date
                                           /\ q.revision > first.price.revision /\ ~q.positive

\* A row the public report prices has, in a span summary of the same database,
\* a span of its own that contains the date: the summary and the report of one
\* universe resolve its rows alike (api/span.py against coverage/resolve.py).
SpanContainsPriced ==
    (/\ Quiet(report, report.began.version) /\ Quiet(span, span.began)
     /\ report.version = span.version /\ report.public) =>
        \A row \in Universe :
            (report.answer[row].reason = "NONE" /\ span.filter \in {None, row.provider}
                /\ ~(span.filter = "yahoo" /\ row.alias # None)) =>
                /\ span.own[row] # None
                /\ span.own[row].min <= report.date /\ report.date <= span.own[row].max

\* NO_TRADE means there was no public print: docs/PRICE_SEMANTICS.md says so
\* and docs/COVERAGE.md that the prefetch is safe while backfill inserts. A
\* report that answers NO_TRADE finds no price of the row stored.
NoTradeIsHonest ==
    (report # None /\ report.version = commits) =>
        \A row \in Universe : report.answer[row].reason = "NO_TRADE" =>
            Direct(row, report.date, report.public).reason # "NONE"

===============================================================================
