------------------------------- MODULE SideLoads -------------------------------
(***************************************************************************)
(* The other daily loaders: B3 lending, CVM events, CVM funds, Tesouro,    *)
(* BCB and IBGE series, FRED and Yahoo quotes, CFTC and 13F snapshots. One *)
(* action per file fetched and one per record persisted.                   *)
(***************************************************************************)
EXTENDS LoadSession

First == Head(todo)

(******************************** Downloads ********************************)

SideRecords(f) == IF job.loader = "b3-lending" THEN LendingTable(f, command.date) ELSE Rows(f)

FetchSide ==
    /\ job.loader \notin {"none", "b3", "cvm", "tesouro"}
    /\ \E f \in IF CanFetch THEN Served ELSE {} : Fetch(f) /\ todo' = Parsed(f, SideRecords(f))
    /\ UNCHANGED memo

\* load_quote_keys, for each month anew. The CVM registry only feeds the class of
\* the months' rows.
FetchBulk ==
    /\ job.loader \in {"cvm", "tesouro"}
    /\ \E f \in IF CanFetch THEN Served ELSE {} :
         Fetch(f) /\ todo' = IF Kind = "registry" THEN <<>> ELSE Parsed(f, Rows(f))
    /\ memo' = [memo EXCEPT !.stored = StoredIdentities(session)]

(******************************* B3 lending ********************************)

LendingKey(ticker) == "b3-lending:" \o ticker
LendingInstrument(ticker) == Instrument("b3", LendingKey(ticker))

SnapshotKey(r) == <<"lending", r.ticker, r.date, file.kind>>

\* A ticker nothing resolves to: an instrument of lending's own.
PersistUnknownLending(r) ==
    LET s == Attach(GetOrCreate(session, "b3", LendingKey(r.ticker)),
                    "TICKER", r.ticker, "b3", LendingInstrument(r.ticker))
    IN  Persist(UpsertSnapshot(s, SnapshotKey(r), LendingInstrument(r.ticker), r.value))

\* Mutant: lending looks for its own instruments only.
PersistLendingApart ==
    /\ Persisting("b3-lending")
    /\ PersistUnknownLending(First)
    /\ UNCHANGED memo

\* _lending_instrument_id and upsert_lending_snapshot.
PersistLending ==
    /\ Persisting("b3-lending")
    /\ LET owners == Resolve(session, First.ticker)
       IN  \/ \E i \in owners : Persist(UpsertSnapshot(session, SnapshotKey(First), i, First.value))
           \/ owners = {} /\ PersistUnknownLending(First)
    /\ UNCHANGED memo

(**************************** Events and snapshots *************************)

\* An event keeps the instrument its ticker resolved to when it was first seen.
PersistEvent ==
    /\ Persisting("cvm-events")
    /\ LET owners == Resolve(session, First.ticker)
       IN  \E i \in IF owners = {} THEN {NoInstrument} ELSE owners :
             Persist(UpsertEvent(session, <<"cvm", First.id>>, i))
    /\ UNCHANGED memo

\* Commitments of traders of a contract and week.
PersistCot ==
    /\ Persisting("cftc")
    /\ Persist(UpsertHolding(session, <<"cftc", First.ticker, First.date>>, First.value))
    /\ UNCHANGED memo

\* A filer's holding of a security and quarter.
PersistHolding ==
    /\ Persisting("13f")
    /\ Persist(UpsertHolding(session, <<"13f", First.filer, First.date, First.ticker>>, First.value))
    /\ UNCHANGED memo

(****************************** Quotes and series **************************)

\* FRED names an instrument by its code and attaches the series id to it.
FredCode(id) == "FRED:" \o id
FredInstrument(id) == Instrument("fred", FredCode(id))

FredListed(id) ==
    Attach(Attach(GetOrCreate(session, "fred", FredCode(id)),
                  "TICKER", id, "fred", FredInstrument(id)),
           "SOURCE_ID", id, "fred", FredInstrument(id))

\* Mutant: instrument and identifiers once per observation.
PersistFredEach ==
    /\ Persisting("fred")
    /\ Persist(UpsertQuote(FredListed(First.ticker),
                           <<FredInstrument(First.ticker), First.date, "REFERENCE">>,
                           First.value, file.sha))
    /\ UNCHANGED memo

\* Instrument and identifiers once per series, before its observations.
PersistFred ==
    /\ Persisting("fred")
    /\ LET id == First.ticker
           s  == IF id \in memo.ids THEN session ELSE FredListed(id)
       IN  /\ Persist(UpsertQuote(s, <<FredInstrument(id), First.date, "REFERENCE">>,
                                  First.value, file.sha))
           /\ memo' = [memo EXCEPT !.ids = @ \cup {id}]

\* _persist_yahoo_records: identifiers once per file.
PersistYahoo ==
    /\ Persisting("yahoo")
    /\ LET symbol == First.ticker
           it     == Instrument("yahoo", symbol)
           s      == GetOrCreate(session, "yahoo", symbol)
           named  == IF symbol \in memo.ids THEN s
                     ELSE Attach(Attach(s, "YAHOO_SYMBOL", symbol, "yahoo", it),
                                 "TICKER", symbol, "yahoo", it)
       IN  /\ Persist(UpsertQuote(named, <<it, First.date, First.kind>>, First.value, file.sha))
           /\ memo' = [memo EXCEPT !.ids = @ \cup {symbol}]

\* One file stands for the JSON list of all series that answered.
PersistObservation(source) ==
    /\ Persisting(source)
    /\ LET s == GetOrCreateSeries(session, source, First.ticker)
       IN  Persist(UpsertQuote(s, <<Instrument(source, First.ticker), First.date, "VALUE">>,
                               First.value, file.sha))
    /\ UNCHANGED memo

PersistBcb == PersistObservation("bcb")

PersistIbge == PersistObservation("ibge")

(******************************* Bulk loaders ******************************)

PersistTesouro ==
    /\ Persisting("tesouro")
    /\ Wait(GetOrCreate(session, "tesouro", First.ticker), memo,
            <<Instrument("tesouro", First.ticker), First.date, First.kind>>, First.value)

\* get_or_create_fund_instrument: a subclass is identified by its own id, a
\* class by its CNPJ.
GetOrCreateFund(s, r) ==
    LET fund == Instrument("cvm", r.ticker \o ":" \o r.sub)
        made == GetOrCreate(s, "cvm", r.ticker \o ":" \o r.sub)
        own  == IF r.sub = ""
                THEN {Identifier("CNPJ_FUNDO_CLASSE", r.ticker, "cvm", fund),
                      Identifier("CNPJ", r.ticker, "cvm", fund)}
                ELSE {Identifier("CVM_SUBCLASS_ID", r.sub, "cvm", fund)}
    IN  IF made = s THEN s ELSE Flush(Add(made, "identifiers", own))

\* _persist_cvm_records: a quota that is not positive is rejected, a class
\* outside CVM_CLASSES skipped.
PersistNav ==
    /\ Persisting("cvm")
    /\ \/ /\ First.value = 0 \/ ~First.kept
          /\ Persist(session) /\ UNCHANGED memo
       \/ /\ First.value # 0 /\ First.kept
          /\ Wait(GetOrCreateFund(session, First), memo,
                  <<Instrument("cvm", First.ticker \o ":" \o First.sub), First.date, "FUND_NAV">>,
                  First.value)

SideNext == \/ FetchSide \/ FetchBulk \/ PersistLending \/ PersistEvent
            \/ PersistCot \/ PersistHolding \/ PersistFred \/ PersistYahoo
            \/ PersistBcb \/ PersistIbge \/ PersistTesouro \/ PersistNav
===============================================================================
