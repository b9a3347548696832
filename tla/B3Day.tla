--------------------------------- MODULE B3Day ---------------------------------
(***************************************************************************)
(* The daily B3 load, _ingest_b3_day of ingestion/b3.py: last prices (file *)
(* 186), futures settlements (187), instrument master (028), OTC credit    *)
(* trades and the credit cadastro with its NO_PUBLIC_PRICE absences. One   *)
(* action per file fetched and one per record persisted.                   *)
(***************************************************************************)
EXTENDS LoadSession

B3(ticker) == Instrument("b3", ticker)
B3Persisting(kind) == Persisting("b3") /\ file.kind = kind
Record == Head(todo)

\* Parsed records of the file just fetched.
B3Records(f) ==
    CASE Kind = "186" -> PriceReport(f)
      [] Kind = "187" -> SettlementReport(f)
      [] Kind = "028" -> InstrumentMaster(f, memo.ids)
      [] Kind = "trades" -> OtcTrades(f)
      [] Kind = "cadastro" -> OtcInstruments(f)

FetchB3 ==
    /\ job.loader = "b3"
    /\ \E f \in IF CanFetch THEN Served ELSE {} :
         /\ Fetch(f)
         /\ todo' = IF MasterUnread THEN <<>> ELSE Parsed(f, B3Records(f))
         /\ memo' = CASE Kind = "186" -> [memo EXCEPT !.stored = StoredIdentities(session)]
                      [] Kind = "trades" -> [memo EXCEPT !.trades = f]
                      [] OTHER -> memo

\* TICKER and, when the file has one, B3_SECURITY_ID.
AttachListing(s, r) ==
    LET t == Attach(s, "TICKER", r.ticker, "b3", B3(r.ticker))
    IN  IF r.security = "" THEN t
        ELSE Attach(t, "B3_SECURITY_ID", r.security, "b3", B3(r.ticker))

\* get_or_create and identifiers, once per ticker of a file.
Listed(r) == IF r.ticker \in memo.ids THEN session
             ELSE AttachListing(GetOrCreate(session, "b3", r.ticker), r)

KnowTicker(r) == [memo EXCEPT !.ids = @ \cup {r.ticker}]

\* Mutant: the loop ends at the first record it does not persist.
PersistPriceOrStop ==
    /\ B3Persisting("186")
    /\ \/ /\ ~PersistLast(Record.ticker, command.full)
          /\ todo' = <<>>
          /\ UNCHANGED <<commandVars, db, session, job, items, file, memo>>
       \/ /\ PersistLast(Record.ticker, command.full)
          /\ Wait(Listed(Record), KnowTicker(Record),
                  <<B3(Record.ticker), Record.date, "LAST">>, Record.value)

\* A last price of file 186, by the bulk path.
PersistPrice ==
    /\ B3Persisting("186")
    /\ \/ ~PersistLast(Record.ticker, command.full) /\ Persist(session) /\ UNCHANGED memo
       \/ /\ PersistLast(Record.ticker, command.full)
          /\ Wait(Listed(Record), KnowTicker(Record),
                  <<B3(Record.ticker), Record.date, "LAST">>, Record.value)

\* A settlement of file 187.
PersistSettlement ==
    /\ B3Persisting("187")
    /\ Persist(UpsertQuote(AttachListing(GetOrCreate(session, "b3", Record.ticker), Record),
                           <<B3(Record.ticker), Record.date, "OFFICIAL_SETTLEMENT">>,
                           Record.value, file.sha))
    /\ memo' = KnowTicker(Record)

\* A row of the master: its ISIN goes to the instrument persisted today.
EnrichInstrument ==
    /\ B3Persisting("028")
    /\ Persist(IF Record.isin = "" THEN session
               ELSE Attach(session, "ISIN", Record.isin, "b3", B3(Record.ticker)))
    /\ UNCHANGED memo

\* _upsert_credit_instrument.
UpsertCreditInstrument(s, r) ==
    LET t == Attach(GetOrCreate(s, "b3", r.ticker), "TICKER", r.ticker, "b3", B3(r.ticker))
    IN  IF r.isin = "" THEN t ELSE Attach(t, "ISIN", r.isin, "b3", B3(r.ticker))

PersistTrade ==
    /\ B3Persisting("trades")
    /\ Persist(UpsertQuote(UpsertCreditInstrument(session, Record),
                           <<B3(Record.ticker), Record.date, "LAST">>,
                           Record.value, file.sha))
    /\ memo' = [memo EXCEPT !.priced = @ \cup {TickerDate(Record)}]

\* _should_record_credit_absence: a weekday whose trades file has rows.
ExpectsTrades == command.date \notin Weekend /\ OtcHasRows(memo.trades)

AbsenceDate == OtcReportDate(memo.trades, command.date)

\* Mutant: only the prices already in the database are asked for.
PersistCreditStoredOnly ==
    /\ B3Persisting("cadastro")
    /\ LET s == UpsertCreditInstrument(session, Record)
       IN  Persist(IF ExpectsTrades
                      /\ Revisions(db["quotes"], <<B3(Record.ticker), AbsenceDate, "LAST">>) = {}
                   THEN RecordAbsence(s, B3(Record.ticker), AbsenceDate) ELSE s)
    /\ UNCHANGED memo

\* A bond of the cadastro: without a price in today's trades or in the
\* database, the absence of one is put on record.
PersistCredit ==
    /\ B3Persisting("cadastro")
    /\ LET s == UpsertCreditInstrument(session, Record)
           priced == \/ <<Record.ticker, AbsenceDate>> \in memo.priced
                     \/ Revisions(s.flushed["quotes"],
                                  <<B3(Record.ticker), AbsenceDate, "LAST">>) # {}
       IN  Persist(IF ExpectsTrades /\ ~priced
                   THEN RecordAbsence(s, B3(Record.ticker), AbsenceDate) ELSE s)
    /\ UNCHANGED memo

B3Next == \/ FetchB3 \/ PersistPrice \/ PersistSettlement \/ EnrichInstrument
          \/ PersistTrade \/ PersistCredit
===============================================================================
