------------------------------ MODULE SourceFiles ------------------------------
(***************************************************************************)
(* What the parsers make of a downloaded file: providers/b3.py,            *)
(* providers/b3_lending.py and the selections of ingestion/universe.py.    *)
(*                                                                         *)
(* A file is [sha, parse, docs]: its digest, whether its parser succeeds   *)
(* ("ok"), reports an unusable file ("rejected", B3ParseError or           *)
(* CvmParseError) or raises anything else ("raises"), and the rows of its  *)
(* inner documents in order. Only B3 archives hold more than one. A row    *)
(* has the fields its parser reads; 0 is a date or a value the parser goes *)
(* without, "" a missing text.                                             *)
(***************************************************************************)
EXTENDS Naturals, Sequences, SequencesExt

CONSTANTS
    Futures,  \* tickers FUTURE_TICKER_RE accepts
    Allow     \* equities of the universe file

\* A universe row without a ticker matches no record.
ASSUME AllowAssumption == "" \notin Allow

NoFile == [sha |-> "", parse |-> "rejected", docs |-> <<>>]

Rows(f) == FlattenSeq(f.docs)

(******************************* Universe **********************************)

\* should_persist_b3_equity_last; `full` when no universe is configured.
PersistLast(ticker, full) == full \/ ticker \in Allow

\* live_otc_credit_enabled.
LiveCredit(full) == full

(******************************** Parsers **********************************)

\* A Python dictionary filled row by row: a key keeps its first place, and
\* its row is replaced when the new one is preferred.
Keyed(rows, Key(_), Preferred(_, _)) ==
    FoldLeft(LAMBDA dict, r :
               LET same == {i \in DOMAIN dict : Key(dict[i]) = Key(r)}
               IN  CASE same = {} -> Append(dict, r)
                     [] \E i \in same : Preferred(r, dict[i]) ->
                          [dict EXCEPT ![CHOOSE i \in same : TRUE] = r]
                     [] OTHER -> dict,
             <<>>, rows)

TickerDate(r) == <<r.ticker, r.date>>
Ticker(r) == r.ticker
LastWins(new, old) == TRUE
FirstWins(new, old) == FALSE

HasPrice(r) == r.ticker # "" /\ r.date # 0 /\ r.value # 0

\* parse_price_report: the documents one after the other, nothing removed.
PriceReport(f) == SelectSeq(Rows(f), HasPrice)

\* parse_settlement_report, and is_mvp_future_ticker in the loader.
SettlementReport(f) ==
    SelectSeq(Keyed(SelectSeq(Rows(f), HasPrice), TickerDate, LastWins),
              LAMBDA r : r.ticker \in Futures)

\* parse_instrument_master: the first document only, tickers to keep only.
InstrumentMaster(f, keep) ==
    Keyed(SelectSeq(Head(f.docs), LAMBDA r : r.ticker \in keep), Ticker, LastWins)

\* credit_instrument_type knows the row's code.
IsCredit(r) == r.code \in {"DEB", "CRI", "CRA"}

\* _credit_trade_from_row: a closing price, and a positive number of trades.
UsableTrade(r) == IsCredit(r) /\ HasPrice(r) /\ r.trades > 0

\* parse_otc_trade_file: EXTRAGRUPO trades replace intragroup ones.
OtcTrades(f) ==
    Keyed(SelectSeq(Rows(f), UsableTrade), TickerDate,
          LAMBDA new, old : new.class = "EXTRAGRUPO" /\ old.class # "EXTRAGRUPO")

\* parse_otc_instrument_file.
OtcInstruments(f) ==
    Keyed(SelectSeq(Rows(f), LAMBDA r : IsCredit(r) /\ r.ticker # ""), Ticker, FirstWins)

\* otc_payload_has_rows: rows of any kind, of a payload that parses.
OtcHasRows(f) == f.parse = "ok" /\ Rows(f) # <<>>

\* otc_payload_report_date, else the fallback of _credit_absence_date.
OtcReportDate(f, fallback) ==
    LET dated == IF f.parse = "ok" THEN SelectSeq(Rows(f), LAMBDA r : r.date # 0) ELSE <<>>
    IN  IF dated = <<>> THEN fallback ELSE Head(dated).date

\* parse_lending_table: a row without a date is of the date asked for.
LendingTable(f, asked) ==
    LET dated == [i \in DOMAIN Rows(f) |->
                    [Rows(f)[i] EXCEPT !.date = IF @ = 0 THEN asked ELSE @]]
    IN  Keyed(SelectSeq(dated, LAMBDA r : r.ticker \in Allow), TickerDate, FirstWins)
===============================================================================
