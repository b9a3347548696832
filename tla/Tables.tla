-------------------------------- MODULE Tables --------------------------------
(***************************************************************************)
(* What a loader may do to the database inside its transaction: the        *)
(* operators of storage/repositories.py over one SQLAlchemy session.       *)
(*                                                                         *)
(* The session factory switches autoflush off (storage/database.py), so a  *)
(* SELECT sees what was flushed and not the rows added since. Two rows of  *)
(* one unique key, added without a flush in between, make the next flush   *)
(* fail; `clash` remembers that until the transaction is rolled back.      *)
(*                                                                         *)
(* An instrument is named by the source and the SOURCE_ID it was created   *)
(* with; names, currencies, maturities and other columns no property reads *)
(* are left out.                                                           *)
(***************************************************************************)
EXTENDS Naturals, Sequences, FiniteSets, SequencesExt

CONSTANT Digits \* Digits[text]: the digits of a text, of those that hold any

\* snapshots are lending_snapshots, cot_snapshots and thirteen_f_holdings,
\* absences the NO_PUBLIC_PRICE quality events.
Names == {"identifiers", "series", "quotes", "snapshots", "events", "absences",
          "artifacts", "runs"}

NoRows == [t \in Names |-> {}]
NoInstrument == <<>>

\* A session that has just begun: `flushed` is what its SELECTs see.
Begin(committed) == [flushed |-> committed, added |-> NoRows, clash |-> FALSE]

Keys(rows) == {r.key : r \in rows}

\* session.add: every table is unique in `key`.
Add(s, t, rows) ==
    [s EXCEPT !.added[t] = @ \cup rows,
              !.clash = @ \/ Keys(rows) \cap Keys(s.flushed[t] \cup s.added[t]) # {}]

Flush(s) ==
    [s EXCEPT !.flushed = [t \in Names |-> s.flushed[t] \cup s.added[t]],
              !.added = NoRows]

Find(s, t, key) == {r \in s.flushed[t] : r.key = key}

Replace(s, t, old, row) == [s EXCEPT !.flushed[t] = (@ \ old) \cup {row}]

(************************ Instruments and identifiers **********************)

Instrument(source, sourceKey) == <<source, sourceKey>>

\* Instruments that own the identifier; at most one.
OwnersOf(s, type, value, source) ==
    {r.instrument : r \in Find(s, "identifiers", <<type, value, source>>)}

Identifier(type, value, source, instrument) ==
    [key |-> <<type, value, source>>, instrument |-> instrument]

\* get_or_create_instrument_by_key: flushes what is waiting only to create.
GetOrCreate(s, source, sourceKey) ==
    IF OwnersOf(s, "SOURCE_ID", sourceKey, source) # {} THEN s
    ELSE Flush(Add(Flush(s), "identifiers",
               {Identifier("SOURCE_ID", sourceKey, source, Instrument(source, sourceKey))}))

\* attach_identifier: leaves an identifier any instrument owns, does not flush.
Attach(s, type, value, source, instrument) ==
    IF OwnersOf(s, type, value, source) # {} THEN s
    ELSE Add(s, "identifiers", {Identifier(type, value, source, instrument)})

\* digits_only of a text; most texts have none.
DigitsOnly(text) == IF text \in DOMAIN Digits THEN Digits[text] ELSE ""

Candidates(text) == {text, DigitsOnly(text)} \ {""}

\* resolve_instrument_id: every instrument the unordered SELECT may return, whatever
\* the type and the source of the identifier, for the text itself or its digits.
Resolve(s, text) ==
    {r.instrument : r \in {i \in s.flushed["identifiers"] : i.key[2] \in Candidates(text)}}

\* get_or_create_market_series: a code is one series, of the source that came first.
GetOrCreateSeries(s, source, code) ==
    IF Find(s, "series", <<code>>) # {} THEN s
    ELSE Flush(Add(s, "series", {[key |-> <<code>>, source |-> source]}))

(********************************** Quotes *********************************)

Quote(identity, revision, value, sha) ==
    [key |-> Append(identity, revision), value |-> value, sha |-> sha]

Identity(q) == Front(q.key)
Revision(q) == Last(q.key)

Revisions(rows, identity) == {q \in rows : Identity(q) = identity}

\* order_by(revision.desc()) puts the last one first.
LatestOf(rows) == CHOOSE q \in rows : \A other \in rows : Revision(other) <= Revision(q)

\* Mutant: the first row the unordered SELECT returns, not the newest.
UpsertQuoteUnordered(s, identity, value, sha) ==
    LET stored == Revisions(s.flushed["quotes"], identity)
        first  == CHOOSE q \in stored : \A other \in stored : Revision(q) <= Revision(other)
    IN  CASE stored = {} -> Add(s, "quotes", {Quote(identity, 1, value, sha)})
          [] stored # {} /\ first.sha = sha -> s
          [] OTHER -> Add(s, "quotes", {Quote(identity, Cardinality(stored) + 1, value, sha)})

\* Mutant: revisions counted from zero.
UpsertQuoteFromZero(s, identity, value, sha) ==
    LET stored == Revisions(s.flushed["quotes"], identity)
    IN  CASE stored = {} -> Add(s, "quotes", {Quote(identity, 0, value, sha)})
          [] stored # {} /\ LatestOf(stored).sha = sha -> s
          [] OTHER -> Add(s, "quotes", {Quote(identity, Cardinality(stored), value, sha)})

\* upsert_quote and upsert_series_observation: nothing when the latest row came
\* from the same bytes, else the next revision.
UpsertQuote(s, identity, value, sha) ==
    LET stored == Revisions(s.flushed["quotes"], identity)
    IN  CASE stored = {} -> Add(s, "quotes", {Quote(identity, 1, value, sha)})
          [] stored # {} /\ LatestOf(stored).sha = sha -> s
          [] OTHER -> Add(s, "quotes",
                          {Quote(identity, Revision(LatestOf(stored)) + 1, value, sha)})

\* load_quote_keys.
StoredIdentities(s) == {Identity(q) : q \in s.flushed["quotes"]}

(************************* Rows without revisions **************************)

\* upsert_lending_snapshot: a row that is there is changed in place and keeps its
\* instrument if none is given.
UpsertSnapshot(s, key, instrument, value) ==
    LET stored == Find(s, "snapshots", key)
        kept   == {r.instrument : r \in stored}
    IN  IF stored = {}
        THEN Add(s, "snapshots", {[key |-> key, instrument |-> instrument, value |-> value]})
        ELSE Replace(s, "snapshots", stored,
                 [key |-> key, value |-> value,
                  instrument |-> IF instrument # NoInstrument THEN instrument
                                 ELSE CHOOSE i \in kept : TRUE])

\* upsert_cot_snapshot and upsert_thirteen_f_holding: rows without an instrument.
UpsertHolding(s, key, value) == UpsertSnapshot(s, key, NoInstrument, value)

\* upsert_event: an event that is there stays as it is.
UpsertEvent(s, key, instrument) ==
    IF Find(s, "events", key) # {} THEN s
    ELSE Add(s, "events", {[key |-> key, instrument |-> instrument]})

\* record_quality_event for NO_PUBLIC_PRICE: once per instrument and date.
RecordAbsence(s, instrument, date) ==
    IF Find(s, "absences", <<instrument, date>>) # {} THEN s
    ELSE Flush(Add(s, "absences", {[key |-> <<instrument, date>>]}))

(*************************** Runs and artifacts ****************************)

\* start_ingestion_run.
StartRun(s, number, loader, date, full) ==
    Flush(Add(s, "runs", {[key |-> <<number>>, loader |-> loader, date |-> date,
                           full |-> full, status |-> "STARTED"]}))

\* finish_ingestion_run(run, status=SUCCEEDED) and the flush after it.
FinishRun(s, number) ==
    LET run == CHOOSE r \in s.flushed["runs"] : r.key = <<number>>
    IN  Flush(Replace(s, "runs", {run}, [run EXCEPT !.status = "SUCCEEDED"]))

\* store_raw_artifact, of a run and a kind of file.
StoreArtifact(s, number, kind, sha) ==
    Flush(Add(s, "artifacts", {[key |-> <<number, kind, sha>>]}))
===============================================================================
