------------------------------ MODULE DailyIngest ------------------------------
(***************************************************************************)
(* The daily ingest commands as a whole: B3Day and SideLoads under the     *)
(* commands of LoadSession, and what their users rely on. What a file says *)
(* is defined here by quantifiers over its rows, apart from the parsers of *)
(* SourceFiles that read them one by one.                                  *)
(***************************************************************************)
EXTENDS B3Day, SideLoads

VARIABLE told \* what the last committed file said of each revised quote

allVars == <<vars, told>>

(************************** What a file says *******************************)

FileOf(sha) == CHOOSE f \in FeedFiles : f.sha = sha

ArtifactsOf(tables, number) == {a \in tables["artifacts"] : a.key[1] = number}

SameRow(r, s) == TickerDate(r) = TickerDate(s)

\* Places of the rows that count, one for each ticker and date.
LastPlaces(rows, Counts(_)) ==
    {i \in DOMAIN rows : Counts(rows[i]) /\
        \A j \in DOMAIN rows : j > i => ~(Counts(rows[j]) /\ SameRow(rows[i], rows[j]))}

\* An EXTRAGRUPO trade if there is one, of those the first.
TradePlaces(rows) ==
    {i \in DOMAIN rows : UsableTrade(rows[i]) /\
        \A j \in DOMAIN rows \ {i} :
            UsableTrade(rows[j]) /\ SameRow(rows[i], rows[j]) =>
                \/ rows[i].class = "EXTRAGRUPO" /\ rows[j].class # "EXTRAGRUPO"
                \/ (rows[i].class = "EXTRAGRUPO" <=> rows[j].class = "EXTRAGRUPO") /\ i < j}

Said(instrument, r, kind) == [identity |-> <<instrument, r.date, kind>>, value |-> r.value]

SettlementsSaid(f) ==
    LET rows == Rows(f)
    IN  {Said(B3(rows[i].ticker), rows[i], "OFFICIAL_SETTLEMENT") :
            i \in LastPlaces(rows, LAMBDA r : HasPrice(r) /\ r.ticker \in Futures)}

TradesSaid(f) ==
    {Said(B3(Rows(f)[i].ticker), Rows(f)[i], "LAST") : i \in TradePlaces(Rows(f))}

\* Quotes of the files whose newest bytes win.
RevisedBy(loader, kind, f) ==
    CASE kind = "187" -> SettlementsSaid(f)
      [] kind = "trades" /\ f.parse = "ok" -> TradesSaid(f)
      [] loader = "fred" -> {Said(FredInstrument(r.ticker), r, "REFERENCE") : r \in Range(Rows(f))}
      [] loader = "yahoo" -> {Said(Instrument("yahoo", r.ticker), r, r.kind) : r \in Range(Rows(f))}
      [] loader \in {"bcb", "ibge"} ->
           {Said(Instrument(loader, r.ticker), r, "VALUE") : r \in Range(Rows(f))}
      [] OTHER -> {}

\* Identities of the files that only add.
AddedBy(loader, kind, f, full) ==
    CASE kind = "186" -> {<<B3(r.ticker), r.date, "LAST">> :
                             r \in {x \in Range(Rows(f)) : HasPrice(x) /\ PersistLast(x.ticker, full)}}
      [] loader = "tesouro" -> {<<Instrument("tesouro", r.ticker), r.date, r.kind>> : r \in Range(Rows(f))}
      [] loader = "cvm" /\ kind # "registry" /\ f.parse = "ok" ->
           {<<Instrument("cvm", r.ticker \o ":" \o r.sub), r.date, "FUND_NAV">> :
               r \in {x \in Range(Rows(f)) : x.value # 0 /\ x.kept}}
      [] OTHER -> {}

\* Unique keys of the snapshots and events a file holds.
SnapshotsIn(loader, kind, f, date) ==
    CASE loader = "b3-lending" ->
           {<<"lending", r.ticker, IF r.date = 0 THEN date ELSE r.date, kind>> :
               r \in {x \in Range(Rows(f)) : x.ticker \in Allow}}
      [] loader = "cftc" -> {<<loader, r.ticker, r.date>> : r \in Range(Rows(f))}
      [] loader = "13f" -> {<<loader, r.filer, r.date, r.ticker>> : r \in Range(Rows(f))}
      [] OTHER -> {}

EventsIn(loader, f) ==
    IF loader = "cvm-events" THEN {<<"cvm", r.id>> : r \in Range(Rows(f))} ELSE {}

\* A cadastro leaves every bond with an instrument and, on a weekday whose
\* trades file has rows, with a price or its absence.
CadastroKept(run, f) ==
    LET bonds  == {r \in Range(Rows(f)) : IsCredit(r) /\ r.ticker # ""}
        trades == {FileOf(a.key[3]) : a \in {x \in ArtifactsOf(db, run.key[1]) : x.key[2] = "trades"}}
        day(t) == OtcReportDate(t, run.date)
    IN  \A r \in bonds :
           /\ OwnersOf(Begin(db), "SOURCE_ID", r.ticker, "b3") # {}
           /\ \A t \in trades : OtcHasRows(t) /\ run.date \notin Weekend =>
                \/ Revisions(db["quotes"], <<B3(r.ticker), day(t), "LAST">>) # {}
                \/ <<B3(r.ticker), day(t)>> \in Keys(db["absences"])

(*************************** Parsers and meaning ***************************)

IsSequence(s) == s \in Seq(Range(s))

\* What the loops over rows make of a file is what the file says.
PricesAgree(f) ==
    /\ IsSequence(PriceReport(f))
    /\ Range(PriceReport(f)) = {r \in Range(Rows(f)) : HasPrice(r)}

SettlementsAgree(f) ==
    LET parsed == SettlementReport(f)
    IN  /\ IsSequence(parsed) /\ Range(parsed) \subseteq Range(Rows(f))
        /\ {Said(B3(r.ticker), r, "OFFICIAL_SETTLEMENT") : r \in Range(parsed)} = SettlementsSaid(f)

TradesAgree(f) ==
    LET parsed == OtcTrades(f)
    IN  /\ IsSequence(parsed) /\ Range(parsed) \subseteq Range(Rows(f))
        /\ {Said(B3(r.ticker), r, "LAST") : r \in Range(parsed)} = TradesSaid(f)

BondsAgree(f) ==
    LET parsed == OtcInstruments(f)
    IN  /\ IsSequence(parsed) /\ Range(parsed) \subseteq Range(Rows(f))
        /\ {r.ticker : r \in Range(parsed)} =
              {r.ticker : r \in {x \in Range(Rows(f)) : IsCredit(x) /\ x.ticker # ""}}

LoansAgree(f, date) ==
    LET parsed == LendingTable(f, date)
    IN  /\ IsSequence(parsed)
        /\ {TickerDate(r) : r \in Range(parsed)} =
              {<<r.ticker, IF r.date = 0 THEN date ELSE r.date>> :
                  r \in {x \in Range(Rows(f)) : x.ticker \in Allow}}

ASSUME ParsersAssumption ==
    \A k \in DOMAIN Feed : \A f \in Feed[k] : f.parse = "ok" =>
        /\ k[1] = "186" => PricesAgree(f)
        /\ k[1] = "187" => SettlementsAgree(f)
        /\ k[1] = "trades" => TradesAgree(f)
        /\ k[1] = "cadastro" => BondsAgree(f)
        /\ k[1] \in {"registered", "open"} => LoansAgree(f, k[2])
        /\ IsSequence(Rows(f))

\* The name lending gives an instrument is no ticker of a file.
ASSUME LendingKeysAssumption ==
    /\ \A t, u \in Allow : LendingKey(t) = LendingKey(u) => t = u
    /\ \A f \in FeedFiles : \A r \in Range(Rows(f)) : \A t \in Allow : r.ticker # LendingKey(t)

\* The configuration names a series or symbol once, and codes tell series apart; the
\* rows of its file carry its name (parse_fred_observations, parse_yahoo_history);
\* file 186 is an archive of XML documents, the trades file a CSV.
ASSUME SourcesAssumption ==
    /\ \A i, j \in DOMAIN FredSeries : FredCode(FredSeries[i]) = FredCode(FredSeries[j]) => i = j
    /\ \A i, j \in DOMAIN Symbols : Symbols[i] = Symbols[j] => i = j
    /\ \A k \in DOMAIN Feed : \A f \in Feed[k] :
          k[1] \in Range(FredSeries) \cup Range(Symbols) => \A r \in Range(Rows(f)) : r.ticker = k[1]
    /\ \A k, l \in DOMAIN Feed : k[1] = "186" /\ l[1] = "trades" => Feed[k] \cap Feed[l] = {}

\* A file of these sources has one value of an identity. The services answer with
\* one observation a date; the loaders do not check it.
OneValueADate ==
    \A l \in {"fred", "yahoo", "bcb", "ibge"} : \A k \in DOMAIN Feed :
        k[1] \in Range(Files(l)) =>
            \A f \in Feed[k] : \A p, q \in RevisedBy(l, k[1], f) :
                p.identity = q.identity => p.value = q.value

(******************************* Specification *****************************)

Override(old, new) ==
    {o \in old : \A n \in new : n.identity # o.identity} \cup new

CommitAndTell ==
    /\ CommitJob
    /\ told' = Override(told, UNION {RevisedBy(job.loader, a.key[2], FileOf(a.key[3])) :
                                        a \in ArtifactsOf(session.flushed, job.run)})

DailyInit == Init /\ told = {}

DailyNext ==
    \/ CommitAndTell
    \/ /\ \/ BeginCommand \/ BeginJob \/ EndCommand \/ Abort \/ Kill
          \/ SkipFile \/ FlushBatch \/ B3Next \/ SideNext
       /\ UNCHANGED told

Spec == DailyInit /\ [][DailyNext]_allVars

(******************************** Properties *******************************)

\* Types of the variables, the unique constraints among them; revisions count
\* from one.
TypeOK ==
    /\ exit \in {"none", "running", "0", "1", "killed"}
    /\ failed \subseteq Loaders /\ Range(queue) \subseteq Loaders
    /\ job.loader \in Loaders \cup {"none"} /\ job.run \in Nat
    /\ session.clash \in BOOLEAN
    /\ \A t \in Names : \A r1, r2 \in db[t] : r1.key = r2.key => r1 = r2
    /\ \A q \in db["quotes"] : Revision(q) \in Nat \ {0}
    /\ \A r \in db["runs"] : r.status \in {"STARTED", "SUCCEEDED"}

\* A committed run row that says SUCCEEDED stands for all its files: every
\* quote, snapshot, event and bond the program keeps of them is stored, though
\* loaders skip files, records and stored identities on many paths
\* (_ingest_b3_day and the side loaders).
SucceededMeansStored ==
    \A run \in {r \in db["runs"] : r.status = "SUCCEEDED"} :
        \A a \in ArtifactsOf(db, run.key[1]) :
            LET kind == a.key[2]
                f    == FileOf(a.key[3])
            IN  /\ {q.identity : q \in RevisedBy(run.loader, kind, f)} \cup
                   AddedBy(run.loader, kind, f, run.full) \subseteq {Identity(q) : q \in db["quotes"]}
                /\ SnapshotsIn(run.loader, kind, f, run.date) \subseteq Keys(db["snapshots"])
                /\ EventsIn(run.loader, f) \subseteq Keys(db["events"])
                /\ kind = "cadastro" /\ f.parse = "ok" => CadastroKept(run, f)

\* Of settlements, OTC trades, series, FRED and Yahoo quotes the highest
\* revision, the one the API shows, has the value of the file committed last,
\* also when a source goes back to bytes it served before (upsert_quote).
NewestFileShown ==
    \A t \in told :
        LET stored == Revisions(db["quotes"], t.identity)
        IN  stored # {} /\ LatestOf(stored).value = t.value

\* NO_PUBLIC_PRICE is recorded only where the same commit leaves no last price
\* and the day's trades file has rows, none of them a usable trade of the bond
\* on that date (the cadastro loop of _ingest_b3_day).
AbsenceHonest ==
    [][\A a \in db'["absences"] \ db["absences"] :
          /\ Revisions(db'["quotes"], <<a.key[1], a.key[2], "LAST">>) = {}
          /\ \E t \in ArtifactsOf(db', job.run) :
               /\ t.key[2] = "trades" /\ Rows(FileOf(t.key[3])) # <<>>
               /\ \A said \in TradesSaid(FileOf(t.key[3])) :
                    said.identity # <<a.key[1], a.key[2], "LAST">>]_allVars

\* A ticker has a lending instrument beside its price instrument only if lending
\* saw it first, which then keeps the TICKER identifier; every lending snapshot hangs
\* on an instrument with its ticker, or its digits, as identifier (_lending_instrument_id).
TickerSplitOnlyByEarlyLending ==
    LET owner(type, value) == OwnersOf(Begin(db), type, value, "b3")
    IN  /\ \A t \in Allow :
             owner("SOURCE_ID", t) # {} /\ owner("SOURCE_ID", LendingKey(t)) # {} =>
                 owner("TICKER", t) = {LendingInstrument(t)}
        /\ \A r \in db["snapshots"] : r.key[1] = "lending" =>
             r.instrument \in Resolve(Begin(db), r.key[2])

\* autoflush is off, so rows a loader added are not seen by the SELECTs that should
\* keep it from adding them twice. The loaders of quotes and series whose files have
\* one value of an identity never break on the unique keys of their own rows. (B3
\* does, where two tickers share an ISIN, lending where a new ticker has two dates,
\* 13F where a security comes twice; their load then fails as a whole.)
OwnRowsDoNotClash ==
    job.loader \in {"fred", "yahoo", "bcb", "ibge", "tesouro", "cvm", "cftc"} => ~session.clash

\* Exit code 0 of a command, `ingest all` above all, means that every loader
\* whose provider is on has committed a SUCCEEDED run of that date in this very
\* command, whatever failed or was rolled back before it (_run_jobs).
ExitZeroMeansLoaded ==
    exit = "0" =>
        \A l \in Range(Enabled(command)) :
            \E r \in db["runs"] : /\ r.loader = l /\ r.date = command.date
                                  /\ r.status = "SUCCEEDED"
                                  /\ r.key[1] > job.run - Len(Enabled(command))
===============================================================================
