# Open Market Data: formal models

TLA+ models of the parts of this repository where a step in the wrong order, a kill
at the wrong moment or two actors side by side can make the data wrong without any
exception: range backfills and their checkpoints, the daily ingests record by
record, revisioned quote storage, dataset publication, coverage reports, and
paginated history in the Explorer. TLC checks small instances of all of them; TLAPS
proves the safety of range backfills, of `backfill all`, of the daily ingests, of
quote storage, of publication, of the history view and of coverage reports for every
value of their constants.

Paths below are relative to `src/` of the repository checkout.

## 1. The system

| Component | State it keeps | Operations | Interacts through |
|---|---|---|---|
| Backfills (`ingestion/{b3,tesouro,bcb,cvm,yahoo}.py`, `cli/main.py`) | PostgreSQL rows, `state/backfill/<provider>.json`, the uploaded copy of that file | resume, ingest a chunk, commit, save, fail | the database, the object store, GitHub workflows |
| Daily ingests (`ingestion/*`, `ingest all`) | the same tables; within one job the SQLAlchemy session and the loader's local sets | begin a run, fetch or skip a file, persist a record, flush a batch, commit, roll back | the database, the artifacts of `object_store.py`, one another's instruments and identifiers; kept in sequence by the `neon-writes` group |
| Artifact and quote storage (`storage/object_store.py`, `s3_store.py`, `repositories.py`) | raw objects, `raw_artifacts`, `instrument_quotes` with revisions | store, insert, revise, commit, roll back | called by every loader |
| Dataset publication (`datasets/*`) | parquet objects, dated manifests, one latest manifest per dataset | extract, put, verify, put manifests | object store; read by `/v1/datasets` |
| Coverage (`coverage/*`, `api/routes/coverage.py`, `api/span.py`) | none of its own | eight SELECTs for a report, three or four for a span | reads what the loaders commit |
| API history pages (`api/query.py`, routes) | none | one page per request, cursor = a date | reads the same tables; called by the Explorer |
| Explorer (`apps/explorer`, Next.js) | React state, requests in flight | move, load more, retry, search | HTTP |
| Scheduling (`ingestion/schedule.py`, `.github/workflows`) | artifacts of earlier jobs | start, stop at six hours, upload | starts everything above |
| Providers and parsers, schema, domain types | none at run time | download, parse | called by the loaders |

What is hard about it: loaders commit in pieces and record progress in a file that
is not in the database; jobs are killed at a time limit and resumed on another
machine; the daily ingest writes the table a backfill takes its progress from; a
loader that fails shares its session with the next one; sessions do not flush before
they ask (`autoflush=False`), so a SELECT misses what the same loader has just
added; a run counts as succeeded although files were missing or unusable and records
were filtered, repeated or stored before; bytes and rows live in two stores;
publication is several puts; reports read with several statements in READ COMMITTED;
the browser's answers arrive in any order. `PROJECT.json` lists each of these at its
line under `hazards`.

## 2. Modules

Every variable has a comment in its module saying what it stands for. One action is
one handler, commit, put, statement or callback of the code; what another actor can
observe in between is a state of its own.

| Module | Code | Variables ↔ code | Composition |
|---|---|---|---|
| `Checkpoint` | `ingestion/checkpoint.py` | operators only: `ShouldResume`, `EffectiveLastCompleted` | used by both backfill modules |
| `ResumableLoad` | none: the abstract promise | `finished` units, `lost` ones (a COMMIT raised on them), `reported` ranges | implemented by `BackfillB3` and by `BackfillAll` |
| `BackfillB3` | `backfill_b3`, workflow `backfill.yml`, `ingest_b3` of one date | `quotes`, `finished` = database; `file`, `archive` = checkpoint; `day`, `last`, `year` = locals; `lost`, a history variable: days a COMMIT raised on and none has covered since | refines `ResumableLoad` |
| `BackfillAll` | `_run_jobs`, `backfill_tesouro/_bcb/_cvm/_yahoo` | `stored`, `dropped`, `succeeded` = rows and run rows; `pending` = the session; `failed` = labels reported; `lost`, a history variable: rows a chunk's COMMIT raised on | extends `Checkpoint`, refines `ResumableLoad` |
| `QuoteStore` | `object_store.py`, `repositories.py` | `objects`, `artifacts`, `quotes`; per session `known`, `todo`, `pending` | the write path under every loader |
| `DatasetPublish` | `publish_datasets`, `_publish_one`, `_load_latest` | `object`, `versioned`, `latest` = the object store; `queue`, `frame`, `aborted`, `outcome` = a command | publishers, ingestion and readers |
| `Tables` | `storage/repositories.py`, `models.py`, `database.py` | operators over a session `[flushed, added, clash]`: what its SELECTs see, what was added since, and whether two added rows share a unique key | used by the four modules below |
| `SourceFiles` | `providers/b3.py`, `b3_lending.py`, `ingestion/universe.py` | operators: the rows of a file a parser keeps, in its order | used by the four modules below |
| `LoadSession` | commands of `cli/main.py`, the frame of every loader | `plan`, `command`, `queue`, `exit`, `failed` = the CLI; `db` = committed tables; `session`, `job` = the transaction and its run; `items`, `todo`, `file`, `memo` = what the loader has still to fetch and persist, and its locals | extends `Tables` and `SourceFiles` |
| `B3Day` | `_ingest_b3_day` | those of `LoadSession` | extends `LoadSession`; the inside of `IngestDay` of `BackfillB3` and of `CommitB3Day` of `Coverage` |
| `SideLoads` | the ten other loaders | those of `LoadSession` | extends `LoadSession` |
| `DailyIngest` | `ingest <loader>`, `ingest all` | and `told`, a history variable: what the last committed file said of each revised quote | composes `B3Day` and `SideLoads` |
| `Coverage` | `evaluate_coverage`, `SessionCoverageStore`, `coverage_span` | `sources`, `hits`, `quotes`, `runs`, `absent` = tables; `view` = the caches; `report`, `span` = answers | readers against loaders |
| `HistoryPages` | `useHistoryPages`, `paginate_by_date` | `tick` = React state, `seen` = what the last render closed over, `due` = effect pending, `cleanup` = the last effect left one, `first`, `more` = requests | browser against API against ingestion |

`MC...` modules give constants their finite values, `...Proofs` modules hold the
theorems, `NaturalSets` two lemmas they share. Operators marked "Mutant" in a module
are wrong versions of the definition that follows them: each property has one that
breaks it.

Data is abstracted to what the properties tell apart. A token (ISO date or month) is
a number, since ISO strings of one kind sort as dates. A payload is its own digest.
A frame is an opaque value, some of which hold a row the publication rules refuse. A
price is positive or not.

In the daily modules a file is a record of its digest, what its parser does with it,
and its rows; a row has the fields its parser reads. An instrument is the source and
key it was created with. Names, currencies, maturities and counters of records are
left out. The JSON list a BCB or IBGE run stores for all its series is one file. The
CVM class of a fund, which the code joins from the registry file, is the field
`kept` of a monthly row. The two OTC tables, and the two lending tables, are
downloaded together before either is persisted; the model fetches one after the
other, which differs in nothing that is stored. FRED without its API key is FRED
switched off. FRED names the instrument of a series once, before its rows; the model
does it at the first of them, since a series without rows is skipped. `Digits` gives
the digits of the texts that hold any (`resolve_instrument_id` looks for a text and
for its digits). One session is open at a time, as the `neon-writes` group has it;
what two sessions do to each other is the subject of `QuoteStore`.

## 3. What is checked

| Run | Question | Bounds |
|---|---|---|
| `B3Resume` | when a B3 backfill is killed, timed out or raises, also in its COMMIT, does a resume skip only covered days and the day whose COMMIT raised, and download no stored day again? Does it implement `ResumableLoad`? Is every other day covered in the end, under repeated six-hour stops with lost files? Does a `--no-resume` success cover the lost days too? | two slices with one start, three days with a Saturday and a turn of the year, one fault, any number of jobs, fairness of section 4 |
| `B3CommitRaises` (violated) | does a failed checkpoint never claim the day that failed, as the test of that name says? | as `B3Resume`, without fairness |
| `B3DbMaxGap` (violated) | is the newest quote date the last finished day, as the code's comment says? | one slice, daily ingest |
| `DailyIngest` | does a SUCCEEDED run stand for all of its files, a newest revision for the newest file, an absence for a day without a trade, exit code 0 for every enabled loader? Does a ticker get a second instrument only when lending came first? Which loaders can never violate a unique key with rows of their own? | eleven sequences of one to four commands (`Plans`) over all eleven loaders; one to three versions of each file (`Feed`), a Friday and a Saturday, batches of one row |
| `AllJobs` | do tokens, run rows, checkpoints and exit code of `backfill all` claim only committed rows, and those of a BCB window whose COMMIT raised? Do its loaders implement `ResumableLoad`? | four loaders, two BCB windows and CVM months, two parts a chunk, one fault |
| `QuoteSessions` | are revision histories gapless and artifacts backed, under two sessions? | two sessions, three ingestions, two keys, three payloads, two identities |
| `Publish` | does latest always name a complete version, and a listing stay downloadable? | two publishers, two datasets, two dates, one reader, one fault, one ingestion |
| `PublishSameDate` (violated) | the same when a date is published again | one publisher |
| `PublishBestEffort` (violated) | does a dataset fail only for an error of its own? | one publisher |
| `Coverage` | is a prefetched report what per-row queries would say, is no price lost while loads commit, does the span agree with the report? | five universe rows, four instruments, two dates, two commits, one report and one span |
| `CoverageTorn` (violated) | is NO_TRADE said only where no price is stored? | as `Coverage` |
| `HistoryPages` | is a history list ordered, complete and of the right asset, and no spinner orphaned? | two assets, six rows of three dates, page size two, two moves |

Why the bounds are enough: two slices give overlap, prefix and extension of a
checkpoint; a Saturday and a year border give each branch of the B3 loop; two
sessions are what a race needs, three ingestions give revision three and the revisit
of an old payload; one fault at every point is followed by recovery without one,
which is where claims are used; a torn report needs one commit to set the tables up
and one between two SELECTs; in `DailyIngest` two commands of a loader give the
repeated, the corrected and the reverted file (three for the return to older bytes),
its files hold each case a parser decides on (a row twice in a document and across
documents, a row without a price, trades inside and outside the group in either
order, two tickers with one ISIN, an unusable archive, none at all), and a batch of
one row puts a flush, or a commit of the CVM loader, after every record instead of
after 500 or 1000; three dates with two price types give a page that ends inside a
date, before it and after it.

Modelled rather than assumed away: `BackfillB3.Dispatch` picks any copy of the
checkpoint, `Crash` is enabled everywhere, `DatasetPublish` has puts that raise,
puts that store other bytes, and statements that abort the transaction,
`LoadSession` lets any loader raise at any point (`Abort`), any skippable download
fail and the runner stop it between any two records, `HistoryPages` answers requests
late and after the user has moved.

Bounds in guards: `MaxFaults`, `MaxRuns`, `MaxIngests`, `MaxMoves`, `MaxCommits`,
`MaxRevision`; bounds in sets of inputs: `Plans` and `Feed` of the daily modules,
`Batches` and `FileSets` of `Coverage` (which of the files 187, 028, trades and
cadastro a day had); in `Coverage` also one report and one span in a behaviour
(`BeginReport`, `BeginSpan`), since a report keeps nothing. Deadlock is checked in
the backfill and publication runs. It is not in `HistoryPages` (a disabled view with
every row inserted and no move left waits for the user), `QuoteSessions` (all
ingestions done), `DailyIngest` (the plan is used up) and `Coverage` (commits and
questions used up): there the system is at rest.

`NothingSkipped` of `HistoryPages` is about rows stored when the view asked for each
page of its list, not only for the first. A render that turns `enabled` on after an
effect that found it off leaves the callback of the button live until its own effect
runs; that effect does not abort what is in flight (`cleanup`). A click in between
can ask for the second page before the new first page is asked for, and a row
inserted between the two is on neither.

`HistoryPages` needs a page size of at least the number of rows of one date.
`BackfillB3` leaves out the `force` argument of `should_resume`: no caller passes
it.

### Where code and documentation disagree

- `B3DbMaxGap`: a daily ingest inside a slice moves the newest quote date past days
  nobody loaded, and a resumed backfill skips them. The comment at
  `src/marketdata/ingestion/b3.py:918` says the opposite. `bcb.py` warns of exactly
  this and does not ask the database.
- `PublishSameDate`: publishing a date again overwrites the object `latest` names
  before any manifest moves.
- `PublishBestEffort`: after a failed SELECT the shared session is in an aborted
  transaction, so the datasets after it fail too.
- `CoverageTorn`: a day that commits between the quotes SELECT and the run-row
  SELECT is reported NO_TRADE though its price is stored.
- `B3CommitRaises`: `last_completed` is assigned before `session.commit()`
  (`b3.py:961-962`, for weekends `939-940`). When the COMMIT raises, the handler
  saves a failed checkpoint that claims the day it rolled back; a resume skips that
  day and later reports the slice as succeeded. `bcb.py:345-346` has the same order,
  so a window of BCB is lost in the same way. `CommitError` of both modules is part
  of their `Next`, and the properties about resumes (`ResumeSkipsOnlyFinished`,
  `ImplementsResumableLoad`, `DbMaxIsLastFinishedDay`, `EveryRangeFinished`;
  `ResumeSkipsOnlySettled`, `LoadersImplementLoad`) name these days and rows
  (`lost`, `RowsLost`) as what a resume may skip. None of them holds without that
  exception; with it they say that nothing else is skipped. The other loaders lose
  nothing by a COMMIT that raises: CVM has committed its batches before that of the
  month, Tesouro saves no such checkpoint, and Yahoo never resumes from one.

What `DailyIngest` shows about the documents without a run of its own:

- "Stable identity is a project invariant" (`docs/DATA_MODEL.md`): a ticker the
  lending file names before the price file does gets an instrument
  `b3-lending:<ticker>`, and the price file later a second one.
  `TickerSplitOnlyByEarlyLending` states the part that holds.
- `docs/DATA_MODEL.md:117` has a corrected payload become a new revision. File 186,
  Tesouro and CVM quotas go by the bulk path, which skips an identity that is
  stored: their corrections are lost. `NewestFileShown` is therefore stated for the
  other files. For the same reason a ticker that is twice in file 186 keeps its
  first price, in file 187 its last.
- A SELECT of the session misses the rows it has not flushed (`autoflush=False`). B3
  can add the ISIN of two tickers twice, lending the TICKER of a new ticker that has
  two dates, 13F a security that comes twice; the unique key then fails the whole
  load. `OwnRowsDoNotClash` says that the loaders of quotes and series, and CFTC,
  never do this with files of one value per identity.
- "One row per CLI/workflow execution" (`docs/DATA_MODEL.md:191`): `_with_session`
  and `_run_jobs` roll back what a failed loader did, its run row included. Only
  succeeded runs are on record (`CommitJob`, `Abort`).

## 4. Fairness

Only `B3Resume` uses fairness (`LiveSpec`), for its two liveness properties;
`LiveSpec` is `Spec` and fairness, so its safety properties are those of `Spec`, for
which they are also proved.

- `WF_vars(JobStep)`: a running job is a sequential program on a live machine; it
  takes its next step unless it is stopped. What stops it (`HardError`,
  `CommitError`, `Crash`) is bounded by `MaxFaults`, `Timeout` is not.
  `EveryRangeFinished` is up to the days a COMMIT raised on, which no resume loads
  again.
- `SF_vars(Dispatch(r, TRUE, FALSE))`: the operator dispatches an unfinished slice
  again after each stop, as `docs/DEPLOYMENT.md` prescribes. Strong, because
  dispatching is disabled while a job runs.
- `Timeout` is enabled only once the job has committed a day with quotes: six hours
  are enough for one. Without that no resumption could ever progress.

## 5. What is proved

By TLAPS, for every value of the constants that satisfies the ASSUMEs of the
modules; nothing is assumed beyond them and the hypotheses named here.

**`BackfillB3Proofs`**, assuming `AlignedRanges` (slices that overlap start on the
same day). `TypeCorrect`, `ResumeSafe`, `DbMaxSafe` and `B3ImplementsLoad`: `Spec =>
ResumableLoad!Spec`, with COMMITs that raise. What a resume skips depends on file,
upload and database together, so no single property is inductive. The invariant
`IInv` speaks of `Committed` days: those a COMMIT covered or raised on (`lost`). It
adds `QuotesClosed` (below a stored quote of a slice every day is committed),
`StoredOK` (every stored checkpoint claims only committed days) and `JobOK` (a job
at `day` has committed everything before it). A resume's token is a maximum of two
such claims, so it is one as well (`TokenSafe`). `AlignedRanges` is needed: with a
slice that starts inside another, the newest date of one says nothing about the
other, the gap of `B3DbMaxGap`. `NothingRefetched` adds `Behind` (a resumed job is
past every stored quote of its slice): the token is at least the newest quote date,
and a finite set of days has a newest one. `NoResumeComplete` holds of `FullSpec`,
with daily ingests, needs no alignment and makes no exception for lost days:
`FreshJobOK` says what a job knows that trusted neither file nor database. The
refinement maps a COMMIT that raises to `Lose`; a commit of the day later takes it
out of `lost` again.

**`BackfillAllProofs`**: `TypeCorrect`, `ResumeSafe`, `SessionSafe`, `ExitSafe`,
`ChunksAtomic` and `AllImplementLoad` (`Spec => ResumableLoad!Spec`, whose units are
the rows and whose ranges are the pairs of a loader and a range), for any ranges,
chunks, parts, rows without a value, and faults, COMMITs that raise among them. A
token, a run row and a checkpoint each lag behind the commits, each by another
distance. `IInv` says so in three parts: `StoresOK` (what a checkpoint or run row
claims is `Accounted`: settled, or of `RowsLost`), `SessionOK` (whose rows the
session holds at each point, and that it is empty between chunks) and `LoaderOK`
(what the current loader has behind it). That `RowsLost` may be BCB's alone is part
of it: a CVM chunk has nothing pending at its COMMIT, and no token of Yahoo is ever
used. `ExitSafe` adds `QueueOK`: while nothing failed and no cap is set, a loader of
the command has its run row or waits in the queue.

**`QuoteStoreProofs`**: `TypeCorrect`, `NoRevisionHole`,
`EveryRevisionChangesBytes`, `NoDanglingArtifact`, for any number of sessions.
`IInv` adds `PendingOK` (an uncommitted row continues a history that was committed
when it was read, and differs from its predecessor) and `ObjectsOK` (a session past
its put has its object). The unique constraint, in the guard of `Commit`, turns what
was true when a row was read into what is true when it commits. `RevisionsRecorded`
and `FileComplete` say what a commit leaves in the table. They rest on `FileOK`:
each identity of a session's file is still to do, in the session, or in the table.

**`DatasetPublishProofs`**: `TypeCorrect`; assuming `FreshDates` (no date is
published twice) `LatestComplete` and `ListingsDownloadable`, for any number of
publishers, datasets, readers, faults and crashes. `SafeInv` adds `DatesApart` (two
running commands have different dates), `Progress` (what a command has put by the
step it is at), `LatestSettled` and `ListingsSettled` (a manifest that latest names,
or a reader holds, is of a dataset and date no command will put again).
`PublishSameDate` shows that the hypothesis cannot be dropped. `PublishedComplete`,
under the same hypothesis, adds `ReportedSettled`: what a command reports as
published has a settled dated manifest.

**`HistoryPagesProofs`**: `TypeCorrect`, `ShownSafe`, `OrderSafe`, `SpinnerSafe`,
for any assets, rows, page size and number of moves. `IInv` adds `ListOK` (the list
and its cursor belong to one key, and the cursor is below all of the list) and
`RequestsOK` (a reply is of the key of its request, at or below the cursor it was
asked with, above the one it returns); `WaitOK` says who waits for which request.
`CompleteSafe` proves `NothingSkipped` under `RoomForOneDate` (`Rows` is finite and
no date has more rows than a page): `BasesOK` says that the rows that were stored
when a list or request was asked for still are, `ReplyComplete` that an answer shows
each of them or leaves it below its cursor. The hypothesis is the hazard of
`api/query.py:67`: a page smaller than one date cuts it.

**`CoverageProofs`**: `TypeCorrect`, `QuietExact`, `SpanSafe` and `PriceSafe`, for
any universe, instruments, identifiers, files and number of commits. `IInv` says of
the tables that an identifier is one its loader attaches (`HitsOK`) and a revision
of a price is unique (`OneRevision`), and of a reader that its caches hold what its
question allows (`ViewOK`). `LoadStep` is what the readers need of the loaders:
prices and identifiers are only added (`Grows`). Over that, `QuietInv` holds
`Fresh`: while nothing was committed since the report began, the caches of the
SELECTs done so far answer each row's questions as the tables do. `SpanInv` says the
same of the ids of a span summary, and that a summary as new as the tables contains
every public day. `CaughtInv` is about commits in between: `Held` follows a price
that could be had at the beginning through the SELECTs; its row resolves to its
instrument, and the cache has this revision or a later one. `PriceSafe` assumes
`OneInstrumentPerRow`: the ISIN and the ticker of a row never fit two instruments of
its source. Without it the ISIN of the other instrument, committed between the
beginning and the identifiers SELECT, takes the row to that instrument, because
`resolve_row` asks for the ISIN first. `MCCoverage` satisfies it.

**`DailyIngestProofs`**: `TypesCorrect`, `ExitZeroCorrect`, `SplitCorrect`,
`KeptCorrect`, `AbsenceCorrect` and `NewestCorrect`, for any plans, universe, feed
and batch size: the properties of `DailyIngest` but for `OwnRowsDoNotClash`. A
loader has some fifteen ways to write a record, so the argument is split: `...Keeps`
and `...Writes` say of each operation of `Tables` and of each record action which
rows it may add (`Grows`) and that a sound session stays sound (`Sound`: no key
twice unless `clash` says so, and quotes that have a newest revision). The
invariants rest on these and not on the actions.

- `TypeInv`: what an idle process holds, the unique keys of the committed tables,
  and that the session has the committed rows, its own run and artifacts of its own
  run.
- `ExitInv`: while nothing failed, the loaders that have left the queue have their
  SUCCEEDED runs, numbered in their order.
- `JobInv`: the files still to fetch are the end of the loader's list, and the
  records still to persist are rows of a file of the feed.
- `SplitInv`: an instrument of lending's own has the ticker's identifier, in the
  database and in the session, since one that was added later is never attached.
- `KeptInv`: what a file owes (`Owed`) is in the session, waits for its batch, or is
  still among the records to persist (`JobKept`), where `MemoInv` says that the
  loader's local sets (`stored`, `priced`) name only what the session has. A commit
  turns the first case into a stored row; `Extends` keeps it for good.
- `AbsenceInv`: before the cadastro every quote is flushed, so that its SELECT
  misses none; an absence not yet committed has no last price beside it.
- `FreshInv`: what a file of the running job says of a revised quote is shown by the
  highest revision in the session or is among the records to persist (`ShownInv`);
  what was told before is still shown unless a file of this job says otherwise
  (`SessionTold`), so a commit turns both into what `told` has. Three facts carry
  it. `OriginInv`: a quote that some file revises has its value from the file its
  digest names, which is why `upsert_quote` may skip a quote whose digest it has
  just read. `Fresh`: a quote not yet flushed is one revision above the flushed
  ones, so that a second row of that identity needs a flush or violates the unique
  key. `ArtifactInv`: a job has one file of each kind. And two kinds or loaders
  never speak of the same identity (`KindsApart`): a later file cannot hide an
  earlier one.

`NewestCorrect` assumes `OneValueADate`: a file of FRED, Yahoo, BCB or IBGE has one
value of an identity. The loaders do not check that; with two values the property
asks for both and nothing can show them. Files 187 and the OTC trades may repeat a
row, and there the parsers decide (`SettlementsAgree`, `TradesAgree`).
`MCDailyIngest` has TLC evaluate `OneValueADate` for its feed.

The assumptions are `PlansAssumption` and `FilesAssumption` of `LoadSession`
(commands name known loaders, series, symbols and months are not named like a file
of B3, a digest names one file) and three of `DailyIngest`, besides
`AllowAssumption` of `SourceFiles` (no listed ticker is empty). `ParsersAssumption`:
for each file of the feed the parser, which goes through the rows with `SelectSeq`
and a fold, returns what `DailyIngest` says of the file with quantifiers. What a
fold computes is an induction over data and beyond the provers; TLC evaluates the
assumption for the feed of every run, and `SmallFilesAgree` in `MCDailyIngest` for
all files of up to three rows of its kinds. `LendingKeysAssumption`: `"b3-lending:"
\o ticker` is injective and is no ticker of a file, a fact about strings, which the
provers do not have. `SourcesAssumption`: the configuration lists a series or symbol
once (`config/fred_series.csv`, and `default_yahoo_symbols`, which drops repeated
ones), the records of its file carry the name it was asked for, and no bytes are
both a file 186 and a trades file.

Every inductive invariant was checked with TLC before it was proved.

Only model-checked: liveness (`JobEnds`, `EveryRangeFinished`), which TLAPS does not
reach, and `OwnRowsDoNotClash`. That an error is found (`CoverageTorn` and the other
violated runs) is TLC's alone.

## 6. Not modelled, and why

- HTTP clients, ZIP and CSV decoding, retries inside one download: the models take
  the outcome of a download (a file, none, or an error). The row rules of the B3 and
  lending parsers are in `SourceFiles`; the column layouts of the others are data no
  property tells apart.
- The API routes for instruments, series, funds, macro, lending, events, sources and
  health are single SELECTs over committed rows, with no state of their own. What a
  page of rows can go wrong about is in `HistoryPages`.
- The news webhook is one check-then-insert per request. Its `upsert_event` is in
  `Tables`; two deliveries at once race for one unique constraint.
- The search box and the status provider abort or ignore stale requests as
  `useHistoryPages` does; they are in the plan. Charts, number and date formatting
  have no state.
- The reference dates of `ingestion/schedule.py`. The concurrency group of the
  workflows is a premise of `DailyIngest` (one session at a time) and of
  `BackfillB3`, not a module.
- Migrations run once, before any of this; the unique keys they create are in
  `Tables` and `QuoteStore`. Settings and request signing.

`components` in `PROJECT.json` has the status of each part.

## 7. Plan

What is left, in this order:

1. `InstrumentSearch`: the search box with debounce, abort and keyboard state, the
   status provider, and the keyset pages of `/v1/instruments`.
2. `Schedule`: reference dates, the workflows' concurrency group and the queue of
   length one it keeps.
3. A second report per behaviour in `Coverage`, a page size below one date in
   `HistoryPages`, and values in `QuoteStore`.
