------------------------------ MODULE LoadSession ------------------------------
(***************************************************************************)
(* The frame every daily loader shares: commands of cli/main.py, the run   *)
(* row and the transaction of one loader, its downloads and its loop over  *)
(* parsed records. B3Day and SideLoads give the loop bodies.               *)
(*                                                                         *)
(* A loader is a list of files it fetches in turn (`items`) and a list of  *)
(* records of the last file still to persist (`todo`). The commands of one *)
(* behaviour come from a plan; the neon-writes group of the workflows      *)
(* keeps them one after the other.                                         *)
(***************************************************************************)
EXTENDS Tables, SourceFiles

CONSTANTS
    Plans,      \* bound: sequences of commands a behaviour may give
    Feed,       \* Feed[<<kind, date>>]: files the source may serve
    Weekend,    \* dates with weekday() >= 5
    FredSeries, Symbols, Months, \* configuration tables, as sequences
    FlushEvery  \* rows per batch (500 and 1000 in the code)

VARIABLES
    plan,     \* commands still to be given
    command,  \* the last command: loaders, date, full, off
    queue,    \* its loaders that have not started
    exit,     \* "none", "running", "0", "1" or "killed"
    failed,   \* labels that failed in it
    db,       \* committed tables
    session,  \* the transaction of the running loader
    job,      \* its loader, or "none", and the number of its run
    items,    \* kinds of file it has still to fetch
    todo,     \* records of the fetched file still to persist
    file,     \* kind and digest of that file
    memo      \* its local variables, see NoMemo

vars == <<plan, command, queue, exit, failed, db, session, job, items, todo, file, memo>>
commandVars == <<plan, command, queue, exit, failed>>

Loaders == {"b3", "b3-lending", "cvm", "cvm-events", "tesouro", "bcb", "ibge", "fred",
            "yahoo", "cftc", "13f"}

\* The <provider>_provider_enabled setting a command asks for. FRED is off, too,
\* without its API key.
Provider(l) == CASE l = "b3-lending" -> "b3" [] l = "cvm-events" -> "cvm"
                 [] l = "13f" -> "edgar" [] OTHER -> l

\* Loaders of a command whose provider is on.
Enabled(c) == SelectSeq(c.loaders, LAMBDA l : Provider(l) \notin c.off)

Commands == UNION {Range(p) : p \in Plans}

ASSUME PlansAssumption ==
    /\ Plans \subseteq Seq(Commands)
    /\ \A c \in Commands : Enabled(c) \in Seq(Loaders)

\* Files each loader asks for, in order. The OTC tables are fetched together
\* before either is persisted, and so are the two lending tables.
Files(l) == CASE l = "b3" -> <<"186", "187", "028", "trades", "cadastro">>
              [] l = "b3-lending" -> <<"registered", "open">>
              [] l = "cvm" -> <<"registry">> \o Months
              [] l = "fred" -> FredSeries
              [] l = "yahoo" -> Symbols
              [] OTHER -> <<l>>

FeedFiles == UNION {Feed[k] : k \in DOMAIN Feed}

\* Series, symbols and months are not named like a file of B3 or the registry,
\* nor months like another file; every file a command may ask for has an entry,
\* and a digest names one file.
ASSUME FilesAssumption ==
    /\ FredSeries \in Seq(Range(FredSeries)) /\ Symbols \in Seq(Range(Symbols))
    /\ Months \in Seq(Range(Months))
    /\ {"186", "187", "028", "trades", "cadastro", "registered", "open", "registry"} \cap
          (Range(FredSeries) \cup Range(Symbols) \cup Range(Months)) = {}
    /\ Range(Months) \cap (Loaders \cup Range(FredSeries) \cup Range(Symbols)) = {}
    /\ \A c \in Commands, l \in Loaders : \A i \in DOMAIN Files(l) :
          <<Files(l)[i], c.date>> \in DOMAIN Feed
    /\ \A f, g \in FeedFiles : f.sha = g.sha => f = g

\* Kinds whose download may fail without failing the load: logged and skipped.
Skippable == {"187", "028", "trades", "cadastro", "registered", "open",
              "cvm-events", "cftc", "13f"} \cup Range(FredSeries) \cup Range(Symbols)

\* Kinds whose unusable file is counted as rejected.
Rejectable == {"028", "trades", "cadastro"} \cup Range(Months)

\* stored: load_quote_keys; ids: tickers of instrument_ids; priced: keys of
\* credit_quote_keys; trades: the OTC trades file; waiting: quotes built and
\* not yet added to the session.
NoMemo == [stored |-> {}, ids |-> {}, priced |-> {}, trades |-> NoFile, waiting |-> {}]

Idle == job.loader = "none"

Init ==
    /\ plan \in Plans
    /\ command = [loaders |-> <<>>, date |-> 0, full |-> FALSE, off |-> {}]
    /\ queue = <<>> /\ exit = "none" /\ failed = {}
    /\ db = NoRows /\ session = Begin(NoRows)
    /\ job = [loader |-> "none", run |-> 0]
    /\ items = <<>> /\ todo = <<>>
    /\ file = [kind |-> "none", sha |-> ""] /\ memo = NoMemo

(******************************** Commands *********************************)

\* `marketdata ingest <loader>` or `ingest all`: providers switched off are left out.
BeginCommand ==
    /\ Idle /\ exit # "running" /\ plan # <<>>
    /\ command' = Head(plan)
    /\ plan' = Tail(plan)
    /\ queue' = Enabled(Head(plan))
    /\ exit' = "running" /\ failed' = {}
    /\ UNCHANGED <<db, session, job, items, todo, file, memo>>

BeginJob ==
    /\ Idle /\ exit = "running" /\ queue # <<>>
    /\ job' = [loader |-> Head(queue), run |-> job.run + 1]
    /\ session' = StartRun(Begin(db), job.run + 1, Head(queue), command.date, command.full)
    /\ items' = Files(Head(queue))
    /\ queue' = Tail(queue)
    /\ memo' = NoMemo
    /\ UNCHANGED <<plan, command, exit, failed, db, todo, file>>

EndCommand ==
    /\ Idle /\ exit = "running" /\ queue = <<>>
    /\ exit' = IF failed = {} THEN "0" ELSE "1"
    /\ UNCHANGED <<plan, command, queue, failed, db, session, job, items, todo, file, memo>>

(*************************** One loader's session **************************)

\* What the next session and loader find.
LeaveJob ==
    /\ job' = [job EXCEPT !.loader = "none"]
    /\ items' = <<>> /\ todo' = <<>> /\ memo' = NoMemo
    /\ file' = [kind |-> "none", sha |-> ""]

\* The loader has read everything: SUCCEEDED, and the CLI commits.
Finished == ~Idle /\ items = <<>> /\ todo = <<>> /\ memo.waiting = {}

\* _reject_empty_yahoo_persist: a weekday without a single answer is an error.
EmptyYahoo ==
    /\ job.loader = "yahoo" /\ Symbols # <<>> /\ command.date \notin Weekend
    /\ ~\E a \in session.flushed["artifacts"] : a.key[1] = job.run

CommitJob ==
    /\ Finished /\ ~EmptyYahoo
    /\ LET done == FinishRun(session, job.run)
       IN  /\ ~done.clash
           /\ db' = done.flushed
           /\ session' = Begin(done.flushed)
    /\ LeaveJob
    /\ UNCHANGED commandVars

\* Mutant: the error of a loader is logged and forgotten.
AbortUnreported ==
    /\ ~Idle
    /\ session' = Begin(db)
    /\ LeaveJob
    /\ UNCHANGED <<plan, command, queue, exit, failed, db>>

\* Any exception: a download that must not fail, a parser that raises, the
\* database, two rows of one key. Everything since the last commit is rolled
\* back, the run row with it; _run_jobs goes on with the next loader.
Abort ==
    /\ ~Idle
    /\ session' = Begin(db)
    /\ failed' = failed \cup {job.loader}
    /\ LeaveJob
    /\ UNCHANGED <<plan, command, queue, exit, db>>

\* The runner stops the process.
Kill ==
    /\ exit = "running"
    /\ session' = Begin(db)
    /\ exit' = "killed" /\ queue' = <<>>
    /\ LeaveJob
    /\ UNCHANGED <<plan, command, failed, db>>

(******************************** Downloads ********************************)

Kind == Head(items)
Served == Feed[<<Kind, command.date>>]
CanFetch == ~Idle /\ items # <<>> /\ todo = <<>> /\ memo.waiting = {}

\* The OTC tables are left alone under an equity universe.
OtcOff == job.loader = "b3" /\ Kind \in {"trades", "cadastro"} /\ ~LiveCredit(command.full)

\* A download that failed or answered nothing, or is switched off: no artifact.
SkipFile ==
    /\ CanFetch /\ Kind \in Skippable
    /\ items' = Tail(items)
    /\ UNCHANGED <<commandVars, db, session, job, todo, file, memo>>

\* The instrument master is only parsed when some ticker was persisted before.
MasterUnread == Kind = "028" /\ memo.ids = {}

\* A downloaded file becomes an object and an artifact row. An unusable one is
\* rejected where the loader expects it; everywhere else the load ends in Abort.
Fetch(f) ==
    /\ CanFetch /\ ~OtcOff
    /\ f \in Served
    /\ f.parse = "ok" \/ (f.parse = "rejected" /\ Kind \in Rejectable) \/ MasterUnread
    /\ session' = StoreArtifact(session, job.run, Kind, f.sha)
    /\ file' = [kind |-> Kind, sha |-> f.sha]
    /\ items' = Tail(items)
    /\ UNCHANGED <<commandVars, db, job>>

Parsed(f, records) == IF f.parse = "ok" THEN records ELSE <<>>

(******************************* Record loops ******************************)

\* Tesouro takes all records of a day as one batch.
BatchFull == job.loader # "tesouro" /\ Cardinality(memo.waiting) >= FlushEvery

Persisting(loader) == job.loader = loader /\ todo # <<>> /\ ~BatchFull

\* One record done: the session it leaves.
Persist(s) ==
    /\ session' = s
    /\ todo' = Tail(todo)
    /\ UNCHANGED <<commandVars, db, job, items, file>>

\* The bulk path of one record: an identity that is stored is never written
\* again; a new one waits for its batch.
Wait(s, m, identity, value) ==
    /\ Persist(s)
    /\ memo' = IF identity \in m.stored THEN m
               ELSE [m EXCEPT !.stored = @ \cup {identity},
                              !.waiting = @ \cup {Quote(identity, 1, value, file.sha)}]

\* add_all and flush; the CVM and Tesouro loaders commit each batch.
FlushBatch ==
    /\ memo.waiting # {} /\ (todo = <<>> \/ BatchFull)
    /\ LET s == Flush(Add(session, "quotes", memo.waiting))
       IN  IF job.loader = "b3" THEN session' = s /\ UNCHANGED db
           ELSE ~s.clash /\ session' = s /\ db' = s.flushed
    /\ memo' = [memo EXCEPT !.waiting = {}]
    /\ UNCHANGED <<commandVars, job, items, todo, file>>
===============================================================================
