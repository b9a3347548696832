---------------------------- MODULE CoverageProofs ----------------------------
(***************************************************************************)
(* What a coverage report answers, for every universe, every set of        *)
(* instruments and any commits between its SELECTs.                        *)
(***************************************************************************)
EXTENDS Coverage, NaturalSets

(* The operators a row is answered with *)

\* Newest picks a row of the highest revision, Latest the last date.
LEMMA NewestFacts ==
    ASSUME NEW qs \in SUBSET Quotes, qs # {}
    PROVE  /\ Newest(qs) \in qs /\ Newest(qs) # None
           /\ \A p \in qs : p.revision <= Newest(qs).revision
<1> DEFINE R == {q.revision : q \in qs}
<1>1. \A q \in qs : q.revision \in 0..MaxRevision
  BY BoundsAssumption DEF Quotes
<1>2. R \in SUBSET (0..MaxRevision) /\ R # {}
  BY <1>1
<1>3. PICK m \in R : \A n \in R : n <= m
  <2> HIDE DEF R
  <2> QED BY <1>2, BoundedSetHasMax, BoundsAssumption
<1>4. \E q \in qs : \A p \in qs : p.revision <= q.revision
  BY <1>3
<1>5. Newest(qs) \in qs /\ \A p \in qs : p.revision <= Newest(qs).revision
  BY <1>4 DEF Newest
<1> QED BY <1>5, NoneAssumption

LEMMA NewestOne == ASSUME NEW q \in Quotes PROVE Newest({q}) = q
  BY NewestFacts

LEMMA NewestType ==
    ASSUME NEW qs \in SUBSET Quotes
    PROVE  Newest(qs) \in Quotes \cup {None} /\ (Newest(qs) = None <=> qs = {})
<1>1. CASE qs = {}
  BY <1>1 DEF Newest
<1>2. CASE qs # {}
  BY <1>2, NewestFacts
<1> QED BY <1>1, <1>2

LEMMA LatestFacts ==
    ASSUME NEW days \in SUBSET Dates, days # {}
    PROVE  Latest(days) \in days /\ Latest(days) # None /\ \A d \in days : d <= Latest(days)
<1>1. days \in SUBSET (0..LastDate) /\ LastDate \in Nat
  BY DatesAssumption DEF Dates
<1>2. \E d \in days : \A e \in days : e <= d
  BY ONLY <1>1, days # {}, BoundedSetHasMax
<1>3. Latest(days) \in days /\ \A d \in days : d <= Latest(days)
  BY <1>2 DEF Latest
<1>4. Latest(days) \in Nat
  <2>1. \A d \in Dates : d \in Nat
    BY DatesAssumption DEF Dates
  <2> QED BY <1>3, <2>1
<1> QED BY <1>3, <1>4, NoneAssumption

LEMMA LatestType ==
    ASSUME NEW days \in SUBSET Dates
    PROVE  Latest(days) \in Dates \cup {None} /\ (Latest(days) # None => Latest(days) \in days)
<1>1. CASE days = {}
  BY <1>1 DEF Latest
<1>2. CASE days # {}
  BY <1>2, LatestFacts
<1> QED BY <1>1, <1>2

\* Only is the one member of a set that has just one.
LEMMA OnlyFacts ==
    ASSUME NEW ids \in SUBSET Instruments
    PROVE  /\ Only(ids) \in Instruments \cup {None}
           /\ Only(ids) # None => ids = {Only(ids)}
           /\ \A i : ids = {i} => Only(ids) = i
<1>1. IsFiniteSet(ids)
  BY FS_Subset, InstrumentsAssumption
<1>2. Cardinality(ids) = 1 <=> \E i : ids = {i}
  BY <1>1, FS_Singleton
<1> QED BY <1>2, InstrumentsAssumption DEF Only

\* Rows resolve to instruments that have an identifier or are created.
LEMMA ResolveType ==
    ASSUME NEW row, NEW hs \in SUBSET Hits, NEW ex \in SUBSET Instruments, NEW s
    PROVE  ResolveRow(row, hs, ex, s) \in SUBSET Instruments
<1>1. \A types, value : Ids(hs, types, value, s) \in SUBSET Instruments
  BY DEF Ids, Hits
<1> QED BY <1>1 DEF ResolveRow

LEMMA CreatedType == ASSUME TypeOK PROVE Created \in SUBSET Instruments
  BY DEF TypeOK, Created, Hits

LEMMA MissingType ==
    ASSUME NEW reason \in Reasons, NEW days \in Nat \cup {None}
    PROVE  Missing(reason, days) \in Answers /\ Missing(reason, days).reason = reason
  BY DEF Missing, Answers

\* What _evaluate_row returns, and when it is a price.
LEMMA AnswerFacts ==
    ASSUME NEW row, NEW date \in Dates, NEW public, NEW store,
           store.quote \in Quotes \cup {None},
           store.prior \in Dates \cup {None}, store.prior # None => store.prior < date
    PROVE  /\ Answer(row, date, public, store) \in Answers
           /\ Answer(row, date, public, store).reason = "NONE" =>
                /\ Expected(row) # None /\ store.source # None /\ Only(store.ids) # None
                /\ store.quote # None /\ store.quote.positive
                /\ Answer(row, date, public, store).price = store.quote
                /\ public => store.source.public
           /\ Expected(row) # None /\ Only(store.ids) # None /\ store.quote # None =>
                \/ Answer(row, date, public, store).reason = "NONE"
                \/ Answer(row, date, public, store).reason \in {"SOURCE_UNAVAILABLE", "REDISTRIBUTION_RESTRICTED"}
                \/ Answer(row, date, public, store).reason = "INVALID_VALUE" /\ ~store.quote.positive
<1>1. store.prior # None => date - store.prior \in Nat
  BY DatesAssumption DEF Dates
<1>2. store.quote # None => [reason |-> "NONE", price |-> store.quote, staleness |-> None] \in Answers
  BY DEF Answers, Reasons
<1>3. /\ "UNSUPPORTED" \in Reasons /\ "SOURCE_UNAVAILABLE" \in Reasons /\ "MAPPING_ERROR" \in Reasons
      /\ "REDISTRIBUTION_RESTRICTED" \in Reasons /\ "INVALID_VALUE" \in Reasons /\ "NO_TRADE" \in Reasons
      /\ "STALE" \in Reasons /\ "NOT_PUBLISHED_YET" \in Reasons /\ "NO_DATA" \in Reasons
  BY DEF Reasons
<1> DEFINE a == Answer(row, date, public, store)
<1>4. \/ a.reason = "NONE" /\ a \in Answers /\ a.price = store.quote /\ Expected(row) # None /\ store.source # None
         /\ Only(store.ids) # None /\ store.quote # None /\ store.quote.positive /\ (public => store.source.public)
      \/ a \in Answers /\ a.reason # "NONE"
         /\ \/ Expected(row) = None \/ Only(store.ids) = None \/ store.quote = None
            \/ a.reason \in {"SOURCE_UNAVAILABLE", "REDISTRIBUTION_RESTRICTED"}
            \/ a.reason = "INVALID_VALUE" /\ ~store.quote.positive
  <2>1. CASE Expected(row) = None
    BY <2>1, <1>3, MissingType DEF Answer
  <2>2. CASE Expected(row) # None /\ (store.source = None \/ ~store.source.enabled)
    <3>1. a = Missing("SOURCE_UNAVAILABLE", None)
      BY <2>2 DEF Answer
    <3> HIDE DEF a
    <3> QED BY <3>1, <1>3, MissingType
  <2>3. CASE Expected(row) # None /\ ~(store.source = None \/ ~store.source.enabled) /\ Only(store.ids) = None
    BY <2>3, <1>3, MissingType DEF Answer
  <2>4. CASE Expected(row) # None /\ ~(store.source = None \/ ~store.source.enabled) /\ Only(store.ids) # None /\ store.quote # None
    <3>1. CASE public /\ ~store.source.public
      BY <2>4, <3>1, <1>3, MissingType DEF Answer
    <3>2. CASE ~(public /\ ~store.source.public) /\ ~store.quote.positive
      <4>1. a = Missing("INVALID_VALUE", None)
        BY <2>4, <3>2 DEF Answer
      <4> HIDE DEF a
      <4>2. a \in Answers /\ a.reason = "INVALID_VALUE"
        BY <4>1, <1>3, MissingType
      <4> QED BY <3>2, <4>2
    <3>3. CASE ~(public /\ ~store.source.public) /\ store.quote.positive
      BY <2>4, <3>3, <1>2 DEF Answer
    <3> QED BY <3>1, <3>2, <3>3
  <2>5. CASE Expected(row) # None /\ ~(store.source = None \/ ~store.source.enabled) /\ Only(store.ids) # None /\ store.quote = None
    <3>1. CASE store.noTrade
      BY <2>5, <3>1, <1>3, MissingType DEF Answer
    <3>2. CASE ~store.noTrade /\ store.prior # None
      BY <2>5, <3>2, <1>1, <1>3, MissingType DEF Answer
    <3>3. CASE ~store.noTrade /\ store.prior = None
      BY <2>5, <3>3, <1>3, MissingType DEF Answer
    <3> QED BY <3>1, <3>2, <3>3
  <2> QED BY <2>1, <2>2, <2>3, <2>4, <2>5
<1> HIDE DEF a
<1> QED BY <1>4 DEF a

-------------------------------------------------------------------------------
(* The loaders *)

\* The identifiers of an instrument are those its loader attaches.
HitsOK == \A h \in hits : h.source = Home[h.instrument] /\ <<h.type, h.value>> \in Known[h.instrument]

\* uq_instrument_quotes_identity
OneRevision ==
    \A p, q \in quotes : Key(p) = Key(q) /\ p.date = q.date /\ p.revision = q.revision => p = q

\* Every new row is above the stored revisions of its identity, and the only new one of it.
Above(rows) ==
    \A r \in rows :
      /\ \A q \in Revisions(r.instrument, r.date, r.type, r.source) : q.revision < r.revision
      /\ \A p \in rows : Key(p) = Key(r) /\ p.date = r.date => p = r

LEMMA AboveKeeps ==
    ASSUME TypeOK, OneRevision, NEW rows \in SUBSET Quotes, Above(rows), quotes' = quotes \cup rows
    PROVE  OneRevision'
<1> SUFFICES ASSUME NEW p \in quotes', NEW q \in quotes',
                    Key(p) = Key(q), p.date = q.date, p.revision = q.revision
             PROVE  p = q
  BY DEF OneRevision, Key
<1>0. p \in Quotes /\ q \in Quotes
  BY DEF TypeOK
<1>1. \A r \in Quotes : r.revision \in Nat
  BY BoundsAssumption DEF Quotes
<1>2. ASSUME NEW r \in rows, NEW o \in quotes, Key(o) = Key(r), o.date = r.date
      PROVE  o.revision # r.revision
  <2>1. o \in Revisions(r.instrument, r.date, r.type, r.source)
    BY <1>2 DEF Key, Revisions
  <2>2. o.revision < r.revision /\ o.revision \in Nat /\ r.revision \in Nat
    BY <2>1, <1>1 DEF Above, TypeOK
  <2> QED BY <2>2
<1>3. CASE p \in quotes /\ q \in quotes
  BY <1>3 DEF OneRevision
<1>4. CASE p \in rows /\ q \in rows
  BY <1>4 DEF Above
<1>5. CASE p \in rows /\ q \in quotes
  BY <1>2, <1>5
<1>6. CASE p \in quotes /\ q \in rows
  BY <1>2, <1>6
<1> QED BY <1>3, <1>4, <1>5, <1>6

LEMMA NextAbove ==
    ASSUME TypeOK, NEW i \in Instruments, NEW d, NEW type
    PROVE  \A q \in Revisions(i, d, type, Home[i]) : q.revision < NextRevision(i, d, type)
<1> DEFINE R == Revisions(i, d, type, Home[i])
<1>1. R \in SUBSET Quotes
  BY DEF TypeOK, Revisions
<1>2. CASE R # {}
  <2>1. Newest(R) \in R /\ Newest(R) # None /\ \A q \in R : q.revision <= Newest(R).revision
    BY <1>1, <1>2, NewestFacts
  <2>2. NextRevision(i, d, type) = Newest(R).revision + 1
    BY <2>1 DEF NextRevision
  <2>3. \A r \in Quotes : r.revision \in Nat
    BY BoundsAssumption DEF Quotes
  <2> HIDE DEF R
  <2>4. \A q \in R : q.revision < Newest(R).revision + 1
    BY <2>1, <1>1, <2>3
  <2> QED BY <2>2, <2>4 DEF R
<1> QED BY <1>2

\* What every commit of a loader does to the tables.
Grows ==
    /\ hits \subseteq hits' /\ hits' \subseteq Hits
    /\ quotes \subseteq quotes' /\ quotes' \subseteq Quotes
    /\ sources' \in [Providers -> Policies \cup {None}]
    /\ runs' \subseteq Providers \X Dates /\ absent' \subseteq Instruments \X Dates
    /\ commits' = commits + 1 /\ commits' \in 0..MaxCommits
    /\ UNCHANGED reader

LEMMA AttachedFacts ==
    ASSUME NEW is, NEW types
    PROVE  \A h \in Attached(is, types) :
              h \in Hits /\ h.source = Home[h.instrument] /\ <<h.type, h.value>> \in Known[h.instrument]
  BY DEF Attached

LEMMA EnableType == ASSUME TypeOK, NEW s \in Providers, Enable(s) PROVE sources' \in [Providers -> Policies \cup {None}]
<1>1. (s = "yahoo" \/ sources[s] = None \/ sources[s].enabled) \in BOOLEAN
  OBVIOUS
<1>2. [enabled |-> (s = "yahoo" \/ sources[s] = None \/ sources[s].enabled), public |-> TRUE] \in Policies
  BY <1>1 DEF Policies
<1> QED BY <1>2 DEF Enable, TypeOK

LEMMA CommitFacts == ASSUME TypeOK, Commit PROVE commits' = commits + 1 /\ commits' \in 0..MaxCommits /\ UNCHANGED reader
  BY BoundsAssumption DEF Commit, TypeOK


LEMMA HistoryAbove ==
    ASSUME TypeOK, NEW is \in SUBSET Instruments, NEW days, NEW type
    PROVE  Above(History(is, days, type))
<1>1. \A r \in History(is, days, type) : \E i \in is, d \in days : r = Upsert(i, d, type, TRUE)
  BY DEF History
<1>2. ASSUME NEW r \in History(is, days, type)
      PROVE  \A q \in Revisions(r.instrument, r.date, r.type, r.source) : q.revision < r.revision
  <2>1. PICK i \in is, d \in days : r = Upsert(i, d, type, TRUE)
    BY <1>1
  <2> QED BY <2>1, NextAbove DEF Upsert, Quote
<1>3. ASSUME NEW r \in History(is, days, type), NEW p \in History(is, days, type),
             Key(p) = Key(r), p.date = r.date
      PROVE  p = r
  <2>1. PICK i \in is, d \in days : r = Upsert(i, d, type, TRUE)
    BY <1>1
  <2>2. PICK j \in is, e \in days : p = Upsert(j, e, type, TRUE)
    BY <1>1
  <2>3. i = j /\ d = e
    BY <1>3, <2>1, <2>2 DEF Key, Upsert, Quote
  <2> QED BY <2>1, <2>2, <2>3
<1> QED BY <1>2, <1>3 DEF Above

LEMMA YahooStep ==
    ASSUME TypeOK, HitsOK, OneRevision, NEW is \in SUBSET Instruments, NEW days \in SUBSET Dates,
           NEW run \in YahooRuns, CommitYahoo(is, days, run)
    PROVE  Grows /\ HitsOK' /\ OneRevision'
<1>1. History(is, days, "CLOSE") \subseteq Quotes /\ quotes' = quotes \cup History(is, days, "CLOSE")
  BY DEF CommitYahoo
<1>2. Above(History(is, days, "CLOSE"))
  BY HistoryAbove
<1>3. OneRevision'
  BY <1>1, <1>2, AboveKeeps
<1>4. hits' = hits \cup Attached(is, LookupTypes)
  BY DEF CommitYahoo, Attach
<1>5. hits \subseteq hits' /\ hits' \subseteq Hits /\ HitsOK'
  BY <1>4, AttachedFacts DEF HitsOK, TypeOK
<1>6. quotes \subseteq quotes' /\ quotes' \subseteq Quotes
  BY <1>1 DEF TypeOK
<1>7. sources' \in [Providers -> Policies \cup {None}] /\ commits' = commits + 1
      /\ commits' \in 0..MaxCommits /\ UNCHANGED reader
  BY EnableType, CommitFacts DEF CommitYahoo, Providers
<1>8. runs' \subseteq Providers \X Dates /\ absent' \subseteq Instruments \X Dates
  BY DEF CommitYahoo, TypeOK, Providers, YahooRuns
<1> QED BY <1>3, <1>5, <1>6, <1>7, <1>8 DEF Grows

LEMMA CotahistStep ==
    ASSUME TypeOK, HitsOK, OneRevision, NEW end \in Dates, NEW is \in SUBSET Instruments,
           NEW days \in SUBSET Dates, CommitCotahist(end, days, is)
    PROVE  Grows /\ HitsOK' /\ OneRevision'
<1>1. History(is, days, "LAST") \subseteq Quotes /\ quotes' = quotes \cup History(is, days, "LAST")
  BY DEF CommitCotahist
<1>2. Above(History(is, days, "LAST"))
  BY HistoryAbove
<1>3. OneRevision'
  BY <1>1, <1>2, AboveKeeps
<1>4. hits' = hits \cup Attached(is, Types)
  BY DEF CommitCotahist, Attach
<1>5. hits \subseteq hits' /\ hits' \subseteq Hits /\ HitsOK'
  BY <1>4, AttachedFacts DEF HitsOK, TypeOK
<1>6. quotes \subseteq quotes' /\ quotes' \subseteq Quotes
  BY <1>1 DEF TypeOK
<1>7. sources' \in [Providers -> Policies \cup {None}] /\ commits' = commits + 1
      /\ commits' \in 0..MaxCommits /\ UNCHANGED reader
  BY EnableType, CommitFacts DEF CommitCotahist, Providers
<1>8. runs' \subseteq Providers \X Dates /\ absent' \subseteq Instruments \X Dates
  BY DEF CommitCotahist, TypeOK, Providers
<1> QED BY <1>3, <1>5, <1>6, <1>7, <1>8 DEF Grows

LEMMA PolicyStep ==
    ASSUME TypeOK, HitsOK, OneRevision, NEW s \in Providers, NEW p \in Policies, SetPolicy(s, p)
    PROVE  Grows /\ HitsOK' /\ OneRevision'
<1>1. commits' = commits + 1 /\ commits' \in 0..MaxCommits /\ UNCHANGED reader
  BY CommitFacts DEF SetPolicy
<1> QED BY <1>1 DEF SetPolicy, TypeOK, Grows, HitsOK, OneRevision

LEMMA B3Step ==
    ASSUME TypeOK, HitsOK, OneRevision, NEW d \in Dates, NEW traded \in SUBSET Credit,
           NEW last \in SUBSET (Instruments \ (Futures \cup Credit)), NEW settled \in SUBSET Futures,
           NEW files, NEW other \in BOOLEAN, NEW positive \in BOOLEAN,
           \A i \in last : Home[i] = "b3",
           CommitB3Day(d, traded, last, settled, files, other, positive)
    PROVE  Grows /\ HitsOK' /\ OneRevision'
<1> DEFINE new(i, type) == Revisions(i, d, type, "b3") = {}
           A == {Quote(i, d, "LAST", 1, TRUE) : i \in {j \in last : new(j, "LAST")}}
           B == {Upsert(i, d, "LAST", TRUE) : i \in {j \in traded : other \/ new(j, "LAST")}}
           C == {Upsert(i, d, "OFFICIAL_SETTLEMENT", positive) :
                   i \in {j \in settled : other \/ new(j, "OFFICIAL_SETTLEMENT")}}
           rows == A \cup B \cup C
<1>1. rows \subseteq Quotes /\ quotes' = quotes \cup rows
  BY DEF CommitB3Day
<1>2. \A r \in A : /\ r = Quote(r.instrument, d, "LAST", 1, TRUE)
                   /\ r.instrument \in last /\ r.date = d /\ r.type = "LAST" /\ r.source = "b3"
                   /\ Revisions(r.instrument, d, "LAST", "b3") = {}
  BY DEF Quote
<1>3. \A r \in B : /\ r = Upsert(r.instrument, d, "LAST", TRUE)
                   /\ r.instrument \in traded /\ r.date = d /\ r.type = "LAST" /\ r.source = "b3"
                   /\ \A q \in Revisions(r.instrument, d, "LAST", "b3") : q.revision < r.revision
  <2>1. \A i \in traded : i \in Instruments /\ Home[i] = "b3"
    BY InstrumentsAssumption
  <2>2. ASSUME NEW r \in B
        PROVE  /\ r = Upsert(r.instrument, d, "LAST", TRUE)
               /\ r.instrument \in traded /\ r.date = d /\ r.type = "LAST" /\ r.source = "b3"
               /\ \A q \in Revisions(r.instrument, d, "LAST", "b3") : q.revision < r.revision
    <3>1. PICK i \in traded : r = Upsert(i, d, "LAST", TRUE)
      BY <2>2
    <3> QED BY <2>1, <3>1, NextAbove DEF Upsert, Quote
  <2> HIDE DEF B
  <2> QED BY <2>2
<1>4. \A r \in C : /\ r = Upsert(r.instrument, d, "OFFICIAL_SETTLEMENT", positive)
                   /\ r.instrument \in settled /\ r.date = d /\ r.type = "OFFICIAL_SETTLEMENT" /\ r.source = "b3"
                   /\ \A q \in Revisions(r.instrument, d, "OFFICIAL_SETTLEMENT", "b3") : q.revision < r.revision
  <2>1. \A i \in settled : i \in Instruments /\ Home[i] = "b3"
    BY InstrumentsAssumption
  <2>2. ASSUME NEW r \in C
        PROVE  /\ r = Upsert(r.instrument, d, "OFFICIAL_SETTLEMENT", positive)
               /\ r.instrument \in settled /\ r.date = d /\ r.type = "OFFICIAL_SETTLEMENT" /\ r.source = "b3"
               /\ \A q \in Revisions(r.instrument, d, "OFFICIAL_SETTLEMENT", "b3") : q.revision < r.revision
    <3>1. PICK i \in settled : r = Upsert(i, d, "OFFICIAL_SETTLEMENT", positive)
      BY <2>2
    <3> QED BY <2>1, <3>1, NextAbove DEF Upsert, Quote
  <2> HIDE DEF C
  <2> QED BY <2>2
<1>5. Above(rows)
  <2>1. last \cap traded = {}
    OBVIOUS
  <2> HIDE DEF A, B, C
  <2>2. ASSUME NEW r \in rows
        PROVE  \A q \in Revisions(r.instrument, r.date, r.type, r.source) : q.revision < r.revision
    BY <1>2, <1>3, <1>4
  <2>3. ASSUME NEW r \in rows, NEW p \in rows, Key(p) = Key(r), p.date = r.date PROVE p = r
    <3>1. p.instrument = r.instrument /\ p.type = r.type
      BY <2>3 DEF Key
    <3> QED BY <1>2, <1>3, <1>4, <2>1, <3>1
  <2> HIDE DEF rows
  <2> QED BY <2>2, <2>3 DEF Above
<1>6. OneRevision'
  <2> HIDE DEF rows
  <2> QED BY <1>1, <1>5, AboveKeeps
<1>7. hits \subseteq hits' /\ hits' \subseteq Hits /\ HitsOK'
  BY AttachedFacts DEF HitsOK, TypeOK, CommitB3Day
<1>8. quotes \subseteq quotes' /\ quotes' \subseteq Quotes
  BY <1>1 DEF TypeOK
<1>9. sources' \in [Providers -> Policies \cup {None}] /\ commits' = commits + 1
      /\ commits' \in 0..MaxCommits /\ UNCHANGED reader
  BY EnableType, CommitFacts DEF CommitB3Day, Providers
<1>10. runs' \subseteq Providers \X Dates
  BY DEF CommitB3Day, TypeOK, Providers
<1>11. absent' \subseteq Instruments \X Dates
  BY InstrumentsAssumption DEF CommitB3Day, TypeOK, Absences
<1> QED BY <1>6, <1>7, <1>8, <1>9, <1>10, <1>11 DEF Grows

LEMMA LoadStep == ASSUME TypeOK, HitsOK, OneRevision, Load PROVE Grows /\ HitsOK' /\ OneRevision'
<1>0. \A batch \in Batches : batch \in SUBSET Instruments
  BY InstrumentsAssumption
<1>1. ASSUME NEW d \in Dates, NEW batch \in Batches, NEW files \in FileSets,
             NEW other \in BOOLEAN, NEW positive \in BOOLEAN,
             CommitB3Day(d, batch \cap Credit, B3Shares(batch),
                         IF "187" \in files THEN batch \cap Futures ELSE {}, files, other, positive)
      PROVE  Grows /\ HitsOK' /\ OneRevision'
  <2> DEFINE settled == IF "187" \in files THEN batch \cap Futures ELSE {}
  <2>1. B3Shares(batch) \in SUBSET (Instruments \ (Futures \cup Credit)) /\ settled \in SUBSET Futures
        /\ batch \cap Credit \in SUBSET Credit /\ \A i \in B3Shares(batch) : Home[i] = "b3"
    BY <1>0 DEF B3Shares
  <2>2. CommitB3Day(d, batch \cap Credit, B3Shares(batch), settled, files, other, positive)
    BY <1>1
  <2> HIDE DEF settled
  <2> QED BY <2>1, <2>2, B3Step
<1>2. ASSUME NEW end \in Dates, NEW days \in SUBSET Dates, NEW batch \in Batches,
             CommitCotahist(end, days, B3Shares(batch))
      PROVE  Grows /\ HitsOK' /\ OneRevision'
  <2>1. B3Shares(batch) \in SUBSET Instruments
    BY <1>0 DEF B3Shares
  <2> QED BY <1>2, <2>1, CotahistStep
<1>3. ASSUME NEW days \in SUBSET Dates, NEW run \in YahooRuns, NEW batch \in Batches,
             CommitYahoo(YahooShares(batch), days, run)
      PROVE  Grows /\ HitsOK' /\ OneRevision'
  <2>1. YahooShares(batch) \in SUBSET Instruments
    BY <1>0 DEF YahooShares
  <2> QED BY <1>3, <2>1, YahooStep
<1>4. ASSUME NEW s \in Providers, NEW p \in Policies, SetPolicy(s, p) PROVE Grows /\ HitsOK' /\ OneRevision'
  BY <1>4, PolicyStep
<1>5. CASE \E d \in Dates, batch \in Batches, files \in FileSets, other, positive \in BOOLEAN :
         /\ batch \cap Credit # {} => "trades" \in files
         /\ CommitB3Day(d, batch \cap Credit, B3Shares(batch),
                        IF "187" \in files THEN batch \cap Futures ELSE {}, files, other, positive)
  BY <1>1, <1>5
<1>6. CASE \E end \in Dates, days \in SUBSET Dates, batch \in Batches :
         /\ \A d \in days : d <= end
         /\ CommitCotahist(end, days, B3Shares(batch))
  BY <1>2, <1>6
<1>7. CASE \E days \in (SUBSET Dates) \ {{}}, run \in YahooRuns, batch \in Batches :
           CommitYahoo(YahooShares(batch), days, run)
  BY <1>3, <1>7
<1>8. CASE \E s \in Providers, p \in Policies : SetPolicy(s, p)
  BY <1>4, <1>8
<1> QED BY <1>5, <1>6, <1>7, <1>8 DEF Load

-------------------------------------------------------------------------------
(* Types *)

Views == [sources: [Providers -> Policies \cup {None}], hits: SUBSET Hits,
          existing: SUBSET Instruments, quotes: SUBSET Quotes,
          prior: SUBSET ((Instruments \X PriceTypes \X Providers) \X Dates),
          ingested: SUBSET Providers, absent: SUBSET Instruments, aliases: SUBSET Hits]

\* What a reader has asked and read; a prior date is before the report's.
ViewOK ==
    /\ view \in Views
    /\ stage \in DayStages => ask \in [date: Dates, public: BOOLEAN] /\ began \in Beginnings
    /\ stage \in SpanStages => ask \in [filter: Providers \cup {None}] /\ began \in [version: 0..MaxCommits]
    /\ stage \in DayStages => \A p \in view.prior : p[2] < ask.date

IInv == TypeOK /\ HitsOK /\ OneRevision /\ ViewOK

LEMMA StagesApart == DayStages \cap SpanStages = {} /\ "idle" \notin DayStages \cup SpanStages
  BY DEF DayStages, SpanStages

LEMMA NoViewType == NoView \in Views /\ NoView.prior = {}
  BY DEF NoView, Views

\* The direct answer is an answer.
LEMMA DirectType ==
    ASSUME TypeOK, NEW row \in Universe, NEW date \in Dates, NEW public
    PROVE  Direct(row, date, public) \in Answers
<1> DEFINE ids == ResolveRow(row, hits, Created, row.provider)
           i == Only(ids)
           of == {q \in quotes : q.instrument = i /\ q.type = Expected(row) /\ q.source = row.provider}
           now == {q \in of : q.date = date}
           days == DatesOf({q \in of : q.date < date})
           store == [source |-> SourceOf(row, sources), ids |-> ids, quote |-> Newest(now),
                     noTrade |-> <<i, date>> \in absent \/ <<row.provider, date>> \in runs,
                     prior |-> Latest(days)]
<1>1. now \in SUBSET Quotes /\ days \in SUBSET Dates /\ \A d \in days : d < date
  BY DEF TypeOK, Quotes, DatesOf
<1>2. Direct(row, date, public) = Answer(row, date, public, store)
  BY DEF Direct
<1> HIDE DEF now, days
<1>3. Newest(now) \in Quotes \cup {None} /\ Latest(days) \in Dates \cup {None}
      /\ (Latest(days) # None => Latest(days) < date)
  BY <1>1, NewestType, LatestType
<1>4. store.quote = Newest(now) /\ store.prior = Latest(days)
  OBVIOUS
<1> HIDE DEF store
<1> QED BY <1>2, <1>3, <1>4, AnswerFacts

\* So is the one from the caches.
LEMMA CachedType ==
    ASSUME TypeOK, ViewOK, stage \in DayStages, NEW row \in Universe
    PROVE  Cached(row) \in Answers
<1> DEFINE ids == Resolved(row)
           key == <<Only(ids), Expected(row), row.provider>>
           now == OfKey(view.quotes, key)
           days == {p[2] : p \in {r \in view.prior : r[1] = key}}
           store == [source |-> SourceOf(row, view.sources), ids |-> ids, quote |-> Newest(now),
                     noTrade |-> Only(ids) \in view.absent \/ row.provider \in view.ingested,
                     prior |-> Latest(days)]
<1>1. now \in SUBSET Quotes /\ days \in SUBSET Dates /\ \A d \in days : d < ask.date
  <2>1. view.quotes \subseteq Quotes /\ view.prior \subseteq (Instruments \X PriceTypes \X Providers) \X Dates
    BY DEF ViewOK, Views
  <2>2. \A p \in view.prior : p[2] \in Dates /\ p[2] < ask.date
    BY <2>1 DEF ViewOK
  <2> QED BY <2>1, <2>2 DEF OfKey
<1>2. Cached(row) = Answer(row, ask.date, ask.public, store)
  BY DEF Cached
<1> HIDE DEF now, days
<1>3. Newest(now) \in Quotes \cup {None} /\ Latest(days) \in Dates \cup {None}
      /\ (Latest(days) # None => Latest(days) < ask.date)
  BY <1>1, NewestType, LatestType
<1>4. store.quote = Newest(now) /\ store.prior = Latest(days) /\ ask.date \in Dates
  BY DEF ViewOK
<1> HIDE DEF store
<1> QED BY <1>2, <1>3, <1>4, AnswerFacts

LEMMA UniqueType == ASSUME ViewOK PROVE UniqueIds \in SUBSET Instruments
<1>1. view.hits \in SUBSET Hits /\ view.existing \in SUBSET Instruments
  BY DEF ViewOK, Views
<1>2. \A row \in Universe : Resolved(row) \in SUBSET Instruments
  BY <1>1, ResolveType DEF Resolved
<1> QED BY <1>2 DEF UniqueIds

LEMMA DaysCounted == ASSUME NEW days \in SUBSET Dates, days # {} PROVE Cardinality(days) \in Dates
<1>1. IsFiniteSet(1..LastDate) /\ Cardinality(1..LastDate) = LastDate
  BY FS_Interval, DatesAssumption
<1>2. IsFiniteSet(days) /\ Cardinality(days) <= LastDate
  BY <1>1, FS_Subset DEF Dates
<1>3. Cardinality(days) \in Nat /\ Cardinality(days) # 0
  BY <1>2, FS_CardinalityType, FS_EmptySet
<1> QED BY <1>2, <1>3, DatesAssumption DEF Dates

LEMMA SpanType ==
    ASSUME TypeOK, NEW i, NEW s
    PROVE  SpanOf(i, s) \in Spans \cup {None}
<1> DEFINE days == {q.date : q \in {p \in quotes : /\ p.instrument = i /\ (s = None \/ p.source = s)
                                                   /\ ask.filter = None \/ p.source = ask.filter
                                                   /\ sources[p.source].public}}
           min == CHOOSE d \in days : \A e \in days : d <= e
<1>1. days \in SUBSET Dates
  BY DEF TypeOK, Quotes
<1>2. CASE days = {}
  BY <1>2 DEF SpanOf
<1>3. CASE days # {}
  <2>1. SpanOf(i, s) = [min |-> min, max |-> Latest(days), count |-> Cardinality(days)]
    BY <1>3 DEF SpanOf
  <2> HIDE DEF days
  <2>2. days \in SUBSET Nat /\ LastDate \in Nat
    BY <1>1, DatesAssumption DEF Dates
  <2>3. min \in days
    BY <1>3, <2>2, SetHasMin
  <2>4. Latest(days) \in days
    BY <1>1, <1>3, LatestFacts
  <2>5. Cardinality(days) \in Dates
    BY <1>1, <1>3, DaysCounted
  <2> HIDE DEF min
  <2> QED BY <1>1, <2>1, <2>3, <2>4, <2>5 DEF Spans
<1> QED BY <1>2, <1>3


\* One SELECT leaves tables, answers and question as they are.
LEMMA SelectTypes ==
    ASSUME TypeOK, HitsOK, OneRevision, ViewOK, NEW from, NEW to, NEW v, Select(from, to, v), v \in Views,
           \/ from \in DayStages /\ to \in DayStages /\ \A p \in v.prior : p[2] < ask.date
           \/ from \in SpanStages /\ to \in SpanStages
    PROVE  IInv'
<1>1. stage = from /\ stage' = to /\ view' = v /\ UNCHANGED <<tables, ask, began, report, span>>
  BY DEF Select
<1>2. TypeOK' /\ HitsOK' /\ OneRevision'
  BY <1>1 DEF tables, db, TypeOK, HitsOK, OneRevision
<1>3. ViewOK'
  BY <1>1, StagesApart DEF ViewOK
<1> QED BY <1>2, <1>3 DEF IInv

LEMMA ReadStep == ASSUME IInv, Read PROVE IInv'
<1>0. /\ TypeOK /\ HitsOK /\ OneRevision /\ ViewOK /\ view \in Views
      /\ UniqueIds \in SUBSET Instruments /\ Created \in SUBSET Instruments
      /\ stage \in DayStages => ask \in [date: Dates, public: BOOLEAN] /\ began \in Beginnings
      /\ stage \in SpanStages => ask \in [filter: Providers \cup {None}] /\ began \in [version: 0..MaxCommits]
      /\ stage \in DayStages => \A p \in view.prior : p[2] < ask.date
  BY UniqueType, CreatedType DEF IInv, ViewOK
<1>k. \A q \in quotes : q \in Quotes /\ Key(q) \in Instruments \X PriceTypes \X Providers /\ q.date \in Dates
  BY <1>0 DEF TypeOK, Quotes, Key
<1>1. ASSUME NEW question \in Asked, BeginReport(question[1], question[2]) PROVE IInv'
  <2> DEFINE date == question[1]
             public == question[2]
  <2>1. date \in Dates /\ public \in BOOLEAN
    BY DatesAssumption
  <2> HIDE DEF date, public
  <2>2. /\ stage' = "sources" /\ ask' = [date |-> date, public |-> public]
        /\ began' = [version |-> commits, direct |-> [row \in Universe |-> Direct(row, date, public)]]
        /\ view' = NoView /\ UNCHANGED <<tables, report, span>>
    BY <1>1 DEF BeginReport, date, public
  <2>3. [row \in Universe |-> Direct(row, date, public)] \in [Universe -> Answers]
    BY <1>0, <2>1, DirectType
  <2>4. began' \in Beginnings
    <3> HIDE DEF Beginnings
    <3>1. commits \in 0..MaxCommits
      BY <1>0 DEF TypeOK
    <3> QED BY <2>2, <2>3, <3>1 DEF Beginnings
  <2>5. TypeOK' /\ HitsOK' /\ OneRevision'
    BY <1>0, <2>2 DEF tables, db, TypeOK, HitsOK, OneRevision, DayStages
  <2>6. ViewOK'
    BY <2>1, <2>2, <2>4, NoViewType, StagesApart DEF ViewOK, DayStages
  <2> QED BY <2>5, <2>6 DEF IInv
<1>2. CASE LoadSources
  <2> DEFINE v == [view EXCEPT !.sources = [s \in Providers |-> IF s \in Names THEN sources[s] ELSE None]]
  <2>1. v \in Views /\ v.prior = view.prior
    BY <1>0 DEF Views, TypeOK
  <2> QED BY <1>2, <1>0, <2>1, SelectTypes DEF LoadSources, DayStages, Select
<1>3. CASE LoadIdentifiers
  <2> DEFINE rows == {row \in Universe : row.uuid = None}
             values == {row.isin : row \in rows} \cup {row.ticker : row \in rows}
             v == [view EXCEPT !.hits = {h \in hits : h.value \in values}]
  <2>1. v \in Views /\ v.prior = view.prior
    BY <1>0 DEF Views, TypeOK
  <2>2. Select("identifiers", "instruments", v)
    BY <1>3 DEF LoadIdentifiers
  <2> HIDE DEF v
  <2> QED BY <1>0, <2>1, <2>2, SelectTypes DEF DayStages, Select
<1>4. CASE LoadInstruments
  <2> DEFINE v == [view EXCEPT !.existing = Uuids \cap Created]
  <2>1. v \in Views /\ v.prior = view.prior
    BY <1>0 DEF Views
  <2>2. Select("instruments", "quotes", v)
    BY <1>4 DEF LoadInstruments
  <2> HIDE DEF v
  <2> QED BY <1>0, <2>1, <2>2, SelectTypes DEF DayStages, Select
<1>5. CASE LoadQuotes
  <2> DEFINE found == {q \in quotes : q.instrument \in UniqueIds /\ q.date = ask.date}
             v == [view EXCEPT !.quotes = {Newest(OfKey(found, Key(q))) : q \in found}]
  <2>1. \A q \in found : Newest(OfKey(found, Key(q))) \in Quotes
    <3>1. \A q \in found : OfKey(found, Key(q)) \in SUBSET Quotes /\ OfKey(found, Key(q)) # {}
      BY <1>k DEF OfKey
    <3> HIDE DEF found
    <3> QED BY <3>1, NewestFacts
  <2>2. v \in Views /\ v.prior = view.prior
    <3> HIDE DEF found
    <3> QED BY <1>0, <2>1 DEF Views
  <2>3. Select("quotes", "prior", v)
    BY <1>5 DEF LoadQuotes
  <2> HIDE DEF v
  <2> QED BY <1>0, <2>2, <2>3, SelectTypes DEF DayStages, Select
<1>6. CASE LoadPrior
  <2> DEFINE found == {q \in quotes : q.instrument \in UniqueIds /\ q.date < ask.date}
             P == {<<Key(q), Latest(DatesOf(OfKey(found, Key(q))))>> : q \in found}
             v == [view EXCEPT !.prior = P]
  <2>1. ASSUME NEW q \in found
        PROVE  /\ Key(q) \in Instruments \X PriceTypes \X Providers
               /\ Latest(DatesOf(OfKey(found, Key(q)))) \in Dates
               /\ Latest(DatesOf(OfKey(found, Key(q)))) < ask.date
    <3>1. DatesOf(OfKey(found, Key(q))) \in SUBSET Dates /\ DatesOf(OfKey(found, Key(q))) # {}
      BY <1>k DEF OfKey, DatesOf
    <3>2. \A d \in DatesOf(OfKey(found, Key(q))) : d < ask.date
      BY DEF OfKey, DatesOf
    <3>3. Latest(DatesOf(OfKey(found, Key(q)))) \in DatesOf(OfKey(found, Key(q)))
      BY <3>1, LatestFacts
    <3> QED BY <1>k, <3>1, <3>2, <3>3
  <2>2. P \subseteq (Instruments \X PriceTypes \X Providers) \X Dates /\ \A p \in P : p[2] < ask.date
    <3> HIDE DEF found
    <3> QED BY <2>1
  <2>3. Select("prior", "ingest", v)
    BY <1>6 DEF LoadPrior
  <2> HIDE DEF P
  <2>4. v \in Views /\ v.prior = P
    BY <1>0, <2>2 DEF Views
  <2> HIDE DEF v
  <2> QED BY <1>0, <2>2, <2>3, <2>4, SelectTypes DEF DayStages, Select
<1>7. CASE LoadIngest
  <2> DEFINE v == [view EXCEPT !.ingested = {s \in Names : <<s, ask.date>> \in runs}]
  <2>1. {s \in Names : <<s, ask.date>> \in runs} \subseteq Providers
    BY <1>0 DEF TypeOK
  <2>2. v \in Views /\ v.prior = view.prior
    BY <1>0, <2>1 DEF Views
  <2>3. Select("ingest", "absent", v)
    BY <1>7 DEF LoadIngest
  <2> HIDE DEF v
  <2> QED BY <1>0, <2>2, <2>3, SelectTypes DEF DayStages, Select
<1>8. CASE LoadNoPublic
  <2> DEFINE v == [view EXCEPT !.absent = {i \in UniqueIds : <<i, ask.date>> \in absent}]
  <2>1. v \in Views /\ v.prior = view.prior
    BY <1>0 DEF Views
  <2>2. Select("absent", "evaluate", v)
    BY <1>8 DEF LoadNoPublic
  <2> HIDE DEF v
  <2> QED BY <1>0, <2>1, <2>2, SelectTypes DEF DayStages, Select
<1>9. CASE Evaluate
  <2>1. /\ stage = "evaluate" /\ stage' = "idle" /\ view' = NoView /\ UNCHANGED <<tables, span>>
        /\ report' = [date |-> ask.date, public |-> ask.public, version |-> commits,
                      began |-> began, answer |-> [row \in Universe |-> Cached(row)]]
    BY <1>9 DEF Evaluate
  <2>2. [row \in Universe |-> Cached(row)] \in [Universe -> Answers]
    BY <1>0, <2>1, CachedType DEF DayStages
  <2>3. report' \in Reports
    <3>1. commits \in 0..MaxCommits /\ ask.date \in Dates /\ ask.public \in BOOLEAN /\ began \in Beginnings
      BY <1>0, <2>1 DEF TypeOK, DayStages
    <3> QED BY <2>1, <2>2, <3>1 DEF Reports
  <2>4. TypeOK' /\ HitsOK' /\ OneRevision'
    BY <1>0, <2>1, <2>3 DEF tables, db, TypeOK, HitsOK, OneRevision
  <2>5. ViewOK'
    BY <2>1, NoViewType, StagesApart DEF ViewOK
  <2> QED BY <2>4, <2>5 DEF IInv
<1>10. ASSUME NEW filter \in Providers \cup {None}, BeginSpan(filter) PROVE IInv'
  <2>1. /\ stage' = "span_instruments" /\ ask' = [filter |-> filter] /\ began' = [version |-> commits]
        /\ view' = NoView /\ UNCHANGED <<tables, report, span>>
    BY <1>10 DEF BeginSpan
  <2>2. TypeOK' /\ HitsOK' /\ OneRevision'
    BY <1>0, <2>1 DEF tables, db, TypeOK, HitsOK, OneRevision, SpanStages
  <2>3. ViewOK'
    BY <1>0, <2>1, NoViewType, StagesApart DEF ViewOK, SpanStages, TypeOK
  <2> QED BY <2>2, <2>3 DEF IInv
<1>11. CASE SpanInstruments
  <2> DEFINE v == [view EXCEPT !.existing = Uuids \cap Created]
  <2>1. v \in Views
    BY <1>0 DEF Views
  <2>2. Select("span_instruments", "span_identifiers", v)
    BY <1>11 DEF SpanInstruments
  <2> HIDE DEF v
  <2> QED BY <1>0, <2>1, <2>2, SelectTypes DEF SpanStages
<1>12. CASE SpanIdentifiers
  <2> DEFINE values == {row.isin : row \in Universe} \cup {row.ticker : row \in Universe}
             H == {h \in hits : h.value \in values /\ (ask.filter = None \/ h.source = ask.filter)}
             v == [view EXCEPT !.hits = H]
             to == IF ask.filter = "b3" THEN "span_quotes" ELSE "span_aliases"
  <2>1. H \subseteq Hits
    BY <1>0 DEF TypeOK
  <2>2. Select("span_identifiers", to, v)
    BY <1>12 DEF SpanIdentifiers
  <2> HIDE DEF H
  <2>3. v \in Views /\ to \in SpanStages
    BY <1>0, <2>1 DEF Views, SpanStages
  <2> HIDE DEF v, to
  <2> QED BY <1>0, <2>2, <2>3, SelectTypes DEF SpanStages
<1>13. CASE SpanAliases
  <2> DEFINE H == {h \in hits : /\ h.value \in {row.alias : row \in Universe}
                                /\ h.type \in LookupTypes /\ h.source = "yahoo"}
             v == [view EXCEPT !.aliases = H]
  <2>1. H \subseteq Hits
    BY <1>0 DEF TypeOK
  <2>2. Select("span_aliases", "span_quotes", v)
    BY <1>13 DEF SpanAliases
  <2> HIDE DEF H
  <2>3. v \in Views
    BY <1>0, <2>1 DEF Views
  <2> HIDE DEF v
  <2> QED BY <1>0, <2>2, <2>3, SelectTypes DEF SpanStages
<1>14. CASE SpanQuotes
  <2> DEFINE own == [row \in Universe |-> IF ask.filter = "yahoo" /\ row.alias # None THEN None
                                          ELSE SpanOf(SpanOwn(row), SpanSource(row))]
             alias == [row \in Universe |-> IF ask.filter = "b3" \/ row.alias = None THEN None
                                            ELSE SpanOf(SpanAlias(row), "yahoo")]
  <2>1. own \in [Universe -> Spans \cup {None}] /\ alias \in [Universe -> Spans \cup {None}]
    BY <1>0, SpanType
  <2>2. /\ stage = "span_quotes" /\ stage' = "idle" /\ view' = NoView /\ UNCHANGED <<tables, report>>
        /\ span' = [version |-> commits, began |-> began.version, filter |-> ask.filter,
                    own |-> own, alias |-> alias]
    BY <1>14 DEF SpanQuotes
  <2> HIDE DEF own, alias
  <2>3. span' \in Summaries
    <3>1. commits \in 0..MaxCommits /\ began.version \in 0..MaxCommits /\ ask.filter \in Providers \cup {None}
      BY <1>0, <2>2 DEF TypeOK, SpanStages
    <3> QED BY <2>1, <2>2, <3>1 DEF Summaries
  <2>4. TypeOK' /\ HitsOK' /\ OneRevision'
    BY <1>0, <2>2, <2>3 DEF tables, db, TypeOK, HitsOK, OneRevision
  <2>5. ViewOK'
    BY <2>2, NoViewType, StagesApart DEF ViewOK
  <2> QED BY <2>4, <2>5 DEF IInv
<1> QED BY <1>1, <1>2, <1>3, <1>4, <1>5, <1>6, <1>7, <1>8, <1>9, <1>10, <1>11, <1>12, <1>13, <1>14 DEF Read


LEMMA InvStep == ASSUME IInv, [Next]_vars PROVE IInv'
<1>1. CASE Load
  <2>1. Grows /\ HitsOK' /\ OneRevision'
    BY <1>1, LoadStep DEF IInv
  <2>2. TypeOK' /\ ViewOK'
    BY <2>1 DEF IInv, TypeOK, ViewOK, Grows, reader
  <2> QED BY <2>1, <2>2 DEF IInv
<1>2. CASE Read
  BY <1>2, ReadStep
<1>3. CASE UNCHANGED vars
  BY <1>3 DEF vars, tables, db, reader, IInv, TypeOK, HitsOK, OneRevision, ViewOK
<1> QED BY <1>1, <1>2, <1>3 DEF Next

LEMMA Invariance == Spec => []IInv
<1>1. Init => IInv
  <2> SUFFICES ASSUME Init PROVE IInv
    OBVIOUS
  <2>1. TypeOK /\ HitsOK /\ OneRevision
    BY BoundsAssumption DEF Init, TypeOK, HitsOK, OneRevision
  <2>2. ViewOK
    BY NoViewType, StagesApart DEF Init, ViewOK
  <2> QED BY <2>1, <2>2 DEF IInv
<1> QED BY <1>1, InvStep, PTL DEF Spec

\* The tables, reports and summaries keep their types.
THEOREM TypeCorrect == Spec => []TypeOK
<1>1. IInv => TypeOK
  BY DEF IInv
<1> QED BY <1>1, Invariance, PTL

-------------------------------------------------------------------------------
(* No price is lost *)

\* i is an instrument a row may mean: of its provider, with its ISIN or ticker.
Fits(row, i) ==
    /\ Home[i] = row.provider
    /\ \/ row.isin # None /\ <<"ISIN", row.isin>> \in Known[i]
       \/ \E t \in LookupTypes : <<t, row.ticker>> \in Known[i]

\* The ISIN and the ticker of a row do not belong to two instruments.
OneInstrumentPerRow ==
    \A row \in Universe : \A i, j \in Instruments : Fits(row, i) /\ Fits(row, j) => i = j

LEMMA ResolveKeeps ==
    ASSUME HitsOK, HitsOK', hits \subseteq hits', hits \subseteq Hits, hits' \subseteq Hits, OneInstrumentPerRow,
           NEW row \in Universe, row.provider # None, NEW i,
           ResolveRow(row, hits, Created, row.provider) = {i}
    PROVE  ResolveRow(row, hits', Created', row.provider) = {i}
<1> DEFINE p == row.provider
           isin == Ids(hits, {"ISIN"}, row.isin, p)
           isin2 == Ids(hits', {"ISIN"}, row.isin, p)
           tick == Ids(hits, LookupTypes, row.ticker, p)
           tick2 == Ids(hits', LookupTypes, row.ticker, p)
<1>1. CASE row.uuid # None
  <2>1. Created \subseteq Created'
    BY DEF Created
  <2> QED BY <1>1, <2>1 DEF ResolveRow
<1>2. CASE row.uuid = None
  <2>1. isin \subseteq isin2 /\ tick \subseteq tick2
    BY DEF Ids
  <2>2. row.isin # None => \A j \in isin2 : j \in Instruments /\ Fits(row, j)
    BY DEF Ids, Fits, HitsOK, Hits
  <2>3. \A j \in tick2 : j \in Instruments /\ Fits(row, j)
    BY DEF Ids, Fits, HitsOK, Hits
  <2>4. ResolveRow(row, hits, Created, p) =
          IF row.isin # None /\ isin # {} THEN isin ELSE IF row.ticker = None THEN {} ELSE tick
    BY <1>2 DEF ResolveRow
  <2>5. ResolveRow(row, hits', Created', p) =
          IF row.isin # None /\ isin2 # {} THEN isin2 ELSE IF row.ticker = None THEN {} ELSE tick2
    BY <1>2 DEF ResolveRow
  <2> HIDE DEF isin, isin2, tick, tick2
  <2>6. \/ row.isin # None /\ i \in isin
        \/ row.ticker # None /\ i \in tick /\ ~(row.isin # None /\ isin # {})
    BY <2>4
  <2>7. i \in Instruments /\ Fits(row, i)
    BY <2>1, <2>2, <2>3, <2>6
  <2>8. row.isin # None => isin2 \subseteq {i}
    BY <2>2, <2>7 DEF OneInstrumentPerRow
  <2>9. tick2 \subseteq {i}
    BY <2>3, <2>7 DEF OneInstrumentPerRow
  <2> QED BY <2>1, <2>5, <2>6, <2>8, <2>9
<1> QED BY <1>1, <1>2

\* A row without UUID resolves in the identifiers that were read as in all of
\* them; the created instruments do not matter to it.
LEMMA ResolveSeen ==
    ASSUME NEW row, row.uuid = None, NEW hs, NEW values, row.isin \in values, row.ticker \in values,
           NEW ex, NEW ex2, NEW s
    PROVE  ResolveRow(row, {h \in hs : h.value \in values}, ex, s) = ResolveRow(row, hs, ex2, s)
<1>1. \A types : /\ Ids({h \in hs : h.value \in values}, types, row.isin, s) = Ids(hs, types, row.isin, s)
                 /\ Ids({h \in hs : h.value \in values}, types, row.ticker, s) = Ids(hs, types, row.ticker, s)
  BY DEF Ids
<1> QED BY <1>1 DEF ResolveRow

LEMMA ExpectedProvider == ASSUME NEW row, Expected(row) # None PROVE row.provider \in Providers /\ row.provider # None
  BY NoneAssumption DEF Expected, Providers

AfterQuotes == {"prior", "ingest", "absent", "evaluate"}
AfterInstruments == {"quotes"} \cup AfterQuotes
AfterIdentifiers == {"instruments"} \cup AfterInstruments

\* Where the price q of a row is while a report is being read.
Held(row, q) ==
    /\ Expected(row) # None /\ row.provider # None
    /\ q \in quotes /\ q.positive /\ q.date = ask.date
    /\ Key(q) = <<q.instrument, Expected(row), row.provider>>
    /\ ResolveRow(row, hits, Created, row.provider) = {q.instrument}
    /\ stage \in AfterIdentifiers /\ row.uuid = None => Resolved(row) = {q.instrument}
    /\ stage \in AfterInstruments => Resolved(row) = {q.instrument}
    /\ stage \in AfterQuotes => \E p \in view.quotes : Key(p) = Key(q) /\ q.revision <= p.revision

CaughtInv ==
    /\ stage \in DayStages => \A row \in Universe :
         began.direct[row].reason = "NONE" => Held(row, began.direct[row].price)
    /\ stage \in AfterQuotes => \A p \in view.quotes : p \in quotes /\ p.date = ask.date
    /\ NoPriceLost

\* A row whose direct answer is a price resolves to the price's instrument.
LEMMA DirectPrice ==
    ASSUME TypeOK, NEW row \in Universe, NEW date \in Dates, NEW public, NEW price,
           Direct(row, date, public).reason = "NONE", price = Direct(row, date, public).price
    PROVE  /\ Expected(row) # None /\ row.provider # None
           /\ price \in quotes /\ price.positive /\ price.date = date
           /\ Key(price) = <<price.instrument, Expected(row), row.provider>>
           /\ ResolveRow(row, hits, Created, row.provider) = {price.instrument}
           /\ SourceOf(row, sources) # None /\ (public => SourceOf(row, sources).public)
<1> DEFINE ids == ResolveRow(row, hits, Created, row.provider)
           i == Only(ids)
           of == {q \in quotes : q.instrument = i /\ q.type = Expected(row) /\ q.source = row.provider}
           now == {q \in of : q.date = date}
           days == DatesOf({q \in of : q.date < date})
           store == [source |-> SourceOf(row, sources), ids |-> ids, quote |-> Newest(now),
                     noTrade |-> <<i, date>> \in absent \/ <<row.provider, date>> \in runs,
                     prior |-> Latest(days)]
<1>1. now \in SUBSET Quotes /\ days \in SUBSET Dates /\ \A d \in days : d < date
  BY DEF TypeOK, Quotes, DatesOf
<1>2. Direct(row, date, public) = Answer(row, date, public, store)
  BY DEF Direct
<1>3. \A q \in now : q \in quotes /\ q.instrument = i /\ q.type = Expected(row)
                     /\ q.source = row.provider /\ q.date = date
  OBVIOUS
<1>4. ids \in SUBSET Instruments
  BY ResolveType, CreatedType DEF TypeOK
<1> HIDE DEF now, days
<1>5. Newest(now) \in Quotes \cup {None} /\ Latest(days) \in Dates \cup {None}
      /\ (Latest(days) # None => Latest(days) < date)
  BY <1>1, NewestType, LatestType
<1>6. /\ store.quote = Newest(now) /\ store.prior = Latest(days) /\ store.ids = ids
      /\ store.source = SourceOf(row, sources)
  OBVIOUS
<1> HIDE DEF store, ids
<1>7. /\ Expected(row) # None /\ store.source # None /\ Only(store.ids) # None /\ store.quote # None
      /\ store.quote.positive /\ Direct(row, date, public).price = store.quote
      /\ public => store.source.public
  <2> DEFINE a == Answer(row, date, public, store)
  <2>1. store.quote \in Quotes \cup {None} /\ store.prior \in Dates \cup {None}
        /\ (store.prior # None => store.prior < date)
    BY <1>5, <1>6
  <2>2. a.reason = "NONE" =>
                /\ Expected(row) # None /\ store.source # None /\ Only(store.ids) # None
                /\ store.quote # None /\ store.quote.positive
                /\ a.price = store.quote
                /\ public => store.source.public
    BY <2>1, AnswerFacts
  <2> HIDE DEF a
  <2>3. Direct(row, date, public) = a
    BY <1>2 DEF a
  <2> QED BY <2>2, <2>3
<1>8. Newest(now) \in now
  BY <1>1, <1>6, <1>7, NewestType, NewestFacts
<1>9. ids = {Only(ids)}
  BY <1>4, <1>6, <1>7, OnlyFacts
<1> QED BY <1>3, <1>6, <1>7, <1>8, <1>9, ExpectedProvider DEF Key, ids


\* A commit takes no price and no resolution away.
LEMMA CaughtLoad == ASSUME IInv, CaughtInv, OneInstrumentPerRow, Load PROVE CaughtInv'
<1>1. Grows /\ HitsOK /\ HitsOK' /\ TypeOK
  BY LoadStep DEF IInv
<1>2. /\ stage' = stage /\ ask' = ask /\ view' = view /\ began' = began /\ report' = report
      /\ quotes \subseteq quotes' /\ hits \subseteq hits' /\ hits' \subseteq Hits /\ hits \subseteq Hits
  BY <1>1 DEF Grows, reader, TypeOK
<1>3. ASSUME NEW row \in Universe, NEW q, Held(row, q) PROVE Held(row, q)'
  <2>1. row.provider # None /\ ResolveRow(row, hits, Created, row.provider) = {q.instrument}
    BY <1>3 DEF Held
  <2>2. ResolveRow(row, hits', Created', row.provider) = {q.instrument}
    BY <1>1, <1>2, <2>1, ResolveKeeps
  <2>3. Resolved(row)' = Resolved(row)
    BY <1>2 DEF Resolved
  <2> QED BY <1>2, <1>3, <2>2, <2>3 DEF Held, Key
<1>4. NoPriceLost'
  BY <1>2 DEF CaughtInv, NoPriceLost, Key
<1> QED BY <1>2, <1>3, <1>4 DEF CaughtInv

\* Nor does a SELECT that reads neither identifiers, instruments nor quotes.
LEMMA CaughtSelect ==
    ASSUME CaughtInv, NEW from, NEW to, NEW v, Select(from, to, v),
           from \in DayStages, v.hits = view.hits, v.existing = view.existing, v.quotes = view.quotes,
           to \in AfterIdentifiers => from \in AfterIdentifiers,
           to \in AfterInstruments => from \in AfterInstruments,
           to \in AfterQuotes => from \in AfterQuotes
    PROVE  CaughtInv'
<1>1. /\ stage = from /\ stage' = to /\ view' = v
      /\ ask' = ask /\ began' = began /\ report' = report /\ hits' = hits /\ quotes' = quotes
  BY DEF Select, tables, db
<1>2. ASSUME NEW row \in Universe, NEW q, Held(row, q) PROVE Held(row, q)'
  <2>1. Resolved(row)' = Resolved(row)
    BY <1>1 DEF Resolved
  <2>2. Created' = Created
    BY <1>1 DEF Created
  <2> QED BY <1>1, <1>2, <2>1, <2>2 DEF Held, Key
<1>3. NoPriceLost'
  BY <1>1 DEF CaughtInv, NoPriceLost, Key
<1> QED BY <1>1, <1>2, <1>3 DEF CaughtInv

\* A reader that is not at a report.
LEMMA CaughtOther ==
    ASSUME CaughtInv, stage' \notin DayStages, report' = report, quotes' = quotes PROVE CaughtInv'
<1>1. AfterQuotes \subseteq DayStages
  BY DEF AfterQuotes, DayStages
<1>2. NoPriceLost'
  BY DEF CaughtInv, NoPriceLost, Key
<1> QED BY <1>1, <1>2 DEF CaughtInv

LEMMA StageOrder ==
    /\ AfterQuotes \subseteq DayStages /\ AfterInstruments \subseteq DayStages /\ AfterIdentifiers \subseteq DayStages
    /\ "sources" \in DayStages \ AfterIdentifiers /\ "identifiers" \in DayStages \ AfterIdentifiers
    /\ "sources" \notin AfterInstruments /\ "sources" \notin AfterQuotes
    /\ "identifiers" \notin AfterInstruments /\ "identifiers" \notin AfterQuotes
    /\ "instruments" \in AfterIdentifiers \ AfterInstruments /\ "instruments" \notin AfterQuotes
    /\ "quotes" \in AfterInstruments \ AfterQuotes /\ "quotes" \in AfterIdentifiers
    /\ \A s \in {"prior", "ingest", "absent", "evaluate"} :
         s \in AfterQuotes /\ s \in AfterInstruments /\ s \in AfterIdentifiers
  BY DEF AfterQuotes, AfterInstruments, AfterIdentifiers, DayStages

LEMMA CaughtBegin ==
    ASSUME IInv, CaughtInv, NEW date \in Dates, NEW public, BeginReport(date, public) PROVE CaughtInv'
<1>1. /\ stage' = "sources" /\ ask' = [date |-> date, public |-> public] /\ report' = report
      /\ began' = [version |-> commits, direct |-> [row \in Universe |-> Direct(row, date, public)]]
      /\ hits' = hits /\ quotes' = quotes
  BY DEF BeginReport, tables, db
<1>2. ASSUME NEW row \in Universe, NEW q, Direct(row, date, public).reason = "NONE",
             q = Direct(row, date, public).price
      PROVE  Held(row, q)'
  <2>1. /\ Expected(row) # None /\ row.provider # None
        /\ q \in quotes /\ q.positive /\ q.date = date
        /\ Key(q) = <<q.instrument, Expected(row), row.provider>>
        /\ ResolveRow(row, hits, Created, row.provider) = {q.instrument}
    BY <1>2, DirectPrice DEF IInv
  <2>2. Created' = Created
    BY <1>1 DEF Created
  <2> QED BY <1>1, <2>1, <2>2, StageOrder DEF Held, Key
<1>3. NoPriceLost'
  BY <1>1 DEF CaughtInv, NoPriceLost, Key
<1> QED BY <1>1, <1>2, <1>3, StageOrder DEF CaughtInv


LEMMA CaughtIdentifiers == ASSUME IInv, CaughtInv, LoadIdentifiers PROVE CaughtInv'
<1> DEFINE rows == {row \in Universe : row.uuid = None}
           values == {row.isin : row \in rows} \cup {row.ticker : row \in rows}
           v == [view EXCEPT !.hits = {h \in hits : h.value \in values}]
<1>1. Select("identifiers", "instruments", v)
  BY DEF LoadIdentifiers
<1>2. v.hits = {h \in hits : h.value \in values} /\ v.existing = view.existing
  BY DEF IInv, ViewOK, Views
<1>3. \A row \in Universe : row.uuid = None => row.isin \in values /\ row.ticker \in values
  OBVIOUS
<1> HIDE DEF v, values
<1>4. /\ stage = "identifiers" /\ stage' = "instruments" /\ view' = v /\ UNCHANGED <<ask, began, report, hits, quotes>>
  BY <1>1 DEF Select, tables, db
<1>5. ASSUME NEW row \in Universe, NEW q, Held(row, q) PROVE Held(row, q)'
  <2>1. Created' = Created
    BY <1>4 DEF Created
  <2>2. row.uuid = None => Resolved(row)' = ResolveRow(row, hits, Created, row.provider)
    BY <1>2, <1>3, <1>4, ResolveSeen DEF Resolved
  <2> QED BY <1>4, <1>5, <2>1, <2>2, StageOrder DEF Held, Key
<1>6. NoPriceLost'
  BY <1>4 DEF CaughtInv, NoPriceLost, Key
<1> QED BY <1>4, <1>5, <1>6, StageOrder DEF CaughtInv

LEMMA CaughtInstruments == ASSUME IInv, CaughtInv, LoadInstruments PROVE CaughtInv'
<1> DEFINE v == [view EXCEPT !.existing = Uuids \cap Created]
<1>1. Select("instruments", "quotes", v)
  BY DEF LoadInstruments
<1>2. v.hits = view.hits /\ v.existing = Uuids \cap Created
  BY DEF IInv, ViewOK, Views
<1> HIDE DEF v
<1>3. /\ stage = "instruments" /\ stage' = "quotes" /\ view' = v /\ UNCHANGED <<ask, began, report, hits, quotes>>
  BY <1>1 DEF Select, tables, db
<1>4. ASSUME NEW row \in Universe, NEW q, Held(row, q) PROVE Held(row, q)'
  <2>1. Created' = Created
    BY <1>3 DEF Created
  <2>2. CASE row.uuid = None
    <3>1. Resolved(row)' = Resolved(row)
      BY <1>2, <1>3, <2>2 DEF Resolved, ResolveRow
    <3> QED BY <1>3, <1>4, <2>1, <2>2, <3>1, StageOrder DEF Held, Key
  <2>3. CASE row.uuid # None
    <3>1. row.uuid \in Uuids
      BY <2>3 DEF Uuids
    <3>2. Resolved(row)' = ResolveRow(row, hits, Created, row.provider)
      BY <1>2, <1>3, <2>3, <3>1 DEF Resolved, ResolveRow
    <3> QED BY <1>3, <1>4, <2>1, <2>3, <3>2, StageOrder DEF Held, Key
  <2> QED BY <2>2, <2>3
<1>5. NoPriceLost'
  BY <1>3 DEF CaughtInv, NoPriceLost, Key
<1> QED BY <1>3, <1>4, <1>5, StageOrder DEF CaughtInv

LEMMA CaughtQuotes == ASSUME IInv, CaughtInv, LoadQuotes PROVE CaughtInv'
<1> DEFINE found == {q \in quotes : q.instrument \in UniqueIds /\ q.date = ask.date}
           v == [view EXCEPT !.quotes = {Newest(OfKey(found, Key(q))) : q \in found}]
<1>1. Select("quotes", "prior", v)
  BY DEF LoadQuotes
<1>2. /\ v.hits = view.hits /\ v.existing = view.existing
      /\ v.quotes = {Newest(OfKey(found, Key(q))) : q \in found}
  BY DEF IInv, ViewOK, Views
<1>3. ASSUME NEW q \in found
      PROVE  LET n == Newest(OfKey(found, Key(q)))
             IN  n \in quotes /\ n.date = ask.date /\ Key(n) = Key(q) /\ q.revision <= n.revision
  <2>1. OfKey(found, Key(q)) \in SUBSET Quotes /\ q \in OfKey(found, Key(q))
    BY DEF OfKey, IInv, TypeOK
  <2>2. \A p \in OfKey(found, Key(q)) : p \in quotes /\ p.date = ask.date /\ Key(p) = Key(q)
    BY DEF OfKey
  <2> HIDE DEF found
  <2> QED BY <2>1, <2>2, NewestFacts
<1>4. \A q \in quotes : q.instrument \in UniqueIds /\ q.date = ask.date => q \in found
  OBVIOUS
<1> HIDE DEF v, found
<1>5. /\ stage = "quotes" /\ stage' = "prior" /\ view' = v /\ UNCHANGED <<ask, began, report, hits, quotes>>
  BY <1>1 DEF Select, tables, db
<1>6. ASSUME NEW row \in Universe, NEW q, Held(row, q) PROVE Held(row, q)'
  <2>1. Created' = Created /\ Resolved(row)' = Resolved(row)
    BY <1>2, <1>5 DEF Created, Resolved
  <2>2. q \in quotes /\ q.date = ask.date /\ Resolved(row) = {q.instrument}
    BY <1>5, <1>6, StageOrder DEF Held
  <2>3. q \in found
    BY <1>4, <2>2 DEF UniqueIds
  <2>4. \E p \in v.quotes : Key(p) = Key(q) /\ q.revision <= p.revision
    BY <1>2, <1>3, <2>3
  <2> QED BY <1>5, <1>6, <2>1, <2>2, <2>4 DEF Held, Key
<1>7. \A p \in v.quotes : p \in quotes /\ p.date = ask.date
  BY <1>2, <1>3
<1>8. NoPriceLost'
  BY <1>5 DEF CaughtInv, NoPriceLost, Key
<1> QED BY <1>5, <1>6, <1>7, <1>8, StageOrder DEF CaughtInv

\* A price that was held is answered, withheld by a switch, or followed by a newer row.
LEMMA HeldAnswered ==
    ASSUME IInv, CaughtInv, stage = "evaluate", NEW row \in Universe, NEW q, Held(row, q)
    PROVE  \/ Cached(row).reason = "NONE" /\ q.revision <= Cached(row).price.revision
           \/ Cached(row).reason \in {"SOURCE_UNAVAILABLE", "REDISTRIBUTION_RESTRICTED"}
           \/ /\ Cached(row).reason = "INVALID_VALUE"
              /\ \E p \in quotes : Key(p) = Key(q) /\ p.date = q.date /\ p.revision > q.revision /\ ~p.positive
<1> DEFINE ids == Resolved(row)
           key == <<Only(ids), Expected(row), row.provider>>
           now == OfKey(view.quotes, key)
           days == {p[2] : p \in {r \in view.prior : r[1] = key}}
           store == [source |-> SourceOf(row, view.sources), ids |-> ids, quote |-> Newest(now),
                     noTrade |-> Only(ids) \in view.absent \/ row.provider \in view.ingested,
                     prior |-> Latest(days)]
<1>1. /\ Expected(row) # None /\ q \in quotes /\ q.positive /\ q.date = ask.date
      /\ Key(q) = <<q.instrument, Expected(row), row.provider>>
      /\ Resolved(row) = {q.instrument}
      /\ \E p \in view.quotes : Key(p) = Key(q) /\ q.revision <= p.revision
  BY StageOrder DEF Held
<1>2. q \in Quotes /\ q.instrument \in Instruments /\ view.quotes \subseteq Quotes
  BY <1>1 DEF IInv, TypeOK, Quotes, ViewOK, Views
<1>3. Only(ids) = q.instrument /\ Only(ids) # None
  <2>1. ids = {q.instrument} /\ ids \in SUBSET Instruments
    BY <1>1, <1>2
  <2> HIDE DEF ids
  <2>2. Only(ids) = q.instrument
    BY <2>1, OnlyFacts
  <2> QED BY <1>2, <2>2, InstrumentsAssumption
<1>4. key = Key(q)
  BY <1>1, <1>3
<1>5. PICK p \in now : q.revision <= p.revision
  BY <1>1, <1>4 DEF OfKey
<1> DEFINE n == Newest(now)
<1>6. n \in now /\ n # None /\ \A r \in now : r.revision <= n.revision
  <2>1. now \in SUBSET Quotes /\ now # {}
    BY <1>2, <1>5 DEF OfKey
  <2> HIDE DEF now
  <2> QED BY <2>1, NewestFacts
<1>7. n \in quotes /\ n.date = q.date /\ Key(n) = Key(q) /\ n \in Quotes
  BY <1>1, <1>2, <1>4, <1>6, StageOrder DEF OfKey, CaughtInv
<1>8. q.revision <= n.revision /\ q.revision \in Nat /\ n.revision \in Nat
  <2>1. \A r \in Quotes : r.revision \in Nat
    BY BoundsAssumption DEF Quotes
  <2>2. p \in Quotes
    BY <1>2, <1>5 DEF OfKey
  <2>3. p.revision <= n.revision
    BY <1>5, <1>6
  <2> QED BY <1>2, <1>5, <1>7, <2>1, <2>2, <2>3
<1>9. Cached(row) = Answer(row, ask.date, ask.public, store)
  BY DEF Cached
<1>10. days \in SUBSET Dates /\ \A d \in days : d < ask.date
  <2>1. view.prior \subseteq (Instruments \X PriceTypes \X Providers) \X Dates
    BY DEF IInv, ViewOK, Views
  <2>2. \A r \in view.prior : r[2] \in Dates /\ r[2] < ask.date
    BY <2>1 DEF IInv, ViewOK, DayStages
  <2> QED BY <2>2
<1>11. store.quote = n /\ store.prior = Latest(days) /\ store.ids = ids
  OBVIOUS
<1>12. ask.date \in Dates
  BY DEF IInv, ViewOK, DayStages
<1> HIDE DEF store, days, n, now, ids, key
<1>13. store.prior \in Dates \cup {None} /\ (store.prior # None => store.prior < ask.date)
  BY <1>10, <1>11, LatestType
<1>14. \/ Cached(row).reason = "NONE" /\ Cached(row).price = n
       \/ Cached(row).reason \in {"SOURCE_UNAVAILABLE", "REDISTRIBUTION_RESTRICTED"}
       \/ Cached(row).reason = "INVALID_VALUE" /\ ~n.positive
  <2> DEFINE a == Answer(row, ask.date, ask.public, store)
  <2>1. store.quote \in Quotes \cup {None}
    BY <1>7, <1>11
  <2>2. a.reason = "NONE" => a.price = store.quote
    BY <1>12, <1>13, <2>1, AnswerFacts
  <2>3. Expected(row) # None /\ Only(store.ids) # None /\ store.quote # None =>
          \/ a.reason = "NONE" \/ a.reason \in {"SOURCE_UNAVAILABLE", "REDISTRIBUTION_RESTRICTED"}
          \/ a.reason = "INVALID_VALUE" /\ ~store.quote.positive
    BY <1>12, <1>13, <2>1, AnswerFacts
  <2> HIDE DEF a
  <2>4. Cached(row) = a
    BY <1>9 DEF a
  <2> QED BY <1>1, <1>3, <1>6, <1>11, <2>2, <2>3, <2>4
<1>15. ~n.positive => n.revision > q.revision
  <2>1. n.revision = q.revision => n = q
    BY <1>1, <1>7 DEF IInv, OneRevision
  <2> QED BY <1>1, <1>8, <2>1
<1> QED BY <1>7, <1>8, <1>14, <1>15

LEMMA CaughtEvaluate == ASSUME IInv, CaughtInv, Evaluate PROVE CaughtInv'
<1>1. /\ stage = "evaluate" /\ stage' = "idle" /\ quotes' = quotes
      /\ report' = [date |-> ask.date, public |-> ask.public, version |-> commits,
                    began |-> began, answer |-> [row \in Universe |-> Cached(row)]]
  BY DEF Evaluate, tables, db
<1>2. ASSUME NEW row \in Universe, began.direct[row].reason = "NONE"
      PROVE  LET q == began.direct[row].price
             IN  \/ Cached(row).reason = "NONE" /\ q.revision <= Cached(row).price.revision
                 \/ Cached(row).reason \in {"SOURCE_UNAVAILABLE", "REDISTRIBUTION_RESTRICTED"}
                 \/ /\ Cached(row).reason = "INVALID_VALUE"
                    /\ \E p \in quotes : Key(p) = Key(q) /\ p.date = q.date /\ p.revision > q.revision /\ ~p.positive
  <2>1. Held(row, began.direct[row].price)
    BY <1>1, <1>2 DEF CaughtInv, DayStages
  <2> QED BY <1>1, <2>1, HeldAnswered
<1>3. NoPriceLost'
  <2>1. report'.began = began /\ \A row \in Universe : report'.answer[row] = Cached(row)
    BY <1>1
  <2> QED BY <1>1, <1>2, <2>1 DEF NoPriceLost, Key
<1>4. "idle" \notin DayStages /\ "idle" \notin AfterQuotes
  BY DEF DayStages, AfterQuotes
<1> QED BY <1>1, <1>3, <1>4 DEF CaughtInv


LEMMA CaughtStep == ASSUME IInv, CaughtInv, OneInstrumentPerRow, [Next]_vars PROVE CaughtInv'
<1>1. CASE Load
  BY <1>1, CaughtLoad
<1>2. ASSUME NEW question \in Asked, BeginReport(question[1], question[2]) PROVE CaughtInv'
  <2>1. question[1] \in Dates
    BY DatesAssumption
  <2> QED BY <1>2, <2>1, CaughtBegin
<1>3. CASE LoadSources
  <2> DEFINE v == [view EXCEPT !.sources = [s \in Providers |-> IF s \in Names THEN sources[s] ELSE None]]
  <2>1. v.hits = view.hits /\ v.existing = view.existing /\ v.quotes = view.quotes
    BY DEF IInv, ViewOK, Views
  <2>2. Select("sources", "identifiers", v)
    BY <1>3 DEF LoadSources
  <2> HIDE DEF v
  <2> QED BY <2>1, <2>2, CaughtSelect, StageOrder
<1>4. CASE LoadPrior
  <2> DEFINE found == {q \in quotes : q.instrument \in UniqueIds /\ q.date < ask.date}
             P == {<<Key(q), Latest(DatesOf(OfKey(found, Key(q))))>> : q \in found}
             v == [view EXCEPT !.prior = P]
  <2>2. Select("prior", "ingest", v)
    BY <1>4 DEF LoadPrior
  <2> HIDE DEF P
  <2>1. v.hits = view.hits /\ v.existing = view.existing /\ v.quotes = view.quotes
    BY DEF IInv, ViewOK, Views
  <2> HIDE DEF v
  <2> QED BY <2>1, <2>2, CaughtSelect, StageOrder
<1>5. CASE LoadIngest
  <2> DEFINE v == [view EXCEPT !.ingested = {s \in Names : <<s, ask.date>> \in runs}]
  <2>1. v.hits = view.hits /\ v.existing = view.existing /\ v.quotes = view.quotes
    BY DEF IInv, ViewOK, Views
  <2>2. Select("ingest", "absent", v)
    BY <1>5 DEF LoadIngest
  <2> HIDE DEF v
  <2> QED BY <2>1, <2>2, CaughtSelect, StageOrder
<1>6. CASE LoadNoPublic
  <2> DEFINE v == [view EXCEPT !.absent = {i \in UniqueIds : <<i, ask.date>> \in absent}]
  <2>1. v.hits = view.hits /\ v.existing = view.existing /\ v.quotes = view.quotes
    BY DEF IInv, ViewOK, Views
  <2>2. Select("absent", "evaluate", v)
    BY <1>6 DEF LoadNoPublic
  <2> HIDE DEF v
  <2> QED BY <2>1, <2>2, CaughtSelect, StageOrder
<1>7. CASE SpanQuotes \/ SpanInstruments \/ SpanIdentifiers \/ SpanAliases
           \/ \E filter \in Providers \cup {None} : BeginSpan(filter)
  <2>1. stage' \notin DayStages /\ report' = report /\ quotes' = quotes
    BY <1>7 DEF SpanQuotes, SpanInstruments, SpanIdentifiers, SpanAliases, BeginSpan, Select, tables, db, DayStages
  <2> QED BY <2>1, CaughtOther
<1>8. CASE UNCHANGED vars
  <2>1. /\ stage' = stage /\ ask' = ask /\ view' = view /\ began' = began /\ report' = report
        /\ hits' = hits /\ quotes' = quotes
    BY <1>8 DEF vars, tables, db, reader
  <2>2. ASSUME NEW row \in Universe, NEW q, Held(row, q) PROVE Held(row, q)'
    BY <2>1, <2>2 DEF Held, Key, Resolved, Created
  <2> QED BY <2>1, <2>2 DEF CaughtInv, NoPriceLost, Key
<1> QED BY <1>1, <1>2, <1>3, <1>4, <1>5, <1>6, <1>7, <1>8, CaughtIdentifiers, CaughtInstruments,
           CaughtQuotes, CaughtEvaluate DEF Next, Read

\* A price a per-row query would have given when a report began is in the
\* report, withheld by a switch of its source, or followed by a newer revision,
\* whatever commits meanwhile, when no row's ISIN and ticker are of two instruments.
THEOREM PriceSafe == ASSUME OneInstrumentPerRow PROVE Spec => []NoPriceLost
<1>1. Init => CaughtInv
  BY DEF Init, CaughtInv, NoPriceLost, DayStages, AfterQuotes
<1>2. IInv /\ CaughtInv /\ [Next]_vars => CaughtInv'
  BY CaughtStep
<1>3. CaughtInv => NoPriceLost
  BY DEF CaughtInv
<1> QED BY <1>1, <1>2, <1>3, Invariance, PTL DEF Spec


-------------------------------------------------------------------------------
(* A report no commit overlapped is what a query for each row would say *)

RowKey(row) == <<Only(Resolved(row)), Expected(row), row.provider>>
On(key, date) == {q \in OfKey(quotes, key) : q.date = date}
EarlierThan(key, date) == DatesOf({q \in OfKey(quotes, key) : q.date < date})

\* What has been read so far, when nothing was committed since the beginning.
Fresh ==
    /\ stage # "sources" => \A s \in Names : view.sources[s] = sources[s]
    /\ \A row \in Universe :
         stage \in AfterInstruments \/ (stage \in AfterIdentifiers /\ row.uuid = None) =>
           Resolved(row) = ResolveRow(row, hits, Created, row.provider)
    /\ stage \in AfterQuotes => \A row \in Universe : Only(Resolved(row)) # None =>
         Newest(OfKey(view.quotes, RowKey(row))) = Newest(On(RowKey(row), ask.date))
    /\ stage \in {"ingest", "absent", "evaluate"} => \A row \in Universe : Only(Resolved(row)) # None =>
         Latest({p[2] : p \in {r \in view.prior : r[1] = RowKey(row)}}) = Latest(EarlierThan(RowKey(row), ask.date))
    /\ stage \in {"absent", "evaluate"} => \A s \in Names : s \in view.ingested <=> <<s, ask.date>> \in runs
    /\ stage = "evaluate" => \A i \in UniqueIds : i \in view.absent <=> <<i, ask.date>> \in absent

QuietInv ==
    /\ stage \in DayStages => began.version <= commits
    /\ report # None => report.version <= commits
    /\ stage \in DayStages /\ began.version = commits => Fresh
    /\ QuietReportExact

LEMMA AnswerSame ==
    ASSUME NEW row, NEW date, NEW public, NEW s1, NEW s2, s1.source = s2.source, s1.ids = s2.ids,
           Expected(row) # None /\ Only(s1.ids) # None =>
              s1.quote = s2.quote /\ s1.prior = s2.prior /\ (s1.noTrade <=> s2.noTrade)
    PROVE  Answer(row, date, public, s1) = Answer(row, date, public, s2)
<1>1. CASE Expected(row) = None
  BY <1>1 DEF Answer
<1>2. CASE Expected(row) # None /\ Only(s1.ids) = None
  BY <1>2 DEF Answer
<1>3. CASE Expected(row) # None /\ Only(s1.ids) # None
  BY <1>3 DEF Answer
<1> QED BY <1>1, <1>2, <1>3

LEMMA FreshAnswer ==
    ASSUME IInv, Fresh, stage = "evaluate", NEW row \in Universe
    PROVE  Cached(row) = Direct(row, ask.date, ask.public)
<1> DEFINE ids == Resolved(row)
           i == Only(ids)
           of == {q \in quotes : q.instrument = i /\ q.type = Expected(row) /\ q.source = row.provider}
           s1 == [source |-> SourceOf(row, view.sources), ids |-> ids,
                  quote |-> Newest(OfKey(view.quotes, RowKey(row))),
                  noTrade |-> i \in view.absent \/ row.provider \in view.ingested,
                  prior |-> Latest({p[2] : p \in {r \in view.prior : r[1] = RowKey(row)}})]
           s2 == [source |-> SourceOf(row, sources), ids |-> ids,
                  quote |-> Newest({q \in of : q.date = ask.date}),
                  noTrade |-> <<i, ask.date>> \in absent \/ <<row.provider, ask.date>> \in runs,
                  prior |-> Latest(DatesOf({q \in of : q.date < ask.date}))]
<1>1. ids = ResolveRow(row, hits, Created, row.provider)
  BY StageOrder DEF Fresh
<1>2. Cached(row) = Answer(row, ask.date, ask.public, s1)
  BY DEF Cached, RowKey
<1>3. Direct(row, ask.date, ask.public) = Answer(row, ask.date, ask.public, s2)
  BY <1>1 DEF Direct
<1>4. SourceOf(row, view.sources) = SourceOf(row, sources)
  BY DEF SourceOf, Fresh, Names
<1>5. ASSUME Expected(row) # None, i # None
      PROVE  /\ Newest(OfKey(view.quotes, RowKey(row))) = Newest({q \in of : q.date = ask.date})
             /\ Latest({p[2] : p \in {r \in view.prior : r[1] = RowKey(row)}}) =
                  Latest(DatesOf({q \in of : q.date < ask.date}))
             /\ i \in view.absent <=> <<i, ask.date>> \in absent
             /\ row.provider \in view.ingested <=> <<row.provider, ask.date>> \in runs
  <2>1. of = OfKey(quotes, RowKey(row))
    BY DEF OfKey, RowKey, Key
  <2>2. row.provider \in Names
    BY <1>5, ExpectedProvider DEF Names
  <2>3. i \in UniqueIds
    <3>1. Resolved(row) \in SUBSET Instruments
      BY ResolveType DEF Resolved, IInv, ViewOK, Views
    <3>2. i \in Resolved(row)
      BY <1>5, <3>1, OnlyFacts
    <3> QED BY <3>2 DEF UniqueIds
  <2> HIDE DEF of
  <2> QED BY <1>5, <2>1, <2>2, <2>3, StageOrder DEF Fresh, On, EarlierThan
<1>6. /\ s1.source = SourceOf(row, view.sources) /\ s2.source = SourceOf(row, sources)
      /\ s1.ids = ids /\ s2.ids = ids
      /\ s1.quote = Newest(OfKey(view.quotes, RowKey(row)))
      /\ s2.quote = Newest({q \in of : q.date = ask.date})
      /\ s1.prior = Latest({p[2] : p \in {r \in view.prior : r[1] = RowKey(row)}})
      /\ s2.prior = Latest(DatesOf({q \in of : q.date < ask.date}))
  OBVIOUS
<1>7. /\ s1.noTrade <=> (i \in view.absent \/ row.provider \in view.ingested)
      /\ s2.noTrade <=> (<<i, ask.date>> \in absent \/ <<row.provider, ask.date>> \in runs)
  OBVIOUS
<1> HIDE DEF s1, s2, of, ids
<1>8. Expected(row) # None /\ Only(s1.ids) # None =>
        s1.quote = s2.quote /\ s1.prior = s2.prior /\ (s1.noTrade <=> s2.noTrade)
  BY <1>5, <1>6, <1>7
<1> QED BY <1>2, <1>3, <1>4, <1>6, <1>8, AnswerSame


LEMMA DirectFrame ==
    ASSUME hits' = hits, quotes' = quotes, sources' = sources, runs' = runs, absent' = absent,
           NEW row, NEW date, NEW public
    PROVE  Direct(row, date, public)' = Direct(row, date, public)
  BY DEF Direct, Created

\* A step that leaves tables and report alone.
LEMMA QuietFrame ==
    ASSUME QuietInv, hits' = hits, quotes' = quotes, sources' = sources, runs' = runs, absent' = absent,
           commits' = commits, report' = report
    PROVE  (report' # None => report'.version <= commits') /\ QuietReportExact'
<1>1. QuietReportExact'
  BY DirectFrame DEF QuietInv, QuietReportExact, Quiet
<1> QED BY <1>1 DEF QuietInv

LEMMA QuietSelect ==
    ASSUME QuietInv, NEW from, NEW to, NEW v, Select(from, to, v), from \in DayStages, to \in DayStages,
           Fresh => Fresh'
    PROVE  QuietInv'
<1>1. /\ stage = from /\ stage' = to /\ began' = began /\ report' = report /\ commits' = commits
      /\ hits' = hits /\ quotes' = quotes /\ sources' = sources /\ runs' = runs /\ absent' = absent
  BY DEF Select, tables, db
<1>2. (report' # None => report'.version <= commits') /\ QuietReportExact'
  BY <1>1, QuietFrame
<1> QED BY <1>1, <1>2 DEF QuietInv

\* A commit makes the report an older one.
LEMMA QuietLoad == ASSUME IInv, QuietInv, Load PROVE QuietInv'
<1>1. /\ commits' = commits + 1 /\ stage' = stage /\ began' = began /\ report' = report /\ commits \in Nat
  BY LoadStep DEF IInv, Grows, reader, TypeOK
<1>2. stage \in DayStages => began.version \in Nat /\ began.version <= commits
  BY DEF IInv, ViewOK, Beginnings, QuietInv
<1>3. report # None => report.version \in Nat /\ report.version <= commits
  BY DEF IInv, TypeOK, Reports, QuietInv
<1>4. (stage' \in DayStages => began'.version <= commits' /\ began'.version # commits')
      /\ (report' # None => report'.version <= commits' /\ report'.version # commits')
  BY <1>1, <1>2, <1>3
<1>5. QuietReportExact'
  BY <1>4 DEF QuietReportExact, Quiet
<1> QED BY <1>4, <1>5 DEF QuietInv

LEMMA QuietBegin == ASSUME IInv, QuietInv, NEW date \in Dates, NEW public, BeginReport(date, public) PROVE QuietInv'
<1>1. /\ stage' = "sources" /\ report' = report /\ commits' = commits /\ began'.version = commits
      /\ hits' = hits /\ quotes' = quotes /\ sources' = sources /\ runs' = runs /\ absent' = absent
  BY DEF BeginReport, tables, db
<1>2. (report' # None => report'.version <= commits') /\ QuietReportExact'
  BY <1>1, QuietFrame
<1>3. Fresh'
  BY <1>1, StageOrder DEF Fresh
<1>4. commits \in Nat
  BY DEF IInv, TypeOK
<1> QED BY <1>1, <1>2, <1>3, <1>4 DEF QuietInv

LEMMA FreshSources == ASSUME IInv, LoadSources, Fresh PROVE Fresh'
<1> DEFINE v == [view EXCEPT !.sources = [s \in Providers |-> IF s \in Names THEN sources[s] ELSE None]]
<1>1. Select("sources", "identifiers", v)
  BY DEF LoadSources
<1>2. v.sources = [s \in Providers |-> IF s \in Names THEN sources[s] ELSE None]
  BY DEF IInv, ViewOK, Views
<1>3. Names \subseteq Providers
  BY UniverseAssumption DEF Names
<1> HIDE DEF v
<1>4. stage' = "identifiers" /\ view' = v /\ sources' = sources
  BY <1>1 DEF Select, tables, db
<1>5. \A s \in Names : view'.sources[s] = sources'[s]
  BY <1>2, <1>3, <1>4
<1> QED BY <1>4, <1>5, StageOrder DEF Fresh

LEMMA FreshIdentifiers == ASSUME IInv, LoadIdentifiers, Fresh PROVE Fresh'
<1> DEFINE rows == {row \in Universe : row.uuid = None}
           values == {row.isin : row \in rows} \cup {row.ticker : row \in rows}
           v == [view EXCEPT !.hits = {h \in hits : h.value \in values}]
<1>1. Select("identifiers", "instruments", v)
  BY DEF LoadIdentifiers
<1>2. v.hits = {h \in hits : h.value \in values} /\ v.existing = view.existing /\ v.sources = view.sources
  BY DEF IInv, ViewOK, Views
<1>3. \A row \in Universe : row.uuid = None => row.isin \in values /\ row.ticker \in values
  OBVIOUS
<1> HIDE DEF v, values
<1>4. /\ stage = "identifiers" /\ stage' = "instruments" /\ view' = v /\ UNCHANGED <<hits, sources>>
  BY <1>1 DEF Select, tables, db
<1>5. ASSUME NEW row \in Universe, row.uuid = None
      PROVE  Resolved(row)' = ResolveRow(row, hits, Created, row.provider)'
  <2>1. Created' = Created
    BY <1>4 DEF Created
  <2>2. row.isin \in values /\ row.ticker \in values
    BY <1>3, <1>5
  <2>3. ResolveRow(row, {h \in hits : h.value \in values}, view.existing, row.provider)
          = ResolveRow(row, hits, Created, row.provider)
    BY <1>5, <2>2, ResolveSeen
  <2>4. Resolved(row)' = ResolveRow(row, {h \in hits : h.value \in values}, view.existing, row.provider)
    BY <1>2, <1>4 DEF Resolved
  <2> QED BY <1>4, <2>1, <2>3, <2>4
<1> QED BY <1>2, <1>4, <1>5, StageOrder DEF Fresh

LEMMA FreshInstruments == ASSUME IInv, LoadInstruments, Fresh PROVE Fresh'
<1> DEFINE v == [view EXCEPT !.existing = Uuids \cap Created]
<1>1. Select("instruments", "quotes", v)
  BY DEF LoadInstruments
<1>2. v.hits = view.hits /\ v.existing = Uuids \cap Created /\ v.sources = view.sources
  BY DEF IInv, ViewOK, Views
<1> HIDE DEF v
<1>3. /\ stage = "instruments" /\ stage' = "quotes" /\ view' = v /\ UNCHANGED <<hits, sources>>
  BY <1>1 DEF Select, tables, db
<1>4. ASSUME NEW row \in Universe PROVE Resolved(row)' = ResolveRow(row, hits, Created, row.provider)'
  <2>1. Created' = Created
    BY <1>3 DEF Created
  <2>2. CASE row.uuid = None
    <3>1. Resolved(row)' = Resolved(row)
      BY <1>2, <1>3, <2>2 DEF Resolved, ResolveRow
    <3>2. Resolved(row) = ResolveRow(row, hits, Created, row.provider)
      BY <1>3, <2>2, StageOrder DEF Fresh
    <3> QED BY <1>3, <2>1, <3>1, <3>2
  <2>3. CASE row.uuid # None
    <3>1. row.uuid \in Uuids
      BY <2>3 DEF Uuids
    <3>2. Resolved(row)' = ResolveRow(row, hits, Created, row.provider)
      BY <1>2, <1>3, <2>3, <3>1 DEF Resolved, ResolveRow
    <3> QED BY <1>3, <2>1, <3>2
  <2> QED BY <2>2, <2>3
<1> QED BY <1>2, <1>3, <1>4, StageOrder DEF Fresh

\* The instruments of the SELECTs are those the rows resolve to.
LEMMA InUnique == ASSUME IInv, NEW row \in Universe, Only(Resolved(row)) # None PROVE Only(Resolved(row)) \in UniqueIds
<1>1. Resolved(row) \in SUBSET Instruments
  BY ResolveType DEF Resolved, IInv, ViewOK, Views
<1>2. Only(Resolved(row)) \in Resolved(row)
  BY <1>1, OnlyFacts
<1> QED BY <1>2 DEF UniqueIds

LEMMA FreshQuotes == ASSUME IInv, LoadQuotes, Fresh PROVE Fresh'
<1> DEFINE found == {q \in quotes : q.instrument \in UniqueIds /\ q.date = ask.date}
           best == {Newest(OfKey(found, Key(q))) : q \in found}
           v == [view EXCEPT !.quotes = best]
<1>1. Select("quotes", "prior", v)
  BY DEF LoadQuotes
<1>2. ASSUME NEW row \in Universe, Only(Resolved(row)) # None
      PROVE  Newest(OfKey(best, RowKey(row))) = Newest(On(RowKey(row), ask.date))
  <2> DEFINE key == RowKey(row)
             G == OfKey(found, key)
  <2>1. G = On(key, ask.date)
    BY <1>2, InUnique DEF OfKey, On, RowKey, Key
  <2>2. G \in SUBSET Quotes /\ \A q \in G : Key(q) = key
    BY DEF OfKey, IInv, TypeOK
  <2>3. \A q \in found : OfKey(found, Key(q)) \in SUBSET Quotes /\ q \in OfKey(found, Key(q))
                         /\ \A p \in OfKey(found, Key(q)) : Key(p) = Key(q)
    BY DEF OfKey, IInv, TypeOK
  <2>4. \A q \in found : (Key(q) = key <=> q \in G)
    BY DEF OfKey
  <2>g. \A q \in G : q \in found
    BY DEF OfKey
  <2> HIDE DEF found, key
  <2>5. \A q \in found : Key(Newest(OfKey(found, Key(q)))) = Key(q)
    BY <2>3, NewestFacts
  <2>6. CASE G = {}
    <3>1. \A x \in best : Key(x) # key
      <4> SUFFICES ASSUME NEW q \in found PROVE Key(Newest(OfKey(found, Key(q)))) # key
        OBVIOUS
      <4>1. q \notin G
        BY <2>6
      <4> QED BY <2>4, <2>5, <4>1
    <3>2. OfKey(best, key) = {}
      BY <3>1 DEF OfKey
    <3> QED BY <2>1, <2>6, <3>2 DEF key
  <2>7. CASE G # {}
    <3>1. \A x \in OfKey(best, key) : x = Newest(G)
      <4> SUFFICES ASSUME NEW q \in found, Key(Newest(OfKey(found, Key(q)))) = key
                   PROVE  Newest(OfKey(found, Key(q))) = Newest(G)
        BY DEF OfKey
      <4>1. Key(q) = key
        BY <2>5
      <4> QED BY <4>1
    <3>2. PICK q \in G : Key(q) = key /\ q \in found
      BY <2>2, <2>7, <2>g
    <3>3. Newest(G) \in best
      BY <3>2
    <3>4. Newest(G) \in G
      BY <2>2, <2>7, NewestFacts
    <3>5. OfKey(best, key) = {Newest(G)}
      BY <2>2, <3>1, <3>3, <3>4 DEF OfKey
    <3>6. Newest({Newest(G)}) = Newest(G)
      <4> HIDE DEF G
      <4> QED BY <2>2, <3>4, NewestOne
    <3> QED BY <2>1, <3>5, <3>6 DEF key
  <2> QED BY <2>6, <2>7
<1> HIDE DEF best
<1>3. v.hits = view.hits /\ v.existing = view.existing /\ v.sources = view.sources /\ v.quotes = best
  BY DEF IInv, ViewOK, Views
<1> HIDE DEF v
<1>4. /\ stage = "quotes" /\ stage' = "prior" /\ view' = v /\ UNCHANGED <<ask, hits, quotes, sources>>
  BY <1>1 DEF Select, tables, db
<1>5. \A row : Resolved(row)' = Resolved(row) /\ RowKey(row)' = RowKey(row)
  BY <1>3, <1>4 DEF Resolved, RowKey
<1>6. Created' = Created /\ \A key, date : On(key, date)' = On(key, date)
  BY <1>4 DEF Created, On
<1>7. \A row \in Universe : Resolved(row) = ResolveRow(row, hits, Created, row.provider)
  BY <1>4, StageOrder DEF Fresh
<1>8. \A row \in Universe : Only(Resolved(row)') # None =>
         Newest(OfKey(view'.quotes, RowKey(row)')) = Newest(On(RowKey(row), ask.date)')
  BY <1>2, <1>3, <1>4, <1>5, <1>6
<1> QED BY <1>3, <1>4, <1>5, <1>6, <1>7, <1>8, StageOrder DEF Fresh

\* What follows a SELECT that only a later one depends on.
LEMMA FreshFrame ==
    ASSUME NEW v, view' = v, v.hits = view.hits, v.existing = view.existing, v.sources = view.sources,
           ask' = ask, hits' = hits, quotes' = quotes, sources' = sources, runs' = runs, absent' = absent
    PROVE  /\ Created' = Created /\ UniqueIds' = UniqueIds
           /\ \A row : Resolved(row)' = Resolved(row) /\ RowKey(row)' = RowKey(row)
           /\ \A key, date : On(key, date)' = On(key, date) /\ EarlierThan(key, date)' = EarlierThan(key, date)
<1>1. \A row : Resolved(row)' = Resolved(row)
  BY DEF Resolved
<1> QED BY <1>1 DEF Created, On, EarlierThan, RowKey, UniqueIds

LEMMA LatestOne == ASSUME NEW d \in Dates PROVE Latest({d}) = d
  BY LatestFacts

LEMMA FreshPrior == ASSUME IInv, LoadPrior, Fresh PROVE Fresh'
<1> DEFINE found == {q \in quotes : q.instrument \in UniqueIds /\ q.date < ask.date}
           P == {<<Key(q), Latest(DatesOf(OfKey(found, Key(q))))>> : q \in found}
           v == [view EXCEPT !.prior = P]
<1>1. Select("prior", "ingest", v)
  BY DEF LoadPrior
<1>2. ASSUME NEW row \in Universe, Only(Resolved(row)) # None
      PROVE  Latest({p[2] : p \in {r \in P : r[1] = RowKey(row)}}) = Latest(EarlierThan(RowKey(row), ask.date))
  <2> DEFINE key == RowKey(row)
             G == OfKey(found, key)
             of == {p[2] : p \in {r \in P : r[1] = key}}
  <2>1. G = {q \in OfKey(quotes, key) : q.date < ask.date}
    BY <1>2, InUnique DEF OfKey, RowKey, Key
  <2>2. G \in SUBSET Quotes
    BY DEF OfKey, IInv, TypeOK
  <2>3. \A q \in found : (Key(q) = key <=> q \in G)
    BY DEF OfKey
  <2>4. \A q \in G : q \in found
    BY DEF OfKey
  <2>5. DatesOf(G) = EarlierThan(key, ask.date)
    BY <2>1 DEF EarlierThan
  <2> HIDE DEF found, key
  <2>6. CASE G = {}
    <3>1. \A q \in found : Key(q) # key
      BY <2>3, <2>6
    <3>2. of = {}
      BY <3>1
    <3>3. DatesOf(G) = {}
      BY <2>6 DEF DatesOf
    <3> QED BY <2>5, <3>2, <3>3 DEF key
  <2>7. CASE G # {}
    <3>1. DatesOf(G) \in SUBSET Dates /\ DatesOf(G) # {}
      BY <2>2, <2>7 DEF DatesOf, Quotes
    <3>2. Latest(DatesOf(G)) \in Dates
      BY <3>1, LatestFacts
    <3>3. PICK q \in G : Key(q) = key /\ q \in found
      BY <2>3, <2>4, <2>7
    <3>4. <<Key(q), Latest(DatesOf(OfKey(found, Key(q))))>> \in P
      BY <3>3
    <3>5. Latest(DatesOf(G)) \in of
      <4>1. <<key, Latest(DatesOf(G))>> \in {r \in P : r[1] = key}
        BY <3>3, <3>4
      <4> HIDE DEF P
      <4> QED BY <4>1
    <3>6. \A x \in of : x = Latest(DatesOf(G))
      <4> SUFFICES ASSUME NEW p \in found, Key(p) = key
                   PROVE  Latest(DatesOf(OfKey(found, Key(p)))) = Latest(DatesOf(G))
        OBVIOUS
      <4> QED OBVIOUS
    <3> HIDE DEF of, G
    <3>7. of = {Latest(DatesOf(G))}
      BY <3>5, <3>6
    <3>8. Latest(of) = Latest(DatesOf(G))
      BY <3>2, <3>7, LatestOne
    <3> QED BY <2>5, <3>8 DEF key, of
  <2> QED BY <2>6, <2>7
<1> HIDE DEF P
<1>3. v.hits = view.hits /\ v.existing = view.existing /\ v.sources = view.sources /\ v.quotes = view.quotes /\ v.prior = P
  BY DEF IInv, ViewOK, Views
<1> HIDE DEF v
<1>4. /\ stage = "prior" /\ stage' = "ingest" /\ view' = v /\ UNCHANGED <<ask, hits, quotes, sources, runs, absent>>
  BY <1>1 DEF Select, tables, db
<1>5. /\ Created' = Created
      /\ \A row : Resolved(row)' = Resolved(row) /\ RowKey(row)' = RowKey(row)
      /\ \A key, date : On(key, date)' = On(key, date) /\ EarlierThan(key, date)' = EarlierThan(key, date)
  BY <1>3, <1>4, FreshFrame
<1>6. \A row \in Universe : Resolved(row) = ResolveRow(row, hits, Created, row.provider)
  BY <1>4, StageOrder DEF Fresh
<1>7. \A row \in Universe : Only(Resolved(row)) # None =>
         Newest(OfKey(view.quotes, RowKey(row))) = Newest(On(RowKey(row), ask.date))
  BY <1>4, StageOrder DEF Fresh
<1>8. \A row \in Universe : Only(Resolved(row)') # None =>
         Latest({p[2] : p \in {r \in view'.prior : r[1] = RowKey(row)'}}) = Latest(EarlierThan(RowKey(row), ask.date)')
  BY <1>2, <1>3, <1>4, <1>5
<1> QED BY <1>3, <1>4, <1>5, <1>6, <1>7, <1>8, StageOrder DEF Fresh

\* What is known of rows and prices after the SELECT of the earlier dates.
LEMMA FreshCarried ==
    ASSUME Fresh, stage \in {"ingest", "absent"}, NEW v, view' = v, v.hits = view.hits, v.existing = view.existing,
           v.sources = view.sources, v.quotes = view.quotes, v.prior = view.prior,
           ask' = ask, hits' = hits, quotes' = quotes, sources' = sources, runs' = runs, absent' = absent,
           stage' \in {"absent", "evaluate"},
           \A s \in Names : s \in v.ingested <=> <<s, ask.date>> \in runs,
           stage' = "evaluate" => \A i \in UniqueIds : i \in v.absent <=> <<i, ask.date>> \in absent
    PROVE  Fresh'
<1>1. /\ Created' = Created /\ UniqueIds' = UniqueIds
      /\ \A row : Resolved(row)' = Resolved(row) /\ RowKey(row)' = RowKey(row)
      /\ \A key, date : On(key, date)' = On(key, date) /\ EarlierThan(key, date)' = EarlierThan(key, date)
  BY FreshFrame
<1>2. \A s \in Names : view'.sources[s] = sources'[s]
  BY DEF Fresh
<1>3. \A row \in Universe : Resolved(row)' = ResolveRow(row, hits, Created, row.provider)'
  <2>1. \A row \in Universe : Resolved(row) = ResolveRow(row, hits, Created, row.provider)
    BY StageOrder DEF Fresh
  <2> QED BY <1>1, <2>1
<1>4. \A row \in Universe : Only(Resolved(row)') # None =>
        /\ Newest(OfKey(view'.quotes, RowKey(row)')) = Newest(On(RowKey(row), ask.date)')
        /\ Latest({p[2] : p \in {r \in view'.prior : r[1] = RowKey(row)'}}) = Latest(EarlierThan(RowKey(row), ask.date)')
  <2>1. \A row \in Universe : Only(Resolved(row)) # None =>
        /\ Newest(OfKey(view.quotes, RowKey(row))) = Newest(On(RowKey(row), ask.date))
        /\ Latest({p[2] : p \in {r \in view.prior : r[1] = RowKey(row)}}) = Latest(EarlierThan(RowKey(row), ask.date))
    BY StageOrder DEF Fresh
  <2> QED BY <1>1, <2>1
<1>5. \A s \in Names : s \in view'.ingested <=> <<s, ask'.date>> \in runs'
  OBVIOUS
<1>6. stage' = "evaluate" => \A i \in UniqueIds' : i \in view'.absent <=> <<i, ask'.date>> \in absent'
  BY <1>1
<1> QED BY <1>2, <1>3, <1>4, <1>5, <1>6 DEF Fresh

LEMMA FreshIngest == ASSUME IInv, LoadIngest, Fresh PROVE Fresh'
<1> DEFINE v == [view EXCEPT !.ingested = {s \in Names : <<s, ask.date>> \in runs}]
<1>1. Select("ingest", "absent", v)
  BY DEF LoadIngest
<1>2. /\ v.hits = view.hits /\ v.existing = view.existing /\ v.sources = view.sources
      /\ v.quotes = view.quotes /\ v.prior = view.prior
      /\ \A s \in Names : s \in v.ingested <=> <<s, ask.date>> \in runs
  BY DEF IInv, ViewOK, Views
<1> HIDE DEF v
<1>3. /\ stage = "ingest" /\ stage' = "absent" /\ view' = v /\ UNCHANGED <<ask, hits, quotes, sources, runs, absent>>
  BY <1>1 DEF Select, tables, db
<1> QED BY <1>2, <1>3, FreshCarried

LEMMA FreshNoPublic == ASSUME IInv, LoadNoPublic, Fresh PROVE Fresh'
<1> DEFINE v == [view EXCEPT !.absent = {i \in UniqueIds : <<i, ask.date>> \in absent}]
<1>1. Select("absent", "evaluate", v)
  BY DEF LoadNoPublic
<1>2. /\ v.hits = view.hits /\ v.existing = view.existing /\ v.sources = view.sources
      /\ v.quotes = view.quotes /\ v.prior = view.prior /\ v.ingested = view.ingested
      /\ \A i \in UniqueIds : i \in v.absent <=> <<i, ask.date>> \in absent
  BY DEF IInv, ViewOK, Views
<1> HIDE DEF v
<1>3. /\ stage = "absent" /\ stage' = "evaluate" /\ view' = v /\ UNCHANGED <<ask, hits, quotes, sources, runs, absent>>
  BY <1>1 DEF Select, tables, db
<1>4. \A s \in Names : s \in v.ingested <=> <<s, ask.date>> \in runs
  BY <1>2, <1>3, StageOrder DEF Fresh
<1> QED BY <1>2, <1>3, <1>4, FreshCarried

LEMMA QuietEvaluate == ASSUME IInv, QuietInv, Evaluate PROVE QuietInv'
<1>1. /\ stage = "evaluate" /\ stage' = "idle" /\ commits' = commits /\ commits \in Nat
      /\ hits' = hits /\ quotes' = quotes /\ sources' = sources /\ runs' = runs /\ absent' = absent
      /\ report'.version = commits /\ report'.began = began /\ report'.date = ask.date /\ report'.public = ask.public
      /\ \A row \in Universe : report'.answer[row] = Cached(row)
  BY DEF Evaluate, tables, db, IInv, TypeOK
<1>2. QuietReportExact'
  <2>1. PICK date, public : date = ask.date /\ public = ask.public
    OBVIOUS
  <2>2. \A row : Direct(row, report.date, report.public)' = Direct(row, date, public)'
    BY <1>1, <2>1
  <2> SUFFICES ASSUME began.version = commits, NEW row \in Universe
               PROVE  Cached(row) = Direct(row, date, public)'
    BY <1>1, <2>2 DEF QuietReportExact, Quiet
  <2>3. Cached(row) = Direct(row, date, public)
    BY <1>1, <2>1, FreshAnswer, StageOrder DEF QuietInv
  <2> QED BY <1>1, <2>3, DirectFrame
<1> QED BY <1>1, <1>2, StagesApart DEF QuietInv

LEMMA QuietStep == ASSUME IInv, QuietInv, [Next]_vars PROVE QuietInv'
<1>1. CASE Load
  BY <1>1, QuietLoad
<1>2. CASE \E question \in Asked : BeginReport(question[1], question[2])
  BY <1>2, QuietBegin, DatesAssumption
<1>3. CASE LoadSources
  <2>1. PICK v : Select("sources", "identifiers", v)
    BY <1>3 DEF LoadSources
  <2> QED BY <1>3, <2>1, FreshSources, QuietSelect, StageOrder
<1>4. CASE LoadIdentifiers
  <2>1. PICK v : Select("identifiers", "instruments", v)
    BY <1>4 DEF LoadIdentifiers
  <2> QED BY <1>4, <2>1, FreshIdentifiers, QuietSelect, StageOrder
<1>5. CASE LoadInstruments
  <2>1. PICK v : Select("instruments", "quotes", v)
    BY <1>5 DEF LoadInstruments
  <2> QED BY <1>5, <2>1, FreshInstruments, QuietSelect, StageOrder
<1>6. CASE LoadQuotes
  <2>1. PICK v : Select("quotes", "prior", v)
    BY <1>6 DEF LoadQuotes
  <2> QED BY <1>6, <2>1, FreshQuotes, QuietSelect, StageOrder
<1>7. CASE LoadPrior
  <2>1. PICK v : Select("prior", "ingest", v)
    BY <1>7 DEF LoadPrior
  <2> QED BY <1>7, <2>1, FreshPrior, QuietSelect, StageOrder
<1>8. CASE LoadIngest
  <2>1. PICK v : Select("ingest", "absent", v)
    BY <1>8 DEF LoadIngest
  <2> QED BY <1>8, <2>1, FreshIngest, QuietSelect, StageOrder
<1>9. CASE LoadNoPublic
  <2>1. PICK v : Select("absent", "evaluate", v)
    BY <1>9 DEF LoadNoPublic
  <2> QED BY <1>9, <2>1, FreshNoPublic, QuietSelect, StageOrder
<1>10. CASE SpanInstruments \/ SpanIdentifiers \/ SpanAliases \/ SpanQuotes
            \/ \E filter \in Providers \cup {None} : BeginSpan(filter)
  <2>1. /\ stage' \notin DayStages /\ report' = report /\ commits' = commits
        /\ hits' = hits /\ quotes' = quotes /\ sources' = sources /\ runs' = runs /\ absent' = absent
    BY <1>10 DEF SpanQuotes, SpanInstruments, SpanIdentifiers, SpanAliases, BeginSpan, Select, tables, db, DayStages
  <2>2. (report' # None => report'.version <= commits') /\ QuietReportExact'
    BY <2>1, QuietFrame
  <2> QED BY <2>1, <2>2 DEF QuietInv
<1>11. CASE UNCHANGED vars
  <2>1. /\ stage' = stage /\ ask' = ask /\ view' = view /\ began' = began /\ report' = report /\ commits' = commits
        /\ hits' = hits /\ quotes' = quotes /\ sources' = sources /\ runs' = runs /\ absent' = absent
    BY <1>11 DEF vars, tables, db, reader
  <2>2. (report' # None => report'.version <= commits') /\ QuietReportExact'
    BY <2>1, QuietFrame
  <2>3. Created' = Created
    BY <2>1 DEF Created
  <2>4. \A row : Resolved(row)' = Resolved(row) /\ RowKey(row)' = RowKey(row)
    BY <2>1 DEF Resolved, RowKey
  <2>5. UniqueIds' = UniqueIds
    BY <2>4 DEF UniqueIds
  <2>6. \A key, date : On(key, date)' = On(key, date) /\ EarlierThan(key, date)' = EarlierThan(key, date)
    BY <2>1 DEF On, EarlierThan
  <2>7. Fresh => Fresh'
    BY <2>1, <2>3, <2>4, <2>5, <2>6 DEF Fresh
  <2> QED BY <2>1, <2>2, <2>7 DEF QuietInv
<1> QED BY <1>1, <1>2, <1>3, <1>4, <1>5, <1>6, <1>7, <1>8, <1>9, <1>10, <1>11, QuietEvaluate DEF Next, Read

\* Whatever has been committed before, a report no commit overlapped answers
\* every row as queries for that row alone would.
THEOREM QuietExact == Spec => []QuietReportExact
<1>1. Init => QuietInv
  BY DEF Init, QuietInv, QuietReportExact, Quiet, DayStages
<1>2. IInv /\ QuietInv /\ [Next]_vars => QuietInv'
  BY QuietStep
<1>3. QuietInv => QuietReportExact
  BY DEF QuietInv
<1> QED BY <1>1, <1>2, <1>3, Invariance, PTL DEF Spec


-------------------------------------------------------------------------------
(* A span summary holds the days the public report prices *)

\* The days whose price of the row's own source is public now.
PublicDays(row) ==
    {q.date : q \in {p \in quotes : /\ p.instrument = Only(ResolveRow(row, hits, Created, row.provider))
                                    /\ p.source = row.provider /\ sources[p.source].public}}
Contains(days, date) == days # None /\ days.min <= date /\ date <= days.max
Covered(row, filter) == row.provider # None /\ filter \in {None, row.provider} /\ ~(filter = "yahoo" /\ row.alias # None)

\* What the span's SELECTs have read, when nothing was committed since the beginning.
SpanFresh ==
    /\ stage # "span_instruments" => view.existing = Uuids \cap Created
    /\ stage \in {"span_aliases", "span_quotes"} => \A row \in Universe : Covered(row, ask.filter) =>
         ResolveRow(row, view.hits, view.existing, row.provider) = ResolveRow(row, hits, Created, row.provider)

SpanExact ==
    \A row \in Universe : Covered(row, span.filter) => \A date \in PublicDays(row) : Contains(span.own[row], date)

SpanInv ==
    /\ stage \in SpanStages => began.version <= commits
    /\ span # None => span.version <= commits
    /\ stage \in SpanStages /\ began.version = commits => SpanFresh
    /\ Quiet(span, span.began) /\ span.version = commits => SpanExact
    /\ SpanContainsPriced

LEMMA PricedDay ==
    ASSUME TypeOK, NEW row \in Universe, NEW date \in Dates, NEW public,
           Direct(row, date, public).reason = "NONE"
    PROVE  row.provider # None /\ (public => date \in PublicDays(row))
<1>0. PICK price : price = Direct(row, date, public).price
  OBVIOUS
<1>1. /\ Expected(row) # None /\ row.provider # None
      /\ price \in quotes /\ price.date = date
      /\ Key(price) = <<price.instrument, Expected(row), row.provider>>
      /\ ResolveRow(row, hits, Created, row.provider) = {price.instrument}
      /\ public => SourceOf(row, sources).public
  BY <1>0, DirectPrice
<1>2. Only(ResolveRow(row, hits, Created, row.provider)) = price.instrument
  <2>1. ResolveRow(row, hits, Created, row.provider) \in SUBSET Instruments
    BY ResolveType, CreatedType DEF TypeOK
  <2> QED BY <1>1, <2>1, OnlyFacts
<1>3. price.source = row.provider /\ (public => sources[row.provider].public)
  BY <1>1 DEF Key, SourceOf
<1> QED BY <1>1, <1>2, <1>3 DEF PublicDays

LEMMA SpanHolds ==
    ASSUME TypeOK, NEW row, NEW i, NEW s, ask.filter \in {None, s}, s # None, NEW date,
           NEW q \in quotes, q.instrument = i, q.source = s, q.date = date, sources[s].public
    PROVE  Contains(SpanOf(i, s), date)
<1> DEFINE days == {q1.date : q1 \in {p \in quotes : /\ p.instrument = i /\ (s = None \/ p.source = s)
                                                     /\ ask.filter = None \/ p.source = ask.filter
                                                     /\ sources[p.source].public}}
           min == CHOOSE d \in days : \A e \in days : d <= e
           of == [min |-> min, max |-> Latest(days), count |-> Cardinality(days)]
<1>1. days \in SUBSET Dates
  BY DEF TypeOK, Quotes
<1>2. date \in days
  OBVIOUS
<1>3. SpanOf(i, s) = of
  BY <1>2 DEF SpanOf
<1> HIDE DEF days
<1>4. days \in SUBSET Nat
  BY <1>1, DatesAssumption DEF Dates
<1>5. min \in days /\ min <= date
  BY <1>2, <1>4, SetHasMin
<1>6. date <= Latest(days)
  BY <1>1, <1>2, LatestFacts
<1> HIDE DEF min
<1>7. of # None
  <2>1. Latest(days) \in Dates /\ min \in Dates /\ Cardinality(days) \in Dates
    BY <1>1, <1>2, <1>5, LatestFacts, DaysCounted
  <2> QED BY <2>1, NoneAssumption DEF Spans
<1> QED BY <1>3, <1>5, <1>6, <1>7 DEF Contains

\* A step that changes neither tables nor the summary, and leaves its reader alone.
LEMMA SpanFrame ==
    ASSUME SpanInv, span' = span, commits' = commits, hits' = hits, quotes' = quotes, sources' = sources
    PROVE  /\ span' # None => span'.version <= commits'
           /\ Quiet(span, span.began)' /\ span'.version = commits' => SpanExact'
           /\ \A row : PublicDays(row)' = PublicDays(row)
<1>1. Created' = Created
  BY DEF Created
<1>2. \A row : PublicDays(row)' = PublicDays(row)
  BY <1>1 DEF PublicDays
<1> QED BY <1>2 DEF SpanInv, SpanExact, Quiet

LEMMA SpanOther ==
    ASSUME SpanInv, span' = span, report' = report, commits' = commits,
           hits' = hits, quotes' = quotes, sources' = sources,
           stage' \in SpanStages => began'.version <= commits' /\ (began'.version = commits' => SpanFresh')
    PROVE  SpanInv'
<1>1. SpanContainsPriced'
  BY DEF SpanInv, SpanContainsPriced, Quiet
<1> QED BY <1>1, SpanFrame DEF SpanInv

LEMMA SpanLoad == ASSUME IInv, SpanInv, Load PROVE SpanInv'
<1>1. /\ commits' = commits + 1 /\ stage' = stage /\ began' = began /\ report' = report /\ span' = span
      /\ commits \in Nat
  BY LoadStep DEF IInv, Grows, reader, TypeOK
<1>2. stage \in SpanStages => began.version \in Nat /\ began.version <= commits
  BY DEF IInv, ViewOK, SpanInv
<1>3. span # None => span.version \in Nat /\ span.version <= commits
  BY DEF IInv, TypeOK, Summaries, SpanInv
<1>4. (stage' \in SpanStages => began'.version <= commits' /\ began'.version # commits')
      /\ (span' # None => span'.version <= commits' /\ span'.version # commits')
  BY <1>1, <1>2, <1>3
<1>5. SpanContainsPriced'
  BY <1>1 DEF SpanInv, SpanContainsPriced, Quiet
<1> QED BY <1>4, <1>5 DEF SpanInv, Quiet

LEMMA SpanSelects == ASSUME IInv, SpanInv, SpanInstruments \/ SpanIdentifiers \/ SpanAliases PROVE SpanInv'
<1>1. /\ stage \in SpanStages \ {"span_quotes"} /\ stage' \in SpanStages \ {"span_instruments"}
      /\ UNCHANGED <<ask, began, report, span, commits, hits, quotes, sources>>
  BY DEF SpanInstruments, SpanIdentifiers, SpanAliases, Select, tables, db, SpanStages
<1>2. Created' = Created
  BY <1>1 DEF Created
<1>3. ASSUME SpanFresh, SpanInstruments PROVE SpanFresh'
  <2>1. view'.existing = Uuids \cap Created /\ stage' = "span_identifiers"
    BY <1>3 DEF SpanInstruments, Select, IInv, ViewOK, Views
  <2> QED BY <1>2, <2>1 DEF SpanFresh
<1>4. ASSUME SpanFresh, SpanIdentifiers PROVE SpanFresh'
  <2> DEFINE values == {row.isin : row \in Universe} \cup {row.ticker : row \in Universe}
             seen == {h \in hits : h.value \in values /\ (ask.filter = None \/ h.source = ask.filter)}
  <2>1. stage = "span_identifiers" /\ view'.hits = seen /\ view'.existing = view.existing
    BY <1>4 DEF SpanIdentifiers, Select, IInv, ViewOK, Views
  <2>2. view.existing = Uuids \cap Created
    BY <1>4, <2>1 DEF SpanFresh
  <2>3. ASSUME NEW row \in Universe, Covered(row, ask.filter)
        PROVE  ResolveRow(row, seen, Uuids \cap Created, row.provider) = ResolveRow(row, hits, Created, row.provider)
    <3>1. row.provider # None /\ ask.filter \in {None, row.provider} /\ row.isin \in values /\ row.ticker \in values
      BY <2>3 DEF Covered
    <3> HIDE DEF values
    <3>2. \A types : /\ Ids(seen, types, row.isin, row.provider) = Ids(hits, types, row.isin, row.provider)
                     /\ Ids(seen, types, row.ticker, row.provider) = Ids(hits, types, row.ticker, row.provider)
      BY <3>1 DEF Ids
    <3>3. row.uuid # None => row.uuid \in Uuids
      BY DEF Uuids
    <3> QED BY <3>2, <3>3 DEF ResolveRow
  <2> HIDE DEF seen
  <2>4. \A row \in Universe : Covered(row, ask.filter) =>
          ResolveRow(row, view'.hits, view'.existing, row.provider) = ResolveRow(row, hits, Created, row.provider)
    BY <2>1, <2>2, <2>3
  <2> QED BY <1>1, <1>2, <2>1, <2>2, <2>4 DEF SpanFresh
<1>5. ASSUME SpanFresh, SpanAliases PROVE SpanFresh'
  <2>1. stage = "span_aliases" /\ view'.hits = view.hits /\ view'.existing = view.existing
    BY <1>5 DEF SpanAliases, Select, IInv, ViewOK, Views
  <2> QED BY <1>1, <1>2, <1>5, <2>1 DEF SpanFresh
<1> QED BY <1>1, <1>3, <1>4, <1>5, SpanOther DEF SpanInv

LEMMA SpanMeets == ASSUME IInv, QuietReportExact, SpanInv, SpanQuotes PROVE SpanInv'
<1>1. /\ stage = "span_quotes" /\ stage' = "idle" /\ UNCHANGED <<report, commits, hits, quotes, sources>>
      /\ span'.version = commits /\ span'.began = began.version /\ span'.filter = ask.filter
      /\ \A row \in Universe : ~(ask.filter = "yahoo" /\ row.alias # None) =>
           span'.own[row] = SpanOf(SpanOwn(row), SpanSource(row))
  BY DEF SpanQuotes, tables, db
<1>2. began.version = commits =>
        \A row \in Universe : Covered(row, ask.filter) =>
          \A date \in PublicDays(row) : Contains(span'.own[row], date)
  <2> SUFFICES ASSUME began.version = commits, NEW row \in Universe, Covered(row, ask.filter),
                      NEW date \in PublicDays(row)
               PROVE  Contains(span'.own[row], date)
    OBVIOUS
  <2>1. SpanFresh
    BY <1>1 DEF SpanInv, SpanStages
  <2>2. SpanSource(row) = row.provider /\ row.provider # None /\ ask.filter \in {None, row.provider}
    BY DEF SpanSource, Covered
  <2>3. SpanOwn(row) = Only(ResolveRow(row, hits, Created, row.provider))
    BY <1>1, <2>1, <2>2 DEF SpanFresh, SpanOwn
  <2>4. PICK q \in quotes : /\ q.instrument = Only(ResolveRow(row, hits, Created, row.provider))
                            /\ q.source = row.provider /\ sources[q.source].public /\ q.date = date
    BY DEF PublicDays
  <2>5. Contains(SpanOf(SpanOwn(row), row.provider), date)
    BY <2>2, <2>3, <2>4, SpanHolds DEF IInv
  <2>6. span'.own[row] = SpanOf(SpanOwn(row), row.provider)
    BY <1>1, <2>2 DEF Covered
  <2> QED BY <2>5, <2>6
<1>3. Created' = Created
  BY <1>1 DEF Created
<1>4. \A row : PublicDays(row)' = PublicDays(row)
  BY <1>1, <1>3 DEF PublicDays
<1>5. Quiet(span, span.began)' => SpanExact'
  BY <1>1, <1>2, <1>4 DEF Quiet, SpanExact
<1>6. SpanContainsPriced'
  <2> SUFFICES ASSUME Quiet(report, report.began.version), began.version = commits, report.version = commits,
                      report.public, NEW row \in Universe, report.answer[row].reason = "NONE",
                      Covered(row, ask.filter)
               PROVE  Contains(span'.own[row], report.date)
    <3>1. \A row \in Universe : report.answer[row].reason = "NONE" /\ Quiet(report, report.began.version)
                                /\ report.version = commits /\ report.public => row.provider # None
      <4> SUFFICES ASSUME NEW row \in Universe, report.answer[row].reason = "NONE", Quiet(report, report.began.version),
                          report.version = commits, report.public
                   PROVE  row.provider # None
        OBVIOUS
      <4>1. Direct(row, report.date, report.public).reason = "NONE" /\ report.date \in Dates
        BY DEF QuietReportExact, IInv, TypeOK, Reports, Quiet
      <4> HIDE DEF Quiet
      <4> QED BY <4>1, PricedDay DEF IInv
    <3> QED BY <1>1, <3>1 DEF SpanContainsPriced, Contains, Covered, Quiet
  <2>1. Direct(row, report.date, report.public).reason = "NONE" /\ report.date \in Dates
    BY DEF QuietReportExact, IInv, TypeOK, Reports, Quiet
  <2>2. report.date \in PublicDays(row)
    BY <2>1, PricedDay DEF IInv
  <2> QED BY <1>2, <2>2
<1>7. commits \in Nat
  BY DEF IInv, TypeOK
<1> QED BY <1>1, <1>5, <1>6, <1>7 DEF SpanInv, SpanStages

LEMMA SpanEvaluate == ASSUME IInv, QuietReportExact', SpanInv, Evaluate PROVE SpanInv'
<1>1. /\ stage' = "idle" /\ ask.date \in Dates /\ UNCHANGED <<span, commits, hits, quotes, sources, runs, absent>>
      /\ report'.version = commits /\ report'.date = ask.date
  BY StagesApart, StageOrder DEF Evaluate, tables, db, IInv, ViewOK
<1>2. ASSUME Quiet(report, report.began.version)', report'.public, NEW row \in Universe, report'.answer[row].reason = "NONE"
      PROVE  row.provider # None /\ report'.date \in PublicDays(row)
  <2>1. PICK date, public : date = report'.date /\ public = report'.public
    OBVIOUS
  <2>2. report'.answer[row] = Direct(row, date, public)'
    BY <1>1, <1>2, <2>1 DEF QuietReportExact
  <2>3. Direct(row, date, public).reason = "NONE"
    BY <1>1, <1>2, <2>2, DirectFrame
  <2>4. date \in Dates /\ public
    BY <1>1, <1>2, <2>1
  <2> QED BY <2>1, <2>3, <2>4, PricedDay DEF IInv
<1>3. SpanContainsPriced'
  <2> SUFFICES ASSUME Quiet(report, report.began.version)', Quiet(span, span.began), commits = span.version,
                      report'.public, NEW row \in Universe, report'.answer[row].reason = "NONE",
                      span.filter \in {None, row.provider}, ~(span.filter = "yahoo" /\ row.alias # None)
               PROVE  Contains(span.own[row], report'.date)
    BY <1>1 DEF SpanContainsPriced, Contains, Quiet
  <2>1. row.provider # None /\ report'.date \in PublicDays(row)
    BY <1>2
  <2>2. SpanExact /\ Covered(row, span.filter)
    BY <2>1 DEF SpanInv, Covered
  <2> QED BY <2>1, <2>2 DEF SpanExact
<1> QED BY <1>1, <1>3, SpanFrame DEF SpanInv, SpanStages

LEMMA SpanStep == ASSUME IInv, QuietInv, SpanInv, [Next]_vars PROVE SpanInv'
<1>0. QuietReportExact /\ QuietReportExact'
  BY QuietStep DEF QuietInv
<1>1. CASE Load
  BY <1>1, SpanLoad
<1>2. CASE \/ \E question \in Asked : BeginReport(question[1], question[2])
           \/ LoadSources \/ LoadIdentifiers \/ LoadInstruments \/ LoadQuotes
           \/ LoadPrior \/ LoadIngest \/ LoadNoPublic
  <2>1. /\ stage' \notin SpanStages
        /\ UNCHANGED <<span, report, commits, hits, quotes, sources>>
    BY <1>2 DEF BeginReport, LoadSources, LoadIdentifiers, LoadInstruments, LoadQuotes, LoadPrior, LoadIngest,
                LoadNoPublic, Select, tables, db, SpanStages
  <2> QED BY <2>1, SpanOther
<1>3. CASE \E filter \in Providers \cup {None} : BeginSpan(filter)
  <2>1. /\ stage' = "span_instruments" /\ began'.version = commits /\ commits \in Nat
        /\ UNCHANGED <<span, report, commits, hits, quotes, sources>>
    BY <1>3 DEF BeginSpan, tables, db, IInv, TypeOK
  <2>2. SpanFresh'
    BY <2>1 DEF SpanFresh
  <2> QED BY <2>1, <2>2, SpanOther
<1>4. CASE UNCHANGED vars
  <2>1. UNCHANGED <<stage, ask, view, began, report, span, commits, hits, quotes, sources>>
    BY <1>4 DEF vars, tables, db, reader
  <2>2. Created' = Created
    BY <2>1 DEF Created
  <2>3. SpanFresh => SpanFresh'
    BY <2>1, <2>2 DEF SpanFresh
  <2> QED BY <2>1, <2>3, SpanOther DEF SpanInv
<1> QED BY <1>0, <1>1, <1>2, <1>3, <1>4, SpanSelects, SpanMeets, SpanEvaluate DEF Next, Read

\* A span summary that no commit overlapped contains every day that a public
\* report of the same database prices.
THEOREM SpanSafe == Spec => []SpanContainsPriced
<1>1. Init => QuietInv /\ SpanInv
  BY DEF Init, QuietInv, QuietReportExact, Quiet, DayStages, SpanInv, SpanContainsPriced, SpanStages
<1>2. IInv /\ QuietInv /\ SpanInv /\ [Next]_vars => QuietInv' /\ SpanInv'
  BY QuietStep, SpanStep
<1>3. SpanInv => SpanContainsPriced
  BY DEF SpanInv
<1> QED BY <1>1, <1>2, <1>3, Invariance, PTL DEF Spec
===============================================================================
