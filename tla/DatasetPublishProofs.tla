------------------------- MODULE DatasetPublishProofs -------------------------
(***************************************************************************)
(* Proofs about the dataset publisher for any number of publishers,        *)
(* readers, datasets and dates: when no date is published twice, latest    *)
(* always names a complete version and a listing stays downloadable.       *)
(***************************************************************************)
EXTENDS DatasetPublish, SequenceTheorems, TLAPS

\* A command has a current dataset until it ends, and bytes to put once its
\* frame is known not to be empty.
QueueOK ==
    \A p \in Publishers :
      /\ pc[p] \notin {"idle", "exit"} => queue[p] # <<>>
      /\ pc[p] \in {"store", "check", "versioned", "latest"} => frame[p] \in Frames

TypeInv == TypeOK /\ QueueOK

\* The part of TypeInv a command moves through.
CommandOK ==
    /\ pc \in [Publishers -> Places]
    /\ date \in [Publishers -> Dates] /\ dry \in [Publishers -> BOOLEAN]
    /\ queue \in [Publishers -> Seq(Names)]
    /\ frame \in [Publishers -> Frames \cup {Empty}]
    /\ outcome \in [Publishers -> [Names -> Statuses]]
    /\ QueueOK

\* And the rest of it.
RestOK ==
    /\ db \in [Names -> Frames \cup {Empty}]
    /\ object \in [Names -> [Dates -> Frames \cup {Corrupt, None}]]
    /\ versioned \in [Names -> [Dates -> Manifests \cup {None}]]
    /\ latest \in [Names -> Manifests \cup {None}]
    /\ aborted \in [Publishers -> BOOLEAN]
    /\ hit \in [Publishers -> SUBSET Names]
    /\ listing \in [Readers -> (Names \X Manifests) \cup {None}]
    /\ used \subseteq Dates
    /\ runs \in 0..MaxRuns /\ ingests \in 0..MaxIngests /\ faults \in 0..MaxFaults

LEMMA TypeParts == (CommandOK /\ RestOK <=> TypeInv) /\ (CommandOK' /\ RestOK' <=> TypeInv')
BY DEF TypeInv, TypeOK, CommandOK, RestOK

LEMMA TailOfQueue ==
    ASSUME NEW q \in Seq(Names), q # <<>>
    PROVE  /\ Head(q) \in Names /\ Tail(q) \in Seq(Names)
           /\ Len(q) # 1 => Tail(q) # <<>>
<1>1. Head(q) \in Names /\ Tail(q) \in Seq(Names) /\ Len(Tail(q)) = Len(q) - 1
  BY HeadTailProperties
<1>2. ASSUME Tail(q) = <<>> PROVE Len(q) = 1
  <2>1. Len(Tail(q)) = 0
    <3>1. Len(<<>>) = 0
      BY EmptySeq
    <3> QED BY <1>2, <3>1, Zenon
  <2>2. Len(q) \in Nat
    BY LenProperties
  <2> DEFINE l == Len(Tail(q))  k == Len(q)
  <2>3. l = k - 1 /\ l = 0 /\ k \in Nat
    BY <1>1, <2>1, <2>2, Zenon
  <2> HIDE DEF l, k
  <2>4. k = 1
    BY <2>3
  <2> QED BY <2>4, Zenon DEF k
<1> QED BY <1>1, <1>2, Zenon

LEMMA CurIsName ==
    ASSUME TypeInv, NEW p \in Publishers, pc[p] \notin {"idle", "exit"}
    PROVE  queue[p] \in Seq(Names) /\ queue[p] # <<>> /\ Cur(p) \in Names
<1>1. queue[p] \in Seq(Names) /\ queue[p] # <<>>
  BY DEF TypeInv, TypeOK, QueueOK
<1> QED BY <1>1, TailOfQueue DEF Cur

LEMMA NextNameType ==
    ASSUME TypeInv, NEW p \in Publishers, pc[p] \notin {"idle", "exit"},
           NEW s \in Statuses, NextName(p, s)
    PROVE  CommandOK'
<1>1. queue[p] \in Seq(Names) /\ queue[p] # <<>> /\ Cur(p) \in Names
  BY CurIsName
<1>2. Tail(queue[p]) \in Seq(Names) /\ (Len(queue[p]) # 1 => Tail(queue[p]) # <<>>)
  BY <1>1, TailOfQueue
<1> USE DEF TypeInv, TypeOK, NextName, command
<1>3. queue' \in [Publishers -> Seq(Names)]
  BY <1>2
<1>4. pc' \in [Publishers -> Places] /\ frame' \in [Publishers -> Frames \cup {Empty}]
  BY DEF Places
<1>5. outcome' \in [Publishers -> [Names -> Statuses]]
  BY <1>1
<1>6. QueueOK'
  <2> SUFFICES ASSUME NEW r \in Publishers
               PROVE  /\ pc'[r] \notin {"idle", "exit"} => queue'[r] # <<>>
                      /\ pc'[r] \in {"store", "check", "versioned", "latest"} => frame'[r] \in Frames
    BY DEF QueueOK
  <2>1. CASE r = p
    BY <2>1, <1>2
  <2>2. CASE r # p
    <3>1. pc'[r] = pc[r] /\ queue'[r] = queue[r] /\ frame'[r] = frame[r]
      BY <2>2
    <3> QED BY <3>1 DEF QueueOK
  <2> QED BY <2>1, <2>2
<1> QED BY <1>3, <1>4, <1>5, <1>6 DEF CommandOK

LEMMA GotoType ==
    ASSUME TypeInv, NEW p \in Publishers, pc[p] \notin {"idle", "exit"},
           NEW place \in Places, Goto(p, place),
           frame' \in [Publishers -> Frames \cup {Empty}],
           \A r \in Publishers \ {p} : frame'[r] = frame[r],
           place \in {"store", "check", "versioned", "latest"} => frame'[p] \in Frames
    PROVE  CommandOK'
<1> USE DEF TypeInv, TypeOK, Goto, command
<1>1. QueueOK'
  <2> SUFFICES ASSUME NEW r \in Publishers
               PROVE  /\ pc'[r] \notin {"idle", "exit"} => queue'[r] # <<>>
                      /\ pc'[r] \in {"store", "check", "versioned", "latest"} => frame'[r] \in Frames
    BY DEF QueueOK
  <2>1. CASE r = p
    BY <2>1 DEF QueueOK
  <2>2. CASE r # p
    <3>1. pc'[r] = pc[r] /\ queue'[r] = queue[r] /\ frame'[r] = frame[r]
      BY <2>2
    <3> QED BY <3>1 DEF QueueOK
  <2> QED BY <2>1, <2>2
<1> QED BY <1>1 DEF CommandOK

-------------------------------------------------------------------------------
\* A publisher's puts are well typed.
LEMMA PutType ==
    ASSUME TypeInv, NEW p \in Publishers,
           NEW bytes \in Frames \cup {Corrupt},
           PutObject(p, bytes) \/ PutVersioned(p) \/ PutLatest(p)
    PROVE  /\ object' \in [Names -> [Dates -> Frames \cup {Corrupt, None}]]
           /\ versioned' \in [Names -> [Dates -> Manifests \cup {None}]]
           /\ latest' \in [Names -> Manifests \cup {None}]
<1>1. pc[p] \in {"store", "versioned", "latest"}
  BY DEF PutObject, PutVersioned, PutLatest
<1>2. Cur(p) \in Names
  BY <1>1, CurIsName
<1>3. date[p] \in Dates /\ frame[p] \in Frames
  BY <1>1 DEF TypeInv, TypeOK, QueueOK
<1>4. Manifest(p) \in Manifests
  BY <1>3 DEF Manifest, Manifests
<1> USE DEF TypeInv, TypeOK
<1>5. CASE PutObject(p, bytes)
  BY <1>5, <1>2, <1>3 DEF PutObject, ObjectKey
<1>6. CASE PutVersioned(p)
  BY <1>6, <1>2, <1>3, <1>4 DEF PutVersioned
<1>7. CASE PutLatest(p)
  BY <1>7, <1>2, <1>4 DEF PutLatest
<1> QED BY <1>5, <1>6, <1>7

LEMMA HitType ==
    ASSUME TypeInv, NEW p \in Publishers, pc[p] \notin {"idle", "exit"}, Hit(p)
    PROVE  hit' \in [Publishers -> SUBSET Names]
<1>1. Cur(p) \in Names
  BY CurIsName
<1> QED BY <1>1 DEF Hit, TypeInv, TypeOK

LEMMA FaultType == ASSUME TypeInv, Fault PROVE faults' \in 0..MaxFaults
BY BoundsAssumption DEF Fault, TypeInv, TypeOK

-------------------------------------------------------------------------------
LEMMA InitType == Init => TypeInv
<1> SUFFICES ASSUME Init PROVE TypeInv
  OBVIOUS
<1> USE DEF Init
<1>1. (CHOOSE d \in Dates : TRUE) \in Dates
  BY DatesAssumption
<1>2. date \in [Publishers -> Dates] /\ queue \in [Publishers -> Seq(Names)]
  BY <1>1, EmptySeq
<1>3. {runs, ingests, faults} \subseteq {0} /\ 0 \in 0..MaxRuns /\ 0 \in 0..MaxIngests /\ 0 \in 0..MaxFaults
  BY BoundsAssumption
<1>4. TypeOK
  BY <1>2, <1>3 DEF TypeOK, Places, Statuses
<1>5. QueueOK
  BY DEF QueueOK
<1> QED BY <1>4, <1>5 DEF TypeInv

\* Every action of a publisher keeps the type invariant.
LEMMA PublisherType == ASSUME TypeInv, NEW p \in Publishers, PublisherStep(p) PROVE TypeInv'
<1>0. CommandOK /\ RestOK
  BY TypeParts
<1>1. CASE Extract(p)
  <2>1. Cur(p) \in Names
    BY <1>1, CurIsName DEF Extract
  <2>2. /\ frame' \in [Publishers -> Frames \cup {Empty}]
        /\ \A r \in Publishers \ {p} : frame'[r] = frame[r]
    BY <1>0, <1>1, <2>1 DEF Extract, CommandOK, RestOK
  <2>3. CommandOK'
    BY <1>1, <2>2, GotoType DEF Extract, Places
  <2> QED BY <1>0, <1>1, <2>3, TypeParts DEF Extract, RestOK, store, bounds
<1>2. CASE ExtractRefused(p)
  <2>1. CommandOK'
    BY <1>2, NextNameType DEF ExtractRefused, Statuses
  <2> QED BY <1>0, <1>2, <2>1, TypeParts DEF ExtractRefused, RestOK, store, bounds
<1>3. CASE SkipEmpty(p)
  <2>1. CommandOK'
    BY <1>3, NextNameType DEF SkipEmpty, Statuses
  <2> QED BY <1>0, <1>3, <2>1, TypeParts DEF SkipEmpty, RestOK, store, bounds
<1>4. CASE DryRun(p)
  <2>1. CommandOK'
    BY <1>4, NextNameType DEF DryRun, Statuses
  <2> QED BY <1>0, <1>4, <2>1, TypeParts DEF DryRun, RestOK, store, bounds
<1>5. CASE WriteParquet(p)
  <2>1. frame[p] \in Frames
    BY <1>0, <1>5 DEF WriteParquet, CommandOK
  <2>2. CommandOK'
    BY <1>0, <1>5, <2>1, GotoType DEF WriteParquet, Places, CommandOK
  <2> QED BY <1>0, <1>5, <2>2, TypeParts DEF WriteParquet, RestOK, store, bounds
<1>6. CASE StoreObject(p)
  <2>1. pc[p] = "store" /\ frame[p] \in Frames
    BY <1>0, <1>6 DEF StoreObject, PutObject, CommandOK, QueueOK
  <2>2. /\ object' \in [Names -> [Dates -> Frames \cup {Corrupt, None}]]
        /\ versioned' = versioned /\ latest' = latest
    BY <1>6, <2>1, PutType DEF StoreObject, PutObject
  <2>3. CommandOK'
    BY <1>0, <1>6, <2>1, GotoType DEF StoreObject, Places, CommandOK
  <2> QED BY <1>0, <1>6, <2>2, <2>3, TypeParts DEF StoreObject, RestOK, bounds
<1>7. CASE CheckStored(p)
  <2>1. pc[p] = "check" /\ frame[p] \in Frames
    BY <1>0, <1>7 DEF CheckStored, CommandOK, QueueOK
  <2>2. CASE Goto(p, "versioned") /\ UNCHANGED <<frame, hit>>
    <3>1. CommandOK'
      BY <1>0, <2>1, <2>2, GotoType DEF Places, CommandOK
    <3> QED BY <1>0, <1>7, <2>2, <3>1, TypeParts DEF CheckStored, RestOK, store, bounds
  <2>3. CASE Fail(p)
    <3>1. CommandOK' /\ hit' \in [Publishers -> SUBSET Names]
      BY <2>1, <2>3, NextNameType, HitType DEF Fail, Statuses
    <3> QED BY <1>0, <1>7, <3>1, TypeParts DEF CheckStored, RestOK, store, bounds
  <2> QED BY <1>7, <2>2, <2>3 DEF CheckStored
<1>8. CASE StoreVersioned(p)
  <2>1. pc[p] = "versioned" /\ frame[p] \in Frames
    BY <1>0, <1>8 DEF StoreVersioned, PutVersioned, CommandOK, QueueOK
  <2>2. /\ versioned' \in [Names -> [Dates -> Manifests \cup {None}]]
        /\ object' = object /\ latest' = latest
    BY <1>8, <2>1, PutType DEF StoreVersioned, PutVersioned
  <2>3. CommandOK'
    BY <1>0, <1>8, <2>1, GotoType DEF StoreVersioned, Places, CommandOK
  <2> QED BY <1>0, <1>8, <2>2, <2>3, TypeParts DEF StoreVersioned, RestOK, bounds
<1>9. CASE StoreLatest(p)
  <2>1. pc[p] = "latest" /\ frame[p] \in Frames
    BY <1>0, <1>9 DEF StoreLatest, PutLatest, CommandOK, QueueOK
  <2>2. /\ latest' \in [Names -> Manifests \cup {None}]
        /\ object' = object /\ versioned' = versioned
    BY <1>9, <2>1, PutType DEF StoreLatest, PutLatest
  <2>3. CommandOK'
    BY <1>9, <2>1, NextNameType DEF StoreLatest, Statuses
  <2> QED BY <1>0, <1>9, <2>2, <2>3, TypeParts DEF StoreLatest, RestOK, bounds
<1>10. CASE Exit(p)
  <2>1. CommandOK'
    BY <1>0, <1>10, EmptySeq DEF Exit, EndCommand, CommandOK, QueueOK, Places, command
  <2> QED BY <1>0, <1>10, <2>1, TypeParts DEF Exit, EndCommand, RestOK, store, command
<1> QED BY <1>1, <1>2, <1>3, <1>4, <1>5, <1>6, <1>7, <1>8, <1>9, <1>10 DEF PublisherStep

\* And so does every failure.
LEMMA DisturbType == ASSUME TypeInv, NEW p \in Publishers, Disturb(p) PROVE TypeInv'
<1>0. CommandOK /\ RestOK
  BY TypeParts
<1>f. Fault /\ faults' \in 0..MaxFaults
  BY FaultType DEF Disturb, ExtractError, InvalidFrame, StoreCorrupts, StoreError, Crash
<1>1. CASE ExtractError(p)
  <2>1. CommandOK' /\ hit' \in [Publishers -> SUBSET Names]
    BY <1>1, NextNameType, HitType DEF ExtractError, Fail, Statuses
  <2> QED BY <1>0, <1>f, <1>1, <2>1, TypeParts DEF ExtractError, RestOK, store
<1>2. CASE InvalidFrame(p)
  <2>1. CommandOK' /\ hit' \in [Publishers -> SUBSET Names]
    BY <1>2, NextNameType, HitType DEF InvalidFrame, Fail, Statuses
  <2> QED BY <1>0, <1>f, <1>2, <2>1, TypeParts DEF InvalidFrame, RestOK, store
<1>3. CASE StoreCorrupts(p)
  <2>1. pc[p] = "store" /\ frame[p] \in Frames
    BY <1>0, <1>3 DEF StoreCorrupts, PutObject, CommandOK, QueueOK
  <2>2. /\ object' \in [Names -> [Dates -> Frames \cup {Corrupt, None}]]
        /\ versioned' = versioned /\ latest' = latest
    BY <1>3, <2>1, PutType DEF StoreCorrupts, PutObject
  <2>3. CommandOK'
    BY <1>0, <1>3, <2>1, GotoType DEF StoreCorrupts, Places, CommandOK
  <2> QED BY <1>0, <1>f, <1>3, <2>2, <2>3, TypeParts DEF StoreCorrupts, RestOK
<1>4. CASE StoreError(p)
  <2>1. pc[p] \in {"store", "check", "versioned", "latest"} /\ frame[p] \in Frames
    BY <1>0, <1>4 DEF StoreError, PutObject, PutVersioned, PutLatest, CommandOK, QueueOK
  <2>2. /\ object' \in [Names -> [Dates -> Frames \cup {Corrupt, None}]]
        /\ versioned' \in [Names -> [Dates -> Manifests \cup {None}]]
        /\ latest' \in [Names -> Manifests \cup {None}]
    BY <1>0, <1>4, <2>1, PutType DEF StoreError, RestOK, store
  <2>3. CommandOK' /\ hit' \in [Publishers -> SUBSET Names]
    BY <1>4, <2>1, NextNameType, HitType DEF StoreError, Fail, Statuses
  <2> QED BY <1>0, <1>f, <1>4, <2>2, <2>3, TypeParts DEF StoreError, RestOK
<1>5. CASE Crash(p)
  <2>1. CommandOK'
    BY <1>0, <1>5, EmptySeq DEF Crash, EndCommand, CommandOK, QueueOK, Places, Statuses, command
  <2>2. hit' \in [Publishers -> SUBSET Names]
    BY <1>0, <1>5 DEF Crash, RestOK
  <2> QED BY <1>0, <1>f, <1>5, <2>1, <2>2, TypeParts DEF Crash, EndCommand, RestOK, store, command
<1> QED BY <1>1, <1>2, <1>3, <1>4, <1>5 DEF Disturb

LEMMA StepType == TypeInv /\ [Next]_vars => TypeInv'
<1> SUFFICES ASSUME TypeInv, [Next]_vars PROVE TypeInv'
  OBVIOUS
<1>0. CommandOK /\ RestOK
  BY TypeParts
<1>1. ASSUME NEW p \in Publishers, NEW d \in Dates, NEW isDry \in BOOLEAN, NEW q \in Requests,
             Dispatch(p, d, isDry, q)
      PROVE  TypeInv'
  <2>1. q \in Seq(Names) /\ q # <<>>
    BY RequestsAssumption
  <2>2. CommandOK'
    BY <1>0, <1>1, <2>1 DEF Dispatch, CommandOK, QueueOK, Places, Statuses
  <2>3. runs' \in 0..MaxRuns
    BY <1>0, <1>1, BoundsAssumption DEF Dispatch, RestOK
  <2> QED BY <1>0, <1>1, <2>2, <2>3, TypeParts DEF Dispatch, RestOK, store
<1>2. ASSUME NEW n \in Names, NEW f \in Frames \cup {Empty}, Ingest(n, f)
      PROVE  TypeInv'
  <2>1. ingests' \in 0..MaxIngests
    BY <1>0, <1>2, BoundsAssumption DEF Ingest, RestOK
  <2> QED BY <1>0, <1>2, <2>1, TypeParts DEF Ingest, RestOK, CommandOK, QueueOK, store, publisher, command
<1>3. ASSUME NEW r \in Readers, NEW n \in Names, LoadLatest(r, n)
      PROVE  TypeInv'
  <2>1. listing' \in [Readers -> (Names \X Manifests) \cup {None}]
    BY <1>0, <1>3 DEF LoadLatest, RestOK
  <2> QED BY <1>0, <1>3, <2>1, TypeParts
          DEF LoadLatest, RestOK, CommandOK, QueueOK, store, publisher, command, bounds
<1>4. CASE UNCHANGED vars
  BY <1>0, <1>4, TypeParts DEF vars, RestOK, CommandOK, QueueOK, store, publisher, command, bounds
<1> QED BY <1>1, <1>2, <1>3, <1>4, PublisherType, DisturbType DEF Next

\* The publishers, their command state and the object store keep their types for
\* any number of publishers, readers, datasets and dates (datasets/publish.py).
THEOREM TypeCorrect == Spec => []TypeOK
<1>1. TypeInv => TypeOK
  BY DEF TypeInv
<1> QED BY <1>1, InitType, StepType, PTL DEF Spec

-------------------------------------------------------------------------------
(* Publishers that never share a date *)

Queued(q, n) == \E i \in 1..Len(q) : q[i] = n

NoRepeat(q) == \A i, j \in 1..Len(q) : q[i] = q[j] => i = j

\* A running command owns its date.
DatesApart ==
    \A p \in Publishers : queue[p] # <<>> =>
      /\ NoRepeat(queue[p]) /\ date[p] \in used
      /\ \A r \in Publishers \ {p} : queue[r] # <<>> => date[r] # date[p]

\* What CheckStored and StoreVersioned have established stays true until the
\* latest manifest is put.
Progress ==
    \A p \in Publishers :
      /\ pc[p] \in {"versioned", "latest"} => object[Cur(p)][date[p]] = frame[p]
      /\ pc[p] = "latest" => versioned[Cur(p)][date[p]] = Manifest(p)

\* A manifest that was latest once: complete, and no command will write to its
\* date under its name again.
Settled(n, m) ==
    /\ Verifies(n, m) /\ m.date \in used
    /\ \A p \in Publishers : Queued(queue[p], n) => date[p] # m.date

LatestSettled ==
    \A n \in Names : latest[n] # None =>
      Settled(n, latest[n]) /\ versioned[n][latest[n].date] = latest[n]

ListingsSettled ==
    \A r \in Readers : listing[r] # None => Settled(listing[r][1], listing[r][2])

Apart == DatesApart /\ Progress /\ LatestSettled /\ ListingsSettled

SafeInv == TypeInv /\ Apart

LEMMA TailQueued ==
    ASSUME NEW q \in Seq(Names), q # <<>>, NoRepeat(q)
    PROVE  /\ NoRepeat(Tail(q))
           /\ \A n : Queued(Tail(q), n) => Queued(q, n)
           /\ ~Queued(Tail(q), Head(q))
           /\ Queued(q, Head(q))
<1>1. Len(q) \in Nat \ {0} /\ Head(q) = q[1]
  BY EmptySeq
<1>2. /\ Len(Tail(q)) = Len(q) - 1
      /\ \A i \in 1..Len(Tail(q)) : Tail(q)[i] = q[i + 1]
  BY HeadTailProperties
<1>3. ASSUME NEW i \in 1..Len(Tail(q)) PROVE i + 1 \in 1..Len(q) /\ i + 1 # 1 /\ Tail(q)[i] = q[i + 1]
  BY <1>1, <1>2
<1>4. NoRepeat(Tail(q))
  <2> SUFFICES ASSUME NEW i \in 1..Len(Tail(q)), NEW j \in 1..Len(Tail(q)), Tail(q)[i] = Tail(q)[j]
               PROVE  i = j
    BY DEF NoRepeat
  <2>1. i + 1 = j + 1
    BY <1>3 DEF NoRepeat
  <2> QED BY <2>1, <1>1, <1>2
<1>5. \A n : Queued(Tail(q), n) => Queued(q, n)
  BY <1>3 DEF Queued
<1>6. 1 \in 1..Len(q)
  BY <1>1
<1>7. ~Queued(Tail(q), Head(q))
  BY <1>1, <1>3, <1>6 DEF Queued, NoRepeat
<1>8. Queued(q, Head(q))
  BY <1>1, <1>6 DEF Queued
<1> QED BY <1>4, <1>5, <1>7, <1>8

LEMMA EmptyQueue == NoRepeat(<<>>) /\ \A n : ~Queued(<<>>, n)
<1>1. Len(<<>>) = 0
  BY EmptySeq
<1> QED BY <1>1 DEF NoRepeat, Queued

\* What a step of command p may do to its queue.
Advances(p) ==
    /\ \A r \in Publishers \ {p} : queue'[r] = queue[r] /\ pc'[r] = pc[r] /\ frame'[r] = frame[r]
    /\ queue'[p] \in {queue[p], Tail(queue[p]), <<>>}
    /\ UNCHANGED <<date, used, listing>>

\* p writes to no place but that of its current dataset and its date.
WritesOwn(p) ==
    \A n \in Names, d \in Dates : n # Cur(p) \/ d # date[p] =>
      object'[n][d] = object[n][d] /\ versioned'[n][d] = versioned[n][d]

\* p has established what its next place takes for granted.
OwnProgress(p) ==
    /\ pc'[p] \in {"versioned", "latest"} => object'[Cur(p)'][date[p]] = frame'[p]
    /\ pc'[p] = "latest" => versioned'[Cur(p)'][date[p]] = Manifest(p)'

\* p leaves latest alone, or moves it and takes the next name.
MovesLatest(p) ==
    \/ latest' = latest
    \/ /\ pc[p] = "latest" /\ latest' = [latest EXCEPT ![Cur(p)] = Manifest(p)]
       /\ UNCHANGED <<object, versioned>> /\ queue'[p] = Tail(queue[p])

LEMMA QueuesShrink ==
    ASSUME SafeInv, TypeInv', NEW p \in Publishers, queue[p] # <<>>, Advances(p)
    PROVE  /\ \A r \in Publishers : NoRepeat(queue[r]) => NoRepeat(queue'[r])
           /\ \A r \in Publishers : queue'[r] # <<>> => queue[r] # <<>>
           /\ \A r \in Publishers, n \in Names : Queued(queue'[r], n) => Queued(queue[r], n)
<1>1. queue[p] \in Seq(Names) /\ NoRepeat(queue[p])
  BY DEF SafeInv, TypeInv, TypeOK, Apart, DatesApart
<1>2. /\ NoRepeat(queue'[p])
      /\ \A n \in Names : Queued(queue'[p], n) => Queued(queue[p], n)
  <2>1. CASE queue'[p] = queue[p]
    BY <2>1, <1>1
  <2>2. CASE queue'[p] = Tail(queue[p])
    BY <2>2, <1>1, TailQueued
  <2>3. CASE queue'[p] = <<>>
    BY <2>3, EmptyQueue
  <2> QED BY <2>1, <2>2, <2>3 DEF Advances
<1> QED BY <1>1, <1>2 DEF Advances

\* A step of a running command that writes to its own places keeps all apart.
LEMMA CommandStep ==
    ASSUME SafeInv, TypeInv', NEW p \in Publishers, pc[p] \notin {"idle", "exit"},
           Advances(p), WritesOwn(p), OwnProgress(p), MovesLatest(p)
    PROVE  Apart'
<1>1. queue[p] \in Seq(Names) /\ queue[p] # <<>> /\ Cur(p) \in Names
  BY CurIsName DEF SafeInv
<1>2. /\ NoRepeat(queue[p]) /\ Queued(queue[p], Cur(p))
      /\ ~Queued(Tail(queue[p]), Cur(p))
  BY <1>1, TailQueued DEF SafeInv, Apart, DatesApart, Cur
<1>3. /\ \A r \in Publishers : NoRepeat(queue[r]) => NoRepeat(queue'[r])
      /\ \A r \in Publishers : queue'[r] # <<>> => queue[r] # <<>>
      /\ \A r \in Publishers, n \in Names : Queued(queue'[r], n) => Queued(queue[r], n)
  BY <1>1, QueuesShrink
<1>4. date' = date /\ used' = used /\ listing' = listing
  BY DEF Advances
<1>5. DatesApart'
  BY <1>3, <1>4 DEF SafeInv, Apart, DatesApart
<1>6. Progress'
  <2> SUFFICES ASSUME NEW r \in Publishers
               PROVE  /\ pc'[r] \in {"versioned", "latest"} => object'[Cur(r)'][date'[r]] = frame'[r]
                      /\ pc'[r] = "latest" => versioned'[Cur(r)'][date'[r]] = Manifest(r)'
    BY DEF Progress
  <2>1. CASE r = p
    BY <2>1, <1>4 DEF OwnProgress
  <2>2. CASE r # p
    <3>1. pc'[r] = pc[r] /\ frame'[r] = frame[r] /\ Cur(r)' = Cur(r) /\ Manifest(r)' = Manifest(r)
      BY <2>2, <1>4 DEF Advances, Cur, Manifest
    <3>2. CASE pc[r] \in {"versioned", "latest"}
      <4>1. queue[r] # <<>> /\ Cur(r) \in Names /\ date[r] \in Dates
        BY <3>2, CurIsName DEF SafeInv, TypeInv, TypeOK
      <4>2. date[r] # date[p]
        BY <4>1, <1>1, <2>2 DEF SafeInv, Apart, DatesApart
      <4>3. /\ object'[Cur(r)][date[r]] = object[Cur(r)][date[r]]
            /\ versioned'[Cur(r)][date[r]] = versioned[Cur(r)][date[r]]
        BY <4>1, <4>2 DEF WritesOwn
      <4> QED BY <4>3, <3>1, <1>4 DEF SafeInv, Apart, Progress
    <3> QED BY <3>1, <3>2
  <2> QED BY <2>1, <2>2
<1>7. ASSUME NEW n \in Names, NEW m \in Manifests, Settled(n, m)
      PROVE  Settled(n, m)' /\ versioned'[n][m.date] = versioned[n][m.date]
  <2>1. m.date \in Dates
    BY DEF Manifests
  <2>2. n # Cur(p) \/ m.date # date[p]
    BY <1>2, <1>7 DEF Settled
  <2>3. object'[n][m.date] = object[n][m.date] /\ versioned'[n][m.date] = versioned[n][m.date]
    BY <2>1, <2>2 DEF WritesOwn
  <2>4. \A r \in Publishers : Queued(queue'[r], n) => date'[r] # m.date
    BY <1>3, <1>4, <1>7 DEF Settled
  <2> QED BY <2>3, <2>4, <1>4, <1>7 DEF Settled, Verifies, ObjectKey
<1>8. LatestSettled'
  <2> SUFFICES ASSUME NEW n \in Names, latest'[n] # None
               PROVE  Settled(n, latest[n])' /\ versioned'[n][latest'[n].date] = latest'[n]
    BY DEF LatestSettled
  <2>1. CASE latest'[n] = latest[n]
    <3>1. latest[n] \in Manifests /\ Settled(n, latest[n]) /\ versioned[n][latest[n].date] = latest[n]
      BY <2>1 DEF SafeInv, TypeInv, TypeOK, Apart, LatestSettled
    <3>3. latest[n]' = latest[n]
      BY <2>1
    <3>4. PICK m \in Manifests : m = latest[n]
      BY <3>1
    <3>5. Settled(n, m)' /\ versioned'[n][m.date] = versioned[n][m.date]
      BY <3>1, <3>4, <1>7
    <3>6. m = latest[n]'
      BY <3>3, <3>4
    <3> QED BY <3>1, <3>4, <3>5, <3>6 DEF Settled, Verifies, ObjectKey
  <2>2. CASE latest'[n] # latest[n]
    <3>1. /\ pc[p] = "latest" /\ latest' = [latest EXCEPT ![Cur(p)] = Manifest(p)]
          /\ UNCHANGED <<object, versioned>> /\ queue'[p] = Tail(queue[p])
      BY <2>2 DEF MovesLatest
    <3>2. n = Cur(p) /\ latest'[n] = Manifest(p)
      BY <3>1, <2>2 DEF SafeInv, TypeInv, TypeOK
    <3>3. object[n][date[p]] = frame[p] /\ versioned[n][date[p]] = Manifest(p)
      BY <3>1, <3>2 DEF SafeInv, Apart, Progress
    <3>4. Manifest(p).date = date[p] /\ Manifest(p).sha256 = frame[p]
      BY DEF Manifest
    <3>5. date[p] \in used
      BY <1>1 DEF SafeInv, Apart, DatesApart
    <3>6. ASSUME NEW r \in Publishers, Queued(queue'[r], n) PROVE date'[r] # date[p]
      <4>1. r # p
        BY <3>1, <3>2, <3>6, <1>2
      <4>2. queue[r] # <<>>
        BY <3>6, <1>3, EmptyQueue
      <4> QED BY <4>1, <4>2, <1>1, <1>4 DEF SafeInv, Apart, DatesApart
    <3> QED BY <3>1, <3>2, <3>3, <3>4, <3>5, <3>6, <1>4 DEF Settled, Verifies, ObjectKey
  <2> QED BY <2>1, <2>2
<1>9. ListingsSettled'
  <2> SUFFICES ASSUME NEW r \in Readers, listing[r] # None
               PROVE  Settled(listing[r][1], listing[r][2])'
    BY <1>4 DEF ListingsSettled
  <2>1. listing[r][1] \in Names /\ listing[r][2] \in Manifests /\ Settled(listing[r][1], listing[r][2])
    BY DEF SafeInv, TypeInv, TypeOK, Apart, ListingsSettled
  <2>2. PICK n \in Names, m \in Manifests : n = listing[r][1] /\ m = listing[r][2]
    BY <2>1
  <2>3. Settled(n, m)' /\ listing[r]' = listing[r]
    BY <2>1, <2>2, <1>7, <1>4
  <2> QED BY <2>2, <2>3 DEF Settled, Verifies, ObjectKey
<1> QED BY <1>5, <1>6, <1>8, <1>9 DEF Apart

-------------------------------------------------------------------------------
LEMMA NextNameAdvances ==
    ASSUME TypeInv, NEW p \in Publishers, NEW status, NextName(p, status), UNCHANGED <<used, listing>>
    PROVE  /\ Advances(p) /\ pc'[p] \notin {"versioned", "latest"}
           /\ queue'[p] = Tail(queue[p])
BY DEF TypeInv, TypeOK, NextName, Advances, command

\* A command that only moves on leaves all apart.
LEMMA QuietStep ==
    ASSUME SafeInv, TypeInv', NEW p \in Publishers, pc[p] \notin {"idle", "exit"},
           Advances(p), UNCHANGED store, pc'[p] \notin {"versioned", "latest"}
    PROVE  Apart'
<1>1. WritesOwn(p) /\ OwnProgress(p) /\ MovesLatest(p)
  BY DEF store, WritesOwn, OwnProgress, MovesLatest
<1> QED BY <1>1, CommandStep

\* The puts write to the places of their own command.
LEMMA PutsAreOwn ==
    ASSUME SafeInv, NEW p \in Publishers, NEW bytes,
           PutObject(p, bytes) \/ PutVersioned(p) \/ PutLatest(p)
    PROVE  WritesOwn(p) /\ (PutLatest(p) \/ latest' = latest)
<1>1. pc[p] \in {"store", "versioned", "latest"}
  BY DEF PutObject, PutVersioned, PutLatest
<1>2. Cur(p) \in Names /\ date[p] \in Dates
  BY <1>1, CurIsName DEF SafeInv, TypeInv, TypeOK
<1> QED BY <1>2 DEF SafeInv, TypeInv, TypeOK, PutObject, PutVersioned, PutLatest, WritesOwn, ObjectKey

LEMMA PublisherSafe == ASSUME SafeInv, TypeInv', NEW p \in Publishers, PublisherStep(p) PROVE Apart'
<1>t. TypeInv
  BY DEF SafeInv
<1>1. CASE Extract(p)
  <2>1. Advances(p) /\ pc'[p] = "build"
    BY <1>1, <1>t DEF Extract, Goto, Advances, command, TypeInv, TypeOK
  <2> QED BY <1>1, <2>1, QuietStep DEF Extract
<1>2. CASE ExtractRefused(p)
  BY <1>2, <1>t, NextNameAdvances, QuietStep DEF ExtractRefused
<1>3. CASE SkipEmpty(p)
  BY <1>3, <1>t, NextNameAdvances, QuietStep DEF SkipEmpty
<1>4. CASE DryRun(p)
  BY <1>4, <1>t, NextNameAdvances, QuietStep DEF DryRun
<1>5. CASE WriteParquet(p)
  <2>1. Advances(p) /\ pc'[p] = "store"
    BY <1>5, <1>t DEF WriteParquet, Goto, Advances, command, TypeInv, TypeOK
  <2> QED BY <1>5, <2>1, QuietStep DEF WriteParquet
<1>6. CASE StoreObject(p)
  <2>1. Advances(p) /\ pc'[p] = "check"
    BY <1>6, <1>t DEF StoreObject, Goto, Advances, command, TypeInv, TypeOK
  <2>2. WritesOwn(p) /\ MovesLatest(p)
    BY <1>6, PutsAreOwn DEF StoreObject, PutObject, MovesLatest
  <2> QED BY <1>6, <2>1, <2>2, CommandStep DEF StoreObject, PutObject, OwnProgress
<1>7. CASE CheckStored(p)
  <2>1. CASE Fail(p)
    BY <1>7, <2>1, <1>t, NextNameAdvances, QuietStep DEF CheckStored, Fail
  <2>2. CASE ~Fail(p)
    <3>1. /\ object[Cur(p)][date[p]] = frame[p] /\ Goto(p, "versioned") /\ UNCHANGED <<frame, store>>
          /\ pc[p] = "check"
      BY <1>7, <2>2 DEF CheckStored, ObjectKey
    <3>2. Advances(p) /\ pc'[p] = "versioned"
      BY <1>7, <3>1, <1>t DEF CheckStored, Goto, Advances, command, TypeInv, TypeOK
    <3>3. WritesOwn(p) /\ MovesLatest(p)
      BY <3>1 DEF store, WritesOwn, MovesLatest
    <3>4. OwnProgress(p)
      BY <3>1, <3>2 DEF OwnProgress, Cur, Goto, store
    <3> QED BY <3>1, <3>2, <3>3, <3>4, CommandStep
  <2> QED BY <2>1, <2>2
<1>8. CASE StoreVersioned(p)
  <2>1. Advances(p) /\ pc'[p] = "latest" /\ pc[p] = "versioned" /\ Cur(p)' = Cur(p) /\ Manifest(p)' = Manifest(p)
    BY <1>8, <1>t DEF StoreVersioned, PutVersioned, Goto, Advances, command, TypeInv, TypeOK, Cur, Manifest
  <2>2. WritesOwn(p) /\ MovesLatest(p)
    BY <1>8, PutsAreOwn DEF StoreVersioned, PutVersioned, MovesLatest
  <2>3. Cur(p) \in Names /\ date[p] \in Dates
    BY <2>1, <1>t, CurIsName DEF TypeInv, TypeOK
  <2>4. object'[Cur(p)][date[p]] = frame'[p]
    BY <1>8, <2>1 DEF StoreVersioned, PutVersioned, SafeInv, Apart, Progress
  <2>5. versioned'[Cur(p)][date[p]] = Manifest(p)
    BY <1>8, <2>3, <1>t DEF StoreVersioned, PutVersioned, TypeInv, TypeOK
  <2>6. OwnProgress(p)
    BY <2>1, <2>4, <2>5 DEF OwnProgress
  <2> QED BY <2>1, <2>2, <2>6, CommandStep
<1>9. CASE StoreLatest(p)
  <2>1. /\ Advances(p) /\ pc'[p] \notin {"versioned", "latest"} /\ queue'[p] = Tail(queue[p])
        /\ pc[p] = "latest"
    BY <1>9, <1>t, NextNameAdvances DEF StoreLatest, PutLatest
  <2>2. WritesOwn(p) /\ MovesLatest(p)
    BY <1>9, <2>1, PutsAreOwn DEF StoreLatest, PutLatest, MovesLatest
  <2> QED BY <2>1, <2>2, CommandStep DEF OwnProgress
<1>10. CASE Exit(p)
  <2>1. /\ \A r \in Publishers \ {p} : queue'[r] = queue[r] /\ pc'[r] = pc[r] /\ frame'[r] = frame[r]
        /\ queue'[p] = <<>> /\ pc'[p] = "idle"
        /\ UNCHANGED <<date, used, listing, store>>
    BY <1>10, <1>t DEF Exit, EndCommand, command, TypeInv, TypeOK
  <2>2. DatesApart'
    BY <2>1 DEF SafeInv, Apart, DatesApart
  <2>3. Progress'
    BY <2>1 DEF SafeInv, Apart, Progress, Cur, Manifest, store
  <2>4. \A r \in Publishers : \A n : Queued(queue'[r], n) => Queued(queue[r], n)
    BY <2>1, EmptyQueue
  <2>5. LatestSettled' /\ ListingsSettled'
    BY <2>1, <2>4 DEF SafeInv, Apart, LatestSettled, ListingsSettled, Settled, Verifies, ObjectKey, store
  <2> QED BY <2>2, <2>3, <2>5 DEF Apart
<1> QED BY <1>1, <1>2, <1>3, <1>4, <1>5, <1>6, <1>7, <1>8, <1>9, <1>10 DEF PublisherStep

LEMMA DisturbSafe == ASSUME SafeInv, TypeInv', NEW p \in Publishers, Disturb(p) PROVE Apart'
<1>t. TypeInv
  BY DEF SafeInv
<1>1. CASE ExtractError(p)
  BY <1>1, <1>t, NextNameAdvances, QuietStep DEF ExtractError, Fail
<1>2. CASE InvalidFrame(p)
  BY <1>2, <1>t, NextNameAdvances, QuietStep DEF InvalidFrame, Fail
<1>3. CASE StoreCorrupts(p)
  <2>1. Advances(p) /\ pc'[p] = "check"
    BY <1>3, <1>t DEF StoreCorrupts, Goto, Advances, command, TypeInv, TypeOK
  <2>2. WritesOwn(p) /\ MovesLatest(p)
    BY <1>3, PutsAreOwn DEF StoreCorrupts, PutObject, MovesLatest
  <2> QED BY <1>3, <2>1, <2>2, CommandStep DEF StoreCorrupts, PutObject, OwnProgress
<1>4. CASE StoreError(p)
  <2>1. /\ Advances(p) /\ pc'[p] \notin {"versioned", "latest"} /\ queue'[p] = Tail(queue[p])
        /\ pc[p] \in {"store", "check", "versioned", "latest"}
    BY <1>4, <1>t, NextNameAdvances DEF StoreError, Fail, PutObject, PutVersioned, PutLatest
  <2>2. OwnProgress(p)
    BY <2>1 DEF OwnProgress
  <2>3. CASE UNCHANGED store
    BY <2>1, <2>3, QuietStep
  <2>4. CASE PutObject(p, frame[p]) \/ PutVersioned(p) \/ PutLatest(p)
    <3>1. WritesOwn(p) /\ (PutLatest(p) \/ latest' = latest)
      BY <2>4, PutsAreOwn
    <3>2. MovesLatest(p)
      BY <2>1, <3>1 DEF PutLatest, MovesLatest
    <3> QED BY <2>1, <2>2, <3>1, <3>2, CommandStep
  <2> QED BY <1>4, <2>3, <2>4 DEF StoreError
<1>5. CASE Crash(p)
  <2>1. Advances(p) /\ pc'[p] = "idle"
    BY <1>5, <1>t DEF Crash, EndCommand, Advances, command, TypeInv, TypeOK
  <2> QED BY <1>5, <2>1, QuietStep DEF Crash, EndCommand
<1> QED BY <1>1, <1>2, <1>3, <1>4, <1>5 DEF Disturb

\* A new command has a date nobody used.
LEMMA DispatchSafe ==
    ASSUME FreshDates, SafeInv, NEW p \in Publishers, NEW d \in Dates, NEW isDry \in BOOLEAN,
           NEW q \in Requests, Dispatch(p, d, isDry, q)
    PROVE  Apart'
<1>1. /\ pc[p] = "idle" /\ d \notin used /\ used' = used \cup {d}
      /\ date'[p] = d /\ queue'[p] = q /\ pc'[p] = "extract"
      /\ UNCHANGED <<store, listing, frame>>
      /\ \A r \in Publishers \ {p} : date'[r] = date[r] /\ queue'[r] = queue[r] /\ pc'[r] = pc[r]
  BY DEF Dispatch, SafeInv, TypeInv, TypeOK
<1>2. NoRepeat(q)
  BY FreshAssumption DEF NoRepeat
<1>3. DatesApart'
  BY <1>1, <1>2 DEF SafeInv, Apart, DatesApart
<1>4. Progress'
  BY <1>1 DEF SafeInv, Apart, Progress, Cur, Manifest, store
<1>5. ASSUME NEW n, NEW m, Settled(n, m) PROVE Settled(n, m)'
  BY <1>1, <1>5 DEF Settled, Verifies, ObjectKey, store
<1>6. LatestSettled'
  BY <1>1, <1>5 DEF SafeInv, Apart, LatestSettled, Settled, Verifies, ObjectKey, store
<1>7. ListingsSettled'
  BY <1>1, <1>5 DEF SafeInv, Apart, ListingsSettled, Settled, Verifies, ObjectKey, store
<1> QED BY <1>3, <1>4, <1>6, <1>7 DEF Apart

LEMMA StepSafe == ASSUME FreshDates PROVE SafeInv /\ [Next]_vars => SafeInv'
<1> SUFFICES ASSUME SafeInv, [Next]_vars PROVE SafeInv'
  OBVIOUS
<1>0. TypeInv'
  BY StepType DEF SafeInv
<1> SUFFICES Apart'
  BY <1>0 DEF SafeInv
<1>1. ASSUME NEW r \in Readers, NEW n \in Names, LoadLatest(r, n)
      PROVE  Apart'
  <2>1. UNCHANGED <<store, publisher, used>> /\ \A k \in Readers \ {r} : listing'[k] = listing[k]
    BY <1>1 DEF LoadLatest, SafeInv, TypeInv, TypeOK
  <2>2. listing'[r] # None => latest[n] # None /\ listing'[r][1] = n /\ listing'[r][2] = latest[n]
    BY <1>1 DEF LoadLatest, SafeInv, TypeInv, TypeOK
  <2>3. DatesApart' /\ Progress' /\ LatestSettled'
    BY <2>1 DEF SafeInv, Apart, DatesApart, Progress, LatestSettled, Settled, Verifies, ObjectKey,
                Cur, Manifest, publisher, command, store
  <2>4. ListingsSettled'
    BY <2>1, <2>2 DEF SafeInv, Apart, LatestSettled, ListingsSettled, Settled, Verifies, ObjectKey,
                      publisher, command, store
  <2> QED BY <2>3, <2>4 DEF Apart
<1>2. ASSUME UNCHANGED <<store, publisher, listing, used>> PROVE Apart'
  BY <1>2 DEF SafeInv, Apart, DatesApart, Progress, LatestSettled, ListingsSettled, Settled, Verifies,
              ObjectKey, Cur, Manifest, publisher, command, store
<1>3. ASSUME NEW n \in Names, NEW f \in Frames \cup {Empty}, Ingest(n, f) PROVE Apart'
  BY <1>2, <1>3 DEF Ingest
<1>4. CASE UNCHANGED vars
  BY <1>2, <1>4 DEF vars
<1> QED BY <1>0, <1>1, <1>3, <1>4, PublisherSafe, DisturbSafe, DispatchSafe DEF Next

LEMMA InitSafe == Init => SafeInv
<1> SUFFICES ASSUME Init PROVE SafeInv
  OBVIOUS
<1>1. TypeInv
  BY InitType
<1>2. Apart
  BY EmptyQueue DEF Init, Apart, DatesApart, Progress, LatestSettled, ListingsSettled
<1> QED BY <1>1, <1>2 DEF SafeInv

LEMMA SafeAlways == ASSUME FreshDates PROVE Spec => []SafeInv
<1>1. SafeInv /\ [Next]_vars => SafeInv'
  BY StepSafe
<1> QED BY <1>1, InitSafe, PTL DEF Spec

\* When no date is published twice, the latest manifest names a complete and
\* checked version at every moment (_publish_one's order of puts).
THEOREM LatestComplete == ASSUME FreshDates PROVE Spec => []LatestIsComplete
<1>1. SafeInv => LatestIsComplete
  BY DEF SafeInv, Apart, LatestSettled, LatestIsComplete, Settled
<1> QED BY <1>1, SafeAlways, PTL

\* And an API listing, once handed out, can be downloaded and verified for good.
THEOREM ListingsDownloadable == ASSUME FreshDates PROVE Spec => []ListingsStayDownloadable
<1>1. SafeInv => ListingsStayDownloadable
  BY DEF SafeInv, Apart, ListingsSettled, ListingsStayDownloadable, Settled
<1> QED BY <1>1, SafeAlways, PTL

-------------------------------------------------------------------------------
(* A version reported as published *)

\* What a command reports as published has a dated manifest, of that date, that
\* no command will touch again.
ReportedSettled ==
    \A p \in Publishers, n \in Names : outcome[p][n] = "published" =>
      /\ versioned[n][date[p]] # None
      /\ versioned[n][date[p]].date = date[p]
      /\ Settled(n, versioned[n][date[p]])

\* A step of a command writes to its own places, or nowhere.
LEMMA OwnStep ==
    ASSUME SafeInv, NEW p \in Publishers, PublisherStep(p) \/ Disturb(p)
    PROVE  /\ Advances(p) /\ WritesOwn(p)
           /\ pc[p] \in {"idle", "exit"} => UNCHANGED store /\ queue'[p] = <<>>
<1>t. TypeInv
  BY DEF SafeInv
<1>s. UNCHANGED store => WritesOwn(p)
  BY DEF store, WritesOwn
<1>1. CASE Extract(p) \/ WriteParquet(p)
  BY <1>1, <1>t, <1>s DEF Extract, WriteParquet, Goto, Advances, command, TypeInv, TypeOK
<1>2. CASE ExtractRefused(p) \/ SkipEmpty(p) \/ DryRun(p)
  BY <1>2, <1>t, <1>s, NextNameAdvances DEF ExtractRefused, SkipEmpty, DryRun
<1>3. CASE ExtractError(p) \/ InvalidFrame(p)
  BY <1>3, <1>t, <1>s, NextNameAdvances DEF ExtractError, InvalidFrame, Fail
<1>4. CASE StoreObject(p) \/ StoreCorrupts(p)
  <2>1. WritesOwn(p) /\ pc[p] = "store"
    BY <1>4, PutsAreOwn DEF StoreObject, StoreCorrupts, PutObject
  <2>2. Advances(p)
    BY <1>4, <1>t DEF StoreObject, StoreCorrupts, Goto, Advances, command, TypeInv, TypeOK
  <2> QED BY <2>1, <2>2
<1>5. CASE CheckStored(p)
  <2>1. CASE Fail(p)
    BY <1>5, <2>1, <1>t, <1>s, NextNameAdvances DEF CheckStored, Fail
  <2>2. CASE Goto(p, "versioned") /\ UNCHANGED <<frame, hit>>
    BY <1>5, <2>2, <1>t, <1>s DEF CheckStored, Goto, Advances, command, TypeInv, TypeOK
  <2> QED BY <1>5, <2>1, <2>2 DEF CheckStored
<1>6. CASE StoreVersioned(p)
  <2>1. WritesOwn(p) /\ pc[p] = "versioned"
    BY <1>6, PutsAreOwn DEF StoreVersioned, PutVersioned
  <2>2. Advances(p)
    BY <1>6, <1>t DEF StoreVersioned, Goto, Advances, command, TypeInv, TypeOK
  <2> QED BY <2>1, <2>2
<1>7. CASE StoreLatest(p)
  <2>1. WritesOwn(p) /\ pc[p] = "latest"
    BY <1>7, PutsAreOwn DEF StoreLatest, PutLatest
  <2> QED BY <1>7, <2>1, <1>t, NextNameAdvances DEF StoreLatest
<1>8. CASE StoreError(p)
  <2>1. Advances(p) /\ pc[p] \in {"store", "check", "versioned", "latest"}
    BY <1>8, <1>t, NextNameAdvances DEF StoreError, Fail, PutObject, PutVersioned, PutLatest
  <2>2. WritesOwn(p)
    BY <1>8, <1>s, PutsAreOwn DEF StoreError
  <2> QED BY <2>1, <2>2
<1>9. CASE Exit(p) \/ Crash(p)
  BY <1>9, <1>t, <1>s DEF Exit, Crash, EndCommand, Advances, command, TypeInv, TypeOK
<1> QED BY <1>1, <1>2, <1>3, <1>4, <1>5, <1>6, <1>7, <1>8, <1>9 DEF PublisherStep, Disturb

\* What is settled stays settled, and its dated manifest stays as it is.
LEMMA SettledStays ==
    ASSUME FreshDates, SafeInv, TypeInv', [Next]_vars,
           NEW n \in Names, NEW m, m.date \in Dates, Settled(n, m)
    PROVE  Settled(n, m)' /\ versioned'[n][m.date] = versioned[n][m.date]
<1>1. ASSUME NEW p \in Publishers, PublisherStep(p) \/ Disturb(p)
      PROVE  Settled(n, m)' /\ versioned'[n][m.date] = versioned[n][m.date]
  <2>1. /\ Advances(p) /\ WritesOwn(p)
        /\ pc[p] \in {"idle", "exit"} => UNCHANGED store /\ queue'[p] = <<>>
    BY <1>1, OwnStep
  <2>2. object'[n][m.date] = object[n][m.date] /\ versioned'[n][m.date] = versioned[n][m.date]
    <3>1. CASE pc[p] \in {"idle", "exit"}
      BY <2>1, <3>1 DEF store
    <3>2. CASE pc[p] \notin {"idle", "exit"}
      <4>1. queue[p] \in Seq(Names) /\ queue[p] # <<>>
        BY <3>2, CurIsName DEF SafeInv
      <4>2. Queued(queue[p], Cur(p))
        BY <4>1, TailQueued DEF SafeInv, Apart, DatesApart, Cur
      <4>3. n # Cur(p) \/ m.date # date[p]
        BY <4>2 DEF Settled
      <4> QED BY <2>1, <4>3 DEF WritesOwn
    <3> QED BY <3>1, <3>2
  <2>3. \A r \in Publishers : Queued(queue'[r], n) => Queued(queue[r], n)
    <3>1. CASE queue[p] # <<>>
      BY <2>1, <3>1, QueuesShrink
    <3>2. CASE queue[p] = <<>>
      <4>1. queue'[p] = <<>>
        BY <2>1, <3>2, CurIsName DEF SafeInv
      <4> QED BY <2>1, <4>1, EmptyQueue DEF Advances
    <3> QED BY <3>1, <3>2
  <2> QED BY <2>1, <2>2, <2>3 DEF Settled, Verifies, ObjectKey, Advances
<1>2. ASSUME NEW p \in Publishers, NEW d \in Dates, NEW isDry \in BOOLEAN, NEW q \in Requests,
             Dispatch(p, d, isDry, q)
      PROVE  Settled(n, m)' /\ versioned'[n][m.date] = versioned[n][m.date]
  <2>1. /\ d \notin used /\ used' = used \cup {d} /\ date'[p] = d /\ UNCHANGED store
        /\ \A r \in Publishers \ {p} : date'[r] = date[r] /\ queue'[r] = queue[r]
    BY <1>2 DEF Dispatch, SafeInv, TypeInv, TypeOK
  <2> QED BY <2>1 DEF Settled, Verifies, ObjectKey, store
<1>3. ASSUME UNCHANGED <<store, publisher, used>>
      PROVE  Settled(n, m)' /\ versioned'[n][m.date] = versioned[n][m.date]
  BY <1>3 DEF Settled, Verifies, ObjectKey, store, publisher, command
<1>4. CASE UNCHANGED vars \/ (\E k \in Names, f \in Frames \cup {Empty} : Ingest(k, f))
           \/ (\E r \in Readers, k \in Names : LoadLatest(r, k))
  BY <1>3, <1>4 DEF vars, Ingest, LoadLatest
<1> QED BY <1>1, <1>2, <1>4 DEF Next

\* Only the put of a latest manifest ends with the outcome "published".
LEMMA NewlyPublished ==
    ASSUME TypeInv, [Next]_vars, NEW p \in Publishers, NEW n \in Names,
           outcome'[p][n] = "published"
    PROVE  /\ date'[p] = date[p]
           /\ outcome[p][n] = "published" \/ (StoreLatest(p) /\ n = Cur(p))
<1> USE DEF TypeInv, TypeOK
<1>1. ASSUME NEW r \in Publishers, NEW d \in Dates, NEW isDry \in BOOLEAN, NEW q \in Requests,
             Dispatch(r, d, isDry, q)
      PROVE  date'[p] = date[p] /\ outcome[p][n] = "published"
  BY <1>1 DEF Dispatch
<1>2. ASSUME NEW r \in Publishers, NEW status \in Statuses, NextName(r, status)
      PROVE  /\ date'[p] = date[p]
             /\ outcome[p][n] = "published" \/ (status = "published" /\ p = r /\ n = Cur(p))
  BY <1>2 DEF NextName, command
<1>3. ASSUME UNCHANGED <<date, outcome>>
      PROVE  date'[p] = date[p] /\ outcome[p][n] = "published"
  BY <1>3
<1>4. ASSUME NEW r \in Publishers, Extract(r) \/ WriteParquet(r) \/ StoreObject(r)
             \/ StoreVersioned(r) \/ StoreCorrupts(r) \/ Exit(r)
      PROVE  date'[p] = date[p] /\ outcome[p][n] = "published"
  BY <1>3, <1>4 DEF Extract, WriteParquet, StoreObject, StoreVersioned, StoreCorrupts, Exit,
                    EndCommand, Goto, command
<1>5. ASSUME NEW r \in Publishers, ExtractRefused(r) \/ SkipEmpty(r) \/ DryRun(r)
             \/ ExtractError(r) \/ InvalidFrame(r) \/ StoreError(r)
      PROVE  date'[p] = date[p] /\ outcome[p][n] = "published"
  <2>1. PICK status \in Statuses \ {"published"} : NextName(r, status)
    BY <1>5 DEF ExtractRefused, SkipEmpty, DryRun, ExtractError, InvalidFrame, StoreError, Fail,
                Statuses
  <2> QED BY <1>2, <2>1
<1>6. ASSUME NEW r \in Publishers, CheckStored(r)
      PROVE  date'[p] = date[p] /\ outcome[p][n] = "published"
  <2>1. NextName(r, "failed") \/ Goto(r, "versioned")
    BY <1>6 DEF CheckStored, Fail
  <2> QED BY <1>2, <1>3, <2>1 DEF Goto, command, Statuses
<1>7. ASSUME NEW r \in Publishers, StoreLatest(r)
      PROVE  /\ date'[p] = date[p]
             /\ outcome[p][n] = "published" \/ (StoreLatest(p) /\ n = Cur(p))
  BY <1>2, <1>7 DEF StoreLatest, Statuses
<1>8. ASSUME NEW r \in Publishers, Crash(r)
      PROVE  date'[p] = date[p] /\ outcome[p][n] = "published"
  BY <1>8 DEF Crash, EndCommand, command
<1>9. CASE UNCHANGED vars \/ (\E k \in Names, f \in Frames \cup {Empty} : Ingest(k, f))
           \/ (\E r \in Readers, k \in Names : LoadLatest(r, k))
  BY <1>3, <1>9 DEF vars, Ingest, LoadLatest, publisher, command
<1> QED BY <1>1, <1>4, <1>5, <1>6, <1>7, <1>8, <1>9 DEF Next, PublisherStep, Disturb

LEMMA ReportedStep ==
    ASSUME FreshDates, SafeInv, SafeInv', ReportedSettled, [Next]_vars
    PROVE  ReportedSettled'
<1> SUFFICES ASSUME NEW p \in Publishers, NEW n \in Names, outcome'[p][n] = "published"
             PROVE  /\ versioned'[n][date'[p]] # None
                    /\ versioned'[n][date'[p]].date = date'[p]
                    /\ Settled(n, versioned[n][date[p]])'
  BY DEF ReportedSettled
<1>1. /\ date'[p] = date[p]
      /\ outcome[p][n] = "published" \/ (StoreLatest(p) /\ n = Cur(p))
  BY NewlyPublished DEF SafeInv
<1>2. CASE outcome[p][n] = "published"
  <2> DEFINE m == versioned[n][date[p]]
  <2>1. m # None /\ m.date = date[p] /\ Settled(n, m) /\ m.date \in Dates
    BY <1>2 DEF ReportedSettled, SafeInv, TypeInv, TypeOK
  <2> HIDE DEF m
  <2>2. PICK k : k = m
    OBVIOUS
  <2>3. Settled(n, k)' /\ versioned'[n][k.date] = versioned[n][k.date]
    BY <2>1, <2>2, SettledStays DEF SafeInv
  <2>4. versioned'[n][date'[p]] = k
    BY <1>1, <2>1, <2>2, <2>3 DEF m
  <2> QED BY <1>1, <2>1, <2>2, <2>3, <2>4 DEF Settled, Verifies, ObjectKey
<1>3. CASE StoreLatest(p) /\ n = Cur(p)
  <2>1. pc[p] = "latest" /\ versioned' = versioned /\ latest'[n] = Manifest(p)
    BY <1>3 DEF StoreLatest, PutLatest, SafeInv, TypeInv, TypeOK
  <2>2. versioned[n][date[p]] = Manifest(p) /\ Manifest(p).date = date[p]
    BY <1>3, <2>1 DEF SafeInv, Apart, Progress, Manifest
  <2>3. Manifest(p) # None
    BY <2>1, NoneAssumption DEF SafeInv, TypeInv, TypeOK, QueueOK, Manifest, Manifests
  <2>4. Settled(n, latest[n])'
    BY <2>1, <2>3 DEF SafeInv, Apart, LatestSettled
  <2>5. versioned'[n][date'[p]] = latest'[n]
    BY <1>1, <2>1, <2>2
  <2> QED BY <1>1, <2>1, <2>2, <2>3, <2>4, <2>5 DEF Settled, Verifies, ObjectKey
<1> QED BY <1>1, <1>2, <1>3

\* A dataset reported as published keeps a complete version under its date, for
\* good, when no date is published twice (publish_datasets' outcomes).
THEOREM PublishedComplete == ASSUME FreshDates PROVE Spec => []PublishedMeansComplete
<1>1. Init => ReportedSettled
  BY DEF Init, ReportedSettled
<1>2. SafeInv /\ SafeInv' /\ ReportedSettled /\ [Next]_vars => ReportedSettled'
  BY ReportedStep
<1>3. ReportedSettled => PublishedMeansComplete
  BY DEF ReportedSettled, PublishedMeansComplete, Settled
<1> QED BY <1>1, <1>2, <1>3, SafeAlways, PTL DEF Spec
===============================================================================
