--------------------------- MODULE DailyIngestProofs ---------------------------
(*****************************************************************************)
(* Proofs about the daily ingest commands: for any plans, configuration and  *)
(* feed the assumptions of LoadSession and DailyIngest allow. What a record  *)
(* does to the transaction is stated once, by Grows: which rows it may add,  *)
(* and that it takes none away. On that rest the types and unique keys       *)
(* (TypeInv), exit codes (ExitInv), files and records of a running job       *)
(* (JobInv), lending instruments (SplitInv), what a run leaves of its files  *)
(* (KeptInv), absences (AbsenceInv) and newest files (FreshInv).             *)
(*****************************************************************************)
EXTENDS DailyIngest, SequenceTheorems, TLAPS

(************************** Sessions and rows added **************************)

\* What the transaction holds of a table, flushed or not.
All(s, t) == s.flushed[t] \cup s.added[t]

IsSession(s) ==
    /\ DOMAIN s = {"flushed", "added", "clash"}
    /\ DOMAIN s.flushed = Names /\ DOMAIN s.added = Names /\ s.clash \in BOOLEAN

KeysUnique(rows) == \A r1, r2 \in rows : r1.key = r2.key => r1 = r2
KeysApart(rows, more) == \A r1 \in rows, r2 \in more : r1.key # r2.key

\* The key of a quote: instrument, date, kind, and a revision from one.
IsNumbered(key) ==
    key = <<key[1], key[2], key[3], key[4]>> /\ key[4] \in Nat \ {0}

\* Every identity of the quotes has a newest revision.
IsLatest(q, rows) ==
    \A o \in rows : Identity(o) = Identity(q) => Revision(o) <= Revision(q)
Numbered(rows) ==
    /\ \A q \in rows : IsNumbered(q.key)
    /\ \A q \in rows : \E m \in rows : Identity(m) = Identity(q) /\ IsLatest(m, rows)

\* Unless two added rows share a key, the flushed and added rows of a table have
\* keys of their own.
Sound(s) ==
    /\ IsSession(s)
    /\ s.clash \/ \A t \in Names : /\ KeysUnique(s.flushed[t]) /\ KeysUnique(s.added[t])
                                   /\ KeysApart(s.flushed[t], s.added[t])
    /\ Numbered(s.flushed["quotes"]) /\ Numbered(All(s, "quotes"))

\* s2 has the rows of s and at most the pairs of table and row of N; a snapshot may be
\* replaced by one of the same key.
Grows(s, s2, N) ==
    /\ s.clash => s2.clash
    /\ \A t \in Names : \A r \in All(s2, t) : r \in All(s, t) \/ <<t, r>> \in N
    /\ \A t \in Names : \A r \in s2.added[t] : r \in s.added[t] \/ <<t, r>> \in N
    /\ \A t \in Names \ {"snapshots"} :
         s.flushed[t] \subseteq s2.flushed[t] /\ All(s, t) \subseteq All(s2, t)
    /\ Keys(All(s, "snapshots")) \subseteq Keys(All(s2, "snapshots"))

LEMMA NamesKnown ==
    /\ "identifiers" \in Names /\ "series" \in Names /\ "quotes" \in Names
    /\ "snapshots" \in Names /\ "events" \in Names /\ "absences" \in Names
    /\ "artifacts" \in Names /\ "runs" \in Names
  BY DEF Names

LEMMA TripleFacts ==
    ASSUME NEW a, NEW b, NEW c, NEW n
    PROVE  /\ Append(<<a, b, c>>, n) = <<a, b, c, n>>
           /\ Front(<<a, b, c, n>>) = <<a, b, c>>
           /\ Last(<<a, b, c, n>>) = n
<1> DEFINE S == {a, b, c, n}
           s == <<a, b, c>>
           u == <<a, b, c, n>>
<1>1. s \in Seq(S) /\ u \in Seq(S) /\ n \in S
  OBVIOUS
<1>2. Len(s) = 3 /\ Len(u) = 4
  OBVIOUS
<1>3. Append(s, n) = u
  <2>1. Append(s, n) \in Seq(S) /\ Len(Append(s, n)) = 4
    BY <1>1, <1>2, AppendProperties
  <2>2. \A i \in 1 .. 3 : Append(s, n)[i] = s[i]
    BY <1>1, <1>2, AppendProperties
  <2>3. Append(s, n)[4] = n
    BY <1>1, <1>2, AppendProperties
  <2>4. \A i \in 1 .. 4 : Append(s, n)[i] = u[i]
    BY <2>2, <2>3
  <2> HIDE DEF s, u
  <2> QED
    BY <2>1, <2>4, <1>1, <1>2, SeqEqual
<1>4. Last(u) = n
  BY <1>2 DEF Last
<1>5. Front(u) = s
  <2>1. Front(u) = SubSeq(u, 1, 3)
    BY <1>2 DEF Front
  <2>2. /\ SubSeq(u, 1, 3) \in Seq(S) /\ Len(SubSeq(u, 1, 3)) = 3
        /\ \A i \in 1 .. 3 : SubSeq(u, 1, 3)[i] = u[i]
    BY <1>1, <1>2
  <2>3. \A i \in 1 .. 3 : u[i] = s[i]
    OBVIOUS
  <2> HIDE DEF s, u
  <2> QED
    BY <2>1, <2>2, <2>3, <1>1, <1>2, SeqEqual
<1> QED
  BY <1>3, <1>4, <1>5

LEMMA QuoteKey ==
    ASSUME NEW q, IsNumbered(q.key)
    PROVE  /\ Identity(q) = <<q.key[1], q.key[2], q.key[3]>> /\ Revision(q) = q.key[4]
           /\ Revision(q) \in Nat \ {0}
           /\ q.key = <<Identity(q)[1], Identity(q)[2], Identity(q)[3], Revision(q)>>
<1> DEFINE a == q.key[1]  b == q.key[2]  c == q.key[3]  n == q.key[4]
<1>1. q.key = <<a, b, c, n>> /\ n \in Nat \ {0}
  BY DEF IsNumbered
<1> HIDE DEF a, b, c, n
<1>2. Append(<<a, b, c>>, n) = <<a, b, c, n>> /\ Front(<<a, b, c, n>>) = <<a, b, c>>
        /\ Last(<<a, b, c, n>>) = n
  BY TripleFacts
<1>3. Identity(q) = <<a, b, c>> /\ Revision(q) = n
  BY <1>1, <1>2 DEF Identity, Revision
<1> QED
  BY <1>1, <1>3 DEF a, b, c, n

LEMMA QuoteFields ==
    ASSUME NEW a, NEW b, NEW c, NEW n \in Nat \ {0}, NEW value, NEW sha
    PROVE  /\ Quote(<<a, b, c>>, n, value, sha).key = <<a, b, c, n>>
           /\ Quote(<<a, b, c>>, n, value, sha).value = value
           /\ Quote(<<a, b, c>>, n, value, sha).sha = sha
           /\ IsNumbered(Quote(<<a, b, c>>, n, value, sha).key)
           /\ Identity(Quote(<<a, b, c>>, n, value, sha)) = <<a, b, c>>
           /\ Revision(Quote(<<a, b, c>>, n, value, sha)) = n
<1> DEFINE q == Quote(<<a, b, c>>, n, value, sha)
<1>1. Append(<<a, b, c>>, n) = <<a, b, c, n>> /\ Front(<<a, b, c, n>>) = <<a, b, c>>
        /\ Last(<<a, b, c, n>>) = n
  BY TripleFacts
<1>2. q.key = <<a, b, c, n>> /\ q.value = value /\ q.sha = sha
  BY <1>1 DEF Quote
<1>3. IsNumbered(q.key)
  BY <1>2 DEF IsNumbered
<1>4. Identity(q) = <<a, b, c>> /\ Revision(q) = n
  BY <1>2, <1>1 DEF Identity, Revision
<1> HIDE DEF q
<1> QED
  BY <1>2, <1>3, <1>4 DEF q

LEMMA AddShape ==
    ASSUME NEW s, IsSession(s), NEW t \in Names, NEW rows
    PROVE  /\ IsSession(Add(s, t, rows))
           /\ Add(s, t, rows).flushed = s.flushed
           /\ Add(s, t, rows).added[t] = s.added[t] \cup rows
           /\ \A u \in Names \ {t} : Add(s, t, rows).added[u] = s.added[u]
           /\ Add(s, t, rows).clash <=>
                s.clash \/ Keys(rows) \cap Keys(All(s, t)) # {}
<1> DEFINE c == s.clash \/ Keys(rows) \cap Keys(s.flushed[t] \cup s.added[t]) # {}
           z == Add(s, t, rows)
<1>1. z = [s EXCEPT !.added[t] = @ \cup rows, !.clash = c]
  BY DEF Add
<1>2. c \in BOOLEAN
  OBVIOUS
<1> HIDE DEF z, c
<1>3. /\ z.flushed = s.flushed /\ z.added = [s.added EXCEPT ![t] = @ \cup rows]
      /\ z.clash = c /\ DOMAIN z = DOMAIN s
  BY <1>1 DEF IsSession
<1>4. /\ IsSession(z)
      /\ z.added[t] = s.added[t] \cup rows
      /\ \A u \in Names \ {t} : z.added[u] = s.added[u]
  BY <1>2, <1>3 DEF IsSession
<1>5. z.clash <=> c
  BY <1>3
<1> QED
  BY <1>3, <1>4, <1>5 DEF z, c, All

LEMMA FlushShape ==
    ASSUME NEW s, IsSession(s)
    PROVE  /\ IsSession(Flush(s))
           /\ \A u \in Names : Flush(s).flushed[u] = All(s, u) /\ Flush(s).added[u] = {}
           /\ Flush(s).clash <=> s.clash
<1> DEFINE g == [t \in Names |-> s.flushed[t] \cup s.added[t]]
           z == Flush(s)
<1>1. z = [s EXCEPT !.flushed = g, !.added = NoRows]
  BY DEF Flush
<1>2. DOMAIN g = Names /\ DOMAIN NoRows = Names /\ \A u \in Names : NoRows[u] = {} /\ g[u] = All(s, u)
  BY DEF NoRows, All
<1> HIDE DEF z, g
<1>3. z.flushed = g /\ z.added = NoRows /\ z.clash = s.clash /\ DOMAIN z = DOMAIN s
  BY <1>1 DEF IsSession
<1> QED
  BY <1>2, <1>3 DEF IsSession, z

LEMMA ReplaceShape ==
    ASSUME NEW s, IsSession(s), NEW t \in Names, NEW old, NEW row
    PROVE  /\ IsSession(Replace(s, t, old, row))
           /\ Replace(s, t, old, row).added = s.added
           /\ Replace(s, t, old, row).flushed[t] = (s.flushed[t] \ old) \cup {row}
           /\ \A u \in Names \ {t} : Replace(s, t, old, row).flushed[u] = s.flushed[u]
           /\ Replace(s, t, old, row).clash <=> s.clash
  BY DEF IsSession, Replace

New(t, rows) == {t} \X rows

LEMMA GrowsItself ==
    ASSUME NEW s
    PROVE  Grows(s, s, {})
  BY DEF Grows

LEMMA GrowsOn ==
    ASSUME NEW s, NEW s1, NEW s2, NEW N, NEW M, Grows(s, s1, N), Grows(s1, s2, M)
    PROVE  Grows(s, s2, N \cup M)
  BY DEF Grows

LEMMA GrowsMore ==
    ASSUME NEW s, NEW s2, NEW N, NEW M, Grows(s, s2, N), N \subseteq M
    PROVE  Grows(s, s2, M)
  BY DEF Grows

LEMMA AddKeeps ==
    ASSUME NEW s, Sound(s), NEW t \in Names, NEW rows, KeysUnique(rows),
           t = "quotes" => Numbered(All(s, "quotes") \cup rows)
    PROVE  /\ Sound(Add(s, t, rows)) /\ Grows(s, Add(s, t, rows), New(t, rows))
           /\ rows \subseteq All(Add(s, t, rows), t)
<1> DEFINE z == Add(s, t, rows)
<1>1. IsSession(s)
  BY DEF Sound
<1>2. /\ IsSession(z) /\ z.flushed = s.flushed
      /\ z.added[t] = s.added[t] \cup rows
      /\ \A u \in Names \ {t} : z.added[u] = s.added[u]
      /\ z.clash <=> s.clash \/ Keys(rows) \cap Keys(All(s, t)) # {}
  BY <1>1, AddShape
<1> HIDE DEF z
<1>3. \A u \in Names : All(z, u) = IF u = t THEN All(s, u) \cup rows ELSE All(s, u)
  BY <1>2 DEF All
<1>4. Numbered(z.flushed["quotes"]) /\ Numbered(All(z, "quotes"))
  <2>1. "quotes" \in Names
    BY NamesKnown
  <2> QED
    BY <1>2, <1>3, <2>1 DEF Sound
<1>5. ASSUME ~z.clash, NEW u \in Names
      PROVE  /\ KeysUnique(z.flushed[u]) /\ KeysUnique(z.added[u])
             /\ KeysApart(z.flushed[u], z.added[u])
  <2>1. /\ KeysUnique(s.flushed[u]) /\ KeysUnique(s.added[u])
        /\ KeysApart(s.flushed[u], s.added[u])
    BY <1>2, <1>5 DEF Sound
  <2>2. CASE u # t
    BY <2>1, <2>2, <1>2
  <2>3. CASE u = t
    <3>1. z.flushed[u] = s.flushed[u] /\ z.added[u] = s.added[u] \cup rows
      BY <1>2, <2>3
    <3>2. \A r1 \in rows, r2 \in All(s, t) : r1.key # r2.key
      BY <1>2, <1>5 DEF Keys
    <3>3. \A r1 \in rows : (\A r2 \in s.flushed[t] : r1.key # r2.key)
                        /\ (\A r2 \in s.added[t] : r1.key # r2.key)
      BY <3>2 DEF All
    <3> QED
      BY <2>1, <2>3, <3>1, <3>3 DEF KeysUnique, KeysApart
  <2> QED
    BY <2>2, <2>3
<1>6. Sound(z)
  BY <1>2, <1>4, <1>5 DEF Sound
<1>7. Grows(s, z, New(t, rows))
  <2>1. /\ \A u \in Names : \A r \in All(z, u) : r \in All(s, u) \/ <<u, r>> \in New(t, rows)
        /\ \A u \in Names : \A r \in z.added[u] : r \in s.added[u] \/ <<u, r>> \in New(t, rows)
    BY <1>2, <1>3 DEF New
  <2>2. \A u \in Names : s.flushed[u] \subseteq z.flushed[u] /\ All(s, u) \subseteq All(z, u)
    BY <1>2, <1>3
  <2>3. Keys(All(s, "snapshots")) \subseteq Keys(All(z, "snapshots"))
    BY <2>2, NamesKnown DEF Keys
  <2> QED
    BY <1>2, <2>1, <2>2, <2>3 DEF Grows
<1>8. rows \subseteq All(z, t)
  BY <1>3
<1> QED
  BY <1>6, <1>7, <1>8 DEF z

LEMMA FlushKeeps ==
    ASSUME NEW s, Sound(s)
    PROVE  Sound(Flush(s)) /\ Grows(s, Flush(s), {})
<1> DEFINE z == Flush(s)
<1>1. IsSession(s)
  BY DEF Sound
<1>2. /\ IsSession(z) /\ \A u \in Names : z.flushed[u] = All(s, u) /\ z.added[u] = {}
      /\ z.clash <=> s.clash
  BY <1>1, FlushShape
<1> HIDE DEF z
<1>3. \A u \in Names : All(z, u) = All(s, u)
  BY <1>2 DEF All
<1>4. Numbered(z.flushed["quotes"]) /\ Numbered(All(z, "quotes"))
  BY <1>2, <1>3, NamesKnown DEF Sound
<1>5. ASSUME ~z.clash, NEW u \in Names
      PROVE  /\ KeysUnique(z.flushed[u]) /\ KeysUnique(z.added[u])
             /\ KeysApart(z.flushed[u], z.added[u])
  <2>1. /\ KeysUnique(s.flushed[u]) /\ KeysUnique(s.added[u])
        /\ KeysApart(s.flushed[u], s.added[u])
    BY <1>2, <1>5 DEF Sound
  <2>2. z.flushed[u] = s.flushed[u] \cup s.added[u] /\ z.added[u] = {}
    BY <1>2 DEF All
  <2>3. KeysUnique(z.flushed[u])
    BY <2>1, <2>2 DEF KeysUnique, KeysApart
  <2> QED
    BY <2>2, <2>3 DEF KeysUnique, KeysApart
<1>6. Sound(z)
  BY <1>2, <1>4, <1>5 DEF Sound
<1>7. Grows(s, z, {})
  <2>1. /\ \A u \in Names : \A r \in All(z, u) : r \in All(s, u)
        /\ \A u \in Names : \A r \in z.added[u] : r \in s.added[u]
    BY <1>2, <1>3
  <2>2. \A u \in Names : s.flushed[u] \subseteq z.flushed[u] /\ All(s, u) \subseteq All(z, u)
    BY <1>2, <1>3 DEF All
  <2>3. Keys(All(s, "snapshots")) \subseteq Keys(All(z, "snapshots"))
    BY <2>2, NamesKnown DEF Keys
  <2> QED
    BY <1>2, <2>1, <2>2, <2>3 DEF Grows
<1> QED
  BY <1>6, <1>7 DEF z

LEMMA ReplaceKeeps ==
    ASSUME NEW s, Sound(s), NEW row, NEW old, old = Find(s, "snapshots", row.key), old # {}
    PROVE  /\ Sound(Replace(s, "snapshots", old, row))
           /\ Grows(s, Replace(s, "snapshots", old, row), New("snapshots", {row}))
           /\ row \in All(Replace(s, "snapshots", old, row), "snapshots")
<1> DEFINE z == Replace(s, "snapshots", old, row)
<1>1. IsSession(s) /\ "snapshots" \in Names
  BY NamesKnown DEF Sound
<1>2. /\ IsSession(z) /\ z.added = s.added
      /\ z.flushed["snapshots"] = (s.flushed["snapshots"] \ old) \cup {row}
      /\ \A u \in Names \ {"snapshots"} : z.flushed[u] = s.flushed[u]
      /\ z.clash <=> s.clash
  BY <1>1, ReplaceShape
<1>3. PICK r \in s.flushed["snapshots"] : r.key = row.key
  BY DEF Find
<1>4. \A o \in s.flushed["snapshots"] : o \in old <=> o.key = row.key
  BY DEF Find
<1> HIDE DEF z
<1>5. /\ z.flushed["snapshots"] = (s.flushed["snapshots"] \ old) \cup {row}
      /\ \A u \in Names \ {"snapshots"} : z.flushed[u] = s.flushed[u] /\ All(z, u) = All(s, u)
  BY <1>1, <1>2 DEF All
<1>6. Numbered(z.flushed["quotes"]) /\ Numbered(All(z, "quotes"))
  BY <1>5, NamesKnown DEF Sound
<1>7. ASSUME ~z.clash, NEW u \in Names
      PROVE  /\ KeysUnique(z.flushed[u]) /\ KeysUnique(z.added[u])
             /\ KeysApart(z.flushed[u], z.added[u])
  <2>1. /\ KeysUnique(s.flushed[u]) /\ KeysUnique(s.added[u])
        /\ KeysApart(s.flushed[u], s.added[u])
    BY <1>2, <1>7 DEF Sound
  <2>2. CASE u # "snapshots"
    BY <2>1, <2>2, <1>2, <1>5
  <2>3. CASE u = "snapshots"
    BY <2>1, <2>3, <1>2, <1>3, <1>4, <1>5 DEF KeysUnique, KeysApart
  <2> QED
    BY <2>2, <2>3
<1>8. Sound(z)
  BY <1>2, <1>6, <1>7 DEF Sound
<1>9. Grows(s, z, New("snapshots", {row}))
  <2>1. \A u \in Names : \A r1 \in All(z, u) :
           r1 \in All(s, u) \/ <<u, r1>> \in New("snapshots", {row})
    <3> TAKE u \in Names
    <3>1. CASE u # "snapshots"
      BY <3>1, <1>5
    <3>2. CASE u = "snapshots"
      BY <3>2, <1>2, <1>5 DEF All, New
    <3> QED
      BY <3>1, <3>2
  <2>2. \A u \in Names : \A r1 \in z.added[u] : r1 \in s.added[u]
    BY <1>2
  <2>3. \A u \in Names \ {"snapshots"} :
          s.flushed[u] \subseteq z.flushed[u] /\ All(s, u) \subseteq All(z, u)
    BY <1>5
  <2>4. Keys(All(s, "snapshots")) \subseteq Keys(All(z, "snapshots"))
    BY <1>2, <1>4, <1>5 DEF Keys, All
  <2> QED
    BY <1>2, <2>1, <2>2, <2>3, <2>4 DEF Grows
<1>10. row \in All(z, "snapshots")
  BY <1>5 DEF All
<1> QED
  BY <1>8, <1>9, <1>10 DEF z

LEMMA NumberedWith ==
    ASSUME NEW rows, Numbered(rows), NEW q, IsNumbered(q.key)
    PROVE  Numbered(rows \cup {q})
<1>1. /\ \A x \in rows : IsNumbered(x.key)
      /\ \A x \in rows : \E m \in rows : Identity(m) = Identity(x) /\ IsLatest(m, rows)
  BY DEF Numbered
<1>2. \A x \in rows \cup {q} : IsNumbered(x.key) /\ Revision(x) \in Nat
  BY <1>1, QuoteKey
<1>3. ASSUME NEW x \in rows \cup {q}
      PROVE  \E m \in rows \cup {q} : Identity(m) = Identity(x) /\ IsLatest(m, rows \cup {q})
  <2>1. CASE \A o \in rows : Identity(o) # Identity(x)
    <3>1. x = q
      BY <2>1
    <3>2. IsLatest(q, rows \cup {q})
      BY <2>1, <3>1, <1>2 DEF IsLatest
    <3> QED
      BY <3>1, <3>2
  <2>2. ASSUME NEW o \in rows, Identity(o) = Identity(x)
        PROVE  \E m \in rows \cup {q} : Identity(m) = Identity(x) /\ IsLatest(m, rows \cup {q})
    <3>1. PICK m \in rows : Identity(m) = Identity(x) /\ IsLatest(m, rows)
      BY <2>2, <1>1
    <3>2. CASE Identity(q) # Identity(x)
      BY <3>1, <3>2 DEF IsLatest
    <3>3. CASE Identity(q) = Identity(x) /\ Revision(q) <= Revision(m)
      BY <3>1, <3>3 DEF IsLatest
    <3>4. CASE Identity(q) = Identity(x) /\ ~(Revision(q) <= Revision(m))
      <4>1. \A y \in rows : Identity(y) = Identity(q) => Revision(y) <= Revision(q)
        BY <3>1, <3>4, <1>2 DEF IsLatest
      <4>2. Revision(q) <= Revision(q)
        BY <1>2
      <4>3. IsLatest(q, rows \cup {q})
        BY <4>1, <4>2 DEF IsLatest
      <4> QED
        BY <3>4, <4>3
    <3> QED
      BY <3>2, <3>3, <3>4
  <2> QED
    BY <2>1, <2>2
<1> QED
  BY <1>2, <1>3 DEF Numbered

LEMMA NumberedFirsts ==
    ASSUME NEW rows, Numbered(rows), NEW firsts,
           \A q \in firsts : IsNumbered(q.key) /\ Revision(q) = 1
    PROVE  Numbered(rows \cup firsts)
<1>1. /\ \A x \in rows : IsNumbered(x.key)
      /\ \A x \in rows : \E m \in rows : Identity(m) = Identity(x) /\ IsLatest(m, rows)
  BY DEF Numbered
<1>2. \A x \in rows \cup firsts : IsNumbered(x.key) /\ Revision(x) \in Nat \ {0}
  BY <1>1, QuoteKey
<1>3. ASSUME NEW x \in rows \cup firsts
      PROVE  \E m \in rows \cup firsts :
                Identity(m) = Identity(x) /\ IsLatest(m, rows \cup firsts)
  <2>1. CASE \A o \in rows : Identity(o) # Identity(x)
    <3>1. x \in firsts
      BY <2>1
    <3>2. IsLatest(x, rows \cup firsts)
      BY <2>1, <3>1, <1>2 DEF IsLatest
    <3> QED
      BY <3>1, <3>2
  <2>2. ASSUME NEW o \in rows, Identity(o) = Identity(x)
        PROVE  \E m \in rows \cup firsts :
                  Identity(m) = Identity(x) /\ IsLatest(m, rows \cup firsts)
    <3>1. PICK m \in rows : Identity(m) = Identity(x) /\ IsLatest(m, rows)
      BY <2>2, <1>1
    <3>2. \A y \in firsts : Revision(y) <= Revision(m)
      BY <1>2
    <3>3. IsLatest(m, rows \cup firsts)
      BY <3>1, <3>2 DEF IsLatest
    <3> QED
      BY <3>1, <3>3
  <2> QED
    BY <2>1, <2>2
<1> QED
  BY <1>2, <1>3 DEF Numbered

(**************************** Operators of Tables ****************************)

LEMMA AttachKeeps ==
    ASSUME NEW s, Sound(s), NEW type, NEW value, NEW source, NEW instrument
    PROVE  /\ Sound(Attach(s, type, value, source, instrument))
           /\ Grows(s, Attach(s, type, value, source, instrument),
                    New("identifiers", {Identifier(type, value, source, instrument)}))
           /\ <<type, value, source>> \in
                 Keys(All(Attach(s, type, value, source, instrument), "identifiers"))
<1> DEFINE row == Identifier(type, value, source, instrument)
           z == Attach(s, type, value, source, instrument)
<1>1. row.key = <<type, value, source>>
  BY DEF Identifier
<1>2. CASE OwnersOf(s, type, value, source) # {}
  <2>1. z = s
    BY <1>2 DEF Attach
  <2>2. \E r \in s.flushed["identifiers"] : r.key = <<type, value, source>>
    BY <1>2 DEF OwnersOf, Find
  <2>3. <<type, value, source>> \in Keys(All(s, "identifiers"))
    BY <2>2 DEF Keys, All
  <2> HIDE DEF row
  <2>4. Grows(s, s, New("identifiers", {row}))
    BY GrowsItself, GrowsMore
  <2> QED
    BY <2>1, <2>3, <2>4 DEF row
<1>3. CASE OwnersOf(s, type, value, source) = {}
  <2>1. z = Add(s, "identifiers", {row})
    BY <1>3 DEF Attach
  <2> HIDE DEF row
  <2>2. KeysUnique({row}) /\ "identifiers" \in Names
    BY NamesKnown DEF KeysUnique
  <2>3. /\ Sound(Add(s, "identifiers", {row}))
        /\ Grows(s, Add(s, "identifiers", {row}), New("identifiers", {row}))
        /\ {row} \subseteq All(Add(s, "identifiers", {row}), "identifiers")
    BY <2>2, AddKeeps
  <2>4. <<type, value, source>> \in Keys(All(Add(s, "identifiers", {row}), "identifiers"))
    BY <1>1, <2>3 DEF Keys
  <2> QED
    BY <2>1, <2>3, <2>4 DEF row
<1> QED
  BY <1>2, <1>3

LEMMA GetOrCreateKeeps ==
    ASSUME NEW s, Sound(s), NEW source, NEW sourceKey
    PROVE  /\ Sound(GetOrCreate(s, source, sourceKey))
           /\ Grows(s, GetOrCreate(s, source, sourceKey),
                    New("identifiers", {Identifier("SOURCE_ID", sourceKey, source,
                                                   Instrument(source, sourceKey))}))
           /\ <<"SOURCE_ID", sourceKey, source>> \in
                 Keys(GetOrCreate(s, source, sourceKey).flushed["identifiers"])
<1> DEFINE row == Identifier("SOURCE_ID", sourceKey, source, Instrument(source, sourceKey))
           z == GetOrCreate(s, source, sourceKey)
<1>1. row.key = <<"SOURCE_ID", sourceKey, source>> /\ "identifiers" \in Names
  BY NamesKnown DEF Identifier
<1>2. CASE OwnersOf(s, "SOURCE_ID", sourceKey, source) # {}
  <2>1. z = s
    BY <1>2 DEF GetOrCreate
  <2>2. <<"SOURCE_ID", sourceKey, source>> \in Keys(s.flushed["identifiers"])
    BY <1>2 DEF OwnersOf, Find, Keys
  <2> HIDE DEF row
  <2>3. Grows(s, s, New("identifiers", {row}))
    BY GrowsItself, GrowsMore
  <2> QED
    BY <2>1, <2>2, <2>3 DEF row
<1>3. CASE OwnersOf(s, "SOURCE_ID", sourceKey, source) = {}
  <2>1. z = Flush(Add(Flush(s), "identifiers", {row}))
    BY <1>3 DEF GetOrCreate
  <2> HIDE DEF row
  <2> DEFINE s1 == Flush(s)
             s2 == Add(s1, "identifiers", {row})
  <2>2. KeysUnique({row})
    BY DEF KeysUnique
  <2>3. Sound(s1) /\ Grows(s, s1, {})
    BY FlushKeeps
  <2> HIDE DEF s1
  <2>4. /\ Sound(s2) /\ Grows(s1, s2, New("identifiers", {row}))
        /\ {row} \subseteq All(s2, "identifiers")
    BY <1>1, <2>2, <2>3, AddKeeps
  <2> HIDE DEF s2
  <2>5. Sound(Flush(s2)) /\ Grows(s2, Flush(s2), {})
    BY <2>4, FlushKeeps
  <2>6. Flush(s2).flushed["identifiers"] = All(s2, "identifiers")
    BY <1>1, <2>4, FlushShape DEF Sound
  <2>7. Grows(s, s2, {} \cup New("identifiers", {row}))
    BY <2>3, <2>4, GrowsOn
  <2>8. Grows(s, Flush(s2), ({} \cup New("identifiers", {row})) \cup {})
    BY <2>5, <2>7, GrowsOn
  <2>9. Grows(s, Flush(s2), New("identifiers", {row}))
    BY <2>8, GrowsMore
  <2>10. <<"SOURCE_ID", sourceKey, source>> \in Keys(Flush(s2).flushed["identifiers"])
    BY <1>1, <2>4, <2>6 DEF Keys
  <2> QED
    BY <2>1, <2>5, <2>9, <2>10 DEF row, s1, s2
<1> QED
  BY <1>2, <1>3

LEMMA AddFlushedKeeps ==
    ASSUME NEW s, Sound(s), NEW t \in Names, t # "quotes", NEW row
    PROVE  /\ Sound(Flush(Add(s, t, {row})))
           /\ Grows(s, Flush(Add(s, t, {row})), New(t, {row}))
           /\ row \in Flush(Add(s, t, {row})).flushed[t]
<1> DEFINE z == Add(s, t, {row})
<1>1. KeysUnique({row})
  BY DEF KeysUnique
<1>2. Sound(z) /\ Grows(s, z, New(t, {row})) /\ {row} \subseteq All(z, t)
  BY <1>1, AddKeeps
<1> HIDE DEF z
<1>3. Sound(Flush(z)) /\ Grows(z, Flush(z), {})
  BY <1>2, FlushKeeps
<1>4. Flush(z).flushed[t] = All(z, t)
  BY <1>2, FlushShape DEF Sound
<1>5. Grows(s, Flush(z), New(t, {row}) \cup {})
  BY <1>2, <1>3, GrowsOn
<1>6. Grows(s, Flush(z), New(t, {row}))
  BY <1>5, GrowsMore
<1>7. row \in Flush(z).flushed[t]
  BY <1>2, <1>4
<1> QED
  BY <1>3, <1>6, <1>7 DEF z

LEMMA StoreArtifactKeeps ==
    ASSUME NEW s, Sound(s), NEW number, NEW kind, NEW sha
    PROVE  /\ Sound(StoreArtifact(s, number, kind, sha))
           /\ Grows(s, StoreArtifact(s, number, kind, sha),
                    New("artifacts", {[key |-> <<number, kind, sha>>]}))
           /\ [key |-> <<number, kind, sha>>] \in
                 StoreArtifact(s, number, kind, sha).flushed["artifacts"]
<1>1. PICK row : row = [key |-> <<number, kind, sha>>]
  OBVIOUS
<1>2. "artifacts" \in Names
  BY NamesKnown
<1>3. StoreArtifact(s, number, kind, sha) = Flush(Add(s, "artifacts", {row}))
  BY <1>1 DEF StoreArtifact
<1> QED
  BY <1>1, <1>2, <1>3, AddFlushedKeeps

\* A run row, as StartRun adds it.
RunRow(number, loader, date, full, status) ==
    [key |-> <<number>>, loader |-> loader, date |-> date, full |-> full, status |-> status]

LEMMA StartRunKeeps ==
    ASSUME NEW s, Sound(s), NEW number, NEW loader, NEW date, NEW full
    PROVE  /\ Sound(StartRun(s, number, loader, date, full))
           /\ Grows(s, StartRun(s, number, loader, date, full),
                    New("runs", {RunRow(number, loader, date, full, "STARTED")}))
           /\ RunRow(number, loader, date, full, "STARTED") \in
                 StartRun(s, number, loader, date, full).flushed["runs"]
<1>1. PICK row : row = RunRow(number, loader, date, full, "STARTED")
  OBVIOUS
<1>2. "runs" \in Names
  BY NamesKnown
<1>3. StartRun(s, number, loader, date, full) = Flush(Add(s, "runs", {row}))
  BY <1>1 DEF StartRun, RunRow
<1> QED
  BY <1>1, <1>2, <1>3, AddFlushedKeeps

SeriesRow(source, code) == [key |-> <<code>>, source |-> source]

LEMMA GetOrCreateSeriesKeeps ==
    ASSUME NEW s, Sound(s), NEW source, NEW code
    PROVE  /\ Sound(GetOrCreateSeries(s, source, code))
           /\ Grows(s, GetOrCreateSeries(s, source, code),
                    New("series", {SeriesRow(source, code)}))
<1>1. PICK row : row = SeriesRow(source, code)
  OBVIOUS
<1>2. CASE Find(s, "series", <<code>>) # {}
  <2>1. GetOrCreateSeries(s, source, code) = s
    BY <1>2 DEF GetOrCreateSeries
  <2>2. Grows(s, s, New("series", {row}))
    BY GrowsItself, GrowsMore
  <2> QED
    BY <1>1, <2>1, <2>2
<1>3. CASE Find(s, "series", <<code>>) = {}
  <2>1. GetOrCreateSeries(s, source, code) = Flush(Add(s, "series", {row}))
    BY <1>1, <1>3 DEF GetOrCreateSeries, SeriesRow
  <2>2. /\ Sound(Flush(Add(s, "series", {row})))
        /\ Grows(s, Flush(Add(s, "series", {row})), New("series", {row}))
    BY NamesKnown, AddFlushedKeeps
  <2> QED
    BY <1>1, <2>1, <2>2
<1> QED
  BY <1>2, <1>3

LEMMA RecordAbsenceKeeps ==
    ASSUME NEW s, Sound(s), NEW instrument, NEW date
    PROVE  /\ Sound(RecordAbsence(s, instrument, date))
           /\ Grows(s, RecordAbsence(s, instrument, date),
                    New("absences", {[key |-> <<instrument, date>>]}))
           /\ <<instrument, date>> \in Keys(RecordAbsence(s, instrument, date).flushed["absences"])
<1>1. PICK row : row = [key |-> <<instrument, date>>]
  OBVIOUS
<1>2. CASE Find(s, "absences", <<instrument, date>>) # {}
  <2>1. RecordAbsence(s, instrument, date) = s
    BY <1>2 DEF RecordAbsence
  <2>2. Grows(s, s, New("absences", {row}))
    BY GrowsItself, GrowsMore
  <2>3. <<instrument, date>> \in Keys(s.flushed["absences"])
    BY <1>2 DEF Find, Keys
  <2> QED
    BY <1>1, <2>1, <2>2, <2>3
<1>3. CASE Find(s, "absences", <<instrument, date>>) = {}
  <2>1. RecordAbsence(s, instrument, date) = Flush(Add(s, "absences", {row}))
    BY <1>1, <1>3 DEF RecordAbsence
  <2>2. /\ Sound(Flush(Add(s, "absences", {row})))
        /\ Grows(s, Flush(Add(s, "absences", {row})), New("absences", {row}))
        /\ row \in Flush(Add(s, "absences", {row})).flushed["absences"]
    BY NamesKnown, AddFlushedKeeps
  <2>3. <<instrument, date>> \in Keys(Flush(Add(s, "absences", {row})).flushed["absences"])
    BY <1>1, <2>2 DEF Keys
  <2> QED
    BY <1>1, <2>1, <2>2, <2>3
<1> QED
  BY <1>2, <1>3

LEMMA UpsertEventKeeps ==
    ASSUME NEW s, Sound(s), NEW key, NEW instrument
    PROVE  /\ Sound(UpsertEvent(s, key, instrument))
           /\ Grows(s, UpsertEvent(s, key, instrument),
                    New("events", {[key |-> key, instrument |-> instrument]}))
           /\ key \in Keys(All(UpsertEvent(s, key, instrument), "events"))
<1>1. PICK row : row = [key |-> key, instrument |-> instrument]
  OBVIOUS
<1>2. CASE Find(s, "events", key) # {}
  <2>1. UpsertEvent(s, key, instrument) = s
    BY <1>2 DEF UpsertEvent
  <2>2. Grows(s, s, New("events", {row}))
    BY GrowsItself, GrowsMore
  <2>3. key \in Keys(All(s, "events"))
    BY <1>2 DEF Find, Keys, All
  <2> QED
    BY <1>1, <2>1, <2>2, <2>3
<1>3. CASE Find(s, "events", key) = {}
  <2>1. UpsertEvent(s, key, instrument) = Add(s, "events", {row})
    BY <1>1, <1>3 DEF UpsertEvent
  <2>2. KeysUnique({row}) /\ "events" \in Names
    BY NamesKnown DEF KeysUnique
  <2>3. /\ Sound(Add(s, "events", {row}))
        /\ Grows(s, Add(s, "events", {row}), New("events", {row}))
        /\ {row} \subseteq All(Add(s, "events", {row}), "events")
    BY <2>2, AddKeeps
  <2>4. key \in Keys(All(Add(s, "events", {row}), "events"))
    BY <1>1, <2>3 DEF Keys
  <2> QED
    BY <1>1, <2>1, <2>3, <2>4
<1> QED
  BY <1>2, <1>3

Identities(rows) == {Identity(q) : q \in rows}

LEMMA LatestExists ==
    ASSUME NEW rows, Numbered(rows), NEW identity, Revisions(rows, identity) # {}
    PROVE  /\ LatestOf(Revisions(rows, identity)) \in Revisions(rows, identity)
           /\ \A o \in Revisions(rows, identity) :
                Revision(o) <= Revision(LatestOf(Revisions(rows, identity)))
           /\ Revision(LatestOf(Revisions(rows, identity))) \in Nat \ {0}
<1> DEFINE mine == Revisions(rows, identity)
<1>1. PICK q \in rows : Identity(q) = identity
  BY DEF Revisions
<1>2. PICK m \in rows : Identity(m) = identity /\ IsLatest(m, rows)
  BY <1>1 DEF Numbered
<1>3. m \in mine /\ \A o \in mine : Revision(o) <= Revision(m)
  BY <1>2 DEF Revisions, IsLatest
<1> HIDE DEF mine
<1>4. LatestOf(mine) \in mine /\ \A o \in mine : Revision(o) <= Revision(LatestOf(mine))
  BY <1>3 DEF LatestOf
<1>5. \A o \in mine : Revision(o) \in Nat \ {0}
  BY QuoteKey DEF mine, Revisions, Numbered
<1>6. Revision(LatestOf(mine)) \in Nat \ {0}
  BY <1>4, <1>5
<1> QED
  BY <1>4, <1>6 DEF mine

\* The revision upsert_quote gives a new row of an identity.
NextRevision(s, identity) ==
    IF Revisions(s.flushed["quotes"], identity) = {} THEN 1
    ELSE Revision(LatestOf(Revisions(s.flushed["quotes"], identity))) + 1

LEMMA UpsertQuoteKeeps ==
    ASSUME NEW s, Sound(s), NEW i, NEW d, NEW k, NEW value, NEW sha
    PROVE  /\ NextRevision(s, <<i, d, k>>) \in Nat \ {0}
           /\ Sound(UpsertQuote(s, <<i, d, k>>, value, sha))
           /\ Grows(s, UpsertQuote(s, <<i, d, k>>, value, sha),
                    New("quotes", {Quote(<<i, d, k>>, NextRevision(s, <<i, d, k>>), value, sha)}))
           /\ <<i, d, k>> \in Identities(All(UpsertQuote(s, <<i, d, k>>, value, sha), "quotes"))
<1> DEFINE identity == <<i, d, k>>
           stored   == Revisions(s.flushed["quotes"], identity)
           n        == NextRevision(s, identity)
           z        == UpsertQuote(s, identity, value, sha)
<1>1. Numbered(s.flushed["quotes"]) /\ Numbered(All(s, "quotes"))
  BY DEF Sound
<1>2. stored # {} => /\ LatestOf(stored) \in stored
                     /\ Revision(LatestOf(stored)) \in Nat \ {0}
  BY <1>1, LatestExists
<1>3. n \in Nat \ {0}
  BY <1>2 DEF NextRevision
<1> HIDE DEF n
<1>4. PICK q : q = Quote(identity, n, value, sha)
  OBVIOUS
<1>5. IsNumbered(q.key) /\ Identity(q) = identity
  BY <1>3, <1>4, QuoteFields
<1>6. CASE stored # {} /\ LatestOf(stored).sha = sha
  <2>1. z = s
    BY <1>6 DEF UpsertQuote
  <2>2. identity \in Identities(All(s, "quotes"))
    BY <1>6, <1>2 DEF Revisions, Identities, All
  <2>3. Grows(s, s, New("quotes", {q}))
    BY GrowsItself, GrowsMore
  <2> QED
    BY <1>3, <1>4, <2>1, <2>2, <2>3 DEF n
<1>7. CASE ~(stored # {} /\ LatestOf(stored).sha = sha)
  <2>1. z = Add(s, "quotes", {q})
    BY <1>4, <1>7 DEF UpsertQuote, n, NextRevision
  <2>2. KeysUnique({q}) /\ "quotes" \in Names
    BY NamesKnown DEF KeysUnique
  <2>3. Numbered(All(s, "quotes") \cup {q})
    BY <1>1, <1>5, NumberedWith
  <2>4. /\ Sound(Add(s, "quotes", {q})) /\ Grows(s, Add(s, "quotes", {q}), New("quotes", {q}))
        /\ {q} \subseteq All(Add(s, "quotes", {q}), "quotes")
    BY <2>2, <2>3, AddKeeps
  <2>5. identity \in Identities(All(Add(s, "quotes", {q}), "quotes"))
    BY <1>5, <2>4 DEF Identities
  <2> QED
    BY <1>3, <1>4, <2>1, <2>4, <2>5 DEF n
<1> QED
  BY <1>6, <1>7

SnapshotRow(key, instrument, value) == [key |-> key, instrument |-> instrument, value |-> value]

\* Instruments a snapshot may get: the one given, or the one it has.
SnapshotOwner(s, key, given, i) ==
    \/ i = given
    \/ \E r \in s.flushed["snapshots"] : r.key = key /\ r.instrument = i

LEMMA UpsertSnapshotKeeps ==
    ASSUME NEW s, Sound(s), NEW key, NEW instrument, NEW value
    PROVE  /\ Sound(UpsertSnapshot(s, key, instrument, value))
           /\ key \in Keys(All(UpsertSnapshot(s, key, instrument, value), "snapshots"))
           /\ \E i : /\ SnapshotOwner(s, key, instrument, i)
                     /\ Grows(s, UpsertSnapshot(s, key, instrument, value),
                              New("snapshots", {SnapshotRow(key, i, value)}))
<1> DEFINE stored == Find(s, "snapshots", key)
           kept   == {r.instrument : r \in stored}
           z      == UpsertSnapshot(s, key, instrument, value)
<1>1. CASE stored = {}
  <2>1. PICK row : row = SnapshotRow(key, instrument, value)
    OBVIOUS
  <2>2. z = Add(s, "snapshots", {row})
    BY <1>1, <2>1 DEF UpsertSnapshot, SnapshotRow
  <2>3. KeysUnique({row}) /\ "snapshots" \in Names
    BY NamesKnown DEF KeysUnique
  <2>4. /\ Sound(Add(s, "snapshots", {row}))
        /\ Grows(s, Add(s, "snapshots", {row}), New("snapshots", {row}))
        /\ {row} \subseteq All(Add(s, "snapshots", {row}), "snapshots")
    BY <2>3, AddKeeps
  <2>5. row.key = key
    BY <2>1 DEF SnapshotRow
  <2>6. key \in Keys(All(Add(s, "snapshots", {row}), "snapshots"))
    BY <2>4, <2>5 DEF Keys
  <2>7. SnapshotOwner(s, key, instrument, instrument)
    BY DEF SnapshotOwner
  <2> QED
    BY <2>1, <2>2, <2>4, <2>6, <2>7
<1>2. CASE stored # {}
  <2>1. PICK i : i = IF instrument # NoInstrument THEN instrument ELSE CHOOSE own \in kept : TRUE
    OBVIOUS
  <2>2. PICK row : row = SnapshotRow(key, i, value)
    OBVIOUS
  <2>3. z = Replace(s, "snapshots", stored, row)
    BY <1>2, <2>1, <2>2 DEF UpsertSnapshot, SnapshotRow
  <2>4. row.key = key
    BY <2>2 DEF SnapshotRow
  <2>5. /\ Sound(Replace(s, "snapshots", stored, row))
        /\ Grows(s, Replace(s, "snapshots", stored, row), New("snapshots", {row}))
        /\ row \in All(Replace(s, "snapshots", stored, row), "snapshots")
    BY <1>2, <2>4, ReplaceKeeps
  <2>6. key \in Keys(All(Replace(s, "snapshots", stored, row), "snapshots"))
    BY <2>4, <2>5 DEF Keys
  <2>7. kept # {}
    BY <1>2
  <2>8. i = instrument \/ i \in kept
    BY <2>1, <2>7
  <2>9. SnapshotOwner(s, key, instrument, i)
    BY <2>8 DEF SnapshotOwner, Find
  <2> QED
    BY <2>2, <2>3, <2>5, <2>6, <2>9
<1> QED
  BY <1>1, <1>2

FundKey(r) == r.ticker \o ":" \o r.sub
FundInstrument(r) == Instrument("cvm", FundKey(r))
FundIdentifiers(r) ==
    IF r.sub = ""
    THEN {Identifier("CNPJ_FUNDO_CLASSE", r.ticker, "cvm", FundInstrument(r)),
          Identifier("CNPJ", r.ticker, "cvm", FundInstrument(r))}
    ELSE {Identifier("CVM_SUBCLASS_ID", r.sub, "cvm", FundInstrument(r))}

LEMMA GetOrCreateFundKeeps ==
    ASSUME NEW s, Sound(s), NEW r
    PROVE  /\ Sound(GetOrCreateFund(s, r))
           /\ Grows(s, GetOrCreateFund(s, r),
                    New("identifiers", {Identifier("SOURCE_ID", FundKey(r), "cvm", FundInstrument(r))}
                                       \cup FundIdentifiers(r)))
<1> DEFINE made == GetOrCreate(s, "cvm", FundKey(r))
           own  == FundIdentifiers(r)
           id   == Identifier("SOURCE_ID", FundKey(r), "cvm", FundInstrument(r))
           z    == GetOrCreateFund(s, r)
<1>1. z = IF made = s THEN s ELSE Flush(Add(made, "identifiers", own))
  BY DEF GetOrCreateFund, FundIdentifiers, FundInstrument, FundKey
<1>2. KeysUnique(own)
  <2> DEFINE a == Identifier("CNPJ_FUNDO_CLASSE", r.ticker, "cvm", FundInstrument(r))
             b == Identifier("CNPJ", r.ticker, "cvm", FundInstrument(r))
             c == Identifier("CVM_SUBCLASS_ID", r.sub, "cvm", FundInstrument(r))
  <2>1. a.key[1] = "CNPJ_FUNDO_CLASSE" /\ b.key[1] = "CNPJ"
    BY DEF Identifier
  <2>2. own = {a, b} \/ own = {c}
    BY DEF FundIdentifiers
  <2> HIDE DEF a, b, c, own
  <2>3. a.key # b.key
    BY <2>1
  <2> QED
    BY <2>2, <2>3 DEF KeysUnique
<1>3. Sound(made) /\ Grows(s, made, New("identifiers", {id}))
  BY GetOrCreateKeeps DEF FundInstrument
<1> HIDE DEF made, own, id, z
<1> DEFINE s1 == Add(made, "identifiers", own)
<1>4. Sound(s1) /\ Grows(made, s1, New("identifiers", own))
  BY <1>2, <1>3, NamesKnown, AddKeeps
<1> HIDE DEF s1
<1>5. Sound(Flush(s1)) /\ Grows(s1, Flush(s1), {})
  BY <1>4, FlushKeeps
<1>6. Grows(s, s1, New("identifiers", {id}) \cup New("identifiers", own))
  BY <1>3, <1>4, GrowsOn
<1>7. Grows(s, Flush(s1), (New("identifiers", {id}) \cup New("identifiers", own)) \cup {})
  BY <1>5, <1>6, GrowsOn
<1>8. /\ {} \subseteq New("identifiers", {id} \cup own)
      /\ (New("identifiers", {id}) \cup New("identifiers", own)) \cup {}
            \subseteq New("identifiers", {id} \cup own)
  BY DEF New
<1>9. Grows(s, Flush(s1), New("identifiers", {id} \cup own))
  BY <1>7, <1>8, GrowsMore
<1>10. Grows(s, s, New("identifiers", {id} \cup own))
  BY <1>8, GrowsItself, GrowsMore
<1>11. Sound(z) /\ Grows(s, z, New("identifiers", {id} \cup own))
  BY <1>1, <1>5, <1>9, <1>10 DEF s1
<1> QED
  BY <1>11 DEF z, id, own

\* finish_ingestion_run of the one row of that number.
LEMMA FinishRunShape ==
    ASSUME NEW s, Sound(s), ~s.clash, NEW number, NEW run \in s.flushed["runs"],
           run.key = <<number>>, run.status = "STARTED",
           run = RunRow(number, run.loader, run.date, run.full, "STARTED"),
           s.added["runs"] = {}
    PROVE  /\ Sound(FinishRun(s, number)) /\ ~FinishRun(s, number).clash
           /\ \A t \in Names \ {"runs"} : FinishRun(s, number).flushed[t] = All(s, t)
           /\ FinishRun(s, number).flushed["runs"] =
                (s.flushed["runs"] \ {run}) \cup
                {RunRow(number, run.loader, run.date, run.full, "SUCCEEDED")}
<1> DEFINE row == RunRow(number, run.loader, run.date, run.full, "SUCCEEDED")
           s1  == Replace(s, "runs", {run}, row)
           z   == FinishRun(s, number)
<1>1. "runs" \in Names /\ "quotes" \in Names /\ IsSession(s)
  BY NamesKnown DEF Sound
<1>2. run = CHOOSE r \in s.flushed["runs"] : r.key = <<number>>
  <2>1. \A r \in s.flushed["runs"] : r.key = <<number>> => r = run
    BY <1>1 DEF Sound, KeysUnique
  <2> QED
    BY <2>1
<1>3. [run EXCEPT !.status = "SUCCEEDED"] = row
  BY DEF RunRow
<1>4. z = Flush(s1)
  BY <1>2, <1>3 DEF FinishRun
<1>5. row.key = <<number>>
  BY DEF RunRow
<1> HIDE DEF row
<1>6. /\ IsSession(s1) /\ s1.added = s.added
      /\ s1.flushed["runs"] = (s.flushed["runs"] \ {run}) \cup {row}
      /\ \A u \in Names \ {"runs"} : s1.flushed[u] = s.flushed[u]
      /\ s1.clash <=> s.clash
  BY <1>1, ReplaceShape
<1> HIDE DEF s1
<1>7. \A t \in Names \ {"runs"} : All(s1, t) = All(s, t)
  BY <1>6 DEF All
<1>8. Numbered(s1.flushed["quotes"]) /\ Numbered(All(s1, "quotes"))
  BY <1>1, <1>6, <1>7 DEF Sound
<1>9. ASSUME NEW u \in Names
      PROVE  /\ KeysUnique(s1.flushed[u]) /\ KeysUnique(s1.added[u])
             /\ KeysApart(s1.flushed[u], s1.added[u])
  <2>1. /\ KeysUnique(s.flushed[u]) /\ KeysUnique(s.added[u])
        /\ KeysApart(s.flushed[u], s.added[u])
    BY DEF Sound
  <2>2. CASE u # "runs"
    BY <2>1, <2>2, <1>6
  <2>3. CASE u = "runs"
    BY <2>1, <2>3, <1>5, <1>6 DEF KeysUnique, KeysApart
  <2> QED
    BY <2>2, <2>3
<1>10. Sound(s1)
  BY <1>6, <1>8, <1>9 DEF Sound
<1>11. Sound(z)
  BY <1>4, <1>10, FlushKeeps
<1>12. /\ \A t \in Names : z.flushed[t] = All(s1, t)
       /\ z.clash <=> s1.clash
  BY <1>4, <1>6, FlushShape
<1>13. All(s1, "runs") = (s.flushed["runs"] \ {run}) \cup {row}
  BY <1>6 DEF All
<1>14. \A t \in Names \ {"runs"} : z.flushed[t] = All(s, t)
  BY <1>7, <1>12
<1>15. z.flushed["runs"] = (s.flushed["runs"] \ {run}) \cup {row}
  BY <1>1, <1>12, <1>13
<1> QED
  BY <1>6, <1>11, <1>12, <1>14, <1>15 DEF row

LEMMA GrowsTwice ==
    ASSUME NEW s, NEW s1, NEW s2, NEW t, NEW A, NEW B, NEW C, A \subseteq C, B \subseteq C,
           Grows(s, s1, New(t, A)), Grows(s1, s2, New(t, B))
    PROVE  Grows(s, s2, New(t, C))
<1>1. Grows(s, s2, New(t, A) \cup New(t, B))
  BY GrowsOn
<1>2. New(t, A) \cup New(t, B) \subseteq New(t, C)
  BY DEF New
<1> QED
  BY <1>1, <1>2, GrowsMore

\* Identifiers a row of a price file may add.
ListedRows(r) ==
    {Identifier("SOURCE_ID", r.ticker, "b3", B3(r.ticker)),
     Identifier("TICKER", r.ticker, "b3", B3(r.ticker)),
     Identifier("B3_SECURITY_ID", r.security, "b3", B3(r.ticker))}

LEMMA AttachListingKeeps ==
    ASSUME NEW s, Sound(s), NEW r
    PROVE  /\ Sound(AttachListing(s, r))
           /\ Grows(s, AttachListing(s, r), New("identifiers", ListedRows(r)))
<1> DEFINE a == Identifier("TICKER", r.ticker, "b3", B3(r.ticker))
           b == Identifier("B3_SECURITY_ID", r.security, "b3", B3(r.ticker))
           t == Attach(s, "TICKER", r.ticker, "b3", B3(r.ticker))
           u == Attach(t, "B3_SECURITY_ID", r.security, "b3", B3(r.ticker))
<1>1. AttachListing(s, r) = IF r.security = "" THEN t ELSE u
  BY DEF AttachListing
<1>2. Sound(t) /\ Grows(s, t, New("identifiers", {a}))
  BY AttachKeeps
<1> HIDE DEF t
<1>3. Sound(u) /\ Grows(t, u, New("identifiers", {b}))
  BY <1>2, AttachKeeps
<1> HIDE DEF u
<1>4. {a} \subseteq ListedRows(r) /\ {b} \subseteq ListedRows(r) /\ {} \subseteq ListedRows(r)
  BY DEF ListedRows
<1> HIDE DEF a, b
<1>5. Grows(s, u, New("identifiers", ListedRows(r)))
  BY <1>2, <1>3, <1>4, GrowsTwice
<1>6. New("identifiers", {a}) \subseteq New("identifiers", ListedRows(r))
  BY <1>4 DEF New
<1>7. Grows(s, t, New("identifiers", ListedRows(r)))
  BY <1>2, <1>6, GrowsMore
<1> QED
  BY <1>1, <1>2, <1>3, <1>5, <1>7

LEMMA NewListingKeeps ==
    ASSUME NEW s, Sound(s), NEW r
    PROVE  /\ Sound(AttachListing(GetOrCreate(s, "b3", r.ticker), r))
           /\ Grows(s, AttachListing(GetOrCreate(s, "b3", r.ticker), r),
                    New("identifiers", ListedRows(r)))
<1> DEFINE id == Identifier("SOURCE_ID", r.ticker, "b3", Instrument("b3", r.ticker))
           g  == GetOrCreate(s, "b3", r.ticker)
<1>1. Sound(g) /\ Grows(s, g, New("identifiers", {id}))
  BY GetOrCreateKeeps
<1> HIDE DEF g
<1>2. Sound(AttachListing(g, r)) /\ Grows(g, AttachListing(g, r), New("identifiers", ListedRows(r)))
  BY <1>1, AttachListingKeeps
<1>3. {id} \subseteq ListedRows(r)
  BY DEF ListedRows, B3
<1>4. ListedRows(r) \subseteq ListedRows(r)
  OBVIOUS
<1> HIDE DEF id
<1>5. Grows(s, AttachListing(g, r), New("identifiers", ListedRows(r)))
  BY <1>1, <1>2, <1>3, <1>4, GrowsTwice
<1> QED
  BY <1>2, <1>5 DEF g

LEMMA ListedKeeps ==
    ASSUME NEW r, Sound(session)
    PROVE  Sound(Listed(r)) /\ Grows(session, Listed(r), New("identifiers", ListedRows(r)))
<1>1. {} \subseteq New("identifiers", ListedRows(r))
  OBVIOUS
<1>2. Grows(session, session, New("identifiers", ListedRows(r)))
  BY <1>1, GrowsItself, GrowsMore
<1>3. /\ Sound(AttachListing(GetOrCreate(session, "b3", r.ticker), r))
      /\ Grows(session, AttachListing(GetOrCreate(session, "b3", r.ticker), r),
                    New("identifiers", ListedRows(r)))
  BY NewListingKeeps
<1> QED
  BY <1>2, <1>3 DEF Listed

\* Identifiers a row of an OTC file may add.
CreditRows(r) ==
    {Identifier("SOURCE_ID", r.ticker, "b3", B3(r.ticker)),
     Identifier("TICKER", r.ticker, "b3", B3(r.ticker)),
     Identifier("ISIN", r.isin, "b3", B3(r.ticker))}

LEMMA UpsertCreditInstrumentKeeps ==
    ASSUME NEW s, Sound(s), NEW r
    PROVE  /\ Sound(UpsertCreditInstrument(s, r))
           /\ Grows(s, UpsertCreditInstrument(s, r), New("identifiers", CreditRows(r)))
           /\ <<"SOURCE_ID", r.ticker, "b3">> \in
                 Keys(UpsertCreditInstrument(s, r).flushed["identifiers"])
<1> DEFINE id == Identifier("SOURCE_ID", r.ticker, "b3", Instrument("b3", r.ticker))
           a  == Identifier("TICKER", r.ticker, "b3", B3(r.ticker))
           b  == Identifier("ISIN", r.isin, "b3", B3(r.ticker))
           g  == GetOrCreate(s, "b3", r.ticker)
           t  == Attach(g, "TICKER", r.ticker, "b3", B3(r.ticker))
           u  == Attach(t, "ISIN", r.isin, "b3", B3(r.ticker))
           z  == UpsertCreditInstrument(s, r)
<1>1. z = IF r.isin = "" THEN t ELSE u
  BY DEF UpsertCreditInstrument
<1>2. /\ Sound(g) /\ Grows(s, g, New("identifiers", {id}))
      /\ <<"SOURCE_ID", r.ticker, "b3">> \in Keys(g.flushed["identifiers"])
  BY GetOrCreateKeeps
<1> HIDE DEF g
<1>3. Sound(t) /\ Grows(g, t, New("identifiers", {a}))
  BY <1>2, AttachKeeps
<1> HIDE DEF t
<1>4. Sound(u) /\ Grows(t, u, New("identifiers", {b}))
  BY <1>3, AttachKeeps
<1> HIDE DEF u, z
<1>5. /\ {id} \subseteq CreditRows(r) /\ {a} \subseteq CreditRows(r)
      /\ {b} \subseteq CreditRows(r) /\ CreditRows(r) \subseteq CreditRows(r)
  BY DEF CreditRows, B3
<1> HIDE DEF id, a, b
<1>6. Grows(s, t, New("identifiers", CreditRows(r)))
  BY <1>2, <1>3, <1>5, GrowsTwice
<1>7. Grows(s, u, New("identifiers", CreditRows(r)))
  BY <1>4, <1>5, <1>6, GrowsTwice
<1>8. /\ g.flushed["identifiers"] \subseteq t.flushed["identifiers"]
      /\ t.flushed["identifiers"] \subseteq u.flushed["identifiers"]
  BY <1>3, <1>4, NamesKnown DEF Grows
<1>9. <<"SOURCE_ID", r.ticker, "b3">> \in Keys(z.flushed["identifiers"])
  BY <1>1, <1>2, <1>8 DEF Keys
<1>10. Sound(z) /\ Grows(s, z, New("identifiers", CreditRows(r)))
  BY <1>1, <1>3, <1>4, <1>6, <1>7
<1> QED
  BY <1>9, <1>10 DEF z

FredRows(id) ==
    {Identifier("SOURCE_ID", FredCode(id), "fred", FredInstrument(id)),
     Identifier("TICKER", id, "fred", FredInstrument(id)),
     Identifier("SOURCE_ID", id, "fred", FredInstrument(id))}

FredSession(id) == IF id \in memo.ids THEN session ELSE FredListed(id)

LEMMA FredSessionKeeps ==
    ASSUME Sound(session), NEW id
    PROVE  /\ Sound(FredSession(id))
           /\ Grows(session, FredSession(id), New("identifiers", FredRows(id)))
<1> DEFINE c == Identifier("SOURCE_ID", FredCode(id), "fred", Instrument("fred", FredCode(id)))
           a == Identifier("TICKER", id, "fred", FredInstrument(id))
           b == Identifier("SOURCE_ID", id, "fred", FredInstrument(id))
           g == GetOrCreate(session, "fred", FredCode(id))
           t == Attach(g, "TICKER", id, "fred", FredInstrument(id))
           u == Attach(t, "SOURCE_ID", id, "fred", FredInstrument(id))
<1>1. FredSession(id) = IF id \in memo.ids THEN session ELSE u
  BY DEF FredSession, FredListed
<1>2. Sound(g) /\ Grows(session, g, New("identifiers", {c}))
  BY GetOrCreateKeeps
<1> HIDE DEF g
<1>3. Sound(t) /\ Grows(g, t, New("identifiers", {a}))
  BY <1>2, AttachKeeps
<1> HIDE DEF t
<1>4. Sound(u) /\ Grows(t, u, New("identifiers", {b}))
  BY <1>3, AttachKeeps
<1> HIDE DEF u
<1>5. /\ {c} \subseteq FredRows(id) /\ {a} \subseteq FredRows(id)
      /\ {b} \subseteq FredRows(id) /\ FredRows(id) \subseteq FredRows(id)
  BY DEF FredRows, FredInstrument
<1> HIDE DEF a, b, c
<1>6. Grows(session, t, New("identifiers", FredRows(id)))
  BY <1>2, <1>3, <1>5, GrowsTwice
<1>7. Grows(session, u, New("identifiers", FredRows(id)))
  BY <1>4, <1>5, <1>6, GrowsTwice
<1>8. {} \subseteq New("identifiers", FredRows(id))
  OBVIOUS
<1>9. Grows(session, session, New("identifiers", FredRows(id)))
  BY <1>8, GrowsItself, GrowsMore
<1> QED
  BY <1>1, <1>4, <1>7, <1>9

YahooRows(symbol) ==
    {Identifier("SOURCE_ID", symbol, "yahoo", Instrument("yahoo", symbol)),
     Identifier("YAHOO_SYMBOL", symbol, "yahoo", Instrument("yahoo", symbol)),
     Identifier("TICKER", symbol, "yahoo", Instrument("yahoo", symbol))}

YahooSession(s, symbol) ==
    LET it == Instrument("yahoo", symbol)
        g  == GetOrCreate(s, "yahoo", symbol)
    IN  IF symbol \in memo.ids THEN g
        ELSE Attach(Attach(g, "YAHOO_SYMBOL", symbol, "yahoo", it), "TICKER", symbol, "yahoo", it)

LEMMA YahooSessionKeeps ==
    ASSUME NEW s, Sound(s), NEW symbol
    PROVE  /\ Sound(YahooSession(s, symbol))
           /\ Grows(s, YahooSession(s, symbol), New("identifiers", YahooRows(symbol)))
<1> DEFINE it == Instrument("yahoo", symbol)
           c == Identifier("SOURCE_ID", symbol, "yahoo", Instrument("yahoo", symbol))
           a == Identifier("YAHOO_SYMBOL", symbol, "yahoo", it)
           b == Identifier("TICKER", symbol, "yahoo", it)
           g == GetOrCreate(s, "yahoo", symbol)
           t == Attach(g, "YAHOO_SYMBOL", symbol, "yahoo", it)
           u == Attach(t, "TICKER", symbol, "yahoo", it)
<1>1. YahooSession(s, symbol) = IF symbol \in memo.ids THEN g ELSE u
  BY DEF YahooSession
<1>2. Sound(g) /\ Grows(s, g, New("identifiers", {c}))
  BY GetOrCreateKeeps
<1> HIDE DEF g
<1>3. Sound(t) /\ Grows(g, t, New("identifiers", {a}))
  BY <1>2, AttachKeeps
<1> HIDE DEF t
<1>4. Sound(u) /\ Grows(t, u, New("identifiers", {b}))
  BY <1>3, AttachKeeps
<1> HIDE DEF u
<1>5. /\ {c} \subseteq YahooRows(symbol) /\ {a} \subseteq YahooRows(symbol)
      /\ {b} \subseteq YahooRows(symbol) /\ YahooRows(symbol) \subseteq YahooRows(symbol)
  BY DEF YahooRows
<1> HIDE DEF a, b, c
<1>6. Grows(s, t, New("identifiers", YahooRows(symbol)))
  BY <1>2, <1>3, <1>5, GrowsTwice
<1>7. Grows(s, u, New("identifiers", YahooRows(symbol)))
  BY <1>4, <1>5, <1>6, GrowsTwice
<1>8. New("identifiers", {c}) \subseteq New("identifiers", YahooRows(symbol))
  BY <1>5 DEF New
<1>9. Grows(s, g, New("identifiers", YahooRows(symbol)))
  BY <1>2, <1>8, GrowsMore
<1> QED
  BY <1>1, <1>2, <1>4, <1>7, <1>9

(***************************** What a record does ****************************)

\* A step that writes a quote through upsert_quote, after adding rows R to table t.
Wrote(t, R, i, d, k, value) ==
    \E s : /\ Sound(s) /\ Grows(session, s, New(t, R))
           /\ session' = UpsertQuote(s, <<i, d, k>>, value, file.sha)

LEMMA WroteKeeps ==
    ASSUME NEW t, NEW R, NEW i, NEW d, NEW k, NEW value, Wrote(t, R, i, d, k, value)
    PROVE  /\ Sound(session')
           /\ \E n \in Nat \ {0} :
                 Grows(session, session',
                       New(t, R) \cup New("quotes", {Quote(<<i, d, k>>, n, value, file.sha)}))
           /\ <<i, d, k>> \in Identities(All(session', "quotes"))
<1>1. PICK s : /\ Sound(s) /\ Grows(session, s, New(t, R))
               /\ session' = UpsertQuote(s, <<i, d, k>>, value, file.sha)
  BY DEF Wrote
<1>2. PICK z : z = UpsertQuote(s, <<i, d, k>>, value, file.sha)
  OBVIOUS
<1>3. PICK n : n = NextRevision(s, <<i, d, k>>)
  OBVIOUS
<1>4. /\ n \in Nat \ {0} /\ Sound(z)
      /\ Grows(s, z, New("quotes", {Quote(<<i, d, k>>, n, value, file.sha)}))
      /\ <<i, d, k>> \in Identities(All(z, "quotes"))
  BY <1>1, <1>2, <1>3, UpsertQuoteKeeps
<1>5. Grows(session, z, New(t, R) \cup New("quotes", {Quote(<<i, d, k>>, n, value, file.sha)}))
  BY <1>1, <1>4, GrowsOn
<1>6. session' = z
  BY <1>1, <1>2
<1> QED
  BY <1>4, <1>5, <1>6

LEMMA PersistPriceWrites ==
    ASSUME Sound(session), PersistPrice
    PROVE  Sound(session') /\ Grows(session, session', New("identifiers", ListedRows(Record)))
<1>1. session' = session \/ session' = Listed(Record)
  BY DEF PersistPrice, Wait, Persist
<1>2. {} \subseteq New("identifiers", ListedRows(Record))
  OBVIOUS
<1>3. Grows(session, session, New("identifiers", ListedRows(Record)))
  BY <1>2, GrowsItself, GrowsMore
<1>4. Sound(Listed(Record)) /\ Grows(session, Listed(Record), New("identifiers", ListedRows(Record)))
  BY ListedKeeps
<1> QED
  BY <1>1, <1>3, <1>4

LEMMA PersistSettlementWrites ==
    ASSUME Sound(session), PersistSettlement
    PROVE  Wrote("identifiers", ListedRows(Record), B3(Record.ticker), Record.date,
                 "OFFICIAL_SETTLEMENT", Record.value)
  BY NewListingKeeps DEF Wrote, PersistSettlement, Persist

LEMMA PersistTradeWrites ==
    ASSUME Sound(session), PersistTrade
    PROVE  Wrote("identifiers", CreditRows(Record), B3(Record.ticker), Record.date,
                 "LAST", Record.value)
  BY UpsertCreditInstrumentKeeps DEF Wrote, PersistTrade, Persist

LEMMA PersistFredWrites ==
    ASSUME Sound(session), PersistFred
    PROVE  Wrote("identifiers", FredRows(First.ticker), FredInstrument(First.ticker), First.date,
                 "REFERENCE", First.value)
  BY FredSessionKeeps DEF Wrote, PersistFred, Persist, FredSession

LEMMA PersistYahooWrites ==
    ASSUME Sound(session), PersistYahoo
    PROVE  Wrote("identifiers", YahooRows(First.ticker), Instrument("yahoo", First.ticker),
                 First.date, First.kind, First.value)
  BY YahooSessionKeeps DEF Wrote, PersistYahoo, Persist, YahooSession

LEMMA PersistObservationWrites ==
    ASSUME Sound(session), NEW source, PersistObservation(source)
    PROVE  Wrote("series", {SeriesRow(source, First.ticker)}, Instrument(source, First.ticker),
                 First.date, "VALUE", First.value)
  BY GetOrCreateSeriesKeeps DEF Wrote, PersistObservation, Persist

LEMMA EnrichInstrumentWrites ==
    ASSUME Sound(session), EnrichInstrument
    PROVE  /\ Sound(session')
           /\ Grows(session, session',
                 New("identifiers", {Identifier("ISIN", Record.isin, "b3", B3(Record.ticker))}))
<1> DEFINE row == Identifier("ISIN", Record.isin, "b3", B3(Record.ticker))
           z == Attach(session, "ISIN", Record.isin, "b3", B3(Record.ticker))
<1>1. session' = session \/ session' = z
  BY DEF EnrichInstrument, Persist
<1>2. Sound(z) /\ Grows(session, z, New("identifiers", {row}))
  BY AttachKeeps
<1> HIDE DEF z, row
<1>3. Grows(session, session, New("identifiers", {row}))
  BY GrowsItself, GrowsMore
<1> QED
  BY <1>1, <1>2, <1>3 DEF row

\* The bond of a cadastro record is priced.
Priced(s) ==
    \/ <<Record.ticker, AbsenceDate>> \in memo.priced
    \/ Revisions(s.flushed["quotes"], <<B3(Record.ticker), AbsenceDate, "LAST">>) # {}

AbsenceRow == [key |-> <<B3(Record.ticker), AbsenceDate>>]

LEMMA PersistCreditWrites ==
    ASSUME Sound(session), PersistCredit
    PROVE  LET s == UpsertCreditInstrument(session, Record)
           IN  /\ Sound(session')
               /\ <<"SOURCE_ID", Record.ticker, "b3">> \in Keys(session'.flushed["identifiers"])
               /\ \/ /\ ExpectsTrades /\ ~Priced(s)
                     /\ AbsenceRow.key \in Keys(session'.flushed["absences"])
                     /\ Grows(session, session', New("identifiers", CreditRows(Record))
                                                 \cup New("absences", {AbsenceRow}))
                  \/ /\ ~ExpectsTrades \/ Priced(s)
                     /\ Grows(session, session', New("identifiers", CreditRows(Record)))
<1> DEFINE s == UpsertCreditInstrument(session, Record)
           z == RecordAbsence(s, B3(Record.ticker), AbsenceDate)
<1>1. session' = IF ExpectsTrades /\ ~Priced(s) THEN z ELSE s
  BY DEF PersistCredit, Persist, Priced
<1>2. /\ Sound(s) /\ Grows(session, s, New("identifiers", CreditRows(Record)))
      /\ <<"SOURCE_ID", Record.ticker, "b3">> \in Keys(s.flushed["identifiers"])
  BY UpsertCreditInstrumentKeeps
<1> HIDE DEF s
<1>3. /\ Sound(z) /\ Grows(s, z, New("absences", {AbsenceRow}))
      /\ AbsenceRow.key \in Keys(z.flushed["absences"])
  BY <1>2, RecordAbsenceKeeps DEF AbsenceRow
<1> HIDE DEF z
<1>4. Grows(session, z, New("identifiers", CreditRows(Record)) \cup New("absences", {AbsenceRow}))
  BY <1>2, <1>3, GrowsOn
<1>5. s.flushed["identifiers"] \subseteq z.flushed["identifiers"]
  BY <1>3, NamesKnown DEF Grows
<1>6. <<"SOURCE_ID", Record.ticker, "b3">> \in Keys(z.flushed["identifiers"])
  BY <1>2, <1>5 DEF Keys
<1>7. CASE ExpectsTrades /\ ~Priced(s)
  BY <1>1, <1>3, <1>4, <1>6, <1>7 DEF s
<1>8. CASE ~(ExpectsTrades /\ ~Priced(s))
  BY <1>1, <1>2, <1>8 DEF s
<1> QED
  BY <1>7, <1>8

TesouroRows(r) == {Identifier("SOURCE_ID", r.ticker, "tesouro", Instrument("tesouro", r.ticker))}

LEMMA PersistTesouroWrites ==
    ASSUME Sound(session), PersistTesouro
    PROVE  Sound(session') /\ Grows(session, session', New("identifiers", TesouroRows(First)))
<1>1. session' = GetOrCreate(session, "tesouro", First.ticker)
  BY DEF PersistTesouro, Wait, Persist
<1> QED
  BY <1>1, GetOrCreateKeeps DEF TesouroRows

FundRows(r) ==
    {Identifier("SOURCE_ID", FundKey(r), "cvm", FundInstrument(r))} \cup FundIdentifiers(r)

LEMMA PersistNavWrites ==
    ASSUME Sound(session), PersistNav
    PROVE  Sound(session') /\ Grows(session, session', New("identifiers", FundRows(First)))
<1>1. session' = session \/ session' = GetOrCreateFund(session, First)
  BY DEF PersistNav, Wait, Persist
<1>2. /\ Sound(GetOrCreateFund(session, First))
      /\ Grows(session, GetOrCreateFund(session, First), New("identifiers", FundRows(First)))
  BY GetOrCreateFundKeeps DEF FundRows
<1>3. {} \subseteq New("identifiers", FundRows(First))
  OBVIOUS
<1>4. Grows(session, session, New("identifiers", FundRows(First)))
  BY <1>3, GrowsItself, GrowsMore
<1> QED
  BY <1>1, <1>2, <1>4

LEMMA PersistEventWrites ==
    ASSUME Sound(session), PersistEvent
    PROVE  /\ Sound(session') /\ <<"cvm", First.id>> \in Keys(All(session', "events"))
           /\ \E i : Grows(session, session',
                           New("events", {[key |-> <<"cvm", First.id>>, instrument |-> i]}))
<1>1. \E i : session' = UpsertEvent(session, <<"cvm", First.id>>, i)
  BY DEF PersistEvent, Persist
<1> QED
  BY <1>1, UpsertEventKeeps

LEMMA PersistCotWrites ==
    ASSUME Sound(session), PersistCot
    PROVE  /\ Sound(session')
           /\ <<"cftc", First.ticker, First.date>> \in Keys(All(session', "snapshots"))
           /\ \E i : Grows(session, session',
                New("snapshots", {SnapshotRow(<<"cftc", First.ticker, First.date>>, i, First.value)}))
<1>1. session' = UpsertSnapshot(session, <<"cftc", First.ticker, First.date>>, NoInstrument, First.value)
  BY DEF PersistCot, Persist, UpsertHolding
<1> QED
  BY <1>1, UpsertSnapshotKeeps

LEMMA PersistHoldingWrites ==
    ASSUME Sound(session), PersistHolding
    PROVE  /\ Sound(session')
           /\ <<"13f", First.filer, First.date, First.ticker>> \in Keys(All(session', "snapshots"))
           /\ \E i : Grows(session, session',
                New("snapshots", {SnapshotRow(<<"13f", First.filer, First.date, First.ticker>>,
                                              i, First.value)}))
<1>1. session' = UpsertSnapshot(session, <<"13f", First.filer, First.date, First.ticker>>,
                                NoInstrument, First.value)
  BY DEF PersistHolding, Persist, UpsertHolding
<1> QED
  BY <1>1, UpsertSnapshotKeeps

LendingRows(ticker) ==
    {Identifier("SOURCE_ID", LendingKey(ticker), "b3", LendingInstrument(ticker)),
     Identifier("TICKER", ticker, "b3", LendingInstrument(ticker))}

\* The session of an unknown ticker before its snapshot is written.
LendingSession(ticker) ==
    Attach(GetOrCreate(session, "b3", LendingKey(ticker)),
           "TICKER", ticker, "b3", LendingInstrument(ticker))

LEMMA LendingSessionKeeps ==
    ASSUME Sound(session), NEW ticker
    PROVE  /\ Sound(LendingSession(ticker))
           /\ Grows(session, LendingSession(ticker), New("identifiers", LendingRows(ticker)))
           /\ <<"TICKER", ticker, "b3">> \in Keys(All(LendingSession(ticker), "identifiers"))
<1> DEFINE a == Identifier("SOURCE_ID", LendingKey(ticker), "b3", LendingInstrument(ticker))
           b == Identifier("TICKER", ticker, "b3", LendingInstrument(ticker))
           g == GetOrCreate(session, "b3", LendingKey(ticker))
           t == Attach(g, "TICKER", ticker, "b3", LendingInstrument(ticker))
<1>1. LendingSession(ticker) = t
  BY DEF LendingSession
<1>2. Sound(g) /\ Grows(session, g, New("identifiers", {a}))
  BY GetOrCreateKeeps DEF LendingInstrument
<1> HIDE DEF g
<1>3. /\ Sound(t) /\ Grows(g, t, New("identifiers", {b}))
      /\ <<"TICKER", ticker, "b3">> \in Keys(All(t, "identifiers"))
  BY <1>2, AttachKeeps
<1> HIDE DEF t
<1>4. {a} \subseteq LendingRows(ticker) /\ {b} \subseteq LendingRows(ticker)
  BY DEF LendingRows
<1> HIDE DEF a, b
<1>5. Grows(session, t, New("identifiers", LendingRows(ticker)))
  BY <1>2, <1>3, <1>4, GrowsTwice
<1> QED
  BY <1>1, <1>3, <1>5

LEMMA PersistLendingWrites ==
    ASSUME Sound(session), PersistLending
    PROVE  /\ Sound(session')
           /\ SnapshotKey(First) \in Keys(All(session', "snapshots"))
           /\ \E s, i, j :
                /\ \/ s = session /\ i \in Resolve(session, First.ticker)
                   \/ /\ Resolve(session, First.ticker) = {}
                      /\ s = LendingSession(First.ticker) /\ i = LendingInstrument(First.ticker)
                /\ SnapshotOwner(s, SnapshotKey(First), i, j)
                /\ Grows(s, session', New("snapshots", {SnapshotRow(SnapshotKey(First), j, First.value)}))
<1>1. \E s, i : /\ \/ s = session /\ i \in Resolve(session, First.ticker)
                   \/ /\ Resolve(session, First.ticker) = {}
                      /\ s = LendingSession(First.ticker) /\ i = LendingInstrument(First.ticker)
                /\ session' = UpsertSnapshot(s, SnapshotKey(First), i, First.value)
  BY DEF PersistLending, PersistUnknownLending, LendingSession, Persist
<1>2. PICK s, i : /\ \/ s = session /\ i \in Resolve(session, First.ticker)
                     \/ /\ Resolve(session, First.ticker) = {}
                        /\ s = LendingSession(First.ticker) /\ i = LendingInstrument(First.ticker)
                  /\ session' = UpsertSnapshot(s, SnapshotKey(First), i, First.value)
  BY <1>1
<1>3. Sound(s)
  BY <1>2, LendingSessionKeeps
<1>4. PICK z : z = UpsertSnapshot(s, SnapshotKey(First), i, First.value)
  OBVIOUS
<1>5. /\ Sound(z) /\ SnapshotKey(First) \in Keys(All(z, "snapshots"))
      /\ \E j : /\ SnapshotOwner(s, SnapshotKey(First), i, j)
                /\ Grows(s, z, New("snapshots", {SnapshotRow(SnapshotKey(First), j, First.value)}))
  BY <1>3, <1>4, UpsertSnapshotKeeps
<1>6. session' = z
  BY <1>2, <1>4
<1> QED
  BY <1>2, <1>5, <1>6

(************************ What every record step keeps ***********************)

RecordStep ==
    \/ PersistPrice \/ PersistSettlement \/ EnrichInstrument \/ PersistTrade \/ PersistCredit
    \/ PersistLending \/ PersistEvent \/ PersistCot \/ PersistHolding \/ PersistFred
    \/ PersistYahoo \/ PersistBcb \/ PersistIbge \/ PersistTesouro \/ PersistNav

\* No run row and no artifact among the rows N.
Plain(N) == \A p \in N : p[1] # "runs" /\ p[1] # "artifacts"

LEMMA PlainRows ==
    /\ \A R : /\ Plain(New("identifiers", R)) /\ Plain(New("series", R)) /\ Plain(New("quotes", R))
              /\ Plain(New("snapshots", R)) /\ Plain(New("events", R)) /\ Plain(New("absences", R))
    /\ \A N, M : Plain(N) /\ Plain(M) => Plain(N \cup M)
  BY DEF Plain, New

\* Nor an absence.
Quiet(N) == \A p \in N : p[1] # "runs" /\ p[1] # "artifacts" /\ p[1] # "absences"

LEMMA QuietRows ==
    /\ \A R : /\ Quiet(New("identifiers", R)) /\ Quiet(New("series", R)) /\ Quiet(New("quotes", R))
              /\ Quiet(New("snapshots", R)) /\ Quiet(New("events", R))
    /\ \A N, M : Quiet(N) /\ Quiet(M) => Quiet(N \cup M)
  BY DEF Quiet, New

LEMMA QuietStepKeeps ==
    ASSUME Sound(session), RecordStep, ~PersistCredit
    PROVE  Sound(session') /\ \E N : Grows(session, session', N) /\ Quiet(N)
<1>1. ASSUME NEW t, NEW R, NEW i, NEW d, NEW k, NEW value, Wrote(t, R, i, d, k, value),
             t = "identifiers" \/ t = "series"
      PROVE  Sound(session') /\ \E N : Grows(session, session', N) /\ Quiet(N)
  <2>1. Quiet(New(t, R))
    BY <1>1, QuietRows
  <2>2. PICK n \in Nat \ {0} :
           Grows(session, session',
                 New(t, R) \cup New("quotes", {Quote(<<i, d, k>>, n, value, file.sha)}))
    BY <1>1, WroteKeeps
  <2>3. Quiet(New(t, R) \cup New("quotes", {Quote(<<i, d, k>>, n, value, file.sha)}))
    BY <2>1, QuietRows
  <2>4. Sound(session')
    BY <1>1, WroteKeeps
  <2> QED
    BY <2>2, <2>3, <2>4
<1>2. CASE PersistPrice
  BY <1>2, PersistPriceWrites, QuietRows
<1>3. CASE PersistSettlement
  BY <1>1, <1>3, PersistSettlementWrites
<1>4. CASE EnrichInstrument
  BY <1>4, EnrichInstrumentWrites, QuietRows
<1>5. CASE PersistTrade
  BY <1>1, <1>5, PersistTradeWrites
<1>6. CASE PersistLending
  <2>1. PICK s, i, j :
          /\ \/ s = session /\ i \in Resolve(session, First.ticker)
             \/ /\ Resolve(session, First.ticker) = {}
                /\ s = LendingSession(First.ticker) /\ i = LendingInstrument(First.ticker)
          /\ SnapshotOwner(s, SnapshotKey(First), i, j)
          /\ Grows(s, session', New("snapshots", {SnapshotRow(SnapshotKey(First), j, First.value)}))
    BY <1>6, PersistLendingWrites
  <2>2. {} \subseteq New("identifiers", LendingRows(First.ticker))
    OBVIOUS
  <2>3. Grows(session, session, New("identifiers", LendingRows(First.ticker)))
    BY <2>2, GrowsItself, GrowsMore
  <2>4. Grows(session, s, New("identifiers", LendingRows(First.ticker)))
    BY <2>1, <2>3, LendingSessionKeeps
  <2>5. Grows(session, session', New("identifiers", LendingRows(First.ticker)) \cup
                   New("snapshots", {SnapshotRow(SnapshotKey(First), j, First.value)}))
    BY <2>1, <2>4, GrowsOn
  <2>6. Quiet(New("identifiers", LendingRows(First.ticker)) \cup
                   New("snapshots", {SnapshotRow(SnapshotKey(First), j, First.value)}))
    BY QuietRows
  <2> QED
    BY <1>6, <2>5, <2>6, PersistLendingWrites
<1>7. CASE PersistEvent
  BY <1>7, PersistEventWrites, QuietRows
<1>8. CASE PersistCot
  BY <1>8, PersistCotWrites, QuietRows
<1>9. CASE PersistHolding
  BY <1>9, PersistHoldingWrites, QuietRows
<1>10. CASE PersistFred
  BY <1>1, <1>10, PersistFredWrites
<1>11. CASE PersistYahoo
  BY <1>1, <1>11, PersistYahooWrites
<1>12. CASE PersistBcb
  BY <1>1, <1>12, PersistObservationWrites DEF PersistBcb
<1>13. CASE PersistIbge
  BY <1>1, <1>13, PersistObservationWrites DEF PersistIbge
<1>14. CASE PersistTesouro
  BY <1>14, PersistTesouroWrites, QuietRows
<1>15. CASE PersistNav
  BY <1>15, PersistNavWrites, QuietRows
<1> QED
  BY <1>2, <1>3, <1>4, <1>5, <1>6, <1>7, <1>8, <1>9, <1>10, <1>11, <1>12, <1>13, <1>14, <1>15
     DEF RecordStep

LEMMA RecordStepKeeps ==
    ASSUME Sound(session), RecordStep
    PROVE  Sound(session') /\ \E N : Grows(session, session', N) /\ Plain(N)
<1>1. CASE PersistCredit
  <2>1. Plain(New("identifiers", CreditRows(Record))) /\ Plain(New("absences", {AbsenceRow}))
    BY PlainRows
  <2>2. Plain(New("identifiers", CreditRows(Record)) \cup New("absences", {AbsenceRow}))
    BY <2>1, PlainRows
  <2> QED
    BY <1>1, <2>1, <2>2, PersistCreditWrites
<1>2. CASE ~PersistCredit
  <2>1. \A N : Quiet(N) => Plain(N)
    BY DEF Quiet, Plain
  <2> QED
    BY <1>2, <2>1, QuietStepKeeps
<1> QED
  BY <1>1, <1>2

(*************************** Types and unique keys ***************************)

OwnRun == RunRow(job.run, job.loader, command.date, command.full, "STARTED")

IsRun(r) ==
    /\ r = RunRow(r.key[1], r.loader, r.date, r.full, r.status)
    /\ r.key[1] \in 1 .. job.run /\ r.status \in {"STARTED", "SUCCEEDED"}

IsArtifact(a) ==
    a = [key |-> <<a.key[1], a.key[2], a.key[3]>>] /\ a.key[1] \in 1 .. job.run

IsFirst(q) == IsNumbered(q.key) /\ Revision(q) = 1 /\ Identity(q) \in memo.stored

\* Variables outside the database; an idle process holds nothing.
ControlInv ==
    /\ plan \in Seq(Commands)
    /\ exit \in {"none", "running", "0", "1", "killed"}
    /\ failed \subseteq Loaders /\ queue \in Seq(Loaders)
    /\ job \in [loader : Loaders \cup {"none"}, run : Nat]
    /\ DOMAIN memo = {"stored", "ids", "priced", "trades", "waiting"}
    /\ Idle => items = <<>> /\ todo = <<>> /\ memo = NoMemo /\ session = Begin(db)
    /\ ~Idle => exit = "running" /\ job.run >= 1

\* The committed tables.
CommittedInv ==
    /\ DOMAIN db = Names
    /\ \A t \in Names : KeysUnique(db[t])
    /\ Numbered(db["quotes"])
    /\ \A r \in db["runs"] : IsRun(r) /\ (~Idle /\ r.key[1] = job.run => r = OwnRun)
    /\ \A a \in db["artifacts"] : IsArtifact(a)

\* The transaction of the running loader and the quotes that wait for it.
SessionInv ==
    /\ Sound(session)
    /\ \A t \in Names \ {"snapshots"} : db[t] \subseteq session.flushed[t]
    /\ Keys(db["snapshots"]) \subseteq Keys(All(session, "snapshots"))
    /\ session.added["runs"] = {} /\ session.added["artifacts"] = {}
    /\ ~Idle => OwnRun \in session.flushed["runs"]
    /\ \A r \in session.flushed["runs"] : r \in db["runs"] \/ r = OwnRun
    /\ \A a \in session.flushed["artifacts"] :
          a \in db["artifacts"] \/ (IsArtifact(a) /\ a.key[1] = job.run)
    /\ KeysUnique(memo.waiting) /\ \A q \in memo.waiting : IsFirst(q)

TypeInv == ControlInv /\ CommittedInv /\ SessionInv

LEMMA BeginShape ==
    ASSUME NEW tables, DOMAIN tables = Names
    PROVE  /\ IsSession(Begin(tables)) /\ ~Begin(tables).clash /\ Begin(tables).flushed = tables
           /\ \A t \in Names : Begin(tables).added[t] = {} /\ All(Begin(tables), t) = tables[t]
<1> DEFINE z == Begin(tables)
<1>1. z = [flushed |-> tables, added |-> NoRows, clash |-> FALSE]
  BY DEF Begin
<1>2. DOMAIN NoRows = Names /\ \A t \in Names : NoRows[t] = {}
  BY DEF NoRows
<1>3. z.flushed = tables /\ z.added = NoRows /\ z.clash = FALSE
      /\ DOMAIN z = {"flushed", "added", "clash"}
  BY <1>1
<1> HIDE DEF z
<1>4. IsSession(z) /\ ~z.clash
  BY <1>2, <1>3 DEF IsSession
<1>5. \A t \in Names : z.added[t] = {} /\ All(z, t) = tables[t]
  BY <1>2, <1>3 DEF All
<1> QED
  BY <1>3, <1>4, <1>5 DEF z

LEMMA BeginSound ==
    ASSUME NEW tables, DOMAIN tables = Names, \A t \in Names : KeysUnique(tables[t]),
           Numbered(tables["quotes"])
    PROVE  Sound(Begin(tables))
<1> DEFINE z == Begin(tables)
<1>1. /\ IsSession(z) /\ ~z.clash /\ z.flushed = tables
      /\ \A t \in Names : z.added[t] = {} /\ All(z, t) = tables[t]
  BY BeginShape
<1> HIDE DEF z
<1>2. \A t \in Names : /\ KeysUnique(z.flushed[t]) /\ KeysUnique(z.added[t])
                       /\ KeysApart(z.flushed[t], z.added[t])
  BY <1>1 DEF KeysUnique, KeysApart
<1>3. Numbered(z.flushed["quotes"]) /\ Numbered(All(z, "quotes"))
  BY <1>1, NamesKnown
<1>4. Sound(z)
  BY <1>1, <1>2, <1>3 DEF Sound
<1> QED
  BY <1>4 DEF z

LEMMA TypesAtStart == Init => TypeInv
<1> SUFFICES ASSUME Init
             PROVE  TypeInv
  OBVIOUS
<1>1. DOMAIN NoRows = Names /\ \A t \in Names : NoRows[t] = {}
  BY DEF NoRows
<1>2. \A t \in Names : KeysUnique(db[t])
  BY <1>1 DEF Init, KeysUnique
<1>3. Numbered(db["quotes"])
  BY <1>1, NamesKnown DEF Init, Numbered
<1>4. Idle /\ job.run = 0
  BY DEF Init, Idle
<1>5. CommittedInv
  BY <1>1, <1>2, <1>3, NamesKnown DEF CommittedInv, Init
<1>6. session = Begin(db) /\ Sound(session)
  BY <1>1, <1>2, <1>3, BeginSound DEF Init
<1>7. session.flushed = db /\ \A t \in Names : session.added[t] = {} /\ All(session, t) = db[t]
  <2>1. DOMAIN db = Names
    BY <1>1 DEF Init
  <2>2. /\ Begin(db).flushed = db
        /\ \A t \in Names : Begin(db).added[t] = {} /\ All(Begin(db), t) = db[t]
    BY <2>1, BeginShape
  <2> QED
    BY <1>6, <2>2
<1>8. memo.waiting = {}
  BY DEF Init, NoMemo
<1>9. SessionInv
  BY <1>1, <1>4, <1>6, <1>7, <1>8, NamesKnown DEF SessionInv, Init, KeysUnique
<1>10. ControlInv
  <2>1. plan \in Seq(Commands) /\ queue \in Seq(Loaders)
    <3>1. plan \in Plans /\ queue = <<>>
      BY DEF Init
    <3>2. Plans \subseteq Seq(Commands)
      BY PlansAssumption DEF PlansAssumption
    <3> QED
      BY <3>1, <3>2
  <2>2. DOMAIN memo = {"stored", "ids", "priced", "trades", "waiting"}
    BY DEF Init, NoMemo
  <2> QED
    BY <1>4, <1>6, <2>1, <2>2 DEF Init, ControlInv
<1> QED
  BY <1>5, <1>9, <1>10 DEF TypeInv

LEMMA IdleKeeps ==
    ASSUME Idle', memo' = NoMemo, session' = Begin(db'), DOMAIN db' = Names,
           \A t \in Names : KeysUnique(db'[t]), Numbered(db'["quotes"]),
           (\A r \in db["runs"] : IsRun(r))', (\A a \in db["artifacts"] : IsArtifact(a))'
    PROVE  CommittedInv' /\ SessionInv'
<1>1. CommittedInv'
  BY DEF CommittedInv
<1>2. PICK tables : tables = db'
  OBVIOUS
<1>3. /\ Sound(Begin(tables)) /\ Begin(tables).flushed = tables
      /\ \A t \in Names : Begin(tables).added[t] = {} /\ All(Begin(tables), t) = tables[t]
  BY <1>2, BeginShape, BeginSound
<1>4. /\ Sound(session') /\ session'.flushed = db'
      /\ \A t \in Names : session'.added[t] = {} /\ All(session', t) = db'[t]
  BY <1>2, <1>3
<1>5. memo'.waiting = {}
  BY DEF NoMemo
<1>6. SessionInv'
  BY <1>4, <1>5, NamesKnown DEF SessionInv, KeysUnique
<1> QED
  BY <1>1, <1>6

LEMMA WaitsOnce ==
    ASSUME DOMAIN memo = {"stored", "ids", "priced", "trades", "waiting"},
           KeysUnique(memo.waiting), \A q \in memo.waiting : IsFirst(q),
           NEW m, DOMAIN m = DOMAIN memo, m.stored = memo.stored, m.waiting = memo.waiting,
           NEW i, NEW d, NEW k, NEW value,
           memo' = IF <<i, d, k>> \in m.stored THEN m
                   ELSE [m EXCEPT !.stored = @ \cup {<<i, d, k>>},
                                  !.waiting = @ \cup {Quote(<<i, d, k>>, 1, value, file.sha)}]
    PROVE  /\ DOMAIN memo' = DOMAIN memo
           /\ KeysUnique(memo'.waiting) /\ (\A q \in memo.waiting : IsFirst(q))'
           /\ memo'.stored = memo.stored \cup {<<i, d, k>>}
           /\ memo'.waiting = memo.waiting \/
              memo'.waiting = memo.waiting \cup {Quote(<<i, d, k>>, 1, value, file.sha)}
           /\ <<i, d, k>> \in memo.stored \cup Identities(memo'.waiting)
           /\ memo'.ids = m.ids /\ memo'.priced = m.priced /\ memo'.trades = m.trades
<1>1. CASE <<i, d, k>> \in m.stored
  BY <1>1 DEF IsFirst
<1>2. CASE <<i, d, k>> \notin m.stored
  <2>1. PICK q : q = Quote(<<i, d, k>>, 1, value, file.sha)
    OBVIOUS
  <2>2. IsNumbered(q.key) /\ Identity(q) = <<i, d, k>> /\ Revision(q) = 1
    BY <2>1, QuoteFields
  <2>3. /\ DOMAIN memo' = DOMAIN memo
        /\ memo'.stored = memo.stored \cup {<<i, d, k>>}
        /\ memo'.waiting = memo.waiting \cup {q}
        /\ memo'.ids = m.ids /\ memo'.priced = m.priced /\ memo'.trades = m.trades
    BY <1>2, <2>1
  <2>4. \A o \in memo.waiting : o.key # q.key
    BY <1>2, <2>2 DEF IsFirst, Identity
  <2>5. KeysUnique(memo'.waiting)
    BY <2>3, <2>4 DEF KeysUnique
  <2>6. (\A o \in memo.waiting : IsFirst(o))'
    BY <2>2, <2>3 DEF IsFirst
  <2>7. <<i, d, k>> \in Identities(memo'.waiting)
    BY <2>2, <2>3 DEF Identities
  <2> QED
    BY <2>1, <2>3, <2>5, <2>6, <2>7
<1> QED
  BY <1>1, <1>2

\* Steps that leave db and the running job alone.
LEMMA SessionStep ==
    ASSUME TypeInv, ~Idle, UNCHANGED <<db, job, command>>, Sound(session'),
           NEW N, Grows(session, session', N), \A p \in N : p[1] # "runs",
           \A a : <<"artifacts", a>> \in N => IsArtifact(a) /\ a.key[1] = job.run,
           session'.added["artifacts"] = {},
           KeysUnique(memo'.waiting), (\A q \in memo.waiting : IsFirst(q))'
    PROVE  CommittedInv' /\ SessionInv'
<1>1. CommittedInv'
  BY DEF TypeInv, CommittedInv, IsRun, IsArtifact, OwnRun, Idle
<1>2. \A t \in Names \ {"snapshots"} : db'[t] \subseteq session'.flushed[t]
  BY DEF TypeInv, SessionInv, Grows
<1>3. Keys(db'["snapshots"]) \subseteq Keys(All(session', "snapshots"))
  BY DEF TypeInv, SessionInv, Grows
<1>4. session'.added["runs"] = {}
  <2>1. \A r \in session'.added["runs"] : r \in session.added["runs"] \/ <<"runs", r>> \in N
    BY NamesKnown DEF Grows
  <2> QED
    BY <2>1 DEF TypeInv, SessionInv
<1>5. OwnRun' = OwnRun
  BY DEF OwnRun
<1>6. OwnRun \in session'.flushed["runs"]
  BY NamesKnown DEF TypeInv, SessionInv, Grows
<1>7. \A r \in session'.flushed["runs"] : r \in db["runs"] \/ r = OwnRun
  <2>1. \A r \in All(session', "runs") : r \in All(session, "runs") \/ <<"runs", r>> \in N
    BY NamesKnown DEF Grows
  <2>2. All(session, "runs") = session.flushed["runs"]
    BY DEF TypeInv, SessionInv, All
  <2>3. session'.flushed["runs"] \subseteq All(session', "runs")
    BY DEF All
  <2> QED
    BY <2>1, <2>2, <2>3 DEF TypeInv, SessionInv
<1>8. \A a \in session'.flushed["artifacts"] :
          a \in db["artifacts"] \/ (IsArtifact(a) /\ a.key[1] = job.run)
  <2>1. \A a \in All(session', "artifacts") :
           a \in All(session, "artifacts") \/ <<"artifacts", a>> \in N
    BY NamesKnown DEF Grows
  <2>2. All(session, "artifacts") = session.flushed["artifacts"]
    BY DEF TypeInv, SessionInv, All
  <2>3. session'.flushed["artifacts"] \subseteq All(session', "artifacts")
    BY DEF All
  <2> QED
    BY <2>1, <2>2, <2>3 DEF TypeInv, SessionInv
<1>9. (\A a \in session.flushed["artifacts"] :
          a \in db["artifacts"] \/ (IsArtifact(a) /\ a.key[1] = job.run))'
  BY <1>8 DEF IsArtifact
<1>10. (\A r \in session.flushed["runs"] : r \in db["runs"] \/ r = OwnRun)'
  BY <1>5, <1>7
<1>11. SessionInv'
  BY <1>2, <1>3, <1>4, <1>5, <1>6, <1>9, <1>10 DEF SessionInv
<1> QED
  BY <1>1, <1>11

LEMMA RecordStepFrame ==
    ASSUME ControlInv, RecordStep
    PROVE  ~Idle /\ UNCHANGED <<commandVars, db, job, items, file>> /\ todo' = Tail(todo)
  BY DEF RecordStep, PersistPrice, PersistSettlement, EnrichInstrument, PersistTrade, PersistCredit,
         PersistLending, PersistUnknownLending, PersistEvent, PersistCot, PersistHolding,
         PersistFred, PersistYahoo, PersistBcb, PersistIbge, PersistObservation, PersistTesouro,
         PersistNav, Wait, Persist, Persisting, B3Persisting, Idle

LEMMA RecordStepMemo ==
    ASSUME TypeInv, RecordStep
    PROVE  /\ DOMAIN memo' = DOMAIN memo
           /\ KeysUnique(memo'.waiting) /\ (\A q \in memo.waiting : IsFirst(q))'
<1>1. DOMAIN memo = {"stored", "ids", "priced", "trades", "waiting"}
  BY DEF TypeInv, ControlInv
<1>2. KeysUnique(memo.waiting) /\ \A q \in memo.waiting : IsFirst(q)
  BY DEF TypeInv, SessionInv
<1>3. CASE /\ DOMAIN memo' = DOMAIN memo
           /\ memo'.waiting = memo.waiting /\ memo'.stored = memo.stored
  BY <1>2, <1>3 DEF IsFirst
<1>4. CASE PersistPrice
  <2>1. CASE memo' = memo
    BY <1>3, <2>1
  <2>2. CASE Wait(Listed(Record), KnowTicker(Record),
                  <<B3(Record.ticker), Record.date, "LAST">>, Record.value)
    <3>1. PICK m : m = KnowTicker(Record)
      OBVIOUS
    <3>2. DOMAIN m = DOMAIN memo /\ m.stored = memo.stored /\ m.waiting = memo.waiting
      BY <1>1, <3>1 DEF KnowTicker
    <3>3. memo' = IF <<B3(Record.ticker), Record.date, "LAST">> \in m.stored THEN m
                   ELSE [m EXCEPT !.stored = @ \cup {<<B3(Record.ticker), Record.date, "LAST">>},
                                  !.waiting = @ \cup {Quote(<<B3(Record.ticker), Record.date, "LAST">>,
                                                            1, Record.value, file.sha)}]
      BY <2>2, <3>1 DEF Wait
    <3> QED
      BY <1>1, <1>2, <3>2, <3>3, WaitsOnce
  <2> QED
    BY <1>4, <2>1, <2>2 DEF PersistPrice
<1>5. CASE PersistTesouro
  <2>1. memo' = IF <<Instrument("tesouro", First.ticker), First.date, First.kind>> \in memo.stored
                THEN memo
                ELSE [memo EXCEPT !.stored = @ \cup {<<Instrument("tesouro", First.ticker), First.date, First.kind>>},
                                  !.waiting = @ \cup {Quote(<<Instrument("tesouro", First.ticker), First.date, First.kind>>,
                                                            1, First.value, file.sha)}]
    BY <1>5 DEF PersistTesouro, Wait
  <2> QED
    BY <1>1, <1>2, <2>1, WaitsOnce
<1>6. CASE PersistNav
  <2> DEFINE fund == FundInstrument(First)
  <2>1. CASE memo' = memo
    BY <1>3, <2>1
  <2>2. CASE Wait(GetOrCreateFund(session, First), memo, <<fund, First.date, "FUND_NAV">>, First.value)
    <3> HIDE DEF fund
    <3>1. memo' = IF <<fund, First.date, "FUND_NAV">> \in memo.stored THEN memo
                  ELSE [memo EXCEPT !.stored = @ \cup {<<fund, First.date, "FUND_NAV">>},
                                    !.waiting = @ \cup {Quote(<<fund, First.date, "FUND_NAV">>,
                                                              1, First.value, file.sha)}]
      BY <2>2 DEF Wait
    <3> QED
      BY <1>1, <1>2, <3>1, WaitsOnce
  <2> QED
    BY <1>6, <2>1, <2>2 DEF PersistNav, FundInstrument, FundKey
<1>7. CASE ~PersistPrice /\ ~PersistTesouro /\ ~PersistNav
  <2>1. /\ DOMAIN memo' = DOMAIN memo
        /\ memo'.waiting = memo.waiting /\ memo'.stored = memo.stored
    BY <1>1, <1>7 DEF RecordStep, PersistSettlement, EnrichInstrument, PersistTrade, PersistCredit,
         PersistLending, PersistEvent, PersistCot, PersistHolding, PersistFred, PersistYahoo,
         PersistBcb, PersistIbge, PersistObservation, KnowTicker
  <2> QED
    BY <1>3, <2>1
<1> QED
  BY <1>4, <1>5, <1>6, <1>7

LEMMA RecordStepTypes == TypeInv /\ RecordStep => TypeInv'
<1> SUFFICES ASSUME TypeInv, RecordStep
             PROVE  TypeInv'
  OBVIOUS
<1>1. ControlInv /\ SessionInv /\ Sound(session)
  BY DEF TypeInv, SessionInv
<1>2. ~Idle /\ UNCHANGED <<commandVars, db, job, items, file>>
  BY <1>1, RecordStepFrame
<1>3. /\ DOMAIN memo' = DOMAIN memo
      /\ KeysUnique(memo'.waiting) /\ (\A q \in memo.waiting : IsFirst(q))'
  BY RecordStepMemo
<1>4. PICK N : Sound(session') /\ Grows(session, session', N) /\ Plain(N)
  BY <1>1, RecordStepKeeps
<1>5. session'.added["artifacts"] = {}
  <2>1. \A a \in session'.added["artifacts"] :
           a \in session.added["artifacts"] \/ <<"artifacts", a>> \in N
    BY <1>4, NamesKnown DEF Grows
  <2> QED
    BY <1>1, <1>4, <2>1 DEF SessionInv, Plain
<1>6. UNCHANGED <<db, job, command>>
  BY <1>2 DEF commandVars
<1>7. /\ \A p \in N : p[1] # "runs"
      /\ \A a : <<"artifacts", a>> \in N => IsArtifact(a) /\ a.key[1] = job.run
  BY <1>4 DEF Plain
<1>8. CommittedInv' /\ SessionInv'
  BY <1>2, <1>3, <1>4, <1>5, <1>6, <1>7, SessionStep
<1>9. ControlInv'
  BY <1>1, <1>2, <1>3 DEF ControlInv, commandVars, Idle
<1> QED
  BY <1>8, <1>9 DEF TypeInv

\* The three fetching actions.
FetchStep == FetchB3 \/ FetchSide \/ FetchBulk

LEMMA FetchStepFrame ==
    ASSUME ControlInv, FetchStep
    PROVE  /\ ~Idle /\ UNCHANGED <<commandVars, db, job>>
           /\ todo = <<>> /\ memo.waiting = {} /\ items # <<>> /\ items' = Tail(items)
           /\ memo'.waiting = {} /\ DOMAIN memo' = DOMAIN memo
           /\ \E f \in Served : session' = StoreArtifact(session, job.run, Kind, f.sha)
  BY DEF FetchStep, FetchB3, FetchSide, FetchBulk, Fetch, CanFetch, ControlInv

LEMMA StoreArtifactStep ==
    ASSUME Sound(session), NEW sha, session' = StoreArtifact(session, job.run, Kind, sha)
    PROVE  /\ Sound(session')
           /\ Grows(session, session', New("artifacts", {[key |-> <<job.run, Kind, sha>>]}))
           /\ [key |-> <<job.run, Kind, sha>>] \in session'.flushed["artifacts"]
           /\ \A t \in Names : session'.added[t] = {} /\ session'.flushed[t] = All(session', t)
<1>1. PICK row : row = [key |-> <<job.run, Kind, sha>>]
  OBVIOUS
<1>2. PICK z : z = StoreArtifact(session, job.run, Kind, sha)
  OBVIOUS
<1>3. /\ Sound(z) /\ Grows(session, z, New("artifacts", {row})) /\ row \in z.flushed["artifacts"]
  BY <1>1, <1>2, StoreArtifactKeeps
<1>4. PICK a : a = Add(session, "artifacts", {row})
  OBVIOUS
<1>5. z = Flush(a)
  BY <1>1, <1>2, <1>4 DEF StoreArtifact
<1>6. IsSession(a)
  BY <1>4, NamesKnown, AddShape DEF Sound
<1>7. \A t \in Names : z.added[t] = {}
  BY <1>5, <1>6, FlushShape
<1>8. \A t \in Names : z.flushed[t] = All(z, t)
  BY <1>7 DEF All
<1> QED
  BY <1>1, <1>2, <1>3, <1>7, <1>8

LEMMA FetchStepTypes == TypeInv /\ FetchStep => TypeInv'
<1> SUFFICES ASSUME TypeInv, FetchStep
             PROVE  TypeInv'
  OBVIOUS
<1>1. ControlInv /\ SessionInv /\ Sound(session)
  BY DEF TypeInv, SessionInv
<1>2. /\ ~Idle /\ UNCHANGED <<commandVars, db, job>>
      /\ memo'.waiting = {} /\ DOMAIN memo' = DOMAIN memo
  BY <1>1, FetchStepFrame
<1>3. PICK f \in Served : session' = StoreArtifact(session, job.run, Kind, f.sha)
  BY <1>1, FetchStepFrame
<1>4. PICK row : row = [key |-> <<job.run, Kind, f.sha>>]
  OBVIOUS
<1>5. /\ Sound(session') /\ Grows(session, session', New("artifacts", {row}))
      /\ session'.added["artifacts"] = {}
  BY <1>1, <1>3, <1>4, NamesKnown, StoreArtifactStep
<1>6. IsArtifact(row) /\ row.key[1] = job.run
  BY <1>1, <1>2, <1>4 DEF ControlInv, IsArtifact
<1>7. /\ \A p \in New("artifacts", {row}) : p[1] # "runs"
      /\ \A a : <<"artifacts", a>> \in New("artifacts", {row}) => IsArtifact(a) /\ a.key[1] = job.run
  BY <1>6 DEF New
<1>8. UNCHANGED <<db, job, command>>
  BY <1>2 DEF commandVars
<1>9. KeysUnique(memo'.waiting) /\ (\A q \in memo.waiting : IsFirst(q))'
  BY <1>2 DEF KeysUnique
<1>10. CommittedInv' /\ SessionInv'
  BY <1>2, <1>5, <1>7, <1>8, <1>9, SessionStep
<1>11. ControlInv'
  BY <1>1, <1>2 DEF ControlInv, commandVars, Idle
<1> QED
  BY <1>10, <1>11 DEF TypeInv

\* The session with the waiting quotes flushed.
FlushedBatch == Flush(Add(session, "quotes", memo.waiting))

LEMMA FlushedBatchKeeps ==
    ASSUME TypeInv
    PROVE  /\ Sound(FlushedBatch) /\ Grows(session, FlushedBatch, New("quotes", memo.waiting))
           /\ \A t \in Names : /\ FlushedBatch.added[t] = {}
                               /\ FlushedBatch.flushed[t] = All(FlushedBatch, t)
           /\ memo.waiting \subseteq FlushedBatch.flushed["quotes"]
<1> DEFINE a == Add(session, "quotes", memo.waiting)
           z == Flush(a)
<1>1. Sound(session) /\ KeysUnique(memo.waiting) /\ \A q \in memo.waiting : IsFirst(q)
  BY DEF TypeInv, SessionInv
<1>2. Numbered(All(session, "quotes") \cup memo.waiting)
  BY <1>1, NumberedFirsts DEF Sound, IsFirst
<1>3. /\ Sound(a) /\ Grows(session, a, New("quotes", memo.waiting))
      /\ memo.waiting \subseteq All(a, "quotes")
  BY <1>1, <1>2, NamesKnown, AddKeeps
<1> HIDE DEF a
<1>4. Sound(z) /\ Grows(a, z, {})
  BY <1>3, FlushKeeps
<1>5. \A t \in Names : z.added[t] = {} /\ z.flushed[t] = All(a, t)
  BY <1>3, FlushShape DEF Sound
<1> HIDE DEF z
<1>6. Grows(session, z, New("quotes", memo.waiting) \cup {})
  BY <1>3, <1>4, GrowsOn
<1>7. Grows(session, z, New("quotes", memo.waiting))
  BY <1>6, GrowsMore
<1>8. \A t \in Names : z.flushed[t] = All(z, t)
  BY <1>5 DEF All
<1>9. memo.waiting \subseteq z.flushed["quotes"]
  BY <1>3, <1>5, NamesKnown
<1>10. FlushedBatch = z
  BY DEF FlushedBatch, z, a
<1> QED
  BY <1>4, <1>5, <1>7, <1>8, <1>9, <1>10

LEMMA FlushBatchFrame ==
    ASSUME ControlInv, FlushBatch
    PROVE  /\ ~Idle /\ UNCHANGED <<commandVars, job, items, todo, file>>
           /\ session' = FlushedBatch /\ memo' = [memo EXCEPT !.waiting = {}]
           /\ db' = db \/ (~FlushedBatch.clash /\ db' = FlushedBatch.flushed)
           /\ job.loader = "b3" => db' = db
  BY DEF FlushBatch, FlushedBatch, ControlInv, NoMemo

LEMMA FlushBatchTypes == TypeInv /\ FlushBatch => TypeInv'
<1> SUFFICES ASSUME TypeInv, FlushBatch
             PROVE  TypeInv'
  OBVIOUS
<1>1. ControlInv /\ SessionInv /\ Sound(session)
  BY DEF TypeInv, SessionInv
<1>2. /\ ~Idle /\ UNCHANGED <<commandVars, job, items, todo, file>>
      /\ session' = FlushedBatch /\ memo' = [memo EXCEPT !.waiting = {}]
      /\ db' = db \/ (~FlushedBatch.clash /\ db' = FlushedBatch.flushed)
  BY <1>1, FlushBatchFrame
<1>3. PICK z : z = FlushedBatch
  OBVIOUS
<1>4. /\ Sound(z) /\ Grows(session, z, New("quotes", memo.waiting))
      /\ \A t \in Names : z.added[t] = {} /\ z.flushed[t] = All(z, t)
  BY <1>3, FlushedBatchKeeps
<1>5. memo'.waiting = {} /\ DOMAIN memo' = DOMAIN memo
  BY <1>1, <1>2 DEF ControlInv
<1>6. KeysUnique(memo'.waiting) /\ (\A q \in memo.waiting : IsFirst(q))'
  BY <1>5 DEF KeysUnique
<1>7. ControlInv'
  BY <1>1, <1>2, <1>5 DEF ControlInv, commandVars, Idle
<1>8. CASE db' = db
  <2>1. /\ \A p \in New("quotes", memo.waiting) : p[1] # "runs"
        /\ \A a : <<"artifacts", a>> \in New("quotes", memo.waiting) =>
              IsArtifact(a) /\ a.key[1] = job.run
    BY DEF New
  <2>2. Sound(session') /\ Grows(session, session', New("quotes", memo.waiting))
        /\ session'.added["artifacts"] = {}
    BY <1>2, <1>3, <1>4, NamesKnown
  <2>3. UNCHANGED <<db, job, command>>
    BY <1>2, <1>8 DEF commandVars
  <2>4. CommittedInv' /\ SessionInv'
    BY <1>2, <1>6, <2>1, <2>2, <2>3, SessionStep
  <2> QED
    BY <1>7, <2>4 DEF TypeInv
<1>9. CASE ~z.clash /\ db' = z.flushed
  <2>1. DOMAIN db' = Names /\ \A t \in Names : KeysUnique(db'[t])
    BY <1>4, <1>9 DEF Sound, IsSession
  <2>2. Numbered(db'["quotes"])
    BY <1>4, <1>9 DEF Sound
  <2>3. OwnRun' = OwnRun /\ job' = job
    BY <1>2 DEF OwnRun, commandVars
  <2>4. /\ \A r \in db'["runs"] : r \in db["runs"] \/ r = OwnRun
        /\ OwnRun \in db'["runs"]
    <3>1. \A r \in All(z, "runs") : r \in All(session, "runs")
      BY <1>4, NamesKnown DEF Grows, New
    <3>2. All(session, "runs") = session.flushed["runs"]
      BY <1>1 DEF SessionInv, All
    <3>3. session.flushed["runs"] \subseteq z.flushed["runs"]
      BY <1>4, NamesKnown DEF Grows
    <3> QED
      BY <1>1, <1>2, <1>4, <1>9, <3>1, <3>2, <3>3, NamesKnown DEF SessionInv
  <2>5. \A a \in db'["artifacts"] : IsArtifact(a)
    <3>1. \A a \in All(z, "artifacts") : a \in All(session, "artifacts")
      BY <1>4, NamesKnown DEF Grows, New
    <3>2. All(session, "artifacts") = session.flushed["artifacts"]
      BY <1>1 DEF SessionInv, All
    <3> QED
      BY <1>1, <1>4, <1>9, <3>1, <3>2, NamesKnown DEF SessionInv, TypeInv, CommittedInv
  <2>6. IsRun(OwnRun) /\ OwnRun.key[1] = job.run
    BY <1>1, <1>2 DEF IsRun, OwnRun, RunRow, ControlInv
  <2>7. \A r \in db["runs"] : IsRun(r) /\ (r.key[1] = job.run => r = OwnRun)
    BY <1>2 DEF TypeInv, CommittedInv
  <2>8. (\A r \in db["runs"] : IsRun(r) /\ (~Idle /\ r.key[1] = job.run => r = OwnRun))'
    BY <2>3, <2>4, <2>6, <2>7 DEF IsRun
  <2>9. (\A a \in db["artifacts"] : IsArtifact(a))'
    BY <2>3, <2>5 DEF IsArtifact
  <2>10. CommittedInv'
    BY <2>1, <2>2, <2>8, <2>9 DEF CommittedInv
  <2>11. Sound(session') /\ session'.flushed = db' /\ \A t \in Names : session'.added[t] = {}
    BY <1>2, <1>3, <1>4, <1>9
  <2>12. Keys(db'["snapshots"]) \subseteq Keys(All(session', "snapshots"))
    BY <2>11 DEF All, Keys
  <2>13. SessionInv'
    BY <1>2, <1>6, <2>3, <2>4, <2>11, <2>12, NamesKnown DEF SessionInv
  <2> QED
    BY <1>7, <2>10, <2>13 DEF TypeInv
<1> QED
  BY <1>2, <1>3, <1>8, <1>9

LEMMA LeaveJobTypes ==
    ASSUME ControlInv, LeaveJob
    PROVE  Idle' /\ job' \in [loader : Loaders \cup {"none"}, run : Nat] /\ job'.run = job.run
           /\ items' = <<>> /\ todo' = <<>> /\ memo' = NoMemo
           /\ DOMAIN memo' = {"stored", "ids", "priced", "trades", "waiting"}
  BY DEF ControlInv, LeaveJob, Idle, NoMemo

\* A step after which the process is idle and db as it was.
LEMMA RolledBack ==
    ASSUME TypeInv, Idle', job'.run = job.run, memo' = NoMemo, session' = Begin(db), db' = db
    PROVE  CommittedInv' /\ SessionInv'
<1>1. /\ DOMAIN db' = Names /\ \A t \in Names : KeysUnique(db'[t])
      /\ Numbered(db'["quotes"]) /\ session' = Begin(db')
  BY DEF TypeInv, CommittedInv
<1>2. (\A r \in db["runs"] : IsRun(r))' /\ (\A a \in db["artifacts"] : IsArtifact(a))'
  BY DEF TypeInv, CommittedInv, IsRun, IsArtifact
<1> QED
  BY <1>1, <1>2, IdleKeeps

LEMMA AbortTypes == TypeInv /\ (Abort \/ Kill) => TypeInv'
<1> SUFFICES ASSUME TypeInv, Abort \/ Kill
             PROVE  TypeInv'
  OBVIOUS
<1>1. ControlInv
  BY DEF TypeInv
<1>2. LeaveJob /\ session' = Begin(db) /\ db' = db
  BY DEF Abort, Kill
<1>3. CommittedInv' /\ SessionInv'
  BY <1>1, <1>2, LeaveJobTypes, RolledBack
<1>4. CASE Abort
  <2>1. job.loader \in Loaders
    BY <1>1, <1>4 DEF ControlInv, Abort, Idle
  <2>2. failed' \subseteq Loaders /\ UNCHANGED <<plan, queue, exit>>
    BY <1>1, <1>4, <2>1 DEF ControlInv, Abort
  <2>3. ControlInv'
    BY <1>1, <1>2, <2>2, LeaveJobTypes DEF ControlInv
  <2> QED
    BY <1>3, <2>3 DEF TypeInv
<1>5. CASE Kill
  <2>1. exit' = "killed" /\ queue' = <<>> /\ UNCHANGED <<plan, failed>>
    BY <1>5 DEF Kill
  <2>2. ControlInv'
    BY <1>1, <1>2, <2>1, LeaveJobTypes DEF ControlInv
  <2> QED
    BY <1>3, <2>2 DEF TypeInv
<1> QED
  BY <1>4, <1>5

LEMMA BeginCommandTypes == TypeInv /\ (BeginCommand \/ EndCommand) => TypeInv'
<1> SUFFICES ASSUME TypeInv, BeginCommand \/ EndCommand
             PROVE  TypeInv'
  OBVIOUS
<1>1. ControlInv /\ Idle
  BY DEF TypeInv, BeginCommand, EndCommand
<1>2. UNCHANGED <<db, session, job, items, todo, memo>> /\ Idle'
  BY <1>1 DEF BeginCommand, EndCommand, Idle
<1>3. memo' = NoMemo /\ session' = Begin(db)
  BY <1>1, <1>2 DEF ControlInv
<1>4. CommittedInv' /\ SessionInv'
  BY <1>2, <1>3, RolledBack
<1>5. CASE BeginCommand
  <2>1. Head(plan) \in Commands /\ plan' \in Seq(Commands)
    BY <1>1, <1>5 DEF ControlInv, BeginCommand
  <2>2. queue' \in Seq(Loaders)
    BY <1>5, <2>1, PlansAssumption DEF BeginCommand, PlansAssumption
  <2>3. ControlInv'
    BY <1>1, <1>2, <1>3, <1>5, <2>1, <2>2 DEF ControlInv, BeginCommand
  <2> QED
    BY <1>4, <2>3 DEF TypeInv
<1>6. CASE EndCommand
  <2>1. ControlInv'
    BY <1>1, <1>2, <1>3, <1>6 DEF ControlInv, EndCommand
  <2> QED
    BY <1>4, <2>1 DEF TypeInv
<1> QED
  BY <1>5, <1>6

LEMMA SkipFileTypes == TypeInv /\ SkipFile => TypeInv'
<1> SUFFICES ASSUME TypeInv, SkipFile
             PROVE  TypeInv'
  OBVIOUS
<1>1. ~Idle /\ UNCHANGED <<commandVars, db, session, job, todo, memo>>
  BY DEF SkipFile, CanFetch
<1>2. ControlInv'
  BY <1>1 DEF TypeInv, ControlInv, commandVars, Idle
<1>3. CommittedInv'
  BY <1>1 DEF TypeInv, CommittedInv, IsRun, IsArtifact, OwnRun, commandVars, Idle
<1>4. SessionInv'
  BY <1>1 DEF TypeInv, SessionInv, IsArtifact, IsFirst, OwnRun, commandVars, Idle
<1> QED
  BY <1>2, <1>3, <1>4 DEF TypeInv

\* What the session of a new job is.
LEMMA BeginJobFrame ==
    ASSUME TypeInv, BeginJob
    PROVE  /\ ~Idle' /\ job'.run = job.run + 1 /\ job'.loader = Head(queue) /\ command' = command
           /\ db' = db /\ todo' = <<>> /\ memo' = NoMemo
           /\ Sound(session') /\ Grows(Begin(db), session', New("runs", {OwnRun'}))
           /\ OwnRun' \in session'.flushed["runs"]
           /\ \A t \in Names : /\ session'.added[t] = {}
                               /\ session'.flushed[t] =
                                    IF t = "runs" THEN db[t] \cup {OwnRun'} ELSE db[t]
<1>1. ControlInv /\ Idle /\ queue # <<>>
  BY DEF TypeInv, BeginJob
<1>2. Head(queue) \in Loaders /\ "none" \notin Loaders
  BY <1>1 DEF ControlInv, Loaders
<1>3. /\ job' = [loader |-> Head(queue), run |-> job.run + 1] /\ command' = command
      /\ db' = db /\ todo' = <<>> /\ memo' = NoMemo
      /\ session' = StartRun(Begin(db), job.run + 1, Head(queue), command.date, command.full)
  BY <1>1 DEF BeginJob, ControlInv
<1>4. ~Idle'
  BY <1>2, <1>3 DEF Idle
<1>5. PICK row : row = RunRow(job.run + 1, Head(queue), command.date, command.full, "STARTED")
  OBVIOUS
<1>6. OwnRun' = row
  BY <1>3, <1>5 DEF OwnRun
<1>7. PICK b : b = Begin(db)
  OBVIOUS
<1>8. PICK z : z = StartRun(b, job.run + 1, Head(queue), command.date, command.full)
  OBVIOUS
<1>9. DOMAIN db = Names /\ (\A t \in Names : KeysUnique(db[t])) /\ Numbered(db["quotes"])
  BY DEF TypeInv, CommittedInv
<1>10. /\ Sound(b) /\ IsSession(b) /\ b.flushed = db
       /\ \A t \in Names : b.added[t] = {} /\ All(b, t) = db[t]
  BY <1>7, <1>9, BeginSound, BeginShape
<1>11. Sound(z) /\ Grows(b, z, New("runs", {row})) /\ row \in z.flushed["runs"]
  BY <1>5, <1>8, <1>10, StartRunKeeps
<1>12. PICK a : a = Add(b, "runs", {row})
  OBVIOUS
<1>13. z = Flush(a)
  BY <1>5, <1>8, <1>12 DEF StartRun, RunRow
<1>14. /\ IsSession(a) /\ a.flushed = b.flushed /\ a.added["runs"] = b.added["runs"] \cup {row}
       /\ \A t \in Names \ {"runs"} : a.added[t] = b.added[t]
  BY <1>10, <1>12, NamesKnown, AddShape
<1>15. \A t \in Names : z.added[t] = {} /\ z.flushed[t] = All(a, t)
  BY <1>13, <1>14, FlushShape
<1>16. \A t \in Names : z.flushed[t] = IF t = "runs" THEN db[t] \cup {row} ELSE db[t]
  BY <1>10, <1>14, <1>15 DEF All
<1>17. session' = z
  BY <1>3, <1>7, <1>8
<1> QED
  BY <1>3, <1>4, <1>6, <1>7, <1>11, <1>15, <1>16, <1>17

LEMMA BeginJobTypes == TypeInv /\ BeginJob => TypeInv'
<1> SUFFICES ASSUME TypeInv, BeginJob
             PROVE  TypeInv'
  OBVIOUS
<1>1. ControlInv
  BY DEF TypeInv
<1>2. /\ ~Idle' /\ job'.run = job.run + 1 /\ db' = db /\ todo' = <<>> /\ memo' = NoMemo
      /\ Sound(session') /\ OwnRun' \in session'.flushed["runs"]
      /\ \A t \in Names : /\ session'.added[t] = {}
                          /\ session'.flushed[t] =
                               IF t = "runs" THEN db[t] \cup {OwnRun'} ELSE db[t]
  BY BeginJobFrame
<1>3. job.run \in Nat
  BY <1>1 DEF ControlInv
<1>4. ControlInv'
  <2>1. Head(queue) \in Loaders /\ queue' \in Seq(Loaders)
    BY <1>1 DEF ControlInv, BeginJob
  <2>2. exit' = "running" /\ UNCHANGED <<plan, failed>>
    BY DEF BeginJob
  <2>3. job' \in [loader : Loaders \cup {"none"}, run : Nat]
    BY <1>3, <2>1 DEF BeginJob
  <2>4. DOMAIN memo' = {"stored", "ids", "priced", "trades", "waiting"}
    BY <1>2 DEF NoMemo
  <2> QED
    BY <1>1, <1>2, <1>3, <2>1, <2>2, <2>3, <2>4 DEF ControlInv
<1>5. CommittedInv'
  <2>1. /\ DOMAIN db = Names /\ (\A t \in Names : KeysUnique(db[t])) /\ Numbered(db["quotes"])
        /\ (\A r \in db["runs"] : IsRun(r)) /\ (\A a \in db["artifacts"] : IsArtifact(a))
    BY DEF TypeInv, CommittedInv
  <2>2. (\A r \in db["runs"] : IsRun(r) /\ (~Idle /\ r.key[1] = job.run => r = OwnRun))'
    BY <1>2, <1>3, <2>1 DEF IsRun
  <2>3. (\A a \in db["artifacts"] : IsArtifact(a))'
    BY <1>2, <1>3, <2>1 DEF IsArtifact
  <2> QED
    BY <1>2, <2>1, <2>2, <2>3 DEF CommittedInv
<1>6. SessionInv'
  <2>1. \A t \in Names : db[t] \subseteq session'.flushed[t]
    BY <1>2
  <2>2. Keys(db["snapshots"]) \subseteq Keys(All(session', "snapshots"))
    BY <2>1, NamesKnown DEF Keys, All
  <2>3. memo'.waiting = {}
    BY <1>2 DEF NoMemo
  <2>4. \A r \in session'.flushed["runs"] : r \in db["runs"] \/ r = OwnRun'
    BY <1>2, NamesKnown
  <2>5. \A a \in session'.flushed["artifacts"] : a \in db["artifacts"]
    BY <1>2, NamesKnown
  <2> QED
    BY <1>2, <2>1, <2>2, <2>3, <2>4, <2>5, NamesKnown DEF SessionInv, KeysUnique
<1> QED
  BY <1>4, <1>5, <1>6 DEF TypeInv

SucceededRun == RunRow(job.run, job.loader, command.date, command.full, "SUCCEEDED")

LEMMA CommitJobFrame ==
    ASSUME TypeInv, CommitJob
    PROVE  /\ ~Idle /\ todo = <<>> /\ items = <<>> /\ memo.waiting = {} /\ ~session.clash
           /\ UNCHANGED commandVars /\ LeaveJob /\ session' = Begin(db')
           /\ DOMAIN db' = Names /\ \A t \in Names : KeysUnique(db'[t])
           /\ Numbered(db'["quotes"])
           /\ \A t \in Names \ {"runs"} : db'[t] = All(session, t)
           /\ db'["runs"] = (session.flushed["runs"] \ {OwnRun}) \cup {SucceededRun}
<1>1. ControlInv /\ SessionInv /\ Sound(session)
  BY DEF TypeInv, SessionInv
<1>2. ~Idle /\ todo = <<>> /\ items = <<>> /\ memo.waiting = {} /\ UNCHANGED commandVars /\ LeaveJob
  BY DEF CommitJob, Finished
<1>3. PICK z : z = FinishRun(session, job.run)
  OBVIOUS
<1>4. ~z.clash /\ db' = z.flushed /\ session' = Begin(db')
  BY <1>3 DEF CommitJob
<1>5. ~session.clash
  <2>1. z.clash <=> session.clash
    <3>1. PICK run : run = CHOOSE r \in session.flushed["runs"] : r.key = <<job.run>>
      OBVIOUS
    <3>2. PICK row : row = [run EXCEPT !.status = "SUCCEEDED"]
      OBVIOUS
    <3>3. z = Flush(Replace(session, "runs", {run}, row))
      BY <1>3, <3>1, <3>2 DEF FinishRun
    <3>4. /\ IsSession(Replace(session, "runs", {run}, row))
          /\ Replace(session, "runs", {run}, row).clash <=> session.clash
      BY <1>1, NamesKnown, ReplaceShape DEF Sound
    <3> QED
      BY <3>3, <3>4, FlushShape
  <2> QED
    BY <1>4, <2>1
<1>6. /\ OwnRun \in session.flushed["runs"] /\ OwnRun.key = <<job.run>>
      /\ OwnRun.status = "STARTED" /\ session.added["runs"] = {}
      /\ OwnRun = RunRow(job.run, OwnRun.loader, OwnRun.date, OwnRun.full, "STARTED")
      /\ SucceededRun = RunRow(job.run, OwnRun.loader, OwnRun.date, OwnRun.full, "SUCCEEDED")
  BY <1>1, <1>2 DEF SessionInv, OwnRun, RunRow, SucceededRun
<1>7. PICK run : run = OwnRun
  OBVIOUS
<1>8. PICK n : n = job.run
  OBVIOUS
<1>9. /\ Sound(z) /\ \A t \in Names \ {"runs"} : z.flushed[t] = All(session, t)
      /\ z.flushed["runs"] = (session.flushed["runs"] \ {run}) \cup
                             {RunRow(n, run.loader, run.date, run.full, "SUCCEEDED")}
  BY <1>1, <1>3, <1>5, <1>6, <1>7, <1>8, FinishRunShape
<1>10. /\ \A t \in Names \ {"runs"} : db'[t] = All(session, t)
       /\ db'["runs"] = (session.flushed["runs"] \ {OwnRun}) \cup {SucceededRun}
  BY <1>4, <1>6, <1>7, <1>8, <1>9
<1>11. DOMAIN db' = Names /\ (\A t \in Names : KeysUnique(db'[t])) /\ Numbered(db'["quotes"])
  BY <1>4, <1>9 DEF Sound, IsSession
<1> QED
  BY <1>2, <1>4, <1>5, <1>10, <1>11

LEMMA CommitJobTypes == TypeInv /\ CommitJob => TypeInv'
<1> SUFFICES ASSUME TypeInv, CommitJob
             PROVE  TypeInv'
  OBVIOUS
<1>1. ControlInv /\ SessionInv /\ CommittedInv
  BY DEF TypeInv
<1>2. /\ ~Idle /\ UNCHANGED commandVars /\ LeaveJob /\ session' = Begin(db')
      /\ DOMAIN db' = Names /\ (\A t \in Names : KeysUnique(db'[t]))
      /\ Numbered(db'["quotes"])
      /\ \A t \in Names \ {"runs"} : db'[t] = All(session, t)
      /\ db'["runs"] = (session.flushed["runs"] \ {OwnRun}) \cup {SucceededRun}
  BY CommitJobFrame
<1>3. /\ Idle' /\ job' \in [loader : Loaders \cup {"none"}, run : Nat] /\ job'.run = job.run
      /\ items' = <<>> /\ todo' = <<>> /\ memo' = NoMemo
      /\ DOMAIN memo' = {"stored", "ids", "priced", "trades", "waiting"}
  BY <1>1, <1>2, LeaveJobTypes
<1>4. (\A r \in db["runs"] : IsRun(r))'
  <2>1. IsRun(SucceededRun)
    BY <1>1, <1>2 DEF IsRun, SucceededRun, RunRow, ControlInv
  <2>2. \A r \in session.flushed["runs"] : r # OwnRun => IsRun(r)
    BY <1>1 DEF SessionInv, CommittedInv
  <2>3. \A r \in db'["runs"] : IsRun(r)
    BY <1>2, <2>1, <2>2
  <2> QED
    BY <1>3, <2>3 DEF IsRun
<1>5. (\A a \in db["artifacts"] : IsArtifact(a))'
  <2>1. All(session, "artifacts") = session.flushed["artifacts"]
    BY <1>1 DEF SessionInv, All
  <2>2. \A a \in db'["artifacts"] : IsArtifact(a)
    BY <1>1, <1>2, <2>1, NamesKnown DEF SessionInv, CommittedInv
  <2> QED
    BY <1>3, <2>2 DEF IsArtifact
<1>6. CommittedInv' /\ SessionInv'
  BY <1>2, <1>3, <1>4, <1>5, IdleKeeps
<1>7. ControlInv'
  BY <1>1, <1>2, <1>3 DEF ControlInv, commandVars
<1> QED
  BY <1>6, <1>7 DEF TypeInv

LEMMA TypesStutter == TypeInv /\ UNCHANGED vars => TypeInv'
<1> SUFFICES ASSUME TypeInv, UNCHANGED vars
             PROVE  TypeInv'
  OBVIOUS
<1>1. ControlInv'
  BY DEF TypeInv, ControlInv, vars, Idle
<1>2. CommittedInv'
  BY DEF TypeInv, CommittedInv, IsRun, IsArtifact, OwnRun, vars, Idle
<1>3. SessionInv'
  BY DEF TypeInv, SessionInv, IsArtifact, IsFirst, OwnRun, vars, Idle
<1> QED
  BY <1>1, <1>2, <1>3 DEF TypeInv

LEMMA TypesStep == TypeInv /\ [DailyNext]_allVars => TypeInv'
<1> SUFFICES ASSUME TypeInv, [DailyNext]_allVars
             PROVE  TypeInv'
  OBVIOUS
<1>1. CASE CommitAndTell
  BY <1>1, CommitJobTypes DEF CommitAndTell
<1>2. CASE BeginCommand \/ EndCommand
  BY <1>2, BeginCommandTypes
<1>3. CASE BeginJob
  BY <1>3, BeginJobTypes
<1>4. CASE Abort \/ Kill
  BY <1>4, AbortTypes
<1>5. CASE SkipFile
  BY <1>5, SkipFileTypes
<1>6. CASE FlushBatch
  BY <1>6, FlushBatchTypes
<1>7. CASE FetchStep
  BY <1>7, FetchStepTypes
<1>8. CASE RecordStep
  BY <1>8, RecordStepTypes
<1>9. CASE B3Next \/ SideNext
  BY <1>7, <1>8, <1>9 DEF B3Next, SideNext, FetchStep, RecordStep
<1>10. CASE UNCHANGED allVars
  BY <1>10, TypesStutter DEF allVars
<1> QED
  BY <1>1, <1>2, <1>3, <1>4, <1>5, <1>6, <1>9, <1>10 DEF DailyNext

LEMMA TypesImplied == TypeInv => TypeOK
<1> SUFFICES ASSUME TypeInv
             PROVE  TypeOK
  OBVIOUS
<1>1. Range(queue) \subseteq Loaders
  BY DEF TypeInv, ControlInv, Range
<1>2. session.clash \in BOOLEAN
  BY DEF TypeInv, SessionInv, Sound, IsSession
<1>3. \A q \in db["quotes"] : Revision(q) \in Nat \ {0}
  BY QuoteKey DEF TypeInv, CommittedInv, Numbered
<1>4. \A r \in db["runs"] : r.status \in {"STARTED", "SUCCEEDED"}
  BY DEF TypeInv, CommittedInv, IsRun
<1> QED
  BY <1>1, <1>2, <1>3, <1>4 DEF TypeOK, TypeInv, ControlInv, CommittedInv, KeysUnique

\* The variables of a command and the committed tables keep their types and unique
\* keys, and revisions count from one, whatever loaders run, fail or are killed.
THEOREM TypesCorrect == Spec => []TypeOK
<1>1. DailyInit => TypeInv
  BY TypesAtStart DEF DailyInit
<1> QED
  BY <1>1, TypesStep, TypesImplied, PTL DEF Spec

(*************************** What exit code 0 means **************************)

\* Loaders of the command that have started.
Started == Len(Enabled(command)) - Len(queue)

LoadedAt(p, number) ==
    \E r \in db["runs"] : /\ r.loader = Enabled(command)[p] /\ r.date = command.date
                          /\ r.status = "SUCCEEDED" /\ r.key[1] = number

\* The queue is what is left of the enabled loaders; without a failure all
\* that have left it succeeded, with the runs numbered in their order.
ExitInv ==
    /\ exit = "running" =>
         /\ Enabled(command) \in Seq(Loaders) /\ Len(queue) <= Len(Enabled(command))
         /\ \A i \in 1 .. Len(queue) : queue[i] = Enabled(command)[Started + i]
         /\ ~Idle => Started >= 1 /\ job.loader = Enabled(command)[Started]
         /\ failed = {} =>
              \A p \in 1 .. Started : p < Started \/ Idle => LoadedAt(p, job.run - Started + p)
    /\ exit = "0" =>
         /\ Enabled(command) \in Seq(Loaders)
         /\ \A p \in 1 .. Len(Enabled(command)) :
               LoadedAt(p, job.run - Len(Enabled(command)) + p)

LEMMA ExitImplied == ExitInv /\ TypeInv => ExitZeroMeansLoaded
<1> SUFFICES ASSUME ExitInv, TypeInv, exit = "0", NEW l \in Range(Enabled(command))
             PROVE  \E r \in db["runs"] : /\ r.loader = l /\ r.date = command.date
                                          /\ r.status = "SUCCEEDED"
                                          /\ r.key[1] > job.run - Len(Enabled(command))
  BY DEF ExitZeroMeansLoaded
<1> DEFINE E == Enabled(command)
<1>1. E \in Seq(Loaders) /\ \A p \in 1 .. Len(E) : LoadedAt(p, job.run - Len(E) + p)
  BY DEF ExitInv
<1>2. job.run \in Nat /\ Len(E) \in Nat
  BY <1>1 DEF TypeInv, ControlInv
<1>3. PICK p \in 1 .. Len(E) : E[p] = l
  BY <1>1 DEF Range
<1>4. PICK r \in db["runs"] : /\ r.loader = E[p] /\ r.date = command.date
                              /\ r.status = "SUCCEEDED" /\ r.key[1] = job.run - Len(E) + p
  BY <1>1, <1>3 DEF LoadedAt
<1>5. r.key[1] > job.run - Len(E)
  BY <1>2, <1>3, <1>4
<1> QED
  BY <1>3, <1>4, <1>5

LEMMA ExitAtStart == Init => ExitInv
  BY DEF Init, ExitInv

\* Steps that leave the commands and the job alone and keep the run rows.
LEMMA ExitFrame ==
    ASSUME ExitInv, UNCHANGED <<commandVars, job>>, db["runs"] \subseteq db'["runs"]
    PROVE  ExitInv'
<1>1. \A p, number : LoadedAt(p, number) => LoadedAt(p, number)'
  BY DEF LoadedAt, commandVars
<1>2. Started' = Started /\ (Idle' <=> Idle)
  BY DEF Started, commandVars, Idle
<1> QED
  BY <1>1, <1>2 DEF ExitInv, commandVars

LEMMA ExitStep == TypeInv /\ ExitInv /\ [DailyNext]_allVars => ExitInv'
<1> SUFFICES ASSUME TypeInv, ExitInv, [DailyNext]_allVars
             PROVE  ExitInv'
  OBVIOUS
<1>1. ControlInv /\ SessionInv /\ CommittedInv
  BY DEF TypeInv
<1>2. CASE BeginCommand
  <2>1. /\ exit' = "running" /\ queue' = Enabled(command') /\ command' = Head(plan)
        /\ Idle /\ job' = job /\ plan # <<>>
    BY <1>2 DEF BeginCommand
  <2>2. queue' \in Seq(Loaders)
    BY <1>1, <2>1, PlansAssumption DEF ControlInv, PlansAssumption
  <2>3. Started' = 0 /\ Len(queue') \in Nat
    BY <2>1, <2>2 DEF Started
  <2>4. Idle'
    BY <2>1 DEF Idle
  <2>5. \A i \in 1 .. Len(queue') : queue'[i] = Enabled(command')[Started' + i]
    BY <2>1, <2>3
  <2> QED
    BY <2>1, <2>2, <2>3, <2>4, <2>5 DEF ExitInv
<1>3. CASE EndCommand
  <2>1. /\ Idle /\ exit = "running" /\ queue = <<>> /\ UNCHANGED <<command, queue, job, db>>
        /\ exit' \in {"0", "1"} /\ (exit' = "0" => failed = {})
    BY <1>3 DEF EndCommand
  <2>2. Enabled(command) \in Seq(Loaders) /\ Started = Len(Enabled(command))
    BY <2>1 DEF ExitInv, Started
  <2>3. \A p, number : LoadedAt(p, number)' <=> LoadedAt(p, number)
    BY <2>1 DEF LoadedAt
  <2>4. exit' = "0" => \A p \in 1 .. Started : LoadedAt(p, job.run - Started + p)
    BY <2>1 DEF ExitInv
  <2> QED
    BY <2>1, <2>2, <2>3, <2>4 DEF ExitInv
<1>4. CASE BeginJob
  <2>1. /\ Idle /\ exit = "running" /\ exit' = "running" /\ queue # <<>> /\ queue' = Tail(queue)
        /\ job' = [loader |-> Head(queue), run |-> job.run + 1]
        /\ UNCHANGED <<command, failed, db>>
    BY <1>4 DEF BeginJob
  <2>2. ~Idle'
    BY <1>4, BeginJobFrame
  <2>3. queue \in Seq(Loaders) /\ job.run \in Nat
    BY <1>1 DEF ControlInv
  <2>4. /\ Enabled(command) \in Seq(Loaders) /\ Len(queue) <= Len(Enabled(command))
        /\ \A i \in 1 .. Len(queue) : queue[i] = Enabled(command)[Started + i]
        /\ failed = {} => \A p \in 1 .. Started : LoadedAt(p, job.run - Started + p)
    BY <2>1 DEF ExitInv
  <2>5. Len(queue) \in Nat \ {0} /\ Len(queue') = Len(queue) - 1 /\ Len(Enabled(command)) \in Nat
        /\ \A i \in 1 .. Len(queue') : queue'[i] = queue[i + 1]
    BY <2>1, <2>3, <2>4
  <2>6. Started' = Started + 1 /\ Started \in Nat
    BY <2>1, <2>4, <2>5 DEF Started
  <2>7. \A i \in 1 .. Len(queue') : queue'[i] = Enabled(command')[Started' + i]
    <3>1. TAKE i \in 1 .. Len(queue')
    <3>2. i + 1 \in 1 .. Len(queue) /\ Started + (i + 1) = Started' + i
      BY <2>5, <2>6
    <3> QED
      BY <2>1, <2>4, <2>5, <3>2
  <2>8. job'.loader = Enabled(command')[Started'] /\ Started' >= 1
    <3>1. 1 \in 1 .. Len(queue) /\ Head(queue) = queue[1]
      BY <2>1, <2>3, <2>5
    <3> QED
      BY <2>1, <2>4, <2>6, <3>1
  <2>9. failed' = {} => \A p \in 1 .. Started' : p < Started' \/ Idle' =>
                           LoadedAt(p, job.run - Started + p)'
    <3>1. \A p, number : LoadedAt(p, number) => LoadedAt(p, number)'
      BY <2>1 DEF LoadedAt
    <3>2. SUFFICES ASSUME failed' = {}, NEW p \in 1 .. Started', p < Started'
                   PROVE  LoadedAt(p, job.run - Started + p)'
      BY <2>2
    <3>3. p \in 1 .. Started
      BY <2>6, <3>2
    <3>4. LoadedAt(p, job.run - Started + p)
      BY <2>1, <2>4, <3>2, <3>3
    <3>5. PICK number : number = job.run - Started + p
      OBVIOUS
    <3>6. job'.run - Started' + p = number
      BY <2>1, <2>3, <2>6, <3>5
    <3>7. LoadedAt(p, number)'
      BY <3>1, <3>4, <3>5
    <3> QED
      BY <3>5, <3>6, <3>7
  <2> QED
    BY <2>1, <2>2, <2>4, <2>5, <2>7, <2>8, <2>9 DEF ExitInv
<1>5. CASE CommitAndTell
  <2>1. CommitJob
    BY <1>5 DEF CommitAndTell
  <2>2. /\ ~Idle /\ UNCHANGED commandVars /\ LeaveJob
        /\ db'["runs"] = (session.flushed["runs"] \ {OwnRun}) \cup {SucceededRun}
    BY <2>1, CommitJobFrame
  <2>3. Idle' /\ job'.run = job.run
    BY <1>1, <2>2, LeaveJobTypes
  <2>4. exit = "running"
    BY <1>1, <2>2 DEF ControlInv
  <2>5. /\ Enabled(command) \in Seq(Loaders) /\ Len(queue) <= Len(Enabled(command))
        /\ Started >= 1 /\ job.loader = Enabled(command)[Started]
        /\ failed = {} => \A p \in 1 .. Started : p < Started => LoadedAt(p, job.run - Started + p)
    BY <2>2, <2>4 DEF ExitInv
  <2>6. Started \in Nat /\ job.run \in Nat /\ Started' = Started
    BY <1>1, <2>2, <2>5 DEF Started, ControlInv, commandVars
  <2>7. \A p, number : LoadedAt(p, number) => LoadedAt(p, number)'
    <3>1. SUFFICES ASSUME NEW p, NEW number, LoadedAt(p, number)
                   PROVE  LoadedAt(p, number)'
      OBVIOUS
    <3>2. PICK r \in db["runs"] : /\ r.loader = Enabled(command)[p] /\ r.date = command.date
                                  /\ r.status = "SUCCEEDED" /\ r.key[1] = number
      BY <3>1 DEF LoadedAt
    <3>3. r \in session.flushed["runs"] /\ r # OwnRun
      BY <1>1, <3>2, NamesKnown DEF SessionInv, OwnRun, RunRow
    <3> QED
      BY <2>2, <3>2, <3>3 DEF LoadedAt, commandVars
  <2>8. LoadedAt(Started, job.run)'
    <3>1. PICK r : r = SucceededRun
      OBVIOUS
    <3>2. /\ r.loader = Enabled(command)[Started] /\ r.date = command.date
          /\ r.status = "SUCCEEDED" /\ r.key[1] = job.run
      BY <2>5, <3>1 DEF SucceededRun, RunRow
    <3>3. r \in db'["runs"] /\ command' = command
      BY <2>2, <3>1 DEF commandVars
    <3> QED
      BY <2>3, <2>6, <3>2, <3>3 DEF LoadedAt
  <2>9. failed' = {} => \A p \in 1 .. Started : LoadedAt(p, job.run - Started + p)'
    <3>1. SUFFICES ASSUME failed' = {}, NEW p \in 1 .. Started
                   PROVE  LoadedAt(p, job.run - Started + p)'
      OBVIOUS
    <3>2. failed = {}
      BY <2>2, <3>1 DEF commandVars
    <3>3. PICK number : number = job.run - Started + p
      OBVIOUS
    <3>4. job'.run - Started' + p = number
      BY <2>3, <2>6, <3>3
    <3>5. CASE p < Started
      <4>1. LoadedAt(p, number)'
        BY <2>5, <2>7, <3>2, <3>3, <3>5
      <4> QED
        BY <3>3, <3>4, <4>1
    <3>6. CASE p = Started
      <4>1. number = job.run
        BY <2>6, <3>3, <3>6
      <4>2. (job.run - Started + p)' = job.run'
        BY <2>3, <2>6, <3>3, <3>4, <4>1
      <4>3. PICK m : m = job'.run
        OBVIOUS
      <4>4. LoadedAt(p, m)'
        BY <2>6, <2>8, <3>6, <4>3 DEF LoadedAt
      <4> QED
        BY <2>3, <3>3, <3>4, <4>1, <4>3, <4>4
    <3> QED
      BY <2>6, <3>5, <3>6
  <2> QED
    BY <2>2, <2>3, <2>4, <2>5, <2>6, <2>9 DEF ExitInv, commandVars
<1>6. CASE Abort
  <2>1. /\ ~Idle /\ failed' = failed \cup {job.loader} /\ UNCHANGED <<command, queue, exit, db>>
        /\ LeaveJob
    BY <1>6 DEF Abort
  <2>2. failed' # {} /\ exit = "running"
    BY <1>1, <2>1 DEF ControlInv
  <2>3. Idle' /\ Started' = Started
    BY <1>1, <2>1, LeaveJobTypes DEF Started
  <2> QED
    BY <2>1, <2>2, <2>3 DEF ExitInv
<1>7. CASE Kill
  BY <1>7 DEF Kill, ExitInv
<1>8. CASE SkipFile
  <2>1. UNCHANGED <<commandVars, job>> /\ db["runs"] \subseteq db'["runs"]
    BY <1>8 DEF SkipFile
  <2> QED
    BY <2>1, ExitFrame
<1>9. CASE FlushBatch
  <2>1. UNCHANGED <<commandVars, job>> /\ (db' = db \/ db' = FlushedBatch.flushed)
    BY <1>1, <1>9, FlushBatchFrame
  <2>2. Grows(session, FlushedBatch, New("quotes", memo.waiting))
    BY FlushedBatchKeeps
  <2>3. db["runs"] \subseteq FlushedBatch.flushed["runs"]
    BY <1>1, <2>2, NamesKnown DEF SessionInv, Grows
  <2> QED
    BY <2>1, <2>3, ExitFrame
<1>10. CASE B3Next \/ SideNext
  <2>1. FetchStep \/ RecordStep
    BY <1>10 DEF B3Next, SideNext, FetchStep, RecordStep
  <2>2. UNCHANGED <<commandVars, db, job>>
    BY <1>1, <2>1, RecordStepFrame, FetchStepFrame
  <2> QED
    BY <2>2, ExitFrame
<1>11. CASE UNCHANGED allVars
  BY <1>11, ExitFrame DEF allVars, vars, commandVars
<1> QED
  BY <1>2, <1>3, <1>4, <1>5, <1>6, <1>7, <1>8, <1>9, <1>10, <1>11 DEF DailyNext

\* A command that exits with 0 has a SUCCEEDED run of its own for each enabled
\* loader, for any order of loaders and any failures before (_run_jobs).
THEOREM ExitZeroCorrect == Spec => []ExitZeroMeansLoaded
<1>1. DailyInit => TypeInv /\ ExitInv
  BY TypesAtStart, ExitAtStart DEF DailyInit
<1> QED
  BY <1>1, TypesStep, ExitStep, ExitImplied, PTL DEF Spec

(********************* Files and records of a running job ********************)

\* The last items of `whole`.
IsRest(rest, whole) ==
    /\ rest \in Seq(Range(whole)) /\ whole \in Seq(Range(whole)) /\ Len(rest) <= Len(whole)
    /\ \A i \in 1 .. Len(rest) : rest[i] = whole[Len(whole) - Len(rest) + i]

OfFeed(r) == \E f \in FeedFiles : r \in Range(Rows(f))

\* A running job has the end of its list of files to fetch, and records of a
\* file of the feed to persist.
JobInv ==
    /\ exit = "running" => command \in Commands
    /\ ~Idle => IsRest(items, Files(job.loader))
    /\ ~(job.loader = "b3" /\ file.kind = "028") => IsSequence(todo)
    /\ job.loader = "b3" /\ file.kind # "028" => \A r \in Range(todo) : OfFeed(r)
    /\ job.loader = "b3-lending" => \A r \in Range(todo) : r.ticker \in Allow

LEMMA TailFacts ==
    ASSUME NEW s, IsSequence(s), s # <<>>
    PROVE  IsSequence(Tail(s)) /\ Range(s) = {Head(s)} \cup Range(Tail(s))
<1>1. PICK S : S = Range(s)
  OBVIOUS
<1>2. s \in Seq(S) /\ Len(s) \in Nat \ {0}
  BY <1>1 DEF IsSequence
<1>3. /\ Tail(s) \in Seq(S) /\ Len(Tail(s)) = Len(s) - 1 /\ Head(s) = s[1]
      /\ \A i \in 1 .. Len(s) - 1 : Tail(s)[i] = s[i + 1]
  BY <1>2
<1> HIDE DEF IsSequence
<1>4. PICK u : u = Tail(s)
  OBVIOUS
<1>5. u \in Seq(S) /\ Len(u) = Len(s) - 1 /\ Len(u) \in Nat
  BY <1>2, <1>3, <1>4
<1>6. Tail(s) \in Seq(Range(Tail(s)))
  <2>1. \A i \in 1 .. Len(u) : u[i] \in Range(u)
    BY <1>5 DEF Range
  <2>2. u \in Seq(Range(u))
    BY <1>5, <2>1
  <2> QED
    BY <1>4, <2>2
<1>7. Range(Tail(s)) = {Tail(s)[i] : i \in 1 .. Len(s) - 1}
  <2>1. Range(u) = {u[i] : i \in 1 .. Len(u)}
    BY <1>5 DEF Range
  <2> QED
    BY <1>4, <1>5, <2>1
<1>8. Range(s) = {s[i] : i \in 1 .. Len(s)}
  BY <1>2 DEF Range
<1>9. \A x \in Range(s) : x = Head(s) \/ x \in Range(Tail(s))
  <2>1. TAKE x \in Range(s)
  <2>2. PICK i \in 1 .. Len(s) : x = s[i]
    BY <1>8
  <2>3. CASE i = 1
    BY <1>3, <2>2, <2>3
  <2>4. CASE i # 1
    <3>1. i - 1 \in 1 .. Len(s) - 1 /\ (i - 1) + 1 = i
      BY <1>2, <2>4
    <3>2. Tail(s)[i - 1] = x
      BY <1>3, <2>2, <3>1
    <3> QED
      BY <1>7, <3>1, <3>2
  <2> QED
    BY <2>3, <2>4
<1>10. \A x \in Range(Tail(s)) : x \in Range(s)
  <2>1. TAKE x \in Range(Tail(s))
  <2>2. PICK i \in 1 .. Len(s) - 1 : x = Tail(s)[i]
    BY <1>7
  <2>3. i + 1 \in 1 .. Len(s) /\ x = s[i + 1]
    BY <1>2, <1>3, <2>2
  <2> QED
    BY <1>8, <2>3
<1>11. Head(s) \in Range(s)
  BY <1>2, <1>3, <1>8
<1> QED
  BY <1>6, <1>9, <1>10, <1>11 DEF IsSequence

LEMMA FilesAreSequences ==
    ASSUME NEW l \in Loaders
    PROVE  Files(l) \in Seq(Range(Files(l)))
<1>1. \A s : IsSequence(s) <=> s \in Seq(Range(s))
  BY DEF IsSequence
<1>2. CASE l = "b3"
  BY <1>2 DEF Files, Range
<1>3. CASE l = "b3-lending"
  BY <1>3 DEF Files, Range
<1>4. CASE l = "cvm"
  <2>1. PICK M : M = Months
    OBVIOUS
  <2>2. M \in Seq(Range(M))
    BY <2>1, FilesAssumption DEF FilesAssumption
  <2>3. PICK w : w = <<"registry">> \o M
    OBVIOUS
  <2>4. PICK S : S = {"registry"} \cup Range(M)
    OBVIOUS
  <2>5. M \in Seq(S) /\ <<"registry">> \in Seq(S)
    BY <2>2, <2>4
  <2>6. w \in Seq(S)
    BY <2>3, <2>5
  <2>7. \A i \in 1 .. Len(w) : w[i] \in Range(w)
    BY <2>6 DEF Range
  <2>8. w \in Seq(Range(w))
    BY <2>6, <2>7
  <2> QED
    BY <1>4, <2>1, <2>3, <2>8 DEF Files
<1>5. CASE l = "fred"
  BY <1>5, FilesAssumption DEF Files, FilesAssumption
<1>6. CASE l = "yahoo"
  BY <1>6, FilesAssumption DEF Files, FilesAssumption
<1>7. CASE l \notin {"b3", "b3-lending", "cvm", "fred", "yahoo"}
  BY <1>7 DEF Files, Range
<1> QED
  BY <1>2, <1>3, <1>4, <1>5, <1>6, <1>7

LEMMA WholeIsRest ==
    ASSUME NEW s, s \in Seq(Range(s))
    PROVE  IsRest(s, s)
<1>1. Len(s) \in Nat
  OBVIOUS
<1>2. \A i \in 1 .. Len(s) : Len(s) - Len(s) + i = i
  BY <1>1
<1> QED
  BY <1>1, <1>2 DEF IsRest

LEMMA TailIsRest ==
    ASSUME NEW rest, NEW whole, IsRest(rest, whole), rest # <<>>
    PROVE  /\ IsRest(Tail(rest), whole) /\ Len(Tail(rest)) = Len(rest) - 1
           /\ Len(rest) \in 1 .. Len(whole)
           /\ Head(rest) = whole[Len(whole) - Len(rest) + 1]
           /\ Len(whole) - Len(rest) + 1 \in DOMAIN whole
           /\ Head(rest) \in Range(whole)
<1>1. /\ rest \in Seq(Range(whole)) /\ whole \in Seq(Range(whole)) /\ Len(rest) <= Len(whole)
      /\ \A i \in 1 .. Len(rest) : rest[i] = whole[Len(whole) - Len(rest) + i]
  BY DEF IsRest
<1>2. Len(rest) \in Nat \ {0} /\ Len(whole) \in Nat
  BY <1>1
<1>3. /\ Tail(rest) \in Seq(Range(whole)) /\ Len(Tail(rest)) = Len(rest) - 1
      /\ \A i \in 1 .. Len(rest) - 1 : Tail(rest)[i] = rest[i + 1]
      /\ Head(rest) = rest[1]
  BY <1>1, <1>2
<1>4. \A i \in 1 .. Len(Tail(rest)) : Tail(rest)[i] = whole[Len(whole) - Len(Tail(rest)) + i]
  <2>1. TAKE i \in 1 .. Len(Tail(rest))
  <2>2. i + 1 \in 1 .. Len(rest)
    BY <1>2, <1>3
  <2>3. Len(whole) - Len(rest) + (i + 1) = Len(whole) - Len(Tail(rest)) + i
    BY <1>2, <1>3
  <2> QED
    BY <1>1, <1>3, <2>2, <2>3
<1>5. IsRest(Tail(rest), whole)
  BY <1>1, <1>2, <1>3, <1>4 DEF IsRest
<1>6. Head(rest) = whole[Len(whole) - Len(rest) + 1] /\ Len(whole) - Len(rest) + 1 \in DOMAIN whole
  BY <1>1, <1>2, <1>3
<1>7. Len(rest) \in 1 .. Len(whole) /\ Head(rest) \in Range(whole)
  BY <1>1, <1>2, <1>3
<1> QED
  BY <1>3, <1>5, <1>6, <1>7

\* What a fetching action reads is an entry of the feed, of a kind of its loader.
LEMMA ServedFacts ==
    ASSUME TypeInv, JobInv, ~Idle, items # <<>>
    PROVE  /\ Kind \in Range(Files(job.loader)) /\ IsRest(Tail(items), Files(job.loader))
           /\ <<Kind, command.date>> \in DOMAIN Feed
           /\ Served \subseteq FeedFiles
<1>1. /\ job.loader \in Loaders /\ command \in Commands /\ IsRest(items, Files(job.loader))
  BY DEF TypeInv, ControlInv, JobInv, Idle
<1>2. /\ IsRest(Tail(items), Files(job.loader)) /\ Kind \in Range(Files(job.loader))
      /\ \E i \in DOMAIN Files(job.loader) : Kind = Files(job.loader)[i]
  BY <1>1, TailIsRest DEF Kind
<1>3. <<Kind, command.date>> \in DOMAIN Feed
  BY <1>1, <1>2, FilesAssumption DEF FilesAssumption
<1> QED
  BY <1>2, <1>3 DEF Served, FeedFiles

LEMMA JobAtStart == Init => JobInv
<1> SUFFICES ASSUME Init PROVE JobInv
  OBVIOUS
<1>1. exit = "none" /\ todo = <<>> /\ job.loader = "none" /\ Idle
  BY DEF Init, Idle
<1>2. Range(todo) = {} /\ IsSequence(todo)
  BY <1>1 DEF Range, IsSequence
<1> QED
  BY <1>1, <1>2 DEF JobInv

LEMMA EmptyTodo ==
    ASSUME todo' = <<>>, exit' = "running" => command' \in Commands,
           ~Idle' => IsRest(items', Files(job'.loader))
    PROVE  JobInv'
<1>1. Range(todo') = {} /\ IsSequence(todo')
  BY DEF Range, IsSequence
<1> QED
  BY <1>1 DEF JobInv

LEMMA JobFrame ==
    ASSUME JobInv, UNCHANGED <<commandVars, job, items, todo, file>>
    PROVE  JobInv'
  BY DEF JobInv, Idle, commandVars, OfFeed

\* What the parsers make of a served file.
LEMMA ParsedFacts ==
    ASSUME NEW f, NEW k, k \in DOMAIN Feed, f \in Feed[k], f.parse = "ok"
    PROVE  /\ k[1] = "186" => PricesAgree(f)
           /\ k[1] = "187" => SettlementsAgree(f)
           /\ k[1] = "trades" => TradesAgree(f)
           /\ k[1] = "cadastro" => BondsAgree(f)
           /\ k[1] \in {"registered", "open"} => LoansAgree(f, k[2])
           /\ IsSequence(Rows(f))
  BY ParsersAssumption DEF ParsersAssumption

LEMMA B3Kinds == Range(Files("b3")) = {"186", "187", "028", "trades", "cadastro"}
  BY DEF Files, Range

LEMMA LendingKinds == Range(Files("b3-lending")) = {"registered", "open"}
  BY DEF Files, Range

LEMMA B3Read ==
    ASSUME TypeInv, JobInv, NEW f, f \in Served, f.parse = "ok", job.loader = "b3",
           items # <<>>, Kind # "028"
    PROVE  IsSequence(B3Records(f)) /\ Range(B3Records(f)) \subseteq Range(Rows(f))
<1>1. ~Idle /\ Kind \in {"186", "187", "028", "trades", "cadastro"}
  BY B3Kinds, ServedFacts DEF Idle
<1>2. PICK k : k = <<Kind, command.date>>
  OBVIOUS
<1>3. k \in DOMAIN Feed /\ f \in Feed[k] /\ k[1] = Kind
  BY <1>1, <1>2, ServedFacts DEF Served
<1>4. CASE Kind = "186"
  <2>1. PricesAgree(f)
    BY <1>3, <1>4, ParsedFacts
  <2> QED
    BY <1>4, <2>1 DEF PricesAgree, B3Records
<1>5. CASE Kind = "187"
  <2>1. SettlementsAgree(f)
    BY <1>3, <1>5, ParsedFacts
  <2> QED
    BY <1>5, <2>1 DEF SettlementsAgree, B3Records
<1>6. CASE Kind = "trades"
  <2>1. TradesAgree(f)
    BY <1>3, <1>6, ParsedFacts
  <2> QED
    BY <1>6, <2>1 DEF TradesAgree, B3Records
<1>7. CASE Kind = "cadastro"
  <2>1. BondsAgree(f)
    BY <1>3, <1>7, ParsedFacts
  <2> QED
    BY <1>7, <2>1 DEF BondsAgree, B3Records
<1> QED
  BY <1>1, <1>4, <1>5, <1>6, <1>7

LEMMA LendingRead ==
    ASSUME TypeInv, JobInv, NEW f, f \in Served, f.parse = "ok", job.loader = "b3-lending",
           items # <<>>
    PROVE  /\ IsSequence(LendingTable(f, command.date))
           /\ \A r \in Range(LendingTable(f, command.date)) : r.ticker \in Allow
<1>1. ~Idle /\ Kind \in {"registered", "open"}
  BY LendingKinds, ServedFacts DEF Idle
<1>2. PICK k : k = <<Kind, command.date>>
  OBVIOUS
<1>3. k \in DOMAIN Feed /\ f \in Feed[k] /\ k[1] = Kind /\ k[2] = command.date
  BY <1>1, <1>2, ServedFacts DEF Served
<1>4. LoansAgree(f, command.date)
  BY <1>1, <1>3, ParsedFacts
<1>5. PICK P : P = LendingTable(f, command.date)
  OBVIOUS
<1>6. /\ IsSequence(P)
      /\ {TickerDate(r) : r \in Range(P)} =
           {<<r.ticker, IF r.date = 0 THEN command.date ELSE r.date>> :
               r \in {x \in Range(Rows(f)) : x.ticker \in Allow}}
  BY <1>4, <1>5 DEF LoansAgree
<1>7. ASSUME NEW r \in Range(P)
      PROVE  r.ticker \in Allow
  <2>1. TickerDate(r) \in {<<x.ticker, IF x.date = 0 THEN command.date ELSE x.date>> :
               x \in {x \in Range(Rows(f)) : x.ticker \in Allow}}
    BY <1>6
  <2>2. PICK x : x.ticker \in Allow /\ TickerDate(r) = <<x.ticker, IF x.date = 0 THEN command.date ELSE x.date>>
    BY <2>1
  <2> QED
    BY <2>2 DEF TickerDate
<1> QED
  BY <1>5, <1>6, <1>7

LEMMA RowsRead ==
    ASSUME TypeInv, JobInv, ~Idle, items # <<>>, NEW f, f \in Served, f.parse = "ok"
    PROVE  IsSequence(Rows(f))
<1>1. PICK k : k = <<Kind, command.date>>
  OBVIOUS
<1>2. k \in DOMAIN Feed /\ f \in Feed[k]
  BY <1>1, ServedFacts DEF Served
<1> QED
  BY <1>2, ParsedFacts

LEMMA FetchStepJob == TypeInv /\ JobInv /\ FetchStep => JobInv'
<1> SUFFICES ASSUME TypeInv, JobInv, FetchStep
             PROVE  JobInv'
  OBVIOUS
<1>1. /\ ~Idle /\ UNCHANGED <<commandVars, job>> /\ items # <<>> /\ items' = Tail(items)
  BY FetchStepFrame DEF TypeInv
<1>2. PICK f \in Served : Fetch(f) /\ file'.kind = Kind /\
        (todo' = <<>> \/
         (f.parse = "ok" /\ todo' = IF job.loader = "b3" THEN B3Records(f)
                                     ELSE IF job.loader = "b3-lending" THEN LendingTable(f, command.date)
                                     ELSE Rows(f)))
  BY DEF FetchStep, FetchB3, FetchSide, FetchBulk, Fetch, Parsed, SideRecords
<1>3. /\ exit' = "running" => command' \in Commands
      /\ ~Idle' => IsRest(items', Files(job'.loader))
  BY <1>1, ServedFacts DEF JobInv, Idle, commandVars
<1>4. CASE todo' = <<>>
  BY <1>3, <1>4, EmptyTodo
<1>5. CASE f.parse = "ok" /\ job.loader = "b3" /\ todo' = B3Records(f)
  <2>1. CASE Kind = "028"
    BY <1>1, <1>2, <1>3, <1>5, <2>1 DEF JobInv
  <2>2. CASE Kind # "028"
    <3>1. IsSequence(todo') /\ Range(todo') \subseteq Range(Rows(f)) /\ f \in FeedFiles
      BY <1>1, <1>2, <1>5, <2>2, B3Read, ServedFacts
    <3>2. \A r \in Range(todo') : OfFeed(r)
      BY <3>1 DEF OfFeed
    <3> QED
      BY <1>1, <1>3, <1>5, <3>1, <3>2 DEF JobInv, OfFeed
  <2> QED
    BY <2>1, <2>2
<1>6. CASE f.parse = "ok" /\ job.loader = "b3-lending" /\ todo' = LendingTable(f, command.date)
  <2>1. IsSequence(todo') /\ \A r \in Range(todo') : r.ticker \in Allow
    BY <1>1, <1>2, <1>6, LendingRead
  <2> QED
    BY <1>1, <1>3, <1>6, <2>1 DEF JobInv
<1>7. CASE f.parse = "ok" /\ job.loader \notin {"b3", "b3-lending"} /\ todo' = Rows(f)
  <2>1. IsSequence(todo')
    BY <1>1, <1>2, <1>7, RowsRead
  <2> QED
    BY <1>1, <1>3, <1>7, <2>1 DEF JobInv
<1> QED
  BY <1>2, <1>4, <1>5, <1>6, <1>7

LEMMA RecordStepTodo == RecordStep => todo # <<>>
  BY DEF RecordStep, PersistPrice, PersistSettlement, EnrichInstrument, PersistTrade, PersistCredit,
         PersistLending, PersistEvent, PersistCot, PersistHolding, PersistFred, PersistYahoo,
         PersistBcb, PersistIbge, PersistObservation, PersistTesouro, PersistNav, Persisting,
         B3Persisting

LEMMA RecordStepJob == TypeInv /\ JobInv /\ RecordStep => JobInv'
<1> SUFFICES ASSUME TypeInv, JobInv, RecordStep
             PROVE  JobInv'
  OBVIOUS
<1>1. /\ UNCHANGED <<commandVars, job, items, file>> /\ todo' = Tail(todo) /\ todo # <<>>
  BY RecordStepFrame, RecordStepTodo DEF TypeInv
<1>2. IsSequence(todo) => IsSequence(Tail(todo)) /\ Range(Tail(todo)) \subseteq Range(todo)
  BY <1>1, TailFacts
<1>3. (\A r : OfFeed(r) => OfFeed(r)')
  BY DEF OfFeed
<1> QED
  BY <1>1, <1>2, <1>3 DEF JobInv, Idle, commandVars

LEMMA JobStep == TypeInv /\ JobInv /\ [DailyNext]_allVars => JobInv'
<1> SUFFICES ASSUME TypeInv, JobInv, [DailyNext]_allVars
             PROVE  JobInv'
  OBVIOUS
<1>1. ControlInv
  BY DEF TypeInv
<1>2. CASE BeginCommand
  <2>1. Idle /\ job' = job /\ todo' = todo /\ todo = <<>> /\ command' = Head(plan) /\ plan # <<>>
    BY <1>1, <1>2 DEF BeginCommand, ControlInv
  <2>2. command' \in Commands
    BY <1>1, <2>1 DEF ControlInv
  <2> QED
    BY <2>1, <2>2, EmptyTodo DEF Idle
<1>3. CASE EndCommand
  <2>1. Idle /\ job' = job /\ todo' = todo /\ todo = <<>> /\ exit' # "running"
    BY <1>1, <1>3 DEF EndCommand, ControlInv
  <2> QED
    BY <2>1, EmptyTodo DEF Idle
<1>4. CASE BeginJob
  <2>1. /\ Idle /\ todo' = todo /\ todo = <<>> /\ exit' = exit /\ command' = command
        /\ exit = "running" /\ items' = Files(job'.loader) /\ job'.loader = Head(queue)
        /\ queue # <<>>
    BY <1>1, <1>4 DEF BeginJob, ControlInv
  <2>2. Head(queue) \in Loaders
    BY <1>1, <2>1 DEF ControlInv
  <2>3. IsRest(items', Files(job'.loader))
    BY <2>1, <2>2, FilesAreSequences, WholeIsRest
  <2> QED
    BY <2>1, <2>3, EmptyTodo DEF JobInv
<1>5. CASE LeaveJob /\ command' = command /\ exit' \in {exit, "killed"}
  <2>1. Idle' /\ todo' = <<>>
    BY <1>1, <1>5, LeaveJobTypes DEF LeaveJob
  <2> QED
    BY <1>5, <2>1, EmptyTodo DEF JobInv
<1>6. CASE CommitAndTell \/ Abort \/ Kill
  BY <1>5, <1>6 DEF CommitAndTell, CommitJob, Abort, Kill, commandVars
<1>7. CASE SkipFile
  <2>1. /\ ~Idle /\ items # <<>> /\ todo = <<>> /\ UNCHANGED <<commandVars, job, todo, file>>
        /\ items' = Tail(items)
    BY <1>7 DEF SkipFile, CanFetch
  <2> QED
    BY <2>1, ServedFacts, EmptyTodo DEF JobInv, commandVars, Idle
<1>8. CASE FlushBatch
  BY <1>1, <1>8, FlushBatchFrame, JobFrame
<1>9. CASE B3Next \/ SideNext
  <2>1. FetchStep \/ RecordStep
    BY <1>9 DEF B3Next, SideNext, FetchStep, RecordStep
  <2> QED
    BY <2>1, FetchStepJob, RecordStepJob
<1>10. CASE UNCHANGED allVars
  BY <1>10, JobFrame DEF allVars, vars, commandVars
<1> QED
  BY <1>2, <1>3, <1>4, <1>6, <1>7, <1>8, <1>9, <1>10 DEF DailyNext

(*********************** Lending and price instruments ***********************)

LendingTicker(t) == Identifier("TICKER", t, "b3", LendingInstrument(t))

\* A ticker's lending instrument has the ticker's TICKER identifier, and every
\* lending snapshot an instrument with its ticker.
SplitFree(ids, snapshots) ==
    /\ \A t \in Allow : <<"SOURCE_ID", LendingKey(t), "b3">> \in Keys(ids) => LendingTicker(t) \in ids
    /\ \A r \in snapshots : r.key[1] = "lending" =>
          \E i \in ids : i.key[2] \in Candidates(r.key[2]) /\ i.instrument = r.instrument

SplitInv ==
    /\ SplitFree(db["identifiers"], db["snapshots"])
    /\ SplitFree(All(session, "identifiers"), All(session, "snapshots"))
    /\ job.loader = "b3-lending" =>
          session.added["identifiers"] \subseteq {LendingTicker(t) : t \in Allow}

\* No lending instrument and no lending snapshot among the rows N.
NotLending(N) ==
    /\ \A i : <<"identifiers", i>> \in N =>
          \A t \in Allow : i.key # <<"SOURCE_ID", LendingKey(t), "b3">>
    /\ \A r : <<"snapshots", r>> \in N => r.key[1] # "lending"

LEMMA SplitGrows ==
    ASSUME NEW s, NEW s2, NEW N, Grows(s, s2, N), NotLending(N),
           SplitFree(All(s, "identifiers"), All(s, "snapshots"))
    PROVE  SplitFree(All(s2, "identifiers"), All(s2, "snapshots"))
<1>1. /\ \A i \in All(s2, "identifiers") : i \in All(s, "identifiers") \/ <<"identifiers", i>> \in N
      /\ \A r \in All(s2, "snapshots") : r \in All(s, "snapshots") \/ <<"snapshots", r>> \in N
      /\ All(s, "identifiers") \subseteq All(s2, "identifiers")
  BY NamesKnown DEF Grows
<1>2. ASSUME NEW t \in Allow, <<"SOURCE_ID", LendingKey(t), "b3">> \in Keys(All(s2, "identifiers"))
      PROVE  LendingTicker(t) \in All(s2, "identifiers")
  <2>1. PICK i \in All(s2, "identifiers") : i.key = <<"SOURCE_ID", LendingKey(t), "b3">>
    BY <1>2 DEF Keys
  <2>2. i \in All(s, "identifiers")
    BY <1>1, <2>1 DEF NotLending
  <2> QED
    BY <1>1, <2>1, <2>2 DEF SplitFree, Keys
<1>3. ASSUME NEW r \in All(s2, "snapshots"), r.key[1] = "lending"
      PROVE  \E i \in All(s2, "identifiers") :
                i.key[2] \in Candidates(r.key[2]) /\ i.instrument = r.instrument
  BY <1>1, <1>3 DEF NotLending, SplitFree
<1> QED
  BY <1>2, <1>3 DEF SplitFree

LEMMA NotLendingRows ==
    /\ \A R : NotLending(New("series", R)) /\ NotLending(New("quotes", R)) /\ NotLending(New("events", R))
              /\ NotLending(New("absences", R)) /\ NotLending(New("artifacts", R))
              /\ NotLending(New("runs", R))
    /\ \A N, M : NotLending(N) /\ NotLending(M) => NotLending(N \cup M)
    /\ NotLending({})
  BY DEF NotLending, New

LEMMA NotLendingIdentifiers ==
    ASSUME NEW R, \A i \in R : \A t \in Allow : i.key # <<"SOURCE_ID", LendingKey(t), "b3">>
    PROVE  NotLending(New("identifiers", R))
  BY DEF NotLending, New

LEMMA IdentifierKey ==
    ASSUME NEW type, NEW value, NEW source, NEW instrument
    PROVE  /\ Identifier(type, value, source, instrument).key = <<type, value, source>>
           /\ Identifier(type, value, source, instrument).instrument = instrument
  BY DEF Identifier

\* A record of a B3 file is not named like a lending instrument.
LEMMA RecordApart ==
    ASSUME JobInv, job.loader = "b3", file.kind # "028", todo # <<>>
    PROVE  \A t \in Allow : Record.ticker # LendingKey(t)
<1>1. OfFeed(Record)
  BY TailFacts DEF JobInv, Record
<1> QED
  BY <1>1, LendingKeysAssumption DEF LendingKeysAssumption, OfFeed

LEMMA RowsApart ==
    ASSUME NEW r, \A t \in Allow : r.ticker # LendingKey(t)
    PROVE  NotLending(New("identifiers", ListedRows(r))) /\ NotLending(New("identifiers", CreditRows(r)))
  BY NotLendingIdentifiers, IdentifierKey DEF ListedRows, CreditRows

LEMMA SideRowsApart ==
    ASSUME NEW r, NEW symbol
    PROVE  /\ NotLending(New("identifiers", FredRows(symbol)))
           /\ NotLending(New("identifiers", YahooRows(symbol)))
           /\ NotLending(New("identifiers", TesouroRows(r)))
           /\ NotLending(New("identifiers", FundRows(r)))
           /\ NotLending(New("identifiers", {Identifier("ISIN", r.isin, "b3", B3(r.ticker))}))
<1>1. NotLending(New("identifiers", FredRows(symbol)))
  BY NotLendingIdentifiers, IdentifierKey DEF FredRows
<1>2. NotLending(New("identifiers", YahooRows(symbol)))
  BY NotLendingIdentifiers, IdentifierKey DEF YahooRows
<1>3. NotLending(New("identifiers", TesouroRows(r)))
  BY NotLendingIdentifiers, IdentifierKey DEF TesouroRows
<1>4. NotLending(New("identifiers", FundRows(r)))
  <2>1. \A i \in FundIdentifiers(r) : i.key[1] # "SOURCE_ID"
    <3>1. PICK fund : fund = FundInstrument(r)
      OBVIOUS
    <3>2. PICK a, b, c : /\ a = Identifier("CNPJ_FUNDO_CLASSE", r.ticker, "cvm", fund)
                         /\ b = Identifier("CNPJ", r.ticker, "cvm", fund)
                         /\ c = Identifier("CVM_SUBCLASS_ID", r.sub, "cvm", fund)
      OBVIOUS
    <3>3. a.key[1] # "SOURCE_ID" /\ b.key[1] # "SOURCE_ID" /\ c.key[1] # "SOURCE_ID"
      BY <3>2, IdentifierKey
    <3>4. \A i \in FundIdentifiers(r) : i = a \/ i = b \/ i = c
      BY <3>1, <3>2 DEF FundIdentifiers
    <3> QED
      BY <3>3, <3>4
  <2>2. \A i \in FundRows(r) : i.key[1] # "SOURCE_ID" \/ i.key[3] = "cvm"
    BY <2>1, IdentifierKey DEF FundRows
  <2>3. \A i \in FundRows(r) : \A t \in Allow : i.key # <<"SOURCE_ID", LendingKey(t), "b3">>
    BY <2>2
  <2> QED
    BY <2>3, NotLendingIdentifiers
<1>5. NotLending(New("identifiers", {Identifier("ISIN", r.isin, "b3", B3(r.ticker))}))
  BY NotLendingIdentifiers, IdentifierKey
<1> QED
  BY <1>1, <1>2, <1>3, <1>4, <1>5

LEMMA OtherStepApart ==
    ASSUME TypeInv, JobInv, RecordStep, ~PersistLending
    PROVE  \E N : Grows(session, session', N) /\ NotLending(N)
<1>1. Sound(session) /\ todo # <<>>
  BY RecordStepTodo DEF TypeInv, SessionInv
<1>2. ASSUME NEW t, NEW R, NEW i, NEW d, NEW k, NEW value, Wrote(t, R, i, d, k, value),
             NotLending(New(t, R))
      PROVE  \E N : Grows(session, session', N) /\ NotLending(N)
  <2>1. PICK n \in Nat \ {0} :
           Grows(session, session',
                 New(t, R) \cup New("quotes", {Quote(<<i, d, k>>, n, value, file.sha)}))
    BY <1>2, WroteKeeps
  <2>2. NotLending(New(t, R) \cup New("quotes", {Quote(<<i, d, k>>, n, value, file.sha)}))
    BY <1>2, NotLendingRows
  <2> QED
    BY <2>1, <2>2
<1>3. ASSUME B3Persisting("186") \/ B3Persisting("187") \/ B3Persisting("trades") \/ B3Persisting("cadastro")
      PROVE  /\ NotLending(New("identifiers", ListedRows(Record)))
             /\ NotLending(New("identifiers", CreditRows(Record)))
  BY <1>1, <1>3, RecordApart, RowsApart DEF B3Persisting, Persisting
<1>4. CASE PersistPrice
  BY <1>1, <1>3, <1>4, PersistPriceWrites DEF PersistPrice
<1>5. CASE PersistSettlement
  BY <1>1, <1>2, <1>3, <1>5, PersistSettlementWrites DEF PersistSettlement
<1>6. CASE EnrichInstrument
  BY <1>1, <1>6, EnrichInstrumentWrites, SideRowsApart
<1>7. CASE PersistTrade
  BY <1>1, <1>2, <1>3, <1>7, PersistTradeWrites DEF PersistTrade
<1>8. CASE PersistCredit
  <2>1. NotLending(New("identifiers", CreditRows(Record)))
    BY <1>3, <1>8 DEF PersistCredit
  <2>2. NotLending(New("identifiers", CreditRows(Record)) \cup New("absences", {AbsenceRow}))
    BY <2>1, NotLendingRows
  <2> QED
    BY <1>1, <1>8, <2>1, <2>2, PersistCreditWrites
<1>9. CASE PersistEvent
  BY <1>1, <1>9, PersistEventWrites, NotLendingRows
<1>10. ASSUME NEW key, key[1] # "lending", NEW i, NEW value
      PROVE  NotLending(New("snapshots", {SnapshotRow(key, i, value)}))
  BY <1>10 DEF NotLending, New, SnapshotRow
<1>11. CASE PersistCot
  <2>1. PICK i : Grows(session, session', New("snapshots",
                    {SnapshotRow(<<"cftc", First.ticker, First.date>>, i, First.value)}))
    BY <1>1, <1>11, PersistCotWrites
  <2> QED
    BY <1>10, <2>1
<1>12. CASE PersistHolding
  <2>1. PICK i : Grows(session, session', New("snapshots",
                    {SnapshotRow(<<"13f", First.filer, First.date, First.ticker>>, i, First.value)}))
    BY <1>1, <1>12, PersistHoldingWrites
  <2> QED
    BY <1>10, <2>1
<1>13. CASE PersistFred
  BY <1>1, <1>2, <1>13, PersistFredWrites, SideRowsApart
<1>14. CASE PersistYahoo
  BY <1>1, <1>2, <1>14, PersistYahooWrites, SideRowsApart
<1>15. CASE PersistBcb \/ PersistIbge
  BY <1>1, <1>2, <1>15, PersistObservationWrites, NotLendingRows DEF PersistBcb, PersistIbge
<1>16. CASE PersistTesouro
  BY <1>1, <1>16, PersistTesouroWrites, SideRowsApart
<1>17. CASE PersistNav
  BY <1>1, <1>17, PersistNavWrites, SideRowsApart
<1> QED
  BY <1>4, <1>5, <1>6, <1>7, <1>8, <1>9, <1>11, <1>12, <1>13, <1>14, <1>15, <1>16, <1>17
     DEF RecordStep

\* GetOrCreate leaves no identifier unflushed that was flushed before.
LEMMA GetOrCreateAdded ==
    ASSUME NEW s, Sound(s), NEW source, NEW sourceKey
    PROVE  GetOrCreate(s, source, sourceKey).added["identifiers"] \subseteq s.added["identifiers"]
<1>1. CASE OwnersOf(s, "SOURCE_ID", sourceKey, source) # {}
  BY <1>1 DEF GetOrCreate
<1>2. CASE OwnersOf(s, "SOURCE_ID", sourceKey, source) = {}
  <2>1. PICK row : row = Identifier("SOURCE_ID", sourceKey, source, Instrument(source, sourceKey))
    OBVIOUS
  <2>2. GetOrCreate(s, source, sourceKey) = Flush(Add(Flush(s), "identifiers", {row}))
    BY <1>2, <2>1 DEF GetOrCreate
  <2>3. IsSession(Flush(s))
    BY FlushShape DEF Sound
  <2>4. IsSession(Add(Flush(s), "identifiers", {row}))
    BY <2>3, NamesKnown, AddShape
  <2> QED
    BY <2>2, <2>4, NamesKnown, FlushShape
<1> QED
  BY <1>1, <1>2

LEMMA AttachAdded ==
    ASSUME NEW s, Sound(s), NEW type, NEW value, NEW source, NEW instrument
    PROVE  /\ Attach(s, type, value, source, instrument).added["identifiers"] \subseteq
                s.added["identifiers"] \cup {Identifier(type, value, source, instrument)}
           /\ \/ Identifier(type, value, source, instrument) \in
                    Attach(s, type, value, source, instrument).added["identifiers"]
              \/ \E r \in s.flushed["identifiers"] : r.key = <<type, value, source>>
<1>1. CASE OwnersOf(s, type, value, source) # {}
  BY <1>1 DEF Attach, OwnersOf, Find
<1>2. CASE OwnersOf(s, type, value, source) = {}
  <2>1. PICK row : row = Identifier(type, value, source, instrument)
    OBVIOUS
  <2>2. Attach(s, type, value, source, instrument) = Add(s, "identifiers", {row})
    BY <1>2, <2>1 DEF Attach
  <2>3. Add(s, "identifiers", {row}).added["identifiers"] = s.added["identifiers"] \cup {row}
    BY NamesKnown, AddShape DEF Sound
  <2> QED
    BY <2>1, <2>2, <2>3
<1> QED
  BY <1>1, <1>2

LEMMA OwnCandidate == \A t \in Allow : t \in Candidates(t)
  BY AllowAssumption DEF AllowAssumption, Candidates

LEMMA LendingSessionApart ==
    ASSUME TypeInv, SplitInv, job.loader = "b3-lending", NEW t \in Allow, Resolve(session, t) = {}
    PROVE  /\ LendingTicker(t) \in All(LendingSession(t), "identifiers")
           /\ LendingSession(t).added["identifiers"] \subseteq {LendingTicker(u) : u \in Allow}
           /\ SplitFree(All(LendingSession(t), "identifiers"), All(LendingSession(t), "snapshots"))
<1>1. Sound(session) /\ session.added["identifiers"] \subseteq {LendingTicker(u) : u \in Allow}
  BY DEF TypeInv, SessionInv, SplitInv
<1>2. PICK g : g = GetOrCreate(session, "b3", LendingKey(t))
  OBVIOUS
<1>3. PICK row : row = Identifier("SOURCE_ID", LendingKey(t), "b3", LendingInstrument(t))
  OBVIOUS
<1>4. row.key = <<"SOURCE_ID", LendingKey(t), "b3">>
  BY <1>3, IdentifierKey
<1>5. /\ Sound(g) /\ Grows(session, g, New("identifiers", {row}))
      /\ g.added["identifiers"] \subseteq session.added["identifiers"]
  BY <1>1, <1>2, <1>3, GetOrCreateKeeps, GetOrCreateAdded DEF LendingInstrument
<1>6. PICK z : z = Attach(g, "TICKER", t, "b3", LendingInstrument(t))
  OBVIOUS
<1>7. z = LendingSession(t)
  BY <1>2, <1>6 DEF LendingSession
<1>8. /\ z.added["identifiers"] \subseteq g.added["identifiers"] \cup {LendingTicker(t)}
      /\ \/ LendingTicker(t) \in z.added["identifiers"]
         \/ \E r \in g.flushed["identifiers"] : r.key = <<"TICKER", t, "b3">>
      /\ Grows(g, z, New("identifiers", {LendingTicker(t)}))
  <2>1. PICK j : j = LendingInstrument(t)
    OBVIOUS
  <2>2. LendingTicker(t) = Identifier("TICKER", t, "b3", j) /\ z = Attach(g, "TICKER", t, "b3", j)
    BY <1>6, <2>1 DEF LendingTicker
  <2>3. /\ z.added["identifiers"] \subseteq g.added["identifiers"] \cup {Identifier("TICKER", t, "b3", j)}
        /\ \/ Identifier("TICKER", t, "b3", j) \in z.added["identifiers"]
           \/ \E r \in g.flushed["identifiers"] : r.key = <<"TICKER", t, "b3">>
    BY <1>5, <2>2, AttachAdded
  <2>4. Grows(g, z, New("identifiers", {Identifier("TICKER", t, "b3", j)}))
    BY <1>5, <2>2, AttachKeeps
  <2> QED
    BY <2>2, <2>3, <2>4
<1>9. \A i \in All(g, "identifiers") : i \in All(session, "identifiers") \/ i = row
  BY <1>5, NamesKnown DEF Grows, New
<1>10. \A i \in All(z, "identifiers") : i \in All(g, "identifiers") \/ i = LendingTicker(t)
  BY <1>8, NamesKnown DEF Grows, New
<1>11. /\ \A u \in Allow : LendingTicker(u).key = <<"TICKER", u, "b3">>
  BY IdentifierKey DEF LendingTicker
<1>12. LendingTicker(t) \in All(z, "identifiers")
  <2>1. CASE LendingTicker(t) \in z.added["identifiers"]
    BY <2>1 DEF All
  <2>2. ASSUME NEW r \in g.flushed["identifiers"], r.key = <<"TICKER", t, "b3">>
        PROVE  LendingTicker(t) \in All(z, "identifiers")
    <3>1. r \in All(session, "identifiers") \/ r = row
      BY <1>9, <2>2 DEF All
    <3>2. r # row
      BY <1>4, <2>2
    <3>3. r \notin session.flushed["identifiers"]
      BY <2>2, OwnCandidate DEF Resolve
    <3>4. PICK u \in Allow : r = LendingTicker(u)
      BY <1>1, <3>1, <3>2, <3>3 DEF All
    <3>5. r = LendingTicker(t)
      BY <1>11, <2>2, <3>4
    <3> QED
      BY <1>8, <3>5, NamesKnown DEF Grows, All
  <2> QED
    BY <1>8, <2>1, <2>2
<1>13. z.added["identifiers"] \subseteq {LendingTicker(u) : u \in Allow}
  BY <1>1, <1>5, <1>8
<1>14. SplitFree(All(z, "identifiers"), All(z, "snapshots"))
  <2>1. SplitFree(All(session, "identifiers"), All(session, "snapshots"))
    BY DEF SplitInv
  <2>2. /\ All(session, "identifiers") \subseteq All(z, "identifiers")
        /\ \A r \in All(z, "snapshots") : r \in All(session, "snapshots")
    BY <1>5, <1>8, NamesKnown DEF Grows, New
  <2>3. \A i \in All(z, "identifiers") :
           i \in All(session, "identifiers") \/ i = row \/ i = LendingTicker(t)
    BY <1>9, <1>10
  <2>4. ASSUME NEW u \in Allow, <<"SOURCE_ID", LendingKey(u), "b3">> \in Keys(All(z, "identifiers"))
        PROVE  LendingTicker(u) \in All(z, "identifiers")
    <3>1. PICK i \in All(z, "identifiers") : i.key = <<"SOURCE_ID", LendingKey(u), "b3">>
      BY <2>4 DEF Keys
    <3>2. CASE i \in All(session, "identifiers")
      BY <2>1, <2>2, <3>1, <3>2 DEF SplitFree, Keys
    <3>3. CASE i = row
      <4>1. LendingKey(u) = LendingKey(t)
        BY <1>4, <3>1, <3>3
      <4>2. u = t
        BY <4>1, LendingKeysAssumption DEF LendingKeysAssumption
      <4> QED
        BY <1>12, <4>2
    <3>4. i # LendingTicker(t)
      BY <1>11, <3>1
    <3> QED
      BY <2>3, <3>2, <3>3, <3>4
  <2> QED
    BY <2>1, <2>2, <2>4 DEF SplitFree
<1> QED
  BY <1>7, <1>12, <1>13, <1>14

LEMMA PersistLendingSplit ==
    ASSUME TypeInv, JobInv, SplitInv, PersistLending
    PROVE  /\ SplitFree(All(session', "identifiers"), All(session', "snapshots"))
           /\ session'.added["identifiers"] \subseteq {LendingTicker(u) : u \in Allow}
<1>1. /\ Sound(session) /\ job.loader = "b3-lending" /\ todo # <<>>
      /\ session.added["identifiers"] \subseteq {LendingTicker(u) : u \in Allow}
      /\ SplitFree(All(session, "identifiers"), All(session, "snapshots"))
  BY DEF TypeInv, SessionInv, SplitInv, PersistLending, Persisting
<1>2. PICK t : t = First.ticker
  OBVIOUS
<1>3. t \in Allow
  BY <1>1, <1>2, TailFacts DEF JobInv, First
<1>4. PICK key : key = SnapshotKey(First)
  OBVIOUS
<1>5. key[1] = "lending" /\ key[2] = t
  BY <1>2, <1>4 DEF SnapshotKey
<1>6. PICK s, i, j :
        /\ \/ s = session /\ i \in Resolve(session, t)
           \/ /\ Resolve(session, t) = {}
              /\ s = LendingSession(t) /\ i = LendingInstrument(t)
        /\ SnapshotOwner(s, key, i, j)
        /\ Grows(s, session', New("snapshots", {SnapshotRow(key, j, First.value)}))
  BY <1>1, <1>2, <1>4, PersistLendingWrites
<1>7. PICK row : row = SnapshotRow(key, j, First.value)
  OBVIOUS
<1>8. row.key = key /\ row.instrument = j
  BY <1>7 DEF SnapshotRow
<1>9. /\ SplitFree(All(s, "identifiers"), All(s, "snapshots"))
      /\ s.added["identifiers"] \subseteq {LendingTicker(u) : u \in Allow}
      /\ \E r \in All(s, "identifiers") : r.key[2] \in Candidates(t) /\ r.instrument = i
  <2>1. CASE s = session /\ i \in Resolve(session, t)
    BY <1>1, <2>1 DEF Resolve, All
  <2>2. CASE Resolve(session, t) = {} /\ s = LendingSession(t) /\ i = LendingInstrument(t)
    <3>1. /\ LendingTicker(t) \in All(s, "identifiers")
          /\ s.added["identifiers"] \subseteq {LendingTicker(u) : u \in Allow}
          /\ SplitFree(All(s, "identifiers"), All(s, "snapshots"))
      BY <1>1, <1>3, <2>2, LendingSessionApart
    <3>2. LendingTicker(t).key = <<"TICKER", t, "b3">> /\ LendingTicker(t).instrument = i
      BY <2>2, IdentifierKey DEF LendingTicker
    <3>3. PICK k : k = LendingTicker(t)
      OBVIOUS
    <3>4. k.key[2] \in Candidates(t) /\ k.instrument = i /\ k \in All(s, "identifiers")
      BY <1>3, <3>1, <3>2, <3>3, OwnCandidate
    <3> QED
      BY <3>1, <3>4
  <2> QED
    BY <1>6, <2>1, <2>2
<1>10. /\ \A r \in All(session', "identifiers") : r \in All(s, "identifiers")
       /\ \A r \in session'.added["identifiers"] : r \in s.added["identifiers"]
       /\ \A r \in All(session', "snapshots") : r \in All(s, "snapshots") \/ r = row
       /\ All(s, "identifiers") \subseteq All(session', "identifiers")
  BY <1>6, <1>7, NamesKnown DEF Grows, New
<1>11. \E r \in All(s, "identifiers") : r.key[2] \in Candidates(t) /\ r.instrument = j
  <2>1. CASE j = i
    BY <1>9, <2>1
  <2>2. ASSUME NEW r \in s.flushed["snapshots"], r.key = key, r.instrument = j
        PROVE  \E k \in All(s, "identifiers") : k.key[2] \in Candidates(t) /\ k.instrument = j
    BY <1>5, <1>9, <2>2 DEF SplitFree, All
  <2> QED
    BY <1>6, <2>1, <2>2 DEF SnapshotOwner
<1>12. SplitFree(All(session', "identifiers"), All(session', "snapshots"))
  <2>1. All(session', "identifiers") = All(s, "identifiers")
    BY <1>10
  <2>2. \A r \in All(session', "snapshots") : r.key[1] = "lending" =>
          \E k \in All(s, "identifiers") :
             k.key[2] \in Candidates(r.key[2]) /\ k.instrument = r.instrument
    BY <1>5, <1>8, <1>9, <1>10, <1>11 DEF SplitFree
  <2> QED
    BY <1>9, <2>1, <2>2 DEF SplitFree
<1> QED
  BY <1>9, <1>10, <1>12

\* A new session begins with what is committed.
LEMMA SplitBegins ==
    ASSUME DOMAIN db' = Names, session' = Begin(db'), SplitFree(db'["identifiers"], db'["snapshots"])
    PROVE  SplitInv'
<1>1. PICK tables : tables = db'
  OBVIOUS
<1>2. \A t \in Names : Begin(tables).added[t] = {} /\ All(Begin(tables), t) = tables[t]
  BY <1>1, BeginShape
<1> QED
  BY <1>1, <1>2, NamesKnown DEF SplitInv

LEMMA SplitAtStart == Init => SplitInv
<1> SUFFICES ASSUME Init PROVE SplitInv
  OBVIOUS
<1>1. /\ db = NoRows /\ DOMAIN db = Names /\ session = Begin(db)
      /\ db["identifiers"] = {} /\ db["snapshots"] = {}
  BY NamesKnown DEF Init, NoRows
<1>2. SplitFree(db["identifiers"], db["snapshots"])
  BY <1>1 DEF SplitFree, Keys
<1>3. \A t \in Names : session.added[t] = {} /\ All(session, t) = db[t]
  BY <1>1, BeginShape
<1> QED
  BY <1>2, <1>3, NamesKnown DEF SplitInv

LEMMA SplitStep == TypeInv /\ JobInv /\ SplitInv /\ [DailyNext]_allVars => SplitInv'
<1> SUFFICES ASSUME TypeInv, JobInv, SplitInv, [DailyNext]_allVars
             PROVE  SplitInv'
  OBVIOUS
<1>1. ControlInv /\ SessionInv /\ CommittedInv
  BY DEF TypeInv
<1>2. /\ SplitFree(db["identifiers"], db["snapshots"])
      /\ SplitFree(All(session, "identifiers"), All(session, "snapshots"))
  BY DEF SplitInv
<1>3. DOMAIN db = Names /\ Sound(session)
  BY <1>1 DEF CommittedInv, SessionInv
<1>4. CASE UNCHANGED <<db, session, job>>
  BY <1>4 DEF SplitInv
<1>5. CASE BeginCommand \/ EndCommand \/ SkipFile \/ UNCHANGED allVars
  BY <1>4, <1>5 DEF BeginCommand, EndCommand, SkipFile, allVars, vars
<1>6. CASE Abort \/ Kill
  <2>1. db' = db /\ session' = Begin(db')
    BY <1>6 DEF Abort, Kill
  <2> QED
    BY <1>2, <1>3, <2>1, SplitBegins
<1>7. CASE CommitAndTell
  <2>1. /\ DOMAIN db' = Names /\ session' = Begin(db')
        /\ \A t \in Names \ {"runs"} : db'[t] = All(session, t)
    BY <1>7, CommitJobFrame DEF CommitAndTell
  <2>2. SplitFree(db'["identifiers"], db'["snapshots"])
    BY <1>2, <2>1, NamesKnown
  <2> QED
    BY <2>1, <2>2, SplitBegins
<1>8. CASE BeginJob
  <2>1. db' = db
    BY <1>8 DEF BeginJob
  <2>2. PICK l, d, full : session' = StartRun(Begin(db), job.run + 1, l, d, full)
    BY <1>8 DEF BeginJob
  <2>3. PICK b : b = Begin(db)
    OBVIOUS
  <2>4. Sound(b) /\ \A t \in Names : b.added[t] = {} /\ All(b, t) = db[t]
    BY <1>1, <1>3, <2>3, BeginSound, BeginShape DEF CommittedInv
  <2>5. PICK n : n = job.run + 1
    OBVIOUS
  <2>6. PICK row : row = RunRow(n, l, d, full, "STARTED")
    OBVIOUS
  <2>7. Grows(b, session', New("runs", {row}))
    BY <2>2, <2>3, <2>4, <2>5, <2>6, StartRunKeeps
  <2>8. SplitFree(All(b, "identifiers"), All(b, "snapshots"))
    BY <1>2, <2>4, NamesKnown
  <2>9. SplitFree(All(session', "identifiers"), All(session', "snapshots"))
    BY <2>7, <2>8, NotLendingRows, SplitGrows
  <2>10. session'.added["identifiers"] = {}
    BY <2>4, <2>7, NamesKnown DEF Grows, New
  <2> QED
    BY <1>2, <2>1, <2>9, <2>10 DEF SplitInv
<1>9. CASE FlushBatch
  <2>1. /\ UNCHANGED job /\ session' = FlushedBatch
        /\ db' = db \/ db' = FlushedBatch.flushed
    BY <1>1, <1>9, FlushBatchFrame
  <2>2. PICK z : z = FlushedBatch
    OBVIOUS
  <2>3. /\ Grows(session, z, New("quotes", memo.waiting))
        /\ \A t \in Names : z.added[t] = {} /\ z.flushed[t] = All(z, t)
    BY <2>2, FlushedBatchKeeps
  <2>4. SplitFree(All(z, "identifiers"), All(z, "snapshots"))
    BY <1>2, <2>3, NotLendingRows, SplitGrows
  <2> QED
    BY <1>2, <2>1, <2>2, <2>3, <2>4, NamesKnown DEF SplitInv
<1>10. CASE FetchStep
  <2>1. UNCHANGED <<db, job>> /\ \E f \in Served : session' = StoreArtifact(session, job.run, Kind, f.sha)
    BY <1>1, <1>10, FetchStepFrame
  <2>2. PICK row : /\ Grows(session, session', New("artifacts", {row}))
                   /\ \A t \in Names : session'.added[t] = {}
    BY <1>3, <2>1, StoreArtifactStep
  <2>3. SplitFree(All(session', "identifiers"), All(session', "snapshots"))
    BY <1>2, <2>2, NotLendingRows, SplitGrows
  <2> QED
    BY <1>2, <2>1, <2>2, <2>3, NamesKnown DEF SplitInv
<1>11. CASE RecordStep
  <2>1. UNCHANGED <<db, job>>
    BY <1>1, <1>11, RecordStepFrame
  <2>2. CASE PersistLending
    BY <1>2, <2>1, <2>2, PersistLendingSplit DEF SplitInv
  <2>3. CASE ~PersistLending
    <3>1. PICK N : Grows(session, session', N) /\ NotLending(N)
      BY <1>11, <2>3, OtherStepApart
    <3>2. SplitFree(All(session', "identifiers"), All(session', "snapshots"))
      BY <1>2, <3>1, SplitGrows
    <3>3. job.loader # "b3-lending"
      BY <1>11, <2>3 DEF RecordStep, PersistPrice, PersistSettlement, EnrichInstrument, PersistTrade,
           PersistCredit, PersistEvent, PersistCot, PersistHolding, PersistFred, PersistYahoo,
           PersistBcb, PersistIbge, PersistObservation, PersistTesouro, PersistNav, Persisting,
           B3Persisting
    <3> QED
      BY <1>2, <2>1, <3>2, <3>3 DEF SplitInv
  <2> QED
    BY <2>2, <2>3
<1>12. CASE B3Next \/ SideNext
  BY <1>10, <1>11, <1>12 DEF B3Next, SideNext, FetchStep, RecordStep
<1> QED
  BY <1>5, <1>6, <1>7, <1>8, <1>9, <1>12 DEF DailyNext

LEMMA SplitImplied == TypeInv /\ SplitInv => TickerSplitOnlyByEarlyLending
<1> SUFFICES ASSUME TypeInv, SplitInv
             PROVE  TickerSplitOnlyByEarlyLending
  OBVIOUS
<1>1. /\ SplitFree(db["identifiers"], db["snapshots"]) /\ DOMAIN db = Names
      /\ \A r1, r2 \in db["identifiers"] : r1.key = r2.key => r1 = r2
  BY NamesKnown DEF SplitInv, TypeInv, CommittedInv, KeysUnique
<1>2. PICK s : s = Begin(db)
  OBVIOUS
<1>3. s.flushed = db
  BY <1>1, <1>2, BeginShape
<1>4. \A type, value, i : i \in OwnersOf(s, type, value, "b3") <=>
         \E x \in db["identifiers"] : x.key = <<type, value, "b3">> /\ x.instrument = i
  BY <1>3 DEF OwnersOf, Find
<1>5. ASSUME NEW t \in Allow, OwnersOf(s, "SOURCE_ID", LendingKey(t), "b3") # {}
      PROVE  OwnersOf(s, "TICKER", t, "b3") = {LendingInstrument(t)}
  <2>1. LendingTicker(t) \in db["identifiers"]
    <3>1. \E x \in db["identifiers"] : x.key = <<"SOURCE_ID", LendingKey(t), "b3">>
      BY <1>4, <1>5
    <3>2. <<"SOURCE_ID", LendingKey(t), "b3">> \in Keys(db["identifiers"])
      BY <3>1 DEF Keys
    <3> QED
      BY <1>1, <3>2 DEF SplitFree
  <2>2. LendingTicker(t).key = <<"TICKER", t, "b3">> /\ LendingTicker(t).instrument = LendingInstrument(t)
    BY IdentifierKey DEF LendingTicker
  <2>3. PICK row : row = LendingTicker(t)
    OBVIOUS
  <2>4. \A x \in db["identifiers"] : x.key = <<"TICKER", t, "b3">> <=> x = row
    BY <1>1, <2>1, <2>2, <2>3
  <2>5. \A i : i \in OwnersOf(s, "TICKER", t, "b3") <=> i = LendingInstrument(t)
    BY <1>4, <2>1, <2>2, <2>3, <2>4
  <2> QED
    BY <2>5
<1>6. ASSUME NEW r \in db["snapshots"], r.key[1] = "lending"
      PROVE  r.instrument \in Resolve(s, r.key[2])
  BY <1>1, <1>3, <1>6 DEF Resolve, SplitFree
<1> QED
  BY <1>2, <1>5, <1>6 DEF TickerSplitOnlyByEarlyLending

\* A ticker has a lending instrument beside its price instrument only where lending
\* saw it first, for any order of loads (_lending_instrument_id).
THEOREM SplitCorrect == Spec => []TickerSplitOnlyByEarlyLending
<1>1. DailyInit => TypeInv /\ JobInv /\ SplitInv
  BY TypesAtStart, JobAtStart, SplitAtStart DEF DailyInit
<1> QED
  BY <1>1, TypesStep, JobStep, SplitStep, SplitImplied, PTL DEF Spec

(******************* What a run leaves of the files it read ******************)

Bonds(f) == {r \in Range(Rows(f)) : IsCredit(r) /\ r.ticker # ""}

\* What is to be stored of a file: a table, and an identity of quotes or a key.
Owed(loader, kind, f, date, full) ==
    ({"quotes"} \X ({q.identity : q \in RevisedBy(loader, kind, f)} \cup AddedBy(loader, kind, f, full)))
    \cup ({"snapshots"} \X SnapshotsIn(loader, kind, f, date))
    \cup ({"events"} \X EventsIn(loader, f))
    \cup ({"identifiers"} \X {<<"SOURCE_ID", r.ticker, "b3">> :
                                 r \in IF kind = "cadastro" /\ f.parse = "ok" THEN Bonds(f) ELSE {}})

Holds(tables, o) ==
    IF o[1] = "quotes" THEN o[2] \in Identities(tables["quotes"]) ELSE o[2] \in Keys(tables[o[1]])

PriceKnown(tables, ticker, day) ==
    \/ <<B3(ticker), day, "LAST">> \in Identities(tables["quotes"])
    \/ <<B3(ticker), day>> \in Keys(tables["absences"])

RunKept(tables, run) ==
    \A a \in ArtifactsOf(tables, run.key[1]) :
       /\ \A o \in Owed(run.loader, a.key[2], FileOf(a.key[3]), run.date, run.full) : Holds(tables, o)
       /\ a.key[2] = "cadastro" /\ FileOf(a.key[3]).parse = "ok" =>
            \A r \in Bonds(FileOf(a.key[3])), x \in ArtifactsOf(tables, run.key[1]) :
               /\ x.key[2] = "trades" /\ OtcHasRows(FileOf(x.key[3])) /\ run.date \notin Weekend
               => PriceKnown(tables, r.ticker, OtcReportDate(FileOf(x.key[3]), run.date))

\* What the transaction holds, flushed or not.
Now(s) == [t \in Names |-> All(s, t)]

\* What persisting the record r of a file leaves.
Yields(loader, kind, full, r, o) ==
    \/ /\ loader = "b3" /\ kind = "186" /\ PersistLast(r.ticker, full)
       /\ o = <<"quotes", <<B3(r.ticker), r.date, "LAST">>>>
    \/ /\ loader = "b3" /\ kind = "187"
       /\ o = <<"quotes", <<B3(r.ticker), r.date, "OFFICIAL_SETTLEMENT">>>>
    \/ loader = "b3" /\ kind = "trades" /\ o = <<"quotes", <<B3(r.ticker), r.date, "LAST">>>>
    \/ /\ loader = "b3" /\ kind = "cadastro"
       /\ o = <<"identifiers", <<"SOURCE_ID", r.ticker, "b3">>>>
    \/ loader = "b3-lending" /\ o = <<"snapshots", <<"lending", r.ticker, r.date, kind>>>>
    \/ loader = "cvm-events" /\ o = <<"events", <<"cvm", r.id>>>>
    \/ loader = "cftc" /\ o = <<"snapshots", <<"cftc", r.ticker, r.date>>>>
    \/ loader = "13f" /\ o = <<"snapshots", <<"13f", r.filer, r.date, r.ticker>>>>
    \/ loader = "fred" /\ o = <<"quotes", <<FredInstrument(r.ticker), r.date, "REFERENCE">>>>
    \/ loader = "yahoo" /\ o = <<"quotes", <<Instrument("yahoo", r.ticker), r.date, r.kind>>>>
    \/ loader \in {"bcb", "ibge"} /\ o = <<"quotes", <<Instrument(loader, r.ticker), r.date, "VALUE">>>>
    \/ loader = "tesouro" /\ o = <<"quotes", <<Instrument("tesouro", r.ticker), r.date, r.kind>>>>
    \/ /\ loader = "cvm" /\ r.value # 0 /\ r.kept
       /\ o = <<"quotes", <<FundInstrument(r), r.date, "FUND_NAV">>>>

\* The artifact of the file whose records are being persisted.
Reading(a) == a.key = <<job.run, file.kind, file.sha>>

Waits(o) == o[1] = "quotes" /\ o[2] \in Identities(memo.waiting)

OwnArtifacts == ArtifactsOf(session.flushed, job.run)

JobKept ==
    \A a \in OwnArtifacts :
       /\ \A o \in Owed(job.loader, a.key[2], FileOf(a.key[3]), command.date, command.full) :
             \/ Holds(Now(session), o) \/ Waits(o)
             \/ Reading(a) /\ \E r \in Range(todo) : Yields(job.loader, file.kind, command.full, r, o)
       /\ a.key[2] = "cadastro" /\ FileOf(a.key[3]).parse = "ok" /\ ExpectsTrades =>
            \A r \in Bonds(FileOf(a.key[3])) :
               \/ PriceKnown(Now(session), r.ticker, AbsenceDate)
               \/ Reading(a) /\ \E x \in Range(todo) : x.ticker = r.ticker

\* The local variables tell what the transaction holds, the OTC trades are
\* fetched before the cadastro, and each of them once.
MemoInv ==
    /\ memo.stored \subseteq Identities(All(session, "quotes")) \cup Identities(memo.waiting)
    /\ \A p \in memo.priced : <<B3(p[1]), p[2], "LAST">> \in Identities(All(session, "quotes"))
    /\ \A a \in OwnArtifacts :
         /\ a.key[2] \in Range(Files(job.loader))
         /\ a.key[2] = "trades" => FileOf(a.key[3]) = memo.trades
         /\ job.loader = "b3" /\ Len(items) >= 2 => a.key[2] # "trades"
         /\ job.loader = "b3" /\ Len(items) >= 1 => a.key[2] # "cadastro"

KeptInv ==
    /\ \A r \in db["runs"] : r.status = "SUCCEEDED" => RunKept(db, r)
    /\ ~Idle => JobKept /\ MemoInv

LEMMA NowFacts ==
    ASSUME NEW s, NEW t \in Names
    PROVE  Now(s)[t] = All(s, t)
  BY DEF Now

LEMMA OwedQuotes ==
    ASSUME NEW loader, NEW kind, NEW f, NEW date, NEW full, NEW id,
           id \in {q.identity : q \in RevisedBy(loader, kind, f)} \cup AddedBy(loader, kind, f, full)
    PROVE  <<"quotes", id>> \in Owed(loader, kind, f, date, full)
  BY DEF Owed

LEMMA OwedOthers ==
    ASSUME NEW loader, NEW kind, NEW f, NEW date, NEW full, NEW key
    PROVE  /\ key \in SnapshotsIn(loader, kind, f, date) =>
                <<"snapshots", key>> \in Owed(loader, kind, f, date, full)
           /\ key \in EventsIn(loader, f) => <<"events", key>> \in Owed(loader, kind, f, date, full)
           /\ kind = "cadastro" /\ f.parse = "ok" => \A r \in Bonds(f) :
                <<"identifiers", <<"SOURCE_ID", r.ticker, "b3">>>> \in Owed(loader, kind, f, date, full)
  BY DEF Owed

LEMMA OwedMeans ==
    ASSUME NEW loader, NEW kind, NEW f, NEW date, NEW full, NEW o, o \in Owed(loader, kind, f, date, full)
    PROVE  /\ o = <<o[1], o[2]>>
           /\ \/ o[1] = "quotes" /\ \E q \in RevisedBy(loader, kind, f) : o[2] = q.identity
              \/ o[1] = "quotes" /\ o[2] \in AddedBy(loader, kind, f, full)
              \/ o[1] = "snapshots" /\ o[2] \in SnapshotsIn(loader, kind, f, date)
              \/ o[1] = "events" /\ o[2] \in EventsIn(loader, f)
              \/ /\ o[1] = "identifiers" /\ kind = "cadastro" /\ f.parse = "ok"
                 /\ \E r \in Bonds(f) : o[2] = <<"SOURCE_ID", r.ticker, "b3">>
  BY DEF Owed

\* Tables that lost no row but snapshots, and no key of those.
Extends(old, new) ==
    /\ \A t \in Names \ {"snapshots", "runs"} : old[t] \subseteq new[t]
    /\ Keys(old["snapshots"]) \subseteq Keys(new["snapshots"])

LEMMA ExtendsHolds ==
    ASSUME NEW old, NEW new, Extends(old, new)
    PROVE  /\ \A o : /\ o[1] \in {"quotes", "snapshots", "events", "identifiers"}
                     /\ Holds(old, o)
                     => Holds(new, o)
           /\ \A ticker, day : PriceKnown(old, ticker, day) => PriceKnown(new, ticker, day)
<1>1. /\ Identities(old["quotes"]) \subseteq Identities(new["quotes"])
      /\ Keys(old["snapshots"]) \subseteq Keys(new["snapshots"])
      /\ Keys(old["events"]) \subseteq Keys(new["events"])
      /\ Keys(old["identifiers"]) \subseteq Keys(new["identifiers"])
      /\ Keys(old["absences"]) \subseteq Keys(new["absences"])
  BY NamesKnown DEF Extends, Identities, Keys
<1> QED
  BY <1>1 DEF Holds, PriceKnown

LEMMA GrowsExtends ==
    ASSUME NEW s, NEW s2, NEW N, Grows(s, s2, N)
    PROVE  Extends(Now(s), Now(s2))
<1>1. \A t \in Names : Now(s)[t] = All(s, t) /\ Now(s2)[t] = All(s2, t)
  BY NowFacts
<1> QED
  BY <1>1, NamesKnown DEF Grows, Extends

LEMMA RunKeptOn ==
    ASSUME NEW old, NEW new, Extends(old, new), NEW run, RunKept(old, run),
           ArtifactsOf(new, run.key[1]) = ArtifactsOf(old, run.key[1])
    PROVE  RunKept(new, run)
<1>1. ASSUME NEW a \in ArtifactsOf(old, run.key[1]),
             NEW o \in Owed(run.loader, a.key[2], FileOf(a.key[3]), run.date, run.full)
      PROVE  Holds(new, o)
  <2>1. o[1] \in {"quotes", "snapshots", "events", "identifiers"}
    BY OwedMeans
  <2>2. Holds(old, o)
    BY DEF RunKept
  <2> QED
    BY <2>1, <2>2, ExtendsHolds
<1>2. ASSUME NEW a \in ArtifactsOf(old, run.key[1]), a.key[2] = "cadastro", FileOf(a.key[3]).parse = "ok",
             NEW r \in Bonds(FileOf(a.key[3])), NEW x \in ArtifactsOf(old, run.key[1]),
             x.key[2] = "trades", OtcHasRows(FileOf(x.key[3])), run.date \notin Weekend
      PROVE  PriceKnown(new, r.ticker, OtcReportDate(FileOf(x.key[3]), run.date))
  <2>1. PriceKnown(old, r.ticker, OtcReportDate(FileOf(x.key[3]), run.date))
    BY <1>2 DEF RunKept
  <2> QED
    BY <2>1, ExtendsHolds
<1> QED
  BY <1>1, <1>2 DEF RunKept

LEMMA FileOfFacts ==
    ASSUME NEW f \in FeedFiles
    PROVE  FileOf(f.sha) = f
  BY FilesAssumption DEF FileOf, FilesAssumption

\* Only B3 and lending have files of these kinds, and only CVM a registry.
LEMMA SideKinds ==
    ASSUME NEW l \in Loaders, l \notin {"b3", "b3-lending"}, NEW k \in Range(Files(l))
    PROVE  /\ k \notin {"186", "187", "028", "trades", "cadastro", "registered", "open"}
           /\ l # "cvm" => k \notin Range(Months) /\ k # "registry"
<1>1. {"186", "187", "028", "trades", "cadastro", "registered", "open", "registry"} \cap
         (Range(FredSeries) \cup Range(Symbols) \cup Range(Months)) = {}
  BY FilesAssumption DEF FilesAssumption
<1>2. CASE l = "cvm"
  <2>1. PICK M : M = Months
    OBVIOUS
  <2>2. M \in Seq(Range(M)) /\ Files(l) = <<"registry">> \o M
    BY <1>2, <2>1, FilesAssumption DEF FilesAssumption, Files
  <2>3. PICK w : w = <<"registry">> \o M
    OBVIOUS
  <2>4. w \in Seq({"registry"} \cup Range(M))
    BY <2>2, <2>3
  <2>5. \A i \in DOMAIN w : w[i] \in {"registry"} \cup Range(M)
    BY <2>4
  <2>6. k \in {"registry"} \cup Range(M)
    BY <2>2, <2>3, <2>5 DEF Range
  <2> QED
    BY <1>1, <1>2, <2>1, <2>6
<1>3. CASE l \in {"fred", "yahoo"}
  <2>1. k \notin Range(Months)
    BY <1>3, FilesAssumption DEF Files, FilesAssumption
  <2> QED
    BY <1>1, <1>3, <2>1 DEF Files
<1>4. CASE l \in {"cvm-events", "tesouro", "bcb", "ibge", "cftc", "13f"}
  <2>1. k = l
    BY <1>4 DEF Files, Range
  <2>2. l \notin Range(Months)
    BY FilesAssumption DEF FilesAssumption
  <2> QED
    BY <1>4, <2>1, <2>2
<1> QED
  BY <1>2, <1>3, <1>4 DEF Loaders

LEMMA OtcLoader ==
    ASSUME NEW l \in Loaders, NEW k \in Range(Files(l)), k \in {"trades", "cadastro"}
    PROVE  l = "b3"
  BY SideKinds, LendingKinds

LEMMA B3Order ==
    ASSUME IsRest(items, Files("b3")), items # <<>>
    PROVE  /\ Kind = "trades" => Len(items) = 2
           /\ Kind = "cadastro" => Len(items) = 1
<1>1. PICK F : F = Files("b3")
  OBVIOUS
<1>2. F = <<"186", "187", "028", "trades", "cadastro">>
  BY <1>1 DEF Files
<1>3. Len(items) \in 1 .. Len(F) /\ Kind = F[Len(F) - Len(items) + 1]
  BY <1>1, TailIsRest DEF Kind
<1>4. /\ Len(F) = 5 /\ F[1] = "186" /\ F[2] = "187" /\ F[3] = "028"
      /\ F[4] = "trades" /\ F[5] = "cadastro"
  BY <1>2
<1> HIDE DEF Kind
<1>5. PICK n \in 1 .. 5 : n = Len(items)
  BY <1>3, <1>4
<1>6. n = 1 \/ n = 2 \/ n = 3 \/ n = 4 \/ n = 5
  BY <1>5
<1>7. PICK m : m = Len(F) - Len(items) + 1
  OBVIOUS
<1>8. m = 6 - n /\ Kind = F[m]
  BY <1>3, <1>4, <1>5, <1>7
<1>9. /\ n = 1 => m = 5
      /\ n = 2 => m = 4
      /\ n = 3 => m = 3
      /\ n = 4 => m = 2
      /\ n = 5 => m = 1
  BY <1>8
<1> QED
  BY <1>4, <1>5, <1>6, <1>8, <1>9

LEMMA RevisedMeans ==
    ASSUME NEW loader \in Loaders, NEW kind \in Range(Files(loader)), NEW f,
           NEW q \in RevisedBy(loader, kind, f)
    PROVE  \/ kind = "187" /\ q \in SettlementsSaid(f)
           \/ kind = "trades" /\ f.parse = "ok" /\ q \in TradesSaid(f)
           \/ /\ loader = "fred"
              /\ \E r \in Range(Rows(f)) : q.identity = <<FredInstrument(r.ticker), r.date, "REFERENCE">>
           \/ /\ loader = "yahoo"
              /\ \E r \in Range(Rows(f)) : q.identity = <<Instrument("yahoo", r.ticker), r.date, r.kind>>
           \/ /\ loader \in {"bcb", "ibge"}
              /\ \E r \in Range(Rows(f)) : q.identity = <<Instrument(loader, r.ticker), r.date, "VALUE">>
<1>1. \A i, r, k : Said(i, r, k).identity = <<i, r.date, k>>
  BY DEF Said
<1>2. kind \in {"186", "187", "trades"} => loader = "b3"
  BY SideKinds, LendingKinds
<1>3. CASE kind = "187"
  <2>1. RevisedBy(loader, kind, f) = SettlementsSaid(f)
    BY <1>2, <1>3 DEF RevisedBy
  <2> QED
    BY <1>3, <2>1
<1>4. CASE kind = "trades" /\ f.parse = "ok"
  <2>1. RevisedBy(loader, kind, f) = TradesSaid(f)
    BY <1>2, <1>4 DEF RevisedBy
  <2> QED
    BY <1>4, <2>1
<1> DEFINE other == kind # "187" /\ ~(kind = "trades" /\ f.parse = "ok")
<1>5. CASE other /\ loader = "fred"
  <2>1. RevisedBy(loader, kind, f) = {Said(FredInstrument(r.ticker), r, "REFERENCE") : r \in Range(Rows(f))}
    BY <1>5 DEF RevisedBy
  <2> QED
    BY <1>1, <1>5, <2>1
<1>6. CASE other /\ loader = "yahoo"
  <2>1. RevisedBy(loader, kind, f) = {Said(Instrument("yahoo", r.ticker), r, r.kind) : r \in Range(Rows(f))}
    BY <1>6 DEF RevisedBy
  <2> QED
    BY <1>1, <1>6, <2>1
<1>7. CASE other /\ loader \in {"bcb", "ibge"}
  <2>1. RevisedBy(loader, kind, f) = {Said(Instrument(loader, r.ticker), r, "VALUE") : r \in Range(Rows(f))}
    BY <1>7 DEF RevisedBy
  <2> QED
    BY <1>1, <1>7, <2>1
<1>8. CASE other /\ loader \notin {"fred", "yahoo", "bcb", "ibge"}
  BY <1>8 DEF RevisedBy
<1> QED
  BY <1>3, <1>4, <1>5, <1>6, <1>7, <1>8

LEMMA AddedMeans ==
    ASSUME NEW loader \in Loaders, NEW kind \in Range(Files(loader)), NEW f, NEW full,
           NEW id \in AddedBy(loader, kind, f, full)
    PROVE  \/ /\ kind = "186"
              /\ \E r \in Range(Rows(f)) : /\ HasPrice(r) /\ PersistLast(r.ticker, full)
                                           /\ id = <<B3(r.ticker), r.date, "LAST">>
           \/ /\ loader = "tesouro"
              /\ \E r \in Range(Rows(f)) : id = <<Instrument("tesouro", r.ticker), r.date, r.kind>>
           \/ /\ loader = "cvm" /\ kind # "registry" /\ f.parse = "ok"
              /\ \E r \in Range(Rows(f)) : /\ r.value # 0 /\ r.kept
                                           /\ id = <<FundInstrument(r), r.date, "FUND_NAV">>
<1>1. kind = "186" => loader = "b3"
  BY SideKinds, LendingKinds
<1>2. CASE kind = "186"
  <2>1. AddedBy(loader, kind, f, full) = {<<B3(r.ticker), r.date, "LAST">> :
           r \in {x \in Range(Rows(f)) : HasPrice(x) /\ PersistLast(x.ticker, full)}}
    BY <1>1, <1>2 DEF AddedBy
  <2>2. \E r \in {x \in Range(Rows(f)) : HasPrice(x) /\ PersistLast(x.ticker, full)} :
           id = <<B3(r.ticker), r.date, "LAST">>
    BY <2>1
  <2> QED
    BY <1>2, <2>2
<1>3. CASE kind # "186" /\ loader = "tesouro"
  BY <1>3 DEF AddedBy
<1>4. CASE kind # "186" /\ loader = "cvm" /\ kind # "registry" /\ f.parse = "ok"
  BY <1>4 DEF AddedBy, FundInstrument, FundKey
<1>5. CASE kind # "186" /\ loader # "tesouro" /\ ~(loader = "cvm" /\ kind # "registry" /\ f.parse = "ok")
  BY <1>5 DEF AddedBy
<1> QED
  BY <1>2, <1>3, <1>4, <1>5

LEMMA SnapshotsMean ==
    ASSUME NEW loader, NEW kind, NEW f, NEW date, NEW key \in SnapshotsIn(loader, kind, f, date)
    PROVE  \/ /\ loader = "b3-lending"
              /\ \E r \in Range(Rows(f)) : \E d :
                    /\ r.ticker \in Allow /\ d = IF r.date = 0 THEN date ELSE r.date
                    /\ key = <<"lending", r.ticker, d, kind>>
           \/ loader = "cftc" /\ \E r \in Range(Rows(f)) : key = <<"cftc", r.ticker, r.date>>
           \/ loader = "13f" /\ \E r \in Range(Rows(f)) : key = <<"13f", r.filer, r.date, r.ticker>>
<1>1. CASE loader = "b3-lending"
  BY <1>1 DEF SnapshotsIn
<1>2. CASE loader = "cftc"
  BY <1>2 DEF SnapshotsIn
<1>3. CASE loader = "13f"
  BY <1>3 DEF SnapshotsIn
<1>4. CASE loader \notin {"b3-lending", "cftc", "13f"}
  BY <1>4 DEF SnapshotsIn
<1> QED
  BY <1>1, <1>2, <1>3, <1>4

LEMMA EventsMean ==
    ASSUME NEW loader, NEW f, NEW key \in EventsIn(loader, f)
    PROVE  loader = "cvm-events" /\ \E r \in Range(Rows(f)) : key = <<"cvm", r.id>>
<1>1. CASE loader = "cvm-events"
  BY <1>1 DEF EventsIn
<1>2. CASE loader # "cvm-events"
  BY <1>2 DEF EventsIn
<1> QED
  BY <1>1, <1>2

\* A fetching action, with the file it reads.
FetchOf(f) ==
    /\ Fetch(f)
    /\ \/ /\ job.loader = "b3"
          /\ todo' = IF MasterUnread THEN <<>> ELSE Parsed(f, B3Records(f))
          /\ memo' = CASE Kind = "186" -> [memo EXCEPT !.stored = StoredIdentities(session)]
                       [] Kind = "trades" -> [memo EXCEPT !.trades = f]
                       [] OTHER -> memo
       \/ /\ job.loader \notin {"none", "b3", "cvm", "tesouro"}
          /\ todo' = Parsed(f, SideRecords(f)) /\ memo' = memo
       \/ /\ job.loader \in {"cvm", "tesouro"}
          /\ todo' = IF Kind = "registry" THEN <<>> ELSE Parsed(f, Rows(f))
          /\ memo' = [memo EXCEPT !.stored = StoredIdentities(session)]

LEMMA FetchStepOf ==
    ASSUME TypeInv, FetchStep
    PROVE  \E f \in Served : FetchOf(f)
  BY DEF FetchStep, FetchB3, FetchSide, FetchBulk, FetchOf

LEMMA FetchedYields ==
    ASSUME TypeInv, JobInv, NEW f \in Served, FetchOf(f),
           NEW o \in Owed(job.loader, Kind, f, command.date, command.full)
    PROVE  \E r \in Range(todo') : Yields(job.loader, Kind, command.full, r, o)
<1>1. PICK l : l = job.loader
  OBVIOUS
<1>2. PICK k : k = Kind
  OBVIOUS
<1>3. PICK full : full = command.full
  OBVIOUS
<1>4. /\ ~Idle /\ items # <<>> /\ l \in Loaders
      /\ f.parse = "ok" \/ (f.parse = "rejected" /\ k \in Rejectable) \/ k = "028"
  BY <1>1, <1>2 DEF FetchOf, Fetch, CanFetch, MasterUnread, Idle, TypeInv, ControlInv
<1>5. /\ k \in Range(Files(l)) /\ <<k, command.date>> \in DOMAIN Feed
      /\ f \in Feed[<<k, command.date>>]
  BY <1>1, <1>2, <1>4, ServedFacts DEF Served
<1>6. /\ l \notin {"b3", "b3-lending"} =>
           k \notin {"186", "187", "028", "trades", "cadastro", "registered", "open"}
      /\ l = "b3" => k \in {"186", "187", "028", "trades", "cadastro"}
      /\ l = "b3-lending" => k \in {"registered", "open"}
  BY <1>4, <1>5, SideKinds, B3Kinds, LendingKinds
<1>7. k \in Range(Months) => l = "cvm"
  <2>1. {"186", "187", "028", "trades", "cadastro", "registered", "open"} \cap Range(Months) = {}
    BY FilesAssumption DEF FilesAssumption
  <2> QED
    BY <1>4, <1>5, <1>6, <2>1, SideKinds
<1>8. f.parse = "ok" \/ l = "cvm" \/ (l = "b3" /\ k \in {"028", "trades", "cadastro"})
  BY <1>4, <1>6, <1>7 DEF Rejectable
<1>9. o \in Owed(l, k, f, command.date, full)
  BY <1>1, <1>2, <1>3
<1> SUFFICES \E r \in Range(todo') : Yields(l, k, full, r, o)
  BY <1>1, <1>2, <1>3
<1>10. CASE /\ l = "b3" /\ f.parse = "ok" /\ k # "028"
  <2>1. todo' = B3Records(f)
    BY <1>1, <1>2, <1>10 DEF FetchOf, MasterUnread, Parsed
  <2>2. /\ k = "186" => PricesAgree(f)
        /\ k = "187" => SettlementsAgree(f)
        /\ k = "trades" => TradesAgree(f)
        /\ k = "cadastro" => BondsAgree(f)
    <3>1. PICK p : p = <<k, command.date>>
      OBVIOUS
    <3>2. p[1] = k /\ p \in DOMAIN Feed /\ f \in Feed[p]
      BY <1>5, <3>1
    <3> QED
      BY <1>10, <3>2, ParsedFacts
  <2>3. CASE o[1] = "quotes" /\ \E q \in RevisedBy(l, k, f) : o[2] = q.identity
    <3>1. PICK q \in RevisedBy(l, k, f) : o[2] = q.identity
      BY <2>3
    <3>2. \/ k = "187" /\ q \in SettlementsSaid(f)
          \/ k = "trades" /\ q \in TradesSaid(f)
      BY <1>4, <1>5, <1>10, RevisedMeans
    <3>3. CASE k = "187" /\ q \in SettlementsSaid(f)
      <4>1. \E r \in Range(SettlementReport(f)) : q = Said(B3(r.ticker), r, "OFFICIAL_SETTLEMENT")
        BY <2>2, <3>3 DEF SettlementsAgree
      <4>2. \E r \in Range(todo') : q.identity = <<B3(r.ticker), r.date, "OFFICIAL_SETTLEMENT">>
        BY <1>2, <2>1, <3>3, <4>1 DEF B3Records, Said
      <4>3. PICK r \in Range(todo') : q.identity = <<B3(r.ticker), r.date, "OFFICIAL_SETTLEMENT">>
        BY <4>2
      <4>4. o = <<"quotes", q.identity>>
        BY <1>9, <2>3, <3>1, OwedMeans
      <4>5. o = <<"quotes", <<B3(r.ticker), r.date, "OFFICIAL_SETTLEMENT">>>>
        BY <4>3, <4>4
      <4> QED
        BY <1>10, <3>3, <4>3, <4>5 DEF Yields
    <3>4. CASE k = "trades" /\ q \in TradesSaid(f)
      <4>1. \E r \in Range(OtcTrades(f)) : q = Said(B3(r.ticker), r, "LAST")
        BY <2>2, <3>4 DEF TradesAgree
      <4>2. \E r \in Range(todo') : q.identity = <<B3(r.ticker), r.date, "LAST">>
        BY <1>2, <2>1, <3>4, <4>1 DEF B3Records, Said
      <4> QED
        BY <1>9, <1>10, <2>3, <3>1, <3>4, <4>2, OwedMeans DEF Yields
    <3> QED
      BY <3>2, <3>3, <3>4
  <2>4. CASE o[1] = "quotes" /\ o[2] \in AddedBy(l, k, f, full)
    <3>1. k = "186" /\ \E r \in Range(Rows(f)) : /\ HasPrice(r) /\ PersistLast(r.ticker, full)
                                                 /\ o[2] = <<B3(r.ticker), r.date, "LAST">>
      BY <1>4, <1>5, <1>10, <2>4, AddedMeans
    <3>2. \E r \in Range(todo') : PersistLast(r.ticker, full) /\ o[2] = <<B3(r.ticker), r.date, "LAST">>
      BY <1>2, <2>1, <2>2, <3>1 DEF PricesAgree, B3Records
    <3> QED
      BY <1>9, <1>10, <2>4, <3>1, <3>2, OwedMeans DEF Yields
  <2>5. CASE o[1] = "identifiers" /\ k = "cadastro" /\ \E r \in Bonds(f) : o[2] = <<"SOURCE_ID", r.ticker, "b3">>
    <3>1. PICK r \in Bonds(f) : o[2] = <<"SOURCE_ID", r.ticker, "b3">>
      BY <2>5
    <3>2. r.ticker \in {x.ticker : x \in Range(OtcInstruments(f))}
      BY <2>2, <2>5 DEF BondsAgree, Bonds
    <3>3. \E x \in Range(todo') : x.ticker = r.ticker
      BY <1>2, <2>1, <2>5, <3>2 DEF B3Records
    <3> QED
      BY <1>9, <1>10, <2>5, <3>1, <3>3, OwedMeans DEF Yields
  <2>6. ~(o[2] \in SnapshotsIn(l, k, f, command.date)) /\ ~(o[2] \in EventsIn(l, f))
    BY <1>10, SnapshotsMean, EventsMean
  <2> QED
    BY <1>9, <2>3, <2>4, <2>5, <2>6, OwedMeans
<1>11. CASE l = "b3" /\ (f.parse # "ok" \/ k = "028")
  <2>1. \A q \in RevisedBy(l, k, f) : FALSE
    BY <1>4, <1>5, <1>8, <1>11, RevisedMeans
  <2>2. \A id \in AddedBy(l, k, f, full) : FALSE
    BY <1>4, <1>5, <1>8, <1>11, AddedMeans
  <2>3. ~(o[2] \in SnapshotsIn(l, k, f, command.date)) /\ ~(o[2] \in EventsIn(l, f))
    BY <1>11, SnapshotsMean, EventsMean
  <2> QED
    BY <1>9, <1>8, <1>11, <2>1, <2>2, <2>3, OwedMeans
<1>12. CASE l = "b3-lending"
  <2>1. todo' = LendingTable(f, command.date)
    BY <1>1, <1>8, <1>12 DEF FetchOf, Parsed, SideRecords
  <2>2. o[1] = "snapshots" /\ o[2] \in SnapshotsIn(l, k, f, command.date)
    <3>1. \A q \in RevisedBy(l, k, f) : FALSE
      BY <1>4, <1>5, <1>6, <1>12, RevisedMeans
    <3>2. \A id \in AddedBy(l, k, f, full) : FALSE
      BY <1>4, <1>5, <1>6, <1>12, AddedMeans
    <3>3. ~(o[2] \in EventsIn(l, f)) /\ k # "cadastro"
      BY <1>6, <1>12, EventsMean
    <3> QED
      BY <1>9, <3>1, <3>2, <3>3, OwedMeans
  <2>3. PICK r \in Range(Rows(f)) : \E d : /\ r.ticker \in Allow
                                           /\ d = IF r.date = 0 THEN command.date ELSE r.date
                                           /\ o[2] = <<"lending", r.ticker, d, k>>
    BY <1>12, <2>2, SnapshotsMean
  <2>4. PICK d : /\ r.ticker \in Allow /\ d = IF r.date = 0 THEN command.date ELSE r.date
                 /\ o[2] = <<"lending", r.ticker, d, k>>
    BY <2>3
  <2>5. LoansAgree(f, command.date)
    <3>1. PICK p : p = <<k, command.date>>
      OBVIOUS
    <3>2. p[1] = k /\ p[2] = command.date /\ p \in DOMAIN Feed /\ f \in Feed[p]
      BY <1>5, <3>1
    <3> QED
      BY <1>6, <1>8, <1>12, <3>2, ParsedFacts
  <2>6. <<r.ticker, d>> \in {TickerDate(x) : x \in Range(LendingTable(f, command.date))}
    BY <2>4, <2>5 DEF LoansAgree
  <2>7. PICK x \in Range(todo') : <<r.ticker, d>> = <<x.ticker, x.date>>
    BY <2>1, <2>6 DEF TickerDate
  <2>8. o = <<"snapshots", <<"lending", x.ticker, x.date, k>>>>
    BY <2>2, <2>4, <2>7, OwedMeans
  <2> QED
    BY <1>12, <2>8 DEF Yields
<1>13. CASE l \notin {"b3", "b3-lending"}
  <2>1. k \notin {"186", "187", "028", "trades", "cadastro", "registered", "open"}
    BY <1>6, <1>13
  <2>2. ~(l = "cvm" /\ (k = "registry" \/ f.parse # "ok")) => todo' = Rows(f)
    <3>1. l \in {"cvm", "tesouro"} \/ l \notin {"none", "b3", "cvm", "tesouro"}
      BY <1>4, <1>13 DEF Loaders
    <3>2. l # "cvm" => k # "registry"
      BY <1>4, <1>5, <1>13, SideKinds
    <3> QED
      BY <1>1, <1>2, <1>8, <1>13, <3>1, <3>2 DEF FetchOf, Parsed, SideRecords
  <2>3. CASE o[1] = "quotes" /\ \E q \in RevisedBy(l, k, f) : o[2] = q.identity
    <3>1. PICK q \in RevisedBy(l, k, f) : o[2] = q.identity
      BY <2>3
    <3>2. /\ l \in {"fred", "yahoo", "bcb", "ibge"}
          /\ \/ l = "fred" /\ \E r \in Range(Rows(f)) :
                  q.identity = <<FredInstrument(r.ticker), r.date, "REFERENCE">>
             \/ l = "yahoo" /\ \E r \in Range(Rows(f)) :
                  q.identity = <<Instrument("yahoo", r.ticker), r.date, r.kind>>
             \/ l \in {"bcb", "ibge"} /\ \E r \in Range(Rows(f)) :
                  q.identity = <<Instrument(l, r.ticker), r.date, "VALUE">>
      BY <1>4, <1>5, <2>1, RevisedMeans
    <3>3. todo' = Rows(f)
      BY <2>2, <3>2
    <3>4. o = <<"quotes", q.identity>>
      BY <1>9, <2>3, <3>1, OwedMeans
    <3>5. CASE l = "fred"
      BY <3>2, <3>3, <3>4, <3>5 DEF Yields
    <3>6. CASE l = "yahoo"
      BY <3>2, <3>3, <3>4, <3>6 DEF Yields
    <3>7. CASE l \in {"bcb", "ibge"}
      BY <3>2, <3>3, <3>4, <3>7 DEF Yields
    <3> QED
      BY <3>2, <3>5, <3>6, <3>7
  <2>4. CASE o[1] = "quotes" /\ o[2] \in AddedBy(l, k, f, full)
    <3>1. \/ l = "tesouro" /\ \E r \in Range(Rows(f)) :
                o[2] = <<Instrument("tesouro", r.ticker), r.date, r.kind>>
          \/ /\ l = "cvm" /\ k # "registry" /\ f.parse = "ok"
             /\ \E r \in Range(Rows(f)) : /\ r.value # 0 /\ r.kept
                                          /\ o[2] = <<FundInstrument(r), r.date, "FUND_NAV">>
      BY <1>4, <1>5, <2>1, <2>4, AddedMeans
    <3>2. todo' = Rows(f)
      BY <2>2, <3>1
    <3>3. o = <<"quotes", o[2]>>
      BY <1>9, <2>4, OwedMeans
    <3>4. CASE l = "tesouro"
      BY <3>1, <3>2, <3>3, <3>4 DEF Yields
    <3>5. CASE l = "cvm"
      BY <3>1, <3>2, <3>3, <3>5 DEF Yields
    <3> QED
      BY <3>1, <3>4, <3>5
  <2>5. CASE o[1] = "snapshots" /\ o[2] \in SnapshotsIn(l, k, f, command.date)
    <3>1. \/ l = "cftc" /\ \E r \in Range(Rows(f)) : o[2] = <<"cftc", r.ticker, r.date>>
          \/ l = "13f" /\ \E r \in Range(Rows(f)) : o[2] = <<"13f", r.filer, r.date, r.ticker>>
      BY <1>13, <2>5, SnapshotsMean
    <3>2. todo' = Rows(f)
      BY <2>2, <3>1
    <3>3. o = <<"snapshots", o[2]>>
      BY <1>9, <2>5, OwedMeans
    <3>4. CASE l = "cftc"
      BY <3>1, <3>2, <3>3, <3>4 DEF Yields
    <3>5. CASE l = "13f"
      BY <3>1, <3>2, <3>3, <3>5 DEF Yields
    <3> QED
      BY <3>1, <3>4, <3>5
  <2>6. CASE o[1] = "events" /\ o[2] \in EventsIn(l, f)
    <3>1. l = "cvm-events" /\ \E r \in Range(Rows(f)) : o[2] = <<"cvm", r.id>>
      BY <2>6, EventsMean
    <3>2. todo' = Rows(f)
      BY <2>2, <3>1
    <3> QED
      BY <1>9, <2>6, <3>1, <3>2, OwedMeans DEF Yields
  <2> QED
    BY <1>9, <2>1, <2>3, <2>4, <2>5, <2>6, OwedMeans
<1> QED
  BY <1>8, <1>10, <1>11, <1>12, <1>13

\* A quote of this identity is stored, or waits from now on.
Awaited(id) ==
    /\ memo.waiting \subseteq memo'.waiting
    /\ memo'.trades = memo.trades /\ memo'.priced = memo.priced
    /\ memo'.stored \subseteq memo.stored \cup Identities(memo'.waiting)
    /\ id \in memo.stored \cup Identities(memo'.waiting)

LEMMA WaitAwaits ==
    ASSUME TypeInv, NEW m, DOMAIN m = DOMAIN memo, m.stored = memo.stored, m.waiting = memo.waiting,
           m.trades = memo.trades, m.priced = memo.priced,
           NEW i, NEW d, NEW k, NEW value, NEW s, Wait(s, m, <<i, d, k>>, value)
    PROVE  Awaited(<<i, d, k>>)
<1>1. /\ DOMAIN memo = {"stored", "ids", "priced", "trades", "waiting"}
      /\ KeysUnique(memo.waiting) /\ \A q \in memo.waiting : IsFirst(q)
  BY DEF TypeInv, ControlInv, SessionInv
<1>2. memo' = IF <<i, d, k>> \in m.stored THEN m
              ELSE [m EXCEPT !.stored = @ \cup {<<i, d, k>>},
                             !.waiting = @ \cup {Quote(<<i, d, k>>, 1, value, file.sha)}]
  BY DEF Wait
<1>3. /\ memo'.stored = memo.stored \cup {<<i, d, k>>}
      /\ \/ memo'.waiting = memo.waiting
         \/ memo'.waiting = memo.waiting \cup {Quote(<<i, d, k>>, 1, value, file.sha)}
      /\ <<i, d, k>> \in memo.stored \cup Identities(memo'.waiting)
      /\ memo'.priced = memo.priced /\ memo'.trades = memo.trades
  BY <1>1, <1>2, WaitsOnce
<1> QED
  BY <1>3 DEF Awaited

LEMMA PersistPriceAwaits ==
    ASSUME TypeInv, PersistPrice
    PROVE  \/ memo' = memo /\ ~PersistLast(Record.ticker, command.full)
           \/ Awaited(<<B3(Record.ticker), Record.date, "LAST">>)
<1>1. CASE Wait(Listed(Record), KnowTicker(Record), <<B3(Record.ticker), Record.date, "LAST">>, Record.value)
  <2>1. PICK m : m = KnowTicker(Record)
    OBVIOUS
  <2>2. DOMAIN memo = {"stored", "ids", "priced", "trades", "waiting"}
    BY DEF TypeInv, ControlInv
  <2>3. /\ DOMAIN m = DOMAIN memo /\ m.stored = memo.stored /\ m.waiting = memo.waiting
        /\ m.trades = memo.trades /\ m.priced = memo.priced
    BY <2>1, <2>2 DEF KnowTicker
  <2> QED
    BY <1>1, <2>1, <2>3, WaitAwaits
<1> QED
  BY <1>1 DEF PersistPrice

LEMMA PersistTesouroAwaits ==
    ASSUME TypeInv, PersistTesouro
    PROVE  Awaited(<<Instrument("tesouro", First.ticker), First.date, First.kind>>)
<1>1. Wait(GetOrCreate(session, "tesouro", First.ticker), memo,
           <<Instrument("tesouro", First.ticker), First.date, First.kind>>, First.value)
  BY DEF PersistTesouro
<1> QED
  BY <1>1, WaitAwaits

LEMMA PersistNavAwaits ==
    ASSUME TypeInv, PersistNav
    PROVE  \/ memo' = memo /\ (First.value = 0 \/ ~First.kept)
           \/ Awaited(<<FundInstrument(First), First.date, "FUND_NAV">>)
<1>1. CASE Wait(GetOrCreateFund(session, First), memo, <<FundInstrument(First), First.date, "FUND_NAV">>,
                First.value)
  BY <1>1, WaitAwaits
<1> QED
  BY <1>1 DEF PersistNav, FundInstrument, FundKey

LEMMA RecordStepWaits ==
    ASSUME TypeInv, RecordStep
    PROVE  /\ memo.waiting \subseteq memo'.waiting /\ memo'.trades = memo.trades
           /\ memo'.stored \subseteq memo.stored \cup Identities(memo'.waiting)
           /\ \A p \in memo'.priced : p \in memo.priced \/ (PersistTrade /\ p = TickerDate(Record))
<1>1. DOMAIN memo = {"stored", "ids", "priced", "trades", "waiting"}
  BY DEF TypeInv, ControlInv
<1>2. CASE PersistPrice \/ PersistTesouro \/ PersistNav
  BY <1>2, PersistPriceAwaits, PersistTesouroAwaits, PersistNavAwaits DEF Awaited
<1>3. CASE PersistTrade
  BY <1>1, <1>3 DEF PersistTrade
<1>4. CASE RecordStep /\ ~(PersistPrice \/ PersistTesouro \/ PersistNav \/ PersistTrade)
  BY <1>1, <1>4 DEF RecordStep, PersistSettlement, EnrichInstrument, PersistCredit,
       PersistLending, PersistEvent, PersistCot, PersistHolding, PersistFred, PersistYahoo,
       PersistBcb, PersistIbge, PersistObservation, KnowTicker
<1> QED
  BY <1>2, <1>3, <1>4

\* What a record yields is in the transaction, or waits, once it is persisted.
LEMMA RecordStored ==
    ASSUME TypeInv, MemoInv, RecordStep, NEW o,
           Yields(job.loader, file.kind, command.full, Head(todo), o)
    PROVE  Holds(Now(session'), o) \/ Waits(o)'
<1>1. Sound(session)
  BY DEF TypeInv, SessionInv
<1>2. \A t \in Names : Now(session')[t] = All(session', t)
  BY NowFacts
<1>3. Extends(Now(session), Now(session'))
  BY <1>1, RecordStepKeeps, GrowsExtends
<1>4. ASSUME NEW id, Awaited(id), o = <<"quotes", id>>
      PROVE  Holds(Now(session'), o) \/ Waits(o)'
  <2>1. id \in Identities(All(session, "quotes")) \cup Identities(memo'.waiting)
    BY <1>4 DEF Awaited, MemoInv, Identities
  <2>2. Identities(All(session, "quotes")) \subseteq Identities(All(session', "quotes"))
    BY <1>2, <1>3, NowFacts, NamesKnown DEF Extends, Identities
  <2> QED
    BY <1>2, <1>4, <2>1, <2>2, NamesKnown DEF Holds, Waits
<1>5. ASSUME NEW t, NEW R, NEW i, NEW d, NEW k, NEW value, Wrote(t, R, i, d, k, value),
             o = <<"quotes", <<i, d, k>>>>
      PROVE  Holds(Now(session'), o)
  BY <1>2, <1>5, WroteKeeps, NamesKnown DEF Holds
<1>6. ASSUME NEW t \in {"identifiers", "snapshots", "events"}, NEW key, key \in Keys(All(session', t)),
             o = <<t, key>>
      PROVE  Holds(Now(session'), o)
  BY <1>2, <1>6, NamesKnown DEF Holds
<1>7. PICK r : r = Head(todo)
  OBVIOUS
<1>8. PICK k : k = file.kind
  OBVIOUS
<1>9. PICK full : full = command.full
  OBVIOUS
<1>10. Yields(job.loader, k, full, r, o) /\ Record = r /\ First = r
  BY <1>7, <1>8, <1>9 DEF Record, First
<1>11. CASE PersistPrice
  <2>1. o = <<"quotes", <<B3(r.ticker), r.date, "LAST">>>> /\ PersistLast(r.ticker, full)
    BY <1>8, <1>10, <1>11 DEF PersistPrice, B3Persisting, Persisting, Yields
  <2> QED
    BY <1>4, <1>9, <1>10, <1>11, <2>1, PersistPriceAwaits
<1>12. CASE PersistSettlement
  <2>1. o = <<"quotes", <<B3(r.ticker), r.date, "OFFICIAL_SETTLEMENT">>>>
    BY <1>8, <1>10, <1>12 DEF PersistSettlement, B3Persisting, Persisting, Yields
  <2> QED
    BY <1>1, <1>5, <1>10, <1>12, <2>1, PersistSettlementWrites
<1>13. CASE EnrichInstrument
  BY <1>8, <1>10, <1>13 DEF EnrichInstrument, B3Persisting, Persisting, Yields
<1>14. CASE PersistTrade
  <2>1. o = <<"quotes", <<B3(r.ticker), r.date, "LAST">>>>
    BY <1>8, <1>10, <1>14 DEF PersistTrade, B3Persisting, Persisting, Yields
  <2> QED
    BY <1>1, <1>5, <1>10, <1>14, <2>1, PersistTradeWrites
<1>15. CASE PersistCredit
  <2>1. o = <<"identifiers", <<"SOURCE_ID", r.ticker, "b3">>>>
    BY <1>8, <1>10, <1>15 DEF PersistCredit, B3Persisting, Persisting, Yields
  <2>2. <<"SOURCE_ID", r.ticker, "b3">> \in Keys(session'.flushed["identifiers"])
    BY <1>1, <1>10, <1>15, PersistCreditWrites
  <2>3. <<"SOURCE_ID", r.ticker, "b3">> \in Keys(All(session', "identifiers"))
    BY <2>2 DEF Keys, All
  <2> QED
    BY <1>6, <2>1, <2>3
<1>16. CASE PersistLending
  <2>1. o = <<"snapshots", <<"lending", r.ticker, r.date, k>>>>
    BY <1>10, <1>16 DEF PersistLending, Persisting, Yields
  <2>2. <<"lending", r.ticker, r.date, k>> \in Keys(All(session', "snapshots"))
    BY <1>1, <1>8, <1>10, <1>16, PersistLendingWrites DEF SnapshotKey
  <2> QED
    BY <1>6, <2>1, <2>2
<1>17. CASE PersistEvent
  <2>1. o = <<"events", <<"cvm", r.id>>>>
    BY <1>10, <1>17 DEF PersistEvent, Persisting, Yields
  <2> QED
    BY <1>1, <1>6, <1>10, <1>17, <2>1, PersistEventWrites
<1>18. CASE PersistCot
  <2>1. o = <<"snapshots", <<"cftc", r.ticker, r.date>>>>
    BY <1>10, <1>18 DEF PersistCot, Persisting, Yields
  <2> QED
    BY <1>1, <1>6, <1>10, <1>18, <2>1, PersistCotWrites
<1>19. CASE PersistHolding
  <2>1. o = <<"snapshots", <<"13f", r.filer, r.date, r.ticker>>>>
    BY <1>10, <1>19 DEF PersistHolding, Persisting, Yields
  <2> QED
    BY <1>1, <1>6, <1>10, <1>19, <2>1, PersistHoldingWrites
<1>20. CASE PersistFred
  <2>1. o = <<"quotes", <<FredInstrument(r.ticker), r.date, "REFERENCE">>>>
    BY <1>10, <1>20 DEF PersistFred, Persisting, Yields
  <2> QED
    BY <1>1, <1>5, <1>10, <1>20, <2>1, PersistFredWrites
<1>21. CASE PersistYahoo
  <2>1. o = <<"quotes", <<Instrument("yahoo", r.ticker), r.date, r.kind>>>>
    BY <1>10, <1>21 DEF PersistYahoo, Persisting, Yields
  <2> QED
    BY <1>1, <1>5, <1>10, <1>21, <2>1, PersistYahooWrites
<1>22. ASSUME NEW source \in {"bcb", "ibge"}, PersistObservation(source)
       PROVE  Holds(Now(session'), o)
  <2>1. o = <<"quotes", <<Instrument(source, r.ticker), r.date, "VALUE">>>>
    BY <1>10, <1>22 DEF PersistObservation, Persisting, Yields
  <2> QED
    BY <1>1, <1>5, <1>10, <1>22, <2>1, PersistObservationWrites
<1>23. CASE PersistTesouro
  <2>1. o = <<"quotes", <<Instrument("tesouro", r.ticker), r.date, r.kind>>>>
    BY <1>10, <1>23 DEF PersistTesouro, Persisting, Yields
  <2> QED
    BY <1>4, <1>10, <1>23, <2>1, PersistTesouroAwaits
<1>24. CASE PersistNav
  <2>1. o = <<"quotes", <<FundInstrument(r), r.date, "FUND_NAV">>>> /\ r.value # 0 /\ r.kept
    BY <1>10, <1>24 DEF PersistNav, Persisting, Yields
  <2> QED
    BY <1>4, <1>10, <1>24, <2>1, PersistNavAwaits
<1> QED
  BY <1>11, <1>12, <1>13, <1>14, <1>15, <1>16, <1>17, <1>18, <1>19, <1>20, <1>21, <1>22, <1>23, <1>24
     DEF RecordStep, PersistBcb, PersistIbge

LEMMA RecordPriced ==
    ASSUME TypeInv, MemoInv, PersistCredit, ExpectsTrades
    PROVE  PriceKnown(Now(session'), Record.ticker, AbsenceDate)
<1>1. Sound(session)
  BY DEF TypeInv, SessionInv
<1>2. PICK s : s = UpsertCreditInstrument(session, Record)
  OBVIOUS
<1>3. \A t \in Names : Now(session)[t] = All(session, t) /\ Now(session')[t] = All(session', t)
  BY NowFacts
<1>4. PICK id : id = <<B3(Record.ticker), AbsenceDate, "LAST">>
  OBVIOUS
<1>5. CASE AbsenceRow.key \in Keys(session'.flushed["absences"])
  <2>1. <<B3(Record.ticker), AbsenceDate>> \in Keys(All(session', "absences"))
    BY <1>5 DEF Keys, All, AbsenceRow
  <2> QED
    BY <1>3, <2>1, NamesKnown DEF PriceKnown
<1>6. CASE Priced(s)
  <2>1. id \in Identities(All(session, "quotes"))
    <3>1. CASE <<Record.ticker, AbsenceDate>> \in memo.priced
      <4>1. PICK p \in memo.priced : p = <<Record.ticker, AbsenceDate>>
        BY <3>1
      <4>2. <<B3(p[1]), p[2], "LAST">> \in Identities(All(session, "quotes"))
        BY DEF MemoInv
      <4> QED
        BY <1>4, <4>1, <4>2
    <3>2. CASE Revisions(s.flushed["quotes"], id) # {}
      <4>1. PICK q \in s.flushed["quotes"] : Identity(q) = id
        BY <3>2 DEF Revisions
      <4>2. Grows(session, s, New("identifiers", CreditRows(Record)))
        BY <1>1, <1>2, UpsertCreditInstrumentKeeps
      <4>3. q \in All(session, "quotes")
        BY <4>2, NamesKnown DEF Grows, New, All
      <4> QED
        BY <4>1, <4>3 DEF Identities
    <3> QED
      BY <1>4, <1>6, <3>1, <3>2 DEF Priced
  <2>2. Extends(Now(session), Now(session'))
    BY <1>1, RecordStepKeeps, GrowsExtends DEF RecordStep
  <2>3. PriceKnown(Now(session), Record.ticker, AbsenceDate)
    BY <1>3, <1>4, <2>1, NamesKnown DEF PriceKnown
  <2> QED
    BY <2>2, <2>3, ExtendsHolds
<1> QED
  BY <1>1, <1>2, <1>5, <1>6, PersistCreditWrites

LEMMA RecordStepArtifacts ==
    ASSUME TypeInv, RecordStep
    PROVE  OwnArtifacts' = OwnArtifacts
<1>1. PICK N : Grows(session, session', N) /\ Plain(N)
  BY RecordStepKeeps DEF TypeInv, SessionInv
<1>2. session.added["artifacts"] = {} /\ session'.added["artifacts"] = {}
  BY RecordStepTypes DEF TypeInv, SessionInv
<1>3. session'.flushed["artifacts"] = session.flushed["artifacts"]
  <2>1. \A a \in All(session', "artifacts") : a \in All(session, "artifacts") \/ <<"artifacts", a>> \in N
    BY <1>1, NamesKnown DEF Grows
  <2>2. session.flushed["artifacts"] \subseteq session'.flushed["artifacts"]
    BY <1>1, NamesKnown DEF Grows
  <2>3. \A a : <<"artifacts", a>> \notin N
    BY <1>1 DEF Plain
  <2> QED
    BY <1>2, <2>1, <2>2, <2>3 DEF All
<1>4. job' = job
  BY RecordStepFrame DEF TypeInv
<1> QED
  BY <1>3, <1>4 DEF OwnArtifacts, ArtifactsOf

LEMMA RecordStepMemoKept == TypeInv /\ MemoInv /\ RecordStep => MemoInv'
<1> SUFFICES ASSUME TypeInv, MemoInv, RecordStep
             PROVE  MemoInv'
  OBVIOUS
<1>1. /\ memo.waiting \subseteq memo'.waiting /\ memo'.trades = memo.trades
      /\ memo'.stored \subseteq memo.stored \cup Identities(memo'.waiting)
      /\ \A p \in memo'.priced : p \in memo.priced \/ (PersistTrade /\ p = TickerDate(Record))
  BY RecordStepWaits
<1>2. Identities(All(session, "quotes")) \subseteq Identities(All(session', "quotes"))
  <2>1. Extends(Now(session), Now(session'))
    BY RecordStepKeeps, GrowsExtends DEF TypeInv, SessionInv
  <2> QED
    BY <2>1, NowFacts, NamesKnown DEF Extends, Identities
<1>3. memo'.stored \subseteq Identities(All(session', "quotes")) \cup Identities(memo'.waiting)
  BY <1>1, <1>2 DEF MemoInv, Identities
<1>4. ASSUME NEW p \in memo'.priced
      PROVE  <<B3(p[1]), p[2], "LAST">> \in Identities(All(session', "quotes"))
  <2>1. CASE p \in memo.priced
    BY <1>2, <2>1 DEF MemoInv
  <2>2. CASE PersistTrade /\ p = TickerDate(Record)
    <3>1. <<B3(Record.ticker), Record.date, "LAST">> \in Identities(All(session', "quotes"))
      BY <2>2, PersistTradeWrites, WroteKeeps DEF TypeInv, SessionInv
    <3> QED
      BY <2>2, <3>1 DEF TickerDate
  <2> QED
    BY <1>1, <2>1, <2>2
<1>5. job' = job /\ items' = items
  BY RecordStepFrame DEF TypeInv
<1>6. OwnArtifacts' = OwnArtifacts
  BY RecordStepArtifacts
<1> QED
  BY <1>1, <1>3, <1>4, <1>5, <1>6 DEF MemoInv

LEMMA RecordStepJobKept == TypeInv /\ JobInv /\ MemoInv /\ JobKept /\ RecordStep => JobKept'
<1> SUFFICES ASSUME TypeInv, JobInv, MemoInv, JobKept, RecordStep
             PROVE  JobKept'
  OBVIOUS
<1>1. /\ ~Idle /\ UNCHANGED <<command, job, items, file>> /\ todo' = Tail(todo) /\ todo # <<>>
  BY RecordStepFrame, RecordStepTodo DEF TypeInv, commandVars
<1>2. OwnArtifacts' = OwnArtifacts
  BY RecordStepArtifacts
<1>3. memo.waiting \subseteq memo'.waiting /\ memo'.trades = memo.trades
  BY RecordStepWaits
<1>4. ExpectsTrades' = ExpectsTrades /\ AbsenceDate' = AbsenceDate
  BY <1>1, <1>3 DEF ExpectsTrades, AbsenceDate
<1>5. Extends(Now(session), Now(session'))
  BY RecordStepKeeps, GrowsExtends DEF TypeInv, SessionInv
<1>6. ~(job.loader = "b3" /\ file.kind = "028") => Range(todo) = {Head(todo)} \cup Range(todo')
  BY <1>1, TailFacts DEF JobInv
<1>7. ASSUME NEW a \in OwnArtifacts,
             NEW o \in Owed(job.loader, a.key[2], FileOf(a.key[3]), command.date, command.full)
      PROVE  \/ Holds(Now(session'), o) \/ Waits(o)'
             \/ Reading(a)' /\ \E r \in Range(todo') : Yields(job.loader, file.kind, command.full, r, o)
  <2>1. CASE Holds(Now(session), o)
    BY <1>5, <2>1, ExtendsHolds, OwedMeans
  <2>2. CASE Waits(o)
    BY <1>3, <2>2 DEF Waits, Identities
  <2>3. ASSUME Reading(a), NEW r \in Range(todo), Yields(job.loader, file.kind, command.full, r, o)
        PROVE  \/ Holds(Now(session'), o) \/ Waits(o)'
               \/ Reading(a)' /\ \E x \in Range(todo') : Yields(job.loader, file.kind, command.full, x, o)
    <3>1. ~(job.loader = "b3" /\ file.kind = "028")
      BY <2>3 DEF Yields
    <3>2. CASE r = Head(todo)
      BY <2>3, <3>2, RecordStored
    <3>3. CASE r \in Range(todo')
      BY <1>1, <2>3, <3>3 DEF Reading
    <3> QED
      BY <1>6, <3>1, <3>2, <3>3
  <2> QED
    BY <1>7, <2>1, <2>2, <2>3 DEF JobKept
<1>8. ASSUME NEW a \in OwnArtifacts, a.key[2] = "cadastro", FileOf(a.key[3]).parse = "ok", ExpectsTrades,
             NEW r \in Bonds(FileOf(a.key[3]))
      PROVE  \/ PriceKnown(Now(session'), r.ticker, AbsenceDate)
             \/ Reading(a)' /\ \E x \in Range(todo') : x.ticker = r.ticker
  <2>1. CASE PriceKnown(Now(session), r.ticker, AbsenceDate)
    BY <1>5, <2>1, ExtendsHolds
  <2>2. ASSUME Reading(a), NEW x \in Range(todo), x.ticker = r.ticker
        PROVE  \/ PriceKnown(Now(session'), r.ticker, AbsenceDate)
               \/ Reading(a)' /\ \E y \in Range(todo') : y.ticker = r.ticker
    <3>1. file.kind = "cadastro" /\ job.loader = "b3"
      <4>1. a.key[2] = file.kind
        BY <2>2 DEF Reading
      <4>2. job.loader \in Loaders /\ a.key[2] \in Range(Files(job.loader))
        BY <1>1 DEF MemoInv, TypeInv, ControlInv, Idle
      <4> QED
        BY <1>8, <4>1, <4>2, OtcLoader
    <3>2. PersistCredit
      BY <3>1 DEF RecordStep, PersistPrice, PersistSettlement, EnrichInstrument, PersistTrade,
         PersistLending, PersistEvent, PersistCot, PersistHolding, PersistFred, PersistYahoo,
         PersistBcb, PersistIbge, PersistObservation, PersistTesouro, PersistNav, B3Persisting, Persisting
    <3>3. CASE x = Head(todo)
      BY <1>8, <2>2, <3>2, <3>3, RecordPriced DEF Record
    <3>4. CASE x \in Range(todo')
      BY <1>1, <2>2, <3>4 DEF Reading
    <3> QED
      BY <1>6, <3>1, <3>3, <3>4
  <2> QED
    BY <1>8, <2>1, <2>2 DEF JobKept
<1> QED
  BY <1>1, <1>2, <1>4, <1>7, <1>8 DEF JobKept

LEMMA RecordStepKept == TypeInv /\ JobInv /\ KeptInv /\ RecordStep => KeptInv'
<1> SUFFICES ASSUME TypeInv, JobInv, KeptInv, RecordStep
             PROVE  KeptInv'
  OBVIOUS
<1>1. ~Idle /\ db' = db
  BY RecordStepFrame DEF TypeInv
<1>2. JobKept' /\ MemoInv'
  BY <1>1, RecordStepJobKept, RecordStepMemoKept DEF KeptInv
<1> QED
  BY <1>1, <1>2 DEF KeptInv

\* Runs committed before the running one keep what they have.
LEMMA CommittedOn ==
    ASSUME TypeInv, KeptInv, ~Idle, NEW tables, Extends(Now(session), tables),
           tables["artifacts"] = session.flushed["artifacts"],
           NEW run \in db["runs"], run.status = "SUCCEEDED"
    PROVE  RunKept(tables, run)
<1>1. run.key[1] # job.run
  BY DEF TypeInv, CommittedInv, OwnRun, RunRow
<1>2. ArtifactsOf(tables, run.key[1]) = ArtifactsOf(db, run.key[1])
  BY <1>1, NamesKnown DEF TypeInv, SessionInv, ArtifactsOf
<1>3. Extends(db, tables)
  <2>1. \A t \in Names \ {"snapshots", "runs"} : db[t] \subseteq All(session, t)
    BY DEF TypeInv, SessionInv, All
  <2>2. Keys(db["snapshots"]) \subseteq Keys(All(session, "snapshots"))
    BY DEF TypeInv, SessionInv
  <2> QED
    BY <2>1, <2>2, NowFacts, NamesKnown DEF Extends
<1> QED
  BY <1>2, <1>3, RunKeptOn DEF KeptInv

LEMMA FlushBatchKept == TypeInv /\ KeptInv /\ FlushBatch => KeptInv'
<1> SUFFICES ASSUME TypeInv, KeptInv, FlushBatch
             PROVE  KeptInv'
  OBVIOUS
<1>1. /\ ~Idle /\ ~Idle' /\ UNCHANGED <<command, job, items, todo, file>>
      /\ session' = FlushedBatch /\ memo' = [memo EXCEPT !.waiting = {}]
      /\ db' = db \/ db' = FlushedBatch.flushed
  BY FlushBatchFrame DEF TypeInv, commandVars, Idle
<1>2. DOMAIN memo = {"stored", "ids", "priced", "trades", "waiting"}
  BY DEF TypeInv, ControlInv
<1>3. memo'.waiting = {} /\ memo'.stored = memo.stored /\ memo'.priced = memo.priced /\ memo'.trades = memo.trades
  BY <1>1, <1>2
<1>4. PICK z : z = FlushedBatch
  OBVIOUS
<1>5. /\ session' = z /\ Grows(session, z, New("quotes", memo.waiting))
      /\ \A t \in Names : z.added[t] = {} /\ z.flushed[t] = All(z, t)
      /\ memo.waiting \subseteq z.flushed["quotes"]
  BY <1>1, <1>4, FlushedBatchKeeps
<1>6. Extends(Now(session), Now(session'))
  BY <1>5, GrowsExtends
<1>7. session'.flushed["artifacts"] = session.flushed["artifacts"]
  <2>1. \A a \in All(z, "artifacts") : a \in All(session, "artifacts")
    BY <1>5, NamesKnown DEF Grows, New
  <2>2. session.flushed["artifacts"] \subseteq z.flushed["artifacts"]
    BY <1>5, NamesKnown DEF Grows
  <2>3. All(session, "artifacts") = session.flushed["artifacts"]
    BY DEF TypeInv, SessionInv, All
  <2>4. z.flushed["artifacts"] = All(z, "artifacts")
    BY <1>5, NamesKnown
  <2>5. z.flushed["artifacts"] \subseteq session.flushed["artifacts"]
    BY <2>1, <2>3, <2>4
  <2>6. session' = z
    BY <1>5
  <2> QED
    BY <2>2, <2>5, <2>6
<1>8. OwnArtifacts' = OwnArtifacts
  BY <1>1, <1>7 DEF OwnArtifacts, ArtifactsOf
<1>9. \A t \in Names : Now(session')[t] = All(session', t) /\ All(session', t) = session'.flushed[t]
  BY <1>5, NowFacts
<1>10. \A o : Waits(o) => Holds(Now(session'), o)
  BY <1>5, <1>9, NamesKnown DEF Waits, Holds, Identities
<1>11. ExpectsTrades' = ExpectsTrades /\ AbsenceDate' = AbsenceDate
  BY <1>1, <1>3 DEF ExpectsTrades, AbsenceDate
<1>12. JobKept'
  <2>1. ASSUME NEW a \in OwnArtifacts,
               NEW o \in Owed(job.loader, a.key[2], FileOf(a.key[3]), command.date, command.full)
        PROVE  \/ Holds(Now(session'), o)
               \/ Reading(a) /\ \E r \in Range(todo) : Yields(job.loader, file.kind, command.full, r, o)
    BY <1>1, <1>6, <1>10, ExtendsHolds, OwedMeans DEF KeptInv, JobKept
  <2>2. ASSUME NEW a \in OwnArtifacts, a.key[2] = "cadastro", FileOf(a.key[3]).parse = "ok", ExpectsTrades,
               NEW r \in Bonds(FileOf(a.key[3]))
        PROVE  \/ PriceKnown(Now(session'), r.ticker, AbsenceDate)
               \/ Reading(a) /\ \E x \in Range(todo) : x.ticker = r.ticker
    BY <1>1, <1>6, <2>2, ExtendsHolds DEF KeptInv, JobKept
  <2>3. \A a : Reading(a)' <=> Reading(a)
    BY <1>1 DEF Reading
  <2> QED
    BY <1>1, <1>8, <1>11, <2>1, <2>2, <2>3 DEF JobKept
<1>13. MemoInv'
  <2>1. Identities(All(session, "quotes")) \cup Identities(memo.waiting) \subseteq Identities(All(session', "quotes"))
    BY <1>5, <1>6, <1>9, NowFacts, NamesKnown DEF Extends, Identities
  <2>2. MemoInv
    BY <1>1 DEF KeptInv
  <2> QED
    BY <1>1, <1>3, <1>8, <2>1, <2>2 DEF MemoInv
<1>14. ASSUME NEW r \in db'["runs"], r.status = "SUCCEEDED"
       PROVE  RunKept(db', r)
  <2>1. CASE db' = db
    BY <1>14, <2>1 DEF KeptInv
  <2>2. CASE db' = session'.flushed
    <3>1. Extends(Now(session), db')
      BY <1>6, <1>9, <2>2, NamesKnown DEF Extends
    <3>2. r \in All(session, "runs")
      <4>1. \A x \in All(z, "runs") : x \in All(session, "runs")
        BY <1>5, NamesKnown DEF Grows, New
      <4>2. z.flushed["runs"] = All(z, "runs")
        BY <1>5, NamesKnown
      <4> QED
        BY <1>5, <1>14, <2>2, <4>1, <4>2
    <3>3. r \in db["runs"]
      BY <1>14, <3>2 DEF TypeInv, SessionInv, All, OwnRun, RunRow
    <3> QED
      BY <1>1, <1>7, <1>14, <2>2, <3>1, <3>3, CommittedOn
  <2> QED
    BY <1>1, <2>1, <2>2
<1> QED
  BY <1>1, <1>12, <1>13, <1>14 DEF KeptInv

LEMMA SkipFileKept == TypeInv /\ JobInv /\ KeptInv /\ SkipFile => KeptInv'
<1> SUFFICES ASSUME TypeInv, JobInv, KeptInv, SkipFile
             PROVE  KeptInv'
  OBVIOUS
<1>1. /\ ~Idle /\ ~Idle' /\ items # <<>> /\ items' = Tail(items)
      /\ UNCHANGED <<command, db, session, job, todo, file, memo>>
  BY DEF SkipFile, CanFetch, commandVars, Idle
<1>2. Len(items') = Len(items) - 1 /\ Len(items) \in Nat
  BY <1>1, TailIsRest DEF JobInv
<1>3. OwnArtifacts' = OwnArtifacts
  BY <1>1 DEF OwnArtifacts
<1>4. MemoInv'
  <2>1. MemoInv
    BY <1>1 DEF KeptInv
  <2>2. (Len(items') >= 2 => Len(items) >= 2) /\ (Len(items') >= 1 => Len(items) >= 1)
    BY <1>2
  <2> QED
    BY <1>1, <1>3, <2>1, <2>2 DEF MemoInv
<1>5. JobKept'
  BY <1>1, <1>3 DEF KeptInv, JobKept, Reading, Waits, ExpectsTrades, AbsenceDate
<1> QED
  BY <1>1, <1>4, <1>5 DEF KeptInv

LEMMA FetchPriced ==
    ASSUME TypeInv, JobInv, NEW f \in Served, FetchOf(f), Kind = "cadastro", f.parse = "ok",
           NEW r \in Bonds(f)
    PROVE  \E x \in Range(todo') : x.ticker = r.ticker
<1>1. ~Idle /\ items # <<>> /\ job.loader \in Loaders
  BY DEF FetchOf, Fetch, CanFetch, Idle, TypeInv, ControlInv
<1>2. /\ Kind \in Range(Files(job.loader)) /\ <<Kind, command.date>> \in DOMAIN Feed
      /\ f \in Feed[<<Kind, command.date>>]
  BY <1>1, ServedFacts DEF Served
<1>3. job.loader = "b3"
  BY <1>1, <1>2, OtcLoader
<1>4. todo' = OtcInstruments(f)
  BY <1>3 DEF FetchOf, MasterUnread, Parsed, B3Records
<1>5. BondsAgree(f)
  <2>1. PICK p : p = <<Kind, command.date>>
    OBVIOUS
  <2>2. p[1] = "cadastro" /\ p \in DOMAIN Feed /\ f \in Feed[p]
    BY <1>2, <2>1
  <2> QED
    BY <2>2, ParsedFacts
<1>6. r.ticker \in {x.ticker : x \in Range(OtcInstruments(f))}
  BY <1>5 DEF BondsAgree, Bonds
<1> QED
  BY <1>4, <1>6

\* What a fetching action leaves of the local variables.
LEMMA FetchMemo ==
    ASSUME TypeInv, JobInv, NEW f, FetchOf(f)
    PROVE  /\ memo'.priced = memo.priced
           /\ memo'.stored = memo.stored \/ memo'.stored = StoredIdentities(session)
           /\ IF Kind = "trades" THEN memo'.trades = f ELSE memo'.trades = memo.trades
<1>1. DOMAIN memo = {"stored", "ids", "priced", "trades", "waiting"}
  BY DEF TypeInv, ControlInv
<1>2. ~Idle /\ items # <<>> /\ job.loader \in Loaders
  BY DEF FetchOf, Fetch, CanFetch, Idle, TypeInv, ControlInv
<1>3. Kind = "trades" => job.loader = "b3"
  BY <1>2, ServedFacts, OtcLoader
<1>4. CASE job.loader = "b3"
  BY <1>1, <1>4 DEF FetchOf
<1>5. CASE job.loader \in {"cvm", "tesouro"}
  <2>1. memo' = [memo EXCEPT !.stored = StoredIdentities(session)]
    BY <1>5 DEF FetchOf
  <2> QED
    BY <1>1, <1>3, <1>5, <2>1
<1>6. CASE job.loader \notin {"none", "b3", "cvm", "tesouro"}
  BY <1>3, <1>6 DEF FetchOf
<1> QED
  BY <1>2, <1>4, <1>5, <1>6 DEF Loaders

LEMMA FetchStepKept == TypeInv /\ JobInv /\ KeptInv /\ FetchStep => KeptInv'
<1> SUFFICES ASSUME TypeInv, JobInv, KeptInv, FetchStep
             PROVE  KeptInv'
  OBVIOUS
<1>1. PICK f \in Served : FetchOf(f)
  BY FetchStepOf
<1>2. /\ ~Idle /\ ~Idle' /\ UNCHANGED <<command, db, job>> /\ todo = <<>> /\ memo.waiting = {}
      /\ items # <<>> /\ items' = Tail(items) /\ memo'.waiting = {}
  BY FetchStepFrame DEF TypeInv, commandVars, Idle
<1>3. session' = StoreArtifact(session, job.run, Kind, f.sha) /\ file' = [kind |-> Kind, sha |-> f.sha]
  BY <1>1 DEF FetchOf, Fetch
<1>4. PICK row : row = [key |-> <<job.run, Kind, f.sha>>]
  OBVIOUS
<1>5. /\ row.key[1] = job.run /\ row.key[2] = Kind /\ row.key[3] = f.sha
      /\ row.key = <<job.run, Kind, f.sha>>
  BY <1>4
<1>6. /\ Grows(session, session', New("artifacts", {row})) /\ row \in session'.flushed["artifacts"]
      /\ \A t \in Names : session'.added[t] = {} /\ session'.flushed[t] = All(session', t)
  BY <1>3, <1>4, StoreArtifactStep DEF TypeInv, SessionInv
<1>7. Extends(Now(session), Now(session'))
  BY <1>6, GrowsExtends
<1>8. \A a \in OwnArtifacts' : a \in OwnArtifacts \/ a = row
  <2>1. \A a \in All(session', "artifacts") : a \in All(session, "artifacts") \/ a = row
    BY <1>6, NamesKnown DEF Grows, New
  <2>2. session'.flushed["artifacts"] = All(session', "artifacts")
    BY <1>6, NamesKnown
  <2>3. All(session, "artifacts") = session.flushed["artifacts"]
    BY DEF TypeInv, SessionInv, All
  <2> QED
    BY <1>2, <2>1, <2>2, <2>3 DEF OwnArtifacts, ArtifactsOf
<1>9. JobKept /\ MemoInv
  BY <1>2 DEF KeptInv
<1>10. /\ Kind \in Range(Files(job.loader)) /\ Served \subseteq FeedFiles
       /\ job.loader \in Loaders
  BY <1>2, ServedFacts DEF TypeInv, ControlInv, Idle
<1>11. FileOf(f.sha) = f
  BY <1>10, FileOfFacts
<1>12. Kind \in {"trades", "cadastro"} => job.loader = "b3"
  BY <1>10, OtcLoader
<1>13. job.loader = "b3" => /\ Kind = "trades" => Len(items) = 2
                            /\ Kind = "cadastro" => Len(items) = 1
  BY <1>2, B3Order DEF JobInv
<1>14. Len(items') = Len(items) - 1 /\ Len(items) \in Nat /\ Len(items) >= 1
  BY <1>2, TailIsRest DEF JobInv
<1>15. /\ memo'.priced = memo.priced
       /\ memo'.stored = memo.stored \/ memo'.stored = StoredIdentities(session)
       /\ IF Kind = "trades" THEN memo'.trades = f ELSE memo'.trades = memo.trades
  BY <1>1, FetchMemo
<1>16. MemoInv'
  <2>1. Identities(All(session, "quotes")) \subseteq Identities(All(session', "quotes"))
    BY <1>7, NowFacts, NamesKnown DEF Extends, Identities
  <2>2. memo'.stored \subseteq Identities(All(session', "quotes"))
    BY <1>2, <1>9, <1>15, <2>1 DEF MemoInv, StoredIdentities, Identities, All
  <2>3. \A p \in memo'.priced : <<B3(p[1]), p[2], "LAST">> \in Identities(All(session', "quotes"))
    BY <1>9, <1>15, <2>1 DEF MemoInv
  <2>4. ASSUME NEW a \in OwnArtifacts'
        PROVE  /\ a.key[2] \in Range(Files(job.loader))
               /\ a.key[2] = "trades" => FileOf(a.key[3]) = memo'.trades
               /\ job.loader = "b3" /\ Len(items') >= 2 => a.key[2] # "trades"
               /\ job.loader = "b3" /\ Len(items') >= 1 => a.key[2] # "cadastro"
    <3>1. CASE a = row
      BY <1>5, <1>10, <1>11, <1>12, <1>13, <1>14, <1>15, <3>1
    <3>2. CASE a \in OwnArtifacts
      <4>1. /\ a.key[2] \in Range(Files(job.loader))
            /\ a.key[2] = "trades" => FileOf(a.key[3]) = memo.trades
            /\ job.loader = "b3" /\ Len(items) >= 2 => a.key[2] # "trades"
            /\ job.loader = "b3" /\ Len(items) >= 1 => a.key[2] # "cadastro"
        BY <1>9, <3>2 DEF MemoInv
      <4>2. Kind = "trades" => a.key[2] # "trades"
        <5>1. SUFFICES ASSUME Kind = "trades"
                       PROVE  a.key[2] # "trades"
          OBVIOUS
        <5>2. job.loader = "b3"
          BY <1>12, <5>1
        <5>3. Len(items) = 2
          BY <1>13, <5>1, <5>2
        <5>4. Len(items) >= 2
          BY <5>3
        <5> QED
          BY <4>1, <5>2, <5>4
      <4> QED
        BY <1>14, <1>15, <4>1, <4>2
    <3> QED
      BY <1>8, <2>4, <3>1, <3>2
  <2> QED
    BY <1>2, <2>2, <2>3, <2>4 DEF MemoInv
<1>17. ASSUME NEW a \in OwnArtifacts',
              NEW o \in Owed(job.loader, a.key[2], FileOf(a.key[3]), command.date, command.full)
       PROVE  \/ Holds(Now(session'), o)
              \/ Reading(a)' /\ \E r \in Range(todo') : Yields(job.loader, file'.kind, command.full, r, o)
  <2>1. CASE a \in OwnArtifacts
    <3>1. Holds(Now(session), o)
      BY <1>2, <1>9, <1>17, <2>1 DEF JobKept, Waits, Identities, Range
    <3> QED
      BY <1>7, <3>1, ExtendsHolds, OwedMeans
  <2>2. CASE a = row
    <3>1. o \in Owed(job.loader, Kind, f, command.date, command.full)
      BY <1>5, <1>11, <1>17, <2>2
    <3>2. \E r \in Range(todo') : Yields(job.loader, Kind, command.full, r, o)
      BY <1>1, <3>1, FetchedYields
    <3>3. Reading(a)' /\ file'.kind = Kind
      BY <1>2, <1>3, <1>5, <2>2 DEF Reading
    <3> QED
      BY <3>2, <3>3
  <2> QED
    BY <1>8, <1>17, <2>1, <2>2
<1>18. ASSUME NEW a \in OwnArtifacts', a.key[2] = "cadastro", FileOf(a.key[3]).parse = "ok", ExpectsTrades',
              NEW r \in Bonds(FileOf(a.key[3]))
       PROVE  \/ PriceKnown(Now(session'), r.ticker, AbsenceDate')
              \/ Reading(a)' /\ \E x \in Range(todo') : x.ticker = r.ticker
  <2>1. CASE a \in OwnArtifacts
    <3>1. job.loader = "b3"
      BY <1>9, <1>10, <1>18, <2>1, OtcLoader DEF MemoInv
    <3>2. Len(items) < 1
      BY <1>9, <1>14, <1>18, <2>1, <3>1 DEF MemoInv
    <3> QED
      BY <1>14, <3>2
  <2>2. CASE a = row
    <3>1. \E x \in Range(todo') : x.ticker = r.ticker
      BY <1>1, <1>5, <1>11, <1>18, <2>2, FetchPriced
    <3>2. Reading(a)'
      BY <1>2, <1>3, <1>5, <2>2 DEF Reading
    <3> QED
      BY <3>1, <3>2
  <2> QED
    BY <1>8, <1>18, <2>1, <2>2
<1>19. JobKept'
  BY <1>2, <1>17, <1>18 DEF JobKept
<1> QED
  BY <1>2, <1>16, <1>19 DEF KeptInv

LEMMA BeginJobKept == TypeInv /\ KeptInv /\ BeginJob => KeptInv'
<1> SUFFICES ASSUME TypeInv, KeptInv, BeginJob
             PROVE  KeptInv'
  OBVIOUS
<1>1. /\ job'.run = job.run + 1 /\ db' = db /\ memo' = NoMemo
      /\ \A t \in Names : session'.flushed[t] = IF t = "runs" THEN db[t] \cup {OwnRun'} ELSE db[t]
  BY BeginJobFrame
<1>2. session'.flushed["artifacts"] = db["artifacts"]
  BY <1>1, NamesKnown
<1>3. \A a \in db["artifacts"] : a.key[1] \in 1 .. job.run
  BY DEF TypeInv, CommittedInv, IsArtifact
<1>4. job.run \in Nat
  BY DEF TypeInv, ControlInv
<1>5. OwnArtifacts' = {}
  BY <1>1, <1>2, <1>3, <1>4 DEF OwnArtifacts, ArtifactsOf
<1>6. memo'.stored = {} /\ memo'.priced = {}
  BY <1>1 DEF NoMemo
<1>7. JobKept' /\ MemoInv'
  BY <1>5, <1>6 DEF JobKept, MemoInv
<1> QED
  BY <1>1, <1>7 DEF KeptInv

LEMMA CommitJobKept == TypeInv /\ KeptInv /\ CommitJob => KeptInv'
<1> SUFFICES ASSUME TypeInv, KeptInv, CommitJob
             PROVE  KeptInv'
  OBVIOUS
<1>1. /\ ~Idle /\ todo = <<>> /\ memo.waiting = {} /\ LeaveJob
      /\ \A t \in Names \ {"runs"} : db'[t] = All(session, t)
      /\ db'["runs"] = (session.flushed["runs"] \ {OwnRun}) \cup {SucceededRun}
  BY CommitJobFrame
<1>2. Idle'
  BY <1>1, LeaveJobTypes DEF TypeInv
<1>3. Extends(Now(session), db')
  BY <1>1, NowFacts, NamesKnown DEF Extends
<1>4. db'["artifacts"] = session.flushed["artifacts"]
  BY <1>1, NamesKnown DEF TypeInv, SessionInv, All
<1>5. JobKept /\ MemoInv
  BY <1>1 DEF KeptInv
<1>6. PICK run : run = SucceededRun
  OBVIOUS
<1>7. /\ run.key[1] = job.run /\ run.loader = job.loader
      /\ run.date = command.date /\ run.full = command.full
  BY <1>6 DEF SucceededRun, RunRow
<1>8. ArtifactsOf(db', run.key[1]) = OwnArtifacts
  BY <1>4, <1>7 DEF OwnArtifacts, ArtifactsOf
<1>9. ASSUME NEW a \in OwnArtifacts,
             NEW o \in Owed(job.loader, a.key[2], FileOf(a.key[3]), command.date, command.full)
      PROVE  Holds(db', o)
  <2>1. Holds(Now(session), o)
    BY <1>1, <1>5, <1>9 DEF JobKept, Waits, Identities, Range
  <2> QED
    BY <1>3, <2>1, ExtendsHolds, OwedMeans
<1>10. ASSUME NEW a \in OwnArtifacts, a.key[2] = "cadastro", FileOf(a.key[3]).parse = "ok",
              NEW r \in Bonds(FileOf(a.key[3])), NEW x \in OwnArtifacts, x.key[2] = "trades",
              OtcHasRows(FileOf(x.key[3])), command.date \notin Weekend
       PROVE  PriceKnown(db', r.ticker, OtcReportDate(FileOf(x.key[3]), command.date))
  <2>1. FileOf(x.key[3]) = memo.trades
    BY <1>5, <1>10 DEF MemoInv
  <2>2. ExpectsTrades /\ AbsenceDate = OtcReportDate(FileOf(x.key[3]), command.date)
    BY <1>10, <2>1 DEF ExpectsTrades, AbsenceDate
  <2>3. PriceKnown(Now(session), r.ticker, AbsenceDate)
    BY <1>1, <1>5, <1>10, <2>2 DEF JobKept, Range
  <2> QED
    BY <1>3, <2>2, <2>3, ExtendsHolds
<1>11. RunKept(db', run)
  BY <1>7, <1>8, <1>9, <1>10 DEF RunKept
<1>12. ASSUME NEW r \in db'["runs"], r.status = "SUCCEEDED"
       PROVE  RunKept(db', r)
  <2>1. CASE r = run
    BY <1>11, <2>1
  <2>2. CASE r # run
    <3>1. r \in db["runs"]
      BY <1>1, <1>6, <2>2 DEF TypeInv, SessionInv
    <3> QED
      BY <1>1, <1>3, <1>4, <1>12, <3>1, CommittedOn
  <2> QED
    BY <2>1, <2>2
<1> QED
  BY <1>2, <1>12 DEF KeptInv

LEMMA KeptStep == TypeInv /\ JobInv /\ KeptInv /\ [DailyNext]_allVars => KeptInv'
<1> SUFFICES ASSUME TypeInv, JobInv, KeptInv, [DailyNext]_allVars
             PROVE  KeptInv'
  OBVIOUS
<1>1. CASE CommitAndTell
  BY <1>1, CommitJobKept DEF CommitAndTell
<1>2. CASE BeginCommand \/ EndCommand
  <2>1. Idle' /\ db' = db
    BY <1>2 DEF BeginCommand, EndCommand, Idle
  <2> QED
    BY <2>1 DEF KeptInv
<1>3. CASE BeginJob
  BY <1>3, BeginJobKept
<1>4. CASE Abort \/ Kill
  <2>1. LeaveJob /\ db' = db
    BY <1>4 DEF Abort, Kill
  <2>2. Idle'
    BY <2>1, LeaveJobTypes DEF TypeInv
  <2> QED
    BY <2>1, <2>2 DEF KeptInv
<1>5. CASE SkipFile
  BY <1>5, SkipFileKept
<1>6. CASE FlushBatch
  BY <1>6, FlushBatchKept
<1>7. CASE FetchStep
  BY <1>7, FetchStepKept
<1>8. CASE RecordStep
  BY <1>8, RecordStepKept
<1>9. CASE B3Next \/ SideNext
  BY <1>7, <1>8, <1>9 DEF B3Next, SideNext, FetchStep, RecordStep
<1>10. CASE UNCHANGED allVars
  <2>1. UNCHANGED <<command, db, session, job, items, todo, file, memo>>
    BY <1>10 DEF allVars, vars
  <2> QED
    BY <2>1 DEF KeptInv, JobKept, MemoInv, OwnArtifacts, Waits, Reading, ExpectsTrades, AbsenceDate, Idle
<1> QED
  BY <1>1, <1>2, <1>3, <1>4, <1>5, <1>6, <1>9, <1>10 DEF DailyNext

LEMMA KeptAtStart == Init => KeptInv
<1> SUFFICES ASSUME Init
             PROVE  KeptInv
  OBVIOUS
<1>1. Idle /\ db["runs"] = {}
  BY NamesKnown DEF Init, NoRows, Idle
<1> QED
  BY <1>1 DEF KeptInv

LEMMA KeptImplied == TypeInv /\ KeptInv => SucceededMeansStored
<1> SUFFICES ASSUME TypeInv, KeptInv, NEW run \in db["runs"], run.status = "SUCCEEDED",
                    NEW a \in ArtifactsOf(db, run.key[1])
             PROVE  LET kind == a.key[2]
                        f    == FileOf(a.key[3])
                    IN  /\ {q.identity : q \in RevisedBy(run.loader, kind, f)} \cup
                           AddedBy(run.loader, kind, f, run.full) \subseteq {Identity(q) : q \in db["quotes"]}
                        /\ SnapshotsIn(run.loader, kind, f, run.date) \subseteq Keys(db["snapshots"])
                        /\ EventsIn(run.loader, f) \subseteq Keys(db["events"])
                        /\ kind = "cadastro" /\ f.parse = "ok" => CadastroKept(run, f)
  BY DEF SucceededMeansStored
<1>1. PICK kind, f : kind = a.key[2] /\ f = FileOf(a.key[3])
  OBVIOUS
<1>2. RunKept(db, run)
  BY DEF KeptInv
<1>3. \A o \in Owed(run.loader, kind, f, run.date, run.full) : Holds(db, o)
  BY <1>1, <1>2 DEF RunKept
<1>4. ASSUME NEW id \in {q.identity : q \in RevisedBy(run.loader, kind, f)} \cup
                        AddedBy(run.loader, kind, f, run.full)
      PROVE  id \in {Identity(q) : q \in db["quotes"]}
  <2>1. Holds(db, <<"quotes", id>>)
    BY <1>3, <1>4, OwedQuotes
  <2> QED
    BY <2>1 DEF Holds, Identities
<1>5. ASSUME NEW key \in SnapshotsIn(run.loader, kind, f, run.date)
      PROVE  key \in Keys(db["snapshots"])
  <2>1. Holds(db, <<"snapshots", key>>)
    BY <1>3, <1>5, OwedOthers
  <2> QED
    BY <2>1 DEF Holds
<1>6. ASSUME NEW key \in EventsIn(run.loader, f)
      PROVE  key \in Keys(db["events"])
  <2>1. Holds(db, <<"events", key>>)
    BY <1>3, <1>6, OwedOthers
  <2> QED
    BY <2>1 DEF Holds
<1>7. ASSUME kind = "cadastro", f.parse = "ok"
      PROVE  CadastroKept(run, f)
  <2>1. ASSUME NEW r \in Bonds(f)
        PROVE  OwnersOf(Begin(db), "SOURCE_ID", r.ticker, "b3") # {}
    <3>1. Holds(db, <<"identifiers", <<"SOURCE_ID", r.ticker, "b3">>>>)
      BY <1>3, <1>7, <2>1, OwedOthers
    <3>2. PICK i \in db["identifiers"] : i.key = <<"SOURCE_ID", r.ticker, "b3">>
      BY <3>1 DEF Holds, Keys
    <3> QED
      BY <3>2, BeginShape DEF OwnersOf, Find, TypeInv, CommittedInv
  <2>2. ASSUME NEW r \in Bonds(f), NEW x \in ArtifactsOf(db, run.key[1]), x.key[2] = "trades",
               OtcHasRows(FileOf(x.key[3])), run.date \notin Weekend
        PROVE  LET day == OtcReportDate(FileOf(x.key[3]), run.date)
               IN  \/ Revisions(db["quotes"], <<B3(r.ticker), day, "LAST">>) # {}
                   \/ <<B3(r.ticker), day>> \in Keys(db["absences"])
    <3>1. PICK day : day = OtcReportDate(FileOf(x.key[3]), run.date)
      OBVIOUS
    <3>2. PriceKnown(db, r.ticker, day)
      BY <1>1, <1>2, <1>7, <2>2, <3>1 DEF RunKept
    <3>3. \/ Revisions(db["quotes"], <<B3(r.ticker), day, "LAST">>) # {}
          \/ <<B3(r.ticker), day>> \in Keys(db["absences"])
      BY <3>2 DEF PriceKnown, Revisions, Identities
    <3> QED
      BY <3>1, <3>3
  <2> QED
    BY <2>1, <2>2 DEF CadastroKept, Bonds
<1> QED
  BY <1>1, <1>4, <1>5, <1>6, <1>7

\* A SUCCEEDED run stands for all its files: what the program keeps of them is
\* stored, for any files, batch size, repetition, failure and kill.
THEOREM KeptCorrect == Spec => []SucceededMeansStored
<1>1. DailyInit => TypeInv /\ JobInv /\ KeptInv
  BY TypesAtStart, JobAtStart, KeptAtStart DEF DailyInit
<1> QED
  BY <1>1, TypesStep, JobStep, KeptStep, KeptImplied, PTL DEF Spec

(***************************** Recorded absences *****************************)

\* Where an absence of the running transaction, not yet committed, stands.
Unpriced(a) == <<a.key[1], a.key[2], "LAST">> \notin Identities(All(session, "quotes"))

\* Quotes wait only while file 186 is read; the cadastro is the last file and all
\* quotes are flushed before it; the trades file has its artifact; an absence that
\* is not committed yet comes from the cadastro, and no last price contradicts it.
AbsenceInv ==
    /\ Idle => file.kind = "none"
    /\ job.loader = "b3" /\ file.kind # "186" => memo.waiting = {}
    /\ job.loader = "b3" /\ file.kind = "cadastro" => session.added["quotes"] = {} /\ items = <<>>
    /\ memo.trades.parse = "ok" =>
          \E t \in OwnArtifacts : t.key[2] = "trades" /\ FileOf(t.key[3]) = memo.trades
    /\ \A a \in All(session, "absences") :
          \/ a \in db["absences"]
          \/ /\ job.loader = "b3" /\ file.kind = "cadastro" /\ Unpriced(a) /\ OtcHasRows(memo.trades)

LEMMA BeginAbsences == TypeInv /\ AbsenceInv /\ BeginJob => AbsenceInv'
<1> SUFFICES ASSUME TypeInv, AbsenceInv, BeginJob
             PROVE  AbsenceInv'
  OBVIOUS
<1>1. ~Idle' /\ memo' = NoMemo /\ db' = db /\ session'.added["quotes"] = {} /\ Sound(session')
  BY BeginJobFrame, NamesKnown
<1>2. All(session', "absences") = db'["absences"]
  <2>1. session'.added["absences"] = {} /\ session'.flushed["absences"] = db["absences"]
    BY BeginJobFrame, NamesKnown
  <2> QED
    BY <1>1, <2>1 DEF All
<1>3. file'.kind = "none"
  BY DEF BeginJob, AbsenceInv
<1>4. memo'.waiting = {} /\ memo'.trades.parse = "rejected"
  BY <1>1 DEF NoMemo, NoFile
<1> QED
  BY <1>1, <1>2, <1>3, <1>4 DEF AbsenceInv

LEMMA LeaveAbsences ==
    ASSUME TypeInv, LeaveJob, session' = Begin(db'), DOMAIN db' = Names
    PROVE  AbsenceInv'
<1>1. Idle' /\ memo' = NoMemo /\ job'.loader = "none" /\ file'.kind = "none"
  BY LeaveJobTypes DEF TypeInv, LeaveJob, Idle
<1>2. All(session', "absences") = db'["absences"]
  BY BeginShape, NamesKnown
<1>3. memo'.waiting = {} /\ memo'.trades.parse = "rejected"
  BY <1>1 DEF NoMemo, NoFile
<1> QED
  BY <1>1, <1>2, <1>3 DEF AbsenceInv

\* While another file than the cadastro is read, all absences are committed.
LEMMA CommittedAbsences ==
    ASSUME AbsenceInv, ~(job.loader = "b3" /\ file.kind = "cadastro")
    PROVE  All(session, "absences") \subseteq db["absences"]
  BY DEF AbsenceInv

LEMMA FetchAbsences == TypeInv /\ JobInv /\ AbsenceInv /\ FetchStep => AbsenceInv'
<1> SUFFICES ASSUME TypeInv, JobInv, AbsenceInv, FetchStep
             PROVE  AbsenceInv'
  OBVIOUS
<1>1. PICK f \in Served : FetchOf(f)
  BY FetchStepOf
<1>2. /\ ~Idle /\ ~Idle' /\ UNCHANGED <<command, db, job>> /\ items # <<>> /\ items' = Tail(items)
      /\ memo'.waiting = {}
  BY FetchStepFrame DEF TypeInv, commandVars, Idle
<1>3. session' = StoreArtifact(session, job.run, Kind, f.sha) /\ file' = [kind |-> Kind, sha |-> f.sha]
  BY <1>1 DEF FetchOf, Fetch
<1>4. PICK row : row = [key |-> <<job.run, Kind, f.sha>>]
  OBVIOUS
<1>5. row.key[1] = job.run /\ row.key[2] = Kind /\ row.key[3] = f.sha
  BY <1>4
<1>6. /\ Grows(session, session', New("artifacts", {row})) /\ row \in session'.flushed["artifacts"]
      /\ \A t \in Names : session'.added[t] = {} /\ session'.flushed[t] = All(session', t)
  BY <1>3, <1>4, StoreArtifactStep DEF TypeInv, SessionInv
<1>7. OwnArtifacts \subseteq OwnArtifacts' /\ row \in OwnArtifacts'
  <2>1. session.flushed["artifacts"] \subseteq session'.flushed["artifacts"]
    BY <1>6, NamesKnown DEF Grows
  <2> QED
    BY <1>2, <1>5, <1>6, <2>1 DEF OwnArtifacts, ArtifactsOf
<1>8. Served \subseteq FeedFiles
  BY <1>2, ServedFacts DEF TypeInv, ControlInv, Idle
<1>9. FileOf(f.sha) = f
  BY <1>8, FileOfFacts
<1>10. IF Kind = "trades" THEN memo'.trades = f ELSE memo'.trades = memo.trades
  BY <1>1, FetchMemo
<1>11. ASSUME memo'.trades.parse = "ok"
       PROVE  \E t \in OwnArtifacts' : t.key[2] = "trades" /\ FileOf(t.key[3]) = memo'.trades
  <2>1. CASE Kind = "trades"
    BY <1>5, <1>7, <1>9, <1>10, <2>1
  <2>2. CASE Kind # "trades"
    BY <1>7, <1>10, <1>11, <2>2 DEF AbsenceInv
  <2> QED
    BY <2>1, <2>2
<1>12. job.loader = "b3" /\ Kind = "cadastro" => items' = <<>>
  <2>1. ASSUME job.loader = "b3", Kind = "cadastro"
        PROVE  items' = <<>>
    <3>1. IsRest(items, Files("b3"))
      BY <1>2, <2>1 DEF JobInv
    <3>2. Len(items) = 1
      BY <1>2, <2>1, <3>1, B3Order
    <3>3. items \in Seq(Range(Files("b3")))
      BY <3>1 DEF IsRest
    <3> QED
      BY <1>2, <3>2, <3>3
  <2> QED
    BY <2>1
<1>13. All(session', "absences") \subseteq db'["absences"]
  <2>1. All(session, "absences") \subseteq db["absences"]
    BY <1>2, CommittedAbsences DEF AbsenceInv
  <2>2. All(session', "absences") \subseteq All(session, "absences")
    BY <1>6, NamesKnown DEF Grows, New
  <2> QED
    BY <1>2, <2>1, <2>2
<1>14. file'.kind = Kind /\ session'.added["quotes"] = {}
  BY <1>3, <1>6, NamesKnown
<1> QED
  BY <1>2, <1>11, <1>12, <1>13, <1>14 DEF AbsenceInv

LEMMA FlushBatchAbsences == TypeInv /\ AbsenceInv /\ FlushBatch => AbsenceInv'
<1> SUFFICES ASSUME TypeInv, AbsenceInv, FlushBatch
             PROVE  AbsenceInv'
  OBVIOUS
<1>1. /\ ~Idle /\ UNCHANGED <<commandVars, job, items, todo, file>>
      /\ session' = FlushedBatch /\ memo' = [memo EXCEPT !.waiting = {}]
      /\ db' = db \/ (~FlushedBatch.clash /\ db' = FlushedBatch.flushed)
  BY FlushBatchFrame DEF TypeInv
<1>2. /\ Grows(session, session', New("quotes", memo.waiting))
      /\ \A t \in Names : session'.added[t] = {} /\ session'.flushed[t] = All(session', t)
  BY <1>1, FlushedBatchKeeps
<1>3. memo.waiting # {}
  BY DEF FlushBatch
<1>4. ~(job.loader = "b3" /\ file.kind = "cadastro")
  BY <1>3 DEF AbsenceInv
<1>5. memo'.waiting = {} /\ memo'.trades = memo.trades
  BY <1>1 DEF TypeInv, ControlInv
<1>6. OwnArtifacts \subseteq OwnArtifacts'
  <2>1. session.flushed["artifacts"] \subseteq session'.flushed["artifacts"]
    BY <1>2, NamesKnown DEF Grows
  <2> QED
    BY <1>1, <2>1 DEF OwnArtifacts, ArtifactsOf
<1>7. All(session', "absences") \subseteq db'["absences"]
  <2>1. All(session', "absences") \subseteq All(session, "absences")
    BY <1>2, NamesKnown DEF Grows, New
  <2>2. All(session, "absences") \subseteq db["absences"]
    BY <1>4, CommittedAbsences
  <2>3. CASE db' = db
    BY <2>1, <2>2, <2>3
  <2>4. CASE db' = session'.flushed
    BY <1>2, <2>4, NamesKnown
  <2> QED
    BY <1>1, <2>3, <2>4
<1> QED
  BY <1>1, <1>4, <1>5, <1>6, <1>7 DEF AbsenceInv, Idle

\* A bond of the cadastro.
LEMMA CreditAbsences ==
    ASSUME TypeInv, AbsenceInv, PersistCredit
    PROVE  /\ session'.added["quotes"] = {}
           /\ \A a \in All(session', "absences") :
                 \/ a \in db["absences"]
                 \/ Unpriced(a)' /\ OtcHasRows(memo.trades)
<1>1. Sound(session) /\ session.added["quotes"] = {}
  BY DEF TypeInv, SessionInv, AbsenceInv, PersistCredit, B3Persisting, Persisting
<1>2. PICK s : s = UpsertCreditInstrument(session, Record)
  OBVIOUS
<1>3. PICK id : id = <<B3(Record.ticker), AbsenceDate, "LAST">>
  OBVIOUS
<1>4. PICK N : /\ Grows(session, session', N)
               /\ \/ N = New("identifiers", CreditRows(Record))
                  \/ /\ ExpectsTrades /\ ~Priced(s)
                     /\ N = New("identifiers", CreditRows(Record)) \cup New("absences", {AbsenceRow})
  BY <1>1, <1>2, PersistCreditWrites
<1>5. \A q : <<"quotes", q>> \notin N
  BY <1>4 DEF New
<1>6. session'.added["quotes"] = {} /\ All(session', "quotes") \subseteq session.flushed["quotes"]
  BY <1>1, <1>4, <1>5, NamesKnown DEF Grows, All
<1>7. ASSUME NEW a \in All(session, "absences"), a \notin db["absences"]
      PROVE  Unpriced(a)' /\ OtcHasRows(memo.trades)
  <2>1. Unpriced(a) /\ OtcHasRows(memo.trades)
    BY <1>7 DEF AbsenceInv
  <2> QED
    BY <1>6, <2>1 DEF Unpriced, Identities, All
<1>8. ASSUME ExpectsTrades, ~Priced(s), NEW a, a = AbsenceRow
      PROVE  Unpriced(a)' /\ OtcHasRows(memo.trades)
  <2>1. session.flushed["quotes"] \subseteq s.flushed["quotes"]
    BY <1>1, <1>2, UpsertCreditInstrumentKeeps, NamesKnown DEF Grows
  <2>2. \A q \in s.flushed["quotes"] : Identity(q) # id
    BY <1>3, <1>8 DEF Priced, Revisions
  <2>3. id \notin Identities(All(session', "quotes"))
    BY <1>6, <2>1, <2>2 DEF Identities
  <2>4. <<a.key[1], a.key[2], "LAST">> = id
    BY <1>3, <1>8 DEF AbsenceRow
  <2> QED
    BY <1>8, <2>3, <2>4 DEF Unpriced, ExpectsTrades
<1>9. ASSUME NEW a \in All(session', "absences")
      PROVE  \/ a \in All(session, "absences")
             \/ ExpectsTrades /\ ~Priced(s) /\ a = AbsenceRow
  <2>1. a \in All(session, "absences") \/ <<"absences", a>> \in N
    BY <1>4, <1>9, NamesKnown DEF Grows
  <2>2. <<"absences", a>> \in New("absences", {AbsenceRow}) => a = AbsenceRow
    BY DEF New
  <2>3. <<"absences", a>> \notin New("identifiers", CreditRows(Record))
    BY DEF New
  <2> QED
    BY <1>4, <2>1, <2>2, <2>3
<1> QED
  BY <1>6, <1>7, <1>8, <1>9

LEMMA RecordAbsences == TypeInv /\ AbsenceInv /\ RecordStep => AbsenceInv'
<1> SUFFICES ASSUME TypeInv, AbsenceInv, RecordStep
             PROVE  AbsenceInv'
  OBVIOUS
<1>1. ~Idle /\ UNCHANGED <<commandVars, db, job, items, file>>
  BY RecordStepFrame DEF TypeInv
<1>2. memo'.trades = memo.trades /\ OwnArtifacts' = OwnArtifacts
  BY RecordStepWaits, RecordStepArtifacts
<1>3. ASSUME job.loader = "b3", file.kind # "186"
      PROVE  memo'.waiting = {}
  <2>1. memo'.waiting = memo.waiting
    BY <1>3 DEF RecordStep, TypeInv, ControlInv, B3Persisting, Persisting, PersistPrice, PersistSettlement,
       EnrichInstrument, PersistTrade, PersistCredit, KnowTicker, PersistLending, PersistEvent, PersistCot,
       PersistHolding, PersistFred, PersistYahoo, PersistBcb, PersistIbge, PersistObservation,
       PersistTesouro, PersistNav
  <2> QED
    BY <1>3, <2>1 DEF AbsenceInv
<1>4. CASE PersistCredit
  <2>1. job.loader = "b3" /\ file.kind = "cadastro"
    BY <1>4 DEF PersistCredit, B3Persisting, Persisting
  <2> QED
    BY <1>1, <1>2, <1>3, <1>4, <2>1, CreditAbsences DEF AbsenceInv, Idle
<1>5. CASE ~PersistCredit
  <2>1. ~(job.loader = "b3" /\ file.kind = "cadastro")
    BY <1>5 DEF RecordStep, B3Persisting, Persisting, PersistPrice, PersistSettlement,
       EnrichInstrument, PersistTrade, PersistLending, PersistEvent, PersistCot,
       PersistHolding, PersistFred, PersistYahoo, PersistBcb, PersistIbge, PersistObservation,
       PersistTesouro, PersistNav
  <2>2. PICK N : Grows(session, session', N) /\ Quiet(N)
    BY <1>5, QuietStepKeeps DEF TypeInv, SessionInv
  <2>3. All(session', "absences") \subseteq All(session, "absences")
    BY <2>2, NamesKnown DEF Grows, Quiet
  <2>4. All(session, "absences") \subseteq db["absences"]
    BY <2>1, CommittedAbsences
  <2> QED
    BY <1>1, <1>2, <1>3, <2>1, <2>3, <2>4 DEF AbsenceInv, Idle
<1> QED
  BY <1>4, <1>5

LEMMA AbsenceStep == TypeInv /\ JobInv /\ AbsenceInv /\ [DailyNext]_allVars => AbsenceInv'
<1> SUFFICES ASSUME TypeInv, JobInv, AbsenceInv, [DailyNext]_allVars
             PROVE  AbsenceInv'
  OBVIOUS
<1>1. CASE CommitAndTell
  <2>1. LeaveJob /\ session' = Begin(db') /\ DOMAIN db' = Names
    BY <1>1, CommitJobFrame DEF CommitAndTell
  <2> QED
    BY <2>1, LeaveAbsences
<1>2. CASE BeginCommand \/ EndCommand
  BY <1>2 DEF BeginCommand, EndCommand, Idle, AbsenceInv, Unpriced, OwnArtifacts
<1>3. CASE BeginJob
  BY <1>3, BeginAbsences
<1>4. CASE Abort \/ Kill
  <2>1. LeaveJob /\ db' = db /\ session' = Begin(db)
    BY <1>4 DEF Abort, Kill
  <2> QED
    BY <2>1, LeaveAbsences DEF TypeInv, CommittedInv
<1>5. CASE SkipFile
  <2>1. items # <<>> /\ UNCHANGED <<db, session, job, file, memo>> /\ ~Idle /\ ~Idle'
    BY <1>5 DEF SkipFile, CanFetch, Idle
  <2> QED
    BY <2>1 DEF AbsenceInv, Unpriced, OwnArtifacts
<1>6. CASE FlushBatch
  BY <1>6, FlushBatchAbsences
<1>7. CASE FetchStep
  BY <1>7, FetchAbsences
<1>8. CASE RecordStep
  BY <1>8, RecordAbsences
<1>9. CASE B3Next \/ SideNext
  BY <1>7, <1>8, <1>9 DEF B3Next, SideNext, FetchStep, RecordStep
<1>10. CASE UNCHANGED allVars
  <2>1. UNCHANGED <<db, session, job, items, file, memo>>
    BY <1>10 DEF allVars, vars
  <2> QED
    BY <2>1 DEF AbsenceInv, Unpriced, OwnArtifacts, Idle
<1> QED
  BY <1>1, <1>2, <1>3, <1>4, <1>5, <1>6, <1>9, <1>10 DEF DailyNext

LEMMA AbsenceAtStart == Init => AbsenceInv
<1> SUFFICES ASSUME Init
             PROVE  AbsenceInv
  OBVIOUS
<1>1. /\ job.loader = "none" /\ file.kind = "none" /\ memo.trades.parse = "rejected"
      /\ session = Begin(db) /\ DOMAIN db = Names
  BY DEF Init, NoMemo, NoFile, NoRows
<1>2. All(session, "absences") = db["absences"]
  BY <1>1, BeginShape, NamesKnown
<1> QED
  BY <1>1, <1>2 DEF AbsenceInv

\* What a commit of a run with the cadastro says of its new absences.
LEMMA CommitHonest ==
    ASSUME TypeInv, KeptInv, AbsenceInv, CommitJob, NEW a \in db'["absences"] \ db["absences"]
    PROVE  /\ Revisions(db'["quotes"], <<a.key[1], a.key[2], "LAST">>) = {}
           /\ \E t \in ArtifactsOf(db', job.run) :
                /\ t.key[2] = "trades" /\ Rows(FileOf(t.key[3])) # <<>>
                /\ \A said \in TradesSaid(FileOf(t.key[3])) :
                     said.identity # <<a.key[1], a.key[2], "LAST">>
<1>1. /\ ~Idle /\ todo = <<>> /\ memo.waiting = {}
      /\ \A t \in Names \ {"runs"} : db'[t] = All(session, t)
  BY CommitJobFrame
<1>2. PICK id : id = <<a.key[1], a.key[2], "LAST">>
  OBVIOUS
<1>3. job.loader = "b3" /\ Unpriced(a) /\ OtcHasRows(memo.trades)
  BY <1>1, NamesKnown DEF AbsenceInv
<1>4. id \notin Identities(All(session, "quotes"))
  BY <1>2, <1>3 DEF Unpriced
<1>5. Revisions(db'["quotes"], id) = {}
  BY <1>1, <1>4, NamesKnown DEF Revisions, Identities
<1>6. PICK t \in OwnArtifacts : t.key[2] = "trades" /\ FileOf(t.key[3]) = memo.trades
  BY <1>3 DEF AbsenceInv, OtcHasRows
<1>7. t \in ArtifactsOf(db', job.run)
  <2>1. session.flushed["artifacts"] \subseteq db'["artifacts"]
    BY <1>1, NamesKnown DEF All
  <2> QED
    BY <2>1 DEF OwnArtifacts, ArtifactsOf
<1>8. Rows(FileOf(t.key[3])) # <<>>
  BY <1>3, <1>6 DEF OtcHasRows
<1>9. ASSUME NEW said \in TradesSaid(FileOf(t.key[3]))
      PROVE  said.identity # id
  <2>1. said \in RevisedBy("b3", "trades", memo.trades)
    BY <1>3, <1>6, <1>9 DEF RevisedBy, OtcHasRows
  <2>2. <<"quotes", said.identity>> \in
           Owed(job.loader, t.key[2], FileOf(t.key[3]), command.date, command.full)
    BY <1>3, <1>6, <2>1, OwedQuotes
  <2>3. \/ Holds(Now(session), <<"quotes", said.identity>>) \/ Waits(<<"quotes", said.identity>>)
        \/ \E r \in Range(todo) : TRUE
    BY <1>1, <2>2 DEF KeptInv, JobKept
  <2>4. Range(todo) = {} /\ ~Waits(<<"quotes", said.identity>>)
    BY <1>1 DEF Range, Waits, Identities
  <2>5. said.identity \in Identities(All(session, "quotes"))
    BY <2>3, <2>4, NowFacts, NamesKnown DEF Holds
  <2> QED
    BY <1>4, <2>5
<1> QED
  BY <1>2, <1>5, <1>6, <1>7, <1>8, <1>9

LEMMA HonestStep ==
    ASSUME TypeInv, KeptInv, AbsenceInv, [DailyNext]_allVars, NEW a \in db'["absences"] \ db["absences"]
    PROVE  CommitJob
<1>1. CASE FlushBatch
  <2>1. memo.waiting # {} /\ (db' = db \/ db' = FlushedBatch.flushed)
    BY <1>1, FlushBatchFrame DEF TypeInv, FlushBatch
  <2>2. All(session, "absences") \subseteq db["absences"]
    BY <2>1, CommittedAbsences DEF AbsenceInv
  <2>3. FlushedBatch.flushed["absences"] \subseteq All(session, "absences")
    <3>1. /\ Grows(session, FlushedBatch, New("quotes", memo.waiting))
          /\ FlushedBatch.flushed["absences"] = All(FlushedBatch, "absences")
      BY FlushedBatchKeeps, NamesKnown
    <3>2. \A r : <<"absences", r>> \notin New("quotes", memo.waiting)
      BY DEF New
    <3>3. PICK z : z = FlushedBatch
      OBVIOUS
    <3>4. \A r \in All(z, "absences") : r \in All(session, "absences")
      BY <3>1, <3>2, <3>3, NamesKnown DEF Grows
    <3> QED
      BY <3>1, <3>3, <3>4
  <2> QED
    BY <2>1, <2>2, <2>3
<1>2. CASE BeginCommand \/ EndCommand \/ BeginJob \/ Abort \/ Kill \/ SkipFile
  BY <1>2 DEF BeginCommand, EndCommand, BeginJob, Abort, Kill, SkipFile
<1>3. CASE FetchStep
  BY <1>3, FetchStepFrame DEF TypeInv
<1>4. CASE RecordStep
  BY <1>4, RecordStepFrame DEF TypeInv
<1>5. CASE B3Next \/ SideNext
  BY <1>3, <1>4, <1>5 DEF B3Next, SideNext, FetchStep, RecordStep
<1>6. CASE UNCHANGED allVars
  BY <1>6 DEF allVars, vars
<1> QED
  BY <1>1, <1>2, <1>5, <1>6 DEF DailyNext, CommitAndTell

\* A commit that records NO_PUBLIC_PRICE leaves no last price of the bond and date, and
\* its trades file has rows and none of them a trade of the bond (_ingest_b3_day).
THEOREM AbsenceCorrect == Spec => AbsenceHonest
<1>1. DailyInit => TypeInv /\ JobInv /\ KeptInv /\ AbsenceInv
  BY TypesAtStart, JobAtStart, KeptAtStart, AbsenceAtStart DEF DailyInit
<1>2. ASSUME TypeInv, KeptInv, AbsenceInv, [DailyNext]_allVars
      PROVE  [\A a \in db'["absences"] \ db["absences"] :
                /\ Revisions(db'["quotes"], <<a.key[1], a.key[2], "LAST">>) = {}
                /\ \E t \in ArtifactsOf(db', job.run) :
                     /\ t.key[2] = "trades" /\ Rows(FileOf(t.key[3])) # <<>>
                     /\ \A said \in TradesSaid(FileOf(t.key[3])) :
                          said.identity # <<a.key[1], a.key[2], "LAST">>]_allVars
  BY <1>2, HonestStep, CommitHonest
<1> QED
  BY <1>1, <1>2, TypesStep, JobStep, KeptStep, AbsenceStep, PTL DEF Spec, AbsenceHonest

(****************** The newest revision and the newest file ******************)

\* What a record says of revised quotes.
Telling(loader, kind, r) ==
    CASE loader = "b3" /\ kind = "187" -> {Said(B3(r.ticker), r, "OFFICIAL_SETTLEMENT")}
      [] loader = "b3" /\ kind = "trades" -> {Said(B3(r.ticker), r, "LAST")}
      [] loader = "fred" -> {Said(FredInstrument(r.ticker), r, "REFERENCE")}
      [] loader = "yahoo" -> {Said(Instrument("yahoo", r.ticker), r, r.kind)}
      [] loader \in {"bcb", "ibge"} -> {Said(Instrument(loader, r.ticker), r, "VALUE")}
      [] OTHER -> {}

\* The highest revision of an identity has this value.
Shown(rows, identity, value) ==
    \E q \in Revisions(rows, identity) :
        q.value = value /\ \A o \in Revisions(rows, identity) : Revision(o) <= Revision(q)

\* A quote has its value from the file its digest names, or no file revises it.
Origin(q) ==
    \E k \in DOMAIN Feed : \E f \in Feed[k] :
        /\ f.sha = q.sha
        /\ \/ k[1] = "186" /\ Identity(q)[1][1] = "b3" /\ Identity(q)[3] = "LAST"
           \/ Identity(q)[1][1] \in {"tesouro", "cvm"}
           \/ \E l \in Loaders : /\ k[1] \in Range(Files(l)) /\ f.parse = "ok"
                                 /\ \E p \in RevisedBy(l, k[1], f) :
                                      p.identity = Identity(q) /\ p.value = q.value

OriginInv == \A q \in All(session, "quotes") \cup memo.waiting : Origin(q)

\* A file's kind is one of those fetched, and served on the command's date; only
\* the months of the CVM may be listed twice.
Fetched == {Files(job.loader)[i] : i \in 1 .. Len(Files(job.loader)) - Len(items)}

ArtifactInv ==
    \A a \in OwnArtifacts :
        /\ a.key[2] \in Fetched
        /\ \E f \in Feed[<<a.key[2], command.date>>] : f.sha = a.key[3]
        /\ job.loader # "cvm" => \A b \in OwnArtifacts : a.key[2] = b.key[2] => a = b

\* The records still to persist are of an artifact of this run, and say what its file says.
RecordInv ==
    todo # <<>> =>
        /\ \E a \in OwnArtifacts : Reading(a)
        /\ FileOf(file.sha).parse = "ok"
        /\ \A r \in Range(todo) :
              Telling(job.loader, file.kind, r) \subseteq
                  RevisedBy(job.loader, file.kind, FileOf(file.sha))

\* A quote added since the last flush is the next revision of its identity, by
\* other bytes than the newest stored one.
Fresh(s, sha) ==
    \A q \in s.added["quotes"] :
        /\ q.sha = sha /\ Revision(q) = NextRevision(s, Identity(q))
        /\ Revisions(s.flushed["quotes"], Identity(q)) # {} =>
              LatestOf(Revisions(s.flushed["quotes"], Identity(q))).sha # sha

\* What files of this run say is shown, or their record is still to come.
ShownInv ==
    \A a \in OwnArtifacts : \A p \in RevisedBy(job.loader, a.key[2], FileOf(a.key[3])) :
        \/ Shown(All(session, "quotes"), p.identity, p.value)
        \/ Reading(a) /\ \E r \in Range(todo) : p \in Telling(job.loader, file.kind, r)

Retold(identity) ==
    \E a \in OwnArtifacts : \E p \in RevisedBy(job.loader, a.key[2], FileOf(a.key[3])) :
        p.identity = identity

\* What was told before is shown, unless a file of this run says otherwise.
SessionTold ==
    \A t \in told : Retold(t.identity) \/ Shown(All(session, "quotes"), t.identity, t.value)

FreshInv ==
    /\ OriginInv
    /\ \A t \in told : Shown(db["quotes"], t.identity, t.value)
    /\ memo.waiting # {} => job.loader \in {"b3", "tesouro", "cvm"}
    /\ ~Idle => ArtifactInv /\ RecordInv
    /\ ~Idle /\ ~session.clash => Fresh(session, file.sha) /\ ShownInv /\ SessionTold

LEMMA SaidFields ==
    ASSUME NEW i, NEW r, NEW kind
    PROVE  Said(i, r, kind).identity = <<i, r.date, kind>> /\ Said(i, r, kind).value = r.value
  BY DEF Said

LEMMA TellingMeans ==
    ASSUME NEW loader, NEW kind, NEW r, NEW p
    PROVE  p \in Telling(loader, kind, r) <=>
             \/ loader = "b3" /\ kind = "187" /\ p = Said(B3(r.ticker), r, "OFFICIAL_SETTLEMENT")
             \/ loader = "b3" /\ kind = "trades" /\ p = Said(B3(r.ticker), r, "LAST")
             \/ loader = "fred" /\ p = Said(FredInstrument(r.ticker), r, "REFERENCE")
             \/ loader = "yahoo" /\ p = Said(Instrument("yahoo", r.ticker), r, r.kind)
             \/ loader \in {"bcb", "ibge"} /\ p = Said(Instrument(loader, r.ticker), r, "VALUE")
<1>1. CASE loader = "b3" /\ kind = "187"
  <2>1. Telling(loader, kind, r) = {Said(B3(r.ticker), r, "OFFICIAL_SETTLEMENT")}
    BY <1>1 DEF Telling
  <2> QED
    BY <1>1, <2>1
<1>2. CASE loader = "b3" /\ kind = "trades"
  <2>1. Telling(loader, kind, r) = {Said(B3(r.ticker), r, "LAST")}
    BY <1>2 DEF Telling
  <2> QED
    BY <1>2, <2>1
<1>3. CASE loader = "fred"
  <2>1. Telling(loader, kind, r) = {Said(FredInstrument(r.ticker), r, "REFERENCE")}
    BY <1>3 DEF Telling
  <2> QED
    BY <1>3, <2>1
<1>4. CASE loader = "yahoo"
  <2>1. Telling(loader, kind, r) = {Said(Instrument("yahoo", r.ticker), r, r.kind)}
    BY <1>4 DEF Telling
  <2> QED
    BY <1>4, <2>1
<1>5. CASE loader \in {"bcb", "ibge"}
  <2>1. Telling(loader, kind, r) = {Said(Instrument(loader, r.ticker), r, "VALUE")}
    BY <1>5 DEF Telling
  <2> QED
    BY <1>5, <2>1
<1>6. CASE loader \notin {"fred", "yahoo", "bcb", "ibge"} /\ ~(loader = "b3" /\ kind \in {"187", "trades"})
  <2>1. Telling(loader, kind, r) = {}
    BY <1>6 DEF Telling
  <2> QED
    BY <1>6, <2>1
<1> QED
  BY <1>1, <1>2, <1>3, <1>4, <1>5, <1>6

LEMMA SeriesSaid ==
    ASSUME NEW loader \in {"fred", "yahoo", "bcb", "ibge"}, NEW kind \in Range(Files(loader)), NEW f, NEW p
    PROVE  p \in RevisedBy(loader, kind, f) <=> \E r \in Range(Rows(f)) : p \in Telling(loader, kind, r)
<1>1. kind \notin {"187", "trades"}
  BY SideKinds DEF Loaders
<1>2. CASE loader = "fred"
  <2>1. RevisedBy(loader, kind, f) = {Said(FredInstrument(r.ticker), r, "REFERENCE") : r \in Range(Rows(f))}
    BY <1>1, <1>2 DEF RevisedBy
  <2>2. \A r : p \in Telling(loader, kind, r) <=> p = Said(FredInstrument(r.ticker), r, "REFERENCE")
    BY <1>2, TellingMeans
  <2> QED
    BY <2>1, <2>2
<1>3. CASE loader = "yahoo"
  <2>1. RevisedBy(loader, kind, f) = {Said(Instrument("yahoo", r.ticker), r, r.kind) : r \in Range(Rows(f))}
    BY <1>1, <1>3 DEF RevisedBy
  <2>2. \A r : p \in Telling(loader, kind, r) <=> p = Said(Instrument("yahoo", r.ticker), r, r.kind)
    BY <1>3, TellingMeans
  <2> QED
    BY <2>1, <2>2
<1>4. CASE loader \in {"bcb", "ibge"}
  <2>1. RevisedBy(loader, kind, f) = {Said(Instrument(loader, r.ticker), r, "VALUE") : r \in Range(Rows(f))}
    BY <1>1, <1>4 DEF RevisedBy
  <2>2. \A r : p \in Telling(loader, kind, r) <=> p = Said(Instrument(loader, r.ticker), r, "VALUE")
    BY <1>4, TellingMeans
  <2> QED
    BY <2>1, <2>2
<1> QED
  BY <1>2, <1>3, <1>4

LEMMA B3Said ==
    ASSUME NEW kind \in {"187", "trades"}, NEW f
    PROVE  RevisedBy("b3", kind, f) =
             IF kind = "187" THEN SettlementsSaid(f) ELSE IF f.parse = "ok" THEN TradesSaid(f) ELSE {}
<1>1. CASE kind = "187"
  BY <1>1 DEF RevisedBy
<1>2. CASE kind = "trades" /\ f.parse = "ok"
  BY <1>2 DEF RevisedBy
<1>3. CASE kind = "trades" /\ f.parse # "ok"
  BY <1>3 DEF RevisedBy
<1> QED
  BY <1>1, <1>2, <1>3

\* Only these loaders revise quotes, B3 by two of its files.
LEMMA Revisers ==
    ASSUME NEW loader \in Loaders, NEW kind \in Range(Files(loader)), NEW f,
           NEW p \in RevisedBy(loader, kind, f)
    PROVE  loader \in {"fred", "yahoo", "bcb", "ibge"} \/ (loader = "b3" /\ kind \in {"187", "trades"})
<1>1. kind \in {"187", "trades"} => loader = "b3"
  BY SideKinds, LendingKinds
<1> QED
  BY <1>1, RevisedMeans

\* Where a settlement or a trade of a file stands.
LEMMA SettlementPlace ==
    ASSUME NEW f, NEW p \in SettlementsSaid(f)
    PROVE  \E i \in DOMAIN Rows(f) :
             /\ p = Said(B3(Rows(f)[i].ticker), Rows(f)[i], "OFFICIAL_SETTLEMENT")
             /\ HasPrice(Rows(f)[i]) /\ Rows(f)[i].ticker \in Futures
             /\ \A j \in DOMAIN Rows(f) : j > i =>
                  ~(/\ HasPrice(Rows(f)[j]) /\ Rows(f)[j].ticker \in Futures
                    /\ SameRow(Rows(f)[i], Rows(f)[j]))
  BY DEF SettlementsSaid, LastPlaces

LEMMA TradePlace ==
    ASSUME NEW f, NEW p \in TradesSaid(f)
    PROVE  \E i \in TradePlaces(Rows(f)) : p = Said(B3(Rows(f)[i].ticker), Rows(f)[i], "LAST")
  BY DEF TradesSaid

LEMMA SaidIdentity ==
    ASSUME NEW loader \in Loaders, NEW k \in DOMAIN Feed, k[1] \in Range(Files(loader)),
           NEW f \in Feed[k], NEW p \in RevisedBy(loader, k[1], f)
    PROVE  /\ p.identity = <<p.identity[1], p.identity[2], p.identity[3]>>
           /\ p.identity[1][1] = loader
           /\ loader = "b3" =>
                p.identity[3] = IF k[1] = "187" THEN "OFFICIAL_SETTLEMENT" ELSE "LAST"
           /\ loader = "fred" => p.identity[1][2] = FredCode(k[1])
           /\ loader = "yahoo" => p.identity[1][2] = k[1]
           /\ loader \in {"bcb", "ibge"} => k[1] = loader
<1>1. CASE loader = "b3"
  <2>1. k[1] \in {"187", "trades"}
    BY <1>1, Revisers
  <2>2. \E t, d : p.identity = <<B3(t), d, IF k[1] = "187" THEN "OFFICIAL_SETTLEMENT" ELSE "LAST">>
    <3>1. CASE k[1] = "187"
      <4>1. p \in SettlementsSaid(f)
        BY <1>1, <3>1, RevisedMeans
      <4> QED
        BY <3>1, <4>1, SettlementPlace, SaidFields
    <3>2. CASE k[1] = "trades"
      <4>1. p \in TradesSaid(f)
        BY <1>1, <3>2, RevisedMeans
      <4> QED
        BY <3>2, <4>1, TradePlace, SaidFields
    <3> QED
      BY <2>1, <3>1, <3>2
  <2>3. PICK t, d : p.identity = <<B3(t), d, IF k[1] = "187" THEN "OFFICIAL_SETTLEMENT" ELSE "LAST">>
    BY <2>2
  <2>4. p.identity[1][1] = "b3"
    BY <2>3 DEF B3, Instrument
  <2> QED
    BY <1>1, <2>3, <2>4
<1>2. CASE loader \in {"fred", "yahoo", "bcb", "ibge"}
  <2>1. PICK r \in Range(Rows(f)) : p \in Telling(loader, k[1], r)
    BY <1>2, SeriesSaid
  <2>2. loader \in {"fred", "yahoo"} => r.ticker = k[1]
    <3>1. loader \in {"fred", "yahoo"} => k[1] \in Range(FredSeries) \cup Range(Symbols)
      BY DEF Files
    <3> QED
      BY <2>1, <3>1, SourcesAssumption DEF SourcesAssumption
  <2>3. CASE loader = "fred"
    <3>1. p.identity = <<FredInstrument(r.ticker), r.date, "REFERENCE">>
      BY <2>1, <2>3, TellingMeans, SaidFields
    <3> QED
      BY <2>2, <2>3, <3>1 DEF FredInstrument, Instrument
  <2>4. CASE loader = "yahoo"
    <3>1. p.identity = <<Instrument("yahoo", r.ticker), r.date, r.kind>>
      BY <2>1, <2>4, TellingMeans, SaidFields
    <3> QED
      BY <2>2, <2>4, <3>1 DEF Instrument
  <2>5. CASE loader \in {"bcb", "ibge"}
    <3>1. p.identity = <<Instrument(loader, r.ticker), r.date, "VALUE">>
      BY <2>1, <2>5, TellingMeans, SaidFields
    <3>2. Files(loader) = <<loader>>
      BY <2>5 DEF Files
    <3>3. k[1] = loader
      BY <3>2 DEF Range
    <3> QED
      BY <2>5, <3>1, <3>3 DEF Instrument
  <2> QED
    BY <1>2, <2>3, <2>4, <2>5
<1> QED
  BY <1>1, <1>2, Revisers

\* Two kinds of file of one loader, or two loaders, never speak of the same quote.
LEMMA KindsApart ==
    ASSUME NEW l \in Loaders, NEW k \in DOMAIN Feed, k[1] \in Range(Files(l)),
           NEW m \in Loaders, NEW n \in DOMAIN Feed, n[1] \in Range(Files(m)),
           NEW f \in Feed[k], NEW g \in Feed[n],
           NEW p \in RevisedBy(l, k[1], f), NEW q \in RevisedBy(m, n[1], g),
           p.identity = q.identity
    PROVE  l = m /\ k[1] = n[1]
<1>1. l = m
  BY SaidIdentity
<1>2. CASE l = "b3"
  <2>1. k[1] \in {"187", "trades"} /\ n[1] \in {"187", "trades"}
    BY <1>1, <1>2, Revisers
  <2>2. /\ p.identity[3] = IF k[1] = "187" THEN "OFFICIAL_SETTLEMENT" ELSE "LAST"
        /\ q.identity[3] = IF n[1] = "187" THEN "OFFICIAL_SETTLEMENT" ELSE "LAST"
    BY <1>1, <1>2, SaidIdentity
  <2> QED
    BY <1>1, <2>1, <2>2
<1>3. CASE l = "fred"
  <2>1. FredCode(k[1]) = FredCode(n[1])
    BY <1>1, <1>3, SaidIdentity
  <2>2. k[1] \in Range(FredSeries) /\ n[1] \in Range(FredSeries)
    BY <1>1, <1>3 DEF Files
  <2>3. PICK i \in DOMAIN FredSeries, j \in DOMAIN FredSeries : k[1] = FredSeries[i] /\ n[1] = FredSeries[j]
    BY <2>2 DEF Range
  <2> QED
    BY <1>1, <2>1, <2>3, SourcesAssumption DEF SourcesAssumption
<1>4. CASE l = "yahoo"
  BY <1>1, <1>4, SaidIdentity
<1>5. CASE l \in {"bcb", "ibge"}
  BY <1>1, <1>5, SaidIdentity
<1> QED
  BY <1>1, <1>2, <1>3, <1>4, <1>5, Revisers

LEMMA OneTrade ==
    ASSUME NEW rows, DOMAIN rows \subseteq Nat, NEW i \in TradePlaces(rows), NEW j \in TradePlaces(rows),
           SameRow(rows[i], rows[j])
    PROVE  i = j
<1>1. SameRow(rows[j], rows[i])
  BY DEF SameRow
<1>2. SUFFICES ASSUME i # j PROVE FALSE
  OBVIOUS
<1>3. /\ i \in DOMAIN rows /\ j \in DOMAIN rows /\ UsableTrade(rows[i]) /\ UsableTrade(rows[j])
      /\ \/ rows[i].class = "EXTRAGRUPO" /\ rows[j].class # "EXTRAGRUPO"
         \/ (rows[i].class = "EXTRAGRUPO" <=> rows[j].class = "EXTRAGRUPO") /\ i < j
      /\ \/ rows[j].class = "EXTRAGRUPO" /\ rows[i].class # "EXTRAGRUPO"
         \/ (rows[j].class = "EXTRAGRUPO" <=> rows[i].class = "EXTRAGRUPO") /\ j < i
  BY <1>1, <1>2 DEF TradePlaces
<1> QED
  BY <1>3

LEMMA OneValueAFile ==
    ASSUME OneValueADate, NEW l \in Loaders, NEW k \in DOMAIN Feed, k[1] \in Range(Files(l)),
           NEW f \in Feed[k], f.parse = "ok", NEW p \in RevisedBy(l, k[1], f), NEW q \in RevisedBy(l, k[1], f),
           p.identity = q.identity
    PROVE  p.value = q.value
<1>1. DOMAIN Rows(f) \subseteq Nat
  <2>1. Rows(f) \in Seq(Range(Rows(f)))
    BY ParsedFacts DEF IsSequence
  <2> QED
    BY <2>1
<1>2. CASE l \in {"fred", "yahoo", "bcb", "ibge"}
  BY <1>2 DEF OneValueADate
<1>3. CASE l = "b3"
  <2>1. k[1] \in {"187", "trades"}
    BY <1>3, Revisers
  <2>2. CASE k[1] = "187"
    <3>1. p \in SettlementsSaid(f) /\ q \in SettlementsSaid(f)
      BY <1>3, <2>2, RevisedMeans
    <3>2. PICK i \in DOMAIN Rows(f) :
             /\ p = Said(B3(Rows(f)[i].ticker), Rows(f)[i], "OFFICIAL_SETTLEMENT")
             /\ HasPrice(Rows(f)[i]) /\ Rows(f)[i].ticker \in Futures
             /\ \A j \in DOMAIN Rows(f) : j > i =>
                  ~(/\ HasPrice(Rows(f)[j]) /\ Rows(f)[j].ticker \in Futures
                    /\ SameRow(Rows(f)[i], Rows(f)[j]))
      BY <3>1, SettlementPlace
    <3>3. PICK j \in DOMAIN Rows(f) :
             /\ q = Said(B3(Rows(f)[j].ticker), Rows(f)[j], "OFFICIAL_SETTLEMENT")
             /\ HasPrice(Rows(f)[j]) /\ Rows(f)[j].ticker \in Futures
             /\ \A h \in DOMAIN Rows(f) : h > j =>
                  ~(/\ HasPrice(Rows(f)[h]) /\ Rows(f)[h].ticker \in Futures
                    /\ SameRow(Rows(f)[j], Rows(f)[h]))
      BY <3>1, SettlementPlace
    <3>4. SameRow(Rows(f)[i], Rows(f)[j]) /\ SameRow(Rows(f)[j], Rows(f)[i])
      BY <3>2, <3>3, SaidFields DEF SameRow, TickerDate, B3, Instrument
    <3>5. i \in Nat /\ j \in Nat
      BY <1>1
    <3>6. i = j
      BY <3>2, <3>3, <3>4, <3>5
    <3> QED
      BY <3>2, <3>3, <3>6
  <2>3. CASE k[1] = "trades"
    <3>1. p \in TradesSaid(f) /\ q \in TradesSaid(f)
      BY <1>3, <2>3, RevisedMeans
    <3>2. PICK i \in TradePlaces(Rows(f)) : p = Said(B3(Rows(f)[i].ticker), Rows(f)[i], "LAST")
      BY <3>1, TradePlace
    <3>3. PICK j \in TradePlaces(Rows(f)) : q = Said(B3(Rows(f)[j].ticker), Rows(f)[j], "LAST")
      BY <3>1, TradePlace
    <3>4. SameRow(Rows(f)[i], Rows(f)[j])
      BY <3>2, <3>3, SaidFields DEF SameRow, TickerDate, B3, Instrument
    <3>5. i = j
      BY <1>1, <3>4, OneTrade
    <3> QED
      BY <3>2, <3>3, <3>5
  <2> QED
    BY <2>1, <2>2, <2>3
<1> QED
  BY <1>2, <1>3, Revisers

\* Bytes that were read before have said the same of a quote.
LEMMA SameBytes ==
    ASSUME OneValueADate, NEW l \in Loaders, NEW k \in DOMAIN Feed, k[1] \in Range(Files(l)),
           NEW f \in Feed[k], f.parse = "ok", NEW p \in RevisedBy(l, k[1], f),
           NEW q, Origin(q), q.sha = f.sha, Identity(q) = p.identity
    PROVE  q.value = p.value
<1>1. PICK n \in DOMAIN Feed : \E g \in Feed[n] :
         /\ g.sha = q.sha
         /\ \/ n[1] = "186" /\ Identity(q)[1][1] = "b3" /\ Identity(q)[3] = "LAST"
            \/ Identity(q)[1][1] \in {"tesouro", "cvm"}
            \/ \E m \in Loaders : /\ n[1] \in Range(Files(m)) /\ g.parse = "ok"
                                  /\ \E o \in RevisedBy(m, n[1], g) :
                                       o.identity = Identity(q) /\ o.value = q.value
  BY DEF Origin
<1>2. PICK g \in Feed[n] :
         /\ g.sha = q.sha
         /\ \/ n[1] = "186" /\ Identity(q)[1][1] = "b3" /\ Identity(q)[3] = "LAST"
            \/ Identity(q)[1][1] \in {"tesouro", "cvm"}
            \/ \E m \in Loaders : /\ n[1] \in Range(Files(m)) /\ g.parse = "ok"
                                  /\ \E o \in RevisedBy(m, n[1], g) :
                                       o.identity = Identity(q) /\ o.value = q.value
  BY <1>1
<1>3. g = f
  <2>1. f \in FeedFiles /\ g \in FeedFiles
    BY DEF FeedFiles
  <2> QED
    BY <1>2, <2>1, FilesAssumption DEF FilesAssumption
<1>4. Identity(q)[1][1] = l
  BY SaidIdentity
<1>5. CASE n[1] = "186" /\ Identity(q)[1][1] = "b3" /\ Identity(q)[3] = "LAST"
  <2>1. l = "b3" /\ k[1] \in {"187", "trades"}
    BY <1>4, <1>5, Revisers
  <2>2. k[1] = "trades"
    BY <1>5, <2>1, SaidIdentity
  <2> QED
    BY <1>3, <1>5, <2>2, SourcesAssumption DEF SourcesAssumption
<1>6. CASE Identity(q)[1][1] \in {"tesouro", "cvm"}
  BY <1>4, <1>6, Revisers
<1>7. CASE \E m \in Loaders : /\ n[1] \in Range(Files(m)) /\ g.parse = "ok"
                              /\ \E o \in RevisedBy(m, n[1], g) :
                                   o.identity = Identity(q) /\ o.value = q.value
  <2>1. PICK m \in Loaders : /\ n[1] \in Range(Files(m))
                             /\ \E o \in RevisedBy(m, n[1], g) :
                                  o.identity = Identity(q) /\ o.value = q.value
    BY <1>7
  <2>2. PICK o \in RevisedBy(m, n[1], g) : o.identity = Identity(q) /\ o.value = q.value
    BY <2>1
  <2>3. m = l /\ n[1] = k[1]
    BY <2>1, <2>2, KindsApart
  <2>4. o \in RevisedBy(l, k[1], f)
    BY <1>3, <2>2, <2>3
  <2> QED
    BY <2>2, <2>4, OneValueAFile
<1> QED
  BY <1>2, <1>5, <1>6, <1>7

\* No quote among the rows N.
Unquoted(N) == \A p \in N : p[1] # "quotes"

LEMMA UnquotedGrows ==
    ASSUME NEW s, NEW s2, NEW N, Grows(s, s2, N), Unquoted(N)
    PROVE  /\ All(s2, "quotes") = All(s, "quotes")
           /\ s.flushed["quotes"] \subseteq s2.flushed["quotes"]
           /\ s2.added["quotes"] \subseteq s.added["quotes"]
<1>1. \A r : <<"quotes", r>> \notin N
  <2>1. ASSUME NEW r, <<"quotes", r>> \in N PROVE FALSE
    <3>1. PICK p \in N : p = <<"quotes", r>>
      BY <2>1
    <3> QED
      BY <3>1 DEF Unquoted
  <2> QED
    BY <2>1
<1>2. "quotes" \in Names \ {"snapshots"}
  BY NamesKnown
<1>3. /\ \A r \in All(s2, "quotes") : r \in All(s, "quotes")
      /\ \A r \in s2.added["quotes"] : r \in s.added["quotes"]
      /\ s.flushed["quotes"] \subseteq s2.flushed["quotes"]
      /\ All(s, "quotes") \subseteq All(s2, "quotes")
  BY <1>1, <1>2 DEF Grows
<1> QED
  BY <1>3

LEMMA SameKey ==
    ASSUME NEW q, NEW r, IsNumbered(q.key), IsNumbered(r.key), Identity(q) = Identity(r),
           Revision(q) = Revision(r)
    PROVE  q.key = r.key
  BY QuoteKey

LEMMA FreshGrows ==
    ASSUME NEW s, NEW s2, Sound(s), Sound(s2), NEW N, Grows(s, s2, N), Unquoted(N),
           NEW sha, Fresh(s, sha), ~s2.clash
    PROVE  Fresh(s2, sha)
<1> SUFFICES ASSUME NEW q \in s2.added["quotes"]
             PROVE  /\ q.sha = sha /\ Revision(q) = NextRevision(s2, Identity(q))
                    /\ Revisions(s2.flushed["quotes"], Identity(q)) # {} =>
                          LatestOf(Revisions(s2.flushed["quotes"], Identity(q))).sha # sha
  BY DEF Fresh
<1>1. /\ All(s2, "quotes") = All(s, "quotes")
      /\ s.flushed["quotes"] \subseteq s2.flushed["quotes"]
      /\ s2.added["quotes"] \subseteq s.added["quotes"]
  BY UnquotedGrows
<1>2. /\ q.sha = sha /\ Revision(q) = NextRevision(s, Identity(q))
      /\ Revisions(s.flushed["quotes"], Identity(q)) # {} =>
            LatestOf(Revisions(s.flushed["quotes"], Identity(q))).sha # sha
  BY <1>1 DEF Fresh
<1>3. Revisions(s2.flushed["quotes"], Identity(q)) = Revisions(s.flushed["quotes"], Identity(q))
  <2>1. Revisions(s.flushed["quotes"], Identity(q)) \subseteq Revisions(s2.flushed["quotes"], Identity(q))
    BY <1>1 DEF Revisions
  <2>2. ASSUME NEW r \in s2.flushed["quotes"], Identity(r) = Identity(q), r \notin s.flushed["quotes"]
        PROVE  FALSE
    <3>1. r \in s.added["quotes"]
      BY <1>1, <2>2 DEF All
    <3>2. Revision(r) = Revision(q)
      BY <1>2, <2>2, <3>1 DEF Fresh
    <3>3. IsNumbered(r.key) /\ IsNumbered(q.key)
      BY <2>2 DEF Sound, Numbered, All
    <3>4. r.key = q.key
      BY <2>2, <3>2, <3>3, SameKey
    <3> QED
      BY <2>2, <3>4, NamesKnown DEF Sound, KeysApart
  <2>3. Revisions(s2.flushed["quotes"], Identity(q)) \subseteq Revisions(s.flushed["quotes"], Identity(q))
    BY <2>2 DEF Revisions
  <2> QED
    BY <2>1, <2>3
<1> QED
  BY <1>2, <1>3 DEF NextRevision

LEMMA ShownOn ==
    ASSUME NEW rows, NEW more, NEW identity, NEW value,
           Revisions(more, identity) = Revisions(rows, identity), Shown(rows, identity, value)
    PROVE  Shown(more, identity, value)
  BY DEF Shown

LEMMA UpsertShown ==
    ASSUME NEW s, Sound(s), NEW i, NEW d, NEW k, NEW value, NEW sha, Fresh(s, sha), NEW s2,
           s2 = UpsertQuote(s, <<i, d, k>>, value, sha), Sound(s2), ~s2.clash,
           \A q \in s.flushed["quotes"] : Identity(q) = <<i, d, k>> /\ q.sha = sha => q.value = value
    PROVE  /\ Fresh(s2, sha)
           /\ Shown(All(s2, "quotes"), <<i, d, k>>, value)
           /\ \A id : id # <<i, d, k>> =>
                Revisions(All(s2, "quotes"), id) = Revisions(All(s, "quotes"), id)
<1> DEFINE identity == <<i, d, k>>
           stored   == Revisions(s.flushed["quotes"], identity)
<1>1. Numbered(s.flushed["quotes"]) /\ Numbered(All(s, "quotes")) /\ IsSession(s) /\ "quotes" \in Names
  BY NamesKnown DEF Sound
<1>2. stored # {} => /\ LatestOf(stored) \in stored
                     /\ \A o \in stored : Revision(o) <= Revision(LatestOf(stored))
                     /\ Revision(LatestOf(stored)) \in Nat \ {0}
  BY <1>1, LatestExists
<1>3. PICK n : n = NextRevision(s, identity)
  OBVIOUS
<1>4. n \in Nat \ {0} /\ \A o \in stored : Revision(o) < n
  <2>1. \A o \in stored : Revision(o) \in Nat
    BY <1>1, QuoteKey DEF Numbered, Revisions
  <2> QED
    BY <1>2, <1>3, <2>1 DEF NextRevision
<1>5. CASE stored # {} /\ LatestOf(stored).sha = sha
  <2>1. s2 = s
    BY <1>5 DEF UpsertQuote
  <2>2. \A q \in s.added["quotes"] : Identity(q) # identity
    BY <1>5 DEF Fresh
  <2>3. Revisions(All(s, "quotes"), identity) = stored
    BY <2>2 DEF All, Revisions
  <2>4. LatestOf(stored).value = value
    BY <1>2, <1>5 DEF Revisions
  <2>5. Shown(All(s, "quotes"), identity, value)
    BY <1>2, <1>5, <2>3, <2>4 DEF Shown
  <2> QED
    BY <2>1, <2>5
<1>6. CASE ~(stored # {} /\ LatestOf(stored).sha = sha)
  <2>1. PICK q : q = Quote(identity, n, value, sha)
    OBVIOUS
  <2>2. s2 = Add(s, "quotes", {q})
    BY <1>3, <1>6, <2>1 DEF UpsertQuote, NextRevision
  <2>3. /\ IsNumbered(q.key) /\ Identity(q) = identity /\ Revision(q) = n
        /\ q.value = value /\ q.sha = sha
    BY <1>4, <2>1, QuoteFields
  <2>4. /\ s2.flushed = s.flushed /\ s2.added["quotes"] = s.added["quotes"] \cup {q}
        /\ Keys({q}) \cap Keys(All(s, "quotes")) = {}
    <3>1. PICK R : R = {q}
      OBVIOUS
    <3>2. PICK z : z = Add(s, "quotes", R)
      OBVIOUS
    <3>3. /\ z.flushed = s.flushed /\ z.added["quotes"] = s.added["quotes"] \cup R
          /\ z.clash <=> s.clash \/ Keys(R) \cap Keys(All(s, "quotes")) # {}
      BY <1>1, <3>2, AddShape
    <3> QED
      BY <2>2, <3>1, <3>2, <3>3
  <2>5. \A o \in s.added["quotes"] : Identity(o) # identity
    <3>1. SUFFICES ASSUME NEW o \in s.added["quotes"], Identity(o) = identity PROVE FALSE
      OBVIOUS
    <3>2. Revision(o) = n /\ IsNumbered(o.key) /\ o \in All(s, "quotes")
      BY <1>1, <1>3, <3>1 DEF Fresh, Numbered, All
    <3>3. o.key = q.key
      BY <2>3, <3>1, <3>2, SameKey
    <3> QED
      BY <2>4, <3>2, <3>3 DEF Keys
  <2>6. All(s2, "quotes") = All(s, "quotes") \cup {q}
    BY <2>4 DEF All
  <2>7. \A id : id # identity => Revisions(All(s2, "quotes"), id) = Revisions(All(s, "quotes"), id)
    BY <2>3, <2>6 DEF Revisions
  <2>8. Shown(All(s2, "quotes"), identity, value)
    <3>1. \A o \in Revisions(All(s2, "quotes"), identity) : o \in stored \/ o = q
      BY <2>5, <2>6 DEF Revisions, All
    <3>2. \A o \in Revisions(All(s2, "quotes"), identity) : Revision(o) <= Revision(q)
      <4>1. \A o \in stored : Revision(o) \in Nat
        BY <1>1, QuoteKey DEF Numbered, Revisions
      <4> QED
        BY <1>4, <2>3, <3>1, <4>1
    <3>3. q \in Revisions(All(s2, "quotes"), identity)
      BY <2>3, <2>6 DEF Revisions
    <3> QED
      BY <2>3, <3>2, <3>3 DEF Shown
  <2>9. Fresh(s2, sha)
    <3>1. \A id : NextRevision(s2, id) = NextRevision(s, id)
      BY <2>4 DEF NextRevision
    <3>2. stored # {} => LatestOf(stored).sha # sha
      BY <1>6
    <3>3. SUFFICES ASSUME NEW o \in s2.added["quotes"]
                   PROVE  /\ o.sha = sha /\ Revision(o) = NextRevision(s, Identity(o))
                          /\ Revisions(s.flushed["quotes"], Identity(o)) # {} =>
                                LatestOf(Revisions(s.flushed["quotes"], Identity(o))).sha # sha
      BY <2>4, <3>1 DEF Fresh
    <3>4. CASE o \in s.added["quotes"]
      BY <3>4 DEF Fresh
    <3>5. CASE o = q
      BY <1>3, <2>3, <3>2, <3>5
    <3> QED
      BY <2>4, <3>4, <3>5
  <2> QED
    BY <2>7, <2>8, <2>9
<1> QED
  BY <1>5, <1>6

\* A record that says something of a quote upserts it, with the bytes read.
Upserts(p) ==
    \E s, N, i, d, k :
        /\ p.identity = <<i, d, k>> /\ Sound(s) /\ Grows(session, s, N) /\ Unquoted(N)
        /\ session' = UpsertQuote(s, <<i, d, k>>, p.value, file.sha)

LEMMA UnquotedRows ==
    /\ \A R : /\ Unquoted(New("identifiers", R)) /\ Unquoted(New("series", R))
              /\ Unquoted(New("snapshots", R)) /\ Unquoted(New("events", R))
              /\ Unquoted(New("absences", R)) /\ Unquoted(New("artifacts", R))
    /\ \A N, M : Unquoted(N) /\ Unquoted(M) => Unquoted(N \cup M)
  BY DEF Unquoted, New

LEMMA UpsertSaid ==
    ASSUME NEW t \in {"identifiers", "series"}, NEW R, NEW i, NEW r, NEW kind,
           Wrote(t, R, i, r.date, kind, r.value)
    PROVE  Upserts(Said(i, r, kind))
<1>1. PICK s : /\ Sound(s) /\ Grows(session, s, New(t, R))
               /\ session' = UpsertQuote(s, <<i, r.date, kind>>, r.value, file.sha)
  BY DEF Wrote
<1>2. Unquoted(New(t, R))
  BY UnquotedRows
<1>3. /\ Said(i, r, kind).identity = <<i, r.date, kind>> /\ Said(i, r, kind).value = r.value
  BY SaidFields
<1> QED
  BY <1>1, <1>2, <1>3 DEF Upserts

\* One record: upserted if it says something of a revised quote, else no quote is touched.
LEMMA RecordTells ==
    ASSUME TypeInv, RecordStep
    PROVE  \/ \E p : /\ Telling(job.loader, file.kind, Head(todo)) = {p} /\ Upserts(p)
           \/ /\ Telling(job.loader, file.kind, Head(todo)) = {}
              /\ \E N : Grows(session, session', N) /\ Unquoted(N)
<1>1. Sound(session) /\ First = Head(todo) /\ Record = Head(todo)
  BY DEF TypeInv, SessionInv, First, Record
<1>2. CASE PersistPrice
  <2>1. Telling(job.loader, file.kind, Head(todo)) = {}
    BY <1>2 DEF PersistPrice, B3Persisting, Persisting, Telling
  <2> QED
    BY <1>1, <1>2, <2>1, PersistPriceWrites, UnquotedRows
<1>3. CASE PersistSettlement
  <2>1. Telling(job.loader, file.kind, Head(todo)) =
          {Said(B3(Head(todo).ticker), Head(todo), "OFFICIAL_SETTLEMENT")}
    BY <1>3 DEF PersistSettlement, B3Persisting, Persisting, Telling
  <2>2. Upserts(Said(B3(Head(todo).ticker), Head(todo), "OFFICIAL_SETTLEMENT"))
    BY <1>1, <1>3, PersistSettlementWrites, UpsertSaid
  <2> QED
    BY <2>1, <2>2
<1>4. CASE EnrichInstrument
  <2>1. Telling(job.loader, file.kind, Head(todo)) = {}
    BY <1>4 DEF EnrichInstrument, B3Persisting, Persisting, Telling
  <2> QED
    BY <1>1, <1>4, <2>1, EnrichInstrumentWrites, UnquotedRows
<1>5. CASE PersistTrade
  <2>1. Telling(job.loader, file.kind, Head(todo)) = {Said(B3(Head(todo).ticker), Head(todo), "LAST")}
    BY <1>5 DEF PersistTrade, B3Persisting, Persisting, Telling
  <2>2. Upserts(Said(B3(Head(todo).ticker), Head(todo), "LAST"))
    BY <1>1, <1>5, PersistTradeWrites, UpsertSaid
  <2> QED
    BY <2>1, <2>2
<1>6. CASE PersistCredit
  <2>1. Telling(job.loader, file.kind, Head(todo)) = {}
    BY <1>6 DEF PersistCredit, B3Persisting, Persisting, Telling
  <2>2. Unquoted(New("identifiers", CreditRows(Record))) /\
        Unquoted(New("identifiers", CreditRows(Record)) \cup New("absences", {AbsenceRow}))
    BY UnquotedRows
  <2> QED
    BY <1>1, <1>6, <2>1, <2>2, PersistCreditWrites
<1>7. CASE PersistLending
  <2>1. Telling(job.loader, file.kind, Head(todo)) = {}
    BY <1>7 DEF PersistLending, Persisting, Telling
  <2>2. PICK s, i, j :
          /\ \/ s = session /\ i \in Resolve(session, First.ticker)
             \/ /\ Resolve(session, First.ticker) = {}
                /\ s = LendingSession(First.ticker) /\ i = LendingInstrument(First.ticker)
          /\ SnapshotOwner(s, SnapshotKey(First), i, j)
          /\ Grows(s, session', New("snapshots", {SnapshotRow(SnapshotKey(First), j, First.value)}))
    BY <1>1, <1>7, PersistLendingWrites
  <2>3. {} \subseteq New("identifiers", LendingRows(First.ticker))
    OBVIOUS
  <2>4. Grows(session, session, New("identifiers", LendingRows(First.ticker)))
    BY <2>3, GrowsItself, GrowsMore
  <2>5. Grows(session, s, New("identifiers", LendingRows(First.ticker)))
    BY <1>1, <2>2, <2>4, LendingSessionKeeps
  <2>6. Grows(session, session', New("identifiers", LendingRows(First.ticker)) \cup
                   New("snapshots", {SnapshotRow(SnapshotKey(First), j, First.value)}))
    BY <2>2, <2>5, GrowsOn
  <2>7. Unquoted(New("identifiers", LendingRows(First.ticker)) \cup
                   New("snapshots", {SnapshotRow(SnapshotKey(First), j, First.value)}))
    BY UnquotedRows
  <2> QED
    BY <2>1, <2>6, <2>7
<1>8. CASE PersistEvent
  <2>1. Telling(job.loader, file.kind, Head(todo)) = {}
    BY <1>8 DEF PersistEvent, Persisting, Telling
  <2> QED
    BY <1>1, <1>8, <2>1, PersistEventWrites, UnquotedRows
<1>9. CASE PersistCot
  <2>1. Telling(job.loader, file.kind, Head(todo)) = {}
    BY <1>9 DEF PersistCot, Persisting, Telling
  <2> QED
    BY <1>1, <1>9, <2>1, PersistCotWrites, UnquotedRows
<1>10. CASE PersistHolding
  <2>1. Telling(job.loader, file.kind, Head(todo)) = {}
    BY <1>10 DEF PersistHolding, Persisting, Telling
  <2> QED
    BY <1>1, <1>10, <2>1, PersistHoldingWrites, UnquotedRows
<1>11. CASE PersistFred
  <2>1. Telling(job.loader, file.kind, Head(todo)) =
          {Said(FredInstrument(Head(todo).ticker), Head(todo), "REFERENCE")}
    BY <1>11 DEF PersistFred, Persisting, Telling
  <2>2. Upserts(Said(FredInstrument(Head(todo).ticker), Head(todo), "REFERENCE"))
    BY <1>1, <1>11, PersistFredWrites, UpsertSaid
  <2> QED
    BY <2>1, <2>2
<1>12. CASE PersistYahoo
  <2>1. Telling(job.loader, file.kind, Head(todo)) =
          {Said(Instrument("yahoo", Head(todo).ticker), Head(todo), Head(todo).kind)}
    BY <1>12 DEF PersistYahoo, Persisting, Telling
  <2>2. Upserts(Said(Instrument("yahoo", Head(todo).ticker), Head(todo), Head(todo).kind))
    BY <1>1, <1>12, PersistYahooWrites, UpsertSaid
  <2> QED
    BY <2>1, <2>2
<1>13. ASSUME NEW source \in {"bcb", "ibge"}, PersistObservation(source)
       PROVE  \E p : /\ Telling(job.loader, file.kind, Head(todo)) = {p} /\ Upserts(p)
  <2>1. Telling(job.loader, file.kind, Head(todo)) =
          {Said(Instrument(source, Head(todo).ticker), Head(todo), "VALUE")}
    BY <1>13 DEF PersistObservation, Persisting, Telling
  <2>2. Upserts(Said(Instrument(source, Head(todo).ticker), Head(todo), "VALUE"))
    BY <1>1, <1>13, PersistObservationWrites, UpsertSaid
  <2> QED
    BY <2>1, <2>2
<1>14. CASE PersistBcb \/ PersistIbge
  BY <1>13, <1>14 DEF PersistBcb, PersistIbge
<1>15. CASE PersistTesouro
  <2>1. Telling(job.loader, file.kind, Head(todo)) = {}
    BY <1>15 DEF PersistTesouro, Persisting, Telling
  <2> QED
    BY <1>1, <1>15, <2>1, PersistTesouroWrites, UnquotedRows
<1>16. CASE PersistNav
  <2>1. Telling(job.loader, file.kind, Head(todo)) = {}
    BY <1>16 DEF PersistNav, Persisting, Telling
  <2> QED
    BY <1>1, <1>16, <2>1, PersistNavWrites, UnquotedRows
<1> QED
  BY <1>2, <1>3, <1>4, <1>5, <1>6, <1>7, <1>8, <1>9, <1>10, <1>11, <1>12, <1>14, <1>15, <1>16
     DEF RecordStep

LEMMA WaitAdds ==
    ASSUME TypeInv, NEW m, DOMAIN m = DOMAIN memo, m.stored = memo.stored, m.waiting = memo.waiting,
           NEW i, NEW d, NEW k, NEW value, NEW s, Wait(s, m, <<i, d, k>>, value),
           NEW q \in memo'.waiting, q \notin memo.waiting
    PROVE  Identity(q) = <<i, d, k>> /\ q.sha = file.sha
<1>1. /\ DOMAIN memo = {"stored", "ids", "priced", "trades", "waiting"}
      /\ KeysUnique(memo.waiting) /\ \A o \in memo.waiting : IsFirst(o)
  BY DEF TypeInv, ControlInv, SessionInv
<1>2. memo' = IF <<i, d, k>> \in m.stored THEN m
              ELSE [m EXCEPT !.stored = @ \cup {<<i, d, k>>},
                             !.waiting = @ \cup {Quote(<<i, d, k>>, 1, value, file.sha)}]
  BY DEF Wait
<1>3. \/ memo'.waiting = memo.waiting
      \/ memo'.waiting = memo.waiting \cup {Quote(<<i, d, k>>, 1, value, file.sha)}
  BY <1>1, <1>2, WaitsOnce
<1>4. q = Quote(<<i, d, k>>, 1, value, file.sha)
  BY <1>3
<1> QED
  BY <1>4, QuoteFields

\* Quotes wait of files that no file of the same identity revises by its own kind.
LEMMA NewWaits ==
    ASSUME TypeInv, RecordStep, NEW q \in memo'.waiting, q \notin memo.waiting
    PROVE  /\ q.sha = file.sha
           /\ \/ job.loader = "b3" /\ file.kind = "186" /\ Identity(q)[1][1] = "b3" /\ Identity(q)[3] = "LAST"
              \/ job.loader \in {"tesouro", "cvm"} /\ Identity(q)[1][1] \in {"tesouro", "cvm"}
<1>1. DOMAIN memo = {"stored", "ids", "priced", "trades", "waiting"}
  BY DEF TypeInv, ControlInv
<1>2. CASE PersistPrice
  <2>1. PICK m : m = KnowTicker(Record)
    OBVIOUS
  <2>2. DOMAIN m = DOMAIN memo /\ m.stored = memo.stored /\ m.waiting = memo.waiting
    BY <1>1, <2>1 DEF KnowTicker
  <2>3. Wait(Listed(Record), m, <<B3(Record.ticker), Record.date, "LAST">>, Record.value)
    BY <1>2, <2>1 DEF PersistPrice
  <2>4. Identity(q) = <<B3(Record.ticker), Record.date, "LAST">> /\ q.sha = file.sha
    BY <2>2, <2>3, WaitAdds
  <2>5. job.loader = "b3" /\ file.kind = "186"
    BY <1>2 DEF PersistPrice, B3Persisting, Persisting
  <2> QED
    BY <2>4, <2>5 DEF B3, Instrument
<1>3. CASE PersistTesouro
  <2>1. Wait(GetOrCreate(session, "tesouro", First.ticker), memo,
             <<Instrument("tesouro", First.ticker), First.date, First.kind>>, First.value)
    BY <1>3 DEF PersistTesouro
  <2>2. Identity(q) = <<Instrument("tesouro", First.ticker), First.date, First.kind>> /\ q.sha = file.sha
    BY <2>1, WaitAdds
  <2>3. job.loader = "tesouro"
    BY <1>3 DEF PersistTesouro, Persisting
  <2> QED
    BY <2>2, <2>3 DEF Instrument
<1>4. CASE PersistNav
  <2>1. PICK fund : fund = FundInstrument(First)
    OBVIOUS
  <2>2. Wait(GetOrCreateFund(session, First), memo, <<fund, First.date, "FUND_NAV">>, First.value)
    BY <1>4, <2>1 DEF PersistNav, FundInstrument, FundKey
  <2>3. Identity(q) = <<fund, First.date, "FUND_NAV">> /\ q.sha = file.sha
    BY <2>2, WaitAdds
  <2>4. job.loader = "cvm"
    BY <1>4 DEF PersistNav, Persisting
  <2> QED
    BY <2>1, <2>3, <2>4 DEF FundInstrument, Instrument
<1>5. CASE ~PersistPrice /\ ~PersistTesouro /\ ~PersistNav
  BY <1>1, <1>5 DEF RecordStep, PersistSettlement, EnrichInstrument, PersistTrade, PersistCredit,
       PersistLending, PersistEvent, PersistCot, PersistHolding, PersistFred, PersistYahoo,
       PersistBcb, PersistIbge, PersistObservation, KnowTicker
<1> QED
  BY <1>2, <1>3, <1>4, <1>5

\* The file of an artifact of the running load.
LEMMA OwnFile ==
    ASSUME TypeInv, JobInv, ~Idle, ArtifactInv, NEW a \in OwnArtifacts
    PROVE  \E k \in DOMAIN Feed : \E f \in Feed[k] :
             /\ k[1] = a.key[2] /\ k[2] = command.date
             /\ a.key[2] \in Range(Files(job.loader))
             /\ f.sha = a.key[3] /\ FileOf(a.key[3]) = f
<1>1. /\ IsRest(items, Files(job.loader)) /\ command \in Commands /\ job.loader \in Loaders
  BY DEF JobInv, TypeInv, ControlInv, Idle
<1>2. PICK key : key = a.key
  OBVIOUS
<1>3. PICK k : k = <<key[2], command.date>>
  OBVIOUS
<1>4. key[2] \in Fetched /\ \E f \in Feed[k] : f.sha = key[3]
  BY <1>2, <1>3 DEF ArtifactInv
<1>5. PICK f \in Feed[k] : f.sha = key[3]
  BY <1>4
<1>6. PICK n : n \in DOMAIN Files(job.loader) /\ key[2] = Files(job.loader)[n]
  <2>1. \A i \in 1 .. Len(Files(job.loader)) - Len(items) : i \in DOMAIN Files(job.loader)
    BY <1>1 DEF IsRest
  <2> QED
    BY <1>4, <2>1 DEF Fetched
<1>7. key[2] \in Range(Files(job.loader))
  BY <1>6 DEF Range
<1>8. k \in DOMAIN Feed
  BY <1>1, <1>3, <1>6, FilesAssumption DEF FilesAssumption
<1>9. f \in FeedFiles
  BY <1>8 DEF FeedFiles
<1>10. FileOf(key[3]) = f
  BY <1>5, <1>9, FileOfFacts
<1>11. k[1] = key[2] /\ k[2] = command.date
  BY <1>3
<1> QED
  BY <1>2, <1>5, <1>7, <1>8, <1>10, <1>11

\* The file whose records are persisted, and what the next of them says.
LEMMA BeingRead ==
    ASSUME TypeInv, JobInv, ~Idle, ArtifactInv, RecordInv, todo # <<>>
    PROVE  \E b \in OwnArtifacts : \E k \in DOMAIN Feed : \E f \in Feed[k] :
             /\ Reading(b) /\ b.key[2] = file.kind /\ b.key[3] = file.sha
             /\ k[1] = file.kind /\ file.kind \in Range(Files(job.loader))
             /\ f.sha = file.sha /\ FileOf(file.sha) = f /\ f.parse = "ok"
<1>1. PICK b \in OwnArtifacts : Reading(b)
  BY DEF RecordInv
<1>2. b.key[2] = file.kind /\ b.key[3] = file.sha
  BY <1>1 DEF Reading
<1>3. PICK k \in DOMAIN Feed : \E f \in Feed[k] :
             /\ k[1] = b.key[2] /\ k[2] = command.date
             /\ b.key[2] \in Range(Files(job.loader))
             /\ f.sha = b.key[3] /\ FileOf(b.key[3]) = f
  BY OwnFile
<1>4. PICK f \in Feed[k] :
             /\ k[1] = b.key[2] /\ b.key[2] \in Range(Files(job.loader))
             /\ f.sha = b.key[3] /\ FileOf(b.key[3]) = f
  BY <1>3
<1>5. f.parse = "ok"
  BY <1>2, <1>4 DEF RecordInv
<1> QED
  BY <1>1, <1>2, <1>4, <1>5

\* Records of file 028 say nothing of quotes; those of the other files are a sequence.
LEMMA TailTells ==
    ASSUME JobInv, todo # <<>>
    PROVE  /\ \A r \in Range(Tail(todo)) : \A p \in Telling(job.loader, file.kind, r) :
                \E s \in Range(todo) : p \in Telling(job.loader, file.kind, s)
           /\ \A p \in Telling(job.loader, file.kind, Head(todo)) :
                \E s \in Range(todo) : p \in Telling(job.loader, file.kind, s)
           /\ \A r \in Range(todo) : \A p \in Telling(job.loader, file.kind, r) :
                \/ p \in Telling(job.loader, file.kind, Head(todo))
                \/ \E s \in Range(Tail(todo)) : p \in Telling(job.loader, file.kind, s)
<1>1. CASE job.loader = "b3" /\ file.kind = "028"
  <2>1. \A r : Telling(job.loader, file.kind, r) = {}
    BY <1>1 DEF Telling
  <2> QED
    BY <2>1
<1>2. CASE ~(job.loader = "b3" /\ file.kind = "028")
  <2>1. Range(todo) = {Head(todo)} \cup Range(Tail(todo))
    BY <1>2, TailFacts DEF JobInv
  <2> QED
    BY <2>1
<1> QED
  BY <1>1, <1>2

LEMMA HeadSays ==
    ASSUME JobInv, RecordInv, todo # <<>>, NEW p \in Telling(job.loader, file.kind, Head(todo))
    PROVE  p \in RevisedBy(job.loader, file.kind, FileOf(file.sha))
  BY TailTells DEF RecordInv

LEMMA UpsertedFrom ==
    ASSUME NEW p, Upserts(p), NEW q \in All(session', "quotes"), q \notin All(session, "quotes")
    PROVE  Identity(q) = p.identity /\ q.value = p.value /\ q.sha = file.sha
<1>1. PICK s, N, i, d, k :
        /\ p.identity = <<i, d, k>> /\ Sound(s) /\ Grows(session, s, N) /\ Unquoted(N)
        /\ session' = UpsertQuote(s, <<i, d, k>>, p.value, file.sha)
  BY DEF Upserts
<1>2. All(s, "quotes") = All(session, "quotes")
  BY <1>1, UnquotedGrows
<1>3. PICK n : n = NextRevision(s, <<i, d, k>>)
  OBVIOUS
<1>4. PICK v : v = p.value
  OBVIOUS
<1>5. PICK z : z = UpsertQuote(s, <<i, d, k>>, v, file.sha)
  OBVIOUS
<1>6. n \in Nat \ {0} /\ Grows(s, z, New("quotes", {Quote(<<i, d, k>>, n, v, file.sha)}))
  BY <1>1, <1>3, <1>5, UpsertQuoteKeeps
<1>7. q \in All(z, "quotes")
  BY <1>1, <1>4, <1>5
<1>8. <<"quotes", q>> \in New("quotes", {Quote(<<i, d, k>>, n, v, file.sha)})
  BY <1>2, <1>6, <1>7, NamesKnown DEF Grows
<1>9. q = Quote(<<i, d, k>>, n, v, file.sha)
  BY <1>8 DEF New
<1> QED
  BY <1>1, <1>4, <1>6, <1>9, QuoteFields

LEMMA RecordOrigin ==
    ASSUME TypeInv, JobInv, FreshInv, RecordStep
    PROVE  OriginInv' /\ (memo'.waiting # {} => job.loader \in {"b3", "tesouro", "cvm"})
<1>1. todo # <<>> /\ ~Idle /\ ArtifactInv /\ RecordInv /\ OriginInv /\ job.loader \in Loaders
  BY RecordStepTodo, RecordStepFrame DEF FreshInv, TypeInv, ControlInv, Idle
<1>2. PICK k \in DOMAIN Feed : \E f \in Feed[k] :
         /\ k[1] = file.kind /\ file.kind \in Range(Files(job.loader))
         /\ f.sha = file.sha /\ FileOf(file.sha) = f /\ f.parse = "ok"
  BY <1>1, BeingRead
<1>3. PICK f \in Feed[k] :
         /\ k[1] = file.kind /\ file.kind \in Range(Files(job.loader))
         /\ f.sha = file.sha /\ FileOf(file.sha) = f /\ f.parse = "ok"
  BY <1>2
<1>4. ASSUME NEW q \in All(session', "quotes"), q \notin All(session, "quotes")
      PROVE  Origin(q)
  <2>1. PICK p : Telling(job.loader, file.kind, Head(todo)) = {p} /\ Upserts(p)
    BY <1>4, RecordTells, UnquotedGrows
  <2>2. Identity(q) = p.identity /\ q.value = p.value /\ q.sha = file.sha
    BY <1>4, <2>1, UpsertedFrom
  <2>3. p \in RevisedBy(job.loader, k[1], f)
    BY <1>1, <1>3, <2>1, HeadSays
  <2> QED
    BY <1>1, <1>3, <2>2, <2>3 DEF Origin
<1>5. ASSUME NEW q \in memo'.waiting, q \notin memo.waiting
      PROVE  Origin(q)
  BY <1>3, <1>5, NewWaits DEF Origin
<1>6. OriginInv'
  <2>1. \A q : Origin(q)' <=> Origin(q)
    BY DEF Origin
  <2> QED
    BY <1>1, <1>4, <1>5, <2>1 DEF OriginInv
<1>7. memo'.waiting # {} => job.loader \in {"b3", "tesouro", "cvm"}
  BY NewWaits DEF FreshInv
<1> QED
  BY <1>6, <1>7

\* What an upserted record leaves on show.
LEMMA UpsertsShown ==
    ASSUME OneValueADate, TypeInv, JobInv, FreshInv, RecordStep, Sound(session'), ~session'.clash,
           NEW p, Telling(job.loader, file.kind, Head(todo)) = {p}, Upserts(p)
    PROVE  /\ ~session.clash /\ Fresh(session', file.sha)
           /\ Shown(All(session', "quotes"), p.identity, p.value)
           /\ \A id : id # p.identity =>
                Revisions(All(session', "quotes"), id) = Revisions(All(session, "quotes"), id)
<1>1. todo # <<>> /\ ~Idle /\ ArtifactInv /\ RecordInv /\ OriginInv /\ job.loader \in Loaders
  BY RecordStepTodo, RecordStepFrame DEF FreshInv, TypeInv, ControlInv, Idle
<1>2. PICK k \in DOMAIN Feed : \E f \in Feed[k] :
         /\ k[1] = file.kind /\ file.kind \in Range(Files(job.loader))
         /\ f.sha = file.sha /\ FileOf(file.sha) = f /\ f.parse = "ok"
  BY <1>1, BeingRead
<1>3. PICK f \in Feed[k] :
         /\ k[1] = file.kind /\ file.kind \in Range(Files(job.loader))
         /\ f.sha = file.sha /\ FileOf(file.sha) = f /\ f.parse = "ok"
  BY <1>2
<1>4. p \in RevisedBy(job.loader, k[1], f)
  BY <1>1, <1>3, HeadSays
<1>5. PICK s, N, i, d, kind :
        /\ p.identity = <<i, d, kind>> /\ Sound(s) /\ Grows(session, s, N) /\ Unquoted(N)
        /\ session' = UpsertQuote(s, <<i, d, kind>>, p.value, file.sha)
  BY DEF Upserts
<1>6. All(s, "quotes") = All(session, "quotes")
  BY <1>5, UnquotedGrows
<1>7. ~s.clash /\ ~session.clash
  <2>1. PICK v : v = p.value
    OBVIOUS
  <2>2. PICK z : z = UpsertQuote(s, <<i, d, kind>>, v, file.sha)
    OBVIOUS
  <2>3. Grows(s, z, New("quotes", {Quote(<<i, d, kind>>, NextRevision(s, <<i, d, kind>>), v, file.sha)}))
    BY <1>5, <2>2, UpsertQuoteKeeps
  <2>4. ~z.clash
    BY <1>5, <2>1, <2>2
  <2> QED
    BY <1>5, <2>3, <2>4 DEF Grows
<1>8. Fresh(session, file.sha)
  BY <1>1, <1>7 DEF FreshInv
<1>9. Sound(session)
  BY DEF TypeInv, SessionInv
<1>10. Fresh(s, file.sha)
  BY <1>5, <1>7, <1>8, <1>9, FreshGrows
<1>11. \A q \in s.flushed["quotes"] : Identity(q) = <<i, d, kind>> /\ q.sha = file.sha => q.value = p.value
  <2>1. SUFFICES ASSUME NEW q \in s.flushed["quotes"], Identity(q) = <<i, d, kind>>, q.sha = file.sha
                 PROVE  q.value = p.value
    OBVIOUS
  <2>2. q \in All(session, "quotes")
    BY <1>6 DEF All
  <2>3. Origin(q)
    BY <1>1, <2>2 DEF OriginInv
  <2> QED
    BY <1>1, <1>3, <1>4, <1>5, <2>1, <2>3, SameBytes
<1>12. PICK v : v = p.value
  OBVIOUS
<1>13. PICK sha : sha = file.sha
  OBVIOUS
<1>14. PICK z : z = session'
  OBVIOUS
<1>15. /\ Fresh(z, sha) /\ Shown(All(z, "quotes"), <<i, d, kind>>, v)
       /\ \A id : id # <<i, d, kind>> =>
            Revisions(All(z, "quotes"), id) = Revisions(All(s, "quotes"), id)
  <2>1. /\ Sound(s) /\ Fresh(s, sha) /\ z = UpsertQuote(s, <<i, d, kind>>, v, sha) /\ Sound(z) /\ ~z.clash
        /\ \A q \in s.flushed["quotes"] : Identity(q) = <<i, d, kind>> /\ q.sha = sha => q.value = v
    BY <1>5, <1>10, <1>11, <1>12, <1>13, <1>14
  <2> QED
    BY <2>1, UpsertShown
<1> QED
  BY <1>5, <1>6, <1>7, <1>12, <1>13, <1>14, <1>15

\* A file of this run that speaks of the quote of a record being persisted is the
\* file that record is of.
LEMMA OneArtifact ==
    ASSUME OneValueADate, TypeInv, JobInv, ~Idle, ArtifactInv, RecordInv, todo # <<>>,
           NEW p \in Telling(job.loader, file.kind, Head(todo)),
           NEW a \in OwnArtifacts, NEW o \in RevisedBy(job.loader, a.key[2], FileOf(a.key[3])),
           o.identity = p.identity
    PROVE  o.value = p.value
<1>1. job.loader \in Loaders
  BY DEF TypeInv, ControlInv, Idle
<1>2. PICK b \in OwnArtifacts : \E k \in DOMAIN Feed : \E f \in Feed[k] :
         /\ Reading(b) /\ b.key[2] = file.kind /\ b.key[3] = file.sha
         /\ k[1] = file.kind /\ file.kind \in Range(Files(job.loader))
         /\ f.sha = file.sha /\ FileOf(file.sha) = f /\ f.parse = "ok"
  BY BeingRead
<1>3. PICK k \in DOMAIN Feed : \E f \in Feed[k] :
         /\ Reading(b) /\ b.key[2] = file.kind /\ b.key[3] = file.sha
         /\ k[1] = file.kind /\ file.kind \in Range(Files(job.loader))
         /\ f.sha = file.sha /\ FileOf(file.sha) = f /\ f.parse = "ok"
  BY <1>2
<1>4. PICK f \in Feed[k] :
         /\ Reading(b) /\ b.key[2] = file.kind /\ b.key[3] = file.sha
         /\ k[1] = file.kind /\ file.kind \in Range(Files(job.loader))
         /\ f.sha = file.sha /\ FileOf(file.sha) = f /\ f.parse = "ok"
  BY <1>3
<1>5. p \in RevisedBy(job.loader, k[1], f)
  BY <1>4, HeadSays
<1>6. PICK n \in DOMAIN Feed : \E g \in Feed[n] :
         n[1] = a.key[2] /\ a.key[2] \in Range(Files(job.loader)) /\ FileOf(a.key[3]) = g
  BY OwnFile
<1>7. PICK g \in Feed[n] : n[1] = a.key[2] /\ a.key[2] \in Range(Files(job.loader)) /\ FileOf(a.key[3]) = g
  BY <1>6
<1>8. o \in RevisedBy(job.loader, n[1], g)
  BY <1>7
<1>9. a.key[2] = b.key[2]
  BY <1>1, <1>4, <1>5, <1>7, <1>8, KindsApart
<1>10. a = b
  <2>1. job.loader # "cvm"
    BY <1>1, <1>4, <1>5, Revisers
  <2> QED
    BY <1>9, <2>1 DEF ArtifactInv
<1>11. o \in RevisedBy(job.loader, k[1], f)
  BY <1>4, <1>10
<1> QED
  BY <1>1, <1>4, <1>5, <1>11, OneValueAFile

LEMMA RecordShown ==
    ASSUME OneValueADate, TypeInv, JobInv, FreshInv, RecordStep, ~session'.clash, told' = told
    PROVE  Fresh(session', file.sha) /\ ShownInv' /\ SessionTold'
<1>1. todo # <<>> /\ ~Idle /\ ArtifactInv /\ RecordInv /\ todo' = Tail(todo)
  BY RecordStepTodo, RecordStepFrame DEF FreshInv, TypeInv
<1>2. UNCHANGED <<job, file>> /\ OwnArtifacts' = OwnArtifacts
  BY RecordStepFrame, RecordStepArtifacts DEF TypeInv
<1>3. Sound(session) /\ Sound(session')
  BY RecordStepKeeps DEF TypeInv, SessionInv
<1>4. \A a : Reading(a)' <=> Reading(a)
  BY <1>2 DEF Reading
<1>5. \A id : Retold(id)' <=> Retold(id)
  BY <1>2 DEF Retold
<1>6. SUFFICES
        /\ Fresh(session', file.sha)
        /\ \A a \in OwnArtifacts : \A p \in RevisedBy(job.loader, a.key[2], FileOf(a.key[3])) :
              \/ Shown(All(session', "quotes"), p.identity, p.value)
              \/ Reading(a) /\ \E r \in Range(todo') : p \in Telling(job.loader, file.kind, r)
        /\ \A t \in told : Retold(t.identity) \/ Shown(All(session', "quotes"), t.identity, t.value)
  BY <1>2, <1>4, <1>5 DEF ShownInv, SessionTold
<1>7. CASE Telling(job.loader, file.kind, Head(todo)) = {} /\ \E N : Grows(session, session', N) /\ Unquoted(N)
  <2>1. PICK N : Grows(session, session', N) /\ Unquoted(N)
    BY <1>7
  <2>2. All(session', "quotes") = All(session, "quotes")
    BY <2>1, UnquotedGrows
  <2>3. ~session.clash
    BY <2>1 DEF Grows
  <2>4. Fresh(session, file.sha) /\ ShownInv /\ SessionTold
    BY <1>1, <2>3 DEF FreshInv
  <2>5. Fresh(session', file.sha)
    BY <1>3, <2>1, <2>4, FreshGrows
  <2>6. ASSUME NEW a \in OwnArtifacts, NEW p \in RevisedBy(job.loader, a.key[2], FileOf(a.key[3]))
        PROVE  \/ Shown(All(session', "quotes"), p.identity, p.value)
               \/ Reading(a) /\ \E r \in Range(todo') : p \in Telling(job.loader, file.kind, r)
    BY <1>1, <1>7, <2>2, <2>4, TailTells DEF ShownInv
  <2>7. \A t \in told : Retold(t.identity) \/ Shown(All(session', "quotes"), t.identity, t.value)
    BY <2>2, <2>4 DEF SessionTold
  <2> QED
    BY <2>5, <2>6, <2>7
<1>8. CASE \E p : Telling(job.loader, file.kind, Head(todo)) = {p} /\ Upserts(p)
  <2>1. PICK p : Telling(job.loader, file.kind, Head(todo)) = {p} /\ Upserts(p)
    BY <1>8
  <2>2. /\ ~session.clash /\ Fresh(session', file.sha)
        /\ Shown(All(session', "quotes"), p.identity, p.value)
        /\ \A id : id # p.identity =>
             Revisions(All(session', "quotes"), id) = Revisions(All(session, "quotes"), id)
    BY <1>3, <2>1, UpsertsShown
  <2>3. ShownInv /\ SessionTold
    BY <1>1, <2>2 DEF FreshInv
  <2>4. ASSUME NEW a \in OwnArtifacts, NEW o \in RevisedBy(job.loader, a.key[2], FileOf(a.key[3]))
        PROVE  \/ Shown(All(session', "quotes"), o.identity, o.value)
               \/ Reading(a) /\ \E r \in Range(todo') : o \in Telling(job.loader, file.kind, r)
    <3>1. CASE o.identity = p.identity
      <4>1. o.value = p.value
        BY <1>1, <2>1, <3>1, OneArtifact
      <4> QED
        BY <2>2, <3>1, <4>1
    <3>2. CASE o.identity # p.identity
      <4>1. CASE Shown(All(session, "quotes"), o.identity, o.value)
        BY <2>2, <3>2, <4>1, ShownOn
      <4>2. CASE Reading(a) /\ \E r \in Range(todo) : o \in Telling(job.loader, file.kind, r)
        <5>1. PICK r \in Range(todo) : o \in Telling(job.loader, file.kind, r)
          BY <4>2
        <5>2. o \notin Telling(job.loader, file.kind, Head(todo))
          BY <2>1, <3>2
        <5>3. \E s \in Range(Tail(todo)) : o \in Telling(job.loader, file.kind, s)
          BY <1>1, <5>1, <5>2, TailTells
        <5> QED
          BY <1>1, <4>2, <5>3
      <4> QED
        BY <2>3, <4>1, <4>2 DEF ShownInv
    <3> QED
      BY <3>1, <3>2
  <2>5. ASSUME NEW t \in told
        PROVE  Retold(t.identity) \/ Shown(All(session', "quotes"), t.identity, t.value)
    <3>1. CASE t.identity = p.identity
      <4>1. PICK b \in OwnArtifacts : b.key[2] = file.kind /\ b.key[3] = file.sha
        BY <1>1, BeingRead
      <4>2. p \in RevisedBy(job.loader, b.key[2], FileOf(b.key[3]))
        BY <1>1, <2>1, <4>1, HeadSays
      <4> QED
        BY <3>1, <4>2 DEF Retold
    <3>2. CASE t.identity # p.identity
      BY <2>2, <2>3, <3>2, ShownOn DEF SessionTold
    <3> QED
      BY <3>1, <3>2
  <2> QED
    BY <2>2, <2>4, <2>5
<1> QED
  BY <1>7, <1>8, RecordTells

LEMMA RecordStepFresh ==
    ASSUME OneValueADate, TypeInv, JobInv, FreshInv, RecordStep, told' = told
    PROVE  FreshInv'
<1>1. /\ todo # <<>> /\ ~Idle /\ ArtifactInv /\ RecordInv /\ todo' = Tail(todo)
      /\ UNCHANGED <<command, db, job, items, file>>
  BY RecordStepTodo, RecordStepFrame DEF FreshInv, TypeInv, commandVars
<1>2. OwnArtifacts' = OwnArtifacts
  BY RecordStepArtifacts
<1>3. \A a : Reading(a)' <=> Reading(a)
  BY <1>1 DEF Reading
<1>4. ArtifactInv'
  <2>1. Fetched' = Fetched
    BY <1>1 DEF Fetched
  <2> QED
    BY <1>1, <1>2, <2>1 DEF ArtifactInv
<1>5. RecordInv'
  <2>1. ASSUME NEW r \in Range(Tail(todo))
        PROVE  Telling(job.loader, file.kind, r) \subseteq
                  RevisedBy(job.loader, file.kind, FileOf(file.sha))
    BY <1>1, TailTells DEF RecordInv
  <2> QED
    BY <1>1, <1>2, <1>3, <2>1 DEF RecordInv
<1>6. ~session'.clash => Fresh(session', file.sha) /\ ShownInv' /\ SessionTold'
  BY RecordShown
<1>7. \A t \in told' : Shown(db'["quotes"], t.identity, t.value)
  BY <1>1 DEF FreshInv
<1>8. Fresh(session, file.sha)' <=> Fresh(session', file.sha)
  BY <1>1 DEF Fresh, NextRevision
<1>9. OriginInv' /\ (memo'.waiting # {} => job'.loader \in {"b3", "tesouro", "cvm"})
  BY <1>1, RecordOrigin
<1> QED
  BY <1>4, <1>5, <1>6, <1>7, <1>8, <1>9 DEF FreshInv

LEMMA KindsDistinct ==
    ASSUME NEW l \in Loaders, l # "cvm"
    PROVE  \A i, j \in DOMAIN Files(l) : Files(l)[i] = Files(l)[j] => i = j
<1>1. CASE l = "b3"
  <2>1. Files(l) = <<"186", "187", "028", "trades", "cadastro">>
    BY <1>1 DEF Files
  <2>2. PICK F : F = <<"186", "187", "028", "trades", "cadastro">>
    OBVIOUS
  <2>3. /\ DOMAIN F = 1 .. 5 /\ F[1] = "186" /\ F[2] = "187" /\ F[3] = "028"
        /\ F[4] = "trades" /\ F[5] = "cadastro"
    BY <2>2
  <2>4. \A i \in 1 .. 5 : i = 1 \/ i = 2 \/ i = 3 \/ i = 4 \/ i = 5
    OBVIOUS
  <2>5. \A i, j \in 1 .. 5 : F[i] = F[j] => i = j
    BY <2>3, <2>4
  <2> QED
    BY <2>1, <2>2, <2>3, <2>5
<1>2. CASE l = "b3-lending"
  <2>1. Files(l) = <<"registered", "open">>
    BY <1>2 DEF Files
  <2> QED
    BY <2>1
<1>3. CASE l = "fred"
  <2>1. Files(l) = FredSeries
    BY <1>3 DEF Files
  <2> QED
    BY <2>1, SourcesAssumption DEF SourcesAssumption
<1>4. CASE l = "yahoo"
  <2>1. Files(l) = Symbols
    BY <1>4 DEF Files
  <2> QED
    BY <2>1, SourcesAssumption DEF SourcesAssumption
<1>5. CASE l \notin {"b3", "b3-lending", "fred", "yahoo"}
  <2>1. Files(l) = <<l>>
    BY <1>5 DEF Files
  <2> QED
    BY <2>1
<1> QED
  BY <1>1, <1>2, <1>3, <1>4, <1>5

\* A file read or skipped is one of those behind.
LEMMA FetchedMore ==
    ASSUME TypeInv, JobInv, ~Idle, items # <<>>, items' = Tail(items), job' = job
    PROVE  Fetched \subseteq Fetched' /\ Kind \in Fetched' /\ (job.loader # "cvm" => Kind \notin Fetched)
<1>1. PICK F : F = Files(job.loader)
  OBVIOUS
<1>2. IsRest(items, F)
  BY <1>1 DEF JobInv
<1>3. /\ Len(Tail(items)) = Len(items) - 1 /\ Len(items) \in 1 .. Len(F)
      /\ Head(items) = F[Len(F) - Len(items) + 1]
      /\ Len(F) - Len(items) + 1 \in DOMAIN F /\ F \in Seq(Range(F))
  BY <1>2, TailIsRest DEF IsRest
<1>4. PICK n : n = Len(F) - Len(items)
  OBVIOUS
<1>5. n \in Nat /\ Len(F) - Len(Tail(items)) = n + 1 /\ Kind = F[n + 1] /\ n + 1 \in DOMAIN F
  <2>1. PICK len : len = Len(F)
    OBVIOUS
  <2>2. PICK left : left = Len(items)
    OBVIOUS
  <2>3. PICK less : less = Len(Tail(items))
    OBVIOUS
  <2>4. len \in Nat /\ left \in 1 .. len /\ less = left - 1 /\ n = len - left
    BY <1>3, <1>4, <2>1, <2>2, <2>3
  <2>5. n \in Nat /\ len - less = n + 1 /\ len - left + 1 = n + 1
    BY <2>4
  <2>6. Kind = F[len - left + 1] /\ len - left + 1 \in DOMAIN F
    BY <1>3, <2>1, <2>2 DEF Kind
  <2> QED
    BY <2>1, <2>3, <2>5, <2>6
<1>6. Fetched = {F[i] : i \in 1 .. n} /\ Fetched' = {F[i] : i \in 1 .. n + 1}
  <2>1. Fetched = {F[i] : i \in 1 .. n}
    BY <1>1, <1>4 DEF Fetched
  <2>2. Fetched' = {F[i] : i \in 1 .. Len(F) - Len(Tail(items))}
    BY <1>1 DEF Fetched
  <2> QED
    BY <1>5, <2>1, <2>2
<1>7. Fetched \subseteq Fetched' /\ Kind \in Fetched'
  <2>1. n + 1 \in 1 .. n + 1 /\ \A i \in 1 .. n : i \in 1 .. n + 1
    BY <1>5
  <2> QED
    BY <1>5, <1>6, <2>1
<1>8. ASSUME job.loader # "cvm", Kind \in Fetched PROVE FALSE
  <2>1. PICK i \in 1 .. n : Kind = F[i]
    BY <1>6, <1>8
  <2>2. i \in DOMAIN F
    <3>1. DOMAIN F = 1 .. Len(F) /\ Len(F) \in Nat
      BY <1>3
    <3>2. PICK len : len = Len(F)
      OBVIOUS
    <3>3. len \in Nat /\ n + 1 \in 1 .. len
      BY <1>5, <3>1, <3>2
    <3>4. i \in 1 .. len
      BY <1>5, <2>1, <3>3
    <3> QED
      BY <3>1, <3>2, <3>4
  <2>3. job.loader \in Loaders
    BY DEF TypeInv, ControlInv, Idle
  <2>4. i = n + 1
    BY <1>1, <1>5, <1>8, <2>1, <2>2, <2>3, KindsDistinct
  <2> QED
    BY <1>5, <2>4
<1> QED
  BY <1>7, <1>8

\* What the records of a fetched file say of revised quotes is what the file says.
LEMMA FetchedTells ==
    ASSUME TypeInv, JobInv, NEW f \in Served, FetchOf(f), NEW l, l = job.loader, NEW k, k = Kind
    PROVE  /\ todo' # <<>> => f.parse = "ok"
           /\ \A r \in Range(todo') : Telling(l, k, r) \subseteq RevisedBy(l, k, f)
           /\ \A p \in RevisedBy(l, k, f) : \E r \in Range(todo') : p \in Telling(l, k, r)
<1>1. /\ ~Idle /\ items # <<>> /\ l \in Loaders
      /\ f.parse = "ok" \/ (f.parse = "rejected" /\ k \in Rejectable) \/ k = "028"
  BY DEF FetchOf, Fetch, CanFetch, MasterUnread, Idle, TypeInv, ControlInv
<1>2. /\ k \in Range(Files(l)) /\ <<k, command.date>> \in DOMAIN Feed
      /\ f \in Feed[<<k, command.date>>]
  BY <1>1, ServedFacts DEF Served
<1>3. todo' # <<>> => f.parse = "ok"
  BY DEF FetchOf, Parsed
<1>4. CASE l = "b3" /\ k \in {"187", "trades"} /\ f.parse = "ok"
  <2>1. todo' = B3Records(f)
    BY <1>4 DEF FetchOf, MasterUnread, Parsed
  <2>2. (k = "187" => SettlementsAgree(f)) /\ (k = "trades" => TradesAgree(f))
    <3>1. PICK p : p = <<k, command.date>>
      OBVIOUS
    <3>2. p[1] = k /\ p \in DOMAIN Feed /\ f \in Feed[p]
      BY <1>2, <3>1
    <3> QED
      BY <1>4, <3>2, ParsedFacts
  <2>3. CASE k = "187"
    <3>1. todo' = SettlementReport(f)
      BY <2>1, <2>3 DEF B3Records
    <3>2. {Said(B3(r.ticker), r, "OFFICIAL_SETTLEMENT") : r \in Range(todo')} = RevisedBy(l, k, f)
      BY <1>4, <2>2, <2>3, <3>1, B3Said DEF SettlementsAgree
    <3>3. \A r, p : p \in Telling(l, k, r) <=> p = Said(B3(r.ticker), r, "OFFICIAL_SETTLEMENT")
      BY <1>4, <2>3, TellingMeans
    <3> QED
      BY <1>3, <3>2, <3>3
  <2>4. CASE k = "trades"
    <3>1. todo' = OtcTrades(f)
      BY <2>1, <2>4 DEF B3Records
    <3>2. {Said(B3(r.ticker), r, "LAST") : r \in Range(todo')} = RevisedBy(l, k, f)
      BY <1>4, <2>2, <2>4, <3>1, B3Said DEF TradesAgree
    <3>3. \A r, p : p \in Telling(l, k, r) <=> p = Said(B3(r.ticker), r, "LAST")
      BY <1>4, <2>4, TellingMeans
    <3> QED
      BY <1>3, <3>2, <3>3
  <2> QED
    BY <1>4, <2>3, <2>4
<1>5. CASE l = "b3" /\ k = "trades" /\ f.parse # "ok"
  <2>1. RevisedBy(l, k, f) = {}
    BY <1>5, B3Said
  <2>2. Range(todo') = {}
    BY <1>3, <1>5 DEF Range
  <2> QED
    BY <1>3, <2>1, <2>2
<1>6. CASE l = "b3" /\ k \notin {"187", "trades"}
  <2>1. \A r : Telling(l, k, r) = {}
    BY <1>6 DEF Telling
  <2>2. RevisedBy(l, k, f) = {}
    BY <1>1, <1>2, <1>6, Revisers
  <2> QED
    BY <1>3, <2>1, <2>2
<1>7. CASE l \in {"fred", "yahoo", "bcb", "ibge"}
  <2>1. f.parse = "ok"
    <3>1. k \notin {"028", "trades", "cadastro"} /\ k \notin Range(Months)
      BY <1>1, <1>2, <1>7, SideKinds
    <3> QED
      BY <1>1, <3>1 DEF Rejectable
  <2>2. todo' = Rows(f)
    BY <1>7, <2>1 DEF FetchOf, Parsed, SideRecords
  <2> QED
    BY <1>2, <1>3, <1>7, <2>2, SeriesSaid
<1>8. CASE l \notin {"b3", "fred", "yahoo", "bcb", "ibge"}
  <2>1. \A r : Telling(l, k, r) = {}
    BY <1>8 DEF Telling
  <2>2. RevisedBy(l, k, f) = {}
    BY <1>1, <1>2, <1>8, Revisers
  <2> QED
    BY <1>3, <2>1, <2>2
<1>9. l = "b3" /\ k = "187" => f.parse = "ok"
  <2>1. "187" \notin Range(Months)
    BY FilesAssumption DEF FilesAssumption
  <2> QED
    BY <1>1, <2>1 DEF Rejectable
<1> QED
  BY <1>4, <1>5, <1>6, <1>7, <1>8, <1>9

LEMMA FetchStepFresh ==
    ASSUME TypeInv, JobInv, FreshInv, FetchStep, told' = told
    PROVE  FreshInv'
<1>1. PICK f \in Served : FetchOf(f)
  BY FetchStepOf
<1>2. /\ ~Idle /\ ~Idle' /\ UNCHANGED <<command, db, job>> /\ todo = <<>> /\ memo.waiting = {}
      /\ items # <<>> /\ items' = Tail(items) /\ memo'.waiting = {}
  BY FetchStepFrame DEF TypeInv, commandVars, Idle
<1>3. session' = StoreArtifact(session, job.run, Kind, f.sha) /\ file' = [kind |-> Kind, sha |-> f.sha]
  BY <1>1 DEF FetchOf, Fetch
<1>4. PICK row : row = [key |-> <<job.run, Kind, f.sha>>]
  OBVIOUS
<1>5. /\ row.key[1] = job.run /\ row.key[2] = Kind /\ row.key[3] = f.sha
      /\ row.key = <<job.run, Kind, f.sha>>
  BY <1>4
<1>6. /\ Grows(session, session', New("artifacts", {row})) /\ row \in session'.flushed["artifacts"]
      /\ \A t \in Names : session'.added[t] = {} /\ session'.flushed[t] = All(session', t)
  BY <1>3, <1>4, StoreArtifactStep DEF TypeInv, SessionInv
<1>7. All(session', "quotes") = All(session, "quotes") /\ session'.added["quotes"] = {}
  BY <1>6, UnquotedRows, UnquotedGrows, NamesKnown
<1>8. /\ OwnArtifacts \subseteq OwnArtifacts' /\ row \in OwnArtifacts'
      /\ \A a \in OwnArtifacts' : a \in OwnArtifacts \/ a = row
  <2>1. \A a \in All(session', "artifacts") : a \in All(session, "artifacts") \/ a = row
    BY <1>6, NamesKnown DEF Grows, New
  <2>2. session'.flushed["artifacts"] = All(session', "artifacts")
    BY <1>6, NamesKnown
  <2>3. All(session, "artifacts") = session.flushed["artifacts"]
    BY DEF TypeInv, SessionInv, All
  <2>4. session.flushed["artifacts"] \subseteq session'.flushed["artifacts"]
    BY <1>6, NamesKnown DEF Grows
  <2> QED
    BY <1>2, <1>5, <1>6, <2>1, <2>2, <2>3, <2>4 DEF OwnArtifacts, ArtifactsOf
<1>9. ArtifactInv /\ job.loader \in Loaders
  BY <1>2 DEF FreshInv, TypeInv, ControlInv, Idle
<1>10. file'.kind = Kind /\ file'.sha = f.sha
  BY <1>3
<1>11. FileOf(f.sha) = f
  BY <1>2, <1>9, ServedFacts, FileOfFacts
<1>12. Fetched \subseteq Fetched' /\ Kind \in Fetched' /\ (job.loader # "cvm" => Kind \notin Fetched)
  BY <1>2, FetchedMore
<1>13. ArtifactInv'
  <2>1. ASSUME NEW a \in OwnArtifacts'
        PROVE  a.key[2] \in Fetched' /\ \E g \in Feed[<<a.key[2], command.date>>] : g.sha = a.key[3]
    <3>1. CASE a \in OwnArtifacts
      BY <1>9, <1>12, <3>1 DEF ArtifactInv
    <3>2. CASE a = row
      BY <1>5, <1>12, <3>2 DEF Served
    <3> QED
      BY <1>8, <2>1, <3>1, <3>2
  <2>2. ASSUME job.loader # "cvm", NEW a \in OwnArtifacts', NEW b \in OwnArtifacts', a.key[2] = b.key[2]
        PROVE  a = b
    <3>1. \A c \in OwnArtifacts : c.key[2] # Kind
      BY <1>9, <1>12, <2>2 DEF ArtifactInv
    <3> QED
      BY <1>5, <1>8, <1>9, <2>2, <3>1 DEF ArtifactInv
  <2> QED
    BY <1>2, <2>1, <2>2 DEF ArtifactInv
<1>14. \A a : Reading(a)' <=> a.key = row.key
  BY <1>2, <1>5, <1>10 DEF Reading
<1>15. RecordInv'
  <2>1. /\ todo' # <<>> => f.parse = "ok"
        /\ \A r \in Range(todo') : Telling(job.loader, Kind, r) \subseteq RevisedBy(job.loader, Kind, f)
    BY <1>1, FetchedTells
  <2> QED
    BY <1>2, <1>8, <1>10, <1>11, <1>14, <2>1 DEF RecordInv
<1>16. ASSUME ~session'.clash
       PROVE  Fresh(session, file.sha)' /\ ShownInv' /\ SessionTold'
  <2>1. ~session.clash
    BY <1>6, <1>16 DEF Grows
  <2>2. ShownInv /\ SessionTold
    BY <1>2, <2>1 DEF FreshInv
  <2>3. Fresh(session, file.sha)'
    BY <1>7 DEF Fresh
  <2>4. ASSUME NEW a \in OwnArtifacts', NEW p \in RevisedBy(job.loader, a.key[2], FileOf(a.key[3]))
        PROVE  \/ Shown(All(session', "quotes"), p.identity, p.value)
               \/ Reading(a)' /\ \E r \in Range(todo') : p \in Telling(job.loader, Kind, r)
    <3>1. CASE a \in OwnArtifacts
      BY <1>2, <1>7, <2>2, <2>4, <3>1 DEF ShownInv, Range
    <3>2. CASE a = row
      <4>1. p \in RevisedBy(job.loader, Kind, f)
        BY <1>5, <1>11, <2>4, <3>2
      <4> QED
        BY <1>1, <1>14, <3>2, <4>1, FetchedTells
    <3> QED
      BY <1>8, <2>4, <3>1, <3>2
  <2>5. ShownInv'
    BY <1>2, <1>10, <2>4 DEF ShownInv
  <2>6. \A id : Retold(id) => Retold(id)'
    BY <1>2, <1>8 DEF Retold
  <2>7. SessionTold'
    BY <1>7, <2>2, <2>6 DEF SessionTold
  <2> QED
    BY <2>3, <2>5, <2>7
<1>17. OriginInv'
  BY <1>2, <1>7 DEF FreshInv, OriginInv, Origin
<1>18. \A t \in told' : Shown(db'["quotes"], t.identity, t.value)
  BY <1>2 DEF FreshInv
<1> QED
  BY <1>2, <1>13, <1>15, <1>16, <1>17, <1>18 DEF FreshInv

LEMMA SkipFileFresh == TypeInv /\ JobInv /\ FreshInv /\ SkipFile /\ told' = told => FreshInv'
<1> SUFFICES ASSUME TypeInv, JobInv, FreshInv, SkipFile, told' = told
             PROVE  FreshInv'
  OBVIOUS
<1>1. /\ ~Idle /\ ~Idle' /\ items # <<>> /\ items' = Tail(items) /\ todo = <<>>
      /\ UNCHANGED <<command, db, session, job, todo, file, memo>>
  BY DEF SkipFile, CanFetch, commandVars, Idle
<1>2. Fetched \subseteq Fetched'
  BY <1>1, FetchedMore
<1>3. OwnArtifacts' = OwnArtifacts
  BY <1>1 DEF OwnArtifacts
<1>4. ArtifactInv'
  BY <1>1, <1>2, <1>3 DEF FreshInv, ArtifactInv
<1>5. RecordInv'
  BY <1>1 DEF RecordInv
<1>6. ASSUME ~session.clash PROVE Fresh(session, file.sha)' /\ ShownInv' /\ SessionTold'
  BY <1>1, <1>3, <1>6 DEF FreshInv, Fresh, ShownInv, SessionTold, Retold, Reading
<1>7. OriginInv'
  BY <1>1 DEF FreshInv, OriginInv, Origin
<1> QED
  BY <1>1, <1>4, <1>5, <1>6, <1>7 DEF FreshInv

\* First revisions of other identities hide no value.
LEMMA ShownFirsts ==
    ASSUME NEW rows, NEW more, Numbered(more), rows \subseteq more,
           \A q \in more : q \in rows \/ Revision(q) = 1,
           NEW identity, NEW value, Shown(rows, identity, value)
    PROVE  Shown(more, identity, value)
<1>1. PICK q \in Revisions(rows, identity) :
         q.value = value /\ \A o \in Revisions(rows, identity) : Revision(o) <= Revision(q)
  BY DEF Shown
<1>2. q \in Revisions(more, identity) /\ Revision(q) \in Nat \ {0}
  BY <1>1, QuoteKey DEF Revisions, Numbered
<1>3. \A o \in Revisions(more, identity) : o \in Revisions(rows, identity) \/ Revision(o) = 1
  BY DEF Revisions
<1>4. \A o \in Revisions(more, identity) : Revision(o) <= Revision(q)
  BY <1>1, <1>2, <1>3
<1> QED
  BY <1>1, <1>2, <1>4 DEF Shown

\* The loaders that commit their batches revise nothing.
LEMMA BatchesRevise ==
    ASSUME TypeInv, JobInv, ~Idle, ArtifactInv, job.loader \in {"tesouro", "cvm"}
    PROVE  \A id : ~Retold(id)
<1> SUFFICES ASSUME NEW a \in OwnArtifacts, NEW p \in RevisedBy(job.loader, a.key[2], FileOf(a.key[3]))
             PROVE  FALSE
  BY DEF Retold
<1>1. a.key[2] \in Range(Files(job.loader)) /\ job.loader \in Loaders
  BY OwnFile DEF TypeInv, ControlInv, Idle
<1> QED
  BY <1>1, Revisers

LEMMA FlushBatchFresh == TypeInv /\ JobInv /\ FreshInv /\ FlushBatch /\ told' = told => FreshInv'
<1> SUFFICES ASSUME TypeInv, JobInv, FreshInv, FlushBatch, told' = told
             PROVE  FreshInv'
  OBVIOUS
<1>1. /\ ~Idle /\ ~Idle' /\ UNCHANGED <<command, job, items, todo, file>>
      /\ session' = FlushedBatch /\ memo' = [memo EXCEPT !.waiting = {}]
      /\ db' = db \/ (~FlushedBatch.clash /\ db' = FlushedBatch.flushed)
      /\ job.loader = "b3" => db' = db
  BY FlushBatchFrame DEF TypeInv, commandVars, Idle
<1>2. memo'.waiting = {} /\ memo.waiting # {}
  BY <1>1 DEF FlushBatch, TypeInv, ControlInv
<1>3. job.loader \in {"b3", "tesouro", "cvm"}
  BY <1>2 DEF FreshInv
<1>4. PICK z : z = FlushedBatch
  OBVIOUS
<1>5. /\ session' = z /\ Sound(z) /\ Grows(session, z, New("quotes", memo.waiting))
      /\ \A t \in Names : z.added[t] = {} /\ z.flushed[t] = All(z, t)
  BY <1>1, <1>4, FlushedBatchKeeps
<1>6. OwnArtifacts' = OwnArtifacts
  <2>1. \A a \in All(z, "artifacts") : a \in All(session, "artifacts")
    BY <1>5, NamesKnown DEF Grows, New
  <2>2. session.flushed["artifacts"] \subseteq z.flushed["artifacts"]
    BY <1>5, NamesKnown DEF Grows
  <2>3. All(session, "artifacts") = session.flushed["artifacts"]
    BY DEF TypeInv, SessionInv, All
  <2>4. z.flushed["artifacts"] = All(z, "artifacts")
    BY <1>5, NamesKnown
  <2>5. z.flushed["artifacts"] \subseteq session.flushed["artifacts"]
    BY <2>1, <2>3, <2>4
  <2>6. session'.flushed["artifacts"] = session.flushed["artifacts"]
    BY <1>5, <2>2, <2>5
  <2> QED
    BY <1>1, <2>6 DEF OwnArtifacts, ArtifactsOf
<1>7. \A q \in All(z, "quotes") : q \in All(session, "quotes") \/ q \in memo.waiting
  BY <1>5, NamesKnown DEF Grows, New
<1>8. \A q \in memo.waiting : Revision(q) = 1
  BY DEF TypeInv, SessionInv, IsFirst
<1>9. /\ Numbered(All(z, "quotes")) /\ All(session, "quotes") \subseteq All(z, "quotes")
      /\ z.flushed["quotes"] = All(z, "quotes") /\ z.added["quotes"] = {}
  BY <1>5, NamesKnown DEF Sound, Grows
<1>10. \A id, v : Shown(All(session, "quotes"), id, v) => Shown(All(z, "quotes"), id, v)
  BY <1>7, <1>8, <1>9, ShownFirsts
<1>11. ArtifactInv /\ RecordInv
  BY <1>1 DEF FreshInv
<1>12. ArtifactInv'
  BY <1>1, <1>6, <1>11 DEF ArtifactInv, Fetched
<1>13. RecordInv'
  BY <1>1, <1>6, <1>11 DEF RecordInv, Reading
<1>14. OriginInv'
  BY <1>2, <1>5, <1>7 DEF FreshInv, OriginInv, Origin
<1>15. z.clash \/ (ShownInv /\ SessionTold)
  BY <1>1, <1>5 DEF FreshInv, Grows
<1>16. ASSUME ~z.clash PROVE Fresh(session, file.sha)' /\ ShownInv' /\ SessionTold'
  <2>1. Fresh(session, file.sha)'
    BY <1>5, <1>9 DEF Fresh
  <2>2. ShownInv'
    BY <1>1, <1>5, <1>6, <1>10, <1>15, <1>16 DEF ShownInv, Reading
  <2>3. SessionTold'
    BY <1>1, <1>5, <1>6, <1>10, <1>15, <1>16 DEF SessionTold, Retold
  <2> QED
    BY <2>1, <2>2, <2>3
<1>17. \A t \in told' : Shown(db'["quotes"], t.identity, t.value)
  <2>1. CASE db' = db
    BY <2>1 DEF FreshInv
  <2>2. CASE db' # db
    <3>1. job.loader \in {"tesouro", "cvm"} /\ ~z.clash /\ db' = z.flushed
      BY <1>1, <1>3, <1>4, <2>2
    <3>2. \A t \in told : Shown(All(session, "quotes"), t.identity, t.value)
      BY <1>1, <1>11, <1>15, <3>1, BatchesRevise DEF SessionTold
    <3> QED
      BY <1>9, <1>10, <3>1, <3>2
  <2> QED
    BY <2>1, <2>2
<1> QED
  BY <1>1, <1>2, <1>5, <1>12, <1>13, <1>14, <1>16, <1>17 DEF FreshInv

LEMMA BeginJobFresh == TypeInv /\ FreshInv /\ BeginJob /\ told' = told => FreshInv'
<1> SUFFICES ASSUME TypeInv, FreshInv, BeginJob, told' = told
             PROVE  FreshInv'
  OBVIOUS
<1>1. /\ job'.run = job.run + 1 /\ db' = db /\ memo' = NoMemo /\ todo' = <<>>
      /\ \A t \in Names : /\ session'.added[t] = {}
                          /\ session'.flushed[t] = IF t = "runs" THEN db[t] \cup {OwnRun'} ELSE db[t]
  BY BeginJobFrame
<1>2. session'.flushed["artifacts"] = db["artifacts"]
  BY <1>1, NamesKnown
<1>3. \A a \in db["artifacts"] : a.key[1] \in 1 .. job.run
  BY DEF TypeInv, CommittedInv, IsArtifact
<1>4. job.run \in Nat
  BY DEF TypeInv, ControlInv
<1>5. OwnArtifacts' = {}
  BY <1>1, <1>2, <1>3, <1>4 DEF OwnArtifacts, ArtifactsOf
<1>6. memo'.waiting = {}
  BY <1>1 DEF NoMemo
<1>7. All(session', "quotes") = db["quotes"] /\ session'.added["quotes"] = {}
  BY <1>1, NamesKnown DEF All
<1>8. db["quotes"] \subseteq All(session, "quotes")
  BY NamesKnown DEF TypeInv, SessionInv, All
<1>9. OriginInv'
  BY <1>6, <1>7, <1>8 DEF FreshInv, OriginInv, Origin
<1>10. ArtifactInv' /\ RecordInv'
  BY <1>1, <1>5 DEF ArtifactInv, RecordInv
<1>11. Fresh(session, file.sha)' /\ ShownInv'
  BY <1>5, <1>7 DEF Fresh, ShownInv
<1>12. SessionTold'
  BY <1>7 DEF FreshInv, SessionTold
<1> QED
  BY <1>1, <1>6, <1>9, <1>10, <1>11, <1>12 DEF FreshInv

\* A step to an idle process with these committed quotes.
LEMMA IdleFresh ==
    ASSUME Idle', memo'.waiting = {}, session' = Begin(db'), DOMAIN db' = Names,
           \A q \in db'["quotes"] : Origin(q),
           \A t \in told' : Shown(db'["quotes"], t.identity, t.value)
    PROVE  FreshInv'
<1>1. All(session', "quotes") = db'["quotes"]
  BY BeginShape, NamesKnown
<1>2. OriginInv'
  BY <1>1 DEF OriginInv, Origin
<1> QED
  BY <1>2 DEF FreshInv

LEMMA RolledBackFresh ==
    ASSUME TypeInv, FreshInv, Idle', memo'.waiting = {}, session' = Begin(db), db' = db, told' = told
    PROVE  FreshInv'
<1>1. db["quotes"] \subseteq All(session, "quotes") /\ DOMAIN db = Names
  BY NamesKnown DEF TypeInv, SessionInv, CommittedInv, All
<1>2. \A q \in db'["quotes"] : Origin(q)
  BY <1>1 DEF FreshInv, OriginInv
<1>3. \A t \in told' : Shown(db'["quotes"], t.identity, t.value)
  BY DEF FreshInv
<1> QED
  BY <1>1, <1>2, <1>3, IdleFresh

LEMMA CommitFresh == TypeInv /\ FreshInv /\ CommitAndTell => FreshInv'
<1> SUFFICES ASSUME TypeInv, FreshInv, CommitAndTell
             PROVE  FreshInv'
  OBVIOUS
<1>1. /\ ~Idle /\ todo = <<>> /\ memo.waiting = {} /\ ~session.clash /\ LeaveJob
      /\ session' = Begin(db') /\ DOMAIN db' = Names
      /\ \A t \in Names \ {"runs"} : db'[t] = All(session, t)
  BY CommitJobFrame DEF CommitAndTell
<1>2. Idle' /\ memo'.waiting = {}
  BY <1>1, LeaveJobTypes DEF TypeInv, NoMemo
<1>3. db'["quotes"] = All(session, "quotes")
  BY <1>1, NamesKnown
<1>4. \A q \in db'["quotes"] : Origin(q)
  BY <1>3 DEF FreshInv, OriginInv
<1>5. ShownInv /\ SessionTold
  BY <1>1 DEF FreshInv
<1>6. PICK new : new = UNION {RevisedBy(job.loader, a.key[2], FileOf(a.key[3])) : a \in OwnArtifacts}
  OBVIOUS
<1>7. \A t \in told' : t \in new \/ (t \in told /\ \A n \in new : n.identity # t.identity)
  BY <1>6 DEF CommitAndTell, Override, OwnArtifacts
<1>8. \A n \in new : Shown(db'["quotes"], n.identity, n.value)
  BY <1>1, <1>3, <1>5, <1>6 DEF ShownInv, Range
<1>9. \A id : Retold(id) => \E n \in new : n.identity = id
  BY <1>6 DEF Retold
<1>10. \A t \in told' : Shown(db'["quotes"], t.identity, t.value)
  BY <1>3, <1>5, <1>7, <1>8, <1>9 DEF SessionTold
<1> QED
  BY <1>1, <1>2, <1>4, <1>10, IdleFresh

LEMMA FreshStep ==
    ASSUME OneValueADate
    PROVE  TypeInv /\ JobInv /\ FreshInv /\ [DailyNext]_allVars => FreshInv'
<1> SUFFICES ASSUME TypeInv, JobInv, FreshInv, [DailyNext]_allVars
             PROVE  FreshInv'
  OBVIOUS
<1>1. CASE CommitAndTell
  BY <1>1, CommitFresh
<1>2. CASE (BeginCommand \/ EndCommand) /\ told' = told
  <2>1. /\ Idle /\ Idle' /\ UNCHANGED <<db, session, memo>>
    BY <1>2 DEF BeginCommand, EndCommand, Idle
  <2>2. session = Begin(db) /\ memo.waiting = {}
    BY <2>1 DEF TypeInv, ControlInv, NoMemo
  <2> QED
    BY <1>2, <2>1, <2>2, RolledBackFresh
<1>3. CASE BeginJob /\ told' = told
  BY <1>3, BeginJobFresh
<1>4. CASE (Abort \/ Kill) /\ told' = told
  <2>1. LeaveJob /\ db' = db /\ session' = Begin(db)
    BY <1>4 DEF Abort, Kill
  <2>2. Idle' /\ memo'.waiting = {}
    BY <2>1, LeaveJobTypes DEF TypeInv, NoMemo
  <2> QED
    BY <1>4, <2>1, <2>2, RolledBackFresh
<1>5. CASE SkipFile /\ told' = told
  BY <1>5, SkipFileFresh
<1>6. CASE FlushBatch /\ told' = told
  BY <1>6, FlushBatchFresh
<1>7. CASE FetchStep /\ told' = told
  BY <1>7, FetchStepFresh
<1>8. CASE RecordStep /\ told' = told
  BY <1>8, RecordStepFresh
<1>9. CASE (B3Next \/ SideNext) /\ told' = told
  BY <1>7, <1>8, <1>9 DEF B3Next, SideNext, FetchStep, RecordStep
<1>10. CASE UNCHANGED allVars
  <2>1. UNCHANGED <<command, db, session, job, items, todo, file, memo, told>>
    BY <1>10 DEF allVars, vars
  <2>2. ~Idle => ArtifactInv' /\ RecordInv'
    BY <2>1 DEF FreshInv, ArtifactInv, RecordInv, Fetched, OwnArtifacts, Reading
  <2>3. ~Idle /\ ~session.clash => Fresh(session, file.sha)' /\ ShownInv' /\ SessionTold'
    BY <2>1 DEF FreshInv, Fresh, ShownInv, SessionTold, Retold, OwnArtifacts, Reading
  <2>4. OriginInv'
    BY <2>1 DEF FreshInv, OriginInv, Origin
  <2> QED
    BY <2>1, <2>2, <2>3, <2>4 DEF FreshInv, Idle
<1> QED
  BY <1>1, <1>2, <1>3, <1>4, <1>5, <1>6, <1>9, <1>10 DEF DailyNext

LEMMA FreshAtStart == DailyInit => FreshInv
<1> SUFFICES ASSUME DailyInit
             PROVE  FreshInv
  OBVIOUS
<1>1. /\ Idle /\ told = {} /\ memo.waiting = {} /\ session = Begin(db) /\ DOMAIN db = Names
      /\ db["quotes"] = {}
  BY NamesKnown DEF DailyInit, Init, Idle, NoMemo, NoRows
<1>2. All(session, "quotes") = {}
  BY <1>1, BeginShape, NamesKnown
<1> QED
  BY <1>1, <1>2 DEF FreshInv, OriginInv

LEMMA FreshImplied == TypeInv /\ FreshInv => NewestFileShown
<1> SUFFICES ASSUME TypeInv, FreshInv, NEW t \in told
             PROVE  LET stored == Revisions(db["quotes"], t.identity)
                    IN  stored # {} /\ LatestOf(stored).value = t.value
  BY DEF NewestFileShown
<1>1. PICK stored : stored = Revisions(db["quotes"], t.identity)
  OBVIOUS
<1>2. PICK q \in stored : q.value = t.value /\ \A o \in stored : Revision(o) <= Revision(q)
  BY <1>1 DEF FreshInv, Shown
<1>3. Numbered(db["quotes"]) /\ KeysUnique(db["quotes"])
  BY NamesKnown DEF TypeInv, CommittedInv
<1>4. PICK m : m = LatestOf(stored)
  OBVIOUS
<1>5. m \in stored /\ \A o \in stored : Revision(o) <= Revision(m)
  BY <1>1, <1>2, <1>3, <1>4, LatestExists
<1>6. \A o \in stored : o \in db["quotes"] /\ Identity(o) = t.identity /\ IsNumbered(o.key) /\ Revision(o) \in Nat
  BY <1>1, <1>3, QuoteKey DEF Revisions, Numbered
<1>7. Revision(m) = Revision(q)
  BY <1>2, <1>5, <1>6
<1>8. m = q
  BY <1>2, <1>3, <1>5, <1>6, <1>7, SameKey DEF KeysUnique
<1> QED
  BY <1>1, <1>2, <1>4, <1>8

\* The highest revision of a revised quote has the value of the file committed last,
\* for any corrections and returns to older bytes (upsert_quote), where a file
\* of FRED, Yahoo, BCB or IBGE has one value of an identity (OneValueADate).
THEOREM NewestCorrect ==
    ASSUME OneValueADate
    PROVE  Spec => []NewestFileShown
<1>1. DailyInit => TypeInv /\ JobInv /\ FreshInv
  BY TypesAtStart, JobAtStart, FreshAtStart DEF DailyInit
<1>2. TypeInv /\ JobInv /\ FreshInv /\ [DailyNext]_allVars => FreshInv'
  BY FreshStep
<1> QED
  BY <1>1, <1>2, TypesStep, JobStep, FreshImplied, PTL DEF Spec
===============================================================================
