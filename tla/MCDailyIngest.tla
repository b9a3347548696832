---------------------------- MODULE MCDailyIngest ----------------------------
(***************************************************************************)
(* A Friday (1) and a Saturday (2); an equity of the universe and one      *)
(* outside it, a future, two bonds; files that repeat rows, correct older  *)
(* ones, share an ISIN, or cannot be used.                                 *)
(***************************************************************************)
EXTENDS DailyIngest

File(sha, docs) == [sha |-> sha, parse |-> "ok", docs |-> docs]
Unusable(sha) == [sha |-> sha, parse |-> "rejected", docs |-> <<>>]
Broken(sha) == [sha |-> sha, parse |-> "raises", docs |-> <<>>]

Price(t, d, v) == [ticker |-> t, date |-> d, value |-> v, security |-> ""]
Listing(t, d, v, id) == [ticker |-> t, date |-> d, value |-> v, security |-> id]
Master(t, isin) == [ticker |-> t, isin |-> isin]
Trade(t, d, v, n, class) ==
    [ticker |-> t, date |-> d, value |-> v, trades |-> n, class |-> class, code |-> "DEB", isin |-> ""]
Bond(t, code, isin) == [ticker |-> t, date |-> 0, code |-> code, isin |-> isin]
Loan(t, d, v) == [ticker |-> t, date |-> d, value |-> v]
News(t, id) == [ticker |-> t, id |-> id]
Value(t, kind, v) == [ticker |-> t, date |-> 1, kind |-> kind, value |-> v]
Observed(t, d, v) == [ticker |-> t, date |-> d, value |-> v]
Holding(t, filer, v) == [ticker |-> t, date |-> 1, filer |-> filer, value |-> v]
Nav(t, sub, v, kept) == [ticker |-> t, sub |-> sub, date |-> 1, value |-> v, kept |-> kept]

\* <<kind, date, files>>
Served1 == {
    <<"186", 1, {File("p1", <<<<Listing("PETR4", 1, 10, "s1"), Price("XPTO3", 1, 9)>>,
                              <<Price("PETR4", 1, 11)>>>>),
                 File("p2", <<<<Price("XPTO3", 1, 8), Price("PETR4", 1, 12), Price("PETR4", 1, 0)>>>>)}>>,
    <<"187", 1, {File("s1", <<<<Price("DI1F27", 1, 5)>>, <<Price("DI1F27", 1, 6), Price("OTHER", 1, 1)>>>>),
                 File("s2", <<<<Listing("DI1F27", 1, 7, "4")>>>>)}>>,
    <<"028", 1, {File("m1", <<<<Master("PETR4", "ISIN1"), Master("OTHER", "ISIN9")>>, <<>>>>),
                 File("m2", <<<<Master("PETR4", "ISIN1"), Master("XPTO3", "ISIN1")>>>>),
                 Unusable("m3")}>>,
    <<"trades", 1, {File("t1", <<<<Trade("DEB1", 1, 20, 3, "INTRAGRUPO"), Trade("DEB1", 1, 21, 1, "EXTRAGRUPO"),
                                   Trade("DEB1", 1, 22, 1, "EXTRAGRUPO")>>>>),
                    File("t2", <<<<Trade("DEB1", 1, 23, 0, "EXTRAGRUPO")>>>>), Unusable("t3")}>>,
    <<"cadastro", 1, {File("c1", <<<<Bond("DEB1", "DEB", "ISIN5"), Bond("CRI2", "CRI", ""), Bond("X", "LF", "")>>>>)}>> }
Served2 == {
    <<"186", 2, {File("p3", <<<<Price("PETR4", 1, 10)>>>>), File("p4", <<<<Price("XPTO3", 2, 9)>>>>)}>>,
    <<"028", 2, {Broken("m4")}>>,
    <<"trades", 2, {File("t4", <<<<Trade("CRI2", 2, 30, 1, "")>>>>)}>>,
    <<"cadastro", 2, {File("c3", <<<<Bond("DEB1", "DEB", "")>>>>)}>>,
    <<"registered", 1, {File("l1", <<<<Loan("PETR4", 0, 1), Loan("PETR4", 1, 2), Loan("ZZZZ3", 1, 1)>>>>),
                        File("l2", <<<<Loan("PETR4", 1, 3)>>>>)}>>,
    <<"open", 1, {File("o1", <<<<Loan("PETR4", 1, 4)>>>>)}>>,
    <<"cvm-events", 1, {File("e1", <<<<News("PETR4", "n1"), News("NONE3", "n2")>>>>)}>>,
    <<"cftc", 1, {File("w1", <<<<Holding("BRL", "", 5)>>>>), File("w2", <<<<Holding("BRL", "", 6)>>>>)}>>,
    <<"13f", 1, {File("h1", <<<<Holding("c1", "13", 5), Holding("c2", "13", 5)>>>>),
                 File("h2", <<<<Holding("c1", "13", 6), Holding("c1", "13", 7)>>>>)}>> }
Served3 == {
    <<"DGS10", 1, {File("f1", <<<<Observed("DGS10", 9, 1), Observed("DGS10", 1, 1)>>>>),
                   File("f2", <<<<Observed("DGS10", 9, 2), Observed("DGS10", 1, 1)>>>>)}>>,
    <<"VIX", 1, {File("f3", <<<<Observed("VIX", 8, 3), Observed("VIX", 9, 3), Observed("VIX", 1, 4)>>>>)}>>,
    <<"bcb", 1, {File("b0", <<<<>>>>), File("b1", <<<<Value("CDI", "", 1), Value("SELIC", "", 2)>>>>)}>>,
    <<"ibge", 1, {File("i1", <<<<Value("IPCA", "", 1)>>>>), File("i2", <<<<Value("IPCA", "", 2)>>>>)}>>,
    <<"PETR4.SA", 1, {File("y1", <<<<Value("PETR4.SA", "CLOSE", 1), Value("PETR4.SA", "ADJUSTED_CLOSE", 2)>>>>)}>>,
    <<"tesouro", 1, {File("d1", <<<<Value("LTN", "BUY", 1), Value("LTN", "SELL", 2)>>>>),
                     File("d2", <<<<Value("LTN", "BUY", 3), Value("NTN", "BUY", 4)>>>>)}>>,
    <<"registry", 1, {File("r1", <<<<>>>>)}>>,
    <<"m01", 1, {File("n1", <<<<Nav("F1", "", 1, TRUE), Nav("F2", "", 0, TRUE), Nav("F3", "a", 2, TRUE),
                               Nav("F4", "", 2, FALSE)>>>>)}>>,
    <<"m02", 1, {Unusable("n2"), File("n3", <<<<Nav("F1", "", 4, TRUE)>>>>)}>> }

Entries == Served1 \cup Served2 \cup Served3

\* The digits of PETR4 are the id of a future in s2.
MCDigits == [t \in {"PETR4", "NONE3"} |-> IF t = "PETR4" THEN "4" ELSE "3"]

MCFredSeries == <<"DGS10", "VIX">>
MCSymbols == <<"PETR4.SA">>
MCMonths == <<"m01", "m02">>

Kinds == UNION {Range(Files(l)) : l \in Loaders}

MCFeed == [k \in Kinds \X {1, 2} |->
             UNION {e[3] : e \in {x \in Entries : x[1] = k[1] /\ x[2] = k[2]}}]

Cmd(loaders, date, full, off) == [loaders |-> loaders, date |-> date, full |-> full, off |-> off]
Do(l) == Cmd(<<l>>, 1, FALSE, {})
All(full, off) == Cmd(<<"cvm", "tesouro", "bcb", "b3", "yahoo">>, 1, full, off)
B3Full(d) == Cmd(<<"b3">>, d, TRUE, {})

MCPlans == {
    <<B3Full(1), B3Full(1)>>,
    <<B3Full(2), B3Full(1)>>,
    <<Cmd(<<"b3">>, 2, FALSE, {})>>,
    <<Do("b3-lending"), Do("b3"), Do("b3-lending"), Do("cvm-events")>>,
    <<Do("b3"), Do("b3-lending"), Do("cvm-events")>>,
    <<All(FALSE, {"bcb"}), Do("bcb"), Do("bcb")>>,
    <<Do("tesouro"), Do("tesouro"), Cmd(<<"yahoo">>, 2, FALSE, {})>>,
    <<Do("cvm"), Do("cvm")>>,
    <<Do("fred"), Do("fred"), Do("fred")>>,
    <<Do("ibge"), Do("ibge"), Do("ibge")>>,
    <<Do("cftc"), Do("cftc"), Do("13f"), Do("13f")>> }

\* The parsers agree with what a file says on every file of up to three rows, not
\* only on those of the feed.
UpTo3(rows) == SeqOf(rows, 3)

ASSUME SmallFilesAgree ==
    /\ \A rows \in UpTo3({Price(t, d, v) : t \in {"", "DI1F27", "OTHER"}, d \in {0, 1}, v \in {0, 1, 2}}) :
          PricesAgree(File("", <<rows>>)) /\ SettlementsAgree(File("", <<rows>>))
    /\ \A rows \in UpTo3({Trade(t, 1, v, n, c) : t \in {"DEB1", "CRI2"}, v \in {1, 2}, n \in {0, 1},
                                                c \in {"INTRAGRUPO", "EXTRAGRUPO"}}) :
          TradesAgree(File("", <<rows>>))
    /\ \A rows \in UpTo3({Bond(t, c, "") : t \in {"", "DEB1", "CRI2"}, c \in {"DEB", "CRI", "LF"}}) :
          BondsAgree(File("", <<rows>>))
    /\ \A rows \in UpTo3({Loan(t, d, v) : t \in Allow \cup {"ZZZZ3"}, d \in {0, 1, 2}, v \in {1, 2}}) :
          LoansAgree(File("", <<rows>>), 1)

\* The hypothesis of NewestCorrect holds of this feed.
ASSUME ServicesAgree == OneValueADate
===============================================================================
