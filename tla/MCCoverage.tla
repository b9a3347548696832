------------------------------ MODULE MCCoverage ------------------------------
EXTENDS Coverage, TLC

CONSTANTS petr, petrSA, di, debenture

Row(uuid, class, provider, isin, ticker, alias) ==
    [uuid |-> uuid, class |-> class, provider |-> provider, isin |-> isin, ticker |-> ticker, alias |-> alias]

\* A B3 share with its ISIN and its .SA companion, a future, the companion as a
\* row of its own, a debenture by UUID, and a row without a provider.
MCUniverse == {
    Row(None, "equity", "b3", "BRPETR", "PETR4", "PETR4.SA"),
    Row(None, "future", "b3", None, "DI1F27", None),
    Row(None, "equity", "yahoo", None, "PETR4.SA", None),
    Row(debenture, "equity", "b3", None, "DEB1", None),
    Row(None, "equity", None, None, "DI1F27", None)}

\* Either everything but the debenture trades, or only the debenture.
MCBatches == {{petr, petrSA, di}, {debenture}}

MCFileSets == {{"187", "028", "trades", "cadastro"}, {"028", "trades", "cadastro"}, {"187", "028"}, {"187"}}

MCAsked == {<<1, FALSE>>, <<2, TRUE>>}

MCKnown == (petr :> {<<"TICKER", "PETR4">>, <<"ISIN", "BRPETR">>})
        @@ (petrSA :> {<<"TICKER", "PETR4.SA">>})
        @@ (di :> {<<"TICKER", "DI1F27">>})
        @@ (debenture :> {<<"SOURCE_ID", "DEB1">>})

MCHome == [i \in {petr, petrSA, di, debenture} |-> IF i = petrSA THEN "yahoo" ELSE "b3"]
===============================================================================
