----------------------------- MODULE MCCollectors -----------------------------
(* Two chains, one with two endpoints; two monitors of a wallet with one       *)
(* position; two monitors of the pool with different intervals, one of them    *)
(* with two windows.                                                           *)
EXTENDS Collectors, TLC

CONSTANTS eth, base, e1, e2, b1, m1, m2, Token

MCChains == {eth, base}
MCEndpoints == (eth :> <<e1, e2>>) @@ (base :> <<b1>>)
MCAccountWindows == {1}
MCWalletMonitors == {m1, m2}
MCWalletIntervalOf == (m1 :> 2) @@ (m2 :> 3)
MCTokens == {Token}
MCPoolMonitors == {m1, m2}
MCPoolIntervalOf == (m1 :> 1) @@ (m2 :> 2)
MCWindowsOf == (m1 :> {1, 2}) @@ (m2 :> {})
MCPoolRuns == {1}
MCPoolReadIds == {1, 2}
=============================================================================
