--------------------------- MODULE MCClusterWindows ---------------------------
(* Two feeds; two smart wallets buy one token, one of them twice, and a KOL*)
(* buys another token.                                                     *)
EXTENDS ClusterWindows

CONSTANTS smart, kol, a, b, a2, k, tok, other, alice, bob, carol

TokenOf == [e \in Events |-> IF e = k THEN other ELSE tok]

WalletOf == [e \in Events |-> CASE e = b -> bob [] e = k -> carol [] OTHER -> alice]

LaneOf == [e \in Events |-> IF e = k THEN "kol_buy" ELSE "smart_buy"]

TradedAt == [e \in Events |-> CASE e = a -> 1 [] e = k -> 1 [] e = b -> 2 [] OTHER -> 4]
=============================================================================
