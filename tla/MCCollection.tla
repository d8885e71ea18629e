----------------------------- MODULE MCCollection -----------------------------
(* Every feed carries every trade, of one token with any candles.          *)
EXTENDS Collection, TLC

CONSTANTS smart, kol, tok

AnyFeed == Permutations(Feeds)

BothCarryAll == [f \in Feeds |-> Events]

OneToken == [e \in Events |-> tok]
=============================================================================
