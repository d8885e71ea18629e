--------------------------- MODULE MCEpisodeWalker ---------------------------
(* One wallet with two tokens, as ReconstructBehaviorFor reads it, or two  *)
(* wallets with the same token, as RebuildEpisodes does.                   *)
EXTENDS EpisodeTable

CONSTANTS alice, bob, tok, other

OneWallet == << [wallet |-> alice, token |-> tok], [wallet |-> alice, token |-> other] >>

TwoWallets == << [wallet |-> alice, token |-> tok], [wallet |-> bob, token |-> tok] >>
=============================================================================
