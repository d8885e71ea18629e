-------------------------- MODULE MarkoutProperties --------------------------
(***************************************************************************)
(* What must hold of the markout engine.                                   *)
(***************************************************************************)
EXTENDS MarkoutEngine

(* The engine's rows seen as the ledger's: every retryable status is an    *)
(* open row, every terminal one an unpriced row.                           *)
Verdict(st) ==
  CASE st \in Retryable -> "open"
    [] st \in Terminal -> "unpriced"
    [] OTHER -> st

Ledger == INSTANCE MarkoutLedger WITH
            Times <- Instants,
            verdict <- [r \in Rows |-> Verdict(status[r])]

(* The grace period is what makes a verdict final: by the time a row is    *)
(* listed, every candle that could price it has closed and is served.      *)
GraceCoversFeed == Grace >= Res + FeedLag

(* No look-ahead: a follower's entry price is the last close already known *)
(* when the event was received, whichever pass looked it up and however    *)
(* sparse, late or partial the responses were (engine.go:215-240).         *)
EntryIsLastKnownClose ==
  \A r \in Rows :
    r.kind = "follower" /\ entry[r] # NULL =>
      Ledger!IsLastClose(market[Tok(r)], base[<<r.event, r.kind>>], entry[r])

(* A filled row carries the close of the first candle that closes at or    *)
(* after its due time, at most one resolution later, and that candle had   *)
(* closed when it was sampled (engine.go:245-270).                         *)
OutcomeIsFirstClose ==
  \A r \in Rows :
    outcome[r] # NULL =>
      /\ Ledger!IsFirstClose(market[Tok(r)], Due(r), outcome[r])
      /\ outcome[r] <= clock

(* A terminal status is never wrong about the market: a row given up as    *)
(* no_candle or stale_outcome has no executable close in [due, due+res],   *)
(* and there will never be one.                                            *)
VerdictIsJustified ==
  \A r \in Rows :
    status[r] \in Terminal =>
      /\ Due(r) + Res <= clock
      /\ Ledger!ClosingIn(market[Tok(r)], Due(r), Due(r) + Res) = {}

(* The engine implements the ledger: rows are resolved once and for good,  *)
(* only when due, and only as the ledger allows.                           *)
ImplementsLedger == Ledger!Spec

PendingFollowers(S) == {r \in S : r.kind = "follower" /\ status[r] = "pending"}

(* "fresh pending follower rows first" (markouts.go:82): the request budget*)
(* is never spent on a token without pending follower rows while a listed  *)
(* pending follower row waits.                                             *)
FollowerPendingFirst ==
  [][ token' # token /\ token' # NULL =>
        PendingFollowers(targets') # {} \/ PendingFollowers(batch) = {} ]_vars

IsDue(r) == status[r] # "absent" /\ clock >= Due(r) + Grace

(* "a backoff-heavy backlog must never starve new data" (markouts.go:83):  *)
(* a due follower row is eventually classified one way or another, with a  *)
(* budget of one token per pass and in spite of faults and retry rows.     *)
FollowerEventuallyClassified ==
  \A r \in Rows :
    (r.kind = "follower" /\ status[r] = "pending" /\ IsDue(r)) ~> status[r] # "pending"

(* What the window of row r's first request must contain for its entry.    *)
EntryIsReachable(r) ==
  r.kind = "leader" \/ base[<<r.event, r.kind>>] - Res \in market[Tok(r)]

(* A price the market printed is not lost: with budget for every token, a  *)
(* due row whose entry is known or reachable and whose horizon has a       *)
(* candle is eventually filled, in spite of 429s, request errors,          *)
(* unparseable closes and restarts.                                        *)
PrintedPriceIsFilled ==
  \A r \in Rows :
    (/\ IsDue(r)
     /\ EntryIsReachable(r)
     /\ Ledger!ClosingIn(market[Tok(r)], Due(r), Due(r) + Res) # {}) ~> status[r] = "filled"

-----------------------------------------------------------------------------
(* Claims of comments and docs the code does not keep; MCLookback,         *)
(* MCPendingFirst, MCNoCandle and MCEntryStale refute them.                *)

(* engine.go:224: a lookback_miss is "retryable: a later pass fetches a    *)
(* longer window": a missed entry that the market has is found in the end. *)
LookbackMissRecovers ==
  \A r \in Rows :
    (/\ status[r] = "lookback_miss"
     /\ \E o \in market[Tok(r)] : o + Res <= base[<<r.event, r.kind>>])
      ~> entry[r] # NULL

(* markouts.go:69: "ordering puts fresh pending FIRST ... retry rows only  *)
(* get the remaining budget".                                              *)
PendingBeforeRetry ==
  [][ token' # token /\ token' # NULL =>
        \/ \E r \in targets' : status[r] = "pending"
        \/ \A r \in batch : status[r] # "pending" ]_vars

(* docs/v0.1.3-dataset.md:24: no_candle is told apart from a candle not yet*)
(* visible: it is terminal only when the stream ended before due - 2*res.  *)
NoCandleOnlyAfterStreamEnd ==
  \A r \in Rows :
    status[r] = "no_candle" =>
      \A o \in market[Tok(r)] : ~(o >= Due(r) - 2 * Res /\ o <= Due(r))

(* docs/v0.1.2-entry-pit.md:31: the entry price is stale by 0..30s, that   *)
(* is by at most one resolution.                                           *)
EntryStaleAtMostOneRes ==
  \A r \in Rows :
    r.kind = "follower" /\ entry[r] # NULL => base[<<r.event, r.kind>>] - entry[r] <= Res
=============================================================================
