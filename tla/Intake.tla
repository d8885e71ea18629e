-------------------------------- MODULE Intake --------------------------------
(***************************************************************************)
(* internal/collector/{collector,dedup}.go, Store.InsertEvent and the      *)
(* pipeline of cmd/followedge/main.go: from a feed's page to the rows of   *)
(* an event.                                                               *)
(*                                                                         *)
(* Every feed has a poller goroutine; they share the dedup memory and the  *)
(* database.  Events are numbered in the order they are traded on chain,   *)
(* and an event's number is its trade time: the clock is the number of     *)
(* events traded so far.  Waiting for the limiter and between polls is the *)
(* subject of module RateGate; here a poll may begin at any time.          *)
(***************************************************************************)
EXTENDS Integers, FiniteSets

CONSTANTS
  Feeds,        \* smartmoney and kol
  MaxEvents,    \* bound: how many events are ever traded
  CarriedBy,    \* feed -> events it carries
  PageSize,     \* external: how many of its newest events a feed shows
  Priced,       \* events with a positive price
  MaxFaults,    \* bound: how many database errors and restarts occur
  Faults,       \* fault kinds that may occur
  NULL

Events == 1 .. MaxEvents

IntakeFaults == {"insert", "write", "restart"}

ASSUME IntakeConstantsOK ==
  /\ MaxEvents \in Nat /\ PageSize \in Nat /\ MaxFaults \in Nat
  /\ CarriedBy \in [Feeds -> SUBSET Events]
  /\ Priced \subseteq Events
  /\ Faults \subseteq IntakeFaults
  /\ NULL \notin Int

VARIABLES
  traded,      \* number of events traded so far, which is the clock
  faultsLeft,  \* faults still to come
  cut,         \* history: events whose pipeline a restart interrupted
  seen,        \* Dedup.items
  pc,          \* feed -> where its poller is
  stamp,       \* feed -> receivedAt of the poll under way
  batch,       \* feed -> events of the page not yet looked at
  cur,         \* feed -> event being worked on, or NULL
  received,    \* trade_events: event -> received_at, or NULL
  leader,      \* events with leader markout rows
  follower,    \* events with follower markout rows
  counted,     \* event -> how often it is in its wallet's trade_count
  sampled      \* events that left cluster samples

poller == <<pc, stamp, batch, cur>>
tables == <<received, leader, follower, counted, sampled>>
intakeVars == <<traded, faultsLeft, cut, seen, poller, tables>>

Stored == {e \in Events : received[e] # NULL}

(* The pipeline's stages, in order.                                        *)
Stages == {"leader", "follower", "actor", "cluster"}

PollerPlaces == {"idle", "polling", "next", "insert"} \cup Stages

(* External: the newest events of the feed, at most PageSize of them.      *)
Shown(f) == {e \in CarriedBy[f] : e <= traded}

Page(f) == {e \in Shown(f) : Cardinality({d \in Shown(f) : d > e}) < PageSize}

Fault(kind) ==
  /\ kind \in Faults
  /\ faultsLeft > 0 /\ faultsLeft' = faultsLeft - 1

Goto(f, place) == pc' = [pc EXCEPT ![f] = place]

AllIdle ==
  /\ pc = [f \in Feeds |-> "idle"]
  /\ stamp = [f \in Feeds |-> 0]
  /\ batch = [f \in Feeds |-> {}]
  /\ cur = [f \in Feeds |-> NULL]

Init ==
  /\ traded = 0 /\ faultsLeft = MaxFaults /\ cut = {}
  /\ seen = {}
  /\ AllIdle
  /\ received = [e \in Events |-> NULL]
  /\ leader = {} /\ follower = {}
  /\ counted = [e \in Events |-> 0]
  /\ sampled = {}

-----------------------------------------------------------------------------
Trade ==
  /\ traded < MaxEvents
  /\ traded' = traded + 1
  /\ UNCHANGED <<faultsLeft, cut, seen, poller, tables>>

(* Mutated form: every hit renews the mark.                                *)
ExpireUnlessShown ==
  /\ \E e \in seen : /\ \A f \in Feeds : e \notin Page(f)
                      /\ seen' = seen \ {e}
  /\ UNCHANGED <<traded, cut, faultsLeft, poller, tables>>

(* Dedup forgets an event TTL after it was marked, at whatever moment.     *)
Expire ==
  /\ \E e \in seen : seen' = seen \ {e}
  /\ UNCHANGED <<traded, cut, faultsLeft, poller, tables>>

(* A restart keeps the tables and forgets the pollers and what they saw.   *)
Restart ==
  /\ Fault("restart")
  /\ seen' = {}
  /\ pc' = [f \in Feeds |-> "idle"]
  /\ stamp' = [f \in Feeds |-> 0]
  /\ batch' = [f \in Feeds |-> {}]
  /\ cur' = [f \in Feeds |-> NULL]
  /\ cut' = cut \cup {cur[f] : f \in {g \in Feeds : pc[g] \in Stages}}
  /\ UNCHANGED <<traded, tables>>

-----------------------------------------------------------------------------
(* GMGNSource.Poll: received_at is taken before the request is sent.       *)
BeginPoll(f) ==
  /\ pc[f] = "idle"
  /\ stamp' = [stamp EXCEPT ![f] = traded]
  /\ Goto(f, "polling")
  /\ UNCHANGED <<traded, cut, faultsLeft, seen, batch, cur, tables>>

ReadPage(f) ==
  /\ pc[f] = "polling"
  /\ batch' = [batch EXCEPT ![f] = Page(f)]
  /\ Goto(f, "next")
  /\ UNCHANGED <<traded, cut, faultsLeft, seen, stamp, cur, tables>>

(* PollOnce is over, or gave up: on to the next poll.                      *)
(* Mutated form: the rest of the page survives an error return.            *)
EndOfPollKeepsBatch(f) ==
  /\ Goto(f, "idle")
  /\ stamp' = [stamp EXCEPT ![f] = 0]
  /\ cur' = [cur EXCEPT ![f] = NULL]
  /\ UNCHANGED batch

EndOfPoll(f) ==
  /\ Goto(f, "idle")
  /\ stamp' = [stamp EXCEPT ![f] = 0]
  /\ batch' = [batch EXCEPT ![f] = {}]
  /\ cur' = [cur EXCEPT ![f] = NULL]

EndPoll(f) ==
  /\ pc[f] = "next" /\ batch[f] = {}
  /\ EndOfPoll(f)
  /\ UNCHANGED <<traded, cut, faultsLeft, seen, tables>>

(* Dedup.Seen returns true.                                                *)
Skip(f) ==
  /\ pc[f] = "next"
  /\ \E e \in batch[f] \cap seen : batch' = [batch EXCEPT ![f] = @ \ {e}]
  /\ UNCHANGED <<traded, cut, faultsLeft, seen, pc, stamp, cur, tables>>

(* Dedup.Seen returns false, having marked the event.                      *)
MarkSeen(f) ==
  /\ pc[f] = "next"
  /\ \E e \in batch[f] \ seen :
       /\ seen' = seen \cup {e}
       /\ cur' = [cur EXCEPT ![f] = e]
       /\ batch' = [batch EXCEPT ![f] = @ \ {e}]
  /\ Goto(f, "insert")
  /\ UNCHANGED <<traded, cut, faultsLeft, stamp, tables>>

NextEvent(f) ==
  /\ Goto(f, "next")
  /\ cur' = [cur EXCEPT ![f] = NULL]
  /\ UNCHANGED <<stamp, batch>>

(* Mutated form: the caller does not look at "created".                    *)
IsNewAlways(e) == TRUE

(* RowsAffected of INSERT OR IGNORE.                                       *)
IsNew(e) == received[e] = NULL

InsertEvent(f) ==
  /\ pc[f] = "insert"
  /\ received' = [received EXCEPT ![cur[f]] = IF @ = NULL THEN stamp[f] ELSE @]
  /\ IF IsNew(cur[f])
     THEN /\ Goto(f, IF cur[f] \in Priced THEN "leader" ELSE "actor")
          /\ UNCHANGED <<stamp, batch, cur>>
     ELSE NextEvent(f)
  /\ UNCHANGED <<traded, cut, faultsLeft, seen, leader, follower, counted, sampled>>

(* The insert fails: the rest of the page is dropped, the event stays seen.*)
InsertFails(f) ==
  /\ pc[f] = "insert"
  /\ Fault("insert")
  /\ EndOfPoll(f)
  /\ UNCHANGED <<traded, cut, seen, tables>>

-----------------------------------------------------------------------------
(* The pipeline.  A stage that fails is logged; the next one runs anyway.  *)

(* Mutated form: the pipeline returns the error.                           *)
LeaderMarkoutsOrReturn(f) ==
  /\ pc[f] = "leader"
  /\ \/ /\ leader' = leader \cup {cur[f]} /\ UNCHANGED faultsLeft
        /\ Goto(f, "follower") /\ UNCHANGED <<stamp, batch, cur>>
     \/ Fault("write") /\ UNCHANGED leader /\ NextEvent(f)
  /\ UNCHANGED <<traded, cut, seen, received, follower, counted, sampled>>

LeaderMarkouts(f) ==
  /\ pc[f] = "leader"
  /\ \/ leader' = leader \cup {cur[f]} /\ UNCHANGED faultsLeft
     \/ Fault("write") /\ UNCHANGED leader
  /\ Goto(f, "follower")
  /\ UNCHANGED <<traded, cut, seen, stamp, batch, cur, received, follower, counted, sampled>>

FollowerMarkouts(f) ==
  /\ pc[f] = "follower"
  /\ \/ follower' = follower \cup {cur[f]} /\ UNCHANGED faultsLeft
     \/ Fault("write") /\ UNCHANGED follower
  /\ Goto(f, "actor")
  /\ UNCHANGED <<traded, cut, seen, stamp, batch, cur, received, leader, counted, sampled>>

UpsertActor(f) ==
  /\ pc[f] = "actor"
  /\ \/ counted' = [counted EXCEPT ![cur[f]] = @ + 1] /\ UNCHANGED faultsLeft
     \/ Fault("write") /\ UNCHANGED counted
  /\ Goto(f, "cluster")
  /\ UNCHANGED <<traded, cut, seen, stamp, batch, cur, received, leader, follower, sampled>>

ClusterOnEvent(f) ==
  /\ pc[f] = "cluster"
  /\ \/ sampled' = sampled \cup {cur[f]} /\ UNCHANGED faultsLeft
     \/ Fault("write") /\ UNCHANGED sampled
  /\ NextEvent(f)
  /\ UNCHANGED <<traded, cut, seen, received, leader, follower, counted>>

-----------------------------------------------------------------------------
PollStep(f) ==
  \/ BeginPoll(f) \/ ReadPage(f) \/ EndPoll(f) \/ Skip(f) \/ MarkSeen(f)
  \/ InsertEvent(f) \/ InsertFails(f)
  \/ LeaderMarkouts(f) \/ FollowerMarkouts(f) \/ UpsertActor(f) \/ ClusterOnEvent(f)

Next == Trade \/ Expire \/ Restart \/ \E f \in Feeds : PollStep(f)

Spec == Init /\ [][Next]_intakeVars

(* Pollers run forever and the dedup memory forgets; nobody has to trade.  *)
FairSpec ==
  /\ Spec
  /\ \A f \in Feeds : WF_intakeVars(PollStep(f))
  /\ \A e \in Events : WF_intakeVars(Expire /\ e \notin seen')

-----------------------------------------------------------------------------
IntakeTypeOK ==
  /\ traded \in 0 .. MaxEvents /\ faultsLeft \in Nat /\ cut \subseteq Events
  /\ seen \subseteq Events
  /\ pc \in [Feeds -> PollerPlaces]
  /\ stamp \in [Feeds -> Nat]
  /\ batch \in [Feeds -> SUBSET Events]
  /\ cur \in [Feeds -> Events \cup {NULL}]
  /\ received \in [Events -> Nat \cup {NULL}]
  /\ leader \subseteq Events /\ follower \subseteq Events /\ sampled \subseteq Events
  /\ counted \in [Events -> Nat]
  /\ \A f \in Feeds : /\ cur[f] # NULL <=> pc[f] \in {"insert"} \cup Stages
                      /\ pc[f] \in {"idle", "polling"} => batch[f] = {}

(* An event is in its wallet's trade_count at most once, however many feeds*)
(* carry it, however their pollers interleave, and whatever dedup forgets  *)
(* or a restart loses (collector.go:91-102, actors.go:10).                 *)
CountedAtMostOnce == \A e \in Events : counted[e] <= 1

(* An event that stays on a page is stored in the end, although a failed   *)
(* insert leaves it marked as seen: dedup must forget it.                  *)
ShownIsStored ==
  \A f \in Feeds, e \in Events : <>[](e \in Page(f)) => <>(e \in Stored)

StagesOf(e) == IF e \in Priced THEN Stages ELSE {"actor", "cluster"}

Done(e, stage) ==
  \/ stage = "leader" /\ e \in leader
  \/ stage = "follower" /\ e \in follower
  \/ stage = "actor" /\ counted[e] > 0
  \/ stage = "cluster" /\ e \in sampled

Missing(e) == {stage \in StagesOf(e) : ~Done(e, stage)}

(* A failing stage costs its own rows and no others: unless a restart cuts *)
(* its pipeline short, whatever a stored event lacks in the end is a write *)
(* that failed (main.go:141-158, collector.go:99-103).                     *)
OnlyFailedWritesAreMissing ==
  \A e \in Events :
    (e \in Stored) ~> \/ e \in cut
                      \/ Cardinality(Missing(e)) <= MaxFaults - faultsLeft

-----------------------------------------------------------------------------
(* Claims the code does not keep: MCIntakeOnce refutes ExactlyOnceEntry,   *)
(* MCIntakeClaims the others.                                              *)

(* dedup.go:8: the memory exists for performance, the database remains the *)
(* final correctness gate: what it skips is stored or just being stored.   *)
SkippedIsStored ==
  [][ \A f \in Feeds, e \in Events :
        (Skip(f) /\ e \in batch[f] \ batch'[f]) =>
          e \in Stored \/ \E g \in Feeds : cur[g] = e ]_intakeVars

(* architecture.md:77: exactly-once pipeline entry.                        *)
ExactlyOnceEntry == \A e \in Events : (e \in Stored) ~> (Missing(e) = {})

(* docs/v0.1.3-dataset.md:108: source_received_at >= event_time.           *)
ReceivedAfterTrade == \A e \in Stored : received[e] >= e
=============================================================================
