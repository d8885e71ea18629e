----------------------------- MODULE IntakeProof -----------------------------
(***************************************************************************)
(* Proofs about the intake, for any number of feeds and events, whatever   *)
(* the feeds share and whatever the dedup memory forgets.                  *)
(***************************************************************************)
EXTENDS Intake, TLAPS

USE IntakeConstantsOK DEF IntakeConstantsOK

Busy == {"insert"} \cup Stages

(* What is pushed down the pipeline is stored, by one poller only, and not *)
(* counted yet before the actor stage is over.                             *)
StagesHoldStored == \A f \in Feeds : pc[f] \in Stages => cur[f] \in Stored

OnePipelinePerEvent ==
  \A f, g \in Feeds :
    f # g /\ pc[f] \in Stages /\ pc[g] \in Stages => cur[f] # cur[g]

CountedLast ==
  /\ \A e \in Events : e \notin Stored => counted[e] = 0
  /\ \A f \in Feeds : pc[f] \in Stages \ {"cluster"} => counted[cur[f]] = 0

IntakeInv ==
  /\ IntakeTypeOK
  /\ StagesHoldStored
  /\ OnePipelinePerEvent
  /\ CountedLast
  /\ CountedAtMostOnce

-----------------------------------------------------------------------------
LEMMA InitIntake == Init => IntakeInv
BY DEF Init, AllIdle, IntakeInv, IntakeTypeOK, PollerPlaces, StagesHoldStored, Stages,
       OnePipelinePerEvent, CountedLast, CountedAtMostOnce

(* A step that touches neither the stored events nor the counts, and moves *)
(* no poller into the pipeline or along it with another event.             *)
LEMMA OutsidePipeline ==
  ASSUME IntakeInv, IntakeTypeOK', UNCHANGED <<received, counted>>,
         \A f \in Feeds : pc'[f] \in Stages =>
                            /\ pc[f] \in Stages /\ cur'[f] = cur[f]
                            /\ pc'[f] # "cluster" => pc[f] # "cluster"
  PROVE  IntakeInv'
<1>1. Stored' = Stored
  BY DEF Stored
<1> QED BY <1>1 DEF IntakeInv, StagesHoldStored, OnePipelinePerEvent, CountedLast,
                    CountedAtMostOnce

LEMMA EnvironmentIntake ==
  ASSUME IntakeInv, Trade \/ Expire \/ Restart PROVE IntakeInv'
<1>1. IntakeTypeOK'
  <2>1. CASE Trade
    BY <2>1 DEF Trade, IntakeInv, IntakeTypeOK, poller, tables
  <2>2. CASE Expire
    BY <2>2 DEF Expire, IntakeInv, IntakeTypeOK, poller, tables
  <2>3. CASE Restart
    <3>1. \A f \in Feeds : pc[f] \in Stages => cur[f] \in Events
      BY DEF IntakeInv, IntakeTypeOK
    <3>2. cut' \subseteq Events
      BY <2>3, <3>1 DEF Restart, IntakeInv, IntakeTypeOK
    <3> QED BY <2>3, <3>2 DEF Restart, Fault, IntakeInv, IntakeTypeOK, PollerPlaces, Stages, tables
  <2> QED BY <2>1, <2>2, <2>3
<1>2. UNCHANGED <<received, counted>>
  BY DEF Trade, Expire, Restart, tables
<1>3. \A f \in Feeds : \/ pc'[f] = pc[f] /\ cur'[f] = cur[f]
                       \/ pc'[f] \notin Stages
  BY DEF Trade, Expire, Restart, poller, Stages
<1> QED BY <1>1, <1>2, <1>3, OutsidePipeline

LEMMA PollIntake ==
  ASSUME IntakeInv, NEW f \in Feeds,
         BeginPoll(f) \/ ReadPage(f) \/ EndPoll(f) \/ Skip(f) \/ MarkSeen(f) \/ InsertFails(f)
  PROVE  IntakeInv'
<1>1. IntakeTypeOK'
  <2> USE DEF IntakeInv, IntakeTypeOK, Goto
  <2>1. CASE BeginPoll(f)
    BY <2>1 DEF BeginPoll, PollerPlaces, Stages, tables
  <2>2. CASE ReadPage(f)
    <3>1. Page(f) \in SUBSET Events
      BY DEF Page, Shown
    <3> QED BY <2>2, <3>1 DEF ReadPage, PollerPlaces, Stages, tables
  <2>3. CASE EndPoll(f)
    BY <2>3 DEF EndPoll, EndOfPoll, PollerPlaces, Stages, tables
  <2>4. CASE Skip(f)
    BY <2>4 DEF Skip, PollerPlaces, Stages, tables
  <2>5. CASE MarkSeen(f)
    <3>1. PICK e \in batch[f] \ seen :
            /\ seen' = seen \cup {e}
            /\ cur' = [cur EXCEPT ![f] = e]
            /\ batch' = [batch EXCEPT ![f] = @ \ {e}]
      BY <2>5 DEF MarkSeen
    <3>2. e \in Events /\ e # NULL
      BY <3>1 DEF Events
    <3> QED BY <2>5, <3>1, <3>2 DEF MarkSeen, PollerPlaces, Stages, tables
  <2>6. CASE InsertFails(f)
    BY <2>6 DEF InsertFails, Fault, EndOfPoll, PollerPlaces, Stages, tables
  <2> QED BY <2>1, <2>2, <2>3, <2>4, <2>5, <2>6
<1>2. UNCHANGED <<received, counted>>
  BY DEF BeginPoll, ReadPage, EndPoll, Skip, MarkSeen, InsertFails, tables
<1>3. \A g \in Feeds : \/ pc'[g] = pc[g] /\ cur'[g] = cur[g]
                       \/ pc'[g] \notin Stages
  BY DEF BeginPoll, ReadPage, EndPoll, EndOfPoll, Skip, MarkSeen, InsertFails, Goto, Stages,
         IntakeInv, IntakeTypeOK
<1> QED BY <1>1, <1>2, <1>3, OutsidePipeline

(* The insert decides who pushes the event down the pipeline.              *)
LEMMA InsertIntake ==
  ASSUME IntakeInv, NEW f \in Feeds, InsertEvent(f) PROVE IntakeInv'
<1> DEFINE e == cur[f]
<1>0. pc[f] = "insert" /\ e \in Events /\ stamp[f] \in Nat /\ stamp[f] # NULL
  BY DEF InsertEvent, IntakeInv, IntakeTypeOK
<1>1. CASE received[e] = NULL
  <2>1. /\ received' = [received EXCEPT ![e] = stamp[f]]
        /\ pc' = [pc EXCEPT ![f] = IF e \in Priced THEN "leader" ELSE "actor"]
        /\ UNCHANGED <<traded, cut, faultsLeft, seen, stamp, batch, cur, leader, follower,
                       counted, sampled>>
    BY <1>1 DEF InsertEvent, IsNew, Goto
  <2>2. IntakeTypeOK'
    BY <1>0, <2>1 DEF IntakeInv, IntakeTypeOK, PollerPlaces, Stages
  <2>3. e \notin Stored /\ Stored' = Stored \cup {e}
    BY <1>0, <1>1, <2>1 DEF Stored, IntakeInv, IntakeTypeOK
  <2>4. \A g \in Feeds \ {f} : pc'[g] = pc[g] /\ cur'[g] = cur[g]
                               /\ (pc[g] \in Stages => cur[g] # e)
    BY <2>1, <2>3 DEF IntakeInv, IntakeTypeOK, StagesHoldStored
  <2>5. counted[e] = 0 /\ cur'[f] = e
    BY <1>0, <2>1, <2>3 DEF IntakeInv, CountedLast
  <2>6. StagesHoldStored' /\ OnePipelinePerEvent'
    BY <2>3, <2>4, <2>5 DEF IntakeInv, StagesHoldStored, OnePipelinePerEvent
  <2>7. CountedLast' /\ CountedAtMostOnce'
    BY <2>1, <2>3, <2>4, <2>5 DEF IntakeInv, CountedLast, CountedAtMostOnce
  <2> QED BY <2>2, <2>6, <2>7 DEF IntakeInv
<1>2. CASE received[e] # NULL
  <2>1. /\ pc' = [pc EXCEPT ![f] = "next"] /\ cur' = [cur EXCEPT ![f] = NULL]
        /\ UNCHANGED <<traded, cut, faultsLeft, seen, stamp, batch, leader, follower,
                       counted, sampled>>
    BY <1>2 DEF InsertEvent, IsNew, NextEvent, Goto
  <2>2. received' = received
    BY <1>0, <1>2 DEF InsertEvent, IntakeInv, IntakeTypeOK
  <2>3. IntakeTypeOK'
    BY <1>0, <2>1, <2>2 DEF IntakeInv, IntakeTypeOK, PollerPlaces, Stages
  <2>4. \A g \in Feeds : \/ pc'[g] = pc[g] /\ cur'[g] = cur[g]
                         \/ pc'[g] \notin Stages
    BY <2>1 DEF IntakeInv, IntakeTypeOK, Stages
  <2> QED BY <2>1, <2>2, <2>3, <2>4, OutsidePipeline
<1> QED BY <1>1, <1>2

LEMMA StageIntake ==
  ASSUME IntakeInv, NEW f \in Feeds,
         LeaderMarkouts(f) \/ FollowerMarkouts(f) \/ ClusterOnEvent(f)
  PROVE  IntakeInv'
<1>0. pc[f] \in Stages => cur[f] \in Events
  BY DEF IntakeInv, IntakeTypeOK, Stages
<1>1. IntakeTypeOK'
  <2> USE DEF IntakeInv, IntakeTypeOK, Goto, Fault
  <2>1. CASE LeaderMarkouts(f)
    BY <1>0, <2>1 DEF LeaderMarkouts, PollerPlaces, Stages
  <2>2. CASE FollowerMarkouts(f)
    BY <1>0, <2>2 DEF FollowerMarkouts, PollerPlaces, Stages
  <2>3. CASE ClusterOnEvent(f)
    BY <1>0, <2>3 DEF ClusterOnEvent, NextEvent, PollerPlaces, Stages
  <2> QED BY <2>1, <2>2, <2>3
<1>2. UNCHANGED <<received, counted>>
  BY DEF LeaderMarkouts, FollowerMarkouts, ClusterOnEvent
<1>3. \A g \in Feeds : pc'[g] \in Stages =>
                         /\ pc[g] \in Stages /\ cur'[g] = cur[g]
                         /\ pc'[g] # "cluster" => pc[g] # "cluster"
  BY DEF LeaderMarkouts, FollowerMarkouts, ClusterOnEvent, NextEvent, Goto, Stages,
         IntakeInv, IntakeTypeOK
<1> QED BY <1>1, <1>2, <1>3, OutsidePipeline

(* The upsert of the only poller that holds the event.                     *)
LEMMA ActorIntake ==
  ASSUME IntakeInv, NEW f \in Feeds, UpsertActor(f) PROVE IntakeInv'
<1> DEFINE e == cur[f]
<1>1. pc[f] = "actor" /\ e \in Events /\ e \in Stored /\ counted[e] = 0
  BY DEF UpsertActor, IntakeInv, IntakeTypeOK, StagesHoldStored, CountedLast, Stages
<1>2. /\ pc' = [pc EXCEPT ![f] = "cluster"]
      /\ UNCHANGED <<traded, cut, seen, stamp, batch, cur, received, leader, follower, sampled>>
      /\ counted' = [counted EXCEPT ![e] = 1] \/ counted' = counted
  BY <1>1 DEF UpsertActor, Goto
<1>3. IntakeTypeOK'
  BY <1>1, <1>2 DEF UpsertActor, Fault, IntakeInv, IntakeTypeOK, PollerPlaces, Stages
<1>4. Stored' = Stored
  BY <1>2 DEF Stored
<1>5. \A d \in Events : counted'[d] = counted[d] \/ (d = e /\ counted'[d] = 1)
  <2>1. counted \in [Events -> Nat]
    BY DEF IntakeInv, IntakeTypeOK
  <2>2. CASE counted' = counted
    BY <2>2
  <2>3. CASE counted' = [counted EXCEPT ![e] = 1]
    BY <2>1, <2>3
  <2> QED BY <1>2, <2>2, <2>3
<1>6. \A g \in Feeds \ {f} : pc'[g] = pc[g] /\ (pc[g] \in Stages => cur[g] # e /\ cur[g] \in Events)
  BY <1>1, <1>2 DEF IntakeInv, IntakeTypeOK, OnePipelinePerEvent, Stages
<1>7. pc'[f] = "cluster" /\ "cluster" \in Stages
  BY <1>2 DEF IntakeInv, IntakeTypeOK, Stages
<1>8. StagesHoldStored' /\ OnePipelinePerEvent'
  BY <1>1, <1>2, <1>4, <1>6 DEF IntakeInv, StagesHoldStored, OnePipelinePerEvent, Stages
<1>9. CountedLast' /\ CountedAtMostOnce'
  BY <1>1, <1>2, <1>4, <1>5, <1>6, <1>7 DEF IntakeInv, CountedLast, CountedAtMostOnce
<1> QED BY <1>3, <1>8, <1>9 DEF IntakeInv

LEMMA StepIntake == IntakeInv /\ [Next]_intakeVars => IntakeInv'
<1> SUFFICES ASSUME IntakeInv, [Next]_intakeVars PROVE IntakeInv'
  OBVIOUS
<1>1. CASE Trade \/ Expire \/ Restart
  BY <1>1, EnvironmentIntake
<1>2. CASE \E f \in Feeds : PollStep(f)
  BY <1>2, PollIntake, InsertIntake, StageIntake, ActorIntake DEF PollStep
<1>3. CASE UNCHANGED intakeVars
  BY <1>3 DEF intakeVars, poller, tables, IntakeInv, IntakeTypeOK, StagesHoldStored,
              OnePipelinePerEvent, CountedLast, CountedAtMostOnce, Stored
<1> QED BY <1>1, <1>2, <1>3 DEF Next

THEOREM IntakeInvariant == Spec => []IntakeInv
BY InitIntake, StepIntake, PTL DEF Spec

(* An event is counted at most once, for any feeds, interleaving, dedup    *)
(* behaviour and any restarts and failed writes.                           *)
THEOREM EventsCountedAtMostOnce == Spec => []CountedAtMostOnce
<1>1. IntakeInv => CountedAtMostOnce
  BY DEF IntakeInv
<1> QED BY <1>1, IntakeInvariant, PTL

(* The pollers' memory and the tables keep their types (collector.go).     *)
THEOREM IntakeIsTyped == Spec => []IntakeTypeOK
<1>1. IntakeInv => IntakeTypeOK BY DEF IntakeInv
<1> QED BY <1>1, IntakeInvariant, PTL
=============================================================================
