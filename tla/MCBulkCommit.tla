----------------------------- MODULE MCBulkCommit -----------------------------
(***************************************************************************)
(* The bulk commit in four settings: two of StagedPlan (what a request of  *)
(* up to four operations means), one of BulkCommit (a run, in three        *)
(* environments), one of BulkCommitJobs (the job a client polls).  A       *)
(* behaviour is in one setting; the variables of the others stand still.   *)
(***************************************************************************)
EXTENDS BulkCommit, BulkCommitJobs, TLC

CONSTANTS MaxOps

VARIABLES setting, lineup, ops

Num(n) == [num |-> n]
Consent(n, who) == [number |-> n, occupants |-> who]

-------------------------------------------------------------------------------
(* Staged requests: every kind of operation on two real channels and one   *)
(* the request creates; numbering edits of four channels onto four numbers.*)
MixVocabulary ==
    {Update(1, Num(11), NoAck), Update(1, Num(11), Consent(11, {2})),
     Update(1, Num(12), NoAck), Update(1, Num(Unset), NoAck),
     Update(1, [group |-> "g", num |-> 12], NoAck), Update(2, [group |-> "g"], NoAck),
     Update(2, Num(11), NoAck), Update(-1, Num(12), Consent(12, {1})),
     Update(-1, Num(11), NoAck),
     Assign(<<1, 2>>, 11), Assign(<<2, 1>>, 10), Assign(<<-1, 2>>, 11), Assign(<<2, 2>>, 11),
     CreateChannel(-1, 12, NoAck, FALSE), CreateChannel(-1, 11, Consent(11, {2}), FALSE),
     CreateChannel(-1, Unset, NoAck, FALSE),
     Delete(1), Delete(2), Delete(-1),
     StreamOp("addStreamToChannel", -1, {"s"}), StreamOp("addStreamToChannel", 1, {"s"}),
     GroupOp("deleteChannelGroup", "g")}

RunVocabulary ==
    {Update(c, Num(n), NoAck) : c \in 1 .. 4, n \in 10 .. 13} \cup {Update(1, Num(Unset), NoAck)}

Mixed ==
    INSTANCE StagedPlan WITH
      Vocabulary <- MixVocabulary, Lineups <- {(1 :> 10) @@ (2 :> 11), (1 :> 10) @@ (2 :> 10)}

Renumbering ==
    INSTANCE StagedPlan WITH
      Vocabulary <- RunVocabulary,
      Lineups <- {<<10, 11, 12, 13>>, <<10, 10, 11, 12>>, <<10, 10, 11, 11>>, <<Unset, 10, 11, 11>>}

-------------------------------------------------------------------------------
(* Runs: three channels, two of them in group "g".                         *)
Three ==
    [num |-> <<10, 11, 12>>, group |-> <<"g", "g", "d">>,
     streams |-> <<{"a", "b"}, {"a"}, {}>>, groups |-> {"d", "g"}]

Req(list, coe, consolidate, newGroup) ==
    [ops |-> list, coe |-> coe, consolidate |-> consolidate, newGroup |-> newGroup]

Swap == <<Update(1, Num(11), NoAck), Update(2, Num(10), NoAck), SetProfile(3)>>
Twice == <<Update(1, Num(20), NoAck), Update(2, Num(22), NoAck), Update(1, Num(21), NoAck)>>
Ranges == <<Update(1, Num(20), NoAck), Assign(<<2, 3>>, 30), Assign(<<2, 3>>, 30)>>
Made == <<CreateChannel(-1, Unset, NoAck, TRUE), Update(-1, Num(41), NoAck),
          StreamOp("addStreamToChannel", -1, {"a"}), Update(3, Num(42), NoAck)>>
Emptied == <<Update(2, [group |-> "d"], NoAck), GroupOp("deleteChannelGroup", "g"), Delete(1), Delete(1)>>
Streams == <<StreamOp("addStreamToChannel", 3, {"a"}), StreamOp("reorderChannelStreams", 1, {"a", "b"}),
             StreamOp("removeStreamFromChannel", 2, {"b"})>>
Tables == <<ClearStats, GroupOp("restoreChannelGroup", "g"), GroupOp("renameChannelGroup", "g"),
            GroupOp("createGroup", "new"), GroupOp("createGroup", "n")>>
Regrouped == <<Update(1, [group |-> "g", num |-> 20], NoAck), Update(3, [group |-> "none"], NoAck),
               Update(2, [group |-> "d"], NoAck), Update(2, [group |-> "d"], NoAck)>>
Claims == <<UpdateExpecting(1, Num(20), NoAck, 10), UpdateExpecting(1, Num(21), NoAck, 10),
            UpdateExpecting(2, Num(22), NoAck, 11)>>
Crowded == <<Update(1, Num(11), NoAck), Delete(3)>>
Dangling == <<CreateChannel(-1, 40, NoAck, FALSE), SetProfile(-1), Delete(-1)>>
Repeated == <<Update(1, Num(20), NoAck), Assign(<<2, 2>>, 10), Update(2, Num(10), NoAck),
              Assign(<<>>, 5)>>
Wrong == <<StreamOp("reorderChannelStreams", 1, {"a"}), Update(2, Num(20), NoAck)>>

AllRequests ==
    {Req(list, coe, FALSE, FALSE) : list \in {Swap, Twice, Ranges, Made, Emptied, Streams, Regrouped,
                                              Claims, Crowded, Repeated}, coe \in BOOLEAN}
    \cup {Req(Tables, coe, FALSE, TRUE) : coe \in BOOLEAN}
    \cup {Req(Twice, TRUE, TRUE, FALSE), Req(Dangling, FALSE, TRUE, FALSE), Req(Wrong, TRUE, FALSE, FALSE)}

(* Every request of three operations from this list. *)
Mix ==
    {Update(1, Num(11), Consent(11, {2})), Update(2, Num(20), NoAck),
     Update(2, [group |-> "d", num |-> 11], NoAck), Update(1, [group |-> "g"], NoAck),
     Assign(<<2, 1>>, 10), Assign(<<3, 2>>, 20), CreateChannel(-1, 30, NoAck, TRUE), Update(-1, Num(31), NoAck),
     Delete(2), GroupOp("deleteChannelGroup", "g"), StreamOp("removeStreamFromChannel", 1, {"a"})}

MixRequests ==
    {r \in {Req(list, coe, con, FALSE) : list \in Mix \X Mix \X Mix, coe \in BOOLEAN, con \in BOOLEAN} :
        DependenciesHold(r.ops)} \cup AllRequests

ClaimRequests == {Req(Claims, coe, con, FALSE) : coe, con \in BOOLEAN} \cup {Req(Regrouped, TRUE, FALSE, FALSE)}

Values == [num |-> {10, 15}, group |-> {"d", "g"}, stream |-> {"x"}]

(* A run alone; with another client at work and answers that get lost;     *)
(* with another client before it, which it may not see.                    *)
AloneScenario ==
    [requests |-> MixRequests,
     env |-> [faults |-> {"read", "refused", "malformed", "journal"}, cancellable |-> TRUE,
              stat |-> Values, maxOther |-> 0, earlyOnly |-> TRUE]]

CrowdScenario ==
    [requests |-> AllRequests,
     env |-> [faults |-> {"refused", "lost"}, cancellable |-> TRUE,
              stat |-> Values, maxOther |-> 1, earlyOnly |-> FALSE]]

ExpectingScenario ==
    [requests |-> ClaimRequests,
     env |-> [faults |-> {"lineup", "read", "refused"}, cancellable |-> FALSE,
              stat |-> Values, maxOther |-> 1, earlyOnly |-> TRUE]]

AllScenarios == {AloneScenario, CrowdScenario, ExpectingScenario}

-------------------------------------------------------------------------------
stagedVars == <<lineup, ops>>

Off == "off"
StagingOff == lineup = Off /\ ops = Off
RunOff == env = AloneScenario.env /\ request = Req(Swap, TRUE, FALSE, FALSE) /\ CommitInit

MCInit ==
    \/ setting = "mixed"      /\ Mixed!Init       /\ RunOff     /\ JobsInit
    \/ setting = "renumbered" /\ Renumbering!Init /\ RunOff     /\ JobsInit
    \/ setting = "run"        /\ CommitInit       /\ StagingOff /\ JobsInit
    \/ setting = "jobs"       /\ RunOff           /\ StagingOff /\ JobsInit

(* A caller may stop staging, and a client is done when it was answered.   *)
Rest == setting \in {"mixed", "renumbered", "jobs"} /\ UNCHANGED <<stagedVars, commitVars, jobVars>>

MCNext ==
    /\ \/ setting = "mixed"      /\ Mixed!Next       /\ UNCHANGED <<commitVars, jobVars>>
       \/ setting = "renumbered" /\ Renumbering!Next /\ UNCHANGED <<commitVars, jobVars>>
       \/ setting = "run"        /\ CommitNext       /\ UNCHANGED <<stagedVars, jobVars>>
       \/ setting = "jobs"       /\ JobsNext         /\ UNCHANGED <<stagedVars, commitVars>>
       \/ Rest
    /\ UNCHANGED setting

MCSpec ==
    /\ MCInit /\ [][MCNext]_<<setting, stagedVars, commitVars, jobVars>>
    /\ JobsFairness

-------------------------------------------------------------------------------
(* Consolidation keeps every channel's final number                        *)
(* (StagedPlan!ConsolidationKeepsNumbers).                                 *)
ConsolidatedNumbers == setting = "mixed" => Mixed!ConsolidationKeepsNumbers

(* One emitted operation writes a number (StagedPlan!OneWriterPerNumber).  *)
OneWriter == setting = "mixed" => Mixed!OneWriterPerNumber

(* An accepted collision was confirmed (StagedPlan!EveryCollisionWasShown).*)
CollisionsShown == setting = "mixed" => Mixed!EveryCollisionWasShown

(* Resequencing keeps final numbers (StagedPlan!ResequencingKeepsNumbers). *)
ResequencedNumbers == setting = "renumbered" => Renumbering!ResequencingKeepsNumbers

(* A write lands early only on a cycle (StagedPlan!OnlyCycleBreaksShare).  *)
CyclesOnly == setting = "renumbered" => Renumbering!OnlyCycleBreaksShare

(* What is sent to Dispatcharr leaves the numbers the caller staged: after  *)
(* consolidation, by one writer each, and after resequencing.               *)
PlanKeepsNumbers == ConsolidatedNumbers /\ OneWriter /\ ResequencedNumbers

(* Two channels share a number only where the caller was shown it, or for   *)
(* the moment a cycle of renumberings is broken.                            *)
SharingIsMeant == CollisionsShown /\ CyclesOnly
===============================================================================
