-------------------------------- MODULE MCRevert --------------------------------
(***************************************************************************)
(* Three settings of PipelineRevert with different bounds, checked against *)
(* the same properties.  A behaviour stays in the setting it begins in; the *)
(* configuration has the largest of each bound.                            *)
(***************************************************************************)
EXTENDS PipelineRevert, TLC

\* A hand-built channel and an event_sync master.
CONSTANTS manual, master, s1, s2, s3, u1, u2

VARIABLE setting

OneStreamEach == [c \in Channels |-> {s1}]

\* The reverts, and the streams no channel has at the start, are interchangeable.
Alike == Permutations({u1, u2}) \cup Permutations({s2, s3})

\* Calls fail, writes fail and the process dies.
Faulty ==
  INSTANCE PipelineRevert WITH
    FlushAt <- 4,
    MaxOps <- 2, MaxEdits <- 0, MaxFaults <- 1, MaxLapses <- 1, MaxCrashes <- 1

\* The journal and the snapshot are lost: a run of three operations.
Legacy ==
  INSTANCE PipelineRevert WITH
    FlushAt <- 2,
    MaxOps <- 3, MaxEdits <- 0, MaxFaults <- 0, MaxLapses <- 3, MaxCrashes <- 0

\* Others edit the channels before, during and after two reverts.
Edited ==
  INSTANCE PipelineRevert WITH
    FlushAt <- 1,
    MaxOps <- 1, MaxEdits <- 2, MaxFaults <- 0, MaxLapses <- 0, MaxCrashes <- 0

MCInit ==
  \/ setting = "faulty" /\ Faulty!Init
  \/ setting = "legacy" /\ Legacy!Init
  \/ setting = "edited" /\ Edited!Init

MCNext ==
  /\ \/ setting = "faulty" /\ Faulty!Next
     \/ setting = "legacy" /\ Legacy!Next
     \/ setting = "edited" /\ Edited!Next
  /\ UNCHANGED setting

MCSpec == MCInit /\ [][MCNext]_<<vars, setting>>
=================================================================================
