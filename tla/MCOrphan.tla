-------------------------------- MODULE MCOrphan --------------------------------
(***************************************************************************)
(* Three settings of OrphanReconcile for two rules, two streams and two    *)
(* accounts: the one of the configuration ("single"), and two more.        *)
(***************************************************************************)
EXTENDS OrphanReconcile

CONSTANTS w1, w2

VARIABLE setting

TwoRules   == <<"r1", "r2">>
TwoStreams == {"s1", "s2"}
OwnNames   == [s \in TwoStreams |-> s]
OnAccounts == [s \in TwoStreams |-> IF s = "s1" THEN "a1" ELSE "a2"]
Each(x, y) == [r \in {"r1", "r2"} |-> IF r = "r1" THEN x ELSE y]
AnyAccount == Each(AllOf, AllOf)
FirstDeletes == Each("delete", "none")
OneEach    == Each({"s1"}, {"s2"})
EachRule   == {{"r1"}, {"r2"}, {"r1", "r2"}}
Unscoped   == {{}}

\* Two runs at once, rules that may use hand-built channels, and edits of rules.
Pair ==
  INSTANCE OrphanReconcile WITH
    Runners <- {w1, w2}, OrphanAction <- Each("delete", "move"), AllowManual <- TRUE,
    FaultKinds <- {"load", "fetch", "create", "lost", "delete"},
    Edits <- {"toggle", "delete"},
    MaxRuns <- 2, MaxCrashes <- 0, MaxEdits <- 1, MaxChurn <- 1, MaxIds <- 5

\* Rules that share a stream, a cap, and runs limited to one account.
Capped ==
  INSTANCE OrphanReconcile WITH
    OrphanAction <- Each("delete", "delete"), Takes <- Each({"s1"}, {"s1", "s2"}),
    Cap <- 1, RuleSets <- {{"r1", "r2"}}, Scopes <- {{}, {"a1"}},
    FaultKinds <- {"fetch", "create"}, Edits <- {"takes"},
    MaxCrashes <- 0, MaxEdits <- 1, MaxChurn <- 1

MCInit ==
  \/ setting = "single" /\ Init
  \/ setting = "pair"   /\ Pair!Init
  \/ setting = "capped" /\ Capped!Init

MCNext ==
  /\ \/ setting = "single" /\ Next
     \/ setting = "pair"   /\ Pair!Next
     \/ setting = "capped" /\ Capped!Next
  /\ UNCHANGED setting

MCSpec == MCInit /\ [][MCNext]_<<vars, setting>>
=================================================================================
