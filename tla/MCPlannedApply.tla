----------------------------- MODULE MCPlannedApply -----------------------------
(***************************************************************************)
(* The two smaller users of prepared plans, side by side: either Emby's    *)
(* logo plans run, or the normalization apply does.  The other one stays   *)
(* in its initial state.                                                   *)
(***************************************************************************)
EXTENDS EmbyLogoPlans, NormalizationApply, TLC

CONSTANTS i1, i2, a, b, d, s1, s2, s3

VARIABLE setup

SomeOnly == {{i1}}

(* Three channels: the plain name, and two variants of it.                 *)
ThreeNames   == {"CNN", "CNN HD", "CNN FHD"}
ToPlain      == [n \in ThreeNames |-> "CNN"]
OneNameEach  == (a :> "CNN") @@ (b :> "CNN HD") @@ (d :> "CNN FHD")
OneStreamEach == (a :> {s1}) @@ (b :> {s2}) @@ (d :> {s3})

Symmetry == Permutations(Commits) \cup Permutations(Principals)

MCInit ==
  /\ setup \in {"emby", "apply"}
  /\ Init /\ ApplyInit
  /\ setup = "apply" => live = Items

MCNext ==
  \/ setup = "emby"  /\ Next      /\ UNCHANGED <<setup, applyVars>>
  \/ setup = "apply" /\ ApplyNext /\ UNCHANGED <<setup, vars>>

MCSpec == MCInit /\ [][MCNext]_<<vars, applyVars, setup>>
=================================================================================
