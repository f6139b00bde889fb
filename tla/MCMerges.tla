-------------------------------- MODULE MCMerges --------------------------------
(***************************************************************************)
(* PendingMerges for two requests and two stream names.  As long as the    *)
(* requests do not overlap, both names are in play; once they did, one is, *)
(* and one audit row less is written.  Nothing reads a request's answer,   *)
(* so of requests that take turns one is enough.                           *)
(***************************************************************************)
EXTENDS PendingMerges, TLC

CONSTANTS n1, n2, r1, r2

Symmetry == Permutations({r1, r2}) \cup Permutations({n1, n2})

InUse == {db.rows[m].name : m \in DOMAIN db.rows}
           \cup {disk.rows[m].name : m \in DOMAIN disk.rows}
           \cup {req[r].name : r \in {q \in Requests : req[q].pc = "candidates"}}

Untouched(n) == catalog[n] = 1 /\ \A c \in Channels : n \notin on[c]

Small ==
    IF overlap
    THEN /\ Cardinality(InUse) <= 1 /\ \A n \in Names \ InUse : Untouched(n)
         /\ Len(db.audit) < MaxAudit
    ELSE Cardinality({r \in Requests : req[r] # Idle(NoAnswer)}) <= 1
=================================================================================
