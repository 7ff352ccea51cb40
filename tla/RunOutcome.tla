----------------------------- MODULE RunOutcome -----------------------------
(***************************************************************************)
(* What a run promises its reader, without containers, volume or stages:   *)
(* a launch settles every language once, and only when all are settled     *)
(* does the manifest leave "started", for the verdict the outcomes call    *)
(* for.  A launch may die at any point; a later one starts over with the   *)
(* languages that are kept.                                                *)
(***************************************************************************)
CONSTANT Slugs

VARIABLES outcome, verdict

vars == <<outcome, verdict>>

Outcomes == {"open", "kept", "failed"}
Verdicts == {"none", "started", "completed", "partial", "failed"}

TypeOK == outcome \in [Slugs -> Outcomes] /\ verdict \in Verdicts

VerdictOf(o) ==
    IF \A s \in Slugs : o[s] = "kept" THEN "completed"
    ELSE IF \A s \in Slugs : o[s] = "failed" THEN "failed"
    ELSE "partial"

Init == outcome = [s \in Slugs |-> "open"] /\ verdict = "none"

Launch(kept) ==
    /\ outcome' = [s \in Slugs |-> IF s \in kept THEN "kept" ELSE "open"]
    /\ verdict' = "started"

Settle(s, o) ==
    /\ verdict = "started"
    /\ outcome[s] = "open"
    /\ outcome' = [outcome EXCEPT ![s] = o]
    /\ UNCHANGED verdict

Judge ==
    /\ verdict = "started"
    /\ \A s \in Slugs : outcome[s] # "open"
    /\ verdict' = VerdictOf(outcome)
    /\ UNCHANGED outcome

Next ==
    \/ \E kept \in SUBSET Slugs : Launch(kept)
    \/ \E s \in Slugs, o \in {"kept", "failed"} : Settle(s, o)
    \/ Judge

Spec == Init /\ [][Next]_vars

=============================================================================
