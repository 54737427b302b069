-------------------------- MODULE PreviewContract ---------------------------
(***************************************************************************)
(* What a display preview promises, without saying how: a candidate is     *)
(* tried, offered, perhaps doubted and offered again; once it was given up *)
(* it is never offered again.  It is offered, kept and reported as         *)
(* reverted only while every screen shows what is said.  One saving is     *)
(* authorised at most, of a candidate on offer; without it the files stay  *)
(* as they are, and what has become of it is decided once.                 *)
(***************************************************************************)
VARIABLES
  phase,     \* of the preview
  view,      \* the configurations, of before and of after, that all screens show
  granted,   \* whether somebody was authorised to save the candidate
  outcome    \* what has become of saving it: "none" yet, "failed" or "saved"

vars == <<phase, view, granted, outcome>>

Configurations == {"before", "after"}
Standing == {"applying", "previewing", "commit_authorized"}

Init ==
  /\ phase = "none"
  /\ view \in SUBSET Configurations
  /\ granted = FALSE
  /\ outcome = "none"

Begin == phase = "none" /\ phase' = "applying" /\ UNCHANGED granted

Offer ==
  /\ phase = "applying" /\ phase' = "previewing"
  /\ "after" \in view'
  /\ UNCHANGED granted

\* The screens are expected to change: the offer waits until they have.
Doubt == phase = "previewing" /\ phase' = "applying" /\ UNCHANGED granted

Authorize ==
  /\ phase = "previewing" /\ phase' = "commit_authorized"
  /\ ~granted /\ granted'

Keep ==
  /\ phase = "commit_authorized" /\ phase' = "kept"
  /\ "after" \in view' /\ outcome' = "saved"
  /\ UNCHANGED granted

Withdraw == phase \in Standing /\ phase' = "withdrawn" /\ UNCHANGED granted

Restore ==
  /\ phase = "withdrawn" /\ phase' = "reverted"
  /\ "before" \in view'
  /\ UNCHANGED granted

\* The preview ends in a configuration that is neither.
Lose == phase \in Standing \cup {"withdrawn"} /\ phase' = "lost" /\ UNCHANGED granted

\* The screens change as they like, and a saving is decided.
Look ==
  /\ view' \in SUBSET Configurations
  /\ outcome' # outcome => granted /\ outcome = "none" /\ outcome' \in {"failed", "saved"}

Next ==
  /\ Look
  /\ \/ UNCHANGED <<phase, granted>>
     \/ Begin \/ Offer \/ Doubt \/ Authorize \/ Keep \/ Withdraw \/ Restore \/ Lose

Spec == Init /\ [][Next]_vars
=============================================================================
