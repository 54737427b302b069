-------------------------- MODULE MCDisplayPreview --------------------------
EXTENDS DisplayPreview

\* One screen gets a new mode, the other one goes off.
OnePlan == { <<Candidate, Off>> }

OneScreen == { <<Candidate>> }

SyncOne == {1}
=============================================================================
