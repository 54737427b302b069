---------------------------- MODULE LockContract ----------------------------
(***************************************************************************)
(* What the session lock promises, without saying how: the session may be  *)
(* visible on any output until the lock is secured, on none from then on,  *)
(* and nobody but a client that was told that the session is locked gets   *)
(* it unlocked.  A client that goes away leaves the session as it is, and  *)
(* another one may take its place.                                         *)
(*                                                                         *)
(* The promise has one exception: outputs that were reconfigured behind    *)
(* the lock's back may still show the session when the lock is secured.    *)
(* Once it is, no output joins them, and each that has left stays away.    *)
(***************************************************************************)
CONSTANT Outputs

VARIABLES
  phase,     \* "unlocked", "locking" or "locked"
  visible,   \* the outputs that show the session, or are about to
  stray,     \* those that do because of a reconfiguration not accounted for
  told       \* a client holds the lock and knows that the session is locked

vars == <<phase, visible, stray, told>>

Init == phase = "unlocked" /\ visible = {} /\ stray = {} /\ told = FALSE

Begin ==
  /\ phase = "unlocked" /\ phase' = "locking"
  /\ UNCHANGED <<visible, stray, told>>

\* Rendering, presentations and reconfigurations change what is visible.
Expose ==
  /\ phase # "locked"
  /\ visible' \subseteq Outputs /\ stray' \subseteq Outputs
  /\ UNCHANGED <<phase, told>>

\* The lock is complete, even if its client did not live to see it.
Secure ==
  /\ phase = "locking" /\ phase' = "locked"
  /\ visible' = {} /\ stray' \subseteq stray
  /\ told' \in BOOLEAN

\* A frame that hides the session takes the place of a stray one.
Fade ==
  /\ phase = "locked"
  /\ stray' \subseteq stray
  /\ UNCHANGED <<phase, visible, told>>

TakeOver ==
  /\ phase = "locked" /\ ~told /\ told'
  /\ UNCHANGED <<phase, visible, stray>>

Abandon ==
  /\ told /\ ~told'
  /\ UNCHANGED <<phase, visible, stray>>

Release ==
  /\ phase = "locked" /\ told
  /\ phase' = "unlocked" /\ ~told'
  /\ UNCHANGED <<visible, stray>>

Next == Begin \/ Expose \/ Secure \/ Fade \/ TakeOver \/ Abandon \/ Release

Spec == Init /\ [][Next]_vars
=============================================================================
