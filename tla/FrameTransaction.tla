-------------------------- MODULE FrameTransaction --------------------------
(***************************************************************************)
(* What the frame transaction promises, without saying how: a transaction  *)
(* asks some windows for a new buffer and shows all of them at once when   *)
(* the last one has answered.  At the deadline it shows what there is; the *)
(* windows that had not answered are then late, and catch up one by one or *)
(* are awaited again by a later transaction.                               *)
(***************************************************************************)
CONSTANT Windows

VARIABLES
  phase,      \* where the transaction is
  awaiting,   \* windows asked for a buffer that have not answered
  late        \* windows shown without the buffer they were asked for

vars == <<phase, awaiting, late>>

Init == phase = "idle" /\ awaiting = {} /\ late = {}

\* The window manager is asked what it wants.
Manage ==
  /\ phase = "idle" /\ phase' = "manage"
  /\ late' \subseteq late
  /\ UNCHANGED awaiting

\* Some windows are asked for a buffer, late ones among them or not.
Send ==
  /\ phase \in {"idle", "manage"} /\ phase' = "inflight_configures"
  /\ awaiting' \in (SUBSET Windows) \ {{}}
  /\ late' \subseteq late \ awaiting'

\* A window answers, or goes away, and it is not the last.
Answer(w) ==
  /\ phase = "inflight_configures"
  /\ w \in awaiting /\ awaiting # {w}
  /\ awaiting' = awaiting \ {w}
  /\ UNCHANGED <<phase, late>>

\* The frame is shown: no window is awaited, or the last one has answered.
Show ==
  /\ phase # "render" /\ phase' \in {"render", "idle"}
  /\ awaiting = {} \/ \E w \in awaiting : awaiting = {w}
  /\ awaiting' = {}
  /\ late' \subseteq late

\* The frame is shown at the deadline.
Expire ==
  /\ phase = "inflight_configures" /\ phase' \in {"render", "idle"}
  /\ awaiting' = {}
  /\ late' \subseteq late \cup awaiting

Finish ==
  /\ phase = "render" /\ phase' = "idle"
  /\ late' \subseteq late
  /\ UNCHANGED awaiting

\* A late window commits the buffer it was asked for, or goes away.
CatchUp ==
  /\ late' \subseteq late
  /\ UNCHANGED <<phase, awaiting>>

Next ==
  \/ Manage \/ Send \/ Show \/ Expire \/ Finish \/ CatchUp
  \/ \E w \in Windows : Answer(w)

Spec == Init /\ [][Next]_vars
=============================================================================
