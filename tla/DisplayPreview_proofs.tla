------------------------ MODULE DisplayPreview_proofs ------------------------
(***************************************************************************)
(* Proofs about DisplayPreview for any number of outputs, any candidates   *)
(* and any number of troubles; nothing is assumed but the ASSUMEs of that  *)
(* module.                                                                 *)
(*                                                                         *)
(* The functions of the preview are called from the middle of each other,  *)
(* so the invariant is stated of the s they work on (Sound), and every one *)
(* of them is shown to keep it and to move the lease only along (Moves);   *)
(* the actions then follow by what they call.                              *)
(***************************************************************************)
EXTENDS DisplayPreview, SequenceTheorems, TLAPS

-----------------------------------------------------------------------------
(***************************************************************************)
(* The inductive invariant.                                                *)
(***************************************************************************)
FrameType == [picture : Picture, fresh : BOOLEAN]
FlightType == UNION {[1 .. n -> FrameType] : n \in 0 .. MaxFlight}
ItemType == [target : Sync \cup {"null"}, submitted : BOOLEAN,
             presented : BOOLEAN, rejected : BOOLEAN]
SType == [outputs : [Outputs -> OutputType], lease : LeaseType, dirty : BOOLEAN]

\* A candidate turns outputs on or off, never dark; so an output in the power
\* client's hands is not in the state the lease gave it.
DarkInv(s) ==
  /\ \A o \in Outputs : s.lease.after[o] >= 0
  /\ \A o \in Outputs :
       s.outputs[o].blanked /\ s.outputs[o].connected => s.outputs[o].scheduled < 0
  /\ s.lease.state = "none" => \A o \in Outputs : ~s.outputs[o].blanked

\* While the helper may save the candidate, the outputs are in it.
Candidates(s) ==
  s.lease.state = "commit_authorized" =>
    \A o \in Outputs : /\ s.outputs[o].connected
                       /\ s.outputs[o].hw = s.lease.after[o]
                       /\ s.outputs[o].scheduled = s.lease.after[o]

\* After the commit deadline there is only the rollback, and how it ended.
RollbackInv(s) ==
  s.lease.reason = "commit_deadline" => s.lease.state \in {"reverting", "invalidated"}

Safe(s) == s \in SType /\ DarkInv(s) /\ RollbackInv(s)
Sound(s) == Safe(s) /\ Candidates(s)

\* A set that was sent before the helper asked is the candidate too.
SentInv ==
  wm.phase = "sent" /\ lease.state = "commit_authorized" =>
    \A o \in Outputs : outputs[o].sent = lease.after[o]

\* A helper that has left its decision has saved the candidate.
DecidedInv == files.helper = "decided" => files.decision = "saved"

\* Nobody saves a candidate whose deadline led to a rollback.
OvertakenInv ==
  lease.reason = "commit_deadline" =>
    /\ files.decision # "saved"
    /\ files.journal = "none"
    /\ files.helper \notin HelperHolds

IInv == TypeOK /\ Sound(Here) /\ SentInv /\ DecidedInv /\ OvertakenInv

\* What the functions below may do to the lease of s: none of them
\* authorises or keeps it, or finds that the commit deadline has passed.
Reached == {"applying", "previewing", "waiting_session", "reverting",
            "reverted", "invalidated", "failed"}
Moves(s, t) ==
  /\ t.lease.state = s.lease.state \/ t.lease.state \in Reached
  /\ t.lease.reason = "commit_deadline" => s.lease.reason = "commit_deadline"
  /\ t.lease.after = s.lease.after
  /\ t.lease.before = s.lease.before

\* Presentations count, or have counted, for the item.
Counting(item) == item.submitted \/ item.presented

\* How a lease is given up: a rollback waits for a screen that is to be lit, and
\* what was presented before does not count.
GivenUp(t) ==
  /\ t.lease.state \in {"waiting_session", "failed", "reverting"}
  /\ t.lease.state = "reverting" =>
       /\ \A o \in Connected(t) : ~Counting(t.lease.items[o])
       /\ \E o \in Connected(t) : Enabled(t.outputs[o].scheduled)

-----------------------------------------------------------------------------
(***************************************************************************)
(* Types of the parts.                                                     *)
(***************************************************************************)
LEMMA UpdatedType ==
  ASSUME NEW S, NEW D, NEW f \in [S -> D], NEW B \in SUBSET S, NEW g \in [B -> D]
  PROVE  /\ Updated(f, g) \in [S -> D]
         /\ \A x \in B : Updated(f, g)[x] = g[x]
         /\ \A x \in S \ B : Updated(f, g)[x] = f[x]
BY DEF Updated

LEMMA UpdatedOutputs ==
  ASSUME NEW os \in [Outputs -> OutputType], NEW B \in SUBSET Outputs,
         NEW g \in [B -> OutputType]
  PROVE  /\ Updated(os, g) \in [Outputs -> OutputType]
         /\ \A o \in B : Updated(os, g)[o] = g[o]
         /\ \A o \in Outputs \ B : Updated(os, g)[o] = os[o]
BY UpdatedType

LEMMA UpdatedItems ==
  ASSUME NEW items \in [Outputs -> ItemType], NEW B \in SUBSET Outputs,
         NEW g \in [B -> ItemType]
  PROVE  Updated(items, g) \in [Outputs -> ItemType]
BY UpdatedType

LEMMA SFields ==
  ASSUME NEW s \in SType
  PROVE  /\ s = [outputs |-> s.outputs, lease |-> s.lease, dirty |-> s.dirty]
         /\ s.outputs \in [Outputs -> OutputType]
         /\ s.lease \in LeaseType
         /\ s.dirty \in BOOLEAN
         /\ Connected(s) \in SUBSET Outputs
BY DEF SType, Connected

\* Changing one part of s.
LEMMA SParts ==
  ASSUME NEW s \in SType
  PROVE  /\ \A l \in LeaseType : [s EXCEPT !.lease = l] \in SType
         /\ \A os \in [Outputs -> OutputType] : [s EXCEPT !.outputs = os] \in SType
BY DEF SType

LEMMA LeaseFields ==
  ASSUME NEW l \in LeaseType
  PROVE  /\ l.state \in ActiveStates \cup {"none", "kept", "reverted", "invalidated", "failed"}
         /\ l.reason \in Reasons
         /\ l.before \in [Outputs -> States] /\ l.after \in [Outputs -> States]
         /\ l.items \in [Outputs -> ItemType]
         /\ l.partial \in BOOLEAN /\ l.due \in BOOLEAN /\ l.moved \in BOOLEAN
BY DEF LeaseType, ItemType

LEMMA OutputFields ==
  ASSUME NEW out \in OutputType
  PROVE  /\ out.connected \in BOOLEAN /\ out.fullscreen \in BOOLEAN /\ out.blanked \in BOOLEAN
         /\ out.scheduled \in States /\ out.sent \in States /\ out.current \in States
         /\ out.hw \in States /\ out.sync \in Sync
         /\ out.flight \in FlightType /\ out.shown \in Picture
BY DEF OutputType, FlightType, FrameType

\* The lease with another state and reason.
LEMMA LeaseMoved ==
  ASSUME NEW l \in LeaseType, NEW reason \in Reasons,
         NEW st \in ActiveStates \cup {"none", "kept", "reverted", "invalidated", "failed"}
  PROVE  /\ [l EXCEPT !.state = st, !.reason = reason] \in LeaseType
         /\ [l EXCEPT !.state = st] \in LeaseType
BY DEF LeaseType

LEMMA FlightElements ==
  ASSUME NEW flight \in FlightType
  PROVE  /\ flight \in Seq(FrameType) /\ Len(flight) \in 0 .. MaxFlight
         /\ DOMAIN flight = 1 .. Len(flight)
BY BoundsAssumption DEF FlightType

LEMMA StaleType ==
  ASSUME NEW flight \in FlightType
  PROVE  Stale(flight) \in FlightType
<1> PICK n \in 0 .. MaxFlight : flight \in [1 .. n -> FrameType]
  BY DEF FlightType
<1>1. \A i \in 1 .. n : [flight[i] EXCEPT !.fresh = FALSE] \in FrameType
  BY DEF FrameType
<1>2. Stale(flight) \in [1 .. n -> FrameType]
  BY <1>1 DEF Stale
<1> QED BY <1>2 DEF FlightType

LEMMA ResetItemType ==
  ASSUME NEW item \in ItemType
  PROVE  ResetItem(item) \in ItemType
BY DEF ItemType, ResetItem, NewItem

LEMMA ObserveType ==
  ASSUME NEW item \in ItemType, NEW success \in BOOLEAN
  PROVE  Observe(item, success) \in ItemType
BY DEF ItemType, Observe

LEMMA TargetType ==
  ASSUME NEW out, NEW c
  PROVE  Target(out, c) \in Sync
BY DEF Target, Sync

LEMMA RestoredType ==
  ASSUME NEW s \in SType, NEW o \in Outputs
  PROVE  Restored(s, o) \in States
BY SFields, LeaseFields, OutputFields DEF Restored

LEMMA FallbackType ==
  ASSUME NEW c \in States, NEW woken
  PROVE  /\ Fallback(c, woken) \in States
         /\ c < 0 /\ ~woken => Fallback(c, woken) < 0
BY DEF Fallback, States, Off, Conservative, Enabled


-----------------------------------------------------------------------------
(***************************************************************************)
(* The functions of the preview keep what the invariant says of s.         *)
(***************************************************************************)

\* A change of the lease alone that authorises nothing.
LEMMA LeaseKeeps ==
  ASSUME NEW s, Sound(s), NEW l \in LeaseType, l.after = s.lease.after, l.before = s.lease.before,
         l.state = s.lease.state \/ l.state \in Reached,
         l.reason = "commit_deadline" =>
           /\ s.lease.reason = "commit_deadline"
           /\ l.state \in {"reverting", "invalidated"}
  PROVE  LET t == [s EXCEPT !.lease = l] IN
         Sound(t) /\ Moves(s, t) /\ t.lease = l /\ t.outputs = s.outputs
<1> DEFINE t == [s EXCEPT !.lease = l]
<1>1. t \in SType BY SParts DEF Sound, Safe
<1>2. t.lease = l /\ t.outputs = s.outputs BY DEF Sound, Safe, SType
<1> HIDE DEF t
<1>3. Sound(t) /\ Moves(s, t)
  BY <1>1, <1>2 DEF Sound, Safe, DarkInv, Candidates, RollbackInv, Moves, Reached
<1> QED BY <1>2, <1>3 DEF t

\* A change of the lease that ends an authorisation, if there was one.
LEMMA LeaseLeaves ==
  ASSUME NEW s, Safe(s), NEW l \in LeaseType, l.after = s.lease.after,
         l.before = s.lease.before, l.state \in Reached,
         l.reason = "commit_deadline" =>
           /\ s.lease.reason = "commit_deadline"
           /\ l.state \in {"reverting", "invalidated"}
  PROVE  LET t == [s EXCEPT !.lease = l] IN
         Sound(t) /\ Moves(s, t) /\ t.lease = l /\ t.outputs = s.outputs
<1> DEFINE t == [s EXCEPT !.lease = l]
<1>1. t \in SType BY SParts DEF Safe
<1>2. t.lease = l /\ t.outputs = s.outputs BY DEF Safe, SType
<1> HIDE DEF t
<1>3. Sound(t) /\ Moves(s, t)
  BY <1>1, <1>2 DEF Sound, Safe, DarkInv, Candidates, RollbackInv, Moves, Reached
<1> QED BY <1>2, <1>3 DEF t

\* A change of the outputs that leaves power, presence and hardware alone.
LEMMA OutputsKeep ==
  ASSUME NEW s, Sound(s), NEW os \in [Outputs -> OutputType],
         \A o \in Outputs : /\ os[o].connected = s.outputs[o].connected
                            /\ os[o].scheduled = s.outputs[o].scheduled
                            /\ os[o].blanked = s.outputs[o].blanked
                            /\ \/ os[o].hw = s.outputs[o].hw
                               \/ s.lease.state # "commit_authorized"
                               \/ os[o].hw = s.lease.after[o]
  PROVE  LET t == [s EXCEPT !.outputs = os] IN
         Sound(t) /\ Moves(s, t) /\ t.lease = s.lease /\ t.outputs = os
<1> DEFINE t == [s EXCEPT !.outputs = os]
<1>1. t \in SType BY SParts DEF Sound, Safe
<1>2. t.lease = s.lease /\ t.outputs = os BY DEF Sound, Safe, SType
<1> HIDE DEF t
<1>3. Sound(t) /\ Moves(s, t)
  BY <1>1, <1>2 DEF Sound, Safe, DarkInv, Candidates, RollbackInv, Moves
<1> QED BY <1>2, <1>3 DEF t

LEMMA MovesCompose ==
  ASSUME NEW s, NEW t, NEW u, Moves(s, t), Moves(t, u)
  PROVE  Moves(s, u)
BY DEF Moves, Reached

\* A rollback never leaves an authorised lease behind, and restores nothing
\* that a power client has taken.
LEMMA RevertKeeps ==
  ASSUME NEW s, Safe(s), NEW reason \in Withdrawals, NEW removed, NEW test
  PROVE  LET t == Revert(s, reason, removed, test) IN
         /\ Sound(t)
         /\ reason # "commit_deadline" => Moves(s, t)
         /\ s.lease.state \notin Revocable => t = s
         /\ s.lease.state \in Revocable => GivenUp(t)
         /\ t.lease.state # "commit_authorized"
<1> DEFINE left == Connected(s) \ {removed}
           baseline == test.baseline /\ \E o \in left : Enabled(Restored(s, o))
           woken == left \cap (1 .. test.woken)
           t == Revert(s, reason, removed, test)
<1>s. s \in SType BY DEF Sound, Safe
<1>l. s.lease \in LeaseType /\ s.outputs \in [Outputs -> OutputType] /\ left \in SUBSET Outputs
  BY SMTT(30), <1>s, SFields
<1>1. CASE s.lease.state \notin Revocable
  BY <1>1 DEF Revert, Moves, Revocable, Sound, Candidates
<1>2. CASE s.lease.state \in Revocable /\ ~session.active
  <2> DEFINE l == [s.lease EXCEPT !.state = "waiting_session",
                                  !.reason = "waiting_for_session_rollback"]
  <2>1. t = [s EXCEPT !.lease = l]
    BY ZenonT(60), <1>2, <1>s, SFields DEF Revert
  <2>2. l \in LeaseType BY <1>l, LeaseMoved DEF ActiveStates, Revocable, Reasons
  <2>3. l.after = s.lease.after /\ l.before = s.lease.before /\ l.state = "waiting_session"
        /\ l.reason = "waiting_for_session_rollback"
    BY <1>l DEF LeaseType
  <2> HIDE DEF l, t
  <2>4. Sound(t) /\ Moves(s, t) /\ t.lease = l
    BY <2>1, <2>2, <2>3, LeaseLeaves DEF Reached
  <2> QED BY SMTT(30), <2>3, <2>4, <1>2 DEF t, GivenUp
<1>3. CASE s.lease.state \in Revocable /\ session.active /\ ~baseline /\ woken = {}
  <2> DEFINE l == [s.lease EXCEPT !.state = "failed",
                                  !.reason = "rollback_unusable_or_test_failed"]
  <2>1. t = [s EXCEPT !.lease = l]
    BY ZenonT(60), <1>3, <1>s, SFields DEF Revert
  <2>2. l \in LeaseType BY <1>l, LeaseMoved DEF Reasons
  <2>3. l.after = s.lease.after /\ l.before = s.lease.before /\ l.state = "failed"
        /\ l.reason = "rollback_unusable_or_test_failed"
    BY <1>l DEF LeaseType
  <2> HIDE DEF l, t
  <2>4. Sound(t) /\ Moves(s, t) /\ t.lease = l
    BY <2>1, <2>2, <2>3, LeaseLeaves DEF Reached
  <2> QED BY <2>3, <2>4, <1>3 DEF t, GivenUp
<1>4. CASE s.lease.state \in Revocable /\ session.active /\ (baseline \/ woken # {})
  <2> DEFINE why == IF baseline THEN reason ELSE "tested_usable_output_fallback"
             items == [o \in Connected(s) |-> ResetItem(s.lease.items[o])]
             l == [s.lease EXCEPT
                     !.state = "reverting", !.reason = why,
                     !.partial = @ \/ ~baseline, !.due = FALSE, !.moved = TRUE,
                     !.items = Updated(@, items)]
             new(o) == [s.outputs[o] EXCEPT
                          !.scheduled = IF baseline THEN Restored(s, o)
                                        ELSE Fallback(Restored(s, o), o \in woken),
                          !.blanked = @ /\ o \notin woken,
                          !.flight = Stale(@)]
             os == Updated(s.outputs, [o \in left |-> new(o)])
  <2>1. t = [dirty |-> TRUE, lease |-> l, outputs |-> os]
    BY <1>4 DEF Revert
  <2>2. /\ Updated(s.lease.items, items) \in [Outputs -> ItemType]
        /\ \A o \in Connected(s) : ~Counting(Updated(s.lease.items, items)[o])
    <3>1. items \in [Connected(s) -> ItemType]
      BY <1>s, <1>l, SFields, LeaseFields, ResetItemType
    <3>2. \A o \in Connected(s) : ~Counting(items[o])
      <4>1. s.lease.items \in [Outputs -> ItemType] /\ Connected(s) \subseteq Outputs
        BY <1>s, <1>l, SFields, LeaseFields
      <4> QED BY <4>1 DEF Counting, ResetItem, NewItem, ItemType
    <3>3. s.lease.items \in [Outputs -> ItemType] /\ Connected(s) \in SUBSET Outputs
      BY <1>s, <1>l, SFields, LeaseFields
    <3> HIDE DEF items
    <3>4. Updated(s.lease.items, items) \in [Outputs -> ItemType]
      BY <3>1, <3>3, UpdatedItems
    <3>5. \A o \in Connected(s) : Updated(s.lease.items, items)[o] = items[o]
      BY <3>1, <3>3 DEF Updated
    <3> QED BY <3>2, <3>4, <3>5
  <2>3. l \in LeaseType /\ l.after = s.lease.after
        /\ l.before = s.lease.before /\ l.state = "reverting" /\ l.reason = why
        /\ l.items = Updated(s.lease.items, items)
    <3>1. why \in Reasons BY DEF Reasons
    <3> HIDE DEF why, items, baseline
    <3> QED BY <3>1, <2>2, <1>l DEF LeaseType, ItemType, ActiveStates
  <2>4. ASSUME NEW o \in left
        PROVE  /\ new(o) \in OutputType /\ new(o).connected = s.outputs[o].connected
               /\ s.outputs[o].blanked => s.outputs[o].scheduled < 0
               /\ new(o).blanked => new(o).scheduled < 0
               /\ new(o).scheduled = IF baseline THEN Restored(s, o)
                                     ELSE Fallback(Restored(s, o), o \in woken)
    <3>1. s.outputs[o] \in OutputType /\ Restored(s, o) \in States /\ o \in Outputs
      BY <1>s, <1>l, RestoredType
    <3>2. Fallback(Restored(s, o), o \in woken) \in States
      BY <3>1, FallbackType
    <3>3. Stale(s.outputs[o].flight) \in FlightType
      BY <3>1, OutputFields, StaleType
    <3>4. new(o) \in OutputType /\ new(o).connected = s.outputs[o].connected
      <4> HIDE DEF baseline, woken, left
      <4> QED BY <3>1, <3>2, <3>3 DEF OutputType, FlightType, FrameType
    <3>5. s.outputs[o].blanked => s.outputs[o].scheduled < 0
      BY <3>1 DEF Sound, Safe, DarkInv, Connected
    <3>6. s.outputs[o].blanked => Restored(s, o) < 0
      BY <3>5, <3>1, <1>l, LeaseFields, OutputFields DEF Restored, Sound, Safe, DarkInv, States
    <3>7. new(o).blanked => s.outputs[o].blanked /\ o \notin woken
      BY <3>1 DEF OutputType
    <3>8. new(o).scheduled = IF baseline THEN Restored(s, o)
                             ELSE Fallback(Restored(s, o), o \in woken)
      BY <3>1 DEF OutputType
    <3>9. new(o).blanked => new(o).scheduled < 0
      <4>1. s.outputs[o].blanked /\ o \notin woken => Fallback(Restored(s, o), o \in woken) < 0
        BY <3>1, <3>6, FallbackType
      <4> HIDE DEF baseline, woken, left, new
      <4> QED BY <4>1, <3>6, <3>7, <3>8
    <3> QED BY <3>4, <3>5, <3>8, <3>9
  <2>l. \E o \in left : Enabled(new(o).scheduled)
    <3> HIDE DEF new
    <3>1. CASE baseline
      <4>1. PICK o \in left : Enabled(Restored(s, o)) BY <3>1
      <4>2. new(o).scheduled = Restored(s, o) BY <2>4, <3>1
      <4> QED BY <4>1, <4>2
    <3>2. CASE ~baseline
      <4>1. PICK o \in left : o \in woken BY <1>4, <3>2
      <4> HIDE DEF baseline, woken, left
      <4>2. new(o).scheduled = Fallback(Restored(s, o), o \in woken) BY <2>4, <3>2
      <4> QED BY <4>1, <4>2 DEF Fallback, Enabled, Conservative
    <3> QED BY <3>1, <3>2
  <2>5. /\ os \in [Outputs -> OutputType]
        /\ \A o \in left : os[o] = new(o)
        /\ \A o \in Outputs \ left : os[o] = s.outputs[o]
    <3> DEFINE g == [o \in left |-> new(o)]
    <3> HIDE DEF new, left
    <3>1. g \in [left -> OutputType] /\ \A o \in left : g[o] = new(o) BY <2>4
    <3>2. os = Updated(s.outputs, g) OBVIOUS
    <3> HIDE DEF g, os
    <3>3. /\ Updated(s.outputs, g) \in [Outputs -> OutputType]
          /\ \A o \in left : Updated(s.outputs, g)[o] = g[o]
          /\ \A o \in Outputs \ left : Updated(s.outputs, g)[o] = s.outputs[o]
      BY <3>1, <1>l, UpdatedOutputs
    <3> QED BY <3>1, <3>2, <3>3
  <2>6. t \in SType
    <3> HIDE DEF l, os, t
    <3> QED BY <2>1, <2>3, <2>5 DEF SType
  <2>7. t.outputs = os /\ t.lease = l
    <3> HIDE DEF l, os, t
    <3> QED BY <2>1
  <2>c. left \subseteq Connected(s) OBVIOUS
  <2> HIDE DEF t, os, new, l, left, items
  <2>8. DarkInv(t)
    BY <2>3, <2>4, <2>5, <2>7 DEF Sound, Safe, DarkInv
  <2>9. Sound(t)
    BY <2>3, <2>6, <2>7, <2>8 DEF Sound, Safe, Candidates, RollbackInv
  <2>10. reason # "commit_deadline" => Moves(s, t)
    BY <2>3, <2>7 DEF Moves, Reached
  <2>11. GivenUp(t)
    <3>1. \A o \in Outputs : t.outputs[o].connected = s.outputs[o].connected
      BY <2>4, <2>5, <2>7
    <3>2. Connected(t) = Connected(s) BY <3>1 DEF Connected
    <3>3. \E o \in Connected(t) : Enabled(t.outputs[o].scheduled)
      BY <2>5, <2>7, <2>c, <2>l, <3>2
    <3>4. \A o \in Connected(t) : ~Counting(t.lease.items[o])
      BY <2>2, <2>3, <2>7, <3>2
    <3> QED BY <2>3, <2>7, <3>3, <3>4 DEF GivenUp
  <2> QED BY <2>3, <2>7, <2>9, <2>10, <2>11, <1>4 DEF t
<1> QED BY <1>1, <1>2, <1>3, <1>4

LEMMA RetargetKeeps ==
  ASSUME NEW s, Sound(s), s.lease.state \in {"applying", "reverting", "previewing"}
  PROVE  /\ Sound(Retarget(s)) /\ Moves(s, Retarget(s))
         /\ Retarget(s).lease.state \in {"applying", "reverting", "previewing"}
<1> DEFINE changed == Retargeted(s)
           again == s.lease.state = "previewing" /\ changed # {}
           new == [o \in changed |->
             [s.lease.items[o] EXCEPT !.target = Target(s.outputs[o], Goal(s, o)),
                                      !.submitted = FALSE]]
           l == [s.lease EXCEPT
                   !.items = Updated(@, new),
                   !.state = IF again THEN "applying" ELSE @,
                   !.reason = IF again THEN "adaptive_sync_changed" ELSE @]
<1>1. s \in SType /\ s.lease \in LeaseType /\ s.lease.items \in [Outputs -> ItemType]
  BY SFields, LeaseFields DEF Sound, Safe
<1>2. changed \in SUBSET Outputs
  BY DEF Retargeted, Connected
<1>3. new \in [changed -> ItemType]
  <2> SUFFICES ASSUME NEW o \in changed
               PROVE  [s.lease.items[o] EXCEPT !.target = Target(s.outputs[o], Goal(s, o)),
                                               !.submitted = FALSE] \in ItemType
    OBVIOUS
  <2>1. s.lease.items[o] \in ItemType BY <1>1, <1>2
  <2> HIDE DEF changed
  <2> QED BY <2>1, TargetType DEF ItemType
<1>4. Updated(s.lease.items, new) \in [Outputs -> ItemType]
  <2> HIDE DEF new, changed
  <2> QED BY <1>1, <1>2, <1>3, UpdatedItems
<1>5. Retarget(s) = [s EXCEPT !.lease = l]
  BY <1>1 DEF Retarget, SType
<1>6. /\ l \in LeaseType /\ l.after = s.lease.after /\ l.before = s.lease.before
      /\ l.state = IF again THEN "applying" ELSE s.lease.state
      /\ l.reason = IF again THEN "adaptive_sync_changed" ELSE s.lease.reason
  <2> HIDE DEF new, again
  <2> QED BY <1>1, <1>4 DEF LeaseType, ItemType, ActiveStates, Revocable, Reasons
<1> HIDE DEF l
<1>7. l.reason = "commit_deadline" =>
        s.lease.reason = "commit_deadline" /\ l.state \in {"reverting", "invalidated"}
  BY <1>6 DEF Sound, Safe, RollbackInv
<1> QED BY <1>5, <1>6, <1>7, LeaseKeeps DEF Reached

LEMMA ArmKeeps ==
  ASSUME NEW s, Sound(s)
  PROVE  Sound(Arm(s)) /\ Moves(s, Arm(s)) /\ Arm(s).lease.state = s.lease.state
<1> DEFINE armed == {o \in Connected(s) : ~s.lease.items[o].submitted}
           new == [o \in armed |-> [ResetItem(s.lease.items[o]) EXCEPT !.submitted = TRUE]]
           stale == [o \in armed |-> [s.outputs[o] EXCEPT !.flight = Stale(@)]]
           l == [s.lease EXCEPT !.items = Updated(@, new)]
           os == Updated(s.outputs, stale)
           t == [s EXCEPT !.lease = l]
<1>1. /\ s \in SType /\ s.lease \in LeaseType /\ s.lease.items \in [Outputs -> ItemType]
      /\ s.outputs \in [Outputs -> OutputType] /\ armed \in SUBSET Outputs
  BY SFields, LeaseFields DEF Sound, Safe
<1>2. new \in [armed -> ItemType]
  <2> SUFFICES ASSUME NEW o \in armed
               PROVE  [ResetItem(s.lease.items[o]) EXCEPT !.submitted = TRUE] \in ItemType
    OBVIOUS
  <2>1. ResetItem(s.lease.items[o]) \in ItemType BY <1>1, ResetItemType
  <2> HIDE DEF armed
  <2> QED BY <2>1 DEF ItemType
<1>3. ASSUME NEW o \in armed
      PROVE  LET out == [s.outputs[o] EXCEPT !.flight = Stale(@)] IN
             /\ out \in OutputType
             /\ out.connected = s.outputs[o].connected
             /\ out.scheduled = s.outputs[o].scheduled
             /\ out.blanked = s.outputs[o].blanked
             /\ out.hw = s.outputs[o].hw
  <2>1. s.outputs[o] \in OutputType BY <1>1
  <2>2. Stale(s.outputs[o].flight) \in FlightType BY <2>1, OutputFields, StaleType
  <2> QED BY <2>1, <2>2 DEF OutputType, FlightType, FrameType
<1>4. stale \in [armed -> OutputType]
  <2> HIDE DEF armed
  <2> QED BY <1>3
<1>5. Updated(s.lease.items, new) \in [Outputs -> ItemType]
  <2> HIDE DEF new, armed
  <2> QED BY <1>1, <1>2, UpdatedItems
<1>6. l \in LeaseType /\ l.after = s.lease.after
      /\ l.before = s.lease.before /\ l.state = s.lease.state
      /\ l.reason = s.lease.reason
  <2> HIDE DEF new
  <2> QED BY <1>1, <1>5 DEF LeaseType, ItemType
<1>7. /\ os \in [Outputs -> OutputType]
      /\ \A o \in armed : os[o] = stale[o]
      /\ \A o \in Outputs \ armed : os[o] = s.outputs[o]
  <2> HIDE DEF stale, armed
  <2> QED BY <1>1, <1>4, UpdatedOutputs
<1>8. Arm(s) = [t EXCEPT !.outputs = os]
  BY <1>1 DEF Arm, SType
<1>9. Sound(t) /\ Moves(s, t) /\ t.lease = l /\ t.outputs = s.outputs
  <2>1. l.reason = "commit_deadline" =>
          s.lease.reason = "commit_deadline" /\ l.state \in {"reverting", "invalidated"}
    BY <1>6 DEF Sound, Safe, RollbackInv
  <2> HIDE DEF l
  <2> QED BY <2>1, <1>6, LeaseKeeps
<1>10. \A o \in Outputs : /\ os[o].connected = s.outputs[o].connected
                          /\ os[o].scheduled = s.outputs[o].scheduled
                          /\ os[o].blanked = s.outputs[o].blanked
                          /\ os[o].hw = s.outputs[o].hw
  <2>1. \A o \in armed : stale[o] = [s.outputs[o] EXCEPT !.flight = Stale(@)] OBVIOUS
  <2> HIDE DEF os, stale, armed
  <2>2. ASSUME NEW o \in armed
        PROVE  /\ os[o].connected = s.outputs[o].connected
               /\ os[o].scheduled = s.outputs[o].scheduled
               /\ os[o].blanked = s.outputs[o].blanked
               /\ os[o].hw = s.outputs[o].hw
    <3>1. os[o] = [s.outputs[o] EXCEPT !.flight = Stale(@)] BY <2>1, <1>7
    <3> QED BY <3>1, <1>3
  <2> QED BY <2>2, <1>7
<1> HIDE DEF t, os, l
<1>11. /\ Sound([t EXCEPT !.outputs = os]) /\ Moves(t, [t EXCEPT !.outputs = os])
       /\ [t EXCEPT !.outputs = os].lease = t.lease
  BY <1>7, <1>9, <1>10, OutputsKeep
<1> QED BY <1>6, <1>8, <1>9, <1>11, MovesCompose

LEMMA SubmittingKeeps ==
  ASSUME NEW s, Sound(s)
  PROVE  /\ Sound(Submitting(s)) /\ Moves(s, Submitting(s))
         /\ Submitting(s).lease.state = "commit_authorized" => Submitting(s) = s
<1>1. CASE s.lease.state \notin {"applying", "reverting", "previewing"}
  BY <1>1 DEF Submitting, Moves
<1>2. CASE s.lease.state \in {"applying", "reverting", "previewing"}
  <2> DEFINE t == Retarget(s)
  <2>1. /\ Sound(t) /\ Moves(s, t)
        /\ t.lease.state \in {"applying", "reverting", "previewing"}
    BY <1>2, RetargetKeeps
  <2>2. Submitting(s) = IF t.lease.state # "previewing" /\ Ready(t) THEN Arm(t) ELSE t
    BY <1>2 DEF Submitting
  <2> HIDE DEF t
  <2>3. Sound(Arm(t)) /\ Moves(t, Arm(t)) /\ Arm(t).lease.state = t.lease.state
    BY <2>1, ArmKeeps
  <2> QED BY <2>1, <2>2, <2>3, MovesCompose
<1> QED BY <1>1, <1>2

\* How a rollback stands: it is reported as such only of outputs that are all
\* there, all back in their old state, and have all arrived.
LEMMA RolledBackIs ==
  ASSUME NEW s \in SType, s.lease.state = "reverting"
  PROVE  \E partial \in BOOLEAN, st \in Reached, why \in Reasons :
           /\ RolledBack(s) = [s EXCEPT !.lease =
                [s.lease EXCEPT !.partial = partial, !.state = st, !.reason = why]]
           /\ \/ st = "failed" /\ why = "rollback_presentation_failed"
              \/ st \in {"reverting", "invalidated"} /\ why = s.lease.reason
              \/ /\ st = "reverted" /\ why = s.lease.reason /\ why # "commit_deadline"
                 /\ \A o \in Outputs : /\ s.outputs[o].connected
                                       /\ s.outputs[o].current = s.lease.before[o]
                                       /\ Arrived(s, o, s.outputs[o].scheduled)
<1> DEFINE missing == Outputs \ Connected(s)
           late == {o \in Connected(s) : ~Arrived(s, o, s.outputs[o].scheduled)}
           looked == {o \in Outputs : \A p \in late : o < p}
           partial == s.lease.partial
                        \/ \E o \in looked : \/ o \in missing
                                             \/ s.outputs[o].current # s.lease.before[o]
           ended(st, why) == [s.lease EXCEPT !.partial = partial, !.state = st, !.reason = why]
           t == [s EXCEPT !.lease.partial = partial]
<1>1. s.lease \in LeaseType BY SFields
<1>2. RolledBack(s) =
        IF late # {} THEN
          IF s.lease.items[First(late)].rejected
            THEN [t EXCEPT !.lease.state = "failed",
                           !.lease.reason = "rollback_presentation_failed"]
            ELSE t
        ELSE IF ~partial /\ s.lease.reason \in
                             {"explicit_revert", "timeout", "owner_disconnected"}
          THEN [t EXCEPT !.lease.state = "reverted"]
          ELSE [t EXCEPT !.lease.state = "invalidated"]
  BY DEF RolledBack
<1>3. /\ t.lease = [s.lease EXCEPT !.partial = partial]
      /\ t = [s EXCEPT !.lease = [s.lease EXCEPT !.partial = partial]]
  <2> HIDE DEF partial
  <2> QED BY <1>1 DEF SType, LeaseType
<1>4. [t EXCEPT !.lease.state = "failed", !.lease.reason = "rollback_presentation_failed"]
        = [s EXCEPT !.lease = ended("failed", "rollback_presentation_failed")]
  <2> HIDE DEF partial, t
  <2> QED BY <1>1, <1>3 DEF SType
<1>5. t = [s EXCEPT !.lease = ended("reverting", s.lease.reason)]
  <2>1. [s.lease EXCEPT !.partial = partial] = ended("reverting", s.lease.reason)
    <3> HIDE DEF partial
    <3> QED BY <1>1 DEF LeaseType
  <2> HIDE DEF ended, t
  <2> QED BY <1>3, <2>1
<1>6. ASSUME NEW st
      PROVE  [t EXCEPT !.lease.state = st] = [s EXCEPT !.lease = ended(st, s.lease.reason)]
  <2>1. [[s.lease EXCEPT !.partial = partial] EXCEPT !.state = st] = ended(st, s.lease.reason)
    <3> HIDE DEF partial
    <3> QED BY <1>1 DEF LeaseType
  <2> HIDE DEF ended, t, partial
  <2> QED BY <1>1, <1>3, <2>1 DEF SType
<1>7. s.lease.reason \in Reasons BY <1>1, LeaseFields
<1>8. partial \in BOOLEAN
  <2>1. s.lease.partial \in BOOLEAN BY <1>1, LeaseFields
  <2> QED BY <2>1
<1>9. late = {} /\ ~partial =>
        \A o \in Outputs : /\ s.outputs[o].connected
                           /\ s.outputs[o].current = s.lease.before[o]
                           /\ Arrived(s, o, s.outputs[o].scheduled)
  BY DEF Connected
<1>e. \A st, why : ended(st, why)
        = [s.lease EXCEPT !.partial = partial, !.state = st, !.reason = why]
  OBVIOUS
<1> HIDE DEF t, partial, late, ended
<1>10. CASE late # {} /\ s.lease.items[First(late)].rejected
  <2>1. RolledBack(s) = [s EXCEPT !.lease = ended("failed", "rollback_presentation_failed")]
    BY <1>2, <1>4, <1>10
  <2> QED BY <2>1, <1>8, <1>e DEF Reached, Reasons
<1>11. CASE late # {} /\ ~s.lease.items[First(late)].rejected
  <2>1. RolledBack(s) = [s EXCEPT !.lease = ended("reverting", s.lease.reason)]
    BY <1>2, <1>5, <1>11
  <2> QED BY <2>1, <1>7, <1>8, <1>e DEF Reached
<1>12. CASE late = {} /\ ~partial
             /\ s.lease.reason \in {"explicit_revert", "timeout", "owner_disconnected"}
  <2>1. RolledBack(s) = [s EXCEPT !.lease = ended("reverted", s.lease.reason)]
    BY <1>2, <1>6, <1>12
  <2>2. s.lease.reason # "commit_deadline" BY <1>12
  <2> QED BY <2>1, <2>2, <1>7, <1>8, <1>9, <1>12, <1>e DEF Reached
<1>13. CASE late = {} /\ ~(~partial
              /\ s.lease.reason \in {"explicit_revert", "timeout", "owner_disconnected"})
  <2>1. RolledBack(s) = [s EXCEPT !.lease = ended("invalidated", s.lease.reason)]
    BY <1>2, <1>6, <1>13
  <2> QED BY <2>1, <1>7, <1>8, <1>e DEF Reached
<1> QED BY <1>10, <1>11, <1>12, <1>13

LEMMA RolledBackKeeps ==
  ASSUME NEW s, Sound(s), s.lease.state = "reverting"
  PROVE  Sound(RolledBack(s)) /\ Moves(s, RolledBack(s))
         /\ RolledBack(s).lease.state # "commit_authorized"
<1>1. s \in SType /\ s.lease \in LeaseType
  BY SFields DEF Sound, Safe
<1>2. PICK partial \in BOOLEAN, st \in Reached, why \in Reasons :
        /\ RolledBack(s) = [s EXCEPT !.lease =
             [s.lease EXCEPT !.partial = partial, !.state = st, !.reason = why]]
        /\ \/ st = "failed" /\ why = "rollback_presentation_failed"
           \/ st \in {"reverting", "invalidated"} /\ why = s.lease.reason
           \/ /\ st = "reverted" /\ why = s.lease.reason /\ why # "commit_deadline"
              /\ \A o \in Outputs : /\ s.outputs[o].connected
                                    /\ s.outputs[o].current = s.lease.before[o]
                                    /\ Arrived(s, o, s.outputs[o].scheduled)
  BY <1>1, RolledBackIs
<1> DEFINE l == [s.lease EXCEPT !.partial = partial, !.state = st, !.reason = why]
<1>3. /\ l \in LeaseType /\ l.after = s.lease.after
      /\ l.before = s.lease.before /\ l.state = st /\ l.reason = why
  BY <1>1 DEF LeaseType, Reached, ActiveStates, Revocable
<1>4. /\ l.state \in Reached /\ l.state # "commit_authorized"
      /\ l.reason = "commit_deadline" =>
           s.lease.reason = "commit_deadline" /\ l.state \in {"reverting", "invalidated"}
  <2> HIDE DEF l
  <2> QED BY <1>2, <1>3 DEF Reached
<1> HIDE DEF l
<1>5. LET t == [s EXCEPT !.lease = l] IN
      Sound(t) /\ Moves(s, t) /\ t.lease = l /\ t.outputs = s.outputs
  BY <1>3, <1>4, LeaseKeeps
<1> QED BY <1>2, <1>4, <1>5 DEF l

LEMMA ObstacleType ==
  ASSUME NEW s, NEW o
  PROVE  Obstacle(s, o) \in Withdrawals \cup {""}
BY DEF Obstacle, Withdrawals

LEMMA AppliedKeeps ==
  ASSUME NEW s, Sound(s), NEW test
  PROVE  LET t == Applied(s, test) IN
         /\ Sound(t) /\ Moves(s, t)
         /\ t.lease.state = "commit_authorized" => t = s
<1> DEFINE t == Applied(s, test)
           late == {o \in Outputs : ~Arrived(s, o, s.lease.after[o])}
<1>1. CASE s.lease.state = "reverting"
  BY <1>1, RolledBackKeeps DEF Applied
<1>2. CASE s.lease.state \notin {"applying", "previewing", "reverting"}
  BY <1>2 DEF Applied, Moves
<1>3. CASE s.lease.state \in {"applying", "previewing"} /\ late # {}
  <2>1. t = LET why == Obstacle(s, First(late)) IN
            IF why = "" THEN s ELSE Revert(s, why, NoOutput, test)
    BY <1>3 DEF Applied
  <2> DEFINE why == Obstacle(s, First(late))
  <2>2. why \in Withdrawals \cup {""} BY ObstacleType
  <2>3. CASE why = ""
    BY <2>1, <2>3, <1>3 DEF Moves
  <2>4. CASE why # ""
    <3>1. t = Revert(s, why, NoOutput, test) BY ZenonT(60), <2>1, <2>4
    <3>2. why # "commit_deadline"
      BY DEF Obstacle
    <3>3. Safe(s) /\ why \in Withdrawals BY <2>2, <2>4 DEF Sound
    <3> HIDE DEF t, why
    <3>4. LET u == Revert(s, why, NoOutput, test) IN
          Sound(u) /\ Moves(s, u) /\ u.lease.state # "commit_authorized"
      BY <3>2, <3>3, RevertKeeps
    <3> QED BY <3>1, <3>4 DEF t
  <2> QED BY <2>3, <2>4
<1>4. CASE s.lease.state \in {"applying", "previewing"} /\ late = {}
  <2> DEFINE l == [s.lease EXCEPT
              !.state = "previewing",
              !.due = IF s.lease.reason = "adaptive_sync_changed" THEN @ ELSE FALSE,
              !.reason = "confirmation_required",
              !.moved = FALSE]
  <2>1. s \in SType /\ s.lease \in LeaseType BY SFields DEF Sound, Safe
  <2>2. t = IF s.lease.state = "applying" THEN [s EXCEPT !.lease = l] ELSE s
    BY <1>4, <2>1 DEF Applied, SType
  <2>3. l \in LeaseType /\ l.after = s.lease.after
        /\ l.before = s.lease.before /\ l.state = "previewing"
        /\ l.reason = "confirmation_required"
    BY ZenonT(60), <2>1 DEF LeaseType, ActiveStates, Revocable, Reasons
  <2> HIDE DEF l, t
  <2>4. LET u == [s EXCEPT !.lease = l] IN
        Sound(u) /\ Moves(s, u) /\ u.lease = l /\ u.outputs = s.outputs
    BY <2>3, LeaseKeeps DEF Reached
  <2>5. Moves(s, s) BY DEF Moves
  <2> QED BY <1>4, <2>2, <2>3, <2>4, <2>5 DEF t
<1> QED BY <1>1, <1>2, <1>3, <1>4

LEMMA FailedKeeps ==
  ASSUME NEW s, Safe(s), NEW test
  PROVE  LET t == Failed(s, test) IN
         Sound(t) /\ Moves(s, t) /\ t.lease.state # "commit_authorized"
<1>1. CASE s.lease.state = "reverting"
  <2> DEFINE l == [s.lease EXCEPT !.state = "failed", !.reason = "rollback_test_or_apply_failed"]
  <2>1. s \in SType /\ s.lease \in LeaseType BY SFields DEF Sound, Safe
  <2>2. Failed(s, test) = [s EXCEPT !.lease = l] BY <1>1, <2>1 DEF Failed, SType
  <2>3. l \in LeaseType /\ l.after = s.lease.after
        /\ l.before = s.lease.before /\ l.state = "failed"
        /\ l.reason = "rollback_test_or_apply_failed"
    BY <2>1 DEF LeaseType, Reasons
  <2> HIDE DEF l
  <2>4. LET u == [s EXCEPT !.lease = l] IN
        Sound(u) /\ Moves(s, u) /\ u.lease = l /\ u.outputs = s.outputs
    BY <2>3, LeaseLeaves DEF Reached
  <2> QED BY <2>2, <2>3, <2>4
<1>2. CASE s.lease.state # "reverting"
  <2>1. Failed(s, test) = Revert(s, "apply_failed", NoOutput, test) BY <1>2 DEF Failed
  <2>2. "apply_failed" \in Withdrawals /\ "apply_failed" # "commit_deadline" BY DEF Withdrawals
  <2> QED BY <2>1, <2>2, RevertKeeps DEF Sound
<1> QED BY <1>1, <1>2

LEMMA ExpireKeeps ==
  ASSUME NEW s, Sound(s), NEW test
  PROVE  LET t == Expire(s, test) IN
         /\ Sound(t) /\ Moves(s, t)
         /\ t.lease.state = "commit_authorized" => t = s
<1>1. CASE ~(Active(s) /\ s.lease.state # "waiting_session" /\ s.lease.due)
  BY <1>1 DEF Expire, Moves
<1>2. CASE /\ Active(s) /\ s.lease.state # "waiting_session" /\ s.lease.due
           /\ s.lease.state = "reverting"
  <2> DEFINE l == [s.lease EXCEPT !.state = "failed", !.reason = "rollback_completion_timeout"]
  <2>1. s \in SType /\ s.lease \in LeaseType BY SFields DEF Sound, Safe
  <2>2. Expire(s, test) = [s EXCEPT !.lease = l] BY <1>2, <2>1 DEF Expire, SType
  <2>3. l \in LeaseType /\ l.after = s.lease.after
        /\ l.before = s.lease.before /\ l.state = "failed"
        /\ l.reason = "rollback_completion_timeout"
    BY <2>1 DEF LeaseType, Reasons
  <2> HIDE DEF l
  <2>4. LET u == [s EXCEPT !.lease = l] IN
        Sound(u) /\ Moves(s, u) /\ u.lease = l /\ u.outputs = s.outputs
    BY <2>3, LeaseKeeps DEF Reached
  <2> QED BY <2>2, <2>3, <2>4
<1>3. CASE /\ Active(s) /\ s.lease.state # "waiting_session" /\ s.lease.due
           /\ s.lease.state # "reverting"
  <2>1. Expire(s, test) = Revert(s, "timeout", NoOutput, test) BY <1>3 DEF Expire
  <2>2. "timeout" \in Withdrawals /\ "timeout" # "commit_deadline" BY DEF Withdrawals
  <2> QED BY <2>1, <2>2, RevertKeeps DEF Sound
<1> QED BY <1>1, <1>2, <1>3

\* A tick looks at the items last, of a lease that it may have given up.
LEMMA InspectIs ==
  ASSUME NEW s, Sound(s), NEW test
  PROVE  \E seen : /\ Inspect(s, test) = Applied(seen, test)
                   /\ Sound(seen) /\ Moves(s, seen)
                   /\ seen = s \/ GivenUp(seen)
<1> DEFINE away == [s.lease EXCEPT !.state = "waiting_session",
                                   !.reason = "waiting_for_session_rollback"]
           back == [s.lease EXCEPT !.state = "applying"]
           again == [s EXCEPT !.lease = back]
           resumed ==
             IF ~session.active /\ s.lease.state # "commit_authorized" THEN [s EXCEPT !.lease = away]
             ELSE IF s.lease.state = "waiting_session"
               THEN Revert(again, "session_resumed", NoOutput, test)
             ELSE s
           unlocked ==
             IF session.locked /\ resumed.lease.state # "commit_authorized"
               THEN Revert(resumed, "session_locked", NoOutput, test) ELSE resumed
           seen ==
             IF /\ unlocked.lease.state \in {"applying", "previewing"}
                /\ \E o \in Outputs : unlocked.lease.items[o].rejected
               THEN Revert(unlocked, "presentation_failed", NoOutput, test) ELSE unlocked
<1>1. s \in SType /\ s.lease \in LeaseType BY SFields DEF Sound, Safe
<1>2. Inspect(s, test) = Applied(seen, test)
  BY <1>1 DEF Inspect, SType
<1>3. {"session_resumed", "session_locked", "presentation_failed"}
        \subseteq Withdrawals \ {"commit_deadline"}
  BY DEF Withdrawals
<1>4. LET t == [s EXCEPT !.lease = away] IN
      Sound(t) /\ Moves(s, t) /\ GivenUp(t)
  <2>1. /\ away \in LeaseType /\ away.after = s.lease.after
        /\ away.before = s.lease.before /\ away.state = "waiting_session"
        /\ away.reason = "waiting_for_session_rollback"
    BY <1>1 DEF LeaseType, Reasons, ActiveStates, Revocable
  <2> HIDE DEF away
  <2>2. LET t == [s EXCEPT !.lease = away] IN
        Sound(t) /\ Moves(s, t) /\ t.lease = away /\ t.outputs = s.outputs
    BY <2>1, LeaseKeeps DEF Reached
  <2> QED BY <2>1, <2>2 DEF GivenUp
<1>5. ASSUME s.lease.state = "waiting_session"
      PROVE  Sound(again) /\ Moves(s, again) /\ again.lease.state \in Revocable
  <2>1. /\ back \in LeaseType /\ back.after = s.lease.after
        /\ back.before = s.lease.before /\ back.state = "applying"
        /\ back.reason = s.lease.reason
    BY <1>1 DEF LeaseType, ActiveStates, Revocable
  <2>2. s.lease.reason # "commit_deadline" BY <1>5 DEF Sound, Safe, RollbackInv
  <2> HIDE DEF back
  <2>3. LET t == [s EXCEPT !.lease = back] IN
        Sound(t) /\ Moves(s, t) /\ t.lease = back /\ t.outputs = s.outputs
    BY <2>1, <2>2, LeaseKeeps DEF Reached
  <2> QED BY <2>1, <2>3 DEF Revocable
<1>6. Sound(resumed) /\ Moves(s, resumed) /\ (resumed = s \/ GivenUp(resumed))
  <2> DEFINE t == Revert(again, "session_resumed", NoOutput, test)
  <2>1. s.lease.state = "waiting_session" =>
          Sound(t) /\ Moves(s, t) /\ GivenUp(t)
    <3> SUFFICES ASSUME s.lease.state = "waiting_session"
                 PROVE  Sound(t) /\ Moves(s, t) /\ GivenUp(t)
      OBVIOUS
    <3> HIDE DEF again
    <3>1. Sound(t) /\ Moves(again, t) /\ GivenUp(t)
      BY <1>3, <1>5, RevertKeeps DEF Sound
    <3> HIDE DEF t
    <3> QED BY <3>1, <1>5, MovesCompose
  <2>2. Moves(s, s) BY DEF Moves
  <2> HIDE DEF t, again, away
  <2>3. resumed = IF ~session.active /\ s.lease.state # "commit_authorized"
                    THEN [s EXCEPT !.lease = away]
                  ELSE IF s.lease.state = "waiting_session" THEN t ELSE s
    BY DEF t
  <2> HIDE DEF resumed
  <2> QED BY <2>1, <2>2, <2>3, <1>4
<1> HIDE DEF resumed
<1>7. Sound(unlocked) /\ Moves(s, unlocked) /\ (unlocked = s \/ GivenUp(unlocked))
  <2> DEFINE t == Revert(resumed, "session_locked", NoOutput, test)
  <2>1. Sound(t) /\ Moves(resumed, t) /\ (t = resumed \/ GivenUp(t))
    BY <1>3, <1>6, RevertKeeps DEF Sound
  <2> HIDE DEF t
  <2>2. Moves(s, t) BY <2>1, <1>6, MovesCompose
  <2>3. unlocked = t \/ unlocked = resumed BY DEF t
  <2> HIDE DEF unlocked
  <2> QED BY <2>1, <2>2, <2>3, <1>6
<1> HIDE DEF unlocked
<1>8. Sound(seen) /\ Moves(s, seen) /\ (seen = s \/ GivenUp(seen))
  <2> DEFINE t == Revert(unlocked, "presentation_failed", NoOutput, test)
  <2>1. Sound(t) /\ Moves(unlocked, t) /\ (t = unlocked \/ GivenUp(t))
    BY <1>3, <1>7, RevertKeeps DEF Sound
  <2> HIDE DEF t
  <2>2. Moves(s, t) BY <2>1, <1>7, MovesCompose
  <2>3. seen = t \/ seen = unlocked BY DEF t
  <2> HIDE DEF seen
  <2> QED BY <2>1, <2>2, <2>3, <1>7
<1> HIDE DEF seen
<1> QED BY <1>2, <1>8

LEMMA InspectKeeps ==
  ASSUME NEW s, Sound(s), NEW test
  PROVE  LET t == Inspect(s, test) IN
         /\ Sound(t) /\ Moves(s, t)
         /\ t.lease.state = "commit_authorized" => t = s
<1>1. PICK seen : /\ Inspect(s, test) = Applied(seen, test)
                  /\ Sound(seen) /\ Moves(s, seen)
                  /\ seen = s \/ GivenUp(seen)
  BY InspectIs
<1>2. LET t == Applied(seen, test) IN
      /\ Sound(t) /\ Moves(seen, t)
      /\ t.lease.state = "commit_authorized" => t = seen
  BY <1>1, AppliedKeeps
<1> QED BY <1>1, <1>2, MovesCompose DEF GivenUp

\* The set takes effect: what it does to the hardware of every output.
LEMMA CommittedKeeps ==
  ASSUME NEW out \in OutputType
  PROVE  /\ Committed(out) \in OutputType
         /\ Committed(out).connected = out.connected
         /\ Committed(out).scheduled = out.scheduled
         /\ Committed(out).blanked = out.blanked
         /\ Committed(out).hw = out.sent
<1>1. (IF ~Enabled(out.sent) THEN "off"
       ELSE IF session.active THEN Target(out, out.sent) ELSE out.sync) \in Sync
  BY TargetType, OutputFields DEF Sync
<1> QED BY <1>1 DEF Committed, OutputType

LEMMA PresentedEarlyKeeps ==
  ASSUME NEW s, Sound(s)
  PROVE  /\ Sound(PresentedEarly(s)) /\ Moves(s, PresentedEarly(s))
         /\ PresentedEarly(s).lease.state = s.lease.state
         /\ Connected(PresentedEarly(s)) = Connected(s)
<1> DEFINE early == {o \in Connected(s) : Enabled(s.outputs[o].hw)}
           new == [o \in early |-> Observe(s.lease.items[o], TRUE)]
           lit == [o \in early |-> [s.outputs[o] EXCEPT !.shown = Picturing(s.outputs[o])]]
           l == [s.lease EXCEPT !.items = Updated(@, new)]
           os == Updated(s.outputs, lit)
           t == [s EXCEPT !.outputs = os]
<1>1. /\ s \in SType /\ s.lease \in LeaseType /\ s.lease.items \in [Outputs -> ItemType]
      /\ s.outputs \in [Outputs -> OutputType] /\ early \in SUBSET Outputs
  BY SFields, LeaseFields DEF Sound, Safe
<1>2. new \in [early -> ItemType]
  <2> HIDE DEF early
  <2> QED BY <1>1, ObserveType
<1>3. ASSUME NEW o \in early
      PROVE  LET out == [s.outputs[o] EXCEPT !.shown = Picturing(s.outputs[o])] IN
             /\ out \in OutputType
             /\ out.connected = s.outputs[o].connected
             /\ out.scheduled = s.outputs[o].scheduled
             /\ out.blanked = s.outputs[o].blanked
             /\ out.hw = s.outputs[o].hw
  <2>1. s.outputs[o] \in OutputType BY <1>1
  <2>2. Picturing(s.outputs[o]) \in Picture BY <2>1, OutputFields DEF Picturing, Picture
  <2> QED BY <2>1, <2>2 DEF OutputType
<1>4. lit \in [early -> OutputType]
  <2> HIDE DEF early
  <2> QED BY <1>3
<1>5. Updated(s.lease.items, new) \in [Outputs -> ItemType]
  <2> HIDE DEF new, early
  <2> QED BY <1>1, <1>2, UpdatedItems
<1>6. l \in LeaseType /\ l.after = s.lease.after
      /\ l.before = s.lease.before /\ l.state = s.lease.state
      /\ l.reason = s.lease.reason
  <2> HIDE DEF new
  <2> QED BY <1>1, <1>5 DEF LeaseType, ItemType
<1>7. /\ os \in [Outputs -> OutputType]
      /\ \A o \in early : os[o] = lit[o]
      /\ \A o \in Outputs \ early : os[o] = s.outputs[o]
  <2> HIDE DEF lit, early
  <2> QED BY <1>1, <1>4, UpdatedOutputs
<1>8. PresentedEarly(s) = [t EXCEPT !.lease = l]
  BY <1>1 DEF PresentedEarly, SType
<1>9. \A o \in Outputs : /\ os[o].connected = s.outputs[o].connected
                         /\ os[o].scheduled = s.outputs[o].scheduled
                         /\ os[o].blanked = s.outputs[o].blanked
                         /\ os[o].hw = s.outputs[o].hw
  <2>1. \A o \in early : /\ lit[o].connected = s.outputs[o].connected
                          /\ lit[o].scheduled = s.outputs[o].scheduled
                          /\ lit[o].blanked = s.outputs[o].blanked
                          /\ lit[o].hw = s.outputs[o].hw
    BY <1>3
  <2> HIDE DEF os, lit, early
  <2> QED BY <2>1, <1>7
<1>10. Sound(t) /\ Moves(s, t) /\ t.lease = s.lease /\ t.outputs = os
  <2> HIDE DEF os
  <2> QED BY <1>7, <1>9, OutputsKeep
<1>11. l.reason = "commit_deadline" =>
         t.lease.reason = "commit_deadline" /\ l.state \in {"reverting", "invalidated"}
  BY <1>6, <1>10 DEF Sound, Safe, RollbackInv
<1> HIDE DEF t, os, l
<1>12. /\ Sound([t EXCEPT !.lease = l]) /\ Moves(t, [t EXCEPT !.lease = l])
       /\ [t EXCEPT !.lease = l].lease = l /\ [t EXCEPT !.lease = l].outputs = t.outputs
  BY <1>6, <1>10, <1>11, LeaseKeeps
<1>13. Connected([t EXCEPT !.lease = l]) = Connected(s)
  BY <1>9, <1>10, <1>12 DEF Connected
<1> QED BY <1>6, <1>8, <1>10, <1>12, <1>13, MovesCompose

(***************************************************************************)
(* What commitOutputState does to s, one after the other: the hardware     *)
(* takes the sent states, the backend may present the frame at once, and   *)
(* the sent states become the current ones.                                *)
(***************************************************************************)
Powered(s) ==
  [s EXCEPT !.outputs = Updated(@, [o \in Connected(s) |-> Committed(s.outputs[o])])]
Screened(s, early) == IF early THEN PresentedEarly(Powered(s)) ELSE Powered(s)
Arrives(s) ==
  [s EXCEPT !.outputs = Updated(@, [o \in Connected(s) |->
     [s.outputs[o] EXCEPT !.current = s.outputs[o].sent]])]
Noticed(s, moved) == [s EXCEPT !.lease.moved = moved]

LEMMA PoweredIs ==
  ASSUME NEW s \in SType
  PROVE  LET t == Powered(s) IN
         /\ t \in SType /\ t.lease = s.lease /\ Connected(t) = Connected(s)
         /\ \A o \in Connected(s) : t.outputs[o] = Committed(s.outputs[o])
         /\ \A o \in Outputs \ Connected(s) : t.outputs[o] = s.outputs[o]
<1> DEFINE powered == [o \in Connected(s) |-> Committed(s.outputs[o])]
           os == Updated(s.outputs, powered)
           t == [s EXCEPT !.outputs = os]
<1>1. s.outputs \in [Outputs -> OutputType] /\ Connected(s) \in SUBSET Outputs
  BY SFields
<1>2. powered \in [Connected(s) -> OutputType]
  BY <1>1, CommittedKeeps
<1>3. \A o \in Connected(s) : powered[o] = Committed(s.outputs[o]) OBVIOUS
<1> HIDE DEF powered
<1>4. /\ os \in [Outputs -> OutputType]
      /\ \A o \in Connected(s) : os[o] = powered[o]
      /\ \A o \in Outputs \ Connected(s) : os[o] = s.outputs[o]
  BY <1>1, <1>2, UpdatedOutputs
<1>5. Powered(s) = t BY DEF Powered, powered
<1> HIDE DEF os
<1>6. t \in SType /\ t.lease = s.lease /\ t.outputs = os
  BY <1>4, SParts DEF SType
<1>7. \A o \in Outputs : os[o].connected = s.outputs[o].connected
  BY <1>1, <1>3, <1>4, CommittedKeeps
<1> HIDE DEF t
<1>8. Connected(t) = Connected(s) BY <1>6, <1>7 DEF Connected
<1> QED BY <1>3, <1>4, <1>5, <1>6, <1>8

LEMMA PoweredKeeps ==
  ASSUME NEW s, Sound(s),
         s.lease.state = "commit_authorized" =>
           \A o \in Outputs : s.outputs[o].sent = s.lease.after[o]
  PROVE  LET t == Powered(s) IN Sound(t) /\ Moves(s, t) /\ t.lease = s.lease
<1> DEFINE t == Powered(s)
<1>1. s \in SType /\ s.outputs \in [Outputs -> OutputType] BY SFields DEF Sound, Safe
<1>2. /\ t \in SType /\ t.lease = s.lease
      /\ \A o \in Connected(s) : t.outputs[o] = Committed(s.outputs[o])
      /\ \A o \in Outputs \ Connected(s) : t.outputs[o] = s.outputs[o]
  BY <1>1, PoweredIs
<1>3. t.outputs \in [Outputs -> OutputType] /\ t = [s EXCEPT !.outputs = t.outputs]
  BY <1>1, <1>2 DEF Powered, SType
<1> HIDE DEF t
<1>4. \A o \in Outputs : /\ t.outputs[o].connected = s.outputs[o].connected
                         /\ t.outputs[o].scheduled = s.outputs[o].scheduled
                         /\ t.outputs[o].blanked = s.outputs[o].blanked
                         /\ \/ t.outputs[o].hw = s.outputs[o].hw
                            \/ t.outputs[o].hw = s.outputs[o].sent
  BY <1>1, <1>2, CommittedKeeps
<1> DEFINE os == t.outputs
<1>5. /\ os \in [Outputs -> OutputType]
      /\ \A o \in Outputs : /\ os[o].connected = s.outputs[o].connected
                            /\ os[o].scheduled = s.outputs[o].scheduled
                            /\ os[o].blanked = s.outputs[o].blanked
                            /\ \/ os[o].hw = s.outputs[o].hw
                               \/ s.lease.state # "commit_authorized"
                               \/ os[o].hw = s.lease.after[o]
  BY <1>3, <1>4
<1> HIDE DEF os
<1>6. LET u == [s EXCEPT !.outputs = os] IN Sound(u) /\ Moves(s, u) /\ u.lease = s.lease
  BY <1>5, OutputsKeep
<1> QED BY <1>3, <1>6 DEF os, t

LEMMA ScreenedKeeps ==
  ASSUME NEW s, Sound(s), NEW early \in BOOLEAN,
         s.lease.state = "commit_authorized" =>
           \A o \in Outputs : s.outputs[o].sent = s.lease.after[o]
  PROVE  LET t == Screened(s, early) IN
         Sound(t) /\ Moves(s, t) /\ t.lease.state = s.lease.state
<1>1. Sound(Powered(s)) /\ Moves(s, Powered(s)) /\ Powered(s).lease = s.lease
  BY PoweredKeeps
<1>2. /\ Sound(PresentedEarly(Powered(s))) /\ Moves(Powered(s), PresentedEarly(Powered(s)))
      /\ PresentedEarly(Powered(s)).lease.state = Powered(s).lease.state
  BY <1>1, PresentedEarlyKeeps
<1>3. Moves(s, PresentedEarly(Powered(s))) BY <1>1, <1>2, MovesCompose
<1> QED BY <1>1, <1>2, <1>3 DEF Screened

LEMMA ArrivesIs ==
  ASSUME NEW s \in SType
  PROVE  LET t == Arrives(s) IN
         /\ t \in SType /\ t.lease = s.lease /\ t = [s EXCEPT !.outputs = t.outputs]
         /\ \A o \in Outputs : /\ t.outputs[o].connected = s.outputs[o].connected
                               /\ t.outputs[o].scheduled = s.outputs[o].scheduled
                               /\ t.outputs[o].blanked = s.outputs[o].blanked
                               /\ t.outputs[o].sent = s.outputs[o].sent
                               /\ t.outputs[o].hw = s.outputs[o].hw
                               /\ t.outputs[o].sync = s.outputs[o].sync
                               /\ t.outputs[o].flight = s.outputs[o].flight
                               /\ t.outputs[o].shown = s.outputs[o].shown
<1> DEFINE new(o) == [s.outputs[o] EXCEPT !.current = s.outputs[o].sent]
           current == [o \in Connected(s) |-> new(o)]
           os == Updated(s.outputs, current)
           t == [s EXCEPT !.outputs = os]
           Same(p, q) == /\ p.connected = q.connected /\ p.scheduled = q.scheduled
                         /\ p.blanked = q.blanked /\ p.sent = q.sent /\ p.hw = q.hw
                         /\ p.sync = q.sync /\ p.flight = q.flight /\ p.shown = q.shown
<1>1. s.outputs \in [Outputs -> OutputType] /\ Connected(s) \in SUBSET Outputs
  BY SFields
<1>2. ASSUME NEW o \in Connected(s)
      PROVE  new(o) \in OutputType /\ Same(new(o), s.outputs[o])
  <2>1. s.outputs[o] \in OutputType BY <1>1
  <2> QED BY <2>1 DEF OutputType
<1> HIDE DEF new, Same
<1>3. current \in [Connected(s) -> OutputType] /\ \A o \in Connected(s) : current[o] = new(o)
  BY <1>2
<1> HIDE DEF current
<1>4. /\ os \in [Outputs -> OutputType]
      /\ \A o \in Connected(s) : os[o] = current[o]
      /\ \A o \in Outputs \ Connected(s) : os[o] = s.outputs[o]
  BY <1>1, <1>3, UpdatedOutputs
<1>5. Arrives(s) = t BY DEF Arrives, current, new
<1> HIDE DEF os
<1>6. t \in SType /\ t.lease = s.lease /\ t.outputs = os
  BY <1>4, SParts DEF SType
<1> HIDE DEF t
<1>7. \A o \in Outputs : Same(os[o], s.outputs[o])
  <2>1. \A o \in Outputs : Same(s.outputs[o], s.outputs[o]) BY DEF Same
  <2> QED BY <1>2, <1>3, <1>4, <2>1
<1>8. Arrives(s) = [s EXCEPT !.outputs = Arrives(s).outputs] BY <1>5, <1>6 DEF t
<1> QED BY <1>5, <1>6, <1>7, <1>8 DEF Same

LEMMA ArrivesKeeps ==
  ASSUME NEW s, Sound(s)
  PROVE  LET t == Arrives(s) IN Sound(t) /\ Moves(s, t) /\ t.lease = s.lease
<1> DEFINE os == Arrives(s).outputs
<1>1. s \in SType BY DEF Sound, Safe
<1>2. /\ Arrives(s) \in SType /\ Arrives(s).lease = s.lease
      /\ Arrives(s) = [s EXCEPT !.outputs = os]
      /\ \A o \in Outputs : /\ os[o].connected = s.outputs[o].connected
                            /\ os[o].scheduled = s.outputs[o].scheduled
                            /\ os[o].blanked = s.outputs[o].blanked
                            /\ os[o].hw = s.outputs[o].hw
  BY <1>1, ArrivesIs
<1>3. os \in [Outputs -> OutputType] BY <1>2, SFields
<1> HIDE DEF os
<1>4. LET u == [s EXCEPT !.outputs = os] IN Sound(u) /\ Moves(s, u)
  BY <1>2, <1>3, OutputsKeep
<1> QED BY <1>2, <1>4

LEMMA NoticedKeeps ==
  ASSUME NEW s, Sound(s), NEW moved \in BOOLEAN
  PROVE  LET t == Noticed(s, moved) IN
         /\ Sound(t) /\ Moves(s, t) /\ t.outputs = s.outputs /\ t.dirty = s.dirty
         /\ t.lease.state = s.lease.state /\ t.lease.items = s.lease.items
<1> DEFINE l == [s.lease EXCEPT !.moved = moved]
           t == [s EXCEPT !.lease = l]
<1>1. s \in SType /\ s.lease \in LeaseType BY SFields DEF Sound, Safe
<1>2. l \in LeaseType /\ l.after = s.lease.after /\ l.items = s.lease.items
      /\ l.before = s.lease.before /\ l.state = s.lease.state /\ l.reason = s.lease.reason
  BY <1>1 DEF LeaseType
<1>3. Noticed(s, moved) = t /\ t.dirty = s.dirty BY <1>1 DEF Noticed, SType
<1>4. l.reason = "commit_deadline" =>
        s.lease.reason = "commit_deadline" /\ l.state \in {"reverting", "invalidated"}
  BY <1>2 DEF Sound, Safe, RollbackInv
<1> HIDE DEF l
<1>5. Sound(t) /\ Moves(s, t) /\ t.lease = l /\ t.outputs = s.outputs
  BY <1>2, <1>4, LeaseKeeps
<1> QED BY <1>2, <1>3, <1>5

\* A set that takes effect while the lease is authorised is the candidate.
LEMMA CommitIs ==
  ASSUME IInv, wm.phase = "sent", NEW early \in BOOLEAN, NEW test,
         CommitOutputState(early, test)
  PROVE  \E moved \in BOOLEAN :
           LET s == Submitting(Here)
               p == Noticed(Arrives(Screened(s, early)), moved) IN
           /\ Sound(s) /\ Moves(Here, s)
           /\ Sound(Screened(s, early)) /\ Moves(s, Screened(s, early))
           /\ Sound(p) /\ Moves(Screened(s, early), p)
           /\ outputs' = Applied(p, test).outputs /\ lease' = Applied(p, test).lease
           /\ wm' = [phase |-> "idle", dirty |-> Applied(p, test).dirty]
<1> DEFINE s == Submitting(Here)
           shown == Screened(s, early)
           moved == \/ shown.lease.moved
                    \/ (~NeedModeset /\ session.active /\ SyncChanges # {})
                    \/ \E o \in Connected(s) : outputs[o].current # outputs[o].sent
           p == Noticed(Arrives(shown), moved)
<1>1. /\ Sound(s) /\ Moves(Here, s)
      /\ s.lease.state = "commit_authorized" => s = Here
  BY SubmittingKeeps DEF IInv
<1>2. s.lease.state = "commit_authorized" =>
        \A o \in Outputs : s.outputs[o].sent = s.lease.after[o]
  BY <1>1 DEF IInv, SentInv, Here
<1>3. s \in SType /\ Connected(Powered(s)) = Connected(s)
  BY <1>1, PoweredIs DEF Sound, Safe
<1> HIDE DEF s
<1>4. Sound(shown) /\ Moves(s, shown) /\ shown.lease.state = s.lease.state
  BY <1>1, <1>2, ScreenedKeeps
<1>5. Connected(shown) = Connected(s)
  <2>1. Sound(Powered(s)) BY <1>1, <1>2, PoweredKeeps
  <2>2. Connected(PresentedEarly(Powered(s))) = Connected(Powered(s))
    BY <2>1, PresentedEarlyKeeps
  <2> QED BY <1>3, <2>2 DEF Screened
<1>6. moved \in BOOLEAN
  <2>1. shown.lease.moved \in BOOLEAN BY <1>4, SFields, LeaseFields DEF Sound, Safe
  <2> QED BY <2>1
<1>7. LET q == [shown EXCEPT
        !.outputs = Updated(@, [o \in Connected(s) |->
          [shown.outputs[o] EXCEPT !.current = shown.outputs[o].sent]]),
        !.lease.moved = \/ @
                        \/ (~NeedModeset /\ session.active /\ SyncChanges # {})
                        \/ \E o \in Connected(s) : outputs[o].current # outputs[o].sent]
      IN /\ outputs' = Applied(q, test).outputs
         /\ lease' = Applied(q, test).lease
         /\ wm' = [phase |-> "idle", dirty |-> Applied(q, test).dirty]
  BY DEF CommitOutputState, Screened, Powered, s
<1>8. p = [shown EXCEPT
        !.outputs = Updated(@, [o \in Connected(s) |->
          [shown.outputs[o] EXCEPT !.current = shown.outputs[o].sent]]),
        !.lease.moved = \/ @
                        \/ (~NeedModeset /\ session.active /\ SyncChanges # {})
                        \/ \E o \in Connected(s) : outputs[o].current # outputs[o].sent]
  <2>1. shown \in SType BY <1>4 DEF Sound, Safe
  <2>2. Arrives(shown) = [shown EXCEPT !.outputs = Updated(@, [o \in Connected(s) |->
          [shown.outputs[o] EXCEPT !.current = shown.outputs[o].sent]])]
    BY <1>5 DEF Arrives
  <2> HIDE DEF shown
  <2> QED BY <2>1, <2>2 DEF Noticed, SType
<1> HIDE DEF shown, moved
<1>9. Sound(Arrives(shown)) /\ Moves(shown, Arrives(shown))
  BY <1>4, ArrivesKeeps
<1>10. Sound(p) /\ Moves(Arrives(shown), p)
  BY <1>6, <1>9, NoticedKeeps
<1>11. Moves(shown, p) BY <1>9, <1>10, MovesCompose
<1> HIDE DEF p
<1>12. /\ outputs' = Applied(p, test).outputs /\ lease' = Applied(p, test).lease
       /\ wm' = [phase |-> "idle", dirty |-> Applied(p, test).dirty]
  BY <1>7, <1>8
<1> QED BY <1>1, <1>4, <1>6, <1>10, <1>11, <1>12 DEF p, shown, s

LEMMA CommitKeeps ==
  ASSUME IInv, wm.phase = "sent", NEW early \in BOOLEAN, NEW test,
         CommitOutputState(early, test)
  PROVE  /\ Sound(Here)' /\ Moves(Here, Here')
         /\ wm' \in [phase : {"idle"}, dirty : BOOLEAN]
<1>1. PICK moved \in BOOLEAN :
        LET s == Submitting(Here)
            p == Noticed(Arrives(Screened(s, early)), moved) IN
        /\ Sound(s) /\ Moves(Here, s)
        /\ Sound(Screened(s, early)) /\ Moves(s, Screened(s, early))
        /\ Sound(p) /\ Moves(Screened(s, early), p)
        /\ outputs' = Applied(p, test).outputs /\ lease' = Applied(p, test).lease
        /\ wm' = [phase |-> "idle", dirty |-> Applied(p, test).dirty]
  BY CommitIs
<1> DEFINE p == Noticed(Arrives(Screened(Submitting(Here), early)), moved)
           done == Applied(p, test)
<1>2. Sound(p) /\ Moves(Here, p)
  BY <1>1, MovesCompose
<1>3. outputs' = done.outputs /\ lease' = done.lease
      /\ wm' = [phase |-> "idle", dirty |-> done.dirty]
  BY <1>1
<1> HIDE DEF p
<1>4. Sound(done) /\ Moves(p, done) BY <1>2, AppliedKeeps
<1> HIDE DEF done
<1>5. Here' = done
  <2>1. done = [outputs |-> done.outputs, lease |-> done.lease, dirty |-> done.dirty]
    BY <1>4, SFields DEF Sound, Safe
  <2> QED BY <1>3, <2>1 DEF Here
<1>6. done.dirty \in BOOLEAN BY <1>4, SFields DEF Sound, Safe
<1> QED BY <1>2, <1>3, <1>4, <1>5, <1>6, MovesCompose

-----------------------------------------------------------------------------
(***************************************************************************)
(* Every action keeps the invariant, and keeps a preview only as it should *)
(* (the body of KeptIsShownAndSaved).                                      *)
(***************************************************************************)
KeptStep ==
  lease.state # "kept" /\ lease'.state = "kept" =>
    /\ files'.decision = "saved"
    /\ \A o \in Outputs : /\ outputs'[o].connected
                          /\ outputs'[o].hw = lease.after[o]
                          /\ outputs'[o].scheduled = lease.after[o]

\* What remains to be shown of a handler that does not touch the files.
LEMMA Handled ==
  ASSUME IInv, Sound(Here)', UNCHANGED files,
         wm'.phase \in {"idle", "sent"}, wm' = [phase |-> wm'.phase, dirty |-> wm'.dirty],
         session' \in [active : BOOLEAN, locked : BOOLEAN, away : BOOLEAN],
         troubles' \in 0 .. MaxTroubles,
         lease'.reason = "commit_deadline" => lease.reason = "commit_deadline",
         lease'.state = "kept" => lease.state = "kept",
         SentInv'
  PROVE  IInv' /\ KeptStep
<1>1. Here' \in SType BY DEF Sound, Safe
<1>2. outputs' \in [Outputs -> OutputType] /\ lease' \in LeaseType /\ wm'.dirty \in BOOLEAN
  BY <1>1 DEF Here, SType
<1>3. wm' \in [phase : {"idle", "sent"}, dirty : BOOLEAN] BY <1>2
<1>4. TypeOK' BY <1>2, <1>3 DEF IInv, TypeOK
<1>5. DecidedInv' /\ OvertakenInv' BY DEF IInv, DecidedInv, OvertakenInv
<1>6. KeptStep BY DEF KeptStep
<1> QED BY <1>4, <1>5, <1>6 DEF IInv

\* The end of a handler.
LEMMA LeaveIs ==
  ASSUME NEW s \in SType, TypeOK, Leave(s)
  PROVE  /\ Here' = s /\ outputs' = s.outputs /\ lease' = s.lease
         /\ wm'.phase = wm.phase /\ wm' = [phase |-> wm'.phase, dirty |-> wm'.dirty]
         /\ wm'.phase \in {"idle", "sent"}
<1>1. wm \in [phase : {"idle", "sent"}, dirty : BOOLEAN] BY DEF TypeOK
<1>2. /\ wm'.phase = wm.phase /\ wm'.dirty = s.dirty
      /\ wm' = [phase |-> wm'.phase, dirty |-> wm'.dirty]
      /\ outputs' = s.outputs /\ lease' = s.lease
  BY <1>1 DEF Leave
<1>3. Here' = [outputs |-> s.outputs, lease |-> s.lease, dirty |-> s.dirty]
  BY <1>2 DEF Here
<1> QED BY <1>1, <1>2, <1>3, SFields

\* A handler that ends with s, and does not authorise a lease again.
LEMMA LeaveHandled ==
  ASSUME IInv, NEW s, Sound(s), Moves(Here, s), Leave(s), UNCHANGED files,
         session' \in [active : BOOLEAN, locked : BOOLEAN, away : BOOLEAN],
         troubles' \in 0 .. MaxTroubles,
         s.lease.state = "commit_authorized" => s = Here
  PROVE  IInv' /\ KeptStep
<1>1. s \in SType /\ TypeOK BY DEF Sound, Safe, IInv
<1>2. /\ Here' = s /\ outputs' = s.outputs /\ lease' = s.lease
      /\ wm'.phase = wm.phase /\ wm' = [phase |-> wm'.phase, dirty |-> wm'.dirty]
      /\ wm'.phase \in {"idle", "sent"}
  BY <1>1, LeaveIs
<1>3. /\ lease'.reason = "commit_deadline" => lease.reason = "commit_deadline"
      /\ lease'.state = "kept" => lease.state = "kept"
  BY <1>2 DEF Moves, Here, Reached
<1>4. SentInv'
  BY <1>2 DEF IInv, SentInv, Here
<1>5. Sound(Here)' BY <1>2
<1> QED BY <1>2, <1>3, <1>4, <1>5, Handled

\* The parts of the state, as the invariant has them.
LEMMA HereFields ==
  ASSUME IInv
  PROVE  /\ Here \in SType /\ Here.outputs = outputs /\ Here.lease = lease
         /\ Here.dirty = wm.dirty
         /\ outputs \in [Outputs -> OutputType] /\ lease \in LeaseType
         /\ wm \in [phase : {"idle", "sent"}, dirty : BOOLEAN]
         /\ session \in [active : BOOLEAN, locked : BOOLEAN, away : BOOLEAN]
         /\ troubles \in 0 .. MaxTroubles
BY DEF IInv, TypeOK, Sound, Safe, Here

LEMMA OneMoreTrouble ==
  ASSUME IInv, troubles < MaxTroubles
  PROVE  troubles + 1 \in 0 .. MaxTroubles
BY BoundsAssumption DEF IInv, TypeOK

LEMMA InitIInv == Init => IInv
<1> SUFFICES ASSUME Init PROVE IInv OBVIOUS
<1>1. /\ \A o \in Outputs : outputs[o] \in OutputType
      /\ outputs \in [Outputs -> OutputType]
      /\ \A o \in Outputs : ~outputs[o].blanked
  <2>1. <<>> \in FlightType
    <3>1. <<>> \in [1 .. 0 -> FrameType] /\ 0 \in 0 .. MaxFlight BY BoundsAssumption
    <3> QED BY <3>1 DEF FlightType
  <2> QED BY <2>1 DEF Init, OutputType, FlightType, FrameType, Picture, Sync, States, Baseline
<1>2. lease \in LeaseType /\ lease.state = "none" /\ lease.reason = "none"
      /\ \A o \in Outputs : lease.after[o] = Baseline
  BY DEF Init, LeaseType, NewItem, Sync, Reasons, States, Baseline
<1>3. wm \in [phase : {"idle", "sent"}, dirty : BOOLEAN] /\ wm.phase = "idle"
      /\ session \in [active : BOOLEAN, locked : BOOLEAN, away : BOOLEAN]
  BY DEF Init
<1>4. files = [helper |-> "idle", journal |-> "none", decision |-> "none"]
  BY DEF Init
<1>5. troubles \in 0 .. MaxTroubles BY BoundsAssumption DEF Init
<1>6. TypeOK BY <1>1, <1>2, <1>3, <1>4, <1>5 DEF TypeOK, HelperHolds
<1>7. Here \in SType /\ Here.lease = lease /\ Here.outputs = outputs
  BY <1>1, <1>2, <1>3 DEF Here, SType
<1>8. Sound(Here)
  BY <1>1, <1>2, <1>7 DEF Sound, Safe, DarkInv, Candidates, RollbackInv, Baseline
<1> QED
  BY <1>2, <1>3, <1>4, <1>6, <1>8 DEF IInv, SentInv, DecidedInv, OvertakenInv

LEMMA BeginKeeps ==
  ASSUME IInv, NEW plan \in Plans, Begin(plan)
  PROVE  IInv' /\ KeptStep
<1> DEFINE new(o) == [outputs[o] EXCEPT !.scheduled = plan[o]]
<1>1. /\ outputs \in [Outputs -> OutputType] /\ lease \in LeaseType
      /\ wm \in [phase : {"idle", "sent"}, dirty : BOOLEAN]
      /\ \A o \in Outputs : ~outputs[o].blanked
      /\ plan \in [Outputs -> States] /\ \A o \in Outputs : plan[o] >= 0
  <2>1. \A o \in Outputs : ~outputs[o].blanked
    BY DEF Begin, IInv, Sound, Safe, DarkInv, Here
  <2>2. plan \in [Outputs -> States] /\ \A o \in Outputs : plan[o] >= 0
    BY PlansAssumption DEF States, Off, Enabled
  <2> QED BY <2>1, <2>2, HereFields
<1>2. ASSUME NEW o \in Outputs
      PROVE  new(o) \in OutputType /\ new(o).blanked = outputs[o].blanked
  BY <1>1 DEF OutputType
<1>3. outputs' \in [Outputs -> OutputType] /\ \A o \in Outputs : ~outputs'[o].blanked
  <2>1. outputs' = [o \in Outputs |-> new(o)] BY DEF Begin
  <2> HIDE DEF new
  <2> QED BY <1>1, <1>2, <2>1
<1>4. /\ lease' \in LeaseType /\ lease'.state = "applying" /\ lease'.reason = "applying"
      /\ lease'.after = plan
  <2>1. [o \in Outputs |-> outputs[o].current] \in [Outputs -> States]
    BY <1>1, OutputFields
  <2> QED BY <1>1, <2>1 DEF Begin, LeaseType, ActiveStates, Revocable, Reasons
<1>5. wm' = [phase |-> wm'.phase, dirty |-> wm'.dirty] /\ wm'.phase \in {"idle", "sent"}
      /\ wm'.dirty \in BOOLEAN
  BY <1>1 DEF Begin
<1>6. Here' \in SType /\ Here'.lease = lease' /\ Here'.outputs = outputs'
  BY <1>3, <1>4, <1>5 DEF Here, SType
<1>7. Sound(Here)'
  BY <1>1, <1>3, <1>4, <1>6 DEF Sound, Safe, DarkInv, Candidates, RollbackInv
<1>8. SentInv' BY <1>4 DEF SentInv
<1> QED BY <1>4, <1>5, <1>7, <1>8, Handled, HereFields DEF Begin

LEMMA ManageStartKeeps ==
  ASSUME IInv, ManageStart
  PROVE  IInv' /\ KeptStep
<1> DEFINE new(o) == [outputs[o] EXCEPT !.sent = outputs[o].scheduled]
           sent == [o \in Connected(Here) |-> new(o)]
<1>1. /\ Sound(Here) /\ Here.outputs = outputs /\ Here.lease = lease
      /\ outputs \in [Outputs -> OutputType] /\ Connected(Here) \in SUBSET Outputs
  BY HereFields DEF IInv, Connected
<1>2. ASSUME NEW o \in Outputs
      PROVE  /\ new(o) \in OutputType /\ new(o).sent = outputs[o].scheduled
             /\ new(o).connected = outputs[o].connected
             /\ new(o).scheduled = outputs[o].scheduled
             /\ new(o).blanked = outputs[o].blanked /\ new(o).hw = outputs[o].hw
  BY <1>1 DEF OutputType
<1>3. /\ outputs' \in [Outputs -> OutputType]
      /\ \A o \in Connected(Here) : outputs'[o] = new(o)
      /\ \A o \in Outputs \ Connected(Here) : outputs'[o] = outputs[o]
  <2>1. outputs' = Updated(outputs, sent) BY DEF ManageStart
  <2>2. sent \in [Connected(Here) -> OutputType]
        /\ \A o \in Connected(Here) : sent[o] = new(o)
    <3> HIDE DEF new
    <3> QED BY <1>1, <1>2
  <2> HIDE DEF sent, new
  <2>3. /\ Updated(outputs, sent) \in [Outputs -> OutputType]
        /\ \A o \in Connected(Here) : Updated(outputs, sent)[o] = sent[o]
        /\ \A o \in Outputs \ Connected(Here) : Updated(outputs, sent)[o] = outputs[o]
    BY <1>1, <2>2, UpdatedOutputs
  <2> QED BY <2>1, <2>2, <2>3
<1> HIDE DEF new
<1>4. lease' = lease /\ wm' = [phase |-> "sent", dirty |-> FALSE] /\ UNCHANGED files
      /\ UNCHANGED <<session, troubles>>
  BY DEF ManageStart
<1>5. \A o \in Outputs : /\ outputs'[o].connected = outputs[o].connected
                         /\ outputs'[o].scheduled = outputs[o].scheduled
                         /\ outputs'[o].blanked = outputs[o].blanked
                         /\ outputs'[o].hw = outputs[o].hw
  BY <1>2, <1>3
<1>6. Here' \in SType /\ Here'.lease = lease /\ Here'.outputs = outputs'
  BY <1>3, <1>4, HereFields DEF Here, SType
<1>7. Sound(Here)'
  BY <1>1, <1>5, <1>6 DEF Sound, Safe, DarkInv, Candidates, RollbackInv
<1>8. SentInv'
  <2>1. lease.state = "commit_authorized" =>
          \A o \in Outputs : outputs[o].connected /\ outputs[o].scheduled = lease.after[o]
    BY <1>1 DEF Sound, Safe, Candidates
  <2> QED BY <2>1, <1>1, <1>2, <1>3, <1>4 DEF SentInv, Connected
<1> QED BY <1>4, <1>7, <1>8, Handled, HereFields

LEMMA CommitStep ==
  ASSUME IInv, NEW early \in BOOLEAN, NEW test, CommitOutputState(early, test)
  PROVE  IInv' /\ KeptStep
<1>1. wm.phase = "sent" /\ UNCHANGED <<session, files, troubles>>
  BY DEF CommitOutputState
<1>2. Sound(Here)' /\ Moves(Here, Here') /\ wm' \in [phase : {"idle"}, dirty : BOOLEAN]
  BY <1>1, CommitKeeps
<1>3. Here'.lease = lease' /\ Here.lease = lease BY DEF Here
<1>4. /\ lease'.reason = "commit_deadline" => lease.reason = "commit_deadline"
      /\ lease'.state = "kept" => lease.state = "kept"
  BY <1>2, <1>3 DEF Moves, Reached
<1>5. SentInv' BY <1>2 DEF SentInv
<1> QED BY <1>1, <1>2, <1>4, <1>5, Handled, HereFields

\* A refused set leaves every output on, and the lease unauthorised.
LEMMA ModesetFailedIs ==
  ASSUME IInv, NEW partly \in SUBSET Outputs, NEW test, ModesetFailed(partly, test)
  PROVE  \E restored :
           /\ Safe(restored) /\ Moves(Here, restored)
           /\ restored.lease = Submitting(Here).lease
           /\ wm' = [phase |-> "idle", dirty |-> Failed(restored, test).dirty]
           /\ outputs' = Failed(restored, test).outputs
           /\ lease' = Failed(restored, test).lease
<1> DEFINE s == Submitting(Here)
           new(o) == Refused(s.outputs[o], o \in partly)
           back == [o \in Connected(s) |-> new(o)]
           os == Updated(s.outputs, back)
           restored == [s EXCEPT !.dirty = TRUE, !.outputs = os]
<1>1. Sound(s) /\ Moves(Here, s)
  BY SubmittingKeeps DEF IInv
<1>2. /\ s \in SType /\ s.lease \in LeaseType
      /\ s.outputs \in [Outputs -> OutputType] /\ Connected(s) \in SUBSET Outputs
  BY <1>1, SFields DEF Sound, Safe
<1> HIDE DEF s
<1>3. ASSUME NEW o \in Outputs
      PROVE  new(o) \in OutputType /\ ~new(o).blanked
  <2> DEFINE out == IF o \in partly THEN Committed(s.outputs[o]) ELSE s.outputs[o]
  <2>1. s.outputs[o] \in OutputType /\ s.outputs[o].current \in States
    BY <1>2, OutputFields
  <2>2. out \in OutputType BY <2>1, CommittedKeeps
  <2>3. new(o) = [out EXCEPT !.scheduled = s.outputs[o].current,
                             !.sent = s.outputs[o].current, !.blanked = FALSE]
    BY DEF Refused
  <2> HIDE DEF out, new
  <2> QED BY <2>1, <2>2, <2>3 DEF OutputType
<1>4. /\ os \in [Outputs -> OutputType]
      /\ \A o \in Connected(s) : os[o] = new(o)
      /\ \A o \in Outputs \ Connected(s) : os[o] = s.outputs[o]
  <2>1. back \in [Connected(s) -> OutputType] /\ \A o \in Connected(s) : back[o] = new(o)
    <3> HIDE DEF new
    <3> QED BY <1>2, <1>3
  <2> HIDE DEF back, new
  <2>2. /\ os \in [Outputs -> OutputType]
        /\ \A o \in Connected(s) : os[o] = back[o]
        /\ \A o \in Outputs \ Connected(s) : os[o] = s.outputs[o]
    BY <1>2, <2>1, UpdatedOutputs
  <2> QED BY <2>1, <2>2
<1> HIDE DEF os, new
<1>5. restored \in SType /\ restored.lease = s.lease /\ restored.outputs = os
  BY <1>2, <1>4 DEF SType
<1>6. Safe(restored)
  <2>1. ASSUME NEW o \in Outputs
        PROVE  os[o].blanked => o \notin Connected(s) /\ os[o] = s.outputs[o]
    BY <1>3, <1>4
  <2> HIDE DEF restored
  <2> QED BY <1>1, <1>5, <2>1 DEF Sound, Safe, DarkInv, RollbackInv, Connected
<1>7. Moves(Here, restored)
  <2> HIDE DEF restored
  <2> QED BY <1>1, <1>5 DEF Moves
<1>8. LET done == Failed(restored, test) IN
      /\ outputs' = done.outputs /\ lease' = done.lease
      /\ wm' = [phase |-> "idle", dirty |-> done.dirty]
  BY DEF ModesetFailed, restored, os, new, s
<1> HIDE DEF restored
<1> QED BY <1>5, <1>6, <1>7, <1>8 DEF s

LEMMA ModesetFailedKeeps ==
  ASSUME IInv, NEW partly \in SUBSET Outputs, NEW test, ModesetFailed(partly, test)
  PROVE  IInv' /\ KeptStep
<1>7. PICK restored :
           /\ Safe(restored) /\ Moves(Here, restored)
           /\ wm' = [phase |-> "idle", dirty |-> Failed(restored, test).dirty]
           /\ outputs' = Failed(restored, test).outputs
           /\ lease' = Failed(restored, test).lease
  BY ModesetFailedIs
<1> DEFINE done == Failed(restored, test)
<1>8. Sound(done) /\ Moves(restored, done) /\ done.lease.state # "commit_authorized"
  BY <1>7, FailedKeeps
<1>9. /\ wm.phase = "sent" /\ UNCHANGED <<session, files>>
      /\ outputs' = done.outputs /\ lease' = done.lease
      /\ wm' = [phase |-> "idle", dirty |-> done.dirty]
      /\ troubles' = troubles + (IF session.active THEN 1 ELSE 0)
      /\ session.active => troubles < MaxTroubles
  BY <1>7 DEF ModesetFailed
<1> HIDE DEF done
<1>10. Here' = done
  <2>1. done = [outputs |-> done.outputs, lease |-> done.lease, dirty |-> done.dirty]
    BY <1>8, SFields DEF Sound, Safe
  <2> QED BY <1>9, <2>1 DEF Here
<1>11. Moves(Here, done) BY <1>7, <1>8, MovesCompose
<1>12. /\ lease'.reason = "commit_deadline" => lease.reason = "commit_deadline"
       /\ lease'.state = "kept" => lease.state = "kept"
  BY <1>9, <1>11 DEF Moves, Reached, Here
<1>13. troubles' \in 0 .. MaxTroubles BY <1>9, OneMoreTrouble, HereFields
<1>14. Sound(Here)' BY <1>8, <1>10
<1>15. SentInv' BY <1>9 DEF SentInv
<1>16. wm'.phase \in {"idle", "sent"} /\ wm' = [phase |-> wm'.phase, dirty |-> wm'.dirty]
       /\ session' \in [active : BOOLEAN, locked : BOOLEAN, away : BOOLEAN]
  BY <1>9, HereFields
<1> QED BY <1>9, <1>12, <1>13, <1>14, <1>15, <1>16, Handled

\* A step that the lease, the hardware and the scheduled states do not notice.
LEMMA QuietStep ==
  ASSUME IInv, outputs' \in [Outputs -> OutputType], UNCHANGED files,
         \A o \in Outputs : /\ outputs'[o].connected = outputs[o].connected
                            /\ outputs'[o].scheduled = outputs[o].scheduled
                            /\ outputs'[o].blanked = outputs[o].blanked
                            /\ outputs'[o].hw = outputs[o].hw
                            /\ outputs'[o].sent = outputs[o].sent,
         lease' \in LeaseType, lease'.state = lease.state, lease'.after = lease.after,
         lease'.reason = "commit_deadline" => lease.reason = "commit_deadline",
         wm' = wm \/ wm' = [wm EXCEPT !.dirty = TRUE],
         session' \in [active : BOOLEAN, locked : BOOLEAN, away : BOOLEAN],
         troubles' \in 0 .. MaxTroubles
  PROVE  IInv' /\ KeptStep
<1>1. wm'.phase = wm.phase /\ wm'.phase \in {"idle", "sent"} /\ wm'.dirty \in BOOLEAN
      /\ wm' = [phase |-> wm'.phase, dirty |-> wm'.dirty]
  BY HereFields
<1>2. Here' \in SType /\ Here'.lease = lease' /\ Here'.outputs = outputs'
  BY <1>1 DEF Here, SType
<1>3. Sound(Here) /\ Here.lease = lease /\ Here.outputs = outputs
  BY HereFields DEF IInv
<1>4. Sound(Here)'
  BY <1>2, <1>3 DEF Sound, Safe, DarkInv, Candidates, RollbackInv
<1>5. SentInv' BY <1>1 DEF IInv, SentInv
<1> QED BY <1>1, <1>4, <1>5, Handled

LEMMA FrameKeeps ==
  ASSUME IInv, NEW o \in Outputs, Frame(o)
  PROVE  IInv' /\ KeptStep
<1> DEFINE frame == [picture |-> Picturing(outputs[o]), fresh |-> lease.items[o].submitted]
           out == [outputs[o] EXCEPT !.flight = Append(@, frame)]
<1>1. /\ outputs \in [Outputs -> OutputType] /\ outputs[o] \in OutputType
      /\ lease \in LeaseType /\ lease.items[o] \in ItemType
  BY HereFields, LeaseFields
<1>2. frame \in FrameType
  BY <1>1, OutputFields DEF FrameType, Picturing, Picture, ItemType
<1>3. Append(outputs[o].flight, frame) \in FlightType
  <2> DEFINE flight == outputs[o].flight
  <2>1. flight \in FlightType /\ Len(flight) < MaxFlight
    BY <1>1, OutputFields DEF Frame
  <2>2. flight \in Seq(FrameType) /\ Len(flight) \in Nat
    BY <2>1, FlightElements
  <2> HIDE DEF flight, frame
  <2>3. Append(flight, frame) \in [1 .. Len(flight) + 1 -> FrameType]
    <3>1. Append(flight, frame) \in Seq(FrameType) /\ Len(Append(flight, frame)) = Len(flight) + 1
      BY <1>2, <2>2, AppendProperties
    <3> QED BY <3>1, LenProperties
  <2>4. Len(flight) + 1 \in 0 .. MaxFlight
    BY <2>1, <2>2, BoundsAssumption
  <2>5. Append(flight, frame) \in FlightType BY <2>3, <2>4 DEF FlightType
  <2> QED BY <2>5 DEF flight
<1>4. out \in OutputType /\ out.connected = outputs[o].connected
      /\ out.scheduled = outputs[o].scheduled /\ out.blanked = outputs[o].blanked
      /\ out.hw = outputs[o].hw /\ out.sent = outputs[o].sent
  <2> HIDE DEF frame
  <2> QED BY <1>1, <1>3 DEF OutputType, FlightType, FrameType
<1>5. outputs' = [outputs EXCEPT ![o] = out] /\ UNCHANGED <<lease, wm, session, files, troubles>>
  BY <1>1 DEF Frame
<1> HIDE DEF out
<1> QED BY <1>1, <1>4, <1>5, QuietStep, HereFields

LEMMA PresentKeeps ==
  ASSUME IInv, NEW o \in Outputs, NEW success \in BOOLEAN, Present(o, success)
  PROVE  IInv' /\ KeptStep
<1> DEFINE flight == outputs[o].flight
           out == [outputs[o] EXCEPT !.flight = Tail(@),
                     !.shown = IF success THEN Head(flight).picture ELSE @]
           l == [lease EXCEPT !.items[o] = Observe(@, success)]
<1>1. /\ outputs \in [Outputs -> OutputType] /\ outputs[o] \in OutputType
      /\ lease \in LeaseType /\ lease.items \in [Outputs -> ItemType]
      /\ lease.items[o] \in ItemType
  BY HereFields, LeaseFields
<1>2. flight \in FlightType /\ flight # <<>>
  BY <1>1, OutputFields DEF Present
<1>3. Head(flight) \in FrameType /\ Tail(flight) \in FlightType
  <2>1. flight \in Seq(FrameType) /\ Len(flight) \in 0 .. MaxFlight
    BY <1>2, FlightElements
  <2> HIDE DEF flight
  <2>2. Len(flight) - 1 \in 0 .. MaxFlight
    BY <1>2, <2>1, BoundsAssumption
  <2>3. Tail(flight) \in [1 .. Len(flight) - 1 -> FrameType] /\ Head(flight) \in FrameType
    <3>1. /\ Tail(flight) \in Seq(FrameType) /\ Len(Tail(flight)) = Len(flight) - 1
          /\ Head(flight) \in FrameType
      BY <1>2, <2>1, HeadTailProperties
    <3> QED BY <3>1, LenProperties
  <2> QED BY <2>2, <2>3 DEF FlightType
<1>4. out \in OutputType /\ out.connected = outputs[o].connected
      /\ out.scheduled = outputs[o].scheduled /\ out.blanked = outputs[o].blanked
      /\ out.hw = outputs[o].hw /\ out.sent = outputs[o].sent
  <2>1. (IF success THEN Head(flight).picture ELSE outputs[o].shown) \in Picture
    BY <1>1, <1>3, OutputFields DEF FrameType
  <2> QED BY <1>1, <1>3, <2>1 DEF OutputType, FlightType, FrameType
<1>5. l \in LeaseType /\ l.state = lease.state /\ l.after = lease.after /\ l.reason = lease.reason
  <2>1. Observe(lease.items[o], success) \in ItemType BY <1>1, ObserveType
  <2>2. [lease.items EXCEPT ![o] = Observe(lease.items[o], success)] \in [Outputs -> ItemType]
    BY <1>1, <2>1
  <2> QED BY <1>1, <2>2 DEF LeaseType, ItemType
<1>6. /\ outputs' = [outputs EXCEPT ![o] = out] /\ lease' \in {l, lease}
      /\ UNCHANGED <<wm, session, files>>
      /\ troubles' \in 0 .. MaxTroubles
  <2>1. troubles' \in 0 .. MaxTroubles
    <3>1. (success \/ troubles < MaxTroubles) /\ troubles' = troubles + (IF success THEN 0 ELSE 1)
      BY DEF Present
    <3> QED BY <3>1, OneMoreTrouble, HereFields
  <2>2. outputs' = [outputs EXCEPT ![o] = out]
    BY <1>1 DEF Present
  <2> QED BY <2>1, <2>2 DEF Present
<1> HIDE DEF out, l
<1> QED BY <1>1, <1>4, <1>5, <1>6, QuietStep, HereFields

LEMMA FullscreenKeeps ==
  ASSUME IInv, NEW o \in Outputs, Fullscreen(o)
  PROVE  IInv' /\ KeptStep
<1> DEFINE out == [outputs[o] EXCEPT !.fullscreen = ~@]
<1>1. outputs \in [Outputs -> OutputType] /\ outputs[o] \in OutputType
  BY HereFields
<1>2. out \in OutputType /\ out.connected = outputs[o].connected
      /\ out.scheduled = outputs[o].scheduled /\ out.blanked = outputs[o].blanked
      /\ out.hw = outputs[o].hw /\ out.sent = outputs[o].sent
  BY <1>1 DEF OutputType
<1>3. /\ outputs' = [outputs EXCEPT ![o] = out] /\ wm' = [wm EXCEPT !.dirty = TRUE]
      /\ UNCHANGED <<lease, session, files>>
      /\ troubles' \in 0 .. MaxTroubles
  BY <1>1, OneMoreTrouble DEF Fullscreen
<1> HIDE DEF out
<1> QED BY <1>1, <1>2, <1>3, QuietStep, HereFields

LEMMA SessionKeeps ==
  ASSUME IInv, SwitchSession \/ LockSession
  PROVE  IInv' /\ KeptStep
<1>1. troubles' \in 0 .. MaxTroubles
  BY OneMoreTrouble, HereFields DEF SwitchSession, LockSession
<1>2. session' \in [active : BOOLEAN, locked : BOOLEAN, away : BOOLEAN]
  BY HereFields DEF SwitchSession, LockSession
<1>3. wm' = [wm EXCEPT !.dirty = TRUE] /\ UNCHANGED <<outputs, lease, files>>
  BY DEF SwitchSession, LockSession
<1> QED BY <1>1, <1>2, <1>3, QuietStep, HereFields

LEMMA ClockKeeps ==
  ASSUME IInv, Elapse \/ TickWaits
  PROVE  IInv' /\ KeptStep
<1>1. UNCHANGED <<outputs, wm, session, files, troubles>>
  BY DEF Elapse, TickWaits
<1>2. /\ lease' \in LeaseType /\ lease'.state = lease.state /\ lease'.after = lease.after
      /\ lease'.reason \in {lease.reason, "waiting_for_commit_writer"}
  BY HereFields DEF Elapse, TickWaits, LeaseType, Reasons
<1> QED BY <1>1, <1>2, QuietStep, HereFields

\* A step of the helper that concerns the files only.
LEMMA FilesStep ==
  ASSUME IInv, UNCHANGED <<outputs, lease, wm, session, troubles>>,
         files' \in [ helper : HelperHolds \cup {"idle", "gone"},
                      journal : {"none", "prepared", "committed"},
                      decision : {"none", "failed", "saved"} ],
         DecidedInv', OvertakenInv'
  PROVE  IInv' /\ KeptStep
<1>1. TypeOK' BY DEF IInv, TypeOK
<1>2. Here' = Here BY DEF Here
<1>3. SentInv' BY DEF IInv, SentInv
<1>4. KeptStep BY DEF KeptStep
<1> QED BY <1>1, <1>2, <1>3, <1>4 DEF IInv

LEMMA HelperKeeps ==
  ASSUME IInv, \/ HelperDeclines \/ HelperPrepares \/ HelperExpires \/ HelperCommits
               \/ HelperDecides \/ OtherRecovers
  PROVE  IInv' /\ KeptStep
<1>1. UNCHANGED <<outputs, lease, wm, session, troubles>>
  BY DEF HelperDeclines, HelperPrepares, HelperExpires, HelperCommits, HelperDecides,
         OtherRecovers
<1>2. files \in [ helper : HelperHolds \cup {"idle", "gone"},
                  journal : {"none", "prepared", "committed"},
                  decision : {"none", "failed", "saved"} ]
  BY DEF IInv, TypeOK
<1>3. /\ files' \in [ helper : HelperHolds \cup {"idle", "gone"},
                      journal : {"none", "prepared", "committed"},
                      decision : {"none", "failed", "saved"} ]
      /\ files'.helper = "decided" => files'.decision = "saved"
  <2>1. CASE HelperDeclines BY <1>2, <2>1 DEF HelperDeclines
  <2>2. CASE HelperPrepares BY <1>2, <2>2 DEF HelperPrepares, HelperHolds
  <2>3. CASE HelperExpires BY <2>3 DEF HelperExpires
  <2>4. CASE HelperCommits BY <1>2, <2>4 DEF HelperCommits, HelperHolds
  <2>5. CASE HelperDecides BY <2>5 DEF HelperDecides, HelperHolds
  <2>6. CASE OtherRecovers BY <1>2, <2>6 DEF OtherRecovers, Recovered
  <2> QED BY <2>1, <2>2, <2>3, <2>4, <2>5, <2>6
<1>4. files.helper \in HelperHolds \/ files.journal # "none"
  BY DEF HelperDeclines, HelperPrepares, HelperExpires, HelperCommits, HelperDecides,
         OtherRecovers, HelperHolds
<1>5. lease.reason # "commit_deadline" BY <1>4 DEF IInv, OvertakenInv
<1> QED BY <1>1, <1>3, <1>5, FilesStep DEF DecidedInv, OvertakenInv

LEMMA CrashKeeps ==
  ASSUME IInv, HelperCrashes
  PROVE  IInv' /\ KeptStep
<1>1. files.helper \in HelperHolds /\ files' = [files EXCEPT !.helper = "gone"]
      /\ UNCHANGED <<outputs, lease, wm, session>>
      /\ troubles' \in 0 .. MaxTroubles
  BY OneMoreTrouble DEF HelperCrashes
<1>2. lease.reason # "commit_deadline" BY <1>1 DEF IInv, OvertakenInv
<1>3. TypeOK'
  BY <1>1 DEF IInv, TypeOK
<1>4. DecidedInv' /\ OvertakenInv' /\ SentInv'
  BY <1>1, <1>2, HereFields DEF IInv, TypeOK, DecidedInv, OvertakenInv, SentInv
<1>5. Here' = Here BY <1>1 DEF Here
<1>6. KeptStep BY <1>1 DEF KeptStep
<1> QED BY <1>3, <1>4, <1>5, <1>6 DEF IInv

\* Authorised is the state that Candidates and SentInv keep for the helper.
LEMMA AuthorizesKeeps ==
  ASSUME IInv, HelperAuthorizes
  PROVE  IInv' /\ KeptStep
<1>1. /\ lease' \in LeaseType /\ lease'.state = "commit_authorized" /\ lease'.after = lease.after
      /\ lease'.reason = "canonical_commit_authorized"
  BY HereFields DEF HelperAuthorizes, LeaseType, ActiveStates, Revocable, Reasons
<1>2. files.helper = "idle" /\ files' = [files EXCEPT !.helper = "authorized"]
      /\ UNCHANGED <<outputs, wm, session, troubles>>
      /\ wm.phase = "idle" /\ lease.state = "previewing"
      /\ \A o \in Outputs : /\ outputs[o].connected /\ outputs[o].hw = lease.after[o]
                            /\ outputs[o].scheduled = lease.after[o]
  BY DEF HelperAuthorizes, Authorized, Settled, HardwareMatches
<1>3. TypeOK'
  BY <1>1, <1>2 DEF IInv, TypeOK, HelperHolds
<1>4. Here' \in SType /\ Here'.lease = lease' /\ Here'.outputs = outputs
  BY <1>1, <1>2, HereFields DEF Here, SType
<1>5. Sound(Here)'
  BY <1>1, <1>2, <1>4, HereFields
  DEF IInv, Sound, Safe, DarkInv, Candidates, RollbackInv
<1>6. SentInv' /\ DecidedInv' /\ OvertakenInv' /\ KeptStep
  BY <1>1, <1>2, HereFields DEF IInv, TypeOK, SentInv, DecidedInv, OvertakenInv, KeptStep
<1> QED BY <1>3, <1>5, <1>6 DEF IInv

\* A durable decision is what turns an authorised lease into a kept one.
LEMMA KeptSound ==
  ASSUME IInv, lease.state = "commit_authorized"
  PROVE  LET t == Kept(Here) IN
         /\ Sound(t) /\ t.outputs = outputs /\ t.lease.after = lease.after
         /\ t.lease.state = "kept" /\ t.lease.reason = "canonical_commit_durable"
<1> DEFINE l == [lease EXCEPT !.state = "kept", !.moved = FALSE,
                              !.reason = "canonical_commit_durable"]
           t == [Here EXCEPT !.lease = l]
<1>1. Kept(Here) = t
  BY HereFields DEF Kept, SType
<1>2. l \in LeaseType /\ l.after = lease.after /\ l.state = "kept"
      /\ l.reason = "canonical_commit_durable"
  BY HereFields DEF LeaseType, Reasons
<1> HIDE DEF l
<1>3. t \in SType /\ t.lease = l /\ t.outputs = outputs
  BY <1>2, HereFields, SParts DEF SType
<1> HIDE DEF t
<1>4. Sound(t)
  BY <1>2, <1>3, HereFields DEF IInv, Sound, Safe, DarkInv, Candidates, RollbackInv
<1> QED BY <1>1, <1>2, <1>3, <1>4

\* What is kept is what the invariant says of an authorised lease.
LEMMA KeepsCandidate ==
  ASSUME IInv, lease.state = "commit_authorized", outputs' = outputs,
         files'.decision = "saved"
  PROVE  KeptStep
BY HereFields DEF IInv, Sound, Candidates, KeptStep

LEMMA FinalizesKeeps ==
  ASSUME IInv, HelperFinalizes
  PROVE  IInv' /\ KeptStep
<1> DEFINE s == IF lease.state = "commit_authorized" /\ ~session.locked THEN Kept(Here) ELSE Here
<1>1. /\ files.helper = "decided" /\ files' = [files EXCEPT !.helper = "gone"]
      /\ Leave(s) /\ UNCHANGED <<session, troubles>>
  BY DEF HelperFinalizes
<1>2. files.decision = "saved" /\ files'.decision = "saved" /\ files'.helper = "gone"
      /\ files' \in [ helper : HelperHolds \cup {"idle", "gone"},
                      journal : {"none", "prepared", "committed"},
                      decision : {"none", "failed", "saved"} ]
  BY <1>1 DEF IInv, DecidedInv, TypeOK
<1>3. lease.reason # "commit_deadline"
  BY <1>1 DEF IInv, OvertakenInv, HelperHolds
<1>4. /\ Sound(s) /\ s.outputs = outputs /\ s.lease.after = lease.after
      /\ s.lease.reason # "commit_deadline"
      /\ \/ lease.state = "commit_authorized" /\ s.lease.state = "kept"
         \/ s = Here
  <2>1. CASE lease.state = "commit_authorized" /\ ~session.locked
    BY <2>1, KeptSound
  <2>2. CASE ~(lease.state = "commit_authorized" /\ ~session.locked)
    BY <2>2, <1>3, HereFields DEF IInv
  <2> QED BY <2>1, <2>2
<1> HIDE DEF s
<1>5. /\ Here' = s /\ outputs' = outputs /\ lease' = s.lease
      /\ wm'.phase = wm.phase /\ wm' = [phase |-> wm'.phase, dirty |-> wm'.dirty]
      /\ wm'.phase \in {"idle", "sent"}
  BY <1>1, <1>4, LeaveIs DEF IInv, Sound, Safe
<1>6. TypeOK'
  <2>1. lease' \in LeaseType /\ wm'.dirty \in BOOLEAN
    BY <1>4, <1>5, SFields DEF Sound, Safe, Here
  <2>2. wm' \in [phase : {"idle", "sent"}, dirty : BOOLEAN] BY <1>5, <2>1
  <2> QED BY <1>1, <1>2, <1>5, <2>1, <2>2 DEF IInv, TypeOK
<1>7. SentInv'
  BY <1>4, <1>5, HereFields DEF IInv, SentInv
<1>8. DecidedInv' /\ OvertakenInv'
  BY <1>2, <1>4, <1>5 DEF DecidedInv, OvertakenInv
<1>9. KeptStep
  BY <1>2, <1>4, <1>5, KeepsCandidate, HereFields DEF KeptStep
<1> QED BY <1>4, <1>5, <1>6, <1>7, <1>8, <1>9 DEF IInv

LEMMA TickKeeps ==
  ASSUME IInv, NEW test, Tick(test)
  PROVE  IInv' /\ KeptStep
<1> DEFINE seen == Inspect(Here, test)
           done == Expire(seen, test)
<1>1. /\ Sound(seen) /\ Moves(Here, seen)
      /\ seen.lease.state = "commit_authorized" => seen = Here
  BY InspectKeeps DEF IInv
<1>2. /\ Sound(done) /\ Moves(seen, done)
      /\ done.lease.state = "commit_authorized" => done = seen
  <2> HIDE DEF seen
  <2> QED BY <1>1, ExpireKeeps
<1>3. Leave(done) /\ UNCHANGED <<session, files, troubles>> BY DEF Tick
<1> HIDE DEF seen, done
<1>4. Moves(Here, done) BY <1>1, <1>2, MovesCompose
<1> QED BY <1>1, <1>2, <1>3, <1>4, LeaveHandled, HereFields

\* After the deadline either the decision is found, or nobody is left to save.
LEMMA ReconcilesKeeps ==
  ASSUME IInv, NEW test, TickReconciles(test)
  PROVE  IInv' /\ KeptStep
<1> DEFINE rolled == Revert(Here, "commit_deadline", NoOutput, test)
           s == IF files'.decision = "saved" THEN Kept(Here) ELSE rolled
<1>1. /\ lease.state = "commit_authorized" /\ files.helper \notin HelperHolds
      /\ files' = Recovered(files)
      /\ Leave(s) /\ UNCHANGED <<session, troubles>>
  BY DEF TickReconciles, WriterBusy
<1>2. files'.journal = "none" /\ files'.helper = files.helper
      /\ files' \in [ helper : HelperHolds \cup {"idle", "gone"},
                      journal : {"none", "prepared", "committed"},
                      decision : {"none", "failed", "saved"} ]
  <2>1. files \in [ helper : HelperHolds \cup {"idle", "gone"},
                    journal : {"none", "prepared", "committed"},
                    decision : {"none", "failed", "saved"} ]
    BY DEF IInv, TypeOK
  <2> QED BY <1>1, <2>1 DEF Recovered
<1>3. Sound(rolled) /\ GivenUp(rolled)
  <2>1. Here.lease.state \in Revocable BY <1>1, HereFields DEF Revocable
  <2>2. Safe(Here) /\ "commit_deadline" \in Withdrawals BY DEF IInv, Sound, Withdrawals
  <2> QED BY <2>1, <2>2, RevertKeeps
<1>4. /\ Sound(s) /\ s.lease.state # "commit_authorized"
      /\ s.lease.state = "kept" => files'.decision = "saved" /\ s.outputs = outputs
      /\ s.lease.reason = "commit_deadline" => files'.decision # "saved"
  <2>1. CASE files'.decision = "saved"
    BY <1>1, <2>1, KeptSound
  <2>2. CASE files'.decision # "saved"
    <3> HIDE DEF rolled
    <3> QED BY <1>3, <2>2 DEF GivenUp
  <2> QED BY <2>1, <2>2
<1> HIDE DEF s
<1>5. /\ Here' = s /\ outputs' = s.outputs /\ lease' = s.lease
      /\ wm'.phase = wm.phase /\ wm' = [phase |-> wm'.phase, dirty |-> wm'.dirty]
      /\ wm'.phase \in {"idle", "sent"}
  BY <1>1, <1>4, LeaveIs DEF IInv, Sound, Safe
<1>6. TypeOK'
  <2>1. outputs' \in [Outputs -> OutputType] /\ lease' \in LeaseType /\ wm'.dirty \in BOOLEAN
    BY <1>4, <1>5, SFields DEF Sound, Safe, Here
  <2>2. wm' \in [phase : {"idle", "sent"}, dirty : BOOLEAN] BY <1>5, <2>1
  <2> QED BY <1>1, <1>2, <2>1, <2>2 DEF IInv, TypeOK
<1>7. SentInv' BY <1>4, <1>5 DEF SentInv
<1>8. DecidedInv' /\ OvertakenInv'
  BY <1>1, <1>2, <1>4, <1>5 DEF DecidedInv, OvertakenInv, HelperHolds
<1>9. KeptStep
  BY <1>1, <1>4, <1>5, KeepsCandidate DEF KeptStep
<1> QED BY <1>4, <1>5, <1>6, <1>7, <1>8, <1>9 DEF IInv

LEMMA ConflictKeeps ==
  ASSUME IInv, TickConflict
  PROVE  IInv' /\ KeptStep
<1> DEFINE l == [lease EXCEPT !.state = "failed", !.reason = "commit_recovery_failed"]
           s == [Here EXCEPT !.lease = l]
<1>1. l \in LeaseType /\ l.after = lease.after /\ l.before = lease.before /\ l.state = "failed"
      /\ l.reason = "commit_recovery_failed"
  BY HereFields DEF LeaseType, Reasons
<1>2. /\ lease' = l /\ UNCHANGED <<outputs, wm, session, files>>
      /\ troubles' \in 0 .. MaxTroubles
  BY OneMoreTrouble DEF TickConflict
<1> HIDE DEF l
<1>3. Sound(s)
  BY <1>1, HereFields, LeaseKeeps DEF IInv, Reached
<1>4. Here' = s
  BY <1>2, HereFields DEF Here
<1>5. wm' = [phase |-> wm'.phase, dirty |-> wm'.dirty] /\ wm'.phase \in {"idle", "sent"}
  BY <1>2, HereFields
<1>6. Sound(Here)' BY <1>3, <1>4
<1>7. SentInv' BY <1>1, <1>2 DEF SentInv
<1> QED BY <1>1, <1>2, <1>5, <1>6, <1>7, Handled, HereFields

LEMMA RequestKeeps ==
  ASSUME IInv, NEW test, RequestRevert(test) \/ OwnerGone(test)
  PROVE  IInv' /\ KeptStep
<1>1. PICK reason \in {"explicit_revert", "owner_disconnected"} :
        Leave(Revert(Here, reason, NoOutput, test))
  BY DEF RequestRevert, OwnerGone
<1>2. UNCHANGED <<session, files>> /\ troubles' \in 0 .. MaxTroubles
  BY OneMoreTrouble, HereFields DEF RequestRevert, OwnerGone
<1> DEFINE s == Revert(Here, reason, NoOutput, test)
<1>3. Sound(s) /\ Moves(Here, s) /\ s.lease.state # "commit_authorized"
  <2>1. Safe(Here) /\ reason \in Withdrawals /\ reason # "commit_deadline"
    BY DEF IInv, Sound, Withdrawals
  <2> QED BY <2>1, RevertKeeps
<1> HIDE DEF s
<1>4. Leave(s) BY <1>1 DEF s
<1> QED BY <1>2, <1>3, <1>4, LeaveHandled, HereFields

LEMMA DirtyKeeps ==
  ASSUME NEW s, Safe(s)
  PROVE  LET t == [s EXCEPT !.dirty = TRUE] IN
         Safe(t) /\ Moves(s, t) /\ t.lease = s.lease /\ t.outputs = s.outputs
<1> DEFINE t == [s EXCEPT !.dirty = TRUE]
<1>1. t \in SType /\ t.lease = s.lease /\ t.outputs = s.outputs BY DEF Safe, SType
<1> HIDE DEF t
<1>2. Safe(t) /\ Moves(s, t) BY <1>1 DEF Safe, DarkInv, RollbackInv, Moves
<1> QED BY <1>1, <1>2 DEF t

LEMMA PlugInKeeps ==
  ASSUME IInv, NEW test, PlugIn(test)
  PROVE  IInv' /\ KeptStep
<1> DEFINE dirty == [Here EXCEPT !.dirty = TRUE]
           s == Revert(dirty, "hotplug", NoOutput, test)
<1>1. Leave(s) /\ UNCHANGED <<session, files>> /\ troubles' \in 0 .. MaxTroubles
  BY OneMoreTrouble DEF PlugIn
<1>2. Safe(dirty) /\ Moves(Here, dirty)
  BY DirtyKeeps DEF IInv, Sound
<1> HIDE DEF dirty
<1>3. Sound(s) /\ Moves(dirty, s) /\ s.lease.state # "commit_authorized"
  BY <1>2, RevertKeeps DEF Withdrawals
<1> HIDE DEF s
<1>4. Moves(Here, s) BY <1>2, <1>3, MovesCompose
<1> QED BY <1>1, <1>3, <1>4, LeaveHandled, HereFields

\* An output o that is removed is left out of the first rollback, and is gone
\* (and `out`) in the s that the second one finds.
Removed(o, test, out, s) ==
  LET rolled == Revert(Noticed(Here, TRUE), "hotplug", o, test) IN
  /\ Sound(rolled) /\ Moves(Here, rolled)
  /\ ~out.connected
  /\ Safe(s) /\ Moves(rolled, s) /\ s.lease = rolled.lease
  /\ \A p \in Outputs : s.outputs[p] = IF p = o THEN out ELSE rolled.outputs[p]

LEMMA UnplugIs ==
  ASSUME IInv, NEW o \in Outputs, NEW test, Unplug(o, test)
  PROVE  \E out, s :
           /\ Removed(o, test, out, s)
           /\ Leave(Revert(s, "hotplug", NoOutput, test))
           /\ UNCHANGED <<session, files>> /\ troubles' \in 0 .. MaxTroubles
<1> DEFINE moved == [Here EXCEPT !.lease.moved = TRUE]
           rolled == Revert(moved, "hotplug", o, test)
           out == [rolled.outputs[o] EXCEPT !.connected = FALSE, !.flight = <<>>]
           gone == [rolled EXCEPT !.outputs[o] = out]
           s == [gone EXCEPT !.dirty = TRUE]
           done == Revert(s, "hotplug", NoOutput, test)
<1>h. "hotplug" \in Withdrawals /\ "hotplug" # "commit_deadline" BY DEF Withdrawals
<1>1. Sound(moved) /\ Moves(Here, moved)
  BY NoticedKeeps DEF IInv, Noticed
<1>2. Sound(rolled) /\ Moves(moved, rolled) /\ rolled.lease.state # "commit_authorized"
  <2> HIDE DEF moved
  <2> QED BY <1>1, <1>h, RevertKeeps DEF Sound
<1>3. s = [rolled EXCEPT !.outputs[o].connected = FALSE, !.outputs[o].flight = <<>>,
                         !.dirty = TRUE]
  <2>1. rolled \in SType /\ rolled.outputs \in [Outputs -> OutputType]
        /\ rolled.outputs[o] \in OutputType
    BY <1>2, SFields DEF Sound, Safe
  <2> HIDE DEF rolled
  <2> QED BY <2>1 DEF SType
<1>4. Leave(done) /\ UNCHANGED <<session, files>> /\ troubles' \in 0 .. MaxTroubles
  <2>1. troubles' \in 0 .. MaxTroubles BY OneMoreTrouble DEF Unplug
  <2>2. LET r == Revert([Here EXCEPT !.lease.moved = TRUE], "hotplug", o, test)
            u == [r EXCEPT !.outputs[o].connected = FALSE, !.outputs[o].flight = <<>>,
                           !.dirty = TRUE]
        IN Leave(Revert(u, "hotplug", NoOutput, test))
    BY DEF Unplug
  <2> HIDE DEF s
  <2> QED BY <1>3, <2>1, <2>2 DEF Unplug
<1>r. rolled = Revert(Noticed(Here, TRUE), "hotplug", o, test) BY DEF Noticed
<1> HIDE DEF rolled
<1>5. out \in OutputType /\ ~out.connected
  <2>1. rolled.outputs[o] \in OutputType BY <1>2, SFields DEF Sound, Safe
  <2>2. <<>> \in FlightType
    <3>1. <<>> \in [1 .. 0 -> FrameType] /\ 0 \in 0 .. MaxFlight BY BoundsAssumption
    <3> QED BY <3>1 DEF FlightType
  <2> QED BY <2>1, <2>2 DEF OutputType, FlightType, FrameType
<1> HIDE DEF out
<1>6. /\ Safe(gone) /\ Moves(rolled, gone) /\ gone.lease = rolled.lease
      /\ \A p \in Outputs : gone.outputs[p] = IF p = o THEN out ELSE rolled.outputs[p]
  <2>1. rolled \in SType /\ rolled.outputs \in [Outputs -> OutputType]
    BY <1>2, SFields DEF Sound, Safe
  <2>2. /\ gone \in SType /\ gone.lease = rolled.lease
        /\ gone.outputs = [rolled.outputs EXCEPT ![o] = out]
    BY <1>5, <2>1 DEF SType
  <2>3. rolled.lease.state # "none"
    BY <1>1, <1>2, HereFields DEF Unplug, Active, ActiveStates, Revocable, Moves, Reached
  <2> HIDE DEF gone
  <2>4. \A p \in Outputs : gone.outputs[p] = IF p = o THEN out ELSE rolled.outputs[p]
    BY <2>1, <2>2
  <2> QED BY <1>2, <1>5, <2>2, <2>3, <2>4 DEF Sound, Safe, DarkInv, RollbackInv, Moves
<1> HIDE DEF gone
<1>7. Safe(s) /\ Moves(gone, s) /\ s.lease = gone.lease /\ s.outputs = gone.outputs
  BY <1>6, DirtyKeeps
<1>8. Leave(Revert(s, "hotplug", NoOutput, test)) BY <1>4
<1> HIDE DEF s, moved
<1>9. Moves(Here, rolled) /\ Moves(rolled, s) BY <1>1, <1>2, <1>6, <1>7, MovesCompose
<1>10. /\ s.lease = rolled.lease
       /\ \A p \in Outputs : s.outputs[p] = IF p = o THEN out ELSE rolled.outputs[p]
  BY <1>6, <1>7
<1>11. Removed(o, test, out, s)
  BY <1>2, <1>5, <1>7, <1>9, <1>10, <1>r DEF Removed
<1> QED BY <1>4, <1>8, <1>11

LEMMA UnplugKeeps ==
  ASSUME IInv, NEW o \in Outputs, NEW test, Unplug(o, test)
  PROVE  IInv' /\ KeptStep
<1>0. PICK out, s : /\ Removed(o, test, out, s)
                    /\ Leave(Revert(s, "hotplug", NoOutput, test))
                    /\ UNCHANGED <<session, files>> /\ troubles' \in 0 .. MaxTroubles
  BY UnplugIs
<1>1. /\ Safe(s) /\ Moves(Here, s)
      /\ Leave(Revert(s, "hotplug", NoOutput, test))
      /\ UNCHANGED <<session, files>> /\ troubles' \in 0 .. MaxTroubles
  BY <1>0, MovesCompose DEF Removed
<1> DEFINE done == Revert(s, "hotplug", NoOutput, test)
<1>2. Sound(done) /\ Moves(s, done) /\ done.lease.state # "commit_authorized"
  BY <1>1, RevertKeeps DEF Withdrawals
<1>3. Leave(done) BY <1>1
<1> HIDE DEF done
<1>4. Moves(Here, done) BY <1>1, <1>2, MovesCompose
<1> QED BY <1>1, <1>2, <1>3, <1>4, LeaveHandled, HereFields

\* The preview gives way before the power changes: nothing is authorised any
\* more, and a rollback will not take the output for its own.
Repowered(out, p) ==
  /\ p.connected = out.connected /\ p.sent = out.sent /\ p.hw = out.hw
  /\ p.sync = out.sync /\ p.flight = out.flight /\ p.shown = out.shown
  /\ p.scheduled = out.scheduled \/ p.scheduled = -out.scheduled

LEMMA SetPowerIs ==
  ASSUME IInv, NEW o \in Outputs, NEW on \in BOOLEAN, NEW test, SetPower(o, on, test)
  PROVE  \E done :
           LET s == Noticed(Revert(Here, "competing_change", NoOutput, test), TRUE) IN
           /\ Sound(s) /\ Moves(Here, s)
           /\ Sound(done) /\ Moves(s, done) /\ done.lease.state # "commit_authorized"
           /\ done.lease = s.lease
           /\ \A p \in Outputs : Repowered(s.outputs[p], done.outputs[p])
           /\ Leave(done) /\ UNCHANGED <<session, files>> /\ troubles' \in 0 .. MaxTroubles
<1> DEFINE rolled == Revert(Here, "competing_change", NoOutput, test)
           s == [rolled EXCEPT !.lease.moved = TRUE]
           scheduled == rolled.outputs[o].scheduled
           out == [s.outputs[o] EXCEPT !.scheduled = -scheduled, !.blanked = ~on]
           powered == [s EXCEPT !.outputs[o] = out]
           switched == [powered EXCEPT !.dirty = TRUE]
           done == IF scheduled = Off \/ Enabled(scheduled) = on THEN s ELSE switched
<1>1. Sound(rolled) /\ Moves(Here, rolled) /\ rolled.lease.state # "commit_authorized"
  BY RevertKeeps DEF IInv, Sound, Withdrawals
<1>2. rolled.lease.state # "none"
  <2> HIDE DEF rolled
  <2> QED BY <1>1, HereFields DEF SetPower, Active, ActiveStates, Revocable, Moves, Reached
<1>3. Sound(s) /\ Moves(rolled, s) /\ s.outputs = rolled.outputs
      /\ s.lease.state = rolled.lease.state
  <2> HIDE DEF rolled
  <2> QED BY <1>1, NoticedKeeps DEF Noticed
<1>4. s \in SType /\ s.outputs \in [Outputs -> OutputType] /\ s.outputs[o] \in OutputType
  BY <1>3, SFields DEF Sound, Safe
<1>5. Leave(done) /\ UNCHANGED <<session, files>> /\ troubles' \in 0 .. MaxTroubles
  <2>1. troubles' \in 0 .. MaxTroubles BY OneMoreTrouble DEF SetPower
  <2>2. switched = [s EXCEPT !.outputs[o].scheduled = -scheduled,
                             !.outputs[o].blanked = ~on, !.dirty = TRUE]
    <3> HIDE DEF s, rolled
    <3> QED BY <1>4 DEF SType
  <2>3. Leave(IF scheduled = Off \/ Enabled(scheduled) = on THEN s
              ELSE [s EXCEPT !.outputs[o].scheduled = -scheduled,
                             !.outputs[o].blanked = ~on, !.dirty = TRUE])
    BY DEF SetPower
  <2> HIDE DEF s, scheduled, switched
  <2> QED BY <2>1, <2>2, <2>3 DEF SetPower
<1>n. s = Noticed(Revert(Here, "competing_change", NoOutput, test), TRUE) BY DEF Noticed
<1> HIDE DEF s, rolled
<1>6. scheduled # Off /\ Enabled(scheduled) # on =>
        /\ Safe(powered) /\ Moves(s, powered) /\ powered.lease = s.lease
        /\ \A p \in Outputs : Repowered(s.outputs[p], powered.outputs[p])
  <2> SUFFICES ASSUME scheduled # Off, Enabled(scheduled) # on
               PROVE  /\ Safe(powered) /\ Moves(s, powered) /\ powered.lease = s.lease
                      /\ \A p \in Outputs : Repowered(s.outputs[p], powered.outputs[p])
    OBVIOUS
  <2>1. scheduled \in States BY <1>3, <1>4, OutputFields
  <2>2. -scheduled \in States /\ (~on => -scheduled < 0)
    BY <2>1 DEF States, Enabled
  <2> HIDE DEF scheduled
  <2>s. s.outputs[o].scheduled = scheduled BY <1>3 DEF scheduled
  <2>3. /\ out \in OutputType /\ (out.blanked => out.scheduled < 0)
        /\ Repowered(s.outputs[o], out)
    BY <1>4, <2>2, <2>s DEF OutputType, Repowered
  <2> HIDE DEF out
  <2>4. /\ powered \in SType /\ powered.lease = s.lease
        /\ powered.outputs = [s.outputs EXCEPT ![o] = out]
    BY <1>4, <2>3 DEF SType
  <2> HIDE DEF powered
  <2>5. \A p \in Outputs : powered.outputs[p] = IF p = o THEN out ELSE s.outputs[p]
    BY <1>4, <2>4
  <2>6. Safe(powered) /\ Moves(s, powered)
    BY <1>2, <1>3, <2>3, <2>4, <2>5 DEF Sound, Safe, DarkInv, RollbackInv, Moves
  <2>7. \A p \in Outputs : Repowered(s.outputs[p], powered.outputs[p])
    BY <2>3, <2>5 DEF Repowered
  <2> QED BY <2>4, <2>6, <2>7
<1> HIDE DEF powered
<1>7. /\ Sound(done) /\ Moves(s, done) /\ done.lease.state # "commit_authorized"
      /\ done.lease = s.lease
      /\ \A p \in Outputs : Repowered(s.outputs[p], done.outputs[p])
  <2>1. CASE scheduled = Off \/ Enabled(scheduled) = on
    <3>1. done = s BY <2>1
    <3> HIDE DEF done
    <3> QED BY <1>1, <1>3, <3>1 DEF Moves, Repowered
  <2>2. CASE scheduled # Off /\ Enabled(scheduled) # on
    <3>1. Safe(switched) /\ Moves(powered, switched) /\ switched.lease = powered.lease
          /\ switched.outputs = powered.outputs
      BY <1>6, <2>2, DirtyKeeps
    <3>2. done = switched BY <2>2
    <3> HIDE DEF switched, done, scheduled
    <3>3. Moves(s, switched) BY <1>6, <2>2, <3>1, MovesCompose
    <3> QED BY <1>1, <1>3, <1>6, <2>2, <3>1, <3>2, <3>3 DEF Sound, Candidates
  <2> QED BY <2>1, <2>2
<1> HIDE DEF done
<1>8. Moves(Here, s) BY <1>1, <1>3, MovesCompose
<1> QED BY <1>3, <1>5, <1>7, <1>8, <1>n

LEMMA SetPowerKeeps ==
  ASSUME IInv, NEW o \in Outputs, NEW on \in BOOLEAN, NEW test, SetPower(o, on, test)
  PROVE  IInv' /\ KeptStep
<1>1. PICK done :
        /\ Sound(done) /\ Moves(Here, done) /\ done.lease.state # "commit_authorized"
        /\ Leave(done) /\ UNCHANGED <<session, files>> /\ troubles' \in 0 .. MaxTroubles
  BY SetPowerIs, MovesCompose
<1> QED BY <1>1, LeaveHandled, HereFields

-----------------------------------------------------------------------------
(***************************************************************************)
(* The theorems.                                                           *)
(***************************************************************************)
LEMMA NextStep == IInv /\ [Next]_vars => IInv' /\ (KeptStep \/ UNCHANGED vars)
<1> SUFFICES ASSUME IInv, [Next]_vars PROVE IInv' /\ (KeptStep \/ UNCHANGED vars)
  OBVIOUS
<1>1. CASE \E plan \in Plans : Begin(plan) BY <1>1, BeginKeeps
<1>2. CASE ManageStart BY <1>2, ManageStartKeeps
<1>3. CASE \E early \in BOOLEAN, test \in Tests : CommitOutputState(early, test)
  BY <1>3, CommitStep
<1>4. CASE \E partly \in SUBSET Outputs, test \in Tests : ModesetFailed(partly, test)
  BY <1>4, ModesetFailedKeeps
<1>5. CASE \E o \in Outputs : Frame(o) \/ (\E success \in BOOLEAN : Present(o, success))
  BY <1>5, FrameKeeps, PresentKeeps
<1>6. CASE \E test \in Tests : RequestRevert(test) \/ OwnerGone(test)
  BY <1>6, RequestKeeps
<1>7. CASE HelperStep \/ HelperCrashes \/ OtherRecovers
  BY <1>7, HelperKeeps, CrashKeeps, AuthorizesKeeps, FinalizesKeeps DEF HelperStep
<1>8. CASE Elapse \/ Timer
  BY <1>8, ClockKeeps, TickKeeps, ReconcilesKeeps, ConflictKeeps DEF Timer
<1>9. CASE \E o \in Outputs, test \in Tests :
             Unplug(o, test) \/ (\E on \in BOOLEAN : SetPower(o, on, test))
  BY <1>9, UnplugKeeps, SetPowerKeeps
<1>10. CASE \E test \in Tests : PlugIn(test) BY <1>10, PlugInKeeps
<1>11. CASE \E o \in Outputs : Fullscreen(o) BY <1>11, FullscreenKeeps
<1>12. CASE SwitchSession \/ LockSession BY <1>12, SessionKeeps
<1>13. CASE UNCHANGED vars
  BY <1>13 DEF vars, IInv, TypeOK, Here, SentInv, DecidedInv, OvertakenInv
<1> QED
  BY <1>1, <1>2, <1>3, <1>4, <1>5, <1>6, <1>7, <1>8, <1>9, <1>10, <1>11, <1>12, <1>13
  DEF Next

\* IInv is an inductive invariant: what the functions of the preview work on
\* is sound wherever they are called, and files and lease agree.
THEOREM Invariance == Spec => []IInv
BY InitIInv, NextStep, PTL DEF Spec

\* Every variable keeps its type.
THEOREM TypeCorrect == Spec => []TypeOK
<1>1. IInv => TypeOK BY DEF IInv
<1> QED BY <1>1, Invariance, PTL

\* A preview whose commit deadline led to a rollback is never saved
\* (reconcileCommit rolls back only under the writer lock, after recovery).
THEOREM DeadlineHolds == Spec => []DeadlineNeverOvertakesSave
<1>1. IInv => DeadlineNeverOvertakesSave
  BY DEF IInv, OvertakenInv, DeadlineNeverOvertakesSave
<1> QED BY <1>1, Invariance, PTL

\* A screen that a power client turned off is not turned on by a rollback.
THEOREM PowerHolds == Spec => []PowerOffStands
<1>1. IInv => PowerOffStands
  <2> SUFFICES ASSUME IInv, NEW o \in Outputs, outputs[o].blanked, outputs[o].connected
               PROVE  ~Enabled(outputs[o].scheduled)
    BY DEF PowerOffStands
  <2>1. outputs[o].scheduled < 0 /\ outputs[o].scheduled \in States
    BY HereFields, OutputFields DEF IInv, Sound, Safe, DarkInv
  <2> QED BY <2>1 DEF Enabled, States
<1> QED BY <1>1, Invariance, PTL

\* A preview is kept only when its files are saved and every screen is in it.
THEOREM KeptHolds == Spec => KeptIsShownAndSaved
<1>1. IInv /\ [Next]_vars =>
        [ lease.state # "kept" /\ lease'.state = "kept" =>
            /\ files'.decision = "saved"
            /\ \A o \in Outputs : /\ outputs'[o].connected
                                  /\ outputs'[o].hw = lease.after[o]
                                  /\ outputs'[o].scheduled = lease.after[o] ]_vars
  BY NextStep DEF KeptStep
<1> QED BY <1>1, Invariance, PTL DEF Spec, KeptIsShownAndSaved
=============================================================================
