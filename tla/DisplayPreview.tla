--------------------------- MODULE DisplayPreview ---------------------------
(***************************************************************************)
(* The display preview lease: DisplayPreview.zig applies a candidate       *)
(* output configuration, offers to keep it once every screen has shown it, *)
(* and otherwise restores what was there.                                  *)
(*                                                                         *)
(* The lease lives between three clocks that know nothing of each other:   *)
(* the manage sequences of the window manager, which carry the scheduled   *)
(* state of the outputs to the hardware (OutputManager.commitOutputState), *)
(* the presentations the hardware reports later, and the helper process    *)
(* that saves the candidate under the writer lock of the configuration.    *)
(* Monitors are unplugged, screens powered off, windows made full-screen,  *)
(* the session locked or switched away and processes killed at any point.  *)
(*                                                                         *)
(* One behaviour holds one lease, and ends with it.  The window manager is *)
(* reduced to the two ends of its transaction (module Transaction), the    *)
(* files to the phases of the journal (module ConfigCommit).  Requests and *)
(* notices that would change nothing are left out.                         *)
(***************************************************************************)
EXTENDS Integers, Sequences

CONSTANTS
  NOutputs,      \* how many outputs there are; items of the lease are in this order
  SyncOutputs,   \* those whose adaptive sync follows full-screen windows
  Plans,         \* the candidates: [Outputs -> States]
  MaxWoken,      \* bound on the outputs the fallback wakes
  MaxFlight,     \* bound on frames committed and not yet presented
  MaxTroubles    \* bound on unplugging, failures, crashes and other interference

Outputs == 1 .. NOutputs

(***************************************************************************)
(* Output.State, as far as the hardware can tell two states apart: a mode  *)
(* (with scale, transform and colour), negative while a power client keeps *)
(* the screen dark (disabled_soft), or Off (disabled_hard).                *)
(***************************************************************************)
Off == 0
Baseline == 1
Candidate == 2
Conservative == 3     \* the fallback of a rollback: no HDR, no adaptive sync
States == -3 .. 3
Enabled(c) == c > 0

ASSUME NOutputsAssumption == NOutputs \in Nat \ {0}
ASSUME SyncAssumption == SyncOutputs \subseteq Outputs
ASSUME PlansAssumption ==
  /\ Plans \subseteq [Outputs -> {c \in States : c = Off \/ Enabled(c)}]
  /\ \A plan \in Plans : \E o \in Outputs : Enabled(plan[o])
ASSUME BoundsAssumption ==
  /\ MaxWoken \in 0 .. NOutputs
  /\ MaxFlight \in Nat \ {0}
  /\ MaxTroubles \in Nat

VARIABLES
  outputs,   \* Output and its hardware
  lease,     \* DisplayPreview.lease
  wm,        \* the ends of the window manager's transaction
  session,   \* whether the seat session is active, and locked, and was ever away
  files,     \* the helper, the journal and the decision it leaves
  troubles   \* how much has gone wrong (bounds the model)

vars == <<outputs, lease, wm, session, files, troubles>>

Sync == {"on", "off"}
Picture == [state : States, sync : Sync]

OutputType ==
  [ connected : BOOLEAN,     \* wlr_output is not null
    scheduled : States, sent : States, current : States,
    hw : States,             \* what wlroots reports of the output
    sync : Sync,             \* actualAdaptiveSync()
    fullscreen : BOOLEAN,    \* a full-screen window asks for adaptive sync
    \* commits that have not been presented, and whether the item counts them
    flight : UNION {[1 .. n -> [picture : Picture, fresh : BOOLEAN]] : n \in 0 .. MaxFlight},
    shown : Picture,         \* the last frame that reached the screen
    blanked : BOOLEAN ]      \* a power client asked for `off` last, and got it

Revocable == {"applying", "previewing", "commit_authorized", "waiting_session"}
ActiveStates == Revocable \cup {"reverting"}

\* Why a lease is given up, and what else is said about one.
Withdrawals ==
  {"explicit_revert", "owner_disconnected", "timeout", "commit_deadline", "apply_failed",
   "presentation_failed", "hotplug", "competing_change", "hardware_state_changed",
   "session_resumed", "session_locked"}
Reasons == Withdrawals \cup
  {"none", "applying", "adaptive_sync_changed", "confirmation_required",
   "canonical_commit_authorized", "waiting_for_commit_writer", "commit_recovery_failed",
   "canonical_commit_durable", "waiting_for_session_rollback",
   "tested_usable_output_fallback", "rollback_unusable_or_test_failed",
   "rollback_presentation_failed", "rollback_test_or_apply_failed",
   "rollback_completion_timeout"}

LeaseType ==
  [ state : ActiveStates \cup {"none", "kept", "reverted", "invalidated", "failed"},
    reason : Reasons,
    before : [Outputs -> States], after : [Outputs -> States],
    items : [Outputs -> [ target : Sync \cup {"null"}, submitted : BOOLEAN,
                          presented : BOOLEAN, rejected : BOOLEAN ]],
    partial : BOOLEAN,       \* rollback_partial
    due : BOOLEAN,           \* now() >= deadline_ms
    moved : BOOLEAN ]        \* display_revision is no longer the lease's

HelperHolds == {"authorized", "prepared", "committed", "decided"}

TypeOK ==
  /\ outputs \in [Outputs -> OutputType]
  /\ lease \in LeaseType
  /\ wm \in [phase : {"idle", "sent"}, dirty : BOOLEAN]
  /\ session \in [active : BOOLEAN, locked : BOOLEAN, away : BOOLEAN]
  /\ files \in [ helper : HelperHolds \cup {"idle", "gone"},
                 journal : {"none", "prepared", "committed"},
                 decision : {"none", "failed", "saved"} ]
  /\ troubles \in 0 .. MaxTroubles

NewItem == [target |-> "null", submitted |-> FALSE, presented |-> FALSE, rejected |-> FALSE]

Init ==
  /\ outputs = [o \in Outputs |->
       [ connected |-> TRUE, scheduled |-> Baseline, sent |-> Baseline,
         current |-> Baseline, hw |-> Baseline, sync |-> "off", fullscreen |-> FALSE,
         flight |-> <<>>, shown |-> [state |-> Baseline, sync |-> "off"],
         blanked |-> FALSE ]]
  /\ lease = [ state |-> "none", reason |-> "none",
               before |-> [o \in Outputs |-> Baseline],
               after |-> [o \in Outputs |-> Baseline],
               items |-> [o \in Outputs |-> NewItem],
               partial |-> FALSE, due |-> FALSE, moved |-> FALSE ]
  /\ wm = [phase |-> "idle", dirty |-> FALSE]
  /\ session = [active |-> TRUE, locked |-> FALSE, away |-> FALSE]
  /\ files = [helper |-> "idle", journal |-> "none", decision |-> "none"]
  /\ troubles = 0

-----------------------------------------------------------------------------
(* The functions of DisplayPreview.zig are called from each other and from *)
(* the middle of other handlers.  They are operators on s, the outputs,    *)
(* the lease and the dirty flag as the caller left them.                   *)

\* f with the values of g, where g has one.
Updated(f, g) == [x \in DOMAIN f |-> IF x \in DOMAIN g THEN g[x] ELSE f[x]]

Here == [outputs |-> outputs, lease |-> lease, dirty |-> wm.dirty]

\* The handler ends and leaves s behind.
Leave(s) ==
  /\ outputs' = s.outputs
  /\ lease' = s.lease
  /\ wm' = [wm EXCEPT !.dirty = s.dirty]

Active(s) == s.lease.state \in ActiveStates

Connected(s) == {o \in Outputs : s.outputs[o].connected}

\* Output.adaptiveSyncTarget: what adaptive sync should be in state c, now.
Target(out, c) ==
  IF /\ Enabled(c) /\ c # Conservative
     /\ out.fullscreen /\ session.active /\ ~session.locked
    THEN "on" ELSE "off"

HardwareMatches(out, c) ==
  /\ out.connected
  /\ out.hw = c
  /\ Enabled(c) => out.sync = Target(out, c)

Stale(flight) == [i \in DOMAIN flight |-> [flight[i] EXCEPT !.fresh = FALSE]]

RestoredAlways(s, o) == s.lease.before[o]

\* Restore only what this lease still owns: a newer scheduled value wins.
Restored(s, o) ==
  IF s.outputs[o].scheduled = s.lease.after[o]
    THEN s.lease.before[o] ELSE s.outputs[o].scheduled

\* testStates() of a rollback: the baseline passes, or the fallback that wakes
\* the first n outputs does, or nothing does.  A baseline that leaves no screen
\* lit never passes.  (Without a rollback to come, one outcome stands for all;
\* a test that fails is one more trouble, though it is not counted.)
Tests ==
  [baseline : {TRUE}, woken : {0}]
    \cup IF session.active /\ lease.state \in Revocable /\ troubles < MaxTroubles
           THEN [baseline : {FALSE}, woken : 0 .. MaxWoken] ELSE {}

Fallback(c, woken) ==
  IF woken \/ Enabled(c) THEN Conservative
  ELSE IF c = Off THEN Off ELSE -Conservative

ResetItemKept(item) == item

\* Presentations are counted anew; the target of adaptive sync is kept.
ResetItem(item) == [NewItem EXCEPT !.target = item.target]

\* DisplayPreview.revert, where `test` is what testing the rollback finds.
Revert(s, reason, removed, test) ==
  LET left == Connected(s) \ {removed}
      baseline == test.baseline /\ \E o \in left : Enabled(Restored(s, o))
      woken == left \cap (1 .. test.woken)
  IN
  IF s.lease.state \notin Revocable THEN s
  ELSE IF ~session.active THEN
    [s EXCEPT !.lease.state = "waiting_session",
              !.lease.reason = "waiting_for_session_rollback"]
  ELSE IF ~baseline /\ woken = {} THEN
    [s EXCEPT !.lease.state = "failed",
              !.lease.reason = "rollback_unusable_or_test_failed"]
  ELSE
    [ dirty |-> TRUE,
      lease |->
        [s.lease EXCEPT
          !.state = "reverting",
          !.reason = IF baseline THEN reason ELSE "tested_usable_output_fallback",
          !.partial = @ \/ ~baseline,
          !.due = FALSE,
          !.moved = TRUE,
          !.items = Updated(@, [o \in Connected(s) |->
            ResetItem(s.lease.items[o])])],
      outputs |-> Updated(s.outputs, [o \in left |->
        [s.outputs[o] EXCEPT
           !.scheduled = IF baseline THEN Restored(s, o)
                         ELSE Fallback(Restored(s, o), o \in woken),
           !.blanked = @ /\ o \notin woken,
           !.flight = Stale(@)]]) ]

NoOutput == 0

-----------------------------------------------------------------------------
(* Frames.  Every commit of an output has a sequence number; an item that  *)
(* is armed counts the presentations of later commits only.                *)

Picturing(out) == [state |-> out.hw, sync |-> out.sync]

\* The scene of an output is drawn and committed; the backend takes nothing
\* while the session is inactive.  (A frame that can change neither the screen
\* nor the lease is left out.)
Frame(o) ==
  /\ lease.state \in {"applying", "previewing", "reverting"}
  /\ session.active /\ outputs[o].connected /\ Enabled(outputs[o].hw)
  /\ Len(outputs[o].flight) < MaxFlight
  /\ lease.items[o].submitted \/ Picturing(outputs[o]) # outputs[o].shown
  /\ outputs' = [outputs EXCEPT ![o].flight =
       Append(@, [picture |-> Picturing(outputs[o]), fresh |-> lease.items[o].submitted])]
  /\ UNCHANGED <<lease, wm, session, files, troubles>>

\* Completion.observe and DisplayPreview.presented.
Observe(item, success) ==
  IF ~item.submitted THEN item
  ELSE [item EXCEPT !.presented = @ \/ success, !.rejected = @ \/ ~success]

\* Output.handlePresent
Present(o, success) ==
  /\ Active(Here) /\ outputs[o].flight # <<>>
  /\ success \/ troubles < MaxTroubles
  /\ LET frame == Head(outputs[o].flight) IN
       /\ outputs' = [outputs EXCEPT
            ![o].flight = Tail(@),
            ![o].shown = IF success THEN frame.picture ELSE @]
       /\ lease' = IF frame.fresh
            THEN [lease EXCEPT !.items[o] = Observe(@, success)] ELSE lease
  /\ troubles' = troubles + (IF success THEN 0 ELSE 1)
  /\ UNCHANGED <<wm, session, files>>

\* The state an item is to reach.
Goal(s, o) ==
  IF s.lease.state = "reverting" THEN s.outputs[o].scheduled ELSE s.lease.after[o]

(***************************************************************************)
(* DisplayPreview.submitting, called right before the state set is         *)
(* committed: take the baseline of every item, once the set the window     *)
(* manager sent is the one the lease waits for.                            *)
(***************************************************************************)
Retargeted(s) ==
  {o \in Connected(s) : s.lease.items[o].target # Target(s.outputs[o], Goal(s, o))}

RetargetArmed(s) ==
  [s EXCEPT
     !.lease.items = Updated(@, [o \in Retargeted(s) |->
       [s.lease.items[o] EXCEPT !.target = Target(s.outputs[o], Goal(s, o))]]),
     !.lease.state = IF @ = "previewing" /\ Retargeted(s) # {} THEN "applying" ELSE @]

Retarget(s) ==
  LET changed == Retargeted(s)
      again == s.lease.state = "previewing" /\ changed # {}
  IN [s EXCEPT
       !.lease.items = Updated(@, [o \in changed |->
         [s.lease.items[o] EXCEPT !.target = Target(s.outputs[o], Goal(s, o)),
                                  !.submitted = FALSE]]),
       !.lease.state = IF again THEN "applying" ELSE @,
       !.lease.reason = IF again THEN "adaptive_sync_changed" ELSE @]

Ready(s) ==
  \A o \in Outputs :
    IF s.outputs[o].connected THEN s.outputs[o].sent = Goal(s, o)
    ELSE s.lease.state = "reverting"

Arm(s) ==
  LET armed == {o \in Connected(s) : ~s.lease.items[o].submitted} IN
  [s EXCEPT
    !.lease.items = Updated(@, [o \in armed |->
      [ResetItem(s.lease.items[o]) EXCEPT !.submitted = TRUE]]),
    !.outputs = Updated(@, [o \in armed |-> [s.outputs[o] EXCEPT !.flight = Stale(@)]])]

Submitting(s) ==
  IF s.lease.state \notin {"applying", "reverting", "previewing"} THEN s
  ELSE LET t == Retarget(s) IN
       IF t.lease.state # "previewing" /\ Ready(t) THEN Arm(t) ELSE t

(***************************************************************************)
(* DisplayPreview.applied looks at the items in order and stops at the     *)
(* first one that has not arrived.                                         *)
(***************************************************************************)
Arrived(s, o, goal) ==
  LET out == s.outputs[o]  item == s.lease.items[o] IN
  /\ ~item.rejected
  /\ out.current = goal
  /\ HardwareMatches(out, goal)
  /\ Enabled(goal) => item.presented

First(S) == CHOOSE o \in S : \A p \in S : o <= p

RolledBack(s) ==
  LET missing == Outputs \ Connected(s)
      late == {o \in Connected(s) : ~Arrived(s, o, s.outputs[o].scheduled)}
      looked == {o \in Outputs : \A p \in late : o < p}
      partial == s.lease.partial
                   \/ \E o \in looked : \/ o \in missing
                                        \/ s.outputs[o].current # s.lease.before[o]
      t == [s EXCEPT !.lease.partial = partial]
  IN
  IF late # {} THEN
    IF s.lease.items[First(late)].rejected
      THEN [t EXCEPT !.lease.state = "failed",
                     !.lease.reason = "rollback_presentation_failed"]
      ELSE t
  ELSE IF ~partial /\ s.lease.reason \in {"explicit_revert", "timeout", "owner_disconnected"}
    THEN [t EXCEPT !.lease.state = "reverted"]
    ELSE [t EXCEPT !.lease.state = "invalidated"]

\* Why the first item o that has not arrived ends the lease; "" if it may still.
Obstacle(s, o) ==
  LET out == s.outputs[o]  previewing == s.lease.state = "previewing" IN
  CASE ~out.connected -> "hotplug"
    [] out.connected /\ s.lease.items[o].rejected -> "presentation_failed"
    [] OTHER ->
         IF ~previewing THEN ""
         ELSE IF out.current # s.lease.after[o] THEN "competing_change"
         ELSE IF ~HardwareMatches(out, s.lease.after[o]) THEN "hardware_state_changed"
         ELSE ""

Applied(s, test) ==
  LET late == {o \in Outputs : ~Arrived(s, o, s.lease.after[o])} IN
  IF s.lease.state = "reverting" THEN RolledBack(s)
  ELSE IF s.lease.state \notin {"applying", "previewing"} THEN s
  ELSE IF late # {} THEN
    LET why == Obstacle(s, First(late)) IN
    IF why = "" THEN s ELSE Revert(s, why, NoOutput, test)
  ELSE IF s.lease.state = "applying" THEN
    [s EXCEPT !.lease.state = "previewing",
              !.lease.due = IF s.lease.reason = "adaptive_sync_changed" THEN @ ELSE FALSE,
              !.lease.reason = "confirmation_required",
              !.lease.moved = FALSE]
  ELSE s

-----------------------------------------------------------------------------
(* The window manager's transaction carries the scheduled states over.     *)

\* Output.manageStart
ManageStart ==
  /\ wm.phase = "idle" /\ wm.dirty /\ Active(Here)
  /\ wm' = [phase |-> "sent", dirty |-> FALSE]
  /\ outputs' = Updated(outputs, [o \in Connected(Here) |->
       [outputs[o] EXCEPT !.sent = outputs[o].scheduled]])
  /\ UNCHANGED <<lease, session, files, troubles>>

NeedModeset == \E o \in Connected(Here) : outputs[o].sent # outputs[o].hw

\* Outputs whose adaptive sync alone has to change.
SyncChanges ==
  {o \in Connected(Here) : /\ Enabled(outputs[o].sent)
                           /\ outputs[o].sync # Target(outputs[o], outputs[o].sent)}

\* The hardware of `out` once its sent state is committed.  (Adaptive sync is
\* not toggled for an inactive session; while a preview is active a set the
\* backend refuses is not tried again without it.)
Committed(out) ==
  [out EXCEPT
    !.hw = out.sent,
    !.sync = IF ~Enabled(out.sent) THEN "off"
             ELSE IF session.active THEN Target(out, out.sent)
             ELSE @]

\* The backend presents the frame of the commit before the commit returns.
PresentedEarly(s) ==
  LET early == {o \in Connected(s) : Enabled(s.outputs[o].hw)} IN
  [s EXCEPT
    !.outputs = Updated(@, [o \in early |->
      [s.outputs[o] EXCEPT !.shown = Picturing(s.outputs[o])]]),
    !.lease.items = Updated(@, [o \in early |-> Observe(s.lease.items[o], TRUE)])]

\* OutputManager.commitOutputState, when the backend takes the set.
CommitOutputState(early, test) ==
  LET s == Submitting(Here)
      hardware == [s EXCEPT !.outputs =
        Updated(@, [o \in Connected(s) |-> Committed(s.outputs[o])])]
      shown == IF early THEN PresentedEarly(hardware) ELSE hardware
      published == [shown EXCEPT
        !.outputs = Updated(@, [o \in Connected(s) |->
          [shown.outputs[o] EXCEPT !.current = shown.outputs[o].sent]]),
        !.lease.moved = \/ @
                        \/ (~NeedModeset /\ session.active /\ SyncChanges # {})
                        \/ \E o \in Connected(s) : outputs[o].current # outputs[o].sent]
  IN
  /\ wm.phase = "sent" /\ Active(Here)
  /\ NeedModeset => session.active
  /\ early => NeedModeset /\ \A o \in Outputs : outputs[o].flight = <<>>
  /\ LET done == Applied(published, test) IN
       /\ outputs' = done.outputs
       /\ lease' = done.lease
       /\ wm' = [phase |-> "idle", dirty |-> done.dirty]
  /\ UNCHANGED <<session, files, troubles>>

\* DisplayPreview.failed
Failed(s, test) ==
  IF s.lease.state = "reverting"
    THEN [s EXCEPT !.lease.state = "failed", !.lease.reason = "rollback_test_or_apply_failed"]
    ELSE Revert(s, "apply_failed", NoOutput, test)

\* The state an output falls back to when the set is refused.
Refused(out, changed) ==
  [(IF changed THEN Committed(out) ELSE out) EXCEPT
     !.scheduled = out.current, !.sent = out.current, !.blanked = FALSE]

\* The backend refuses the set, having applied it to some members already:
\* OutputManager.modesetFailed.
ModesetFailed(partly, test) ==
  LET s == Submitting(Here)
      restored == [s EXCEPT
        !.dirty = TRUE,
        !.outputs = Updated(@, [o \in Connected(s) |-> Refused(s.outputs[o], o \in partly)])]
      done == Failed(restored, test)
  IN
  /\ wm.phase = "sent" /\ Active(Here)
  /\ IF session.active
       THEN (NeedModeset \/ SyncChanges # {}) /\ troubles < MaxTroubles
       ELSE NeedModeset /\ partly = {}
  /\ partly \subseteq Connected(Here)
  /\ outputs' = done.outputs
  /\ lease' = done.lease
  /\ wm' = [phase |-> "idle", dirty |-> done.dirty]
  /\ troubles' = troubles + (IF session.active THEN 1 ELSE 0)
  /\ UNCHANGED <<session, files>>

-----------------------------------------------------------------------------
(* Requests about the lease.                                               *)

Settled ==
  /\ wm = [phase |-> "idle", dirty |-> FALSE]
  /\ session.active /\ ~session.locked

\* DisplayPreview.begin, by the owner's connection; every check has passed.
Begin(plan) ==
  /\ lease.state = "none" /\ Settled
  /\ \A o \in Outputs : outputs[o].current = outputs[o].scheduled
  /\ lease' = [lease EXCEPT !.state = "applying", !.reason = "applying",
                            !.before = [o \in Outputs |-> outputs[o].current],
                            !.after = plan]
  /\ outputs' = [o \in Outputs |-> [outputs[o] EXCEPT !.scheduled = plan[o]]]
  /\ wm' = [wm EXCEPT !.dirty = TRUE]
  /\ UNCHANGED <<session, files, troubles>>

\* DisplayPreview.requestRevert; the IPC server refuses it while locked.
RequestRevert(test) ==
  /\ ~session.locked
  /\ lease.state \in Revocable \ {"commit_authorized"}
  /\ Leave(Revert(Here, "explicit_revert", NoOutput, test))
  /\ UNCHANGED <<session, files, troubles>>

\* The owner's connection is closed: IpcServer.close, DisplayPreview.disconnected.
OwnerGone(test) ==
  /\ lease.state \in Revocable \ {"commit_authorized"} /\ troubles < MaxTroubles
  /\ Leave(Revert(Here, "owner_disconnected", NoOutput, test))
  /\ troubles' = troubles + 1
  /\ UNCHANGED <<session, files>>

\* DisplayPreview.authorize
Authorized ==
  /\ lease.state = "previewing" /\ ~lease.due /\ Settled /\ ~lease.moved
  /\ \A o \in Outputs : /\ outputs[o].connected
                        /\ outputs[o].current = lease.after[o]
                        /\ outputs[o].scheduled = lease.after[o]
                        /\ HardwareMatches(outputs[o], lease.after[o])

-----------------------------------------------------------------------------
(* The helper saves the candidate, with the writer lock held from          *)
(* HelperAuthorizes on (HelperHolds); see ConfigCommit for the files.      *)

\* It takes the lock and asks for authorisation; refused, it may ask again.
HelperAuthorizes ==
  /\ files.helper = "idle" /\ Authorized
  /\ files' = [files EXCEPT !.helper = "authorized"]
  /\ lease' = [lease EXCEPT !.state = "commit_authorized", !.due = FALSE,
                            !.reason = "canonical_commit_authorized"]
  /\ UNCHANGED <<outputs, wm, session, troubles>>

\* beginCommit is refused, or less than a second is left.
HelperDeclines ==
  /\ files.helper = "authorized"
  /\ files' = [files EXCEPT !.helper = "gone"]
  /\ UNCHANGED <<outputs, lease, wm, session, troubles>>

HelperPrepares ==
  /\ files.helper = "authorized"
  /\ files' = [files EXCEPT !.helper = "prepared", !.journal = "prepared"]
  /\ UNCHANGED <<outputs, lease, wm, session, troubles>>

\* Its own deadline, or a failing write: it undoes what it wrote.
HelperExpires ==
  /\ files.helper = "prepared"
  /\ files' = [helper |-> "gone", journal |-> "none", decision |-> "failed"]
  /\ UNCHANGED <<outputs, lease, wm, session, troubles>>

HelperCommits ==
  /\ files.helper = "prepared"
  /\ files' = [files EXCEPT !.helper = "committed", !.journal = "committed"]
  /\ UNCHANGED <<outputs, lease, wm, session, troubles>>

HelperDecides ==
  /\ files.helper = "committed"
  /\ files' = [helper |-> "decided", journal |-> "none", decision |-> "saved"]
  /\ UNCHANGED <<outputs, lease, wm, session, troubles>>

\* readDecision, of a durable decision
Kept(s) == [s EXCEPT !.lease.state = "kept", !.lease.moved = FALSE,
                     !.lease.reason = "canonical_commit_durable"]

\* DisplayPreview.finalize; refused while the session is locked.
HelperFinalizes ==
  /\ files.helper = "decided"
  /\ files' = [files EXCEPT !.helper = "gone"]
  /\ Leave(IF lease.state = "commit_authorized" /\ ~session.locked THEN Kept(Here) ELSE Here)
  /\ UNCHANGED <<session, troubles>>

HelperCrashes ==
  /\ files.helper \in HelperHolds /\ troubles < MaxTroubles
  /\ files' = [files EXCEPT !.helper = "gone"]
  /\ troubles' = troubles + 1
  /\ UNCHANGED <<outputs, lease, wm, session>>

RecoveredRaw(f) ==
  [f EXCEPT !.journal = "none",
            !.decision = IF f.journal = "committed" THEN "saved" ELSE f.journal]

\* ConfigTransaction.recover, by whoever gets the writer lock next.
Recovered(f) ==
  IF f.journal = "none" THEN f
  ELSE [f EXCEPT !.journal = "none",
                 !.decision = IF f.journal = "committed" THEN "saved" ELSE "failed"]

OtherRecovers ==
  /\ files.helper = "gone" /\ files.journal # "none"
  /\ files' = Recovered(files)
  /\ UNCHANGED <<outputs, lease, wm, session, troubles>>

-----------------------------------------------------------------------------
(* The lease's timer.                                                      *)

Elapse ==
  /\ Active(Here) /\ lease.state # "waiting_session" /\ ~lease.due
  /\ lease' = [lease EXCEPT !.due = TRUE]
  /\ UNCHANGED <<outputs, wm, session, files, troubles>>

InspectResumes(s, test) ==
  LET resumed ==
        IF ~session.active /\ s.lease.state # "commit_authorized" THEN
          [s EXCEPT !.lease.state = "waiting_session",
                    !.lease.reason = "waiting_for_session_rollback"]
        ELSE IF s.lease.state = "waiting_session" THEN [s EXCEPT !.lease.state = "applying"]
        ELSE s
      unlocked ==
        IF session.locked /\ resumed.lease.state # "commit_authorized"
          THEN Revert(resumed, "session_locked", NoOutput, test) ELSE resumed
  IN Applied(unlocked, test)

\* The first half of tick: the session, the lock, the presentations.
Inspect(s, test) ==
  LET resumed ==
        IF ~session.active /\ s.lease.state # "commit_authorized" THEN
          [s EXCEPT !.lease.state = "waiting_session",
                    !.lease.reason = "waiting_for_session_rollback"]
        ELSE IF s.lease.state = "waiting_session" THEN
          Revert([s EXCEPT !.lease.state = "applying"], "session_resumed", NoOutput, test)
        ELSE s
      unlocked ==
        IF session.locked /\ resumed.lease.state # "commit_authorized"
          THEN Revert(resumed, "session_locked", NoOutput, test) ELSE resumed
      seen ==
        IF /\ unlocked.lease.state \in {"applying", "previewing"}
           /\ \E o \in Outputs : unlocked.lease.items[o].rejected
          THEN Revert(unlocked, "presentation_failed", NoOutput, test) ELSE unlocked
  IN Applied(seen, test)

ExpireWaits(s, test) ==
  IF /\ Active(s) /\ s.lease.state \notin {"waiting_session", "reverting"}
     /\ s.lease.due
    THEN Revert(s, "timeout", NoOutput, test) ELSE s

\* The second half: the deadline of a lease that is not authorised.
Expire(s, test) ==
  IF ~(Active(s) /\ s.lease.state # "waiting_session" /\ s.lease.due) THEN s
  ELSE IF s.lease.state = "reverting" THEN
    [s EXCEPT !.lease.state = "failed", !.lease.reason = "rollback_completion_timeout"]
  ELSE Revert(s, "timeout", NoOutput, test)

\* DisplayPreview.tick
Tick(test) ==
  /\ Active(Here) /\ ~(lease.state = "commit_authorized" /\ lease.due)
  /\ UNCHANGED <<session, files, troubles>>
  /\ Leave(Expire(Inspect(Here, test), test))

NeverBusy == FALSE

\* The deadline of an authorised lease: DisplayPreview.reconcileCommit.
WriterBusy == files.helper \in HelperHolds

TickWaits ==
  /\ lease.state = "commit_authorized" /\ lease.due /\ WriterBusy
  /\ lease' = [lease EXCEPT !.reason = "waiting_for_commit_writer"]
  /\ UNCHANGED <<outputs, wm, session, files, troubles>>

TickReconciles(test) ==
  /\ lease.state = "commit_authorized" /\ lease.due /\ ~WriterBusy
  /\ files' = Recovered(files)
  /\ Leave(IF files'.decision = "saved" THEN Kept(Here)
           ELSE Revert(Here, "commit_deadline", NoOutput, test))
  /\ UNCHANGED <<session, troubles>>

\* A file was edited after the helper died: recovery refuses to touch it.
TickConflict ==
  /\ lease.state = "commit_authorized" /\ lease.due /\ ~WriterBusy
  /\ files.journal # "none" /\ troubles < MaxTroubles
  /\ lease' = [lease EXCEPT !.state = "failed", !.reason = "commit_recovery_failed"]
  /\ troubles' = troubles + 1
  /\ UNCHANGED <<outputs, wm, session, files>>

-----------------------------------------------------------------------------
(* What happens to the outputs and the session meanwhile.                  *)

\* Output.handleDestroy: removed, then outputsChanged(true) calls hotplug.
Unplug(o, test) ==
  /\ outputs[o].connected /\ Active(Here) /\ troubles < MaxTroubles
  /\ LET rolled == Revert([Here EXCEPT !.lease.moved = TRUE], "hotplug", o, test)
         s == [rolled EXCEPT !.outputs[o].connected = FALSE, !.outputs[o].flight = <<>>,
                             !.dirty = TRUE]
     IN Leave(Revert(s, "hotplug", NoOutput, test))
  /\ troubles' = troubles + 1
  /\ UNCHANGED <<session, files>>

\* Another monitor is plugged in: OutputManager.handleNewOutput.  (It is not
\* an item of the lease; a rollback under way takes no notice of it.)
PlugIn(test) ==
  /\ lease.state \in Revocable /\ troubles < MaxTroubles
  /\ Leave(Revert([Here EXCEPT !.dirty = TRUE], "hotplug", NoOutput, test))
  /\ troubles' = troubles + 1
  /\ UNCHANGED <<session, files>>

SetPowerAlone(o, on, test) ==
  /\ outputs[o].connected /\ Active(Here) /\ troubles < MaxTroubles
  /\ LET scheduled == outputs[o].scheduled IN
     Leave(IF scheduled = Off \/ Enabled(scheduled) = on THEN Here
           ELSE [Here EXCEPT !.outputs[o].scheduled = -scheduled,
                             !.outputs[o].blanked = ~on, !.dirty = TRUE])
  /\ troubles' = troubles + 1
  /\ UNCHANGED <<session, files>>

\* OutputManager.handlePowerManagerSetMode: the preview gives way first
\* (DisplayPreview.competingChange).
SetPower(o, on, test) ==
  /\ outputs[o].connected /\ Active(Here) /\ troubles < MaxTroubles
  /\ LET rolled == Revert(Here, "competing_change", NoOutput, test)
         scheduled == rolled.outputs[o].scheduled
         s == [rolled EXCEPT !.lease.moved = TRUE]
     IN Leave(IF scheduled = Off \/ Enabled(scheduled) = on THEN s
              ELSE [s EXCEPT !.outputs[o].scheduled = -scheduled,
                             !.outputs[o].blanked = ~on, !.dirty = TRUE])
  /\ troubles' = troubles + 1
  /\ UNCHANGED <<session, files>>

\* A window becomes full-screen or leaves it; a workspace or the overview
\* shows or hides it.
Fullscreen(o) ==
  /\ o \in SyncOutputs /\ outputs[o].connected /\ Active(Here) /\ troubles < MaxTroubles
  /\ outputs' = [outputs EXCEPT ![o].fullscreen = ~@]
  /\ wm' = [wm EXCEPT !.dirty = TRUE]
  /\ troubles' = troubles + 1
  /\ UNCHANGED <<lease, session, files>>

\* The seat switches to another session and back: OutputManager.handleSessionActive.
SwitchSession ==
  /\ Active(Here) /\ (session.active => troubles < MaxTroubles)
  /\ session' = [session EXCEPT !.active = ~@, !.away = TRUE]
  /\ wm' = [wm EXCEPT !.dirty = TRUE]
  /\ troubles' = troubles + (IF session.active THEN 1 ELSE 0)
  /\ UNCHANGED <<outputs, lease, files>>

\* The session is locked or unlocked (module SessionLock); windowing gets dirty
\* by the way, with the focus or when the lock completes.
LockSession ==
  /\ Active(Here) /\ (session.locked \/ troubles < MaxTroubles)
  /\ session' = [session EXCEPT !.locked = ~@]
  /\ wm' = [wm EXCEPT !.dirty = TRUE]
  /\ troubles' = troubles + (IF session.locked THEN 0 ELSE 1)
  /\ UNCHANGED <<outputs, lease, files>>

-----------------------------------------------------------------------------
HelperStep ==
  \/ HelperAuthorizes \/ HelperDeclines \/ HelperPrepares
  \/ HelperExpires \/ HelperCommits \/ HelperDecides \/ HelperFinalizes

Timer ==
  \/ \E test \in Tests : Tick(test) \/ TickReconciles(test)
  \/ TickWaits \/ TickConflict

Next ==
  \/ \E plan \in Plans : Begin(plan)
  \/ ManageStart
  \/ \E early \in BOOLEAN, test \in Tests : CommitOutputState(early, test)
  \/ \E partly \in SUBSET Outputs, test \in Tests : ModesetFailed(partly, test)
  \/ \E o \in Outputs : Frame(o) \/ (\E success \in BOOLEAN : Present(o, success))
  \/ \E test \in Tests : RequestRevert(test) \/ OwnerGone(test)
  \/ HelperStep \/ HelperCrashes \/ OtherRecovers
  \/ Elapse \/ Timer
  \/ \E o \in Outputs, test \in Tests :
       Unplug(o, test) \/ (\E on \in BOOLEAN : SetPower(o, on, test))
  \/ \E test \in Tests : PlugIn(test)
  \/ \E o \in Outputs : Fullscreen(o)
  \/ SwitchSession \/ LockSession

Spec == Init /\ [][Next]_vars

\* A tick would change something.
TimerActs ==
  IF lease.state = "commit_authorized" /\ lease.due
    THEN ~WriterBusy \/ lease.reason # "waiting_for_commit_writer"
    ELSE \E test \in Tests : Expire(Inspect(Here, test), test) # Here

\* WF_vars(Timer), with ENABLED <<Timer>>_vars written out.
TimerFairness == []<>~TimerActs \/ []<><<Timer>>_vars

(***************************************************************************)
(* Every tick arms the timer again, clocks advance, and a helper that      *)
(* holds the lock goes on or dies.  No presentation, no manage sequence    *)
(* and no client is relied on.                                             *)
(***************************************************************************)
FairSpec == Spec /\ TimerFairness /\ WF_vars(Elapse) /\ WF_vars(WriterBusy /\ HelperStep)

-----------------------------------------------------------------------------
\* The last frame that reached the screen of o was drawn for the state it is in.
Shows(o, goal) == Enabled(goal) => outputs[o].shown.state = goal
ShowsSync(o) ==
  Enabled(outputs[o].hw) /\ ~session.away => outputs[o].shown.sync = outputs[o].sync

\* The question "keep this configuration?" is put only when every screen is
\* there, its hardware is in the candidate state, and the last frame that
\* reached it was drawn for that state: no frame of the previous
\* configuration, or of before a change of adaptive sync, is taken for it.
\* (While the session is away the expectation of adaptive sync changes, the
\* hardware does not, and a frame drawn before it follows may be counted.)
KeepOffersWhatIsSeen ==
  [][ lease.state # "previewing" /\ lease'.state = "previewing" =>
        \A o \in Outputs : /\ outputs'[o].connected
                           /\ outputs'[o].hw = lease.after[o]
                           /\ Shows(o, lease.after[o])'
                           /\ ShowsSync(o)' ]_vars

\* A preview is kept only if its files are saved and the screens still have
\* it, whatever was unplugged, powered off or refused while the helper wrote.
KeptIsShownAndSaved ==
  [][ lease.state # "kept" /\ lease'.state = "kept" =>
        /\ files'.decision = "saved"
        /\ \A o \in Outputs : /\ outputs'[o].connected
                              /\ outputs'[o].hw = lease.after[o]
                              /\ outputs'[o].scheduled = lease.after[o] ]_vars

\* A preview is reported as reverted only when every screen is there, back in
\* its old state and has shown a frame of it.
RevertedMeansRestored ==
  [][ lease.state # "reverted" /\ lease'.state = "reverted" =>
        \A o \in Outputs : /\ outputs'[o].connected
                           /\ outputs'[o].hw = lease.before[o]
                           /\ outputs'[o].scheduled = lease.before[o]
                           /\ Shows(o, lease.before[o])' ]_vars

\* A preview whose commit deadline led to a rollback is never saved, by no
\* helper that still runs and by no recovery.
DeadlineNeverOvertakesSave ==
  lease.reason = "commit_deadline" =>
    /\ files.decision # "saved"
    /\ files.journal # "committed"
    /\ files.helper \notin HelperHolds

\* A screen that a power client turned off stays off through rollbacks: the
\* lease restores only what is still its own.  (The fallback may wake it, when
\* no other screen would be lit; a refused set turns it on again.)
PowerOffStands ==
  \A o \in Outputs :
    outputs[o].blanked /\ outputs[o].connected => ~Enabled(outputs[o].scheduled)

\* Full-screen windows and workspace changes alter what the hardware is
\* expected to do, not the candidate: a preview is not withdrawn for a change
\* of the hardware that did not happen.
HardwareIsNotBlamed ==
  [][ lease.reason # "hardware_state_changed" /\ lease'.reason = "hardware_state_changed" =>
        \E o \in Outputs : outputs[o].hw # lease.after[o]
                             \/ outputs[o].sync # lease.items[o].target ]_vars

\* Once the session stays active every lease ends, without help of the
\* window manager, the hardware or the client.
LeaseEnds == <>[](session.active) => []<>~Active(Here)
-----------------------------------------------------------------------------
(* The preview implements PreviewContract.                                 *)

\* What the lease says to the contract: a rollback that runs, or waits for
\* the session, is a withdrawal.
Phase ==
  CASE lease.state \in {"waiting_session", "reverting"} -> "withdrawn"
    [] lease.state \in {"invalidated", "failed"} -> "lost"
    [] OTHER -> lease.state

\* The configurations that every screen is in and shows.
View ==
  {c \in {"before", "after"} :
     \A o \in Outputs : /\ outputs[o].connected
                        /\ outputs[o].hw = lease[c][o]
                        /\ Shows(o, lease[c][o])}

Contract == INSTANCE PreviewContract
              WITH phase <- Phase, view <- View,
                   granted <- files.helper # "idle", outcome <- files.decision

\* A candidate that was given up is never offered, authorised or kept again,
\* whatever session, timer, hardware and helper do meanwhile; one helper at most
\* may save, what came of it is decided once, and offered, kept and reverted
\* say what all screens show.
ImplementsPreviewContract == Contract!Spec
=============================================================================
