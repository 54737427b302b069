---------------------------- MODULE SessionLock ----------------------------
(***************************************************************************)
(* The session lock: LockManager.zig hides the session from every output   *)
(* before it tells the lock client that the session is locked, and         *)
(* Output.zig records in lock_render_state what the last commit and the    *)
(* last presentation of each output put on its screen.                     *)
(*                                                                         *)
(* An output renders a frame (Frame) when the backend asks for one, and    *)
(* learns later that the frame is on the screen (Present).  In between the *)
(* lock client, the 200 ms timer, a modeset or an unplugged monitor may    *)
(* act.  The content of a frame is abstracted to whether it lets the       *)
(* session be seen ("session") or not ("hidden": blank, or a lock surface  *)
(* above everything else).  A modeset commits a frame of its own, in any   *)
(* state of the lock, and leaves lock_render_state alone: a frame of the   *)
(* session committed like that on an output whose account says otherwise   *)
(* is called "stray".  What the lock guarantees is guaranteed but for      *)
(* stray frames, which LockedOutputsAreBlank shows to be a real exception. *)
(***************************************************************************)
EXTENDS Integers, FiniteSets

CONSTANTS
  Outputs,      \* the connectors an output may be plugged into
  Faults        \* which of the situations below may arise

(***************************************************************************)
(* "client":   the lock client goes away while its surfaces are awaited.   *)
(* "leave":    while the outputs are blanked, outputs leave the layout and *)
(*             none joins it (without it, they may join and none leaves).  *)
(* "mirror":   a modeset commits a frame of an output that owes the blank  *)
(*             frame it submitted as a mirror, although the lock is over,  *)
(*             or is complete and the output becomes an ordinary one.      *)
(***************************************************************************)
ASSUME OutputsAssumption == IsFiniteSet(Outputs)
ASSUME FaultsAssumption == Faults \subseteq {"client", "leave", "mirror"}

VARIABLES
  manager,   \* LockManager, the two scene trees it switches, wlroots' lock
  outputs,   \* one record per connector: Output, its mirror, its lock surface
  panic      \* an assert or `unreachable` of the code has been reached

vars == <<manager, outputs, panic>>

ManagerType ==
  [ state : {"unlocked", "waiting_for_lock_surfaces", "waiting_for_blank", "locked"},
    lock : BOOLEAN,              \* a client holds the ext_session_lock_v1
    locked_sent : BOOLEAN,       \* ... and was sent the locked event
    lock_surfaces_timer : BOOLEAN,
    normal_tree : BOOLEAN,       \* server.scene.normal_tree.node.enabled
    locked_tree : BOOLEAN ]      \* server.scene.locked_tree.node.enabled

LockRenderState ==
  { "pending_unlock", "unlocked", "pending_blank", "blanked",
    "pending_lock_surface", "lock_surface" }

Content == {"session", "stray", "hidden"}

OutputType ==
  [ enabled : BOOLEAN,                     \* plugged in and enabled
    mirror : BOOLEAN,                      \* current.mirror_of is not empty
    lock_render_state : LockRenderState,
    submitted : Content \cup {"none"},     \* committed, not yet presented
    stale : BOOLEAN,                       \* mirror.commit_seq is not that commit's
    shown : Content,                       \* on the screen
    surface : BOOLEAN ]                    \* the client has a mapped lock surface

\* An output is created disabled and is considered blanked.
NewOutput ==
  [ enabled |-> FALSE, mirror |-> FALSE,
    lock_render_state |-> "blanked", submitted |-> "none",
    stale |-> FALSE, shown |-> "hidden", surface |-> FALSE ]

Lit == {o \in Outputs : outputs[o].enabled}

Current == [manager |-> manager, outputs |-> outputs, panic |-> panic]

Become(s) ==
  /\ manager' = s.manager
  /\ outputs' = s.outputs
  /\ panic' = s.panic

(***************************************************************************)
(* LockManager.                                                            *)
(***************************************************************************)
\* Mutant: the event is forgotten.
SendLockedSilently(s) == [s EXCEPT !.manager.state = "locked"]

\* The locked event goes to the client that holds the lock, if there is one.
SendLocked(s) ==
  [s EXCEPT !.manager.state = "locked",
            !.manager.locked_sent = s.manager.lock]

\* Mutant: the timer is left armed when the surfaces are all there.
MaybeLockKeepsTimer(s) ==
  LET lit == {o \in Outputs : s.outputs[o].enabled}
      rendered == \A o \in lit : s.outputs[o].lock_render_state = "lock_surface"
      blanked == \A o \in lit :
                   s.outputs[o].lock_render_state \in {"blanked", "lock_surface"}
  IN CASE s.manager.state = "waiting_for_lock_surfaces" ->
            IF rendered THEN [SendLocked(s) EXCEPT !.manager.normal_tree = FALSE] ELSE s
       [] s.manager.state = "waiting_for_blank" ->
            IF blanked THEN SendLocked(s) ELSE s
       [] OTHER -> [s EXCEPT !.panic = TRUE]

\* Mutant: a blank frame that is only submitted counts as presented.
MaybeLockTooSoon(s) ==
  LET lit == {o \in Outputs : s.outputs[o].enabled}
      rendered == \A o \in lit : s.outputs[o].lock_render_state = "lock_surface"
      blanked == \A o \in lit : s.outputs[o].lock_render_state \in
                   {"pending_blank", "blanked", "lock_surface"}
  IN CASE s.manager.state = "waiting_for_lock_surfaces" ->
            IF rendered
            THEN [SendLocked(s) EXCEPT !.manager.normal_tree = FALSE,
                                       !.manager.lock_surfaces_timer = FALSE]
            ELSE s
       [] s.manager.state = "waiting_for_blank" ->
            IF blanked THEN SendLocked(s) ELSE s
       [] OTHER -> [s EXCEPT !.panic = TRUE]

MaybeLock(s) ==
  LET lit == {o \in Outputs : s.outputs[o].enabled}
      rendered == \A o \in lit : s.outputs[o].lock_render_state = "lock_surface"
      blanked == \A o \in lit :
                   s.outputs[o].lock_render_state \in {"blanked", "lock_surface"}
  IN CASE s.manager.state = "waiting_for_lock_surfaces" ->
            IF rendered
            THEN [SendLocked(s) EXCEPT !.manager.normal_tree = FALSE,
                                       !.manager.lock_surfaces_timer = FALSE]
            ELSE s
       [] s.manager.state = "waiting_for_blank" ->
            IF blanked THEN SendLocked(s) ELSE s
       [] OTHER -> [s EXCEPT !.panic = TRUE]

\* Mutant: the ignored frame is marked in place of its output.
InvalidateAllInPlace(outs) ==
  [o \in Outputs |->
     IF outs[o].enabled /\ outs[o].mirror
     THEN [outs[o] EXCEPT !.submitted = IF @ = "none" THEN @ ELSE "stale"]
     ELSE outs[o]]

\* OutputMirror.invalidateAll: the presentation of the frame a mirror has
\* submitted will be ignored.
InvalidateAll(outs) ==
  [o \in Outputs |->
     IF outs[o].enabled /\ outs[o].mirror
     THEN [outs[o] EXCEPT !.stale = outs[o].submitted # "none"]
     ELSE outs[o]]

\* wlroots destroys the lock surfaces together with the lock.
NoSurfaces(outs) == [o \in Outputs |-> [outs[o] EXCEPT !.surface = FALSE]]

\* Mutant: a lock whose client is gone before it is complete is given up.
HandleDestroyUnlocks(s) ==
  [s EXCEPT !.manager.lock = FALSE,
            !.manager.locked_sent = FALSE,
            !.manager.state = IF @ = "waiting_for_blank" THEN "unlocked" ELSE @,
            !.manager.lock_surfaces_timer = FALSE,
            !.outputs = NoSurfaces(s.outputs)]

\* Mutant: the next client is not told whether the session is locked.
HandleDestroyKeepsSent(s) ==
  LET waiting == s.manager.state = "waiting_for_lock_surfaces"
  IN [s EXCEPT !.manager.lock = FALSE,
               !.manager.state = IF waiting THEN "waiting_for_blank" ELSE @,
               !.manager.lock_surfaces_timer = IF waiting THEN FALSE ELSE @,
               !.outputs = NoSurfaces(s.outputs)]

HandleDestroy(s) ==
  LET waiting == s.manager.state = "waiting_for_lock_surfaces"
      released ==
        [s.manager EXCEPT
           !.lock = FALSE,
           !.locked_sent = FALSE,
           !.state = IF waiting THEN "waiting_for_blank" ELSE @,
           !.lock_surfaces_timer = IF waiting THEN FALSE ELSE @]
  IN [s EXCEPT !.manager = released, !.outputs = NoSurfaces(@)]

-----------------------------------------------------------------------------
(***************************************************************************)
(* The initial state: no output is enabled yet, each is considered blanked. *)
(***************************************************************************)
Init ==
  /\ manager = [ state |-> "unlocked", lock |-> FALSE, locked_sent |-> FALSE,
                 lock_surfaces_timer |-> FALSE,
                 normal_tree |-> TRUE, locked_tree |-> FALSE ]
  /\ outputs = [o \in Outputs |-> NewOutput]
  /\ panic = FALSE

\* A client asks for the lock; while another one holds it it is denied.
Lock ==
  /\ ~panic
  /\ ~manager.lock
  /\ IF manager.state = "unlocked"
     THEN Become([Current EXCEPT
            !.manager = [@ EXCEPT !.lock = TRUE,
                                  !.state = "waiting_for_lock_surfaces",
                                  !.lock_surfaces_timer = TRUE,
                                  !.locked_tree = TRUE],
            !.outputs = InvalidateAll(outputs),
            !.panic = manager.locked_tree])
     ELSE Become([Current EXCEPT
            !.manager = [@ EXCEPT !.lock = TRUE,
                                  !.locked_sent = manager.state = "locked"]])

\* Mutant: the outputs that are blanked already are not looked at.
LockSurfacesTimeoutOnly ==
  /\ ~panic
  /\ manager.lock_surfaces_timer
  /\ Become([Current EXCEPT
       !.manager = [@ EXCEPT !.lock_surfaces_timer = FALSE,
                             !.state = "waiting_for_blank",
                             !.normal_tree = FALSE],
       !.panic = manager.state # "waiting_for_lock_surfaces"])

LockSurfacesTimeout ==
  /\ ~panic
  /\ manager.lock_surfaces_timer
  /\ Become(MaybeLock([Current EXCEPT
       !.manager = [@ EXCEPT !.lock_surfaces_timer = FALSE,
                             !.state = "waiting_for_blank",
                             !.normal_tree = FALSE],
       !.panic = manager.state # "waiting_for_lock_surfaces"]))

\* wlroots accepts unlock_and_destroy only after the locked event.
Unlock ==
  /\ ~panic
  /\ manager.lock /\ manager.locked_sent
  /\ Become(HandleDestroy([Current EXCEPT
       !.manager = [@ EXCEPT !.state = "unlocked",
                             !.normal_tree = TRUE,
                             !.locked_tree = FALSE],
       !.outputs = InvalidateAll(outputs),
       !.panic = manager.normal_tree \/ ~manager.locked_tree]))

\* The client destroys its lock before it is locked, breaks the protocol or dies.
LockDestroyed ==
  /\ ~panic
  /\ manager.lock
  /\ "client" \in Faults \/ manager.state # "waiting_for_lock_surfaces"
  /\ Become(HandleDestroy(Current))

MapSurface(o) ==
  /\ ~panic
  /\ manager.lock /\ outputs[o].enabled
  /\ Become([Current EXCEPT !.outputs[o].surface = TRUE,
                            !.panic = manager.state = "unlocked"])

SurfaceDestroyed(o) ==
  /\ ~panic
  /\ outputs[o].surface
  /\ Become([Current EXCEPT !.outputs[o].surface = FALSE])

(***************************************************************************)
(* Outputs.                                                                *)
(***************************************************************************)
\* What a frame built now lets be seen.  A mirror copies its source only while
\* the session is unlocked and is black otherwise.
Rendered(mirror, surface) ==
  IF mirror
  THEN IF manager.state = "unlocked" THEN "session" ELSE "hidden"
  ELSE IF manager.normal_tree /\ ~(manager.locked_tree /\ surface)
       THEN "session" ELSE "hidden"

\* Mutant: a lock surface that is gone is not taken out of the accounts.
SubmittedWithoutSurface(r) ==
  LET state == r.lock_render_state
  IN CASE r.mirror ->
            IF manager.state = "unlocked" THEN "pending_unlock" ELSE "pending_blank"
       [] ~r.mirror /\ manager.state = "unlocked" ->
            IF state = "unlocked" THEN state ELSE "pending_unlock"
       [] ~r.mirror /\ manager.state = "locked" -> state
       [] ~r.mirror /\ manager.state = "waiting_for_blank" ->
            IF state = "blanked" THEN state ELSE "pending_blank"
       [] ~r.mirror /\ manager.state = "waiting_for_lock_surfaces" ->
            IF r.surface
            THEN IF state = "lock_surface" THEN state ELSE "pending_lock_surface"
            ELSE state

\* The lock_render_state a committed frame leaves.
Submitted(r) ==
  LET state == r.lock_render_state
  IN CASE r.mirror ->
            IF manager.state = "unlocked" THEN "pending_unlock" ELSE "pending_blank"
       [] ~r.mirror /\ manager.state = "unlocked" ->
            IF state = "unlocked" THEN state ELSE "pending_unlock"
       [] ~r.mirror /\ manager.state = "locked" -> state
       [] ~r.mirror /\ manager.state = "waiting_for_blank" ->
            IF state = "blanked" THEN state ELSE "pending_blank"
       [] ~r.mirror /\ manager.state = "waiting_for_lock_surfaces" ->
            IF r.surface
            THEN IF state = "lock_surface" THEN state ELSE "pending_lock_surface"
            ELSE IF state = "unlocked" THEN state ELSE "pending_unlock"

SubmittedUnreachable(r) ==
  /\ ~r.mirror
  /\ \/ manager.state \in {"locked", "waiting_for_blank"} /\ manager.normal_tree
     \/ manager.state = "locked" /\ r.lock_render_state \notin {"blanked", "lock_surface"}

\* The backend has one frame of an output in flight.
Frame(o) ==
  LET r == outputs[o]
  IN /\ ~panic
     /\ r.enabled /\ r.submitted = "none"
     /\ Become([Current EXCEPT
          !.outputs[o].lock_render_state = Submitted(r),
          !.outputs[o].submitted = Rendered(r.mirror, r.surface),
          !.outputs[o].stale = FALSE,
          !.panic = SubmittedUnreachable(r)])

Presented(s, o) ==
  LET r == s.outputs[o]
      To(state) == [s EXCEPT !.outputs[o].lock_render_state = state]
      Hidden(t) == IF t.manager.state = "locked" THEN t ELSE MaybeLock(t)
  IN IF r.mirror /\ r.stale THEN s
     ELSE CASE r.lock_render_state = "pending_unlock" ->
                 [To("unlocked") EXCEPT !.panic = s.manager.state = "locked"]
            [] r.lock_render_state = "unlocked" ->
                 [s EXCEPT !.panic = s.manager.state = "locked"]
            [] r.lock_render_state = "pending_blank" -> Hidden(To("blanked"))
            [] r.lock_render_state = "pending_lock_surface" -> Hidden(To("lock_surface"))
            [] r.lock_render_state \in {"blanked", "lock_surface"} -> s

Present(o) ==
  /\ ~panic
  /\ outputs[o].submitted # "none"
  /\ Become(Presented([Current EXCEPT !.outputs[o].shown = outputs[o].submitted,
                                      !.outputs[o].submitted = "none"], o))

\* The backend reports that the frame did not reach the screen.
PresentFailed(o) ==
  /\ ~panic
  /\ outputs[o].submitted # "none"
  /\ Become([Current EXCEPT !.outputs[o].submitted = "none"])

\* A modeset submits a frame of each enabled output whatever its
\* lock_render_state is, and leaves that state as it is.
Lighted(r, mirror, reset) ==
  LET content == Rendered(mirror, r.surface)
      unaccounted == r.lock_render_state \notin {"pending_unlock", "unlocked"}
  IN [r EXCEPT !.enabled = TRUE, !.mirror = mirror, !.stale = reset,
               !.submitted = IF content = "session" /\ unaccounted
                             THEN "stray" ELSE content]

Darkened(r) == [NewOutput EXCEPT !.surface = r.surface]

\* A modeset that lets a blank frame be presented when no lock waits for one,
\* or an ordinary output owe one when the lock is complete.
DisturbsMirror(on, mirrors) ==
  \E o \in on :
    /\ outputs[o].lock_render_state = "pending_blank"
    /\ \/ manager.state = "unlocked"
       \/ manager.state = "locked" /\ o \notin mirrors

\* An output configuration that needs a modeset, in whatever state the lock is.
\* prepareSpecs() admits one mirror.  reset: the mirrors whose source changed.
Modeset ==
  /\ ~panic
  /\ \E on \in SUBSET Outputs : \E mirrors \in SUBSET on : \E reset \in SUBSET mirrors :
       /\ Cardinality(mirrors) <= 1
       /\ manager.state = "waiting_for_blank" =>
            IF "leave" \in Faults THEN on \subseteq Lit ELSE Lit \subseteq on
       /\ "mirror" \in Faults \/ ~DisturbsMirror(on, mirrors)
       /\ Become([Current EXCEPT !.outputs =
            [o \in Outputs |->
               IF o \in on THEN Lighted(outputs[o], o \in mirrors, o \in reset)
                           ELSE Darkened(outputs[o])]])

\* The monitor is unplugged.  The record goes back to that of a new Output.
Unplug(o) ==
  /\ ~panic
  /\ outputs[o].enabled
  /\ "leave" \in Faults \/ manager.state # "waiting_for_blank"
  /\ Become([Current EXCEPT !.outputs[o] = NewOutput])

LockClient ==
  \/ Lock \/ Unlock \/ LockDestroyed
  \/ \E o \in Outputs : MapSurface(o) \/ SurfaceDestroyed(o)

Display(o) == Frame(o) \/ Present(o) \/ PresentFailed(o) \/ Unplug(o)

Next ==
  \/ LockClient
  \/ LockSurfacesTimeout
  \/ Modeset
  \/ \E o \in Outputs : Display(o)

Spec == Init /\ [][Next]_vars

(***************************************************************************)
(* The timer expires.  An enabled output gets frame events again and again *)
(* (a render sequence of the window manager schedules one on each output,  *)
(* and the lock schedules render sequences); neither failed presentations  *)
(* nor modesets that supersede a frame go on forever.  Users and monitors  *)
(* leave the outputs in some configuration in the end.                     *)
(***************************************************************************)
Configuration == [o \in Outputs |-> [enabled |-> outputs[o].enabled,
                                     mirror |-> outputs[o].mirror]]

Fairness ==
  /\ <>[][UNCHANGED Configuration]_vars
  /\ WF_vars(LockSurfacesTimeout)
  /\ \A o \in Outputs :
       /\ SF_vars(Frame(o))
       /\ WF_vars(Present(o))
       /\ SF_vars(Present(o) /\ ~outputs[o].stale)

FairSpec == Spec /\ Fairness

-----------------------------------------------------------------------------
TypeOK ==
  /\ manager \in ManagerType
  /\ outputs \in [Outputs -> OutputType]
  /\ panic \in BOOLEAN

\* No assert and no `unreachable` of LockManager.zig and of the lock accounting
\* in Output.zig is reached: the normal tree is hidden when a blank frame is
\* committed, maybeLock() runs only during a lock, no frame of the session is
\* presented once the session is locked.
NoUnreachable == ~panic

\* While the session is locked no output, mirror or not, shows the session, nor
\* has submitted a frame that would, unless the frame is a stray one: the lock is
\* not complete before every frame that renderAndCommit() knows of is replaced.
LockedHidesSession ==
  manager.state = "locked" =>
    \A o \in Lit : "session" \notin {outputs[o].shown, outputs[o].submitted}

\* lock_render_state is what its comments say it is, as far as frames of
\* renderAndCommit() go: an output whose state is "blanked" or "lock_surface"
\* does not show the session, through any order of frames, presentations,
\* modesets and surfaces that come and go, unless by a stray frame.
LockRenderStateIsTruthful ==
  \A o \in Lit :
    outputs[o].lock_render_state \in {"blanked", "lock_surface"}
      => outputs[o].shown # "session"

\* "All outputs are either blanked or have a lock surface rendered and the locked
\* event has been sent": without exception, which the code does not achieve.
LockedOutputsAreBlank ==
  manager.state = "locked" => \A o \in Lit : outputs[o].shown = "hidden"

\* A client is told that the session is locked exactly when it holds the lock of
\* a locked session: also when it takes over the lock of a client that died.
ClientKnowsLocked ==
  manager.locked_sent <=> manager.lock /\ manager.state = "locked"

\* The lock outlives its client: a session that is being locked or is locked is
\* unlocked only by a client that has been told that it is locked.
LockSurvivesClient ==
  [][ manager.state # "unlocked" /\ manager'.state = "unlocked"
        => manager.state = "locked" /\ manager.locked_sent ]_vars

\* A lock that has been asked for is completed, whether or not the client ever
\* creates its surfaces.
LockCompletes ==
  manager.state \in {"waiting_for_lock_surfaces", "waiting_for_blank"}
    ~> manager.state = "locked"

(***************************************************************************)
(* What all this promises a user of the session lock.                      *)
(***************************************************************************)
Phase == CASE manager.state = "unlocked" -> "unlocked"
           [] manager.state = "locked" -> "locked"
           [] OTHER -> "locking"

Visible == {o \in Outputs : "session" \in {outputs[o].shown, outputs[o].submitted}}

Stray == {o \in Outputs : "stray" \in {outputs[o].shown, outputs[o].submitted}}

Contract ==
  INSTANCE LockContract
    WITH phase <- Phase, visible <- Visible, stray <- Stray, told <- manager.locked_sent

\* Timers, frames in flight, modesets, mirrors and clients that come and go amount
\* to the contract: when the lock is complete the session is hidden but for stray
\* frames, no frame of either kind is added to what is seen from then on, and only
\* a client that knows of the lock releases it.
ImplementsLockContract == Contract!Spec
=============================================================================
