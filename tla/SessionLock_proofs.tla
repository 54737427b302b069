------------------------ MODULE SessionLock_proofs -------------------------
(***************************************************************************)
(* What the session lock guarantees for any set of outputs and any number  *)
(* of steps, modesets at any moment included, as long as neither "client"  *)
(* nor "mirror" of SessionLock's faults occurs: those two run into         *)
(* assertions.  What a modeset shows behind the lock's back is what the    *)
(* properties call stray; the theorems say that there is nothing else, and *)
(* that nothing stray is added once the session is locked.                 *)
(*                                                                         *)
(* The argument is one inductive invariant, Good, about a program state:   *)
(* the trees, the timer and the lock agree with LockManager.state, and     *)
(* lock_render_state bounds what each output shows and what the frame it   *)
(* has in flight will make it show.  Being about a program state rather    *)
(* than about the variables, it passes through handlers that call each     *)
(* other: MaybeLock and HandleDestroy preserve it wherever they are called. *)
(***************************************************************************)
EXTENDS SessionLock, TLAPS

Careful == Faults \cap {"client", "mirror"} = {}

\* The program states that the handlers of SessionLock map to program states.
State ==
  [ manager : ManagerType, outputs : [Outputs -> OutputType], panic : BOOLEAN ]

\* LockManager: the scene trees, the timer and the lock follow the state.
ManagerInv(m) ==
  /\ m.normal_tree <=> m.state \in {"unlocked", "waiting_for_lock_surfaces"}
  /\ m.locked_tree <=> m.state # "unlocked"
  /\ m.lock_surfaces_timer <=> m.state = "waiting_for_lock_surfaces"
  /\ m.lock => m.state # "unlocked"
  /\ m.locked_sent <=> m.lock /\ m.state = "locked"

\* An output that is off is accounted for as blanked.
OffInv(r) ==
  ~r.enabled =>
    /\ ~r.mirror
    /\ r.lock_render_state = "blanked"
    /\ r.submitted = "none" /\ r.shown = "hidden"

\* Neither the screen nor the frame in flight contradicts lock_render_state, but
\* for stray frames.
HiddenInv(r) ==
  /\ r.lock_render_state \in {"blanked", "lock_surface"} => r.shown # "session"
  /\ r.lock_render_state \in
       {"blanked", "lock_surface", "pending_blank", "pending_lock_surface"}
       => r.submitted # "session"

\* Nothing of a locked session is shown or about to be, but for stray frames.
LockedInv(m, r) ==
  m.state = "locked" =>
    /\ r.shown # "session" /\ r.submitted # "session"
    /\ \/ r.lock_render_state \in {"blanked", "lock_surface"}
       \/ r.mirror /\ r.lock_render_state = "pending_blank"

\* When the session is unlocked, only a mirror may still have a blank frame in
\* flight, and its presentation is ignored: it would call maybeLock().
PendingInv(m, r) ==
  m.state = "unlocked" =>
    /\ r.lock_render_state # "pending_lock_surface"
    /\ r.lock_render_state = "pending_blank"
         => r.mirror /\ (r.submitted = "none" \/ r.stale)

OutputInv(m, r) ==
  OffInv(r) /\ HiddenInv(r) /\ LockedInv(m, r) /\ PendingInv(m, r)

Good(s) ==
  /\ s \in State
  /\ ~s.panic
  /\ ManagerInv(s.manager)
  /\ \A o \in Outputs : OutputInv(s.manager, s.outputs[o])

IInv == Good(Current)

-----------------------------------------------------------------------------
\* A step to a good program state establishes the invariant.
LEMMA BecomeGood ==
  ASSUME NEW s, Good(s), Become(s)
  PROVE  IInv'
BY DEF Good, Become, IInv, Current, State, ManagerInv, OutputInv, OffInv,
       HiddenInv, LockedInv, PendingInv

\* No output is enabled yet.
LEMMA InitGood == Init => IInv
<1> SUFFICES ASSUME Init PROVE Good(Current)
  BY DEF IInv
<1> DEFINE s == Current
<1>1. s.manager \in ManagerType
  BY DEF Init, Current, ManagerType
<1>2. s.outputs \in [Outputs -> OutputType]
  BY DEF Init, Current, NewOutput, OutputType, Content, LockRenderState
<1>3. s \in State /\ ~s.panic
  BY <1>1, <1>2 DEF Init, Current, State
<1>4. ManagerInv(s.manager)
  BY DEF Init, Current, ManagerInv
<1>5. \A o \in Outputs : OutputInv(s.manager, s.outputs[o])
  BY DEF Init, Current, NewOutput, OutputInv, OffInv, HiddenInv, LockedInv, PendingInv
<1> QED
  BY <1>3, <1>4, <1>5 DEF Good

\* The two loops over all outputs preserve their type.
LEMMA NoSurfacesType ==
  ASSUME NEW outs \in [Outputs -> OutputType]
  PROVE  NoSurfaces(outs) \in [Outputs -> OutputType]
<1>1. ASSUME NEW o \in Outputs
      PROVE  [outs[o] EXCEPT !.surface = FALSE] \in OutputType
  BY DEF OutputType
<1> QED
  BY <1>1 DEF NoSurfaces

LEMMA InvalidateAllType ==
  ASSUME NEW outs \in [Outputs -> OutputType]
  PROVE  InvalidateAll(outs) \in [Outputs -> OutputType]
<1>1. ASSUME NEW o \in Outputs
      PROVE  [outs[o] EXCEPT !.stale = outs[o].submitted # "none"] \in OutputType
  BY DEF OutputType
<1> QED
  BY <1>1 DEF InvalidateAll

\* maybeLock() completes a lock only when no output shows the session.
LEMMA MaybeLockGood ==
  ASSUME NEW s, Good(s),
         s.manager.state \in {"waiting_for_lock_surfaces", "waiting_for_blank"}
  PROVE  Good(MaybeLock(s))
<1> DEFINE t == MaybeLock(s)
<1>1. t = s \/ (/\ t.manager = [s.manager EXCEPT !.state = "locked", !.locked_sent = s.manager.lock,
                                               !.normal_tree = FALSE, !.lock_surfaces_timer = FALSE]
               /\ t.outputs = s.outputs /\ t.panic = s.panic
               /\ t \in State 
               /\ \A o \in Outputs : s.outputs[o].enabled =>
                    s.outputs[o].lock_render_state \in {"blanked", "lock_surface"})
  <2> DEFINE n == [s.manager EXCEPT !.state = "locked", !.locked_sent = s.manager.lock,
                                    !.normal_tree = FALSE, !.lock_surfaces_timer = FALSE]
  <2>1. /\ s \in State /\ s.manager \in ManagerType
        /\ s.manager.state = "waiting_for_blank" =>
             ~s.manager.normal_tree /\ ~s.manager.lock_surfaces_timer
    BY DEF Good, State, ManagerInv
  <2>2. n \in ManagerType
    BY <2>1 DEF ManagerType
  <2>3. [s EXCEPT !.manager = n] \in State
    BY <2>1, <2>2 DEF State
  <2> DEFINE u == [s EXCEPT !.manager = n]
             AllHidden == \A o \in Outputs : s.outputs[o].enabled =>
                            s.outputs[o].lock_render_state \in {"blanked", "lock_surface"}
  <2>4. /\ u \in State /\ u.manager = n /\ u.outputs = s.outputs /\ u.panic = s.panic
    BY <2>1, <2>3 DEF State
  <2>5. t = s \/ (AllHidden /\ t = u)
    <3>1. CASE s.manager.state = "waiting_for_lock_surfaces"
      <4>1. [SendLocked(s) EXCEPT !.manager.normal_tree = FALSE,
                                  !.manager.lock_surfaces_timer = FALSE] = u
        BY <2>1 DEF SendLocked, State, ManagerType
      <4> HIDE DEF u
      <4> QED
        BY <3>1, <4>1 DEF MaybeLock
    <3>2. CASE s.manager.state = "waiting_for_blank"
      <4>1. SendLocked(s) = u
        BY <2>1, <3>2 DEF SendLocked, State, ManagerType
      <4> HIDE DEF u
      <4> QED
        BY <3>2, <4>1 DEF MaybeLock
    <3> QED
      BY <3>1, <3>2
  <2> HIDE DEF t, u
  <2> QED
    BY <2>4, <2>5
<1>2. CASE t = s
  BY <1>2
<1>3. CASE t # s
  <2>1. ManagerInv(t.manager)
    BY <1>1, <1>3 DEF Good, State, ManagerType, ManagerInv
  <2>2. ASSUME NEW o \in Outputs PROVE OutputInv(t.manager, t.outputs[o])
    <3> DEFINE r == s.outputs[o]
               n == t.manager
    <3>1. /\ r \in OutputType /\ OutputInv(s.manager, r) /\ t.outputs[o] = r
          /\ r.enabled => r.lock_render_state \in {"blanked", "lock_surface"}
      BY <1>1, <1>3 DEF Good, State
    <3>2. n.state = "locked"
      BY <1>1, <1>3 DEF Good, State, ManagerType
    <3> HIDE DEF r, n
    <3>3. OffInv(r) /\ HiddenInv(r) /\ PendingInv(n, r)
      BY <3>1, <3>2 DEF OutputInv, HiddenInv, PendingInv
    <3>4. LockedInv(n, r)
      BY <3>1, <3>2 DEF OutputType, OutputInv, OffInv, HiddenInv, LockedInv
    <3> QED
      BY <3>1, <3>3, <3>4 DEF OutputInv, r, n
  <2> QED
    BY <1>1, <1>3, <2>1, <2>2 DEF Good
<1> QED
  BY <1>2, <1>3

\* The end of the lock object does not show anything.
LEMMA HandleDestroyGood ==
  ASSUME NEW s, Good(s), s.manager.state # "waiting_for_lock_surfaces"
  PROVE  Good(HandleDestroy(s))
<1> DEFINE m == [s.manager EXCEPT !.lock = FALSE, !.locked_sent = FALSE]
           out == NoSurfaces(s.outputs)
           t == [s EXCEPT !.manager = m, !.outputs = out]
<1>1. HandleDestroy(s) = t
  BY DEF HandleDestroy, Good, State, ManagerType
<1>2. m \in ManagerType /\ ManagerInv(m)
  BY DEF Good, State, ManagerType, ManagerInv
<1>3. out \in [Outputs -> OutputType]
  BY NoSurfacesType DEF Good, State
<1>4. t \in State /\ t.manager = m /\ t.outputs = out /\ ~t.panic
  BY <1>2, <1>3 DEF Good, State
<1>5. ASSUME NEW o \in Outputs PROVE OutputInv(m, out[o])
  <2> DEFINE x == s.outputs[o]
  <2>1. /\ x \in OutputType /\ OutputInv(s.manager, x)
        /\ s.manager \in ManagerType
    BY DEF Good, State
  <2>2. out[o] = [x EXCEPT !.surface = FALSE] /\ m.state = s.manager.state
    BY <2>1 DEF NoSurfaces, ManagerType
  <2> HIDE DEF x, m, out
  <2> QED
    BY <2>1, <2>2 DEF OutputType, OutputInv, OffInv, HiddenInv, LockedInv, PendingInv
<1> QED
  BY <1>1, <1>2, <1>4, <1>5 DEF Good

\* The invariant in terms of the variables.
LEMMA Facts ==
  ASSUME IInv
  PROVE  /\ manager \in ManagerType /\ outputs \in [Outputs -> OutputType]
         /\ panic = FALSE
         /\ Current \in State
         /\ ManagerInv(manager)
         /\ \A o \in Outputs : OutputInv(manager, outputs[o])
BY DEF IInv, Good, Current, State

\* A step that leaves manager and outputs in order establishes the invariant.
LEMMA StepGood ==
  ASSUME manager' \in ManagerType, outputs' \in [Outputs -> OutputType], panic' = FALSE,
         ManagerInv(manager'),
         \A o \in Outputs : OutputInv(manager', outputs'[o])
  PROVE  IInv'
<1>1. Current' \in State
  BY DEF Current, State
<1>2. ~Current'.panic /\ ManagerInv(Current'.manager)
  BY DEF Current
<1>3. \A o \in Outputs : OutputInv(Current'.manager, Current'.outputs[o])
  BY DEF Current
<1> QED
  BY <1>1, <1>2, <1>3 DEF IInv, Good, ManagerInv, OutputInv, OffInv, HiddenInv,
     LockedInv, PendingInv

-----------------------------------------------------------------------------
\* One lemma per action: it preserves the invariant.
LEMMA LockStep ==
  ASSUME IInv, Careful, Lock
  PROVE  IInv'
<1> USE Facts
<1>1. CASE manager.state = "unlocked"
  <2>2. /\ manager' = [manager EXCEPT !.lock = TRUE, !.state = "waiting_for_lock_surfaces",
                         !.lock_surfaces_timer = TRUE, !.locked_tree = TRUE]
        /\ outputs' = InvalidateAll(outputs)
        /\ panic' = manager.locked_tree
    BY <1>1 DEF Lock, Become, Current
  <2>3. manager' \in ManagerType /\ ManagerInv(manager') /\ panic' = FALSE
    BY <1>1, <2>2 DEF ManagerType, ManagerInv
  <2>4. outputs' \in [Outputs -> OutputType]
    BY <2>2, InvalidateAllType
  <2>5. ASSUME NEW o \in Outputs PROVE OutputInv(manager', outputs'[o])
    <3> DEFINE r == outputs[o]
               q == outputs'[o]
               n == manager'
    <3>1. r \in OutputType /\ OutputInv(manager, r)
      OBVIOUS
    <3>2. q = IF r.enabled /\ r.mirror
              THEN [r EXCEPT !.stale = r.submitted # "none"]
              ELSE r
      BY <2>2 DEF InvalidateAll
    <3>4. n.state = "waiting_for_lock_surfaces"
      BY <2>2 DEF ManagerType
    <3> HIDE DEF r, q, n
    <3>5. /\ q.enabled = r.enabled /\ q.mirror = r.mirror /\ q.submitted = r.submitted
          /\ q.lock_render_state = r.lock_render_state /\ q.shown = r.shown
          /\ ~r.enabled => q = r
      BY <3>1, <3>2 DEF OutputType
    <3>6. OffInv(q)
      BY <3>1, <3>5 DEF OutputInv, OffInv
    <3>7. HiddenInv(q)
      BY <3>1, <3>5 DEF OutputInv, HiddenInv
    <3> QED
      BY <3>4, <3>6, <3>7 DEF OutputInv, LockedInv, PendingInv, q, n
  <2> QED
    BY <2>3, <2>4, <2>5, StepGood
<1>2. CASE manager.state # "unlocked"
  <2>1. /\ manager' = [manager EXCEPT !.lock = TRUE, !.locked_sent = manager.state = "locked"]
        /\ outputs' = outputs /\ panic' = panic
    BY <1>2 DEF Lock, Become, Current
  <2>2. manager' \in ManagerType /\ ManagerInv(manager')
    BY <1>2, <2>1 DEF ManagerType, ManagerInv
  <2>3. ASSUME NEW o \in Outputs PROVE OutputInv(manager', outputs'[o])
    BY <2>1 DEF ManagerType, OutputInv, OffInv, HiddenInv, LockedInv, PendingInv
  <2> QED
    BY <2>1, <2>2, <2>3, StepGood
<1> QED
  BY <1>1, <1>2

LEMMA LockSurfacesTimeoutStep ==
  ASSUME IInv, Careful, LockSurfacesTimeout
  PROVE  IInv'
<1> USE Facts
<1> DEFINE m == [manager EXCEPT !.lock_surfaces_timer = FALSE, !.state = "waiting_for_blank",
                                !.normal_tree = FALSE]
           s == [Current EXCEPT !.manager = m,
                                !.panic = manager.state # "waiting_for_lock_surfaces"]
<1>1. manager.state = "waiting_for_lock_surfaces"
  BY DEF LockSurfacesTimeout, ManagerInv
<1>2. Become(MaybeLock(s))
  BY DEF LockSurfacesTimeout, Current
<1>3. m \in ManagerType /\ ManagerInv(m) /\ m.state = "waiting_for_blank"
  BY <1>1 DEF ManagerType, ManagerInv
<1>4. \A o \in Outputs : OutputInv(m, outputs[o])
  BY <1>1, <1>3 DEF ManagerType, OutputInv, OffInv, HiddenInv, LockedInv, PendingInv
<1>5. s \in State /\ s.manager = m /\ s.outputs = outputs /\ ~s.panic
  BY <1>1, <1>3 DEF State, Current
<1>6. Good(s)
  BY <1>3, <1>4, <1>5 DEF Good
<1>7. Good(MaybeLock(s))
  BY <1>3, <1>5, <1>6, MaybeLockGood
<1> QED
  BY <1>2, <1>7, BecomeGood

LEMMA UnlockStep ==
  ASSUME IInv, Careful, Unlock
  PROVE  IInv'
<1> USE Facts
<1> DEFINE m == [manager EXCEPT !.state = "unlocked", !.normal_tree = TRUE,
                                !.locked_tree = FALSE]
           out == InvalidateAll(outputs)
           s == [Current EXCEPT !.manager = m, !.outputs = out,
                                !.panic = manager.normal_tree \/ ~manager.locked_tree]
           n == [m EXCEPT !.lock = FALSE, !.locked_sent = FALSE]
<1>1. manager.state = "locked" /\ ~manager.normal_tree /\ manager.locked_tree
  BY DEF Unlock, ManagerInv, ManagerType
<1>2. Become(HandleDestroy(s))
  BY DEF Unlock, Current
<1>3. out \in [Outputs -> OutputType]
  BY InvalidateAllType
<1>4. s.manager = m /\ s.outputs = out /\ s.panic = FALSE
  BY <1>1 DEF Current
<1>5. manager' = n /\ outputs' = NoSurfaces(out) /\ panic' = FALSE
  BY <1>1, <1>2, <1>4 DEF HandleDestroy, Become, ManagerType, Current
<1>6. n \in ManagerType /\ ManagerInv(n)
  BY <1>1 DEF ManagerType, ManagerInv
<1>7. NoSurfaces(out) \in [Outputs -> OutputType]
  BY <1>3, NoSurfacesType
<1>8. ASSUME NEW o \in Outputs PROVE OutputInv(n, NoSurfaces(out)[o])
  <2>1. OutputInv(n, out[o])
    BY <1>1 DEF InvalidateAll, ManagerType, OutputType,
       OutputInv, OffInv, HiddenInv, LockedInv, PendingInv
  <2>2. NoSurfaces(out)[o] = [out[o] EXCEPT !.surface = FALSE] /\ out[o] \in OutputType
    BY <1>3 DEF NoSurfaces
  <2> HIDE DEF out, n
  <2> QED
    BY <2>1, <2>2 DEF OutputType, OutputInv, OffInv, HiddenInv, LockedInv, PendingInv
<1> QED
  BY <1>5, <1>6, <1>7, <1>8, StepGood

LEMMA LockDestroyedStep ==
  ASSUME IInv, Careful, LockDestroyed
  PROVE  IInv'
<1>1. Good(Current) /\ Current.manager.state # "waiting_for_lock_surfaces"
  BY DEF IInv, Current, LockDestroyed, Careful
<1>2. Good(HandleDestroy(Current))
  BY <1>1, HandleDestroyGood
<1> QED
  BY <1>2, BecomeGood DEF LockDestroyed

LEMMA SurfaceStep ==
  ASSUME IInv, NEW o \in Outputs, MapSurface(o) \/ SurfaceDestroyed(o)
  PROVE  IInv'
<1> USE Facts
<1>1. PICK b \in BOOLEAN : outputs' = [outputs EXCEPT ![o] = [outputs[o] EXCEPT !.surface = b]]
  BY DEF MapSurface, SurfaceDestroyed, Become, Current
<1>2. manager' = manager /\ panic' = FALSE
  BY DEF MapSurface, SurfaceDestroyed, Become, Current, ManagerInv
<1>3. outputs' \in [Outputs -> OutputType]
  <2>1. [outputs[o] EXCEPT !.surface = b] \in OutputType
    BY DEF OutputType
  <2> QED
    BY <1>1, <2>1
<1>4. ManagerInv(manager')
  BY <1>2
<1>5. ASSUME NEW p \in Outputs PROVE OutputInv(manager', outputs'[p])
  BY <1>1, <1>2 DEF OutputType, OutputInv, OffInv, HiddenInv, LockedInv, PendingInv
<1> QED
  BY <1>2, <1>3, <1>4, <1>5, StepGood

\* A step that changes one output only.
LEMMA ReplaceOne ==
  ASSUME IInv, NEW o \in Outputs, NEW r \in OutputType,
         manager' = manager, panic' = FALSE, outputs' = [outputs EXCEPT ![o] = r],
         OutputInv(manager, r)
  PROVE  IInv'
<1> USE Facts
<1>1. outputs' \in [Outputs -> OutputType]
  OBVIOUS
<1>2. ASSUME NEW p \in Outputs PROVE OutputInv(manager', outputs'[p])
  BY DEF OutputInv, OffInv, HiddenInv, LockedInv, PendingInv
<1> QED
  BY <1>1, <1>2, StepGood

LEMMA UnplugStep ==
  ASSUME IInv, NEW o \in Outputs, Unplug(o)
  PROVE  IInv'
<1> USE Facts
<1>1. manager' = manager /\ panic' = FALSE /\ outputs' = [outputs EXCEPT ![o] = NewOutput]
  BY DEF Unplug, Become, Current
<1>2. NewOutput \in OutputType
  BY DEF NewOutput, OutputType, LockRenderState, Content
<1>3. OutputInv(manager, NewOutput)
  BY DEF NewOutput, OutputInv, OffInv, HiddenInv, LockedInv, PendingInv
<1> QED
  BY <1>1, <1>2, <1>3, ReplaceOne

LEMMA PresentFailedStep ==
  ASSUME IInv, NEW o \in Outputs, PresentFailed(o)
  PROVE  IInv'
<1> USE Facts
<1> DEFINE r == [outputs[o] EXCEPT !.submitted = "none"]
<1>1. manager' = manager /\ panic' = FALSE /\ outputs' = [outputs EXCEPT ![o] = r]
  BY DEF PresentFailed, Become, Current
<1>2. r \in OutputType
  BY DEF OutputType
<1>3. OutputInv(manager, r)
  BY DEF OutputType, OutputInv, OffInv, HiddenInv, LockedInv, PendingInv
<1> HIDE DEF r
<1> QED
  BY <1>1, <1>2, <1>3, ReplaceOne

LEMMA FrameStep ==
  ASSUME IInv, NEW o \in Outputs, Frame(o)
  PROVE  IInv'
<1> USE Facts
<1> DEFINE q == outputs[o]
           r == [q EXCEPT !.lock_render_state = Submitted(q),
                          !.submitted = Rendered(q.mirror, q.surface),
                          !.stale = FALSE]
<1>1. q \in OutputType /\ OutputInv(manager, q) /\ q.enabled
  BY DEF Frame
<1>2. /\ manager' = manager /\ panic' = SubmittedUnreachable(q)
      /\ outputs' = [outputs EXCEPT ![o] = r]
  BY DEF Frame, Become, Current
<1>3. panic' = FALSE
  BY <1>1, <1>2 DEF SubmittedUnreachable, ManagerType, ManagerInv, OutputType, LockRenderState,
     OutputInv, LockedInv
<1>4. Submitted(q) \in LockRenderState
  BY <1>1 DEF Submitted, ManagerType, OutputType, LockRenderState
<1>5. Rendered(q.mirror, q.surface) \in Content
  BY DEF Rendered, Content
<1>6. r \in OutputType
  BY <1>1, <1>4, <1>5 DEF OutputType
<1>7. OutputInv(manager, r)
  BY <1>1 DEF Submitted, Rendered, ManagerType, ManagerInv, OutputType, LockRenderState,
     OutputInv, OffInv, HiddenInv, LockedInv, PendingInv
<1> HIDE DEF q, r
<1> QED
  BY <1>2, <1>3, <1>6, <1>7, ReplaceOne

\* The same for a program state a handler is about to be applied to.
LEMMA GoodWith ==
  ASSUME IInv, NEW o \in Outputs, NEW r \in OutputType, OutputInv(manager, r),
         NEW t \in State, t.manager = manager, t.panic = FALSE,
         t.outputs = [outputs EXCEPT ![o] = r]
  PROVE  Good(t)
BY Facts DEF Good, OutputInv, OffInv, HiddenInv, LockedInv, PendingInv

LEMMA PresentStep ==
  ASSUME IInv, NEW o \in Outputs, Present(o)
  PROVE  IInv'
<1> USE Facts
<1> DEFINE q == outputs[o]
           r == [q EXCEPT !.shown = q.submitted, !.submitted = "none"]
           s == [Current EXCEPT !.outputs[o] = r]
           R(state) == [r EXCEPT !.lock_render_state = state]
           To(state) == [s EXCEPT !.outputs[o].lock_render_state = state]
           ignored == q.mirror /\ q.stale
<1>1. q \in OutputType /\ OutputInv(manager, q) /\ q.submitted \in Content
  BY DEF Present, OutputType
<1>2. Become(Presented(s, o))
  BY DEF Present, Current
<1>3. r \in OutputType
  BY <1>1 DEF OutputType
<1>4. /\ s.manager = manager /\ s.panic = FALSE /\ s \in State
      /\ s.outputs = [outputs EXCEPT ![o] = r]
      /\ s.outputs[o] = r
      /\ r.mirror = q.mirror /\ r.stale = q.stale
      /\ r.lock_render_state = q.lock_render_state
  BY <1>1, <1>3 DEF Current, State, OutputType
<1>5. ASSUME NEW state \in LockRenderState
      PROVE  /\ R(state) \in OutputType
             /\ To(state) \in State /\ To(state).manager = manager
             /\ To(state).panic = FALSE
             /\ To(state).outputs = [outputs EXCEPT ![o] = R(state)]
  <2>1. R(state) \in OutputType
    BY <1>3 DEF OutputType
  <2> HIDE DEF r, s
  <2> QED
    BY <1>3, <1>4, <2>1 DEF State
<1> HIDE DEF s
<1>6. CASE ignored \/ q.lock_render_state \in {"blanked", "lock_surface"}
  <2>1. Presented(s, o) = s
    BY <1>4, <1>6 DEF Presented
  <2>2. OutputInv(manager, r)
    BY <1>1, <1>6 DEF OutputType, Content, OutputInv, OffInv, HiddenInv, LockedInv, PendingInv
  <2> QED
    BY <1>2, <1>3, <1>4, <2>1, <2>2, GoodWith, BecomeGood
<1>7. CASE ~ignored /\ q.lock_render_state = "unlocked"
  <2>1. manager.state # "locked"
    BY <1>1, <1>7 DEF OutputInv, LockedInv
  <2>2. manager' = manager /\ panic' = FALSE /\ outputs' = [outputs EXCEPT ![o] = r]
    BY <1>2, <1>4, <1>7, <2>1 DEF Presented, Become, State
  <2>3. OutputInv(manager, r)
    BY <1>1, <1>7, <2>1 DEF OutputType, OutputInv, OffInv, HiddenInv, LockedInv, PendingInv
  <2> QED
    BY <1>3, <2>2, <2>3, ReplaceOne
<1>8. CASE ~ignored /\ q.lock_render_state = "pending_unlock"
  <2>1. manager.state # "locked"
    BY <1>1, <1>8 DEF OutputInv, LockedInv
  <2>2. /\ manager' = manager /\ panic' = FALSE
        /\ outputs' = [outputs EXCEPT ![o] = R("unlocked")]
    BY <1>2, <1>4, <1>5, <1>8, <2>1 DEF Presented, Become, State, LockRenderState
  <2>3. OutputInv(manager, R("unlocked"))
    BY <1>1, <1>8, <2>1 DEF OutputType, OutputInv, OffInv, HiddenInv, LockedInv, PendingInv
  <2> QED
    BY <1>5, <2>2, <2>3, ReplaceOne DEF LockRenderState
<1>9. CASE ~ignored /\ q.lock_render_state \in {"pending_blank", "pending_lock_surface"}
  <2>1. PICK state \in {"blanked", "lock_surface"} :
          Presented(s, o) = IF manager.state = "locked" THEN To(state) ELSE MaybeLock(To(state))
    BY <1>4, <1>5, <1>9 DEF Presented, LockRenderState
  <2>2. manager.state # "unlocked"
    BY <1>1, <1>9 DEF OutputType, OutputInv, PendingInv, Content
  <2>3. OutputInv(manager, R(state))
    BY <1>1, <1>9, <2>2 DEF OutputType, Content, OutputInv, OffInv, HiddenInv, LockedInv, PendingInv
  <2>4. Good(To(state))
    <3> DEFINE t == To(state)
               x == R(state)
    <3>1. /\ x \in OutputType /\ OutputInv(manager, x)
          /\ t \in State /\ t.manager = manager /\ t.panic = FALSE
          /\ t.outputs = [outputs EXCEPT ![o] = x]
      BY <1>5, <2>3 DEF LockRenderState
    <3> HIDE DEF t, x
    <3>2. Good(t)
      BY <3>1, GoodWith
    <3> QED
      BY <3>2 DEF t
  <2>5. CASE manager.state = "locked"
    BY <1>2, <2>1, <2>4, <2>5, BecomeGood
  <2>6. CASE manager.state # "locked"
    <3>1. Good(MaybeLock(To(state)))
      BY <1>5, <2>2, <2>4, <2>6, MaybeLockGood DEF ManagerType, LockRenderState
    <3> QED
      BY <1>2, <2>1, <2>6, <3>1, BecomeGood
  <2> QED
    BY <2>5, <2>6
<1> QED
  BY <1>1, <1>6, <1>7, <1>8, <1>9 DEF OutputType, LockRenderState

\* A frame shows the session or hides it.
LEMMA RenderedContent == \A mirror, surface : Rendered(mirror, surface) \in Content
BY DEF Rendered, Content

LEMMA ModesetStep ==
  ASSUME IInv, Careful, Modeset
  PROVE  IInv'
<1> USE Facts
<1>1. "mirror" \notin Faults
  BY DEF Careful
<1>2. PICK on \in SUBSET Outputs :
        \E mirrors \in SUBSET on : \E reset \in SUBSET mirrors :
          /\ ~DisturbsMirror(on, mirrors)
          /\ Become([Current EXCEPT !.outputs =
               [o \in Outputs |->
                  IF o \in on THEN Lighted(outputs[o], o \in mirrors, o \in reset)
                              ELSE Darkened(outputs[o])]])
  BY <1>1, Zenon DEF Modeset
<1>3. PICK mirrors \in SUBSET on : \E reset \in SUBSET mirrors :
          /\ ~DisturbsMirror(on, mirrors)
          /\ Become([Current EXCEPT !.outputs =
               [o \in Outputs |->
                  IF o \in on THEN Lighted(outputs[o], o \in mirrors, o \in reset)
                              ELSE Darkened(outputs[o])]])
  BY <1>2
<1>4. PICK reset \in SUBSET mirrors :
          /\ ~DisturbsMirror(on, mirrors)
          /\ Become([Current EXCEPT !.outputs =
               [o \in Outputs |->
                  IF o \in on THEN Lighted(outputs[o], o \in mirrors, o \in reset)
                              ELSE Darkened(outputs[o])]])
  BY <1>3
<1> DEFINE r(o) == IF o \in on THEN Lighted(outputs[o], o \in mirrors, o \in reset)
                               ELSE Darkened(outputs[o])
<1>5. manager' = manager /\ panic' = FALSE /\ outputs' = [o \in Outputs |-> r(o)]
  BY <1>4 DEF Become, Current
<1>6. ASSUME NEW o \in Outputs, o \in on
      PROVE  r(o) \in OutputType /\ OutputInv(manager, r(o))
  <2> DEFINE q == outputs[o]
             mirror == o \in mirrors
             stale == o \in reset
             unaccounted == q.lock_render_state \notin {"pending_unlock", "unlocked"}
             content == IF Rendered(mirror, q.surface) = "session" /\ unaccounted
                        THEN "stray" ELSE Rendered(mirror, q.surface)
  <2>1. r(o) = [q EXCEPT !.enabled = TRUE, !.mirror = mirror, !.stale = stale,
                         !.submitted = content]
    BY <1>6 DEF Lighted
  <2>2. content \in Content /\ mirror \in BOOLEAN /\ stale \in BOOLEAN
    BY RenderedContent DEF Content
  <2>3. content = "session" => manager.state # "locked" /\ ~unaccounted
    BY DEF Rendered, ManagerInv, ManagerType
  <2>4. q.lock_render_state = "pending_blank" =>
          manager.state # "unlocked" /\ (manager.state = "locked" => mirror)
    BY <1>4, <1>6 DEF DisturbsMirror
  <2>5. q \in OutputType /\ OutputInv(manager, q)
    OBVIOUS
  <2> HIDE DEF r, content, q, mirror, stale
  <2>7. r(o) \in OutputType
    BY <2>1, <2>2, <2>5 DEF OutputType
  <2>8. OutputInv(manager, r(o))
    BY <2>1, <2>2, <2>3, <2>4, <2>5 DEF Content, OutputType,
       OutputInv, OffInv, HiddenInv, LockedInv, PendingInv
  <2> QED
    BY <2>7, <2>8
<1>7. ASSUME NEW o \in Outputs, o \notin on
      PROVE  r(o) \in OutputType /\ OutputInv(manager, r(o))
  <2>1. r(o) = [NewOutput EXCEPT !.surface = outputs[o].surface] /\ outputs[o].surface \in BOOLEAN
    BY <1>7 DEF Darkened, OutputType
  <2> QED
    BY <2>1 DEF NewOutput, Content, LockRenderState, OutputType,
       OutputInv, OffInv, HiddenInv, LockedInv, PendingInv
<1> HIDE DEF r
<1>8. outputs' \in [Outputs -> OutputType] /\ \A o \in Outputs : OutputInv(manager', outputs'[o])
  BY <1>5, <1>6, <1>7
<1> QED
  BY <1>5, <1>8, StepGood

\* Every step preserves the invariant.
LEMMA NextStep ==
  ASSUME IInv, Careful, [Next]_vars
  PROVE  IInv'
<1>1. CASE UNCHANGED vars
  BY <1>1, Facts, StepGood DEF vars
<1>2. CASE Next
  BY <1>2, LockStep, UnlockStep, LockDestroyedStep, SurfaceStep, LockSurfacesTimeoutStep,
     ModesetStep, FrameStep, PresentStep, PresentFailedStep, UnplugStep
     DEF Next, LockClient, Display
<1> QED
  BY <1>1, <1>2

-----------------------------------------------------------------------------
\* The invariant holds in every reachable state.
THEOREM Invariance == ASSUME Careful PROVE Spec => []IInv
<1>1. Init => IInv
  BY InitGood
<1>2. IInv /\ [Next]_vars => IInv'
  BY NextStep
<1> QED
  BY <1>1, <1>2, PTL DEF Spec

\* Every variable keeps its type.
THEOREM TypeCorrect == ASSUME Careful PROVE Spec => []TypeOK
<1>1. IInv => TypeOK
  BY DEF IInv, Good, State, Current, TypeOK
<1> QED
  BY <1>1, Invariance, PTL

\* No assert and no `unreachable` of LockManager.zig and of the lock accounting of
\* Output.zig is reached.
THEOREM NothingUnreachable == ASSUME Careful PROVE Spec => []NoUnreachable
<1>1. IInv => NoUnreachable
  BY DEF IInv, Good, Current, NoUnreachable
<1> QED
  BY <1>1, Invariance, PTL

\* A locked session is shown by no output and by no frame in flight, but for the
\* frames that a modeset committed while the account said that it was hidden.
THEOREM SessionHidden == ASSUME Careful PROVE Spec => []LockedHidesSession
<1>1. IInv => LockedHidesSession
  BY Facts DEF LockedHidesSession, Lit, OutputInv, LockedInv
<1> QED
  BY <1>1, Invariance, PTL

\* lock_render_state never claims that an output hides the session which shows it
\* by another frame than a stray one.
THEOREM StateTruthful == ASSUME Careful PROVE Spec => []LockRenderStateIsTruthful
<1>1. IInv => LockRenderStateIsTruthful
  BY Facts DEF LockRenderStateIsTruthful, Lit, OutputInv, HiddenInv
<1> QED
  BY <1>1, Invariance, PTL

\* A client is told that the session is locked exactly when it holds its lock.
THEOREM ClientInformed == ASSUME Careful PROVE Spec => []ClientKnowsLocked
<1>1. IInv => ClientKnowsLocked
  BY Facts DEF ClientKnowsLocked, ManagerInv
<1> QED
  BY <1>1, Invariance, PTL

-----------------------------------------------------------------------------
(***************************************************************************)
(* What a step can do to LockManager.state: leave it, begin a lock, bring  *)
(* a lock further or complete it, release it.                              *)
(***************************************************************************)
SamePhase ==
  /\ manager'.state = manager.state
  /\ manager'.locked_sent = manager.locked_sent \/ Stray' = Stray

Begins ==
  /\ manager.state = "unlocked" /\ manager'.state = "waiting_for_lock_surfaces"
  /\ Visible' = Visible /\ Stray' = Stray

Waits == /\ manager.state \in {"waiting_for_lock_surfaces", "waiting_for_blank"}
         /\ manager'.state \in {"waiting_for_blank", "locked"}

Releases ==
  /\ manager.state = "locked" /\ manager.locked_sent /\ manager'.state = "unlocked"
  /\ Visible' = Visible /\ Stray' = Stray

\* maybeLock() leaves the state or completes a lock that was being waited for.
LEMMA MaybeLockPhase ==
  ASSUME NEW s \in State
  PROVE  \/ MaybeLock(s).manager = s.manager
         \/ /\ s.manager.state \in {"waiting_for_lock_surfaces", "waiting_for_blank"}
            /\ MaybeLock(s).manager.state = "locked"
BY DEF State, ManagerType, MaybeLock, SendLocked

\* The two loops over all outputs change nothing on the screens.
LEMMA InvalidateAllVisible ==
  ASSUME NEW outs \in [Outputs -> OutputType], NEW o \in Outputs
  PROVE  /\ InvalidateAll(outs)[o].shown = outs[o].shown
         /\ InvalidateAll(outs)[o].submitted = outs[o].submitted
         /\ NoSurfaces(outs)[o].shown = outs[o].shown
         /\ NoSurfaces(outs)[o].submitted = outs[o].submitted
BY DEF InvalidateAll, NoSurfaces, OutputType

\* These four are all that happens.
LEMMA PhaseStep ==
  ASSUME IInv, Careful, Next
  PROVE  SamePhase \/ Begins \/ Waits \/ Releases
<1> USE Facts
<1>1. CASE Lock
  <2>1. CASE manager.state = "unlocked"
    <3>1. manager'.state = "waiting_for_lock_surfaces" /\ outputs' = InvalidateAll(outputs)
      BY <1>1, <2>1 DEF Lock, Become, Current, ManagerType
    <3>2. Visible' = Visible /\ Stray' = Stray
      BY <3>1, InvalidateAllVisible DEF Visible, Stray
    <3> QED
      BY <2>1, <3>1, <3>2 DEF Begins
  <2>2. CASE manager.state # "unlocked"
    <3>1. manager'.state = manager.state /\ outputs' = outputs
      BY <1>1, <2>2 DEF Lock, Become, Current, ManagerType
    <3> QED
      BY <3>1 DEF SamePhase, Stray
  <2> QED
    BY <2>1, <2>2
<1>2. CASE LockSurfacesTimeout
  <2> DEFINE m == [manager EXCEPT !.lock_surfaces_timer = FALSE, !.state = "waiting_for_blank",
                                  !.normal_tree = FALSE]
             s == [Current EXCEPT !.manager = m,
                                  !.panic = manager.state # "waiting_for_lock_surfaces"]
  <2>1. manager.state = "waiting_for_lock_surfaces"
    BY <1>2 DEF LockSurfacesTimeout, ManagerInv
  <2>2. m \in ManagerType
    BY DEF ManagerType
  <2>3. s \in State /\ s.manager.state = "waiting_for_blank"
    BY <2>2 DEF State, Current, ManagerType
  <2>4. Become(MaybeLock(s))
    BY <1>2 DEF LockSurfacesTimeout, Current
  <2> HIDE DEF s
  <2> QED
    BY <2>1, <2>3, <2>4, MaybeLockPhase DEF Become, Waits
<1>3. CASE Unlock
  <2>1. manager.state = "locked" /\ manager.locked_sent
    BY <1>3 DEF Unlock, ManagerInv
  <2>2. manager'.state = "unlocked" /\ outputs' = NoSurfaces(InvalidateAll(outputs))
    BY <1>3, <2>1 DEF Unlock, HandleDestroy, Become, Current, ManagerType
  <2>3. Visible' = Visible /\ Stray' = Stray
    BY <2>2, InvalidateAllVisible, InvalidateAllType DEF Visible, Stray
  <2> QED
    BY <2>1, <2>2, <2>3 DEF Releases
<1>4. CASE LockDestroyed
  <2>1. manager'.state = manager.state /\ outputs' = NoSurfaces(outputs)
    BY <1>4 DEF LockDestroyed, Careful, HandleDestroy, Become, Current, ManagerType
  <2>2. Stray' = Stray
    BY <2>1, InvalidateAllVisible DEF Stray
  <2> QED
    BY <2>1, <2>2 DEF SamePhase
<1>5. ASSUME NEW o \in Outputs, MapSurface(o) \/ SurfaceDestroyed(o) \/ Frame(o)
                                \/ PresentFailed(o) \/ Unplug(o)
      PROVE  SamePhase
  BY <1>5 DEF MapSurface, SurfaceDestroyed, Frame, PresentFailed, Unplug, Become, Current, SamePhase
<1>6. CASE Modeset
  BY <1>6 DEF Modeset, Become, Current, SamePhase
<1>7. ASSUME NEW o \in Outputs, Present(o)
      PROVE  SamePhase \/ Waits
  <2> DEFINE q == outputs[o]
             r == [q EXCEPT !.shown = q.submitted, !.submitted = "none"]
             s == [Current EXCEPT !.outputs[o] = r]
             To(state) == [s EXCEPT !.outputs[o].lock_render_state = state]
  <2>1. Become(Presented(s, o))
    BY <1>7 DEF Present, Current
  <2>2. r \in OutputType
    BY <1>7 DEF Present, OutputType
  <2>3. s \in State /\ s.manager = manager
    BY <2>2 DEF Current, State
  <2> HIDE DEF s
  <2>4. ASSUME NEW state \in LockRenderState
        PROVE  To(state) \in State /\ To(state).manager = manager
    <3> DEFINE x == s.outputs[o]
               y == [x EXCEPT !.lock_render_state = state]
    <3>1. x \in OutputType
      BY <2>3 DEF State
    <3> HIDE DEF x
    <3>2. y \in OutputType
      BY <3>1 DEF OutputType
    <3>3. To(state) = [s EXCEPT !.outputs = [s.outputs EXCEPT ![o] = y]]
      BY DEF x
    <3> HIDE DEF y
    <3> QED
      BY <2>3, <3>2, <3>3 DEF State
  <2>5. \/ Presented(s, o).manager = manager
        \/ \E state \in LockRenderState : Presented(s, o) = MaybeLock(To(state))
    <3> DEFINE x == s.outputs[o]
    <3>1. s.manager = manager /\ x.lock_render_state \in LockRenderState
      BY <2>3 DEF State, OutputType
    <3>2. CASE x.mirror /\ x.stale
      BY <3>1, <3>2 DEF Presented
    <3>3. CASE ~(x.mirror /\ x.stale) /\ x.lock_render_state = "pending_unlock"
      BY <2>3, <3>1, <3>3 DEF Presented, State
    <3>4. CASE ~(x.mirror /\ x.stale) /\ x.lock_render_state = "unlocked"
      BY <2>3, <3>1, <3>4 DEF Presented, State
    <3>5. CASE ~(x.mirror /\ x.stale) /\ x.lock_render_state = "pending_blank"
      BY <2>4, <3>1, <3>5 DEF Presented, LockRenderState
    <3>6. CASE ~(x.mirror /\ x.stale) /\ x.lock_render_state = "pending_lock_surface"
      BY <2>4, <3>1, <3>6 DEF Presented, LockRenderState
    <3>7. CASE ~(x.mirror /\ x.stale) /\ x.lock_render_state \in {"blanked", "lock_surface"}
      BY <3>1, <3>7 DEF Presented
    <3> QED
      BY <3>1, <3>2, <3>3, <3>4, <3>5, <3>6, <3>7 DEF LockRenderState
  <2> QED
    BY <2>1, <2>4, <2>5, MaybeLockPhase DEF Become, SamePhase, Waits
<1> QED
  BY <1>1, <1>2, <1>3, <1>4, <1>5, <1>6, <1>7 DEF Next, LockClient, Display

\* Of the session, an output may see the last of what it has in flight.
Fades(r, q) ==
  "stray" \in {q.shown, q.submitted} => "stray" \in {r.shown, r.submitted}

\* A presentation changes no other output, and of its own one only the account
\* after the frame has reached the screen.
LEMMA PresentFades ==
  ASSUME IInv, NEW o \in Outputs, Present(o), NEW p \in Outputs
  PROVE  Fades(outputs[p], outputs'[p])
<1> USE Facts
<1> DEFINE q == outputs[o]
           r == [q EXCEPT !.shown = q.submitted, !.submitted = "none"]
           s == [Current EXCEPT !.outputs[o] = r]
           To(state) == [s EXCEPT !.outputs[o].lock_render_state = state]
           R(state) == [r EXCEPT !.lock_render_state = state]
<1>1. Become(Presented(s, o))
  BY DEF Present, Current
<1>2. r \in OutputType
  BY DEF Present, OutputType
<1>3. s \in State /\ s.outputs = [outputs EXCEPT ![o] = r]
  BY <1>2 DEF Current, State
<1>4. ASSUME NEW state \in LockRenderState
      PROVE  /\ To(state) \in State
             /\ To(state).outputs = [outputs EXCEPT ![o] = R(state)]
  <2>1. R(state) \in OutputType
    BY <1>2 DEF OutputType
  <2> HIDE DEF r, s
  <2> QED
    BY <1>2, <1>3, <2>1 DEF State
<1>5. ASSUME NEW t \in State PROVE MaybeLock(t).outputs = t.outputs
  BY <1>5 DEF State, ManagerType, MaybeLock, SendLocked
<1>6. \/ Presented(s, o).outputs = s.outputs
      \/ \E state \in LockRenderState : Presented(s, o).outputs = To(state).outputs
  <2> DEFINE x == s.outputs[o]
  <2>1. x.lock_render_state \in LockRenderState
    BY <1>3 DEF State, OutputType
  <2> HIDE DEF s
  <2>2. CASE x.mirror /\ x.stale
    BY <2>2 DEF Presented
  <2>3. CASE ~(x.mirror /\ x.stale) /\ x.lock_render_state = "pending_unlock"
    BY <1>4, <2>3 DEF Presented, State, LockRenderState
  <2>4. CASE ~(x.mirror /\ x.stale) /\ x.lock_render_state = "unlocked"
    BY <1>3, <2>4 DEF Presented, State
  <2>5. CASE ~(x.mirror /\ x.stale) /\ x.lock_render_state = "pending_blank"
    BY <1>4, <1>5, <2>5 DEF Presented, LockRenderState
  <2>6. CASE ~(x.mirror /\ x.stale) /\ x.lock_render_state = "pending_lock_surface"
    BY <1>4, <1>5, <2>6 DEF Presented, LockRenderState
  <2>7. CASE ~(x.mirror /\ x.stale) /\ x.lock_render_state \in {"blanked", "lock_surface"}
    BY <2>7 DEF Presented
  <2> QED
    BY <2>1, <2>2, <2>3, <2>4, <2>5, <2>6, <2>7 DEF LockRenderState
<1>7. \/ outputs' = [outputs EXCEPT ![o] = r]
      \/ \E state \in LockRenderState : outputs' = [outputs EXCEPT ![o] = R(state)]
  BY <1>1, <1>3, <1>4, <1>6 DEF Become
<1>8. /\ r.shown = q.submitted /\ r.submitted = "none"
      /\ \A state : R(state).shown = q.submitted /\ R(state).submitted = "none"
  BY <1>2 DEF OutputType
<1> HIDE DEF q, r, R
<1>9. /\ outputs'[p].shown = q.submitted /\ outputs'[p].submitted = "none" /\ p = o
      \/ outputs'[p] = outputs[p]
  BY <1>7, <1>8
<1> QED
  BY <1>9 DEF Fades, q

\* Once the session is locked, or by the step that locks it, no stray frame is
\* added to those there are.
LEMMA StrayFades ==
  ASSUME IInv, Careful, Next, manager'.state = "locked"
  PROVE  Stray' \subseteq Stray
<1> USE Facts
<1> SUFFICES ASSUME NEW p \in Outputs PROVE Fades(outputs[p], outputs'[p])
  BY DEF Stray, Fades
<1>1. CASE Lock
  <2>1. outputs' = outputs
    BY <1>1 DEF Lock, Become, Current, ManagerType
  <2> QED
    BY <2>1 DEF Fades
<1>2. CASE LockSurfacesTimeout
  <2>1. outputs' = outputs
    BY <1>2 DEF LockSurfacesTimeout, ManagerInv, MaybeLock, SendLocked, Become, Current,
       ManagerType
  <2> QED
    BY <2>1 DEF Fades
<1>3. CASE Unlock
  BY <1>3 DEF Unlock, HandleDestroy, Become, Current, ManagerType
<1>4. CASE LockDestroyed
  BY <1>4, InvalidateAllVisible DEF LockDestroyed, HandleDestroy, Become, Current, Fades
<1>5. ASSUME NEW o \in Outputs, MapSurface(o) \/ SurfaceDestroyed(o) \/ PresentFailed(o)
      PROVE  Fades(outputs[p], outputs'[p])
  <2>1. \/ outputs' = [outputs EXCEPT ![o] = [@ EXCEPT !.surface = TRUE]]
        \/ outputs' = [outputs EXCEPT ![o] = [@ EXCEPT !.surface = FALSE]]
        \/ outputs' = [outputs EXCEPT ![o] = [@ EXCEPT !.submitted = "none"]]
    BY <1>5 DEF MapSurface, SurfaceDestroyed, PresentFailed, Become, Current
  <2>2. /\ outputs[p] \in OutputType
        /\ \/ outputs'[p] = outputs[p]
           \/ outputs'[p] = [outputs[p] EXCEPT !.surface = TRUE]
           \/ outputs'[p] = [outputs[p] EXCEPT !.surface = FALSE]
           \/ outputs'[p] = [outputs[p] EXCEPT !.submitted = "none"]
    BY <2>1
  <2> QED
    BY <2>2 DEF OutputType, Fades
<1>6. ASSUME NEW o \in Outputs, Unplug(o)
      PROVE  Fades(outputs[p], outputs'[p])
  BY <1>6 DEF Unplug, Become, Current, NewOutput, Fades
<1>7. ASSUME NEW o \in Outputs, Frame(o)
      PROVE  Fades(outputs[p], outputs'[p])
  <2>1. Rendered(outputs[o].mirror, outputs[o].surface) # "stray"
    BY DEF Rendered
  <2> QED
    BY <1>7, <2>1 DEF Frame, Become, Current, OutputType, Fades
<1>8. ASSUME NEW o \in Outputs, Present(o)
      PROVE  Fades(outputs[p], outputs'[p])
  BY <1>8, PresentFades
<1>9. CASE Modeset
  <2>1. manager.state = "locked"
    BY <1>9 DEF Modeset, Become, Current
  <2>2. ASSUME NEW mirror \in BOOLEAN, NEW surface \in BOOLEAN
        PROVE  Rendered(mirror, surface) = "hidden"
    BY <2>1 DEF Rendered, ManagerInv, ManagerType
  <2>3. ASSUME NEW mirror \in BOOLEAN, NEW reset \in BOOLEAN
        PROVE  Fades(outputs[p], Lighted(outputs[p], mirror, reset))
    BY <2>2 DEF Lighted, OutputType, Fades
  <2>4. Fades(outputs[p], Darkened(outputs[p]))
    BY DEF Darkened, NewOutput, Fades
  <2>5. \/ \E mirror, reset \in BOOLEAN : outputs'[p] = Lighted(outputs[p], mirror, reset)
        \/ outputs'[p] = Darkened(outputs[p])
    <3> DEFINE q(on, mirrors, reset) ==
                 [o \in Outputs |-> IF o \in on
                                    THEN Lighted(outputs[o], o \in mirrors, o \in reset)
                                    ELSE Darkened(outputs[o])]
    <3>1. PICK on \in SUBSET Outputs, mirrors \in SUBSET Outputs, reset \in SUBSET Outputs :
            Become([Current EXCEPT !.outputs = q(on, mirrors, reset)])
      BY <1>9, Zenon DEF Modeset
    <3>2. [Current EXCEPT !.outputs = q(on, mirrors, reset)].outputs = q(on, mirrors, reset)
      BY DEF Current
    <3>3. outputs' = q(on, mirrors, reset)
      BY <3>1, <3>2, Zenon DEF Become
    <3>4. outputs'[p] = IF p \in on THEN Lighted(outputs[p], p \in mirrors, p \in reset)
                                   ELSE Darkened(outputs[p])
      BY <3>3
    <3>5. (p \in mirrors) \in BOOLEAN /\ (p \in reset) \in BOOLEAN
      OBVIOUS
    <3> QED
      BY <3>4, <3>5
  <2> QED
    BY <2>3, <2>4, <2>5
<1> QED
  BY <1>1, <1>2, <1>3, <1>4, <1>5, <1>6, <1>7, <1>8, <1>9 DEF Next, LockClient, Display

\* Only a client that knows that the session is locked unlocks it.
THEOREM LockSurvives == ASSUME Careful PROVE Spec => LockSurvivesClient
<1>1. IInv /\ [Next]_vars =>
        [ manager.state # "unlocked" /\ manager'.state = "unlocked"
            => manager.state = "locked" /\ manager.locked_sent ]_vars
  BY PhaseStep DEF SamePhase, Begins, Waits, Releases, vars
<1> QED
  BY <1>1, Invariance, PTL DEF Spec, LockSurvivesClient

\* Every step is a step of the contract or leaves what it speaks of unchanged.
LEMMA ContractStep ==
  ASSUME IInv, IInv', Careful, [Next]_vars
  PROVE  [Contract!Next]_(Contract!vars)
<1>1. CASE UNCHANGED vars
  BY <1>1 DEF vars, Contract!vars, Phase, Visible, Stray
<1>2. CASE Next
  <2>1. manager \in ManagerType /\ manager' \in ManagerType
    BY Facts DEF IInv, Good, State, Current
  <2>2. Visible' \subseteq Outputs /\ Stray' \subseteq Outputs
    BY DEF Visible, Stray
  <2>3. manager.state = "locked" => Visible = {}
    BY Facts DEF Visible, OutputInv, LockedInv
  <2>4. manager'.state = "locked" => Visible' = {}
    BY DEF Visible, IInv, Good, Current, OutputInv, LockedInv
  <2>5. /\ manager.locked_sent => manager.state = "locked"
        /\ manager'.locked_sent => manager'.state = "locked"
    BY DEF IInv, Good, Current, ManagerInv
  <2>6. SamePhase \/ Begins \/ Waits \/ Releases
    BY <1>2, PhaseStep
  <2>7. manager'.state = "locked" => Stray' \subseteq Stray
    BY <1>2, StrayFades
  <2> QED
    BY <2>1, <2>2, <2>3, <2>4, <2>5, <2>6, <2>7
    DEF Phase, ManagerType, SamePhase, Begins, Waits, Releases, Contract!Next, Contract!vars,
        Contract!Begin, Contract!Expose, Contract!Secure, Contract!Fade, Contract!TakeOver,
        Contract!Abandon, Contract!Release
<1> QED
  BY <1>1, <1>2

\* LockManager and the outputs implement the contract of a session lock.
THEOREM Refinement == ASSUME Careful PROVE Spec => ImplementsLockContract
<1>1. Init => Contract!Init
  BY DEF Init, NewOutput, Phase, Visible, Stray, Contract!Init
<1>2. IInv /\ IInv' /\ [Next]_vars => [Contract!Next]_(Contract!vars)
  BY ContractStep
<1> QED
  BY <1>1, <1>2, Invariance, PTL DEF Spec, ImplementsLockContract, Contract!Spec
=============================================================================
