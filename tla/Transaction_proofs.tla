------------------------ MODULE Transaction_proofs -------------------------
(***************************************************************************)
(* What the frame transaction guarantees for any set of windows, with      *)
(* integrated policy, a window manager client that may stop or hang, or    *)
(* both.  The one assumption is that no XDG client remaps a window while   *)
(* one of its configures is tracked: tx_remap.cfg shows what happens then. *)
(*                                                                         *)
(* The argument is one inductive invariant, Good, about a program state,   *)
(* so that it passes through handlers that call each other.  It has three  *)
(* layers.  Base: each window's life-cycle state, role object, surface     *)
(* and configure agree, and agree with the phase and the dirty flag.       *)
(* Woken: an idle compositor that is dirty has a callback.  Counts: the    *)
(* counter is the number of windows that are listed and tracked.  Inside   *)
(* of a handler only Base holds; each sequence re-establishes the rest     *)
(* when it ends, and Answered says how far the counter is off when an      *)
(* answer is being counted.                                                *)
(***************************************************************************)
EXTENDS Transaction, FiniteSetTheorems, TLAPS

Careful == ~RemapInTransaction

\* The program states that the handlers of Transaction map to program states.
State == [ wm : WmType, windows : [Windows -> WindowType], panic : BOOLEAN ]

\* The idle source, the timer and the counter follow the phase.
WmInv(m) ==
  /\ m.dirty_idle # "null" => AnyDirty(m)
  /\ m.timeout => m.state # "idle"
  /\ m.state # "inflight_configures" => m.inflight_configures = 0

\* An idle compositor that is dirty will be called back.
Woken(m) == m.state = "idle" /\ AnyDirty(m) => m.dirty_idle # "null"

\* The four life times of a window: role object, life-cycle state, policy object
\* and place in the rendering list, wl_surface.
LifeInv(r) ==
  /\ r.impl = "none" =>
       r.state = "init" /\ r.surface = "none" /\ ~r.saved /\ r.configure_state = "idle"
  /\ r.impl = "destroying" => r.state \in {"init", "closing"} /\ r.surface = "none"
  /\ r.listed \/ r.object => r.state # "init"
  /\ r.surface = "mapped" <=> r.state = "mapped"
  /\ r.surface = "created" => r.state \in {"init", "closing"}
  /\ r.surface = "committed" => r.state \in {"ready", "initialized"}
  /\ r.surface = "configured" => r.state = "initialized"
  /\ r.surface \in {"committed", "configured"} => r.impl = "toplevel"

\* A configure is tracked only for a listed XDG window and only while the
\* transaction waits; the tracked serial is outstanding until it is acknowledged.
ConfigureInv(m, r) ==
  /\ r.unacked # {} => r.impl = "toplevel" /\ r.state \in {"initialized", "mapped"}
  /\ "tracked" \in r.unacked => r.configure_state \in {"inflight", "timed_out"}
  /\ r.impl = "xwayland" => r.configure_state = "idle"
  /\ Tracked(r) =>
       r.impl = "toplevel" /\ r.listed /\ r.state \in {"initialized", "mapped", "closing"}
  /\ r.impl = "toplevel" /\ r.configure_state = "committed" => r.listed
  /\ m.state # "inflight_configures" =>
       ~Tracked(r) /\ (r.impl = "toplevel" => r.configure_state # "committed")

\* What must not stay on the screen has a manage sequence scheduled.
DirtyInv(m, r) ==
  /\ r.state = "closing" => m.dirty
  /\ r.saved /\ m.state = "idle" => m.dirty

WindowInv(m, r) == LifeInv(r) /\ ConfigureInv(m, r) /\ DirtyInv(m, r)

\* What holds between the calls inside of a handler.
Base(s) ==
  /\ s \in State
  /\ ~s.panic
  /\ WmInv(s.wm)
  /\ \A w \in Windows : WindowInv(s.wm, s.windows[w])

AwaitedOf(s) == {w \in Windows : s.windows[w].listed /\ Tracked(s.windows[w])}

\* The counter is exact.
Counts(s) ==
  s.wm.state = "inflight_configures" =>
    /\ s.wm.timeout
    /\ s.wm.inflight_configures = Cardinality(AwaitedOf(s))
    /\ AwaitedOf(s) # {}

Good(s) == Base(s) /\ Woken(s.wm) /\ Counts(s)

IInv == Good(Current)

\* Each of the dirty notifications leaves a scheduled callback and nothing else.
LEMMA Dirtied ==
  ASSUME NEW m \in WmType, WmInv(m), NEW n,
         n \in {DirtyWindowing(m), DirtyWindowingLazy(m), DirtyRendering(m)}
  PROVE  /\ n \in WmType /\ WmInv(n) /\ Woken(n)
         /\ n.state = m.state /\ n.timeout = m.timeout
         /\ n.inflight_configures = m.inflight_configures
         /\ n.object = m.object
         /\ m.dirty => n.dirty
         /\ n = DirtyWindowing(m) => n.dirty
<1> DEFINE idle == IF m.dirty_idle = "null" THEN "queued" ELSE m.dirty_idle
<1>1. idle \in {"queued", "draining"}
  BY DEF WmType
<1>2. n \in {[m EXCEPT !.dirty = TRUE, !.dirty_idle = idle],
             [m EXCEPT !.dirty_lazy = TRUE, !.dirty_idle = idle],
             [m EXCEPT !.rendering_dirty = TRUE, !.dirty_idle = idle]}
  BY DEF WmType, DirtyWindowing, DirtyWindowingLazy, DirtyRendering, AddDirtyIdle
<1>3. n = DirtyWindowing(m) => n.dirty
  BY DEF WmType, DirtyWindowing, AddDirtyIdle
<1> HIDE DEF idle
<1>4. CASE n = [m EXCEPT !.dirty = TRUE, !.dirty_idle = idle]
  BY <1>1, <1>4 DEF WmType, WmInv, Woken, AnyDirty
<1>5. CASE n = [m EXCEPT !.dirty_lazy = TRUE, !.dirty_idle = idle]
  BY <1>1, <1>3, <1>5 DEF WmType, WmInv, Woken, AnyDirty
<1>6. CASE n = [m EXCEPT !.rendering_dirty = TRUE, !.dirty_idle = idle]
  BY <1>1, <1>3, <1>6 DEF WmType, WmInv, Woken, AnyDirty
<1> QED
  BY <1>2, <1>4, <1>5, <1>6

\* What is said of a window depends on the phase and on the dirty flag only.
LEMMA Keep ==
  ASSUME NEW m, NEW n, NEW r, WindowInv(m, r), n.state = m.state, m.dirty => n.dirty
  PROVE  WindowInv(n, r)
BY DEF WindowInv, ConfigureInv, DirtyInv

\* A slot nobody uses.
LEMMA FreeWindow == Free \in WindowType /\ \A m : WindowInv(m, Free)
BY DEF Free, WindowType, ConfigureStates, Tracked, WindowInv, LifeInv, ConfigureInv, DirtyInv

\* The steps of the sequences keep the invariant of each window: manageStart,
LEMMA ManageStartWindowGood ==
  ASSUME NEW m, NEW n, NEW r \in WindowType, NEW e \in BOOLEAN,
         WindowInv(m, r), m.state = "idle", n.state = "manage"
  PROVE  ManageStartWindow(r, e) \in WindowType /\ WindowInv(n, ManageStartWindow(r, e))
<1>1. CASE r.state = "closing"
  <2>1. FinishUnmap(r) \in WindowType
    BY DEF FinishUnmap, WindowType
  <2>2. r.impl # "none"
    BY <1>1 DEF WindowInv, LifeInv
  <2>3. LifeInv(FinishUnmap(r))
    BY <1>1, <2>2 DEF FinishUnmap, WindowType, WindowInv, LifeInv
  <2>4. ConfigureInv(n, FinishUnmap(r)) /\ DirtyInv(n, FinishUnmap(r))
    BY <1>1 DEF FinishUnmap, WindowType, Tracked, WindowInv, ConfigureInv, DirtyInv
  <2> QED
    BY <1>1, <2>1, <2>3, <2>4 DEF ManageStartWindow, WindowInv
<1>2. CASE r.state # "closing" /\ e /\ r.state # "init"
  <2> DEFINE q == [r EXCEPT !.object = TRUE, !.listed = TRUE]
  <2>1. q \in WindowType
    BY DEF WindowType
  <2>2. r.impl # "none"
    BY <1>2 DEF WindowInv, LifeInv
  <2>3. LifeInv(q)
    BY <1>2, <2>2 DEF WindowType, WindowInv, LifeInv
  <2>4. ConfigureInv(n, q) /\ DirtyInv(n, q)
    BY <1>2 DEF WindowType, Tracked, WindowInv, ConfigureInv, DirtyInv
  <2> QED
    BY <1>2, <2>1, <2>3, <2>4 DEF ManageStartWindow, WindowInv
<1>3. CASE r.state # "closing" /\ ~(e /\ r.state # "init")
  BY <1>3 DEF ManageStartWindow, Tracked, WindowInv, ConfigureInv, DirtyInv
<1> QED
  BY <1>1, <1>2, <1>3

\* renderStart, which leaves no configure tracked,
LEMMA RenderStartWindowGood ==
  ASSUME NEW m, NEW n, NEW r \in WindowType,
         WindowInv(m, r), n.state = "render", m.dirty => n.dirty
  PROVE  RenderStartWindow(r) \in WindowType /\ WindowInv(n, RenderStartWindow(r))
<1>1. CASE r.listed /\ r.impl = "toplevel"
  <2>1. PICK c \in ConfigureStates : 
            /\ RenderStartWindow(r) = [r EXCEPT !.configure_state = c]
            /\ c \in {"idle", "timed_out", "timed_out_acked"}
            /\ r.configure_state \in {"inflight", "timed_out"} => c = "timed_out"
    BY <1>1 DEF RenderStartWindow, WindowType, ConfigureStates
  <2> DEFINE q == [r EXCEPT !.configure_state = c]
  <2>2. q \in WindowType
    BY DEF WindowType
  <2>3. LifeInv(q)
    BY <1>1 DEF WindowType, WindowInv, LifeInv
  <2>4. ConfigureInv(n, q) /\ DirtyInv(n, q)
    BY <1>1, <2>1 DEF WindowType, Tracked, WindowInv, ConfigureInv, DirtyInv
  <2> QED
    BY <2>1, <2>2, <2>3, <2>4 DEF WindowInv
<1>2. CASE ~(r.listed /\ r.impl = "toplevel")
  BY <1>2 DEF RenderStartWindow, Tracked, WindowInv, ConfigureInv, DirtyInv
<1> QED
  BY <1>1, <1>2

\* and renderFinish, which frees a window that is torn down.
LEMMA RenderFinishWindowGood ==
  ASSUME NEW m, NEW n, NEW r \in WindowType,
         WindowInv(m, r), m.state = "render", n.state = "idle", m.dirty => n.dirty
  PROVE  /\ RenderFinishWindow(r) \in WindowType
         /\ WindowInv(n, RenderFinishWindow(r))
         /\ ~RenderFinishUnreachable(r)
<1>1. ~RenderFinishUnreachable(r)
  BY DEF RenderFinishUnreachable, WindowInv, LifeInv
<1>2. CASE r.impl = "destroying" /\ r.state = "init"
  BY <1>1, <1>2, FreeWindow DEF RenderFinishWindow
<1>3. CASE ~(r.impl = "destroying" /\ r.state = "init")
  <2> DEFINE b == r.saved /\ r.state = "closing"
             q == [r EXCEPT !.saved = b]
  <2>1. RenderFinishWindow(r) = q
    BY <1>3 DEF RenderFinishWindow
  <2>2. b \in BOOLEAN /\ (b => r.state = "closing")
    OBVIOUS
  <2> HIDE DEF b
  <2>3. q \in WindowType
    BY <2>2 DEF WindowType
  <2>4. LifeInv(q)
    BY <2>2 DEF WindowType, WindowInv, LifeInv
  <2>5. ConfigureInv(n, q) /\ DirtyInv(n, q)
    BY <2>2 DEF WindowType, Tracked, WindowInv, ConfigureInv, DirtyInv
  <2> QED
    BY <1>1, <2>1, <2>3, <2>4, <2>5 DEF WindowInv
<1> QED
  BY <1>2, <1>3

-----------------------------------------------------------------------------
\* The sequences themselves, last part first: each starts in its phase with the
\* accounts in order and ends in a good state.
LEMMA RenderFinishedGood ==
  ASSUME NEW s, Base(s), s.wm.state = "render", NEW redirty \in BOOLEAN
  PROVE  Good(RenderFinished(s, redirty))
<1> DEFINE zombie == \E w \in Windows :
                       s.windows[w].impl = "destroying" /\ s.windows[w].state = "closing"
           idle == [s.wm EXCEPT !.state = "idle", !.timeout = FALSE]
           again == IF zombie \/ redirty THEN DirtyWindowing(idle) ELSE idle
           m == IF AnyDirty(again) THEN AddDirtyIdle(again) ELSE again
           ws == [w \in Windows |-> RenderFinishWindow(s.windows[w])]
           t == RenderFinished(s, redirty)
<1>1. /\ s.wm \in WmType /\ s.windows \in [Windows -> WindowType] /\ WmInv(s.wm)
      /\ \A w \in Windows : WindowInv(s.wm, s.windows[w])
      /\ s.panic = FALSE
  BY DEF Base, State
<1> HIDE DEF zombie
<1>2. m \in WmType /\ WmInv(m) /\ Woken(m) /\ m.state = "idle" /\ (s.wm.dirty => m.dirty)
  BY ZenonT(60), <1>1 DEF WmType, WmInv, Woken, AnyDirty, DirtyWindowing, AddDirtyIdle
<1> HIDE DEF m
<1>3. \A w \in Windows : /\ RenderFinishWindow(s.windows[w]) \in WindowType
                         /\ WindowInv(m, RenderFinishWindow(s.windows[w]))
                         /\ ~RenderFinishUnreachable(s.windows[w])
  BY <1>1, <1>2, RenderFinishWindowGood
<1>4. ws \in [Windows -> WindowType] /\ \A w \in Windows : WindowInv(m, ws[w])
  BY <1>3
<1>5. t.wm = m /\ t.windows = ws /\ t.panic = FALSE /\ t \in State
  <2>1. \/ s.panic
        \/ \E w \in Windows : RenderFinishUnreachable(s.windows[w])
        <=> FALSE
    BY <1>1, <1>3
  <2> QED
    BY <1>2, <1>4, <2>1 DEF RenderFinished, State, m, zombie
<1> QED
  BY <1>2, <1>4, <1>5 DEF Good, Base, Counts, Woken

\* renderFinish, whatever is dirtied meanwhile.
LEMMA RenderFinishGood ==
  ASSUME NEW s, Base(s), s.wm.state = "render", NEW t \in RenderFinish(s)
  PROVE  Good(t)
BY RenderFinishedGood DEF RenderFinish

\* renderStart before the window manager is told.
LEMMA RenderStartedGood ==
  ASSUME NEW s, Base(s), s.wm.inflight_configures = 0
  PROVE  Base(RenderStarted(s)) /\ RenderStarted(s).wm.state = "render"
<1> DEFINE m == CleanRendering([s.wm EXCEPT !.state = "render"])
           ws == [w \in Windows |-> RenderStartWindow(s.windows[w])]
           t == RenderStarted(s)
<1>1. /\ s.wm \in WmType /\ s.windows \in [Windows -> WindowType] /\ WmInv(s.wm)
      /\ \A w \in Windows : WindowInv(s.wm, s.windows[w])
      /\ s.panic = FALSE
  BY DEF Base, State
<1>2. m \in WmType /\ WmInv(m) /\ m.state = "render" /\ (s.wm.dirty => m.dirty)
  BY <1>1 DEF WmType, WmInv, AnyDirty, CleanRendering, RemoveDirtyIdle
<1> HIDE DEF m
<1>3. \A w \in Windows : /\ RenderStartWindow(s.windows[w]) \in WindowType
                         /\ WindowInv(m, RenderStartWindow(s.windows[w]))
  BY <1>1, <1>2, RenderStartWindowGood
<1>4. ws \in [Windows -> WindowType] /\ \A w \in Windows : WindowInv(m, ws[w])
  BY <1>3
<1>5. t.wm = m /\ t.windows = ws /\ t.panic = FALSE /\ t \in State
  BY <1>1, <1>2, <1>4 DEF RenderStarted, State, m
<1> QED
  BY <1>2, <1>4, <1>5 DEF Base

\* renderStart as a whole, which ends the sequence if no client is bound.
LEMMA RenderStartGood ==
  ASSUME NEW s, Base(s), s.wm.inflight_configures = 0, NEW t \in RenderStart(s)
  PROVE  Good(t)
<1> DEFINE u == RenderStarted(s)
           v == [u EXCEPT !.wm.timeout = TRUE]
<1>1. Base(u) /\ u.wm.state = "render"
  BY RenderStartedGood
<1>2. t \in IF u.wm.object THEN {v} ELSE RenderFinish(u)
  BY DEF RenderStart
<1> HIDE DEF u
<1>3. CASE t \in RenderFinish(u)
  BY <1>1, <1>3, RenderFinishGood
<1>4. CASE t = v
  <2>1. v \in State /\ v.windows = u.windows /\ v.panic = u.panic
        /\ v.wm = [u.wm EXCEPT !.timeout = TRUE]
    BY <1>1 DEF Base, State, WmType
  <2>2. WmInv(v.wm) /\ v.wm.state = "render" /\ v.wm.dirty = u.wm.dirty
    BY <1>1, <2>1 DEF Base, State, WmType, WmInv, AnyDirty
  <2>3. \A w \in Windows : WindowInv(v.wm, v.windows[w])
    BY <1>1, <2>1, <2>2, Keep DEF Base
  <2> QED
    BY <1>1, <1>4, <2>1, <2>2, <2>3 DEF Good, Base, Counts, Woken
<1> QED
  BY <1>2, <1>3, <1>4

-----------------------------------------------------------------------------
\* What manageFinish does to one window; it is counted exactly if it is awaited.
LEMMA ManageFinishWindowGood ==
  ASSUME NEW m, NEW n, NEW r \in WindowType, NEW ask \in Ask,
         WindowInv(m, r), m.state = "manage", n.state = "inflight_configures",
         m.dirty => n.dirty,
         ask # "none" => r.listed /\ Active(r) /\ r.impl = "toplevel"
  PROVE  /\ ManageFinishWindow(r, ask) \in WindowType
         /\ WindowInv(n, ManageFinishWindow(r, ask))
         /\ ~ManageFinishUnreachable(r, ask)
         /\ LET q == ManageFinishWindow(r, ask)
            IN q.listed /\ Tracked(q) <=> Awaits(r, ask)
<1> DEFINE q == ManageFinishWindow(r, ask)
           c == Configure(r, ask)
<1>1. ~ManageFinishUnreachable(r, ask)
  BY DEF ManageFinishUnreachable, Configured, Active, WindowInv, LifeInv, ConfigureInv, Tracked
<1>2. CASE ~Configured(r, ask)
  <2>1. q = r
    BY <1>2 DEF ManageFinishWindow
  <2>2. WindowInv(n, r)
    BY DEF WindowInv, ConfigureInv, DirtyInv
  <2>3. ~Awaits(r, ask) /\ ~Tracked(r)
    BY <1>2 DEF Awaits, WindowInv, ConfigureInv
  <2> QED
    BY <1>1, <2>1, <2>2, <2>3
<1>3. CASE Configured(r, ask) /\ r.impl # "toplevel"
  <2>1. /\ q = [r EXCEPT !.state = IF @ = "ready" THEN "initialized" ELSE @,
                         !.saved = @ \/ (Awaits(r, ask) /\ r.state = "mapped" /\ Sized(ask))]
        /\ ~Awaits(r, ask)
    BY <1>3 DEF ManageFinishWindow, Awaits
  <2>2. q = [r EXCEPT !.state = IF @ = "ready" THEN "initialized" ELSE @, !.saved = @]
    BY <2>1 DEF WindowType
  <2>3. q \in WindowType /\ ~Tracked(q)
    BY <2>2 DEF WindowType, Tracked, WindowInv, ConfigureInv
  <2>4. WindowInv(n, q)
    BY <1>3, <2>2 DEF Configured, Active, WindowType, Tracked, WindowInv, LifeInv, ConfigureInv, DirtyInv
  <2> QED
    BY <1>1, <2>1, <2>3, <2>4
<1>4. CASE Configured(r, ask) /\ r.impl = "toplevel"
  <2> DEFINE b == r.saved \/ (Awaits(r, ask) /\ r.state = "mapped" /\ Sized(ask))
             st == IF r.state = "ready" THEN "initialized" ELSE r.state
  <2>1. /\ r.listed /\ r.state \in {"ready", "initialized", "mapped"}
        /\ r.state = "ready" => Sized(ask)
    BY <1>4 DEF Configured, Active
  <2>2. PICK cs \in ConfigureStates, u \in SUBSET {"tracked", "other"} :
          /\ c = [r EXCEPT !.configure_state = cs, !.unacked = u]
          /\ "tracked" \in u => cs \in {"inflight", "timed_out"}
    <3>1. CASE ask = "none"
      <4> DEFINE k == CASE r.configure_state = "timed_out" -> "inflight"
                        [] r.configure_state = "timed_out_acked" -> "acked"
                        [] OTHER -> r.configure_state
      <4>1. c = [r EXCEPT !.configure_state = k, !.unacked = r.unacked]
        BY <3>1 DEF Configure, WindowType
      <4>2. k \in ConfigureStates
        BY DEF WindowType, ConfigureStates
      <4>3. "tracked" \in r.unacked => k \in {"inflight", "timed_out"}
        BY DEF WindowInv, ConfigureInv
      <4>4. r.unacked \in SUBSET {"tracked", "other"}
        BY DEF WindowType
      <4> HIDE DEF k, c
      <4> QED
        BY <4>1, <4>2, <4>3, <4>4
    <3>2. CASE ask # "none" /\ ask # "size" /\ r.configure_state = "idle"
      <4>1. c = [r EXCEPT !.configure_state = "idle", !.unacked = r.unacked \cup {"other"}]
        BY <3>2 DEF Configure, WindowType
      <4>2. "tracked" \notin r.unacked
        BY <3>2 DEF WindowInv, ConfigureInv
      <4>3. r.unacked \cup {"other"} \in SUBSET {"tracked", "other"}
        BY DEF WindowType
      <4> HIDE DEF c
      <4> QED
        BY <4>1, <4>2, <4>3 DEF ConfigureStates
    <3>3. CASE ask # "none" /\ ~(ask # "size" /\ r.configure_state = "idle")
      <4> DEFINE k == {"tracked"} \cup (IF r.unacked = {} THEN {} ELSE {"other"})
      <4>1. c = [r EXCEPT !.configure_state = "inflight", !.unacked = k]
        BY <3>3 DEF Configure, WindowType
      <4>2. k \in SUBSET {"tracked", "other"}
        OBVIOUS
      <4> HIDE DEF c, k
      <4> QED
        BY <4>1, <4>2 DEF ConfigureStates
    <3> QED
      BY <3>1, <3>2, <3>3
  <2>3. q = [r EXCEPT !.configure_state = cs, !.unacked = u, !.state = st, !.saved = b]
    BY <1>4, <2>2 DEF ManageFinishWindow, WindowType
  <2>4. b \in BOOLEAN /\ st \in {"initialized", "mapped"}
        /\ (r.state = "mapped" <=> st = "mapped")
    BY <2>1 DEF WindowType
  <2>5. Awaits(r, ask) <=> cs \in {"inflight", "acked"}
    BY <1>4, <2>2 DEF Awaits, Tracked, WindowType
  <2> HIDE DEF q, b, st
  <2>6. q \in WindowType
    BY <2>3, <2>4 DEF WindowType
  <2>7. LifeInv(q)
    BY <1>4, <2>1, <2>3, <2>4 DEF WindowType, WindowInv, LifeInv
  <2>8. ConfigureInv(n, q) /\ DirtyInv(n, q)
    BY <1>4, <2>1, <2>2, <2>3, <2>4 DEF WindowType, Tracked, WindowInv, ConfigureInv, DirtyInv
  <2>9. q.listed /\ Tracked(q) <=> Awaits(r, ask)
    BY <2>1, <2>3, <2>5 DEF Tracked, WindowType
  <2> QED
    BY <1>1, <2>6, <2>7, <2>8, <2>9 DEF WindowInv, q
<1> QED
  BY <1>2, <1>3, <1>4

\* The count manageFinish computes is the number of awaited windows.
LEMMA SentGood ==
  ASSUME NEW s, Base(s), s.wm.state = "manage", NEW asks \in Asks(s.windows)
  PROVE  /\ Base(Sent(s, asks))
         /\ Sent(s, asks).wm.state = "inflight_configures"
         /\ Sent(s, asks).wm.inflight_configures = Cardinality(AwaitedOf(Sent(s, asks)))
         /\ AwaitedOf(Sent(s, asks)) # {} => Sent(s, asks).wm.timeout
<1> DEFINE k == Cardinality(Awaiting(s, asks))
           b == Awaiting(s, asks) # {}
           m == [s.wm EXCEPT !.state = "inflight_configures",
                             !.inflight_configures = k, !.timeout = b]
           ws == [w \in Windows |-> ManageFinishWindow(s.windows[w], asks[w])]
           t == Sent(s, asks)
<1>1. /\ s.wm \in WmType /\ s.windows \in [Windows -> WindowType] /\ WmInv(s.wm)
      /\ \A w \in Windows : WindowInv(s.wm, s.windows[w])
      /\ s.panic = FALSE
  BY DEF Base, State
<1>2. \A w \in Windows :
        /\ asks[w] \in Ask
        /\ asks[w] # "none" => /\ s.windows[w].listed /\ Active(s.windows[w])
                               /\ s.windows[w].impl = "toplevel"
  BY DEF Asks
<1>3. k \in Nat
  <2>1. IsFiniteSet(Awaiting(s, asks))
    BY WindowsAssumption, FS_Subset DEF Awaiting
  <2> QED
    BY <2>1, FS_CardinalityType
<1> HIDE DEF k
<1>4. m \in WmType /\ WmInv(m) /\ m.state = "inflight_configures" /\ m.dirty = s.wm.dirty
      /\ m.inflight_configures = k /\ m.timeout = b
  BY <1>1, <1>3 DEF WmType, WmInv, AnyDirty
<1> HIDE DEF m
<1>5. \A w \in Windows :
        /\ ManageFinishWindow(s.windows[w], asks[w]) \in WindowType
        /\ WindowInv(m, ManageFinishWindow(s.windows[w], asks[w]))
        /\ ~ManageFinishUnreachable(s.windows[w], asks[w])
        /\ LET q == ManageFinishWindow(s.windows[w], asks[w])
           IN q.listed /\ Tracked(q) <=> Awaits(s.windows[w], asks[w])
  BY <1>1, <1>2, <1>4, ManageFinishWindowGood
<1>6. ws \in [Windows -> WindowType] /\ \A w \in Windows : WindowInv(m, ws[w])
  BY <1>5
<1>7. t.wm = m /\ t.windows = ws /\ t.panic = FALSE /\ t \in State
  <2>1. \/ s.panic
        \/ \E w \in Windows : ManageFinishUnreachable(s.windows[w], asks[w])
        <=> FALSE
    BY <1>1, <1>5
  <2> QED
    BY <1>4, <1>6, <2>1 DEF Sent, State, m, k
<1>8. AwaitedOf(t) = Awaiting(s, asks)
  BY <1>5, <1>7 DEF AwaitedOf, Awaiting
<1> QED
  BY <1>4, <1>6, <1>7, <1>8 DEF Base, k

\* manageFinish as a whole: with nobody to wait for it renders at once.
LEMMA ManageFinishGood ==
  ASSUME NEW s, Base(s), s.wm.state = "manage", NEW t \in ManageFinish(s)
  PROVE  Good(t)
<1>1. PICK asks \in Asks(s.windows) :
        t \in IF Sent(s, asks).wm.inflight_configures = 0
              THEN RenderStart(Sent(s, asks)) ELSE {Sent(s, asks)}
  BY DEF ManageFinish
<1> DEFINE u == Sent(s, asks)
<1>2. /\ Base(u) /\ u.wm.state = "inflight_configures"
      /\ u.wm.inflight_configures = Cardinality(AwaitedOf(u))
      /\ AwaitedOf(u) # {} => u.wm.timeout
  BY SentGood
<1> HIDE DEF u
<1>3. CASE u.wm.inflight_configures = 0
  BY <1>1, <1>2, <1>3, RenderStartGood DEF u
<1>4. CASE u.wm.inflight_configures # 0
  <2>1. t = u
    BY <1>1, <1>4 DEF u
  <2>2. AwaitedOf(u) # {}
    BY <1>2, <1>4, FS_EmptySet
  <2> QED
    BY <1>2, <2>1, <2>2 DEF Good, Counts, Woken
<1> QED
  BY <1>3, <1>4

\* manageStart before policy is asked.
LEMMA ManageStartedGood ==
  ASSUME NEW s, Base(s), s.wm.state = "idle"
  PROVE  Base(ManageStarted(s)) /\ ManageStarted(s).wm.state = "manage"
<1> DEFINE closed == \E w \in Windows :
                       s.windows[w].state = "closing" /\ s.windows[w].object
           clean == CleanWindowing([s.wm EXCEPT !.state = "manage"])
           m == IF closed THEN DirtyWindowing(clean) ELSE clean
           ws == [w \in Windows |-> ManageStartWindow(s.windows[w], s.wm.object)]
           t == ManageStarted(s)
<1>1. /\ s.wm \in WmType /\ s.windows \in [Windows -> WindowType] /\ WmInv(s.wm)
      /\ \A w \in Windows : WindowInv(s.wm, s.windows[w])
      /\ s.panic = FALSE /\ s.wm.object \in BOOLEAN
  BY DEF Base, State, WmType
<1> HIDE DEF closed
<1>2. m \in WmType /\ WmInv(m) /\ m.state = "manage"
  BY <1>1 DEF WmType, WmInv, AnyDirty, CleanWindowing, DirtyWindowing, AddDirtyIdle,
     RemoveDirtyIdle
<1> HIDE DEF m
<1>3. \A w \in Windows :
        /\ ManageStartWindow(s.windows[w], s.wm.object) \in WindowType
        /\ WindowInv(m, ManageStartWindow(s.windows[w], s.wm.object))
  BY <1>1, <1>2, ManageStartWindowGood
<1>4. ws \in [Windows -> WindowType] /\ \A w \in Windows : WindowInv(m, ws[w])
  BY <1>3
<1>5. t.wm = m /\ t.windows = ws /\ t.panic = FALSE /\ t \in State
  BY <1>1, <1>2, <1>4 DEF ManageStarted, State, m, closed
<1> QED
  BY <1>2, <1>4, <1>5 DEF Base

\* Placement by the integrated policy lists active windows only.
LEMMA PlacedGood ==
  ASSUME NEW s, Base(s), s.wm.state = "manage", NEW placement \in Placements(s.windows)
  PROVE  Base(Placed(s, placement)) /\ Placed(s, placement).wm = s.wm
<1> DEFINE listed(w) == s.windows[w].listed \/ w \in placement
           ws == [w \in Windows |-> [s.windows[w] EXCEPT !.listed = listed(w)]]
           t == Placed(s, placement)
<1>1. /\ s \in State /\ s.wm \in WmType /\ s.windows \in [Windows -> WindowType] /\ WmInv(s.wm)
      /\ \A w \in Windows : WindowInv(s.wm, s.windows[w])
      /\ s.panic = FALSE
  BY DEF Base, State
<1>2. ASSUME NEW w \in Windows
      PROVE  ws[w] \in WindowType /\ WindowInv(s.wm, ws[w])
  <2> DEFINE r == s.windows[w]
             b == listed(w)
  <2>1. b \in BOOLEAN /\ (r.listed => b) /\ (b /\ ~r.listed => Active(r))
    BY DEF Placements
  <2>2. ws[w] = [r EXCEPT !.listed = b] /\ r \in WindowType /\ WindowInv(s.wm, r)
    BY <1>1
  <2> HIDE DEF ws, r, b
  <2>3. ws[w] \in WindowType
    BY <2>1, <2>2 DEF WindowType
  <2>4. LifeInv(ws[w])
    BY <2>1, <2>2 DEF WindowType, Active, WindowInv, LifeInv
  <2>5. ConfigureInv(s.wm, ws[w]) /\ DirtyInv(s.wm, ws[w])
    BY <2>1, <2>2 DEF WindowType, Tracked, WindowInv, ConfigureInv, DirtyInv
  <2> QED
    BY <2>3, <2>4, <2>5 DEF WindowInv
<1>3. t.wm = s.wm /\ t.windows = ws /\ t.panic = FALSE
  BY <1>1 DEF Placed, State
<1>4. ws \in [Windows -> WindowType]
  BY <1>2
<1>5. t \in State
  BY <1>1, <1>3, <1>4 DEF Placed, State
<1> QED
  BY <1>1, <1>2, <1>3, <1>5 DEF Base

\* manageStart as a whole.
LEMMA ManageStartGood ==
  ASSUME NEW s, Base(s), s.wm.state = "idle", NEW t \in ManageStart(s)
  PROVE  Good(t)
<1> DEFINE u == ManageStarted(s)
           v == [u EXCEPT !.wm.timeout = TRUE]
<1>1. Base(u) /\ u.wm.state = "manage"
  BY ManageStartedGood
<1>2. t \in IF u.wm.object THEN {v}
            ELSE UNION {ManageFinish(Placed(u, placement)) : placement \in Placements(u.windows)}
  BY DEF ManageStart
<1> HIDE DEF u
<1>3. CASE u.wm.object
  <2>1. v \in State /\ v.windows = u.windows /\ v.panic = u.panic
        /\ v.wm = [u.wm EXCEPT !.timeout = TRUE]
    BY <1>1 DEF Base, State, WmType
  <2>2. WmInv(v.wm) /\ v.wm.state = "manage" /\ v.wm.dirty = u.wm.dirty
    BY <1>1, <2>1 DEF Base, State, WmType, WmInv, AnyDirty
  <2>3. \A w \in Windows : WindowInv(v.wm, v.windows[w])
    BY <1>1, <2>1, <2>2, Keep DEF Base
  <2> QED
    BY <1>1, <1>2, <1>3, <2>1, <2>2, <2>3 DEF Good, Base, Counts, Woken
<1>4. CASE ~u.wm.object
  <2>1. PICK placement \in Placements(u.windows) : t \in ManageFinish(Placed(u, placement))
    BY <1>2, <1>4
  <2>2. Base(Placed(u, placement)) /\ Placed(u, placement).wm.state = "manage"
    BY <1>1, PlacedGood
  <2> QED
    BY <2>1, <2>2, ManageFinishGood
<1> QED
  BY <1>3, <1>4

\* s: the program state in which one more configure has just been answered.
Answered(s) ==
  /\ Base(s)
  /\ s.wm.state = "inflight_configures" /\ s.wm.timeout
  /\ s.wm.inflight_configures = Cardinality(AwaitedOf(s)) + 1

\* The awaited windows can be counted.
LEMMA AwaitedFinite ==
  ASSUME NEW s
  PROVE  IsFiniteSet(AwaitedOf(s)) /\ Cardinality(AwaitedOf(s)) \in Nat
<1>1. IsFiniteSet(AwaitedOf(s))
  BY WindowsAssumption, FS_Subset DEF AwaitedOf
<1> QED
  BY <1>1, FS_CardinalityType

\* Counting the answer leaves a good state, or one the render sequence may start in.
LEMMA CountedGood ==
  ASSUME NEW s, Answered(s)
  PROVE  LET c == Counted(s)
             u == [c EXCEPT !.wm.timeout = FALSE]
         IN  /\ s.wm.inflight_configures # 0
             /\ s.wm.inflight_configures # 1 => Good(c) /\ c.windows = s.windows
             /\ s.wm.inflight_configures = 1 =>
                  Base(u) /\ u.wm.inflight_configures = 0 /\ u.windows = s.windows
<1> DEFINE k == Cardinality(AwaitedOf(s))
           c == Counted(s)
           u == [c EXCEPT !.wm.timeout = FALSE]
<1>1. k \in Nat /\ s.wm.inflight_configures = k + 1
  BY AwaitedFinite DEF Answered
<1>2. /\ s \in State /\ s.wm \in WmType /\ WmInv(s.wm) /\ s.panic = FALSE
      /\ s.wm.state = "inflight_configures" /\ s.wm.timeout
      /\ \A w \in Windows : WindowInv(s.wm, s.windows[w])
  BY DEF Answered, Base, State
<1>3. s.wm.inflight_configures # 0 /\ (s.wm.inflight_configures = 1 <=> k = 0)
  BY <1>1
<1> HIDE DEF k
<1>4. /\ c \in State /\ c.windows = s.windows /\ c.panic = FALSE
      /\ c.wm = [s.wm EXCEPT !.inflight_configures = k]
  <2> DEFINE n == [s.wm EXCEPT !.inflight_configures = k]
  <2>1. n \in WmType
    BY <1>1, <1>2 DEF WmType
  <2>2. s.wm.inflight_configures - 1 = k
    BY <1>1
  <2>3. c = [s EXCEPT !.wm = n]
    BY <1>3, <2>2 DEF Counted
  <2> HIDE DEF n, c
  <2>4. c \in State /\ c.windows = s.windows /\ c.panic = FALSE /\ c.wm = n
    BY <1>2, <2>1, <2>3 DEF State
  <2> QED
    BY <2>4 DEF n
<1> HIDE DEF c
<1>5. WmInv(c.wm) /\ c.wm.state = "inflight_configures" /\ c.wm.dirty = s.wm.dirty
      /\ c.wm.timeout /\ c.wm.inflight_configures = k
  BY <1>1, <1>2, <1>4 DEF WmInv, WmType, AnyDirty
<1>6. ASSUME NEW w \in Windows
      PROVE  WindowInv(c.wm, c.windows[w])
  <2>1. WindowInv(s.wm, s.windows[w]) /\ c.windows[w] = s.windows[w]
    BY <1>2, <1>4
  <2> QED
    BY <1>2, <1>5, <2>1, Keep
<1>7. Base(c)
  BY <1>4, <1>5, <1>6 DEF Base
<1>8. AwaitedOf(c) = AwaitedOf(s)
  BY <1>4 DEF AwaitedOf
<1>9. ASSUME k = 0
      PROVE  Base(u) /\ u.wm.inflight_configures = 0 /\ u.windows = s.windows
  <2>1. u \in State /\ u.windows = c.windows /\ u.panic = FALSE
        /\ u.wm = [c.wm EXCEPT !.timeout = FALSE]
    BY <1>4 DEF State, WmType
  <2>2. WmInv(u.wm) /\ u.wm.state = "inflight_configures" /\ u.wm.dirty = c.wm.dirty
        /\ u.wm.inflight_configures = 0
    BY <1>4, <1>5, <1>9, <2>1 DEF WmInv, WmType, AnyDirty, State
  <2>3. \A w \in Windows : WindowInv(u.wm, u.windows[w])
    BY <1>5, <1>6, <2>1, <2>2, Keep
  <2> QED
    BY <1>4, <2>1, <2>2, <2>3 DEF Base
<1>10. ASSUME k # 0 PROVE Good(c)
  <2>1. AwaitedOf(s) # {}
    BY <1>10, FS_EmptySet DEF k
  <2> QED
    BY <1>5, <1>7, <1>8, <2>1 DEF Good, Counts, Woken, k
<1> QED
  BY <1>3, <1>4, <1>9, <1>10 DEF c

\* notifyConfigured, called with one answer not counted yet.
LEMMA NotifyConfiguredGood ==
  ASSUME NEW s, Answered(s), NEW t \in NotifyConfigured(s)
  PROVE  Good(t)
<1>1. s.wm.state = "inflight_configures"
  BY DEF Answered
<1>2. CASE s.wm.inflight_configures = 1
  BY <1>1, <1>2, CountedGood, RenderStartGood DEF NotifyConfigured
<1>3. CASE s.wm.inflight_configures # 1
  BY <1>1, <1>3, CountedGood DEF NotifyConfigured
<1> QED
  BY <1>2, <1>3

-----------------------------------------------------------------------------
\* A commit may dirty the windowing or the rendering state.
LEMMA Resized ==
  ASSUME NEW m \in WmType, WmInv(m), Woken(m), NEW invalidates \in {"nothing", "rendering", "windowing"}
  PROVE  LET n == SetDimensions(m, invalidates)
         IN  /\ n \in WmType /\ WmInv(n) /\ Woken(n)
             /\ n.state = m.state /\ n.timeout = m.timeout
             /\ n.inflight_configures = m.inflight_configures
             /\ m.dirty => n.dirty
BY Dirtied DEF SetDimensions

\* What a good state gives, in one place.
LEMMA Facts ==
  ASSUME NEW s, Good(s)
  PROVE  /\ s \in State /\ s.wm \in WmType /\ s.windows \in [Windows -> WindowType]
         /\ s.panic = FALSE /\ WmInv(s.wm) /\ Woken(s.wm)
         /\ \A w \in Windows : WindowInv(s.wm, s.windows[w])
         /\ Counts(s)
BY DEF Good, Base, State

\* Replacing the record of one window concerns no other window.
LEMMA ReplaceBase ==
  ASSUME NEW s, Base(s), NEW w \in Windows, NEW r \in WindowType,
         NEW t \in State, t.windows = [s.windows EXCEPT ![w] = r], t.panic = FALSE,
         WmInv(t.wm), t.wm.state = s.wm.state, s.wm.dirty => t.wm.dirty,
         WindowInv(t.wm, r)
  PROVE  Base(t) /\ \A v \in Windows \ {w} : t.windows[v] = s.windows[v]
<1>1. ASSUME NEW v \in Windows PROVE WindowInv(t.wm, t.windows[v])
  <2>1. CASE v = w
    BY <2>1 DEF Base, State
  <2>2. CASE v # w
    BY <2>2, Keep DEF Base, State
  <2> QED
    BY <2>1, <2>2
<1> QED
  BY <1>1 DEF Base, State

\* ... nor the count, if the window is awaited after as before.
LEMMA ReplaceWindow ==
  ASSUME NEW s, Good(s), NEW w \in Windows, NEW r \in WindowType,
         NEW t \in State, t.windows = [s.windows EXCEPT ![w] = r], t.panic = FALSE,
         WmInv(t.wm), Woken(t.wm), t.wm.state = s.wm.state, s.wm.dirty => t.wm.dirty,
         t.wm.timeout = s.wm.timeout, t.wm.inflight_configures = s.wm.inflight_configures,
         WindowInv(t.wm, r),
         r.listed /\ Tracked(r) <=> s.windows[w].listed /\ Tracked(s.windows[w])
  PROVE  Good(t)
<1>1. Base(t)
  BY ReplaceBase DEF Good
<1>2. AwaitedOf(t) = AwaitedOf(s)
  BY Facts DEF AwaitedOf
<1> QED
  BY <1>1, <1>2 DEF Good, Counts

\* Dirty notifications concern no window.
LEMMA ReplaceWm ==
  ASSUME NEW s, Good(s), NEW t \in State, t.windows = s.windows, t.panic = FALSE,
         WmInv(t.wm), Woken(t.wm), t.wm.state = s.wm.state, s.wm.dirty => t.wm.dirty,
         t.wm.timeout = s.wm.timeout, t.wm.inflight_configures = s.wm.inflight_configures
  PROVE  Good(t)
<1>1. Base(t)
  BY Facts, Keep DEF Base, State
<1>2. AwaitedOf(t) = AwaitedOf(s)
  BY DEF AwaitedOf
<1> QED
  BY <1>1, <1>2, Facts DEF Good, Counts

\* Replacing an awaited window by one that is not leaves one answer to count.
LEMMA AnswerWindow ==
  ASSUME NEW s, Good(s), NEW w \in Windows, NEW r \in WindowType, Tracked(s.windows[w]),
         NEW t \in State, t.windows = [s.windows EXCEPT ![w] = r], t.panic = FALSE,
         WmInv(t.wm), t.wm.state = s.wm.state, s.wm.dirty => t.wm.dirty,
         t.wm.timeout = s.wm.timeout, t.wm.inflight_configures = s.wm.inflight_configures,
         WindowInv(t.wm, r), ~Tracked(r)
  PROVE  Answered(t)
<1>1. Base(t)
  BY ReplaceBase DEF Good
<1>2. s.wm.state = "inflight_configures" /\ w \in AwaitedOf(s)
  BY Facts DEF WindowInv, ConfigureInv, AwaitedOf
<1>3. AwaitedOf(t) = AwaitedOf(s) \ {w}
  BY Facts DEF AwaitedOf
<1>4. Cardinality(AwaitedOf(t)) = Cardinality(AwaitedOf(s)) - 1
  BY <1>2, <1>3, AwaitedFinite, FS_RemoveElement
<1> QED
  BY <1>1, <1>2, <1>4, AwaitedFinite DEF Good, Counts, Answered

\* What the render sequence leaves of a window whose role object exists.
Alike(q, r) ==
  /\ q.impl = r.impl /\ q.state = r.state /\ q.surface = r.surface
  /\ Tracked(q) => Tracked(r)

\* The render sequence that an answer may run inside of a handler does not free
\* or tear down the window whose handler it is.
LEMMA RenderStartKeeps ==
  ASSUME NEW s, Base(s), s.wm.inflight_configures = 0, NEW t \in RenderStart(s),
         NEW w \in Windows, s.windows[w].impl # "destroying"
  PROVE  Alike(t.windows[w], s.windows[w])
<1> DEFINE u == RenderStarted(s)
           v == [u EXCEPT !.wm.timeout = TRUE]
<1>1. Base(u)
  BY RenderStartedGood
<1>2. Alike(u.windows[w], s.windows[w]) /\ u.windows[w] \in WindowType
  <2> DEFINE q == s.windows[w]
             r == u.windows[w]
  <2>1. r = RenderStartWindow(q)
    BY DEF RenderStarted
  <2>2. q \in WindowType
    BY DEF Base, State
  <2>3. r \in WindowType
    BY <1>1 DEF Base, State
  <2> HIDE DEF q, r
  <2>4. Alike(r, q)
    BY <2>1, <2>2 DEF RenderStartWindow, WindowType, Tracked, Alike
  <2> QED
    BY <2>3, <2>4 DEF q, r
<1>3. t \in IF u.wm.object THEN {v} ELSE RenderFinish(u)
  BY DEF RenderStart
<1> HIDE DEF u
<1>4. CASE t = v
  BY <1>1, <1>2, <1>4 DEF Base, State
<1>5. CASE t \in RenderFinish(u)
  <2>1. t.windows[w] = RenderFinishWindow(u.windows[w])
    BY <1>5 DEF RenderFinish, RenderFinished
  <2>2. u.windows[w].impl # "destroying"
    BY <1>2 DEF Alike
  <2> QED
    BY <1>2, <2>1, <2>2 DEF RenderFinishWindow, WindowType, Tracked, Alike
<1> QED
  BY <1>3, <1>4, <1>5

\* The same of notifyConfigured.
LEMMA NotifyConfiguredKeeps ==
  ASSUME NEW s, Answered(s), NEW t \in NotifyConfigured(s),
         NEW w \in Windows, s.windows[w].impl # "destroying"
  PROVE  Alike(t.windows[w], s.windows[w])
<1>1. s.wm.state = "inflight_configures"
  BY DEF Answered
<1>2. CASE s.wm.inflight_configures = 1
  <2> DEFINE u == [Counted(s) EXCEPT !.wm.timeout = FALSE]
  <2>1. Base(u) /\ u.wm.inflight_configures = 0 /\ u.windows = s.windows
    BY <1>2, CountedGood
  <2>2. t \in RenderStart(u)
    BY <1>1, <1>2 DEF NotifyConfigured
  <2> HIDE DEF u
  <2> QED
    BY <2>1, <2>2, RenderStartKeeps
<1>3. CASE s.wm.inflight_configures # 1
  BY <1>1, <1>3, CountedGood DEF NotifyConfigured, Alike
<1> QED
  BY <1>2, <1>3

-----------------------------------------------------------------------------
\* The commit of a window: it may answer a configure, and renders the frame if it
\* is the last answer.
LEMMA CommitWindowGood ==
  ASSUME NEW s, Good(s), NEW w \in Windows, s.windows[w].impl = "toplevel",
         NEW invalidates \in {"nothing", "rendering", "windowing"},
         NEW t \in CommitWindow(s, w, invalidates)
  PROVE  Good(t) /\ Alike(t.windows[w], s.windows[w])
<1> DEFINE r == s.windows[w]
           m == SetDimensions(s.wm, invalidates)
           sized == [s EXCEPT !.wm = m]
           answered == [sized EXCEPT !.windows[w].configure_state = "committed"]
           late == [sized EXCEPT !.windows[w].configure_state = "idle",
                                 !.wm = DirtyRendering(@)]
<1>1. /\ s \in State /\ s.wm \in WmType /\ s.windows \in [Windows -> WindowType]
      /\ s.panic = FALSE /\ WindowInv(s.wm, r) /\ r \in WindowType /\ r.impl = "toplevel"
      /\ WmInv(s.wm)
  BY Facts
<1>2. /\ m \in WmType /\ WmInv(m) /\ Woken(m)
      /\ m.state = s.wm.state /\ m.timeout = s.wm.timeout
      /\ m.inflight_configures = s.wm.inflight_configures
      /\ s.wm.dirty => m.dirty
  BY <1>1, Facts, Resized
<1>3. \/ t = s
      \/ t = sized
      \/ /\ r.state \in {"initialized", "mapped"} /\ r.configure_state = "acked"
         /\ t \in NotifyConfigured(answered)
      \/ r.configure_state = "timed_out_acked" /\ t = late
  BY <1>1 DEF CommitWindow, WindowType, ConfigureStates
<1> HIDE DEF m
<1>4. CASE t = s
  BY <1>4 DEF Alike
<1>5. CASE t = sized
  <2>1. sized \in State /\ sized.wm = m /\ sized.windows = s.windows /\ sized.panic = FALSE
    BY <1>1, <1>2 DEF State
  <2> QED
    BY <1>2, <1>5, <2>1, ReplaceWm DEF Alike
<1>6. CASE /\ r.state \in {"initialized", "mapped"} /\ r.configure_state = "acked"
           /\ t \in NotifyConfigured(answered)
  <2> DEFINE q == [r EXCEPT !.configure_state = "committed"]
  <2>1. q \in WindowType /\ ~Tracked(q) /\ Tracked(r) /\ r.impl = q.impl
        /\ q.state = r.state /\ q.surface = r.surface
    BY <1>1, <1>6 DEF WindowType, ConfigureStates, Tracked
  <2>2. /\ answered \in State /\ answered.wm = m /\ answered.panic = FALSE
        /\ answered.windows = [s.windows EXCEPT ![w] = q]
    BY <1>1, <1>2, <2>1 DEF State
  <2>3. LifeInv(q)
    BY <1>1 DEF WindowType, WindowInv, LifeInv
  <2>4. ConfigureInv(m, q) /\ DirtyInv(m, q)
    BY <1>1, <1>2, <1>6 DEF WindowType, Tracked, WindowInv, ConfigureInv, DirtyInv
  <2>5. answered.windows[w] = q
    BY <1>1, <2>2
  <2> HIDE DEF q, answered, r
  <2>6. Answered(answered)
    BY <1>2, <2>1, <2>2, <2>3, <2>4, AnswerWindow DEF WindowInv, r
  <2>7. Alike(t.windows[w], q)
    BY <1>1, <1>6, <2>1, <2>5, <2>6, NotifyConfiguredKeeps
  <2> QED
    BY <1>6, <2>1, <2>6, <2>7, NotifyConfiguredGood DEF Alike, r
<1>7. CASE r.configure_state = "timed_out_acked" /\ t = late
  <2> DEFINE q == [r EXCEPT !.configure_state = "idle"]
             n == DirtyRendering(m)
  <2>1. q \in WindowType /\ ~Tracked(q) /\ ~Tracked(r) /\ r.impl = q.impl
        /\ q.state = r.state /\ q.surface = r.surface
    BY <1>1, <1>7 DEF WindowType, ConfigureStates, Tracked
  <2>2. /\ n \in WmType /\ WmInv(n) /\ Woken(n)
        /\ n.state = m.state /\ n.timeout = m.timeout
        /\ n.inflight_configures = m.inflight_configures
        /\ m.dirty => n.dirty
    BY <1>2, Dirtied
  <2> HIDE DEF n
  <2>3. /\ late \in State /\ late.wm = n /\ late.panic = FALSE
        /\ late.windows = [s.windows EXCEPT ![w] = q]
    BY <1>1, <1>2, <2>1, <2>2 DEF State, n
  <2>4. LifeInv(q)
    BY <1>1 DEF WindowType, WindowInv, LifeInv
  <2>5. ConfigureInv(n, q) /\ DirtyInv(n, q)
    BY <1>1, <1>2, <1>7, <2>2 DEF WindowType, Tracked, WindowInv, ConfigureInv, DirtyInv
  <2>6. late.windows[w] = q
    BY <1>1, <2>3
  <2> HIDE DEF q, late, r
  <2>7. Good(late)
    BY ZenonT(60), <1>2, <2>1, <2>2, <2>3, <2>4, <2>5, ReplaceWindow DEF WindowInv, r
  <2> QED
    BY <1>7, <2>1, <2>6, <2>7 DEF Alike, r
<1> QED
  BY <1>3, <1>4, <1>5, <1>6, <1>7

\* A map, of an XDG window that is initialized or of an X11 window in any state.
LEMMA MapWindowGood ==
  ASSUME NEW s, Good(s), NEW w \in Windows, NEW manages \in BOOLEAN,
         NEW u, u = s \/ u = [s EXCEPT !.windows[w].state = "initialized"],
         u.windows[w].state = "initialized",
         \/ s.windows[w].impl = "toplevel" /\ s.windows[w].surface = "configured"
         \/ s.windows[w].impl = "xwayland" /\ s.windows[w].surface = "created"
  PROVE  /\ Good(MapWindow(u, w, manages))
         /\ MapWindow(u, w, manages).windows[w].impl = s.windows[w].impl
<1> DEFINE r == s.windows[w]
           q == [r EXCEPT !.state = "mapped", !.surface = "mapped"]
           m == IF manages THEN DirtyWindowing(DirtyRendering(s.wm)) ELSE DirtyRendering(s.wm)
           t == MapWindow(u, w, manages)
<1>1. /\ s \in State /\ s.wm \in WmType /\ s.windows \in [Windows -> WindowType]
      /\ s.panic = FALSE /\ WindowInv(s.wm, r) /\ r \in WindowType
      /\ WmInv(s.wm)
  BY Facts
<1>2. /\ m \in WmType /\ WmInv(m) /\ Woken(m)
      /\ m.state = s.wm.state /\ m.timeout = s.wm.timeout
      /\ m.inflight_configures = s.wm.inflight_configures
      /\ s.wm.dirty => m.dirty
  <2> DEFINE n == DirtyRendering(s.wm)
  <2>1. /\ n \in WmType /\ WmInv(n) /\ Woken(n)
        /\ n.state = s.wm.state /\ n.timeout = s.wm.timeout
        /\ n.inflight_configures = s.wm.inflight_configures
        /\ s.wm.dirty => n.dirty
    BY <1>1, Dirtied
  <2> HIDE DEF n
  <2>2. m = n \/ m = DirtyWindowing(n)
    BY DEF n
  <2> HIDE DEF m
  <2> QED
    BY <2>1, <2>2, Dirtied
<1> HIDE DEF m
<1>3. q \in WindowType
  BY <1>1 DEF WindowType
<1>4. /\ t.wm = m /\ t.panic = FALSE /\ t.windows = [s.windows EXCEPT ![w] = q]
      /\ t \in State
  <2>1. /\ u \in State /\ u.wm = s.wm /\ u.panic = FALSE
        /\ [u.windows[w] EXCEPT !.state = "mapped", !.surface = "mapped"] = q
        /\ \A x \in WindowType : [u.windows EXCEPT ![w] = x] = [s.windows EXCEPT ![w] = x]
    <3>1. CASE u = s
      BY <1>1, <3>1
    <3>2. CASE u = [s EXCEPT !.windows[w].state = "initialized"]
      <4> DEFINE v == [r EXCEPT !.state = "initialized"]
      <4>1. v \in WindowType /\ [v EXCEPT !.state = "mapped", !.surface = "mapped"] = q
        BY <1>1 DEF WindowType
      <4>2. u.wm = s.wm /\ u.panic = s.panic /\ u.windows = [s.windows EXCEPT ![w] = v]
        BY <1>1, <3>2 DEF State
      <4>3. u \in State
        BY <1>1, <3>2, <4>1 DEF State
      <4> HIDE DEF v, q
      <4> QED
        BY <1>1, <4>1, <4>2, <4>3
    <3> QED
      BY <3>1, <3>2
  <2>2. u.windows[w].state = "initialized"
    OBVIOUS
  <2> HIDE DEF q
  <2>3. /\ t.wm = m /\ t.panic = FALSE
        /\ t.windows = [u.windows EXCEPT ![w] = q]
    BY <1>1, <2>1, <2>2 DEF MapWindow, State, m
  <2>4. t \in State
    BY <1>2, <1>3, <2>1, <2>3 DEF MapWindow, State
  <2> QED
    BY <1>3, <2>1, <2>3, <2>4
<1>5. LifeInv(q)
  BY <1>1 DEF WindowType, WindowInv, LifeInv
<1>6. ConfigureInv(m, q) /\ DirtyInv(m, q)
  BY <1>1, <1>2 DEF WindowType, Tracked, WindowInv, LifeInv, ConfigureInv, DirtyInv
<1>7. q.listed = r.listed /\ q.configure_state = r.configure_state /\ q.impl = r.impl
  BY <1>1 DEF WindowType
<1>8. t.windows[w] = q
  BY <1>1, <1>4
<1> HIDE DEF q, t
<1>9. Good(t)
  BY <1>2, <1>3, <1>4, <1>5, <1>6, <1>7, ReplaceWindow DEF WindowInv, Tracked
<1> QED
  BY <1>7, <1>8, <1>9 DEF t

\* An unmap keeps the configure tracked.
LEMMA UnmapWindowGood ==
  ASSUME NEW s, Good(s), NEW w \in Windows, s.windows[w].surface = "mapped"
  PROVE  /\ Good(UnmapWindow(s, w))
         /\ UnmapWindow(s, w).windows[w].impl = s.windows[w].impl
         /\ UnmapWindow(s, w).windows[w].surface = "created"
<1> DEFINE r == s.windows[w]
           q == [r EXCEPT !.state = "closing", !.saved = TRUE,
                          !.surface = "created", !.unacked = {}]
           m == DirtyWindowing(s.wm)
           t == UnmapWindow(s, w)
<1>1. /\ s \in State /\ s.wm \in WmType /\ s.windows \in [Windows -> WindowType]
      /\ s.panic = FALSE /\ WindowInv(s.wm, r) /\ r \in WindowType
      /\ WmInv(s.wm)
  BY Facts
<1>2. /\ m \in WmType /\ WmInv(m) /\ Woken(m)
      /\ m.state = s.wm.state /\ m.timeout = s.wm.timeout
      /\ m.inflight_configures = s.wm.inflight_configures
      /\ m.dirty
  BY <1>1, Dirtied
<1> HIDE DEF m
<1>3. q \in WindowType
  BY <1>1 DEF WindowType
<1>4. /\ t.wm = m /\ t.panic = FALSE /\ t.windows = [s.windows EXCEPT ![w] = q]
      /\ t \in State
  BY <1>1, <1>2, <1>3 DEF UnmapWindow, State, m, WindowInv, LifeInv
<1>5. LifeInv(q)
  BY <1>1 DEF WindowType, WindowInv, LifeInv
<1>6. ConfigureInv(m, q) /\ DirtyInv(m, q)
  BY <1>1, <1>2 DEF WindowType, Tracked, WindowInv, LifeInv, ConfigureInv, DirtyInv
<1>7. q.listed = r.listed /\ q.configure_state = r.configure_state /\ q.impl = r.impl
      /\ q.surface = "created"
  BY <1>1 DEF WindowType
<1>8. t.windows[w] = q
  BY <1>1, <1>4
<1> HIDE DEF q, t
<1>9. Good(t)
  BY <1>2, <1>3, <1>4, <1>5, <1>6, <1>7, ReplaceWindow DEF WindowInv, Tracked
<1> QED
  BY <1>7, <1>8, <1>9 DEF t

\* The role object goes last.
LEMMA DestroyingGood ==
  ASSUME NEW s, Good(s), NEW w \in Windows, s.windows[w].surface = "none",
         s.windows[w].state \in {"init", "closing"}, ~Tracked(s.windows[w])
  PROVE  Good([s EXCEPT !.windows[w].impl = "destroying"])
<1> DEFINE r == s.windows[w]
           q == [r EXCEPT !.impl = "destroying"]
           t == [s EXCEPT !.windows[w].impl = "destroying"]
<1>1. /\ s \in State /\ s.wm \in WmType /\ s.windows \in [Windows -> WindowType]
      /\ s.panic = FALSE /\ WindowInv(s.wm, r) /\ r \in WindowType
      /\ WmInv(s.wm) /\ Woken(s.wm)
  BY Facts
<1>2. q \in WindowType
  BY <1>1 DEF WindowType
<1>3. /\ t.wm = s.wm /\ t.panic = FALSE /\ t.windows = [s.windows EXCEPT ![w] = q]
      /\ t \in State
  BY <1>1, <1>2 DEF State
<1>4. LifeInv(q)
  BY <1>1 DEF WindowType, WindowInv, LifeInv
<1>5. ConfigureInv(s.wm, q) /\ DirtyInv(s.wm, q)
  BY <1>1 DEF WindowType, Tracked, WindowInv, ConfigureInv, DirtyInv
<1>6. ~Tracked(q)
  BY <1>1 DEF WindowType, Tracked
<1> HIDE DEF q, t
<1> QED
  BY <1>1, <1>2, <1>3, <1>4, <1>5, <1>6, ReplaceWindow DEF WindowInv, t

\* The destruction of a role object answers the configure it was asked for, u is
\* the state before that is counted, v the one after.
LEMMA DestroyWindowIs ==
  ASSUME NEW s, Good(s), NEW w \in Windows, s.windows[w].surface # "mapped",
         s.windows[w].impl \in {"toplevel", "xwayland"},
         NEW t \in DestroyWindow(s, w)
  PROVE  \E u, v :
           /\ t = [v EXCEPT !.windows[w].impl = "destroying"]
           /\ u.wm.state = s.wm.state
           /\ \A x \in Windows \ {w} : u.windows[x] = s.windows[x]
           /\ u.windows[w].impl # "destroying" /\ u.windows[w].surface = "none"
           /\ u.windows[w].state \in {"init", "closing"}
           /\ s.windows[w].state \in {"init", "closing"} =>
                u.windows[w].state = s.windows[w].state
           /\ u.windows[w].listed = s.windows[w].listed
           /\ IF Tracked(s.windows[w])
              THEN /\ Answered(u) /\ v \in NotifyConfigured(u)
                   /\ u.windows[w].configure_state = "committed"
              ELSE /\ Good(u) /\ v = u
                   /\ u.windows[w].configure_state = s.windows[w].configure_state
<1> DEFINE r == s.windows[w]
           closes == r.state \in {"ready", "initialized"}
           st == IF closes THEN "closing" ELSE r.state
           m == IF closes THEN DirtyWindowing(s.wm) ELSE s.wm
           q == [r EXCEPT !.state = st, !.surface = "none", !.unacked = {}]
           a == [q EXCEPT !.configure_state = "committed"]
           c == [s EXCEPT !.windows[w].state = st, !.windows[w].surface = "none",
                          !.windows[w].unacked = {}]
           p == s.panic \/ r.state = "mapped"
           closing ==
             [s EXCEPT !.windows[w].state = IF closes THEN "closing" ELSE @,
                       !.windows[w].surface = "none",
                       !.windows[w].unacked = {},
                       !.wm = IF closes THEN DirtyWindowing(@) ELSE @,
                       !.panic = p]
           answered == [closing EXCEPT !.windows[w].configure_state = "committed"]
<1>1. /\ s \in State /\ s.wm \in WmType /\ s.windows \in [Windows -> WindowType]
      /\ s.panic = FALSE /\ WindowInv(s.wm, r) /\ r \in WindowType
      /\ WmInv(s.wm) /\ Woken(s.wm) /\ r.state # "mapped"
      /\ r.impl \in {"toplevel", "xwayland"}
  BY Facts DEF WindowInv, LifeInv
<1>2. /\ m \in WmType /\ WmInv(m) /\ Woken(m)
      /\ m.state = s.wm.state /\ m.timeout = s.wm.timeout
      /\ m.inflight_configures = s.wm.inflight_configures
      /\ s.wm.dirty => m.dirty
      /\ closes => m.dirty
  BY <1>1, Dirtied
<1>3. st \in {"init", "closing"} /\ (st = "closing" => m.dirty) /\ (r.state # "init" => st # "init")
      /\ (r.state \in {"init", "closing"} => st = r.state)
  BY <1>1, <1>2 DEF WindowType, WindowInv, DirtyInv
<1>4. PICK v \in IF Tracked(r) THEN NotifyConfigured(answered) ELSE {closing} :
        t = [v EXCEPT !.windows[w].impl = "destroying"]
  BY DEF DestroyWindow
<1>p. p = FALSE
  BY <1>1
<1> HIDE DEF p
<1>5. /\ closing.wm = m /\ closing.panic = FALSE
      /\ closing.windows = [s.windows EXCEPT ![w] = q]
  BY <1>1, <1>p DEF State
<1>c. closing = [c EXCEPT !.wm = m, !.panic = p] /\ c.windows = [s.windows EXCEPT ![w] = q]
  BY <1>1 DEF State
<1> HIDE DEF st, m, closes
<1>6. q \in WindowType /\ q.surface = "none" /\ q.state = st /\ q.impl = r.impl
      /\ q.listed = r.listed /\ q.configure_state = r.configure_state
  BY <1>1, <1>3 DEF WindowType
<1>7. closing \in State
  <2>1. c \in State
    BY ZenonT(60), <1>1, <1>6, <1>c DEF State
  <2> HIDE DEF c, q, closing
  <2> QED
    BY <1>2, <1>p, <1>c, <2>1 DEF State
<1>8. LifeInv(q)
  BY <1>1, <1>3 DEF WindowType, WindowInv, LifeInv
<1>9. CASE ~Tracked(r)
  <2>1. ConfigureInv(m, q) /\ DirtyInv(m, q)
    BY <1>1, <1>2, <1>3, <1>9 DEF WindowType, Tracked, WindowInv, ConfigureInv, DirtyInv
  <2>2. ~Tracked(q) /\ closing.windows[w] = q
    BY <1>1, <1>5, <1>6, <1>9 DEF Tracked
  <2>3. v = closing
    BY <1>4, <1>9
  <2> HIDE DEF q, closing, r
  <2>4. Good(closing)
    BY <1>2, <1>5, <1>6, <1>7, <1>8, <1>9, <2>1, <2>2, ReplaceWindow DEF WindowInv, r
  <2>5. \A x \in Windows \ {w} : closing.windows[x] = s.windows[x]
    BY <1>1, <1>5
  <2>6. closing.wm.state = s.wm.state
    BY <1>2, <1>5
  <2> HIDE DEF closing
  <2>7. q.impl # "destroying" /\ q.listed = s.windows[w].listed
        /\ q.configure_state = s.windows[w].configure_state
        /\ (s.windows[w].state \in {"init", "closing"} => st = s.windows[w].state)
    BY <1>1, <1>3, <1>6 DEF r
  <2>8. ~Tracked(s.windows[w])
    BY <1>9 DEF r
  <2> QED
    BY <1>3, <1>4, <1>6, <2>2, <2>3, <2>4, <2>5, <2>6, <2>7, <2>8
<1>10. CASE Tracked(r)
  <2>1. /\ a \in WindowType /\ ~Tracked(a) /\ a.impl = r.impl /\ a.state = st
        /\ a.surface = "none" /\ a.listed = r.listed /\ a.configure_state = "committed"
    BY <1>1, <1>6 DEF WindowType, ConfigureStates, Tracked
  <2>2. LifeInv(a)
    BY <1>1, <1>8, <2>1 DEF WindowType, LifeInv
  <2>3. ConfigureInv(m, a) /\ DirtyInv(m, a)
    BY <1>1, <1>2, <1>3, <1>10 DEF WindowType, Tracked, WindowInv, ConfigureInv, DirtyInv
  <2>5. v \in NotifyConfigured(answered)
    BY <1>4, <1>10
  <2> HIDE DEF q, closing
  <2>4. /\ answered.wm = m /\ answered.panic = FALSE
        /\ answered.windows = [s.windows EXCEPT ![w] = a]
    BY <1>1, <1>5, <1>6, <1>7 DEF State
  <2>6. answered \in State
    BY ZenonT(60), <1>1, <1>5, <1>6, <1>7, <2>1 DEF State, WindowType, ConfigureStates
  <2>7. answered.windows[w] = a
    BY <1>1, <2>4
  <2> HIDE DEF a, answered, r
  <2>8. Answered(answered)
    BY <1>2, <1>10, <2>1, <2>2, <2>3, <2>4, <2>6, AnswerWindow DEF WindowInv, r
  <2>9. \A x \in Windows \ {w} : answered.windows[x] = s.windows[x]
    BY <1>1, <2>4
  <2>10. answered.wm.state = s.wm.state
    BY <1>2, <2>4
  <2>11. a.impl # "destroying" /\ a.listed = s.windows[w].listed
         /\ a.configure_state = "committed"
         /\ (s.windows[w].state \in {"init", "closing"} => st = s.windows[w].state)
    BY <1>1, <1>3, <1>6, <2>1 DEF r
  <2>12. Tracked(s.windows[w])
    BY <1>10 DEF r
  <2> QED
    BY <1>3, <1>4, <2>1, <2>5, <2>7, <2>8, <2>9, <2>10, <2>11, <2>12
<1> QED
  BY <1>9, <1>10

\* What DestroyWindow leaves is good.
LEMMA DestroyWindowGood ==
  ASSUME NEW s, Good(s), NEW w \in Windows, s.windows[w].surface # "mapped",
         s.windows[w].impl \in {"toplevel", "xwayland"},
         NEW t \in DestroyWindow(s, w)
  PROVE  Good(t)
<1>1. PICK u, v :
        /\ t = [v EXCEPT !.windows[w].impl = "destroying"]
        /\ u.windows[w].impl # "destroying" /\ u.windows[w].surface = "none"
        /\ u.windows[w].state \in {"init", "closing"}
        /\ IF Tracked(s.windows[w])
           THEN /\ Answered(u) /\ v \in NotifyConfigured(u)
                /\ u.windows[w].configure_state = "committed"
           ELSE /\ Good(u) /\ v = u
                /\ u.windows[w].configure_state = s.windows[w].configure_state
  BY DestroyWindowIs
<1>2. CASE Tracked(s.windows[w])
  <2>1. Good(v)
    BY <1>1, <1>2, NotifyConfiguredGood
  <2>2. Alike(v.windows[w], u.windows[w])
    BY <1>1, <1>2, NotifyConfiguredKeeps
  <2> QED
    BY <1>1, <1>2, <2>1, <2>2, DestroyingGood DEF Alike, Tracked
<1>3. CASE ~Tracked(s.windows[w])
  BY <1>1, <1>3, DestroyingGood DEF Tracked
<1> QED
  BY <1>2, <1>3

\* The destruction of a role object, mapped or not.
LEMMA GoneGood ==
  ASSUME NEW s, Good(s), NEW w \in Windows,
         s.windows[w].impl \in {"toplevel", "xwayland"}, NEW t \in Gone(s, w)
  PROVE  Good(t)
<1>1. CASE s.windows[w].surface = "mapped"
  BY <1>1, UnmapWindowGood, DestroyWindowGood DEF Gone
<1>2. CASE s.windows[w].surface # "mapped"
  BY <1>2, DestroyWindowGood DEF Gone
<1> QED
  BY <1>1, <1>2

-----------------------------------------------------------------------------
\* A step to a good program state establishes the invariant.
LEMMA BecomeGood ==
  ASSUME NEW s, Good(s), Become(s)
  PROVE  IInv'
<1>1. /\ s \in State /\ s.wm = wm' /\ s.windows = windows' /\ s.panic = panic'
  BY Facts DEF Become
<1>2. Current' \in State
  BY <1>1 DEF Current, State
<1>3. Current'.wm = s.wm /\ Current'.windows = s.windows /\ Current'.panic = s.panic
  BY <1>1 DEF Current
<1>4. Base(Current')
  BY <1>2, <1>3 DEF Good, Base
<1>5. AwaitedOf(Current') = AwaitedOf(s)
  BY <1>3 DEF AwaitedOf
<1>6. Good(Current')
  BY <1>3, <1>4, <1>5 DEF Good, Counts
<1> QED
  BY <1>6 DEF IInv, Good, Base, Counts, AwaitedOf, Current, State

\* No window exists.
LEMMA InitGood == Init => IInv
<1> SUFFICES ASSUME Init PROVE Good(Current)
  BY DEF IInv
<1>1. Current.wm \in WmType /\ WmInv(Current.wm) /\ Woken(Current.wm)
      /\ Current.wm.state = "idle"
  BY DEF Init, Current, WmType, WmInv, Woken, AnyDirty
<1>2. Current.windows \in [Windows -> WindowType]
      /\ \A w \in Windows : WindowInv(Current.wm, Current.windows[w])
  <2>1. Current.windows = [w \in Windows |-> Free]
    BY DEF Init, Current
  <2> QED
    BY <2>1, FreeWindow
<1>3. Current \in State /\ Current.panic = FALSE
  BY <1>1, <1>2 DEF Init, Current, State
<1> QED
  BY <1>1, <1>2, <1>3 DEF Good, Base, Counts

\* A source queued by an idle callback is as good as one queued by a client.
LEMMA DrainedGood ==
  ASSUME NEW s, Good(s)
  PROVE  Good([s EXCEPT !.wm.dirty_idle = IF @ = "queued" THEN "draining" ELSE @])
<1> DEFINE d == IF s.wm.dirty_idle = "queued" THEN "draining" ELSE s.wm.dirty_idle
           t == [s EXCEPT !.wm.dirty_idle = d]
<1>1. /\ s \in State /\ s.wm \in WmType /\ s.windows \in [Windows -> WindowType]
      /\ s.panic = FALSE /\ WmInv(s.wm) /\ Woken(s.wm)
  BY Facts
<1>2. d \in {"null", "queued", "draining"} /\ (d = "null" <=> s.wm.dirty_idle = "null")
  BY <1>1 DEF WmType
<1> HIDE DEF d
<1>3. t \in State /\ t.windows = s.windows /\ t.panic = FALSE
      /\ t.wm = [s.wm EXCEPT !.dirty_idle = d]
  BY <1>1, <1>2 DEF State, WmType
<1>4. WmInv(t.wm) /\ Woken(t.wm) /\ t.wm.state = s.wm.state /\ t.wm.dirty = s.wm.dirty
      /\ t.wm.timeout = s.wm.timeout
      /\ t.wm.inflight_configures = s.wm.inflight_configures
  BY <1>1, <1>2, <1>3 DEF WmInv, Woken, AnyDirty, WmType
<1> HIDE DEF t
<1>5. Good(t)
  BY <1>1, <1>3, <1>4, ReplaceWm
<1> QED
  BY <1>5 DEF t, d

\* The invariant, unfolded.
LEMMA CurrentFacts ==
  ASSUME IInv
  PROVE  /\ Good(Current) /\ Current \in State
         /\ Current.wm \in WmType /\ Current.windows \in [Windows -> WindowType]
         /\ Current.panic = FALSE /\ WmInv(Current.wm) /\ Woken(Current.wm)
         /\ Current.wm = wm /\ Current.windows = windows
         /\ \A w \in Windows : WindowInv(Current.wm, Current.windows[w])
<1>1. Good(Current)
  BY DEF IInv
<1> QED
  BY <1>1, Facts DEF Current

\* The idle callback.
LEMMA DirtyIdleStep == IInv /\ DirtyIdle => IInv'
<1> SUFFICES ASSUME IInv, DirtyIdle PROVE IInv'
  OBVIOUS
<1> DEFINE c == Current
           p == ~AnyDirty(wm)
           s == [c EXCEPT !.wm.dirty_idle = "null", !.panic = p]
           u == [s EXCEPT !.wm.dirty_lazy = FALSE]
<1>1. /\ c \in State /\ c.wm \in WmType /\ c.windows \in [Windows -> WindowType]
      /\ c.panic = FALSE /\ WmInv(c.wm) /\ Counts(c) /\ c.wm = wm
      /\ \A w \in Windows : WindowInv(c.wm, c.windows[w])
  BY CurrentFacts DEF Good
<1>2. p = FALSE
  BY <1>1 DEF DirtyIdle, WmInv
<1>3. PICK t \in CASE wm.state # "idle" -> {s}
                   [] wm.state = "idle" /\ wm.rendering_dirty -> RenderStart(s)
                   [] wm.state = "idle" /\ ~wm.rendering_dirty -> ManageStart(u) :
        Become([t EXCEPT !.wm.dirty_idle = IF @ = "queued" THEN "draining" ELSE @])
  BY DEF DirtyIdle
<1> HIDE DEF c, p
<1>4. /\ s \in State /\ s.windows = c.windows /\ s.panic = FALSE
      /\ s.wm = [c.wm EXCEPT !.dirty_idle = "null"]
  BY <1>1, <1>2 DEF State, WmType
<1> HIDE DEF s
<1>5. WmInv(s.wm) /\ s.wm.state = c.wm.state /\ s.wm.dirty = c.wm.dirty
      /\ s.wm.timeout = c.wm.timeout /\ s.wm.dirty_idle = "null"
      /\ s.wm.inflight_configures = c.wm.inflight_configures
  BY <1>1, <1>4 DEF WmInv, WmType
<1>6. Base(s)
  BY <1>1, <1>4, <1>5, Keep DEF Base
<1>7. Good(t)
  <2>1. CASE wm.state # "idle"
    <3>1. t = s /\ AwaitedOf(s) = AwaitedOf(c)
      BY <1>3, <1>4, <2>1 DEF AwaitedOf
    <3> QED
      BY <1>1, <1>5, <1>6, <2>1, <3>1 DEF Good, Woken, Counts
  <2>2. CASE wm.state = "idle" /\ wm.rendering_dirty
    BY <1>1, <1>3, <1>5, <1>6, <2>2, RenderStartGood DEF WmInv
  <2>3. CASE wm.state = "idle" /\ ~wm.rendering_dirty
    <3>1. /\ u \in State /\ u.windows = s.windows /\ u.panic = FALSE
          /\ u.wm = [s.wm EXCEPT !.dirty_lazy = FALSE]
      BY <1>4 DEF State, WmType
    <3>2. WmInv(u.wm) /\ u.wm.state = s.wm.state /\ u.wm.dirty = s.wm.dirty
      BY <1>4, <1>5, <3>1 DEF WmInv, WmType, State
    <3> HIDE DEF u
    <3>3. Base(u)
      BY <1>6, <3>1, <3>2, Keep DEF Base
    <3>4. t \in ManageStart(u) /\ u.wm.state = "idle"
      BY <1>1, <1>3, <1>5, <2>3, <3>2
    <3> QED
      BY <3>3, <3>4, ManageStartGood
  <2> QED
    BY <2>1, <2>2, <2>3
<1> QED
  BY <1>3, <1>7, DrainedGood, BecomeGood

\* The window manager client goes away: its sequence is finished for it, from a
\* state u in which no window has a policy object.
LEMMA WmGoneIs ==
  ASSUME NEW s, Good(s), NEW t \in WmGone(s)
  PROVE  \E u :
           /\ Good(u) /\ u.wm.state = s.wm.state
           /\ \A w \in Windows :
                /\ u.windows[w].listed = s.windows[w].listed
                /\ u.windows[w].configure_state = s.windows[w].configure_state
                /\ u.windows[w].state = s.windows[w].state
           /\ \/ s.wm.state = "manage" /\ t \in ManageFinish(u)
              \/ s.wm.state = "render" /\ t \in RenderFinish(u)
              \/ s.wm.state \in {"idle", "inflight_configures"} /\ t = u
<1> DEFINE had == \E w \in Windows : s.windows[w].object
           n == [s.wm EXCEPT !.object = FALSE]
           m == IF had THEN DirtyWindowing(n) ELSE n
           ws == [w \in Windows |-> [s.windows[w] EXCEPT !.object = FALSE]]
           u == [s EXCEPT !.wm = IF had THEN DirtyWindowing([@ EXCEPT !.object = FALSE])
                                ELSE [@ EXCEPT !.object = FALSE],
                          !.windows = [w \in Windows |-> [@[w] EXCEPT !.object = FALSE]]]
<1>1. /\ s \in State /\ s.wm \in WmType /\ s.windows \in [Windows -> WindowType]
      /\ s.panic = FALSE /\ WmInv(s.wm) /\ Woken(s.wm) /\ Counts(s)
      /\ \A w \in Windows : WindowInv(s.wm, s.windows[w])
  BY Facts
<1>2. /\ m \in WmType /\ WmInv(m) /\ Woken(m)
      /\ m.state = s.wm.state /\ m.timeout = s.wm.timeout
      /\ m.inflight_configures = s.wm.inflight_configures
      /\ s.wm.dirty => m.dirty
  <2>1. /\ n \in WmType /\ WmInv(n) /\ Woken(n)
        /\ n.state = s.wm.state /\ n.timeout = s.wm.timeout
        /\ n.inflight_configures = s.wm.inflight_configures
        /\ s.wm.dirty = n.dirty
    BY <1>1 DEF WmType, WmInv, Woken, AnyDirty
  <2> HIDE DEF n, had
  <2> QED
    BY <2>1, Dirtied
<1>3. ASSUME NEW w \in Windows
      PROVE  /\ ws[w] \in WindowType /\ WindowInv(m, ws[w])
             /\ ws[w].listed = s.windows[w].listed
             /\ ws[w].configure_state = s.windows[w].configure_state
             /\ ws[w].state = s.windows[w].state
  <2> DEFINE r == s.windows[w]
             q == [r EXCEPT !.object = FALSE]
  <2>1. ws[w] = q /\ r \in WindowType /\ WindowInv(s.wm, r)
    BY <1>1
  <2> HIDE DEF ws, r, m
  <2>2. /\ q \in WindowType /\ q.listed = r.listed
        /\ q.configure_state = r.configure_state /\ q.state = r.state
    BY <2>1 DEF WindowType
  <2>3. LifeInv(q)
    BY <2>1 DEF WindowType, WindowInv, LifeInv
  <2>4. ConfigureInv(m, q) /\ DirtyInv(m, q)
    BY <1>2, <2>1 DEF WindowType, Tracked, WindowInv, ConfigureInv, DirtyInv
  <2> QED
    BY <2>1, <2>2, <2>3, <2>4 DEF WindowInv, r
<1>4. t \in CASE s.wm.state = "manage" -> ManageFinish(u)
              [] s.wm.state = "render" -> RenderFinish(u)
              [] s.wm.state \in {"idle", "inflight_configures"} -> {u}
  BY DEF WmGone
<1>5. u.wm = m /\ u.windows = ws /\ u.panic = FALSE
  BY <1>1 DEF State
<1>6. ws \in [Windows -> WindowType]
  BY <1>3
<1>7. u \in State
  <2> DEFINE v == [s EXCEPT !.wm = m, !.windows = ws]
  <2>1. u = v
    OBVIOUS
  <2> HIDE DEF m, ws, u
  <2> QED
    BY <1>1, <1>2, <1>6, <2>1 DEF State
<1> HIDE DEF m, ws, u
<1>8. Base(u)
  BY <1>2, <1>3, <1>5, <1>7 DEF Base
<1>9. Good(u)
  <2>1. AwaitedOf(u) = AwaitedOf(s)
    BY <1>3, <1>5 DEF AwaitedOf, Tracked
  <2> QED
    BY <1>1, <1>2, <1>5, <1>8, <2>1 DEF Good, Counts
<1>10. s.wm.state \in {"idle", "manage", "inflight_configures", "render"} /\ u.wm.state = s.wm.state
  BY <1>1, <1>2, <1>5 DEF WmType
<1>11. \A w \in Windows :
         /\ u.windows[w].listed = s.windows[w].listed
         /\ u.windows[w].configure_state = s.windows[w].configure_state
         /\ u.windows[w].state = s.windows[w].state
  BY <1>3, <1>5
<1> QED
  BY <1>4, <1>9, <1>10, <1>11

\* What it leaves is good.
LEMMA WmGoneGood ==
  ASSUME NEW s, Good(s), NEW t \in WmGone(s)
  PROVE  Good(t)
BY WmGoneIs, ManageFinishGood, RenderFinishGood DEF Good

\* The deadline.
LEMMA HandleTimeoutStep == IInv /\ HandleTimeout => IInv'
<1> SUFFICES ASSUME IInv, HandleTimeout PROVE IInv'
  OBVIOUS
<1> DEFINE c == Current
           s == [c EXCEPT !.wm.timeout = FALSE]
           p == wm.inflight_configures = 0
           u == [s EXCEPT !.wm.inflight_configures = 0, !.panic = p]
           v == [s EXCEPT !.panic = TRUE]
<1>1. /\ c \in State /\ c.wm \in WmType /\ c.windows \in [Windows -> WindowType]
      /\ c.panic = FALSE /\ WmInv(c.wm) /\ Woken(c.wm) /\ Counts(c) /\ c.wm = wm
      /\ \A w \in Windows : WindowInv(c.wm, c.windows[w])
  BY CurrentFacts DEF Good
<1>2. PICK t \in CASE wm.state = "inflight_configures" -> RenderStart(u)
                   [] wm.state \in {"manage", "render"} ->
                        IF wm.object THEN WmGone(s) ELSE {s}
                   [] wm.state = "idle" -> {v} :
        Become(t)
  BY DEF HandleTimeout
<1>3. wm.timeout
  BY DEF HandleTimeout
<1> HIDE DEF c, v, p
<1>4. /\ s \in State /\ s.windows = c.windows /\ s.panic = FALSE
      /\ s.wm = [c.wm EXCEPT !.timeout = FALSE]
  BY <1>1 DEF State, WmType
<1> HIDE DEF s
<1>5. WmInv(s.wm) /\ Woken(s.wm) /\ s.wm.state = c.wm.state /\ s.wm.dirty = c.wm.dirty
      /\ s.wm.inflight_configures = c.wm.inflight_configures
  BY <1>1, <1>4 DEF WmInv, Woken, AnyDirty, WmType
<1>6. Base(s)
  BY <1>1, <1>4, <1>5, Keep DEF Base
<1>7. CASE wm.state = "inflight_configures"
  <2>1. p = FALSE
    <3>1. c.wm.inflight_configures = Cardinality(AwaitedOf(c)) /\ AwaitedOf(c) # {}
      BY <1>1, <1>7 DEF Counts
    <3>2. Cardinality(AwaitedOf(c)) # 0
      BY <3>1, AwaitedFinite, FS_EmptySet
    <3> QED
      BY <1>1, <3>1, <3>2 DEF p
  <2>2. /\ u \in State /\ u.windows = s.windows /\ u.panic = FALSE
        /\ u.wm = [s.wm EXCEPT !.inflight_configures = 0]
    BY <1>4, <2>1 DEF State, WmType
  <2> HIDE DEF u
  <2>3. WmInv(u.wm) /\ u.wm.state = s.wm.state /\ u.wm.dirty = s.wm.dirty
        /\ u.wm.inflight_configures = 0
    BY <1>4, <1>5, <2>2 DEF WmInv, AnyDirty, WmType, State
  <2>4. Base(u)
    BY <1>6, <2>2, <2>3, Keep DEF Base
  <2> QED
    BY <1>2, <1>7, <2>3, <2>4, RenderStartGood, BecomeGood
<1>8. CASE wm.state \in {"manage", "render"}
  <2>1. Good(s)
    BY <1>1, <1>5, <1>6, <1>8 DEF Good, Counts
  <2> QED
    BY <1>2, <1>8, <2>1, WmGoneGood, BecomeGood
<1>9. wm.state # "idle" /\ wm \in WmType
  BY <1>1, <1>3 DEF WmInv
<1> QED
  BY <1>7, <1>8, <1>9 DEF WmType

\* Steps that change nothing but the flags or the client of the window manager.
LEMMA DirtiedGood ==
  ASSUME NEW s, Good(s), NEW n \in WmType, WmInv(n), Woken(n),
         n.state = s.wm.state, n.timeout = s.wm.timeout,
         n.inflight_configures = s.wm.inflight_configures, s.wm.dirty => n.dirty,
         NEW t, t = [s EXCEPT !.wm = n]
  PROVE  Good(t)
<1>1. s \in State /\ s.panic = FALSE
  BY Facts
<1>2. t \in State /\ t.wm = n /\ t.windows = s.windows /\ t.panic = FALSE
  BY <1>1 DEF State
<1> QED
  BY <1>2, ReplaceWm

\* Something dirties the windowing state.
LEMMA RequestManageStep == IInv /\ RequestManage => IInv'
<1> SUFFICES ASSUME IInv, RequestManage PROVE IInv'
  OBVIOUS
<1> DEFINE c == Current
           n == DirtyWindowing(c.wm)
<1>1. Become([c EXCEPT !.wm = n])
  BY DEF RequestManage
<1>2. /\ n \in WmType /\ WmInv(n) /\ Woken(n) /\ n.state = c.wm.state
      /\ n.timeout = c.wm.timeout
      /\ n.inflight_configures = c.wm.inflight_configures
      /\ c.wm.dirty => n.dirty
  BY CurrentFacts, Dirtied
<1>3. Good(c)
  BY CurrentFacts
<1> DEFINE t == [c EXCEPT !.wm = n]
<1>4. t = [c EXCEPT !.wm = n]
  OBVIOUS
<1> HIDE DEF n, c, t
<1>5. Good(t)
  BY <1>2, <1>3, <1>4, DirtiedGood
<1> QED
  BY <1>1, <1>4, <1>5, BecomeGood

\* The client asks for a manage sequence.
LEMMA WmManageDirtyStep == IInv /\ WmManageDirty => IInv'
<1> SUFFICES ASSUME IInv, WmManageDirty PROVE IInv'
  OBVIOUS
<1> DEFINE c == Current
           n == DirtyWindowingLazy(c.wm)
<1>1. Become([c EXCEPT !.wm = n])
  BY DEF WmManageDirty
<1>2. /\ n \in WmType /\ WmInv(n) /\ Woken(n) /\ n.state = c.wm.state
      /\ n.timeout = c.wm.timeout
      /\ n.inflight_configures = c.wm.inflight_configures
      /\ c.wm.dirty => n.dirty
  BY CurrentFacts, Dirtied
<1>3. Good(c)
  BY CurrentFacts
<1> DEFINE t == [c EXCEPT !.wm = n]
<1>4. t = [c EXCEPT !.wm = n]
  OBVIOUS
<1> HIDE DEF n, c, t
<1>5. Good(t)
  BY <1>2, <1>3, <1>4, DirtiedGood
<1> QED
  BY <1>1, <1>4, <1>5, BecomeGood

\* A window manager client binds.
LEMMA BindStep == IInv /\ Bind => IInv'
<1> SUFFICES ASSUME IInv, Bind PROVE IInv'
  OBVIOUS
<1> DEFINE c == Current
           b == [c.wm EXCEPT !.object = TRUE]
           n == DirtyWindowing(b)
<1>1. Become([c EXCEPT !.wm = n])
  BY DEF Bind
<1>2. /\ b \in WmType /\ WmInv(b) /\ b.state = c.wm.state
      /\ b.timeout = c.wm.timeout
      /\ b.inflight_configures = c.wm.inflight_configures /\ c.wm.dirty = b.dirty
  BY CurrentFacts DEF WmType, WmInv, AnyDirty
<1> HIDE DEF b
<1>3. /\ n \in WmType /\ WmInv(n) /\ Woken(n) /\ n.state = c.wm.state
      /\ n.timeout = c.wm.timeout
      /\ n.inflight_configures = c.wm.inflight_configures
      /\ c.wm.dirty => n.dirty
  BY <1>2, Dirtied
<1>4. Good(c)
  BY CurrentFacts
<1> DEFINE t == [c EXCEPT !.wm = n]
<1>5. t = [c EXCEPT !.wm = n]
  OBVIOUS
<1> HIDE DEF n, c, t
<1>6. Good(t)
  BY <1>3, <1>4, <1>5, DirtiedGood
<1> QED
  BY <1>1, <1>5, <1>6, BecomeGood

\* The client sends `stop`; the sequence it leaves is still counted right.
LEMMA WmStopStep == IInv /\ WmStop => IInv'
<1> SUFFICES ASSUME IInv, WmStop PROVE IInv'
  OBVIOUS
<1> DEFINE c == Current
           n == [c.wm EXCEPT !.object = FALSE]
           t == [c EXCEPT !.wm.object = FALSE]
<1>1. Become(t)
  BY DEF WmStop
<1>2. /\ n \in WmType /\ WmInv(n) /\ Woken(n) /\ n.state = c.wm.state
      /\ n.timeout = c.wm.timeout
      /\ n.inflight_configures = c.wm.inflight_configures /\ c.wm.dirty = n.dirty
  BY CurrentFacts DEF WmType, WmInv, Woken, AnyDirty
<1>3. t = [c EXCEPT !.wm = n]
  OBVIOUS
<1> HIDE DEF n, c, t
<1>4. Good(c)
  BY CurrentFacts DEF c
<1>5. Good(t)
  BY <1>2, <1>3, <1>4, DirtiedGood
<1> QED
  BY <1>1, <1>5, BecomeGood

\* The window manager client finishes a sequence, or is gone.
LEMMA WmFinishSteps ==
  IInv /\ (WmManageFinish \/ WmRenderFinish \/ WmDestroyed) => IInv'
<1> SUFFICES ASSUME IInv, WmManageFinish \/ WmRenderFinish \/ WmDestroyed PROVE IInv'
  OBVIOUS
<1>1. Good(Current) /\ Base(Current) /\ Current.wm = wm
  BY CurrentFacts DEF Good
<1>2. CASE WmManageFinish
  BY <1>1, <1>2, ManageFinishGood, BecomeGood DEF WmManageFinish
<1>3. CASE WmRenderFinish
  BY <1>1, <1>3, RenderFinishGood, BecomeGood DEF WmRenderFinish
<1>4. CASE WmDestroyed
  BY <1>1, <1>4, WmGoneGood, BecomeGood DEF WmDestroyed
<1> QED
  BY <1>2, <1>3, <1>4

-----------------------------------------------------------------------------
\* A step that replaces the record of one window.
LEMMA WindowStep ==
  ASSUME IInv, NEW w \in Windows, NEW q \in WindowType, NEW n \in WmType,
         WmInv(n), Woken(n), n.state = wm.state, n.timeout = wm.timeout,
         n.inflight_configures = wm.inflight_configures, wm.dirty => n.dirty,
         WindowInv(n, q),
         q.listed /\ Tracked(q) <=> windows[w].listed /\ Tracked(windows[w]),
         NEW t \in State, t.wm = n, t.windows = [windows EXCEPT ![w] = q], t.panic = FALSE,
         Become(t)
  PROVE  IInv'
<1> DEFINE c == Current
<1>1. Good(c) /\ c.wm = wm /\ c.windows = windows
  BY CurrentFacts
<1> HIDE DEF c
<1>2. Good(t)
  BY <1>1, ReplaceWindow
<1> QED
  BY <1>2, BecomeGood

\* The client destroys one of its window objects.
LEMMA WindowObjectDestroyedStep ==
  ASSUME IInv, NEW w \in Windows, WindowObjectDestroyed(w)
  PROVE  IInv'
<1> DEFINE c == Current
           r == windows[w]
           n == DirtyWindowing(wm)
           q == [r EXCEPT !.object = FALSE]
           t == [c EXCEPT !.windows[w].object = FALSE, !.wm = DirtyWindowing(@)]
<1>1. /\ c \in State /\ c.wm = wm /\ c.windows = windows /\ c.panic = FALSE
      /\ wm \in WmType /\ WmInv(wm) /\ windows \in [Windows -> WindowType]
      /\ r \in WindowType /\ WindowInv(wm, r)
  BY CurrentFacts
<1>2. Become(t)
  BY DEF WindowObjectDestroyed
<1>3. /\ n \in WmType /\ WmInv(n) /\ Woken(n) /\ n.state = wm.state
      /\ n.timeout = wm.timeout
      /\ n.inflight_configures = wm.inflight_configures /\ n.dirty
  BY <1>1, Dirtied
<1> HIDE DEF c
<1>4. q \in WindowType /\ q.listed = r.listed /\ q.configure_state = r.configure_state
  BY <1>1 DEF WindowType
<1>5. t.wm = n /\ t.windows = [windows EXCEPT ![w] = q] /\ t.panic = FALSE
  BY <1>1 DEF State
<1> HIDE DEF n
<1>6. t \in State
  BY <1>1, <1>3, <1>4, <1>5 DEF State, n
<1>7. LifeInv(q)
  BY <1>1 DEF WindowType, WindowInv, LifeInv
<1>8. ConfigureInv(n, q) /\ DirtyInv(n, q)
  BY <1>1, <1>3 DEF WindowType, Tracked, WindowInv, ConfigureInv, DirtyInv
<1> HIDE DEF q, t
<1> QED
  BY <1>2, <1>3, <1>4, <1>5, <1>6, <1>7, <1>8, WindowStep DEF WindowInv, Tracked

\* A slot is taken by a new window.
LEMMA CreateStep ==
  ASSUME IInv, NEW w \in Windows, CreateToplevel(w) \/ CreateXwayland(w)
  PROVE  IInv'
<1> DEFINE c == Current
           r == windows[w]
<1>1. /\ c \in State /\ c.wm = wm /\ c.windows = windows /\ c.panic = FALSE
      /\ wm \in WmType /\ WmInv(wm) /\ windows \in [Windows -> WindowType]
      /\ r \in WindowType /\ WindowInv(wm, r) /\ Woken(wm)
  BY CurrentFacts
<1>2. PICK impl \in {"toplevel", "xwayland"} :
        Become([c EXCEPT !.windows[w].impl = impl, !.windows[w].surface = "created"])
  BY DEF CreateToplevel, CreateXwayland
<1>3. r.impl = "none"
  BY DEF CreateToplevel, CreateXwayland
<1> DEFINE q == [r EXCEPT !.impl = impl, !.surface = "created"]
           t == [c EXCEPT !.windows[w].impl = impl, !.windows[w].surface = "created"]
<1> HIDE DEF c
<1>4. q \in WindowType /\ q.listed = r.listed /\ q.configure_state = r.configure_state
  BY <1>1 DEF WindowType
<1>5. t.wm = wm /\ t.windows = [windows EXCEPT ![w] = q] /\ t.panic = FALSE
  BY <1>1 DEF State
<1>6. t \in State
  BY <1>1, <1>4, <1>5 DEF State
<1>7. LifeInv(q)
  BY <1>1, <1>3 DEF WindowType, WindowInv, LifeInv
<1>8. ConfigureInv(wm, q) /\ DirtyInv(wm, q)
  BY <1>1, <1>3 DEF WindowType, Tracked, WindowInv, LifeInv, ConfigureInv, DirtyInv
<1> HIDE DEF q, t
<1>9. Become(t)
  BY <1>2 DEF t
<1> DEFINE n == wm
<1>10. /\ n \in WmType /\ WmInv(n) /\ Woken(n) /\ n.state = wm.state
       /\ n.timeout = wm.timeout /\ n.inflight_configures = wm.inflight_configures
       /\ n.dirty = wm.dirty /\ WindowInv(n, q) /\ t.wm = n
  BY <1>1, <1>5, <1>7, <1>8 DEF WindowInv
<1> HIDE DEF n
<1> QED
  BY <1>4, <1>5, <1>6, <1>9, <1>10, WindowStep DEF Tracked

\* The first commit of a mapping, with the teardown of the previous one.
LEMMA InitialCommitStep ==
  ASSUME IInv, NEW w \in Windows, ~RemapInTransaction, InitialCommit(w)
  PROVE  IInv'
<1> DEFINE c == Current
           r == windows[w]
           fresh == IF r.state = "closing" THEN FinishUnmap(r) ELSE r
           q == [fresh EXCEPT !.state = "ready", !.surface = "committed"]
           n == DirtyWindowing(wm)
           p == fresh.state # "init"
           t == [c EXCEPT !.windows[w] = q, !.wm = DirtyWindowing(@), !.panic = p]
<1>1. /\ c \in State /\ c.wm = wm /\ c.windows = windows /\ c.panic = FALSE
      /\ wm \in WmType /\ WmInv(wm) /\ windows \in [Windows -> WindowType]
      /\ r \in WindowType /\ WindowInv(wm, r)
  BY CurrentFacts
<1>2. Become(t)
  BY DEF InitialCommit
<1>3. r.impl = "toplevel" /\ r.surface = "created" /\ ~Tracked(r)
      /\ r.configure_state # "committed"
  BY DEF InitialCommit, Tracked
<1>4. /\ n \in WmType /\ WmInv(n) /\ Woken(n) /\ n.state = wm.state
      /\ n.timeout = wm.timeout
      /\ n.inflight_configures = wm.inflight_configures /\ n.dirty
  BY <1>1, Dirtied
<1>5. /\ fresh \in WindowType /\ fresh.state = "init" /\ fresh.impl = "toplevel"
      /\ fresh.configure_state = r.configure_state /\ fresh.unacked = r.unacked
      /\ ~fresh.listed /\ ~fresh.object
  <2>1. CASE r.state = "closing"
    BY <1>1, <1>3, <2>1 DEF FinishUnmap, WindowType
  <2>2. CASE r.state # "closing"
    BY <1>1, <1>3, <2>2 DEF WindowInv, LifeInv
  <2> QED
    BY <2>1, <2>2
<1>6. r.unacked = {} /\ p = FALSE
  BY <1>1, <1>3, <1>5 DEF WindowInv, LifeInv, ConfigureInv, WindowType
<1> HIDE DEF c, fresh, p
<1>7. /\ q \in WindowType /\ q.state = "ready" /\ q.surface = "committed"
      /\ q.configure_state = r.configure_state /\ q.impl = "toplevel"
      /\ q.unacked = {}
  BY <1>5, <1>6 DEF WindowType
<1> HIDE DEF q
<1>8. t.wm = n /\ t.windows = [windows EXCEPT ![w] = q] /\ t.panic = FALSE
  BY <1>1, <1>6 DEF State
<1> HIDE DEF n
<1>9. t \in State
  BY <1>1, <1>4, <1>6, <1>7, <1>8 DEF State, n
<1>10. LifeInv(q)
  BY <1>7 DEF LifeInv
<1>11. ConfigureInv(n, q) /\ DirtyInv(n, q) /\ ~Tracked(q)
  BY <1>1, <1>3, <1>4, <1>7 DEF Tracked, ConfigureInv, DirtyInv
<1> HIDE DEF t, r
<1> QED
  BY <1>2, <1>3, <1>4, <1>7, <1>8, <1>9, <1>10, <1>11, WindowStep DEF WindowInv, r

\* An acknowledgement changes neither what is listed nor who is awaited.
LEMMA AckConfigureStep ==
  ASSUME IInv, NEW w \in Windows, NEW serial \in {"tracked", "other"}, AckConfigure(w, serial)
  PROVE  IInv'
<1> DEFINE c == Current
           r == windows[w]
           u == IF serial = "tracked" THEN {} ELSE r.unacked \ {serial}
           f == IF r.surface = "committed" THEN "configured" ELSE r.surface
           k == CASE serial = "tracked" /\ r.configure_state = "inflight" -> "acked"
                  [] serial = "tracked" /\ r.configure_state = "timed_out" -> "timed_out_acked"
                  [] OTHER -> r.configure_state
           q == [r EXCEPT !.unacked = u, !.surface = f, !.configure_state = k]
           t == [c EXCEPT !.windows[w].unacked = u, !.windows[w].surface = f,
                          !.windows[w].configure_state = k]
<1>1. /\ c \in State /\ c.wm = wm /\ c.windows = windows /\ c.panic = FALSE
      /\ wm \in WmType /\ WmInv(wm) /\ windows \in [Windows -> WindowType]
      /\ r \in WindowType /\ WindowInv(wm, r) /\ Woken(wm)
  BY CurrentFacts
<1>2. Become(t)
  BY <1>1 DEF AckConfigure
<1>3. r.impl = "toplevel" /\ serial \in r.unacked /\ r.state \in {"initialized", "mapped"}
  BY <1>1 DEF AckConfigure, WindowInv, ConfigureInv
<1>4. /\ u \in SUBSET {"tracked", "other"} /\ u \subseteq r.unacked
      /\ "tracked" \in u => k = r.configure_state
  BY <1>1 DEF WindowType
<1>5. /\ f \in {"none", "created", "committed", "configured", "mapped"}
      /\ f # r.surface => f = "configured" /\ r.surface = "committed"
      /\ f # "committed"
  BY <1>1 DEF WindowType
<1>6. /\ k \in ConfigureStates
      /\ k \in {"inflight", "acked"} <=> Tracked(r)
      /\ k = "committed" <=> r.configure_state = "committed"
  BY <1>1 DEF WindowType, ConfigureStates, Tracked
<1> HIDE DEF c, u, f, k
<1>7. q \in WindowType
  BY <1>1, <1>4, <1>5, <1>6 DEF WindowType
<1>8. t.wm = wm /\ t.windows = [windows EXCEPT ![w] = q] /\ t.panic = FALSE
  BY <1>1 DEF State
<1>9. t \in State
  BY <1>1, <1>7, <1>8 DEF State
<1>10. LifeInv(q)
  BY <1>1, <1>3, <1>5 DEF WindowType, WindowInv, LifeInv
<1>11. q.listed = r.listed /\ (Tracked(q) <=> Tracked(r))
  BY <1>1, <1>6 DEF WindowType, Tracked
<1>12. ConfigureInv(wm, q) /\ DirtyInv(wm, q)
  BY <1>1, <1>3, <1>4, <1>6, <1>11 DEF WindowType, WindowInv, ConfigureInv, DirtyInv
<1> HIDE DEF q, t
<1> DEFINE n == wm
<1>13. /\ n \in WmType /\ WmInv(n) /\ Woken(n) /\ n.state = wm.state
       /\ n.timeout = wm.timeout /\ n.inflight_configures = wm.inflight_configures
       /\ n.dirty = wm.dirty /\ WindowInv(n, q) /\ t.wm = n
  BY <1>1, <1>8, <1>10, <1>12 DEF WindowInv
<1> HIDE DEF n
<1> QED
  BY <1>2, <1>7, <1>8, <1>9, <1>11, <1>13, WindowStep

\* A commit of an XDG client.
LEMMA CommitStep ==
  ASSUME IInv, NEW w \in Windows, Commit(w)
  PROVE  IInv'
<1>1. Good(Current) /\ Current.windows = windows
  BY CurrentFacts
<1> QED
  BY <1>1, CommitWindowGood, BecomeGood DEF Commit

\* The commit that maps: its two listeners run in either order.
LEMMA MapStep ==
  ASSUME IInv, NEW w \in Windows, Map(w)
  PROVE  IInv'
<1> DEFINE c == Current
<1>1. Good(c) /\ c.windows = windows
  BY CurrentFacts
<1>2. /\ c.windows[w].impl = "toplevel" /\ c.windows[w].surface = "configured"
      /\ c.windows[w].state = "initialized"
  BY <1>1, CurrentFacts DEF Map, WindowInv, LifeInv
<1>3. PICK invalidates \in {"nothing", "windowing"}, manages \in BOOLEAN :
        \E t \in {MapWindow(u, w, manages) : u \in CommitWindow(c, w, invalidates)}
                \cup CommitWindow(MapWindow(c, w, manages), w, invalidates) : Become(t)
  BY DEF Map
<1> HIDE DEF c
<1>4. CASE \E u \in CommitWindow(c, w, invalidates) : Become(MapWindow(u, w, manages))
  <2>1. PICK u \in CommitWindow(c, w, invalidates) : Become(MapWindow(u, w, manages))
    BY <1>4
  <2>2. Good(u) /\ Alike(u.windows[w], c.windows[w])
    BY <1>1, <1>2, CommitWindowGood
  <2>3. Good(MapWindow(u, w, manages))
    BY <1>2, <2>2, MapWindowGood DEF Alike
  <2> QED
    BY <2>1, <2>3, BecomeGood
<1>5. CASE \E t \in CommitWindow(MapWindow(c, w, manages), w, invalidates) : Become(t)
  <2>1. Good(MapWindow(c, w, manages)) /\ MapWindow(c, w, manages).windows[w].impl = "toplevel"
    BY <1>1, <1>2, MapWindowGood
  <2> QED
    BY <1>5, <2>1, CommitWindowGood, BecomeGood
<1> QED
  BY <1>3, <1>4, <1>5

\* An X11 window maps.
LEMMA XwaylandMapStep ==
  ASSUME IInv, NEW w \in Windows, XwaylandMap(w)
  PROVE  IInv'
<1> DEFINE c == Current
           u == [c EXCEPT !.windows[w].state = "initialized"]
<1>1. Good(c) /\ c \in State /\ c.windows = windows
  BY CurrentFacts
<1>2. c.windows[w].impl = "xwayland" /\ c.windows[w].surface = "created"
  BY <1>1 DEF XwaylandMap
<1>3. Become(MapWindow(u, w, TRUE))
  BY DEF XwaylandMap
<1> HIDE DEF c
<1>4. u.windows[w].state = "initialized"
  BY <1>1 DEF State, WindowType
<1>5. Good(MapWindow(u, w, TRUE))
  BY <1>1, <1>2, <1>4, MapWindowGood
<1> QED
  BY <1>3, <1>5, BecomeGood

\* A commit of an X11 window.
LEMMA XwaylandCommitStep ==
  ASSUME IInv, NEW w \in Windows, XwaylandCommit(w)
  PROVE  IInv'
<1> DEFINE c == Current
<1>1. Good(c) /\ c.wm \in WmType /\ WmInv(c.wm) /\ Woken(c.wm)
  BY CurrentFacts
<1>2. PICK invalidates \in {"nothing", "rendering"} :
        Become([c EXCEPT !.wm = SetDimensions(c.wm, invalidates)])
  BY DEF XwaylandCommit
<1> HIDE DEF c
<1> DEFINE n == SetDimensions(c.wm, invalidates)
           t == [c EXCEPT !.wm = n]
<1>3. /\ n \in WmType /\ WmInv(n) /\ Woken(n) /\ n.state = c.wm.state
      /\ n.timeout = c.wm.timeout
      /\ n.inflight_configures = c.wm.inflight_configures
      /\ c.wm.dirty => n.dirty
  BY <1>1, Resized
<1>4. t = [c EXCEPT !.wm = n] /\ Become(t)
  BY <1>2
<1> HIDE DEF n, t
<1>5. Good(t)
  BY <1>1, <1>3, <1>4, DirtiedGood
<1> QED
  BY <1>4, <1>5, BecomeGood

\* Unmaps and destructions.
LEMMA UnmapAndDestroySteps ==
  ASSUME IInv, NEW w \in Windows,
         Unmap(w) \/ XwaylandUnmap(w) \/ DestroyToplevel(w) \/ XwaylandDestroy(w)
  PROVE  IInv'
<1>1. Good(Current) /\ Current.windows = windows
  BY CurrentFacts
<1>2. CASE Unmap(w) \/ XwaylandUnmap(w)
  BY <1>1, <1>2, UnmapWindowGood, BecomeGood DEF Unmap, XwaylandUnmap
<1>3. CASE DestroyToplevel(w) \/ XwaylandDestroy(w)
  BY <1>1, <1>3, GoneGood, BecomeGood DEF DestroyToplevel, XwaylandDestroy
<1> QED
  BY <1>2, <1>3

\* Every step keeps the invariant.
LEMMA NextStep == ASSUME Careful PROVE IInv /\ [Next]_vars => IInv'
<1> SUFFICES ASSUME IInv, [Next]_vars PROVE IInv'
  OBVIOUS
<1>1. CASE UNCHANGED vars
  <2>1. Become(Current) /\ Good(Current)
    BY <1>1, CurrentFacts DEF Become, Current, vars
  <2> QED
    BY <2>1, BecomeGood
<1>2. CASE DirtyIdle \/ HandleTimeout \/ RequestManage
  BY <1>2, DirtyIdleStep, HandleTimeoutStep, RequestManageStep
<1>3. CASE WmClient
  BY <1>3, BindStep, WmFinishSteps, WmManageDirtyStep, WmStopStep DEF WmClient
<1>4. ASSUME NEW w \in Windows, XdgClient(w) PROVE IInv'
  BY <1>4, CreateStep, InitialCommitStep, CommitStep, MapStep, UnmapAndDestroySteps,
     AckConfigureStep DEF XdgClient, Careful
<1>5. ASSUME NEW w \in Windows, XwaylandClient(w) PROVE IInv'
  BY <1>5, CreateStep, XwaylandMapStep, XwaylandCommitStep, UnmapAndDestroySteps
     DEF XwaylandClient
<1>6. ASSUME NEW w \in Windows, WindowObjectDestroyed(w) PROVE IInv'
  BY <1>6, WindowObjectDestroyedStep
<1> QED
  BY <1>1, <1>2, <1>3, <1>4, <1>5, <1>6 DEF Next

-----------------------------------------------------------------------------
\* The invariant holds in every reachable state.
THEOREM Invariance == ASSUME Careful PROVE Spec => []IInv
<1>1. Init => IInv
  BY InitGood
<1>2. IInv /\ [Next]_vars => IInv'
  BY NextStep
<1> QED
  BY <1>1, <1>2, PTL DEF Spec

\* Every variable keeps its type.
THEOREM TypeCorrect == ASSUME Careful PROVE Spec => []TypeOK
<1>1. IInv => TypeOK
  <2> SUFFICES ASSUME IInv PROVE TypeOK
    OBVIOUS
  <2>1. panic = FALSE
    BY CurrentFacts DEF Current
  <2> QED
    BY <2>1, CurrentFacts DEF TypeOK
<1> QED
  BY <1>1, Invariance, PTL

\* No assert and no `unreachable` of the frame transaction is reached.
THEOREM NothingUnreachable == ASSUME Careful PROVE Spec => []NoUnreachable
<1>1. IInv => NoUnreachable
  BY CurrentFacts DEF NoUnreachable, Current
<1> QED
  BY <1>1, Invariance, PTL

\* The one counter all clients decrement is the number of windows to wait for.
THEOREM CountExact == ASSUME Careful PROVE Spec => []CountIsExact
<1>1. IInv => CountIsExact
  <2> SUFFICES ASSUME IInv PROVE CountIsExact
    OBVIOUS
  <2>1. Counts(Current) /\ Current.wm = wm /\ Current.windows = windows
    BY CurrentFacts DEF Good
  <2>2. AwaitedOf(Current) = Awaited
    BY <2>1 DEF AwaitedOf, Awaited
  <2>3. \A w \in Windows : WindowInv(wm, windows[w])
    BY CurrentFacts
  <2> QED
    BY <2>1, <2>2, <2>3 DEF Counts, CountIsExact, WindowInv, ConfigureInv
<1> QED
  BY <1>1, Invariance, PTL

\* No dirty flag is left without a callback, no transaction without its timer.
THEOREM WakeupKept == ASSUME Careful PROVE Spec => []NoLostWakeup
<1>1. IInv => NoLostWakeup
  <2> SUFFICES ASSUME IInv PROVE NoLostWakeup
    OBVIOUS
  <2>1. Counts(Current) /\ Woken(wm) /\ Current.wm = wm
    BY CurrentFacts DEF Good
  <2> QED
    BY <2>1 DEF Counts, Woken, NoLostWakeup
<1> QED
  BY <1>1, Invariance, PTL

\* No dead window and no stashed frame is left without a manage sequence.
THEOREM FrozenScheduled == ASSUME Careful PROVE Spec => []FrozenFrameIsScheduled
<1>1. IInv => FrozenFrameIsScheduled
  BY CurrentFacts DEF FrozenFrameIsScheduled, WindowInv, DirtyInv
<1> QED
  BY <1>1, Invariance, PTL

\* An answer to another serial is never taken for the one awaited.
THEOREM Acknowledged == ASSUME Careful PROVE Spec => []AckedMeansAcked
<1>1. IInv => AckedMeansAcked
  BY CurrentFacts DEF AckedMeansAcked, WindowInv, ConfigureInv
<1> QED
  BY <1>1, Invariance, PTL
=============================================================================
