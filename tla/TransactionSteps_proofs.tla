---------------------- MODULE TransactionSteps_proofs -----------------------
(***************************************************************************)
(* What one step of the frame transaction may do, for any set of windows:  *)
(* the refinement of FrameTransaction, and the two action properties that  *)
(* go with it.  The invariant is that of Transaction_proofs.               *)
(*                                                                         *)
(* Handlers call each other, so a step is described by two relations on    *)
(* program states that the functions of Transaction compose to: Timely,    *)
(* what a step other than the deadline does to the phase, the windows      *)
(* awaited and those that are late, and Buries, what becomes of the        *)
(* windows that are closing.                                               *)
(***************************************************************************)
EXTENDS Transaction_proofs

LateOf(s) ==
  {w \in Windows : s.windows[w].configure_state \in {"timed_out", "timed_out_acked"}}

\* Nothing the abstract transaction speaks of has changed.
Same(s, t) ==
  t.wm.state = s.wm.state /\ AwaitedOf(t) = AwaitedOf(s) /\ LateOf(t) = LateOf(s)

\* A step of the abstract transaction that is not its deadline.
Timely(s, t) ==
  LET p == s.wm.state     q == t.wm.state
      a == AwaitedOf(s)   b == AwaitedOf(t)
  IN /\ LateOf(t) \subseteq LateOf(s)
     /\ \/ q = p /\ b = a
        \/ p = "idle" /\ q = "manage" /\ b = a
        \/ /\ p \in {"idle", "manage"} /\ q = "inflight_configures"
           /\ b # {} /\ LateOf(t) \cap b = {}
        \/ /\ p # "render" /\ q \in {"render", "idle"}
           /\ b = {} /\ \A v, w \in a : v = w
        \/ p = "render" /\ q = "idle" /\ b = a
        \/ /\ p = "inflight_configures" /\ q = p
           /\ \E w \in a : a # {w} /\ b = a \ {w} /\ LateOf(t) = LateOf(s)

\* A window that is closing stays so until it is torn down, and one that is torn
\* down stays so.
Buries(s, t) ==
  \A w \in Windows :
    /\ s.windows[w].state = "closing" => t.windows[w].state \in {"closing", "init"}
    /\ s.windows[w].state = "init" => t.windows[w].state = "init"

LEMMA BuriesCompose ==
  ASSUME NEW s, NEW t, NEW u, Buries(s, t), Buries(t, u)
  PROVE  Buries(s, u)
BY DEF Buries

LEMMA SameTimely ==
  ASSUME NEW r, NEW s, NEW t, NEW u, Same(r, s), Timely(s, t), Same(t, u)
  PROVE  Timely(r, u)
BY DEF Same, Timely

LEMMA SameIsTimely ==
  ASSUME NEW s, NEW t, Same(s, t)
  PROVE  Timely(s, t)
BY DEF Same, Timely

LEMMA SameCompose ==
  ASSUME NEW s, NEW t, NEW u, Same(s, t), Same(t, u)
  PROVE  Same(s, u)
BY DEF Same

LEMMA SameReflexive == \A s : Same(s, s) /\ Buries(s, s)
BY DEF Same, Buries

\* Only a transaction that runs awaits windows.
LEMMA NobodyAwaited ==
  ASSUME NEW s, Base(s), s.wm.state # "inflight_configures"
  PROVE  AwaitedOf(s) = {}
BY DEF Base, WindowInv, ConfigureInv, AwaitedOf

\* Windows that keep configure and place keep what they are to the transaction.
LEMMA SameWindows ==
  ASSUME NEW s, NEW t, t.wm.state = s.wm.state,
         \A w \in Windows :
           /\ t.windows[w].listed = s.windows[w].listed
           /\ t.windows[w].configure_state = s.windows[w].configure_state
  PROVE  Same(s, t)
BY DEF Same, AwaitedOf, LateOf, Tracked

-----------------------------------------------------------------------------
\* The sequences, last part first.
LEMMA RenderFinishMoves ==
  ASSUME NEW s, Base(s), s.wm.state = "render", NEW t \in RenderFinish(s)
  PROVE  t.wm.state = "idle" /\ LateOf(t) \subseteq LateOf(s) /\ Buries(s, t)
<1>1. PICK redirty \in BOOLEAN : t = RenderFinished(s, redirty)
  BY DEF RenderFinish
<1>2. t.wm.state = "idle"
  BY <1>1 DEF RenderFinished, DirtyWindowing, AddDirtyIdle, Base, State, WmType
<1>3. ASSUME NEW w \in Windows
      PROVE  LET q == t.windows[w]  r == s.windows[w]
             IN /\ q.configure_state \in {"idle", r.configure_state}
                /\ q.state = r.state
  <2>1. t.windows[w] = RenderFinishWindow(s.windows[w]) /\ s.windows[w] \in WindowType
    BY <1>1 DEF RenderFinished, Base, State
  <2> DEFINE r == s.windows[w]
  <2> HIDE DEF r
  <2>2. \/ RenderFinishWindow(r) = Free /\ r.state = "init"
        \/ RenderFinishWindow(r) = [r EXCEPT !.saved = @ /\ r.state = "closing"]
    BY DEF RenderFinishWindow
  <2>3. r \in WindowType BY <2>1 DEF r
  <2>4. /\ RenderFinishWindow(r).configure_state \in {"idle", r.configure_state}
        /\ RenderFinishWindow(r).state = r.state
    BY <2>2, <2>3 DEF Free, WindowType
  <2> QED BY <2>1, <2>4 DEF r
<1> QED BY <1>2, <1>3 DEF LateOf, Buries

LEMMA RenderStartMoves ==
  ASSUME NEW s, Base(s), s.wm.inflight_configures = 0, NEW t \in RenderStart(s)
  PROVE  /\ t.wm.state \in {"render", "idle"}
         /\ LateOf(t) \subseteq LateOf(s) \cup AwaitedOf(s)
         /\ Buries(s, t)
<1> DEFINE u == RenderStarted(s)
           v == [u EXCEPT !.wm.timeout = TRUE]
<1>1. Base(u) /\ u.wm.state = "render"
  BY RenderStartedGood
<1>2. ASSUME NEW w \in Windows
      PROVE  /\ u.windows[w].state = s.windows[w].state
             /\ w \in LateOf(u) => w \in LateOf(s) \cup AwaitedOf(s)
  <2> DEFINE r == s.windows[w]
             q == u.windows[w]
  <2>1. q = RenderStartWindow(r) /\ r \in WindowType
    BY DEF RenderStarted, Base, State
  <2> HIDE DEF q, r
  <2>2. /\ q.state = r.state
        /\ q.configure_state \in {"timed_out", "timed_out_acked"} =>
             \/ r.configure_state \in {"timed_out", "timed_out_acked"}
             \/ r.listed /\ Tracked(r)
    BY <2>1 DEF RenderStartWindow, WindowType, ConfigureStates, Tracked
  <2> QED BY <2>2 DEF LateOf, AwaitedOf, q, r
<1>3. Buries(s, u) /\ LateOf(u) \subseteq LateOf(s) \cup AwaitedOf(s)
  BY <1>2 DEF Buries, LateOf
<1>4. t \in IF u.wm.object THEN {v} ELSE RenderFinish(u)
  BY DEF RenderStart
<1> HIDE DEF u
<1>5. CASE t = v
  <2>1. t.wm.state = "render" /\ t.windows = u.windows
    BY <1>1, <1>5 DEF Base, State, WmType
  <2> QED BY <1>3, <2>1 DEF Buries, LateOf
<1>6. CASE t \in RenderFinish(u)
  BY <1>1, <1>3, <1>6, RenderFinishMoves, BuriesCompose
<1> QED BY <1>4, <1>5, <1>6

\* The configures of a manage sequence: what one window is asked.
LEMMA ManageFinishWindowMoves ==
  ASSUME NEW r \in WindowType, NEW ask \in Ask
  PROVE  LET q == ManageFinishWindow(r, ask)
         IN /\ q.configure_state \in {"timed_out", "timed_out_acked"} =>
                 r.configure_state \in {"timed_out", "timed_out_acked"}
            /\ r.state \in {"closing", "init"} => q.state = r.state
<1>1. CASE ~Configured(r, ask)
  BY <1>1 DEF ManageFinishWindow
<1>2. CASE Configured(r, ask)
  <2> DEFINE c == IF r.impl = "toplevel" THEN Configure(r, ask) ELSE r
             b == c.saved \/ (Awaits(r, ask) /\ r.state = "mapped" /\ Sized(ask))
  <2>1. r.state \notin {"closing", "init"}
    BY <1>2 DEF Configured, Active
  <2>2. /\ c.configure_state \in {"timed_out", "timed_out_acked"} =>
             r.configure_state \in {"timed_out", "timed_out_acked"}
        /\ DOMAIN c = DOMAIN r
    BY DEF Configure, WindowType, ConfigureStates, Ask
  <2>3. ManageFinishWindow(r, ask) =
          [c EXCEPT !.state = IF @ = "ready" THEN "initialized" ELSE @, !.saved = b]
    BY <1>2 DEF ManageFinishWindow
  <2> HIDE DEF b, c
  <2>4. ManageFinishWindow(r, ask).configure_state = c.configure_state
    BY <2>2, <2>3 DEF WindowType
  <2> QED BY <2>1, <2>2, <2>4
<1> QED BY <1>1, <1>2

LEMMA SentMoves ==
  ASSUME NEW s, Base(s), NEW asks \in Asks(s.windows)
  PROVE  LateOf(Sent(s, asks)) \subseteq LateOf(s) /\ Buries(s, Sent(s, asks))
<1>1. ASSUME NEW w \in Windows
      PROVE  LET q == Sent(s, asks).windows[w]  r == s.windows[w]
             IN /\ q.configure_state \in {"timed_out", "timed_out_acked"} =>
                     r.configure_state \in {"timed_out", "timed_out_acked"}
                /\ r.state \in {"closing", "init"} => q.state = r.state
  <2>1. s.windows[w] \in WindowType /\ asks[w] \in Ask
    BY DEF Base, State, Asks
  <2>2. Sent(s, asks).windows[w] = ManageFinishWindow(s.windows[w], asks[w])
    BY DEF Sent
  <2> QED BY <2>1, <2>2, ManageFinishWindowMoves
<1> QED BY <1>1 DEF LateOf, Buries

\* How a manage sequence ends: it waits for windows or shows the frame.
Sends(s, t) ==
  /\ LateOf(t) \subseteq LateOf(s)
  /\ Buries(s, t)
  /\ \/ /\ t.wm.state = "inflight_configures"
        /\ AwaitedOf(t) # {} /\ LateOf(t) \cap AwaitedOf(t) = {}
     \/ t.wm.state \in {"render", "idle"} /\ AwaitedOf(t) = {}

LEMMA ManageFinishMoves ==
  ASSUME NEW s, Base(s), s.wm.state = "manage", NEW t \in ManageFinish(s)
  PROVE  Sends(s, t)
<1>1. PICK asks \in Asks(s.windows) :
        t \in IF Sent(s, asks).wm.inflight_configures = 0
              THEN RenderStart(Sent(s, asks)) ELSE {Sent(s, asks)}
  BY DEF ManageFinish
<1> DEFINE u == Sent(s, asks)
<1>2. /\ Base(u) /\ u.wm.state = "inflight_configures"
      /\ u.wm.inflight_configures = Cardinality(AwaitedOf(u))
  BY SentGood
<1>3. LateOf(u) \subseteq LateOf(s) /\ Buries(s, u)
  BY SentMoves
<1> HIDE DEF u
<1>4. CASE u.wm.inflight_configures = 0
  <2>1. t \in RenderStart(u) BY <1>1, <1>4 DEF u
  <2>2. AwaitedOf(u) = {} BY <1>2, <1>4, AwaitedFinite, FS_EmptySet
  <2>3. /\ t.wm.state \in {"render", "idle"} /\ Buries(u, t)
        /\ LateOf(t) \subseteq LateOf(u) \cup AwaitedOf(u)
    BY <1>2, <1>4, <2>1, RenderStartMoves
  <2>4. Good(t) BY ManageFinishGood
  <2>5. AwaitedOf(t) = {} BY <2>3, <2>4, NobodyAwaited DEF Good
  <2> QED BY <1>3, <2>2, <2>3, <2>5, BuriesCompose DEF Sends
<1>5. CASE u.wm.inflight_configures # 0
  <2>1. t = u BY <1>1, <1>5 DEF u
  <2>2. AwaitedOf(u) # {} BY <1>2, <1>5, FS_EmptySet
  <2>3. LateOf(t) \cap AwaitedOf(t) = {} BY DEF LateOf, AwaitedOf, Tracked
  <2> QED BY <1>2, <1>3, <2>1, <2>2, <2>3 DEF Sends
<1> QED BY <1>4, <1>5

LEMMA ManageStartedMoves ==
  ASSUME NEW s, Base(s), s.wm.state = "idle"
  PROVE  LateOf(ManageStarted(s)) = LateOf(s) /\ Buries(s, ManageStarted(s))
<1>1. ASSUME NEW w \in Windows
      PROVE  LET q == ManageStarted(s).windows[w]  r == s.windows[w]
             IN /\ q.configure_state = r.configure_state
                /\ r.state = "closing" => q.state = "init"
                /\ r.state = "init" => q.state = "init"
  <2> DEFINE r == s.windows[w]
             e == s.wm.object
  <2>1. ManageStarted(s).windows[w] = ManageStartWindow(r, e) /\ r \in WindowType
    BY DEF ManageStarted, Base, State
  <2> HIDE DEF r, e
  <2>2. LET q == ManageStartWindow(r, e)
        IN /\ q.configure_state = r.configure_state
           /\ r.state = "closing" => q.state = "init"
           /\ r.state = "init" => q.state = "init"
    BY <2>1 DEF ManageStartWindow, FinishUnmap, WindowType
  <2> QED BY <2>1, <2>2 DEF r
<1> QED BY <1>1 DEF LateOf, Buries

LEMMA PlacedMoves ==
  ASSUME NEW s, Base(s), NEW placement
  PROVE  LateOf(Placed(s, placement)) = LateOf(s) /\ Buries(s, Placed(s, placement))
<1>1. ASSUME NEW w \in Windows
      PROVE  LET q == Placed(s, placement).windows[w]  r == s.windows[w]
             IN q.configure_state = r.configure_state /\ q.state = r.state
  <2> DEFINE r == s.windows[w]
             b == r.listed \/ w \in placement
  <2>1. r \in WindowType
    BY DEF Base, State
  <2>2. Placed(s, placement).windows[w] = [r EXCEPT !.listed = b]
    BY DEF Placed, Base, State
  <2> HIDE DEF r, b
  <2> QED BY <2>1, <2>2 DEF WindowType, r
<1> QED BY <1>1 DEF LateOf, Buries

LEMMA ManageStartMoves ==
  ASSUME NEW s, Base(s), s.wm.state = "idle", NEW t \in ManageStart(s)
  PROVE  \/ Sends(s, t)
         \/ /\ t.wm.state = "manage"
            /\ LateOf(t) \subseteq LateOf(s) /\ Buries(s, t)
<1> DEFINE u == ManageStarted(s)
           v == [u EXCEPT !.wm.timeout = TRUE]
<1>1. Base(u) /\ u.wm.state = "manage"
  BY ManageStartedGood
<1>2. LateOf(u) = LateOf(s) /\ Buries(s, u)
  BY ManageStartedMoves
<1>3. t \in IF u.wm.object THEN {v}
            ELSE UNION {ManageFinish(Placed(u, placement)) : placement \in Placements(u.windows)}
  BY DEF ManageStart
<1> HIDE DEF u
<1>4. CASE u.wm.object
  <2>1. t.wm.state = "manage" /\ t.windows = u.windows
    BY <1>1, <1>3, <1>4 DEF Base, State, WmType
  <2> QED BY <1>2, <2>1 DEF LateOf, Buries
<1>5. CASE ~u.wm.object
  <2>1. PICK placement \in Placements(u.windows) : t \in ManageFinish(Placed(u, placement))
    BY <1>3, <1>5
  <2> DEFINE x == Placed(u, placement)
  <2>2. Base(x) /\ x.wm.state = "manage"
    BY <1>1, PlacedGood
  <2>3. LateOf(x) = LateOf(u) /\ Buries(u, x)
    BY <1>1, PlacedMoves
  <2> HIDE DEF x
  <2>4. Sends(x, t)
    BY <2>1, <2>2, ManageFinishMoves DEF x
  <2> QED BY <1>2, <2>3, <2>4, BuriesCompose DEF Sends
<1> QED BY <1>4, <1>5

-----------------------------------------------------------------------------
\* An answer.  s is the state before it, r the record of the window that answers,
\* u the state in which it is not awaited any more but not counted yet.
LEMMA AnswerMoves ==
  ASSUME NEW s, Good(s), NEW w \in Windows, Tracked(s.windows[w]),
         NEW u, Answered(u), u.wm.state = s.wm.state,
         \A v \in Windows \ {w} : u.windows[v] = s.windows[v],
         u.windows[w].configure_state = "committed",
         NEW t \in NotifyConfigured(u)
  PROVE  Timely(s, t) /\ Buries(u, t)
<1>1. s.wm.state = "inflight_configures" /\ w \in AwaitedOf(s)
  BY Facts DEF WindowInv, ConfigureInv, AwaitedOf
<1>2. AwaitedOf(u) = AwaitedOf(s) \ {w} /\ LateOf(u) = LateOf(s)
  BY DEF AwaitedOf, LateOf, Tracked
<1>3. Good(t)
  BY NotifyConfiguredGood
<1>4. CASE u.wm.inflight_configures = 1
  <2> DEFINE x == [Counted(u) EXCEPT !.wm.timeout = FALSE]
  <2>1. Base(x) /\ x.wm.inflight_configures = 0 /\ x.windows = u.windows
    BY <1>4, CountedGood
  <2>2. t \in RenderStart(x)
    BY <1>1, <1>4 DEF NotifyConfigured
  <2> HIDE DEF x
  <2>3. AwaitedOf(u) = {}
    BY <1>4, AwaitedFinite, FS_EmptySet DEF Answered
  <2>4. AwaitedOf(x) = {} /\ LateOf(x) = LateOf(u) /\ Buries(u, x)
    BY <2>1, <2>3 DEF AwaitedOf, LateOf, Buries
  <2>5. /\ t.wm.state \in {"render", "idle"} /\ Buries(x, t)
        /\ LateOf(t) \subseteq LateOf(x)
    BY <2>1, <2>2, <2>4, RenderStartMoves
  <2>6. AwaitedOf(t) = {}
    BY <1>3, <2>5, NobodyAwaited DEF Good
  <2>7. \A v, x1 \in AwaitedOf(s) : v = x1
    BY <1>2, <2>3
  <2> QED BY <1>1, <1>2, <2>4, <2>5, <2>6, <2>7, BuriesCompose DEF Timely
<1>5. CASE u.wm.inflight_configures # 1
  <2>1. t = Counted(u)
    BY <1>1, <1>5, CountedGood DEF NotifyConfigured
  <2>2. t.windows = u.windows
    BY <1>5, <2>1, CountedGood
  <2>3. t.wm.state = "inflight_configures"
    BY <1>1, <2>1 DEF Counted, Answered, Base, State, WmType
  <2>4. AwaitedOf(t) = AwaitedOf(u) /\ LateOf(t) = LateOf(u) /\ Buries(u, t)
    BY <2>2 DEF AwaitedOf, LateOf, Buries
  <2>5. AwaitedOf(t) # {}
    BY <1>3, <2>3 DEF Good, Counts
  <2>6. AwaitedOf(s) # {w}
    BY <1>2, <2>4, <2>5
  <2> QED BY <1>1, <1>2, <2>3, <2>4, <2>6 DEF Timely
<1> QED BY <1>4, <1>5

\* A commit answers, catches up, or concerns nobody.
LEMMA CommitWindowMoves ==
  ASSUME NEW s, Good(s), NEW w \in Windows, s.windows[w].impl = "toplevel",
         NEW invalidates \in {"nothing", "rendering", "windowing"},
         NEW t \in CommitWindow(s, w, invalidates)
  PROVE  Timely(s, t) /\ Buries(s, t)
<1> DEFINE r == s.windows[w]
           m == SetDimensions(s.wm, invalidates)
           sized == [s EXCEPT !.wm = m]
           answered == [sized EXCEPT !.windows[w].configure_state = "committed"]
           late == [sized EXCEPT !.windows[w].configure_state = "idle",
                                 !.wm = DirtyRendering(@)]
<1>1. /\ s \in State /\ s.wm \in WmType /\ s.windows \in [Windows -> WindowType]
      /\ s.panic = FALSE /\ WindowInv(s.wm, r) /\ r \in WindowType /\ r.impl = "toplevel"
      /\ WmInv(s.wm)
  BY Facts
<1>2. /\ m \in WmType /\ WmInv(m) /\ Woken(m)
      /\ m.state = s.wm.state /\ m.timeout = s.wm.timeout
      /\ m.inflight_configures = s.wm.inflight_configures
      /\ s.wm.dirty => m.dirty
  BY <1>1, Facts, Resized
<1>3. \/ t = s
      \/ t = sized
      \/ r.configure_state = "acked" /\ t \in NotifyConfigured(answered)
      \/ r.configure_state = "timed_out_acked" /\ t = late
  BY <1>1 DEF CommitWindow, WindowType, ConfigureStates
<1> HIDE DEF m
<1>4. CASE t = s
  BY <1>4, SameReflexive, SameIsTimely
<1>5. CASE t = sized
  <2>1. sized.wm = m /\ sized.windows = s.windows
    BY <1>1, <1>2 DEF State
  <2> QED BY <1>2, <1>5, <2>1 DEF Timely, Buries, AwaitedOf, LateOf
<1>6. CASE r.configure_state = "acked" /\ t \in NotifyConfigured(answered)
  <2> DEFINE q == [r EXCEPT !.configure_state = "committed"]
  <2>1. q \in WindowType /\ ~Tracked(q) /\ Tracked(r) /\ q.configure_state = "committed"
        /\ q.state = r.state
    BY <1>1, <1>6 DEF WindowType, ConfigureStates, Tracked
  <2>2. /\ answered \in State /\ answered.wm = m /\ answered.panic = FALSE
        /\ answered.windows = [s.windows EXCEPT ![w] = q]
    BY <1>1, <1>2, <2>1 DEF State
  <2>3. LifeInv(q)
    BY <1>1 DEF WindowType, WindowInv, LifeInv
  <2>4. ConfigureInv(m, q) /\ DirtyInv(m, q)
    BY <1>1, <1>2, <1>6 DEF WindowType, Tracked, WindowInv, ConfigureInv, DirtyInv
  <2>5. answered.windows[w] = q /\ \A v \in Windows \ {w} : answered.windows[v] = s.windows[v]
    BY <1>1, <2>2
  <2> HIDE DEF q, answered, r
  <2>6. Answered(answered)
    BY <1>2, <2>1, <2>2, <2>3, <2>4, AnswerWindow DEF WindowInv, r
  <2>7. Timely(s, t) /\ Buries(answered, t)
    <3>1. /\ Tracked(s.windows[w]) /\ answered.wm.state = s.wm.state
          /\ answered.windows[w].configure_state = "committed"
          /\ t \in NotifyConfigured(answered)
      BY <1>2, <1>6, <2>1, <2>2, <2>5 DEF r
    <3> QED BY <2>5, <2>6, <3>1, AnswerMoves
  <2>8. Buries(s, answered)
    BY <2>1, <2>5 DEF Buries, r
  <2> QED BY <2>7, <2>8, BuriesCompose
<1>7. CASE r.configure_state = "timed_out_acked" /\ t = late
  <2> DEFINE q == [r EXCEPT !.configure_state = "idle"]
             n == DirtyRendering(m)
  <2>1. q.configure_state = "idle" /\ q.state = r.state /\ ~Tracked(q) /\ ~Tracked(r)
    BY <1>1, <1>7 DEF WindowType, Tracked
  <2>2. n.state = m.state
    BY <1>2, Dirtied
  <2>3. late.wm = n /\ late.windows = [s.windows EXCEPT ![w] = q]
    BY <1>1, <1>2 DEF State
  <2>4. late.windows[w] = q /\ \A v \in Windows \ {w} : late.windows[v] = s.windows[v]
    BY <1>1, <2>3
  <2> HIDE DEF q, n, late, r
  <2>5. AwaitedOf(late) = AwaitedOf(s) /\ LateOf(late) \subseteq LateOf(s) /\ Buries(s, late)
    BY <2>1, <2>4 DEF AwaitedOf, LateOf, Buries, r
  <2> QED BY <1>2, <1>7, <2>2, <2>3, <2>5 DEF Timely
<1> QED BY <1>3, <1>4, <1>5, <1>6, <1>7

\* A map changes nothing the transaction counts.
LEMMA MapWindowMoves ==
  ASSUME NEW s, Good(s), NEW w \in Windows, NEW manages \in BOOLEAN,
         NEW u, u = s \/ u = [s EXCEPT !.windows[w].state = "initialized"],
         Good(MapWindow(u, w, manages))
  PROVE  /\ Same(s, MapWindow(u, w, manages))
         /\ \A v \in Windows \ {w} : MapWindow(u, w, manages).windows[v] = s.windows[v]
<1> DEFINE t == MapWindow(u, w, manages)
           m == DirtyRendering(s.wm)
           n == IF manages THEN DirtyWindowing(m) ELSE m
<1>1. /\ s \in State /\ s.wm \in WmType /\ s.windows \in [Windows -> WindowType]
      /\ WmInv(s.wm)
  BY Facts
<1>2. m \in WmType /\ WmInv(m) /\ m.state = s.wm.state
  BY <1>1, Dirtied
<1>3. n.state = s.wm.state
  BY <1>2, Dirtied
<1>4. u.wm = s.wm
  BY <1>1 DEF State
<1>5. t.wm = n
  BY <1>1, <1>4 DEF MapWindow, State
<1>6. \A v \in Windows :
        /\ t.windows[v].listed = s.windows[v].listed
        /\ t.windows[v].configure_state = s.windows[v].configure_state
        /\ v # w => t.windows[v] = s.windows[v]
  BY <1>1 DEF MapWindow, State, WindowType
<1> QED BY <1>3, <1>5, <1>6, SameWindows

\* Nor does an unmap: the window is still to answer.
LEMMA UnmapWindowMoves ==
  ASSUME NEW s, Good(s), NEW w \in Windows, s.windows[w].surface = "mapped"
  PROVE  Same(s, UnmapWindow(s, w)) /\ Buries(s, UnmapWindow(s, w))
<1> DEFINE t == UnmapWindow(s, w)
           m == DirtyWindowing(s.wm)
<1>1. /\ s \in State /\ s.wm \in WmType /\ s.windows \in [Windows -> WindowType]
      /\ WmInv(s.wm) /\ s.windows[w].state = "mapped"
  BY Facts DEF WindowInv, LifeInv
<1>2. m.state = s.wm.state
  BY <1>1, Dirtied
<1>3. t.wm = m
  BY <1>1 DEF UnmapWindow, State
<1>4. \A v \in Windows :
        /\ t.windows[v].listed = s.windows[v].listed
        /\ t.windows[v].configure_state = s.windows[v].configure_state
        /\ v # w => t.windows[v] = s.windows[v]
  BY <1>1 DEF UnmapWindow, State, WindowType
<1>5. Buries(s, t)
  BY <1>1, <1>4 DEF Buries
<1> QED BY <1>2, <1>3, <1>4, <1>5, SameWindows

\* A destruction answers like a commit.
LEMMA DestroyWindowMoves ==
  ASSUME NEW s, Good(s), NEW w \in Windows, s.windows[w].surface # "mapped",
         s.windows[w].impl \in {"toplevel", "xwayland"},
         NEW t \in DestroyWindow(s, w)
  PROVE  Timely(s, t) /\ Buries(s, t)
<1>1. PICK u, v :
        /\ t = [v EXCEPT !.windows[w].impl = "destroying"]
        /\ u.wm.state = s.wm.state
        /\ \A x \in Windows \ {w} : u.windows[x] = s.windows[x]
        /\ u.windows[w].state \in {"init", "closing"}
        /\ s.windows[w].state \in {"init", "closing"} =>
             u.windows[w].state = s.windows[w].state
        /\ u.windows[w].listed = s.windows[w].listed
        /\ IF Tracked(s.windows[w])
           THEN /\ Answered(u) /\ v \in NotifyConfigured(u)
                /\ u.windows[w].configure_state = "committed"
           ELSE /\ Good(u) /\ v = u
                /\ u.windows[w].configure_state = s.windows[w].configure_state
  BY DestroyWindowIs
<1>2. Buries(s, u)
  BY <1>1 DEF Buries
<1>3. Good(v)
  BY <1>1, NotifyConfiguredGood
<1>4. Same(v, t) /\ Buries(v, t)
  <2>1. v \in State
    BY <1>3, Facts
  <2>2. \A x \in Windows :
          /\ t.windows[x].listed = v.windows[x].listed
          /\ t.windows[x].configure_state = v.windows[x].configure_state
          /\ t.windows[x].state = v.windows[x].state
    BY <1>1, <2>1 DEF State, WindowType
  <2>3. t.wm = v.wm
    BY <1>1, <2>1 DEF State
  <2> QED BY <2>2, <2>3, SameWindows DEF Buries
<1>5. CASE Tracked(s.windows[w])
  <2>1. Timely(s, v) /\ Buries(u, v)
    <3>1. /\ Answered(u) /\ v \in NotifyConfigured(u)
          /\ u.windows[w].configure_state = "committed"
      BY <1>1, <1>5
    <3>2. /\ u.wm.state = s.wm.state
          /\ \A x \in Windows \ {w} : u.windows[x] = s.windows[x]
      BY <1>1
    <3> QED BY <1>5, <3>1, <3>2, AnswerMoves
  <2> QED BY <1>2, <1>4, <2>1, SameReflexive, SameTimely, BuriesCompose
<1>6. CASE ~Tracked(s.windows[w])
  <2>1. v = u BY <1>1, <1>6
  <2>2. Same(s, u) BY <1>1, <1>6, SameWindows
  <2> QED BY <1>2, <1>4, <2>1, <2>2, SameCompose, SameIsTimely, BuriesCompose
<1> QED BY <1>5, <1>6

LEMMA GoneMoves ==
  ASSUME NEW s, Good(s), NEW w \in Windows,
         s.windows[w].impl \in {"toplevel", "xwayland"}, NEW t \in Gone(s, w)
  PROVE  Timely(s, t) /\ Buries(s, t)
<1>1. CASE s.windows[w].surface = "mapped"
  <2> DEFINE u == UnmapWindow(s, w)
  <2>1. /\ Good(u) /\ u.windows[w].impl = s.windows[w].impl
        /\ u.windows[w].surface = "created"
    BY <1>1, UnmapWindowGood
  <2>2. Same(s, u) /\ Buries(s, u)
    BY <1>1, UnmapWindowMoves
  <2>3. t \in DestroyWindow(u, w)
    BY <1>1 DEF Gone
  <2> HIDE DEF u
  <2>4. Timely(u, t) /\ Buries(u, t)
    BY <2>1, <2>3, DestroyWindowMoves
  <2> QED BY <2>2, <2>4, SameReflexive, SameTimely, BuriesCompose
<1>2. CASE s.windows[w].surface # "mapped"
  BY <1>2, DestroyWindowMoves DEF Gone
<1> QED BY <1>1, <1>2

\* The end of a manage or render sequence, by the client or for it.
LEMMA SendsTimely ==
  ASSUME NEW s, Base(s), s.wm.state \in {"idle", "manage"}, NEW t, Sends(s, t)
  PROVE  Timely(s, t) /\ Buries(s, t)
<1>1. AwaitedOf(s) = {} BY NobodyAwaited
<1> QED BY <1>1 DEF Sends, Timely

LEMMA FinishTimely ==
  ASSUME NEW s, Base(s), s.wm.state = "render", NEW t \in RenderFinish(s)
  PROVE  Timely(s, t) /\ Buries(s, t)
<1>1. AwaitedOf(s) = {} BY NobodyAwaited
<1>2. t.wm.state = "idle" /\ LateOf(t) \subseteq LateOf(s) /\ Buries(s, t)
  BY RenderFinishMoves
<1>3. AwaitedOf(t) = {} BY <1>2, RenderFinishGood, NobodyAwaited DEF Good
<1> QED BY <1>1, <1>2, <1>3 DEF Timely

\* Without its client a sequence ends as the client would have ended it.
LEMMA WmGoneMoves ==
  ASSUME NEW s, Good(s), NEW t \in WmGone(s)
  PROVE  Timely(s, t) /\ Buries(s, t)
<1>1. PICK u :
        /\ Good(u) /\ u.wm.state = s.wm.state
        /\ \A w \in Windows :
             /\ u.windows[w].listed = s.windows[w].listed
             /\ u.windows[w].configure_state = s.windows[w].configure_state
             /\ u.windows[w].state = s.windows[w].state
        /\ \/ s.wm.state = "manage" /\ t \in ManageFinish(u)
           \/ s.wm.state = "render" /\ t \in RenderFinish(u)
           \/ s.wm.state \in {"idle", "inflight_configures"} /\ t = u
  BY WmGoneIs
<1>2. Same(s, u) /\ Buries(s, u) /\ Base(u)
  BY <1>1, SameWindows DEF Buries, Good
<1>3. Timely(u, t) /\ Buries(u, t)
  <2>1. CASE s.wm.state = "manage" /\ t \in ManageFinish(u)
    BY <1>1, <1>2, <2>1, ManageFinishMoves, SendsTimely
  <2>2. CASE s.wm.state = "render" /\ t \in RenderFinish(u)
    BY <1>1, <1>2, <2>2, FinishTimely
  <2>3. CASE t = u
    BY <2>3, SameReflexive, SameIsTimely
  <2> QED BY <1>1, <2>1, <2>2, <2>3
<1> QED BY <1>2, <1>3, SameReflexive, SameTimely, BuriesCompose

-----------------------------------------------------------------------------
(***************************************************************************)
(* Every action but the deadline is a timely step.                         *)
(***************************************************************************)
\* A window that was closing is closing still, or its policy object is closed.
Buried(s, t) ==
  \A w \in Windows :
    s.windows[w].impl = "toplevel" /\ s.windows[w].state = "closing" =>
      \/ t.windows[w].state \in {"closing", "init"}
      \/ t.windows[w].state = "ready" /\ ~t.windows[w].object

TimelyStep == \E t : Become(t) /\ Timely(Current, t) /\ Buried(Current, t)

LEMMA BuriesIsBuried ==
  ASSUME NEW s, NEW t, Buries(s, t)
  PROVE  Buried(s, t)
BY DEF Buries, Buried

\* Steps that touch no configure, and windows only where none is closing.
LEMMA QuietMoves ==
  ASSUME NEW t, Become(t), t.wm.state = wm.state,
         \A w \in Windows :
           /\ t.windows[w].listed = windows[w].listed
           /\ t.windows[w].configure_state = windows[w].configure_state
           /\ t.windows[w].state = windows[w].state
  PROVE  TimelyStep
<1>1. Current.wm = wm /\ Current.windows = windows
  BY DEF Current
<1>2. Same(Current, t) /\ Buries(Current, t)
  BY <1>1, SameWindows DEF Buries
<1> QED BY <1>2, SameIsTimely, BuriesIsBuried DEF TimelyStep

\* The idle callback begins a sequence, or finds one under way.
LEMMA DirtyIdleMoves == IInv /\ DirtyIdle => TimelyStep
<1> SUFFICES ASSUME IInv, DirtyIdle PROVE TimelyStep
  OBVIOUS
<1> DEFINE c == Current
           p == ~AnyDirty(wm)
           s == [c EXCEPT !.wm.dirty_idle = "null", !.panic = p]
           u == [s EXCEPT !.wm.dirty_lazy = FALSE]
<1>1. /\ c \in State /\ c.wm \in WmType /\ c.windows \in [Windows -> WindowType]
      /\ c.panic = FALSE /\ WmInv(c.wm) /\ c.wm = wm
      /\ \A w \in Windows : WindowInv(c.wm, c.windows[w])
  BY CurrentFacts
<1>2. p = FALSE
  BY <1>1 DEF DirtyIdle, WmInv
<1>3. PICK t \in CASE wm.state # "idle" -> {s}
                   [] wm.state = "idle" /\ wm.rendering_dirty -> RenderStart(s)
                   [] wm.state = "idle" /\ ~wm.rendering_dirty -> ManageStart(u) :
        Become([t EXCEPT !.wm.dirty_idle = IF @ = "queued" THEN "draining" ELSE @])
  BY DEF DirtyIdle
<1> HIDE DEF c, p
<1>4. /\ s \in State /\ s.windows = c.windows /\ s.panic = FALSE
      /\ s.wm = [c.wm EXCEPT !.dirty_idle = "null"]
  BY <1>1, <1>2 DEF State, WmType
<1> HIDE DEF s
<1>5. WmInv(s.wm) /\ s.wm.state = c.wm.state /\ s.wm.dirty = c.wm.dirty
      /\ s.wm.inflight_configures = c.wm.inflight_configures
  BY <1>1, <1>4 DEF WmInv, WmType
<1>6. Base(s) /\ Same(c, s) /\ Buries(c, s)
  <2>1. Base(s)
    BY <1>1, <1>4, <1>5, Keep DEF Base
  <2> QED BY <1>4, <1>5, <2>1, SameWindows DEF Buries
<1>7. t.wm.state \in {"idle", "manage", "inflight_configures", "render"}
      /\ Timely(c, t) /\ Buries(c, t) /\ t \in State
  <2>1. CASE wm.state # "idle"
    <3>1. t = s BY <1>3, <2>1
    <3> QED BY <1>1, <1>4, <1>5, <1>6, <3>1, SameIsTimely DEF WmType
  <2>2. CASE wm.state = "idle" /\ wm.rendering_dirty
    <3>1. t \in RenderStart(s) /\ s.wm.state = "idle" /\ s.wm.inflight_configures = 0
      BY <1>1, <1>3, <1>5, <2>2 DEF WmInv
    <3>2. AwaitedOf(s) = {} BY <1>6, <3>1, NobodyAwaited
    <3>3. /\ t.wm.state \in {"render", "idle"} /\ Buries(s, t)
          /\ LateOf(t) \subseteq LateOf(s)
      BY <1>6, <3>1, <3>2, RenderStartMoves
    <3>4. Good(t) BY <1>6, <3>1, RenderStartGood
    <3>5. AwaitedOf(t) = {} BY <3>3, <3>4, NobodyAwaited DEF Good
    <3>6. Timely(s, t) BY <3>1, <3>2, <3>3, <3>5 DEF Timely
    <3>7. t \in State BY <3>4, Facts
    <3> QED BY <1>6, <3>3, <3>6, <3>7, SameReflexive, SameTimely, BuriesCompose
  <2>3. CASE wm.state = "idle" /\ ~wm.rendering_dirty
    <3>1. /\ u \in State /\ u.windows = s.windows /\ u.panic = FALSE
          /\ u.wm = [s.wm EXCEPT !.dirty_lazy = FALSE]
      BY <1>4 DEF State, WmType
    <3>2. WmInv(u.wm) /\ u.wm.state = s.wm.state /\ u.wm.dirty = s.wm.dirty
      BY <1>4, <1>5, <3>1 DEF WmInv, WmType, State
    <3> HIDE DEF u
    <3>3. Base(u)
      BY <1>6, <3>1, <3>2, Keep DEF Base
    <3>4. t \in ManageStart(u) /\ u.wm.state = "idle"
      BY <1>1, <1>3, <1>5, <2>3, <3>2
    <3>5. Good(t) /\ t \in State /\ t.wm \in WmType
      BY <3>3, <3>4, ManageStartGood, Facts
    <3>6. Timely(u, t) /\ Buries(u, t)
      <4>1. CASE Sends(u, t) BY <3>3, <3>4, <4>1, SendsTimely
      <4>2. CASE t.wm.state = "manage" /\ LateOf(t) \subseteq LateOf(u) /\ Buries(u, t)
        <5>1. AwaitedOf(u) = {} /\ AwaitedOf(t) = {}
          BY <3>3, <3>4, <3>5, <4>2, NobodyAwaited DEF Good
        <5> QED BY <3>4, <4>2, <5>1 DEF Timely
      <4> QED BY <3>3, <3>4, <4>1, <4>2, ManageStartMoves
    <3>7. Same(s, u) /\ Buries(s, u)
      BY <3>1, <3>2, SameWindows DEF Buries
    <3>8. Same(c, u) /\ Buries(c, u)
      BY <1>6, <3>7, SameCompose, BuriesCompose
    <3> QED BY <3>5, <3>6, <3>8, SameReflexive, SameTimely, BuriesCompose DEF WmType
  <2> QED BY <2>1, <2>2, <2>3
<1> DEFINE d == IF t.wm.dirty_idle = "queued" THEN "draining" ELSE t.wm.dirty_idle
           x == [t EXCEPT !.wm.dirty_idle = d]
<1>8. Become(x)
  BY <1>3
<1> HIDE DEF d
<1>9. x.windows = t.windows /\ x.wm.state = t.wm.state
  BY <1>7 DEF State, WmType
<1> HIDE DEF x
<1>10. Same(t, x) /\ Buries(t, x)
  BY <1>9, SameWindows DEF Buries
<1>11. Timely(c, x) /\ Buries(c, x)
  BY <1>7, <1>10, SameReflexive, SameTimely, BuriesCompose
<1> QED BY <1>8, <1>11, BuriesIsBuried DEF TimelyStep, c

\* Dirty notifications and the comings of the window manager client.
LEMMA WmQuietMoves ==
  ASSUME IInv, RequestManage \/ WmManageDirty \/ Bind \/ WmStop
  PROVE  TimelyStep
<1> DEFINE c == Current
           b == [c.wm EXCEPT !.object = TRUE]
           n == [c.wm EXCEPT !.object = FALSE]
<1>1. /\ c \in State /\ c.wm \in WmType /\ WmInv(c.wm) /\ c.wm = wm /\ c.windows = windows
  BY CurrentFacts
<1>2. b \in WmType /\ WmInv(b) /\ b.state = wm.state /\ n.state = wm.state
  BY <1>1 DEF WmType, WmInv, AnyDirty
<1>3. PICK m \in {DirtyWindowing(c.wm), DirtyWindowingLazy(c.wm), DirtyWindowing(b), n} :
        Become([c EXCEPT !.wm = m])
  BY DEF RequestManage, WmManageDirty, Bind, WmStop
<1> HIDE DEF c, b, n
<1>4. m.state = wm.state
  BY <1>1, <1>2, <1>3, Dirtied
<1> DEFINE t == [c EXCEPT !.wm = m]
<1>5. t.windows = windows /\ t.wm = m /\ Become(t)
  BY <1>1, <1>3 DEF State
<1> HIDE DEF t
<1> QED BY <1>4, <1>5, QuietMoves

\* The end of a sequence, by the window manager client or in its place.
LEMMA WmFinishMoves ==
  ASSUME IInv, WmManageFinish \/ WmRenderFinish \/ WmDestroyed
  PROVE  TimelyStep
<1> DEFINE c == Current
<1>1. Good(c) /\ Base(c) /\ c.wm = wm
  BY CurrentFacts DEF Good
<1>2. PICK t : /\ Become(t)
               /\ \/ wm.state = "manage" /\ t \in ManageFinish(c)
                  \/ wm.state = "render" /\ t \in RenderFinish(c)
                  \/ t \in WmGone(c)
  BY DEF WmManageFinish, WmRenderFinish, WmDestroyed
<1> HIDE DEF c
<1>3. Timely(c, t) /\ Buries(c, t)
  BY <1>1, <1>2, ManageFinishMoves, SendsTimely, FinishTimely, WmGoneMoves
<1> QED BY <1>2, <1>3, BuriesIsBuried DEF TimelyStep, c

\* Steps that replace the record of one window but for its configure.
LEMMA WindowQuietMoves ==
  ASSUME IInv, NEW w \in Windows,
         \/ WindowObjectDestroyed(w) \/ CreateToplevel(w) \/ CreateXwayland(w)
         \/ XwaylandCommit(w)
  PROVE  TimelyStep
<1> DEFINE c == Current
<1>1. /\ c \in State /\ c.wm \in WmType /\ WmInv(c.wm) /\ c.wm = wm /\ c.windows = windows
      /\ Woken(c.wm)
  BY CurrentFacts
<1>2. CASE WindowObjectDestroyed(w)
  <2> DEFINE t == [c EXCEPT !.windows[w].object = FALSE, !.wm = DirtyWindowing(@)]
  <2>1. Become(t) BY <1>2 DEF WindowObjectDestroyed
  <2>2. DirtyWindowing(c.wm).state = wm.state BY <1>1, Dirtied
  <2> HIDE DEF c
  <2>3. t.wm.state = wm.state BY <1>1, <2>2 DEF State
  <2>4. \A v \in Windows :
          /\ t.windows[v].listed = windows[v].listed
          /\ t.windows[v].configure_state = windows[v].configure_state
          /\ t.windows[v].state = windows[v].state
    BY <1>1 DEF State, WindowType
  <2> HIDE DEF t
  <2> QED BY <2>1, <2>3, <2>4, QuietMoves
<1>3. CASE CreateToplevel(w) \/ CreateXwayland(w)
  <2>1. PICK impl \in {"toplevel", "xwayland"} :
          Become([c EXCEPT !.windows[w].impl = impl, !.windows[w].surface = "created"])
    BY <1>3 DEF CreateToplevel, CreateXwayland
  <2> HIDE DEF c
  <2> DEFINE t == [c EXCEPT !.windows[w].impl = impl, !.windows[w].surface = "created"]
  <2>2. t.wm.state = wm.state BY <1>1 DEF State
  <2>3. \A v \in Windows :
          /\ t.windows[v].listed = windows[v].listed
          /\ t.windows[v].configure_state = windows[v].configure_state
          /\ t.windows[v].state = windows[v].state
    BY <1>1 DEF State, WindowType
  <2>4. Become(t) BY <2>1
  <2> HIDE DEF t
  <2> QED BY <2>2, <2>3, <2>4, QuietMoves
<1>4. CASE XwaylandCommit(w)
  <2>1. PICK invalidates \in {"nothing", "rendering"} :
          Become([c EXCEPT !.wm = SetDimensions(c.wm, invalidates)])
    BY <1>4 DEF XwaylandCommit
  <2> DEFINE n == SetDimensions(c.wm, invalidates)
             t == [c EXCEPT !.wm = n]
  <2>2. n.state = wm.state BY <1>1, Resized
  <2> HIDE DEF c, n
  <2>3. t.wm = n /\ t.windows = windows BY <1>1 DEF State
  <2>4. Become(t) BY <2>1 DEF n
  <2> HIDE DEF t
  <2> QED BY <2>2, <2>3, <2>4, QuietMoves
<1> QED BY <1>2, <1>3, <1>4

\* An acknowledgement: who is awaited stays awaited, who is late stays late.
LEMMA AckConfigureMoves ==
  ASSUME IInv, NEW w \in Windows, NEW serial \in {"tracked", "other"}, AckConfigure(w, serial)
  PROVE  TimelyStep
<1> DEFINE c == Current
           r == windows[w]
           u == IF serial = "tracked" THEN {} ELSE r.unacked \ {serial}
           f == IF r.surface = "committed" THEN "configured" ELSE r.surface
           k == CASE serial = "tracked" /\ r.configure_state = "inflight" -> "acked"
                  [] serial = "tracked" /\ r.configure_state = "timed_out" -> "timed_out_acked"
                  [] OTHER -> r.configure_state
           q == [r EXCEPT !.unacked = u, !.surface = f, !.configure_state = k]
           t == [c EXCEPT !.windows[w].unacked = u, !.windows[w].surface = f,
                          !.windows[w].configure_state = k]
<1>1. /\ c \in State /\ c.wm = wm /\ c.windows = windows
      /\ windows \in [Windows -> WindowType] /\ r \in WindowType
  BY CurrentFacts
<1>2. Become(t)
  BY <1>1 DEF AckConfigure
<1>3. /\ k \in {"inflight", "acked"} <=> Tracked(r)
      /\ k \in {"timed_out", "timed_out_acked"} <=>
           r.configure_state \in {"timed_out", "timed_out_acked"}
  BY <1>1 DEF WindowType, ConfigureStates, Tracked
<1> HIDE DEF c, u, f, k
<1>4. t.wm = wm /\ t.windows = [windows EXCEPT ![w] = q]
  BY <1>1 DEF State
<1>5. q.listed = r.listed /\ q.configure_state = k /\ q.state = r.state
  BY <1>1 DEF WindowType
<1> HIDE DEF q, t
<1>6. t.windows[w] = q /\ \A v \in Windows \ {w} : t.windows[v] = windows[v]
  BY <1>1, <1>4
<1> HIDE DEF r
<1>7. AwaitedOf(t) = AwaitedOf(c) /\ LateOf(t) = LateOf(c)
  BY <1>1, <1>3, <1>5, <1>6 DEF AwaitedOf, LateOf, Tracked, r
<1>8. Buries(c, t)
  BY <1>1, <1>5, <1>6 DEF Buries, r
<1>9. Same(c, t)
  BY <1>1, <1>4, <1>7 DEF Same
<1> QED BY <1>2, <1>8, <1>9, SameIsTimely, BuriesIsBuried DEF TimelyStep, c

\* The initial commit tears down what the last mapping left.
LEMMA InitialCommitMoves ==
  ASSUME IInv, NEW w \in Windows, ~RemapInTransaction, InitialCommit(w)
  PROVE  TimelyStep
<1> DEFINE c == Current
           r == windows[w]
           fresh == IF r.state = "closing" THEN FinishUnmap(r) ELSE r
           q == [fresh EXCEPT !.state = "ready", !.surface = "committed"]
           n == DirtyWindowing(wm)
           p == fresh.state # "init"
           t == [c EXCEPT !.windows[w] = q, !.wm = DirtyWindowing(@), !.panic = p]
<1>1. /\ c \in State /\ c.wm = wm /\ c.windows = windows /\ wm \in WmType /\ WmInv(wm)
      /\ windows \in [Windows -> WindowType] /\ r \in WindowType /\ WindowInv(wm, r)
  BY CurrentFacts
<1>2. Become(t)
  BY DEF InitialCommit
<1>3. r.impl = "toplevel" /\ r.surface = "created" /\ ~Tracked(r)
  BY DEF InitialCommit, Tracked
<1>4. n.state = wm.state
  BY <1>1, Dirtied
<1>5. q.state = "ready" /\ ~q.object /\ q.configure_state = r.configure_state
  <2>1. CASE r.state = "closing"
    BY <1>1, <2>1 DEF FinishUnmap, WindowType
  <2>2. CASE r.state # "closing"
    BY <1>1, <1>3, <2>2 DEF WindowInv, LifeInv, WindowType
  <2> QED BY <2>1, <2>2
<1> HIDE DEF c, fresh, p, q, r
<1>6. t.wm = n /\ t.windows[w] = q /\ \A v \in Windows \ {w} : t.windows[v] = windows[v]
  BY <1>1 DEF State
<1> HIDE DEF n, t
<1>7. AwaitedOf(t) = AwaitedOf(c) /\ LateOf(t) = LateOf(c)
  BY <1>1, <1>3, <1>5, <1>6 DEF AwaitedOf, LateOf, Tracked, r
<1>8. Buried(c, t)
  BY <1>1, <1>5, <1>6 DEF Buried
<1>9. Same(c, t)
  BY <1>1, <1>4, <1>6, <1>7 DEF Same
<1> QED BY <1>2, <1>8, <1>9, SameIsTimely DEF TimelyStep, c

LEMMA CommitMoves ==
  ASSUME IInv, NEW w \in Windows, Commit(w)
  PROVE  TimelyStep
<1> DEFINE c == Current
<1>1. Good(c) /\ c.windows = windows
  BY CurrentFacts
<1>2. PICK invalidates \in {"nothing", "rendering", "windowing"} :
        \E t \in CommitWindow(c, w, invalidates) : Become(t)
  BY DEF Commit
<1>3. PICK t \in CommitWindow(c, w, invalidates) : Become(t)
  BY <1>2
<1>4. c.windows[w].impl = "toplevel" BY <1>1 DEF Commit
<1> HIDE DEF c
<1>5. Timely(c, t) /\ Buries(c, t)
  BY <1>1, <1>3, <1>4, CommitWindowMoves
<1> QED BY <1>3, <1>5, BuriesIsBuried DEF TimelyStep, c

LEMMA MapMoves ==
  ASSUME IInv, NEW w \in Windows, Map(w)
  PROVE  TimelyStep
<1> DEFINE c == Current
<1>1. Good(c) /\ c.windows = windows
  BY CurrentFacts
<1>2. /\ c.windows[w].impl = "toplevel" /\ c.windows[w].surface = "configured"
      /\ c.windows[w].state = "initialized"
  BY <1>1, CurrentFacts DEF Map, WindowInv, LifeInv
<1>3. PICK invalidates \in {"nothing", "windowing"}, manages \in BOOLEAN :
        \E t \in {MapWindow(u, w, manages) : u \in CommitWindow(c, w, invalidates)}
                \cup CommitWindow(MapWindow(c, w, manages), w, invalidates) : Become(t)
  BY DEF Map
<1> HIDE DEF c
<1>4. CASE \E u \in CommitWindow(c, w, invalidates) : Become(MapWindow(u, w, manages))
  <2>1. PICK u \in CommitWindow(c, w, invalidates) : Become(MapWindow(u, w, manages))
    BY <1>4
  <2> DEFINE t == MapWindow(u, w, manages)
  <2>2. Good(u) /\ Alike(u.windows[w], c.windows[w])
    BY <1>1, <1>2, CommitWindowGood
  <2>3. Good(t)
    BY <1>2, <2>2, MapWindowGood DEF Alike
  <2>4. Same(u, t) /\ \A v \in Windows \ {w} : t.windows[v] = u.windows[v]
    BY <2>2, <2>3, MapWindowMoves
  <2>5. Timely(c, u) /\ Buries(c, u)
    BY <1>1, <1>2, CommitWindowMoves
  <2> HIDE DEF t
  <2>6. Timely(c, t) BY <2>4, <2>5, SameReflexive, SameTimely
  <2>7. Buried(c, t) BY <1>2, <2>4, <2>5 DEF Buries, Buried
  <2> QED BY <2>1, <2>6, <2>7 DEF TimelyStep, c, t
<1>5. CASE \E t \in CommitWindow(MapWindow(c, w, manages), w, invalidates) : Become(t)
  <2>1. PICK t \in CommitWindow(MapWindow(c, w, manages), w, invalidates) : Become(t)
    BY <1>5
  <2> DEFINE x == MapWindow(c, w, manages)
  <2>2. Good(x) /\ x.windows[w].impl = "toplevel"
    BY <1>1, <1>2, MapWindowGood
  <2>3. Same(c, x) /\ \A v \in Windows \ {w} : x.windows[v] = c.windows[v]
    BY <1>1, <2>2, MapWindowMoves
  <2> HIDE DEF x
  <2>4. Timely(x, t) /\ Buries(x, t)
    BY <2>1, <2>2, CommitWindowMoves DEF x
  <2>5. Timely(c, t) BY <2>3, <2>4, SameReflexive, SameTimely
  <2>6. Buried(c, t) BY <1>2, <2>3, <2>4 DEF Buries, Buried
  <2> QED BY <2>1, <2>5, <2>6 DEF TimelyStep, c
<1> QED BY <1>3, <1>4, <1>5

LEMMA XwaylandMapMoves ==
  ASSUME IInv, NEW w \in Windows, XwaylandMap(w)
  PROVE  TimelyStep
<1> DEFINE c == Current
           u == [c EXCEPT !.windows[w].state = "initialized"]
           t == MapWindow(u, w, TRUE)
<1>1. Good(c) /\ c \in State /\ c.windows = windows
  BY CurrentFacts
<1>2. c.windows[w].impl = "xwayland" /\ c.windows[w].surface = "created"
  BY <1>1 DEF XwaylandMap
<1>3. Become(t)
  BY DEF XwaylandMap
<1> HIDE DEF c
<1>4. u.windows[w].state = "initialized"
  BY <1>1 DEF State, WindowType
<1>5. Good(t)
  BY <1>1, <1>2, <1>4, MapWindowGood
<1>6. Same(c, t) /\ \A v \in Windows \ {w} : t.windows[v] = c.windows[v]
  BY <1>1, <1>5, MapWindowMoves
<1> HIDE DEF t
<1>7. Buried(c, t)
  BY <1>2, <1>6 DEF Buried
<1> QED BY <1>3, <1>6, <1>7, SameIsTimely DEF TimelyStep, c

LEMMA UnmapAndDestroyMoves ==
  ASSUME IInv, NEW w \in Windows,
         Unmap(w) \/ XwaylandUnmap(w) \/ DestroyToplevel(w) \/ XwaylandDestroy(w)
  PROVE  TimelyStep
<1> DEFINE c == Current
<1>1. Good(c) /\ c.windows = windows
  BY CurrentFacts
<1>2. PICK t :
        /\ Become(t)
        /\ \/ windows[w].surface = "mapped" /\ t = UnmapWindow(c, w)
           \/ windows[w].impl \in {"toplevel", "xwayland"} /\ t \in Gone(c, w)
  BY DEF Unmap, XwaylandUnmap, DestroyToplevel, XwaylandDestroy
<1> HIDE DEF c
<1>3. Timely(c, t) /\ Buries(c, t)
  BY <1>1, <1>2, UnmapWindowMoves, GoneMoves, SameIsTimely
<1> QED BY <1>2, <1>3, BuriesIsBuried DEF TimelyStep, c

\* At the deadline the frame is shown without the windows still awaited.
Deadline(s, t) ==
  /\ s.wm.state = "inflight_configures" /\ t.wm.state \in {"render", "idle"}
  /\ AwaitedOf(t) = {}
  /\ LateOf(t) \subseteq LateOf(s) \cup AwaitedOf(s)

DeadlineStep == \E t : Become(t) /\ Deadline(Current, t) /\ Buried(Current, t)

LEMMA HandleTimeoutMoves ==
  ASSUME IInv, HandleTimeout
  PROVE  TimelyStep \/ DeadlineStep
<1> DEFINE c == Current
           s == [c EXCEPT !.wm.timeout = FALSE]
           p == wm.inflight_configures = 0
           u == [s EXCEPT !.wm.inflight_configures = 0, !.panic = p]
           v == [s EXCEPT !.panic = TRUE]
<1>1. /\ c \in State /\ c.wm \in WmType /\ c.windows \in [Windows -> WindowType]
      /\ c.panic = FALSE /\ WmInv(c.wm) /\ Woken(c.wm) /\ Counts(c) /\ c.wm = wm
      /\ \A w \in Windows : WindowInv(c.wm, c.windows[w])
  BY CurrentFacts DEF Good
<1>2. PICK t \in CASE wm.state = "inflight_configures" -> RenderStart(u)
                   [] wm.state \in {"manage", "render"} ->
                        IF wm.object THEN WmGone(s) ELSE {s}
                   [] wm.state = "idle" -> {v} :
        Become(t)
  BY DEF HandleTimeout
<1>3. wm.timeout
  BY DEF HandleTimeout
<1> HIDE DEF c, v, p
<1>4. /\ s \in State /\ s.windows = c.windows /\ s.panic = FALSE
      /\ s.wm = [c.wm EXCEPT !.timeout = FALSE]
  BY <1>1 DEF State, WmType
<1> HIDE DEF s
<1>5. WmInv(s.wm) /\ Woken(s.wm) /\ s.wm.state = c.wm.state /\ s.wm.dirty = c.wm.dirty
      /\ s.wm.inflight_configures = c.wm.inflight_configures
  BY <1>1, <1>4 DEF WmInv, Woken, AnyDirty, WmType
<1>6. Base(s)
  BY <1>1, <1>4, <1>5, Keep DEF Base
<1>7. Same(c, s) /\ Buries(c, s)
  BY <1>4, <1>5, SameWindows DEF Buries
<1>8. CASE wm.state = "inflight_configures"
  <2>1. p = FALSE
    <3>1. c.wm.inflight_configures = Cardinality(AwaitedOf(c)) /\ AwaitedOf(c) # {}
      BY <1>1, <1>8 DEF Counts
    <3>2. Cardinality(AwaitedOf(c)) # 0
      BY <3>1, AwaitedFinite, FS_EmptySet
    <3> QED
      BY <1>1, <3>1, <3>2 DEF p
  <2>2. /\ u \in State /\ u.windows = s.windows /\ u.panic = FALSE
        /\ u.wm = [s.wm EXCEPT !.inflight_configures = 0]
    BY <1>4, <2>1 DEF State, WmType
  <2> HIDE DEF u
  <2>3. WmInv(u.wm) /\ u.wm.state = s.wm.state /\ u.wm.dirty = s.wm.dirty
        /\ u.wm.inflight_configures = 0
    BY <1>4, <1>5, <2>2 DEF WmInv, AnyDirty, WmType, State
  <2>4. Base(u)
    BY <1>6, <2>2, <2>3, Keep DEF Base
  <2>5. t \in RenderStart(u)
    BY <1>2, <1>8
  <2>6. /\ t.wm.state \in {"render", "idle"} /\ Buries(u, t)
        /\ LateOf(t) \subseteq LateOf(u) \cup AwaitedOf(u)
    BY <2>3, <2>4, <2>5, RenderStartMoves
  <2>7. AwaitedOf(t) = {}
    BY <2>3, <2>4, <2>5, <2>6, RenderStartGood, NobodyAwaited DEF Good
  <2>8. Same(s, u) /\ Buries(s, u)
    BY <2>2, <2>3, SameWindows DEF Buries
  <2>9. Deadline(c, t)
    BY <1>1, <1>7, <1>8, <2>6, <2>7, <2>8 DEF Deadline, Same
  <2>10. Buries(c, t)
    BY <1>7, <2>6, <2>8, BuriesCompose
  <2> QED BY <1>2, <2>9, <2>10, BuriesIsBuried DEF DeadlineStep, c
<1>9. CASE wm.state \in {"manage", "render"}
  <2>1. Good(s)
    BY <1>1, <1>5, <1>6, <1>9 DEF Good, Counts
  <2>2. Timely(s, t) /\ Buries(s, t)
    BY <1>2, <1>9, <2>1, WmGoneMoves, SameReflexive, SameIsTimely
  <2>3. Timely(c, t) /\ Buries(c, t)
    BY <1>7, <2>2, SameReflexive, SameTimely, BuriesCompose
  <2> QED BY <1>2, <2>3, BuriesIsBuried DEF TimelyStep, c
<1>10. wm.state # "idle" /\ wm \in WmType
  BY <1>1, <1>3 DEF WmInv
<1> QED BY <1>8, <1>9, <1>10 DEF WmType

LEMMA NextMoves ==
  ASSUME Careful, IInv, Next
  PROVE  TimelyStep \/ (HandleTimeout /\ DeadlineStep)
<1>1. CASE DirtyIdle BY <1>1, DirtyIdleMoves
<1>2. CASE HandleTimeout BY <1>2, HandleTimeoutMoves
<1>3. CASE RequestManage \/ WmClient
  BY <1>3, WmQuietMoves, WmFinishMoves DEF WmClient
<1>4. ASSUME NEW w \in Windows, XdgClient(w) PROVE TimelyStep
  BY <1>4, WindowQuietMoves, InitialCommitMoves, CommitMoves, MapMoves,
     UnmapAndDestroyMoves, AckConfigureMoves DEF XdgClient, Careful
<1>5. ASSUME NEW w \in Windows, XwaylandClient(w) PROVE TimelyStep
  BY <1>5, WindowQuietMoves, XwaylandMapMoves, UnmapAndDestroyMoves DEF XwaylandClient
<1>6. ASSUME NEW w \in Windows, WindowObjectDestroyed(w) PROVE TimelyStep
  BY <1>6, WindowQuietMoves
<1> QED BY <1>1, <1>2, <1>3, <1>4, <1>5, <1>6 DEF Next

-----------------------------------------------------------------------------
(***************************************************************************)
(* The theorems.                                                           *)
(***************************************************************************)
\* What the relations say of the state, in the terms of Transaction.
LEMMA Unfold ==
  ASSUME NEW t, Become(t)
  PROVE  /\ Current.wm = wm /\ Current.windows = windows
         /\ wm' = t.wm /\ windows' = t.windows
         /\ AwaitedOf(Current) = Awaited /\ LateOf(Current) = Late
         /\ AwaitedOf(t) = Awaited' /\ LateOf(t) = Late'
<1>1. Current.wm = wm /\ Current.windows = windows
  BY DEF Current
<1>2. wm' = t.wm /\ windows' = t.windows
  BY DEF Become
<1> QED BY <1>1, <1>2 DEF AwaitedOf, LateOf, Awaited, Late

\* Unless the 100 ms timer fires no window becomes late: a frame is rendered only
\* when every window of the transaction has committed (renderStart from
\* notifyConfigured), whoever answers last and however it goes away.
THEOREM FramesWhole == ASSUME Careful PROVE Spec => NoTornFrame
<1>1. IInv /\ [Next]_vars =>
        [ (\E w \in Windows :
             /\ Tracked(windows[w])
             /\ windows'[w].configure_state \in {"timed_out", "timed_out_acked"})
          => HandleTimeout ]_vars
  <2> SUFFICES ASSUME IInv, Next, ~HandleTimeout, NEW w \in Windows, Tracked(windows[w]),
                      windows'[w].configure_state \in {"timed_out", "timed_out_acked"}
               PROVE  FALSE
    BY DEF vars
  <2>1. PICK t : Become(t) /\ Timely(Current, t)
    BY NextMoves DEF TimelyStep
  <2>2. Late' \subseteq Late
    BY <2>1, Unfold DEF Timely
  <2> QED BY <2>2 DEF Late, Tracked
<1> QED BY <1>1, Invariance, PTL DEF Spec, NoTornFrame

\* A window that unmapped closes its policy object before it is anything else.
THEOREM ClosedAreTornDown == ASSUME Careful PROVE Spec => ClosingIsTornDown
<1>1. IInv /\ IInv' /\ [Next]_vars =>
        [ \A w \in Windows :
            /\ windows[w].impl = "toplevel"
            /\ windows[w].state = "closing"
            /\ windows'[w].state # "closing"
            => windows'[w].state \in {"init", "ready"} /\ ~windows'[w].object ]_vars
  <2> SUFFICES ASSUME IInv, IInv', Next, NEW w \in Windows, windows[w].impl = "toplevel",
                      windows[w].state = "closing", windows'[w].state # "closing"
               PROVE  windows'[w].state \in {"init", "ready"} /\ ~windows'[w].object
    BY DEF vars
  <2>1. PICK t : Become(t) /\ Buried(Current, t)
    BY NextMoves DEF TimelyStep, DeadlineStep
  <2>2. \/ windows'[w].state = "init"
        \/ windows'[w].state = "ready" /\ ~windows'[w].object
    BY <2>1, Unfold DEF Buried
  <2>3. LifeInv(windows'[w])
    BY DEF IInv, Good, Base, WindowInv, Current
  <2> QED BY <2>2, <2>3 DEF LifeInv
<1> QED BY <1>1, Invariance, PTL DEF Spec, ClosingIsTornDown

\* Each step is a step of the abstract transaction, or none.
LEMMA AbstractStep ==
  ASSUME Careful, IInv, IInv', [Next]_vars
  PROVE  [Abstract!Next]_(Abstract!vars)
<1>1. CASE UNCHANGED vars
  BY <1>1 DEF vars, Abstract!vars, Awaited, Late
<1>2. CASE Next
  <2>1. CASE TimelyStep
    <3>1. PICK t : Become(t) /\ Timely(Current, t)
      BY <2>1 DEF TimelyStep
    <3>2. /\ Late' \subseteq Late
          /\ \/ wm'.state = wm.state /\ Awaited' = Awaited
             \/ wm.state = "idle" /\ wm'.state = "manage" /\ Awaited' = Awaited
             \/ /\ wm.state \in {"idle", "manage"} /\ wm'.state = "inflight_configures"
                /\ Awaited' # {} /\ Late' \cap Awaited' = {}
             \/ /\ wm.state # "render" /\ wm'.state \in {"render", "idle"}
                /\ Awaited' = {} /\ \A v, w \in Awaited : v = w
             \/ wm.state = "render" /\ wm'.state = "idle" /\ Awaited' = Awaited
             \/ /\ wm.state = "inflight_configures" /\ wm'.state = wm.state
                /\ \E w \in Awaited : Awaited # {w} /\ Awaited' = Awaited \ {w} /\ Late' = Late
      BY <3>1, Unfold DEF Timely
    <3>3. Awaited \subseteq Windows /\ Awaited' \subseteq Windows
      BY DEF Awaited
    <3>4. (\A v, w \in Awaited : v = w) =>
            Awaited = {} \/ \E w \in Awaited : Awaited = {w}
      OBVIOUS
    <3>5. CASE wm'.state = wm.state /\ Awaited' = Awaited
      BY <3>2, <3>5 DEF Abstract!Next, Abstract!CatchUp
    <3>6. CASE wm.state = "idle" /\ wm'.state = "manage" /\ Awaited' = Awaited
      BY <3>2, <3>6 DEF Abstract!Next, Abstract!Manage
    <3>7. CASE /\ wm.state \in {"idle", "manage"} /\ wm'.state = "inflight_configures"
               /\ Awaited' # {} /\ Late' \cap Awaited' = {}
      <4>1. Awaited' \in (SUBSET Windows) \ {{}} /\ Late' \subseteq Late \ Awaited'
        BY <3>2, <3>3, <3>7
      <4> QED BY <3>7, <4>1 DEF Abstract!Next, Abstract!Send
    <3>8. CASE /\ wm.state # "render" /\ wm'.state \in {"render", "idle"}
               /\ Awaited' = {} /\ \A v, w \in Awaited : v = w
      BY <3>2, <3>4, <3>8 DEF Abstract!Next, Abstract!Show
    <3>9. CASE wm.state = "render" /\ wm'.state = "idle" /\ Awaited' = Awaited
      BY <3>2, <3>9 DEF Abstract!Next, Abstract!Finish
    <3>10. CASE /\ wm.state = "inflight_configures" /\ wm'.state = wm.state
                /\ \E w \in Awaited :
                     Awaited # {w} /\ Awaited' = Awaited \ {w} /\ Late' = Late
      <4>1. PICK w \in Windows :
              w \in Awaited /\ Awaited # {w} /\ Awaited' = Awaited \ {w} /\ Late' = Late
        BY <3>3, <3>10
      <4>2. Abstract!Answer(w) BY <3>10, <4>1 DEF Abstract!Answer
      <4> QED BY <4>2 DEF Abstract!Next
    <3> QED BY <3>2, <3>5, <3>6, <3>7, <3>8, <3>9, <3>10
  <2>2. CASE DeadlineStep
    <3>1. PICK t : Become(t) /\ Deadline(Current, t)
      BY <2>2 DEF DeadlineStep
    <3>2. /\ wm.state = "inflight_configures" /\ wm'.state \in {"render", "idle"}
          /\ Awaited' = {} /\ Late' \subseteq Late \cup Awaited
      BY <3>1, Unfold DEF Deadline
    <3> QED BY <3>2 DEF Abstract!Next, Abstract!Expire
  <2> QED BY <1>2, <2>1, <2>2, NextMoves
<1> QED BY <1>1, <1>2

\* WindowManager, windows and clients implement the abstract transaction: the
\* frame is shown with the last answer or at the deadline, and only the deadline
\* leaves a window behind.
THEOREM Refinement == ASSUME Careful PROVE Spec => ImplementsFrameTransaction
<1>1. Init => Abstract!Init
  BY DEF Init, Free, Awaited, Late, Tracked, Abstract!Init
<1>2. IInv /\ IInv' /\ [Next]_vars => [Abstract!Next]_(Abstract!vars)
  BY AbstractStep
<1> QED BY <1>1, <1>2, Invariance, PTL DEF Spec, ImplementsFrameTransaction, Abstract!Spec
=============================================================================
