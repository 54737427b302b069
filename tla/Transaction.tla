---------------------------- MODULE Transaction ----------------------------
(***************************************************************************)
(* The frame transaction of the compositor: WindowManager.zig coalesces    *)
(* dirty notifications into one idle callback, runs a manage sequence,     *)
(* configures the windows whose size changes, waits for their buffers (at  *)
(* most 100 ms) and then runs a render sequence that shows all of them at  *)
(* once.  Window.zig keeps the life cycle of a window, XdgToplevel.zig the *)
(* state of its last tracked configure, XwaylandWindow.zig the X11 case.   *)
(*                                                                         *)
(* The compositor is single threaded: a handler runs to completion, and    *)
(* handlers call each other synchronously (the commit that answers the     *)
(* last configure runs the whole render sequence).  A handler is therefore *)
(* an operator: from a program state to the program state it leads to, or  *)
(* to the set of those it may lead to when policy or a client has a choice *)
(* on the way.  An action applies one handler.  A program state is [wm,    *)
(* windows, panic]; panic records that an assert or an `unreachable` of    *)
(* the code was reached.                                                   *)
(***************************************************************************)
EXTENDS Integers, FiniteSets

CONSTANTS
  Windows,             \* slots of the window slotmap
  Mode,                \* policy mode, wm/Mode.zig
  WmMayStop,           \* may the window manager client send `stop`?
  RemapInTransaction   \* may an XDG client remap while the transaction tracks
                       \* one of its configures?

ASSUME WindowsAssumption == IsFiniteSet(Windows)
ASSUME ModeAssumption == Mode \in {"internal", "external", "compare"}
ASSUME ClientAssumption == {WmMayStop, RemapInTransaction} \subseteq BOOLEAN

RunsInternal == Mode # "external"
AllowsExternal == Mode # "internal"

VARIABLES
  wm,        \* the WindowManager
  windows,   \* one record per slot: Window, XdgToplevel and its wl_surface
  panic      \* an assert or `unreachable` of the code has been reached

vars == <<wm, windows, panic>>

(***************************************************************************)
(* Types.  dirty_idle is "draining" when the idle source was queued by an  *)
(* idle callback: libwayland runs its idle list until it is empty, so such *)
(* a source runs before any client is served.                              *)
(***************************************************************************)
WmType ==
  [ state : {"idle", "manage", "inflight_configures", "render"},
    inflight_configures : Nat,
    dirty : BOOLEAN, dirty_lazy : BOOLEAN, rendering_dirty : BOOLEAN,
    dirty_idle : {"null", "queued", "draining"},
    timeout : BOOLEAN,           \* the timer is armed
    object : BOOLEAN ]           \* a window manager client is bound

ConfigureStates ==
  {"idle", "inflight", "acked", "committed", "timed_out", "timed_out_acked"}

(***************************************************************************)
(* unacked abstracts the serials the client has not acknowledged: the      *)
(* "tracked" one (the serial kept in configure_state) and any "other".     *)
(* surface is the xdg-shell phase wlroots enforces: no commit yet, initial *)
(* commit made, a configure acknowledged, a buffer mapped.                 *)
(***************************************************************************)
WindowType ==
  [ impl : {"none", "toplevel", "xwayland", "destroying"},
    state : {"init", "ready", "initialized", "mapped", "closing"},
    configure_state : ConfigureStates,
    listed : BOOLEAN,            \* linked in rendering_requested.list
    saved : BOOLEAN,             \* the old frame is stashed and shown instead
    object : BOOLEAN,            \* a aqueous_window_v1 object exists
    surface : {"none", "created", "committed", "configured", "mapped"},
    unacked : SUBSET {"tracked", "other"} ]

Free ==
  [ impl |-> "none", state |-> "init", configure_state |-> "idle",
    listed |-> FALSE, saved |-> FALSE, object |-> FALSE,
    surface |-> "none", unacked |-> {} ]

Tracked(r) == r.configure_state \in {"inflight", "acked"}

(***************************************************************************)
(* Dirty flags and the idle source.                                        *)
(***************************************************************************)
AddDirtyIdle(m) ==
  [m EXCEPT !.dirty_idle = IF @ = "null" THEN "queued" ELSE @]

RemoveDirtyIdle(m) ==
  [m EXCEPT !.dirty_idle = IF ~m.dirty /\ ~m.rendering_dirty THEN "null" ELSE @]

DirtyWindowing(m) == AddDirtyIdle([m EXCEPT !.dirty = TRUE])
DirtyWindowingLazy(m) == AddDirtyIdle([m EXCEPT !.dirty_lazy = TRUE])
DirtyRendering(m) == AddDirtyIdle([m EXCEPT !.rendering_dirty = TRUE])
CleanWindowing(m) == RemoveDirtyIdle([m EXCEPT !.dirty = FALSE])
CleanRendering(m) == RemoveDirtyIdle([m EXCEPT !.rendering_dirty = FALSE])

AnyDirty(m) == m.dirty \/ m.dirty_lazy \/ m.rendering_dirty

(***************************************************************************)
(* What the steps of a transaction do to one window.                       *)
(***************************************************************************)
\* Mutant: finishUnmap() forgets to close the policy object.
FinishUnmapKeepsObject(r) ==
  [r EXCEPT !.state = "init", !.listed = FALSE]

\* configure_state is not among the fields finishUnmap resets.
FinishUnmap(r) ==
  [r EXCEPT !.state = "init", !.listed = FALSE, !.object = FALSE]

ManageStartWindow(r, external) ==
  IF r.state = "closing" THEN FinishUnmap(r)
  ELSE IF external /\ r.state # "init"
       THEN [r EXCEPT !.object = TRUE, !.listed = TRUE]
       ELSE r

(***************************************************************************)
(* What policy (integrated or external) asks of a window in one manage     *)
(* sequence, as manageFinish finds it: nothing, a state change only, a     *)
(* size the client already has, a new size.  What an X11 window is asked   *)
(* is never waited for and is left out.                                    *)
(***************************************************************************)
Ask == {"none", "state", "same_size", "size"}

Sized(ask) == ask \in {"same_size", "size"}

Active(r) == r.state \in {"ready", "initialized", "mapped"}

Asks(ws) ==
  { asks \in [Windows -> Ask] :
      \A w \in Windows :
        asks[w] # "none" => ws[w].listed /\ Active(ws[w]) /\ ws[w].impl = "toplevel" }

\* The windows the integrated policy places for the first time, which links them
\* into the rendering list.  Placing a window again only reorders the list.
Placements(ws) ==
  IF RunsInternal THEN SUBSET {w \in Windows : Active(ws[w]) /\ ~ws[w].listed}
                  ELSE {{}}

Configure(r, ask) ==
  IF ask = "none"
  THEN [r EXCEPT !.configure_state =
          CASE @ = "timed_out" -> "inflight"
            [] @ = "timed_out_acked" -> "acked"
            [] OTHER -> @]
  ELSE IF ask # "size" /\ r.configure_state = "idle"
       THEN [r EXCEPT !.unacked = @ \cup {"other"}]
       ELSE [r EXCEPT !.configure_state = "inflight",
                      !.unacked = {"tracked"} \cup (IF @ = {} THEN {} ELSE {"other"})]

Configured(r, ask) ==
  /\ r.listed
  /\ r.impl # "destroying"
  /\ Active(r)
  /\ r.state = "ready" => Sized(ask)

Awaits(r, ask) ==
  Configured(r, ask) /\ r.impl = "toplevel" /\ Tracked(Configure(r, ask))

ManageFinishWindow(r, ask) ==
  IF ~Configured(r, ask) THEN r
  ELSE [(IF r.impl = "toplevel" THEN Configure(r, ask) ELSE r) EXCEPT
          !.state = IF @ = "ready" THEN "initialized" ELSE @,
          !.saved = @ \/ (Awaits(r, ask) /\ r.state = "mapped" /\ Sized(ask))]

ManageFinishUnreachable(r, ask) ==
  /\ r.listed
  /\ \/ r.impl = "destroying" /\ r.state # "closing"
     \/ r.impl # "destroying" /\ r.state = "init"
     \/ /\ Configured(r, ask)
        /\ r.impl = "toplevel"
        /\ r.configure_state \in {"inflight", "acked", "committed"}

\* Mutant: a configure answered in this transaction stays answered for the next.
RenderStartWindowKeepsCommitted(r) ==
  IF r.listed /\ r.impl = "toplevel"
  THEN [r EXCEPT !.configure_state =
          CASE @ = "inflight" -> "timed_out"
            [] @ = "acked" -> "timed_out_acked"
            [] OTHER -> @]
  ELSE r

\* Mutant: an acknowledged configure is still awaited after the deadline.
RenderStartWindowKeepsAcked(r) ==
  IF r.listed /\ r.impl = "toplevel"
  THEN [r EXCEPT !.configure_state =
          CASE @ = "inflight" -> "timed_out"
            [] @ = "committed" -> "idle"
            [] OTHER -> @]
  ELSE r

RenderStartWindow(r) ==
  IF r.listed /\ r.impl = "toplevel"
  THEN [r EXCEPT !.configure_state =
          CASE @ = "inflight" -> "timed_out"
            [] @ = "acked" -> "timed_out_acked"
            [] @ = "committed" -> "idle"
            [] OTHER -> @]
  ELSE r

\* Mutant: the memory of a window whose role object is gone is not freed.
RenderFinishWindowKeepsZombie(r) == [r EXCEPT !.saved = @ /\ r.state = "closing"]

RenderFinishWindow(r) ==
  IF r.impl = "destroying" /\ r.state = "init" THEN Free
  ELSE [r EXCEPT !.saved = @ /\ r.state = "closing"]

RenderFinishUnreachable(r) ==
  r.impl = "destroying" /\ r.state # "closing" /\ (r.state # "init" \/ r.object)

(***************************************************************************)
(* The transaction, on program states.                                     *)
(***************************************************************************)
\* Mutant: the flags raised while the transaction ran are not looked at again.
RenderFinishedWithoutRecheck(s, redirty) ==
  LET idle == [s.wm EXCEPT !.state = "idle", !.timeout = FALSE]
  IN [ wm |-> IF redirty THEN DirtyWindowing(idle) ELSE idle,
       windows |-> [w \in Windows |-> RenderFinishWindow(s.windows[w])],
       panic |-> \/ s.panic
                 \/ \E w \in Windows : RenderFinishUnreachable(s.windows[w]) ]

\* redirty: refreshSuspension and the input events queued while the transaction
\* ran dirty the windowing state again.
RenderFinished(s, redirty) ==
  LET zombie == \E w \in Windows :
                  s.windows[w].impl = "destroying" /\ s.windows[w].state = "closing"
      idle == [s.wm EXCEPT !.state = "idle", !.timeout = FALSE]
      again == IF zombie \/ redirty THEN DirtyWindowing(idle) ELSE idle
  IN [ wm |-> IF AnyDirty(again) THEN AddDirtyIdle(again) ELSE again,
       windows |-> [w \in Windows |-> RenderFinishWindow(s.windows[w])],
       panic |-> \/ s.panic
                 \/ \E w \in Windows : RenderFinishUnreachable(s.windows[w]) ]

RenderFinish(s) == {RenderFinished(s, redirty) : redirty \in BOOLEAN}

RenderStarted(s) ==
  [ wm |-> CleanRendering([s.wm EXCEPT !.state = "render"]),
    windows |-> [w \in Windows |-> RenderStartWindow(s.windows[w])],
    panic |-> s.panic ]

RenderStart(s) ==
  UNION { IF t.wm.object THEN {[t EXCEPT !.wm.timeout = TRUE]} ELSE RenderFinish(t) :
            t \in {RenderStarted(s)} }

Awaiting(s, asks) == {w \in Windows : Awaits(s.windows[w], asks[w])}

\* Mutant: the timer is not armed.
SentWithoutTimer(s, asks) ==
  [ wm |-> [s.wm EXCEPT !.state = "inflight_configures",
                        !.inflight_configures = Cardinality(Awaiting(s, asks)),
                        !.timeout = FALSE],
    windows |-> [w \in Windows |-> ManageFinishWindow(s.windows[w], asks[w])],
    panic |-> \/ s.panic
              \/ \E w \in Windows : ManageFinishUnreachable(s.windows[w], asks[w]) ]

Sent(s, asks) ==
  [ wm |-> [s.wm EXCEPT !.state = "inflight_configures",
                        !.inflight_configures = Cardinality(Awaiting(s, asks)),
                        !.timeout = Awaiting(s, asks) # {}],
    windows |-> [w \in Windows |-> ManageFinishWindow(s.windows[w], asks[w])],
    panic |-> \/ s.panic
              \/ \E w \in Windows : ManageFinishUnreachable(s.windows[w], asks[w]) ]

ManageFinish(s) ==
  UNION { IF t.wm.inflight_configures = 0 THEN RenderStart(t) ELSE {t} :
            t \in {Sent(s, asks) : asks \in Asks(s.windows)} }

ManageStarted(s) ==
  LET closed == \E w \in Windows :
                  s.windows[w].state = "closing" /\ s.windows[w].object
      clean == CleanWindowing([s.wm EXCEPT !.state = "manage"])
  IN [ wm |-> IF closed THEN DirtyWindowing(clean) ELSE clean,
       windows |-> [w \in Windows |-> ManageStartWindow(s.windows[w], s.wm.object)],
       panic |-> s.panic ]

Placed(s, placement) ==
  [s EXCEPT !.windows =
     [w \in Windows |-> [s.windows[w] EXCEPT !.listed = @ \/ w \in placement]]]

ManageStart(s) ==
  UNION { IF t.wm.object THEN {[t EXCEPT !.wm.timeout = TRUE]}
          ELSE UNION {ManageFinish(Placed(t, placement)) :
                        placement \in Placements(t.windows)} :
            t \in {ManageStarted(s)} }

\* Mutant: an answer is counted twice, for its ack and for its commit.
CountedTwice(s) == [s EXCEPT !.wm.inflight_configures = @ - 2]

\* A configure of the transaction has been answered.
Counted(s) == [s EXCEPT !.wm.inflight_configures = @ - 1]

\* Mutant: the frame is rendered at the first answer.
NotifyConfiguredAtFirst(s) ==
  IF s.wm.state # "inflight_configures" \/ s.wm.inflight_configures = 0
  THEN {[s EXCEPT !.panic = TRUE]}
  ELSE RenderStart([Counted(s) EXCEPT !.wm.timeout = FALSE])

NotifyConfigured(s) ==
  IF s.wm.state # "inflight_configures" \/ s.wm.inflight_configures = 0
  THEN {[s EXCEPT !.panic = TRUE]}
  ELSE IF s.wm.inflight_configures = 1
       THEN RenderStart([Counted(s) EXCEPT !.wm.timeout = FALSE])
       ELSE {Counted(s)}

-----------------------------------------------------------------------------
(***************************************************************************)
(* Handlers of the clients' requests, on program states.                   *)
(***************************************************************************)
Current == [wm |-> wm, windows |-> windows, panic |-> panic]

Become(s) ==
  /\ wm' = s.wm
  /\ windows' = s.windows
  /\ panic' = s.panic

\* setDimensions invalidates nothing, the rendering, or (for a transient whose
\* natural size policy waits for) the windowing state.
SetDimensions(m, invalidates) ==
  CASE invalidates = "rendering" -> DirtyRendering(m)
    [] invalidates = "windowing" -> DirtyWindowing(m)
    [] invalidates = "nothing" -> m

CommitWindow(s, w, invalidates) ==
  LET r == s.windows[w]
      sized == [s EXCEPT !.wm = SetDimensions(@, invalidates)]
  IN IF r.state \notin {"initialized", "mapped"} THEN {s}
     ELSE CASE r.configure_state = "inflight" -> {s}
            [] r.configure_state \in {"idle", "committed", "timed_out"} -> {sized}
            [] r.configure_state = "acked" ->
                 NotifyConfigured(
                   [sized EXCEPT !.windows[w].configure_state = "committed"])
            [] r.configure_state = "timed_out_acked" ->
                 {[sized EXCEPT !.windows[w].configure_state = "idle",
                                !.wm = DirtyRendering(@)]}

\* manages: a natural-size placement is pending or a workspace is assigned.
MapWindow(s, w, manages) ==
  [s EXCEPT !.windows[w].state = "mapped",
            !.windows[w].surface = "mapped",
            !.wm = IF manages THEN DirtyWindowing(DirtyRendering(@))
                              ELSE DirtyRendering(@),
            !.panic = @ \/ s.windows[w].state # "initialized"]

\* Mutant: nothing schedules the manage sequence that tears the window down.
UnmapWindowSilently(s, w) ==
  [s EXCEPT !.windows[w].state = "closing",
            !.windows[w].saved = TRUE,
            !.windows[w].surface = "created",
            !.windows[w].unacked = {},
            !.panic = @ \/ s.windows[w].state # "mapped"]

UnmapWindow(s, w) ==
  [s EXCEPT !.windows[w].state = "closing",
            !.windows[w].saved = TRUE,
            !.windows[w].surface = "created",
            !.windows[w].unacked = {},
            !.wm = DirtyWindowing(@),
            !.panic = @ \/ s.windows[w].state # "mapped"]

\* Mutant: a window that goes away does not answer its configure.
DestroyWindowUnanswered(s, w) ==
  LET closes == s.windows[w].state \in {"ready", "initialized"}
  IN {[s EXCEPT !.windows[w].state = IF closes THEN "closing" ELSE @,
                !.windows[w].surface = "none",
                !.windows[w].unacked = {},
                !.windows[w].impl = "destroying",
                !.wm = IF closes THEN DirtyWindowing(@) ELSE @]}

DestroyWindow(s, w) ==
  LET r == s.windows[w]
      closes == r.state \in {"ready", "initialized"}
      closing ==
        [s EXCEPT !.windows[w].state = IF closes THEN "closing" ELSE @,
                  !.windows[w].surface = "none",
                  !.windows[w].unacked = {},
                  !.wm = IF closes THEN DirtyWindowing(@) ELSE @,
                  !.panic = @ \/ r.state = "mapped"]
      answered == [closing EXCEPT !.windows[w].configure_state = "committed"]
  IN {[t EXCEPT !.windows[w].impl = "destroying"] :
        t \in IF Tracked(r) THEN NotifyConfigured(answered) ELSE {closing}}

\* wlroots unmaps a mapped surface before it destroys the role object.
Gone(s, w) ==
  DestroyWindow(IF s.windows[w].surface = "mapped" THEN UnmapWindow(s, w) ELSE s, w)

-----------------------------------------------------------------------------
(***************************************************************************)
(* Actions.  Quiet: no idle callback is left to run before the event loop  *)
(* serves clients and timers, and the process is alive.                    *)
(***************************************************************************)
Quiet == ~panic /\ wm.dirty_idle # "draining"

Init ==
  /\ wm = [ state |-> "idle", inflight_configures |-> 0,
            dirty |-> FALSE, dirty_lazy |-> FALSE, rendering_dirty |-> FALSE,
            dirty_idle |-> "null", timeout |-> FALSE, object |-> FALSE ]
  /\ windows = [w \in Windows |-> Free]
  /\ panic = FALSE

\* The idle callback.  A source queued by it is drained before it returns.
DirtyIdle ==
  LET s == [Current EXCEPT !.wm.dirty_idle = "null", !.panic = ~AnyDirty(wm)]
      outcomes ==
        CASE wm.state # "idle" -> {s}
          [] wm.state = "idle" /\ wm.rendering_dirty -> RenderStart(s)
          [] wm.state = "idle" /\ ~wm.rendering_dirty ->
               ManageStart([s EXCEPT !.wm.dirty_lazy = FALSE])
  IN /\ ~panic
     /\ wm.dirty_idle # "null"
     /\ \E t \in outcomes :
          Become([t EXCEPT !.wm.dirty_idle = IF @ = "queued" THEN "draining" ELSE @])

\* An input event, a configuration reload, an output change or a request of a
\* client (title, fullscreen, move...) that only schedules a manage sequence.
RequestManage ==
  /\ Quiet
  /\ Become([Current EXCEPT !.wm = DirtyWindowing(@)])

\* The destruction of the window manager's object, by the client or with it.
WmGone(s) ==
  LET had == \E w \in Windows : s.windows[w].object
      inert ==
        [s EXCEPT !.wm = IF had THEN DirtyWindowing([@ EXCEPT !.object = FALSE])
                                ELSE [@ EXCEPT !.object = FALSE],
                  !.windows = [w \in Windows |-> [@[w] EXCEPT !.object = FALSE]]]
  IN CASE s.wm.state = "manage" -> ManageFinish(inert)
       [] s.wm.state = "render" -> RenderFinish(inert)
       [] s.wm.state \in {"idle", "inflight_configures"} -> {inert}

HandleTimeout ==
  LET s == [Current EXCEPT !.wm.timeout = FALSE]
      outcomes ==
        CASE wm.state = "inflight_configures" ->
               RenderStart([s EXCEPT !.wm.inflight_configures = 0,
                                     !.panic = wm.inflight_configures = 0])
          [] wm.state \in {"manage", "render"} ->
               IF wm.object THEN WmGone(s) ELSE {s}
          [] wm.state = "idle" -> {[s EXCEPT !.panic = TRUE]}
  IN /\ Quiet
     /\ wm.timeout
     /\ \E t \in outcomes : Become(t)

(***************************************************************************)
(* The window manager client.                                              *)
(***************************************************************************)
Bind ==
  /\ Quiet
  /\ AllowsExternal /\ ~wm.object
  /\ Become([Current EXCEPT !.wm = DirtyWindowing([@ EXCEPT !.object = TRUE])])

WmManageFinish ==
  /\ Quiet
  /\ wm.object /\ wm.state = "manage"
  /\ \E t \in ManageFinish(Current) : Become(t)

WmRenderFinish ==
  /\ Quiet
  /\ wm.object /\ wm.state = "render"
  /\ \E t \in RenderFinish(Current) : Become(t)

WmManageDirty ==
  /\ Quiet
  /\ wm.object
  /\ Become([Current EXCEPT !.wm = DirtyWindowingLazy(@)])

WmStop ==
  /\ Quiet
  /\ WmMayStop
  /\ wm.object
  /\ Become([Current EXCEPT !.wm.object = FALSE])

\* The client destroys its object, misuses the protocol or exits.
WmDestroyed ==
  /\ Quiet
  /\ wm.object
  /\ \E t \in WmGone(Current) : Become(t)

\* The client destroys one aqueous_window_v1 object (also after `stop`).
WindowObjectDestroyed(w) ==
  /\ Quiet
  /\ windows[w].object
  /\ Become([Current EXCEPT !.windows[w].object = FALSE, !.wm = DirtyWindowing(@)])

(***************************************************************************)
(* XDG clients.                                                            *)
(***************************************************************************)
CreateToplevel(w) ==
  /\ Quiet
  /\ windows[w].impl = "none"
  /\ Become([Current EXCEPT !.windows[w].impl = "toplevel",
                            !.windows[w].surface = "created"])

\* The first commit of a mapping, which carries no buffer.  When the previous
\* mapping has not been torn down yet it is torn down here.
InitialCommit(w) ==
  LET r == windows[w]
      fresh == IF r.state = "closing" THEN FinishUnmap(r) ELSE r
  IN /\ Quiet
     /\ r.impl = "toplevel" /\ r.surface = "created"
     /\ \/ RemapInTransaction
        \/ r.configure_state \in {"idle", "timed_out", "timed_out_acked"}
     /\ Become([Current EXCEPT
                  !.windows[w] = [fresh EXCEPT !.state = "ready", !.surface = "committed"],
                  !.wm = DirtyWindowing(@),
                  !.panic = fresh.state # "init"])

\* Mutant: any acknowledgement counts as that of the tracked serial.
AckConfigureOfAny(w, serial) ==
  /\ Quiet
  /\ windows[w].impl = "toplevel" /\ serial \in windows[w].unacked
  /\ Become([Current EXCEPT
       !.windows[w].unacked = IF serial = "tracked" THEN {} ELSE @ \ {serial},
       !.windows[w].surface = IF @ = "committed" THEN "configured" ELSE @,
       !.windows[w].configure_state = CASE @ = "inflight" -> "acked"
                                        [] @ = "timed_out" -> "timed_out_acked"
                                        [] OTHER -> @])

\* Acknowledging a serial acknowledges the older ones; the tracked serial is
\* the newest of those the client holds.
AckConfigure(w, serial) ==
  LET r == windows[w]
  IN /\ Quiet
     /\ r.impl = "toplevel" /\ serial \in r.unacked
     /\ Become([Current EXCEPT
          !.windows[w].unacked = IF serial = "tracked" THEN {} ELSE @ \ {serial},
          !.windows[w].surface = IF @ = "committed" THEN "configured" ELSE @,
          !.windows[w].configure_state =
             CASE serial = "tracked" /\ @ = "inflight" -> "acked"
               [] serial = "tracked" /\ @ = "timed_out" -> "timed_out_acked"
               [] OTHER -> @])

Commit(w) ==
  /\ Quiet
  /\ windows[w].impl = "toplevel"
  /\ windows[w].surface \in {"committed", "configured", "mapped"}
  /\ \E invalidates \in {"nothing", "rendering", "windowing"} :
       \E t \in CommitWindow(Current, w, invalidates) : Become(t)

\* The commit that maps the surface; its map and commit listeners run in
\* either order.
Map(w) ==
  /\ Quiet
  /\ windows[w].impl = "toplevel" /\ windows[w].surface = "configured"
  /\ \E invalidates \in {"nothing", "windowing"}, manages \in BOOLEAN :
       \E t \in {MapWindow(u, w, manages) : u \in CommitWindow(Current, w, invalidates)}
                \cup CommitWindow(MapWindow(Current, w, manages), w, invalidates) :
         Become(t)

Unmap(w) ==
  /\ Quiet
  /\ windows[w].impl = "toplevel" /\ windows[w].surface = "mapped"
  /\ Become(UnmapWindow(Current, w))

DestroyToplevel(w) ==
  /\ Quiet
  /\ windows[w].impl = "toplevel"
  /\ \E t \in Gone(Current, w) : Become(t)

(***************************************************************************)
(* X11 clients.  Their configures are never tracked.                       *)
(***************************************************************************)
CreateXwayland(w) ==
  /\ Quiet
  /\ windows[w].impl = "none"
  /\ Become([Current EXCEPT !.windows[w].impl = "xwayland",
                            !.windows[w].surface = "created"])

XwaylandMap(w) ==
  LET initialized == [Current EXCEPT !.windows[w].state = "initialized"]
  IN /\ Quiet
     /\ windows[w].impl = "xwayland" /\ windows[w].surface = "created"
     /\ Become(MapWindow(initialized, w, TRUE))

XwaylandCommit(w) ==
  /\ Quiet
  /\ windows[w].impl = "xwayland" /\ windows[w].surface = "mapped"
  /\ \E invalidates \in {"nothing", "rendering"} :
       Become([Current EXCEPT !.wm = SetDimensions(@, invalidates)])

XwaylandUnmap(w) ==
  /\ Quiet
  /\ windows[w].impl = "xwayland" /\ windows[w].surface = "mapped"
  /\ Become(UnmapWindow(Current, w))

\* Also what becoming override-redirect does to the managed window.
XwaylandDestroy(w) ==
  /\ Quiet
  /\ windows[w].impl = "xwayland"
  /\ \E t \in Gone(Current, w) : Become(t)

WmClient ==
  Bind \/ WmManageFinish \/ WmRenderFinish \/ WmManageDirty \/ WmStop \/ WmDestroyed

XdgClient(w) ==
  \/ CreateToplevel(w) \/ InitialCommit(w) \/ Commit(w) \/ Map(w) \/ Unmap(w)
  \/ DestroyToplevel(w)
  \/ \E serial \in {"tracked", "other"} : AckConfigure(w, serial)

XwaylandClient(w) ==
  \/ CreateXwayland(w) \/ XwaylandMap(w) \/ XwaylandCommit(w) \/ XwaylandUnmap(w)
  \/ XwaylandDestroy(w)

Next ==
  \/ DirtyIdle
  \/ HandleTimeout
  \/ RequestManage
  \/ WmClient
  \/ \E w \in Windows :
       XdgClient(w) \/ XwaylandClient(w) \/ WindowObjectDestroyed(w)

Spec == Init /\ [][Next]_vars

(***************************************************************************)
(* The event loop runs its idle list and dispatches expired timers.        *)
(* Clients are assumed to do nothing.                                      *)
(***************************************************************************)
Fairness == WF_vars(DirtyIdle) /\ WF_vars(HandleTimeout)

FairSpec == Spec /\ Fairness

-----------------------------------------------------------------------------
(***************************************************************************)
(* Safety.                                                                 *)
(***************************************************************************)
TypeOK ==
  /\ wm \in WmType
  /\ windows \in [Windows -> WindowType]
  /\ panic \in BOOLEAN

\* No assert and no `unreachable` of WindowManager.zig, Window.zig,
\* XdgToplevel.zig or XwaylandWindow.zig that the model keeps is reached:
\* configure() never meets a configure of a transaction still running, no
\* configure is answered outside of a transaction, no timer outlives its
\* sequence, a window is mapped, unmapped and freed from the right states.
NoUnreachable == ~panic

Awaited == {w \in Windows : windows[w].listed /\ Tracked(windows[w])}

\* WindowManager.zig counts the configures in flight in one integer and
\* decrements it from the acks, commits and destructions of every client.  The
\* count is at all times the number of windows still to answer, so that the
\* transaction ends with the last answer and not before.
CountIsExact ==
  IF wm.state = "inflight_configures"
  THEN wm.inflight_configures = Cardinality(Awaited) /\ Awaited # {}
  ELSE \A w \in Windows : ~Tracked(windows[w])

\* dirtyIdle() does nothing while a transaction runs and clears the source, and
\* removeDirtyIdle() ignores dirty_lazy; a dirty flag is nevertheless never left
\* without a callback when the transaction is over, nor without a running timer
\* while it waits for the windows.
NoLostWakeup ==
  /\ wm.state = "idle" /\ AnyDirty(wm) => wm.dirty_idle # "null"
  /\ wm.state = "inflight_configures" => wm.timeout

\* A window that is closing, and a stashed frame shown in place of a window
\* when no transaction runs, always have a manage sequence scheduled: neither
\* a dead window nor a frozen picture can stay on the screen.
FrozenFrameIsScheduled ==
  \A w \in Windows :
    \/ windows[w].state = "closing"
    \/ windows[w].saved /\ wm.state = "idle"
    => wm.dirty

\* A configure counts as answered only when the client acknowledged the very
\* serial the transaction sent, never an older one.
AckedMeansAcked ==
  \A w \in Windows :
    windows[w].configure_state \in {"acked", "committed", "timed_out_acked"}
      => "tracked" \notin windows[w].unacked

(***************************************************************************)
(* What a step may not do.                                                 *)
(***************************************************************************)
\* Frame perfection: unless the 100 ms timer fires, the render sequence starts
\* only when every window of the transaction has committed its new buffer.
NoTornFrame ==
  [][ (\E w \in Windows :
         /\ Tracked(windows[w])
         /\ windows'[w].configure_state \in {"timed_out", "timed_out_acked"})
      => HandleTimeout ]_vars

\* The life of an XDG window that unmapped ends in finishUnmap, which closes its
\* policy object, before the window is used for another mapping: in a manage
\* sequence or in the initial commit of that mapping, whichever comes first.
ClosingIsTornDown ==
  [][ \A w \in Windows :
        /\ windows[w].impl = "toplevel"
        /\ windows[w].state = "closing"
        /\ windows'[w].state # "closing"
        => windows'[w].state \in {"init", "ready"} /\ ~windows'[w].object ]_vars

(***************************************************************************)
(* Liveness, under Fairness.                                               *)
(***************************************************************************)
\* Whatever the clients do or fail to do, a closing window is torn down, its
\* memory is freed if its role object is gone, and the stashed frame that
\* stands for it is dropped.
ClosedWindowsGo ==
  \A w \in Windows :
    /\ windows[w].state = "closing" ~> windows[w].state # "closing"
    /\ windows[w].impl = "destroying" /\ windows[w].state = "closing"
         ~> windows[w].impl = "none"

\* A manage sequence is always followed by a render sequence, even if windows
\* or the window manager client never answer.
ManageLeadsToRender ==
  wm.state \in {"manage", "inflight_configures"}
    ~> wm.state \in {"render", "idle"}

(***************************************************************************)
(* What all this promises a user of the transaction.                       *)
(***************************************************************************)
Late == {w \in Windows : windows[w].configure_state \in {"timed_out", "timed_out_acked"}}

Abstract ==
  INSTANCE FrameTransaction WITH phase <- wm.state, awaiting <- Awaited, late <- Late

\* Handlers that call each other, counters and flags amount to the abstract
\* transaction: the frame is shown when the last awaited window has answered or
\* at the deadline, and only the deadline leaves a window behind.
ImplementsFrameTransaction == Abstract!Spec
=============================================================================
