# Aqueous: verification of the compositor core

TLA+ modules, TLC runs and TLAPS proofs about the Aqueous Wayland compositor
(`src/compositor/aqueous`, a descendant of river). `PROJECT.json` holds the map from
every definition to the lines it models, the runs, one mutant per checked property,
the hazards and the findings.

## 1. The system

The compositor is one single-threaded process; helper processes of the settings
application save its configuration. libwayland's event loop calls its
handlers: client requests, wlroots signals, timers, file descriptors, and an *idle
list* that is run until it is empty before the loop polls again. A handler runs to
completion, so the hard behaviours do not come from threads. They come from handlers
that call each other synchronously in the middle of their own work, from what
happens *between* two handlers of one protocol exchange (configure ... ack ... commit;
commit of a frame ... its presentation), from timers that race late answers, and from
objects whose role, surface, policy object and memory end at four different times. The
helpers add what processes add: they run at the same time under a file lock, they are
killed between any two system calls, and what they leave on the disk is all that the
next one knows.

### Inventory

| component | state it keeps | operations | hard behaviour | what makes it correct |
|---|---|---|---|---|
| **WindowManager** (`WindowManager.zig`) | sequence state, count of configures in flight, three dirty flags, idle source, timer, bound client | dirty*, manage/render start and finish, timeout, bind/stop/destroy | count shared by all clients; decrement to zero runs the render sequence on the caller's stack; deadline vs. late answers | exact count, no lost wakeup, every manage sequence ends |
| **Window, XdgToplevel, XwaylandWindow** | life-cycle state, tracked configure, link in the rendering list, stashed frame, policy object | map, unmap, commit, ack, destroy; the per-window part of each sequence | four life times of one window; remap before teardown | no torn frame, closed windows go, no `unreachable` |
| **LockManager, LockSurface** | lock state, 200 ms timer, two scene trees, lock object | lock, unlock, destroy, timeout, maybeLock | client dies at any moment; last presentation completes the lock | session hidden before `locked` is sent, lock survives its client |
| **Output** (lock accounting) | `lock_render_state`, frame in flight | frame, present, modeset, unplug | a presentation is accounted by the state of the last commit, a modeset's frame is not accounted at all | state never claims more than the screen shows, but for a modeset's frame |
| **OutputMirror** | commit sequence of its copy | frame by copy, reset | a copy of the session still in flight when the lock starts | its presentation does not count as blank |
| **DisplayPreview**, with the output states of **OutputManager** | lease, deadline, per-output completion; scheduled, sent and current state of each output | begin, submitting, presented, applied, failed, revert, authorise, finalise, tick | deadline vs. durable commit; presentations of three configurations in one stream; requests that compete with the rollback | offered only when seen, kept only when saved, reverted only when restored; every lease ends |
| **ConfigTransaction**, with the helper's **receipts**, **operations** and **root** | journal, files; intents, decisions, results | apply, status, load; commit, recover | crash between any two writes, crash in recovery, failing writes, foreign edits, retries of one id | all old or all new; done once; answers stay true; no edit overwritten |
| IpcServer, ShellManager | bounded buffers, one pending reply, subscriptions, grants | read, consume, enqueue, flush, close | slow readers, deferred service that closes clients | bounded memory, replies in order, each grant used once |
| output_retry, OutputWarming | backoff, wrapping commit numbers | failed, committed, presented | stale and future presentations at the wrap | only the recovery commit or a later one ends recovery |
| slotmap | slots, generations, free list | put, remove, get | stale handles, generation wrap | a removed key resolves to nothing |
| WorkspaceManager | workspaces, their outputs | create, move, output removal and return | outputs leave and return in any order | each window on one workspace |
| Seat, Cursor, input relay | focus, grabs, input methods | focus, enter, grab, destroy | focus while locking; destroyed targets | a locked session gets no input |
| Integrated policy (`wm/`) | stacks, layouts, rules, focus history | one pass per manage sequence | stale handles across transactions | data: best tested |
| Overview, switcher, snap and bell overlays | transient views | open, update, close | follow window destruction | as focus |
| InputActivityManager, FifoManager, CommitTimingManager | queues, barriers | subscribe, latch, release | barriers released by presentation | a barrier is always released |
| Xwayland grabs, override redirect, DRM leases, toplevel drags | a few pointers each | create, destroy | destruction order | no dangling pointer |
| ChildProcesses | pids | spawn, reap | signals | every child reaped |
| Rendering (`render/`) | GPU resources, caches | draw | outside TLC's reach | - |
| aqueousctl, settings application, portal picker | - | sequential clients | - | - |

Interactions. Clients talk to Window objects through the XDG shell or Xwayland; all
their handlers end in `WindowManager.dirty*` or `notifyConfigured`. The window manager
client and the integrated policy answer manage sequences. `renderFinish` schedules
frames on every output; each output's frame and presentation report to LockManager,
to DisplayPreview and to the retry logic. LockManager switches scene trees that every
frame reads, and resets mirrors. OutputManager commits modesets that submit frames
outside of the frame handler. The configuration helpers share ConfigTransaction's
journal with DisplayPreview's reconciliation.

## 2. Modules

| module | what it is |
|---|---|
| `Transaction` | The frame transaction: WindowManager, Window, XdgToplevel, XwaylandWindow, WmNode. |
| `FrameTransaction` | What a transaction promises: `phase`, windows awaited, windows late. `Transaction` implements it. |
| `MCTransaction` | Instance for TLC; `tx.cfg`, `tx_live.cfg`, `tx_remap.cfg`, `tx_stop.cfg`. |
| `SessionLock` | LockManager, lock surfaces, `lock_render_state`, mirrors, modesets, unplugging. |
| `LockContract` | What a session lock promises: `phase`, the outputs the session is visible on, those it is visible on behind the lock's back (`stray`), whether a client was told. `SessionLock` implements it. |
| `MCSessionLock` | Instance for TLC; `lock.cfg`, `lock_client.cfg`, `lock_leave.cfg`, `lock_modeset.cfg`. |
| `ConfigCommit` | ConfigTransaction with the helper's receipts: lock, journal, files, recovery, answers, in processes that crash. |
| `AtomicSave` | What saving promises: files, operations done, files edited. `ConfigCommit` implements it. |
| `MCConfigCommit` | Instance for TLC; `commit.cfg`, `commit_live.cfg`. |
| `DisplayPreview` | The lease, the output states it is carried through, the helper that saves it. |
| `PreviewContract` | What a display preview promises: `phase`, the configurations all screens show, whether a saving was authorised, what came of it. `DisplayPreview` implements it. |
| `MCDisplayPreview` | Instance for TLC; `preview.cfg`, `preview_sync.cfg`. |
| `Transaction_proofs`, `TransactionSteps_proofs`, `SessionLock_proofs`, `ConfigCommit_proofs`, `DisplayPreview_proofs`, `DisplayPreviewSteps_proofs`, `DisplayPreviewContract_proofs` | The theorems about each; the modules named `Steps` have those about steps, which need a second invariant or the refinement, and `DisplayPreviewContract_proofs` that the preview implements its contract. |

`DisplayPreview` stands on the two others by what they promise, not by their text: the
window manager's transaction is its two ends (a manage sequence takes the scheduled
states, `commitOutputState` comes with its render sequence), and the files are the
phases of the journal that `ConfigCommit` goes through. A lock is a Boolean to it.

### How handlers become definitions

Handlers call each other. A commit that answers the last configure runs
`notifyConfigured`, `renderStart`, `renderFinish` and the teardown of other windows
before it returns. Each function of the code is therefore an operator from a program
state `[wm, windows, panic]` to a program state, or to the set of those it may lead to
when policy or a client has a choice on the way. The operators are composed as the
functions are, and an action is one event of the event loop. `panic` becomes TRUE where
the code would reach an `assert` or an `unreachable`.

`Transaction`:

| state | code |
|---|---|
| `wm.state`, `wm.inflight_configures`, `wm.timeout`, `wm.object` | fields of `WindowManager`; `timeout` is whether the timer is armed |
| `wm.dirty`, `dirty_lazy`, `rendering_dirty`, `dirty_idle` | `scheduled.dirty`, `scheduled.dirty_lazy`, `rendering_scheduled.dirty`, `dirty_idle`; `"draining"` is an idle source queued from within an idle callback, which runs before any client is served |
| `windows[w].impl`, `state` | `Window.impl`, `Window.state` |
| `windows[w].configure_state` | `XdgToplevel.configure_state`; serials are "tracked" or "other" |
| `listed` | the node is linked in `rendering_requested.list` |
| `saved` | the stashed frame is shown instead of the surface |
| `object` | an `aqueous_window_v1` exists for the window |
| `surface`, `unacked` | the phase and outstanding configures wlroots enforces (external) |

Events: the idle callback, the timer, `RequestManage` (whatever only dirties the
windowing state), the window manager client (bind, manage_finish, render_finish,
manage_dirty, stop, destroy, destroy of one window object) and, per window, XDG and X11
clients (create, initial commit, ack, commit, map, unmap, destroy). Clients may stop
at any point and never answer.

`SessionLock`:

| state | code |
|---|---|
| `manager.state`, `lock`, `lock_surfaces_timer` | fields of `LockManager` |
| `manager.locked_sent` | the held lock has been sent `locked` |
| `manager.normal_tree`, `locked_tree` | the enabled flags of the two scene trees |
| `outputs[o].lock_render_state`, `mirror`, `enabled` | `Output.lock_render_state`, `current.mirror_of`, `wlr_output.enabled` |
| `submitted`, `shown` | what the frame in flight and the screen let be seen: `"session"`, `"hidden"` (nothing of it), or `"stray"`, which is the session in a frame that a modeset committed while `lock_render_state` said otherwise |
| `stale` | the mirror's `commit_seq` is not that of the frame in flight |
| `surface` | a mapped lock surface for the output |

`submitted` and `shown` are not in the code. They are the ground truth that
`lock_render_state` is an account of, and whether they are the session is computed from
the scene trees, never from the account. A modeset may happen in any state of the lock; it
submits a frame of its own and, like `commitOutputState`, leaves the account as it is. The
tag `"stray"` remembers that a frame of the session came this way, on an output whose state
was neither `pending_unlock` nor `unlocked`; it changes nothing of what happens next. With
it the properties can say exactly how far the lock can be relied on: apart from stray
frames, always; and once the session is locked no stray frame is added to those there are.
That there may be some at all is what `lock_modeset` shows.

`ConfigCommit`:

| state | code |
|---|---|
| `disk` | the configuration files; a content is the operation that wrote it, `Base`, or what an editor left |
| `journal` | `active.json`: `phase`, `operation_id`, the entries' `before` |
| `intent`, `decision`, `result` | the three receipt files of each operation id |
| `holder` | who has the writer lock (`flock`, so a crash releases it) |
| `run` | the holder's local variables: the task (`begin`, `status`, `load`, `apply` before its commit, `commit`, `abort`), the step it is at, the entries left, the file in hand, what it read, `Control.saved` |
| `stage`, `op`, `answer` | where a process is between two critical sections: admitted, reloading, executed with an answer to give |
| `expired` | ids older than `lifetime_seconds` |
| `committed`, `told`, `runs`, `reloads`, `raced` | history: operations whose journal became durable as committed, what was said about each, how often it was carried out; whether an edit slipped between the last look at a file and its replacement |

Each step is one durable change (a rename, an unlink) or one decision from what was
read. A process may die at each, and any write may fail before or after it took effect,
which the code cannot tell apart: it goes on to `recover`, as `commit`'s caller does.

`DisplayPreview`:

| state | code |
|---|---|
| `lease` | `DisplayPreview.lease`; `due` is `now() >= deadline_ms`, `moved` that `display_revision` is not the lease's |
| `lease.items[o]` | `adaptive_sync_target`, `submitted`, and the two flags of `Policy.Completion`; its baseline is `fresh` on the frames in flight |
| `outputs[o].scheduled`, `sent`, `current` | the three `Output.State`s |
| `hw`, `sync` | what wlroots reports: the mode it is in, `adaptive_sync_status` |
| `flight`, `shown` | frames committed and not yet presented, the last one that reached the screen (ground truth) |
| `fullscreen` | what `adaptiveSyncTarget` reads of windows, workspaces and the overview |
| `blanked` | history: a power client turned the output off |
| `session.away` | history: the session was inactive at some time |
| `wm` | `server.wm.state` is idle or not, `scheduled.dirty` |
| `files` | the helper that holds the writer lock, the journal's phase, the decision |

The functions of `DisplayPreview.zig` call `revert` from everywhere and are called in the
middle of `commitOutputState`, `handleDestroy` and the timer; they are operators on
`[outputs, lease, dirty]`, composed as the calls are.

### Abstractions

* Geometry, decorations, stacking and the content of requests are left out; a manage
  sequence asks of each window nothing, a state change, the size it has, or a new size.
* `addIdle`, `timerUpdate` and allocation do not fail.
* `refreshSuspension` and input events queued during a sequence are one Boolean
  choice, `redirty`.
* Placement by the integrated policy is an arbitrary set of unlisted active windows.
* wlroots is modelled from how the code relies on it: a surface is unmapped before its
  role is destroyed, the outstanding configures are forgotten on unmap, `unlock` is
  accepted only after `locked`, a second lock is denied while one is held, and
  destroying a lock destroys its surfaces.
* One frame per output is in flight. A modeset's own frame replaces it.
* `ConfigCommit`: the precheck of all files is one step, and entries are written in any
  order. A write is durable when it is renamed: a crash is that of a process, not of the
  machine. The same id always comes with the same request. Operations without an id,
  receipt capacity, backups and unchanged applies other than those of a preview are left
  out; an admission that finds the lock busy has no effect and is no step.
* `DisplayPreview`: one lease per behaviour, which ends with it; states of an output are
  reduced to modes (layout positions move with them); every output is an item of the
  lease, and a candidate turns it on or off, never dark. `begin`'s admission checks have passed. The helper takes the lock and is
  authorised in one step. Frames and requests that change nothing are left out. What the
  backend finds when it tests a rollback is a choice of the environment, but a state
  without a lit screen never passes, as in `testStates`. The writer lock is held by the
  helper or by nobody; others show only by the recovery they leave (`OtherRecovers`).
  While the session is inactive the backend takes no modeset and no frame. The second try
  without adaptive sync is not made while a preview is active (`retainAdaptiveSync`).
* Focus is not modelled; frames skipped for lack of damage are frames that do not
  happen.

## 3. Runs

| run | instance | asks | result |
|---|---|---|---|
| `tx` | 2 windows (symmetric), integrated policy beside a window manager client, which may `stop`; safety | `TypeOK`, `NoUnreachable`, `CountIsExact`, `NoLostWakeup`, `FrozenFrameIsScheduled`, `AckedMeansAcked`, `NoTornFrame`, `ClosingIsTornDown`, `ImplementsFrameTransaction` | pass, about 443,000 states |
| `tx_live` | 1 window, no `stop`, fairness | `ClosedWindowsGo`, `ManageLeadsToRender` | pass, about 2,800 states |
| `tx_remap` | 1 window, integrated policy only, remap allowed while a configure is tracked | `NoUnreachable` | violated (finding) |
| `tx_stop` | 1 window, client only, `stop` allowed, fairness | `ManageLeadsToRender` | violated (finding) |
| `lock` | 2 outputs, at most one of them a mirror, modesets in every state of the lock, no fault, fairness | `TypeOK`, `NoUnreachable`, `LockedHidesSession`, `LockRenderStateIsTruthful`, `ClientKnowsLocked`, `LockSurvivesClient`, `ImplementsLockContract`, `LockCompletes` | pass, about 76,000 states |
| `lock_client` | the client may go away while its surfaces are awaited | `NoUnreachable` | violated (finding) |
| `lock_leave` | outputs may leave while the rest are blanked | `LockCompletes` | violated (finding) |
| `lock_modeset` | as `lock`, safety | `LockedOutputsAreBlank` | violated (finding) |
| `commit` | 2 processes (symmetric), 2 files, an operation that changes both and one that confirms a preview and changes one, 2 troubles; safety | `TypeOK`, `OnlyCommittedContent`, `HonestReports`, `AtMostOnce`, `EditsSurvive`, `DecisionStands`, `ImplementsAtomicSave` | pass, about 2,080,000 states |
| `commit_live` | 2 processes, 2 files, one operation asked for twice, 2 troubles, fairness | `ProcessesEnd`, `RecoveryCompletes` | pass, about 65,000 states |
| `preview` | 2 outputs, one with adaptive sync, a plan that changes one and turns the other off, 2 troubles, fairness | `TypeOK`, `DeadlineNeverOvertakesSave`, `PowerOffStands`, `KeepOffersWhatIsSeen`, `KeptIsShownAndSaved`, `RevertedMeansRestored`, `ImplementsPreviewContract`, `LeaseEnds` | pass, about 640,000 states |
| `preview_sync` | 1 output | `HardwareIsNotBlamed` | violated (finding) |

### Bounds

* **Two windows.** The count couples windows only through its value and through the
  synchronous render sequence. With two, one window can be answered, closing or late
  while another is awaited, which is every pairing the code distinguishes; each window's
  own states are complete. No counter needs a bound: the count is at most the number of
  windows and everything else is finite.
* **Two outputs.** `maybeLock` quantifies over outputs; two are enough for one of them
  to be behind, to leave, to mirror the other or to be lit while the other is dark. At most
  one is a mirror, because `prepareSpecs` refuses a second one.
  `SessionLock_proofs` removes the bound for safety.
* `tx_live` has one window because liveness of a window depends on others only
  through the count, which `tx` covers, and symmetry is not sound for liveness.
* **`commit`: two processes, two operations, two files, two troubles.** One process can
  find what another left half way, and be left half way itself (crash in recovery), or
  meet an edit after a crash; two operations overlap in one file, so that the content
  `before` of one is the content of the other; two files are the least that can be torn.
  `ConfigCommit_proofs` removes every one of these bounds for safety.
* **`preview`: two outputs, one plan, two troubles, one frame in flight.** One item can
  have arrived while the other is missing, rejected, dark or late; the plan turns one
  screen off, so that unplugging the other leaves a rollback without a lit screen and
  asks for the fallback. Two troubles are the least with which one happens to the
  preview and one to its rollback. A frame in flight is of the state before or after
  the baseline, which is all `Completion.observe` tells apart. The proofs about
  `DisplayPreview` need none of these bounds: with several frames of three
  configurations in flight, `DisplayPreviewSteps_proofs` covers what one frame cannot.
* `preview_sync` needs one output and one trouble.
* `Mode = "compare"` runs the integrated policy and admits a client, and so contains
  the behaviours of `"internal"` and of `"external"`.

### Parameters that exclude what the code gets wrong

`RemapInTransaction`, `WmMayStop` and `Faults` restrict the environment where the
unrestricted system violates a property.

* `RemapInTransaction`, `WmMayStop`, `"client"` and `"leave"` have a `violation` run each.
* `"mirror"` has none. A mirror that has submitted a blank frame is `pending_blank`. If a
  modeset makes it an ordinary output once the session is locked, its next frame meets the
  `unreachable` at `Output.zig:2537`. If a modeset commits a frame of it after the session
  was unlocked again, `OutputMirror.capture` (151-158) records that frame's commit number, so
  that its presentation counts as that of the blank frame and calls `maybeLock` of an
  unlocked session, the `unreachable` at `LockManager.zig:175`. `DisturbsMirror` names
  exactly these two modesets; every other one, save those of `"leave"`, is part of the passing
  run. With `Faults <- MirrorFaults` in `lock_client.cfg` TLC runs into the latter.
* A modeset that commits a frame of the session while the lock is pending is *not* excluded:
  `lock` contains it, and its properties except stray frames by name.

### Fairness

* `WF(DirtyIdle)`, `WF(HandleTimeout)`: libwayland runs its idle list and an armed
  timer expires. Nothing is assumed of clients.
* `WF(LockSurfacesTimeout)`, for the same reason.
* `SF(Frame)`: an enabled output gets frame events again and again, since a render
  sequence schedules one on each and the lock schedules render sequences.
* `WF(Present)`, and `SF(Present)` with the sequence number of the last commit: failed
  presentations and the resets that make a mirror's frame count for nothing do not go on
  for ever.
* `<>[][UNCHANGED Configuration]_vars`: users and monitors leave the outputs in some
  configuration in the end. Modesets may still happen, but none that turns an output on or
  off or makes it a mirror; the lock is not promised to complete while monitors keep
  coming and going.
* `commit_live`: `WF(Work(p))` for each process: a process that has not died goes on.
  The lock is never waited for: who finds it busy gives up.
* `preview`: `TimerFairness` is weak fairness of the lease's timer (every tick arms the
  next one), written with its enabling condition spelt out, as TLC evaluates ENABLED of
  the nested operators far too slowly; `WF(Elapse)`: the clock advances; and weak fairness
  of a helper that holds the lock: it goes on, or dies. `LeaseEnds` relies on no
  presentation, no manage sequence, no answer and no client, only on a session that
  stays active in the end.

### Findings

1. **Remap keeps a tracked configure** (`tx_remap`). `finishUnmap` does not reset
   `configure_state` and unlinks the window from the list `renderStart` walks. Unmap
   and initial commit before the answer, the deadline, and a manage sequence that
   configures the window reach the `unreachable` of `XdgToplevel.configure`.
2. **`stop` in a manage sequence** (`tx_stop`) leaves the compositor in `manage` for
   ever, against "A manage sequence is always followed by at least one render sequence".
3. **A lock client that goes away while its surfaces are awaited** (`lock_client`)
   leaves the session's tree enabled in `waiting_for_blank`; the next frame fails the
   assertion.
4. **The last unblanked output leaves** (`lock_leave`): no event calls `maybeLock`
   again, and the lock is never complete.
5. **A modeset while the session is being locked** (`lock_modeset`). A monitor that is
   plugged in or enabled in the first 200 ms of a lock gets a frame of the session from
   `commitOutputState` (`OutputManager.zig:891, 919`) and still counts as `blanked`. When
   the timer fires every output is "blanked" and `locked` is sent, while that output shows
   the session until the frame scheduled after the modeset replaces it. The same happens
   when the lock is requested between the modeset and that frame.
6. **A preview is withdrawn for a change of windows** (`preview_sync`). `submitting()`
   provides for a changed target of adaptive sync: the preview is shown again and the
   question stays. But the 100 ms timer compares the hardware with the target as it is
   *now*; when it fires between the change and the commit that follows, it reverts the
   preview with `hardware_state_changed`. In `preview` itself this is a rollback like any
   other, and the properties hold with it.

Three facts the models made plain and no document of the repository contradicts. A rollback
caused by hotplug, a power request or a refused set may start while the helper is still
writing, so the files can be saved after the screens went back (the comment at
DisplayPreview.zig:314-315 is about the deadline only, and that holds:
`DeadlineNeverOvertakesSave`). And an operation that has no file to change can be told
"failed" although its journal was committed; `HonestReports` leaves it out. Adaptive sync
is promised for less than modes are: `KeepOffersWhatIsSeen` asks for the sync of the last
frame only if the session was never away, and `RevertedMeansRestored` asks for the mode
only. For more there are counterexamples with three troubles: a window that goes
full-screen, a session that leaves and returns within a tick, and the window leaving
again; or a power cycle during a rollback while a window goes full-screen.

## 4. Proofs

`Transaction_proofs` and, for the last three, `TransactionSteps_proofs` prove, for every
finite set of windows and every `Mode`, with or without a window manager client that may
stop:

| theorem | statement |
|---|---|
| `Invariance` | `Spec => []IInv` |
| `TypeCorrect` | `Spec => []TypeOK` |
| `NothingUnreachable` | `Spec => []NoUnreachable` |
| `CountExact` | `Spec => []CountIsExact` |
| `WakeupKept` | `Spec => []NoLostWakeup` |
| `FrozenScheduled` | `Spec => []FrozenFrameIsScheduled` |
| `Acknowledged` | `Spec => []AckedMeansAcked` |
| `FramesWhole` | `Spec => NoTornFrame` |
| `ClosedAreTornDown` | `Spec => ClosingIsTornDown` |
| `Refinement` | `Spec => ImplementsFrameTransaction` |

*Assumptions*: the ASSUMEs of `Transaction` and `Careful == ~RemapInTransaction`.

*Argument*. `CountIsExact` is not inductive by itself: that an answer is counted exactly
once depends on which windows are tracked, which depends on where each window is in its
life (only a listed XDG window that is initialized, mapped or closing is), which in turn
depends on its surface and its role object. `IInv` has three layers. `Base` relates, per
window, role object, life-cycle state, surface, policy object and configure, and ties
them to the phase and the dirty flag. `Woken` says that an idle dirty compositor has a
callback, `Counts` that the counter is the cardinality of the awaited set. Inside of a
handler only `Base` holds, and `Answered` says that the counter is one ahead while an
answer is being counted; the lemmas about `manageFinish`, `renderStart`, `renderFinish`
and `notifyConfigured` start from there and end in a good state, so every handler that
calls them is covered by citing them. `NotifyConfiguredKeeps` is what makes the nested
call in a destruction handler safe: the render sequence does not tear down the window
whose handler it runs in. The theorems about steps use two relations between program
states that compose as the calls do: `Timely`, what a step other than the deadline does
to the phase, the windows awaited and those that are late, and `Buries`, what becomes of
windows that are closing. Each action but the deadline is shown to be a `TimelyStep`, so
`FramesWhole` follows from the late windows getting fewer, and the refinement from the
cases of `Timely`.

`SessionLock_proofs` proves, for every finite set of outputs:

| theorem | statement |
|---|---|
| `Invariance` | `Spec => []IInv` |
| `TypeCorrect` | `Spec => []TypeOK` |
| `NothingUnreachable` | `Spec => []NoUnreachable` |
| `SessionHidden` | `Spec => []LockedHidesSession` |
| `StateTruthful` | `Spec => []LockRenderStateIsTruthful` |
| `ClientInformed` | `Spec => []ClientKnowsLocked` |
| `LockSurvives` | `Spec => LockSurvivesClient` |
| `Refinement` | `Spec => ImplementsLockContract` |

*Assumptions*: the ASSUMEs of `SessionLock` and `Careful`, which says that the client does
not go away while its surfaces are awaited ("client") and that no modeset disturbs the
blank frame a mirror owes ("mirror"). Without either `NothingUnreachable` is false. "leave"
is allowed: it breaks liveness only. Modesets at any moment of a lock are allowed too, and
so `SessionHidden`, `StateTruthful` and `Refinement` are about everything but stray frames.

*Argument*. `LockedHidesSession` is not inductive: that nothing shows the session when
`locked` is sent depends on each output's account having been truthful while the lock
was pending. `IInv` therefore states how the scene trees, the timer and the lock follow
`LockManager.state`; that an account which claims blankness bounds both the screen and,
like one which claims that a blank frame is pending, the frame in flight, except for stray
frames (`HiddenInv`); and that in an unlocked session only a mirror, whose presentation will
be ignored, may still be `pending_blank` (otherwise its presentation would call
`maybeLock`). A modeset keeps `HiddenInv` for the reason the tag was made: a frame of the
session that it submits is stray precisely when the account would be contradicted. In the
locked state it submits none, as both the trees and the mirrors are black by then. `IInv` is
a predicate on program states, so it passes through handlers that call each other:
`MaybeLock` and `HandleDestroy` are shown to preserve it wherever they are called, and
`NextStep` has one lemma per action. `Refinement` maps each step to a step of
`LockContract` or a stutter: `PhaseStep` says what becomes of the phase, `StrayFades` that
no stray frame is added by the step that completes the lock nor by any after it, and that
the rest of the session is out of view at `Secure` follows from `IInv`. TLC checked `IInv`
as an invariant first.

`ConfigCommit_proofs` proves, for any sets of processes, files, operations and contents
and any number of troubles:

| theorem | statement |
|---|---|
| `Invariance` | `Spec => []IInv` |
| `TypeCorrect` | `Spec => []TypeOK` |
| `ContentCommitted` | `Spec => []OnlyCommittedContent` |
| `Honest` | `Spec => []HonestReports` |
| `OnceOnly` | `Spec => []AtMostOnce` |
| `EditsKept` | `Spec => EditsSurvive` |
| `DecisionsStand` | `Spec => DecisionStands` |
| `Refinement` | `Spec => ImplementsAtomicSave` |

*Assumptions*: the ASSUMEs of `ConfigCommit` only.

*Argument*. None of the properties is inductive: what a recovery does depends on what the
journal says of files that a process which is no longer there was writing. `IInv` has a
global part, which holds of the disk and the records whoever has the lock, and a part
about its holder. Global: a journal agrees with what was carried out and decided, and
each of its files holds the content before, the content after, or an edit
(`JournalInv`, `ContentInv`); an id is admitted once and worked for by one process
(`OnceInv`); what was said to be saved is committed (`SavedInv`); and of an operation
somebody was told has failed, nobody is left who could carry it out (`FailedInv`, `Over`).
Local: at each step, in which phase the journal is, which entries are left and what the
holder knows of them (`StepInv`, `CommitInv`, `TodoInv`). A crash erases the local part
and must leave the global one, which is why the global one is stated without the holder.
Most failing steps end in the same outcome, so that what it keeps is proved once.
`Refinement` maps the step that makes the journal durable as committed to the atomic
save of `AtomicSave`, and every other step to an edit, an answer or a stutter.

`DisplayPreview_proofs`, for the next three `DisplayPreviewSteps_proofs`, and for the last
two `DisplayPreviewContract_proofs` prove, for any set of
outputs, any plans and any number of troubles and of frames in flight:

| theorem | statement |
|---|---|
| `Invariance` | `Spec => []IInv` |
| `TypeCorrect` | `Spec => []TypeOK` |
| `DeadlineHolds` | `Spec => []DeadlineNeverOvertakesSave` |
| `PowerHolds` | `Spec => []PowerOffStands` |
| `KeptHolds` | `Spec => KeptIsShownAndSaved` |
| `FramesWitnessed` | `Spec => []SeenInv` |
| `OfferedIsSeen` | `Spec => KeepOffersWhatIsSeen` |
| `RevertedIsRestored` | `Spec => RevertedMeansRestored` |
| `OffersHold` | `Spec => []OfferInv` |
| `Refinement` | `Spec => ImplementsPreviewContract` |

*Assumptions*: the ASSUMEs of `DisplayPreview` only.

*Argument*. The functions of the preview are called from the middle of each other and of
the output manager, so the invariant is stated of the state `s` they work on, and each
function is shown to keep it wherever it is called. `Sound(s)` is `Safe(s)` (the types;
an output that a power client turned off has not got the state the lease gave it,
`DarkInv`; after the commit deadline there is only the rollback and how it ended,
`RollbackInv`) and `Candidates(s)`: while the helper may save the candidate, every output
is there, in the candidate's mode, and scheduled to be. A refused set breaks `Candidates`
until the handler has called `revert`, which is why `revert` is shown to need `Safe`
only, and to end in `Sound`. Each function also moves the lease only along `Moves`: none
of them authorises a commit, keeps the preview or finds the deadline passed; that is left
to the three actions that do, which `NextStep` treats by themselves. What links the lease
to the helper are `SentInv` (a set sent before the helper asked is the candidate too),
`DecidedInv` and `OvertakenInv`. `KeptStep` is the action property, proved with each
step of the induction.

What the screens show needs a second invariant, `SeenInv`, on top of `IInv`: an item of
the lease knows only that a presentation with a late enough sequence number came, while
the presentations of the old configuration, the candidate and the rollback come in one
stream. `FramesInv` says that for an item that counts presentations what was sent to the
hardware is what is scheduled, and `Faithful` what that is good for: frames are presented
in the order they were committed, so everything in flight behind a frame that counts is a
picture of what the item is after, and once the item was presented so is the screen and
everything still to come. `HardwareInv` says the same of the hardware between two frames;
it does not hold within a commit, which puts the hardware into its state before
`submitting` looks at it, and so the functions are shown to keep `Submitted`, the rest of
the invariant. `CandidateInv` is why arming an item is right: until it is given up the
candidate is what every output is scheduled to be, and the first item is armed only when
every output was sent it. Giving the candidate up resets all items (`GivenUp`), so that
nothing presented before is counted for the rollback. A frame is a picture of a lit
screen or of none, which is why states are compared through `Lit`; and of adaptive sync
nothing is claimed once the session was away: the expectation then changes and the
hardware does not follow, so that a frame drawn before may be counted, as the property
itself admits. TLC checked `SeenInv` on the instance of
`preview`, and for part of its states with two frames in flight and three troubles, it was proved.

The contract maps `waiting_session` and `reverting` to one phase, withdrawn, and
`invalidated` and `failed` to another, lost; what the screens show is the set of the two
configurations, of before and of after, that every output is in and has been shown. Two
of its promises are new. *No way back*: the functions move the lease only `Along` a path
on which a candidate that was given up is never offered, authorised or kept again, although
`applying` and `previewing` may alternate, and the timer passes through `applying` on its
way from `waiting_session` to the rollback: the proof shows that this step is always
completed by `revert` within the same call. *What is kept is seen*: that an output is in
the candidate's mode (`KeptHolds`) does not say what its screen shows, which was looked at
when the candidate was offered, two steps of the helper and any number of frames earlier.
`HeldInv` closes the gap: while the helper may save, no frame on its way is of another
configuration. It follows from `SeenInv` at the authorisation and from `Candidates`
afterwards. `FilesInv` says that a saving is decided once, after one authorisation. TLC
checked both on the instance of `preview` first.
(The contract does not say that a preview that is reverted was not saved, as the first of
the facts at the end of section 3 says: `Withdraw` and `Restore` leave the helper alone.)

Only model-checked: all liveness (`ClosedWindowsGo`, `ManageLeadsToRender`,
`LockCompletes`, `ProcessesEnd`, `RecoveryCompletes`, `LeaseEnds`), which is outside of
the prover's reach. Every invariant, action property and refinement of a passing run is
also a theorem.

## 5. Not modelled

Everything the inventory does not print in bold; the reasons are with the components in
`PROJECT.json`. Within the modelled parts: the failure branches of `addIdle` and
`timerUpdate`, allocation failure, shutdown, geometry; power loss that undoes a rename;
the admission checks of `begin` and the profiles that follow the lease.

## 6. What is left

1. A module for the IPC server and the shell extension: bounded queues, deferred service
   and closing, single-use grants.
2. Focus composed with `SessionLock` (a locked session gets no input), then workspaces.
3. `slotmap` refined to an abstract map; output retry against a reference definition of
   its wrapping comparisons.
