# A TLA+ model of mono

mono is a tiling Wayland compositor (a descendant of dwl) with dwindle tiling, an
infinite canvas per tag, layer-shell surfaces, a session lock and two protocols for
status bars. This directory holds TLA+ modules that model its window management, its
input and its configuration watcher, the TLC configurations that check them and TLAPS
proofs about them. Line numbers are those of `src/main.c` unless another file is
named.

## 1. The system

mono is single threaded. A Wayland event loop calls one handler at a time; a
handler runs to completion, and callbacks that it schedules (idle sources,
timers, frames) run later. There are no data races. What is hard is the order
of events: clients, outputs, lock clients, bars and the user act independently,
and each handler changes several lists and pointers that the others rely on.

| Component | State | Operations | What makes it correct |
|---|---|---|---|
| Windows, views, focus (`main.c`) | lists `clients`, `fstack`; `Client.mon/tags/leaving`, scene nodes; `Monitor.tagset/seltags`; `selmon`; keyboard focus | `mapnotify`, `unmapnotify`, `setmon`, `settags`, `view`, `toggleview`, `focusclient`, `focusmon`, `focusdir`, ... | the lists agree; what is shown is what the view shows; the keyboard follows the view; nothing loses its last tag |
| Outputs (`main.c`) | list `mons`, `enabled`, `asleep`, `output_layout` | `createmon`, `cleanupmon`, `closemon`, `updatemons`, `powermgrsetmode`, `outputmgrapplyortest` | windows leave outputs that go, stay on outputs that sleep, keep their tags, and come back; no dangling `Monitor *` |
| Session lock (`main.c`) | `locked`, `cur_lock`, `locked_bg`, `lock_surface` | `locksession`, `createlocksurface`, `destroylock*` | the lock holds across its client's death and every output change; one owner |
| Layer shell (`main.c`) | `layers`, `exclusive_focus` | `commitlayersurfacenotify`, `arrangelayers`, `unmaplayersurfacenotify` | a surface that goes gives the keyboard back |
| Pointer grabs (`main.c`) | `cursor_mode`, `grabc`, `preselect_target`, `panmon` | `moveresize`, `motionnotify`, `buttonpress` | a grab names a live window |
| Pointer constraints (`main.c`) | `active_constraint`, the seat's pointer focus | `createpointerconstraint`, `cursorconstrain`, `pointerfocus`, `motionnotify` | one constraint is active at a time, and it is that of the focused surface |
| Keyboards (`main.c`) | `KeyboardGroup.keysyms`, `key_repeat_source` | `keypress`, `keyrepeat`, `on_config_reload` | what repeats is held down, still bound, and not locked out |
| Dwindle trees (`main.c`) | `dwindle_root`, `dwindle_focus` per output and tag | insert, remove, move to an edge, swap | the leaves of a tree are the tiled windows of its tag, once each |
| Canvas (`main.c`) | `canvas_tags`, `incanvas`, `canvas_wasfloating`, world places, camera | `togglecanvas`, `canvas_layout`, `canvas_leave`, `setfloating`, `setfullscreen` | leaving restores what entering changed; a box is in the coordinates it is drawn with |
| Status (`main.c`, `ipc.h`, `ext.h`) | `status_idle`, `Monitor.status` | `printstatus`, `status_flush`, bind | bars converge to the state; one publication per burst |
| ext-workspace objects (`workspace.c`) | managers, groups, workspaces, resources, requests | bind, create, destroy, commit, idle done | every manager sees every object once; requests on dead objects are dropped |
| monomsg (`tools/monomsg`) | frame being read, chosen output | registry, frame, request | a command reaches the intended output once |
| Configuration (`parser.c`) | `Config`, Lua state, inotify watches | `config_watch_start`, `watch_dispatch`, `watch_target`, `config_load` | an erroneous file keeps the old configuration; the last change is loaded |
| Animations (`animation.h`) | slide, pop, snapshots | start, tick, cancel | state reached when an animation ends is the state without it |
| Autostart, XWayland glue, other input devices | processes, X11 windows, keymaps | | I/O, not modelled |

`PROJECT.json` lists the same components with their status, and under
`hazards` each thing that is hard to test, at its line.

## 2. Modules

**`Desk`** holds the state as one record and the functions of `main.c` that
transform it. A handler of mono calls `setmon`, `arrange`, `focusclient`,
`closemon` and `updatemons` in an order that matters, and these functions call
each other; each is an operator from desk to desk with the name it has in the
code, and a handler is the composition of its calls. Loops over the C lists are
recursive functions over the sequence (`MigrateAll`, `CloseDisabled`).
Commands that choose a window or an output by position return the set of desks
they may lead to, because positions are not part of a desk.

`updatemons` listens to the output layout that it changes itself:
`wlr_output_layout_remove` and `wlr_output_layout_add_auto` emit a change signal
before they return, so that all of `updatemons` runs in the middle of its own loops.
`Updated(d, again)` is one call of it, `again` what the nested calls do; `updatemons`
nests them one level deeper than there are outputs.

| Field | Code |
|---|---|
| `mons`, `clients`, `fstack` | the `wl_list`s, head first |
| `on`, `asleep`, `layout` | `wlr_output->enabled`, `Monitor.asleep`, membership in `output_layout` |
| `viewed[m]`, `previous[m]` | `tagset[seltags]`, `tagset[seltags ^ 1]` |
| `mon`, `tags`, `leaving`, `shown` | `Client.mon`, `.tags`, `.leaving`, enabled scene node |
| `kb` | the seat's keyboard focus: a window, a layer surface, the lock surface of an output, one whose output is gone (`OldSurface`), or nothing |
| `cursor_mode`, `grabc` | the pointer grab (`CurPressed` is `CurNormal`, `CurResize` is `CurMove`); `MoveBound` says whether the configuration binds `moveresize` at all |
| `lmon`, `grabs` | the output of a mapped top or overlay layer surface, and which are keyboard interactive |
| `locked`, `curlock`, `lockbg`, `locksurf` | `locked`, `cur_lock`, `locked_bg` enabled, `Monitor.lock_surface` |

**`Desktop`** makes one action of each event handler, in five groups (outputs,
windows, input, bars, shell), and states the properties. `KeyPress` and
`ButtonPress` run any command of `dispatch_action` that touches a desk.
wlroots is external: an output commit may fail (`Outcomes`), the layout has a
member or not, lock surfaces die with their lock, and a lock surface that its
client destroys may or may not still be in its lock's list when the compositor
looks; when an output goes, its surface certainly is. `destroylocksurface` gives
the keyboard to the `first` of that list, any member of it, as a desk does not hold
its order. If that is the surface itself, the seat keeps it after the output is
freed: `OldSurface`, until its client destroys it.

A change of a window's tags or output takes it out of the canvas, which ends a move
or resize of it (`canvas_cancel_grab`, called by `settags` and `setmon`); the rest of
`canvas_leave` is in `Canvas`.

**`Board`** is what ext-workspace-v1 promises a status bar, without groups or
workspaces: a bar is told facts one by one, and a `done` event makes all it was
told take effect. `told` is what a bar would show now, `seen` what it showed at
its last `done`. A bar joins with everything, leaves, or forgets an object; and
every change is followed by a `done` (weak fairness of `Done`).

**`Workspaces`** models `workspace.c` and its use by `ext.h` and `createmon`,
`cleanupmon` and `status_flush`. It is separate from `Desktop`: of the desk it
keeps the views and which tags have urgent windows, which `Change` sets freely,
because the question is what bars come to know and not how a view came about.

| Variable | Code |
|---|---|
| `groups`, `live`, `state` | `manager->groups`, `manager->workspaces` (each with its group), `workspace->state` |
| `ids` | the workspaces with a `handle->id` |
| `globals`, `bound[p]` | outputs with a `wl_output` global, outputs of which the client has a resource that is not inert |
| `bars`, `group_res[p]`, `workspace_res[p]` | `manager->resources`, and the live resources in its `group_resources` and `workspace_resources` |
| `requests[p]` | `manager_res->requests`; `None` is a pointer set to `NULL` by `clear_requests_by` |
| `status_idle`, `idle_source` | the idle sources of the same names |
| `told[p]`, `seen[p]`, `dropped[p]` | what the events sent so far amount to, what they amounted to at the last `done`, and what the bar gave up itself |

An event to a client is never lost or reordered on its socket, so sending it
changes `told` at once. A *fact* is a kind and the objects it is about. `Learn`
and `Unlearn` are the events that add and take back facts; an event that the
protocol forbids at that moment (a group announced twice, a workspace removed
while it is in a group) adds the fact `Garbled`, which no property allows.

`KeepsPromise` is the refinement: `Promise == INSTANCE Board` maps Board's
`bars`, `told` and `seen` to the variables of those names. `Bind` is `Join`,
`Stop` is `Leave`, `Destroy` is `Forget`, `HandleIdle` is `Done`, the other
actions are `Tell` or stutter. Since `seen` changes in `Done` only, no bar ever
acts on half a burst; Board's fairness follows from that of `HandleIdle`.

`Types` are the kinds of request that bars use.

External here are libwayland and wlroots: idle sources run once, in some order;
taking an output out of the layout destroys its `wl_output` global and makes the
clients' resources of it inert, so that no `output_leave` can be sent.

The dwindle layout is modelled at three levels.

**`Trees`** has ordered binary trees of windows without nodes: an inner node is a
split, the pair of the sets of windows in its two halves, and the set of the
splits determines the tree. `Opened`, `Kept`, `Removed` and `Swapped` are what
`dwindle_insert`, the pruning loop of `dwindle`, `dwindle_remove` and the swaps do
to such a tree; `Place` is what `dwindle_recalc` makes of a leaf.
**`Tiling`** is the abstract specification: one tree, and what may happen to it.

**`DwindleHeap`** has one tree as the code builds it: nodes with an address, two
child pointers and a parent pointer, allocated and freed. Each function of
3763-4010 is an operator of its name. `MeaningOf` reads a tree of splits off the
pointers; the variable `meaning` keeps what it reads after each step, and
`Implements` (`Promise == INSTANCE Tiling WITH tree <- meaning`) is the refinement:
whatever a function does to the pointers, it does to the tree what `Tiling` says,
and no window moves that should not.

**`Dwindle`** has the trees of every output and tag (`root`), the windows, and the
drag of a tile (`grabc`, and `target` for `preselect_target`). It uses the trees of
splits, as the refinement justifies. The anchor `dwindle_focus` and the cursor are
left out, so a function returns the set of its outcomes: a window may open at any
leaf, in either half. A box is the output and the place that a window was last laid
out for; boxes of windows that are not shown are forgotten (`Becomes`), which can only
make more tiles `Misplaced`. An output is always plugged here: `Unplug` gives it empty
trees and leaves it disabled. A drop on a preselected window without an output
dereferences `NULL` in the code and has no outcome in the model.

**`Canvas`** models what `main.c` does to a window's floating and fullscreen state,
its boxes and its scene layer, in every handler that touches any of them. As in
`Desk`, a function of the code is an operator, here on the windows and outputs. A
box is abstracted to the coordinates that its numbers are in, which is what the
bugs of this code are about: a box that is used in the wrong coordinates.

| Field | Code |
|---|---|
| `win[c].isfloating`, `.isfullscreen`, `.incanvas`, `.wasfloating` | the fields of `Client` (`canvas_wasfloating`) |
| `win[c].world` | `world_set`, and whether `world_x/y` came from the layout or from a drag, a command or the pointer |
| `win[c].geom`, `.prev` | the coordinates of `geom` and `prev`: the screen, the world, the whole output |
| `win[c].layer`, `.grab` | parent of the scene node; `cursor_mode`, if the window is `grabc` |
| `out[m].viewed`, `.canvas_tags`, `.tiled` | `tagset[seltags]`, `canvas_tags`, whether `lt[sellt]->arrange` is set |
| `scope` | a bound: the tags of one behaviour, and the outputs whose view, layout, mode and power change in it |

`togglecanvas` eases the zoom and lays out the canvas again in each frame; so do pan
and zoom, with no other effect on this state. All are `Relayout`.

**`Watch`** is the hot reload of `parser.c` against a file system that users change
between any two steps of the watcher. `watch_dispatch` is not atomic here, because
the kernel is not part of the event loop: `pc` goes from `idle` to `target` (events
read, before `realpath`), to `rearm` (before `inotify_add_watch`), to `load` (before
the file is read) and back.

| Variable | Code |
|---|---|
| `entry`, `text` | what the configured path is (a file of its own, or a link into a directory), and the text of each file: none, half written, one that loads, one that does not |
| `events`, `watched`, `target_wd` | unread inotify events; watched directories; the descriptor of that name (a descriptor is the directory it watches) |
| `cfg`, `g_L` | the configuration in use, and the one whose Lua state is in use |
| `missed` | a history variable: whether there is a change that the watcher cannot know of, see section 3 |

**`Seat`** is the input side: bindings with their repeat timer, and the pointer
focus with the constraints of clients (`zwp_pointer_constraints_v1`), both against
the session lock. The cursor is abstracted to the window under it.

| Variable | Code |
|---|---|
| `held`, `bound`, `repeat_info` | the keys that are down; the configuration's bindings and whether its repeat delay and rate are positive |
| `repeats`, `timer` | `group->keysyms` and `nsyms`; whether `key_repeat_source` is armed |
| `ran` | the binding that the last step ran |
| `locked`, `cur_lock`, `lockscreen` | `locked`, `cur_lock`, whether the scene has a lock surface |
| `down`, `cursor_mode`, `drag` | how many buttons are down; `CurPressed` from a press to the next release of any button; `seat->drag`, which ends at the latest with the last button |
| `pointer.focus`, `.constraint`, `.active` | the seat's pointer focus, the constraint of each window, `active_constraint` |
| `pointer.told` | the clients that were told that their constraint is active and not yet that it is not |

`cursorconstrain` tells the old client before the new one, wlroots destroys a
one-shot constraint while it is told, and the destruction comes back to
`destroypointerconstraint`; `send_deactivated` makes that nested call.

**`DesktopMC`**, **`WorkspacesMC`**, **`DwindleHeapMC`**, **`DwindleMC`**,
**`CanvasMC`**, **`WatchMC`** and **`SeatMC`** give values to the constants that a
`.cfg` cannot write, and the symmetry sets.

**`Loops`**, **`DesktopProofs`**, **`DwindleProofs`**, **`HeapProofs`**,
**`CanvasProofs`**, **`WorkspacesProofs`**, **`WatchProofs`** and **`SeatProofs`**
hold the proofs (section 4).

Operators introduced by a comment `Mutant:` are wrong variants of the operator
after them. They are not used by the specification; each one, put in the place
of the operator it varies, breaks a property, which shows that the property
depends on that code.

## 3. What TLC checks

Nothing bounds the behaviours of an instance: every reachable state of it is
visited. Each is as small as its question allows, because two windows, two
outputs and two tags together are already out of reach (more than 2.7 million
desks). Deadlock checking is off where a system without outputs, windows or
clients may just wait.

| Run | Instance | Properties | States |
|---|---|---|---|
| `Views` | 2 windows, 1 output, 2 tags, animations, a rule for tag 2, `MoveBound` | `TypeOK`, `ShownIsVisible`, `TagsNonEmpty`, `KeyboardFollowsView`, `OutputsKeepTags` | 267,108 |
| `Evacuation` | 2 windows, 3 outputs, 1 tag | `ListsAgree`, `Evacuated`, `Adopted`, `PluggingMovesNothing` | 63,781 |
| `Lock` | 1 window, 2 outputs, 1 layer surface, 2 lock clients, commits may fail | `LiveMonitors`, `LockHolds`, `LayoutIsUsable`, `LockedKeyboard`, `LockOwnership`, `SleepKeepsWindows` | 78,912 |
| `Bars` | 1 output, 2 tags, one with urgent windows, 1 bar, requests of all types | `Mirror`, `QueueIsLive`, `KeepsPromise`, `EventuallySeen` | 321,928 |
| `Heap` | 4 windows, 7 nodes | `Linked`, `PrunesExactly`, `Implements` | 8,517 |
| `Tiles` | 2 windows, 1 output, 2 tags | `TreesAreSound`, `LeavesAreTiles`, `TilesAreInPlace` | 430,216 |
| `Preselect` | 2 windows, 1 output, 1 tag | refutes `DragEnds` | |
| `Canvas` | 1 window, 2 outputs, 2 tags, both scopes | `TypeOK`, `FloatingSurvivesCanvas`, `BoxesKeepCoordinates`, `FullscreenKeepsSpot`, `LayersFollowState` | 241,324 |
| `CanvasEntry` | the same, only the tags of one output | refutes `EntryTakesPositions` | |
| `Watch` | 2 directories, 2 texts that load, 1 that does not | `UpToDate`, `CallbacksHaveState`, `ChangesAreLoaded` | 517,191 |
| `Retarget` | the same | refutes `TargetRecovered` | |
| `Seat` | 2 keys (one switches VTs), 2 buttons, 2 windows, 2 kinds of constraint | `RunsWhatIsHeld`, `OneConstraint`, `ConstraintIsFocused`, `HeldButtonHoldsFocus`, `RepeatEndsInLock` | 551,592 |

Why these bounds reach the interesting cases. *Views*: two windows are the least for a
focus order and for a drop on another tile; two tags the least for hiding. One output
suffices because the functions involved take one monitor; it may go, sleep and come
back, which is what tags have to survive. *Evacuation*: with three outputs two can go
in one `updatemons`, so that `closemon` picks a replacement that is closed next; two
windows on different outputs follow different paths. Dragging a window between outputs
is another `setmon`, which *Lock* and *Canvas* have; `MoveBound` is `FALSE` here, so
that what `ListsAgree` says of the grab means nothing in this run (the theorem
`ListsStayInStep` has it). `Adopted` speaks of changes after which `selmon` is enabled;
that a window stays without an output while `selmon` is asleep is described below.
*Lock*: two outputs are needed for the hand-over between lock surfaces, two lock
clients for rejection and takeover, one layer surface for the keyboard's third kind of
owner, and failing commits for an output whose state is not what was asked for.

*Bars*: a second tag is needed for a view to change, and a request to change it
from the side of the bar; bars share nothing but the idle callback, which sends to
each in turn, so one bar shows what any of them sees. The output goes and comes back
while a request is queued. Ids, which collide only between outputs of one name, are
left to a proof (`IdsStayUnique`).
`MaxQueue` bounds the requests that a bar queues before
it commits: `clear_requests_by` treats each request on its own, so one request
of every type, on every object, covers it. A client may bind the manager once at
a time.

*Heap*: four leaves and the three nodes above them are the least tree in which a leaf
that goes has a parent, a grandparent and a sibling that is an inner node, in every
shape; seven addresses are then all in use, and `Linked` says that each node in use is
in the tree, so nothing leaks. *Tiles*: two windows in one tree have all that a drag
can do to each other, and the second tag gives them a second tree; `Heap` covers what
larger trees do. One output is not enough to move a tile between outputs (`SetMon` and
`Migrated` fire, but only towards the output or away from none): no run covers that,
and the proofs do (section 4). Both runs use the symmetry of windows: no definition
chooses a window (`CHOOSE` is applied to addresses and outputs only) and no run with
symmetry checks liveness.

*Canvas*: windows meet each other only where a new one ends the fullscreen state of
the others, which `SetFullscreen` does to any window at any time, so one window
reaches all its states. Two tags make canvas mode a matter of the view (an active
tag next to a plain one, a window on both); two outputs are needed for a window
that leaves a canvas by moving. All of it together is too large, so `Scopes` gives
each behaviour the tags of one output next to a plain one, or two canvas outputs
with one tag. *Watch*: two directories make a link move, with one of them the
directory of the path itself, whose watch must survive; two texts that load tell
the last change from the one before. *Seat*: two windows, so that a constraint is
handed over; two buttons, so that one is still down when the other is released; the
kinds differ in both fields; of two keys either one is the key
that repeats while the other is pressed or switches the VT. The type invariants of
`Watch` and `Seat` are proved for all constants (section 4) and not checked again.

Fairness. `WF(StatusFlush)` and `WF(HandleIdle)`: `wl_event_loop_dispatch` runs
the idle sources before it waits for events, and both handlers run to completion
without conditions. `WF(Watcher)`: the event loop calls `watch_dispatch` while the
inotify descriptor is readable, and the function then runs to its end.
`WF(keyrepeat)`: a timer of the event loop goes off. Nothing is assumed of bars,
clients, outputs or users.
`EventuallySeen` is about views that stay, because a user who changes the view
for ever need not be followed at every step: bursts are meant to coalesce.
`ChangesAreLoaded` and `RepeatEndsInLock` are likewise about a text and a lock that
stay. The handlers of a desk are driven by the environment, to which the code
gives no fairness: liveness is checked where the code owes an answer.

The nested calls of `updatemons` are part of `Desk` because they can be seen. When
an output is switched off while `selmon` is asleep, another output is on and has a
keyboard-interactive layer surface, the nested call gives that surface the keyboard,
and the outer `closemon`, which then finds `focustop` without the keyboard, raises it
in `fstack`. A single pass through the loops leaves another focus order. It takes
three outputs, two windows and a layer surface together, which no run has; an attempt
to prove that a single pass is enough met it. `Dwindle` and `Canvas` have no focus and
make one pass: a nested call vacates the disabled outputs in the order of the outer
loop, arranges and adopts, and leaves nothing of this to the outer one.

Three runs refute what the source or the docs say:

- `Preselect`: "If you released any buttons, we exit interactive move/resize mode"
  (1031). While the session is locked a release only resets `cursor_mode`.
  `preselect_target` survives into the next tile drag, which drops on it if no
  motion event comes first; by then it may be freed, or have no output.
- `CanvasEntry`: on entering canvas mode "current window positions become world
  positions" (`docs/canvas.md`, 59). `mapnotify` (2525-2532) gives a window that is
  mapped on a canvas view a world place at the pointer even if it is not part of
  the canvas, because a rule sends it to another tag or it is fullscreen.
  `canvas_leave` does not reset it (4315), so the window jumps there when canvas
  mode is turned on for its tag, however long after.
- `Retarget`: "Keep the old directory while a target is temporarily missing, so
  recreating it can recover hot reload" (`parser.c`, 1031). If a link is moved to a
  target that is missing when `watch_target` resolves it (1039), what is kept is the
  watch for the *last* target. When the new one appears in another directory, that is
  no event that the watcher looks for, and the configuration is not reloaded until
  the path changes again.

Three comments of the source are not what the model does, and properties are stated
accordingly: "selmon is NULL while every output is disabled" (2007), whereas an
output that is put to sleep is disabled but skipped by `closemon`, so it stays
selected; "shown until its slide ends, though not VISIBLEON" (158), whereas
`toggleview` and `set_tags` bring a window back into view without clearing the
flag, so that `xytonode` passes over it until its slide ends; and "Fullscreen stays in
canvas so unfullscreen returns to its world spot" (`arrange`), which is true of
`arrange` and of what `FullscreenKeepsSpot` says, but `settags` calls `canvas_leave`
(3728) for a fullscreen window too: giving it a second tag takes it out of the canvas,
and its world place with it, although it is still seen through the tag in canvas mode.

Cases that came up while the properties were being stated, and that they
therefore allow for:

- A window that lost every output (an orphan) is adopted when selmon is enabled,
  not otherwise: after the only output went to sleep with a window opened on it
  selected, plugging another output adopts no orphan. `Adopted` has that premise.
- A tile that is sent to another tag while it is dragged gets the keyboard when it
  is dropped on another tile, though its view hides it (`swaptiled`,
  `dwindle_move_to_edge`). `KeyboardFollowsView` excepts exactly that step.
- `locksession` does not take the keyboard from a mapped overlay layer surface
  (`focusclient` returns early), so `LockedKeyboard` allows it to stay until a
  lock surface of selmon appears; `LockHolds` says no *window* keeps it.
- A drop does not arrange, so it may leave a tile without a leaf (the one dragged,
  if it was given another tag meanwhile), a leaf without a tile, or the dropped
  tile at the box it had when the drag began, although the layout has changed. The
  next `arrange` repairs all of it; `LeavesAreTiles` and `TilesAreInPlace` allow it
  in that step.
- `swaptiled` swaps and lays out *every* tree that has both windows. If the view
  was changed during the drag, the window under the pointer gets the box of the
  hidden tag's tree. `TilesAreInPlace` allows it (`SharedElsewhere`).
- A tile that changes outputs while it is dragged keeps its leaf on the first one,
  because `dwindle` keeps the leaf of the window that is dragged whether or not it
  is visible there. Unmapping it, or giving it other tags, takes that leaf away
  without arranging the first output, whose other tiles stay where they were until
  it is arranged. Only the proof of `TilesAreInPlace` met this case, which takes two
  outputs (`HoleBeside`).
- `arrange` skips an output that is asleep, which keeps leaves of windows that were
  sent away meanwhile. `swapdir` lays out all leaves of the selected output, which
  may be the one asleep, so that it takes those windows out of their place on the
  output they are on. The same happens to a leaf that a drop has left on an output
  that is on. Only the proof met this case as well (`Astray`).
- A bar that gets the `done` of a new output before the status was published sees
  a group without an active workspace for a moment. The protocol allows it.
- A bar is not told that a group lost an output that is disabled, because its
  resource is inert by then; `Mirror` relates outputs that are bound only.

- A tile that is being dragged when canvas mode is toggled is in the canvas with its
  box on the screen (`motionnotify` moves it as a tile), and a dropped tile always
  lands in the layer of the tiles, floating or not. `BoxesKeepCoordinates` and
  `LayersFollowState` allow both until the output is arranged.
- `movecenter` on a floating fullscreen window, and a move drag of a window that
  becomes fullscreen, shift the fullscreen window. Toggling the floating state in a
  floating layout leaves its layer as it was until the output is arranged in a
  tiling layout. No property speaks of either.
- While an output sleeps `arrange` skips it but the eased zoom lays its canvas out,
  so a window in the canvas of a sleeping output may have its floating state
  changed; `FloatingSurvivesCanvas` is about what it returns to.
- A configuration that changes between startup's `config_load` (3447) and
  `config_watch_start` (3471) is not seen by either, and is loaded only with the next
  change. This and the target of the run `Retarget` are all that the watcher misses:
  `missed` is set where the code passes over them, `UpToDate` and `ChangesAreLoaded`
  except the states in which it is set, and it is reset when the watcher next
  resolves the path and loads. No assumption is made on users.
- When an output goes whose lock surface has the keyboard, the first surface in the
  lock's list gets it, which may be that very surface, as the list still has it
  (1828). The keyboard then stays there although the lock has another surface, until
  the lock client destroys the surface or selmon's is entered. `LockedKeyboard` allows
  that step and no other; no window gets the keyboard by it.
- In drag and drop "Focus enter isn't sent during drag" (1761), but `pointerfocus`
  activates the constraint of the window under the cursor all the same.
  `ConstraintIsFocused` is about the times when the seat has a focus.
- `cursor_mode` is reset by the release of any button (1065). With two buttons down the
  first release lets the pointer go to another window while the other is still held;
  `HeldButtonHoldsFocus` ends with that release.
- `motionnotify` looks up the surface before it moves the cursor, so focus is one
  event behind. `locksession` calls `focusclient(NULL)`, not `motionnotify`: a
  window with a locked constraint keeps the pointer focus when the session locks,
  until something looks for it again; `destroylock` looks for it while the lock
  surface is still in the scene.
- A lock and an unlock within one period of the timer keep a repeat alive, and the
  press that switches the VT returns without ending one. `RunsWhatIsHeld` holds
  all the same, since the key is down.

## 4. What is proved

**The desk.** For every number of windows, outputs, tags, layer surfaces and lock clients,
from the constants' assumptions in `Desk` and `Desktop` (tags exist; the null
values and the kinds of surface are distinct; rules give tags; some outcome of
a commit is possible):

| Theorem (`DesktopProofs`) | States |
|---|---|
| `TypeCorrect` | `Spec => []TypeOK` |
| `LockIsHeld` | `Spec => []LockHolds` |
| `LayoutStaysUsable` | `Spec => []LayoutIsUsable` |
| `DepthSuffices` | `UpdatemonsReenters`: `updatemons(d) = Updated(d, [e \in Desks |-> updatemons(e)])` |
| `KeyboardStaysLocked` | `Spec => LockedKeyboard` |
| `OneLockOwner` | `Spec => LockOwnership` |

The inductive invariant is `IInv`. The lock alone is not inductive: releasing a
button calls `setmon(grabc, ...)` without looking at `grabc`, so even the type
needs `GrabHasWindow`; unlocking needs `LockIsClaimed` (a lock client exists
only while locked); `LayoutIsUsable` needs that `mons` lists each output once
and that the layout has listed outputs only (`Plugged`), or else the loop of
`updatemons` that removes disabled outputs could miss one.

The argument follows the calls. `Kept(d, e)` says what every function leaves alone:
`e` is a desk, its lock fields, outputs and grab are those of `d`, and while locked
its keyboard is the one of `d`, nothing, or an existing lock surface; a grab may end,
as `setmon` and `settags` end one. One lemma per
function shows it, from `focusclient` (which does nothing while locked) up to
`Commands`. `updatemons` changes the layout and calls itself. Whatever it calls is in
`Calls`, the functions on desks that are `Laid`: the layout loses no enabled output
and gains no disabled one. A call whose nested calls are `Laid` is `Laid` itself, and
clears the disabled outputs that are listed out of the layout (`UpdatedLaid`); so are
all levels of the nesting (`UpdatemonsCalls`). `DepthSuffices` shows that cutting the
nesting off loses nothing: calls that agree on all desks with fewer `Misplaced`
outputs, those that have to leave or enter the layout, agree on this one too. The
loops are handled by `Loops`, which proves from the well-foundedness of the naturals
that a relation kept by every round of a recursive function is kept by the function:
the prover cannot instantiate the library's induction rules. Then the handlers are
taken one by one; those of the lock come last.

**The windows of a desk**, under the same assumptions:

| Theorem (`DesktopProofs`) | States |
|---|---|
| `SceneShowsTheView` | `Spec => []ShownIsVisible` |
| `ListsStayInStep` | `Spec => []ListsAgree` |
| `MonitorsStayLive` | `Spec => []LiveMonitors` |
| `TagsStay` | `Spec => []TagsNonEmpty` |
| `WindowsLeaveClosedOutputs`, `WindowsComeBack` | `Spec => Evacuated`, `Spec => Adopted` |
| `NewOutputTakesNothing`, `SleepersKeepWindows` | `Spec => PluggingMovesNothing`, `Spec => SleepKeepsWindows` |
| `TagsSurviveOutputs`, `KeyboardStaysInView` | `Spec => OutputsKeepTags`, `Spec => KeyboardFollowsView` |

The inductive invariant is `WInv`, which is `IInv` and `Fine(desk)`. `Fine` has four parts, none
of which is inductive without the others: both lists hold the same windows, once
each, and whatever refers to a window refers to one of these (`Tidy`); whatever
refers to a monitor refers to one of `mons` (`Live`); views and windows on an
output have tags (`Tagged`); and the scene shows what the view does (`Lit`). The
keyboard is not part of it, because a dropped tile may have it out of view: what a
step does to it is the relation `Tracks`, which every handler keeps but the drop,
the exception that `KeyboardFollowsView` makes.

Functions that change nothing of a window's place are `Still`; those that arrange
or focus are `Calm`, and `Orderly` if no unmapped window gets a monitor and the
keyboard stays in view; `closemon`, whose loop moves windows one by one, is
`Shifted`. Each step of `updatemons` is `Herded`, with the calls nested in it: no
window leaves an output that is on or asleep, and what has left an output that is off
does not come back to it. `Settled` is what `updatemons` makes of any desk, in whatever
order it closes outputs: no window is on an output that is off and not asleep, and orphans
are adopted if the selected output is on. A handler of outputs changes the desk
before it calls `updatemons`, so that the invariant does not hold of the desk it passes;
`Ready` is what does.

**The dwindle tree.** `TreesStayTrees` (`DwindleProofs`) proves `Tiling!Spec =>
[]Arboreal` for any number of windows: halves are not empty and do not overlap, areas
are nested or disjoint, and any two windows are separated by a split, so that every
window has one leaf and a box of its own. The invariant is inductive as it stands. It
rests on one lemma per operation, `KeptIsTree`, `OpenedIsTree` and `SwappedIsTree`,
each of which maps the splits of the new tree back to those of the old one.

**The nodes of a dwindle tree** (`HeapProofs`), for any finite set of windows and
enough addresses for one tree of them (`NodeAssumption`; the program ends when it has
no memory):

| Theorem (`HeapProofs`) | States |
|---|---|
| `AlwaysLinked` | `Spec => []Linked` |
| `AlwaysPrunes` | `Spec => []PrunesExactly` |
| `NodesImplement` | `Spec => Implements`, the refinement of `Tiling` |

What is below a node is a recursive function of the pointers, which the provers cannot
unfold on a heap they do not know. The proofs carry that function along instead of
computing it: `Shape(h, B)` says that the pointers of `h` are a tree in which `B[n]`
is the set of windows below node `n`, all of it in terms of a node and its neighbours.
Given such a `B`, `MeaningOf` is the set of splits read off `B`; the recursive
functions of the module (`find_leaf`, `first_leaf`, `next_leaf`) exist and are what
`B` says of them, by `RecursionExists` of `Loops`, because the sets of windows shrink
on the way down. The inductive invariant says that some `B` exists and that `meaning`
is what it reads. For each function the proof gives the `B` of the heap it leaves: a
new leaf and its split for `dwindle_insert`, a window less above the leaf for
`dwindle_remove`, two windows exchanged for the swaps. The loop of `dwindle` frees
nodes while it walks from leaf to leaf; its invariant says that the tree has the
leaves of the windows that stay and of those that the loop has not come to, which are
fewer after each round.

**The dwindle layout.** The rest of `DwindleProofs` is about module `Dwindle`, for any
windows, outputs and tags; `TagAssumption` says that there are tags, `NoneAssumption`
that the null value is neither a window nor an output, and `OutputAssumption` that
there are finitely many outputs, or `mons` could not list them:

| Theorem (`DwindleProofs`) | States |
|---|---|
| `TreesStaySound` | `Spec => []TreesAreSound` |
| `LeavesStayTiles` | `Spec => LeavesAreTiles` |
| `TilesStayInPlace` | `Spec => TilesAreInPlace` |

They cover what the run `Tiles` with its one output does not reach: windows that change
outputs, and `updatemons` that closes and arranges several, in any order.

The inductive invariant is `IInv`: the state is well typed with sound trees (`Good`),
and a window that is not mapped has no output (`Placed`), without which mapping it
would add a tile to an output that nothing arranges. The action properties are not
invariants, so each handler has a lemma that shows `Step`, which has the invariant and
the three implications (`InPlace`) for every window.

What a function does is stated per output, because it lays one out and may disturb
another. `Settled(f, m)` says that nothing is wrong on `m`; `Neat(e, f, m)`, that nothing
is wrong there in `f` that was not in `e`. `dwindle` and `arrange` settle the output they
are given, whatever they find (`LaysOut`), since the loop over the window list gives a leaf to
each tile that has none; and they leave every other output `Neat`. `setmon`,
`setfloating`, `setfullscreen` and `closemon` are `Steady`, that is `Neat` on every
output, and `updatemons` settles every output (`UpdatedSettles`). The order of the calls
matters here: `setmon` is steady only because it arranges the output that a window
leaves as well as the one that it enters.

Two handlers change trees and do not arrange. `Forgotten` is what
`dwindle_remove_client` leaves behind in `unmapnotify` and `settags`, and shows
which outputs still have to be arranged. `Shuffled` is a tree whose leaves
changed places and which was laid out at once (`swapdir`, `swaptiled`,
`dwindle_move_to_edge`). A drop ends in `Fair`: only the window dropped, or one that shares
a tree with it outside the view of both, may be out of place. `Loops` takes these
relations through the loops over windows, outputs and tags.

**The watcher** (`WatchProofs`), for any directories and texts. `TypeCorrect` states
`TypeOK` and `CallbacksHaveState`, `NothingIsLost` states `UpToDate`; neither assumes
anything of users. `UpToDate` is not inductive: that a change is noticed depends on
the watch on its directory, and that watch on what was seen of the link. `IInv` adds
three facts: a link has no file beside it (`NoOwnFile`); the directory that the path
links into is watched, or is about to be, or an event is unread that will make it so,
or it was missed (`TargetCovered`); and whatever is not loaded and not missed has an
unread event that `Changed` does not pass over (`Noticed`). The proof
has a lemma for each step of the watcher and each kind of change.

**The seat** (`SeatProofs`), for any keys, windows and kinds of constraint.
`InputIsSound` states `TypeOK`, `RunsWhatIsHeld`, `OneConstraint` and
`ConstraintIsFocused`; `ButtonHoldsFocus` states `HeldButtonHoldsFocus`. Every
operator on the pointer keeps `Sound` (the active constraint exists and its client
alone believes in it), those that move the focus establish `Follows` (it is the
constraint of the focused surface), and `FoundStartable` says that a constraint
that is looked up can be started. `IInv` is the conjunction of `KeyInv`, `PointerInv` and
`LockInv`; it adds that a key that repeats is held while the timer is armed, and
that during drag and drop the seat has no pointer focus, without which the
constraint that a drag activates would break `ConstraintIsFocused`.

`OnlyHeldKeysRun` and `OneClientConstrained` state `RunsWhatIsHeld` and
`OneConstraint` by themselves.

**The ext-workspace objects** (`WorkspacesProofs`), for any outputs, workspaces,
bars and requests, in any number; `OutputAssumption` says that an output is
neither a group nor a workspace. `BarsMirrorTheServer` states `Mirror`,
`QueuesStayLive` states `QueueIsLive` and `IdsStayUnique` states `UniqueIds`.
`Mirror` is not inductive: the server sends to the resources it has, while
`Mirror` speaks of objects that exist and that the bar did not drop. `IInv` ties the three
together: which resources there are (`ResourcesInv`), and that what was told to
them is what is true of their objects, whether it was flushed or not (`KnowsInv`).
`ServerKeepsPromise` is the safety part of the refinement `KeepsPromise`: the initial
state is one of `Board`, and each step is one of its steps or a stutter. The
fairness part stays with TLC.

**The canvas** (`CanvasProofs`), for any windows, outputs, tags and scopes;
`ClientAssumption` says that there are finitely many windows, which the loops over the
window list need:

| Theorem (`CanvasProofs`) | States |
|---|---|
| `CanvasIsWellTyped` | `Spec => []TypeOK` |
| `FloatingSurvives` | `Spec => FloatingSurvivesCanvas` |
| `CoordinatesAreKept` | `Spec => BoxesKeepCoordinates` |
| `SpotIsKept` | `Spec => FullscreenKeepsSpot` |
| `LayersAreKept` | `Spec => LayersFollowState` |

The action properties compare a state with the one before, but they do not follow from
the two alone. The inductive invariant `CInv` adds that the box of a window has the
coordinates of the state it is in, whether it is shown or kept to be restored
(`Fit`), that a window is on an output that exists, and that on an output that is
on whatever is seen through a tag in canvas mode is in the canvas (`Entered`).
Without the last, a window could be made to float while it is outside, enter the
canvas in the same step, and have another state restored than it came with.

A function of one window keeps `Sound`, and as much of the chain above it as it
can: the floating state from outside the canvas (`Changed`), the world place of a
window that is seen in the canvas (`Kept`), and the fullscreen state (`Undisturbed`).
`arrange` establishes `Settled`, and does so whatever it finds; `setmon` makes a
window that changes outputs `Settled` on the new one; and `Loops` takes both through the
loops over the window list, whose order the argument never uses. `Advances` has the
invariant and the bodies of the four action properties, so that one lemma per handler
serves all five theorems.

Only model-checked: liveness, which is `EventuallySeen`, `ChangesAreLoaded`,
`RepeatEndsInLock` and the fairness of `KeepsPromise` (the theorem `ServerKeepsPromise`
has the rest of it). It is outside the provers' reach. Every other property of a
passing run is stated by a theorem.

## 5. What is left out

- *Numbers of geometry*: sizes, borders, gaps, split ratios, the camera of the
  canvas, scaling. `Canvas` keeps the coordinates a box is in, `Dwindle` its place
  in a tree, `Desk` nothing; `dirtomon`, `focusdir` and `swapdir` therefore return
  any output of the layout or any window that the view shows, and a dragged tile is
  dropped on any visible window, or on none.
- *Timing of animations*, snapshots and the contents of surfaces. The slide is
  modelled by its flag `leaving`, the eased zoom by its effect.
- *Other kinds of surface*: override-redirect XWayland windows and the requests of
  X11 clients for a box (5104-5116), dialogs that share their parent's layer,
  popups, the two lower layers of the shell and exclusive zones.
- *Window rules* are given tags within `TAGMASK` (`parse_rules` does not mask them).
- In `Dwindle`: focus, the insertion anchor, the canvas and the lock (a release
  while locked may happen during any drag). In `Seat`: compositor grabs, layer
  surfaces, the keyboards of virtual-keyboard clients. In `Watch`: hard links,
  chained links, directories that are removed (`IN_IGNORED`), and the parsing of
  the values.
- *Status fields*: what dwl-ipc and standard output print is a copy of the state
  when `status_flush` runs. Whether each change calls `printstatus` would need every
  handler of every module in one; several (a floating window that is toggled, for
  one) do not call it.
- *monomsg* reads one frame, chooses an output and sends one request; its logic is
  the formatting of arguments, which its own tests cover. *Autostart* is `fork`,
  `exec` and signals. The *XWayland glue* forwards callbacks of a state machine
  that is in wlroots.
- A drag of a window without an output dereferences `NULL` (2801); the models have
  no outcome for it.

## 6. Plan

Done: `Desk` and `Desktop`; `Board` and `Workspaces`; `Trees`, `Tiling`,
`DwindleHeap` and `Dwindle`; `Canvas`; `Watch`; `Seat`; and the proofs of section 4.
What would come next:

1. `Dwindle` with two outputs under TLC, within reach once sleeping outputs are left
   out of it; what it would check is proved.
2. `Seat` with the compositor's own grabs, joined to `Canvas` by the window under
   the cursor.
