------------------------------ MODULE Desktop ------------------------------
(***************************************************************************)
(* The event handlers of mono that move windows, views, focus and outputs, *)
(* one action each.  The state is one desk; see module Desk for its fields *)
(* and for the functions the handlers call.                                *)
(***************************************************************************)
EXTENDS Desk

CONSTANTS
    Outcomes,   \* what committing an output state may return
    RuleTags    \* the tags that the window rules of the configuration give

ASSUME OutcomesAssumption == Outcomes \in SUBSET BOOLEAN /\ Outcomes # {}
ASSUME RuleTagsAssumption == RuleTags \in SUBSET (SUBSET Tag)

VARIABLE desk

Init ==
    desk = [ mons |-> <<>>, on |-> {}, asleep |-> {}, layout |-> {},
             selmon |-> NoMon,
             viewed |-> [m \in Monitor |-> {1}], previous |-> [m \in Monitor |-> {1}],
             clients |-> <<>>, fstack |-> <<>>,
             mon |-> [c \in Client |-> NoMon], tags |-> [c \in Client |-> {}],
             shown |-> {}, leaving |-> {}, kb |-> NoWin,
             cursor_mode |-> "CurNormal", grabc |-> NoWin,
             lmon |-> [l \in Layer |-> NoMon], grabs |-> {},
             locked |-> FALSE, curlock |-> NoLock, lockbg |-> FALSE, locksurf |-> {} ]

-----------------------------------------------------------------------------
(***************************************************************************)
(* Outputs.  Every change of the layout calls updatemons.                  *)
(***************************************************************************)
CreateMon(m) ==
    /\ m \notin Listed(desk.mons)
    /\ \E ok \in Outcomes :
         desk' = updatemons([desk EXCEPT
                    !.mons = <<m>> \o @,
                    !.on = IF ok THEN @ \cup {m} ELSE @,
                    !.layout = @ \cup {m}])

(***************************************************************************)
(* A lock surface that is destroyed while it has the keyboard passes it to *)
(* the first one in the lock's list, which may be itself: the seat then    *)
(* stays on its surface, which is no lock surface any more.  cleanupmon    *)
(* calls this while the list still has it; wlroots may have unlinked it    *)
(* before it tells of a surface that its client destroys.                  *)
(***************************************************************************)
Reentered(m, first) == IF first = m THEN OldSurface ELSE first

destroylocksurface(d, m, first) ==
    LET gone == [d EXCEPT !.locksurf = @ \ {m}]
    IN  IF d.kb # m THEN gone
        ELSE IF d.locked THEN [gone EXCEPT !.kb = Reentered(m, first)]
        ELSE RefocusOn([gone EXCEPT !.kb = NoWin], d.selmon)

\* The list is in the order of creation, which a desk does not hold.
Firsts(m) == desk.locksurf \cup (IF desk.locksurf \subseteq {m} THEN {NoWin} ELSE {})

UnmapLayersOf(d, m) ==
    LET run[i \in 0..Len(Stack)] ==
            IF i = 0 THEN d
            ELSE IF run[i - 1].lmon[Stack[i]] = m
                 THEN unmaplayersurfacenotify(run[i - 1], Stack[i])
                 ELSE run[i - 1]
    IN  run[Len(Stack)]

\* Mutant: the layer surfaces of the output are not closed.
cleanupmonKeepsLayers(d, m, first) ==
    LET unlisted == [d EXCEPT !.mons = Without(@, m)]
        unlocked == IF m \in d.locksurf THEN destroylocksurface(unlisted, m, first)
                    ELSE unlisted
        removed  == IF m \in d.layout
                    THEN updatemons([unlocked EXCEPT !.layout = @ \ {m}])
                    ELSE unlocked
    IN  [closemon(removed, m) EXCEPT
            !.on = @ \ {m}, !.asleep = @ \ {m},
            !.viewed[m] = {1}, !.previous[m] = {1}]

\* The output is still enabled, and may still be selmon, when leaving the layout
\* re-enters updatemons; only then does closemon look for another monitor.
cleanupmon(d, m, first) ==
    LET bare     == UnmapLayersOf(d, m)
        unlisted == [bare EXCEPT !.mons = Without(@, m)]
        unlocked == IF m \in d.locksurf THEN destroylocksurface(unlisted, m, first)
                    ELSE unlisted
        removed  == IF m \in d.layout
                    THEN updatemons([unlocked EXCEPT !.layout = @ \ {m}])
                    ELSE unlocked
    IN  [closemon(removed, m) EXCEPT
            !.on = @ \ {m}, !.asleep = @ \ {m},
            !.viewed[m] = {1}, !.previous[m] = {1}]

CleanupMon(m) ==
    /\ m \in Listed(desk.mons)
    /\ \E first \in IF desk.locksurf = {} THEN {NoWin} ELSE desk.locksurf :
         desk' = cleanupmon(desk, m, first)

CommitEnabled(d, m, enabled) ==
    [d EXCEPT !.on = IF enabled THEN @ \cup {m} ELSE @ \ {m}]

SetMode(d, m, mode, ok) ==
    LET e == IF ok THEN CommitEnabled(d, m, mode) ELSE d
    IN  [e EXCEPT !.asleep = IF mode THEN @ \ {m} ELSE @ \cup {m}]

PowerMgrSetMode(m) ==
    /\ m \in Listed(desk.mons)
    /\ \E mode \in BOOLEAN, ok \in Outcomes :
         desk' = updatemons(SetMode(desk, m, mode, ok))

(***************************************************************************)
(* An output configuration has a head for every output but the sleeping    *)
(* ones, in any order.  Each head is committed in turn; placing an enabled *)
(* one re-enters updatemons before the next head is looked at.  A head      *)
(* that is switched off is not placed.                                     *)
(***************************************************************************)
Heads == Listed(desk.mons) \ (desk.asleep \ desk.on)

Orders(S) ==
    {f \in [1..Cardinality(S) -> S] : \A i, j \in DOMAIN f : f[i] = f[j] => i = j}

ApplyHead(d, m, enabled, ok, placed) ==
    LET e == IF ok THEN [CommitEnabled(d, m, enabled) EXCEPT !.asleep = @ \ {m}] ELSE d
    IN  IF placed /\ m \in e.on
        THEN updatemons([e EXCEPT !.layout = @ \cup {m}]) ELSE e

OutputMgrApply ==
    \E heads \in Orders(Heads), enabled \in [Heads -> BOOLEAN],
       ok \in [Heads -> Outcomes], placed \in [Heads -> BOOLEAN] :
        /\ \A m \in Heads : placed[m] => enabled[m] \/ ~ok[m]
        /\ LET run[i \in 0..Len(heads)] ==
                   IF i = 0 THEN desk
                   ELSE LET m == heads[i]
                        IN  ApplyHead(run[i - 1], m, enabled[m], ok[m], placed[m])
           IN  desk' = updatemons(run[Len(heads)])

RequestMonState == desk' = updatemons(desk)

\* A reload re-places the outputs whose rule changed, then arranges all of them.
OnConfigReload ==
    \E replaced \in BOOLEAN :
        LET e == IF replaced /\ Enabled(desk) # {} THEN updatemons(desk) ELSE desk
            here == {c \in Mapped(e) : e.mon[c] \in Enabled(e)}
        IN  desk' = [e EXCEPT !.shown = (@ \ here)
                \cup {c \in here : VISIBLEON(e, c, e.mon[c]) \/ c \in e.leaving}]

-----------------------------------------------------------------------------
(***************************************************************************)
(* Windows.  A rule may name any listed output, or none, and any tags.     *)
(***************************************************************************)
applyrules(d, c, m, newtags) == setmon(d, c, m, newtags)
RuleMonitors(d) == Listed(d.mons) \cup {d.selmon}

\* The initial commit applies the rules to learn the scale, then undoes them.
CommitInitial(c) ==
    /\ c \notin Mapped(desk)
    /\ \E m \in RuleMonitors(desk), newtags \in RuleTags :
         desk' = setmon(applyrules(desk, c, m, newtags), c, NoMon, {})

MapNotify(c) ==
    /\ c \notin Mapped(desk)
    /\ LET e == [desk EXCEPT !.clients = <<c>> \o @, !.fstack = <<c>> \o @]
       IN  \/ \E p \in Mapped(desk) :
                desk' = setmon(e, c, desk.mon[p], desk.tags[p])
           \/ \E m \in RuleMonitors(desk), newtags \in RuleTags :
                desk' = applyrules(e, c, m, newtags)

\* Mutant: the window stays in the focus order.
UnmapInFocusOrder(c) ==
    /\ c \in Mapped(desk)
    /\ LET d == IF c = desk.grabc THEN Ungrabbed(desk) ELSE desk
           e == setmon([d EXCEPT !.clients = Without(@, c)], c, NoMon, {})
       IN  desk' = [e EXCEPT !.shown = @ \ {c}]

UnmapNotify(c) ==
    /\ c \in Mapped(desk)
    /\ LET d == IF c = desk.grabc THEN Ungrabbed(desk) ELSE desk
           e == setmon([d EXCEPT !.clients = Without(@, c)], c, NoMon, {})
       IN  desk' = [e EXCEPT !.fstack = Without(@, c), !.shown = @ \ {c}]

\* client_render of a frame in which c's slide is over.
SlideEnd(c) ==
    /\ c \in desk.leaving /\ desk.mon[c] # NoMon
    /\ desk' = [desk EXCEPT
            !.leaving = @ \ {c},
            !.shown = IF VISIBLEON(desk, c, desk.mon[c]) THEN @ \cup {c} ELSE @ \ {c}]

-----------------------------------------------------------------------------
(***************************************************************************)
(* Input.  Key bindings and buttons do nothing while locked, except that a *)
(* button or (with sloppy focus) the pointer selects the monitor it is on. *)
(***************************************************************************)
KeyPress == ~desk.locked /\ desk' \in Commands(desk)

xytomon(d) == IF d.layout = {} THEN {NoMon} ELSE d.layout

Grabbing == desk.cursor_mode # "CurNormal"

Point(d, c) == IF c = NoWin THEN d ELSE focusclient(d, c)

MotionNotify ==
    \E m \in xytomon(desk), c \in xytonode(desk) :
        LET e == [desk EXCEPT !.selmon = m]
        IN  desk' = IF Grabbing THEN e ELSE Point(e, c)

ButtonPress ==
    /\ ~Grabbing
    /\ \E m \in xytomon(desk), c \in xytonode(desk) :
         LET e == [desk EXCEPT !.selmon = m]
         IN  IF desk.locked THEN desk' = e ELSE desk' \in Commands(Point(e, c))

\* Releasing a button ends a grab: a moved window is dropped on the output under
\* the pointer, a dragged tile changes places with the tile it is over, if any.
\* While locked the grab just ends, and grabc keeps naming the window.
ButtonRelease ==
    /\ Grabbing
    /\ LET c       == desk.grabc
           d       == Ungrabbed(desk)
           targets == {w \in Mapped(d) \ {c} : VISIBLEON(d, w, d.mon[w])}
       IN  IF desk.locked THEN desk' = [desk EXCEPT !.cursor_mode = "CurNormal"]
           ELSE IF desk.cursor_mode = "CurMove"
                THEN \E m \in xytomon(d) : desk' = setmon([d EXCEPT !.selmon = m], c, m, {})
                ELSE \/ desk' = d
                     \/ targets # {} /\ desk' = focusclient(d, c)

DestroyDragIcon == desk' = Refocus(desk)

-----------------------------------------------------------------------------
(***************************************************************************)
(* Requests of the status bars: zdwl_ipc_output_v2 and ext-workspace-v1.   *)
(***************************************************************************)
IpcSetTags(m) ==
    /\ m \in Listed(desk.mons)
    /\ \E tagmask \in (SUBSET Tag) \ {{}}, toggle_tagset \in BOOLEAN :
         LET e == [desk EXCEPT
                     !.viewed[m] = tagmask,
                     !.previous[m] = IF toggle_tagset THEN desk.viewed[m] ELSE @]
         IN  desk' = Redisplay(e, m)

IpcSetClientTags(m) ==
    /\ m \in Listed(desk.mons)
    /\ \E newtags \in SUBSET Tag : desk' = settags(desk, focustop(desk, m), newtags)

ExtActivate(m, t) ==
    /\ m \in Listed(desk.mons)
    /\ desk' = view([desk EXCEPT !.selmon = m], {t})

ExtDeactivate(m, t) ==
    /\ m \in Listed(desk.mons) /\ t \in desk.viewed[m]
    /\ desk' = toggleview([desk EXCEPT !.selmon = m], {t})

-----------------------------------------------------------------------------
(***************************************************************************)
(* Layer surfaces and the session lock.  A second locker is turned away; a *)
(* lock whose client dies stays locked until another one takes it over.    *)
(* wlroots destroys the surfaces of a lock together with the lock.         *)
(***************************************************************************)
CommitLayerSurface(l) ==
    \E m \in IF desk.lmon[l] = NoMon THEN Listed(desk.mons) ELSE {desk.lmon[l]},
       interactive \in BOOLEAN :
        desk' = arrangelayers(
            [desk EXCEPT !.lmon[l] = m,
                         !.grabs = IF interactive THEN @ \cup {l} ELSE @ \ {l}], m)

UnmapLayerSurface(l) ==
    /\ desk.lmon[l] # NoMon
    /\ desk' = unmaplayersurfacenotify(desk, l)

\* Mutants: the focused window keeps the keyboard; a live lock is taken over.
LockUnderFocus(k) ==
    IF desk.curlock # NoLock THEN desk' = [desk EXCEPT !.lockbg = TRUE]
    ELSE desk' = [desk EXCEPT !.lockbg = TRUE, !.locked = TRUE, !.curlock = k]
LockTakeover(k) ==
    desk' = [focusclient(desk, NoWin) EXCEPT !.lockbg = TRUE, !.locked = TRUE, !.curlock = k]

LockSession(k) ==
    IF desk.curlock # NoLock THEN desk' = [desk EXCEPT !.lockbg = TRUE]
    ELSE desk' = [focusclient(desk, NoWin) EXCEPT
                    !.lockbg = TRUE, !.locked = TRUE, !.curlock = k]

CreateLockSurface(m) ==
    /\ desk.curlock # NoLock
    /\ m \in desk.layout \ desk.locksurf
    /\ desk' = [desk EXCEPT !.locksurf = @ \cup {m},
                            !.kb = IF m = desk.selmon THEN m ELSE @]

DestroyLockSurface(m) ==
    /\ m \in desk.locksurf
    /\ \E first \in Firsts(m) : desk' = destroylocksurface(desk, m, first)

\* External: a client destroys the surface, and the seat forgets it.
DestroyOldSurface ==
    /\ desk.kb = OldSurface
    /\ desk' = [desk EXCEPT !.kb = NoWin]

UnlockSession ==
    /\ desk.curlock # NoLock
    /\ LET e == [desk EXCEPT !.locked = FALSE, !.lockbg = FALSE, !.curlock = NoLock,
                             !.locksurf = {}, !.kb = NoWin]
       IN  desk' = Refocus(e)

DestroySessionLock ==
    /\ desk.curlock # NoLock
    /\ desk' = [desk EXCEPT !.curlock = NoLock, !.locksurf = {}, !.kb = NoWin]

-----------------------------------------------------------------------------
OutputEvent ==
    \/ \E m \in Monitor : CreateMon(m) \/ CleanupMon(m) \/ PowerMgrSetMode(m)
    \/ OutputMgrApply
    \/ RequestMonState
    \/ OnConfigReload

WindowEvent ==
    \E c \in Client : CommitInitial(c) \/ MapNotify(c) \/ UnmapNotify(c) \/ SlideEnd(c)

InputEvent ==
    KeyPress \/ MotionNotify \/ ButtonPress \/ ButtonRelease \/ DestroyDragIcon

BarRequest ==
    \E m \in Monitor :
        \/ IpcSetTags(m) \/ IpcSetClientTags(m)
        \/ \E t \in Tag : ExtActivate(m, t) \/ ExtDeactivate(m, t)

ShellEvent ==
    \/ \E l \in Layer : CommitLayerSurface(l) \/ UnmapLayerSurface(l)
    \/ \E k \in Locker : LockSession(k)
    \/ \E m \in Monitor : CreateLockSurface(m) \/ DestroyLockSurface(m)
    \/ DestroyOldSurface \/ UnlockSession \/ DestroySessionLock

Next == OutputEvent \/ WindowEvent \/ InputEvent \/ BarRequest \/ ShellEvent

Spec == Init /\ [][Next]_desk

-----------------------------------------------------------------------------
(***************************************************************************)
(* Type correctness: every handler leaves a desk, with tags in range.      *)
(***************************************************************************)
TypeOK == desk \in Desks

(***************************************************************************)
(* cleanupmon frees the Monitor: nothing that outlives it refers to it.    *)
(* selmon, the windows, the layer surfaces, the layout and the keyboard    *)
(* name only monitors that are still listed; a keyboard focus on a lock    *)
(* surface is on one that its output still has, so that updatemons and     *)
(* destroylocksurface know it when they take it away.                      *)
(***************************************************************************)
LiveMonitors ==
    LET live == Listed(desk.mons)
    IN  /\ desk.layout \cup desk.on \cup desk.asleep \cup desk.locksurf \subseteq live
        /\ desk.selmon \in live \cup {NoMon}
        /\ \A c \in Client : desk.mon[c] \in live \cup {NoMon}
        /\ \A l \in Layer : desk.lmon[l] \in live \cup {NoMon}
        /\ desk.kb \in Monitor => desk.kb \in desk.locksurf

(***************************************************************************)
(* unmapnotify and mapnotify keep the two window lists in step: they hold  *)
(* the same windows, each once, and only a mapped window has a monitor, an *)
(* enabled scene node or the pointer grab.                                 *)
(***************************************************************************)
ListsAgree ==
    /\ Listed(desk.clients) = Listed(desk.fstack)
    /\ Len(desk.clients) = Cardinality(Mapped(desk))
    /\ Len(desk.fstack) = Cardinality(Mapped(desk))
    /\ \A c \in Client :
         desk.mon[c] # NoMon \/ c \in desk.shown \/ c = desk.grabc => c \in Mapped(desk)

(***************************************************************************)
(* The outputs of the layout (where the pointer can go) are the enabled    *)
(* ones and perhaps sleeping ones, never one that was switched off.        *)
(***************************************************************************)
LayoutIsUsable ==
    /\ Enabled(desk) \subseteq desk.layout
    /\ desk.layout \subseteq desk.on \cup desk.asleep

(***************************************************************************)
(* On an enabled output the scene shows the windows of the view and those  *)
(* that are still sliding out, no others: every handler that changes tags, *)
(* views, monitors or the enabled outputs arranges what it changed.        *)
(***************************************************************************)
ShownIsVisible ==
    \A c \in Mapped(desk) :
        desk.mon[c] \in desk.on =>
            (c \in desk.shown <=> VISIBLEON(desk, c, desk.mon[c]) \/ c \in desk.leaving)

(***************************************************************************)
(* No view and no window on an output is ever left without a tag, whatever *)
(* sequence of toggles, shifts, rules and bar requests is made.            *)
(***************************************************************************)
TagsNonEmpty ==
    /\ \A m \in Monitor : desk.viewed[m] # {} /\ desk.previous[m] # {}
    /\ \A c \in Client : desk.mon[c] # NoMon => desk.tags[c] # {}

-----------------------------------------------------------------------------
(***************************************************************************)
(* Whenever the set of enabled outputs changes, no window is left on an    *)
(* output that is off and not asleep: closemon moves all of them, even     *)
(* when several outputs go at once and one becomes selmon just before it   *)
(* is closed itself.                                                       *)
(***************************************************************************)
Evacuated ==
    [][desk'.on # desk.on =>
         \A c \in Client : desk'.mon[c] # NoMon => ~Disabled(desk', desk'.mon[c])]_desk

(***************************************************************************)
(* Windows that lost every output come back: whenever the set of enabled   *)
(* outputs changes and selmon is enabled, no mapped window is without one. *)
(***************************************************************************)
Adopted ==
    [][desk'.on # desk.on /\ desk'.selmon \in desk'.on =>
         \A c \in Mapped(desk') : desk'.mon[c] # NoMon]_desk

(***************************************************************************)
(* "Don't move clients to the left output when plugging monitors": a new   *)
(* output takes no window from an output that is enabled or asleep.        *)
(***************************************************************************)
PluggingMovesNothing ==
    [][\A m \in Listed(desk'.mons) \ Listed(desk.mons), c \in Client :
         desk.mon[c] \in desk.on \cup desk.asleep => desk'.mon[c] = desk.mon[c]]_desk

\* Only output events change the outputs: plugging, power, configuration.
OutputsChange ==
    \/ desk'.mons # desk.mons \/ desk'.layout # desk.layout
    \/ desk'.on # desk.on \/ desk'.asleep # desk.asleep

(***************************************************************************)
(* A sleeping output keeps its windows through every change of the outputs *)
(* that leaves it asleep (asleep is what keeps updatemons from closing it).*)
(***************************************************************************)
SleepKeepsWindows ==
    [][OutputsChange =>
         \A c \in Client : desk.mon[c] \in desk.asleep \cap desk'.asleep =>
             desk'.mon[c] = desk.mon[c]]_desk

(***************************************************************************)
(* A window that changes output because outputs come and go keeps its tags *)
(* (setmon with c->tags), so that it is found again under the same tags,   *)
(* even after it had no output at all for a while.                         *)
(***************************************************************************)
OutputsKeepTags ==
    [][OutputsChange =>
         \A c \in Client : desk.tags[c] # {} => desk'.tags[c] = desk.tags[c]]_desk

(***************************************************************************)
(* On an enabled output no step gives the keyboard to a window its view    *)
(* hides or hides the window that has it.  The one exception is real: a    *)
(* tile sent to another tag while it is dragged is focused when dropped,   *)
(* since swaptiled and dwindle_move_to_edge do not look at its tags.       *)
(***************************************************************************)
KeyboardFollowsView ==
    [][LET c       == desk'.kb
           hidden  == desk'.mon[c] \in desk'.on /\ ~VISIBLEON(desk', c, desk'.mon[c])
           already == c = desk.kb /\ ~VISIBLEON(desk, c, desk.mon[c])
           dropped == /\ c = desk.grabc /\ desk.cursor_mode = "CurTileDrag"
                      /\ desk'.cursor_mode = "CurNormal"
       IN  c \in Client /\ hidden => already \/ dropped]_desk

(***************************************************************************)
(* While the session is locked no window has the keyboard and the          *)
(* background that covers the windows is up, even after the lock client    *)
(* died and whatever outputs and windows come and go.                      *)
(***************************************************************************)
LockHolds ==
    /\ desk.locked <=> desk.lockbg
    /\ desk.locked => desk.kb \notin Client

(***************************************************************************)
(* While the session stays locked the keyboard moves only to lock surfaces *)
(* that exist, or to nothing.  It can be left where it was: with a surface *)
(* that stops being a lock surface while it has the keyboard, and nothing  *)
(* else brings it there.                                                   *)
(***************************************************************************)
LockedKeyboard ==
    [][desk.locked /\ desk'.locked =>
         \/ desk'.kb \in {desk.kb, NoWin} \cup desk'.locksurf
         \/ desk'.kb = OldSurface /\ desk.kb \in desk.locksurf \ desk'.locksurf]_desk

(***************************************************************************)
(* One locker at a time: a lock is not taken from a live lock client, and  *)
(* the session is not unlocked once its lock client has died.              *)
(***************************************************************************)
LockOwnership ==
    [][/\ desk.curlock # NoLock => desk'.curlock \in {desk.curlock, NoLock}
       /\ desk.locked /\ ~desk'.locked => desk.curlock # NoLock]_desk

=============================================================================
