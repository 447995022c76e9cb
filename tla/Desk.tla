------------------------------- MODULE Desk --------------------------------
(***************************************************************************)
(* The window-management state of mono and the functions of src/main.c     *)
(* that transform it.                                                      *)
(*                                                                         *)
(* mono is single threaded: every event handler runs to completion before  *)
(* the event loop dispatches the next one.  A handler calls a handful of   *)
(* mutually dependent functions (setmon, arrange, focusclient, closemon,   *)
(* updatemons, ...) in an order that matters.  Each of these functions is  *)
(* an operator here that maps a desk, the record of the globals and the    *)
(* Client and Monitor fields they touch, to the desk it leaves behind, so  *)
(* that a handler is the composition of the calls it makes.  Module        *)
(* Desktop turns the handlers into actions.                                *)
(*                                                                         *)
(* Geometry, floating and fullscreen state, dwindle trees, canvas state    *)
(* and XWayland override-redirect windows are not part of a desk.          *)
(***************************************************************************)
EXTENDS Integers, FiniteSets, Sequences

CONSTANTS
    Client,     \* toplevel windows (struct Client)
    Monitor,    \* outputs (struct Monitor)
    Stack,      \* the top and overlay layer-shell surfaces, lowest first
    Locker,     \* session-lock clients (struct wlr_session_lock_v1)
    NoWin,      \* the NULL Client / surface
    OldSurface, \* a surface that was a lock surface and is none any more
    NoMon,      \* the NULL Monitor
    NoLock,     \* the NULL session lock
    TAGCOUNT,   \* number of tags
    Animations, \* cfg.animations.enabled && cfg.animations.speed > 0
    MoveBound   \* the configuration binds moveresize to a key or a button

Tag == 1..TAGCOUNT
Listed(s) == {s[i] : i \in DOMAIN s}
Layer == Listed(Stack)

ASSUME TagAssumption == TAGCOUNT \in Nat \ {0}
ASSUME AnimationsAssumption == Animations \in BOOLEAN
ASSUME MoveBoundAssumption == MoveBound \in BOOLEAN
ASSUME NullAssumption ==
    /\ NoMon \notin Monitor
    /\ NoLock \notin Locker
    /\ NoWin \notin Client \cup Layer \cup Monitor
ASSUME StackAssumption == Stack \in Seq(Layer)
ASSUME SurfaceAssumption ==
    /\ Client \cap Layer = {}
    /\ Client \cap Monitor = {}
    /\ Layer \cap Monitor = {}
    /\ OldSurface \notin Client \cup Layer \cup Monitor \cup {NoWin}

SomeMon == Monitor \cup {NoMon}

(***************************************************************************)
(* The keyboard focus of the seat is a window, a layer surface, the lock   *)
(* surface of a monitor (written as that monitor), nothing, or the surface *)
(* that a lock surface leaves behind: an output that goes takes the lock   *)
(* surface with it, the client destroys the surface later.                 *)
(***************************************************************************)
Focusable == Client \cup Layer \cup Monitor \cup {NoWin, OldSurface}

\* CurNormal stands for CurPressed and CurMove for CurResize too.
CursorModes == {"CurNormal", "CurMove", "CurTileDrag"}

Desks == [
    mons     : Seq(Monitor),                \* the list mons, head first
    on       : SUBSET Monitor,              \* wlr_output->enabled
    asleep   : SUBSET Monitor,              \* Monitor.asleep
    layout   : SUBSET Monitor,              \* members of output_layout
    selmon   : SomeMon,
    viewed   : [Monitor -> SUBSET Tag],     \* tagset[seltags]
    previous : [Monitor -> SUBSET Tag],     \* tagset[seltags ^ 1]
    clients  : Seq(Client),                 \* the list clients: mapped windows
    fstack   : Seq(Client),                 \* the list fstack: focus order
    mon      : [Client -> SomeMon],         \* Client.mon
    tags     : [Client -> SUBSET Tag],      \* Client.tags
    shown    : SUBSET Client,               \* the scene node is enabled
    leaving  : SUBSET Client,               \* Client.leaving
    kb       : Focusable,                   \* seat keyboard focus
    cursor_mode : CursorModes,
    grabc    : Client \cup {NoWin},         \* the window the pointer grabbed
    lmon     : [Layer -> SomeMon],          \* output of a mapped layer surface
    grabs    : SUBSET Layer,                \* keyboard_interactive surfaces
    locked   : BOOLEAN,
    curlock  : Locker \cup {NoLock},        \* cur_lock
    lockbg   : BOOLEAN,                     \* locked_bg is enabled
    locksurf : SUBSET Monitor ]             \* Monitor.lock_surface != NULL

(***************************************************************************)
(* Lists.  Mapping puts a window at the head; focusing moves it there.     *)
(***************************************************************************)
Without(s, x) ==
    IF x \in Listed(s)
    THEN LET i == CHOOSE j \in DOMAIN s : s[j] = x
         IN  SubSeq(s, 1, i - 1) \o SubSeq(s, i + 1, Len(s))
    ELSE s
ToHead(s, x) == <<x>> \o Without(s, x)

\* The first element of list s that is in set S; used where it has one.
FirstIn(s, S) ==
    s[CHOOSE i \in DOMAIN s : s[i] \in S /\ \A j \in 1..(i - 1) : s[j] \notin S]

Toggle(S, T) == (S \ T) \cup (T \ S)

(***************************************************************************)
(* VISIBLEON and focustop: what a monitor shows and its topmost window.    *)
(***************************************************************************)
VISIBLEON(d, c, m) ==
    /\ m # NoMon
    /\ d.mon[c] = m
    /\ d.tags[c] \cap d.viewed[m] # {}

VisibleSet(d, m) == {c \in Client : VISIBLEON(d, c, m)}

focustop(d, m) ==
    IF Listed(d.fstack) \cap VisibleSet(d, m) = {}
    THEN NoWin
    ELSE FirstIn(d.fstack, VisibleSet(d, m))

Mapped(d) == Listed(d.clients)

(***************************************************************************)
(* focusclient: a no-op while locked and for the window that has the       *)
(* keyboard already.  The window comes to the top of fstack and its        *)
(* monitor becomes selmon even when a mapped top or overlay layer surface  *)
(* keeps the keyboard (the early return inside "Deactivate old client").   *)
(* Raising, borders and popups are left out.                               *)
(***************************************************************************)
RaiseFocus(d, c) ==
    IF c = NoWin THEN d
    ELSE [d EXCEPT !.fstack = ToHead(@, c), !.selmon = d.mon[c]]

LayerHoldsKeyboard(d) == d.kb \in Layer /\ d.lmon[d.kb] # NoMon

\* Mutant: focusclient without the check of locked.
focusclientWhileLocked(d, c) ==
    LET e == RaiseFocus(d, c)
    IN  IF LayerHoldsKeyboard(d) THEN e ELSE [e EXCEPT !.kb = c]

focusclient(d, c) ==
    IF d.locked \/ (c # NoWin /\ c = d.kb)
    THEN d
    ELSE LET e == RaiseFocus(d, c)
         IN  IF LayerHoldsKeyboard(d) THEN e ELSE [e EXCEPT !.kb = c]

RefocusOn(d, m) == focusclient(d, focustop(d, m))

\* focusclient(focustop(selmon)), which ends many a handler.
Refocus(d) == RefocusOn(d, d.selmon)

(***************************************************************************)
(* arrange: on an enabled output, enable the scene nodes of its windows    *)
(* exactly where the view shows them or a slide still does.                *)
(***************************************************************************)
arrange(d, m) ==
    IF m \notin d.on THEN d
    ELSE LET here == {c \in Mapped(d) : d.mon[c] = m}
         IN  [d EXCEPT !.shown = (@ \ here)
                  \cup {c \in here : VISIBLEON(d, c, m) \/ c \in d.leaving}]

(***************************************************************************)
(* arrangelayers: the topmost mapped keyboard-interactive surface of an    *)
(* enabled output takes the keyboard, except while locked.                 *)
(***************************************************************************)
Interactive(d, m) == {l \in Layer : d.lmon[l] = m /\ l \in d.grabs}

Topmost(S) ==
    Stack[CHOOSE i \in DOMAIN Stack :
            Stack[i] \in S /\ \A j \in DOMAIN Stack : Stack[j] \in S => j <= i]

arrangelayers(d, m) ==
    IF m \notin d.on \/ d.locked \/ Interactive(d, m) = {} THEN d
    ELSE [focusclient(d, NoWin) EXCEPT !.kb = Topmost(Interactive(d, m))]

\* A layer surface that goes away hands the keyboard to another interactive one
\* of its output, or else to the top window of selmon.
unmaplayersurfacenotify(d, l) ==
    LET m    == d.lmon[l]
        gone == [d EXCEPT !.lmon[l] = NoMon, !.grabs = @ \ {l}]
        e    == arrangelayers(gone, m)
    IN  IF e.kb = l THEN Refocus(e) ELSE e

Ungrabbed(d) == [d EXCEPT !.cursor_mode = "CurNormal", !.grabc = NoWin]

\* What canvas_leave does to a desk: a move or resize of the window ends.
canvas_cancel_grab(d, c) ==
    IF d.grabc = c /\ d.cursor_mode = "CurMove" THEN Ungrabbed(d) ELSE d

(***************************************************************************)
(* setmon: a window that changes monitor takes newtags, or the target's    *)
(* view where newtags is empty, and both outputs are arranged before the   *)
(* top window of selmon gets the keyboard. Arrived is its part for an      *)
(* output that the window goes to.                                         *)
(***************************************************************************)
Arrived(d, c, m, newtags) ==
    IF m = NoMon THEN d ELSE arrange([d EXCEPT !.tags[c] = newtags], m)

setmon(d, c, m, newtags) ==
    IF d.mon[c] = m THEN d
    ELSE LET moved == [canvas_cancel_grab(d, c) EXCEPT !.mon[c] = m, !.leaving = @ \ {c}]
             left  == arrange(moved, d.mon[c])
         IN  Refocus(Arrived(left, c, m, IF newtags = {} THEN d.viewed[m] ELSE newtags))

\* Mutants: every window moves to selmon; a moved window takes the view's tags.
MigrateEvery(d, c, from) == setmon(d, c, d.selmon, d.tags[c])
MigrateRetagged(d, c, from) ==
    IF d.mon[c] = from THEN setmon(d, c, d.selmon, {}) ELSE d

(***************************************************************************)
(* The loop "for every window with mon == from: setmon(c, selmon,          *)
(* c->tags)".  closemon runs it for the closed monitor, updatemons for the *)
(* windows that have no monitor (from = NoMon).                            *)
(***************************************************************************)
Migrate(d, c, from) ==
    IF d.mon[c] = from THEN setmon(d, c, d.selmon, d.tags[c]) ELSE d

MigrateAll(d, from) ==
    LET run[i \in 0..Len(d.clients)] ==
            IF i = 0 THEN d ELSE Migrate(run[i - 1], d.clients[i], from)
    IN  run[Len(d.clients)]

(***************************************************************************)
(* closemon: selmon moves to the first other enabled monitor, or becomes   *)
(* NULL, and the windows of the closed monitor follow it.                  *)
(***************************************************************************)
Replacement(d, m) ==
    LET candidates == (Listed(d.mons) \cap d.on) \ {m}
    IN  IF candidates = {} THEN NoMon ELSE FirstIn(d.mons, candidates)

\* Mutant: the windows of the closed monitor stay.
closemonWithoutMoving(d, m) ==
    RefocusOn(IF d.selmon = m THEN [d EXCEPT !.selmon = Replacement(d, m)] ELSE d,
              IF d.selmon = m THEN Replacement(d, m) ELSE d.selmon)

closemon(d, m) ==
    LET e == IF d.selmon = m THEN [d EXCEPT !.selmon = Replacement(d, m)] ELSE d
        f == MigrateAll(e, m)
    IN  Refocus(f)

\* Mutant: a sleeping output counts as disabled.
DisabledOrAsleep(d, m) == m \notin d.on

(***************************************************************************)
(* updatemons, in its order: disabled outputs that are not merely asleep   *)
(* leave the layout and are closed; enabled outputs enter the layout; each *)
(* enabled output is arranged and the first becomes selmon if there is     *)
(* none; windows without a monitor are adopted by an enabled selmon and    *)
(* the focus is restored, on selmon's lock surface if it has one.          *)
(*                                                                         *)
(* updatemons listens to the layout that it changes: a call of             *)
(* wlr_output_layout_remove or _add does not return before updatemons has  *)
(* run again, in the middle of its own loops.  again[d] is what the nested *)
(* call makes of desk d.                                                   *)
(***************************************************************************)
Disabled(d, m) == m \notin d.on /\ m \notin d.asleep

\* Mutant: a disabled output stays in the layout.
CloseInLayout(d, m, again) == IF Disabled(d, m) THEN closemon(d, m) ELSE d

CloseIfDisabled(d, m, again) ==
    LET removed == IF m \in d.layout THEN again[[d EXCEPT !.layout = @ \ {m}]] ELSE d
    IN  IF Disabled(d, m) THEN closemon(removed, m) ELSE d

CloseDisabled(d, again) ==
    LET run[i \in 0..Len(d.mons)] ==
            IF i = 0 THEN d ELSE CloseIfDisabled(run[i - 1], d.mons[i], again)
    IN  run[Len(d.mons)]

PlaceIfEnabled(d, m, again) ==
    IF m \in d.on \ d.layout THEN again[[d EXCEPT !.layout = @ \cup {m}]] ELSE d

PlaceEnabled(d, again) ==
    LET run[i \in 0..Len(d.mons)] ==
            IF i = 0 THEN d ELSE PlaceIfEnabled(run[i - 1], d.mons[i], again)
    IN  run[Len(d.mons)]

Enabled(d) == Listed(d.mons) \cap d.on

\* The calls arrangelayers(m), arrange(m) for every enabled m of the list: the
\* last output with an interactive layer surface is the one that keeps it.
ArrangeEnabled(d) ==
    LET here    == {c \in Mapped(d) : d.mon[c] \in Enabled(d)}
        taking  == {i \in DOMAIN d.mons : /\ d.mons[i] \in d.on
                                          /\ Interactive(d, d.mons[i]) # {}}
        focused == IF taking = {} THEN d
                   ELSE arrangelayers(d, d.mons[CHOOSE i \in taking :
                                                  \A j \in taking : j <= i])
    IN  [focused EXCEPT
            !.shown = (@ \ here)
                \cup {c \in here : VISIBLEON(d, c, d.mon[c]) \/ c \in d.leaving},
            !.selmon = IF @ = NoMon /\ Enabled(d) # {}
                       THEN FirstIn(d.mons, d.on) ELSE @]

\* Mutant: windows without a monitor are not adopted.
SettleWithoutAdoption(d) ==
    LET e == ArrangeEnabled(d) IN IF e.selmon \in e.on THEN Refocus(e) ELSE e

Settle(d) ==
    LET arranged == ArrangeEnabled(d)
        adopted  == MigrateAll(arranged, NoMon)
        focused  == Refocus(adopted)
    IN  IF arranged.selmon \notin arranged.on THEN arranged
        ELSE IF focused.selmon \in focused.locksurf
             THEN [focused EXCEPT !.kb = focused.selmon]
             ELSE focused

Updated(d, again) == Settle(PlaceEnabled(CloseDisabled(d, again), again))

\* A nested call finds one output fewer to remove or to add, so that calls nested
\* as deep as there are outputs make no further call.
updatemons(d) ==
    LET depth == Len(d.mons) + 1
        calls[k \in 0..depth] ==
            [e \in Desks |-> IF k = 0 THEN e ELSE Updated(e, calls[k - 1])]
    IN  calls[depth][d]

(***************************************************************************)
(* The view and tag functions.  view() with the empty set goes back to the *)
(* previous tag set; a tag set never becomes empty.                        *)
(***************************************************************************)
anim_view(d, m, old, new) ==
    IF ~Animations THEN d
    ELSE LET moving == {c \in Mapped(d) :
                          /\ d.mon[c] = m
                          /\ (d.tags[c] \cap old = {}) # (d.tags[c] \cap new = {})}
         IN  [d EXCEPT !.leaving = (@ \ moving)
                           \cup {c \in moving : d.tags[c] \cap new = {}}]

Redisplay(d, m) == arrange(RefocusOn(d, m), m)

view(d, newtags) ==
    LET m   == d.selmon
        old == d.viewed[m]
        new == IF newtags = {} THEN d.previous[m] ELSE newtags
        e   == [d EXCEPT !.viewed[m] = new, !.previous[m] = old]
    IN  IF m = NoMon THEN d
        ELSE IF newtags = old THEN d
             ELSE Redisplay(anim_view(e, m, old, new), m)

\* Mutants: the last tag can be toggled off; the focus is not restored.
toggleviewToNothing(d, flip) ==
    IF d.selmon = NoMon THEN d
    ELSE Redisplay([d EXCEPT !.viewed[d.selmon] = Toggle(@, flip)], d.selmon)
toggleviewWithoutFocus(d, flip) ==
    LET m   == d.selmon
        new == Toggle(d.viewed[m], flip)
    IN  IF m = NoMon THEN d
        ELSE IF new = {} THEN d ELSE arrange([d EXCEPT !.viewed[m] = new], m)

toggleview(d, flip) ==
    LET m   == d.selmon
        new == Toggle(d.viewed[m], flip)
    IN  IF m = NoMon THEN d
        ELSE IF new = {} THEN d
             ELSE Redisplay([d EXCEPT !.viewed[m] = new], m)

\* Mutant: the output is not arranged.
settagsWithoutArrange(d, c, newtags) ==
    IF c = NoWin THEN d
    ELSE IF d.mon[c] = NoMon \/ newtags = {} THEN d
         ELSE RefocusOn([canvas_cancel_grab(d, c) EXCEPT !.tags[c] = newtags], d.mon[c])

settags(d, c, newtags) ==
    IF c = NoWin THEN d
    ELSE IF d.mon[c] = NoMon \/ newtags = {} \/ d.tags[c] = newtags THEN d
         ELSE Redisplay([canvas_cancel_grab(d, c) EXCEPT !.tags[c] = newtags], d.mon[c])

\* Mutant: no wrap around.
ShiftedTagUnwrapped(S, n) == {(IF S = {} THEN 1 ELSE CHOOSE t \in S : \A u \in S : t <= u) + n}

\* The lowest tag of a set and the tag n places after it, wrapping around.
ShiftedTag(S, n) ==
    LET low == IF S = {} THEN 1 ELSE CHOOSE t \in S : \A u \in S : t <= u
    IN  {((low - 1 + n + TAGCOUNT) % TAGCOUNT) + 1}

(***************************************************************************)
(* dirtomon: the adjacent output in a direction, else the farthest one on  *)
(* the other side, else selmon: some output of the layout, decided by      *)
(* positions that a desk does not hold.                                    *)
(***************************************************************************)
dirtomon(d) == IF d.selmon \in d.layout THEN d.layout ELSE {d.selmon}

(***************************************************************************)
(* The commands of dispatch_action that reach a desk.  Those that choose   *)
(* by position are the set of desks they may lead to.                      *)
(***************************************************************************)
viewshift(d, n) ==
    IF d.selmon = NoMon THEN d ELSE view(d, ShiftedTag(d.viewed[d.selmon], n))

tag(d, newtags) == settags(d, focustop(d, d.selmon), newtags)

toggletag(d, flip) ==
    LET sel == focustop(d, d.selmon)
    IN  IF sel = NoWin THEN d ELSE settags(d, sel, Toggle(d.tags[sel], flip))

tagshift(d, n) ==
    LET sel == focustop(d, d.selmon)
    IN  IF sel = NoWin THEN d ELSE tag(d, ShiftedTag(d.tags[sel], n))

tagmon(d) ==
    LET sel == focustop(d, d.selmon)
    IN  IF sel = NoWin THEN {d} ELSE {setmon(d, sel, m, {}) : m \in dirtomon(d)}

\* The walk skips disabled outputs for as long as it is not back where it began.
focusmon(d) ==
    LET reached == (dirtomon(d) \cap d.on)
                        \cup (IF d.selmon \in d.on THEN {} ELSE dirtomon(d))
    IN  IF d.selmon = NoMon THEN {d}
        ELSE {RefocusOn([d EXCEPT !.selmon = m], m) : m \in reached}

focusdir(d) ==
    LET sel == focustop(d, d.selmon)
    IN  IF sel = NoWin THEN {d}
        ELSE {d} \cup {focusclient(d, c) : c \in VisibleSet(d, d.selmon) \ {sel}}

swapdir(d) ==
    IF Cardinality(VisibleSet(d, d.selmon)) < 2 THEN d ELSE Refocus(d)

\* xytonode: what can be under the pointer.
xytonode(d) == (d.shown \ d.leaving) \cup {NoWin}

\* moveresize grabs the window under the pointer, unless it is fullscreen: then
\* grabc names it all the same.  A window that is not tiled on an output cannot
\* be dragged as a tile.
moveresize(d) ==
    LET grabbable == xytonode(d) \ {NoWin}
        draggable == {c \in grabbable : d.mon[c] # NoMon}
    IN  IF d.cursor_mode # "CurNormal" THEN {d}
        ELSE {[d EXCEPT !.grabc = c] : c \in xytonode(d)}
             \cup {[d EXCEPT !.cursor_mode = "CurMove", !.grabc = c] : c \in grabbable}
             \cup {[d EXCEPT !.cursor_mode = "CurTileDrag", !.grabc = c] : c \in draggable}

Commands(d) ==
    UNION { {d, swapdir(d)}, tagmon(d), focusmon(d), focusdir(d),
            IF MoveBound THEN moveresize(d) ELSE {},
            {view(d, S) : S \in SUBSET Tag}, {toggleview(d, S) : S \in SUBSET Tag},
            {tag(d, S) : S \in SUBSET Tag}, {toggletag(d, S) : S \in SUBSET Tag},
            {viewshift(d, n) : n \in {-1, 1}}, {tagshift(d, n) : n \in {-1, 1}} }
=============================================================================
