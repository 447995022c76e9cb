------------------------------- MODULE Canvas -------------------------------
(***************************************************************************)
(* The canvas mode of mono: on the tags of an output that are in canvas    *)
(* mode windows float in world coordinates instead of being tiled, and     *)
(* leaving the mode puts them back.  The module models what src/main.c     *)
(* does to a window's floating and fullscreen state, to the coordinates    *)
(* that its boxes are in and to its scene layer when canvas mode, views,   *)
(* tags, outputs, layouts, fullscreen requests and pointer grabs change in *)
(* any order.                                                              *)
(*                                                                         *)
(* As in module Desk, a function of the code is an operator that maps a    *)
(* desk to the desk it leaves behind.  A box is abstracted to the          *)
(* coordinates that its numbers are in, world coordinates to where they    *)
(* came from.  Focus is module Desk's: a command for the focused window    *)
(* may name any visible one here.  Of the windows only those that are      *)
(* managed are modelled; dialogs, which share their parent's layer, and    *)
(* the animation of the changes are left out.                              *)
(***************************************************************************)
EXTENDS Integers, FiniteSets

CONSTANTS
    Client,     \* toplevel windows
    Monitor,    \* outputs
    NoMon,      \* the NULL Monitor
    TAGCOUNT,   \* number of tags
    Scopes      \* bound: what one behaviour works with, the tags it uses and
                \* the outputs whose view, layout, mode and power it changes

Tag == 1..TAGCOUNT
SomeMon == Monitor \cup {NoMon}

ASSUME TagAssumption == TAGCOUNT \in Nat \ {0}
ASSUME NullAssumption == NoMon \notin Monitor
ASSUME ClientAssumption == IsFiniteSet(Client)
ASSUME ScopesAssumption == Scopes \subseteq [tags : SUBSET Tag, busy : SUBSET Monitor]

(***************************************************************************)
(* A box is a place on the screen, a place in the world of the window's    *)
(* output, or the whole output.  The world place is unset, or it comes     *)
(* from the window's place on the screen, or a drag, a command or the      *)
(* pointer under which the window was mapped gave it.                      *)
(***************************************************************************)
Coordinates == {"none", "screen", "world", "full"}
Places == {"unset", "layout", "placed"}
Layers == {"LyrTile", "LyrFloat", "LyrFS"}
Grabs == {"none", "CurMove", "CurTileDrag"}

Window == [
    mapped       : BOOLEAN,         \* it is in the list clients
    mon          : SomeMon,
    tags         : SUBSET Tag,
    isfloating   : BOOLEAN,
    isfullscreen : BOOLEAN,
    incanvas     : BOOLEAN,
    wasfloating  : BOOLEAN,         \* canvas_wasfloating, FALSE outside the canvas
    world        : Places,          \* world_set, world_x, world_y
    geom         : Coordinates,
    prev         : Coordinates,     \* the box to restore, while fullscreen
    grab         : Grabs,           \* cursor_mode, if it is grabc
    layer        : Layers ]         \* parent of the scene node

Output == [
    listed       : BOOLEAN,         \* it is in the list mons
    on           : BOOLEAN,         \* wlr_output->enabled
    viewed       : SUBSET Tag,      \* tagset[seltags]
    canvas_tags  : SUBSET Tag,
    tiled        : BOOLEAN ]        \* lt[sellt]->arrange != NULL

VARIABLES
    win,        \* the windows
    out,        \* the outputs
    selmon,
    scope       \* the scope of this behaviour

vars == <<win, out, selmon, scope>>

Plugged == [listed |-> TRUE, on |-> TRUE, viewed |-> {1}, canvas_tags |-> {}, tiled |-> TRUE]

Init ==
    /\ win = [c \in Client |->
                [mapped |-> FALSE, mon |-> NoMon, tags |-> {}, isfloating |-> FALSE,
                 isfullscreen |-> FALSE, incanvas |-> FALSE, wasfloating |-> FALSE,
                 world |-> "unset", geom |-> "none", prev |-> "none", grab |-> "none",
                 layer |-> "LyrTile"]]
    /\ out = [m \in Monitor |-> [Plugged EXCEPT !.listed = FALSE, !.on = FALSE]]
    /\ selmon = NoMon
    /\ scope \in Scopes

-----------------------------------------------------------------------------
(***************************************************************************)
(* The functions: w is a window, o the output it is on; W is all windows,  *)
(* O all outputs.                                                          *)
(***************************************************************************)
VISIBLEON(w, o) == w.tags \cap o.viewed # {}

canvas_active(w, o) == o.canvas_tags \cap w.tags \cap o.viewed # {} /\ ~w.isfullscreen

canvas_cancel_grab(w) == [w EXCEPT !.grab = IF @ = "CurMove" THEN "none" ELSE @]

\* The box that is not the output's becomes a place on the screen again.
OffWorld(w) ==
    [w EXCEPT !.incanvas = FALSE, !.world = "unset", !.wasfloating = FALSE,
              !.geom = IF w.isfullscreen THEN @ ELSE "screen",
              !.prev = IF w.isfullscreen THEN "screen" ELSE @]

\* Mutant: the floating state that the canvas forced stays.
LeaveFloating(w) == IF w.incanvas THEN OffWorld(canvas_cancel_grab(w)) ELSE canvas_cancel_grab(w)

\* canvas_leave: the floating state is the one from before the canvas.
canvas_leave(w) ==
    LET u == canvas_cancel_grab(w)
    IN  IF ~w.incanvas THEN u
        ELSE [OffWorld(u) EXCEPT
                !.isfloating = w.wasfloating,
                !.layer = IF w.isfullscreen THEN @
                          ELSE IF w.wasfloating THEN "LyrFloat" ELSE "LyrTile"]

\* The body of the loop of canvas_layout.
canvas_layout(w, o) ==
    IF ~(VISIBLEON(w, o) /\ canvas_active(w, o)) THEN w
    ELSE [w EXCEPT !.world = IF @ = "unset" THEN "layout" ELSE @,
                   !.incanvas = TRUE,
                   !.wasfloating = IF w.incanvas THEN @ ELSE w.isfloating,
                   !.isfloating = TRUE,
                   !.layer = IF w.isfloating THEN @ ELSE "LyrFloat",
                   !.geom = "world"]

\* Mutant: fullscreen windows leave the canvas too.
LeavesFullscreen(w, o) == VISIBLEON(w, o) /\ w.incanvas /\ ~canvas_active(w, o)

\* Whether arrange takes the window out of the canvas: it never does to a
\* fullscreen one, which is to return to its world place.
Leaves(w, o) ==
    VISIBLEON(w, o) /\ w.incanvas /\ ~canvas_active(w, o) /\ ~w.isfullscreen

\* The layer of a window when its output is arranged.
Relayered(w, o) ==
    IF w.layer # "LyrFS" /\ w.isfloating
    THEN [w EXCEPT !.layer = IF o.tiled THEN "LyrFloat" ELSE "LyrTile"]
    ELSE w

\* dwindle gives every tile that is not being dragged a place on the screen.
Tiled(w, o) ==
    IF o.tiled /\ VISIBLEON(w, o) /\ ~w.isfloating /\ ~w.isfullscreen
    THEN [w EXCEPT !.geom = "screen"] ELSE w

\* What arrange does to a mapped window of output o.
Arranged(w, o) ==
    LET left   == IF Leaves(w, o) THEN canvas_leave(w) ELSE w
        placed == IF o.canvas_tags \cap o.viewed # {} THEN canvas_layout(left, o) ELSE left
    IN  Tiled(Relayered(placed, o), o)

\* The list that the loops over all windows follow, in some order.
clients ==
    CHOOSE order \in [1..Cardinality(Client) -> Client] :
        \A c \in Client : \E i \in DOMAIN order : order[i] = c

On(W, m) == {c \in Client : W[c].mapped /\ W[c].mon = m}

\* canvas_layout on an output.
LayOut(W, O, m) ==
    [c \in Client |-> IF c \in On(W, m) THEN canvas_layout(W[c], O[m]) ELSE W[c]]

(***************************************************************************)
(* motionnotify's part for a grabbed window, which arrange runs as well.   *)
(* Inside the canvas a move changes the world place, outside it the box on *)
(* the screen; while its output is in canvas mode the world place of a     *)
(* window that is hidden or fullscreen follows as well.                    *)
(***************************************************************************)
Dragged(w, o) ==
    [w EXCEPT !.geom = "screen",
              !.world = IF @ # "unset" /\ o.canvas_tags \cap o.viewed # {} THEN "placed" ELSE @]

motionnotify(W, O) ==
    LET grabbed == {c \in Client : W[c].grab # "none" /\ W[c].mapped /\ W[c].mon # NoMon}
    IN  IF grabbed = {} THEN W
        ELSE LET c == CHOOSE c \in grabbed : TRUE
                 m == W[c].mon
             IN  IF W[c].grab = "CurTileDrag" THEN [W EXCEPT ![c].geom = "screen"]
                 ELSE IF canvas_active(W[c], O[m])
                 THEN LayOut([W EXCEPT ![c].world = "placed"], O, m)
                 ELSE [W EXCEPT ![c] = Dragged(@, O[m])]

arrange(W, O, m) ==
    IF ~O[m].on THEN W
    ELSE motionnotify([c \in Client |-> IF c \in On(W, m) THEN Arranged(W[c], O[m]) ELSE W[c]],
                      O)

\* Mutant: a fullscreen window that floats goes to the floating layer.
setfloatingFullscreen(W, O, c, floating) ==
    LET m == W[c].mon
        e == [W EXCEPT ![c].isfloating = floating]
    IN  IF m = NoMon \/ ~W[c].mapped \/ ~O[m].tiled THEN e
        ELSE arrange([e EXCEPT ![c].layer = IF floating THEN "LyrFloat" ELSE "LyrTile"], O, m)

setfloating(W, O, c, floating) ==
    LET m     == W[c].mon
        e     == [W EXCEPT ![c].isfloating = floating]
        layer == IF W[c].isfullscreen THEN "LyrFS"
                 ELSE IF floating THEN "LyrFloat" ELSE "LyrTile"
    IN  IF m = NoMon \/ ~W[c].mapped \/ ~O[m].tiled THEN e
        ELSE arrange([e EXCEPT ![c].layer = layer], O, m)

\* Mutant: the box to restore is saved on every request.
FullscreenedAgain(w) ==
    [w EXCEPT !.isfullscreen = TRUE, !.layer = "LyrFS", !.prev = w.geom, !.geom = "full"]

Fullscreened(w) ==
    [w EXCEPT !.isfullscreen = TRUE, !.layer = "LyrFS",
              !.prev = IF w.isfullscreen THEN @ ELSE w.geom, !.geom = "full"]

Unfullscreened(w) ==
    [w EXCEPT !.isfullscreen = FALSE,
              !.layer = IF w.isfloating THEN "LyrFloat" ELSE "LyrTile",
              !.geom = IF w.isfullscreen THEN w.prev ELSE @, !.prev = "none"]

setfullscreen(W, O, c, fullscreen) ==
    LET m == W[c].mon
    IN  IF m = NoMon \/ ~W[c].mapped THEN [W EXCEPT ![c].isfullscreen = fullscreen]
        ELSE arrange([W EXCEPT ![c] = IF fullscreen THEN Fullscreened(@)
                                      ELSE Unfullscreened(@)], O, m)

(***************************************************************************)
(* setmon.  The window leaves the canvas of its output before it moves;    *)
(* its box, or the one to restore, is centred on the new one.              *)
(***************************************************************************)
Centred(w, tags) ==
    [w EXCEPT !.tags = tags,
              !.prev = IF w.isfullscreen THEN "screen" ELSE @,
              !.geom = IF w.mapped /\ ~w.isfullscreen THEN "screen" ELSE @]

setmon(W, O, c, m, newtags) ==
    LET old     == W[c].mon
        moved   == [W EXCEPT ![c] = [canvas_leave(@) EXCEPT !.mon = m]]
        behind  == IF old = NoMon THEN moved ELSE arrange(moved, O, old)
        tags    == IF newtags = {} THEN O[m].viewed ELSE newtags
        centred == [behind EXCEPT ![c] = Centred(@, tags)]
        full    == setfullscreen(centred, O, c, centred[c].isfullscreen)
    IN  IF old = m THEN W
        ELSE IF m = NoMon THEN behind
        ELSE setfloating(full, O, c, full[c].isfloating)

-----------------------------------------------------------------------------
(***************************************************************************)
(* What the handlers share.                                                *)
(***************************************************************************)
Listed == {m \in Monitor : out[m].listed}
Mapped == {c \in Client : win[c].mapped}
Visible == {c \in Mapped : win[c].mon # NoMon /\ VISIBLEON(win[c], out[win[c].mon])}
OnSelmon == {c \in Visible : win[c].mon = selmon}
Active == {c \in Visible : canvas_active(win[c], out[win[c].mon])}

grabc == {c \in Client : win[c].grab # "none"}

-----------------------------------------------------------------------------
(***************************************************************************)
(* Canvas mode.  The eased zoom that follows lays the canvas out again,    *)
(* even on an output that is asleep and that arrange does not touch.       *)
(***************************************************************************)
togglecanvas ==
    /\ selmon \in scope.busy
    /\ LET m        == selmon
           tags     == out[m].viewed
           disabled == out[m].canvas_tags \cap tags
           enabled  == tags \ out[m].canvas_tags
           canvas   == (out[m].canvas_tags \ disabled) \cup enabled
           O        == [out EXCEPT ![m].canvas_tags = canvas]
           leaving  == {c \in On(win, m) : /\ win[c].tags \cap disabled # {}
                                           /\ win[c].tags \cap canvas = {}}
           left     == [c \in Client |-> IF c \in leaving THEN canvas_leave(win[c])
                                         ELSE win[c]]
           arranged == arrange(left, O, m)
       IN  /\ out' = O
           /\ win' = IF enabled = {} THEN arranged ELSE LayOut(arranged, O, m)
    /\ UNCHANGED <<selmon, scope>>

movecenter(c) ==
    /\ c \in OnSelmon /\ win[c].isfloating
    /\ win' = IF c \in Active THEN LayOut([win EXCEPT ![c].world = "placed"], out, selmon)
              ELSE [win EXCEPT ![c].geom = "screen"]
    /\ UNCHANGED <<out, selmon, scope>>

\* A zoom, a pan, each of their frames, and a window's commit lay the canvas out.
Relayout(m) ==
    /\ m \in Listed
    /\ win' = LayOut(win, out, m)
    /\ UNCHANGED <<out, selmon, scope>>

-----------------------------------------------------------------------------
(***************************************************************************)
(* Views, tags, layouts, floating and fullscreen state.                    *)
(***************************************************************************)
View(m, newtags) ==
    /\ m \in Listed \cap scope.busy /\ newtags \notin {{}, out[m].viewed}
    /\ out' = [out EXCEPT ![m].viewed = newtags]
    /\ win' = arrange(win, out', m)
    /\ UNCHANGED <<selmon, scope>>

\* The window leaves the canvas, even a fullscreen one, and arrange may take it
\* in again.
settags(c, newtags) ==
    /\ c \in Visible /\ newtags \notin {{}, win[c].tags}
    /\ LET left == [canvas_leave(win[c]) EXCEPT !.tags = newtags]
       IN  win' = arrange([win EXCEPT ![c] = left], out, win[c].mon)
    /\ UNCHANGED <<out, selmon, scope>>

setlayout ==
    /\ selmon \in scope.busy
    /\ out' = [out EXCEPT ![selmon].tiled = ~@]
    /\ win' = arrange(win, out', selmon)
    /\ UNCHANGED <<selmon, scope>>

togglefloating(c) ==
    /\ c \in OnSelmon /\ ~win[c].isfullscreen
    /\ win' = setfloating(win, out, c, ~win[c].isfloating)
    /\ UNCHANGED <<out, selmon, scope>>

\* togglefullscreen and fullscreennotify: a client may ask at any time.
SetFullscreen(c, fullscreen) ==
    /\ win' = setfullscreen(win, out, c, fullscreen)
    /\ UNCHANGED <<out, selmon, scope>>

-----------------------------------------------------------------------------
(***************************************************************************)
(* Windows come, go and move to another output.                            *)
(***************************************************************************)
PlaceAtPointer(W, c, m) ==
    IF m = NoMon \/ m # selmon THEN W
    ELSE IF out[m].canvas_tags \cap out[m].viewed = {} THEN W
    ELSE LayOut([W EXCEPT ![c].world = "placed"], out, m)

\* A new window ends the fullscreen state of the windows it shares a tag with.
Uncovered(W, w, c) ==
    IF w # c /\ w \in On(W, W[c].mon) /\ W[w].isfullscreen /\ W[w].tags \cap W[c].tags # {}
    THEN setfullscreen(W, out, w, FALSE) ELSE W

UnsetFullscreen(W, c) ==
    LET n == Cardinality(Client)
        run[i \in 0..n] == IF i = 0 THEN W ELSE Uncovered(run[i - 1], clients[i], c)
    IN  IF W[c].mon = NoMon THEN W ELSE run[n]

MapNotify(c) ==
    /\ c \notin Mapped
    /\ \E m \in Listed \cup {selmon}, newtags \in SUBSET scope.tags, floating \in BOOLEAN :
         LET new    == [win EXCEPT ![c] = [@ EXCEPT !.mapped = TRUE, !.isfloating = floating,
                                                    !.geom = "screen", !.layer = "LyrTile"]]
             moved  == setmon(new, out, c, m, newtags)
             placed == PlaceAtPointer(moved, c, m)
         IN  win' = UnsetFullscreen(placed, c)
    /\ UNCHANGED <<out, selmon, scope>>

\* Mutant: the drag of a tile goes on.
UnmapInDrag(c) ==
    /\ c \in Mapped
    /\ win' = [setmon(win, out, c, NoMon, {}) EXCEPT ![c].mapped = FALSE]
    /\ UNCHANGED <<out, selmon, scope>>

UnmapNotify(c) ==
    /\ c \in Mapped
    /\ LET released == [win EXCEPT ![c].grab = "none"]
       IN  win' = [setmon(released, out, c, NoMon, {}) EXCEPT ![c].mapped = FALSE]
    /\ UNCHANGED <<out, selmon, scope>>

tagmon(c, m) ==
    /\ c \in OnSelmon /\ m \in Listed \ {selmon}
    /\ win' = setmon(win, out, c, m, {})
    /\ UNCHANGED <<out, selmon, scope>>

-----------------------------------------------------------------------------
(***************************************************************************)
(* Pointer grabs.  CurMove stands for CurResize too.                       *)
(***************************************************************************)
MoveOrResize(c) ==
    win' = [setfloating(win, out, c, TRUE) EXCEPT ![c].grab = "CurMove"]

\* A tile is picked up, or floated in order to resize it.
moveresize(c) ==
    /\ grabc = {} /\ c \in Visible /\ ~win[c].isfullscreen
    /\ \/ MoveOrResize(c)
       \/ /\ c \notin Active /\ ~win[c].isfloating /\ out[win[c].mon].tiled
          /\ win' = [win EXCEPT ![c] = [@ EXCEPT !.grab = "CurTileDrag", !.layer = "LyrFloat",
                                                  !.geom = "screen"]]
    /\ UNCHANGED <<out, selmon, scope>>

MotionNotify ==
    /\ grabc # {}
    /\ win' = motionnotify(win, out)
    /\ UNCHANGED <<out, selmon, scope>>

\* A moved window is dropped on the output under the pointer.
Drop(c) ==
    /\ win[c].grab = "CurMove"
    /\ selmon' \in IF Listed = {} THEN {NoMon} ELSE Listed
    /\ win' = setmon([win EXCEPT ![c].grab = "none"], out, c, selmon', {})
    /\ UNCHANGED <<out, scope>>

\* A tile is dropped in the layout or back where it was.  If it is no longer a
\* tile, the layout does not find it.
DropTile(c) ==
    /\ win[c].grab = "CurTileDrag"
    /\ \E place \in {win[c].geom} \cup (IF win[c].mon = NoMon THEN {} ELSE {"screen"}) :
         win' = [win EXCEPT ![c] = [@ EXCEPT !.grab = "none", !.layer = "LyrTile",
                                             !.geom = place]]
    /\ UNCHANGED <<out, selmon, scope>>

-----------------------------------------------------------------------------
(***************************************************************************)
(* Outputs.  A new one adopts the windows that have none; the windows of   *)
(* one that goes keep their tags on selmon, if any.  A sleeping one keeps  *)
(* its windows, and arrange leaves them alone until it wakes.              *)
(***************************************************************************)
Migrate(W, O, c, from, to) ==
    IF c \in On(W, from) THEN setmon(W, O, c, to, W[c].tags) ELSE W

MoveAll(W, O, from, to) ==
    LET n == Cardinality(Client)
        run[i \in 0..n] == IF i = 0 THEN W ELSE Migrate(run[i - 1], O, clients[i], from, to)
    IN  run[n]

CreateMon(m) ==
    /\ m \notin Listed
    /\ out' = [out EXCEPT ![m] = Plugged]
    /\ selmon' = IF selmon = NoMon THEN m ELSE selmon
    /\ win' = IF out'[selmon'].on THEN MoveAll(win, out', NoMon, selmon') ELSE win
    /\ UNCHANGED scope

CleanupMon(m) ==
    /\ m \in Listed
    /\ out' = [out EXCEPT ![m] = [Plugged EXCEPT !.listed = FALSE, !.on = FALSE]]
    /\ LET others == {n \in Listed \ {m} : out[n].on}
       IN  IF selmon = m
           THEN selmon' \in IF others = {} THEN {NoMon} ELSE others
           ELSE UNCHANGED selmon
    /\ win' = MoveAll(win, out', m, selmon')
    /\ UNCHANGED scope

PowerMgrSetMode(m) ==
    /\ m \in Listed \cap scope.busy
    /\ out' = [out EXCEPT ![m].on = ~@]
    /\ win' = arrange(win, out', m)
    /\ UNCHANGED <<selmon, scope>>

focusmon(m) ==
    /\ m \in Listed /\ m # selmon
    /\ selmon' = m
    /\ UNCHANGED <<win, out, scope>>

-----------------------------------------------------------------------------
Next ==
    \/ togglecanvas \/ setlayout \/ MotionNotify
    \/ \E m \in Monitor :
         \/ CreateMon(m) \/ CleanupMon(m) \/ PowerMgrSetMode(m) \/ focusmon(m)
         \/ Relayout(m)
         \/ \E newtags \in SUBSET scope.tags : View(m, newtags)
    \/ \E c \in Client :
         \/ MapNotify(c) \/ UnmapNotify(c) \/ movecenter(c) \/ togglefloating(c)
         \/ moveresize(c) \/ Drop(c) \/ DropTile(c)
         \/ \E fullscreen \in BOOLEAN : SetFullscreen(c, fullscreen)
         \/ \E newtags \in SUBSET scope.tags : settags(c, newtags)
         \/ \E m \in Monitor : tagmon(c, m)

Spec == Init /\ [][Next]_vars

-----------------------------------------------------------------------------
(***************************************************************************)
(* Type correctness.  A window is in the canvas only on an output and with *)
(* a world place, as canvas_leave relies on; a grab names a mapped window. *)
(***************************************************************************)
TypeOK ==
    /\ win \in [Client -> Window]
    /\ out \in [Monitor -> Output]
    /\ selmon \in Listed \cup {NoMon} /\ scope \in Scopes
    /\ grabc \subseteq Mapped /\ \A c, d \in grabc : c = d
    /\ \A c \in Client : win[c].incanvas =>
         /\ win[c].mapped /\ win[c].mon # NoMon
         /\ win[c].world # "unset"

(***************************************************************************)
(* "Previously tiled windows return to dwindle; previously floating        *)
(* windows stay floating" (docs/canvas.md).  What leaving the canvas would *)
(* restore is never touched by a change of canvas mode, view, tags,        *)
(* output or fullscreen state, in whatever order these come: a window's    *)
(* floating state outside the canvas changes only outside the canvas, when *)
(* the user toggles it or moves the window.                                *)
(***************************************************************************)
Outside(w) == IF w.incanvas THEN w.wasfloating ELSE w.isfloating

FloatingSurvivesCanvas ==
    [][\A c \in Mapped \cap Mapped' :
         Outside(win'[c]) # Outside(win[c]) =>
             /\ ~win[c].incanvas /\ ~win'[c].incanvas
             /\ UNCHANGED out
             /\ win'[c].mon = win[c].mon /\ win'[c].tags = win[c].tags
             /\ win'[c].isfullscreen = win[c].isfullscreen]_vars

(***************************************************************************)
(* The box of a window that is seen, and not fullscreen, is in the         *)
(* coordinates it is drawn with: world coordinates exactly in the canvas.  *)
(* Only the drag of a tile may break this, when canvas mode is toggled     *)
(* while it lasts.                                                         *)
(***************************************************************************)
Misplaced(w, o) ==
    o.on /\ VISIBLEON(w, o) /\ ~w.isfullscreen
    /\ \/ w.incanvas # canvas_active(w, o)
       \/ w.geom # IF w.incanvas THEN "world" ELSE "screen"

SomeMisplaced(c) == win[c].mapped /\ win[c].mon # NoMon /\ Misplaced(win[c], out[win[c].mon])

TileDragged(c) == win[c].grab = "CurTileDrag"

BoxesKeepCoordinates ==
    [][\A c \in Client : SomeMisplaced(c)' => SomeMisplaced(c) \/ TileDragged(c)]_vars

(***************************************************************************)
(* "Fullscreen stays in canvas so unfullscreen returns to its world spot"  *)
(* (arrange): while a fullscreen window is seen through a tag in canvas    *)
(* mode, it keeps its world place through views, layouts, toggled modes,   *)
(* sleep and repeated requests.  Only a drag changes it, and a change of   *)
(* the window's tags, of which arrange's comment does not speak: settags   *)
(* takes the window out of the canvas, fullscreen or not, and its place    *)
(* with it, although it stays seen through the tag in canvas mode.         *)
(***************************************************************************)
FullscreenKeepsSpot ==
    [][\A c \in Mapped \cap Mapped' :
         LET w == win[c]
             o == out'[w.mon]
         IN  /\ w.incanvas /\ w.isfullscreen
             /\ win'[c].mon = w.mon /\ win'[c].tags = w.tags
             /\ o.canvas_tags \cap o.viewed \cap w.tags # {}
             /\ c \notin grabc
             => win'[c].incanvas /\ win'[c].world = w.world]_vars

(***************************************************************************)
(* Fullscreen windows are above floating windows, these above tiles:       *)
(* exactly the fullscreen windows are in the fullscreen layer, and in a    *)
(* tiling layout no floating window that is seen is in the layer of the    *)
(* tiles.  Only the drop of a dragged tile, which always lands in the      *)
(* tiled layer, breaks this, until its output is arranged.                 *)
(***************************************************************************)
Mislayered(c) ==
    LET w == win[c]
    IN  /\ w.mapped /\ w.mon # NoMon
        /\ \/ (w.layer = "LyrFS") # w.isfullscreen
           \/ /\ out[w.mon].on /\ out[w.mon].tiled /\ VISIBLEON(w, out[w.mon])
              /\ w.isfloating /\ w.layer = "LyrTile"

LayersFollowState ==
    [][\A c \in Client : Mislayered(c)' => Mislayered(c) \/ TileDragged(c)]_vars

(***************************************************************************)
(* Entering canvas mode, "current window positions become world positions" *)
(* (docs/canvas.md): a window that toggling the mode takes into the canvas *)
(* gets its world place from where it is.                                  *)
(***************************************************************************)
EntryTakesPositions ==
    [][\A c \in Client, m \in Monitor :
         /\ ~win[c].incanvas /\ win'[c].incanvas /\ c \notin grabc
         /\ out'[m].canvas_tags # out[m].canvas_tags
         => win'[c].world = "layout"]_vars
=============================================================================
