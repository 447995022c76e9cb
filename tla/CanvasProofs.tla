---------------------------- MODULE CanvasProofs ----------------------------
(***************************************************************************)
(* Theorems about module Canvas, for any windows, outputs, tags and        *)
(* scopes: whatever the order of canvas mode, views, tags, outputs,        *)
(* layouts, fullscreen requests and grabs, the state that a window has     *)
(* outside the canvas survives, its box stays in the coordinates it is     *)
(* drawn with, and its layer follows its state.                            *)
(*                                                                         *)
(* Sound(w, u, o) says what the functions of main.c may do to a window of  *)
(* output o that they turn from w into u, Changed that its floating state  *)
(* outside the canvas stays, Kept that its world place does as well, and   *)
(* Undisturbed its fullscreen state; Settled(u, o) is what arrange         *)
(* establishes.                                                            *)
(* One lemma per function shows which of these hold, of the functions of   *)
(* one window first, then of those of all windows, setmon and the loops    *)
(* over the window list last.                                              *)
(***************************************************************************)
EXTENDS Canvas, Loops, FiniteSetTheorems

\* A box has the coordinates of the state that its window is in: outside the
\* canvas it is a place on the screen, or restores one.
Fit(w) ==
    /\ ~w.mapped => w.mon = NoMon
    /\ w.incanvas => w.mapped /\ w.mon # NoMon /\ w.world # "unset"
    /\ w.grab # "none" => w.mapped
    /\ w.mapped /\ w.mon # NoMon /\ ~w.incanvas =>
         IF w.isfullscreen THEN w.prev = "screen" ELSE w.geom = "screen"

Fits == {w \in Window : Fit(w)}

\* On an output that is on, whatever is seen through a tag in canvas mode is in it.
Entered(w, o) == o.on /\ canvas_active(w, o) => w.incanvas

Layered(w) == (w.layer = "LyrFS") = w.isfullscreen

Mislaid(w, o) ==
    \/ ~Layered(w)
    \/ o.on /\ o.tiled /\ VISIBLEON(w, o) /\ w.isfloating /\ w.layer = "LyrTile"

Sound(w, u, o) ==
    /\ u \in Fits
    /\ u.mapped = w.mapped /\ u.mon = w.mon /\ u.tags = w.tags
    /\ u.grab = w.grab \/ (w.grab = "CurMove" /\ u.grab = "none")
    /\ w.mon # NoMon =>
         /\ Entered(w, o) => Entered(u, o)
         /\ Misplaced(u, o) => Misplaced(w, o) \/ w.grab = "CurTileDrag"
         /\ Mislaid(u, o) => Mislaid(w, o)

Changed(w, u, o) == Sound(w, u, o) /\ Outside(u) = Outside(w)

Spot(w, u, o) ==
    w.incanvas /\ w.grab = "none" /\ o.canvas_tags \cap o.viewed \cap w.tags # {} =>
        u.incanvas /\ u.world = w.world

Kept(w, u, o) == Changed(w, u, o) /\ Spot(w, u, o)

Undisturbed(w, u, o) ==
    /\ Kept(w, u, o)
    /\ u.isfullscreen = w.isfullscreen
    /\ u.incanvas => w.incanvas \/ canvas_active(w, o)

Seated(u, o) == Entered(u, o) /\ (Misplaced(u, o) => u.grab = "CurTileDrag")

Settled(u, o) == Seated(u, o) /\ ~Mislaid(u, o)

LEMMA MisplacedIff ==
    ASSUME NEW w \in Window, NEW o
    PROVE  Misplaced(w, o) <=>
             /\ o.on /\ VISIBLEON(w, o) /\ ~w.isfullscreen
             /\ \/ w.incanvas /\ (~canvas_active(w, o) \/ w.geom # "world")
                \/ ~w.incanvas /\ (canvas_active(w, o) \/ w.geom # "screen")
BY DEF Misplaced, canvas_active, Window

LEMMA ChangedSame ==
    ASSUME NEW w \in Fits, NEW o
    PROVE  Undisturbed(w, w, o)
BY DEF Undisturbed, Kept, Changed, Sound, Spot

LEMMA SoundTwice ==
    ASSUME NEW w, NEW u, NEW v, NEW o, Sound(w, u, o), Sound(u, v, o)
    PROVE  Sound(w, v, o)
BY DEF Sound

LEMMA SpotTwice ==
    ASSUME NEW w, NEW u, NEW v, NEW o, Sound(w, u, o), Spot(w, u, o), Spot(u, v, o)
    PROVE  Spot(w, v, o)
BY DEF Sound, Spot

LEMMA KeptTwice ==
    ASSUME NEW w, NEW u, NEW v, NEW o, Kept(w, u, o), Kept(u, v, o)
    PROVE  Kept(w, v, o)
BY SoundTwice, SpotTwice DEF Kept, Changed

LEMMA UndisturbedTwice ==
    ASSUME NEW w, NEW u, NEW v, NEW o, Undisturbed(w, u, o), Undisturbed(u, v, o)
    PROVE  Undisturbed(w, v, o)
<1>1. Kept(w, v, o)
  BY KeptTwice DEF Undisturbed
<1>2. u.isfullscreen = w.isfullscreen /\ u.tags = w.tags
  BY DEF Undisturbed, Kept, Changed, Sound
<1>3. canvas_active(u, o) => canvas_active(w, o)
  BY <1>2 DEF canvas_active
<1> QED BY <1>1, <1>3 DEF Undisturbed

LEMMA SettledStays ==
    ASSUME NEW w, NEW u, NEW o, Sound(w, u, o), w.mon # NoMon
    PROVE  /\ Seated(w, o) => Seated(u, o)
           /\ Settled(w, o) => Settled(u, o)
BY DEF Settled, Seated, Sound

-----------------------------------------------------------------------------
(***************************************************************************)
(* What arrange does to one window, stage by stage.                        *)
(***************************************************************************)
LEMMA CancelGrab ==
    ASSUME NEW w \in Fits
    PROVE  /\ canvas_cancel_grab(w) \in Fits
           /\ canvas_cancel_grab(w) =
                [w EXCEPT !.grab = IF w.grab = "CurMove" THEN "none" ELSE w.grab]
<1>1. canvas_cancel_grab(w) \in Window
  BY DEF canvas_cancel_grab, Fits, Window, Grabs
<1> QED BY <1>1 DEF canvas_cancel_grab, Fits, Fit, Window, Grabs

(***************************************************************************)
(* canvas_leave, with a box on the screen and the floating state from      *)
(* outside the canvas.                                                     *)
(***************************************************************************)
LEMMA LeaveFields ==
    ASSUME NEW w \in Fits
    PROVE  LET u == canvas_leave(w)
           IN  /\ u \in Fits
               /\ u.mapped = w.mapped /\ u.mon = w.mon /\ u.tags = w.tags
               /\ u.isfullscreen = w.isfullscreen
               /\ u.grab = (IF w.grab = "CurMove" THEN "none" ELSE w.grab)
               /\ u.isfloating = Outside(w) /\ Outside(u) = Outside(w) /\ ~u.incanvas
               /\ Layered(w) => Layered(u)
               /\ ~w.incanvas => u.layer = w.layer /\ u.geom = w.geom
               /\ w.incanvas /\ ~w.isfullscreen =>
                    u.layer = IF u.isfloating THEN "LyrFloat" ELSE "LyrTile"
<1> DEFINE v == canvas_cancel_grab(w)
           u == canvas_leave(w)
<1>1. v \in Window
  BY CancelGrab DEF Fits
<1>2. /\ v.mapped = w.mapped /\ v.mon = w.mon /\ v.tags = w.tags
      /\ v.isfullscreen = w.isfullscreen /\ v.isfloating = w.isfloating
      /\ v.incanvas = w.incanvas /\ v.wasfloating = w.wasfloating
      /\ v.grab = (IF w.grab = "CurMove" THEN "none" ELSE w.grab)
      /\ v.layer = w.layer /\ v.geom = w.geom /\ v.prev = w.prev
  BY CancelGrab DEF Fits, Window
<1>3. CASE ~w.incanvas
  <2>1. u = v
    BY <1>3 DEF canvas_leave
  <2> QED BY <1>2, <1>3, <2>1, CancelGrab DEF Outside, Layered
<1>4. CASE w.incanvas
  <2> HIDE DEF v
  <2>1. u = [OffWorld(v) EXCEPT
               !.isfloating = w.wasfloating,
               !.layer = IF w.isfullscreen THEN @
                         ELSE IF w.wasfloating THEN "LyrFloat" ELSE "LyrTile"]
    BY <1>4 DEF canvas_leave, v
  <2>2. /\ OffWorld(v) \in Window
        /\ OffWorld(v).mapped = w.mapped /\ OffWorld(v).mon = w.mon
        /\ OffWorld(v).tags = w.tags /\ OffWorld(v).isfullscreen = w.isfullscreen
        /\ OffWorld(v).grab = v.grab /\ OffWorld(v).layer = w.layer
        /\ OffWorld(v).incanvas = FALSE
        /\ IF w.isfullscreen THEN OffWorld(v).prev = "screen" ELSE OffWorld(v).geom = "screen"
    BY <1>1, <1>2 DEF OffWorld, Window, Places, Coordinates
  <2> DEFINE x == OffWorld(v)
  <2>3. /\ u \in Window
        /\ u.mapped = w.mapped /\ u.mon = w.mon /\ u.tags = w.tags
        /\ u.isfullscreen = w.isfullscreen /\ u.grab = v.grab
        /\ u.incanvas = FALSE /\ u.isfloating = w.wasfloating
        /\ IF w.isfullscreen THEN u.prev = "screen" ELSE u.geom = "screen"
        /\ u.layer = IF w.isfullscreen THEN w.layer
                     ELSE IF w.wasfloating THEN "LyrFloat" ELSE "LyrTile"
    <3> HIDE DEF x
    <3>1. w.wasfloating \in BOOLEAN
      BY DEF Fits, Window
    <3> QED BY <2>1, <2>2, <3>1 DEF x, Window, Layers
  <2> HIDE DEF u
  <2>4. w.mapped /\ w.mon # NoMon
    BY <1>4 DEF Fits, Fit
  <2>5. Fit(u)
    BY <1>1, <2>3, <2>4 DEF Fit
  <2>6. /\ u.isfloating = Outside(w) /\ Outside(u) = Outside(w)
        /\ (Layered(w) => Layered(u))
    BY <1>4, <2>3 DEF Outside, Layered
  <2>7. /\ u \in Fits /\ ~u.incanvas
        /\ u.grab = (IF w.grab = "CurMove" THEN "none" ELSE w.grab)
        /\ (w.incanvas /\ ~w.isfullscreen =>
              u.layer = IF u.isfloating THEN "LyrFloat" ELSE "LyrTile")
    BY <1>2, <2>3, <2>5 DEF Fits
  <2> QED BY <1>4, <2>3, <2>6, <2>7 DEF u
<1> QED BY <1>3, <1>4

LEMMA LeaveUndisturbed ==
    ASSUME NEW w \in Fits, NEW o, Leaves(w, o), w.mapped, w.mon # NoMon
    PROVE  Undisturbed(w, canvas_leave(w), o)
<1> DEFINE u == canvas_leave(w)
<1>1. /\ u \in Fits
      /\ u.mapped = w.mapped /\ u.mon = w.mon /\ u.tags = w.tags
      /\ u.isfullscreen = w.isfullscreen /\ u.grab = (IF w.grab = "CurMove" THEN "none" ELSE w.grab)
      /\ Outside(u) = Outside(w) /\ ~u.incanvas /\ (Layered(w) => Layered(u))
      /\ (w.incanvas /\ ~w.isfullscreen =>
            u.layer = IF u.isfloating THEN "LyrFloat" ELSE "LyrTile")
  BY LeaveFields
<1> HIDE DEF u
<1>2. w.incanvas /\ ~w.isfullscreen /\ o.canvas_tags \cap o.viewed \cap w.tags = {}
  BY DEF Leaves, canvas_active, VISIBLEON
<1>3. ~canvas_active(u, o)
  BY <1>1, <1>2 DEF canvas_active
<1>4. Entered(u, o)
  BY <1>3 DEF Entered
<1>5. u.geom = "screen"
  BY <1>1, <1>2 DEF Fits, Fit
<1>6. ~Misplaced(u, o)
  BY <1>1, <1>3, <1>5, MisplacedIff DEF Fits
<1>7. Mislaid(u, o) => Mislaid(w, o)
  BY <1>1, <1>2 DEF Mislaid
<1>8. Undisturbed(w, u, o)
  BY <1>1, <1>2, <1>4, <1>6, <1>7 DEF Undisturbed, Kept, Changed, Sound, Spot
<1> QED BY <1>8 DEF u

(***************************************************************************)
(* canvas_layout on one window.                                            *)
(***************************************************************************)
LEMMA LayoutFields ==
    ASSUME NEW w \in Fits, NEW o, canvas_active(w, o), w.mapped, w.mon # NoMon
    PROVE  LET u == canvas_layout(w, o)
           IN  /\ u \in Fits
               /\ u.mapped = w.mapped /\ u.mon = w.mon /\ u.tags = w.tags
               /\ u.isfullscreen = w.isfullscreen /\ u.grab = w.grab
               /\ u.incanvas /\ u.isfloating /\ u.geom = "world"
               /\ Outside(u) = Outside(w)
               /\ w.incanvas => u.world = w.world
               /\ w.isfloating => u.layer = w.layer
               /\ ~w.isfloating => u.layer = "LyrFloat"
<1> DEFINE u == canvas_layout(w, o)
<1>1. VISIBLEON(w, o)
  BY DEF canvas_active, VISIBLEON
<1>2. u = [w EXCEPT !.world = IF @ = "unset" THEN "layout" ELSE @,
                    !.incanvas = TRUE,
                    !.wasfloating = IF w.incanvas THEN @ ELSE w.isfloating,
                    !.isfloating = TRUE,
                    !.layer = IF w.isfloating THEN @ ELSE "LyrFloat",
                    !.geom = "world"]
  BY <1>1 DEF canvas_layout
<1>3. w \in Window
  BY DEF Fits
<1> HIDE DEF u
<1>4. u \in Window
  BY <1>2, <1>3, ZenonT(60) DEF Window, Places, Layers, Coordinates
<1>5. /\ u.mapped = w.mapped /\ u.mon = w.mon /\ u.tags = w.tags
      /\ u.isfullscreen = w.isfullscreen /\ u.grab = w.grab
      /\ u.incanvas = TRUE /\ u.isfloating = TRUE /\ u.geom = "world"
      /\ u.wasfloating = (IF w.incanvas THEN w.wasfloating ELSE w.isfloating)
      /\ u.world = (IF w.world = "unset" THEN "layout" ELSE w.world)
      /\ u.layer = (IF w.isfloating THEN w.layer ELSE "LyrFloat")
  BY <1>2, <1>3 DEF Window
<1>6. Fit(u)
  BY <1>5 DEF Fit, Fits
<1>7. Outside(u) = Outside(w)
  BY <1>5 DEF Outside
<1>8. w.incanvas => u.world = w.world
  BY <1>5 DEF Fits, Fit
<1> QED BY <1>4, <1>5, <1>6, <1>7, <1>8 DEF u, Fits

LEMMA LayoutUndisturbed ==
    ASSUME NEW w \in Fits, NEW o, w.mapped, w.mon # NoMon
    PROVE  LET u == canvas_layout(w, o)
           IN  /\ Undisturbed(w, u, o)
               /\ u.grab = w.grab /\ u.isfullscreen = w.isfullscreen
               /\ Layered(w) => Layered(u)
               /\ canvas_active(w, o) => u.incanvas /\ u.isfloating /\ u.geom = "world"
               /\ ~canvas_active(w, o) => u = w
<1> DEFINE u == canvas_layout(w, o)
<1>1. CASE ~canvas_active(w, o)
  <2>1. u = w
    BY <1>1 DEF canvas_layout
  <2> QED BY <1>1, <2>1, ChangedSame
<1>2. CASE canvas_active(w, o)
  <2>1. /\ u \in Fits
        /\ u.mapped = w.mapped /\ u.mon = w.mon /\ u.tags = w.tags
        /\ u.isfullscreen = w.isfullscreen /\ u.grab = w.grab
        /\ u.incanvas /\ u.isfloating /\ u.geom = "world"
        /\ Outside(u) = Outside(w)
        /\ w.incanvas => u.world = w.world
        /\ w.isfloating => u.layer = w.layer
        /\ ~w.isfloating => u.layer = "LyrFloat"
    BY <1>2, LayoutFields
  <2> HIDE DEF u
  <2>2. ~w.isfullscreen /\ canvas_active(u, o)
    BY <1>2, <2>1 DEF canvas_active
  <2>3. ~Misplaced(u, o) /\ Entered(u, o)
    BY <2>1, <2>2, MisplacedIff DEF Fits, Entered
  <2>4. Layered(w) => Layered(u)
    BY <2>1, <2>2 DEF Layered
  <2>5. Mislaid(u, o) => Mislaid(w, o)
    BY <2>1, <2>4 DEF Mislaid, VISIBLEON
  <2>6. Undisturbed(w, u, o)
    BY <1>2, <2>1, <2>3, <2>5 DEF Undisturbed, Kept, Changed, Sound, Spot
  <2> QED BY <1>2, <2>1, <2>4, <2>6 DEF u
<1> QED BY <1>1, <1>2

(***************************************************************************)
(* The layer, then the place of a tile.                                    *)
(***************************************************************************)
LEMMA RelayeredUndisturbed ==
    ASSUME NEW w \in Fits, NEW o
    PROVE  LET u == Relayered(w, o)
           IN  /\ Undisturbed(w, u, o)
               /\ u.isfullscreen = w.isfullscreen /\ u.isfloating = w.isfloating
               /\ u.incanvas = w.incanvas /\ u.geom = w.geom /\ u.grab = w.grab
               /\ Layered(w) => ~Mislaid(u, o)
<1> DEFINE u == Relayered(w, o)
<1>1. CASE ~(w.layer # "LyrFS" /\ w.isfloating)
  <2>1. u = w
    BY <1>1 DEF Relayered
  <2>2. Layered(w) => ~Mislaid(w, o)
    BY <1>1 DEF Layered, Mislaid
  <2> QED BY <2>1, <2>2, ChangedSame
<1>2. CASE w.layer # "LyrFS" /\ w.isfloating
  <2>1. u = [w EXCEPT !.layer = IF o.tiled THEN "LyrFloat" ELSE "LyrTile"]
    BY <1>2 DEF Relayered
  <2>2. w \in Window
    BY DEF Fits
  <2> HIDE DEF u
  <2>3. u \in Window
    BY <2>1, <2>2 DEF Window, Layers
  <2>4. /\ u.mapped = w.mapped /\ u.mon = w.mon /\ u.tags = w.tags
        /\ u.isfullscreen = w.isfullscreen /\ u.grab = w.grab
        /\ u.incanvas = w.incanvas /\ u.wasfloating = w.wasfloating
        /\ u.isfloating = w.isfloating /\ u.world = w.world
        /\ u.geom = w.geom /\ u.prev = w.prev
        /\ u.layer = IF o.tiled THEN "LyrFloat" ELSE "LyrTile"
    BY <2>1, <2>2 DEF Window
  <2>5. u \in Fits
    BY <2>3, <2>4 DEF Fits, Fit
  <2>6. Entered(w, o) => Entered(u, o)
    BY <2>4 DEF Entered, canvas_active
  <2>7. Misplaced(u, o) => Misplaced(w, o)
    BY <2>4 DEF Misplaced, canvas_active, VISIBLEON
  <2>8. Layered(w) <=> Layered(u)
    BY <1>2, <2>4 DEF Layered
  <2>9. ~(u.layer = "LyrTile" /\ o.tiled)
    BY <2>4
  <2>10. Outside(u) = Outside(w)
    BY <2>4 DEF Outside
  <2> QED BY <2>4, <2>5, <2>6, <2>7, <2>8, <2>9, <2>10 DEF Undisturbed, Kept, Changed, Sound, Spot, Mislaid, u
<1> QED BY <1>1, <1>2

LEMMA TiledUndisturbed ==
    ASSUME NEW w \in Fits, NEW o, w.mapped, w.mon # NoMon,
           canvas_active(w, o) => w.isfloating,
           ~w.isfullscreen /\ VISIBLEON(w, o) => (w.incanvas => canvas_active(w, o))
    PROVE  LET u == Tiled(w, o)
           IN  /\ Undisturbed(w, u, o) /\ u.grab = w.grab
               /\ ~Misplaced(w, o) => ~Misplaced(u, o)
<1> DEFINE u == Tiled(w, o)
           tile == o.tiled /\ VISIBLEON(w, o) /\ ~w.isfloating /\ ~w.isfullscreen
<1>1. CASE ~tile
  <2>1. u = w
    BY <1>1 DEF Tiled
  <2> QED BY <2>1, ChangedSame
<1>2. CASE tile
  <2>1. u = [w EXCEPT !.geom = "screen"]
    BY <1>2 DEF Tiled
  <2>2. w \in Window
    BY DEF Fits
  <2> HIDE DEF u
  <2>3. u \in Window
    BY <2>1, <2>2 DEF Window, Coordinates
  <2>4. /\ u.mapped = w.mapped /\ u.mon = w.mon /\ u.tags = w.tags
        /\ u.isfullscreen = w.isfullscreen /\ u.grab = w.grab
        /\ u.incanvas = w.incanvas /\ u.wasfloating = w.wasfloating
        /\ u.isfloating = w.isfloating /\ u.world = w.world
        /\ u.layer = w.layer /\ u.prev = w.prev /\ u.geom = "screen"
    BY <2>1, <2>2 DEF Window
  <2>5. u \in Fits
    BY <2>3, <2>4 DEF Fits, Fit
  <2>6. Entered(w, o) => Entered(u, o)
    BY <2>4 DEF Entered, canvas_active
  <2>7. ~Misplaced(u, o)
    <3>1. ~canvas_active(w, o) /\ ~w.incanvas
      BY <1>2
    <3>2. ~canvas_active(u, o) /\ ~u.incanvas
      BY <2>4, <3>1 DEF canvas_active
    <3> QED BY <2>3, <2>4, <3>2, MisplacedIff
  <2>8. Mislaid(u, o) => Mislaid(w, o)
    BY <2>4 DEF Mislaid, Layered, VISIBLEON
  <2>9. Outside(u) = Outside(w)
    BY <2>4 DEF Outside
  <2> QED BY <2>4, <2>5, <2>6, <2>7, <2>8, <2>9 DEF Undisturbed, Kept, Changed, Sound, Spot, u
<1> QED BY <1>1, <1>2

(***************************************************************************)
(* arrange on one window: after it the window is in the canvas exactly     *)
(* where it should be, with a box to match, and in its layer.              *)
(***************************************************************************)
LEMMA ArrangedSettled ==
    ASSUME NEW w \in Fits, NEW o, w.mapped, w.mon # NoMon
    PROVE  LET u == Arranged(w, o)
           IN  /\ Undisturbed(w, u, o)
               /\ Entered(u, o) /\ ~Misplaced(u, o)
               /\ Layered(w) => ~Mislaid(u, o)
<1> DEFINE left   == IF Leaves(w, o) THEN canvas_leave(w) ELSE w
           placed == IF o.canvas_tags \cap o.viewed # {} THEN canvas_layout(left, o) ELSE left
           layered == Relayered(placed, o)
           tiled   == Tiled(layered, o)
<1>1. /\ Undisturbed(w, left, o) /\ (Layered(w) => Layered(left))
      /\ ~left.isfullscreen /\ VISIBLEON(left, o) => (left.incanvas => canvas_active(left, o))
  <2>1. CASE Leaves(w, o)
    <3>1. left = canvas_leave(w)
      BY <2>1
    <3>2. /\ (Layered(w) => Layered(canvas_leave(w))) /\ ~canvas_leave(w).incanvas
      BY LeaveFields
    <3> QED BY <2>1, <3>1, <3>2, LeaveUndisturbed
  <2>2. CASE ~Leaves(w, o)
    <3>1. left = w
      BY <2>2
    <3> QED BY <2>2, <3>1, ChangedSame DEF Leaves
  <2> QED BY <2>1, <2>2
<1>2. left \in Fits /\ left.mapped /\ left.mon # NoMon
  BY <1>1 DEF Undisturbed, Kept, Changed, Sound, Spot
<1> HIDE DEF left
<1>3. /\ Undisturbed(w, placed, o) /\ (Layered(w) => Layered(placed))
      /\ ~placed.isfullscreen /\ VISIBLEON(placed, o) =>
           (placed.incanvas => canvas_active(placed, o))
      /\ canvas_active(placed, o) => placed.incanvas /\ placed.isfloating /\ placed.geom = "world"
  <2>1. CASE o.canvas_tags \cap o.viewed # {}
    <3>1. placed = canvas_layout(left, o)
      BY <2>1
    <3>2. /\ Undisturbed(left, placed, o)
          /\ placed.isfullscreen = left.isfullscreen
          /\ (Layered(left) => Layered(placed))
          /\ (canvas_active(left, o) =>
                placed.incanvas /\ placed.isfloating /\ placed.geom = "world")
          /\ (~canvas_active(left, o) => placed = left)
      BY <1>2, <3>1, LayoutUndisturbed
    <3>3. placed.tags = left.tags
      BY <3>2 DEF Undisturbed, Kept, Changed, Sound, Spot
    <3> HIDE DEF placed
    <3>4. canvas_active(placed, o) <=> canvas_active(left, o)
      BY <3>2, <3>3 DEF canvas_active
    <3>5. Undisturbed(w, placed, o)
      BY <1>1, <3>2, UndisturbedTwice
    <3> QED BY <1>1, <3>2, <3>4, <3>5
  <2>2. CASE o.canvas_tags \cap o.viewed = {}
    <3>1. placed = left
      BY <2>2
    <3>2. ~canvas_active(left, o)
      BY <2>2 DEF canvas_active
    <3> QED BY <1>1, <3>1, <3>2
  <2> QED BY <2>1, <2>2
<1>4. placed \in Fits /\ placed.mapped /\ placed.mon # NoMon
  BY <1>3 DEF Undisturbed, Kept, Changed, Sound, Spot
<1> HIDE DEF placed
<1>5. Entered(placed, o) /\ ~Misplaced(placed, o)
  <2>1. Entered(placed, o)
    BY <1>3 DEF Entered
  <2>2. ASSUME ~placed.isfullscreen, ~placed.incanvas PROVE placed.geom = "screen"
    BY <1>4, <2>2 DEF Fits, Fit
  <2>3. placed \in Window
    BY <1>4 DEF Fits
  <2> QED BY <1>3, <2>1, <2>2, <2>3, MisplacedIff
<1>6. /\ Undisturbed(placed, layered, o)
      /\ layered.isfullscreen = placed.isfullscreen /\ layered.isfloating = placed.isfloating
      /\ layered.incanvas = placed.incanvas /\ layered.geom = placed.geom
      /\ (Layered(placed) => ~Mislaid(layered, o))
  BY <1>4, RelayeredUndisturbed
<1>7. layered \in Fits /\ layered.mapped /\ layered.mon # NoMon /\ layered.tags = placed.tags
  BY <1>4, <1>6 DEF Undisturbed, Kept, Changed, Sound, Spot
<1> HIDE DEF layered
<1>8. /\ canvas_active(layered, o) <=> canvas_active(placed, o)
      /\ VISIBLEON(layered, o) <=> VISIBLEON(placed, o)
  BY <1>6, <1>7 DEF canvas_active, VISIBLEON
<1>9. Entered(layered, o) /\ ~Misplaced(layered, o)
  <2>1. layered \in Window /\ placed \in Window
    BY <1>4, <1>7 DEF Fits
  <2> QED BY <1>5, <1>6, <1>8, <2>1, MisplacedIff DEF Entered
<1>10. Undisturbed(layered, tiled, o) /\ (~Misplaced(layered, o) => ~Misplaced(tiled, o))
  <2>1. canvas_active(layered, o) => layered.isfloating
    BY <1>3, <1>6, <1>8
  <2>2. ~layered.isfullscreen /\ VISIBLEON(layered, o) =>
          (layered.incanvas => canvas_active(layered, o))
    BY <1>3, <1>6, <1>8
  <2> QED BY <1>7, <2>1, <2>2, TiledUndisturbed
<1> HIDE DEF tiled
<1>11. Undisturbed(w, tiled, o)
  BY <1>3, <1>6, <1>10, UndisturbedTwice
<1>12. Entered(tiled, o) /\ ~Misplaced(tiled, o) /\ (Layered(w) => ~Mislaid(tiled, o))
  BY <1>3, <1>6, <1>9, <1>10 DEF Undisturbed, Kept, Changed, Sound, Spot
<1>13. Arranged(w, o) = tiled
  BY DEF Arranged, tiled, layered, placed, left
<1> QED BY <1>11, <1>12, <1>13

-----------------------------------------------------------------------------
(***************************************************************************)
(* A grab, a command or the pointer places one window.                     *)
(***************************************************************************)
LEMMA PlacedChanged ==
    ASSUME NEW w \in Fits, NEW o
    PROVE  LET u == [w EXCEPT !.world = "placed"]
           IN  /\ Changed(w, u, o) /\ u.grab = w.grab /\ u.isfullscreen = w.isfullscreen
               /\ u.incanvas = w.incanvas
<1> DEFINE u == [w EXCEPT !.world = "placed"]
<1>1. w \in Window
  BY DEF Fits
<1>2. /\ u \in Window
      /\ u.mapped = w.mapped /\ u.mon = w.mon /\ u.tags = w.tags
      /\ u.isfullscreen = w.isfullscreen /\ u.grab = w.grab
      /\ u.incanvas = w.incanvas /\ u.wasfloating = w.wasfloating
      /\ u.isfloating = w.isfloating /\ u.world = "placed"
      /\ u.layer = w.layer /\ u.prev = w.prev /\ u.geom = w.geom
  BY <1>1 DEF Window, Places
<1> HIDE DEF u
<1>3. u \in Fits
  BY <1>2 DEF Fits, Fit
<1>4. /\ canvas_active(u, o) <=> canvas_active(w, o)
      /\ VISIBLEON(u, o) <=> VISIBLEON(w, o)
  BY <1>2 DEF canvas_active, VISIBLEON
<1>5. Misplaced(u, o) => Misplaced(w, o)
  BY <1>1, <1>2, <1>4, MisplacedIff
<1>6. Mislaid(u, o) => Mislaid(w, o)
  BY <1>2, <1>4 DEF Mislaid, Layered
<1>7. Changed(w, u, o)
  BY <1>2, <1>3, <1>4, <1>5, <1>6 DEF Changed, Sound, Outside, Entered
<1> QED BY <1>2, <1>7 DEF u

\* The box goes to a place on the screen, outside the canvas or as a tile.
LEMMA ScreenedUndisturbed ==
    ASSUME NEW w \in Fits, NEW o, w.grab = "CurTileDrag" \/ ~canvas_active(w, o)
    PROVE  LET u == [w EXCEPT !.geom = "screen"]
           IN  Undisturbed(w, u, o) /\ u.grab = w.grab /\ u.isfullscreen = w.isfullscreen
<1> DEFINE u == [w EXCEPT !.geom = "screen"]
<1>1. w \in Window
  BY DEF Fits
<1>2. /\ u \in Window
      /\ u.mapped = w.mapped /\ u.mon = w.mon /\ u.tags = w.tags
      /\ u.isfullscreen = w.isfullscreen /\ u.grab = w.grab
      /\ u.incanvas = w.incanvas /\ u.wasfloating = w.wasfloating
      /\ u.isfloating = w.isfloating /\ u.world = w.world
      /\ u.layer = w.layer /\ u.prev = w.prev /\ u.geom = "screen"
  BY <1>1 DEF Window, Coordinates
<1> HIDE DEF u
<1>3. u \in Fits
  BY <1>2 DEF Fits, Fit
<1>4. /\ canvas_active(u, o) <=> canvas_active(w, o)
      /\ VISIBLEON(u, o) <=> VISIBLEON(w, o)
  BY <1>2 DEF canvas_active, VISIBLEON
<1>5. Misplaced(u, o) => Misplaced(w, o) \/ w.grab = "CurTileDrag"
  BY <1>1, <1>2, <1>4, MisplacedIff
<1>6. Mislaid(u, o) => Mislaid(w, o)
  BY <1>2, <1>4 DEF Mislaid, Layered
<1>7. Changed(w, u, o)
  BY <1>2, <1>3, <1>4, <1>5, <1>6 DEF Changed, Sound, Outside, Entered
<1>8. Undisturbed(w, u, o)
  BY <1>2, <1>7 DEF Undisturbed, Kept, Spot
<1> QED BY <1>2, <1>8 DEF u

LEMMA DraggedUndisturbed ==
    ASSUME NEW w \in Fits, NEW o, w.grab # "none", ~canvas_active(w, o)
    PROVE  Undisturbed(w, Dragged(w, o), o) /\ Dragged(w, o).grab = w.grab
<1> DEFINE v == [w EXCEPT !.geom = "screen"]
           u == [v EXCEPT !.world = "placed"]
<1>1. Undisturbed(w, v, o) /\ v.grab = w.grab
  BY ScreenedUndisturbed
<1>2. v \in Fits
  BY <1>1 DEF Undisturbed, Kept, Changed, Sound, Spot
<1>3. /\ Changed(v, u, o) /\ u.grab = v.grab /\ u.isfullscreen = v.isfullscreen
      /\ u.incanvas = v.incanvas
  <2> HIDE DEF v
  <2> QED BY <1>2, PlacedChanged
<1>4. Changed(w, u, o)
  <2> HIDE DEF u, v
  <2> QED BY <1>1, <1>3, SoundTwice DEF Undisturbed, Kept, Changed
<1>5. Undisturbed(w, u, o)
  <2> HIDE DEF u, v
  <2> QED BY <1>1, <1>3, <1>4 DEF Undisturbed, Kept, Spot
<1>6. Dragged(w, o) = u \/ Dragged(w, o) = v
  BY DEF Dragged, Fits, Window
<1> QED BY <1>1, <1>3, <1>5, <1>6

-----------------------------------------------------------------------------
(***************************************************************************)
(* The functions that lay out the windows of an output: what they do to    *)
(* any window.                                                             *)
(***************************************************************************)
Steady(W, V, O) ==
    /\ V \in [Client -> Fits]
    /\ \A c \in Client : Undisturbed(W[c], V[c], O[W[c].mon])

SameGrabs(W, V) == \A c \in Client : V[c].grab = W[c].grab

LEMMA SteadySame ==
    ASSUME NEW W \in [Client -> Fits], NEW O
    PROVE  Steady(W, W, O)
BY ChangedSame DEF Steady

LEMMA SteadyTwice ==
    ASSUME NEW W, NEW V, NEW X, NEW O, Steady(W, V, O), Steady(V, X, O)
    PROVE  Steady(W, X, O)
<1>1. ASSUME NEW c \in Client PROVE Undisturbed(W[c], X[c], O[W[c].mon])
  <2>1. Undisturbed(W[c], V[c], O[W[c].mon]) /\ V[c].mon = W[c].mon
    BY DEF Steady, Undisturbed, Kept, Changed, Sound, Spot
  <2>2. Undisturbed(V[c], X[c], O[W[c].mon])
    BY <2>1 DEF Steady
  <2> QED BY <2>1, <2>2, UndisturbedTwice
<1> QED BY <1>1 DEF Steady

LEMMA LayOutSteady ==
    ASSUME NEW W \in [Client -> Fits], NEW O, NEW m \in Monitor
    PROVE  Steady(W, LayOut(W, O, m), O) /\ SameGrabs(W, LayOut(W, O, m))
<1> DEFINE V == LayOut(W, O, m)
<1>1. ASSUME NEW c \in Client
      PROVE  V[c] \in Fits /\ Undisturbed(W[c], V[c], O[W[c].mon]) /\ V[c].grab = W[c].grab
  <2>1. V[c] = IF c \in On(W, m) THEN canvas_layout(W[c], O[m]) ELSE W[c]
    BY DEF LayOut
  <2>2. CASE c \in On(W, m)
    <3>1. V[c] = canvas_layout(W[c], O[m])
      BY <2>1, <2>2
    <3>2. W[c] \in Fits /\ W[c].mapped /\ W[c].mon = m /\ m # NoMon
      BY <2>2, NullAssumption DEF On
    <3>3. /\ Undisturbed(W[c], canvas_layout(W[c], O[m]), O[m])
          /\ canvas_layout(W[c], O[m]).grab = W[c].grab
      BY <3>2, LayoutUndisturbed
    <3> HIDE DEF V
    <3> QED BY <3>1, <3>2, <3>3 DEF Undisturbed, Kept, Changed, Sound, Spot
  <2>3. CASE c \notin On(W, m)
    <3> HIDE DEF V
    <3> QED BY <2>1, <2>3, ChangedSame
  <2> QED BY <2>2, <2>3
<1>2. V \in [Client -> Fits]
  <2>1. V = [c \in Client |-> IF c \in On(W, m) THEN canvas_layout(W[c], O[m]) ELSE W[c]]
    BY DEF LayOut
  <2> HIDE DEF V
  <2> QED BY <1>1, <2>1
<1> HIDE DEF V
<1>3. Steady(W, V, O) /\ SameGrabs(W, V)
  BY <1>1, <1>2 DEF Steady, SameGrabs
<1> QED BY <1>3 DEF V

\* One window is placed, the others stay.
LEMMA OneSteady ==
    ASSUME NEW W \in [Client -> Fits], NEW O, NEW c \in Client, NEW w,
           Undisturbed(W[c], w, O[W[c].mon]), w.grab = W[c].grab
    PROVE  LET V == [W EXCEPT ![c] = w] IN Steady(W, V, O) /\ SameGrabs(W, V)
<1> DEFINE V == [W EXCEPT ![c] = w]
<1>1. w \in Fits
  BY DEF Undisturbed, Kept, Changed, Sound, Spot
<1>2. V \in [Client -> Fits] /\ V[c] = w /\ \A u \in Client \ {c} : V[u] = W[u]
  BY <1>1
<1> HIDE DEF V
<1>3. Steady(W, V, O) /\ SameGrabs(W, V)
  BY <1>2, ChangedSame DEF Steady, SameGrabs
<1> QED BY <1>3 DEF V

LEMMA MotionSteady ==
    ASSUME NEW W \in [Client -> Fits], NEW O
    PROVE  Steady(W, motionnotify(W, O), O) /\ SameGrabs(W, motionnotify(W, O))
<1> DEFINE grabbed == {c \in Client : W[c].grab # "none" /\ W[c].mapped /\ W[c].mon # NoMon}
           c == CHOOSE x \in grabbed : TRUE
           m == W[c].mon
<1>1. CASE grabbed = {}
  <2>1. motionnotify(W, O) = W
    BY <1>1 DEF motionnotify
  <2> QED BY <2>1, SteadySame DEF SameGrabs
<1>2. CASE grabbed # {}
  <2>1. c \in grabbed
    BY <1>2
  <2>2. /\ c \in Client /\ W[c] \in Fits /\ W[c].grab # "none" /\ W[c].mapped
        /\ W[c].mon # NoMon /\ W[c].mon \in Monitor
    BY <2>1 DEF Fits, Window, SomeMon
  <2>3. motionnotify(W, O) =
          IF W[c].grab = "CurTileDrag" THEN [W EXCEPT ![c].geom = "screen"]
          ELSE IF canvas_active(W[c], O[m]) THEN LayOut([W EXCEPT ![c].world = "placed"], O, m)
          ELSE [W EXCEPT ![c] = Dragged(@, O[m])]
    BY <1>2 DEF motionnotify
  <2> HIDE DEF c, grabbed
  <2>4. CASE W[c].grab = "CurTileDrag"
    <3> DEFINE w == [W[c] EXCEPT !.geom = "screen"]
               X == [W EXCEPT ![c] = w]
    <3>1. motionnotify(W, O) = X
      BY <2>3, <2>4
    <3>2. Undisturbed(W[c], w, O[m]) /\ w.grab = W[c].grab
      BY <2>2, <2>4, ScreenedUndisturbed
    <3> HIDE DEF w
    <3>3. Steady(W, X, O) /\ SameGrabs(W, X)
      BY <2>2, <3>2, OneSteady
    <3> HIDE DEF X
    <3> QED BY <3>1, <3>3
  <2>5. CASE W[c].grab # "CurTileDrag" /\ canvas_active(W[c], O[m])
    <3> DEFINE w == [W[c] EXCEPT !.world = "placed"]
               X == [W EXCEPT ![c] = w]
    <3>1. motionnotify(W, O) = LayOut(X, O, m)
      BY <2>3, <2>5
    <3>2. Undisturbed(W[c], w, O[m]) /\ w.grab = W[c].grab
      BY <2>2, PlacedChanged DEF Undisturbed, Kept, Spot
    <3> HIDE DEF w
    <3>3. Steady(W, X, O) /\ SameGrabs(W, X)
      BY <2>2, <3>2, OneSteady
    <3> HIDE DEF X
    <3>4. Steady(X, LayOut(X, O, m), O) /\ SameGrabs(X, LayOut(X, O, m))
      BY <2>2, <3>3, LayOutSteady DEF Steady
    <3> QED BY <3>1, <3>3, <3>4, SteadyTwice DEF SameGrabs
  <2>6. CASE W[c].grab # "CurTileDrag" /\ ~canvas_active(W[c], O[m])
    <3> DEFINE w == Dragged(W[c], O[m])
               X == [W EXCEPT ![c] = w]
    <3>1. motionnotify(W, O) = X
      BY <2>3, <2>6
    <3>2. Undisturbed(W[c], w, O[m]) /\ w.grab = W[c].grab
      BY <2>2, <2>6, DraggedUndisturbed
    <3> HIDE DEF w
    <3>3. Steady(W, X, O) /\ SameGrabs(W, X)
      BY <2>2, <3>2, OneSteady
    <3> HIDE DEF X
    <3> QED BY <3>1, <3>3
  <2> QED BY <2>4, <2>5, <2>6
<1> QED BY <1>1, <1>2

(***************************************************************************)
(* arrange settles the windows of its output, if they are in their layer.  *)
(***************************************************************************)
LEMMA ArrangeSteady ==
    ASSUME NEW W \in [Client -> Fits], NEW O, NEW m \in Monitor
    PROVE  /\ Steady(W, arrange(W, O, m), O)
           /\ \A c \in On(W, m) : /\ Seated(arrange(W, O, m)[c], O[m])
                                  /\ Layered(W[c]) => Settled(arrange(W, O, m)[c], O[m])
<1>1. CASE ~O[m].on
  <2>1. arrange(W, O, m) = W
    BY <1>1 DEF arrange
  <2>2. \A c \in On(W, m) : Seated(W[c], O[m]) /\ (Layered(W[c]) => Settled(W[c], O[m]))
    BY <1>1 DEF Settled, Seated, Entered, Misplaced, Mislaid
  <2> QED BY <2>1, <2>2, SteadySame
<1>2. CASE O[m].on
  <2> DEFINE X == [c \in Client |-> IF c \in On(W, m) THEN Arranged(W[c], O[m]) ELSE W[c]]
             V == motionnotify(X, O)
  <2>1. arrange(W, O, m) = V
    BY <1>2 DEF arrange
  <2>2. ASSUME NEW c \in Client
        PROVE  /\ Undisturbed(W[c], X[c], O[W[c].mon]) /\ X[c] \in Fits
               /\ c \in On(W, m) => /\ W[c].mon = m /\ m # NoMon /\ Seated(X[c], O[m])
                                    /\ Layered(W[c]) => Settled(X[c], O[m])
    <3>1. CASE c \in On(W, m)
      <4>1. W[c] \in Fits /\ W[c].mapped /\ W[c].mon = m /\ m # NoMon
        BY <3>1, NullAssumption DEF On
      <4>2. /\ Undisturbed(W[c], Arranged(W[c], O[m]), O[m])
            /\ Entered(Arranged(W[c], O[m]), O[m]) /\ ~Misplaced(Arranged(W[c], O[m]), O[m])
            /\ (Layered(W[c]) => ~Mislaid(Arranged(W[c], O[m]), O[m]))
        BY <4>1, ArrangedSettled
      <4>3. X[c] = Arranged(W[c], O[m])
        BY <3>1
      <4> HIDE DEF X
      <4> QED BY <4>1, <4>2, <4>3 DEF Settled, Seated, Undisturbed, Kept, Changed, Sound
    <3>2. CASE c \notin On(W, m)
      <4>1. X[c] = W[c]
        BY <3>2
      <4> HIDE DEF X
      <4> QED BY <3>2, <4>1, ChangedSame
    <3> QED BY <3>1, <3>2
  <2>3. X \in [Client -> Fits]
    BY <2>2
  <2> HIDE DEF X
  <2>4. Steady(W, X, O)
    BY <2>2, <2>3 DEF Steady
  <2>5. Steady(X, V, O)
    BY <2>3, MotionSteady
  <2> HIDE DEF V
  <2>6. Steady(W, V, O)
    BY <2>4, <2>5, SteadyTwice
  <2>7. ASSUME NEW c \in On(W, m)
        PROVE  Seated(V[c], O[m]) /\ (Layered(W[c]) => Settled(V[c], O[m]))
    <3>1. c \in Client
      BY DEF On
    <3>2. /\ Seated(X[c], O[m]) /\ (Layered(W[c]) => Settled(X[c], O[m]))
          /\ W[c].mon = m /\ m # NoMon
      BY <2>2, <2>7, <3>1
    <3>3. X[c].mon = m
      BY <2>2, <3>1, <3>2 DEF Undisturbed, Kept, Changed, Sound
    <3>4. Sound(X[c], V[c], O[m])
      BY <2>5, <3>1, <3>3 DEF Steady, Undisturbed, Kept, Changed
    <3> QED BY <3>2, <3>3, <3>4, SettledStays
  <2> QED BY <2>1, <2>6, <2>7
<1> QED BY <1>1, <1>2

(***************************************************************************)
(* A window becomes x, in its layer, and its output is arranged.           *)
(***************************************************************************)
Restyled(W, O, c, x) == arrange([W EXCEPT ![c] = x], O, x.mon)

Restyles(W, V, O, c, x) ==
    /\ V \in [Client -> Fits]
    /\ \A u \in Client \ {c} : Undisturbed(W[u], V[u], O[W[u].mon])
    /\ Undisturbed(x, V[c], O[x.mon]) /\ Settled(V[c], O[x.mon])
    /\ ~O[x.mon].on => V[c] = x

LEMMA RestyledSettles ==
    ASSUME NEW W \in [Client -> Fits], NEW O, NEW c \in Client, NEW x \in Fits,
           x.mapped, x.mon \in Monitor, Layered(x)
    PROVE  Restyles(W, Restyled(W, O, c, x), O, c, x)
<1> DEFINE X == [W EXCEPT ![c] = x]
           V == arrange(X, O, x.mon)
<1>1. X \in [Client -> Fits] /\ X[c] = x /\ \A u \in Client \ {c} : X[u] = W[u]
  OBVIOUS
<1> HIDE DEF X
<1>2. /\ Steady(X, V, O)
      /\ \A u \in On(X, x.mon) : Layered(X[u]) => Settled(V[u], O[x.mon])
  BY <1>1, ArrangeSteady
<1>3. ~O[x.mon].on => V = X
  BY DEF arrange
<1> HIDE DEF V
<1>4. c \in On(X, x.mon)
  BY <1>1 DEF On
<1>5. Settled(V[c], O[x.mon])
  BY <1>1, <1>2, <1>4
<1>6. /\ V \in [Client -> Fits]
      /\ \A u \in Client \ {c} : Undisturbed(W[u], V[u], O[W[u].mon])
      /\ Undisturbed(x, V[c], O[x.mon])
  BY <1>1, <1>2 DEF Steady
<1>7. Restyled(W, O, c, x) = V
  BY DEF Restyled, V, X
<1>8. Restyles(W, V, O, c, x)
  BY <1>1, <1>3, <1>5, <1>6 DEF Restyles
<1> QED BY <1>7, <1>8

-----------------------------------------------------------------------------
(***************************************************************************)
(* setfullscreen, which saves and restores the box.                        *)
(***************************************************************************)
LEMMA FullscreenedFields ==
    ASSUME NEW w \in Fits, NEW fullscreen \in BOOLEAN
    PROVE  LET x == IF fullscreen THEN Fullscreened(w) ELSE Unfullscreened(w)
           IN  /\ x \in Fits
               /\ x.mapped = w.mapped /\ x.mon = w.mon /\ x.tags = w.tags /\ x.grab = w.grab
               /\ x.incanvas = w.incanvas /\ x.world = w.world /\ Outside(x) = Outside(w)
               /\ x.isfullscreen = fullscreen /\ x.isfloating = w.isfloating
               /\ Layered(x)
<1> DEFINE x == IF fullscreen THEN Fullscreened(w) ELSE Unfullscreened(w)
<1>1. w \in Window
  BY DEF Fits
<1>2. CASE fullscreen
  <2>1. x = [w EXCEPT !.isfullscreen = TRUE, !.layer = "LyrFS",
                      !.prev = IF w.isfullscreen THEN @ ELSE w.geom, !.geom = "full"]
    BY <1>2 DEF Fullscreened
  <2> HIDE DEF x
  <2>2. x \in Window
    BY <1>1, <2>1 DEF Window, Layers, Coordinates
  <2>3. /\ x.mapped = w.mapped /\ x.mon = w.mon /\ x.tags = w.tags /\ x.grab = w.grab
        /\ x.incanvas = w.incanvas /\ x.world = w.world /\ x.isfloating = w.isfloating
        /\ x.wasfloating = w.wasfloating
        /\ x.isfullscreen = TRUE /\ x.layer = "LyrFS"
        /\ x.prev = (IF w.isfullscreen THEN w.prev ELSE w.geom)
    BY <1>1, <2>1 DEF Window
  <2>4. Fit(x)
    BY <2>3 DEF Fits, Fit
  <2>5. Outside(x) = Outside(w) /\ Layered(x)
    BY <2>3 DEF Outside, Layered
  <2>6. x \in Fits
    BY <2>2, <2>4 DEF Fits
  <2>7. x.isfullscreen = fullscreen
    BY <1>2, <2>3
  <2> QED BY <2>3, <2>5, <2>6, <2>7 DEF x
<1>3. CASE ~fullscreen
  <2>1. x = [w EXCEPT !.isfullscreen = FALSE,
                      !.layer = IF w.isfloating THEN "LyrFloat" ELSE "LyrTile",
                      !.geom = IF w.isfullscreen THEN w.prev ELSE @, !.prev = "none"]
    BY <1>3 DEF Unfullscreened
  <2> HIDE DEF x
  <2>2. x \in Window
    BY <1>1, <2>1 DEF Window, Layers, Coordinates
  <2>3. /\ x.mapped = w.mapped /\ x.mon = w.mon /\ x.tags = w.tags /\ x.grab = w.grab
        /\ x.incanvas = w.incanvas /\ x.world = w.world /\ x.isfloating = w.isfloating
        /\ x.wasfloating = w.wasfloating
        /\ x.isfullscreen = FALSE /\ x.layer # "LyrFS"
        /\ x.geom = (IF w.isfullscreen THEN w.prev ELSE w.geom)
    BY <1>1, <2>1 DEF Window
  <2>4. Fit(x)
    BY <2>3 DEF Fits, Fit
  <2>5. Outside(x) = Outside(w) /\ Layered(x)
    BY <2>3 DEF Outside, Layered
  <2>6. x \in Fits
    BY <2>2, <2>4 DEF Fits
  <2>7. x.isfullscreen = fullscreen
    BY <1>3, <2>3
  <2> QED BY <2>3, <2>5, <2>6, <2>7 DEF x
<1> QED BY <1>2, <1>3

LEMMA SetfullscreenKept ==
    ASSUME NEW W \in [Client -> Fits], NEW O, NEW c \in Client, NEW fullscreen \in BOOLEAN
    PROVE  LET V == setfullscreen(W, O, c, fullscreen)
               m == W[c].mon
           IN  /\ V \in [Client -> Fits]
               /\ \A u \in Client \ {c} : Undisturbed(W[u], V[u], O[W[u].mon])
               /\ Kept(W[c], V[c], O[m]) /\ V[c].isfullscreen = fullscreen
               /\ m # NoMon => Settled(V[c], O[m])
<1> DEFINE V == setfullscreen(W, O, c, fullscreen)
           m == W[c].mon
           w == W[c]
<1>1. w \in Fits /\ w \in Window
  BY DEF Fits
<1>2. CASE m = NoMon
  <2> DEFINE x == [w EXCEPT !.isfullscreen = fullscreen]
             X == [W EXCEPT ![c] = x]
  <2>1. V = X
    BY <1>2 DEF setfullscreen
  <2>2. /\ x \in Window
        /\ x.mapped = w.mapped /\ x.mon = w.mon /\ x.tags = w.tags /\ x.grab = w.grab
        /\ x.incanvas = w.incanvas /\ x.wasfloating = w.wasfloating
        /\ x.isfloating = w.isfloating /\ x.world = w.world
        /\ x.isfullscreen = fullscreen
    BY <1>1 DEF Window
  <2> HIDE DEF x
  <2>3. x \in Fits
    BY <1>1, <1>2, <2>2 DEF Fits, Fit
  <2>4. Kept(w, x, O[m])
    BY <1>2, <2>2, <2>3 DEF Kept, Changed, Sound, Spot, Outside
  <2>5. X \in [Client -> Fits] /\ X[c] = x /\ \A u \in Client \ {c} : X[u] = W[u]
    BY <2>3
  <2> HIDE DEF X, V, w
  <2> QED BY <1>2, <2>1, <2>2, <2>4, <2>5, ChangedSame DEF V, w
<1>3. CASE m # NoMon
  <2> DEFINE x == IF fullscreen THEN Fullscreened(w) ELSE Unfullscreened(w)
  <2>1. w.mapped /\ m \in Monitor
    BY <1>1, <1>3 DEF Fits, Fit, Window, SomeMon
  <2>2. /\ x \in Fits
        /\ x.mapped = w.mapped /\ x.mon = w.mon /\ x.tags = w.tags /\ x.grab = w.grab
        /\ x.incanvas = w.incanvas /\ x.world = w.world /\ Outside(x) = Outside(w)
        /\ x.isfullscreen = fullscreen /\ Layered(x)
    BY <1>1, FullscreenedFields
  <2>3. V = Restyled(W, O, c, x)
    <3>1. V = arrange([W EXCEPT ![c] = x], O, m)
      BY <1>3, <2>1 DEF setfullscreen
    <3> HIDE DEF x, V
    <3> QED BY <2>2, <3>1 DEF Restyled
  <2> HIDE DEF x
  <2>4. /\ V \in [Client -> Fits]
        /\ \A u \in Client \ {c} : Undisturbed(W[u], V[u], O[W[u].mon])
        /\ Undisturbed(x, V[c], O[m]) /\ Settled(V[c], O[m])
    <3>1. x.mapped /\ x.mon \in Monitor /\ x.mon = m
      BY <2>1, <2>2
    <3> HIDE DEF V, m, w
    <3>2. Restyles(W, V, O, c, x)
      BY <2>2, <2>3, <3>1, RestyledSettles
    <3> QED BY <3>1, <3>2 DEF Restyles
  <2> HIDE DEF V, m, w
  <2>5. Changed(w, V[c], O[m])
    BY <2>2, <2>4 DEF Settled, Seated, Undisturbed, Kept, Changed, Sound
  <2>6. Spot(w, V[c], O[m])
    BY <2>2, <2>4 DEF Undisturbed, Kept, Changed, Sound, Spot
  <2>7. V[c].isfullscreen = fullscreen
    BY <2>2, <2>4 DEF Undisturbed
  <2> QED BY <2>4, <2>5, <2>6, <2>7 DEF Kept, V, m, w
<1> QED BY <1>2, <1>3

(***************************************************************************)
(* setfloating, which changes the floating state from outside the canvas   *)
(* of windows that stay outside only.                                      *)
(***************************************************************************)
Floats(w, floating, layer) == [w EXCEPT !.isfloating = floating, !.layer = layer]

Differs(w, x, floating, layer) ==
    /\ x \in Fits
    /\ x.mapped = w.mapped /\ x.mon = w.mon /\ x.tags = w.tags /\ x.grab = w.grab
    /\ x.incanvas = w.incanvas /\ x.world = w.world /\ x.geom = w.geom
    /\ x.isfullscreen = w.isfullscreen /\ x.layer = layer
    /\ w.incanvas \/ floating = w.isfloating => Outside(x) = Outside(w)

LEMMA FloatsDiffers ==
    ASSUME NEW w \in Fits, NEW floating \in BOOLEAN, NEW layer \in Layers
    PROVE  Differs(w, Floats(w, floating, layer), floating, layer)
<1> DEFINE x == Floats(w, floating, layer)
<1>1. w \in Window
  BY DEF Fits
<1>2. /\ x \in Window
      /\ x.mapped = w.mapped /\ x.mon = w.mon /\ x.tags = w.tags /\ x.grab = w.grab
      /\ x.incanvas = w.incanvas /\ x.world = w.world /\ x.geom = w.geom
      /\ x.wasfloating = w.wasfloating /\ x.prev = w.prev
      /\ x.isfullscreen = w.isfullscreen /\ x.isfloating = floating /\ x.layer = layer
  BY <1>1 DEF Window, Floats
<1> HIDE DEF x
<1>3. Fit(x)
  BY <1>2 DEF Fits, Fit
<1>4. x \in Fits
  BY <1>2, <1>3 DEF Fits
<1>5. w.incanvas \/ floating = w.isfloating => Outside(x) = Outside(w)
  BY <1>2 DEF Outside
<1>6. Differs(w, x, floating, layer)
  BY <1>2, <1>4, <1>5 DEF Differs
<1> QED BY <1>6 DEF x

Floated(w, u, o, floating) ==
    /\ Sound(w, u, o) /\ Spot(w, u, o) /\ u.isfullscreen = w.isfullscreen
    /\ floating = w.isfloating => Outside(u) = Outside(w)
    /\ Entered(w, o) /\ Outside(u) # Outside(w) => ~w.incanvas /\ ~u.incanvas

LEMMA SetfloatingFloats ==
    ASSUME NEW W \in [Client -> Fits], NEW O, NEW c \in Client, NEW floating \in BOOLEAN,
           W[c].mon # NoMon
    PROVE  LET V == setfloating(W, O, c, floating)
           IN  /\ V \in [Client -> Fits]
               /\ \A u \in Client \ {c} : Undisturbed(W[u], V[u], O[W[u].mon])
               /\ Floated(W[c], V[c], O[W[c].mon], floating)
<1> DEFINE V == setfloating(W, O, c, floating)
           w == W[c]
           m == w.mon
           o == O[m]
<1>1. w \in Fits /\ w \in Window /\ w.mapped /\ m \in Monitor
  BY DEF Fits, Fit, Window, SomeMon
<1>2. CASE ~o.tiled
  <2> DEFINE x == Floats(w, floating, w.layer)
             X == [W EXCEPT ![c] = x]
  <2>1. x = [w EXCEPT !.isfloating = floating]
    BY <1>1 DEF Window, Floats
  <2>2. V = X
    BY <1>2, <2>1 DEF setfloating
  <2>3. Differs(w, x, floating, w.layer)
    <3>1. w.layer \in Layers
      BY <1>1 DEF Window
    <3> HIDE DEF w
    <3> QED BY <1>1, <3>1, FloatsDiffers
  <2> HIDE DEF x
  <2>4. X \in [Client -> Fits] /\ X[c] = x /\ \A u \in Client \ {c} : X[u] = W[u]
    BY <2>3 DEF Differs
  <2> HIDE DEF X, V, w, m, o
  <2>5. /\ canvas_active(x, o) <=> canvas_active(w, o)
        /\ VISIBLEON(x, o) <=> VISIBLEON(w, o)
    BY <2>3 DEF Differs, canvas_active, VISIBLEON
  <2>6. Misplaced(x, o) => Misplaced(w, o)
    BY <1>1, <2>3, <2>5, MisplacedIff DEF Differs, Fits
  <2>7. Mislaid(x, o) => Mislaid(w, o)
    BY <1>2, <2>3 DEF Differs, Mislaid, Layered
  <2>8. Sound(w, x, o)
    BY <2>3, <2>5, <2>6, <2>7 DEF Differs, Sound, Entered
  <2>9. Floated(w, x, o, floating)
    BY <2>3, <2>8 DEF Differs, Floated, Spot
  <2> QED BY <2>2, <2>4, <2>9, ChangedSame DEF V, w, m, o
<1>3. CASE o.tiled
  <2> DEFINE layer == IF w.isfullscreen THEN "LyrFS"
                      ELSE IF floating THEN "LyrFloat" ELSE "LyrTile"
             x == Floats(w, floating, layer)
  <2>1. V = arrange([W EXCEPT ![c] = x], O, m)
    BY <1>1, <1>3 DEF setfloating, Floats
  <2>2. layer \in Layers /\ ((layer = "LyrFS") = w.isfullscreen)
    BY <1>1 DEF Layers, Window
  <2> HIDE DEF layer
  <2>3. Differs(w, x, floating, layer)
    <3> HIDE DEF w
    <3> QED BY <1>1, <2>2, FloatsDiffers
  <2>4. Layered(x)
    BY <2>2, <2>3 DEF Differs, Layered
  <2> HIDE DEF x
  <2>5. /\ V \in [Client -> Fits]
        /\ \A u \in Client \ {c} : Undisturbed(W[u], V[u], O[W[u].mon])
        /\ Undisturbed(x, V[c], o) /\ Settled(V[c], o)
        /\ (~o.on => V[c] = x)
    <3> HIDE DEF V
    <3>1. V = Restyled(W, O, c, x)
      BY <2>1, <2>3 DEF Differs, Restyled
    <3>2. x \in Fits /\ x.mapped /\ x.mon = m
      BY <1>1, <2>3 DEF Differs
    <3> HIDE DEF w, m, o
    <3>3. Restyles(W, V, O, c, x)
      BY <1>1, <2>4, <3>1, <3>2, RestyledSettles
    <3> QED BY <3>2, <3>3 DEF Restyles, o
  <2> HIDE DEF V, w, m, o
  <2>6. Sound(w, V[c], o)
    BY <2>3, <2>5 DEF Differs, Settled, Seated, Undisturbed, Kept, Changed, Sound
  <2>7. Spot(w, V[c], o)
    BY <2>3, <2>5 DEF Differs, Undisturbed, Kept, Changed, Sound, Spot
  <2>8. Outside(V[c]) = Outside(x) /\ V[c].isfullscreen = w.isfullscreen
    BY <2>3, <2>5 DEF Differs, Undisturbed, Kept, Changed
  <2>9. ASSUME Entered(w, o), Outside(V[c]) # Outside(w) PROVE ~w.incanvas /\ ~V[c].incanvas
    <3>1. ~w.incanvas /\ ~x.incanvas
      BY <1>1, <2>3, <2>8, <2>9 DEF Differs
    <3>2. CASE ~o.on
      BY <2>5, <3>1, <3>2
    <3>3. CASE o.on
      <4>1. ~canvas_active(w, o)
        BY <2>9, <3>1, <3>3 DEF Entered
      <4>2. ~canvas_active(x, o)
        BY <2>3, <4>1 DEF Differs, canvas_active
      <4> QED BY <2>5, <3>1, <4>2 DEF Undisturbed
    <3> QED BY <3>1, <3>2, <3>3
  <2>10. Floated(w, V[c], o, floating)
    BY <2>3, <2>6, <2>7, <2>8, <2>9 DEF Differs, Floated
  <2>11. Floated(W[c], V[c], O[W[c].mon], floating)
    BY <2>10 DEF w, m, o
  <2> QED BY <2>5, <2>11 DEF V
<1> QED BY <1>2, <1>3

-----------------------------------------------------------------------------
(***************************************************************************)
(* setmon: the window settles on its new output with the floating state    *)
(* that it had outside the canvas of the old one.                          *)
(***************************************************************************)
Moved(w, v, O, m) ==
    /\ v \in Fits /\ v.mapped = w.mapped /\ v.mon = m
    /\ v.grab = w.grab \/ (w.grab = "CurMove" /\ v.grab = "none")
    /\ Outside(v) = Outside(w)
    /\ m # NoMon => Settled(v, O[m])

LEMMA MovedStays ==
    ASSUME NEW w, NEW v, NEW u, NEW O, NEW m, Moved(w, v, O, m), Changed(v, u, O[m])
    PROVE  Moved(w, u, O, m)
BY SettledStays DEF Moved, Changed, Sound

Recentred(y, z) ==
    /\ z \in Fits /\ z.mapped = y.mapped /\ z.mon = y.mon /\ z.grab = y.grab
    /\ z.isfullscreen = y.isfullscreen /\ Outside(z) = Outside(y)

LEMMA CentredFits ==
    ASSUME NEW y \in Window, NEW tags \in SUBSET Tag, y.mapped, y.mon # NoMon,
           y.incanvas => y.world # "unset"
    PROVE  Recentred(y, Centred(y, tags))
<1> DEFINE z == Centred(y, tags)
<1>1. z = [y EXCEPT !.tags = tags,
                    !.prev = IF y.isfullscreen THEN "screen" ELSE @,
                    !.geom = IF y.mapped /\ ~y.isfullscreen THEN "screen" ELSE @]
  BY DEF Centred
<1> HIDE DEF z
<1>2. z \in Window
  BY <1>1 DEF Window, Coordinates
<1>3. /\ z.mapped = y.mapped /\ z.mon = y.mon /\ z.tags = tags /\ z.grab = y.grab
      /\ z.incanvas = y.incanvas /\ z.world = y.world /\ z.isfloating = y.isfloating
      /\ z.wasfloating = y.wasfloating /\ z.isfullscreen = y.isfullscreen
      /\ IF y.isfullscreen THEN z.prev = "screen" ELSE z.geom = "screen"
  BY <1>1 DEF Window
<1>4. Fit(z)
  BY <1>3 DEF Fit
<1>5. Recentred(y, z)
  BY <1>2, <1>3, <1>4 DEF Recentred, Fits, Outside
<1> QED BY <1>5 DEF z

LEMMA LeftFields ==
    ASSUME NEW w \in Fits, NEW m \in SomeMon, w.mapped
    PROVE  LET x == [canvas_leave(w) EXCEPT !.mon = m]
           IN  /\ x \in Window /\ x.mapped /\ x.mon = m /\ ~x.incanvas
               /\ x.grab = w.grab \/ (w.grab = "CurMove" /\ x.grab = "none")
               /\ Outside(x) = Outside(w)
               /\ w.mon # NoMon \/ m = NoMon => x \in Fits
<1> DEFINE v == canvas_leave(w)
           x == [v EXCEPT !.mon = m]
<1>1. /\ v \in Fits /\ v.mapped = w.mapped /\ v.mon = w.mon /\ ~v.incanvas
      /\ v.grab = w.grab \/ (w.grab = "CurMove" /\ v.grab = "none")
      /\ Outside(v) = Outside(w)
  BY LeaveFields
<1> HIDE DEF v
<1>2. v \in Window
  BY <1>1 DEF Fits
<1>3. /\ x \in Window /\ x.mapped = v.mapped /\ x.mon = m /\ x.grab = v.grab
      /\ x.incanvas = v.incanvas /\ x.isfloating = v.isfloating
      /\ x.wasfloating = v.wasfloating /\ x.isfullscreen = v.isfullscreen
      /\ x.world = v.world /\ x.geom = v.geom /\ x.prev = v.prev
  BY <1>2 DEF Window
<1> HIDE DEF x
<1>4. w.mon # NoMon \/ m = NoMon => Fit(x)
  BY <1>1, <1>3 DEF Fits, Fit
<1>5. Outside(x) = Outside(w)
  BY <1>1, <1>3 DEF Outside
<1>6. w.mon # NoMon \/ m = NoMon => x \in Fits
  BY <1>3, <1>4 DEF Fits
<1> QED BY <1>1, <1>3, <1>5, <1>6 DEF x, v

\* Before the box is centred: the window is on its new output.
Behind(W, O, c, m) ==
    LET old   == W[c].mon
        moved == [W EXCEPT ![c] = [canvas_leave(@) EXCEPT !.mon = m]]
    IN  IF old = NoMon THEN moved ELSE arrange(moved, O, old)

LEMMA BehindFields ==
    ASSUME NEW W \in [Client -> Fits], NEW O, NEW c \in Client, NEW m \in SomeMon,
           W[c].mapped, W[c].mon # m
    PROVE  LET B == Behind(W, O, c, m)
           IN  /\ B = [B EXCEPT ![c] = B[c]] /\ DOMAIN B = Client
               /\ \A u \in Client \ {c} : Undisturbed(W[u], B[u], O[W[u].mon])
               /\ B[c] \in Window /\ B[c].mapped /\ B[c].mon = m
               /\ B[c].incanvas => B[c].world # "unset"
               /\ B[c].grab = W[c].grab \/ (W[c].grab = "CurMove" /\ B[c].grab = "none")
               /\ Outside(B[c]) = Outside(W[c])
               /\ m = NoMon => B \in [Client -> Fits]
<1> DEFINE w == W[c]
           x == [canvas_leave(w) EXCEPT !.mon = m]
           X == [W EXCEPT ![c] = x]
           B == Behind(W, O, c, m)
<1>1. w \in Fits /\ w.mapped
  OBVIOUS
<1>2. B = IF w.mon = NoMon THEN X ELSE arrange(X, O, w.mon)
  BY DEF Behind
<1>3. /\ x \in Window /\ x.mapped /\ x.mon = m /\ ~x.incanvas
      /\ x.grab = w.grab \/ (w.grab = "CurMove" /\ x.grab = "none")
      /\ Outside(x) = Outside(w)
      /\ w.mon # NoMon \/ m = NoMon => x \in Fits
  <2> HIDE DEF w
  <2> QED BY <1>1, LeftFields
<1> HIDE DEF x
<1>4. X \in [Client -> Window] /\ X[c] = x /\ \A u \in Client \ {c} : X[u] = W[u]
  BY <1>3 DEF Fits
<1>5. x \in Fits => X \in [Client -> Fits]
  BY <1>4
<1> HIDE DEF X, B
<1>6. CASE w.mon = NoMon
  <2>1. B = X /\ m # NoMon
    BY <1>2, <1>6 DEF w
  <2>2. \A u \in Client \ {c} : Undisturbed(W[u], B[u], O[W[u].mon])
    BY <1>4, <2>1, ChangedSame
  <2>3. B = [B EXCEPT ![c] = B[c]] /\ DOMAIN B = Client
    BY <1>4, <2>1
  <2> QED BY <1>3, <1>4, <2>1, <2>2, <2>3 DEF B, w
<1>7. CASE w.mon # NoMon
  <2>1. w.mon \in Monitor
    BY <1>1, <1>7 DEF Fits, Window, SomeMon
  <2>2. X \in [Client -> Fits] /\ B = arrange(X, O, w.mon)
    BY <1>2, <1>3, <1>5, <1>7
  <2>3. Steady(X, B, O)
    BY <2>1, <2>2, ArrangeSteady
  <2>4. /\ B \in [Client -> Fits]
        /\ \A u \in Client \ {c} : Undisturbed(W[u], B[u], O[W[u].mon])
        /\ Undisturbed(x, B[c], O[m])
    BY <1>3, <1>4, <2>3 DEF Steady
  <2>5. /\ B[c] \in Window /\ B[c].mapped /\ B[c].mon = m
        /\ B[c].grab = x.grab \/ (x.grab = "CurMove" /\ B[c].grab = "none")
        /\ Outside(B[c]) = Outside(x)
        /\ (B[c].incanvas => B[c].world # "unset")
    BY <1>3, <2>4 DEF Undisturbed, Kept, Changed, Sound, Fits, Fit
  <2>6. B = [B EXCEPT ![c] = B[c]] /\ DOMAIN B = Client
    BY <2>4
  <2>7. B[c].grab = w.grab \/ (w.grab = "CurMove" /\ B[c].grab = "none")
    BY <1>3, <2>5
  <2>8. Outside(B[c]) = Outside(w)
    BY <1>3, <2>5
  <2> QED BY <2>4, <2>5, <2>6, <2>7, <2>8 DEF B, w
<1> QED BY <1>6, <1>7

LEMMA SetmonMoves ==
    ASSUME NEW W \in [Client -> Fits], NEW O \in [Monitor -> Output], NEW c \in Client,
           NEW m \in SomeMon, NEW newtags \in SUBSET Tag, W[c].mapped, W[c].mon # m
    PROVE  LET V == setmon(W, O, c, m, newtags)
           IN  /\ V \in [Client -> Fits]
               /\ \A u \in Client \ {c} : Undisturbed(W[u], V[u], O[W[u].mon])
               /\ Moved(W[c], V[c], O, m)
<1> DEFINE w == W[c]
           B == Behind(W, O, c, m)
           y == B[c]
           tags == IF newtags = {} THEN O[m].viewed ELSE newtags
           z == Centred(y, tags)
           X == [B EXCEPT ![c] = z]
           F == setfullscreen(X, O, c, X[c].isfullscreen)
           V == setmon(W, O, c, m, newtags)
<1>1. V = IF m = NoMon THEN B ELSE setfloating(F, O, c, F[c].isfloating)
  BY DEF setmon, Behind
<1>2. /\ DOMAIN B = Client /\ \A u \in Client \ {c} : Undisturbed(W[u], B[u], O[W[u].mon])
      /\ w.mapped /\ y \in Window /\ y.mapped /\ y.mon = m /\ (y.incanvas => y.world # "unset")
      /\ y.grab = w.grab \/ (w.grab = "CurMove" /\ y.grab = "none")
      /\ Outside(y) = Outside(w)
      /\ (m = NoMon => B \in [Client -> Fits])
      /\ B = [B EXCEPT ![c] = B[c]]
  <2> HIDE DEF B
  <2> QED BY BehindFields DEF B
<1> HIDE DEF B, V
<1>3. CASE m = NoMon
  <2>1. V = B /\ y \in Fits
    BY <1>1, <1>2, <1>3
  <2>2. Moved(w, y, O, m)
    BY <1>2, <1>3, <2>1 DEF Moved
  <2> QED BY <1>2, <1>3, <2>1, <2>2 DEF V
<1>4. CASE m # NoMon
  <2>1. tags \in SUBSET Tag
    BY <1>4 DEF SomeMon, Output
  <2> HIDE DEF tags, y
  <2>2. Recentred(y, z)
    BY <1>2, <1>4, <2>1, CentredFits
  <2> HIDE DEF z, w
  <2>3. /\ X[c] = z /\ \A u \in Client \ {c} : X[u] = B[u]
        /\ DOMAIN X = Client /\ X = [X EXCEPT ![c] = X[c]]
    BY <1>2
  <2>4. \A u \in Client : X[u] \in Fits
    BY <1>2, <2>2, <2>3 DEF Recentred, Undisturbed, Kept, Changed, Sound
  <2>5. X \in [Client -> Fits]
    <3>1. X = [u \in Client |-> X[u]]
      BY <1>2
    <3> HIDE DEF X
    <3> QED BY <2>4, <3>1
  <2> HIDE DEF X
  <2>6. X[c].isfullscreen \in BOOLEAN /\ X[c].mon = m
    BY <1>2, <2>2, <2>3, <2>5 DEF Recentred, Fits, Window
  <2>7. /\ F \in [Client -> Fits]
        /\ \A u \in Client \ {c} : Undisturbed(X[u], F[u], O[X[u].mon])
        /\ Kept(z, F[c], O[m]) /\ Settled(F[c], O[m])
    BY <1>4, <2>3, <2>5, <2>6, SetfullscreenKept, ZenonT(60)
  <2>8. F[c].mon = m /\ F[c].isfloating \in BOOLEAN
    BY <2>3, <2>6, <2>7 DEF Kept, Changed, Sound, Fits, Window
  <2> HIDE DEF F
  <2>9. /\ V \in [Client -> Fits]
        /\ \A u \in Client \ {c} : Undisturbed(F[u], V[u], O[F[u].mon])
        /\ Floated(F[c], V[c], O[m], F[c].isfloating)
    <3>1. V = setfloating(F, O, c, F[c].isfloating)
      BY <1>1, <1>4
    <3> QED BY <1>4, <2>7, <2>8, <3>1, SetfloatingFloats
  <2>10. ASSUME NEW u \in Client \ {c} PROVE Undisturbed(W[u], V[u], O[W[u].mon])
    <3>1. Undisturbed(W[u], X[u], O[W[u].mon]) /\ X[u].mon = W[u].mon
      BY <1>2, <2>3 DEF Undisturbed, Kept, Changed, Sound
    <3>2. Undisturbed(X[u], F[u], O[W[u].mon]) /\ F[u].mon = W[u].mon
      BY <2>7, <3>1 DEF Undisturbed, Kept, Changed, Sound
    <3>3. Undisturbed(F[u], V[u], O[W[u].mon])
      BY <2>9, <3>2
    <3> QED BY <3>1, <3>2, <3>3, UndisturbedTwice
  <2>11. Moved(w, F[c], O, m)
    BY <1>2, <1>4, <2>2, <2>7, <2>8 DEF Moved, Recentred, Kept, Changed, Sound
  <2>12. Moved(w, V[c], O, m)
    <3>1. Changed(F[c], V[c], O[m])
      BY <2>9 DEF Floated, Changed
    <3> QED BY <2>11, <3>1, MovedStays
  <2>13. Moved(W[c], V[c], O, m)
    BY <2>12 DEF w
  <2> QED BY <2>9, <2>10, <2>13 DEF V
<1> QED BY <1>3, <1>4

-----------------------------------------------------------------------------
(***************************************************************************)
(* The loops over the window list, which visits every window.              *)
(***************************************************************************)
LEMMA ListOrder ==
    /\ Cardinality(Client) \in Nat
    /\ clients \in [1..Cardinality(Client) -> Client]
    /\ \A c \in Client : \E i \in 1..Cardinality(Client) : clients[i] = c
<1> DEFINE n == Cardinality(Client)
           Complete(order) == \A c \in Client : \E i \in DOMAIN order : order[i] = c
<1>1. n \in Nat /\ ExistsBijection(1..n, Client)
  BY ClientAssumption, FS_CardinalityType
<1>2. PICK f \in Bijection(1..n, Client) : TRUE
  BY <1>1 DEF ExistsBijection
<1>3. f \in [1..n -> Client] /\ Complete(f)
  BY <1>2 DEF Bijection, Injection, Surjection
<1>4. clients \in [1..n -> Client] /\ Complete(clients)
  BY <1>3 DEF clients
<1> QED BY <1>1, <1>4

LEMMA MigrateMoves ==
    ASSUME NEW W \in [Client -> Fits], NEW O \in [Monitor -> Output], NEW c \in Client,
           NEW from \in SomeMon, NEW to \in SomeMon, from # to
    PROVE  LET V == Migrate(W, O, c, from, to)
           IN  /\ V \in [Client -> Fits]
               /\ \A u \in Client :
                    IF u = c /\ c \in On(W, from) THEN Moved(W[c], V[c], O, to)
                    ELSE Undisturbed(W[u], V[u], O[W[u].mon])
<1> DEFINE V == Migrate(W, O, c, from, to)
<1>1. CASE c \in On(W, from)
  <2>1. V = setmon(W, O, c, to, W[c].tags)
    BY <1>1 DEF Migrate
  <2>2. W[c].mapped /\ W[c].mon # to
    BY <1>1 DEF On
  <2>3. W[c].tags \in SUBSET Tag
    BY DEF Fits, Window
  <2> HIDE DEF V
  <2>4. /\ V \in [Client -> Fits]
        /\ \A u \in Client \ {c} : Undisturbed(W[u], V[u], O[W[u].mon])
        /\ Moved(W[c], V[c], O, to)
    BY <2>1, <2>2, <2>3, SetmonMoves
  <2> QED BY <1>1, <2>4 DEF V
<1>2. CASE c \notin On(W, from)
  <2>1. V = W
    BY <1>2 DEF Migrate
  <2> QED BY <1>2, <2>1, ChangedSame
<1> QED BY <1>1, <1>2

Tables == [Client -> Fits]

LEMMA WindowsLoop ==
    ASSUME NEW W \in Tables, NEW n \in Nat, NEW G \in [(1..n) \X Tables -> Tables]
    PROVE  \E f \in [0..n -> Tables] :
               f[0] = W /\ \A i \in 1..n : f[i] = G[<<i, f[i - 1]>>]
BY LoopExists

LEMMA MoveAllRuns ==
    ASSUME NEW W \in [Client -> Fits], NEW O \in [Monitor -> Output],
           NEW from \in SomeMon, NEW to \in SomeMon, from # to
    PROVE  \E run :
              /\ run[0] = W
              /\ \A i \in 1..Cardinality(Client) :
                   run[i] = Migrate(run[i - 1], O, clients[i], from, to)
              /\ MoveAll(W, O, from, to) = run[Cardinality(Client)]
<1> DEFINE n == Cardinality(Client)
           S == [Client -> Fits]
           run[i \in 0..n] ==
               IF i = 0 THEN W ELSE Migrate(run[i - 1], O, clients[i], from, to)
           G == [p \in (1..n) \X S |-> Migrate(p[2], O, clients[p[1]], from, to)]
<1>1. n \in Nat /\ \A i \in 1..n : clients[i] \in Client
  BY ListOrder
<1>2. \A i \in 1..n, X \in S : Migrate(X, O, clients[i], from, to) \in S
  BY <1>1, MigrateMoves
<1>3. G \in [(1..n) \X S -> S]
  BY <1>2
<1>4. PICK f \in [0..n -> S] : f[0] = W /\ \A i \in 1..n : f[i] = G[<<i, f[i - 1]>>]
  <2> HIDE DEF G, n
  <2>1. S = Tables
    BY DEF Tables
  <2> HIDE DEF S
  <2>2. W \in S
    BY <2>1 DEF Tables
  <2> QED BY <1>1, <1>3, <2>1, <2>2, WindowsLoop, ZenonT(60)
<1>5. ASSUME NEW i \in 1..n PROVE f[i] = Migrate(f[i - 1], O, clients[i], from, to)
  <2>1. <<i, f[i - 1]>> \in (1..n) \X S
    BY <1>1
  <2> HIDE DEF S, n
  <2>2. G[<<i, f[i - 1]>>] = Migrate(f[i - 1], O, clients[i], from, to)
    BY <2>1
  <2> HIDE DEF G
  <2> QED BY <1>4, <2>2
<1>6. f = [i \in 0..n |-> IF i = 0 THEN W ELSE Migrate(f[i - 1], O, clients[i], from, to)]
  <2> HIDE DEF G, n, S
  <2> QED BY <1>1, <1>4, <1>5
<1>7. run = [i \in 0..n |->
               IF i = 0 THEN W ELSE Migrate(run[i - 1], O, clients[i], from, to)]
  BY <1>6
<1>8. MoveAll(W, O, from, to) = run[n]
  BY DEF MoveAll, run
<1> HIDE DEF run
<1>9. run[0] = W /\ \A i \in 1..n : run[i] = Migrate(run[i - 1], O, clients[i], from, to)
  BY <1>1, <1>7
<1> QED BY <1>8, <1>9

LEMMA MoveAllMoves ==
    ASSUME NEW W \in [Client -> Fits], NEW O \in [Monitor -> Output],
           NEW from \in SomeMon, NEW to \in SomeMon, from # to
    PROVE  LET V == MoveAll(W, O, from, to)
           IN  /\ V \in [Client -> Fits]
               /\ \A u \in Client : IF u \in On(W, from) THEN Moved(W[u], V[u], O, to)
                                    ELSE Kept(W[u], V[u], O[W[u].mon])
<1> DEFINE n == Cardinality(Client)
           Before(i) == {clients[j] : j \in 1..i}
           Done(X, i) == \A u \in Client :
                             IF u \in On(W, from) \cap Before(i) THEN Moved(W[u], X[u], O, to)
                             ELSE Kept(W[u], X[u], O[W[u].mon])
           S == [i \in 0..n |-> {X \in [Client -> Fits] : Done(X, i)}]
<1>1. PICK run : /\ run[0] = W
                 /\ \A i \in 1..n : run[i] = Migrate(run[i - 1], O, clients[i], from, to)
                 /\ MoveAll(W, O, from, to) = run[n]
  BY MoveAllRuns
<1>2. n \in Nat /\ \A i \in 1..n : clients[i] \in Client
  BY ListOrder
<1>3. run[0] \in S[0]
  <2>1. Before(0) = {}
    OBVIOUS
  <2>2. Done(W, 0)
    BY <2>1, ChangedSame DEF Undisturbed
  <2> QED BY <1>1, <1>2, <2>2
<1>4. ASSUME NEW i \in 1..n, run[i - 1] \in S[i - 1] PROVE run[i] \in S[i]
  <2> DEFINE X == run[i - 1]
             V == run[i]
             c == clients[i]
  <2>1. X \in [Client -> Fits] /\ Done(X, i - 1) /\ V = Migrate(X, O, c, from, to) /\ c \in Client
    <3>1. V = Migrate(X, O, c, from, to) /\ c \in Client
      BY <1>1, <1>2
    <3>2. i - 1 \in 0..n
      BY <1>2
    <3> HIDE DEF Done
    <3>3. X \in [Client -> Fits] /\ Done(X, i - 1)
      BY <1>4, <3>2
    <3> QED BY <3>1, <3>3
  <2>2. Before(i) = Before(i - 1) \cup {c}
    <3>1. \A j \in 1..i : j \in 1..(i - 1) \/ j = i
      BY <1>2
    <3>2. \A j \in 1..(i - 1) : j \in 1..i
      BY <1>2
    <3> QED BY <1>2, <3>1, <3>2
  <2> HIDE DEF X, V, c
  <2>3. /\ V \in [Client -> Fits]
        /\ \A u \in Client :
             IF u = c /\ c \in On(X, from) THEN Moved(X[c], V[c], O, to)
             ELSE Undisturbed(X[u], V[u], O[X[u].mon])
    BY <2>1, MigrateMoves
  <2> HIDE DEF Before
  <2>4. ASSUME NEW u \in Client
        PROVE  IF u \in On(W, from) \cap Before(i) THEN Moved(W[u], V[u], O, to)
               ELSE Kept(W[u], V[u], O[W[u].mon])
    <3>1. CASE u \in On(W, from) \cap Before(i - 1)
      <4>1. Moved(W[u], X[u], O, to) /\ u \in Before(i)
        BY <2>1, <2>2, <3>1
      <4>2. X[u].mon = to /\ u \notin On(X, from)
        BY <4>1 DEF Moved, On
      <4>3. Changed(X[u], V[u], O[to])
        BY <2>3, <4>2 DEF Undisturbed, Kept
      <4> QED BY <3>1, <4>1, <4>3, MovedStays
    <3>2. CASE u \notin On(W, from) \cap Before(i - 1)
      <4>1. Kept(W[u], X[u], O[W[u].mon])
        BY <2>1, <3>2
      <4>2. X[u].mon = W[u].mon /\ (u \in On(X, from) <=> u \in On(W, from))
        BY <4>1 DEF Kept, Changed, Sound, On
      <4>3. CASE u = c /\ u \in On(W, from)
        <5>1. Moved(X[u], V[u], O, to)
          BY <2>3, <4>2, <4>3
        <5>2. Moved(W[u], V[u], O, to)
          BY <4>1, <5>1 DEF Kept, Changed, Sound, Moved
        <5> QED BY <2>2, <4>3, <5>2
      <4>4. CASE ~(u = c /\ u \in On(W, from))
        <5>1. Undisturbed(X[u], V[u], O[W[u].mon])
          BY <2>3, <4>2, <4>4
        <5>2. Kept(W[u], V[u], O[W[u].mon])
          BY <4>1, <5>1, KeptTwice DEF Undisturbed
        <5> QED BY <2>2, <3>2, <4>4, <5>2
      <4> QED BY <4>3, <4>4
    <3> QED BY <3>1, <3>2
  <2>5. V \in {Y \in [Client -> Fits] : Done(Y, i)}
    BY <2>3, <2>4
  <2> HIDE DEF Done
  <2> QED BY <1>2, <2>5 DEF V
<1>5. run[n] \in S[n]
  <2> HIDE DEF S, n
  <2> QED BY <1>2, <1>3, <1>4, LoopProgress
<1>6. Before(n) = Client
  BY ListOrder
<1>7. run[n] \in [Client -> Fits] /\ Done(run[n], n)
  <2> HIDE DEF Done
  <2> QED BY <1>2, <1>5
<1> HIDE DEF Before
<1> QED BY <1>1, <1>6, <1>7


\* What a loop whose rounds keep every window does.
Keeps(W, V, O) ==
    /\ V \in [Client -> Fits]
    /\ \A u \in Client : Kept(W[u], V[u], O[W[u].mon])

LEMMA KeepsSame ==
    ASSUME NEW W \in [Client -> Fits], NEW O
    PROVE  Keeps(W, W, O)
BY ChangedSame DEF Keeps, Undisturbed

LEMMA KeepsTwice ==
    ASSUME NEW W, NEW V, NEW X, NEW O, Keeps(W, V, O), Keeps(V, X, O)
    PROVE  Keeps(W, X, O)
<1>1. ASSUME NEW u \in Client PROVE Kept(W[u], X[u], O[W[u].mon])
  <2>1. Kept(W[u], V[u], O[W[u].mon]) /\ V[u].mon = W[u].mon
    BY DEF Keeps, Kept, Changed, Sound
  <2>2. Kept(V[u], X[u], O[W[u].mon])
    BY <2>1 DEF Keeps
  <2> QED BY <2>1, <2>2, KeptTwice
<1> QED BY <1>1 DEF Keeps

LEMMA SteadyKeeps ==
    ASSUME NEW W, NEW V, NEW O, Steady(W, V, O)
    PROVE  Keeps(W, V, O)
BY DEF Steady, Keeps, Undisturbed

LEMMA UncoveredKeeps ==
    ASSUME NEW W \in [Client -> Fits], NEW w \in Client, NEW c \in Client
    PROVE  Keeps(W, Uncovered(W, w, c), out)
<1>1. CASE Uncovered(W, w, c) = W
  BY <1>1, KeepsSame
<1>2. CASE Uncovered(W, w, c) = setfullscreen(W, out, w, FALSE)
  <2> DEFINE V == setfullscreen(W, out, w, FALSE)
  <2>1. /\ V \in [Client -> Fits]
        /\ \A u \in Client \ {w} : Undisturbed(W[u], V[u], out[W[u].mon])
        /\ Kept(W[w], V[w], out[W[w].mon])
    BY SetfullscreenKept
  <2> HIDE DEF V
  <2>2. Keeps(W, V, out)
    BY <2>1 DEF Keeps, Undisturbed
  <2> QED BY <1>2, <2>2 DEF V
<1> QED BY <1>1, <1>2 DEF Uncovered

LEMMA UnsetFullscreenRuns ==
    ASSUME NEW W \in [Client -> Fits], NEW c \in Client, W[c].mon # NoMon
    PROVE  \E run :
              /\ run[0] = W
              /\ \A i \in 1..Cardinality(Client) :
                   run[i] = Uncovered(run[i - 1], clients[i], c)
              /\ UnsetFullscreen(W, c) = run[Cardinality(Client)]
<1> DEFINE n == Cardinality(Client)
           S == [Client -> Fits]
           run[i \in 0..n] == IF i = 0 THEN W ELSE Uncovered(run[i - 1], clients[i], c)
           G == [p \in (1..n) \X S |-> Uncovered(p[2], clients[p[1]], c)]
<1>1. n \in Nat /\ \A i \in 1..n : clients[i] \in Client
  BY ListOrder
<1>2. \A i \in 1..n, X \in S : Uncovered(X, clients[i], c) \in S
  BY <1>1, UncoveredKeeps DEF Keeps
<1>3. G \in [(1..n) \X S -> S]
  BY <1>2
<1>4. PICK f \in [0..n -> S] : f[0] = W /\ \A i \in 1..n : f[i] = G[<<i, f[i - 1]>>]
  <2> HIDE DEF G, n
  <2>1. S = Tables
    BY DEF Tables
  <2> HIDE DEF S
  <2>2. W \in S
    BY <2>1 DEF Tables
  <2> QED BY <1>1, <1>3, <2>1, <2>2, WindowsLoop, ZenonT(60)
<1>5. ASSUME NEW i \in 1..n PROVE f[i] = Uncovered(f[i - 1], clients[i], c)
  <2>1. <<i, f[i - 1]>> \in (1..n) \X S
    BY <1>1, SMTT(30)
  <2> HIDE DEF S, n
  <2>2. G[<<i, f[i - 1]>>] = Uncovered(f[i - 1], clients[i], c)
    BY <2>1
  <2> HIDE DEF G
  <2> QED BY <1>4, <2>2
<1>6. f = [i \in 0..n |-> IF i = 0 THEN W ELSE Uncovered(f[i - 1], clients[i], c)]
  <2> HIDE DEF G, n, S
  <2> QED BY <1>1, <1>4, <1>5
<1>7. run = [i \in 0..n |-> IF i = 0 THEN W ELSE Uncovered(run[i - 1], clients[i], c)]
  BY <1>6
<1>8. UnsetFullscreen(W, c) = run[n]
  BY DEF UnsetFullscreen, run
<1> HIDE DEF run
<1>9. run[0] = W /\ \A i \in 1..n : run[i] = Uncovered(run[i - 1], clients[i], c)
  BY <1>1, <1>7
<1> QED BY <1>8, <1>9

LEMMA UnsetFullscreenKeeps ==
    ASSUME NEW W \in [Client -> Fits], NEW c \in Client
    PROVE  Keeps(W, UnsetFullscreen(W, c), out)
<1> DEFINE n == Cardinality(Client)
<1>1. CASE W[c].mon = NoMon
  BY <1>1, KeepsSame DEF UnsetFullscreen
<1>2. CASE W[c].mon # NoMon
  <2> DEFINE S == {X \in [Client -> Fits] : Keeps(W, X, out)}
  <2>1. PICK run : /\ run[0] = W
                   /\ \A i \in 1..n : run[i] = Uncovered(run[i - 1], clients[i], c)
                   /\ UnsetFullscreen(W, c) = run[n]
    BY <1>2, UnsetFullscreenRuns
  <2>2. n \in Nat /\ \A i \in 1..n : clients[i] \in Client
    BY ListOrder
  <2>3. run[0] \in S
    BY <2>1, KeepsSame
  <2>4. ASSUME NEW i \in 1..n, run[i - 1] \in S PROVE run[i] \in S
    <3>1. Keeps(run[i - 1], run[i], out)
      BY <2>1, <2>2, <2>4, UncoveredKeeps
    <3>2. Keeps(W, run[i], out)
      BY <2>4, <3>1, KeepsTwice
    <3> QED BY <3>1, <3>2 DEF Keeps
  <2>5. run[n] \in S
    <3> HIDE DEF S, n
    <3> QED BY <2>2, <2>3, <2>4, LoopInvariant
  <2> QED BY <2>1, <2>5
<1> QED BY <1>1, <1>2


-----------------------------------------------------------------------------
(***************************************************************************)
(* The inductive invariant.  Every window fits its state, and the ones on  *)
(* an output are on a listed one and in its canvas if they should be: a    *)
(* toggle of the floating state of a window that is seen in canvas mode    *)
(* would otherwise change the state that leaving the canvas restores.      *)
(***************************************************************************)
Lives(v, O) == v \in Fits /\ (v.mon # NoMon => O[v.mon].listed /\ Entered(v, O[v.mon]))

CInv ==
    /\ win \in [Client -> Fits] /\ out \in [Monitor -> Output]
    /\ selmon \in Listed \cup {NoMon} /\ scope \in Scopes
    /\ \A c, d \in grabc : c = d
    /\ \A c \in Client : Lives(win[c], out)

(***************************************************************************)
(* What a step may do to a window w that becomes v while the outputs O     *)
(* become P: the bodies of the four action properties, and the invariant.  *)
(***************************************************************************)
Recalls(w, v, p) ==
    /\ w.incanvas /\ w.isfullscreen /\ w.grab = "none" /\ v.tags = w.tags
    /\ p.canvas_tags \cap p.viewed \cap w.tags # {}
    => v.incanvas /\ v.world = w.world

Legal(w, v, O, P) ==
    /\ w.mapped /\ v.mapped /\ Outside(v) # Outside(w) =>
         /\ ~w.incanvas /\ ~v.incanvas /\ P = O
         /\ v.mon = w.mon /\ v.tags = w.tags /\ v.isfullscreen = w.isfullscreen
    /\ v.mon # NoMon /\ Misplaced(v, P[v.mon]) =>
         (w.mon # NoMon /\ Misplaced(w, O[w.mon])) \/ w.grab = "CurTileDrag"
    /\ v.mon # NoMon /\ Mislaid(v, P[v.mon]) =>
         (w.mon # NoMon /\ Mislaid(w, O[w.mon])) \/ w.grab = "CurTileDrag"
    /\ v.mon = w.mon => Recalls(w, v, P[w.mon])

Passes(w, v, O, P) ==
    /\ Lives(v, P) /\ Legal(w, v, O, P)
    /\ v.grab # "none" => v.grab = w.grab

\* A window on an output that stays as it is.
LEMMA ChangedPasses ==
    ASSUME NEW w, NEW v, NEW O, NEW P, Lives(w, O), Changed(w, v, P[w.mon]),
           Recalls(w, v, P[w.mon]), w.mon # NoMon => P[w.mon] = O[w.mon]
    PROVE  Passes(w, v, O, P)
<1>1. /\ v \in Fits /\ v.mon = w.mon
      /\ Outside(v) = Outside(w) /\ (v.grab # "none" => v.grab = w.grab)
  BY DEF Changed, Sound
<1>2. ASSUME w.mon # NoMon
      PROVE  /\ P[v.mon].listed /\ Entered(v, P[v.mon])
             /\ Misplaced(v, P[v.mon]) => Misplaced(w, O[w.mon]) \/ w.grab = "CurTileDrag"
             /\ Mislaid(v, P[v.mon]) => Mislaid(w, O[w.mon])
  BY <1>1, <1>2 DEF Lives, Changed, Sound
<1> QED BY <1>1, <1>2 DEF Passes, Lives, Legal

LEMMA KeptPasses ==
    ASSUME NEW w, NEW v, NEW O, NEW P, Lives(w, O), Kept(w, v, P[w.mon]),
           w.mon # NoMon => P[w.mon] = O[w.mon]
    PROVE  Passes(w, v, O, P)
<1>1. Recalls(w, v, P[w.mon])
  BY DEF Kept, Changed, Sound, Spot, Recalls
<1> QED BY <1>1, ChangedPasses DEF Kept

\* One that moves to another output.
LEMMA MovedPasses ==
    ASSUME NEW w \in Fits, NEW v, NEW O, NEW P, NEW m, Moved(w, v, P, m),
           m # w.mon \/ m = NoMon, m # NoMon => P[m].listed
    PROVE  Passes(w, v, O, P)
<1>1. /\ v \in Fits /\ v.mon = m
      /\ Outside(v) = Outside(w) /\ (v.grab # "none" => v.grab = w.grab)
      /\ m # NoMon => Settled(v, P[m])
  BY DEF Moved
<1>2. Lives(v, P)
  BY <1>1 DEF Lives, Settled, Seated
<1>3. v.mon = w.mon => ~w.incanvas
  BY <1>1 DEF Fits, Fit
<1>4. ASSUME v.mon # NoMon
      PROVE  ~Mislaid(v, P[v.mon]) /\ (Misplaced(v, P[v.mon]) => w.grab = "CurTileDrag")
  BY <1>1, <1>4 DEF Settled, Seated
<1> QED BY <1>1, <1>2, <1>3, <1>4 DEF Passes, Legal, Recalls

\* One whose floating state is set.
LEMMA FloatedPasses ==
    ASSUME NEW w, NEW v, NEW O, NEW floating, Lives(w, O), w.mon # NoMon,
           Floated(w, v, O[w.mon], floating)
    PROVE  Passes(w, v, O, O)
<1>1. /\ v \in Fits /\ v.mon = w.mon /\ v.tags = w.tags /\ v.isfullscreen = w.isfullscreen
      /\ v.grab # "none" => v.grab = w.grab
      /\ Entered(w, O[w.mon]) => Entered(v, O[w.mon])
      /\ Misplaced(v, O[w.mon]) => Misplaced(w, O[w.mon]) \/ w.grab = "CurTileDrag"
      /\ Mislaid(v, O[w.mon]) => Mislaid(w, O[w.mon])
  BY DEF Floated, Sound
<1>2. Entered(w, O[w.mon]) /\ O[w.mon].listed
  BY DEF Lives
<1>3. Outside(v) # Outside(w) => ~w.incanvas /\ ~v.incanvas
  BY <1>2 DEF Floated
<1>4. Recalls(w, v, O[w.mon])
  BY <1>1 DEF Recalls, Floated, Spot
<1> QED BY <1>1, <1>2, <1>3, <1>4 DEF Passes, Lives, Legal

(***************************************************************************)
(* One whose output is arranged, after that output changed or it became x. *)
(***************************************************************************)
Poised(w, x, p) ==
    /\ x \in Fits /\ x.mapped = w.mapped /\ x.mon = w.mon
    /\ x.grab # "none" => x.grab = w.grab
    /\ Outside(x) = Outside(w)
    /\ Layered(w) => Layered(x)
    /\ Recalls(w, x, p)

LEMMA PoisedSame ==
    ASSUME NEW w \in Fits, NEW p
    PROVE  Poised(w, w, p)
BY DEF Poised, Recalls

LEMMA PoisedPasses ==
    ASSUME NEW w, NEW x, NEW v, NEW O, NEW P, w.mon # NoMon, P[w.mon].listed,
           Poised(w, x, P[w.mon]), Kept(x, v, P[w.mon]), Seated(v, P[w.mon]),
           Layered(x) => Settled(v, P[w.mon])
    PROVE  Passes(w, v, O, P)
<1>1. /\ v \in Fits /\ v.mapped = w.mapped /\ v.mon = w.mon /\ v.tags = x.tags
      /\ Outside(v) = Outside(w) /\ (v.grab # "none" => v.grab = w.grab)
  BY DEF Poised, Kept, Changed, Sound
<1>2. Lives(v, P)
  BY <1>1 DEF Lives, Seated
<1>3. Misplaced(v, P[w.mon]) => w.grab = "CurTileDrag"
  BY <1>1 DEF Seated
<1>4. Mislaid(v, P[w.mon]) => Mislaid(w, O[w.mon])
  BY DEF Poised, Settled, Mislaid
<1>5. Recalls(w, v, P[w.mon])
  BY <1>1 DEF Poised, Recalls, Kept, Changed, Sound, Spot
<1> QED BY <1>1, <1>2, <1>3, <1>4, <1>5 DEF Passes, Legal


-----------------------------------------------------------------------------
(***************************************************************************)
(* All windows.                                                            *)
(***************************************************************************)
Passed(W, V, O, P) ==
    /\ V \in [Client -> Fits]
    /\ \A c \in Client : Passes(W[c], V[c], O, P)

LEMMA OnePasses ==
    ASSUME NEW W, NEW V \in [Client -> Fits], NEW O, NEW c \in Client,
           \A u \in Client : Lives(W[u], O),
           \A u \in Client \ {c} : Kept(W[u], V[u], O[W[u].mon]),
           Passes(W[c], V[c], O, O)
    PROVE  Passed(W, V, O, O)
BY KeptPasses DEF Passed

LEMMA KeepsPasses ==
    ASSUME NEW W, NEW V, NEW O, \A u \in Client : Lives(W[u], O), Keeps(W, V, O)
    PROVE  Passed(W, V, O, O)
BY KeptPasses DEF Passed, Keeps

LEMMA ArrangePasses ==
    ASSUME NEW W, NEW X \in [Client -> Fits], NEW Z, NEW O, NEW P, NEW m \in Monitor,
           P[m].listed, \A n \in Monitor \ {m} : P[n] = O[n],
           \A c \in Client : Lives(W[c], O),
           \A c \in Client : IF W[c].mon = m THEN Poised(W[c], X[c], P[m]) ELSE X[c] = W[c],
           Keeps(arrange(X, P, m), Z, P)
    PROVE  Passed(W, Z, O, P)
<1> DEFINE V == arrange(X, P, m)
<1>1. /\ Steady(X, V, P)
      /\ \A c \in On(X, m) : Seated(V[c], P[m]) /\ (Layered(X[c]) => Settled(V[c], P[m]))
  BY ArrangeSteady
<1>2. Keeps(V, Z, P)
  OBVIOUS
<1> HIDE DEF V
<1>3. Keeps(X, V, P)
  BY <1>1, SteadyKeeps
<1>4. Keeps(X, Z, P)
  BY <1>2, <1>3, KeepsTwice
<1>5. ASSUME NEW c \in Client PROVE Passes(W[c], Z[c], O, P)
  <2>1. Lives(W[c], O) /\ W[c] \in Fits /\ Kept(X[c], Z[c], P[X[c].mon])
    BY <1>4 DEF Lives, Keeps
  <2>2. CASE W[c].mon = m
    <3>1. Poised(W[c], X[c], P[m])
      BY <2>2
    <3>2. X[c].mon = m /\ m # NoMon /\ X[c] \in Fits
      BY <2>2, <3>1, NullAssumption DEF Poised
    <3>3. c \in On(X, m)
      BY <3>2 DEF On, Fits, Fit
    <3>4. Seated(V[c], P[m]) /\ (Layered(X[c]) => Settled(V[c], P[m]))
      BY <1>1, <3>3
    <3>5. V[c].mon = m
      BY <1>3, <3>2 DEF Keeps, Kept, Changed, Sound
    <3>6. Sound(V[c], Z[c], P[m])
      BY <1>2, <3>5 DEF Keeps, Kept, Changed
    <3>7. Seated(Z[c], P[m]) /\ (Layered(X[c]) => Settled(Z[c], P[m]))
      BY <3>2, <3>4, <3>5, <3>6, SettledStays
    <3> QED BY <2>1, <2>2, <3>1, <3>2, <3>7, PoisedPasses
  <2>3. CASE W[c].mon # m
    <3>1. X[c] = W[c]
      BY <2>3
    <3>2. W[c].mon # NoMon => P[W[c].mon] = O[W[c].mon]
      BY <2>1, <2>3 DEF Fits, Window, SomeMon
    <3> QED BY <2>1, <3>1, <3>2, KeptPasses
  <2> QED BY <2>2, <2>3
<1> QED BY <1>4, <1>5 DEF Passed, Keeps

Advances ==
    /\ CInv'
    /\ \A c \in Client : Legal(win[c], win'[c], out, out')

LEMMA PassedAdvances ==
    ASSUME CInv, Passed(win, win', out, out'), out' \in [Monitor -> Output],
           selmon' \in Listed' \cup {NoMon}, scope' = scope
    PROVE  Advances
<1>1. ASSUME NEW c \in grabc' PROVE c \in grabc
  BY <1>1 DEF grabc, Passed, Passes
<1>2. \A c, d \in grabc' : c = d
  BY <1>1 DEF CInv
<1>3. CInv'
  BY <1>2 DEF CInv, Passed, Passes
<1> QED BY <1>3 DEF Advances, Passed, Passes


-----------------------------------------------------------------------------
(***************************************************************************)
(* The actions: canvas mode, views, tags, layouts and power.               *)
(***************************************************************************)
LEMMA Living ==
    ASSUME CInv, NEW c \in Client
    PROVE  /\ win[c] \in Fits /\ win[c] \in Window /\ Lives(win[c], out)
           /\ win[c].mon \in SomeMon /\ win[c].tags \in SUBSET Tag
           /\ win[c].mon # NoMon => /\ win[c].mapped /\ win[c].mon \in Listed
                                    /\ win[c].mon \in Monitor
                                    /\ Entered(win[c], out[win[c].mon])
           /\ win[c].mon = NoMon => ~win[c].incanvas
BY DEF CInv, Lives, Fits, Fit, Window, Listed, SomeMon

\* The outputs but m stay, and all that are listed.
LEMMA OutputChanges ==
    ASSUME CInv, NEW m \in Listed, NEW p \in Output, p.listed, out' = [out EXCEPT ![m] = p]
    PROVE  /\ out' \in [Monitor -> Output] /\ out'[m] = p /\ Listed' = Listed
           /\ \A n \in Monitor \ {m} : out'[n] = out[n]
BY DEF CInv, Listed

\* The selected output is arranged, or another one.
LEMMA OutputArranged ==
    ASSUME CInv, NEW m \in Listed, NEW p \in Output, p.listed, out' = [out EXCEPT ![m] = p],
           win' = arrange(win, out', m), UNCHANGED <<selmon, scope>>
    PROVE  Advances
<1>1. /\ out' \in [Monitor -> Output] /\ out'[m] = p /\ Listed' = Listed /\ m \in Monitor
      /\ \A n \in Monitor \ {m} : out'[n] = out[n]
  BY OutputChanges DEF Listed
<1>2. win \in [Client -> Fits] /\ \A c \in Client : Lives(win[c], out) /\ Poised(win[c], win[c], p)
  BY PoisedSame DEF CInv
<1>3. Keeps(arrange(win, out', m), win', out')
  <2>1. Steady(win, win', out')
    BY <1>1, <1>2, ArrangeSteady
  <2>2. win' \in [Client -> Fits]
    BY <2>1 DEF Steady
  <2> QED BY <2>2, KeepsSame
<1>4. Passed(win, win', out, out')
  <2>1. \A c \in Client : IF win[c].mon = m THEN Poised(win[c], win[c], out'[m])
                         ELSE win[c] = win[c]
    BY <1>1, <1>2
  <2>2. out'[m].listed
    BY <1>1
  <2> QED BY <1>1, <1>2, <1>3, <2>1, <2>2, ArrangePasses
<1> QED BY <1>1, <1>4, PassedAdvances DEF CInv

LEMMA ViewAdvances ==
    ASSUME CInv, NEW m \in Monitor, NEW newtags \in SUBSET scope.tags, View(m, newtags)
    PROVE  Advances
<1> DEFINE p == [out[m] EXCEPT !.viewed = newtags]
<1>1. m \in Listed /\ out[m].listed /\ out[m] \in Output /\ scope.tags \in SUBSET Tag
  BY ScopesAssumption DEF CInv, View, Listed
<1>2. p \in Output /\ p.listed /\ out' = [out EXCEPT ![m] = p]
  BY <1>1 DEF View, Output
<1> HIDE DEF p
<1> QED BY <1>1, <1>2, OutputArranged DEF View

LEMMA SetlayoutAdvances ==
    ASSUME CInv, setlayout
    PROVE  Advances
<1> DEFINE p == [out[selmon] EXCEPT !.tiled = ~out[selmon].tiled]
<1>1. selmon \in Monitor
  BY ScopesAssumption DEF CInv, setlayout
<1>2. selmon \in Listed /\ out[selmon].listed /\ out[selmon] \in Output
  BY <1>1, NullAssumption DEF CInv, Listed
<1>3. p \in Output /\ p.listed /\ out' = [out EXCEPT ![selmon] = p]
  BY <1>2 DEF setlayout, Output
<1> HIDE DEF p
<1> QED BY <1>2, <1>3, OutputArranged DEF setlayout

LEMMA PowerAdvances ==
    ASSUME CInv, NEW m \in Monitor, PowerMgrSetMode(m)
    PROVE  Advances
<1> DEFINE p == [out[m] EXCEPT !.on = ~out[m].on]
<1>1. m \in Listed /\ out[m].listed /\ out[m] \in Output
  BY DEF CInv, PowerMgrSetMode, Listed
<1>2. p \in Output /\ p.listed /\ out' = [out EXCEPT ![m] = p]
  BY <1>1 DEF PowerMgrSetMode, Output
<1> HIDE DEF p
<1> QED BY <1>1, <1>2, OutputArranged DEF PowerMgrSetMode

\* Steps that lay windows out on outputs that stay as they are.
LEMMA KeepsAdvances ==
    ASSUME CInv, Keeps(win, win', out), UNCHANGED <<out, selmon, scope>>
    PROVE  Advances
<1>1. \A c \in Client : Lives(win[c], out)
  BY DEF CInv
<1>2. Passed(win, win', out, out')
  BY <1>1, KeepsPasses
<1>3. Listed' = Listed
  BY DEF Listed
<1> QED BY <1>2, <1>3, PassedAdvances DEF CInv

LEMMA RelayoutAdvances ==
    ASSUME CInv, NEW m \in Monitor, Relayout(m)
    PROVE  Advances
<1>1. Steady(win, LayOut(win, out, m), out)
  BY LayOutSteady DEF CInv
<1> QED BY <1>1, SteadyKeeps, KeepsAdvances DEF Relayout

LEMMA MotionAdvances ==
    ASSUME CInv, MotionNotify
    PROVE  Advances
<1>1. Steady(win, motionnotify(win, out), out)
  BY MotionSteady DEF CInv
<1> QED BY <1>1, SteadyKeeps, KeepsAdvances DEF MotionNotify

LEMMA SetFullscreenAdvances ==
    ASSUME CInv, NEW c \in Client, NEW fullscreen \in BOOLEAN, SetFullscreen(c, fullscreen)
    PROVE  Advances
<1> DEFINE V == setfullscreen(win, out, c, fullscreen)
<1>1. /\ V \in [Client -> Fits]
      /\ \A u \in Client \ {c} : Undisturbed(win[u], V[u], out[win[u].mon])
      /\ Kept(win[c], V[c], out[win[c].mon])
  BY SetfullscreenKept DEF CInv
<1> HIDE DEF V
<1>2. Keeps(win, V, out)
  BY <1>1 DEF Keeps, Undisturbed
<1> QED BY <1>2, KeepsAdvances DEF SetFullscreen, V

\* What a step does that changes one window and leaves the outputs alone.
LEMMA OneAdvances ==
    ASSUME CInv, NEW c \in Client, win' \in [Client -> Fits],
           \A u \in Client \ {c} : Kept(win[u], win'[u], out[win[u].mon]),
           Passes(win[c], win'[c], out, out), out' = out, selmon' \in Listed \cup {NoMon},
           scope' = scope
    PROVE  Advances
<1>1. \A u \in Client : Lives(win[u], out)
  BY DEF CInv
<1>2. Passed(win, win', out, out')
  BY <1>1, OnePasses
<1>3. Listed' = Listed
  BY DEF Listed
<1> QED BY <1>2, <1>3, PassedAdvances DEF CInv


(***************************************************************************)
(* togglecanvas.  A window that it takes out of the canvas itself is on    *)
(* none of the tags that stay in canvas mode.                              *)
(***************************************************************************)
LEMMA LeavingPoised ==
    ASSUME NEW w \in Fits, NEW p, w.tags \cap p.canvas_tags = {}
    PROVE  Poised(w, canvas_leave(w), p)
<1> DEFINE x == canvas_leave(w)
<1>1. /\ x \in Fits /\ x.mapped = w.mapped /\ x.mon = w.mon /\ x.tags = w.tags
      /\ x.grab = (IF w.grab = "CurMove" THEN "none" ELSE w.grab)
      /\ Outside(x) = Outside(w) /\ (Layered(w) => Layered(x))
  BY LeaveFields
<1> HIDE DEF x
<1>2. Poised(w, x, p)
  BY <1>1 DEF Poised, Recalls
<1> QED BY <1>2 DEF x

LEMMA TogglecanvasAdvances ==
    ASSUME CInv, togglecanvas
    PROVE  Advances
<1> DEFINE m        == selmon
           tags     == out[m].viewed
           disabled == out[m].canvas_tags \cap tags
           enabled  == tags \ out[m].canvas_tags
           canvas   == (out[m].canvas_tags \ disabled) \cup enabled
           O        == [out EXCEPT ![m].canvas_tags = canvas]
           p        == [out[m] EXCEPT !.canvas_tags = canvas]
           leaving  == {c \in On(win, m) : /\ win[c].tags \cap disabled # {}
                                           /\ win[c].tags \cap canvas = {}}
           left     == [c \in Client |-> IF c \in leaving THEN canvas_leave(win[c])
                                         ELSE win[c]]
           arranged == arrange(left, O, m)
<1>1. m \in Monitor /\ m \in Listed
  <2>1. m \in Monitor
    BY ScopesAssumption DEF CInv, togglecanvas
  <2> QED BY <2>1, NullAssumption DEF CInv
<1>2. out[m] \in Output /\ out[m].listed
  BY <1>1 DEF CInv, Listed
<1>3. canvas \in SUBSET Tag
  BY <1>2 DEF Output
<1>4. /\ out' = O
      /\ win' = IF enabled = {} THEN arranged ELSE LayOut(arranged, O, m)
      /\ UNCHANGED <<selmon, scope>>
  BY DEF togglecanvas
<1> HIDE DEF canvas, enabled
<1>5. p \in Output /\ p.listed /\ p.canvas_tags = canvas
  BY <1>2, <1>3 DEF Output
<1>6. O = [out EXCEPT ![m] = p]
  OBVIOUS
<1> HIDE DEF p, O
<1>7. /\ out' \in [Monitor -> Output] /\ out'[m] = p /\ Listed' = Listed
      /\ \A n \in Monitor \ {m} : out'[n] = out[n]
  BY <1>1, <1>4, <1>5, <1>6, OutputChanges
<1>8. ASSUME NEW c \in Client
      PROVE  /\ IF win[c].mon = m THEN Poised(win[c], left[c], p) ELSE left[c] = win[c]
             /\ left[c] \in Fits
  <2>1. win[c] \in Fits
    BY Living
  <2>2. CASE c \in leaving
    <3>1. left[c] = canvas_leave(win[c]) /\ win[c].mon = m /\ win[c].tags \cap canvas = {}
      BY <2>2 DEF On
    <3>2. Poised(win[c], canvas_leave(win[c]), p)
      BY <1>5, <2>1, <3>1, LeavingPoised
    <3> HIDE DEF left
    <3> QED BY <3>1, <3>2 DEF Poised
  <2>3. CASE c \notin leaving
    <3>1. left[c] = win[c]
      BY <2>3
    <3> HIDE DEF left
    <3> QED BY <2>1, <3>1, PoisedSame
  <2> QED BY <2>2, <2>3
<1>9. left \in [Client -> Fits]
  <2>1. left = [c \in Client |-> left[c]]
    OBVIOUS
  <2> HIDE DEF left
  <2> QED BY <1>8, <2>1
<1> HIDE DEF left, m
<1>10. Steady(left, arranged, out')
  BY <1>1, <1>4, <1>9, ArrangeSteady
<1>11. arranged \in [Client -> Fits]
  BY <1>10 DEF Steady
<1>12. Keeps(arranged, win', out')
  <2> HIDE DEF arranged
  <2>1. CASE enabled = {}
    BY <1>4, <1>11, <2>1, KeepsSame
  <2>2. CASE enabled # {}
    <3>1. win' = LayOut(arranged, out', m)
      BY <1>4, <2>2
    <3>2. Steady(arranged, LayOut(arranged, out', m), out')
      BY <1>1, <1>11, LayOutSteady
    <3> QED BY <3>1, <3>2, SteadyKeeps
  <2> QED BY <2>1, <2>2
<1>13. Passed(win, win', out, out')
  <2>1. Keeps(arrange(left, out', m), win', out')
    BY <1>4, <1>12
  <2>2. out'[m].listed /\ \A c \in Client : Lives(win[c], out)
    BY <1>5, <1>7 DEF CInv
  <2>3. \A c \in Client : IF win[c].mon = m THEN Poised(win[c], left[c], out'[m])
                          ELSE left[c] = win[c]
    BY <1>7, <1>8
  <2> QED BY <1>1, <1>7, <1>9, <2>1, <2>2, <2>3, ArrangePasses
<1> QED BY <1>4, <1>7, <1>13, PassedAdvances DEF CInv

LEMMA SettagsAdvances ==
    ASSUME CInv, NEW c \in Client, NEW newtags \in SUBSET scope.tags, settags(c, newtags)
    PROVE  Advances
<1> DEFINE w == win[c]
           m == win[c].mon
           u == canvas_leave(win[c])
           x == [u EXCEPT !.tags = newtags]
           X == [win EXCEPT ![c] = x]
<1>1. w \in Fits /\ w \in Window /\ m \in Monitor /\ m \in Listed /\ newtags # w.tags
  BY Living DEF settags, Visible
<1>2. newtags \in SUBSET Tag
  BY ScopesAssumption DEF CInv
<1>3. /\ u \in Fits /\ u.mapped = w.mapped /\ u.mon = m
      /\ u.grab = (IF w.grab = "CurMove" THEN "none" ELSE w.grab)
      /\ Outside(u) = Outside(w) /\ (Layered(w) => Layered(u))
  BY <1>1, LeaveFields
<1>4. X = [win EXCEPT ![c] = x] /\ X = [win EXCEPT ![c] = [canvas_leave(win[c]) EXCEPT !.tags = newtags]]
  OBVIOUS
<1> HIDE DEF u
<1>5. /\ x \in Window /\ x.tags = newtags
      /\ x.mapped = u.mapped /\ x.mon = u.mon /\ x.isfullscreen = u.isfullscreen
      /\ x.grab = u.grab /\ x.incanvas = u.incanvas /\ x.wasfloating = u.wasfloating
      /\ x.isfloating = u.isfloating /\ x.world = u.world
      /\ x.layer = u.layer /\ x.prev = u.prev /\ x.geom = u.geom
  BY <1>2, <1>3 DEF Window, Fits
<1> HIDE DEF x
<1>6. x \in Fits /\ Poised(w, x, out[m])
  <2>1. x \in Fits
    BY <1>3, <1>5 DEF Fits, Fit
  <2>2. Outside(x) = Outside(w) /\ (Layered(w) => Layered(x))
    BY <1>3, <1>5 DEF Outside, Layered
  <2> QED BY <1>1, <1>3, <1>5, <2>1, <2>2 DEF Poised, Recalls
<1>7. X \in [Client -> Fits] /\ X[c] = x /\ \A v \in Client \ {c} : X[v] = win[v]
  BY <1>4, <1>6 DEF CInv
<1>8. win' = arrange(X, out, m) /\ UNCHANGED <<out, selmon, scope>>
  BY <1>4 DEF settags
<1> HIDE DEF X
<1>9. \A v \in Client : IF win[v].mon = m THEN Poised(win[v], X[v], out[m]) ELSE X[v] = win[v]
  BY <1>6, <1>7, Living, PoisedSame
<1> HIDE DEF w, m
<1>10. Keeps(arrange(X, out, m), win', out)
  <2>1. win' \in [Client -> Fits]
    BY <1>1, <1>7, <1>8, ArrangeSteady DEF Steady
  <2> QED BY <1>8, <2>1, KeepsSame
<1>11. Passed(win, win', out, out)
  <2>1. out[m].listed /\ \A v \in Client : Lives(win[v], out)
    BY <1>1 DEF CInv, Listed
  <2> QED BY <1>1, <1>7, <1>9, <1>10, <2>1, ArrangePasses
<1>12. Listed' = Listed
  BY <1>8 DEF Listed
<1> QED BY <1>8, <1>11, <1>12, PassedAdvances DEF CInv


(***************************************************************************)
(* Commands for one window.                                                *)
(***************************************************************************)
LEMMA PlacedLayOut ==
    ASSUME NEW W \in [Client -> Fits], NEW O, NEW c \in Client, NEW m \in Monitor
    PROVE  LET V == LayOut([W EXCEPT ![c].world = "placed"], O, m)
           IN  /\ V \in [Client -> Fits]
               /\ \A u \in Client \ {c} : Kept(W[u], V[u], O[W[u].mon])
               /\ Changed(W[c], V[c], O[W[c].mon])
<1> DEFINE x == [W[c] EXCEPT !.world = "placed"]
           X == [W EXCEPT ![c].world = "placed"]
           V == LayOut(X, O, m)
<1>1. /\ Changed(W[c], x, O[W[c].mon]) /\ x \in Fits /\ x.mon = W[c].mon
  BY PlacedChanged DEF Changed, Sound
<1>2. X = [W EXCEPT ![c] = x]
  OBVIOUS
<1> HIDE DEF x
<1>3. X \in [Client -> Fits] /\ X[c] = x /\ \A u \in Client \ {c} : X[u] = W[u]
  BY <1>1, <1>2
<1> HIDE DEF X
<1>4. Steady(X, V, O)
  BY <1>3, LayOutSteady
<1> HIDE DEF V
<1>5. Changed(x, V[c], O[W[c].mon])
  BY <1>1, <1>3, <1>4 DEF Steady, Undisturbed, Kept
<1>6. Changed(W[c], V[c], O[W[c].mon])
  BY <1>1, <1>5, SoundTwice DEF Changed
<1>7. V \in [Client -> Fits] /\ \A u \in Client \ {c} : Kept(W[u], V[u], O[W[u].mon])
  BY <1>3, <1>4 DEF Steady, Undisturbed
<1> QED BY <1>6, <1>7 DEF V, X

LEMMA MovecenterAdvances ==
    ASSUME CInv, NEW c \in Client, movecenter(c)
    PROVE  Advances
<1>1. /\ win \in [Client -> Fits] /\ win[c] \in Fits /\ selmon = win[c].mon
      /\ selmon \in Monitor /\ c \in Visible
  BY Living DEF CInv, movecenter, OnSelmon, Visible
<1>2. CASE c \in Active
  <2> DEFINE V == LayOut([win EXCEPT ![c].world = "placed"], out, selmon)
  <2>1. /\ V \in [Client -> Fits]
        /\ \A u \in Client \ {c} : Kept(win[u], V[u], out[win[u].mon])
        /\ Changed(win[c], V[c], out[win[c].mon])
    BY <1>1, PlacedLayOut
  <2>2. win' = V /\ UNCHANGED <<out, selmon, scope>>
    BY <1>2 DEF movecenter
  <2> HIDE DEF V
  <2>3. Recalls(win[c], V[c], out[win[c].mon])
    BY <1>2 DEF Active, canvas_active, Recalls
  <2>4. Passes(win[c], V[c], out, out)
    BY <2>1, <2>3, Living, ChangedPasses
  <2> QED BY <2>1, <2>2, <2>4, OneAdvances DEF CInv
<1>3. CASE c \notin Active
  <2> DEFINE x == [win[c] EXCEPT !.geom = "screen"]
             V == [win EXCEPT ![c] = x]
  <2>1. win' = V /\ UNCHANGED <<out, selmon, scope>>
    BY <1>3 DEF movecenter
  <2>2. ~canvas_active(win[c], out[win[c].mon])
    BY <1>1, <1>3 DEF Active
  <2>3. Undisturbed(win[c], x, out[win[c].mon]) /\ x.grab = win[c].grab
    BY <1>1, <2>2, ScreenedUndisturbed
  <2> HIDE DEF x
  <2>4. Steady(win, V, out)
    BY <1>1, <2>3, OneSteady
  <2> QED BY <2>1, <2>4, SteadyKeeps, KeepsAdvances
<1> QED BY <1>2, <1>3

LEMMA TogglefloatingAdvances ==
    ASSUME CInv, NEW c \in Client, togglefloating(c)
    PROVE  Advances
<1> DEFINE floating == ~win[c].isfloating
           V == setfloating(win, out, c, floating)
<1>1. /\ win \in [Client -> Fits] /\ win[c].mon # NoMon /\ floating \in BOOLEAN
  BY DEF CInv, togglefloating, OnSelmon, Visible
<1> HIDE DEF floating
<1>2. /\ V \in [Client -> Fits]
      /\ \A u \in Client \ {c} : Undisturbed(win[u], V[u], out[win[u].mon])
      /\ Floated(win[c], V[c], out[win[c].mon], floating)
  BY <1>1, SetfloatingFloats
<1>3. win' = V /\ UNCHANGED <<out, selmon, scope>>
  BY DEF togglefloating, floating
<1> HIDE DEF V
<1>4. Passes(win[c], V[c], out, out)
  BY <1>1, <1>2, Living, FloatedPasses
<1> QED BY <1>2, <1>3, <1>4, OneAdvances DEF CInv, Undisturbed

\* A window that moves to another output that is listed, or to none.
LEMMA SetmonPasses ==
    ASSUME CInv, NEW c \in Client, NEW m \in Listed \cup {NoMon},
           NEW newtags \in SUBSET Tag, win[c].mapped, win[c].mon # m
    PROVE  LET V == setmon(win, out, c, m, newtags)
           IN  /\ V \in [Client -> Fits]
               /\ \A u \in Client \ {c} : Kept(win[u], V[u], out[win[u].mon])
               /\ Passes(win[c], V[c], out, out)
<1> DEFINE V == setmon(win, out, c, m, newtags)
<1>1. /\ win \in [Client -> Fits] /\ out \in [Monitor -> Output] /\ m \in SomeMon
      /\ m # NoMon => out[m].listed
  BY DEF CInv, SomeMon, Listed
<1>2. /\ V \in [Client -> Fits]
      /\ \A u \in Client \ {c} : Undisturbed(win[u], V[u], out[win[u].mon])
      /\ Moved(win[c], V[c], out, m)
  BY <1>1, SetmonMoves
<1> HIDE DEF V
<1>3. Passes(win[c], V[c], out, out)
  BY <1>1, <1>2, Living, MovedPasses
<1> QED BY <1>2, <1>3 DEF V, Undisturbed

LEMMA TagmonAdvances ==
    ASSUME CInv, NEW c \in Client, NEW m \in Monitor, tagmon(c, m)
    PROVE  Advances
<1>1. m \in Listed \cup {NoMon} /\ win[c].mapped /\ win[c].mon # m
  BY DEF tagmon, OnSelmon, Visible, Mapped
<1>2. win' = setmon(win, out, c, m, {}) /\ UNCHANGED <<out, selmon, scope>>
  BY DEF tagmon
<1> QED BY <1>1, <1>2, SetmonPasses, OneAdvances DEF CInv


(***************************************************************************)
(* Pointer grabs, which begin and end.                                     *)
(***************************************************************************)
LEMMA GrabFields ==
    ASSUME NEW w \in Fits, NEW grab \in Grabs, grab # "none" => w.mapped
    PROVE  LET x == [w EXCEPT !.grab = grab]
           IN  /\ x \in Fits /\ x.grab = grab
               /\ x.mapped = w.mapped /\ x.mon = w.mon /\ x.tags = w.tags
               /\ x.isfullscreen = w.isfullscreen /\ x.incanvas = w.incanvas
               /\ x.world = w.world /\ Outside(x) = Outside(w)
               /\ \A o : /\ Entered(x, o) <=> Entered(w, o)
                         /\ Misplaced(x, o) <=> Misplaced(w, o)
                         /\ Mislaid(x, o) <=> Mislaid(w, o)
<1> DEFINE x == [w EXCEPT !.grab = grab]
<1>1. w \in Window
  BY DEF Fits
<1>2. /\ x \in Window /\ x.grab = grab
      /\ x.mapped = w.mapped /\ x.mon = w.mon /\ x.tags = w.tags
      /\ x.isfullscreen = w.isfullscreen /\ x.incanvas = w.incanvas
      /\ x.wasfloating = w.wasfloating /\ x.isfloating = w.isfloating /\ x.world = w.world
      /\ x.layer = w.layer /\ x.prev = w.prev /\ x.geom = w.geom
  BY <1>1 DEF Window
<1> HIDE DEF x
<1>3. x \in Fits
  BY <1>2 DEF Fits, Fit
<1>4. ASSUME NEW o
      PROVE  /\ Entered(x, o) <=> Entered(w, o)
             /\ Misplaced(x, o) <=> Misplaced(w, o)
             /\ Mislaid(x, o) <=> Mislaid(w, o)
  <2>1. /\ canvas_active(x, o) <=> canvas_active(w, o)
        /\ VISIBLEON(x, o) <=> VISIBLEON(w, o)
    BY <1>2 DEF canvas_active, VISIBLEON
  <2>2. Misplaced(x, o) <=> Misplaced(w, o)
    BY <1>1, <1>2, <2>1, MisplacedIff
  <2> QED BY <1>2, <2>1, <2>2 DEF Entered, Mislaid, Layered
<1>5. Outside(x) = Outside(w)
  BY <1>2 DEF Outside
<1> QED BY <1>2, <1>3, <1>4, <1>5 DEF x

LEMMA DropAdvances ==
    ASSUME CInv, NEW c \in Client, Drop(c)
    PROVE  Advances
<1> DEFINE w == win[c]
           x == [w EXCEPT !.grab = "none"]
           W == [win EXCEPT ![c] = x]
           V == setmon(W, out, c, selmon', {})
<1>1. /\ w \in Fits /\ w.grab = "CurMove" /\ w.mapped
      /\ win' = V /\ out' = out /\ scope' = scope /\ selmon' \in Listed \cup {NoMon}
  <2>1. w \in Fits
    BY Living
  <2>2. /\ w.grab = "CurMove" /\ win' = V
        /\ selmon' \in IF Listed = {} THEN {NoMon} ELSE Listed
        /\ out' = out /\ scope' = scope
    BY DEF Drop
  <2> QED BY <2>1, <2>2 DEF Fits, Fit
<1>2. /\ x \in Fits /\ x.grab = "none"
      /\ x.mapped = w.mapped /\ x.mon = w.mon /\ x.tags = w.tags
      /\ x.isfullscreen = w.isfullscreen /\ x.incanvas = w.incanvas
      /\ x.world = w.world /\ Outside(x) = Outside(w)
      /\ \A o : /\ Entered(x, o) <=> Entered(w, o)
                /\ Misplaced(x, o) <=> Misplaced(w, o)
                /\ Mislaid(x, o) <=> Mislaid(w, o)
  <2> HIDE DEF w
  <2> QED BY <1>1, GrabFields DEF Grabs
<1> HIDE DEF x
<1>3. W \in [Client -> Fits] /\ W[c] = x /\ \A u \in Client \ {c} : W[u] = win[u]
  BY <1>2 DEF CInv
<1> HIDE DEF W
<1>4. CASE w.mon = selmon'
  <2>1. V = W
    BY <1>2, <1>3, <1>4 DEF setmon
  <2>2. Kept(w, x, out[w.mon])
    BY <1>1, <1>2 DEF Kept, Changed, Sound, Spot
  <2>3. Keeps(win, W, out)
    <3>1. \A u \in Client \ {c} : Kept(win[u], W[u], out[win[u].mon])
      BY <1>3, Living, ChangedSame DEF Undisturbed
    <3> QED BY <1>3, <2>2, <3>1 DEF Keeps
  <2>4. Passes(w, x, out, out)
    BY <2>2, Living, KeptPasses
  <2> HIDE DEF V
  <2> QED BY <1>1, <1>3, <2>1, <2>3, <2>4, OneAdvances DEF Keeps
<1>5. CASE w.mon # selmon'
  <2>1. /\ selmon' \in SomeMon /\ out \in [Monitor -> Output] /\ {} \in SUBSET Tag
        /\ selmon' # NoMon => out[selmon'].listed
    BY <1>1 DEF CInv, SomeMon, Listed
  <2>2. /\ V \in [Client -> Fits]
        /\ \A u \in Client \ {c} : Undisturbed(W[u], V[u], out[W[u].mon])
        /\ Moved(x, V[c], out, selmon')
    BY <1>1, <1>2, <1>3, <1>5, <2>1, SetmonMoves
  <2> HIDE DEF V
  <2>3. Moved(w, V[c], out, selmon')
    BY <1>1, <1>2, <2>2 DEF Moved
  <2>4. Passes(w, V[c], out, out)
    BY <1>1, <1>5, <2>1, <2>3, MovedPasses
  <2>5. \A u \in Client \ {c} : Kept(win[u], V[u], out[win[u].mon])
    BY <1>3, <2>2 DEF Undisturbed
  <2> QED BY <1>1, <2>2, <2>4, <2>5, OneAdvances
<1> QED BY <1>4, <1>5

LEMMA DropTileAdvances ==
    ASSUME CInv, NEW c \in Client, DropTile(c)
    PROVE  Advances
<1> DEFINE w == win[c]
<1>1. w \in Fits /\ w \in Window /\ w.grab = "CurTileDrag" /\ w.mapped
  BY Living DEF DropTile, Fits, Fit
<1>2. PICK place \in {w.geom} \cup (IF w.mon = NoMon THEN {} ELSE {"screen"}) :
        win' = [win EXCEPT ![c] = [@ EXCEPT !.grab = "none", !.layer = "LyrTile",
                                            !.geom = place]]
  BY Zenon DEF DropTile
<1> DEFINE v == [w EXCEPT !.grab = "none", !.layer = "LyrTile", !.geom = place]
<1>3. win' = [win EXCEPT ![c] = v] /\ UNCHANGED <<out, selmon, scope>>
  BY <1>2 DEF DropTile
<1>4. place \in Coordinates /\ (place = w.geom \/ place = "screen")
  BY <1>1, <1>2 DEF Window, Coordinates
<1>5. /\ v \in Window /\ v.grab = "none"
      /\ v.mapped = w.mapped /\ v.mon = w.mon /\ v.tags = w.tags
      /\ v.isfullscreen = w.isfullscreen /\ v.incanvas = w.incanvas
      /\ v.wasfloating = w.wasfloating /\ v.isfloating = w.isfloating /\ v.world = w.world
      /\ v.prev = w.prev /\ v.geom = place
  BY <1>1, <1>4 DEF Window, Grabs, Layers
<1> HIDE DEF v
<1>6. v \in Fits
  BY <1>1, <1>4, <1>5 DEF Fits, Fit
<1>7. Lives(v, out)
  BY <1>5, <1>6, Living DEF Lives, Entered, canvas_active
<1>8. Outside(v) = Outside(w) /\ Recalls(w, v, out[w.mon])
  BY <1>5 DEF Outside, Recalls
<1>9. Passes(w, v, out, out)
  BY <1>1, <1>5, <1>7, <1>8 DEF Passes, Legal
<1>10. /\ win' \in [Client -> Fits] /\ win'[c] = v
       /\ \A u \in Client \ {c} : win'[u] = win[u]
  BY <1>3, <1>6 DEF CInv
<1>11. \A u \in Client \ {c} : Kept(win[u], win'[u], out[win[u].mon])
  BY <1>10, Living, ChangedSame DEF Undisturbed
<1> QED BY <1>3, <1>9, <1>10, <1>11, OneAdvances DEF CInv

LEMMA MoveresizeAdvances ==
    ASSUME CInv, NEW c \in Client, moveresize(c)
    PROVE  Advances
<1> DEFINE w == win[c]
           o == out[win[c].mon]
<1>1. /\ w \in Fits /\ w \in Window /\ w.mapped /\ w.mon \in Monitor /\ w.mon # NoMon
      /\ ~w.isfullscreen /\ grabc = {} /\ c \in Visible
      /\ Lives(w, out) /\ Entered(w, o) /\ o.listed
      /\ UNCHANGED <<out, selmon, scope>>
  BY Living, NullAssumption DEF moveresize, Visible, Lives
<1>2. \A u \in Client : win[u].grab = "none"
  BY <1>1 DEF grabc
<1>3. SUFFICES ASSUME NEW v,
                      win' \in [Client -> Fits], win'[c] = v, v.mon = w.mon,
                      \A u \in Client \ {c} : Kept(win[u], win'[u], out[win[u].mon]),
                      Lives(v, out), Legal(w, v, out, out)
               PROVE  Advances
  <2>1. CASE MoveOrResize(c)
    <3> DEFINE V == setfloating(win, out, c, TRUE)
               x == V[c]
               v == [x EXCEPT !.grab = "CurMove"]
    <3>1. /\ V \in [Client -> Fits]
          /\ \A u \in Client \ {c} : Undisturbed(win[u], V[u], out[win[u].mon])
          /\ Floated(win[c], V[c], out[win[c].mon], TRUE)
      BY <1>1, SetfloatingFloats DEF CInv
    <3>2. win' = [V EXCEPT ![c] = v]
      BY <2>1 DEF MoveOrResize
    <3>3. Passes(w, x, out, out) /\ x \in Fits /\ x.mapped
      <4>1. x \in Fits /\ x.mapped
        BY <1>1, <3>1 DEF Floated, Sound
      <4>2. Floated(w, x, out[w.mon], TRUE)
        BY <3>1
      <4> HIDE DEF x, w
      <4>3. Passes(w, x, out, out)
        BY <1>1, <4>2, FloatedPasses
      <4> QED BY <4>1, <4>3
    <3> HIDE DEF V, x
    <3>4. /\ v \in Fits
          /\ v.mapped = x.mapped /\ v.mon = x.mon /\ v.tags = x.tags
          /\ v.isfullscreen = x.isfullscreen /\ v.incanvas = x.incanvas
          /\ v.world = x.world /\ Outside(v) = Outside(x)
          /\ \A p : /\ Entered(v, p) <=> Entered(x, p)
                    /\ Misplaced(v, p) <=> Misplaced(x, p)
                    /\ Mislaid(v, p) <=> Mislaid(x, p)
      BY <3>3, GrabFields DEF Grabs
    <3> HIDE DEF v
    <3>5. Lives(v, out) /\ Legal(w, v, out, out)
      BY <3>3, <3>4 DEF Passes, Lives, Legal, Recalls
    <3>6. /\ win' \in [Client -> Fits] /\ win'[c] = v
          /\ \A u \in Client \ {c} : Kept(win[u], win'[u], out[win[u].mon])
      BY <3>1, <3>2, <3>4 DEF Undisturbed
    <3>7. v.mon = w.mon
      BY <3>1, <3>4 DEF x, Floated, Sound
    <3> QED BY <1>3, <3>5, <3>6, <3>7
  <2>2. CASE /\ c \notin Active /\ ~win[c].isfloating
             /\ win' = [win EXCEPT ![c] = [@ EXCEPT !.grab = "CurTileDrag",
                                                    !.layer = "LyrFloat", !.geom = "screen"]]
    <3> DEFINE v == [w EXCEPT !.grab = "CurTileDrag", !.layer = "LyrFloat",
                              !.geom = "screen"]
    <3>1. win' = [win EXCEPT ![c] = v]
      BY <2>2
    <3>2. /\ v \in Window
          /\ v.mapped = w.mapped /\ v.mon = w.mon /\ v.tags = w.tags
          /\ v.isfullscreen = w.isfullscreen /\ v.incanvas = w.incanvas
          /\ v.wasfloating = w.wasfloating /\ v.isfloating = w.isfloating
          /\ v.world = w.world /\ v.prev = w.prev
          /\ v.geom = "screen" /\ v.layer = "LyrFloat"
      BY <1>1 DEF Window, Grabs, Layers, Coordinates
    <3> HIDE DEF v
    <3>3. v \in Fits
      BY <1>1, <3>2 DEF Fits, Fit
    <3>4. ~canvas_active(w, o) /\ ~canvas_active(v, o)
      BY <1>1, <2>2, <3>2 DEF Active, canvas_active
    <3>5. Lives(v, out) /\ ~Mislaid(v, o)
      <4>1. Lives(v, out)
        BY <1>1, <3>2, <3>3, <3>4 DEF Lives, Entered
      <4>2. v.isfullscreen = FALSE
        BY <1>1, <3>2 DEF Window
      <4>3. Layered(v) /\ v.layer # "LyrTile"
        BY <3>2, <4>2 DEF Layered
      <4> QED BY <4>1, <4>3 DEF Mislaid
    <3>6. Misplaced(v, o) => Misplaced(w, o)
      BY <1>1, <3>2, <3>4, MisplacedIff DEF VISIBLEON
    <3>7. Legal(w, v, out, out)
      BY <1>1, <3>2, <3>5, <3>6 DEF Legal, Recalls, Outside
    <3>8. /\ win' \in [Client -> Fits] /\ win'[c] = v
          /\ \A u \in Client \ {c} : win'[u] = win[u]
      BY <3>1, <3>3 DEF CInv
    <3>9. \A u \in Client \ {c} : Kept(win[u], win'[u], out[win[u].mon])
      BY <3>8, Living, ChangedSame DEF Undisturbed
    <3> QED BY <1>3, <3>2, <3>5, <3>7, <3>8, <3>9
  <2> QED BY <2>1, <2>2 DEF moveresize
<1>4. \A u \in Client \ {c} : Passes(win[u], win'[u], out, out)
  BY <1>3, Living, KeptPasses
<1>5. \A d, e \in grabc' : d = e
  BY <1>2, <1>4 DEF grabc, Passes
<1>6. \A u \in Client : Lives(win'[u], out') /\ Legal(win[u], win'[u], out, out')
  BY <1>1, <1>3, <1>4 DEF Passes
<1> QED BY <1>1, <1>3, <1>5, <1>6 DEF Advances, CInv, Listed


(***************************************************************************)
(* Windows come and go.                                                    *)
(***************************************************************************)
LEMMA UnmapAdvances ==
    ASSUME CInv, NEW c \in Client, UnmapNotify(c)
    PROVE  Advances
<1> DEFINE w == win[c]
           x == [w EXCEPT !.grab = "none"]
           W == [win EXCEPT ![c].grab = "none"]
           V == setmon(W, out, c, NoMon, {})
           v == [V[c] EXCEPT !.mapped = FALSE]
<1>1. /\ w \in Fits /\ w.mapped
      /\ win' = [V EXCEPT ![c].mapped = FALSE] /\ UNCHANGED <<out, selmon, scope>>
  BY Living DEF UnmapNotify, Mapped
<1>2. x \in Fits /\ x.grab = "none" /\ x.mapped = w.mapped /\ x.mon = w.mon
  <2> HIDE DEF w
  <2> QED BY <1>1, GrabFields DEF Grabs
<1>3. W = [win EXCEPT ![c] = x]
  OBVIOUS
<1> HIDE DEF x
<1>4. W \in [Client -> Fits] /\ W[c] = x /\ \A u \in Client \ {c} : W[u] = win[u]
  BY <1>2, <1>3 DEF CInv
<1> HIDE DEF W
<1>5. /\ V \in [Client -> Fits] /\ V[c].mon = NoMon /\ V[c].grab = "none"
      /\ \A u \in Client \ {c} : Kept(win[u], V[u], out[win[u].mon])
  <2>1. CASE W[c].mon = NoMon
    <3>1. V = W
      BY <2>1 DEF setmon
    <3> HIDE DEF V
    <3> QED BY <1>2, <1>4, <2>1, <3>1, Living, ChangedSame DEF Undisturbed
  <2>2. CASE W[c].mon # NoMon
    <3>1. /\ out \in [Monitor -> Output] /\ {} \in SUBSET Tag /\ NoMon \in SomeMon
      BY DEF CInv, SomeMon
    <3>2. /\ V \in [Client -> Fits]
          /\ \A u \in Client \ {c} : Undisturbed(W[u], V[u], out[W[u].mon])
          /\ Moved(x, V[c], out, NoMon)
      BY <1>1, <1>2, <1>4, <2>2, <3>1, SetmonMoves
    <3> HIDE DEF V
    <3> QED BY <1>2, <1>4, <3>2 DEF Moved, Undisturbed
  <2> QED BY <2>1, <2>2
<1>6. win' = [V EXCEPT ![c] = v]
  BY <1>1
<1> HIDE DEF V
<1>7. /\ v \in Window /\ v.mapped = FALSE
      /\ v.mon = NoMon /\ v.grab = "none" /\ ~v.incanvas
  <2>1. V[c] \in Fits
    BY <1>5
  <2> QED BY <1>5, <2>1 DEF Fits, Fit, Window
<1> HIDE DEF v
<1>8. v \in Fits
  BY <1>7 DEF Fits, Fit
<1>9. /\ win' \in [Client -> Fits] /\ win'[c] = v
      /\ \A u \in Client \ {c} : Kept(win[u], win'[u], out[win[u].mon])
  BY <1>5, <1>6, <1>8
<1>10. Passes(w, v, out, out)
  BY <1>1, <1>7, <1>8 DEF Passes, Lives, Legal, Recalls, Fits, Fit
<1> QED BY <1>1, <1>9, <1>10, OneAdvances DEF CInv

\* mapnotify: what the window is before it gets an output.
LEMMA NewFits ==
    ASSUME NEW w \in Fits, NEW floating \in BOOLEAN, ~w.mapped
    PROVE  LET x == [w EXCEPT !.mapped = TRUE, !.isfloating = floating,
                              !.geom = "screen", !.layer = "LyrTile"]
           IN  x \in Fits /\ x.mapped /\ x.mon = NoMon /\ x.grab = "none"
<1> DEFINE x == [w EXCEPT !.mapped = TRUE, !.isfloating = floating,
                          !.geom = "screen", !.layer = "LyrTile"]
<1>1. w \in Window
  BY DEF Fits
<1>2. /\ x \in Window /\ x.mapped = TRUE /\ x.mon = w.mon
      /\ x.grab = w.grab /\ x.incanvas = w.incanvas
  BY <1>1 DEF Window, Coordinates, Layers
<1> HIDE DEF x
<1>3. w.mon = NoMon /\ w.grab = "none" /\ ~w.incanvas
  BY <1>1 DEF Fits, Fit
<1>4. x \in Fits
  BY <1>2, <1>3 DEF Fits, Fit
<1> QED BY <1>2, <1>3, <1>4 DEF x

LEMMA PlaceAtPointerKeeps ==
    ASSUME NEW W \in [Client -> Fits], NEW c \in Client, NEW m \in SomeMon
    PROVE  LET V == PlaceAtPointer(W, c, m)
           IN  /\ V \in [Client -> Fits]
               /\ \A u \in Client \ {c} : Kept(W[u], V[u], out[W[u].mon])
               /\ Changed(W[c], V[c], out[W[c].mon])
<1> DEFINE V == PlaceAtPointer(W, c, m)
<1>1. CASE V = W
  <2>1. \A u \in Client : Kept(W[u], W[u], out[W[u].mon])
    BY ChangedSame DEF Undisturbed
  <2> QED BY <1>1, <2>1 DEF Kept
<1>2. CASE m # NoMon /\ V = LayOut([W EXCEPT ![c].world = "placed"], out, m)
  <2> DEFINE L == LayOut([W EXCEPT ![c].world = "placed"], out, m)
  <2>1. m \in Monitor
    BY <1>2 DEF SomeMon
  <2>2. /\ L \in [Client -> Fits]
        /\ \A u \in Client \ {c} : Kept(W[u], L[u], out[W[u].mon])
        /\ Changed(W[c], L[c], out[W[c].mon])
    BY <2>1, PlacedLayOut
  <2>3. V = L
    BY <1>2
  <2> HIDE DEF L, V
  <2> QED BY <2>2, <2>3 DEF V
<1> QED BY <1>1, <1>2 DEF PlaceAtPointer

LEMMA MapAdvances ==
    ASSUME CInv, NEW c \in Client, MapNotify(c)
    PROVE  Advances
<1>1. PICK m \in Listed \cup {selmon}, newtags \in SUBSET scope.tags, floating \in BOOLEAN :
        LET new    == [win EXCEPT ![c] = [@ EXCEPT !.mapped = TRUE, !.isfloating = floating,
                                                   !.geom = "screen", !.layer = "LyrTile"]]
            moved  == setmon(new, out, c, m, newtags)
            placed == PlaceAtPointer(moved, c, m)
        IN  win' = UnsetFullscreen(placed, c)
  BY Zenon DEF MapNotify
<1> DEFINE w == win[c]
           x == [w EXCEPT !.mapped = TRUE, !.isfloating = floating,
                          !.geom = "screen", !.layer = "LyrTile"]
           W == [win EXCEPT ![c] = x]
           X == setmon(W, out, c, m, newtags)
           Y == PlaceAtPointer(X, c, m)
<1>2. win' = UnsetFullscreen(Y, c)
  BY <1>1
<1>3. w \in Fits /\ ~w.mapped /\ UNCHANGED <<out, selmon, scope>>
  BY Living DEF MapNotify, Mapped
<1>4. /\ m \in Listed \cup {NoMon} /\ m \in SomeMon /\ newtags \in SUBSET Tag
      /\ m # NoMon => out[m].listed
  BY ScopesAssumption DEF CInv, Listed, SomeMon
<1>5. x \in Fits /\ x.mapped /\ x.mon = NoMon /\ x.grab = "none"
  <2> HIDE DEF w
  <2> QED BY <1>3, NewFits, Zenon
<1> HIDE DEF x
<1>6. W \in [Client -> Fits] /\ W[c] = x /\ \A u \in Client \ {c} : W[u] = win[u]
  BY <1>5 DEF CInv
<1> HIDE DEF W
<1>7. /\ X \in [Client -> Fits]
      /\ \A u \in Client \ {c} : Kept(win[u], X[u], out[win[u].mon])
      /\ Moved(x, X[c], out, m)
  <2>1. CASE m = NoMon
    <3>1. X = W
      BY <1>5, <1>6, <2>1 DEF setmon
    <3> HIDE DEF X
    <3>2. Moved(x, x, out, m)
      BY <1>5, <2>1 DEF Moved
    <3> QED BY <1>6, <3>1, <3>2, Living, ChangedSame DEF Undisturbed
  <2>2. CASE m # NoMon
    <3>1. W[c].mapped /\ W[c].mon # m /\ out \in [Monitor -> Output]
      BY <1>5, <1>6, <2>2 DEF CInv
    <3>2. /\ X \in [Client -> Fits]
          /\ \A u \in Client \ {c} : Undisturbed(W[u], X[u], out[W[u].mon])
          /\ Moved(W[c], X[c], out, m)
      BY <1>4, <1>6, <3>1, SetmonMoves
    <3> HIDE DEF X
    <3> QED BY <1>6, <3>2 DEF Undisturbed
  <2> QED BY <2>1, <2>2
<1> HIDE DEF X
<1>8. /\ Y \in [Client -> Fits]
      /\ \A u \in Client \ {c} : Kept(X[u], Y[u], out[X[u].mon])
      /\ Changed(X[c], Y[c], out[X[c].mon])
  BY <1>4, <1>7, PlaceAtPointerKeeps
<1> HIDE DEF Y
<1>9. Keeps(Y, win', out)
  BY <1>2, <1>8, UnsetFullscreenKeeps
<1>10. ASSUME NEW u \in Client \ {c} PROVE Kept(win[u], win'[u], out[win[u].mon])
  <2>1. Kept(win[u], X[u], out[win[u].mon]) /\ X[u].mon = win[u].mon
    BY <1>7 DEF Kept, Changed, Sound
  <2>2. Kept(X[u], Y[u], out[win[u].mon]) /\ Y[u].mon = win[u].mon
    BY <1>8, <2>1 DEF Kept, Changed, Sound
  <2>3. Kept(Y[u], win'[u], out[win[u].mon])
    BY <1>9, <2>2 DEF Keeps
  <2> QED BY <2>1, <2>2, <2>3, KeptTwice
<1>11. Moved(x, win'[c], out, m)
  <2>1. X[c].mon = m
    BY <1>7 DEF Moved
  <2>2. Changed(X[c], Y[c], out[m]) /\ Y[c].mon = m
    BY <1>8, <2>1 DEF Changed, Sound
  <2>3. Changed(Y[c], win'[c], out[m])
    BY <1>9, <2>2 DEF Keeps, Kept
  <2> QED BY <1>7, <2>2, <2>3, MovedStays
<1>12. Passes(win[c], win'[c], out, out)
  <2> DEFINE v == win'[c]
  <2>1. v \in Fits /\ v.mon = m /\ v.grab = "none" /\ (m # NoMon => Settled(v, out[m]))
    BY <1>5, <1>11 DEF Moved
  <2> HIDE DEF v
  <2>2. Lives(v, out)
    BY <1>4, <2>1 DEF Lives, Settled, Seated
  <2>3. ~w.incanvas
    BY <1>3 DEF Fits, Fit
  <2>4. v.mon # NoMon => ~Misplaced(v, out[v.mon]) /\ ~Mislaid(v, out[v.mon])
    BY <2>1 DEF Settled, Seated
  <2>5. Passes(w, v, out, out)
    BY <1>3, <2>1, <2>2, <2>3, <2>4 DEF Passes, Legal, Recalls
  <2> QED BY <2>5 DEF v
<1>13. win' \in [Client -> Fits] /\ selmon' \in Listed \cup {NoMon}
  BY <1>3, <1>9 DEF Keeps, CInv
<1> QED BY <1>3, <1>10, <1>12, <1>13, OneAdvances


(***************************************************************************)
(* Outputs come and go, and the selection moves.                           *)
(***************************************************************************)
LEMMA MoveAllPasses ==
    ASSUME NEW W \in [Client -> Fits], NEW O, NEW P \in [Monitor -> Output],
           NEW from \in SomeMon, NEW to \in SomeMon, from # to, to # NoMon => P[to].listed,
           \A c \in Client : Lives(W[c], O),
           \A c \in Client : W[c].mon \notin {from, NoMon} => P[W[c].mon] = O[W[c].mon]
    PROVE  Passed(W, MoveAll(W, P, from, to), O, P)
<1> DEFINE V == MoveAll(W, P, from, to)
<1>1. /\ V \in [Client -> Fits]
      /\ \A u \in Client : IF u \in On(W, from) THEN Moved(W[u], V[u], P, to)
                           ELSE Kept(W[u], V[u], P[W[u].mon])
  BY MoveAllMoves
<1> HIDE DEF V
<1>2. ASSUME NEW u \in Client PROVE Passes(W[u], V[u], O, P)
  <2>1. CASE u \in On(W, from)
    <3>1. Moved(W[u], V[u], P, to) /\ W[u].mon = from /\ W[u] \in Fits
      BY <1>1, <2>1 DEF On
    <3> QED BY <3>1, MovedPasses
  <2>2. CASE u \notin On(W, from)
    <3>1. Kept(W[u], V[u], P[W[u].mon]) /\ Lives(W[u], O)
      BY <1>1, <2>2
    <3>2. W[u].mon # NoMon => W[u].mon # from
      BY <2>2 DEF On, Fits, Fit
    <3>3. W[u].mon # NoMon => P[W[u].mon] = O[W[u].mon]
      BY <3>2
    <3> QED BY <3>1, <3>3, KeptPasses
  <2> QED BY <2>1, <2>2
<1> QED BY <1>1, <1>2 DEF Passed, V

LEMMA CreateAdvances ==
    ASSUME CInv, NEW m \in Monitor, CreateMon(m)
    PROVE  Advances
<1>1. /\ m \notin Listed /\ out' = [out EXCEPT ![m] = Plugged]
      /\ selmon' = (IF selmon = NoMon THEN m ELSE selmon) /\ scope' = scope
  BY DEF CreateMon
<1>2. Plugged \in Output
  BY TagAssumption DEF Plugged, Output, Tag
<1>3. /\ out' \in [Monitor -> Output] /\ out'[m].listed
      /\ \A n \in Monitor \ {m} : out'[n] = out[n]
  BY <1>1, <1>2 DEF CInv, Plugged
<1>4. selmon' \in Listed' /\ selmon' \in Monitor /\ selmon' # NoMon /\ out'[selmon'].listed
  BY <1>1, <1>3, NullAssumption DEF CInv, Listed
<1>5. /\ win \in [Client -> Fits] /\ \A c \in Client : Lives(win[c], out)
  BY DEF CInv
<1>6. \A c \in Client : win[c].mon # NoMon => out'[win[c].mon] = out[win[c].mon]
  BY <1>1, <1>3, Living
<1>7. Passed(win, win', out, out')
  <2>1. CASE win' = MoveAll(win, out', NoMon, selmon')
    <3>1. NoMon \in SomeMon /\ selmon' \in SomeMon
      BY <1>4 DEF SomeMon
    <3> QED BY <1>3, <1>4, <1>5, <1>6, <2>1, <3>1, MoveAllPasses
  <2>2. CASE win' = win
    <3>1. \A c \in Client : Kept(win[c], win'[c], out'[win[c].mon])
      BY <1>5, <2>2, ChangedSame DEF Undisturbed
    <3> QED BY <1>5, <1>6, <2>2, <3>1, KeptPasses DEF Passed
  <2> QED BY <2>1, <2>2 DEF CreateMon
<1> QED BY <1>1, <1>3, <1>4, <1>7, PassedAdvances

LEMMA CleanupAdvances ==
    ASSUME CInv, NEW m \in Monitor, CleanupMon(m)
    PROVE  Advances
<1> DEFINE p == [Plugged EXCEPT !.listed = FALSE, !.on = FALSE]
<1>1. /\ m \in Listed /\ out' = [out EXCEPT ![m] = p] /\ scope' = scope
      /\ win' = MoveAll(win, out', m, selmon')
  BY DEF CleanupMon
<1>2. p \in Output /\ ~p.listed
  <2>1. Plugged \in Output
    BY TagAssumption DEF Plugged, Output, Tag
  <2> QED BY <2>1 DEF Output
<1> HIDE DEF p
<1>3. /\ out' \in [Monitor -> Output] /\ ~out'[m].listed
      /\ \A n \in Monitor \ {m} : out'[n] = out[n]
  BY <1>1, <1>2 DEF CInv
<1>4. Listed' = Listed \ {m}
  BY <1>1, <1>3 DEF Listed
<1>5. selmon' \in Listed' \cup {NoMon}
  BY <1>4 DEF CInv, CleanupMon
<1>6. /\ selmon' \in SomeMon /\ m # selmon' /\ m \in SomeMon
      /\ selmon' # NoMon => out'[selmon'].listed
  BY <1>3, <1>4, <1>5, NullAssumption DEF Listed, SomeMon
<1>7. win \in [Client -> Fits] /\ \A c \in Client : Lives(win[c], out)
  BY DEF CInv
<1>8. \A c \in Client : win[c].mon \notin {m, NoMon} => out'[win[c].mon] = out[win[c].mon]
  BY <1>3, Living
<1>9. Passed(win, win', out, out')
  BY <1>1, <1>3, <1>6, <1>7, <1>8, MoveAllPasses
<1> QED BY <1>1, <1>3, <1>5, <1>9, PassedAdvances

LEMMA UnchangedAdvances ==
    ASSUME CInv, UNCHANGED <<win, out, scope>>, selmon' \in Listed \cup {NoMon}
    PROVE  Advances
<1>1. win \in [Client -> Fits] /\ \A c \in Client : Lives(win[c], out)
  BY DEF CInv
<1>2. Keeps(win, win', out)
  BY <1>1, KeepsSame
<1>3. Passed(win, win', out, out')
  BY <1>1, <1>2, KeepsPasses
<1>4. Listed' = Listed
  BY DEF Listed
<1> QED BY <1>3, <1>4, PassedAdvances DEF CInv

-----------------------------------------------------------------------------
(***************************************************************************)
(* Every step.                                                             *)
(***************************************************************************)
LEMMA StepAdvances ==
    ASSUME CInv, [Next]_vars
    PROVE  Advances
<1>1. CASE UNCHANGED vars
  BY <1>1, UnchangedAdvances DEF vars, CInv
<1>2. CASE togglecanvas
  BY <1>2, TogglecanvasAdvances
<1>3. CASE setlayout
  BY <1>3, SetlayoutAdvances
<1>4. CASE MotionNotify
  BY <1>4, MotionAdvances
<1>5. ASSUME NEW m \in Monitor,
             \/ CreateMon(m) \/ CleanupMon(m) \/ PowerMgrSetMode(m) \/ focusmon(m)
             \/ Relayout(m) \/ \E newtags \in SUBSET scope.tags : View(m, newtags)
      PROVE  Advances
  <2>1. CASE CreateMon(m)
    BY <2>1, CreateAdvances
  <2>2. CASE CleanupMon(m)
    BY <2>2, CleanupAdvances
  <2>3. CASE PowerMgrSetMode(m)
    BY <2>3, PowerAdvances
  <2>4. CASE focusmon(m)
    BY <2>4, UnchangedAdvances DEF focusmon
  <2>5. CASE Relayout(m)
    BY <2>5, RelayoutAdvances
  <2>6. CASE \E newtags \in SUBSET scope.tags : View(m, newtags)
    BY <2>6, ViewAdvances
  <2> QED BY <1>5, <2>1, <2>2, <2>3, <2>4, <2>5, <2>6
<1>6. ASSUME NEW c \in Client,
             \/ MapNotify(c) \/ UnmapNotify(c) \/ movecenter(c) \/ togglefloating(c)
             \/ moveresize(c) \/ Drop(c) \/ DropTile(c)
             \/ \E fullscreen \in BOOLEAN : SetFullscreen(c, fullscreen)
             \/ \E newtags \in SUBSET scope.tags : settags(c, newtags)
             \/ \E m \in Monitor : tagmon(c, m)
      PROVE  Advances
  <2>1. CASE MapNotify(c)
    BY <2>1, MapAdvances
  <2>2. CASE UnmapNotify(c)
    BY <2>2, UnmapAdvances
  <2>3. CASE movecenter(c)
    BY <2>3, MovecenterAdvances
  <2>4. CASE togglefloating(c)
    BY <2>4, TogglefloatingAdvances
  <2>5. CASE moveresize(c)
    BY <2>5, MoveresizeAdvances
  <2>6. CASE Drop(c)
    BY <2>6, DropAdvances
  <2>7. CASE DropTile(c)
    BY <2>7, DropTileAdvances
  <2>8. CASE \E fullscreen \in BOOLEAN : SetFullscreen(c, fullscreen)
    BY <2>8, SetFullscreenAdvances
  <2>9. CASE \E newtags \in SUBSET scope.tags : settags(c, newtags)
    BY <2>9, SettagsAdvances
  <2>10. CASE \E m \in Monitor : tagmon(c, m)
    BY <2>10, TagmonAdvances
  <2> QED BY <1>6, <2>1, <2>2, <2>3, <2>4, <2>5, <2>6, <2>7, <2>8, <2>9, <2>10
<1> QED BY <1>1, <1>2, <1>3, <1>4, <1>5, <1>6 DEF Next

LEMMA InitCInv ==
    ASSUME Init
    PROVE  CInv
<1>1. Plugged \in Output
  BY TagAssumption DEF Plugged, Output, Tag
<1>2. out \in [Monitor -> Output] /\ scope \in Scopes
  BY <1>1 DEF Init, Output
<1>3. selmon \in Listed \cup {NoMon}
  BY DEF Init
<1>4. ASSUME NEW c \in Client
      PROVE  win[c] \in Fits /\ win[c].mon = NoMon /\ win[c].grab = "none"
  <2>1. win[c] = [mapped |-> FALSE, mon |-> NoMon, tags |-> {}, isfloating |-> FALSE,
                  isfullscreen |-> FALSE, incanvas |-> FALSE, wasfloating |-> FALSE,
                  world |-> "unset", geom |-> "none", prev |-> "none", grab |-> "none",
                  layer |-> "LyrTile"]
    BY DEF Init
  <2>2. win[c] \in Window
    BY <2>1 DEF Window, SomeMon, Places, Coordinates, Grabs, Layers
  <2> QED BY <2>1, <2>2 DEF Fits, Fit
<1>5. win \in [Client -> Fits]
  BY <1>4 DEF Init
<1>6. grabc = {} /\ \A c \in Client : Lives(win[c], out)
  BY <1>4 DEF grabc, Lives
<1> QED BY <1>2, <1>3, <1>5, <1>6 DEF CInv

LEMMA CanvasInvariant == Spec => []CInv
<1>1. CInv /\ [Next]_vars => CInv'
  BY StepAdvances DEF Advances
<1> QED BY <1>1, InitCInv, PTL DEF Spec

(***************************************************************************)
(* Type correctness: a window is in the canvas only on an output and with  *)
(* a world place, which canvas_leave relies on, and one window at most is  *)
(* grabbed, a mapped one.                                                  *)
(***************************************************************************)
THEOREM CanvasIsWellTyped == Spec => []TypeOK
<1>1. CInv => TypeOK
  <2>1. ASSUME CInv PROVE win \in [Client -> Window]
    BY <2>1 DEF CInv, Fits
  <2>2. ASSUME CInv PROVE grabc \subseteq Mapped
    BY <2>2 DEF CInv, grabc, Mapped, Fits, Fit
  <2>3. ASSUME CInv, NEW c \in Client, win[c].incanvas
        PROVE  win[c].mapped /\ win[c].mon # NoMon /\ win[c].world # "unset"
    BY <2>3 DEF CInv, Fits, Fit
  <2> QED BY <2>1, <2>2, <2>3 DEF CInv, TypeOK
<1> QED BY <1>1, CanvasInvariant, PTL

(***************************************************************************)
(* "Previously tiled windows return to dwindle; previously floating        *)
(* windows stay floating" (docs/canvas.md): whatever canvas_leave would    *)
(* restore, only the user's own toggle or drag outside the canvas changes. *)
(***************************************************************************)
THEOREM FloatingSurvives == Spec => FloatingSurvivesCanvas
<1> DEFINE A(c) ==
      Outside(win'[c]) # Outside(win[c]) =>
          /\ ~win[c].incanvas /\ ~win'[c].incanvas
          /\ UNCHANGED out
          /\ win'[c].mon = win[c].mon /\ win'[c].tags = win[c].tags
          /\ win'[c].isfullscreen = win[c].isfullscreen
<1>1. ASSUME CInv, [Next]_vars, NEW c \in Mapped \cap Mapped' PROVE A(c)
  <2>1. c \in Client /\ win[c].mapped /\ win'[c].mapped
    BY DEF Mapped
  <2>2. Legal(win[c], win'[c], out, out')
    BY <1>1, <2>1, StepAdvances DEF Advances
  <2> QED BY <2>1, <2>2 DEF Legal
<1>2. CInv /\ [Next]_vars => [\A c \in Mapped \cap Mapped' : A(c)]_vars
  BY <1>1
<1> QED BY <1>2, CanvasInvariant, PTL DEF Spec, FloatingSurvivesCanvas


(***************************************************************************)
(* The box of a window that is seen stays in the coordinates that it is    *)
(* drawn with, but for the drag of a tile.                                 *)
(***************************************************************************)
THEOREM CoordinatesAreKept == Spec => BoxesKeepCoordinates
<1>1. ASSUME CInv, [Next]_vars, NEW c \in Client, SomeMisplaced(c)'
      PROVE  SomeMisplaced(c) \/ TileDragged(c)
  <2>1. Legal(win[c], win'[c], out, out')
    BY <1>1, StepAdvances DEF Advances
  <2>2. win'[c].mon # NoMon /\ Misplaced(win'[c], out'[win'[c].mon])
    BY <1>1 DEF SomeMisplaced
  <2>3. win[c].mon # NoMon => win[c].mapped
    BY <1>1, Living
  <2> QED BY <2>1, <2>2, <2>3 DEF Legal, SomeMisplaced, TileDragged
<1>2. CInv /\ [Next]_vars =>
        [\A c \in Client : SomeMisplaced(c)' => SomeMisplaced(c) \/ TileDragged(c)]_vars
  BY <1>1
<1> QED BY <1>2, CanvasInvariant, PTL DEF Spec, BoxesKeepCoordinates

(***************************************************************************)
(* "Fullscreen stays in canvas so unfullscreen returns to its world spot"  *)
(* (arrange): until its tags change or it is dragged.                      *)
(***************************************************************************)
THEOREM SpotIsKept == Spec => FullscreenKeepsSpot
<1> DEFINE A(c) ==
      LET w == win[c]
          o == out'[w.mon]
      IN  /\ w.incanvas /\ w.isfullscreen
          /\ win'[c].mon = w.mon /\ win'[c].tags = w.tags
          /\ o.canvas_tags \cap o.viewed \cap w.tags # {}
          /\ c \notin grabc
          => win'[c].incanvas /\ win'[c].world = w.world
<1>1. ASSUME CInv, [Next]_vars, NEW c \in Mapped \cap Mapped' PROVE A(c)
  <2>1. c \in Client
    BY DEF Mapped
  <2>2. Legal(win[c], win'[c], out, out')
    BY <1>1, <2>1, StepAdvances DEF Advances
  <2>3. c \notin grabc => win[c].grab = "none"
    BY <2>1 DEF grabc
  <2> QED BY <2>2, <2>3 DEF Legal, Recalls
<1>2. CInv /\ [Next]_vars => [\A c \in Mapped \cap Mapped' : A(c)]_vars
  BY <1>1
<1> QED BY <1>2, CanvasInvariant, PTL DEF Spec, FullscreenKeepsSpot

(***************************************************************************)
(* Exactly the fullscreen windows are in the fullscreen layer, and no      *)
(* floating one that is seen sinks among the tiles, but for the drop of a  *)
(* dragged tile.                                                           *)
(***************************************************************************)
THEOREM LayersAreKept == Spec => LayersFollowState
<1>1. ASSUME NEW w \in Fits, NEW o
      PROVE  Mislaid(w, o) <=> \/ (w.layer = "LyrFS") # w.isfullscreen
                               \/ /\ o.on /\ o.tiled /\ VISIBLEON(w, o)
                                  /\ w.isfloating /\ w.layer = "LyrTile"
  <2>1. w.isfullscreen \in BOOLEAN
    BY DEF Fits, Window
  <2> QED BY <2>1 DEF Mislaid, Layered
<1>2. ASSUME CInv, [Next]_vars, NEW c \in Client
      PROVE  win[c] \in Fits /\ win'[c] \in Fits /\ Legal(win[c], win'[c], out, out')
  BY <1>2, StepAdvances DEF Advances, CInv
<1>3. ASSUME CInv, [Next]_vars, NEW c \in Client, Mislayered(c)'
      PROVE  Mislayered(c) \/ TileDragged(c)
  <2>1. win'[c].mon # NoMon /\ Mislaid(win'[c], out'[win'[c].mon])
    BY <1>1, <1>2, <1>3 DEF Mislayered
  <2>2. \/ win[c].mon # NoMon /\ Mislaid(win[c], out[win[c].mon])
        \/ TileDragged(c)
    BY <1>2, <1>3, <2>1 DEF Legal, TileDragged
  <2>3. win[c].mon # NoMon => win[c].mapped
    BY <1>3, Living
  <2> QED BY <1>1, <1>2, <1>3, <2>2, <2>3 DEF Mislayered
<1>4. CInv /\ [Next]_vars =>
        [\A c \in Client : Mislayered(c)' => Mislayered(c) \/ TileDragged(c)]_vars
  BY <1>3
<1> QED BY <1>4, CanvasInvariant, PTL DEF Spec, LayersFollowState
=============================================================================
