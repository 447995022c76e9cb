------------------------------ MODULE Dwindle ------------------------------
(***************************************************************************)
(* The dwindle layout: one tree for each output and tag, the windows that  *)
(* are tiled by them, and a tile that is dragged.  The state is one record *)
(* d.  arrange returns the set of its outcomes, because where a window     *)
(* opens depends on the cursor and on the anchor (dwindle_focus), which    *)
(* are left out: any leaf may be split, either way.                        *)
(*                                                                         *)
(* A box is the output and the place in a tree that a window was last laid *)
(* out for, or Elsewhere; gaps, ratios and the kind of a split are left    *)
(* out, and so are focus, the canvas (its windows float) and the lock.     *)
(***************************************************************************)
EXTENDS Trees, Sequences, SequencesExt

CONSTANTS
    Window,     \* clients
    Output,     \* outputs
    TAGCOUNT,   \* number of tags
    None        \* NULL

Tag == 1..TAGCOUNT
Views == (SUBSET Tag) \ {{}}
Elsewhere == <<>>
Box(m, t, c) == <<m, Place(t, c)>>

ASSUME TagAssumption == TAGCOUNT \in Nat \ {0}
ASSUME NoneAssumption == None \notin Window \cup Output
ASSUME OutputAssumption == IsFiniteSet(Output)

VARIABLE d

Mapped(e) == Range(e.clients)
current(e, m) == CHOOSE t \in e.viewed[m] : \A u \in e.viewed[m] : t <= u
Tree(e, m) == e.root[m][current(e, m)]
VISIBLEON(e, c, m) == c \in Mapped(e) /\ e.mon[c] = m /\ e.tags[c] \cap e.viewed[m] # {}
Tiles(e, m) ==
    {c \in Mapped(e) : VISIBLEON(e, c, m) /\ c \notin e.isfloating \cup e.isfullscreen}

Init ==
    d = [clients |-> <<>>,
         mon  |-> [c \in Window |-> None],
         tags |-> [c \in Window |-> {}],
         isfloating |-> {}, isfullscreen |-> {},
         on |-> {}, asleep |-> {}, tiling |-> Output,
         viewed |-> [m \in Output |-> {1}],
         root |-> [m \in Output |-> [t \in Tag |-> Empty]],
         geom |-> [c \in Window |-> Elsewhere],
         grabc |-> None, target |-> None]

-----------------------------------------------------------------------------
\* dwindle_recalc resizes the windows of a tree, except those that are fullscreen;
\* resize does nothing to a window without an output.
recalc(e, m, t) ==
    [e EXCEPT !.geom = [c \in Window |->
        IF c \in e.root[m][t].leaves \ e.isfullscreen /\ e.mon[c] # None
        THEN Box(m, e.root[m][t], c) ELSE @[c]]]

Openings(t, c) ==
    IF t.leaves = {} THEN {[leaves |-> {c}, splits |-> {}]}
    ELSE {Opened(t, at, c, first) : at \in t.leaves, first \in BOOLEAN}

dwindle(e, m) ==
    LET tiles  == Tiles(e, m) \ {e.grabc}
        stay   == {c \in Mapped(e) : c = e.grabc \/ (VISIBLEON(e, c, m) /\ c \notin e.isfloating)}
        t      == current(e, m)
        kept   == Kept(e.root[m][t], stay)
        opened[i \in 0..Len(e.clients)] ==
            IF i = 0 THEN {kept}
            ELSE IF e.clients[i] \in tiles \ kept.leaves
                 THEN UNION {Openings(u, e.clients[i]) : u \in opened[i - 1]}
                 ELSE opened[i - 1]
    IN  IF tiles = {} THEN {e}
        ELSE {recalc([e EXCEPT !.root[m][t] = u], m, t) : u \in opened[Len(e.clients)]}

tiled_clients(e) == UNION {Tiles(e, m) : m \in e.tiling} \ {e.grabc}

\* motionnotify during a tile drag: the tile follows the pointer, which may be at an
\* edge of another tile (preselect_target).
Followed(e) ==
    IF e.grabc = None THEN {e}
    ELSE {[e EXCEPT !.target = b,
                    !.geom[e.grabc] = IF e.mon[e.grabc] = None THEN @ ELSE Elsewhere] :
            b \in tiled_clients(e) \cup {None}}

\* arrange lays out an output that is on, and ends with motionnotify.
arrange(e, m) ==
    IF m \notin e.on THEN {e}
    ELSE UNION {Followed(f) : f \in IF m \in e.tiling THEN dwindle(e, m) ELSE {e}}
Arranged(E, m) == UNION {arrange(e, m) : e \in E}

\* Mutant: only the tree in view forgets the window.
remove_clientInView(e, c) ==
    IF e.mon[c] = None THEN e
    ELSE [e EXCEPT !.root[e.mon[c]][current(e, e.mon[c])] = Removed(@, c)]

remove_client(e, c) ==
    [e EXCEPT !.root = [m \in Output |-> [t \in Tag |-> Removed(@[m][t], c)]]]

\* Mutant: the layout is not told.
setfloatingQuietly(e, c, floating) ==
    {[e EXCEPT !.isfloating = IF floating THEN @ \cup {c} ELSE @ \ {c}]}

setfloating(e, c, floating) ==
    LET f == [e EXCEPT !.isfloating = IF floating THEN @ \cup {c} ELSE @ \ {c}]
    IN  IF e.mon[c] \notin e.tiling THEN {f} ELSE arrange(f, e.mon[c])

setfullscreen(e, c, fullscreen) ==
    LET f == [e EXCEPT !.isfullscreen = IF fullscreen THEN @ \cup {c} ELSE @ \ {c},
                       !.geom[c] = IF fullscreen \/ c \in e.isfullscreen THEN Elsewhere ELSE @]
    IN  IF e.mon[c] = None THEN {[f EXCEPT !.geom = e.geom]} ELSE arrange(f, e.mon[c])

\* setmon arranges the output the window leaves and the one it comes to.  newtags is
\* empty if it takes the view of its new output.
setmon(e, c, m, newtags) ==
    LET away == [e EXCEPT !.mon[c] = m]
        left == IF e.mon[c] = None THEN {away} ELSE arrange(away, e.mon[c])
        come(f) == [f EXCEPT !.tags[c] = IF newtags = {} THEN f.viewed[m] ELSE newtags,
                             !.geom[c] = Elsewhere]
    IN  IF e.mon[c] = m THEN {e}
        ELSE IF m = None THEN left
        ELSE Arranged({come(f) : f \in left}, m)

\* The windows of an output (of none, for None) go to another one.
Migrated(e, from, to) ==
    LET moved[i \in 0..Len(e.clients)] ==
            IF i = 0 THEN {e}
            ELSE UNION {IF f.mon[e.clients[i]] = from
                        THEN setmon(f, e.clients[i], to, f.tags[e.clients[i]]) ELSE {f} :
                            f \in moved[i - 1]}
    IN  moved[Len(e.clients)]

\* closemon: the windows go to the selected output, which is one that is on or asleep.
Closed(e, m) ==
    UNION {Migrated(e, m, to) :
             to \in e.on \cup e.asleep \cup IF e.on = {} THEN {None} ELSE {}}

\* The orders that the outputs may have in mons.
Orders == {order \in [1..Cardinality(Output) -> Output] : Range(order) = Output}

\* updatemons closes the outputs that are disabled and arranges those that are on; then
\* orphans come to the selected output, if it is on.
Updated(e, order) ==
    LET n == Cardinality(Output)
        closed[i \in 0..n] ==
            IF i = 0 THEN {e}
            ELSE IF order[i] \in e.on \cup e.asleep THEN closed[i - 1]
            ELSE UNION {Closed(f, order[i]) : f \in closed[i - 1]}
        done[i \in 0..n] ==
            IF i = 0 THEN closed[n] ELSE Arranged(done[i - 1], order[i])
        adopting == e.on \cup IF e.on = {} \/ e.asleep # {} THEN {None} ELSE {}
    IN  UNION {UNION {Migrated(f, None, to) : to \in adopting} : f \in done[n]}

updatemons(e) == UNION {Updated(e, order) : order \in Orders}

\* The box of a window matters while it is a tile that is shown, and is left out else.
Shown(e, c) == \E m \in e.on : c \in Tiles(e, m)
Becomes(E) ==
    d' \in {[e EXCEPT !.geom = [c \in Window |-> IF Shown(e, c) THEN @[c] ELSE Elsewhere]] :
                e \in E}

-----------------------------------------------------------------------------
\* mapnotify places the window and takes the fullscreen windows that it shares a tag
\* with, except its parent p, out of that state.  Without outputs, under is what is there.
\* A window that is mapped again has its old tags; tags of unmapped windows are not kept.
Uncovered(e, c, p, under) ==
    LET m == IF e.mon[c] = None THEN under ELSE e.mon[c]
        done[i \in 0..Len(e.clients)] ==
            IF i = 0 THEN {e}
            ELSE UNION {IF /\ e.clients[i] \in f.isfullscreen \ {c, p}
                           /\ f.mon[e.clients[i]] = m /\ f.tags[e.clients[i]] \cap f.tags[c] # {}
                        THEN setfullscreen(f, e.clients[i], FALSE) ELSE {f} : f \in done[i - 1]}
    IN  done[Len(e.clients)]

MapNotify(c) ==
    /\ c \notin Mapped(d)
    /\ \E floating, fullscreen \in BOOLEAN, m \in Output \cup {None}, T, old \in SUBSET Tag,
          p \in Mapped(d) \cup {None}, under \in d.asleep \cup {None} :
         /\ IF p = None THEN m = None => d.on = {}
            ELSE floating /\ m = d.mon[p] /\ T = d.tags[p]
         /\ IF m = None THEN T = {} \/ p # None ELSE old = {} /\ under = None   \* not read
         /\ LET new == [d EXCEPT !.clients = <<c>> \o @, !.tags[c] = old,
                          !.isfloating = IF floating THEN @ \cup {c} ELSE @,
                          !.isfullscreen = IF fullscreen THEN @ \cup {c} ELSE @]
            IN  Becomes(UNION {Uncovered(e, c, p, under) : e \in setmon(new, c, m, T)})

UnmapNotify(c) ==
    /\ c \in Mapped(d)
    /\ LET e == [remove_client(d, c) EXCEPT
                    !.clients = RemoveAt(@, CHOOSE i \in DOMAIN @ : @[i] = c),
                    !.isfloating = @ \ {c}, !.isfullscreen = @ \ {c}, !.tags[c] = {},
                    !.target = IF d.grabc = c THEN None ELSE @,
                    !.grabc = IF @ = c THEN None ELSE @]
       IN  Becomes(UNION {Followed(f) : f \in setmon(e, c, None, {})})

settags(c) ==
    /\ c \in Mapped(d) /\ d.mon[c] # None
    /\ \E T \in Views \ {d.tags[c]} :
         Becomes(arrange([remove_client(d, c) EXCEPT !.tags[c] = T], d.mon[c]))

\* view, toggleview and the requests of bars.
view(m) == \E T \in Views \ {d.viewed[m]} : Becomes(arrange([d EXCEPT !.viewed[m] = T], m))

\* togglefloating and moveresize, on a window that is visible.
ToggleFloating(c) ==
    /\ c \in Mapped(d) \ d.isfullscreen /\ \E m \in Output : VISIBLEON(d, c, m)
    /\ Becomes(setfloating(d, c, c \notin d.isfloating))

ToggleFullscreen(c) ==
    c \in Mapped(d) /\ Becomes(setfullscreen(d, c, c \notin d.isfullscreen))

\* tagmon, or a floating window that is dropped on an output, which may be its own.
SetMon(c) ==
    /\ c \in Mapped(d) /\ (d.mon[c] # None \/ c \in d.isfloating)
    /\ \E m \in d.on \cup d.asleep : Becomes(setmon(d, c, m, {}))

setlayout(m) ==
    Becomes(arrange([d EXCEPT !.tiling = IF m \in @ THEN @ \ {m} ELSE @ \cup {m}], m))

\* Configurations of an output, which may repeat what it is.
SwitchOn(m) == Becomes(updatemons([d EXCEPT !.on = @ \cup {m}, !.asleep = @ \ {m}]))
SwitchOff(m) == Becomes(updatemons([d EXCEPT !.on = @ \ {m}, !.asleep = @ \ {m}]))

Sleep(m) ==
    m \in d.on /\ Becomes(updatemons([d EXCEPT !.on = @ \ {m}, !.asleep = @ \cup {m}]))

\* cleanupmon, and createmon when it is plugged again (not switched on yet).
Unplug(m) ==
    LET off == [d EXCEPT !.on = @ \ {m}, !.asleep = @ \ {m}]
    IN  Becomes({[e EXCEPT !.root[m] = [t \in Tag |-> Empty], !.viewed[m] = {1},
                         !.tiling = @ \cup {m}] :
                   e \in IF m \in d.on \cup d.asleep THEN updatemons(off) ELSE Closed(off, m)})

-----------------------------------------------------------------------------
\* moveresize on a tile: it keeps its leaf, so that its place stays open.
DragTile(c) ==
    /\ d.grabc = None
    /\ \E m \in d.tiling \cap (d.on \cup d.asleep) : c \in Tiles(d, m)
    /\ Becomes({[d EXCEPT !.grabc = c, !.geom[c] = Elsewhere]})

Motion == d.grabc # None /\ Becomes(Followed(d))

\* Mutant: the tree changes and nothing is laid out.
move_to_edgeUnseen(e, a, b, first) ==
    IF {a, b} \subseteq Tree(e, e.mon[b]).leaves
    THEN [e EXCEPT !.root[e.mon[b]][current(e, e.mon[b])] = Opened(Removed(@, a), b, a, first)]
    ELSE e

move_to_edge(e, a, b, first) ==
    LET m == e.mon[b]  t == current(e, m)
    IN  IF {a, b} \subseteq Tree(e, m).leaves
        THEN recalc([e EXCEPT !.root[m][t] = Opened(Removed(@, a), b, a, first)], m, t)
        ELSE e

\* swaptiled goes through all trees in the order of the outputs and the tags.
swaptiled(e, a, b, order) ==
    LET at(i) == <<order[((i - 1) \div TAGCOUNT) + 1], ((i - 1) % TAGCOUNT) + 1>>
        swapped(f, m, t) ==
            IF {a, b} \subseteq f.root[m][t].leaves
            THEN recalc([f EXCEPT !.root[m][t] = Swapped(@, a, b)], m, t) ELSE f
        run[i \in 0..(Len(order) * TAGCOUNT)] ==
            IF i = 0 THEN e ELSE swapped(run[i - 1], at(i)[1], at(i)[2])
    IN  run[Len(order) * TAGCOUNT]

\* buttonpress: the tile is dropped on an edge of another, on its middle, or on nothing.
\* The code reads the output of preselect_target: without one it crashes, and so there is
\* no outcome.  tiledrag_orig_geom is left out: the box that a tile goes back to is that
\* of its leaf, or else, if the layout has changed since, Elsewhere.
DropTile ==
    LET a == d.grabc  b == d.target
        back == {Elsewhere} \cup {Box(m, Tree(d, m), a) :
                                     m \in {m \in {d.mon[a]} \cap Output : a \in Tree(d, m).leaves}}
        free(e) == [e EXCEPT !.grabc = None, !.target = None]
    IN  /\ a # None
        /\ \/ b # None /\ d.mon[b] # None
              /\ \E first \in BOOLEAN :
                   Becomes({free(IF a = b THEN d ELSE move_to_edge(d, a, b, first))})
           \/ b = None /\ \E w \in tiled_clients(d), order \in Orders :
                Becomes({free(swaptiled(d, a, w, order))})
           \/ b = None /\ Becomes({free([d EXCEPT !.geom[a] = box]) : box \in back})

\* While the session is locked a release ends the drag and nothing else.
ReleaseLocked ==
    d.grabc # None /\ Becomes({[d EXCEPT !.grabc = None]})

\* swapdir: two leaves change places, or two boxes if the layout is not this one.
swapdir(m) ==
    \E a, b \in Tiles(d, m) :
        LET t == current(d, m)
        IN  /\ a # b
            /\ \/ m \in d.tiling /\ {a, b} \subseteq Tree(d, m).leaves
                  /\ Becomes({recalc([d EXCEPT !.root[m][t] = Swapped(@, a, b)], m, t)})
               \/ m \notin d.tiling
                  /\ Becomes({[d EXCEPT !.geom[a] = d.geom[b], !.geom[b] = d.geom[a]]})

-----------------------------------------------------------------------------
Next ==
    \/ \E c \in Window :
         \/ MapNotify(c) \/ UnmapNotify(c) \/ settags(c) \/ ToggleFloating(c)
         \/ ToggleFullscreen(c) \/ SetMon(c) \/ DragTile(c)
    \/ \E m \in Output :
         \/ view(m) \/ setlayout(m) \/ swapdir(m)
         \/ SwitchOn(m) \/ Sleep(m) \/ SwitchOff(m) \/ Unplug(m)
    \/ Motion \/ DropTile \/ ReleaseLocked

Spec == Init /\ [][Next]_d

-----------------------------------------------------------------------------
Dropped == d.grabc # None /\ d'.grabc = None

(***************************************************************************)
(* Every tree is one, and "unmap removes all leaves before a Client is     *)
(* freed": no tree of any output and tag names a window that is gone.      *)
(***************************************************************************)
TreesAreSound ==
    \A m \in Output, t \in Tag :
        IsTree(d.root[m][t]) /\ d.root[m][t].leaves \subseteq Mapped(d)

(***************************************************************************)
(* A tile that its output shows has a leaf in the tree of the view, or     *)
(* nothing would ever lay it out; and while there are tiles that tree has  *)
(* leaves of windows only that are visible and do not float, as any other  *)
(* is a hole on the screen.  The window that is dragged is excepted, and a *)
(* drop, which no arrange follows: it may leave the window without a leaf  *)
(* (it was given another tag meanwhile, say), or a hole.                   *)
(***************************************************************************)
Leafless(e, c) ==
    \E m \in e.on \cap e.tiling : c \in Tiles(e, m) \ ({e.grabc} \cup Tree(e, m).leaves)

Hole(e, c) ==
    \E m \in e.on \cap e.tiling :
        /\ Tiles(e, m) \ {e.grabc} # {} /\ c \in Tree(e, m).leaves \ {e.grabc}
        /\ ~(VISIBLEON(e, c, m) /\ c \notin e.isfloating)

LeavesAreTiles ==
    [][\A c \in Window :
         /\ Leafless(d', c) => Leafless(d, c) \/ (Dropped /\ c = d.grabc)
         /\ Hole(d', c) => Hole(d, c) \/ Dropped]_d

(***************************************************************************)
(* A tile is where its leaf is in the tree of the view, unless             *)
(* - it was misplaced by a drop, which may misplace the window dropped, or *)
(*   one that is with it in a tree that is not in the view of both         *)
(*   (swaptiled lays out such trees too, and a tile that is dragged keeps  *)
(*   its leaf on the output that it leaves);                               *)
(* - a window goes whose leaf beside it was a hole, left by a drop or by a *)
(*   tile that is dragged and went to another output; or                   *)
(* - swapdir, which lays out all leaves of a view, finds it among those of *)
(*   an output that it is not on: its leaf is a hole there, or it went     *)
(*   away while that output was asleep.                                    *)
(***************************************************************************)
Misplaced(e, c) ==
    \E m \in e.on \cap e.tiling :
        c \in (Tiles(e, m) \cap Tree(e, m).leaves) \ {e.grabc} /\ e.geom[c] # Box(m, Tree(e, m), c)

SharedElsewhere(a, c) ==
    \E m \in Output, t \in Tag :
        /\ {a, c} \subseteq d.root[m][t].leaves
        /\ t = current(d, m) => m # d.mon[a] \/ m # d.mon[c]

HoleBeside(c) ==
    \E m \in {d.mon[c]} \cap Output : \E h \in Tree(d, m).leaves :
        Hole(d, h) \/ (h = d.grabc /\ d.mon[h] # m)

Astray(c) == Hole(d, c) \/ \E m \in Output \ d.on : c \in Tree(d, m).leaves /\ d.mon[c] # m

TilesAreInPlace ==
    [][\A c \in Window : Misplaced(d', c) =>
          \/ Misplaced(d, c) \/ HoleBeside(c) \/ Astray(c)
          \/ Dropped /\ (c = d.grabc \/ SharedElsewhere(d.grabc, c))]_d

(***************************************************************************)
(* "If you released any buttons, we exit interactive move/resize mode":    *)
(* without a drag nothing is preselected, so that a drop never reads what  *)
(* an earlier drag has left in preselect_target.                           *)
(***************************************************************************)
DragEnds == d.grabc = None => d.target = None
=============================================================================
