-------------------------------- MODULE Seat --------------------------------
(***************************************************************************)
(* The input side of src/main.c: bindings and their repeat timer, and the  *)
(* focus of the pointer with the pointer constraints of the windows, both  *)
(* across the locking of the session.                                      *)
(*                                                                         *)
(* Where the cursor is matters only by the window that is under it, and    *)
(* the grabs of the compositor itself (move, resize, tile drag, pan) are   *)
(* not in use here: module Canvas has them.  What wlroots does is modelled *)
(* as the code relies on it: a surface has at most one constraint, a       *)
(* one-shot constraint is destroyed when it is deactivated, and during     *)
(* drag and drop the pointer enters no surface.                            *)
(***************************************************************************)
EXTENDS Integers

CONSTANTS
    Key, VtKeys,        \* keys, those that may give a symbol XF86Switch_VT_n among them
    Window,
    LockSurface,        \* the surface of the session lock
    None,               \* no key, surface or constraint
    Kinds,              \* the constraints that clients ask for
    Buttons             \* the number of buttons of the pointer

ASSUME KeyAssumption == VtKeys \subseteq Key /\ None \notin Key
ASSUME SurfaceAssumption == LockSurface \notin Window /\ None \notin Window \cup {LockSurface}
ASSUME KindAssumption ==
    /\ Kinds \subseteq [lifetime : {"oneshot", "persistent"}, type : {"locked", "confined"}]
    /\ None \notin Kinds
ASSUME ButtonAssumption == Buttons \in Nat

VARIABLES
    held,       \* the keys that are down
    bound,      \* the keys that the configuration has a binding for
    repeat_info,    \* whether its repeat_delay and repeat_rate are above 0
    repeats,    \* group->keysyms: the key to repeat, None when nsyms is 0
    timer,      \* whether key_repeat_source is armed
    ran,        \* the key whose binding the last step ran
    locked, cur_lock,
    lockscreen, \* whether the scene has the lock surface
    under,      \* the window under the cursor, or None
    down,       \* how many buttons are
    cursor_mode, drag,
    pointer     \* the focus of the seat and the constraints, see TypeOK

settings == <<bound, repeat_info>>
keyboard == <<held, settings, repeats, timer, ran>>
lock == <<locked, cur_lock, lockscreen>>
buttons == <<down, cursor_mode, drag>>
Place == Window \cup {None}
vars == <<keyboard, lock, under, buttons, pointer>>

Init ==
    /\ held = {} /\ bound \in SUBSET Key
    /\ repeat_info \in [delay : BOOLEAN, rate : BOOLEAN]
    /\ repeats = None /\ timer = FALSE /\ ran = None
    /\ locked = FALSE /\ cur_lock = FALSE /\ lockscreen = FALSE
    /\ under = None /\ down = 0 /\ cursor_mode = "CurNormal" /\ drag = FALSE
    /\ pointer = [focus |-> None, constraint |-> [w \in Window |-> None],
                  active |-> None, told |-> {}]

-----------------------------------------------------------------------------
(***************************************************************************)
(* The keyboard.                                                           *)
(***************************************************************************)
Handled(k) == ~locked /\ k \in held' /\ k \in bound

\* A press that a binding handles is repeated; any other event ends the repeat.
KeyEvent(k) ==
    /\ ran' = IF Handled(k) THEN k ELSE None
    /\ IF Handled(k) /\ repeat_info.delay THEN repeats' = k /\ timer' = TRUE
       ELSE repeats' = None /\ timer' = FALSE

\* With modifiers some keys switch the virtual terminal, and nothing else.
keypress(k) ==
    /\ \/ k \notin held /\ held' = held \cup {k}
       \/ k \in held /\ held' = held \ {k}
    /\ \/ KeyEvent(k)
       \/ k \in VtKeys \cap held' /\ ran' = None /\ UNCHANGED <<repeats, timer>>
    /\ UNCHANGED <<settings, lock, under, buttons, pointer>>

\* Mutant: only the bindings wait for the end of the lock.
keyrepeatRearmed ==
    /\ timer /\ timer' = (repeats # None /\ repeat_info.rate)
    /\ ran' = IF ~locked /\ timer' /\ repeats \in bound THEN repeats ELSE None
    /\ UNCHANGED <<held, settings, repeats, lock, under, buttons, pointer>>

\* Mutant: the lock is not looked at.
keyrepeatUnchecked ==
    /\ timer /\ timer' = (repeats # None /\ repeat_info.rate)
    /\ ran' = IF timer' /\ repeats \in bound THEN repeats ELSE None
    /\ UNCHANGED <<held, settings, repeats, lock, under, buttons, pointer>>

\* The bindings are looked up again: the configuration may be a new one.
keyrepeat ==
    /\ timer /\ timer' = (~locked /\ repeats # None /\ repeat_info.rate)
    /\ repeats' = IF locked THEN None ELSE repeats
    /\ ran' = IF timer' /\ repeats \in bound THEN repeats ELSE None
    /\ UNCHANGED <<held, settings, lock, under, buttons, pointer>>

on_config_reload ==
    /\ bound' \in SUBSET Key /\ repeat_info' \in [delay : BOOLEAN, rate : BOOLEAN]
    /\ ran' = None
    /\ UNCHANGED <<held, repeats, timer, lock, under, buttons, pointer>>

-----------------------------------------------------------------------------
(***************************************************************************)
(* Pointer constraints, each named by its window; p is the pointer.        *)
(***************************************************************************)
constraint_for_surface(p, s) == IF s \in Window /\ p.constraint[s] # None THEN s ELSE None

destroypointerconstraint(p, w) ==
    [p EXCEPT !.constraint = [@ EXCEPT ![w] = None], !.told = @ \ {w},
              !.active = IF @ = w THEN None ELSE @]

\* wlroots destroys a one-shot constraint before it returns.
send_deactivated(p, w) ==
    IF p.constraint[w].lifetime = "oneshot" THEN destroypointerconstraint(p, w)
    ELSE [p EXCEPT !.told = @ \ {w}]

\* Mutant: the constraint to come is the active one before the old one is told.
cursorconstrainQuietly(p, w) ==
    [p EXCEPT !.active = w, !.told = @ \cup ({w} \ {None})]

cursorconstrain(p, w) ==
    IF p.active = w THEN p
    ELSE LET q == [p EXCEPT !.active = None]
             r == IF p.active = None THEN q ELSE send_deactivated(q, p.active)
         IN  [r EXCEPT !.active = w, !.told = @ \cup ({w} \ {None})]

\* A new constraint starts at once when its window has the pointer.
Constrained(p, w, kind) ==
    LET q == [p EXCEPT !.constraint[w] = kind]
    IN  IF p.focus = w THEN cursorconstrain(q, w) ELSE q

-----------------------------------------------------------------------------
(***************************************************************************)
(* The focus of the pointer.                                               *)
(***************************************************************************)
Enter(p, s) == cursorconstrain([p EXCEPT !.focus = s], constraint_for_surface(p, s))

\* The constraint changes even when the seat lets the pointer enter nothing.
pointerfocus(p, s) ==
    IF drag THEN cursorconstrain(p, constraint_for_surface(p, s)) ELSE Enter(p, s)

\* xytonode with window u under the cursor, in front of it the lock surface.
xytonode(u) == IF lockscreen THEN LockSurface ELSE u

\* Mutant: a button that is down does not hold the focus.
AimUnheld(p, u, mode) == xytonode(u)

\* A window in which a button went down keeps the pointer until it is released.
Aim(p, u, mode) ==
    IF mode = "CurPressed" /\ ~drag /\ p.focus \in Window THEN p.focus ELSE xytonode(u)

\* motionnotify(0): the focus is looked for again.
Refocus(p, u, mode) == pointerfocus(p, Aim(p, u, mode))

\* cursorwarptohint may leave the cursor anywhere when a constraint ends.
Warped == IF pointer.active \in {None, pointer'.active} THEN {under} ELSE Place

\* The cursor moves after the surface under it was looked up.  With sloppyfocus,
\* focusclient looks it up again, in the middle, where the cursor is by then: over u.
motionnotify ==
    LET s == Aim(pointer, under, cursor_mode)
        p == cursorconstrain(pointer, constraint_for_surface(pointer, pointer.focus))
        caught == p.active # None /\ p.active = p.focus /\ p.constraint[p.active].type = "locked"
    IN  /\ IF caught THEN pointer' = p /\ under' \in Warped
           ELSE \E u \in Place :
                  /\ under' \in Place
                  /\ \/ pointer' = pointerfocus(p, s)
                     \/ ~locked /\ s \in Window /\ s # p.focus
                        /\ pointer' = pointerfocus(Refocus(p, u, cursor_mode), s)
        /\ ran' = None
        /\ UNCHANGED <<held, settings, repeats, timer, lock, buttons>>

\* focusclient on what was pressed looks for the focus unless it had the keyboard.
buttonpress ==
    /\ down < Buttons /\ down' = down + 1 /\ cursor_mode' = "CurPressed"
    /\ \/ pointer' = pointer
       \/ ~locked /\ under # None /\ pointer' = Refocus(pointer, under, "CurPressed")
    /\ under' \in Warped
    /\ ran' = None /\ UNCHANGED <<held, settings, repeats, timer, lock, drag>>

\* Any release ends the pressed state; a drag ends with its own button, at the latest
\* with the last.  Only the end of its icon restores the focus.
buttonrelease ==
    /\ down > 0 /\ down' = down - 1 /\ cursor_mode' = "CurNormal"
    /\ drag' \in {FALSE, drag /\ down' > 0}
    /\ \/ pointer' = pointer
       \/ drag /\ ~drag' /\ pointer' = Enter(pointer, xytonode(under))
    /\ under' \in Warped
    /\ ran' = None /\ UNCHANGED <<held, settings, repeats, timer, lock>>

\* A client may start a drag where a button went down: the pointer leaves it.
requeststartdrag ==
    /\ down = 1 /\ ~drag /\ pointer.focus \in Window
    /\ drag' = TRUE /\ pointer' = [pointer EXCEPT !.focus = None]
    /\ ran' = None /\ UNCHANGED <<held, settings, repeats, timer, lock, under, down, cursor_mode>>

\* Mutant: every constraint is activated when it is made.
createpointerconstraintAnywhere(w) ==
    /\ pointer.constraint[w] = None
    /\ \E kind \in Kinds :
         pointer' = cursorconstrain([pointer EXCEPT !.constraint[w] = kind], w)
    /\ under' \in Warped
    /\ ran' = None /\ UNCHANGED <<held, settings, repeats, timer, lock, buttons>>

createpointerconstraint(w) ==
    /\ pointer.constraint[w] = None
    /\ \E kind \in Kinds : pointer' = Constrained(pointer, w, kind)
    /\ under' \in Warped
    /\ ran' = None /\ UNCHANGED <<held, settings, repeats, timer, lock, buttons>>

\* Its client gives a constraint up.
GiveUp(w) ==
    /\ pointer.constraint[w] # None
    /\ pointer' = destroypointerconstraint(pointer, w)
    /\ under' \in Warped
    /\ ran' = None /\ UNCHANGED <<held, settings, repeats, timer, lock, buttons>>

\* arrange, mapnotify, unmapnotify and others put windows elsewhere and end with
\* motionnotify(0); the frames of an animation do not.
Rearrange ==
    /\ under' \in Place
    /\ \/ pointer' = pointer
       \/ \E u \in Place : pointer' = Refocus(pointer, u, cursor_mode)
    /\ ran' = None /\ UNCHANGED <<held, settings, repeats, timer, lock, buttons>>

\* The surface goes away, and with it its constraint and its pointer focus.
Destroy(w) ==
    /\ under' \in Place \ {w}
    /\ \E u \in Place \ {w} :
         LET p == Refocus(pointer, u, cursor_mode)
             q == IF p.constraint[w] = None THEN p ELSE destroypointerconstraint(p, w)
         IN  pointer' = [q EXCEPT !.focus = IF @ = w THEN None ELSE @]
    /\ ran' = None /\ UNCHANGED <<held, settings, repeats, timer, lock, buttons>>

-----------------------------------------------------------------------------
(***************************************************************************)
(* The session lock.                                                       *)
(***************************************************************************)
\* focusclient(NULL) leaves the pointer alone.
locksession ==
    /\ ~cur_lock /\ cur_lock' = TRUE /\ locked' = TRUE
    /\ ran' = None
    /\ UNCHANGED <<held, settings, repeats, timer, lockscreen, under, buttons, pointer>>

createlocksurface ==
    /\ cur_lock /\ lockscreen' = TRUE /\ ran' = None
    /\ UNCHANGED <<held, settings, repeats, timer, locked, cur_lock, under, buttons, pointer>>

\* The focus is looked for while the lock surface is still there, which its
\* client destroys with the lock.
Surfaceless(p) == [p EXCEPT !.focus = IF @ = LockSurface THEN None ELSE @]

unlocksession ==
    /\ cur_lock /\ cur_lock' = FALSE /\ locked' = FALSE /\ lockscreen' = FALSE
    /\ pointer' = Surfaceless(Refocus(pointer, under, cursor_mode))
    /\ under' \in Warped
    /\ ran' = None /\ UNCHANGED <<held, settings, repeats, timer, buttons>>

\* A lock that is destroyed without unlocking leaves the session locked.
destroysessionlock ==
    /\ cur_lock /\ cur_lock' = FALSE /\ lockscreen' = FALSE
    /\ pointer' = Surfaceless(pointer)
    /\ ran' = None /\ UNCHANGED <<held, settings, repeats, timer, locked, under, buttons>>

-----------------------------------------------------------------------------
Keyboard == keyrepeat \/ on_config_reload \/ \E k \in Key : keypress(k)

Pointer ==
    \/ motionnotify \/ buttonpress \/ buttonrelease \/ requeststartdrag \/ Rearrange
    \/ \E w \in Window : createpointerconstraint(w) \/ GiveUp(w) \/ Destroy(w)

SessionLock == locksession \/ createlocksurface \/ unlocksession \/ destroysessionlock

Next == Keyboard \/ Pointer \/ SessionLock

\* A timer of the event loop goes off.
Spec == Init /\ [][Next]_vars /\ WF_vars(keyrepeat)

-----------------------------------------------------------------------------
(***************************************************************************)
(* Type correctness.  The active constraint is one that still exists, so   *)
(* cursorwarptohint, when it ends, reads a constraint that is there.       *)
(***************************************************************************)
TypeOK ==
    /\ held \subseteq Key /\ bound \subseteq Key /\ repeats \in Key \cup {None}
    /\ repeat_info \in [delay : BOOLEAN, rate : BOOLEAN]
    /\ ran \in Key \cup {None} /\ {timer, locked, cur_lock, lockscreen, drag} \subseteq BOOLEAN
    /\ under \in Place /\ down \in 0..Buttons /\ cursor_mode \in {"CurNormal", "CurPressed"}
    /\ pointer \in [focus : Place \cup {LockSurface},
                    constraint : [Window -> Kinds \cup {None}],
                    active : Place,     \* active_constraint
                    told : SUBSET Window]   \* the clients that believe in theirs
    /\ pointer.active # None => pointer.constraint[pointer.active] # None

(***************************************************************************)
(* What runs is a binding of the configuration in use, for a key that is   *)
(* still down, and nothing runs while the session is locked: "A repeated   *)
(* binding cannot change gaps while locked" (docs/bug-audit-2026-11-01.md, *)
(* B07), whenever the timer goes off between the press, the lock, the      *)
(* reload and the release.                                                 *)
(***************************************************************************)
RunsWhatIsHeld == ran # None => ran \in held \cap bound /\ ~locked

(***************************************************************************)
(* A client believes its pointer constraint to be active exactly when it   *)
(* is active_constraint, so no two windows hold the pointer: cursorconstrain *)
(* ends one before it begins the other, also when that destroys it.        *)
(***************************************************************************)
OneConstraint == pointer.told = {pointer.active} \ {None}

(***************************************************************************)
(* "Select constraints for the focused surface" (B19): while the seat has  *)
(* pointer focus, the active constraint is the one of that surface, if it  *)
(* has one, whatever moved the focus or created or ended the constraint.   *)
(* In drag and drop the seat has none, and the constraint of the window    *)
(* under the cursor is activated all the same.                             *)
(***************************************************************************)
ConstraintIsFocused ==
    pointer.focus # None => pointer.active = constraint_for_surface(pointer, pointer.focus)

(***************************************************************************)
(* From the press of a button to the next release, which may be of another *)
(* button, and outside drag and drop, the window that has the pointer      *)
(* keeps it, unless it is destroyed: motionnotify, also called by the      *)
(* handlers of windows that come and go and by those of the lock, sends    *)
(* the pointer nowhere else.                                               *)
(***************************************************************************)
HeldButtonHoldsFocus ==
    [][cursor_mode = "CurPressed" /\ cursor_mode' = "CurPressed" /\ ~drag /\ ~drag'
         /\ pointer.focus \in Window
       => pointer'.focus \in {pointer.focus, None}]_vars

(***************************************************************************)
(* "Clear pending shortcut repeat while locked" (B07): in a session that   *)
(* stays locked no repeat stays armed.                                     *)
(***************************************************************************)
RepeatEndsInLock == <>[]locked => <>[](~timer)
=============================================================================
