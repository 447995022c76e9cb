----------------------------- MODULE SeatProofs -----------------------------
(***************************************************************************)
(* Proofs about module Seat, for any keys, windows and constraints: what   *)
(* repeats, which constraint is active, and who has the pointer.           *)
(***************************************************************************)
EXTENDS Seat, TLAPS

-----------------------------------------------------------------------------
(***************************************************************************)
(* The pointer by itself.  Sound(p) says what every operator on it keeps,  *)
(* Follows(p) what those that move the focus establish.                    *)
(***************************************************************************)
PointerType ==
    [focus : Place \cup {LockSurface}, constraint : [Window -> Kinds \cup {None}],
     active : Place, told : SUBSET Window]

Sound(p) ==
    /\ p \in PointerType
    /\ p.active # None => p.constraint[p.active] # None
    /\ p.told = {p.active} \ {None}

Follows(p) == p.focus # None => p.active = constraint_for_surface(p, p.focus)

\* A constraint that can be made the active one.
Startable(p, w) == w = None \/ (w \in Window /\ p.constraint[w] # None)

\* The constraint found for a surface is one that can be started.
LEMMA FoundStartable ==
    ASSUME NEW p, NEW s
    PROVE  Startable(p, constraint_for_surface(p, s))
BY DEF Startable, constraint_for_surface

\* What destroying a constraint leaves of the pointer.
LEMMA DestroyFields ==
    ASSUME NEW p \in PointerType, NEW w \in Window
    PROVE  LET q == destroypointerconstraint(p, w) IN
           /\ q \in PointerType /\ q.focus = p.focus /\ q.told = p.told \ {w}
           /\ q.constraint = [p.constraint EXCEPT ![w] = None]
           /\ q.active = IF p.active = w THEN None ELSE p.active
<1> DEFINE f == [p.constraint EXCEPT ![w] = None]
           a == IF p.active = w THEN None ELSE p.active
           t == p.told \ {w}
           q == [p EXCEPT !.constraint = f, !.told = t, !.active = a]
<1>1. destroypointerconstraint(p, w) = q
  BY DEF destroypointerconstraint
<1>2. f \in [Window -> Kinds \cup {None}]
  BY DEF PointerType
<1>3. a \in Place /\ t \in SUBSET Window
  BY DEF PointerType, Place
<1> HIDE DEF f, a, t
<1>4. q \in PointerType
  BY <1>2, <1>3 DEF PointerType
<1>5. q.focus = p.focus /\ q.told = t /\ q.constraint = f /\ q.active = a
  BY DEF PointerType
<1> QED BY <1>1, <1>4, <1>5 DEF f, a, t

\* A constraint that goes away is not the active one any more.
LEMMA DestroySound ==
    ASSUME NEW p, NEW w \in Window, Sound(p)
    PROVE  LET q == destroypointerconstraint(p, w) IN
           /\ Sound(q) /\ q.focus = p.focus
           /\ q.constraint = [p.constraint EXCEPT ![w] = None]
           /\ q.active = IF p.active = w THEN None ELSE p.active
<1> DEFINE q == destroypointerconstraint(p, w)
<1>1. p \in PointerType /\ p.constraint \in [Window -> Kinds \cup {None}] /\ p.active \in Place
  BY DEF Sound, PointerType
<1>2. /\ q \in PointerType /\ q.focus = p.focus /\ q.told = p.told \ {w}
      /\ q.constraint = [p.constraint EXCEPT ![w] = None]
      /\ q.active = IF p.active = w THEN None ELSE p.active
  BY <1>1, DestroyFields
<1> HIDE DEF q
<1>3. q.active # None => q.constraint[q.active] # None
  BY <1>1, <1>2, SurfaceAssumption DEF Sound, Place
<1>4. q.told = {q.active} \ {None}
  BY <1>1, <1>2, SurfaceAssumption DEF Sound, Place
<1>5. Sound(q)
  BY <1>2, <1>3, <1>4 DEF Sound
<1> QED BY <1>2, <1>5 DEF q

LEMMA DestroyFollows ==
    ASSUME NEW p, NEW w \in Window, Sound(p), Follows(p)
    PROVE  Follows(destroypointerconstraint(p, w))
<1> DEFINE q == destroypointerconstraint(p, w)
<1>1. /\ q.focus = p.focus
      /\ q.constraint = [p.constraint EXCEPT ![w] = None]
      /\ q.active = IF p.active = w THEN None ELSE p.active
  BY DestroySound
<1>2. p.constraint \in [Window -> Kinds \cup {None}]
  BY DEF Sound, PointerType
<1> HIDE DEF q
<1>3. Follows(q)
  BY <1>1, <1>2, SurfaceAssumption DEF Follows, constraint_for_surface
<1> QED BY <1>3 DEF q

(***************************************************************************)
(* cursorconstrain makes w the active constraint and takes at most the one *)
(* before it away.                                                         *)
(***************************************************************************)
LEMMA ConstrainSound ==
    ASSUME NEW p, NEW w, Sound(p), Startable(p, w)
    PROVE  LET q == cursorconstrain(p, w) IN
           /\ Sound(q) /\ q.focus = p.focus /\ q.active = w
           /\ \A v \in Window : q.constraint[v] \in {p.constraint[v], None}
           /\ w \in Window => q.constraint[w] = p.constraint[w]
<1>1. CASE p.active = w
  BY <1>1 DEF cursorconstrain
<1>2. CASE p.active # w /\ p.active = None
  BY <1>2, SurfaceAssumption DEF cursorconstrain, Sound, PointerType, Place, Startable
<1>3. CASE p.active # w /\ p.active # None
  <2> DEFINE o == p.active
             q == [p EXCEPT !.active = None]
             r == send_deactivated(q, o)
  <2>1. o \in Window /\ q.constraint = p.constraint /\ q.focus = p.focus /\ q.told = {o}
        /\ q \in PointerType /\ q.active = None
    BY <1>3 DEF Sound, PointerType, Place
  <2>2. /\ r \in PointerType /\ r.told = {} /\ r.focus = p.focus
        /\ \A v \in Window : r.constraint[v] \in {p.constraint[v], None}
        /\ \A v \in Window : v # o => r.constraint[v] = p.constraint[v]
    <3>1. CASE q.constraint[o].lifetime = "oneshot"
      <4>1. r = destroypointerconstraint(q, o)
        BY <3>1 DEF send_deactivated
      <4>2. /\ r \in PointerType /\ r.told = {} /\ r.focus = p.focus
            /\ r.constraint = [p.constraint EXCEPT ![o] = None]
        <5> HIDE DEF r, q, o
        <5> QED BY <2>1, <4>1, DestroyFields
      <4>3. p.constraint \in [Window -> Kinds \cup {None}]
        BY DEF Sound, PointerType
      <4> HIDE DEF r, q, o
      <4> QED BY <2>1, <4>2, <4>3
    <3>2. CASE q.constraint[o].lifetime # "oneshot"
      <4>1. r = [q EXCEPT !.told = @ \ {o}]
        BY <3>2 DEF send_deactivated
      <4> QED BY <2>1, <4>1 DEF PointerType, Place
    <3> QED BY <3>1, <3>2
  <2> DEFINE t == r.told \cup ({w} \ {None})
             x == [r EXCEPT !.active = w, !.told = t]
  <2>3. cursorconstrain(p, w) = x
    BY <1>3 DEF cursorconstrain
  <2>4. w \in Place /\ (w \in Window => w # o /\ p.constraint[w] # None)
    BY <1>3, SurfaceAssumption DEF Startable, Place
  <2> HIDE DEF q, r
  <2>5. t \in SUBSET Window /\ t = {w} \ {None}
    BY <2>2, <2>4 DEF Place
  <2> HIDE DEF t
  <2>6. x \in PointerType
    BY <2>2, <2>4, <2>5 DEF PointerType
  <2>7. x.active = w /\ x.told = t /\ x.focus = r.focus /\ x.constraint = r.constraint
    BY <2>2 DEF PointerType
  <2> HIDE DEF x, o
  <2>8. x.active # None => x.constraint[x.active] # None
    BY <2>2, <2>4, <2>7 DEF Place
  <2>9. Sound(x)
    BY <2>5, <2>6, <2>7, <2>8 DEF Sound
  <2> QED BY <2>2, <2>3, <2>4, <2>7, <2>9
<1> QED BY <1>1, <1>2, <1>3

\* The constraint started for a surface is still the one found for it.
LEMMA StartedFound ==
    ASSUME NEW p, NEW s, Sound(p)
    PROVE  LET q == cursorconstrain(p, constraint_for_surface(p, s))
           IN  q.active = constraint_for_surface(q, s)
<1> DEFINE w == constraint_for_surface(p, s)
           q == cursorconstrain(p, w)
<1>1. /\ q.active = w
      /\ \A v \in Window : q.constraint[v] \in {p.constraint[v], None}
      /\ w \in Window => q.constraint[w] = p.constraint[w]
  BY ConstrainSound, FoundStartable
<1> HIDE DEF q
<1>2. q.active = constraint_for_surface(q, s)
  BY <1>1, SurfaceAssumption DEF constraint_for_surface
<1> QED BY <1>2 DEF q

\* The focus moves, and the constraint with it.
LEMMA EnterSound ==
    ASSUME NEW p, NEW s \in Place \cup {LockSurface}, Sound(p)
    PROVE  Sound(Enter(p, s)) /\ Follows(Enter(p, s)) /\ Enter(p, s).focus = s
<1> DEFINE q == [p EXCEPT !.focus = s]
           r == cursorconstrain(q, constraint_for_surface(q, s))
<1>1. Sound(q) /\ q.focus = s
  BY DEF Sound, PointerType
<1>2. constraint_for_surface(p, s) = constraint_for_surface(q, s)
  BY DEF constraint_for_surface, Sound, PointerType
<1>3. Enter(p, s) = r
  BY <1>2 DEF Enter
<1> HIDE DEF q
<1>4. Sound(r) /\ r.focus = s
  BY <1>1, ConstrainSound, FoundStartable
<1>5. r.active = constraint_for_surface(r, s)
  BY <1>1, StartedFound
<1> HIDE DEF r
<1> QED BY <1>3, <1>4, <1>5 DEF Follows

-----------------------------------------------------------------------------
(***************************************************************************)
(* The inductive invariant.  RunsWhatIsHeld needs that a timer that is     *)
(* armed is for a key that is down, ConstraintIsFocused that a drag has    *)
(* taken the focus away, since pointerfocus then moves the constraint      *)
(* alone.                                                                  *)
(***************************************************************************)
KeyInv ==
    /\ held \subseteq Key /\ bound \subseteq Key /\ repeats \in Key \cup {None}
    /\ repeat_info \in [delay : BOOLEAN, rate : BOOLEAN]
    /\ ran \in Key \cup {None} /\ timer \in BOOLEAN
    /\ timer => repeats \in held
    /\ RunsWhatIsHeld

PointerInv ==
    /\ under \in Place /\ down \in 0..Buttons
    /\ cursor_mode \in {"CurNormal", "CurPressed"} /\ drag \in BOOLEAN
    /\ Sound(pointer) /\ Follows(pointer)
    /\ drag => pointer.focus = None

LockInv == locked \in BOOLEAN /\ cur_lock \in BOOLEAN /\ lockscreen \in BOOLEAN

IInv == KeyInv /\ PointerInv /\ LockInv

LEMMA InitInv == Init => IInv
<1> SUFFICES ASSUME Init PROVE IInv
  OBVIOUS
<1>1. KeyInv /\ LockInv
  BY DEF Init, KeyInv, LockInv, RunsWhatIsHeld
<1>2. Sound(pointer) /\ Follows(pointer)
  BY DEF Init, Sound, Follows, PointerType, Place
<1>3. 0 \in 0..Buttons
  BY ButtonAssumption
<1>4. PointerInv
  BY <1>2, <1>3 DEF Init, PointerInv, Place
<1> QED BY <1>1, <1>4 DEF IInv

LEMMA InvImplies == IInv => TypeOK /\ RunsWhatIsHeld /\ OneConstraint /\ ConstraintIsFocused
<1> SUFFICES ASSUME IInv PROVE TypeOK /\ RunsWhatIsHeld /\ OneConstraint /\ ConstraintIsFocused
  OBVIOUS
<1>1. RunsWhatIsHeld /\ OneConstraint /\ ConstraintIsFocused
  BY DEF IInv, KeyInv, PointerInv, Sound, Follows, OneConstraint, ConstraintIsFocused
<1>2. TypeOK
  BY DEF IInv, KeyInv, PointerInv, LockInv, Sound, PointerType, TypeOK
<1> QED BY <1>1, <1>2

-----------------------------------------------------------------------------
(***************************************************************************)
(* The keyboard.                                                           *)
(***************************************************************************)
LEMMA KeyStep ==
    ASSUME IInv, Keyboard
    PROVE  IInv'
<1> USE DEF settings, lock, buttons
<1>1. UNCHANGED <<lock, under, buttons, pointer>>
  BY DEF Keyboard, keyrepeat, on_config_reload, keypress
<1>2. PointerInv' /\ LockInv'
  BY <1>1 DEF IInv, PointerInv, LockInv
<1> SUFFICES KeyInv'
  BY <1>2 DEF IInv
<1>3. CASE keyrepeat
  BY <1>3, KeyAssumption DEF IInv, KeyInv, RunsWhatIsHeld, keyrepeat
<1>4. CASE on_config_reload
  BY <1>4 DEF IInv, KeyInv, RunsWhatIsHeld, on_config_reload
<1>5. ASSUME NEW k \in Key, keypress(k) PROVE KeyInv'
  <2>1. CASE KeyEvent(k)
    BY <1>5, <2>1, KeyAssumption DEF IInv, KeyInv, RunsWhatIsHeld, keypress, KeyEvent, Handled
  <2>2. CASE k \in VtKeys \cap held' /\ ran' = None /\ UNCHANGED <<repeats, timer>>
    BY <1>5, <2>2 DEF IInv, KeyInv, RunsWhatIsHeld, keypress
  <2> QED BY <1>5, <2>1, <2>2 DEF keypress
<1> QED BY <1>3, <1>4, <1>5 DEF Keyboard

-----------------------------------------------------------------------------
(***************************************************************************)
(* The pointer.  Its steps run no binding, and those of the session lock   *)
(* leave the keyboard as it is.                                            *)
(***************************************************************************)
LEMMA QuietKeys ==
    ASSUME KeyInv, ran' = None, UNCHANGED <<held, settings, repeats, timer>>
    PROVE  KeyInv'
BY DEF KeyInv, RunsWhatIsHeld, settings

\* What motionnotify may have the pointer enter.
LEMMA AimType ==
    ASSUME PointerInv, NEW p, Sound(p), NEW u \in Place, NEW mode
    PROVE  Aim(p, u, mode) \in Place \cup {LockSurface}
BY DEF Aim, xytonode, Place

\* pointerfocus leaves a pointer as PointerInv wants it.
LEMMA FocusSound ==
    ASSUME NEW p, NEW s \in Place \cup {LockSurface}, Sound(p), Follows(p),
           drag => p.focus = None
    PROVE  LET q == pointerfocus(p, s) IN
           /\ Sound(q) /\ Follows(q) /\ (drag => q.focus = None)
           /\ q.focus \in {p.focus, s}
<1>1. CASE drag
  <2> DEFINE q == cursorconstrain(p, constraint_for_surface(p, s))
  <2>1. Sound(q) /\ q.focus = p.focus
    BY ConstrainSound, FoundStartable
  <2>2. pointerfocus(p, s) = q
    BY <1>1 DEF pointerfocus
  <2> HIDE DEF q
  <2> QED BY <1>1, <2>1, <2>2 DEF Follows
<1>2. CASE ~drag
  <2>1. pointerfocus(p, s) = Enter(p, s)
    BY <1>2 DEF pointerfocus
  <2> QED BY <1>2, <2>1, EnterSound
<1> QED BY <1>1, <1>2

LEMMA RefocusSound ==
    ASSUME PointerInv, NEW p, NEW u \in Place, NEW mode, Sound(p), Follows(p),
           drag => p.focus = None
    PROVE  LET q == Refocus(p, u, mode) IN Sound(q) /\ Follows(q) /\ (drag => q.focus = None)
BY AimType, FocusSound DEF Refocus

\* The first thing that motionnotify does finds nothing to do while there is focus.
LEMMA FirstSound ==
    ASSUME PointerInv
    PROVE  LET q == cursorconstrain(pointer, constraint_for_surface(pointer, pointer.focus)) IN
           Sound(q) /\ Follows(q) /\ (drag => q.focus = None) /\ q.focus = pointer.focus
<1> DEFINE q == cursorconstrain(pointer, constraint_for_surface(pointer, pointer.focus))
<1>1. Sound(q) /\ q.focus = pointer.focus
  BY ConstrainSound, FoundStartable DEF PointerInv
<1>2. q.active = constraint_for_surface(q, pointer.focus)
  BY StartedFound DEF PointerInv
<1> HIDE DEF q
<1>3. Follows(q)
  BY <1>1, <1>2 DEF Follows
<1>4. Sound(q) /\ Follows(q) /\ (drag => q.focus = None) /\ q.focus = pointer.focus
  BY <1>1, <1>3 DEF PointerInv
<1> QED BY <1>4 DEF q

\* The keyboard and the lock, as every step of the pointer leaves them.
LEMMA PointerLeaves ==
    ASSUME IInv, Pointer
    PROVE  KeyInv' /\ LockInv'
<1>1. ran' = None /\ UNCHANGED <<held, settings, repeats, timer>> /\ UNCHANGED lock
  BY DEF Pointer, motionnotify, buttonpress, buttonrelease, requeststartdrag, Rearrange,
     createpointerconstraint, GiveUp, Destroy
<1>2. KeyInv'
  BY <1>1, QuietKeys DEF IInv
<1> QED BY <1>1, <1>2 DEF IInv, LockInv, lock

LEMMA WarpedType == PointerInv => Warped \in SUBSET Place
BY DEF Warped, PointerInv

LEMMA MotionStep ==
    ASSUME IInv, motionnotify
    PROVE  PointerInv'
<1> DEFINE s == Aim(pointer, under, cursor_mode)
           p == cursorconstrain(pointer, constraint_for_surface(pointer, pointer.focus))
           caught == p.active # None /\ p.active = p.focus
                       /\ p.constraint[p.active].type = "locked"
<1>1. Sound(p) /\ Follows(p) /\ (drag => p.focus = None)
  BY FirstSound DEF IInv
<1>2. s \in Place \cup {LockSurface}
  BY AimType DEF IInv, PointerInv
<1>3. UNCHANGED buttons
  BY DEF motionnotify, buttons
<1> SUFFICES under' \in Place /\ Sound(pointer') /\ Follows(pointer') /\ (drag => pointer'.focus = None)
  BY <1>3 DEF IInv, PointerInv, buttons
<1>4. CASE caught
  <2>1. pointer' = p /\ under' \in Warped
    BY <1>4 DEF motionnotify
  <2> QED BY <1>1, <2>1, WarpedType DEF IInv
<1>5. CASE ~caught
  <2>1. PICK u \in Place :
          /\ under' \in Place
          /\ \/ pointer' = pointerfocus(p, s)
             \/ pointer' = pointerfocus(Refocus(p, u, cursor_mode), s)
    BY <1>5 DEF motionnotify
  <2>2. CASE pointer' = pointerfocus(p, s)
    <3> HIDE DEF p, s
    <3> QED BY <1>1, <1>2, <2>1, <2>2, FocusSound
  <2>3. CASE pointer' = pointerfocus(Refocus(p, u, cursor_mode), s)
    <3> DEFINE q == Refocus(p, u, cursor_mode)
    <3> HIDE DEF p, s
    <3>1. Sound(q) /\ Follows(q) /\ (drag => q.focus = None)
      BY <1>1, RefocusSound DEF IInv
    <3> HIDE DEF q
    <3> QED BY <1>2, <2>1, <2>3, <3>1, FocusSound DEF q
  <2> HIDE DEF p, s
  <2> QED BY <2>1, <2>2, <2>3
<1> QED BY <1>4, <1>5

LEMMA ButtonStep ==
    ASSUME IInv, buttonpress \/ buttonrelease \/ requeststartdrag
    PROVE  PointerInv'
<1>1. PointerInv /\ Sound(pointer) /\ Follows(pointer) /\ (drag => pointer.focus = None) /\ under \in Place
  BY DEF IInv, PointerInv
<1>2. Warped \in SUBSET Place
  BY <1>1, WarpedType
<1>3. CASE buttonpress
  <2>1. Sound(pointer') /\ Follows(pointer') /\ (drag => pointer'.focus = None)
    BY <1>1, <1>3, RefocusSound DEF buttonpress
  <2>2. down' \in 0..Buttons
    BY <1>1, <1>3, ButtonAssumption DEF buttonpress, PointerInv
  <2> QED BY <1>1, <1>2, <1>3, <2>1, <2>2 DEF buttonpress, PointerInv
<1>4. CASE buttonrelease
  <2>1. xytonode(under) \in Place \cup {LockSurface}
    BY <1>1 DEF xytonode
  <2>2. Sound(pointer') /\ Follows(pointer') /\ (drag' => pointer'.focus = None)
    BY <1>1, <1>4, <2>1, EnterSound DEF buttonrelease
  <2>3. down' \in 0..Buttons
    BY <1>1, <1>4, ButtonAssumption DEF buttonrelease, PointerInv
  <2>4. drag' \in BOOLEAN
    BY <1>4 DEF buttonrelease
  <2> QED BY <1>1, <1>2, <1>4, <2>2, <2>3, <2>4 DEF buttonrelease, PointerInv
<1>5. CASE requeststartdrag
  <2>1. pointer' = [pointer EXCEPT !.focus = None] /\ drag' = TRUE /\ UNCHANGED <<under, down, cursor_mode>>
    BY <1>5 DEF requeststartdrag
  <2>2. Sound(pointer') /\ pointer'.focus = None
    BY <1>1, <2>1 DEF Sound, PointerType, Place
  <2> QED BY <1>1, <2>1, <2>2 DEF PointerInv, Follows
<1> QED BY <1>3, <1>4, <1>5

\* A constraint that is new is the active one when its window has the pointer.
LEMMA ConstrainedSound ==
    ASSUME PointerInv, NEW w \in Window, NEW kind \in Kinds, pointer.constraint[w] = None
    PROVE  LET q == Constrained(pointer, w, kind) IN
           Sound(q) /\ Follows(q) /\ (drag => q.focus = None) /\ q.focus = pointer.focus
<1> DEFINE f == [pointer.constraint EXCEPT ![w] = kind]
           q == [pointer EXCEPT !.constraint = f]
<1>1. pointer \in PointerType /\ pointer.constraint \in [Window -> Kinds \cup {None}]
  BY DEF PointerInv, Sound, PointerType
<1>2. f \in [Window -> Kinds \cup {None}] /\ f[w] = kind /\ \A v \in Window \ {w} : f[v] = pointer.constraint[v]
  BY <1>1
<1> HIDE DEF f
<1>3. /\ q \in PointerType /\ q.constraint = f /\ q.focus = pointer.focus
      /\ q.active = pointer.active /\ q.told = pointer.told
  BY <1>1, <1>2 DEF PointerType
<1>4. Sound(q)
  BY <1>1, <1>2, <1>3, SurfaceAssumption DEF PointerInv, Sound, PointerType, Place
<1>5. Constrained(pointer, w, kind) = IF pointer.focus = w THEN cursorconstrain(q, w) ELSE q
  BY DEF Constrained, f
<1> HIDE DEF q
<1>6. CASE pointer.focus = w
  <2> DEFINE r == cursorconstrain(q, w)
  <2>1. Startable(q, w)
    BY <1>2, <1>3, KindAssumption DEF Startable
  <2>2. Sound(r) /\ r.focus = w /\ r.active = w /\ r.constraint[w] = kind
    BY <1>2, <1>3, <1>4, <1>6, <2>1, ConstrainSound
  <2> HIDE DEF r
  <2>3. Sound(r) /\ Follows(r) /\ (drag => r.focus = None) /\ r.focus = pointer.focus
    BY <1>6, <2>2, KindAssumption DEF Follows, constraint_for_surface, PointerInv
  <2> QED BY <1>5, <1>6, <2>3 DEF r
<1>7. CASE pointer.focus # w
  BY <1>2, <1>3, <1>4, <1>5, <1>7, SurfaceAssumption DEF Follows, constraint_for_surface, PointerInv
<1> QED BY <1>6, <1>7

LEMMA ConstraintStep ==
    ASSUME IInv, NEW w \in Window, createpointerconstraint(w) \/ GiveUp(w)
    PROVE  PointerInv'
<1>1. PointerInv /\ Sound(pointer) /\ Follows(pointer) /\ (drag => pointer.focus = None)
  BY DEF IInv, PointerInv
<1>2. Warped \in SUBSET Place
  BY <1>1, WarpedType
<1>3. under' \in Place /\ UNCHANGED buttons
  BY <1>2 DEF createpointerconstraint, GiveUp, buttons
<1> SUFFICES Sound(pointer') /\ Follows(pointer') /\ (drag => pointer'.focus = None)
  BY <1>1, <1>3 DEF PointerInv, buttons
<1>4. CASE createpointerconstraint(w)
  <2>1. PICK kind \in Kinds : pointer' = Constrained(pointer, w, kind)
    BY <1>4 DEF createpointerconstraint
  <2> QED BY <1>1, <1>4, <2>1, ConstrainedSound DEF createpointerconstraint
<1>5. CASE GiveUp(w)
  <2>1. pointer' = destroypointerconstraint(pointer, w)
    BY <1>5 DEF GiveUp
  <2> QED BY <1>1, <2>1, DestroySound, DestroyFollows
<1> QED BY <1>4, <1>5

LEMMA RearrangeStep ==
    ASSUME IInv, Rearrange
    PROVE  PointerInv'
<1>1. PointerInv /\ Sound(pointer) /\ Follows(pointer) /\ (drag => pointer.focus = None)
  BY DEF IInv, PointerInv
<1>2. Sound(pointer') /\ Follows(pointer') /\ (drag => pointer'.focus = None)
  BY <1>1, RefocusSound DEF Rearrange
<1> QED BY <1>1, <1>2 DEF Rearrange, buttons, PointerInv

\* The focus that a surface leaves behind.
LEMMA UnfocusSound ==
    ASSUME NEW p, Sound(p)
    PROVE  LET q == [p EXCEPT !.focus = None] IN Sound(q) /\ Follows(q) /\ q.focus = None
<1> DEFINE q == [p EXCEPT !.focus = None]
<1>1. Sound(q) /\ q.focus = None
  BY DEF Sound, PointerType, Place
<1> QED BY <1>1 DEF Follows

LEMMA DestroyStep ==
    ASSUME IInv, NEW w \in Window, Destroy(w)
    PROVE  PointerInv'
<1>1. PointerInv /\ Sound(pointer) /\ Follows(pointer) /\ (drag => pointer.focus = None)
  BY DEF IInv, PointerInv
<1>2. PICK u \in Place \ {w} :
        LET p == Refocus(pointer, u, cursor_mode)
            q == IF p.constraint[w] = None THEN p ELSE destroypointerconstraint(p, w)
        IN  pointer' = [q EXCEPT !.focus = IF @ = w THEN None ELSE @]
  BY DEF Destroy
<1> DEFINE p == Refocus(pointer, u, cursor_mode)
           q == IF p.constraint[w] = None THEN p ELSE destroypointerconstraint(p, w)
<1>3. Sound(p) /\ Follows(p) /\ (drag => p.focus = None)
  BY <1>1, RefocusSound
<1> HIDE DEF p
<1>4. Sound(q) /\ Follows(q) /\ (drag => q.focus = None)
  BY <1>3, DestroySound, DestroyFollows
<1>5. pointer' = [q EXCEPT !.focus = IF q.focus = w THEN None ELSE q.focus]
  BY <1>2 DEF p
<1> HIDE DEF q
<1>6. Sound(pointer') /\ Follows(pointer') /\ (drag => pointer'.focus = None)
  <2>1. CASE q.focus = w
    <3>1. pointer' = [q EXCEPT !.focus = None]
      BY <1>5, <2>1
    <3> QED BY <1>4, <3>1, UnfocusSound
  <2>2. CASE q.focus # w
    <3>1. pointer' = q
      BY <1>4, <1>5, <2>2 DEF Sound, PointerType
    <3> QED BY <1>4, <3>1
  <2> QED BY <2>1, <2>2
<1> QED BY <1>1, <1>6 DEF Destroy, buttons, PointerInv

-----------------------------------------------------------------------------
(***************************************************************************)
(* The session lock.                                                       *)
(***************************************************************************)
LEMMA SurfacelessSound ==
    ASSUME NEW p, Sound(p), Follows(p)
    PROVE  LET q == Surfaceless(p) IN
           Sound(q) /\ Follows(q) /\ q.focus = IF p.focus = LockSurface THEN None ELSE p.focus
<1>1. CASE p.focus = LockSurface
  <2>1. Surfaceless(p) = [p EXCEPT !.focus = None]
    BY <1>1 DEF Surfaceless
  <2> QED BY <1>1, <2>1, UnfocusSound
<1>2. CASE p.focus # LockSurface
  <2>1. Surfaceless(p) = p
    BY <1>2 DEF Surfaceless, Sound, PointerType
  <2> QED BY <1>2, <2>1
<1> QED BY <1>1, <1>2

LEMMA LockStep ==
    ASSUME IInv, SessionLock
    PROVE  IInv'
<1>1. PointerInv /\ Sound(pointer) /\ Follows(pointer) /\ (drag => pointer.focus = None) /\ under \in Place
  BY DEF IInv, PointerInv
<1>2. ran' = None /\ UNCHANGED <<held, settings, repeats, timer>> /\ UNCHANGED buttons
  BY DEF SessionLock, locksession, createlocksurface, unlocksession, destroysessionlock
<1>3. KeyInv'
  BY <1>2, QuietKeys DEF IInv
<1>4. LockInv'
  BY DEF IInv, LockInv, SessionLock, locksession, createlocksurface, unlocksession, destroysessionlock
<1> SUFFICES PointerInv'
  BY <1>3, <1>4 DEF IInv
<1>5. CASE locksession \/ createlocksurface
  BY <1>1, <1>2, <1>5 DEF locksession, createlocksurface, buttons, PointerInv
<1>6. CASE unlocksession
  <2> DEFINE p == Refocus(pointer, under, cursor_mode)
  <2>1. Sound(p) /\ Follows(p) /\ (drag => p.focus = None)
    BY <1>1, RefocusSound
  <2>2. pointer' = Surfaceless(p) /\ under' \in Warped
    BY <1>6 DEF unlocksession
  <2> HIDE DEF p
  <2>3. Sound(pointer') /\ Follows(pointer') /\ (drag => pointer'.focus = None)
    BY <2>1, <2>2, SurfacelessSound
  <2> QED BY <1>1, <1>2, <2>2, <2>3, WarpedType DEF buttons, PointerInv
<1>7. CASE destroysessionlock
  <2>1. Sound(pointer') /\ Follows(pointer') /\ (drag => pointer'.focus = None)
    BY <1>1, <1>7, SurfacelessSound DEF destroysessionlock
  <2> QED BY <1>1, <1>2, <1>7, <2>1 DEF destroysessionlock, buttons, PointerInv
<1> QED BY <1>5, <1>6, <1>7 DEF SessionLock

-----------------------------------------------------------------------------
LEMMA NextInv ==
    ASSUME IInv, [Next]_vars
    PROVE  IInv'
<1>1. CASE Keyboard
  BY <1>1, KeyStep
<1>2. CASE Pointer
  <2>1. PointerInv'
    BY <1>2, MotionStep, ButtonStep, ConstraintStep, RearrangeStep, DestroyStep DEF Pointer
  <2> QED BY <1>2, <2>1, PointerLeaves DEF IInv
<1>3. CASE SessionLock
  BY <1>3, LockStep
<1>4. CASE UNCHANGED vars
  BY <1>4 DEF vars, keyboard, settings, lock, buttons, IInv, KeyInv, PointerInv, LockInv, RunsWhatIsHeld
<1> QED BY <1>1, <1>2, <1>3, <1>4 DEF Next

(***************************************************************************)
(* Whatever the order of key events, reloads, locks and the timer, what    *)
(* runs is bound, held and unlocked; whatever moves the pointer, creates,  *)
(* ends or destroys constraints, one at most is active: it exists, its     *)
(* client knows, and it is that of the surface with the pointer.           *)
(***************************************************************************)
THEOREM InputIsSound ==
    Spec => [](TypeOK /\ RunsWhatIsHeld /\ OneConstraint /\ ConstraintIsFocused)
<1>1. Init => IInv
  BY InitInv
<1>2. IInv /\ [Next]_vars => IInv'
  BY NextInv
<1>3. IInv => TypeOK /\ RunsWhatIsHeld /\ OneConstraint /\ ConstraintIsFocused
  BY InvImplies
<1> QED BY <1>1, <1>2, <1>3, PTL DEF Spec

(***************************************************************************)
(* The binding that runs is one of a key that is down, and the session is  *)
(* not locked, also when the key repeats.                                  *)
(***************************************************************************)
THEOREM OnlyHeldKeysRun == Spec => []RunsWhatIsHeld
BY InputIsSound, PTL

(***************************************************************************)
(* The client of the active constraint, and no other, believes that its    *)
(* constraint is active, whichever way the one before it ended.            *)
(***************************************************************************)
THEOREM OneClientConstrained == Spec => []OneConstraint
BY InputIsSound, PTL

-----------------------------------------------------------------------------
(***************************************************************************)
(* A button that stays down.                                               *)
(***************************************************************************)
\* Looking for the focus again finds the window that has it.
LEMMA RefocusHolds ==
    ASSUME PointerInv, ~drag, NEW p, NEW u \in Place, Sound(p), Follows(p), p.focus \in Window
    PROVE  LET q == Refocus(p, u, "CurPressed")
           IN  q.focus = p.focus /\ Sound(q) /\ Follows(q)
<1>1. Aim(p, u, "CurPressed") = p.focus /\ p.focus \in Place \cup {LockSurface}
  BY DEF Aim, Place
<1> QED BY <1>1, FocusSound DEF Refocus

LEMMA MotionHolds ==
    ASSUME PointerInv, motionnotify, cursor_mode = "CurPressed", ~drag, pointer.focus \in Window
    PROVE  pointer'.focus = pointer.focus
<1> DEFINE s == Aim(pointer, under, cursor_mode)
           p == cursorconstrain(pointer, constraint_for_surface(pointer, pointer.focus))
<1>1. Sound(p) /\ Follows(p) /\ p.focus = pointer.focus
  BY FirstSound
<1>2. s = pointer.focus /\ s \in Place \cup {LockSurface}
  BY DEF Aim, Place
<1>3. PICK u \in Place :
        \/ pointer' = p
        \/ pointer' = pointerfocus(p, s)
        \/ pointer' = pointerfocus(Refocus(p, u, cursor_mode), s)
  BY DEF motionnotify, Place
<1> DEFINE q == Refocus(p, u, cursor_mode)
<1> HIDE DEF p, s
<1>4. Sound(q) /\ Follows(q) /\ q.focus = p.focus
  BY <1>1, RefocusHolds
<1>5. pointerfocus(p, s).focus = pointer.focus
  BY <1>1, <1>2, FocusSound
<1> HIDE DEF q
<1>6. pointerfocus(q, s).focus = pointer.focus
  BY <1>1, <1>2, <1>4, FocusSound
<1> QED BY <1>1, <1>3, <1>5, <1>6 DEF q

LEMMA HoldStep ==
    ASSUME IInv, [Next]_vars, cursor_mode = "CurPressed", cursor_mode' = "CurPressed",
           ~drag, ~drag', pointer.focus \in Window
    PROVE  pointer'.focus \in {pointer.focus, None}
<1>1. PointerInv /\ Sound(pointer) /\ Follows(pointer) /\ under \in Place
  BY DEF IInv, PointerInv
<1>2. CASE UNCHANGED pointer
  BY <1>2
<1>3. CASE motionnotify
  BY <1>1, <1>3, MotionHolds
<1>4. CASE buttonpress \/ Rearrange
  BY <1>1, <1>4, RefocusHolds DEF buttonpress, Rearrange
<1>5. ASSUME NEW w \in Window, createpointerconstraint(w) PROVE pointer'.focus = pointer.focus
  <2>1. PICK kind \in Kinds : pointer' = Constrained(pointer, w, kind)
    BY <1>5 DEF createpointerconstraint
  <2> QED BY <1>1, <1>5, <2>1, ConstrainedSound DEF createpointerconstraint
<1>6. ASSUME NEW w \in Window, GiveUp(w) PROVE pointer'.focus = pointer.focus
  BY <1>1, <1>6, DestroySound DEF GiveUp
<1>7. ASSUME NEW w \in Window, Destroy(w) PROVE pointer'.focus \in {pointer.focus, None}
  <2>1. PICK u \in Place \ {w} :
          LET p == Refocus(pointer, u, cursor_mode)
              q == IF p.constraint[w] = None THEN p ELSE destroypointerconstraint(p, w)
          IN  pointer' = [q EXCEPT !.focus = IF @ = w THEN None ELSE @]
    BY <1>7 DEF Destroy
  <2> DEFINE p == Refocus(pointer, u, cursor_mode)
             q == IF p.constraint[w] = None THEN p ELSE destroypointerconstraint(p, w)
  <2>2. p.focus = pointer.focus /\ Sound(p)
    BY <1>1, RefocusHolds
  <2> HIDE DEF p
  <2>3. q.focus = pointer.focus /\ Sound(q)
    BY <2>2, DestroySound
  <2>4. pointer' = [q EXCEPT !.focus = IF q.focus = w THEN None ELSE q.focus]
    BY <2>1 DEF p
  <2> HIDE DEF q
  <2> QED BY <2>3, <2>4 DEF Sound, PointerType
<1>8. CASE unlocksession
  <2> DEFINE p == Refocus(pointer, under, cursor_mode)
  <2>1. p.focus = pointer.focus /\ Sound(p) /\ Follows(p)
    BY <1>1, RefocusHolds
  <2>2. pointer' = Surfaceless(p)
    BY <1>8 DEF unlocksession
  <2> HIDE DEF p
  <2> QED BY <2>1, <2>2, SurfacelessSound
<1>9. CASE destroysessionlock
  BY <1>1, <1>9, SurfacelessSound DEF destroysessionlock
<1>10. Keyboard \/ locksession \/ createlocksurface => UNCHANGED pointer
  BY DEF Keyboard, keyrepeat, on_config_reload, keypress, locksession, createlocksurface
<1>11. ~buttonrelease /\ ~requeststartdrag
  BY DEF buttonrelease, requeststartdrag
<1> QED BY <1>2, <1>3, <1>4, <1>5, <1>6, <1>7, <1>8, <1>9, <1>10, <1>11
        DEF Next, Pointer, SessionLock, vars

(***************************************************************************)
(* A window in which a button is held keeps the pointer whatever happens   *)
(* to the other windows, the constraints and the lock.                     *)
(***************************************************************************)
THEOREM ButtonHoldsFocus == Spec => HeldButtonHoldsFocus
<1>1. Init => IInv
  BY InitInv
<1>2. IInv /\ [Next]_vars => IInv'
  BY NextInv
<1>3. IInv /\ [Next]_vars =>
        [cursor_mode = "CurPressed" /\ cursor_mode' = "CurPressed" /\ ~drag /\ ~drag'
           /\ pointer.focus \in Window
         => pointer'.focus \in {pointer.focus, None}]_vars
  BY HoldStep
<1> QED BY <1>1, <1>2, <1>3, PTL DEF Spec, HeldButtonHoldsFocus

=============================================================================
