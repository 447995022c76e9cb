--------------------------- MODULE DesktopProofs ----------------------------
(***************************************************************************)
(* Theorems about modules Desk and Desktop, for any windows, outputs,      *)
(* layer surfaces, lockers and tags. The first part: every handler leaves  *)
(* a well-typed desk, the layout stays usable and the session lock is held *)
(* through all of them. The second part: which lists the windows are in,   *)
(* which output they are on, the tags they have and whether the scene      *)
(* shows them.                                                             *)
(*                                                                         *)
(* The lemmas follow the call graph of main.c. Kept(d, e) says of a        *)
(* function that turns desk d into e that e is a desk, that the lock, the  *)
(* list and the state of the outputs and the layout are as they were, that *)
(* under the lock the keyboard stayed or went to a lock surface, and that  *)
(* a grab still has its window. One lemma per function of Desk shows it    *)
(* from those of the functions it calls, with module Loops for the loops   *)
(* over windows and outputs. updatemons alone changes the layout:          *)
(* UpdatemonsKept says what it makes of it. One lemma per group of         *)
(* handlers of Desktop follows; the handlers of the lock come last, with   *)
(* the inductive invariant.                                                *)
(***************************************************************************)
EXTENDS Desktop, Loops, SequenceTheorems, FiniteSetTheorems

WinOrNone == Client \cup {NoWin}

\* Refocus only names RefocusOn at selmon: no proof needs it closed.
USE DEF Refocus

KeptButLayout(d, e) ==
    /\ e \in Desks
    /\ e.mons = d.mons
    /\ e.on = d.on
    /\ e.asleep = d.asleep
    /\ e.locked = d.locked
    /\ e.lockbg = d.lockbg
    /\ e.curlock = d.curlock
    /\ e.locksurf = d.locksurf
    /\ d.locked => e.kb \in {d.kb} \cup d.locksurf
    /\ \/ d.cursor_mode # "CurNormal" /\ d.grabc = NoWin
       \/ e.cursor_mode = "CurNormal" \/ e.grabc # NoWin

Kept(d, e) == KeptButLayout(d, e) /\ e.layout = d.layout

LEMMA KeptSame ==
    ASSUME NEW d \in Desks
    PROVE  Kept(d, d)
BY DEF Kept, KeptButLayout

LEMMA KeptTwice ==
    ASSUME NEW d, NEW e, NEW f, Kept(d, e), Kept(e, f)
    PROVE  Kept(d, f)
BY DEF Kept, KeptButLayout

-----------------------------------------------------------------------------
(***************************************************************************)
(* Lists.                                                                  *)
(***************************************************************************)
LEMMA FirstInMember ==
    ASSUME NEW T, NEW s \in Seq(T), NEW S, Listed(s) \cap S # {}
    PROVE  FirstIn(s, S) \in T \cap S
<1> DEFINE K == {i \in DOMAIN s : s[i] \in S}
<1>1. K \in SUBSET Nat /\ K # {}
  BY DEF Listed
<1>2. PICK i \in K : \A j \in K : i <= j
  BY <1>1, Least
<1>3. i \in DOMAIN s /\ s[i] \in S /\ \A j \in 1..(i - 1) : s[j] \notin S
  <2>1. ASSUME NEW j \in 1..(i - 1) PROVE s[j] \notin S
    <3>1. j \in DOMAIN s /\ ~(i <= j)
      BY <1>2
    <3> QED BY <1>2, <3>1
  <2> QED BY <1>2, <2>1
<1> QED BY <1>3 DEF FirstIn

LEMMA WithoutIsList ==
    ASSUME NEW T, NEW s \in Seq(T), NEW x
    PROVE  Without(s, x) \in Seq(T)
<1>1. CASE x \in Listed(s)
  <2> DEFINE i == CHOOSE j \in DOMAIN s : s[j] = x
  <2>1. i \in 1..Len(s)
    BY <1>1 DEF Listed
  <2>2. SubSeq(s, 1, i - 1) \in Seq(T) /\ SubSeq(s, i + 1, Len(s)) \in Seq(T)
    <3> HIDE DEF i
    <3> QED BY <2>1
  <2>3. Without(s, x) = SubSeq(s, 1, i - 1) \o SubSeq(s, i + 1, Len(s))
    BY <1>1 DEF Without
  <2> HIDE DEF i
  <2> QED BY <2>2, <2>3
<1>2. CASE x \notin Listed(s)
  BY <1>2 DEF Without
<1> QED BY <1>1, <1>2

LEMMA ToHeadIsList ==
    ASSUME NEW T, NEW s \in Seq(T), NEW x \in T
    PROVE  ToHead(s, x) \in Seq(T)
BY WithoutIsList DEF ToHead

LEMMA ListedMembers ==
    ASSUME NEW T, NEW s \in Seq(T)
    PROVE  Listed(s) \subseteq T
BY DEF Listed

LEMMA ListedFinite ==
    ASSUME NEW T, NEW s \in Seq(T)
    PROVE  IsFiniteSet(Listed(s))
<1>1. Len(s) \in Nat /\ s \in [1..Len(s) -> Listed(s)]
  BY DEF Listed
<1>2. \A x \in Listed(s) : \E i \in 1..Len(s) : s[i] = x
  BY DEF Listed
<1>3. s \in Surjection(1..Len(s), Listed(s))
  BY <1>1, <1>2 DEF Surjection
<1> QED BY <1>1, <1>3, FS_Interval, FS_Surjection

LEMMA WithoutMembers ==
    ASSUME NEW T, NEW s \in Seq(T), NEW x, Distinct(s)
    PROVE  Distinct(Without(s, x)) /\ Listed(Without(s, x)) = Listed(s) \ {x}
<1>1. CASE x \in Listed(s)
  <2> DEFINE p == CHOOSE j \in DOMAIN s : s[j] = x
  <2>1. p \in DOMAIN s /\ s[p] = x
    BY <1>1 DEF Listed
  <2>2. Without(s, x) = SubSeq(s, 1, p - 1) \o SubSeq(s, p + 1, Len(s))
    BY <1>1 DEF Without
  <2> HIDE DEF p
  <2>3. Members(s) = Listed(s) /\ Members(Without(s, x)) = Listed(Without(s, x))
    BY DEF Members, Listed
  <2> QED BY <2>1, <2>2, <2>3, CutOut
<1>2. CASE x \notin Listed(s)
  BY <1>2 DEF Without
<1> QED BY <1>1, <1>2

LEMMA PrependMembers ==
    ASSUME NEW T, NEW s \in Seq(T), NEW x \in T, x \notin Listed(s)
    PROVE  /\ <<x>> \o s \in Seq(T)
           /\ Listed(<<x>> \o s) = {x} \cup Listed(s)
           /\ Distinct(s) => Distinct(<<x>> \o s)
<1>1. /\ Members(s) = Listed(s)
      /\ Members(<<x>> \o s) = Listed(<<x>> \o s)
  BY DEF Members, Listed
<1> QED BY <1>1, Prepended

LEMMA TopmostMember ==
    ASSUME NEW S \in SUBSET Layer, S # {}
    PROVE  Topmost(S) \in S
<1> DEFINE K == {i \in DOMAIN Stack : Stack[i] \in S}
<1>1. Len(Stack) \in Nat /\ K \in SUBSET (1..Len(Stack)) /\ K # {}
  BY StackAssumption DEF Layer, Listed
<1>2. PICK i \in K : \A j \in K : j <= i
  BY <1>1, Greatest
<1>3. i \in DOMAIN Stack /\ Stack[i] \in S /\ \A j \in DOMAIN Stack : Stack[j] \in S => j <= i
  BY <1>2
<1> QED BY <1>3 DEF Topmost

LEMMA FocustopIsWindow ==
    ASSUME NEW d \in Desks, NEW m
    PROVE  focustop(d, m) \in WinOrNone
<1>1. d.fstack \in Seq(Client)
  BY DEF Desks
<1> QED BY <1>1, FirstInMember DEF focustop, WinOrNone

LEMMA ShiftedTagIsTag ==
    ASSUME NEW S \in SUBSET Tag, NEW n \in {-1, 1}
    PROVE  ShiftedTag(S, n) \in SUBSET Tag
<1> DEFINE low == IF S = {} THEN 1 ELSE CHOOSE t \in S : \A u \in S : t <= u
<1>1. low \in Tag
  <2>1. CASE S = {}
    BY <2>1, TagAssumption DEF Tag
  <2>2. CASE S # {}
    <3>1. S \in SUBSET Nat
      BY TagAssumption DEF Tag
    <3>2. \E t \in S : \A u \in S : t <= u
      BY <2>2, <3>1, Least
    <3> QED BY <2>2, <3>2
  <2> QED BY <2>1, <2>2
<1>2. ((low - 1 + n + TAGCOUNT) % TAGCOUNT) + 1 \in Tag
  <2> HIDE DEF low
  <2> QED BY <1>1, TagAssumption DEF Tag
<1> QED BY <1>2 DEF ShiftedTag

-----------------------------------------------------------------------------
(***************************************************************************)
(* Focus and arrangement.                                                  *)
(***************************************************************************)
LEMMA FocusclientKept ==
    ASSUME NEW d \in Desks, NEW c \in WinOrNone
    PROVE  Kept(d, focusclient(d, c))
<1>1. CASE d.locked \/ (c # NoWin /\ c = d.kb)
  BY <1>1, KeptSame DEF focusclient
<1>2. CASE ~(d.locked \/ (c # NoWin /\ c = d.kb))
  <2> DEFINE e == RaiseFocus(d, c)
  <2>1. Kept(d, e)
    <3>1. CASE c = NoWin
      BY <3>1, KeptSame DEF RaiseFocus
    <3>2. CASE c # NoWin
      <4>1. c \in Client /\ d.fstack \in Seq(Client)
        BY <3>2 DEF Desks, WinOrNone
      <4>2. ToHead(d.fstack, c) \in Seq(Client) /\ d.mon[c] \in SomeMon
        BY <4>1, ToHeadIsList DEF Desks
      <4> QED BY <3>2, <4>2 DEF RaiseFocus, Desks, Kept, KeptButLayout
    <3> QED BY <3>1, <3>2
  <2>2. Kept(d, [e EXCEPT !.kb = c])
    <3> HIDE DEF e
    <3> QED BY <1>2, <2>1 DEF Kept, KeptButLayout, Desks, Focusable, WinOrNone
  <2> QED BY <1>2, <2>1, <2>2 DEF focusclient
<1> QED BY <1>1, <1>2

LEMMA RefocusOnKept ==
    ASSUME NEW d \in Desks, NEW m
    PROVE  Kept(d, RefocusOn(d, m))
BY FocustopIsWindow, FocusclientKept DEF RefocusOn

LEMMA ArrangeKept ==
    ASSUME NEW d \in Desks, NEW m
    PROVE  Kept(d, arrange(d, m))
<1>1. Mapped(d) \in SUBSET Client
  BY ListedMembers DEF Mapped, Desks
<1> QED BY <1>1 DEF arrange, Kept, KeptButLayout, Desks

LEMMA RedisplayKept ==
    ASSUME NEW d \in Desks, NEW m
    PROVE  Kept(d, Redisplay(d, m))
<1>1. Kept(d, RefocusOn(d, m))
  BY RefocusOnKept
<1>2. RefocusOn(d, m) \in Desks
  BY <1>1 DEF Kept, KeptButLayout
<1> QED BY <1>1, <1>2, ArrangeKept, KeptTwice DEF Redisplay

LEMMA ArrangelayersKept ==
    ASSUME NEW d \in Desks, NEW m
    PROVE  Kept(d, arrangelayers(d, m))
<1>1. CASE m \notin d.on \/ d.locked \/ Interactive(d, m) = {}
  BY <1>1, KeptSame DEF arrangelayers
<1>2. CASE ~(m \notin d.on \/ d.locked \/ Interactive(d, m) = {})
  <2> DEFINE e == focusclient(d, NoWin)
  <2>1. Topmost(Interactive(d, m)) \in Focusable
    BY <1>2, TopmostMember DEF Interactive, Focusable
  <2>2. Kept(d, e)
    BY FocusclientKept DEF WinOrNone
  <2>3. Kept(d, [e EXCEPT !.kb = Topmost(Interactive(d, m))])
    <3> HIDE DEF e
    <3> QED BY <1>2, <2>1, <2>2 DEF Kept, KeptButLayout, Desks
  <2> QED BY <1>2, <2>3 DEF arrangelayers
<1> QED BY <1>1, <1>2

LEMMA UnmaplayerKept ==
    ASSUME NEW d \in Desks, NEW l \in Layer
    PROVE  Kept(d, unmaplayersurfacenotify(d, l))
<1> DEFINE m    == d.lmon[l]
           gone == [d EXCEPT !.lmon[l] = NoMon, !.grabs = @ \ {l}]
           e    == arrangelayers(gone, m)
<1>1. Kept(d, gone)
  BY DEF Kept, KeptButLayout, Desks, SomeMon
<1>2. Kept(d, e)
  <2> HIDE DEF gone, m
  <2> QED BY <1>1, ArrangelayersKept, KeptTwice DEF Kept, KeptButLayout
<1>3. Kept(d, Refocus(e))
  <2> HIDE DEF e
  <2> QED BY <1>2, RefocusOnKept, KeptTwice DEF Kept, KeptButLayout
<1> QED BY <1>2, <1>3 DEF unmaplayersurfacenotify
-----------------------------------------------------------------------------
(***************************************************************************)
(* Windows and outputs.                                                    *)
(***************************************************************************)
LEMMA CancelKept ==
    ASSUME NEW d \in Desks, NEW c
    PROVE  Kept(d, canvas_cancel_grab(d, c))
BY DEF canvas_cancel_grab, Ungrabbed, Kept, KeptButLayout, Desks, CursorModes

LEMMA SetmonKept ==
    ASSUME NEW d \in Desks, NEW c \in Client, NEW m \in SomeMon,
           NEW newtags \in SUBSET Tag
    PROVE  Kept(d, setmon(d, c, m, newtags))
<1> DEFINE free    == canvas_cancel_grab(d, c)
           moved   == [free EXCEPT !.mon[c] = m, !.leaving = @ \ {c}]
           left    == arrange(moved, d.mon[c])
           tagged  == [left EXCEPT !.tags[c] = IF newtags = {} THEN d.viewed[m]
                                               ELSE newtags]
           arrived == IF m = NoMon THEN left ELSE arrange(tagged, m)
<1>1. Kept(d, moved)
  <2>1. Kept(d, free)
    BY CancelKept
  <2> HIDE DEF free
  <2>2. Kept(free, moved)
    BY <2>1 DEF Kept, KeptButLayout, Desks, SomeMon
  <2> QED BY <2>1, <2>2, KeptTwice
<1>2. Kept(d, left)
  <2> HIDE DEF moved
  <2> QED BY <1>1, ArrangeKept, KeptTwice DEF Kept, KeptButLayout
<1>3. m # NoMon => Kept(d, tagged)
  <2> HIDE DEF left
  <2>1. m # NoMon => d.viewed[m] \in SUBSET Tag
    BY DEF Desks, SomeMon
  <2> QED BY <1>2, <2>1 DEF Kept, KeptButLayout, Desks
<1>4. Kept(d, arrived)
  <2> HIDE DEF left, tagged
  <2> QED BY <1>2, <1>3, ArrangeKept, KeptTwice DEF Kept, KeptButLayout
<1>5. Kept(d, Refocus(arrived))
  <2> HIDE DEF arrived
  <2> QED BY <1>4, RefocusOnKept, KeptTwice DEF Kept, KeptButLayout
<1> QED BY <1>5, KeptSame DEF setmon, Arrived

LEMMA MigrateKept ==
    ASSUME NEW d \in Desks, NEW c \in Client, NEW from
    PROVE  Kept(d, Migrate(d, c, from))
<1>1. d.selmon \in SomeMon /\ d.tags[c] \in SUBSET Tag
  BY DEF Desks
<1> QED BY <1>1, SetmonKept, KeptSame DEF Migrate

\* Loops, for rounds that turn desks into desks.
LEMMA DeskLoop ==
    ASSUME NEW d \in Desks, NEW n \in Nat, NEW G \in [(1..n) \X Desks -> Desks]
    PROVE  \E f \in [0..n -> Desks] :
               f[0] = d /\ \A i \in 1..n : f[i] = G[<<i, f[i - 1]>>]
BY LoopExists

\* The loop of MigrateAll has a run over the windows.
LEMMA MigrateAllRuns ==
    ASSUME NEW d \in Desks, NEW from
    PROVE  \E run :
              /\ run[0] = d
              /\ \A i \in 1..Len(d.clients) :
                   run[i] = Migrate(run[i - 1], d.clients[i], from)
              /\ MigrateAll(d, from) = run[Len(d.clients)]
<1> DEFINE n == Len(d.clients)
           run[i \in 0..n] ==
               IF i = 0 THEN d ELSE Migrate(run[i - 1], d.clients[i], from)
           G == [p \in (1..n) \X Desks |-> Migrate(p[2], d.clients[p[1]], from)]
<1>1. n \in Nat /\ \A i \in 1..n : d.clients[i] \in Client
  BY DEF Desks
<1>2. \A i \in 1..n, e \in Desks : Kept(e, Migrate(e, d.clients[i], from))
  BY <1>1, MigrateKept
<1>3. G \in [(1..n) \X Desks -> Desks]
  BY <1>2 DEF Kept, KeptButLayout
<1>4. PICK f \in [0..n -> Desks] :
             f[0] = d /\ \A i \in 1..n : f[i] = G[<<i, f[i - 1]>>]
  <2> HIDE DEF G, n
  <2> QED BY <1>1, <1>3, DeskLoop
<1>5. ASSUME NEW i \in 1..n
      PROVE  f[i] = Migrate(f[i - 1], d.clients[i], from)
  <2>1. <<i, f[i - 1]>> \in (1..n) \X Desks
    BY <1>1
  <2> QED BY <1>4, <2>1
<1>6. f = [i \in 0..n |->
             IF i = 0 THEN d ELSE Migrate(f[i - 1], d.clients[i], from)]
  <2> HIDE DEF G, n
  <2> QED BY <1>1, <1>4, <1>5
<1>7. run = [i \in 0..n |->
               IF i = 0 THEN d ELSE Migrate(run[i - 1], d.clients[i], from)]
  BY <1>6
<1>8. MigrateAll(d, from) = run[n]
  BY DEF MigrateAll, run
<1> HIDE DEF run
<1>9. run[0] = d /\ \A i \in 1..n : run[i] = Migrate(run[i - 1], d.clients[i], from)
  BY <1>1, <1>7
<1> QED BY <1>8, <1>9

LEMMA MigrateAllKept ==
    ASSUME NEW d \in Desks, NEW from
    PROVE  Kept(d, MigrateAll(d, from))
<1> DEFINE n == Len(d.clients)
           S == {e \in Desks : Kept(d, e)}
<1>1. PICK run :
            /\ run[0] = d
            /\ \A i \in 1..n : run[i] = Migrate(run[i - 1], d.clients[i], from)
            /\ MigrateAll(d, from) = run[n]
  BY MigrateAllRuns
<1>2. n \in Nat /\ \A i \in 1..n : d.clients[i] \in Client
  BY DEF Desks
<1>3. run[0] \in S
  BY <1>1, KeptSame
<1>4. ASSUME NEW i \in 1..n, run[i - 1] \in S PROVE run[i] \in S
  <2>1. Kept(run[i - 1], run[i])
    BY <1>1, <1>2, <1>4, MigrateKept
  <2> QED BY <1>4, <2>1, KeptTwice DEF Kept, KeptButLayout
<1>5. run[n] \in S
  <2> HIDE DEF S, n
  <2> QED BY <1>2, <1>3, <1>4, LoopInvariant
<1> QED BY <1>1, <1>5

LEMMA ClosemonKept ==
    ASSUME NEW d \in Desks, NEW m
    PROVE  Kept(d, closemon(d, m))
<1> DEFINE e == IF d.selmon = m THEN [d EXCEPT !.selmon = Replacement(d, m)] ELSE d
           f == MigrateAll(e, m)
<1>1. Replacement(d, m) \in SomeMon
  <2>1. d.mons \in Seq(Monitor)
    BY DEF Desks
  <2>2. (Listed(d.mons) \cap d.on) \ {m} # {} =>
           Listed(d.mons) \cap ((Listed(d.mons) \cap d.on) \ {m}) # {}
    OBVIOUS
  <2> QED BY <2>1, <2>2, FirstInMember DEF Replacement, SomeMon
<1>2. Kept(d, e)
  BY <1>1 DEF Kept, KeptButLayout, Desks
<1>3. Kept(d, f)
  <2> HIDE DEF e
  <2> QED BY <1>2, MigrateAllKept, KeptTwice DEF Kept, KeptButLayout
<1>4. Kept(d, Refocus(f))
  <2> HIDE DEF f
  <2> QED BY <1>3, RefocusOnKept, KeptTwice DEF Kept, KeptButLayout
<1> QED BY <1>4 DEF closemon

(***************************************************************************)
(* updatemons, with calls of itself nested in its loops: all that a call   *)
(* needs to know of a nested one is that it is a Laid one.                 *)
(***************************************************************************)
\* The layout gains no output that is off and loses none that is on.
Laid(d, e) ==
    /\ KeptButLayout(d, e)
    /\ e.layout \subseteq d.layout \cup Enabled(d)
    /\ d.layout \cap Enabled(d) \subseteq e.layout

LEMMA LaidSame ==
    ASSUME NEW d \in Desks
    PROVE  Laid(d, d)
BY KeptSame DEF Laid, Kept

LEMMA LaidTwice ==
    ASSUME NEW d, NEW e, NEW f, Laid(d, e), Laid(e, f)
    PROVE  Laid(d, f)
<1>1. Enabled(e) = Enabled(d)
  BY DEF Laid, KeptButLayout, Enabled
<1>2. KeptButLayout(d, f)
  BY DEF Laid, KeptButLayout
<1> QED BY <1>1, <1>2 DEF Laid

LEMMA KeptIsLaid ==
    ASSUME NEW d, NEW e, Kept(d, e)
    PROVE  Laid(d, e)
BY DEF Kept, Laid

\* What a nested call may be.
Calls == {again \in [Desks -> Desks] : \A d \in Desks : Laid(d, again[d])}

LEMMA CloseIfDisabledLaid ==
    ASSUME NEW d \in Desks, NEW m \in Monitor, NEW again \in Calls
    PROVE  LET e == CloseIfDisabled(d, m, again)
           IN  Laid(d, e) /\ (Disabled(d, m) => m \notin e.layout)
<1>1. CASE ~Disabled(d, m)
  BY <1>1, LaidSame DEF CloseIfDisabled
<1>2. CASE Disabled(d, m)
  <2> DEFINE off     == [d EXCEPT !.layout = @ \ {m}]
             removed == IF m \in d.layout THEN again[off] ELSE d
             e       == closemon(removed, m)
  <2>1. KeptButLayout(d, off) /\ off.layout = d.layout \ {m}
    BY DEF KeptButLayout, Desks
  <2>2. m \notin Enabled(d)
    BY <1>2 DEF Disabled, Enabled
  <2>3. Laid(d, off) /\ off \in Desks /\ m \notin off.layout /\ Enabled(off) = Enabled(d)
    BY <2>1, <2>2 DEF Laid, KeptButLayout, Enabled
  <2> HIDE DEF off
  <2>4. Laid(off, again[off])
    BY <2>3 DEF Calls
  <2>5. Laid(d, removed) /\ m \notin removed.layout
    <3>1. Laid(d, again[off]) /\ m \notin again[off].layout
      BY <2>2, <2>3, <2>4, LaidTwice DEF Laid
    <3> QED BY <3>1, LaidSame
  <2>6. e = CloseIfDisabled(d, m, again)
    BY <1>2 DEF CloseIfDisabled, off
  <2> HIDE DEF removed
  <2>7. Kept(removed, e)
    BY <2>5, ClosemonKept DEF Laid, KeptButLayout
  <2>8. Laid(d, e) /\ e.layout = removed.layout
    BY <2>5, <2>7, KeptIsLaid, LaidTwice DEF Kept
  <2> HIDE DEF e
  <2> QED BY <2>5, <2>6, <2>8
<1> QED BY <1>1, <1>2

\* The loop of CloseDisabled has a run over the outputs.
LEMMA CloseDisabledRuns ==
    ASSUME NEW d \in Desks, NEW again \in Calls
    PROVE  \E run :
              /\ run[0] = d
              /\ \A i \in 1..Len(d.mons) :
                   run[i] = CloseIfDisabled(run[i - 1], d.mons[i], again)
              /\ CloseDisabled(d, again) = run[Len(d.mons)]
<1> DEFINE n == Len(d.mons)
           run[i \in 0..n] ==
               IF i = 0 THEN d ELSE CloseIfDisabled(run[i - 1], d.mons[i], again)
           G == [p \in (1..n) \X Desks |-> CloseIfDisabled(p[2], d.mons[p[1]], again)]
<1>1. n \in Nat /\ \A i \in 1..n : d.mons[i] \in Monitor
  BY DEF Desks
<1>2. \A i \in 1..n, e \in Desks : CloseIfDisabled(e, d.mons[i], again) \in Desks
  BY <1>1, CloseIfDisabledLaid DEF Laid, KeptButLayout
<1>3. G \in [(1..n) \X Desks -> Desks]
  BY <1>2
<1>4. PICK f \in [0..n -> Desks] :
             f[0] = d /\ \A i \in 1..n : f[i] = G[<<i, f[i - 1]>>]
  <2> HIDE DEF G, n
  <2> QED BY <1>1, <1>3, DeskLoop
<1>5. ASSUME NEW i \in 1..n
      PROVE  f[i] = CloseIfDisabled(f[i - 1], d.mons[i], again)
  <2>1. <<i, f[i - 1]>> \in (1..n) \X Desks
    BY <1>1
  <2>2. f[i] = G[<<i, f[i - 1]>>]
    BY <1>4
  <2> QED BY <2>1, <2>2
<1>6. f = [i \in 0..n |->
             IF i = 0 THEN d ELSE CloseIfDisabled(f[i - 1], d.mons[i], again)]
  <2> HIDE DEF G, n
  <2> QED BY <1>1, <1>4, <1>5
<1>7. run = [i \in 0..n |->
               IF i = 0 THEN d ELSE CloseIfDisabled(run[i - 1], d.mons[i], again)]
  BY <1>6
<1>8. CloseDisabled(d, again) = run[n]
  BY DEF CloseDisabled, run
<1> HIDE DEF run, n
<1>9. run[0] = d /\ \A i \in 1..n : run[i] = CloseIfDisabled(run[i - 1], d.mons[i], again)
  BY <1>1, <1>7
<1> QED BY <1>8, <1>9 DEF n

\* The loop takes exactly the disabled outputs out of the layout.
LEMMA CloseDisabledLaid ==
    ASSUME NEW d \in Desks, NEW again \in Calls
    PROVE  LET e == CloseDisabled(d, again)
           IN  /\ Laid(d, e)
               /\ \A m \in Listed(d.mons) : Disabled(d, m) => m \notin e.layout
<1> DEFINE n == Len(d.mons)
           Closed(i) == {e \in Desks :
                           /\ Laid(d, e)
                           /\ \A j \in 1..i : Disabled(d, d.mons[j]) => d.mons[j] \notin e.layout}
           S == [i \in 0..n |-> Closed(i)]
<1>1. PICK run :
            /\ run[0] = d
            /\ \A i \in 1..n : run[i] = CloseIfDisabled(run[i - 1], d.mons[i], again)
            /\ CloseDisabled(d, again) = run[n]
  BY CloseDisabledRuns
<1>2. n \in Nat /\ \A i \in 1..n : d.mons[i] \in Monitor
  BY DEF Desks
<1>3. run[n] \in S[n]
  <2>1. run[0] \in S[0]
    BY <1>1, <1>2, LaidSame
  <2>2. ASSUME NEW i \in 1..n, run[i - 1] \in S[i - 1] PROVE run[i] \in S[i]
    <3> DEFINE e == run[i - 1]
               f == run[i]
               m == d.mons[i]
    <3>1. f = CloseIfDisabled(e, m, again) /\ m \in Monitor
      BY <1>1, <1>2
    <3>2. e \in Closed(i - 1)
      BY <1>2, <2>2
    <3> HIDE DEF e, f, m
    <3>3. Laid(e, f) /\ (Disabled(e, m) => m \notin f.layout)
      BY <3>1, <3>2, CloseIfDisabledLaid
    <3>4. /\ \A k : Disabled(e, k) <=> Disabled(d, k)
          /\ Enabled(e) = Enabled(d)
      BY <3>2 DEF Disabled, Enabled, Laid, KeptButLayout
    <3>5. Laid(d, f) /\ f \in Desks
      BY <3>2, <3>3, LaidTwice DEF Laid, KeptButLayout
    <3>6. ASSUME NEW j \in 1..i, Disabled(d, d.mons[j])
          PROVE  d.mons[j] \notin f.layout
      <4>1. CASE j = i
        BY <3>3, <3>4, <3>6, <4>1 DEF m
      <4>2. CASE j # i
        <5>1. j \in 1..(i - 1)
          BY <1>2, <4>2
        <5>2. d.mons[j] \notin e.layout /\ d.mons[j] \notin Enabled(e)
          BY <3>2, <3>4, <3>6, <5>1 DEF Disabled, Enabled
        <5> QED BY <3>3, <5>2 DEF Laid
      <4> QED BY <4>1, <4>2
    <3>7. f \in Closed(i)
      BY <3>5, <3>6
    <3>8. S[i] = Closed(i)
      BY <1>2
    <3> QED BY <3>7, <3>8 DEF f
  <2> HIDE DEF S, n
  <2> QED BY <1>2, <2>1, <2>2, LoopProgress
<1>4. run[n] \in Closed(n)
  BY <1>2, <1>3
<1>5. \A m \in Listed(d.mons) : \E j \in 1..n : m = d.mons[j]
  BY DEF Listed, Desks
<1> HIDE DEF n
<1> QED BY <1>1, <1>4, <1>5

LEMMA PlaceIfEnabledLaid ==
    ASSUME NEW d \in Desks, NEW m \in Monitor, NEW again \in Calls
    PROVE  LET e == PlaceIfEnabled(d, m, again)
           IN  /\ KeptButLayout(d, e)
               /\ m \in Listed(d.mons) => Laid(d, e) /\ (m \in d.on => m \in e.layout)
<1>1. CASE m \notin d.on \ d.layout
  BY <1>1, LaidSame DEF PlaceIfEnabled, Laid
<1>2. CASE m \in d.on \ d.layout
  <2> DEFINE added == [d EXCEPT !.layout = @ \cup {m}]
  <2>1. KeptButLayout(d, added) /\ added.layout = d.layout \cup {m}
    BY DEF KeptButLayout, Desks
  <2>2. PlaceIfEnabled(d, m, again) = again[added]
    BY <1>2 DEF PlaceIfEnabled
  <2> HIDE DEF added
  <2>3. Laid(added, again[added])
    BY <2>1 DEF Calls, KeptButLayout
  <2>4. KeptButLayout(d, again[added])
    BY <2>1, <2>3 DEF Laid, KeptButLayout
  <2>5. ASSUME m \in Listed(d.mons)
        PROVE  Laid(d, again[added]) /\ m \in again[added].layout
    <3>1. m \in Enabled(d) /\ Enabled(added) = Enabled(d)
      BY <1>2, <2>1, <2>5 DEF Enabled, KeptButLayout
    <3>2. Laid(d, added)
      BY <2>1, <3>1 DEF Laid
    <3> QED BY <2>1, <2>3, <3>1, <3>2, LaidTwice DEF Laid
  <2> QED BY <2>2, <2>4, <2>5
<1> QED BY <1>1, <1>2

\* The loop of PlaceEnabled has a run over the outputs.
LEMMA PlaceEnabledRuns ==
    ASSUME NEW d \in Desks, NEW again \in Calls
    PROVE  \E run :
              /\ run[0] = d
              /\ \A i \in 1..Len(d.mons) :
                   run[i] = PlaceIfEnabled(run[i - 1], d.mons[i], again)
              /\ PlaceEnabled(d, again) = run[Len(d.mons)]
<1> DEFINE n == Len(d.mons)
           run[i \in 0..n] ==
               IF i = 0 THEN d ELSE PlaceIfEnabled(run[i - 1], d.mons[i], again)
           G == [p \in (1..n) \X Desks |-> PlaceIfEnabled(p[2], d.mons[p[1]], again)]
<1>1. n \in Nat /\ \A i \in 1..n : d.mons[i] \in Monitor
  BY DEF Desks
<1>2. \A i \in 1..n, e \in Desks : PlaceIfEnabled(e, d.mons[i], again) \in Desks
  BY <1>1, PlaceIfEnabledLaid DEF KeptButLayout
<1>3. G \in [(1..n) \X Desks -> Desks]
  BY <1>2
<1>4. PICK f \in [0..n -> Desks] :
             f[0] = d /\ \A i \in 1..n : f[i] = G[<<i, f[i - 1]>>]
  <2> HIDE DEF G, n
  <2> QED BY <1>1, <1>3, DeskLoop
<1>5. ASSUME NEW i \in 1..n
      PROVE  f[i] = PlaceIfEnabled(f[i - 1], d.mons[i], again)
  <2>1. <<i, f[i - 1]>> \in (1..n) \X Desks
    BY <1>1
  <2> QED BY <1>4, <2>1
<1>6. f = [i \in 0..n |->
             IF i = 0 THEN d ELSE PlaceIfEnabled(f[i - 1], d.mons[i], again)]
  <2> HIDE DEF G, n
  <2> QED BY <1>1, <1>4, <1>5
<1>7. run = [i \in 0..n |->
               IF i = 0 THEN d ELSE PlaceIfEnabled(run[i - 1], d.mons[i], again)]
  BY <1>6
<1>8. PlaceEnabled(d, again) = run[n]
  BY DEF PlaceEnabled, run
<1> HIDE DEF run, n
<1>9. run[0] = d /\ \A i \in 1..n : run[i] = PlaceIfEnabled(run[i - 1], d.mons[i], again)
  BY <1>1, <1>7
<1> QED BY <1>8, <1>9 DEF n

LEMMA PlaceEnabledLaid ==
    ASSUME NEW d \in Desks, NEW again \in Calls
    PROVE  Laid(d, PlaceEnabled(d, again)) /\ Enabled(d) \subseteq PlaceEnabled(d, again).layout
<1> DEFINE n == Len(d.mons)
           Placed(i) == {e \in Desks :
                           /\ Laid(d, e)
                           /\ \A j \in 1..i : d.mons[j] \in d.on => d.mons[j] \in e.layout}
           S == [i \in 0..n |-> Placed(i)]
<1>1. PICK run :
            /\ run[0] = d
            /\ \A i \in 1..n : run[i] = PlaceIfEnabled(run[i - 1], d.mons[i], again)
            /\ PlaceEnabled(d, again) = run[n]
  BY PlaceEnabledRuns
<1>2. n \in Nat /\ \A i \in 1..n : d.mons[i] \in Monitor /\ d.mons[i] \in Listed(d.mons)
  BY DEF Desks, Listed
<1>3. run[n] \in S[n]
  <2>1. run[0] \in S[0]
    BY <1>1, <1>2, LaidSame
  <2>2. ASSUME NEW i \in 1..n, run[i - 1] \in S[i - 1] PROVE run[i] \in S[i]
    <3> DEFINE e == run[i - 1]
               f == run[i]
               m == d.mons[i]
    <3>1. f = PlaceIfEnabled(e, m, again) /\ m \in Monitor /\ m \in Listed(d.mons)
      BY <1>1, <1>2
    <3>2. e \in Placed(i - 1)
      BY <1>2, <2>2
    <3> HIDE DEF e, f, m
    <3>3. e.mons = d.mons /\ e.on = d.on /\ Enabled(e) = Enabled(d)
      BY <3>2 DEF Enabled, Laid, KeptButLayout
    <3>4. Laid(e, f) /\ (m \in d.on => m \in f.layout)
      BY <3>1, <3>2, <3>3, PlaceIfEnabledLaid
    <3>5. Laid(d, f) /\ f \in Desks
      BY <3>2, <3>4, LaidTwice DEF Laid, KeptButLayout
    <3>6. ASSUME NEW j \in 1..i, d.mons[j] \in d.on
          PROVE  d.mons[j] \in f.layout
      <4>1. CASE j = i
        BY <3>4, <3>6, <4>1 DEF m
      <4>2. CASE j # i
        <5>1. j \in 1..(i - 1) /\ j \in 1..n
          BY <1>2, <4>2
        <5>2. d.mons[j] \in e.layout /\ d.mons[j] \in Enabled(e)
          BY <1>2, <3>2, <3>3, <3>6, <5>1 DEF Enabled
        <5> QED BY <3>4, <5>2 DEF Laid
      <4> QED BY <4>1, <4>2
    <3>7. f \in Placed(i)
      BY <3>5, <3>6
    <3>8. S[i] = Placed(i)
      BY <1>2
    <3> QED BY <3>7, <3>8 DEF f
  <2> HIDE DEF S, n
  <2> QED BY <1>2, <2>1, <2>2, LoopProgress
<1>4. run[n] \in Placed(n)
  BY <1>2, <1>3
<1>5. \A m \in Listed(d.mons) : \E j \in 1..n : m = d.mons[j]
  BY DEF Listed, Desks
<1> HIDE DEF n
<1> QED BY <1>1, <1>4, <1>5 DEF Enabled

\* Other scene nodes and another selmon do not disturb what a function keeps.
LEMMA KeptRelit ==
    ASSUME NEW d, NEW f, Kept(d, f), NEW S \in SUBSET Client, NEW m \in SomeMon
    PROVE  Kept(d, [f EXCEPT !.shown = S, !.selmon = m])
BY DEF Kept, KeptButLayout, Desks

LEMMA ArrangeEnabledKept ==
    ASSUME NEW d \in Desks
    PROVE  Kept(d, ArrangeEnabled(d))
<1> DEFINE here    == {c \in Mapped(d) : d.mon[c] \in Enabled(d)}
           taking  == {i \in DOMAIN d.mons : /\ d.mons[i] \in d.on
                                             /\ Interactive(d, d.mons[i]) # {}}
           last    == CHOOSE i \in taking : \A j \in taking : j <= i
           focused == IF taking = {} THEN d ELSE arrangelayers(d, d.mons[last])
           lit     == {c \in here : VISIBLEON(d, c, d.mon[c]) \/ c \in d.leaving}
           shown   == (focused.shown \ here) \cup lit
           selmon  == IF focused.selmon = NoMon /\ Enabled(d) # {}
                      THEN FirstIn(d.mons, d.on) ELSE focused.selmon
<1>1. Kept(d, focused)
  <2> HIDE DEF taking, last
  <2> QED BY ArrangelayersKept, KeptSame
<1>2. focused.shown \in SUBSET Client /\ focused.selmon \in SomeMon
  <2> HIDE DEF focused
  <2> QED BY <1>1 DEF Kept, KeptButLayout, Desks
<1>3. lit \in SUBSET Client
  BY ListedMembers DEF Mapped, Desks
<1>4. Enabled(d) # {} => FirstIn(d.mons, d.on) \in Monitor
  BY FirstInMember DEF Enabled, Desks
<1>5. shown \in SUBSET Client /\ selmon \in SomeMon
  <2> HIDE DEF focused, here, lit
  <2>1. shown \in SUBSET Client
    BY <1>2, <1>3
  <2>2. focused.selmon = NoMon /\ Enabled(d) # {} => selmon \in SomeMon
    BY Zenon, <1>4 DEF SomeMon
  <2>3. ~(focused.selmon = NoMon /\ Enabled(d) # {}) => selmon \in SomeMon
    BY Zenon, <1>2
  <2> QED BY <2>1, <2>2, <2>3
<1>6. ArrangeEnabled(d) = [focused EXCEPT !.shown = shown, !.selmon = selmon]
  BY Zenon DEF ArrangeEnabled
<1> HIDE DEF here, taking, last, focused, lit, shown, selmon
<1>7. Kept(d, [focused EXCEPT !.shown = shown, !.selmon = selmon])
  BY Zenon, <1>1, <1>5, KeptRelit
<1> QED BY Zenon, <1>6, <1>7

LEMMA SettleKept ==
    ASSUME NEW d \in Desks
    PROVE  Kept(d, Settle(d))
<1> DEFINE arranged == ArrangeEnabled(d)
           adopted  == MigrateAll(arranged, NoMon)
           focused  == Refocus(adopted)
<1>1. Kept(d, arranged)
  BY ArrangeEnabledKept
<1>2. Kept(d, adopted)
  <2> HIDE DEF arranged
  <2> QED BY <1>1, MigrateAllKept, KeptTwice DEF Kept, KeptButLayout
<1>3. Kept(d, focused)
  <2> HIDE DEF adopted
  <2> QED BY <1>2, RefocusOnKept, KeptTwice DEF Kept, KeptButLayout
<1>4. focused.selmon \in focused.locksurf => Kept(d, [focused EXCEPT !.kb = focused.selmon])
  <2> HIDE DEF focused
  <2> QED BY <1>3 DEF Kept, KeptButLayout, Desks, Focusable
<1> QED BY <1>1, <1>3, <1>4 DEF Settle

(***************************************************************************)
(* updatemons leaves in the layout the enabled outputs and what was in it, *)
(* except for the outputs that were switched off.                          *)
(***************************************************************************)
LEMMA UpdatedLaid ==
    ASSUME NEW d \in Desks, NEW again \in Calls
    PROVE  LET e == Updated(d, again)
           IN  /\ Laid(d, e) /\ Enabled(d) \subseteq e.layout
               /\ \A m \in Listed(d.mons) : Disabled(d, m) => m \notin e.layout
<1> DEFINE closed == CloseDisabled(d, again)
           placed == PlaceEnabled(closed, again)
           e      == Settle(placed)
<1>1. /\ Laid(d, closed)
      /\ \A m \in Listed(d.mons) : Disabled(d, m) => m \notin closed.layout
  BY CloseDisabledLaid
<1>2. e = Updated(d, again)
  BY DEF Updated
<1> HIDE DEF closed
<1>3. closed \in Desks /\ Enabled(closed) = Enabled(d)
  BY <1>1 DEF Laid, KeptButLayout, Enabled
<1>4. Laid(closed, placed) /\ Enabled(closed) \subseteq placed.layout
  BY <1>3, PlaceEnabledLaid
<1> HIDE DEF placed
<1>5. Kept(placed, e)
  BY <1>4, SettleKept DEF Laid, KeptButLayout
<1> HIDE DEF e
<1>6. Laid(d, e)
  BY <1>1, <1>4, <1>5, KeptIsLaid, LaidTwice
<1>7. e.layout = placed.layout
  BY <1>5 DEF Kept
<1>8. \A m \in Listed(d.mons) : Disabled(d, m) => m \notin Enabled(d)
  BY DEF Disabled, Enabled
<1> QED BY <1>1, <1>2, <1>3, <1>4, <1>6, <1>7, <1>8 DEF Laid

LEMMA UpdatedIsCall ==
    ASSUME NEW again \in Calls
    PROVE  [e \in Desks |-> Updated(e, again)] \in Calls
<1>1. \A e \in Desks : Laid(e, Updated(e, again)) /\ Updated(e, again) \in Desks
  BY UpdatedLaid DEF Laid, KeptButLayout
<1> QED BY <1>1 DEF Calls

\* Calls nested as deep as n.
CallsTo(n) ==
    {f \in [0..n -> Calls] :
        /\ f[0] = [e \in Desks |-> e]
        /\ \A k \in 1..n : f[k] = [e \in Desks |-> Updated(e, f[k - 1])]}

LEMMA CallLoop ==
    ASSUME NEW s \in Calls, NEW n \in Nat, NEW G \in [(1..n) \X Calls -> Calls]
    PROVE  \E f \in [0..n -> Calls] :
               f[0] = s /\ \A i \in 1..n : f[i] = G[<<i, f[i - 1]>>]
<1>1. RunsOf(Calls, s, n, G) # {}
  BY LoopRuns
<1> QED BY <1>1 DEF RunsOf

LEMMA CallsExist ==
    ASSUME NEW n \in Nat
    PROVE  CallsTo(n) # {}
<1> DEFINE s == [e \in Desks |-> e]
           G == [p \in (1..n) \X Calls |-> [e \in Desks |-> Updated(e, p[2])]]
<1>1. s \in Calls
  BY LaidSame DEF Calls
<1>2. \A again \in Calls : [e \in Desks |-> Updated(e, again)] \in Calls
  BY UpdatedIsCall
<1>3. G \in [(1..n) \X Calls -> Calls]
  BY <1>2
<1>4. PICK f \in [0..n -> Calls] :
             f[0] = s /\ \A k \in 1..n : f[k] = G[<<k, f[k - 1]>>]
  <2> HIDE DEF G, s
  <2> QED BY <1>1, <1>3, CallLoop
<1>5. ASSUME NEW k \in 1..n
      PROVE  f[k] = [e \in Desks |-> Updated(e, f[k - 1])]
  <2>1. <<k, f[k - 1]>> \in (1..n) \X Calls
    OBVIOUS
  <2> QED BY <1>4, <2>1
<1> QED BY <1>4, <1>5 DEF CallsTo

LEMMA UpdatemonsCalls ==
    ASSUME NEW d \in Desks
    PROVE  \E f \in CallsTo(Len(d.mons) + 1) : updatemons(d) = f[Len(d.mons) + 1][d]
<1> DEFINE depth == Len(d.mons) + 1
           calls[k \in 0..depth] ==
               [e \in Desks |-> IF k = 0 THEN e ELSE Updated(e, calls[k - 1])]
<1>1. depth \in Nat /\ depth \in 0..depth
  BY DEF Desks
<1>2. PICK f : f \in CallsTo(depth)
  <2> HIDE DEF depth
  <2> QED BY <1>1, CallsExist
<1>3. f = [k \in 0..depth |->
             [e \in Desks |-> IF k = 0 THEN e ELSE Updated(e, f[k - 1])]]
  <2> HIDE DEF depth
  <2>1. f \in [0..depth -> Calls]
    BY <1>2 DEF CallsTo
  <2>2. f[0] = [e \in Desks |-> IF 0 = 0 THEN e ELSE Updated(e, f[0 - 1])]
    BY <1>2 DEF CallsTo
  <2>3. ASSUME NEW k \in 1..depth
        PROVE  f[k] = [e \in Desks |-> IF k = 0 THEN e ELSE Updated(e, f[k - 1])]
    <3>1. f[k] = [e \in Desks |-> Updated(e, f[k - 1])] /\ k # 0
      BY <1>2 DEF CallsTo
    <3> QED BY <3>1
  <2>4. \A k \in 0..depth : k = 0 \/ k \in 1..depth
    BY <1>1
  <2> QED BY <2>1, <2>2, <2>3, <2>4
<1>4. calls = [k \in 0..depth |->
                 [e \in Desks |-> IF k = 0 THEN e ELSE Updated(e, calls[k - 1])]]
  BY <1>3
<1>5. updatemons(d) = calls[depth][d]
  BY DEF updatemons, calls
<1> HIDE DEF calls, depth
<1>6. calls \in CallsTo(depth)
  <2>1. /\ calls[0] = [e \in Desks |-> e]
        /\ \A k \in 1..depth : calls[k] = [e \in Desks |-> Updated(e, calls[k - 1])]
    <3>1. 0 \in 0..depth /\ \A k \in 1..depth : k \in 0..depth /\ k # 0
      BY <1>1
    <3> QED BY <1>4, <3>1
  <2>2. ASSUME NEW j \in 0..depth PROVE calls[j] \in Calls
    <3>1. calls[0] \in Calls
      BY <2>1, LaidSame DEF Calls
    <3>2. ASSUME NEW k \in 1..j, calls[k - 1] \in Calls PROVE calls[k] \in Calls
      <4>1. calls[k] = [e \in Desks |-> Updated(e, calls[k - 1])]
        BY <1>1, <2>1
      <4> QED BY <3>2, <4>1, UpdatedIsCall
    <3> QED BY <1>1, <3>1, <3>2, LoopInvariant
  <2>3. calls \in [0..depth -> Calls]
    BY <1>4, <2>2
  <2> QED BY <2>1, <2>3 DEF CallsTo
<1> QED BY <1>5, <1>6 DEF depth

LEMMA UpdatemonsKept ==
    ASSUME NEW d \in Desks
    PROVE  /\ KeptButLayout(d, updatemons(d))
           /\ Enabled(d) \subseteq updatemons(d).layout
           /\ updatemons(d).layout \subseteq d.layout \cup Enabled(d)
           /\ \A m \in Listed(d.mons) : Disabled(d, m) => m \notin updatemons(d).layout
<1> DEFINE n == Len(d.mons) + 1
<1>1. n \in Nat /\ n \in 1..n /\ n - 1 \in 0..n
  BY DEF Desks
<1>2. PICK f \in CallsTo(n) : updatemons(d) = f[n][d]
  BY UpdatemonsCalls
<1> HIDE DEF n
<1>3. f[n - 1] \in Calls /\ f[n] = [e \in Desks |-> Updated(e, f[n - 1])]
  BY <1>1 DEF CallsTo
<1>4. updatemons(d) = Updated(d, f[n - 1])
  BY <1>2, <1>3
<1> QED BY <1>3, <1>4, UpdatedLaid DEF Laid

(***************************************************************************)
(* The nesting has an end: each nested call finds fewer outputs to take    *)
(* out of the layout or to put into it.                                    *)
(***************************************************************************)
Misplaced(d) ==
    {m \in Listed(d.mons) : \/ Disabled(d, m) /\ m \in d.layout
                            \/ m \in d.on \ d.layout}

LEMMA LaidMisplaces ==
    ASSUME NEW d, NEW e, Laid(d, e)
    PROVE  e.mons = d.mons /\ Misplaced(e) \subseteq Misplaced(d)
BY DEF Laid, KeptButLayout, Misplaced, Disabled, Enabled

LEMMA MisplacedBound ==
    ASSUME NEW d \in Desks
    PROVE  /\ IsFiniteSet(Misplaced(d))
           /\ Cardinality(Misplaced(d)) \in Nat /\ Cardinality(Misplaced(d)) <= Len(d.mons)
<1> DEFINE s == d.mons
           n == Len(s)
           M == Misplaced(d)
<1>1. n \in Nat /\ s \in [1..n -> Listed(s)]
  BY DEF Desks, Listed
<1>2. s \in Surjection(1..n, Listed(s))
  <2>1. \A m \in Listed(s) : \E i \in 1..n : s[i] = m
    BY <1>1 DEF Listed
  <2> QED BY <1>1, <2>1 DEF Surjection
<1>3. M \subseteq Listed(s)
  BY DEF Misplaced
<1> HIDE DEF n, s, M
<1>4. IsFiniteSet(Listed(s)) /\ Cardinality(Listed(s)) <= Cardinality(1..n)
      /\ Cardinality(1..n) = n
  BY <1>1, <1>2, FS_Surjection, FS_Interval
<1>5. IsFiniteSet(M) /\ Cardinality(M) <= Cardinality(Listed(s))
  BY <1>3, <1>4, FS_Subset
<1>6. Cardinality(M) \in Nat /\ Cardinality(Listed(s)) \in Nat
  BY <1>4, <1>5, FS_CardinalityType
<1> QED BY <1>1, <1>4, <1>5, <1>6 DEF M, n, s

LEMMA LayoutReplaced ==
    ASSUME NEW d \in Desks, NEW placed \in SUBSET Monitor
    PROVE  LET e == [d EXCEPT !.layout = placed]
           IN  e \in Desks /\ e.mons = d.mons /\ e.on = d.on /\ e.asleep = d.asleep
               /\ e.layout = placed
BY DEF Desks

\* Calls a and b that agree on the desks with fewer misplaced outputs than d.
AgreeBelow(d, a, b) ==
    \A e \in Desks :
        e.mons = d.mons /\ Misplaced(e) \subseteq Misplaced(d) /\ Misplaced(e) # Misplaced(d)
            => a[e] = b[e]

LEMMA CloseIfDisabledAgrees ==
    ASSUME NEW d \in Desks, NEW e, Laid(d, e), NEW m \in Listed(d.mons),
           NEW a \in Calls, NEW b \in Calls, AgreeBelow(d, a, b)
    PROVE  CloseIfDisabled(e, m, a) = CloseIfDisabled(e, m, b)
<1>1. CASE ~(Disabled(e, m) /\ m \in e.layout)
  BY <1>1 DEF CloseIfDisabled
<1>2. CASE Disabled(e, m) /\ m \in e.layout
  <2> DEFINE off == [e EXCEPT !.layout = @ \ {m}]
  <2>1. e \in Desks /\ e.mons = d.mons /\ Misplaced(e) \subseteq Misplaced(d)
    BY LaidMisplaces DEF Laid, KeptButLayout
  <2>2. off \in Desks /\ off.mons = e.mons /\ off.on = e.on /\ off.asleep = e.asleep
        /\ off.layout = e.layout \ {m}
    <3>1. e.layout \ {m} \in SUBSET Monitor
      BY <2>1 DEF Desks
    <3> QED BY Zenon, <2>1, <3>1, LayoutReplaced
  <2> HIDE DEF off
  <2>3. Misplaced(off) \subseteq Misplaced(e) /\ m \in Misplaced(e) \ Misplaced(off)
    BY <1>2, <2>1, <2>2 DEF Misplaced, Disabled
  <2>4. a[off] = b[off]
    BY <2>1, <2>2, <2>3 DEF AgreeBelow
  <2> QED BY <2>4 DEF CloseIfDisabled, off
<1> QED BY <1>1, <1>2

LEMMA PlaceIfEnabledAgrees ==
    ASSUME NEW d \in Desks, NEW e, Laid(d, e), NEW m \in Listed(d.mons),
           NEW a \in Calls, NEW b \in Calls, AgreeBelow(d, a, b)
    PROVE  PlaceIfEnabled(e, m, a) = PlaceIfEnabled(e, m, b)
<1>1. CASE m \notin e.on \ e.layout
  BY <1>1 DEF PlaceIfEnabled
<1>2. CASE m \in e.on \ e.layout
  <2> DEFINE added == [e EXCEPT !.layout = @ \cup {m}]
  <2>1. e \in Desks /\ e.mons = d.mons /\ Misplaced(e) \subseteq Misplaced(d)
    BY LaidMisplaces DEF Laid, KeptButLayout
  <2>2. added \in Desks /\ added.mons = e.mons /\ added.on = e.on /\ added.asleep = e.asleep
        /\ added.layout = e.layout \cup {m}
    <3>1. e.layout \cup {m} \in SUBSET Monitor
      BY <1>2, <2>1 DEF Desks
    <3> QED BY Zenon, <2>1, <3>1, LayoutReplaced
  <2> HIDE DEF added
  <2>3. Misplaced(added) \subseteq Misplaced(e) /\ m \in Misplaced(e) \ Misplaced(added)
    BY <1>2, <2>1, <2>2 DEF Misplaced, Disabled
  <2>4. a[added] = b[added]
    BY <2>1, <2>2, <2>3 DEF AgreeBelow
  <2> QED BY <2>4 DEF PlaceIfEnabled, added
<1> QED BY <1>1, <1>2

\* The two loops do the same with calls that agree, and so does the whole call.
LEMMA CloseDisabledAgrees ==
    ASSUME NEW d \in Desks, NEW a \in Calls, NEW b \in Calls, AgreeBelow(d, a, b)
    PROVE  CloseDisabled(d, a) = CloseDisabled(d, b)
<1> DEFINE n == Len(d.mons)
           S == {p \in Desks \X Desks : p[1] = p[2] /\ Laid(d, p[1])}
<1>1. PICK run :
            /\ run[0] = d
            /\ \A i \in 1..n : run[i] = CloseIfDisabled(run[i - 1], d.mons[i], a)
            /\ CloseDisabled(d, a) = run[n]
  BY CloseDisabledRuns
<1>2. PICK ran :
            /\ ran[0] = d
            /\ \A i \in 1..n : ran[i] = CloseIfDisabled(ran[i - 1], d.mons[i], b)
            /\ CloseDisabled(d, b) = ran[n]
  BY CloseDisabledRuns
<1>3. n \in Nat /\ \A i \in 1..n : d.mons[i] \in Monitor /\ d.mons[i] \in Listed(d.mons)
  BY DEF Desks, Listed
<1> DEFINE both == [i \in 0..n |-> <<run[i], ran[i]>>]
<1>4. both[0] \in S
  BY <1>1, <1>2, <1>3, LaidSame
<1>5. ASSUME NEW i \in 1..n, both[i - 1] \in S PROVE both[i] \in S
  <2> DEFINE e == run[i - 1]
             m == d.mons[i]
  <2>1. e \in Desks /\ Laid(d, e) /\ ran[i - 1] = e /\ m \in Monitor /\ m \in Listed(d.mons)
    BY <1>3, <1>5
  <2>2. run[i] = CloseIfDisabled(e, m, a) /\ ran[i] = CloseIfDisabled(e, m, b)
    BY <1>1, <1>2, <2>1
  <2> HIDE DEF e, m
  <2>3. run[i] = ran[i]
    BY <2>1, <2>2, CloseIfDisabledAgrees
  <2>4. Laid(d, run[i]) /\ run[i] \in Desks
    <3>1. Laid(e, run[i])
      BY <2>1, <2>2, CloseIfDisabledLaid
    <3>2. Laid(d, run[i])
      BY <2>1, <3>1, LaidTwice
    <3> QED BY <3>2 DEF Laid, KeptButLayout
  <2>5. both[i] = <<run[i], run[i]>>
    BY <1>3, <2>3
  <2> HIDE DEF both
  <2> QED BY <2>4, <2>5
<1>6. both[n] \in S
  <2> HIDE DEF S, n, both
  <2> QED BY <1>3, <1>4, <1>5, LoopInvariant
<1>7. run[n] = ran[n]
  BY <1>3, <1>6
<1> QED BY <1>1, <1>2, <1>7

LEMMA PlaceEnabledAgrees ==
    ASSUME NEW d \in Desks, NEW c \in Desks, Laid(d, c),
           NEW a \in Calls, NEW b \in Calls, AgreeBelow(d, a, b)
    PROVE  PlaceEnabled(c, a) = PlaceEnabled(c, b)
<1> DEFINE n == Len(c.mons)
           S == {p \in Desks \X Desks : p[1] = p[2] /\ Laid(d, p[1])}
<1>1. PICK run :
            /\ run[0] = c
            /\ \A i \in 1..n : run[i] = PlaceIfEnabled(run[i - 1], c.mons[i], a)
            /\ PlaceEnabled(c, a) = run[n]
  BY PlaceEnabledRuns
<1>2. PICK ran :
            /\ ran[0] = c
            /\ \A i \in 1..n : ran[i] = PlaceIfEnabled(ran[i - 1], c.mons[i], b)
            /\ PlaceEnabled(c, b) = ran[n]
  BY PlaceEnabledRuns
<1>3. /\ n \in Nat /\ c.mons = d.mons
      /\ \A i \in 1..n : c.mons[i] \in Monitor /\ c.mons[i] \in Listed(d.mons)
  BY LaidMisplaces DEF Desks, Listed
<1> DEFINE both == [i \in 0..n |-> <<run[i], ran[i]>>]
<1>4. both[0] \in S
  BY <1>1, <1>2, <1>3
<1>5. ASSUME NEW i \in 1..n, both[i - 1] \in S PROVE both[i] \in S
  <2> DEFINE e == run[i - 1]
             m == c.mons[i]
  <2>1. e \in Desks /\ Laid(d, e) /\ ran[i - 1] = e /\ m \in Monitor /\ m \in Listed(d.mons)
    BY <1>3, <1>5
  <2>2. run[i] = PlaceIfEnabled(e, m, a) /\ ran[i] = PlaceIfEnabled(e, m, b)
    BY <1>1, <1>2, <2>1
  <2> HIDE DEF e, m
  <2>3. run[i] = ran[i]
    BY <2>1, <2>2, PlaceIfEnabledAgrees
  <2>4. m \in Listed(e.mons)
    BY <2>1, LaidMisplaces
  <2>5. Laid(d, run[i]) /\ run[i] \in Desks
    <3>1. Laid(e, run[i])
      BY <2>1, <2>2, <2>4, PlaceIfEnabledLaid
    <3>2. Laid(d, run[i])
      BY <2>1, <3>1, LaidTwice
    <3> QED BY <3>2 DEF Laid, KeptButLayout
  <2>6. both[i] = <<run[i], run[i]>>
    BY <1>3, <2>3
  <2> HIDE DEF both
  <2> QED BY <2>5, <2>6
<1>6. both[n] \in S
  <2> HIDE DEF S, n, both
  <2> QED BY <1>3, <1>4, <1>5, LoopInvariant
<1>7. run[n] = ran[n]
  BY <1>3, <1>6
<1> QED BY <1>1, <1>2, <1>7

LEMMA UpdatedAgrees ==
    ASSUME NEW d \in Desks, NEW a \in Calls, NEW b \in Calls, AgreeBelow(d, a, b)
    PROVE  Updated(d, a) = Updated(d, b)
<1>1. CloseDisabled(d, a) = CloseDisabled(d, b)
  BY CloseDisabledAgrees
<1>2. CloseDisabled(d, a) \in Desks /\ Laid(d, CloseDisabled(d, a))
  BY CloseDisabledLaid DEF Laid, KeptButLayout
<1>3. PlaceEnabled(CloseDisabled(d, a), a) = PlaceEnabled(CloseDisabled(d, a), b)
  BY <1>2, PlaceEnabledAgrees
<1> QED BY <1>1, <1>3 DEF Updated

\* Calls nested deeper than there are misplaced outputs are all the same.
LEMMA DeepCallsAgree ==
    ASSUME NEW n \in Nat, NEW f \in CallsTo(n)
    PROVE  \A d \in Desks, k \in 1..n, j \in 1..n :
             Cardinality(Misplaced(d)) < k /\ Cardinality(Misplaced(d)) < j
                => f[k][d] = f[j][d]
<1> DEFINE Same(c) == \A d \in Desks, k \in 1..n, j \in 1..n :
                         Cardinality(Misplaced(d)) < c /\ c <= k /\ c <= j
                            => f[k][d] = f[j][d]
           S == {c \in Nat : Same(c)}
<1>1. \A d \in Desks : IsFiniteSet(Misplaced(d)) /\ Cardinality(Misplaced(d)) \in Nat
  BY MisplacedBound
<1>2. 0 \in S
  BY <1>1
<1>3. ASSUME NEW c \in S PROVE c + 1 \in S
  <2>1. ASSUME NEW d \in Desks, NEW k \in 1..n, NEW j \in 1..n,
               Cardinality(Misplaced(d)) < c + 1, c + 1 <= k, c + 1 <= j
        PROVE  f[k][d] = f[j][d]
    <3>1. /\ f[k] = [e \in Desks |-> Updated(e, f[k - 1])]
          /\ f[j] = [e \in Desks |-> Updated(e, f[j - 1])]
      BY DEF CallsTo
    <3>2. f[k - 1] \in Calls /\ f[j - 1] \in Calls
      BY DEF CallsTo
    <3>3. ASSUME NEW e \in Desks, Misplaced(e) \subseteq Misplaced(d),
                 Misplaced(e) # Misplaced(d)
          PROVE  f[k - 1][e] = f[j - 1][e]
      <4>1. Cardinality(Misplaced(e)) < Cardinality(Misplaced(d))
        BY <1>1, <3>3, FS_Subset
      <4>2. Cardinality(Misplaced(e)) < c
        BY <1>1, <2>1, <4>1
      <4>3. k - 1 \in 1..n /\ j - 1 \in 1..n /\ c <= k - 1 /\ c <= j - 1
        BY <1>1, <2>1, <4>2
      <4> QED BY <4>2, <4>3
    <3>4. Updated(d, f[k - 1]) = Updated(d, f[j - 1])
      BY <3>2, <3>3, UpdatedAgrees DEF AgreeBelow
    <3> QED BY <3>1, <3>4
  <2> QED BY <2>1
<1>4. S = Nat
  <2> HIDE DEF S
  <2> QED BY <1>2, <1>3, Induction DEF S
<1>5. ASSUME NEW d \in Desks, NEW k \in 1..n, NEW j \in 1..n,
             Cardinality(Misplaced(d)) < k, Cardinality(Misplaced(d)) < j
      PROVE  f[k][d] = f[j][d]
  <2>1. Cardinality(Misplaced(d)) + 1 \in S
    BY <1>1, <1>4
  <2> HIDE DEF S
  <2>2. Same(Cardinality(Misplaced(d)) + 1)
    BY <2>1 DEF S
  <2> QED BY <1>1, <1>5, <2>2
<1> QED BY <1>5

\* How deep the calls are nested is all that a level of nesting depends on.
LEMMA CallsUnique ==
    ASSUME NEW n \in Nat, NEW f \in CallsTo(n), NEW g \in CallsTo(n), NEW k \in 0..n
    PROVE  f[k] = g[k]
<1> DEFINE both == [i \in 0..n |-> <<f[i], g[i]>>]
           S    == {p \in Calls \X Calls : p[1] = p[2]}
<1>1. \A i \in 0..n : f[i] \in Calls /\ g[i] \in Calls
  BY DEF CallsTo
<1>2. both[0] \in S
  BY <1>1 DEF CallsTo
<1>3. ASSUME NEW i \in 1..k, both[i - 1] \in S PROVE both[i] \in S
  <2>1. f[i - 1] = g[i - 1] /\ i \in 1..n /\ i \in 0..n
    BY <1>3
  <2>2. f[i] = [e \in Desks |-> Updated(e, f[i - 1])]
    BY <2>1 DEF CallsTo
  <2>3. g[i] = [e \in Desks |-> Updated(e, g[i - 1])]
    BY <2>1 DEF CallsTo
  <2>4. f[i] = g[i]
    BY <2>1, <2>2, <2>3
  <2> QED BY <1>1, <2>1, <2>4
<1>4. both[k] \in S
  <2> HIDE DEF both, S
  <2> QED BY <1>2, <1>3, LoopInvariant
<1> QED BY <1>4

(***************************************************************************)
(* updatemons is what its code says: a run of its loops in which every     *)
(* wlr_output_layout_remove and _add runs all of updatemons again. The     *)
(* depth that its definition cuts the nesting off at is never reached.     *)
(***************************************************************************)
UpdatemonsReenters ==
    \A d \in Desks : updatemons(d) = Updated(d, [e \in Desks |-> updatemons(e)])

THEOREM DepthSuffices == UpdatemonsReenters
<1> SUFFICES ASSUME NEW d \in Desks
             PROVE  updatemons(d) = Updated(d, [e \in Desks |-> updatemons(e)])
  BY DEF UpdatemonsReenters
<1> DEFINE n     == Len(d.mons) + 1
           again == [e \in Desks |-> updatemons(e)]
<1>1. n \in Nat /\ n \in 1..n /\ n - 1 \in 0..n /\ n - 1 = Len(d.mons)
  BY DEF Desks
<1>2. PICK f \in CallsTo(n) : updatemons(d) = f[n][d]
  BY UpdatemonsCalls
<1>3. again \in Calls
  <2>1. \A e \in Desks : Laid(e, updatemons(e)) /\ updatemons(e) \in Desks
    BY UpdatemonsKept DEF Laid, KeptButLayout
  <2> QED BY <2>1 DEF Calls
<1>4. ASSUME NEW e \in Desks, e.mons = d.mons, Misplaced(e) \subseteq Misplaced(d),
             Misplaced(e) # Misplaced(d)
      PROVE  f[n - 1][e] = again[e]
  <2>1. Len(e.mons) + 1 = n
    BY <1>4
  <2>2. PICK g \in CallsTo(n) : updatemons(e) = g[n][e]
    BY <2>1, UpdatemonsCalls
  <2> HIDE DEF n
  <2>3. updatemons(e) = f[n][e]
    BY <1>1, <2>2, CallsUnique
  <2>4. /\ Cardinality(Misplaced(e)) \in Nat /\ Cardinality(Misplaced(d)) \in Nat
        /\ Cardinality(Misplaced(d)) <= n - 1
    BY <1>1, MisplacedBound
  <2>5. Cardinality(Misplaced(e)) < Cardinality(Misplaced(d))
    BY <1>4, <2>4, MisplacedBound, FS_Subset
  <2>6. f[n][e] = f[n - 1][e]
    <3>1. n - 1 \in 1..n /\ Cardinality(Misplaced(e)) < n - 1 /\ Cardinality(Misplaced(e)) < n
      BY <1>1, <2>4, <2>5
    <3> QED BY <1>1, <3>1, DeepCallsAgree
  <2> QED BY <2>3, <2>6
<1> HIDE DEF n, again
<1>5. f[n - 1] \in Calls /\ f[n] = [e \in Desks |-> Updated(e, f[n - 1])]
  BY <1>1 DEF CallsTo
<1>6. Updated(d, f[n - 1]) = Updated(d, again)
  BY <1>3, <1>4, <1>5, UpdatedAgrees DEF AgreeBelow
<1> QED BY <1>2, <1>5, <1>6 DEF again

-----------------------------------------------------------------------------
(***************************************************************************)
(* Views, tags and the commands of key bindings.                           *)
(***************************************************************************)
LEMMA ViewKept ==
    ASSUME NEW d \in Desks, NEW newtags \in SUBSET Tag
    PROVE  Kept(d, view(d, newtags))
<1> DEFINE m   == d.selmon
           old == d.viewed[m]
           new == IF newtags = {} THEN d.previous[m] ELSE newtags
           e   == [d EXCEPT !.viewed[m] = new, !.previous[m] = old]
           f   == anim_view(e, m, old, new)
<1>1. CASE m = NoMon
  BY <1>1, KeptSame DEF view
<1>2. CASE m # NoMon
  <2>1. m \in Monitor
    BY <1>2 DEF Desks, SomeMon
  <2>2. old \in SUBSET Tag /\ new \in SUBSET Tag
    BY <2>1 DEF Desks
  <2>3. Kept(d, e)
    <3> HIDE DEF old, new
    <3> QED BY <2>1, <2>2 DEF Kept, KeptButLayout, Desks
  <2>4. Kept(e, f)
    <3> HIDE DEF e, old, new
    <3>1. e \in Desks
      BY <2>3 DEF Kept, KeptButLayout
    <3>2. Mapped(e) \in SUBSET Client
      BY <3>1, ListedMembers DEF Mapped, Desks
    <3> QED BY <3>1, <3>2, KeptSame DEF anim_view, Kept, KeptButLayout, Desks
  <2>5. Kept(d, Redisplay(f, m))
    <3> HIDE DEF e, f
    <3> QED BY <2>3, <2>4, RedisplayKept, KeptTwice DEF Kept, KeptButLayout
  <2> QED BY <2>5, KeptSame DEF view
<1> QED BY <1>1, <1>2

LEMMA ToggleviewKept ==
    ASSUME NEW d \in Desks, NEW flip \in SUBSET Tag
    PROVE  Kept(d, toggleview(d, flip))
<1> DEFINE m   == d.selmon
           new == Toggle(d.viewed[m], flip)
           e   == [d EXCEPT !.viewed[m] = new]
<1>1. m # NoMon => Kept(d, e)
  BY DEF Kept, KeptButLayout, Desks, SomeMon, Toggle
<1>2. m # NoMon => Kept(d, Redisplay(e, m))
  <2> HIDE DEF e
  <2> QED BY <1>1, RedisplayKept, KeptTwice DEF Kept, KeptButLayout
<1> QED BY <1>2, KeptSame DEF toggleview

LEMMA SettagsKept ==
    ASSUME NEW d \in Desks, NEW c \in WinOrNone, NEW newtags \in SUBSET Tag
    PROVE  Kept(d, settags(d, c, newtags))
<1> DEFINE free == canvas_cancel_grab(d, c)
           e == [free EXCEPT !.tags[c] = newtags]
<1>1. c # NoWin => Kept(d, e)
  <2>1. Kept(d, free)
    BY CancelKept
  <2> HIDE DEF free
  <2>2. c # NoWin => Kept(free, e)
    BY <2>1 DEF Kept, KeptButLayout, Desks, WinOrNone
  <2> QED BY <2>1, <2>2, KeptTwice
<1>2. c # NoWin => Kept(d, Redisplay(e, d.mon[c]))
  <2> HIDE DEF e
  <2> QED BY <1>1, RedisplayKept, KeptTwice DEF Kept, KeptButLayout
<1> QED BY <1>2, KeptSame DEF settags

LEMMA DirtomonIsMonitor ==
    ASSUME NEW d \in Desks
    PROVE  dirtomon(d) \in SUBSET SomeMon
BY DEF dirtomon, Desks, SomeMon

LEMMA SelectKept ==
    ASSUME NEW d \in Desks, NEW m \in SomeMon
    PROVE  Kept(d, [d EXCEPT !.selmon = m])
BY DEF Kept, KeptButLayout, Desks

LEMMA CommandsKept ==
    ASSUME NEW d \in Desks, NEW e \in Commands(d)
    PROVE  Kept(d, e)
<1> DEFINE sel == focustop(d, d.selmon)
<1>1. sel \in WinOrNone
  BY FocustopIsWindow
<1>2. e \in {d, swapdir(d)} => Kept(d, e)
  BY KeptSame, RefocusOnKept DEF swapdir
<1>3. e \in tagmon(d) => Kept(d, e)
  BY <1>1, KeptSame, SetmonKept, DirtomonIsMonitor DEF tagmon, WinOrNone
<1>4. e \in focusmon(d) => Kept(d, e)
  <2>1. ASSUME NEW m \in SomeMon
        PROVE  Kept(d, RefocusOn([d EXCEPT !.selmon = m], m))
    <3> DEFINE f == [d EXCEPT !.selmon = m]
    <3>1. Kept(d, f)
      BY SelectKept
    <3> HIDE DEF f
    <3>2. Kept(d, RefocusOn(f, m))
      BY <3>1, RefocusOnKept, KeptTwice DEF Kept, KeptButLayout
    <3> QED BY <3>2 DEF f
  <2> QED BY <2>1, KeptSame, DirtomonIsMonitor DEF focusmon
<1>5. e \in focusdir(d) => Kept(d, e)
  BY KeptSame, FocusclientKept DEF focusdir, VisibleSet, WinOrNone
<1>6. e \in moveresize(d) => Kept(d, e)
  <2>1. xytonode(d) \ {NoWin} \in SUBSET Client
    BY DEF xytonode, Desks
  <2>2. ASSUME NEW c \in xytonode(d) \ {NoWin}
        PROVE  /\ Kept(d, [d EXCEPT !.cursor_mode = "CurMove", !.grabc = c])
               /\ Kept(d, [d EXCEPT !.cursor_mode = "CurTileDrag", !.grabc = c])
    BY <2>1 DEF Kept, KeptButLayout, Desks, CursorModes
  <2>3. ASSUME d.cursor_mode = "CurNormal", NEW c \in xytonode(d)
        PROVE  Kept(d, [d EXCEPT !.grabc = c])
    BY <2>1, <2>3 DEF Kept, KeptButLayout, Desks
  <2> QED BY Zenon, <2>2, <2>3, KeptSame DEF moveresize
<1>7. ASSUME NEW S \in SUBSET Tag PROVE Kept(d, tag(d, S))
  BY <1>1, SettagsKept DEF tag
<1>8. ASSUME NEW S \in SUBSET Tag PROVE Kept(d, toggletag(d, S))
  <2>1. sel # NoWin => Toggle(d.tags[sel], S) \in SUBSET Tag
    BY <1>1 DEF Toggle, Desks, WinOrNone
  <2> QED BY <1>1, <2>1, SettagsKept, KeptSame DEF toggletag
<1>9. ASSUME NEW n \in {-1, 1} PROVE Kept(d, viewshift(d, n))
  <2>1. d.selmon # NoMon => d.viewed[d.selmon] \in SUBSET Tag
    BY DEF Desks, SomeMon
  <2> QED BY <2>1, ShiftedTagIsTag, ViewKept, KeptSame DEF viewshift
<1>10. ASSUME NEW n \in {-1, 1} PROVE Kept(d, tagshift(d, n))
  <2>1. sel # NoWin => d.tags[sel] \in SUBSET Tag
    BY <1>1 DEF Desks, WinOrNone
  <2> QED BY <1>7, <2>1, ShiftedTagIsTag, KeptSame DEF tagshift
<1> QED BY <1>2, <1>3, <1>4, <1>5, <1>6, <1>7, <1>8, <1>9, <1>10, ViewKept, ToggleviewKept
        DEF Commands

\* A grab has a window: ButtonRelease uses grabc without a check.
GrabHasWindow == desk.cursor_mode # "CurNormal" => desk.grabc # NoWin

-----------------------------------------------------------------------------
(***************************************************************************)
(* The handlers of windows, of input and of the bars.                      *)
(***************************************************************************)
LEMMA WindowEventKept ==
    ASSUME TypeOK, WindowEvent
    PROVE  Kept(desk, desk')
<1> USE DEF TypeOK
<1>1. PICK c \in Client : CommitInitial(c) \/ MapNotify(c) \/ UnmapNotify(c) \/ SlideEnd(c)
  BY DEF WindowEvent
<1>2. RuleMonitors(desk) \in SUBSET SomeMon
  BY ListedMembers DEF RuleMonitors, Desks, SomeMon
<1>3. CASE CommitInitial(c)
  <2>1. PICK m \in RuleMonitors(desk), newtags \in RuleTags :
              desk' = setmon(applyrules(desk, c, m, newtags), c, NoMon, {})
    BY <1>3 DEF CommitInitial
  <2>2. Kept(desk, applyrules(desk, c, m, newtags))
    BY <1>2, RuleTagsAssumption, SetmonKept DEF applyrules
  <2> QED BY <2>1, <2>2, SetmonKept, KeptTwice DEF Kept, KeptButLayout, SomeMon
<1>4. CASE MapNotify(c)
  <2> DEFINE e == [desk EXCEPT !.clients = <<c>> \o @, !.fstack = <<c>> \o @]
  <2>1. Kept(desk, e)
    <3>1. <<c>> \o desk.clients \in Seq(Client) /\ <<c>> \o desk.fstack \in Seq(Client)
      BY DEF Desks
    <3> QED BY <3>1 DEF Kept, KeptButLayout, Desks
  <2>2. \A p \in Mapped(desk) : desk.mon[p] \in SomeMon /\ desk.tags[p] \in SUBSET Tag
    BY ListedMembers DEF Mapped, Desks
  <2>3. \/ \E p \in Mapped(desk) : desk' = setmon(e, c, desk.mon[p], desk.tags[p])
        \/ \E m \in RuleMonitors(desk), newtags \in RuleTags :
             desk' = setmon(e, c, m, newtags)
    BY <1>4 DEF MapNotify, applyrules
  <2>4. \E m \in SomeMon, newtags \in SUBSET Tag : desk' = setmon(e, c, m, newtags)
    <3> HIDE DEF e
    <3> QED BY <1>2, <2>2, <2>3, RuleTagsAssumption
  <2> HIDE DEF e
  <2> QED BY <2>1, <2>4, SetmonKept, KeptTwice DEF Kept, KeptButLayout
<1>5. CASE UnmapNotify(c)
  <2> DEFINE d == IF c = desk.grabc THEN Ungrabbed(desk) ELSE desk
             f == [d EXCEPT !.clients = Without(@, c)]
             e == setmon(f, c, NoMon, {})
  <2>1. Kept(desk, d)
    BY DEF Ungrabbed, Kept, KeptButLayout, Desks, CursorModes
  <2>2. Kept(d, f)
    <3> HIDE DEF d
    <3>1. d \in Desks /\ d.clients \in Seq(Client)
      BY <2>1 DEF Kept, KeptButLayout, Desks
    <3>2. Without(d.clients, c) \in Seq(Client)
      BY <3>1, WithoutIsList
    <3> QED BY <3>1, <3>2 DEF Kept, KeptButLayout, Desks
  <2>3. Kept(f, e)
    <3> HIDE DEF f
    <3> QED BY <2>2, SetmonKept DEF Kept, KeptButLayout, SomeMon
  <2>4. desk' = [e EXCEPT !.fstack = Without(@, c), !.shown = @ \ {c}]
    BY <1>5 DEF UnmapNotify
  <2> HIDE DEF d, e, f
  <2>5. Kept(desk, e)
    BY <2>1, <2>2, <2>3, KeptTwice
  <2>6. Without(e.fstack, c) \in Seq(Client)
    BY <2>5, WithoutIsList DEF Kept, KeptButLayout, Desks
  <2> QED BY <2>4, <2>5, <2>6 DEF Kept, KeptButLayout, Desks
<1>6. CASE SlideEnd(c)
  BY <1>6 DEF SlideEnd, Kept, KeptButLayout, Desks
<1> QED BY <1>1, <1>3, <1>4, <1>5, <1>6

LEMMA InputEventKept ==
    ASSUME TypeOK, GrabHasWindow, InputEvent
    PROVE  Kept(desk, desk')
<1> USE DEF TypeOK
<1>1. xytomon(desk) \in SUBSET SomeMon /\ xytonode(desk) \in SUBSET WinOrNone
  BY DEF xytomon, xytonode, Desks, SomeMon, WinOrNone
<1>2. ASSUME NEW m \in SomeMon, NEW c \in WinOrNone
      PROVE  /\ Kept(desk, [desk EXCEPT !.selmon = m])
             /\ Kept(desk, Point([desk EXCEPT !.selmon = m], c))
  <2> DEFINE e == [desk EXCEPT !.selmon = m]
  <2>1. Kept(desk, e)
    BY SelectKept
  <2>2. Kept(desk, Point(e, c))
    <3> HIDE DEF e
    <3> QED BY <2>1, FocusclientKept, KeptTwice DEF Point, Kept, KeptButLayout
  <2> QED BY <2>1, <2>2
<1>3. CASE KeyPress
  BY <1>3, CommandsKept DEF KeyPress
<1>4. CASE MotionNotify
  BY <1>1, <1>2, <1>4 DEF MotionNotify
<1>5. CASE ButtonPress
  <2>1. PICK m \in xytomon(desk), c \in xytonode(desk) :
           IF desk.locked THEN desk' = [desk EXCEPT !.selmon = m]
           ELSE desk' \in Commands(Point([desk EXCEPT !.selmon = m], c))
    BY <1>5 DEF ButtonPress
  <2> DEFINE e == [desk EXCEPT !.selmon = m]
             f == Point(e, c)
  <2>2. Kept(desk, e) /\ Kept(desk, f)
    BY <1>1, <1>2
  <2>3. desk' = e \/ desk' \in Commands(f)
    BY <2>1
  <2> HIDE DEF e, f
  <2> QED BY <2>2, <2>3, CommandsKept, KeptTwice DEF Kept, KeptButLayout
<1>6. CASE ButtonRelease
  <2> DEFINE c == desk.grabc
             d == Ungrabbed(desk)
  <2>1. Kept(desk, d)
    BY DEF Ungrabbed, Kept, KeptButLayout, Desks, CursorModes
  <2>2. c \in WinOrNone
    BY DEF Desks, WinOrNone
  <2>3. desk.cursor_mode # "CurNormal" /\ desk.cursor_mode = "CurMove" => c \in Client
    BY <2>2 DEF GrabHasWindow, WinOrNone
  <2>31.\/ desk' = d
        \/ desk' = [desk EXCEPT !.cursor_mode = "CurNormal"]
        \/ desk' = focusclient(d, c)
        \/ c \in Client /\ \E m \in xytomon(d) : desk' = setmon([d EXCEPT !.selmon = m], c, m, {})
    BY <1>6, <2>3 DEF ButtonRelease, Grabbing
  <2> HIDE DEF c, d
  <2>4. d \in Desks /\ xytomon(d) \in SUBSET SomeMon
    BY <2>1 DEF Kept, KeptButLayout, xytomon, Desks, SomeMon
  <2>5. CASE desk' = focusclient(d, c)
    BY <2>1, <2>2, <2>4, <2>5, FocusclientKept, KeptTwice
  <2>6. ASSUME NEW m \in SomeMon, c \in Client, desk' = setmon([d EXCEPT !.selmon = m], c, m, {})
        PROVE  Kept(desk, desk')
    <3> DEFINE e == [d EXCEPT !.selmon = m]
    <3>1. Kept(d, e)
      BY <2>4, SelectKept
    <3> HIDE DEF e
    <3>2. Kept(e, setmon(e, c, m, {}))
      BY <2>6, <3>1, SetmonKept DEF Kept, KeptButLayout
    <3> QED BY <2>1, <2>6, <3>1, <3>2, KeptTwice DEF e
  <2>7. CASE desk' = [desk EXCEPT !.cursor_mode = "CurNormal"]
    BY <2>7 DEF Kept, KeptButLayout, Desks, CursorModes
  <2> QED BY <2>1, <2>31, <2>4, <2>5, <2>6, <2>7
<1>7. CASE DestroyDragIcon
  BY <1>7, RefocusOnKept DEF DestroyDragIcon
<1> QED BY <1>3, <1>4, <1>5, <1>6, <1>7 DEF InputEvent

LEMMA BarRequestKept ==
    ASSUME TypeOK, BarRequest
    PROVE  Kept(desk, desk')
<1> USE DEF TypeOK
<1>1. PICK m \in Monitor :
         \/ IpcSetTags(m) \/ IpcSetClientTags(m)
         \/ \E t \in Tag : ExtActivate(m, t) \/ ExtDeactivate(m, t)
  BY DEF BarRequest
<1> DEFINE e == [desk EXCEPT !.selmon = m]
<1>2. Kept(desk, e)
  BY SelectKept DEF SomeMon
<1>3. CASE IpcSetTags(m)
  <2>1. PICK tagmask \in (SUBSET Tag) \ {{}}, toggle_tagset \in BOOLEAN :
           desk' = Redisplay([desk EXCEPT !.viewed[m] = tagmask,
                                !.previous[m] = IF toggle_tagset THEN desk.viewed[m] ELSE @], m)
    BY Zenon, <1>3 DEF IpcSetTags
  <2> DEFINE f == [desk EXCEPT !.viewed[m] = tagmask,
                     !.previous[m] = IF toggle_tagset THEN desk.viewed[m] ELSE @]
  <2>2. Kept(desk, f)
    BY DEF Kept, KeptButLayout, Desks
  <2>3. desk' = Redisplay(f, m)
    BY <2>1
  <2> HIDE DEF f
  <2> QED BY <2>2, <2>3, RedisplayKept, KeptTwice DEF Kept, KeptButLayout
<1>4. CASE IpcSetClientTags(m)
  BY <1>4, FocustopIsWindow, SettagsKept DEF IpcSetClientTags
<1>5. ASSUME NEW t \in Tag, ExtActivate(m, t) \/ ExtDeactivate(m, t)
      PROVE  Kept(desk, desk')
  <2>1. desk' = view(e, {t}) \/ desk' = toggleview(e, {t})
    BY <1>5 DEF ExtActivate, ExtDeactivate
  <2> HIDE DEF e
  <2> QED BY <1>2, <2>1, ViewKept, ToggleviewKept, KeptTwice DEF Kept, KeptButLayout
<1> QED BY <1>1, <1>3, <1>4, <1>5

-----------------------------------------------------------------------------
(***************************************************************************)
(* The handlers of outputs and layer surfaces.  Held(d, e) is what they    *)
(* keep of the lock: only its surfaces may go, with the keyboard, which a  *)
(* surface that had it may also keep.                                      *)
(***************************************************************************)
Held(d, e) ==
    /\ e \in Desks
    /\ e.locked = d.locked
    /\ e.lockbg = d.lockbg
    /\ e.curlock = d.curlock
    /\ e.locksurf \subseteq d.locksurf
    /\ d.locked => \/ e.kb \in {d.kb, NoWin} \cup e.locksurf
                   \/ e.kb = OldSurface /\ d.kb \in d.locksurf \ e.locksurf
    /\ \/ d.cursor_mode # "CurNormal" /\ d.grabc = NoWin
       \/ e.cursor_mode = "CurNormal" \/ e.grabc # NoWin

LEMMA HeldThenKept ==
    ASSUME NEW d, NEW e, NEW f, Held(d, e), KeptButLayout(e, f)
    PROVE  Held(d, f)
BY DEF Held, KeptButLayout

\* The layout against the list and the state of the outputs.
Plugged(d) ==
    /\ Distinct(d.mons)
    /\ d.layout \subseteq Listed(d.mons)
    /\ Enabled(d) \subseteq d.layout
    /\ d.layout \subseteq d.on \cup d.asleep

LEMMA UpdatemonsPlugs ==
    ASSUME NEW d \in Desks, Distinct(d.mons), d.layout \subseteq Listed(d.mons)
    PROVE  Plugged(updatemons(d))
<1> DEFINE e == updatemons(d)
<1>1. /\ KeptButLayout(d, e)
      /\ Enabled(d) \subseteq e.layout
      /\ e.layout \subseteq d.layout \cup Enabled(d)
      /\ \A m \in Listed(d.mons) : Disabled(d, m) => m \notin e.layout
  BY UpdatemonsKept
<1> HIDE DEF e
<1>2. Plugged(e)
  BY <1>1 DEF KeptButLayout, Plugged, Enabled, Disabled
<1> QED BY <1>2 DEF e

\* One round of the loop of UnmapLayersOf.
UnmapIfOn(d, l, m) == IF d.lmon[l] = m THEN unmaplayersurfacenotify(d, l) ELSE d

UnmapRounds(d, m, run) ==
    /\ run[0] = d
    /\ \A i \in 1..Len(Stack) : run[i] = UnmapIfOn(run[i - 1], Stack[i], m)
    /\ UnmapLayersOf(d, m) = run[Len(Stack)]

LEMMA UnmapLayersRuns ==
    ASSUME NEW d \in Desks, NEW m
    PROVE  \E run : UnmapRounds(d, m, run)
<1> DEFINE n == Len(Stack)
           run[i \in 0..n] ==
               IF i = 0 THEN d
               ELSE IF run[i - 1].lmon[Stack[i]] = m
                    THEN unmaplayersurfacenotify(run[i - 1], Stack[i])
                    ELSE run[i - 1]
           G == [p \in (1..n) \X Desks |-> UnmapIfOn(p[2], Stack[p[1]], m)]
<1>1. n \in Nat /\ \A i \in 1..n : Stack[i] \in Layer
  BY StackAssumption
<1>2. \A i \in 1..n, e \in Desks : Kept(e, UnmapIfOn(e, Stack[i], m))
  BY <1>1, UnmaplayerKept, KeptSame DEF UnmapIfOn
<1>3. G \in [(1..n) \X Desks -> Desks]
  BY <1>2 DEF Kept, KeptButLayout
<1>4. PICK f \in [0..n -> Desks] :
             f[0] = d /\ \A i \in 1..n : f[i] = G[<<i, f[i - 1]>>]
  <2> HIDE DEF G, n
  <2> QED BY <1>1, <1>3, DeskLoop
<1>5. ASSUME NEW i \in 1..n
      PROVE  f[i] = UnmapIfOn(f[i - 1], Stack[i], m)
  <2> HIDE DEF G, n
  <2>1. i - 1 \in 0..n
    BY <1>1
  <2>2. <<i, f[i - 1]>> \in (1..n) \X Desks
    BY <2>1
  <2>3. f[i] = G[<<i, f[i - 1]>>]
    BY <1>4
  <2> QED BY <2>2, <2>3 DEF G
<1>6. f = [i \in 0..n |->
             IF i = 0 THEN d
             ELSE IF f[i - 1].lmon[Stack[i]] = m
                  THEN unmaplayersurfacenotify(f[i - 1], Stack[i])
                  ELSE f[i - 1]]
  <2> HIDE DEF G, n
  <2> QED BY <1>1, <1>4, <1>5 DEF UnmapIfOn
<1>7. run = [i \in 0..n |->
               IF i = 0 THEN d
               ELSE IF run[i - 1].lmon[Stack[i]] = m
                    THEN unmaplayersurfacenotify(run[i - 1], Stack[i])
                    ELSE run[i - 1]]
  BY Zenon, <1>6
<1>8. UnmapLayersOf(d, m) = run[n]
  BY DEF UnmapLayersOf, run
<1> HIDE DEF run
<1>9. run[0] = d /\ \A i \in 1..n : run[i] = UnmapIfOn(run[i - 1], Stack[i], m)
  BY <1>1, <1>7 DEF UnmapIfOn
<1>10. UnmapRounds(d, m, run)
  BY <1>8, <1>9 DEF UnmapRounds
<1> QED BY <1>10

\* While locked a layer surface goes without the keyboard.
LEMMA UnmapWhileLocked ==
    ASSUME NEW d \in Desks, NEW l \in Layer, d.locked
    PROVE  unmaplayersurfacenotify(d, l).kb = d.kb
<1> DEFINE gone == [d EXCEPT !.lmon[l] = NoMon, !.grabs = @ \ {l}]
<1>1. gone.kb = d.kb /\ gone.locked
  BY DEF Desks
<1>2. unmaplayersurfacenotify(d, l) =
         LET e == arrangelayers(gone, d.lmon[l])
         IN  IF e.kb = l THEN Refocus(e) ELSE e
  BY DEF unmaplayersurfacenotify
<1> HIDE DEF gone
<1>3. arrangelayers(gone, d.lmon[l]) = gone
  BY <1>1 DEF arrangelayers
<1>4. Refocus(gone) = gone
  BY <1>1 DEF RefocusOn, focusclient
<1> QED BY <1>1, <1>2, <1>3, <1>4

LEMMA UnmapLayersKept ==
    ASSUME NEW d \in Desks, NEW m
    PROVE  LET e == UnmapLayersOf(d, m) IN Kept(d, e) /\ (d.locked => e.kb = d.kb)
<1> DEFINE n == Len(Stack)
           S == {e \in Desks : Kept(d, e) /\ (d.locked => e.kb = d.kb)}
<1>0. PICK run : UnmapRounds(d, m, run)
  BY UnmapLayersRuns
<1>1. /\ run[0] = d
      /\ \A i \in 1..n : run[i] = UnmapIfOn(run[i - 1], Stack[i], m)
      /\ UnmapLayersOf(d, m) = run[n]
  BY <1>0 DEF UnmapRounds
<1>2. n \in Nat /\ \A i \in 1..n : Stack[i] \in Layer
  BY StackAssumption
<1>3. run[0] \in S
  BY <1>1, KeptSame
<1>4. ASSUME NEW i \in 1..n, run[i - 1] \in S PROVE run[i] \in S
  <2>1. Kept(run[i - 1], run[i])
    BY <1>1, <1>2, <1>4, UnmaplayerKept, KeptSame DEF UnmapIfOn
  <2>2. run[i - 1].locked => run[i].kb = run[i - 1].kb
    BY <1>1, <1>2, <1>4, UnmapWhileLocked DEF UnmapIfOn
  <2> QED BY <1>4, <2>1, <2>2, KeptTwice DEF Kept, KeptButLayout
<1>5. run[n] \in S
  <2> HIDE DEF S, n
  <2> QED BY <1>2, <1>3, <1>4, LoopInvariant
<1> QED BY <1>1, <1>5

LEMMA DestroylocksurfaceHeld ==
    ASSUME NEW d \in Desks, NEW m \in d.locksurf, NEW first \in d.locksurf \cup {NoWin}
    PROVE  LET e == destroylocksurface(d, m, first)
           IN  /\ Held(d, e)
               /\ e.mons = d.mons /\ e.on = d.on /\ e.asleep = d.asleep /\ e.layout = d.layout
               /\ d.locked => e.kb # m /\ e.locksurf = d.locksurf \ {m}
<1> DEFINE gone == [d EXCEPT !.locksurf = @ \ {m}]
           none == [gone EXCEPT !.kb = NoWin]
           heir == [gone EXCEPT !.kb = Reentered(m, first)]
<1>0. m \in Monitor /\ Reentered(m, first) \in (d.locksurf \ {m}) \cup {NoWin, OldSurface}
  BY DEF Desks, Reentered
<1>1. Held(d, gone) \/ d.kb = m
  BY DEF Held, Desks
<1>2. Held(d, none)
  BY DEF Held, Desks, Focusable
<1>3. d.locked /\ d.kb = m => Held(d, heir)
  BY <1>0 DEF Held, Desks, Focusable
<1>4. Kept(none, RefocusOn(none, d.selmon))
  <2> HIDE DEF none
  <2> QED BY <1>2, RefocusOnKept DEF Held
<1>5. Held(d, RefocusOn(none, d.selmon))
  <2> HIDE DEF none
  <2> QED BY <1>2, <1>4, HeldThenKept DEF Kept
<1>6. /\ none.mons = d.mons /\ none.on = d.on /\ none.asleep = d.asleep /\ none.layout = d.layout
      /\ gone.mons = d.mons /\ gone.on = d.on /\ gone.asleep = d.asleep /\ gone.layout = d.layout
  BY DEF Desks
<1>7. LET e == RefocusOn(none, d.selmon)
      IN  e.mons = d.mons /\ e.on = d.on /\ e.asleep = d.asleep /\ e.layout = d.layout
  <2> HIDE DEF none
  <2> QED BY <1>4, <1>6 DEF Kept, KeptButLayout
<1>8. destroylocksurface(d, m, first) =
         IF d.kb # m THEN gone
         ELSE IF d.locked THEN heir ELSE RefocusOn(none, d.selmon)
  BY DEF destroylocksurface
<1>9. /\ heir.mons = d.mons /\ heir.on = d.on /\ heir.asleep = d.asleep
      /\ heir.layout = d.layout
  BY DEF Desks
<1>10. /\ gone.kb = d.kb /\ gone.locksurf = d.locksurf \ {m}
       /\ heir.kb # m /\ heir.locksurf = d.locksurf \ {m}
  BY <1>0, NullAssumption, SurfaceAssumption DEF Desks
<1> HIDE DEF gone, none, heir
<1> QED BY <1>1, <1>3, <1>5, <1>6, <1>7, <1>8, <1>9, <1>10

LEMMA CreateMonHeld ==
    ASSUME TypeOK, NEW m \in Monitor, CreateMon(m)
    PROVE  Held(desk, desk') /\ (Plugged(desk) => Plugged(desk'))
<1> USE DEF TypeOK
<1>1. PICK ok \in Outcomes :
         desk' = updatemons([desk EXCEPT !.mons = <<m>> \o @,
                               !.on = IF ok THEN @ \cup {m} ELSE @,
                               !.layout = @ \cup {m}])
  BY Zenon DEF CreateMon
<1> DEFINE d == [desk EXCEPT !.mons = <<m>> \o @,
                   !.on = IF ok THEN @ \cup {m} ELSE @, !.layout = @ \cup {m}]
<1>2. desk.mons \in Seq(Monitor) /\ m \notin Listed(desk.mons)
  BY DEF CreateMon, Desks
<1>3. /\ <<m>> \o desk.mons \in Seq(Monitor)
      /\ Listed(<<m>> \o desk.mons) = {m} \cup Listed(desk.mons)
      /\ Distinct(desk.mons) => Distinct(<<m>> \o desk.mons)
  BY <1>2, PrependMembers
<1>4. /\ Held(desk, d)
      /\ d.mons = <<m>> \o desk.mons /\ d.layout = desk.layout \cup {m}
  BY <1>3 DEF Held, Desks
<1>5. desk' = updatemons(d)
  BY <1>1
<1> HIDE DEF d
<1>6. d \in Desks
  BY <1>4 DEF Held
<1>7. Held(desk, desk')
  BY <1>4, <1>5, <1>6, UpdatemonsKept, HeldThenKept
<1>8. Plugged(desk) => Plugged(desk')
  BY <1>3, <1>4, <1>5, <1>6, UpdatemonsPlugs DEF Plugged
<1> QED BY <1>7, <1>8

LEMMA CleanupMonHeld ==
    ASSUME TypeOK, NEW m \in Monitor, CleanupMon(m)
    PROVE  Held(desk, desk') /\ (Plugged(desk) => Plugged(desk'))
<1> USE DEF TypeOK
<1>1. PICK first \in desk.locksurf \cup {NoWin} : desk' = cleanupmon(desk, m, first)
  BY DEF CleanupMon
<1> DEFINE bare     == UnmapLayersOf(desk, m)
           unlisted == [bare EXCEPT !.mons = Without(@, m)]
           unlocked == IF m \in desk.locksurf THEN destroylocksurface(unlisted, m, first)
                       ELSE unlisted
           unplaced == [unlocked EXCEPT !.layout = @ \ {m}]
           removed  == IF m \in desk.layout THEN updatemons(unplaced) ELSE unlocked
           closed   == closemon(removed, m)
           mons     == Without(desk.mons, m)
<1>2. Kept(desk, bare) /\ (desk.locked => bare.kb = desk.kb)
  BY UnmapLayersKept
<1>3. mons \in Seq(Monitor)
  BY WithoutIsList DEF Desks
<1>4. /\ Held(desk, unlisted) /\ unlisted.locksurf = desk.locksurf
      /\ unlisted.mons = mons /\ unlisted.on = desk.on
      /\ unlisted.asleep = desk.asleep /\ unlisted.layout = desk.layout
      /\ desk.locked => unlisted.kb = desk.kb
  <2> HIDE DEF bare
  <2> QED BY <1>2, <1>3 DEF Held, Kept, KeptButLayout, Desks
<1>5. /\ Held(desk, unlocked)
      /\ unlocked.mons = mons /\ unlocked.on = desk.on
      /\ unlocked.asleep = desk.asleep /\ unlocked.layout = desk.layout
  <2> HIDE DEF unlisted, mons
  <2>1. unlisted \in Desks /\ first \in unlisted.locksurf \cup {NoWin}
    BY <1>4 DEF Held
  <2> DEFINE e == destroylocksurface(unlisted, m, first)
  <2>2. ASSUME m \in desk.locksurf
        PROVE  /\ Held(unlisted, e)
               /\ e.mons = unlisted.mons /\ e.on = unlisted.on
               /\ e.asleep = unlisted.asleep /\ e.layout = unlisted.layout
    BY <1>4, <2>1, <2>2, DestroylocksurfaceHeld
  <2> HIDE DEF e
  <2>3. m \in desk.locksurf => Held(desk, e)
    BY <1>4, <2>2 DEF Held
  <2> QED BY <1>4, <2>2, <2>3 DEF e
<1>6. /\ Held(desk, unplaced)
      /\ unplaced.mons = mons /\ unplaced.on = desk.on
      /\ unplaced.asleep = desk.asleep /\ unplaced.layout = desk.layout \ {m}
  <2> HIDE DEF unlocked, mons
  <2> QED BY <1>5 DEF Held, Desks
<1>7. KeptButLayout(unplaced, updatemons(unplaced))
  <2> HIDE DEF unplaced
  <2> QED BY <1>6, UpdatemonsKept DEF Held
<1>8. /\ Held(desk, removed)
      /\ removed.mons = mons /\ removed.on = desk.on /\ removed.asleep = desk.asleep
  <2> HIDE DEF unlocked, unplaced, mons
  <2> QED BY <1>5, <1>6, <1>7, HeldThenKept DEF KeptButLayout
<1>9. Kept(removed, closed)
  <2> HIDE DEF removed
  <2> QED BY <1>8, ClosemonKept DEF Held
<1>10. /\ Held(desk, closed) /\ closed.layout = removed.layout
       /\ closed.mons = mons /\ closed.on = desk.on /\ closed.asleep = desk.asleep
  <2> HIDE DEF removed, closed, mons
  <2> QED BY <1>8, <1>9, HeldThenKept DEF Kept, KeptButLayout
<1>11. desk' = [closed EXCEPT !.on = @ \ {m}, !.asleep = @ \ {m},
                              !.viewed[m] = {1}, !.previous[m] = {1}]
  BY <1>1 DEF cleanupmon
<1>12. /\ Held(desk, desk') /\ desk'.layout = removed.layout /\ desk'.mons = mons
       /\ desk'.on = desk.on \ {m} /\ desk'.asleep = desk.asleep \ {m}
  <2> HIDE DEF closed, removed, mons
  <2>1. {1} \in SUBSET Tag
    BY TagAssumption DEF Tag
  <2> QED BY <1>10, <1>11, <2>1 DEF Held, Desks
<1>13. ASSUME Plugged(desk) PROVE Plugged(desk')
  <2>1. Distinct(mons) /\ Listed(mons) = Listed(desk.mons) \ {m}
    BY <1>13, WithoutMembers DEF Plugged, Desks
  <2> HIDE DEF mons
  <2>2. CASE m \in desk.layout
    <3>1. removed = updatemons(unplaced)
      BY <2>2
    <3> HIDE DEF unplaced, removed
    <3>2. unplaced \in Desks /\ unplaced.layout \subseteq Listed(unplaced.mons)
      BY <1>6, <1>13, <2>1 DEF Held, Plugged
    <3>3. Plugged(removed)
      BY <1>6, <2>1, <3>1, <3>2, UpdatemonsPlugs
    <3> QED BY <1>8, <1>12, <2>1, <3>3 DEF Plugged, Enabled
  <2>3. CASE m \notin desk.layout
    <3>1. removed.layout = desk.layout
      BY <1>5, <2>3
    <3> HIDE DEF removed
    <3> QED BY <1>12, <1>13, <2>1, <2>3, <3>1 DEF Plugged, Enabled
  <2> QED BY <2>2, <2>3
<1> QED BY <1>12, <1>13

LEMMA PowerMgrSetModeHeld ==
    ASSUME TypeOK, NEW m \in Monitor, PowerMgrSetMode(m)
    PROVE  Held(desk, desk') /\ (Plugged(desk) => Plugged(desk'))
<1> USE DEF TypeOK
<1>1. PICK mode \in BOOLEAN, ok \in Outcomes :
         desk' = updatemons(SetMode(desk, m, mode, ok))
  BY Zenon DEF PowerMgrSetMode
<1> DEFINE d      == SetMode(desk, m, mode, ok)
           e      == IF ok THEN CommitEnabled(desk, m, mode) ELSE desk
           asleep == IF mode THEN e.asleep \ {m} ELSE e.asleep \cup {m}
<1>2. Held(desk, d) /\ d.mons = desk.mons /\ d.layout = desk.layout
  <2>1. Held(desk, e) /\ e.mons = desk.mons /\ e.layout = desk.layout
    BY DEF CommitEnabled, Held, Desks
  <2>2. d = [e EXCEPT !.asleep = asleep]
    BY Zenon DEF SetMode
  <2> HIDE DEF d, e
  <2>3. asleep \in SUBSET Monitor
    BY <2>1 DEF Held, Desks
  <2> HIDE DEF asleep
  <2> QED BY <2>1, <2>2, <2>3 DEF Held, Desks
<1>3. desk' = updatemons(d)
  BY <1>1
<1> HIDE DEF d
<1>4. d \in Desks
  BY <1>2 DEF Held
<1> QED BY <1>2, <1>3, <1>4, UpdatemonsKept, UpdatemonsPlugs, HeldThenKept DEF Plugged

\* What committing and placing output m keeps; the layout still names listed ones.
HeadKept(d, e, m) ==
    /\ Held(d, e) /\ e.mons = d.mons /\ e.locksurf = d.locksurf
    /\ Distinct(d.mons) /\ m \in Listed(d.mons) /\ d.layout \subseteq Listed(d.mons)
          => e.layout \subseteq Listed(d.mons)

LEMMA ApplyHeadHeld ==
    ASSUME NEW d \in Desks, NEW m \in Monitor, NEW enabled \in BOOLEAN,
           NEW ok \in BOOLEAN, NEW placed \in BOOLEAN
    PROVE  HeadKept(d, ApplyHead(d, m, enabled, ok, placed), m)
<1> DEFINE e == IF ok THEN [CommitEnabled(d, m, enabled) EXCEPT !.asleep = @ \ {m}] ELSE d
           f == [e EXCEPT !.layout = @ \cup {m}]
<1>1. Held(d, e) /\ e.mons = d.mons /\ e.layout = d.layout /\ e.locksurf = d.locksurf
  BY DEF CommitEnabled, Held, Desks
<1>2. /\ Held(d, f) /\ f.mons = d.mons /\ f.layout = d.layout \cup {m}
      /\ f.locksurf = d.locksurf
  <2> HIDE DEF e
  <2> QED BY <1>1 DEF Held, Desks
<1>3. ApplyHead(d, m, enabled, ok, placed) = IF placed /\ m \in e.on THEN updatemons(f) ELSE e
  BY DEF ApplyHead
<1> HIDE DEF e, f
<1>4. f \in Desks
  BY <1>2 DEF Held
<1>5. /\ Held(d, updatemons(f)) /\ updatemons(f).mons = d.mons
      /\ updatemons(f).locksurf = d.locksurf
  BY <1>2, <1>4, UpdatemonsKept, HeldThenKept DEF KeptButLayout
<1>6. Distinct(d.mons) /\ m \in Listed(d.mons) /\ d.layout \subseteq Listed(d.mons)
         => updatemons(f).layout \subseteq Listed(d.mons)
  BY <1>2, <1>4, <1>5, UpdatemonsPlugs DEF Plugged
<1> QED BY <1>1, <1>3, <1>5, <1>6 DEF HeadKept

\* An output configuration is a run of ApplyHead over its heads.
Configured(heads, enabled, ok, placed, run) ==
    /\ enabled \in [Heads -> BOOLEAN] /\ ok \in [Heads -> BOOLEAN]
    /\ placed \in [Heads -> BOOLEAN]
    /\ Len(heads) \in Nat
    /\ \A i \in 1..Len(heads) : /\ heads[i] \in Heads
                                 /\ heads[i] \in Listed(desk.mons) /\ heads[i] \in Monitor
    /\ run[0] = desk
    /\ \A i \in 1..Len(heads) :
         run[i] = ApplyHead(run[i - 1], heads[i], enabled[heads[i]], ok[heads[i]],
                            placed[heads[i]])
    /\ desk' = updatemons(run[Len(heads)])

LEMMA OutputMgrApplyRuns ==
    ASSUME TypeOK, OutputMgrApply
    PROVE  \E heads, enabled, ok, placed, run : Configured(heads, enabled, ok, placed, run)
<1> USE DEF TypeOK
<1>1. PICK heads \in Orders(Heads), enabled \in [Heads -> BOOLEAN],
           ok \in [Heads -> Outcomes], placed \in [Heads -> BOOLEAN] :
        LET run[i \in 0..Len(heads)] ==
                IF i = 0 THEN desk
                ELSE LET m == heads[i]
                     IN  ApplyHead(run[i - 1], m, enabled[m], ok[m], placed[m])
        IN  desk' = updatemons(run[Len(heads)])
  BY ZenonT(30) DEF OutputMgrApply
<1> DEFINE n == Len(heads)
           run[i \in 0..n] ==
               IF i = 0 THEN desk
               ELSE LET m == heads[i]
                    IN  ApplyHead(run[i - 1], m, enabled[m], ok[m], placed[m])
           Round(d, i) == ApplyHead(d, heads[i], enabled[heads[i]], ok[heads[i]],
                                    placed[heads[i]])
           G == [p \in (1..n) \X Desks |-> Round(p[2], p[1])]
<1>2. /\ n \in Nat
      /\ \A i \in 1..n : heads[i] \in Heads
      /\ \A i \in 1..n : heads[i] \in Listed(desk.mons) /\ heads[i] \in Monitor
  <2>1. Heads \in SUBSET Listed(desk.mons) /\ Heads \in SUBSET Monitor
    BY ListedMembers DEF Heads, Desks
  <2>2. heads \in [1..Cardinality(Heads) -> Heads] /\ IsFiniteSet(Heads)
    <3>1. heads \in [1..Cardinality(Heads) -> Heads]
      BY DEF Orders
    <3>2. IsFiniteSet(Heads)
      <4>1. IsFiniteSet(Listed(desk.mons))
        BY ListedFinite DEF Desks
      <4> QED BY <2>1, <4>1, FS_Subset
    <3> QED BY <3>1, <3>2
  <2>3. Cardinality(Heads) \in Nat
    BY <2>2, FS_CardinalityType
  <2>4. heads \in Seq(Heads)
    BY <2>2, <2>3, IsASeq
  <2> QED BY <2>1, <2>4
<1>3. ASSUME NEW i \in 1..n, NEW d \in Desks
      PROVE  HeadKept(d, Round(d, i), heads[i])
  <2> DEFINE m == heads[i]
  <2>1. m \in Heads /\ m \in Monitor
    BY <1>2
  <2> HIDE DEF m
  <2>2. enabled[m] \in BOOLEAN /\ ok[m] \in BOOLEAN /\ placed[m] \in BOOLEAN
    BY <2>1, OutcomesAssumption
  <2>3. HeadKept(d, ApplyHead(d, m, enabled[m], ok[m], placed[m]), m)
    BY <2>1, <2>2, ApplyHeadHeld
  <2> QED BY <2>3 DEF m
<1>4. /\ run[0] = desk
      /\ \A i \in 1..n : run[i] = Round(run[i - 1], i)
  <2>1. G \in [(1..n) \X Desks -> Desks]
    <3> HIDE DEF Round, n
    <3> QED BY <1>3 DEF HeadKept, Held
  <2>2. PICK f \in [0..n -> Desks] :
               f[0] = desk /\ \A i \in 1..n : f[i] = G[<<i, f[i - 1]>>]
    <3>1. n \in Nat /\ desk \in Desks
      BY <1>2
    <3> HIDE DEF G, n, run, Round
    <3> QED BY <2>1, <3>1, DeskLoop
  <2>3. ASSUME NEW i \in 1..n
        PROVE  f[i] = Round(f[i - 1], i)
    <3> HIDE DEF Round, n
    <3>1. <<i, f[i - 1]>> \in (1..n) \X Desks
      BY <1>2
    <3> QED BY <2>2, <3>1
  <2>4. f = [i \in 0..n |->
               IF i = 0 THEN desk
               ELSE LET m == heads[i]
                    IN  ApplyHead(f[i - 1], m, enabled[m], ok[m], placed[m])]
    <3> HIDE DEF G, n
    <3> QED BY <1>2, <2>2, <2>3
  <2>5. run = [i \in 0..n |->
               IF i = 0 THEN desk
               ELSE LET m == heads[i]
                    IN  ApplyHead(run[i - 1], m, enabled[m], ok[m], placed[m])]
    BY <2>4
  <2> HIDE DEF run, n
  <2> QED BY <1>2, <2>5
<1>5. desk' = updatemons(run[n])
  BY <1>1
<1> HIDE DEF run
<1>6. enabled \in [Heads -> BOOLEAN] /\ ok \in [Heads -> BOOLEAN] /\ placed \in [Heads -> BOOLEAN]
  BY OutcomesAssumption
<1>7. Configured(heads, enabled, ok, placed, run)
  BY <1>2, <1>4, <1>5, <1>6 DEF Configured
<1> QED BY <1>7

LEMMA OutputMgrApplyHeld ==
    ASSUME TypeOK, OutputMgrApply
    PROVE  Held(desk, desk') /\ (Plugged(desk) => Plugged(desk'))
<1> USE DEF TypeOK
<1>1. PICK heads, enabled, ok, placed, run : Configured(heads, enabled, ok, placed, run)
  BY OutputMgrApplyRuns
<1> DEFINE n == Len(heads)
           S == {d \in Desks :
                   /\ Held(desk, d) /\ d.mons = desk.mons /\ d.locksurf = desk.locksurf
                   /\ Plugged(desk) => d.layout \subseteq Listed(desk.mons)}
<1>2. run[n] \in S
  <2>1. run[0] \in S
    BY <1>1 DEF Configured, Held, Plugged
  <2>2. ASSUME NEW i \in 1..n, run[i - 1] \in S PROVE run[i] \in S
    <3> DEFINE d == run[i - 1]
               e == run[i]
               m == heads[i]
    <3>1. /\ m \in Listed(desk.mons) /\ m \in Monitor
          /\ enabled[m] \in BOOLEAN /\ ok[m] \in BOOLEAN /\ placed[m] \in BOOLEAN
          /\ e = ApplyHead(d, m, enabled[m], ok[m], placed[m])
      BY <1>1 DEF Configured
    <3> HIDE DEF d, e, m
    <3>2. d \in S
      BY <2>2 DEF d
    <3>3. HeadKept(d, e, m)
      BY <3>1, <3>2, ApplyHeadHeld
    <3>4. e \in S
      BY <3>1, <3>2, <3>3 DEF HeadKept, Held, Plugged
    <3> QED BY <3>4 DEF e
  <2>3. n \in Nat
    BY <1>1 DEF Configured
  <2> HIDE DEF S, n
  <2> QED BY <2>1, <2>2, <2>3, LoopInvariant
<1> DEFINE last == run[n]
<1>3. last \in S /\ desk' = updatemons(last)
  BY <1>1, <1>2 DEF Configured
<1> HIDE DEF last
<1> QED BY <1>3, UpdatemonsKept, UpdatemonsPlugs, HeldThenKept DEF Plugged

LEMMA KeptPlugged ==
    ASSUME NEW d, NEW e, Kept(d, e)
    PROVE  Held(d, e) /\ (Plugged(d) => Plugged(e))
BY DEF Kept, KeptButLayout, Held, Plugged, Enabled

LEMMA UpdatemonsHeld ==
    ASSUME NEW d \in Desks
    PROVE  Held(d, updatemons(d)) /\ (Plugged(d) => Plugged(updatemons(d)))
BY UpdatemonsKept, UpdatemonsPlugs DEF KeptButLayout, Held, Plugged

LEMMA OnConfigReloadHeld ==
    ASSUME TypeOK, OnConfigReload
    PROVE  Held(desk, desk') /\ (Plugged(desk) => Plugged(desk'))
<1> USE DEF TypeOK
<1>1. PICK replaced \in BOOLEAN :
        LET e == IF replaced /\ Enabled(desk) # {} THEN updatemons(desk) ELSE desk
            here == {c \in Mapped(e) : e.mon[c] \in Enabled(e)}
        IN  desk' = [e EXCEPT !.shown = (@ \ here)
                \cup {c \in here : VISIBLEON(e, c, e.mon[c]) \/ c \in e.leaving}]
  BY DEF OnConfigReload
<1> DEFINE e    == IF replaced /\ Enabled(desk) # {} THEN updatemons(desk) ELSE desk
           here == {c \in Mapped(e) : e.mon[c] \in Enabled(e)}
           lit  == {c \in here : VISIBLEON(e, c, e.mon[c]) \/ c \in e.leaving}
<1>2. Held(desk, e) /\ (Plugged(desk) => Plugged(e))
  BY UpdatemonsHeld, KeptSame, KeptPlugged
<1>3. desk' = [e EXCEPT !.shown = (@ \ here) \cup lit]
  BY <1>1
<1>4. here \in SUBSET Client /\ lit \in SUBSET Client
  <2> HIDE DEF e
  <2>1. e.clients \in Seq(Client)
    BY <1>2 DEF Held, Desks
  <2> QED BY <2>1, ListedMembers DEF Mapped
<1> HIDE DEF e, here, lit
<1>5. Kept(e, desk')
  BY <1>2, <1>3, <1>4 DEF Held, Kept, KeptButLayout, Desks
<1> QED BY <1>2, <1>5, KeptPlugged, HeldThenKept DEF Kept

LEMMA OutputEventHeld ==
    ASSUME TypeOK, OutputEvent
    PROVE  Held(desk, desk') /\ (Plugged(desk) => Plugged(desk'))
BY CreateMonHeld, CleanupMonHeld, PowerMgrSetModeHeld, OutputMgrApplyHeld,
   UpdatemonsHeld, OnConfigReloadHeld DEF OutputEvent, RequestMonState, TypeOK

LEMMA LayerEventKept ==
    ASSUME TypeOK, NEW l \in Layer, CommitLayerSurface(l) \/ UnmapLayerSurface(l)
    PROVE  Kept(desk, desk')
<1> USE DEF TypeOK
<1>1. CASE CommitLayerSurface(l)
  <2>1. PICK m \in IF desk.lmon[l] = NoMon THEN Listed(desk.mons) ELSE {desk.lmon[l]},
             interactive \in BOOLEAN :
          desk' = arrangelayers(
              [desk EXCEPT !.lmon[l] = m,
                           !.grabs = IF interactive THEN @ \cup {l} ELSE @ \ {l}], m)
    BY Zenon, <1>1 DEF CommitLayerSurface
  <2> DEFINE d == [desk EXCEPT !.lmon[l] = m,
                     !.grabs = IF interactive THEN @ \cup {l} ELSE @ \ {l}]
  <2>2. m \in SomeMon
    BY ListedMembers DEF Desks, SomeMon
  <2>3. Kept(desk, d)
    BY <2>2 DEF Kept, KeptButLayout, Desks
  <2>4. desk' = arrangelayers(d, m)
    BY <2>1
  <2> HIDE DEF d
  <2> QED BY <2>3, <2>4, ArrangelayersKept, KeptTwice DEF Kept, KeptButLayout
<1>2. CASE UnmapLayerSurface(l)
  BY <1>2, UnmaplayerKept DEF UnmapLayerSurface
<1> QED BY <1>1, <1>2

-----------------------------------------------------------------------------
(***************************************************************************)
(* The inductive invariant.  Each part is needed by another: ButtonRelease *)
(* keeps the type because a grab has a window; the lock holds because a    *)
(* lock client has it locked; the layout is usable because it names listed *)
(* outputs, each listed once.                                              *)
(***************************************************************************)
LockIsClaimed == desk.curlock # NoLock => desk.locked

IInv ==
    /\ TypeOK
    /\ GrabHasWindow
    /\ LockIsClaimed
    /\ LockHolds
    /\ Plugged(desk)

LEMMA InitIInv ==
    ASSUME Init
    PROVE  IInv
<1>1. {1} \in SUBSET Tag
  BY TagAssumption DEF Tag
<1>2. TypeOK
  BY <1>1 DEF Init, TypeOK, Desks, SomeMon, Focusable, CursorModes
<1>3. GrabHasWindow /\ LockIsClaimed /\ LockHolds
  BY NullAssumption DEF Init, GrabHasWindow, LockIsClaimed, LockHolds
<1>4. Plugged(desk)
  BY DEF Init, Plugged, Distinct, Enabled, Listed
<1> QED BY <1>2, <1>3, <1>4 DEF IInv

\* What a step does to the session lock.
LockStep ==
    /\ desk.locked /\ desk'.locked =>
         \/ desk'.kb \in {desk.kb, NoWin} \cup desk'.locksurf
         \/ desk'.kb = OldSurface /\ desk.kb \in desk.locksurf \ desk'.locksurf
    /\ desk.curlock # NoLock => desk'.curlock \in {desk.curlock, NoLock}
    /\ desk.locked /\ ~desk'.locked => desk.curlock # NoLock

LEMMA HeldStep ==
    ASSUME IInv, Held(desk, desk'), Plugged(desk) => Plugged(desk')
    PROVE  IInv' /\ LockStep
<1>1. TypeOK' /\ GrabHasWindow' /\ LockIsClaimed' /\ Plugged(desk)'
  BY DEF IInv, Held, TypeOK, GrabHasWindow, LockIsClaimed
<1>2. LockHolds'
  <2>1. desk'.locksurf \in SUBSET Monitor
    BY DEF Held, Desks
  <2> QED BY <2>1, NullAssumption, SurfaceAssumption DEF IInv, Held, LockHolds
<1>3. LockStep
  BY DEF LockStep, Held
<1> QED BY <1>1, <1>2, <1>3 DEF IInv

LEMMA ShellEventStep ==
    ASSUME IInv, ShellEvent
    PROVE  IInv' /\ LockStep
<1> USE DEF TypeOK
<1>0. desk \in Desks /\ Plugged(desk)
  BY DEF IInv
<1>1. CASE \E l \in Layer : CommitLayerSurface(l) \/ UnmapLayerSurface(l)
  BY <1>1, LayerEventKept, KeptPlugged, HeldStep DEF IInv
<1>2. ASSUME NEW k \in Locker, LockSession(k)
      PROVE  IInv' /\ LockStep
  <2>1. CASE desk.curlock # NoLock
    <3>1. desk' = [desk EXCEPT !.lockbg = TRUE] /\ desk.locked /\ desk.lockbg = TRUE
      BY <1>2, <2>1 DEF LockSession, IInv, LockIsClaimed, LockHolds, Desks
    <3>2. Kept(desk, desk')
      BY <1>0, <3>1 DEF Kept, KeptButLayout, Desks
    <3> QED BY <3>2, KeptPlugged, HeldStep
  <2>2. CASE desk.curlock = NoLock
    <3> DEFINE e == focusclient(desk, NoWin)
    <3>1. Kept(desk, e)
      BY <1>0, FocusclientKept DEF WinOrNone
    <3>2. e.kb \notin Client
      BY <1>0, NullAssumption, SurfaceAssumption
         DEF focusclient, RaiseFocus, LayerHoldsKeyboard, IInv, LockHolds, Desks
    <3>3. desk' = [e EXCEPT !.lockbg = TRUE, !.locked = TRUE, !.curlock = k]
      BY <1>2, <2>2 DEF LockSession
    <3> HIDE DEF e
    <3>4. /\ desk' \in Desks /\ desk'.kb = e.kb /\ desk'.locked /\ desk'.lockbg
          /\ desk'.cursor_mode = e.cursor_mode /\ desk'.grabc = e.grabc
          /\ desk'.mons = e.mons /\ desk'.on = e.on
          /\ desk'.asleep = e.asleep /\ desk'.layout = e.layout /\ desk'.locksurf = e.locksurf
      BY <3>1, <3>3 DEF Kept, KeptButLayout, Desks
    <3>5. IInv'
      BY <1>0, <3>1, <3>2, <3>4
         DEF Kept, KeptButLayout, IInv, GrabHasWindow, LockIsClaimed, LockHolds, Plugged, Enabled
    <3>6. LockStep
      BY <2>2, <3>1, <3>4 DEF Kept, KeptButLayout, LockStep
    <3> QED BY <3>5, <3>6
  <2> QED BY <2>1, <2>2
<1>3. ASSUME NEW m \in Monitor, CreateLockSurface(m)
      PROVE  IInv' /\ LockStep
  <2>1. /\ desk' = [desk EXCEPT !.locksurf = @ \cup {m}, !.kb = IF m = desk.selmon THEN m ELSE @]
        /\ desk.curlock # NoLock
    BY <1>3 DEF CreateLockSurface
  <2>2. /\ desk' \in Desks /\ desk'.kb \in {desk.kb, m} /\ m \in desk'.locksurf
        /\ desk'.locked = desk.locked /\ desk'.lockbg = desk.lockbg
        /\ desk'.curlock = desk.curlock
        /\ desk'.cursor_mode = desk.cursor_mode /\ desk'.grabc = desk.grabc
        /\ desk'.mons = desk.mons /\ desk'.on = desk.on
        /\ desk'.asleep = desk.asleep /\ desk'.layout = desk.layout
    BY <1>0, <2>1 DEF Desks, Focusable
  <2>3. IInv'
    BY <1>0, <2>2, SurfaceAssumption
       DEF IInv, GrabHasWindow, LockIsClaimed, LockHolds, Plugged, Enabled
  <2> QED BY <2>2, <2>3 DEF LockStep
<1>4. ASSUME NEW m \in Monitor, DestroyLockSurface(m)
      PROVE  IInv' /\ LockStep
  <2>1. /\ m \in desk.locksurf
        /\ \E first \in desk.locksurf \cup {NoWin} : desk' = destroylocksurface(desk, m, first)
    BY <1>4 DEF DestroyLockSurface, Firsts
  <2>2. /\ Held(desk, desk') /\ desk'.mons = desk.mons /\ desk'.on = desk.on
        /\ desk'.asleep = desk.asleep /\ desk'.layout = desk.layout
    BY <1>0, <2>1, DestroylocksurfaceHeld
  <2>3. Plugged(desk')
    BY <1>0, <2>2 DEF Plugged, Enabled
  <2> QED BY <2>2, <2>3, HeldStep
<1>5. CASE UnlockSession
  <2> DEFINE e == [desk EXCEPT !.locked = FALSE, !.lockbg = FALSE, !.curlock = NoLock,
                               !.locksurf = {}, !.kb = NoWin]
  <2>1. /\ e \in Desks /\ e.locked = FALSE /\ e.lockbg = FALSE /\ e.curlock = NoLock
        /\ e.cursor_mode = desk.cursor_mode /\ e.grabc = desk.grabc
        /\ e.mons = desk.mons /\ e.on = desk.on
        /\ e.asleep = desk.asleep /\ e.layout = desk.layout
    BY <1>0 DEF Desks, Focusable
  <2>2. desk' = Refocus(e) /\ desk.curlock # NoLock
    BY <1>5 DEF UnlockSession
  <2> HIDE DEF e
  <2>3. Kept(e, desk')
    BY <2>1, <2>2, RefocusOnKept
  <2>4. IInv'
    BY <1>0, <2>1, <2>3
       DEF Kept, KeptButLayout, IInv, GrabHasWindow, LockIsClaimed, LockHolds, Plugged, Enabled
  <2> QED BY <2>1, <2>2, <2>3, <2>4 DEF LockStep, Kept, KeptButLayout
<1>6. CASE DestroySessionLock
  <2>1. desk' = [desk EXCEPT !.curlock = NoLock, !.locksurf = {}, !.kb = NoWin]
    BY <1>6 DEF DestroySessionLock
  <2>2. /\ desk' \in Desks /\ desk'.kb = NoWin /\ desk'.curlock = NoLock
        /\ desk'.locked = desk.locked /\ desk'.lockbg = desk.lockbg
        /\ desk'.cursor_mode = desk.cursor_mode /\ desk'.grabc = desk.grabc
        /\ desk'.mons = desk.mons /\ desk'.on = desk.on
        /\ desk'.asleep = desk.asleep /\ desk'.layout = desk.layout
    BY <1>0, <2>1 DEF Desks, Focusable
  <2>3. IInv'
    BY <1>0, <2>2, NullAssumption
       DEF IInv, GrabHasWindow, LockIsClaimed, LockHolds, Plugged, Enabled
  <2> QED BY <2>2, <2>3 DEF LockStep
<1>7. CASE DestroyOldSurface
  <2>1. /\ Held(desk, desk') /\ desk'.mons = desk.mons /\ desk'.on = desk.on
        /\ desk'.asleep = desk.asleep /\ desk'.layout = desk.layout
    BY <1>0, <1>7 DEF DestroyOldSurface, Held, Desks, Focusable
  <2>2. Plugged(desk')
    BY <1>0, <2>1 DEF Plugged, Enabled
  <2> QED BY <2>1, <2>2, HeldStep
<1> QED BY <1>1, <1>2, <1>3, <1>4, <1>5, <1>6, <1>7 DEF ShellEvent

LEMMA NextStep ==
    ASSUME IInv, [Next]_desk
    PROVE  IInv' /\ LockStep
<1>1. CASE OutputEvent
  BY <1>1, OutputEventHeld, HeldStep DEF IInv
<1>2. CASE WindowEvent
  BY <1>2, WindowEventKept, KeptPlugged, HeldStep DEF IInv
<1>3. CASE InputEvent
  BY <1>3, InputEventKept, KeptPlugged, HeldStep DEF IInv
<1>4. CASE BarRequest
  BY <1>4, BarRequestKept, KeptPlugged, HeldStep DEF IInv
<1>5. CASE ShellEvent
  BY <1>5, ShellEventStep
<1>6. CASE UNCHANGED desk
  <2>1. Kept(desk, desk')
    BY <1>6, KeptSame DEF IInv, TypeOK
  <2> QED BY <2>1, KeptPlugged, HeldStep
<1> QED BY <1>1, <1>2, <1>3, <1>4, <1>5, <1>6 DEF Next

LEMMA Invariance == Spec => []IInv
<1>1. Init => IInv
  BY InitIInv
<1>2. IInv /\ [Next]_desk => IInv'
  BY NextStep
<1> QED BY <1>1, <1>2, PTL DEF Spec

(***************************************************************************)
(* Every handler leaves a well-typed desk.                                 *)
(***************************************************************************)
THEOREM TypeCorrect == Spec => []TypeOK
<1>1. IInv => TypeOK
  BY DEF IInv
<1> QED BY <1>1, Invariance, PTL

(***************************************************************************)
(* No window has the keyboard while the session is locked, whatever        *)
(* windows, outputs, layer surfaces and lock clients do.                   *)
(***************************************************************************)
THEOREM LockIsHeld == Spec => []LockHolds
<1>1. IInv => LockHolds
  BY DEF IInv
<1> QED BY <1>1, Invariance, PTL

(***************************************************************************)
(* The outputs of the layout stay the enabled ones and perhaps sleeping    *)
(* ones, through hotplug, power management and configurations.             *)
(***************************************************************************)
THEOREM LayoutStaysUsable == Spec => []LayoutIsUsable
<1>1. IInv => LayoutIsUsable
  BY DEF IInv, Plugged, LayoutIsUsable
<1> QED BY <1>1, Invariance, PTL

(***************************************************************************)
(* While locked the keyboard moves only to lock surfaces or to nothing, or *)
(* stays with a surface that stops being a lock surface under it.          *)
(***************************************************************************)
THEOREM KeyboardStaysLocked == Spec => LockedKeyboard
<1>1. IInv /\ [Next]_desk =>
         [desk.locked /\ desk'.locked =>
            \/ desk'.kb \in {desk.kb, NoWin} \cup desk'.locksurf
            \/ desk'.kb = OldSurface /\ desk.kb \in desk.locksurf \ desk'.locksurf]_desk
  BY NextStep DEF LockStep
<1> QED BY <1>1, Invariance, PTL DEF Spec, LockedKeyboard

(***************************************************************************)
(* A live lock client keeps its lock, and only a live one unlocks.         *)
(***************************************************************************)
THEOREM OneLockOwner == Spec => LockOwnership
<1>1. IInv /\ [Next]_desk =>
         [/\ desk.curlock # NoLock => desk'.curlock \in {desk.curlock, NoLock}
          /\ desk.locked /\ ~desk'.locked => desk.curlock # NoLock]_desk
  BY NextStep DEF LockStep
<1> QED BY <1>1, Invariance, PTL DEF Spec, LockOwnership

-----------------------------------------------------------------------------
(***************************************************************************)
(* The second part: the windows.                                           *)
(*                                                                         *)
(* The lemmas follow the call graph once more. Orderly(d, e) says of a     *)
(* function that turns desk d into e that it does the windows no harm; the *)
(* lemmas of the functions that move windows also say exactly which ones   *)
(* they move, and where to. Settled says what updatemons makes of the      *)
(* windows and Tidy is the invariant of the desk.                          *)
(***************************************************************************)
\* Reordered(s, t): t has the elements of s, each once if s has.
Reordered(s, t) == Distinct(s) => Distinct(t) /\ Listed(t) = Listed(s)

Tagged(d) ==
    /\ \A m \in Monitor : d.viewed[m] # {} /\ d.previous[m] # {}
    /\ \A c \in Client : d.mon[c] # NoMon => d.tags[c] # {}

Lit(d) ==
    \A c \in Mapped(d) :
        d.mon[c] \in d.on =>
            (c \in d.shown <=> VISIBLEON(d, c, d.mon[c]) \/ c \in d.leaving)

\* The monitors that a handler can get hold of.
Named(d) == {d.selmon, NoMon} \cup Listed(d.mons) \cup {d.mon[c] : c \in Client}

\* The unmapped windows that have a monitor.
Strays(d) == {c \in Client : c \notin Mapped(d) /\ d.mon[c] # NoMon}

Calm(d, e) ==
    /\ KeptButLayout(d, e)
    /\ e.clients = d.clients
    /\ Reordered(d.fstack, e.fstack)
    /\ e.shown \subseteq d.shown \cup Mapped(d)
    /\ e.grabc \in {d.grabc, NoWin} \cup d.shown \cup Mapped(d)
    /\ e.kb \in Monitor => e.kb \in {d.kb} \cup d.locksurf
    /\ \A l \in Layer : e.lmon[l] \in {d.lmon[l], NoMon}
    /\ Named(e) \subseteq Named(d)
    /\ Tagged(d) => Tagged(e)
    /\ Lit(d) => Lit(e)

(***************************************************************************)
(* The keyboard follows the view: a window that has the keyboard and is    *)
(* not in view had it before, out of view, on the same output.  That is so *)
(* where no window has the keyboard while the session is locked (Shut).    *)
(***************************************************************************)
InView(d, c) == VISIBLEON(d, c, d.mon[c])
Seen(d) == d.kb \in Client => InView(d, d.kb)
Shut(d) == d.locked => d.kb \notin Client

Follows(d, e) ==
    Shut(d) => \/ Seen(e)
               \/ ~Seen(d) /\ e.kb = d.kb /\ e.mon[e.kb] = d.mon[d.kb]

Orderly(d, e) ==
    /\ Calm(d, e)
    /\ Strays(e) \subseteq Strays(d)
    /\ Follows(d, e)

\* Nothing but focus, stacking and scene nodes changes.
Still(d, e) ==
    /\ Calm(d, e)
    /\ e.layout = d.layout
    /\ e.mon = d.mon
    /\ e.tags = d.tags
    /\ e.viewed = d.viewed
    /\ e.leaving = d.leaving

LEMMA ReorderedTwice ==
    ASSUME NEW s, NEW t, NEW u, Reordered(s, t), Reordered(t, u)
    PROVE  Reordered(s, u)
BY DEF Reordered

LEMMA CalmSame ==
    ASSUME NEW d \in Desks
    PROVE  Calm(d, d)
<1>1. KeptButLayout(d, d)
  BY KeptSame DEF Kept
<1> QED BY <1>1 DEF Calm, Reordered

LEMMA CalmTwice ==
    ASSUME NEW d, NEW e, NEW f, Calm(d, e), Calm(e, f)
    PROVE  Calm(d, f)
<1>1. KeptButLayout(d, f)
  BY DEF Calm, KeptButLayout
<1>2. Reordered(d.fstack, f.fstack)
  BY ReorderedTwice DEF Calm
<1>3. e.locksurf = d.locksurf /\ Mapped(e) = Mapped(d)
  BY DEF Calm, KeptButLayout, Mapped
<1>4. /\ f.clients = d.clients
      /\ f.shown \subseteq d.shown \cup Mapped(d)
      /\ f.grabc \in {d.grabc, NoWin} \cup d.shown \cup Mapped(d)
      /\ f.kb \in Monitor => f.kb \in {d.kb} \cup d.locksurf
      /\ \A l \in Layer : f.lmon[l] \in {d.lmon[l], NoMon}
      /\ Named(f) \subseteq Named(d)
      /\ Tagged(d) => Tagged(f)
      /\ Lit(d) => Lit(f)
  BY <1>3 DEF Calm
<1> QED BY <1>1, <1>2, <1>4 DEF Calm

LEMMA ShutStays ==
    ASSUME NEW d, NEW e, Calm(d, e), Shut(d)
    PROVE  Shut(e)
<1>1. e.locksurf \in SUBSET Monitor /\ d.locksurf = e.locksurf /\ e.locked = d.locked
  BY DEF Calm, KeptButLayout, Desks
<1>2. d.locked => e.kb \in {d.kb} \cup d.locksurf
  BY DEF Calm, KeptButLayout
<1> QED BY <1>1, <1>2, SurfaceAssumption DEF Shut

LEMMA OrderlySame ==
    ASSUME NEW d \in Desks
    PROVE  Orderly(d, d)
BY CalmSame DEF Orderly, Follows

LEMMA OrderlyTwice ==
    ASSUME NEW d, NEW e, NEW f, Orderly(d, e), Orderly(e, f)
    PROVE  Orderly(d, f)
<1>1. Calm(d, f) /\ Strays(f) \subseteq Strays(d)
  BY CalmTwice DEF Orderly
<1>2. Shut(d) => Shut(e)
  BY ShutStays DEF Orderly
<1>3. Follows(d, f)
  BY <1>2 DEF Orderly, Follows
<1> QED BY <1>1, <1>3 DEF Orderly

LEMMA StillSame ==
    ASSUME NEW d \in Desks
    PROVE  Still(d, d)
BY CalmSame DEF Still

LEMMA StillTwice ==
    ASSUME NEW d, NEW e, NEW f, Still(d, e), Still(e, f)
    PROVE  Still(d, f)
BY CalmTwice DEF Still

\* Where the keyboard stays too, or leaves the windows, a still desk is orderly.
LEMMA StillIsOrderly ==
    ASSUME NEW d, NEW e, Still(d, e), e.kb = d.kb \/ e.kb \notin Client \/ InView(e, e.kb)
    PROVE  Orderly(d, e)
<1>1. Strays(e) \subseteq Strays(d)
  BY DEF Still, Calm, Strays, Mapped
<1>2. e.kb = d.kb => (Seen(d) => Seen(e))
  BY DEF Still, Seen, InView, VISIBLEON
<1>3. Follows(d, e)
  BY <1>2 DEF Follows, Still, Seen
<1> QED BY <1>1, <1>3 DEF Orderly, Still

\* A desk whose windows are where they were is as orderly as the other one.
LEMMA SameWindowsStill ==
    ASSUME NEW d \in Desks, NEW e, Kept(d, e),
           e.clients = d.clients, Reordered(d.fstack, e.fstack), e.shown = d.shown,
           e.grabc = d.grabc, e.kb \in Monitor => e.kb \in {d.kb} \cup d.locksurf,
           \A l \in Layer : e.lmon[l] \in {d.lmon[l], NoMon},
           e.mon = d.mon, e.tags = d.tags, e.viewed = d.viewed, e.previous = d.previous,
           e.leaving = d.leaving, e.selmon \in Named(d)
    PROVE  Still(d, e)
<1>1. Mapped(e) = Mapped(d) /\ e.on = d.on /\ e.mons = d.mons
  BY DEF Mapped, Kept, KeptButLayout
<1>2. Tagged(d) => Tagged(e)
  BY DEF Tagged
<1>3. Lit(d) => Lit(e)
  BY <1>1 DEF Lit, VISIBLEON
<1>4. Named(e) \subseteq Named(d)
  BY <1>1 DEF Named
<1> QED BY <1>2, <1>3, <1>4 DEF Still, Calm, Kept

-----------------------------------------------------------------------------
(***************************************************************************)
(* Focus and arrangement.                                                  *)
(***************************************************************************)
LEMMA ToHeadReorders ==
    ASSUME NEW T, NEW s \in Seq(T), NEW x \in Listed(s)
    PROVE  Reordered(s, ToHead(s, x))
<1>1. SUFFICES ASSUME Distinct(s)
               PROVE  Distinct(ToHead(s, x)) /\ Listed(ToHead(s, x)) = Listed(s)
  BY DEF Reordered
<1>2. Without(s, x) \in Seq(T) /\ x \in T
  BY WithoutIsList, ListedMembers
<1>3. Distinct(Without(s, x)) /\ Listed(Without(s, x)) = Listed(s) \ {x}
  BY <1>1, WithoutMembers
<1>4. Distinct(ToHead(s, x)) /\ Listed(ToHead(s, x)) = {x} \cup (Listed(s) \ {x})
  BY <1>2, <1>3, PrependMembers DEF ToHead
<1> QED BY <1>4

\* Only a window in the focus order may be focused, else it would join it.
LEMMA FocusclientStill ==
    ASSUME NEW d \in Desks, NEW c \in Listed(d.fstack) \cup {NoWin}
    PROVE  /\ Still(d, focusclient(d, c))
           /\ focusclient(d, c).lmon = d.lmon
           /\ focusclient(d, c).selmon \in {d.selmon} \cup (IF c = NoWin THEN {} ELSE {d.mon[c]})
<1> DEFINE f == focusclient(d, c)
<1>1. c \in WinOrNone /\ (c # NoWin => c \in Client)
  BY ListedMembers DEF WinOrNone, Desks
<1>2. Kept(d, f)
  BY <1>1, FocusclientKept
<1>3. Reordered(d.fstack, d.fstack)
  BY DEF Reordered
<1>4. c # NoWin => Reordered(d.fstack, ToHead(d.fstack, c))
  BY ToHeadReorders DEF Desks
<1>5. c \notin Monitor
  BY <1>1, NullAssumption, SurfaceAssumption DEF WinOrNone
<1>6. /\ f.clients = d.clients /\ f.shown = d.shown /\ f.grabc = d.grabc
      /\ f.kb \in {d.kb, c} /\ f.lmon = d.lmon /\ f.mon = d.mon /\ f.tags = d.tags
      /\ f.viewed = d.viewed /\ f.previous = d.previous /\ f.leaving = d.leaving
      /\ f.fstack \in {d.fstack} \cup (IF c = NoWin THEN {} ELSE {ToHead(d.fstack, c)})
      /\ f.selmon \in {d.selmon} \cup (IF c = NoWin THEN {} ELSE {d.mon[c]})
  BY DEF focusclient, RaiseFocus, Desks
<1> HIDE DEF f
<1>7. f.selmon \in Named(d)
  BY <1>1, <1>6 DEF Named
<1>8. Reordered(d.fstack, f.fstack)
  BY <1>3, <1>4, <1>6
<1>9. Still(d, f)
  BY <1>2, <1>5, <1>6, <1>7, <1>8, SameWindowsStill
<1> QED BY <1>6, <1>9 DEF f

LEMMA FocustopVisible ==
    ASSUME NEW d \in Desks, NEW m
    PROVE  /\ focustop(d, m) \in Listed(d.fstack) \cup {NoWin}
           /\ focustop(d, m) # NoWin =>
                 focustop(d, m) \in Client /\ m # NoMon /\ d.mon[focustop(d, m)] = m
<1>1. Listed(d.fstack) \subseteq Client /\ d.fstack \in Seq(Client)
  BY ListedMembers DEF Desks
<1>2. CASE Listed(d.fstack) \cap VisibleSet(d, m) = {}
  BY <1>2 DEF focustop
<1>3. CASE Listed(d.fstack) \cap VisibleSet(d, m) # {}
  <2>1. d.fstack \in Seq(Listed(d.fstack))
    BY <1>1 DEF Listed
  <2>2. focustop(d, m) \in Listed(d.fstack) \cap VisibleSet(d, m)
    BY <1>3, <2>1, FirstInMember DEF focustop
  <2> QED BY <1>1, <2>2 DEF VisibleSet, VISIBLEON
<1> QED BY <1>2, <1>3

LEMMA FocustopSeen ==
    ASSUME NEW d \in Desks, NEW m, focustop(d, m) # NoWin
    PROVE  VISIBLEON(d, focustop(d, m), d.mon[focustop(d, m)])
<1>1. Listed(d.fstack) \subseteq Client /\ d.fstack \in Seq(Client)
  BY ListedMembers DEF Desks
<1>2. Listed(d.fstack) \cap VisibleSet(d, m) # {}
  BY DEF focustop
<1>3. focustop(d, m) \in VisibleSet(d, m)
  BY <1>1, <1>2, FirstInMember DEF focustop
<1> QED BY <1>3 DEF VisibleSet, VISIBLEON

LEMMA RefocusOnStill ==
    ASSUME NEW d \in Desks, NEW m
    PROVE  /\ Still(d, RefocusOn(d, m))
           /\ RefocusOn(d, m).lmon = d.lmon
           /\ RefocusOn(d, m).selmon \in {d.selmon, m}
BY FocustopVisible, FocusclientStill DEF RefocusOn

\* Restoring the focus gives the keyboard to a window in view, or to none.
LEMMA RefocusOnSeen ==
    ASSUME NEW d \in Desks, NEW m
    PROVE  /\ Shut(d) => Seen(RefocusOn(d, m))
           /\ Orderly(d, RefocusOn(d, m))
<1> DEFINE c == focustop(d, m)
           e == RefocusOn(d, m)
<1>1. Still(d, e)
  BY RefocusOnStill
<1>2. c # NoWin => InView(d, c)
  BY FocustopSeen DEF InView
<1>3. \/ d.locked /\ e.kb = d.kb
      \/ ~d.locked /\ e.kb = c
      \/ ~d.locked /\ e.kb = d.kb /\ d.kb \in Layer
  BY DEF RefocusOn, focusclient, RaiseFocus, LayerHoldsKeyboard, Desks
<1> HIDE DEF c, e
<1>4. \A x \in Client : InView(d, x) => InView(e, x)
  BY <1>1 DEF Still, InView, VISIBLEON
<1>5. d.kb \in Layer => d.kb \notin Client
  BY SurfaceAssumption
<1>6. NoWin \notin Client
  BY NullAssumption
<1>7. Shut(d) => Seen(e)
  BY <1>2, <1>3, <1>4, <1>5, <1>6 DEF Shut, Seen
<1>8. Strays(e) \subseteq Strays(d)
  BY <1>1 DEF Still, Calm, Strays, Mapped
<1> QED BY <1>1, <1>7, <1>8 DEF Orderly, Follows, Still, e

\* Lit, but for the windows on one output.
LitBut(d, m) ==
    \A c \in Mapped(d) :
        d.mon[c] \in d.on /\ d.mon[c] # m =>
            (c \in d.shown <=> VISIBLEON(d, c, d.mon[c]) \/ c \in d.leaving)

LEMMA ArrangeStill ==
    ASSUME NEW d \in Desks, NEW m
    PROVE  /\ Still(d, arrange(d, m)) /\ Orderly(d, arrange(d, m))
           /\ arrange(d, m).lmon = d.lmon
           /\ arrange(d, m).selmon = d.selmon
           /\ LitBut(d, m) => Lit(arrange(d, m))
<1> DEFINE f == arrange(d, m)
           here == {c \in Mapped(d) : d.mon[c] = m}
           lit  == {c \in here : VISIBLEON(d, c, m) \/ c \in d.leaving}
<1>1. Kept(d, f)
  BY ArrangeKept
<1>2. /\ f.clients = d.clients /\ f.fstack = d.fstack /\ f.grabc = d.grabc
      /\ f.kb = d.kb /\ f.lmon = d.lmon /\ f.mon = d.mon /\ f.tags = d.tags
      /\ f.viewed = d.viewed /\ f.previous = d.previous /\ f.leaving = d.leaving
      /\ f.selmon = d.selmon /\ f.on = d.on /\ f.mons = d.mons
      /\ f.shown = IF m \in d.on THEN (d.shown \ here) \cup lit ELSE d.shown
  BY DEF arrange, Desks
<1> HIDE DEF f
<1>3. Mapped(f) = Mapped(d)
  BY <1>2 DEF Mapped
<1>4. Tagged(d) => Tagged(f)
  BY <1>2 DEF Tagged
<1>5. LitBut(d, m) => Lit(f)
  BY <1>2, <1>3 DEF Lit, LitBut, VISIBLEON
<1>6. Lit(d) => LitBut(d, m)
  BY DEF Lit, LitBut
<1>7. Named(f) \subseteq Named(d)
  BY <1>2, <1>3 DEF Named
<1>8. f.shown \subseteq d.shown \cup Mapped(d) /\ Reordered(d.fstack, f.fstack)
  BY <1>2 DEF Reordered
<1>9. Still(d, f)
  BY <1>1, <1>2, <1>4, <1>5, <1>6, <1>7, <1>8 DEF Still, Calm, Kept
<1>10. Orderly(d, f)
  BY <1>2, <1>9, StillIsOrderly
<1> QED BY <1>2, <1>5, <1>9, <1>10 DEF f

LEMMA RedisplayStill ==
    ASSUME NEW d \in Desks, NEW m
    PROVE  /\ Still(d, Redisplay(d, m)) /\ Orderly(d, Redisplay(d, m))
           /\ Shut(d) => Seen(Redisplay(d, m))
           /\ Redisplay(d, m).lmon = d.lmon
           /\ LitBut(d, m) => Lit(Redisplay(d, m))
<1> DEFINE e == RefocusOn(d, m)
<1>1. /\ Still(d, e) /\ e.lmon = d.lmon /\ e \in Desks /\ Orderly(d, e)
      /\ Shut(d) => Seen(e)
  BY RefocusOnStill, RefocusOnSeen, RefocusOnKept DEF Kept, KeptButLayout
<1>2. e.shown = d.shown
  BY DEF RefocusOn, focusclient, RaiseFocus, Desks
<1> HIDE DEF e
<1>3. LitBut(d, m) => LitBut(e, m)
  BY <1>1, <1>2 DEF LitBut, VISIBLEON, Mapped, Still, Calm, KeptButLayout
<1>4. /\ Still(e, arrange(e, m)) /\ Orderly(e, arrange(e, m)) /\ arrange(e, m).lmon = d.lmon
      /\ LitBut(e, m) => Lit(arrange(e, m))
  BY <1>1, ArrangeStill
<1>5. Seen(e) => Seen(arrange(e, m))
  BY <1>4 DEF Still, Seen, InView, VISIBLEON, arrange
<1>6. Redisplay(d, m) = arrange(e, m)
  BY DEF Redisplay, e
<1> QED BY <1>1, <1>3, <1>4, <1>5, <1>6, StillTwice, OrderlyTwice

LEMMA ArrangelayersStill ==
    ASSUME NEW d \in Desks, NEW m
    PROVE  /\ Still(d, arrangelayers(d, m)) /\ Orderly(d, arrangelayers(d, m))
           /\ arrangelayers(d, m).lmon = d.lmon
           /\ arrangelayers(d, m).selmon = d.selmon
<1>1. CASE m \notin d.on \/ d.locked \/ Interactive(d, m) = {}
  BY <1>1, StillSame, OrderlySame DEF arrangelayers
<1>2. CASE ~(m \notin d.on \/ d.locked \/ Interactive(d, m) = {})
  <2> DEFINE e == focusclient(d, NoWin)
             l == Topmost(Interactive(d, m))
             f == [e EXCEPT !.kb = l]
  <2>1. l \in Layer
    BY <1>2, TopmostMember DEF Interactive
  <2>2. /\ Still(d, e) /\ e.lmon = d.lmon /\ e.selmon = d.selmon /\ Kept(d, e)
    BY FocusclientStill, FocusclientKept DEF WinOrNone
  <2>3. f = arrangelayers(d, m)
    BY <1>2 DEF arrangelayers
  <2> HIDE DEF e, l
  <2>4. e \in Desks /\ l \notin Monitor
    BY <2>1, <2>2, SurfaceAssumption DEF Kept, KeptButLayout
  <2>5. /\ f.clients = e.clients /\ f.fstack = e.fstack /\ f.shown = e.shown
        /\ f.grabc = e.grabc /\ f.kb = l /\ f.lmon = e.lmon /\ f.mon = e.mon
        /\ f.tags = e.tags /\ f.viewed = e.viewed /\ f.previous = e.previous
        /\ f.leaving = e.leaving /\ f.selmon = e.selmon
    BY <2>4 DEF Desks
  <2>6. Kept(e, f)
    <3>1. ~e.locked
      BY <1>2, <2>2 DEF Kept, KeptButLayout
    <3> QED BY <2>1, <2>4, <3>1 DEF Kept, KeptButLayout, Desks, Focusable
  <2> HIDE DEF f
  <2>7. Reordered(e.fstack, f.fstack) /\ f.selmon \in Named(e)
    BY <2>5 DEF Reordered, Named
  <2>8. Still(e, f)
    BY <2>4, <2>5, <2>6, <2>7, SameWindowsStill
  <2>9. Still(d, f) /\ Orderly(d, f)
    BY <2>1, <2>2, <2>5, <2>8, StillTwice, StillIsOrderly, SurfaceAssumption
  <2> QED BY <2>2, <2>3, <2>5, <2>9
<1> QED BY <1>1, <1>2

LEMMA UnmaplayerOrderly ==
    ASSUME NEW d \in Desks, NEW l \in Layer
    PROVE  LET e == unmaplayersurfacenotify(d, l)
           IN  Orderly(d, e) /\ Still(d, e) /\ e.lmon[l] = NoMon
<1> DEFINE m    == d.lmon[l]
           gone == [d EXCEPT !.lmon[l] = NoMon, !.grabs = @ \ {l}]
           e    == arrangelayers(gone, m)
<1>1. /\ Kept(d, gone) /\ gone.selmon = d.selmon /\ gone.lmon = [d.lmon EXCEPT ![l] = NoMon]
      /\ gone.clients = d.clients /\ gone.fstack = d.fstack /\ gone.shown = d.shown
      /\ gone.grabc = d.grabc /\ gone.kb = d.kb /\ gone.mon = d.mon /\ gone.tags = d.tags
      /\ gone.viewed = d.viewed /\ gone.previous = d.previous /\ gone.leaving = d.leaving
  BY DEF Kept, KeptButLayout, Desks, SomeMon
<1> HIDE DEF gone
<1>2. /\ Reordered(d.fstack, gone.fstack) /\ gone.selmon \in Named(d)
      /\ \A k \in Layer : gone.lmon[k] \in {d.lmon[k], NoMon}
      /\ gone.lmon[l] = NoMon
  BY <1>1 DEF Reordered, Named, Desks
<1>3. Still(d, gone) /\ Orderly(d, gone)
  BY <1>1, <1>2, SameWindowsStill, StillIsOrderly
<1>4. gone \in Desks
  BY <1>1 DEF Kept, KeptButLayout
<1>5. Still(gone, e) /\ Orderly(gone, e) /\ e.lmon = gone.lmon /\ e \in Desks
  BY <1>4, ArrangelayersStill, ArrangelayersKept DEF Kept, KeptButLayout
<1> HIDE DEF e
<1> DEFINE f == Refocus(e)
<1>6. Still(e, f) /\ Orderly(e, f) /\ f.lmon = e.lmon
  BY <1>5, RefocusOnStill, RefocusOnSeen
<1>7. unmaplayersurfacenotify(d, l) \in {e, f}
  BY DEF unmaplayersurfacenotify, e, gone
<1> HIDE DEF f
<1> QED BY <1>2, <1>3, <1>5, <1>6, <1>7, OrderlyTwice, StillTwice

-----------------------------------------------------------------------------
(***************************************************************************)
(* Moving windows.                                                         *)
(***************************************************************************)
\* No window that has tags gets others.
SameTags(d, e) == \A c \in Client : d.tags[c] # {} => e.tags[c] = d.tags[c]

\* The grab that setmon and settags may end is all that ends.
LEMMA CancelFields ==
    ASSUME NEW d \in Desks, NEW c
    PROVE  LET e == canvas_cancel_grab(d, c)
           IN  /\ e \in Desks /\ KeptButLayout(d, e) /\ e.layout = d.layout
               /\ e.selmon = d.selmon /\ e.mon = d.mon /\ e.leaving = d.leaving
               /\ e.lmon = d.lmon /\ e.clients = d.clients /\ e.fstack = d.fstack
               /\ e.shown = d.shown /\ e.grabc \in {d.grabc, NoWin} /\ e.kb = d.kb
               /\ e.tags = d.tags /\ e.viewed = d.viewed /\ e.previous = d.previous
               /\ e.mons = d.mons /\ e.on = d.on /\ e.locksurf = d.locksurf
               /\ d.grabc # c => e.grabc = d.grabc
<1> DEFINE e == canvas_cancel_grab(d, c)
<1>1. e \in {d, Ungrabbed(d)} /\ (d.grabc # c => e = d)
  BY DEF canvas_cancel_grab
<1>2. KeptButLayout(d, e)
  BY CancelKept DEF Kept
<1> HIDE DEF e
<1>3. \/ e = d
      \/ e = [d EXCEPT !.cursor_mode = "CurNormal", !.grabc = NoWin]
  BY <1>1 DEF Ungrabbed
<1>4. /\ e.layout = d.layout
      /\ e.selmon = d.selmon /\ e.mon = d.mon /\ e.leaving = d.leaving
      /\ e.lmon = d.lmon /\ e.clients = d.clients /\ e.fstack = d.fstack
      /\ e.shown = d.shown /\ e.grabc \in {d.grabc, NoWin} /\ e.kb = d.kb
      /\ e.tags = d.tags /\ e.viewed = d.viewed /\ e.previous = d.previous
      /\ e.mons = d.mons /\ e.on = d.on /\ e.locksurf = d.locksurf
  BY <1>3 DEF Desks
<1> QED BY <1>1, <1>2, <1>4 DEF KeptButLayout, e

(***************************************************************************)
(* setmon moves its window and no other, and leaves selmon alone.  An      *)
(* unmapped window (of the initial commit) may become a stray by it.       *)
(***************************************************************************)
LEMMA SetmonCalm ==
    ASSUME NEW d \in Desks, NEW c \in Client, NEW m \in Named(d),
           NEW newtags \in SUBSET Tag
    PROVE  LET e == setmon(d, c, m, newtags)
           IN  /\ Calm(d, e) /\ Follows(d, e)
               /\ e.layout = d.layout /\ e.selmon = d.selmon
               /\ e.mon = [d.mon EXCEPT ![c] = m]
               /\ newtags = d.tags[c] => SameTags(d, e)
<1> DEFINE free    == canvas_cancel_grab(d, c)
           moved   == [free EXCEPT !.mon[c] = m, !.leaving = @ \ {c}]
           left    == arrange(moved, d.mon[c])
           tagged  == [left EXCEPT !.tags[c] = IF newtags = {} THEN d.viewed[m]
                                               ELSE newtags]
           arrived == IF m = NoMon THEN left ELSE arrange(tagged, m)
           e       == Refocus(arrived)
<1>1. CASE d.mon[c] = m
  <2>1. setmon(d, c, m, newtags) = d
    BY <1>1 DEF setmon
  <2>2. d.mon = [d.mon EXCEPT ![c] = m]
    BY <1>1 DEF Desks
  <2> QED BY <2>1, <2>2, OrderlySame DEF Orderly, SameTags
<1>2. CASE d.mon[c] # m
  <2>0. m \in SomeMon
    BY ListedMembers DEF Named, Desks, SomeMon
  <2>1. /\ moved \in Desks /\ KeptButLayout(d, moved) /\ moved.layout = d.layout
        /\ moved.selmon = d.selmon /\ moved.mon = [d.mon EXCEPT ![c] = m]
        /\ moved.leaving = d.leaving \ {c} /\ moved.lmon = d.lmon
        /\ moved.clients = d.clients /\ moved.fstack = d.fstack /\ moved.shown = d.shown
        /\ moved.grabc \in {d.grabc, NoWin} /\ moved.kb = d.kb /\ moved.tags = d.tags
        /\ moved.viewed = d.viewed /\ moved.previous = d.previous /\ moved.mons = d.mons
        /\ moved.on = d.on /\ moved.locksurf = d.locksurf
    <3>1. /\ free \in Desks /\ KeptButLayout(d, free) /\ free.layout = d.layout
          /\ free.selmon = d.selmon /\ free.mon = d.mon /\ free.leaving = d.leaving
          /\ free.lmon = d.lmon /\ free.clients = d.clients /\ free.fstack = d.fstack
          /\ free.shown = d.shown /\ free.grabc \in {d.grabc, NoWin} /\ free.kb = d.kb
          /\ free.tags = d.tags /\ free.viewed = d.viewed /\ free.previous = d.previous
          /\ free.mons = d.mons /\ free.on = d.on /\ free.locksurf = d.locksurf
      BY CancelFields
    <3> HIDE DEF free
    <3> QED BY <2>0, <3>1 DEF KeptButLayout, Desks
  <2> HIDE DEF moved
  <2>2. /\ Still(moved, left) /\ left.lmon = d.lmon /\ left.selmon = d.selmon
        /\ LitBut(moved, d.mon[c]) => Lit(left)
    BY <2>1, ArrangeStill
  <2>3. /\ left.kb = d.kb /\ left.grabc \in {d.grabc, NoWin} /\ left.fstack = d.fstack
        /\ left.previous = d.previous /\ left.mons = d.mons
        /\ left.shown \subseteq d.shown \cup Mapped(d)
    BY <2>1, <2>2 DEF arrange, Still, Calm, Mapped, KeptButLayout
  <2> HIDE DEF left
  <2> DEFINE u == IF newtags = {} THEN d.viewed[m] ELSE newtags
  <2>4. left \in Desks /\ left.clients = d.clients /\ left.on = d.on /\ left.tags = d.tags
        /\ left.mon = [d.mon EXCEPT ![c] = m] /\ left.viewed = d.viewed
        /\ left.leaving = d.leaving \ {c} /\ left.layout = d.layout
        /\ KeptButLayout(d, left)
    BY <2>1, <2>2 DEF Still, Calm, KeptButLayout
  <2>5. m # NoMon =>
          /\ tagged \in Desks /\ KeptButLayout(d, tagged) /\ tagged.layout = d.layout
          /\ tagged.selmon = d.selmon /\ tagged.mon = left.mon
          /\ tagged.leaving = left.leaving /\ tagged.lmon = d.lmon
          /\ tagged.clients = d.clients /\ tagged.fstack = d.fstack
          /\ tagged.shown = left.shown
          /\ tagged.grabc \in {d.grabc, NoWin} /\ tagged.kb = d.kb /\ tagged.tags = [d.tags EXCEPT ![c] = u]
          /\ tagged.viewed = d.viewed /\ tagged.previous = d.previous /\ tagged.mons = d.mons
          /\ tagged.on = d.on
    <3>1. m # NoMon => u \in SUBSET Tag
      BY <2>0 DEF Desks, SomeMon
    <3>2. tagged = [left EXCEPT !.tags[c] = u]
      OBVIOUS
    <3> HIDE DEF u, tagged
    <3> QED BY <2>2, <2>3, <2>4, <3>1, <3>2 DEF KeptButLayout, Desks
  <2> HIDE DEF tagged
  <2>6. m # NoMon =>
          /\ Still(tagged, arrange(tagged, m))
          /\ arrange(tagged, m).lmon = d.lmon /\ arrange(tagged, m).selmon = d.selmon
          /\ LitBut(tagged, m) => Lit(arrange(tagged, m))
          /\ arrange(tagged, m).kb = d.kb /\ arrange(tagged, m).grabc \in {d.grabc, NoWin}
          /\ arrange(tagged, m).fstack = d.fstack
          /\ arrange(tagged, m).previous = d.previous
          /\ arrange(tagged, m).mons = d.mons
    BY <2>5, ArrangeStill DEF arrange
  <2>7. /\ arrived \in Desks /\ KeptButLayout(d, arrived)
        /\ arrived.clients = d.clients /\ arrived.fstack = d.fstack
        /\ arrived.grabc \in {d.grabc, NoWin} /\ arrived.kb = d.kb /\ arrived.lmon = d.lmon
        /\ arrived.selmon = d.selmon /\ arrived.mons = d.mons
        /\ arrived.mon = [d.mon EXCEPT ![c] = m] /\ arrived.viewed = d.viewed
        /\ arrived.previous = d.previous /\ arrived.layout = d.layout
        /\ arrived.tags = IF m = NoMon THEN d.tags ELSE [d.tags EXCEPT ![c] = u]
        /\ arrived.shown \subseteq d.shown \cup Mapped(d)
    <3>1. CASE m = NoMon
      BY <2>2, <2>3, <2>4, <3>1
    <3>2. CASE m # NoMon
      <4>1. arrived = arrange(tagged, m)
        BY <3>2
      <4> HIDE DEF arrived, u
      <4> QED BY <2>3, <2>4, <2>5, <2>6, <3>2, <4>1 DEF Still, Calm, KeptButLayout, Mapped
    <3> QED BY <3>1, <3>2
  <2>8. Lit(d) => Lit(arrived)
    <3>0. /\ left.mon[c] = m /\ Mapped(d) \subseteq Client
          /\ Mapped(left) = Mapped(d) /\ (m # NoMon => Mapped(tagged) = Mapped(d))
          /\ \A x \in Client \ {c} :
               /\ left.mon[x] = d.mon[x] /\ (x \in left.leaving <=> x \in d.leaving)
               /\ m # NoMon => tagged.tags[x] = d.tags[x]
      <4>1. Mapped(d) \subseteq Client /\ DOMAIN d.mon = Client /\ DOMAIN d.tags = Client
        BY ListedMembers DEF Mapped, Desks
      <4> HIDE DEF u
      <4> QED BY <2>4, <2>5, <4>1 DEF Mapped
    <3>01. ASSUME m # NoMon, NEW x \in Mapped(tagged), tagged.mon[x] \in tagged.on,
                  tagged.mon[x] # m
           PROVE  /\ x \in Mapped(d) /\ x # c /\ x \in Mapped(left)
                  /\ tagged.mon[x] = d.mon[x] /\ left.mon[x] = d.mon[x] /\ d.mon[x] \in d.on
                  /\ VISIBLEON(tagged, x, tagged.mon[x]) <=> VISIBLEON(d, x, d.mon[x])
                  /\ VISIBLEON(left, x, left.mon[x]) <=> VISIBLEON(d, x, d.mon[x])
                  /\ x \in tagged.shown <=> x \in left.shown
                  /\ x \in tagged.leaving <=> x \in d.leaving
                  /\ x \in left.leaving <=> x \in d.leaving
      <4>1. /\ x \in Mapped(d) /\ x # c /\ tagged.mon[x] = d.mon[x] /\ left.mon[x] = d.mon[x]
            /\ x \in Mapped(left) /\ d.mon[x] \in d.on
        <5> HIDE DEF u
        <5> QED BY Zenon, <2>4, <2>5, <3>0, <3>01
      <4>2. /\ tagged.tags[x] = d.tags[x] /\ tagged.viewed = d.viewed
            /\ left.tags[x] = d.tags[x] /\ left.viewed = d.viewed
        <5> HIDE DEF u
        <5> QED BY <2>4, <2>5, <3>0, <3>01, <4>1
      <4>3. /\ x \in tagged.shown <=> x \in left.shown
            /\ x \in tagged.leaving <=> x \in d.leaving
            /\ x \in left.leaving <=> x \in d.leaving
        <5> HIDE DEF u
        <5> QED BY <2>4, <2>5, <3>0, <3>01, <4>1
      <4> QED BY <4>1, <4>2, <4>3 DEF VISIBLEON
    <3>1. Lit(d) => LitBut(moved, d.mon[c]) \/ m \in d.on
      <4>1. c \in Client /\ d.mon \in [Client -> SomeMon]
        BY DEF Desks
      <4>2. Mapped(d) \subseteq Client
        BY ListedMembers DEF Mapped, Desks
      <4> QED BY <2>1, <4>1, <4>2 DEF Lit, LitBut, VISIBLEON, Mapped
    <3>2. CASE m = NoMon \/ m \notin d.on
      <4>1. NoMon \notin d.on
        BY NullAssumption DEF Desks
      <4>2. Lit(d) => Lit(left)
        BY <2>2, <3>1, <3>2, <4>1
      <4>3. Lit(left) => (m # NoMon => LitBut(tagged, m))
        <5> HIDE DEF u
        <5> QED BY <2>4, <3>01 DEF Lit, LitBut
      <4> QED BY <2>6, <4>2, <4>3
    <3>3. CASE m # NoMon /\ m \in d.on
      <4>1. Lit(d) => LitBut(tagged, m)
        <5>1. Mapped(d) \subseteq Client
          BY ListedMembers DEF Mapped, Desks
        <5>2. ASSUME Lit(d), NEW x \in Mapped(d), x # c, d.mon[x] \in d.on
              PROVE  x \in left.shown <=> VISIBLEON(d, x, d.mon[x]) \/ x \in d.leaving
          <6>1. d.mon[x] # d.mon[c] => (x \in left.shown <=> x \in d.shown)
            BY <2>1, <5>1, <5>2 DEF left, arrange, Mapped, Desks
          <6>2. d.mon[x] = d.mon[c] =>
                  (x \in left.shown <=> VISIBLEON(d, x, d.mon[x]) \/ x \in d.leaving)
            BY <2>1, <5>1, <5>2 DEF left, arrange, Mapped, VISIBLEON, Desks
          <6> QED BY <5>2, <6>1, <6>2 DEF Lit
        <5> HIDE DEF u
        <5> QED BY <3>01, <3>3, <5>2 DEF LitBut
      <4> QED BY <2>6, <3>3, <4>1
    <3> QED BY <3>2, <3>3
  <2>9. Tagged(d) => Tagged(arrived)
    <3>1. Tagged(d) => (m # NoMon => u # {})
      BY <2>0 DEF Tagged, SomeMon
    <3> HIDE DEF u, arrived
    <3> QED BY <2>7, <3>1 DEF Tagged, Desks
  <2>10. Named(arrived) \subseteq Named(d)
    <3> HIDE DEF u, arrived
    <3>1. \A x \in Client : arrived.mon[x] \in {m, d.mon[x]}
      BY <2>7 DEF Desks
    <3> QED BY <2>7, <3>1 DEF Named
  <2>11. newtags = d.tags[c] => SameTags(d, arrived)
    <3> HIDE DEF arrived
    <3> QED BY <2>7 DEF SameTags, Desks
  <2>12. setmon(d, c, m, newtags) = e
    BY <1>2 DEF setmon, Arrived, left, moved, tagged
  <2> HIDE DEF arrived, u
  <2>13. Calm(d, arrived)
    BY <2>7, <2>8, <2>9, <2>10 DEF Calm, Reordered
  <2>14. /\ Still(arrived, e) /\ e.selmon = arrived.selmon
         /\ Shut(arrived) => Seen(e)
    BY <2>7, RefocusOnStill, RefocusOnSeen
  <2> HIDE DEF e
  <2>15. Calm(d, e) /\ Follows(d, e)
    BY <2>13, <2>14, CalmTwice, ShutStays DEF Still, Follows
  <2>16. newtags = d.tags[c] => SameTags(d, e)
    BY <2>11, <2>14 DEF Still, SameTags
  <2> QED BY <2>7, <2>12, <2>14, <2>15, <2>16 DEF Still
<1> QED BY <1>1, <1>2

LEMMA SetmonOrderly ==
    ASSUME NEW d \in Desks, NEW c \in Client, NEW m \in Named(d),
           NEW newtags \in SUBSET Tag, c \in Mapped(d) \/ m = NoMon
    PROVE  LET e == setmon(d, c, m, newtags)
           IN  /\ Orderly(d, e) /\ e.layout = d.layout /\ e.selmon = d.selmon
               /\ e.mon = [d.mon EXCEPT ![c] = m]
               /\ newtags = d.tags[c] => SameTags(d, e)
<1> DEFINE e == setmon(d, c, m, newtags)
<1>1. /\ Calm(d, e) /\ Follows(d, e) /\ e.layout = d.layout /\ e.selmon = d.selmon
      /\ e.mon = [d.mon EXCEPT ![c] = m]
      /\ newtags = d.tags[c] => SameTags(d, e)
  BY SetmonCalm
<1> HIDE DEF e
<1>2. Strays(e) \subseteq Strays(d)
  BY <1>1 DEF Strays, Calm, Mapped, Desks
<1> QED BY <1>1, <1>2 DEF Orderly, e

\* d and e differ in the outputs of windows, but no window loses its tags.
Shifted(d, e) == Orderly(d, e) /\ SameTags(d, e)

LEMMA ShiftedSame ==
    ASSUME NEW d \in Desks
    PROVE  Shifted(d, d)
BY OrderlySame DEF Shifted, SameTags

LEMMA ShiftedTwice ==
    ASSUME NEW d, NEW e, NEW f, Shifted(d, e), Shifted(e, f)
    PROVE  Shifted(d, f)
<1>1. Orderly(d, f)
  BY OrderlyTwice DEF Shifted
<1>2. SameTags(d, f)
  BY DEF Shifted, SameTags
<1> QED BY <1>1, <1>2 DEF Shifted

LEMMA StillShifted ==
    ASSUME NEW d, NEW e, Still(d, e), Orderly(d, e)
    PROVE  Shifted(d, e)
BY DEF Still, Shifted, SameTags

LEMMA ShiftedDesk ==
    ASSUME NEW d, NEW e, Shifted(d, e)
    PROVE  /\ e \in Desks /\ e.clients = d.clients /\ Mapped(e) = Mapped(d)
           /\ e.mons = d.mons /\ e.on = d.on /\ e.asleep = d.asleep
           /\ e.locksurf = d.locksurf /\ Enabled(e) = Enabled(d)
BY DEF Shifted, Orderly, Calm, KeptButLayout, Mapped, Enabled

LEMMA MigrateShifted ==
    ASSUME NEW d \in Desks, NEW c \in Mapped(d), NEW from
    PROVE  LET e == Migrate(d, c, from)
           IN  /\ Shifted(d, e) /\ e.layout = d.layout /\ e.selmon = d.selmon
               /\ \A x \in Client :
                    e.mon[x] = IF x = c /\ d.mon[c] = from THEN d.selmon ELSE d.mon[x]
<1>1. c \in Client /\ d.tags[c] \in SUBSET Tag /\ d.selmon \in Named(d)
  BY ListedMembers DEF Mapped, Desks, Named
<1>2. CASE d.mon[c] = from
  <2> DEFINE e == setmon(d, c, d.selmon, d.tags[c])
  <2>1. /\ Orderly(d, e) /\ e.layout = d.layout /\ e.selmon = d.selmon
        /\ e.mon = [d.mon EXCEPT ![c] = d.selmon] /\ SameTags(d, e)
    BY <1>1, SetmonOrderly
  <2>2. e = Migrate(d, c, from)
    BY <1>2 DEF Migrate
  <2> HIDE DEF e
  <2>3. DOMAIN d.mon = Client
    BY DEF Desks
  <2> QED BY <1>2, <2>1, <2>2, <2>3 DEF Shifted
<1>3. CASE d.mon[c] # from
  BY <1>3, ShiftedSame DEF Migrate
<1> QED BY <1>2, <1>3

(***************************************************************************)
(* The loop moves every mapped window of the output, and no other.         *)
(***************************************************************************)
LEMMA MigrateAllShifted ==
    ASSUME NEW d \in Desks, NEW from
    PROVE  LET e == MigrateAll(d, from)
           IN  /\ Shifted(d, e) /\ e.layout = d.layout /\ e.selmon = d.selmon
               /\ \A x \in Client :
                    e.mon[x] = IF x \in Mapped(d) /\ d.mon[x] = from THEN d.selmon ELSE d.mon[x]
<1> DEFINE n == Len(d.clients)
           Before(i) == {d.clients[j] : j \in 1..i}
           Moved(e, i) ==
               /\ Shifted(d, e) /\ e.layout = d.layout /\ e.selmon = d.selmon
               /\ \A x \in Client :
                    e.mon[x] = IF x \in Before(i) /\ d.mon[x] = from THEN d.selmon ELSE d.mon[x]
           S == [i \in 0..n |-> {e \in Desks : Moved(e, i)}]
<1>1. PICK run :
            /\ run[0] = d
            /\ \A i \in 1..n : run[i] = Migrate(run[i - 1], d.clients[i], from)
            /\ MigrateAll(d, from) = run[n]
  BY MigrateAllRuns
<1>2. n \in Nat /\ \A i \in 1..n : d.clients[i] \in Mapped(d)
  BY DEF Desks, Mapped, Listed
<1>3. run[0] \in S[0]
  <2>1. Before(0) = {}
    OBVIOUS
  <2>2. Moved(d, 0)
    BY <2>1, ShiftedSame
  <2> QED BY <1>1, <1>2, <2>2
<1>4. ASSUME NEW i \in 1..n, run[i - 1] \in S[i - 1] PROVE run[i] \in S[i]
  <2> DEFINE e == run[i - 1]
             f == run[i]
             c == d.clients[i]
  <2>1. e \in Desks /\ Moved(e, i - 1) /\ f = Migrate(e, c, from) /\ c \in Mapped(d)
    BY <1>1, <1>2, <1>4
  <2> HIDE DEF e, f, c
  <2>2. c \in Mapped(e)
    BY <2>1, ShiftedDesk
  <2>3. /\ Shifted(e, f) /\ f.layout = e.layout /\ f.selmon = e.selmon
        /\ \A x \in Client :
             f.mon[x] = IF x = c /\ e.mon[c] = from THEN e.selmon ELSE e.mon[x]
    BY <2>1, <2>2, MigrateShifted
  <2>4. Before(i) = Before(i - 1) \cup {c}
    <3>1. \A j \in 1..i : j \in 1..(i - 1) \/ j = i
      BY <1>2
    <3>2. \A j \in 1..(i - 1) : j \in 1..i
      BY <1>2
    <3> QED BY <1>2, <3>1, <3>2 DEF c
  <2> HIDE DEF Before
  <2>5. \A x \in Client :
           f.mon[x] = IF x \in Before(i) /\ d.mon[x] = from THEN d.selmon ELSE d.mon[x]
    BY <2>1, <2>3, <2>4
  <2>6. Shifted(d, f) /\ f.layout = d.layout /\ f.selmon = d.selmon /\ f \in Desks
    BY <2>1, <2>3, ShiftedTwice, ShiftedDesk
  <2>7. f \in {g \in Desks : Moved(g, i)}
    BY <2>5, <2>6
  <2> HIDE DEF Moved
  <2> QED BY <1>2, <2>7 DEF f
<1>5. run[n] \in S[n]
  <2> HIDE DEF S, n
  <2> QED BY <1>2, <1>3, <1>4, LoopProgress
<1>6. Moved(run[n], n)
  BY <1>2, <1>5
<1>7. Before(n) = Mapped(d)
  BY <1>2 DEF Mapped, Listed, Desks
<1> HIDE DEF Before
<1> QED BY <1>1, <1>6, <1>7

(***************************************************************************)
(* closemon evacuates the output and leaves no window on it, nor selmon.   *)
(***************************************************************************)
LEMMA ReplacementEnabled ==
    ASSUME NEW d \in Desks, NEW m \in Monitor
    PROVE  /\ Replacement(d, m) \in {NoMon} \cup Enabled(d)
           /\ Replacement(d, m) # m
           /\ Enabled(d) \ {m} # {} => Replacement(d, m) # NoMon
<1>1. Enabled(d) \subseteq Monitor /\ d.mons \in Seq(Monitor)
  BY DEF Enabled, Desks
<1>2. CASE Enabled(d) \ {m} = {}
  BY <1>2, NullAssumption DEF Replacement, Enabled
<1>3. CASE Enabled(d) \ {m} # {}
  <2>1. Listed(d.mons) \cap (Enabled(d) \ {m}) # {}
    BY <1>3 DEF Enabled
  <2>2. FirstIn(d.mons, Enabled(d) \ {m}) \in Monitor \cap (Enabled(d) \ {m})
    BY <1>1, <2>1, FirstInMember
  <2> QED BY <1>3, <2>2, NullAssumption DEF Replacement, Enabled
<1> QED BY <1>2, <1>3

Heir(d, m) == IF d.selmon = m THEN Replacement(d, m) ELSE d.selmon

LEMMA ClosemonShifted ==
    ASSUME NEW d \in Desks, NEW m \in Monitor
    PROVE  LET e == closemon(d, m)
           IN  /\ Shifted(d, e) /\ e.layout = d.layout /\ e.selmon = Heir(d, m)
               /\ \A x \in Client :
                    e.mon[x] = IF x \in Mapped(d) /\ d.mon[x] = m THEN Heir(d, m) ELSE d.mon[x]
<1> DEFINE e == IF d.selmon = m THEN [d EXCEPT !.selmon = Replacement(d, m)] ELSE d
           f == MigrateAll(e, m)
           g == Refocus(f)
<1>1. /\ Heir(d, m) \in Named(d) /\ Heir(d, m) \in SomeMon
  <2>1. Replacement(d, m) \in Named(d)
    BY ReplacementEnabled DEF Named, Enabled
  <2>2. Named(d) \subseteq SomeMon
    BY ListedMembers DEF Named, Desks, SomeMon
  <2> QED BY <2>1, <2>2 DEF Heir, Named
<1>2. /\ Kept(d, e) /\ e.selmon = Heir(d, m) /\ e.lmon = d.lmon
      /\ e.clients = d.clients /\ e.fstack = d.fstack /\ e.shown = d.shown
      /\ e.grabc = d.grabc /\ e.kb = d.kb /\ e.mon = d.mon /\ e.tags = d.tags
      /\ e.viewed = d.viewed /\ e.previous = d.previous /\ e.leaving = d.leaving
  BY <1>1 DEF Kept, KeptButLayout, Desks, Heir
<1> HIDE DEF e
<1>3. Still(d, e)
  BY <1>1, <1>2, SameWindowsStill DEF Reordered
<1>4. Shifted(d, e) /\ e \in Desks
  BY <1>2, <1>3, StillIsOrderly, StillShifted DEF Kept, KeptButLayout
<1>5. /\ Shifted(e, f) /\ f.layout = e.layout /\ f.selmon = e.selmon
      /\ \A x \in Client :
           f.mon[x] = IF x \in Mapped(e) /\ e.mon[x] = m THEN e.selmon ELSE e.mon[x]
  BY <1>4, MigrateAllShifted
<1> HIDE DEF f
<1>6. f \in Desks
  BY <1>5, ShiftedDesk
<1>7. Shifted(f, g) /\ g.mon = f.mon /\ g.layout = f.layout /\ g.selmon = f.selmon
  BY <1>6, RefocusOnStill, RefocusOnSeen, StillShifted DEF Still
<1>8. closemon(d, m) = g
  BY DEF closemon, e, f
<1> HIDE DEF g
<1>9. Mapped(e) = Mapped(d) /\ e.layout = d.layout
  BY <1>2 DEF Mapped, Kept
<1>10. Shifted(d, g)
  BY <1>4, <1>5, <1>7, ShiftedTwice
<1> QED BY <1>2, <1>5, <1>7, <1>8, <1>9, <1>10

LEMMA HeirNotClosed ==
    ASSUME NEW d \in Desks, NEW m \in Monitor
    PROVE  Heir(d, m) # m /\ Heir(d, m) \in {d.selmon, NoMon} \cup Enabled(d)
BY ReplacementEnabled DEF Heir

\* Changing the layout by itself moves nothing.
LEMMA RelaidShifted ==
    ASSUME NEW d \in Desks, NEW placed \in SUBSET Monitor
    PROVE  LET e == [d EXCEPT !.layout = placed]
           IN  Shifted(d, e) /\ e.selmon = d.selmon /\ e.mon = d.mon
<1> DEFINE e == [d EXCEPT !.layout = placed]
<1>1. /\ KeptButLayout(d, e) /\ e.selmon = d.selmon /\ e.lmon = d.lmon
      /\ e.clients = d.clients /\ e.fstack = d.fstack /\ e.shown = d.shown
      /\ e.grabc = d.grabc /\ e.kb = d.kb /\ e.mon = d.mon /\ e.tags = d.tags
      /\ e.viewed = d.viewed /\ e.previous = d.previous /\ e.leaving = d.leaving
      /\ e.mons = d.mons /\ e.on = d.on
  BY DEF KeptButLayout, Desks
<1> HIDE DEF e
<1>2. Mapped(e) = Mapped(d) /\ Named(e) = Named(d)
  BY <1>1 DEF Mapped, Named
<1>3. (Lit(d) => Lit(e)) /\ (Tagged(d) => Tagged(e))
  BY <1>1, <1>2 DEF Lit, Tagged, VISIBLEON
<1>4. Calm(d, e)
  BY <1>1, <1>2, <1>3 DEF Calm, Reordered
<1>5. Follows(d, e) /\ Strays(e) = Strays(d) /\ SameTags(d, e)
  BY <1>1, <1>2 DEF Follows, Seen, InView, VISIBLEON, Strays, SameTags
<1> QED BY <1>1, <1>4, <1>5 DEF Shifted, Orderly, e

\* Neither selmon nor a mapped window is on output m.
Vacated(e, m) == e.selmon # m /\ \A x \in Mapped(e) : e.mon[x] # m

(***************************************************************************)
(* What each step of updatemons is to the windows, calls nested in it      *)
(* included: none leaves an output that is on or asleep, and what has left *)
(* an output that is off does not come back to it.                         *)
(***************************************************************************)
Herded(d, e) ==
    /\ Shifted(d, e)
    /\ \A x \in Client : d.mon[x] \in d.on \cup d.asleep => e.mon[x] = d.mon[x]
    /\ \A m \in Monitor : Disabled(d, m) /\ Vacated(d, m) => Vacated(e, m)

LEMMA HerdedSame ==
    ASSUME NEW d \in Desks
    PROVE  Herded(d, d)
BY ShiftedSame DEF Herded

LEMMA HerdedTwice ==
    ASSUME NEW d, NEW e, NEW f, Herded(d, e), Herded(e, f)
    PROVE  Herded(d, f)
<1>1. Shifted(d, f)
  BY ShiftedTwice DEF Herded
<1>2. e.on = d.on /\ e.asleep = d.asleep
  BY ShiftedDesk DEF Herded
<1>3. \A m \in Monitor : Disabled(e, m) <=> Disabled(d, m)
  BY <1>2 DEF Disabled
<1>4. \A x \in Client : d.mon[x] \in d.on \cup d.asleep => f.mon[x] = d.mon[x]
  BY <1>2 DEF Herded
<1>5. \A m \in Monitor : Disabled(d, m) /\ Vacated(d, m) => Vacated(f, m)
  BY <1>3 DEF Herded
<1> QED BY <1>1, <1>4, <1>5 DEF Herded

\* A nested call, as far as the windows are concerned.
WindowCalls == {again \in Calls : \A d \in Desks : Herded(d, again[d])}

LEMMA RelaidHerded ==
    ASSUME NEW d \in Desks, NEW placed \in SUBSET Monitor, NEW again \in WindowCalls
    PROVE  LET e == [d EXCEPT !.layout = placed]
           IN  Herded(d, e) /\ Herded(d, again[e])
<1> DEFINE e == [d EXCEPT !.layout = placed]
<1>1. Shifted(d, e) /\ e.selmon = d.selmon /\ e.mon = d.mon
  BY RelaidShifted
<1> HIDE DEF e
<1>2. e \in Desks /\ Mapped(e) = Mapped(d)
  BY <1>1, ShiftedDesk
<1>3. Herded(d, e)
  BY <1>1, <1>2 DEF Herded, Vacated
<1>4. Herded(e, again[e])
  BY <1>2 DEF WindowCalls
<1> QED BY <1>3, <1>4, HerdedTwice DEF e

LEMMA ClosemonHerded ==
    ASSUME NEW d \in Desks, NEW m \in Monitor, Disabled(d, m)
    PROVE  LET e == closemon(d, m)
           IN  Herded(d, e) /\ Vacated(e, m)
<1> DEFINE e == closemon(d, m)
<1>1. /\ Shifted(d, e) /\ e.selmon = Heir(d, m)
      /\ \A x \in Client :
           e.mon[x] = IF x \in Mapped(d) /\ d.mon[x] = m THEN Heir(d, m) ELSE d.mon[x]
  BY ClosemonShifted
<1> HIDE DEF e
<1>2. Mapped(e) = Mapped(d) /\ Mapped(d) \subseteq Client
  BY <1>1, ShiftedDesk, ListedMembers DEF Mapped, Desks
<1>3. Heir(d, m) # m /\ Heir(d, m) \in {d.selmon, NoMon} \cup Enabled(d)
  BY HeirNotClosed
<1>4. \A x \in Client : d.mon[x] \in d.on \cup d.asleep => e.mon[x] = d.mon[x]
  BY <1>1 DEF Disabled
<1>5. Vacated(e, m)
  BY <1>1, <1>2, <1>3 DEF Vacated
<1>6. ASSUME NEW k \in Monitor, Disabled(d, k), Vacated(d, k)
      PROVE  Vacated(e, k)
  <2>1. k # NoMon /\ k \notin Enabled(d) /\ k # d.selmon
    BY <1>6, NullAssumption DEF Disabled, Enabled, Vacated
  <2>2. Heir(d, m) # k
    BY <1>3, <2>1
  <2> QED BY <1>1, <1>2, <1>6, <2>2 DEF Vacated
<1> QED BY <1>1, <1>4, <1>5, <1>6 DEF Herded, e

LEMMA CloseIfDisabledHerded ==
    ASSUME NEW d \in Desks, NEW m \in Monitor, NEW again \in WindowCalls
    PROVE  LET e == CloseIfDisabled(d, m, again)
           IN  Herded(d, e) /\ (Disabled(d, m) => Vacated(e, m))
<1>1. CASE ~Disabled(d, m)
  BY <1>1, HerdedSame DEF CloseIfDisabled
<1>2. CASE Disabled(d, m)
  <2> DEFINE removed == IF m \in d.layout THEN again[[d EXCEPT !.layout = d.layout \ {m}]]
                        ELSE d
  <2>1. Herded(d, removed)
    <3>1. d.layout \ {m} \in SUBSET Monitor
      BY DEF Desks
    <3> QED BY <3>1, RelaidHerded, HerdedSame
  <2>2. CloseIfDisabled(d, m, again) = closemon(removed, m)
    BY <1>2 DEF CloseIfDisabled
  <2> HIDE DEF removed
  <2>3. removed \in Desks /\ Disabled(removed, m)
    BY <1>2, <2>1, ShiftedDesk DEF Herded, Disabled
  <2>4. Herded(removed, closemon(removed, m)) /\ Vacated(closemon(removed, m), m)
    BY <2>3, ClosemonHerded
  <2> QED BY <2>1, <2>2, <2>4, HerdedTwice
<1> QED BY <1>1, <1>2

(***************************************************************************)
(* However many outputs are switched off at once, the loop of updatemons   *)
(* vacates all of them and moves no window of another output: closing one  *)
(* never puts a window on one that was closed before it.                   *)
(***************************************************************************)
LEMMA CloseDisabledHerded ==
    ASSUME NEW d \in Desks, NEW again \in WindowCalls
    PROVE  LET e == CloseDisabled(d, again)
           IN  /\ Herded(d, e)
               /\ \A m \in Listed(d.mons) : Disabled(d, m) => Vacated(e, m)
<1> DEFINE n == Len(d.mons)
           Closed(e, i) ==
               Herded(d, e) /\ \A j \in 1..i : Disabled(d, d.mons[j]) => Vacated(e, d.mons[j])
           S == [i \in 0..n |-> {e \in Desks : Closed(e, i)}]
<1>1. PICK run :
            /\ run[0] = d
            /\ \A i \in 1..n : run[i] = CloseIfDisabled(run[i - 1], d.mons[i], again)
            /\ CloseDisabled(d, again) = run[n]
  BY CloseDisabledRuns DEF WindowCalls
<1>2. n \in Nat /\ \A i \in 1..n : d.mons[i] \in Monitor
  BY DEF Desks
<1>3. run[0] \in S[0]
  BY <1>1, <1>2, HerdedSame
<1>4. ASSUME NEW i \in 1..n, run[i - 1] \in S[i - 1] PROVE run[i] \in S[i]
  <2> DEFINE e == run[i - 1]
             f == run[i]
             m == d.mons[i]
  <2>1. /\ e \in Desks /\ Closed(e, i - 1) /\ m \in Monitor
        /\ f = CloseIfDisabled(e, m, again)
    BY <1>1, <1>2, <1>4
  <2> HIDE DEF e, f
  <2>2. \A k : Disabled(e, k) <=> Disabled(d, k)
    BY <2>1, ShiftedDesk DEF Herded, Disabled
  <2>3. Herded(e, f) /\ (Disabled(d, m) => Vacated(f, m))
    BY <2>1, <2>2, CloseIfDisabledHerded
  <2>4. Herded(d, f) /\ f \in Desks
    BY <2>1, <2>3, HerdedTwice, ShiftedDesk DEF Herded
  <2>5. ASSUME NEW j \in 1..i, Disabled(d, d.mons[j]) PROVE Vacated(f, d.mons[j])
    <3>1. CASE j = i
      BY <2>3, <2>5, <3>1
    <3>2. CASE j # i
      <4>1. j \in 1..(i - 1) /\ d.mons[j] \in Monitor
        BY <1>2, <3>2
      <4>2. Vacated(e, d.mons[j]) /\ Disabled(e, d.mons[j])
        BY <2>1, <2>2, <2>5, <4>1
      <4> QED BY <2>3, <4>1, <4>2 DEF Herded
    <3> QED BY <3>1, <3>2
  <2>6. f \in {g \in Desks : Closed(g, i)}
    BY <2>4, <2>5
  <2> HIDE DEF Closed
  <2> QED BY <1>2, <2>6 DEF f
<1>5. run[n] \in S[n]
  <2> HIDE DEF S, n
  <2> QED BY <1>2, <1>3, <1>4, LoopProgress
<1>6. Closed(run[n], n)
  BY <1>2, <1>5
<1>7. \A m \in Listed(d.mons) : \E j \in 1..n : m = d.mons[j]
  BY DEF Listed, Desks
<1> HIDE DEF n
<1> QED BY <1>1, <1>6, <1>7

LEMMA PlaceEnabledHerded ==
    ASSUME NEW d \in Desks, NEW again \in WindowCalls
    PROVE  Herded(d, PlaceEnabled(d, again))
<1> DEFINE n == Len(d.mons)
           S == {e \in Desks : Herded(d, e)}
<1>1. PICK run :
            /\ run[0] = d
            /\ \A i \in 1..n : run[i] = PlaceIfEnabled(run[i - 1], d.mons[i], again)
            /\ PlaceEnabled(d, again) = run[n]
  BY PlaceEnabledRuns DEF WindowCalls
<1>2. n \in Nat /\ \A i \in 1..n : d.mons[i] \in Monitor
  BY DEF Desks
<1>3. run[0] \in S
  BY <1>1, HerdedSame
<1>4. ASSUME NEW i \in 1..n, run[i - 1] \in S PROVE run[i] \in S
  <2> DEFINE e == run[i - 1]
             m == d.mons[i]
  <2>1. e \in Desks /\ Herded(d, e) /\ m \in Monitor
    BY <1>2, <1>4
  <2>2. run[i] = PlaceIfEnabled(e, m, again)
    BY <1>1
  <2> HIDE DEF e, m
  <2>3. Herded(e, PlaceIfEnabled(e, m, again))
    <3>1. e.layout \cup {m} \in SUBSET Monitor
      BY <2>1 DEF Desks
    <3> QED BY <2>1, <3>1, RelaidHerded, HerdedSame DEF PlaceIfEnabled
  <2>4. Herded(d, run[i]) /\ run[i] \in Desks
    BY <2>1, <2>2, <2>3, HerdedTwice, ShiftedDesk DEF Herded
  <2> QED BY <2>4
<1>5. run[n] \in S
  <2> HIDE DEF S, n
  <2> QED BY <1>2, <1>3, <1>4, LoopInvariant
<1> QED BY <1>1, <1>5

LEMMA SelectShifted ==
    ASSUME NEW d \in Desks, NEW m \in Named(d)
    PROVE  LET e == [d EXCEPT !.selmon = m]
           IN  Still(d, e) /\ Shifted(d, e) /\ e.selmon = m /\ Named(e) \subseteq Named(d)
<1> DEFINE e == [d EXCEPT !.selmon = m]
<1>1. m \in SomeMon
  BY ListedMembers DEF Named, Desks, SomeMon
<1>2. /\ Kept(d, e) /\ e.selmon = m /\ e.lmon = d.lmon
      /\ e.clients = d.clients /\ e.fstack = d.fstack /\ e.shown = d.shown
      /\ e.grabc = d.grabc /\ e.kb = d.kb /\ e.mon = d.mon /\ e.tags = d.tags
      /\ e.viewed = d.viewed /\ e.previous = d.previous /\ e.leaving = d.leaving
  BY <1>1 DEF Kept, KeptButLayout, Desks
<1> HIDE DEF e
<1>3. Still(d, e)
  BY <1>2, SameWindowsStill DEF Reordered
<1>4. Shifted(d, e)
  BY <1>2, <1>3, StillIsOrderly, StillShifted
<1> QED BY <1>2, <1>3, <1>4 DEF Still, Calm, e

\* The scene after arranging all enabled outputs of the list.
Here(d) == {c \in Mapped(d) : d.mon[c] \in Enabled(d)}
Relit(d) ==
    [d EXCEPT !.shown = (@ \ Here(d))
        \cup {c \in Here(d) : VISIBLEON(d, c, d.mon[c]) \/ c \in d.leaving}]

LEMMA RelitShifted ==
    ASSUME NEW d \in Desks
    PROVE  /\ Shifted(d, Relit(d)) /\ Still(d, Relit(d)) /\ Kept(d, Relit(d))
           /\ Relit(d).selmon = d.selmon
           /\ d.on \subseteq Listed(d.mons) => Lit(Relit(d))
<1> DEFINE e   == Relit(d)
           lit == {c \in Here(d) : VISIBLEON(d, c, d.mon[c]) \/ c \in d.leaving}
<1>1. Here(d) \subseteq Mapped(d) /\ Mapped(d) \subseteq Client
  BY ListedMembers DEF Here, Mapped, Desks
<1>2. /\ Kept(d, e) /\ e.selmon = d.selmon /\ e.lmon = d.lmon
      /\ e.clients = d.clients /\ e.fstack = d.fstack
      /\ e.shown = (d.shown \ Here(d)) \cup lit
      /\ e.grabc = d.grabc /\ e.kb = d.kb /\ e.mon = d.mon /\ e.tags = d.tags
      /\ e.viewed = d.viewed /\ e.previous = d.previous /\ e.leaving = d.leaving
      /\ e.on = d.on /\ e.mons = d.mons /\ e.layout = d.layout
  <2>1. lit \in SUBSET Client
    BY <1>1
  <2>2. e = [d EXCEPT !.shown = (d.shown \ Here(d)) \cup lit]
    BY DEF Relit, Desks
  <2> HIDE DEF e, lit
  <2> QED BY <2>1, <2>2 DEF Kept, KeptButLayout, Desks
<1> HIDE DEF e
<1>3. Mapped(e) = Mapped(d) /\ Named(e) = Named(d)
  BY <1>2 DEF Mapped, Named
<1>4. \A c \in Mapped(d) : VISIBLEON(e, c, e.mon[c]) <=> VISIBLEON(d, c, d.mon[c])
  BY <1>2 DEF VISIBLEON
<1>5. (Lit(d) \/ d.on \subseteq Listed(d.mons)) => Lit(e)
  BY <1>2, <1>3, <1>4 DEF Lit, Here, Enabled
<1>6. Tagged(d) => Tagged(e)
  BY <1>2 DEF Tagged
<1>7. Calm(d, e)
  BY <1>1, <1>2, <1>3, <1>5, <1>6 DEF Calm, Reordered, Kept
<1>8. Still(d, e)
  BY <1>2, <1>7 DEF Still
<1> QED BY <1>2, <1>5, <1>8, StillIsOrderly, StillShifted DEF e

LEMMA ArrangeEnabledShifted ==
    ASSUME NEW d \in Desks
    PROVE  LET e == ArrangeEnabled(d)
           IN  /\ Shifted(d, e) /\ e.mon = d.mon /\ e.layout = d.layout
               /\ e.selmon \in {d.selmon} \cup Enabled(d)
               /\ d.on \subseteq Listed(d.mons) => Lit(e)
<1> DEFINE taking  == {i \in DOMAIN d.mons : /\ d.mons[i] \in d.on
                                             /\ Interactive(d, d.mons[i]) # {}}
           last    == d.mons[CHOOSE i \in taking : \A j \in taking : j <= i]
           focused == IF taking = {} THEN d ELSE arrangelayers(d, last)
           selmon  == IF focused.selmon = NoMon /\ Enabled(d) # {}
                      THEN FirstIn(d.mons, d.on) ELSE focused.selmon
           e       == [Relit(focused) EXCEPT !.selmon = selmon]
<1>1. /\ Still(d, focused) /\ Orderly(d, focused) /\ focused.selmon = d.selmon
  <2> HIDE DEF taking, last
  <2> QED BY ArrangelayersStill, StillSame, OrderlySame
<1>2. focused.shown = d.shown
  <2> HIDE DEF taking, last
  <2> QED BY DEF arrangelayers, focusclient, RaiseFocus, Desks
<1> HIDE DEF focused
<1>3. /\ Shifted(d, focused) /\ focused \in Desks /\ focused.mon = d.mon
      /\ focused.layout = d.layout /\ focused.mons = d.mons /\ focused.on = d.on
      /\ Enabled(focused) = Enabled(d) /\ Mapped(focused) = Mapped(d)
      /\ focused.leaving = d.leaving /\ focused.tags = d.tags /\ focused.viewed = d.viewed
  BY <1>1, StillShifted, ShiftedDesk DEF Still
<1>4. Enabled(d) # {} => FirstIn(d.mons, d.on) \in Enabled(d)
  <2>1. d.mons \in Seq(Listed(d.mons))
    BY ListedMembers DEF Desks, Listed
  <2> QED BY <2>1, FirstInMember DEF Enabled
<1>5. selmon \in {d.selmon} \cup Enabled(d)
  BY <1>1, <1>4
<1>6. ArrangeEnabled(d) = e
  <2>1. Here(focused) = {c \in Mapped(d) : d.mon[c] \in Enabled(d)}
    BY <1>3 DEF Here
  <2>2. {c \in Here(focused) : VISIBLEON(focused, c, focused.mon[c]) \/ c \in focused.leaving}
        = {c \in Here(focused) : VISIBLEON(d, c, d.mon[c]) \/ c \in d.leaving}
    BY <1>3 DEF VISIBLEON
  <2> DEFINE here == {c \in Mapped(d) : d.mon[c] \in Enabled(d)}
             lit  == {c \in here : VISIBLEON(d, c, d.mon[c]) \/ c \in d.leaving}
  <2>3. ArrangeEnabled(d) =
          [focused EXCEPT !.shown = (focused.shown \ here) \cup lit, !.selmon = selmon]
    BY Zenon DEF ArrangeEnabled, focused
  <2>4. Relit(focused) = [focused EXCEPT !.shown = (focused.shown \ here) \cup lit]
    BY <2>1, <2>2 DEF Relit
  <2> HIDE DEF here, lit, selmon
  <2> QED BY <2>3, <2>4
<1> HIDE DEF selmon
<1>7. /\ Shifted(focused, Relit(focused)) /\ Still(focused, Relit(focused))
      /\ Relit(focused).selmon = focused.selmon
      /\ focused.on \subseteq Listed(focused.mons) => Lit(Relit(focused))
  BY <1>3, RelitShifted
<1>8. Relit(focused) \in Desks /\ Relit(focused).mons = d.mons /\ Enabled(Relit(focused)) = Enabled(d)
  BY <1>3, <1>7, ShiftedDesk
<1>9. selmon \in Named(Relit(focused))
  BY <1>1, <1>5, <1>7, <1>8 DEF Named, Enabled
<1> DEFINE r == Relit(focused)
<1>10. Still(r, e) /\ Shifted(r, e) /\ e.selmon = selmon
  BY <1>8, <1>9, SelectShifted
<1> HIDE DEF e, r
<1>11. Shifted(d, e)
  BY <1>3, <1>7, <1>10, ShiftedTwice DEF r
<1>12. d.on \subseteq Listed(d.mons) => Lit(e)
  BY <1>3, <1>7, <1>10 DEF Still, Calm, r
<1> QED BY <1>3, <1>5, <1>6, <1>7, <1>10, <1>11, <1>12 DEF Still, r

(***************************************************************************)
(* The end of updatemons: an enabled selmon adopts the windows that have   *)
(* no output, and the focus is restored.                                   *)
(***************************************************************************)
LEMMA SettleShifted ==
    ASSUME NEW d \in Desks
    PROVE  LET e == Settle(d)
           IN  /\ Shifted(d, e)
               /\ e.selmon \in {d.selmon} \cup Enabled(d)
               /\ d.on \subseteq Listed(d.mons) => Lit(e)
               /\ \A x \in Client :
                    e.mon[x] = IF x \in Mapped(d) /\ d.mon[x] = NoMon /\ e.selmon \in d.on
                               THEN e.selmon ELSE d.mon[x]
<1> DEFINE arranged == ArrangeEnabled(d)
           adopted  == MigrateAll(arranged, NoMon)
           focused  == Refocus(adopted)
           locked   == [focused EXCEPT !.kb = focused.selmon]
<1>1. /\ Shifted(d, arranged) /\ arranged.mon = d.mon
      /\ arranged.selmon \in {d.selmon} \cup Enabled(d)
      /\ d.on \subseteq Listed(d.mons) => Lit(arranged)
  BY ArrangeEnabledShifted
<1>2. Settle(d) = IF arranged.selmon \notin arranged.on THEN arranged
                  ELSE IF focused.selmon \in focused.locksurf THEN locked ELSE focused
  BY DEF Settle
<1> HIDE DEF arranged
<1>3. arranged \in Desks /\ arranged.on = d.on /\ Mapped(arranged) = Mapped(d)
  BY <1>1, ShiftedDesk
<1>4. /\ Shifted(arranged, adopted) /\ adopted.selmon = arranged.selmon
      /\ \A x \in Client :
           adopted.mon[x] = IF x \in Mapped(d) /\ d.mon[x] = NoMon
                            THEN arranged.selmon ELSE d.mon[x]
  BY <1>1, <1>3, MigrateAllShifted
<1> HIDE DEF adopted
<1>5. adopted \in Desks
  BY <1>3, <1>4, ShiftedDesk
<1>6. /\ Still(adopted, focused) /\ Shifted(adopted, focused)
      /\ focused.mon = adopted.mon /\ focused.selmon = adopted.selmon
  BY <1>5, RefocusOnStill, RefocusOnSeen, StillShifted DEF Still
<1> HIDE DEF focused
<1>7. Shifted(d, focused) /\ focused \in Desks
  BY <1>1, <1>4, <1>5, <1>6, ShiftedTwice, ShiftedDesk
<1>8. focused.selmon \in focused.locksurf =>
         Shifted(focused, locked) /\ locked.mon = focused.mon /\ locked.selmon = focused.selmon
  <2>1. SUFFICES ASSUME focused.selmon \in focused.locksurf
                 PROVE  Shifted(focused, locked) /\ locked.mon = focused.mon
                        /\ locked.selmon = focused.selmon
    OBVIOUS
  <2>2. focused.selmon \in Monitor
    BY <1>7, <2>1 DEF Desks
  <2>3. /\ Kept(focused, locked) /\ locked.kb = focused.selmon /\ locked.selmon = focused.selmon
        /\ locked.lmon = focused.lmon /\ locked.clients = focused.clients
        /\ locked.fstack = focused.fstack /\ locked.shown = focused.shown
        /\ locked.grabc = focused.grabc /\ locked.mon = focused.mon
        /\ locked.tags = focused.tags /\ locked.viewed = focused.viewed
        /\ locked.previous = focused.previous /\ locked.leaving = focused.leaving
    BY <1>7, <2>1, <2>2 DEF Kept, KeptButLayout, Desks, Focusable
  <2> HIDE DEF locked
  <2>4. Still(focused, locked)
    BY <1>7, <2>1, <2>3, SameWindowsStill DEF Reordered, Named
  <2>5. locked.kb \notin Client
    BY <2>2, <2>3, SurfaceAssumption
  <2> QED BY <2>3, <2>4, <2>5, StillIsOrderly, StillShifted
<1>9. d.on \subseteq Listed(d.mons) => Lit(focused)
  BY <1>1, <1>4, <1>6 DEF Shifted, Orderly, Calm
<1>10. focused.selmon \in focused.locksurf =>
          Shifted(d, locked) /\ (d.on \subseteq Listed(d.mons) => Lit(locked))
  <2> HIDE DEF locked
  <2> QED BY <1>7, <1>8, <1>9, ShiftedTwice DEF Shifted, Orderly, Calm
<1>11. NoMon \notin d.on
  BY NullAssumption DEF Desks
<1> HIDE DEF locked
<1>12. CASE arranged.selmon \notin arranged.on
  BY <1>1, <1>2, <1>3, <1>12
<1>13. CASE arranged.selmon \in arranged.on
  BY <1>1, <1>2, <1>3, <1>4, <1>6, <1>7, <1>8, <1>9, <1>10, <1>13
<1> QED BY <1>12, <1>13

(***************************************************************************)
(* What updatemons makes of the windows.                                   *)
(***************************************************************************)
Settled(d, e) ==
    /\ Shifted(d, e)
    /\ d.on \subseteq Listed(d.mons) => Lit(e)
    /\ \A x \in Client : d.mon[x] \in d.on \cup d.asleep => e.mon[x] = d.mon[x]
    /\ \A m \in Listed(d.mons) : Disabled(d, m) => Vacated(e, m)
    /\ e.selmon \in e.on => \A x \in Mapped(e) : e.mon[x] # NoMon

LEMMA UpdatedSettles ==
    ASSUME NEW d \in Desks, NEW again \in WindowCalls
    PROVE  Settled(d, Updated(d, again)) /\ Herded(d, Updated(d, again))
<1> DEFINE closed == CloseDisabled(d, again)
           placed == PlaceEnabled(closed, again)
           e      == Settle(placed)
<1>1. /\ Herded(d, closed)
      /\ \A m \in Listed(d.mons) : Disabled(d, m) => Vacated(closed, m)
  BY CloseDisabledHerded
<1>2. Updated(d, again) = e
  BY DEF Updated
<1> HIDE DEF closed
<1>3. closed \in Desks /\ closed.on = d.on /\ closed.asleep = d.asleep
  BY <1>1, ShiftedDesk DEF Herded
<1>4. Herded(closed, placed)
  BY <1>3, PlaceEnabledHerded
<1> HIDE DEF placed
<1>5. Herded(d, placed)
  BY <1>1, <1>4, HerdedTwice
<1>6. /\ placed \in Desks /\ Mapped(placed) = Mapped(d) /\ placed.mons = d.mons
      /\ placed.on = d.on /\ placed.asleep = d.asleep /\ Enabled(placed) = Enabled(d)
  BY <1>5, ShiftedDesk DEF Herded
<1>7. \A m \in Listed(d.mons) : Disabled(d, m) => Vacated(placed, m)
  <2>1. Listed(d.mons) \subseteq Monitor
    BY ListedMembers DEF Desks
  <2> QED BY <1>1, <1>3, <1>4, <2>1 DEF Herded, Disabled
<1>8. /\ Shifted(placed, e)
      /\ e.selmon \in {placed.selmon} \cup Enabled(d)
      /\ d.on \subseteq Listed(d.mons) => Lit(e)
      /\ \A x \in Client :
           e.mon[x] = IF x \in Mapped(d) /\ placed.mon[x] = NoMon /\ e.selmon \in d.on
                      THEN e.selmon ELSE placed.mon[x]
  BY <1>6, SettleShifted
<1> HIDE DEF e
<1>9. Shifted(d, e) /\ e.on = d.on /\ Mapped(e) = Mapped(d)
  BY <1>5, <1>6, <1>8, ShiftedTwice, ShiftedDesk DEF Herded
<1>10. Mapped(d) \subseteq Client /\ NoMon \notin d.on \cup d.asleep
  BY ListedMembers, NullAssumption DEF Mapped, Desks
<1>11. ASSUME NEW x \in Client, d.mon[x] \in d.on \cup d.asleep PROVE e.mon[x] = d.mon[x]
  BY <1>5, <1>8, <1>10, <1>11 DEF Herded
<1>12. ASSUME NEW m, Disabled(d, m), Vacated(placed, m) PROVE Vacated(e, m)
  <2>1. m \notin Enabled(d) /\ m \notin d.on
    BY <1>12 DEF Disabled, Enabled
  <2> QED BY <1>6, <1>8, <1>9, <1>10, <1>12, <2>1 DEF Vacated
<1>13. e.selmon \in e.on => \A x \in Mapped(e) : e.mon[x] # NoMon
  BY <1>8, <1>9, <1>10
<1>14. Settled(d, e)
  BY <1>7, <1>8, <1>9, <1>11, <1>12, <1>13 DEF Settled
<1>15. Herded(d, e)
  BY <1>5, <1>9, <1>11, <1>12 DEF Herded
<1> QED BY <1>2, <1>14, <1>15

\* However deep the calls of updatemons are nested, each of them is such a call.
LEMMA CallsHerd ==
    ASSUME NEW n \in Nat, NEW f \in CallsTo(n), NEW k \in 0..n
    PROVE  f[k] \in WindowCalls
<1>1. f[0] \in WindowCalls
  BY HerdedSame DEF CallsTo, WindowCalls
<1>2. ASSUME NEW i \in 1..k, f[i - 1] \in WindowCalls PROVE f[i] \in WindowCalls
  <2>1. f[i] = [e \in Desks |-> Updated(e, f[i - 1])] /\ f[i] \in Calls
    BY DEF CallsTo
  <2> QED BY <1>2, <2>1, UpdatedSettles DEF WindowCalls
<1> QED BY <1>1, <1>2, LoopInvariant

LEMMA UpdatemonsSettles ==
    ASSUME NEW d \in Desks
    PROVE  Settled(d, updatemons(d))
<1> DEFINE n == Len(d.mons) + 1
<1>1. n \in Nat /\ n \in 1..n /\ n - 1 \in 0..n
  BY DEF Desks
<1>2. PICK f \in CallsTo(n) : updatemons(d) = f[n][d]
  BY UpdatemonsCalls
<1> HIDE DEF n
<1>3. updatemons(d) = Updated(d, f[n - 1])
  <2>1. f[n] = [e \in Desks |-> Updated(e, f[n - 1])]
    BY <1>1 DEF CallsTo
  <2> QED BY <1>2, <2>1
<1>4. f[n - 1] \in WindowCalls
  BY <1>1, CallsHerd
<1> QED BY <1>3, <1>4, UpdatedSettles

-----------------------------------------------------------------------------
(***************************************************************************)
(* Views, tags and the commands of key bindings.                           *)
(***************************************************************************)
\* The window lists agree and whatever refers to a window refers to a mapped one.
Tidy(d) ==
    /\ Distinct(d.clients)
    /\ Distinct(d.fstack)
    /\ Listed(d.fstack) = Mapped(d)
    /\ d.shown \subseteq Mapped(d)
    /\ Strays(d) = {}
    /\ d.grabc \in Mapped(d) \cup {NoWin}

LEMMA OrderlyTidy ==
    ASSUME NEW d, NEW e, Orderly(d, e), Tidy(d)
    PROVE  Tidy(e)
<1>1. Mapped(e) = Mapped(d)
  BY DEF Orderly, Calm, Mapped
<1> QED BY <1>1 DEF Orderly, Calm, Tidy, Reordered

\* f is d with other views, tags or slides; only windows on m may be lit wrong.
Retagged(d, f, m) ==
    /\ Kept(d, f)
    /\ f.clients = d.clients /\ f.fstack = d.fstack /\ f.shown = d.shown
    /\ f.grabc \in {d.grabc, NoWin} /\ f.kb = d.kb /\ f.lmon = d.lmon
    /\ f.mon = d.mon /\ f.selmon = d.selmon
    /\ Tagged(d) => Tagged(f)
    /\ Lit(d) => LitBut(f, m)

LEMMA RetaggedOrderly ==
    ASSUME NEW d \in Desks, NEW f, NEW m, Retagged(d, f, m)
    PROVE  Orderly(d, Redisplay(f, m))
<1> DEFINE e == Redisplay(f, m)
<1>1. f \in Desks /\ Mapped(f) = Mapped(d) /\ f.mons = d.mons /\ KeptButLayout(d, f)
  BY DEF Retagged, Kept, KeptButLayout, Mapped
<1>2. /\ Still(f, e) /\ (LitBut(f, m) => Lit(e)) /\ (Shut(f) => Seen(e))
      /\ Orderly(f, e)
  BY <1>1, RedisplayStill
<1> HIDE DEF e
<1>3. Named(f) = Named(d) /\ Strays(f) = Strays(d)
  BY <1>1 DEF Retagged, Named, Strays
<1>4. Shut(d) => Shut(f)
  BY <1>1 DEF Retagged, Shut, KeptButLayout
<1>5. KeptButLayout(d, e)
  BY <1>1, <1>2 DEF Still, Calm, KeptButLayout
<1>6. Calm(d, e)
  BY <1>1, <1>2, <1>3, <1>5 DEF Retagged, Still, Calm, KeptButLayout
<1> QED BY <1>2, <1>3, <1>4, <1>6 DEF Orderly, Follows, e

\* A view of one output is changed to another non-empty one.
LEMMA ReviewedRetagged ==
    ASSUME NEW d \in Desks, NEW m \in Monitor, NEW new \in SUBSET Tag, NEW old \in SUBSET Tag,
           Tagged(d) => new # {} /\ old # {}
    PROVE  Retagged(d, [d EXCEPT !.viewed[m] = new, !.previous[m] = old], m)
<1> DEFINE f == [d EXCEPT !.viewed[m] = new, !.previous[m] = old]
<1>1. /\ Kept(d, f) /\ f.selmon = d.selmon /\ f.lmon = d.lmon
      /\ f.clients = d.clients /\ f.fstack = d.fstack /\ f.shown = d.shown
      /\ f.grabc = d.grabc /\ f.kb = d.kb /\ f.mon = d.mon /\ f.tags = d.tags
      /\ f.leaving = d.leaving /\ f.on = d.on
      /\ f.viewed = [d.viewed EXCEPT ![m] = new] /\ f.previous = [d.previous EXCEPT ![m] = old]
  BY DEF Kept, KeptButLayout, Desks
<1>2. DOMAIN d.viewed = Monitor /\ DOMAIN d.previous = Monitor
  BY DEF Desks
<1> HIDE DEF f
<1>3. Tagged(d) => Tagged(f)
  BY <1>1, <1>2 DEF Tagged
<1>4. Lit(d) => LitBut(f, m)
  <2>1. SUFFICES ASSUME Lit(d), NEW x \in Mapped(f), f.mon[x] \in f.on, f.mon[x] # m
                 PROVE  x \in f.shown <=> VISIBLEON(f, x, f.mon[x]) \/ x \in f.leaving
    BY DEF LitBut
  <2>2. x \in Mapped(d) /\ d.mon[x] \in d.on /\ d.mon[x] \in Monitor /\ d.mon[x] # m
    BY <1>1, <2>1 DEF Mapped, Desks
  <2>3. f.viewed[f.mon[x]] = d.viewed[d.mon[x]]
    BY <1>1, <1>2, <2>2
  <2> QED BY <1>1, <2>1, <2>2, <2>3 DEF Lit, VISIBLEON
<1> QED BY <1>1, <1>3, <1>4 DEF Retagged, f

\* The slides of a view change concern the windows of its output only.
LEMMA AnimViewRetagged ==
    ASSUME NEW d \in Desks, NEW e, NEW m, NEW old, NEW new, Retagged(d, e, m)
    PROVE  Retagged(d, anim_view(e, m, old, new), m)
<1> DEFINE moving == {c \in Mapped(e) :
                        /\ e.mon[c] = m
                        /\ (e.tags[c] \cap old = {}) # (e.tags[c] \cap new = {})}
           out == {c \in moving : e.tags[c] \cap new = {}}
           f == [e EXCEPT !.leaving = (@ \ moving) \cup out]
<1>1. e \in Desks
  BY DEF Retagged, Kept, KeptButLayout
<1>2. CASE ~Animations
  BY <1>2 DEF anim_view
<1>3. CASE Animations
  <2>1. anim_view(e, m, old, new) = f
    BY <1>3 DEF anim_view
  <2>2. out \subseteq moving /\ moving \in SUBSET Client /\ \A x \in moving : e.mon[x] = m
    BY <1>1, ListedMembers DEF Mapped, Desks
  <2> HIDE DEF moving, out
  <2>3. /\ Kept(e, f) /\ f.selmon = e.selmon /\ f.lmon = e.lmon
        /\ f.clients = e.clients /\ f.fstack = e.fstack /\ f.shown = e.shown
        /\ f.grabc = e.grabc /\ f.kb = e.kb /\ f.mon = e.mon /\ f.tags = e.tags
        /\ f.on = e.on /\ f.viewed = e.viewed /\ f.previous = e.previous
        /\ f.leaving = (e.leaving \ moving) \cup out
    BY <1>1, <2>2 DEF Kept, KeptButLayout, Desks
  <2> HIDE DEF f
  <2>4. LitBut(e, m) => LitBut(f, m)
    BY <2>2, <2>3 DEF LitBut, VISIBLEON, Mapped
  <2>5. Tagged(e) => Tagged(f)
    BY <2>3 DEF Tagged
  <2>6. Kept(d, f)
    BY <2>3, KeptTwice DEF Retagged
  <2> QED BY <2>1, <2>3, <2>4, <2>5, <2>6 DEF Retagged
<1> QED BY <1>2, <1>3

LEMMA ViewOrderly ==
    ASSUME NEW d \in Desks, NEW newtags \in SUBSET Tag
    PROVE  Orderly(d, view(d, newtags))
<1> DEFINE m   == d.selmon
           old == d.viewed[m]
           new == IF newtags = {} THEN d.previous[m] ELSE newtags
           e   == [d EXCEPT !.viewed[m] = new, !.previous[m] = old]
           f   == anim_view(e, m, old, new)
<1>1. CASE m = NoMon \/ newtags = old
  BY <1>1, OrderlySame DEF view
<1>2. CASE m # NoMon /\ newtags # old
  <2>1. m \in Monitor
    BY <1>2 DEF Desks, SomeMon
  <2>2. /\ old \in SUBSET Tag /\ new \in SUBSET Tag
        /\ Tagged(d) => new # {} /\ old # {}
    BY <2>1 DEF Desks, Tagged
  <2>3. Retagged(d, e, m)
    <3> HIDE DEF m, old, new
    <3> QED BY <2>1, <2>2, ReviewedRetagged, Zenon
  <2>4. Retagged(d, f, m)
    <3> HIDE DEF m, old, new, e
    <3> QED BY <2>3, AnimViewRetagged
  <2>5. view(d, newtags) = Redisplay(f, m)
    BY <1>2 DEF view
  <2> HIDE DEF m, f
  <2> QED BY <2>4, <2>5, RetaggedOrderly
<1> QED BY <1>1, <1>2

LEMMA ToggleviewOrderly ==
    ASSUME NEW d \in Desks, NEW flip \in SUBSET Tag
    PROVE  Orderly(d, toggleview(d, flip))
<1> DEFINE m   == d.selmon
           new == Toggle(d.viewed[m], flip)
           e   == [d EXCEPT !.viewed[m] = new]
<1>1. CASE m = NoMon \/ new = {}
  BY <1>1, OrderlySame DEF toggleview
<1>2. CASE m # NoMon /\ new # {}
  <2>1. m \in Monitor
    BY <1>2 DEF Desks, SomeMon
  <2>2. /\ new \in SUBSET Tag /\ d.previous[m] \in SUBSET Tag
        /\ Tagged(d) => d.previous[m] # {}
    BY <2>1 DEF Desks, Tagged, Toggle
  <2>3. e = [d EXCEPT !.viewed[m] = new, !.previous[m] = d.previous[m]]
    BY DEF Desks
  <2>4. Retagged(d, e, m)
    <3> HIDE DEF m, new, e
    <3> QED BY <1>2, <2>1, <2>2, <2>3, ReviewedRetagged, Zenon
  <2>5. toggleview(d, flip) = Redisplay(e, m)
    BY <1>2 DEF toggleview
  <2> HIDE DEF e, m
  <2> QED BY <2>4, <2>5, RetaggedOrderly
<1> QED BY <1>1, <1>2

LEMMA SettagsOrderly ==
    ASSUME NEW d \in Desks, NEW c \in WinOrNone, NEW newtags \in SUBSET Tag
    PROVE  Orderly(d, settags(d, c, newtags))
<1> DEFINE m == d.mon[c]
           free == canvas_cancel_grab(d, c)
           e == [free EXCEPT !.tags[c] = newtags]
<1>1. CASE settags(d, c, newtags) = d
  BY <1>1, OrderlySame
<1>2. CASE settags(d, c, newtags) # d
  <2>1. /\ c \in Client /\ m # NoMon /\ newtags # {}
        /\ settags(d, c, newtags) = Redisplay(e, m)
    BY <1>2 DEF settags, WinOrNone
  <2>2. /\ Kept(d, e) /\ e.selmon = d.selmon /\ e.lmon = d.lmon
        /\ e.clients = d.clients /\ e.fstack = d.fstack /\ e.shown = d.shown
        /\ e.grabc \in {d.grabc, NoWin} /\ e.kb = d.kb /\ e.mon = d.mon
        /\ e.tags = [d.tags EXCEPT ![c] = newtags]
        /\ e.on = d.on /\ e.viewed = d.viewed /\ e.previous = d.previous
        /\ e.leaving = d.leaving
    <3>1. /\ free \in Desks /\ KeptButLayout(d, free) /\ free.layout = d.layout
          /\ free.selmon = d.selmon /\ free.mon = d.mon /\ free.leaving = d.leaving
          /\ free.lmon = d.lmon /\ free.clients = d.clients /\ free.fstack = d.fstack
          /\ free.shown = d.shown /\ free.grabc \in {d.grabc, NoWin} /\ free.kb = d.kb
          /\ free.tags = d.tags /\ free.viewed = d.viewed /\ free.previous = d.previous
          /\ free.mons = d.mons /\ free.on = d.on
      BY CancelFields
    <3> HIDE DEF free
    <3> QED BY <2>1, <3>1 DEF Kept, KeptButLayout, Desks
  <2>3. DOMAIN d.tags = Client
    BY DEF Desks
  <2>4. Tagged(d) => Tagged(e)
    <3> HIDE DEF e
    <3> QED BY <2>1, <2>2, <2>3 DEF Tagged
  <2>5. Lit(d) => LitBut(e, m)
    <3> HIDE DEF e
    <3>1. SUFFICES ASSUME Lit(d), NEW x \in Mapped(e), e.mon[x] \in e.on, e.mon[x] # m
                   PROVE  x \in e.shown <=> VISIBLEON(e, x, e.mon[x]) \/ x \in e.leaving
      BY DEF LitBut
    <3>2. x \in Mapped(d) /\ x \in Client /\ x # c /\ e.mon[x] = d.mon[x]
      BY <2>2, <3>1, ListedMembers DEF Mapped, Desks
    <3>3. e.tags[x] = d.tags[x]
      BY <2>2, <2>3, <3>2
    <3> QED BY <2>2, <3>1, <3>2, <3>3 DEF Lit, VISIBLEON
  <2> HIDE DEF e, m
  <2>6. Retagged(d, e, m)
    BY <2>2, <2>4, <2>5 DEF Retagged
  <2> QED BY <2>1, <2>6, RetaggedOrderly
<1> QED BY <1>1, <1>2

LEMMA RefocusedOrderly ==
    ASSUME NEW d \in Desks, NEW m \in Named(d)
    PROVE  Orderly(d, RefocusOn([d EXCEPT !.selmon = m], m))
<1> DEFINE e == [d EXCEPT !.selmon = m]
<1>1. Orderly(d, e) /\ e \in Desks
  BY SelectShifted, ShiftedDesk DEF Shifted
<1> HIDE DEF e
<1>2. Orderly(d, RefocusOn(e, m))
  BY <1>1, RefocusOnSeen, OrderlyTwice
<1> QED BY <1>2 DEF e

LEMMA GrabOrderly ==
    ASSUME NEW d \in Desks, NEW mode \in CursorModes,
           NEW c \in ({d.grabc, NoWin} \cup d.shown \cup Mapped(d)) \cap WinOrNone,
           mode = "CurNormal" \/ c # NoWin
    PROVE  LET e == [d EXCEPT !.cursor_mode = mode, !.grabc = c]
           IN  Orderly(d, e) /\ e.mon = d.mon /\ e.selmon = d.selmon
<1> DEFINE e == [d EXCEPT !.cursor_mode = mode, !.grabc = c]
<1>1. /\ Kept(d, e) /\ e.selmon = d.selmon /\ e.lmon = d.lmon
      /\ e.clients = d.clients /\ e.fstack = d.fstack /\ e.shown = d.shown
      /\ e.grabc = c /\ e.kb = d.kb /\ e.mon = d.mon /\ e.tags = d.tags
      /\ e.viewed = d.viewed /\ e.previous = d.previous /\ e.leaving = d.leaving
      /\ e.on = d.on /\ e.mons = d.mons /\ e.layout = d.layout
  BY DEF Kept, KeptButLayout, Desks, WinOrNone
<1> HIDE DEF e
<1>2. Mapped(e) = Mapped(d) /\ Named(e) = Named(d)
  BY <1>1 DEF Mapped, Named
<1>3. (Lit(d) => Lit(e)) /\ (Tagged(d) => Tagged(e))
  BY <1>1, <1>2 DEF Lit, Tagged, VISIBLEON
<1>4. Calm(d, e)
  BY <1>1, <1>2, <1>3 DEF Calm, Reordered, Kept
<1>5. Still(d, e)
  BY <1>1, <1>4 DEF Still
<1> QED BY <1>1, <1>5, StillIsOrderly DEF e

LEMMA CommandsOrderly ==
    ASSUME NEW d \in Desks, Tidy(d), d.layout \subseteq Listed(d.mons), NEW e \in Commands(d)
    PROVE  Orderly(d, e)
<1> DEFINE sel == focustop(d, d.selmon)
<1>1. sel \in WinOrNone /\ (sel # NoWin => sel \in Mapped(d) /\ sel \in Client)
  BY FocustopVisible, FocustopIsWindow DEF Tidy
<1>2. dirtomon(d) \subseteq Named(d) /\ Named(d) \subseteq SomeMon
  BY ListedMembers DEF dirtomon, Named, Desks, SomeMon
<1>3. e \in {d, swapdir(d)} => Orderly(d, e)
  BY OrderlySame, RefocusOnSeen DEF swapdir
<1>4. e \in tagmon(d) => Orderly(d, e)
  <2>1. ASSUME NEW m \in dirtomon(d), sel # NoWin PROVE Orderly(d, setmon(d, sel, m, {}))
    <3>1. m \in Named(d) /\ sel \in Client /\ sel \in Mapped(d) /\ {} \in SUBSET Tag
      BY <1>1, <1>2, <2>1
    <3> HIDE DEF sel
    <3> QED BY <3>1, SetmonOrderly
  <2> QED BY <2>1, OrderlySame DEF tagmon
<1>5. e \in focusmon(d) => Orderly(d, e)
  <2>1. CASE d.selmon = NoMon
    BY <2>1, OrderlySame DEF focusmon
  <2>2. CASE d.selmon # NoMon
    BY <1>2, <2>2, RefocusedOrderly DEF focusmon
  <2> QED BY <2>1, <2>2
<1>6. ASSUME NEW c \in VisibleSet(d, d.selmon) PROVE Orderly(d, focusclient(d, c))
  <2>1. c \in Client /\ InView(d, c) /\ d.mon[c] # NoMon
    BY DEF VisibleSet, VISIBLEON, InView
  <2>2. c \in Listed(d.fstack)
    BY <2>1 DEF Tidy, Strays
  <2>3. Still(d, focusclient(d, c))
    BY <2>2, FocusclientStill
  <2>4. focusclient(d, c).kb \in {d.kb, c} \/ focusclient(d, c).kb = d.kb
    BY DEF focusclient, RaiseFocus, Desks
  <2>5. InView(focusclient(d, c), c)
    BY <2>1, <2>3 DEF Still, InView, VISIBLEON
  <2> QED BY <2>3, <2>4, <2>5, StillIsOrderly
<1>7. e \in focusdir(d) => Orderly(d, e)
  BY <1>6, OrderlySame DEF focusdir
<1>8. e \in moveresize(d) => Orderly(d, e)
  <2>1. xytonode(d) \ {NoWin} \subseteq d.shown /\ d.shown \subseteq WinOrNone
        /\ NoWin \notin xytonode(d) \ {NoWin}
    BY DEF xytonode, Desks, WinOrNone
  <2>2. ASSUME NEW c \in xytonode(d) \ {NoWin}
        PROVE  /\ Orderly(d, [d EXCEPT !.cursor_mode = "CurMove", !.grabc = c])
               /\ Orderly(d, [d EXCEPT !.cursor_mode = "CurTileDrag", !.grabc = c])
    <3>1. c \in ({d.grabc, NoWin} \cup d.shown \cup Mapped(d)) \cap WinOrNone /\ c # NoWin
      BY <2>1
    <3>2. "CurMove" \in CursorModes /\ "CurTileDrag" \in CursorModes
      BY DEF CursorModes
    <3> QED BY <3>1, <3>2, GrabOrderly, Zenon
  <2> SUFFICES ASSUME e \in moveresize(d), e # d PROVE Orderly(d, e)
    BY OrderlySame
  <2>3. CASE \E c \in xytonode(d) \ {NoWin} :
               \/ e = [d EXCEPT !.cursor_mode = "CurMove", !.grabc = c]
               \/ e = [d EXCEPT !.cursor_mode = "CurTileDrag", !.grabc = c]
    <3>1. PICK c \in xytonode(d) \ {NoWin} :
               \/ e = [d EXCEPT !.cursor_mode = "CurMove", !.grabc = c]
               \/ e = [d EXCEPT !.cursor_mode = "CurTileDrag", !.grabc = c]
      BY <2>3
    <3>2. /\ Orderly(d, [d EXCEPT !.cursor_mode = "CurMove", !.grabc = c])
          /\ Orderly(d, [d EXCEPT !.cursor_mode = "CurTileDrag", !.grabc = c])
      BY <2>2, Zenon
    <3> QED BY <3>1, <3>2, Zenon
  <2>4. CASE d.cursor_mode = "CurNormal" /\ \E c \in xytonode(d) : e = [d EXCEPT !.grabc = c]
    <3>1. PICK c \in xytonode(d) : e = [d EXCEPT !.grabc = c]
      BY <2>4
    <3>2. e = [d EXCEPT !.cursor_mode = "CurNormal", !.grabc = c]
      BY <2>4, <3>1 DEF Desks
    <3>3. c \in ({d.grabc, NoWin} \cup d.shown \cup Mapped(d)) \cap WinOrNone
      BY <2>1 DEF WinOrNone
    <3>4. "CurNormal" \in CursorModes
      BY DEF CursorModes
    <3>5. Orderly(d, [d EXCEPT !.cursor_mode = "CurNormal", !.grabc = c])
      BY <3>3, <3>4, GrabOrderly, Zenon
    <3> QED BY <3>2, <3>5
  <2> QED BY <2>3, <2>4, Zenon DEF moveresize
<1>9. ASSUME NEW S \in SUBSET Tag PROVE Orderly(d, tag(d, S))
  BY <1>1, SettagsOrderly DEF tag
<1>10. ASSUME NEW S \in SUBSET Tag PROVE Orderly(d, toggletag(d, S))
  <2>1. sel # NoWin => Toggle(d.tags[sel], S) \in SUBSET Tag
    BY <1>1 DEF Toggle, Desks, WinOrNone
  <2> QED BY <1>1, <2>1, SettagsOrderly, OrderlySame DEF toggletag
<1>11. ASSUME NEW n \in {-1, 1} PROVE Orderly(d, viewshift(d, n))
  <2>1. d.selmon # NoMon => d.viewed[d.selmon] \in SUBSET Tag
    BY DEF Desks, SomeMon
  <2> QED BY <2>1, ShiftedTagIsTag, ViewOrderly, OrderlySame DEF viewshift
<1>12. ASSUME NEW n \in {-1, 1} PROVE Orderly(d, tagshift(d, n))
  <2>1. sel # NoWin => d.tags[sel] \in SUBSET Tag
    BY <1>1 DEF Desks, WinOrNone
  <2> QED BY <1>9, <2>1, ShiftedTagIsTag, OrderlySame DEF tagshift
<1> QED BY <1>3, <1>4, <1>5, <1>7, <1>8, <1>9, <1>10, <1>11, <1>12, ViewOrderly,
           ToggleviewOrderly DEF Commands

-----------------------------------------------------------------------------
(***************************************************************************)
(* The handlers.  Fine(d) is what they keep of the windows, Tracks what    *)
(* they do to the keyboard.  The pointer alone can give it to a window     *)
(* that is not in view, on an output that is off.                          *)
(***************************************************************************)
Live(d) ==
    /\ d.layout \cup d.on \cup d.asleep \cup d.locksurf \subseteq Listed(d.mons)
    /\ Named(d) \subseteq Listed(d.mons) \cup {NoMon}
    /\ \A l \in Layer : d.lmon[l] \in Listed(d.mons) \cup {NoMon}
    /\ d.kb \in Monitor => d.kb \in d.locksurf

Fine(d) == Tidy(d) /\ Live(d) /\ Tagged(d) /\ Lit(d)

Tracks(d, e) ==
    Shut(d) => \/ Seen(e)
               \/ e.mon[e.kb] \notin e.on
               \/ ~Seen(d) /\ e.kb = d.kb /\ e.mon[e.kb] = d.mon[d.kb]

LEMMA OrderlyFine ==
    ASSUME NEW d, NEW e, Orderly(d, e), Fine(d), e.layout \subseteq Listed(d.mons)
    PROVE  Fine(e)
<1>1. /\ e.mons = d.mons /\ e.on = d.on /\ e.asleep = d.asleep /\ e.locksurf = d.locksurf
  BY DEF Orderly, Calm, KeptButLayout
<1>2. Live(e)
  BY <1>1 DEF Fine, Live, Orderly, Calm
<1> QED BY <1>2, OrderlyTidy DEF Fine, Orderly, Calm

LEMMA FollowsTwice ==
    ASSUME NEW d, NEW e, NEW f, Shut(d) => Shut(e), Follows(d, e), Follows(e, f)
    PROVE  Follows(d, f)
BY DEF Follows

LEMMA FollowsTracks ==
    ASSUME NEW d, NEW e, Follows(d, e)
    PROVE  Tracks(d, e)
BY DEF Follows, Tracks

LEMMA TracksThenFollows ==
    ASSUME NEW d, NEW e, NEW f, Calm(d, e), Tracks(d, e), Follows(e, f), f.on = e.on
    PROVE  Tracks(d, f)
BY ShutStays DEF Follows, Tracks

WindowsSame(d, e) ==
    /\ e.clients = d.clients /\ e.fstack = d.fstack /\ e.shown = d.shown
    /\ e.grabc = d.grabc /\ e.mon = d.mon /\ e.tags = d.tags
    /\ e.viewed = d.viewed /\ e.previous = d.previous /\ e.leaving = d.leaving

LEMMA WindowsSameFine ==
    ASSUME NEW d, NEW e, WindowsSame(d, e)
    PROVE  /\ Tidy(d) => Tidy(e)
           /\ Tagged(d) => Tagged(e)
           /\ Lit(d) /\ e.on \subseteq d.on => Lit(e)
           /\ e.kb = d.kb \/ e.kb \notin Client => Follows(d, e)
           /\ SameTags(d, e)
<1>1. Mapped(e) = Mapped(d)
  BY DEF WindowsSame, Mapped
<1>2. Strays(e) = Strays(d)
  BY <1>1 DEF WindowsSame, Strays
<1>3. Tidy(d) => Tidy(e)
  BY <1>1, <1>2 DEF WindowsSame, Tidy
<1>4. Tagged(d) => Tagged(e)
  BY DEF WindowsSame, Tagged
<1>5. Lit(d) /\ e.on \subseteq d.on => Lit(e)
  BY <1>1 DEF WindowsSame, Lit, VISIBLEON
<1>6. e.kb = d.kb \/ e.kb \notin Client => Follows(d, e)
  BY DEF WindowsSame, Follows, Seen, InView, VISIBLEON
<1> QED BY <1>3, <1>4, <1>5, <1>6 DEF WindowsSame, SameTags

LEMMA CommitInitialFine ==
    ASSUME NEW d \in Desks, NEW c \in Client, c \notin Mapped(d), NEW m \in Named(d),
           NEW newtags \in SUBSET Tag, Strays(d) = {}
    PROVE  Orderly(d, setmon(setmon(d, c, m, newtags), c, NoMon, {}))
<1> DEFINE e == setmon(d, c, m, newtags)
           f == setmon(e, c, NoMon, {})
<1>1. Calm(d, e) /\ Follows(d, e) /\ e.mon = [d.mon EXCEPT ![c] = m]
  BY SetmonCalm
<1> HIDE DEF e
<1>2. e \in Desks /\ NoMon \in Named(e)
  BY <1>1 DEF Calm, KeptButLayout, Named
<1>3. Calm(e, f) /\ Follows(e, f) /\ f.mon = [e.mon EXCEPT ![c] = NoMon]
  BY <1>2, SetmonCalm
<1> HIDE DEF f
<1>4. Calm(d, f) /\ Follows(d, f)
  BY <1>1, <1>3, CalmTwice, FollowsTwice, ShutStays
<1>5. Strays(f) \subseteq Strays(d)
  <2>1. DOMAIN d.mon = Client /\ DOMAIN e.mon = Client
    BY <1>2 DEF Desks
  <2>2. \A x \in Client : f.mon[x] = NoMon \/ f.mon[x] = d.mon[x]
    BY <1>1, <1>3, <2>1
  <2>3. Mapped(f) = Mapped(d)
    BY <1>4 DEF Calm, Mapped
  <2> QED BY <2>2, <2>3 DEF Strays
<1> QED BY <1>4, <1>5 DEF Orderly, e, f

\* mapnotify before the window is placed: it is on no output yet.
Entered(d, c) == [d EXCEPT !.clients = <<c>> \o @, !.fstack = <<c>> \o @]

LEMMA MapFine ==
    ASSUME NEW d \in Desks, NEW c \in Client, c \notin Mapped(d), Fine(d),
           NEW e, e = Entered(d, c)
    PROVE  /\ Kept(d, e) /\ Fine(e) /\ Follows(d, e) /\ c \in Mapped(e)
           /\ Named(e) = Named(d) /\ e.mons = d.mons
<1>1. /\ <<c>> \o d.clients \in Seq(Client) /\ <<c>> \o d.fstack \in Seq(Client)
      /\ d.clients \in Seq(Client) /\ d.fstack \in Seq(Client)
  BY DEF Desks
<1>2. /\ Kept(d, e) /\ e.clients = <<c>> \o d.clients /\ e.fstack = <<c>> \o d.fstack
      /\ e.shown = d.shown /\ e.grabc = d.grabc /\ e.mon = d.mon /\ e.tags = d.tags
      /\ e.viewed = d.viewed /\ e.previous = d.previous /\ e.leaving = d.leaving
      /\ e.kb = d.kb /\ e.lmon = d.lmon /\ e.selmon = d.selmon
      /\ e.mons = d.mons /\ e.on = d.on /\ e.asleep = d.asleep /\ e.locksurf = d.locksurf
      /\ e.layout = d.layout
  BY <1>1 DEF Entered, Kept, KeptButLayout, Desks
<1>3. /\ Distinct(e.clients) /\ Mapped(e) = {c} \cup Mapped(d)
      /\ Distinct(e.fstack) /\ Listed(e.fstack) = {c} \cup Mapped(d)
  BY <1>1, <1>2, PrependMembers DEF Fine, Tidy, Mapped
<1>4. d.mon[c] = NoMon /\ NoMon \notin d.on
  BY NullAssumption DEF Fine, Tidy, Strays, Desks
<1>5. Tidy(e)
  BY <1>2, <1>3 DEF Fine, Tidy, Strays
<1>6. Named(e) = Named(d)
  BY <1>2 DEF Named
<1>7. Live(e) /\ Tagged(e)
  BY <1>2, <1>6 DEF Fine, Live, Tagged
<1>8. Lit(e)
  BY <1>2, <1>3, <1>4 DEF Fine, Lit, VISIBLEON
<1>9. Follows(d, e)
  BY <1>2 DEF Follows, Seen, InView, VISIBLEON
<1> QED BY <1>2, <1>3, <1>5, <1>6, <1>7, <1>8, <1>9 DEF Fine

LEMMA ArrangeGrab ==
    ASSUME NEW d \in Desks, NEW m
    PROVE  arrange(d, m) \in Desks /\ arrange(d, m).grabc = d.grabc
<1>1. arrange(d, m).grabc = d.grabc
  BY DEF arrange, Desks
<1>2. arrange(d, m) \in Desks
  BY ArrangeKept DEF Kept, KeptButLayout
<1> QED BY <1>1, <1>2

LEMMA SetmonGrab ==
    ASSUME NEW d \in Desks, NEW c \in Client, NEW m \in SomeMon,
           NEW newtags \in SUBSET Tag, d.grabc # c
    PROVE  setmon(d, c, m, newtags).grabc = d.grabc
<1> DEFINE free    == canvas_cancel_grab(d, c)
           moved   == [free EXCEPT !.mon[c] = m, !.leaving = @ \ {c}]
           left    == arrange(moved, d.mon[c])
           tagged  == [left EXCEPT !.tags[c] = IF newtags = {} THEN d.viewed[m]
                                               ELSE newtags]
           arrived == IF m = NoMon THEN left ELSE arrange(tagged, m)
           e       == Refocus(arrived)
<1>0. free = d
  BY DEF canvas_cancel_grab
<1>1. moved \in Desks /\ moved.grabc = d.grabc /\ moved.viewed = d.viewed
  BY <1>0 DEF Desks
<1>2. setmon(d, c, m, newtags) = IF d.mon[c] = m THEN d ELSE e
  <2>1. left.viewed = d.viewed
    <3> HIDE DEF moved
    <3> QED BY <1>1 DEF arrange, Desks
  <2> HIDE DEF left
  <2> QED BY <2>1 DEF setmon, Arrived, left
<1> HIDE DEF moved
<1>3. left \in Desks /\ left.grabc = d.grabc
  BY <1>1, ArrangeGrab
<1> HIDE DEF left
<1>4. m # NoMon => tagged \in Desks /\ tagged.grabc = d.grabc
  <2> DEFINE u == IF newtags = {} THEN d.viewed[m] ELSE newtags
  <2>1. m # NoMon => u \in SUBSET Tag
    BY DEF Desks, SomeMon
  <2>2. tagged = [left EXCEPT !.tags[c] = u]
    OBVIOUS
  <2> HIDE DEF u, tagged
  <2> QED BY <1>3, <2>1, <2>2 DEF Desks
<1> HIDE DEF tagged
<1>5. arrived \in Desks /\ arrived.grabc = d.grabc
  BY <1>3, <1>4, ArrangeGrab
<1> HIDE DEF arrived
<1>6. e.grabc = arrived.grabc
  BY <1>5 DEF RefocusOn, focusclient, RaiseFocus, Desks
<1> HIDE DEF e
<1> QED BY <1>2, <1>5, <1>6

LEMMA UnmapFine ==
    ASSUME NEW d \in Desks, NEW c \in Mapped(d), Fine(d), d.grabc # c, NEW e,
           e = setmon([d EXCEPT !.clients = Without(@, c)], c, NoMon, {}),
           NEW f, f = [e EXCEPT !.fstack = Without(@, c), !.shown = @ \ {c}]
    PROVE  Fine(f) /\ Follows(d, f)
<1> DEFINE b == [d EXCEPT !.clients = Without(@, c)]
<1>0. c \in Client /\ d.clients \in Seq(Client)
  BY ListedMembers DEF Mapped, Desks
<1>1. /\ Without(d.clients, c) \in Seq(Client)
      /\ Distinct(Without(d.clients, c)) /\ Listed(Without(d.clients, c)) = Mapped(d) \ {c}
  BY <1>0, WithoutIsList, WithoutMembers DEF Fine, Tidy, Mapped
<1>2. /\ b \in Desks /\ b.clients = Without(d.clients, c) /\ b.fstack = d.fstack
      /\ b.shown = d.shown /\ b.grabc = d.grabc /\ b.mon = d.mon /\ b.tags = d.tags
      /\ b.viewed = d.viewed /\ b.previous = d.previous /\ b.leaving = d.leaving
      /\ b.kb = d.kb /\ b.lmon = d.lmon /\ b.selmon = d.selmon /\ b.layout = d.layout
      /\ b.mons = d.mons /\ b.on = d.on /\ b.asleep = d.asleep /\ b.locksurf = d.locksurf
      /\ b.locked = d.locked
  BY <1>1 DEF Desks
<1>3. e = setmon(b, c, NoMon, {})
  OBVIOUS
<1> HIDE DEF b
<1>4. Mapped(b) = Mapped(d) \ {c} /\ Named(b) = Named(d)
  BY <1>1, <1>2 DEF Mapped, Named
<1>5. Lit(b) /\ Tagged(b) /\ Follows(d, b) /\ (Shut(d) => Shut(b)) /\ Live(b)
  BY <1>2, <1>4
     DEF Fine, Lit, Tagged, VISIBLEON, Follows, Seen, InView, Shut, Live
<1>6. /\ Orderly(b, e) /\ e.layout = b.layout /\ e.selmon = b.selmon
      /\ e.mon = [b.mon EXCEPT ![c] = NoMon] /\ e.grabc = b.grabc
  <2>1. NoMon \in SomeMon /\ NoMon \in Named(b) /\ {} \in SUBSET Tag
    BY DEF SomeMon, Named
  <2> QED BY <1>0, <1>2, <1>3, <2>1, SetmonOrderly, SetmonGrab
<1>7. /\ e \in Desks /\ e.clients = b.clients /\ e.mons = b.mons /\ e.on = b.on
      /\ e.asleep = b.asleep /\ e.locksurf = b.locksurf /\ Mapped(e) = Mapped(d) \ {c}
      /\ Lit(e) /\ Tagged(e) /\ Named(e) \subseteq Named(d)
      /\ Distinct(e.fstack) /\ Listed(e.fstack) = Mapped(d)
      /\ e.shown \subseteq Mapped(d)
      /\ e.kb \in Monitor => e.kb \in {b.kb} \cup b.locksurf
      /\ \A l \in Layer : e.lmon[l] \in {b.lmon[l], NoMon}
  BY <1>2, <1>4, <1>5, <1>6 DEF Orderly, Calm, KeptButLayout, Mapped, Reordered, Fine, Tidy
<1>8. e.fstack \in Seq(Client)
  BY <1>7 DEF Desks
<1>9. Distinct(Without(e.fstack, c)) /\ Listed(Without(e.fstack, c)) = Mapped(d) \ {c}
  BY <1>7, <1>8, WithoutMembers
<1>10. /\ f.clients = e.clients /\ f.fstack = Without(e.fstack, c)
       /\ f.shown = e.shown \ {c} /\ f.grabc = e.grabc /\ f.mon = e.mon /\ f.tags = e.tags
       /\ f.viewed = e.viewed /\ f.previous = e.previous /\ f.leaving = e.leaving
       /\ f.kb = e.kb /\ f.lmon = e.lmon /\ f.selmon = e.selmon /\ f.layout = e.layout
       /\ f.mons = e.mons /\ f.on = e.on /\ f.asleep = e.asleep /\ f.locksurf = e.locksurf
       /\ f.locked = e.locked
  BY <1>7 DEF Desks
<1>11. Mapped(f) = Mapped(d) \ {c}
  BY <1>7, <1>10 DEF Mapped
<1>12. DOMAIN b.mon = Client
  BY <1>2 DEF Desks
<1>13. Strays(f) = {}
  <2>1. f.mon[c] = NoMon /\ \A x \in Client \ {c} : f.mon[x] = d.mon[x]
    BY <1>0, <1>2, <1>6, <1>10, <1>12
  <2> QED BY <1>11, <2>1 DEF Fine, Tidy, Strays
<1>14. Tidy(f)
  <2>1. Distinct(f.clients) /\ Distinct(f.fstack) /\ Listed(f.fstack) = Mapped(f)
    BY Zenon, <1>1, <1>2, <1>7, <1>9, <1>10, <1>11
  <2>2. f.shown \subseteq Mapped(f)
    BY <1>7, <1>10, <1>11
  <2>3. f.grabc \in Mapped(f) \cup {NoWin}
    BY <1>2, <1>6, <1>10, <1>11 DEF Fine, Tidy
  <2> QED BY <1>13, <2>1, <2>2, <2>3 DEF Tidy
<1>15. Tagged(f)
  BY <1>7, <1>10 DEF Tagged
<1>16. Lit(f)
  BY <1>7, <1>10, <1>11 DEF Lit, VISIBLEON
<1>17. Named(f) \subseteq Named(d)
  BY <1>7, <1>10 DEF Named
<1>18. Live(f)
  BY <1>2, <1>6, <1>7, <1>10, <1>17 DEF Fine, Live
<1>19. Follows(e, f)
  BY <1>10 DEF Follows, Seen, InView, VISIBLEON
<1>20. Follows(d, f)
  BY <1>5, <1>6, <1>19, FollowsTwice, ShutStays DEF Orderly
<1> QED BY <1>14, <1>15, <1>16, <1>18, <1>20 DEF Fine

LEMMA SlideEndOrderly ==
    ASSUME NEW d \in Desks, NEW c \in d.leaving, d.mon[c] # NoMon, Tidy(d)
    PROVE  Orderly(d, [d EXCEPT !.leaving = @ \ {c},
                         !.shown = IF VISIBLEON(d, c, d.mon[c]) THEN @ \cup {c} ELSE @ \ {c}])
<1> DEFINE shown == IF VISIBLEON(d, c, d.mon[c]) THEN d.shown \cup {c} ELSE d.shown \ {c}
           e == [d EXCEPT !.leaving = d.leaving \ {c}, !.shown = shown]
<1>1. c \in Mapped(d) /\ c \in Client
  BY DEF Tidy, Strays, Desks
<1>2. shown \in SUBSET Client /\ shown \subseteq d.shown \cup Mapped(d)
  BY <1>1 DEF Desks
<1>3. /\ Kept(d, e) /\ e.clients = d.clients /\ e.fstack = d.fstack
      /\ e.shown = shown /\ e.grabc = d.grabc /\ e.mon = d.mon /\ e.tags = d.tags
      /\ e.viewed = d.viewed /\ e.previous = d.previous /\ e.leaving = d.leaving \ {c}
      /\ e.kb = d.kb /\ e.lmon = d.lmon /\ e.selmon = d.selmon /\ e.layout = d.layout
      /\ e.mons = d.mons /\ e.on = d.on
  <2> HIDE DEF shown
  <2> QED BY <1>2 DEF Kept, KeptButLayout, Desks
<1> HIDE DEF e
<1>4. Mapped(e) = Mapped(d) /\ Named(e) = Named(d)
  BY <1>3 DEF Mapped, Named
<1>5. Strays(e) = Strays(d) /\ (Tagged(d) => Tagged(e)) /\ Follows(d, e)
  BY <1>3, <1>4 DEF Strays, Tagged, Follows, Seen, InView, VISIBLEON
<1>6. Lit(d) => Lit(e)
  <2>1. SUFFICES ASSUME Lit(d), NEW x \in Mapped(d), d.mon[x] \in d.on
                 PROVE  x \in e.shown <=> VISIBLEON(e, x, e.mon[x]) \/ x \in e.leaving
    BY <1>3, <1>4 DEF Lit
  <2>2. VISIBLEON(e, x, e.mon[x]) <=> VISIBLEON(d, x, d.mon[x])
    BY <1>3 DEF VISIBLEON
  <2>3. x \in d.shown <=> VISIBLEON(d, x, d.mon[x]) \/ x \in d.leaving
    BY <2>1 DEF Lit
  <2> QED BY <1>3, <2>2, <2>3
<1>7. Calm(d, e)
  BY <1>2, <1>3, <1>4, <1>5, <1>6 DEF Calm, Reordered, Kept
<1> QED BY <1>5, <1>7 DEF Orderly, e

-----------------------------------------------------------------------------
(***************************************************************************)
(* The inductive invariant, and the handlers one by one.  The window that  *)
(* is dropped as a tile gets the keyboard whether it is in view or not.    *)
(***************************************************************************)
WInv == IInv /\ Fine(desk)

Dropped ==
    /\ desk'.kb = desk.grabc
    /\ desk.cursor_mode = "CurTileDrag" /\ desk'.cursor_mode = "CurNormal"

LEMMA KeptShut ==
    ASSUME NEW d \in Desks, NEW e, Kept(d, e), Shut(d)
    PROVE  Shut(e)
<1>1. d.locksurf \in SUBSET Monitor
  BY DEF Desks
<1> QED BY <1>1, SurfaceAssumption DEF Kept, KeptButLayout, Shut

LEMMA WInvDesk ==
    ASSUME WInv
    PROVE  /\ desk \in Desks /\ TypeOK /\ Plugged(desk) /\ Shut(desk)
           /\ Fine(desk) /\ Tidy(desk) /\ Live(desk) /\ Tagged(desk) /\ Lit(desk)
           /\ desk.layout \subseteq Listed(desk.mons)
           /\ desk.on \subseteq Listed(desk.mons)
BY DEF WInv, IInv, TypeOK, LockHolds, Shut, Plugged, Fine, Live

LEMMA WindowEventFine ==
    ASSUME WInv, WindowEvent
    PROVE  Fine(desk') /\ Follows(desk, desk')
<1>0. /\ desk \in Desks /\ TypeOK /\ Fine(desk) /\ Tidy(desk) /\ Shut(desk)
      /\ desk.layout \subseteq Listed(desk.mons)
  BY WInvDesk
<1>1. Kept(desk, desk') /\ desk'.layout \subseteq Listed(desk.mons)
  BY <1>0, WindowEventKept DEF Kept
<1>2. PICK c \in Client : CommitInitial(c) \/ MapNotify(c) \/ UnmapNotify(c) \/ SlideEnd(c)
  BY DEF WindowEvent
<1>3. RuleMonitors(desk) \subseteq Named(desk) /\ RuleTags \subseteq SUBSET Tag
  BY RuleTagsAssumption DEF RuleMonitors, Named
<1>4. CASE CommitInitial(c)
  <2>1. PICK m \in RuleMonitors(desk), newtags \in RuleTags :
               desk' = setmon(setmon(desk, c, m, newtags), c, NoMon, {})
    BY <1>4 DEF CommitInitial, applyrules
  <2>2. c \notin Mapped(desk) /\ Strays(desk) = {}
    BY <1>0, <1>4 DEF CommitInitial, Tidy
  <2>3. Orderly(desk, desk')
    BY <1>0, <1>3, <2>1, <2>2, CommitInitialFine
  <2> QED BY <1>0, <1>1, <2>3, OrderlyFine DEF Orderly
<1>5. CASE MapNotify(c)
  <2> DEFINE e == Entered(desk, c)
  <2>1. PICK m \in Named(desk), newtags \in SUBSET Tag : desk' = setmon(e, c, m, newtags)
    <3>1. CASE \E p \in Mapped(desk) : desk' = setmon(e, c, desk.mon[p], desk.tags[p])
      <4>1. PICK p \in Mapped(desk) : desk' = setmon(e, c, desk.mon[p], desk.tags[p])
        BY <3>1
      <4>2. p \in Client
        BY <1>0, ListedMembers DEF Mapped, Desks
      <4>3. desk.mon[p] \in Named(desk) /\ desk.tags[p] \in SUBSET Tag
        BY <1>0, <4>2 DEF Named, Desks
      <4> QED BY <4>1, <4>3
    <3>2. CASE \E m \in RuleMonitors(desk), newtags \in RuleTags :
                 desk' = applyrules(e, c, m, newtags)
      BY <1>3, <3>2 DEF applyrules
    <3> QED BY <1>5, <3>1, <3>2 DEF MapNotify, Entered
  <2>2. /\ Kept(desk, e) /\ Fine(e) /\ Follows(desk, e) /\ c \in Mapped(e)
        /\ Named(e) = Named(desk) /\ e.mons = desk.mons
    <3>1. c \notin Mapped(desk)
      BY <1>5 DEF MapNotify
    <3> QED BY <1>0, <3>1, MapFine
  <2> HIDE DEF e
  <2>3. e \in Desks /\ Shut(e)
    BY <1>0, <2>2, KeptShut DEF Kept, KeptButLayout
  <2>4. Orderly(e, desk')
    BY <2>1, <2>2, <2>3, SetmonOrderly
  <2>5. Fine(desk')
    BY <1>1, <2>2, <2>4, OrderlyFine
  <2> QED BY <2>2, <2>3, <2>4, <2>5, FollowsTwice DEF Orderly
<1>6. CASE UnmapNotify(c)
  <2> DEFINE d == IF c = desk.grabc THEN Ungrabbed(desk) ELSE desk
             e == setmon([d EXCEPT !.clients = Without(@, c)], c, NoMon, {})
             f == [e EXCEPT !.fstack = Without(@, c), !.shown = @ \ {c}]
  <2>1. c \in Mapped(desk) /\ desk' = f
    BY <1>6 DEF UnmapNotify
  <2>2. Orderly(desk, Ungrabbed(desk))
    <3>1. NoWin \in ({desk.grabc, NoWin} \cup desk.shown \cup Mapped(desk)) \cap WinOrNone
      BY DEF WinOrNone
    <3>2. "CurNormal" \in CursorModes
      BY DEF CursorModes
    <3>3. Orderly(desk, [desk EXCEPT !.cursor_mode = "CurNormal", !.grabc = NoWin])
      BY <1>0, <3>1, <3>2, GrabOrderly, Zenon
    <3> QED BY <3>3 DEF Ungrabbed
  <2>3. Ungrabbed(desk).layout = desk.layout /\ Ungrabbed(desk).grabc = NoWin
    BY <1>0 DEF Ungrabbed, Desks
  <2>4. Orderly(desk, d) /\ d.layout = desk.layout /\ d.grabc # c
    BY <1>0, <2>2, <2>3, OrderlySame, NullAssumption
  <2> HIDE DEF d
  <2>5. d \in Desks /\ Mapped(d) = Mapped(desk) /\ Fine(d) /\ Shut(d)
    BY <1>0, <2>4, OrderlyFine, ShutStays DEF Orderly, Calm, KeptButLayout, Mapped
  <2>6. Fine(f) /\ Follows(d, f)
    <3>1. /\ e = setmon([d EXCEPT !.clients = Without(@, c)], c, NoMon, {})
          /\ f = [e EXCEPT !.fstack = Without(@, c), !.shown = @ \ {c}]
          /\ c \in Mapped(d)
      BY <2>1, <2>5
    <3> HIDE DEF e, f
    <3> QED BY <2>4, <2>5, <3>1, UnmapFine, Zenon
  <2> HIDE DEF f
  <2> QED BY <2>1, <2>4, <2>5, <2>6, FollowsTwice DEF Orderly
<1>7. CASE SlideEnd(c)
  <2>1. /\ c \in desk.leaving /\ desk.mon[c] # NoMon
        /\ desk' = [desk EXCEPT !.leaving = @ \ {c},
                     !.shown = IF VISIBLEON(desk, c, desk.mon[c]) THEN @ \cup {c} ELSE @ \ {c}]
    BY <1>7 DEF SlideEnd
  <2>2. Orderly(desk, desk')
    BY <1>0, <2>1, SlideEndOrderly, Zenon
  <2> QED BY <1>0, <1>1, <2>2, OrderlyFine DEF Orderly
<1> QED BY <1>2, <1>4, <1>5, <1>6, <1>7

LEMMA StillFine ==
    ASSUME NEW d, NEW e, Still(d, e), Fine(d)
    PROVE  Fine(e)
<1>1. /\ e.mons = d.mons /\ e.on = d.on /\ e.asleep = d.asleep /\ e.locksurf = d.locksurf
      /\ e.layout = d.layout /\ Mapped(e) = Mapped(d)
  BY DEF Still, Calm, KeptButLayout, Mapped
<1>2. Live(e)
  BY <1>1 DEF Fine, Live, Still, Calm
<1>3. Strays(e) = {}
  BY <1>1 DEF Still, Fine, Tidy, Strays
<1>4. Tidy(e)
  BY <1>1, <1>3 DEF Fine, Still, Calm, Tidy, Reordered
<1> QED BY <1>2, <1>4 DEF Fine, Still, Calm

LEMMA FollowsThenTracks ==
    ASSUME NEW d, NEW e, NEW f, Shut(d) => Shut(e), Follows(d, e), Tracks(e, f)
    PROVE  Tracks(d, f)
BY DEF Follows, Tracks

\* The pointer is over a window that the scene shows, so it is in view unless
\* its output is off.
LEMMA PointTracks ==
    ASSUME NEW d \in Desks, Tidy(d), Lit(d), NEW c \in xytonode(d)
    PROVE  Still(d, Point(d, c)) /\ Tracks(d, Point(d, c))
<1> DEFINE e == Point(d, c)
<1>1. c # NoWin => c \in d.shown /\ c \notin d.leaving /\ c \in Mapped(d) /\ c \in Listed(d.fstack)
  BY DEF xytonode, Tidy
<1>2. Still(d, e)
  BY <1>1, StillSame, FocusclientStill DEF Point
<1>3. e.kb \in {d.kb, c} \/ e.kb \notin Client
  BY DEF Point, focusclient, RaiseFocus, LayerHoldsKeyboard, Desks
<1> HIDE DEF e
<1>4. e.mon = d.mon /\ e.tags = d.tags /\ e.viewed = d.viewed /\ e.on = d.on
  BY <1>2 DEF Still, Calm, KeptButLayout
<1>5. Tracks(d, e)
  <2>1. CASE e.kb = d.kb
    BY <1>4, <2>1 DEF Tracks, Seen, InView, VISIBLEON
  <2>2. CASE e.kb = c /\ c # NoWin
    <3>1. d.mon[c] \in d.on => VISIBLEON(d, c, d.mon[c])
      BY <1>1, <2>2 DEF Lit
    <3>2. VISIBLEON(e, c, e.mon[c]) <=> VISIBLEON(d, c, d.mon[c])
      BY <1>4 DEF VISIBLEON
    <3>3. e.mon[e.kb] = d.mon[c] /\ (InView(e, e.kb) <=> VISIBLEON(d, c, d.mon[c]))
      BY <1>4, <2>2, <3>2 DEF InView
    <3> QED BY <1>4, <3>1, <3>3 DEF Tracks, Seen
  <2>3. CASE e.kb \notin Client
    BY <2>3 DEF Tracks, Seen
  <2> QED BY <1>3, <2>1, <2>2, <2>3, NullAssumption
<1> QED BY <1>2, <1>5 DEF e

\* The pointer selects the output it is on and what is under it gets the focus.
LEMMA SelectedPoint ==
    ASSUME WInv, NEW m \in xytomon(desk), NEW c \in xytonode(desk),
           NEW e, e = [desk EXCEPT !.selmon = m]
    PROVE  /\ Fine(e) /\ Calm(desk, e) /\ Tracks(desk, e)
           /\ Fine(Point(e, c)) /\ Calm(desk, Point(e, c)) /\ Tracks(desk, Point(e, c))
           /\ Point(e, c) \in Desks /\ Point(e, c).layout = desk.layout
           /\ Point(e, c).mons = desk.mons
<1> DEFINE f == Point(e, c)
<1>0. /\ desk \in Desks /\ Fine(desk) /\ Shut(desk)
      /\ desk.layout \subseteq Listed(desk.mons)
  BY WInvDesk
<1>1. m \in Named(desk)
  BY <1>0 DEF xytomon, Named
<1>2. Still(desk, e) /\ Orderly(desk, e)
  BY <1>0, <1>1, SelectShifted, Zenon DEF Shifted
<1>3. Fine(e) /\ Shut(e)
  BY <1>0, <1>2, StillFine, ShutStays DEF Still
<1>4. e \in Desks /\ e.shown = desk.shown /\ e.leaving = desk.leaving
  BY <1>0, <1>2 DEF Orderly, Calm, KeptButLayout, Desks
<1>5. c \in xytonode(e)
  BY <1>4 DEF xytonode
<1>6. Still(e, f) /\ Tracks(e, f)
  BY <1>3, <1>4, <1>5, PointTracks DEF Fine
<1> HIDE DEF f
<1>7. Fine(f) /\ Still(desk, f)
  BY <1>2, <1>3, <1>6, StillFine, StillTwice
<1>8. Tracks(desk, f) /\ Tracks(desk, e)
  BY <1>2, <1>3, <1>6, FollowsTracks, FollowsThenTracks DEF Orderly
<1> QED BY <1>2, <1>3, <1>7, <1>8 DEF Still, Calm, KeptButLayout, f

LEMMA ReleaseFine ==
    ASSUME WInv, ButtonRelease
    PROVE  Fine(desk') /\ (Tracks(desk, desk') \/ Dropped)
<1> DEFINE c == desk.grabc
           d == Ungrabbed(desk)
<1>0. /\ desk \in Desks /\ TypeOK /\ Fine(desk) /\ Tidy(desk) /\ Shut(desk) /\ GrabHasWindow
      /\ desk.layout \subseteq Listed(desk.mons)
  BY WInvDesk DEF WInv, IInv
<1>1. desk.cursor_mode # "CurNormal" /\ c \in Mapped(desk)
  BY <1>0 DEF ButtonRelease, Grabbing, GrabHasWindow, Tidy
<1>2. c \in Client /\ c \in WinOrNone /\ "CurNormal" \in CursorModes /\ NoWin \in WinOrNone
  BY <1>0, <1>1, ListedMembers DEF Mapped, Desks, WinOrNone, CursorModes
<1>3. CASE desk.locked
  <2> DEFINE e == [desk EXCEPT !.cursor_mode = "CurNormal", !.grabc = c]
  <2>1. desk' = [desk EXCEPT !.cursor_mode = "CurNormal"]
    BY <1>3 DEF ButtonRelease
  <2>2. desk' = e
    BY <1>0, <2>1 DEF Desks
  <2>3. Orderly(desk, e)
    <3>1. c \in ({desk.grabc, NoWin} \cup desk.shown \cup Mapped(desk)) \cap WinOrNone
      BY <1>2
    <3> HIDE DEF c
    <3> QED BY <1>0, <1>2, <3>1, GrabOrderly, Zenon
  <2>4. e.layout = desk.layout
    BY <1>0 DEF Desks
  <2> HIDE DEF e
  <2> QED BY <1>0, <2>2, <2>3, <2>4, OrderlyFine, FollowsTracks DEF Orderly
<1>4. Orderly(desk, d)
  <2>1. NoWin \in ({desk.grabc, NoWin} \cup desk.shown \cup Mapped(desk)) \cap WinOrNone
    BY <1>2
  <2>2. Orderly(desk, [desk EXCEPT !.cursor_mode = "CurNormal", !.grabc = NoWin])
    BY <1>0, <1>2, <2>1, GrabOrderly, Zenon
  <2> QED BY <2>2 DEF Ungrabbed
<1>5. d.layout = desk.layout /\ d.cursor_mode = "CurNormal"
  BY <1>0 DEF Ungrabbed, Desks
<1> HIDE DEF d
<1>6. /\ d \in Desks /\ Mapped(d) = Mapped(desk) /\ Fine(d) /\ Shut(d) /\ d.mons = desk.mons
      /\ d.on = desk.on
  BY <1>0, <1>4, <1>5, OrderlyFine, ShutStays DEF Orderly, Calm, KeptButLayout, Mapped
<1>6a. desk'.layout = desk.layout
  BY <1>0, InputEventKept DEF InputEvent, Kept
<1>7. ASSUME NEW m \in xytomon(d), desk' = setmon([d EXCEPT !.selmon = m], c, m, {})
      PROVE  Fine(desk') /\ Tracks(desk, desk')
  <2> DEFINE e == [d EXCEPT !.selmon = m]
  <2>1. m \in Named(d)
    BY <1>0, <1>5, <1>6 DEF xytomon, Named
  <2>2. Still(d, e) /\ Orderly(d, e) /\ e.selmon = m
    BY <1>6, <2>1, SelectShifted, Zenon DEF Shifted
  <2> HIDE DEF e
  <2>3. /\ e \in Desks /\ Mapped(e) = Mapped(d) /\ m \in Named(e) /\ Fine(e)
        /\ e.layout = desk.layout /\ e.mons = desk.mons
    BY <1>5, <1>6, <2>2, StillFine DEF Still, Calm, KeptButLayout, Mapped, Named
  <2>4. Orderly(e, desk')
    <3>1. desk' = setmon(e, c, m, {})
      BY <1>7 DEF e
    <3>2. c \in Mapped(e) /\ {} \in SUBSET Tag
      BY <1>1, <1>6, <2>3
    <3> HIDE DEF c
    <3>3. Orderly(e, setmon(e, c, m, {}))
      BY <1>2, <2>3, <3>2, SetmonOrderly
    <3> QED BY <3>1, <3>3
  <2>5. Fine(desk')
    BY <1>0, <1>6a, <2>3, <2>4, OrderlyFine
  <2>6. Orderly(desk, desk')
    BY <1>4, <2>2, <2>4, OrderlyTwice
  <2> QED BY <2>5, <2>6, FollowsTracks DEF Orderly
<1>8. CASE desk' = d
  BY <1>4, <1>6, <1>8, FollowsTracks DEF Orderly
<1>9. ASSUME desk' = focusclient(d, c), desk.cursor_mode = "CurTileDrag"
      PROVE  Fine(desk') /\ (Tracks(desk, desk') \/ Dropped)
  <2>1. c \in Listed(d.fstack) \cup {NoWin}
    BY <1>1, <1>6 DEF Fine, Tidy
  <2>2. Still(d, desk')
    BY <1>6, <1>9, <2>1, FocusclientStill
  <2>3. desk'.kb \in {d.kb, c} /\ desk'.cursor_mode = d.cursor_mode
    BY <1>6, <1>9 DEF focusclient, RaiseFocus, Desks
  <2>4. desk'.kb = c => Dropped
    BY <1>5, <1>9, <2>3 DEF Dropped
  <2>5. CASE desk'.kb = d.kb
    <3>1. Orderly(d, desk')
      BY <2>2, <2>5, StillIsOrderly
    <3>2. Orderly(desk, desk')
      BY <1>4, <3>1, OrderlyTwice
    <3> QED BY <1>6, <2>2, <3>2, StillFine, FollowsTracks DEF Orderly
  <2>6. Fine(desk')
    BY <1>6, <2>2, StillFine
  <2> QED BY <2>3, <2>4, <2>5, <2>6
<1>10. CASE ~desk.locked /\ desk.cursor_mode = "CurMove"
  BY <1>7, <1>10 DEF ButtonRelease, d
<1>11. CASE ~desk.locked /\ desk.cursor_mode = "CurTileDrag"
  BY <1>8, <1>9, <1>11 DEF ButtonRelease, d
<1>12. desk.cursor_mode \in {"CurNormal", "CurMove", "CurTileDrag"}
  BY <1>0 DEF Desks, CursorModes
<1> QED BY <1>1, <1>3, <1>10, <1>11, <1>12

LEMMA InputEventFine ==
    ASSUME WInv, InputEvent
    PROVE  Fine(desk') /\ (Tracks(desk, desk') \/ Dropped)
<1>0. /\ desk \in Desks /\ TypeOK /\ Fine(desk) /\ Tidy(desk) /\ Shut(desk) /\ GrabHasWindow
      /\ desk.layout \subseteq Listed(desk.mons)
  BY WInvDesk DEF WInv, IInv
<1>1. Kept(desk, desk') /\ desk'.layout \subseteq Listed(desk.mons)
  BY <1>0, InputEventKept DEF Kept
<1>2. CASE KeyPress
  <2>1. Orderly(desk, desk')
    BY <1>0, <1>2, CommandsOrderly DEF KeyPress
  <2> QED BY <1>0, <1>1, <2>1, OrderlyFine, FollowsTracks DEF Orderly
<1>3. CASE MotionNotify
  <2> DEFINE e(m) == [desk EXCEPT !.selmon = m]
  <2>1. PICK m \in xytomon(desk), c \in xytonode(desk) :
               desk' = IF Grabbing THEN e(m) ELSE Point(e(m), c)
    BY <1>3 DEF MotionNotify
  <2> DEFINE f == e(m)
  <2>2. f = [desk EXCEPT !.selmon = m] /\ desk' = IF Grabbing THEN f ELSE Point(f, c)
    BY <2>1
  <2> HIDE DEF e, f
  <2> QED BY <2>2, SelectedPoint
<1>4. CASE ButtonPress
  <2> DEFINE e(m) == [desk EXCEPT !.selmon = m]
  <2>1. PICK m \in xytomon(desk), c \in xytonode(desk) :
               IF desk.locked THEN desk' = e(m) ELSE desk' \in Commands(Point(e(m), c))
    BY <1>4 DEF ButtonPress
  <2> DEFINE f == e(m)
             g == Point(f, c)
  <2>2. /\ f = [desk EXCEPT !.selmon = m]
        /\ IF desk.locked THEN desk' = f ELSE desk' \in Commands(g)
    BY <2>1
  <2> HIDE DEF e, f
  <2>3. /\ Fine(f) /\ Tracks(desk, f)
        /\ Fine(g) /\ Calm(desk, g) /\ Tracks(desk, g)
        /\ g \in Desks /\ g.layout = desk.layout /\ g.mons = desk.mons
    BY <2>2, SelectedPoint
  <2> HIDE DEF g
  <2>4. CASE ~desk.locked
    <3>1. Orderly(g, desk')
      BY <1>0, <2>2, <2>3, <2>4, CommandsOrderly DEF Fine
    <3>2. Fine(desk') /\ desk'.on = g.on
      BY <1>1, <2>3, <3>1, OrderlyFine DEF Orderly, Calm, KeptButLayout
    <3> QED BY <2>3, <3>1, <3>2, TracksThenFollows DEF Orderly
  <2> QED BY <2>2, <2>3, <2>4
<1>5. CASE DestroyDragIcon
  <2>1. Orderly(desk, desk')
    BY <1>0, <1>5, RefocusOnSeen DEF DestroyDragIcon
  <2> QED BY <1>0, <1>1, <2>1, OrderlyFine, FollowsTracks DEF Orderly
<1> QED BY <1>2, <1>3, <1>4, <1>5, ReleaseFine DEF InputEvent

LEMMA BarRequestFine ==
    ASSUME WInv, BarRequest
    PROVE  Fine(desk') /\ Follows(desk, desk')
<1>0. /\ desk \in Desks /\ TypeOK /\ Fine(desk) /\ Tagged(desk) /\ Shut(desk)
      /\ desk.layout \subseteq Listed(desk.mons)
  BY WInvDesk
<1>1. Kept(desk, desk') /\ desk'.layout \subseteq Listed(desk.mons)
  BY <1>0, BarRequestKept DEF Kept
<1>2. PICK m \in Monitor : \/ IpcSetTags(m) \/ IpcSetClientTags(m)
                           \/ \E t \in Tag : ExtActivate(m, t) \/ ExtDeactivate(m, t)
  BY DEF BarRequest
<1>3. m \in Listed(desk.mons) /\ m \in Named(desk)
  <2>1. m \in Listed(desk.mons)
    BY <1>2, Zenon DEF IpcSetTags, IpcSetClientTags, ExtActivate, ExtDeactivate
  <2> QED BY <2>1 DEF Named
<1>4. CASE IpcSetTags(m)
  <2>1. PICK tagmask \in (SUBSET Tag) \ {{}}, toggle_tagset \in BOOLEAN :
          desk' = Redisplay([desk EXCEPT
                     !.viewed[m] = tagmask,
                     !.previous[m] = IF toggle_tagset THEN desk.viewed[m] ELSE @], m)
    BY <1>4, Zenon DEF IpcSetTags
  <2> DEFINE old == IF toggle_tagset THEN desk.viewed[m] ELSE desk.previous[m]
             e   == [desk EXCEPT !.viewed[m] = tagmask, !.previous[m] = old]
  <2>2. old \in SUBSET Tag /\ old # {} /\ tagmask \in SUBSET Tag /\ tagmask # {}
    BY <1>0 DEF Desks, Tagged
  <2>3. desk' = Redisplay(e, m)
    BY <1>0, <2>1 DEF Desks
  <2> HIDE DEF old
  <2>4. Retagged(desk, e, m)
    BY <1>0, <2>2, ReviewedRetagged, Zenon
  <2> HIDE DEF e
  <2> QED BY <1>0, <1>1, <2>3, <2>4, RetaggedOrderly, OrderlyFine DEF Orderly
<1>5. CASE IpcSetClientTags(m)
  <2>1. PICK newtags \in SUBSET Tag : desk' = settags(desk, focustop(desk, m), newtags)
    BY <1>5 DEF IpcSetClientTags
  <2>2. focustop(desk, m) \in WinOrNone
    BY <1>0, FocustopIsWindow
  <2> QED BY <1>0, <1>1, <2>1, <2>2, SettagsOrderly, OrderlyFine DEF Orderly
<1>6. ASSUME NEW t \in Tag, ExtActivate(m, t) \/ ExtDeactivate(m, t)
      PROVE  Fine(desk') /\ Follows(desk, desk')
  <2> DEFINE e == [desk EXCEPT !.selmon = m]
  <2>1. desk' = view(e, {t}) \/ desk' = toggleview(e, {t})
    BY <1>6 DEF ExtActivate, ExtDeactivate
  <2>2. Orderly(desk, e)
    BY <1>0, <1>3, SelectShifted, Zenon DEF Shifted
  <2>3. {t} \in SUBSET Tag /\ e \in Desks
    BY <2>2 DEF Orderly, Calm, KeptButLayout
  <2> HIDE DEF e
  <2>4. Orderly(e, desk')
    BY <2>1, <2>3, ViewOrderly, ToggleviewOrderly
  <2>5. Orderly(desk, desk')
    BY <2>2, <2>4, OrderlyTwice
  <2> QED BY <1>0, <1>1, <2>5, OrderlyFine DEF Orderly
<1> QED BY <1>2, <1>4, <1>5, <1>6

\* A desk on which only layer surfaces, the lock or the keyboard are different.
LEMMA QuietFine ==
    ASSUME NEW d, NEW e, Fine(d), WindowsSame(d, e),
           e.mons = d.mons, e.on = d.on, e.asleep = d.asleep, e.layout = d.layout,
           e.selmon = d.selmon, e.locksurf \subseteq Listed(d.mons),
           \A l \in Layer : e.lmon[l] \in Listed(d.mons) \cup {NoMon},
           e.kb \in Monitor => e.kb \in e.locksurf
    PROVE  Fine(e)
<1>1. Named(e) = Named(d)
  BY DEF WindowsSame, Named
<1>2. Live(e)
  BY <1>1 DEF Fine, Live
<1> QED BY <1>2, WindowsSameFine DEF Fine

\* g is d without the lock surface of m, whose keyboard goes with it or is passed on.
Uncovered(d, m, g) ==
    /\ g \in Desks /\ WindowsSame(d, g)
    /\ g.kb = d.kb \/ g.kb \notin Client
    /\ g.mons = d.mons /\ g.on = d.on /\ g.asleep = d.asleep
    /\ g.layout = d.layout /\ g.lmon = d.lmon /\ g.selmon = d.selmon
    /\ g.locked = d.locked /\ g.locksurf = d.locksurf \ {m}
    /\ (d.kb \in Monitor => d.kb \in d.locksurf)
          => (g.kb \in Monitor => g.kb \in g.locksurf)

LEMMA DestroylocksurfaceSplits ==
    ASSUME NEW d \in Desks, NEW m \in Monitor, NEW first \in d.locksurf \cup {NoWin}
    PROVE  \E g : /\ Uncovered(d, m, g)
                  /\ destroylocksurface(d, m, first) \in {g, Refocus(g)}
<1> DEFINE gone == [d EXCEPT !.locksurf = @ \ {m}]
           next == Reentered(m, first)
           with(k) == [gone EXCEPT !.kb = k]
<1>1. d.kb # m => Uncovered(d, m, gone)
  BY DEF Desks, WindowsSame, Uncovered
<1>2. ASSUME NEW k \in (d.locksurf \ {m}) \cup {NoWin, OldSurface}
      PROVE  Uncovered(d, m, with(k))
  <2>1. k \in Focusable /\ k \notin Client /\ (k \in Monitor => k \in d.locksurf \ {m})
    BY NullAssumption, SurfaceAssumption DEF Desks, Focusable
  <2>2. /\ with(k) \in Desks /\ with(k).kb = k /\ WindowsSame(d, with(k))
        /\ with(k).mons = d.mons /\ with(k).on = d.on /\ with(k).asleep = d.asleep
        /\ with(k).layout = d.layout /\ with(k).lmon = d.lmon /\ with(k).selmon = d.selmon
        /\ with(k).locked = d.locked /\ with(k).locksurf = d.locksurf \ {m}
    BY <2>1 DEF Desks, WindowsSame
  <2> HIDE DEF with
  <2> QED BY <2>1, <2>2 DEF Uncovered
<1>3. destroylocksurface(d, m, first) =
         IF d.kb # m THEN gone
         ELSE IF d.locked THEN with(next) ELSE RefocusOn(with(NoWin), d.selmon)
  BY DEF destroylocksurface
<1>4. Uncovered(d, m, with(next)) /\ Uncovered(d, m, with(NoWin))
  <2>1. next \in (d.locksurf \ {m}) \cup {NoWin, OldSurface}
    BY DEF Reentered
  <2> HIDE DEF with, gone, next
  <2> QED BY <1>2, <2>1
<1> HIDE DEF with, gone, next
<1>5. CASE d.kb # m
  BY <1>1, <1>3, <1>5
<1>6. CASE d.kb = m /\ d.locked
  BY <1>3, <1>4, <1>6
<1>7. CASE d.kb = m /\ ~d.locked
  <2>1. with(NoWin).selmon = d.selmon
    BY <1>4 DEF Uncovered
  <2> QED BY <1>3, <1>4, <1>7, <2>1
<1> QED BY <1>5, <1>6, <1>7

OutputsSame(d, e) ==
    e.mons = d.mons /\ e.layout = d.layout /\ e.on = d.on /\ e.asleep = d.asleep

LEMMA StillOutputs ==
    ASSUME NEW d, NEW e, Still(d, e)
    PROVE  OutputsSame(d, e)
BY DEF Still, Calm, KeptButLayout, OutputsSame

LEMMA ShellEventFine ==
    ASSUME WInv, ShellEvent
    PROVE  Fine(desk') /\ Follows(desk, desk') /\ OutputsSame(desk, desk')
<1>0. /\ desk \in Desks /\ TypeOK /\ Fine(desk) /\ Live(desk) /\ Shut(desk)
      /\ desk.layout \subseteq Listed(desk.mons) /\ LockHolds
  BY WInvDesk DEF WInv, IInv
<1>1. ASSUME NEW l \in Layer, CommitLayerSurface(l)
      PROVE  Fine(desk') /\ Follows(desk, desk') /\ OutputsSame(desk, desk')
  <2>1. PICK m \in IF desk.lmon[l] = NoMon THEN Listed(desk.mons) ELSE {desk.lmon[l]},
             interactive \in BOOLEAN :
          desk' = arrangelayers(
              [desk EXCEPT !.lmon[l] = m,
                           !.grabs = IF interactive THEN @ \cup {l} ELSE @ \ {l}], m)
    BY <1>1, Zenon DEF CommitLayerSurface
  <2> DEFINE e == [desk EXCEPT !.lmon[l] = m,
                     !.grabs = IF interactive THEN @ \cup {l} ELSE @ \ {l}]
  <2>2. m \in SomeMon /\ m \in Listed(desk.mons) \cup {NoMon}
    BY <1>0, ListedMembers DEF Desks, SomeMon, Live
  <2>3. /\ e \in Desks /\ WindowsSame(desk, e) /\ e.kb = desk.kb
        /\ e.mons = desk.mons /\ e.on = desk.on /\ e.asleep = desk.asleep
        /\ e.layout = desk.layout /\ e.selmon = desk.selmon /\ e.locksurf = desk.locksurf
        /\ e.locked = desk.locked
        /\ e.lmon = [desk.lmon EXCEPT ![l] = m]
    BY <1>0, <2>2 DEF WindowsSame, Desks
  <2>4. desk' = arrangelayers(e, m)
    BY <2>1
  <2> HIDE DEF e
  <2>5. \A k \in Layer : e.lmon[k] \in Listed(desk.mons) \cup {NoMon}
    BY <1>0, <2>2, <2>3 DEF Live, Desks
  <2>6. Fine(e) /\ Follows(desk, e) /\ Shut(e)
    BY <1>0, <2>3, <2>5, QuietFine, WindowsSameFine DEF Live, Shut
  <2>7. Still(e, desk') /\ Orderly(e, desk')
    BY <2>3, <2>4, ArrangelayersStill
  <2> QED BY <2>3, <2>6, <2>7, StillFine, StillOutputs, FollowsTwice DEF Orderly, OutputsSame
<1>2. ASSUME NEW l \in Layer, UnmapLayerSurface(l)
      PROVE  Fine(desk') /\ Follows(desk, desk') /\ OutputsSame(desk, desk')
  <2>1. Orderly(desk, desk') /\ Still(desk, desk')
    BY <1>0, <1>2, UnmaplayerOrderly DEF UnmapLayerSurface
  <2> QED BY <1>0, <2>1, StillFine, StillOutputs DEF Orderly
<1>3. ASSUME NEW k \in Locker, LockSession(k)
      PROVE  Fine(desk') /\ Follows(desk, desk') /\ OutputsSame(desk, desk')
  <2>1. CASE desk.curlock # NoLock
    <3>1. desk' = [desk EXCEPT !.lockbg = TRUE]
      BY <1>3, <2>1 DEF LockSession
    <3>2. /\ WindowsSame(desk, desk') /\ desk'.kb = desk.kb
          /\ desk'.mons = desk.mons /\ desk'.on = desk.on /\ desk'.asleep = desk.asleep
          /\ desk'.layout = desk.layout /\ desk'.selmon = desk.selmon
          /\ desk'.locksurf = desk.locksurf /\ desk'.lmon = desk.lmon
      BY <1>0, <3>1 DEF WindowsSame, Desks
    <3> QED BY <1>0, <3>2, QuietFine, WindowsSameFine DEF Live, OutputsSame
  <2>2. CASE desk.curlock = NoLock
    <3> DEFINE e == focusclient(desk, NoWin)
    <3>1. Still(desk, e)
      BY <1>0, FocusclientStill
    <3>2. e.kb \notin Client
      BY <1>0, NullAssumption, SurfaceAssumption
         DEF focusclient, RaiseFocus, LayerHoldsKeyboard, LockHolds, Desks
    <3>3. desk' = [e EXCEPT !.lockbg = TRUE, !.locked = TRUE, !.curlock = k]
      BY <1>3, <2>2 DEF LockSession
    <3> HIDE DEF e
    <3>4. e \in Desks /\ Fine(e)
      BY <1>0, <3>1, StillFine DEF Still, Calm, KeptButLayout
    <3>5. /\ WindowsSame(e, desk') /\ desk'.kb = e.kb
          /\ desk'.mons = e.mons /\ desk'.on = e.on /\ desk'.asleep = e.asleep
          /\ desk'.layout = e.layout /\ desk'.selmon = e.selmon
          /\ desk'.locksurf = e.locksurf /\ desk'.lmon = e.lmon
      BY <3>3, <3>4 DEF WindowsSame, Desks
    <3>6. Fine(desk')
      BY <3>4, <3>5, QuietFine DEF Fine, Live
    <3> QED BY <3>1, <3>2, <3>5, <3>6, StillOutputs DEF Follows, Seen, OutputsSame
  <2> QED BY <2>1, <2>2
<1>4. ASSUME NEW m \in Monitor, CreateLockSurface(m)
      PROVE  Fine(desk') /\ Follows(desk, desk') /\ OutputsSame(desk, desk')
  <2>1. /\ desk' = [desk EXCEPT !.locksurf = @ \cup {m}, !.kb = IF m = desk.selmon THEN m ELSE @]
        /\ m \in desk.layout
    BY <1>4 DEF CreateLockSurface
  <2>2. /\ WindowsSame(desk, desk') /\ desk'.kb \in {desk.kb, m}
        /\ desk'.mons = desk.mons /\ desk'.on = desk.on /\ desk'.asleep = desk.asleep
        /\ desk'.layout = desk.layout /\ desk'.selmon = desk.selmon
        /\ desk'.locksurf = desk.locksurf \cup {m} /\ desk'.lmon = desk.lmon
    BY <1>0, <2>1 DEF WindowsSame, Desks
  <2>3. desk'.kb = desk.kb \/ desk'.kb \notin Client
    BY <2>2, SurfaceAssumption
  <2>4. /\ desk'.locksurf \subseteq Listed(desk.mons)
        /\ \A l \in Layer : desk'.lmon[l] \in Listed(desk.mons) \cup {NoMon}
        /\ desk'.kb \in Monitor => desk'.kb \in desk'.locksurf
    BY <1>0, <2>1, <2>2 DEF Live
  <2>5. Fine(desk')
    BY <1>0, <2>2, <2>4, QuietFine
  <2> QED BY <2>2, <2>3, <2>5, WindowsSameFine DEF OutputsSame
<1>5. ASSUME NEW m \in Monitor, DestroyLockSurface(m)
      PROVE  Fine(desk') /\ Follows(desk, desk') /\ OutputsSame(desk, desk')
  <2>1. PICK first \in desk.locksurf \cup {NoWin} : desk' = destroylocksurface(desk, m, first)
    BY <1>5 DEF DestroyLockSurface, Firsts
  <2>2. PICK g : Uncovered(desk, m, g) /\ desk' \in {g, Refocus(g)}
    BY <1>0, <2>1, DestroylocksurfaceSplits
  <2>3. Fine(g) /\ Follows(desk, g) /\ Shut(g)
    BY <1>0, <2>2, QuietFine, WindowsSameFine DEF Live, Shut, Uncovered
  <2>4. Orderly(g, desk') /\ desk'.layout = g.layout
    BY <2>2, OrderlySame, RefocusOnSeen, RefocusOnStill DEF Still, Uncovered
  <2>5. Fine(desk') /\ Follows(desk, desk')
    BY <1>0, <2>2, <2>3, <2>4, OrderlyFine, FollowsTwice DEF Orderly, Uncovered
  <2>6. OutputsSame(desk, desk')
    BY <2>2, <2>4 DEF Orderly, Calm, KeptButLayout, Uncovered, OutputsSame
  <2> QED BY <2>5, <2>6
<1>6. CASE UnlockSession
  <2> DEFINE e == [desk EXCEPT !.locked = FALSE, !.lockbg = FALSE, !.curlock = NoLock,
                               !.locksurf = {}, !.kb = NoWin]
  <2>1. /\ e \in Desks /\ WindowsSame(desk, e) /\ e.kb = NoWin /\ e.locked = FALSE
        /\ e.mons = desk.mons /\ e.on = desk.on /\ e.asleep = desk.asleep
        /\ e.layout = desk.layout /\ e.selmon = desk.selmon /\ e.locksurf = {}
        /\ e.lmon = desk.lmon
    BY <1>0 DEF WindowsSame, Desks, Focusable
  <2>2. desk' = Refocus(e)
    BY <1>6 DEF UnlockSession
  <2> HIDE DEF e
  <2>3. Fine(e) /\ Follows(desk, e) /\ Shut(e)
    BY <1>0, <2>1, NullAssumption, QuietFine, WindowsSameFine DEF Live, Shut
  <2>4. Orderly(e, desk') /\ Still(e, desk')
    BY <2>1, <2>2, RefocusOnSeen, RefocusOnStill
  <2> QED BY <2>1, <2>3, <2>4, StillFine, StillOutputs, FollowsTwice DEF Orderly, OutputsSame
<1>7. CASE DestroySessionLock
  <2>1. desk' = [desk EXCEPT !.curlock = NoLock, !.locksurf = {}, !.kb = NoWin]
    BY <1>7 DEF DestroySessionLock
  <2>2. /\ WindowsSame(desk, desk') /\ desk'.kb = NoWin
        /\ desk'.mons = desk.mons /\ desk'.on = desk.on /\ desk'.asleep = desk.asleep
        /\ desk'.layout = desk.layout /\ desk'.selmon = desk.selmon
        /\ desk'.locksurf = {} /\ desk'.lmon = desk.lmon
    BY <1>0, <2>1 DEF WindowsSame, Desks
  <2> QED BY <1>0, <2>2, NullAssumption, QuietFine, WindowsSameFine DEF Live, OutputsSame
<1>8. CASE DestroyOldSurface
  <2>1. /\ WindowsSame(desk, desk') /\ desk'.kb = NoWin
        /\ desk'.mons = desk.mons /\ desk'.on = desk.on /\ desk'.asleep = desk.asleep
        /\ desk'.layout = desk.layout /\ desk'.selmon = desk.selmon
        /\ desk'.locksurf = desk.locksurf /\ desk'.lmon = desk.lmon
    BY <1>0, <1>8 DEF DestroyOldSurface, WindowsSame, Desks
  <2> QED BY <1>0, <2>1, NullAssumption, QuietFine, WindowsSameFine DEF Live, OutputsSame
<1> QED BY <1>1, <1>2, <1>3, <1>4, <1>5, <1>6, <1>7, <1>8 DEF ShellEvent

-----------------------------------------------------------------------------
(***************************************************************************)
(* The handlers of outputs.  Ready(d) holds of the desks that they pass to *)
(* updatemons, Slept of those where no sleeping output has lost a window.  *)
(***************************************************************************)
Ready(d) ==
    /\ d \in Desks /\ Tidy(d) /\ Live(d) /\ Tagged(d) /\ Shut(d)
    /\ SameTags(desk, d)
    /\ Follows(desk, d)

Slept(d) ==
    \A c \in Client : desk.mon[c] \in desk.asleep \cap d.asleep => d.mon[c] = desk.mon[c]

EvacuatedDesk(d) == \A c \in Client : d.mon[c] # NoMon => ~Disabled(d, d.mon[c])

AdoptedDesk(d) == d.selmon \in d.on => \A c \in Mapped(d) : d.mon[c] # NoMon

\* What a change of the outputs makes of the windows.
OutputStep ==
    /\ Fine(desk')
    /\ Follows(desk, desk')
    /\ SameTags(desk, desk')
    /\ Slept(desk')
    /\ desk'.on # desk.on => EvacuatedDesk(desk') /\ AdoptedDesk(desk')
    /\ \A m \in Listed(desk'.mons) \ Listed(desk.mons), c \in Client :
         desk.mon[c] \in desk.on \cup desk.asleep => desk'.mon[c] = desk.mon[c]

LEMMA ShutTwice ==
    ASSUME NEW d, NEW e, Orderly(d, e), Shut(d)
    PROVE  Shut(e)
BY ShutStays DEF Orderly

\* The outputs may change before the windows do.
LEMMA OutputsReady ==
    ASSUME NEW d, Ready(d), NEW e \in Desks, WindowsSame(d, e),
           e.kb = d.kb, e.locked = d.locked, e.locksurf = d.locksurf,
           e.selmon = d.selmon, e.lmon = d.lmon,
           Listed(d.mons) \subseteq Listed(e.mons),
           e.layout \cup e.on \cup e.asleep \subseteq Listed(e.mons)
    PROVE  Ready(e)
<1>1. Named(e) \subseteq Listed(e.mons) \cup {NoMon}
  BY DEF Ready, Live, Named, WindowsSame
<1>2. Live(e)
  BY <1>1 DEF Ready, Live
<1>3. Tidy(e) /\ Tagged(e) /\ Follows(d, e) /\ SameTags(d, e)
  BY WindowsSameFine DEF Ready
<1>4. Shut(e) /\ SameTags(desk, e)
  BY <1>3 DEF Ready, Shut, SameTags
<1>5. Follows(desk, e)
  BY <1>3, FollowsTwice DEF Ready, Shut, Follows
<1> QED BY <1>2, <1>3, <1>4, <1>5 DEF Ready

\* updatemons leaves a desk on which all is settled.
LEMMA UpdatemonsReady ==
    ASSUME NEW d, Ready(d), Shut(desk)
    PROVE  LET e == updatemons(d)
           IN  /\ Ready(e) /\ Lit(e) /\ (Slept(d) => Slept(e))
               /\ EvacuatedDesk(e) /\ AdoptedDesk(e)
               /\ e.mons = d.mons /\ e.on = d.on /\ e.asleep = d.asleep
               /\ e.locksurf = d.locksurf /\ e.locked = d.locked
               /\ \A c \in Client : d.mon[c] \in d.on \cup d.asleep => e.mon[c] = d.mon[c]
<1> DEFINE e == updatemons(d)
<1>0. d \in Desks /\ Live(d) /\ Tidy(d) /\ Tagged(d) /\ Shut(d)
  BY DEF Ready
<1>1. Settled(d, e) /\ e.layout \subseteq d.layout \cup Enabled(d)
  BY <1>0, UpdatemonsSettles, UpdatemonsKept
<1> HIDE DEF e
<1>2. /\ Orderly(d, e) /\ SameTags(d, e) /\ Lit(e)
      /\ \A c \in Client : d.mon[c] \in d.on \cup d.asleep => e.mon[c] = d.mon[c]
      /\ \A m \in Listed(d.mons) : Disabled(d, m) => Vacated(e, m)
      /\ e.selmon \in e.on => \A x \in Mapped(e) : e.mon[x] # NoMon
  BY <1>0, <1>1 DEF Settled, Shifted, Live
<1>3. /\ e \in Desks /\ e.mons = d.mons /\ e.on = d.on /\ e.asleep = d.asleep
      /\ e.locksurf = d.locksurf /\ e.locked = d.locked
  BY <1>2 DEF Orderly, Calm, KeptButLayout
<1>4. Tidy(e) /\ Tagged(e) /\ Shut(e) /\ Follows(d, e)
  BY <1>0, <1>2, OrderlyTidy, ShutTwice DEF Orderly, Calm
<1>5. Live(e)
  BY <1>0, <1>1, <1>2, <1>3 DEF Live, Enabled, Orderly, Calm
<1>6. SameTags(desk, e)
  BY <1>2 DEF Ready, SameTags
<1>7. Follows(desk, e)
  BY <1>0, <1>4, FollowsTwice DEF Ready
<1>8. Slept(d) => Slept(e)
  BY <1>2, <1>3 DEF Slept
<1>9. EvacuatedDesk(e)
  <2>1. SUFFICES ASSUME NEW c \in Client, e.mon[c] # NoMon
                 PROVE  ~Disabled(e, e.mon[c])
    BY DEF EvacuatedDesk
  <2>2. c \in Mapped(e)
    BY <1>4, <2>1 DEF Tidy, Strays
  <2>3. e.mon[c] \in Listed(d.mons)
    BY <1>3, <1>5, <2>1 DEF Live, Named
  <2> QED BY <1>2, <1>3, <2>2, <2>3 DEF Vacated, Disabled
<1>10. AdoptedDesk(e)
  BY <1>2 DEF AdoptedDesk
<1>11. Ready(e)
  BY <1>3, <1>4, <1>5, <1>6, <1>7 DEF Ready
<1> QED BY <1>2, <1>3, <1>8, <1>9, <1>10, <1>11 DEF e

LEMMA DeskReady ==
    ASSUME WInv
    PROVE  Ready(desk) /\ Slept(desk)
BY WInvDesk, OrderlySame DEF Ready, Slept, SameTags, Orderly

\* A handler that lists no new output and ends in updatemons.
LEMMA UpdatedStep ==
    ASSUME WInv, NEW d, Ready(d), Slept(d), d.mons = desk.mons, desk' = updatemons(d)
    PROVE  OutputStep
BY WInvDesk, UpdatemonsReady DEF OutputStep, Ready, Fine

LEMMA CreateMonStep ==
    ASSUME WInv, NEW m \in Monitor, CreateMon(m)
    PROVE  OutputStep
<1>0. desk \in Desks /\ Ready(desk) /\ Shut(desk) /\ Live(desk) /\ Distinct(desk.mons)
  BY WInvDesk, DeskReady DEF Plugged
<1>1. PICK ok \in Outcomes :
         desk' = updatemons([desk EXCEPT
                    !.mons = <<m>> \o @,
                    !.on = IF ok THEN @ \cup {m} ELSE @,
                    !.layout = @ \cup {m}])
  BY Zenon DEF CreateMon
<1> DEFINE on == IF ok THEN desk.on \cup {m} ELSE desk.on
           d  == [desk EXCEPT !.mons = <<m>> \o @, !.on = on, !.layout = @ \cup {m}]
<1>2. m \notin Listed(desk.mons) /\ desk.mons \in Seq(Monitor)
  BY <1>0, Zenon DEF CreateMon, Desks
<1>3. Listed(<<m>> \o desk.mons) = {m} \cup Listed(desk.mons) /\ <<m>> \o desk.mons \in Seq(Monitor)
  BY <1>0, <1>2, PrependMembers
<1>4. /\ on \in SUBSET Monitor /\ desk.on \subseteq on /\ on \subseteq desk.on \cup {m}
      /\ desk' = updatemons(d)
  BY <1>0, <1>1 DEF Desks
<1> HIDE DEF on
<1>5. /\ d \in Desks /\ WindowsSame(desk, d) /\ d.kb = desk.kb /\ d.locked = desk.locked
      /\ d.locksurf = desk.locksurf /\ d.selmon = desk.selmon /\ d.lmon = desk.lmon
      /\ d.mons = <<m>> \o desk.mons /\ d.on = on /\ d.layout = desk.layout \cup {m}
      /\ d.asleep = desk.asleep
  BY <1>0, <1>3, <1>4 DEF Desks, WindowsSame
<1> HIDE DEF d
<1>6. Ready(d)
  BY <1>0, <1>3, <1>4, <1>5, OutputsReady DEF Live
<1>7. Slept(d)
  BY <1>5 DEF Slept, WindowsSame
<1>8. /\ Ready(desk') /\ Lit(desk') /\ Slept(desk')
      /\ EvacuatedDesk(desk') /\ AdoptedDesk(desk')
      /\ \A c \in Client : d.mon[c] \in d.on \cup d.asleep => desk'.mon[c] = d.mon[c]
  BY <1>0, <1>4, <1>6, <1>7, UpdatemonsReady
<1>9. \A c \in Client : desk.mon[c] \in desk.on \cup desk.asleep => desk'.mon[c] = desk.mon[c]
  BY <1>4, <1>5, <1>8 DEF WindowsSame
<1> QED BY <1>8, <1>9 DEF OutputStep, Ready, Fine

LEMMA PowerMgrSetModeStep ==
    ASSUME WInv, NEW m \in Monitor, PowerMgrSetMode(m)
    PROVE  OutputStep
<1>0. desk \in Desks /\ Ready(desk) /\ Live(desk)
  BY WInvDesk, DeskReady
<1>1. PICK mode \in BOOLEAN, ok \in Outcomes : desk' = updatemons(SetMode(desk, m, mode, ok))
  BY DEF PowerMgrSetMode
<1> DEFINE d == SetMode(desk, m, mode, ok)
<1>2. m \in Listed(desk.mons)
  BY DEF PowerMgrSetMode
<1>3. /\ d \in Desks /\ WindowsSame(desk, d) /\ d.kb = desk.kb /\ d.locked = desk.locked
      /\ d.locksurf = desk.locksurf /\ d.selmon = desk.selmon /\ d.lmon = desk.lmon
      /\ d.mons = desk.mons /\ d.on \subseteq desk.on \cup {m}
      /\ d.asleep \subseteq desk.asleep \cup {m} /\ d.layout = desk.layout
  <2> DEFINE on == IF ~ok THEN desk.on
                   ELSE IF mode THEN desk.on \cup {m} ELSE desk.on \ {m}
             asleep == IF mode THEN desk.asleep \ {m} ELSE desk.asleep \cup {m}
  <2>1. d = [desk EXCEPT !.on = on, !.asleep = asleep]
    BY <1>0 DEF SetMode, CommitEnabled, Desks
  <2>2. /\ on \in SUBSET Monitor /\ on \subseteq desk.on \cup {m}
        /\ asleep \in SUBSET Monitor /\ asleep \subseteq desk.asleep \cup {m}
    BY <1>0 DEF Desks
  <2> HIDE DEF d, on, asleep
  <2> QED BY <1>0, <2>1, <2>2 DEF Desks, WindowsSame
<1> HIDE DEF d
<1>4. Ready(d)
  BY <1>0, <1>2, <1>3, OutputsReady DEF Live
<1>5. Slept(d)
  BY <1>3 DEF Slept, WindowsSame
<1>6. desk' = updatemons(d)
  BY <1>1 DEF d
<1> QED BY <1>3, <1>4, <1>5, <1>6, UpdatedStep

(***************************************************************************)
(* The heads of an output configuration, one by one: outputs leave asleep  *)
(* but none enters it.                                                     *)
(***************************************************************************)
HeadDone(d) ==
    /\ Ready(d) /\ Slept(d)
    /\ d.mons = desk.mons
    /\ d.asleep \subseteq desk.asleep

LEMMA ApplyHeadDone ==
    ASSUME WInv, NEW d, HeadDone(d), NEW m \in Listed(desk.mons), NEW enabled \in BOOLEAN,
           NEW ok \in BOOLEAN, NEW placed \in BOOLEAN
    PROVE  HeadDone(ApplyHead(d, m, enabled, ok, placed))
<1> DEFINE e == IF ok THEN [CommitEnabled(d, m, enabled) EXCEPT !.asleep = @ \ {m}] ELSE d
           f == [e EXCEPT !.layout = @ \cup {m}]
<1>0. d \in Desks /\ Live(d) /\ Shut(desk) /\ m \in Monitor
  BY WInvDesk, ListedMembers DEF HeadDone, Ready, Desks
<1>1. /\ e \in Desks /\ WindowsSame(d, e) /\ e.kb = d.kb /\ e.locked = d.locked
      /\ e.locksurf = d.locksurf /\ e.selmon = d.selmon /\ e.lmon = d.lmon
      /\ e.mons = d.mons /\ e.on \subseteq d.on \cup {m} /\ e.asleep \subseteq d.asleep
      /\ e.layout = d.layout
  BY Zenon, <1>0 DEF CommitEnabled, Desks, WindowsSame
<1> HIDE DEF e
<1>2. /\ f \in Desks /\ WindowsSame(e, f) /\ f.kb = e.kb /\ f.locked = e.locked
      /\ f.locksurf = e.locksurf /\ f.selmon = e.selmon /\ f.lmon = e.lmon
      /\ f.mons = e.mons /\ f.on = e.on /\ f.asleep = e.asleep
      /\ f.layout = e.layout \cup {m}
  BY <1>0, <1>1 DEF Desks, WindowsSame
<1> HIDE DEF f
<1>3. Ready(e)
  BY <1>0, <1>1, OutputsReady DEF HeadDone, Live
<1>4. Ready(f)
  BY <1>1, <1>2, <1>3, OutputsReady DEF HeadDone, Ready, Live
<1>5. Slept(e) /\ Slept(f)
  BY <1>1, <1>2 DEF HeadDone, Slept, WindowsSame
<1>6. HeadDone(e)
  BY <1>1, <1>3, <1>5 DEF HeadDone
<1>7. HeadDone(updatemons(f))
  BY <1>0, <1>1, <1>2, <1>4, <1>5, UpdatemonsReady DEF HeadDone
<1> QED BY <1>6, <1>7 DEF ApplyHead, e, f

LEMMA OutputMgrApplyStep ==
    ASSUME WInv, OutputMgrApply
    PROVE  OutputStep
<1>1. PICK heads, enabled, ok, placed, run : Configured(heads, enabled, ok, placed, run)
  BY WInvDesk, OutputMgrApplyRuns
<1> DEFINE n == Len(heads)
           S == {d \in Desks : HeadDone(d)}
<1>2. run[0] \in S
  BY <1>1, WInvDesk, DeskReady DEF Configured, HeadDone
<1>3. ASSUME NEW i \in 1..n, run[i - 1] \in S
      PROVE  run[i] \in S
  <2> DEFINE d == run[i - 1]
             e == run[i]
             m == heads[i]
  <2>1. /\ m \in Listed(desk.mons) /\ enabled[m] \in BOOLEAN /\ ok[m] \in BOOLEAN
        /\ placed[m] \in BOOLEAN
        /\ e = ApplyHead(d, m, enabled[m], ok[m], placed[m])
    BY <1>1 DEF Configured
  <2>2. HeadDone(d)
    BY <1>3
  <2> HIDE DEF d, e, m
  <2>3. HeadDone(e)
    BY <2>1, <2>2, ApplyHeadDone
  <2> QED BY <2>3 DEF HeadDone, Ready, e
<1>4. n \in Nat /\ desk' = updatemons(run[n])
  BY <1>1 DEF Configured
<1>5. run[n] \in S
  <2> HIDE DEF S, n
  <2> QED BY <1>2, <1>3, <1>4, LoopInvariant
<1> DEFINE last == run[n]
<1>6. HeadDone(last) /\ desk' = updatemons(last)
  BY <1>4, <1>5
<1> HIDE DEF last
<1> QED BY <1>6, UpdatedStep DEF HeadDone

LEMMA OnConfigReloadStep ==
    ASSUME WInv, OnConfigReload
    PROVE  OutputStep
<1>0. /\ desk \in Desks /\ Ready(desk) /\ Slept(desk) /\ Lit(desk) /\ Shut(desk)
  BY WInvDesk, DeskReady
<1>1. PICK replaced \in BOOLEAN :
        LET e == IF replaced /\ Enabled(desk) # {} THEN updatemons(desk) ELSE desk
            here == {c \in Mapped(e) : e.mon[c] \in Enabled(e)}
        IN  desk' = [e EXCEPT !.shown = (@ \ here)
                \cup {c \in here : VISIBLEON(e, c, e.mon[c]) \/ c \in e.leaving}]
  BY DEF OnConfigReload
<1> DEFINE e == IF replaced /\ Enabled(desk) # {} THEN updatemons(desk) ELSE desk
<1>2. desk' = Relit(e)
  BY <1>1 DEF Relit, Here
<1>3. Ready(e) /\ Slept(e) /\ e.mons = desk.mons /\ e.on = desk.on
  BY <1>0, UpdatemonsReady
<1> HIDE DEF e
<1>4. /\ Orderly(e, desk') /\ Still(e, desk') /\ SameTags(e, desk') /\ Lit(desk')
      /\ desk'.on = e.on /\ desk'.asleep = e.asleep /\ desk'.mons = e.mons
  BY <1>2, <1>3, RelitShifted DEF Ready, Live, Shifted, Still, Calm, KeptButLayout
<1>5. Fine(desk')
  <2>1. Live(desk') /\ Tidy(desk') /\ Tagged(desk')
    BY <1>3, <1>4, OrderlyTidy DEF Ready, Live, Orderly, Still, Calm, KeptButLayout
  <2> QED BY <1>4, <2>1 DEF Fine
<1>6. Follows(desk, desk') /\ SameTags(desk, desk')
  BY <1>0, <1>3, <1>4, FollowsTwice DEF Ready, Orderly, SameTags
<1>7. Slept(desk')
  BY <1>3, <1>4 DEF Slept, Still
<1> QED BY <1>3, <1>4, <1>5, <1>6, <1>7 DEF OutputStep

(***************************************************************************)
(* cleanupmon, step by step: when the layer surfaces of the output are     *)
(* unmapped none is on it any more; while it leaves the layout it is off   *)
(* the list but selmon and windows may still be on it (Unlisted).          *)
(***************************************************************************)
LEMMA UnmapLayersStill ==
    ASSUME NEW d \in Desks, NEW m \in Monitor
    PROVE  LET e == UnmapLayersOf(d, m)
           IN  Still(d, e) /\ Orderly(d, e) /\ \A l \in Layer : e.lmon[l] # m
<1>0. PICK run : UnmapRounds(d, m, run)
  BY UnmapLayersRuns
<1> DEFINE n == Len(Stack)
           Bare(i) == {e \in Desks : /\ Still(d, e) /\ Orderly(d, e)
                                     /\ \A j \in 1..i : e.lmon[Stack[j]] # m}
           S == [i \in 0..n |-> Bare(i)]
<1>1. /\ run[0] = d
      /\ \A i \in 1..n : run[i] = UnmapIfOn(run[i - 1], Stack[i], m)
      /\ UnmapLayersOf(d, m) = run[n]
  BY <1>0 DEF UnmapRounds
<1>2. n \in Nat /\ DOMAIN Stack = 1..n /\ \A i \in 1..n : Stack[i] \in Layer
  BY StackAssumption
<1>3. run[0] \in Bare(0)
  BY <1>1, StillSame, OrderlySame
<1>4. ASSUME NEW i \in 1..n, run[i - 1] \in Bare(i - 1)
      PROVE  run[i] \in Bare(i)
  <2> DEFINE e == run[i - 1]
             f == run[i]
             l == Stack[i]
  <2>1. f = UnmapIfOn(e, l, m) /\ l \in Layer
    BY <1>1, <1>2
  <2>2. /\ e \in Desks /\ Still(d, e) /\ Orderly(d, e)
        /\ \A j \in 1..(i - 1) : e.lmon[Stack[j]] # m
    BY <1>4
  <2>3. 1..i = 1..(i - 1) \cup {i}
    BY <1>2
  <2> HIDE DEF e, f
  <2>4. CASE e.lmon[l] # m
    BY <2>1, <2>2, <2>3, <2>4 DEF UnmapIfOn, f
  <2>5. CASE e.lmon[l] = m
    <3>1. Orderly(e, f) /\ Still(e, f) /\ f.lmon[l] = NoMon
      BY <2>1, <2>2, <2>5, UnmaplayerOrderly DEF UnmapIfOn
    <3>2. f \in Desks /\ \A k \in Layer : f.lmon[k] \in {e.lmon[k], NoMon}
      BY <3>1 DEF Still, Calm, KeptButLayout
    <3>3. \A j \in 1..(i - 1) : Stack[j] \in Layer
      BY <1>2
    <3>4. \A j \in 1..i : f.lmon[Stack[j]] # m
      BY <2>2, <2>3, <3>1, <3>2, <3>3, NullAssumption
    <3>5. Still(d, f) /\ Orderly(d, f)
      BY <2>2, <3>1, StillTwice, OrderlyTwice
    <3> QED BY <3>2, <3>4, <3>5 DEF f
  <2> QED BY <2>4, <2>5
<1>5. run[n] \in Bare(n)
  <2>1. /\ run[0] \in S[0]
        /\ \A i \in 1..n : run[i - 1] \in S[i - 1] => run[i] \in S[i]
    <3> HIDE DEF Bare, n
    <3> QED BY <1>2, <1>3, <1>4
  <2>2. run[n] \in S[n]
    <3> HIDE DEF S, n
    <3> QED BY <1>2, <2>1, LoopProgress
  <2> HIDE DEF Bare, n
  <2> QED BY <1>2, <2>2
<1>6. \A l \in Layer : \E j \in 1..n : Stack[j] = l
  BY <1>2 DEF Layer, Listed
<1> QED BY <1>1, <1>5, <1>6

Unlisted(d, m) ==
    /\ d \in Desks /\ Tidy(d) /\ Tagged(d) /\ Lit(d) /\ Shut(d)
    /\ SameTags(desk, d) /\ Follows(desk, d)
    /\ d.mons = Without(desk.mons, m) /\ d.on = desk.on /\ d.asleep = desk.asleep
    /\ d.locksurf \subseteq Listed(d.mons)
    /\ Named(d) \subseteq Listed(desk.mons) \cup {NoMon}
    /\ \A l \in Layer : d.lmon[l] \in Listed(d.mons) \cup {NoMon}
    /\ d.kb \in Monitor => d.kb \in d.locksurf
    /\ \A c \in Client : desk.mon[c] \in desk.asleep \ {m} => d.mon[c] = desk.mon[c]

LEMMA OrderlyUnlisted ==
    ASSUME NEW d, NEW m, Unlisted(d, m), NEW e, Orderly(d, e), SameTags(d, e),
           \A c \in Client : d.mon[c] \in d.asleep \ {m} => e.mon[c] = d.mon[c]
    PROVE  Unlisted(e, m)
<1>1. /\ e \in Desks /\ e.mons = d.mons /\ e.on = d.on /\ e.asleep = d.asleep
      /\ e.locksurf = d.locksurf
  BY DEF Orderly, Calm, KeptButLayout
<1>2. Tidy(e) /\ Tagged(e) /\ Lit(e) /\ Shut(e)
  BY OrderlyTidy, ShutTwice DEF Unlisted, Orderly, Calm
<1>3. SameTags(desk, e)
  BY DEF Unlisted, SameTags
<1>4. Follows(desk, e)
  BY FollowsTwice DEF Unlisted, Orderly
<1>5. /\ Named(e) \subseteq Listed(desk.mons) \cup {NoMon}
      /\ \A l \in Layer : e.lmon[l] \in Listed(e.mons) \cup {NoMon}
      /\ e.kb \in Monitor => e.kb \in e.locksurf
  BY <1>1 DEF Unlisted, Orderly, Calm
<1> QED BY <1>1, <1>2, <1>3, <1>4, <1>5 DEF Unlisted

\* The last step of cleanupmon, when nothing is on the output any more.
Forget(d, m) ==
    [d EXCEPT !.on = @ \ {m}, !.asleep = @ \ {m}, !.viewed[m] = {1}, !.previous[m] = {1}]

LEMMA ForgottenFine ==
    ASSUME WInv, NEW m \in Monitor, NEW d, Unlisted(d, m), Vacated(d, m),
           d.layout \subseteq Listed(d.mons), NEW e, e = Forget(d, m)
    PROVE  /\ Fine(e) /\ Follows(desk, e) /\ SameTags(desk, e)
           /\ e.mon = d.mon /\ e.selmon = d.selmon /\ e.mons = d.mons /\ Mapped(e) = Mapped(d)
           /\ e.on = d.on \ {m} /\ e.asleep = d.asleep \ {m}
<1>1. {1} \in SUBSET Tag /\ {1} # {}
  BY TagAssumption DEF Tag
<1>2. d \in Desks /\ Tidy(d) /\ Tagged(d) /\ Lit(d) /\ Shut(d)
  BY DEF Unlisted
<1>3. /\ e.clients = d.clients /\ e.fstack = d.fstack /\ e.shown = d.shown
      /\ e.grabc = d.grabc /\ e.kb = d.kb /\ e.mon = d.mon /\ e.tags = d.tags
      /\ e.leaving = d.leaving /\ e.lmon = d.lmon /\ e.selmon = d.selmon
      /\ e.mons = d.mons /\ e.on = d.on \ {m} /\ e.asleep = d.asleep \ {m}
      /\ e.layout = d.layout /\ e.locksurf = d.locksurf /\ e.locked = d.locked
      /\ e.viewed = [d.viewed EXCEPT ![m] = {1}]
      /\ e.previous = [d.previous EXCEPT ![m] = {1}]
  BY <1>2 DEF Desks, Forget
<1>4. Mapped(e) = Mapped(d) /\ Named(e) = Named(d) /\ Strays(e) = Strays(d)
  BY <1>3 DEF Mapped, Named, Strays
<1>5. \A c \in Client : d.mon[c] # m
  BY <1>2, NullAssumption DEF Vacated, Tidy, Strays
<1>6. \A c \in Client : InView(e, c) <=> InView(d, c)
  <2>1. SUFFICES ASSUME NEW c \in Client PROVE InView(e, c) <=> InView(d, c)
    OBVIOUS
  <2>2. CASE d.mon[c] = NoMon
    BY <1>3, <2>2 DEF InView, VISIBLEON
  <2>3. CASE d.mon[c] # NoMon
    <3>1. d.mon[c] \in Monitor /\ d.mon[c] # m /\ DOMAIN d.viewed = Monitor
      BY <1>2, <1>5, <2>3 DEF Desks, SomeMon
    <3>2. e.viewed[d.mon[c]] = d.viewed[d.mon[c]]
      BY <1>3, <3>1
    <3> QED BY <1>3, <3>2 DEF InView, VISIBLEON
  <2> QED BY <2>2, <2>3
<1>7. Lit(e)
  <2>1. \A c \in Mapped(d) : c \in Client
    BY <1>2, ListedMembers DEF Mapped, Desks
  <2> QED BY <1>2, <1>3, <1>4, <1>6, <2>1 DEF Lit, InView
<1>8. Tidy(e)
  BY <1>2, <1>3, <1>4 DEF Tidy
<1>9. Tagged(e)
  <2>1. DOMAIN d.viewed = Monitor /\ DOMAIN d.previous = Monitor
    BY <1>2 DEF Desks
  <2>2. ASSUME NEW x \in Monitor PROVE e.viewed[x] # {} /\ e.previous[x] # {}
    BY <1>1, <1>2, <1>3, <2>1 DEF Tagged
  <2> QED BY <1>2, <1>3, <2>2 DEF Tagged
<1>10. Follows(d, e)
  BY <1>3, <1>6 DEF Follows, Seen
<1>11. Follows(desk, e) /\ SameTags(desk, e)
  BY <1>2, <1>3, <1>10, FollowsTwice DEF Unlisted, SameTags
<1>12. Listed(d.mons) = Listed(desk.mons) \ {m}
  BY WInvDesk, WithoutMembers DEF Unlisted, Plugged, Desks
<1>13. Live(e)
  <2>1. e.layout \cup e.on \cup e.asleep \cup e.locksurf \subseteq Listed(e.mons)
    BY <1>3, <1>12, WInvDesk DEF Unlisted, Live
  <2>2. Named(e) \subseteq Listed(e.mons) \cup {NoMon}
    BY <1>3, <1>4, <1>5, <1>12, NullAssumption DEF Unlisted, Vacated, Named
  <2> QED BY <1>3, <2>1, <2>2 DEF Unlisted, Live
<1> QED BY <1>3, <1>4, <1>7, <1>8, <1>9, <1>11, <1>13 DEF Fine

\* Before the output leaves the layout: no layer or lock surface is on it.
LEMMA UnlistedFirst ==
    ASSUME WInv, NEW m \in Monitor, NEW first \in desk.locksurf \cup {NoWin}, NEW bare, NEW unlisted,
           bare = UnmapLayersOf(desk, m),
           unlisted = [bare EXCEPT !.mons = Without(@, m)],
           NEW unlocked,
           unlocked = IF m \in desk.locksurf THEN destroylocksurface(unlisted, m, first)
                      ELSE unlisted
    PROVE  /\ Unlisted(unlocked, m) /\ unlocked.mon = desk.mon
           /\ unlocked.layout = desk.layout
<1>0. desk \in Desks /\ Fine(desk) /\ Live(desk) /\ Shut(desk) /\ Distinct(desk.mons)
  BY WInvDesk DEF Plugged
<1>1. /\ Still(desk, bare) /\ Orderly(desk, bare)
      /\ \A l \in Layer : bare.lmon[l] # m
  BY <1>0, UnmapLayersStill
<1>2. /\ bare \in Desks /\ bare.mons = desk.mons /\ bare.on = desk.on
      /\ bare.asleep = desk.asleep /\ bare.locksurf = desk.locksurf
      /\ bare.layout = desk.layout /\ bare.mon = desk.mon /\ bare.tags = desk.tags
  BY <1>1 DEF Still, Calm, KeptButLayout
<1>3. Fine(bare) /\ Shut(bare) /\ Follows(desk, bare)
  BY <1>0, <1>1, StillFine, ShutTwice DEF Orderly
<1>4. /\ Without(desk.mons, m) \in Seq(Monitor)
      /\ Listed(Without(desk.mons, m)) = Listed(desk.mons) \ {m}
  BY <1>0, WithoutIsList, WithoutMembers DEF Desks
<1>5. /\ unlisted \in Desks /\ WindowsSame(bare, unlisted) /\ unlisted.kb = bare.kb
      /\ unlisted.mons = Without(desk.mons, m) /\ unlisted.on = desk.on
      /\ unlisted.asleep = desk.asleep /\ unlisted.layout = desk.layout
      /\ unlisted.selmon = bare.selmon /\ unlisted.locksurf = desk.locksurf
      /\ unlisted.lmon = bare.lmon /\ unlisted.locked = bare.locked
  BY Zenon, <1>2, <1>4 DEF Desks, WindowsSame
<1>5a. PICK g : Uncovered(unlisted, m, g) /\ unlocked \in {g, Refocus(g)}
  <2>1. CASE m \in desk.locksurf
    <3>1. first \in unlisted.locksurf \cup {NoWin}
      BY <1>5
    <3> QED BY <1>5, <2>1, <3>1, DestroylocksurfaceSplits
  <2>2. CASE m \notin desk.locksurf
    <3>1. unlisted.locksurf = unlisted.locksurf \ {m} /\ unlocked = unlisted
      BY <1>5, <2>2
    <3>2. WindowsSame(unlisted, unlisted)
      BY DEF WindowsSame
    <3> QED BY <1>5, <3>1, <3>2 DEF Uncovered
  <2> QED BY <2>1, <2>2
<1>6. /\ g \in Desks /\ unlocked \in {g, Refocus(g)}
      /\ WindowsSame(unlisted, g)
      /\ g.kb = unlisted.kb \/ g.kb \notin Client
      /\ g.mons = unlisted.mons /\ g.on = unlisted.on /\ g.asleep = unlisted.asleep
      /\ g.layout = unlisted.layout /\ g.lmon = unlisted.lmon /\ g.selmon = unlisted.selmon
      /\ g.locked = unlisted.locked /\ g.locksurf = unlisted.locksurf \ {m}
      /\ (unlisted.kb \in Monitor => unlisted.kb \in unlisted.locksurf)
            => (g.kb \in Monitor => g.kb \in g.locksurf)
  BY <1>5a DEF Uncovered
<1>7. WindowsSame(bare, g)
  BY <1>5, <1>6 DEF WindowsSame
<1>8. g.mon = desk.mon /\ g.layout = desk.layout
  BY <1>2, <1>5, <1>6 DEF WindowsSame
<1>9. Unlisted(g, m)
  <2>1. Tidy(g) /\ Tagged(g) /\ Lit(g) /\ Follows(bare, g) /\ SameTags(bare, g)
    BY <1>2, <1>3, <1>5, <1>6, <1>7, WindowsSameFine DEF Fine
  <2>2. Shut(g) /\ SameTags(desk, g) /\ Follows(desk, g)
    BY <1>2, <1>3, <1>5, <1>6, <2>1, FollowsTwice DEF Shut, SameTags
  <2>3. Named(g) = Named(bare) \ (Listed(bare.mons) \ Named(g))
    BY <1>2, <1>4, <1>5, <1>6, <1>7 DEF Named, WindowsSame
  <2>4. Named(g) \subseteq Listed(desk.mons) \cup {NoMon}
    BY <1>2, <1>3, <2>3 DEF Fine, Live
  <2>5. g.locksurf \subseteq Listed(g.mons)
    BY <1>0, <1>4, <1>5, <1>6 DEF Live
  <2>6. \A l \in Layer : g.lmon[l] \in Listed(g.mons) \cup {NoMon}
    BY <1>1, <1>2, <1>3, <1>4, <1>5, <1>6 DEF Fine, Live
  <2>7. g.kb \in Monitor => g.kb \in g.locksurf
    BY <1>2, <1>3, <1>5, <1>6 DEF Fine, Live
  <2> QED BY <1>5, <1>6, <1>8, <2>1, <2>2, <2>4, <2>5, <2>6, <2>7 DEF Unlisted
<1>10. Orderly(g, unlocked) /\ Still(g, unlocked)
  BY <1>6, OrderlySame, StillSame, RefocusOnSeen, RefocusOnStill
<1>11. SameTags(g, unlocked) /\ unlocked.mon = g.mon /\ unlocked.layout = g.layout
  BY <1>10 DEF Still, SameTags
<1> QED BY <1>8, <1>9, <1>10, <1>11, OrderlyUnlisted

LEMMA CleanupMonStep ==
    ASSUME WInv, NEW m \in Monitor, CleanupMon(m)
    PROVE  OutputStep
<1>0. desk \in Desks /\ TypeOK /\ Plugged(desk) /\ Live(desk) /\ Distinct(desk.mons)
  BY WInvDesk DEF Plugged
<1>1. PICK first \in desk.locksurf \cup {NoWin} : desk' = cleanupmon(desk, m, first)
  BY DEF CleanupMon
<1> DEFINE bare     == UnmapLayersOf(desk, m)
           unlisted == [bare EXCEPT !.mons = Without(@, m)]
           unlocked == IF m \in desk.locksurf THEN destroylocksurface(unlisted, m, first)
                       ELSE unlisted
           unplaced == [unlocked EXCEPT !.layout = @ \ {m}]
           removed  == IF m \in desk.layout THEN updatemons(unplaced) ELSE unlocked
           closed   == closemon(removed, m)
<1>2. desk' = Forget(closed, m)
  BY <1>1 DEF cleanupmon, Forget
<1>3. /\ Unlisted(unlocked, m) /\ unlocked.mon = desk.mon
      /\ unlocked.layout = desk.layout
  <2> HIDE DEF bare, unlisted, unlocked
  <2>1. /\ bare = UnmapLayersOf(desk, m)
        /\ unlisted = [bare EXCEPT !.mons = Without(@, m)]
        /\ unlocked = IF m \in desk.locksurf THEN destroylocksurface(unlisted, m, first)
                      ELSE unlisted
    BY DEF bare, unlisted, unlocked
  <2> QED BY <2>1, UnlistedFirst
<1> HIDE DEF unlocked
<1>4. /\ Listed(Without(desk.mons, m)) = Listed(desk.mons) \ {m}
      /\ unlocked \in Desks /\ unlocked.mons = Without(desk.mons, m)
      /\ unlocked.on = desk.on /\ unlocked.asleep = desk.asleep
  BY <1>0, <1>3, WithoutMembers DEF Unlisted, Desks
<1>5. Shifted(unlocked, unplaced) /\ unplaced.mon = unlocked.mon
  <2> DEFINE placed == unlocked.layout \ {m}
  <2>1. placed \in SUBSET Monitor /\ unplaced = [unlocked EXCEPT !.layout = placed]
    BY <1>4 DEF Desks
  <2> HIDE DEF placed, unplaced
  <2> QED BY <1>4, <2>1, RelaidShifted
<1>6. unplaced.layout = desk.layout \ {m}
  BY <1>3, <1>4 DEF Desks
<1> HIDE DEF unplaced
<1>7. /\ Unlisted(unplaced, m) /\ unplaced \in Desks
      /\ unplaced.mons = unlocked.mons /\ unplaced.on = desk.on
      /\ unplaced.asleep = desk.asleep
  BY <1>3, <1>4, <1>5, OrderlyUnlisted DEF Shifted, Unlisted
<1>8. Settled(unplaced, updatemons(unplaced))
  BY <1>7, UpdatemonsSettles
<1>9. /\ Unlisted(removed, m)
      /\ m \in desk.layout => Settled(unplaced, removed)
  <2>1. CASE m \in desk.layout
    <3>1. removed = updatemons(unplaced)
      BY <2>1
    <3> HIDE DEF removed
    <3> QED BY <1>7, <1>8, <3>1, OrderlyUnlisted DEF Settled, Shifted
  <2>2. CASE m \notin desk.layout
    BY <1>3, <2>2
  <2> QED BY <2>1, <2>2
<1> HIDE DEF removed
<1>10. removed \in Desks /\ removed.mons = unlocked.mons /\ removed.on = desk.on
       /\ removed.asleep = desk.asleep
  BY <1>4, <1>9 DEF Unlisted
<1>11. /\ Shifted(removed, closed) /\ closed.selmon = Heir(removed, m)
       /\ \A x \in Client : closed.mon[x] = IF x \in Mapped(removed) /\ removed.mon[x] = m
                                            THEN Heir(removed, m) ELSE removed.mon[x]
  BY <1>10, ClosemonShifted
<1> HIDE DEF closed
<1>12. Unlisted(closed, m) /\ closed \in Desks /\ closed.on = desk.on
       /\ closed.asleep = desk.asleep /\ closed.mons = unlocked.mons
  <2>1. \A c \in Client : removed.mon[c] \in removed.asleep \ {m} => closed.mon[c] = removed.mon[c]
    BY <1>11
  <2>2. Unlisted(closed, m)
    BY <1>9, <1>11, <2>1, OrderlyUnlisted DEF Shifted
  <2> QED BY <1>10, <2>2, <1>9 DEF Unlisted
<1>13. /\ Heir(removed, m) # m
       /\ Heir(removed, m) \in {removed.selmon, NoMon} \cup Enabled(removed)
       /\ removed.selmon # m => Heir(removed, m) = removed.selmon
  BY <1>10, HeirNotClosed DEF Heir
<1>14. Mapped(closed) = Mapped(removed) /\ \A x \in Mapped(removed) : x \in Client
  BY <1>10, <1>11, ListedMembers DEF Shifted, Orderly, Calm, Mapped, Desks
<1>15. Vacated(closed, m)
  BY <1>11, <1>13, <1>14 DEF Vacated
<1>16. closed.layout \subseteq Listed(closed.mons)
  <2>1. Plugged(desk')
    BY <1>0, CleanupMonHeld
  <2>2. desk'.mons = closed.mons /\ desk'.layout = closed.layout
    BY <1>2, <1>12 DEF Desks, Forget
  <2> QED BY <2>1, <2>2 DEF Plugged
<1>17. /\ Fine(desk') /\ Follows(desk, desk') /\ SameTags(desk, desk')
       /\ desk'.mon = closed.mon /\ desk'.selmon = closed.selmon
       /\ desk'.mons = closed.mons /\ Mapped(desk') = Mapped(closed)
       /\ desk'.on = desk.on \ {m} /\ desk'.asleep = desk.asleep \ {m}
  BY <1>2, <1>12, <1>15, <1>16, ForgottenFine
<1>18. Slept(desk')
  BY <1>12, <1>17 DEF Slept, Unlisted
<1>19. ASSUME desk'.on # desk.on
       PROVE  EvacuatedDesk(desk') /\ AdoptedDesk(desk')
  <2>1. m \in desk.on /\ m \in desk.layout
    BY <1>0, <1>17, <1>19 DEF Live, Plugged, Enabled
  <2>2. /\ \A x \in Listed(unplaced.mons) : Disabled(unplaced, x) => Vacated(removed, x)
        /\ removed.selmon \in removed.on => \A x \in Mapped(removed) : removed.mon[x] # NoMon
    BY <1>9, <2>1 DEF Settled
  <2>3. ASSUME NEW c \in Client, desk'.mon[c] # NoMon, Disabled(desk', desk'.mon[c])
        PROVE  FALSE
    <3> DEFINE x == desk'.mon[c]
    <3>1. c \in Mapped(closed) /\ x \in Listed(desk'.mons)
      BY <1>17, <2>3 DEF Fine, Tidy, Strays, Live, Named
    <3>2. x # m /\ x = closed.mon[c]
      BY <1>15, <1>17, <3>1 DEF Vacated
    <3>3. Disabled(unplaced, x) /\ x \in Listed(unplaced.mons) /\ x \notin removed.on
      BY <1>7, <1>10, <1>12, <1>17, <2>3, <3>1, <3>2 DEF Disabled
    <3>4. removed.selmon # x /\ \A y \in Mapped(removed) : removed.mon[y] # x
      BY <2>2, <3>3 DEF Vacated
    <3>5. x = Heir(removed, m)
      BY <1>11, <1>14, <3>1, <3>2, <3>4
    <3> QED BY <1>13, <2>3, <3>3, <3>4, <3>5 DEF Enabled
  <2>4. ASSUME desk'.selmon \in desk'.on, NEW c \in Mapped(desk')
        PROVE  desk'.mon[c] # NoMon
    <3>1. desk'.selmon = Heir(removed, m) /\ Heir(removed, m) \in removed.on
      BY <1>10, <1>11, <1>17, <2>4
    <3>2. removed.selmon \in removed.on
      BY <1>10, <1>13, <2>1, <3>1
    <3>3. removed.mon[c] # NoMon /\ c \in Mapped(removed) /\ c \in Client
      BY <1>14, <1>17, <2>2, <2>4, <3>2
    <3>4. Heir(removed, m) # NoMon
      BY <1>10, <3>1, NullAssumption DEF Desks
    <3> QED BY <1>11, <1>17, <3>3, <3>4
  <2> QED BY <2>3, <2>4 DEF EvacuatedDesk, AdoptedDesk
<1>20. Listed(desk'.mons) \subseteq Listed(desk.mons)
  BY <1>4, <1>12, <1>17
<1> QED BY <1>17, <1>18, <1>19, <1>20 DEF OutputStep

LEMMA OutputEventStep ==
    ASSUME WInv, OutputEvent
    PROVE  OutputStep
<1>1. CASE RequestMonState
  BY <1>1, DeskReady, UpdatedStep DEF RequestMonState
<1> QED BY <1>1, CreateMonStep, CleanupMonStep, PowerMgrSetModeStep, OutputMgrApplyStep,
           OnConfigReloadStep DEF OutputEvent


-----------------------------------------------------------------------------
(***************************************************************************)
(* The whole desktop.                                                      *)
(***************************************************************************)
\* What a step does: to the keyboard, and to the windows where it changes the outputs.
WStep ==
    /\ Tracks(desk, desk') \/ Dropped
    /\ OutputsSame(desk, desk') \/ OutputStep

LEMMA InitFine ==
    ASSUME Init
    PROVE  Fine(desk)
<1>1. Listed(<<>>) = {}
  BY DEF Listed
<1>2. Mapped(desk) = {}
  BY <1>1 DEF Init, Mapped
<1>3. Tidy(desk)
  <2>1. /\ desk.clients = <<>> /\ desk.fstack = <<>> /\ desk.shown = {} /\ desk.grabc = NoWin
        /\ \A c \in Client : desk.mon[c] = NoMon
    BY DEF Init
  <2>2. Distinct(<<>>)
    BY DEF Distinct
  <2> QED BY <1>1, <1>2, <2>1, <2>2 DEF Tidy, Strays
<1>4. Named(desk) \subseteq {NoMon}
  <2>1. desk.selmon = NoMon /\ desk.mons = <<>> /\ \A c \in Client : desk.mon[c] = NoMon
    BY DEF Init
  <2> QED BY <1>1, <2>1 DEF Named
<1>5. Live(desk)
  BY <1>1, <1>4, NullAssumption DEF Init, Live
<1>6. Tagged(desk) /\ Lit(desk)
  BY <1>2 DEF Init, Tagged, Lit
<1> QED BY <1>3, <1>5, <1>6 DEF Fine

LEMMA WindowNext ==
    ASSUME WInv, [Next]_desk
    PROVE  WInv' /\ WStep
<1>0. IInv /\ IInv'
  BY NextStep DEF WInv
<1>1. ASSUME Kept(desk, desk'), Fine(desk'), Tracks(desk, desk') \/ Dropped
      PROVE  WInv' /\ WStep
  BY <1>0, <1>1 DEF WInv, WStep, Kept, KeptButLayout, OutputsSame
<1>2. CASE OutputEvent
  BY <1>0, <1>2, OutputEventStep, FollowsTracks DEF WInv, WStep, OutputStep
<1>3. CASE WindowEvent
  BY <1>0, <1>1, <1>3, WindowEventKept, WindowEventFine, FollowsTracks DEF IInv
<1>4. CASE InputEvent
  BY <1>0, <1>1, <1>4, InputEventKept, InputEventFine DEF IInv
<1>5. CASE BarRequest
  BY <1>0, <1>1, <1>5, BarRequestKept, BarRequestFine, FollowsTracks DEF IInv
<1>6. CASE ShellEvent
  BY <1>0, <1>6, ShellEventFine, FollowsTracks DEF WInv, WStep
<1>7. CASE UNCHANGED desk
  <2>1. Orderly(desk, desk)
    BY WInvDesk, OrderlySame
  <2> QED BY <1>0, <1>1, <1>7, <2>1, KeptSame, FollowsTracks DEF Orderly, WInv, IInv, TypeOK
<1> QED BY <1>2, <1>3, <1>4, <1>5, <1>6, <1>7 DEF Next

LEMMA WindowInvariance == Spec => []WInv
<1>1. Init => WInv
  BY InitIInv, InitFine DEF WInv
<1>2. WInv /\ [Next]_desk => WInv'
  BY WindowNext
<1> QED BY <1>1, <1>2, PTL DEF Spec

LEMMA DistinctCount ==
    ASSUME NEW S, NEW s \in Seq(S), Distinct(s)
    PROVE  Len(s) = Cardinality(Listed(s))
<1> DEFINE n == Len(s)
<1>1. n \in Nat /\ s \in [1..n -> S] /\ DOMAIN s = 1..n
  OBVIOUS
<1>2. Listed(s) = {s[i] : i \in 1..n}
  BY <1>1 DEF Listed
<1> HIDE DEF n
<1>3. s \in Bijection(1..n, Listed(s))
  BY <1>1, <1>2 DEF Bijection, Injection, Surjection, IsInjective, Distinct
<1>4. Cardinality(Listed(s)) = n
  BY <1>1, <1>3, FS_CountingElements DEF ExistsBijection
<1> QED BY <1>4 DEF n


(***************************************************************************)
(* No view and no window on an output is left without a tag, by any        *)
(* sequence of views, toggles, shifts, rules, bar requests and changes of  *)
(* the outputs.                                                            *)
(***************************************************************************)
THEOREM TagsStay == Spec => []TagsNonEmpty
<1>1. WInv => TagsNonEmpty
  BY DEF WInv, Fine, Tagged, TagsNonEmpty
<1> QED BY <1>1, WindowInvariance, PTL

(***************************************************************************)
(* No window, layer surface, view, layout or keyboard refers to a Monitor  *)
(* that cleanupmon has freed.                                              *)
(***************************************************************************)
THEOREM MonitorsStayLive == Spec => []LiveMonitors
<1>1. WInv => LiveMonitors
  BY DEF WInv, Fine, Live, Named, LiveMonitors
<1> QED BY <1>1, WindowInvariance, PTL

(***************************************************************************)
(* clients and fstack hold the same windows, each once, and only those     *)
(* have a monitor, an enabled scene node or the pointer grab.              *)
(***************************************************************************)
THEOREM ListsStayInStep == Spec => []ListsAgree
<1>1. WInv => ListsAgree
  <2> SUFFICES ASSUME WInv PROVE ListsAgree
    OBVIOUS
  <2>1. desk \in Desks /\ Tidy(desk)
    BY WInvDesk
  <2>2. /\ desk.clients \in Seq(Client) /\ desk.fstack \in Seq(Client)
        /\ Listed(desk.fstack) = Mapped(desk)
    BY <2>1 DEF Desks, Tidy
  <2>3. /\ Len(desk.clients) = Cardinality(Mapped(desk))
        /\ Len(desk.fstack) = Cardinality(Mapped(desk))
    BY <2>1, <2>2, DistinctCount DEF Tidy, Mapped
  <2>4. \A c \in Client :
          desk.mon[c] # NoMon \/ c \in desk.shown \/ c = desk.grabc => c \in Mapped(desk)
    BY <2>1, NullAssumption DEF Tidy, Strays
  <2> QED BY <2>2, <2>3, <2>4 DEF ListsAgree, Mapped
<1> QED BY <1>1, WindowInvariance, PTL

(***************************************************************************)
(* On an enabled output the scene shows the windows in view and those that *)
(* still slide out, no others, after every handler.                        *)
(***************************************************************************)
THEOREM SceneShowsTheView == Spec => []ShownIsVisible
<1>1. WInv => ShownIsVisible
  BY DEF WInv, Fine, Lit, ShownIsVisible
<1> QED BY <1>1, WindowInvariance, PTL

(***************************************************************************)
(* Whenever the set of enabled outputs changes, no window is left on one   *)
(* that is off and not asleep.                                             *)
(***************************************************************************)
THEOREM WindowsLeaveClosedOutputs == Spec => Evacuated
<1>1. WInv /\ [Next]_desk =>
        [desk'.on # desk.on =>
           \A c \in Client : desk'.mon[c] # NoMon => ~Disabled(desk', desk'.mon[c])]_desk
  BY WindowNext DEF WStep, OutputStep, OutputsSame, EvacuatedDesk
<1> QED BY <1>1, WindowInvariance, PTL DEF Spec, Evacuated

(***************************************************************************)
(* Windows that lost every output come back with the first one that is     *)
(* enabled and selected.                                                   *)
(***************************************************************************)
THEOREM WindowsComeBack == Spec => Adopted
<1>1. WInv /\ [Next]_desk =>
        [desk'.on # desk.on /\ desk'.selmon \in desk'.on =>
           \A c \in Mapped(desk') : desk'.mon[c] # NoMon]_desk
  BY WindowNext DEF WStep, OutputStep, OutputsSame, AdoptedDesk
<1> QED BY <1>1, WindowInvariance, PTL DEF Spec, Adopted

(***************************************************************************)
(* A new output takes no window from one that is enabled or asleep.        *)
(***************************************************************************)
THEOREM NewOutputTakesNothing == Spec => PluggingMovesNothing
<1>1. WInv /\ [Next]_desk =>
        [\A m \in Listed(desk'.mons) \ Listed(desk.mons), c \in Client :
           desk.mon[c] \in desk.on \cup desk.asleep => desk'.mon[c] = desk.mon[c]]_desk
  BY WindowNext DEF WStep, OutputStep, OutputsSame
<1> QED BY <1>1, WindowInvariance, PTL DEF Spec, PluggingMovesNothing

(***************************************************************************)
(* A sleeping output keeps its windows through every change of the outputs *)
(* that leaves it asleep.                                                  *)
(***************************************************************************)
THEOREM SleepersKeepWindows == Spec => SleepKeepsWindows
<1>1. WInv /\ [Next]_desk =>
        [OutputsChange =>
           \A c \in Client : desk.mon[c] \in desk.asleep \cap desk'.asleep =>
               desk'.mon[c] = desk.mon[c]]_desk
  BY WindowNext DEF WStep, OutputStep, OutputsSame, OutputsChange, Slept
<1> QED BY <1>1, WindowInvariance, PTL DEF Spec, SleepKeepsWindows

(***************************************************************************)
(* A window that changes output because outputs come and go keeps its      *)
(* tags.                                                                   *)
(***************************************************************************)
THEOREM TagsSurviveOutputs == Spec => OutputsKeepTags
<1>1. WInv /\ [Next]_desk =>
        [OutputsChange =>
           \A c \in Client : desk.tags[c] # {} => desk'.tags[c] = desk.tags[c]]_desk
  BY WindowNext DEF WStep, OutputStep, OutputsSame, OutputsChange, SameTags
<1> QED BY <1>1, WindowInvariance, PTL DEF Spec, OutputsKeepTags

(***************************************************************************)
(* On an enabled output no step gives the keyboard to a window its view    *)
(* hides or hides the window that has it, but for the tile that is dropped *)
(* after it was sent to another tag.                                       *)
(***************************************************************************)
THEOREM KeyboardStaysInView == Spec => KeyboardFollowsView
<1> DEFINE A ==
      LET c       == desk'.kb
          hidden  == desk'.mon[c] \in desk'.on /\ ~VISIBLEON(desk', c, desk'.mon[c])
          already == c = desk.kb /\ ~VISIBLEON(desk, c, desk.mon[c])
          dropped == /\ c = desk.grabc /\ desk.cursor_mode = "CurTileDrag"
                     /\ desk'.cursor_mode = "CurNormal"
      IN  c \in Client /\ hidden => already \/ dropped
<1>1. WInv /\ [Next]_desk => [A]_desk
  <2> SUFFICES ASSUME WInv, [Next]_desk PROVE A
    OBVIOUS
  <2>1. Tracks(desk, desk') \/ Dropped
    BY WindowNext DEF WStep
  <2>2. Shut(desk)
    BY WInvDesk
  <2> QED BY <2>1, <2>2 DEF Tracks, Seen, InView, Dropped
<1> QED BY <1>1, WindowInvariance, PTL DEF Spec, KeyboardFollowsView

=============================================================================
