------------------------------- MODULE Board -------------------------------
(***************************************************************************)
(* What ext-workspace-v1 promises a status bar.  The compositor tells a    *)
(* bar facts, one event at a time, and the event "done" makes everything   *)
(* told so far take effect at once: a bar never acts on half a change, and *)
(* what it was told does take effect.                                      *)
(***************************************************************************)
CONSTANTS
    Peer,       \* clients of the compositor
    Object,     \* the protocol objects that facts are about
    Facts       \* facts: a kind and the set of objects that it is about

VARIABLES
    bars,       \* the peers that have bound the manager
    told,       \* what each peer was told and still holds
    seen        \* what each peer held when it last got a done event

vars == <<bars, told, seen>>

Without(F, x) == {f \in F : x \notin f[2]}

Init ==
    /\ bars = {}
    /\ told = [p \in Peer |-> {}]
    /\ seen = [p \in Peer |-> {}]

\* A peer that binds the manager is told everything, then done.
Join(p) ==
    /\ p \notin bars
    /\ bars' = bars \cup {p}
    /\ told'[p] \subseteq Facts
    /\ told' = [told EXCEPT ![p] = told'[p]]
    /\ seen' = [seen EXCEPT ![p] = told'[p]]

Leave(p) ==
    /\ p \in bars
    /\ bars' = bars \ {p}
    /\ told' = [told EXCEPT ![p] = {}]
    /\ seen' = [seen EXCEPT ![p] = {}]

\* A bar may give up an object, and everything it knows about it.
Forget(p, x) ==
    /\ told' = [told EXCEPT ![p] = Without(@, x)]
    /\ seen' = [seen EXCEPT ![p] = Without(@, x)]
    /\ UNCHANGED bars

Tell ==
    /\ \A p \in Peer : told'[p] \subseteq Facts
    /\ told' = [p \in Peer |-> IF p \in bars THEN told'[p] ELSE {}]
    /\ UNCHANGED <<bars, seen>>

Done ==
    /\ seen' = told
    /\ UNCHANGED <<bars, told>>

Next ==
    \/ \E p \in Peer : Join(p) \/ Leave(p) \/ \E x \in Object : Forget(p, x)
    \/ Tell
    \/ Done

Spec == Init /\ [][Next]_vars /\ WF_vars(Done)
=============================================================================
