-------------------------- MODULE WorkspacesProofs --------------------------
(***************************************************************************)
(* Proofs about module Workspaces, for any outputs, tags, bars and queues: *)
(* what a bar was told is what the server has, the queue of requests and   *)
(* the ids name live objects only, and the server keeps the promise of     *)
(* module Board.                                                           *)
(***************************************************************************)
EXTENDS Workspaces, TLAPS

-----------------------------------------------------------------------------
(***************************************************************************)
(* Facts: those of different kinds differ, and a fact names the objects it *)
(* is about.                                                               *)
(***************************************************************************)
LEMMA WorkspaceIsPair ==
    ASSUME NEW w \in Workspace
    PROVE  w[1] \in Output /\ w[2] \in Tag /\ w = <<w[1], w[2]>>
BY DEF Workspace

LEMMA ObjectsDiffer ==
    ASSUME NEW o \in Output, NEW q \in Output, NEW w \in Workspace
    PROVE  /\ <<o>> # w /\ o # w /\ o # <<q>>
           /\ (<<o>> = <<q>>) <=> (o = q)
<1>1. <<o>> # w
  BY WorkspaceIsPair
<1>2. o # w /\ o # <<q>>
  BY OutputAssumption
<1> QED BY <1>1, <1>2

LEMMA KindsDiffer ==
    /\ \A o, w : Group(o) # Handle(w) /\ Group(o) # Member(w)
    /\ \A o, q : Group(o) # Entered(q)
    /\ \A w, v : Handle(w) # Member(v)
    /\ \A w, o : Handle(w) # Entered(o) /\ Member(w) # Entered(o)
    /\ \A v, s : s \in States => \A o : Group(o) # InState(v, s) /\ Entered(o) # InState(v, s)
    /\ \A v, s : s \in States => \A w : Handle(w) # InState(v, s) /\ Member(w) # InState(v, s)
BY DEF Group, Handle, Member, Entered, InState, States

LEMMA FactsDiffer ==
    /\ \A o, q \in Output : (Group(o) = Group(q)) <=> (o = q)
    /\ \A o, q \in Output : (Entered(o) = Entered(q)) <=> (o = q)
    /\ \A w, v \in Workspace : (Handle(w) = Handle(v)) <=> (w = v)
    /\ \A w, v \in Workspace : (Member(w) = Member(v)) <=> (w = v)
    /\ \A w, v \in Workspace : \A s, r : (InState(w, s) = InState(v, r)) <=> (w = v /\ s = r)
<1>1. ASSUME NEW o \in Output, NEW q \in Output, Group(o) = Group(q) PROVE o = q
  <2>1. {<<o>>} = {<<q>>}
    BY <1>1 DEF Group
  <2>2. <<o>> = <<q>>
    BY <2>1
  <2> QED BY <2>2
<1>2. \A w, v \in Workspace : (Handle(w) = Handle(v)) <=> (w = v)
  BY DEF Handle
<1>3. \A w, v \in Workspace : \A s, r : (InState(w, s) = InState(v, r)) <=> (w = v /\ s = r)
  BY DEF InState
<1>4. ASSUME NEW o \in Output, NEW q \in Output, Entered(o) = Entered(q) PROVE o = q
  <2>1. {<<o>>, o} = {<<q>>, q}
    BY <1>4 DEF Entered
  <2>2. o # <<q>> /\ (<<o>> = <<q>> <=> o = q)
    BY OutputAssumption
  <2> QED BY <2>1, <2>2
<1>5. ASSUME NEW w \in Workspace, NEW v \in Workspace, Member(w) = Member(v) PROVE w = v
  <2>1. {<<w[1]>>, w} = {<<v[1]>>, v}
    BY <1>5 DEF Member
  <2>2. <<v[1]>> # w
    BY ObjectsDiffer, WorkspaceIsPair
  <2> QED BY <2>1, <2>2
<1> QED BY <1>1, <1>2, <1>3, <1>4, <1>5

LEMMA StatesOfMember ==
    ASSUME NEW W, NEW f, NEW x
    PROVE  x \in StatesOf(W, f) <=> \E w \in W : \E s \in f[w] : x = InState(w, s)
BY DEF StatesOf

-----------------------------------------------------------------------------
(***************************************************************************)
(* The inductive invariant.  Mirror says what a bar knows by what exists   *)
(* and what the bar dropped; the server works with resources, so that the  *)
(* invariant ties these to both (ResourcesInv) and what was told to them   *)
(* (Knows).                                                                *)
(***************************************************************************)
TypeInv ==
    /\ groups \subseteq Output /\ bars \subseteq Peer
    /\ state \in [Workspace -> SUBSET States]
    /\ group_res \in [Peer -> SUBSET Output]
    /\ workspace_res \in [Peer -> SUBSET Workspace]
    /\ dropped \in [Peer -> SUBSET Object]
    /\ bound \in [Peer -> SUBSET Output]
    /\ requests \in [Peer -> Seq(Request)]
    /\ told \in [Peer -> SUBSET Facts]
    /\ seen \in [Peer -> SUBSET Facts]

\* Nothing is known of a dead workspace, nor held by a peer that is no bar.
ResourcesInv ==
    /\ \A w \in Workspace \ live : state[w] = {}
    /\ globals \subseteq groups
    /\ \A p \in Peer :
         /\ dropped[p] \subseteq {<<o>> : o \in groups} \cup live
         /\ bound[p] \subseteq globals
         /\ p \in bars =>
              /\ group_res[p] = {o \in groups : <<o>> \notin dropped[p]}
              /\ workspace_res[p] = live \ dropped[p]
         /\ p \notin bars =>
              /\ group_res[p] = {} /\ workspace_res[p] = {} /\ dropped[p] = {}
              /\ told[p] = {} /\ seen[p] = {}

\* What is known through the resources in G and W, of the given states.
Knows(F, G, W, f, B) ==
    /\ \A o \in Output : Group(o) \in F <=> o \in G
    /\ \A w \in Workspace : Handle(w) \in F <=> w \in W
    /\ \A w \in Workspace : Member(w) \in F <=> (w \in W /\ w[1] \in G)
    /\ \A w \in Workspace, s \in States : InState(w, s) \in F <=> (w \in W /\ s \in f[w])
    /\ \A o \in Output : Entered(o) \in F => o \in G
    /\ \A o \in B \cap G : Entered(o) \in F

KnowsInv == \A p \in Peer : Knows(told[p], group_res[p], workspace_res[p], state, bound[p])

IInv == TypeInv /\ ResourcesInv /\ KnowsInv

LEMMA InFacts ==
    /\ \A o \in Output : Group(o) \in Facts /\ Entered(o) \in Facts
    /\ \A w \in Workspace : Handle(w) \in Facts /\ Member(w) \in Facts
    /\ \A w \in Workspace, s \in States : InState(w, s) \in Facts
BY DEF Facts, AllEntered

LEMMA OfOutput ==
    ASSUME NEW o \in Output
    PROVE  /\ WorkspacesOf(o) \subseteq Workspace
           /\ \A w \in Workspace : w \in WorkspacesOf(o) <=> w[1] = o
BY WorkspaceIsPair DEF WorkspacesOf, Workspace

LEMMA LiveIsWorkspace == live \subseteq Workspace /\ \A w \in Workspace : w \in live <=> w[1] \in groups
BY DEF live

LEMMA InitInv == Init => IInv
<1> SUFFICES ASSUME Init PROVE IInv
  OBVIOUS
<1>1. TypeInv
  BY DEF Init, TypeInv
<1>2. ResourcesInv
  BY DEF Init, ResourcesInv, live
<1>3. KnowsInv
  BY DEF Init, KnowsInv, Knows
<1> QED BY <1>1, <1>2, <1>3 DEF IInv

-----------------------------------------------------------------------------
(***************************************************************************)
(* The events of an output.  Every one of them makes sense to a bar that   *)
(* knows what it should, so that none garbles it.                          *)
(***************************************************************************)
LEMMA AnnouncedKnows ==
    ASSUME NEW o \in Output, NEW F \in SUBSET Facts, NEW G, NEW W, NEW f, NEW B \in SUBSET Output,
           Knows(F, G, W, f, B), o \notin G, o \notin B,
           \A w \in WorkspacesOf(o) : w \notin W /\ f[w] = {}
    PROVE  /\ Announced(F, o) \in SUBSET Facts
           /\ Knows(Announced(F, o), G \cup {o}, W \cup WorkspacesOf(o), f, B)
<1> DEFINE handles == {Handle(w) : w \in WorkspacesOf(o)}
           members == {Member(w) : w \in WorkspacesOf(o)}
           group   == F \cup {Group(o)}
           known   == group \cup handles
           all     == known \cup members
<1>1. Learn(F, {Group(o)}, {}) = group
  BY DEF Learn, Knows
<1>2. Learn(group, handles, {}) = known
  <2>1. handles \cap group = {}
    BY OfOutput, KindsDiffer DEF Knows
  <2> QED BY <2>1 DEF Learn
<1>3. Learn(known, members, handles \cup {Group(o)}) = all
  <2>1. members \cap known = {}
    BY OfOutput, KindsDiffer DEF Knows
  <2> QED BY <2>1 DEF Learn
<1>4. Announced(F, o) = all
  BY <1>1, <1>2, <1>3 DEF Announced
<1>5. all \in SUBSET Facts
  BY OfOutput, InFacts
<1>6. \A q \in Output : Group(q) \in all <=> q \in G \cup {o}
  BY OfOutput, KindsDiffer, FactsDiffer DEF Knows
<1>7. \A w \in Workspace : Handle(w) \in all <=> w \in W \cup WorkspacesOf(o)
  BY OfOutput, KindsDiffer, FactsDiffer DEF Knows
<1>8. \A w \in Workspace :
        Member(w) \in all <=> (w \in W \cup WorkspacesOf(o) /\ w[1] \in G \cup {o})
  BY OfOutput, KindsDiffer, FactsDiffer DEF Knows
<1>9. \A w \in Workspace, s \in States :
        InState(w, s) \in all <=> (w \in W \cup WorkspacesOf(o) /\ s \in f[w])
  BY OfOutput, KindsDiffer, FactsDiffer DEF Knows
<1>10. \A q \in Output : Entered(q) \in all <=> Entered(q) \in F
  BY OfOutput, KindsDiffer, FactsDiffer
<1> HIDE DEF all
<1> QED BY <1>4, <1>5, <1>6, <1>7, <1>8, <1>9, <1>10 DEF Knows

LEMMA RetractedKnows ==
    ASSUME NEW o \in Output, NEW p \in Peer, NEW F \in SUBSET Facts, NEW f,
           NEW B \in SUBSET Output,
           Knows(F, group_res[p], workspace_res[p], state, B),
           workspace_res[p] \subseteq Workspace, state \in [Workspace -> SUBSET States],
           \A w \in Workspace \ WorkspacesOf(o) : f[w] = state[w]
    PROVE  /\ Retracted(F, o, p) \in SUBSET Facts
           /\ Knows(Retracted(F, o, p), group_res[p] \ {o},
                    workspace_res[p] \ WorkspacesOf(o), f, B \ {o})
<1> DEFINE G       == group_res[p]
           W       == workspace_res[p] \cap WorkspacesOf(o)
           members == {Member(w) : w \in W}
           handles == {Handle(w) : w \in W} \cup StatesOf(W, state)
           left    == F \ members
           bare    == left \ handles
           all     == bare \ {Group(o), Entered(o)}
<1>1. \A w \in W : w \in Workspace /\ w[1] = o /\ state[w] \subseteq States
  BY OfOutput
<1>2. o \in G => members \subseteq F
  BY <1>1 DEF Knows
<1>3. o \notin G => members \cap F = {}
  BY <1>1 DEF Knows
<1>4. (IF o \in G THEN Unlearn(F, members, {}) ELSE F) = left
  BY <1>2, <1>3 DEF Unlearn
<1>5. handles \subseteq left
  BY <1>1, KindsDiffer, StatesOfMember DEF Knows
<1>6. Unlearn(left, handles, members) = bare
  BY <1>5 DEF Unlearn
<1>7. o \in G => Unlearn(bare, {Group(o)}, {Member(w) : w \in WorkspacesOf(o)}) = bare \ {Group(o)}
  <2> SUFFICES ASSUME o \in G PROVE Unlearn(bare, {Group(o)}, {Member(w) : w \in WorkspacesOf(o)}) = bare \ {Group(o)}
    OBVIOUS
  <2>1. Group(o) \in bare
    BY <1>1, KindsDiffer, StatesOfMember DEF Knows
  <2>2. \A w \in WorkspacesOf(o) : Member(w) \notin bare
    BY OfOutput DEF Knows
  <2> QED BY <2>1, <2>2 DEF Unlearn
<1>8. o \notin G => Group(o) \notin F /\ Entered(o) \notin F
  BY DEF Knows
<1>9. Retracted(F, o, p) = all
  BY <1>4, <1>6, <1>7, <1>8 DEF Retracted
<1>10. all \in SUBSET Facts
  OBVIOUS
<1>11. \A q \in Output : Group(q) \in all <=> q \in G \ {o}
  BY <1>1, StatesOfMember, KindsDiffer, FactsDiffer DEF Knows
<1>12. \A w \in Workspace : Handle(w) \in all <=> w \in workspace_res[p] \ WorkspacesOf(o)
  BY <1>1, StatesOfMember, KindsDiffer, FactsDiffer DEF Knows
<1>13. \A w \in Workspace :
         Member(w) \in all <=> (w \in workspace_res[p] \ WorkspacesOf(o) /\ w[1] \in G \ {o})
  <2> SUFFICES ASSUME NEW w \in Workspace
               PROVE  Member(w) \in all <=> (w \in workspace_res[p] \ WorkspacesOf(o) /\ w[1] \in G \ {o})
    OBVIOUS
  <2>1. w \in WorkspacesOf(o) <=> w[1] = o
    BY OfOutput
  <2>2. Member(w) \in F <=> (w \in workspace_res[p] /\ w[1] \in G)
    BY DEF Knows
  <2>3. Member(w) \in members <=> w \in W
    BY <1>1, FactsDiffer
  <2>4. Member(w) \notin handles /\ Member(w) # Group(o) /\ Member(w) # Entered(o)
    BY <1>1, StatesOfMember, KindsDiffer
  <2> QED BY <2>1, <2>2, <2>3, <2>4
<1>14. \A w \in Workspace, s \in States :
         InState(w, s) \in all <=> (w \in workspace_res[p] \ WorkspacesOf(o) /\ s \in f[w])
  <2> SUFFICES ASSUME NEW w \in Workspace, NEW s \in States
               PROVE  InState(w, s) \in all <=> (w \in workspace_res[p] \ WorkspacesOf(o) /\ s \in f[w])
    OBVIOUS
  <2>1. InState(w, s) \in F <=> (w \in workspace_res[p] /\ s \in state[w])
    BY DEF Knows
  <2>2. InState(w, s) \in StatesOf(W, state) <=> (w \in W /\ s \in state[w])
    BY <1>1, StatesOfMember, FactsDiffer
  <2>3. InState(w, s) \notin members /\ InState(w, s) \notin {Handle(v) : v \in W}
        /\ InState(w, s) # Group(o) /\ InState(w, s) # Entered(o)
    BY KindsDiffer
  <2> QED BY <2>1, <2>2, <2>3
<1>15. \A q \in Output : Entered(q) \in all <=> (Entered(q) \in F /\ q # o)
  BY <1>1, StatesOfMember, KindsDiffer, FactsDiffer
<1> HIDE DEF all
<1> QED BY <1>9, <1>10, <1>11, <1>12, <1>13, <1>14, <1>15 DEF Knows

LEMMA EnteredKnows ==
    ASSUME NEW o \in Output, NEW F \in SUBSET Facts, NEW G, NEW W, NEW f, NEW B \in SUBSET Output,
           Knows(F, G, W, f, B), o \in G
    PROVE  LET E == Learn(F \ {Entered(o)}, {Entered(o)}, {Group(o)})
           IN  E \in SUBSET Facts /\ Knows(E, G, W, f, B \cup {o})
<1> DEFINE E == F \cup {Entered(o)}
<1>1. Learn(F \ {Entered(o)}, {Entered(o)}, {Group(o)}) = E
  BY KindsDiffer DEF Learn, Knows
<1>2. E \in SUBSET Facts
  BY InFacts
<1>3. \A q \in Output : Entered(q) \in E <=> (Entered(q) \in F \/ q = o)
  BY FactsDiffer
<1>4. /\ \A q \in Output : Group(q) \in E <=> Group(q) \in F
      /\ \A w \in Workspace : Handle(w) \in E <=> Handle(w) \in F
      /\ \A w \in Workspace : Member(w) \in E <=> Member(w) \in F
      /\ \A w \in Workspace, s \in States : InState(w, s) \in E <=> InState(w, s) \in F
  BY KindsDiffer
<1> HIDE DEF E
<1> QED BY <1>1, <1>2, <1>3, <1>4 DEF Knows

\* The objects of each fact.
LEMMA Mentions ==
    /\ \A o \in Output : \A x : x \in Group(o)[2] <=> x = <<o>>
    /\ \A w \in Workspace : \A x : x \in Handle(w)[2] <=> x = w
    /\ \A w \in Workspace : \A x : x \in Member(w)[2] <=> (x = w \/ x = <<w[1]>>)
    /\ \A o \in Output : \A x : x \in Entered(o)[2] <=> (x = o \/ x = <<o>>)
    /\ \A w \in Workspace : \A s, x : x \in InState(w, s)[2] <=> x = w
BY DEF Group, Handle, Member, Entered, InState

LEMMA GroupDroppedKnows ==
    ASSUME NEW o \in Output, NEW F \in SUBSET Facts, NEW G, NEW W, NEW f, NEW B \in SUBSET Output,
           Knows(F, G, W, f, B)
    PROVE  Without(F, <<o>>) \in SUBSET Facts /\ Knows(Without(F, <<o>>), G \ {o}, W, f, B)
<1> DEFINE E == Without(F, <<o>>)
<1>1. E \in SUBSET Facts
  BY DEF Without
<1>2. \A q \in Output : Group(q) \in E <=> (Group(q) \in F /\ q # o)
  BY Mentions, ObjectsDiffer DEF Without
<1>3. \A q \in Output : Entered(q) \in E <=> (Entered(q) \in F /\ q # o)
  <2>1. \A q \in Output : q # <<o>> /\ (<<o>> = <<q>> <=> o = q)
    BY OutputAssumption
  <2> QED BY <2>1, Mentions DEF Without
<1>4. /\ \A w \in Workspace : Handle(w) \in E <=> Handle(w) \in F
      /\ \A w \in Workspace, s \in States : InState(w, s) \in E <=> InState(w, s) \in F
  BY Mentions, ObjectsDiffer DEF Without
<1>5. \A w \in Workspace : Member(w) \in E <=> (Member(w) \in F /\ w[1] # o)
  <2>1. \A w \in Workspace : <<o>> # w /\ (<<o>> = <<w[1]>> <=> o = w[1])
    BY ObjectsDiffer, WorkspaceIsPair
  <2> QED BY <2>1, Mentions DEF Without
<1> HIDE DEF E
<1>6. Knows(E, G \ {o}, W, f, B)
  BY <1>2, <1>3, <1>4, <1>5 DEF Knows
<1> QED BY <1>1, <1>6 DEF E

LEMMA WorkspaceDroppedKnows ==
    ASSUME NEW w \in Workspace, NEW F \in SUBSET Facts, NEW G, NEW W, NEW f, NEW B \in SUBSET Output,
           Knows(F, G, W, f, B)
    PROVE  Without(F, w) \in SUBSET Facts /\ Knows(Without(F, w), G, W \ {w}, f, B)
<1> DEFINE E == Without(F, w)
<1>1. E \in SUBSET Facts
  BY DEF Without
<1>2. \A q \in Output : w # <<q>> /\ w # q
  BY ObjectsDiffer
<1>3. /\ \A q \in Output : Group(q) \in E <=> Group(q) \in F
      /\ \A q \in Output : Entered(q) \in E <=> Entered(q) \in F
  BY <1>2, Mentions DEF Without
<1>4. \A v \in Workspace : w # <<v[1]>>
  BY <1>2, WorkspaceIsPair
<1>5. /\ \A v \in Workspace : Handle(v) \in E <=> (Handle(v) \in F /\ v # w)
      /\ \A v \in Workspace : Member(v) \in E <=> (Member(v) \in F /\ v # w)
      /\ \A v \in Workspace, s \in States : InState(v, s) \in E <=> (InState(v, s) \in F /\ v # w)
  BY <1>4, Mentions DEF Without
<1> HIDE DEF E
<1>6. Knows(E, G, W \ {w}, f, B)
  BY <1>3, <1>5 DEF Knows
<1> QED BY <1>1, <1>6 DEF E

\* What a bar is told when it binds the manager.
LEMMA SnapshotKnows ==
    ASSUME TypeInv, NEW p \in Peer
    PROVE  Snapshot(p) \in SUBSET Facts /\ Knows(Snapshot(p), groups, live, state, bound[p])
<1> DEFINE F == Snapshot(p)
<1>1. groups \subseteq Output /\ live \subseteq Workspace /\ \A w \in live : w[1] \in groups
  BY DEF TypeInv, live
<1>2. \A w \in live : state[w] \subseteq States
  BY <1>1 DEF TypeInv
<1>3. F \in SUBSET Facts
  BY <1>1, <1>2, InFacts, StatesOfMember DEF Snapshot
<1>4. \A q \in Output : Group(q) \in F <=> q \in groups
  BY <1>1, <1>2, KindsDiffer, FactsDiffer, StatesOfMember DEF Snapshot
<1>5. \A q \in Output : Entered(q) \in F <=> q \in groups \cap bound[p]
  BY <1>1, <1>2, KindsDiffer, FactsDiffer, StatesOfMember DEF Snapshot
<1>6. \A w \in Workspace : Handle(w) \in F <=> w \in live
  BY <1>1, <1>2, KindsDiffer, FactsDiffer, StatesOfMember DEF Snapshot
<1>7. \A w \in Workspace : Member(w) \in F <=> w \in live
  BY <1>1, <1>2, KindsDiffer, FactsDiffer, StatesOfMember DEF Snapshot
<1>8. \A w \in Workspace, s \in States : InState(w, s) \in F <=> (w \in live /\ s \in state[w])
  BY <1>1, <1>2, KindsDiffer, FactsDiffer, StatesOfMember DEF Snapshot
<1> HIDE DEF F
<1>9. Knows(F, groups, live, state, bound[p])
  BY <1>1, <1>4, <1>5, <1>6, <1>7, <1>8 DEF Knows
<1> QED BY <1>3, <1>9 DEF F

\* A new status replaces the states that a bar knows.
LEMMA StatusKnows ==
    ASSUME NEW F \in SUBSET Facts, NEW G, NEW W \in SUBSET Workspace, NEW B \in SUBSET Output,
           NEW f \in [Workspace -> SUBSET States], NEW g \in [Workspace -> SUBSET States],
           Knows(F, G, W, f, B)
    PROVE  LET E == (F \ StatesOf(W, f)) \cup StatesOf(W, g)
           IN  E \in SUBSET Facts /\ Knows(E, G, W, g, B)
<1> DEFINE E == (F \ StatesOf(W, f)) \cup StatesOf(W, g)
<1>1. E \in SUBSET Facts
  BY InFacts, StatesOfMember
<1>2. /\ \A q \in Output : Group(q) \in E <=> Group(q) \in F
      /\ \A q \in Output : Entered(q) \in E <=> Entered(q) \in F
      /\ \A w \in Workspace : Handle(w) \in E <=> Handle(w) \in F
      /\ \A w \in Workspace : Member(w) \in E <=> Member(w) \in F
  BY KindsDiffer, StatesOfMember
<1>3. \A w \in Workspace, s \in States : InState(w, s) \in E <=> (w \in W /\ s \in g[w])
  <2> SUFFICES ASSUME NEW w \in Workspace, NEW s \in States
               PROVE  InState(w, s) \in E <=> (w \in W /\ s \in g[w])
    OBVIOUS
  <2>1. InState(w, s) \in StatesOf(W, f) <=> (w \in W /\ s \in f[w])
    BY StatesOfMember, FactsDiffer
  <2>2. InState(w, s) \in StatesOf(W, g) <=> (w \in W /\ s \in g[w])
    BY StatesOfMember, FactsDiffer
  <2> QED BY <2>1, <2>2 DEF Knows
<1> HIDE DEF E
<1>4. Knows(E, G, W, g, B)
  BY <1>2, <1>3 DEF Knows
<1> QED BY <1>1, <1>4 DEF E

-----------------------------------------------------------------------------
(***************************************************************************)
(* The queue of requests.                                                  *)
(***************************************************************************)
LEMMA ClearedQueue ==
    ASSUME NEW queue \in Seq(Request), NEW o
    PROVE  /\ Cleared(queue, o) \in Seq(Request) /\ DOMAIN Cleared(queue, o) = DOMAIN queue
           /\ \A i \in DOMAIN queue :
                /\ Cleared(queue, o)[i].workspace \in ({queue[i].workspace} \ WorkspacesOf(o)) \cup {None}
                /\ Cleared(queue, o)[i].group \in ({queue[i].group} \ {o}) \cup {None}
<1> DEFINE r(i) == [queue[i] EXCEPT !.workspace = IF @ \in WorkspacesOf(o) THEN None ELSE @,
                                    !.group = IF @ = o THEN None ELSE @]
           c    == [i \in DOMAIN queue |-> r(i)]
<1>1. \A i \in DOMAIN queue :
        /\ r(i) \in Request
        /\ r(i).workspace \in ({queue[i].workspace} \ WorkspacesOf(o)) \cup {None}
        /\ r(i).group \in ({queue[i].group} \ {o}) \cup {None}
  <2> SUFFICES ASSUME NEW i \in DOMAIN queue
               PROVE  /\ r(i) \in Request
                      /\ r(i).workspace \in ({queue[i].workspace} \ WorkspacesOf(o)) \cup {None}
                      /\ r(i).group \in ({queue[i].group} \ {o}) \cup {None}
    OBVIOUS
  <2>1. queue[i] \in Request
    OBVIOUS
  <2> QED BY <2>1 DEF Request
<1>2. DOMAIN queue = 1..Len(queue) /\ Len(queue) \in Nat
  OBVIOUS
<1>3. Cleared(queue, o) = c
  BY DEF Cleared
<1> HIDE DEF r
<1>4. c \in Seq(Request)
  BY <1>1, <1>2
<1> QED BY <1>1, <1>3, <1>4

-----------------------------------------------------------------------------
(***************************************************************************)
(* The steps.                                                              *)
(***************************************************************************)
LEMMA CreateMonStep ==
    ASSUME IInv, NEW o \in Output, CreateMon(o)
    PROVE  IInv'
<1> USE DEF IInv
<1>1. /\ live' = live \cup WorkspacesOf(o) /\ WorkspacesOf(o) \subseteq Workspace
      /\ \A w \in WorkspacesOf(o) : w \notin live /\ state[w] = {}
  BY OfOutput, LiveIsWorkspace DEF CreateMon, ResourcesInv, live
<1>2. \A p \in Peer : /\ o \notin group_res[p] /\ o \notin bound[p] /\ <<o>> \notin dropped[p]
                      /\ \A w \in WorkspacesOf(o) : w \notin workspace_res[p] /\ w \notin dropped[p]
  <2>1. <<o>> \notin {<<q>> : q \in groups} \cup live
    BY ObjectsDiffer, LiveIsWorkspace DEF CreateMon, TypeInv
  <2>2. \A w \in WorkspacesOf(o) : w \notin {<<q>> : q \in groups} \cup live
    BY <1>1, ObjectsDiffer DEF TypeInv
  <2> QED BY <1>1, <2>1, <2>2 DEF CreateMon, ResourcesInv
<1>3. \A p \in Peer : /\ Announced(told[p], o) \in SUBSET Facts
                      /\ Knows(Announced(told[p], o), group_res[p] \cup {o},
                               workspace_res[p] \cup WorkspacesOf(o), state, bound[p])
  BY <1>1, <1>2, AnnouncedKnows DEF TypeInv, KnowsInv
<1>4. TypeInv'
  BY <1>1, <1>3 DEF CreateMon, TypeInv
<1>5. ResourcesInv'
  <2>1. \A w \in Workspace \ live' : state'[w] = {}
    BY <1>1 DEF CreateMon, ResourcesInv
  <2> SUFFICES ASSUME NEW p \in Peer
               PROVE  /\ dropped'[p] \subseteq {<<q>> : q \in groups'} \cup live'
                      /\ bound'[p] \subseteq globals'
                      /\ p \in bars' =>
                           /\ group_res'[p] = {q \in groups' : <<q>> \notin dropped'[p]}
                           /\ workspace_res'[p] = live' \ dropped'[p]
                      /\ p \notin bars' =>
                           /\ group_res'[p] = {} /\ workspace_res'[p] = {} /\ dropped'[p] = {}
                           /\ told'[p] = {} /\ seen'[p] = {}
    BY <2>1 DEF CreateMon, ResourcesInv
  <2>2. /\ group_res'[p] = group_res[p] \cup (IF p \in bars THEN {o} ELSE {})
        /\ workspace_res'[p] = workspace_res[p] \cup (IF p \in bars THEN WorkspacesOf(o) ELSE {})
        /\ told'[p] = IF p \in bars THEN Announced(told[p], o) ELSE told[p]
        /\ groups' = groups \cup {o} /\ globals' = globals \cup {o}
        /\ UNCHANGED <<bars, dropped, bound, seen>>
    BY DEF CreateMon
  <2>3. dropped'[p] \subseteq {<<q>> : q \in groups'} \cup live' /\ bound'[p] \subseteq globals'
    BY <1>1, <2>2 DEF ResourcesInv
  <2>4. p \in bars => group_res'[p] = {q \in groups' : <<q>> \notin dropped'[p]}
    BY <1>2, <2>2 DEF ResourcesInv
  <2>5. p \in bars => workspace_res'[p] = live' \ dropped'[p]
    BY <1>1, <1>2, <2>2 DEF ResourcesInv
  <2> QED BY <2>2, <2>3, <2>4, <2>5 DEF ResourcesInv
<1>6. KnowsInv'
  BY <1>3 DEF CreateMon, KnowsInv
<1> QED BY <1>4, <1>5, <1>6

LEMMA CleanupMonStep ==
    ASSUME IInv, NEW o \in Output, CleanupMon(o)
    PROVE  IInv'
<1> USE DEF IInv
<1>1. /\ live' = live \ WorkspacesOf(o) /\ WorkspacesOf(o) \subseteq Workspace
      /\ \A w \in Workspace : w[1] = o <=> w \in WorkspacesOf(o)
  BY OfOutput, LiveIsWorkspace DEF CleanupMon, live
<1>2. state' \in [Workspace -> SUBSET States]
      /\ \A w \in Workspace : state'[w] = IF w \in WorkspacesOf(o) THEN {} ELSE state[w]
  BY <1>1 DEF CleanupMon, TypeInv
<1>3. \A p \in Peer : /\ Retracted(told[p], o, p) \in SUBSET Facts
                      /\ Knows(Retracted(told[p], o, p), group_res[p] \ {o},
                               workspace_res[p] \ WorkspacesOf(o), state', bound[p] \ {o})
  BY <1>2, RetractedKnows DEF TypeInv, KnowsInv
<1>4. \A p \in Peer : p \notin bars => Retracted(told[p], o, p) = {}
  <2> SUFFICES ASSUME NEW p \in Peer, p \notin bars PROVE Retracted(told[p], o, p) = {}
    OBVIOUS
  <2>1. told[p] = {} /\ group_res[p] = {} /\ workspace_res[p] = {}
    BY DEF ResourcesInv
  <2> QED BY <2>1 DEF Retracted, Unlearn, StatesOf
<1>5. TypeInv'
  BY <1>2, <1>3, ClearedQueue DEF CleanupMon, TypeInv
<1>6. ResourcesInv'
  <2>1. \A w \in Workspace \ live' : state'[w] = {}
    BY <1>1, <1>2 DEF ResourcesInv
  <2>2. \A w \in WorkspacesOf(o), q \in Output : <<q>> # w /\ (<<q>> = <<o>> <=> q = o)
    BY <1>1, ObjectsDiffer
  <2> SUFFICES ASSUME NEW p \in Peer
               PROVE  /\ dropped'[p] \subseteq {<<q>> : q \in groups'} \cup live'
                      /\ bound'[p] \subseteq globals'
                      /\ p \in bars' =>
                           /\ group_res'[p] = {q \in groups' : <<q>> \notin dropped'[p]}
                           /\ workspace_res'[p] = live' \ dropped'[p]
                      /\ p \notin bars' =>
                           /\ group_res'[p] = {} /\ workspace_res'[p] = {} /\ dropped'[p] = {}
                           /\ told'[p] = {} /\ seen'[p] = {}
    BY <2>1 DEF CleanupMon, ResourcesInv
  <2>3. /\ dropped'[p] = dropped[p] \ ({<<o>>} \cup WorkspacesOf(o))
        /\ group_res'[p] = group_res[p] \ {o} /\ workspace_res'[p] = workspace_res[p] \ WorkspacesOf(o)
        /\ bound'[p] = bound[p] \ {o} /\ globals' = globals \ {o} /\ groups' = groups \ {o}
        /\ bars' = bars /\ told'[p] = Retracted(told[p], o, p) /\ seen' = seen
    BY DEF CleanupMon
  <2>4. dropped'[p] \subseteq {<<q>> : q \in groups'} \cup live' /\ bound'[p] \subseteq globals'
    BY <1>1, <2>3 DEF ResourcesInv
  <2>5. p \in bars => group_res'[p] = {q \in groups' : <<q>> \notin dropped'[p]}
    BY <2>2, <2>3 DEF ResourcesInv, TypeInv
  <2>6. p \in bars => workspace_res'[p] = live' \ dropped'[p]
    BY <1>1, <2>3, ObjectsDiffer, LiveIsWorkspace DEF ResourcesInv
  <2> QED BY <1>4, <2>3, <2>4, <2>5, <2>6 DEF ResourcesInv
<1>7. KnowsInv'
  BY <1>3 DEF CleanupMon, KnowsInv
<1> QED BY <1>5, <1>6, <1>7

\* Of less bound outputs no more is asked.
LEMMA LessBound ==
    ASSUME NEW F, NEW G, NEW W, NEW f, NEW B, NEW C, Knows(F, G, W, f, B), C \subseteq B
    PROVE  Knows(F, G, W, f, C)
BY DEF Knows

LEMMA DisableStep ==
    ASSUME IInv, NEW o \in Output, Disable(o)
    PROVE  IInv'
<1> USE DEF IInv
<1>1. TypeInv'
  BY DEF Disable, TypeInv
<1>2. ResourcesInv'
  BY DEF Disable, ResourcesInv, TypeInv, live
<1>3. KnowsInv'
  <2>1. \A p \in Peer : Knows(told[p], group_res[p], workspace_res[p], state, bound[p] \ {o})
    BY LessBound DEF KnowsInv
  <2> QED BY <2>1 DEF Disable, KnowsInv
<1> QED BY <1>1, <1>2, <1>3

LEMMA BindOutputStep ==
    ASSUME IInv, NEW p \in Peer, NEW o \in Output, BindOutput(p, o)
    PROVE  IInv'
<1> USE DEF IInv
<1> DEFINE E == Learn(told[p] \ {Entered(o)}, {Entered(o)}, {Group(o)})
<1>1. o \in group_res[p] =>
        E \in SUBSET Facts /\ Knows(E, group_res[p], workspace_res[p], state, bound[p] \cup {o})
  BY EnteredKnows DEF TypeInv, KnowsInv
<1>2. o \notin group_res[p] => Knows(told[p], group_res[p], workspace_res[p], state, bound[p] \cup {o})
  BY DEF KnowsInv, Knows
<1>3. told' = IF o \in group_res[p] THEN [told EXCEPT ![p] = E] ELSE told
  BY DEF BindOutput
<1> HIDE DEF E
<1>4. TypeInv'
  BY <1>1, <1>3 DEF BindOutput, server, TypeInv
<1>5. ResourcesInv'
  BY <1>3 DEF BindOutput, server, ResourcesInv, TypeInv, live
<1>6. KnowsInv'
  BY <1>1, <1>2, <1>3 DEF BindOutput, server, KnowsInv, TypeInv
<1> QED BY <1>4, <1>5, <1>6

LEMMA BindStep ==
    ASSUME IInv, NEW p \in Peer, Bind(p)
    PROVE  IInv'
<1> USE DEF IInv
<1>1. Snapshot(p) \in SUBSET Facts /\ Knows(Snapshot(p), groups, live, state, bound[p])
  BY SnapshotKnows
<1>2. TypeInv'
  BY <1>1, LiveIsWorkspace DEF Bind, server, TypeInv
<1>3. ResourcesInv'
  BY DEF Bind, server, ResourcesInv, TypeInv, live
<1>4. KnowsInv'
  BY <1>1 DEF Bind, server, KnowsInv, TypeInv
<1> QED BY <1>2, <1>3, <1>4

LEMMA StopStep ==
    ASSUME IInv, NEW p \in Peer, Stop(p)
    PROVE  IInv'
<1> USE DEF IInv
<1>1. TypeInv'
  BY DEF Stop, server, TypeInv
<1>2. ResourcesInv'
  BY DEF Stop, server, ResourcesInv, TypeInv, live
<1>3. KnowsInv'
  <2>1. Knows({}, {}, {}, state, bound[p])
    BY DEF Knows
  <2> QED BY <2>1 DEF Stop, server, KnowsInv, TypeInv
<1> QED BY <1>1, <1>2, <1>3

LEMMA DestroyGroupStep ==
    ASSUME IInv, NEW p \in Peer, NEW o \in Output, DestroyGroup(p, o)
    PROVE  IInv'
<1> USE DEF IInv
<1>1. /\ Without(told[p], <<o>>) \in SUBSET Facts /\ Without(seen[p], <<o>>) \in SUBSET Facts
      /\ Knows(Without(told[p], <<o>>), group_res[p] \ {o}, workspace_res[p], state, bound[p])
  BY GroupDroppedKnows DEF TypeInv, KnowsInv, Without
<1>2. p \in bars /\ o \in groups
  BY DEF DestroyGroup, ResourcesInv
<1>3. TypeInv'
  BY <1>1 DEF DestroyGroup, Destroy, server, TypeInv, Object
<1>4. ResourcesInv'
  BY <1>2, ObjectsDiffer, LiveIsWorkspace DEF DestroyGroup, Destroy, server, ResourcesInv, TypeInv, live
<1>5. KnowsInv'
  BY <1>1 DEF DestroyGroup, Destroy, server, KnowsInv, TypeInv
<1> QED BY <1>3, <1>4, <1>5

LEMMA DestroyWorkspaceStep ==
    ASSUME IInv, NEW p \in Peer, NEW w \in Workspace, DestroyWorkspace(p, w)
    PROVE  IInv'
<1> USE DEF IInv
<1>1. /\ Without(told[p], w) \in SUBSET Facts /\ Without(seen[p], w) \in SUBSET Facts
      /\ Knows(Without(told[p], w), group_res[p], workspace_res[p] \ {w}, state, bound[p])
  BY WorkspaceDroppedKnows DEF TypeInv, KnowsInv, Without
<1>2. p \in bars /\ w \in live
  BY DEF DestroyWorkspace, ResourcesInv
<1>3. TypeInv'
  BY <1>1 DEF DestroyWorkspace, Destroy, server, TypeInv, Object
<1>4. ResourcesInv'
  BY <1>2, ObjectsDiffer, LiveIsWorkspace
     DEF DestroyWorkspace, Destroy, server, ResourcesInv, TypeInv, live
<1>5. KnowsInv'
  BY <1>1 DEF DestroyWorkspace, Destroy, server, KnowsInv, TypeInv
<1> QED BY <1>3, <1>4, <1>5

LEMMA StatusFlushStep ==
    ASSUME IInv, StatusFlush
    PROVE  IInv'
<1> USE DEF IInv
<1> DEFINE fresh == [w \in Workspace |-> IF w \in live THEN Target(w) ELSE {}]
           E(p)  == (told[p] \ StatesOf(workspace_res[p], state)) \cup StatesOf(workspace_res[p], fresh)
<1>1. fresh \in [Workspace -> SUBSET States] /\ \A w \in Workspace \ live : fresh[w] = {}
  BY DEF Target
<1>2. /\ state' = fresh /\ told' = [p \in Peer |-> E(p)]
      /\ UNCHANGED <<server, peers, seen>>
  BY DEF StatusFlush
<1> HIDE DEF fresh
<1>3. \A p \in Peer : /\ E(p) \in SUBSET Facts
                      /\ Knows(E(p), group_res[p], workspace_res[p], fresh, bound[p])
  BY <1>1, StatusKnows DEF TypeInv, KnowsInv
<1>4. \A p \in Peer : p \notin bars => E(p) = {}
  BY DEF ResourcesInv, StatesOf
<1> HIDE DEF E
<1>5. TypeInv'
  BY <1>1, <1>2, <1>3 DEF server, peers, TypeInv
<1>6. ResourcesInv'
  BY <1>1, <1>2, <1>4 DEF server, peers, ResourcesInv, live
<1>7. KnowsInv'
  BY <1>2, <1>3 DEF server, peers, KnowsInv
<1> QED BY <1>5, <1>6, <1>7

LEMMA HandleIdleStep ==
    ASSUME IInv, HandleIdle
    PROVE  IInv'
<1> USE DEF IInv, HandleIdle, server, peers
<1>1. TypeInv'
  BY DEF TypeInv
<1>2. ResourcesInv'
  BY DEF ResourcesInv, live
<1>3. KnowsInv'
  BY DEF KnowsInv
<1> QED BY <1>1, <1>2, <1>3

LEMMA RequestType ==
    ASSUME IInv, NEW p \in Peer, Queue(p) \/ Commit(p)
    PROVE  requests' \in [Peer -> Seq(Request)]
<1>1. group_res[p] \subseteq Output /\ workspace_res[p] \subseteq Workspace
  BY DEF IInv, TypeInv
<1>2. requests \in [Peer -> Seq(Request)]
  BY DEF IInv, TypeInv
<1>3. CASE Queue(p)
  <2>1. PICK r \in Request : requests' = [requests EXCEPT ![p] = Append(@, r)]
    BY <1>1, <1>3 DEF Queue, Request
  <2> QED BY <1>2, <2>1
<1>4. CASE Commit(p)
  <2>1. requests' = [requests EXCEPT ![p] = <<>>]
    BY <1>4 DEF Commit
  <2> QED BY <1>2, <2>1
<1> QED BY <1>3, <1>4

\* The steps that touch nothing but views, requests and globals.
LEMMA QuietStep ==
    ASSUME IInv, requests' \in [Peer -> Seq(Request)], globals' \subseteq groups,
           globals \subseteq globals',
           UNCHANGED <<groups, state, bars, group_res, workspace_res, dropped, bound, told, seen>>
    PROVE  IInv'
BY DEF IInv, TypeInv, ResourcesInv, KnowsInv, live

LEMMA NextInv ==
    ASSUME IInv, [Next]_vars
    PROVE  IInv'
<1>1. ASSUME NEW o \in Output, Enable(o) \/ Change(o) PROVE IInv'
  BY <1>1, QuietStep DEF Enable, Change, server, peers, IInv, TypeInv, ResourcesInv
<1>2. ASSUME NEW p \in Peer, Queue(p) \/ Commit(p) PROVE IInv'
  <2>1. requests' \in [Peer -> Seq(Request)]
    BY <1>2, RequestType
  <2> QED BY <1>2, <2>1, QuietStep DEF Queue, Commit, server, IInv, ResourcesInv
<1>3. CASE UNCHANGED vars
  BY <1>3, QuietStep DEF vars, server, peers, IInv, TypeInv, ResourcesInv
<1> QED
  BY <1>1, <1>2, <1>3, CreateMonStep, CleanupMonStep, DisableStep, BindOutputStep, BindStep, StopStep,
     DestroyGroupStep, DestroyWorkspaceStep, StatusFlushStep, HandleIdleStep DEF Next

-----------------------------------------------------------------------------
(***************************************************************************)
(* What a bar knows.  By Knows the facts of each kind are those of Due;    *)
(* there are no others in Facts, so that nothing is ever garbled.          *)
(***************************************************************************)
LEMMA KnownIsDue ==
    ASSUME IInv, NEW p \in bars
    PROVE  told[p] \ AllEntered = Due(p)
<1> DEFINE known == {w \in live : w \notin dropped[p]}
           held  == {o \in groups : <<o>> \notin dropped[p]}
<1>1. /\ p \in Peer /\ groups \subseteq Output /\ live \subseteq Workspace
      /\ told[p] \subseteq Facts /\ state \in [Workspace -> SUBSET States]
  BY DEF IInv, TypeInv, live
<1>2. group_res[p] = held /\ workspace_res[p] = known
  BY <1>1 DEF IInv, ResourcesInv
<1>3. Knows(told[p], held, known, state, bound[p])
  BY <1>1, <1>2 DEF IInv, KnowsInv
<1>4. known \subseteq Workspace /\ held \subseteq Output /\ \A w \in known : state[w] \subseteq States
  BY <1>1
<1>5. Due(p) = {Group(o) : o \in held} \cup {Handle(w) : w \in known} \cup StatesOf(known, state)
                  \cup {Member(w) : w \in {v \in known : v[1] \in held}}
  BY DEF Due
<1> HIDE DEF known, held
<1>6. ASSUME NEW f \in told[p] \ AllEntered PROVE f \in Due(p)
  <2>1. \/ \E o \in Output : f = Group(o)
        \/ \E w \in Workspace : f = Handle(w)
        \/ \E w \in Workspace : f = Member(w)
        \/ \E w \in Workspace, s \in States : f = InState(w, s)
    BY <1>1, <1>6 DEF Facts
  <2>2. CASE \E o \in Output : f = Group(o)
    BY <1>3, <1>5, <1>6, <2>2 DEF Knows
  <2>3. CASE \E w \in Workspace : f = Handle(w)
    BY <1>3, <1>5, <1>6, <2>3 DEF Knows
  <2>4. CASE \E w \in Workspace : f = Member(w)
    BY <1>3, <1>5, <1>6, <2>4 DEF Knows
  <2>5. CASE \E w \in Workspace, s \in States : f = InState(w, s)
    BY <1>3, <1>5, <1>6, <2>5, StatesOfMember DEF Knows
  <2> QED BY <2>1, <2>2, <2>3, <2>4, <2>5
<1>7. ASSUME NEW f \in Due(p) PROVE f \in told[p] \ AllEntered
  <2>1. CASE f \in {Group(o) : o \in held}
    BY <1>3, <1>4, <2>1, KindsDiffer DEF Knows, AllEntered
  <2>2. CASE f \in {Handle(w) : w \in known}
    BY <1>3, <1>4, <2>2, KindsDiffer DEF Knows, AllEntered
  <2>3. CASE f \in StatesOf(known, state)
    BY <1>3, <1>4, <2>3, KindsDiffer, StatesOfMember DEF Knows, AllEntered
  <2>4. CASE f \in {Member(w) : w \in {v \in known : v[1] \in held}}
    BY <1>3, <1>4, <2>4, KindsDiffer DEF Knows, AllEntered
  <2> QED BY <1>5, <2>1, <2>2, <2>3, <2>4
<1> QED BY <1>6, <1>7

LEMMA InvMirrors == IInv => Mirror
<1> SUFFICES ASSUME IInv, NEW p \in bars
             PROVE  /\ told[p] \ AllEntered = Due(p)
                    /\ \A o \in Output : Entered(o) \in told[p] => Group(o) \in told[p]
                    /\ \A o \in bound[p] : Group(o) \in told[p] => Entered(o) \in told[p]
  BY DEF Mirror
<1>1. p \in Peer /\ bound[p] \subseteq Output
  BY DEF IInv, TypeInv
<1>2. Knows(told[p], group_res[p], workspace_res[p], state, bound[p])
  BY <1>1 DEF IInv, KnowsInv
<1> QED BY <1>1, <1>2, KnownIsDue DEF Knows

(***************************************************************************)
(* Whatever outputs come and go and bars bind, drop and stop, a bar knows  *)
(* what there is, no less and no more, and no event is out of place.       *)
(***************************************************************************)
THEOREM BarsMirrorTheServer == Spec => []Mirror
<1>1. Init => IInv
  BY InitInv
<1>2. IInv /\ [Next]_vars => IInv'
  BY NextInv
<1>3. IInv => Mirror
  BY InvMirrors
<1> QED BY <1>1, <1>2, <1>3, PTL DEF Spec

-----------------------------------------------------------------------------
(***************************************************************************)
(* The queue and the ids.                                                  *)
(***************************************************************************)
LEMMA QueueStep ==
    ASSUME IInv, QueueIsLive, [Next]_vars
    PROVE  QueueIsLive'
<1> DEFINE Fine(queue, G, W) ==
             \A i \in DOMAIN queue :
                 queue[i].workspace \in W \cup {None} /\ queue[i].group \in G \cup {None}
<1>1. requests \in [Peer -> Seq(Request)] /\ requests' \in [Peer -> Seq(Request)]
  BY NextInv DEF IInv, TypeInv
<1> SUFFICES \A p \in Peer : Fine(requests'[p], groups', live')
  BY <1>1 DEF QueueIsLive
<1>2. \A p \in Peer : Fine(requests[p], groups, live)
  BY DEF QueueIsLive
<1>3. CASE groups \subseteq groups' /\ UNCHANGED requests
  <2>1. live \subseteq live'
    BY <1>3 DEF live
  <2> QED BY <1>2, <1>3, <2>1
<1>4. ASSUME NEW o \in Output, CleanupMon(o) PROVE \A p \in Peer : Fine(requests'[p], groups', live')
  <2>1. live' = live \ WorkspacesOf(o) /\ groups' = groups \ {o}
    BY <1>4, OfOutput, LiveIsWorkspace DEF CleanupMon, live
  <2> SUFFICES ASSUME NEW p \in Peer PROVE Fine(requests'[p], groups', live')
    OBVIOUS
  <2>2. requests'[p] = Cleared(requests[p], o)
    BY <1>4 DEF CleanupMon
  <2> QED BY <1>1, <1>2, <2>1, <2>2, ClearedQueue
<1>5. ASSUME NEW p \in Peer, Queue(p) PROVE \A q \in Peer : Fine(requests'[q], groups', live')
  <2>1. group_res[p] \subseteq groups /\ workspace_res[p] \subseteq live
    BY DEF IInv, ResourcesInv
  <2>2. PICK type \in Types, w \in workspace_res[p] \cup {None}, g \in group_res[p] \cup {None} :
          requests' = [requests EXCEPT
            ![p] = Append(@, [type |-> type, workspace |-> w, group |-> g])]
    BY <1>5 DEF Queue
  <2> DEFINE r == [type |-> type, workspace |-> w, group |-> g]
  <2>3. r \in Request /\ r.workspace \in live \cup {None} /\ r.group \in groups \cup {None}
    BY <2>1 DEF Request, IInv, TypeInv, live
  <2>4. groups' = groups /\ live' = live
    BY <1>5 DEF Queue, server, live
  <2>5. requests' = [requests EXCEPT ![p] = Append(@, r)]
    BY <2>2
  <2> HIDE DEF r
  <2>6. Fine(Append(requests[p], r), groups, live)
    BY <1>1, <1>2, <2>3
  <2> HIDE DEF Fine
  <2> QED BY <1>1, <1>2, <2>4, <2>5, <2>6
<1>6. ASSUME NEW p \in Peer, Stop(p) \/ Commit(p) PROVE \A q \in Peer : Fine(requests'[q], groups', live')
  <2>1. groups' = groups /\ live' = live /\ requests' = [requests EXCEPT ![p] = <<>>]
    BY <1>6 DEF Stop, Commit, server, live
  <2>2. Fine(<<>>, groups, live)
    OBVIOUS
  <2> HIDE DEF Fine
  <2> QED BY <1>1, <1>2, <2>1, <2>2
<1>7. \/ groups \subseteq groups' /\ UNCHANGED requests
      \/ \E o \in Output : CleanupMon(o)
      \/ \E p \in Peer : Queue(p) \/ Stop(p) \/ Commit(p)
  BY DEF Next, CreateMon, Disable, Enable, Change, StatusFlush, HandleIdle, Bind, BindOutput,
     DestroyGroup, DestroyWorkspace, Destroy, vars, server, peers
<1> QED BY <1>3, <1>4, <1>5, <1>6, <1>7

(***************************************************************************)
(* A request in a queue never outlives what it names, through any order of *)
(* unplugging, plugging in, queueing and commits.                          *)
(***************************************************************************)
THEOREM QueuesStayLive == Spec => []QueueIsLive
<1>1. Init => IInv /\ QueueIsLive
  BY InitInv DEF Init, QueueIsLive
<1>2. IInv /\ QueueIsLive /\ [Next]_vars => (IInv /\ QueueIsLive)'
  BY NextInv, QueueStep
<1> QED BY <1>1, <1>2, PTL DEF Spec

LEMMA IdStep ==
    ASSUME UniqueIds, [Next]_vars
    PROVE  UniqueIds'
<1>1. CASE UNCHANGED <<groups, ids>>
  BY <1>1 DEF UniqueIds, live
<1>2. ASSUME NEW o \in Output, CreateMon(o) PROVE UniqueIds'
  <2>1. live \subseteq live' /\ WorkspacesOf(o) \subseteq live'
    BY <1>2, OfOutput DEF CreateMon, live
  <2>2. ids' = ids \cup NewIds(o) /\ NewIds(o) \subseteq WorkspacesOf(o)
    BY <1>2 DEF CreateMon, NewIds
  <2>3. \A w, v \in NewIds(o) : w # v => w[2] # v[2]
    BY DEF NewIds, WorkspacesOf
  <2>4. \A w \in NewIds(o), v \in ids : w[2] # v[2] \/ NameOf[w[1]] # NameOf[v[1]]
    BY OfOutput DEF NewIds
  <2> QED BY <2>1, <2>2, <2>3, <2>4 DEF UniqueIds
<1>3. ASSUME NEW o \in Output, CleanupMon(o) PROVE UniqueIds'
  <2>1. live \ WorkspacesOf(o) \subseteq live'
    BY <1>3, OfOutput DEF CleanupMon, live
  <2> QED BY <1>3, <2>1 DEF CleanupMon, UniqueIds
<1> QED
  BY <1>1, <1>2, <1>3 DEF Next, Disable, Enable, Change, StatusFlush, HandleIdle, Bind, Stop, Queue,
     Commit, BindOutput, DestroyGroup, DestroyWorkspace, Destroy, vars, server, peers

(***************************************************************************)
(* No two workspaces that exist at once advertise one id, whatever outputs *)
(* of the same name come and go.                                           *)
(***************************************************************************)
THEOREM IdsStayUnique == Spec => []UniqueIds
<1>1. Init => UniqueIds
  BY DEF Init, UniqueIds, live
<1>2. UniqueIds /\ [Next]_vars => UniqueIds'
  BY IdStep
<1> QED BY <1>1, <1>2, PTL DEF Spec

-----------------------------------------------------------------------------
(***************************************************************************)
(* The promise of module Board, step by step.  Every event of the server   *)
(* is a Tell, handle_idle is Done, and what a bar knows when it joins is   *)
(* what it is told then.                                                   *)
(***************************************************************************)
LEMMA Telling ==
    ASSUME IInv, IInv', UNCHANGED <<bars, seen>>
    PROVE  Promise!Tell
<1>1. \A p \in Peer : told'[p] \subseteq Facts /\ (p \notin bars => told'[p] = {})
  BY DEF IInv, TypeInv, ResourcesInv
<1>2. told' = [p \in Peer |-> IF p \in bars THEN told'[p] ELSE {}]
  BY <1>1 DEF IInv, TypeInv
<1> QED BY <1>1, <1>2 DEF Promise!Tell

LEMMA Joining ==
    ASSUME IInv, NEW p \in Peer, Bind(p)
    PROVE  Promise!Join(p)
<1>1. Snapshot(p) \subseteq Facts
  BY SnapshotKnows DEF IInv
<1>2. told'[p] = Snapshot(p)
  BY DEF Bind, IInv, TypeInv
<1> QED BY <1>1, <1>2 DEF Bind, Promise!Join

LEMMA Leaving ==
    ASSUME NEW p \in Peer, Stop(p)
    PROVE  Promise!Leave(p)
BY DEF Stop, Promise!Leave

LEMMA Forgetting ==
    ASSUME NEW p \in Peer, NEW x, Destroy(p, x)
    PROVE  Promise!Forget(p, x)
BY DEF Destroy, Without, Promise!Forget, Promise!Without

\* A peer that is no bar holds nothing, so that done may go to all of them.
LEMMA Finishing ==
    ASSUME IInv, HandleIdle
    PROVE  Promise!Done
<1>1. seen' = told
  BY DEF HandleIdle, IInv, TypeInv, ResourcesInv
<1> QED BY <1>1 DEF HandleIdle, peers, Promise!Done

LEMMA NextPromise ==
    ASSUME IInv, [Next]_vars
    PROVE  [Promise!Next]_(Promise!vars)
<1>1. ASSUME NEW p \in Peer, NEW o \in Output, DestroyGroup(p, o) PROVE Promise!Next
  BY <1>1, Forgetting DEF DestroyGroup, Object, Promise!Next
<1>2. ASSUME NEW p \in Peer, NEW w \in Workspace, DestroyWorkspace(p, w) PROVE Promise!Next
  BY <1>2, Forgetting DEF DestroyWorkspace, Object, Promise!Next
<1>3. CASE UNCHANGED <<bars, seen>>
  BY <1>3, NextInv, Telling DEF Promise!Next
<1>4. ASSUME NEW p \in Peer, Bind(p) \/ Stop(p) PROVE Promise!Next
  BY <1>4, Joining, Leaving DEF Promise!Next
<1>5. CASE HandleIdle
  BY <1>5, Finishing DEF Promise!Next
<1> QED
  BY <1>1, <1>2, <1>3, <1>4, <1>5 DEF Next, CreateMon, CleanupMon, Disable, Enable, Change, StatusFlush,
     Queue, Commit, BindOutput, vars, server, peers

(***************************************************************************)
(* The server implements the safety part of module Board: whatever a bar   *)
(* was told takes effect at a done event, all at once, and no step does    *)
(* anything that the promise has no step for.                              *)
(***************************************************************************)
THEOREM ServerKeepsPromise == Spec => Promise!Init /\ [][Promise!Next]_(Promise!vars)
<1>1. Init => IInv
  BY InitInv
<1>2. Init => Promise!Init
  BY DEF Init, Promise!Init
<1>3. IInv /\ [Next]_vars => IInv'
  BY NextInv
<1>4. IInv /\ [Next]_vars => [Promise!Next]_(Promise!vars)
  BY NextPromise
<1> QED BY <1>1, <1>2, <1>3, <1>4, PTL DEF Spec

=============================================================================
