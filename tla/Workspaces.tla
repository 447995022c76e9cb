----------------------------- MODULE Workspaces -----------------------------
(***************************************************************************)
(* The ext-workspace-v1 objects of src/workspace.c and their use by        *)
(* include/mono/ext.h: one group for each output and one workspace for     *)
(* each tag of it.  Status bars bind the manager, hold resources of groups *)
(* and workspaces, and queue requests that take effect on a commit.        *)
(*                                                                         *)
(* Events reach a bar in the order they are sent, so that what it was told *)
(* (told) changes together with the server; idle callbacks run later.      *)
(* A peer binds one manager at a time.  Names, capabilities and            *)
(* coordinates, which never change once an object is announced, and failed *)
(* allocations are left out.                                               *)
(***************************************************************************)
EXTENDS Integers, FiniteSets, Sequences

CONSTANTS
    Output,     \* outputs: Monitor and its wlr_output
    TAGCOUNT,   \* number of tags
    UrgentTag,  \* the tags on which windows may be urgent
    NameOf,     \* the name of each output
    Peer,       \* Wayland clients
    Types,      \* the types of request that they make
    MaxQueue,   \* bound on the requests that a peer queues before a commit
    None        \* NULL

Tag == 1..TAGCOUNT
Workspace == Output \X Tag
WorkspacesOf(o) == {o} \X Tag
States == {"active", "urgent"}

ASSUME TagAssumption == TAGCOUNT \in Nat \ {0} /\ UrgentTag \subseteq Tag
ASSUME NameAssumption == DOMAIN NameOf = Output
ASSUME QueueAssumption == MaxQueue \in Nat
ASSUME TypesAssumption ==
    Types \subseteq {"create_workspace", "activate", "deactivate", "assign", "remove"}
ASSUME NoneAssumption == None \notin Output \cup Workspace
\* A Monitor is neither a group nor a workspace.
ASSUME OutputAssumption == Output \cap ({<<o>> : o \in Output} \cup Workspace) = {}

Request == [type : Types, workspace : Workspace \cup {None}, group : Output \cup {None}]

VARIABLES
    groups,     \* the outputs that have a group (Monitor.ext_group)
    ids,        \* the workspaces that advertise an id
    state,      \* workspace->state
    globals,    \* the outputs whose wl_output global exists
    viewed,     \* tagset[seltags] of each monitor
    urgent,     \* the tags of the urgent windows of each monitor
    status_idle,    \* whether status_flush is scheduled
    idle_source,    \* whether handle_idle is scheduled
    bars,       \* the peers that have a manager resource
    group_res,  \* the groups of which a peer has a live resource
    workspace_res,  \* the workspaces of which it has a live resource
    dropped,    \* the live objects whose resource it destroyed itself
    bound,      \* the outputs of which it has a live wl_output resource
    requests,   \* the queue of its manager resource
    told, seen  \* what it was told, and had been told at its last done event

server == <<groups, ids, globals>>
peers  == <<bars, group_res, workspace_res, dropped, bound, requests>>
vars   == <<server, state, viewed, urgent, status_idle, idle_source, peers, told, seen>>

live == {w \in Workspace : w[1] \in groups}

(***************************************************************************)
(* A fact is a kind and the objects it is about: a group is the object     *)
(* <<o>>, a workspace <<o, t>>.  Learn and Unlearn are events that add and *)
(* take back facts; an event that makes no sense to the bar garbles it.    *)
(***************************************************************************)
Group(o)      == <<"group", {<<o>>}>>
Handle(w)     == <<"workspace", {w}>>
Member(w)     == <<"member", {<<w[1]>>, w}>>
Entered(o)    == <<"output", {<<o>>, o}>>
InState(w, s) == <<s, {w}>>
Garbled       == <<"garbled", {}>>

Object == {<<o>> : o \in Output} \cup Workspace \cup Output
AllEntered == {Entered(o) : o \in Output}
Facts == AllEntered \cup {Group(o) : o \in Output} \cup {Handle(w) : w \in Workspace}
            \cup {Member(w) : w \in Workspace} \cup {InState(w, s) : w \in Workspace, s \in States}

StatesOf(W, f) == UNION {{InState(w, s) : s \in f[w]} : w \in W}
Without(F, x) == {f \in F : x \notin f[2]}

Learn(F, new, needed) ==
    IF new \cap F = {} /\ needed \subseteq F THEN F \cup new ELSE F \cup {Garbled}
Unlearn(F, old, barred) ==
    IF old \subseteq F /\ barred \cap F = {} THEN F \ old ELSE F \cup {Garbled}

Init ==
    /\ groups = {} /\ ids = {} /\ globals = {}
    /\ state = [w \in Workspace |-> {}]
    /\ viewed = [o \in Output |-> {}] /\ urgent = [o \in Output |-> {}]
    /\ status_idle = FALSE /\ idle_source = FALSE
    /\ bars = {}
    /\ group_res = [p \in Peer |-> {}] /\ workspace_res = [p \in Peer |-> {}]
    /\ dropped = [p \in Peer |-> {}] /\ bound = [p \in Peer |-> {}]
    /\ requests = [p \in Peer |-> <<>>]
    /\ told = [p \in Peer |-> {}] /\ seen = [p \in Peer |-> {}]

-----------------------------------------------------------------------------
(***************************************************************************)
(* createmon announces the group of the output, then each workspace, which *)
(* enters the group.  A workspace advertises an id unless a live one has   *)
(* it already, which needs two outputs of the same name.                   *)
(***************************************************************************)
Announced(F, o) ==
    LET handles == {Handle(w) : w \in WorkspacesOf(o)}
        group   == Learn(F, {Group(o)}, {})
        known   == Learn(group, handles, {})
    IN  Learn(known, {Member(w) : w \in WorkspacesOf(o)}, handles \cup {Group(o)})

NewIds(o) ==
    {w \in WorkspacesOf(o) : \A v \in ids : NameOf[v[1]] = NameOf[o] => v[2] # w[2]}

CreateMon(o) ==
    /\ o \notin groups
    /\ groups' = groups \cup {o} /\ globals' = globals \cup {o}
    /\ ids' = ids \cup NewIds(o)
    /\ viewed' = [viewed EXCEPT ![o] = {1}]
    /\ group_res' = [p \in Peer |-> group_res[p] \cup IF p \in bars THEN {o} ELSE {}]
    /\ workspace_res' =
         [p \in Peer |-> workspace_res[p] \cup IF p \in bars THEN WorkspacesOf(o) ELSE {}]
    /\ told' = [p \in Peer |-> IF p \in bars THEN Announced(told[p], o) ELSE told[p]]
    /\ status_idle' = TRUE /\ idle_source' = TRUE
    /\ UNCHANGED <<state, urgent, bars, dropped, bound, requests, seen>>

(***************************************************************************)
(* cleanupmon takes the output out of the layout, which makes the bars'    *)
(* wl_output resources inert, and then destroys its workspaces, each after *)
(* it left the group, and the group.  Queued requests lose their objects.  *)
(***************************************************************************)
Retracted(F, o, p) ==
    LET W       == workspace_res[p] \cap WorkspacesOf(o)
        members == {Member(w) : w \in W}
        handles == {Handle(w) : w \in W} \cup StatesOf(W, state)
        left    == IF o \in group_res[p] THEN Unlearn(F, members, {}) ELSE F
        bare    == Unlearn(left, handles, members)
    IN  IF o \in group_res[p]
        THEN Unlearn(bare, {Group(o)}, {Member(w) : w \in WorkspacesOf(o)}) \ {Entered(o)}
        ELSE bare

\* Mutant: a request to assign keeps its group.
ClearedByWorkspace(queue, o) ==
    [i \in DOMAIN queue |->
        [queue[i] EXCEPT !.workspace = IF @ \in WorkspacesOf(o) THEN None ELSE @]]

Cleared(queue, o) ==
    [i \in DOMAIN queue |->
        [queue[i] EXCEPT !.workspace = IF @ \in WorkspacesOf(o) THEN None ELSE @,
                         !.group = IF @ = o THEN None ELSE @]]

CleanupMon(o) ==
    /\ o \in groups
    /\ groups' = groups \ {o} /\ globals' = globals \ {o}
    /\ ids' = ids \ WorkspacesOf(o)
    /\ state' = [w \in Workspace |-> IF w[1] = o THEN {} ELSE state[w]]
    /\ viewed' = [viewed EXCEPT ![o] = {}] /\ urgent' = [urgent EXCEPT ![o] = {}]
    /\ group_res' = [p \in Peer |-> group_res[p] \ {o}]
    /\ workspace_res' = [p \in Peer |-> workspace_res[p] \ WorkspacesOf(o)]
    /\ dropped' = [p \in Peer |-> dropped[p] \ ({<<o>>} \cup WorkspacesOf(o))]
    /\ bound' = [p \in Peer |-> bound[p] \ {o}]
    /\ requests' = [p \in Peer |-> Cleared(requests[p], o)]
    /\ told' = [p \in Peer |-> Retracted(told[p], o, p)]
    /\ status_idle' = TRUE /\ idle_source' = TRUE
    /\ UNCHANGED <<bars, seen>>

(***************************************************************************)
(* An output that leaves the layout when it is disabled loses its global   *)
(* and its resources become inert, without an event to its group; it gets  *)
(* a new global when it is enabled again.                                  *)
(***************************************************************************)
Disable(o) ==
    /\ o \in globals
    /\ globals' = globals \ {o}
    /\ bound' = [p \in Peer |-> bound[p] \ {o}]
    /\ status_idle' = TRUE
    /\ UNCHANGED <<groups, ids, state, viewed, urgent, idle_source, bars, group_res,
                   workspace_res, dropped, requests, told, seen>>

Enable(o) ==
    /\ o \in groups \ globals
    /\ globals' = globals \cup {o}
    /\ UNCHANGED <<groups, ids, state, viewed, urgent, status_idle, idle_source, peers,
                   told, seen>>

BindOutput(p, o) ==
    /\ o \in globals \ bound[p]
    /\ bound' = [bound EXCEPT ![p] = @ \cup {o}]
    /\ told' = IF o \in group_res[p]
               THEN [told EXCEPT ![p] = Learn(@ \ {Entered(o)}, {Entered(o)}, {Group(o)})]
               ELSE told
    /\ idle_source' = TRUE
    /\ UNCHANGED <<server, state, viewed, urgent, status_idle, bars, group_res,
                   workspace_res, dropped, requests, seen>>

-----------------------------------------------------------------------------
(***************************************************************************)
(* The status.  Handlers change the views and the urgency of windows and   *)
(* call printstatus, whose idle callback sets the states of the workspaces.*)
(***************************************************************************)
Change(o) ==
    /\ o \in groups
    /\ \/ \E T \in (SUBSET Tag) \ {{}, viewed[o]} :
            viewed' = [viewed EXCEPT ![o] = T] /\ UNCHANGED urgent
       \/ \E T \in (SUBSET UrgentTag) \ {urgent[o]} :
            urgent' = [urgent EXCEPT ![o] = T] /\ UNCHANGED viewed
    /\ status_idle' = TRUE
    /\ UNCHANGED <<server, state, idle_source, peers, told, seen>>

Target(w) ==
    {s \in States : \/ s = "active" /\ w[2] \in viewed[w[1]]
                    \/ s = "urgent" /\ w[2] \in urgent[w[1]]}

\* Mutant: a changed state does not schedule a done event.
StatusFlushUndone ==
    LET fresh == [w \in Workspace |-> IF w \in live THEN Target(w) ELSE {}]
    IN  /\ status_idle
        /\ state' = fresh
        /\ told' = [p \in Peer |->
                      (told[p] \ StatesOf(workspace_res[p], state))
                            \cup StatesOf(workspace_res[p], fresh)]
        /\ status_idle' = FALSE
        /\ UNCHANGED <<idle_source, server, viewed, urgent, peers, seen>>

StatusFlush ==
    LET fresh == [w \in Workspace |-> IF w \in live THEN Target(w) ELSE {}]
    IN  /\ status_idle
        /\ state' = fresh
        /\ told' = [p \in Peer |->
                      (told[p] \ StatesOf(workspace_res[p], state))
                            \cup StatesOf(workspace_res[p], fresh)]
        /\ status_idle' = FALSE
        /\ idle_source' = (idle_source \/ state # fresh)
        /\ UNCHANGED <<server, viewed, urgent, peers, seen>>

HandleIdle ==
    /\ idle_source
    /\ idle_source' = FALSE
    /\ seen' = [p \in Peer |-> IF p \in bars THEN told[p] ELSE seen[p]]
    /\ UNCHANGED <<server, state, viewed, urgent, status_idle, peers, told>>

-----------------------------------------------------------------------------
(***************************************************************************)
(* Bars.  A bar that binds the manager gets a resource of every object and *)
(* a done event.  It may destroy a resource, which leaves the object and   *)
(* its queued requests alone, or stop.                                     *)
(***************************************************************************)
\* Mutant: workspaces are announced without their groups.
SnapshotWithoutMembers(p) ==
    {Group(o) : o \in groups} \cup {Entered(o) : o \in groups \cap bound[p]}
        \cup {Handle(w) : w \in live} \cup StatesOf(live, state)

Snapshot(p) ==
    {Group(o) : o \in groups} \cup {Entered(o) : o \in groups \cap bound[p]}
        \cup {Handle(w) : w \in live} \cup StatesOf(live, state)
        \cup {Member(w) : w \in live}

Bind(p) ==
    /\ p \notin bars
    /\ bars' = bars \cup {p}
    /\ group_res' = [group_res EXCEPT ![p] = groups]
    /\ workspace_res' = [workspace_res EXCEPT ![p] = live]
    /\ told' = [told EXCEPT ![p] = Snapshot(p)]
    /\ seen' = [seen EXCEPT ![p] = Snapshot(p)]
    /\ idle_source' = (idle_source \/ groups # {})
    /\ UNCHANGED <<server, state, viewed, urgent, status_idle, dropped, bound, requests>>

Stop(p) ==
    /\ p \in bars
    /\ bars' = bars \ {p}
    /\ group_res' = [group_res EXCEPT ![p] = {}]
    /\ workspace_res' = [workspace_res EXCEPT ![p] = {}]
    /\ dropped' = [dropped EXCEPT ![p] = {}]
    /\ requests' = [requests EXCEPT ![p] = <<>>]
    /\ told' = [told EXCEPT ![p] = {}]
    /\ seen' = [seen EXCEPT ![p] = {}]
    /\ UNCHANGED <<server, state, viewed, urgent, status_idle, idle_source, bound>>

Destroy(p, x) ==
    /\ dropped' = [dropped EXCEPT ![p] = @ \cup {x}]
    /\ told' = [told EXCEPT ![p] = Without(@, x)]
    /\ seen' = [seen EXCEPT ![p] = Without(@, x)]
    /\ UNCHANGED <<server, state, viewed, urgent, status_idle, idle_source, bars, bound,
                   requests>>

DestroyGroup(p, o) ==
    /\ o \in group_res[p]
    /\ group_res' = [group_res EXCEPT ![p] = @ \ {o}]
    /\ UNCHANGED workspace_res
    /\ Destroy(p, <<o>>)

DestroyWorkspace(p, w) ==
    /\ w \in workspace_res[p]
    /\ workspace_res' = [workspace_res EXCEPT ![p] = @ \ {w}]
    /\ UNCHANGED group_res
    /\ Destroy(p, w)

\* A request on a resource that is not inert is queued.
Queue(p) ==
    /\ Len(requests[p]) < MaxQueue
    /\ \E type \in Types, w \in workspace_res[p] \cup {None}, g \in group_res[p] \cup {None} :
         /\ (w = None) <=> type = "create_workspace"
         /\ (g = None) <=> type \notin {"create_workspace", "assign"}
         /\ requests' = [requests EXCEPT
                ![p] = Append(@, [type |-> type, workspace |-> w, group |-> g])]
    /\ UNCHANGED <<server, state, viewed, urgent, status_idle, idle_source, bars, group_res,
                   workspace_res, dropped, bound, told, seen>>

\* handle_ext_commit: activate calls view and deactivate, of a tag that is shown,
\* toggleview; neither leaves a view empty.  Other requests are ignored.
Served(views, r) ==
    LET o == r.workspace[1]  t == r.workspace[2]
    IN  IF r.workspace = None THEN views
        ELSE IF r.type = "activate" THEN [views EXCEPT ![o] = {t}]
        ELSE IF r.type = "deactivate" /\ views[o] # {t} THEN [views EXCEPT ![o] = @ \ {t}]
        ELSE views

\* Mutant: the views change without a call of printstatus.
CommitUnpublished(p) ==
    /\ p \in bars /\ requests[p] # <<>>
    /\ LET run[i \in 0..Len(requests[p])] ==
               IF i = 0 THEN viewed ELSE Served(run[i - 1], requests[p][i])
       IN  viewed' = run[Len(requests[p])]
    /\ requests' = [requests EXCEPT ![p] = <<>>]
    /\ UNCHANGED <<server, state, urgent, status_idle, idle_source, bars, group_res,
                   workspace_res, dropped, bound, told, seen>>

Commit(p) ==
    /\ p \in bars /\ requests[p] # <<>>
    /\ LET run[i \in 0..Len(requests[p])] ==
               IF i = 0 THEN viewed ELSE Served(run[i - 1], requests[p][i])
       IN  /\ viewed' = run[Len(requests[p])]
           /\ status_idle' = (status_idle \/ \E i \in DOMAIN requests[p] : run[i] # run[i - 1])
    /\ requests' = [requests EXCEPT ![p] = <<>>]
    /\ UNCHANGED <<server, state, urgent, idle_source, bars, group_res, workspace_res,
                   dropped, bound, told, seen>>

-----------------------------------------------------------------------------
Next ==
    \/ \E o \in Output : CreateMon(o) \/ CleanupMon(o) \/ Disable(o) \/ Enable(o) \/ Change(o)
    \/ StatusFlush \/ HandleIdle
    \/ \E p \in Peer :
         \/ Bind(p) \/ Stop(p) \/ Queue(p) \/ Commit(p)
         \/ \E o \in Output : BindOutput(p, o) \/ DestroyGroup(p, o)
         \/ \E w \in Workspace : DestroyWorkspace(p, w)

\* The event loop runs its idle callbacks whenever it has dispatched its events.
Fairness == WF_vars(StatusFlush) /\ WF_vars(HandleIdle)

Spec == Init /\ [][Next]_vars /\ Fairness

-----------------------------------------------------------------------------
(***************************************************************************)
(* A bar knows the server: it was told of every live group and workspace,  *)
(* whichever came first, their membership and state, except of those whose *)
(* resource it destroyed; of nothing that is gone; and by events that make *)
(* sense (a workspace enters and leaves its group once and is removed only *)
(* outside it).  It was told the output of a group if it has bound it.     *)
(***************************************************************************)
Due(p) ==
    LET known == {w \in live : w \notin dropped[p]}
        held  == {o \in groups : <<o>> \notin dropped[p]}
    IN  {Group(o) : o \in held} \cup {Handle(w) : w \in known} \cup StatesOf(known, state)
            \cup {Member(w) : w \in {v \in known : v[1] \in held}}

Mirror ==
    \A p \in bars :
        /\ told[p] \ AllEntered = Due(p)
        /\ \A o \in Output : Entered(o) \in told[p] => Group(o) \in told[p]
        /\ \A o \in bound[p] : Group(o) \in told[p] => Entered(o) \in told[p]

(***************************************************************************)
(* clear_requests_by: no queued request names a group or a workspace that  *)
(* was destroyed, even if its output has come back since.                  *)
(***************************************************************************)
QueueIsLive ==
    \A p \in Peer : \A i \in DOMAIN requests[p] :
        /\ requests[p] \in Seq(Request)
        /\ requests[p][i].workspace \in live \cup {None}
        /\ requests[p][i].group \in groups \cup {None}

(***************************************************************************)
(* The protocol: an id "is guaranteed to be unique during its lifetime",   *)
(* also where outputs have the same name.                                  *)
(***************************************************************************)
UniqueIds ==
    /\ ids \subseteq live
    /\ \A w, v \in ids : w # v => w[2] # v[2] \/ NameOf[w[1]] # NameOf[v[1]]

(***************************************************************************)
(* The server keeps the promise of module Board: changes take effect at    *)
(* done events, all at once, and every change is followed by one.          *)
(***************************************************************************)
Promise == INSTANCE Board

KeepsPromise == Promise!Spec

(***************************************************************************)
(* A tag that stays in the view of an output is eventually and then always *)
(* seen as active by every bar that stays and keeps its workspace.         *)
(***************************************************************************)
EventuallySeen ==
    \A p \in Peer, w \in Workspace :
        <>[](p \in bars /\ w \in live /\ w \notin dropped[p] /\ w[2] \in viewed[w[1]])
            => <>[](InState(w, "active") \in seen[p])
=============================================================================
