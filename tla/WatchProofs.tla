---------------------------- MODULE WatchProofs -----------------------------
(***************************************************************************)
(* Proofs about module Watch: whatever the users do and whenever, no       *)
(* change of the configuration is lost but the two that the history        *)
(* variable missed names, for any directories, texts and links.            *)
(***************************************************************************)
EXTENDS Watch, TLAPS

-----------------------------------------------------------------------------
(***************************************************************************)
(* The inductive invariant.  UpToDate alone is not one: that a change is   *)
(* noticed depends on the watch on its directory, and that watch on the    *)
(* changes of the link that were seen.                                     *)
(***************************************************************************)

\* A link has taken the place of the file.
NoOwnFile == islink => text[Own] = "none"

\* The directory that the path links into is watched, or it is about to be, or
\* there is an event still to be read for which it will be, or it was missing.
TargetCovered ==
    islink /\ pc # "start" =>
        \/ missed # "nothing" /\ pc \in {"idle", "load"}
        \/ \E e \in events : config_entry(e)
        \/ pc = "target"
        \/ pc = "rearm" /\ resolved = entry
        \/ pc \in {"idle", "load"} /\ target_wd = entry

\* What has not been loaded yet has been noticed, or missed.
Pending == \E e \in events : Changed(e)
Noticed ==
    pc = "idle" /\ missed = "nothing" /\ text[entry] \in Good /\ cfg # text[entry] => Pending

IInv ==
    /\ TypeOK /\ CallbacksHaveState /\ NoOwnFile /\ TargetCovered /\ Noticed

-----------------------------------------------------------------------------
(***************************************************************************)
(* Type correctness, with the Lua state of the configuration in use, needs *)
(* no assumption about the users.                                          *)
(***************************************************************************)
LEMMA PostType ==
    ASSUME NEW p \in Place, NEW m \in {"IN_CREATE", "written"}, TypeOK, PostOf(p, m)
    PROVE  events' \subseteq Event
BY HomeAssumption DEF PostOf, Post, TypeOK, Place, Event

LEMMA LinkType ==
    ASSUME NEW d \in Dir, TypeOK, Link(d)
    PROVE  events' \subseteq Event
BY HomeAssumption DEF Link, Post, TypeOK, Event

LEMMA InitType == Init => TypeOK /\ CallbacksHaveState
BY HomeAssumption, TextAssumption DEF Init, TypeOK, CallbacksHaveState, Place, Texts

LEMMA NextType ==
    ASSUME TypeOK, CallbacksHaveState, [Next]_vars
    PROVE  TypeOK' /\ CallbacksHaveState'
<1> USE DEF watcher, config, files
<1>1. CASE config_watch_start
  <2>1. islink => entry \in Dir
    BY DEF TypeOK, islink, Place
  <2> QED BY <1>1, <2>1, HomeAssumption DEF config_watch_start, TypeOK, CallbacksHaveState, islink, realpath, Place
<1>2. CASE watch_dispatch
  BY <1>2 DEF watch_dispatch, TypeOK, CallbacksHaveState
<1>3. CASE watch_target
  BY <1>3, HomeAssumption DEF watch_target, Rearmed, TypeOK, CallbacksHaveState, islink, realpath, Place
<1>4. CASE config_load
  BY <1>4, TextAssumption DEF config_load, Loaded, TypeOK, CallbacksHaveState, Texts
<1>5. CASE Unlink
  BY <1>5 DEF Unlink, TypeOK, CallbacksHaveState, Place
<1>6. ASSUME NEW p \in Place, Open(p) PROVE TypeOK' /\ CallbacksHaveState'
  <2>1. events' \subseteq Event
    BY <1>6, PostType DEF Open, TypeOK
  <2> QED BY <1>6, <2>1 DEF Open, TypeOK, CallbacksHaveState, Texts
<1>7. ASSUME NEW p \in Place, Close(p) PROVE TypeOK' /\ CallbacksHaveState'
  <2>1. events' \subseteq Event
    BY <1>7, PostType DEF Close
  <2> QED BY <1>7, <2>1 DEF Close, TypeOK, CallbacksHaveState, Texts
<1>8. ASSUME NEW p \in Place, Replace(p) PROVE TypeOK' /\ CallbacksHaveState'
  <2>1. events' \subseteq Event
    BY <1>8, PostType DEF Replace
  <2> QED BY <1>8, <2>1 DEF Replace, TypeOK, CallbacksHaveState, Texts, Place
<1>9. ASSUME NEW p \in Place, Delete(p) PROVE TypeOK' /\ CallbacksHaveState'
  BY <1>9 DEF Delete, TypeOK, CallbacksHaveState, Texts
<1>10. ASSUME NEW d \in Dir, Link(d) PROVE TypeOK' /\ CallbacksHaveState'
  <2>1. events' \subseteq Event
    BY <1>10, LinkType
  <2> QED BY <1>10, <2>1 DEF Link, TypeOK, CallbacksHaveState, Texts, Place
<1>11. CASE UNCHANGED vars
  BY <1>11 DEF vars, TypeOK, CallbacksHaveState
<1> QED
  BY <1>1, <1>2, <1>3, <1>4, <1>5, <1>6, <1>7, <1>8, <1>9, <1>10, <1>11 DEF Next, Watcher, Users

(***************************************************************************)
(* The state of the watcher and of the events is what TypeOK says, and the *)
(* Lua state in use is that of the configuration in use: a reload that     *)
(* fails, at whatever moment of a write, replaces neither.                 *)
(***************************************************************************)
THEOREM TypeCorrect == Spec => [](TypeOK /\ CallbacksHaveState)
<1>1. Init => TypeOK /\ CallbacksHaveState
  BY InitType
<1>2. TypeOK /\ CallbacksHaveState /\ [Next]_vars => (TypeOK /\ CallbacksHaveState)'
  BY NextType
<1> QED BY <1>1, <1>2, PTL DEF Spec

-----------------------------------------------------------------------------
(***************************************************************************)
(* The steps of the watcher.                                               *)
(***************************************************************************)
LEMMA InitInv == Init => IInv
<1> SUFFICES ASSUME Init PROVE IInv
  OBVIOUS
<1>1. TypeOK /\ CallbacksHaveState
  BY InitType
<1>2. NoOwnFile
  BY HomeAssumption DEF Init, NoOwnFile, islink, Place
<1>3. TargetCovered /\ Noticed
  BY DEF Init, TargetCovered, Noticed
<1> QED BY <1>1, <1>2, <1>3 DEF IInv

\* Unless something changed since startup, the directory of what it loaded is
\* watched.
LEMMA StartStep ==
    ASSUME IInv, config_watch_start
    PROVE  NoOwnFile' /\ TargetCovered' /\ Noticed'
<1> USE DEF IInv, config_watch_start, files, config, islink
<1>1. missed' = "nothing" => text[entry] = cfg /\ text[entry] # "none"
  BY DEF TypeOK
<1>2. missed' = "nothing" /\ islink => target_wd' = entry
  BY <1>1 DEF realpath
<1> QED BY <1>1, <1>2 DEF NoOwnFile, TargetCovered, Noticed

\* Reading the queue forgets no event that tells of a change.
LEMMA DispatchStep ==
    ASSUME IInv, watch_dispatch
    PROVE  NoOwnFile' /\ TargetCovered' /\ Noticed'
<1> USE DEF IInv, watch_dispatch, files, config
<1>1. NoOwnFile'
  BY DEF NoOwnFile, islink
<1>2. TargetCovered'
  BY DEF TargetCovered, Changed, islink
<1>3. Noticed'
  BY DEF Noticed, Pending
<1> QED BY <1>1, <1>2, <1>3

\* The watch moves to the directory that the link leads to, when it leads to one.
LEMMA TargetStep ==
    ASSUME IInv, watch_target
    PROVE  NoOwnFile' /\ TargetCovered' /\ Noticed'
<1> USE DEF IInv, watch_target, Rearmed, files, config, islink
<1>1. NoOwnFile' /\ Noticed'
  BY DEF NoOwnFile, Noticed
<1>2. TargetCovered'
  <2>1. CASE pc = "rearm"
    BY <2>1 DEF TargetCovered, config_entry
  <2>2. CASE pc = "target"
    BY <2>2 DEF TargetCovered, realpath
  <2> QED BY <2>1, <2>2
<1> QED BY <1>1, <1>2

LEMMA LoadStep ==
    ASSUME IInv, config_load
    PROVE  NoOwnFile' /\ TargetCovered' /\ Noticed'
<1> USE DEF IInv, config_load, files, islink
<1>1. NoOwnFile'
  BY DEF NoOwnFile
<1>2. TargetCovered'
  BY DEF TargetCovered, config_entry
<1>3. Noticed'
  BY DEF Noticed, Loaded
<1> QED BY <1>1, <1>2, <1>3

-----------------------------------------------------------------------------
(***************************************************************************)
(* The steps of the users.  One that changes what the path leads to leaves *)
(* an event that the watcher will not pass over.                           *)
(***************************************************************************)
LEMMA PostedStays ==
    ASSUME NEW d, NEW name, NEW m, Post(d, name, m)
    PROVE  /\ events \subseteq events'
           /\ d \in watched => [wd |-> d, name |-> name, mask |-> m] \in events'
BY DEF Post

\* A write of the file that the path leads to is noticed.
LEMMA WrittenNoticed ==
    ASSUME IInv, NEW p \in Place, p = entry', UNCHANGED watcher, UNCHANGED config,
           UNCHANGED missed, p # Own => p = entry, PostOf(p, "written")
    PROVE  Noticed'
<1> USE DEF watcher, config
<1>1. SUFFICES ASSUME pc = "idle", missed = "nothing" PROVE Pending'
  BY DEF Noticed
<1>2. Home \in watched /\ (target_wd # NoDir => target_wd \in watched)
  BY <1>1 DEF IInv, TypeOK
<1>3. CASE p = Own
  <2> DEFINE e == [wd |-> Home, name |-> "config", mask |-> "written"]
  <2>1. e \in events'
    BY <1>2, <1>3, PostedStays DEF PostOf
  <2>2. Changed(e)'
    BY DEF Changed, config_entry
  <2> QED BY <2>1, <2>2 DEF Pending
<1>4. CASE p # Own
  <2> DEFINE e == [wd |-> p, name |-> "target", mask |-> "written"]
  <2>1. Post(p, "target", "written") /\ p = entry /\ islink /\ islink' /\ p # NoDir
    BY <1>4, HomeAssumption DEF PostOf, islink, Place
  <2>2. events \subseteq events' /\ (p \in watched => e \in events')
    BY <2>1, PostedStays
  <2>3. CASE \E f \in events : config_entry(f)
    <3>1. PICK f \in events : config_entry(f)
      BY <2>3
    <3>2. f \in events' /\ Changed(f)'
      BY <2>1, <2>2, <3>1 DEF Changed, config_entry
    <3> QED BY <3>2 DEF Pending
  <2>4. CASE target_wd = entry
    <3>1. e \in events' /\ Changed(e)'
      BY <1>2, <2>1, <2>2, <2>4 DEF Changed, target_entry
    <3> QED BY <3>1 DEF Pending
  <2> QED BY <1>1, <2>1, <2>3, <2>4 DEF IInv, TargetCovered
<1> QED BY <1>3, <1>4

\* A step that leaves the path and its text alone disturbs nothing.
LEMMA ElsewhereStep ==
    ASSUME IInv, entry' = entry, text'[entry] = text[entry], events \subseteq events',
           islink => text'[Own] = text[Own], UNCHANGED watcher, UNCHANGED config,
           UNCHANGED missed
    PROVE  NoOwnFile' /\ TargetCovered' /\ Noticed'
<1> USE DEF IInv, watcher, config, islink
<1>1. NoOwnFile'
  BY DEF NoOwnFile
<1>2. TargetCovered'
  BY DEF TargetCovered, config_entry
<1>3. Pending => Pending'
  BY DEF Pending, Changed, config_entry, target_entry
<1>4. Noticed'
  BY <1>3 DEF Noticed
<1> QED BY <1>1, <1>2, <1>4

LEMMA OpenStep ==
    ASSUME IInv, NEW p \in Place, Open(p)
    PROVE  NoOwnFile' /\ TargetCovered' /\ Noticed'
<1>1. events \subseteq events' /\ text \in [Place -> Texts] /\ entry \in Place
  BY DEF Open, PostOf, Post, IInv, TypeOK
<1>2. islink => text'[Own] = text[Own]
  BY <1>1 DEF Open
<1>3. CASE p # entry
  BY <1>1, <1>2, <1>3, ElsewhereStep DEF Open
<1>4. CASE p = entry
  <2> USE DEF Open, watcher, config, islink, IInv
  <2>1. text'[entry'] = "partial"
    BY <1>1, <1>4
  <2>2. NoOwnFile' /\ Noticed'
    BY <1>1, <1>2, <2>1, TextAssumption DEF NoOwnFile, Noticed
  <2>3. TargetCovered'
    BY <1>1 DEF TargetCovered, config_entry
  <2> QED BY <2>2, <2>3
<1> QED BY <1>3, <1>4

\* Close and Replace end a write.
LEMMA WriteStep ==
    ASSUME IInv, NEW p \in Place, Close(p) \/ Replace(p)
    PROVE  NoOwnFile' /\ TargetCovered' /\ Noticed'
<1>1. /\ text \in [Place -> Texts] /\ entry \in Place /\ PostOf(p, "written")
      /\ UNCHANGED watcher /\ UNCHANGED config /\ UNCHANGED missed
  BY DEF Close, Replace, IInv, TypeOK
<1>2. PICK t \in Good \cup Bad : text' = [text EXCEPT ![p] = t]
  BY DEF Close, Replace
<1>3. events \subseteq events'
  BY <1>1 DEF PostOf, Post
<1>4. CASE p # entry /\ entry' = entry
  <2>1. islink => p # Own
    <3>1. CASE Close(p)
      BY <1>1, <3>1, TextAssumption DEF Close, IInv, NoOwnFile
    <3>2. CASE Replace(p)
      BY <1>4, <3>2, HomeAssumption DEF Replace, islink
    <3> QED BY <3>1, <3>2
  <2> QED BY <1>1, <1>2, <1>3, <1>4, <2>1, ElsewhereStep
<1>5. CASE p = entry'
  <2> USE DEF watcher, config, islink, IInv
  <2>1. text'[entry'] \in Good \cup Bad /\ text'[entry'] # "none"
    BY <1>1, <1>2, <1>5, TextAssumption
  <2>2. p # Own => p = entry
    BY <1>5 DEF Close, Replace
  <2>3. Noticed'
    BY <1>1, <1>5, <2>2, WrittenNoticed
  <2>4. NoOwnFile'
    BY <1>1, <1>2, <1>5, <2>1, <2>2 DEF NoOwnFile
  <2>5. TargetCovered'
    BY <1>1, <1>3, <1>5, <2>2 DEF TargetCovered, config_entry
  <2> QED BY <2>3, <2>4, <2>5
<1> QED BY <1>4, <1>5 DEF Close, Replace

LEMMA DeleteStep ==
    ASSUME IInv, NEW p \in Place, Delete(p)
    PROVE  NoOwnFile' /\ TargetCovered' /\ Noticed'
<1>1. text \in [Place -> Texts] /\ entry \in Place
  BY DEF Delete, IInv, TypeOK
<1>2. CASE p # entry
  <2>1. islink => text'[Own] = text[Own]
    BY <1>1 DEF Delete, IInv, NoOwnFile
  <2> QED BY <1>1, <1>2, <2>1, ElsewhereStep DEF Delete
<1>3. CASE p = entry
  <2> USE DEF Delete, watcher, config, islink, IInv
  <2>1. text'[entry'] = "none"
    BY <1>1, <1>3
  <2>2. NoOwnFile' /\ Noticed'
    BY <1>1, <1>3, <2>1, TextAssumption DEF NoOwnFile, Noticed
  <2>3. TargetCovered'
    BY <1>1 DEF TargetCovered, config_entry
  <2> QED BY <2>2, <2>3
<1> QED BY <1>2, <1>3

LEMMA UnlinkStep ==
    ASSUME IInv, Unlink
    PROVE  NoOwnFile' /\ TargetCovered' /\ Noticed'
BY TextAssumption DEF Unlink, watcher, config, islink, IInv,
   NoOwnFile, TargetCovered, Noticed

\* A new link is an event in the directory of the path, which is watched from the
\* start on.
LEMMA LinkStep ==
    ASSUME IInv, NEW d \in Dir, Link(d)
    PROVE  NoOwnFile' /\ TargetCovered' /\ Noticed'
<1>1. /\ text \in [Place -> Texts] /\ (pc # "start" => Home \in watched)
      /\ d # Own /\ d \in Place /\ UNCHANGED watcher
  BY HomeAssumption DEF Link, IInv, TypeOK, Place
<1>2. islink' /\ text'[Own] = "none"
  BY <1>1 DEF Link, islink, Place
<1>3. PICK m \in {"IN_CREATE", "written"} : Post(Home, "config", m)
  BY DEF Link
<1> DEFINE e == [wd |-> Home, name |-> "config", mask |-> m]
<1>4. pc # "start" => e \in events'
  BY <1>1, <1>3, PostedStays
<1>5. config_entry(e)' /\ Changed(e)'
  BY <1>2 DEF config_entry, Changed
<1>6. TargetCovered' /\ Noticed'
  BY <1>1, <1>4, <1>5 DEF watcher, TargetCovered, Noticed, Pending
<1>7. NoOwnFile'
  BY <1>1, <1>2 DEF watcher, NoOwnFile
<1> QED BY <1>6, <1>7

LEMMA NextInv ==
    ASSUME IInv, [Next]_vars
    PROVE  IInv'
<1>1. TypeOK' /\ CallbacksHaveState'
  BY NextType DEF IInv
<1> SUFFICES NoOwnFile' /\ TargetCovered' /\ Noticed'
  BY <1>1 DEF IInv
<1>2. CASE Watcher
  BY <1>2, StartStep, DispatchStep, TargetStep, LoadStep DEF Watcher
<1>3. CASE Users
  BY <1>3, OpenStep, WriteStep, DeleteStep, UnlinkStep, LinkStep DEF Users
<1>4. CASE UNCHANGED vars
  BY <1>4, ElsewhereStep DEF vars, files
<1> QED BY <1>2, <1>3, <1>4 DEF Next

LEMMA UpToDateHolds == IInv => UpToDate
BY DEF IInv, Noticed, Pending, UpToDate, Settled

(***************************************************************************)
(* No change but the two that the code misses is lost: whenever the        *)
(* watcher is at rest, has missed nothing, and what the path leads to can  *)
(* be loaded, it is the configuration in use, whatever steps of the users  *)
(* came between those of startup and of the watcher.                       *)
(***************************************************************************)
THEOREM NothingIsLost == Spec => []UpToDate
<1>1. Init => IInv
  BY InitInv
<1>2. IInv /\ [Next]_vars => IInv'
  BY NextInv
<1>3. IInv => UpToDate
  BY UpToDateHolds
<1> QED BY <1>1, <1>2, <1>3, PTL DEF Spec

=============================================================================
