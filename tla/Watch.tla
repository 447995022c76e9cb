------------------------------- MODULE Watch --------------------------------
(***************************************************************************)
(* Hot reload of the configuration: the inotify watcher and config_load of *)
(* src/parser.c, with the file system that users change at any time, also  *)
(* between two steps of the watcher.                                       *)
(*                                                                         *)
(* The path of the configuration is a file of its own, or a symbolic link  *)
(* to a file in one of the directories.  A file is written in place,       *)
(* replaced by renaming another over it, or removed and created again.     *)
(* Its text is one of a few that load or do not.  A watch descriptor is    *)
(* represented by the directory that it watches: a directory is never      *)
(* removed, and the kernel returns the descriptor of a directory that is   *)
(* watched already.                                                        *)
(***************************************************************************)
CONSTANTS
    Dir,            \* directories with a file that the path may link to
    Home,           \* the directory of the path itself
    Own,            \* the path as a file of its own, no link
    NoDir,          \* the watch descriptor -1
    Good, Bad       \* texts that load, and texts that do not

ASSUME HomeAssumption == Home \in Dir /\ Own \notin Dir /\ NoDir \notin Dir
ASSUME TextAssumption == {"none", "partial"} \cap (Good \cup Bad) = {} /\ Good \cap Bad = {}

VARIABLES
    entry,      \* what the path is: Own, or the directory that it links into
    text,       \* the text of the own file and of the file in each directory
    events,     \* the events that wait to be read
    watched,    \* the directories with a watch
    target_wd,
    pc,         \* where the watcher is
    resolved,   \* what realpath returned, while target_wd is not yet set
    cfg,        \* the configuration in use
    g_L,        \* the configuration whose Lua state is in use
    missed      \* history: what the watcher cannot know of, see below

files == <<entry, text>>
watcher == <<watched, target_wd, pc, resolved>>
config == <<cfg, g_L>>
vars == <<files, events, watcher, config, missed>>

Place == Dir \cup {Own}
Texts == {"none", "partial"} \cup Good \cup Bad

\* An event names the directory and which of its entries changed.  The watcher
\* reads all that wait at once and only asks whether there is one of a kind, so
\* their order and number do not matter; to it IN_CLOSE_WRITE and IN_MOVED_TO are
\* the same, "written".
Event == [wd : Dir, name : {"config", "target"},
          mask : {"IN_CREATE", "written"}]

\* The path is a file that startup loaded, or a link to one.
Init ==
    /\ entry \in Place
    /\ \E t \in Good :
         /\ text = [p \in Place |-> IF p = entry THEN t ELSE "none"]
         /\ cfg = t /\ g_L = t
    /\ events = {}
    /\ watched = {} /\ target_wd = NoDir /\ pc = "start" /\ resolved = NoDir
    /\ missed = "nothing"

-----------------------------------------------------------------------------
(***************************************************************************)
(* The file system, whose changes inotify reports for directories that are *)
(* watched.                                                                *)
(***************************************************************************)
islink == entry # Own
realpath == IF text[entry] = "none" THEN NoDir ELSE entry

Settled == pc = "idle" /\ events = {}

Post(d, name, mask) ==
    events' = IF d \in watched THEN events \cup {[wd |-> d, name |-> name, mask |-> mask]}
              ELSE events

PostOf(p, mask) == IF p = Own THEN Post(Home, "config", mask) ELSE Post(p, "target", mask)

Open(p) ==
    /\ text[p] # "partial" /\ (p = Own => ~islink)
    /\ text' = [text EXCEPT ![p] = "partial"]
    /\ IF text[p] = "none" THEN PostOf(p, "IN_CREATE") ELSE UNCHANGED events
    /\ UNCHANGED <<entry, watcher, config, missed>>

Close(p) ==
    /\ text[p] = "partial"
    /\ \E t \in Good \cup Bad : text' = [text EXCEPT ![p] = t]
    /\ PostOf(p, "written")
    /\ UNCHANGED <<entry, watcher, config, missed>>

Replace(p) ==
    /\ \E t \in Good \cup Bad : text' = [text EXCEPT ![p] = t]
    /\ entry' = IF p = Own THEN Own ELSE entry
    /\ PostOf(p, "written")
    /\ UNCHANGED <<watcher, config, missed>>

Delete(p) ==
    /\ text[p] # "none"
    /\ text' = [text EXCEPT ![p] = "none"]
    /\ UNCHANGED <<entry, events, watcher, config, missed>>

Unlink ==
    /\ islink
    /\ entry' = Own
    /\ UNCHANGED <<text, events, watcher, config, missed>>

\* symlink when there is nothing, or the rename of a link over what there is; it
\* may dangle.
Link(d) ==
    /\ entry' = d /\ text' = [text EXCEPT ![Own] = "none"]
    /\ \/ ~islink /\ text[Own] = "none" /\ Post(Home, "config", "IN_CREATE")
       \/ Post(Home, "config", "written")
    /\ UNCHANGED <<watcher, config, missed>>

-----------------------------------------------------------------------------
(***************************************************************************)
(* The watcher.  Between the steps of watch_dispatch the files may change. *)
(***************************************************************************)
config_entry(e) == e.wd = Home /\ e.name = "config"
target_entry(e) == e.wd = target_wd /\ e.name = "target"

\* Mutant: every creation waits for the end of the write, that of a link too.
ChangedUnlessCreated(e) == (config_entry(e) \/ target_entry(e)) /\ e.mask # "IN_CREATE"

\* A new file is waited for until it is written, a new link is not.
Changed(e) ==
    /\ config_entry(e) \/ target_entry(e)
    /\ e.mask = "IN_CREATE" => config_entry(e) /\ islink

\* Mutant: the watch on the directory of the path ends with that of a target in it.
RearmedAway(d) ==
    /\ watched' = (watched \cup ({d} \ {NoDir})) \ ({target_wd} \ {NoDir, d})
    /\ target_wd' = d

\* inotify_add_watch on the directory found, and the end of the watch on the
\* one before.
Rearmed(d) ==
    /\ watched' = (watched \cup ({d} \ {NoDir})) \ ({target_wd} \ {NoDir, d, Home})
    /\ target_wd' = d

(***************************************************************************)
(* Startup loads the configuration and looks at it again only when there   *)
(* is an event: what changed in between is missed until then ("start").    *)
(* A link whose target is missing when watch_target looks for it keeps the *)
(* old watch; if that is on another directory, nothing tells of the target *)
(* when it comes ("target").                                               *)
(***************************************************************************)
config_watch_start ==
    /\ pc = "start" /\ pc' = "idle"
    /\ missed' = IF text[entry] = cfg THEN "nothing" ELSE "start"
    /\ watched' = {Home} \cup ({entry} \cap Dir \cap {realpath})
    /\ target_wd' = IF islink THEN realpath ELSE NoDir
    /\ UNCHANGED <<files, events, resolved, config>>

watch_dispatch ==
    /\ pc = "idle" /\ events # {}
    /\ pc' = IF \E e \in events : Changed(e) THEN "target" ELSE "idle"
    /\ events' = {}
    /\ UNCHANGED <<files, watched, target_wd, resolved, config, missed>>

\* watch_target keeps the watch that it has while the target is missing.
watch_target ==
    /\ \/ /\ pc = "target" /\ islink /\ realpath = NoDir
          /\ pc' = "load" /\ UNCHANGED <<resolved, watched, target_wd>>
          /\ missed' = IF target_wd = entry THEN "nothing" ELSE "target"
       \/ /\ pc = "target" /\ (islink => realpath # NoDir)
          /\ pc' = "rearm" /\ resolved' = IF islink THEN realpath ELSE NoDir
          /\ UNCHANGED <<watched, target_wd, missed>>
       \/ /\ pc = "rearm" /\ pc' = "load"
          /\ Rearmed(resolved) /\ resolved' = NoDir
          /\ missed' = "nothing"
    /\ UNCHANGED <<files, events, config>>

\* What config_load makes of a text: a file that is still being written may be a
\* whole configuration.
Loaded(t) == IF t \in Good THEN {t} ELSE IF t = "partial" THEN {cfg, t} ELSE {cfg}

\* Mutant: a text that does not load leaves its own Lua state behind.
LoadWithoutLua ==
    /\ pc = "load" /\ pc' = "idle"
    /\ cfg' \in Loaded(text[entry])
    /\ g_L' = text[entry]
    /\ UNCHANGED <<files, events, watched, target_wd, resolved, missed>>

config_load ==
    /\ pc = "load" /\ pc' = "idle"
    /\ cfg' \in Loaded(text[entry])
    /\ g_L' = IF cfg' = cfg THEN g_L ELSE text[entry]
    /\ UNCHANGED <<files, events, watched, target_wd, resolved, missed>>

-----------------------------------------------------------------------------
Watcher == config_watch_start \/ watch_dispatch \/ watch_target \/ config_load

Users ==
    \/ Unlink
    \/ \E p \in Place : Open(p) \/ Close(p) \/ Replace(p) \/ Delete(p)
    \/ \E d \in Dir : Link(d)

Next == Watcher \/ Users

\* The event loop calls the watcher while there are events to read; users need
\* not do anything.
Spec == Init /\ [][Next]_vars /\ WF_vars(Watcher)

-----------------------------------------------------------------------------
(***************************************************************************)
(* Type correctness.  Once the watcher has started it never gives up the   *)
(* directory of the path, and a target is watched for that has a watch.    *)
(***************************************************************************)
TypeOK ==
    /\ entry \in Place /\ text \in [Place -> Texts]
    /\ events \subseteq Event
    /\ watched \subseteq Dir /\ target_wd \in Dir \cup {NoDir} /\ resolved \in Dir \cup {NoDir}
    /\ pc \in {"start", "idle", "target", "rearm", "load"}
    /\ pc # "start" => watched = {Home} \cup ({target_wd} \ {NoDir})
    /\ cfg \in Texts \ {"none"} /\ g_L \in Texts \ {"none"}
    /\ missed \in {"nothing", "start", "target"}

(***************************************************************************)
(* No change is lost between the moment that watch_dispatch reads the      *)
(* queue, the moment that it watches a new target and the moment that it   *)
(* loads: when it has nothing left to do and the configuration can be      *)
(* loaded, it is the one in use.  Two changes are lost, and only those:    *)
(* one made before the watcher started, and one of a target that was       *)
(* missing when watch_target looked, in another directory than the last.   *)
(***************************************************************************)
UpToDate ==
    Settled /\ missed = "nothing" /\ text[entry] \in Good => cfg = text[entry]

(***************************************************************************)
(* "Keep the old directory while a target is temporarily missing, so       *)
(* recreating it can recover hot reload" (src/parser.c): the target that a *)
(* running watcher found missing comes into use when it is there.          *)
(***************************************************************************)
TargetRecovered ==
    Settled /\ missed # "start" /\ text[entry] \in Good => cfg = text[entry]

(***************************************************************************)
(* "A failed reload keeps the previous Lua state usable" (tests/parser.c): *)
(* whatever is loaded and fails to, the callbacks of the bindings in use   *)
(* are looked up in the Lua state that they were made in.                  *)
(***************************************************************************)
CallbacksHaveState == g_L = cfg

(***************************************************************************)
(* When users stop changing a configuration that loads, it comes into use, *)
(* however they changed it before, except where the watcher missed it (see *)
(* UpToDate): "Valid reload replaces runtime config and callbacks"         *)
(* (docs/configuration.md).                                                *)
(***************************************************************************)
ChangesAreLoaded ==
    \A t \in Good : <>[](text[entry] = t /\ missed = "nothing") => <>[](cfg = t)
=============================================================================
