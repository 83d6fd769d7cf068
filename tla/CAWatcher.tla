------------------------------ MODULE CAWatcher ------------------------------
(***************************************************************************)
(* CertAndCAWatcher (config/certwatcher.go): the pool of CA certificates   *)
(* of the allocator's HTTPS server, reloaded when its file changes.        *)
(*                                                                         *)
(* fsnotify (external) watches the file itself: the watch ends with the    *)
(* file, be it removed or replaced by a rename, after a Remove event.      *)
(* What happens to the path afterwards is seen only if it is added again.  *)
(***************************************************************************)
EXTENDS Naturals, Sequences

CONSTANTS
    MaxVersion,     \* bound on the changes of the file
    MaxEvents,      \* bound on the events in flight
    Missing         \* there is no file

ASSUME CABoundAssumption ==
    /\ MaxVersion \in Nat
    /\ MaxEvents \in Nat
    /\ Missing \notin Nat

VARIABLES
    file,       \* the version of the file on disk, or Missing
    version,    \* the last version there was
    watched,    \* fsnotify watches the file
    events,     \* what fsnotify has reported and watchCA has not received
    pc,         \* NewCertAndCAWatcher: "load", then "add"; watchCA: "select", or
                \* "rewatch" during the sleep before Add
    pool,       \* the version in caPool
    missed      \* history: the file changed unwatched since it was last loaded

caVars == <<file, version, watched, events, pc, pool, missed>>

\* NewCertAndCAWatcher has loaded the pool, and nothing watches the file yet.
CAInit ==
    /\ file = 0
    /\ version = 0
    /\ watched = FALSE
    /\ events = <<>>
    /\ pc = "add"
    /\ pool = 0
    /\ missed = FALSE

\* The file gets new content; op is what fsnotify reports of it, keeps whether it
\* goes on watching.
Change(content, op, keeps) ==
    /\ file' = content
    /\ watched' = (watched /\ keeps)
    /\ IF watched
       THEN /\ Len(events) < MaxEvents
            /\ events' = Append(events, op)
       ELSE UNCHANGED events
    /\ missed' = (missed \/ ~watched)
    /\ UNCHANGED <<pc, pool>>

WriteFile ==
    /\ file # Missing
    /\ version < MaxVersion
    /\ version' = version + 1
    /\ Change(version', "Write", TRUE)

\* A rename over the file.
ReplaceFile ==
    /\ file # Missing
    /\ version < MaxVersion
    /\ version' = version + 1
    /\ Change(version', "Remove", FALSE)

RemoveFile ==
    /\ file # Missing
    /\ UNCHANGED version
    /\ Change(Missing, "Remove", FALSE)

CreateFile ==
    /\ file = Missing
    /\ version < MaxVersion
    /\ version' = version + 1
    /\ Change(version', "Create", FALSE)

\* The watch is added to the file there is now, whatever was loaded.  Without a file
\* the constructor fails and with it the process, which starts again.
AddWatch ==
    /\ pc = "add"
    /\ watched' = (file # Missing)
    /\ pc' = IF file # Missing THEN "select" ELSE "load"
    /\ UNCHANGED <<file, version, events, pool, missed>>

\* A process that started again loads the pool; until there is a file it fails anew.
Load ==
    /\ pc = "load"
    /\ file # Missing
    /\ pool' = file
    /\ missed' = FALSE
    /\ pc' = "add"
    /\ UNCHANGED <<file, version, watched, events>>

\* watchCA receives an event and reloads the pool.  When the file cannot be read
\* it goes on to the next event, without adding the file again.
ReloadOnWriteOnly ==
    /\ pc = "select"
    /\ events # <<>>
    /\ events' = Tail(events)
    /\ IF file = Missing \/ Head(events) # "Write"
       THEN UNCHANGED <<pool, pc, missed>>
       ELSE /\ pool' = file
            /\ missed' = FALSE
            /\ UNCHANGED pc
    /\ UNCHANGED <<file, version, watched>>
Reload ==
    /\ pc = "select"
    /\ events # <<>>
    /\ events' = Tail(events)
    /\ IF file = Missing
       THEN UNCHANGED <<pool, pc, missed>>
       ELSE /\ pool' = file
            /\ missed' = FALSE
            /\ pc' = IF Head(events) = "Remove" THEN "rewatch" ELSE "select"
    /\ UNCHANGED <<file, version, watched>>

\* After the sleep the file is added again; an error is dropped.
Rewatch ==
    /\ pc = "rewatch"
    /\ pc' = "select"
    /\ watched' = (file # Missing)
    /\ UNCHANGED <<file, version, events, pool, missed>>

CANext ==
    \/ WriteFile \/ ReplaceFile \/ RemoveFile \/ CreateFile
    \/ AddWatch \/ Load \/ Reload \/ Rewatch

\* The process is started again when it ends, and the goroutine of watchCA keeps running.
CAFairness ==
    /\ WF_caVars(AddWatch) /\ WF_caVars(Load)
    /\ WF_caVars(Reload) /\ WF_caVars(Rewatch)

CASpec == CAInit /\ [][CANext]_caVars /\ CAFairness

-----------------------------------------------------------------------------

\* The variables range over the versions, the events and the places in watchCA.
CATypeOK ==
    /\ version \in 0..MaxVersion
    /\ file \in {Missing} \cup 0..version
    /\ pool \in 0..version
    /\ watched \in BOOLEAN /\ missed \in BOOLEAN
    /\ events \in Seq({"Write", "Remove", "Create"})
    /\ pc \in {"load", "add", "select", "rewatch"}

\* The pool is behind the file only while an event is on its way, or when a change
\* fell where nothing watched: between the load and the Add of NewCertAndCAWatcher,
\* after a Remove that found no file, or between the reload and the Add that follows
\* its sleep.
StaleOnlyIfMissed ==
    file # Missing /\ pool # file => events # <<>> \/ missed

\* Once the file stays and no change was missed, the pool comes to hold its last
\* version: reloading on every event, whatever its kind, is enough even when several
\* changes are reported after the fact (config/certwatcher.go, watchCA).
EventuallyLoaded == <>[](file # Missing /\ ~missed) => <>[](pool = file)
=============================================================================
