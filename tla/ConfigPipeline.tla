--------------------------- MODULE ConfigPipeline ---------------------------
(***************************************************************************)
(* How scrape configurations reach the target allocator.  A file watcher   *)
(* and a watcher of Prometheus custom resources (watcher/) send events on  *)
(* one unbuffered channel; the event loop of main.go loads the source's    *)
(* configuration and hands it to Discoverer.ApplyConfig, which merges all  *)
(* sources and, in this order, publishes the merged configuration on the   *)
(* HTTP server, gives it to the relabel filter (prehook/) and to           *)
(* Prometheus' discovery manager.  The manager then syncs targets, which   *)
(* pass the filter on their way to the allocator.  A second goroutine      *)
(* applies the configuration read at start; nothing orders the two.        *)
(*                                                                         *)
(* A configuration is the number of its version; Kind says what the code   *)
(* can do with it.                                                         *)
(***************************************************************************)
EXTENDS Naturals

CONSTANTS
    MaxVersion,     \* bound on the changes of each source
    Kind,           \* what can be done with each version of each source
    None            \* nothing applied yet

Source == {"file", "cr"}

\* "noload": LoadConfig fails; "nil": no Prometheus section, ApplyConfig gets
\* nil; "nomarshal": UpdateScrapeConfigResponse fails on it.
KindOf == {"good", "noload", "nil", "nomarshal"}

ASSUME VersionAssumption ==
    /\ MaxVersion \in [Source -> Nat]
    /\ None \notin Nat
    /\ \A s \in Source : Kind[s] \in [0..MaxVersion[s] -> KindOf]
    /\ Kind["file"][0] # "noload"
    /\ \A v \in 0..MaxVersion["cr"] : Kind["cr"][v] # "nil"

Version == UNION {0..MaxVersion[s] : s \in Source}

\* What each source contributes; None before its first ApplyConfig.
Config == [Source -> Version \cup {None}]

NoConfig == [s \in Source |-> None]

\* The two goroutines that call ApplyConfig.
Caller == {"init", "loop"}

VARIABLES
    content,    \* the file on disk, and the store of the CR informers
    handlerDue, \* the informers have a change that they have not notified
    notify,     \* notifyEvents, buffered with capacity 1
    limiter,    \* rateLimitedEventSender: "idle", or "holding" a notification
    fileWatch,  \* FileWatcher.Watch: "starting", "idle", or "sending" upstream
    fsEvent,    \* fsnotify has an event for the file watcher
    pc,         \* of each Caller
    source,     \* the event the event loop works on
    cfg,        \* the configuration each Caller applies
    configsMap, \* Discoverer.configsMap
    merged,     \* jobToScrapeConfig etc. of each Caller: a snapshot of configsMap,
                \* until ApplyConfig returns
    response,   \* Server.scrapeConfigResponse (and the secret one)
    hook,       \* RelabelConfigTargetFilter.relabelCfg
    manager,    \* what the discovery manager discovers by
    syncDue,    \* the manager has target sets to send on SyncCh
    synced,     \* the filter's and manager's configurations at the last sync
    raced,      \* history: "yes" once an event was applied before the initial ApplyConfig
                \* ended, "healing" while another is applied after it
    fileMissed  \* history: the file changed before the watcher was added, or the
                \* initial ApplyConfig stored an older one over it

watcherVars == <<content, handlerDue, notify, limiter, fileWatch, fsEvent, fileMissed>>
callerVars  == <<pc, source, cfg>>
appliedVars == <<configsMap, merged, response, hook, manager>>
syncVars    == <<syncDue, synced>>

vars == <<watcherVars, callerVars, appliedVars, syncVars, raced>>

\* main reads the file before it starts the goroutines; it exits when that fails.
Init ==
    /\ content = [s \in Source |-> 0]
    /\ handlerDue = TRUE
    /\ notify = FALSE
    /\ limiter = "idle"
    /\ fileWatch = "starting"
    /\ fsEvent = FALSE
    /\ pc = [init |-> "store", loop |-> "select"]
    /\ source = "file"
    /\ cfg = [c \in Caller |-> content["file"]]
    /\ configsMap = NoConfig
    /\ merged = [c \in Caller |-> NoConfig]
    /\ response = NoConfig
    /\ hook = NoConfig
    /\ manager = NoConfig
    /\ syncDue = FALSE
    /\ synced = [hook |-> NoConfig, manager |-> NoConfig]
    /\ raced = "no"
    /\ fileMissed = FALSE

-----------------------------------------------------------------------------
\* The custom resources and PrometheusCRWatcher.

\* A ServiceMonitor or PodMonitor changes in the informers' store.
ChangeCR ==
    /\ content["cr"] < MaxVersion["cr"]
    /\ content' = [content EXCEPT !["cr"] = @ + 1]
    /\ handlerDue' = TRUE
    /\ UNCHANGED <<notify, limiter, fileWatch, fsEvent, fileMissed,
                   callerVars, appliedVars, syncVars, raced>>

\* The handlers of Watch write to notifyEvents only if it is empty.
NotifyHandler ==
    /\ handlerDue
    /\ handlerDue' = FALSE
    /\ notify' = TRUE
    /\ UNCHANGED <<content, limiter, fileWatch, fsEvent, fileMissed,
                   callerVars, appliedVars, syncVars, raced>>

\* rateLimitedEventSender on a tick of its timer.
TakeNotification ==
    /\ limiter = "idle"
    /\ notify
    /\ limiter' = "holding"
    /\ notify' = FALSE
    /\ UNCHANGED <<content, handlerDue, fileWatch, fsEvent, fileMissed,
                   callerVars, appliedVars, syncVars, raced>>

\* The event loop receives an event from either watcher.
Receive(s) ==
    /\ pc["loop"] = "select"
    /\ pc' = [pc EXCEPT !["loop"] = "load"]
    /\ source' = s
    /\ UNCHANGED cfg

SendCR ==
    /\ limiter = "holding"
    /\ limiter' = "idle"
    /\ Receive("cr")
    /\ UNCHANGED <<content, handlerDue, notify, fileWatch, fsEvent, fileMissed,
                   appliedVars, syncVars, raced>>

\* The event loop is busy: the notification goes back unless there is one again.
PutBackDropped ==
    /\ limiter = "holding"
    /\ pc["loop"] # "select"
    /\ limiter' = "idle"
    /\ UNCHANGED <<content, handlerDue, notify, fileWatch, fsEvent, fileMissed,
                   callerVars, appliedVars, syncVars, raced>>
PutBack ==
    /\ limiter = "holding"
    /\ pc["loop"] # "select"
    /\ limiter' = "idle"
    /\ notify' = TRUE
    /\ UNCHANGED <<content, handlerDue, fileWatch, fsEvent, fileMissed,
                   callerVars, appliedVars, syncVars, raced>>

-----------------------------------------------------------------------------
\* The file and FileWatcher.

ChangeFile ==
    /\ content["file"] < MaxVersion["file"]
    /\ content' = [content EXCEPT !["file"] = @ + 1]
    /\ fsEvent' = (fileWatch # "starting")
    /\ fileMissed' = (fileWatch = "starting")
    /\ UNCHANGED <<handlerDue, notify, limiter, fileWatch,
                   callerVars, appliedVars, syncVars, raced>>

\* watcher.Add on the directory of the file.
AddFileWatch ==
    /\ fileWatch = "starting"
    /\ fileWatch' = "idle"
    /\ UNCHANGED <<content, handlerDue, notify, limiter, fsEvent, fileMissed,
                   callerVars, appliedVars, syncVars, raced>>

TakeFileEvent ==
    /\ fileWatch = "idle"
    /\ fsEvent
    /\ fsEvent' = FALSE
    /\ fileWatch' = "sending"
    /\ UNCHANGED <<content, handlerDue, notify, limiter, fileMissed,
                   callerVars, appliedVars, syncVars, raced>>

\* The file watcher blocks until the event loop takes the event.
SendFile ==
    /\ fileWatch = "sending"
    /\ fileWatch' = "idle"
    /\ Receive("file")
    /\ UNCHANGED <<content, handlerDue, notify, limiter, fsEvent, fileMissed,
                   appliedVars, syncVars, raced>>

-----------------------------------------------------------------------------
\* The event loop and Discoverer.ApplyConfig.

\* Where a Caller goes when ApplyConfig returns.
Return(c) == IF c = "init" THEN "done" ELSE "select"

LoadConfig ==
    /\ pc["loop"] = "load"
    /\ IF Kind[source][content[source]] = "noload"
       THEN /\ pc' = [pc EXCEPT !["loop"] = "select"]
            /\ UNCHANGED cfg
       ELSE /\ pc' = [pc EXCEPT !["loop"] = "store"]
            /\ cfg' = [cfg EXCEPT !["loop"] = content[source]]
    /\ UNCHANGED <<watcherVars, source, appliedVars, syncVars, raced>>

SourceOf(c) == IF c = "init" THEN "file" ELSE source

\* ApplyConfig up to the merge: nil is skipped, anything else replaces what the
\* source had before, be it newer.
StoreConfig(c) ==
    LET s    == SourceOf(c)
        skip == Kind[s][cfg[c]] = "nil"
    IN  /\ pc[c] = "store"
        /\ raced' = CASE c = "init" \/ skip -> raced
                     [] c = "loop" /\ ~skip /\ pc["init"] # "done" -> "yes"
                     [] c = "loop" /\ ~skip /\ pc["init"] = "done" ->
                          IF raced = "yes" THEN "healing" ELSE raced
        /\ IF skip
           THEN /\ pc' = [pc EXCEPT ![c] = Return(c)]
                /\ UNCHANGED <<configsMap, merged, fileMissed>>
           ELSE /\ pc' = [pc EXCEPT ![c] = "publish"]
                /\ configsMap' = [configsMap EXCEPT ![s] = cfg[c]]
                /\ merged' = [merged EXCEPT ![c] = configsMap']
                /\ fileMissed' = (fileMissed \/ (c = "init" /\ configsMap["file"] # None))
        /\ UNCHANGED <<content, handlerDue, notify, limiter, fileWatch, fsEvent,
                       source, cfg, response, hook, manager, syncVars>>

\* Whether the server can marshal a merged configuration.
Marshals(m) == \A s \in Source : m[s] # None => Kind[s][m[s]] # "nomarshal"

\* UpdateScrapeConfigResponse, on every call: the comparison of
\* m.scrapeConfigsHash with the new hash is one of pointers to two hash.Hash64, of
\* which one was just made, and they differ whatever was hashed.
Publish(c) ==
    /\ pc[c] = "publish"
    /\ Marshals(merged[c])
    /\ pc' = [pc EXCEPT ![c] = "hook"]
    /\ response' = merged[c]
    /\ UNCHANGED <<watcherVars, source, cfg, configsMap, merged, hook, manager, syncVars, raced>>

\* The error of UpdateScrapeConfigResponse ends ApplyConfig.
PublishFailsIgnored ==
    /\ pc["loop"] = "publish"
    /\ ~Marshals(merged["loop"])
    /\ pc' = [pc EXCEPT !["loop"] = "hook"]
    /\ UNCHANGED <<watcherVars, source, cfg, appliedVars, syncVars, raced>>
PublishFails ==
    /\ pc["loop"] = "publish"
    /\ ~Marshals(merged["loop"])
    /\ pc' = [pc EXCEPT !["loop"] = "select"]
    /\ merged' = [merged EXCEPT !["loop"] = NoConfig]
    /\ raced' = IF raced = "healing" THEN "yes" ELSE raced
    /\ UNCHANGED <<watcherVars, source, cfg, configsMap, response, hook, manager, syncVars>>

\* hook.SetConfig.
SetHookOnce(c) ==
    /\ pc[c] = "hook"
    /\ pc' = [pc EXCEPT ![c] = "manager"]
    /\ hook' = IF hook = NoConfig THEN merged[c] ELSE hook
    /\ UNCHANGED <<watcherVars, source, cfg, configsMap, merged, response,
                   manager, syncVars, raced>>
SetHook(c) ==
    /\ pc[c] = "hook"
    /\ pc' = [pc EXCEPT ![c] = "manager"]
    /\ hook' = merged[c]
    /\ UNCHANGED <<watcherVars, source, cfg, configsMap, merged, response,
                   manager, syncVars, raced>>

\* manager.ApplyConfig, which makes the manager send its target sets again.
ApplyToManager(c) ==
    /\ pc[c] = "manager"
    /\ pc' = [pc EXCEPT ![c] = Return(c)]
    /\ manager' = merged[c]
    /\ merged' = [merged EXCEPT ![c] = NoConfig]
    /\ syncDue' = TRUE
    /\ raced' = IF raced = "healing" THEN "no" ELSE raced
    /\ UNCHANGED <<watcherVars, source, cfg, configsMap, response, hook, synced>>

\* The initial configuration cannot be published: its actor returns the error,
\* which ends the run group and the process.
Down == pc["init"] = "publish" /\ ~Marshals(merged["init"])

\* The container is started again and reads the file anew; main exits at once
\* while that fails.
StartAgain ==
    /\ Kind["file"][content["file"]] # "noload"
    /\ handlerDue' = TRUE
    /\ notify' = FALSE
    /\ limiter' = "idle"
    /\ fileWatch' = "starting"
    /\ fsEvent' = FALSE
    /\ pc' = [init |-> "store", loop |-> "select"]
    /\ source' = "file"
    /\ cfg' = [c \in Caller |-> content["file"]]
    /\ configsMap' = NoConfig
    /\ merged' = [c \in Caller |-> NoConfig]
    /\ response' = NoConfig
    /\ hook' = NoConfig
    /\ manager' = NoConfig
    /\ syncDue' = FALSE
    /\ synced' = [hook |-> NoConfig, manager |-> NoConfig]
    /\ raced' = "no"
    /\ fileMissed' = FALSE
    /\ UNCHANGED content

Restart == Down /\ StartAgain

\* Both callers are at configsMap, which no lock guards: Go's runtime ends the process
\* if it sees them there.
ConcurrentMapWrites ==
    /\ \A c \in Caller : pc[c] = "store" /\ Kind[SourceOf(c)][cfg[c]] # "nil"
    /\ StartAgain

\* Discoverer.Watch, once the initial ApplyConfig is done: the target sets pass
\* RelabelConfigTargetFilter.Apply and go to the allocator.
Sync ==
    /\ pc["init"] = "done"
    /\ syncDue
    /\ syncDue' = FALSE
    /\ synced' = [hook |-> hook, manager |-> manager]
    /\ UNCHANGED <<watcherVars, callerVars, appliedVars, raced>>

Apply(c) == StoreConfig(c) \/ Publish(c) \/ SetHook(c) \/ ApplyToManager(c)

CRWatcherStep == NotifyHandler \/ TakeNotification \/ SendCR \/ PutBack

FileWatcherStep == AddFileWatch \/ TakeFileEvent \/ SendFile

LoopStep == LoadConfig \/ Apply("loop") \/ PublishFails

Next ==
    \/ ChangeCR
    \/ ChangeFile
    \/ ~Down /\ (CRWatcherStep \/ FileWatcherStep \/ LoopStep \/ Apply("init") \/ Sync)
    \/ Restart
    \/ ConcurrentMapWrites

\* Every goroutine keeps running; the sources change as they like.
Fairness ==
    /\ WF_vars(~Down /\ NotifyHandler)
    /\ WF_vars(~Down /\ (TakeNotification \/ SendCR \/ PutBack))
    /\ WF_vars(~Down /\ FileWatcherStep)
    /\ WF_vars(~Down /\ LoopStep)
    /\ WF_vars(~Down /\ Apply("init"))
    /\ WF_vars(~Down /\ Sync)
    /\ WF_vars(Restart)

Spec == Init /\ [][Next]_vars /\ Fairness

-----------------------------------------------------------------------------

\* The variables have the types of the code's fields and channels.
TypeOK ==
    /\ content \in [Source -> Version]
    /\ handlerDue \in BOOLEAN /\ notify \in BOOLEAN /\ fsEvent \in BOOLEAN
    /\ limiter \in {"idle", "holding"}
    /\ fileWatch \in {"starting", "idle", "sending"}
    /\ pc["init"] \in {"store", "publish", "hook", "manager", "done"}
    /\ pc["loop"] \in {"select", "load", "store", "publish", "hook", "manager"}
    /\ source \in Source
    /\ cfg \in [Caller -> Version]
    /\ merged \in [Caller -> Config]
    /\ {configsMap, response, hook, manager} \subseteq Config
    /\ synced \in [hook : Config, manager : Config]
    /\ raced \in {"no", "yes", "healing"}
    /\ {syncDue, fileMissed} \subseteq BOOLEAN

\* A change of the custom resources that is not applied is still announced
\* somewhere: by the informers, in notifyEvents, in the hands of the rate limiter
\* or of the event loop before it loads.  The capacity of one, the non-blocking
\* sends and the put-back lose no wake-up; only a failed LoadConfig does.
NoLostNotification ==
    configsMap["cr"] # content["cr"] =>
        \/ handlerDue
        \/ notify
        \/ limiter = "holding"
        \/ source = "cr" /\ pc["loop"] = "load"
        \/ source = "cr" /\ pc["loop"] = "store" /\ cfg["loop"] = content["cr"]
        \/ Kind["cr"][content["cr"]] = "noload"

\* No ApplyConfig is under way, and if the initial one was overtaken another one has
\* been completed since.
AtRest == raced = "no" /\ pc["init"] = "done" /\ pc["loop"] = "select"

\* Between two ApplyConfig calls the server, the filter and the manager have the
\* same configuration, and it is the merge of all sources unless that cannot be
\* published: a failure half-way leaves none of them ahead of the others, and what the
\* two callers mixed up at the start the next configuration puts right.
AppliedTogether ==
    AtRest =>
        /\ response = hook
        /\ response = manager
        /\ response = configsMap \/ ~Marshals(configsMap)

\* The targets the allocator has were found and filtered by the configuration
\* the server publishes: setting the filter before the manager makes the sync
\* that follows see both.
TargetsMatchConfig ==
    AtRest /\ ~syncDue => synced = [hook |-> response, manager |-> response]

\* A source's last configuration is in effect, unless it cannot be loaded or the
\* sources together cannot be published (then one bad source holds up the other),
\* or, for the file, it changed in the gap before the watcher was added or before the
\* initial configuration was stored.
Settled(s) ==
    \/ synced.manager[s] = content[s]
    \/ Kind[s][content[s]] \in {"noload", "nil"}
    \/ ~Marshals(configsMap)
    \/ s = "file" /\ fileMissed

\* Every change of the file or of the custom resources takes effect in the end, once the
\* process stays up, if no event overtook the initial ApplyConfig or another came after.
EventuallyApplied ==
    <>[](pc["init"] = "done" /\ raced = "no") => \A s \in Source : <>[]Settled(s)
=============================================================================
