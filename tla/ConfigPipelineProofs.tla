------------------------ MODULE ConfigPipelineProofs ------------------------
(***************************************************************************)
(* Proofs, for any number of changes of both sources and configurations of *)
(* any kind, that no change of the custom resources is forgotten on its    *)
(* way and that server, filter, manager and targets agree between two      *)
(* ApplyConfig calls.                                                      *)
(***************************************************************************)
EXTENDS ConfigPipeline, TLAPS

LoopPlace == {"select", "load", "store", "publish", "hook", "manager"}

InitPlace == {"store", "publish", "hook", "manager", "done"}

\* What the proofs need to know of the types of pc and the functions that are
\* changed at one place.
PlacesOK ==
    /\ DOMAIN pc = Caller
    /\ pc["loop"] \in LoopPlace
    /\ pc["init"] \in InitPlace
    /\ source \in Source
    /\ DOMAIN content = Source
    /\ DOMAIN cfg = Caller
    /\ DOMAIN merged = Caller
    /\ DOMAIN configsMap = Source

\* The places at the start.
LEMMA PlacesInit == Init => PlacesOK
BY DEF Init, PlacesOK, LoopPlace, InitPlace, Caller, Source, NoConfig

\* Every step leaves each goroutine at a place of its code.
LEMMA PlacesNext == PlacesOK /\ [Next]_vars => PlacesOK'
<1> SUFFICES ASSUME PlacesOK, [Next]_vars PROVE PlacesOK'
  OBVIOUS
<1> USE DEF PlacesOK, LoopPlace, InitPlace, Caller, Source, watcherVars, callerVars, appliedVars
<1>1. CASE ChangeCR \/ ChangeFile
  BY <1>1 DEF ChangeCR, ChangeFile
<1>2. CASE CRWatcherStep
  BY <1>2 DEF CRWatcherStep, NotifyHandler, TakeNotification, SendCR, PutBack, Receive
<1>3. CASE FileWatcherStep
  BY <1>3 DEF FileWatcherStep, AddFileWatch, TakeFileEvent, SendFile, Receive
<1>4. CASE LoadConfig \/ PublishFails
  BY <1>4 DEF LoadConfig, PublishFails
<1>5. ASSUME NEW c \in Caller, Apply(c) PROVE PlacesOK'
  <2>1. CASE StoreConfig(c)
    BY <1>5, <2>1 DEF StoreConfig, Return, SourceOf
  <2>2. CASE Publish(c) \/ SetHook(c)
    BY <1>5, <2>2 DEF Publish, SetHook
  <2>3. CASE ApplyToManager(c)
    BY <1>5, <2>3 DEF ApplyToManager, Return
  <2> QED BY <1>5, <2>1, <2>2, <2>3 DEF Apply
<1>6. CASE Restart \/ ConcurrentMapWrites
  BY <1>6 DEF Restart, ConcurrentMapWrites, StartAgain, NoConfig
<1>7. CASE Sync
  BY <1>7 DEF Sync
<1>8. CASE UNCHANGED vars
  BY <1>8 DEF vars
<1> QED BY <1>1, <1>2, <1>3, <1>4, <1>5, <1>6, <1>7, <1>8 DEF Next, LoopStep

-----------------------------------------------------------------------------
\* Notifications of the custom resources.

\* A change that was loaded and is not the last one any more is announced again.
StaleLoadAnnounced ==
    source = "cr" /\ pc["loop"] = "store" /\ cfg["loop"] # content["cr"] =>
        handlerDue \/ notify \/ limiter = "holding"

\* The configurations that the event loop stores for the custom resources exist.
LoadedKnown ==
    /\ content["cr"] \in 0..MaxVersion["cr"]
    /\ source = "cr" /\ pc["loop"] = "store" => Kind["cr"][cfg["loop"]] # "nil"

NotifyInv == PlacesOK /\ LoadedKnown /\ StaleLoadAnnounced /\ NoLostNotification

\* The informers announce what they find at the start.
LEMMA NotifyInit == Init => NotifyInv
<1> SUFFICES ASSUME Init PROVE NotifyInv
  OBVIOUS
<1>1. content["cr"] = 0 /\ pc["loop"] = "select"
  BY DEF Init, Source
<1>2. LoadedKnown
  BY <1>1, VersionAssumption DEF LoadedKnown, Source
<1> QED BY <1>1, <1>2, PlacesInit DEF Init, NotifyInv, StaleLoadAnnounced, NoLostNotification

\* Every step hands a notification on or applies what it announces.
LEMMA NotifyNext == NotifyInv /\ [Next]_vars => NotifyInv'
<1> SUFFICES ASSUME NotifyInv, [Next]_vars PROVE NotifyInv'
  OBVIOUS
<1>0. PlacesOK /\ PlacesOK'
  BY PlacesNext DEF NotifyInv
<1> USE <1>0 DEF NotifyInv, LoadedKnown, StaleLoadAnnounced, NoLostNotification, PlacesOK,
                 LoopPlace, Caller, Source, watcherVars, callerVars, appliedVars
<1>1. CASE ChangeCR
  BY <1>1, VersionAssumption DEF ChangeCR
<1>2. CASE ChangeFile
  BY <1>2 DEF ChangeFile
<1>3. CASE CRWatcherStep
  BY <1>3 DEF CRWatcherStep, NotifyHandler, TakeNotification, SendCR, PutBack, Receive
<1>4. CASE FileWatcherStep
  BY <1>4 DEF FileWatcherStep, AddFileWatch, TakeFileEvent, SendFile, Receive
<1>5. CASE LoadConfig
  BY <1>5, VersionAssumption DEF LoadConfig
<1>6. CASE PublishFails
  BY <1>6 DEF PublishFails
<1>7. ASSUME NEW c \in Caller, Apply(c) PROVE NotifyInv'
  <2>1. CASE StoreConfig(c) /\ c = "init"
    BY <1>7, <2>1 DEF StoreConfig, Return, SourceOf
  <2>2. CASE StoreConfig(c) /\ c = "loop"
    BY <1>7, <2>2 DEF StoreConfig, Return, SourceOf
  <2>3. CASE Publish(c) \/ SetHook(c)
    BY <1>7, <2>3 DEF Publish, SetHook
  <2>4. CASE ApplyToManager(c)
    BY <1>7, <2>4 DEF ApplyToManager, Return
  <2> QED BY <1>7, <2>1, <2>2, <2>3, <2>4 DEF Apply
<1>8. CASE Restart \/ ConcurrentMapWrites
  BY <1>8 DEF Restart, ConcurrentMapWrites, StartAgain
<1>9. CASE Sync
  BY <1>9 DEF Sync
<1>10. CASE UNCHANGED vars
  BY <1>10 DEF vars
<1> QED
  BY <1>1, <1>2, <1>3, <1>4, <1>5, <1>6, <1>7, <1>8, <1>9, <1>10 DEF Next, LoopStep

\* A change of the custom resources that is not applied is announced somewhere:
\* the channel of capacity one, the sends that do not block and the put-back of the
\* rate limiter lose no wake-up (promOperator.go, rateLimitedEventSender).
THEOREM AlwaysNoLostNotification == Spec => []NoLostNotification
<1>1. NotifyInv => NoLostNotification
  BY DEF NotifyInv
<1> QED BY <1>1, NotifyInit, NotifyNext, PTL DEF Spec

-----------------------------------------------------------------------------
\* The two callers of ApplyConfig.

Active(c) == pc[c] \in {"publish", "hook", "manager"}

\* How far a caller has come, when nobody else applies at the same time.
InStep(c) ==
    /\ Active(c) => merged[c] = configsMap
    /\ pc[c] \in {"hook", "manager"} => response = merged[c]
    /\ pc[c] = "manager" => hook = merged[c]

\* Without a race one caller applies at a time, and the three places differ only by
\* the steps it has made.  Healing, the event loop alone is applying, over whatever
\* the race left behind.
OneByOne ==
    /\ raced = "no" =>
           /\ pc["init"] # "done" => ~Active("loop")
           /\ \A c \in Caller : pc[c] = "hook" => hook = manager
           /\ (\A c \in Caller : pc[c] \notin {"hook", "manager"}) =>
                  response = hook /\ response = manager
           /\ (\A c \in Caller : ~Active(c)) =>
                  response = configsMap \/ ~Marshals(configsMap)
    /\ raced = "healing" => pc["init"] = "done" /\ Active("loop")
    /\ raced # "yes" => \A c \in Caller : InStep(c)

\* The targets were filtered and found by what filter and manager have, unless they
\* are to be sent again.
SyncedLast ==
    raced = "no" /\ ~syncDue /\ (\A c \in Caller : pc[c] # "manager") =>
        synced = [hook |-> hook, manager |-> manager]

ApplyInv == PlacesOK /\ OneByOne /\ SyncedLast /\ raced \in {"no", "yes", "healing"}

\* Nothing is applied at the start.
LEMMA ApplyInit == Init => ApplyInv
<1> SUFFICES ASSUME Init PROVE ApplyInv
  OBVIOUS
<1>1. pc["init"] = "store" /\ pc["loop"] = "select"
  BY DEF Init
<1>2. OneByOne
  BY <1>1 DEF Init, OneByOne, InStep, Active, Caller
<1>3. SyncedLast
  BY <1>1 DEF Init, SyncedLast
<1> QED BY <1>2, <1>3, PlacesInit DEF Init, ApplyInv

\* Every step of the two callers keeps them in step, or records the race.
LEMMA ApplyNext == ApplyInv /\ [Next]_vars => ApplyInv'
<1> SUFFICES ASSUME ApplyInv, [Next]_vars PROVE ApplyInv'
  OBVIOUS
<1>0. PlacesOK /\ PlacesOK'
  BY PlacesNext DEF ApplyInv
<1> USE <1>0 DEF ApplyInv, PlacesOK, OneByOne, SyncedLast, InStep, Active, Marshals,
                 LoopPlace, InitPlace, Caller, Source, watcherVars, callerVars, appliedVars, syncVars
<1>1. CASE ChangeCR \/ ChangeFile
  BY <1>1 DEF ChangeCR, ChangeFile
<1>2. CASE CRWatcherStep
  BY <1>2 DEF CRWatcherStep, NotifyHandler, TakeNotification, SendCR, PutBack, Receive
<1>3. CASE FileWatcherStep
  BY <1>3 DEF FileWatcherStep, AddFileWatch, TakeFileEvent, SendFile, Receive
<1>4. CASE LoadConfig
  BY <1>4 DEF LoadConfig
<1>5. CASE PublishFails
  BY <1>5 DEF PublishFails
<1>6. CASE StoreConfig("loop")
  BY <1>6 DEF StoreConfig, Return, SourceOf
<1>7. CASE StoreConfig("init")
  BY <1>7 DEF StoreConfig, Return, SourceOf
<1>8. ASSUME NEW c \in Caller, Publish(c) PROVE ApplyInv'
  BY <1>8 DEF Publish
<1>9. ASSUME NEW c \in Caller, SetHook(c) PROVE ApplyInv'
  BY <1>9 DEF SetHook
<1>10. ASSUME NEW c \in Caller, ApplyToManager(c) PROVE ApplyInv'
  BY <1>10 DEF ApplyToManager, Return
<1>11. CASE Restart \/ ConcurrentMapWrites
  BY <1>11 DEF Restart, ConcurrentMapWrites, StartAgain
<1>12. CASE Sync
  BY <1>12 DEF Sync
<1>13. CASE UNCHANGED vars
  BY <1>13 DEF vars
<1> QED
  BY <1>1, <1>2, <1>3, <1>4, <1>5, <1>6, <1>7, <1>8, <1>9, <1>10, <1>11, <1>12, <1>13
     DEF Next, LoopStep, Apply

\* Between two ApplyConfig calls the server, the filter and the manager hold the same
\* merge of all sources; what the two unordered callers mix up at the start is put
\* right by the next configuration that can be published (discovery.go, ApplyConfig).
THEOREM AlwaysAppliedTogether == Spec => []AppliedTogether
<1>1. ApplyInv => AppliedTogether
  BY DEF ApplyInv, OneByOne, AppliedTogether, AtRest, Active, Caller
<1> QED BY <1>1, ApplyInit, ApplyNext, PTL DEF Spec

\* The allocator's targets were found and filtered by the published configuration
\* (discovery.go, Watch; relabel.go, Apply).
THEOREM AlwaysTargetsMatchConfig == Spec => []TargetsMatchConfig
<1>1. ApplyInv => TargetsMatchConfig
  BY DEF ApplyInv, OneByOne, SyncedLast, TargetsMatchConfig, AtRest, Active, Caller
<1> QED BY <1>1, ApplyInit, ApplyNext, PTL DEF Spec

-----------------------------------------------------------------------------
\* Types.

\* The value a source contributes changes at one place of a configuration.
LEMMA ConfigChanges ==
    ASSUME NEW m \in Config, NEW s \in Source, NEW v \in Version
    PROVE  [m EXCEPT ![s] = v] \in Config
BY DEF Config

\* Nothing is applied at first.
LEMMA NoConfigIsConfig == NoConfig \in Config
BY DEF NoConfig, Config

\* The versions there are at the start.
LEMMA FirstVersion == 0 \in Version /\ Version \subseteq Nat
BY VersionAssumption DEF Version, Source

\* The process starts with what main reads.
LEMMA TypeInit == Init => TypeOK
<1> SUFFICES ASSUME Init PROVE TypeOK
  OBVIOUS
<1> USE FirstVersion, NoConfigIsConfig
<1>1. content \in [Source -> Version] /\ source \in Source /\ cfg \in [Caller -> Version]
  BY DEF Init, Source
<1>2. merged \in [Caller -> Config] /\ synced \in [hook : Config, manager : Config]
  BY DEF Init
<1>3. pc["init"] = "store" /\ pc["loop"] = "select"
  BY DEF Init
<1> QED BY <1>1, <1>2, <1>3 DEF Init, TypeOK

\* A change of a source is a version of it.
LEMMA ChangeIsVersion ==
    ASSUME content \in [Source -> Version], NEW s \in Source, content[s] < MaxVersion[s]
    PROVE  [content EXCEPT ![s] = @ + 1] \in [Source -> Version]
<1>1. content[s] \in Nat /\ MaxVersion[s] \in Nat
  BY FirstVersion, VersionAssumption
<1>2. content[s] + 1 \in 0..MaxVersion[s]
  BY <1>1
<1>3. content[s] + 1 \in Version
  BY <1>2 DEF Version
<1> QED BY <1>3

\* Every step of a watcher, of a caller of ApplyConfig and of the manager keeps the types.
LEMMA TypeNext == PlacesOK /\ PlacesOK' /\ TypeOK /\ [Next]_vars => TypeOK'
<1> SUFFICES ASSUME PlacesOK, PlacesOK', TypeOK, [Next]_vars PROVE TypeOK'
  OBVIOUS
<1>0. /\ pc'["init"] \in InitPlace /\ pc'["loop"] \in LoopPlace /\ source' \in Source
      /\ DOMAIN pc = Caller
  BY DEF PlacesOK
<1> USE DEF TypeOK, watcherVars, callerVars, appliedVars, syncVars
<1>1. CASE ChangeCR
  BY <1>1, ChangeIsVersion DEF ChangeCR, Source
<1>2. CASE ChangeFile
  BY <1>2, ChangeIsVersion DEF ChangeFile, Source
<1>3. CASE CRWatcherStep
  BY <1>0, <1>3 DEF CRWatcherStep, NotifyHandler, TakeNotification, SendCR, PutBack, Receive, LoopPlace, InitPlace
<1>4. CASE FileWatcherStep
  BY <1>0, <1>4 DEF FileWatcherStep, AddFileWatch, TakeFileEvent, SendFile, Receive, LoopPlace, InitPlace
<1>5. CASE LoadConfig
  BY <1>0, <1>5 DEF LoadConfig, LoopPlace, InitPlace
<1>6. CASE PublishFails
  BY <1>0, <1>6, NoConfigIsConfig DEF PublishFails, LoopPlace, InitPlace
<1>7. ASSUME NEW c \in Caller, Apply(c) PROVE TypeOK'
  <2>1. CASE StoreConfig(c)
    <3>1. SourceOf(c) \in Source /\ cfg[c] \in Version
      BY DEF SourceOf, Source
    <3>2. configsMap' \in Config
      BY <2>1, <3>1, ConfigChanges DEF StoreConfig
    <3>3. merged' \in [Caller -> Config]
      BY <2>1, <3>2 DEF StoreConfig
    <3>4. raced' \in {"no", "yes", "healing"} /\ fileMissed' \in BOOLEAN
      BY <1>0, <2>1 DEF StoreConfig, Caller
    <3> QED BY <1>0, <2>1, <3>2, <3>3, <3>4 DEF StoreConfig, LoopPlace, InitPlace
  <2>2. CASE Publish(c) \/ SetHook(c)
    BY <1>0, <1>7, <2>2 DEF Publish, SetHook, LoopPlace, InitPlace
  <2>3. CASE ApplyToManager(c)
    BY <1>0, <1>7, <2>3, NoConfigIsConfig DEF ApplyToManager, LoopPlace, InitPlace
  <2> QED BY <1>7, <2>1, <2>2, <2>3 DEF Apply
<1>8. CASE Restart \/ ConcurrentMapWrites
  <2>1. content["file"] \in Version
    BY DEF Source
  <2>2. cfg' \in [Caller -> Version] /\ merged' \in [Caller -> Config]
        /\ synced' \in [hook : Config, manager : Config]
    BY <1>8, <2>1, NoConfigIsConfig DEF Restart, ConcurrentMapWrites, StartAgain
  <2> QED BY <1>0, <1>8, <2>2, NoConfigIsConfig
          DEF Restart, ConcurrentMapWrites, StartAgain, LoopPlace, InitPlace
<1>9. CASE Sync
  BY <1>9 DEF Sync
<1>10. CASE UNCHANGED vars
  BY <1>10 DEF vars
<1> QED
  BY <1>1, <1>2, <1>3, <1>4, <1>5, <1>6, <1>7, <1>8, <1>9, <1>10 DEF Next, LoopStep, Caller

\* What is stored, merged, published, filtered by and discovered by is always made of
\* versions the sources have had, across crashes and restarts too.
THEOREM PipelineTypeCorrect == Spec => []TypeOK
BY PlacesInit, PlacesNext, TypeInit, TypeNext, PTL DEF Spec
=============================================================================
