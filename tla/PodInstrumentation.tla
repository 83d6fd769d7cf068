------------------------- MODULE PodInstrumentation -------------------------
(***************************************************************************)
(* The injection of instrumentation into a pod (pkg/instrumentation) as    *)
(* operators from pods to pods.                                            *)
(*                                                                         *)
(* An annotation's value is the sequence of its parts between commas, so   *)
(* <<"">> is the empty one.  A pod keeps its annotations, containers, init *)
(* containers, volumes and the few fields the code looks at; a container   *)
(* its name, environment, mounts, security context and whether it has      *)
(* lifecycle hooks.  cl is what the operator reads of the cluster:         *)
(* instances, config maps, the agent's configuration, ReplicaSets, its     *)
(* own settings and feature gates.                                         *)
(***************************************************************************)
EXTENDS DefaultInstrumentation, FiniteSets

----------------------------------------------------------------------------
\* Annotations.  Keys are pairs <<what, language>>.

None == <<"">>

Annotation(ann, key) == IF key \in DOMAIN ann THEN ann[key] ELSE None

\* ann: the annotations of the pod.
annotationValue(ns, ann, key) ==
    LET inNs  == Annotation(ns.ann, key)
        inPod == Annotation(ann, key)
    IN  IF \/ inNs = None
           \/ inPod \notin {None, <<"true">>}
           \/ inPod = <<"true">> /\ inNs = <<"false">>
          THEN inPod
          ELSE inNs

InjectKey(lang) == <<"inject", lang>>

\* Without multi-instrumentation one annotation names the containers for all.
NamesKey(lang, cl) ==
    IF "multi" \in cl.gates THEN <<"names", lang>> ELSE <<"names", "any">>

SupportedTargets == <<"jvm", "tomcat", "kafka", "kafka-consumer", "kafka-producer">>

getJmxTargetSystems(ns, ann) ==
    SelectSeq(SupportedTargets, LAMBDA t : annotationValue(ns, ann, <<"jmx", t>>) = <<"true">>)

----------------------------------------------------------------------------
\* Environment variables.

HasEnv(envs, name) == \E i \in DOMAIN envs : envs[i].name = name

getIndexOfEnv(envs, name) ==
    CHOOSE i \in DOMAIN envs :
        envs[i].name = name /\ \A j \in 1 .. i - 1 : envs[j].name # name

getEnvValue(envs, name) ==
    IF HasEnv(envs, name) THEN envs[getIndexOfEnv(envs, name)].val ELSE <<>>

\* env, unless there is one of its name.
AddIfAbsent(envs, env) == IF HasEnv(envs, env.name) THEN envs ELSE Append(envs, env)

AddAllIfAbsent(envs, more) ==
    LET upto[k \in 0 .. Len(more)] == IF k = 0 THEN envs ELSE AddIfAbsent(upto[k - 1], more[k])
    IN  upto[Len(more)]

\* Put before and after around the value of the variable, or set it.
Surround(envs, name, before, after) ==
    IF HasEnv(envs, name)
      THEN [envs EXCEPT ![getIndexOfEnv(envs, name)].val = before \o @ \o after]
      ELSE Append(envs, Env(name, before \o after))

moveEnvToListEndNot(envs, name) == envs

moveEnvToListEnd(envs, name) ==
    LET i == getIndexOfEnv(envs, name) IN Append(RemoveAt(envs, i), envs[i])

validateContainerEnv(envs, names) ==
    \A n \in names : HasEnv(envs, n) => ~envs[getIndexOfEnv(envs, n)].ref

\* A config map that cannot be read is left out.
resolveEnvFrom(container, cl) ==
    FlattenSeq([i \in DOMAIN container.envFrom |->
        IF container.envFrom[i] \in DOMAIN cl.configMaps
          THEN cl.configMaps[container.envFrom[i]] ELSE <<>>])

getAllEnvVars(container, cl) ==
    container.env \o SelectSeq(resolveEnvFrom(container, cl),
                               LAMBDA e : ~HasEnv(container.env, e.name))

OtlpEndpoints ==
    {"OTEL_EXPORTER_OTLP_ENDPOINT", "OTEL_EXPORTER_OTLP_TRACES_ENDPOINT",
     "OTEL_EXPORTER_OTLP_METRICS_ENDPOINT", "OTEL_EXPORTER_OTLP_LOGS_ENDPOINT"}

\* No user that is certain not to be root.
NonRootWithoutUser(pod, container) ==
    \/ pod.sc.nonRoot /\ ~pod.sc.user
    \/ container.sc.nonRoot /\ ~container.sc.user /\ ~pod.sc.user

shouldInjectADOTSDKAnyone(envs, pod, container) == ~NonRootWithoutUser(pod, container)

shouldInjectADOTSDK(envs, pod, container) ==
    /\ ~NonRootWithoutUser(pod, container)
    /\ \/ getEnvValue(envs, SignalsEnabled) = <<"true">>
       \/ \A n \in OtlpEndpoints : getEnvValue(envs, n) \in {<<>>, <<Agent>>}

shouldInjectEnvVar(envs, name) ==
    /\ getEnvValue(envs, name) = <<>>
    /\ getEnvValue(envs, SignalsEnabled) # <<"false">>

----------------------------------------------------------------------------
\* Containers.

Names(containers) == {containers[i].name : i \in DOMAIN containers}

isInitContainerMissingAlways(pod, name) == TRUE

isInitContainerMissing(pod, name) == name \notin Names(pod.init)

sideCarName == "go-agent"

CollectorContainer == "otc-container"       \* naming.Container()

EnvNodeName == "OTEL_RESOURCE_ATTRIBUTES_NODE_NAME"

isAutoInstrumentationInjectedInit(pod) ==
    Names(pod.init) \cap {"dotnet", "java", "nodejs", "python", "apache"} # {}

isAutoInstrumentationInjected(pod) ==
    \/ Names(pod.init) \cap {"dotnet", "java", "nodejs", "python", "apache", "clone"} # {}
    \/ sideCarName \in Names(pod.containers)
    \/ \E i \in DOMAIN pod.containers :
           /\ pod.containers[i].name # CollectorContainer
           /\ HasEnv(pod.containers[i].env, EnvNodeName)

isOtcContainer(container) == container.name = CollectorContainer \/ container.otelImage

otcContainerExistsIn(pod) ==
    /\ Len(pod.containers) + Len(pod.init) # 1
    /\ \E c \in ToSet(pod.containers) \cup ToSet(pod.init) : isOtcContainer(c)

\* The last container of that name; the first of all if there is none.
getContainerIndex(name, pod) ==
    LET named == {i \in DOMAIN pod.containers : pod.containers[i].name = name}
    IN  IF named = {} THEN 1 ELSE CHOOSE i \in named : \A j \in named : j <= i

Mount(volume, path) == [volume |-> volume, path |-> path]

NoSecurityContext == [nonRoot |-> FALSE, user |-> FALSE]

Container(name, env, mounts) ==
    [name |-> name, env |-> env, mounts |-> mounts, envFrom |-> <<>>,
     sc |-> NoSecurityContext, lifecycle |-> FALSE, otelImage |-> FALSE, version |-> FALSE]

setInitContainerSecurityContext(pod, i, name) ==
    [pod EXCEPT !.init = [k \in DOMAIN @ |->
        IF @[k].name = name THEN [@[k] EXCEPT !.sc = pod.containers[i].sc] ELSE @[k]]]

----------------------------------------------------------------------------
\* Resource attributes.  A map is the set of its keys.

ResourceAttrs == "OTEL_RESOURCE_ATTRIBUTES"

\* The name (and uid) of the owner; a ReplicaSet that is found names its
\* Deployment.  The read is retried while the ReplicaSet is not found.
addParentResourceLabels(owner, uid, cl) ==
    LET owners == {owner} \cup (IF owner = "replicaset" /\ cl.replicaSetFound
                                  THEN {"deployment"} ELSE {})
    IN  (owners \ {"none"}) \cup (IF uid /\ owner # "none" THEN {"owneruid"} ELSE {})

Existing(container) == ToSet(getEnvValue(container.env, ResourceAttrs))

createResourceMap(inst, pod, i, cl) ==
    LET k8s == {"namespace", "container"}
                 \cup (IF pod.named THEN {"pod", "instance"} ELSE {})
                 \cup (IF pod.uid THEN {"poduid"} ELSE {})
                 \cup (IF pod.scheduled THEN {"node"} ELSE {})
                 \cup addParentResourceLabels(pod.owner, inst.uid, cl)
    IN  (inst.attrs \cup k8s) \ Existing(pod.containers[i])

\* The keys in order; "custom" stands for what an instance adds of its own.
resourceMapToStr(resources) ==
    SelectSeq(<<"source", "custom", "container", "cronjob", "daemonset", "deployment", "job",
                "namespace", "node", "owneruid", "pod", "poduid", "replicaset", "instance",
                "version", "statefulset">>, LAMBDA k : k \in resources)

\* Of the owners, the first in this order; else the pod, else the container.
chooseServiceName(resources) ==
    LET order == SelectSeq(<<"deployment", "replicaset", "statefulset", "daemonset",
                             "cronjob", "job", "pod">>, LAMBDA k : k \in resources)
    IN  IF order = <<>> THEN "container" ELSE Head(order)

PodNameEnv == "OTEL_RESOURCE_ATTRIBUTES_POD_NAME"
PodUIDEnv == "OTEL_RESOURCE_ATTRIBUTES_POD_UID"

injectCommonEnvVar(inst, pod, i) ==
    [pod EXCEPT !.containers[i].env = AddAllIfAbsent(@, inst.env)]

\* The service's name and, if the instance has one, the endpoint.
AddService(inst, envs, resources) ==
    AddAllIfAbsent(envs,
        <<Env("OTEL_SERVICE_NAME", <<chooseServiceName(resources)>>)>>
          \o (IF inst.endpoint THEN <<Env("OTEL_EXPORTER_OTLP_ENDPOINT", <<Agent>>)>> ELSE <<>>))

\* The attributes that are taken from the downward API.
Referred(inst, resources, existing) ==
    ({"pod", "node"} \ (existing \cup resources))
      \cup (IF inst.uid THEN {"poduid"} \ resources ELSE {})

ReferenceEnvs(keys) ==
    LET Ref(key, name) == IF key \in keys THEN <<EnvRef(name)>> ELSE <<>>
    IN  Ref("pod", PodNameEnv) \o Ref("poduid", PodUIDEnv) \o Ref("node", EnvNodeName)

\* app: the container the attributes are about.
AddAttributes(envs, app, resources, referred) ==
    LET version == IF app.version /\ "version" \notin ToSet(getEnvValue(envs, ResourceAttrs))
                     THEN {"version"} ELSE {}
        source  == {"source"} \ Existing(app)
    IN  Surround(envs \o ReferenceEnvs(referred), ResourceAttrs, <<>>,
                 resourceMapToStr(resources \cup referred \cup version \cup source))

AddPropagators(inst, envs) ==
    IF inst.propagators THEN AddIfAbsent(envs, Env("OTEL_PROPAGATORS", <<"set">>)) ELSE envs

AddSampler(inst, envs) ==
    IF /\ inst.sampler
       /\ ~HasEnv(envs, "OTEL_TRACES_SAMPLER")
       /\ ~HasEnv(envs, "OTEL_TRACES_SAMPLER_ARG")
      THEN envs \o Envs(<<"OTEL_TRACES_SAMPLER">>, "set")
             \o (IF inst.arg THEN Envs(<<"OTEL_TRACES_SAMPLER_ARG">>, "set") ELSE <<>>)
      ELSE envs

SDKEnvs(inst, envs, app, resources) ==
    AddSampler(inst,
      AddPropagators(inst,
        AddAttributes(AddService(inst, envs, resources), app, resources,
                      Referred(inst, resources, Existing(app)))))

\* a: the container that gets the variables; app: the one they are about.
injectCommonSDKConfig(inst, pod, a, app, cl) ==
    [pod EXCEPT !.containers[a].env =
        moveEnvToListEnd(SDKEnvs(inst, @, pod.containers[app],
                                 createResourceMap(inst, pod, app, cl)),
                         ResourceAttrs)]

----------------------------------------------------------------------------
\* The languages that share a template: options in the environment, a volume,
\* an init container that copies the agent to it.

SpecEnvs(spec, allEnvs) ==
    Those(spec, {k \in DOMAIN spec : shouldInjectEnvVar(allEnvs, spec[k].name)})

\* Mount the agent; the first container also brings volume and init container.
AttachAgent(lang, pod, i, env) ==
    LET p == [pod EXCEPT !.containers[i].env = env,
                         !.containers[i].mounts = Append(@, Mount(lang, lang))]
    IN  IF isInitContainerMissing(p, lang)
          THEN [p EXCEPT !.volumes = Append(@, lang),
                         !.init = Append(@, Container(lang, <<>>, <<Mount(lang, lang)>>))]
          ELSE p

injectJavaagent(spec, pod, i, allEnvs) ==
    AttachAgent("java", pod, i,
                Surround(pod.containers[i].env \o SpecEnvs(spec, allEnvs),
                         "JAVA_TOOL_OPTIONS", <<>>, <<"javaagent">>))

injectNodeJSSDK(spec, pod, i, allEnvs) ==
    AttachAgent("nodejs", pod, i,
                Surround(pod.containers[i].env \o SpecEnvs(spec, allEnvs),
                         "NODE_OPTIONS", <<>>, <<"require">>))

Exporters ==
    <<"OTEL_TRACES_EXPORTER", "OTEL_EXPORTER_OTLP_TRACES_PROTOCOL", "OTEL_METRICS_EXPORTER",
      "OTEL_EXPORTER_OTLP_METRICS_PROTOCOL">>

\* They are looked up among the container's own variables only, and none of them changes
\* what is found for the next.
AddExporters(own) ==
    own \o Envs(Those(Exporters, {k \in DOMAIN Exporters : shouldInjectEnvVar(own, Exporters[k])}),
               "otlp")

injectPythonSDK(spec, pod, i, allEnvs) ==
    AttachAgent("python", pod, i,
                AddExporters(Surround(pod.containers[i].env \o SpecEnvs(spec, allEnvs),
                                      "PYTHONPATH", <<"prefix">>, <<"suffix">>)))

\* The variables that an agent is added to.
OptionVars(lang) ==
    CASE lang = "java"   -> {"JAVA_TOOL_OPTIONS"}
      [] lang = "nodejs" -> {"NODE_OPTIONS"}
      [] lang = "python" -> {"PYTHONPATH"}
      [] lang = "dotnet" -> {"DOTNET_STARTUP_HOOKS", "DOTNET_ADDITIONAL_DEPS",
                             "DOTNET_SHARED_STORE"}

\* A value that is there is kept, or joined with the agent's.
setDotNetEnvVar(envs, name, concat) ==
    IF HasEnv(envs, name) /\ ~concat THEN envs ELSE Surround(envs, name, <<>>, <<"dotnet">>)

DotNetVars ==
    <<"CORECLR_ENABLE_PROFILING", "CORECLR_PROFILER", "CORECLR_PROFILER_PATH",
      "DOTNET_STARTUP_HOOKS", "DOTNET_ADDITIONAL_DEPS", "OTEL_DOTNET_AUTO_HOME",
      "DOTNET_SHARED_STORE">>

AddDotNet(own) ==
    LET upto[k \in 0 .. Len(DotNetVars)] ==
            IF k = 0 THEN own
            ELSE setDotNetEnvVar(upto[k - 1], DotNetVars[k], DotNetVars[k] \in OptionVars("dotnet"))
    IN  upto[Len(DotNetVars)]

injectDotNetSDK(spec, pod, i, allEnvs) ==
    AttachAgent("dotnet", pod, i,
                AddDotNet(pod.containers[i].env \o SpecEnvs(spec, allEnvs)))

DotNetRuntimes == {None, <<"linux-x64">>, <<"linux-musl-x64">>}

\* The errors of the four injectors, found before anything is changed.
Refuses(lang, spec, pod, i, runtime, allEnvs) ==
    LET container == pod.containers[i]
    IN  \/ ~validateContainerEnv(container.env, OptionVars(lang))
        \/ ~shouldInjectADOTSDK(allEnvs, pod, container)
        \/ /\ lang = "dotnet"
           /\ \/ HasEnv(allEnvs, "OTEL_DOTNET_AUTO_HOME")
              \/ HasEnv(spec, "OTEL_DOTNET_AUTO_HOME")
              \/ runtime \notin DotNetRuntimes

Inject(lang, spec, pod, i, allEnvs) ==
    CASE lang = "java"   -> injectJavaagent(spec, pod, i, allEnvs)
      [] lang = "nodejs" -> injectNodeJSSDK(spec, pod, i, allEnvs)
      [] lang = "python" -> injectPythonSDK(spec, pod, i, allEnvs)
      [] lang = "dotnet" -> injectDotNetSDK(spec, pod, i, allEnvs)

CommonConfig(inst, pod, i, cl) ==
    injectCommonSDKConfig(inst, injectCommonEnvVar(inst, pod, i), i, i, cl)

\* The init container runs as the container does; only Java leaves it as it is.
RunAsContainer(lang, pod, i) ==
    IF lang = "java" THEN pod ELSE setInitContainerSecurityContext(pod, i, lang)

\* One container; allEnvs was read before any language was injected.
InstrumentContainer(lang, inst, pod, i, runtime, allEnvs, cl) ==
    IF Refuses(lang, inst.langEnv[lang], pod, i, runtime, allEnvs)
      THEN pod
      ELSE RunAsContainer(lang,
             CommonConfig(inst, Inject(lang, inst.langEnv[lang], pod, i, allEnvs), i, cl), i)

----------------------------------------------------------------------------
\* Go: a privileged container of its own, beside the application's.

TargetExe == "OTEL_GO_AUTO_TARGET_EXE"

GoRefuses(pod, cl) ==
    pod.shareProcesses = "no" \/ Len(Annotation(pod.ann, NamesKey("go", cl))) > 1

\* An annotation that is there but empty sets the variable too.
injectGoSDK(spec, pod) ==
    LET key == <<"exe", "go">>
        env == IF key \in DOMAIN pod.ann THEN <<Env(TargetExe, pod.ann[key])>> ELSE <<>>
    IN  [pod EXCEPT
           !.shareProcesses = "yes",
           !.containers = Append(@, Container(sideCarName, AddAllIfAbsent(env, spec),
                                              <<Mount("kernel-debug", "debug")>>)),
           !.volumes = Append(@, "kernel-debug")]

\* The agent's container is the last, the application's is taken to be the first.
ConfigureGo(inst, pod, cl) ==
    LET last == Len(pod.containers)
    IN  injectCommonSDKConfig(inst, injectCommonEnvVar(inst, pod, last), last, 1, cl)

\* Everything is taken back if no target is known in the end.
IfTargetKnown(pod, otherwise) ==
    IF HasEnv(Last(pod.containers).env, TargetExe) THEN pod ELSE otherwise

InstrumentGo(inst, pod, cl) ==
    IF GoRefuses(pod, cl)
      THEN pod
      ELSE IfTargetKnown(ConfigureGo(inst, injectGoSDK(inst.langEnv["go"], pod), cl), pod)

----------------------------------------------------------------------------
\* Apache and Nginx: the application's container is cloned to copy its
\* configuration, which then replaces the mount the application had.

ConfigPath == "conf"

\* The paths in which that of the configuration is found.
ConfigPaths == {ConfigPath, "conf/extra"}

\* Only the first mount of such a path is dropped.
DropConfigMount(mounts) ==
    LET conf == {k \in DOMAIN mounts : mounts[k].path \in ConfigPaths}
    IN  IF conf = {} THEN mounts
        ELSE RemoveAt(mounts, CHOOSE k \in conf : \A j \in conf : k <= j)

\* agent, config: the two volumes; hooks: whether the clone keeps the container's hooks.
\* The clone has the same name for both.
Clone(pod, i, agent, config, hooks) ==
    LET container == pod.containers[i]
    IN  IF ~isInitContainerMissing(pod, "clone")
          THEN pod
          ELSE [pod EXCEPT
                  !.volumes = Append(@, config),
                  !.init = Append(@, [container EXCEPT
                                        !.name = "clone",
                                        !.lifecycle = @ /\ hooks,
                                        !.mounts = Append(@, Mount(config, "source-conf"))]),
                  !.containers[i].mounts =
                      DropConfigMount(@) \o <<Mount(agent, "agent"), Mount(config, ConfigPath)>>]

Attach(pod, name, env, agent, config, sc) ==
    [pod EXCEPT
       !.volumes = Append(@, agent),
       !.init = Append(@, [Container(name, env, <<Mount(agent, "agent"),
                                                  Mount(config, "source-conf")>>)
                             EXCEPT !.sc = sc])]

\* The settings of the module: where to send telemetry, and under which name.
getApacheOtelConfig(inst, resources) ==
    <<Env("OTEL_APACHE_AGENT_CONF",
          <<IF inst.endpoint THEN Agent ELSE "localhost", chooseServiceName(resources)>>),
      EnvRef("APACHE_SERVICE_INSTANCE_ID")>>

getNginxOtelConfig(inst, resources) ==
    <<Env("OTEL_NGINX_AGENT_CONF",
          <<IF inst.endpoint THEN Agent ELSE "localhost", chooseServiceName(resources)>>),
      EnvRef("OTEL_NGINX_SERVICE_INSTANCE_ID")>>

injectApacheHttpdagent(spec, pod, i, conf) ==
    LET p == [pod EXCEPT !.containers[i].env = AddAllIfAbsent(@, spec)]
        q == Clone(p, i, "apache-agent", "apache-conf", TRUE)
    IN  IF isInitContainerMissing(q, "apache")
          THEN Attach(q, "apache", conf, "apache-agent", "apache-conf", NoSecurityContext)
          ELSE q

injectNginxSDK(spec, pod, i, conf) ==
    LET p == [pod EXCEPT !.containers[i].env = AddAllIfAbsent(@, spec)]
        q == Clone(p, i, "nginx-agent", "nginx-conf", FALSE)
    IN  IF isInitContainerMissing(q, "nginx")
          THEN [Attach(q, "nginx", conf, "nginx-agent", "nginx-conf", q.containers[i].sc) EXCEPT
                  !.containers[i].env = Surround(@, "LD_LIBRARY_PATH", <<>>, <<"sdk_lib">>)]
          ELSE q

InstrumentApache(inst, pod, i, cl) ==
    LET conf == getApacheOtelConfig(inst, createResourceMap(inst, pod, i, cl))
        p    == CommonConfig(inst, injectApacheHttpdagent(inst.langEnv["apache"], pod, i, conf),
                             i, cl)
    IN  setInitContainerSecurityContext(setInitContainerSecurityContext(p, i, "apache"),
                                        i, "clone")

InstrumentNginx(inst, pod, i, cl) ==
    LET conf == getNginxOtelConfig(inst, createResourceMap(inst, pod, i, cl))
    IN  CommonConfig(inst, injectNginxSDK(inst.langEnv["nginx"], pod, i, conf), i, cl)

----------------------------------------------------------------------------
\* asked: for each language that has an instance, the instance, the names of
\* the containers and the .NET runtime.

\* One language in one container.  allEnvs: the variables of every container before any
\* language was injected.
Instrument(asked, lang, pod, i, allEnvs, cl) ==
    LET inst == asked[lang].inst
    IN  CASE lang = "apache" -> InstrumentApache(inst, pod, i, cl)
          [] lang = "nginx"  -> InstrumentNginx(inst, pod, i, cl)
          [] lang = "sdk"    -> CommonConfig(inst, pod, i, cl)
          [] OTHER -> InstrumentContainer(lang, inst, pod, i, asked[lang].runtime, allEnvs[i], cl)

\* In the container of each name, one after another.
InstrumentEach(asked, lang, pod, allEnvs, cl) ==
    LET names == asked[lang].names
        upto[k \in 0 .. Len(names)] ==
            IF k = 0 THEN pod
            ELSE LET p == upto[k - 1]
                 IN  Instrument(asked, lang, p, getContainerIndex(names[k], p), allEnvs, cl)
    IN  upto[Len(names)]

InjectLanguage(asked, lang, pod, allEnvs, cl) ==
    CASE lang \notin DOMAIN asked -> pod
      [] lang \in DOMAIN asked /\ lang = "go" -> InstrumentGo(asked[lang].inst, pod, cl)
      [] lang \in DOMAIN asked /\ lang # "go" -> InstrumentEach(asked, lang, pod, allEnvs, cl)

InjectionOrder == <<"java", "nodejs", "python", "dotnet", "go", "apache", "nginx", "sdk">>

InjectAll(asked, pod, allEnvs, cl) ==
    LET upto[k \in 0 .. Len(InjectionOrder)] ==
            IF k = 0 THEN pod
            ELSE InjectLanguage(asked, InjectionOrder[k], upto[k - 1], allEnvs, cl)
    IN  upto[Len(InjectionOrder)]

inject(asked, pod, cl) ==
    IF pod.containers = <<>> \/ otcContainerExistsIn(pod)
      THEN pod
      ELSE InjectAll(asked, pod,
                     [i \in DOMAIN pod.containers |-> getAllEnvVars(pod.containers[i], cl)], cl)

----------------------------------------------------------------------------
\* The mutator.  Errors are TRUE in the field err.

Chosen(insts) == [err |-> FALSE, insts |-> insts]

Failed == [err |-> TRUE, insts |-> {}]

selectInstrumentationInstanceFromNamespace(ns, ann, lang, cl) ==
    LET here == {i \in cl.instances : i.ns = ns.name}
        jmx  == IF lang = "java" THEN getJmxTargetSystems(ns, ann) ELSE <<>>
    IN  CASE Cardinality(here) = 1   -> Chosen(here)
          [] here = {} /\ cl.images -> Chosen({getDefaultInstrumentation(cl.signals,
                                                                        cl.settings, jmx)})
          [] OTHER                   -> Failed

\* The value names an instance of this namespace, or <<namespace, name>>.
getInstrumentationInstance(ns, ann, lang, cl) ==
    LET value == annotationValue(ns, ann, InjectKey(lang))
        named == {i \in cl.instances :
                    value \in {<<i.name>>, <<i.ns, i.name>>}
                      /\ (Len(value) = 1 => i.ns = ns.name)}
    IN  CASE value \in {None, <<"false">>} -> Chosen({})
          [] value = <<"true">> -> selectInstrumentationInstanceFromNamespace(ns, ann, lang, cl)
          [] OTHER -> IF named = {} THEN Failed ELSE Chosen(named)

LanguageOrder ==
    <<"java", "nodejs", "python", "dotnet", "apache", "nginx", "go", "sdk">>

isSingleInstrumentationEnabled(langs) == Cardinality(langs) = 1

areContainerNamesConfiguredForMultipleInstrumentations(langs, names, cl) ==
    LET order   == SelectSeq(LanguageOrder, LAMBDA l : l \in langs)
        listed  == FlattenSeq([k \in DOMAIN order |-> names[order[k]]])
        without == {l \in langs : names[l] = None}
    IN  \/ "skipValidation" \in cl.gates
        \/ /\ \A j, k \in DOMAIN listed : listed[j] = listed[k] /\ listed[j] # "" => j = k
           /\ without # {} => without = langs /\ Cardinality(langs) = 1

\* The languages that are asked for and enabled.
EnabledLanguages(ns, ann, cl) ==
    {l \in Languages : /\ getInstrumentationInstance(ns, ann, l, cl).insts # {}
                       /\ l = "sdk" \/ l \in cl.gates}

Asked(ns, ann, cl) ==
    [l \in EnabledLanguages(ns, ann, cl) |->
       [inst    |-> CHOOSE i \in getInstrumentationInstance(ns, ann, l, cl).insts : TRUE,
        names   |-> annotationValue(ns, ann, NamesKey(l, cl)),
        runtime |-> annotationValue(ns, ann, <<"runtime", "dotnet">>)]]

\* There are some, and they may be together.
InjectionAllowed(ns, ann, cl) ==
    LET langs == EnabledLanguages(ns, ann, cl)
        names == [l \in langs |-> annotationValue(ns, ann, NamesKey(l, cl))]
    IN  /\ langs # {}
        /\ IF "multi" \in cl.gates
             THEN areContainerNamesConfiguredForMultipleInstrumentations(langs, names, cl)
             ELSE isSingleInstrumentationEnabled(langs)

NoInstance(ns, ann, cl) == \E l \in Languages : getInstrumentationInstance(ns, ann, l, cl).err

Mutate(ns, pod, cl) ==
    CASE isAutoInstrumentationInjected(pod) -> [err |-> FALSE, pod |-> pod]
      [] ~isAutoInstrumentationInjected(pod) /\ NoInstance(ns, pod.ann, cl)
           -> [err |-> TRUE, pod |-> pod]
      [] OTHER -> [err |-> FALSE,
                   pod |-> IF InjectionAllowed(ns, pod.ann, cl)
                             THEN inject(Asked(ns, pod.ann, cl), pod, cl) ELSE pod]
=============================================================================
