---------------------------- MODULE MCPodWebhook ----------------------------
(***************************************************************************)
(* Pods, namespaces and clusters in which every branch of the injection    *)
(* is taken: each language alone and mixed, names that are unknown or      *)
(* belong to one container, variables set by value, by reference and by a  *)
(* config map, security contexts, default and named instances, collectors, *)
(* and the feature gates on and off.                                       *)
(***************************************************************************)
EXTENDS PodWebhook, TLC

True == <<"true">>

Ask(langs) == [key \in {InjectKey(l) : l \in langs} |-> True]

MCAnnotations == {Ask({}), Ask({"java"}), Ask({"sdk"})}

AnnChoices ==
    {Ask({}), Ask({"java", "nodejs", "python", "dotnet"}), Ask({"sdk"}), Ask({"apache"}),
     Ask({"apache", "nginx"}), Ask({"go"}), Ask({"nginx", "python", "sdk"}),
     (<<"inject", "java">> :> <<"inst">>) @@ (<<"names", "java">> :> <<"app", "other">>),
     Ask({"java"}) @@ (<<"names", "java">> :> <<"x", "y">>)
       @@ (<<"names", "any">> :> <<"other">>) @@ (<<"jmx", "kafka">> :> True),
     Ask({"go"}) @@ (<<"exe", "go">> :> <<"/app">>),
     Ask({"go"}) @@ (<<"names", "go">> :> <<"app", "other">>),
     Ask({"java", "dotnet"}) @@ (SidecarKey :> True) @@ (<<"names", "java">> :> <<"app">>)
       @@ (<<"names", "dotnet">> :> <<"other">>),
     Ask({"dotnet"}) @@ (<<"runtime", "dotnet">> :> <<"win">>) @@ (SidecarKey :> <<"coll">>),
     (SidecarKey :> <<"false">>)}

App(env, envFrom, sc) ==
    [Container("app", env, <<Mount("data", ConfigPath)>>) EXCEPT
       !.envFrom = envFrom, !.sc = sc, !.version = TRUE]

Other == Container("other", <<>>, <<>>)

Apps ==
    {App(env, <<>>, NoSecurityContext) : env \in
        {<<>>,
         Envs(<<"OTEL_EXPORTER_OTLP_TRACES_ENDPOINT">>, ThirdParty),
         Envs(<<"OTEL_EXPORTER_OTLP_ENDPOINT">>, ThirdParty) \o Envs(<<SignalsEnabled>>, "true"),
         Envs(<<SignalsEnabled>>, "false") \o Envs(<<"JAVA_TOOL_OPTIONS">>, "user"),
         <<EnvRef("JAVA_TOOL_OPTIONS"), EnvRef("OTEL_TRACES_SAMPLER"), EnvRef("LD_LIBRARY_PATH")>>,
         Envs(<<ResourceAttrs>>, "node") \o Envs(<<"OTEL_DOTNET_AUTO_HOME">>, "user"),
         <<EnvRef(ResourceAttrs)>>}}
      \cup {App(<<>>, <<"cm">>, NoSecurityContext),
            App(<<>>, <<>>, [nonRoot |-> TRUE, user |-> FALSE])}

Pod(ann, containers) ==
    [ann |-> ann, containers |-> containers, init |-> <<>>, volumes |-> <<"data">>,
     labels |-> {}, owner |-> "replicaset", named |-> FALSE, uid |-> FALSE,
     scheduled |-> FALSE, shareProcesses |-> "unset", hostPID |-> FALSE, sc |-> NoSecurityContext]

Collector ==
    [Container(CollectorContainer, <<>>, <<>>) EXCEPT !.otelImage = TRUE]

Plain == App(<<>>, <<>>, NoSecurityContext)

\* Two mounts of the web server's configuration, in either order.
TwoMounts == {<<Mount("data", "conf/extra"), Mount("data", ConfigPath)>>,
              <<Mount("data", ConfigPath), Mount("data", "conf/extra")>>}

\* The cases that the injection or the API server tells apart and the others do not reach.
Special ==
    {Pod(Ask({l}), <<[Plain EXCEPT !.lifecycle = TRUE]>>) : l \in {"apache", "nginx"}}
      \cup {Pod(Ask({"apache"}), <<[Plain EXCEPT !.mounts = mounts]>>) : mounts \in TwoMounts}
      \cup {[Pod(Ask({"go"}) @@ (<<"exe", "go">> :> None), <<Plain>>) EXCEPT !.hostPID = host] :
              host \in BOOLEAN}
      \cup {[Pod(Ask({"java"}) @@ (SidecarKey :> sidecar), <<Plain>>) EXCEPT
               !.volumes = <<"data", v>>] : sidecar \in {None, True}, v \in {"coll-volume", "java"}}
      \cup {Pod(Ask({"java"}) @@ (SidecarKey :> <<"false">>)
                  @@ (<<"names", "java">> :> <<"app", CollectorContainer>>), <<Plain, Collector>>),
            Pod(InjectKey("java") :> <<"second">>, <<Plain>>),
            Pod(SidecarKey :> <<"false">>, <<Collector>>)}

MCSubmissions ==
    {Pod(ann, <<app, Other>>) : ann \in AnnChoices, app \in Apps}
      \cup {[Pod(ann, <<App(<<>>, <<>>, NoSecurityContext)>>) EXCEPT
               !.scheduled = TRUE, !.owner = "none", !.shareProcesses = share,
               !.sc = [nonRoot |-> share = "no", user |-> FALSE]] :
              ann \in AnnChoices, share \in {"no", "yes"}}
      \cup {Pod(SidecarKey :> <<"false">>, <<Collector, App(Envs(<<"OTEL_EXPORTER_OTLP_ENDPOINT">>, ThirdParty),
                                                           <<>>, NoSecurityContext)>>),
            Pod(Ask({"sdk"}), <<Collector>>)}
      \cup Special

MCNamespaces ==
    {[name |-> "ns", ann |-> ann] :
        ann \in {Ask({}), Ask({"java"}) @@ (SidecarKey :> True),
                 [key \in {InjectKey("java")} |-> <<"false">>]}}

AllGates == (Languages \ {"sdk"}) \cup {"multi", "skipValidation"}

DefaultGates == AllGates \ {"go", "nginx"}

Cluster ==
    [instances |-> {}, collectors |-> {}, configMaps |-> <<>>, signals |-> TRUE,
     settings |-> {"OTEL_AWS_SERVICE_EVENTS_ENABLED"}, images |-> TRUE, gates |-> DefaultGates,
     replicaSetFound |-> TRUE, deploymentFound |-> TRUE]

Full ==
    [Instance("ns", "inst", Envs(<<"OTEL_LOGS_EXPORTER">>, "inst"),
              [NoEnv EXCEPT !["java"] = Envs(<<"JAVA_SPEC">>, "inst"),
                            !["apache"] = Envs(<<"APACHE_SPEC">>, "inst")])
       EXCEPT !.endpoint = TRUE, !.attrs = {"custom"}, !.uid = TRUE, !.propagators = TRUE,
              !.sampler = TRUE, !.arg = TRUE]

Coll ==
    [ns |-> "ns", name |-> "coll", mode |-> "sidecar", configOK |-> TRUE, env |-> <<>>,
     mounts |-> <<>>, init |-> <<Container("coll-init", <<>>, <<>>)>>,
     volumes |-> <<"coll-volume">>]

MCClusters ==
    {Cluster,
     [Cluster EXCEPT !.gates = AllGates, !.instances = {Full}, !.collectors = {Coll},
                     !.configMaps = "cm" :> Envs(<<"OTEL_EXPORTER_OTLP_LOGS_ENDPOINT">>,
                                                ThirdParty)],
     [Cluster EXCEPT !.gates = DefaultGates \ {"skipValidation"}, !.signals = FALSE,
                     !.replicaSetFound = FALSE,
                     !.collectors = {[Coll EXCEPT !.configOK = FALSE]}],
     [Cluster EXCEPT !.gates = {"java", "go"},
                     !.collectors = {Coll, [Coll EXCEPT !.name = "second"]}],
     [Cluster EXCEPT !.instances = {Full, [Full EXCEPT !.name = "second",
                                               !.langEnv["java"] = <<EnvRef("JAVA_TOOL_OPTIONS")>>]}],
     [Cluster EXCEPT !.images = FALSE,
                     !.collectors = {[Coll EXCEPT !.mode = "deployment"]}]}
=============================================================================
