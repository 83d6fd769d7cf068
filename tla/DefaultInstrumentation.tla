----------------------- MODULE DefaultInstrumentation -----------------------
(***************************************************************************)
(* The Instrumentation the operator uses in a namespace that has none      *)
(* (pkg/instrumentation/defaultinstrumentation.go), and the shape of       *)
(* environment variables and instances that the injection works on.        *)
(*                                                                         *)
(* An environment variable has a name, a value and whether it takes the    *)
(* value from elsewhere (ValueFrom).  A value is the sequence of the parts *)
(* that were put together in it; <<>> is the empty string.  Of an endpoint *)
(* only its host matters: the CloudWatch agent or somebody else.           *)
(***************************************************************************)
EXTENDS Naturals, Sequences, SequencesExt

Env(name, value) == [name |-> name, val |-> value, ref |-> FALSE]

EnvRef(name) == [name |-> name, val |-> <<>>, ref |-> TRUE]

\* The elements of s at these positions, in their order.
Those(s, positions) ==
    LET upto[k \in 0 .. Len(s)] ==
            IF k = 0 THEN <<>>
            ELSE IF k \in positions THEN Append(upto[k - 1], s[k]) ELSE upto[k - 1]
    IN  upto[Len(s)]

\* Each of the names with the same value.
Envs(names, value) == [i \in DOMAIN names |-> Env(names[i], <<value>>)]

Agent == "agent"            \* an endpoint of the CloudWatch agent

ThirdParty == "thirdparty"  \* an endpoint of anybody else

SignalsEnabled == "OTEL_AWS_APPLICATION_SIGNALS_ENABLED"

Languages == {"java", "nodejs", "python", "dotnet", "go", "apache", "nginx", "sdk"}

\* What of an Instrumentation the injection reads.
Instance(ns, name, env, langEnv) ==
    [ns |-> ns, name |-> name, env |-> env, langEnv |-> langEnv, endpoint |-> FALSE,
     attrs |-> {}, uid |-> FALSE, propagators |-> FALSE, sampler |-> FALSE, arg |-> FALSE]

NoEnv == [l \in Languages |-> <<>>]

getSharedOtlpEndpointEnvs ==
    Envs(<<"OTEL_AWS_OTLP_LOGS_ENDPOINT", "OTEL_AWS_OTLP_METRICS_ENDPOINT">>, Agent)

\* settings: those of the operator's own optional variables that are set.
WhereSet(names, settings) ==
    Envs(Those(names, {k \in DOMAIN names : names[k] \in settings}), "set")

getServiceEventsEnvs(settings) ==
    WhereSet(<<"OTEL_AWS_SERVICE_EVENTS_ENABLED",
               "OTEL_AWS_SERVICE_EVENTS_FUNCTION_INSTRUMENT_ENABLED",
               "OTEL_AWS_SERVICE_EVENTS_PROFILER_ENABLED">>, settings)

getDynamicInstrumentationEnvs(settings) ==
    Envs(<<"OTEL_AWS_DYNAMIC_INSTRUMENTATION_API_URL">>, Agent)
      \o WhereSet(<<"OTEL_AWS_DYNAMIC_INSTRUMENTATION_ENABLED">>, settings)

\* What every language is told when Application Signals is on.
Signals ==
    <<Env(SignalsEnabled, <<"true">>), Env("OTEL_TRACES_SAMPLER_ARG", <<Agent>>),
      Env("OTEL_TRACES_SAMPLER", <<"xray">>),
      Env("OTEL_EXPORTER_OTLP_TRACES_ENDPOINT", <<Agent>>),
      Env("OTEL_AWS_APPLICATION_SIGNALS_EXPORTER_ENDPOINT", <<Agent>>)>>

\* The older names, which Java and Python get as well.
OldSignals ==
    <<Env("OTEL_AWS_APP_SIGNALS_ENABLED", <<"true">>),
      Env("OTEL_AWS_APP_SIGNALS_EXPORTER_ENDPOINT", <<Agent>>)>>

RuntimeEnabled == Envs(<<"OTEL_AWS_APPLICATION_SIGNALS_RUNTIME_ENABLED">>, "set")

Protocol == Envs(<<"OTEL_EXPORTER_OTLP_PROTOCOL">>, "http/protobuf")

NoExporters == Envs(<<"OTEL_METRICS_EXPORTER", "OTEL_LOGS_EXPORTER">>, "none")

Shared(settings) ==
    getSharedOtlpEndpointEnvs \o getServiceEventsEnvs(settings)
      \o getDynamicInstrumentationEnvs(settings)

\* jmx: the target systems the pod asks for, in the order of SupportedTargets.
getJavaEnvs(signals, settings, jmx) ==
    Protocol \o NoExporters
      \o (IF signals
            THEN Signals \o OldSignals \o RuntimeEnabled \o Shared(settings)
            ELSE Envs(<<"OTEL_TRACES_EXPORTER">>, "none"))
      \o (IF jmx = <<>>
            THEN <<>>
            ELSE <<Env("OTEL_AWS_JMX_EXPORTER_METRICS_ENDPOINT", <<Agent>>),
                   Env("OTEL_JMX_TARGET_SYSTEM", jmx)>>)

getPythonEnvs(signals, settings) ==
    IF ~signals
      THEN <<>>
      ELSE Signals \o OldSignals \o RuntimeEnabled \o Protocol \o NoExporters
             \o Envs(<<"OTEL_PYTHON_DISTRO", "OTEL_PYTHON_CONFIGURATOR">>, "aws")
             \o Shared(settings)

getDotNetEnvs(signals) ==
    IF ~signals
      THEN <<>>
      ELSE Signals \o RuntimeEnabled \o Protocol
             \o Envs(<<"OTEL_EXPORTER_OTLP_ENDPOINT">>, Agent) \o NoExporters
             \o Envs(<<"OTEL_DOTNET_DISTRO", "OTEL_DOTNET_CONFIGURATOR",
                       "OTEL_DOTNET_AUTO_PLUGINS">>, "aws")

getNodeJSEnvs(signals, settings) ==
    IF ~signals THEN <<>> ELSE Signals \o Protocol \o NoExporters \o Shared(settings)

\* The default is the same for every namespace.  Without all four images there
\* is none; the caller reports the error.
getDefaultInstrumentation(signals, settings, jmx) ==
    [Instance("default", "java-instrumentation", <<>>,
              [NoEnv EXCEPT !["java"] = getJavaEnvs(signals, settings, jmx),
                            !["python"] = getPythonEnvs(signals, settings),
                            !["dotnet"] = getDotNetEnvs(signals),
                            !["nodejs"] = getNodeJSEnvs(signals, settings)])
       EXCEPT !.propagators = TRUE]
=============================================================================
