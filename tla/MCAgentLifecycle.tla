-------------------------- MODULE MCAgentLifecycle --------------------------
(***************************************************************************)
(* Agents from which one or two patches lead into every branch of the      *)
(* webhook, the adapters and the builders, and into every gap between      *)
(* them: each patch changes one part of the spec.                          *)
(***************************************************************************)
EXTENDS AgentLifecycle

NoPrometheus == [config |-> Nil, ta |-> Nil, other |-> FALSE]

Scraping(jobs) == [config |-> [scrape |-> jobs], ta |-> Nil, other |-> FALSE]

Config(sections) == [parse |-> "ok", sections |-> sections, prom |-> {}, telemetry |-> Nil]

At(address) == [address |-> address]

Otlp(grpc, http) == [grpc |-> grpc, http |-> http]

Xray(bind, proxy) == [bind |-> bind, proxy |-> proxy]

Kubernetes(jmx) == [jmx |-> jmx]

Signals == "logs.application_signals" :> <<>> @@ "traces.application_signals" :> <<>>

Plain ==
    [ns |-> "ns", name |-> "cwa", labels |-> <<>>, mode |-> "", mgmt |-> "", image |-> "1",
     account |-> "", replicas |-> Nil, min |-> Nil, max |-> Nil, autoscaler |-> FALSE,
     asMax |-> Nil, asMin |-> Nil, asCPU |-> Nil, asMemory |-> Nil, asWindow |-> Nil,
     asMetrics |-> <<>>, pdb |-> Nil, ingress |-> "", rule |-> "", host |-> "",
     termination |-> "", ports |-> <<>>, claims |-> FALSE, podSettings |-> {}, probe |-> Nil,
     updateStrategy |-> FALSE, deploymentStrategy |-> FALSE, configMaps |-> <<>>,
     metrics |-> FALSE, config |-> Config(Signals), otel |-> Nil, prom |-> NoPrometheus,
     ta |-> FALSE, taReplicas |-> Nil, taCR |-> FALSE, taImage |-> "", taAccount |-> "",
     taFilter |-> ""]

Allocating ==
    [Plain EXCEPT !.mode = "statefulset", !.ta = TRUE, !.prom = Scraping(<<"ok", "ok">>),
                  !.metrics = TRUE, !.config = [Config("metrics.statsd" :> At(0)) EXCEPT !.prom = {"logs"}]]

MCSubmissions ==
    {Plain, Allocating, [Plain EXCEPT !.mode = "sidecar", !.metrics = TRUE, !.account = "sa"]}

----------------------------------------------------------------------------

ModePatches ==
    {[mode |-> m] : m \in {"deployment", "statefulset", "daemonset", "sidecar"}}
      \cup {[mgmt |-> m] : m \in {"managed", "unmanaged"}}

\* Deprecated and current bounds, and what checkAutoscalerSpec refuses.
Scaling ==
    {[max |-> 2], [max |-> 0], [min |-> 3, max |-> 2], [autoscaler |-> TRUE],
     [autoscaler |-> TRUE, asMax |-> 3, asMemory |-> 80, asWindow |-> 1],
     [autoscaler |-> TRUE, asMax |-> 3, asCPU |-> 100],
     [autoscaler |-> TRUE, asMax |-> 3, asMetrics |-> <<"average", "value">>],
     [autoscaler |-> TRUE, asMax |-> 3, asMetrics |-> <<"other">>],
     [autoscaler |-> TRUE, asMax |-> 3, asWindow |-> 7200], [replicas |-> -1]}

Placement ==
    {[labels |-> "version" :> <<"mine">>], [labels |-> "managed-by" :> <<"me">> @@ "team" :> <<"x">>],
     [image |-> "untagged"], [account |-> "sa"], [podSettings |-> {"tolerations"}],
     [claims |-> TRUE], [pdb |-> [min |-> 1, max |-> Nil]], [pdb |-> [min |-> 1, max |-> 1]],
     [pdb |-> [min |-> Nil, max |-> -1]],
     [probe |-> 5], [updateStrategy |-> TRUE], [deploymentStrategy |-> TRUE],
     [configMaps |-> <<"extra">>], [configMaps |-> <<"extra", "extra">>], [metrics |-> TRUE]}

SpecPort(name, number, protocol) == Port(<<"", name, 0>>, number, protocol)

Exposure ==
    {[ports |-> <<SpecPort("web", 0, "TCP")>>],
     [ports |-> <<SpecPort("web", 4315, "")>>], [ports |-> <<SpecPort("web", 8080, "HTTP")>>], [ports |-> <<SpecPort("statsd", 9125, "UDP")>>]}
      \cup {[ports |-> <<SpecPort("web", 8080, "TCP"), SpecPort("dns", 53, "UDP")>>] @@ i :
              i \in {[ingress |-> "nginx"], [ingress |-> "nginx", host |-> "*"],
                     [ingress |-> "nginx", rule |-> "subdomain", host |-> "example"],
                     [ingress |-> "nginx", rule |-> "subdomain", host |-> "*"],
                     [ingress |-> "route"], [ingress |-> "route", termination |-> "other"]}}

Configs ==
    {[config |-> [Config(Signals) EXCEPT !.parse = p]] : p \in {"null", "bad", "mistyped"}}
      \cup {[config |-> [Config(Signals) EXCEPT !.telemetry = t]] : t \in {<<>>, <<9999>>, <<70000>>, <<0>>}}
      \cup {[config |-> Config(s)] : s \in
              {<<>>,
               "metrics.statsd" :> At(0) @@ "metrics.collectd" :> At(8125) @@ "metrics.jmx" :> <<>>
                 @@ "logs.kubernetes" :> Kubernetes(TRUE),
               "metrics.statsd" :> At(25888) @@ "logs.emf" :> <<>> @@ "logs.kubernetes" :> Kubernetes(FALSE),
               "logs.emf" :> <<>> @@ "metrics.otlp" :> Otlp(0, 0) @@ "logs.otlp" :> Otlp(5317, 5318)
                 @@ "traces.otlp" :> Otlp(0, 4315) @@ "traces.application_signals" :> <<>>,
               "traces.xray" :> Xray(0, 0), "traces.xray" :> Xray(Unparsable, 2001) @@ Signals,
               "metrics.statsd" :> At(70000) @@ "metrics.collectd" :> At(4314)
                 @@ "logs.kubernetes" :> Kubernetes(TRUE)}}

Receiver(id, protocol, address, name) ==
    [id |-> id, type |-> id, protocol |-> protocol, address |-> address, name |-> name]

Otel(receivers, pipelines, extensions, checks) ==
    [parse |-> TRUE, receivers |-> receivers, pipelines |-> pipelines,
     extensions |-> extensions, checks |-> checks]

\* By the names of their ports, jaeger's being "port-6900".
Receivers ==
    <<Receiver("otlp", "grpc", 0, "otlp-grpc"), Receiver("jaeger", "thrift_compact", 6900, ""),
      Receiver("prometheus", "endpoint", 9090, "prometheus"),
      Receiver("statsd", "endpoint", 0, "statsd"), Receiver("zipkin", "endpoint", Unparsable, "zipkin")>>

Otels ==
    {[otel |-> o] @@ [probe |-> IF o.checks = Nil THEN Nil ELSE -1] : o \in
       {[Otel(Nil, Nil, Nil, Nil) EXCEPT !.parse = FALSE], Otel(Nil, Nil, Nil, Nil),
        Otel(Receivers, {{"jaeger", "zipkin"}, {"prometheus"}}, <<"health_check">>, "health_check" :> Nil),
        Otel(Receivers, {{"otlp", "statsd"}}, <<"health_check/1", "health_check">>, "health_check" :> 13000),
        Otel(Receivers, {{"otlp"}}, <<"health_check">>, "health_check" :> 0),
        Otel(Receivers, {{"jaeger"}, {}}, <<"health_check">>, <<>>)}}

Prometheus ==
    {[ta |-> t] : t \in BOOLEAN} \cup
    {[prom |-> p] : p \in
       {NoPrometheus, [NoPrometheus EXCEPT !.other = TRUE], [NoPrometheus EXCEPT !.ta = <<"mine", "">>],
        Scraping(Nil), Scraping(<<>>), Scraping(<<"ok">>), Scraping(<<"ok", "unnamed">>), Scraping(<<"badrelabel">>)}}
      \cup {[taCR |-> TRUE], [taCR |-> TRUE, prom |-> Scraping(<<>>)], [taImage |-> "2"],
            [taAccount |-> "ta-sa"], [taReplicas |-> 2], [taReplicas |-> -1]}

MCPatches ==
    ModePatches \cup Scaling \cup Placement \cup Exposure \cup Configs \cup Otels \cup Prometheus

MCGates == {{}, {"rewrite", "prometheusOperator"}}
=============================================================================
