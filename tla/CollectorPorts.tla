--------------------------- MODULE CollectorPorts ---------------------------
(***************************************************************************)
(* The ports of a collector, taken from the configuration of the agent,    *)
(* from an OpenTelemetry configuration and from the spec (ports.go, the    *)
(* adapters and the receiver parsers).                                     *)
(*                                                                         *)
(* An address is the number of its port, 0 if it is empty or not given and *)
(* Unparsable if no number but 0 can be taken from it.  The name of a port *)
(* is the triple of its parts, "cwa-statsd" being <<"cwa", "statsd", 0>>.  *)
(* The JSON configuration is                                               *)
(*   parse      "ok", "null", "bad" (no JSON), "mistyped" (not the fields  *)
(*              the operator knows)                                        *)
(*   sections   from the sections it has to their addresses, if any        *)
(*   prom       where it has a prometheus section: "logs", "metrics"       *)
(*   telemetry  Nil without a port in service::telemetry::metrics, else    *)
(*              <<n>>, or <<>> if it is no number of 32 bits               *)
(* An OpenTelemetry configuration is Nil or                                *)
(*   parse      whether it is YAML                                         *)
(*   receivers  Nil or the sequence of the protocols of its receivers, or  *)
(*              "endpoint" where a receiver has but one, in the order of   *)
(*              the names of their ports: each a record of the receiver's  *)
(*              id and type, the protocol, its address and its port's name *)
(*   pipelines  Nil or the set of receivers of each pipeline that has some *)
(*   extensions Nil or the health checks in service::extensions            *)
(*   checks     Nil or, of the extensions that are defined, the number of  *)
(*              the port, Nil where there is no address                    *)
(***************************************************************************)
EXTENDS ManifestNames, Integers, SequencesExt

Unparsable == -1

StatsD          == "statsd"
CollectD        == "collectd"
XrayProxy       == "aws-proxy"
XrayTraces      == "aws-traces"
OtlpGrpc        == "otlp-grpc"
OtlpHttp        == "otlp-http"
AppSignalsGrpc  == "cwa-appsig-grpc"
AppSignalsHttp  == "cwa-appsig-http"
AppSignalsProxy == "cwa-appsig-xray"
JmxHttp         == "jmx-http"
Server          == "cwa-server"

EMFPort == 25888

receiverDefaultPortsMap ==
    [receiver \in {StatsD, CollectD, XrayProxy, XrayTraces, OtlpGrpc, OtlpHttp, AppSignalsGrpc,
                   AppSignalsHttp, AppSignalsProxy, JmxHttp, Server} |->
       CASE receiver = StatsD         -> 8125   [] receiver = CollectD       -> 25826
         [] receiver = OtlpGrpc       -> 4317   [] receiver = OtlpHttp       -> 4318
         [] receiver = AppSignalsGrpc -> 4315   [] receiver = AppSignalsHttp -> 4316
         [] receiver = JmxHttp        -> 4314   [] receiver = Server         -> 4311
         [] receiver \in {XrayProxy, XrayTraces, AppSignalsProxy} -> 2000]

Port(name, number, protocol) == [name |-> name, port |-> number, protocol |-> protocol]

IsValidPortNum(n) == n \in 1 .. 65535

\* Of a port's name it matters that a wildcard is none.
IsValidPortName(name) == name[2] # "*"

Has(cfg, section) == section \in DOMAIN cfg.sections

----------------------------------------------------------------------------
\* The agent's configuration.  What a section asks for is a sequence of requests in the
\* order of the code: a request is its ports, of one number, and whether it looks for that
\* number alone, as EMF and JMX do, or for the number and the protocol.

\* "cwa-statsd" when the address is the user's, "statsd" when it is the default.
getReceiverServicePort(address, receiver, protocol) ==
    LET number == IF address = 0 THEN receiverDefaultPortsMap[receiver] ELSE address
        name   == IF address = 0
                    THEN <<"", receiver, 0>>
                    ELSE IF receiver \in {OtlpGrpc, OtlpHttp}
                           THEN <<"", receiver, number>>
                           ELSE <<"cwa", receiver, 0>>
    IN  IF address = Unparsable
          THEN <<>>
          ELSE <<[ports |-> {Port(name, number, protocol)}, alone |-> FALSE]>>

getApplicationSignalsReceiversServicePorts(cfg) ==
    LET traces == Has(cfg, "traces.application_signals")
        ask(receiver) == getReceiverServicePort(0, receiver, "TCP")
    IN  (IF traces \/ Has(cfg, "logs.application_signals")
           THEN ask(AppSignalsGrpc) \o ask(AppSignalsHttp) \o ask(Server) ELSE <<>>)
          \o (IF traces THEN ask(AppSignalsProxy) ELSE <<>>)

otlpPorts(cfg, section) ==
    IF Has(cfg, section)
      THEN getReceiverServicePort(cfg.sections[section].grpc, OtlpGrpc, "TCP")
             \o getReceiverServicePort(cfg.sections[section].http, OtlpHttp, "TCP")
      ELSE <<>>

getMetricsReceiversServicePorts(cfg) ==
    LET one(section, receiver) ==
            IF Has(cfg, section)
              THEN getReceiverServicePort(cfg.sections[section].address, receiver, "UDP")
              ELSE <<>>
    IN  one("metrics.statsd", StatsD) \o one("metrics.collectd", CollectD)
          \o otlpPorts(cfg, "metrics.otlp")
          \o (IF Has(cfg, "metrics.jmx") THEN getReceiverServicePort(0, JmxHttp, "TCP") ELSE <<>>)

getLogsReceiversServicePorts(cfg) ==
    (IF Has(cfg, "logs.emf")
       THEN <<[ports |-> {Port(<<"", "emf-tcp", 0>>, EMFPort, "TCP"),
                          Port(<<"", "emf-udp", 0>>, EMFPort, "UDP")}, alone |-> TRUE]>>
       ELSE <<>>)
      \o otlpPorts(cfg, "logs.otlp")
      \o (IF Has(cfg, "logs.kubernetes") /\ cfg.sections["logs.kubernetes"].jmx
            THEN <<[ports |-> {Port(<<"", JmxHttp, 0>>, receiverDefaultPortsMap[JmxHttp], "TCP")},
                    alone |-> TRUE]>>
            ELSE <<>>)

getTracesReceiversServicePorts(cfg) ==
    LET xray == cfg.sections["traces.xray"]
    IN  otlpPorts(cfg, "traces.otlp")
          \o (IF Has(cfg, "traces.xray")
                THEN getReceiverServicePort(xray.bind, XrayTraces, "UDP")
                       \o getReceiverServicePort(xray.proxy, XrayProxy, "TCP")
                ELSE <<>>)

\* Mutant: by the number alone.
GrantedByNumber(asked) ==
    UNION {asked[k].ports : k \in {n \in DOMAIN asked :
             \A j \in 1 .. n - 1 : {p.port : p \in asked[j].ports} # {p.port : p \in asked[n].ports}}}

\* A request is granted unless its ports are taken by one before it; one that has lost
\* its number takes nothing.
Granted(asked) ==
    LET taken(k, j) == \E p \in asked[k].ports, q \in asked[j].ports :
                          p.port = q.port /\ (asked[k].alone \/ p.protocol = q.protocol)
        lost(k)    == asked[k].alone /\ \E j \in 1 .. k - 1 : taken(k, j)
        granted(k) == ~lost(k) /\ \A j \in 1 .. k - 1 : lost(j) \/ ~taken(k, j)
    IN  UNION {asked[k].ports : k \in {n \in DOMAIN asked : granted(n)}}

Asked(cfg) ==
    getApplicationSignalsReceiversServicePorts(cfg) \o getMetricsReceiversServicePorts(cfg)
      \o getLogsReceiversServicePorts(cfg) \o getTracesReceiversServicePorts(cfg)

\* The requests are bound by a set for TLC to put them together once.
getServicePortsFromCWAgentConfig(cfg) == UNION {Granted(asked) : asked \in {Asked(cfg)}}

----------------------------------------------------------------------------
\* The OpenTelemetry configuration.

\* A name that is too long, given as "", is replaced.
PortName(name, number) == IF name = "" THEN <<"port", "", number>> ELSE <<"", name, 0>>

\* An address from which no port can be taken is as good as none.
singlePortFromConfigEndpoint(r, default) == IF r.address > 0 THEN r.address ELSE default

\* The default port has no protocol, the others have.
OTLPReceiverPorts(r) ==
    LET n == singlePortFromConfigEndpoint(r, IF r.protocol = "grpc" THEN 4317 ELSE 4318)
    IN  IF r.protocol \in {"grpc", "http"}
          THEN <<Port(PortName(r.name, n), n, IF r.address > 0 THEN "TCP" ELSE "")>>
          ELSE <<>>

JaegerReceiverPorts(r) ==
    LET default == CASE r.protocol = "grpc"           -> 14250
                     [] r.protocol = "thrift_http"    -> 14268
                     [] r.protocol = "thrift_compact" -> 6831
                     [] OTHER                         -> 6832
        n == singlePortFromConfigEndpoint(r, default)
    IN  IF r.protocol \in {"grpc", "thrift_http", "thrift_compact", "thrift_binary"}
          THEN <<Port(PortName(r.name, n), n,
                      IF r.protocol \in {"grpc", "thrift_http"} THEN "TCP" ELSE "UDP")>>
          ELSE <<>>

\* statsd, awsxray and zipkin are generic receivers that have a default; a scraper
\* has no port, whatever its endpoint.
GenericReceiverPorts(r) ==
    LET default   == CASE r.type = "statsd"  -> 8125 [] r.type = "awsxray" -> 2000
                       [] r.type = "zipkin"  -> 9411 [] OTHER -> 0
        transport == CASE r.type \in {"statsd", "awsxray"} -> "UDP"
                       [] r.type = "zipkin" -> "TCP" [] OTHER -> ""
        n == IF r.id = "prometheus" THEN default ELSE singlePortFromConfigEndpoint(r, default)
    IN  IF n = 0 THEN <<>> ELSE <<Port(PortName(r.name, n), n, transport)>>

ReceiverPorts(r) ==
    CASE r.type = "otlp"   -> OTLPReceiverPorts(r)
      [] r.type = "jaeger" -> JaegerReceiverPorts(r)
      [] OTHER             -> GenericReceiverPorts(r)

\* The receivers of all pipelines.  One pipeline with an empty list disables them
\* all, and one with receivers that the map's order puts after it makes Go panic.
getEnabledComponents(otel) ==
    IF otel.receivers = Nil \/ otel.pipelines = Nil \/ {} \in otel.pipelines
      THEN Nil
      ELSE UNION otel.pipelines

PanicsOnPipelines(otel) ==
    otel.pipelines # Nil /\ {} \in otel.pipelines /\ otel.pipelines # {{}}

\* The code goes through the receivers in the order of a Go map and sorts their ports by name,
\* which is the order in which they are written down here.
ConfigToComponentPorts(otel) ==
    LET enabled == getEnabledComponents(otel)
    IN  IF enabled = Nil
          THEN <<>>
          ELSE FlattenSeq([k \in DOMAIN otel.receivers |->
                 IF otel.receivers[k].id \in enabled THEN ReceiverPorts(otel.receivers[k]) ELSE <<>>])

\* The first health check of the service that is defined; Nil without a probe.
ConfigToContainerProbe(otel) ==
    IF otel.extensions = Nil \/ otel.checks = Nil
      THEN Nil
      ELSE LET found == SelectSeq(otel.extensions, LAMBDA x : x \in DOMAIN otel.checks)
           IN  IF found = <<>> THEN Nil
               ELSE [port |-> IF otel.checks[found[1]] = Nil THEN 13133 ELSE otel.checks[found[1]]]

----------------------------------------------------------------------------
\* The collector's ports.

isDuplicatePort(ports, p) == \E q \in ports : q.protocol = p.protocol /\ q.port = p.port

WithoutNames(ports, names) == {p \in ports : p.name \notin names}

\* A port replaces one of the same name that is there.
WithPort(ports, p) ==
    IF ~IsValidPortName(p.name) \/ ~IsValidPortNum(p.port) \/ isDuplicatePort(ports, p)
      THEN ports
      ELSE WithoutNames(ports, {p.name}) \cup {p}

\* One after another.
WithPorts(ports, more) ==
    LET upto[k \in 0 .. Len(more)] == IF k = 0 THEN ports ELSE WithPort(upto[k - 1], more[k])
    IN  upto[Len(more)]

\* The ports of the agent's configuration differ in name and number, so that their order
\* is of no account.  Those of the spec, the last of each name, are not looked at for
\* numbers.
getContainerPorts(cfg, otel, specPorts) ==
    LET own == {p \in getServicePortsFromCWAgentConfig(cfg) :
                  IsValidPortName(p.name) /\ IsValidPortNum(p.port)}
        inferred == IF otel = Nil \/ ~otel.parse THEN <<>> ELSE ConfigToComponentPorts(otel)
        last == {k \in DOMAIN specPorts :
                   \A j \in DOMAIN specPorts : specPorts[j].name = specPorts[k].name => j <= k}
    IN  IF cfg.parse # "ok"
          THEN {}
          ELSE WithoutNames(WithPorts(own, inferred), {p.name : p \in ToSet(specPorts)})
                 \cup {specPorts[k] : k \in last}

\* Without the fields the code dereferences.
PanicsOnConfig(cfg, otel) ==
    \/ cfg.parse = "null"
    \/ cfg.parse = "ok" /\ otel # Nil /\ otel.parse /\ otel.receivers # Nil /\ PanicsOnPipelines(otel)

\* The default if there is no port, and any number of 32 bits; 0 comes with an error as well.
ConfigToMetricsPort(cfg) ==
    IF cfg.telemetry = Nil THEN 8888
    ELSE IF cfg.telemetry = <<>> THEN 0 ELSE cfg.telemetry[1]

MetricsPortFails(cfg) == cfg.telemetry = <<>>
=============================================================================
