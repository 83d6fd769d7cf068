-------------------------- MODULE PrometheusConfig --------------------------
(***************************************************************************)
(* The Prometheus section of an agent's spec and what is made of it        *)
(* (prometheus_config.go, config_to_prom_config.go).  The section is       *)
(*   config  Nil or [scrape |-> Nil or a sequence], its scrape configs     *)
(*           being "ok", "unnamed" (no job name) or "badrelabel" (a        *)
(*           relabelling that is not one)                                  *)
(*   ta      Nil or the endpoint in target_allocator                       *)
(*   other   whether one of the other fields is set                        *)
(* Where the code may return an error, ...Fails says when it does.         *)
(***************************************************************************)
EXTENDS ManifestNames

IsEmpty(prom) == prom.config = Nil /\ prom.ta = Nil /\ ~prom.other

getScrapeConfigsFromPromConfig(prom) ==
    IF prom.config = Nil THEN Nil ELSE prom.config.scrape

\* A scrape config of a kind.
Scrapes(prom, kind) ==
    LET scrape == getScrapeConfigsFromPromConfig(prom)
    IN  \E k \in DOMAIN scrape : scrape[k] = kind

\* The section as the target allocator is given it, with its relabellings read.
GetPromConfigFails(prom) ==
    getScrapeConfigsFromPromConfig(prom) = Nil \/ Scrapes(prom, "badrelabel")

\* Targets come from the allocator, job by job.
AddHTTPSDConfigToPromConfig(prom, taService) ==
    [prom EXCEPT !.config.scrape = [k \in DOMAIN @ |-> taService]]

AddHTTPSDConfigFails(prom) ==
    getScrapeConfigsFromPromConfig(prom) = Nil \/ Scrapes(prom, "unnamed")

\* Targets come from the allocator, without scrape configs.
AddTAConfigToPromConfig(prom, taService) ==
    [prom EXCEPT !.config.scrape = Nil, !.ta = taService]

AddTAConfigFails(prom) == prom.config = Nil

\* With an allocator and its rewrite everything is accepted.
ValidatePromConfig(prom, taEnabled, rewrite) ==
    IF taEnabled THEN rewrite \/ prom.config # Nil \/ prom.ta # Nil ELSE prom.config # Nil

ValidateTargetAllocatorConfig(prometheusCR, prom) ==
    prometheusCR \/ getScrapeConfigsFromPromConfig(prom) \notin {Nil, <<>>}

\* Without an allocator the section stays as it is.
ReplacePrometheusConfig(prom, taEnabled, rewrite, taService) ==
    CASE ~taEnabled             -> prom
      [] taEnabled /\ rewrite   -> AddTAConfigToPromConfig(prom, taService)
      [] taEnabled /\ ~rewrite  -> AddHTTPSDConfigToPromConfig(prom, taService)

ReplacePrometheusFails(prom, taEnabled, rewrite) ==
    taEnabled /\ \/ ~ValidatePromConfig(prom, taEnabled, rewrite)
                 \/ rewrite /\ AddTAConfigFails(prom)
                 \/ ~rewrite /\ AddHTTPSDConfigFails(prom)
=============================================================================
