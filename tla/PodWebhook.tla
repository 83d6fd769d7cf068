----------------------------- MODULE PodWebhook -----------------------------
(***************************************************************************)
(* One pod and the webhook that mutates it (internal/webhook/podmutation): *)
(* the API server calls it when the pod is created and at every update of  *)
(* it, passes over it when it does not answer, validates the result and    *)
(* refuses updates that change the spec of a pod that exists.  Between     *)
(* the calls namespace, instances, config maps and agent may change.       *)
(***************************************************************************)
EXTENDS Sidecar

CONSTANTS
    Submissions,    \* pods as users and controllers submit them
    Annotations,    \* annotations of pods that users change to
    Namespaces,     \* states of the namespace
    Clusters,       \* states of what else the operator reads
    MaxChanges      \* bound on changes after the pod was submitted

ASSUME BoundAssumption == MaxChanges \in Nat

IsSeq(s) == s \in Seq(ToSet(s))

\* A comma separates the parts of a value, so there are finitely many of them.
AreAnnotations(ann) == \A key \in DOMAIN ann : IsSeq(ann[key])

AreEnvs(envs) ==
    IsSeq(envs) /\ \A e \in ToSet(envs) : {"name", "val", "ref"} \subseteq DOMAIN e /\ e.ref \in BOOLEAN

AreContainers(s) ==
    IsSeq(s) /\ \A c \in ToSet(s) : {"name", "env", "lifecycle"} \subseteq DOMAIN c /\ AreEnvs(c.env)

PodFields ==
    {"ann", "containers", "init", "volumes", "labels", "owner", "named", "uid", "scheduled",
     "shareProcesses", "hostPID", "sc"}

\* The kinds of owners that are told apart; "none" is any other.
Owners == {"none", "replicaset", "deployment", "statefulset", "daemonset", "job", "cronjob"}

\* The schema of the objects that the API server hands over.
ASSUME SubmissionsAssumption ==
    \A p \in Submissions :
        /\ PodFields \subseteq DOMAIN p
        /\ p.owner \in Owners
        /\ AreAnnotations(p.ann)
        /\ AreContainers(p.containers) /\ p.containers # <<>>
        /\ AreContainers(p.init)

ASSUME AnnotationsAssumption == \A ann \in Annotations : AreAnnotations(ann)

ASSUME NamespacesAssumption == \A n \in Namespaces : AreAnnotations(n.ann)

ASSUME ClustersAssumption ==
    \A c \in Clusters :
        /\ \A inst \in c.instances :
               AreEnvs(inst.env) /\ \A l \in Languages : AreEnvs(inst.langEnv[l])
        /\ \A collector \in c.collectors : AreEnvs(collector.env) /\ AreContainers(collector.init)

VARIABLES
    submitted,      \* the pod as it was submitted
    pod,            \* the pod as the API server has it
    phase,          \* "submitted", "stored", "rejected"
    ns, cl,         \* what the mutators read
    seen,           \* the annotations, namespace and cluster at creation
    missed,         \* the pod was created without the webhook
    asked,          \* the annotations the last update asked for
    refused,        \* whether it was refused, with the namespace and cluster of now
    changes         \* bounded by MaxChanges

vars == <<submitted, pod, phase, ns, cl, seen, missed, asked, refused, changes>>

\* The second mutator after the first; the pod as it came if one of them fails.
After(first, p) ==
    LET second == Mutate(ns, first.pod, cl)
    IN  IF first.err \/ second.err THEN p ELSE second.pod

Handle(p) == After(MutateSidecar(ns, p, cl), p)

----------------------------------------------------------------------------
\* The API server.

Distinct(s) == \A j, k \in DOMAIN s : s[j] = s[k] => j = k

AllContainers(p) == ToSet(p.containers) \cup ToSet(p.init)

NamesAreDistinct(p) ==
    LET all == p.init \o p.containers
    IN  Distinct([k \in DOMAIN all |-> all[k].name]) /\ Distinct(p.volumes)

MountsHaveVolumes(p) ==
    \A c \in AllContainers(p), m \in UNION {ToSet(d.mounts) : d \in AllContainers(p)} :
        m \in ToSet(c.mounts) => m.volume \in ToSet(p.volumes)

PathsAreDistinct(p) ==
    \A c \in AllContainers(p) : Distinct([k \in DOMAIN c.mounts |-> c.mounts[k].path])

\* A variable has a value or takes it from elsewhere, not both.
Single(envs) == \A k \in DOMAIN envs : envs[k].ref => envs[k].val = <<>>

ValuesAreSingle(p) ==
    \A c \in AllContainers(p) : Single(c.env)

\* A container that only prepares the pod has no hooks.
InitHasNoHooks(p) == \A c \in ToSet(p.init) : ~c.lifecycle

Valid(p) ==
    /\ p.containers # <<>>
    /\ NamesAreDistinct(p) /\ MountsHaveVolumes(p) /\ PathsAreDistinct(p)
    /\ ValuesAreSingle(p) /\ InitHasNoHooks(p)
    /\ ~(p.hostPID /\ p.shareProcesses = "yes")

SpecOf(p) == <<p.containers, p.init, p.volumes, p.shareProcesses>>

----------------------------------------------------------------------------

Init ==
    /\ submitted \in Submissions
    /\ pod = submitted
    /\ phase = "submitted"
    /\ ns \in Namespaces
    /\ cl \in Clusters
    /\ seen = <<submitted.ann, ns, cl>>
    /\ missed = FALSE
    /\ asked = submitted.ann
    /\ refused = FALSE
    /\ changes = 0

\* The API server gives the pod a name and a uid when it stores it.
Store(p) ==
    IF Valid(p)
      THEN phase' = "stored" /\ pod' = [p EXCEPT !.named = TRUE, !.uid = TRUE]
      ELSE phase' = "rejected" /\ pod' = p

Create ==
    /\ phase = "submitted"
    /\ Store(Handle(pod))
    /\ missed' = FALSE
    /\ UNCHANGED <<submitted, ns, cl, seen, asked, refused, changes>>

\* The webhook is down, or cannot read the namespace or list instances.
CreateWithout ==
    /\ phase = "submitted"
    /\ Store(pod)
    /\ missed' = TRUE
    /\ UNCHANGED <<submitted, ns, cl, seen, asked, refused, changes>>

Schedule ==
    /\ phase = "stored"
    /\ ~pod.scheduled
    /\ pod' = [pod EXCEPT !.scheduled = TRUE]
    /\ UNCHANGED <<submitted, phase, ns, cl, seen, missed, asked, refused, changes>>

\* The spec of a pod that exists does not change.
Replace(result) ==
    /\ refused' = (SpecOf(result) # SpecOf(pod))
    /\ pod' = IF refused' THEN pod ELSE result

\* An update of the pod's metadata, its annotations perhaps.
Update(ann) ==
    /\ phase = "stored"
    /\ changes < MaxChanges
    /\ Replace(Handle([pod EXCEPT !.ann = ann]))
    /\ asked' = ann
    /\ changes' = changes + 1
    /\ UNCHANGED <<submitted, phase, ns, cl, seen, missed>>

ChangeInputs ==
    /\ phase = "stored"
    /\ changes < MaxChanges
    /\ \/ ns' \in Namespaces \ {ns} /\ cl' = cl
       \/ cl' \in Clusters \ {cl} /\ ns' = ns
    /\ refused' = FALSE
    /\ changes' = changes + 1
    /\ UNCHANGED <<submitted, pod, phase, seen, missed, asked>>

Next ==
    \/ Create
    \/ CreateWithout
    \/ Schedule
    \/ \E ann \in Annotations \cup {pod.ann} : Update(ann)
    \/ ChangeInputs

Spec == Init /\ [][Next]_vars

----------------------------------------------------------------------------
\* Properties.

\* Type invariant: the pod is in one phase of its life, its containers are those it
\* came with, possibly one sidecar and one Go agent, and the bound on changes holds.
TypeOK ==
    /\ submitted \in Submissions
    /\ phase \in {"submitted", "stored", "rejected"}
    /\ Names(pod.containers) \subseteq
         Names(submitted.containers) \cup {CollectorContainer, sideCarName}
    /\ \A c \in AllContainers(pod) : \A e \in ToSet(c.env) : e.ref \in BOOLEAN
    /\ ns \in Namespaces
    /\ cl \in Clusters
    /\ {missed, refused} \subseteq BOOLEAN
    /\ changes \in 0 .. MaxChanges

Templates == {"java", "nodejs", "python", "dotnet"}

\* The containers that a language is injected into, in the order of their names.
Targets(p, lang) ==
    LET names == annotationValue(ns, p.ann, NamesKey(lang, cl))
    IN  [k \in DOMAIN names |-> getContainerIndex(names[k], p)]

NamesAContainerTwice(p) == \E l \in Languages : ~Distinct(Targets(p, l))

Requests(p, lang) == annotationValue(ns, p.ann, InjectKey(lang)) \notin {None, <<"false">>}

\* The variables of containers and instances.
Variables(p) ==
    UNION {ToSet(c.env) : c \in ToSet(p.containers)}
      \cup UNION {UNION {ToSet(envs) : envs \in {inst.env} \cup {inst.langEnv[l] : l \in Languages}} :
                   inst \in cl.instances}

TakenFromElsewhere(p, name) == \E e \in Variables(p) : e.ref /\ e.name = name

\* A value is added to a variable that is taken from elsewhere: the attributes, the path of
\* libraries of Nginx, the options of an agent that its instance sets; or an instance's
\* variable has both from the start.
HasTwoSources(p) ==
    \/ TakenFromElsewhere(p, ResourceAttrs)
    \/ Requests(p, "nginx") /\ TakenFromElsewhere(p, "LD_LIBRARY_PATH")
    \/ \E inst \in cl.instances :
          \/ ~Single(inst.env) \/ \E l \in Languages : ~Single(inst.langEnv[l])
          \/ \E l \in Templates : \E e \in ToSet(inst.langEnv[l]) :
                Requests(p, l) /\ e.ref /\ e.name \in OptionVars(l)

\* Apache and Nginx together; or in a container with hooks, which Apache's clone keeps; or in
\* one that mounts something at the path of the configuration after something else whose
\* path has it as a part, which is dropped instead.
WebServerMisfits(p) ==
    \/ Requests(p, "apache") /\ Requests(p, "nginx")
    \/ \E l \in {"apache", "nginx"} : \E i \in ToSet(Targets(p, l)) :
          /\ Requests(p, l)
          /\ LET mounts == p.containers[i].mounts
             IN  \/ l = "apache" /\ p.containers[i].lifecycle
                 \/ \E j, k \in DOMAIN mounts :
                       j < k /\ mounts[j].path \in ConfigPaths /\ mounts[k].path = ConfigPath

\* The pod uses a name or a path of the operator.
UsesOwnName(p) ==
    \/ Names(p.init \o p.containers)
         \cap ({sideCarName, "apache", "nginx", "clone"} \cup Templates) # {}
    \/ ToSet(p.volumes) \cap ({"kernel-debug", "apache-agent", "apache-conf", "nginx-agent",
                                "nginx-conf"} \cup Templates) # {}
    \/ \E c \in ToSet(p.containers) : \E m \in ToSet(c.mounts) :
          m.path \in {"debug", "agent", "source-conf"} \cup Templates

\* A collector cannot be beside what the pod has, by itself or because names meet.
SidecarMisfits(p) ==
    \E c \in cl.collectors :
        ~Valid([p EXCEPT
                  !.containers = Append(@, Container(CollectorContainer, c.env, c.mounts)),
                  !.init = @ \o c.init, !.volumes = @ \o c.volumes])

\* The sidecar that is to be removed is all there is.
NothingLeft(p) ==
    /\ annotationValue(ns, p.ann, SidecarKey) = <<"false">>
    /\ WithoutCollector(p.containers) = <<>>

\* A pod that is valid without the operator is valid with what the operator puts in it,
\* whatever languages are mixed in whatever containers (webhookhandler.go:59-96): its
\* mounts have volumes, nothing is there twice, no variable has two sources.  These are
\* the cases in which the webhook makes the pod invalid, so that it is not created:
\* - a language named twice for one container, as when two names are unknown (sdk.go:303);
\* - a value added to a variable that is taken from elsewhere (sdk.go:417, nginx.go:175,
\*   javaagent.go:55);
\* - Apache with Nginx, whose clones share a name (nginx.go:21); Apache in a container with
\*   hooks, which its clone keeps (apachehttpd.go:92-97); a mount at the path of the
\*   configuration that stays because an earlier one was dropped (apachehttpd.go:102-107,
\*   nginx.go:103-108);
\* - Go in a pod with the host's processes (golang.go:44);
\* - a pod that uses a name or path of the operator's, or in which the collector does not
\*   fit (sidecar/pod.go:38-40), or of which the removal of the sidecar leaves nothing.
AcceptedUnlessKnown ==
    phase = "rejected" =>
        \E p \in {MutateSidecar(ns, submitted, cl).pod} :      \* what languages are injected into
            \/ ~Valid(submitted)
            \/ NothingLeft(submitted) \/ SidecarMisfits(submitted)
            \/ NamesAContainerTwice(p) \/ UsesOwnName(p)
            \/ HasTwoSources(p) \/ WebServerMisfits(p)
            \/ p.hostPID /\ Requests(p, "go")

NamesNode(envs) == \E e \in ToSet(envs) : e.name = ResourceAttrs /\ "node" \in ToSet(e.val)

\* The node was known when the pod was submitted, by the pod or by an instance, so that the
\* variable with its name, which marks an injected pod, is not there.
NodeKnown ==
    \/ submitted.scheduled
    \/ \E c \in ToSet(submitted.containers) : NamesNode(c.env)
    \/ \E inst \in cl.instances : "node" \in inst.attrs \/ NamesNode(inst.env)

\* A collector without sidecars, in which that variable is no mark.
CollectorAlone ==
    CollectorContainer \in Names(submitted.containers)
      /\ Len(submitted.containers) + Len(submitted.init) = 1

\* A pod that the webhook saw at its creation can be updated as long as what the
\* webhook reads stays the same: it recognises its own work (helper.go:50) and does
\* not inject again, which would change the spec and make the API server refuse the
\* update.  The exception is a pod that got the SDK alone and whose node was known, or
\* that is nothing but a collector.
RefusedOnlyIfChanged ==
    refused => \/ missed
               \/ <<asked, ns, cl>> # seen
               \/ Requests(submitted, "sdk") /\ (NodeKnown \/ CollectorAlone)

References == {PodNameEnv, PodUIDEnv, EnvNodeName}

\* The resource attributes are there at most once, after the variables they refer to.
AttributesLast(envs) ==
    \A j, k \in DOMAIN envs :
        envs[j].name = ResourceAttrs /\ envs[k].name \in References \cup {ResourceAttrs} => k <= j

\* In every container the variables that the resource attributes refer to come before
\* them (sdk.go:447), also when several languages and the SDK configure one container,
\* and the attributes are not there twice.  The containers as they were submitted and
\* the sidecar's own variables are taken to be in that order; and no instance sets the
\* attributes for Java, NodeJS, Python or .NET, which look for its variables among those
\* from before any language was injected and would add them once more.
ReferencesComeFirst ==
    /\ \A c \in ToSet(submitted.containers) \cup seen[3].collectors : AttributesLast(c.env)
    /\ \A inst \in seen[3].instances, l \in Templates : ~HasEnv(inst.langEnv[l], ResourceAttrs)
    => \A c \in ToSet(pod.containers) : AttributesLast(c.env)

\* The endpoint the container itself has, from its variables or a config map that can
\* be read, is somebody else's, and Application Signals is not asked for.
UsesAnother(c) ==
    LET envs == getAllEnvVars(c, seen[3])
    IN  /\ getEnvValue(envs, SignalsEnabled) # <<"true">>
        /\ \E n \in OtlpEndpoints : getEnvValue(envs, n) = <<ThirdParty>>

\* A container that sends its telemetry to somebody else is left exactly as it was by
\* Java, NodeJS, Python and .NET (helper.go:252-320), although the other containers of
\* the pod may be instrumented and the endpoint may come from a config map.
ThirdPartyUntouched ==
    phase = "stored" /\ ~missed
      /\ (\A l \in Languages \ Templates : annotationValue(seen[2], submitted.ann, InjectKey(l)) = None) =>
        \A c \in ToSet(submitted.containers) :
            c.name # CollectorContainer /\ UsesAnother(c) => c \in ToSet(pod.containers)

\* The value the container's process sees: the last of that name.
Effective(envs, name) ==
    envs[CHOOSE k \in DOMAIN envs :
            envs[k].name = name /\ \A j \in k + 1 .. Len(envs) : envs[j].name # name]

\* A variable the user set is not overridden (helper.go:325: "If the environment
\* variable is already set by user, don't override it"): at the end the container has
\* the user's, the options that the agents are added to and the attributes apart.
UserEnvKept ==
    phase = "stored" /\ ~missed =>
        \A before \in ToSet(submitted.containers), after \in ToSet(pod.containers) :
            LET mixed == UNION {OptionVars(l) : l \in Templates}
                           \cup {ResourceAttrs, "LD_LIBRARY_PATH"}
            IN  before.name = after.name =>
                    \A e \in ToSet(before.env) : e.name \notin mixed =>
                        Effective(after.env, e.name) = Effective(before.env, e.name)
=============================================================================
