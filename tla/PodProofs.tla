------------------------------ MODULE PodProofs ------------------------------
(***************************************************************************)
(* Proofs about the pod webhook, for any pods, annotations, namespaces,    *)
(* instances and collectors.                                               *)
(***************************************************************************)
EXTENDS PodWebhook, NaturalsInduction, WellFoundedInduction, TLAPS

----------------------------------------------------------------------------
\* Natural numbers: a set that is not empty has a first one, and one that has zero and
\* all that follows is all of them.

LEMMA FirstNumber ==
    ASSUME NEW T, T \subseteq Nat, T # {}
    PROVE  \E x \in T : \A y \in T : x <= y
<1> DEFINE R == OpToRel(<, Nat)
<1>1. \A y \in T : y \in Int
  OBVIOUS
<1>2. IsWellFoundedOn(R, Nat)
  BY NatLessThanWellFounded
<1>3. PICK x \in T : \A y \in T : ~(<<y, x>> \in R)
  <2> HIDE DEF R
  <2> QED BY <1>2, WFMin
<1>4. \A y \in T : ~(y < x)
  BY <1>3 DEF OpToRel
<1> HIDE DEF R
<1>5. \A y \in T : x <= y
  BY <1>1, <1>4
<1> QED BY <1>5

LEMMA FromZero ==
    ASSUME NEW T, T \subseteq Nat, 0 \in T, \A n \in T : n + 1 \in T
    PROVE  T = Nat
<1> SUFFICES ASSUME NEW n \in Nat \ T PROVE FALSE
  OBVIOUS
<1>1. PICK x \in Nat \ T : \A y \in Nat \ T : x <= y
  BY FirstNumber
<1>2. x # 0 /\ x - 1 \in Nat
  BY <1>1
<1>3. x - 1 \in T
  BY <1>1, <1>2
<1>4. (x - 1) + 1 \in T
  BY <1>3
<1> QED BY <1>1, <1>2, <1>4

----------------------------------------------------------------------------
\* Sequences and the sets of their elements.

LEMMA ElementsOf ==
    ASSUME NEW T, NEW s \in Seq(T)
    PROVE  IsSeq(s) /\ ToSet(s) \subseteq T /\ Len(s) \in Nat /\ DOMAIN s = 1 .. Len(s)
<1>1. Len(s) \in Nat /\ DOMAIN s = 1 .. Len(s) /\ s \in [1 .. Len(s) -> T]
  OBVIOUS
<1>2. ToSet(s) \subseteq T
  BY <1>1 DEF ToSet
<1>3. \A k \in 1 .. Len(s) : s[k] \in ToSet(s)
  BY <1>1 DEF ToSet
<1>4. s \in Seq(ToSet(s))
  <2> DEFINE S == ToSet(s)
  <2>1. \A k \in 1 .. Len(s) : s[k] \in S
    BY <1>3
  <2> HIDE DEF S
  <2>2. s \in Seq(S)
    BY <1>1, <2>1
  <2> QED BY <2>2 DEF S
<1> QED BY <1>1, <1>2, <1>4 DEF IsSeq

LEMMA SeqDomain ==
    ASSUME NEW s, IsSeq(s)
    PROVE  /\ Len(s) \in Nat /\ DOMAIN s = 1 .. Len(s)
           /\ \A k \in DOMAIN s : s[k] \in ToSet(s)
           /\ \A x \in ToSet(s) : \E k \in DOMAIN s : s[k] = x
<1>1. s \in Seq(ToSet(s))
  BY DEF IsSeq
<1>2. Len(s) \in Nat /\ DOMAIN s = 1 .. Len(s)
  BY <1>1
<1> QED BY <1>2 DEF ToSet

LEMMA Empty == IsSeq(<<>>) /\ ToSet(<<>>) = {} /\ Len(<<>>) = 0
<1> DEFINE T == {}
<1>1. <<>> \in Seq(T)
  OBVIOUS
<1> HIDE DEF T
<1>2. IsSeq(<<>>)
  BY <1>1, ElementsOf
<1> QED BY <1>2 DEF ToSet

LEMMA Appended ==
    ASSUME NEW s, IsSeq(s), NEW x
    PROVE  /\ IsSeq(Append(s, x)) /\ ToSet(Append(s, x)) = ToSet(s) \cup {x}
           /\ Len(Append(s, x)) = Len(s) + 1 /\ Append(s, x)[Len(s) + 1] = x
           /\ \A k \in DOMAIN s : Append(s, x)[k] = s[k]
<1> DEFINE S == ToSet(s)
           T == S \cup {x}
           r == Append(s, x)
<1>1. s \in Seq(S) /\ Len(s) \in Nat /\ DOMAIN s = 1 .. Len(s) /\ \A k \in 1 .. Len(s) : s[k] \in S
  BY SeqDomain DEF IsSeq
<1>2. \A y \in S : \E k \in 1 .. Len(s) : s[k] = y
  BY <1>1 DEF ToSet
<1> HIDE DEF S
<1>3. s \in Seq(T)
  BY <1>1
<1>4. /\ r \in Seq(T) /\ Len(r) = Len(s) + 1 /\ DOMAIN r = 1 .. Len(s) + 1 /\ r[Len(s) + 1] = x
      /\ \A k \in 1 .. Len(s) : r[k] = s[k]
  BY <1>1, <1>3
<1>5. IsSeq(r) /\ ToSet(r) \subseteq T
  BY <1>4, ElementsOf
<1> HIDE DEF r
<1>6. \A y \in T : \E k \in 1 .. Len(s) + 1 : r[k] = y
  <2>1. \A y \in S : \E k \in 1 .. Len(s) + 1 : r[k] = y
    BY <1>1, <1>2, <1>4
  <2>2. Len(s) + 1 \in 1 .. Len(s) + 1
    BY <1>1
  <2> QED BY <1>4, <2>1, <2>2
<1>7. T \subseteq ToSet(r)
  BY <1>4, <1>6 DEF ToSet
<1> QED BY <1>1, <1>4, <1>5, <1>7 DEF r, S

LEMMA Joined ==
    ASSUME NEW s, IsSeq(s), NEW t, IsSeq(t)
    PROVE  IsSeq(s \o t) /\ ToSet(s \o t) = ToSet(s) \cup ToSet(t) /\ Len(s \o t) = Len(s) + Len(t)
<1> DEFINE S == ToSet(s)
           R == ToSet(t)
           T == S \cup R
           r == s \o t
<1>1. s \in Seq(S) /\ Len(s) \in Nat /\ DOMAIN s = 1 .. Len(s)
  BY SeqDomain DEF IsSeq
<1>2. t \in Seq(R) /\ Len(t) \in Nat /\ DOMAIN t = 1 .. Len(t)
  BY SeqDomain DEF IsSeq
<1>3. \A y \in S : \E k \in 1 .. Len(s) : s[k] = y
  BY <1>1 DEF ToSet
<1>4. \A y \in R : \E k \in 1 .. Len(t) : t[k] = y
  BY <1>2 DEF ToSet
<1> HIDE DEF S, R
<1>5. s \in Seq(T) /\ t \in Seq(T)
  BY <1>1, <1>2
<1>6. /\ r \in Seq(T) /\ Len(r) = Len(s) + Len(t) /\ DOMAIN r = 1 .. Len(s) + Len(t)
      /\ \A k \in 1 .. Len(s) : r[k] = s[k]
      /\ \A k \in 1 .. Len(t) : r[Len(s) + k] = t[k]
  BY <1>1, <1>2, <1>5
<1>7. IsSeq(r) /\ ToSet(r) \subseteq T
  BY <1>6, ElementsOf
<1> HIDE DEF r
<1>8. \A y \in S : \E k \in DOMAIN r : r[k] = y
  BY <1>1, <1>2, <1>3, <1>6
<1>9. ASSUME NEW y \in R PROVE \E k \in DOMAIN r : r[k] = y
  <2>1. PICK k \in 1 .. Len(t) : t[k] = y
    BY <1>4
  <2>2. Len(s) + k \in DOMAIN r
    BY <1>1, <1>2, <1>6
  <2> QED BY <1>6, <2>1, <2>2
<1>10. T \subseteq ToSet(r)
  BY <1>8, <1>9 DEF ToSet
<1> QED BY <1>6, <1>7, <1>10 DEF r, S, R

\* The first of them with a property.
LEMMA FirstPosition ==
    ASSUME NEW s, IsSeq(s), NEW T, T \subseteq DOMAIN s, T # {}
    PROVE  \E i \in T : \A j \in 1 .. i - 1 : j \notin T
<1>1. Len(s) \in Nat /\ DOMAIN s = 1 .. Len(s)
  BY SeqDomain
<1>2. T \subseteq Nat
  BY <1>1
<1>3. PICK i \in T : \A j \in T : i <= j
  BY <1>2, FirstNumber
<1>4. \A j \in 1 .. i - 1 : j \notin T
  BY <1>2, <1>3
<1> QED BY <1>4

\* One element is moved to the end.
LEMMA MovedToEnd ==
    ASSUME NEW s, IsSeq(s), NEW i \in DOMAIN s
    PROVE  /\ IsSeq(Append(RemoveAt(s, i), s[i]))
           /\ ToSet(Append(RemoveAt(s, i), s[i])) = ToSet(s)
<1> DEFINE S == ToSet(s)
           a == SubSeq(s, 1, i - 1)
           b == SubSeq(s, i + 1, Len(s))
<1>1. Len(s) \in Nat /\ DOMAIN s = 1 .. Len(s) /\ i \in 1 .. Len(s) /\ \A k \in 1 .. Len(s) : s[k] \in S
  BY SeqDomain
<1>2. \A y \in S : \E k \in 1 .. Len(s) : s[k] = y
  BY <1>1 DEF ToSet
<1>0. s \in Seq(S)
  BY DEF IsSeq
<1> HIDE DEF S
<1>3. /\ a \in Seq(S) /\ Len(a) = i - 1 /\ DOMAIN a = 1 .. i - 1
      /\ \A k \in 1 .. i - 1 : a[k] = s[k]
  BY <1>0, <1>1
<1>4. /\ b \in Seq(S) /\ Len(b) = Len(s) - i /\ DOMAIN b = 1 .. Len(s) - i
      /\ \A k \in 1 .. Len(s) - i : b[k] = s[i + k]
  BY <1>0, <1>1
<1> HIDE DEF a, b
<1>5. IsSeq(a) /\ IsSeq(b) /\ ToSet(a) \subseteq S /\ ToSet(b) \subseteq S
  BY <1>3, <1>4, ElementsOf
<1>6. IsSeq(a \o b) /\ ToSet(a \o b) = ToSet(a) \cup ToSet(b)
  BY <1>5, Joined
<1>7. RemoveAt(s, i) = a \o b
  BY DEF RemoveAt, a, b
<1>8. IsSeq(Append(a \o b, s[i])) /\ ToSet(Append(a \o b, s[i])) = ToSet(a) \cup ToSet(b) \cup {s[i]}
  BY <1>6, Appended
<1>9. ASSUME NEW y \in S PROVE y \in ToSet(a) \cup ToSet(b) \cup {s[i]}
  <2>1. PICK k \in 1 .. Len(s) : s[k] = y
    BY <1>2
  <2>2. CASE k < i
    <3>1. k \in DOMAIN a /\ a[k] = y
      BY <1>1, <1>3, <2>1, <2>2
    <3> QED BY <3>1 DEF ToSet
  <2>3. CASE k = i
    BY <2>1, <2>3
  <2>4. CASE k > i
    <3>1. k - i \in 1 .. Len(s) - i /\ i + (k - i) = k
      BY <1>1, <2>4
    <3>2. k - i \in DOMAIN b /\ b[k - i] = y
      BY <1>4, <2>1, <3>1
    <3> QED BY <3>2 DEF ToSet
  <2> QED BY <1>1, <2>2, <2>3, <2>4
<1>10. s[i] \in S
  BY <1>1
<1>11. ToSet(Append(a \o b, s[i])) = S
  BY <1>5, <1>8, <1>9, <1>10
<1> QED BY <1>7, <1>8, <1>11 DEF S

\* Some of the elements: g[m] is what is taken of the first m.
ThoseUpto(g, n, s, positions) ==
    g = [k \in 0 .. n |->
           IF k = 0 THEN <<>>
           ELSE IF k \in positions THEN Append(g[k - 1], s[k]) ELSE g[k - 1]]

LEMMA ThoseUptoExists ==
    ASSUME NEW s, NEW positions, NEW len \in Nat
    PROVE  \E g : ThoseUpto(g, len, s, positions)
<1> DEFINE Step(r, k) == IF k \in positions THEN Append(r, s[k]) ELSE r
           P(n) == \E g : ThoseUpto(g, n, s, positions)
           T == {n \in Nat : P(n)}
<1>0. \A g, n : ThoseUpto(g, n, s, positions)
                  <=> g = [k \in 0 .. n |-> IF k = 0 THEN <<>> ELSE Step(g[k - 1], k)]
  BY DEF ThoseUpto
<1> HIDE DEF Step
<1>1. P(0)
  <2> DEFINE g == [k \in 0 .. 0 |-> <<>>]
  <2>1. g = [k \in 0 .. 0 |-> IF k = 0 THEN <<>> ELSE Step(g[k - 1], k)]
    OBVIOUS
  <2> HIDE DEF g
  <2> QED BY <1>0, <2>1
<1>2. ASSUME NEW n \in Nat, P(n) PROVE P(n + 1)
  <2>1. PICK g : g = [k \in 0 .. n |-> IF k = 0 THEN <<>> ELSE Step(g[k - 1], k)]
    BY <1>0, <1>2
  <2> DEFINE h == [k \in 0 .. n + 1 |-> IF k <= n THEN g[k] ELSE Step(g[n], n + 1)]
  <2>2. ASSUME NEW k \in 0 .. n + 1
        PROVE  h[k] = IF k = 0 THEN <<>> ELSE Step(h[k - 1], k)
    <3>1. CASE k = 0
      BY <2>1, <3>1
    <3>2. CASE k # 0 /\ k <= n
      <4>1. g[k] = Step(g[k - 1], k)
        BY <2>1, <3>2
      <4>2. h[k - 1] = g[k - 1] /\ h[k] = g[k]
        BY <3>2
      <4> QED BY <3>2, <4>1, <4>2
    <3>3. CASE k = n + 1
      <4>1. h[k - 1] = g[n] /\ h[k] = Step(g[n], n + 1)
        BY <3>3
      <4> QED BY <3>3, <4>1
    <3> QED BY <3>1, <3>2, <3>3
  <2>3. h = [k \in 0 .. n + 1 |-> h[k]]
    OBVIOUS
  <2> HIDE DEF h
  <2>4. h = [k \in 0 .. n + 1 |-> IF k = 0 THEN <<>> ELSE Step(h[k - 1], k)]
    BY <2>2, <2>3
  <2> QED BY <1>0, <2>4
<1>3. T = Nat
  <2>1. T \subseteq Nat /\ 0 \in T
    BY <1>1
  <2>2. \A n \in T : n + 1 \in T
    BY <1>2
  <2> HIDE DEF T
  <2> QED BY <2>1, <2>2, FromZero
<1> QED BY <1>3

LEMMA ThoseElements ==
    ASSUME NEW s, IsSeq(s), NEW positions
    PROVE  /\ IsSeq(Those(s, positions))
           /\ ToSet(Those(s, positions)) = {s[k] : k \in DOMAIN s \cap positions}
<1> DEFINE f == CHOOSE g : ThoseUpto(g, Len(s), s, positions)
<1>1. Len(s) \in Nat /\ DOMAIN s = 1 .. Len(s)
  BY SeqDomain
<1>2. ThoseUpto(f, Len(s), s, positions)
  BY <1>1, ThoseUptoExists, Zenon
<1>3. Those(s, positions) = f[Len(s)]
  BY Zenon DEF Those, ThoseUpto
<1> HIDE DEF f
<1>4. /\ f[0] = <<>>
      /\ \A m \in 1 .. Len(s) : f[m] = IF m \in positions THEN Append(f[m - 1], s[m]) ELSE f[m - 1]
  <2>1. f = [k \in 0 .. Len(s) |-> IF k = 0 THEN <<>>
                                   ELSE IF k \in positions THEN Append(f[k - 1], s[k])
                                   ELSE f[k - 1]]
    BY <1>2 DEF ThoseUpto
  <2>2. 0 \in 0 .. Len(s) /\ \A m \in 1 .. Len(s) : m \in 0 .. Len(s) /\ m # 0
    BY <1>1
  <2> QED BY <2>1, <2>2, Zenon
<1> DEFINE Upto(m) == {s[k] : k \in (1 .. m) \cap positions}
           Good(m) == IsSeq(f[m]) /\ ToSet(f[m]) = Upto(m)
           T == {m \in Nat : m <= Len(s) => Good(m)}
<1>5. T = Nat
  <2>1. T \subseteq Nat /\ 0 \in T
    <3>1. 1 .. 0 = {}
      OBVIOUS
    <3>2. Upto(0) = {}
      BY <3>1, Zenon
    <3> QED BY <1>4, <3>2, Empty
  <2>2. ASSUME NEW m \in T PROVE m + 1 \in T
    <3>1. CASE m + 1 <= Len(s)
      <4>1. Good(m) /\ m + 1 \in 1 .. Len(s) /\ (m + 1) - 1 = m
        BY <1>1, <3>1
      <4>2. f[m + 1] = IF m + 1 \in positions THEN Append(f[m], s[m + 1]) ELSE f[m]
        BY <1>4, <4>1
      <4>3. 1 .. (m + 1) = (1 .. m) \cup {m + 1}
        OBVIOUS
      <4>4. CASE m + 1 \in positions
        <5>1. Upto(m + 1) = Upto(m) \cup {s[m + 1]}
          BY <4>3, <4>4, Zenon
        <5>2. f[m + 1] = Append(f[m], s[m + 1])
          BY <4>2, <4>4
        <5>3. IsSeq(f[m + 1]) /\ ToSet(f[m + 1]) = ToSet(f[m]) \cup {s[m + 1]}
          BY <4>1, <5>2, Appended
        <5>4. Good(m + 1)
          BY <4>1, <5>1, <5>3, Zenon
        <5> QED BY <5>4
      <4>5. CASE m + 1 \notin positions
        <5>1. Upto(m + 1) = Upto(m)
          BY <4>3, <4>5, Zenon
        <5>2. Good(m + 1)
          BY <4>1, <4>2, <4>5, <5>1
        <5> QED BY <5>2
      <4> QED BY <4>4, <4>5
    <3> QED BY <3>1
  <2> HIDE DEF T
  <2> QED BY <2>1, <2>2, FromZero
<1>6. Good(Len(s))
  <2>1. Len(s) \in Nat /\ Len(s) <= Len(s)
    BY <1>1
  <2>2. Len(s) \in T
    <3> HIDE DEF T
    <3> QED BY <1>5, <2>1
  <2> HIDE DEF Good
  <2> QED BY <2>1, <2>2
<1> QED BY <1>1, <1>3, <1>6

----------------------------------------------------------------------------
\* A container that the four injectors with a template leave alone.

\* The container c is at position k of the pod.
Has(p, k, c) ==
    "containers" \in DOMAIN p /\ k \in DOMAIN p.containers /\ p.containers[k] = c

LEMMA OtherEnv ==
    ASSUME NEW p, NEW k, NEW c, Has(p, k, c), NEW i, i # k, NEW env
    PROVE  Has([p EXCEPT !.containers[i].env = env], k, c)
BY DEF Has

LEMMA OtherAttached ==
    ASSUME NEW p, NEW k, NEW c, Has(p, k, c), NEW i, i # k, NEW env, NEW lang
    PROVE  Has(AttachAgent(lang, p, i, env), k, c)
<1> DEFINE m == Mount(lang, lang)
           q == [p EXCEPT !.containers[i].env = env, !.containers[i].mounts = Append(@, m)]
           r == [q EXCEPT !.volumes = Append(@, lang),
                          !.init = Append(@, Container(lang, <<>>, <<m>>))]
<1> HIDE DEF m
<1>1. Has(q, k, c)
  BY DEF Has
<1>2. AttachAgent(lang, p, i, env) = IF isInitContainerMissing(q, lang) THEN r ELSE q
  BY DEF AttachAgent, m
<1> HIDE DEF q
<1>3. Has(r, k, c)
  BY <1>1 DEF Has
<1> QED BY <1>1, <1>2, <1>3

LEMMA OtherInjected ==
    ASSUME NEW p, NEW k, NEW c, Has(p, k, c), NEW i, i # k, NEW spec, NEW allEnvs,
           NEW lang \in Templates
    PROVE  Has(Inject(lang, spec, p, i, allEnvs), k, c)
<1>1. CASE lang = "java"
  BY <1>1, OtherAttached DEF Inject, injectJavaagent
<1>2. CASE lang = "nodejs"
  BY <1>2, OtherAttached DEF Inject, injectNodeJSSDK
<1>3. CASE lang = "python"
  BY <1>3, OtherAttached DEF Inject, injectPythonSDK
<1>4. CASE lang = "dotnet"
  BY <1>4, OtherAttached DEF Inject, injectDotNetSDK
<1> QED BY <1>1, <1>2, <1>3, <1>4 DEF Templates

LEMMA OtherConfigured ==
    ASSUME NEW p, NEW k, NEW c, Has(p, k, c), NEW i, i # k, NEW inst, NEW cluster
    PROVE  Has(CommonConfig(inst, p, i, cluster), k, c)
<1>1. Has(injectCommonEnvVar(inst, p, i), k, c)
  BY OtherEnv DEF injectCommonEnvVar
<1> DEFINE q == injectCommonEnvVar(inst, p, i)
<1> HIDE DEF q
<1>2. Has(injectCommonSDKConfig(inst, q, i, i, cluster), k, c)
  BY <1>1, OtherEnv DEF injectCommonSDKConfig, q
<1> QED BY <1>2 DEF CommonConfig, q

LEMMA SecurityContextKeeps ==
    ASSUME NEW p, NEW k, NEW c, Has(p, k, c), NEW i, NEW lang
    PROVE  Has(RunAsContainer(lang, p, i), k, c)
BY DEF RunAsContainer, setInitContainerSecurityContext, Has

LEMMA OtherInstrumented ==
    ASSUME NEW p, NEW k, NEW c, Has(p, k, c), NEW i, i # k, NEW inst, NEW runtime, NEW allEnvs,
           NEW cluster, NEW lang \in Templates
    PROVE  Has(InstrumentContainer(lang, inst, p, i, runtime, allEnvs, cluster), k, c)
<1> DEFINE q == Inject(lang, inst.langEnv[lang], p, i, allEnvs)
           r == CommonConfig(inst, q, i, cluster)
<1>1. Has(q, k, c)
  BY OtherInjected
<1> HIDE DEF q
<1>2. Has(r, k, c)
  BY <1>1, OtherConfigured
<1>3. Has(RunAsContainer(lang, r, i), k, c)
  BY <1>2, SecurityContextKeeps
<1> QED BY <1>3 DEF InstrumentContainer, r, q

\* The variables say that the container's telemetry goes to somebody else.
Elsewhere(envs) ==
    /\ getEnvValue(envs, SignalsEnabled) # <<"true">>
    /\ \E n \in OtlpEndpoints : getEnvValue(envs, n) = <<ThirdParty>>

LEMMA ElsewhereRefused ==
    ASSUME NEW p, NEW i, NEW inst, NEW runtime, NEW allEnvs, Elsewhere(allEnvs), NEW cluster,
           NEW lang
    PROVE  InstrumentContainer(lang, inst, p, i, runtime, allEnvs, cluster) = p
<1>1. <<ThirdParty>> \notin {<<>>, <<Agent>>}
  BY DEF ThirdParty, Agent
<1>2. ~shouldInjectADOTSDK(allEnvs, p, p.containers[i])
  BY <1>1 DEF Elsewhere, shouldInjectADOTSDK
<1> QED BY <1>2 DEF InstrumentContainer, Refuses

----------------------------------------------------------------------------
\* Each container of a language, one after another.

\* The pod after one more of the names.
NextPod(q, name, asks, lang, allEnvs, cluster) ==
    Instrument(asks, lang, q, getContainerIndex(name, q), allEnvs, cluster)

\* g[m] is the pod after m of the n names.
Injecting(g, n, names, asks, lang, p, allEnvs, cluster) ==
    g = [m \in 0 .. n |-> IF m = 0 THEN p
                          ELSE NextPod(g[m - 1], names[m], asks, lang, allEnvs, cluster)]

LEMMA InjectingExists ==
    ASSUME NEW names, NEW asks, NEW lang, NEW p, NEW allEnvs, NEW cluster, NEW len \in Nat
    PROVE  \E g : Injecting(g, len, names, asks, lang, p, allEnvs, cluster)
<1> DEFINE Step(q, name) == NextPod(q, name, asks, lang, allEnvs, cluster)
           P(n) == \E g : Injecting(g, n, names, asks, lang, p, allEnvs, cluster)
           T == {n \in Nat : P(n)}
<1>0. \A g, n : Injecting(g, n, names, asks, lang, p, allEnvs, cluster)
                  <=> g = [k \in 0 .. n |-> IF k = 0 THEN p ELSE Step(g[k - 1], names[k])]
  BY DEF Injecting
<1> HIDE DEF Step
<1>1. P(0)
  <2> DEFINE g == [k \in 0 .. 0 |-> p]
  <2>1. g = [k \in 0 .. 0 |-> IF k = 0 THEN p ELSE Step(g[k - 1], names[k])]
    OBVIOUS
  <2> HIDE DEF g
  <2> QED BY <1>0, <2>1
<1>2. ASSUME NEW n \in Nat, P(n) PROVE P(n + 1)
  <2>1. PICK g : g = [k \in 0 .. n |-> IF k = 0 THEN p ELSE Step(g[k - 1], names[k])]
    BY <1>0, <1>2
  <2> DEFINE h == [k \in 0 .. n + 1 |-> IF k <= n THEN g[k] ELSE Step(g[n], names[n + 1])]
  <2>2. ASSUME NEW k \in 0 .. n + 1
        PROVE  h[k] = IF k = 0 THEN p ELSE Step(h[k - 1], names[k])
    <3>1. CASE k = 0
      BY <2>1, <3>1
    <3>2. CASE k # 0 /\ k <= n
      <4>1. g[k] = Step(g[k - 1], names[k])
        BY <2>1, <3>2
      <4>2. h[k - 1] = g[k - 1] /\ h[k] = g[k]
        BY <3>2
      <4> QED BY <3>2, <4>1, <4>2
    <3>3. CASE k = n + 1
      <4>1. h[k - 1] = g[n] /\ h[k] = Step(g[n], names[n + 1])
        BY <3>3
      <4> QED BY <3>3, <4>1
    <3> QED BY <3>1, <3>2, <3>3
  <2>3. h = [k \in 0 .. n + 1 |-> h[k]]
    OBVIOUS
  <2> HIDE DEF h
  <2>4. h = [k \in 0 .. n + 1 |-> IF k = 0 THEN p ELSE Step(h[k - 1], names[k])]
    BY <2>2, <2>3
  <2> QED BY <1>0, <2>4
<1>3. T = Nat
  <2>1. T \subseteq Nat /\ 0 \in T
    BY <1>1
  <2>2. \A n \in T : n + 1 \in T
    BY <1>2
  <2> HIDE DEF T
  <2> QED BY <2>1, <2>2, FromZero
<1> QED BY <1>3

LEMMA InstrumentEachUnfolds ==
    ASSUME NEW asks, NEW lang, NEW p, NEW allEnvs, NEW cluster, Len(asks[lang].names) \in Nat
    PROVE  \E g : /\ Injecting(g, Len(asks[lang].names), asks[lang].names, asks, lang, p,
                               allEnvs, cluster)
                  /\ InstrumentEach(asks, lang, p, allEnvs, cluster) = g[Len(asks[lang].names)]
<1> DEFINE n == Len(asks[lang].names)
           c == CHOOSE g : Injecting(g, n, asks[lang].names, asks, lang, p, allEnvs, cluster)
<1>1. Injecting(c, n, asks[lang].names, asks, lang, p, allEnvs, cluster)
  BY InjectingExists, Zenon
<1>2. InstrumentEach(asks, lang, p, allEnvs, cluster) = c[n]
  BY Zenon DEF InstrumentEach, Injecting, NextPod
<1> HIDE DEF c
<1> QED BY <1>1, <1>2

\* The names for the languages that have one.
NamesOK(asks) == \A lang \in DOMAIN asks : Len(asks[lang].names) \in Nat

LEMMA LeftAlone ==
    ASSUME NEW asks, NamesOK(asks), NEW p, NEW k, NEW c, Has(p, k, c), NEW allEnvs,
           Elsewhere(allEnvs[k]), NEW cluster, NEW lang \in Templates
    PROVE  Has(InjectLanguage(asks, lang, p, allEnvs, cluster), k, c)
<1> USE DEF Templates
<1>1. CASE lang \notin DOMAIN asks
  BY <1>1 DEF InjectLanguage
<1>2. CASE lang \in DOMAIN asks
  <2> DEFINE names == asks[lang].names
  <2>1. Len(names) \in Nat
    BY <1>2 DEF NamesOK
  <2>2. PICK g : /\ Injecting(g, Len(names), names, asks, lang, p, allEnvs, cluster)
                 /\ InstrumentEach(asks, lang, p, allEnvs, cluster) = g[Len(names)]
    BY <2>1, InstrumentEachUnfolds
  <2>3. ASSUME NEW q, Has(q, k, c), NEW name
        PROVE  Has(NextPod(q, name, asks, lang, allEnvs, cluster), k, c)
    <3> DEFINE i == getContainerIndex(name, q)
               inst == asks[lang].inst
               r == InstrumentContainer(lang, inst, q, i, asks[lang].runtime, allEnvs[i], cluster)
    <3> HIDE DEF i, inst
    <3>1. NextPod(q, name, asks, lang, allEnvs, cluster) = r
      BY DEF NextPod, Instrument, i, inst
    <3>2. CASE i = k
      BY <2>3, <3>1, <3>2, ElsewhereRefused
    <3>3. CASE i # k
      BY <2>3, <3>1, <3>3, OtherInstrumented
    <3> QED BY <3>2, <3>3
  <2> HIDE DEF names
  <2>4. g[0] = p /\ \A m \in 0 .. Len(names) : m # 0 =>
                       g[m] = NextPod(g[m - 1], names[m], asks, lang, allEnvs, cluster)
    BY <2>1, <2>2 DEF Injecting
  <2> DEFINE T == {m \in Nat : m <= Len(names) => Has(g[m], k, c)}
  <2>5. T = Nat
    <3>1. T \subseteq Nat /\ 0 \in T
      BY <2>4
    <3>2. ASSUME NEW m \in T PROVE m + 1 \in T
      <4>1. CASE m + 1 <= Len(names)
        <5>1. Has(g[m], k, c) /\ m + 1 \in 0 .. Len(names) /\ (m + 1) - 1 = m /\ m + 1 # 0
          BY <2>1, <4>1
        <5>2. g[m + 1] = NextPod(g[m], names[m + 1], asks, lang, allEnvs, cluster)
          BY <2>4, <5>1
        <5>3. Has(g[m + 1], k, c)
          BY <2>3, <5>1, <5>2
        <5> QED BY <5>3
      <4> QED BY <4>1
    <3> HIDE DEF T
    <3> QED BY <3>1, <3>2, FromZero
  <2>6. Has(g[Len(names)], k, c)
    BY <2>1, <2>5
  <2> QED BY <1>2, <2>2, <2>6 DEF InjectLanguage
<1> QED BY <1>1, <1>2

----------------------------------------------------------------------------
\* Both mutators, for a pod that asks for no other language.

OnlyTemplates(space, ann) ==
    \A l \in Languages \ Templates : annotationValue(space, ann, InjectKey(l)) = None

LEMMA ValuesAreSequences ==
    ASSUME NEW space, NEW ann, AreAnnotations(space.ann), AreAnnotations(ann), NEW key
    PROVE  Len(annotationValue(space, ann, key)) \in Nat
<1>1. Len(None) \in Nat
  BY DEF None
<1>2. Len(Annotation(ann, key)) \in Nat /\ Len(Annotation(space.ann, key)) \in Nat
  BY <1>1, SeqDomain DEF Annotation, AreAnnotations
<1> QED BY <1>2 DEF annotationValue

LEMMA OthersNotEnabled ==
    ASSUME NEW space, NEW ann, NEW cluster, OnlyTemplates(space, ann)
    PROVE  EnabledLanguages(space, ann, cluster) \subseteq Templates
<1> SUFFICES ASSUME NEW l \in EnabledLanguages(space, ann, cluster), l \notin Templates
             PROVE  FALSE
  OBVIOUS
<1>1. l \in Languages /\ getInstrumentationInstance(space, ann, l, cluster).insts # {}
  BY DEF EnabledLanguages
<1>2. annotationValue(space, ann, InjectKey(l)) = None
  BY <1>1 DEF OnlyTemplates
<1>3. getInstrumentationInstance(space, ann, l, cluster) = Chosen({})
  <2>1. None # <<"true">> /\ None \in {None, <<"false">>}
    BY DEF None
  <2> HIDE DEF None
  <2> QED BY <1>2, <2>1 DEF getInstrumentationInstance
<1> QED BY <1>1, <1>3 DEF Chosen

\* g[k] is the pod after the first k languages of inject.
InOrder(g, asks, p, allEnvs, cluster) ==
    g = [k \in 0 .. Len(InjectionOrder) |->
            IF k = 0 THEN p
            ELSE InjectLanguage(asks, InjectionOrder[k], g[k - 1], allEnvs, cluster)]

\* inject is its eight languages, one after another.
LEMMA InjectAllUnfolds ==
    ASSUME NEW asks, NEW p, NEW allEnvs, NEW cluster
    PROVE  LET L(l, q) == InjectLanguage(asks, l, q, allEnvs, cluster)
           IN  InjectAll(asks, p, allEnvs, cluster) =
                 L("sdk", L("nginx", L("apache", L("go",
                   L("dotnet", L("python", L("nodejs", L("java", p))))))))
<1> DEFINE L(l, q) == InjectLanguage(asks, l, q, allEnvs, cluster)
           c == CHOOSE g : InOrder(g, asks, p, allEnvs, cluster)
<1>1. /\ Len(InjectionOrder) = 8
      /\ InjectionOrder[1] = "java" /\ InjectionOrder[2] = "nodejs"
      /\ InjectionOrder[3] = "python" /\ InjectionOrder[4] = "dotnet"
      /\ InjectionOrder[5] = "go" /\ InjectionOrder[6] = "apache"
      /\ InjectionOrder[7] = "nginx" /\ InjectionOrder[8] = "sdk"
  BY DEF InjectionOrder
<1>2. \A g : InOrder(g, asks, p, allEnvs, cluster)
               <=> g = [k \in 0 .. 8 |-> IF k = 0 THEN p ELSE L(InjectionOrder[k], g[k - 1])]
  BY <1>1 DEF InOrder
<1>3. InjectAll(asks, p, allEnvs, cluster) = c[Len(InjectionOrder)]
  BY Zenon DEF InjectAll, InOrder
<1> HIDE DEF L
<1>4. \E g : InOrder(g, asks, p, allEnvs, cluster)
  <2>1. PICK a1 : a1 = L("java", p)
    OBVIOUS
  <2>2. PICK a2 : a2 = L("nodejs", a1)
    OBVIOUS
  <2>3. PICK a3 : a3 = L("python", a2)
    OBVIOUS
  <2>4. PICK a4 : a4 = L("dotnet", a3)
    OBVIOUS
  <2>5. PICK a5 : a5 = L("go", a4)
    OBVIOUS
  <2>6. PICK a6 : a6 = L("apache", a5)
    OBVIOUS
  <2>7. PICK a7 : a7 = L("nginx", a6)
    OBVIOUS
  <2>8. PICK a8 : a8 = L("sdk", a7)
    OBVIOUS
  <2> DEFINE h == [k \in 0 .. 8 |-> CASE k = 0 -> p  [] k = 1 -> a1 [] k = 2 -> a2
                                      [] k = 3 -> a3 [] k = 4 -> a4 [] k = 5 -> a5
                                      [] k = 6 -> a6 [] k = 7 -> a7 [] k = 8 -> a8]
  <2>9. /\ h[0] = p  /\ h[1] = a1 /\ h[2] = a2 /\ h[3] = a3 /\ h[4] = a4
        /\ h[5] = a5 /\ h[6] = a6 /\ h[7] = a7 /\ h[8] = a8
        /\ h = [k \in 0 .. 8 |-> h[k]]
    OBVIOUS
  <2> HIDE DEF h
  <2>10. ASSUME NEW k \in 0 .. 8
         PROVE  h[k] = IF k = 0 THEN p ELSE L(InjectionOrder[k], h[k - 1])
    <3>1. k \in {0, 1, 2, 3, 4, 5, 6, 7, 8}
      OBVIOUS
    <3> QED BY <1>1, <2>1, <2>2, <2>3, <2>4, <2>5, <2>6, <2>7, <2>8, <2>9, <3>1
  <2>11. h = [k \in 0 .. 8 |-> IF k = 0 THEN p ELSE L(InjectionOrder[k], h[k - 1])]
    BY <2>9, <2>10
  <2> QED BY <1>2, <2>11
<1>5. InOrder(c, asks, p, allEnvs, cluster)
  BY <1>4, Zenon
<1> HIDE DEF c
<1>6. c = [k \in 0 .. 8 |-> IF k = 0 THEN p ELSE L(InjectionOrder[k], c[k - 1])]
  BY <1>2, <1>5
<1>7. /\ c[0] = p /\ c[1] = L("java", c[0]) /\ c[2] = L("nodejs", c[1])
      /\ c[3] = L("python", c[2]) /\ c[4] = L("dotnet", c[3]) /\ c[5] = L("go", c[4])
      /\ c[6] = L("apache", c[5]) /\ c[7] = L("nginx", c[6]) /\ c[8] = L("sdk", c[7])
  BY <1>1, <1>6
<1>8. InjectAll(asks, p, allEnvs, cluster) =
        L("sdk", L("nginx", L("apache", L("go",
          L("dotnet", L("python", L("nodejs", L("java", p))))))))
  BY <1>1, <1>3, <1>7
<1> QED BY <1>8, Zenon DEF L

LEMMA AllLeaveAlone ==
    ASSUME NEW asks, NamesOK(asks), DOMAIN asks \subseteq Templates, NEW p, NEW k, NEW c,
           Has(p, k, c), NEW allEnvs, Elsewhere(allEnvs[k]), NEW cluster
    PROVE  Has(InjectAll(asks, p, allEnvs, cluster), k, c)
<1> DEFINE java   == InjectLanguage(asks, "java", p, allEnvs, cluster)
           nodejs == InjectLanguage(asks, "nodejs", java, allEnvs, cluster)
           python == InjectLanguage(asks, "python", nodejs, allEnvs, cluster)
           dotnet == InjectLanguage(asks, "dotnet", python, allEnvs, cluster)
<1>0. {"java", "nodejs", "python", "dotnet"} = Templates
  BY DEF Templates
<1>1. Has(java, k, c)
  BY <1>0, LeftAlone
<1> HIDE DEF java
<1>2. Has(nodejs, k, c)
  BY <1>0, <1>1, LeftAlone
<1> HIDE DEF nodejs
<1>3. Has(python, k, c)
  BY <1>0, <1>2, LeftAlone
<1> HIDE DEF python
<1>4. Has(dotnet, k, c)
  BY <1>0, <1>3, LeftAlone
<1>5. ASSUME NEW l, l \notin Templates, NEW q
      PROVE  InjectLanguage(asks, l, q, allEnvs, cluster) = q
  BY <1>5 DEF InjectLanguage
<1>6. {"go", "apache", "nginx", "sdk"} \cap Templates = {}
  BY <1>0
<1>7. InjectAll(asks, p, allEnvs, cluster) = dotnet
  BY <1>5, <1>6, InjectAllUnfolds DEF java, nodejs, python, dotnet
<1> QED BY <1>4, <1>7

LEMMA MutateLeavesAlone ==
    ASSUME NEW space, NEW p, NEW cluster, AreAnnotations(space.ann), AreAnnotations(p.ann),
           OnlyTemplates(space, p.ann), NEW k, NEW c, Has(p, k, c),
           Elsewhere(getAllEnvVars(c, cluster))
    PROVE  Has(Mutate(space, p, cluster).pod, k, c)
<1> DEFINE asks == Asked(space, p.ann, cluster)
           allEnvs == [i \in DOMAIN p.containers |-> getAllEnvVars(p.containers[i], cluster)]
<1>1. DOMAIN asks = EnabledLanguages(space, p.ann, cluster) /\
      \A l \in DOMAIN asks : asks[l].names = annotationValue(space, p.ann, NamesKey(l, cluster))
  BY DEF Asked
<1> HIDE DEF asks
<1>2. DOMAIN asks \subseteq Templates
  BY <1>1, OthersNotEnabled
<1>3. NamesOK(asks)
  BY <1>1, ValuesAreSequences DEF NamesOK
<1>4. allEnvs[k] = getAllEnvVars(c, cluster)
  BY DEF Has
<1> HIDE DEF allEnvs
<1>5. Has(InjectAll(asks, p, allEnvs, cluster), k, c)
  BY <1>2, <1>3, <1>4, AllLeaveAlone
<1>6. Has(inject(asks, p, cluster), k, c)
  BY <1>5 DEF inject, allEnvs
<1>7. Mutate(space, p, cluster).pod \in {p, inject(asks, p, cluster)}
  BY DEF Mutate, asks
<1> QED BY <1>6, <1>7

----------------------------------------------------------------------------
\* The sidecar: every other container stays.

LEMMA OthersStay ==
    ASSUME NEW s, IsSeq(s), NEW c \in ToSet(s), c.name # CollectorContainer
    PROVE  c \in ToSet(WithoutCollector(s))
<1> DEFINE S == {k \in DOMAIN s : s[k].name # CollectorContainer}
<1>1. PICK i \in DOMAIN s : s[i] = c
  BY SeqDomain
<1>2. i \in DOMAIN s \cap S
  BY <1>1
<1>3. WithoutCollector(s) = Those(s, S)
  BY DEF WithoutCollector
<1> HIDE DEF S
<1> QED BY <1>1, <1>2, <1>3, ThoseElements

LEMMA SidecarLeavesOthers ==
    ASSUME NEW space, NEW p, NEW cluster, {"ann", "containers"} \subseteq DOMAIN p,
           IsSeq(p.containers), NEW c \in ToSet(p.containers), c.name # CollectorContainer
    PROVE  LET q == MutateSidecar(space, p, cluster).pod
           IN  "containers" \in DOMAIN q /\ q.ann = p.ann /\ c \in ToSet(q.containers)
<1> DEFINE Good(q) == "containers" \in DOMAIN q /\ q.ann = p.ann /\ c \in ToSet(q.containers)
           one == CHOOSE d \in getCollectorInstance(space, annotationValue(space, p.ann, SidecarKey),
                                                    cluster).insts : TRUE
<1>1. Good(p)
  OBVIOUS
<1>2. Good(remove(p))
  <2> DEFINE s == WithoutCollector(p.containers)
  <2>1. c \in ToSet(s)
    BY OthersStay
  <2> HIDE DEF s
  <2>2. Good([p EXCEPT !.containers = s])
    BY <2>1
  <2> QED BY <1>1, <2>2 DEF remove, s
<1>3. Good(add(one, p, cluster))
  <2> HIDE DEF one
  <2> DEFINE sidecar == SidecarContainer(one, getResourceAttributesEnv(p, cluster))
             s == Append(p.containers, sidecar)
  <2>1. c \in ToSet(s)
    BY Appended
  <2> HIDE DEF s, sidecar
  <2>2. add(one, p, cluster) = [p EXCEPT !.init = @ \o one.init, !.containers = s,
                                         !.volumes = @ \o one.volumes,
                                         !.labels = @ \cup {InjectedLabel}]
    BY DEF add, s, sidecar
  <2>3. Good([p EXCEPT !.init = @ \o one.init, !.containers = s, !.volumes = @ \o one.volumes,
                       !.labels = @ \cup {InjectedLabel}])
    BY <2>1
  <2> QED BY <2>2, <2>3
<1>4. MutateSidecar(space, p, cluster).pod \in {p, remove(p), add(one, p, cluster)}
  BY DEF MutateSidecar, one
<1> HIDE DEF Good, one
<1>5. Good(MutateSidecar(space, p, cluster).pod)
  BY <1>1, <1>2, <1>3, <1>4
<1> QED BY <1>5 DEF Good

LEMMA HandleLeavesAlone ==
    ASSUME NEW p, {"ann", "containers"} \subseteq DOMAIN p, IsSeq(p.containers),
           AreAnnotations(p.ann), AreAnnotations(ns.ann), OnlyTemplates(ns, p.ann),
           NEW c \in ToSet(p.containers), c.name # CollectorContainer,
           Elsewhere(getAllEnvVars(c, cl))
    PROVE  "containers" \in DOMAIN Handle(p) /\ c \in ToSet(Handle(p).containers)
<1> DEFINE first == MutateSidecar(ns, p, cl)
           q == first.pod
           second == Mutate(ns, q, cl)
<1>1. "containers" \in DOMAIN q /\ q.ann = p.ann /\ c \in ToSet(q.containers)
  BY SidecarLeavesOthers
<1> HIDE DEF first
<1>2. PICK k \in DOMAIN q.containers : q.containers[k] = c
  BY <1>1 DEF ToSet
<1>3. Has(q, k, c)
  BY <1>1, <1>2 DEF Has
<1>4. Has(second.pod, k, c)
  BY <1>1, <1>3, MutateLeavesAlone
<1> HIDE DEF second
<1>5. "containers" \in DOMAIN second.pod /\ c \in ToSet(second.pod.containers)
  BY <1>4 DEF Has, ToSet
<1>6. Handle(p) = p \/ Handle(p) = second.pod
  BY DEF Handle, After, first, second
<1> QED BY <1>5, <1>6

----------------------------------------------------------------------------
\* What an injection keeps of a pod: its annotations, security context and owner, the
\* names of its containers, to which only the Go agent comes, and of its init containers.

Named(s) == IsSeq(s) /\ \A k \in DOMAIN s : "name" \in DOMAIN s[k]

Shaped(p) == PodFields \subseteq DOMAIN p /\ Named(p.containers) /\ Named(p.init)

Kept(p, q) ==
    /\ Shaped(q)
    /\ q.ann = p.ann /\ q.sc = p.sc /\ q.owner = p.owner
    /\ Names(p.containers) \subseteq Names(q.containers)
    /\ Names(q.containers) \subseteq Names(p.containers) \cup {sideCarName}
    /\ Names(p.init) \subseteq Names(q.init)

LEMMA KeptSelf == ASSUME NEW p, Shaped(p) PROVE Kept(p, p)
BY DEF Kept

LEMMA KeptTrans == ASSUME NEW p, NEW q, NEW r, Kept(p, q), Kept(q, r) PROVE Kept(p, r)
BY DEF Kept

\* The same names at the same places.
SameNames(s, t) ==
    /\ t = [k \in DOMAIN s |-> t[k]]
    /\ \A k \in DOMAIN s : "name" \in DOMAIN t[k] /\ t[k].name = s[k].name

LEMMA SameNamesNamed ==
    ASSUME NEW s, NEW t, Named(s), SameNames(s, t)
    PROVE  Named(t) /\ Names(t) = Names(s) /\ Len(t) = Len(s)
<1>1. Len(s) \in Nat /\ DOMAIN s = 1 .. Len(s)
  BY SeqDomain DEF Named
<1>2. t = [k \in 1 .. Len(s) |-> t[k]] /\ DOMAIN t = DOMAIN s
  BY <1>1 DEF SameNames
<1> DEFINE T == {t[k] : k \in 1 .. Len(s)}
<1>3. \A k \in 1 .. Len(s) : t[k] \in T
  OBVIOUS
<1> HIDE DEF T
<1>4. t \in Seq(T) /\ Len(t) = Len(s)
  BY <1>1, <1>2, <1>3
<1>5. IsSeq(t)
  BY <1>4, ElementsOf
<1>6. Named(t)
  BY <1>2, <1>5 DEF Named, SameNames
<1> QED BY <1>2, <1>4, <1>6 DEF Names, SameNames

LEMMA AppendedNamed ==
    ASSUME NEW s, NEW d, Named(s), "name" \in DOMAIN d
    PROVE  Named(Append(s, d)) /\ Names(Append(s, d)) = Names(s) \cup {d.name}
<1> DEFINE t == Append(s, d)
<1>1. Len(s) \in Nat /\ DOMAIN s = 1 .. Len(s) /\ IsSeq(s)
  BY SeqDomain DEF Named
<1>2. IsSeq(t) /\ Len(t) = Len(s) + 1 /\ t[Len(s) + 1] = d /\ \A k \in DOMAIN s : t[k] = s[k]
  BY <1>1, Appended
<1> HIDE DEF t
<1>3. DOMAIN t = 1 .. Len(s) + 1
  BY <1>2, SeqDomain
<1>4. \A k \in DOMAIN t : k \in DOMAIN s \/ k = Len(s) + 1
  BY <1>1, <1>3
<1>5. Named(t)
  BY <1>2, <1>4 DEF Named
<1>6. DOMAIN s \subseteq DOMAIN t /\ Len(s) + 1 \in DOMAIN t
  BY <1>1, <1>3
<1>7. Names(t) = Names(s) \cup {d.name}
  BY <1>2, <1>4, <1>6 DEF Names
<1> QED BY <1>5, <1>7 DEF t

\* One container is changed.
LEMMA ContainerSet ==
    ASSUME NEW p, Shaped(p), NEW q, PodFields \subseteq DOMAIN q, q.ann = p.ann, q.sc = p.sc,
           q.owner = p.owner, q.init = p.init, SameNames(p.containers, q.containers)
    PROVE  Kept(p, q)
BY SameNamesNamed DEF Shaped, Kept

LEMMA EnvSet ==
    ASSUME NEW p, Shaped(p), NEW i, NEW env
    PROVE  Kept(p, [p EXCEPT !.containers[i].env = env])
<1> DEFINE q == [p EXCEPT !.containers[i].env = env]
<1>1. PodFields \subseteq DOMAIN q /\ q.ann = p.ann /\ q.sc = p.sc /\ q.owner = p.owner /\ q.init = p.init
  BY DEF Shaped, PodFields
<1>2. SameNames(p.containers, q.containers)
  BY DEF Shaped, PodFields, Named, SameNames
<1> HIDE DEF q
<1> QED BY <1>1, <1>2, ContainerSet DEF q

\* An init container and a volume come.
LEMMA InitAdded ==
    ASSUME NEW p, Shaped(p), NEW d, "name" \in DOMAIN d, NEW v
    PROVE  LET q == [p EXCEPT !.volumes = v, !.init = Append(@, d)]
           IN  Kept(p, q) /\ Names(q.init) = Names(p.init) \cup {d.name} /\ q.containers = p.containers
<1> DEFINE s == Append(p.init, d)
           q == [p EXCEPT !.volumes = v, !.init = s]
<1>1. Named(s) /\ Names(s) = Names(p.init) \cup {d.name}
  BY AppendedNamed DEF Shaped
<1> HIDE DEF s
<1>2. /\ PodFields \subseteq DOMAIN q /\ q.ann = p.ann /\ q.sc = p.sc /\ q.owner = p.owner
      /\ q.init = s /\ q.containers = p.containers
  BY DEF Shaped, PodFields
<1>3. q = [p EXCEPT !.volumes = v, !.init = Append(@, d)]
  BY DEF s
<1> HIDE DEF q
<1>4. Kept(p, q)
  BY <1>1, <1>2 DEF Kept, Shaped
<1> QED BY <1>1, <1>2, <1>3, <1>4

LEMMA AttachAgentKept ==
    ASSUME NEW p, Shaped(p), NEW lang, NEW i, NEW env
    PROVE  Kept(p, AttachAgent(lang, p, i, env)) /\ lang \in Names(AttachAgent(lang, p, i, env).init)
<1> DEFINE m == Mount(lang, lang)
           q == [p EXCEPT !.containers[i].env = env, !.containers[i].mounts = Append(@, m)]
           d == Container(lang, <<>>, <<m>>)
           r == [q EXCEPT !.volumes = Append(@, lang), !.init = Append(@, d)]
<1>1. AttachAgent(lang, p, i, env) = IF lang \notin Names(q.init) THEN r ELSE q
  BY DEF AttachAgent, isInitContainerMissing
<1>2. "name" \in DOMAIN d /\ d.name = lang
  BY DEF Container
<1> HIDE DEF m, d
<1>3. PodFields \subseteq DOMAIN q /\ q.ann = p.ann /\ q.sc = p.sc /\ q.owner = p.owner /\ q.init = p.init
  BY DEF Shaped, PodFields
<1>4. SameNames(p.containers, q.containers)
  BY DEF Shaped, PodFields, Named, SameNames
<1> HIDE DEF q
<1>5. Kept(p, q)
  BY <1>3, <1>4, ContainerSet
<1>6. Shaped(q)
  BY <1>5 DEF Kept
<1>7. Kept(q, r) /\ Names(r.init) = Names(q.init) \cup {lang}
  BY <1>2, <1>6, InitAdded
<1> HIDE DEF r
<1>8. Kept(p, r)
  BY <1>5, <1>7, KeptTrans
<1> QED BY <1>1, <1>5, <1>7, <1>8

LEMMA InjectKept ==
    ASSUME NEW p, Shaped(p), NEW lang \in Templates, NEW spec, NEW i, NEW allEnvs
    PROVE  /\ Kept(p, Inject(lang, spec, p, i, allEnvs))
           /\ lang \in Names(Inject(lang, spec, p, i, allEnvs).init)
<1>1. CASE lang = "java"
  BY <1>1, AttachAgentKept DEF Inject, injectJavaagent
<1>2. CASE lang = "nodejs"
  BY <1>2, AttachAgentKept DEF Inject, injectNodeJSSDK
<1>3. CASE lang = "python"
  BY <1>3, AttachAgentKept DEF Inject, injectPythonSDK
<1>4. CASE lang = "dotnet"
  BY <1>4, AttachAgentKept DEF Inject, injectDotNetSDK
<1> QED BY <1>1, <1>2, <1>3, <1>4 DEF Templates

LEMMA SDKConfigKept ==
    ASSUME NEW p, Shaped(p), NEW inst, NEW a, NEW app, NEW cluster
    PROVE  Kept(p, injectCommonSDKConfig(inst, injectCommonEnvVar(inst, p, a), a, app, cluster))
<1> DEFINE q == injectCommonEnvVar(inst, p, a)
           r == injectCommonSDKConfig(inst, q, a, app, cluster)
<1>1. Kept(p, q)
  BY EnvSet DEF injectCommonEnvVar
<1>2. Shaped(q)
  BY <1>1 DEF Kept
<1> HIDE DEF q
<1>3. Kept(q, r)
  BY <1>2, EnvSet DEF injectCommonSDKConfig
<1> HIDE DEF r
<1>4. Kept(p, r)
  BY <1>1, <1>3, KeptTrans
<1> QED BY <1>4 DEF q, r

LEMMA CommonConfigKept ==
    ASSUME NEW p, Shaped(p), NEW inst, NEW i, NEW cluster
    PROVE  Kept(p, CommonConfig(inst, p, i, cluster))
BY SDKConfigKept DEF CommonConfig

LEMMA SecurityContextKept ==
    ASSUME NEW p, Shaped(p), NEW i, NEW name
    PROVE  Kept(p, setInitContainerSecurityContext(p, i, name))
<1> DEFINE s == [k \in DOMAIN p.init |->
                   IF p.init[k].name = name THEN [p.init[k] EXCEPT !.sc = p.containers[i].sc]
                   ELSE p.init[k]]
           q == [p EXCEPT !.init = s]
<1>1. setInitContainerSecurityContext(p, i, name) = q
  BY DEF setInitContainerSecurityContext
<1>2. SameNames(p.init, s)
  BY DEF Shaped, Named, SameNames
<1> HIDE DEF s
<1>3. Named(s) /\ Names(s) = Names(p.init)
  BY <1>2, SameNamesNamed DEF Shaped
<1>4. /\ PodFields \subseteq DOMAIN q /\ q.ann = p.ann /\ q.sc = p.sc /\ q.owner = p.owner
      /\ q.init = s /\ q.containers = p.containers
  BY DEF Shaped, PodFields
<1> HIDE DEF q
<1>5. Kept(p, q)
  BY <1>3, <1>4 DEF Kept, Shaped
<1> QED BY <1>1, <1>5

\* What the injections leave in a pod that are recognised afterwards, the SDK's apart.
Marks == {"dotnet", "java", "nodejs", "python", "apache", "clone"}

Marked(p) == Names(p.init) \cap Marks # {} \/ sideCarName \in Names(p.containers)

LEMMA KeptMarked == ASSUME NEW p, NEW q, Kept(p, q), Marked(p) PROVE Marked(q)
BY DEF Kept, Marked

LEMMA TemplateKept ==
    ASSUME NEW p, Shaped(p), NEW lang \in Templates, NEW inst, NEW i, NEW runtime, NEW allEnvs,
           NEW cluster
    PROVE  LET q == InstrumentContainer(lang, inst, p, i, runtime, allEnvs, cluster)
           IN  /\ Kept(p, q)
               /\ ~Refuses(lang, inst.langEnv[lang], p, i, runtime, allEnvs) => Marked(q)
<1> DEFINE q == Inject(lang, inst.langEnv[lang], p, i, allEnvs)
           r == CommonConfig(inst, q, i, cluster)
           t == RunAsContainer(lang, r, i)
<1>1. Kept(p, q) /\ lang \in Names(q.init)
  BY InjectKept
<1>2. Shaped(q) /\ Marked(q)
  BY <1>1 DEF Kept, Marked, Marks, Templates
<1> HIDE DEF q
<1>3. Kept(q, r)
  BY <1>2, CommonConfigKept
<1>4. Shaped(r)
  BY <1>3 DEF Kept
<1> HIDE DEF r
<1>5. Kept(r, t)
  BY <1>4, SecurityContextKept, KeptSelf DEF RunAsContainer
<1> HIDE DEF t
<1>6. Kept(p, t) /\ Marked(t)
  BY <1>1, <1>2, <1>3, <1>5, KeptTrans, KeptMarked
<1>7. Kept(p, p)
  BY KeptSelf
<1> QED BY <1>6, <1>7 DEF InstrumentContainer, q, r, t

LEMMA CloneKept ==
    ASSUME NEW p, Shaped(p), NEW i \in DOMAIN p.containers, NEW agent, NEW config, NEW hooks
    PROVE  Kept(p, Clone(p, i, agent, config, hooks)) /\ "clone" \in Names(Clone(p, i, agent, config, hooks).init)
<1> DEFINE d == [p.containers[i] EXCEPT !.name = "clone",
                                        !.lifecycle = @ /\ hooks,
                                        !.mounts = Append(@, Mount(config, "source-conf"))]
           more == <<Mount(agent, "agent"), Mount(config, ConfigPath)>>
           q == [p EXCEPT !.volumes = Append(@, config), !.init = Append(@, d),
                          !.containers[i].mounts = DropConfigMount(@) \o more]
           s == Append(p.init, d)
<1>1. Clone(p, i, agent, config, hooks) = IF "clone" \in Names(p.init) THEN p ELSE q
  BY DEF Clone, isInitContainerMissing
<1>2. "name" \in DOMAIN d /\ d.name = "clone"
  BY DEF Shaped, Named
<1> HIDE DEF d, more
<1>3. Named(s) /\ Names(s) = Names(p.init) \cup {"clone"}
  BY <1>2, AppendedNamed DEF Shaped
<1>4. PodFields \subseteq DOMAIN q /\ q.ann = p.ann /\ q.sc = p.sc /\ q.owner = p.owner /\ q.init = s
  BY DEF Shaped, PodFields
<1>5. SameNames(p.containers, q.containers)
  BY DEF Shaped, PodFields, Named, SameNames
<1> HIDE DEF q, s
<1>6. Named(q.containers) /\ Names(q.containers) = Names(p.containers)
  BY <1>5, SameNamesNamed DEF Shaped
<1>7. Kept(p, q) /\ "clone" \in Names(q.init)
  BY <1>3, <1>4, <1>6 DEF Kept, Shaped
<1>8. Kept(p, p)
  BY KeptSelf
<1> QED BY <1>1, <1>7, <1>8

LEMMA AttachKept ==
    ASSUME NEW p, Shaped(p), NEW name, NEW env, NEW agent, NEW config, NEW sc
    PROVE  Kept(p, Attach(p, name, env, agent, config, sc))
<1> DEFINE d0 == Container(name, env, <<Mount(agent, "agent"), Mount(config, "source-conf")>>)
           d == [d0 EXCEPT !.sc = sc]
<1>1. Attach(p, name, env, agent, config, sc) = [p EXCEPT !.volumes = Append(@, agent),
                                                         !.init = Append(@, d)]
  BY DEF Attach
<1>2. "name" \in DOMAIN d0
  BY DEF Container
<1> HIDE DEF d0
<1>3. "name" \in DOMAIN d
  BY <1>2
<1> HIDE DEF d
<1>4. Kept(p, [p EXCEPT !.volumes = Append(@, agent), !.init = Append(@, d)])
  BY <1>3, InitAdded
<1> QED BY <1>1, <1>4

LEMMA ApacheKept ==
    ASSUME NEW p, Shaped(p), NEW inst, NEW i \in DOMAIN p.containers, NEW cluster
    PROVE  Kept(p, InstrumentApache(inst, p, i, cluster)) /\ Marked(InstrumentApache(inst, p, i, cluster))
<1> DEFINE conf == getApacheOtelConfig(inst, createResourceMap(inst, p, i, cluster))
           spec == inst.langEnv["apache"]
           q == [p EXCEPT !.containers[i].env = AddAllIfAbsent(@, spec)]
           r == Clone(q, i, "apache-agent", "apache-conf", TRUE)
           s == injectApacheHttpdagent(spec, p, i, conf)
           t == CommonConfig(inst, s, i, cluster)
           u == setInitContainerSecurityContext(t, i, "apache")
           v == setInitContainerSecurityContext(u, i, "clone")
<1> HIDE DEF conf, spec
<1>1. Kept(p, q)
  BY EnvSet
<1>2. i \in DOMAIN q.containers
  BY DEF Shaped, PodFields
<1> HIDE DEF q
<1>3. Shaped(q)
  BY <1>1 DEF Kept
<1>4. Kept(q, r) /\ "clone" \in Names(r.init)
  BY <1>2, <1>3, CloneKept
<1> HIDE DEF r
<1>5. Shaped(r) /\ Marked(r)
  BY <1>4 DEF Kept, Marked, Marks
<1>6. Kept(r, s)
  BY <1>5, AttachKept, KeptSelf DEF injectApacheHttpdagent, q, r
<1> HIDE DEF s
<1>7. Shaped(s)
  BY <1>6 DEF Kept
<1>8. Kept(s, t)
  BY <1>7, CommonConfigKept
<1> HIDE DEF t
<1>9. Kept(t, u)
  BY <1>8, SecurityContextKept DEF Kept
<1> HIDE DEF u
<1>10. Kept(u, v)
  BY <1>9, SecurityContextKept DEF Kept
<1> HIDE DEF v
<1>11. Kept(r, v)
  BY <1>6, <1>8, <1>9, <1>10, KeptTrans
<1>12. Kept(p, v) /\ Marked(v)
  BY <1>1, <1>4, <1>5, <1>11, KeptTrans, KeptMarked
<1> QED BY <1>12 DEF InstrumentApache, conf, spec, s, t, u, v

LEMMA NginxKept ==
    ASSUME NEW p, Shaped(p), NEW inst, NEW i \in DOMAIN p.containers, NEW cluster
    PROVE  Kept(p, InstrumentNginx(inst, p, i, cluster)) /\ Marked(InstrumentNginx(inst, p, i, cluster))
<1> DEFINE conf == getNginxOtelConfig(inst, createResourceMap(inst, p, i, cluster))
           spec == inst.langEnv["nginx"]
           q == [p EXCEPT !.containers[i].env = AddAllIfAbsent(@, spec)]
           r == Clone(q, i, "nginx-agent", "nginx-conf", FALSE)
           a == Attach(r, "nginx", conf, "nginx-agent", "nginx-conf", r.containers[i].sc)
           b == [a EXCEPT !.containers[i].env = Surround(@, "LD_LIBRARY_PATH", <<>>, <<"sdk_lib">>)]
           s == injectNginxSDK(spec, p, i, conf)
           t == CommonConfig(inst, s, i, cluster)
<1> HIDE DEF conf, spec
<1>1. Kept(p, q)
  BY EnvSet
<1>2. i \in DOMAIN q.containers
  BY DEF Shaped, PodFields
<1> HIDE DEF q
<1>3. Shaped(q)
  BY <1>1 DEF Kept
<1>4. Kept(q, r) /\ "clone" \in Names(r.init)
  BY <1>2, <1>3, CloneKept
<1> HIDE DEF r
<1>5. Shaped(r) /\ Marked(r)
  BY <1>4 DEF Kept, Marked, Marks
<1>6. Kept(r, a)
  BY <1>5, AttachKept
<1>7. s = IF isInitContainerMissing(r, "nginx") THEN b ELSE r
  BY DEF injectNginxSDK, q, r
<1> HIDE DEF a, s
<1>8. Kept(a, b)
  BY <1>6, EnvSet DEF Kept
<1> HIDE DEF b
<1>9. Kept(r, s)
  BY <1>5, <1>6, <1>7, <1>8, KeptTrans, KeptSelf
<1>10. Kept(s, t)
  BY <1>9, CommonConfigKept DEF Kept
<1> HIDE DEF t
<1>11. Kept(p, t) /\ Marked(t)
  BY <1>1, <1>4, <1>5, <1>9, <1>10, KeptTrans, KeptMarked
<1> QED BY <1>11 DEF InstrumentNginx, conf, spec, s, t

----------------------------------------------------------------------------
\* The names in a list of variables.

LEMMA HasEnvName == ASSUME NEW s, NEW n PROVE HasEnv(s, n) <=> n \in Names(s)
BY DEF HasEnv, Names

LEMMA NamesOfElements ==
    ASSUME NEW s, IsSeq(s)
    PROVE  /\ Names(s) = {x.name : x \in ToSet(s)}
           /\ Named(s) <=> \A x \in ToSet(s) : "name" \in DOMAIN x
<1>1. /\ \A k \in DOMAIN s : s[k] \in ToSet(s)
      /\ \A x \in ToSet(s) : \E k \in DOMAIN s : s[k] = x
  BY SeqDomain
<1> QED BY <1>1 DEF Names, Named

LEMMA JoinedNamed ==
    ASSUME NEW s, NEW t, Named(s), Named(t)
    PROVE  Named(s \o t) /\ Names(s \o t) = Names(s) \cup Names(t)
<1> DEFINE r == s \o t
<1>1. IsSeq(s) /\ IsSeq(t)
  BY DEF Named
<1>2. IsSeq(r) /\ ToSet(r) = ToSet(s) \cup ToSet(t)
  BY <1>1, Joined
<1> HIDE DEF r
<1>3. Named(r) /\ Names(r) = Names(s) \cup Names(t)
  BY <1>1, <1>2, NamesOfElements
<1> QED BY <1>3 DEF r

LEMMA NoneNamed == Named(<<>>) /\ Names(<<>>) = {}
BY Empty DEF Named, Names

LEMMA OneNamed == ASSUME NEW e, "name" \in DOMAIN e PROVE Named(<<e>>) /\ Names(<<e>>) = {e.name}
<1>1. <<e>> = Append(<<>>, e)
  OBVIOUS
<1> QED BY <1>1, NoneNamed, AppendedNamed

LEMMA FirstIsThere ==
    ASSUME NEW s, Named(s), NEW n \in Names(s)
    PROVE  getIndexOfEnv(s, n) \in DOMAIN s /\ s[getIndexOfEnv(s, n)].name = n
<1> DEFINE T == {i \in DOMAIN s : s[i].name = n}
<1>1. T \subseteq DOMAIN s /\ T # {} /\ IsSeq(s)
  BY DEF Names, Named
<1>2. \E i \in T : \A j \in 1 .. i - 1 : j \notin T
  <2> HIDE DEF T
  <2> QED BY <1>1, FirstPosition
<1>3. DOMAIN s = 1 .. Len(s) /\ Len(s) \in Nat
  BY <1>1, SeqDomain
<1>4. \E i \in DOMAIN s : s[i].name = n /\ \A j \in 1 .. i - 1 : s[j].name # n
  <2>1. PICK i \in T : \A j \in 1 .. i - 1 : j \notin T
    BY <1>2
  <2>2. \A j \in 1 .. i - 1 : j \in DOMAIN s
    BY <1>3, <2>1
  <2> QED BY <2>1, <2>2
<1> QED BY <1>4 DEF getIndexOfEnv

LEMMA AddIfAbsentNames ==
    ASSUME NEW s, Named(s), NEW e, "name" \in DOMAIN e
    PROVE  /\ Named(AddIfAbsent(s, e)) /\ Names(AddIfAbsent(s, e)) = Names(s) \cup {e.name}
           /\ ToSet(AddIfAbsent(s, e)) \subseteq ToSet(s) \cup {e}
<1>1. CASE HasEnv(s, e.name)
  BY <1>1, HasEnvName DEF AddIfAbsent
<1>2. CASE ~HasEnv(s, e.name)
  <2>1. AddIfAbsent(s, e) = Append(s, e)
    BY <1>2 DEF AddIfAbsent
  <2>2. ToSet(Append(s, e)) = ToSet(s) \cup {e}
    BY Appended DEF Named
  <2> QED BY <2>1, <2>2, AppendedNamed
<1> QED BY <1>1, <1>2

\* g[k] is the list with the first k of the others.
AddingEnvs(g, n, envs, more) ==
    g = [k \in 0 .. n |-> IF k = 0 THEN envs ELSE AddIfAbsent(g[k - 1], more[k])]

LEMMA AddingEnvsExists ==
    ASSUME NEW envs, NEW more, NEW len \in Nat
    PROVE  \E g : AddingEnvs(g, len, envs, more)
<1> DEFINE P(n) == \E g : AddingEnvs(g, n, envs, more)
           T == {n \in Nat : P(n)}
<1>1. P(0)
  <2> DEFINE g == [k \in 0 .. 0 |-> envs]
  <2>1. g = [k \in 0 .. 0 |-> IF k = 0 THEN envs ELSE AddIfAbsent(g[k - 1], more[k])]
    OBVIOUS
  <2> HIDE DEF g
  <2> QED BY <2>1 DEF AddingEnvs
<1>2. ASSUME NEW n \in Nat, P(n) PROVE P(n + 1)
  <2>1. PICK g : g = [k \in 0 .. n |-> IF k = 0 THEN envs ELSE AddIfAbsent(g[k - 1], more[k])]
    BY <1>2 DEF AddingEnvs
  <2> DEFINE h == [k \in 0 .. n + 1 |-> IF k <= n THEN g[k] ELSE AddIfAbsent(g[n], more[n + 1])]
  <2>2. ASSUME NEW k \in 0 .. n + 1
        PROVE  h[k] = IF k = 0 THEN envs ELSE AddIfAbsent(h[k - 1], more[k])
    <3>1. CASE k = 0
      BY <2>1, <3>1
    <3>2. CASE k # 0 /\ k <= n
      <4>1. g[k] = AddIfAbsent(g[k - 1], more[k])
        BY <2>1, <3>2
      <4>2. h[k - 1] = g[k - 1] /\ h[k] = g[k]
        BY <3>2
      <4> QED BY <3>2, <4>1, <4>2
    <3>3. CASE k = n + 1
      <4>1. h[k - 1] = g[n] /\ h[k] = AddIfAbsent(g[n], more[n + 1])
        BY <3>3
      <4> QED BY <3>3, <4>1
    <3> QED BY <3>1, <3>2, <3>3
  <2>3. h = [k \in 0 .. n + 1 |-> h[k]]
    OBVIOUS
  <2> HIDE DEF h
  <2>4. h = [k \in 0 .. n + 1 |-> IF k = 0 THEN envs ELSE AddIfAbsent(h[k - 1], more[k])]
    BY <2>2, <2>3
  <2> QED BY <2>4 DEF AddingEnvs
<1>3. T = Nat
  <2>1. T \subseteq Nat /\ 0 \in T
    BY <1>1
  <2>2. \A n \in T : n + 1 \in T
    BY <1>2
  <2> HIDE DEF T
  <2> QED BY <2>1, <2>2, FromZero
<1> QED BY <1>3

LEMMA AddAllUnfolds ==
    ASSUME NEW envs, NEW more, Len(more) \in Nat
    PROVE  \E g : AddingEnvs(g, Len(more), envs, more) /\ AddAllIfAbsent(envs, more) = g[Len(more)]
<1> DEFINE c == CHOOSE g : AddingEnvs(g, Len(more), envs, more)
<1>1. AddingEnvs(c, Len(more), envs, more)
  BY AddingEnvsExists, Zenon
<1>2. AddAllIfAbsent(envs, more) = c[Len(more)]
  BY Zenon DEF AddAllIfAbsent, AddingEnvs
<1> HIDE DEF c
<1> QED BY <1>1, <1>2

LEMMA AddAllNames ==
    ASSUME NEW s, Named(s), NEW more, Named(more)
    PROVE  LET r == AddAllIfAbsent(s, more)
           IN  /\ Named(r) /\ Names(r) = Names(s) \cup Names(more)
               /\ ToSet(r) \subseteq ToSet(s) \cup ToSet(more)
<1>1. /\ Len(more) \in Nat /\ DOMAIN more = 1 .. Len(more)
      /\ \A k \in DOMAIN more : more[k] \in ToSet(more) /\ "name" \in DOMAIN more[k]
  BY SeqDomain DEF Named
<1>2. PICK g : AddingEnvs(g, Len(more), s, more) /\ AddAllIfAbsent(s, more) = g[Len(more)]
  BY <1>1, AddAllUnfolds
<1>3. g[0] = s /\ \A m \in 0 .. Len(more) : m # 0 => g[m] = AddIfAbsent(g[m - 1], more[m])
  BY <1>1, <1>2 DEF AddingEnvs
<1> DEFINE Upto(m) == {more[k].name : k \in 1 .. m}
           Good(m) == /\ Named(g[m]) /\ Names(g[m]) = Names(s) \cup Upto(m)
                      /\ ToSet(g[m]) \subseteq ToSet(s) \cup ToSet(more)
           T == {m \in Nat : m <= Len(more) => Good(m)}
<1>4. T = Nat
  <2>1. T \subseteq Nat /\ 0 \in T
    BY <1>1, <1>3
  <2>2. ASSUME NEW m \in T PROVE m + 1 \in T
    <3>1. CASE m + 1 <= Len(more)
      <4>1. Good(m) /\ m + 1 \in 0 .. Len(more) /\ (m + 1) - 1 = m /\ m + 1 # 0 /\ m + 1 \in DOMAIN more
        BY <1>1, <3>1
      <4>2. g[m + 1] = AddIfAbsent(g[m], more[m + 1])
        BY <1>3, <4>1
      <4>3. "name" \in DOMAIN more[m + 1] /\ more[m + 1] \in ToSet(more)
        BY <1>1, <4>1
      <4>4. /\ Named(g[m + 1]) /\ Names(g[m + 1]) = Names(g[m]) \cup {more[m + 1].name}
            /\ ToSet(g[m + 1]) \subseteq ToSet(g[m]) \cup {more[m + 1]}
        BY <4>1, <4>2, <4>3, AddIfAbsentNames
      <4>5. Upto(m + 1) = Upto(m) \cup {more[m + 1].name}
        <5>1. 1 .. (m + 1) = (1 .. m) \cup {m + 1}
          OBVIOUS
        <5> QED BY <5>1, Zenon
      <4>6. Good(m + 1)
        BY <4>1, <4>3, <4>4, <4>5
      <4> QED BY <4>6
    <3> QED BY <3>1
  <2> HIDE DEF T
  <2> QED BY <2>1, <2>2, FromZero
<1>5. Good(Len(more))
  BY <1>1, <1>4
<1>6. Upto(Len(more)) = Names(more)
  BY <1>1 DEF Names
<1> QED BY <1>2, <1>5, <1>6

LEMMA SurroundNames ==
    ASSUME NEW s, Named(s), NEW n, NEW before, NEW after
    PROVE  Named(Surround(s, n, before, after)) /\ Names(Surround(s, n, before, after)) = Names(s) \cup {n}
<1>1. CASE HasEnv(s, n)
  <2> DEFINE i == getIndexOfEnv(s, n)
             t == [s EXCEPT ![i].val = before \o @ \o after]
  <2>1. Surround(s, n, before, after) = t
    BY <1>1 DEF Surround
  <2> HIDE DEF i
  <2>2. SameNames(s, t)
    BY DEF Named, SameNames
  <2> HIDE DEF t
  <2>3. Named(t) /\ Names(t) = Names(s)
    BY <2>2, SameNamesNamed
  <2> QED BY <1>1, <2>1, <2>3, HasEnvName
<1>2. CASE ~HasEnv(s, n)
  <2> DEFINE e == Env(n, before \o after)
  <2>1. Surround(s, n, before, after) = Append(s, e)
    BY <1>2 DEF Surround
  <2>2. "name" \in DOMAIN e /\ e.name = n
    BY DEF Env
  <2> HIDE DEF e
  <2> QED BY <2>1, <2>2, AppendedNamed
<1> QED BY <1>1, <1>2

LEMMA MovedNames ==
    ASSUME NEW s, Named(s), NEW n \in Names(s)
    PROVE  Named(moveEnvToListEnd(s, n)) /\ Names(moveEnvToListEnd(s, n)) = Names(s)
<1> DEFINE i == getIndexOfEnv(s, n)
           t == Append(RemoveAt(s, i), s[i])
<1>1. i \in DOMAIN s /\ IsSeq(s)
  BY FirstIsThere DEF Named
<1>2. moveEnvToListEnd(s, n) = t
  BY DEF moveEnvToListEnd
<1> HIDE DEF i
<1>3. IsSeq(t) /\ ToSet(t) = ToSet(s)
  BY <1>1, MovedToEnd
<1> HIDE DEF t
<1> QED BY <1>1, <1>2, <1>3, NamesOfElements

LEMMA ReferenceNames ==
    ASSUME NEW keys
    PROVE  /\ Named(ReferenceEnvs(keys))
           /\ Names(ReferenceEnvs(keys)) \subseteq References
           /\ "node" \in keys => EnvNodeName \in Names(ReferenceEnvs(keys))
<1> DEFINE a == IF "pod" \in keys THEN <<EnvRef(PodNameEnv)>> ELSE <<>>
           b == IF "poduid" \in keys THEN <<EnvRef(PodUIDEnv)>> ELSE <<>>
           c == IF "node" \in keys THEN <<EnvRef(EnvNodeName)>> ELSE <<>>
<1>0. \A n : "name" \in DOMAIN EnvRef(n) /\ EnvRef(n).name = n
  BY DEF EnvRef
<1>1. ReferenceEnvs(keys) = a \o b \o c
  BY DEF ReferenceEnvs
<1>2. Named(a) /\ Names(a) \subseteq {PodNameEnv}
  BY <1>0, OneNamed, NoneNamed
<1>3. Named(b) /\ Names(b) \subseteq {PodUIDEnv}
  BY <1>0, OneNamed, NoneNamed
<1>4. Named(c) /\ Names(c) \subseteq {EnvNodeName} /\ ("node" \in keys => EnvNodeName \in Names(c))
  BY <1>0, OneNamed, NoneNamed
<1> HIDE DEF a, b, c
<1>5. Named(a \o b) /\ Names(a \o b) = Names(a) \cup Names(b)
  BY <1>2, <1>3, JoinedNamed
<1>6. Named((a \o b) \o c) /\ Names((a \o b) \o c) = Names(a \o b) \cup Names(c)
  BY <1>4, <1>5, JoinedNamed
<1> QED BY <1>1, <1>2, <1>3, <1>4, <1>5, <1>6 DEF References

\* What the configuration of the SDK may set.
SDKNames ==
    References \cup {ResourceAttrs, "OTEL_SERVICE_NAME", "OTEL_EXPORTER_OTLP_ENDPOINT",
                     "OTEL_PROPAGATORS", "OTEL_TRACES_SAMPLER", "OTEL_TRACES_SAMPLER_ARG"}

\* The list t has the names of s and perhaps some of the SDK's.
Grows(s, t) == Named(t) /\ Names(s) \subseteq Names(t) /\ Names(t) \subseteq Names(s) \cup SDKNames

LEMMA GrowsTrans == ASSUME NEW s, NEW t, NEW u, Grows(s, t), Grows(t, u) PROVE Grows(s, u)
BY DEF Grows

LEMMA EnvNamed == ASSUME NEW n, NEW v PROVE "name" \in DOMAIN Env(n, v) /\ Env(n, v).name = n
BY DEF Env

LEMMA EnvsNamed == ASSUME NEW n, NEW v PROVE Named(Envs(<<n>>, v)) /\ Names(Envs(<<n>>, v)) = {n}
<1> DEFINE e == Env(n, <<v>>)
<1>1. Envs(<<n>>, v) = [i \in DOMAIN <<n>> |-> Env(<<n>>[i], <<v>>)]
  BY DEF Envs
<1>2. DOMAIN <<n>> = 1 .. 1 /\ \A i \in 1 .. 1 : Env(<<n>>[i], <<v>>) = e
  OBVIOUS
<1>3. "name" \in DOMAIN e /\ e.name = n
  BY EnvNamed
<1> HIDE DEF e
<1>4. Envs(<<n>>, v) = [i \in 1 .. 1 |-> e]
  BY <1>1, <1>2
<1>5. Envs(<<n>>, v) = <<e>>
  BY <1>4
<1> QED BY <1>3, <1>5, OneNamed

LEMMA AddServiceGrows ==
    ASSUME NEW inst, NEW s, Named(s), NEW resources
    PROVE  Grows(s, AddService(inst, s, resources))
<1> DEFINE a == Env("OTEL_SERVICE_NAME", <<chooseServiceName(resources)>>)
           e == Env("OTEL_EXPORTER_OTLP_ENDPOINT", <<Agent>>)
           b == IF inst.endpoint THEN <<e>> ELSE <<>>
<1>1. AddService(inst, s, resources) = AddAllIfAbsent(s, <<a>> \o b)
  BY DEF AddService
<1>2. "name" \in DOMAIN a /\ a.name = "OTEL_SERVICE_NAME"
  BY EnvNamed
<1>3. "name" \in DOMAIN e /\ e.name = "OTEL_EXPORTER_OTLP_ENDPOINT"
  BY EnvNamed
<1> HIDE DEF a, e
<1>4. Named(<<a>>) /\ Names(<<a>>) \subseteq SDKNames
  BY <1>2, OneNamed DEF SDKNames
<1>5. Named(b) /\ Names(b) \subseteq SDKNames
  BY <1>3, OneNamed, NoneNamed DEF SDKNames
<1> HIDE DEF b
<1>6. Named(<<a>> \o b) /\ Names(<<a>> \o b) \subseteq SDKNames
  BY <1>4, <1>5, JoinedNamed
<1> DEFINE more == <<a>> \o b
<1> HIDE DEF more
<1>7. Grows(s, AddAllIfAbsent(s, more))
  BY <1>6, AddAllNames DEF Grows, more
<1> QED BY <1>1, <1>7 DEF more

LEMMA AddAttributesGrows ==
    ASSUME NEW s, Named(s), NEW app, NEW resources, NEW referred
    PROVE  LET r == AddAttributes(s, app, resources, referred)
           IN  /\ Grows(s, r) /\ ResourceAttrs \in Names(r)
               /\ "node" \in referred => EnvNodeName \in Names(r)
<1> DEFINE refs == ReferenceEnvs(referred)
           t == s \o refs
<1>1. PICK value : AddAttributes(s, app, resources, referred) = Surround(t, ResourceAttrs, <<>>, value)
  BY DEF AddAttributes
<1>2. /\ Named(refs) /\ Names(refs) \subseteq References
      /\ "node" \in referred => EnvNodeName \in Names(refs)
  BY ReferenceNames
<1> HIDE DEF refs
<1>3. Named(t) /\ Names(t) = Names(s) \cup Names(refs)
  BY <1>2, JoinedNamed
<1> HIDE DEF t
<1> DEFINE r == Surround(t, ResourceAttrs, <<>>, value)
<1>4. Named(r) /\ Names(r) = Names(t) \cup {ResourceAttrs}
  BY <1>3, SurroundNames
<1> HIDE DEF r
<1>5. Grows(s, r)
  BY <1>2, <1>3, <1>4 DEF Grows, SDKNames
<1> QED BY <1>1, <1>2, <1>3, <1>4, <1>5 DEF r

LEMMA AddPropagatorsGrows ==
    ASSUME NEW inst, NEW s, Named(s)
    PROVE  Grows(s, AddPropagators(inst, s))
<1> DEFINE e == Env("OTEL_PROPAGATORS", <<"set">>)
<1>1. "name" \in DOMAIN e /\ e.name = "OTEL_PROPAGATORS"
  BY EnvNamed
<1>2. AddPropagators(inst, s) = IF inst.propagators THEN AddIfAbsent(s, e) ELSE s
  BY DEF AddPropagators
<1> HIDE DEF e
<1> QED BY <1>1, <1>2, AddIfAbsentNames DEF Grows, SDKNames

LEMMA AddSamplerGrows ==
    ASSUME NEW inst, NEW s, Named(s)
    PROVE  Grows(s, AddSampler(inst, s))
<1> DEFINE a == Envs(<<"OTEL_TRACES_SAMPLER">>, "set")
           c == Envs(<<"OTEL_TRACES_SAMPLER_ARG">>, "set")
           b == IF inst.arg THEN c ELSE <<>>
<1>1. AddSampler(inst, s) \in {s, s \o a \o b}
  BY DEF AddSampler
<1>2. Named(a) /\ Names(a) \subseteq SDKNames
  BY EnvsNamed DEF SDKNames
<1>3. Named(c) /\ Names(c) \subseteq SDKNames
  BY EnvsNamed DEF SDKNames
<1> HIDE DEF a, c
<1>4. Named(b) /\ Names(b) \subseteq SDKNames
  BY <1>3, NoneNamed
<1> HIDE DEF b
<1> DEFINE t == s \o a
<1>5. Named(t) /\ Names(t) = Names(s) \cup Names(a)
  BY <1>2, JoinedNamed
<1>6. AddSampler(inst, s) \in {s, t \o b}
  BY <1>1
<1> HIDE DEF t
<1>7. Named(t \o b) /\ Names(t \o b) = Names(t) \cup Names(b)
  BY <1>4, <1>5, JoinedNamed
<1> QED BY <1>2, <1>4, <1>5, <1>6, <1>7 DEF Grows

LEMMA SDKGrows ==
    ASSUME NEW inst, NEW s, Named(s), NEW app, NEW resources
    PROVE  LET r == moveEnvToListEnd(SDKEnvs(inst, s, app, resources), ResourceAttrs)
           IN  /\ Grows(s, r)
               /\ "node" \in Referred(inst, resources, Existing(app)) => EnvNodeName \in Names(r)
<1> DEFINE ref == Referred(inst, resources, Existing(app))
           a == AddService(inst, s, resources)
           b == AddAttributes(a, app, resources, ref)
           c == AddPropagators(inst, b)
           d == AddSampler(inst, c)
           r == moveEnvToListEnd(d, ResourceAttrs)
<1>1. Grows(s, a)
  BY AddServiceGrows
<1> HIDE DEF ref, a
<1>2. Grows(a, b) /\ ResourceAttrs \in Names(b) /\ ("node" \in ref => EnvNodeName \in Names(b))
  BY <1>1, AddAttributesGrows DEF Grows
<1> HIDE DEF b
<1>3. Grows(b, c)
  BY <1>2, AddPropagatorsGrows DEF Grows
<1> HIDE DEF c
<1>4. Grows(c, d)
  BY <1>3, AddSamplerGrows DEF Grows
<1> HIDE DEF d
<1>5. Named(d) /\ ResourceAttrs \in Names(d) /\ ("node" \in ref => EnvNodeName \in Names(d))
  BY <1>2, <1>3, <1>4 DEF Grows
<1>6. Named(r) /\ Names(r) = Names(d)
  BY <1>5, MovedNames
<1> HIDE DEF r
<1>7. Grows(s, d)
  BY <1>1, <1>2, <1>3, <1>4, GrowsTrans
<1>8. Grows(s, r)
  BY <1>6, <1>7 DEF Grows
<1>9. r = moveEnvToListEnd(SDKEnvs(inst, s, app, resources), ResourceAttrs)
  BY DEF SDKEnvs, ref, a, b, c, d, r
<1> QED BY <1>5, <1>6, <1>8, <1>9 DEF ref

----------------------------------------------------------------------------
\* The SDK in one container: its own variables stay, and if the node was not known the
\* variable with its name comes.

InstOK(inst) == Named(inst.env) /\ Named(inst.langEnv["go"])

LEMMA ConfiguredEnv ==
    ASSUME NEW p, Shaped(p), NEW inst, InstOK(inst), NEW a \in DOMAIN p.containers, NEW app,
           NEW cluster, "env" \in DOMAIN p.containers[a], Named(p.containers[a].env),
           NEW own, own = AddAllIfAbsent(p.containers[a].env, inst.env),
           NEW x, x = injectCommonEnvVar(inst, p, a),
           NEW y, y = injectCommonSDKConfig(inst, x, a, app, cluster)
    PROVE  /\ DOMAIN y.containers = DOMAIN p.containers /\ Len(y.containers) = Len(p.containers)
           /\ \A k \in DOMAIN p.containers : k # a => y.containers[k] = p.containers[k]
           /\ x.containers[a].env = own
           /\ "env" \in DOMAIN y.containers[a]
           /\ y.containers[a].name = p.containers[a].name
           /\ Grows(own, y.containers[a].env)
           /\ "node" \in Referred(inst, createResourceMap(inst, x, app, cluster),
                                  Existing(x.containers[app]))
                => EnvNodeName \in Names(y.containers[a].env)
<1> DEFINE q == [p EXCEPT !.containers[a].env = own]
           resources == createResourceMap(inst, q, app, cluster)
           to == moveEnvToListEnd(SDKEnvs(inst, own, q.containers[app], resources), ResourceAttrs)
           r == [q EXCEPT !.containers[a].env = to]
<1>1. injectCommonEnvVar(inst, p, a) = q
  BY DEF injectCommonEnvVar, Shaped, PodFields
<1>2. Named(own)
  BY AddAllNames DEF InstOK
<1>3. /\ "containers" \in DOMAIN q /\ DOMAIN q.containers = DOMAIN p.containers
      /\ q.containers[a] = [p.containers[a] EXCEPT !.env = own]
      /\ \A k \in DOMAIN p.containers : k # a => q.containers[k] = p.containers[k]
  BY DEF Shaped, PodFields
<1>4. q.containers[a].env = own /\ "env" \in DOMAIN q.containers[a]
      /\ q.containers[a].name = p.containers[a].name /\ "name" \in DOMAIN q.containers[a]
  BY <1>3 DEF Shaped, Named
<1>5. Kept(p, q)
  BY EnvSet
<1> HIDE DEF q
<1>6. /\ Grows(own, to)
      /\ "node" \in Referred(inst, resources, Existing(q.containers[app])) => EnvNodeName \in Names(to)
  BY <1>2, SDKGrows
<1>7. injectCommonSDKConfig(inst, q, a, app, cluster) = r
  BY <1>3, <1>4 DEF injectCommonSDKConfig
<1> HIDE DEF to
<1>8. /\ "containers" \in DOMAIN r /\ DOMAIN r.containers = DOMAIN q.containers
      /\ r.containers[a] = [q.containers[a] EXCEPT !.env = to]
      /\ \A k \in DOMAIN q.containers : k # a => r.containers[k] = q.containers[k]
  BY <1>3
<1>9. r.containers[a].env = to /\ r.containers[a].name = p.containers[a].name
      /\ "env" \in DOMAIN r.containers[a]
  BY <1>4, <1>8
<1>10. Kept(q, r)
  BY <1>5, EnvSet DEF Kept
<1> HIDE DEF r
<1>11. Len(r.containers) = Len(p.containers)
  <2>1. IsSeq(r.containers) /\ IsSeq(p.containers) /\ DOMAIN r.containers = DOMAIN p.containers
    BY <1>3, <1>8, <1>10 DEF Kept, Shaped, Named
  <2>2. 1 .. Len(r.containers) = 1 .. Len(p.containers) /\ Len(r.containers) \in Nat /\ Len(p.containers) \in Nat
    BY <2>1, SeqDomain
  <2> QED BY <2>2
<1> QED BY <1>1, <1>3, <1>4, <1>6, <1>7, <1>8, <1>9, <1>11

----------------------------------------------------------------------------
\* Each language either leaves a pod as it is or leaves a mark.

\* The variables of the Go agent before the SDK's.
GoEnv(inst, ann) ==
    LET key == <<"exe", "go">>
        env == IF key \in DOMAIN ann THEN <<Env(TargetExe, ann[key])>> ELSE <<>>
    IN  AddAllIfAbsent(AddAllIfAbsent(env, inst.langEnv["go"]), inst.env)

GoIdle(inst, p, cluster) == GoRefuses(p, cluster) \/ TargetExe \notin Names(GoEnv(inst, p.ann))

LEMMA GoEffect ==
    ASSUME NEW p, Shaped(p), NEW inst, InstOK(inst), NEW cluster
    PROVE  /\ Kept(p, InstrumentGo(inst, p, cluster))
           /\ GoIdle(inst, p, cluster) => InstrumentGo(inst, p, cluster) = p
           /\ ~GoIdle(inst, p, cluster) => Marked(InstrumentGo(inst, p, cluster))
<1> DEFINE key == <<"exe", "go">>
           env == IF key \in DOMAIN p.ann THEN <<Env(TargetExe, p.ann[key])>> ELSE <<>>
           spec == inst.langEnv["go"]
           own == AddAllIfAbsent(env, spec)
           d == Container(sideCarName, own, <<Mount("kernel-debug", "debug")>>)
           cs == Append(p.containers, d)
           last == Len(cs)
           q == [p EXCEPT !.shareProcesses = "yes", !.containers = cs,
                          !.volumes = Append(@, "kernel-debug")]
           r == ConfigureGo(inst, q, cluster)
<1>1. injectGoSDK(spec, p) = q
  BY DEF injectGoSDK
<1>2. Named(env)
  BY EnvNamed, OneNamed, NoneNamed
<1>3. GoEnv(inst, p.ann) = AddAllIfAbsent(own, inst.env)
  BY DEF GoEnv
<1> HIDE DEF key, env
<1>4. Named(own)
  BY <1>2, AddAllNames DEF InstOK
<1> HIDE DEF own, spec
<1>5. {"name", "env"} \subseteq DOMAIN d /\ d.name = sideCarName /\ d.env = own
  BY DEF Container
<1> HIDE DEF d
<1>6. Named(cs) /\ Names(cs) = Names(p.containers) \cup {sideCarName}
  BY <1>5, AppendedNamed DEF Shaped
<1>7. last \in DOMAIN cs /\ cs[last] = d
  <2>1. IsSeq(p.containers) /\ Len(p.containers) \in Nat
    BY SeqDomain DEF Shaped, Named
  <2>2. IsSeq(cs) /\ Len(cs) = Len(p.containers) + 1 /\ cs[Len(p.containers) + 1] = d
    BY <2>1, Appended
  <2>3. DOMAIN cs = 1 .. Len(cs)
    BY <2>2, SeqDomain
  <2> QED BY <2>1, <2>2, <2>3
<1> HIDE DEF cs
<1>8. /\ PodFields \subseteq DOMAIN q /\ q.ann = p.ann /\ q.sc = p.sc /\ q.owner = p.owner
      /\ q.init = p.init /\ q.containers = cs
  BY DEF Shaped, PodFields
<1> HIDE DEF q
<1>9. Shaped(q) /\ Kept(p, q) /\ Marked(q)
  BY <1>6, <1>8 DEF Shaped, Kept, Marked
<1>10. r = injectCommonSDKConfig(inst, injectCommonEnvVar(inst, q, last), last, 1, cluster)
  BY <1>8 DEF ConfigureGo
<1> HIDE DEF r
<1>11. Kept(q, r)
  BY <1>9, <1>10, SDKConfigKept
<1>12. Len(r.containers) = last /\ Grows(AddAllIfAbsent(own, inst.env), r.containers[last].env)
  <2>1. /\ last \in DOMAIN q.containers /\ "env" \in DOMAIN q.containers[last]
        /\ q.containers[last].env = own /\ Len(q.containers) = last
    BY <1>5, <1>7, <1>8
  <2> HIDE DEF last
  <2>2. Named(q.containers[last].env)
    BY <1>4, <2>1
  <2>3. /\ Len(r.containers) = Len(q.containers)
        /\ Grows(AddAllIfAbsent(q.containers[last].env, inst.env), r.containers[last].env)
    <3>1. PICK x, app : r = injectCommonSDKConfig(inst, x, last, app, cluster)
                          /\ x = injectCommonEnvVar(inst, q, last)
      BY <1>10
    <3>2. PICK e : e = AddAllIfAbsent(q.containers[last].env, inst.env)
      OBVIOUS
    <3>3. Shaped(q)
      BY <1>9
    <3>4. Grows(e, r.containers[last].env) /\ Len(r.containers) = Len(q.containers)
      BY <2>1, <2>2, <3>1, <3>2, <3>3, ConfiguredEnv
    <3> QED BY <3>2, <3>4
  <2> QED BY <2>1, <2>3
<1>13. TargetExe \notin SDKNames
  BY DEF TargetExe, SDKNames, References, PodNameEnv, PodUIDEnv, EnvNodeName, ResourceAttrs
<1>14. HasEnv(Last(r.containers).env, TargetExe) <=> TargetExe \in Names(GoEnv(inst, p.ann))
  <2>1. Last(r.containers) = r.containers[last]
    BY <1>12 DEF Last
  <2> QED BY <1>3, <1>12, <1>13, <2>1, HasEnvName DEF Grows
<1>15. Kept(p, r) /\ Marked(r)
  BY <1>9, <1>11, KeptTrans, KeptMarked
<1>16. InstrumentGo(inst, p, cluster) = IF GoIdle(inst, p, cluster) THEN p ELSE r
  BY <1>1, <1>14 DEF InstrumentGo, IfTargetKnown, GoIdle, r, spec
<1> QED BY <1>15, <1>16, KeptSelf

LEMMA LastPosition ==
    ASSUME NEW n \in Nat, NEW T, T \subseteq 1 .. n, T # {}
    PROVE  \E i \in T : \A j \in T : j <= i
<1> DEFINE D == {n - i : i \in T}
<1>1. D \subseteq Nat /\ D # {}
  <2>1. \A i \in T : n - i \in Nat
    OBVIOUS
  <2>2. PICK i : i \in T
    OBVIOUS
  <2>3. n - i \in D
    BY <2>2
  <2> QED BY <2>1, <2>3
<1>2. PICK x \in D : \A y \in D : x <= y
  <2> HIDE DEF D
  <2> QED BY <1>1, FirstNumber
<1>3. PICK i \in T : x = n - i
  BY <1>2
<1>4. \A j \in T : n - i <= n - j
  BY <1>2, <1>3
<1>5. \A j \in T : j <= i
  BY <1>4
<1> QED BY <1>5

LEMMA IndexInDomain ==
    ASSUME NEW p, Shaped(p), Names(p.containers) # {}, NEW name
    PROVE  getContainerIndex(name, p) \in DOMAIN p.containers
<1> DEFINE T == {i \in DOMAIN p.containers : p.containers[i].name = name}
<1>1. Len(p.containers) \in Nat /\ DOMAIN p.containers = 1 .. Len(p.containers)
  BY SeqDomain DEF Shaped, Named
<1>2. 1 \in DOMAIN p.containers
  BY <1>1 DEF Names
<1>3. getContainerIndex(name, p) = IF T = {} THEN 1 ELSE CHOOSE i \in T : \A j \in T : j <= i
  BY DEF getContainerIndex
<1>4. T \subseteq DOMAIN p.containers
  OBVIOUS
<1> HIDE DEF T
<1>5. T # {} => \E i \in T : \A j \in T : j <= i
  BY <1>1, <1>4, LastPosition
<1> QED BY <1>2, <1>3, <1>4, <1>5

\* For each language that has an instance.
AsksOK(asks) == \A lang \in DOMAIN asks : Len(asks[lang].names) \in Nat /\ InstOK(asks[lang].inst)

\* The container is refused.
Passed(asks, lang, p, name, allEnvs) ==
    LET i == getContainerIndex(name, p)
    IN  /\ lang \in Templates
        /\ Refuses(lang, asks[lang].inst.langEnv[lang], p, i, asks[lang].runtime, allEnvs[i])

\* The language is not asked for, or it is refused in each container.
Idle(asks, lang, p, allEnvs, cluster) ==
    \/ lang \notin DOMAIN asks
    \/ lang = "go" /\ GoIdle(asks[lang].inst, p, cluster)
    \/ /\ lang # "go"
       /\ \A m \in 1 .. Len(asks[lang].names) : Passed(asks, lang, p, asks[lang].names[m], allEnvs)

LEMMA InstrumentEffect ==
    ASSUME NEW p, Shaped(p), Names(p.containers) # {}, NEW asks, NEW lang \in Languages,
           lang # "go", NEW name, NEW allEnvs, NEW cluster
    PROVE  LET q == NextPod(p, name, asks, lang, allEnvs, cluster)
           IN  /\ Kept(p, q)
               /\ Passed(asks, lang, p, name, allEnvs) => q = p
               /\ ~Passed(asks, lang, p, name, allEnvs) /\ lang # "sdk" => Marked(q)
<1> DEFINE i == getContainerIndex(name, p)
           inst == asks[lang].inst
           q == NextPod(p, name, asks, lang, allEnvs, cluster)
<1>0. i \in DOMAIN p.containers
  BY IndexInDomain
<1>1. CASE lang \in Templates
  <2>1. lang \notin {"apache", "nginx", "sdk"}
    BY <1>1 DEF Templates
  <2>2. q = InstrumentContainer(lang, inst, p, i, asks[lang].runtime, allEnvs[i], cluster)
    BY <2>1 DEF NextPod, Instrument
  <2>3. Passed(asks, lang, p, name, allEnvs) <=>
          Refuses(lang, inst.langEnv[lang], p, i, asks[lang].runtime, allEnvs[i])
    BY <1>1 DEF Passed
  <2> HIDE DEF i, inst
  <2>4. /\ Kept(p, q)
        /\ ~Refuses(lang, inst.langEnv[lang], p, i, asks[lang].runtime, allEnvs[i]) => Marked(q)
    BY <1>1, <2>2, TemplateKept
  <2>5. Refuses(lang, inst.langEnv[lang], p, i, asks[lang].runtime, allEnvs[i]) => q = p
    BY <2>2 DEF InstrumentContainer
  <2> QED BY <2>3, <2>4, <2>5
<1>2. CASE lang = "apache"
  <2>1. q = InstrumentApache(inst, p, i, cluster)
    BY <1>2 DEF NextPod, Instrument
  <2>2. ~Passed(asks, lang, p, name, allEnvs)
    BY <1>2 DEF Passed, Templates
  <2> HIDE DEF i, inst
  <2> QED BY <1>0, <2>1, <2>2, ApacheKept
<1>3. CASE lang = "nginx"
  <2>1. q = InstrumentNginx(inst, p, i, cluster)
    BY <1>3 DEF NextPod, Instrument
  <2>2. ~Passed(asks, lang, p, name, allEnvs)
    BY <1>3 DEF Passed, Templates
  <2> HIDE DEF i, inst
  <2> QED BY <1>0, <2>1, <2>2, NginxKept
<1>4. CASE lang = "sdk"
  <2>1. q = CommonConfig(inst, p, i, cluster)
    BY <1>4 DEF NextPod, Instrument
  <2>2. ~Passed(asks, lang, p, name, allEnvs)
    BY <1>4 DEF Passed, Templates
  <2> HIDE DEF i, inst
  <2> QED BY <1>4, <2>1, <2>2, CommonConfigKept
<1> QED BY <1>1, <1>2, <1>3, <1>4 DEF Languages, Templates

LEMMA LanguageEffect ==
    ASSUME NEW p, Shaped(p), Names(p.containers) # {}, NEW asks, AsksOK(asks),
           NEW lang \in Languages, NEW allEnvs, NEW cluster
    PROVE  LET q == InjectLanguage(asks, lang, p, allEnvs, cluster)
           IN  /\ Kept(p, q)
               /\ Idle(asks, lang, p, allEnvs, cluster) => q = p
               /\ ~Idle(asks, lang, p, allEnvs, cluster) /\ lang # "sdk" => Marked(q)
<1>1. CASE lang \notin DOMAIN asks
  <2>1. InjectLanguage(asks, lang, p, allEnvs, cluster) = p
    BY <1>1 DEF InjectLanguage
  <2> QED BY <1>1, <2>1, KeptSelf DEF Idle
<1>2. CASE lang \in DOMAIN asks /\ lang = "go"
  <2>1. InjectLanguage(asks, lang, p, allEnvs, cluster) = InstrumentGo(asks[lang].inst, p, cluster)
    BY <1>2 DEF InjectLanguage
  <2>2. InstOK(asks[lang].inst)
    BY <1>2 DEF AsksOK
  <2>3. Idle(asks, lang, p, allEnvs, cluster) <=> GoIdle(asks[lang].inst, p, cluster)
    BY <1>2 DEF Idle
  <2> QED BY <2>1, <2>2, <2>3, GoEffect
<1>3. CASE lang \in DOMAIN asks /\ lang # "go"
  <2> DEFINE names == asks[lang].names
             Ref(m) == Passed(asks, lang, p, names[m], allEnvs)
  <2>1. Len(names) \in Nat
    BY <1>3 DEF AsksOK
  <2>2. PICK g : /\ Injecting(g, Len(names), names, asks, lang, p, allEnvs, cluster)
                 /\ InstrumentEach(asks, lang, p, allEnvs, cluster) = g[Len(names)]
    BY <2>1, InstrumentEachUnfolds
  <2>3. Idle(asks, lang, p, allEnvs, cluster) <=> \A m \in 1 .. Len(names) : Ref(m)
    BY <1>3 DEF Idle
  <2>4. InjectLanguage(asks, lang, p, allEnvs, cluster) = g[Len(names)]
    BY <1>3, <2>2 DEF InjectLanguage
  <2> HIDE DEF names
  <2>5. g[0] = p /\ \A m \in 0 .. Len(names) : m # 0 =>
                       g[m] = NextPod(g[m - 1], names[m], asks, lang, allEnvs, cluster)
    BY <2>1, <2>2 DEF Injecting
  <2> DEFINE Good(m) == /\ Kept(p, g[m])
                        /\ (\A j \in 1 .. m : Ref(j)) => g[m] = p
                        /\ (\E j \in 1 .. m : ~Ref(j)) /\ lang # "sdk" => Marked(g[m])
             T == {m \in Nat : m <= Len(names) => Good(m)}
  <2>6. T = Nat
    <3>1. T \subseteq Nat /\ 0 \in T
      BY <2>5, KeptSelf
    <3>2. ASSUME NEW m \in T PROVE m + 1 \in T
      <4>1. CASE m + 1 <= Len(names)
        <5>1. Good(m) /\ m + 1 \in 0 .. Len(names) /\ (m + 1) - 1 = m /\ m + 1 # 0
          BY <2>1, <4>1
        <5> DEFINE q == g[m]
                   r == g[m + 1]
        <5>2. r = NextPod(q, names[m + 1], asks, lang, allEnvs, cluster)
          BY <2>5, <5>1
        <5>3. Shaped(q) /\ Names(q.containers) # {}
          BY <5>1 DEF Kept
        <5>4. /\ Kept(q, r)
              /\ Passed(asks, lang, q, names[m + 1], allEnvs) => r = q
              /\ ~Passed(asks, lang, q, names[m + 1], allEnvs) /\ lang # "sdk" => Marked(r)
          <6> HIDE DEF q, r, Ref
          <6> DEFINE u == NextPod(q, names[m + 1], asks, lang, allEnvs, cluster)
          <6>1. /\ Kept(q, u)
                /\ Passed(asks, lang, q, names[m + 1], allEnvs) => u = q
                /\ ~Passed(asks, lang, q, names[m + 1], allEnvs) /\ lang # "sdk" => Marked(u)
            BY <1>3, <5>3, InstrumentEffect, Zenon
          <6> QED BY <5>2, <6>1
        <5>5. 1 .. (m + 1) = (1 .. m) \cup {m + 1}
          OBVIOUS
        <5>6. Kept(p, r)
          BY <5>1, <5>4, KeptTrans
        <5>7. CASE \A j \in 1 .. m : Ref(j)
          <6>1. q = p
            BY <5>1, <5>7
          <6>2. Ref(m + 1) <=> Passed(asks, lang, q, names[m + 1], allEnvs)
            BY <6>1
          <6> HIDE DEF Ref, q, r
          <6>3. /\ (\A j \in 1 .. (m + 1) : Ref(j)) => r = p
                /\ (\E j \in 1 .. (m + 1) : ~Ref(j)) /\ lang # "sdk" => Marked(r)
            BY <5>4, <5>5, <5>7, <6>1, <6>2
          <6>4. Good(m + 1)
            BY <5>6, <6>3 DEF r
          <6> QED BY <6>4
        <5>8. CASE \E j \in 1 .. m : ~Ref(j)
          <6>1. lang # "sdk" => Marked(q)
            BY <5>1, <5>8
          <6>2. lang # "sdk" => Marked(r)
            BY <5>4, <6>1, KeptMarked
          <6> HIDE DEF Ref, q, r
          <6>3. ~(\A j \in 1 .. (m + 1) : Ref(j))
            BY <5>5, <5>8
          <6>4. Good(m + 1)
            BY <5>6, <6>2, <6>3 DEF r
          <6> QED BY <6>4
        <5> QED BY <5>7, <5>8
      <4> QED BY <4>1
    <3> HIDE DEF T
    <3> QED BY <3>1, <3>2, FromZero
  <2>7. Good(Len(names))
    BY <2>1, <2>6
  <2> HIDE DEF Ref
  <2> QED BY <2>3, <2>4, <2>7
<1> QED BY <1>1, <1>2, <1>3

----------------------------------------------------------------------------
\* The SDK alone marks a container when the node is not known.

\* The variables of every container are a list.
Listed(p) ==
    Shaped(p) /\ \A k \in DOMAIN p.containers :
                    "env" \in DOMAIN p.containers[k] /\ Named(p.containers[k].env)

EnvMarked(p) ==
    \E i \in DOMAIN p.containers :
        p.containers[i].name # CollectorContainer /\ HasEnv(p.containers[i].env, EnvNodeName)

\* Nothing in the pod or the instance tells the node, and no container is the collector's.
NodeOpen(inst, p) ==
    /\ ~p.scheduled /\ p.owner \in Owners
    /\ "node" \notin inst.attrs /\ ~NamesNode(inst.env)
    /\ \A k \in DOMAIN p.containers :
          p.containers[k].name # CollectorContainer /\ ~NamesNode(p.containers[k].env)

LEMMA ConfigListed ==
    ASSUME NEW p, Listed(p), NEW inst, InstOK(inst), NEW i \in DOMAIN p.containers, NEW cluster
    PROVE  /\ Listed(CommonConfig(inst, p, i, cluster))
           /\ EnvMarked(p) => EnvMarked(CommonConfig(inst, p, i, cluster))
<1>1. PICK x, y : /\ x = injectCommonEnvVar(inst, p, i)
                  /\ y = injectCommonSDKConfig(inst, x, i, i, cluster)
  OBVIOUS
<1>2. CommonConfig(inst, p, i, cluster) = y
  BY <1>1 DEF CommonConfig
<1>3. Shaped(p) /\ "env" \in DOMAIN p.containers[i] /\ Named(p.containers[i].env)
  BY DEF Listed
<1>4. PICK own : own = AddAllIfAbsent(p.containers[i].env, inst.env)
  OBVIOUS
<1>5. Named(own) /\ Names(p.containers[i].env) \subseteq Names(own)
  BY <1>3, <1>4, AddAllNames DEF InstOK
<1>6. /\ DOMAIN y.containers = DOMAIN p.containers
      /\ \A k \in DOMAIN p.containers : k # i => y.containers[k] = p.containers[k]
      /\ "env" \in DOMAIN y.containers[i]
      /\ y.containers[i].name = p.containers[i].name
      /\ Grows(own, y.containers[i].env)
  BY <1>1, <1>3, <1>4, ConfiguredEnv
<1>7. Named(y.containers[i].env) /\ Names(p.containers[i].env) \subseteq Names(y.containers[i].env)
  BY <1>5, <1>6 DEF Grows
<1>8. Shaped(y)
  BY <1>1, <1>3, SDKConfigKept DEF Kept
<1>9. Listed(y)
  BY <1>6, <1>7, <1>8 DEF Listed
<1>10. EnvMarked(p) => EnvMarked(y)
  BY <1>6, <1>7, HasEnvName DEF EnvMarked
<1> QED BY <1>2, <1>9, <1>10

LEMMA ConfigMarks ==
    ASSUME NEW p, Listed(p), NEW inst, InstOK(inst), NEW i \in DOMAIN p.containers, NEW cluster,
           NodeOpen(inst, p)
    PROVE  EnvMarked(CommonConfig(inst, p, i, cluster))
<1>1. PICK x, y : /\ x = injectCommonEnvVar(inst, p, i)
                  /\ y = injectCommonSDKConfig(inst, x, i, i, cluster)
  OBVIOUS
<1>2. CommonConfig(inst, p, i, cluster) = y
  BY <1>1 DEF CommonConfig
<1>3. Shaped(p) /\ "env" \in DOMAIN p.containers[i] /\ Named(p.containers[i].env)
  BY DEF Listed
<1>4. PICK own : own = AddAllIfAbsent(p.containers[i].env, inst.env)
  OBVIOUS
<1>5. Named(own) /\ ToSet(own) \subseteq ToSet(p.containers[i].env) \cup ToSet(inst.env)
  BY <1>3, <1>4, AddAllNames DEF InstOK
<1>6. /\ DOMAIN y.containers = DOMAIN p.containers
      /\ x.containers[i].env = own
      /\ y.containers[i].name = p.containers[i].name
      /\ "node" \in Referred(inst, createResourceMap(inst, x, i, cluster), Existing(x.containers[i]))
           => EnvNodeName \in Names(y.containers[i].env)
  BY <1>1, <1>3, <1>4, ConfiguredEnv
<1>7. x.scheduled = p.scheduled /\ x.owner = p.owner
  BY <1>1 DEF injectCommonEnvVar, Listed, Shaped, PodFields
<1>8. "node" \notin Existing(x.containers[i])
  <2>1. ~NamesNode(own)
    BY <1>5 DEF NodeOpen, NamesNode
  <2>2. CASE HasEnv(own, ResourceAttrs)
    <3> DEFINE e == own[getIndexOfEnv(own, ResourceAttrs)]
    <3>1. ResourceAttrs \in Names(own)
      BY <2>2, HasEnvName
    <3>2. e \in ToSet(own) /\ e.name = ResourceAttrs
      BY <1>5, <3>1, FirstIsThere, SeqDomain DEF Named
    <3>3. getEnvValue(own, ResourceAttrs) = e.val
      BY <2>2 DEF getEnvValue
    <3> HIDE DEF e
    <3>4. "node" \notin ToSet(e.val)
      BY <2>1, <3>2 DEF NamesNode
    <3> QED BY <1>6, <3>3, <3>4 DEF Existing
  <2>3. CASE ~HasEnv(own, ResourceAttrs)
    BY <1>6, <2>3, Empty DEF Existing, getEnvValue
  <2> QED BY <2>2, <2>3
<1>9. "node" \notin createResourceMap(inst, x, i, cluster)
  <2>1. "node" \notin addParentResourceLabels(x.owner, inst.uid, cluster)
    BY <1>7 DEF addParentResourceLabels, NodeOpen, Owners
  <2> QED BY <1>7, <2>1 DEF createResourceMap, NodeOpen
<1>10. "node" \in Referred(inst, createResourceMap(inst, x, i, cluster), Existing(x.containers[i]))
  BY <1>8, <1>9 DEF Referred
<1>11. EnvMarked(y)
  BY <1>6, <1>10, HasEnvName DEF EnvMarked, NodeOpen
<1> QED BY <1>2, <1>11

LEMMA SDKMarks ==
    ASSUME NEW p, Listed(p), Names(p.containers) # {}, NEW asks, AsksOK(asks),
           "sdk" \in DOMAIN asks, Len(asks["sdk"].names) # 0, NodeOpen(asks["sdk"].inst, p),
           NEW allEnvs, NEW cluster
    PROVE  EnvMarked(InjectLanguage(asks, "sdk", p, allEnvs, cluster))
<1> DEFINE names == asks["sdk"].names
           inst == asks["sdk"].inst
<1>1. Len(names) \in Nat /\ InstOK(inst)
  BY DEF AsksOK
<1>2. PICK g : /\ Injecting(g, Len(names), names, asks, "sdk", p, allEnvs, cluster)
               /\ InstrumentEach(asks, "sdk", p, allEnvs, cluster) = g[Len(names)]
  BY <1>1, InstrumentEachUnfolds
<1>3. InjectLanguage(asks, "sdk", p, allEnvs, cluster) = g[Len(names)]
  BY <1>2 DEF InjectLanguage
<1>4. \A q, name : NextPod(q, name, asks, "sdk", allEnvs, cluster) =
                     CommonConfig(inst, q, getContainerIndex(name, q), cluster)
  BY DEF NextPod, Instrument
<1> HIDE DEF names, inst
<1>5. g[0] = p /\ \A m \in 0 .. Len(names) : m # 0 =>
                     g[m] = CommonConfig(inst, g[m - 1], getContainerIndex(names[m], g[m - 1]), cluster)
  BY <1>1, <1>2, <1>4 DEF Injecting
<1> DEFINE Good(m) == Listed(g[m]) /\ Names(g[m].containers) # {} /\ (m # 0 => EnvMarked(g[m]))
           T == {m \in Nat : m <= Len(names) => Good(m)}
<1>6. T = Nat
  <2>1. T \subseteq Nat /\ 0 \in T
    BY <1>5
  <2>2. ASSUME NEW m \in T PROVE m + 1 \in T
    <3>1. CASE m + 1 <= Len(names)
      <4>1. Good(m) /\ m + 1 \in 0 .. Len(names) /\ (m + 1) - 1 = m /\ m + 1 # 0
        BY <1>1, <3>1
      <4>2. PICK q, i : q = g[m] /\ i = getContainerIndex(names[m + 1], g[m])
        OBVIOUS
      <4>3. g[m + 1] = CommonConfig(inst, q, i, cluster)
        BY <1>5, <4>1, <4>2
      <4>4. Listed(q) /\ Names(q.containers) # {} /\ Shaped(q)
        BY <4>1, <4>2 DEF Listed
      <4>5. i \in DOMAIN q.containers
        BY <4>2, <4>4, IndexInDomain
      <4>6. Listed(g[m + 1]) /\ (EnvMarked(q) => EnvMarked(g[m + 1]))
        BY <1>1, <4>3, <4>4, <4>5, ConfigListed
      <4>7. Names(g[m + 1].containers) # {}
        <5>1. Kept(q, g[m + 1])
          BY <4>3, <4>4, CommonConfigKept
        <5> QED BY <4>4, <5>1 DEF Kept
      <4>8. m = 0 => EnvMarked(g[m + 1])
        <5> SUFFICES ASSUME m = 0 PROVE EnvMarked(g[m + 1])
          OBVIOUS
        <5>1. q = p /\ NodeOpen(inst, p)
          BY <1>5, <4>2 DEF inst
        <5> QED BY <1>1, <4>3, <4>4, <4>5, <5>1, ConfigMarks
      <4>9. EnvMarked(g[m + 1])
        BY <4>1, <4>2, <4>6, <4>8
      <4>10. Good(m + 1)
        BY <4>6, <4>7, <4>9
      <4> QED BY <4>10
    <3> QED BY <3>1
  <2> HIDE DEF T
  <2> QED BY <2>1, <2>2, FromZero
<1>7. Good(Len(names)) /\ Len(names) # 0
  BY <1>1, <1>6 DEF names
<1> QED BY <1>3, <1>7

----------------------------------------------------------------------------
\* All languages together: the pod is left as it is, or recognised afterwards.

AllIdle(asks, p, allEnvs, cluster) == \A lang \in Languages : Idle(asks, lang, p, allEnvs, cluster)

LEMMA InjectedIfMarked ==
    ASSUME NEW p, Marked(p) \/ EnvMarked(p)
    PROVE  isAutoInstrumentationInjected(p)
BY DEF isAutoInstrumentationInjected, Marked, Marks, EnvMarked

\* One language after others.
Either(p, q, before) == Kept(p, q) /\ (before => q = p) /\ (~before => Marked(q))

LEMMA OneMore ==
    ASSUME NEW p, Names(p.containers) # {}, NEW q, NEW before \in BOOLEAN, Either(p, q, before), NEW asks,
           AsksOK(asks), NEW lang \in Languages, lang # "sdk", NEW allEnvs, NEW cluster
    PROVE  Either(p, InjectLanguage(asks, lang, q, allEnvs, cluster),
                  before /\ Idle(asks, lang, p, allEnvs, cluster))
<1> DEFINE r == InjectLanguage(asks, lang, q, allEnvs, cluster)
<1>1. Shaped(q) /\ Names(q.containers) # {}
  BY DEF Either, Kept
<1>2. /\ Kept(q, r)
      /\ Idle(asks, lang, q, allEnvs, cluster) => r = q
      /\ ~Idle(asks, lang, q, allEnvs, cluster) => Marked(r)
  BY <1>1, LanguageEffect, Zenon
<1> HIDE DEF r
<1>3. Kept(p, r)
  BY <1>2, KeptTrans DEF Either
<1> DEFINE now == Idle(asks, lang, p, allEnvs, cluster)
<1>4. CASE before
  <2>1. q = p
    BY <1>4 DEF Either
  <2>2. (now => r = p) /\ (~now => Marked(r))
    BY <1>2, <2>1
  <2> HIDE DEF now
  <2>3. Either(p, r, before /\ now)
    BY <1>3, <1>4, <2>2, Zenon DEF Either
  <2> QED BY <2>3 DEF now, r
<1>5. CASE ~before
  <2>1. Marked(r)
    BY <1>2, <1>5, KeptMarked DEF Either
  <2> HIDE DEF now
  <2>2. Either(p, r, before /\ now)
    BY <1>3, <1>5, <2>1, Zenon DEF Either
  <2> QED BY <2>2 DEF now, r
<1> QED BY <1>4, <1>5

LEMMA AllEffect ==
    ASSUME NEW p, Shaped(p), Names(p.containers) # {}, NEW asks, AsksOK(asks), NEW allEnvs, NEW cluster
    PROVE  LET r == InjectAll(asks, p, allEnvs, cluster)
           IN  /\ Kept(p, r)
               /\ AllIdle(asks, p, allEnvs, cluster) => r = p
               /\ /\ ~AllIdle(asks, p, allEnvs, cluster)
                  /\ Listed(p)
                  /\ "sdk" \in DOMAIN asks => NodeOpen(asks["sdk"].inst, p)
                  => isAutoInstrumentationInjected(r)
<1> DEFINE I(lang) == Idle(asks, lang, p, allEnvs, cluster)
           java   == InjectLanguage(asks, "java", p, allEnvs, cluster)
           nodejs == InjectLanguage(asks, "nodejs", java, allEnvs, cluster)
           python == InjectLanguage(asks, "python", nodejs, allEnvs, cluster)
           dotnet == InjectLanguage(asks, "dotnet", python, allEnvs, cluster)
           go     == InjectLanguage(asks, "go", dotnet, allEnvs, cluster)
           apache == InjectLanguage(asks, "apache", go, allEnvs, cluster)
           nginx  == InjectLanguage(asks, "nginx", apache, allEnvs, cluster)
           sdk    == InjectLanguage(asks, "sdk", nginx, allEnvs, cluster)
           b1 == TRUE /\ I("java")
           b2 == b1 /\ I("nodejs")
           b3 == b2 /\ I("python")
           b4 == b3 /\ I("dotnet")
           b5 == b4 /\ I("go")
           b6 == b5 /\ I("apache")
           b7 == b6 /\ I("nginx")
<1>0. {"java", "nodejs", "python", "dotnet", "go", "apache", "nginx", "sdk"} = Languages
  BY DEF Languages
<1>a. Either(p, p, TRUE)
  BY KeptSelf DEF Either
<1>1. Either(p, java, b1)
  BY <1>0, <1>a, OneMore, Zenon
<1> HIDE DEF java, b1
<1>b1. b1 \in BOOLEAN
  BY DEF b1
<1>2. Either(p, nodejs, b2)
  BY <1>0, <1>1, <1>b1, OneMore, Zenon
<1> HIDE DEF nodejs, b2
<1>b2. b2 \in BOOLEAN
  BY DEF b2
<1>3. Either(p, python, b3)
  BY <1>0, <1>2, <1>b2, OneMore, Zenon
<1> HIDE DEF python, b3
<1>b3. b3 \in BOOLEAN
  BY DEF b3
<1>4. Either(p, dotnet, b4)
  BY <1>0, <1>3, <1>b3, OneMore, Zenon
<1> HIDE DEF dotnet, b4
<1>b4. b4 \in BOOLEAN
  BY DEF b4
<1>5. Either(p, go, b5)
  BY <1>0, <1>4, <1>b4, OneMore, Zenon
<1> HIDE DEF go, b5
<1>b5. b5 \in BOOLEAN
  BY DEF b5
<1>6. Either(p, apache, b6)
  BY <1>0, <1>5, <1>b5, OneMore, Zenon
<1> HIDE DEF apache, b6
<1>b6. b6 \in BOOLEAN
  BY DEF b6
<1>7. Either(p, nginx, b7)
  BY <1>0, <1>6, <1>b6, OneMore, Zenon
<1> HIDE DEF nginx
<1>8. Shaped(nginx) /\ Names(nginx.containers) # {}
  BY <1>7 DEF Either, Kept
<1>9. Kept(nginx, sdk) /\ (Idle(asks, "sdk", nginx, allEnvs, cluster) => sdk = nginx)
  <2>1. "sdk" \in Languages
    BY <1>0
  <2> QED BY <1>8, <2>1, LanguageEffect, Zenon
<1>10. AllIdle(asks, p, allEnvs, cluster) <=> b7 /\ I("sdk")
  <2>1. AllIdle(asks, p, allEnvs, cluster) <=>
          /\ I("java") /\ I("nodejs") /\ I("python") /\ I("dotnet") /\ I("go") /\ I("apache")
          /\ I("nginx") /\ I("sdk")
    <3> HIDE DEF I
    <3> QED BY <1>0 DEF AllIdle, I
  <2> HIDE DEF I
  <2> QED BY <2>1 DEF b1, b2, b3, b4, b5, b6, b7
<1>11. ASSUME b7, ~I("sdk"), Listed(p), "sdk" \in DOMAIN asks => NodeOpen(asks["sdk"].inst, p)
       PROVE  EnvMarked(sdk)
  <2>1. nginx = p
    BY <1>7, <1>11 DEF Either
  <2>2. "sdk" \in DOMAIN asks
    BY <1>11 DEF Idle
  <2>3. ~(\A m \in 1 .. Len(asks["sdk"].names) : Passed(asks, "sdk", p, asks["sdk"].names[m], allEnvs))
    BY <1>11 DEF Idle
  <2>4. Len(asks["sdk"].names) # 0
    BY <2>3
  <2>5. NodeOpen(asks["sdk"].inst, p)
    BY <1>11, <2>2
  <2> QED BY <1>11, <2>1, <2>2, <2>4, <2>5, SDKMarks
<1> HIDE DEF sdk, b7
<1>12. Kept(p, sdk)
  BY <1>7, <1>9, KeptTrans DEF Either
<1>13. b7 /\ I("sdk") => sdk = p
  BY <1>7, <1>9 DEF Either
<1>14. ~b7 => Marked(sdk)
  BY <1>7, <1>9, KeptMarked DEF Either
<1>15. InjectAll(asks, p, allEnvs, cluster) = sdk
  BY InjectAllUnfolds DEF java, nodejs, python, dotnet, go, apache, nginx, sdk
<1> HIDE DEF I
<1> QED BY <1>10, <1>11, <1>12, <1>13, <1>14, <1>15, InjectedIfMarked

----------------------------------------------------------------------------
\* Pods that the mutators do not tell apart.

Like(p, q) == SpecOf(q) = SpecOf(p) /\ q.ann = p.ann /\ q.sc = p.sc /\ q.owner = p.owner

LEMMA SpecParts ==
    ASSUME NEW p, NEW q, SpecOf(p) = SpecOf(q)
    PROVE  /\ p.containers = q.containers /\ p.init = q.init /\ p.volumes = q.volumes
           /\ p.shareProcesses = q.shareProcesses
BY DEF SpecOf

LEMMA LikeInjected ==
    ASSUME NEW p, NEW q, Like(p, q)
    PROVE  /\ isAutoInstrumentationInjected(q) <=> isAutoInstrumentationInjected(p)
           /\ otcContainerExistsIn(q) <=> otcContainerExistsIn(p)
<1>1. p.containers = q.containers /\ p.init = q.init
  BY SpecParts DEF Like
<1> QED BY <1>1 DEF isAutoInstrumentationInjected, otcContainerExistsIn

LEMMA LikeIdle ==
    ASSUME NEW p, NEW q, Like(p, q), NEW asks, NEW allEnvs, NEW cluster
    PROVE  AllIdle(asks, q, allEnvs, cluster) <=> AllIdle(asks, p, allEnvs, cluster)
<1>1. /\ p.containers = q.containers /\ p.shareProcesses = q.shareProcesses
      /\ q.ann = p.ann /\ q.sc = p.sc
  BY SpecParts DEF Like
<1>2. \A name : getContainerIndex(name, q) = getContainerIndex(name, p)
  BY <1>1 DEF getContainerIndex
<1>3. \A lang, spec, i, runtime, envs :
         Refuses(lang, spec, q, i, runtime, envs) <=> Refuses(lang, spec, p, i, runtime, envs)
  BY <1>1 DEF Refuses, shouldInjectADOTSDK, NonRootWithoutUser
<1>4. \A lang, name : Passed(asks, lang, q, name, allEnvs) <=> Passed(asks, lang, p, name, allEnvs)
  BY <1>2, <1>3 DEF Passed
<1>5. \A inst : GoIdle(inst, q, cluster) <=> GoIdle(inst, p, cluster)
  BY <1>1 DEF GoIdle, GoRefuses
<1>6. \A lang : Idle(asks, lang, q, allEnvs, cluster) <=> Idle(asks, lang, p, allEnvs, cluster)
  BY <1>4, <1>5 DEF Idle
<1> QED BY <1>6 DEF AllIdle

\* The names are there exactly if there are containers.
LEMMA SomeNames ==
    ASSUME NEW s, Named(s)
    PROVE  Names(s) = {} <=> s = <<>>
<1>1. Len(s) \in Nat /\ DOMAIN s = 1 .. Len(s) /\ s \in Seq(ToSet(s))
  BY SeqDomain DEF Named, IsSeq
<1>2. Names(s) = {} <=> DOMAIN s = {}
  BY DEF Names
<1>3. DOMAIN s = {} <=> Len(s) = 0
  <2>1. Len(s) # 0 => 1 \in DOMAIN s
    BY <1>1
  <2>2. Len(s) = 0 => \A k \in DOMAIN s : FALSE
    BY <1>1
  <2> QED BY <2>1, <2>2
<1>4. Len(s) = 0 <=> s = <<>>
  <2> DEFINE S == ToSet(s)
  <2> HIDE DEF S
  <2>1. s \in Seq(S)
    BY <1>1 DEF S
  <2> QED BY <2>1
<1> QED BY <1>2, <1>3, <1>4

LEMMA InjectKeeps ==
    ASSUME NEW p, Shaped(p), NEW asks, AsksOK(asks), NEW cluster
    PROVE  Kept(p, inject(asks, p, cluster))
<1> DEFINE allEnvs == [i \in DOMAIN p.containers |-> getAllEnvVars(p.containers[i], cluster)]
<1>1. inject(asks, p, cluster) = IF p.containers = <<>> \/ otcContainerExistsIn(p) THEN p
                                 ELSE InjectAll(asks, p, allEnvs, cluster)
  BY DEF inject
<1> HIDE DEF allEnvs
<1>2. p.containers # <<>> => Names(p.containers) # {}
  BY SomeNames DEF Shaped
<1>3. p.containers # <<>> => Kept(p, InjectAll(asks, p, allEnvs, cluster))
  BY <1>2, AllEffect
<1> QED BY <1>1, <1>3, KeptSelf

\* Injecting into what an injection left changes nothing.
LEMMA InjectTwice ==
    ASSUME NEW p, Shaped(p), NEW asks, AsksOK(asks), NEW cluster, NEW q, Shaped(q),
           Like(inject(asks, p, cluster), q), ~isAutoInstrumentationInjected(q),
           p.containers # <<>> /\ ~otcContainerExistsIn(p) =>
              Listed(p) /\ ("sdk" \in DOMAIN asks => NodeOpen(asks["sdk"].inst, p))
    PROVE  inject(asks, q, cluster) = q
<1> DEFINE Of(r) == [i \in DOMAIN r.containers |-> getAllEnvVars(r.containers[i], cluster)]
<1>1. \A r : inject(asks, r, cluster) = IF r.containers = <<>> \/ otcContainerExistsIn(r) THEN r
                                        ELSE InjectAll(asks, r, Of(r), cluster)
  BY DEF inject
<1>2. CASE p.containers = <<>> \/ otcContainerExistsIn(p)
  <2>1. Like(p, q)
    BY <1>1, <1>2
  <2>2. q.containers = p.containers /\ (otcContainerExistsIn(q) <=> otcContainerExistsIn(p))
    BY <2>1, LikeInjected, SpecParts DEF Like
  <2> QED BY <1>1, <1>2, <2>2
<1>3. CASE p.containers # <<>> /\ ~otcContainerExistsIn(p)
  <2> DEFINE r == InjectAll(asks, p, Of(p), cluster)
  <2>1. Names(p.containers) # {}
    BY <1>3, SomeNames DEF Shaped
  <2>2. Like(r, q)
    BY <1>1, <1>3
  <2> DEFINE envs == Of(p)
  <2> HIDE DEF envs
  <2>3. r = InjectAll(asks, p, envs, cluster)
    BY DEF envs
  <2> HIDE DEF Of, r
  <2>4. ~isAutoInstrumentationInjected(r)
    BY <2>2, LikeInjected
  <2>5. AllIdle(asks, p, envs, cluster)
    BY <1>3, <2>1, <2>3, <2>4, AllEffect
  <2>6. r = p
    BY <2>1, <2>3, <2>5, AllEffect
  <2>7. Like(p, q)
    BY <2>2, <2>6
  <2>8. AllIdle(asks, q, envs, cluster)
    BY <2>5, <2>7, LikeIdle
  <2>9. q.containers = p.containers
    BY <2>7, SpecParts DEF Like
  <2>10. InjectAll(asks, q, envs, cluster) = q
    BY <2>1, <2>8, <2>9, AllEffect
  <2>11. Of(q) = envs
    BY <2>9 DEF Of, envs
  <2> QED BY <1>1, <2>10, <2>11
<1> QED BY <1>2, <1>3

\* The same for the whole mutator, which does not fail the second time either.
LEMMA MutateTwice ==
    ASSUME NEW space, NEW p, Shaped(p), NEW cluster, AsksOK(Asked(space, p.ann, cluster)),
           ~Mutate(space, p, cluster).err, NEW q, Shaped(q), Like(Mutate(space, p, cluster).pod, q),
           p.containers # <<>> /\ ~otcContainerExistsIn(p) =>
              Listed(p) /\ ("sdk" \in DOMAIN Asked(space, p.ann, cluster) =>
                              NodeOpen(Asked(space, p.ann, cluster)["sdk"].inst, p))
    PROVE  Mutate(space, q, cluster).pod = q /\ ~Mutate(space, q, cluster).err
<1> DEFINE asks == Asked(space, p.ann, cluster)
<1>1. /\ \A r : isAutoInstrumentationInjected(r) =>
             Mutate(space, r, cluster) = [err |-> FALSE, pod |-> r]
      /\ \A r : ~isAutoInstrumentationInjected(r) /\ NoInstance(space, r.ann, cluster) =>
             Mutate(space, r, cluster) = [err |-> TRUE, pod |-> r]
      /\ \A r : ~isAutoInstrumentationInjected(r) /\ ~NoInstance(space, r.ann, cluster) =>
             Mutate(space, r, cluster) =
               [err |-> FALSE, pod |-> IF InjectionAllowed(space, r.ann, cluster)
                                         THEN inject(Asked(space, r.ann, cluster), r, cluster) ELSE r]
  BY DEF Mutate
<1>2. CASE isAutoInstrumentationInjected(q)
  BY <1>1, <1>2
<1>3. CASE ~isAutoInstrumentationInjected(q)
  <2>1. Kept(p, inject(asks, p, cluster))
    BY InjectKeeps
  <2> HIDE DEF asks
  <2>2. ~isAutoInstrumentationInjected(p) /\ ~NoInstance(space, p.ann, cluster)
    <3>1. ~isAutoInstrumentationInjected(p)
      BY <1>1, <1>3, LikeInjected
    <3> QED BY <1>1, <3>1
  <2>3. Mutate(space, p, cluster).pod =
          IF InjectionAllowed(space, p.ann, cluster) THEN inject(asks, p, cluster) ELSE p
    BY <1>1, <2>2 DEF asks
  <2>4. q.ann = p.ann
    BY <2>1, <2>3 DEF Like, Kept
  <2>5. Mutate(space, q, cluster) =
          [err |-> FALSE, pod |-> IF InjectionAllowed(space, p.ann, cluster)
                                    THEN inject(asks, q, cluster) ELSE q]
    BY <1>1, <1>3, <2>2, <2>4 DEF asks
  <2>6. InjectionAllowed(space, p.ann, cluster) => inject(asks, q, cluster) = q
    BY <1>3, <2>3, InjectTwice DEF asks
  <2> QED BY <2>5, <2>6
<1> QED BY <1>2, <1>3

----------------------------------------------------------------------------
\* The sidecar.

LEMMA WithoutElements ==
    ASSUME NEW s, IsSeq(s)
    PROVE  /\ IsSeq(WithoutCollector(s))
           /\ \A c \in ToSet(WithoutCollector(s)) : c \in ToSet(s) /\ c.name # CollectorContainer
<1> DEFINE S == {k \in DOMAIN s : s[k].name # CollectorContainer}
<1>1. WithoutCollector(s) = Those(s, S)
  BY DEF WithoutCollector
<1>2. \A k \in DOMAIN s \cap S : s[k] \in ToSet(s) /\ s[k].name # CollectorContainer
  BY SeqDomain
<1> HIDE DEF S
<1> QED BY <1>1, <1>2, ThoseElements

\* The pod keeps what the sidecar is not about.
SameFrame(p, q) ==
    Shaped(q) /\ q.ann = p.ann /\ q.sc = p.sc /\ q.owner = p.owner /\ q.scheduled = p.scheduled

CollectorsOK(cluster) == \A collector \in cluster.collectors : Named(collector.init)

LEMMA RemoveShaped ==
    ASSUME NEW p, Shaped(p), existsIn(p)
    PROVE  /\ SameFrame(p, remove(p)) /\ ~existsIn(remove(p))
           /\ ToSet(remove(p).containers) \subseteq ToSet(p.containers)
           /\ remove(p).init = p.init
<1> DEFINE s == WithoutCollector(p.containers)
<1>1. IsSeq(s) /\ \A c \in ToSet(s) : c \in ToSet(p.containers) /\ c.name # CollectorContainer
  BY WithoutElements DEF Shaped, Named
<1>2. remove(p) = [p EXCEPT !.containers = s]
  BY DEF remove
<1> HIDE DEF s
<1>3. Named(s) /\ CollectorContainer \notin Names(s)
  <2>1. \A c \in ToSet(p.containers) : "name" \in DOMAIN c
    BY NamesOfElements DEF Shaped, Named
  <2> QED BY <1>1, <2>1, NamesOfElements
<1> DEFINE q == [p EXCEPT !.containers = s]
<1>4. /\ PodFields \subseteq DOMAIN q /\ q.ann = p.ann /\ q.sc = p.sc /\ q.owner = p.owner
      /\ q.scheduled = p.scheduled /\ q.init = p.init /\ q.containers = s
  BY DEF Shaped, PodFields
<1> HIDE DEF q
<1>5. SameFrame(p, q) /\ ~existsIn(q)
  BY <1>3, <1>4 DEF SameFrame, Shaped, existsIn
<1> QED BY <1>1, <1>2, <1>4, <1>5 DEF q

LEMMA AddShaped ==
    ASSUME NEW p, Shaped(p), NEW collector, Named(collector.init), NEW cluster
    PROVE  LET q == add(collector, p, cluster)
           IN  /\ SameFrame(p, q) /\ existsIn(q)
               /\ Len(q.containers) = Len(p.containers) + 1
<1> DEFINE d == SidecarContainer(collector, getResourceAttributesEnv(p, cluster))
           cs == Append(p.containers, d)
           is == p.init \o collector.init
           q == [p EXCEPT !.init = is, !.containers = cs, !.volumes = @ \o collector.volumes,
                          !.labels = @ \cup {InjectedLabel}]
<1>1. add(collector, p, cluster) = q
  BY DEF add
<1>2. "name" \in DOMAIN d /\ d.name = CollectorContainer
  BY DEF SidecarContainer, Container
<1> HIDE DEF d
<1>3. Named(cs) /\ Names(cs) = Names(p.containers) \cup {CollectorContainer}
  BY <1>2, AppendedNamed DEF Shaped
<1>4. Len(cs) = Len(p.containers) + 1
  BY Appended DEF Shaped, Named
<1>5. Named(is)
  BY JoinedNamed DEF Shaped
<1> HIDE DEF cs, is
<1>6. /\ PodFields \subseteq DOMAIN q /\ q.ann = p.ann /\ q.sc = p.sc /\ q.owner = p.owner
      /\ q.scheduled = p.scheduled /\ q.init = is /\ q.containers = cs
  BY DEF Shaped, PodFields
<1> HIDE DEF q
<1>7. SameFrame(p, q) /\ existsIn(q)
  BY <1>3, <1>5, <1>6 DEF SameFrame, Shaped, existsIn
<1> QED BY <1>1, <1>4, <1>6, <1>7

\* What the first mutator can do: value is the annotation's, found the collectors it leads
\* to, one of them is taken, m is the outcome.
Outcome(value, found, one, p, m, cluster) ==
    \/ /\ value = None \/ (value # <<"false">> /\ existsIn(p))
       /\ m.pod = p /\ m.err = FALSE
    \/ /\ value = <<"false">> /\ m.pod = remove(p) /\ m.err = FALSE
    \/ /\ value \notin {None, <<"false">>} /\ ~existsIn(p) /\ found.insts = {}
       /\ m.pod = p /\ m.err = found.err
    \/ /\ value \notin {None, <<"false">>} /\ ~existsIn(p) /\ found.insts # {}
       /\ \/ ~one.configOK /\ m.pod = p /\ m.err = TRUE
          \/ one.configOK /\ m.pod = add(one, p, cluster) /\ m.err = FALSE

One(found) == CHOOSE c \in found.insts : TRUE

LEMMA SidecarCases ==
    ASSUME NEW space, NEW ann, NEW cluster
    PROVE  LET value == annotationValue(space, ann, SidecarKey)
               found == getCollectorInstance(space, value, cluster)
           IN  \A p : p.ann = ann =>
                 Outcome(value, found, One(found), p, MutateSidecar(space, p, cluster), cluster)
<1> DEFINE value == annotationValue(space, ann, SidecarKey)
           found == getCollectorInstance(space, value, cluster)
           one == CHOOSE c \in found.insts : TRUE
<1> SUFFICES ASSUME NEW p, p.ann = ann
             PROVE  Outcome(value, found, One(found), p, MutateSidecar(space, p, cluster), cluster)
  BY Zenon
<1> DEFINE m == MutateSidecar(space, p, cluster)
<1>0. None # <<"false">>
  BY DEF None
<1>1. m = CASE value = None \/ (value # <<"false">> /\ existsIn(p))
                 -> [pod |-> p, err |-> FALSE]
            [] value = <<"false">>
                 -> [pod |-> remove(p), err |-> FALSE]
            [] value \notin {None, <<"false">>} /\ ~existsIn(p) /\ found.insts = {}
                 -> [pod |-> p, err |-> found.err]
            [] OTHER -> IF one.configOK
                          THEN [pod |-> add(one, p, cluster), err |-> FALSE]
                          ELSE [pod |-> p, err |-> TRUE]
  BY DEF MutateSidecar
<1>2. One(found) = one
  BY DEF One
<1> HIDE DEF value, found, one, m
<1>3. Outcome(value, found, one, p, m, cluster)
  BY <1>0, <1>1 DEF Outcome
<1> QED BY <1>2, <1>3 DEF m

----------------------------------------------------------------------------
\* The instances that are used are those of the cluster or the default.

LEMMA DefaultInstance ==
    ASSUME NEW signals, NEW settings, NEW jmx
    PROVE  LET d == getDefaultInstrumentation(signals, settings, jmx)
           IN  d.env = <<>> /\ d.langEnv["go"] = <<>> /\ d.attrs = {}
<1> DEFINE none == NoEnv
           langEnv == [none EXCEPT !["java"] = getJavaEnvs(signals, settings, jmx),
                                   !["python"] = getPythonEnvs(signals, settings),
                                   !["dotnet"] = getDotNetEnvs(signals),
                                   !["nodejs"] = getNodeJSEnvs(signals, settings)]
           i == Instance("default", "java-instrumentation", <<>>, langEnv)
           d == [i EXCEPT !.propagators = TRUE]
<1>1. getDefaultInstrumentation(signals, settings, jmx) = d
  BY DEF getDefaultInstrumentation
<1>2. "go" \in DOMAIN none /\ none["go"] = <<>>
  BY DEF NoEnv, Languages
<1> HIDE DEF none
<1>3. langEnv["go"] = <<>>
  BY <1>2
<1> HIDE DEF langEnv
<1>4. /\ i.env = <<>> /\ i.langEnv = langEnv /\ i.attrs = {}
      /\ {"env", "langEnv", "attrs"} \subseteq DOMAIN i
  BY DEF Instance
<1> HIDE DEF i
<1>5. d.env = i.env /\ d.langEnv = i.langEnv /\ d.attrs = i.attrs
  BY <1>4
<1> QED BY <1>1, <1>3, <1>4, <1>5

IsDefault(inst) ==
    \E signals, settings, jmx : inst = getDefaultInstrumentation(signals, settings, jmx)

LEMMA InstancesFrom ==
    ASSUME NEW space, NEW ann, NEW lang, NEW cluster,
           NEW inst \in getInstrumentationInstance(space, ann, lang, cluster).insts
    PROVE  \/ inst \in cluster.instances
           \/ IsDefault(inst) /\ inst.env = <<>> /\ inst.langEnv["go"] = <<>> /\ inst.attrs = {}
<1> DEFINE value == annotationValue(space, ann, InjectKey(lang))
           named == {i \in cluster.instances :
                       value \in {<<i.name>>, <<i.ns, i.name>>}
                         /\ (Len(value) = 1 => i.ns = space.name)}
           here == {i \in cluster.instances : i.ns = space.name}
           jmx == IF lang = "java" THEN getJmxTargetSystems(space, ann) ELSE <<>>
           d == getDefaultInstrumentation(cluster.signals, cluster.settings, jmx)
           here1 == selectInstrumentationInstanceFromNamespace(space, ann, lang, cluster)
<1>1. getInstrumentationInstance(space, ann, lang, cluster) =
        CASE value \in {None, <<"false">>} -> Chosen({})
          [] value = <<"true">> -> here1
          [] OTHER -> IF named = {} THEN Failed ELSE Chosen(named)
  BY DEF getInstrumentationInstance
<1>2. here1 = CASE Cardinality(here) = 1 -> Chosen(here)
                [] here = {} /\ cluster.images -> Chosen({d})
                [] OTHER -> Failed
  BY DEF selectInstrumentationInstanceFromNamespace
<1>3. Chosen({}).insts = {} /\ Failed.insts = {} /\ Chosen(named).insts = named
        /\ Chosen(here).insts = here /\ Chosen({d}).insts = {d}
  BY DEF Chosen, Failed
<1>4. IsDefault(d) /\ d.env = <<>> /\ d.langEnv["go"] = <<>> /\ d.attrs = {}
  BY DefaultInstance DEF IsDefault
<1>5. named \subseteq cluster.instances /\ here \subseteq cluster.instances
  OBVIOUS
<1> HIDE DEF value, named, here, jmx, d, here1
<1>6. \A x \in here1.insts : x \in cluster.instances \/ x = d
  <2>1. here1 \in {Chosen(here), Chosen({d}), Failed}
    BY <1>2
  <2> QED BY <1>3, <1>5, <2>1
<1>7. getInstrumentationInstance(space, ann, lang, cluster).insts \in {{}, here1.insts, named}
  <2>1. <<"true">> \notin {None, <<"false">>}
    BY DEF None
  <2>2. getInstrumentationInstance(space, ann, lang, cluster) \in {Chosen({}), here1, Failed, Chosen(named)}
    BY <1>1, <2>1
  <2> QED BY <1>3, <2>2
<1> QED BY <1>4, <1>5, <1>6, <1>7

InstancesOK(cluster) == \A inst \in cluster.instances : InstOK(inst)

LEMMA AskedOK ==
    ASSUME NEW space, NEW ann, NEW cluster, AreAnnotations(space.ann), AreAnnotations(ann),
           InstancesOK(cluster)
    PROVE  AsksOK(Asked(space, ann, cluster))
<1> DEFINE asks == Asked(space, ann, cluster)
           insts(l) == getInstrumentationInstance(space, ann, l, cluster).insts
<1>1. DOMAIN asks = EnabledLanguages(space, ann, cluster)
  BY DEF Asked
<1>2. \A l \in DOMAIN asks : /\ asks[l].names = annotationValue(space, ann, NamesKey(l, cluster))
                             /\ asks[l].inst = CHOOSE i \in insts(l) : TRUE
  BY DEF Asked
<1>3. \A l \in DOMAIN asks : insts(l) # {}
  BY <1>1 DEF EnabledLanguages
<1> HIDE DEF asks
<1>4. ASSUME NEW l \in DOMAIN asks PROVE Len(asks[l].names) \in Nat /\ InstOK(asks[l].inst)
  <2>1. asks[l].inst \in insts(l)
    BY <1>2, <1>3
  <2>2. \/ asks[l].inst \in cluster.instances
        \/ asks[l].inst.env = <<>> /\ asks[l].inst.langEnv["go"] = <<>>
    BY <2>1, InstancesFrom
  <2>3. InstOK(asks[l].inst)
    BY <2>2, NoneNamed DEF InstancesOK, InstOK
  <2> QED BY <1>2, <2>3, ValuesAreSequences
<1> QED BY <1>4 DEF AsksOK, asks

\* Who is asked for is asked by an annotation.
LEMMA AskedByAnnotation ==
    ASSUME NEW space, NEW ann, NEW cluster, NEW l \in DOMAIN Asked(space, ann, cluster)
    PROVE  /\ annotationValue(space, ann, InjectKey(l)) \notin {None, <<"false">>}
           /\ LET inst == Asked(space, ann, cluster)[l].inst
              IN  inst \in cluster.instances \/ (inst.env = <<>> /\ inst.attrs = {})
<1> DEFINE insts == getInstrumentationInstance(space, ann, l, cluster).insts
<1>1. l \in EnabledLanguages(space, ann, cluster)
  BY DEF Asked
<1>2. Asked(space, ann, cluster)[l].inst = CHOOSE i \in insts : TRUE
  BY <1>1 DEF Asked
<1>3. insts # {}
  BY <1>1 DEF EnabledLanguages
<1>4. annotationValue(space, ann, InjectKey(l)) \notin {None, <<"false">>}
  <2> SUFFICES ASSUME annotationValue(space, ann, InjectKey(l)) \in {None, <<"false">>} PROVE FALSE
    OBVIOUS
  <2>1. <<"true">> \notin {None, <<"false">>}
    BY DEF None
  <2>2. getInstrumentationInstance(space, ann, l, cluster) = Chosen({})
    BY <2>1 DEF getInstrumentationInstance
  <2> QED BY <1>3, <2>2 DEF Chosen
<1>5. (CHOOSE i \in insts : TRUE) \in insts
  BY <1>3
<1> HIDE DEF insts
<1>6. Asked(space, ann, cluster)[l].inst \in insts
  BY <1>2, <1>5
<1> QED BY <1>4, <1>6, InstancesFrom DEF insts

----------------------------------------------------------------------------
\* The webhook twice.

LEMMA CollectorsFrom ==
    ASSUME NEW space, NEW value, NEW cluster
    PROVE  getCollectorInstance(space, value, cluster).insts \subseteq cluster.collectors
<1> DEFINE named == {c \in cluster.collectors :
                       value \in {<<c.name>>, <<c.ns, c.name>>}
                         /\ (Len(value) = 1 => c.ns = space.name)}
           sidecars == {c \in cluster.collectors : c.ns = space.name /\ c.mode = "sidecar"}
           modes == {c \in named : c.mode = "sidecar"}
           selected == selectCollectorInstance(space, cluster)
<1>1. getCollectorInstance(space, value, cluster) =
        CASE value = <<"true">> -> selected
          [] value # <<"true">> /\ named = {} -> Failed
          [] OTHER -> Chosen(modes)
  BY DEF getCollectorInstance
<1>2. selected = Chosen(IF Cardinality(sidecars) = 1 THEN sidecars ELSE {})
  BY DEF selectCollectorInstance
<1>3. Failed.insts = {} /\ \A s : Chosen(s).insts = s
  BY DEF Failed, Chosen
<1>4. sidecars \subseteq cluster.collectors /\ modes \subseteq cluster.collectors
  OBVIOUS
<1> HIDE DEF named, sidecars, modes, selected
<1>5. selected.insts \in {sidecars, {}}
  BY <1>2, <1>3
<1>6. getCollectorInstance(space, value, cluster) \in {selected, Failed, Chosen(modes)}
  BY <1>1
<1> QED BY <1>3, <1>4, <1>5, <1>6

LEMMA SidecarFrame ==
    ASSUME NEW space, NEW p, Shaped(p), NEW cluster, CollectorsOK(cluster)
    PROVE  LET f == MutateSidecar(space, p, cluster).pod
           IN  /\ SameFrame(p, f)
               /\ \/ f = p
                  \/ /\ ~existsIn(f) /\ ToSet(f.containers) \subseteq ToSet(p.containers)
                     /\ f.init = p.init
                  \/ existsIn(f) /\ Len(f.containers) = Len(p.containers) + 1
<1> DEFINE value == annotationValue(space, p.ann, SidecarKey)
           found == getCollectorInstance(space, value, cluster)
           one == One(found)
           f == MutateSidecar(space, p, cluster).pod
<1>1. f = p \/ f = remove(p) \/ (found.insts # {} /\ f = add(one, p, cluster))
  <2>1. Outcome(value, found, one, p, MutateSidecar(space, p, cluster), cluster)
    BY SidecarCases
  <2> HIDE DEF value, found, one
  <2> QED BY <2>1 DEF Outcome
<1>2. SameFrame(p, p)
  BY DEF SameFrame
<1>3. ~existsIn(p) => remove(p) = p
  BY DEF remove
<1>4. found.insts # {} => Named(one.init)
  <2>1. found.insts # {} => one \in found.insts
    BY DEF One
  <2> QED BY <2>1, CollectorsFrom DEF CollectorsOK
<1> HIDE DEF one
<1>5. found.insts # {} =>
        /\ SameFrame(p, add(one, p, cluster)) /\ existsIn(add(one, p, cluster))
        /\ Len(add(one, p, cluster).containers) = Len(p.containers) + 1
  BY <1>4, AddShaped
<1> HIDE DEF f, found
<1> QED BY <1>1, <1>2, <1>3, <1>5, RemoveShaped DEF f

LEMMA MutateKeeps ==
    ASSUME NEW space, NEW p, Shaped(p), NEW cluster, AsksOK(Asked(space, p.ann, cluster))
    PROVE  Kept(p, Mutate(space, p, cluster).pod)
<1>1. Mutate(space, p, cluster).pod \in {p, inject(Asked(space, p.ann, cluster), p, cluster)}
  BY DEF Mutate
<1> QED BY <1>1, InjectKeeps, KeptSelf

\* What the webhook makes of a pod, for any namespace and cluster.
HandleAt(space, p, cluster) ==
    LET first  == MutateSidecar(space, p, cluster)
        second == Mutate(space, first.pod, cluster)
    IN  IF first.err \/ second.err THEN p ELSE second.pod

LEMMA HandleNow == ASSUME NEW p PROVE Handle(p) = HandleAt(ns, p, cl)
BY DEF Handle, After, HandleAt

Readable(space, cluster) == AreAnnotations(space.ann) /\ InstancesOK(cluster) /\ CollectorsOK(cluster)

LEMMA HandleKeeps ==
    ASSUME NEW space, NEW p, Shaped(p), AreAnnotations(p.ann), NEW cluster, Readable(space, cluster)
    PROVE  LET r == HandleAt(space, p, cluster)
           IN  Shaped(r) /\ r.ann = p.ann /\ r.sc = p.sc /\ r.owner = p.owner
<1> DEFINE f == MutateSidecar(space, p, cluster).pod
           s == Mutate(space, f, cluster).pod
<1>1. SameFrame(p, f)
  BY SidecarFrame DEF Readable
<1> HIDE DEF f
<1>2. Kept(f, s)
  BY <1>1, AskedOK, MutateKeeps DEF SameFrame, Readable
<1> HIDE DEF s
<1>3. HandleAt(space, p, cluster) \in {p, s}
  BY DEF HandleAt, f, s
<1> QED BY <1>1, <1>2, <1>3 DEF SameFrame, Kept

LEMMA SidecarTwice ==
    ASSUME NEW space, NEW cluster, NEW p, Shaped(p), ~MutateSidecar(space, p, cluster).err,
           CollectorsOK(cluster), NEW q, q.ann = p.ann,
           Names(MutateSidecar(space, p, cluster).pod.containers) \subseteq Names(q.containers),
           Names(q.containers) \subseteq
             Names(MutateSidecar(space, p, cluster).pod.containers) \cup {sideCarName}
    PROVE  MutateSidecar(space, q, cluster).pod = q /\ ~MutateSidecar(space, q, cluster).err
<1> DEFINE value == annotationValue(space, p.ann, SidecarKey)
           found == getCollectorInstance(space, value, cluster)
           one == One(found)
           m == MutateSidecar(space, p, cluster)
           n == MutateSidecar(space, q, cluster)
<1>1. existsIn(q) <=> existsIn(m.pod)
  BY DEF existsIn, sideCarName, CollectorContainer
<1>2. found.insts # {} => Named(one.init)
  <2>1. found.insts # {} => one \in found.insts
    BY DEF One
  <2> QED BY <2>1, CollectorsFrom DEF CollectorsOK
<1>3. Outcome(value, found, one, p, m, cluster)
  BY SidecarCases
<1>4. Outcome(value, found, one, q, n, cluster)
  BY SidecarCases
<1>5. ~existsIn(remove(p)) /\ (~existsIn(q) => remove(q) = q)
  <2>1. ~existsIn(p) => remove(p) = p
    BY DEF remove
  <2>2. ~existsIn(q) => remove(q) = q
    BY DEF remove
  <2> QED BY <2>1, <2>2, RemoveShaped
<1> HIDE DEF one
<1>6. found.insts # {} => existsIn(add(one, p, cluster))
  BY <1>2, AddShaped
<1>7. ~m.err /\ None # <<"false">>
  BY DEF None
<1> HIDE DEF value, found, one, m, n
<1>8. n.pod = q /\ ~n.err
  BY <1>1, <1>3, <1>4, <1>5, <1>6, <1>7 DEF Outcome
<1> QED BY <1>8 DEF n

\* Of two pods that are alike the first mutator makes the same.
LEMMA SidecarLike ==
    ASSUME NEW space, NEW cluster, NEW p, Shaped(p), NEW q, Shaped(q), Like(p, q)
    PROVE  LET m == MutateSidecar(space, p, cluster)
               n == MutateSidecar(space, q, cluster)
           IN  /\ n.err <=> m.err
               /\ n.pod.ann = m.pod.ann /\ n.pod.containers = m.pod.containers /\ n.pod.init = m.pod.init
<1> DEFINE value == annotationValue(space, p.ann, SidecarKey)
           found == getCollectorInstance(space, value, cluster)
           one == One(found)
           m == MutateSidecar(space, p, cluster)
           n == MutateSidecar(space, q, cluster)
           Same(a, b) == b.ann = a.ann /\ b.containers = a.containers /\ b.init = a.init
<1>0. p.containers = q.containers /\ p.init = q.init /\ q.ann = p.ann /\ q.owner = p.owner
  BY SpecParts DEF Like
<1>1. existsIn(q) <=> existsIn(p)
  BY <1>0 DEF existsIn
<1>3. Outcome(value, found, one, p, m, cluster)
  BY SidecarCases
<1>4. Outcome(value, found, one, q, n, cluster)
  BY <1>0, SidecarCases
<1>5. Same(p, q) /\ Same(remove(p), remove(q))
  BY <1>0, <1>1 DEF remove, Shaped, PodFields
<1> HIDE DEF one
<1>6. Same(add(one, p, cluster), add(one, q, cluster))
  <2>1. getResourceAttributesEnv(q, cluster) = getResourceAttributesEnv(p, cluster)
    BY <1>0 DEF getResourceAttributesEnv
  <2> DEFINE d == SidecarContainer(one, getResourceAttributesEnv(p, cluster))
             Adding(r) == [r EXCEPT !.init = @ \o one.init, !.containers = Append(@, d),
                                    !.volumes = @ \o one.volumes, !.labels = @ \cup {InjectedLabel}]
  <2>2. add(one, p, cluster) = Adding(p) /\ add(one, q, cluster) = Adding(q)
    BY <2>1 DEF add
  <2> HIDE DEF d
  <2>3. Same(Adding(p), Adding(q))
    BY <1>0 DEF Shaped, PodFields
  <2> QED BY <2>2, <2>3
<1>7. None # <<"false">>
  BY DEF None
<1> HIDE DEF value, found, m, n, Same
<1>8. (n.err <=> m.err) /\ Same(m.pod, n.pod)
  BY <1>1, <1>3, <1>4, <1>5, <1>6, <1>7 DEF Outcome
<1> QED BY <1>8 DEF m, n, Same

\* The SDK alone would leave no mark in this pod.
Unmarked(space, p, cluster) ==
    /\ annotationValue(space, p.ann, InjectKey("sdk")) \notin {None, <<"false">>}
    /\ \/ p.scheduled
       \/ \E c \in ToSet(p.containers) : NamesNode(c.env)
       \/ \E inst \in cluster.instances : "node" \in inst.attrs \/ NamesNode(inst.env)
       \/ /\ CollectorContainer \in Names(p.containers)
          /\ Len(p.containers) + Len(p.init) = 1

\* With or without its sidecar, a pod that the SDK would mark is one.
LEMMA SidecarStaysOpen ==
    ASSUME NEW space, NEW p, Listed(p), p.containers # <<>>, p.owner \in Owners, NEW cluster,
           CollectorsOK(cluster), ~Unmarked(space, p, cluster),
           NEW f, f = MutateSidecar(space, p, cluster).pod, ~otcContainerExistsIn(f)
    PROVE  /\ Listed(f)
           /\ "sdk" \in DOMAIN Asked(space, p.ann, cluster) =>
                 NodeOpen(Asked(space, p.ann, cluster)["sdk"].inst, f)
<1>1. /\ Shaped(p) /\ SameFrame(p, f)
      /\ \/ f = p
         \/ /\ ~existsIn(f) /\ ToSet(f.containers) \subseteq ToSet(p.containers)
            /\ f.init = p.init
         \/ existsIn(f) /\ Len(f.containers) = Len(p.containers) + 1
  <2>1. Shaped(p)
    BY DEF Listed
  <2> QED BY <2>1, SidecarFrame
<1>2. /\ Len(p.containers) \in Nat /\ Len(p.containers) # 0
      /\ Len(f.containers) \in Nat /\ Len(f.init) \in Nat
  <2>1. Named(p.containers) /\ Named(f.containers) /\ Named(f.init)
    BY <1>1 DEF SameFrame, Shaped
  <2>2. Len(p.containers) \in Nat /\ Len(f.containers) \in Nat /\ Len(f.init) \in Nat
    BY <2>1, SeqDomain DEF Named
  <2>3. Len(p.containers) # 0
    <3> DEFINE s == p.containers
               S == ToSet(s)
    <3>1. s \in Seq(S) /\ s # <<>>
      BY <2>1 DEF Named, IsSeq
    <3> HIDE DEF s, S
    <3>2. Len(s) # 0
      BY <3>1
    <3> QED BY <3>2 DEF s
  <2> QED BY <2>2, <2>3
<1>3. existsIn(f) => Len(f.containers) + Len(f.init) = 1
  <2>1. ASSUME existsIn(f) PROVE \E c \in ToSet(f.containers) : isOtcContainer(c)
    <3>1. CollectorContainer \in {c.name : c \in ToSet(f.containers)}
      BY <1>1, <2>1, NamesOfElements DEF existsIn, SameFrame, Shaped, Named
    <3> QED BY <3>1 DEF isOtcContainer
  <2> QED BY <2>1 DEF otcContainerExistsIn
<1>4. f = p \/ (~existsIn(f) /\ ToSet(f.containers) \subseteq ToSet(p.containers) /\ f.init = p.init)
  <2>1. \A a, b, c \in Nat : a # 0 /\ b = a + 1 => b + c # 1
    OBVIOUS
  <2>2. Len(f.containers) = Len(p.containers) + 1 => Len(f.containers) + Len(f.init) # 1
    BY <1>2, <2>1
  <2> QED BY <1>1, <1>3, <2>2, Zenon
<1>5. ToSet(f.containers) \subseteq ToSet(p.containers)
  BY <1>4
<1>6. \A k \in DOMAIN f.containers : f.containers[k] \in ToSet(p.containers)
  BY <1>1, <1>5, SeqDomain DEF SameFrame, Shaped, Named
<1>7. \A c \in ToSet(p.containers) : "env" \in DOMAIN c /\ Named(c.env)
  <2>1. \A c \in ToSet(p.containers) : \E k \in DOMAIN p.containers : p.containers[k] = c
    BY <1>1, SeqDomain DEF Shaped, Named
  <2> QED BY <2>1 DEF Listed
<1>8. Listed(f)
  BY <1>1, <1>6, <1>7 DEF Listed, SameFrame
<1>9. ASSUME "sdk" \in DOMAIN Asked(space, p.ann, cluster)
      PROVE  NodeOpen(Asked(space, p.ann, cluster)["sdk"].inst, f)
  <2> DEFINE inst == Asked(space, p.ann, cluster)["sdk"].inst
  <2>1. /\ annotationValue(space, p.ann, InjectKey("sdk")) \notin {None, <<"false">>}
        /\ inst \in cluster.instances \/ (inst.env = <<>> /\ inst.attrs = {})
    BY <1>9, AskedByAnnotation
  <2> HIDE DEF inst
  <2>2. /\ ~p.scheduled
        /\ \A c \in ToSet(p.containers) : ~NamesNode(c.env)
        /\ \A i \in cluster.instances : "node" \notin i.attrs /\ ~NamesNode(i.env)
        /\ ~(CollectorContainer \in Names(p.containers) /\ Len(p.containers) + Len(p.init) = 1)
    BY <2>1 DEF Unmarked
  <2>3. ~NamesNode(<<>>)
    BY Empty DEF NamesNode
  <2>4. "node" \notin inst.attrs /\ ~NamesNode(inst.env)
    BY <2>1, <2>2, <2>3
  <2>5. ~existsIn(f)
    BY <1>3, <1>4, <2>2 DEF existsIn
  <2>6. \A k \in DOMAIN f.containers : f.containers[k].name # CollectorContainer
    BY <2>5 DEF existsIn, Names
  <2> QED BY <1>1, <1>6, <2>2, <2>4, <2>6 DEF NodeOpen, SameFrame, inst
<1> QED BY <1>8, <1>9

\* The webhook gives a pod back as it is when it looks like what the webhook made before, in
\* the same namespace and cluster.
LEMMA HandleTwice ==
    ASSUME NEW space, NEW cluster, Readable(space, cluster), NEW p, Listed(p),
           p.containers # <<>>, p.owner \in Owners, AreAnnotations(p.ann),
           ~Unmarked(space, p, cluster), NEW q, Shaped(q), Like(HandleAt(space, p, cluster), q)
    PROVE  HandleAt(space, q, cluster) = q
<1> DEFINE m == MutateSidecar(space, p, cluster)
           f == m.pod
           s == Mutate(space, f, cluster)
           n == MutateSidecar(space, q, cluster)
<1>1. HandleAt(space, p, cluster) = IF m.err \/ s.err THEN p ELSE s.pod
  BY DEF HandleAt
<1>2. HandleAt(space, q, cluster) = IF n.err \/ Mutate(space, n.pod, cluster).err THEN q
                                    ELSE Mutate(space, n.pod, cluster).pod
  BY DEF HandleAt
<1>3. Shaped(p) /\ SameFrame(p, f)
  BY SidecarFrame DEF Readable, Listed
<1> HIDE DEF m, s, n
<1>4. CASE m.err
  <2>1. Like(p, q)
    BY <1>1, <1>4
  <2>2. n.err
    BY <1>3, <1>4, <2>1, SidecarLike DEF m, n
  <2> QED BY <1>2, <2>2
<1>5. CASE s.err
  <2>1. Like(p, q)
    BY <1>1, <1>5
  <2>2. n.pod.ann = f.ann /\ n.pod.containers = f.containers /\ n.pod.init = f.init
    BY <1>3, <2>1, SidecarLike DEF m, n
  <2>3. Mutate(space, f, cluster).err
    BY <1>5 DEF s
  <2> HIDE DEF f
  <2>4. ~isAutoInstrumentationInjected(f) /\ NoInstance(space, f.ann, cluster)
    BY <2>3 DEF Mutate
  <2>5. ~isAutoInstrumentationInjected(n.pod) /\ NoInstance(space, n.pod.ann, cluster)
    BY <2>2, <2>4 DEF isAutoInstrumentationInjected
  <2>6. Mutate(space, n.pod, cluster).err
    BY <2>5 DEF Mutate
  <2> QED BY <1>2, <2>6
<1>6. CASE ~m.err /\ ~s.err
  <2>1. Like(s.pod, q)
    BY <1>1, <1>6
  <2>2. f.ann = p.ann /\ Shaped(f)
    BY <1>3 DEF SameFrame
  <2>3. AsksOK(Asked(space, f.ann, cluster))
    BY <2>2, AskedOK DEF Readable
  <2>4. Kept(f, s.pod)
    BY <2>2, <2>3, MutateKeeps DEF s
  <2>5. q.ann = p.ann /\ q.containers = s.pod.containers
    BY <2>1, <2>2, <2>4, SpecParts DEF Like, Kept
  <2>6. n.pod = q /\ ~n.err
    <3>1. /\ Names(f.containers) \subseteq Names(q.containers)
          /\ Names(q.containers) \subseteq Names(f.containers) \cup {sideCarName}
      BY <2>4, <2>5 DEF Kept
    <3>2. f = MutateSidecar(space, p, cluster).pod /\ ~MutateSidecar(space, p, cluster).err
      BY <1>6 DEF m
    <3> HIDE DEF f
    <3> QED BY <1>3, <2>5, <3>1, <3>2, SidecarTwice DEF n, Readable
  <2>7. ~otcContainerExistsIn(f) =>
          /\ Listed(f)
          /\ "sdk" \in DOMAIN Asked(space, f.ann, cluster) =>
                NodeOpen(Asked(space, f.ann, cluster)["sdk"].inst, f)
    <3>1. f = MutateSidecar(space, p, cluster).pod
      BY DEF m
    <3> HIDE DEF f
    <3> QED BY <2>2, <3>1, SidecarStaysOpen DEF Readable
  <2>8. s = Mutate(space, f, cluster)
    BY DEF s
  <2> HIDE DEF f
  <2>9. Mutate(space, q, cluster).pod = q /\ ~Mutate(space, q, cluster).err
    BY <1>6, <2>1, <2>2, <2>3, <2>7, <2>8, MutateTwice
  <2> QED BY <1>2, <2>6, <2>9
<1> QED BY <1>4, <1>5, <1>6

----------------------------------------------------------------------------
\* The invariant.  What was seen at the creation are the annotations submitted, a namespace
\* and a cluster; the pod has what every pod has and keeps what no mutator changes.
SeenOK ==
    /\ submitted \in Submissions /\ ns \in Namespaces /\ cl \in Clusters
    /\ seen = <<submitted.ann, seen[2], seen[3]>> /\ seen[2] \in Namespaces /\ seen[3] \in Clusters

PodOK == Shaped(pod) /\ AreAnnotations(pod.ann) /\ pod.sc = submitted.sc /\ pod.owner = submitted.owner

\* Until it is stored the pod is what was submitted, and the webhook reads what is seen;
\* from then on its spec is the one the webhook made of it.
PhaseOK ==
    /\ phase = "submitted" => pod = submitted /\ ns = seen[2] /\ cl = seen[3] /\ ~refused
    /\ phase = "stored" /\ ~missed => SpecOf(pod) = SpecOf(HandleAt(seen[2], submitted, seen[3]))

PodInv == SeenOK /\ PodOK /\ PhaseOK

LEMMA ContainersListed ==
    ASSUME NEW s, AreContainers(s)
    PROVE  Named(s) /\ \A k \in DOMAIN s : "env" \in DOMAIN s[k] /\ Named(s[k].env)
<1>1. IsSeq(s) /\ \A k \in DOMAIN s : s[k] \in ToSet(s)
  BY SeqDomain DEF AreContainers
<1>2. ASSUME NEW envs, AreEnvs(envs) PROVE Named(envs)
  BY <1>2, NamesOfElements DEF AreEnvs
<1> QED BY <1>1, <1>2 DEF AreContainers, Named

LEMMA SubmissionListed ==
    ASSUME NEW p \in Submissions
    PROVE  Listed(p) /\ Shaped(p) /\ p.containers # <<>> /\ p.owner \in Owners /\ AreAnnotations(p.ann)
<1>1. /\ PodFields \subseteq DOMAIN p /\ p.owner \in Owners /\ AreAnnotations(p.ann)
      /\ AreContainers(p.containers) /\ p.containers # <<>> /\ AreContainers(p.init)
  BY SubmissionsAssumption
<1>2. Named(p.init) /\ Named(p.containers)
  BY <1>1, ContainersListed
<1>3. \A k \in DOMAIN p.containers : "env" \in DOMAIN p.containers[k] /\ Named(p.containers[k].env)
  BY <1>1, ContainersListed
<1>4. Shaped(p)
  BY <1>1, <1>2 DEF Shaped
<1> QED BY <1>1, <1>3, <1>4 DEF Listed

LEMMA AllReadable ==
    ASSUME NEW space \in Namespaces, NEW cluster \in Clusters
    PROVE  Readable(space, cluster)
<1>1. AreAnnotations(space.ann)
  BY NamespacesAssumption
<1>2. ASSUME NEW envs, AreEnvs(envs) PROVE Named(envs)
  BY <1>2, NamesOfElements DEF AreEnvs
<1>3. InstancesOK(cluster)
  BY <1>2, ClustersAssumption DEF InstancesOK, InstOK, Languages
<1>4. CollectorsOK(cluster)
  BY ContainersListed, ClustersAssumption DEF CollectorsOK
<1> QED BY <1>1, <1>3, <1>4 DEF Readable

LEMMA StoreShaped ==
    ASSUME NEW p, Shaped(p), Store(p)
    PROVE  /\ Shaped(pod') /\ phase' \in {"stored", "rejected"} /\ SpecOf(pod') = SpecOf(p)
           /\ pod'.ann = p.ann /\ pod'.sc = p.sc /\ pod'.owner = p.owner
<1> DEFINE q == [p EXCEPT !.named = TRUE, !.uid = TRUE]
<1>1. /\ PodFields \subseteq DOMAIN q /\ q.containers = p.containers /\ q.init = p.init
      /\ q.volumes = p.volumes /\ q.shareProcesses = p.shareProcesses
      /\ q.ann = p.ann /\ q.sc = p.sc /\ q.owner = p.owner
  BY DEF Shaped, PodFields
<1>2. pod' \in {p, q} /\ phase' \in {"stored", "rejected"}
  BY DEF Store
<1> HIDE DEF q
<1>3. Shaped(q) /\ SpecOf(q) = SpecOf(p)
  BY <1>1 DEF Shaped, SpecOf
<1> QED BY <1>1, <1>2, <1>3

LEMMA WithAnnotations ==
    ASSUME NEW p, Shaped(p), NEW ann, NEW q, q = [p EXCEPT !.ann = ann]
    PROVE  Shaped(q) /\ SpecOf(q) = SpecOf(p) /\ q.ann = ann /\ q.sc = p.sc /\ q.owner = p.owner
<1>1. /\ PodFields \subseteq DOMAIN q /\ q.containers = p.containers /\ q.init = p.init
      /\ q.volumes = p.volumes /\ q.shareProcesses = p.shareProcesses
      /\ q.ann = ann /\ q.sc = p.sc /\ q.owner = p.owner
  BY DEF Shaped, PodFields
<1> QED BY <1>1 DEF Shaped, SpecOf

LEMMA PodInit == Init => PodInv
<1> SUFFICES ASSUME Init PROVE PodInv
  OBVIOUS
<1>1. /\ submitted \in Submissions /\ pod = submitted /\ phase = "submitted" /\ ns \in Namespaces
      /\ cl \in Clusters /\ seen = <<submitted.ann, ns, cl>> /\ refused = FALSE
  BY DEF Init
<1>2. SeenOK
  BY <1>1 DEF SeenOK
<1>3. PodOK
  BY <1>1, SubmissionListed DEF PodOK
<1>4. PhaseOK
  BY <1>1 DEF PhaseOK
<1> QED BY <1>2, <1>3, <1>4 DEF PodInv

LEMMA PodNext == PodInv /\ [Next]_vars => PodInv'
<1> SUFFICES ASSUME PodInv, [Next]_vars PROVE PodInv'
  OBVIOUS
<1>0. SeenOK /\ PodOK /\ PhaseOK
  BY DEF PodInv
<1>1. Readable(ns, cl)
  BY <1>0, AllReadable DEF SeenOK
<1>2. ASSUME UNCHANGED <<submitted, seen>>, ns' \in Namespaces, cl' \in Clusters PROVE SeenOK'
  BY <1>0, <1>2 DEF SeenOK
<1>3. ASSUME UNCHANGED <<submitted, seen, missed>>, phase = "stored", phase' = "stored",
             SpecOf(pod') = SpecOf(pod)
      PROVE  PhaseOK'
  BY <1>0, <1>3 DEF PhaseOK
<1>4. CASE Create
  <2>1. /\ UNCHANGED <<submitted, ns, cl, seen>> /\ Store(Handle(pod))
        /\ pod = submitted /\ ns = seen[2] /\ cl = seen[3]
    BY <1>0, <1>4 DEF Create, PhaseOK
  <2> DEFINE r == HandleAt(ns, pod, cl)
  <2>2. Shaped(r) /\ r.ann = pod.ann /\ r.sc = pod.sc /\ r.owner = pod.owner
    BY <1>0, <1>1, HandleKeeps DEF PodOK
  <2> HIDE DEF r
  <2>3. Store(r)
    BY <2>1, HandleNow DEF r
  <2>4. /\ Shaped(pod') /\ phase' \in {"stored", "rejected"} /\ SpecOf(pod') = SpecOf(r)
        /\ pod'.ann = r.ann /\ pod'.sc = r.sc /\ pod'.owner = r.owner
    BY <2>2, <2>3, StoreShaped
  <2>5. PodOK'
    BY <1>0, <2>1, <2>2, <2>4 DEF PodOK
  <2>6. PhaseOK'
    BY <2>1, <2>4 DEF PhaseOK, r
  <2> QED BY <1>0, <1>2, <2>1, <2>5, <2>6 DEF PodInv, SeenOK
<1>5. CASE CreateWithout
  <2>1. UNCHANGED <<submitted, ns, cl, seen>> /\ Store(pod) /\ missed'
    BY <1>5 DEF CreateWithout
  <2>2. /\ Shaped(pod') /\ phase' \in {"stored", "rejected"} /\ SpecOf(pod') = SpecOf(pod)
        /\ pod'.ann = pod.ann /\ pod'.sc = pod.sc /\ pod'.owner = pod.owner
    BY <1>0, <2>1, StoreShaped DEF PodOK
  <2>3. PodOK' /\ PhaseOK'
    BY <1>0, <2>1, <2>2 DEF PodOK, PhaseOK
  <2> QED BY <1>0, <1>2, <2>1, <2>3 DEF PodInv, SeenOK
<1>6. CASE Schedule
  <2>1. /\ UNCHANGED <<submitted, ns, cl, seen, missed>> /\ phase = "stored" /\ phase' = "stored"
        /\ pod' = [pod EXCEPT !.scheduled = TRUE]
    BY <1>6 DEF Schedule
  <2>2. /\ PodFields \subseteq DOMAIN pod' /\ pod'.containers = pod.containers /\ pod'.init = pod.init
        /\ pod'.volumes = pod.volumes /\ pod'.shareProcesses = pod.shareProcesses
        /\ pod'.ann = pod.ann /\ pod'.sc = pod.sc /\ pod'.owner = pod.owner
    BY <1>0, <2>1 DEF PodOK, Shaped, PodFields
  <2>3. PodOK' /\ SpecOf(pod') = SpecOf(pod)
    BY <1>0, <2>1, <2>2 DEF PodOK, Shaped, SpecOf
  <2> QED BY <1>0, <1>2, <1>3, <2>1, <2>3 DEF PodInv, SeenOK
<1>7. ASSUME NEW new \in Annotations \cup {pod.ann}, Update(new) PROVE PodInv'
  <2> DEFINE p == [pod EXCEPT !.ann = new]
             r == HandleAt(ns, p, cl)
  <2>1. Shaped(p) /\ p.ann = new /\ p.sc = pod.sc /\ p.owner = pod.owner
    BY <1>0, WithAnnotations DEF PodOK
  <2>2. AreAnnotations(new)
    BY <1>0, AnnotationsAssumption DEF PodOK
  <2>3. /\ UNCHANGED <<submitted, ns, cl, seen, missed>> /\ phase = "stored" /\ phase' = "stored"
        /\ pod' = pod \/ (pod' = Handle(p) /\ SpecOf(Handle(p)) = SpecOf(pod))
    BY <1>7 DEF Update, Replace
  <2> HIDE DEF p
  <2>4. Shaped(r) /\ r.ann = new /\ r.sc = pod.sc /\ r.owner = pod.owner
    BY <1>1, <2>1, <2>2, HandleKeeps
  <2>5. pod' = pod \/ (pod' = r /\ SpecOf(r) = SpecOf(pod))
    BY <2>3, HandleNow
  <2> HIDE DEF r
  <2>6. PodOK' /\ SpecOf(pod') = SpecOf(pod)
    BY <1>0, <2>2, <2>3, <2>4, <2>5 DEF PodOK
  <2> QED BY <1>0, <1>2, <1>3, <2>3, <2>6 DEF PodInv, SeenOK
<1>8. CASE ChangeInputs
  <2>1. /\ UNCHANGED <<submitted, pod, seen, missed>> /\ phase = "stored" /\ phase' = "stored"
        /\ ns' \in Namespaces /\ cl' \in Clusters
    BY <1>0, <1>8 DEF ChangeInputs, SeenOK
  <2>2. PodOK'
    BY <1>0, <2>1 DEF PodOK
  <2> QED BY <1>2, <1>3, <2>1, <2>2 DEF PodInv
<1>9. CASE UNCHANGED vars
  BY <1>0, <1>9 DEF vars, PodInv, SeenOK, PodOK, PhaseOK
<1> QED BY <1>4, <1>5, <1>6, <1>7, <1>8, <1>9 DEF Next

----------------------------------------------------------------------------
LEMMA ThirdPartyInit == Init => ThirdPartyUntouched
BY DEF Init, ThirdPartyUntouched

LEMMA ThirdPartyNext ==
    PodInv /\ ThirdPartyUntouched /\ [Next]_vars => ThirdPartyUntouched'
<1> SUFFICES ASSUME PodInv, ThirdPartyUntouched, [Next]_vars PROVE ThirdPartyUntouched'
  OBVIOUS
<1>0. AreAnnotations(ns.ann) /\ Shaped(pod) /\ AreAnnotations(pod.ann) /\ Readable(ns, cl)
  BY NamespacesAssumption, AllReadable DEF PodInv, SeenOK, PodOK
<1>1. CASE Create
  <2> SUFFICES ASSUME NEW c \in ToSet(submitted.containers), c.name # CollectorContainer,
                      OnlyTemplates(seen[2], submitted.ann), UsesAnother(c)
               PROVE  c \in ToSet(pod'.containers)
    BY <1>1 DEF Create, ThirdPartyUntouched, OnlyTemplates, UsesAnother
  <2>1. pod = submitted /\ ns = seen[2] /\ cl = seen[3]
    BY <1>1 DEF Create, PodInv, PhaseOK
  <2>2. {"ann", "containers"} \subseteq DOMAIN pod /\ IsSeq(pod.containers)
    BY <1>0 DEF Shaped, PodFields, Named
  <2>3. Elsewhere(getAllEnvVars(c, cl))
    BY <2>1 DEF UsesAnother, Elsewhere
  <2>4. c \in ToSet(Handle(pod).containers)
    BY <1>0, <2>1, <2>2, <2>3, HandleLeavesAlone
  <2>5. Shaped(Handle(pod))
    BY <1>0, HandleKeeps, HandleNow
  <2>6. pod'.containers = Handle(pod).containers
    BY <1>1, <2>5, StoreShaped, SpecParts DEF Create
  <2> QED BY <2>4, <2>6
<1>2. CASE CreateWithout
  BY <1>2 DEF CreateWithout, ThirdPartyUntouched
<1>3. ASSUME phase = "stored", phase' = phase, missed' = missed, seen' = seen,
             submitted' = submitted, pod'.containers = pod.containers
      PROVE  ThirdPartyUntouched'
  BY <1>3 DEF ThirdPartyUntouched, UsesAnother
<1>4. CASE Schedule
  BY <1>0, <1>3, <1>4 DEF Schedule, Shaped, PodFields
<1>5. ASSUME NEW new \in Annotations \cup {pod.ann}, Update(new) PROVE ThirdPartyUntouched'
  <2> DEFINE result == Handle([pod EXCEPT !.ann = new])
  <2> HIDE DEF result
  <2>1. pod' = pod \/ (pod' = result /\ SpecOf(result) = SpecOf(pod))
    BY <1>5 DEF Update, Replace, result
  <2>2. pod'.containers = pod.containers
    BY <2>1 DEF SpecOf
  <2> QED BY <1>3, <1>5, <2>2 DEF Update
<1>6. CASE ChangeInputs
  BY <1>3, <1>6 DEF ChangeInputs
<1>7. CASE UNCHANGED vars
  BY <1>7 DEF vars, ThirdPartyUntouched, UsesAnother
<1> QED BY <1>1, <1>2, <1>4, <1>5, <1>6, <1>7 DEF Next

\* A container whose telemetry goes to somebody else, by its own variables or by a config
\* map, is in the stored pod exactly as it was submitted, whatever the other containers,
\* the names given for the languages, the instances and the sidecar are
\* (helper.go:252-320, sdk.go:81-200).
THEOREM ThirdPartyAlwaysUntouched == Spec => []ThirdPartyUntouched
<1>1. Init => PodInv /\ ThirdPartyUntouched
  BY PodInit, ThirdPartyInit
<1>2. PodInv /\ ThirdPartyUntouched /\ [Next]_vars => PodInv' /\ ThirdPartyUntouched'
  BY PodNext, ThirdPartyNext
<1> QED BY <1>1, <1>2, PTL DEF Spec

----------------------------------------------------------------------------
LEMMA UpdateAccepted ==
    ASSUME PodInv, phase = "stored", ~missed,
           NEW new, <<new, ns, cl>> = seen, ~Unmarked(ns, submitted, cl)
    PROVE  SpecOf(Handle([pod EXCEPT !.ann = new])) = SpecOf(pod)
<1> DEFINE p == [pod EXCEPT !.ann = new]
           r == HandleAt(ns, submitted, cl)
<1>1. SeenOK /\ PodOK /\ PhaseOK
  BY DEF PodInv
<1>2. new = submitted.ann /\ ns = seen[2] /\ cl = seen[3]
  BY <1>1 DEF SeenOK
<1>3. Shaped(p) /\ SpecOf(p) = SpecOf(pod) /\ p.ann = new /\ p.sc = pod.sc /\ p.owner = pod.owner
  BY <1>1, WithAnnotations DEF PodOK
<1> HIDE DEF p
<1>4. Readable(ns, cl)
  BY <1>1, AllReadable DEF SeenOK
<1>5. /\ Listed(submitted) /\ Shaped(submitted) /\ submitted.containers # <<>>
      /\ submitted.owner \in Owners /\ AreAnnotations(submitted.ann)
  BY <1>1, SubmissionListed DEF SeenOK
<1>6. Shaped(r) /\ r.ann = submitted.ann /\ r.sc = submitted.sc /\ r.owner = submitted.owner
  BY <1>4, <1>5, HandleKeeps
<1>7. SpecOf(pod) = SpecOf(r)
  BY <1>1, <1>2 DEF PhaseOK
<1>8. Like(r, p)
  BY <1>1, <1>2, <1>3, <1>6, <1>7 DEF Like, PodOK
<1>9. HandleAt(ns, p, cl) = p
  BY <1>3, <1>4, <1>5, <1>8, HandleTwice
<1>10. Handle(p) = p
  BY <1>9, HandleNow
<1> QED BY <1>3, <1>10 DEF p

LEMMA RefusedInit == Init => RefusedOnlyIfChanged
BY DEF Init, RefusedOnlyIfChanged

LEMMA RefusedNext ==
    PodInv /\ RefusedOnlyIfChanged /\ [Next]_vars => RefusedOnlyIfChanged'
<1> SUFFICES ASSUME PodInv, RefusedOnlyIfChanged, [Next]_vars PROVE RefusedOnlyIfChanged'
  OBVIOUS
<1>1. ASSUME UNCHANGED <<submitted, ns, cl, seen, asked, refused, missed>>
      PROVE  RefusedOnlyIfChanged'
  BY <1>1 DEF RefusedOnlyIfChanged, Requests, NodeKnown, CollectorAlone
<1>2. CASE Create
  <2>1. ~refused'
    BY <1>2 DEF Create, PodInv, PhaseOK
  <2> QED BY <2>1 DEF RefusedOnlyIfChanged
<1>3. CASE CreateWithout
  BY <1>3 DEF CreateWithout, RefusedOnlyIfChanged
<1>4. CASE Schedule
  BY <1>1, <1>4 DEF Schedule
<1>5. ASSUME NEW new \in Annotations \cup {pod.ann}, Update(new) PROVE RefusedOnlyIfChanged'
  <2> SUFFICES ASSUME refused', ~missed', <<asked', ns', cl'>> = seen',
                      ~(Requests(submitted, "sdk") /\ (NodeKnown \/ CollectorAlone))'
               PROVE  FALSE
    BY DEF RefusedOnlyIfChanged
  <2>1. /\ UNCHANGED <<submitted, ns, cl, seen, missed>> /\ phase = "stored" /\ asked' = new
        /\ refused' = (SpecOf(Handle([pod EXCEPT !.ann = new])) # SpecOf(pod))
    BY <1>5 DEF Update, Replace
  <2>2. ~Unmarked(ns, submitted, cl)
    BY <2>1 DEF Unmarked, Requests, NodeKnown, CollectorAlone
  <2> QED BY <2>1, <2>2, UpdateAccepted
<1>6. CASE ChangeInputs
  BY <1>6 DEF ChangeInputs, RefusedOnlyIfChanged
<1>7. CASE UNCHANGED vars
  BY <1>1, <1>7 DEF vars
<1> QED BY <1>2, <1>3, <1>4, <1>5, <1>6, <1>7 DEF Next

\* An update of a pod that the webhook saw is refused only if annotations, namespace or
\* cluster differ from those at the creation, or the pod got the SDK alone and its node was
\* known or it is a collector: of a pod that looks like its own work the webhook makes what
\* it got, whatever languages, names, instances and collectors are there (helper.go:50,
\* webhookhandler.go:59-96).
THEOREM AlwaysRefusedOnlyIfChanged == Spec => []RefusedOnlyIfChanged
<1>1. Init => PodInv /\ RefusedOnlyIfChanged
  BY PodInit, RefusedInit
<1>2. PodInv /\ RefusedOnlyIfChanged /\ [Next]_vars => PodInv' /\ RefusedOnlyIfChanged'
  BY PodNext, RefusedNext
<1> QED BY <1>1, <1>2, PTL DEF Spec

----------------------------------------------------------------------------
\* Environment variables that are well formed.

\* An environment variable has a name and a value, or takes it from elsewhere.
EnvOK(e) == {"name", "ref"} \subseteq DOMAIN e /\ e.ref \in BOOLEAN

\* The attributes are there at most once.
Once(s) == \A j, k \in DOMAIN s : s[j].name = ResourceAttrs /\ s[k].name = ResourceAttrs => j = k

\* Variables; w says whether the attributes are to be there at most once.
EnvsOK(s, w) == IsSeq(s) /\ (\A k \in DOMAIN s : EnvOK(s[k])) /\ (w => Once(s))

LEMMA EnvsNames == ASSUME NEW s, NEW w, EnvsOK(s, w) PROVE Named(s)
BY DEF EnvsOK, EnvOK, Named

LEMMA OnceWithout == ASSUME NEW s, ResourceAttrs \notin Names(s) PROVE Once(s)
BY DEF Once, Names

LEMMA EnvsAny == ASSUME NEW s, NEW v, EnvsOK(s, v), NEW w, w => ResourceAttrs \notin Names(s)
                 PROVE EnvsOK(s, w)
BY OnceWithout DEF EnvsOK

LEMMA AppendedOK ==
    ASSUME NEW s, NEW w, EnvsOK(s, w), NEW e, EnvOK(e),
           w /\ e.name = ResourceAttrs => ResourceAttrs \notin Names(s)
    PROVE  EnvsOK(Append(s, e), w)
<1> DEFINE t == Append(s, e)
<1>1. IsSeq(s) /\ Len(s) \in Nat /\ DOMAIN s = 1 .. Len(s)
  BY SeqDomain DEF EnvsOK
<1>2. IsSeq(t) /\ Len(t) = Len(s) + 1 /\ t[Len(s) + 1] = e /\ \A k \in DOMAIN s : t[k] = s[k]
  BY <1>1, Appended
<1> HIDE DEF t
<1>3. DOMAIN t = 1 .. Len(s) + 1
  BY <1>2, SeqDomain
<1>4. \A k \in DOMAIN t : k \in DOMAIN s \/ k = Len(s) + 1
  BY <1>1, <1>3
<1>5. \A k \in DOMAIN t : EnvOK(t[k])
  BY <1>2, <1>4 DEF EnvsOK
<1>6. w => Once(t)
  <2> SUFFICES ASSUME w, NEW j \in DOMAIN t, NEW k \in DOMAIN t, t[j].name = ResourceAttrs,
                      t[k].name = ResourceAttrs
               PROVE  j = k
    BY DEF Once
  <2>1. Once(s)
    BY DEF EnvsOK
  <2>2. \A m \in DOMAIN s : s[m].name = ResourceAttrs => ResourceAttrs \in Names(s)
    BY DEF Names
  <2>3. CASE j \in DOMAIN s /\ k \in DOMAIN s
    BY <1>2, <2>1, <2>3 DEF Once
  <2>4. CASE e.name = ResourceAttrs
    BY <1>2, <1>4, <2>2, <2>4
  <2> QED BY <1>2, <1>4, <2>3, <2>4
<1> QED BY <1>2, <1>5, <1>6 DEF EnvsOK, t

LEMMA JoinedPlaces ==
    ASSUME NEW s, IsSeq(s), NEW t, IsSeq(t)
    PROVE  LET r == s \o t
           IN  /\ IsSeq(r) /\ Len(r) = Len(s) + Len(t)
               /\ \A k \in DOMAIN r : \/ k \in DOMAIN s /\ r[k] = s[k]
                                      \/ k - Len(s) \in DOMAIN t /\ r[k] = t[k - Len(s)]
<1> DEFINE r == s \o t
<1>1. Len(s) \in Nat /\ DOMAIN s = 1 .. Len(s) /\ s \in Seq(ToSet(s))
  BY SeqDomain DEF IsSeq
<1>2. Len(t) \in Nat /\ DOMAIN t = 1 .. Len(t) /\ t \in Seq(ToSet(t))
  BY SeqDomain DEF IsSeq
<1>3. IsSeq(r) /\ Len(r) = Len(s) + Len(t)
  BY Joined
<1>4. /\ \A k \in 1 .. Len(s) : r[k] = s[k]
      /\ \A k \in 1 .. Len(t) : r[Len(s) + k] = t[k]
  <2> DEFINE S == ToSet(s) \cup ToSet(t)
  <2>1. s \in Seq(S) /\ t \in Seq(S)
    BY <1>1, <1>2
  <2> HIDE DEF S
  <2> QED BY <1>1, <1>2, <2>1
<1> HIDE DEF r
<1>5. DOMAIN r = 1 .. Len(s) + Len(t)
  BY <1>3, SeqDomain
<1>6. ASSUME NEW k \in DOMAIN r
      PROVE  \/ k \in DOMAIN s /\ r[k] = s[k]
             \/ k - Len(s) \in DOMAIN t /\ r[k] = t[k - Len(s)]
  <2>1. CASE k <= Len(s)
    BY <1>1, <1>2, <1>4, <1>5, <2>1
  <2>2. CASE k > Len(s)
    <3>1. k - Len(s) \in 1 .. Len(t) /\ Len(s) + (k - Len(s)) = k
      BY <1>1, <1>2, <1>5, <2>2
    <3>2. r[Len(s) + (k - Len(s))] = t[k - Len(s)]
      BY <1>4, <3>1
    <3> QED BY <1>1, <1>2, <2>2, <3>1, <3>2
  <2> QED BY <1>1, <1>2, <1>5, <2>1, <2>2
<1> QED BY <1>3, <1>6 DEF r

LEMMA JoinedOK ==
    ASSUME NEW s, NEW w, EnvsOK(s, w), NEW t, NEW v, EnvsOK(t, v), w => ResourceAttrs \notin Names(t)
    PROVE  EnvsOK(s \o t, w)
<1> DEFINE r == s \o t
<1>1. IsSeq(s) /\ IsSeq(t)
  BY DEF EnvsOK
<1>2. /\ IsSeq(r)
      /\ \A k \in DOMAIN r : \/ k \in DOMAIN s /\ r[k] = s[k]
                             \/ k - Len(s) \in DOMAIN t /\ r[k] = t[k - Len(s)]
  BY <1>1, JoinedPlaces, Zenon
<1> HIDE DEF r
<1>3. \A k \in DOMAIN r : EnvOK(r[k])
  BY <1>2 DEF EnvsOK
<1>4. w => Once(r)
  <2> SUFFICES ASSUME w, NEW j \in DOMAIN r, NEW k \in DOMAIN r, r[j].name = ResourceAttrs,
                      r[k].name = ResourceAttrs
               PROVE  j = k
    BY DEF Once
  <2>1. Once(s)
    BY DEF EnvsOK
  <2>2. \A m \in DOMAIN t : t[m].name # ResourceAttrs
    BY DEF Names
  <2>3. j \in DOMAIN s /\ r[j] = s[j] /\ k \in DOMAIN s /\ r[k] = s[k]
    BY <1>2, <2>2
  <2> QED BY <2>1, <2>3 DEF Once
<1> QED BY <1>2, <1>3, <1>4 DEF EnvsOK, r

LEMMA AddIfAbsentOK ==
    ASSUME NEW s, NEW w, EnvsOK(s, w), NEW e, EnvOK(e)
    PROVE  EnvsOK(AddIfAbsent(s, e), w)
<1>1. CASE HasEnv(s, e.name)
  BY <1>1 DEF AddIfAbsent
<1>2. CASE ~HasEnv(s, e.name)
  <2>1. AddIfAbsent(s, e) = Append(s, e)
    BY <1>2 DEF AddIfAbsent
  <2>2. e.name \notin Names(s)
    BY <1>2, HasEnvName
  <2> QED BY <2>1, <2>2, AppendedOK
<1> QED BY <1>1, <1>2

LEMMA AddAllOK ==
    ASSUME NEW s, NEW w, EnvsOK(s, w), NEW more, NEW v, EnvsOK(more, v)
    PROVE  EnvsOK(AddAllIfAbsent(s, more), w)
<1>1. Len(more) \in Nat /\ DOMAIN more = 1 .. Len(more) /\ \A k \in DOMAIN more : EnvOK(more[k])
  BY SeqDomain DEF EnvsOK
<1>2. PICK g : AddingEnvs(g, Len(more), s, more) /\ AddAllIfAbsent(s, more) = g[Len(more)]
  BY <1>1, AddAllUnfolds
<1>3. g[0] = s /\ \A m \in 0 .. Len(more) : m # 0 => g[m] = AddIfAbsent(g[m - 1], more[m])
  BY <1>1, <1>2 DEF AddingEnvs
<1> DEFINE T == {m \in Nat : m <= Len(more) => EnvsOK(g[m], w)}
<1>4. T = Nat
  <2>1. T \subseteq Nat /\ 0 \in T
    BY <1>1, <1>3
  <2>2. ASSUME NEW m \in T PROVE m + 1 \in T
    <3>1. CASE m + 1 <= Len(more)
      <4>1. EnvsOK(g[m], w) /\ m + 1 \in 0 .. Len(more) /\ (m + 1) - 1 = m /\ m + 1 # 0 /\ m + 1 \in DOMAIN more
        BY <1>1, <3>1
      <4>2. g[m + 1] = AddIfAbsent(g[m], more[m + 1])
        BY <1>3, <4>1
      <4>3. EnvsOK(g[m + 1], w)
        BY <1>1, <4>1, <4>2, AddIfAbsentOK
      <4> QED BY <4>3
    <3> QED BY <3>1
  <2> HIDE DEF T
  <2> QED BY <2>1, <2>2, FromZero
<1> QED BY <1>1, <1>2, <1>4

LEMMA EnvIsOK == ASSUME NEW n, NEW v PROVE EnvOK(Env(n, v)) /\ Env(n, v).name = n
BY DEF EnvOK, Env

LEMMA EnvRefIsOK == ASSUME NEW n PROVE EnvOK(EnvRef(n)) /\ EnvRef(n).name = n
BY DEF EnvOK, EnvRef

\* The same variables at the same places, with other values.
LEMMA SameOK ==
    ASSUME NEW s, NEW w, EnvsOK(s, w), NEW t, SameNames(s, t),
           \A k \in DOMAIN s : EnvOK(t[k])
    PROVE  EnvsOK(t, w)
<1>1. DOMAIN t = DOMAIN s /\ \A k \in DOMAIN s : t[k].name = s[k].name
  BY DEF SameNames
<1>2. IsSeq(t)
  BY EnvsNames, SameNamesNamed DEF Named
<1>3. w => Once(t)
  BY <1>1 DEF EnvsOK, Once
<1> QED BY <1>1, <1>2, <1>3 DEF EnvsOK

LEMMA SurroundOK ==
    ASSUME NEW s, NEW w, EnvsOK(s, w), NEW n, NEW before, NEW after
    PROVE  EnvsOK(Surround(s, n, before, after), w)
<1>1. CASE HasEnv(s, n)
  <2> DEFINE i == getIndexOfEnv(s, n)
             t == [s EXCEPT ![i].val = before \o @ \o after]
  <2>1. Surround(s, n, before, after) = t
    BY <1>1 DEF Surround
  <2> HIDE DEF i
  <2>2. SameNames(s, t)
    BY EnvsNames DEF Named, SameNames
  <2>3. \A k \in DOMAIN s : EnvOK(t[k])
    BY DEF EnvsOK, EnvOK
  <2> HIDE DEF t
  <2> QED BY <2>1, <2>2, <2>3, SameOK
<1>2. CASE ~HasEnv(s, n)
  <2> DEFINE e == Env(n, before \o after)
  <2>1. Surround(s, n, before, after) = Append(s, e)
    BY <1>2 DEF Surround
  <2>2. EnvOK(e) /\ e.name = n
    BY EnvIsOK
  <2> HIDE DEF e
  <2>3. n \notin Names(s)
    BY <1>2, HasEnvName
  <2> QED BY <2>1, <2>2, <2>3, AppendedOK
<1> QED BY <1>1, <1>2

\* The attributes are moved to the end: nothing they refer to is behind them.
LEMMA MovedPlaces ==
    ASSUME NEW s, IsSeq(s), NEW i \in DOMAIN s
    PROVE  LET t == Append(RemoveAt(s, i), s[i])
           IN  /\ IsSeq(t) /\ Len(t) = Len(s) /\ DOMAIN t = DOMAIN s /\ t[Len(s)] = s[i]
               /\ \A k \in DOMAIN t : k # Len(s) => \E j \in DOMAIN s : j # i /\ t[k] = s[j]
<1> DEFINE S == ToSet(s)
           n == Len(s)
           a == SubSeq(s, 1, i - 1)
           b == SubSeq(s, i + 1, Len(s))
           c == a \o b
           t == Append(c, s[i])
<1>1. Len(s) \in Nat /\ DOMAIN s = 1 .. Len(s) /\ i \in 1 .. Len(s) /\ \A k \in 1 .. Len(s) : s[k] \in S
  BY SeqDomain
<1>2. s \in Seq(S)
  BY DEF IsSeq
<1> HIDE DEF S
<1>3. /\ a \in Seq(S) /\ Len(a) = i - 1 /\ DOMAIN a = 1 .. i - 1
      /\ \A k \in 1 .. i - 1 : a[k] = s[k]
  BY <1>1, <1>2
<1>4. /\ b \in Seq(S) /\ Len(b) = Len(s) - i /\ DOMAIN b = 1 .. Len(s) - i
      /\ \A k \in 1 .. Len(s) - i : b[k] = s[i + k]
  BY <1>1, <1>2
<1>5. RemoveAt(s, i) = c
  BY DEF RemoveAt
<1>6. n \in Nat /\ i \in 1 .. n /\ n = Len(s)
  BY <1>1
<1> HIDE DEF a, b, n
<1>7. /\ c \in Seq(S) /\ Len(c) = n - 1
      /\ \A k \in 1 .. i - 1 : c[k] = a[k]
      /\ \A k \in i .. n - 1 : c[k] = b[k - (i - 1)]
  <2>1. Len(a) = i - 1 /\ Len(b) = n - i /\ Len(a) \in Nat /\ Len(b) \in Nat
    BY <1>3, <1>4, <1>6
  <2>2. c \in Seq(S) /\ Len(c) = Len(a) + Len(b)
    <3>1. a \in Seq(S) /\ b \in Seq(S)
      BY <1>3, <1>4
    <3> QED BY <3>1
  <2>3. \A k \in 1 .. Len(a) + Len(b) : c[k] = IF k <= Len(a) THEN a[k] ELSE b[k - Len(a)]
    BY <1>3, <1>4, <2>1
  <2>4. \A k \in 1 .. i - 1 : k \in 1 .. Len(a) + Len(b) /\ k <= Len(a)
    BY <1>6, <2>1
  <2>5. \A k \in i .. n - 1 : k \in 1 .. Len(a) + Len(b) /\ ~(k <= Len(a))
    BY <1>6, <2>1
  <2>6. Len(c) = n - 1
    BY <1>6, <2>1, <2>2
  <2> QED BY <2>1, <2>2, <2>3, <2>4, <2>5, <2>6
<1>8. ASSUME NEW k \in 1 .. n - 1 PROVE \E j \in 1 .. n : j # i /\ c[k] = s[j]
  <2>1. CASE k < i
    <3>1. k \in 1 .. i - 1 /\ k \in 1 .. n /\ k # i
      BY <1>6, <2>1
    <3> QED BY <1>3, <1>7, <3>1
  <2>2. CASE k >= i
    <3>1. /\ k \in i .. n - 1 /\ k - (i - 1) \in 1 .. n - i /\ i + (k - (i - 1)) = k + 1
          /\ k + 1 \in 1 .. n /\ k + 1 # i
      BY <1>6, <2>2
    <3>2. b[k - (i - 1)] = s[k + 1]
      BY <1>4, <1>6, <3>1
    <3> QED BY <1>7, <3>1, <3>2
  <2>3. k < i \/ k >= i
    BY <1>6
  <2> QED BY <2>1, <2>2, <2>3
<1> HIDE DEF c
<1>9. s[i] \in S
  BY <1>1
<1>10. /\ t \in Seq(S) /\ Len(t) = Len(c) + 1 /\ t[Len(c) + 1] = s[i]
       /\ \A k \in 1 .. Len(c) : t[k] = c[k]
  BY <1>7, <1>9
<1> HIDE DEF t
<1>11. Len(c) = n - 1 /\ Len(c) + 1 = n
  BY <1>6, <1>7
<1>12. IsSeq(t) /\ Len(t) = n /\ DOMAIN t = 1 .. n /\ t[n] = s[i]
  BY <1>10, <1>11, ElementsOf
<1>13. \A k \in 1 .. n : k # n => k \in 1 .. n - 1
  BY <1>6
<1>14. \A k \in DOMAIN t : k # n => \E j \in 1 .. n : j # i /\ t[k] = s[j]
  BY <1>8, <1>10, <1>11, <1>12, <1>13
<1> QED BY <1>1, <1>5, <1>6, <1>12, <1>14 DEF t

LEMMA MovedOK ==
    ASSUME NEW s, NEW w, EnvsOK(s, w), ResourceAttrs \in Names(s)
    PROVE  LET t == moveEnvToListEnd(s, ResourceAttrs)
           IN  EnvsOK(t, w) /\ (w => AttributesLast(t))
<1> DEFINE i == getIndexOfEnv(s, ResourceAttrs)
           t == Append(RemoveAt(s, i), s[i])
<1>1. moveEnvToListEnd(s, ResourceAttrs) = t
  BY DEF moveEnvToListEnd
<1>2. i \in DOMAIN s /\ s[i].name = ResourceAttrs /\ IsSeq(s)
  BY EnvsNames, FirstIsThere DEF Named
<1> HIDE DEF i
<1>3. /\ IsSeq(t) /\ Len(t) = Len(s) /\ DOMAIN t = DOMAIN s /\ t[Len(s)] = s[i]
      /\ \A k \in DOMAIN t : k # Len(s) => \E j \in DOMAIN s : j # i /\ t[k] = s[j]
  BY <1>2, MovedPlaces, Zenon
<1> HIDE DEF t
<1>4. \A k \in DOMAIN t : EnvOK(t[k])
  <2> SUFFICES ASSUME NEW k \in DOMAIN t PROVE EnvOK(t[k])
    OBVIOUS
  <2>1. \E j \in DOMAIN s : t[k] = s[j]
    BY <1>2, <1>3
  <2> QED BY <2>1 DEF EnvsOK
<1>5. w => \A k \in DOMAIN t : t[k].name = ResourceAttrs => k = Len(s)
  <2> SUFFICES ASSUME w, NEW k \in DOMAIN t, t[k].name = ResourceAttrs, k # Len(s) PROVE FALSE
    OBVIOUS
  <2>1. PICK j \in DOMAIN s : j # i /\ t[k] = s[j]
    BY <1>3
  <2>2. Once(s)
    BY DEF EnvsOK
  <2> QED BY <1>2, <2>1, <2>2 DEF Once
<1>6. w => Once(t)
  BY <1>5 DEF Once
<1>7. w => AttributesLast(t)
  <2>1. \A k \in DOMAIN t : k <= Len(s)
    BY <1>2, <1>3, SeqDomain
  <2> QED BY <1>5, <2>1 DEF AttributesLast
<1> QED BY <1>1, <1>3, <1>4, <1>6, <1>7 DEF EnvsOK

\* Some of the variables of an instance.
LEMMA ThoseOK ==
    ASSUME NEW s, NEW v, EnvsOK(s, v), NEW positions
    PROVE  EnvsOK(Those(s, positions), FALSE) /\ Names(Those(s, positions)) \subseteq Names(s)
<1> DEFINE t == Those(s, positions)
<1>1. IsSeq(s) /\ \A x \in ToSet(s) : EnvOK(x)
  BY SeqDomain DEF EnvsOK
<1>2. IsSeq(t) /\ ToSet(t) = {s[k] : k \in DOMAIN s \cap positions}
  BY <1>1, ThoseElements
<1> HIDE DEF t
<1>3. ToSet(t) \subseteq ToSet(s)
  BY <1>1, <1>2, SeqDomain
<1>4. \A k \in DOMAIN t : t[k] \in ToSet(t)
  BY <1>2, SeqDomain
<1>5. EnvsOK(t, FALSE)
  BY <1>1, <1>2, <1>3, <1>4 DEF EnvsOK
<1>6. Names(t) \subseteq Names(s)
  BY <1>1, <1>2, <1>3, NamesOfElements
<1> QED BY <1>5, <1>6 DEF t

\* The same value for each of some names.
LEMMA EnvsListed ==
    ASSUME NEW names, IsSeq(names), NEW v
    PROVE  EnvsOK(Envs(names, v), FALSE) /\ Names(Envs(names, v)) = ToSet(names)
<1> DEFINE t == Envs(names, v)
<1>1. Len(names) \in Nat /\ DOMAIN names = 1 .. Len(names)
  BY SeqDomain
<1>2. t = [k \in 1 .. Len(names) |-> Env(names[k], <<v>>)]
  BY <1>1 DEF Envs
<1> DEFINE T == {Env(names[k], <<v>>) : k \in 1 .. Len(names)}
<1>3. \A k \in 1 .. Len(names) : Env(names[k], <<v>>) \in T
  OBVIOUS
<1> HIDE DEF T
<1>4. t \in Seq(T)
  BY <1>1, <1>2, <1>3
<1>5. DOMAIN t = 1 .. Len(names) /\ \A k \in 1 .. Len(names) : t[k] = Env(names[k], <<v>>)
  BY <1>2
<1> HIDE DEF t
<1>6. IsSeq(t)
  BY <1>4, ElementsOf
<1>7. \A k \in 1 .. Len(names) : EnvOK(t[k]) /\ t[k].name = names[k]
  BY <1>5, EnvIsOK
<1>8. Names(t) = ToSet(names)
  BY <1>1, <1>5, <1>7 DEF Names, ToSet
<1> QED BY <1>5, <1>6, <1>7, <1>8 DEF EnvsOK, t

LEMMA NoneOK == ASSUME NEW w PROVE EnvsOK(<<>>, w)
<1>1. IsSeq(<<>>) /\ DOMAIN <<>> = {}
  BY Empty
<1> QED BY <1>1 DEF EnvsOK, Once

LEMMA OneOK == ASSUME NEW e, EnvOK(e), NEW w PROVE EnvsOK(<<e>>, w) /\ Names(<<e>>) = {e.name}
<1>1. <<e>> = Append(<<>>, e)
  OBVIOUS
<1>2. EnvsOK(Append(<<>>, e), w)
  BY NoneOK, NoneNamed, AppendedOK
<1>3. Names(<<e>>) = {e.name}
  BY OneNamed DEF EnvOK
<1> QED BY <1>1, <1>2, <1>3

LEMMA ReferencesOK ==
    ASSUME NEW keys
    PROVE  EnvsOK(ReferenceEnvs(keys), FALSE) /\ ResourceAttrs \notin Names(ReferenceEnvs(keys))
<1> DEFINE a == IF "pod" \in keys THEN <<EnvRef(PodNameEnv)>> ELSE <<>>
           b == IF "poduid" \in keys THEN <<EnvRef(PodUIDEnv)>> ELSE <<>>
           c == IF "node" \in keys THEN <<EnvRef(EnvNodeName)>> ELSE <<>>
<1>1. ReferenceEnvs(keys) = (a \o b) \o c
  BY DEF ReferenceEnvs
<1>2. EnvsOK(a, FALSE) /\ EnvsOK(b, FALSE) /\ EnvsOK(c, FALSE)
  BY EnvRefIsOK, OneOK, NoneOK
<1> HIDE DEF a, b, c
<1>3. EnvsOK(a \o b, FALSE)
  BY <1>2, JoinedOK
<1> DEFINE d == a \o b
<1> HIDE DEF d
<1>4. EnvsOK(d \o c, FALSE)
  BY <1>2, <1>3, JoinedOK DEF d
<1>5. Names(ReferenceEnvs(keys)) \subseteq References /\ ResourceAttrs \notin References
  BY ReferenceNames DEF References, ResourceAttrs, PodNameEnv, PodUIDEnv, EnvNodeName
<1> QED BY <1>1, <1>4, <1>5 DEF d

LEMMA AddServiceOK ==
    ASSUME NEW inst, NEW s, NEW w, EnvsOK(s, w), NEW resources
    PROVE  EnvsOK(AddService(inst, s, resources), w)
<1> DEFINE a == Env("OTEL_SERVICE_NAME", <<chooseServiceName(resources)>>)
           e == Env("OTEL_EXPORTER_OTLP_ENDPOINT", <<Agent>>)
           b == IF inst.endpoint THEN <<e>> ELSE <<>>
           more == <<a>> \o b
<1>1. AddService(inst, s, resources) = AddAllIfAbsent(s, more)
  BY DEF AddService
<1>2. EnvOK(a) /\ EnvOK(e)
  BY EnvIsOK
<1> HIDE DEF a, e
<1>3. EnvsOK(<<a>>, FALSE) /\ EnvsOK(b, FALSE)
  BY <1>2, OneOK, NoneOK
<1> HIDE DEF b
<1>4. EnvsOK(more, FALSE)
  <2> DEFINE c == <<a>>
  <2> HIDE DEF c
  <2>1. EnvsOK(c \o b, FALSE)
    BY <1>3, JoinedOK DEF c
  <2> QED BY <2>1 DEF c
<1> HIDE DEF more
<1> QED BY <1>1, <1>4, AddAllOK

LEMMA AddAttributesOK ==
    ASSUME NEW s, NEW w, EnvsOK(s, w), NEW app, NEW resources, NEW referred
    PROVE  EnvsOK(AddAttributes(s, app, resources, referred), w)
<1> DEFINE refs == ReferenceEnvs(referred)
           t == s \o refs
<1>1. PICK value : AddAttributes(s, app, resources, referred) = Surround(t, ResourceAttrs, <<>>, value)
  BY DEF AddAttributes
<1>2. EnvsOK(refs, FALSE) /\ ResourceAttrs \notin Names(refs)
  BY ReferencesOK
<1> HIDE DEF refs
<1>3. EnvsOK(t, w)
  BY <1>2, JoinedOK
<1> HIDE DEF t
<1> QED BY <1>1, <1>3, SurroundOK

LEMMA AddPropagatorsOK ==
    ASSUME NEW inst, NEW s, NEW w, EnvsOK(s, w)
    PROVE  EnvsOK(AddPropagators(inst, s), w)
<1> DEFINE e == Env("OTEL_PROPAGATORS", <<"set">>)
<1>1. EnvOK(e)
  BY EnvIsOK
<1>2. AddPropagators(inst, s) = IF inst.propagators THEN AddIfAbsent(s, e) ELSE s
  BY DEF AddPropagators
<1> HIDE DEF e
<1> QED BY <1>1, <1>2, AddIfAbsentOK

LEMMA EnvsOne ==
    ASSUME NEW n, NEW v
    PROVE  EnvsOK(Envs(<<n>>, v), FALSE) /\ Names(Envs(<<n>>, v)) = {n}
<1> DEFINE s == <<n>>
<1>1. s = Append(<<>>, n)
  OBVIOUS
<1>2. IsSeq(s)
  <2>1. IsSeq(Append(<<>>, n))
    BY Empty, Appended
  <2> HIDE DEF s
  <2> QED BY <1>1, <2>1
<1> HIDE DEF s
<1>3. EnvsOK(Envs(s, v), FALSE)
  BY <1>2, EnvsListed
<1> QED BY <1>3, EnvsNamed DEF s

LEMMA AddSamplerOK ==
    ASSUME NEW inst, NEW s, NEW w, EnvsOK(s, w)
    PROVE  EnvsOK(AddSampler(inst, s), w)
<1> DEFINE a == Envs(<<"OTEL_TRACES_SAMPLER">>, "set")
           c == Envs(<<"OTEL_TRACES_SAMPLER_ARG">>, "set")
           b == IF inst.arg THEN c ELSE <<>>
<1>1. AddSampler(inst, s) \in {s, (s \o a) \o b}
  BY DEF AddSampler
<1>2. EnvsOK(a, FALSE) /\ ResourceAttrs \notin Names(a)
  <2>1. EnvsOK(a, FALSE) /\ Names(a) = {"OTEL_TRACES_SAMPLER"}
    BY EnvsOne, Zenon
  <2> QED BY <2>1 DEF ResourceAttrs
<1>3. EnvsOK(c, FALSE) /\ ResourceAttrs \notin Names(c)
  <2>1. EnvsOK(c, FALSE) /\ Names(c) = {"OTEL_TRACES_SAMPLER_ARG"}
    BY EnvsOne, Zenon
  <2> QED BY <2>1 DEF ResourceAttrs
<1> HIDE DEF a, c
<1>4. EnvsOK(b, FALSE) /\ ResourceAttrs \notin Names(b)
  BY <1>3, NoneOK, NoneNamed
<1> HIDE DEF b
<1> DEFINE t == s \o a
<1>5. EnvsOK(t, w)
  BY <1>2, JoinedOK
<1> HIDE DEF t
<1>6. EnvsOK(t \o b, w)
  BY <1>4, <1>5, JoinedOK
<1> QED BY <1>1, <1>6 DEF t

LEMMA SDKOK ==
    ASSUME NEW inst, NEW s, NEW w, EnvsOK(s, w), NEW app, NEW resources
    PROVE  LET r == moveEnvToListEnd(SDKEnvs(inst, s, app, resources), ResourceAttrs)
           IN  EnvsOK(r, w) /\ (w => AttributesLast(r))
<1> DEFINE ref == Referred(inst, resources, Existing(app))
           a == AddService(inst, s, resources)
           b == AddAttributes(a, app, resources, ref)
           c == AddPropagators(inst, b)
           d == AddSampler(inst, c)
           r == moveEnvToListEnd(d, ResourceAttrs)
<1>1. EnvsOK(a, w) /\ Named(a)
  BY AddServiceOK, EnvsNames
<1> HIDE DEF ref, a
<1>2. EnvsOK(b, w) /\ ResourceAttrs \in Names(b)
  BY <1>1, AddAttributesOK, AddAttributesGrows
<1> HIDE DEF b
<1>3. EnvsOK(c, w) /\ ResourceAttrs \in Names(c)
  BY <1>2, AddPropagatorsOK, AddPropagatorsGrows, EnvsNames DEF Grows
<1> HIDE DEF c
<1>4. EnvsOK(d, w) /\ ResourceAttrs \in Names(d)
  BY <1>3, AddSamplerOK, AddSamplerGrows, EnvsNames DEF Grows
<1> HIDE DEF d
<1>5. EnvsOK(r, w) /\ (w => AttributesLast(r))
  BY <1>4, MovedOK
<1> HIDE DEF r
<1>6. r = moveEnvToListEnd(SDKEnvs(inst, s, app, resources), ResourceAttrs)
  BY DEF SDKEnvs, ref, a, b, c, d, r
<1> QED BY <1>5, <1>6

\* Variables of which none is the attributes.
Free(s) == EnvsOK(s, FALSE) /\ ResourceAttrs \notin Names(s)

LEMMA FreeOK == ASSUME NEW s, Free(s), NEW w PROVE EnvsOK(s, w)
BY EnvsAny DEF Free

LEMMA FreeNone == Free(<<>>)
BY NoneOK, NoneNamed DEF Free

LEMMA FreeJoined == ASSUME NEW s, NEW t, Free(s), Free(t) PROVE Free(s \o t)
<1>1. EnvsOK(s \o t, FALSE)
  BY JoinedOK DEF Free
<1>2. Names(s \o t) = Names(s) \cup Names(t)
  BY JoinedNamed, EnvsNames DEF Free
<1> QED BY <1>1, <1>2 DEF Free

LEMMA FreeListed ==
    ASSUME NEW S, ResourceAttrs \notin S, NEW names \in Seq(S), NEW v
    PROVE  Free(Envs(names, v))
<1>1. IsSeq(names) /\ ToSet(names) \subseteq S
  BY ElementsOf DEF ToSet
<1> QED BY <1>1, EnvsListed DEF Free

LEMMA AddExportersOK ==
    ASSUME NEW s, NEW w, EnvsOK(s, w)
    PROVE  EnvsOK(AddExporters(s), w)
<1> DEFINE S == {"OTEL_TRACES_EXPORTER", "OTEL_EXPORTER_OTLP_TRACES_PROTOCOL",
                 "OTEL_METRICS_EXPORTER", "OTEL_EXPORTER_OTLP_METRICS_PROTOCOL"}
           names == Those(Exporters, {k \in DOMAIN Exporters : shouldInjectEnvVar(s, Exporters[k])})
           more == Envs(names, "otlp")
<1>1. Exporters \in Seq(S) /\ ResourceAttrs \notin S
  BY DEF Exporters, ResourceAttrs
<1> HIDE DEF S
<1>2. IsSeq(Exporters) /\ \A k \in DOMAIN Exporters : Exporters[k] \in S
  BY <1>1, ElementsOf
<1>3. IsSeq(names) /\ ToSet(names) \subseteq S
  BY <1>2, ThoseElements
<1>4. AddExporters(s) = s \o more
  BY DEF AddExporters
<1> HIDE DEF names
<1>5. EnvsOK(more, FALSE) /\ ResourceAttrs \notin Names(more)
  BY <1>1, <1>3, EnvsListed
<1> HIDE DEF more
<1>6. EnvsOK(s \o more, w)
  BY <1>5, JoinedOK
<1> QED BY <1>4, <1>6

\* The variables after each of the seven that .NET sets.
DotNetStep(s, k) == setDotNetEnvVar(s, DotNetVars[k], DotNetVars[k] \in OptionVars("dotnet"))

DotNetUpto(g, own) ==
    g = [k \in 0 .. Len(DotNetVars) |-> IF k = 0 THEN own ELSE DotNetStep(g[k - 1], k)]

LEMMA DotNetUnfolds ==
    ASSUME NEW own
    PROVE  AddDotNet(own) =
             DotNetStep(DotNetStep(DotNetStep(DotNetStep(DotNetStep(DotNetStep(DotNetStep(own,
               1), 2), 3), 4), 5), 6), 7)
<1> DEFINE c == CHOOSE g : DotNetUpto(g, own)
<1>1. Len(DotNetVars) = 7
  BY DEF DotNetVars
<1>2. \A g : DotNetUpto(g, own) <=> g = [k \in 0 .. 7 |-> IF k = 0 THEN own ELSE DotNetStep(g[k - 1], k)]
  BY <1>1 DEF DotNetUpto
<1>3. AddDotNet(own) = c[Len(DotNetVars)]
  BY Zenon DEF AddDotNet, DotNetUpto, DotNetStep
<1>4. \E g : DotNetUpto(g, own)
  <2>1. PICK a1 : a1 = DotNetStep(own, 1)
    OBVIOUS
  <2>2. PICK a2 : a2 = DotNetStep(a1, 2)
    OBVIOUS
  <2>3. PICK a3 : a3 = DotNetStep(a2, 3)
    OBVIOUS
  <2>4. PICK a4 : a4 = DotNetStep(a3, 4)
    OBVIOUS
  <2>5. PICK a5 : a5 = DotNetStep(a4, 5)
    OBVIOUS
  <2>6. PICK a6 : a6 = DotNetStep(a5, 6)
    OBVIOUS
  <2>7. PICK a7 : a7 = DotNetStep(a6, 7)
    OBVIOUS
  <2> DEFINE h == [k \in 0 .. 7 |-> CASE k = 0 -> own [] k = 1 -> a1 [] k = 2 -> a2 [] k = 3 -> a3
                                      [] k = 4 -> a4  [] k = 5 -> a5 [] k = 6 -> a6 [] k = 7 -> a7]
  <2>8. /\ h[0] = own /\ h[1] = a1 /\ h[2] = a2 /\ h[3] = a3
        /\ h[4] = a4  /\ h[5] = a5 /\ h[6] = a6 /\ h[7] = a7
        /\ h = [k \in 0 .. 7 |-> h[k]]
    OBVIOUS
  <2> HIDE DEF h
  <2>9. ASSUME NEW k \in 0 .. 7
        PROVE  h[k] = IF k = 0 THEN own ELSE DotNetStep(h[k - 1], k)
    <3>1. k \in {0, 1, 2, 3, 4, 5, 6, 7}
      OBVIOUS
    <3> QED BY <2>1, <2>2, <2>3, <2>4, <2>5, <2>6, <2>7, <2>8, <3>1
  <2>10. h = [k \in 0 .. 7 |-> IF k = 0 THEN own ELSE DotNetStep(h[k - 1], k)]
    BY <2>8, <2>9
  <2> QED BY <1>2, <2>10
<1>5. DotNetUpto(c, own)
  BY <1>4, Zenon
<1> HIDE DEF c
<1>6. c = [k \in 0 .. 7 |-> IF k = 0 THEN own ELSE DotNetStep(c[k - 1], k)]
  BY <1>2, <1>5
<1>7. /\ c[0] = own /\ c[1] = DotNetStep(c[0], 1) /\ c[2] = DotNetStep(c[1], 2)
      /\ c[3] = DotNetStep(c[2], 3) /\ c[4] = DotNetStep(c[3], 4) /\ c[5] = DotNetStep(c[4], 5)
      /\ c[6] = DotNetStep(c[5], 6) /\ c[7] = DotNetStep(c[6], 7)
  BY <1>6
<1> QED BY <1>1, <1>3, <1>7

LEMMA AddDotNetOK ==
    ASSUME NEW s, NEW w, EnvsOK(s, w)
    PROVE  EnvsOK(AddDotNet(s), w)
<1>1. \A t, k : EnvsOK(t, w) => EnvsOK(DotNetStep(t, k), w)
  BY SurroundOK DEF DotNetStep, setDotNetEnvVar
<1> QED BY <1>1, DotNetUnfolds

----------------------------------------------------------------------------
\* A pod whose variables are well formed.

ContainerOK(c, w) == {"name", "env"} \subseteq DOMAIN c /\ EnvsOK(c.env, w)

\* In each container but perhaps the i-th the attributes are the last they concern.
Fits(p, w, i) ==
    /\ Shaped(p)
    /\ \A k \in DOMAIN p.containers :
           /\ ContainerOK(p.containers[k], w)
           /\ w /\ k # i => AttributesLast(p.containers[k].env)
    /\ \A k \in DOMAIN p.init : ContainerOK(p.init[k], FALSE)

LEMMA FitsWeaker == ASSUME NEW p, NEW w, Fits(p, w, 0), NEW i PROVE Fits(p, w, i)
<1>1. \A k \in DOMAIN p.containers : k # 0
  BY SeqDomain DEF Fits, Shaped, Named
<1> QED BY <1>1 DEF Fits

\* One container is changed.
LEMMA FitsChanged ==
    ASSUME NEW p, NEW w, NEW i, Fits(p, w, i), NEW q, Shaped(q), q.init = p.init,
           DOMAIN q.containers = DOMAIN p.containers, ContainerOK(q.containers[i], w),
           \A k \in DOMAIN p.containers : k # i => q.containers[k] = p.containers[k]
    PROVE  Fits(q, w, i) /\ ((w => AttributesLast(q.containers[i].env)) => Fits(q, w, 0))
BY DEF Fits

LEMMA FitsEnv ==
    ASSUME NEW p, NEW w, NEW i \in DOMAIN p.containers, Fits(p, w, i), NEW env, EnvsOK(env, w)
    PROVE  LET q == [p EXCEPT !.containers[i].env = env]
           IN  /\ Fits(q, w, i) /\ ((w => AttributesLast(env)) => Fits(q, w, 0))
               /\ DOMAIN q.containers = DOMAIN p.containers /\ q.containers[i].env = env
<1> DEFINE q == [p EXCEPT !.containers[i].env = env]
<1>1. Shaped(p) /\ ContainerOK(p.containers[i], w)
  BY DEF Fits
<1>2. Shaped(q)
  BY <1>1, EnvSet DEF Kept
<1>3. /\ q.init = p.init /\ DOMAIN q.containers = DOMAIN p.containers
      /\ q.containers[i].env = env /\ ContainerOK(q.containers[i], w)
      /\ \A k \in DOMAIN p.containers : k # i => q.containers[k] = p.containers[k]
  BY <1>1 DEF Shaped, PodFields, ContainerOK
<1> HIDE DEF q
<1>4. Fits(q, w, i) /\ ((w => AttributesLast(q.containers[i].env)) => Fits(q, w, 0))
  BY <1>2, <1>3, FitsChanged
<1> QED BY <1>3, <1>4 DEF q

\* An init container and a volume come.
LEMMA FitsInit ==
    ASSUME NEW p, NEW w, NEW i, Fits(p, w, i), NEW d, ContainerOK(d, FALSE), NEW v
    PROVE  LET q == [p EXCEPT !.volumes = v, !.init = Append(@, d)]
           IN  Fits(q, w, i) /\ q.containers = p.containers
<1> DEFINE s == Append(p.init, d)
           q == [p EXCEPT !.volumes = v, !.init = Append(@, d)]
<1>1. Shaped(p) /\ "name" \in DOMAIN d
  BY DEF Fits, ContainerOK
<1>2. Shaped(q) /\ q.containers = p.containers
  BY <1>1, InitAdded DEF Kept
<1>3. q.init = s
  BY <1>1 DEF Shaped, PodFields
<1>4. IsSeq(p.init) /\ DOMAIN p.init = 1 .. Len(p.init) /\ Len(p.init) \in Nat
  BY <1>1, SeqDomain DEF Shaped, Named
<1>5. IsSeq(s) /\ Len(s) = Len(p.init) + 1 /\ s[Len(p.init) + 1] = d /\ \A k \in DOMAIN p.init : s[k] = p.init[k]
  BY <1>4, Appended
<1> HIDE DEF s
<1>6. DOMAIN s = 1 .. Len(p.init) + 1
  BY <1>5, SeqDomain
<1>7. \A k \in DOMAIN s : k \in DOMAIN p.init \/ k = Len(p.init) + 1
  BY <1>4, <1>6
<1>8. \A k \in DOMAIN s : ContainerOK(s[k], FALSE)
  BY <1>5, <1>7 DEF Fits
<1> HIDE DEF q
<1>9. Fits(q, w, i)
  BY <1>2, <1>3, <1>8 DEF Fits
<1> QED BY <1>2, <1>9 DEF q

LEMMA FitsAttach ==
    ASSUME NEW p, NEW w, NEW i \in DOMAIN p.containers, Fits(p, w, i), NEW lang, NEW env, EnvsOK(env, w)
    PROVE  LET q == AttachAgent(lang, p, i, env)
           IN  Fits(q, w, i) /\ DOMAIN q.containers = DOMAIN p.containers
<1> DEFINE m == Mount(lang, lang)
           q == [p EXCEPT !.containers[i].env = env, !.containers[i].mounts = Append(@, m)]
           d == Container(lang, <<>>, <<m>>)
           r == [q EXCEPT !.volumes = Append(@, lang), !.init = Append(@, d)]
<1>1. AttachAgent(lang, p, i, env) = IF lang \notin Names(q.init) THEN r ELSE q
  BY DEF AttachAgent, isInitContainerMissing
<1>2. ContainerOK(d, FALSE)
  BY NoneOK DEF Container, ContainerOK
<1> HIDE DEF m, d
<1>3. Shaped(p) /\ ContainerOK(p.containers[i], w)
  BY DEF Fits
<1>4. /\ PodFields \subseteq DOMAIN q /\ q.ann = p.ann /\ q.sc = p.sc /\ q.owner = p.owner
      /\ q.init = p.init /\ DOMAIN q.containers = DOMAIN p.containers
      /\ ContainerOK(q.containers[i], w)
      /\ \A k \in DOMAIN p.containers : k # i => q.containers[k] = p.containers[k]
  BY <1>3 DEF Shaped, PodFields, ContainerOK
<1>5. SameNames(p.containers, q.containers)
  BY <1>3 DEF Shaped, PodFields, Named, SameNames
<1> HIDE DEF q
<1>6. Shaped(q)
  BY <1>3, <1>4, <1>5, ContainerSet DEF Kept
<1>7. Fits(q, w, i)
  BY <1>4, <1>6, FitsChanged
<1>8. Fits(r, w, i) /\ r.containers = q.containers
  BY <1>2, <1>7, FitsInit
<1> HIDE DEF r
<1> QED BY <1>1, <1>4, <1>7, <1>8

\* What is needed of an instance.
InstFits(inst, w) ==
    /\ EnvsOK(inst.env, FALSE)
    /\ \A lang \in Languages : EnvsOK(inst.langEnv[lang], FALSE)
    /\ \A lang \in Templates : w => ResourceAttrs \notin Names(inst.langEnv[lang])

LEMMA SpecEnvsOK ==
    ASSUME NEW s, NEW w, EnvsOK(s, w), NEW inst, InstFits(inst, w), NEW lang \in Templates, NEW allEnvs
    PROVE  EnvsOK(s \o SpecEnvs(inst.langEnv[lang], allEnvs), w)
<1> DEFINE spec == inst.langEnv[lang]
           t == SpecEnvs(spec, allEnvs)
<1>1. EnvsOK(spec, FALSE) /\ (w => ResourceAttrs \notin Names(spec))
  BY DEF InstFits, Templates, Languages
<1> HIDE DEF spec
<1>2. EnvsOK(t, FALSE) /\ Names(t) \subseteq Names(spec)
  BY <1>1, ThoseOK DEF SpecEnvs
<1> HIDE DEF t
<1>3. EnvsOK(s \o t, w)
  BY <1>1, <1>2, JoinedOK
<1> QED BY <1>3 DEF t, spec

LEMMA FitsInject ==
    ASSUME NEW p, NEW w, NEW i \in DOMAIN p.containers, Fits(p, w, i), NEW inst, InstFits(inst, w),
           NEW lang \in Templates, NEW allEnvs
    PROVE  LET q == Inject(lang, inst.langEnv[lang], p, i, allEnvs)
           IN  Fits(q, w, i) /\ DOMAIN q.containers = DOMAIN p.containers
<1> DEFINE own == p.containers[i].env \o SpecEnvs(inst.langEnv[lang], allEnvs)
           q == Inject(lang, inst.langEnv[lang], p, i, allEnvs)
<1>1. EnvsOK(own, w)
  BY SpecEnvsOK DEF Fits, ContainerOK
<1>2. \E env : EnvsOK(env, w) /\ q = AttachAgent(lang, p, i, env)
  <2>1. CASE lang = "java"
    <3> DEFINE env == Surround(own, "JAVA_TOOL_OPTIONS", <<>>, <<"javaagent">>)
    <3>1. q = AttachAgent(lang, p, i, env)
      BY <2>1 DEF Inject, injectJavaagent
    <3> HIDE DEF own, q
    <3> QED BY <1>1, <3>1, SurroundOK
  <2>2. CASE lang = "nodejs"
    <3> DEFINE env == Surround(own, "NODE_OPTIONS", <<>>, <<"require">>)
    <3>1. q = AttachAgent(lang, p, i, env)
      BY <2>2 DEF Inject, injectNodeJSSDK
    <3> HIDE DEF own, q
    <3> QED BY <1>1, <3>1, SurroundOK
  <2>3. CASE lang = "python"
    <3> DEFINE paths == Surround(own, "PYTHONPATH", <<"prefix">>, <<"suffix">>)
               env == AddExporters(paths)
    <3>1. q = AttachAgent(lang, p, i, env)
      BY <2>3 DEF Inject, injectPythonSDK
    <3> HIDE DEF own, q
    <3>2. EnvsOK(paths, w)
      BY <1>1, SurroundOK
    <3> HIDE DEF paths
    <3> QED BY <3>1, <3>2, AddExportersOK
  <2>4. CASE lang = "dotnet"
    <3> DEFINE env == AddDotNet(own)
    <3>1. q = AttachAgent(lang, p, i, env)
      BY <2>4 DEF Inject, injectDotNetSDK
    <3> HIDE DEF own, q
    <3> QED BY <1>1, <3>1, AddDotNetOK
  <2> QED BY <2>1, <2>2, <2>3, <2>4 DEF Templates
<1> HIDE DEF own, q
<1>3. PICK env : EnvsOK(env, w) /\ q = AttachAgent(lang, p, i, env)
  BY <1>2
<1>4. Fits(q, w, i) /\ DOMAIN q.containers = DOMAIN p.containers
  BY <1>3, FitsAttach
<1> QED BY <1>4 DEF q

\* The SDK puts the attributes to the end.
LEMMA FitsConfig ==
    ASSUME NEW p, NEW w, NEW a \in DOMAIN p.containers, Fits(p, w, a), NEW inst, InstFits(inst, w),
           NEW app, NEW cluster
    PROVE  LET q == injectCommonSDKConfig(inst, injectCommonEnvVar(inst, p, a), a, app, cluster)
           IN  Fits(q, w, 0) /\ DOMAIN q.containers = DOMAIN p.containers
<1> DEFINE own == AddAllIfAbsent(p.containers[a].env, inst.env)
           q == [p EXCEPT !.containers[a].env = own]
           resources == createResourceMap(inst, q, app, cluster)
           to == moveEnvToListEnd(SDKEnvs(inst, own, q.containers[app], resources), ResourceAttrs)
           r == [q EXCEPT !.containers[a].env = to]
<1>1. injectCommonEnvVar(inst, p, a) = q
  BY DEF injectCommonEnvVar, Fits, Shaped, PodFields
<1>2. EnvsOK(own, w)
  BY AddAllOK DEF Fits, ContainerOK, InstFits
<1> HIDE DEF own
<1>3. Fits(q, w, a) /\ DOMAIN q.containers = DOMAIN p.containers /\ q.containers[a].env = own
  BY <1>2, FitsEnv
<1>4. "containers" \in DOMAIN q
  BY DEF Fits, Shaped, PodFields
<1> HIDE DEF q
<1>5. EnvsOK(to, w) /\ (w => AttributesLast(to))
  BY <1>2, SDKOK
<1>6. injectCommonSDKConfig(inst, q, a, app, cluster) = r
  BY <1>3, <1>4 DEF injectCommonSDKConfig, Fits, ContainerOK
<1> HIDE DEF to
<1>7. Fits(r, w, 0) /\ DOMAIN r.containers = DOMAIN q.containers
  BY <1>3, <1>5, FitsEnv
<1> HIDE DEF r
<1> QED BY <1>1, <1>3, <1>6, <1>7

LEMMA FitsCommon ==
    ASSUME NEW p, NEW w, NEW i \in DOMAIN p.containers, Fits(p, w, i), NEW inst, InstFits(inst, w),
           NEW cluster
    PROVE  LET q == CommonConfig(inst, p, i, cluster)
           IN  Fits(q, w, 0) /\ DOMAIN q.containers = DOMAIN p.containers
BY FitsConfig DEF CommonConfig

LEMMA FitsSecurity ==
    ASSUME NEW p, NEW w, Fits(p, w, 0), NEW i, NEW name
    PROVE  LET q == setInitContainerSecurityContext(p, i, name)
           IN  Fits(q, w, 0) /\ q.containers = p.containers
<1> DEFINE s == [k \in DOMAIN p.init |->
                   IF p.init[k].name = name THEN [p.init[k] EXCEPT !.sc = p.containers[i].sc]
                   ELSE p.init[k]]
           q == [p EXCEPT !.init = s]
<1>1. setInitContainerSecurityContext(p, i, name) = q
  BY DEF setInitContainerSecurityContext
<1>2. Shaped(p)
  BY DEF Fits
<1>3. Shaped(q)
  BY <1>1, <1>2, SecurityContextKept DEF Kept
<1>4. DOMAIN s = DOMAIN p.init /\ \A k \in DOMAIN s : ContainerOK(s[k], FALSE)
  BY DEF Fits, ContainerOK
<1> HIDE DEF s
<1>5. q.init = s /\ q.containers = p.containers
  BY <1>2 DEF Shaped, PodFields
<1> HIDE DEF q
<1>6. Fits(q, w, 0)
  BY <1>3, <1>4, <1>5 DEF Fits
<1> QED BY <1>1, <1>5, <1>6

LEMMA FitsTemplate ==
    ASSUME NEW p, NEW w, NEW i \in DOMAIN p.containers, Fits(p, w, 0), NEW inst, InstFits(inst, w),
           NEW lang \in Templates, NEW runtime, NEW allEnvs, NEW cluster
    PROVE  Fits(InstrumentContainer(lang, inst, p, i, runtime, allEnvs, cluster), w, 0)
<1> DEFINE q == Inject(lang, inst.langEnv[lang], p, i, allEnvs)
           r == CommonConfig(inst, q, i, cluster)
           t == RunAsContainer(lang, r, i)
<1>1. Fits(p, w, i)
  BY FitsWeaker
<1>2. Fits(q, w, i) /\ i \in DOMAIN q.containers
  BY <1>1, FitsInject
<1> HIDE DEF q
<1>3. Fits(r, w, 0)
  BY <1>2, FitsCommon
<1> HIDE DEF r
<1>4. Fits(t, w, 0)
  BY <1>3, FitsSecurity DEF RunAsContainer
<1> HIDE DEF t
<1> QED BY <1>4 DEF InstrumentContainer, q, r, t

LEMMA FitsClone ==
    ASSUME NEW p, NEW w, NEW i \in DOMAIN p.containers, Fits(p, w, i), NEW agent, NEW config, NEW hooks
    PROVE  LET q == Clone(p, i, agent, config, hooks)
           IN  Fits(q, w, i) /\ DOMAIN q.containers = DOMAIN p.containers
<1> DEFINE d == [p.containers[i] EXCEPT !.name = "clone",
                                        !.lifecycle = @ /\ hooks,
                                        !.mounts = Append(@, Mount(config, "source-conf"))]
           more == <<Mount(agent, "agent"), Mount(config, ConfigPath)>>
           mounts == DropConfigMount(p.containers[i].mounts) \o more
           v == Append(p.volumes, config)
           a == [p EXCEPT !.volumes = v, !.init = Append(@, d)]
           q == [a EXCEPT !.containers[i].mounts = mounts]
<1>1. Shaped(p) /\ ContainerOK(p.containers[i], w)
  BY DEF Fits
<1>2. Clone(p, i, agent, config, hooks) = IF "clone" \in Names(p.init) THEN p ELSE q
  BY <1>1 DEF Clone, isInitContainerMissing, Shaped, PodFields
<1>3. ContainerOK(d, FALSE)
  BY <1>1 DEF ContainerOK, EnvsOK
<1> HIDE DEF d, mounts, v
<1>4. Fits(a, w, i) /\ a.containers = p.containers
  BY <1>3, FitsInit
<1> HIDE DEF a
<1>5. Shaped(a)
  BY <1>4 DEF Fits
<1>6. /\ PodFields \subseteq DOMAIN q /\ q.ann = a.ann /\ q.sc = a.sc /\ q.owner = a.owner
      /\ q.init = a.init /\ DOMAIN q.containers = DOMAIN a.containers
      /\ ContainerOK(q.containers[i], w)
      /\ \A k \in DOMAIN a.containers : k # i => q.containers[k] = a.containers[k]
  BY <1>1, <1>4, <1>5 DEF Shaped, PodFields, ContainerOK
<1>7. SameNames(a.containers, q.containers)
  BY <1>5 DEF Shaped, PodFields, Named, SameNames
<1> HIDE DEF q
<1>8. Shaped(q)
  BY <1>5, <1>6, <1>7, ContainerSet DEF Kept
<1>9. Fits(q, w, i)
  BY <1>4, <1>6, <1>8, FitsChanged
<1> QED BY <1>2, <1>4, <1>6, <1>9

LEMMA FitsAttached ==
    ASSUME NEW p, NEW w, NEW i, Fits(p, w, i), NEW name, NEW env, EnvsOK(env, FALSE), NEW agent,
           NEW config, NEW sc
    PROVE  Fits(Attach(p, name, env, agent, config, sc), w, i)
<1> DEFINE d0 == Container(name, env, <<Mount(agent, "agent"), Mount(config, "source-conf")>>)
           d == [d0 EXCEPT !.sc = sc]
           v == Append(p.volumes, agent)
<1>1. Attach(p, name, env, agent, config, sc) = [p EXCEPT !.volumes = v, !.init = Append(@, d)]
  BY DEF Attach, Fits, Shaped, PodFields
<1>2. {"name", "env"} \subseteq DOMAIN d0 /\ d0.env = env
  BY DEF Container
<1> HIDE DEF d0
<1>3. ContainerOK(d, FALSE)
  BY <1>2 DEF ContainerOK
<1> HIDE DEF d, v
<1> DEFINE q == [p EXCEPT !.volumes = v, !.init = Append(@, d)]
<1>4. Fits(q, w, i) /\ q.containers = p.containers
  BY <1>3, FitsInit
<1> HIDE DEF q
<1> QED BY <1>1, <1>4 DEF q

LEMMA AttachContainers ==
    ASSUME NEW p, Shaped(p), NEW name, NEW env, NEW agent, NEW config, NEW sc
    PROVE  Attach(p, name, env, agent, config, sc).containers = p.containers
<1> DEFINE d == [Container(name, env, <<Mount(agent, "agent"), Mount(config, "source-conf")>>)
                   EXCEPT !.sc = sc]
<1>1. Attach(p, name, env, agent, config, sc) = [p EXCEPT !.volumes = Append(@, agent),
                                                         !.init = Append(@, d)]
  BY DEF Attach
<1> HIDE DEF d
<1> QED BY <1>1 DEF Shaped, PodFields

LEMMA ConfOK ==
    ASSUME NEW inst, NEW resources
    PROVE  /\ EnvsOK(getApacheOtelConfig(inst, resources), FALSE)
           /\ EnvsOK(getNginxOtelConfig(inst, resources), FALSE)
<1>1. ASSUME NEW a, NEW b, EnvOK(a), EnvOK(b) PROVE EnvsOK(<<a, b>>, FALSE)
  <2>1. <<a, b>> = Append(<<a>>, b)
    OBVIOUS
  <2>2. EnvsOK(<<a>>, FALSE)
    BY <1>1, OneOK
  <2> DEFINE s == <<a>>
  <2> HIDE DEF s
  <2>3. EnvsOK(Append(s, b), FALSE)
    BY <1>1, <2>2, AppendedOK DEF s
  <2> QED BY <2>1, <2>3 DEF s
<1>2. \A n, v, m : EnvsOK(<<Env(n, v), EnvRef(m)>>, FALSE)
  BY <1>1, EnvIsOK, EnvRefIsOK
<1> QED BY <1>2, Zenon DEF getApacheOtelConfig, getNginxOtelConfig

LEMMA FitsApache ==
    ASSUME NEW p, NEW w, NEW i \in DOMAIN p.containers, Fits(p, w, 0), NEW inst, InstFits(inst, w),
           NEW cluster
    PROVE  Fits(InstrumentApache(inst, p, i, cluster), w, 0)
<1> DEFINE conf == getApacheOtelConfig(inst, createResourceMap(inst, p, i, cluster))
           spec == inst.langEnv["apache"]
           own == AddAllIfAbsent(p.containers[i].env, spec)
           q == [p EXCEPT !.containers[i].env = own]
           r == Clone(q, i, "apache-agent", "apache-conf", TRUE)
           a == Attach(r, "apache", conf, "apache-agent", "apache-conf", NoSecurityContext)
           s == injectApacheHttpdagent(spec, p, i, conf)
           t == CommonConfig(inst, s, i, cluster)
           u == setInitContainerSecurityContext(t, i, "apache")
           v == setInitContainerSecurityContext(u, i, "clone")
<1>1. EnvsOK(conf, FALSE) /\ EnvsOK(spec, FALSE)
  BY ConfOK DEF InstFits, Languages
<1>2. InstrumentApache(inst, p, i, cluster) = v
  BY DEF InstrumentApache
<1>3. [p EXCEPT !.containers[i].env = AddAllIfAbsent(@, spec)] = q
  BY DEF Fits, Shaped, PodFields, ContainerOK
<1>4. s = IF isInitContainerMissing(r, "apache") THEN a ELSE r
  BY <1>3 DEF injectApacheHttpdagent
<1> HIDE DEF conf, spec
<1>5. EnvsOK(own, w)
  BY <1>1, AddAllOK DEF Fits, ContainerOK
<1> HIDE DEF own
<1>6. Fits(q, w, i) /\ i \in DOMAIN q.containers
  <2>1. Fits(p, w, i)
    BY FitsWeaker
  <2>2. Fits(q, w, i) /\ DOMAIN q.containers = DOMAIN p.containers
    BY <1>5, <2>1, FitsEnv
  <2> HIDE DEF q
  <2> QED BY <2>2
<1> HIDE DEF q
<1>7. Fits(r, w, i) /\ i \in DOMAIN r.containers
  <2> DEFINE hooks == TRUE
  <2> HIDE DEF hooks
  <2>1. LET c == Clone(q, i, "apache-agent", "apache-conf", hooks)
        IN  Fits(c, w, i) /\ i \in DOMAIN c.containers
    BY <1>6, FitsClone
  <2> QED BY <2>1 DEF hooks
<1> HIDE DEF r
<1>8. Fits(a, w, i) /\ i \in DOMAIN a.containers
  <2>1. Fits(a, w, i)
    BY <1>1, <1>7, FitsAttached
  <2>2. a.containers = r.containers
    BY <1>7, AttachContainers DEF Fits
  <2> HIDE DEF a
  <2> QED BY <1>7, <2>1, <2>2
<1> HIDE DEF a, s
<1>9. Fits(s, w, i) /\ i \in DOMAIN s.containers
  BY <1>4, <1>7, <1>8
<1>10. Fits(t, w, 0)
  BY <1>9, FitsCommon
<1> HIDE DEF t
<1>11. Fits(u, w, 0)
  BY <1>10, FitsSecurity
<1> HIDE DEF u
<1>12. Fits(v, w, 0)
  BY <1>11, FitsSecurity
<1> QED BY <1>2, <1>12

LEMMA FitsNginx ==
    ASSUME NEW p, NEW w, NEW i \in DOMAIN p.containers, Fits(p, w, 0), NEW inst, InstFits(inst, w),
           NEW cluster
    PROVE  Fits(InstrumentNginx(inst, p, i, cluster), w, 0)
<1> DEFINE conf == getNginxOtelConfig(inst, createResourceMap(inst, p, i, cluster))
           spec == inst.langEnv["nginx"]
           own == AddAllIfAbsent(p.containers[i].env, spec)
           q == [p EXCEPT !.containers[i].env = own]
           r == Clone(q, i, "nginx-agent", "nginx-conf", FALSE)
           a == Attach(r, "nginx", conf, "nginx-agent", "nginx-conf", r.containers[i].sc)
           path == Surround(a.containers[i].env, "LD_LIBRARY_PATH", <<>>, <<"sdk_lib">>)
           b == [a EXCEPT !.containers[i].env = path]
           s == injectNginxSDK(spec, p, i, conf)
           t == CommonConfig(inst, s, i, cluster)
<1>1. EnvsOK(conf, FALSE) /\ EnvsOK(spec, FALSE)
  BY ConfOK DEF InstFits, Languages
<1>2. InstrumentNginx(inst, p, i, cluster) = t
  BY DEF InstrumentNginx
<1>3. [p EXCEPT !.containers[i].env = AddAllIfAbsent(@, spec)] = q
  BY DEF Fits, Shaped, PodFields, ContainerOK
<1>4. s = IF isInitContainerMissing(r, "nginx")
            THEN [a EXCEPT !.containers[i].env = Surround(@, "LD_LIBRARY_PATH", <<>>, <<"sdk_lib">>)]
            ELSE r
  BY <1>3 DEF injectNginxSDK
<1> HIDE DEF conf, spec
<1>5. EnvsOK(own, w)
  BY <1>1, AddAllOK DEF Fits, ContainerOK
<1> HIDE DEF own
<1>6. Fits(q, w, i) /\ i \in DOMAIN q.containers
  <2>1. Fits(p, w, i)
    BY FitsWeaker
  <2>2. Fits(q, w, i) /\ DOMAIN q.containers = DOMAIN p.containers
    BY <1>5, <2>1, FitsEnv
  <2> HIDE DEF q
  <2> QED BY <2>2
<1> HIDE DEF q
<1>7. Fits(r, w, i) /\ i \in DOMAIN r.containers
  <2> DEFINE hooks == FALSE
  <2> HIDE DEF hooks
  <2>1. LET c == Clone(q, i, "nginx-agent", "nginx-conf", hooks)
        IN  Fits(c, w, i) /\ i \in DOMAIN c.containers
    BY <1>6, FitsClone
  <2> QED BY <2>1 DEF hooks
<1> HIDE DEF r
<1>8. Fits(a, w, i) /\ i \in DOMAIN a.containers
  <2>1. Fits(a, w, i)
    BY <1>1, <1>7, FitsAttached
  <2>2. a.containers = r.containers
    BY <1>7, AttachContainers DEF Fits
  <2> HIDE DEF a
  <2> QED BY <1>7, <2>1, <2>2
<1> HIDE DEF a
<1>9. [a EXCEPT !.containers[i].env = Surround(@, "LD_LIBRARY_PATH", <<>>, <<"sdk_lib">>)] = b
  BY <1>8 DEF Fits, Shaped, PodFields, ContainerOK
<1>10. EnvsOK(path, w)
  <2>1. EnvsOK(a.containers[i].env, w)
    BY <1>8 DEF Fits, ContainerOK
  <2> QED BY <2>1, SurroundOK
<1> HIDE DEF path
<1>11. Fits(b, w, i) /\ DOMAIN b.containers = DOMAIN a.containers /\ b.containers[i].env = path
  BY <1>8, <1>10, FitsEnv
<1> HIDE DEF b, s
<1>12. Fits(s, w, i) /\ i \in DOMAIN s.containers
  BY <1>4, <1>7, <1>8, <1>9, <1>11
<1>13. Fits(t, w, 0)
  BY <1>12, FitsCommon
<1> QED BY <1>2, <1>13

LEMMA FitsGo ==
    ASSUME NEW p, NEW w, Fits(p, w, 0), NEW inst, InstFits(inst, w), NEW cluster
    PROVE  Fits(InstrumentGo(inst, p, cluster), w, 0)
<1> DEFINE key == <<"exe", "go">>
           e == Env(TargetExe, p.ann[key])
           env == IF key \in DOMAIN p.ann THEN <<e>> ELSE <<>>
           spec == inst.langEnv["go"]
           own == AddAllIfAbsent(env, spec)
           d == Container(sideCarName, own, <<Mount("kernel-debug", "debug")>>)
           cs == Append(p.containers, d)
           last == Len(cs)
           q == [p EXCEPT !.shareProcesses = "yes", !.containers = cs,
                          !.volumes = Append(@, "kernel-debug")]
           r == ConfigureGo(inst, q, cluster)
<1>1. injectGoSDK(spec, p) = q
  BY DEF injectGoSDK
<1>2. EnvsOK(env, w)
  <2>1. EnvOK(e)
    BY EnvIsOK
  <2> HIDE DEF e
  <2> QED BY <2>1, OneOK, NoneOK
<1> HIDE DEF env
<1>3. EnvsOK(spec, FALSE)
  BY DEF InstFits, Languages
<1>4. InstrumentGo(inst, p, cluster) \in {p, r}
  BY <1>1 DEF InstrumentGo, IfTargetKnown
<1> HIDE DEF spec
<1>5. EnvsOK(own, w)
  BY <1>2, <1>3, AddAllOK
<1> HIDE DEF own
<1>6. ContainerOK(d, w) /\ "name" \in DOMAIN d
  BY <1>5 DEF Container, ContainerOK
<1> HIDE DEF d
<1>7. Shaped(p)
  BY DEF Fits
<1>8. Named(cs)
  BY <1>6, <1>7, AppendedNamed DEF Shaped
<1>9. /\ last \in DOMAIN cs /\ cs[last] = d
      /\ \A k \in DOMAIN cs : k # last => k \in DOMAIN p.containers /\ cs[k] = p.containers[k]
  <2>1. IsSeq(p.containers) /\ Len(p.containers) \in Nat /\ DOMAIN p.containers = 1 .. Len(p.containers)
    BY <1>7, SeqDomain DEF Shaped, Named
  <2>2. /\ IsSeq(cs) /\ Len(cs) = Len(p.containers) + 1 /\ cs[Len(p.containers) + 1] = d
        /\ \A k \in DOMAIN p.containers : cs[k] = p.containers[k]
    BY <2>1, Appended
  <2>3. DOMAIN cs = 1 .. Len(cs)
    BY <2>2, SeqDomain
  <2> HIDE DEF cs
  <2>4. \A k \in DOMAIN cs : k # Len(cs) => k \in DOMAIN p.containers
    BY <2>1, <2>2, <2>3
  <2> QED BY <2>1, <2>2, <2>3, <2>4
<1> HIDE DEF cs
<1>10. PodFields \subseteq DOMAIN q /\ q.init = p.init /\ q.containers = cs
  BY <1>7 DEF Shaped, PodFields
<1> HIDE DEF q
<1>11. Shaped(q)
  BY <1>7, <1>8, <1>10 DEF Shaped
<1>12. r = injectCommonSDKConfig(inst, injectCommonEnvVar(inst, q, last), last, 1, cluster)
  BY <1>10 DEF ConfigureGo
<1> HIDE DEF last
<1>13. \A k \in DOMAIN p.containers : ContainerOK(p.containers[k], w) /\ (w => AttributesLast(p.containers[k].env))
  <2>1. \A k \in DOMAIN p.containers : k # 0
    BY <1>7, SeqDomain DEF Shaped, Named
  <2> QED BY <2>1 DEF Fits
<1>14. Fits(q, w, last)
  BY <1>6, <1>9, <1>10, <1>11, <1>13 DEF Fits
<1>15. Fits(r, w, 0)
  BY <1>9, <1>10, <1>12, <1>14, FitsConfig
<1> QED BY <1>4, <1>15

AsksFit(asks, w) ==
    \A lang \in DOMAIN asks : Len(asks[lang].names) \in Nat /\ InstFits(asks[lang].inst, w)

LEMMA AsksFitOK == ASSUME NEW asks, NEW w, AsksFit(asks, w) PROVE AsksOK(asks)
BY EnvsNames DEF AsksFit, InstFits, AsksOK, InstOK, Languages

LEMMA FitsInstrument ==
    ASSUME NEW p, NEW w, Fits(p, w, 0), Names(p.containers) # {}, NEW asks, AsksFit(asks, w),
           NEW lang \in Languages \cap DOMAIN asks, lang # "go", NEW name, NEW allEnvs, NEW cluster
    PROVE  Fits(NextPod(p, name, asks, lang, allEnvs, cluster), w, 0)
<1> DEFINE i == getContainerIndex(name, p)
           inst == asks[lang].inst
           q == NextPod(p, name, asks, lang, allEnvs, cluster)
<1>1. i \in DOMAIN p.containers
  BY IndexInDomain DEF Fits
<1>2. InstFits(inst, w)
  BY DEF AsksFit
<1>3. Fits(p, w, i)
  BY FitsWeaker
<1>4. CASE lang \in Templates
  <2>1. lang \notin {"apache", "nginx", "sdk"}
    BY <1>4 DEF Templates
  <2>2. q = InstrumentContainer(lang, inst, p, i, asks[lang].runtime, allEnvs[i], cluster)
    BY <2>1 DEF NextPod, Instrument
  <2> HIDE DEF i, inst, q
  <2>3. Fits(q, w, 0)
    BY <1>1, <1>2, <1>4, <2>2, FitsTemplate
  <2> QED BY <2>3 DEF q
<1>5. CASE lang = "apache"
  <2>1. q = InstrumentApache(inst, p, i, cluster)
    BY <1>5 DEF NextPod, Instrument
  <2> HIDE DEF i, inst, q
  <2>2. Fits(q, w, 0)
    BY <1>1, <1>2, <2>1, FitsApache
  <2> QED BY <2>2 DEF q
<1>6. CASE lang = "nginx"
  <2>1. q = InstrumentNginx(inst, p, i, cluster)
    BY <1>6 DEF NextPod, Instrument
  <2> HIDE DEF i, inst, q
  <2>2. Fits(q, w, 0)
    BY <1>1, <1>2, <2>1, FitsNginx
  <2> QED BY <2>2 DEF q
<1>7. CASE lang = "sdk"
  <2>1. q = CommonConfig(inst, p, i, cluster)
    BY <1>7 DEF NextPod, Instrument
  <2> HIDE DEF i, inst, q
  <2>2. Fits(q, w, 0)
    BY <1>1, <1>2, <1>3, <2>1, FitsCommon
  <2> QED BY <2>2 DEF q
<1> QED BY <1>4, <1>5, <1>6, <1>7 DEF Languages, Templates

LEMMA FitsLanguage ==
    ASSUME NEW p, NEW w, Fits(p, w, 0), Names(p.containers) # {}, NEW asks, AsksFit(asks, w),
           NEW lang \in Languages, NEW allEnvs, NEW cluster
    PROVE  LET q == InjectLanguage(asks, lang, p, allEnvs, cluster)
           IN  Fits(q, w, 0) /\ Names(q.containers) # {}
<1> DEFINE q == InjectLanguage(asks, lang, p, allEnvs, cluster)
<1>0. Shaped(p) /\ AsksOK(asks)
  BY AsksFitOK DEF Fits
<1>1. Names(q.containers) # {}
  <2>1. Kept(p, q)
    BY <1>0, LanguageEffect
  <2> HIDE DEF q
  <2> QED BY <2>1 DEF Kept
<1>2. CASE lang \notin DOMAIN asks
  <2>1. q = p
    BY <1>2 DEF InjectLanguage
  <2> QED BY <2>1
<1>3. CASE lang \in DOMAIN asks /\ lang = "go"
  <2>1. q = InstrumentGo(asks[lang].inst, p, cluster)
    BY <1>3 DEF InjectLanguage
  <2>2. InstFits(asks[lang].inst, w)
    BY <1>3 DEF AsksFit
  <2>3. Fits(InstrumentGo(asks[lang].inst, p, cluster), w, 0)
    BY <2>2, FitsGo
  <2> HIDE DEF q
  <2>4. Fits(q, w, 0)
    BY <2>1, <2>3
  <2> QED BY <1>1, <2>4 DEF q
<1>4. CASE lang \in DOMAIN asks /\ lang # "go"
  <2> DEFINE names == asks[lang].names
  <2>1. Len(names) \in Nat
    BY <1>4 DEF AsksFit
  <2>2. PICK g : /\ Injecting(g, Len(names), names, asks, lang, p, allEnvs, cluster)
                 /\ InstrumentEach(asks, lang, p, allEnvs, cluster) = g[Len(names)]
    BY <2>1, InstrumentEachUnfolds
  <2>3. q = g[Len(names)]
    BY <1>4, <2>2 DEF InjectLanguage
  <2> HIDE DEF names
  <2>4. g[0] = p /\ \A m \in 0 .. Len(names) : m # 0 =>
                       g[m] = NextPod(g[m - 1], names[m], asks, lang, allEnvs, cluster)
    BY <2>1, <2>2 DEF Injecting
  <2> DEFINE Good(m) == Fits(g[m], w, 0) /\ Names(g[m].containers) # {}
             T == {m \in Nat : m <= Len(names) => Good(m)}
  <2>5. T = Nat
    <3>1. T \subseteq Nat /\ 0 \in T
      BY <2>4
    <3>2. ASSUME NEW m \in T PROVE m + 1 \in T
      <4>1. CASE m + 1 <= Len(names)
        <5>1. Good(m) /\ m + 1 \in 0 .. Len(names) /\ (m + 1) - 1 = m /\ m + 1 # 0
          BY <2>1, <4>1
        <5> DEFINE a == g[m]
                   b == g[m + 1]
                   c == NextPod(a, names[m + 1], asks, lang, allEnvs, cluster)
        <5>2. b = c
          BY <2>4, <5>1
        <5>3. Fits(a, w, 0) /\ Names(a.containers) # {} /\ Shaped(a)
          BY <5>1 DEF Fits
        <5> HIDE DEF a, b
        <5>4. Fits(c, w, 0)
          BY <1>4, <5>3, FitsInstrument
        <5>5. Kept(a, c)
          BY <1>4, <5>3, InstrumentEffect, Zenon
        <5> HIDE DEF c
        <5>6. Names(c.containers) # {}
          BY <5>3, <5>5 DEF Kept
        <5>7. Good(m + 1)
          BY <5>2, <5>4, <5>6 DEF b
        <5> QED BY <5>7
      <4> QED BY <4>1
    <3> HIDE DEF T
    <3> QED BY <3>1, <3>2, FromZero
  <2>6. Good(Len(names))
    BY <2>1, <2>5
  <2> HIDE DEF q
  <2> QED BY <2>3, <2>6 DEF q
<1> QED BY <1>2, <1>3, <1>4

LEMMA FitsAll ==
    ASSUME NEW p, NEW w, Fits(p, w, 0), Names(p.containers) # {}, NEW asks, AsksFit(asks, w),
           NEW allEnvs, NEW cluster
    PROVE  Fits(InjectAll(asks, p, allEnvs, cluster), w, 0)
<1> DEFINE L(l, q) == InjectLanguage(asks, l, q, allEnvs, cluster)
           Good(q) == Fits(q, w, 0) /\ Names(q.containers) # {}
<1>1. ASSUME NEW q, Good(q), NEW l \in Languages PROVE Good(L(l, q))
  BY <1>1, FitsLanguage
<1>2. Good(p)
  OBVIOUS
<1>3. InjectAll(asks, p, allEnvs, cluster) =
        L("sdk", L("nginx", L("apache", L("go", L("dotnet", L("python", L("nodejs", L("java", p))))))))
  BY InjectAllUnfolds
<1>4. /\ "java" \in Languages /\ "nodejs" \in Languages /\ "python" \in Languages
      /\ "dotnet" \in Languages /\ "go" \in Languages /\ "apache" \in Languages
      /\ "nginx" \in Languages /\ "sdk" \in Languages
  BY DEF Languages
<1> HIDE DEF L, Good
<1>5. Good(InjectAll(asks, p, allEnvs, cluster))
  BY <1>1, <1>2, <1>3, <1>4
<1> QED BY <1>5 DEF Good

LEMMA FitsInjected ==
    ASSUME NEW p, NEW w, Fits(p, w, 0), NEW asks, AsksFit(asks, w), NEW cluster
    PROVE  Fits(inject(asks, p, cluster), w, 0)
<1> DEFINE allEnvs == [i \in DOMAIN p.containers |-> getAllEnvVars(p.containers[i], cluster)]
<1>1. inject(asks, p, cluster) = IF p.containers = <<>> \/ otcContainerExistsIn(p) THEN p
                                 ELSE InjectAll(asks, p, allEnvs, cluster)
  BY DEF inject
<1> HIDE DEF allEnvs
<1>2. p.containers # <<>> => Names(p.containers) # {}
  BY SomeNames DEF Fits, Shaped
<1>3. p.containers # <<>> => Fits(InjectAll(asks, p, allEnvs, cluster), w, 0)
  BY <1>2, FitsAll
<1> QED BY <1>1, <1>3

----------------------------------------------------------------------------
\* The instance that the operator uses by default does not set the attributes.

LEMMA FreeSeq ==
    ASSUME NEW S, NEW s \in Seq(S), \A e \in S : EnvOK(e) /\ e.name # ResourceAttrs
    PROVE  Free(s)
<1>1. IsSeq(s) /\ \A k \in DOMAIN s : s[k] \in S
  BY ElementsOf
<1>2. EnvsOK(s, FALSE)
  BY <1>1 DEF EnvsOK
<1> QED BY <1>1, <1>2 DEF Free, Names

LEMMA FreeWhereSet ==
    ASSUME NEW S, ResourceAttrs \notin S, NEW names \in Seq(S), NEW settings
    PROVE  Free(WhereSet(names, settings))
<1> DEFINE those == Those(names, {k \in DOMAIN names : names[k] \in settings})
<1>1. IsSeq(names) /\ \A k \in DOMAIN names : names[k] \in S
  BY ElementsOf
<1>2. IsSeq(those) /\ ToSet(those) \subseteq S
  BY <1>1, ThoseElements
<1>3. WhereSet(names, settings) = Envs(those, "set")
  BY DEF WhereSet
<1> HIDE DEF those
<1> QED BY <1>2, <1>3, EnvsListed DEF Free

LEMMA FreeParts ==
    ASSUME NEW settings
    PROVE  /\ Free(Signals) /\ Free(OldSignals) /\ Free(RuntimeEnabled) /\ Free(Protocol)
           /\ Free(NoExporters) /\ Free(getSharedOtlpEndpointEnvs)
           /\ Free(getServiceEventsEnvs(settings)) /\ Free(getDynamicInstrumentationEnvs(settings))
<1>1. \A n, v : n # ResourceAttrs => EnvOK(Env(n, v)) /\ Env(n, v).name # ResourceAttrs
  BY EnvIsOK
<1>2. Free(Signals)
  <2> DEFINE a == Env(SignalsEnabled, <<"true">>)
             b == Env("OTEL_TRACES_SAMPLER_ARG", <<Agent>>)
             c == Env("OTEL_TRACES_SAMPLER", <<"xray">>)
             d == Env("OTEL_EXPORTER_OTLP_TRACES_ENDPOINT", <<Agent>>)
             e == Env("OTEL_AWS_APPLICATION_SIGNALS_EXPORTER_ENDPOINT", <<Agent>>)
  <2>1. \A x \in {a, b, c, d, e} : EnvOK(x) /\ x.name # ResourceAttrs
    BY <1>1 DEF ResourceAttrs, SignalsEnabled
  <2>2. Signals = <<a, b, c, d, e>>
    BY DEF Signals
  <2> HIDE DEF a, b, c, d, e
  <2> DEFINE S == {a, b, c, d, e}
  <2>3. Signals \in Seq(S) /\ \A x \in S : EnvOK(x) /\ x.name # ResourceAttrs
    BY <2>1, <2>2
  <2> HIDE DEF S
  <2> QED BY <2>3, FreeSeq
<1>3. Free(OldSignals)
  <2> DEFINE a == Env("OTEL_AWS_APP_SIGNALS_ENABLED", <<"true">>)
             b == Env("OTEL_AWS_APP_SIGNALS_EXPORTER_ENDPOINT", <<Agent>>)
  <2>1. \A x \in {a, b} : EnvOK(x) /\ x.name # ResourceAttrs
    BY <1>1 DEF ResourceAttrs
  <2>2. OldSignals = <<a, b>>
    BY DEF OldSignals
  <2> HIDE DEF a, b
  <2> DEFINE S == {a, b}
  <2>3. OldSignals \in Seq(S) /\ \A x \in S : EnvOK(x) /\ x.name # ResourceAttrs
    BY <2>1, <2>2
  <2> HIDE DEF S
  <2> QED BY <2>3, FreeSeq
<1>4. \A n, v : n # ResourceAttrs => Free(Envs(<<n>>, v))
  <2> SUFFICES ASSUME NEW n, NEW v, n # ResourceAttrs PROVE Free(Envs(<<n>>, v))
    OBVIOUS
  <2>1. EnvsOK(Envs(<<n>>, v), FALSE) /\ Names(Envs(<<n>>, v)) = {n}
    BY EnvsOne, Zenon
  <2> QED BY <2>1, Zenon DEF Free
<1>5. \A n, m, v : n # ResourceAttrs /\ m # ResourceAttrs => Free(Envs(<<n, m>>, v))
  <2> SUFFICES ASSUME NEW n, NEW m, NEW v, n # ResourceAttrs, m # ResourceAttrs
               PROVE  Free(Envs(<<n, m>>, v))
    OBVIOUS
  <2> DEFINE s == <<n, m>>
             S == {n, m}
  <2>1. s \in Seq(S) /\ ResourceAttrs \notin S
    OBVIOUS
  <2> HIDE DEF s, S
  <2>2. Free(Envs(s, v))
    BY <2>1, FreeListed
  <2> QED BY <2>2 DEF s
<1>6. Free(RuntimeEnabled) /\ Free(Protocol)
  BY <1>4, Zenon DEF RuntimeEnabled, Protocol, ResourceAttrs
<1>7. Free(NoExporters) /\ Free(getSharedOtlpEndpointEnvs)
  BY <1>5, Zenon DEF NoExporters, getSharedOtlpEndpointEnvs, ResourceAttrs
<1>8. Free(getServiceEventsEnvs(settings))
  <2> DEFINE S == {"OTEL_AWS_SERVICE_EVENTS_ENABLED",
                   "OTEL_AWS_SERVICE_EVENTS_FUNCTION_INSTRUMENT_ENABLED",
                   "OTEL_AWS_SERVICE_EVENTS_PROFILER_ENABLED"}
             s == <<"OTEL_AWS_SERVICE_EVENTS_ENABLED",
                    "OTEL_AWS_SERVICE_EVENTS_FUNCTION_INSTRUMENT_ENABLED",
                    "OTEL_AWS_SERVICE_EVENTS_PROFILER_ENABLED">>
  <2>1. s \in Seq(S) /\ ResourceAttrs \notin S
    BY DEF ResourceAttrs
  <2>2. getServiceEventsEnvs(settings) = WhereSet(s, settings)
    BY DEF getServiceEventsEnvs
  <2> HIDE DEF s, S
  <2> QED BY <2>1, <2>2, FreeWhereSet
<1>9. Free(getDynamicInstrumentationEnvs(settings))
  <2> DEFINE a == Envs(<<"OTEL_AWS_DYNAMIC_INSTRUMENTATION_API_URL">>, Agent)
             S == {"OTEL_AWS_DYNAMIC_INSTRUMENTATION_ENABLED"}
             s == <<"OTEL_AWS_DYNAMIC_INSTRUMENTATION_ENABLED">>
             b == WhereSet(s, settings)
  <2>1. s \in Seq(S) /\ ResourceAttrs \notin S
    BY DEF ResourceAttrs
  <2>2. getDynamicInstrumentationEnvs(settings) = a \o b
    BY DEF getDynamicInstrumentationEnvs
  <2>3. Free(a)
    BY <1>4, Zenon DEF ResourceAttrs
  <2> HIDE DEF a, s, S
  <2>4. Free(b)
    BY <2>1, FreeWhereSet
  <2> HIDE DEF b
  <2> QED BY <2>2, <2>3, <2>4, FreeJoined
<1> QED BY <1>2, <1>3, <1>6, <1>7, <1>8, <1>9

LEMMA FreeShared == ASSUME NEW settings PROVE Free(Shared(settings))
BY FreeParts, FreeJoined DEF Shared

LEMMA FreeEnvs ==
    ASSUME NEW signals, NEW settings, NEW jmx
    PROVE  /\ Free(getJavaEnvs(signals, settings, jmx)) /\ Free(getPythonEnvs(signals, settings))
           /\ Free(getDotNetEnvs(signals)) /\ Free(getNodeJSEnvs(signals, settings))
<1>1. /\ Free(Signals) /\ Free(OldSignals) /\ Free(RuntimeEnabled) /\ Free(Protocol)
      /\ Free(NoExporters) /\ Free(Shared(settings)) /\ Free(<<>>)
  BY FreeParts, FreeShared, FreeNone
<1>2. Free(getJavaEnvs(signals, settings, jmx))
  <2> DEFINE off == Envs(<<"OTEL_TRACES_EXPORTER">>, "none")
             a == Env("OTEL_AWS_JMX_EXPORTER_METRICS_ENDPOINT", <<Agent>>)
             b == Env("OTEL_JMX_TARGET_SYSTEM", jmx)
             pair == <<a, b>>
             S == {a, b}
             on == ((Signals \o OldSignals) \o RuntimeEnabled) \o Shared(settings)
             x == IF signals THEN on ELSE off
             y == IF jmx = <<>> THEN <<>> ELSE pair
             base == Protocol \o NoExporters
  <2>1. getJavaEnvs(signals, settings, jmx) = (base \o x) \o y
    BY DEF getJavaEnvs
  <2>2. Free(off)
    <3>1. EnvsOK(off, FALSE) /\ Names(off) = {"OTEL_TRACES_EXPORTER"}
      BY EnvsOne, Zenon
    <3> QED BY <3>1 DEF Free, ResourceAttrs
  <2>3. Free(pair)
    <3>1. \A e \in S : EnvOK(e) /\ e.name # ResourceAttrs
      BY EnvIsOK DEF ResourceAttrs
    <3> HIDE DEF a, b
    <3>2. pair \in Seq(S)
      OBVIOUS
    <3> HIDE DEF pair, S
    <3> QED BY <3>1, <3>2, FreeSeq
  <2>4. Free(on) /\ Free(base)
    BY <1>1, FreeJoined
  <2> HIDE DEF off, pair, on, base
  <2>5. Free(x) /\ Free(y)
    BY <1>1, <2>2, <2>3, <2>4
  <2> HIDE DEF x, y
  <2>6. Free((base \o x) \o y)
    BY <2>4, <2>5, FreeJoined
  <2> QED BY <2>1, <2>6
<1>3. Free(getPythonEnvs(signals, settings))
  <2> DEFINE S == {"OTEL_PYTHON_DISTRO", "OTEL_PYTHON_CONFIGURATOR"}
             s == <<"OTEL_PYTHON_DISTRO", "OTEL_PYTHON_CONFIGURATOR">>
             own == Envs(s, "aws")
             on == (((((Signals \o OldSignals) \o RuntimeEnabled) \o Protocol) \o NoExporters) \o own)
                     \o Shared(settings)
  <2>1. getPythonEnvs(signals, settings) \in {<<>>, on}
    BY DEF getPythonEnvs
  <2>2. s \in Seq(S) /\ ResourceAttrs \notin S
    BY DEF ResourceAttrs
  <2> HIDE DEF s, S
  <2>3. Free(own)
    BY <2>2, FreeListed
  <2> HIDE DEF own
  <2>4. Free(on)
    BY <1>1, <2>3, FreeJoined
  <2> HIDE DEF on
  <2> QED BY <1>1, <2>1, <2>4
<1>4. Free(getDotNetEnvs(signals))
  <2> DEFINE S == {"OTEL_DOTNET_DISTRO", "OTEL_DOTNET_CONFIGURATOR", "OTEL_DOTNET_AUTO_PLUGINS"}
             s == <<"OTEL_DOTNET_DISTRO", "OTEL_DOTNET_CONFIGURATOR", "OTEL_DOTNET_AUTO_PLUGINS">>
             own == Envs(s, "aws")
             to == Envs(<<"OTEL_EXPORTER_OTLP_ENDPOINT">>, Agent)
             on == ((((Signals \o RuntimeEnabled) \o Protocol) \o to) \o NoExporters) \o own
  <2>1. getDotNetEnvs(signals) \in {<<>>, on}
    BY DEF getDotNetEnvs
  <2>2. s \in Seq(S) /\ ResourceAttrs \notin S
    BY DEF ResourceAttrs
  <2>3. Free(to)
    <3>1. EnvsOK(to, FALSE) /\ Names(to) = {"OTEL_EXPORTER_OTLP_ENDPOINT"}
      BY EnvsOne, Zenon
    <3> QED BY <3>1 DEF Free, ResourceAttrs
  <2> HIDE DEF s, S, to
  <2>4. Free(own)
    BY <2>2, FreeListed
  <2> HIDE DEF own
  <2>5. Free(on)
    BY <1>1, <2>3, <2>4, FreeJoined
  <2> HIDE DEF on
  <2> QED BY <1>1, <2>1, <2>5
<1>5. Free(getNodeJSEnvs(signals, settings))
  <2> DEFINE on == ((Signals \o Protocol) \o NoExporters) \o Shared(settings)
  <2>1. getNodeJSEnvs(signals, settings) \in {<<>>, on}
    BY DEF getNodeJSEnvs
  <2>2. Free(on)
    BY <1>1, FreeJoined
  <2> HIDE DEF on
  <2> QED BY <1>1, <2>1, <2>2
<1> QED BY <1>2, <1>3, <1>4, <1>5

LEMMA DefaultFits ==
    ASSUME NEW signals, NEW settings, NEW jmx, NEW w
    PROVE  InstFits(getDefaultInstrumentation(signals, settings, jmx), w)
<1> DEFINE none == NoEnv
           java == getJavaEnvs(signals, settings, jmx)
           python == getPythonEnvs(signals, settings)
           dotnet == getDotNetEnvs(signals)
           nodejs == getNodeJSEnvs(signals, settings)
           langEnv == [none EXCEPT !["java"] = java, !["python"] = python,
                                   !["dotnet"] = dotnet, !["nodejs"] = nodejs]
           i == Instance("default", "java-instrumentation", <<>>, langEnv)
           d == [i EXCEPT !.propagators = TRUE]
<1>1. getDefaultInstrumentation(signals, settings, jmx) = d
  BY DEF getDefaultInstrumentation
<1>2. Free(java) /\ Free(python) /\ Free(dotnet) /\ Free(nodejs) /\ Free(<<>>)
  BY FreeEnvs, FreeNone
<1>3. DOMAIN none = Languages /\ \A l \in Languages : none[l] = <<>>
  BY DEF NoEnv
<1> HIDE DEF none, java, python, dotnet, nodejs
<1>4. \A l \in Languages : langEnv[l] \in {<<>>, java, python, dotnet, nodejs}
  BY <1>3
<1> HIDE DEF langEnv
<1>5. \A l \in Languages : Free(langEnv[l])
  BY <1>2, <1>4
<1>6. i.env = <<>> /\ i.langEnv = langEnv /\ {"env", "langEnv"} \subseteq DOMAIN i
  BY DEF Instance
<1> HIDE DEF i
<1>7. d.env = <<>> /\ d.langEnv = langEnv
  BY <1>6
<1> HIDE DEF d
<1>8. EnvsOK(<<>>, FALSE)
  BY NoneOK
<1> QED BY <1>1, <1>5, <1>7, <1>8 DEF InstFits, Free, Templates, Languages

\* What is needed of the instances and collectors of a cluster.
CollectorFits(collector, w) ==
    /\ EnvsOK(collector.env, w)
    /\ w => AttributesLast(collector.env)
    /\ Named(collector.init)
    /\ \A k \in DOMAIN collector.init : ContainerOK(collector.init[k], FALSE)

ClusterFits(cluster, w) ==
    /\ \A inst \in cluster.instances : InstFits(inst, w)
    /\ \A collector \in cluster.collectors : CollectorFits(collector, w)

LEMMA AskedFits ==
    ASSUME NEW space, NEW ann, NEW cluster, AreAnnotations(space.ann), AreAnnotations(ann),
           NEW w, ClusterFits(cluster, w)
    PROVE  AsksFit(Asked(space, ann, cluster), w)
<1> DEFINE asks == Asked(space, ann, cluster)
           insts(l) == getInstrumentationInstance(space, ann, l, cluster).insts
<1>1. DOMAIN asks = EnabledLanguages(space, ann, cluster)
  BY DEF Asked
<1>2. \A l \in DOMAIN asks : /\ asks[l].names = annotationValue(space, ann, NamesKey(l, cluster))
                             /\ asks[l].inst = CHOOSE i \in insts(l) : TRUE
  BY DEF Asked
<1>3. \A l \in DOMAIN asks : insts(l) # {}
  BY <1>1 DEF EnabledLanguages
<1> HIDE DEF asks
<1>4. ASSUME NEW l \in DOMAIN asks PROVE Len(asks[l].names) \in Nat /\ InstFits(asks[l].inst, w)
  <2>1. asks[l].inst \in insts(l)
    BY <1>2, <1>3
  <2>2. asks[l].inst \in cluster.instances \/ IsDefault(asks[l].inst)
    BY <2>1, InstancesFrom
  <2>3. InstFits(asks[l].inst, w)
    BY <2>2, DefaultFits DEF ClusterFits, IsDefault
  <2> QED BY <1>2, <2>3, ValuesAreSequences
<1> QED BY <1>4 DEF AsksFit, asks

LEMMA FitsMutated ==
    ASSUME NEW space, NEW p, NEW w, Fits(p, w, 0), NEW cluster, AsksFit(Asked(space, p.ann, cluster), w)
    PROVE  Fits(Mutate(space, p, cluster).pod, w, 0)
<1>1. Mutate(space, p, cluster).pod \in {p, inject(Asked(space, p.ann, cluster), p, cluster)}
  BY DEF Mutate
<1> QED BY <1>1, FitsInjected

----------------------------------------------------------------------------
\* The sidecar has the attributes at the end as well.

\* The attributes come with the last of some variables.
LEMMA JoinedLast ==
    ASSUME NEW s, EnvsOK(s, FALSE), ResourceAttrs \notin Names(s), NEW t, EnvsOK(t, FALSE),
           \A k \in DOMAIN t : t[k].name = ResourceAttrs => k = Len(t), NEW w
    PROVE  EnvsOK(s \o t, w) /\ AttributesLast(s \o t)
<1> DEFINE r == s \o t
<1>1. IsSeq(s) /\ IsSeq(t) /\ \A k \in DOMAIN s : s[k].name # ResourceAttrs
  BY DEF EnvsOK, Names
<1>2. /\ IsSeq(r) /\ Len(r) = Len(s) + Len(t)
      /\ \A k \in DOMAIN r : \/ k \in DOMAIN s /\ r[k] = s[k]
                             \/ k - Len(s) \in DOMAIN t /\ r[k] = t[k - Len(s)]
  BY <1>1, JoinedPlaces, Zenon
<1>3. EnvsOK(r, FALSE)
  BY JoinedOK
<1> HIDE DEF r
<1>4. Len(s) \in Nat /\ Len(t) \in Nat /\ DOMAIN r = 1 .. Len(r)
  BY <1>1, <1>2, SeqDomain
<1>5. ASSUME NEW k \in DOMAIN r, r[k].name = ResourceAttrs PROVE k = Len(r)
  <2>1. k - Len(s) = Len(t)
    BY <1>1, <1>2, <1>5
  <2> QED BY <1>2, <1>4, <2>1
<1>6. Once(r) /\ AttributesLast(r)
  BY <1>4, <1>5 DEF Once, AttributesLast
<1>7. EnvsOK(r, w)
  BY <1>3, <1>6 DEF EnvsOK
<1> QED BY <1>6, <1>7 DEF r

\* A variable that the attributes do not concern comes.
LEMMA AppendedLast ==
    ASSUME NEW s, EnvsOK(s, FALSE), AttributesLast(s), NEW e, e.name \notin References \cup {ResourceAttrs}
    PROVE  AttributesLast(Append(s, e))
<1> DEFINE t == Append(s, e)
<1>1. IsSeq(s) /\ Len(s) \in Nat /\ DOMAIN s = 1 .. Len(s)
  BY SeqDomain DEF EnvsOK
<1>2. IsSeq(t) /\ Len(t) = Len(s) + 1 /\ t[Len(s) + 1] = e /\ \A k \in DOMAIN s : t[k] = s[k]
  BY <1>1, Appended
<1> HIDE DEF t
<1>3. DOMAIN t = 1 .. Len(s) + 1
  BY <1>2, SeqDomain
<1>4. \A k \in DOMAIN t : k \in DOMAIN s \/ k = Len(s) + 1
  BY <1>1, <1>3
<1>5. \A k \in DOMAIN t : t[k].name \in References \cup {ResourceAttrs} => k \in DOMAIN s
  BY <1>2, <1>4
<1>6. AttributesLast(t)
  BY <1>2, <1>5 DEF AttributesLast
<1> QED BY <1>6 DEF t

LEMMA AttributesEnvs ==
    ASSUME NEW p, NEW cluster
    PROVE  LET t == getResourceAttributesEnv(p, cluster)
           IN  EnvsOK(t, FALSE) /\ \A k \in DOMAIN t : t[k].name = ResourceAttrs => k = Len(t)
<1> DEFINE a == EnvRef(PodNameEnv)
           b == EnvRef(PodUIDEnv)
           c == EnvRef(EnvNodeName)
<1>1. PICK value : getResourceAttributesEnv(p, cluster) = <<a, b, c, Env(ResourceAttrs, value)>>
  BY Zenon DEF getResourceAttributesEnv
<1> DEFINE d == Env(ResourceAttrs, value)
           t == <<a, b, c, d>>
           S == {a, b, c, d}
<1>2. /\ EnvOK(a) /\ EnvOK(b) /\ EnvOK(c) /\ EnvOK(d)
      /\ a.name # ResourceAttrs /\ b.name # ResourceAttrs /\ c.name # ResourceAttrs
  BY EnvRefIsOK, EnvIsOK DEF PodNameEnv, PodUIDEnv, EnvNodeName, ResourceAttrs
<1> HIDE DEF a, b, c, d
<1>3. t \in Seq(S) /\ Len(t) = 4 /\ DOMAIN t = {1, 2, 3, 4} /\ t[1] = a /\ t[2] = b /\ t[3] = c /\ t[4] = d
  OBVIOUS
<1>4. getResourceAttributesEnv(p, cluster) = t
  BY <1>1 DEF d
<1> HIDE DEF t, S
<1>5. IsSeq(t)
  BY <1>3, ElementsOf
<1>6. \A k \in DOMAIN t : EnvOK(t[k]) /\ (t[k].name = ResourceAttrs => k = Len(t))
  BY <1>2, <1>3
<1> QED BY <1>4, <1>5, <1>6 DEF EnvsOK

LEMMA SidecarOK ==
    ASSUME NEW collector, NEW w, CollectorFits(collector, w), NEW p, NEW cluster
    PROVE  LET d == SidecarContainer(collector, getResourceAttributesEnv(p, cluster))
           IN  /\ ContainerOK(d, w) /\ (w => AttributesLast(d.env))
               /\ "name" \in DOMAIN d /\ d.name = CollectorContainer
<1> DEFINE e == Env("OTEL_CONFIG", <<collector.name>>)
           s == Append(collector.env, e)
           t == getResourceAttributesEnv(p, cluster)
           u == IF HasEnv(collector.env, ResourceAttrs) THEN <<>> ELSE t
           env == s \o u
           d == SidecarContainer(collector, t)
<1>1. {"name", "env"} \subseteq DOMAIN d /\ d.env = env /\ d.name = CollectorContainer
  BY DEF SidecarContainer, Container
<1>2. EnvOK(e) /\ e.name \notin References \cup {ResourceAttrs}
  BY EnvIsOK DEF References, ResourceAttrs, PodNameEnv, PodUIDEnv, EnvNodeName
<1>3. EnvsOK(t, FALSE) /\ \A k \in DOMAIN t : t[k].name = ResourceAttrs => k = Len(t)
  BY AttributesEnvs
<1> HIDE DEF e, t, d
<1>4. EnvsOK(collector.env, w) /\ EnvsOK(collector.env, FALSE) /\ (w => AttributesLast(collector.env))
  BY DEF CollectorFits, EnvsOK
<1>5. EnvsOK(s, w) /\ EnvsOK(s, FALSE) /\ (w => AttributesLast(s))
  <2>1. e.name # ResourceAttrs
    BY <1>2
  <2> QED BY <1>2, <1>4, <2>1, AppendedOK, AppendedLast
<1>6. Names(s) = Names(collector.env) \cup {e.name}
  BY <1>2, <1>4, EnvsNames, AppendedNamed DEF EnvOK
<1> HIDE DEF s
<1>7. EnvsOK(env, w) /\ (w => AttributesLast(env))
  <2>1. CASE HasEnv(collector.env, ResourceAttrs)
    <3>1. env = s \o <<>>
      BY <2>1
    <3>2. s \in Seq(ToSet(s))
      BY <1>5 DEF EnvsOK, IsSeq
    <3>3. s \o <<>> = s
      <4> DEFINE S == ToSet(s)
      <4> HIDE DEF S
      <4>1. s \in Seq(S)
        BY <3>2 DEF S
      <4> QED BY <4>1
    <3> QED BY <1>5, <3>1, <3>3
  <2>2. CASE ~HasEnv(collector.env, ResourceAttrs)
    <3>1. env = s \o t
      BY <2>2
    <3>2. ResourceAttrs \notin Names(s)
      BY <1>2, <1>6, <2>2, HasEnvName
    <3>3. EnvsOK(s \o t, w) /\ AttributesLast(s \o t)
      BY <1>3, <1>5, <3>2, JoinedLast
    <3> QED BY <3>1, <3>3
  <2> QED BY <2>1, <2>2
<1> HIDE DEF env
<1>8. ContainerOK(d, w)
  BY <1>1, <1>7 DEF ContainerOK
<1> QED BY <1>1, <1>7, <1>8 DEF d, t

LEMMA FitsRemoved ==
    ASSUME NEW p, NEW w, Fits(p, w, 0)
    PROVE  Fits(remove(p), w, 0)
<1>1. CASE ~existsIn(p)
  BY <1>1 DEF remove
<1>2. CASE existsIn(p)
  <2> DEFINE q == remove(p)
  <2>1. Shaped(p)
    BY DEF Fits
  <2>2. Shaped(q) /\ ToSet(q.containers) \subseteq ToSet(p.containers) /\ q.init = p.init
    BY <1>2, <2>1, RemoveShaped DEF SameFrame
  <2> HIDE DEF q
  <2>3. \A c \in ToSet(p.containers) : ContainerOK(c, w) /\ (w => AttributesLast(c.env))
    <3>1. DOMAIN p.containers = 1 .. Len(p.containers) /\ Len(p.containers) \in Nat
      BY <2>1, SeqDomain DEF Shaped, Named
    <3>2. \A k \in DOMAIN p.containers : k # 0
      BY <3>1
    <3>3. \A c \in ToSet(p.containers) : \E k \in DOMAIN p.containers : c = p.containers[k]
      BY DEF ToSet
    <3> QED BY <3>2, <3>3 DEF Fits
  <2>4. \A k \in DOMAIN q.containers : q.containers[k] \in ToSet(q.containers)
    BY <2>2, SeqDomain DEF Shaped, Named
  <2>5. Fits(q, w, 0)
    BY <2>2, <2>3, <2>4 DEF Fits
  <2> QED BY <2>5 DEF q
<1> QED BY <1>1, <1>2

LEMMA FitsAdded ==
    ASSUME NEW p, NEW w, Fits(p, w, 0), NEW collector, CollectorFits(collector, w), NEW cluster
    PROVE  LET q == add(collector, p, cluster)
           IN  Fits(q, w, 0) /\ Names(q.containers) = Names(p.containers) \cup {CollectorContainer}
<1> DEFINE d == SidecarContainer(collector, getResourceAttributesEnv(p, cluster))
           cs == Append(p.containers, d)
           is == p.init \o collector.init
           q == [p EXCEPT !.init = is, !.containers = cs, !.volumes = @ \o collector.volumes,
                          !.labels = @ \cup {InjectedLabel}]
<1>1. add(collector, p, cluster) = q
  BY DEF add
<1>2. Shaped(p) /\ Named(collector.init)
  BY DEF Fits, CollectorFits
<1>3. /\ ContainerOK(d, w) /\ (w => AttributesLast(d.env))
      /\ "name" \in DOMAIN d /\ d.name = CollectorContainer
  BY SidecarOK
<1> HIDE DEF d
<1>4. Names(cs) = Names(p.containers) \cup {CollectorContainer}
  BY <1>2, <1>3, AppendedNamed DEF Shaped
<1>5. Shaped(q)
  BY <1>1, <1>2, AddShaped DEF SameFrame
<1>6. \A k \in DOMAIN cs : ContainerOK(cs[k], w) /\ (w => AttributesLast(cs[k].env))
  <2>1. IsSeq(p.containers) /\ Len(p.containers) \in Nat /\ DOMAIN p.containers = 1 .. Len(p.containers)
    BY <1>2, SeqDomain DEF Shaped, Named
  <2>2. /\ IsSeq(cs) /\ Len(cs) = Len(p.containers) + 1 /\ cs[Len(p.containers) + 1] = d
        /\ \A k \in DOMAIN p.containers : cs[k] = p.containers[k]
    BY <2>1, Appended
  <2> HIDE DEF cs
  <2>3. DOMAIN cs = 1 .. Len(p.containers) + 1
    BY <2>2, SeqDomain
  <2>4. \A k \in DOMAIN cs : k \in DOMAIN p.containers \/ k = Len(p.containers) + 1
    BY <2>1, <2>3
  <2>5. \A k \in DOMAIN p.containers : k # 0
    BY <2>1
  <2> QED BY <1>3, <2>2, <2>4, <2>5 DEF Fits
<1>7. \A k \in DOMAIN is : ContainerOK(is[k], FALSE)
  <2>1. IsSeq(p.init) /\ IsSeq(collector.init)
    BY <1>2 DEF Shaped, Named
  <2>2. \A k \in DOMAIN is : \/ k \in DOMAIN p.init /\ is[k] = p.init[k]
                             \/ /\ k - Len(p.init) \in DOMAIN collector.init
                                /\ is[k] = collector.init[k - Len(p.init)]
    BY <2>1, JoinedPlaces, Zenon
  <2> HIDE DEF is
  <2> QED BY <2>2 DEF Fits, CollectorFits
<1> HIDE DEF cs, is
<1>8. q.init = is /\ q.containers = cs
  BY <1>2 DEF Shaped, PodFields
<1> HIDE DEF q
<1>9. Fits(q, w, 0)
  BY <1>5, <1>6, <1>7, <1>8 DEF Fits
<1> QED BY <1>1, <1>4, <1>8, <1>9

LEMMA FitsSidecar ==
    ASSUME NEW space, NEW p, NEW w, Fits(p, w, 0), NEW cluster, ClusterFits(cluster, w)
    PROVE  LET f == MutateSidecar(space, p, cluster).pod
           IN  Fits(f, w, 0) /\ Names(f.containers) \subseteq Names(p.containers) \cup {CollectorContainer}
<1> DEFINE value == annotationValue(space, p.ann, SidecarKey)
           found == getCollectorInstance(space, value, cluster)
           one == One(found)
           f == MutateSidecar(space, p, cluster).pod
<1>1. f = p \/ f = remove(p) \/ (found.insts # {} /\ f = add(one, p, cluster))
  <2>1. Outcome(value, found, one, p, MutateSidecar(space, p, cluster), cluster)
    BY SidecarCases
  <2> HIDE DEF value, found, one
  <2> QED BY <2>1 DEF Outcome
<1>2. found.insts # {} => CollectorFits(one, w)
  <2>1. found.insts # {} => one \in found.insts
    BY DEF One
  <2> QED BY <2>1, CollectorsFrom DEF ClusterFits
<1> HIDE DEF f, found, one
<1>3. CASE f = p
  BY <1>3 DEF f
<1>4. CASE f = remove(p)
  <2>1. Fits(f, w, 0)
    BY <1>4, FitsRemoved
  <2>2. Names(f.containers) \subseteq Names(p.containers)
    <3>1. CASE ~existsIn(p)
      BY <1>4, <3>1 DEF remove
    <3>2. CASE existsIn(p)
      <4>1. ToSet(f.containers) \subseteq ToSet(p.containers)
        BY <1>4, <3>2, RemoveShaped DEF Fits
      <4>2. Named(f.containers) /\ Named(p.containers)
        BY <2>1 DEF Fits, Shaped
      <4> QED BY <4>1, <4>2, NamesOfElements DEF Named
    <3> QED BY <3>1, <3>2
  <2> QED BY <2>1, <2>2 DEF f
<1>5. CASE found.insts # {} /\ f = add(one, p, cluster)
  <2>1. Fits(f, w, 0) /\ Names(f.containers) = Names(p.containers) \cup {CollectorContainer}
    BY <1>2, <1>5, FitsAdded
  <2> QED BY <2>1 DEF f
<1> QED BY <1>1, <1>3, <1>4, <1>5

LEMMA FitsHandled ==
    ASSUME NEW space, NEW p, NEW w, Fits(p, w, 0), AreAnnotations(p.ann), AreAnnotations(space.ann),
           NEW cluster, ClusterFits(cluster, w)
    PROVE  LET r == HandleAt(space, p, cluster)
           IN  /\ Fits(r, w, 0)
               /\ Names(r.containers) \subseteq Names(p.containers) \cup {CollectorContainer, sideCarName}
<1> DEFINE f == MutateSidecar(space, p, cluster).pod
           s == Mutate(space, f, cluster).pod
           r == HandleAt(space, p, cluster)
<1>1. Fits(f, w, 0) /\ Names(f.containers) \subseteq Names(p.containers) \cup {CollectorContainer}
  BY FitsSidecar
<1>2. f.ann = p.ann
  <2>1. CollectorsOK(cluster) /\ Shaped(p)
    BY DEF ClusterFits, CollectorFits, CollectorsOK, Fits
  <2>2. SameFrame(p, f)
    BY <2>1, SidecarFrame
  <2> HIDE DEF f
  <2> QED BY <2>2 DEF SameFrame
<1> HIDE DEF f
<1>3. AsksFit(Asked(space, f.ann, cluster), w)
  BY <1>2, AskedFits
<1>4. Fits(s, w, 0)
  BY <1>1, <1>3, FitsMutated
<1>5. Kept(f, s)
  BY <1>1, <1>3, AsksFitOK, MutateKeeps DEF Fits
<1> HIDE DEF s
<1>6. Names(s.containers) \subseteq Names(p.containers) \cup {CollectorContainer, sideCarName}
  BY <1>1, <1>5 DEF Kept
<1>7. r \in {p, s}
  BY DEF HandleAt, f, s
<1> HIDE DEF r
<1>8. Fits(r, w, 0) /\ Names(r.containers) \subseteq Names(p.containers) \cup {CollectorContainer, sideCarName}
  BY <1>4, <1>6, <1>7
<1> QED BY <1>8 DEF r

----------------------------------------------------------------------------
\* The variables of the pod, in every state.  What the webhook is given is in order if the
\* containers and the collectors' variables are and no instance sets the attributes.
GivenInOrder ==
    /\ \A c \in ToSet(submitted.containers) \cup seen[3].collectors : AttributesLast(c.env)
    /\ \A inst \in seen[3].instances, l \in Templates : ~HasEnv(inst.langEnv[l], ResourceAttrs)

EnvInv ==
    /\ Fits(pod, FALSE, 0)
    /\ GivenInOrder => Fits(pod, TRUE, 0)
    /\ Names(pod.containers) \subseteq Names(submitted.containers) \cup {CollectorContainer, sideCarName}

LEMMA LastIsOnce == ASSUME NEW s, IsSeq(s), AttributesLast(s) PROVE Once(s)
<1> SUFFICES ASSUME NEW j \in DOMAIN s, NEW k \in DOMAIN s, s[j].name = ResourceAttrs,
                    s[k].name = ResourceAttrs
             PROVE  j = k
  BY DEF Once
<1>1. j <= k /\ k <= j
  BY DEF AttributesLast
<1>2. j \in Nat /\ k \in Nat
  BY SeqDomain
<1> QED BY <1>1, <1>2

LEMMA SchemaEnvs ==
    ASSUME NEW envs, AreEnvs(envs), NEW w, w => AttributesLast(envs)
    PROVE  EnvsOK(envs, w)
<1>1. IsSeq(envs) /\ \A k \in DOMAIN envs : envs[k] \in ToSet(envs)
  BY SeqDomain DEF AreEnvs
<1>2. \A k \in DOMAIN envs : EnvOK(envs[k])
  BY <1>1 DEF AreEnvs, EnvOK
<1> QED BY <1>1, <1>2, LastIsOnce DEF EnvsOK

LEMMA SchemaContainers ==
    ASSUME NEW s, AreContainers(s), NEW w, w => \A c \in ToSet(s) : AttributesLast(c.env)
    PROVE  \A k \in DOMAIN s : ContainerOK(s[k], w) /\ (w => AttributesLast(s[k].env))
<1>1. IsSeq(s) /\ \A k \in DOMAIN s : s[k] \in ToSet(s)
  BY SeqDomain DEF AreContainers
<1>2. \A c \in ToSet(s) : {"name", "env"} \subseteq DOMAIN c /\ AreEnvs(c.env)
  BY DEF AreContainers
<1>3. \A c \in ToSet(s) : ContainerOK(c, w)
  BY <1>2, SchemaEnvs DEF ContainerOK
<1> QED BY <1>1, <1>3

LEMMA SubmissionFits ==
    ASSUME NEW p \in Submissions, NEW w, w => \A c \in ToSet(p.containers) : AttributesLast(c.env)
    PROVE  Fits(p, w, 0)
<1>1. AreContainers(p.containers) /\ AreContainers(p.init)
  BY SubmissionsAssumption
<1>2. \A k \in DOMAIN p.containers : ContainerOK(p.containers[k], w) /\ (w => AttributesLast(p.containers[k].env))
  BY <1>1, SchemaContainers
<1>3. \A k \in DOMAIN p.init : ContainerOK(p.init[k], FALSE)
  BY <1>1, SchemaContainers
<1>4. Shaped(p)
  BY SubmissionListed
<1> QED BY <1>2, <1>3, <1>4 DEF Fits

LEMMA SchemaCluster ==
    ASSUME NEW cluster \in Clusters, NEW w,
           w => \A c \in cluster.collectors : AttributesLast(c.env),
           w => \A inst \in cluster.instances, l \in Templates : ~HasEnv(inst.langEnv[l], ResourceAttrs)
    PROVE  ClusterFits(cluster, w)
<1>1. ASSUME NEW inst \in cluster.instances PROVE InstFits(inst, w)
  <2>1. AreEnvs(inst.env) /\ \A l \in Languages : AreEnvs(inst.langEnv[l])
    BY ClustersAssumption
  <2>2. EnvsOK(inst.env, FALSE) /\ \A l \in Languages : EnvsOK(inst.langEnv[l], FALSE)
    BY <2>1, SchemaEnvs
  <2>3. \A l \in Templates : w => ResourceAttrs \notin Names(inst.langEnv[l])
    BY HasEnvName
  <2> QED BY <2>2, <2>3 DEF InstFits
<1>2. ASSUME NEW collector \in cluster.collectors PROVE CollectorFits(collector, w)
  <2>1. AreEnvs(collector.env) /\ AreContainers(collector.init)
    BY ClustersAssumption
  <2>2. EnvsOK(collector.env, w)
    BY <2>1, SchemaEnvs
  <2>3. \A k \in DOMAIN collector.init : ContainerOK(collector.init[k], FALSE)
    BY <2>1, SchemaContainers
  <2>4. Named(collector.init)
    BY <2>1, ContainersListed
  <2> QED BY <2>2, <2>3, <2>4 DEF CollectorFits
<1> QED BY <1>1, <1>2 DEF ClusterFits

LEMMA FitsSpec ==
    ASSUME NEW p, NEW w, Fits(p, w, 0), NEW q, Shaped(q), SpecOf(q) = SpecOf(p)
    PROVE  Fits(q, w, 0) /\ Names(q.containers) = Names(p.containers)
<1>1. q.containers = p.containers /\ q.init = p.init
  BY SpecParts
<1> QED BY <1>1 DEF Fits

LEMMA EnvInit == Init => EnvInv
<1> SUFFICES ASSUME Init PROVE EnvInv
  OBVIOUS
<1>1. submitted \in Submissions /\ pod = submitted
  BY DEF Init
<1>2. Fits(submitted, FALSE, 0)
  BY <1>1, SubmissionFits
<1>3. GivenInOrder => Fits(submitted, TRUE, 0)
  BY <1>1, SubmissionFits DEF GivenInOrder
<1> QED BY <1>1, <1>2, <1>3 DEF EnvInv

\* All but the webhook at the creation leave the spec as it is.
LEMMA SpecStays ==
    PodInv /\ [Next]_vars => Create \/ (SpecOf(pod') = SpecOf(pod))
<1> SUFFICES ASSUME PodInv, [Next]_vars PROVE Create \/ (SpecOf(pod') = SpecOf(pod))
  OBVIOUS
<1>0. Shaped(pod)
  BY DEF PodInv, PodOK
<1>1. CASE CreateWithout
  BY <1>0, <1>1, StoreShaped DEF CreateWithout
<1>2. CASE Schedule
  <2>1. pod' = [pod EXCEPT !.scheduled = TRUE]
    BY <1>2 DEF Schedule
  <2>2. /\ pod'.containers = pod.containers /\ pod'.init = pod.init
        /\ pod'.volumes = pod.volumes /\ pod'.shareProcesses = pod.shareProcesses
    BY <1>0, <2>1 DEF Shaped, PodFields
  <2> QED BY <2>2 DEF SpecOf
<1>3. ASSUME NEW new \in Annotations \cup {pod.ann}, Update(new) PROVE SpecOf(pod') = SpecOf(pod)
  BY <1>3 DEF Update, Replace
<1>4. CASE ChangeInputs
  BY <1>4 DEF ChangeInputs
<1>5. CASE UNCHANGED vars
  BY <1>5 DEF vars
<1> QED BY <1>1, <1>2, <1>3, <1>4, <1>5 DEF Next

LEMMA EnvNext == PodInv /\ PodInv' /\ EnvInv /\ [Next]_vars => EnvInv'
<1> SUFFICES ASSUME PodInv, PodInv', EnvInv, [Next]_vars PROVE EnvInv'
  OBVIOUS
<1>1. Shaped(pod') /\ submitted' = submitted /\ seen' = seen
  <2>1. Shaped(pod')
    BY DEF PodInv, PodOK
  <2>2. submitted' = submitted /\ seen' = seen
    BY DEF Next, Create, CreateWithout, Schedule, Update, ChangeInputs, vars
  <2> QED BY <2>1, <2>2
<1>2. GivenInOrder' <=> GivenInOrder
  BY <1>1 DEF GivenInOrder
<1>3. CASE SpecOf(pod') = SpecOf(pod)
  <2>1. Fits(pod', FALSE, 0) /\ Names(pod'.containers) = Names(pod.containers)
    BY <1>1, <1>3, FitsSpec DEF EnvInv
  <2>2. GivenInOrder => Fits(pod', TRUE, 0)
    BY <1>1, <1>3, FitsSpec DEF EnvInv
  <2> QED BY <1>1, <1>2, <2>1, <2>2 DEF EnvInv
<1>4. CASE Create
  <2>1. /\ Store(Handle(pod)) /\ pod = submitted /\ cl = seen[3] /\ cl \in Clusters
        /\ AreAnnotations(pod.ann) /\ ns \in Namespaces /\ Shaped(pod)
    BY <1>4 DEF Create, PodInv, PhaseOK, SeenOK, PodOK
  <2> DEFINE r == HandleAt(ns, pod, cl)
  <2>2. AreAnnotations(ns.ann)
    BY <2>1, NamespacesAssumption
  <2>3. ClusterFits(cl, FALSE) /\ (GivenInOrder => ClusterFits(cl, TRUE))
    <3>1. ClusterFits(cl, FALSE)
      BY <2>1, SchemaCluster
    <3>2. ASSUME GivenInOrder PROVE ClusterFits(cl, TRUE)
      <4>1. /\ \A c \in cl.collectors : AttributesLast(c.env)
            /\ \A inst \in cl.instances, l \in Templates : ~HasEnv(inst.langEnv[l], ResourceAttrs)
        BY <2>1, <3>2 DEF GivenInOrder
      <4> QED BY <2>1, <4>1, SchemaCluster
    <3> QED BY <3>1, <3>2
  <2>4. /\ Fits(r, FALSE, 0)
        /\ Names(r.containers) \subseteq Names(pod.containers) \cup {CollectorContainer, sideCarName}
    BY <2>1, <2>2, <2>3, FitsHandled DEF EnvInv
  <2>5. GivenInOrder => Fits(r, TRUE, 0)
    BY <2>1, <2>2, <2>3, FitsHandled DEF EnvInv
  <2> HIDE DEF r
  <2>6. Store(r) /\ Shaped(r)
    BY <2>1, <2>4, HandleNow DEF r, Fits
  <2>7. SpecOf(pod') = SpecOf(r)
    BY <2>6, StoreShaped
  <2>8. Fits(pod', FALSE, 0) /\ Names(pod'.containers) = Names(r.containers)
    BY <1>1, <2>4, <2>7, FitsSpec
  <2>9. GivenInOrder => Fits(pod', TRUE, 0)
    BY <1>1, <2>5, <2>7, FitsSpec
  <2> QED BY <1>1, <1>2, <2>1, <2>4, <2>8, <2>9 DEF EnvInv
<1> QED BY <1>3, <1>4, SpecStays

LEMMA EnvAlways == Spec => [](PodInv /\ EnvInv)
<1>1. PodInv /\ EnvInv /\ [Next]_vars => (PodInv /\ EnvInv)'
  BY PodNext, EnvNext
<1> QED BY <1>1, PodInit, EnvInit, PTL DEF Spec

\* In every container, in every reachable state, for all pods, instances, collectors and
\* clusters: the resource attributes are there at most once and after the variables they
\* refer to, however many languages and the SDK have configured the container
\* (sdk.go:447), if the pod and the sidecar's variables came in that order and no instance
\* sets the attributes for one of the four languages with a template.
THEOREM AlwaysReferencesComeFirst == Spec => []ReferencesComeFirst
<1>1. PodInv /\ EnvInv => ReferencesComeFirst
  <2> SUFFICES ASSUME EnvInv, GivenInOrder, NEW c \in ToSet(pod.containers) PROVE AttributesLast(c.env)
    BY DEF ReferencesComeFirst, GivenInOrder
  <2>1. Fits(pod, TRUE, 0)
    BY DEF EnvInv
  <2>2. PICK k \in DOMAIN pod.containers : c = pod.containers[k]
    BY DEF ToSet
  <2>3. k # 0
    BY <2>1, SeqDomain DEF Fits, Shaped, Named
  <2> QED BY <2>1, <2>2, <2>3 DEF Fits
<1> QED BY <1>1, EnvAlways, PTL

LEMMA CountNext ==
    ASSUME refused \in BOOLEAN, missed \in BOOLEAN, changes \in 0 .. MaxChanges, [Next]_vars
    PROVE  refused' \in BOOLEAN /\ missed' \in BOOLEAN /\ changes' \in 0 .. MaxChanges
<1>1. CASE Create
  BY <1>1 DEF Create
<1>2. CASE CreateWithout
  BY <1>2 DEF CreateWithout
<1>3. CASE Schedule
  BY <1>3 DEF Schedule
<1>4. ASSUME NEW new \in Annotations \cup {pod.ann}, Update(new)
      PROVE  refused' \in BOOLEAN /\ missed' \in BOOLEAN /\ changes' \in 0 .. MaxChanges
  <2>1. changes < MaxChanges /\ changes' = changes + 1 /\ missed' = missed /\ refused' \in BOOLEAN
    BY <1>4 DEF Update, Replace
  <2> QED BY <2>1, BoundAssumption
<1>5. CASE ChangeInputs
  <2>1. changes < MaxChanges /\ changes' = changes + 1 /\ missed' = missed /\ refused' = FALSE
    BY <1>5 DEF ChangeInputs
  <2>2. changes' \in 0 .. MaxChanges
    BY <2>1, BoundAssumption
  <2> QED BY <2>1, <2>2, Zenon
<1>6. CASE UNCHANGED vars
  BY <1>6 DEF vars
<1> QED BY <1>1, <1>2, <1>3, <1>4, <1>5, <1>6 DEF Next

LEMMA PhaseNext ==
    ASSUME phase \in {"submitted", "stored", "rejected"}, [Next]_vars
    PROVE  phase' \in {"submitted", "stored", "rejected"}
BY DEF Next, Create, CreateWithout, Store, Schedule, Update, ChangeInputs, vars

LEMMA TypedFromEnv ==
    ASSUME PodInv, EnvInv, phase \in {"submitted", "stored", "rejected"},
           refused \in BOOLEAN, missed \in BOOLEAN, changes \in 0 .. MaxChanges
    PROVE  TypeOK
<1>1. submitted \in Submissions /\ ns \in Namespaces /\ cl \in Clusters
  BY DEF PodInv, SeenOK
<1>2. Names(pod.containers) \subseteq Names(submitted.containers) \cup {CollectorContainer, sideCarName}
  BY DEF EnvInv
<1>3. \A c \in AllContainers(pod) : \A e \in ToSet(c.env) : e.ref \in BOOLEAN
  <2>1. ASSUME NEW c, ContainerOK(c, FALSE), NEW e \in ToSet(c.env) PROVE e.ref \in BOOLEAN
    <3>1. PICK k \in DOMAIN c.env : e = c.env[k]
      BY <2>1 DEF ToSet
    <3> QED BY <2>1, <3>1 DEF ContainerOK, EnvsOK, EnvOK
  <2>2. \A c \in AllContainers(pod) : ContainerOK(c, FALSE)
    <3>1. Fits(pod, FALSE, 0)
      BY DEF EnvInv
    <3> QED BY <3>1 DEF Fits, AllContainers, ToSet
  <2> QED BY <2>1, <2>2
<1> QED BY <1>1, <1>2, <1>3 DEF TypeOK

\* The pod webhook is type-correct for all pods, instances, collectors and clusters: its
\* phases, the names of the pod's containers, which are those submitted and at most the
\* sidecar's and the Go agent's, the variables of all containers and the bound on changes.
THEOREM PodTypeCorrect == Spec => []TypeOK
<1> DEFINE Count == /\ phase \in {"submitted", "stored", "rejected"}
                    /\ refused \in BOOLEAN /\ missed \in BOOLEAN /\ changes \in 0 .. MaxChanges
<1>1. Init => Count
  <2>1. 0 \in 0 .. MaxChanges
    BY BoundAssumption
  <2> QED BY <2>1, Zenon DEF Init
<1>2. Count /\ [Next]_vars => Count'
  BY CountNext, PhaseNext
<1>3. PodInv /\ EnvInv /\ Count => TypeOK
  BY TypedFromEnv
<1> HIDE DEF Count
<1> QED BY <1>1, <1>2, <1>3, EnvAlways, PTL DEF Spec

=============================================================================
