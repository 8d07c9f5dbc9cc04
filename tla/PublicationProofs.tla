------------------------- MODULE PublicationProofs -------------------------
(***************************************************************************)
(* Proofs about the publishing commands, for any processes, traces,         *)
(* reporters and inputs, and any number of faults.  The writer's part of    *)
(* the invariant is the one AtomicFilesProofs proves, instantiated here.    *)
(***************************************************************************)
EXTENDS Publication, Functions, SequenceTheorems, FiniteSetTheorems, FunctionTheorems,
        TLAPS

WP == INSTANCE AtomicFilesProofs WITH Plans <- Seq(Paths)

----------------------------------------------------------------------------
(* Sequences.                                                               *)

Entries(s) == {s[i] : i \in 1 .. Len(s)}

(* A function on 1 .. n is a sequence of n entries. *)
LEMMA FunctionSeq ==
    ASSUME NEW S, NEW n \in Nat, NEW f \in [1 .. n -> S]
    PROVE  f \in Seq(S) /\ Len(f) = n
<1>1. f \in Seq(S)
  BY SeqDef
<1>2. Len(f) \in Nat /\ DOMAIN f = 1 .. Len(f) /\ DOMAIN f = 1 .. n
  BY <1>1, LenProperties
<1> QED
  BY <1>1, <1>2

(* The entries of a concatenation are those of its parts. *)
LEMMA ConcatEntries ==
    ASSUME NEW S, NEW s \in Seq(S), NEW t \in Seq(S)
    PROVE  s \o t \in Seq(S) /\ Entries(s \o t) = Entries(s) \cup Entries(t)
<1>1. /\ s \o t \in Seq(S) /\ Len(s \o t) = Len(s) + Len(t)
      /\ \A i \in 1 .. Len(s) + Len(t) :
            (s \o t)[i] = IF i <= Len(s) THEN s[i] ELSE t[i - Len(s)]
  BY ConcatProperties
<1>2. Len(s) \in Nat /\ Len(t) \in Nat
  BY LenProperties
<1>3. \A x \in Entries(s \o t) : x \in Entries(s) \cup Entries(t)
  <2> SUFFICES ASSUME NEW i \in 1 .. Len(s) + Len(t)
               PROVE  (s \o t)[i] \in Entries(s) \cup Entries(t)
    BY <1>1 DEF Entries
  <2>1. CASE i <= Len(s)
    BY <1>1, <1>2, <2>1 DEF Entries
  <2>2. CASE i > Len(s)
    <3>1. i - Len(s) \in 1 .. Len(t) /\ (s \o t)[i] = t[i - Len(s)]
      BY <1>1, <1>2, <2>2
    <3> QED
      BY <3>1 DEF Entries
  <2> QED
    BY <1>2, <2>1, <2>2
<1>4. \A x \in Entries(s) : x \in Entries(s \o t)
  <2> SUFFICES ASSUME NEW i \in 1 .. Len(s) PROVE s[i] \in Entries(s \o t)
    BY DEF Entries
  <2>1. i \in 1 .. Len(s \o t) /\ (s \o t)[i] = s[i]
    BY <1>1, <1>2
  <2> QED
    BY <2>1 DEF Entries
<1>5. \A x \in Entries(t) : x \in Entries(s \o t)
  <2> SUFFICES ASSUME NEW i \in 1 .. Len(t) PROVE t[i] \in Entries(s \o t)
    BY DEF Entries
  <2>1. /\ Len(s) + i \in 1 .. Len(s) + Len(t)
        /\ (Len(s) + i) - Len(s) = i
        /\ ~(Len(s) + i <= Len(s))
    BY <1>2
  <2>2. Len(s) + i \in 1 .. Len(s \o t) /\ (s \o t)[Len(s) + i] = t[i]
    BY <1>1, <2>1
  <2> QED
    BY <2>2 DEF Entries
<1> QED
  BY <1>1, <1>3, <1>4, <1>5

(* SetToSeq enumerates a finite set. *)
LEMMA SetToSeqEntries ==
    ASSUME NEW S, IsFiniteSet(S)
    PROVE  SetToSeq(S) \in Seq(S) /\ Entries(SetToSeq(S)) = S
<1> DEFINE n == Cardinality(S)
           f == SetToSeq(S)
<1>1. n \in Nat /\ ExistsBijection(1 .. n, S)
  BY FS_CardinalityType
<1>2. PICK g \in Bijection(1 .. n, S) : TRUE
  BY <1>1 DEF ExistsBijection
<1>3. g \in [1 .. n -> S] /\ \A a, b \in 1 .. n : g[a] = g[b] => a = b
  BY <1>2, Fun_BijectionProperties
<1>a. \E h \in [1 .. n -> S] : IsInjective(h)
  BY <1>3 DEF IsInjective
<1>b. f \in [1 .. n -> S] /\ IsInjective(f)
  BY <1>a DEF SetToSeq
<1>4. f \in [1 .. n -> S] /\ \A a, b \in 1 .. n : f[a] = f[b] => a = b
  BY <1>b DEF IsInjective
<1> HIDE DEF n, f
<1>5. f \in Injection(1 .. n, S)
  BY <1>4, Fun_IsInj
<1>6. Cardinality(1 .. n) = n /\ IsFiniteSet(1 .. n)
  <2>1. 1 \in Int /\ n \in Int /\ n - 1 + 1 = n /\ (1 > n => n = 0)
    BY <1>1
  <2> QED
    BY <2>1, FS_Interval
<1>7. f \in Surjection(1 .. n, S)
  BY <1>5, <1>6, FS_Injection DEF n
<1>8. \A x \in S : \E i \in 1 .. n : f[i] = x
  BY <1>7 DEF Surjection
<1>9. f \in Seq(S) /\ Len(f) = n
  BY <1>1, <1>4, FunctionSeq
<1> QED
  BY <1>4, <1>8, <1>9 DEF Entries, f

----------------------------------------------------------------------------
(* What a command publishes.                                                *)

(* An artifact of a plan: where it goes is all that matters here. *)
Artifacts == [kind : Plan!ArtifactKinds, path : Paths]

(* The fixed paths. *)
LEMMA FixedPaths ==
    /\ Plan!SingleKinds = {"analysis", "run", "endpoint_catalogue", "contract_report",
                           "trace_manifest", "policy_results", "offline_graph",
                           "control_evidence_json", "control_evidence_csv",
                           "openapi_enriched", "openapi_sidecar"}
    /\ Plan!BundlePath = "bundle"
    /\ ReportPaths \subseteq Paths /\ Traces \subseteq Paths
    /\ Plan!SingleKinds \subseteq ReportPaths /\ "bundle" \in ReportPaths
<1>1. Plan!SingleKinds = UNION {Plan!RequiredKinds["analysis"], Plan!RequiredKinds["markdown"],
         Plan!RequiredKinds["policy"], Plan!RequiredKinds["graph"],
         Plan!RequiredKinds["controls"], Plan!RequiredKinds["openapi"]}
  BY DEF Plan!SingleKinds, Plan!Reporters
<1>2. Plan!SingleKinds = {"analysis", "run", "endpoint_catalogue", "contract_report",
                      "trace_manifest", "policy_results", "offline_graph",
                      "control_evidence_json", "control_evidence_csv",
                      "openapi_enriched", "openapi_sidecar"}
  BY <1>1 DEF Plan!RequiredKinds
<1> QED
  BY <1>2 DEF ReportPaths, Paths, Plan!BundlePath

(* A sequence of artifacts with the paths of S. *)
Collects(artifacts, S) ==
    /\ artifacts \in Seq(Artifacts)
    /\ {a.path : a \in Entries(artifacts)} = S

(* The artifacts collected one after the other. *)
LEMMA CollectsBoth ==
    ASSUME NEW a, NEW b, NEW S, NEW T, Collects(a, S), Collects(b, T)
    PROVE  Collects(a \o b, S \cup T)
<1>1. a \o b \in Seq(Artifacts) /\ Entries(a \o b) = Entries(a) \cup Entries(b)
  BY ConcatEntries DEF Collects
<1> QED
  BY <1>1 DEF Collects

(* Artifacts at fixed paths. *)
LEMMA CollectsFixed ==
    ASSUME NEW k \in Plan!SingleKinds, NEW l \in Plan!SingleKinds, NEW m \in Plan!SingleKinds
    PROVE  /\ Collects(<<>>, {})
           /\ Collects(<<Plan!Single(k)>>, {k})
           /\ Collects(<<Plan!Single(k), Plan!Single(l)>>, {k, l})
           /\ Collects(<<Plan!Single(k), Plan!Single(l), Plan!Single(m)>>, {k, l, m})
<1> DEFINE a == Plan!Single(k)
           b == Plan!Single(l)
           c == Plan!Single(m)
<1>1. /\ a \in Artifacts /\ a.path = k
      /\ b \in Artifacts /\ b.path = l
      /\ c \in Artifacts /\ c.path = m
  BY FixedPaths DEF Plan!Single, Plan!Artifact, Plan!ArtifactKinds, Artifacts
<1> HIDE DEF a, b, c
<1>2. Entries(<<a>>) = {a} /\ <<a>> \in Seq(Artifacts)
  BY <1>1 DEF Entries
<1>3. Entries(<<a, b>>) = {a, b} /\ <<a, b>> \in Seq(Artifacts)
  BY <1>1 DEF Entries
<1>4. Entries(<<a, b, c>>) = {a, b, c} /\ <<a, b, c>> \in Seq(Artifacts)
  BY <1>1 DEF Entries
<1>5. Entries(<<>>) = {} /\ <<>> \in Seq(Artifacts)
  BY DEF Entries
<1>6. Collects(<<a>>, {k}) /\ Collects(<<>>, {})
  BY <1>1, <1>2, <1>5 DEF Collects
<1>7. Collects(<<a, b>>, {k, l}) /\ Collects(<<a, b, c>>, {k, l, m})
  BY <1>1, <1>3, <1>4 DEF Collects
<1> QED
  BY <1>6, <1>7 DEF a, b, c

(* Plans with the entries of S. *)
Lists(files, S) ==
    /\ files \in Seq(Paths)
    /\ Entries(files) = S

(* The paths of the artifacts collected, in the same order. *)
LEMMA PathsOfCollected ==
    ASSUME NEW a, NEW S, Collects(a, S)
    PROVE  /\ Lists(Plan!PathsOf(a), S)
           /\ Len(Plan!PathsOf(a)) = Len(a)
<1>1. Len(a) \in Nat /\ a \in Seq(Artifacts) /\ \A i \in 1 .. Len(a) : a[i] \in Artifacts
  BY LenProperties, ElementOfSeq DEF Collects
<1>2. Plan!PathsOf(a) \in [1 .. Len(a) -> Paths]
  BY <1>1 DEF Plan!PathsOf, Artifacts
<1>3. Plan!PathsOf(a) \in Seq(Paths) /\ Len(Plan!PathsOf(a)) = Len(a)
  BY <1>1, <1>2, FunctionSeq
<1>4. \A i \in 1 .. Len(a) : Plan!PathsOf(a)[i] = a[i].path
  BY DEF Plan!PathsOf
<1>5. Entries(Plan!PathsOf(a)) = {x.path : x \in Entries(a)}
  BY <1>3, <1>4 DEF Entries
<1> QED
  BY <1>3, <1>5 DEF Lists, Collects

(* The artifacts of the analysis. *)
LEMMA AnalysisCollected ==
    ASSUME NEW traces \in Seq(Traces)
    PROVE  Collects(Plan!AnalysisArtifacts(traces),
                    {"endpoint_catalogue", "contract_report", "trace_manifest", "run",
                     "analysis"} \cup Entries(traces))
<1> DEFINE m == [i \in 1 .. Len(traces) |-> Plan!Artifact("endpoint_trace", traces[i])]
<1>1. Len(traces) \in Nat /\ \A i \in 1 .. Len(traces) : traces[i] \in Traces
  BY LenProperties, ElementOfSeq
<1>2. m \in [1 .. Len(traces) -> Artifacts]
  BY <1>1, FixedPaths DEF Plan!Artifact, Plan!ArtifactKinds, Artifacts
<1>3. m \in Seq(Artifacts) /\ Len(m) = Len(traces)
  BY <1>1, <1>2, FunctionSeq
<1>4. \A i \in 1 .. Len(traces) : m[i].path = traces[i]
  BY DEF Plan!Artifact
<1>5. Collects(m, Entries(traces))
  BY <1>3, <1>4 DEF Collects, Entries
<1> HIDE DEF m
<1>6. /\ Collects(<<Plan!Single("endpoint_catalogue"), Plan!Single("contract_report")>>,
                  {"endpoint_catalogue", "contract_report"})
      /\ Collects(<<Plan!Single("trace_manifest"), Plan!Single("run"),
                    Plan!Single("analysis")>>, {"trace_manifest", "run", "analysis"})
  <2>1. {"endpoint_catalogue", "contract_report", "trace_manifest", "run", "analysis"}
           \subseteq Plan!SingleKinds
    BY FixedPaths
  <2>2. Collects(<<Plan!Single("endpoint_catalogue"), Plan!Single("contract_report")>>,
                  {"endpoint_catalogue", "contract_report"})
    BY <2>1, CollectsFixed
  <2>3. Collects(<<Plan!Single("trace_manifest"), Plan!Single("run"),
                    Plan!Single("analysis")>>, {"trace_manifest", "run", "analysis"})
    BY <2>1, CollectsFixed
  <2> QED
    BY <2>2, <2>3
<1>7. Collects(Plan!AnalysisArtifacts(traces),
         ({"endpoint_catalogue", "contract_report"} \cup Entries(traces))
            \cup {"trace_manifest", "run", "analysis"})
  BY <1>5, <1>6, CollectsBoth DEF Plan!AnalysisArtifacts, m
<1>8. ({"endpoint_catalogue", "contract_report"} \cup Entries(traces))
            \cup {"trace_manifest", "run", "analysis"}
      = {"endpoint_catalogue", "contract_report", "trace_manifest", "run", "analysis"}
            \cup Entries(traces)
  OBVIOUS
<1> QED
  BY <1>7, <1>8

(* The artifacts of an optional reporter, when it was asked for. *)
LEMMA RequestedCollected ==
    ASSUME NEW optional, NEW r \in {"policy", "graph", "controls", "openapi"}
    PROVE  \E S \in SUBSET Plan!SingleKinds : Collects(Plan!Requested(r, optional), S)
<1>1. CASE r \notin optional
  BY <1>1, CollectsFixed, FixedPaths DEF Plan!Requested
<1>2. CASE r = "policy" /\ r \in optional
  BY <1>2, CollectsFixed, FixedPaths DEF Plan!Requested, Plan!OptionalArtifacts
<1>3. CASE r = "graph" /\ r \in optional
  BY <1>3, CollectsFixed, FixedPaths DEF Plan!Requested, Plan!OptionalArtifacts
<1>4. CASE r = "controls" /\ r \in optional
  <2>1. {"control_evidence_json", "control_evidence_csv"} \subseteq Plan!SingleKinds
    BY FixedPaths
  <2>2. Collects(<<Plan!Single("control_evidence_json"), Plan!Single("control_evidence_csv")>>,
                 {"control_evidence_json", "control_evidence_csv"})
    BY <2>1, CollectsFixed
  <2>3. Plan!Requested(r, optional) = <<Plan!Single("control_evidence_json"), Plan!Single("control_evidence_csv")>>
    BY <1>4 DEF Plan!Requested, Plan!OptionalArtifacts
  <2> QED
    BY <2>1, <2>2, <2>3
<1>5. CASE r = "openapi" /\ r \in optional
  <2>1. {"openapi_enriched", "openapi_sidecar"} \subseteq Plan!SingleKinds
    BY FixedPaths
  <2>2. Collects(<<Plan!Single("openapi_enriched"), Plan!Single("openapi_sidecar")>>,
                 {"openapi_enriched", "openapi_sidecar"})
    BY <2>1, CollectsFixed
  <2>3. Plan!Requested(r, optional) = <<Plan!Single("openapi_enriched"), Plan!Single("openapi_sidecar")>>
    BY <1>5 DEF Plan!Requested, Plan!OptionalArtifacts
  <2> QED
    BY <2>1, <2>2, <2>3
<1> QED
  BY <1>1, <1>2, <1>3, <1>4, <1>5

(* A scan publishes the required artifacts, its traces and what was asked for. *)
LEMMA ScanCollected ==
    ASSUME NEW traces \in Seq(Traces), NEW optional
    PROVE  \E S \in SUBSET Plan!SingleKinds :
              /\ Collects(Plan!ScanArtifacts(traces, optional), S \cup Entries(traces))
              /\ "trace_manifest" \in S
<1> DEFINE R == {"endpoint_catalogue", "contract_report", "trace_manifest", "run", "analysis"}
<1>1. Collects(Plan!AnalysisArtifacts(traces), R \cup Entries(traces))
  BY AnalysisCollected
<1>2. PICK P \in SUBSET Plan!SingleKinds : Collects(Plan!Requested("policy", optional), P)
  BY RequestedCollected
<1>3. PICK G \in SUBSET Plan!SingleKinds : Collects(Plan!Requested("graph", optional), G)
  BY RequestedCollected
<1>4. PICK C \in SUBSET Plan!SingleKinds : Collects(Plan!Requested("controls", optional), C)
  BY RequestedCollected
<1>5. PICK O \in SUBSET Plan!SingleKinds : Collects(Plan!Requested("openapi", optional), O)
  BY RequestedCollected
<1> DEFINE T == ((((R \cup Entries(traces)) \cup P) \cup G) \cup C) \cup O
           S == R \cup P \cup G \cup C \cup O
<1>6. T = S \cup Entries(traces) /\ "trace_manifest" \in S
  OBVIOUS
<1>7. S \in SUBSET Plan!SingleKinds
  BY FixedPaths
<1> HIDE DEF R
<1>8. Collects(Plan!ScanArtifacts(traces, optional), T)
  BY <1>1, <1>2, <1>3, <1>4, <1>5, CollectsBoth DEF Plan!ScanArtifacts
<1> HIDE DEF S, T
<1> QED
  BY <1>6, <1>7, <1>8

(* A plan for which the commit marker comes last: it lists the artifacts before
   it, and is not empty. *)
LEMMA ScanPaths ==
    ASSUME NEW a, NEW S, Collects(a, S)
    PROVE  LET files == Plan!PublicationPaths(a) IN
           /\ Lists(files, S \cup {"bundle"})
           /\ Len(files) = Len(a) + 1 /\ files[Len(files)] = "bundle"
           /\ \A i \in 1 .. Len(a) : files[i] = a[i].path
<1> DEFINE s == Plan!PathsOf(a)
           files == Append(s, "bundle")
<1>1. Len(a) \in Nat /\ s \in Seq(Paths) /\ Len(s) = Len(a) /\ Entries(s) = S
  BY PathsOfCollected, LenProperties DEF Lists, Collects
<1>2. \A i \in 1 .. Len(a) : s[i] = a[i].path
  <2>1. DOMAIN a = 1 .. Len(a)
    BY LenProperties DEF Collects
  <2> QED
    BY <2>1 DEF Plan!PathsOf
<1>3. "bundle" \in Paths /\ files = Plan!PublicationPaths(a)
  BY FixedPaths DEF Plan!PublicationPaths
<1> HIDE DEF s
<1>4. /\ files \in Seq(Paths) /\ Len(files) = Len(a) + 1 /\ files[Len(files)] = "bundle"
      /\ \A i \in 1 .. Len(a) : files[i] = s[i]
  BY <1>1, <1>3
<1> HIDE DEF files
<1>5. Entries(files) = S \cup {"bundle"}
  <2>1. \A i \in 1 .. Len(a) + 1 : i \in 1 .. Len(a) \/ i = Len(files)
    BY <1>1, <1>4
  <2>2. \A i \in 1 .. Len(a) : i \in 1 .. Len(files)
    BY <1>1, <1>4
  <2>3. Len(files) \in 1 .. Len(files)
    BY <1>1, <1>4
  <2> QED
    BY <1>1, <1>4, <2>1, <2>2, <2>3 DEF Entries
<1> QED
  BY <1>2, <1>3, <1>4, <1>5 DEF Lists

(* The command of p, once begun, with the values a command has. *)
CommandRecord ==
    [ phase    : {"idle", "begun", "prepared", "writing", "removing", "exited", "dead"},
      kind     : {"scan", "report", "export", "none"},
      selected : Selections \cup {{}},
      optional : Recipes \cup {{}},
      input    : Inputs \cup {Absent},
      stale    : SUBSET Traces,
      removing : SUBSET Traces,
      rmFailed : BOOLEAN,
      exit     : {"none", "success", "error", "canceled"} ]

(* The traces of a command as a sequence. *)
LEMMA TraceSeqEntries ==
    ASSUME NEW p \in Procs, cmd[p] \in CommandRecord
    PROVE  /\ TraceSeq(p) \in Seq(Traces)
           /\ Entries(TraceSeq(p)) = cmd[p].selected
<1>1. cmd[p].selected \in SUBSET Traces /\ IsFiniteSet(cmd[p].selected)
  BY CommandAssumption, SelectionsAssumption, FS_EmptySet DEF CommandRecord
<1>2. /\ TraceSeq(p) \in Seq(cmd[p].selected)
      /\ Entries(TraceSeq(p)) = cmd[p].selected
  BY <1>1, SetToSeqEntries DEF TraceSeq
<1> QED
  BY <1>1, <1>2, SeqMonotonic

(* What the plan of a command lists: fixed paths and its traces, the trace
   manifest unless it is an export, of an export the graph alone, and the
   bundle manifest only in a scan. *)
LEMMA CommandPlanLists ==
    ASSUME NEW p \in Procs, cmd[p] \in CommandRecord, cmd[p].kind # "none"
    PROVE  /\ CommandPlan(p) # <<>>
           /\ cmd[p].kind # "export" =>
                 \E S \in SUBSET ReportPaths :
                    /\ Lists(CommandPlan(p), S \cup cmd[p].selected)
                    /\ "trace_manifest" \in S
                    /\ cmd[p].kind # "scan" => "bundle" \notin S
           /\ cmd[p].kind = "export" => Lists(CommandPlan(p), {"offline_graph"})
<1>1. TraceSeq(p) \in Seq(Traces) /\ Entries(TraceSeq(p)) = cmd[p].selected
  BY TraceSeqEntries
<1>2. CASE cmd[p].kind = "scan"
  <2>1. PICK S \in SUBSET Plan!SingleKinds :
           /\ Collects(Plan!ScanArtifacts(TraceSeq(p), cmd[p].optional),
                       S \cup cmd[p].selected)
           /\ "trace_manifest" \in S
    BY <1>1, ScanCollected
  <2> DEFINE a == Plan!ScanArtifacts(TraceSeq(p), cmd[p].optional)
  <2>2. CommandPlan(p) = Plan!PublicationPaths(a)
    BY <1>2 DEF CommandPlan, ScanPlan
  <2> HIDE DEF a
  <2>3. /\ Lists(Plan!PublicationPaths(a), (S \cup cmd[p].selected) \cup {"bundle"})
        /\ Len(Plan!PublicationPaths(a)) = Len(a) + 1
    BY <2>1, ScanPaths DEF a
  <2>4. Len(a) \in Nat
    BY <2>1, LenProperties DEF a, Collects
  <2>5. Plan!PublicationPaths(a) # <<>>
    BY <2>3, <2>4, EmptySeq
  <2>6. S \cup {"bundle"} \in SUBSET ReportPaths
        /\ (S \cup cmd[p].selected) \cup {"bundle"} = (S \cup {"bundle"}) \cup cmd[p].selected
    BY FixedPaths
  <2> QED
    BY <1>2, <2>1, <2>2, <2>3, <2>5, <2>6
<1>3. CASE cmd[p].kind = "report"
  <2> DEFINE h == <<"endpoint_catalogue", "contract_report">>
             t == <<"trace_manifest">>
             S == {"endpoint_catalogue", "contract_report", "trace_manifest"}
  <2>1. S \in SUBSET ReportPaths /\ S \subseteq Paths /\ Traces \subseteq Paths
    BY FixedPaths
  <2>2. h \in Seq(Paths) /\ Entries(h) = {"endpoint_catalogue", "contract_report"}
        /\ t \in Seq(Paths) /\ Entries(t) = {"trace_manifest"}
    BY <2>1 DEF Entries
  <2>3. TraceSeq(p) \in Seq(Paths)
    BY <1>1, <2>1, SeqMonotonic
  <2>4. CommandPlan(p) = (h \o TraceSeq(p)) \o t
    BY <1>3 DEF CommandPlan, ReportPlan
  <2> HIDE DEF h, t
  <2>5. h \o TraceSeq(p) \in Seq(Paths)
        /\ Entries(h \o TraceSeq(p)) = Entries(h) \cup cmd[p].selected
    BY <1>1, <2>2, <2>3, ConcatEntries
  <2> DEFINE c == h \o TraceSeq(p)
  <2> HIDE DEF c
  <2>a. c \in Seq(Paths) /\ t \in Seq(Paths)
    BY <2>2, <2>5 DEF c
  <2>b. c \o t \in Seq(Paths) /\ Entries(c \o t) = Entries(c) \cup Entries(t)
    BY <2>a, ConcatEntries
  <2>6. CommandPlan(p) \in Seq(Paths)
        /\ Entries(CommandPlan(p)) = S \cup cmd[p].selected
    BY <2>2, <2>4, <2>5, <2>b DEF c
  <2>7. CommandPlan(p) # <<>>
    <3>1. Entries(<<>>) = {}
      BY DEF Entries
    <3> QED
      BY <2>6, <3>1
  <2> QED
    BY <1>3, <2>1, <2>6, <2>7 DEF Lists
<1>4. CASE cmd[p].kind = "export"
  <2>1. CommandPlan(p) = <<"offline_graph">> /\ CommandPlan(p) = ExportPlan
    BY <1>4 DEF CommandPlan, ExportPlan
  <2>2. "offline_graph" \in Paths
    BY FixedPaths
  <2>3. Lists(CommandPlan(p), {"offline_graph"}) /\ CommandPlan(p) # <<>>
    BY <2>1, <2>2 DEF Lists, Entries
  <2> QED
    BY <1>4, <2>3
<1> QED
  BY <1>2, <1>3, <1>4 DEF CommandRecord

(* An accepted scan plan: its marker goes last, and neither the marker nor an
   artifact takes the place of the input. *)
LEMMA AcceptedScan ==
    ASSUME NEW p \in Procs, cmd[p] \in CommandRecord, cmd[p].kind = "scan", PlanAccepted(p)
    PROVE  /\ CommandPlan(p)[Len(CommandPlan(p))] = "bundle"
           /\ \A i \in 1 .. Len(CommandPlan(p)) : CommandPlan(p)[i] \notin Protected(p)
           /\ \A i \in 1 .. Len(CommandPlan(p)) :
                 CommandPlan(p)[i] = "bundle" => i = Len(CommandPlan(p))
<1> DEFINE a == Plan!ScanArtifacts(TraceSeq(p), cmd[p].optional)
           files == CommandPlan(p)
<1>1. TraceSeq(p) \in Seq(Traces)
  BY TraceSeqEntries
<1>2. PICK S : Collects(a, S)
  BY <1>1, ScanCollected
<1>3. files = Plan!PublicationPaths(a)
  BY DEF CommandPlan, ScanPlan
<1>4. Len(a) \in Nat /\ DOMAIN a = 1 .. Len(a)
  BY <1>2, LenProperties DEF Collects
<1>5. /\ "bundle" \notin Protected(p)
      /\ \A i \in 1 .. Len(a) : a[i].path \notin Protected(p) \cup {"bundle"}
  BY <1>4 DEF PlanAccepted, Plan!Collides, Plan!BundlePath
<1> HIDE DEF a
<1>6. /\ Len(files) = Len(a) + 1 /\ files[Len(files)] = "bundle"
      /\ \A i \in 1 .. Len(a) : files[i] = a[i].path
  BY <1>2, <1>3, ScanPaths
<1> HIDE DEF files
<1>7. \A i \in 1 .. Len(files) : i \in 1 .. Len(a) \/ i = Len(files)
  BY <1>4, <1>6
<1>8. \A i \in 1 .. Len(files) : files[i] \notin Protected(p)
  BY <1>5, <1>6, <1>7
<1>9. \A i \in 1 .. Len(files) : files[i] = "bundle" => i = Len(files)
  BY <1>5, <1>6, <1>7
<1> QED
  BY <1>6, <1>8, <1>9 DEF files

(* The plan, its acceptance and the input depend on nothing else of a command. *)
LEMMA SameCommand ==
    ASSUME NEW p \in Procs,
           cmd'[p].kind = cmd[p].kind, cmd'[p].selected = cmd[p].selected,
           cmd'[p].optional = cmd[p].optional, cmd'[p].input = cmd[p].input
    PROVE  /\ CommandPlan(p)' = CommandPlan(p)
           /\ PlanAccepted(p)' = PlanAccepted(p)
           /\ Protected(p)' = Protected(p)
BY DEF CommandPlan, ScanPlan, ReportPlan, TraceSeq, PlanAccepted, Protected

----------------------------------------------------------------------------
(* The inductive invariant.                                                 *)

CommandType ==
    /\ cmd \in [Procs -> CommandRecord]
    /\ before \in [Paths -> W!AllContents]
    /\ faults \in Nat
    /\ latest \in SUBSET Procs

(* Where the call of p is in each phase of its command. *)
PhaseInv(p) ==
    /\ cmd[p].phase \in {"idle", "begun", "prepared"} => call[p].pc = "idle"
    /\ cmd[p].phase = "writing" =>
          call[p].pc \in {"staging", "writing", "committing", "cleaning", "returned", "threw"}
    /\ cmd[p].phase = "removing" => call[p].pc = "returned"
    /\ cmd[p].phase = "exited" => call[p].pc \in {"idle", "threw", "returned"}
    /\ cmd[p].phase = "dead" => call[p].pc = "dead"

(* What the command of p has read, and what it still removes. *)
CommandInv(p) ==
    /\ cmd[p].phase # "idle" => cmd[p].kind # "none"
    /\ cmd[p].kind # "scan" => cmd[p].input = Absent
    /\ cmd[p].phase \in {"idle", "begun"} => cmd[p].stale = {}
    /\ cmd[p].stale \cap cmd[p].selected = {}
    /\ cmd[p].removing \subseteq cmd[p].stale
    /\ (\/ cmd[p].phase \in {"idle", "begun", "prepared", "writing"}
        \/ cmd[p].phase = "exited" /\ call[p].pc # "returned")
          => cmd[p].removing = {} /\ ~cmd[p].rmFailed
    /\ cmd[p].exit = "success" =>
          /\ cmd[p].phase = "exited" /\ call[p].pc = "returned"
          /\ cmd[p].removing = {} /\ ~cmd[p].rmFailed

(* The batch the writer was given is the accepted plan of the command. *)
PlanInv(p) ==
    /\ call[p].pc = "idle" => call[p].files = <<>>
    /\ call[p].pc \notin {"idle", "dead"} => call[p].files # <<>>
    /\ call[p].files # <<>> => call[p].files = CommandPlan(p) /\ PlanAccepted(p)

(* Without a fault no command has been killed or met an I/O error. *)
FaultInv(p) ==
    faults = 0 =>
        /\ call[p].pc # "dead" /\ call[p].error # "io" /\ ~call[p].rmFailed
        /\ ~cmd[p].rmFailed

ProcInv(p) == PhaseInv(p) /\ CommandInv(p) /\ PlanInv(p) /\ FaultInv(p)

(* What is on disk while p is the command started last: the files it renamed,
   nothing of its own before that, and of the traces it is to remove at most
   those whose removal has not settled. *)
StandsInv(p) ==
    /\ \A i \in 1 .. call[p].renamed : disk[call[p].files[i]] = W!Content(p, i)
    /\ call[p].renamed = 0 => disk = before
    /\ (/\ cmd[p].phase \in {"removing", "exited"} /\ call[p].pc = "returned"
        /\ ~cmd[p].rmFailed)
          => TracesOnDisk \cap cmd[p].stale \subseteq cmd[p].removing

(* Without a fault, the trace manifest tracks every trace on disk, except
   between the first rename of a command and its exit. *)
TrackedInv(p) ==
    faults = 0 =>
        /\ (call[p].renamed = 0 \/ cmd[p].phase = "exited" \/ cmd[p].kind = "export")
              => TracesOnDisk \subseteq Tracked(disk["trace_manifest"])
        /\ (cmd[p].phase \in {"prepared", "writing", "removing"} /\ cmd[p].kind # "export")
              => TracesOnDisk \subseteq cmd[p].selected \cup cmd[p].stale
        /\ (cmd[p].exit = "success" /\ cmd[p].kind # "export")
              => TracesOnDisk \subseteq cmd[p].selected

(* One command at a time: only the one started last may be alive. *)
TurnInv ==
    /\ latest = {} \/ \E p \in Procs : latest = {p}
    /\ \A p \in Procs : Alive(p) => latest = {p}
    /\ \A p \in latest : cmd[p].phase # "idle"
    /\ latest = {} => TracesOnDisk = {}

IInv ==
    /\ WP!WriterInv
    /\ CommandType
    /\ \A p \in Procs : ProcInv(p)
    /\ TurnInv
    /\ \A p \in latest : StandsInv(p) /\ TrackedInv(p)

----------------------------------------------------------------------------
(* How a step of one command changes the state.                             *)

(* A step of p, the command started last, leaves the others alone: what has to
   be shown of it. *)
LEMMA Frame ==
    ASSUME IInv, NEW p \in Procs, latest = {p}, latest' = latest,
           WP!WriterInv', CommandType',
           \A q \in Procs \ {p} : cmd'[q] = cmd[q] /\ call'[q] = call[q],
           faults' = 0 => faults = 0,
           cmd'[p].phase # "idle",
           ProcInv(p)', StandsInv(p)', TrackedInv(p)'
    PROVE  IInv'
<1>1. ASSUME NEW q \in Procs \ {p} PROVE ProcInv(q)'
  <2>1. cmd'[q] = cmd[q] /\ call'[q] = call[q] /\ ProcInv(q)
    BY DEF IInv
  <2>2. CommandPlan(q)' = CommandPlan(q) /\ PlanAccepted(q)' = PlanAccepted(q)
    BY <2>1, SameCommand
  <2>3. PhaseInv(q)' /\ CommandInv(q)'
    BY <2>1 DEF ProcInv, PhaseInv, CommandInv
  <2>4. PlanInv(q)'
    BY <2>1, <2>2 DEF ProcInv, PlanInv
  <2>5. FaultInv(q)'
    BY <2>1 DEF ProcInv, FaultInv
  <2> QED
    BY <2>3, <2>4, <2>5 DEF ProcInv
<1>2. TurnInv'
  <2>1. \A q \in Procs : Alive(q)' => q = p
    BY DEF Alive, Active, IInv, TurnInv
  <2> QED
    BY <2>1 DEF TurnInv
<1> QED
  BY <1>1, <1>2 DEF IInv

(* What is known of the command and the call of p before a step. *)
LEMMA Known ==
    ASSUME IInv, NEW p \in Procs
    PROVE  /\ cmd[p] \in CommandRecord /\ ProcInv(p)
           /\ call[p] \in WP!CallRecord
           /\ WP!CallInv(call[p], temps[p])
           /\ call[p].renamed \in Nat
           /\ call[p].pc = "idle" => call[p].renamed = 0
           /\ Alive(p) => latest = {p} /\ StandsInv(p) /\ TrackedInv(p)
<1>1. call[p] \in WP!CallRecord /\ WP!CallInv(call[p], temps[p])
  BY DEF IInv, WP!WriterInv, WP!TypeOK
<1>2. call[p].renamed \in Nat /\ (call[p].pc = "idle" => call[p].renamed = 0)
  BY <1>1 DEF WP!CallRecord, WP!CallInv, WP!TempsInv
<1>3. Alive(p) => latest = {p}
  BY DEF IInv, TurnInv
<1> QED
  BY <1>1, <1>2, <1>3 DEF IInv, CommandType

(* The two instances of the writer agree on what is on disk. *)
LEMMA SameContent ==
    /\ \A p, i : W!Content(p, i) = <<p, i>> /\ WP!Content(p, i) = <<p, i>>
    /\ W!AllContents = WP!AllContents
    /\ \A p : W!PublishedBy(p) = WP!PublishedBy(p)
BY DEF W!Content, WP!Content, W!AllContents, WP!AllContents, W!PublishedBy, WP!PublishedBy

(* A file with p's contents is one that p renamed there. *)
LEMMA OnDisk ==
    ASSUME IInv, NEW p \in Procs, NEW f \in Paths, disk[f] \in {p} \X Nat
    PROVE  \E i \in 1 .. call[p].renamed : disk[f] = <<p, i>> /\ call[p].files[i] = f
<1>1. f \in WP!PublishedBy(p)
  BY DEF WP!PublishedBy
<1>2. \E i \in 1 .. call[p].renamed :
         disk[f] = WP!Content(p, i) /\ call[p].files[i] = f
  BY <1>1, MarkersAssumption, WP!OnDisk DEF IInv
<1> QED
  BY <1>2, SameContent

(* The manifest on disk tracks the same traces after a step of p that changes
   nothing p published. *)
LEMMA SameTracked ==
    ASSUME IInv, NEW p \in Procs,
           \A q \in Procs \ {p} : cmd'[q] = cmd[q],
           disk'["trace_manifest"] = disk["trace_manifest"],
           \/ call[p].renamed = 0
           \/ /\ cmd'[p].kind = cmd[p].kind /\ cmd'[p].selected = cmd[p].selected
              /\ cmd'[p].stale = cmd[p].stale
    PROVE  Tracked(disk["trace_manifest"])' = Tracked(disk["trace_manifest"])
<1> DEFINE d == disk["trace_manifest"]
<1>1. "trace_manifest" \in Paths
  BY FixedPaths
<1>2. CASE d \notin Procs \X Nat
  BY <1>2 DEF Tracked
<1>3. CASE d \in Procs \X Nat
  <2>1. PICK q \in Procs, n \in Nat : d = <<q, n>>
    BY <1>3
  <2>2. d[1] = q
    BY <2>1
  <2>3. /\ cmd'[q].kind = cmd[q].kind /\ cmd'[q].selected = cmd[q].selected
        /\ cmd'[q].stale = cmd[q].stale
    <3>1. CASE q # p
      BY <3>1
    <3>2. CASE q = p /\ call[p].renamed = 0
      <4>0. disk["trace_manifest"] \in {p} \X Nat
        BY <2>1, <3>2
      <4>1. \E i \in 1 .. call[p].renamed : TRUE
        BY <1>1, <4>0, OnDisk
      <4> QED
        BY <3>2, <4>1
    <3> QED
      BY <3>1, <3>2
  <2> QED
    BY <1>3, <2>2, <2>3 DEF Tracked
<1> QED
  BY <1>2, <1>3

(* A step of the command started last that leaves the writer and the disk
   alone: what has to be shown of it. *)
LEMMA CommandStep ==
    ASSUME IInv, NEW p \in Procs, latest = {p}, NEW m \in CommandRecord,
           cmd' = [cmd EXCEPT ![p] = m],
           UNCHANGED <<disk, temps, call, latest, before>>,
           faults' \in Nat, faults' = 0 => faults = 0,
           m.phase # "idle",
           m.kind = cmd[p].kind, m.selected = cmd[p].selected,
           m.optional = cmd[p].optional, m.input = cmd[p].input,
           PhaseInv(p)', CommandInv(p)', FaultInv(p)', TrackedInv(p)',
           (/\ m.phase \in {"removing", "exited"} /\ call[p].pc = "returned"
            /\ ~m.rmFailed)
             => TracesOnDisk \cap m.stale \subseteq m.removing
    PROVE  IInv'
<1>1. cmd'[p] = m /\ \A q \in Procs \ {p} : cmd'[q] = cmd[q]
  BY DEF IInv, CommandType
<1>2. WP!WriterInv'
  BY DEF IInv, WP!WriterInv, WP!TypeOK, WP!DiskInv, WP!Prepared, WP!Content
<1>3. CommandType'
  BY DEF IInv, CommandType
<1>4. PlanInv(p)'
  <2>1. CommandPlan(p)' = CommandPlan(p) /\ PlanAccepted(p)' = PlanAccepted(p)
    BY <1>1, SameCommand
  <2> QED
    BY <2>1, Known DEF PlanInv, ProcInv
<1>5. ProcInv(p)'
  BY <1>4 DEF ProcInv
<1>6. StandsInv(p)'
  BY <1>1 DEF IInv, StandsInv, TracesOnDisk, W!Content
<1> QED
  BY <1>1, <1>2, <1>3, <1>5, <1>6, Frame

----------------------------------------------------------------------------
(* Each action preserves the invariant.                                     *)

(* A command that ends on an error has renamed nothing, or a fault happened. *)
LEMMA ExitOnErrorStep ==
    ASSUME IInv, NEW p \in Procs, Active(p), ExitOnError(p),
           UNCHANGED <<writer, latest, before, faults>>,
           \/ cmd[p].phase \in {"begun", "prepared"}
           \/ cmd[p].phase = "writing" /\ call[p].pc = "threw"
           \/ cmd[p].phase = "removing" /\ cmd[p].rmFailed
    PROVE  IInv'
<1> USE Known
<1>1. PICK code \in {"canceled", "error"} : Exit(p, code)
  BY DEF ExitOnError
<1> DEFINE m == [cmd[p] EXCEPT !.phase = "exited", !.exit = code]
<1>2. m \in CommandRecord
  <2>1. cmd[p] \in CommandRecord
    BY Known
  <2> QED
    BY <2>1 DEF CommandRecord
<1>3. /\ m.phase = "exited" /\ m.exit = code /\ m.kind = cmd[p].kind
      /\ m.selected = cmd[p].selected /\ m.optional = cmd[p].optional
      /\ m.input = cmd[p].input /\ m.stale = cmd[p].stale
      /\ m.removing = cmd[p].removing /\ m.rmFailed = cmd[p].rmFailed
  BY DEF CommandRecord
<1>4. cmd' = [cmd EXCEPT ![p] = m]
  BY <1>1 DEF Exit, IInv, CommandType
<1>5. cmd'[p] = m /\ call' = call /\ latest' = latest /\ disk' = disk /\ faults' = faults
      /\ \A q \in Procs \ {p} : cmd'[q] = cmd[q]
  BY <1>4 DEF IInv, CommandType, writer
<1> HIDE DEF m
<1>6. latest = {p} /\ faults \in Nat
  BY DEF Alive, IInv, CommandType
<1>7. PhaseInv(p)' /\ CommandInv(p)' /\ FaultInv(p)'
  <2>1. call[p].pc \in {"idle", "threw"} \/ (call[p].pc = "returned" /\ cmd[p].rmFailed)
    BY DEF ProcInv, PhaseInv
  <2>2. PhaseInv(p)'
    BY <1>3, <1>5, <2>1 DEF PhaseInv
  <2>3. CommandInv(p)'
    BY <1>1, <1>3, <1>5, <2>1 DEF ProcInv, PhaseInv, CommandInv
  <2>4. FaultInv(p)'
    BY <1>3, <1>5 DEF ProcInv, FaultInv
  <2> QED
    BY <2>2, <2>3, <2>4
<1>8. faults = 0 => call[p].renamed = 0
  <2>1. CASE cmd[p].phase \in {"begun", "prepared"}
    BY <2>1 DEF ProcInv, PhaseInv
  <2>2. CASE cmd[p].phase = "writing" /\ call[p].pc = "threw"
    BY <2>2 DEF ProcInv, FaultInv, WP!CallInv, WP!ErrorInv, WP!CallRecord, WP!Errors
  <2>3. CASE cmd[p].phase = "removing" /\ cmd[p].rmFailed
    BY <2>3 DEF ProcInv, FaultInv
  <2> QED
    BY <2>1, <2>2, <2>3
<1>9. TrackedInv(p)'
  <2>1. Tracked(disk["trace_manifest"])' = Tracked(disk["trace_manifest"])
    BY <1>3, <1>5, SameTracked
  <2>2. TracesOnDisk' = TracesOnDisk
    BY <1>5 DEF TracesOnDisk
  <2>3. TrackedInv(p)
    BY DEF Alive
  <2> QED
    BY <1>1, <1>3, <1>5, <1>8, <2>1, <2>2, <2>3 DEF TrackedInv
<1>10. (/\ m.phase \in {"removing", "exited"} /\ call[p].pc = "returned" /\ ~m.rmFailed)
          => TracesOnDisk \cap m.stale \subseteq m.removing
  BY <1>3 DEF ProcInv, PhaseInv
<1> QED
  BY <1>2, <1>3, <1>4, <1>5, <1>6, <1>7, <1>9, <1>10, CommandStep DEF writer

(* Such are a preparation that fails, a refused plan, a writer that threw and a
   removal that failed. *)
LEMMA ErrorSteps ==
    ASSUME IInv, NEW p \in Procs,
           PreparationFails(p) \/ RefusePlan(p) \/ WriterThrew(p) \/ CleanupThrew(p)
    PROVE  IInv'
BY ExitOnErrorStep DEF PreparationFails, RefusePlan, WriterThrew, CleanupThrew, Active

(* Tracked traces are traces. *)
LEMMA TrackedTraces ==
    ASSUME IInv, NEW d
    PROVE  Tracked(d) \subseteq Traces
<1>1. \A q \in Procs : cmd[q].selected \subseteq Traces /\ cmd[q].stale \subseteq Traces
  BY CommandAssumption DEF IInv, CommandType, CommandRecord
<1>2. d \in Procs \X Nat => d[1] \in Procs
  OBVIOUS
<1> QED
  BY <1>1, <1>2 DEF Tracked

(* Reading the manifest: nothing has been renamed yet, so the traces on disk
   are those it tracks. *)
LEMMA ReadManifestStep ==
    ASSUME IInv, NEW p \in Procs, ReadManifest(p)
    PROVE  IInv'
<1> DEFINE d == disk["trace_manifest"]
           m == [cmd[p] EXCEPT !.phase = "prepared",
                               !.stale = IF cmd[p].kind = "export" THEN {}
                                         ELSE Tracked(d) \ cmd[p].selected]
<1>0. cmd[p] \in CommandRecord /\ cmd[p].phase = "begun" /\ ProcInv(p)
      /\ call[p].pc = "idle" /\ call[p].renamed = 0 /\ latest = {p} /\ TrackedInv(p)
  BY Known DEF ReadManifest, Alive, Active, ProcInv, PhaseInv
<1>1. Tracked(d) \subseteq Traces
  BY TrackedTraces
<1>2. m \in CommandRecord
  BY <1>0, <1>1 DEF CommandRecord
<1>3. /\ m.phase = "prepared" /\ m.kind = cmd[p].kind /\ m.exit = cmd[p].exit
      /\ m.selected = cmd[p].selected /\ m.optional = cmd[p].optional
      /\ m.input = cmd[p].input /\ m.removing = cmd[p].removing
      /\ m.rmFailed = cmd[p].rmFailed
      /\ m.stale = IF cmd[p].kind = "export" THEN {} ELSE Tracked(d) \ cmd[p].selected
  BY <1>0 DEF CommandRecord
<1>4. cmd' = [cmd EXCEPT ![p] = m]
  BY DEF ReadManifest, IInv, CommandType
<1>5. cmd'[p] = m /\ call' = call /\ latest' = latest /\ disk' = disk /\ faults' = faults
      /\ temps' = temps /\ before' = before
      /\ \A q \in Procs \ {p} : cmd'[q] = cmd[q]
  BY <1>4 DEF ReadManifest, IInv, CommandType, writer
<1>6. faults \in Nat
  BY DEF IInv, CommandType
<1> HIDE DEF m
<1>7. PhaseInv(p)' /\ FaultInv(p)'
  BY <1>0, <1>3, <1>5 DEF ProcInv, PhaseInv, FaultInv
<1>8. CommandInv(p)'
  BY <1>0, <1>3, <1>5 DEF ProcInv, CommandInv
<1>9. TrackedInv(p)'
  <2>1. Tracked(disk["trace_manifest"])' = Tracked(disk["trace_manifest"])
    BY <1>0, <1>5, SameTracked
  <2>2. TracesOnDisk' = TracesOnDisk
    BY <1>5 DEF TracesOnDisk
  <2>3. cmd[p].exit # "success"
    BY <1>0 DEF ProcInv, CommandInv
  <2> QED
    BY <1>0, <1>3, <1>5, <2>1, <2>2, <2>3 DEF TrackedInv
<1> QED
  BY <1>0, <1>2, <1>3, <1>4, <1>5, <1>6, <1>7, <1>8, <1>9, CommandStep

(* The cleanup starts with every stale trace. *)
LEMMA StartCleanupStep ==
    ASSUME IInv, NEW p \in Procs, StartCleanup(p)
    PROVE  IInv'
<1> DEFINE m == [cmd[p] EXCEPT !.phase = "removing", !.removing = cmd[p].stale]
<1>0. cmd[p] \in CommandRecord /\ cmd[p].phase = "writing" /\ ProcInv(p)
      /\ call[p].pc = "returned" /\ latest = {p} /\ TrackedInv(p)
  BY Known DEF StartCleanup, Alive, Active
<1>2. m \in CommandRecord
  BY <1>0 DEF CommandRecord
<1>3. /\ m.phase = "removing" /\ m.kind = cmd[p].kind /\ m.exit = cmd[p].exit
      /\ m.selected = cmd[p].selected /\ m.optional = cmd[p].optional
      /\ m.input = cmd[p].input /\ m.removing = cmd[p].stale
      /\ m.rmFailed = cmd[p].rmFailed /\ m.stale = cmd[p].stale
  BY <1>0 DEF CommandRecord
<1>4. cmd' = [cmd EXCEPT ![p] = m]
  BY DEF StartCleanup, IInv, CommandType
<1>5. cmd'[p] = m /\ call' = call /\ latest' = latest /\ disk' = disk /\ faults' = faults
      /\ temps' = temps /\ before' = before
      /\ \A q \in Procs \ {p} : cmd'[q] = cmd[q]
  BY <1>4 DEF StartCleanup, IInv, CommandType, writer
<1>6. faults \in Nat
  BY DEF IInv, CommandType
<1> HIDE DEF m
<1>7. PhaseInv(p)' /\ FaultInv(p)'
  BY <1>0, <1>3, <1>5 DEF ProcInv, PhaseInv, FaultInv
<1>8. CommandInv(p)'
  BY <1>0, <1>3, <1>5 DEF ProcInv, CommandInv
<1>9. TrackedInv(p)'
  <2>1. Tracked(disk["trace_manifest"])' = Tracked(disk["trace_manifest"])
    BY <1>3, <1>5, SameTracked
  <2>2. TracesOnDisk' = TracesOnDisk
    BY <1>5 DEF TracesOnDisk
  <2>3. cmd[p].exit # "success"
    BY <1>0 DEF ProcInv, CommandInv
  <2> QED
    BY <1>0, <1>3, <1>5, <2>1, <2>2, <2>3 DEF TrackedInv
<1> QED
  BY <1>0, <1>2, <1>3, <1>4, <1>5, <1>6, <1>7, <1>8, <1>9, CommandStep

(* A removal that fails is a fault, and rejects the cleanup. *)
LEMMA RemoveTraceFailsStep ==
    ASSUME IInv, NEW p \in Procs, RemoveTraceFails(p)
    PROVE  IInv'
<1>1. PICK t \in cmd[p].removing :
         cmd' = [cmd EXCEPT ![p] = [@ EXCEPT !.removing = cmd[p].removing \ {t}, !.rmFailed = TRUE]]
  BY DEF RemoveTraceFails
<1> DEFINE m == [cmd[p] EXCEPT !.removing = cmd[p].removing \ {t}, !.rmFailed = TRUE]
<1>0. cmd[p] \in CommandRecord /\ cmd[p].phase \in {"removing", "exited"} /\ ProcInv(p)
      /\ latest = {p} /\ TrackedInv(p)
  BY <1>1, Known DEF RemoveTraceFails, Alive, Active
<1>2. m \in CommandRecord
  BY <1>0 DEF CommandRecord
<1>3. /\ m.phase = cmd[p].phase /\ m.kind = cmd[p].kind /\ m.exit = cmd[p].exit
      /\ m.selected = cmd[p].selected /\ m.optional = cmd[p].optional
      /\ m.input = cmd[p].input /\ m.removing = cmd[p].removing \ {t}
      /\ m.rmFailed = TRUE /\ m.stale = cmd[p].stale
  BY <1>0 DEF CommandRecord
<1>4. cmd' = [cmd EXCEPT ![p] = m]
  BY <1>1 DEF IInv, CommandType
<1>5. cmd'[p] = m /\ call' = call /\ latest' = latest /\ disk' = disk /\ faults' = faults + 1
      /\ temps' = temps /\ before' = before
  BY <1>4 DEF RemoveTraceFails, IInv, CommandType, writer
<1>6. faults \in Nat
  BY DEF IInv, CommandType
<1>a. faults' # 0 /\ faults' \in Nat
  BY <1>5, <1>6
<1> HIDE DEF m
<1>7. PhaseInv(p)' /\ FaultInv(p)' /\ TrackedInv(p)'
  BY <1>0, <1>3, <1>5, <1>a DEF ProcInv, PhaseInv, FaultInv, TrackedInv
<1>8. CommandInv(p)'
  BY <1>0, <1>1, <1>3, <1>5 DEF ProcInv, PhaseInv, CommandInv
<1> QED
  BY <1>0, <1>2, <1>3, <1>4, <1>5, <1>a, <1>7, <1>8, CommandStep

(* A call that returned has renamed the whole plan of its command, and while no
   other command has started, all of it is on disk. *)
LEMMA CompletePlan ==
    ASSUME IInv, NEW p \in Procs, latest = {p}, call[p].pc = "returned"
    PROVE  /\ call[p].files = CommandPlan(p) /\ PlanAccepted(p)
           /\ call[p].renamed = Len(call[p].files) /\ call[p].renamed > 0
           /\ Intact(p)
<1>1. call[p].renamed = Len(call[p].files)
  BY Known DEF WP!CallInv, WP!TempsInv
<1>2. call[p].files = CommandPlan(p) /\ PlanAccepted(p) /\ call[p].files # <<>>
  BY Known DEF ProcInv, PlanInv
<1>3. call[p].files \in Seq(Paths)
  <2>1. call[p].pc # "idle"
    OBVIOUS
  <2> QED
    BY <2>1, Known DEF WP!CallInv, WP!TempsInv
<1>4. Len(call[p].files) > 0
  BY <1>2, <1>3, EmptySeq, LenProperties
<1>5. Intact(p)
  BY <1>1 DEF Intact, IInv, StandsInv
<1> QED
  BY <1>1, <1>2, <1>4, <1>5

(* A complete publication that is no export has put the trace manifest of its
   command on disk. *)
LEMMA OwnManifest ==
    ASSUME IInv, NEW p \in Procs, latest = {p}, call[p].pc = "returned",
           cmd[p].phase # "idle", cmd[p].kind # "export"
    PROVE  cmd[p].selected \subseteq Tracked(disk["trace_manifest"])
<1>1. cmd[p] \in CommandRecord /\ cmd[p].kind # "none"
  BY Known DEF ProcInv, CommandInv
<1>2. PICK S \in SUBSET ReportPaths :
         Lists(CommandPlan(p), S \cup cmd[p].selected) /\ "trace_manifest" \in S
  BY <1>1, CommandPlanLists
<1>3. call[p].files = CommandPlan(p) /\ Intact(p)
  BY CompletePlan
<1>4. "trace_manifest" \in Entries(call[p].files)
  BY <1>2, <1>3 DEF Lists
<1>5. PICK i \in 1 .. Len(call[p].files) : call[p].files[i] = "trace_manifest"
  BY <1>4 DEF Entries
<1>6. disk["trace_manifest"] = <<p, i>>
  BY <1>3, <1>5, SameContent DEF Intact
<1>7. disk["trace_manifest"] \in Procs \X Nat /\ disk["trace_manifest"][1] = p
  BY <1>6
<1> QED
  BY <1>7 DEF Tracked

(* A command that succeeds leaves its own traces and no others. *)
LEMMA SucceedStep ==
    ASSUME IInv, NEW p \in Procs, Succeed(p)
    PROVE  IInv'
<1> DEFINE m == [cmd[p] EXCEPT !.phase = "exited", !.exit = "success"]
<1>0. cmd[p] \in CommandRecord /\ cmd[p].phase = "removing" /\ ProcInv(p)
      /\ call[p].pc = "returned" /\ latest = {p} /\ TrackedInv(p) /\ StandsInv(p)
      /\ cmd[p].removing = {} /\ ~cmd[p].rmFailed
  BY Known DEF Succeed, Alive, Active, ProcInv, PhaseInv
<1>2. m \in CommandRecord
  BY <1>0 DEF CommandRecord
<1>3. /\ m.phase = "exited" /\ m.kind = cmd[p].kind /\ m.exit = "success"
      /\ m.selected = cmd[p].selected /\ m.optional = cmd[p].optional
      /\ m.input = cmd[p].input /\ m.removing = cmd[p].removing
      /\ m.rmFailed = cmd[p].rmFailed /\ m.stale = cmd[p].stale
  BY <1>0 DEF CommandRecord
<1>4. cmd' = [cmd EXCEPT ![p] = m]
  BY Zenon DEF Succeed, Exit
<1>5. cmd'[p] = m /\ call' = call /\ latest' = latest /\ disk' = disk /\ faults' = faults
      /\ temps' = temps /\ before' = before
      /\ \A q \in Procs \ {p} : cmd'[q] = cmd[q]
  BY <1>4 DEF Succeed, IInv, CommandType, writer
<1>6. faults \in Nat
  BY DEF IInv, CommandType
<1> HIDE DEF m
<1>7. PhaseInv(p)' /\ FaultInv(p)'
  BY <1>0, <1>3, <1>5 DEF ProcInv, PhaseInv, FaultInv
<1>8. CommandInv(p)'
  BY <1>0, <1>3, <1>5 DEF ProcInv, CommandInv
<1>a. (cmd[p].kind # "export" /\ faults = 0) => TracesOnDisk \subseteq cmd[p].selected
  BY <1>0 DEF TrackedInv, StandsInv
<1>b. cmd[p].kind # "export" => cmd[p].selected \subseteq Tracked(disk["trace_manifest"])
  BY <1>0, OwnManifest
<1>9. TrackedInv(p)'
  <2>1. Tracked(disk["trace_manifest"])' = Tracked(disk["trace_manifest"])
    BY <1>3, <1>5, SameTracked
  <2>2. TracesOnDisk' = TracesOnDisk
    BY <1>5 DEF TracesOnDisk
  <2>3. (faults = 0 /\ cmd[p].kind = "export")
           => TracesOnDisk \subseteq Tracked(disk["trace_manifest"])
    BY <1>0 DEF TrackedInv
  <2> QED
    BY <1>3, <1>5, <1>a, <1>b, <2>1, <2>2, <2>3 DEF TrackedInv
<1>10. TracesOnDisk \cap m.stale \subseteq m.removing
  BY <1>0, <1>3 DEF StandsInv
<1> QED
  BY <1>0, <1>2, <1>3, <1>4, <1>5, <1>6, <1>7, <1>8, <1>9, <1>10, CommandStep

(* A step of p's call that renames nothing: what has to be shown of it. *)
LEMMA QuietCallStep ==
    ASSUME IInv, NEW p \in Procs, latest = {p},
           WP!WriterInv', WP!KeepsRenamed, UNCHANGED <<cmd, latest, before>>,
           faults' \in Nat, faults' = 0 => faults = 0,
           \A q \in Procs \ {p} : call'[q] = call[q],
           call'[p].files = call[p].files,
           \/ call'[p].pc = call[p].pc
           \/ /\ cmd[p].phase = "writing"
              /\ call'[p].pc \in {"staging", "writing", "committing", "cleaning",
                                   "returned", "threw"},
           FaultInv(p)'
    PROVE  IInv'
<1>1. disk' = disk /\ call'[p].renamed = call[p].renamed /\ cmd' = cmd
  BY DEF WP!KeepsRenamed
<1>2. CommandType'
  BY DEF IInv, CommandType, W!AllContents
<1>3. PhaseInv(p) /\ CommandInv(p) /\ PlanInv(p) /\ StandsInv(p) /\ TrackedInv(p)
      /\ cmd[p].phase # "idle"
  BY DEF IInv, ProcInv, TurnInv
<1>4. PhaseInv(p)'
  BY <1>1, <1>3 DEF PhaseInv
<1>5. CommandInv(p)'
  <2>1. cmd[p].phase = "exited" => call'[p].pc = call[p].pc
    OBVIOUS
  <2> QED
    BY <1>1, <1>3, <2>1 DEF CommandInv
<1>6. PlanInv(p)'
  <2>1. CommandPlan(p)' = CommandPlan(p) /\ PlanAccepted(p)' = PlanAccepted(p)
    BY <1>1, SameCommand
  <2>2. call[p].pc \in {"idle", "dead"} => call'[p].pc = call[p].pc
    BY <1>3 DEF PhaseInv
  <2> QED
    BY <1>3, <2>1, <2>2 DEF PlanInv
<1>7. ProcInv(p)'
  BY <1>4, <1>5, <1>6 DEF ProcInv
<1>8. StandsInv(p)'
  <2>1. \A i \in 1 .. call'[p].renamed : disk'[call'[p].files[i]] = W!Content(p, i)'
    BY <1>1, <1>3 DEF StandsInv, W!Content
  <2>2. call'[p].renamed = 0 => disk' = before'
    BY <1>1, <1>3 DEF StandsInv
  <2>3. TracesOnDisk' = TracesOnDisk
    BY <1>1 DEF TracesOnDisk
  <2>4. cmd[p].phase \in {"removing", "exited"} => call'[p].pc = call[p].pc
    OBVIOUS
  <2> QED
    BY <1>1, <1>3, <2>1, <2>2, <2>3, <2>4 DEF StandsInv
<1>9. TrackedInv(p)'
  <2>1. Tracked(disk["trace_manifest"])' = Tracked(disk["trace_manifest"])
    BY <1>1, SameTracked
  <2>2. TracesOnDisk' = TracesOnDisk
    BY <1>1 DEF TracesOnDisk
  <2> QED
    BY <1>1, <1>3, <2>1, <2>2 DEF TrackedInv
<1> QED
  BY <1>1, <1>2, <1>3, <1>7, <1>8, <1>9, Frame

(* A signal sets the flag of the call. *)
LEMMA InterruptStep ==
    ASSUME IInv, NEW p \in Procs, Interrupt(p)
    PROVE  IInv'
<1>1. latest = {p}
  BY Known DEF Interrupt, Alive
<1>2. WP!WriterInv' /\ WP!KeepsRenamed
  BY MarkersAssumption, WP!SignalStep DEF Interrupt, IInv
<1>3. call \in [Procs -> WP!CallRecord]
  BY DEF IInv, WP!WriterInv, WP!TypeOK
<1>4. /\ \A q \in Procs \ {p} : call'[q] = call[q]
      /\ call'[p].files = call[p].files /\ call'[p].pc = call[p].pc
      /\ call'[p].error = call[p].error /\ call'[p].rmFailed = call[p].rmFailed
  BY <1>3 DEF Interrupt, WP!CallRecord
<1>5. UNCHANGED <<cmd, latest, before, faults>> /\ faults \in Nat
  BY DEF Interrupt, IInv, CommandType
<1>6. FaultInv(p)'
  BY <1>4, <1>5 DEF IInv, ProcInv, FaultInv
<1> QED
  BY <1>1, <1>2, <1>4, <1>5, <1>6, QuietCallStep

(* A kill ends the command and its call where they are; it is a fault. *)
LEMMA KillStep ==
    ASSUME IInv, NEW p \in Procs, Kill(p)
    PROVE  IInv'
<1> DEFINE m == [cmd[p] EXCEPT !.phase = "dead"]
<1>0. latest = {p} /\ cmd[p] \in CommandRecord /\ ProcInv(p) /\ StandsInv(p)
      /\ call[p] \in WP!CallRecord
  BY Known DEF Kill
<1>1. WP!WriterInv' /\ WP!KeepsRenamed
  <2>1. call[p].files \in Seq(Paths)
    BY <1>0, EmptySeq DEF WP!CallRecord
  <2> QED
    BY <2>1, MarkersAssumption, WP!EndStep DEF Kill, IInv
<1>2. m \in CommandRecord
  BY <1>0 DEF CommandRecord
<1>3. /\ m.phase = "dead" /\ m.kind = cmd[p].kind /\ m.exit = cmd[p].exit
      /\ m.selected = cmd[p].selected /\ m.optional = cmd[p].optional
      /\ m.input = cmd[p].input /\ m.removing = cmd[p].removing
      /\ m.rmFailed = cmd[p].rmFailed /\ m.stale = cmd[p].stale
  BY <1>0 DEF CommandRecord
<1>4. cmd' = [cmd EXCEPT ![p] = m]
  BY DEF Kill, IInv, CommandType
<1>5. cmd'[p] = m /\ latest' = latest /\ before' = before
      /\ \A q \in Procs \ {p} : cmd'[q] = cmd[q]
  BY <1>4 DEF Kill, IInv, CommandType
<1>6. /\ \A q \in Procs \ {p} : call'[q] = call[q]
      /\ call'[p].files = call[p].files /\ call'[p].pc = "dead"
      /\ call'[p].renamed = call[p].renamed /\ disk' = disk
  <2>1. call \in [Procs -> WP!CallRecord]
    BY DEF IInv, WP!WriterInv, WP!TypeOK
  <2> QED
    BY <2>1 DEF Kill, WP!CallRecord
<1>7. faults' \in Nat /\ faults' # 0
  BY DEF Kill, IInv, CommandType
<1> HIDE DEF m
<1>8. CommandType'
  BY <1>2, <1>4, <1>5, <1>7 DEF IInv, CommandType, W!AllContents
<1>9. PhaseInv(p)' /\ FaultInv(p)' /\ TrackedInv(p)'
  BY <1>3, <1>5, <1>6, <1>7 DEF PhaseInv, FaultInv, TrackedInv
<1>10. CommandInv(p)'
  <2>1. cmd[p].exit # "success"
    BY <1>0 DEF Kill, Alive, Active, ProcInv, CommandInv, PhaseInv, IInv, WP!WriterInv,
       WP!CallInv, WP!ErrorInv
  <2>2. cmd[p].phase # "idle"
    BY DEF Kill, Alive, Active
  <2> QED
    BY <1>0, <1>3, <1>5, <2>1, <2>2 DEF ProcInv, CommandInv
<1>11. PlanInv(p)'
  <2>1. CommandPlan(p)' = CommandPlan(p) /\ PlanAccepted(p)' = PlanAccepted(p)
    BY <1>3, <1>5, SameCommand
  <2> QED
    BY <1>0, <1>6, <2>1 DEF ProcInv, PlanInv
<1>12. StandsInv(p)'
  BY <1>0, <1>3, <1>5, <1>6 DEF StandsInv, W!Content
<1>13. ProcInv(p)' /\ cmd'[p].phase # "idle"
  BY <1>3, <1>5, <1>9, <1>10, <1>11 DEF ProcInv
<1> QED
  BY <1>0, <1>1, <1>5, <1>6, <1>7, <1>8, <1>9, <1>12, <1>13, Frame

(* The commands take the steps of the writer. *)
LEMMA SameWriter ==
    ASSUME NEW p \in Procs
    PROVE  /\ W!Step(p) => WP!Step(p)
           /\ W!IOError(p) => WP!IOError(p)
           /\ W!WriteTempFails(p) => WP!WriteTempFails(p)
           /\ \A files : W!Invoke(p, files) => WP!Invoke(p, files)
<1>1. \A why : W!Fail(p, why) <=> WP!Fail(p, why)
  BY DEF W!Fail, WP!Fail
<1>2. W!Prepared(p) = WP!Prepared(p) /\ W!Next1(p) = WP!Next1(p)
  BY DEF W!Prepared, WP!Prepared, W!Next1, WP!Next1
<1>3. \A files, i : W!Repeated(files, i) <=> WP!Repeated(files, i)
  BY DEF W!Repeated, WP!Repeated
<1>4. W!Stageable(p) <=> WP!Stageable(p)
  BY <1>2, <1>3 DEF W!Stageable, WP!Stageable
<1>5. W!AllPrepared(p) <=> WP!AllPrepared(p)
  BY <1>2 DEF W!AllPrepared, WP!AllPrepared
<1>6. /\ W!StageRefused(p) => WP!StageRefused(p)
      /\ W!MakeDirectoryFails(p) => WP!MakeDirectoryFails(p)
      /\ W!AbortBeforeCommit(p) => WP!AbortBeforeCommit(p)
      /\ W!RenameFails(p) => WP!RenameFails(p)
  BY <1>1, <1>2, <1>3, <1>4, <1>5
  DEF W!StageRefused, WP!StageRefused, W!MakeDirectoryFails, WP!MakeDirectoryFails,
      W!AbortBeforeCommit, WP!AbortBeforeCommit, W!RenameFails, WP!RenameFails
<1>7. W!Prepare(p) => WP!Prepare(p)
  BY <1>4 DEF W!Prepare, WP!Prepare
<1>8. W!WriteTemp(p) => WP!WriteTemp(p)
  BY <1>2 DEF W!WriteTemp, WP!WriteTemp
<1>9. W!WriteTempFails(p) => WP!WriteTempFails(p)
  BY <1>1, <1>2 DEF W!WriteTempFails, WP!WriteTempFails, W!TempStates, WP!TempStates
<1>10. W!BeginCommit(p) => WP!BeginCommit(p)
  BY <1>5 DEF W!BeginCommit, WP!BeginCommit
<1>11. W!Rename(p) => WP!Rename(p)
  BY DEF W!Rename, WP!Rename, W!Renamed, WP!Renamed, W!Content, WP!Content
<1>12. /\ W!Return(p) => WP!Return(p)
       /\ W!RemoveTemp(p) => WP!RemoveTemp(p)
       /\ W!RemoveTempFails(p) => WP!RemoveTempFails(p)
       /\ W!Throw(p) => WP!Throw(p)
  BY DEF W!Return, WP!Return, W!RemoveTemp, WP!RemoveTemp, W!RemoveTempFails,
         WP!RemoveTempFails, W!Throw, WP!Throw
<1>13. \A files : W!Invoke(p, files) => WP!Invoke(p, files)
  BY DEF W!Invoke, WP!Invoke
<1>14. W!Step(p) => WP!Step(p)
  BY <1>6, <1>7, <1>8, <1>10, <1>11, <1>12
  DEF W!Step, WP!Step, W!Stage, WP!Stage, W!Commit, WP!Commit, W!CleanUp, WP!CleanUp
<1>15. W!IOError(p) => WP!IOError(p)
  BY <1>6, <1>9, <1>12 DEF W!IOError, WP!IOError
<1> QED
  BY <1>9, <1>13, <1>14, <1>15

(* What a rename of the writer changes: one more file of p's plan is in place. *)
LEMMA PlaceStep ==
    ASSUME IInv, NEW p \in Procs, latest = {p},
           WP!WriterInv', WP!Places(p), UNCHANGED <<cmd, latest, before, faults>>
    PROVE  IInv'
<1> DEFINE n == call[p].renamed + 1
           f == call[p].files[n]
<1>1. /\ call[p] \in WP!CallRecord /\ call[p].renamed \in Nat
      /\ ProcInv(p) /\ StandsInv(p) /\ TrackedInv(p) /\ cmd[p] \in CommandRecord
      /\ call[p].pc = "committing" /\ n \in 1 .. Len(temps[p])
      /\ WP!CallInv(call[p], temps[p])
  BY Known DEF WP!Places, IInv
<1>2. cmd[p].phase = "writing" /\ cmd' = cmd /\ latest' = latest /\ before' = before
      /\ faults' = faults /\ cmd[p].kind # "none" /\ cmd[p].exit # "success"
  BY <1>1 DEF ProcInv, PhaseInv, CommandInv, IInv, TurnInv, CommandType, CommandRecord
<1>3. /\ \A q \in Procs \ {p} : call'[q] = call[q]
      /\ call'[p].files = call[p].files /\ call'[p].pc = call[p].pc
      /\ call'[p].renamed = n /\ call'[p].error = call[p].error
      /\ call'[p].rmFailed = call[p].rmFailed
  <2>1. call \in [Procs -> WP!CallRecord]
    BY DEF IInv, WP!WriterInv, WP!TypeOK
  <2> QED
    BY <2>1 DEF WP!Places, WP!CallRecord
<1>4. /\ call[p].files = CommandPlan(p) /\ call[p].files \in Seq(Paths)
      /\ n \in 1 .. Len(call[p].files) /\ Len(temps[p]) = Len(call[p].files)
      /\ \A i, j \in 1 .. Len(temps[p]) : call[p].files[i] = call[p].files[j] => i = j
  <2>1. call[p].files = CommandPlan(p)
    BY <1>1 DEF ProcInv, PlanInv
  <2>2. call[p].files \in Seq(Paths) /\ Len(temps[p]) = Len(call[p].files)
    BY <1>1 DEF WP!CallInv, WP!TempsInv
  <2>3. \A i, j \in 1 .. Len(temps[p]) : call[p].files[i] = call[p].files[j] => i = j
    BY <1>1 DEF WP!CallInv, WP!DistinctInv
  <2> QED
    BY <1>1, <2>1, <2>2, <2>3
<1>5. f \in Paths /\ f \in Entries(CommandPlan(p))
  <2>1. call[p].files[n] \in Paths
    BY <1>4, ElementOfSeq
  <2>2. call[p].files[n] \in Entries(CommandPlan(p))
    BY <1>4 DEF Entries
  <2> QED
    BY <2>1, <2>2
<1>6. disk \in [Paths -> WP!AllContents]
  BY DEF IInv, WP!WriterInv, WP!TypeOK
<1>7. disk' = [disk EXCEPT ![f] = <<p, n>>]
  BY SameContent DEF WP!Places
<1>8. disk'[f] = <<p, n>> /\ \A g \in Paths \ {f} : disk'[g] = disk[g]
  BY <1>5, <1>6, <1>7
<1> HIDE DEF f
<1>9. CommandType'
  BY <1>2 DEF IInv, CommandType, W!AllContents
<1>10. ProcInv(p)'
  <2>1. CommandPlan(p)' = CommandPlan(p) /\ PlanAccepted(p)' = PlanAccepted(p)
    BY <1>2, SameCommand
  <2>2. PlanInv(p)'
    BY <1>1, <1>3, <2>1 DEF ProcInv, PlanInv
  <2>3. PhaseInv(p)' /\ CommandInv(p)'
    BY <1>1, <1>2, <1>3 DEF ProcInv, PhaseInv, CommandInv
  <2>4. FaultInv(p)'
    BY <1>1, <1>2, <1>3 DEF ProcInv, FaultInv
  <2> QED
    BY <2>2, <2>3, <2>4 DEF ProcInv
<1>11. StandsInv(p)'
  <2>1. ASSUME NEW i \in 1 .. n PROVE disk'[call[p].files[i]] = <<p, i>>
    <3>1. CASE i = n
      BY <1>8, <3>1 DEF f
    <3>2. CASE i # n
      <4>1. i \in 1 .. call[p].renamed /\ i \in 1 .. Len(temps[p])
            /\ i \in 1 .. Len(call[p].files)
        BY <1>1, <1>4, <3>2
      <4>2. call[p].files[i] # f /\ call[p].files[i] \in Paths
        BY <1>1, <1>4, <3>2, <4>1, ElementOfSeq DEF f
      <4>3. disk[call[p].files[i]] = <<p, i>>
        BY <1>1, <4>1, SameContent DEF StandsInv
      <4> QED
        BY <1>8, <4>2, <4>3
    <3> QED
      BY <3>1, <3>2
  <2>2. n # 0
    BY <1>1
  <2> QED
    BY <1>2, <1>3, <2>1, <2>2 DEF StandsInv, W!Content
<1>12. CASE cmd[p].kind = "export"
  <2>1. f = "offline_graph"
    BY <1>1, <1>2, <1>5, <1>12, CommandPlanLists DEF Lists
  <2>2. f \notin Traces /\ f # "trace_manifest" /\ "trace_manifest" \in Paths
        /\ Traces \subseteq Paths
    BY <2>1, FixedPaths, TracesAssumption
  <2>3. TracesOnDisk' = TracesOnDisk
    BY <1>8, <2>2 DEF TracesOnDisk
  <2>4. Tracked(disk["trace_manifest"])' = Tracked(disk["trace_manifest"])
    BY <1>2, <1>8, <2>2, SameTracked
  <2>5. TrackedInv(p)'
    BY <1>1, <1>2, <1>12, <2>3, <2>4 DEF TrackedInv
  <2> QED
    BY <1>2, <1>3, <1>9, <1>10, <1>11, <2>5, Frame
<1>13. CASE cmd[p].kind # "export"
  <2>1. PICK S \in SUBSET ReportPaths : Lists(CommandPlan(p), S \cup cmd[p].selected)
    BY <1>1, <1>2, <1>13, CommandPlanLists
  <2>2. f \in Traces => f \in cmd[p].selected
    BY <1>5, <2>1, TracesAssumption DEF Lists
  <2>3. Traces \subseteq Paths
    BY FixedPaths
  <2>4. \A x \in TracesOnDisk' : x \in TracesOnDisk \/ x \in cmd[p].selected
    BY <1>8, <2>2, <2>3 DEF TracesOnDisk
  <2>5. faults = 0 => TracesOnDisk \subseteq cmd[p].selected \cup cmd[p].stale
    BY <1>1, <1>2, <1>13 DEF TrackedInv
  <2>6. faults = 0 => TracesOnDisk' \subseteq cmd[p].selected \cup cmd[p].stale
    BY <2>4, <2>5
  <2>7. call'[p].renamed # 0
    BY <1>1, <1>3
  <2>8. TrackedInv(p)'
    BY <1>2, <1>13, <2>6, <2>7 DEF TrackedInv
  <2> QED
    BY <1>2, <1>3, <1>9, <1>10, <1>11, <2>8, Frame
<1> QED
  BY <1>12, <1>13

(* The writer works for the command started last, or removes temporaries after
   it threw. *)
LEMMA WriterTurn ==
    ASSUME IInv, NEW p \in Procs, WP!Step(p) \/ WP!IOError(p),
           cmd[p].phase = "writing" \/ call[p].pc = "threw"
    PROVE  /\ latest = {p}
           /\ \A q \in Procs \ {p} : call'[q] = call[q]
           /\ call'[p].files = call[p].files
           /\ call'[p].pc # "dead"
           /\ \/ call'[p].pc = call[p].pc
              \/ /\ cmd[p].phase = "writing"
                 /\ call'[p].pc \in {"staging", "writing", "committing", "cleaning",
                                      "returned", "threw"}
           /\ WP!WriterInv' /\ (WP!KeepsRenamed \/ WP!Places(p))
<1>1. WP!WriterInv
  BY DEF IInv
<1>2. /\ \A q \in Procs \ {p} : call'[q] = call[q]
      /\ call'[p].files = call[p].files
      /\ call'[p].pc \in {"staging", "writing", "committing", "cleaning",
                           "returned", "threw"}
      /\ call[p].pc = "threw" => call[p].removing # {} /\ call'[p].pc = "threw"
  BY <1>1, MarkersAssumption, WP!CallAdvances
<1>3. WP!WriterInv' /\ (WP!KeepsRenamed \/ WP!Places(p))
  BY <1>1, MarkersAssumption, WP!WriterNext
<1>4. Alive(p)
  <2>1. CASE cmd[p].phase = "writing"
    BY <2>1 DEF Alive, Active
  <2>2. CASE call[p].pc = "threw"
    <3>1. cmd[p].phase \in {"writing", "exited"}
      BY <2>2, Known DEF ProcInv, PhaseInv, CommandRecord
    <3> QED
      BY <1>2, <2>2, <3>1 DEF Alive, Active
  <2> QED
    BY <2>1, <2>2
<1>5. latest = {p}
  BY <1>4, Known
<1>6. \/ call'[p].pc = call[p].pc
      \/ /\ cmd[p].phase = "writing"
         /\ call'[p].pc \in {"staging", "writing", "committing", "cleaning",
                              "returned", "threw"}
  BY <1>2
<1> QED
  BY <1>2, <1>3, <1>5, <1>6

(* A step of the writer keeps the invariant, *)
LEMMA WriteStep ==
    ASSUME IInv, NEW p \in Procs, Write(p)
    PROVE  IInv'
<1>1. WP!Step(p) /\ (cmd[p].phase = "writing" \/ call[p].pc = "threw")
      /\ UNCHANGED <<cmd, latest, before, faults>>
  BY SameWriter DEF Write
<1>2. CASE WP!Places(p)
  BY <1>1, <1>2, WriterTurn, PlaceStep
<1>3. CASE WP!KeepsRenamed
  <2>1. FaultInv(p)'
    <3>1. (call[p].error # "io" /\ ~call[p].rmFailed) =>
             call'[p].error # "io" /\ ~call'[p].rmFailed
      BY <1>1, MarkersAssumption, WP!StepIsFaultless DEF IInv
    <3>2. call'[p].pc # "dead" /\ cmd' = cmd /\ faults' = faults
      BY <1>1, WriterTurn
    <3> QED
      BY <3>1, <3>2, Known DEF ProcInv, FaultInv
  <2>2. faults' = faults /\ faults \in Nat
    BY <1>1 DEF IInv, CommandType
  <2> QED
    BY <1>1, <1>3, <2>1, <2>2, WriterTurn, QuietCallStep
<1> QED
  BY <1>1, <1>2, <1>3, WriterTurn

(* so does one that fails, *)
LEMMA WriteFailsStep ==
    ASSUME IInv, NEW p \in Procs, WriteFails(p)
    PROVE  IInv'
<1>1. WP!IOError(p) /\ (cmd[p].phase = "writing" \/ call[p].pc = "threw")
      /\ UNCHANGED <<cmd, latest, before>>
  BY SameWriter DEF WriteFails
<1>2. faults' \in Nat /\ faults' # 0
  BY DEF WriteFails, IInv, CommandType
<1>3. FaultInv(p)'
  BY <1>2 DEF FaultInv
<1>4. WP!KeepsRenamed /\ WP!WriterInv'
  BY <1>1, MarkersAssumption, WP!ErrorRenamesNothing DEF IInv
<1> QED
  BY <1>1, <1>2, <1>3, <1>4, WriterTurn, QuietCallStep

(* and one the signal interrupts. *)
LEMMA WriteAbortedStep ==
    ASSUME IInv, NEW p \in Procs, WriteAborted(p)
    PROVE  IInv'
<1>1. WP!WriteTempFails(p) /\ cmd[p].phase = "writing" /\ call'[p].error = "abort"
      /\ UNCHANGED <<cmd, latest, before, faults>>
  BY SameWriter DEF WriteAborted
<1>2. WP!IOError(p)
  BY <1>1 DEF WP!IOError
<1>3. call \in [Procs -> WP!CallRecord]
  BY DEF IInv, WP!WriterInv, WP!TypeOK
<1>4. FaultInv(p)'
  <2>1. call'[p].rmFailed = call[p].rmFailed
    <3>1. PICK why : WP!Fail(p, why)
      BY <1>1 DEF WP!WriteTempFails
    <3> QED
      BY <1>3, <3>1 DEF WP!Fail, WP!CallRecord
  <2>2. call'[p].pc # "dead" /\ cmd' = cmd /\ faults' = faults
    BY <1>1, <1>2, WriterTurn
  <2> QED
    BY <1>1, <2>1, <2>2, Known DEF ProcInv, FaultInv
<1>5. WP!KeepsRenamed /\ WP!WriterInv'
  BY <1>2, MarkersAssumption, WP!ErrorRenamesNothing DEF IInv
<1>6. faults' = faults /\ faults \in Nat
  BY <1>1 DEF IInv, CommandType
<1> QED
  BY <1>1, <1>2, <1>4, <1>5, <1>6, WriterTurn, QuietCallStep

(* Removing a stale trace disturbs none of the files the command published. *)
LEMMA RemoveTraceStep ==
    ASSUME IInv, NEW p \in Procs, RemoveTrace(p)
    PROVE  IInv'
<1>1. PICK t \in cmd[p].removing :
         /\ disk' = [disk EXCEPT ![t] = Absent]
         /\ cmd' = [cmd EXCEPT ![p].removing = @ \ {t}]
  BY DEF RemoveTrace
<1> DEFINE m == [cmd[p] EXCEPT !.removing = @ \ {t}]
<1>0. cmd[p] \in CommandRecord /\ cmd[p].phase \in {"removing", "exited"} /\ ProcInv(p)
      /\ latest = {p} /\ TrackedInv(p) /\ StandsInv(p)
  BY <1>1, Known DEF RemoveTrace, Alive, Active
<1>2. m \in CommandRecord
  BY <1>0 DEF CommandRecord
<1>3. /\ m.phase = cmd[p].phase /\ m.kind = cmd[p].kind /\ m.exit = cmd[p].exit
      /\ m.selected = cmd[p].selected /\ m.optional = cmd[p].optional
      /\ m.input = cmd[p].input /\ m.removing = cmd[p].removing \ {t}
      /\ m.rmFailed = cmd[p].rmFailed /\ m.stale = cmd[p].stale
  BY <1>0 DEF CommandRecord
<1>4. cmd' = [cmd EXCEPT ![p] = m]
  BY <1>1 DEF IInv, CommandType
<1>5. /\ cmd'[p] = m /\ \A q \in Procs \ {p} : cmd'[q] = cmd[q]
      /\ call' = call /\ latest' = latest /\ faults' = faults
      /\ temps' = temps /\ before' = before /\ faults \in Nat
  BY <1>4 DEF RemoveTrace, IInv, CommandType
<1> HIDE DEF m
<1>6. t \in Traces /\ t \in Paths /\ t \notin ReportPaths /\ t # "trace_manifest"
      /\ "trace_manifest" \in Paths /\ Traces \subseteq Paths
      /\ t \in cmd[p].stale /\ t \notin cmd[p].selected
  <2>1. t \in Traces /\ t \in cmd[p].stale /\ t \notin cmd[p].selected
    BY <1>0, <1>1 DEF ProcInv, CommandInv, CommandRecord
  <2> QED
    BY <2>1, FixedPaths, TracesAssumption
<1>7. disk \in [Paths -> WP!AllContents]
  BY DEF IInv, WP!WriterInv, WP!TypeOK
<1>8. disk'[t] = Absent /\ \A g \in Paths \ {t} : disk'[g] = disk[g]
  BY <1>1, <1>6, <1>7
<1>9. WP!WriterInv'
  <2>1. disk' \in [Paths -> WP!AllContents]
    BY <1>1, <1>7 DEF WP!AllContents
  <2>2. WP!TypeOK'
    BY <1>5, <2>1 DEF IInv, WP!WriterInv, WP!TypeOK, WP!Prepared
  <2>3. WP!DiskInv'
    BY <1>5, <1>8 DEF IInv, WP!WriterInv, WP!DiskInv, WP!Content
  <2> QED
    BY <1>5, <2>2, <2>3 DEF IInv, WP!WriterInv
<1>10. call[p].pc = "returned" /\ cmd[p].kind # "none" /\ cmd[p].phase # "idle"
       /\ cmd[p].exit # "success"
  BY <1>0, <1>1 DEF ProcInv, PhaseInv, CommandInv
<1>11. call[p].files = CommandPlan(p) /\ call[p].renamed > 0
       /\ call[p].renamed = Len(call[p].files)
  BY <1>0, <1>10, CompletePlan
<1>12. \A i \in 1 .. Len(call[p].files) :
          call[p].files[i] # t /\ call[p].files[i] \in Paths
  <2> SUFFICES ASSUME NEW i \in 1 .. Len(call[p].files)
               PROVE  call[p].files[i] # t /\ call[p].files[i] \in Paths
    OBVIOUS
  <2>1. call[p].files[i] \in Entries(CommandPlan(p))
    BY <1>11 DEF Entries
  <2>2. CASE cmd[p].kind = "export"
    BY <1>0, <1>6, <1>10, <2>1, <2>2, CommandPlanLists, FixedPaths DEF Lists
  <2>3. CASE cmd[p].kind # "export"
    <3>1. PICK S \in SUBSET ReportPaths : Lists(CommandPlan(p), S \cup cmd[p].selected)
      BY <1>0, <1>10, <2>3, CommandPlanLists
    <3>2. cmd[p].selected \subseteq Traces
      BY <1>0, CommandAssumption DEF CommandRecord
    <3> QED
      BY <1>6, <2>1, <3>1, <3>2, FixedPaths DEF Lists
  <2> QED
    BY <2>2, <2>3
<1>13. CommandType'
  BY <1>2, <1>4, <1>5 DEF IInv, CommandType, W!AllContents
<1>14. ProcInv(p)'
  <2>1. CommandPlan(p)' = CommandPlan(p) /\ PlanAccepted(p)' = PlanAccepted(p)
    BY <1>3, <1>5, SameCommand
  <2>2. PlanInv(p)'
    BY <1>0, <1>5, <2>1 DEF ProcInv, PlanInv
  <2>3. PhaseInv(p)' /\ FaultInv(p)'
    BY <1>0, <1>3, <1>5 DEF ProcInv, PhaseInv, FaultInv
  <2>4. /\ cmd[p].stale \cap cmd[p].selected = {} /\ cmd[p].removing \subseteq cmd[p].stale
        /\ cmd[p].kind # "scan" => cmd[p].input = Absent
    BY <1>0 DEF ProcInv, CommandInv
  <2>5. /\ m.removing \subseteq m.stale /\ m.stale \cap m.selected = {}
        /\ m.kind # "scan" => m.input = Absent
        /\ m.kind # "none" /\ m.exit # "success"
        /\ m.phase \notin {"idle", "begun", "prepared", "writing"}
        /\ call'[p].pc = "returned"
    BY <1>0, <1>3, <1>5, <1>10, <2>4
  <2>6. CommandInv(p)'
    BY <1>5, <2>5 DEF CommandInv
  <2> QED
    BY <2>2, <2>3, <2>6 DEF ProcInv
<1>15. \A x \in TracesOnDisk' : x \in TracesOnDisk /\ x # t
  BY <1>6, <1>8 DEF TracesOnDisk
<1>16. StandsInv(p)'
  <2>1. \A i \in 1 .. call[p].renamed : disk'[call[p].files[i]] = <<p, i>>
    BY <1>0, <1>8, <1>11, <1>12, SameContent DEF StandsInv
  <2>2. call[p].renamed # 0
    BY <1>11
  <2>3. (/\ m.phase \in {"removing", "exited"} /\ call[p].pc = "returned" /\ ~m.rmFailed)
           => TracesOnDisk' \cap m.stale \subseteq m.removing
    BY <1>0, <1>3, <1>15 DEF StandsInv
  <2> QED
    BY <1>5, <2>1, <2>2, <2>3 DEF StandsInv, W!Content
<1>17. TrackedInv(p)'
  <2>1. Tracked(disk["trace_manifest"])' = Tracked(disk["trace_manifest"])
    BY <1>3, <1>5, <1>6, <1>8, SameTracked
  <2>2. TracesOnDisk' \subseteq TracesOnDisk
    BY <1>15
  <2> QED
    BY <1>0, <1>3, <1>5, <1>10, <2>1, <2>2 DEF TrackedInv
<1>18. cmd'[p].phase # "idle"
  BY <1>3, <1>5, <1>10
<1> QED
  BY <1>0, <1>5, <1>9, <1>13, <1>14, <1>16, <1>17, <1>18, Frame

(* The writer is given the accepted plan; nothing is renamed yet. *)
LEMMA PublishStep ==
    ASSUME IInv, NEW p \in Procs, Publish(p)
    PROVE  IInv'
<1> DEFINE m == [cmd[p] EXCEPT !.phase = "writing"]
           files == CommandPlan(p)
<1>0. cmd[p] \in CommandRecord /\ cmd[p].phase = "prepared" /\ ProcInv(p)
      /\ latest = {p} /\ TrackedInv(p) /\ StandsInv(p) /\ PlanAccepted(p)
      /\ call[p].pc = "idle" /\ call[p].renamed = 0 /\ cmd[p].kind # "none"
      /\ cmd[p].exit # "success"
  BY Known DEF Publish, Alive, Active, ProcInv, PhaseInv, CommandInv
<1>1. files \in Seq(Paths) /\ files # <<>>
  BY <1>0, CommandPlanLists DEF Lists
<1>2. m \in CommandRecord
  BY <1>0 DEF CommandRecord
<1>3. /\ m.phase = "writing" /\ m.kind = cmd[p].kind /\ m.exit = cmd[p].exit
      /\ m.selected = cmd[p].selected /\ m.optional = cmd[p].optional
      /\ m.input = cmd[p].input /\ m.removing = cmd[p].removing
      /\ m.rmFailed = cmd[p].rmFailed /\ m.stale = cmd[p].stale
  BY <1>0 DEF CommandRecord
<1>4. cmd' = [cmd EXCEPT ![p] = m]
  BY DEF Publish, IInv, CommandType
<1>5. /\ cmd'[p] = m /\ \A q \in Procs \ {p} : cmd'[q] = cmd[q]
      /\ latest' = latest /\ before' = before /\ faults' = faults /\ faults \in Nat
  BY <1>4 DEF Publish, IInv, CommandType
<1> HIDE DEF m, files
<1>6. WP!Invoke(p, files)
  BY SameWriter DEF Publish, files
<1>7. WP!WriterInv' /\ WP!KeepsRenamed
  BY <1>1, <1>6, MarkersAssumption, WP!InvokeStep DEF IInv
<1>8. /\ \A q \in Procs \ {p} : call'[q] = call[q]
      /\ call'[p].files = files /\ call'[p].pc = "staging" /\ call'[p].renamed = 0
      /\ call'[p].error = call[p].error /\ call'[p].rmFailed = call[p].rmFailed
  <2>1. call \in [Procs -> WP!CallRecord]
    BY DEF IInv, WP!WriterInv, WP!TypeOK
  <2> QED
    BY <1>0, <1>6, <2>1 DEF WP!Invoke, WP!CallRecord
<1>9. disk' = disk
  BY <1>7 DEF WP!KeepsRenamed
<1>10. CommandType'
  BY <1>2, <1>4, <1>5 DEF IInv, CommandType, W!AllContents
<1>11. ProcInv(p)'
  <2>1. CommandPlan(p)' = files /\ PlanAccepted(p)' = PlanAccepted(p)
    BY <1>3, <1>5, SameCommand DEF files
  <2>2. PlanInv(p)'
    BY <1>0, <1>1, <1>8, <2>1 DEF PlanInv
  <2>3. PhaseInv(p)' /\ FaultInv(p)'
    BY <1>0, <1>3, <1>5, <1>8 DEF ProcInv, PhaseInv, FaultInv
  <2>4. CommandInv(p)'
    BY <1>0, <1>3, <1>5 DEF ProcInv, CommandInv
  <2> QED
    BY <2>2, <2>3, <2>4 DEF ProcInv
<1>12. StandsInv(p)'
  BY <1>0, <1>3, <1>5, <1>8, <1>9 DEF StandsInv
<1>13. TrackedInv(p)'
  <2>1. Tracked(disk["trace_manifest"])' = Tracked(disk["trace_manifest"])
    BY <1>3, <1>5, <1>9, SameTracked
  <2>2. TracesOnDisk' = TracesOnDisk
    BY <1>9 DEF TracesOnDisk
  <2> QED
    BY <1>0, <1>3, <1>5, <1>8, <2>1, <2>2 DEF TrackedInv
<1>14. cmd'[p].phase # "idle"
  BY <1>3, <1>5
<1> QED
  BY <1>0, <1>5, <1>7, <1>8, <1>10, <1>11, <1>12, <1>13, <1>14, Frame

(* When no command is alive and no fault has happened, the trace manifest
   tracks every trace on disk. *)
LEMMA TrackedAtRest ==
    ASSUME IInv, AtRest, faults = 0
    PROVE  TracesOnDisk \subseteq Tracked(disk["trace_manifest"])
<1>1. CASE latest = {}
  BY <1>1 DEF IInv, TurnInv
<1>2. CASE latest # {}
  <2>1. PICK r \in Procs : latest = {r}
    BY <1>2 DEF IInv, TurnInv
  <2>2. ProcInv(r) /\ TrackedInv(r) /\ cmd[r].phase # "idle" /\ ~Active(r)
        /\ cmd[r] \in CommandRecord
    BY <2>1, Known DEF IInv, TurnInv, AtRest, Alive
  <2>3. cmd[r].phase \in {"exited", "dead"}
    BY <2>2 DEF Active, CommandRecord
  <2>4. cmd[r].phase # "dead"
    BY <2>2 DEF ProcInv, PhaseInv, FaultInv
  <2> QED
    BY <2>2, <2>3, <2>4 DEF TrackedInv
<1> QED
  BY <1>1, <1>2

(* A command begins when no other is alive: what the last one left on disk is
   what it starts from. *)
LEMMA BeginStep ==
    ASSUME IInv, NEW p \in Procs, Begin(p)
    PROVE  IInv'
<1>1. PICK kind \in Kinds, selected \in Selections \cup {{}},
           optional \in Recipes \cup {{}}, input \in Inputs \cup {Absent} :
         /\ IF kind = "scan" THEN optional \in Recipes ELSE optional = {}
         /\ "openapi" \notin optional => input = Absent
         /\ cmd' = [cmd EXCEPT ![p] = [@ EXCEPT !.phase = "begun",
                                               !.kind = kind,
                                               !.selected = selected,
                                               !.optional = optional,
                                               !.input = input]]
  BY DEF Begin
<1> DEFINE m == [cmd[p] EXCEPT !.phase = "begun", !.kind = kind, !.selected = selected,
                               !.optional = optional, !.input = input]
<1>0. cmd[p] \in CommandRecord /\ cmd[p].phase = "idle" /\ ProcInv(p)
      /\ call[p].pc = "idle" /\ call[p].renamed = 0 /\ AtRest
      /\ cmd[p].stale = {} /\ cmd[p].removing = {} /\ ~cmd[p].rmFailed
      /\ cmd[p].exit # "success" /\ call[p].files = <<>>
  BY Known DEF Begin, AtRest, ProcInv, PhaseInv, CommandInv, PlanInv
<1>2. kind \in {"scan", "report", "export"}
  BY CommandAssumption
<1>3. m \in CommandRecord
  BY <1>0, <1>2 DEF CommandRecord
<1>4. /\ m.phase = "begun" /\ m.kind = kind /\ m.exit = cmd[p].exit
      /\ m.selected = selected /\ m.optional = optional
      /\ m.input = input /\ m.removing = cmd[p].removing
      /\ m.rmFailed = cmd[p].rmFailed /\ m.stale = cmd[p].stale
  BY <1>0 DEF CommandRecord
<1>5. cmd' = [cmd EXCEPT ![p] = m]
  BY <1>1, Zenon
<1>6. /\ cmd'[p] = m /\ \A q \in Procs \ {p} : cmd'[q] = cmd[q]
      /\ latest' = {p} /\ before' = disk /\ faults' = faults /\ faults \in Nat
      /\ disk' = disk /\ temps' = temps /\ call' = call
  BY <1>5 DEF Begin, IInv, CommandType, writer
<1>7. kind # "scan" => input = Absent
  BY <1>1
<1> HIDE DEF m
<1>8. WP!WriterInv'
  BY <1>6 DEF IInv, WP!WriterInv, WP!TypeOK, WP!DiskInv, WP!Prepared, WP!Content
<1>9. CommandType'
  <2>1. disk \in [Paths -> W!AllContents]
    BY SameContent DEF IInv, WP!WriterInv, WP!TypeOK
  <2> QED
    BY <1>3, <1>5, <1>6, <2>1 DEF IInv, CommandType, W!AllContents
<1>10. ASSUME NEW q \in Procs \ {p} PROVE ProcInv(q)'
  <2>1. cmd'[q] = cmd[q] /\ call'[q] = call[q] /\ ProcInv(q)
    BY <1>6 DEF IInv
  <2>2. CommandPlan(q)' = CommandPlan(q) /\ PlanAccepted(q)' = PlanAccepted(q)
    BY <2>1, SameCommand
  <2>3. PhaseInv(q)' /\ CommandInv(q)'
    BY <2>1 DEF ProcInv, PhaseInv, CommandInv
  <2>4. PlanInv(q)'
    BY <2>1, <2>2 DEF ProcInv, PlanInv
  <2>5. FaultInv(q)'
    BY <1>6, <2>1 DEF ProcInv, FaultInv
  <2> QED
    BY <2>3, <2>4, <2>5 DEF ProcInv
<1>11. ProcInv(p)'
  <2>1. PhaseInv(p)' /\ FaultInv(p)' /\ PlanInv(p)'
    BY <1>0, <1>4, <1>6 DEF ProcInv, PhaseInv, FaultInv, PlanInv
  <2>2. CommandInv(p)'
    BY <1>0, <1>2, <1>4, <1>6, <1>7 DEF CommandInv
  <2> QED
    BY <2>1, <2>2 DEF ProcInv
<1>12. TurnInv'
  <2>1. \A q \in Procs \ {p} : ~Alive(q)'
    BY <1>0, <1>6 DEF AtRest, Alive, Active
  <2> QED
    BY <1>4, <1>6, <2>1 DEF TurnInv
<1>13. StandsInv(p)'
  BY <1>0, <1>4, <1>6 DEF StandsInv
<1>14. TrackedInv(p)'
  <2>1. Tracked(disk["trace_manifest"])' = Tracked(disk["trace_manifest"])
    BY <1>0, <1>6, SameTracked
  <2>2. TracesOnDisk' = TracesOnDisk
    BY <1>6 DEF TracesOnDisk
  <2>3. faults = 0 => TracesOnDisk \subseteq Tracked(disk["trace_manifest"])
    BY <1>0, TrackedAtRest
  <2> QED
    BY <1>0, <1>4, <1>6, <2>1, <2>2, <2>3 DEF TrackedInv
<1> QED
  BY <1>6, <1>8, <1>9, <1>10, <1>11, <1>12, <1>13, <1>14 DEF IInv

(* A stuttering step keeps the invariant. *)
LEMMA StutterStep ==
    ASSUME IInv, UNCHANGED vars
    PROVE  IInv'
<1>1. /\ disk' = disk /\ temps' = temps /\ call' = call /\ cmd' = cmd
      /\ latest' = latest /\ before' = before /\ faults' = faults
  BY DEF vars, writer
<1>2. WP!WriterInv'
  BY <1>1 DEF IInv, WP!WriterInv, WP!TypeOK, WP!DiskInv, WP!Prepared, WP!Content
<1>3. CommandType'
  BY <1>1 DEF IInv, CommandType, W!AllContents
<1>4. ASSUME NEW q \in Procs PROVE ProcInv(q)'
  <2>1. CommandPlan(q)' = CommandPlan(q) /\ PlanAccepted(q)' = PlanAccepted(q)
    BY <1>1, SameCommand
  <2> QED
    BY <1>1, <2>1 DEF IInv, ProcInv, PhaseInv, CommandInv, PlanInv, FaultInv
<1>5. TracesOnDisk' = TracesOnDisk
      /\ Tracked(disk["trace_manifest"])' = Tracked(disk["trace_manifest"])
  BY <1>1 DEF TracesOnDisk, Tracked
<1>6. TurnInv'
  BY <1>1, <1>5 DEF IInv, TurnInv, Alive, Active
<1>7. \A q \in latest' : StandsInv(q)' /\ TrackedInv(q)'
  BY <1>1, <1>5 DEF IInv, StandsInv, TrackedInv, W!Content
<1> QED
  BY <1>2, <1>3, <1>4, <1>6, <1>7 DEF IInv

----------------------------------------------------------------------------
(* The theorems.                                                            *)

(* The invariant holds at the start, *)
LEMMA InitInv == Init => IInv
<1> SUFFICES ASSUME Init PROVE IInv
  OBVIOUS
<1>1. /\ disk = [f \in Paths |-> Absent] /\ cmd = [p \in Procs |-> IdleCommand]
      /\ latest = {} /\ before = disk /\ faults = 0
      /\ \A p \in Procs : call[p] = W!IdleCall
  BY DEF Init, W!Init
<1>2. WP!Init
  BY DEF Init, W!Init, WP!Init, W!IdleCall, WP!IdleCall
<1>3. WP!WriterInv
  BY <1>2, MarkersAssumption, WP!InitInv DEF WP!IInv
<1>4. IdleCommand \in CommandRecord
  BY DEF IdleCommand, CommandRecord
<1>5. CommandType
  BY <1>1, <1>4 DEF CommandType, W!AllContents
<1>6. ASSUME NEW p \in Procs PROVE ProcInv(p)
  <2>1. /\ call[p].pc = "idle" /\ call[p].files = <<>> /\ call[p].error = "none"
        /\ call[p].rmFailed = FALSE
    BY <1>1 DEF W!IdleCall
  <2>2. /\ cmd[p].phase = "idle" /\ cmd[p].stale = {} /\ cmd[p].removing = {}
        /\ cmd[p].rmFailed = FALSE /\ cmd[p].exit = "none" /\ cmd[p].input = Absent
    BY <1>1 DEF IdleCommand
  <2> QED
    BY <2>1, <2>2 DEF ProcInv, PhaseInv, CommandInv, PlanInv, FaultInv
<1>7. TurnInv
  <2>1. \A p \in Procs : cmd[p].phase = "idle"
    BY <1>1 DEF IdleCommand
  <2>2. TracesOnDisk = {}
    BY <1>1, FixedPaths DEF TracesOnDisk
  <2> QED
    BY <1>1, <2>1, <2>2 DEF TurnInv, Alive, Active
<1> QED
  BY <1>1, <1>3, <1>5, <1>6, <1>7 DEF IInv

(* and every step keeps it. *)
LEMMA NextInv == IInv /\ [Next]_vars => IInv'
BY BeginStep, ErrorSteps, ReadManifestStep, PublishStep, WriteStep, StartCleanupStep,
   RemoveTraceStep, SucceedStep, WriteFailsStep, WriteAbortedStep, RemoveTraceFailsStep,
   InterruptStep, KillStep, StutterStep DEF Next, Command

(* The invariant holds in every state the commands reach. *)
THEOREM Invariance == Spec => []IInv
BY InitInv, NextInv, PTL DEF Spec

(* What a process put on disk are entries of its accepted plan. *)
LEMMA PublishedByPlan ==
    ASSUME IInv, NEW p \in Procs, NEW f \in Paths, disk[f] \in {p} \X Nat
    PROVE  /\ call[p].files = CommandPlan(p) /\ PlanAccepted(p)
           /\ cmd[p] \in CommandRecord /\ ProcInv(p) /\ cmd[p].kind # "none"
           /\ call[p].renamed \in Nat /\ call[p].renamed <= Len(call[p].files)
           /\ Len(call[p].files) \in Nat
           /\ \E i \in 1 .. call[p].renamed : disk[f] = <<p, i>> /\ call[p].files[i] = f
<1>1. PICK i \in 1 .. call[p].renamed : disk[f] = <<p, i>> /\ call[p].files[i] = f
  BY OnDisk
<1>2. /\ call[p] \in WP!CallRecord /\ WP!CallInv(call[p], temps[p]) /\ ProcInv(p)
      /\ cmd[p] \in CommandRecord /\ call[p].renamed \in Nat
      /\ temps[p] \in Seq(WP!TempStates)
  BY Known DEF IInv, WP!WriterInv, WP!TypeOK
<1>3. call[p].files \in Seq(Paths)
  BY <1>2, EmptySeq DEF WP!CallRecord
<1>4. Len(call[p].files) \in Nat /\ Len(temps[p]) \in Nat
  BY <1>2, <1>3, LenProperties
<1>5. call[p].renamed <= Len(call[p].files)
  BY <1>2, <1>4 DEF WP!CallInv, WP!CallType
<1>6. Len(call[p].files) > 0
  BY <1>1, <1>2, <1>4, <1>5
<1>7. call[p].files # <<>>
  BY <1>6, EmptySeq
<1>8. cmd[p].kind # "none"
  BY <1>2, <1>7 DEF ProcInv, PhaseInv, CommandInv, PlanInv
<1> QED
  BY <1>1, <1>2, <1>4, <1>5, <1>7, <1>8 DEF ProcInv, PlanInv

(* A scan never replaces the OpenAPI document it reads: the collision check sees
   every path the plan may write to, for any artifacts, traces and inputs. *)
THEOREM InputIsSafe == Spec => []InputSurvives
<1>1. ASSUME IInv PROVE InputSurvives
  <2> SUFFICES ASSUME NEW p \in Procs, NEW f \in Protected(p), f \in W!PublishedBy(p)
               PROVE  FALSE
    BY DEF InputSurvives
  <2>1. f \in Paths /\ disk[f] \in {p} \X Nat
    BY DEF W!PublishedBy
  <2>2. PICK i \in 1 .. call[p].renamed : disk[f] = <<p, i>> /\ call[p].files[i] = f
    BY <1>1, <2>1, OnDisk
  <2>3. /\ call[p].files = CommandPlan(p) /\ PlanAccepted(p) /\ ProcInv(p)
        /\ cmd[p] \in CommandRecord /\ i \in 1 .. Len(CommandPlan(p))
    BY <1>1, <2>1, <2>2, PublishedByPlan
  <2>4. cmd[p].kind = "scan"
    BY <2>3 DEF ProcInv, CommandInv, Protected
  <2> QED
    BY <2>2, <2>3, <2>4, AcceptedScan
<1> QED
  BY <1>1, Invariance, PTL

(* The bundle manifest vouches for the bundle: from the moment it is in place
   until another command starts, every artifact it lists is on disk as the scan
   wrote it, whatever fails or is killed in between. *)
THEOREM BundleIsIntact == Spec => []LatestBundleIntact
<1>1. ASSUME IInv PROVE LatestBundleIntact
  <2> SUFFICES ASSUME NEW p \in BundleOf \cap latest PROVE Intact(p)
    BY DEF LatestBundleIntact
  <2>1. p \in Procs /\ disk["bundle"] \in {p} \X Nat /\ "bundle" \in Paths
    BY FixedPaths DEF BundleOf
  <2>2. PICK i \in 1 .. call[p].renamed :
           disk["bundle"] = <<p, i>> /\ call[p].files[i] = "bundle"
    BY <1>1, <2>1, OnDisk
  <2>3. /\ call[p].files = CommandPlan(p) /\ PlanAccepted(p)
        /\ cmd[p] \in CommandRecord /\ cmd[p].kind # "none"
        /\ call[p].renamed \in Nat /\ Len(call[p].files) \in Nat
        /\ call[p].renamed <= Len(call[p].files)
    BY <1>1, <2>1, PublishedByPlan
  <2>4. i \in 1 .. Len(CommandPlan(p)) /\ "bundle" \in Entries(CommandPlan(p))
    BY <2>2, <2>3 DEF Entries
  <2>5. cmd[p].kind # "export"
    BY <2>1, <2>3, <2>4, CommandPlanLists DEF Lists
  <2>6. cmd[p].kind = "scan"
    <3>1. PICK S \in SUBSET ReportPaths :
             /\ Lists(CommandPlan(p), S \cup cmd[p].selected)
             /\ cmd[p].kind # "scan" => "bundle" \notin S
      BY <2>1, <2>3, <2>5, CommandPlanLists
    <3>2. "bundle" \notin cmd[p].selected
      BY <2>3, CommandAssumption, TracesAssumption, FixedPaths DEF CommandRecord
    <3> QED
      BY <2>4, <3>1, <3>2 DEF Lists
  <2>7. i = Len(call[p].files)
    BY <2>1, <2>2, <2>3, <2>4, <2>6, AcceptedScan
  <2>8. call[p].renamed = Len(call[p].files)
    BY <2>2, <2>3, <2>7
  <2> QED
    BY <1>1, <2>8 DEF IInv, StandsInv, Intact
<1> QED
  BY <1>1, Invariance, PTL

(* What an exit says of the disk is true: a command that ended before its first
   rename left it untouched, a success is complete and without stale traces,
   and without faults exactly its own traces are left. *)
THEOREM ExitsTellTheDisk == Spec => []ExitsAreHonest
<1>1. ASSUME IInv PROVE ExitsAreHonest
  <2> SUFFICES ASSUME NEW p \in latest
               PROVE  /\ ~Active(p) /\ call[p].renamed = 0 => disk = before
                      /\ cmd[p].exit = "success" =>
                            /\ Intact(p) /\ TracesOnDisk \cap cmd[p].stale = {}
                            /\ (cmd[p].kind # "export" /\ faults = 0)
                                  => TracesOnDisk = cmd[p].selected
    BY DEF ExitsAreHonest
  <2>1. p \in Procs /\ latest = {p} /\ StandsInv(p) /\ TrackedInv(p) /\ ProcInv(p)
        /\ cmd[p] \in CommandRecord
    BY <1>1, Known DEF IInv, TurnInv, CommandType
  <2>2. ASSUME cmd[p].exit = "success"
        PROVE  Intact(p) /\ TracesOnDisk \cap cmd[p].stale = {}
    BY <1>1, <2>1, <2>2, CompletePlan DEF ProcInv, CommandInv, StandsInv
  <2>3. ASSUME cmd[p].exit = "success", cmd[p].kind # "export", faults = 0
        PROVE  TracesOnDisk = cmd[p].selected
    <3>1. TracesOnDisk \subseteq cmd[p].selected
      BY <2>1, <2>3 DEF TrackedInv
    <3>2. call[p].pc = "returned" /\ cmd[p].kind # "none"
      BY <2>1, <2>3 DEF ProcInv, CommandInv
    <3>3. call[p].files = CommandPlan(p)
      BY <1>1, <2>1, <3>2, CompletePlan
    <3>4. PICK S \in SUBSET ReportPaths : Lists(CommandPlan(p), S \cup cmd[p].selected)
      BY <2>1, <2>3, <3>2, CommandPlanLists
    <3>5. ASSUME NEW x \in cmd[p].selected PROVE x \in TracesOnDisk
      <4>1. PICK i \in 1 .. Len(call[p].files) : call[p].files[i] = x
        BY <3>3, <3>4 DEF Lists, Entries
      <4>2. disk[x] = <<p, i>> /\ i \in Nat
        BY <2>2, <2>3, <4>1, SameContent DEF Intact
      <4>3. disk[x] # Absent
        BY <2>1, <4>2, MarkersAssumption
      <4>4. x \in Traces
        BY <2>1, CommandAssumption DEF CommandRecord
      <4> QED
        BY <4>3, <4>4 DEF TracesOnDisk
    <3> QED
      BY <3>1, <3>5
  <2> QED
    BY <2>1, <2>2, <2>3 DEF StandsInv
<1> QED
  BY <1>1, Invariance, PTL
=============================================================================
