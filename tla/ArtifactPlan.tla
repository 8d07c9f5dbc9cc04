---------------------------- MODULE ArtifactPlan ----------------------------
(***************************************************************************)
(* The plan of a selected scan bundle (src/src/output/artifact-plan.ts):   *)
(* which artifacts each reporter contributes, in which order they are      *)
(* published, the collision checks, and the schema the final bundle        *)
(* manifest has to satisfy.  Paths are modelled by the artifact kind, and  *)
(* by the trace file itself for endpoint traces; contents, hashes and byte *)
(* sizes are left out.                                                     *)
(***************************************************************************)
EXTENDS Naturals, Sequences, FiniteSets, SequencesExt

Reporters == {"analysis", "markdown", "policy", "graph", "controls", "openapi"}

RequiredKinds ==
    [ analysis |-> {"analysis", "run"},
      markdown |-> {"endpoint_catalogue", "contract_report", "trace_manifest"},
      policy   |-> {"policy_results"},
      graph    |-> {"offline_graph"},
      controls |-> {"control_evidence_json", "control_evidence_csv"},
      openapi  |-> {"openapi_enriched", "openapi_sidecar"} ]

SingleKinds == UNION {RequiredKinds[r] : r \in Reporters}

ArtifactKinds == SingleKinds \cup {"endpoint_trace"}

ReporterOf(kind) ==
    IF kind = "endpoint_trace" THEN "markdown"
    ELSE CHOOSE r \in Reporters : kind \in RequiredKinds[r]

Artifact(kind, path) == [kind |-> kind, path |-> path]

\* An artifact that is published at a fixed path.
Single(kind) == Artifact(kind, kind)

BundlePath == "bundle"

----------------------------------------------------------------------------
(* The artifacts of a scan, in the order scan.ts collects them.            *)

AnalysisArtifacts(traces) ==
    <<Single("endpoint_catalogue"), Single("contract_report")>>
    \o [i \in 1 .. Len(traces) |-> Artifact("endpoint_trace", traces[i])]
    \o <<Single("trace_manifest"), Single("run"), Single("analysis")>>

\* The optional reporters follow in this order, whatever was asked first.
OptionalArtifacts(reporter) ==
    CASE reporter = "policy" -> <<Single("policy_results")>>
      [] reporter = "graph" -> <<Single("offline_graph")>>
      [] reporter = "controls" ->
            <<Single("control_evidence_json"), Single("control_evidence_csv")>>
      [] reporter = "openapi" ->
            <<Single("openapi_enriched"), Single("openapi_sidecar")>>

Requested(reporter, optional) ==
    IF reporter \in optional THEN OptionalArtifacts(reporter) ELSE <<>>

ScanArtifacts(traces, optional) ==
    AnalysisArtifacts(traces)
    \o Requested("policy", optional) \o Requested("graph", optional)
    \o Requested("controls", optional) \o Requested("openapi", optional)

ReportersOf(optional) == {"analysis", "markdown"} \cup optional

PathsOf(artifacts) == [i \in 1 .. Len(artifacts) |-> artifacts[i].path]

\* Wrong: the marker is published before what it lists.
PublicationPathsMarkerFirst(artifacts) == <<BundlePath>> \o PathsOf(artifacts)

\* The commit marker goes after every artifact.
PublicationPaths(artifacts) == Append(PathsOf(artifacts), BundlePath)

----------------------------------------------------------------------------
(* What a publication is refused for, and what its manifest must satisfy.  *)

\* Wrong: only the artifacts are compared with the inputs, not the marker.
CollidesMarkerUnchecked(artifacts, protected) ==
    \E i \in DOMAIN artifacts :
       \/ artifacts[i].path \in protected \cup {BundlePath}
       \/ \E j \in 1 .. (i - 1) : artifacts[j].path = artifacts[i].path

Collides(artifacts, protected) ==
    \/ BundlePath \in protected
    \/ \E i \in DOMAIN artifacts :
          \/ artifacts[i].path \in protected \cup {BundlePath}
          \/ \E j \in 1 .. (i - 1) : artifacts[j].path = artifacts[i].path

Count(artifacts, kind) ==
    Cardinality({i \in DOMAIN artifacts : artifacts[i].kind = kind})

\* `inputs` is the sequence of input snapshots, [kind, id] each; the manifest
\* names the analysis it was derived from by `analysisId`.
ValidManifest(manifest) ==
    LET artifacts == manifest.artifacts
        inputs == manifest.inputs
        OfKind(kind) == {i \in DOMAIN inputs : inputs[i].kind = kind}
    IN  /\ \A i, j \in DOMAIN artifacts :
              artifacts[i].path = artifacts[j].path => i = j
        /\ \A i \in DOMAIN artifacts :
              ReporterOf(artifacts[i].kind) \in manifest.reporters
        /\ \A r \in manifest.reporters : \A kind \in RequiredKinds[r] :
              Count(artifacts, kind) = 1
        /\ Cardinality(OfKind("analysis")) = 1
        /\ \A i \in OfKind("analysis") : inputs[i].id = manifest.analysisId
        /\ Cardinality(OfKind("openapi")) =
              (IF "openapi" \in manifest.reporters THEN 1 ELSE 0)

ScanManifest(p, traces, optional) ==
    [ analysisId |-> p,
      reporters  |-> ReportersOf(optional),
      inputs     |-> <<[kind |-> "analysis", id |-> p]>>
                     \o (IF "openapi" \in optional
                         THEN <<[kind |-> "openapi", id |-> p]>> ELSE <<>>),
      artifacts  |-> ScanArtifacts(traces, optional) ]
=============================================================================
