---------------------------- MODULE Publication ----------------------------
(***************************************************************************)
(* Commands that publish into one output directory: scan, report and the   *)
(* single-artifact exports (src/src/cli/commands, src/src/output).         *)
(*                                                                         *)
(* Each process runs one command.  A scan and a report read the hidden     *)
(* trace manifest to learn which trace files an earlier run left, publish  *)
(* their plan through the batch writer of AtomicFiles, and then remove the *)
(* traces no longer selected.  Only a scan publishes the bundle manifest.  *)
(* What file i of process p contains is determined by p's command, so the  *)
(* pair <<p, i>> AtomicFiles puts on disk stands for it.                   *)
(***************************************************************************)
EXTENDS Naturals, Sequences, FiniteSets, SequencesExt

CONSTANTS
    Procs,      \* processes, each running one command
    Traces,     \* endpoint trace files a command may generate
    Selections, \* sets of traces an analysis may select
    Recipes,    \* sets of optional reporters a scan may be asked for
    Kinds,      \* commands in use: subset of {"scan", "report", "export"}
    Inputs,     \* where a scan's OpenAPI input may be (Absent: none)
    MaxFaults,  \* bound on I/O errors and kills
    Absent, Torn

ASSUME CommandAssumption ==
    /\ Kinds \subseteq {"scan", "report", "export"}
    /\ Selections \subseteq SUBSET Traces
    /\ MaxFaults \in Nat

\* An analysis has finitely many endpoints.
ASSUME SelectionsAssumption == \A s \in Selections : IsFiniteSet(s)

ASSUME MarkersAssumption ==
    /\ Absent # Torn
    /\ Absent \notin Procs \X Nat
    /\ Torn \notin Procs \X Nat

VARIABLES
    disk, temps, call,  \* the batch writer, see AtomicFiles
    cmd,                \* cmd[p]: the state of p's command
    latest,             \* the process started last, as a set of at most one
    before,             \* the disk when it was started
    faults              \* I/O errors and kills so far

writer == <<disk, temps, call>>
vars == <<writer, cmd, latest, before, faults>>

Plan == INSTANCE ArtifactPlan

ReportPaths == Plan!SingleKinds \cup {Plan!BundlePath}
Paths == ReportPaths \cup Traces

\* Trace files have a directory of their own.
ASSUME TracesAssumption == Traces \cap ReportPaths = {}

W == INSTANCE AtomicFiles WITH Plans <- Seq(Paths)

\* selected are the traces the command generates, optional its further
\* artifacts, stale the traces to remove by the manifest read, removing those of
\* them whose rm is in flight.
IdleCommand ==
    [ phase |-> "idle", kind |-> "none", selected |-> {}, optional |-> {},
      input |-> Absent, stale |-> {}, removing |-> {}, rmFailed |-> FALSE,
      exit |-> "none" ]

Active(p) == cmd[p].phase \in {"begun", "prepared", "writing", "removing"}

\* Setting process.exitCode does not end a process: rm calls that are still in
\* flight when the command is over keep it alive until they have settled.
Alive(p) ==
    \/ Active(p)
    \/ cmd[p].phase = "exited" /\ (cmd[p].removing # {} \/ call[p].removing # {})

Init ==
    /\ W!Init
    /\ cmd = [p \in Procs |-> IdleCommand]
    /\ latest = {}
    /\ before = disk
    /\ faults = 0

----------------------------------------------------------------------------
(* What a command publishes.                                               *)

TraceSeq(p) == SetToSeq(cmd[p].selected)

ScanPlan(p) == Plan!PublicationPaths(Plan!ScanArtifacts(TraceSeq(p), cmd[p].optional))

\* report publishes the Markdown artifacts and the trace manifest alone.
ReportPlan(p) ==
    <<"endpoint_catalogue", "contract_report">> \o TraceSeq(p) \o <<"trace_manifest">>

ExportPlan == <<"offline_graph">>

CommandPlan(p) ==
    CASE cmd[p].kind = "scan" -> ScanPlan(p)
      [] cmd[p].kind = "report" -> ReportPlan(p)
      [] cmd[p].kind = "export" -> ExportPlan

\* The trace files a trace manifest tracks: a scan writes `finalContents`, a
\* report `pendingContents`, which keeps the traces it is about to remove.
Tracked(content) ==
    IF content \in Procs \X Nat
    THEN LET p == content[1] IN
         IF cmd[p].kind = "scan" THEN cmd[p].selected
         ELSE cmd[p].selected \cup cmd[p].stale
    ELSE {}

----------------------------------------------------------------------------
(* The commands.                                                           *)

Exit(p, code) ==
    cmd' = [cmd EXCEPT ![p] = [@ EXCEPT !.phase = "exited", !.exit = code]]

\* The catch block of every command: an aborted signal makes any error a
\* cancellation (isCancellation).
ExitOnError(p) == Exit(p, IF call[p].aborted THEN "canceled" ELSE "error")

\* Commands on one output directory are run one after the other.
Begin(p) ==
    /\ cmd[p].phase = "idle"
    /\ \A q \in Procs : ~Alive(q)
    /\ \E kind \in Kinds, selected \in Selections \cup {{}},
          optional \in Recipes \cup {{}}, input \in Inputs \cup {Absent} :
          /\ IF kind = "scan" THEN optional \in Recipes ELSE optional = {}
          /\ "openapi" \notin optional => input = Absent
          /\ IF kind = "export" THEN selected = {} ELSE selected \in Selections
          /\ cmd' = [cmd EXCEPT ![p] = [@ EXCEPT !.phase = "begun",
                                                 !.kind = kind,
                                                 !.selected = selected,
                                                 !.optional = optional,
                                                 !.input = input]]
    /\ latest' = {p}
    /\ before' = disk
    /\ UNCHANGED <<writer, faults>>

\* Reading inputs, analyzing and rendering may fail, or stop at one of the
\* checks of the signal; nothing has been written yet.
PreparationFails(p) ==
    /\ cmd[p].phase \in {"begun", "prepared"}
    /\ ExitOnError(p)
    /\ UNCHANGED <<writer, latest, before, faults>>

\* Wrong: a scan does not look for the traces of earlier commands.
ReadManifestInReportsOnly(p) ==
    /\ cmd[p].phase = "begun"
    /\ cmd' = [cmd EXCEPT ![p] = [@ EXCEPT
                  !.phase = "prepared",
                  !.stale = IF cmd[p].kind # "report" THEN {}
                            ELSE Tracked(disk["trace_manifest"]) \ cmd[p].selected]]
    /\ UNCHANGED <<writer, latest, before, faults>>

\* prepareReportManifestUpdate: the stale traces are those of the manifest on
\* disk that the command does not select.  Exports do not read it.
ReadManifest(p) ==
    /\ cmd[p].phase = "begun"
    /\ cmd' = [cmd EXCEPT ![p] = [@ EXCEPT
                  !.phase = "prepared",
                  !.stale = IF cmd[p].kind = "export" THEN {}
                            ELSE Tracked(disk["trace_manifest"]) \ cmd[p].selected]]
    /\ UNCHANGED <<writer, latest, before, faults>>

Protected(p) == {cmd[p].input} \ {Absent}

\* Collision and manifest checks of prepareArtifactPublication.
PlanAccepted(p) ==
    cmd[p].kind = "scan" =>
        LET artifacts == Plan!ScanArtifacts(TraceSeq(p), cmd[p].optional) IN
        /\ ~Plan!Collides(artifacts, Protected(p))
        /\ Plan!ValidManifest(Plan!ScanManifest(p, TraceSeq(p), cmd[p].optional))

RefusePlan(p) ==
    /\ cmd[p].phase = "prepared"
    /\ ~PlanAccepted(p)
    /\ ExitOnError(p)
    /\ UNCHANGED <<writer, latest, before, faults>>

Publish(p) ==
    /\ cmd[p].phase = "prepared"
    /\ PlanAccepted(p)
    /\ W!Invoke(p, CommandPlan(p))
    /\ cmd' = [cmd EXCEPT ![p].phase = "writing"]
    /\ UNCHANGED <<latest, before, faults>>

\* Temporaries belong to one process, so the order in which its rm calls settle
\* is not seen by anyone: here they settle first to last (AtomicFiles has every
\* order).
InOrder(p) ==
    \A i \in call[p].removing \ call'[p].removing : \A j \in call[p].removing : i <= j

Write(p) ==
    /\ cmd[p].phase = "writing" \/ call[p].pc = "threw"
    /\ W!Step(p)
    /\ InOrder(p)
    /\ UNCHANGED <<cmd, latest, before, faults>>

WriteFails(p) ==
    /\ cmd[p].phase = "writing" \/ call[p].pc = "threw"
    /\ faults < MaxFaults
    /\ W!IOError(p)
    /\ InOrder(p)
    /\ faults' = faults + 1
    /\ UNCHANGED <<cmd, latest, before>>

\* A write interrupted by the signal is no fault of the disk.
WriteAborted(p) ==
    /\ cmd[p].phase = "writing"
    /\ call[p].aborted
    /\ W!WriteTempFails(p)
    /\ call'[p].error = "abort"
    /\ UNCHANGED <<cmd, latest, before, faults>>

WriterThrew(p) ==
    /\ cmd[p].phase = "writing"
    /\ call[p].pc = "threw"
    /\ ExitOnError(p)
    /\ UNCHANGED <<writer, latest, before, faults>>

\* cleanupStaleTraceArtifacts: all rm calls are started at once.
StartCleanup(p) ==
    /\ cmd[p].phase = "writing"
    /\ call[p].pc = "returned"
    /\ cmd' = [cmd EXCEPT ![p] = [@ EXCEPT !.phase = "removing",
                                           !.removing = cmd[p].stale]]
    /\ UNCHANGED <<writer, latest, before, faults>>

RemoveTrace(p) ==
    /\ cmd[p].phase \in {"removing", "exited"}
    /\ \E t \in cmd[p].removing :
          /\ disk' = [disk EXCEPT ![t] = Absent]
          /\ cmd' = [cmd EXCEPT ![p].removing = @ \ {t}]
    /\ UNCHANGED <<temps, call, latest, before, faults>>

RemoveTraceFails(p) ==
    /\ cmd[p].phase \in {"removing", "exited"}
    /\ faults < MaxFaults
    /\ \E t \in cmd[p].removing :
          cmd' = [cmd EXCEPT ![p] = [@ EXCEPT !.removing = cmd[p].removing \ {t},
                                              !.rmFailed = TRUE]]
    /\ faults' = faults + 1
    /\ UNCHANGED <<writer, latest, before>>

\* Blocking policy findings turn the code of this exit into 8; the command
\* has done the same things.
Succeed(p) ==
    /\ cmd[p].phase = "removing"
    /\ cmd[p].removing = {} /\ ~cmd[p].rmFailed
    /\ Exit(p, "success")
    /\ UNCHANGED <<writer, latest, before, faults>>

CleanupThrew(p) ==
    /\ cmd[p].phase = "removing"
    /\ cmd[p].rmFailed
    /\ ExitOnError(p)
    /\ UNCHANGED <<writer, latest, before, faults>>

----------------------------------------------------------------------------
(* The environment.                                                        *)

Interrupt(p) ==
    /\ Active(p)
    /\ ~call[p].aborted
    /\ call' = [call EXCEPT ![p].aborted = TRUE]
    /\ UNCHANGED <<disk, temps, cmd, latest, before, faults>>

Kill(p) ==
    /\ Alive(p)
    /\ faults < MaxFaults
    /\ call' = [call EXCEPT ![p].pc = "dead"]
    /\ cmd' = [cmd EXCEPT ![p].phase = "dead"]
    /\ faults' = faults + 1
    /\ UNCHANGED <<disk, temps, latest, before>>

----------------------------------------------------------------------------

Command(p) ==
    \/ ReadManifest(p)
    \/ RefusePlan(p)
    \/ Publish(p)
    \/ Write(p)
    \/ WriterThrew(p)
    \/ StartCleanup(p)
    \/ RemoveTrace(p)
    \/ Succeed(p)
    \/ CleanupThrew(p)

Next ==
    \E p \in Procs :
        \/ Begin(p)
        \/ PreparationFails(p)
        \/ Command(p)
        \/ WriteFails(p)
        \/ WriteAborted(p)
        \/ RemoveTraceFails(p)
        \/ Interrupt(p)
        \/ Kill(p)

Spec == Init /\ [][Next]_vars

----------------------------------------------------------------------------
(* Properties.                                                             *)

AtRest == \A p \in Procs : ~Alive(p)

\* The process whose bundle manifest is on disk, as a set of at most one.
BundleOf == {p \in Procs : disk[Plan!BundlePath] \in {p} \X Nat}

\* Every artifact the plan of p lists is on disk as p wrote it.
Intact(p) ==
    \A i \in 1 .. Len(call[p].files) : disk[call[p].files[i]] = W!Content(p, i)

TracesOnDisk == {t \in Traces : disk[t] # Absent}

\* From the moment a scan's bundle manifest is in place until another command
\* starts, every artifact it lists is on disk as that scan wrote it; removing
\* stale traces does not disturb it.
LatestBundleIntact ==
    \A p \in BundleOf \cap latest : Intact(p)

\* What an exit says of the disk. A command that ended before its first rename
\* (a preparation error, a refused plan, cancellation, a full disk while
\* staging, a kill) has left every destination as it found it. Whatever failed,
\* a success is a complete publication, still on disk, without any of the
\* traces the manifest it read has listed beyond its own. As long as no command
\* was killed or met an I/O error, it leaves exactly the traces it selected:
\* those of earlier commands are gone, and none of its own is missing.
ExitsAreHonest ==
    \A p \in latest :
        /\ ~Active(p) /\ call[p].renamed = 0 => disk = before
        /\ cmd[p].exit = "success" =>
              /\ Intact(p) /\ TracesOnDisk \cap cmd[p].stale = {}
              /\ (cmd[p].kind # "export" /\ faults = 0) => TracesOnDisk = cmd[p].selected

\* The OpenAPI input is never replaced by an artifact of the scan that reads it.
InputSurvives ==
    \A p \in Procs : Protected(p) \cap W!PublishedBy(p) = {}

----------------------------------------------------------------------------
(* A statement of the documentation that the code does not keep.           *)

\* docs/cli-workflow.md: the hidden report manifest tracks generated traces so
\* that those no longer selected can be removed.  Between commands, it tracks
\* every trace on disk that belongs to a completed publication.
PublishedTracesStayTracked ==
    AtRest => \A t \in TracesOnDisk :
        call[disk[t][1]].pc = "returned" => t \in Tracked(disk["trace_manifest"])
=============================================================================
