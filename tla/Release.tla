------------------------------ MODULE Release ------------------------------
(***************************************************************************)
(* The release files in dist/ and the scripts that make, check, package    *)
(* and swap them: build_ef_handoff.py, verify_release_artifacts.py,        *)
(* generate_supply_chain_artifacts.py, run_rollback_drill.py and the       *)
(* policy checks before them.  A script is a list of steps, one a file it  *)
(* writes; it can be cut off between any two, and is then run anew.        *)
(*                                                                         *)
(* A file's hash is its content.  Contents are tuples, <<>> an absent file.*)
(***************************************************************************)
EXTENDS Naturals, Sequences, SequencesExt

CONSTANTS
  MaxVersions,  \* bound on the versions of the sources
  MaxBundles,   \* bound on the bundles built
  MaxCuts       \* bound on the scripts cut off

VARIABLES
  sources,   \* the version that is checked out
  policy,    \* network-readiness.manifest.json and RELEASE_NOTES.md
  dist,      \* the files in dist/
  current, previous,  \* the files in dist/rollback-drill/
  todo,      \* the steps left of the script that runs, <<>> when none does
  package,   \* the last ef-handoff-package.tar.gz, which is written last of all
  report,    \* what the drill that was started last says in its report
  bundles,   \* bundles built so far: a bundle's timestamp
  before,    \* history: dist when the drill took its snapshot
  cuts,      \* history: scripts cut off so far
  swapped    \* history: a drill was cut off while files were swapped, since the
             \* last bundle

release == <<sources, policy, dist, current, previous, todo, package, report,
             bundles, before, cuts, swapped>>

\* TRACKED_FILES and the waiver, in the order they are copied
Files == <<"tarball", "sha", "summary", "manifest", "status", "sbom", "provenance", "waiver">>
File  == ToSet(Files) \cup {"signatures"}

Absent == <<>>
Empty  == [f \in File |-> Absent]

-----------------------------------------------------------------------------
(* Checks *)

\* validate_network_readiness.py, which looks at REQUIRED_GATES and at no other
\* gate of the manifest, and validate_release_notes.py
Allowed ==
  /\ ~ (policy.eligible /\ "required" \in policy.blocking)
  /\ policy.notes # "sections missing"
  /\ policy.eligible => policy.notes = "complete"

\* The checksums are those of the files.
Agree(d) == d.sha = d.tarball /\ d.manifest = <<d.tarball, d.sha, d.summary>>

\* REQUIRED_RELEASE_ARTIFACTS of build_ef_handoff.py
Complete(d) == \A f \in {"tarball", "sha", "summary", "manifest", "status"} : d[f] # Absent

\* Mutant: files that are all there are taken for good.
VerifyComplete(d) == Complete(d)

\* verify_release_artifacts.py
Verify(d) ==
  /\ \A f \in File \ {"waiver", "signatures"} : d[f] # Absent
  /\ Agree(d)
  /\ d.status = <<"enabled">> => d.signatures # Absent
  /\ d.provenance = d.tarball

-----------------------------------------------------------------------------
(* Scripts *)

\* pbt-rs/scripts/release_bundle.sh
BundleScript == <<"clear", "tarball", "sha", "manifest", "summary", "entry", "status", "waiver">>

\* generate_supply_chain_artifacts.py
SupplyScript == <<"sbom", "provenance", "waiver">>

Steps(names) == [n \in 1..Len(names) |-> <<"step", names[n]>>]

\* What is missing is built, and verified.
BuildScript == Steps(BundleScript \o SupplyScript \o <<"check">>)

\* build_ef_handoff.py
HandoffScript == <<"ensure", "package">>

Copies(from) == [n \in 1..Len(Files) |-> <<from, Files[n]>>]

\* run_rollback_drill.py
DrillScript ==
  Steps(HandoffScript \o <<"snapshot", "simulate">>)
    \o Copies("previous") \o Steps(<<"observe">>)
    \o Copies("current") \o Steps(<<"observe", "report">>)

\* Is one of REQUIRED_GATES neither complete nor waived, is another gate?
InitialPolicies ==
  [eligible : BOOLEAN, blocking : SUBSET {"required", "other"},
   notes : {"absent", "sections missing", "placeholders", "complete"}]

ReleaseInit ==
  /\ sources = 1
  /\ policy \in InitialPolicies
  /\ dist = Empty /\ current = Empty /\ previous = Empty /\ before = Empty
  /\ todo = <<>> /\ package = <<>> /\ report = "none"
  /\ bundles = 0 /\ cuts = 0 /\ swapped = FALSE

\* Someone starts the drill or builds the package.
StartScript(script) ==
  /\ todo = <<>>
  /\ bundles < MaxBundles
  /\ todo' = script
  /\ report' = IF script = DrillScript THEN "none" ELSE report
  /\ UNCHANGED <<sources, policy, dist, current, previous, package, bundles, before, cuts, swapped>>

\* Without a commit to go back to the drill is skipped.
SkipDrill ==
  /\ todo = <<>>
  /\ report' = "pass"
  /\ UNCHANGED <<sources, policy, dist, current, previous, todo, package, bundles, before, cuts, swapped>>

-----------------------------------------------------------------------------
(* Steps *)

At(name) == todo # <<>> /\ Head(todo) = <<"step", name>>

\* The files of dist that a step of release_bundle.sh or of
\* generate_supply_chain_artifacts.py writes, and what it writes.
Written(name, signs) ==
  CASE name = "clear"      -> [f \in File \ {"sbom", "provenance"} |-> Absent]
    [] name = "tarball"    -> [tarball |-> <<sources>>]
    [] name = "sha"        -> [sha |-> dist.tarball]
    [] name = "manifest"   -> [manifest |-> <<dist.tarball, dist.sha, Absent>>]
    [] name = "summary"    -> [summary |-> <<bundles, 0>>]
    [] name = "entry"      -> [manifest |-> [dist.manifest EXCEPT ![3] = dist.summary]]
    [] name = "status"     -> IF signs THEN [signatures |-> <<"signatures">>, status |-> <<"enabled">>]
                              ELSE [status |-> <<"unavailable">>]
    [] name = "sbom"       -> [sbom |-> <<"sbom">>]
    [] name = "provenance" -> [provenance |-> dist.tarball]
    [] name = "waiver"     -> IF dist.status = <<"enabled">> THEN <<>> ELSE [waiver |-> <<"waiver">>]

Overwritten(d, w) == [f \in File |-> IF f \in DOMAIN w THEN w[f] ELSE d[f]]

Write(signs) ==
  \E name \in ToSet(BundleScript \o SupplyScript) :
    /\ At(name)
    /\ dist' = Overwritten(dist, Written(name, signs))
    /\ bundles' = IF name = "clear" THEN bundles + 1 ELSE bundles
    /\ swapped' = (swapped /\ name # "clear")
    /\ todo' = Tail(todo)
    /\ UNCHANGED <<sources, policy, current, previous, package, report, before, cuts>>

\* A script that fails does nothing more; a drill says so.
Fail ==
  /\ todo' = <<>>
  /\ report' = IF Last(todo) = <<"step", "report">> THEN "fail" ELSE report

\* Mutant: files that do not verify are not built anew.
EnsureOnce ==
  /\ At("ensure")
  /\ IF ~ Allowed \/ (Complete(dist) /\ ~ Verify(dist)) THEN Fail
     ELSE /\ todo' = (IF Complete(dist) THEN <<>>
                      ELSE BuildScript) \o Tail(todo)
          /\ UNCHANGED report
  /\ UNCHANGED <<sources, policy, dist, current, previous, package, bundles, before, cuts, swapped>>

\* ensure_release_bundle: what is there is kept if it verifies, and built otherwise.
Ensure ==
  /\ At("ensure")
  /\ IF ~ Allowed THEN Fail
     ELSE /\ todo' = (IF Complete(dist) /\ Verify(dist) THEN <<>>
                      ELSE BuildScript) \o Tail(todo)
          /\ UNCHANGED report
  /\ UNCHANGED <<sources, policy, dist, current, previous, package, bundles, before, cuts, swapped>>

Check ==
  /\ At("check")
  /\ IF Verify(dist) THEN todo' = Tail(todo) /\ UNCHANGED report ELSE Fail
  /\ UNCHANGED <<sources, policy, dist, current, previous, package, bundles, before, cuts, swapped>>

\* build_handoff_package raises if a required file is missing, the release notes
\* among them, and keeps the last package then.  It lists every gate that blocks.
Package ==
  /\ At("package")
  /\ IF policy.notes = "absent" \/ ~ Complete(dist) THEN Fail /\ UNCHANGED package
     ELSE /\ package' = [files |-> dist, eligible |-> policy.eligible, blocking |-> policy.blocking]
          /\ todo' = Tail(todo)
          /\ UNCHANGED report
  /\ UNCHANGED <<sources, policy, dist, current, previous, bundles, before, cuts, swapped>>

\* _snapshot_dist, twice
Snapshot ==
  /\ At("snapshot")
  /\ current' = dist /\ previous' = dist /\ before' = dist
  /\ todo' = Tail(todo)
  /\ UNCHANGED <<sources, policy, dist, package, report, bundles, cuts, swapped>>

\* An older release is a summary with one more line, and a manifest that agrees.
Older(d) ==
  LET summary == [d.summary EXCEPT ![2] = @ + 1]
  IN  [d EXCEPT !.summary = summary, !.manifest = [@ EXCEPT ![3] = summary]]

\* Mutant: the two snapshots are one.
SimulateBoth ==
  /\ At("simulate")
  /\ previous' = Older(previous) /\ current' = previous'
  /\ todo' = Tail(todo)
  /\ UNCHANGED <<sources, policy, dist, package, report, bundles, before, cuts, swapped>>

Simulate ==
  /\ At("simulate")
  /\ previous' = Older(previous)
  /\ todo' = Tail(todo)
  /\ UNCHANGED <<sources, policy, dist, current, package, report, bundles, before, cuts, swapped>>

\* One file of _restore_dist
Copy(from, f) ==
  /\ todo # <<>> /\ Head(todo) = <<from, f>>
  /\ dist' = [dist EXCEPT ![f] = IF from = "previous" THEN previous[f] ELSE current[f]]
  /\ todo' = Tail(todo)
  /\ UNCHANGED <<sources, policy, current, previous, package, report, bundles, before, cuts, swapped>>

\* The drill verifies a swap, and goes on in any case.
Observe ==
  /\ At("observe")
  /\ report' = IF Verify(dist) THEN report ELSE "fail"
  /\ todo' = Tail(todo)
  /\ UNCHANGED <<sources, policy, dist, current, previous, package, bundles, before, cuts, swapped>>

\* The hashes are compared.  (That the tests a drill also runs pass is assumed.)
Report ==
  /\ At("report")
  /\ report' = IF report # "fail" /\ \A f \in ToSet(Files) \ {"waiver"} : dist[f] = before[f]
               THEN "pass" ELSE "fail"
  /\ todo' = Tail(todo)
  /\ UNCHANGED <<sources, policy, dist, current, previous, package, bundles, before, cuts, swapped>>

Step ==
  \/ \E signs \in BOOLEAN : Write(signs)
  \/ Ensure \/ Check \/ Package \/ Snapshot \/ Simulate \/ Observe \/ Report
  \/ \E from \in {"previous", "current"}, f \in ToSet(Files) : Copy(from, f)

\* A script is cut off.
Cut ==
  /\ todo # <<>>
  /\ cuts < MaxCuts
  /\ cuts' = cuts + 1
  /\ swapped' = \/ swapped
                \/ /\ ~ Contains(todo, <<"step", "snapshot">>)
                   /\ \E f \in ToSet(Files) : dist[f] # before[f] /\ Contains(todo, <<"current", f>>)
  /\ todo' = <<>>
  /\ UNCHANGED <<sources, policy, dist, current, previous, package, report, bundles, before>>

\* A commit changes the sources and the policy; not while a script runs.
Commit ==
  /\ todo = <<>>
  /\ sources < MaxVersions
  /\ sources' = sources + 1
  /\ policy' \in InitialPolicies
  /\ UNCHANGED <<dist, current, previous, todo, package, report, bundles, before, cuts, swapped>>

ReleaseNext ==
  \/ \E script \in {Steps(HandoffScript), DrillScript} : StartScript(script)
  \/ SkipDrill \/ Step \/ Cut \/ Commit

ReleaseSpec == ReleaseInit /\ [][ReleaseNext]_release

ReleaseFairness == WF_release(Step)

-----------------------------------------------------------------------------
(* Properties *)

\* Whatever was cut off before, the package is of files that belong to each
\* other, and says that it is eligible for production only if none of the required
\* gates blocks it.
PackageIsOneBundle ==
  package # <<>> => /\ Complete(package.files) /\ Agree(package.files)
                    /\ package.eligible => "required" \notin package.blocking

\* A drill that has not been cut off leaves every file as it found it, and so
\* none that it made up, whatever other scripts were cut off in between.
SimulationIsUndone ==
  /\ At("report") => dist = before
  /\ todo = <<>> /\ ~ swapped /\ dist.summary # Absent => dist.summary[2] = 0

\* A drill started from whatever dist is left to it, after a cut too, ends with a
\* report that passes, unless the policy forbids a release, there are no release
\* notes or it is cut off itself.
DrillPasses ==
  \A n \in 0..MaxCuts :
    (todo = DrillScript /\ Allowed /\ policy.notes # "absent" /\ cuts = n)
      ~> (report = "pass" \/ cuts > n)
=============================================================================
