---------------------------- MODULE ReleaseInputs ----------------------------
(***************************************************************************)
(* What a stable release is made of and how each piece is judged:          *)
(*   - the distribution and the release policy of a checkout               *)
(*     (package_validator.py, license_manifest.py and                      *)
(*     package_core.validate_release_policy), with the Semantic Version    *)
(*     precedence the policy is enforced by;                               *)
(*   - the artifacts of one Quartus build, their audit and their signed    *)
(*     origin (quartus_evidence.py, quartus_fit_audit.py and the           *)
(*     attestation check of assemble_stable_release.py);                   *)
(*   - the records of the two physical test campaigns.                     *)
(* A file's digest is the file's contents.                                 *)
(***************************************************************************)
EXTENDS Naturals, Integers, Sequences, SequencesExt, FiniteSets, TLC

-----------------------------------------------------------------------------
(* Versions: three numbers, the prerelease identifiers (final when there are *)
(* none) and the build label, which has no precedence.  An identifier is     *)
(* numeric or a word; words are ordered by their number here.                *)
Identifiers == [num : BOOLEAN, val : Nat]
Versions == [core : [1 .. 3 -> Nat], final : BOOLEAN, pre : Seq(Identifiers), build : Nat]
ReleaseHistories == Seq([version : Versions, date : Nat])
release_policy_semver(v) == [core |-> v.core, final |-> v.final, pre |-> v.pre]

Sign(a, b) == IF a > b THEN 1 ELSE IF a < b THEN -1 ELSE 0
CompareIdentifier(a, b) ==
  IF a.num = b.num THEN Sign(a.val, b.val) ELSE IF a.num THEN -1 ELSE 1
FirstDiffering(s, t) == {i \in 1 .. Min({Len(s), Len(t)}) : s[i] # t[i]}

compare_semver_by_value(l, r) ==
  LET core == FirstDiffering(l.core, r.core)
      pre == FirstDiffering(l.pre, r.pre)
  IN IF core # {} THEN Sign(l.core[Min(core)], r.core[Min(core)])
     ELSE IF l.final \/ r.final
     THEN IF l.final = r.final THEN 0 ELSE IF l.final THEN 1 ELSE -1
     ELSE IF pre # {} THEN Sign(l.pre[Min(pre)].val, r.pre[Min(pre)].val)
     ELSE Sign(Len(l.pre), Len(r.pre))

compare_semver(l, r) ==
  LET core == FirstDiffering(l.core, r.core)
      pre == FirstDiffering(l.pre, r.pre)
  IN IF core # {} THEN Sign(l.core[Min(core)], r.core[Min(core)])
     ELSE IF l.final \/ r.final
     THEN IF l.final = r.final THEN 0 ELSE IF l.final THEN 1 ELSE -1
     ELSE IF pre # {} THEN CompareIdentifier(l.pre[Min(pre)], r.pre[Min(pre)])
     ELSE Sign(Len(l.pre), Len(r.pre))

(* A history lists each version once, and no two of equal precedence; the    *)
(* latest is found by one pass.                                              *)
validate_release_history(h) ==
  \A i, j \in DOMAIN h : i # j =>
    release_policy_semver(h[i].version) # release_policy_semver(h[j].version)
LatestVersion(h) ==
  LET latest[n \in DOMAIN h] ==
        IF n = 1 THEN h[1].version
        ELSE IF compare_semver(h[n].version, latest[n - 1]) > 0 THEN h[n].version ELSE latest[n - 1]
  IN latest[Len(h)]
LatestDate(h) == Max({h[i].date : i \in DOMAIN h})

(* The core this one succeeds is another one, with releases of its own. *)
ValidPredecessor(pol) ==
  /\ pol.predecessor.core_id # pol.core_id
  /\ pol.predecessor.history # << >> /\ validate_release_history(pol.predecessor.history)

(* The policy authorizes the release the distribution declares. *)
ApprovedPublisher(pol, dist) ==
  /\ pol.identity_authorized /\ pol.distribution_authorized
  /\ pol.core_id = dist.core_id /\ pol.url = dist.url
validate_release_policy(pol, dist) ==
  /\ ValidPredecessor(pol) /\ validate_release_history(pol.history)
  /\ ApprovedPublisher(pol, dist)
  /\ pol.history # << >> =>
       /\ \A i \in DOMAIN pol.history : pol.history[i].version # dist.version
       /\ compare_semver(dist.version, LatestVersion(pol.history)) > 0
       /\ dist.date > LatestDate(pol.history)

(* The definitions are sound in every area the validators look at; the       *)
(* licence manifest is consistent and, for a release, has no open review.    *)
_validate_tree(dist) == "tree" \notin dist.defects
_validate_core(dist) == "core" \notin dist.defects
_validate_data(dist) == "data" \notin dist.defects
_validate_input(dist) == {"input", "interact"} \cap dist.defects = {}
_validate_video(dist) == "video" \notin dist.defects
_validate_assets(dist) == "assets" \notin dist.defects
validate_distribution(dist) ==
  /\ _validate_tree(dist) /\ _validate_core(dist) /\ _validate_data(dist)
  /\ _validate_input(dist) /\ _validate_video(dist) /\ _validate_assets(dist)
release_gate(dist) == dist.unresolved = {}
validate_license_manifest(dist, ready) == dist.licensed /\ (ready => release_gate(dist))
_validate_release_documentation(tree) == tree.decided

-----------------------------------------------------------------------------
(* A build: the workflow run and job it ran in, the commit it was checked    *)
(* out at and stamped with, its outputs, and the problems its reports show.  *)
(* An artifact directory holds the files of a build, an audit document and   *)
(* an attestation bundle, which need not be of the same build.               *)

(* Reports that are of another tool, another target or an unsuccessful flow, *)
(* timing that is not met or not constrained, and a container that is not    *)
(* the recorded one make an audit impossible.                                *)
validate_report(files) == {"flow", "tool", "target"} \cap files.problems = {}
check_timing_summary(files) == "unconstrained" \notin files.problems
timing_summary(files) == check_timing_summary(files) /\ "slack" \notin files.problems
validate_provenance(files) == "container" \notin files.problems
Auditable(files) == validate_report(files) /\ timing_summary(files) /\ validate_provenance(files)

(* Everything else is a gate of the audit that fails. *)
AUDIT_REQUIRED_TRUE_GATES ==
  {"no_critical_warnings", "connectivity_warnings_reviewed", "pll", "io_delay_constraints_preserved",
   "no_evaluation_or_time_limited_ip", "ram_block_headroom"}
ip_license_summary(files) == {"evaluation_ip", "time_limited"} \cap files.problems = {}
resource_summary(files) == "ram" \notin files.problems
numbered_warnings(files) ==
  (IF "critical" \in files.problems THEN {"no_critical_warnings"} ELSE {})
    \cup (IF "connectivity" \in files.problems THEN {"connectivity_warnings_reviewed"} ELSE {})
    \cup (IF "pll" \in files.problems THEN {"pll"} ELSE {})
    \cup (IF "constraints" \in files.problems THEN {"io_delay_constraints_preserved"} ELSE {})
FailedGates(files) ==
  numbered_warnings(files)
    \cup (IF ip_license_summary(files) THEN {} ELSE {"no_evaluation_or_time_limited_ip"})
    \cup (IF resource_summary(files) THEN {} ELSE {"ram_block_headroom"})
parse_metadata(files) == [commit |-> files.commit, run |-> files.run, nonce |-> files.nonce]
audit(files) ==
  LET build == parse_metadata(files)
  IN [of |-> files, pass |-> FailedGates(files) = {},
      gates |-> AUDIT_REQUIRED_TRUE_GATES \ FailedGates(files),
      commit |-> build.commit, run |-> build.run, nonce |-> build.nonce]

(* An audit speaks for the build only: what the campaigns and the operator    *)
(* have to establish is not claimed by it.                                   *)
CLAIMED_LATER == {"compressed_bitstream", "pocket_hardware", "dock_hardware"}
Accepted(aud) ==
  aud.pass /\ AUDIT_REQUIRED_TRUE_GATES \subseteq aud.gates /\ aud.gates \cap CLAIMED_LATER = {}

(* The gates of the release: those it shares with the audit, and the rest,   *)
(* claimed once both campaigns have been verified.                           *)
RELEASE_GATE_NAMES == {"no_critical_warnings"} \cup CLAIMED_LATER
final_gates(aud) == (aud.gates \cap RELEASE_GATE_NAMES) \cup CLAIMED_LATER

(* The document in the directory is the one recomputed from the files. *)
_validate_candidate_binding(dir) == Auditable(dir.files) /\ dir.audit = audit(dir.files)
collect_evidence(dir) == dir.complete /\ _validate_candidate_binding(dir)

(* The bundle is a signature by the repository's own workflow over this very *)
(* audit, made in the run the audit names, at the commit of the release.     *)
_verify_candidate_attestation(aud, bundle, commit) ==
  /\ bundle.trusted
  /\ bundle.subject = aud
  /\ bundle.commit = commit
  /\ bundle.run = aud.run

_audit_snapshot(dir, commit) ==
  /\ collect_evidence(dir)
  /\ Accepted(audit(dir.files))
  /\ audit(dir.files).commit = commit
  /\ _verify_candidate_attestation(dir.audit, dir.bundle, commit)

(* Two builds count as a reproduction when they are two runs, two jobs, and  *)
(* the outputs are equal.                                                    *)
Reproduced(x, y) == x.files.rbf = y.files.rbf /\ x.files.build_id = y.files.build_id
snapshot_and_audit_pair(x, y) ==
  x.audit.run # y.audit.run /\ x.audit.nonce # y.audit.nonce /\ Reproduced(x, y)

-----------------------------------------------------------------------------
(* A campaign's manifest names its run, the build and what was installed,    *)
(* every case's result, and by digest the files it rests on.                 *)
MODES == {"pocket", "dock"}
AllPass(m) == \A mode \in MODES : m.modes[mode] = "pass"
_validate_artifacts(m, files) == m.files = files
verify_hardware_qa_manifest(m, files) == AllPass(m) /\ _validate_artifacts(m, files)
validate_catalogue(m) == DOMAIN m.modes = MODES
verify_known_title_manifest(m, files) ==
  validate_catalogue(m) /\ AllPass(m) /\ _validate_artifacts(m, files)

-----------------------------------------------------------------------------
(* Release evidence is a private copy of all of this: the first build's      *)
(* files and audit, both signed audits, and the two campaigns with the files *)
(* they rest on.                                                             *)
validate_quartus_audit_binding(ev) ==
  /\ ev.audit = audit(ev.files)
  /\ Accepted(ev.audit)
  /\ ev.audit.commit = ev.commit
  /\ ev.audit.of.rbf = ev.rbf

validate_hardware_qa_binding(ev) ==
  verify_hardware_qa_manifest(ev.hw, ev.hwfiles) /\ ev.hw.rbf = ev.rbf

validate_known_title_compatibility_binding(ev) ==
  /\ verify_known_title_manifest(ev.kt, ev.ktfiles)
  /\ ev.kt.commit = ev.commit /\ ev.kt.rbf = ev.rbf

(* Each signed audit is of this commit and these outputs and its signature is *)
(* verified again; the first is the audit of the files; they are two builds. *)
_bound_signed_build_file(ev, i) ==
  ev.builds[i].audit = ev.submitted[i].audit /\ ev.builds[i].bundle = ev.submitted[i].bundle
OriginIdentity(ev, i) ==
  /\ ev.pair = [commit |-> ev.commit, rbf |-> ev.rbf, build_id |-> ev.files.build_id]
  /\ ev.builds[i].commit = ev.commit
  /\ ev.builds[i].run = ev.builds[i].audit.run /\ ev.builds[i].nonce = ev.builds[i].audit.nonce
SignedOrigin(ev, i) ==
  LET aud == ev.builds[i].audit
  IN /\ OriginIdentity(ev, i) /\ _bound_signed_build_file(ev, i)
     /\ Accepted(aud)
     /\ aud.commit = ev.commit
     /\ aud.of.rbf = ev.rbf /\ aud.of.build_id = ev.files.build_id
     /\ _verify_candidate_attestation(aud, ev.builds[i].bundle, ev.commit)
validate_signed_build_origins(ev) ==
  /\ \A i \in 1 .. 2 : SignedOrigin(ev, i)
  /\ ev.builds[1].audit = ev.audit
  /\ \A part \in {"run", "nonce", "audit", "bundle"} : ev.builds[1][part] # ev.builds[2][part]

(* The build identifier is stamped from the commit; the reports name one and *)
(* the same version of the tool; every gate of the release is claimed.       *)
parse_build_id_words(files) == files.build_id
BuildIdStamped(ev) == parse_build_id_words(ev.files) = ev.commit
quartus_report_version(files) == "tool" \notin files.problems
VerifiedReports(ev) == quartus_report_version(ev.files)
EvidenceGates(ev) == RELEASE_GATE_NAMES \subseteq ev.gates
EvidenceBindings(ev) ==
  /\ validate_quartus_audit_binding(ev)
  /\ validate_hardware_qa_binding(ev)
  /\ validate_known_title_compatibility_binding(ev)
  /\ validate_signed_build_origins(ev)
validate_build_evidence(ev) ==
  /\ ev.rbf = ev.files.rbf
  /\ BuildIdStamped(ev) /\ VerifiedReports(ev)
  /\ EvidenceGates(ev) /\ EvidenceBindings(ev)

-----------------------------------------------------------------------------
(* What staging holds a finished package against: its provenance, the        *)
(* version and commit it should have, and the policy in the checkout now.    *)
_verified_signed_build_origins(ev) ==
  /\ ev.pair.commit = ev.commit /\ ev.pair.build_id = ev.files.build_id
  /\ \A i \in 1 .. 2 : ev.builds[i].commit = ev.commit
  /\ ev.builds[1].audit = ev.audit
  /\ \A part \in {"run", "nonce", "audit", "bundle"} : ev.builds[1][part] # ev.builds[2][part]
VerifiedCampaigns(ev) ==
  DOMAIN ev.hw.modes = MODES /\ AllPass(ev.kt) /\ EvidenceGates(ev)
_verified_build_evidence(ev, commit) ==
  /\ ev.commit = commit /\ ev.audit.commit = commit
  /\ ev.audit.pass /\ AUDIT_REQUIRED_TRUE_GATES \subseteq ev.audit.gates
  /\ _verified_signed_build_origins(ev)
  /\ VerifiedCampaigns(ev)
_verified_release_source_inputs(pkg, commit) ==
  pkg.source.commit = commit /\ pkg.source.rbf = pkg.rbf /\ pkg.source.dist = pkg.dist

(* The package is the one named on the command line, can be unpacked, is of  *)
(* this core, and its definitions hold when unpacked.                        *)
EXPECTED_CORE_ID == "swan"
_read_archive(pkg) == "paths" \notin pkg.dist.defects
_core_generated_names(pkg) == pkg.dist.core_id = EXPECTED_CORE_ID
_materialize_source_snapshot(pkg) ==
  validate_distribution(pkg.dist) /\ validate_license_manifest(pkg.dist, FALSE)
PackageIdentity(pkg, version) ==
  /\ _read_archive(pkg) /\ _core_generated_names(pkg) /\ _materialize_source_snapshot(pkg)
  /\ pkg.dist.version = version

_validate_release_untested(pkg, policy, version, commit) ==
  /\ PackageIdentity(pkg, version)
  /\ _verified_build_evidence(pkg.evidence, commit)
  /\ pkg.evidence.pair.rbf = pkg.rbf
  /\ pkg.evidence.hw.rbf = pkg.rbf
  /\ _verified_release_source_inputs(pkg, commit)
  /\ validate_release_policy(policy, pkg.dist) /\ pkg.policy = policy
_validate_release_provenance(pkg, policy, version, commit) ==
  /\ PackageIdentity(pkg, version)
  /\ _verified_build_evidence(pkg.evidence, commit)
  /\ pkg.evidence.pair.rbf = pkg.rbf
  /\ pkg.evidence.hw.rbf = pkg.rbf
  /\ pkg.evidence.hw.dist = pkg.dist
  /\ _verified_release_source_inputs(pkg, commit)
  /\ validate_release_policy(policy, pkg.dist) /\ pkg.policy = policy
=============================================================================
