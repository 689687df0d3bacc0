------------------------------- MODULE Release -------------------------------
(***************************************************************************)
(* Assembling a stable release (assemble_stable_release.py): a plan run    *)
(* shows the operator the release body, an apply run given the digest of a *)
(* body the operator has read assembles the release in a hidden directory  *)
(* and renames it into place.                                              *)
(*                                                                         *)
(* Each step reads some input once: the checkout, an artifact directory, a *)
(* campaign's manifest and files.  Between any two steps somebody may      *)
(* change any of them, create the output, or stop the program.  Snapshots  *)
(* in the hidden directory are the program's own.                          *)
(***************************************************************************)
EXTENDS ReleaseInputs

CONSTANTS
  Nothing,  \* no value
  Foreign,  \* what another program may put under the output's name
  World,    \* for each commit to be released the inputs as they should be
  Blob,     \* for each commit its tree: distribution, release policy, decisions
  Values,   \* for each input, what it may be changed to
  Steady,   \* the commits whose inputs nobody changes
  MaxSwaps, \* bound on the changes
  MaxRuns   \* bound on the runs

Inputs == {"a", "b", "hw", "hwfiles", "kt", "ktfiles", "tree"}

(* Every checkout has a version and a history of versions that can be read;   *)
(* the code refuses one that has not before it compares anything.            *)
Versioned(tree) ==
  /\ tree.dist.version \in Versions
  /\ tree.policy.history \in ReleaseHistories
ASSUME VersionAssumption ==
  /\ \A c \in DOMAIN World : DOMAIN World[c] = Inputs /\ Versioned(World[c].tree) /\ Versioned(Blob[c])
  /\ \A tree \in Values.tree : Versioned(tree)

VARIABLES
  w,         \* the inputs
  commit,    \* the commit named on the command line
  pc,        \* the step the run is at
  reviewed,  \* the body whose digest the run was given, Nothing for a plan run
  q,         \* what the run holds
  read,      \* the bodies plan runs have shown
  out,       \* what stands under the output's name
  swaps,     \* changes made so far
  runs       \* runs started

releaseVars == <<w, commit, pc, reviewed, q, read, out, swaps, runs>>

Held == {"definition", "a", "b", "hw", "kt", "body", "ev", "packaged", "policy", "source", "pkg", "files"}
Blank == [k \in Held |-> Nothing]
PublicFiles == {"package", "provenance", "source", "signed", "body", "manifest", "sums"}

(* A checkout of a commit with nothing changed. *)
Checked(c) == [head |-> c, dist |-> Blob[c].dist, policy |-> Blob[c].policy, decided |-> Blob[c].decided]
Clean(t) == t = Checked(t.head)

-----------------------------------------------------------------------------
(* A step checks something and goes on, or the run ends; a run that ends     *)
(* without publishing removes its hidden directory.                          *)
Advance(from, to, ok, held) ==
  /\ pc = from
  /\ IF ok THEN pc' = to /\ q' = held ELSE pc' = "idle" /\ q' = Blank
  /\ UNCHANGED <<w, commit, reviewed, read, out, swaps, runs>>

Start(body) ==
  /\ pc = "idle" /\ runs < MaxRuns
  /\ pc' = "checkout" /\ reviewed' = body /\ q' = Blank /\ runs' = runs + 1
  /\ UNCHANGED <<w, commit, read, out, swaps>>

_validate_checkout == w.tree.head = commit /\ Clean(w.tree)
_validate_output == out = Nothing
Checkout == Advance("checkout", "define", _validate_output /\ _validate_checkout, q)

(* The checked-in definitions are sound, are the release the operator        *)
(* expects, and are authorized.                                              *)
_release_preflight ==
  Advance("define", "audit_a",
    /\ _validate_release_documentation(w.tree)
    /\ validate_distribution(w.tree.dist)
    /\ w.tree.dist.version = Blob[commit].dist.version /\ w.tree.dist.date = Blob[commit].dist.date
    /\ validate_release_policy(w.tree.policy, w.tree.dist)
    /\ validate_license_manifest(w.tree.dist, TRUE),
    [q EXCEPT !.definition = w.tree.dist])

AuditFirst == Advance("audit_a", "audit_b", _audit_snapshot(w.a, commit), [q EXCEPT !.a = w.a])
AuditSecond ==
  Advance("audit_b", "hardware",
    _audit_snapshot(w.b, commit) /\ snapshot_and_audit_pair(q.a, w.b), [q EXCEPT !.b = w.b])

_accepted_hardware ==
  Advance("hardware", "titles",
    verify_hardware_qa_manifest(w.hw, w.hwfiles) /\ w.hw.rbf = q.a.files.rbf,
    [q EXCEPT !.hw = w.hw])

_accepted_known_title_compatibility ==
  Advance("titles", "plan",
    /\ verify_known_title_manifest(w.kt, w.ktfiles)
    /\ w.kt.commit = commit /\ w.kt.rbf = q.a.files.rbf,
    [q EXCEPT !.kt = w.kt])

_render_release_body ==
  [version |-> q.definition.version, date |-> q.definition.date,
   commit |-> commit, hardware_run |-> q.hw.run]

Plan ==
  /\ pc = "plan" /\ reviewed = Nothing
  /\ read' = read \cup {_render_release_body}
  /\ pc' = "idle" /\ q' = Blank
  /\ UNCHANGED <<w, commit, reviewed, out, swaps, runs>>
Reviewed ==
  /\ reviewed # Nothing
  /\ Advance("plan", "evidence", reviewed = _render_release_body,
             [q EXCEPT !.body = _render_release_body])

-----------------------------------------------------------------------------
(* Building the evidence: the manifests are read, the originals verified     *)
(* once more, then every file they name is copied and the copy verified.     *)
Origin(dir) ==
  [commit |-> commit, audit |-> dir.audit, bundle |-> dir.bundle, run |-> dir.audit.run, nonce |-> dir.audit.nonce]
ReadEvidence ==
  Advance("evidence", "relocate",
    verify_hardware_qa_manifest(w.hw, w.hwfiles) /\ verify_known_title_manifest(w.kt, w.ktfiles),
    [q EXCEPT !.ev =
       [commit |-> commit, rbf |-> q.a.files.rbf, files |-> q.a.files, audit |-> q.a.audit,
        pair |-> [commit |-> commit, rbf |-> q.a.files.rbf, build_id |-> q.a.files.build_id],
        builds |-> <<Origin(q.a), Origin(q.b)>>, gates |-> final_gates(q.a.audit),
        submitted |-> <<[audit |-> q.a.audit, bundle |-> q.a.bundle],
                        [audit |-> q.b.audit, bundle |-> q.b.bundle]>>,
        hw |-> w.hw, hwfiles |-> Nothing, kt |-> w.kt, ktfiles |-> Nothing]])

Relocated == [q.ev EXCEPT !.hwfiles = w.hwfiles, !.ktfiles = w.ktfiles]
build_release_evidence == validate_build_evidence(Relocated)

(* The campaigns in the evidence are the ones accepted before the plan. *)
InputsAcceptable == build_release_evidence
InputsUnchanged ==
  build_release_evidence /\ q.ev.hw = q.hw /\ q.ev.kt = q.kt
Relocate == Advance("relocate", "package", InputsUnchanged, [q EXCEPT !.ev = Relocated])

-----------------------------------------------------------------------------
(* Packaging reads the checkout four times: the definitions and the policy,  *)
(* the payloads against what was tested, the tree against the commit, and    *)
(* the tree that is zipped.                                                  *)
PackageDefinition ==
  Advance("package", "match",
    /\ validate_distribution(w.tree.dist)
    /\ validate_build_evidence(q.ev)
    /\ validate_release_policy(w.tree.policy, w.tree.dist)
    /\ validate_license_manifest(w.tree.dist, TRUE)
    /\ w.tree.dist.version = q.definition.version /\ w.tree.dist.core_id = q.definition.core_id,
    [q EXCEPT !.packaged = w.tree.dist, !.policy = w.tree.policy])

MatchTested ==
  Advance("match", "source",
    /\ q.ev.hw.dist = w.tree.dist
    /\ q.ev.hw.dist.version = q.packaged.version /\ q.ev.hw.dist.date = q.packaged.date, q)

validate_release_source_checkout ==
  Advance("source", "zip", w.tree.head = q.ev.commit /\ Clean(w.tree),
    [q EXCEPT !.source = [commit |-> q.ev.commit, dist |-> w.tree.dist, rbf |-> q.ev.rbf]])

verify_release_dist_snapshot == w.tree.dist = q.source.dist
ZipTree ==
  Advance("zip", "stage", verify_release_dist_snapshot,
    [q EXCEPT !.pkg =
       [dist |-> w.tree.dist, rbf |-> q.ev.rbf, evidence |-> q.ev, policy |-> q.policy,
        source |-> q.source]])

(* The package is planned, applied and planned again on a private card. *)
Stage ==
  Advance("stage", "archive",
    _validate_release_provenance(q.pkg, w.tree.policy, q.definition.version, commit), q)

(* The source archive comes from the commit, the signed records from the     *)
(* snapshots; manifest and checksums close the inventory.                    *)
Archive ==
  /\ pc = "archive" /\ pc' = "publish" /\ q' = [q EXCEPT !.files = PublicFiles]
  /\ UNCHANGED <<w, commit, reviewed, read, out, swaps, runs>>

Publication == [package |-> q.pkg, body |-> q.body, source |-> commit, files |-> q.files]
_rename_noreplace ==
  /\ pc = "publish" /\ out' = IF out = Nothing THEN Publication ELSE out
  /\ pc' = "idle" /\ q' = Blank
  /\ UNCHANGED <<w, commit, reviewed, read, swaps, runs>>

-----------------------------------------------------------------------------
(* The surroundings. *)
Swap(field, value) ==
  /\ swaps < MaxSwaps /\ commit \notin Steady /\ w[field] # value
  /\ pc # "idle" \/ runs < MaxRuns
  /\ w' = [w EXCEPT ![field] = value] /\ swaps' = swaps + 1
  /\ UNCHANGED <<commit, pc, reviewed, q, read, out, runs>>

CreateOutput ==
  /\ out = Nothing /\ pc # "idle"
  /\ out' = Foreign
  /\ UNCHANGED <<w, commit, pc, reviewed, q, read, swaps, runs>>

Stop ==
  /\ pc # "idle" /\ pc' = "idle" /\ q' = Blank
  /\ UNCHANGED <<w, commit, reviewed, read, out, swaps, runs>>

ReleaseInit ==
  /\ commit \in DOMAIN World /\ w = World[commit]
  /\ pc = "idle" /\ reviewed = Nothing /\ q = Blank
  /\ read = {} /\ out = Nothing /\ swaps = 0 /\ runs = 0

(* What the program and its operator do; Swap is the rest. *)
ReleaseNext ==
  \/ \E body \in read \cup {Nothing} : Start(body)
  \/ Checkout \/ _release_preflight \/ AuditFirst \/ AuditSecond
  \/ _accepted_hardware \/ _accepted_known_title_compatibility
  \/ Plan \/ Reviewed \/ ReadEvidence \/ Relocate
  \/ PackageDefinition \/ MatchTested \/ validate_release_source_checkout \/ ZipTree
  \/ Stage \/ Archive \/ _rename_noreplace
  \/ CreateOutput \/ Stop

-----------------------------------------------------------------------------
Published == out \notin {Nothing, Foreign}

(* A published release is one thing throughout: the packaged bitstream is    *)
(* the output of both signed builds and the one both campaigns tested; the   *)
(* builds are two runs of the workflow whose signatures cover these audits;  *)
(* everything is of the one commit; and the files packaged are the files of  *)
(* that commit and the files that were on the tested card, whatever was      *)
(* changed while the release was being assembled.                            *)
PublishedIsBound ==
  Published =>
    LET p == out.package
        e == p.evidence
        first == e.builds[1]
        second == e.builds[2]
    IN /\ {p.rbf, first.audit.of.rbf, second.audit.of.rbf, e.hw.rbf, e.kt.rbf} = {p.rbf}
       /\ {first.audit.commit, second.audit.commit, e.kt.commit, p.source.commit, out.source} = {commit}
       /\ first.audit.run # second.audit.run /\ first.audit.nonce # second.audit.nonce
       /\ \A b \in {first, second} : b.bundle.trusted /\ b.bundle.subject = b.audit
       /\ AllPass(e.hw) /\ AllPass(e.kt)
       /\ {p.dist, Blob[commit].dist, e.hw.dist} = {p.dist}
       /\ out.files = PublicFiles

(* The body that is published was shown by a plan run before, and it is true *)
(* of the package beside it: version, date, commit and the campaign whose    *)
(* results are in the evidence.                                              *)
ReviewedIsPublished ==
  Published =>
    /\ out.body \in read
    /\ out.body = [version |-> out.package.dist.version, date |-> out.package.dist.date,
                   commit |-> out.package.evidence.commit, hardware_run |-> out.package.evidence.hw.run]

(* The order the Semantic Versioning standard gives: by the first of the     *)
(* three numbers that differs; a prerelease below its release; and two       *)
(* prereleases by the first identifier that differs or that one lacks, a     *)
(* number below a word.                                                      *)
IdentifierBelow(a, b) == IF a.num = b.num THEN a.val < b.val ELSE a.num
CoreBelow(l, r) == \E i \in 1 .. 3 : l[i] < r[i] /\ \A j \in 1 .. i - 1 : l[j] = r[j]
PrereleaseBelow(l, r) ==
  \E i \in DOMAIN r :
    /\ \A j \in 1 .. i - 1 : j \in DOMAIN l /\ l[j] = r[j]
    /\ i \in DOMAIN l => IdentifierBelow(l[i], r[i])
Precedes(l, r) ==
  \/ CoreBelow(l.core, r.core)
  \/ l.core = r.core /\ ~l.final /\ (r.final \/ PrereleaseBelow(l.pre, r.pre))

(* A release that comes out is of a version that ranks above every version   *)
(* its policy lists as published, by the standard's own order and not by the *)
(* comparison the policy check computes with.                                *)
AuthorizedIsNewer ==
  Published =>
    \A i \in DOMAIN out.package.policy.history :
      Precedes(out.package.policy.history[i].version, out.package.dist.version)
=============================================================================
