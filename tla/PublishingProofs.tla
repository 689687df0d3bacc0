--------------------------- MODULE PublishingProofs ---------------------------
(***************************************************************************)
(* What the publishing tools promise, for every set of inputs, texts and   *)
(* trees and any number of changes made around a run: the launch pull      *)
(* request is exact, the wiki's clone is whole and what is pushed was      *)
(* audited, a published release is bound to one commit, one bitstream and  *)
(* the body the operator read, and nothing others published is lost.       *)
(*                                                                         *)
(* One invariant per tool; a step of one tool leaves the others' variables *)
(* alone.                                                                  *)
(***************************************************************************)
EXTENDS Publishing, SequenceTheorems, WellFoundedInduction, TLAPS

-----------------------------------------------------------------------------
(* The launch pull request.  Each check is of what has been built so far,    *)
(* and what it has checked (the staged paths, the commit) is not touched     *)
(* before the next step uses it, although files, main and the tracking       *)
(* branch may move.                                                          *)
MainSide == MainTrees \cup {FirstMain}
Exact(c) == c.base \in MainSide /\ name_status(c.base, c.tree) = EXPECTED_CHANGES
Spared(c) == \A p \in PRESERVED_UNTRACKED : c.tree[p] = NoFile

PrInv ==
  /\ {main.tree, tracking.tree} \subseteq MainSide
  /\ step \in {"add", "staged", "commit"} => head.tree \in MainSide
  /\ step = "commit" => name_status(head.tree, index) = EXPECTED_CHANGES
  /\ step \in {"committed", "kept", "push"} => head.of = "launch" /\ Exact(head)
  /\ step = "push" => Spared(head)
  /\ step = "offer" => branch.of = "launch" /\ Exact(branch) /\ Spared(branch)
  /\ PrIsExact

LEMMA PrStart == PrInit => PrInv
BY DEF PrInit, PrInv, PrIsExact, Main, MainSide

LEMMA PrProgram ==
    ASSUME PrInv,
           \/ preflight \/ fetch \/ check_base \/ switch_branch \/ decline \/ add_paths
           \/ check_staged_paths \/ commit_paths \/ check_committed \/ check_preserved
           \/ push_branch \/ open_pull_request
    PROVE  PrInv'
<1> USE DEF PrInv, PrIsExact, Goes, repository, Exact, Spared, MainSide
<1>1. CASE preflight \/ fetch \/ check_base \/ decline
  BY <1>1 DEF preflight, fetch, check_base, decline
<1>2. CASE switch_branch
  BY <1>2 DEF switch_branch
<1>3. CASE add_paths
  BY <1>3 DEF add_paths
<1>4. CASE check_staged_paths
  BY <1>4 DEF check_staged_paths, verify_staged_changes, exactly_expected
<1>5. CASE commit_paths
  BY <1>5 DEF commit_paths
<1>6. CASE check_committed
  BY <1>6 DEF check_committed
<1>7. CASE check_preserved
  BY <1>7 DEF check_preserved, verify_preserved_untracked, Untracked
<1>8. CASE push_branch
  BY <1>8 DEF push_branch, lease_holds
<1>9. CASE open_pull_request
  BY <1>9 DEF open_pull_request
<1>10. QED
  BY <1>1, <1>2, <1>3, <1>4, <1>5, <1>6, <1>7, <1>8, <1>9

LEMMA PrSurroundings ==
    ASSUME PrInv,
           \/ \E p \in Paths : \E contents \in Edits[p] : edit_path(p, contents)
           \/ \E tree \in MainTrees : move_main(tree)
           \/ fetched_elsewhere \/ branch_elsewhere \/ pr_fault \/ start_again
    PROVE  PrInv'
<1> USE DEF PrInv, PrIsExact, Meanwhile, repository, Exact, Spared, MainSide
<1>1. CASE \E p \in Paths : \E contents \in Edits[p] : edit_path(p, contents)
  BY <1>1 DEF edit_path
<1>2. CASE \E tree \in MainTrees : move_main(tree)
  BY <1>2 DEF move_main, Main
<1>3. CASE fetched_elsewhere
  BY <1>3 DEF fetched_elsewhere
<1>4. CASE branch_elsewhere
  BY <1>4 DEF branch_elsewhere, NoCommit
<1>5. CASE pr_fault \/ start_again
  BY <1>5 DEF pr_fault, start_again
<1>6. QED
  BY <1>1, <1>2, <1>3, <1>4, <1>5

LEMMA PrBeside == ASSUME PrInv, UNCHANGED prVars PROVE PrInv'
BY DEF PrInv, PrIsExact, prVars, Exact, Spared

LEMMA PrKept == ASSUME PrInv, [Next]_publishingVars PROVE PrInv'
<1>1. CASE tool = "pr" /\ PrNext
  BY <1>1, PrProgram, PrSurroundings DEF PrNext
<1>2. CASE UNCHANGED prVars
  BY <1>2, PrBeside
<1>3. QED
  BY <1>1, <1>2 DEF Next, publishingVars

\* PrIsExact: the pull request is one commit on a tree that main had, and it
\* changes the expected paths in the expected way and no other.
THEOREM PullRequestIsExact == Spec => []PrIsExact
<1>1. Init => PrInv
  BY PrStart DEF Init
<1>2. PrInv /\ [Next]_publishingVars => PrInv'
  BY PrKept
<1>3. PrInv => PrIsExact
  BY DEF PrInv
<1>4. QED
  BY <1>1, <1>2, <1>3, PTL DEF Spec

-----------------------------------------------------------------------------
(* Release evidence.  Validated evidence is of one commit and one bitstream. *)
AreSigned(e) ==
  LET first == e.builds[1]
      second == e.builds[2]
  IN /\ first.audit.run # second.audit.run /\ first.audit.nonce # second.audit.nonce
     /\ \A b \in {first, second} :
          /\ b.audit.commit = e.commit /\ b.audit.of.rbf = e.rbf
          /\ b.bundle.trusted /\ b.bundle.subject = b.audit
AreTested(e) ==
  /\ e.hw.rbf = e.rbf /\ e.kt.rbf = e.rbf /\ e.kt.commit = e.commit
  /\ AllPass(e.hw) /\ AllPass(e.kt)

LEMMA OriginsAreSigned ==
    ASSUME NEW e, validate_signed_build_origins(e) PROVE AreSigned(e)
<1>1. \A i \in {1, 2} : SignedOrigin(e, i)
  BY DEF validate_signed_build_origins
<1>2. \A i \in {1, 2} :
        /\ e.builds[i].audit.commit = e.commit /\ e.builds[i].audit.of.rbf = e.rbf
        /\ e.builds[i].bundle.trusted /\ e.builds[i].bundle.subject = e.builds[i].audit
        /\ e.builds[i].run = e.builds[i].audit.run /\ e.builds[i].nonce = e.builds[i].audit.nonce
  BY <1>1 DEF SignedOrigin, OriginIdentity, _verify_candidate_attestation
<1>3. e.builds[1].run # e.builds[2].run /\ e.builds[1].nonce # e.builds[2].nonce
  BY DEF validate_signed_build_origins
<1>4. QED
  BY <1>2, <1>3 DEF AreSigned

LEMMA EvidenceIsBound ==
    ASSUME NEW e, validate_build_evidence(e) PROVE AreSigned(e) /\ AreTested(e)
<1>1. EvidenceBindings(e)
  BY DEF validate_build_evidence
<1>2. AreSigned(e)
  BY <1>1, OriginsAreSigned DEF EvidenceBindings
<1>3. AreTested(e)
  BY <1>1 DEF EvidenceBindings, validate_hardware_qa_binding, verify_hardware_qa_manifest,
    validate_known_title_compatibility_binding, verify_known_title_manifest, AreTested
<1>4. QED
  BY <1>2, <1>3

-----------------------------------------------------------------------------
(* A stable release.  From the moment something is read the run holds its    *)
(* own copy, and each later check ties one more copy to those before: the    *)
(* body to the definitions and the campaign, the evidence to the commit and  *)
(* that campaign, the source tree to the commit, the package to the evidence *)
(* and the source.  Only what the run holds is named here, so nothing that   *)
(* is changed around it matters.                                             *)
Packaging == {"package", "match", "source", "zip", "stage", "archive", "publish"}
Assembled == {"stage", "archive", "publish"}
EvidenceFields ==
  {"commit", "rbf", "files", "audit", "pair", "builds", "gates", "submitted", "hw", "hwfiles", "kt", "ktfiles"}

RunHolds ==
  /\ DOMAIN q = Held
  /\ pc \notin {"idle", "checkout", "define"} => q.definition.date = Blob[commit].dist.date
  /\ pc \in {"evidence", "relocate"} \cup Packaging =>
       q.body \in read /\ q.body = _render_release_body
  /\ pc = "relocate" => DOMAIN q.ev = EvidenceFields /\ q.ev.commit = commit
  /\ pc \in Packaging =>
       q.ev.commit = commit /\ q.ev.hw.run = q.hw.run /\ validate_build_evidence(q.ev)
  /\ pc \in {"zip"} \cup Assembled =>
       q.source.commit = commit /\ q.source.dist = Blob[commit].dist
  /\ pc \in Assembled =>
       q.pkg.evidence = q.ev /\ q.pkg.rbf = q.ev.rbf /\ q.pkg.source = q.source /\ q.pkg.dist = q.source.dist
  /\ pc \in {"archive", "publish"} =>
       q.ev.hw.dist = q.pkg.dist /\ q.pkg.dist.version = q.definition.version
  /\ pc = "publish" => q.files = PublicFiles

ReleaseInv ==
  /\ reviewed \in read \cup {Nothing}
  /\ RunHolds
  /\ PublishedIsBound /\ ReviewedIsPublished

LEMMA BlankHolds == DOMAIN Blank = Held
BY DEF Blank

(* What is published depends on the output and the bodies shown only. *)
LEMMA PublishedStays ==
    ASSUME ReleaseInv, out' \in {out, Nothing, Foreign}, commit' = commit, read \subseteq read'
    PROVE  PublishedIsBound' /\ ReviewedIsPublished'
BY DEF ReleaseInv, PublishedIsBound, ReviewedIsPublished, Published

LEMMA RunEnds ==
    ASSUME ReleaseInv, pc' = "idle", q' = Blank, commit' = commit, reviewed' = reviewed,
           read \subseteq read', out' \in {out, Nothing, Foreign}
    PROVE  ReleaseInv'
<1>1. PublishedIsBound' /\ ReviewedIsPublished'
  BY PublishedStays
<1>2. RunHolds'
  BY BlankHolds DEF RunHolds, Packaging, Assembled
<1>3. QED
  BY <1>1, <1>2 DEF ReleaseInv

LEMMA RunGoesOn ==
    ASSUME ReleaseInv, UNCHANGED <<commit, reviewed, read, out>>, RunHolds'
    PROVE  ReleaseInv'
BY PublishedStays DEF ReleaseInv

(* The inputs are read and judged. *)
LEMMA ReadingStep ==
    ASSUME ReleaseInv,
           \/ Checkout \/ _release_preflight \/ AuditFirst \/ AuditSecond
           \/ _accepted_hardware \/ _accepted_known_title_compatibility
    PROVE  ReleaseInv'
<1> USE DEF Advance
<1>1. UNCHANGED <<commit, reviewed, read, out>>
  BY DEF Checkout, _release_preflight, AuditFirst, AuditSecond,
    _accepted_hardware, _accepted_known_title_compatibility
<1>2. CASE pc' = "idle" /\ q' = Blank
  BY <1>1, <1>2, RunEnds
<1>3. CASE pc' # "idle"
  <2> SUFFICES RunHolds'
    BY <1>1, RunGoesOn
  <2>1. CASE Checkout
    BY <1>1, <1>3, <2>1 DEF Checkout, ReleaseInv, RunHolds, Packaging, Assembled
  <2>2. CASE _release_preflight
    BY <1>1, <1>3, <2>2 DEF _release_preflight, ReleaseInv, RunHolds, Packaging, Assembled, Held
  <2>3. CASE AuditFirst \/ AuditSecond
    BY <1>1, <1>3, <2>3 DEF AuditFirst, AuditSecond, ReleaseInv, RunHolds, Packaging, Assembled, Held
  <2>4. CASE _accepted_hardware \/ _accepted_known_title_compatibility
    BY <1>1, <1>3, <2>4 DEF _accepted_hardware, _accepted_known_title_compatibility,
      ReleaseInv, RunHolds, Packaging, Assembled, Held
  <2>5. QED
    BY <2>1, <2>2, <2>3, <2>4
<1>4. QED
  BY <1>2, <1>3 DEF Checkout, _release_preflight, AuditFirst, AuditSecond,
    _accepted_hardware, _accepted_known_title_compatibility

(* The body is shown, or is the one the operator has read; the evidence is   *)
(* copied and the copy validated.                                            *)
LEMMA EvidenceStep ==
    ASSUME ReleaseInv, Plan \/ Reviewed \/ ReadEvidence \/ Relocate PROVE ReleaseInv'
<1>1. CASE Plan
  BY <1>1, RunEnds DEF Plan
<1>2. CASE Reviewed
  <2>1. CASE pc' = "idle" /\ q' = Blank
    BY <1>2, <2>1, RunEnds DEF Reviewed, Advance
  <2>2. CASE pc' = "evidence" /\ reviewed = _render_release_body
    <3>1. q' = [q EXCEPT !.body = _render_release_body] /\ pc = "plan"
      BY <1>2, <2>2 DEF Reviewed, Advance
    <3>2. _render_release_body \in read
      BY <1>2, <2>2 DEF Reviewed, ReleaseInv
    <3>3. /\ q'.body = _render_release_body /\ q'.definition = q.definition /\ q'.hw = q.hw
          /\ DOMAIN q' = Held
      BY <3>1 DEF ReleaseInv, RunHolds, Held
    <3>4. UNCHANGED <<commit, reviewed, read, out>>
      BY <1>2 DEF Reviewed, Advance
    <3>5. _render_release_body' = _render_release_body
      BY <3>3, <3>4 DEF _render_release_body
    <3>6. RunHolds'
      BY <2>2, <3>1, <3>2, <3>3, <3>4, <3>5 DEF ReleaseInv, RunHolds, Packaging, Assembled
    <3>7. QED
      BY <3>4, <3>6, RunGoesOn
  <2>3. QED
    BY <1>2, <2>1, <2>2 DEF Reviewed, Advance
<1>3. CASE ReadEvidence
  <2>1. CASE pc' = "idle" /\ q' = Blank
    BY <1>3, <2>1, RunEnds DEF ReadEvidence, Advance
  <2>2. CASE pc' = "relocate"
    <3>1. UNCHANGED <<commit, reviewed, read, out>> /\ pc = "evidence"
      BY <1>3 DEF ReadEvidence, Advance
    <3>2. /\ DOMAIN q' = DOMAIN q /\ q'.body = q.body /\ q'.definition = q.definition /\ q'.hw = q.hw
          /\ DOMAIN q'.ev = EvidenceFields /\ q'.ev.commit = commit
      BY <1>3, <2>2 DEF ReadEvidence, Advance, ReleaseInv, RunHolds, Held, EvidenceFields
    <3>3. RunHolds'
      BY <2>2, <3>1, <3>2 DEF ReleaseInv, RunHolds, Packaging, Assembled, _render_release_body
    <3>4. QED
      BY <3>1, <3>3, RunGoesOn
  <2>3. QED
    BY <1>3, <2>1, <2>2 DEF ReadEvidence, Advance
<1>4. CASE Relocate
  <2>1. CASE pc' = "idle" /\ q' = Blank
    BY <1>4, <2>1, RunEnds DEF Relocate, Advance
  <2>2. CASE pc' = "package"
    <3>1. UNCHANGED <<commit, reviewed, read, out>> /\ pc = "relocate"
      BY <1>4 DEF Relocate, Advance
    <3>2. q' = [q EXCEPT !.ev = Relocated] /\ InputsUnchanged
      BY <1>4, <2>2 DEF Relocate, Advance
    <3>3. Relocated.commit = q.ev.commit /\ Relocated.hw = q.ev.hw
      BY <3>1 DEF Relocated, ReleaseInv, RunHolds, EvidenceFields
    <3>4. validate_build_evidence(Relocated) /\ q.ev.hw = q.hw
      BY <3>2 DEF InputsUnchanged, build_release_evidence
    <3>5. /\ DOMAIN q' = DOMAIN q /\ q'.body = q.body /\ q'.definition = q.definition /\ q'.hw = q.hw
          /\ q'.ev = Relocated
      BY <3>2 DEF ReleaseInv, RunHolds, Held
    <3>6. validate_build_evidence(q.ev)'
      BY <3>4, <3>5
    <3>7. RunHolds'
      BY <2>2, <3>1, <3>3, <3>4, <3>5, <3>6
        DEF ReleaseInv, RunHolds, Packaging, Assembled, _render_release_body
    <3>8. QED
      BY <3>1, <3>7, RunGoesOn
  <2>3. QED
    BY <1>4, <2>1, <2>2 DEF Relocate, Advance
<1>5. QED
  BY <1>1, <1>2, <1>3, <1>4

(* Packaging.  Nothing a later step relies on is changed by an earlier one.  *)
Packs == <<q.body, q.definition, q.hw, q.ev, DOMAIN q>>

LEMMA PackagingStep ==
    ASSUME ReleaseInv,
           \/ PackageDefinition \/ MatchTested \/ validate_release_source_checkout
           \/ ZipTree \/ Stage \/ Archive
    PROVE  ReleaseInv'
<1>1. UNCHANGED <<commit, reviewed, read, out>>
  BY DEF PackageDefinition, MatchTested, validate_release_source_checkout, ZipTree, Stage, Archive, Advance
<1>2. CASE pc' = "idle" /\ q' = Blank
  BY <1>1, <1>2, RunEnds
<1>3. CASE pc' # "idle"
  <2> SUFFICES RunHolds'
    BY <1>1, RunGoesOn
  <2>1. pc \in Packaging /\ pc' \in Packaging /\ UNCHANGED Packs
    BY <1>3 DEF PackageDefinition, MatchTested, validate_release_source_checkout, ZipTree, Stage,
      Archive, Advance, Packs, Packaging, ReleaseInv, RunHolds, Held
  <2>2. validate_build_evidence(q.ev)' <=> validate_build_evidence(q.ev)
    BY <2>1 DEF Packs
  <2>3. /\ q'.ev.commit = commit /\ q'.ev.hw.run = q'.hw.run /\ validate_build_evidence(q.ev)'
        /\ q'.definition.date = Blob[commit].dist.date
        /\ q'.body \in read /\ q'.body = _render_release_body'
        /\ DOMAIN q' = Held
    BY <1>1, <2>1, <2>2 DEF Packs, ReleaseInv, RunHolds, Packaging, _render_release_body
  <2>4. CASE PackageDefinition
    BY <1>1, <1>3, <2>1, <2>3, <2>4 DEF PackageDefinition, Advance, RunHolds, Packaging, Assembled
  <2>5. CASE MatchTested
    BY <1>1, <1>3, <2>1, <2>3, <2>5 DEF MatchTested, Advance, RunHolds, Packaging, Assembled
  <2>6. CASE validate_release_source_checkout
    <3>1. /\ pc' = "zip" /\ w.tree.head = q.ev.commit /\ Clean(w.tree)
          /\ q' = [q EXCEPT !.source = [commit |-> q.ev.commit, dist |-> w.tree.dist, rbf |-> q.ev.rbf]]
      BY <1>3, <2>6 DEF validate_release_source_checkout, Advance
    <3>2. q.ev.commit = commit
      BY <2>1 DEF ReleaseInv, RunHolds
    <3>3. w.tree.dist = Blob[commit].dist
      BY <3>1, <3>2 DEF Clean, Checked
    <3>4. q'.source.commit = commit /\ q'.source.dist = Blob[commit].dist
      BY <3>1, <3>2, <3>3 DEF ReleaseInv, RunHolds, Held
    <3>5. QED
      BY <1>1, <2>1, <2>3, <3>1, <3>4 DEF RunHolds, Packaging, Assembled
  <2>7. CASE ZipTree
    <3>1. /\ pc = "zip" /\ pc' = "stage" /\ w.tree.dist = q.source.dist
          /\ q' = [q EXCEPT !.pkg = [dist |-> w.tree.dist, rbf |-> q.ev.rbf, evidence |-> q.ev,
                                     policy |-> q.policy, source |-> q.source]]
      BY <1>3, <2>7 DEF ZipTree, Advance, verify_release_dist_snapshot
    <3>2. /\ q'.source = q.source /\ q'.pkg.evidence = q.ev /\ q'.pkg.rbf = q.ev.rbf
          /\ q'.pkg.source = q.source /\ q'.pkg.dist = q.source.dist
      BY <3>1 DEF ReleaseInv, RunHolds, Held
    <3>3. QED
      BY <1>1, <2>1, <2>3, <3>1, <3>2 DEF RunHolds, Packaging, Assembled, ReleaseInv, Packs
  <2>8. CASE Stage
    <3>1. /\ pc = "stage" /\ pc' = "archive" /\ q' = q
          /\ _validate_release_provenance(q.pkg, w.tree.policy, q.definition.version, commit)
      BY <1>3, <2>8 DEF Stage, Advance
    <3>2. q.pkg.dist.version = q.definition.version /\ q.pkg.evidence.hw.dist = q.pkg.dist
      BY <3>1 DEF _validate_release_provenance, PackageIdentity
    <3>3. QED
      BY <1>1, <2>1, <2>3, <3>1, <3>2 DEF RunHolds, Packaging, Assembled, ReleaseInv
  <2>9. CASE Archive
    <3>1. pc = "archive" /\ pc' = "publish" /\ q' = [q EXCEPT !.files = PublicFiles]
      BY <2>9 DEF Archive
    <3>2. q'.pkg = q.pkg /\ q'.source = q.source /\ q'.files = PublicFiles
      BY <3>1 DEF ReleaseInv, RunHolds, Held
    <3>3. QED
      BY <1>1, <2>1, <2>3, <3>1, <3>2 DEF RunHolds, Packaging, Assembled, ReleaseInv, Packs
  <2>10. QED
    BY <2>4, <2>5, <2>6, <2>7, <2>8, <2>9
<1>4. QED
  BY <1>2, <1>3 DEF PackageDefinition, MatchTested, validate_release_source_checkout, ZipTree, Stage,
    Archive, Advance

(* What stands at the end satisfies both promises. *)
LEMMA PublishStep == ASSUME ReleaseInv, _rename_noreplace PROVE ReleaseInv'
<1>1. /\ pc = "publish" /\ pc' = "idle" /\ q' = Blank
      /\ out' = IF out = Nothing THEN Publication ELSE out
      /\ UNCHANGED <<commit, reviewed, read>>
  BY DEF _rename_noreplace
<1>2. CASE out' = out
  BY <1>1, <1>2, RunEnds
<1>3. CASE out' = Publication
  <2>1. /\ q.ev.commit = commit /\ q.ev.hw.run = q.hw.run /\ validate_build_evidence(q.ev)
        /\ q.source.commit = commit /\ q.source.dist = Blob[commit].dist
        /\ q.pkg.evidence = q.ev /\ q.pkg.rbf = q.ev.rbf /\ q.pkg.source = q.source
        /\ q.pkg.dist = q.source.dist /\ q.ev.hw.dist = q.pkg.dist
        /\ q.pkg.dist.version = q.definition.version /\ q.definition.date = Blob[commit].dist.date
        /\ q.files = PublicFiles /\ q.body \in read /\ q.body = _render_release_body
    BY <1>1 DEF ReleaseInv, RunHolds, Packaging, Assembled
  <2>2. AreSigned(q.ev) /\ AreTested(q.ev)
    BY <2>1, EvidenceIsBound
  <2>3. /\ out'.package = q.pkg /\ out'.body = q.body /\ out'.source = commit
        /\ out'.files = PublicFiles
    BY <1>3, <2>1 DEF Publication
  <2>4. PublishedIsBound'
    <3>1. /\ out'.package.evidence = q.ev /\ out'.package.rbf = q.ev.rbf
          /\ out'.package.source.commit = commit /\ out'.package.dist = Blob[commit].dist
          /\ q.ev.hw.dist = Blob[commit].dist
      BY <2>1, <2>3
    <3>2. /\ q.ev.builds[1].audit.commit = commit /\ q.ev.builds[2].audit.commit = commit
          /\ q.ev.builds[1].audit.of.rbf = q.ev.rbf /\ q.ev.builds[2].audit.of.rbf = q.ev.rbf
          /\ q.ev.builds[1].audit.run # q.ev.builds[2].audit.run
          /\ q.ev.builds[1].audit.nonce # q.ev.builds[2].audit.nonce
          /\ \A b \in {q.ev.builds[1], q.ev.builds[2]} : b.bundle.trusted /\ b.bundle.subject = b.audit
      BY <2>1, <2>2 DEF AreSigned
    <3>3. /\ q.ev.hw.rbf = q.ev.rbf /\ q.ev.kt.rbf = q.ev.rbf /\ q.ev.kt.commit = commit
          /\ AllPass(q.ev.hw) /\ AllPass(q.ev.kt)
      BY <2>1, <2>2 DEF AreTested
    <3> DEFINE p == out'.package
               e == p.evidence
               first == e.builds[1]
               second == e.builds[2]
    <3>4. /\ {p.rbf, first.audit.of.rbf, second.audit.of.rbf, e.hw.rbf, e.kt.rbf} = {p.rbf}
          /\ {first.audit.commit, second.audit.commit, e.kt.commit, p.source.commit, out'.source} = {commit}
          /\ {p.dist, Blob[commit].dist, e.hw.dist} = {p.dist}
      BY <2>3, <3>1, <3>2, <3>3
    <3>5. /\ first.audit.run # second.audit.run /\ first.audit.nonce # second.audit.nonce
          /\ \A b \in {first, second} : b.bundle.trusted /\ b.bundle.subject = b.audit
      BY <3>1, <3>2
    <3>6. AllPass(e.hw) /\ AllPass(e.kt)
      BY <3>1, <3>3
    <3>7. QED
      BY <1>1, <2>3, <3>4, <3>5, <3>6 DEF PublishedIsBound
  <2>5. ReviewedIsPublished'
    BY <1>1, <2>1, <2>3 DEF ReviewedIsPublished, _render_release_body
  <2>6. RunHolds'
    BY <1>1, BlankHolds DEF RunHolds, Packaging, Assembled
  <2>7. QED
    BY <1>1, <2>4, <2>5, <2>6 DEF ReleaseInv
<1>4. QED
  BY <1>1, <1>2, <1>3

LEMMA ReleaseAround ==
    ASSUME ReleaseInv,
           \/ \E body \in read \cup {Nothing} : Start(body)
           \/ CreateOutput \/ Stop
           \/ \E field \in DOMAIN Values : \E value \in Values[field] : Swap(field, value)
           \/ UNCHANGED releaseVars
    PROVE  ReleaseInv'
<1>1. CASE \E body \in read \cup {Nothing} : Start(body)
  <2>1. /\ pc' = "checkout" /\ q' = Blank /\ reviewed' \in read \cup {Nothing}
        /\ UNCHANGED <<commit, read, out>>
    BY <1>1 DEF Start
  <2>2. RunHolds'
    BY <2>1, BlankHolds DEF RunHolds, Packaging, Assembled
  <2>3. QED
    BY <2>1, <2>2, PublishedStays DEF ReleaseInv
<1>2. CASE CreateOutput
  <2>1. UNCHANGED <<commit, pc, reviewed, q, read>> /\ out' = Foreign
    BY <1>2 DEF CreateOutput
  <2>2. RunHolds'
    BY <2>1 DEF ReleaseInv, RunHolds, _render_release_body
  <2>3. QED
    BY <2>1, <2>2, PublishedStays DEF ReleaseInv
<1>3. CASE Stop
  BY <1>3, RunEnds DEF Stop
<1>4. CASE UNCHANGED <<commit, pc, reviewed, q, read, out>>
  <2>1. RunHolds'
    BY <1>4 DEF ReleaseInv, RunHolds, _render_release_body
  <2>2. QED
    BY <1>4, <2>1, PublishedStays DEF ReleaseInv
<1>5. QED
  BY <1>1, <1>2, <1>3, <1>4 DEF Swap, releaseVars

LEMMA ReleaseKept ==
    ASSUME ReleaseInv, [Next]_publishingVars
    PROVE  (ReleaseInv)'
<1>1. UNCHANGED commit
  BY DEF Next, ReleaseNext, Swap, Start, Checkout, _release_preflight, AuditFirst, AuditSecond,
    _accepted_hardware, _accepted_known_title_compatibility, Plan, Reviewed, ReadEvidence, Relocate,
    PackageDefinition, MatchTested, validate_release_source_checkout, ZipTree, Stage, Archive,
    _rename_noreplace, CreateOutput, Stop, Advance, publishingVars, releaseVars
<1>2. CASE ReleaseNext
  BY <1>2, ReadingStep, EvidenceStep, PackagingStep, PublishStep, ReleaseAround DEF ReleaseNext
<1>3. CASE ~ReleaseNext
  BY <1>3, ReleaseAround DEF Next, publishingVars
<1>4. QED
  BY <1>1, <1>2, <1>3

LEMMA ReleaseStart == ReleaseInit => ReleaseInv
BY BlankHolds DEF ReleaseInit, ReleaseInv, RunHolds, PublishedIsBound, ReviewedIsPublished, Published,
  Packaging, Assembled

\* PublishedIsBound: a published release is of one commit, one bitstream, two
\* signed builds and two passed campaigns, and holds the commit's own files.
THEOREM ReleaseIsBound == Spec => []PublishedIsBound
<1>1. Init => ReleaseInv
  BY ReleaseStart DEF Init
<1>2. ReleaseInv /\ [Next]_publishingVars
        => (ReleaseInv)'
  BY ReleaseKept
<1>3. ReleaseInv => PublishedIsBound
  BY DEF ReleaseInv
<1>4. QED
  BY <1>1, <1>2, <1>3, PTL DEF Spec

\* ReviewedIsPublished: the published body was shown by a plan run and is true
\* of the package beside it.
THEOREM BodyIsReviewed == Spec => []ReviewedIsPublished
<1>1. Init => ReleaseInv
  BY ReleaseStart DEF Init
<1>2. ReleaseInv /\ [Next]_publishingVars
        => (ReleaseInv)'
  BY ReleaseKept
<1>3. ReleaseInv => ReviewedIsPublished
  BY DEF ReleaseInv
<1>4. QED
  BY <1>1, <1>2, <1>3, PTL DEF Spec

-----------------------------------------------------------------------------
(* Induction over the numbers, for a set of them.                            *)

\* Every set of numbers that is not empty has a least member.
LEMMA Least ==
    ASSUME NEW T, T \subseteq Nat, T # {}
    PROVE  \E n \in T : \A i \in T : n <= i
<1>1. PICK n \in T : \A i \in T : ~(<<i, n>> \in OpToRel(<, Nat))
  BY NatLessThanWellFounded, WFMin
<1> SUFFICES ASSUME NEW i \in T, ~(n <= i) PROVE FALSE
  OBVIOUS
<1>2. i \in Nat /\ n \in Nat /\ i < n
  OBVIOUS
<1>3. <<i, n>> \in OpToRel(<, Nat)
  BY <1>2 DEF OpToRel
<1> QED BY <1>1, <1>3

\* A set of numbers with 0 and every successor is all of them.
LEMMA Induction ==
    ASSUME NEW T, 0 \in T, \A n \in T : n \in Nat => n + 1 \in T
    PROVE  Nat \subseteq T
<1> SUFFICES ASSUME Nat \ T # {} PROVE FALSE
  OBVIOUS
<1> DEFINE U == Nat \ T
<1>1. PICK n \in U : \A i \in U : n <= i
  <2>1. U \subseteq Nat /\ U # {}
    OBVIOUS
  <2> HIDE DEF U
  <2> QED BY <2>1, Least
<1>2. n \in Nat /\ n # 0
  BY <1>1
<1>3. n - 1 \in Nat /\ n - 1 \notin U
  BY <1>1, <1>2
<1>4. n - 1 \in T
  BY <1>3
<1>5. (n - 1) + 1 \in T
  BY <1>3, <1>4
<1>6. (n - 1) + 1 = n
  BY <1>2
<1> QED BY <1>1, <1>5, <1>6

-----------------------------------------------------------------------------
(* Versions.  The comparison the policy check computes with agrees with the  *)
(* standard's order, and the one pass over a history finds a version that no *)
(* listed one is above; so a validated policy lists older versions only.     *)
SamePrecedence(l, r) == l.core = r.core /\ l.final = r.final /\ (l.final \/ l.pre = r.pre)
AtMost(l, r) == Precedes(l, r) \/ SamePrecedence(l, r)

LEMMA FirstDifference ==
    ASSUME NEW S, NEW s \in Seq(S), NEW t \in Seq(S), NEW D, D = FirstDiffering(s, t)
    PROVE  /\ D = {i \in Nat : i >= 1 /\ i <= Len(s) /\ i <= Len(t) /\ s[i] # t[i]}
           /\ D # {} => Min(D) \in D /\ \A i \in D : Min(D) <= i
<1>1. Min({Len(s), Len(t)}) = IF Len(s) <= Len(t) THEN Len(s) ELSE Len(t)
  <2>1. \A a, b \in Nat : Min({a, b}) = IF a <= b THEN a ELSE b
    BY DEF Min
  <2>2. QED
    BY <2>1
<1>2. D = {i \in Nat : i >= 1 /\ i <= Len(s) /\ i <= Len(t) /\ s[i] # t[i]}
  BY <1>1 DEF FirstDiffering
<1>3. ASSUME D # {} PROVE Min(D) \in D /\ \A i \in D : Min(D) <= i
  <2>1. \E n \in D : \A i \in D : n <= i
    BY <1>2, <1>3, Least
  <2>2. QED
    BY <2>1 DEF Min
<1>4. QED
  BY <1>2, <1>3

LEMMA VersionFacts ==
    ASSUME NEW v \in Versions
    PROVE  v.core \in [1 .. 3 -> Nat] /\ v.final \in BOOLEAN /\ v.pre \in Seq(Identifiers)
BY DEF Versions

\* The comparison and the order agree, number by number and identifier by
\* identifier.
LEMMA SignFacts ==
    ASSUME NEW a \in Nat, NEW b \in Nat
    PROVE  Sign(a, b) \in Int /\ (Sign(a, b) > 0 <=> b < a) /\ (Sign(a, b) = 0 <=> a = b)
BY DEF Sign

LEMMA IdentifierFacts ==
    ASSUME NEW a \in Identifiers, NEW b \in Identifiers, a # b
    PROVE  /\ CompareIdentifier(a, b) \in Int
           /\ CompareIdentifier(a, b) > 0 <=> IdentifierBelow(b, a)
           /\ ~(CompareIdentifier(a, b) > 0) <=> IdentifierBelow(a, b)
<1>1. a.num \in BOOLEAN /\ b.num \in BOOLEAN /\ a.val \in Nat /\ b.val \in Nat
  BY DEF Identifiers
<1>2. a.num = b.num => a.val # b.val
  BY <1>1 DEF Identifiers
<1>3. QED
  BY <1>1, <1>2 DEF CompareIdentifier, IdentifierBelow, Sign

LEMMA IdentifierOrder ==
    ASSUME NEW a \in Identifiers, NEW b \in Identifiers, NEW c \in Identifiers,
           IdentifierBelow(a, b), IdentifierBelow(b, c)
    PROVE  IdentifierBelow(a, c)
BY DEF Identifiers, IdentifierBelow

LEMMA ThreeNumbers == ASSUME NEW s \in [1 .. 3 -> Nat] PROVE s \in Seq(Nat) /\ Len(s) = 3
<1>1. s \in Seq(Nat)
  BY SeqDef
<1>2. DOMAIN s = 1 .. Len(s) /\ Len(s) \in Nat
  BY <1>1, LenProperties
<1>3. QED
  BY <1>1, <1>2

LEMMA CoreAgrees ==
    ASSUME NEW l \in [1 .. 3 -> Nat], NEW r \in [1 .. 3 -> Nat], NEW D, D = FirstDiffering(l, r)
    PROVE  /\ D = {} <=> l = r
           /\ D # {} => Sign(l[Min(D)], r[Min(D)]) \in Int
           /\ D # {} /\ Sign(l[Min(D)], r[Min(D)]) > 0 => CoreBelow(r, l)
           /\ D # {} /\ ~(Sign(l[Min(D)], r[Min(D)]) > 0) => CoreBelow(l, r)
<1>0. D = {i \in Nat : i >= 1 /\ i <= Len(l) /\ i <= Len(r) /\ l[i] # r[i]}
  BY ThreeNumbers, FirstDifference
<1>1. D = {i \in 1 .. 3 : l[i] # r[i]}
  <2>1. Len(l) = 3 /\ Len(r) = 3
    BY ThreeNumbers
  <2>2. D = {i \in Nat : i >= 1 /\ i <= 3 /\ i <= 3 /\ l[i] # r[i]}
    BY <1>0, <2>1
  <2>3. QED
    BY <2>2
<1>2. D = {} => l = r
  BY <1>1
<1>3. l = r => D = {}
  BY <1>1
<1>4. ASSUME D # {}
      PROVE  \E m \in 1 .. 3 : m = Min(D) /\ l[m] # r[m] /\ \A j \in 1 .. m - 1 : l[j] = r[j]
  <2>1. PICK m : m = Min(D)
    OBVIOUS
  <2>2. m \in D /\ \A i \in D : m <= i
    BY <1>4, <2>1, ThreeNumbers, FirstDifference
  <2>3. m \in 1 .. 3 /\ l[m] # r[m] /\ \A j \in 1 .. m - 1 : l[j] = r[j]
    BY <1>1, <2>2
  <2>4. QED
    BY <2>1, <2>3
<1>5. ASSUME D # {}
      PROVE  /\ Sign(l[Min(D)], r[Min(D)]) \in Int
             /\ Sign(l[Min(D)], r[Min(D)]) > 0 => CoreBelow(r, l)
             /\ ~(Sign(l[Min(D)], r[Min(D)]) > 0) => CoreBelow(l, r)
  <2>1. PICK m \in 1 .. 3 : m = Min(D) /\ l[m] # r[m] /\ \A j \in 1 .. m - 1 : l[j] = r[j]
    BY <1>4, <1>5
  <2>2. l[m] \in Nat /\ r[m] \in Nat
    OBVIOUS
  <2>3. Sign(l[m], r[m]) \in Int /\ (Sign(l[m], r[m]) > 0 <=> r[m] < l[m])
    BY <2>2, SignFacts
  <2>4. ~(Sign(l[m], r[m]) > 0) => l[m] < r[m]
    BY <2>1, <2>2, <2>3
  <2>5. QED
    BY <2>1, <2>3, <2>4 DEF CoreBelow
<1>6. QED
  BY <1>2, <1>3, <1>5

LEMMA PrereleaseAgrees ==
    ASSUME NEW l \in Seq(Identifiers), NEW r \in Seq(Identifiers), NEW D, D = FirstDiffering(l, r),
           NEW c, c = IF D # {} THEN CompareIdentifier(l[Min(D)], r[Min(D)]) ELSE Sign(Len(l), Len(r))
    PROVE  /\ c > 0 => PrereleaseBelow(r, l)
           /\ ~(c > 0) => PrereleaseBelow(l, r) \/ l = r
<1>1. D = {i \in Nat : i >= 1 /\ i <= Len(l) /\ i <= Len(r) /\ l[i] # r[i]}
  BY FirstDifference
<1>2. CASE D # {}
  <2>1. PICK m : m = Min(D)
    OBVIOUS
  <2>2. m \in D /\ \A i \in D : m <= i
    BY <1>2, <2>1, FirstDifference
  <2>3. /\ m \in DOMAIN l /\ m \in DOMAIN r /\ l[m] # r[m]
        /\ \A j \in 1 .. m - 1 : j \in DOMAIN l /\ j \in DOMAIN r /\ l[j] = r[j]
    BY <1>1, <2>2
  <2>4. l[m] \in Identifiers /\ r[m] \in Identifiers
    BY <2>3
  <2>5. c = CompareIdentifier(l[m], r[m])
    BY <1>2, <2>1
  <2>6. /\ c > 0 => IdentifierBelow(r[m], l[m])
        /\ ~(c > 0) => IdentifierBelow(l[m], r[m])
    BY <2>3, <2>4, <2>5, IdentifierFacts
  <2>7. QED
    BY <2>3, <2>6 DEF PrereleaseBelow
<1>3. CASE D = {}
  <2>1. \A i \in Nat : i >= 1 /\ i <= Len(l) /\ i <= Len(r) => l[i] = r[i]
    BY <1>1, <1>3
  <2>2. Len(l) \in Nat /\ Len(r) \in Nat /\ DOMAIN l = 1 .. Len(l) /\ DOMAIN r = 1 .. Len(r)
    OBVIOUS
  <2>3. c = Sign(Len(l), Len(r))
    BY <1>3
  <2>4. c > 0 <=> Len(r) < Len(l)
    <3>1. PICK a \in Nat, b \in Nat : a = Len(l) /\ b = Len(r)
      BY <2>2
    <3>2. c = Sign(a, b) /\ (Sign(a, b) > 0 <=> b < a)
      BY <2>3, <3>1, SignFacts
    <3>3. QED
      BY <3>1, <3>2
  <2>5. ASSUME Len(r) < Len(l) PROVE PrereleaseBelow(r, l)
    <3>1. Len(r) + 1 \in DOMAIN l /\ Len(r) + 1 \notin DOMAIN r
      BY <2>2, <2>5
    <3>2. \A j \in 1 .. (Len(r) + 1) - 1 : j \in DOMAIN r /\ r[j] = l[j]
      BY <2>1, <2>2, <2>5
    <3>3. QED
      BY <3>1, <3>2 DEF PrereleaseBelow
  <2>6. ASSUME Len(l) < Len(r) PROVE PrereleaseBelow(l, r)
    <3>1. Len(l) + 1 \in DOMAIN r /\ Len(l) + 1 \notin DOMAIN l
      BY <2>2, <2>6
    <3>2. \A j \in 1 .. (Len(l) + 1) - 1 : j \in DOMAIN l /\ l[j] = r[j]
      BY <2>1, <2>2, <2>6
    <3>3. QED
      BY <3>1, <3>2 DEF PrereleaseBelow
  <2>7. ASSUME Len(l) = Len(r) PROVE l = r
    BY <2>1, <2>7
  <2>8. Len(r) < Len(l) \/ Len(l) < Len(r) \/ Len(l) = Len(r)
    <3>1. PICK a \in Nat, b \in Nat : a = Len(l) /\ b = Len(r)
      BY <2>2
    <3>2. b < a \/ a < b \/ a = b
      OBVIOUS
    <3>3. QED
      BY <3>1, <3>2
  <2>9. ~(Len(r) < Len(l)) => PrereleaseBelow(l, r) \/ l = r
    BY <2>6, <2>7, <2>8
  <2>10. QED
    BY <2>4, <2>5, <2>9
<1>4. QED
  BY <1>2, <1>3

\* The comparison the policy check computes with decides the standard's order.
LEMMA ComparisonAgrees ==
    ASSUME NEW l \in Versions, NEW r \in Versions
    PROVE  /\ compare_semver(l, r) > 0 => Precedes(r, l)
           /\ ~(compare_semver(l, r) > 0) => AtMost(l, r)
<1> DEFINE core == FirstDiffering(l.core, r.core)
           pre == FirstDiffering(l.pre, r.pre)
<1>1. /\ l.core \in [1 .. 3 -> Nat] /\ l.final \in BOOLEAN /\ l.pre \in Seq(Identifiers)
      /\ r.core \in [1 .. 3 -> Nat] /\ r.final \in BOOLEAN /\ r.pre \in Seq(Identifiers)
  BY VersionFacts
<1>2. CASE core # {}
  <2>1. compare_semver(l, r) = Sign(l.core[Min(core)], r.core[Min(core)])
    BY <1>2 DEF compare_semver
  <2>2. PICK C : C = core
    OBVIOUS
  <2>3. /\ Sign(l.core[Min(C)], r.core[Min(C)]) > 0 => CoreBelow(r.core, l.core)
        /\ ~(Sign(l.core[Min(C)], r.core[Min(C)]) > 0) => CoreBelow(l.core, r.core)
    BY <1>1, <1>2, <2>2, CoreAgrees
  <2>4. QED
    BY <2>1, <2>2, <2>3 DEF Precedes, AtMost
<1>3. CASE core = {}
  <2>1. l.core = r.core
    BY <1>1, <1>3, CoreAgrees
  <2>2. CASE l.final \/ r.final
    <3>1. compare_semver(l, r) = IF l.final = r.final THEN 0 ELSE IF l.final THEN 1 ELSE -1
      BY <1>3, <2>2 DEF compare_semver
    <3>2. CASE l.final = r.final
      BY <2>1, <2>2, <3>1, <3>2 DEF AtMost, SamePrecedence
    <3>3. CASE l.final # r.final /\ l.final
      <4>1. ~r.final /\ compare_semver(l, r) = 1
        BY <1>1, <3>1, <3>3, Zenon
      <4>2. Precedes(r, l)
        BY <2>1, <3>3, <4>1, Zenon DEF Precedes
      <4>3. QED
        BY <4>1, <4>2
    <3>4. CASE l.final # r.final /\ ~l.final
      BY <1>1, <2>1, <2>2, <3>1, <3>4 DEF AtMost, Precedes
    <3>5. QED
      BY <3>2, <3>3, <3>4
  <2>3. CASE ~l.final /\ ~r.final
    <3>1. PICK P : P = pre
      OBVIOUS
    <3>2. PICK c : c = IF P # {} THEN CompareIdentifier(l.pre[Min(P)], r.pre[Min(P)])
                       ELSE Sign(Len(l.pre), Len(r.pre))
      OBVIOUS
    <3>3. compare_semver(l, r) = c
      BY <1>3, <2>3, <3>1, <3>2 DEF compare_semver
    <3>4. c > 0 => PrereleaseBelow(r.pre, l.pre)
      BY <1>1, <3>1, <3>2, PrereleaseAgrees
    <3>5. ~(c > 0) => PrereleaseBelow(l.pre, r.pre) \/ l.pre = r.pre
      BY <1>1, <3>1, <3>2, PrereleaseAgrees
    <3>6. QED
      BY <1>1, <2>1, <2>3, <3>3, <3>4, <3>5 DEF Precedes, AtMost, SamePrecedence
  <2>4. QED
    BY <2>2, <2>3
<1>4. QED
  BY <1>2, <1>3

\* The order is one: what is below something is below all above that.
LEMMA CoreOrder ==
    ASSUME NEW a \in [1 .. 3 -> Nat], NEW b \in [1 .. 3 -> Nat], NEW c \in [1 .. 3 -> Nat],
           CoreBelow(a, b), CoreBelow(b, c)
    PROVE  CoreBelow(a, c)
<1>1. PICK i \in 1 .. 3 : a[i] < b[i] /\ \A j \in 1 .. i - 1 : a[j] = b[j]
  BY DEF CoreBelow
<1>2. PICK k \in 1 .. 3 : b[k] < c[k] /\ \A j \in 1 .. k - 1 : b[j] = c[j]
  BY DEF CoreBelow
<1>3. \A j \in 1 .. 3 : a[j] \in Nat /\ b[j] \in Nat /\ c[j] \in Nat
  OBVIOUS
<1>4. CASE i <= k
  <2>1. a[i] < c[i] /\ \A j \in 1 .. i - 1 : a[j] = c[j]
    BY <1>1, <1>2, <1>3, <1>4
  <2>2. QED
    BY <2>1 DEF CoreBelow
<1>5. CASE k < i
  <2>1. a[k] < c[k] /\ \A j \in 1 .. k - 1 : a[j] = c[j]
    BY <1>1, <1>2, <1>3, <1>5
  <2>2. QED
    BY <2>1 DEF CoreBelow
<1>6. QED
  BY <1>4, <1>5

LEMMA PrereleaseOrder ==
    ASSUME NEW a \in Seq(Identifiers), NEW b \in Seq(Identifiers), NEW c \in Seq(Identifiers),
           PrereleaseBelow(a, b), PrereleaseBelow(b, c)
    PROVE  PrereleaseBelow(a, c)
<1>0. /\ DOMAIN a = 1 .. Len(a) /\ DOMAIN b = 1 .. Len(b) /\ DOMAIN c = 1 .. Len(c)
      /\ Len(a) \in Nat /\ Len(b) \in Nat /\ Len(c) \in Nat
  BY LenProperties
<1>1. PICK i \in DOMAIN b : /\ \A j \in 1 .. i - 1 : j \in DOMAIN a /\ a[j] = b[j]
                            /\ i \in DOMAIN a => IdentifierBelow(a[i], b[i])
  BY DEF PrereleaseBelow
<1>2. PICK k \in DOMAIN c : /\ \A j \in 1 .. k - 1 : j \in DOMAIN b /\ b[j] = c[j]
                            /\ k \in DOMAIN b => IdentifierBelow(b[k], c[k])
  BY DEF PrereleaseBelow
<1>3. i \in Nat /\ k \in Nat /\ i >= 1 /\ k >= 1
  BY <1>0
<1>4. CASE i < k
  <2>1. i \in DOMAIN c /\ b[i] = c[i]
    BY <1>0, <1>2, <1>3, <1>4
  <2>2. \A j \in 1 .. i - 1 : j \in DOMAIN a /\ a[j] = c[j]
    BY <1>1, <1>2, <1>3, <1>4
  <2>3. QED
    BY <1>1, <2>1, <2>2 DEF PrereleaseBelow
<1>5. CASE k < i
  <2>1. k \in DOMAIN a /\ a[k] = b[k] /\ k \in DOMAIN b
    BY <1>0, <1>1, <1>3, <1>5
  <2>2. \A j \in 1 .. k - 1 : j \in DOMAIN a /\ a[j] = c[j]
    BY <1>1, <1>2, <1>3, <1>5
  <2>3. QED
    BY <1>2, <2>1, <2>2 DEF PrereleaseBelow
<1>6. CASE i = k
  <2>1. \A j \in 1 .. i - 1 : j \in DOMAIN a /\ a[j] = c[j]
    BY <1>1, <1>2, <1>6
  <2>2. ASSUME i \in DOMAIN a PROVE IdentifierBelow(a[i], c[i])
    <3>1. a[i] \in Identifiers /\ b[i] \in Identifiers /\ c[i] \in Identifiers
      BY <1>6, <2>2
    <3>2. IdentifierBelow(a[i], b[i]) /\ IdentifierBelow(b[i], c[i])
      BY <1>1, <1>2, <1>6, <2>2
    <3>3. QED
      BY <3>1, <3>2, IdentifierOrder
  <2>3. QED
    BY <1>6, <2>1, <2>2 DEF PrereleaseBelow
<1>7. QED
  BY <1>3, <1>4, <1>5, <1>6

LEMMA VersionOrder ==
    ASSUME NEW a \in Versions, NEW b \in Versions, NEW c \in Versions,
           AtMost(a, b), Precedes(b, c)
    PROVE  Precedes(a, c)
<1>1. /\ a.core \in [1 .. 3 -> Nat] /\ a.pre \in Seq(Identifiers)
      /\ b.core \in [1 .. 3 -> Nat] /\ b.pre \in Seq(Identifiers)
      /\ c.core \in [1 .. 3 -> Nat] /\ c.pre \in Seq(Identifiers)
  BY DEF Versions
<1>2. CASE SamePrecedence(a, b)
  BY <1>1, <1>2 DEF SamePrecedence, Precedes
<1>3. CASE Precedes(a, b) /\ CoreBelow(a.core, b.core)
  <2>1. CoreBelow(b.core, c.core) \/ b.core = c.core
    BY DEF Precedes
  <2>2. CoreBelow(a.core, c.core)
    BY <1>1, <1>3, <2>1, CoreOrder
  <2>3. QED
    BY <2>2 DEF Precedes
<1>4. CASE a.core = b.core /\ ~a.final /\ (b.final \/ PrereleaseBelow(a.pre, b.pre))
  <2>1. CASE CoreBelow(b.core, c.core)
    BY <1>4, <2>1 DEF Precedes
  <2>2. CASE b.core = c.core /\ ~b.final /\ (c.final \/ PrereleaseBelow(b.pre, c.pre))
    BY <1>1, <1>4, <2>2, PrereleaseOrder DEF Precedes
  <2>3. QED
    BY <2>1, <2>2 DEF Precedes
<1>5. \/ SamePrecedence(a, b)
      \/ Precedes(a, b) /\ CoreBelow(a.core, b.core)
      \/ a.core = b.core /\ ~a.final /\ (b.final \/ PrereleaseBelow(a.pre, b.pre))
  BY Zenon DEF AtMost, Precedes
<1>6. QED
  BY <1>2, <1>3, <1>4, <1>5, Zenon

\* The pass over a history: what it holds after each entry is an entry, and
\* no entry passed is above it.
Later(h, n, best) ==
  IF compare_semver(h[n].version, best) > 0 THEN h[n].version ELSE best
IsPass(h, g) == g = [n \in DOMAIN h |-> IF n = 1 THEN h[1].version ELSE Later(h, n, g[n - 1])]

LEMMA HistoryFacts ==
    ASSUME NEW h \in ReleaseHistories
    PROVE  /\ Len(h) \in Nat /\ DOMAIN h = 1 .. Len(h) /\ (Len(h) = 0 => h = << >>)
           /\ \A n \in DOMAIN h : h[n].version \in Versions
<1>1. PICK R : R = [version : Versions, date : Nat]
  OBVIOUS
<1>2. h \in Seq(R) /\ \A e \in R : e.version \in Versions
  BY <1>1 DEF ReleaseHistories
<1>3. Len(h) \in Nat /\ DOMAIN h = 1 .. Len(h) /\ h \in [1 .. Len(h) -> R]
  BY <1>2, LenProperties
<1>4. Len(h) = 0 => h = << >>
  BY <1>2, EmptySeq
<1>5. QED
  BY <1>2, <1>3, <1>4

LEMMA PassExists ==
    ASSUME NEW h \in ReleaseHistories PROVE \E g : IsPass(h, g)
<1> DEFINE Up(m, g) == /\ DOMAIN g = 1 .. m
                       /\ \A n \in 1 .. m : g[n] = IF n = 1 THEN h[1].version ELSE Later(h, n, g[n - 1])
           T == {m \in Nat : \E g : Up(m, g)}
<1>1. 0 \in T
  <2>1. Up(0, [n \in 1 .. 0 |-> 0])
    OBVIOUS
  <2>2. QED
    BY <2>1
<1>2. \A m \in T : m \in Nat => m + 1 \in T
  <2> SUFFICES ASSUME NEW m \in Nat, m \in T PROVE m + 1 \in T
    OBVIOUS
  <2>1. PICK g : Up(m, g)
    OBVIOUS
  <2>2. PICK e : e = IF m + 1 = 1 THEN h[1].version ELSE Later(h, m + 1, g[m])
    OBVIOUS
  <2>3. PICK f : f = [n \in 1 .. m + 1 |-> IF n = m + 1 THEN e ELSE g[n]]
    OBVIOUS
  <2>4. DOMAIN f = 1 .. m + 1 /\ f[m + 1] = e /\ \A n \in 1 .. m : f[n] = g[n]
    BY <2>3
  <2>5. ASSUME NEW n \in 1 .. m + 1
        PROVE  f[n] = IF n = 1 THEN h[1].version ELSE Later(h, n, f[n - 1])
    <3>1. CASE n \in 1 .. m /\ n # 1
      <4>1. n - 1 \in 1 .. m
        BY <3>1
      <4>2. QED
        BY <2>1, <2>4, <3>1, <4>1
    <3>2. CASE n = m + 1 /\ n # 1
      <4>1. m \in 1 .. m /\ n - 1 = m
        BY <3>2
      <4>2. f[m] = g[m]
        BY <2>4, <4>1
      <4>3. QED
        BY <2>2, <2>4, <3>2, <4>1, <4>2
    <3>3. CASE n = 1
      <4>1. CASE m = 0
        BY <2>2, <2>4, <3>3, <4>1
      <4>2. CASE m # 0
        <5>1. 1 \in 1 .. m
          BY <4>2
        <5>2. QED
          BY <2>1, <2>4, <3>3, <5>1
      <4>3. QED
        BY <4>1, <4>2
    <3>4. QED
      BY <3>1, <3>2, <3>3
  <2>6. Up(m + 1, f)
    BY <2>4, <2>5
  <2>7. QED
    BY <2>6
<1>3. Nat \subseteq T
  <2> HIDE DEF T
  <2>1. QED
    BY <1>1, <1>2, Induction
<1>4. Len(h) \in Nat /\ DOMAIN h = 1 .. Len(h)
  BY HistoryFacts
<1>5. PICK g : Up(Len(h), g)
  BY <1>3, <1>4
<1>6. PICK f : f = [n \in DOMAIN h |-> g[n]]
  OBVIOUS
<1>7. DOMAIN f = DOMAIN h /\ \A n \in DOMAIN h : f[n] = g[n]
  BY <1>6
<1>8. ASSUME NEW n \in DOMAIN h
      PROVE  f[n] = IF n = 1 THEN h[1].version ELSE Later(h, n, f[n - 1])
  <2>1. g[n] = IF n = 1 THEN h[1].version ELSE Later(h, n, g[n - 1])
    BY <1>4, <1>5
  <2>2. n # 1 => n - 1 \in DOMAIN h
    BY <1>4
  <2>3. QED
    BY <1>7, <2>1, <2>2
<1>9. f = [n \in DOMAIN h |-> IF n = 1 THEN h[1].version ELSE Later(h, n, f[n - 1])]
  BY <1>6, <1>7, <1>8
<1>10. QED
  BY <1>9 DEF IsPass

LEMMA LatestIsHighest ==
    ASSUME NEW h \in ReleaseHistories, h # << >>
    PROVE  /\ LatestVersion(h) \in Versions
           /\ \A i \in DOMAIN h : AtMost(h[i].version, LatestVersion(h))
<1>1. PICK g : g = CHOOSE latest : IsPass(h, latest)
  OBVIOUS
<1>2. IsPass(h, g)
  BY <1>1, PassExists
<1>3. LatestVersion(h) = g[Len(h)]
  BY <1>1 DEF LatestVersion, IsPass, Later
<1>4. Len(h) \in Nat /\ DOMAIN h = 1 .. Len(h) /\ Len(h) # 0
  BY HistoryFacts
<1>5. \A n \in DOMAIN h : h[n].version \in Versions
  BY HistoryFacts
<1>6. g[1] = h[1].version
  BY <1>2, <1>4 DEF IsPass
<1>7. ASSUME NEW n \in DOMAIN h, n + 1 \in DOMAIN h PROVE g[n + 1] = Later(h, n + 1, g[n])
  <2>1. n \in Nat /\ n + 1 # 1 /\ (n + 1) - 1 = n
    BY <1>4
  <2>2. \A k \in DOMAIN h : g[k] = IF k = 1 THEN h[1].version ELSE Later(h, k, g[k - 1])
    <3>1. PICK f : f = [k \in DOMAIN h |-> IF k = 1 THEN h[1].version ELSE Later(h, k, g[k - 1])]
      OBVIOUS
    <3>2. f = g
      BY <1>2, <3>1 DEF IsPass
    <3>3. QED
      BY <3>1, <3>2
  <2>3. QED
    BY <1>7, <2>1, <2>2
<1> DEFINE Above(n) == g[n] \in Versions /\ \A i \in 1 .. n : AtMost(h[i].version, g[n])
           T == {m \in Nat : m + 1 \in DOMAIN h => Above(m + 1)}
<1>8. 0 \in T
  <2>1. AtMost(h[1].version, h[1].version)
    BY DEF AtMost, SamePrecedence
  <2>2. 1 \in DOMAIN h
    BY <1>4
  <2>3. Above(1)
    BY <1>5, <1>6, <2>1, <2>2
  <2>4. QED
    BY <2>3
<1>9. \A m \in T : m \in Nat => m + 1 \in T
  <2> SUFFICES ASSUME NEW m \in Nat, m \in T, (m + 1) + 1 \in DOMAIN h PROVE Above((m + 1) + 1)
    OBVIOUS
  <2>1. PICK n \in Nat : n = m + 1
    OBVIOUS
  <2>2. n \in DOMAIN h /\ n + 1 \in DOMAIN h
    BY <1>4, <2>1
  <2>3. Above(n)
    BY <2>1, <2>2
  <2>4. PICK e : e = h[n + 1].version
    OBVIOUS
  <2>5. e \in Versions /\ g[n] \in Versions
    BY <1>5, <2>2, <2>3, <2>4
  <2>6. g[n + 1] = IF compare_semver(e, g[n]) > 0 THEN e ELSE g[n]
    BY <1>7, <2>2, <2>4 DEF Later
  <2>7. CASE compare_semver(e, g[n]) > 0
    <3>1. Precedes(g[n], e) /\ g[n + 1] = e
      BY <2>5, <2>6, <2>7, ComparisonAgrees
    <3>2. ASSUME NEW i \in 1 .. n PROVE AtMost(h[i].version, e)
      <4>1. i \in DOMAIN h
        BY <1>4, <2>2
      <4>2. h[i].version \in Versions /\ AtMost(h[i].version, g[n])
        BY <1>5, <2>3, <4>1
      <4>3. QED
        BY <2>5, <3>1, <4>2, VersionOrder DEF AtMost
    <3>3. AtMost(h[n + 1].version, e)
      BY <2>4 DEF AtMost, SamePrecedence
    <3>4. \A i \in 1 .. n + 1 : i \in 1 .. n \/ i = n + 1
      OBVIOUS
    <3>5. QED
      BY <2>1, <2>5, <3>1, <3>2, <3>3, <3>4
  <2>8. CASE ~(compare_semver(e, g[n]) > 0)
    <3>1. AtMost(e, g[n]) /\ g[n + 1] = g[n]
      BY <2>5, <2>6, <2>8, ComparisonAgrees
    <3>2. \A i \in 1 .. n + 1 : i \in 1 .. n \/ i = n + 1
      OBVIOUS
    <3>3. QED
      BY <2>1, <2>3, <2>4, <2>5, <3>1, <3>2
  <2>9. QED
    BY <2>7, <2>8
<1>10. Nat \subseteq T
  <2> HIDE DEF T
  <2>1. QED
    BY <1>8, <1>9, Induction
<1>11. Len(h) - 1 \in Nat /\ (Len(h) - 1) + 1 = Len(h) /\ Len(h) \in DOMAIN h
  BY <1>4
<1>12. Above(Len(h))
  <2>1. Len(h) - 1 \in T
    BY <1>10, <1>11
  <2>2. QED
    BY <1>11, <2>1
<1>13. QED
  BY <1>3, <1>4, <1>12

\* A release whose policy is valid for it is above all that the policy lists.
Newer(policy, dist) == \A i \in DOMAIN policy.history : Precedes(policy.history[i].version, dist.version)

LEMMA ValidatedIsNewer ==
    ASSUME NEW policy, NEW dist, policy.history \in ReleaseHistories, dist.version \in Versions,
           validate_release_policy(policy, dist)
    PROVE  Newer(policy, dist)
<1>1. PICK h \in ReleaseHistories : h = policy.history
  OBVIOUS
<1>2. PICK v \in Versions : v = dist.version
  OBVIOUS
<1>3. SUFFICES ASSUME NEW i \in DOMAIN h PROVE Precedes(h[i].version, v)
  BY <1>1, <1>2 DEF Newer
<1>4. h # << >> /\ h[i].version \in Versions
  BY HistoryFacts
<1>5. PICK best \in Versions : best = LatestVersion(h) /\ AtMost(h[i].version, best)
  BY <1>4, LatestIsHighest
<1>6. compare_semver(v, best) > 0
  BY <1>1, <1>2, <1>4, <1>5 DEF validate_release_policy
<1>7. Precedes(best, v)
  BY <1>6, ComparisonAgrees
<1>8. QED
  BY <1>4, <1>5, <1>7, VersionOrder

\* The checkout can always be read.  Staging holds the package to the policy
\* in the checkout then, and nothing touches the package after that.
VersionInv ==
  /\ commit \in DOMAIN World /\ DOMAIN w = Inputs /\ Versioned(w.tree)
  /\ pc \in {"archive", "publish"} => Newer(q.pkg.policy, q.pkg.dist)
  /\ Published => Newer(out.package.policy, out.package.dist)

LEMMA VersionStart == ReleaseInit => VersionInv
BY VersionAssumption DEF ReleaseInit, VersionInv, Published

\* A step that neither stages nor publishes.
LEMMA VersionBeside ==
    ASSUME VersionInv, commit' = commit, w' = w, out' \in {out, Nothing, Foreign},
           pc' \notin {"archive", "publish"}
    PROVE  VersionInv'
BY DEF VersionInv, Published

LEMMA VersionStage == ASSUME ReleaseInv, VersionInv, Stage PROVE VersionInv'
<1>1. UNCHANGED <<w, commit, out>> /\ pc = "stage"
  BY DEF Stage, Advance
<1>2. CASE pc' = "idle"
  BY <1>1, <1>2, VersionBeside
<1>3. CASE pc' = "archive"
  <2>1. q' = q /\ _validate_release_provenance(q.pkg, w.tree.policy, q.definition.version, commit)
    BY <1>3 DEF Stage, Advance
  <2>2. validate_release_policy(w.tree.policy, q.pkg.dist) /\ q.pkg.policy = w.tree.policy
    BY <2>1 DEF _validate_release_provenance
  <2>3. w.tree.policy.history \in ReleaseHistories
    BY DEF VersionInv, Versioned
  <2>4. q.pkg.dist = Blob[commit].dist
    BY <1>1 DEF ReleaseInv, RunHolds, Assembled
  <2>5. q.pkg.dist.version \in Versions
    BY <2>4, VersionAssumption DEF VersionInv, Versioned
  <2>6. Newer(q.pkg.policy, q.pkg.dist)
    BY <2>2, <2>3, <2>5, ValidatedIsNewer
  <2>7. QED
    BY <1>1, <1>3, <2>1, <2>6 DEF VersionInv, Published
<1>4. QED
  BY <1>2, <1>3 DEF Stage, Advance

LEMMA VersionPublish == ASSUME ReleaseInv, VersionInv, Archive \/ _rename_noreplace PROVE VersionInv'
<1>1. UNCHANGED <<w, commit>>
  BY DEF Archive, _rename_noreplace
<1>2. CASE Archive
  <2>1. pc = "archive" /\ pc' = "publish" /\ out' = out /\ q' = [q EXCEPT !.files = PublicFiles]
    BY <1>2 DEF Archive
  <2>2. "pkg" \in DOMAIN q
    BY DEF ReleaseInv, RunHolds, Held
  <2>3. q'.pkg = q.pkg
    BY <2>1, <2>2
  <2>4. QED
    BY <1>1, <2>1, <2>3 DEF VersionInv, Published
<1>3. CASE _rename_noreplace
  <2>1. pc = "publish" /\ pc' = "idle" /\ (out' = out \/ out' = Publication)
    BY <1>3 DEF _rename_noreplace
  <2>2. CASE out' = out
    BY <1>1, <2>1, <2>2, VersionBeside
  <2>3. CASE out' = Publication
    <3>1. out'.package = q.pkg
      BY <2>3 DEF Publication
    <3>2. QED
      BY <1>1, <2>1, <3>1 DEF VersionInv, Published
  <2>4. QED
    BY <2>1, <2>2, <2>3
<1>4. QED
  BY <1>2, <1>3

LEMMA VersionKept == ASSUME ReleaseInv, VersionInv, [Next]_publishingVars PROVE VersionInv'
<1>1. CASE \E field \in DOMAIN Values : \E value \in Values[field] : Swap(field, value)
  <2>0. PICK field \in DOMAIN Values : \E value \in Values[field] : Swap(field, value)
    BY <1>1
  <2>1. PICK value \in Values[field] : Swap(field, value)
    BY <2>0
  <2>2. UNCHANGED <<commit, pc, q, out>> /\ w' = [w EXCEPT ![field] = value]
    BY <2>1 DEF Swap
  <2>3. DOMAIN w' = Inputs /\ w'.tree = IF field = "tree" THEN value ELSE w.tree
    BY <2>2 DEF VersionInv, Inputs
  <2>4. field = "tree" => Versioned(value)
    BY VersionAssumption
  <2>5. Versioned(w'.tree)
    BY <2>3, <2>4 DEF VersionInv
  <2>6. QED
    BY <2>2, <2>3, <2>5 DEF VersionInv, Published
<1>2. CASE ReleaseNext
  <2>1. CASE Stage
    BY <2>1, VersionStage
  <2>2. CASE Archive \/ _rename_noreplace
    BY <2>2, VersionPublish
  <2>3. CASE CreateOutput
    BY <2>3 DEF CreateOutput, VersionInv, Published
  <2>4. CASE ~Stage /\ ~Archive /\ ~_rename_noreplace /\ ~CreateOutput
    <3>1. UNCHANGED <<w, commit, out>> /\ pc' \notin {"archive", "publish"}
      BY <1>2, <2>4 DEF ReleaseNext, Start, Checkout, _release_preflight, AuditFirst, AuditSecond,
        _accepted_hardware, _accepted_known_title_compatibility, Plan, Reviewed, ReadEvidence, Relocate,
        PackageDefinition, MatchTested, validate_release_source_checkout, ZipTree, Stop, Advance
    <3>2. QED
      BY <3>1, VersionBeside
  <2>5. QED
    BY <2>1, <2>2, <2>3, <2>4
<1>3. CASE UNCHANGED releaseVars
  BY <1>3 DEF releaseVars, VersionInv, Published
<1>4. QED
  BY <1>1, <1>2, <1>3 DEF Next, publishingVars

\* AuthorizedIsNewer: a published release is of a version that the standard's
\* order puts above every version its policy lists as published.
THEOREM ReleasedIsNewer == Spec => []AuthorizedIsNewer
<1>1. Init => ReleaseInv /\ VersionInv
  BY ReleaseStart, VersionStart DEF Init
<1>2. ReleaseInv /\ VersionInv /\ [Next]_publishingVars => (ReleaseInv /\ VersionInv)'
  BY ReleaseKept, VersionKept
<1>3. VersionInv => AuthorizedIsNewer
  BY DEF VersionInv, AuthorizedIsNewer, Newer
<1>4. QED
  BY <1>1, <1>2, <1>3, PTL DEF Spec

-----------------------------------------------------------------------------
(* Sequences. *)
LEMMA OwnElements == ASSUME NEW S, NEW s \in Seq(S) PROVE s \in Seq(ToSet(s))
BY DEF ToSet

LEMMA AppendFacts ==
    ASSUME NEW s, s \in Seq(ToSet(s)), NEW x
    PROVE  /\ Append(s, x) \in Seq(ToSet(Append(s, x))) /\ Len(Append(s, x)) = Len(s) + 1
           /\ \A i \in 1 .. Len(s) : Append(s, x)[i] = s[i]
           /\ Append(s, x)[Len(s) + 1] = x
           /\ IsPrefix(s, Append(s, x))
<1>1. s \in Seq(ToSet(s) \cup {x})
  BY DEF ToSet
<1>2. Append(s, x) \in Seq(ToSet(s) \cup {x}) /\ Len(Append(s, x)) = Len(s) + 1
  BY <1>1
<1>3. \A i \in 1 .. Len(s) : Append(s, x)[i] = s[i]
  BY <1>1
<1>4. Append(s, x)[Len(s) + 1] = x
  BY <1>1
<1>5. SubSeq(s, 1, Len(s)) = SubSeq(Append(s, x), 1, Len(s))
  BY <1>1, <1>2, <1>3
<1>6. Append(s, x) \in Seq(ToSet(Append(s, x)))
  BY <1>2, OwnElements
<1>7. Len(s) <= Len(s) + 1
  BY <1>1
<1>8. IsPrefix(s, Append(s, x))
  BY <1>2, <1>5, <1>7 DEF IsPrefix
<1>9. QED
  BY <1>2, <1>3, <1>4, <1>6, <1>8

LEMMA OwnPrefix == ASSUME NEW s, s \in Seq(ToSet(s)) PROVE IsPrefix(s, s)
BY DEF IsPrefix

-----------------------------------------------------------------------------
(* The wiki.  A run that changes the clone works on the pages of one commit, *)
(* its base: its plan remembers the base's texts of every page it touches    *)
(* and all other pages are the base's, in the working tree, the index and    *)
(* the latest commit alike.  While nobody edits the source, what has been    *)
(* copied and what was kept are the texts the last audit passed.             *)
IsPages(f) == f = [n \in Names |-> f[n]]
IsHistory(h) ==
  /\ h \in Seq(ToSet(h)) /\ Len(h) > 0
  /\ \A i \in 1 .. Len(h) :
       IsPages(h[i].pages) /\ (h[i].audited # Missing => h[i].pages = h[i].audited)

WikiTypes ==
  /\ IsHistory(wiki) /\ IsHistory(clone.log)
  /\ DOMAIN clone = {"log", "upstream", "index", "work"} /\ IsPages(clone.index) /\ IsPages(clone.work)
  /\ DOMAIN sync = {"pc", "plan", "done", "seen", "killed"}

Reading == {"plan", "refresh", "compare"}
Changing == {"copy", "staged", "commit", "push", "unstage", "restore"}

PlanIs(p, from) ==
  /\ p \in Seq(ToSet(p))
  /\ \A i \in DOMAIN p : p[i].name \in Names /\ p[i].was = from[p[i].name]
Based(b) ==
  LET from == clone.log[b].pages
      latest == HeadPages(clone)
  IN /\ PlanIs(sync.plan, from)
     /\ \A n \in Names \ PlannedNames :
          clone.work[n] = from[n] /\ clone.index[n] = from[n] /\ latest[n] = from[n]
     /\ sync.pc \in {"copy", "staged", "commit"} => latest = from
     /\ sync.pc \in {"staged", "commit", "push"} => clone.index = clone.work
     /\ sync.pc \in {"push", "restore"} => clone.index = latest
     /\ sync.pc = "restore" =>
          \A i \in 1 .. sync.done : clone.work[sync.plan[i].name] = from[sync.plan[i].name]

Seen == sync.seen # Missing => sync.seen = Pages(source) /\ _check_manifest(source)
Copying ==
  sync.pc \in {"copy", "staged", "commit"} /\ sync.seen # Missing =>
    /\ \A n \in Names \ PlannedNames : HeadPages(clone)[n] = source[n]
    /\ \A i \in DOMAIN sync.plan : sync.plan[i].op = "delete" => source[sync.plan[i].name] = Missing
    /\ sync.pc = "copy" =>
         \A i \in 1 .. sync.done : clone.work[sync.plan[i].name] = source[sync.plan[i].name]
    /\ sync.pc # "copy" => \A n \in PlannedNames : clone.work[n] = source[n]

WikiInv ==
  /\ WikiTypes
  /\ sync.pc \in {"idle"} \cup Reading \cup Changing
  /\ sync.pc \in {"idle"} \cup Reading => sync.done = 0
  /\ sync.pc \in Reading => CleanClone(clone)
  /\ sync.pc \in Changing =>
       sync.done \in 0 .. Len(sync.plan) /\ \E b \in 1 .. Len(clone.log) : Based(b)
  /\ Seen /\ Copying
  /\ CloneWhole

LEMMA LogFacts ==
    ASSUME WikiInv
    PROVE  /\ Len(clone.log) \in 1 .. Len(clone.log) /\ HeadPages(clone) = clone.log[Len(clone.log)].pages
           /\ IsPages(HeadPages(clone))
<1>1. IsHistory(clone.log)
  BY DEF WikiInv, WikiTypes
<1>2. Len(clone.log) \in 1 .. Len(clone.log)
  BY <1>1 DEF IsHistory
<1>3. QED
  BY <1>1, <1>2 DEF IsHistory, HeadPages, Last

LEMMA WikiStart == WikiInit => WikiInv
<1> SUFFICES ASSUME WikiInit PROVE WikiInv
  OBVIOUS
<1> DEFINE first == [pages |-> FirstWiki, audited |-> Missing]
<1>1. IsPages(FirstWiki)
  BY WikiPages DEF IsPages, Names
<1>2. IsHistory(<<first>>)
  <2>1. <<first>> \in Seq(ToSet(<<first>>)) /\ Len(<<first>>) = 1 /\ <<first>>[1] = first
    BY DEF ToSet
  <2>2. QED
    BY <1>1, <2>1 DEF IsHistory
<1>3. /\ clone.log = <<first>> /\ wiki = <<first>> /\ clone.index = FirstWiki /\ clone.work = FirstWiki
      /\ DOMAIN clone = {"log", "upstream", "index", "work"}
  BY DEF WikiInit
<1>4. /\ sync.pc = "idle" /\ sync.done = 0 /\ sync.seen = Missing
      /\ DOMAIN sync = {"pc", "plan", "done", "seen", "killed"}
  BY DEF WikiInit, Idle
<1>5. WikiTypes
  BY <1>1, <1>2, <1>3, <1>4 DEF WikiTypes
<1>6. CloneWhole
  BY <1>3 DEF CloneWhole, HeadPages, Last
<1>7. QED
  BY <1>4, <1>5, <1>6 DEF WikiInv, Reading, Changing, Seen, Copying

(* A run that ends with a clone that is clean, or holds one commit's pages   *)
(* and the latest index.                                                     *)
LEMMA RunOver ==
    ASSUME WikiInv, IsHistory(wiki'), IsHistory(clone'.log), UNCHANGED source,
           clone'.index = HeadPages(clone'), IsPages(clone'.index), IsPages(clone'.work),
           DOMAIN clone' = DOMAIN clone,
           \E b \in 1 .. Len(clone'.log) : clone'.work = clone'.log[b].pages,
           \E k : sync' = [Idle EXCEPT !.killed = k]
    PROVE  WikiInv'
<1>1. /\ sync'.pc = "idle" /\ sync'.done = 0 /\ sync'.seen = Missing
      /\ DOMAIN sync' = {"pc", "plan", "done", "seen", "killed"}
  BY DEF Idle
<1>2. WikiTypes'
  BY <1>1 DEF WikiInv, WikiTypes, IsHistory, IsPages
<1>3. DOMAIN clone'.log = 1 .. Len(clone'.log)
  BY DEF IsHistory
<1>4. CloneWhole'
  BY <1>3 DEF CloneWhole
<1>5. QED
  BY <1>1, <1>2, <1>4 DEF WikiInv, Reading, Changing, Seen, Copying

LEMMA ReadingOver ==
    ASSUME WikiInv, sync.pc \in Reading, Ends, UNCHANGED <<source, wiki, clone>> PROVE WikiInv'
<1>1. CleanClone(clone) /\ WikiTypes
  BY DEF WikiInv
<1>2. clone.index = HeadPages(clone) /\ clone.work = clone.log[Len(clone.log)].pages
  BY <1>1, LogFacts DEF CleanClone
<1>3. \E b \in 1 .. Len(clone'.log) : clone'.work = clone'.log[b].pages
  BY <1>2, LogFacts
<1>4. \E k : sync' = [Idle EXCEPT !.killed = k]
  BY DEF Ends
<1>5. QED
  BY <1>1, <1>2, <1>3, <1>4, RunOver DEF WikiTypes

(* A step that only moves the run on. *)
Same == <<source, wiki, clone, sync.plan, sync.done, DOMAIN sync>>

LEMMA MovedOn ==
    ASSUME WikiInv, UNCHANGED Same, sync'.seen \in {sync.seen, Pages(source)},
           sync'.seen # sync.seen => _check_manifest(source),
           sync'.pc \in Reading, sync.pc \in {"idle"} \cup Reading, CleanClone(clone)
    PROVE  WikiInv'
<1>1. WikiTypes'
  BY DEF Same, WikiInv, WikiTypes
<1>2. Seen'
  BY DEF Same, WikiInv, Seen, _check_manifest, Pages
<1>3. QED
  BY <1>1, <1>2 DEF Same, WikiInv, Reading, Changing, Copying, CloneWhole, Running

LEMMA ReadStep ==
    ASSUME WikiInv, plan_audit \/ refresh_audit PROVE WikiInv'
<1>1. CASE plan_audit
  <2>1. CleanClone(clone) /\ sync.pc = "idle"
    BY <1>1 DEF plan_audit, _inspect_clone, Running
  <2>2. UNCHANGED Same /\ sync'.seen = sync.seen /\ sync'.pc = "plan"
    BY <1>1 DEF plan_audit, Same, WikiInv, WikiTypes
  <2>3. QED
    BY <2>1, <2>2, MovedOn DEF Reading
<1>2. CASE refresh_audit
  <2>1. CASE Ends
    BY <1>2, <2>1, ReadingOver DEF refresh_audit, Running, Reading
  <2>2. CASE sync' = [sync EXCEPT !.pc = "compare", !.seen = Pages(source)] /\ check_publication(source)
    <3>1. CleanClone(clone) /\ sync.pc = "refresh"
      BY <1>2 DEF refresh_audit, Running, WikiInv, Reading
    <3>2. UNCHANGED Same /\ sync'.seen = Pages(source) /\ sync'.pc = "compare"
      BY <1>2, <2>2 DEF refresh_audit, Same, WikiInv, WikiTypes
    <3>3. _check_manifest(source)
      BY <2>2 DEF check_publication
    <3>4. QED
      BY <3>1, <3>2, <3>3, MovedOn DEF Reading
  <2>3. QED
    BY <1>2, <2>1, <2>2 DEF refresh_audit
<1>3. QED
  BY <1>1, <1>2

LEMMA PlanStep ==
    ASSUME WikiInv, plan_read PROVE WikiInv'
<1>1. CASE Ends
  BY <1>1, ReadingOver DEF plan_read, Running, Reading
<1>2. CASE \E p \in build_plan : sync' = [sync EXCEPT !.pc = "refresh", !.plan = p]
  <2>1. sync.pc = "plan" /\ UNCHANGED <<source, wiki, clone>>
    BY <1>2 DEF plan_read, Running
  <2>2. /\ sync'.pc = "refresh" /\ sync'.done = sync.done /\ sync'.seen = sync.seen
        /\ DOMAIN sync' = DOMAIN sync
    BY <1>2 DEF WikiInv, WikiTypes
  <2>3. QED
    BY <2>1, <2>2 DEF WikiInv, WikiTypes, Reading, Changing, Seen, Copying, CloneWhole, Running,
      _check_manifest, Pages
<1>3. QED
  BY <1>1, <1>2 DEF plan_read

(* The plan is every page that differs, so a page that is not in it is as    *)
(* the source has it.                                                        *)
LEMMA PlanFacts ==
    ASSUME NEW p \in build_plan
    PROVE  /\ p \in Seq(ToSet(p))
           /\ \A i \in DOMAIN p :
                /\ p[i].name \in Names /\ p[i].was = clone.work[p[i].name]
                /\ p[i].op = "delete" => p[i].name \notin WIKI_MANIFEST
           /\ \A n \in Names : (\A i \in DOMAIN p : p[i].name # n) => Operation(n) = "keep"
<1>1. Len(PageNames) \in Nat
  BY WikiPages
<1>2. p \in Seq(Planned) /\ ToSet(p) = Planned
  BY <1>1 DEF build_plan, SeqOf
<1>3. \A i \in DOMAIN p : p[i] \in Planned
  BY <1>2
<1>4. \A e \in Planned : \E n \in Names : e = Entry(n) /\ Operation(n) # "keep"
  BY DEF Planned
<1>5. \A n \in Names : Entry(n).name = n /\ Entry(n).was = clone.work[n] /\ Entry(n).op = Operation(n)
  BY DEF Entry
<1>6. \A n \in Names : Operation(n) = "delete" => n \notin WIKI_MANIFEST
  BY DEF Operation
<1>7. ASSUME NEW n \in Names, \A i \in DOMAIN p : p[i].name # n PROVE Operation(n) = "keep"
  <2>1. CASE Entry(n) \in ToSet(p)
    BY <1>5, <1>7, <2>1 DEF ToSet
  <2>2. CASE Entry(n) \notin ToSet(p)
    BY <1>2, <2>2 DEF Planned
  <2>3. QED
    BY <2>1, <2>2
<1>8. QED
  BY <1>2, <1>3, <1>4, <1>5, <1>6, <1>7

LEMMA CompareStep ==
    ASSUME WikiInv, refresh_read PROVE WikiInv'
<1>1. CASE Ends
  BY <1>1, ReadingOver DEF refresh_read, Running, Reading
<1>2. CASE sync.plan \in build_plan /\ sync' = [sync EXCEPT !.pc = "copy"]
  <2>1. sync.pc = "compare" /\ UNCHANGED <<source, wiki, clone>>
    BY DEF refresh_read, Running
  <2>2. sync'.pc = "copy" /\ UNCHANGED Same /\ sync'.seen = sync.seen
    BY <1>2, <2>1 DEF Same, WikiInv, WikiTypes
  <2>3. sync.done = 0 /\ clone.work = clone.index /\ clone.index = HeadPages(clone)
    BY <2>1 DEF WikiInv, Reading, CleanClone
  <2>4. PICK p : p = sync.plan
    OBVIOUS
  <2>5. /\ p \in Seq(ToSet(p))
        /\ \A i \in DOMAIN p :
             /\ p[i].name \in Names /\ p[i].was = clone.work[p[i].name]
             /\ p[i].op = "delete" => p[i].name \notin WIKI_MANIFEST
        /\ \A n \in Names : (\A i \in DOMAIN p : p[i].name # n) => Operation(n) = "keep"
    BY <1>2, <2>4, PlanFacts
  <2>6. PlannedNames' = {p[i].name : i \in DOMAIN p} /\ sync'.plan = p /\ sync'.done = 0
    BY <2>2, <2>3, <2>4 DEF Same, PlannedNames
  <2>7. /\ 0 \in 0 .. Len(p)
        /\ HeadPages(clone)' = HeadPages(clone)
    BY <2>1, <2>5 DEF HeadPages
  <2>8. PICK b : b = Len(clone.log)
    OBVIOUS
  <2>9. Based(b)'
    BY <2>1, <2>2, <2>3, <2>5, <2>6, <2>7, <2>8, LogFacts DEF Based, PlanIs
  <2>10. \A n \in Names \ PlannedNames' : Operation(n) = "keep"
    BY <2>5, <2>6
  <2>11. ASSUME _check_manifest(source), NEW n \in Names, Operation(n) = "keep"
         PROVE  clone.work[n] = source[n]
    BY <2>11 DEF _check_manifest, Operation
  <2>12. Copying'
    <3> SUFFICES ASSUME sync.seen # Missing PROVE Copying'
      BY <2>2 DEF Copying
    <3>1. _check_manifest(source)
      BY DEF WikiInv, Seen
    <3>2. \A n \in Names \ PlannedNames' : HeadPages(clone)[n] = source[n]
      BY <2>3, <2>10, <2>11, <3>1
    <3>3. \A i \in DOMAIN p : p[i].op = "delete" => source[p[i].name] = Missing
      BY <2>5, <3>1 DEF _check_manifest
    <3>4. QED
      BY <2>1, <2>2, <2>6, <2>7, <3>2, <3>3 DEF Copying
  <2>13. Seen' /\ WikiTypes'
    BY <2>1, <2>2 DEF Same, WikiInv, Seen, WikiTypes, Pages, _check_manifest
  <2>14. QED
    BY <2>1, <2>2, <2>6, <2>7, <2>8, <2>9, <2>12, <2>13, LogFacts
      DEF WikiInv, Reading, Changing, CloneWhole, Running
<1>3. QED
  BY <1>1, <1>2 DEF refresh_read

(* What the steps that change the clone need of the plan. *)
LEMMA InTheRun ==
    ASSUME WikiInv, sync.pc \in Changing
    PROVE  /\ \E b \in 1 .. Len(clone.log) : Based(b)
           /\ sync.done \in 0 .. Len(sync.plan)
           /\ sync.plan \in Seq(ToSet(sync.plan))
           /\ \A i \in DOMAIN sync.plan : sync.plan[i].name \in PlannedNames
           /\ \A i \in DOMAIN sync.plan : sync.plan[i].name \in Names
           /\ DOMAIN sync.plan = 1 .. Len(sync.plan)
<1>1. PICK b \in 1 .. Len(clone.log) : Based(b)
  BY DEF WikiInv
<1>2. QED
  BY <1>1 DEF WikiInv, Based, PlanIs, PlannedNames

LEMMA CopyStep ==
    ASSUME WikiInv, copy_page PROVE WikiInv'
<1>1. sync.pc = "copy" /\ UNCHANGED <<source, wiki>> /\ sync.done < Len(sync.plan)
  BY DEF copy_page, Running
<1>2. PICK b \in 1 .. Len(clone.log) : Based(b)
  BY <1>1, InTheRun DEF Changing
<1>3. /\ sync.done \in 0 .. Len(sync.plan) /\ DOMAIN sync.plan = 1 .. Len(sync.plan)
      /\ \A i \in DOMAIN sync.plan : sync.plan[i].name \in PlannedNames /\ sync.plan[i].name \in Names
  BY <1>1, InTheRun DEF Changing
<1>4. PICK k, e : k = sync.done + 1 /\ e = sync.plan[k]
  OBVIOUS
<1>5. k \in 1 .. Len(sync.plan) /\ e.name \in PlannedNames /\ e.name \in Names
  <2>1. Len(sync.plan) \in Nat
    BY <1>1, InTheRun DEF Changing
  <2>2. k \in 1 .. Len(sync.plan)
    BY <1>1, <1>3, <1>4, <2>1
  <2>3. QED
    BY <1>3, <1>4, <2>2
<1>6. DOMAIN clone.work = Names
  BY DEF WikiInv, WikiTypes, IsPages
<1>7. CASE Fails /\ UNCHANGED clone
  <2>1. sync'.pc = "unstage" /\ UNCHANGED Same /\ sync'.seen = sync.seen
    BY <1>1, <1>7 DEF Fails, Same, WikiInv, WikiTypes
  <2>2. Based(b)'
    BY <1>1, <1>2, <2>1 DEF Based, PlanIs, PlannedNames, Same, HeadPages
  <2>3. QED
    BY <1>1, <1>2, <1>3, <2>1, <2>2 DEF Same, WikiInv, WikiTypes, Seen, Copying, CloneWhole, Running,
      Reading, Changing, Pages, _check_manifest
<1>8. ASSUME sync' = [sync EXCEPT !.done = @ + 1], NEW text, clone' = [clone EXCEPT !.work[e.name] = text],
             (sync.seen # Missing => text = source[e.name])
      PROVE  WikiInv'
  <2>1. /\ sync'.pc = "copy" /\ sync'.done = k /\ sync'.plan = sync.plan /\ sync'.seen = sync.seen
        /\ DOMAIN sync' = DOMAIN sync
    BY <1>1, <1>4, <1>8 DEF WikiInv, WikiTypes
  <2>2. /\ clone'.log = clone.log /\ clone'.index = clone.index
        /\ clone'.work = [clone.work EXCEPT ![e.name] = text] /\ DOMAIN clone' = DOMAIN clone
    BY <1>8 DEF WikiInv, WikiTypes
  <2>3. /\ IsPages(clone'.work) /\ clone'.work[e.name] = text
        /\ \A n \in Names : n # e.name => clone'.work[n] = clone.work[n]
    BY <1>5, <1>6, <2>2 DEF WikiInv, WikiTypes, IsPages
  <2>4. PlannedNames' = PlannedNames /\ HeadPages(clone)' = HeadPages(clone)
    BY <2>1, <2>2 DEF PlannedNames, HeadPages
  <2>5. Based(b)'
    BY <1>1, <1>2, <1>5, <2>1, <2>2, <2>3, <2>4 DEF Based, PlanIs
  <2>6. WikiTypes'
    BY <1>1, <2>1, <2>2, <2>3 DEF WikiInv, WikiTypes, IsPages
  <2>7. Copying'
    <3> SUFFICES ASSUME sync.seen # Missing PROVE Copying'
      BY <2>1 DEF Copying
    <3>1. /\ \A n \in Names \ PlannedNames : HeadPages(clone)[n] = source[n]
          /\ \A i \in DOMAIN sync.plan : sync.plan[i].op = "delete" => source[sync.plan[i].name] = Missing
          /\ \A i \in 1 .. sync.done : clone.work[sync.plan[i].name] = source[sync.plan[i].name]
      BY <1>1 DEF WikiInv, Copying
    <3>2. ASSUME NEW i \in 1 .. k PROVE clone'.work[sync.plan[i].name] = source[sync.plan[i].name]
      <4>1. CASE sync.plan[i].name = e.name
        BY <1>8, <2>3, <4>1
      <4>2. CASE sync.plan[i].name # e.name
        <5>1. i \in 1 .. sync.done /\ i \in DOMAIN sync.plan
          BY <1>3, <1>4, <1>5, <4>2
        <5>2. QED
          BY <1>3, <2>3, <3>1, <4>2, <5>1
      <4>3. QED
        BY <4>1, <4>2
    <3>3. QED
      BY <1>1, <2>1, <2>4, <3>1, <3>2 DEF Copying
  <2>8. QED
    BY <1>1, <1>2, <1>3, <1>5, <2>1, <2>2, <2>5, <2>6, <2>7
      DEF WikiInv, Seen, CloneWhole, Running, Reading, Changing, Pages, _check_manifest
<1>9. CASE e.op # "delete" /\ clone' = [clone EXCEPT !.work[e.name] = source[e.name]]
             /\ sync' = [sync EXCEPT !.done = @ + 1]
  <2>1. PICK text : text = source[e.name]
    OBVIOUS
  <2>2. QED
    BY <1>8, <1>9, <2>1
<1>10. CASE e.op = "delete" /\ clone' = [clone EXCEPT !.work[e.name] = Missing]
             /\ sync' = [sync EXCEPT !.done = @ + 1]
  <2>1. sync.seen # Missing => Missing = source[e.name]
    BY <1>1, <1>3, <1>4, <1>5, <1>10 DEF WikiInv, Copying
  <2>2. PICK text : text = Missing
    OBVIOUS
  <2>3. QED
    BY <1>8, <1>10, <2>1, <2>2
<1>11. QED
  BY <1>4, <1>7, <1>9, <1>10 DEF copy_page

LEMMA StageStep ==
    ASSUME WikiInv, stage_pages PROVE WikiInv'
<1>1. sync.pc = "copy" /\ UNCHANGED <<source, wiki>> /\ sync.done = Len(sync.plan)
  BY DEF stage_pages, Running
<1>2. PICK b \in 1 .. Len(clone.log) : Based(b)
  BY <1>1, InTheRun DEF Changing
<1>3. /\ sync.done \in 0 .. Len(sync.plan) /\ DOMAIN sync.plan = 1 .. Len(sync.plan)
      /\ \A i \in DOMAIN sync.plan : sync.plan[i].name \in PlannedNames /\ sync.plan[i].name \in Names
  BY <1>1, InTheRun DEF Changing
<1>4. /\ sync'.pc = "staged" /\ sync'.done = sync.done /\ sync'.plan = sync.plan /\ sync'.seen = sync.seen
      /\ DOMAIN sync' = DOMAIN sync
  BY DEF stage_pages, WikiInv, WikiTypes
<1>5. /\ clone'.log = clone.log /\ clone'.work = clone.work /\ DOMAIN clone' = DOMAIN clone
      /\ clone'.index = [n \in Names |-> IF n \in PlannedNames THEN clone.work[n] ELSE clone.index[n]]
  BY DEF stage_pages, WikiInv, WikiTypes
<1>6. clone'.index = clone.work
  <2>1. \A n \in Names \ PlannedNames : clone.index[n] = clone.work[n]
    BY <1>2 DEF Based
  <2>2. clone.work = [n \in Names |-> clone.work[n]]
    BY DEF WikiInv, WikiTypes, IsPages
  <2>3. QED
    BY <1>5, <2>1, <2>2
<1>7. PlannedNames' = PlannedNames /\ HeadPages(clone)' = HeadPages(clone)
  BY <1>4, <1>5 DEF PlannedNames, HeadPages
<1>8. Based(b)'
  BY <1>1, <1>2, <1>4, <1>5, <1>6, <1>7 DEF Based, PlanIs
<1>9. WikiTypes'
  BY <1>1, <1>4, <1>5, <1>6 DEF WikiInv, WikiTypes, IsPages
<1>10. Copying'
  <2> SUFFICES ASSUME sync.seen # Missing PROVE Copying'
    BY <1>4 DEF Copying
  <2>1. /\ \A n \in Names \ PlannedNames : HeadPages(clone)[n] = source[n]
        /\ \A i \in DOMAIN sync.plan : sync.plan[i].op = "delete" => source[sync.plan[i].name] = Missing
        /\ \A i \in DOMAIN sync.plan : clone.work[sync.plan[i].name] = source[sync.plan[i].name]
    BY <1>1, <1>3 DEF WikiInv, Copying
  <2>2. \A n \in PlannedNames : clone.work[n] = source[n]
    BY <2>1 DEF PlannedNames
  <2>3. QED
    BY <1>1, <1>4, <1>5, <1>7, <2>1, <2>2 DEF Copying
<1>11. QED
  BY <1>1, <1>2, <1>3, <1>4, <1>5, <1>8, <1>9, <1>10
    DEF WikiInv, Seen, CloneWhole, Running, Reading, Changing, Pages, _check_manifest

(* The run moves on with the clone as it is: to the commit when what is      *)
(* staged is the plan, to the rollback when a check or a command has failed. *)
LEMMA ChangingOn ==
    ASSUME WikiInv, UNCHANGED Same, sync'.seen = sync.seen,
           \/ sync.pc \in {"copy", "staged", "commit"} /\ sync'.pc = "unstage"
           \/ sync.pc = "staged" /\ sync'.pc = "commit"
    PROVE  WikiInv'
<1>1. PICK b \in 1 .. Len(clone.log) : Based(b)
  BY InTheRun DEF Changing
<1>2. Based(b)'
  BY <1>1 DEF Based, PlanIs, PlannedNames, Same, HeadPages
<1>3. sync.done \in 0 .. Len(sync.plan)
  BY InTheRun DEF Changing
<1>4. WikiTypes' /\ Seen'
  BY DEF WikiInv, WikiTypes, Seen, Same, Pages, _check_manifest
<1>5. Copying'
  BY DEF WikiInv, Copying, Same, PlannedNames, HeadPages
<1>6. QED
  BY <1>1, <1>2, <1>3, <1>4, <1>5 DEF Same, WikiInv, CloneWhole, Running, Reading, Changing

LEMMA CheckStep == ASSUME WikiInv, check_staged PROVE WikiInv'
<1>1. UNCHANGED Same /\ sync'.seen = sync.seen /\ sync'.pc \in {"commit", "unstage"} /\ sync.pc = "staged"
  BY DEF check_staged, Fails, Running, Same, WikiInv, WikiTypes
<1>2. QED
  BY <1>1, ChangingOn

(* The commit holds the working tree, and when an audit stands behind it,    *)
(* the audited pages.                                                        *)
LEMMA CommitFacts ==
    ASSUME WikiInv, sync.pc = "commit"
    PROVE  /\ IsHistory(Committed.log) /\ Len(Committed.log) = Len(clone.log) + 1
           /\ \A i \in 1 .. Len(clone.log) : Committed.log[i] = clone.log[i]
           /\ HeadPages(Committed) = clone.work
           /\ Committed.index = clone.index /\ Committed.work = clone.work
           /\ DOMAIN Committed = DOMAIN clone /\ clone.index = clone.work
<1> DEFINE pages == [n \in Names |-> IF n \in PlannedNames THEN clone.work[n] ELSE HeadPages(clone)[n]]
           new == [pages |-> pages, audited |-> sync.seen]
<1>1. PICK b \in 1 .. Len(clone.log) : Based(b)
  BY InTheRun DEF Changing
<1>2. pages = clone.work
  <2>1. \A n \in Names \ PlannedNames : HeadPages(clone)[n] = clone.work[n]
    BY <1>1 DEF Based
  <2>2. clone.work = [n \in Names |-> clone.work[n]]
    BY DEF WikiInv, WikiTypes, IsPages
  <2>3. QED
    BY <2>1, <2>2
<1>3. sync.seen # Missing => pages = sync.seen
  <2> SUFFICES ASSUME sync.seen # Missing PROVE pages = sync.seen
    OBVIOUS
  <2>1. sync.seen = [n \in Names |-> source[n]]
    BY DEF WikiInv, Seen, Pages
  <2>2. \A n \in Names : pages[n] = source[n]
    BY DEF WikiInv, Copying
  <2>3. QED
    BY <2>1, <2>2
<1>4. IsPages(pages)
  BY DEF IsPages
<1> HIDE DEF pages
<1>5. /\ Committed.log = Append(clone.log, new) /\ Committed.index = clone.index
      /\ Committed.work = clone.work /\ DOMAIN Committed = DOMAIN clone
  BY DEF Committed, WikiInv, WikiTypes, pages
<1>6. IsHistory(clone.log) /\ Len(clone.log) \in Nat
  BY DEF WikiInv, WikiTypes, IsHistory
<1> DEFINE log == Append(clone.log, new)
<1>7. /\ log \in Seq(ToSet(log)) /\ Len(log) = Len(clone.log) + 1
      /\ \A i \in 1 .. Len(clone.log) : log[i] = clone.log[i]
      /\ log[Len(clone.log) + 1] = new
  BY <1>6, AppendFacts DEF IsHistory
<1>8. IsPages(new.pages) /\ (new.audited # Missing => new.pages = new.audited) /\ new.pages = clone.work
  BY <1>2, <1>3, <1>4
<1> HIDE DEF log, new
<1>9. IsHistory(log)
  <2>1. \A i \in 1 .. Len(log) : i \in 1 .. Len(clone.log) \/ i = Len(clone.log) + 1
    BY <1>6, <1>7
  <2>2. Len(log) > 0
    BY <1>6, <1>7
  <2>3. QED
    BY <1>6, <1>7, <1>8, <2>1, <2>2 DEF IsHistory
<1>10. HeadPages(Committed) = clone.work
  BY <1>5, <1>7, <1>8 DEF HeadPages, Last, log
<1>11. clone.index = clone.work
  BY <1>1 DEF Based
<1>12. QED
  BY <1>5, <1>7, <1>9, <1>10, <1>11 DEF log

LEMMA CommitMade ==
    ASSUME WikiInv, sync.pc = "commit", clone' = Committed, UNCHANGED <<source, wiki, sync.plan, sync.done>>,
           sync'.pc \in {"push", "unstage"}, sync'.seen = sync.seen, DOMAIN sync' = DOMAIN sync
    PROVE  WikiInv'
<1>1. PICK b \in 1 .. Len(clone.log) : Based(b)
  BY InTheRun DEF Changing
<1>2. /\ IsHistory(clone'.log) /\ Len(clone'.log) = Len(clone.log) + 1
      /\ \A i \in 1 .. Len(clone.log) : clone'.log[i] = clone.log[i]
      /\ HeadPages(clone)' = clone.work
      /\ clone'.index = clone.index /\ clone'.work = clone.work
      /\ DOMAIN clone' = DOMAIN clone /\ clone.index = clone.work
  BY CommitFacts DEF HeadPages
<1>3. PlannedNames' = PlannedNames
  BY DEF PlannedNames
<1>4. Based(b)'
  BY <1>1, <1>2, <1>3 DEF Based, PlanIs
<1>5. b \in 1 .. Len(clone'.log)
  BY <1>1, <1>2 DEF WikiInv, WikiTypes, IsHistory
<1>6. WikiTypes'
  BY <1>2 DEF WikiInv, WikiTypes, IsHistory, IsPages
<1>7. sync.done \in 0 .. Len(sync.plan)
  BY InTheRun DEF Changing
<1>8. QED
  BY <1>4, <1>5, <1>6, <1>7
    DEF WikiInv, Seen, Copying, CloneWhole, Running, Reading, Changing, Pages, _check_manifest

LEMMA CommitStep == ASSUME WikiInv, commit_pages \/ sync_fault PROVE WikiInv'
<1>1. CASE commit_pages
  <2>1. /\ sync.pc = "commit" /\ clone' = Committed /\ UNCHANGED <<source, wiki, sync.plan, sync.done>>
        /\ sync'.pc = "push" /\ sync'.seen = sync.seen /\ DOMAIN sync' = DOMAIN sync
    BY <1>1 DEF commit_pages, Running, WikiInv, WikiTypes
  <2>2. QED
    BY <2>1, CommitMade
<1>2. CASE sync_fault
  <2>1. /\ sync.pc \in {"copy", "staged", "commit"} /\ UNCHANGED <<source, wiki, sync.plan, sync.done>>
        /\ sync'.pc = "unstage" /\ sync'.seen = sync.seen /\ DOMAIN sync' = DOMAIN sync
    BY <1>2 DEF sync_fault, Fails, WikiInv, WikiTypes
  <2>2. CASE UNCHANGED clone
    BY <2>1, <2>2, ChangingOn DEF Same
  <2>3. CASE sync.pc = "commit" /\ clone' = Committed
    BY <2>1, <2>3, CommitMade
  <2>4. QED
    BY <1>2, <2>2, <2>3 DEF sync_fault, Running
<1>3. QED
  BY <1>1, <1>2

(* A push replaces the wiki's history by a longer one that begins with it.   *)
LEMMA PushStep == ASSUME WikiInv, push \/ push_fault PROVE WikiInv'
<1>1. sync.pc = "push" /\ UNCHANGED source /\ Ends
  BY DEF push, push_fault, Running
<1>2. PICK b \in 1 .. Len(clone.log) : Based(b)
  BY <1>1, InTheRun DEF Changing
<1>3. /\ clone.index = HeadPages(clone) /\ clone.index = clone.work
      /\ IsHistory(wiki) /\ IsHistory(clone.log)
  BY <1>1, <1>2 DEF Based, WikiInv, WikiTypes
<1>4. /\ wiki' \in {wiki, clone.log} /\ clone'.log = clone.log /\ clone'.index = clone.index
      /\ clone'.work = clone.work /\ DOMAIN clone' = DOMAIN clone
  BY DEF push, push_fault, Pushed, WikiInv, WikiTypes
<1>5. /\ IsHistory(wiki') /\ IsHistory(clone'.log)
      /\ IsPages(clone'.index) /\ IsPages(clone'.work)
  BY <1>3, <1>4 DEF WikiInv, WikiTypes
<1>6. HeadPages(clone)' = HeadPages(clone)
  BY <1>4 DEF HeadPages
<1>7. \E i \in 1 .. Len(clone'.log) : clone'.work = clone'.log[i].pages
  BY <1>3, <1>4, LogFacts
<1>8. \E k : sync' = [Idle EXCEPT !.killed = k]
  BY <1>1 DEF Ends
<1>9. QED
  BY <1>1, <1>3, <1>4, <1>5, <1>6, <1>7, <1>8, RunOver

(* After the index the texts are put back one by one, and then every page is *)
(* the base's.                                                               *)
LEMMA UnstageStep == ASSUME WikiInv, unstage PROVE WikiInv'
<1>1. sync.pc = "unstage" /\ UNCHANGED <<source, wiki>>
  BY DEF unstage, Running
<1>2. PICK b \in 1 .. Len(clone.log) : Based(b)
  BY <1>1, InTheRun DEF Changing
<1>3. /\ sync'.pc = "restore" /\ sync'.done = 0 /\ sync'.plan = sync.plan /\ sync'.seen = sync.seen
      /\ DOMAIN sync' = DOMAIN sync
  BY DEF unstage, WikiInv, WikiTypes
<1>4. /\ clone'.log = clone.log /\ clone'.work = clone.work /\ DOMAIN clone' = DOMAIN clone
      /\ clone'.index = [n \in Names |-> IF n \in PlannedNames THEN HeadPages(clone)[n] ELSE clone.index[n]]
  BY DEF unstage, WikiInv, WikiTypes
<1>5. clone'.index = HeadPages(clone)
  <2>1. \A n \in Names \ PlannedNames : clone.index[n] = HeadPages(clone)[n]
    BY <1>2 DEF Based
  <2>2. HeadPages(clone) = [n \in Names |-> HeadPages(clone)[n]]
    BY LogFacts DEF IsPages
  <2>3. QED
    BY <1>4, <2>1, <2>2
<1>6. PlannedNames' = PlannedNames /\ HeadPages(clone)' = HeadPages(clone)
  BY <1>3, <1>4 DEF PlannedNames, HeadPages
<1>7. Based(b)'
  BY <1>2, <1>3, <1>4, <1>5, <1>6 DEF Based, PlanIs
<1>8. WikiTypes'
  BY <1>1, <1>3, <1>4, <1>5, LogFacts DEF WikiInv, WikiTypes, IsPages
<1>9. 0 \in 0 .. Len(sync.plan)
  BY <1>1, InTheRun DEF Changing
<1>10. QED
  BY <1>1, <1>2, <1>3, <1>4, <1>7, <1>8, <1>9
    DEF WikiInv, Seen, Copying, CloneWhole, Running, Reading, Changing, Pages, _check_manifest

LEMMA RestoreStep == ASSUME WikiInv, _rollback PROVE WikiInv'
<1>1. sync.pc = "restore" /\ UNCHANGED <<source, wiki>>
  BY DEF _rollback, Running
<1>2. PICK b \in 1 .. Len(clone.log) : Based(b)
  BY <1>1, InTheRun DEF Changing
<1>3. /\ sync.done \in 0 .. Len(sync.plan) /\ DOMAIN sync.plan = 1 .. Len(sync.plan)
      /\ Len(sync.plan) \in Nat
      /\ \A i \in DOMAIN sync.plan : sync.plan[i].name \in PlannedNames /\ sync.plan[i].name \in Names
  BY <1>1, InTheRun DEF Changing
<1>4. clone.index = HeadPages(clone)
  BY <1>1, <1>2 DEF Based
<1>5. IsPages(clone.work) /\ IsPages(clone.log[b].pages) /\ IsHistory(clone.log) /\ IsHistory(wiki)
  BY DEF WikiInv, WikiTypes, IsHistory
<1>6. CASE sync.done = Len(sync.plan)
  <2>1. Ends /\ UNCHANGED clone
    BY <1>6 DEF _rollback
  <2>2. \A n \in Names : clone.work[n] = clone.log[b].pages[n]
    <3>1. \A i \in DOMAIN sync.plan : clone.work[sync.plan[i].name] = clone.log[b].pages[sync.plan[i].name]
      BY <1>1, <1>2, <1>3, <1>6 DEF Based
    <3>2. \A n \in PlannedNames : clone.work[n] = clone.log[b].pages[n]
      BY <3>1 DEF PlannedNames
    <3>3. \A n \in Names \ PlannedNames : clone.work[n] = clone.log[b].pages[n]
      BY <1>2 DEF Based
    <3>4. QED
      BY <3>2, <3>3
  <2>3. clone.work = clone.log[b].pages
    BY <1>5, <2>2 DEF IsPages
  <2>4. \E k : sync' = [Idle EXCEPT !.killed = k]
    BY <2>1 DEF Ends
  <2>5. \E i \in 1 .. Len(clone'.log) : clone'.work = clone'.log[i].pages
    BY <2>1, <2>3
  <2>6. IsHistory(wiki') /\ IsHistory(clone'.log) /\ IsPages(clone'.index) /\ IsPages(clone'.work)
    BY <1>1, <1>5, <2>1 DEF WikiInv, WikiTypes
  <2>7. clone'.index = HeadPages(clone')
    BY <1>4, <2>1
  <2>8. QED
    BY <1>1, <2>1, <2>4, <2>5, <2>6, <2>7, RunOver
<1>7. CASE sync.done # Len(sync.plan)
  <2>1. PICK k, e : k = sync.done + 1 /\ e = sync.plan[k]
    OBVIOUS
  <2>2. k \in 1 .. Len(sync.plan)
    BY <1>3, <1>7, <2>1
  <2>3. /\ clone' = [clone EXCEPT !.work[e.name] = e.was] /\ sync' = [sync EXCEPT !.done = @ + 1]
        /\ e.name \in PlannedNames /\ e.name \in Names
    BY <1>3, <1>7, <2>1, <2>2 DEF _rollback
  <2>4. /\ sync'.pc = "restore" /\ sync'.done = k /\ sync'.plan = sync.plan /\ sync'.seen = sync.seen
        /\ DOMAIN sync' = DOMAIN sync
    BY <1>1, <2>1, <2>3 DEF WikiInv, WikiTypes
  <2>5. /\ clone'.log = clone.log /\ clone'.index = clone.index /\ DOMAIN clone' = DOMAIN clone
        /\ clone'.work = [clone.work EXCEPT ![e.name] = e.was]
    BY <2>3 DEF WikiInv, WikiTypes
  <2>6. /\ IsPages(clone'.work) /\ clone'.work[e.name] = e.was
        /\ \A n \in Names : n # e.name => clone'.work[n] = clone.work[n]
    BY <1>5, <2>3, <2>5 DEF IsPages
  <2>7. PlannedNames' = PlannedNames /\ HeadPages(clone)' = HeadPages(clone)
    BY <2>4, <2>5 DEF PlannedNames, HeadPages
  <2>8. e.was = clone.log[b].pages[e.name]
    BY <1>2, <1>3, <2>1, <2>2 DEF Based, PlanIs
  <2>9. ASSUME NEW i \in 1 .. k
        PROVE  clone'.work[sync.plan[i].name] = clone.log[b].pages[sync.plan[i].name]
    <3>1. CASE sync.plan[i].name = e.name
      BY <2>6, <2>8, <3>1
    <3>2. CASE sync.plan[i].name # e.name
      <4>1. i \in 1 .. sync.done /\ i \in DOMAIN sync.plan
        BY <1>3, <2>1, <2>2, <3>2
      <4>2. clone.work[sync.plan[i].name] = clone.log[b].pages[sync.plan[i].name]
        BY <1>1, <1>2, <4>1 DEF Based
      <4>3. QED
        BY <1>3, <2>6, <3>2, <4>1, <4>2
    <3>3. QED
      BY <3>1, <3>2
  <2>10. Based(b)'
    BY <1>2, <1>4, <2>3, <2>4, <2>5, <2>6, <2>7, <2>9 DEF Based, PlanIs
  <2>11. WikiTypes'
    BY <1>1, <2>4, <2>5, <2>6 DEF WikiInv, WikiTypes, IsPages
  <2>12. k \in 0 .. Len(sync.plan)
    BY <1>3, <2>2
  <2>13. QED
    BY <1>1, <1>2, <2>4, <2>5, <2>10, <2>11, <2>12
      DEF WikiInv, Seen, Copying, CloneWhole, Running, Reading, Changing, Pages, _check_manifest
<1>8. QED
  BY <1>6, <1>7

(* Around the run. *)
LEMMA KilledStep == ASSUME WikiInv, sync_killed PROVE WikiInv'
<1>1. /\ sync'.pc = "idle" /\ sync'.done = 0 /\ sync'.seen = Missing /\ sync'.killed = TRUE
      /\ DOMAIN sync' = {"pc", "plan", "done", "seen", "killed"}
      /\ UNCHANGED <<source, wiki, clone>>
  BY DEF sync_killed, Idle
<1>2. QED
  BY <1>1 DEF WikiInv, WikiTypes, Seen, Copying, CloneWhole, Reading, Changing

LEMMA WebStep ==
    ASSUME WikiInv, NEW n \in Names, NEW text, edit_on_web(n, text) PROVE WikiInv'
<1> DEFINE pages == [Last(wiki).pages EXCEPT ![n] = text]
           new == [pages |-> pages, audited |-> Missing]
<1>1. wiki' = Append(wiki, new) /\ UNCHANGED <<source, clone, sync>>
  BY DEF edit_on_web
<1>2. IsHistory(wiki) /\ Len(wiki) \in 1 .. Len(wiki)
  BY DEF WikiInv, WikiTypes, IsHistory
<1>3. IsPages(Last(wiki).pages)
  BY <1>2 DEF IsHistory, Last
<1>4. IsPages(new.pages) /\ new.audited = Missing
  BY <1>3 DEF IsPages
<1> HIDE DEF new
<1> DEFINE h == Append(wiki, new)
<1>5. /\ h \in Seq(ToSet(h)) /\ Len(h) = Len(wiki) + 1
      /\ \A i \in 1 .. Len(wiki) : h[i] = wiki[i]
      /\ h[Len(wiki) + 1] = new
  BY <1>2, AppendFacts DEF IsHistory
<1> HIDE DEF h
<1>6. IsHistory(h)
  <2>1. \A i \in 1 .. Len(h) : i \in 1 .. Len(wiki) \/ i = Len(wiki) + 1
    BY <1>2, <1>5 DEF IsHistory
  <2>2. Len(h) > 0
    BY <1>2, <1>5
  <2>3. QED
    BY <1>2, <1>4, <1>5, <2>1, <2>2 DEF IsHistory
<1>7. WikiTypes'
  BY <1>1, <1>6 DEF WikiInv, WikiTypes, h
<1>8. sync.pc \in Changing => \E b \in 1 .. Len(clone.log) : Based(b)'
  BY <1>1 DEF WikiInv, Based, PlanIs, PlannedNames, HeadPages
<1>9. QED
  BY <1>1, <1>7, <1>8 DEF WikiInv, Seen, Copying, CloneWhole, Running, Pages, _check_manifest,
    CleanClone, HeadPages, PlannedNames

LEMMA SourceStep ==
    ASSUME WikiInv, NEW f, NEW text, edit_source(f, text) PROVE WikiInv'
<1>1. UNCHANGED <<wiki, clone>> /\ sync' = [sync EXCEPT !.seen = Missing]
  BY DEF edit_source
<1>2. /\ sync'.pc = sync.pc /\ sync'.plan = sync.plan /\ sync'.done = sync.done /\ sync'.seen = Missing
      /\ sync'.killed = sync.killed /\ DOMAIN sync' = DOMAIN sync
  BY <1>1 DEF WikiInv, WikiTypes
<1>3. sync.pc \in Changing => \E b \in 1 .. Len(clone.log) : Based(b)'
  BY <1>1, <1>2 DEF WikiInv, Based, PlanIs, PlannedNames, HeadPages
<1>4. QED
  BY <1>1, <1>2, <1>3 DEF WikiInv, WikiTypes, Seen, Copying, CloneWhole, Running, CleanClone, HeadPages

LEMMA OperatorStep ==
    ASSUME WikiInv, push_by_hand \/ fresh_clone PROVE WikiInv'
<1>1. CASE push_by_hand
  <2>1. /\ UNCHANGED <<source, sync>> /\ wiki' = clone.log /\ clone' = [clone EXCEPT !.upstream = clone.log]
        /\ sync.pc = "idle"
    BY <1>1 DEF push_by_hand, Pushed, Running
  <2>2. /\ clone'.log = clone.log /\ clone'.index = clone.index /\ clone'.work = clone.work
        /\ DOMAIN clone' = DOMAIN clone
    BY <2>1 DEF WikiInv, WikiTypes
  <2>3. QED
    BY <2>1, <2>2 DEF WikiInv, WikiTypes, Reading, Changing, Seen, Copying, CloneWhole, Running, HeadPages,
      Pages, _check_manifest
<1>2. CASE fresh_clone
  <2>1. /\ sync' = Idle /\ UNCHANGED <<source, wiki>> /\ clone'.log = wiki /\ clone'.index = Last(wiki).pages
        /\ clone'.work = Last(wiki).pages /\ DOMAIN clone' = {"log", "upstream", "index", "work"}
    BY <1>2 DEF fresh_clone
  <2>2. IsHistory(wiki) /\ Len(wiki) \in 1 .. Len(wiki) /\ IsPages(Last(wiki).pages)
    BY DEF WikiInv, WikiTypes, IsHistory, Last
  <2>3. HeadPages(clone') = Last(wiki).pages
    BY <2>1 DEF HeadPages
  <2>4. \E b \in 1 .. Len(clone'.log) : clone'.work = clone'.log[b].pages
    BY <2>1, <2>2 DEF Last
  <2>5. \E k : sync' = [Idle EXCEPT !.killed = k]
    BY <2>1 DEF Idle
  <2>6. QED
    BY <2>1, <2>2, <2>3, <2>4, <2>5, RunOver DEF WikiInv, WikiTypes
<1>3. QED
  BY <1>1, <1>2

LEMMA WikiBeside == ASSUME WikiInv, UNCHANGED wikiVars PROVE WikiInv'
<1>1. UNCHANGED <<source, wiki, clone, sync>>
  BY DEF wikiVars
<1>2. sync.pc \in Changing => \E b \in 1 .. Len(clone.log) : Based(b)'
  BY <1>1 DEF WikiInv, Based, PlanIs, PlannedNames, HeadPages
<1>3. QED
  BY <1>1, <1>2 DEF WikiInv, WikiTypes, Seen, Copying, CloneWhole, Running, CleanClone, HeadPages,
    Pages, _check_manifest, PlannedNames

LEMMA WikiKept == ASSUME WikiInv, [Next]_publishingVars PROVE WikiInv'
<1>1. CASE WikiNext
  <2>1. CASE plan_audit \/ plan_read \/ refresh_audit \/ refresh_read
    BY <2>1, ReadStep, PlanStep, CompareStep
  <2>2. CASE copy_page \/ stage_pages \/ check_staged \/ commit_pages \/ push \/ unstage \/ _rollback
    BY <2>2, CopyStep, StageStep, CheckStep, CommitStep, PushStep, UnstageStep, RestoreStep
  <2>3. CASE sync_fault \/ push_fault \/ sync_killed \/ push_by_hand \/ fresh_clone
    BY <2>3, CommitStep, PushStep, KilledStep, OperatorStep
  <2>4. CASE \E f \in DOMAIN Texts : \E text \in Texts[f] : edit_source(f, text)
    BY <2>4, SourceStep
  <2>5. CASE \E n \in Names : \E text \in Texts[n] : edit_on_web(n, text)
    BY <2>5, WebStep
  <2>6. QED
    BY <1>1, <2>1, <2>2, <2>3, <2>4, <2>5 DEF WikiNext
<1>2. CASE UNCHANGED wikiVars
  BY <1>2, WikiBeside
<1>3. QED
  BY <1>1, <1>2 DEF Next, publishingVars

\* CloneWhole: after a run that was not killed the clone holds the pages of one
\* commit, its own or the one it began with, and its index is the latest commit's.
THEOREM CloneStaysWhole == Spec => []CloneWhole
<1>1. Init => WikiInv
  BY WikiStart DEF Init
<1>2. WikiInv /\ [Next]_publishingVars => WikiInv'
  BY WikiKept
<1>3. WikiInv => CloneWhole
  BY DEF WikiInv
<1>4. QED
  BY <1>1, <1>2, <1>3, PTL DEF Spec

\* PushedIsAudited: a commit of the tool that reaches the wiki holds exactly
\* the pages its last audit passed, if the source was not edited meanwhile.
THEOREM OnlyAuditedIsPushed == Spec => []PushedIsAudited
<1>1. Init => WikiInv
  BY WikiStart DEF Init
<1>2. WikiInv /\ [Next]_publishingVars => WikiInv'
  BY WikiKept
<1>3. WikiInv => PushedIsAudited
  BY DEF WikiInv, WikiTypes, IsHistory, PushedIsAudited
<1>4. QED
  BY <1>1, <1>2, <1>3, PTL DEF Spec

\* OthersWorkKept: the wiki's history is only ever added to, and a branch that
\* is there is never moved.
THEOREM OthersAreSafe == Spec => OthersWorkKept
<1>1. Init => WikiInv
  BY WikiStart DEF Init
<1>2. WikiInv /\ [Next]_publishingVars => WikiInv'
  BY WikiKept
<1>3. WikiInv /\ [Next]_publishingVars
        => [IsPrefix(wiki, wiki') /\ (branch # NoCommit => branch' = branch)]_publishingVars
  <2> SUFFICES ASSUME WikiInv, Next
               PROVE  IsPrefix(wiki, wiki') /\ (branch # NoCommit => branch' = branch)
    OBVIOUS
  <2>1. wiki \in Seq(ToSet(wiki))
    BY DEF WikiInv, WikiTypes, IsHistory
  <2>2. \/ wiki' = wiki \/ (\E new : wiki' = Append(wiki, new))
        \/ wiki' = clone.log /\ FastForward
    BY DEF Next, wikiVars, WikiNext, plan_audit, plan_read, refresh_audit, refresh_read, copy_page,
      stage_pages, check_staged, commit_pages, push, Pushed, unstage, _rollback, sync_fault, push_fault,
      sync_killed, edit_source, edit_on_web, push_by_hand, fresh_clone
  <2>3. IsPrefix(wiki, wiki')
    <3>1. CASE wiki' = wiki
      BY <2>1, <3>1, OwnPrefix
    <3>2. CASE \E new : wiki' = Append(wiki, new)
      BY <2>1, <3>2, AppendFacts
    <3>3. CASE wiki' = clone.log /\ FastForward
      BY <3>3 DEF FastForward
    <3>4. QED
      BY <2>2, <3>1, <3>2, <3>3
  <2>4. branch # NoCommit => branch' = branch
    BY DEF Next, prVars, PrNext, repository, preflight, fetch, check_base, switch_branch, decline, add_paths,
      check_staged_paths, commit_paths, check_committed, check_preserved, push_branch, lease_holds,
      open_pull_request, edit_path, move_main, fetched_elsewhere, branch_elsewhere, pr_fault, start_again
  <2>5. QED
    BY <2>3, <2>4
<1>4. QED
  BY <1>1, <1>2, <1>3, PTL DEF Spec, OthersWorkKept
=============================================================================
