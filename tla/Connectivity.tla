----------------------------- MODULE Connectivity -----------------------------
(***************************************************************************)
(* The reviewed-warning policy of the Quartus build: discovery of the      *)
(* project's source closure (quartus_connectivity_source_closure.py), the  *)
(* review of a map report against the policy (quartus_connectivity_policy  *)
(* .py), the gate that admits a build to a policy refresh                  *)
(* (quartus_connectivity_refresh_gate.py) and the refresh itself           *)
(* (quartus_connectivity_policy_refresh.py).                               *)
(*                                                                         *)
(* A file's contents are a record: the files it names, the connectivity    *)
(* warning rows its logic gives rise to, and whether it holds something    *)
(* the static grammar refuses (an include, a substitution, a search path). *)
(* A digest of a file is its contents.                                     *)
(***************************************************************************)
EXTENDS Naturals, Sequences, FiniteSets

CONSTANTS
  Kind,        \* the tracked paths, each with its kind: "qsf", "qip", "sdc" or "hdl"
  Contents,    \* for each path, what the file can hold; Absent for no file
  Absent,
  FirstTree,   \* the working tree at first
  FirstBound,  \* the paths a legacy policy binds
  MaxEdits

Paths == DOMAIN Kind
PROJECT_FILES == {p \in Paths : Kind[p] = "qsf"}
Trees == {t \in [Paths -> UNION {Contents[p] : p \in Paths}] : \A p \in Paths : t[p] \in Contents[p]}
Nothing == [kind |-> "nothing"]

(* Finitely many paths.  A file names paths of the project, and an HDL       *)
(* source none: what it would include is something the grammar refuses.      *)
ASSUME ProjectAssumption ==
  /\ IsFiniteSet(Paths)
  /\ \A p \in Paths :
       /\ Kind[p] \in {"qsf", "qip", "sdc", "hdl"}
       /\ \A c \in Contents[p] \ {Absent} : c.refs \subseteq Paths /\ (Kind[p] = "hdl" => c.refs = {})
  /\ FirstTree \in Trees
  /\ FirstBound \subseteq Paths

VARIABLES
  tree,     \* the working tree
  head,     \* the tree of the checked-out commit
  policy,   \* connectivity-warning-12241.json
  allow,    \* the allowlist it names: rows, with the review each came from
  report,   \* the artifacts of the last build
  draft,    \* the two draft files of a refresh
  writing,  \* the proposal a refresh is writing out
  seen,     \* the rows somebody has reviewed (ghost)
  stranded, \* a take-back has removed the allowlist and not the policy (ghost)
  edits

vars == <<tree, head, policy, allow, report, draft, writing, seen, stranded, edits>>

-----------------------------------------------------------------------------
(* The source closure. *)

(* What a file names: the file assignments of a settings or IP file, the     *)
(* literal read_sdc commands of a constraint file.  Anything the static      *)
(* grammar cannot resolve is an error, and so is a missing file.             *)
_read_assignments(t, f) == t[f].refs
_sdc_dependencies(t, f) == {g \in t[f].refs : Kind[g] = "sdc"}
Named(t, f) == IF Kind[f] = "sdc" THEN _sdc_dependencies(t, f) ELSE _read_assignments(t, f)
Static(t, f) == ~t[f].bad
Readable(t, f) == t[f] # Absent /\ Static(t, f)
Queued(t, f, kind) == {g \in Named(t, f) : Kind[g] = kind}

(* The worklist of a discovery: every file that has been queued is read,     *)
(* once, and queues the files of that kind it names.  Here the queue is      *)
(* worked off in rounds; a file that cannot be read names nothing, and is an *)
(* error.                                                                    *)
Round(t, kind, read) == read \cup UNION {Queued(t, f, kind) : f \in {g \in read : Readable(t, g)}}
Walk(t, kind, first) ==
  LET read[n \in Nat] == IF n = 0 THEN first ELSE Round(t, kind, read[n - 1])
  IN read[Cardinality(Paths)]
Discovered(t, read) == UNION {Named(t, f) : f \in {g \in read : Readable(t, g)}}

(* Includes, run-time memory files and unreviewed init files of the sources. *)
_validate_indirect_hdl_inputs(t, found) ==
  \A f \in found : Kind[f] = "hdl" => Readable(t, f)

(* Fault: assignment files named by other files are not followed.           *)
_discover_shallow(t, tracked) ==
  LET found == PROJECT_FILES \cup Discovered(t, PROJECT_FILES)
  IN [ok |-> \A f \in found : Readable(t, f) /\ f \in tracked, paths |-> found]

_discover_source_graph(t, tracked) ==
  LET parsed == Walk(t, "qip", PROJECT_FILES)
      assigned == PROJECT_FILES \cup Discovered(t, parsed)
      parsed_sdc == Walk(t, "sdc", {f \in assigned : Kind[f] = "sdc"})
      found == assigned \cup Discovered(t, parsed_sdc)
  IN [ok |-> /\ \A f \in parsed \cup parsed_sdc : Readable(t, f)
             /\ _validate_indirect_hdl_inputs(t, found)
             /\ \A f \in found : t[f] # Absent /\ f \in tracked,
      paths |-> found]

(* The index of a checkout, and the closure with the digest of every file. *)
_index_entries == {p \in Paths : head[p] # Absent}
Closure(t) == _discover_source_graph(t, _index_entries)
Bindings(t) == [p \in Closure(t).paths |-> t[p]]
committed_bindings == Closure(head).ok /\ \A p \in Closure(head).paths : tree[p] = head[p]

-----------------------------------------------------------------------------
(* The policy and the review of a report. *)

(* The policy names its allowlist by digest. *)
_read_policy == policy.rows = DOMAIN allow

_validate_bound(pol) == \A p \in DOMAIN pol.bindings : tree[p] = pol.bindings[p]
_validate_source_bindings(pol) ==
  /\ _validate_bound(pol)
  /\ pol.magic = "V2" =>
       /\ Closure(tree).ok
       /\ pol.closure = Closure(tree).paths
       /\ pol.bindings = Bindings(tree)

(* The rows of the report against the rows of the allowlist, exactly. *)
_load_allowlist == DOMAIN allow
extract_warning_rows(r) == r.rows
review_report(r) ==
  _read_policy /\ _validate_source_bindings(policy) /\ extract_warning_rows(r) = _load_allowlist

(* What the candidate audit makes of the warnings. *)
AuditAccepts(r) == r.clean /\ (extract_warning_rows(r) = {} \/ review_report(r))

-----------------------------------------------------------------------------
(* The gate and the refresh. *)

(* The first reason the policy is rejected for, in the order of the checks;  *)
(* paths are visited in the policy's own order, so either kind of drift of a *)
(* bound file may come first.                                                *)
Changed(pol) == {p \in DOMAIN pol.bindings : tree[p] # Absent /\ tree[p] # pol.bindings[p]}
Removed(pol) == {p \in DOMAIN pol.bindings : tree[p] = Absent}

_drift_changed_only(pol) ==
  IF _validate_source_bindings(pol) THEN {"current"}
  ELSE {IF p \in Changed(pol) THEN "bound_source_changed" ELSE "refused" :
          p \in Changed(pol) \cup Removed(pol)}

_require_exact_source_drift(pol) ==
  IF _validate_source_bindings(pol) THEN {"current"}
  ELSE IF Changed(pol) \cup Removed(pol) # {}
  THEN {IF p \in Changed(pol) THEN "bound_source_changed"
        ELSE IF Closure(tree).ok /\ p \notin Closure(tree).paths THEN "bound_source_removed"
        ELSE "refused" : p \in Changed(pol) \cup Removed(pol)}
  ELSE IF ~Closure(tree).ok THEN {"refused"}
  ELSE IF pol.closure # Closure(tree).paths THEN {"source_closure_identity_changed"}
  ELSE {"source_closure_bindings_changed"}

(* Every gate but the connectivity review must pass, and the build must have *)
(* raised the warning at all.                                                *)
audit_refresh(r) ==
  /\ _read_policy
  /\ _require_exact_source_drift(policy) \cap {"current", "refused"} = {}
  /\ r.clean
  /\ extract_warning_rows(r) # {}

(* HEAD is the reviewed commit, no tracked file differs from it, and the     *)
(* closure read from the commit is the one read from the working tree.       *)
_require_clean_checkout(commit) ==
  /\ head = commit
  /\ \A p \in _index_entries : tree[p] = head[p]
  /\ committed_bindings

(* Added rows need a review of exactly those rows; without one there is a    *)
(* summary and no draft.                                                     *)
Approved(added, additions) == additions.given => additions.rows = added
prepare_refresh(r, additions) ==
  LET added == extract_warning_rows(r) \ _load_allowlist
  IN [ok |-> /\ _read_policy
             /\ policy = r.baseline
             /\ _require_clean_checkout(r.commit)
             /\ Approved(added, additions)
             /\ added = {} \/ additions.given,
      rows |-> [q \in r.rows |-> IF q \in added THEN "new" ELSE allow[q]]]

Refreshed(r, prop) ==
  [kind |-> "policy", magic |-> "V2", commit |-> r.commit, rows |-> DOMAIN prop.rows,
   closure |-> Closure(head).paths, bindings |-> Bindings(head)]

-----------------------------------------------------------------------------
(* What Quartus reports for a source tree: the rows of every file the        *)
(* project reaches.                                                          *)
Closed(t, S) == PROJECT_FILES \subseteq S /\ \A f \in S : t[f] # Absent => Named(t, f) \subseteq S
Reaches(t) ==
  CHOOSE S \in SUBSET Paths : Closed(t, S) /\ \A R \in SUBSET Paths : Closed(t, R) => S \subseteq R
RowsOf(t) == UNION {t[f].rows : f \in {g \in Reaches(t) : t[g] # Absent}}

LegacyPolicy ==
  [kind |-> "policy", magic |-> "V1", commit |-> FirstTree, rows |-> RowsOf(FirstTree),
   closure |-> {}, bindings |-> [p \in FirstBound |-> FirstTree[p]]]
CurrentPolicy ==
  LET c == _discover_source_graph(FirstTree, {p \in Paths : FirstTree[p] # Absent})
  IN [kind |-> "policy", magic |-> "V2", commit |-> FirstTree, rows |-> RowsOf(FirstTree),
      closure |-> c.paths, bindings |-> [p \in c.paths |-> FirstTree[p]]]

Init ==
  /\ tree = FirstTree /\ head = FirstTree
  /\ policy \in {LegacyPolicy, CurrentPolicy}
  /\ allow = [q \in RowsOf(FirstTree) |-> "old"]
  /\ report = Nothing
  /\ draft = [allow |-> Nothing, policy |-> Nothing]
  /\ writing = Nothing
  /\ seen = RowsOf(FirstTree)
  /\ stranded = FALSE
  /\ edits = 0

(* The developer edits, adds or deletes a file, and commits the tree. *)
Edit(p) ==
  /\ edits < MaxEdits
  /\ edits' = edits + 1
  /\ \E c \in Contents[p] \ {tree[p]} : tree' = [tree EXCEPT ![p] = c]
  /\ UNCHANGED <<head, policy, allow, report, draft, writing, seen, stranded>>

Commit ==
  /\ head # tree
  /\ head' = tree
  /\ UNCHANGED <<tree, policy, allow, report, draft, writing, seen, stranded, edits>>

(* The build workflow fits the commit; whoever starts it notes the policy's  *)
(* digest.                                                                   *)
Build ==
  /\ \A p \in Reaches(head) : Readable(head, p)
  /\ \E clean \in BOOLEAN :
       report' = [kind |-> "report", commit |-> head, rows |-> RowsOf(head),
                  clean |-> clean, baseline |-> policy]
  /\ report' # report
  /\ UNCHANGED <<tree, head, policy, allow, draft, writing, seen, stranded, edits>>

(* main of the refresh tool up to the drafts, after the gate. *)
Refresh ==
  /\ writing = Nothing /\ report # Nothing
  /\ audit_refresh(report)
  /\ \E given \in BOOLEAN, rows \in SUBSET (report.rows \ _load_allowlist) :
       LET additions == [given |-> given, rows |-> IF given THEN rows ELSE {}]
           prop == prepare_refresh(report, additions)
       IN /\ ~given => rows = {}
          /\ prop.ok
          /\ draft.allow = Nothing /\ draft.policy = Nothing
          /\ writing' = [kind |-> "proposal", allow |-> prop.rows, policy |-> Refreshed(report, prop),
                         created |-> << >>]
          /\ seen' = seen \cup additions.rows
  /\ UNCHANGED <<tree, head, policy, allow, report, draft, stranded, edits>>

(* write_proposal: O_EXCL creation and the contents, the allowlist first.    *)
(* What follows when a file is there already, is cut short or is complete    *)
(* but not synchronized is the taking back of the files created so far; an   *)
(* interrupt between the creation and its record leaves the file out.        *)
TargetPolicyFirst == IF writing.created = << >> THEN "policy" ELSE "allow"
Target == IF writing.created = << >> THEN "allow" ELSE "policy"
TakeBack(files) ==
  IF files = << >> THEN Nothing ELSE [writing EXCEPT !.kind = "failing", !.created = files]
Onward ==
  IF writing.created # << >> THEN Nothing ELSE [writing EXCEPT !.created = <<Target>>]
write_proposal ==
  /\ writing.kind = "proposal"
  /\ \/ /\ draft[Target] # Nothing
        /\ writing' = TakeBack(writing.created)
        /\ UNCHANGED draft
     \/ /\ draft[Target] = Nothing
        /\ draft' = [draft EXCEPT ![Target] = [kind |-> "draft", of |-> writing[Target]]]
        /\ writing' \in {Onward, TakeBack(Append(writing.created, Target))}
     \/ /\ draft[Target] = Nothing
        /\ draft' = [draft EXCEPT ![Target] = [kind |-> "partial"]]
        /\ writing' \in {TakeBack(writing.created), TakeBack(Append(writing.created, Target))}
  /\ UNCHANGED <<tree, head, policy, allow, report, seen, stranded, edits>>

(* The files this call created are removed one at a time, in the order of    *)
(* their creation: the allowlist before the policy.                          *)
Own(k) == draft[k].kind \in {"partial", "draft"}
Undo ==
  /\ writing.kind = "failing"
  /\ draft' = [draft EXCEPT ![Head(writing.created)] = Nothing]
  /\ writing' = TakeBack(Tail(writing.created))
  /\ stranded' = (Head(writing.created) = "allow" /\ Own("policy"))
  /\ UNCHANGED <<tree, head, policy, allow, report, seen, edits>>

(* The process dies, or a removal fails and its error leaves the clean-up:   *)
(* what has been created and not yet removed stays.                          *)
Crash ==
  /\ writing # Nothing
  /\ writing' = Nothing
  /\ UNCHANGED <<tree, head, policy, allow, report, draft, seen, stranded, edits>>

(* Somebody else leaves a file where a draft is to be written, or clears the *)
(* drafts away.                                                              *)
Foreign(k) ==
  /\ draft[k] = Nothing /\ edits < MaxEdits
  /\ edits' = edits + 1
  /\ draft' = [draft EXCEPT ![k] = [kind |-> "foreign"]]
  /\ UNCHANGED <<tree, head, policy, allow, report, writing, seen, stranded>>
Clear ==
  /\ writing = Nothing
  /\ draft # [k \in {"allow", "policy"} |-> Nothing]
  /\ draft' = [k \in {"allow", "policy"} |-> Nothing]
  /\ stranded' = FALSE
  /\ UNCHANGED <<tree, head, policy, allow, report, writing, seen, edits>>

(* The maintainer copies a draft over the live file, one file at a time. *)
InstallPolicy ==
  /\ draft.policy.kind = "draft"
  /\ policy' = draft.policy.of
  /\ UNCHANGED <<tree, head, allow, report, draft, writing, seen, stranded, edits>>
InstallAllowlist ==
  /\ draft.allow.kind = "draft"
  /\ allow' = draft.allow.of
  /\ UNCHANGED <<tree, head, policy, report, draft, writing, seen, stranded, edits>>

Next ==
  \/ \E p \in Paths : Edit(p)
  \/ Commit \/ Build \/ Refresh \/ write_proposal \/ Undo \/ Crash
  \/ \E k \in {"allow", "policy"} : Foreign(k)
  \/ Clear \/ InstallPolicy \/ InstallAllowlist

Spec == Init /\ [][Next]_vars

-----------------------------------------------------------------------------
(* No connectivity warning passes the audit unless somebody has reviewed     *)
(* that very row: after any sequence of edits, builds and policy refreshes,  *)
(* with drafts installed in part or out of date.  And under a V2 policy the  *)
(* tree's whole input, every file the project reaches through assignments,   *)
(* IP and constraint files, is what it was in the commit that was reviewed:  *)
(* an unreviewed source cannot hide behind a file the closure misses.        *)
AcceptedWasReviewed ==
  /\ report # Nothing /\ AuditAccepts(report) => report.rows \subseteq seen
  /\ report # Nothing /\ policy.magic = "V2" /\ review_report(report)
       => /\ Reaches(tree) = Reaches(policy.commit)
          /\ \A p \in Reaches(tree) : tree[p] = policy.commit[p]

(* The way out is always open: for a sound committed tree and its clean      *)
(* build under a V2 policy, either the audit accepts the build, or the gate  *)
(* admits it to a refresh that some review of the added rows turns into a    *)
(* draft.                                                                    *)
RefreshOpen ==
  report # Nothing /\ policy.magic = "V2" /\ _read_policy /\ tree = head
    /\ report.commit = head /\ report.clean /\ report.baseline = policy
  => \/ AuditAccepts(report)
     \/ /\ audit_refresh(report)
        /\ LET added == extract_warning_rows(report) \ _load_allowlist
           IN prepare_refresh(report, [given |-> added # {}, rows |-> added]).ok

(* Two drafts that stand side by side are of one proposal, whatever was left *)
(* behind by the calls before.  And a policy draft, even one cut short, has  *)
(* the complete allowlist beside it, with one exception: the files of a      *)
(* failed call are taken back in the order of their creation, so a call      *)
(* stopped between the two removals leaves the policy draft alone.           *)
DraftsPaired ==
  /\ draft.policy.kind = "draft" /\ draft.allow.kind = "draft"
       => DOMAIN draft.allow.of = draft.policy.of.rows
  /\ Own("policy") /\ ~stranded => draft.allow.kind = "draft"

=============================================================================
