----------------------------- MODULE QaSession -----------------------------
(***************************************************************************)
(* The physical-QA record of a build: the private workspace                *)
(* (scripts/prepare_hardware_qa_workspace.py), the manifest and its strict *)
(* verifier (scripts/pocket_hardware_qa.py), and the one-case recorder     *)
(* with its sidecar file (scripts/pocket_hardware_qa_session.py).          *)
(*                                                                         *)
(* A hash is the value it stands for.  The recorder's commands hold an     *)
(* exclusive lock and run one at a time; a human edits the manifest and    *)
(* the inventory with an editor that knows no lock, and a command can be   *)
(* interrupted between any two of its durable effects.                     *)
(***************************************************************************)
EXTENDS Naturals, FiniteSets

CONSTANTS
    Cases,        \* the required cases
    Sources,      \* captures in the private directory: [kind, bytes]
    Builds,       \* identities of the installed core
    Needs,        \* the kinds of evidence each case requires
    MaxArtifacts, \* bound: artifacts of one kind in a case (99 in the code)
    MaxEdits,     \* bound: edits by hand
    MaxCrashes    \* bound: interruptions

ASSUME QaAssumption ==
    /\ Needs \in [Cases -> SUBSET {s.kind : s \in Sources}]
    /\ {MaxArtifacts, MaxEdits, MaxCrashes} \subseteq Nat

VARIABLES
    inventory,   \* inventory.json: the installed core, and whether it covers
                 \* the ROMs, controllers and firmware the cases need
    manifest,    \* evidence/manifest.json
    session,     \* the sidecar .active-hardware-qa-case.json
    files,       \* evidence files: [case, kind, n, bytes]
    pc, job,     \* the running command and what it holds in memory
    edits, crashes

vars == <<inventory, manifest, session, files, pc, job, edits, crashes>>

Kinds == {s.kind : s \in Sources}
Artifacts == [case : Cases, kind : Kinds, n : 1 .. MaxArtifacts,
              bytes : {s.bytes : s \in Sources}]

Absent == [state |-> "absent"]
Pending == [status |-> "pending", arts |-> {}]

Init ==
    /\ inventory = Absent /\ manifest = Absent /\ session = Absent
    /\ files = {} /\ pc = "idle" /\ job = Absent
    /\ edits = 0 /\ crashes = 0

---------------------------------------------------------------------------
\* pocket_hardware_qa.py: the environment and the verifier

\* Every required ROM class, Open IPL variant and save type is in the inventory.
covers_roms(inv) == inv.covers

\* One built-in pad, wired and wireless Dock pads, keyboard and mouse.
covers_controllers(inv) == inv.covers

\* The installed core is bound by the identities of its files.
installed_core(inv) == inv.core
build_environment(inv) == [core |-> installed_core(inv)]

environment_valid(inv) == covers_roms(inv) /\ covers_controllers(inv)

\* An artifact of the manifest is one file with exactly the recorded bytes.
manifest_artifact(a) == a \in files

\* Artifact counts, labels and snapshots a passing case must have.
meets_needs(c, arts) == \A k \in Needs[c] : \E a \in arts : a.kind = k

case_valid(c, entry, all) ==
    CASE entry.status = "pending" -> entry = Pending
      [] entry.status = "fail" -> entry.arts \subseteq all
      [] entry.status = "pass" -> entry.arts \subseteq all /\ meets_needs(c, entry.arts)

\* No artifact is evidence for two passing cases.
owners_distinct(m) ==
    \A c, d \in Cases :
        c # d /\ m.cases[c].status = "pass" /\ m.cases[d].status = "pass" =>
            m.cases[c].arts \intersect m.cases[d].arts = {}

verify_manifest(m, inv) ==
    /\ m.state = "manifest" /\ inv.state = "inventory"
    /\ environment_valid(inv) /\ m.env = build_environment(inv)
    /\ \A a \in m.arts : manifest_artifact(a)
    /\ \A c \in Cases : case_valid(c, m.cases[c], m.arts)
    /\ owners_distinct(m)

---------------------------------------------------------------------------
\* The workspace and the generated manifest

\* The workspace directory appears in one rename that replaces nothing.
rename_noreplace(inv) == inventory = Absent /\ inventory' = inv
prepare_workspace ==
    /\ pc = "idle"
    /\ \E b \in Builds, ok \in BOOLEAN :
          rename_noreplace([state |-> "inventory", core |-> b, covers |-> ok])
    /\ UNCHANGED <<manifest, session, files, pc, job, edits, crashes>>

\* All cases pending, nothing attested; an existing manifest is kept.
generate_manifest ==
    /\ pc = "idle" /\ manifest = Absent
    /\ inventory # Absent /\ environment_valid(inventory)
    /\ manifest' = [state |-> "manifest", env |-> build_environment(inventory),
                    arts |-> {}, cases |-> [c \in Cases |-> Pending],
                    attested |-> FALSE]
    /\ UNCHANGED <<inventory, session, files, pc, job, edits, crashes>>

---------------------------------------------------------------------------
\* pocket_hardware_qa_session.py

\* The sidecar belongs to this inventory and to this very manifest, or, when
\* recovery asks, to the manifest it prepared.
load_session(allow_published) ==
    /\ session # Absent
    /\ \/ manifest = session.base
       \/ allow_published /\ session.prepared # Absent
          /\ manifest = session.prepared
    /\ inventory = session.inventory

Return == pc' = "idle" /\ job' = Absent

\* The case must be the untouched skeleton of a valid manifest, and no other
\* session may be active; the sidecar is linked into place.
start_case(c) ==
    /\ pc = "idle" /\ session = Absent
    /\ manifest # Absent /\ verify_manifest(manifest, inventory)
    /\ manifest.cases[c] = Pending
    /\ session' = [state |-> "active", case |-> c, base |-> manifest,
                   inventory |-> inventory, arts |-> {}, sources |-> {},
                   prepared |-> Absent]
    /\ UNCHANGED <<inventory, manifest, files, pc, job, edits, crashes>>

\* The lowest number the session does not use for this kind.
next_artifact_id(k) ==
    CHOOSE n \in 1 .. MaxArtifacts + 1 :
        /\ ~ \E a \in session.arts : a.kind = k /\ a.n = n
        /\ \A i \in 1 .. n - 1 : \E a \in session.arts : a.kind = k /\ a.n = i

\* The same non-save bytes are not evidence twice.
duplicate_evidence(a) ==
    /\ a.kind # "save"
    /\ \E b \in manifest.arts \union session.arts : b.bytes = a.bytes

\* A capture of the private directory is copied beside its destination; the
\* destination must be free and the bytes new.
ingest_artifact(s) ==
    LET a == [case |-> session.case, kind |-> s.kind,
              n |-> next_artifact_id(s.kind), bytes |-> s.bytes] IN
    /\ pc = "idle" /\ load_session(FALSE) /\ session.prepared = Absent
    /\ s \notin session.sources
    /\ a.n <= MaxArtifacts
    /\ ~ \E f \in files : f.case = a.case /\ f.kind = a.kind /\ f.n = a.n
    /\ ~ \E b \in manifest.arts : b.case = a.case /\ b.kind = a.kind /\ b.n = a.n
    /\ ~ duplicate_evidence(a)
    /\ pc' = "link"
    /\ job' = [source |-> s, art |-> a, seen |-> session]
    /\ UNCHANGED <<inventory, manifest, session, files, edits, crashes>>

\* Publication of the evidence file by a link that replaces nothing.
IngestLink ==
    /\ pc = "link"
    /\ files' = files \union {job.art}
    /\ pc' = "record"
    /\ UNCHANGED <<inventory, manifest, session, job, edits, crashes>>

\* The sidecar is replaced if it is still the one read; otherwise, and on any
\* error, the new file is taken back.
IngestRecord ==
    /\ pc = "record"
    /\ \/ /\ session = job.seen
          /\ session' = [session EXCEPT !.arts = @ \union {job.art},
                                        !.sources = @ \union {job.source}]
          /\ UNCHANGED files
       \/ UNCHANGED session /\ files' = files \ {job.art}
    /\ Return
    /\ UNCHANGED <<inventory, manifest, edits, crashes>>

\* An interrupt after the sidecar was replaced and before the call returned
\* runs the same cleanup: the recorded file goes.
IngestInterrupted ==
    /\ pc = "record" /\ session = job.seen /\ crashes < MaxCrashes
    /\ session' = [session EXCEPT !.arts = @ \union {job.art},
                                  !.sources = @ \union {job.source}]
    /\ files' = files \ {job.art}
    /\ crashes' = crashes + 1
    /\ Return
    /\ UNCHANGED <<inventory, manifest, edits>>

\* The manifest with the active case completed as the human's result says.
completed(status) ==
    [manifest EXCEPT !.arts = @ \union session.arts,
                     !.cases[session.case] = [status |-> status, arts |-> session.arts]]

\* Mutant: the completed manifest is not verified again.
finish_case_unverified(status) ==
    /\ pc = "idle" /\ load_session(FALSE) /\ session.arts # {}
    /\ manifest.cases[session.case].status = "pending"
    /\ session.prepared \in {Absent, completed(status)}
    /\ pc' = "publish"
    /\ job' = [final |-> completed(status), base |-> manifest]
    /\ session' = [session EXCEPT !.prepared = completed(status)]
    /\ UNCHANGED <<inventory, manifest, files, edits, crashes>>

\* The completed manifest passes the whole verifier; then the sidecar promises
\* exactly it.  A retry must come to the same manifest.
finish_case(status) ==
    /\ pc = "idle" /\ load_session(FALSE) /\ session.arts # {}
    /\ verify_manifest(manifest, inventory)
    /\ manifest.cases[session.case].status = "pending"
    /\ session.arts \intersect manifest.arts = {}
    /\ verify_manifest(completed(status), inventory)
    /\ session.prepared \in {Absent, completed(status)}
    /\ pc' = "publish"
    /\ job' = [final |-> completed(status), base |-> manifest]
    /\ session' = [session EXCEPT !.prepared = completed(status)]
    /\ UNCHANGED <<inventory, manifest, files, edits, crashes>>

\* atomic_replace of the manifest: refused when it changed since it was read.
FinishPublish ==
    /\ pc = "publish"
    /\ IF manifest = job.base
       THEN manifest' = job.final /\ pc' = "clear" /\ UNCHANGED job
       ELSE Return /\ UNCHANGED manifest
    /\ UNCHANGED <<inventory, session, files, edits, crashes>>

FinishClear ==
    /\ pc = "clear"
    /\ session' = Absent
    /\ Return
    /\ UNCHANGED <<inventory, manifest, files, edits, crashes>>

\* Mutant: a prepared sidecar is removed whether or not it was published.
recover_session_blind ==
    /\ pc = "idle" /\ load_session(TRUE) /\ session.prepared # Absent
    /\ session' = Absent
    /\ UNCHANGED <<inventory, manifest, files, pc, job, edits, crashes>>

\* A prepared sidecar goes when the manifest is exactly what it promised, is
\* valid, and shows the session's case and artifacts.
recover_session ==
    /\ pc = "idle" /\ load_session(TRUE) /\ session.prepared # Absent
    /\ manifest = session.prepared /\ manifest # session.base
    /\ verify_manifest(manifest, inventory)
    /\ manifest.cases[session.case].status \in {"pass", "fail"}
    /\ manifest.cases[session.case].arts = session.arts
    /\ session.arts \subseteq manifest.arts
    /\ session' = Absent
    /\ UNCHANGED <<inventory, manifest, files, pc, job, edits, crashes>>

---------------------------------------------------------------------------
\* The human and the power switch

\* The reviewer signs, or withdraws, the attestation.
Attest ==
    /\ manifest # Absent /\ edits < MaxEdits /\ edits' = edits + 1
    /\ manifest' = [manifest EXCEPT !.attested = ~@]
    /\ UNCHANGED <<inventory, session, files, pc, job, crashes>>

\* A different core is installed and the inventory follows.
Reinstall ==
    /\ inventory # Absent /\ edits < MaxEdits /\ edits' = edits + 1
    /\ \E b \in Builds : inventory' = [inventory EXCEPT !.core = b, !.covers = TRUE]
    /\ UNCHANGED <<manifest, session, files, pc, job, crashes>>

Crash ==
    /\ pc # "idle" /\ crashes < MaxCrashes /\ crashes' = crashes + 1
    /\ Return
    /\ UNCHANGED <<inventory, manifest, session, files, edits>>

Recorder ==
    \/ IngestLink \/ IngestRecord \/ FinishPublish \/ FinishClear

Next ==
    \/ prepare_workspace \/ generate_manifest
    \/ \E c \in Cases : start_case(c)
    \/ \E s \in Sources : ingest_artifact(s)
    \/ \E r \in {"pass", "fail"} : finish_case(r)
    \/ recover_session \/ Recorder \/ IngestInterrupted
    \/ Attest \/ Reinstall \/ Crash

Spec == Init /\ [][Next]_vars

---------------------------------------------------------------------------
\* Properties

TypeOK ==
    /\ files \subseteq Artifacts
    /\ pc \in {"idle", "link", "record", "publish", "clear"}
    /\ session # Absent => session.case \in Cases /\ session.arts \subseteq Artifacts

\* Evidence named by the manifest is on the disk with its bytes, through every
\* interrupted copy, take-back and publication of any session, and no bytes but
\* a save's are evidence twice, whatever sessions they came in by.
EvidenceSound ==
    manifest # Absent =>
        /\ manifest.arts \subseteq files
        /\ \A a, b \in manifest.arts :
              a.bytes = b.bytes /\ a.kind # "save" /\ b.kind # "save" => a = b

\* A sidecar goes only when its case stands in the manifest with exactly the
\* artifacts it collected: an interrupted finish never loses a case.
SessionEndsPublished ==
    [][session # Absent /\ session' = Absent =>
          /\ manifest.cases[session.case].status # "pending"
          /\ manifest.cases[session.case].arts = session.arts]_vars

=============================================================================
