-------------------------- MODULE QaSessionProofs --------------------------
(***************************************************************************)
(* The QA recorder for any cases, captures, needs and bounds: evidence     *)
(* stays on the disk and unique, and a sidecar goes only when its case is  *)
(* published, however often commands are interrupted and files edited.     *)
(***************************************************************************)
EXTENDS QaSession, WellFoundedInduction, TLAPS

---------------------------------------------------------------------------
\* Types

Environments == [core : Builds]
Inventories == [state : {"inventory"}, core : Builds, covers : BOOLEAN]
Entries == [status : {"pending", "pass", "fail"}, arts : SUBSET Artifacts]
Manifests == [state : {"manifest"}, env : Environments, arts : SUBSET Artifacts,
              cases : [Cases -> Entries], attested : BOOLEAN]
Sessions == [state : {"active"}, case : Cases, base : Manifests,
             inventory : Inventories, arts : SUBSET Artifacts,
             sources : SUBSET Sources, prepared : Manifests \union {Absent}]

\* What a command holds in memory depends on where it is.
Jobs ==
    /\ pc \in {"link", "record"} => job.art \in Artifacts /\ job.source \in Sources
    /\ pc = "publish" => job.final \in Manifests

Types ==
    /\ inventory \in Inventories \union {Absent}
    /\ manifest \in Manifests \union {Absent}
    /\ session \in Sessions \union {Absent}
    /\ files \subseteq Artifacts
    /\ pc \in {"idle", "link", "record", "publish", "clear"}
    /\ Jobs

---------------------------------------------------------------------------
\* The inductive invariant

Unique(arts) ==
    \A a, b \in arts :
        a.bytes = b.bytes /\ a.kind # "save" /\ b.kind # "save" => a = b

\* A session is open only beside a manifest; what it has collected is unique
\* together with what is published, so that publishing it keeps that unique.
Collected ==
    /\ manifest # Absent => Unique(manifest.arts)
    /\ session # Absent => manifest # Absent /\ Unique(manifest.arts \union session.arts)

OnDisk == manifest # Absent => manifest.arts \subseteq files

\* The file being copied is not published, so taking it back is harmless, and
\* its bytes are new.
Ingesting ==
    pc \in {"link", "record"} =>
        /\ session # Absent
        /\ job.art \notin manifest.arts
        /\ job.art.kind # "save" =>
              \A b \in manifest.arts \union session.arts : b.bytes # job.art.bytes

\* Nothing is copied or taken back between the verification of the completed
\* manifest and its publication.
Finishing ==
    pc = "publish" =>
        /\ session # Absent
        /\ job.final.arts = job.base.arts \union session.arts
        /\ job.final.arts \subseteq files
        /\ job.final.cases[session.case].status # "pending"
        /\ job.final.cases[session.case].arts = session.arts

Clearing ==
    pc = "clear" =>
        /\ session # Absent
        /\ manifest.cases[session.case].status # "pending"
        /\ manifest.cases[session.case].arts = session.arts

Evidence == Types /\ Collected /\ OnDisk /\ Ingesting /\ Finishing /\ Clearing

---------------------------------------------------------------------------
\* Values

\* A file that is there is told from a missing one by its state.
LEMMA Present ==
    /\ \A m \in Manifests : m # Absent
    /\ \A s \in Sessions : s # Absent
    /\ \A i \in Inventories : i # Absent
  BY DEF Manifests, Sessions, Inventories, Absent

\* next_artifact_id: some number up to the bound plus one is free, and the
\* lowest one is chosen.
LEMMA NextId ==
    ASSUME NEW k, session.arts \subseteq Artifacts
    PROVE  next_artifact_id(k) \in 1 .. MaxArtifacts + 1
  <1> DEFINE Used(n) == \E a \in session.arts : a.kind = k /\ a.n = n
             Free == {n \in 1 .. MaxArtifacts + 1 : ~Used(n)}
  <1>1. MaxArtifacts \in Nat
    BY QaAssumption
  <1>2. MaxArtifacts + 1 \in Free
    BY <1>1 DEF Artifacts
  <1>3. PICK n \in Free : \A i \in Free : ~(<<i, n>> \in OpToRel(<, Nat))
    <2>1. Free \subseteq Nat /\ Free # {}
      BY <1>1, <1>2
    <2> HIDE DEF Free
    <2> QED BY <2>1, NatLessThanWellFounded, WFMin
  <1>4. \A i \in 1 .. n - 1 : Used(i)
    <2> SUFFICES ASSUME NEW i \in 1 .. n - 1, ~Used(i) PROVE FALSE
      OBVIOUS
    <2>1. i \in Free /\ i \in Nat /\ n \in Nat /\ i < n
      BY <1>1
    <2>2. <<i, n>> \in OpToRel(<, Nat)
      BY <2>1 DEF OpToRel
    <2> QED BY <1>3, <2>1, <2>2
  <1> QED
    BY <1>3, <1>4 DEF next_artifact_id

\* Completing a case changes its entry and adds its artifacts.
LEMMA Completion ==
    ASSUME manifest \in Manifests, session \in Sessions, NEW status \in {"pass", "fail"}
    PROVE  /\ completed(status) \in Manifests
           /\ completed(status).arts = manifest.arts \union session.arts
           /\ completed(status).cases[session.case]
                = [status |-> status, arts |-> session.arts]
  <1>1. [status |-> status, arts |-> session.arts] \in Entries
    BY DEF Sessions, Entries
  <1>2. session.case \in Cases /\ session.arts \subseteq Artifacts
    BY DEF Sessions
  <1> QED
    BY <1>1, <1>2 DEF completed, Manifests

\* Adding to a session only adds.
LEMMA Addition ==
    ASSUME session \in Sessions, NEW art \in Artifacts, NEW source \in Sources,
           session' = [session EXCEPT !.arts = @ \union {art},
                                      !.sources = @ \union {source}]
    PROVE  /\ session' \in Sessions
           /\ session'.arts = session.arts \union {art}
           /\ session'.case = session.case
  BY DEF Sessions

---------------------------------------------------------------------------
\* The steps

LEMMA InitHolds == Init => Evidence
  BY Present DEF Init, Evidence, Types, Jobs, Collected, OnDisk, Ingesting, Finishing, Clearing

\* Steps that leave the evidence and the session alone.
LEMMA QuietStep ==
    ASSUME Evidence, UNCHANGED <<manifest, session, files, pc, job>>,
           inventory' \in Inventories \union {Absent}
    PROVE  Evidence'
  BY DEF Evidence, Types, Jobs, Collected, OnDisk, Ingesting, Finishing, Clearing, Unique

LEMMA GenerateStep == Evidence /\ generate_manifest => Evidence'
  <1> SUFFICES ASSUME Evidence, generate_manifest PROVE Evidence'
    OBVIOUS
  <1>1. manifest' \in Manifests /\ manifest'.arts = {} /\ manifest' # Absent
    <2>1. Pending \in Entries
      BY DEF Pending, Entries
    <2>2. inventory \in Inventories
      BY DEF Evidence, Types, generate_manifest
    <2>3. build_environment(inventory) \in Environments
      BY <2>2 DEF build_environment, installed_core, Environments, Inventories
    <2>4. manifest' \in Manifests /\ manifest'.arts = {}
      BY <2>1, <2>3 DEF generate_manifest, Manifests
    <2> QED BY <2>4, Present
  <1>2. session = Absent /\ pc = "idle" /\ UNCHANGED <<inventory, session, files, pc, job>>
    BY DEF generate_manifest, Evidence, Collected
  <1> QED
    BY <1>1, <1>2 DEF Evidence, Types, Jobs, Collected, OnDisk, Ingesting, Finishing, Clearing, Unique

LEMMA StartStep ==
    ASSUME Evidence, NEW c \in Cases, start_case(c)
    PROVE  Evidence'
  <1>1. manifest \in Manifests /\ inventory \in Inventories
    <2>1. inventory.state = "inventory"
      BY DEF start_case, verify_manifest
    <2> QED BY <2>1 DEF start_case, Evidence, Types, Absent
  <1>2. /\ session' \in Sessions /\ session'.arts = {} /\ session' # Absent
    BY <1>1, Present DEF start_case, Sessions
  <1> QED
    BY <1>1, <1>2
    DEF start_case, Evidence, Types, Jobs, Collected, OnDisk, Ingesting, Finishing, Clearing, Unique

LEMMA IngestStep ==
    ASSUME Evidence, NEW s \in Sources, ingest_artifact(s)
    PROVE  Evidence'
  <1> DEFINE a == [case |-> session.case, kind |-> s.kind,
                   n |-> next_artifact_id(s.kind), bytes |-> s.bytes]
  <1>1. session \in Sessions /\ session # Absent
    BY DEF ingest_artifact, load_session, Evidence, Types
  <1>2. a \in Artifacts
    <2>1. a.n \in 1 .. MaxArtifacts + 1 /\ a.n <= MaxArtifacts
      BY <1>1, NextId DEF ingest_artifact, Sessions
    <2>2. a.n \in 1 .. MaxArtifacts
      BY <2>1, QaAssumption
    <2> QED BY <1>1, <2>2 DEF Artifacts, Kinds, Sessions
  <1>3. /\ job'.art = a /\ job'.source = s /\ pc' = "link"
        /\ UNCHANGED <<inventory, manifest, session, files>>
    BY DEF ingest_artifact
  <1>4. a \notin manifest.arts
    BY DEF ingest_artifact
  <1>5. a.kind # "save" => \A b \in manifest.arts \union session.arts : b.bytes # a.bytes
    BY DEF ingest_artifact, duplicate_evidence
  <1> HIDE DEF a
  <1> QED
    BY <1>1, <1>2, <1>3, <1>4, <1>5
    DEF Evidence, Types, Jobs, Collected, OnDisk, Ingesting, Finishing, Clearing, Unique

LEMMA LinkStep == Evidence /\ IngestLink => Evidence'
  BY DEF IngestLink, Evidence, Types, Jobs, Collected, OnDisk, Ingesting, Finishing, Clearing, Unique

\* What the sidecar gains is new, and what is taken back is not published.
LEMMA RecordedStep ==
    ASSUME Evidence, pc = "record", pc' = "idle", UNCHANGED <<inventory, manifest>>,
           files' \in {files, files \ {job.art}},
           \/ UNCHANGED session
           \/ session' = [session EXCEPT !.arts = @ \union {job.art},
                                         !.sources = @ \union {job.source}]
    PROVE  Evidence'
  <1>1. /\ session \in Sessions /\ session # Absent
        /\ job.art \in Artifacts /\ job.source \in Sources
        /\ job.art \notin manifest.arts
        /\ manifest # Absent /\ Unique(manifest.arts \union session.arts)
        /\ job.art.kind # "save" =>
              \A b \in manifest.arts \union session.arts : b.bytes # job.art.bytes
    BY DEF Evidence, Types, Jobs, Ingesting, Collected
  <1>2. /\ session' \in Sessions
        /\ session'.arts \in {session.arts, session.arts \union {job.art}}
    BY <1>1, Addition
  <1>3. Unique(manifest'.arts \union session'.arts)
    BY <1>1, <1>2 DEF Unique
  <1>4. manifest.arts \subseteq files'
    BY <1>1 DEF Evidence, OnDisk
  <1> QED
    BY <1>1, <1>2, <1>3, <1>4
    DEF Evidence, Types, Jobs, Collected, OnDisk, Ingesting, Finishing, Clearing

\* The completed manifest names only files that are there.
LEMMA FinishStep ==
    ASSUME Evidence, NEW status \in {"pass", "fail"}, finish_case(status)
    PROVE  Evidence'
  <1> DEFINE m == completed(status)
  <1>1. session \in Sessions /\ session # Absent /\ manifest \in Manifests
    BY DEF finish_case, load_session, Evidence, Types, Collected
  <1>2. /\ m \in Manifests
        /\ m.arts = manifest.arts \union session.arts
        /\ m.cases[session.case].status # "pending"
        /\ m.cases[session.case].arts = session.arts
    BY <1>1, Completion
  <1>3. m.arts \subseteq files
    BY DEF finish_case, verify_manifest, manifest_artifact
  <1> HIDE DEF m
  <1>4. /\ session' \in Sessions
        /\ session'.arts = session.arts /\ session'.case = session.case
    <2>1. session' = [session EXCEPT !.prepared = m]
      BY DEF finish_case, m
    <2> QED BY <1>1, <1>2, <2>1 DEF Sessions
  <1>5. /\ job'.final = m /\ job'.base = manifest /\ pc' = "publish"
        /\ UNCHANGED <<inventory, manifest, files>>
    BY DEF finish_case, m
  <1> QED
    BY <1>1, <1>2, <1>3, <1>4, <1>5, Present
    DEF Evidence, Types, Jobs, Collected, OnDisk, Ingesting, Finishing, Clearing

LEMMA PublishStep == Evidence /\ FinishPublish => Evidence'
  BY Present
  DEF FinishPublish, Return, Evidence, Types, Jobs, Collected, OnDisk, Ingesting, Finishing,
      Clearing, Unique

LEMMA ClosedStep ==
    ASSUME Evidence, session' = Absent, pc' = "idle", UNCHANGED <<inventory, manifest, files>>
    PROVE  Evidence'
  BY DEF Evidence, Types, Jobs, Collected, OnDisk, Ingesting, Finishing, Clearing

\* The attestation is not evidence.
LEMMA AttestStep == Evidence /\ Attest => Evidence'
  <1> SUFFICES ASSUME Evidence, Attest PROVE Evidence'
    OBVIOUS
  <1>1. /\ manifest' \in Manifests
        /\ manifest'.arts = manifest.arts /\ manifest'.cases = manifest.cases
    BY DEF Attest, Evidence, Types, Manifests
  <1>2. manifest' # Absent /\ manifest # Absent /\ UNCHANGED <<inventory, session, files, pc, job>>
    BY <1>1, Present DEF Attest
  <1> QED
    BY <1>1, <1>2
    DEF Evidence, Types, Jobs, Collected, OnDisk, Ingesting, Finishing, Clearing

LEMMA StoppedStep ==
    ASSUME Evidence, pc' = "idle", UNCHANGED <<inventory, manifest, session, files>>
    PROVE  Evidence'
  BY DEF Evidence, Types, Jobs, Collected, OnDisk, Ingesting, Finishing, Clearing

LEMMA NextStep == Evidence /\ [Next]_vars => Evidence'
  <1> SUFFICES ASSUME Evidence, [Next]_vars PROVE Evidence'
    OBVIOUS
  <1>1. CASE prepare_workspace
    <2>1. inventory' \in Inventories
      BY <1>1 DEF prepare_workspace, rename_noreplace, Inventories
    <2> QED BY <1>1, <2>1, QuietStep DEF prepare_workspace
  <1>2. CASE generate_manifest
    BY <1>2, GenerateStep
  <1>3. CASE \E c \in Cases : start_case(c)
    BY <1>3, StartStep
  <1>4. CASE \E s \in Sources : ingest_artifact(s)
    BY <1>4, IngestStep
  <1>5. CASE \E r \in {"pass", "fail"} : finish_case(r)
    BY <1>5, FinishStep
  <1>6. CASE recover_session
    <2>1. pc' = "idle"
      BY <1>6 DEF recover_session
    <2> QED BY <1>6, <2>1, ClosedStep DEF recover_session
  <1>7. CASE IngestLink
    BY <1>7, LinkStep
  <1>8. CASE IngestRecord
    BY <1>8, RecordedStep DEF IngestRecord, Return
  <1>9. CASE IngestInterrupted
    BY <1>9, RecordedStep DEF IngestInterrupted, Return
  <1>10. CASE FinishPublish
    BY <1>10, PublishStep
  <1>11. CASE FinishClear
    BY <1>11, ClosedStep DEF FinishClear, Return
  <1>12. CASE Attest
    BY <1>12, AttestStep
  <1>13. CASE Reinstall
    <2>1. inventory' \in Inventories
      BY <1>13 DEF Reinstall, Evidence, Types, Inventories
    <2> QED BY <1>13, <2>1, QuietStep DEF Reinstall
  <1>14. CASE Crash
    BY <1>14, StoppedStep DEF Crash, Return
  <1>15. CASE UNCHANGED vars
    BY <1>15, QuietStep DEF vars, Evidence, Types
  <1> QED
    BY <1>1, <1>2, <1>3, <1>4, <1>5, <1>6, <1>7, <1>8, <1>9, <1>10, <1>11, <1>12,
       <1>13, <1>14, <1>15 DEF Next, Recorder

---------------------------------------------------------------------------
\* The theorems

\* Wherever the recorder is stopped, its files and its own memory agree: the
\* invariant behind the theorems below.
THEOREM Inductive == Spec => []Evidence
  BY InitHolds, NextStep, PTL DEF Spec

\* Every file, record and position of the recorder has its type, whatever
\* pocket_hardware_qa_session.py was doing when it was stopped.
THEOREM TypeCorrect == Spec => []TypeOK
  <1>1. Evidence => TypeOK
    BY DEF Evidence, Types, TypeOK, Sessions
  <1> QED BY <1>1, Inductive, PTL

\* pocket_hardware_qa_session.py: what the manifest names is on the disk and
\* is no other evidence's bytes.
THEOREM EvidenceStaysSound == Spec => []EvidenceSound
  <1>1. Evidence => EvidenceSound
    BY DEF Evidence, OnDisk, Collected, Unique, EvidenceSound
  <1> QED BY <1>1, Inductive, PTL

\* finish_case and recover_session: a sidecar is removed only when its case is
\* in the manifest as the session collected it.
THEOREM SessionsEndPublished == Spec => SessionEndsPublished
  <1> DEFINE Ended == session # Absent /\ session' = Absent
             Kept == /\ manifest.cases[session.case].status # "pending"
                     /\ manifest.cases[session.case].arts = session.arts
  <1>1. Evidence /\ [Next]_vars => [Ended => Kept]_vars
    <2> SUFFICES ASSUME Evidence, Next, Ended PROVE Kept
      BY DEF vars
    <2>1. CASE FinishClear
      BY <2>1 DEF FinishClear, Evidence, Clearing
    <2>2. CASE recover_session
      BY <2>2 DEF recover_session
    <2>3. CASE \E c \in Cases : start_case(c)
      BY <2>3 DEF start_case
    <2>4. CASE \E r \in {"pass", "fail"} : finish_case(r)
      <3>1. PICK r \in {"pass", "fail"} : finish_case(r)
        BY <2>4
      <3>2. session \in Sessions
        BY DEF Evidence, Types
      <3>3. session'.state = "active"
        BY <3>1, <3>2 DEF finish_case, Sessions
      <3> QED BY <3>3 DEF Absent
    <2>5. CASE IngestRecord \/ IngestInterrupted
      <3>1. /\ session \in Sessions /\ job.art \in Artifacts /\ job.source \in Sources
        BY <2>5 DEF IngestRecord, IngestInterrupted, Evidence, Types, Jobs
      <3>2. \/ UNCHANGED session
            \/ session' = [session EXCEPT !.arts = @ \union {job.art},
                                          !.sources = @ \union {job.source}]
        BY <2>5 DEF IngestRecord, IngestInterrupted
      <3> QED BY <3>1, <3>2, Addition, Present
    <2> QED
      BY <2>1, <2>2, <2>3, <2>4, <2>5
      DEF Next, Recorder, prepare_workspace, generate_manifest, ingest_artifact, IngestLink,
          FinishPublish, Attest, Reinstall, Crash
  <1> QED
    BY <1>1, Inductive, PTL DEF Spec, SessionEndsPublished

=============================================================================
