----------------------------- MODULE LabProofs -----------------------------
(***************************************************************************)
(* The lab for any list of resources, any number of launches, rearms,      *)
(* pushes and crashes: no live resource and no request under way is ever   *)
(* forgotten, no create is sent twice under one nonce, and a dispatched    *)
(* run builds the commit it was asked for.                                 *)
(***************************************************************************)
EXTENDS Lab, TLAPS

Run == "workflow_run"
InfraKinds == {"tag", "firewall", "volume", "droplet"}

---------------------------------------------------------------------------
\* Types

Phases == {"absent", "creating", "preparing-quartus", "installing-runner", "ready",
           "dispatched", "failed", "destroy-failed"}
Labels == {"idle", "mark", "send", "await", "record", "boot", "prepare", "install",
           "register", "service", "online", "rotate", "stop", "verify", "cancel",
           "d_recover", "d_cancel", "d_delete", "d_finish"}
Files == [phase : Phases, commit : Nat, suffix : Nat, nonce : Nat, rname : Nat,
          id : [Kinds -> Nat], pending : SUBSET Kinds, branch : Branches, sha : Nat]
Resources == [kind : Kinds, name : Nat, nonce : Nat, branch : Branches, sha : Nat,
              status : {"new", "queued", "running", "completed"}]

Types ==
    /\ file \in Files /\ mem \in Files
    /\ pc \in Labels /\ kind \in Kinds /\ errors \in BOOLEAN
    /\ cloud \subseteq Resources /\ flight \subseteq Resources
    /\ heads \in [Branches -> Nat] /\ nonces \in Nat

---------------------------------------------------------------------------
\* The inductive invariant.  First what relates the state file to the cloud,
\* wherever the running command is.

\* The file carries the newest nonce, and nothing carries a newer one.
Nonces ==
    /\ file.phase = "absent" => file = NoFile
    /\ file.phase # "absent" => file.nonce = nonces /\ nonces > 0
    /\ \A r \in cloud \union flight : r.nonce \in 1 .. nonces

\* Only runs have a life of their own; a run is named by its nonce.
Lives ==
    /\ \A r \in cloud \union flight : r.kind = Run => r.name = r.nonce
    /\ \A r \in cloud : r.kind # Run => r.status = "new"
    /\ \A q \in flight : q.status = "new"

Known(r) ==
    /\ file.phase # "absent"
    /\ \/ file.id[r.kind] = r.nonce
       \/ /\ r.kind \in file.pending
          /\ r.name = resource_names(file, r.kind) /\ r.nonce = file.nonce

\* What is live or of the present nonce is known; a request under way is
\* pending, and what is pending has no ID yet.
Recorded ==
    /\ \A r \in cloud : r.status # "completed" \/ r.nonce = file.nonce => Known(r)
    /\ \A q \in flight : q.kind \in file.pending /\ q.nonce = file.nonce
                         /\ q.name = resource_names(file, q.kind)
    /\ \A k \in file.pending : file.id[k] = None

SameRequest(r, q) == r.kind = q.kind /\ r.nonce = q.nonce

\* One request has one outcome.
Single ==
    /\ \A r, q \in cloud : SameRequest(r, q) => r = q
    /\ \A r, q \in flight : SameRequest(r, q) => r = q
    /\ \A r \in cloud, q \in flight : ~SameRequest(r, q)

Books == Nonces /\ Lives /\ Recorded /\ Single

---------------------------------------------------------------------------
\* Then what the running command relies on.

\* A command works on a copy of the file that differs by what it has learnt.
Copies ==
    /\ pc # "idle" => file.phase # "absent"
    /\ pc \notin {"record", "rotate"} => mem = file
    /\ pc = "record" => mem = [file EXCEPT !.id[kind] = file.nonce]
    /\ pc = "rotate" => mem = [file EXCEPT !.commit = mem.commit]

\* l comes after k in the order in which launch creates them.
Later(k, l) ==
    \E i, j \in 1 .. Len(Infra) : i < j /\ Infra[i] = k /\ Infra[j] = l

Unasked(k) ==
    /\ file.id[k] = None
    /\ \A r \in cloud \union flight : r.kind = k => r.nonce # file.nonce

\* A create leaves only if none like it has left, and it is pending by then.
Asking ==
    /\ pc \in {"mark", "send"} => Unasked(kind)
    /\ pc \in {"send", "await", "record"} => kind \in file.pending
    /\ pc = "record" => \A q \in flight : q.kind # kind
    /\ pc \in {"mark", "send", "await", "record"} =>
          \A l \in Kinds : Later(kind, l) => Unasked(l)

\* rearm rotates the nonce only when nothing of the old one is left to lose.
Rearming ==
    pc = "rotate" =>
        /\ file.pending = {}
        /\ \A r \in cloud : r.kind # "runner" /\ (r.kind = Run => r.status = "completed")

\* destroy has seen off what it has passed, or knows of an error.
Emptying ==
    /\ pc \in {"d_cancel", "d_delete", "d_finish"} => file.pending = {}
    /\ pc \in {"d_delete", "d_finish"} =>
          \A r \in cloud : r.kind = Run => r.status = "completed"
    /\ pc = "d_delete" =>
          /\ kind # Run
          /\ ~errors => \A r \in cloud :
                r.kind = Run \/ kind = "runner" \/ r.kind = kind \/ Later(r.kind, kind)
    /\ pc = "d_finish" /\ ~errors => \A r \in cloud : r.kind = Run

Progress == Copies /\ Asking /\ Rearming /\ Emptying

LabInv == Types /\ Books /\ Progress

---------------------------------------------------------------------------
\* Resources and files

LEMMA KindFacts ==
    /\ \A i \in 1 .. Len(Infra) : Infra[i] \in InfraKinds /\ Infra[i] \in Kinds
    /\ Len(Infra) \in Nat /\ Len(Infra) > 0 /\ Infra[1] \in Kinds
    /\ Run \in Kinds /\ "runner" \in Kinds
    /\ \A k \in Kinds : k = Run \/ k = "runner" \/ \E i \in 1 .. Len(Infra) : Infra[i] = k
    /\ \A k, l : Later(k, l) => k \in InfraKinds /\ l \in InfraKinds
    /\ Run \notin InfraKinds /\ "runner" \notin InfraKinds
  BY LabAssumption DEF Kinds, Run, InfraKinds, Later

LEMMA NoFileFacts == NoFile \in Files /\ NoFile.phase = "absent" /\ NoFile.nonce = None
  BY DEF NoFile, Files, Phases, Branches, None

LEMMA RequestFacts ==
    ASSUME NEW s \in Files, NEW k \in Kinds
    PROVE  /\ resource_names(s, k) \in Nat
           /\ Request(s, k) \in Resources
           /\ Request(s, k).kind = k /\ Request(s, k).nonce = s.nonce
           /\ Request(s, k).name = resource_names(s, k) /\ Request(s, k).status = "new"
  <1>1. resource_names(s, k) \in Nat
    BY DEF resource_names, Files
  <1> QED
    BY <1>1 DEF Request, Files, Resources, None

\* The file keeps its records: IDs, pending creates and names.
Keeps ==
    \/ file' = file
    \/ /\ file' \in Files /\ file.phase # "absent" /\ file'.phase # "absent"
       /\ file'.id = file.id /\ file'.pending = file.pending
       /\ file'.nonce = file.nonce /\ file'.suffix = file.suffix
       /\ file'.rname = file.rname

\* The cloud only loses resources and ends or starts runs.
Dwindles ==
    /\ cloud' \subseteq Resources
    /\ \A r \in cloud' : \E q \in cloud :
          /\ SameRequest(r, q) /\ r.name = q.name
          /\ q.status = "completed" => r.status = "completed"
          /\ q.kind # Run => r = q
    /\ \A r, q \in cloud' : SameRequest(r, q) => r = q

LEMMA SameNames ==
    ASSUME Types, Keeps, NEW k
    PROVE  resource_names(file', k) = resource_names(file, k)
  BY DEF Keeps, resource_names

LEMMA BooksKept ==
    ASSUME Types, Books, Keeps, Dwindles, UNCHANGED <<flight, nonces>>
    PROVE  Books'
  <1>1. Nonces'
    BY DEF Books, Nonces, Keeps, Dwindles, SameRequest
  <1>2. Lives'
    BY DEF Books, Lives, Keeps, Dwindles, SameRequest
  <1>3. Recorded'
    BY SameNames DEF Types, Books, Recorded, Known, Keeps, Dwindles, SameRequest
  <1>4. Single'
    BY DEF Books, Single, Dwindles, SameRequest
  <1> QED
    BY <1>1, <1>2, <1>3, <1>4 DEF Books

LEMMA CloudKept ==
    ASSUME Types, Books, UNCHANGED cloud
    PROVE  Dwindles
  BY DEF Types, Books, Single, Dwindles, SameRequest

\* Cancelling runs ends them and takes runners away.
LEMMA CancelDwindles ==
    ASSUME Types, Books, NEW R \in SUBSET cloud, \A r \in R : r.kind = Run, Cancelled(R)
    PROVE  /\ Dwindles
           /\ \A r \in cloud' :
                 \/ r \in cloud /\ r \notin R
                 \/ r.status = "completed" /\ r.kind = Run
  <1> DEFINE Ended(r) == [r EXCEPT !.status = "completed"]
  <1>1. \A r \in R : /\ Ended(r) \in Resources /\ SameRequest(Ended(r), r)
                     /\ Ended(r).name = r.name /\ Ended(r).status = "completed"
                     /\ Ended(r).kind = Run
    BY DEF Types, Resources, SameRequest
  <1>2. \A r \in cloud' : (r \in cloud /\ r \notin R) \/ \E q \in R : r = Ended(q)
    BY DEF Cancelled
  <1> HIDE DEF Ended
  <1>3. \A r, q \in cloud' : SameRequest(r, q) => r = q
    BY <1>1, <1>2 DEF Types, Books, Single, SameRequest
  <1>4. cloud' \subseteq Resources
    BY <1>1, <1>2 DEF Types
  <1>5. ASSUME NEW q \in R
        PROVE  /\ q \in cloud /\ q.kind = Run
               /\ SameRequest(Ended(q), q) /\ Ended(q).name = q.name
               /\ Ended(q).status = "completed" /\ Ended(q).kind = Run
    BY <1>1
  <1>6. \A r \in cloud' : \E q \in cloud :
          /\ SameRequest(r, q) /\ r.name = q.name
          /\ q.status = "completed" => r.status = "completed"
          /\ q.kind # Run => r = q
    <2> TAKE r \in cloud'
    <2>1. CASE r \in cloud /\ r \notin R
      BY <2>1 DEF SameRequest
    <2>2. CASE \E q \in R : r = Ended(q)
      <3>1. PICK q \in R : r = Ended(q)
        BY <2>2
      <3> QED BY <3>1, <1>5
    <2> QED BY <1>2, <2>1, <2>2
  <1> QED
    BY <1>2, <1>3, <1>4, <1>5, <1>6 DEF Dwindles

---------------------------------------------------------------------------
\* Steps that record nothing new

Plain == Labels \ {"mark", "send", "await", "record", "rotate", "d_cancel", "d_delete", "d_finish"}

\* A command moves on, stops or is stopped, with its records as they are.
LEMMA PlainStep ==
    ASSUME LabInv, Keeps, Dwindles, UNCHANGED <<flight, heads, nonces>>,
           mem' = file', pc' \in Plain, pc' = "idle" \/ file'.phase # "absent",
           kind' \in Kinds, errors' \in BOOLEAN
    PROVE  LabInv'
  <1>1. Types'
    BY DEF LabInv, Types, Keeps, Dwindles, Plain
  <1>2. Books'
    BY BooksKept DEF LabInv
  <1>3. Progress'
    BY DEF Progress, Copies, Asking, Rearming, Emptying, Plain
  <1> QED BY <1>1, <1>2, <1>3 DEF LabInv

\* The environment acts beside the command.
LEMMA BesideStep ==
    ASSUME LabInv, Dwindles, heads' \in [Branches -> Nat],
           UNCHANGED <<file, mem, pc, kind, errors, flight, nonces>>
    PROVE  LabInv'
  <1>1. Types'
    BY DEF LabInv, Types, Dwindles
  <1>2. Books'
    BY BooksKept DEF LabInv, Keeps
  <1>3. Copies'
    BY DEF LabInv, Progress, Copies
  <1>4. Asking'
    BY DEF LabInv, Progress, Asking, Unasked, Dwindles, SameRequest, Later
  <1>5. Rearming' /\ Emptying'
    BY DEF LabInv, Progress, Rearming, Emptying, Dwindles, SameRequest, Later
  <1> QED BY <1>1, <1>2, <1>3, <1>4, <1>5 DEF LabInv, Progress

\* What Exit, Abort and Stopped leave behind.
LEMMA ExitFacts ==
    /\ Exit => pc' \in Plain /\ pc' = "idle" /\ kind' \in Kinds /\ errors' \in BOOLEAN
    /\ Abort => Exit /\ mem' = file' /\ file' = file
  BY KindFacts DEF Exit, Abort, Plain, Labels

LEMMA SavedPhase ==
    ASSUME LabInv, NEW p \in Phases, p # "absent", file.phase # "absent",
           NEW s \in {file, mem}, s = file, save_state([s EXCEPT !.phase = p])
    PROVE  Keeps /\ mem' = file' /\ file'.phase # "absent"
  BY DEF LabInv, Types, Files, save_state, Keeps

LEMMA Aborted ==
    ASSUME LabInv, Abort, Dwindles, UNCHANGED <<flight, heads, nonces>>
    PROVE  LabInv'
  BY ExitFacts, PlainStep DEF Keeps

LEMMA StoppedHere ==
    ASSUME LabInv, Stopped, Dwindles, pc \notin {"idle", "record", "rotate"},
           UNCHANGED <<flight, heads, nonces>>
    PROVE  LabInv'
  <1>1. mem = file /\ file.phase # "absent"
    BY DEF LabInv, Progress, Copies
  <1>2. "failed" \in Phases
    BY DEF Phases
  <1>3. Keeps /\ mem' = file' /\ file'.phase # "absent"
    BY <1>1, <1>2, SavedPhase DEF Stopped
  <1> QED BY <1>3, ExitFacts, PlainStep DEF Stopped

LEMMA SavedHere ==
    ASSUME LabInv, NEW p \in Phases, p # "absent",
           pc \notin {"idle", "record", "rotate"}, save_state([mem EXCEPT !.phase = p]),
           pc' \in Plain, kind' \in Kinds, errors' \in BOOLEAN,
           UNCHANGED <<cloud, flight, heads, nonces>>
    PROVE  LabInv'
  <1>1. mem = file /\ file.phase # "absent"
    BY DEF LabInv, Progress, Copies
  <1>2. Keeps /\ mem' = file' /\ file'.phase # "absent"
    BY <1>1, SavedPhase
  <1> QED BY <1>2, PlainStep, CloudKept DEF LabInv

LEMMA MovedOn ==
    ASSUME LabInv, pc \notin {"idle", "record", "rotate"}, pc' \in Plain, kind' \in Kinds,
           UNCHANGED <<file, mem, errors, flight, heads, nonces>>, Dwindles
    PROVE  LabInv'
  <1>1. mem = file /\ file.phase # "absent"
    BY DEF LabInv, Progress, Copies
  <1> QED BY <1>1, PlainStep DEF Keeps, LabInv, Types

LEMMA CreateFailedStep == LabInv /\ CreateFailed => LabInv'
  BY Aborted, StoppedHere, CloudKept DEF CreateFailed, Raise, Quiet, LabInv

LEMMA LaunchStages ==
    ASSUME LabInv, wait_for_ssh \/ prepare_remote \/ install_runner \/ wait_runner_online
    PROVE  LabInv'
  <1>1. {"preparing-quartus", "installing-runner", "ready"} \subseteq Phases \ {"absent"}
    BY DEF Phases
  <1>2. {"prepare", "install", "register", "idle"} \subseteq Plain
    BY DEF Plain, Labels
  <1>3. kind \in Kinds /\ errors \in BOOLEAN /\ (UNCHANGED cloud => Dwindles)
    BY CloudKept DEF LabInv, Types
  <1>4. CASE wait_for_ssh
    BY <1>1, <1>2, <1>3, <1>4, SavedHere, StoppedHere DEF wait_for_ssh, Goto, Quiet
  <1>5. CASE prepare_remote
    BY <1>1, <1>2, <1>3, <1>5, SavedHere, StoppedHere DEF prepare_remote, Goto
  <1>6. CASE install_runner
    BY <1>2, <1>3, <1>6, MovedOn, StoppedHere DEF install_runner, Goto, Quiet
  <1>7. CASE wait_runner_online
    BY <1>1, <1>2, <1>3, <1>7, SavedHere, StoppedHere, ExitFacts DEF wait_runner_online, Quiet
  <1> QED BY <1>4, <1>5, <1>6, <1>7

LEMMA ServiceStep == LabInv /\ start_service => LabInv'
  <1> SUFFICES ASSUME LabInv, start_service PROVE LabInv'
    OBVIOUS
  <1>1. "online" \in Plain /\ kind \in Kinds
    BY DEF Plain, Labels, LabInv, Types
  <1>2. ASSUME cloud' \in {cloud, cloud \ Ours(mem, "runner")} PROVE Dwindles
    BY <1>2 DEF LabInv, Types, Books, Single, Dwindles, SameRequest
  <1>3. CASE UNCHANGED <<file, mem, kind, errors, cloud>> /\ Goto("online")
    BY <1>1, <1>2, <1>3, MovedOn DEF start_service, Goto
  <1>4. CASE Stopped /\ cloud' \in {cloud, cloud \ Ours(mem, "runner")}
    BY <1>2, <1>4, StoppedHere DEF start_service
  <1> QED BY <1>3, <1>4 DEF start_service

LEMMA ResumeStep == LabInv /\ resume => LabInv'
  <1> SUFFICES ASSUME LabInv, resume PROVE LabInv'
    OBVIOUS
  <1>1. "installing-runner" \in Phases \ {"absent"} /\ "install" \in Plain /\ "runner" \in Kinds
    BY KindFacts DEF Phases, Plain, Labels
  <1>2. Keeps /\ mem' = file' /\ file'.phase # "absent"
    BY <1>1, SavedPhase DEF resume
  <1> QED
    BY <1>1, <1>2, PlainStep, CloudKept DEF resume, Goto, Quiet, LabInv, Types

LEMMA StorageSteps == LabInv /\ (warm_storage \/ StopDocker) => LabInv'
  <1> SUFFICES ASSUME LabInv, warm_storage \/ StopDocker PROVE LabInv'
    OBVIOUS
  <1>1. Dwindles /\ Keeps /\ pc' \in Plain /\ kind' \in Kinds /\ errors' \in BOOLEAN
    BY CloudKept, KindFacts
    DEF warm_storage, StopDocker, Quiet, Goto, Exit, Plain, Labels, Keeps, LabInv, Types
  <1>2. mem' = file' /\ (pc' = "idle" \/ file'.phase # "absent")
    BY DEF warm_storage, StopDocker, Goto, Exit, LabInv, Progress, Copies
  <1> QED
    BY <1>1, <1>2, PlainStep DEF warm_storage, StopDocker, Quiet

LEMMA AdoptStep == LabInv /\ AdoptDispatch => LabInv'
  <1> SUFFICES ASSUME LabInv, AdoptDispatch PROVE LabInv'
    OBVIOUS
  <1>1. "dispatched" \in Phases \ {"absent"} /\ "idle" \in Plain
    BY DEF Phases, Plain, Labels
  <1>2. Keeps /\ mem' = file' /\ file'.phase # "absent"
    BY <1>1, SavedPhase DEF AdoptDispatch
  <1> QED
    BY <1>1, <1>2, PlainStep, CloudKept DEF AdoptDispatch, Quiet, LabInv, Types

LEMMA VerifyStep == LabInv /\ VerifyDispatch => LabInv'
  <1> SUFFICES ASSUME LabInv, VerifyDispatch PROVE LabInv'
    OBVIOUS
  <1>1. "dispatched" \in Phases \ {"absent"} /\ "cancel" \in Plain /\ kind \in Kinds
    BY DEF Phases, Plain, Labels, LabInv, Types
  <1>2. Dwindles
    BY CloudKept DEF VerifyDispatch, Quiet, LabInv
  <1>3. CASE save_state([mem EXCEPT !.phase = "dispatched"]) /\ Exit
    BY <1>1, <1>3, SavedHere, ExitFacts DEF VerifyDispatch, Quiet
  <1>4. CASE Goto("cancel") /\ UNCHANGED <<file, mem, kind, errors>>
    BY <1>1, <1>2, <1>4, MovedOn DEF VerifyDispatch, Quiet, Goto
  <1> QED BY <1>3, <1>4 DEF VerifyDispatch

LEMMA DestroyStep == LabInv /\ destroy => LabInv'
  <1> SUFFICES ASSUME LabInv, destroy PROVE LabInv'
    OBVIOUS
  <1>1. "d_recover" \in Plain
    BY DEF Plain, Labels
  <1> QED
    BY <1>1, PlainStep, CloudKept DEF destroy, Quiet, Goto, Keeps, LabInv, Types

LEMMA StoppedSteps == LabInv /\ (LookupFailed \/ Crash) => LabInv'
  BY Aborted, CloudKept DEF LookupFailed, Crash, Quiet, LabInv

LEMMA PushStep ==
    ASSUME LabInv, NEW b \in Branches, Push(b)
    PROVE  LabInv'
  <1>1. heads' \in [Branches -> Nat]
    BY LabAssumption DEF Push, LabInv, Types
  <1> QED BY <1>1, BesideStep, CloudKept DEF Push, LabInv

LEMMA JobSteps ==
    ASSUME LabInv, NEW r \in cloud, JobStart(r) \/ JobEnd(r)
    PROVE  LabInv'
  <1>1. r \in Resources /\ heads' \in [Branches -> Nat]
    BY DEF LabInv, Types, JobStart, JobEnd
  <1>2. CASE JobStart(r)
    <2> DEFINE s == [r EXCEPT !.status = "running"]
    <2>1. /\ s \in Resources /\ SameRequest(s, r) /\ s.name = r.name
          /\ r.status # "completed" /\ r.kind = Run
      BY <1>1, <1>2 DEF JobStart, Resources, SameRequest, Run
    <2>2. cloud' = (cloud \ {r}) \union {s}
      BY <1>2 DEF JobStart
    <2> HIDE DEF s
    <2>3. Dwindles
      BY <2>1, <2>2 DEF LabInv, Types, Books, Single, Dwindles, SameRequest
    <2> QED BY <1>1, <1>2, <2>3, BesideStep DEF JobStart
  <1>3. CASE JobEnd(r)
    <2>1. r.kind = Run
      BY <1>3 DEF JobEnd, LabInv, Books, Lives
    <2>2. Dwindles
      BY <1>3, <2>1, CancelDwindles DEF JobEnd, LabInv
    <2> QED BY <1>1, <1>3, <2>2, BesideStep DEF JobEnd
  <1> QED BY <1>2, <1>3


---------------------------------------------------------------------------
\* The create protocol

LEMMA NamesOf ==
    ASSUME NEW s, NEW t, t.rname = s.rname, t.nonce = s.nonce, t.suffix = s.suffix, NEW k
    PROVE  resource_names(t, k) = resource_names(s, k)
  BY DEF resource_names

\* launch asks in the order of its list, each kind once.
LEMMA Order ==
    ASSUME NEW i \in 1 .. Len(Infra)
    PROVE  /\ After(Infra[i]) = IF i < Len(Infra) THEN Infra[i + 1] ELSE "runner"
           /\ Before(Infra[i]) = IF i > 1 THEN Infra[i - 1] ELSE "none"
           /\ \A l : Later(Infra[i], l) <=> \E j \in 1 .. Len(Infra) : i < j /\ Infra[j] = l
           /\ \A l : Later(l, Infra[i]) <=> \E j \in 1 .. Len(Infra) : j < i /\ Infra[j] = l
           /\ Infra[i] # "runner" /\ Infra[i] # Run /\ Infra[i] # "none"
  <1>1. (CHOOSE n \in 1 .. Len(Infra) : Infra[n] = Infra[i]) = i
    BY LabAssumption
  <1>2. Infra[i] # "runner" /\ Infra[i] # Run /\ Infra[i] # "none"
    BY KindFacts DEF InfraKinds, Run
  <1>3. /\ \A l : Later(Infra[i], l) <=> \E j \in 1 .. Len(Infra) : i < j /\ Infra[j] = l
        /\ \A l : Later(l, Infra[i]) <=> \E j \in 1 .. Len(Infra) : j < i /\ Infra[j] = l
    BY LabAssumption DEF Later
  <1>4. After(Infra[i]) = IF i < Len(Infra) THEN Infra[i + 1] ELSE "runner"
    BY <1>1 DEF After
  <1>5. Before(Infra[i]) = IF i > 1 THEN Infra[i - 1] ELSE "none"
    BY <1>1, <1>2 DEF Before
  <1> QED BY <1>2, <1>3, <1>4, <1>5

\* A record saved as pending, with whatever else the file says of the run.
LEMMA MarkedBooks ==
    ASSUME Types, Books, NEW k \in Kinds, Unasked(k), file.phase # "absent",
           file' \in Files, file'.phase # "absent", file'.id = file.id,
           file'.nonce = file.nonce, file'.suffix = file.suffix,
           file'.rname = file.rname, file'.pending = file.pending \union {k},
           UNCHANGED <<cloud, flight, nonces>>
    PROVE  Books' /\ Unasked(k)'
  <1>1. \A l : resource_names(file', l) = resource_names(file, l)
    BY NamesOf
  <1>2. Nonces' /\ Lives' /\ Single'
    BY DEF Books, Nonces, Lives, Single, SameRequest
  <1>3. Recorded'
    BY <1>1 DEF Books, Recorded, Known, Unasked
  <1> QED BY <1>2, <1>3 DEF Books, Unasked

LEMMA MarkStep == LabInv /\ mark_pending => LabInv'
  <1> SUFFICES ASSUME LabInv, mark_pending PROVE LabInv'
    OBVIOUS
  <1>1. /\ mem = file /\ file.phase # "absent" /\ Unasked(kind) /\ kind \in Kinds
        /\ \A l \in Kinds : Later(kind, l) => Unasked(l)
    BY DEF mark_pending, LabInv, Types, Progress, Copies, Asking
  <1>2. /\ file' = [file EXCEPT !.pending = @ \union {kind}] /\ mem' = file'
        /\ pc' = "send" /\ kind' = kind
        /\ UNCHANGED <<errors, cloud, flight, heads, nonces>>
    BY <1>1 DEF mark_pending, save_state, Goto, Quiet
  <1>3. /\ file' \in Files /\ file'.phase # "absent" /\ file'.id = file.id
        /\ file'.nonce = file.nonce /\ file'.suffix = file.suffix
        /\ file'.rname = file.rname /\ file'.pending = file.pending \union {kind}
    BY <1>1, <1>2 DEF LabInv, Types, Files
  <1>4. Types'
    BY <1>2, <1>3 DEF LabInv, Types, Labels
  <1>5. Books' /\ Unasked(kind)'
    BY <1>1, <1>2, <1>3, MarkedBooks DEF LabInv
  <1>6. Progress'
    BY <1>1, <1>2, <1>3, <1>5 DEF Progress, Copies, Asking, Rearming, Emptying, Unasked, Later
  <1> QED BY <1>4, <1>5, <1>6 DEF LabInv

LEMMA SendStep == LabInv /\ SendCreate => LabInv'
  <1> SUFFICES ASSUME LabInv, SendCreate PROVE LabInv'
    OBVIOUS
  <1> DEFINE q == Request(file, kind)
  <1>1. /\ mem = file /\ file \in Files /\ file.phase # "absent" /\ kind \in Kinds
        /\ Unasked(kind) /\ kind \in file.pending
        /\ \A l \in Kinds : Later(kind, l) => Unasked(l) /\ l # kind
    BY LabAssumption DEF SendCreate, LabInv, Types, Progress, Copies, Asking, Later
  <1>2. /\ q \in Resources /\ q.kind = kind /\ q.nonce = file.nonce
        /\ q.name = resource_names(file, kind) /\ q.status = "new"
    BY <1>1, RequestFacts
  <1>3. kind = Run => q.name = file.nonce
    BY <1>2 DEF resource_names, Run
  <1>4. /\ flight' = flight \union {q} /\ pc' = "await"
        /\ UNCHANGED <<file, mem, kind, errors, cloud, heads, nonces>>
    BY <1>1 DEF SendCreate, Goto
  <1> HIDE DEF q
  <1>5. Types'
    BY <1>2, <1>4 DEF LabInv, Types, Labels
  <1>6. Nonces' /\ Lives'
    BY <1>1, <1>2, <1>3, <1>4 DEF LabInv, Types, Books, Nonces, Lives
  <1>7. Recorded'
    BY <1>1, <1>2, <1>4 DEF LabInv, Books, Recorded, Known
  <1>8. Single'
    BY <1>1, <1>2, <1>4 DEF LabInv, Books, Single, SameRequest, Unasked
  <1>9. Progress'
    BY <1>1, <1>2, <1>4 DEF LabInv, Progress, Copies, Asking, Rearming, Emptying, Unasked, Later
  <1> QED BY <1>5, <1>6, <1>7, <1>8, <1>9 DEF LabInv, Books

LEMMA ReplyStep == LabInv /\ CreateReply => LabInv'
  <1> SUFFICES ASSUME LabInv, CreateReply PROVE LabInv'
    OBVIOUS
  <1>1. /\ mem = file /\ file \in Files /\ file.phase # "absent" /\ kind \in Kinds
        /\ kind \in file.pending
        /\ \A l \in Kinds : Later(kind, l) => Unasked(l)
    BY DEF CreateReply, LabInv, Types, Progress, Copies, Asking
  <1>2. PICK r \in cloud : r.kind = kind /\ r.nonce = file.nonce
    BY <1>1 DEF CreateReply
  <1>3. \A q \in flight : q.kind # kind
    BY <1>2 DEF LabInv, Books, Recorded, Single, SameRequest
  <1>4. /\ mem' = [file EXCEPT !.id[kind] = file.nonce] /\ pc' = "record"
        /\ UNCHANGED <<file, kind, errors, cloud, flight, heads, nonces>>
    BY <1>1 DEF CreateReply, Goto, Quiet
  <1>5. Types'
    BY <1>1, <1>4 DEF LabInv, Types, Labels, Files
  <1>6. Books'
    BY <1>4, BooksKept, CloudKept DEF LabInv, Keeps
  <1>7. Progress'
    BY <1>1, <1>3, <1>4 DEF Progress, Copies, Asking, Rearming, Emptying, Unasked, Later
  <1> QED BY <1>5, <1>6, <1>7 DEF LabInv

\* A pending create becomes an ID: the call's answer, or what destroy found.
LEMMA Learnt ==
    ASSUME Types, Books, NEW k \in file.pending, \A q \in flight : q.kind # k,
           file' = [file EXCEPT !.id[k] = file.nonce, !.pending = @ \ {k}],
           file.phase # "absent", UNCHANGED <<cloud, flight, nonces>>
    PROVE  /\ Books' /\ file' \in Files /\ file'.phase # "absent"
           /\ file'.pending = file.pending \ {k} /\ file'.nonce = file.nonce
           /\ \A l \in Kinds : l # k => file'.id[l] = file.id[l]
  <1>1. /\ file \in Files /\ k \in Kinds /\ file' \in Files
        /\ file'.phase = file.phase /\ file'.nonce = file.nonce
        /\ file'.suffix = file.suffix /\ file'.rname = file.rname
        /\ file'.pending = file.pending \ {k}
        /\ file'.id[k] = file.nonce
        /\ \A l \in Kinds : l # k => file'.id[l] = file.id[l]
    BY DEF Types, Files
  <1>2. \A l : resource_names(file', l) = resource_names(file, l)
    BY <1>1 DEF resource_names
  <1>3. Nonces' /\ Lives' /\ Single'
    BY <1>1 DEF Books, Nonces, Lives, Single, SameRequest
  <1>4. ASSUME NEW r \in cloud, r.status # "completed" \/ r.nonce = file.nonce
        PROVE  Known(r)'
    <2>1. Known(r) /\ r.kind \in Kinds /\ r.nonce # None
      BY <1>4 DEF Types, Resources, Books, Recorded, Nonces, None
    <2>2. CASE r.kind = k
      BY <1>1, <2>1, <2>2 DEF Known, Books, Recorded
    <2>3. CASE r.kind # k
      BY <1>1, <1>2, <2>1, <2>3 DEF Known
    <2> QED BY <2>2, <2>3
  <1>5. Recorded'
    BY <1>1, <1>2, <1>4 DEF Types, Books, Recorded
  <1> QED BY <1>1, <1>3, <1>5 DEF Books

LEMMA ClearStep == LabInv /\ clear_pending => LabInv'
  <1> SUFFICES ASSUME LabInv, clear_pending PROVE LabInv'
    OBVIOUS
  <1>1. /\ pc = "record" /\ mem = [file EXCEPT !.id[kind] = file.nonce]
        /\ file \in Files /\ file.phase # "absent" /\ kind \in Kinds
        /\ kind \in file.pending /\ (\A q \in flight : q.kind # kind)
        /\ \A l \in Kinds : Later(kind, l) => Unasked(l)
    BY DEF clear_pending, LabInv, Types, Progress, Copies, Asking
  <1>2. file' = [file EXCEPT !.id[kind] = file.nonce, !.pending = @ \ {kind}] /\ mem' = file'
    BY <1>1 DEF clear_pending, save_state, Files
  <1>3. UNCHANGED <<errors, cloud, flight, heads, nonces>>
    BY DEF clear_pending, Quiet
  <1>4. /\ Books' /\ file' \in Files /\ file'.phase # "absent"
        /\ file'.pending = file.pending \ {kind} /\ file'.nonce = file.nonce
        /\ \A l \in Kinds : l # kind => file'.id[l] = file.id[l]
    BY <1>1, <1>2, <1>3, Learnt DEF LabInv
  <1>5. CASE kind \in {"runner", "workflow_run"}
    <2>1. pc' \in {"service", "verify"} /\ kind' = kind
      BY <1>5 DEF clear_pending, Goto
    <2> QED
      BY <1>1, <1>2, <1>3, <1>4, <2>1
      DEF LabInv, Types, Labels, Progress, Copies, Asking, Rearming, Emptying
  <1>6. CASE kind \notin {"runner", "workflow_run"}
    <2>1. /\ kind' = After(kind)
          /\ pc' = IF kind' = "runner" THEN "boot" ELSE "mark"
      BY <1>6 DEF clear_pending, Goto
    <2>2. PICK i \in 1 .. Len(Infra) : Infra[i] = kind
      BY <1>1, <1>6, KindFacts DEF Run
    <2>3. CASE i = Len(Infra)
      <3>1. kind' = "runner" /\ pc' = "boot"
        BY <2>1, <2>2, <2>3, Order
      <3> QED
        BY <1>1, <1>2, <1>3, <1>4, <3>1, KindFacts
        DEF LabInv, Types, Labels, Progress, Copies, Asking, Rearming, Emptying
    <2>4. CASE i < Len(Infra)
      <3>1. i + 1 \in 1 .. Len(Infra) /\ kind' = Infra[i + 1] /\ pc' = "mark"
        BY <2>1, <2>2, <2>4, Order, KindFacts
      <3>2. /\ kind' \in Kinds /\ Later(kind, kind')
            /\ \A l : Later(kind', l) => Later(kind, l)
            /\ \A l : Later(kind, l) => l # kind
        <4>1. /\ \A l : Later(kind, l) <=> \E j \in 1 .. Len(Infra) : i < j /\ Infra[j] = l
              /\ \A l : Later(kind', l) <=> \E j \in 1 .. Len(Infra) : i + 1 < j /\ Infra[j] = l
          BY <2>2, <3>1, Order
        <4>2. kind' \in Kinds /\ i \in Nat
          BY <3>1, KindFacts
        <4> QED BY <2>2, <3>1, <4>1, <4>2, LabAssumption
      <3>3. \A l \in Kinds : Later(kind, l) => Unasked(l)'
        BY <1>1, <1>3, <1>4, <3>2 DEF Unasked
      <3>4. Types' /\ Copies' /\ Rearming' /\ Emptying'
        BY <1>2, <1>3, <1>4, <3>1, <3>2
        DEF LabInv, Types, Labels, Copies, Rearming, Emptying
      <3>5. \A l : Later(kind, l)' <=> Later(kind', l)
        BY DEF Later
      <3>6. Unasked(kind)'
        BY <3>2, <3>3 DEF Unasked
      <3>7. Asking'
        BY <3>1, <3>2, <3>3, <3>5, <3>6 DEF Asking
      <3> QED BY <1>4, <3>4, <3>7 DEF LabInv, Progress
    <2> QED BY <2>3, <2>4, KindFacts
  <1> QED BY <1>5, <1>6

\* Under the present nonce nothing exists that the file does not know.
LEMMA NothingUnknown ==
    ASSUME Types, Books, NEW k \in Kinds, file.id[k] = None, k \notin file.pending
    PROVE  Unasked(k)
  BY DEF Unasked, Types, Resources, Books, Nonces, Recorded, Known, None

LEMMA RegisterStep == LabInv /\ register_runner => LabInv'
  <1> SUFFICES ASSUME LabInv, register_runner PROVE LabInv'
    OBVIOUS
  <1>1. mem = file /\ file.phase # "absent" /\ "runner" \in Kinds
    BY KindFacts DEF register_runner, LabInv, Progress, Copies
  <1>2. CASE Stopped
    BY <1>2, StoppedHere, CloudKept DEF register_runner, Quiet, LabInv
  <1>3. CASE ~(mem.id["runner"] # None \/ "runner" \in mem.pending)
    <2>1. kind' = "runner" /\ pc' = "mark" /\ UNCHANGED <<file, mem, errors>>
      BY <1>3 DEF register_runner, Goto
    <2>2. UNCHANGED <<cloud, flight, heads, nonces>>
      BY DEF register_runner, Quiet
    <2>3. Unasked("runner")
      BY <1>1, <1>3, NothingUnknown DEF LabInv
    <2>4. Books'
      BY <2>1, <2>2, BooksKept, CloudKept DEF LabInv, Keeps
    <2>5. Types' /\ Copies' /\ Rearming' /\ Emptying'
      BY <1>1, <2>1, <2>2 DEF LabInv, Types, Labels, Copies, Rearming, Emptying
    <2>6. Asking'
      BY <2>1, <2>2, <2>3, KindFacts DEF Asking, Unasked, Later
    <2> QED BY <2>4, <2>5, <2>6 DEF LabInv, Progress
  <1> QED BY <1>2, <1>3 DEF register_runner

---------------------------------------------------------------------------
\* Commands that start or renew a lab

\* The files a launch and a rearm save.
Launched(c, n) ==
    [NoFile EXCEPT !.phase = "creating", !.commit = c, !.suffix = c, !.rname = c, !.nonce = n]

Rearmed(s, n, m, d) ==
    [s EXCEPT !.phase = "installing-runner", !.nonce = n, !.rname = m, !.id = d,
              !.branch = "main", !.sha = None]

LEMMA LaunchedFile ==
    ASSUME NEW c \in Nat, NEW n \in Nat
    PROVE  /\ Launched(c, n) \in Files /\ Launched(c, n).phase = "creating"
           /\ Launched(c, n).nonce = n /\ Launched(c, n).pending = {}
           /\ \A k \in Kinds : Launched(c, n).id[k] = None
  BY DEF Launched, NoFile, Files, Phases, Branches, None

LEMMA RearmedFile ==
    ASSUME NEW s \in Files, NEW n \in Nat, NEW m \in Nat, NEW d \in [Kinds -> Nat]
    PROVE  /\ Rearmed(s, n, m, d) \in Files
           /\ Rearmed(s, n, m, d).phase = "installing-runner"
           /\ Rearmed(s, n, m, d).nonce = n /\ Rearmed(s, n, m, d).pending = s.pending
           /\ Rearmed(s, n, m, d).id = d /\ Rearmed(s, n, m, d).suffix = s.suffix
  <1>1. "installing-runner" \in Phases /\ "main" \in Branches /\ None \in Nat
    BY DEF Phases, Branches, None
  <1> QED BY <1>1 DEF Rearmed, Files

LEMMA LaunchStep ==
    ASSUME LabInv, NEW c \in 1 .. MaxCommit, launch(c)
    PROVE  LabInv'
  <1>1. /\ file.phase = "absent" /\ nonces' = nonces + 1 /\ mem' = file'
        /\ file' = [NoFile EXCEPT !.phase = "creating", !.commit = c, !.suffix = c,
                                  !.rname = c, !.nonce = nonces + 1]
        /\ pc' \in {"mark", "idle"} /\ kind' = Infra[1]
        /\ UNCHANGED <<errors, cloud, flight, heads>>
    BY DEF launch, save_state, Goto, Quiet
  <1>2. c \in Nat /\ nonces \in Nat /\ "creating" \in Phases
    BY LabAssumption DEF LabInv, Types, Phases
  <1>3. /\ file' \in Files /\ file'.phase = "creating" /\ file'.nonce = nonces + 1
        /\ file'.pending = {} /\ \A k \in Kinds : file'.id[k] = None
    <2>1. file' = Launched(c, nonces + 1) /\ nonces + 1 \in Nat
      BY <1>1, <1>2 DEF Launched
    <2> QED BY <1>2, <2>1, LaunchedFile
  <1>4. /\ flight = {} /\ \A r \in cloud : r.status = "completed"
        /\ \A r \in cloud : r.nonce \in 1 .. nonces
    <2>1. file.pending = {}
      BY <1>1 DEF LabInv, Books, Nonces, NoFile
    <2> QED BY <1>1, <2>1 DEF LabInv, Books, Nonces, Recorded, Known
  <1>5. Types'
    BY <1>1, <1>2, <1>3, KindFacts DEF LabInv, Types, Labels
  <1>6. Nonces' /\ Lives' /\ Single'
    BY <1>1, <1>2, <1>3, <1>4 DEF LabInv, Books, Nonces, Lives, Single, SameRequest
  <1>7. Recorded'
    BY <1>1, <1>2, <1>3, <1>4 DEF Recorded
  <1>8. \A k \in Kinds : Unasked(k)'
    BY <1>1, <1>2, <1>3, <1>4 DEF Unasked
  <1>9. Progress'
    BY <1>1, <1>3, <1>8, KindFacts DEF Progress, Copies, Asking, Rearming, Emptying, Later
  <1> QED BY <1>5, <1>6, <1>7, <1>9 DEF LabInv, Books

LEMMA RearmStep == LabInv /\ rearm => LabInv'
  <1> SUFFICES ASSUME LabInv, rearm PROVE LabInv'
    OBVIOUS
  <1>1. /\ mem' = [file EXCEPT !.commit = heads["main"]] /\ pc' = "rotate"
        /\ UNCHANGED <<file, kind, errors, cloud, flight, heads, nonces>>
        /\ file.phase = "dispatched" /\ file.pending = {}
    BY DEF rearm, Goto
  <1>2. \A r \in cloud : Known(r) => file.id[r.kind] = r.nonce
    BY <1>1 DEF Known
  <1>3. \A r \in cloud : r.kind # "runner"
    BY <1>2 DEF rearm, resource_get, Ours, LabInv, Books, Lives, Recorded, Run
  <1>4. \A r \in cloud : r.kind = Run => r.status = "completed"
    <2>1. PICK q \in cloud : /\ q.kind = Run /\ q.nonce = file.id[Run]
                             /\ q.status = "completed"
      BY DEF rearm, resource_get, Ours, Run
    <2> QED BY <1>2, <2>1 DEF LabInv, Books, Recorded, Single, SameRequest
  <1>5. mem' \in Files /\ mem' = [file' EXCEPT !.commit = mem'.commit]
    <2>1. file \in Files /\ heads["main"] \in Nat
      BY DEF LabInv, Types, Branches
    <2>2. mem' \in Files /\ mem'.commit = heads["main"]
      BY <1>1, <2>1 DEF Files
    <2> QED BY <1>1, <2>2
  <1>6. Types' /\ Books'
    BY <1>1, <1>5, BooksKept, CloudKept DEF LabInv, Types, Labels, Keeps
  <1>7. Progress'
    BY <1>1, <1>3, <1>4, <1>5 DEF Progress, Copies, Asking, Rearming, Emptying
  <1> QED BY <1>6, <1>7 DEF LabInv

LEMMA RotateStep == LabInv /\ RearmRotate => LabInv'
  <1> SUFFICES ASSUME LabInv, RearmRotate PROVE LabInv'
    OBVIOUS
  <1>1. /\ pc = "rotate" /\ file.phase # "absent" /\ file.pending = {}
        /\ mem = [file EXCEPT !.commit = mem.commit]
        /\ \A r \in cloud : r.kind # "runner" /\ (r.kind = Run => r.status = "completed")
    BY DEF RearmRotate, LabInv, Progress, Copies, Rearming
  <1>2. /\ nonces' = nonces + 1 /\ mem' = file' /\ kind' = "runner" /\ pc' = "install"
        /\ UNCHANGED <<errors, cloud, flight, heads>>
        /\ file' = [mem EXCEPT !.phase = "installing-runner",
                              !.nonce = nonces + 1, !.rname = nonces + 1 + MaxCommit,
                              !.id["runner"] = None, !.id["workflow_run"] = None,
                              !.branch = "main", !.sha = None]
    BY DEF RearmRotate, save_state, Goto, Quiet
  <1>3. mem \in Files /\ file \in Files /\ nonces \in Nat /\ MaxCommit \in Nat
    BY LabAssumption DEF LabInv, Types
  <1>4. mem.id = file.id /\ mem.pending = file.pending /\ mem.suffix = file.suffix
    BY <1>1, <1>3 DEF Files
  <1>5. /\ file' \in Files /\ file'.phase = "installing-runner" /\ file'.nonce = nonces + 1
        /\ file'.pending = {} /\ file'.suffix = file.suffix
        /\ \A k \in Kinds : k # "runner" /\ k # Run => file'.id[k] = file.id[k]
    <2> DEFINE ids == [mem.id EXCEPT !["runner"] = None, !["workflow_run"] = None]
    <2>1. mem.id \in [Kinds -> Nat] /\ "runner" \in Kinds /\ Run \in Kinds
      BY <1>3, KindFacts DEF Files
    <2>2. ids \in [Kinds -> Nat] /\ \A k \in Kinds : k # "runner" /\ k # Run => ids[k] = mem.id[k]
      BY <2>1 DEF None, Run
    <2>3. file' = Rearmed(mem, nonces + 1, nonces + 1 + MaxCommit, ids)
      BY <1>2, <1>3 DEF Rearmed, Files
    <2> HIDE DEF ids
    <2>4. nonces + 1 \in Nat /\ nonces + 1 + MaxCommit \in Nat
      BY <1>3
    <2>5. /\ file' \in Files /\ file'.phase = "installing-runner" /\ file'.id = ids
          /\ file'.nonce = nonces + 1 /\ file'.pending = mem.pending /\ file'.suffix = mem.suffix
      BY <1>3, <2>2, <2>3, <2>4, RearmedFile
    <2> QED BY <1>1, <1>4, <2>2, <2>5
  <1>6. flight = {}
    BY <1>1 DEF LabInv, Books, Recorded
  <1>7. Nonces' /\ Lives' /\ Single'
    BY <1>2, <1>3, <1>5, <1>6 DEF LabInv, Books, Nonces, Lives, Single, SameRequest
  <1>8. Recorded'
    <2>1. ASSUME NEW r \in cloud, r.status # "completed" \/ r.nonce = file'.nonce
          PROVE  Known(r)'
      <3>1. r.nonce \in 1 .. nonces /\ r.kind \in Kinds
        BY DEF LabInv, Types, Resources, Books, Nonces
      <3>2. r.status # "completed"
        BY <1>3, <1>5, <2>1, <3>1
      <3>3. Known(r) /\ r.kind # "runner" /\ r.kind # Run
        BY <1>1, <3>2 DEF LabInv, Books, Recorded
      <3> QED BY <1>1, <1>5, <3>1, <3>3 DEF Known
    <2> QED BY <1>2, <1>5, <1>6, <2>1 DEF Recorded
  <1>9. Types' /\ Progress'
    BY <1>2, <1>3, <1>5, KindFacts
    DEF LabInv, Types, Labels, Progress, Copies, Asking, Rearming, Emptying
  <1> QED BY <1>7, <1>8, <1>9 DEF LabInv, Books

LEMMA DispatchStep ==
    ASSUME LabInv, NEW b \in Branches, dispatch(b)
    PROVE  LabInv'
  <1> DEFINE sha == IF b = "main" THEN file.commit ELSE heads[b]
  <1>1. /\ file' = [file EXCEPT !.branch = b, !.sha = sha, !.pending = @ \union {Run}]
        /\ mem' = file' /\ kind' = Run /\ pc' = "send"
        /\ UNCHANGED <<errors, cloud, flight, heads, nonces>>
        /\ file.phase = "ready" /\ file.id[Run] = None /\ Run \notin file.pending
    BY DEF dispatch, save_state, Goto, Quiet, Run
  <1>2. file \in Files /\ sha \in Nat /\ Run \in Kinds
    BY KindFacts DEF LabInv, Types, Files
  <1> HIDE DEF sha
  <1>3. /\ file' \in Files /\ file'.phase # "absent" /\ file'.id = file.id
        /\ file'.nonce = file.nonce /\ file'.suffix = file.suffix
        /\ file'.rname = file.rname /\ file'.pending = file.pending \union {Run}
    BY <1>1, <1>2 DEF Files
  <1>4. Unasked(Run)
    BY <1>1, <1>2, NothingUnknown DEF LabInv
  <1>5. Books' /\ Unasked(Run)'
    BY <1>1, <1>2, <1>3, <1>4, MarkedBooks DEF LabInv
  <1>6. Types'
    BY <1>1, <1>2, <1>3 DEF LabInv, Types, Labels
  <1>7. \A l : ~Later(Run, l)'
    BY KindFacts DEF Later
  <1>8. Progress'
    BY <1>1, <1>3, <1>5, <1>7 DEF Progress, Copies, Asking, Rearming, Emptying
  <1> QED BY <1>5, <1>6, <1>8 DEF LabInv

---------------------------------------------------------------------------
\* destroy

LEMMA RecoverStep == LabInv /\ recover_pending => LabInv'
  <1> SUFFICES ASSUME LabInv, recover_pending PROVE LabInv'
    OBVIOUS
  <1>1. mem = file /\ file \in Files /\ file.phase # "absent" /\ pc = "d_recover"
    BY DEF recover_pending, LabInv, Types, Progress, Copies
  <1>2. UNCHANGED <<cloud, flight, heads, nonces>>
    BY DEF recover_pending, Quiet
  <1>3. CASE mem.pending = {}
    <2>1. pc' = "d_cancel" /\ UNCHANGED <<file, kind, errors>> /\ mem' = file'
      BY <1>1, <1>3 DEF recover_pending, save_state, Goto
    <2>2. Types' /\ Books'
      BY <1>2, <2>1, BooksKept, CloudKept DEF LabInv, Types, Labels, Keeps
    <2>3. Progress'
      BY <1>1, <1>3, <2>1 DEF Progress, Copies, Asking, Rearming, Emptying
    <2> QED BY <2>2, <2>3 DEF LabInv
  <1>4. CASE Abort
    BY <1>2, <1>4, Aborted, CloudKept DEF LabInv
  <1>5. CASE \E k \in mem.pending : \E r \in Matching(k) :
                /\ save_state([mem EXCEPT !.id[k] = r.nonce, !.pending = @ \ {k}])
                /\ UNCHANGED <<pc, kind, errors>>
    <2>1. PICK k \in mem.pending : \E r \in Matching(k) :
                /\ save_state([mem EXCEPT !.id[k] = r.nonce, !.pending = @ \ {k}])
                /\ UNCHANGED <<pc, kind, errors>>
      BY <1>5
    <2>2. PICK r \in Matching(k) :
                /\ save_state([mem EXCEPT !.id[k] = r.nonce, !.pending = @ \ {k}])
                /\ UNCHANGED <<pc, kind, errors>>
      BY <2>1
    <2>3. /\ r \in cloud /\ r.kind = k /\ r.name = resource_names(file, k)
          /\ k \in file.pending /\ k \in Kinds
      BY <1>1, <2>1, <2>2 DEF Matching, Files
    <2>4. r.nonce = file.nonce
      <3>1. CASE r.status = "completed"
        <4>1. k = Run /\ r.name = r.nonce
          BY <2>3, <3>1 DEF LabInv, Books, Lives
        <4>2. resource_names(file, Run) = file.nonce
          BY DEF resource_names, Run
        <4> QED BY <2>3, <4>1, <4>2
      <3>2. CASE r.status # "completed"
        BY <2>3, <3>2 DEF LabInv, Types, Resources, Books, Nonces, Recorded, Known, None
      <3> QED BY <3>1, <3>2
    <2>5. \A q \in flight : q.kind # k
      BY <2>3, <2>4 DEF LabInv, Books, Recorded, Single, SameRequest
    <2>6. /\ file' = [file EXCEPT !.id[k] = file.nonce, !.pending = @ \ {k}] /\ mem' = file'
          /\ UNCHANGED <<pc, kind, errors>>
      BY <1>1, <2>2, <2>4 DEF save_state
    <2>7. Books' /\ file' \in Files /\ file'.phase # "absent"
      BY <1>1, <1>2, <2>3, <2>5, <2>6, Learnt DEF LabInv
    <2>8. Types'
      BY <1>2, <2>6, <2>7 DEF LabInv, Types
    <2>9. Progress'
      BY <1>1, <2>6, <2>7 DEF Progress, Copies, Asking, Rearming, Emptying
    <2> QED BY <2>7, <2>8, <2>9 DEF LabInv
  <1> QED BY <1>3, <1>4, <1>5 DEF recover_pending

\* With nothing pending, what is live is under its ID.
LEMMA LiveByID ==
    ASSUME Types, Books, file.pending = {}, NEW r \in cloud, r.status # "completed"
    PROVE  r \in resource_get(file, r.kind)
  BY DEF resource_get, Ours, Types, Resources, Books, Nonces, Recorded, Known, None

LEMMA CancelStep == LabInv /\ cancel_workflow_run => LabInv'
  <1> SUFFICES ASSUME LabInv, cancel_workflow_run PROVE LabInv'
    OBVIOUS
  <1> DEFINE R == {r \in resource_get(mem, Run) : r.status # "completed"}
  <1>1. /\ mem = file /\ file.phase # "absent" /\ Cancelled(R)
        /\ UNCHANGED <<flight, heads, nonces>>
    BY DEF cancel_workflow_run, LabInv, Progress, Copies, Run
  <1>2. R \in SUBSET cloud /\ \A r \in R : r.kind = Run
    BY DEF resource_get, Ours
  <1>3. /\ Dwindles
        /\ \A r \in cloud' :
              \/ r \in cloud /\ r \notin R
              \/ r.status = "completed" /\ r.kind = Run
    <2> HIDE DEF R
    <2> QED BY <1>1, <1>2, CancelDwindles DEF LabInv
  <1>4. CASE pc = "cancel"
    BY <1>1, <1>3, <1>4, Aborted DEF cancel_workflow_run
  <1>5. CASE pc = "d_cancel"
    <2>1. pc' = "d_delete" /\ kind' = "runner" /\ UNCHANGED <<file, mem, errors>>
      BY <1>5 DEF cancel_workflow_run, Goto
    <2>2. file.pending = {}
      BY <1>5 DEF LabInv, Progress, Emptying
    <2>3. \A r \in cloud' : r.kind = Run => r.status = "completed"
      <3>1. \A r \in cloud : r.kind = Run /\ r.status # "completed" => r \in R
        BY <1>1, <2>2, LiveByID DEF LabInv
      <3> HIDE DEF R
      <3> QED BY <1>3, <3>1
    <2>4. Types'
      BY <1>1, <1>3, <2>1, KindFacts DEF LabInv, Types, Labels, Dwindles
    <2>5. Books'
      BY <1>1, <1>3, <2>1, BooksKept DEF LabInv, Keeps
    <2>6. Progress'
      BY <1>1, <2>1, <2>2, <2>3 DEF Progress, Copies, Asking, Rearming, Emptying, Run
    <2> QED BY <2>4, <2>5, <2>6 DEF LabInv
  <1> QED BY <1>4, <1>5 DEF cancel_workflow_run

LEMMA DeleteStep == LabInv /\ delete_and_confirm => LabInv'
  <1> SUFFICES ASSUME LabInv, delete_and_confirm PROVE LabInv'
    OBVIOUS
  <1>1. /\ mem = file /\ file.phase # "absent" /\ pc = "d_delete" /\ file.pending = {}
        /\ kind \in Kinds /\ kind # Run
        /\ \A r \in cloud : r.kind = Run => r.status = "completed"
        /\ ~errors => \A r \in cloud :
              r.kind = Run \/ kind = "runner" \/ r.kind = kind \/ Later(r.kind, kind)
    BY DEF delete_and_confirm, LabInv, Types, Progress, Copies, Emptying
  <1>2. /\ cloud' \subseteq cloud /\ errors' \in BOOLEAN
        /\ ~errors' => ~errors /\ cloud' = cloud \ resource_get(file, kind)
        /\ UNCHANGED <<file, mem, flight, heads, nonces>>
    <2> DEFINE gone == resource_get(file, kind)
    <2>1. \/ cloud' = cloud \ gone /\ UNCHANGED errors
          \/ cloud' \in {cloud, cloud \ gone} /\ errors' = TRUE
      BY <1>1 DEF delete_and_confirm
    <2>2. UNCHANGED <<file, mem, flight, heads, nonces>> /\ errors \in BOOLEAN
      BY DEF delete_and_confirm, LabInv, Types
    <2> HIDE DEF gone
    <2>3. cloud' \subseteq cloud
      BY <2>1
    <2>4. errors' \in BOOLEAN
      BY <2>1, <2>2
    <2>5. ~errors' => ~errors /\ cloud' = cloud \ gone
      BY <2>1, <2>2
    <2> QED BY <2>2, <2>3, <2>4, <2>5 DEF gone
  <1>3. /\ Before(kind) = "none" => pc' = "d_finish" /\ kind' = kind
        /\ Before(kind) # "none" => pc' = "d_delete" /\ kind' = Before(kind)
    BY <1>1 DEF delete_and_confirm, Goto
  <1>4. Dwindles
    BY <1>2 DEF LabInv, Types, Books, Single, Dwindles, SameRequest
  <1>5. Books'
    BY <1>2, <1>4, BooksKept DEF LabInv, Keeps
  <1>6. ASSUME ~errors', NEW r \in cloud'
        PROVE  r.kind = Run \/ (r.kind # kind /\ r.kind \in Kinds)
    BY <1>1, <1>2, <1>6, LiveByID DEF LabInv, Books, Lives, Types, Resources
  <1>7. CASE kind = "runner"
    <2> DEFINE n == Len(Infra)
    <2>1. /\ n \in 1 .. Len(Infra) /\ Before(kind) = Infra[n]
          /\ Infra[n] # "none" /\ Infra[n] # Run /\ Infra[n] \in Kinds
      BY <1>7, KindFacts, Order DEF Before
    <2>2. pc' = "d_delete" /\ kind' = Infra[n]
      BY <1>3, <2>1
    <2>3. ~errors' => \A r \in cloud' : r.kind = Run \/ r.kind = kind' \/ Later(r.kind, kind')
      <3>1. ASSUME ~errors', NEW r \in cloud', r.kind # Run
            PROVE  r.kind = kind' \/ Later(r.kind, kind')
        <4>1. PICK i \in 1 .. Len(Infra) : Infra[i] = r.kind
          BY <1>6, <1>7, <3>1, KindFacts
        <4>2. i = n \/ i < n
          BY KindFacts
        <4> QED BY <2>1, <2>2, <4>1, <4>2, Order
      <3> QED BY <3>1
    <2>4. Types'
      BY <1>2, <1>4, <2>1, <2>2 DEF LabInv, Types, Labels, Dwindles
    <2>5. Progress'
      BY <1>1, <1>2, <2>1, <2>2, <2>3 DEF Progress, Copies, Asking, Rearming, Emptying, Later
    <2> QED BY <1>5, <2>4, <2>5 DEF LabInv
  <1>8. CASE kind # "runner"
    <2>1. PICK i \in 1 .. Len(Infra) : Infra[i] = kind
      BY <1>1, <1>8, KindFacts
    <2>2. /\ Before(kind) = IF i > 1 THEN Infra[i - 1] ELSE "none"
          /\ \A l : Later(l, kind) <=> \E j \in 1 .. Len(Infra) : j < i /\ Infra[j] = l
          /\ i \in Nat
      <3>1. /\ Before(Infra[i]) = IF i > 1 THEN Infra[i - 1] ELSE "none"
            /\ \A l : Later(l, Infra[i]) <=> \E j \in 1 .. Len(Infra) : j < i /\ Infra[j] = l
        BY Order
      <3>2. i \in Nat
        OBVIOUS
      <3> QED BY <2>1, <3>1, <3>2
    <2>3. ASSUME ~errors', NEW r \in cloud', r.kind # Run
          PROVE  \E j \in 1 .. Len(Infra) : j < i /\ Infra[j] = r.kind
      BY <1>1, <1>2, <1>6, <1>8, <2>2, <2>3
    <2>4. CASE i > 1
      <3>1. /\ i - 1 \in 1 .. Len(Infra) /\ Infra[i - 1] # "none"
            /\ Infra[i - 1] # Run /\ Infra[i - 1] # "runner" /\ Infra[i - 1] \in Kinds
        BY <2>2, <2>4, Order, KindFacts
      <3>2. pc' = "d_delete" /\ kind' = Infra[i - 1]
        BY <1>3, <2>2, <2>4, <3>1
      <3>3. \A l : Later(l, kind') <=> \E j \in 1 .. Len(Infra) : j < i - 1 /\ Infra[j] = l
        <4> DEFINE m == i - 1
        <4>1. m \in 1 .. Len(Infra) /\ kind' = Infra[m]
          BY <3>1, <3>2
        <4> HIDE DEF m
        <4>2. \A l : Later(l, Infra[m]) <=> \E j \in 1 .. Len(Infra) : j < m /\ Infra[j] = l
          BY <4>1, Order
        <4>3. \A l : Later(l, kind') <=> \E j \in 1 .. Len(Infra) : j < m /\ Infra[j] = l
          BY <4>1, <4>2
        <4> QED BY <4>3 DEF m
      <3>4. ~errors' => \A r \in cloud' : r.kind = Run \/ r.kind = kind' \/ Later(r.kind, kind')
        <4>1. ASSUME ~errors', NEW r \in cloud', r.kind # Run
              PROVE  r.kind = kind' \/ Later(r.kind, kind')
          <5>1. PICK j \in 1 .. Len(Infra) : j < i /\ Infra[j] = r.kind
            BY <2>3, <4>1
          <5>2. j = i - 1 \/ j < i - 1
            BY <2>2, <5>1, KindFacts
          <5> QED BY <3>2, <3>3, <5>1, <5>2
        <4> QED BY <4>1
      <3>5. Types'
        BY <1>2, <1>4, <3>1, <3>2 DEF LabInv, Types, Labels, Dwindles
      <3>6. Progress'
        BY <1>1, <1>2, <3>1, <3>2, <3>4 DEF Progress, Copies, Asking, Rearming, Emptying, Later
      <3> QED BY <1>5, <3>5, <3>6 DEF LabInv
    <2>5. CASE ~(i > 1)
      <3>1. pc' = "d_finish" /\ kind' = kind
        BY <1>3, <2>2, <2>5
      <3>2. ~errors' => \A r \in cloud' : r.kind = Run
        BY <2>2, <2>3, <2>5, KindFacts
      <3>3. Types'
        BY <1>1, <1>2, <1>4, <3>1 DEF LabInv, Types, Labels, Dwindles
      <3>4. Progress'
        BY <1>1, <1>2, <3>1, <3>2 DEF Progress, Copies, Asking, Rearming, Emptying
      <3> QED BY <1>5, <3>3, <3>4 DEF LabInv
    <2> QED BY <2>4, <2>5
  <1> QED BY <1>7, <1>8

LEMMA FinishStep == LabInv /\ DestroyFinish => LabInv'
  <1> SUFFICES ASSUME LabInv, DestroyFinish PROVE LabInv'
    OBVIOUS
  <1>1. /\ mem = file /\ pc = "d_finish" /\ Exit /\ UNCHANGED <<cloud, flight, heads, nonces>>
    BY DEF DestroyFinish, LabInv, Progress, Copies
  <1>2. CASE errors
    <2>1. "destroy-failed" \in Phases
      BY DEF Phases
    <2> QED BY <1>1, <1>2, <2>1, SavedHere, ExitFacts DEF DestroyFinish
  <1>3. CASE ~errors
    <2>1. file' = NoFile /\ mem' = NoFile
      BY <1>3 DEF DestroyFinish, save_state
    <2>2. /\ flight = {} /\ \A r \in cloud : r.status = "completed"
      BY <1>1, <1>3 DEF LabInv, Books, Recorded, Progress, Emptying
    <2>3. Types'
      BY <1>1, <2>1, NoFileFacts, ExitFacts DEF LabInv, Types, Labels
    <2>4. Nonces' /\ Lives' /\ Single'
      BY <1>1, <2>1, NoFileFacts DEF LabInv, Books, Nonces, Lives, Single, SameRequest
    <2>5. Recorded'
      <3>1. NoFile.pending = {} /\ \A r \in cloud : r.nonce # NoFile.nonce
        BY DEF NoFile, None, LabInv, Books, Nonces
      <3> QED BY <1>1, <2>1, <2>2, <3>1 DEF Recorded
    <2>6. Progress'
      BY <2>1, <1>1, ExitFacts DEF Progress, Copies, Asking, Rearming, Emptying
    <2> QED BY <2>3, <2>4, <2>5, <2>6 DEF LabInv, Books
  <1> QED BY <1>2, <1>3

---------------------------------------------------------------------------
\* The servers

LEMMA ApplyStep ==
    ASSUME LabInv, NEW q \in flight, ServerApply(q)
    PROVE  LabInv'
  <1>1. /\ q \in Resources /\ q.status = "new" /\ q.kind \in file.pending
        /\ q.nonce = file.nonce /\ q.name = resource_names(file, q.kind)
        /\ file.phase # "absent"
    BY DEF LabInv, Types, Books, Nonces, Lives, Recorded, NoFile
  <1>2. PICK s \in Resources :
           /\ cloud' = cloud \union {s}
           /\ s.kind = q.kind /\ s.nonce = q.nonce /\ s.name = q.name
           /\ s.kind # Run => s.status = "new"
    <2>1. heads[q.branch] \in Nat
      BY <1>1 DEF LabInv, Types, Resources
    <2>2. CASE q.kind = "workflow_run"
      <3> DEFINE s == [q EXCEPT !.sha = heads[q.branch], !.status = "queued"]
      <3>1. cloud' = cloud \union {s}
        BY <2>2 DEF ServerApply
      <3>2. s \in Resources /\ s.kind = q.kind /\ s.nonce = q.nonce /\ s.name = q.name
        BY <1>1, <2>1 DEF Resources
      <3> HIDE DEF s
      <3> QED BY <2>2, <3>1, <3>2 DEF Run
    <2>3. CASE q.kind # "workflow_run"
      <3> DEFINE s == [q EXCEPT !.branch = "main"]
      <3>1. cloud' = cloud \union {s}
        BY <2>3 DEF ServerApply
      <3>2. /\ s \in Resources /\ s.kind = q.kind /\ s.nonce = q.nonce /\ s.name = q.name
            /\ s.status = "new"
        BY <1>1 DEF Resources, Branches
      <3> HIDE DEF s
      <3> QED BY <3>1, <3>2
    <2> QED BY <2>2, <2>3
  <1>3. /\ flight' = flight \ {q}
        /\ UNCHANGED <<file, mem, pc, kind, errors, heads, nonces>>
    BY DEF ServerApply
  <1>4. Types'
    BY <1>2, <1>3 DEF LabInv, Types
  <1>5. Nonces' /\ Lives'
    BY <1>2, <1>3 DEF LabInv, Books, Nonces, Lives
  <1>6. Recorded'
    BY <1>1, <1>2, <1>3 DEF LabInv, Books, Recorded, Known
  <1>7. Single'
    BY <1>2, <1>3 DEF LabInv, Books, Single, SameRequest
  <1>8. Copies' /\ Rearming' /\ Emptying'
    BY <1>1, <1>3 DEF LabInv, Progress, Copies, Rearming, Emptying
  <1>9. \A k : Unasked(k) => Unasked(k)'
    BY <1>2, <1>3 DEF Unasked
  <1>10. Asking'
    BY <1>3, <1>9 DEF LabInv, Progress, Asking, Later
  <1> QED BY <1>4, <1>5, <1>6, <1>7, <1>8, <1>10 DEF LabInv, Books, Progress

LEMMA RejectStep ==
    ASSUME LabInv, NEW q \in flight, ServerReject(q)
    PROVE  LabInv'
  <1>1. /\ flight' = flight \ {q}
        /\ UNCHANGED <<file, mem, pc, kind, errors, cloud, heads, nonces>>
    BY DEF ServerReject
  <1>2. Types'
    BY <1>1 DEF LabInv, Types
  <1>3. Books'
    BY <1>1 DEF LabInv, Books, Nonces, Lives, Recorded, Known, Single, SameRequest
  <1>4. Progress'
    BY <1>1 DEF LabInv, Progress, Copies, Asking, Rearming, Emptying, Unasked, Later
  <1> QED BY <1>2, <1>3, <1>4 DEF LabInv

---------------------------------------------------------------------------
\* The theorems

LEMMA InitHolds == Init => LabInv
  <1> SUFFICES ASSUME Init PROVE LabInv
    OBVIOUS
  <1>1. Types
    BY NoFileFacts, KindFacts DEF Init, Types, Labels, Branches
  <1>2. Books
    <2>1. NoFile.pending = {}
      BY DEF NoFile
    <2> QED BY <2>1, NoFileFacts
            DEF Init, Books, Nonces, Lives, Recorded, Single
  <1>3. Progress
    BY DEF Init, Progress, Copies, Asking, Rearming, Emptying
  <1> QED BY <1>1, <1>2, <1>3 DEF LabInv

LEMMA NextStep == LabInv /\ [Next]_vars => LabInv'
  <1> SUFFICES ASSUME LabInv, [Next]_vars PROVE LabInv'
    OBVIOUS
  <1>1. ASSUME NEW c \in 1 .. MaxCommit, launch(c) PROVE LabInv'
    BY <1>1, LaunchStep
  <1>2. CASE Launching
    BY <1>2, MarkStep, SendStep, ReplyStep, CreateFailedStep, ClearStep, LaunchStages,
       RegisterStep, ServiceStep DEF Launching
  <1>3. CASE resume \/ rearm \/ RearmRotate \/ warm_storage \/ StopDocker
    BY <1>3, ResumeStep, RearmStep, RotateStep, StorageSteps
  <1>4. ASSUME NEW b \in Branches, dispatch(b) PROVE LabInv'
    BY <1>4, DispatchStep
  <1>5. CASE AdoptDispatch \/ VerifyDispatch \/ LookupFailed \/ destroy \/ Crash
    BY <1>5, AdoptStep, VerifyStep, StoppedSteps, DestroyStep
  <1>6. CASE Destroying
    BY <1>6, RecoverStep, CancelStep, DeleteStep, FinishStep DEF Destroying
  <1>7. ASSUME NEW q \in flight, ServerApply(q) \/ ServerReject(q) PROVE LabInv'
    BY <1>7, ApplyStep, RejectStep
  <1>8. ASSUME NEW b \in Branches, Push(b) PROVE LabInv'
    BY <1>8, PushStep
  <1>9. ASSUME NEW r \in cloud, JobStart(r) \/ JobEnd(r) PROVE LabInv'
    BY <1>9, JobSteps
  <1>10. CASE UNCHANGED vars
    BY <1>10, BesideStep, CloudKept DEF vars, LabInv, Types
  <1> QED BY <1>1, <1>2, <1>3, <1>4, <1>5, <1>6, <1>7, <1>8, <1>9, <1>10 DEF Next

\* Every reachable state keeps the books, and every command is where its
\* records say: the invariant behind the first two theorems below.
THEOREM Inductive == Spec => []LabInv
  BY InitHolds, NextStep, PTL DEF Spec

\* NothingForgotten: save_state precedes every create call and clear_pending
\* follows its answer, rearm rotates the nonce and destroy deletes the state
\* file only when nothing is left, so whatever is live or under way is in the
\* file by ID or as a pending create under its exact name.
THEOREM NothingIsForgotten == Spec => []NothingForgotten
  <1>1. LabInv => NothingForgotten
    BY DEF LabInv, Books, Nonces, Recorded, Known, NothingForgotten, Live, NoFile
  <1> QED BY <1>1, Inductive, PTL

\* NeverAskedTwice: a create is sent only when nothing of that kind carries
\* the state's nonce, in the cloud or under way, whatever stopped the command
\* before.
THEOREM NothingAskedTwice == Spec => NeverAskedTwice
  <1>1. LabInv /\ [Next]_vars =>
           [SendCreate => ~ \E r \in cloud \union flight :
                               r.kind = kind /\ r.nonce = mem.nonce]_vars
    <2> SUFFICES ASSUME LabInv, SendCreate
                 PROVE  ~ \E r \in cloud \union flight : r.kind = kind /\ r.nonce = mem.nonce
      OBVIOUS
    <2> QED BY DEF SendCreate, LabInv, Progress, Copies, Asking, Unasked
  <1> QED BY <1>1, Inductive, PTL DEF Spec, NeverAskedTwice

---------------------------------------------------------------------------
\* The dispatched run.  What the records say of it, beyond the books.

Pushed ==
    /\ heads \in [Branches -> Nat \ {0}]
    /\ hosted \in [1 .. MaxCommit -> {"none", "success", "skipped"}]

\* A run has a commit, so it never matches a file that records none.
RunShas == \A r \in cloud : r.kind = Run => r.sha # None

\* The commit recorded for a candidate stays the prepared one, and no later
\* push can touch what its hosted regression came to.
Candidate ==
    file.branch = "main" /\ file.sha # None =>
        /\ file.sha = file.commit /\ hosted[file.sha] = "success"
        /\ file.sha <= heads["main"]

Exact == Pushed /\ RunShas /\ Candidate /\ DispatchedRunIsExact

\* Runs never leave the cloud and keep their nonce, branch and commit.
RunsStay ==
    /\ \A r \in cloud : r.kind = Run =>
          \E q \in cloud' : /\ q.kind = Run /\ q.nonce = r.nonce
                            /\ q.branch = r.branch /\ q.sha = r.sha
    /\ \A q \in cloud' : q.kind = Run => q.sha # None

\* The file keeps what it says of the run; only a check of the run dispatches.
OrderStays ==
    \/ file' = file
    \/ file'.phase # "dispatched" /\ file'.sha = None
    \/ /\ file'.branch = file.branch /\ file'.sha = file.sha /\ file'.commit = file.commit
       /\ file'.phase = "dispatched" =>
            file.phase = "dispatched" /\ file'.id[Run] = file.id[Run] /\ file'.nonce = file.nonce

LEMMA DispatchedHasRun ==
    LabInv /\ Exact /\ file.phase = "dispatched" => file.id[Run] # None /\ Run \notin file.pending
  <1> SUFFICES ASSUME LabInv, Exact, file.phase = "dispatched"
               PROVE  file.id[Run] # None /\ Run \notin file.pending
    OBVIOUS
  <1>1. PICK r \in cloud : r.kind = Run /\ r.nonce = file.id[Run]
    BY DEF Exact, DispatchedRunIsExact, Ours, Run
  <1>2. r.nonce \in 1 .. nonces /\ nonces \in Nat
    BY DEF LabInv, Types, Books, Nonces
  <1>3. file.id[Run] # None
    BY <1>1, <1>2 DEF None
  <1> QED BY <1>3 DEF LabInv, Books, Recorded

LEMMA ExactKept ==
    ASSUME Exact, RunsStay, OrderStays, UNCHANGED <<heads, hosted>>
    PROVE  Exact'
  <1>1. Pushed' /\ RunShas'
    BY DEF Exact, Pushed, RunShas, RunsStay
  <1>2. Candidate'
    BY DEF Exact, Candidate, OrderStays
  <1>3. DispatchedRunIsExact'
    <2> SUFFICES ASSUME file'.phase = "dispatched"
                 PROVE  \E q \in cloud' :
                          /\ q.kind = Run /\ q.nonce = file'.id[Run]
                          /\ q.sha = file'.sha /\ q.branch = file'.branch /\ q.nonce = file'.nonce
                          /\ q.branch = "main" => q.sha = file'.commit /\ hosted[q.sha] = "success"
      BY DEF DispatchedRunIsExact, Ours, recorded_workflow, Run
    <2>1. /\ file.phase = "dispatched" /\ file'.id[Run] = file.id[Run]
          /\ file'.nonce = file.nonce /\ file'.branch = file.branch
          /\ file'.sha = file.sha /\ file'.commit = file.commit
      BY DEF OrderStays
    <2>2. PICK r \in cloud :
            /\ r.kind = Run /\ r.nonce = file.id[Run]
            /\ r.sha = file.sha /\ r.branch = file.branch /\ r.nonce = file.nonce
            /\ r.branch = "main" => r.sha = file.commit /\ hosted[r.sha] = "success"
      BY <2>1 DEF Exact, DispatchedRunIsExact, Ours, recorded_workflow, Run
    <2>3. PICK q \in cloud' : q.kind = Run /\ q.nonce = r.nonce /\ q.branch = r.branch
                              /\ q.sha = r.sha
      BY <2>2 DEF RunsStay
    <2> QED BY <2>1, <2>2, <2>3
  <1> QED BY <1>1, <1>2, <1>3 DEF Exact

LEMMA SameRuns == Exact /\ UNCHANGED cloud => RunsStay
  BY DEF Exact, RunShas, RunsStay

\* Cancelling changes a run's status only.
LEMMA CancelledRuns ==
    ASSUME LabInv, Exact, NEW R \in SUBSET cloud, \A r \in R : r.kind = Run, Cancelled(R)
    PROVE  RunsStay
  <1> DEFINE Ended(r) == [r EXCEPT !.status = "completed"]
  <1>1. \A r \in R : /\ Ended(r).kind = Run /\ Ended(r).nonce = r.nonce
                     /\ Ended(r).branch = r.branch /\ Ended(r).sha = r.sha
    BY DEF LabInv, Types, Resources
  <1>2. /\ \A r \in R : Ended(r) \in cloud'
        /\ \A r \in cloud : r.kind = Run /\ r \notin R => r \in cloud'
        /\ \A r \in cloud' : (r \in cloud /\ r \notin R) \/ \E q \in R : r = Ended(q)
    BY DEF Cancelled, Run
  <1> HIDE DEF Ended
  <1>3. \A r \in R : r.kind = Run /\ r.sha # None
    BY DEF Exact, RunShas
  <1> QED BY <1>1, <1>2, <1>3 DEF RunsStay, Exact, RunShas

\* A command that stops, or moves on with another phase, keeps its order.
LEMMA OrderOfCopy ==
    ASSUME LabInv, pc \notin {"idle", "record", "rotate"}, NEW p \in Phases,
           p # "dispatched", file' = [mem EXCEPT !.phase = p]
    PROVE  OrderStays
  <1>1. mem = file /\ file \in Files
    BY DEF LabInv, Types, Progress, Copies
  <1> QED BY <1>1 DEF OrderStays, Files

LEMMA StoppedOrder ==
    LabInv /\ pc \notin {"idle", "record", "rotate"} /\ (Stopped \/ Abort) => OrderStays
  <1>1. "failed" \in Phases
    BY DEF Phases
  <1> QED BY <1>1, OrderOfCopy DEF Stopped, Abort, save_state, OrderStays

LEMMA ExactLaunching == LabInv /\ Exact /\ Launching => Exact'
  <1> SUFFICES ASSUME LabInv, Exact, Launching PROVE Exact'
    OBVIOUS
  <1>1. file \in Files /\ (pc \notin {"record", "rotate"} => mem = file)
    BY DEF LabInv, Types, Progress, Copies
  <1>2. CASE mark_pending
    <2>1. OrderStays
      BY <1>1, <1>2 DEF mark_pending, save_state, OrderStays, Files
    <2> QED BY <1>2, <2>1, SameRuns, ExactKept DEF mark_pending, Quiet
  <1>3. CASE SendCreate \/ CreateReply
    BY <1>3, SameRuns, ExactKept DEF SendCreate, CreateReply, Quiet, OrderStays
  <1>4. CASE CreateFailed
    <2>1. OrderStays
      BY <1>4, StoppedOrder DEF CreateFailed, Raise
    <2> QED BY <1>4, <2>1, SameRuns, ExactKept DEF CreateFailed, Quiet
  <1>5. CASE clear_pending
    <2>1. /\ mem = [file EXCEPT !.id[kind] = file.nonce] /\ kind \in file.pending
          /\ kind \in Kinds /\ Run \in Kinds
          /\ file' = [mem EXCEPT !.pending = @ \ {kind}]
      BY <1>5, KindFacts DEF clear_pending, save_state, LabInv, Types, Progress, Copies, Asking
    <2>2. file.phase = "dispatched" => kind # Run
      BY <2>1, DispatchedHasRun
    <2>3. /\ file'.branch = file.branch /\ file'.sha = file.sha /\ file'.commit = file.commit
          /\ file'.phase = file.phase /\ file'.nonce = file.nonce
          /\ kind # Run => file'.id[Run] = file.id[Run]
      BY <1>1, <2>1 DEF Files
    <2>4. OrderStays
      BY <2>2, <2>3 DEF OrderStays
    <2> QED BY <1>5, <2>4, SameRuns, ExactKept DEF clear_pending, Quiet
  <1>6. ASSUME NEW p \in Phases, p # "dispatched", pc \notin {"idle", "record", "rotate"},
               file' = [mem EXCEPT !.phase = p] \/ file' = file,
               UNCHANGED <<cloud, heads, hosted>>
        PROVE  Exact'
    BY <1>6, OrderOfCopy, SameRuns, ExactKept DEF OrderStays
  <1>7. {"failed", "preparing-quartus", "installing-runner", "ready"} \subseteq Phases
    BY DEF Phases
  <1>8. CASE wait_for_ssh \/ prepare_remote
    BY <1>6, <1>7, <1>8 DEF wait_for_ssh, prepare_remote, save_state, Stopped, Quiet
  <1>9. CASE install_runner \/ register_runner \/ wait_runner_online
    BY <1>6, <1>7, <1>9 DEF install_runner, register_runner, wait_runner_online, save_state,
       Stopped, Quiet
  <1>10. CASE start_service
    <2>1. OrderStays /\ UNCHANGED <<heads, hosted>>
      BY <1>10, StoppedOrder DEF start_service, OrderStays
    <2>2. RunsStay
      <3>1. cloud' \in {cloud, cloud \ Ours(mem, "runner")}
        BY <1>10 DEF start_service
      <3>2. \A r \in cloud : r.kind = Run => r \in cloud'
        BY <3>1 DEF Ours, Run
      <3>3. cloud' \subseteq cloud
        BY <3>1
      <3> QED BY <3>2, <3>3 DEF Exact, RunShas, RunsStay
    <2> QED BY <2>1, <2>2, ExactKept
  <1> QED
    BY <1>2, <1>3, <1>4, <1>5, <1>8, <1>9, <1>10 DEF Launching

LEMMA ExactRotation ==
    ASSUME LabInv, Exact, resume \/ rearm \/ RearmRotate \/ warm_storage \/ StopDocker
           \/ \E c \in 1 .. MaxCommit : launch(c)
    PROVE  Exact'
  <1>1. file \in Files /\ mem \in Files
    BY DEF LabInv, Types
  <1>2. CASE resume
    <2>1. OrderStays
      BY <1>1, <1>2 DEF resume, save_state, OrderStays, Files
    <2> QED BY <1>2, <2>1, SameRuns, ExactKept DEF resume, Quiet
  <1>3. CASE rearm \/ warm_storage \/ StopDocker
    BY <1>3, SameRuns, ExactKept DEF rearm, warm_storage, StopDocker, Quiet, OrderStays
  <1>4. CASE RearmRotate
    <2>1. file'.phase # "dispatched" /\ file'.sha = None
      BY <1>1, <1>4 DEF RearmRotate, save_state, Files
    <2> QED BY <1>4, <2>1, SameRuns, ExactKept DEF RearmRotate, Quiet, OrderStays
  <1>5. ASSUME NEW c \in 1 .. MaxCommit, launch(c) PROVE Exact'
    <2>1. file'.phase # "dispatched" /\ file'.sha = None
      BY <1>5, NoFileFacts DEF launch, save_state, NoFile
    <2> QED BY <1>5, <2>1, SameRuns, ExactKept DEF launch, Quiet, OrderStays
  <1> QED BY <1>2, <1>3, <1>4, <1>5

LEMMA ExactDispatch ==
    ASSUME LabInv, Exact, NEW b \in Branches, dispatch(b)
    PROVE  Exact'
  <1> DEFINE sha == IF b = "main" THEN file.commit ELSE heads[b]
  <1>1. /\ file' = [file EXCEPT !.branch = b, !.sha = sha, !.pending = @ \union {Run}]
        /\ UNCHANGED <<cloud, heads, hosted>>
        /\ file.phase = "ready" /\ heads[b] = sha
        /\ b = "main" => prove_hosted_regression(sha)
    BY DEF dispatch, save_state, Quiet, Run
  <1>2. file \in Files /\ sha \in Nat
    BY <1>1 DEF LabInv, Types, Files
  <1>3. /\ file'.branch = b /\ file'.sha = sha /\ file'.commit = file.commit
        /\ file'.phase = "ready"
    BY <1>1, <1>2 DEF Files
  <1>4. b = "main" => sha = file.commit /\ hosted[sha] = "success" /\ sha <= heads["main"]
    BY <1>1, <1>2 DEF prove_hosted_regression, verify_workflow_runs, verify_workflow_jobs
  <1> HIDE DEF sha
  <1>5. Candidate'
    BY <1>1, <1>3, <1>4 DEF Candidate
  <1>6. DispatchedRunIsExact'
    BY <1>3 DEF DispatchedRunIsExact
  <1>7. Pushed' /\ RunShas'
    BY <1>1 DEF Exact, Pushed, RunShas
  <1> QED BY <1>5, <1>6, <1>7 DEF Exact

\* Both ways to "dispatched" look at the recorded run.
LEMMA ExactCheck ==
    ASSUME LabInv, Exact, UNCHANGED <<cloud, heads, hosted>>,
           file' = [file EXCEPT !.phase = "dispatched"],
           NEW r \in resource_get(file, Run), recorded_workflow(r, file)
    PROVE  Exact'
  <1>1. /\ file'.branch = file.branch /\ file'.sha = file.sha /\ file'.commit = file.commit
        /\ file'.id = file.id /\ file'.nonce = file.nonce
    BY DEF LabInv, Types, Files
  <1>2. r \in cloud /\ r.kind = Run /\ r.nonce = file.id[Run]
    BY DEF resource_get, Ours
  <1>3. r.sha # None /\ r.sha = file.sha /\ r.branch = file.branch /\ r.nonce = file.nonce
    BY <1>2 DEF Exact, RunShas, recorded_workflow
  <1>4. r.branch = "main" => r.sha = file.commit /\ hosted[r.sha] = "success"
    BY <1>3 DEF Exact, Candidate
  <1>5. DispatchedRunIsExact'
    BY <1>1, <1>2, <1>3, <1>4 DEF DispatchedRunIsExact, Ours, recorded_workflow, Run
  <1>6. Pushed' /\ RunShas' /\ Candidate'
    BY <1>1 DEF Exact, Pushed, RunShas, Candidate
  <1> QED BY <1>5, <1>6 DEF Exact

LEMMA ExactVerify ==
    ASSUME LabInv, Exact, AdoptDispatch \/ VerifyDispatch \/ LookupFailed \/ destroy \/ Crash
    PROVE  Exact'
  <1>1. CASE AdoptDispatch
    BY <1>1, ExactCheck DEF AdoptDispatch, save_state, Quiet, Run
  <1>2. CASE VerifyDispatch
    <2>1. mem = file /\ UNCHANGED <<cloud, heads, hosted>>
      BY <1>2 DEF VerifyDispatch, Quiet, LabInv, Progress, Copies
    <2>2. CASE file' = file
      BY <2>1, <2>2, SameRuns, ExactKept DEF OrderStays
    <2>3. CASE file' # file
      BY <1>2, <2>1, <2>3, ExactCheck DEF VerifyDispatch, save_state, Run
    <2> QED BY <2>2, <2>3
  <1>3. CASE LookupFailed \/ destroy \/ Crash
    BY <1>3, SameRuns, ExactKept DEF LookupFailed, destroy, Crash, Abort, Quiet, OrderStays
  <1> QED BY <1>1, <1>2, <1>3

LEMMA ExactDestroying == LabInv /\ Exact /\ Destroying => Exact'
  <1> SUFFICES ASSUME LabInv, Exact, Destroying PROVE Exact'
    OBVIOUS
  <1>1. file \in Files /\ (pc \notin {"record", "rotate"} => mem = file)
    BY DEF LabInv, Types, Progress, Copies
  <1>2. CASE recover_pending
    <2>1. mem = file /\ UNCHANGED <<cloud, heads, hosted>>
      BY <1>1, <1>2 DEF recover_pending, Quiet
    <2>2. CASE file' = file
      BY <2>1, <2>2, SameRuns, ExactKept DEF OrderStays
    <2>3. CASE file' # file
      <3>1. PICK k \in file.pending, r \in cloud :
              file' = [file EXCEPT !.id[k] = r.nonce, !.pending = @ \ {k}]
        BY <1>2, <2>1, <2>3 DEF recover_pending, save_state, Abort, Matching
      <3>2. k \in Kinds /\ Run \in Kinds
        BY <1>1, KindFacts DEF Files
      <3>3. /\ file'.branch = file.branch /\ file'.sha = file.sha /\ file'.commit = file.commit
            /\ file'.phase = file.phase /\ file'.nonce = file.nonce
            /\ k # Run => file'.id[Run] = file.id[Run]
        BY <1>1, <3>1, <3>2 DEF Files
      <3>4. OrderStays
        BY <3>1, <3>3, DispatchedHasRun DEF OrderStays
      <3> QED BY <2>1, <3>4, SameRuns, ExactKept
    <2> QED BY <2>2, <2>3
  <1>3. CASE cancel_workflow_run
    <2> DEFINE R == {r \in resource_get(mem, "workflow_run") : r.status # "completed"}
    <2>1. Cancelled(R) /\ UNCHANGED <<file, heads, hosted>>
      BY <1>3 DEF cancel_workflow_run, Abort
    <2>2. R \in SUBSET cloud /\ \A r \in R : r.kind = Run
      BY DEF resource_get, Ours, Run
    <2> HIDE DEF R
    <2>3. RunsStay
      BY <2>1, <2>2, CancelledRuns
    <2> QED BY <2>1, <2>3, ExactKept DEF OrderStays
  <1>4. CASE delete_and_confirm
    <2>1. kind # Run
      BY <1>4 DEF delete_and_confirm, LabInv, Progress, Emptying
    <2>2. /\ cloud' \in {cloud, cloud \ resource_get(mem, kind)}
          /\ UNCHANGED <<file, heads, hosted>>
      BY <1>4 DEF delete_and_confirm
    <2>3. RunsStay
      <3>1. \A r \in cloud : r.kind = Run => r \in cloud'
        BY <2>1, <2>2 DEF resource_get, Ours
      <3>2. cloud' \subseteq cloud
        BY <2>2
      <3> QED BY <3>1, <3>2 DEF Exact, RunShas, RunsStay
    <2> QED BY <2>2, <2>3, ExactKept DEF OrderStays
  <1>5. CASE DestroyFinish
    <2>1. mem = file
      BY <1>1, <1>5 DEF DestroyFinish
    <2>2. OrderStays
      <3>1. CASE errors
        BY <1>1, <1>5, <2>1, <3>1 DEF DestroyFinish, save_state, OrderStays, Files
      <3>2. CASE ~errors
        BY <1>5, <3>2 DEF DestroyFinish, save_state, OrderStays, NoFile
      <3> QED BY <3>1, <3>2
    <2> QED BY <1>5, <2>2, SameRuns, ExactKept DEF DestroyFinish
  <1> QED BY <1>2, <1>3, <1>4, <1>5 DEF Destroying

LEMMA ExactServer ==
    ASSUME LabInv, Exact, NEW q \in flight, ServerApply(q) \/ ServerReject(q)
    PROVE  Exact'
  <1>1. CASE ServerReject(q)
    BY <1>1, SameRuns, ExactKept DEF ServerReject, OrderStays
  <1>2. CASE ServerApply(q)
    <2> DEFINE r == IF q.kind = "workflow_run"
                    THEN [q EXCEPT !.sha = heads[q.branch], !.status = "queued"]
                    ELSE [q EXCEPT !.branch = "main"]
    <2>1. cloud' = cloud \union {r} /\ UNCHANGED <<file, heads, hosted>>
      BY <1>2 DEF ServerApply
    <2>2. q \in Resources
      BY DEF LabInv, Types
    <2>3. r.kind = Run => r.sha # None
      <3>1. CASE q.kind = Run
        <4>1. r.sha = heads[q.branch]
          BY <2>2, <3>1 DEF Resources, Run
        <4> QED BY <2>2, <4>1 DEF Exact, Pushed, Resources, None
      <3>2. CASE q.kind # Run
        BY <2>2, <3>2 DEF Resources, Run
      <3> QED BY <3>1, <3>2
    <2> HIDE DEF r
    <2>4. RunsStay
      BY <2>1, <2>3 DEF Exact, RunShas, RunsStay
    <2> QED BY <2>1, <2>4, ExactKept DEF OrderStays
  <1> QED BY <1>1, <1>2

LEMMA ExactPush ==
    ASSUME LabInv, Exact, NEW b \in Branches, Push(b)
    PROVE  Exact'
  <1>1. PICK c \in 1 .. MaxCommit :
          /\ \A d \in Branches : heads[d] < c
          /\ heads' = [heads EXCEPT ![b] = c]
          /\ \/ \E o \in {"none", "success", "skipped"} : hosted' = [hosted EXCEPT ![c] = o]
             \/ hosted' = hosted
    BY DEF Push
  <1>2. UNCHANGED <<file, cloud>>
    BY DEF Push
  <1>3. MaxCommit \in Nat /\ "main" \in Branches /\ c \in Nat \ {0}
    BY LabAssumption, <1>1 DEF Branches
  <1>4. heads' \in [Branches -> Nat \ {0}] /\ heads["main"] <= heads'["main"]
        /\ heads["main"] < c
    BY <1>1, <1>3 DEF Exact, Pushed
  <1>5. /\ hosted' \in [1 .. MaxCommit -> {"none", "success", "skipped"}]
        /\ \A d \in 1 .. MaxCommit : d # c => hosted'[d] = hosted[d]
    BY <1>1 DEF Exact, Pushed
  <1>6. file.sha \in Nat
    BY DEF LabInv, Types, Files
  <1>7. file.branch = "main" /\ file.sha # None =>
          hosted'[file.sha] = hosted[file.sha] /\ file.sha <= heads'["main"]
    <2> SUFFICES ASSUME file.branch = "main", file.sha # None
                 PROVE  hosted'[file.sha] = hosted[file.sha] /\ file.sha <= heads'["main"]
      OBVIOUS
    <2>1. file.sha <= heads["main"] /\ heads["main"] \in Nat /\ heads'["main"] \in Nat
      BY <1>3, <1>4 DEF Exact, Candidate, Pushed
    <2>2. file.sha < c /\ file.sha \in 1 .. MaxCommit /\ file.sha <= heads'["main"]
      BY <1>1, <1>3, <1>4, <1>6, <2>1 DEF None
    <2> QED BY <1>5, <2>2
  <1>8. Pushed' /\ RunShas' /\ Candidate'
    BY <1>2, <1>4, <1>5, <1>7 DEF Exact, Pushed, RunShas, Candidate
  <1>9. DispatchedRunIsExact'
    <2> SUFFICES ASSUME file.phase = "dispatched"
                 PROVE  \E r \in cloud :
                          /\ r.kind = Run /\ r.nonce = file.id[Run]
                          /\ r.sha = file.sha /\ r.branch = file.branch /\ r.nonce = file.nonce
                          /\ r.branch = "main" => r.sha = file.commit /\ hosted'[r.sha] = "success"
      BY <1>2 DEF DispatchedRunIsExact, Ours, recorded_workflow, Run
    <2>1. PICK r \in cloud :
            /\ r.kind = Run /\ r.nonce = file.id[Run]
            /\ r.sha = file.sha /\ r.branch = file.branch /\ r.nonce = file.nonce
            /\ r.branch = "main" => r.sha = file.commit /\ hosted[r.sha] = "success"
      BY DEF Exact, DispatchedRunIsExact, Ours, recorded_workflow, Run
    <2>2. r.sha # None
      BY <2>1 DEF Exact, RunShas
    <2> QED BY <1>7, <2>1, <2>2
  <1> QED BY <1>8, <1>9 DEF Exact

LEMMA ExactJob ==
    ASSUME LabInv, Exact, NEW r \in cloud, JobStart(r) \/ JobEnd(r)
    PROVE  Exact'
  <1>1. r \in Resources
    BY DEF LabInv, Types
  <1>2. CASE JobStart(r)
    <2> DEFINE s == [r EXCEPT !.status = "running"]
    <2>1. s.kind = r.kind /\ s.nonce = r.nonce /\ s.branch = r.branch /\ s.sha = r.sha
      BY <1>1 DEF Resources
    <2>2. cloud' = (cloud \ {r}) \union {s} /\ UNCHANGED <<file, heads, hosted>>
      BY <1>2 DEF JobStart
    <2> HIDE DEF s
    <2>3. RunsStay
      BY <2>1, <2>2 DEF Exact, RunShas, RunsStay
    <2> QED BY <2>2, <2>3, ExactKept DEF OrderStays
  <1>3. CASE JobEnd(r)
    <2>1. r.kind = Run
      BY <1>3 DEF JobEnd, LabInv, Books, Lives
    <2>2. RunsStay /\ UNCHANGED <<file, heads, hosted>>
      BY <1>3, <2>1, CancelledRuns DEF JobEnd
    <2> QED BY <2>2, ExactKept DEF OrderStays
  <1> QED BY <1>2, <1>3

LEMMA ExactStep == LabInv /\ Exact /\ [Next]_vars => Exact'
  <1> SUFFICES ASSUME LabInv, Exact, [Next]_vars PROVE Exact'
    OBVIOUS
  <1>1. CASE Launching
    BY <1>1, ExactLaunching
  <1>2. CASE resume \/ rearm \/ RearmRotate \/ warm_storage \/ StopDocker
             \/ \E c \in 1 .. MaxCommit : launch(c)
    BY <1>2, ExactRotation
  <1>3. ASSUME NEW b \in Branches, dispatch(b) \/ Push(b) PROVE Exact'
    BY <1>3, ExactDispatch, ExactPush
  <1>4. CASE AdoptDispatch \/ VerifyDispatch \/ LookupFailed \/ destroy \/ Crash
    BY <1>4, ExactVerify
  <1>5. CASE Destroying
    BY <1>5, ExactDestroying
  <1>6. ASSUME NEW q \in flight, ServerApply(q) \/ ServerReject(q) PROVE Exact'
    BY <1>6, ExactServer
  <1>7. ASSUME NEW r \in cloud, JobStart(r) \/ JobEnd(r) PROVE Exact'
    BY <1>7, ExactJob
  <1>8. CASE UNCHANGED vars
    BY <1>8, SameRuns, ExactKept DEF vars, OrderStays
  <1> QED BY <1>1, <1>2, <1>3, <1>4, <1>5, <1>6, <1>7, <1>8 DEF Next

\* DispatchedRunIsExact: a lab is recorded as dispatched only after a look at
\* the run (dispatch's verification and its adoption branch), and no push,
\* crash, cancellation or late answer afterwards makes the recorded branch,
\* commit and nonce those of another run, or takes the hosted regression away
\* from the prepared commit.
THEOREM DispatchIsExact == Spec => []DispatchedRunIsExact
  <1>1. Init => Exact
    <2> SUFFICES ASSUME Init PROVE Exact
      OBVIOUS
    <2>1. Pushed
      BY LabAssumption DEF Init, Pushed
    <2>2. NoFile.sha = None
      BY DEF NoFile
    <2> QED
      BY <2>1, <2>2, NoFileFacts
      DEF Init, Exact, RunShas, Candidate, DispatchedRunIsExact
  <1>2. Exact => DispatchedRunIsExact
    BY DEF Exact
  <1> QED BY <1>1, <1>2, ExactStep, Inductive, PTL DEF Spec
=============================================================================
