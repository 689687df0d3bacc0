-------------------------------- MODULE Lab --------------------------------
(***************************************************************************)
(* The DigitalOcean/GitHub lab controller of scripts/swan_song_lab.py: one *)
(* local state file, a fixed list of cloud resources created one call at a *)
(* time with a "pending" record saved before each call, a one-job runner   *)
(* bound to a nonce, a workflow dispatched with the same nonce, and a      *)
(* destroy that may delete the state file only when nothing is left.       *)
(*                                                                         *)
(* The operator runs one command at a time.  A command is a sequence of    *)
(* atomic steps between which it can crash, the servers can act, branches  *)
(* can move and the runner can do its job.  Requests can be applied after  *)
(* the client gave up on them.                                             *)
(***************************************************************************)
EXTENDS Naturals, Sequences, FiniteSets

CONSTANTS
    Infra,       \* the resources launch creates, in order
    MaxNonce,    \* bound: runner generations (launches and rearms)
    MaxCommit,   \* bound: commits ever pushed
    MaxCrashes   \* bound: interruptions of the local command

ASSUME LabAssumption ==
    /\ Infra \in Seq({"tag", "firewall", "volume", "droplet"})
    /\ Len(Infra) > 0
    /\ \A i, j \in 1 .. Len(Infra) : Infra[i] = Infra[j] => i = j
    /\ {MaxNonce, MaxCommit, MaxCrashes} \subseteq Nat

Kinds == {Infra[i] : i \in 1 .. Len(Infra)} \union {"runner", "workflow_run"}
Branches == {"main", "refresh"}
None == 0

VARIABLES
    file,      \* state.json; phase "absent" stands for no file
    mem,       \* the running command's copy of it
    pc,        \* where the running command is; "idle" when there is none
    kind,      \* the resource the running command is creating or deleting
    errors,    \* destroy met a deletion it could not confirm
    cloud,     \* resources that exist
    flight,    \* create requests the servers have not decided
    heads,     \* branch heads on GitHub
    hosted,    \* what the hosted regression of each commit came to
    remote,    \* commit checked out beside the image on the Droplet
    service,   \* nonce of the runner service on the Droplet
    warm,      \* containerd's store was moved to the volume
    nonces,    \* nonces handed out so far
    crashes

vars == <<file, mem, pc, kind, errors, cloud, flight, heads, hosted, remote,
          service, warm, nonces, crashes>>

NoFile ==
    [phase |-> "absent", commit |-> None, suffix |-> None, nonce |-> None,
     rname |-> None, id |-> [k \in Kinds |-> None], pending |-> {},
     branch |-> "main", sha |-> None]

Init ==
    /\ file = NoFile /\ mem = NoFile /\ pc = "idle" /\ kind = Infra[1]
    /\ errors = FALSE
    /\ cloud = {} /\ flight = {}
    /\ heads = [b \in Branches |-> 1]
    /\ hosted = [c \in 1 .. MaxCommit |-> IF c = 1 THEN "success" ELSE "none"]
    /\ remote = None /\ service = None /\ warm = FALSE
    /\ nonces = 0 /\ crashes = 0

---------------------------------------------------------------------------
\* The resources.  A create is identified by the nonce of the state that
\* asked for it; its name is what an inventory shows.

\* The name under which a state file knows a resource: launch derives it from
\* the lab's name and commit, rearm makes a new runner name, a run carries the
\* nonce.
resource_names(s, k) ==
    CASE k = "runner" -> s.rname
      [] k = "workflow_run" -> s.nonce
      [] OTHER -> s.suffix

Request(s, k) ==
    [kind |-> k, name |-> resource_names(s, k), nonce |-> s.nonce,
     branch |-> s.branch, sha |-> None, status |-> "new"]

Ours(s, k) == {r \in cloud : r.kind = k /\ r.nonce = s.id[k]}

\* resource_get answers "absent" only for an explicit 404 on the recorded ID.
resource_get(s, k) == IF s.id[k] = None THEN {} ELSE Ours(s, k)

Live == {r \in cloud : r.status # "completed"}

\* validate_runner_identity: the exact name and exactly this job's label.
validate_runner_identity(r, s) == r.name = s.rname /\ r.nonce = s.nonce

\* The run is this lab's run: commit, branch, event and nonce-bearing title.
recorded_workflow(r, s) ==
    r.sha = s.sha /\ r.branch = s.branch /\ r.nonce = s.nonce

---------------------------------------------------------------------------
\* Local steps.  save_state replaces the file atomically.

save_state(s) == file' = s /\ mem' = s

Goto(label) == pc' = label

\* The command is over; its memory is gone.
Exit == pc' = "idle" /\ kind' = Infra[1] /\ errors' = FALSE

\* A LabError outside launch, resume and rearm leaves the file as it was.
Abort == Exit /\ UNCHANGED file /\ mem' = file

\* The except clause shared by launch, resume and rearm.
Stopped == save_state([mem EXCEPT !.phase = "failed"]) /\ Exit

Raise == IF kind = "workflow_run" THEN Abort ELSE Stopped

Quiet == UNCHANGED <<cloud, flight, heads, hosted, remote, service, warm>>

\* Mutant: the pending record stays in memory.
mark_pending_unsaved ==
    /\ pc = "mark"
    /\ mem' = [mem EXCEPT !.pending = @ \union {kind}]
    /\ Goto("send") /\ UNCHANGED <<file, kind, errors, nonces, crashes>> /\ Quiet

mark_pending ==
    /\ pc = "mark"
    /\ save_state([mem EXCEPT !.pending = @ \union {kind}])
    /\ Goto("send") /\ UNCHANGED <<kind, errors, nonces, crashes>> /\ Quiet

\* The create call leaves; from here on the outcome is the servers'.
SendCreate ==
    /\ pc = "send"
    /\ flight' = flight \union {Request(mem, kind)}
    /\ Goto("await")
    /\ UNCHANGED <<file, mem, kind, errors, cloud, heads, hosted, remote,
                   service, warm, nonces, crashes>>

\* The call returned the new resource's ID.
CreateReply ==
    /\ pc = "await"
    /\ \E r \in cloud : r.kind = kind /\ r.nonce = mem.nonce
    /\ mem' = [mem EXCEPT !.id[kind] = mem.nonce]
    /\ Goto("record")
    /\ UNCHANGED <<file, kind, errors, nonces, crashes>> /\ Quiet

\* The call failed, timed out, or answered without an ID.
CreateFailed ==
    /\ pc = "await" /\ Raise
    /\ UNCHANGED <<nonces, crashes>> /\ Quiet

After(k) ==
    LET i == CHOOSE n \in 1 .. Len(Infra) : Infra[n] = k
    IN  IF i < Len(Infra) THEN Infra[i + 1] ELSE "runner"

clear_pending ==
    /\ pc = "record"
    /\ save_state([mem EXCEPT !.pending = @ \ {kind}])
    /\ CASE kind = "runner" -> Goto("service") /\ UNCHANGED kind
         [] kind = "workflow_run" -> Goto("verify") /\ UNCHANGED kind
         [] OTHER -> /\ kind' = After(kind)
                     /\ Goto(IF kind' = "runner" THEN "boot" ELSE "mark")
    /\ UNCHANGED <<errors, nonces, crashes>> /\ Quiet

---------------------------------------------------------------------------
\* launch

\* The local commit must be the default branch's head.
preflight_apply(c) == c = heads["main"]

\* A fresh nonce and every planned name are saved before the first call.
launch(c) ==
    /\ pc = "idle" /\ file.phase = "absent" /\ nonces < MaxNonce
    /\ preflight_apply(c)
    /\ nonces' = nonces + 1
    /\ save_state([NoFile EXCEPT !.phase = "creating",
                                 !.commit = c, !.suffix = c, !.rname = c,
                                 !.nonce = nonces + 1])
    /\ kind' = Infra[1]
    /\ \/ Goto("mark")
       \/ Goto("idle")            \* the known_hosts file could not be created
    /\ UNCHANGED <<errors, crashes>> /\ Quiet

\* wait_for_droplet and wait_for_ssh: bounded waits.
wait_for_ssh ==
    /\ pc = "boot"
    /\ \/ /\ save_state([mem EXCEPT !.phase = "preparing-quartus"])
          /\ Goto("prepare") /\ UNCHANGED <<kind, errors>>
       \/ Stopped
    /\ UNCHANGED <<nonces, crashes>> /\ Quiet

\* The archive is copied, the commit checked out and the image built; a
\* failure can come before or after the checkout.
prepare_remote ==
    /\ pc = "prepare"
    /\ \/ /\ remote' = mem.commit
          /\ save_state([mem EXCEPT !.phase = "installing-runner"])
          /\ Goto("install") /\ UNCHANGED <<kind, errors>>
       \/ remote' \in {remote, mem.commit} /\ Stopped
    /\ UNCHANGED <<cloud, flight, heads, hosted, service, warm, nonces, crashes>>

install_runner ==
    /\ pc = "install"
    /\ \/ Goto("register") /\ UNCHANGED <<file, mem, kind, errors>>
       \/ Stopped
    /\ UNCHANGED <<nonces, crashes>> /\ Quiet

\* An uncertain or recorded registration is never retried.
register_runner ==
    /\ pc = "register"
    /\ IF mem.id["runner"] # None \/ "runner" \in mem.pending
       THEN Stopped
       ELSE kind' = "runner" /\ Goto("mark") /\ UNCHANGED <<file, mem, errors>>
    /\ UNCHANGED <<nonces, crashes>> /\ Quiet

\* The job configuration goes to the Droplet; if that fails the registration
\* is withdrawn, the outcome of the withdrawal unchecked.
start_service ==
    /\ pc = "service"
    /\ \/ /\ service' = mem.nonce
          /\ Goto("online")
          /\ UNCHANGED <<file, mem, kind, errors, cloud>>
       \/ /\ cloud' \in {cloud, cloud \ Ours(mem, "runner")}
          /\ service' \in {service, mem.nonce}
          /\ Stopped
    /\ UNCHANGED <<flight, heads, hosted, remote, warm, nonces, crashes>>

wait_runner_online ==
    /\ pc = "online"
    /\ \/ /\ \E r \in resource_get(mem, "runner") : validate_runner_identity(r, mem)
          /\ service = mem.nonce
          /\ save_state([mem EXCEPT !.phase = "ready"])
          /\ Exit
       \/ Stopped
    /\ UNCHANGED <<nonces, crashes>> /\ Quiet

---------------------------------------------------------------------------
\* resume, rearm and warm-storage

\* The image and the checkout must still be the recorded commit's, and the
\* default branch must not have moved.
resume ==
    /\ pc = "idle"
    /\ file.phase \in {"preparing-quartus", "installing-runner", "failed"}
    /\ file.id["runner"] = None /\ file.pending = {}
    /\ heads["main"] = file.commit
    /\ remote = file.commit /\ resource_get(file, Infra[Len(Infra)]) # {}
    /\ save_state([file EXCEPT !.phase = "installing-runner"])
    /\ kind' = "runner"
    /\ Goto("install") /\ UNCHANGED <<errors, nonces, crashes>> /\ Quiet

\* The first half of rearm: the prior run is this lab's and completed, the
\* prior runner is gone, and the source on the Droplet moves to the new head.
rearm ==
    /\ pc = "idle" /\ file.phase = "dispatched" /\ file.pending = {}
    /\ file.id["workflow_run"] # None /\ file.id["runner"] # None
    /\ \E r \in resource_get(file, "workflow_run") :
          r.status = "completed" /\ recorded_workflow(r, file)
    /\ resource_get(file, "runner") = {}
    /\ resource_get(file, Infra[Len(Infra)]) # {}
    /\ nonces < MaxNonce
    /\ mem' = [file EXCEPT !.commit = heads["main"]]
    /\ remote' = heads["main"]
    /\ Goto("rotate")
    /\ UNCHANGED <<file, kind, errors, cloud, flight, heads, hosted, service,
                   warm, nonces, crashes>>

\* The second half: runner name, nonce and run records rotate in one save.
RearmRotate ==
    /\ pc = "rotate"
    /\ nonces' = nonces + 1
    /\ save_state([mem EXCEPT !.phase = "installing-runner",
                              !.nonce = nonces + 1, !.rname = nonces + 1 + MaxCommit,
                              !.id["runner"] = None, !.id["workflow_run"] = None,
                              !.branch = "main", !.sha = None])
    /\ kind' = "runner"
    /\ Goto("install") /\ UNCHANGED <<errors, crashes>> /\ Quiet

\* warm-storage stops Docker, so it looks for the recorded runner and run
\* first (pc "stop" is between the look and the stop).
warm_storage ==
    /\ pc = "idle" /\ file.phase # "absent" /\ ~warm
    /\ resource_get(file, "runner") = {}
    /\ \A r \in resource_get(file, "workflow_run") : r.status = "completed"
    /\ mem' = file /\ Goto("stop")
    /\ UNCHANGED <<file, kind, errors, nonces, crashes>> /\ Quiet

StopDocker ==
    /\ pc = "stop"
    /\ warm' \in {warm, TRUE}           \* any failure restores the old store
    /\ Exit
    /\ UNCHANGED <<file, mem, cloud, flight, heads, hosted, remote, service,
                   nonces, crashes>>

---------------------------------------------------------------------------
\* dispatch

\* A run of the regression workflow for the commit that concluded "success"...
verify_workflow_runs(c) == hosted[c] \in {"success", "skipped"}

\* ...and whose one hosted job ran every required step.
verify_workflow_jobs(c) == hosted[c] # "skipped"

prove_hosted_regression(c) == verify_workflow_runs(c) /\ verify_workflow_jobs(c)

\* Mutant: an uncertain dispatch is retried.
dispatch_retried(b) ==
    LET sha == IF b = "main" THEN file.commit ELSE heads[b] IN
    /\ pc = "idle" /\ file.phase = "ready" /\ file.id["runner"] # None
    /\ file.id["workflow_run"] = None
    /\ heads[b] = sha
    /\ b = "main" => prove_hosted_regression(sha)
    /\ save_state([file EXCEPT !.branch = b, !.sha = sha,
                               !.pending = @ \union {"workflow_run"}])
    /\ kind' = "workflow_run" /\ Goto("send")
    /\ UNCHANGED <<errors, nonces, crashes>> /\ Quiet

\* A candidate runs on the default branch at the prepared commit, with a
\* hosted regression; a refresh runs on its own branch at the commit asked for.
\* The branch, the commit and the pending record are one save.
dispatch(b) ==
    LET sha == IF b = "main" THEN file.commit ELSE heads[b] IN
    /\ pc = "idle" /\ file.phase = "ready" /\ file.id["runner"] # None
    /\ file.id["workflow_run"] = None /\ "workflow_run" \notin file.pending
    /\ heads[b] = sha
    /\ b = "main" => prove_hosted_regression(sha)
    /\ save_state([file EXCEPT !.branch = b, !.sha = sha,
                               !.pending = @ \union {"workflow_run"}])
    /\ kind' = "workflow_run" /\ Goto("send")
    /\ UNCHANGED <<errors, nonces, crashes>> /\ Quiet

\* A run already recorded is adopted only when it is the recorded one.
AdoptDispatch ==
    /\ pc = "idle" /\ file.phase = "ready" /\ file.id["runner"] # None
    /\ \E r \in resource_get(file, "workflow_run") : recorded_workflow(r, file)
    /\ save_state([file EXCEPT !.phase = "dispatched"])
    /\ UNCHANGED <<pc, kind, errors, nonces, crashes>> /\ Quiet

\* Mutant: the returned run ID is trusted.
VerifyDispatchTrusting ==
    /\ pc = "verify"
    /\ save_state([mem EXCEPT !.phase = "dispatched"]) /\ Exit
    /\ UNCHANGED <<nonces, crashes>> /\ Quiet

VerifyDispatch ==
    /\ pc = "verify"
    /\ IF \E r \in resource_get(mem, "workflow_run") : recorded_workflow(r, mem)
       THEN /\ save_state([mem EXCEPT !.phase = "dispatched"])
            /\ Exit
       ELSE Goto("cancel") /\ UNCHANGED <<file, mem, kind, errors>>
    /\ UNCHANGED <<nonces, crashes>> /\ Quiet

\* A look-up that fails otherwise than by 404 is an error, not an absence.
LookupFailed ==
    /\ pc \in {"verify", "cancel", "d_cancel", "d_delete"} /\ Abort
    /\ UNCHANGED <<nonces, crashes>> /\ Quiet

\* A cancelled run stops; the one-job runner of a run that had started goes.
Cancelled(R) ==
    /\ cloud' = {r \in cloud :
                    r \notin R /\ ~(r.kind = "runner" /\ \E q \in R :
                                        q.status = "running" /\ q.nonce = r.nonce)}
                \union {[r EXCEPT !.status = "completed"] : r \in R}
    /\ service' = IF \E q \in R : q.status = "running" /\ q.nonce = service
                  THEN None ELSE service

cancel_workflow_run ==
    /\ pc \in {"cancel", "d_cancel"}
    /\ LET R == {r \in resource_get(mem, "workflow_run") : r.status # "completed"}
       IN  Cancelled(R)
    /\ IF pc = "cancel"
       THEN Abort
       ELSE Goto("d_delete") /\ kind' = "runner" /\ UNCHANGED <<file, mem, errors>>
    /\ UNCHANGED <<flight, heads, hosted, remote, warm, nonces,
                   crashes>>

---------------------------------------------------------------------------
\* destroy

destroy ==
    /\ pc = "idle" /\ file.phase # "absent"
    /\ mem' = file /\ errors' = FALSE /\ Goto("d_recover")
    /\ UNCHANGED <<file, kind, nonces, crashes>> /\ Quiet

\* What an inventory shows under the pending resource's exact name; it must
\* be this lab's, and the run must carry the recorded branch and commit.
Matching(k) ==
    {r \in cloud : /\ r.kind = k
                   /\ r.name = resource_names(mem, k)
                   /\ k = "workflow_run" => recorded_workflow(r, mem)}

\* One pending create is reconciled by name; the list may not show it yet, and
\* then destroy stops and keeps the record.
recover_pending ==
    /\ pc = "d_recover"
    /\ IF mem.pending = {}
       THEN Goto("d_cancel") /\ save_state(mem) /\ UNCHANGED <<kind, errors>>
       ELSE \E k \in mem.pending :
              \/ \E r \in Matching(k) :
                    /\ k = "runner" => validate_runner_identity(r, mem)
                    /\ Cardinality(Matching(k)) = 1
                    /\ save_state([mem EXCEPT !.id[k] = r.nonce, !.pending = @ \ {k}])
                    /\ UNCHANGED <<pc, kind, errors>>
              \/ Abort
    /\ UNCHANGED <<nonces, crashes>> /\ Quiet

\* The kind destroy handles after k: runner, then launch's in reverse.
Before(k) ==
    IF k = "runner" THEN Infra[Len(Infra)]
    ELSE LET i == CHOOSE n \in 1 .. Len(Infra) : Infra[n] = k
         IN  IF i > 1 THEN Infra[i - 1] ELSE "none"

\* Mutant: deleting what is already absent counts as a failure.
delete_and_confirm_strict ==
    /\ pc = "d_delete"
    /\ cloud' = cloud \ resource_get(mem, kind)
    /\ errors' = (errors \/ (mem.id[kind] # None /\ cloud' = cloud))
    /\ service' = IF kind = "droplet" /\ cloud' # cloud THEN None ELSE service
    /\ remote' = IF kind = "droplet" /\ cloud' # cloud THEN None ELSE remote
    /\ IF Before(kind) = "none" THEN Goto("d_finish") /\ UNCHANGED kind
                                ELSE kind' = Before(kind) /\ UNCHANGED pc
    /\ UNCHANGED <<file, mem, flight, heads, hosted, warm, nonces, crashes>>

\* Absence is confirmed, or the deletion is reported and the next one tried.
delete_and_confirm ==
    /\ pc = "d_delete"
    /\ \/ cloud' = cloud \ resource_get(mem, kind) /\ UNCHANGED errors
       \/ /\ resource_get(mem, kind) # {}
          /\ cloud' \in {cloud, cloud \ resource_get(mem, kind)}
          /\ errors' = TRUE
    /\ service' = IF kind = "droplet" /\ cloud' # cloud THEN None ELSE service
    /\ remote' = IF kind = "droplet" /\ cloud' # cloud THEN None ELSE remote
    /\ IF Before(kind) = "none" THEN Goto("d_finish") /\ UNCHANGED kind
                                ELSE kind' = Before(kind) /\ UNCHANGED pc
    /\ UNCHANGED <<file, mem, flight, heads, hosted, warm, nonces, crashes>>

DestroyFinish ==
    /\ pc = "d_finish"
    /\ IF errors THEN save_state([mem EXCEPT !.phase = "destroy-failed"])
                 ELSE save_state(NoFile)
    /\ Exit
    /\ warm' = IF errors THEN warm ELSE FALSE
    /\ UNCHANGED <<cloud, flight, heads, hosted, remote, service,
                   nonces, crashes>>

---------------------------------------------------------------------------
\* The environment

\* A run takes the head its branch has when the request is applied.
ServerApply(q) ==
    /\ q \in flight /\ flight' = flight \ {q}
    /\ cloud' = cloud \union
         {IF q.kind = "workflow_run"
          THEN [q EXCEPT !.sha = heads[q.branch], !.status = "queued"]
          ELSE [q EXCEPT !.branch = "main"]}
    /\ UNCHANGED <<file, mem, pc, kind, errors, heads, hosted, remote, service,
                   warm, nonces, crashes>>

ServerReject(q) ==
    /\ q \in flight /\ flight' = flight \ {q}
    /\ UNCHANGED <<file, mem, pc, kind, errors, cloud, heads, hosted, remote,
                   service, warm, nonces, crashes>>

Push(b) ==
    /\ \E c \in 1 .. MaxCommit :
          /\ \A d \in Branches : heads[d] < c
          /\ heads' = [heads EXCEPT ![b] = c]
          /\ IF b = "main"
             THEN \E o \in {"none", "success", "skipped"} : hosted' = [hosted EXCEPT ![c] = o]
             ELSE UNCHANGED hosted
    /\ UNCHANGED <<file, mem, pc, kind, errors, cloud, flight, remote, service,
                   warm, nonces, crashes>>

\* The job reaches only the runner that carries its nonce.
JobStart(r) ==
    /\ r \in cloud /\ r.kind = "workflow_run" /\ r.status = "queued"
    /\ service = r.nonce
    /\ \E q \in cloud : q.kind = "runner" /\ q.nonce = r.nonce
    /\ cloud' = (cloud \ {r}) \union {[r EXCEPT !.status = "running"]}
    /\ UNCHANGED <<file, mem, pc, kind, errors, flight, heads, hosted, remote,
                   service, warm, nonces, crashes>>

\* An ephemeral runner leaves after its job.
JobEnd(r) ==
    /\ r \in cloud /\ r.status = "running"
    /\ Cancelled({r})
    /\ UNCHANGED <<file, mem, pc, kind, errors, flight, heads, hosted, remote,
                   warm, nonces, crashes>>

Crash ==
    /\ pc # "idle" /\ crashes < MaxCrashes /\ crashes' = crashes + 1
    /\ Abort /\ UNCHANGED nonces /\ Quiet

Launching ==
    \/ mark_pending \/ SendCreate \/ CreateReply \/ CreateFailed \/ clear_pending
    \/ wait_for_ssh \/ prepare_remote \/ install_runner \/ register_runner
    \/ start_service \/ wait_runner_online

Destroying ==
    \/ recover_pending \/ cancel_workflow_run \/ delete_and_confirm \/ DestroyFinish

Next ==
    \/ \E c \in 1 .. MaxCommit : launch(c)
    \/ Launching \/ resume \/ rearm \/ RearmRotate
    \/ warm_storage \/ StopDocker
    \/ \E b \in Branches : dispatch(b)
    \/ AdoptDispatch \/ VerifyDispatch \/ LookupFailed
    \/ destroy \/ Destroying
    \/ \E q \in flight : ServerApply(q) \/ ServerReject(q)
    \/ \E b \in Branches : Push(b)
    \/ \E r \in cloud : JobStart(r) \/ JobEnd(r)
    \/ Crash

Spec == Init /\ [][Next]_vars

\* Fairness: the servers decide every request, a running command goes on, and
\* an operator who keeps running destroy meets inventories that show what
\* exists, look-ups that answer and deletions that succeed.
FairSpec ==
    /\ Spec
    /\ WF_vars(\E q \in flight : ServerApply(q) \/ ServerReject(q))
    /\ WF_vars(Launching \/ RearmRotate \/ StopDocker \/ VerifyDispatch)
    /\ WF_vars(Destroying \/ LookupFailed)
    /\ SF_vars(destroy)
    /\ SF_vars(recover_pending /\ pc' # "idle")
    /\ SF_vars(cancel_workflow_run /\ pc = "d_cancel")
    /\ \A k \in Kinds : SF_vars(delete_and_confirm /\ kind = k /\ ~errors')

---------------------------------------------------------------------------
\* Properties

TypeOK ==
    /\ file.phase \in {"absent", "creating", "preparing-quartus",
                       "installing-runner", "ready", "dispatched", "failed",
                       "destroy-failed"}
    /\ pc \in {"idle", "mark", "send", "await", "record", "boot", "prepare",
               "install", "register", "service", "online", "rotate", "stop",
               "verify", "cancel", "d_recover", "d_cancel", "d_delete", "d_finish"}
    /\ kind \in Kinds /\ file.pending \subseteq Kinds
    /\ nonces \in 0 .. MaxNonce /\ crashes \in 0 .. MaxCrashes

\* Whatever was asked of the cloud and is not over (a resource, an unfinished
\* run, a request still under way) is in the state file, by ID or as a pending
\* create under the name an inventory will show: no crash, lost answer, late
\* application, rearm or destroy makes the lab forget a billable resource.
NothingForgotten ==
    \A r \in Live \union flight :
        /\ file.phase # "absent"
        /\ \/ file.id[r.kind] = r.nonce
           \/ r.kind \in file.pending /\ r.name = resource_names(file, r.kind)

\* No request leaves twice: what is sent again is never a create whose first
\* request was applied or is still under way, so one nonce has one runner and
\* one run.
NeverAskedTwice ==
    [][SendCreate => ~ \E r \in cloud \union flight :
                          r.kind = kind /\ r.nonce = mem.nonce]_vars

\* A lab recorded as dispatched has the run it recorded: this nonce, the
\* recorded branch and commit, and for a candidate the prepared commit with
\* its hosted regression, whatever was pushed meanwhile.
DispatchedRunIsExact ==
    file.phase = "dispatched" =>
        \E r \in Ours(file, "workflow_run") :
            /\ recorded_workflow(r, file)
            /\ r.branch = "main" => r.sha = file.commit /\ hosted[r.sha] = "success"

\* An operator who keeps destroying a lab whose uncertain creates are all
\* visible gets rid of it.
Reconcilable ==
    /\ file.phase # "absent"
    /\ \A k \in file.pending : \E r \in cloud :
          /\ r.kind = k /\ r.nonce = file.nonce
          /\ k = "workflow_run" => recorded_workflow(r, file)
DestroyCompletes == []<>~Reconcilable

=============================================================================
