------------------------------ MODULE SdStaging ------------------------------
(***************************************************************************)
(* stage_pocket_sd.py, the write transaction: apply_staging and the        *)
(* helpers it publishes, rolls back and cleans up with.  What the tool     *)
(* accepts as a package is the subject of Release.tla.                     *)
(***************************************************************************)
EXTENDS CardFiles

CONSTANT Managed     \* the package's files, in plan order

(* A package has files, each named once. *)
ASSUME PackageFiles ==
  /\ Len(Managed) \in Nat \ {0} /\ Managed = [k \in 1 .. Len(Managed) |-> Managed[k]]
  /\ \A j, k \in 1 .. Len(Managed) : Managed[j] = Managed[k] => j = k

Release(r) == Data("release", r, "file")

Stage(pc) == At("stage", pc)
Changes(item) == DataOf(item.orig) # item.payload

(* plan_staging: the files of package r, classified against the card. *)
plan_staging(r) ==
  /\ Starts("stage", "snapshot",
            [k \in 1 .. Len(Managed) |-> Item(Managed[k], Release(r))], <<>>)

(* apply_staging, preparation: every original is read before the first write. *)
snapshot_original ==
  /\ Stage("snapshot")
  /\ task' = Forward([task EXCEPT !.items[task.i].orig = Look(Pub(It.name)),
                                  !.touched = Settled(It.name)],
                     "snapshot", "write")
  /\ UNCHANGED <<fs, owed, spent>>

(* A file already equal to the package's is left alone. *)
skip_unchanged ==
  /\ Stage("write") /\ ~Changes(It)
  /\ task' = Forward(task, "write", "verify")
  /\ UNCHANGED <<fs, owed, spent>>

(* _atomic_write_at: the temporary is created, then filled and synced. *)
create_temporary ==
  /\ Stage("write") /\ Changes(It)
  /\ fs' = Put(fs, Hidden(It.name, "temporary"),
               File(NewId, [It.payload EXCEPT !.form = "partial"]))
  /\ Count("ids")
  /\ task' = With([It EXCEPT !.temp = NewId], "fill")
  /\ UNCHANGED owed

fill_temporary ==
  /\ Stage("fill")
  /\ fs' = Put(fs, Hidden(It.name, "temporary"), File(It.temp, It.payload))
  /\ task' = To(IF It.orig = NoFile THEN "publish" ELSE "park")
  /\ UNCHANGED <<owed, spent>>

(* The name is moved aside whatever it holds now; a missing name raises. *)
park_original ==
  /\ Stage("park")
  /\ IF Has(Pub(It.name))
     THEN /\ Renamed(Pub(It.name), Hidden(It.name, "original"))
          /\ task' = To("check")
     ELSE task' = To("unwind") /\ UNCHANGED fs
  /\ UNCHANGED <<owed, spent>>

(* _restore_quarantine when the public name is free, else it stays parked. *)
RestoredOr(purpose) ==
  IF CanRename(Hidden(It.name, purpose), Pub(It.name))
  THEN Renamed(Hidden(It.name, purpose), Pub(It.name)) ELSE UNCHANGED fs

(* Only the inode is compared with the snapshot. *)
check_parked ==
  /\ Stage("check")
  /\ IF fs[Hidden(It.name, "original")].id = It.orig.id
     THEN task' = To("publish") /\ UNCHANGED fs
     ELSE task' = To("unwind") /\ RestoredOr("original")
  /\ UNCHANGED <<owed, spent>>

(* Mutant: a replacing rename, as os.replace would do. *)
publish_replacing ==
  /\ Stage("publish")
  /\ Renamed(Hidden(It.name, "temporary"), Pub(It.name))
  /\ task' = To("record")
  /\ UNCHANGED <<owed, spent>>

publish ==
  /\ Stage("publish")
  /\ IF Has(Pub(It.name))
     THEN task' = To("unwind") /\ RestoredOr("original")
     ELSE /\ Renamed(Hidden(It.name, "temporary"), Pub(It.name))
          /\ task' = To("record")
  /\ UNCHANGED <<owed, spent>>

(* on_replace: only now does the transaction know what it installed. *)
Recorded == [It EXCEPT !.installed = It.temp, !.temp = 0,
                       !.backup = (It.orig # NoFile)]
record_publication ==
  /\ Stage("record")
  /\ task' = Forward(With(Recorded, "write"), "write", "verify")
  /\ UNCHANGED <<fs, owed, spent>>

(* Mutant: files left alone as unchanged are not verified. *)
AsVerifiedIfChanged(item) ==
  item.installed # 0 => Look(Pub(item.name)) = File(item.installed, item.payload)

(* _verify_installed_paths, one file. *)
AsVerified(item) ==
  IF item.installed # 0
  THEN Look(Pub(item.name)) = File(item.installed, item.payload)
  ELSE Look(Pub(item.name)) = item.orig

(* What the commit lets go: the owner's files that have the inode of an    *)
(* original the transaction parked.                                        *)
Superseded == {f \in owed : \E k \in 1 .. Last :
                 task.items[k].backup /\ f.id = task.items[k].orig.id}

verify_installed ==
  /\ Stage("verify")
  /\ LET t == [task EXCEPT !.touched = Settled(It.name)]
     IN  IF AsVerified(It)
         THEN /\ task' = Forward(t, "verify", "cleanup")
              /\ owed' = IF task.i = Last    \* the transaction has committed
                         THEN owed \ Superseded ELSE owed
         ELSE task' = [t EXCEPT !.pc = "rollback", !.i = Last] /\ UNCHANGED owed
  /\ UNCHANGED <<fs, spent>>

(* _cleanup_originals: the parked originals are discarded by identity. *)
cleanup_original ==
  /\ Stage("cleanup")
  /\ fs' = IF It.backup THEN Drop(fs, Hidden(It.name, "original")) ELSE fs
  /\ task' = LET t == Forward(task, "cleanup", "done")
             IN  IF t.pc = "done" THEN [t EXCEPT !.result = "committed"] ELSE t
  /\ UNCHANGED <<owed, spent>>

-----------------------------------------------------------------------------
(* Failure. *)

(* A system call fails: the except clauses of _atomic_write_at put the     *)
(* parked original back; a failed cleanup is reported and skipped.         *)
staging_io_error ==
  /\ task.tool = "stage"
  /\ Fault
  /\ \/ /\ task.pc = "snapshot"
        /\ task' = [task EXCEPT !.pc = "done", !.result = "failed"]
        /\ UNCHANGED fs
     \/ /\ task.pc \in {"write", "fill", "park"} /\ Changes(It)
        /\ task' = To("unwind") /\ UNCHANGED fs
     \/ /\ task.pc \in {"check", "publish"}
        /\ task' = To("unwind") /\ RestoredOr("original")
     \/ /\ task.pc = "record"          \* the late fsync
        /\ task' = With(Recorded, "unwind") /\ UNCHANGED fs
     \/ /\ task.pc = "verify"
        /\ task' = [task EXCEPT !.pc = "rollback", !.i = Last] /\ UNCHANGED fs
     \/ /\ task.pc = "cleanup" /\ It.backup
        /\ task' = LET t == Forward([task EXCEPT !.report = Report(It.name)],
                                    "cleanup", "done")
                   IN  IF t.pc = "done" THEN [t EXCEPT !.result = "committed"] ELSE t
        /\ UNCHANGED fs
  /\ UNCHANGED owed

(* Ctrl-C: `except Exception` does not see it, `except BaseException` in   *)
(* apply_staging does, and rolls back what was recorded.                   *)
staging_interrupt ==
  /\ task.tool = "stage"
  /\ task.pc \in {"write", "fill", "park", "check", "publish", "record", "verify"}
  /\ Fault
  /\ task' = [task EXCEPT !.hurt = TRUE,
                          !.pc = IF task.pc = "verify" THEN "rollback" ELSE "unwind",
                          !.i = IF task.pc = "verify" THEN Last ELSE @]
  /\ UNCHANGED <<fs, owed>>

(* The finally clause of _atomic_write_at, then the rollback begins. *)
unwind ==
  /\ Stage("unwind")
  /\ fs' = IF It.temp # 0 /\ Has(Hidden(It.name, "temporary"))
           THEN Drop(fs, Hidden(It.name, "temporary")) ELSE fs
  /\ task' = With([It EXCEPT !.temp = 0], "rollback")
  /\ UNCHANGED <<owed, spent>>

-----------------------------------------------------------------------------
(* _rollback_files, last changed file first. *)

OriginalMatches(item) == Look(Pub(item.name)) = item.orig
Conflict == Backward([task EXCEPT !.report = Report(It.name)], "rollback")

rollback_unpublished ==
  /\ Stage("rollback") /\ It.installed = 0
  /\ task' = IF ~Changes(It) THEN Backward(task, "rollback")
             ELSE IF OriginalMatches(It)
             THEN Backward([task EXCEPT !.touched = Settled(It.name)], "rollback")
             ELSE Conflict
  /\ UNCHANGED <<fs, owed, spent>>

rollback_take ==
  /\ Stage("rollback") /\ It.installed # 0
  /\ IF Has(Pub(It.name))
     THEN /\ Renamed(Pub(It.name), Hidden(It.name, "rollback"))
          /\ task' = To("taken")
     ELSE task' = Conflict /\ UNCHANGED fs
  /\ UNCHANGED <<owed, spent>>

(* A file that is not exactly the installed one goes back, exclusively. *)
rollback_check ==
  /\ Stage("taken")
  /\ IF fs[Hidden(It.name, "rollback")] = File(It.installed, It.payload)
     THEN task' = To("restore") /\ UNCHANGED fs
     ELSE task' = Conflict /\ RestoredOr("rollback")
  /\ UNCHANGED <<owed, spent>>

rollback_restore ==
  /\ Stage("restore")
  /\ IF It.orig = NoFile THEN task' = To("discard") /\ UNCHANGED fs
     ELSE IF It.backup /\ CanRename(Hidden(It.name, "original"), Pub(It.name))
     THEN /\ Renamed(Hidden(It.name, "original"), Pub(It.name))
          /\ task' = To("discard")
     ELSE task' = Conflict /\ UNCHANGED fs
  /\ UNCHANGED <<owed, spent>>

(* _discard_quarantined_file, then the final comparison. *)
rollback_discard ==
  /\ Stage("discard")
  /\ fs' = Drop(fs, Hidden(It.name, "rollback"))
  /\ task' = IF OriginalMatches(It)
             THEN Backward([task EXCEPT !.touched = Settled(It.name)], "rollback")
             ELSE Conflict
  /\ UNCHANGED <<owed, spent>>

(* An I/O error inside the rollback is reported, the next file is tried. *)
rollback_io_error ==
  /\ task.tool = "stage" /\ Fault
  /\ task.pc \in {"rollback", "taken", "restore", "discard"}
  /\ Changes(It)
  /\ task' = Conflict
  /\ UNCHANGED <<fs, owed>>

StagingNext ==
  \/ \E r \in 1 .. 2 : plan_staging(r)
  \/ snapshot_original \/ skip_unchanged \/ create_temporary \/ fill_temporary
  \/ park_original \/ check_parked \/ publish \/ record_publication
  \/ verify_installed \/ cleanup_original \/ unwind
  \/ staging_io_error \/ staging_interrupt
  \/ rollback_unpublished \/ rollback_take \/ rollback_check
  \/ rollback_restore \/ rollback_discard \/ rollback_io_error
=============================================================================
