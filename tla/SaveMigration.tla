---------------------------- MODULE SaveMigration ----------------------------
(***************************************************************************)
(* The save migrators.  migrate_cartridge_save_namespace.py copies the     *)
(* shared cartridge saves of selected titles into the core's own namespace *)
(* and rolls back what it created when a later copy fails;                 *)
(* migrate_swan_song_namespace.py copies console EEPROMs and JSON without  *)
(* a rollback; migrate_type01_save.py and migrate_legacy_eeprom_save.py    *)
(* write one converted file.  None of them moves, edits or replaces a      *)
(* file that exists.                                                       *)
(***************************************************************************)
EXTENDS CardFiles

CONSTANTS Titles,        \* selected titles, in path order
          SaveType,      \* title -> footer save type
          HasRtc         \* title -> the footer names a real-time clock

ASSUME TitleList == Len(Titles) \in Nat /\ Titles = [k \in 1 .. Len(Titles) |-> Titles[k]]

Shared(t) == <<"shared", t>>
Own(t) == <<"own", t>>

-----------------------------------------------------------------------------
(* Save layouts.  A save file is the memory it holds and what follows it;  *)
(* `form` names the layout, by its size, that the file has on the card.    *)
(* "canonical" is the size the core expects for the title; "agg01",        *)
(* "agg_padded" and "trailer" are the inherited layouts; "odd" any other.  *)

Layouts == {"canonical", "agg01", "agg_padded", "trailer", "trailer_no_rt", "odd"}

(* The layouts with a size a title's save can have. *)
Possible(t, l) ==
  \/ l \in {"canonical", "odd"}
  \/ l = "agg01" /\ SaveType[t] = 1
  \/ l = "agg_padded" /\ SaveType[t] \in {16, 80}
  \/ l \in {"trailer", "trailer_no_rt"} /\ SaveType[t] \in {2, 32} /\ ~HasRtc[t]

(* _convert_save: the memory is kept, the clock moved behind it when the   *)
(* title has one; an unknown layout, or a trailer that is not the          *)
(* removable one, is an error.                                             *)
Convertible(t, l) ==
  \/ l = "canonical"
  \/ l = "agg01" /\ SaveType[t] = 1
  \/ l = "agg_padded" /\ SaveType[t] \in {16, 80}
  \/ l = "trailer" /\ SaveType[t] \in {2, 32} /\ ~HasRtc[t]

convert_save(t, file) == Data(file.by, file.n, "canonical")

-----------------------------------------------------------------------------
(* Planning. *)

Migrating == task.tool \in {"cartridge", "namespace", "convert"}
On(pc) == Migrating /\ task.pc = pc

(* The titles whose shared save exists, in path order; none is no plan.    *)
Saved == {Titles[k] : k \in {j \in 1 .. Len(Titles) : Has(Pub(Shared(Titles[j])))}}
Place(t) == CHOOSE k \in 1 .. Len(Titles) : Titles[k] = t
Selected ==
  {s \in UNION {[1 .. n -> Saved] : n \in 1 .. Len(Titles)} :
     /\ \A t \in Saved : \E k \in DOMAIN s : s[k] = t
     /\ \A j, k \in DOMAIN s : j < k => Place(s[j]) < Place(s[k])}

(* plan_migration: the saves of the selected titles, converted; any layout  *)
(* it cannot convert, and any destination that differs, refuses the plan.  *)
Planned(s) == [k \in 1 .. Len(s) |->
                 Item(Own(s[k]), convert_save(s[k], fs[Pub(Shared(s[k]))]))]
Acceptable(item) == DataOf(Look(Pub(item.name))) \in {DataOf(NoFile), item.payload}

plan_migration ==
  \E s \in Selected :
    /\ \A k \in 1 .. Len(s) : Convertible(s[k], fs[Pub(Shared(s[k]))].form)
    /\ \A k \in 1 .. Len(s) : Acceptable(Planned(s)[k])
    /\ Starts("cartridge", "replan", Planned(s), s)

(* The namespace migrator copies whole files: no conversion. *)
Copied(s) == [k \in 1 .. Len(s) |-> Item(Own(s[k]), DataOf(fs[Pub(Shared(s[k]))]))]
plan_namespace ==
  \E s \in Selected :
    /\ \A k \in 1 .. Len(s) : Acceptable(Copied(s)[k])
    /\ Starts("namespace", "replan", Copied(s), s)

(* migrate_type01_save and migrate_legacy_eeprom_save: one inherited save, *)
(* one output that must not exist.                                         *)
migrate_type01_save(t) ==
  /\ Has(Pub(Shared(t))) /\ ~Has(Pub(Own(t)))
  /\ SaveType[t] = 1 /\ fs[Pub(Shared(t))].form = "agg01"
  /\ Starts("convert", "create",
            <<Item(Own(t), convert_save(t, fs[Pub(Shared(t))]))>>, <<t>>)

migrate_legacy_eeprom_save(t) ==
  /\ Has(Pub(Shared(t))) /\ ~Has(Pub(Own(t)))
  /\ SaveType[t] \in {16, 80} /\ fs[Pub(Shared(t))].form = "agg_padded"
  /\ Starts("convert", "create",
            <<Item(Own(t), convert_save(t, fs[Pub(Shared(t))]))>>, <<t>>)

(* apply_migration plans again and must find the same files. *)
SourceOf(k) == Pub(Shared(task.left[k]))
SameSource(k) ==
  /\ Has(SourceOf(k))
  /\ task.items[k].payload =
       IF task.tool = "namespace" THEN DataOf(fs[SourceOf(k)])
       ELSE convert_save(task.left[k], fs[SourceOf(k)])
apply_migration ==
  /\ On("replan")
  /\ task' = IF \A k \in 1 .. Last : SameSource(k) /\ Acceptable(task.items[k])
             THEN To("create")
             ELSE [task EXCEPT !.pc = "done", !.result = "failed"]
  /\ UNCHANGED <<fs, owed, spent>>

-----------------------------------------------------------------------------
(* One destination. *)

(* Rolling back is the cartridge migrator's alone. *)
Failing(t) == IF t.tool = "cartridge" THEN [t EXCEPT !.pc = "remove"]
              ELSE [t EXCEPT !.pc = "done", !.result = "failed"]

(* destination_state: identical is skipped, different is an error. *)
destination_state ==
  /\ On("create") /\ Has(Pub(It.name))
  /\ task' = IF DataOf(fs[Pub(It.name)]) = It.payload /\ task.tool # "convert"
             THEN Forward([task EXCEPT !.touched = Settled(It.name)],
                          "create", "complete")
             ELSE Failing(task)
  /\ UNCHANGED <<fs, owed, spent>>

write_new ==
  /\ On("create") /\ ~Has(Pub(It.name))
  /\ fs' = Put(fs, Hidden(It.name, "temporary"),
               File(NewId, [It.payload EXCEPT !.form = "partial"]))
  /\ Count("ids")
  /\ task' = With([It EXCEPT !.temp = NewId], "sync")
  /\ UNCHANGED owed

(* Mutant: the name is linked before the contents are written. *)
sync_later ==
  /\ On("sync")
  /\ task' = To("link")
  /\ UNCHANGED <<fs, owed, spent>>

sync_new ==
  /\ On("sync")
  /\ fs' = Put(fs, Hidden(It.name, "temporary"), File(It.temp, It.payload))
  /\ task' = To("link")
  /\ UNCHANGED <<owed, spent>>

(* The exclusive rename, or a hard link where it is missing; a name that   *)
(* has appeared meanwhile fails the run and the temporary is removed.      *)
install_no_replace ==
  /\ On("link")
  /\ IF Has(Pub(It.name))
     THEN /\ fs' = Drop(fs, Hidden(It.name, "temporary"))
          /\ task' = Failing(With([It EXCEPT !.temp = 0], "link"))
     ELSE /\ Renamed(Hidden(It.name, "temporary"), Pub(It.name))
          /\ task' = With([It EXCEPT !.installed = It.temp, !.temp = 0], "reread")
  /\ UNCHANGED <<owed, spent>>

(* verify_created: the file is read back.  The single-file migrators stop  *)
(* at the rename.                                                          *)
verify_created ==
  /\ On("reread")
  /\ task' =
       IF \/ task.tool = "convert"
          \/ task.tool = "namespace" /\ DataOf(Look(Pub(It.name))) = It.payload
          \/ Look(Pub(It.name)) = File(It.installed, It.payload)
       THEN Forward([task EXCEPT !.touched =
              IF task.tool = "convert" THEN @ ELSE Settled(It.name)],
              "create", "complete")
       ELSE Failing(task)
  /\ UNCHANGED <<fs, owed, spent>>

migration_complete ==
  /\ On("complete")
  /\ task' = [task EXCEPT !.pc = "done", !.result = "committed"]
  /\ UNCHANGED <<fs, owed, spent>>

(* An error removes the temporary; Ctrl-C too, but it is not an Exception, *)
(* so the cartridge migrator does not roll back.                           *)
migration_fault ==
  /\ Migrating /\ Fault
  /\ task.pc \in {"create", "sync", "link", "reread"}
  /\ task.pc = "reread" => task.tool # "convert"
  /\ fs' = IF It.temp # 0 THEN Drop(fs, Hidden(It.name, "temporary")) ELSE fs
  /\ \E interrupted \in BOOLEAN :
       LET t == With([It EXCEPT !.temp = 0], task.pc)
       IN  task' = IF interrupted
                   THEN [t EXCEPT !.pc = "done", !.result = "failed", !.hurt = TRUE]
                   ELSE Failing(t)
  /\ UNCHANGED owed

-----------------------------------------------------------------------------
(* _rollback_created_at, last created first. *)

Leftover == Backward([task EXCEPT !.report = Report(It.name)], "remove")

remove_created ==
  /\ On("remove")
  /\ IF It.installed = 0 THEN task' = Backward(task, "remove") /\ UNCHANGED fs
     ELSE IF ~Has(Pub(It.name)) THEN task' = Backward(task, "remove") /\ UNCHANGED fs
     ELSE /\ Renamed(Pub(It.name), Hidden(It.name, "rollback"))
          /\ task' = To("inspect")
  /\ UNCHANGED <<owed, spent>>

inspect_removed ==
  /\ On("inspect")
  /\ LET q == Hidden(It.name, "rollback")
     IN  IF fs[q] = File(It.installed, It.payload)
         THEN /\ fs' = Drop(fs, q)
              /\ task' = Backward([task EXCEPT !.touched =
                           IF Has(Pub(It.name)) THEN @ ELSE Settled(It.name)], "remove")
         ELSE /\ task' = Leftover
              /\ IF Has(Pub(It.name)) THEN UNCHANGED fs ELSE Renamed(q, Pub(It.name))
  /\ UNCHANGED <<owed, spent>>

remove_io_error ==
  /\ Migrating /\ Fault
  /\ task.pc \in {"remove", "inspect"} /\ It.installed # 0
  /\ task' = Leftover
  /\ UNCHANGED <<fs, owed>>

MigrationNext ==
  \/ plan_migration \/ plan_namespace
  \/ \E k \in 1 .. Len(Titles) : \/ migrate_type01_save(Titles[k])
                                 \/ migrate_legacy_eeprom_save(Titles[k])
  \/ apply_migration \/ destination_state \/ write_new \/ sync_new
  \/ install_no_replace \/ verify_created \/ migration_complete \/ migration_fault
  \/ remove_created \/ inspect_removed \/ remove_io_error
=============================================================================
