------------------------------ MODULE PresetPair ------------------------------
(***************************************************************************)
(* pocket_per_game_preset.py: generate_presets publishes the Interact and  *)
(* the Input preset of one game as a pair, from the definitions installed  *)
(* on the card.                                                            *)
(***************************************************************************)
EXTENDS CardFiles

CONSTANTS Definitions,   \* <<interact.json, input.json>> of the installed core
          Roms           \* game files in path order: stem, and whether
                         \* the size is that of a whole cartridge

ASSUME RomList == Len(Roms) \in Nat /\ DOMAIN Roms = 1 .. Len(Roms)

Kinds == <<"interact", "input">>
preset_relative_path(kind, g) == <<kind, g>>

Preset(pc) == At("preset", pc)

(* build_interact_document and build_input_document: the definition with   *)
(* the chosen values written into its defaults; refused unless it is whole *)
(* and still carries the settings contract.                                *)
ValidDefinition(k) == /\ Has(Pub(Definitions[k]))
                      /\ fs[Pub(Definitions[k])].by = "release"
build_document(k) == Data("preset", fs[Pub(Definitions[k])].n, "file")

PairOf(g) == [k \in 1 .. 2 |->
                Item(preset_relative_path(Kinds[k], g), build_document(k))]

(* generate_presets of a game asked for by hand, with or without --force. *)
generate_presets(g, force) ==
  /\ \A k \in 1 .. 2 : ValidDefinition(k)
  /\ Starts("preset", IF force THEN "forced" ELSE "prepare", PairOf(g), <<>>)

(* Preparation: the destination is read, and refused if it exists without  *)
(* --force; nothing has been written yet.                                  *)
prepare_output ==
  /\ task.tool = "preset" /\ task.pc \in {"prepare", "forced"}
  /\ LET now == Look(Pub(It.name))
     IN  task' = IF now # NoFile /\ task.pc = "prepare"
                 THEN [task EXCEPT !.pc = "done", !.result = "failed"]
                 ELSE Forward([task EXCEPT !.items[task.i].orig = now,
                                           !.touched = Settled(It.name)],
                              task.pc, "allocate")
  /\ UNCHANGED <<fs, owed, spent>>

(* _allocate_temporary, for every output before any is published. *)
allocate_temporary ==
  /\ Preset("allocate")
  /\ fs' = Put(fs, Hidden(It.name, "temporary"),
               File(NewId, [It.payload EXCEPT !.form = "partial"]))
  /\ Count("ids")
  /\ task' = With([It EXCEPT !.temp = NewId], "fillpair")
  /\ UNCHANGED owed

fill_preset ==
  /\ Preset("fillpair")
  /\ fs' = Put(fs, Hidden(It.name, "temporary"), File(It.temp, It.payload))
  /\ task' = Forward(task, "allocate", "backup")
  /\ UNCHANGED <<owed, spent>>

(* The backup name is recorded before the rename that creates it. *)
back_up ==
  /\ Preset("backup")
  /\ task' = IF It.orig = NoFile THEN To("install")
             ELSE With([It EXCEPT !.backup = TRUE], "parkpair")
  /\ UNCHANGED <<fs, owed, spent>>

park_preset ==
  /\ Preset("parkpair")
  /\ IF Has(Pub(It.name))
     THEN /\ Renamed(Pub(It.name), Hidden(It.name, "original"))
          /\ task' = To("compare")
     ELSE task' = [task EXCEPT !.pc = "undo", !.i = Last] /\ UNCHANGED fs
  /\ UNCHANGED <<owed, spent>>

(* _restore_backup: needs the parked file and a free public name. *)
Restorable(item) == CanRename(Hidden(item.name, "original"), Pub(item.name))

(* Inode and contents are compared with the snapshot. *)
compare_backup ==
  /\ Preset("compare")
  /\ IF fs[Hidden(It.name, "original")] = It.orig
     THEN task' = To("install") /\ UNCHANGED fs
     ELSE IF Restorable(It)
     THEN /\ Renamed(Hidden(It.name, "original"), Pub(It.name))
          /\ task' = [With([It EXCEPT !.backup = FALSE], "undo") EXCEPT !.i = Last]
     ELSE task' = [task EXCEPT !.pc = "undo", !.i = Last] /\ UNCHANGED fs
  /\ UNCHANGED <<owed, spent>>

install_preset ==
  /\ Preset("install")
  /\ IF Has(Pub(It.name))
     THEN task' = [task EXCEPT !.pc = "undo", !.i = Last] /\ UNCHANGED fs
     ELSE /\ Renamed(Hidden(It.name, "temporary"), Pub(It.name))
          /\ task' = To("own")
  /\ UNCHANGED <<owed, spent>>

Owned == [It EXCEPT !.installed = It.temp, !.temp = 0]
own_preset ==
  /\ Preset("own")
  /\ task' = Forward(With(Owned, "backup"), "backup", "confirm")
  /\ UNCHANGED <<fs, owed, spent>>

(* The final check of the pair; committed when both have passed. *)
confirm_preset ==
  /\ Preset("confirm")
  /\ LET t == [task EXCEPT !.touched = Settled(It.name)]
     IN  IF Look(Pub(It.name)) = File(It.installed, It.payload)
         THEN /\ task' = Forward(t, "confirm", "purge")
              /\ owed' = IF task.i = Last
                         THEN owed \ {task.items[k].orig : k \in 1 .. Last}
                         ELSE owed
         ELSE task' = [t EXCEPT !.pc = "undo", !.i = Last] /\ UNCHANGED owed
  /\ UNCHANGED <<fs, spent>>

(* The finally clause: backups go.  A Doctor run takes up its next game. *)
NextPair(t) ==
  IF t.pc # "done" THEN t
  ELSE IF t.left = <<>> THEN [t EXCEPT !.result = "committed"]
  ELSE [t EXCEPT !.pc = "doctor"]

purge_backup ==
  /\ Preset("purge")
  /\ fs' = IF It.backup THEN Drop(fs, Hidden(It.name, "original")) ELSE fs
  /\ task' = NextPair(Forward(task, "purge", "done"))
  /\ UNCHANGED <<owed, spent>>

-----------------------------------------------------------------------------
(* Failure: an error or Ctrl-C anywhere leads to _rollback_outputs. *)

Undone(t, hurt) == [t EXCEPT !.pc = "undo", !.i = Last, !.hurt = hurt]
preset_fault ==
  /\ task.tool = "preset" /\ Fault
  /\ \/ /\ task.pc \in {"prepare", "forced", "allocate", "fillpair", "backup",
                        "parkpair", "compare", "install", "own", "confirm"}
        /\ \E interrupted \in BOOLEAN :
             task' = Undone(IF task.pc = "own" /\ ~interrupted THEN With(Owned, "own")
                            ELSE task, interrupted)
     \/ /\ task.pc = "purge" /\ It.backup     \* cleanup was incomplete
        /\ task' = LET t == Forward([task EXCEPT !.report = Report(It.name)],
                                    "purge", "done")
                   IN  IF t.pc = "done" THEN [t EXCEPT !.result = "committed"] ELSE t
  /\ UNCHANGED <<fs, owed>>

Failure == Backward([task EXCEPT !.report = Report(It.name)], "undo")

undo_take ==
  /\ Preset("undo") /\ It.installed # 0
  /\ IF Has(Pub(It.name))
     THEN /\ Renamed(Pub(It.name), Hidden(It.name, "rollback"))
          /\ task' = To("undotaken")
     ELSE task' = Failure /\ UNCHANGED fs
  /\ UNCHANGED <<owed, spent>>

undo_check ==
  /\ Preset("undotaken")
  /\ IF fs[Hidden(It.name, "rollback")] = File(It.installed, It.payload)
     THEN task' = To("undorestore") /\ UNCHANGED fs
     ELSE /\ task' = Failure
          /\ IF Has(Pub(It.name)) THEN UNCHANGED fs
             ELSE Renamed(Hidden(It.name, "rollback"), Pub(It.name))
  /\ UNCHANGED <<owed, spent>>

(* Mutant: the installed file goes, its backup stays hidden. *)
undo_discard_only ==
  /\ Preset("undorestore")
  /\ fs' = Drop(fs, Hidden(It.name, "rollback"))
  /\ task' = Backward(task, "undo")
  /\ UNCHANGED <<owed, spent>>

(* Then the backup returns and the installed file, now hidden, goes. *)
undo_restore ==
  /\ Preset("undorestore")
  /\ IF It.backup
     THEN IF Restorable(It)
          THEN /\ fs' = Drop(Move(fs, Hidden(It.name, "original"), Pub(It.name)),
                             Hidden(It.name, "rollback"))
               /\ task' = Backward([task EXCEPT !.touched = Settled(It.name)], "undo")
          ELSE task' = Failure /\ UNCHANGED fs
     ELSE /\ fs' = Drop(fs, Hidden(It.name, "rollback"))
          /\ task' = Backward([task EXCEPT !.touched =
                       IF Has(Pub(It.name)) THEN @ ELSE Settled(It.name)], "undo")
  /\ UNCHANGED <<owed, spent>>

(* An output that was never published: its backup, then its temporary. *)
undo_unpublished ==
  /\ Preset("undo") /\ It.installed = 0
  /\ LET back == IF It.backup
                 THEN Move(fs, Hidden(It.name, "original"), Pub(It.name)) ELSE fs
         tmp == Hidden(It.name, "temporary")
     IN  IF It.backup /\ ~Restorable(It)
         THEN task' = Failure /\ UNCHANGED fs
         ELSE IF It.temp # 0 /\ ~Has(tmp)
         THEN task' = Failure /\ fs' = back
         ELSE /\ fs' = IF It.temp # 0 THEN Drop(back, tmp) ELSE back
              /\ task' = Backward([task EXCEPT !.touched =
                           IF It.backup THEN Settled(It.name) ELSE @], "undo")
  /\ UNCHANGED <<owed, spent>>

undo_io_error ==
  /\ task.tool = "preset" /\ Fault
  /\ task.pc \in {"undo", "undotaken", "undorestore"}
  /\ task' = Failure
  /\ UNCHANGED <<fs, owed>>

PresetNext ==
  \/ \E k \in 1 .. Len(Roms), force \in BOOLEAN : generate_presets(Roms[k].stem, force)
  \/ prepare_output \/ allocate_temporary \/ fill_preset \/ back_up \/ park_preset
  \/ compare_backup \/ install_preset \/ own_preset \/ confirm_preset \/ purge_backup
  \/ preset_fault \/ undo_take \/ undo_check \/ undo_restore
  \/ undo_unpublished \/ undo_io_error
=============================================================================
