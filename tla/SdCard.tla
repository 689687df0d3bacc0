-------------------------------- MODULE SdCard --------------------------------
(***************************************************************************)
(* The card and the tools that write it, one command at a time: staging,   *)
(* per-game presets and the Doctor, and the save migrators.  The presets   *)
(* are generated from the definitions the staging tool installs.           *)
(***************************************************************************)
EXTENDS SdStaging, Doctor

Each(S(_), seq) == [k \in 1 .. Len(seq) |-> S(seq[k])]
PresetPlaces == [k \in 1 .. 2 * Len(Roms) |->
                   preset_relative_path(Kinds[((k + 1) % 2) + 1], Roms[(k + 1) \div 2].stem)]
OwnPlaces == Each(Own, Titles)
Sources == Each(Shared, Titles)
Places == Managed \o PresetPlaces \o OwnPlaces \o Sources
InodeOf(p) == CHOOSE k \in 1 .. Len(Places) : Places[k] = p
Members(seq) == {seq[k] : k \in 1 .. Len(seq)}

(* What a card holds at first under a name. *)
Held(p, layout) ==
  File(InodeOf(p),
       IF p \in Members(Managed) THEN Release(0)
       ELSE IF p \in Members(Sources) THEN Data("owner", InodeOf(p), layout[p[2]])
       ELSE Data("owner", InodeOf(p), "canonical"))

(* Cards an owner may hand to the tools.  The plain card has the release    *)
(* complete, no presets, and the canonical saves of two titles; the others  *)
(* differ from it in one area: part of the release is missing, the first    *)
(* game has hand-made presets, some saves were migrated before, or a single *)
(* title's save has any layout it can have.                                 *)
FirstTwo(seq) == {seq[k] : k \in {1, 2} \cap DOMAIN seq}
Plain == Members(Managed) \cup FirstTwo(Sources)
Cards ==
  {<<(Plain \ Members(Managed)) \cup m, "canonical">> : m \in SUBSET Members(Managed)}
  \cup {<<Plain \cup q, "canonical">> :
          q \in (SUBSET FirstTwo(PresetPlaces)) \cup (SUBSET FirstTwo(OwnPlaces))}
  \cup {<<Members(Managed) \cup {q}, l>> : q \in Members(Sources), l \in Layouts}

Init ==
  /\ \E card \in Cards, layout \in [Members(Titles) -> Layouts] :
       /\ \A t \in Members(Titles) :
            layout[t] = IF Possible(t, card[2]) THEN card[2] ELSE "canonical"
       /\ fs = [m \in {Pub(p) : p \in card[1]} |-> Held(m[1], layout)]
  /\ owed = {fs[m] : m \in DOMAIN fs}
  /\ task = Idle
  /\ spent = [ids |-> Len(Places), foreign |-> 0, faults |-> 0, runs |-> 0]

(* The owner meddles with what the running tool reads or writes. *)
Concerned == {task.items[k].name : k \in 1 .. Last}
             \cup IF Migrating THEN {Shared(task.left[k]) : k \in 1 .. Len(task.left)} ELSE {}
Owner == \E n \in Concerned :
           ForeignSave(n) \/ ForeignEdit(n) \/ ForeignDelete(n)

Next == \/ StagingNext \/ PresetNext \/ DoctorNext \/ MigrationNext
        \/ Owner \/ Crash \/ Finish

Spec == Init /\ [][Next]_cardVars

-----------------------------------------------------------------------------
(* Nothing of the owner's is lost, at any instant of any transaction, with  *)
(* failures, Ctrl-C and crashes: every file the owner put on the card is    *)
(* still on it under some name, with its contents, unless the owner removed *)
(* it or a transaction that snapshotted it has committed.  For the staging  *)
(* tool that is the inode it snapshotted: an original edited in place after *)
(* the snapshot and before it was parked goes with the commit.              *)
NothingLost == owed \subseteq {fs[m] : m \in DOMAIN fs} \cup {NoFile}

(* No public name ever shows a half-written file, whatever step the tool    *)
(* died in: every publisher fills and syncs a hidden temporary first.       *)
PublicNamesWhole == \A m \in DOMAIN fs : IsPublic(m) => fs[m].form # "partial"

(* A transaction that failed has put every name back as the owner last left *)
(* it, or it reports a conflict for that name: the rollbacks of the staging *)
(* tool, of a preset pair and of the cartridge migrator (the namespace      *)
(* migrator has none).  Only where the owner removed what it had saved      *)
(* while its original was parked may the original be back.                  *)
RollbackRestores ==
  task.pc = "done" /\ task.result = "failed" /\ ~task.hurt /\ task.tool # "namespace" =>
    \A b \in task.before :
      \/ b.name \in task.report \/ Look(Pub(b.name)) = b.file
      \/ b.file = NoFile /\ Look(Pub(b.name)) \in b.had

(* On a card the staging tool reports as installed the Doctor finds both    *)
(* definitions in order, also when the files left alone as unchanged are    *)
(* the ones another program took away while the tool ran; so it can plan    *)
(* presets unless two games share a stem.  And no preset it calls invalid   *)
(* is one that the tools generated.                                         *)
InstalledCardIsHealthy ==
  task.pc = "done" /\ task.tool = "stage" /\ task.result = "committed" /\ task.touched = {} =>
    /\ validate_definitions = {}
    /\ (\A g \in Stems : ~Ambiguous(g)) => Plannable
    /\ \A k \in 1 .. 2 : \A f \in inspect_preset_kind(Kinds[k]) :
         f.code = "preset-invalid" => fs[Pub(f.path)].by # "preset"

=============================================================================
